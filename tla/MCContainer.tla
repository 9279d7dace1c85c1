---------------------------- MODULE MCContainer ----------------------------
(* One worktree beside the workspace, one custom Dockerfile.               *)
EXTENDS Container
=============================================================================
