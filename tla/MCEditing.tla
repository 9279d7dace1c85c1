----------------------------- MODULE MCEditing -----------------------------
(* Text on its way: from the terminal's bytes to keys, to the line, to the *)
(* prompt that is sent, and from the agent to a file and the diff of what   *)
(* was changed.  A behaviour is about one of these, focus.                  *)
EXTENDS StdinReader, KeyDecoding, InputLine, PromptEntry, FileHelpers, LineDiff

VARIABLE focus

mcVars ==
  <<readerVars, keyVars, inputVars, entryVars, helperVars, diffVars, focus>>

MCInit ==
  /\ ReaderInit /\ KeysInit /\ LineInit /\ EntryInit /\ HelpersInit /\ DiffInit
  /\ focus \in {"reader", "keys", "line", "entry", "helpers", "diff"}
  \* Of several first states one is enough for what stands still.
  /\ focus # "line" => width = Max(Widths)
  /\ focus # "helpers" => file = <<>> /\ written = {}
  /\ focus # "diff" => old = <<>> /\ new = <<>>

MCNext ==
  /\ UNCHANGED focus
  /\ \/ focus = "reader" /\ ReaderNext
     \/ focus # "reader" /\ UNCHANGED readerVars
  /\ \/ focus = "keys" /\ KeysNext
     \/ focus # "keys" /\ UNCHANGED keyVars
  /\ \/ focus = "line" /\ LineNext
     \/ focus # "line" /\ UNCHANGED inputVars
  /\ \/ focus = "entry" /\ EntryNext
     \/ focus # "entry" /\ UNCHANGED entryVars
  /\ \/ focus = "helpers" /\ HelpersNext
     \/ focus # "helpers" /\ UNCHANGED helperVars
  /\ \/ focus = "diff" /\ DiffNext
     \/ focus # "diff" /\ UNCHANGED diffVars

MCSpec == MCInit /\ [][MCNext]_mcVars

-----------------------------------------------------------------------------
(* Pastes: plain text, text with a long sequence of its own, text that      *)
(* looks like a key with Alt, text that ends in a short sequence, and text  *)
(* with an end marker of its own.                                           *)
MCTexts == {<<"x">>, <<"x", "ESC", "[", "x", "x", "x", "x">>, <<"ESC", "x">>, <<"ESC", "[", "x">>,
            <<"ESC", "[", "2", "0", "1", "~">>}

\* Nothing tells one pasted text, one word or one line from another but that they differ.
MCSymmetry == Permutations(Contents) \cup Permutations(Words) \cup Permutations(Lines)
=============================================================================
