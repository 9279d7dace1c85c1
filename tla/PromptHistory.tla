--------------------------- MODULE PromptHistory ---------------------------
(***************************************************************************)
(* The prompt history of a workspace (history.go): a file that several     *)
(* herm processes append to, that each of them loads when it starts and    *)
(* rewrites when it has grown too long, and the walk through it with the   *)
(* arrow keys.  Writes that fail are ignored by the code.                  *)
(***************************************************************************)
EXTENDS Naturals, Integers, Sequences, FiniteSets, SequencesExt

CONSTANTS
  Procs,      \* herm processes; each runs once
  Prompts,    \* texts a user types
  MaxSize,    \* maxSize: prompts a process remembers
  MaxPrompts  \* bound: prompts ever added

NoText == ""   \* an empty input line

ASSUME HistoryAssumption ==
  /\ MaxSize \in Nat \ {0} /\ MaxPrompts \in Nat
  /\ {NoText, "absent"} \cap Prompts = {}

VARIABLES
  files,    \* the directory: contents of the inodes "file" and "tmp", or Absent
  handle,   \* per process, the inode its rewrite has open: "file", "tmp", "gone" or "none"
  proc,     \* per process: "new", "counting", "rewriting", "written", "ready", "over"
  entries,  \* History.entries
  index,    \* History.index: -1 when not navigating
  draft,    \* History.draft
  line,     \* the input line
  log,      \* history: every prompt that was appended, in order
  raced,    \* history: a rewrite was under way when somebody else was, or appended
  typed     \* history: what the user has typed last and neither sent nor given up

histVars == <<files, handle, proc, entries, index, draft, line, log, raced, typed>>
navVars == <<index, draft, line, typed>>

Absent == <<"absent">>
Newest(s) == IF Len(s) > MaxSize THEN SubSeq(s, Len(s) - MaxSize + 1, Len(s)) ELSE s
Content(f) == IF files[f] = Absent THEN <<>> ELSE files[f]
Loading == {p \in Procs : proc[p] \in {"counting", "rewriting", "written"}}

HistoryTypeOK ==
  /\ files \in [{"file", "tmp"} -> Seq(Prompts) \cup {Absent}]
  /\ handle \in [Procs -> {"file", "tmp", "gone", "none"}]
  /\ proc \in [Procs -> {"new", "counting", "rewriting", "written", "ready", "over"}]
  /\ entries \in [Procs -> Seq(Prompts)]
  /\ \A p \in Procs : Len(entries[p]) <= MaxSize /\ index[p] \in -1..Len(entries[p]) - 1
  /\ {draft[p] : p \in Procs} \cup {line[p] : p \in Procs} \subseteq Prompts \cup {NoText}
  /\ log \in Seq(Prompts) /\ raced \in BOOLEAN

HistoryInit ==
  /\ files = [f \in {"file", "tmp"} |-> Absent]
  /\ handle = [p \in Procs |-> "none"]
  /\ proc = [p \in Procs |-> "new"]
  /\ entries = [p \in Procs |-> <<>>]
  /\ index = [p \in Procs |-> -1]
  /\ draft = [p \in Procs |-> NoText]
  /\ line = [p \in Procs |-> NoText]
  /\ log = <<>> /\ raced = FALSE
  /\ typed = [p \in Procs |-> NoText]

-----------------------------------------------------------------------------
(* Load, and the rewrite of a file that has grown too long                  *)

\* Not the code: the oldest lines are kept.
LoadOldest(p) ==
  /\ proc[p] = "new"
  /\ entries' = [entries EXCEPT ![p] =
       LET c == Content("file") IN IF Len(c) > MaxSize THEN SubSeq(c, 1, MaxSize) ELSE c]
  /\ proc' = [proc EXCEPT ![p] = IF files["file"] = Absent THEN "ready" ELSE "counting"]
  /\ UNCHANGED <<files, handle, navVars, log, raced>>

\* A file that is not there is an empty history, and nothing is counted.
Load(p) ==
  /\ proc[p] = "new"
  /\ entries' = [entries EXCEPT ![p] = Newest(Content("file"))]
  /\ proc' = [proc EXCEPT ![p] = IF files["file"] = Absent THEN "ready" ELSE "counting"]
  /\ UNCHANGED <<files, handle, navVars, log, raced>>

\* The lines are counted in a second reading.  A prompt that was appended since the
\* first one is not in entries, and a rewrite loses it.
CompactIfNeeded(p) ==
  /\ proc[p] = "counting"
  /\ IF Len(Content("file")) > 2 * MaxSize
       THEN /\ proc' = [proc EXCEPT ![p] = "rewriting"]
            /\ files' = [files EXCEPT !["tmp"] = <<>>]
            /\ handle' = [handle EXCEPT ![p] = "tmp"]
       ELSE /\ proc' = [proc EXCEPT ![p] = "ready"]
            /\ UNCHANGED <<files, handle>>
  /\ raced' = (raced \/ Loading # {p})
  /\ UNCHANGED <<entries, navVars, log>>

\* The temporary file is opened without exclusion: of two processes that rewrite, the
\* second writes over what the first has written, or into the history file itself.
RewriteWrites(p) ==
  /\ proc[p] = "rewriting"
  /\ proc' = [proc EXCEPT ![p] = "written"]
  /\ files' = IF handle[p] = "gone" THEN files
                ELSE [files EXCEPT ![handle[p]] =
                       entries[p] \o SubSeq(Content(handle[p]), Len(entries[p]) + 1,
                                            Len(Content(handle[p])))]
  /\ UNCHANGED <<handle, entries, navVars, log, raced>>

AfterRename(inode) == IF inode = "tmp" THEN "file" ELSE IF inode = "file" THEN "gone" ELSE inode
RewriteRenames(p) ==
  /\ proc[p] = "written"
  /\ proc' = [proc EXCEPT ![p] = "ready"]
  /\ IF files["tmp"] = Absent
       THEN UNCHANGED files /\ handle' = [handle EXCEPT ![p] = "none"]
       ELSE /\ files' = [file |-> files["tmp"], tmp |-> Absent]
            /\ handle' = [q \in Procs |-> IF q = p THEN "none" ELSE AfterRename(handle[q])]
  /\ UNCHANGED <<entries, navVars, log, raced>>

\* The process ends, at any point of a load too.
ProcessEnds(p) ==
  /\ proc[p] # "over"
  /\ proc' = [proc EXCEPT ![p] = "over"]
  /\ handle' = [handle EXCEPT ![p] = "none"]
  /\ entries' = [entries EXCEPT ![p] = <<>>]
  /\ index' = [index EXCEPT ![p] = -1] /\ draft' = [draft EXCEPT ![p] = NoText]
  /\ line' = [line EXCEPT ![p] = NoText] /\ typed' = [typed EXCEPT ![p] = NoText]
  /\ UNCHANGED <<files, log, raced>>

-----------------------------------------------------------------------------
(* The keys.  Navigation is the pair of index and draft.                    *)

ResetNav(p) == index' = [index EXCEPT ![p] = -1] /\ draft' = [draft EXCEPT ![p] = NoText]
Show(p, text) == line' = [line EXCEPT ![p] = text]
Entry(p, i) == entries[p][Len(entries[p]) - i]
KeyFrame == <<files, handle, proc, entries, log, raced>>

\* Not the code: an edit does not leave the history.
TypeStaysThere(p, text) ==
  /\ proc[p] = "ready" /\ text # line[p]
  /\ Show(p, text) /\ typed' = [typed EXCEPT ![p] = text]
  /\ UNCHANGED <<KeyFrame, index, draft>>

\* Every edit abandons the walk.
TypeText(p, text) ==
  /\ proc[p] = "ready" /\ text # line[p]
  /\ IF index[p] # -1 THEN ResetNav(p) ELSE UNCHANGED <<index, draft>>
  /\ Show(p, text) /\ typed' = [typed EXCEPT ![p] = text]
  /\ UNCHANGED KeyFrame

Up(p) ==
  /\ proc[p] = "ready" /\ index[p] < Len(entries[p]) - 1
  /\ index' = [index EXCEPT ![p] = @ + 1]
  /\ draft' = IF index[p] = -1 THEN [draft EXCEPT ![p] = line[p]] ELSE draft
  /\ Show(p, Entry(p, index'[p]))
  /\ UNCHANGED <<KeyFrame, typed>>

Down(p) ==
  /\ proc[p] = "ready" /\ index[p] >= 0
  /\ index' = [index EXCEPT ![p] = @ - 1]
  /\ Show(p, IF index[p] = 0 THEN draft[p] ELSE Entry(p, index'[p]))
  /\ UNCHANGED <<KeyFrame, draft, typed>>

\* resetInput leaves the walk where it was.
ClearLine(p) ==
  /\ proc[p] = "ready" /\ line[p] # NoText
  /\ Show(p, NoText) /\ typed' = [typed EXCEPT ![p] = NoText]
  /\ UNCHANGED <<KeyFrame, index, draft>>

\* handleEnter with Add: a prompt equal to the newest one is sent but not added, and
\* then the walk is not reset either.
Enter(p) ==
  /\ proc[p] = "ready" /\ line[p] # NoText
  /\ Show(p, NoText) /\ typed' = [typed EXCEPT ![p] = NoText]
  /\ IF entries[p] # <<>> /\ Last(entries[p]) = line[p]
       THEN UNCHANGED <<files, entries, index, draft, log, raced>>
       ELSE /\ Len(log) < MaxPrompts
            /\ entries' = [entries EXCEPT ![p] = Newest(Append(@, line[p]))]
            /\ files' = [files EXCEPT !["file"] = Append(Content("file"), line[p])]
            /\ log' = Append(log, line[p])
            /\ raced' = (raced \/ Loading # {})
            /\ ResetNav(p)
  /\ UNCHANGED <<handle, proc>>

Keys(p) ==
  \/ \E text \in Prompts : TypeText(p, text)
  \/ Up(p) \/ Down(p) \/ ClearLine(p) \/ Enter(p)

HistoryNext ==
  \E p \in Procs :
    \/ Load(p) \/ CompactIfNeeded(p) \/ RewriteWrites(p) \/ RewriteRenames(p)
    \/ ProcessEnds(p) \/ Keys(p)

HistorySpec == HistoryInit /\ [][HistoryNext]_histVars

-----------------------------------------------------------------------------
(* Properties *)

\* As long as no two processes met while one was loading, the next load sees the
\* newest prompts ever added, whatever processes were killed in the middle of a
\* rewrite: the rename makes the rewrite atomic.
NewestSurvive == ~raced => Newest(Content("file")) = Newest(log)

\* What the user has typed is either on the line or the draft the walk comes back to.
TypedTextKept ==
  \A p \in Procs :
    typed[p] # NoText => line[p] = typed[p] \/ (index[p] # -1 /\ draft[p] = typed[p])

\* What the history keeps: the newest prompts in the file, the typed text on the screen.
HistoryInv == HistoryTypeOK /\ NewestSurvive /\ TypedTextKept
=============================================================================
