---------------------------- MODULE FileHelpers ----------------------------
(***************************************************************************)
(* edit-file and write-file on one file (tools/edit-file/main.go,          *)
(* tools/write-file/main.go), started by the edit_file and write_file      *)
(* tools (filetools.go) of agents that share a worktree.  A call that      *)
(* times out or is cancelled is given up by the tool, while its process    *)
(* goes on in the container; a process may also be killed with it.         *)
(***************************************************************************)
EXTENDS Naturals, Sequences, FiniteSets

CONSTANTS
  Words,     \* what a text is made of
  MaxWords,  \* bound: words of a text
  MaxCalls,  \* bound: calls of the two tools
  MaxFaults  \* bound: failing system calls and killed processes

ASSUME HelpersAssumption == {MaxWords, MaxCalls, MaxFaults} \subseteq Nat

VARIABLES
  file,   \* <<>>, or <<[text, mode]>>
  proc,   \* the processes, by call
  temps,  \* calls whose temporary file is there
  told,   \* what the tool returned: "nothing", "diff", "summary", "error", "gave up"
  faults, \* how many system calls failed and processes were killed
  removed, \* history: another tool has removed the file
  written \* history: the texts that are some writer's whole text

helperVars == <<file, proc, temps, told, faults, removed, written>>

Texts == UNION {[1..k -> Words] : k \in 0..MaxWords}
Calls == DOMAIN proc

EditCall(from, to, all) == [tool |-> "edit", from |-> from, to |-> to, all |-> all]
Write(text) == [tool |-> "write", text |-> text]
Asks == {EditCall(from, to, all) : from \in Words, to \in Words, all \in BOOLEAN}
        \cup {Write(text) : text \in Texts}

HelpersTypeOK ==
  /\ Len(file) <= 1 /\ \A i \in DOMAIN file : file[i].text \in Texts
  /\ \A c \in Calls : /\ proc[c].at \in {"starts", "fills", "sets mode", "renames", "ended", "killed"}
                      /\ proc[c].mode \in {"own", "temp"}
  /\ temps \subseteq Calls /\ DOMAIN told = Calls
  /\ faults <= MaxFaults

HelpersInit ==
  /\ \E text \in Texts : file \in {<<>>, <<[text |-> text, mode |-> "own"]>>}
  /\ proc = <<>> /\ temps = {} /\ told = <<>> /\ faults = 0 /\ removed = FALSE
  /\ written = {file[i].text : i \in DOMAIN file}

-----------------------------------------------------------------------------
(* The programs                                                             *)

\* EditFileTool.Execute, WriteFileTool.Execute: a process with the call as its input.
Call ==
  /\ Len(proc) < MaxCalls
  /\ \E ask \in Asks :
       proc' = Append(proc, [ask |-> ask, at |-> "starts", seen |-> <<>>, text |-> <<>>, mode |-> "temp"])
  /\ told' = Append(told, "nothing")
  /\ UNCHANGED <<file, temps, faults, removed, written>>

Fault == faults < MaxFaults /\ faults' = faults + 1 /\ UNCHANGED removed
NoFault == UNCHANGED <<faults, removed>>

\* The tool passes the answer on, if it still waits for it.
Tells(c, answer) ==
  /\ told' = IF told[c] = "nothing" THEN [told EXCEPT ![c] = answer] ELSE told
  /\ proc' = [proc EXCEPT ![c].at = "ended"]

Occurs(word, text) == {i \in DOMAIN text : text[i] = word}

\* strings.ReplaceAll; the only one, when it is the only one.
Replaced(ask, text) == [i \in DOMAIN text |-> IF text[i] = ask.from THEN ask.to ELSE text[i]]

\* Why edit-file leaves the file alone.
Refuses(ask, seen) ==
  \/ ask.from = ask.to \/ seen = <<>>
  \/ Occurs(ask.from, seen[1].text) = {}
  \/ Cardinality(Occurs(ask.from, seen[1].text)) > 1 /\ ~ask.all

ReadsToEdit(c) ==
  LET ask == proc[c].ask IN
  /\ proc[c].at = "starts" /\ ask.tool = "edit"
  /\ IF Refuses(ask, file)
     THEN Tells(c, "error") /\ UNCHANGED written
     ELSE LET text == Replaced(ask, file[1].text)
          IN /\ proc' = [proc EXCEPT ![c] = [@ EXCEPT !.at = "fills", !.seen = file, !.text = text]]
             /\ written' = written \cup {text} /\ UNCHANGED told
  /\ NoFault /\ UNCHANGED <<file, temps>>

ReadsToWrite(c) ==
  /\ proc[c].at = "starts" /\ proc[c].ask.tool = "write"
  /\ proc' = [proc EXCEPT ![c] = [@ EXCEPT !.at = "fills", !.seen = file, !.text = proc[c].ask.text]]
  /\ written' = written \cup {proc[c].ask.text}
  /\ NoFault /\ UNCHANGED <<file, temps, told>>

\* Not the code: the file itself is opened, and filled in a second step.
FillsFile(c) ==
  /\ proc[c].at = "fills"
  /\ file' = <<[text |-> <<>>, mode |-> "own"]>>
  /\ proc' = [proc EXCEPT ![c].at = "sets mode"]
  /\ NoFault /\ UNCHANGED <<temps, told, written>>

\* CreateTemp, WriteString and Close; whichever fails, the file is removed again.
FillsTemp(c) ==
  /\ proc[c].at = "fills"
  /\ \/ /\ proc' = [proc EXCEPT ![c].at = "sets mode"] /\ temps' = temps \cup {c}
        /\ NoFault /\ UNCHANGED told
     \/ Fault /\ Tells(c, "error") /\ UNCHANGED temps
  /\ UNCHANGED <<file, written>>

\* Not the code: a file that was there is assumed to have the usual mode.
KeepsTempMode(c) ==
  /\ proc[c].at = "sets mode"
  /\ proc' = [proc EXCEPT ![c].at = "renames"]
  /\ NoFault /\ UNCHANGED <<file, temps, told, written>>

\* Stat and Chmod, for write-file only when there was a file to read.
SetsMode(c) ==
  /\ proc[c].at = "sets mode"
  /\ proc' = [proc EXCEPT ![c] = [@ EXCEPT !.at = "renames",
                !.mode = IF file # <<>> /\ proc[c].seen # <<>> THEN file[1].mode ELSE "temp"]]
  /\ NoFault /\ UNCHANGED <<file, temps, told, written>>

\* Not the code: only the error is reported.
RenameForgets(c) ==
  /\ proc[c].at = "renames" /\ UNCHANGED written
  /\ \/ /\ file' = <<[text |-> proc[c].text, mode |-> proc[c].mode]>>
        /\ temps' = temps \ {c} /\ Tells(c, "diff") /\ NoFault
     \/ Fault /\ Tells(c, "error") /\ UNCHANGED <<file, temps>>

Renames(c) ==
  /\ proc[c].at = "renames" /\ UNCHANGED written
  /\ \/ /\ file' = <<[text |-> proc[c].text, mode |-> proc[c].mode]>>
        /\ temps' = temps \ {c}
        /\ Tells(c, IF proc[c].seen = <<>> THEN "summary" ELSE "diff")
        /\ NoFault
     \/ Fault /\ Tells(c, "error") /\ temps' = temps \ {c} /\ UNCHANGED file

-----------------------------------------------------------------------------
(* What happens around them                                                 *)

\* The exec times out, or the turn is cancelled: the tool reports that, the process goes on.
GivesUp(c) ==
  /\ told[c] = "nothing" /\ told' = [told EXCEPT ![c] = "gave up"]
  /\ UNCHANGED <<file, proc, temps, faults, removed, written>>

\* The container is stopped under a process: what it has made stays.
Killed(c) ==
  /\ proc[c].at \notin {"ended", "killed"} /\ Fault
  /\ proc' = [proc EXCEPT ![c].at = "killed"]
  /\ told' = IF told[c] = "nothing" THEN [told EXCEPT ![c] = "error"] ELSE told
  /\ UNCHANGED <<file, temps, written>>

\* Another tool removes the file.
Removed ==
  /\ file # <<>> /\ ~removed /\ file' = <<>> /\ removed' = TRUE
  /\ UNCHANGED <<proc, temps, told, faults, written>>

HelpersNext ==
  \/ Call \/ Removed
  \/ \E c \in Calls : \/ ReadsToEdit(c) \/ ReadsToWrite(c) \/ FillsTemp(c) \/ SetsMode(c)
                      \/ Renames(c) \/ GivesUp(c) \/ Killed(c)

HelpersSpec == HelpersInit /\ [][HelpersNext]_helperVars

-----------------------------------------------------------------------------
(* Properties *)

\* Whatever fails or is killed, and however processes meet, what a reader finds in the file is
\* all of some text: the one it began with, or one that a process meant to write.
WholeText == \A i \in DOMAIN file : file[i].text \in written

\* Only a process that is at it, or was killed, has a temporary file: whichever step fails, the
\* process cleans up.
TempsGone == \A c \in temps : proc[c].at \in {"sets mode", "renames", "killed"}

\* Writers that meet on one file leave its mode as it is, unless it was removed in between.
ModeKept ==
  [][file # <<>> /\ file' # <<>> /\ ~removed => file'[1].mode = file[1].mode]_helperVars

\* The two helpers replace a file whole, clean up, and keep its mode.
FileReplaced == []HelpersTypeOK /\ []WholeText /\ []TempsGone /\ ModeKept

-----------------------------------------------------------------------------
(* Statements the code does not keep *)

\* "Returns a unified diff showing the change": a diff that is returned starts from the text it
\* replaced.  Two edits of one file that overlap both report success, and one is undone.
DiffIsTheChange ==
  [][\A c \in Calls : told[c] = "nothing" /\ told'[c] = "diff" => file = proc[c].seen]_helperVars
=============================================================================
