---------------------------- MODULE StdinReader ----------------------------
(***************************************************************************)
(* Who reads the terminal: the goroutine of startStdinReader (input.go),   *)
(* and the programs that get the terminal for a while: the shell of the    *)
(* container, the shell of the sandbox (commands.go), and an editor        *)
(* (configeditor_routing.go).  The descriptor is blocking, so closing it   *)
(* does not wake a read that has begun; the read takes one more key.       *)
(***************************************************************************)
EXTENDS Naturals, Sequences, FiniteSets, SequencesExt

CONSTANTS
  MaxTyped,    \* bound: keys typed
  MaxSessions  \* bound: programs that got the terminal

ASSUME ReaderAssumption == {MaxTyped, MaxSessions} \subseteq Nat

VARIABLES
  tty,        \* keys nobody has read, by number
  typed,      \* how many keys were typed
  stdinDup,   \* App.stdinDup: the reader it was made for, 0 when nil
  channels,   \* per channel made, what is in it; App.stdinCh is the last one
  closed,     \* closed channels
  readers,    \* goroutines: [at, key]
  session,    \* "none", "stopped", "program", "over"
  got,        \* history: keys the main loop took
  meant,      \* history: keys typed while a program had the terminal
  crashed,    \* a goroutine panicked
  overlapped  \* history: a session ended before the reader it had stopped

readerVars == <<tty, typed, stdinDup, channels, closed, readers, session, got, meant, crashed, overlapped>>

lastChannel == Len(channels)
Idle == [at |-> "reads", key |-> 0]

ReaderTypeOK ==
  /\ typed <= MaxTyped /\ stdinDup \in {0, Len(readers)}
  /\ Len(channels) \in 1..MaxSessions + 1 /\ closed \subseteq DOMAIN channels
  /\ \A r \in DOMAIN readers :
       /\ readers[r].at \in {"loops", "reads", "has", "fails", "ended"}
       /\ readers[r].key \in 0..MaxTyped
  /\ session \in {"none", "stopped", "program", "over"}
  /\ {crashed, overlapped} \subseteq BOOLEAN

ReaderInit ==
  /\ tty = <<>> /\ typed = 0
  /\ stdinDup = 1 /\ channels = <<<<>>>> /\ closed = {} /\ readers = <<Idle>>
  /\ session = "none" /\ got = <<>> /\ meant = {} /\ crashed = FALSE /\ overlapped = FALSE

-----------------------------------------------------------------------------
Type ==
  /\ typed < MaxTyped /\ ~crashed
  /\ typed' = typed + 1
  /\ tty' = Append(tty, typed')
  /\ meant' = IF session = "program" THEN meant \cup {typed'} ELSE meant
  /\ UNCHANGED <<stdinDup, channels, closed, readers, session, got, crashed, overlapped>>

-----------------------------------------------------------------------------
(* The goroutine.  Its channel and its file are fields that it reads anew.  *)

ReaderFrame == <<typed, stdinDup, session, got, meant, overlapped>>
Reader(r, at, key) == readers' = [readers EXCEPT ![r] = [at |-> at, key |-> key]]

BeginsRead(r) ==
  /\ readers[r].at = "loops" /\ ~crashed
  /\ Reader(r, IF stdinDup = 0 THEN "fails" ELSE "reads", 0)
  /\ UNCHANGED <<ReaderFrame, tty, channels, closed, crashed>>

Reads(r) ==
  /\ readers[r].at = "reads" /\ tty # <<>> /\ ~crashed
  /\ Reader(r, "has", Head(tty)) /\ tty' = Tail(tty)
  /\ UNCHANGED <<ReaderFrame, channels, closed, crashed>>

Sends(r) ==
  /\ readers[r].at = "has" /\ ~crashed
  /\ Reader(r, "loops", 0)
  /\ IF lastChannel \in closed THEN crashed' = TRUE /\ UNCHANGED channels
       ELSE channels' = [channels EXCEPT ![lastChannel] = Append(@, readers[r].key)] /\ UNCHANGED crashed
  /\ UNCHANGED <<ReaderFrame, tty, closed>>

Closes(r) ==
  /\ readers[r].at = "fails" /\ ~crashed
  /\ Reader(r, "ended", 0)
  /\ crashed' = (lastChannel \in closed) /\ closed' = closed \cup {lastChannel}
  /\ UNCHANGED <<ReaderFrame, tty, channels>>

-----------------------------------------------------------------------------
(* The main loop                                                            *)

HandleKey ==
  /\ session = "none" /\ channels[lastChannel] # <<>> /\ ~crashed
  /\ got' = Append(got, Head(channels[lastChannel]))
  /\ channels' = [channels EXCEPT ![lastChannel] = Tail(@)]
  /\ UNCHANGED <<tty, typed, stdinDup, closed, readers, session, meant, crashed, overlapped>>

\* stopStdinReader, at a command or a key that gives the terminal away.
StopStdinReader ==
  /\ session = "none" /\ Len(readers) <= MaxSessions /\ ~crashed
  /\ stdinDup' = 0 /\ channels' = [channels EXCEPT ![lastChannel] = <<>>]
  /\ session' = "stopped"
  /\ UNCHANGED <<tty, typed, closed, readers, got, meant, crashed, overlapped>>

\* flushStdin, then the program runs.
RunProgram ==
  /\ session = "stopped" /\ ~crashed
  /\ tty' = <<>> /\ session' = "program"
  /\ UNCHANGED <<typed, stdinDup, channels, closed, readers, got, meant, crashed, overlapped>>

\* A shell, or an editor; runCPSLShell takes lines until it is left or a call fails.
ProgramReads ==
  /\ session = "program" /\ tty # <<>> /\ ~crashed
  /\ tty' = Tail(tty)
  /\ UNCHANGED <<typed, stdinDup, channels, closed, readers, session, got, meant, crashed, overlapped>>

\* The program ends, and what it did not read is discarded.
ProgramEnds ==
  /\ session = "program" /\ session' = "over" /\ ~crashed
  /\ tty' = <<>>
  /\ UNCHANGED <<typed, stdinDup, channels, closed, readers, got, meant, crashed, overlapped>>

\* Not the code: the channel is made once.
StartKeepsChannel ==
  /\ session = "over" /\ session' = "none" /\ ~crashed
  /\ stdinDup' = Len(readers) + 1 /\ readers' = Append(readers, Idle)
  /\ overlapped' = (overlapped \/ \E r \in DOMAIN readers : readers[r].at # "ended")
  /\ UNCHANGED <<tty, typed, channels, closed, got, meant, crashed>>

StartStdinReader ==
  /\ session = "over" /\ session' = "none" /\ ~crashed
  /\ stdinDup' = Len(readers) + 1 /\ readers' = Append(readers, Idle)
  /\ channels' = Append(channels, <<>>)
  /\ overlapped' = (overlapped \/ \E r \in DOMAIN readers : readers[r].at # "ended")
  /\ UNCHANGED <<tty, typed, closed, got, meant, crashed>>

ReaderNext ==
  \/ Type \/ HandleKey
  \/ \E r \in DOMAIN readers : BeginsRead(r) \/ Reads(r) \/ Sends(r) \/ Closes(r)
  \/ StopStdinReader \/ RunProgram \/ ProgramReads \/ ProgramEnds \/ StartStdinReader

ReaderSpec == ReaderInit /\ [][ReaderNext]_readerVars

-----------------------------------------------------------------------------
(* As long as every program lived longer than the reader that was stopped   *)
(* for it, the keys arrive in the order they were typed, no key of the      *)
(* program arrives later at the main loop, and no goroutine uses a channel  *)
(* that another has closed (startStdinReader, stopStdinReader).             *)
KeysInOrder ==
  ~overlapped => /\ ~crashed
                 /\ \A i, j \in DOMAIN got : i < j => got[i] < got[j]
                 /\ ToSet(got) \cap meant = {}

(* NOT KEPT by the code.  "Stop the stdin reader so it doesn't compete with *)
(* the shell" (commands.go:506)  The reader is inside its read, takes the   *)
(* first key that was typed for the shell, and only then ends.              *)
ProgramGetsItsKeys ==
  \A r \in DOMAIN readers : readers[r].key \notin meant

(* The terminal changes hands without mixing up keys.                       *)
ReaderInv == ReaderTypeOK /\ KeysInOrder

=============================================================================
