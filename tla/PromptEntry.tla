---------------------------- MODULE PromptEntry ----------------------------
(***************************************************************************)
(* What the input line stands for: pasted text and attached files, for     *)
(* which the line holds numbered placeholders (handlePaste in              *)
(* input_keys.go, tryAttachFile in wiring.go), what the enter key makes of *)
(* the line (handleEnter in main.go), and how the placeholders are filled  *)
(* in (content.go).  The line is a sequence of pieces; a placeholder keeps *)
(* in mind, for the properties only, what it was made for and when.        *)
(***************************************************************************)
EXTENDS Naturals, Integers, Sequences, SequencesExt

CONSTANTS
  Contents,    \* long pasted texts, and files
  MaxRecent,   \* History.maxSize
  MaxPieces,   \* bound: pieces of the line
  MaxHeld,     \* bound: placeholders ever made
  MaxMessages  \* bound: prompts sent

ASSUME EntryAssumption == {MaxPieces, MaxHeld, MaxMessages} \subseteq Nat /\ MaxRecent \in Nat \ {0}

VARIABLES
  pieces,    \* App.input
  store,     \* App.pasteStore and App.attachments: contents by number
  recent,    \* the prompts of App.history
  index,        \* History.index, -1 when not navigating
  kept,      \* History.draft
  busy,      \* App.agentRunning
  naming,    \* App.promptCallback: the name of a worktree is asked for
  sent,      \* history: the message the last step sent, pieces with what was put for them
  messages,  \* how many have been sent
  held       \* how many placeholders have been made

entryVars == <<pieces, store, recent, index, kept, busy, naming, sent, messages, held>>

Kinds == {"paste", "file"}
Word == [is |-> "word"]
Slash == [is |-> "slash"]                        \* the start of several commands
Path(c) == [is |-> "path", of |-> c]             \* typed, the path of a file
Placeholder(k, n, c) == [is |-> k, number |-> n, of |-> c, made |-> messages]
Damaged == [is |-> "damaged"]                    \* a placeholder some of which was deleted
Pieces == {Word, Slash, Damaged} \cup {Path(c) : c \in Contents}
          \cup [is : Kinds, number : 1..MaxHeld, of : Contents, made : 0..MaxMessages]

PromptTypeOK ==
  /\ {pieces, kept} \cup ToSet(recent) \subseteq Seq(Pieces)
  /\ \A k \in Kinds : store[k] \in Seq(Contents)
  /\ index \in -1..Len(recent) - 1
  /\ {busy, naming} \subseteq BOOLEAN
  /\ messages <= MaxMessages /\ held <= MaxHeld

EntryInit ==
  /\ pieces = <<>> /\ store = [k \in Kinds |-> <<>>]
  /\ recent = <<>> /\ index = -1 /\ kept = <<>>
  /\ busy = FALSE /\ naming = FALSE
  /\ sent = <<>> /\ messages = 0 /\ held = 0

-----------------------------------------------------------------------------
(* Editing.  While an approval is asked for, keys and pastes go elsewhere.  *)

NavRest == index' = -1 /\ kept' = (IF index = -1 THEN kept ELSE <<>>)
Elsewhere == <<store, recent, busy, naming, messages, held>>
NothingSent == sent' = <<>>

\* An insertion leaves the history.
TypePiece ==
  /\ Len(pieces) < MaxPieces
  /\ \E p \in {Word} \cup {Path(c) : c \in Contents} : pieces' = Append(pieces, p)
  /\ NavRest
  /\ NothingSent /\ UNCHANGED Elsewhere
TypeSlash == /\ pieces = <<>> /\ pieces' = <<Slash>>
             /\ NavRest
             /\ NothingSent /\ UNCHANGED Elsewhere

\* Some of a piece is deleted, or all of it.
DeletePiece ==
  /\ \E i \in DOMAIN pieces :
       \/ pieces' = RemoveAt(pieces, i)
       \/ pieces[i].is \in Kinds /\ pieces' = [pieces EXCEPT ![i] = Damaged]
  /\ NavRest
  /\ NothingSent /\ UNCHANGED Elsewhere

Holds(k, c) ==
  /\ held < MaxHeld /\ held' = held + 1
  /\ store' = [store EXCEPT ![k] = Append(@, c)]

\* handlePaste: a file that is there becomes an attachment, a long text is collapsed.
HandlePaste ==
  /\ Len(pieces) < MaxPieces
  /\ \E k \in Kinds, c \in Contents :
       /\ Holds(k, c)
       /\ pieces' = Append(pieces, Placeholder(k, Len(store[k]) + 1, c))
  /\ NavRest
  /\ NothingSent /\ UNCHANGED <<recent, busy, naming, messages>>

\* Not the code: the escape key drops the pasted texts and the files with the line.
ClearForgetsPastes ==
  /\ pieces' = <<>> /\ store' = [k \in Kinds |-> <<>>]
  /\ NothingSent /\ UNCHANGED <<recent, index, kept, busy, naming, messages, held>>

\* The escape key and the interrupt key.  Neither leaves the history.
ClearInput ==
  /\ pieces' = <<>>
  /\ NothingSent /\ UNCHANGED <<Elsewhere, index, kept>>

\* A line that is the start of a command has completions, among which the arrow keys move.
Completes(line) == line = <<Slash>>

HistoryUp ==
  /\ ~Completes(pieces) /\ index < Len(recent) - 1
  /\ index' = index + 1
  /\ kept' = (IF index = -1 THEN pieces ELSE kept)
  /\ pieces' = recent[Len(recent) - index']
  /\ NothingSent /\ UNCHANGED Elsewhere
HistoryDown ==
  /\ ~Completes(pieces) /\ index >= 0
  /\ index' = index - 1
  /\ IF index = 0 THEN pieces' = kept /\ kept' = <<>>
       ELSE pieces' = recent[Len(recent) - index'] /\ UNCHANGED kept
  /\ NothingSent /\ UNCHANGED Elsewhere

-----------------------------------------------------------------------------
(* The enter key                                                            *)

\* The name goes to the callback, and an empty one only ends the asking.
EnterName ==
  /\ naming /\ naming' = FALSE /\ pieces' = <<>>
  /\ NothingSent /\ UNCHANGED <<store, recent, index, kept, busy, messages, held>>

\* /clear and another command.  Only the completion lets the other one run while the
\* agent does: handleEnter looks at agentRunning later.
EnterCommand ==
  /\ ~naming /\ Completes(pieces)
  /\ pieces' = <<>>
  /\ \E cmd \in {"clear", "worktrees", "other"} : naming' = (cmd = "worktrees")
  /\ NothingSent /\ UNCHANGED <<store, recent, index, kept, busy, messages, held>>

\* History.Add: a repeated prompt is not added, and does not end the walk either.
Remember(line) ==
  IF recent # <<>> /\ Last(recent) = line THEN UNCHANGED <<recent, index, kept>>
    ELSE /\ recent' = LET r == Append(recent, line) IN IF Len(r) > MaxRecent THEN Tail(r) ELSE r
         /\ index' = -1 /\ kept' = <<>>

\* tryAttachPaths: a line of nothing but paths is attached after it was remembered.
AllPaths == pieces # <<>> /\ \A i \in DOMAIN pieces : pieces[i].is = "path"
Attached ==
  IF AllPaths
    THEN [i \in DOMAIN pieces |-> Placeholder("file", Len(store["file"]) + i, pieces[i].of)]
    ELSE pieces
Filled ==
  IF AllPaths THEN [store EXCEPT !["file"] = @ \o [i \in DOMAIN pieces |-> pieces[i].of]]
    ELSE store

\* A number that is not known stays as it is.
ExpandPaste(p, texts) == IF p.number <= Len(texts) THEN texts[p.number] ELSE "as it is"
ExpandAttachment(p, files) == IF p.number <= Len(files) THEN files[p.number] ELSE "as it is"
Expand(p, stored) ==
  IF p.is = "paste" THEN ExpandPaste(p, stored["paste"])
  ELSE IF p.is = "file" THEN ExpandAttachment(p, stored["file"])
  ELSE "as it is"

\* A line that begins like a command and is no completion: a command with arguments, or
\* a path with other text.  While the agent runs only /clear is taken.
IsCommand == Head(Attached).is \in {"slash", "path"}
EnterSlash ==
  /\ ~naming /\ pieces # <<>> /\ ~Completes(pieces) /\ IsCommand
  /\ IF busy THEN UNCHANGED <<recent, index, kept>> ELSE Remember(pieces)
  /\ pieces' = <<>>
  /\ NothingSent /\ UNCHANGED <<store, busy, naming, messages, held>>

\* The message goes to the agent, or only into the conversation when no agent can start.
Submit ==
  /\ ~naming /\ ~busy /\ messages < MaxMessages
  /\ pieces # <<>> /\ ~IsCommand
  /\ Remember(pieces)
  /\ sent' = [i \in DOMAIN Attached |-> [piece |-> Attached[i], got |-> Expand(Attached[i], Filled)]]
  /\ pieces' = <<>> /\ store' = [k \in Kinds |-> <<>>]
  /\ messages' = messages + 1
  /\ busy' \in BOOLEAN
  /\ UNCHANGED <<naming, held>>

TurnEnds == /\ busy /\ busy' = FALSE
            /\ NothingSent /\ UNCHANGED <<pieces, store, recent, index, kept, naming, messages, held>>

EntryNext ==
  \/ TypePiece \/ TypeSlash \/ DeletePiece \/ HandlePaste \/ ClearInput \/ HistoryUp \/ HistoryDown
  \/ EnterName \/ EnterCommand \/ EnterSlash \/ Submit \/ TurnEnds

EntrySpec == EntryInit /\ [][EntryNext]_entryVars

-----------------------------------------------------------------------------
(* A placeholder that was made for the message it is sent with stands for   *)
(* what was pasted or attached, however the line was edited, cleared, put   *)
(* aside for the history, or used for a command or a name in between        *)
(* (pasteStore, attachments and their counters, main.go:499-513).           *)
PasteKept ==
  \A i \in DOMAIN sent :
    LET p == sent[i].piece
    IN p.is \in Kinds /\ p.made = messages - 1 => sent[i].got = p.of

(* NOT KEPT by the code: the same for a prompt that is called back from the *)
(* history, which holds the placeholders and not what they stood for.  The  *)
(* numbers start again with every message, so the placeholder stays or gets *)
(* what another paste left under its number.                                *)
RecalledPasteKept ==
  \A i \in DOMAIN sent : sent[i].piece.is \in Kinds => sent[i].got = sent[i].piece.of

(* What is entered, by whichever key, reaches the agent as it was meant.    *)
EntryInv == PromptTypeOK /\ PasteKept

=============================================================================
