----------------------------- MODULE InputLine -----------------------------
(***************************************************************************)
(* The input line (input.go), the lines it is shown on (getVisualLines and *)
(* cursorVisualPos in render.go), and the keys that move in it             *)
(* (handleByte, handleNavKey in input_keys.go).  A rune is a letter, a     *)
(* space or a line break; every rune is one column wide.                   *)
(***************************************************************************)
EXTENDS Naturals, Integers, Sequences, SequencesExt

CONSTANTS
  Widths,   \* widths the terminal may have
  MaxRunes  \* bound: runes of the input line

ASSUME LineAssumption == Widths \subseteq Nat \ {0, 1, 2} /\ MaxRunes \in Nat

VARIABLES
  input,   \* App.input
  cursor,  \* App.cursor: runes before the cursor
  width    \* App.width

inputVars == <<input, cursor, width>>

Blank == "blank"
Break == "break"
Runes == {"x", Blank, Break}
promptPrefixCols == 2

LineTypeOK == /\ input \in Seq(Runes) /\ Len(input) <= MaxRunes
              /\ cursor \in 0..Len(input) /\ width \in Widths

LineInit == input = <<>> /\ cursor = 0 /\ width \in Widths

-----------------------------------------------------------------------------
(* The lines shown.  Positions count from 0, as in the code.                *)

\* The line under way ends after length runes; the next one starts at start, and rest
\* runes of it have been seen.
EndOfLine(s, length, start, rest) ==
  [lines |-> Append(s.lines, [start |-> s.start, length |-> length, col |-> s.col]),
   start |-> start, length |-> rest, col |-> 0, space |-> -1]

\* Not the code: the runes after the space at which a line was broken are not counted.
Wrapped(s, i) == EndOfLine(s, s.space - s.start + 1, s.space + 1, 0)

WrapsAtSpace(s, i) ==
  LET length == s.space - s.start + 1
  IN EndOfLine(s, length, s.space + 1, i + 1 - s.start - length)

Scan(s, i) ==
  LET space == IF input[i + 1] = Blank THEN i ELSE s.space
      breaks == input[i + 1] = Break
      fills == s.col + s.length + 1 >= width
  IN CASE breaks -> EndOfLine(s, s.length, i + 1, 0)
       [] ~breaks /\ ~fills -> [s EXCEPT !.length = @ + 1, !.space = space]
       [] ~breaks /\ fills /\ space >= s.start -> WrapsAtSpace([s EXCEPT !.space = space], i)
       [] ~breaks /\ fills /\ space < s.start -> EndOfLine(s, s.length + 1, i + 1, 0)

FirstLine ==
  [lines |-> <<>>, start |-> 0, length |-> 0, col |-> promptPrefixCols, space |-> -1]

\* By the number of runes seen.
Scanned ==
  LET scanned[n \in 0..Len(input)] ==
        IF n = 0 THEN FirstLine ELSE Scan(scanned[n - 1], n - 1)
  IN scanned

VisualLines ==
  LET end == Scanned[Len(input)] IN EndOfLine(end, end.length, 0, 0).lines

EndOf(line) == line.start + line.length

\* Not the code: at the end of a wrapped line the cursor stays there.
HeldByEnd(lines, at, i) == lines[i].start <= at /\ at <= EndOf(lines[i])

\* At the end of a line that was wrapped the cursor is on the next one.
HeldBy(lines, at, i) ==
  /\ lines[i].start <= at /\ at <= EndOf(lines[i])
  /\ \/ at < EndOf(lines[i])
     \/ i = Len(lines)
     \/ at < Len(input) /\ input[at + 1] = Break

\* cursorVisualPos: the line, counted from 1, and the column.
Shown(lines, at) ==
  LET held == {i \in DOMAIN lines : HeldBy(lines, at, i)}
      line == CHOOSE i \in held : \A j \in held : i <= j
  IN IF held = {} THEN <<Len(lines), Last(lines).col + Last(lines).length>>
       ELSE <<line, lines[line].col + at - lines[line].start>>

\* moveUp and moveDown: the position on a line that is nearest to a column.
Nearest(line, col) ==
  CASE col > line.col + line.length -> EndOf(line)
    [] col < line.col -> line.start
    [] line.col <= col /\ col <= line.col + line.length -> line.start + col - line.col

-----------------------------------------------------------------------------
(* The keys                                                                 *)

Becomes(text, at) == input' = text /\ cursor' = at /\ UNCHANGED width
MovesTo(at) == Becomes(input, at)
Without(from, to) == SubSeq(input, 1, from) \o SubSeq(input, to + 1, Len(input))

\* The last position before the cursor whose rune is none of these, counted as a cursor.
BackOver(at, runes) ==
  LET stops == {i \in 1..at : input[i] \notin runes} IN IF stops = {} THEN 0 ELSE Max(stops)
\* The first position from a cursor on whose rune is none of these.
AheadOver(at, runes) ==
  LET stops == {i \in at..Len(input) - 1 : input[i + 1] \notin runes}
  IN IF stops = {} THEN Len(input) ELSE Min(stops)

InsertAtCursor == /\ Len(input) < MaxRunes
                  /\ \E r \in Runes : Becomes(InsertAt(input, cursor + 1, r), cursor + 1)
DeleteBeforeCursor == cursor > 0 /\ Becomes(Without(cursor - 1, cursor), cursor - 1)
DeleteAtCursor == cursor < Len(input) /\ Becomes(Without(cursor, cursor + 1), cursor)

DeleteWordBackward ==
  LET start == BackOver(BackOver(cursor, {Blank}), {"x"})
  IN cursor > 0 /\ Becomes(Without(start, cursor), start)
KillLine == LET end == AheadOver(cursor, Runes \ {Break}) IN Becomes(Without(cursor, end), cursor)
KillToStart ==
  LET start == BackOver(cursor, Runes \ {Break}) IN Becomes(Without(start, cursor), start)
ResetInput == Becomes(<<>>, 0)

MoveRight == cursor < Len(input) /\ MovesTo(cursor + 1)
MoveLeft == cursor > 0 /\ MovesTo(cursor - 1)
Home == MovesTo(0)
End == MovesTo(Len(input))
MoveWordLeft ==
  LET over == {i \in 0..cursor - 1 : input[i + 1] # Blank}
      at == IF over = {} THEN 0 ELSE Max(over)
  IN cursor > 0 /\ MovesTo(BackOver(at, {"x"}))
MoveWordRight ==
  cursor < Len(input) /\ MovesTo(AheadOver(AheadOver(cursor + 1, {"x"}), {Blank}))

\* Not the code: the column is kept on a line that is too short for it.
MoveUpStraight ==
  LET lines == VisualLines at == Shown(lines, cursor) above == lines[at[1] - 1]
  IN at[1] > 1 /\ MovesTo(above.start + at[2] - above.col)

\* On the first and the last line the keys walk the prompt history (PromptEntry).
MoveUp ==
  LET lines == VisualLines at == Shown(lines, cursor)
  IN at[1] > 1 /\ MovesTo(Nearest(lines[at[1] - 1], at[2]))
MoveDown ==
  LET lines == VisualLines at == Shown(lines, cursor)
  IN at[1] < Len(lines) /\ MovesTo(Nearest(lines[at[1] + 1], at[2]))

Resize == width' \in Widths /\ UNCHANGED <<input, cursor>>

LineNext ==
  \/ InsertAtCursor \/ DeleteBeforeCursor \/ DeleteAtCursor \/ DeleteWordBackward
  \/ KillLine \/ KillToStart \/ ResetInput
  \/ MoveRight \/ MoveLeft \/ Home \/ End \/ MoveWordLeft \/ MoveWordRight
  \/ MoveUp \/ MoveDown \/ Resize

LineSpec == LineInit /\ [][LineNext]_inputVars

-----------------------------------------------------------------------------
(* The lines shown are the input: each starts where the one before it ends, *)
(* or after the line break there, the last one ends the input, and none is  *)
(* wider than the terminal (getVisualLines).                                *)
LinesCover ==
  LET lines == VisualLines
  IN /\ lines[1].start = 0 /\ EndOf(Last(lines)) = Len(input)
     /\ \A i \in DOMAIN lines : lines[i].col + lines[i].length <= width
     /\ \A i \in 1..Len(lines) - 1 :
          LET end == EndOf(lines[i])
          IN \/ lines[i + 1].start = end
             \/ lines[i + 1].start = end + 1 /\ input[end + 1] = Break

\* A line break follows a line that was already full: getVisualLines ends an empty line
\* there, on which cursorVisualPos puts no position.
AfterFullLine(lines, at) ==
  \E i \in 2..Len(lines) : /\ lines[i].start = at /\ lines[i].length = 0
                           /\ EndOf(lines[i - 1]) = at
                           /\ at < Len(input) /\ input[at + 1] = Break

(* What comes later in the input is shown later, so no two positions of the *)
(* cursor look the same, and it leaves the terminal nowhere but in front of *)
(* a line break that follows a full line (cursorVisualPos against           *)
(* getVisualLines).                                                         *)
CursorFollowsInput ==
  LET lines == VisualLines
      shown == [at \in 0..Len(input) |-> Shown(lines, at)]
  IN /\ \A at \in 0..Len(input) : shown[at][2] < width \/ AfterFullLine(lines, at)
     /\ \A at \in 1..Len(input) :
          \/ shown[at - 1][1] < shown[at][1]
          \/ shown[at - 1][1] = shown[at][1] /\ shown[at - 1][2] < shown[at][2]

(* NOT KEPT by the code.  "At a line boundary: if this was a soft wrap (not *)
(* a newline), the cursor belongs on the next line." (render.go:92)  A full *)
(* line is wrapped, and a line break after it ends an empty line of its     *)
(* own; there the cursor is put behind the last column of the full line.    *)
CursorOnScreen == Shown(VisualLines, cursor)[2] < width

(* An arrow key moves the cursor to a line next to its own.  A wrapped line *)
(* that is too short for the column has no place at its end: there the key  *)
(* goes to the start of the line after it, which for the key up is the      *)
(* line the cursor was on.  The empty line after a full one is left out:    *)
(* the key down does not get past it (moveUp, moveDown).                    *)
ArrowsMoveByLine ==
  [][ cursor' # cursor =>
      LET lines == VisualLines
          from == Shown(lines, cursor)[1]
          to == Shown(lines, cursor')
      IN (\A at \in 0..Len(input) : ~AfterFullLine(lines, at)) =>
           /\ MoveUp => to[1] = from - 1 \/ (to[1] = from /\ to[2] = 0)
           /\ MoveDown => to[1] = from + 1 \/ (to[1] = from + 2 /\ to[2] = 0) ]_inputVars

(* What is typed is shown, all of it and in one order, and the arrow keys   *)
(* move by the lines that are shown (input.go, render.go).                  *)
LineEdited == [](LineTypeOK /\ LinesCover /\ CursorFollowsInput) /\ ArrowsMoveByLine

=============================================================================
