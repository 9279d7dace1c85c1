------------------------------ MODULE LineDiff ------------------------------
(***************************************************************************)
(* The unified diff the edit-file and write-file programs answer with      *)
(* (tools/edit-file/main.go unifiedDiff; tools/write-file/main.go has the  *)
(* same code): Myers' shortest edit script, found forward and read back,   *)
(* and the hunks cut out of it.  One step per round of each loop.          *)
(***************************************************************************)
EXTENDS Integers, Sequences, FiniteSets, FiniteSetsExt, SequencesExt, Functions

CONSTANTS
  Lines,   \* the different lines there are
  MaxLen,  \* bound: lines of a file
  Context  \* equal lines around a change, 3 in the code

ASSUME LineDiffAssumption == {MaxLen, Context} \subseteq Nat

VARIABLES
  old, new, \* the files, as splitLines gives them
  at,       \* "forward", "back", "regions", "done"
  d,        \* the round
  v,        \* the furthest x on each diagonal k
  trace,    \* v at the start of each round, trace[d + 1]
  pos,      \* <<x, y>>, where reading back has come to
  edits,    \* the script, [op, line]
  hunks     \* [aStart, aCount, bStart, bCount, lines]

diffVars == <<old, new, at, d, v, trace, pos, edits, hunks>>

Equal == "equal"
Delete == "delete"
Insert == "insert"
Edit(op, line) == [op |-> op, line |-> line]

n == Len(old)
m == Len(new)
Diagonals == (-(n + m) - 1)..(n + m + 1)

LineDiffTypeOK ==
  /\ {old, new} \subseteq BoundedSeq(Lines, MaxLen)
  /\ at \in {"forward", "back", "regions", "done"}
  /\ \A i \in DOMAIN edits : edits[i].op \in {Equal, Delete, Insert} /\ edits[i].line \in Lines
  /\ \A i \in DOMAIN hunks : Len(hunks[i].lines) <= hunks[i].aCount + hunks[i].bCount

\* With an empty side there is nothing to search.
DiffInit ==
  /\ old \in BoundedSeq(Lines, MaxLen) /\ new \in BoundedSeq(Lines, MaxLen)
  /\ d = 0 /\ v = [k \in Diagonals |-> 0] /\ trace = <<>> /\ pos = <<0, 0>> /\ hunks = <<>>
  /\ IF n = 0 \/ m = 0
     THEN /\ at = "regions"
          /\ edits = [i \in 1..n |-> Edit(Delete, old[i])] \o [i \in 1..m |-> Edit(Insert, new[i])]
     ELSE at = "forward" /\ edits = <<>>

-----------------------------------------------------------------------------
(* myersDiff                                                                *)

\* Not the code: one line of a run of equal lines is taken.
SnakeByOne(x, y) ==
  IF x < n /\ y < m /\ old[x + 1] = new[y + 1] THEN x + 1 ELSE x

\* How far x gets along equal lines.
Snake(x, y) ==
  x + Max({j \in 0..n : x + j <= n /\ y + j <= m /\ \A i \in 1..j : old[x + i] = new[y + i]} \cup {0})

Down(vs, k, round) == k = -round \/ (k # round /\ vs[k - 1] < vs[k + 1])

Furthest(k) ==
  LET x == IF Down(v, k, d) THEN v[k + 1] ELSE v[k - 1] + 1 IN Snake(x, x - k)

\* Of the other parity than the diagonals of this round, which are all that it reads.
RoundOf == {k \in -d..d : (k + d) % 2 = 0}

Round ==
  /\ at = "forward"
  /\ trace' = Append(trace, v)
  /\ v' = [k \in DOMAIN v |-> IF k \in RoundOf THEN Furthest(k) ELSE v[k]]
  /\ IF \E k \in RoundOf : Furthest(k) >= n /\ Furthest(k) - k >= m
     THEN at' = "back" /\ pos' = <<n, m>> /\ UNCHANGED d
     ELSE d' = d + 1 /\ UNCHANGED <<at, pos>>
  /\ UNCHANGED <<old, new, edits, hunks>>

EqualRun(from, to) == [i \in 1..(to - from) |-> Edit(Equal, old[from + i])]

\* backtrack: the edit of the round and the equal lines after it.
Back ==
  /\ at = "back" /\ d > 0
  /\ LET k == pos[1] - pos[2]
         down == Down(trace[d + 1], k, d)
         prevK == IF down THEN k + 1 ELSE k - 1
         prevX == trace[d + 1][prevK]
         prevY == prevX - prevK
         steps == Min({Max({pos[1] - prevX, 0}), Max({pos[2] - prevY, 0})})
         x == pos[1] - steps
         y == pos[2] - steps
         move == IF x = prevX THEN Edit(Insert, new[y]) ELSE Edit(Delete, old[x])
     IN /\ edits' = <<move>> \o EqualRun(x, pos[1]) \o edits
        /\ pos' = IF x = prevX THEN <<x, y - 1>> ELSE <<x - 1, y>>
  /\ d' = d - 1
  /\ UNCHANGED <<old, new, at, v, trace, hunks>>

BackEnds ==
  /\ at = "back" /\ d = 0
  /\ edits' = EqualRun(pos[1] - Min({pos[1], pos[2]}), pos[1]) \o edits
  /\ at' = "regions" /\ d' = 0
  /\ UNCHANGED <<old, new, v, trace, pos, hunks>>

-----------------------------------------------------------------------------
(* buildHunks                                                               *)

\* Lines of the old and of the new file among the edits between two.
InA(from, to) == Cardinality({i \in from + 1..to : edits[i].op # Insert})
InB(from, to) == Cardinality({i \in from + 1..to : edits[i].op # Delete})

\* Not the code: the new file is taken to be at the line the old one is.
NewHunkSameStart(from, to) ==
  [aStart |-> InA(0, from), bStart |-> InA(0, from), aCount |-> InA(from, to), bCount |-> InB(from, to),
   lines |-> SubSeq(edits, from + 1, to)]

NewHunk(from, to) ==
  [aStart |-> InA(0, from), bStart |-> InB(0, from), aCount |-> InA(from, to), bCount |-> InB(from, to),
   lines |-> SubSeq(edits, from + 1, to)]

\* prevHunkEditEnd: the first edit by which both counts of the hunk are reached.
PrevHunkEditEnd(h) ==
  Min({i \in 0..(Len(edits) - 1) : /\ InA(0, i) >= h.aStart + h.aCount
                                   /\ InB(0, i) >= h.bStart + h.bCount} \cup {Len(edits)})

ExtendHunk(h, from, to) ==
  [h EXCEPT !.aCount = @ + InA(from, to), !.bCount = @ + InB(from, to),
            !.lines = @ \o SubSeq(edits, from + 1, to)]

Changed(i) == edits[i].op # Equal

\* The region of changes that follows edit d: <<start, end>>, counted from 0.
NextRegion ==
  LET first == Min({i \in (d + 1)..Len(edits) : Changed(i)})
      last == Min({i \in first..Len(edits) : i = Len(edits) \/ ~Changed(i + 1)})
  IN <<first - 1, last>>

Region ==
  /\ at = "regions" /\ \E i \in (d + 1)..Len(edits) : Changed(i)
  /\ LET cStart == Max({NextRegion[1] - Context, 0})
         cEnd == Min({NextRegion[2] + Context, Len(edits)})
         merges == hunks # <<>> /\ cStart <= PrevHunkEditEnd(Last(hunks))
     IN hunks' = IF merges
                 THEN Append(Front(hunks), ExtendHunk(Last(hunks), PrevHunkEditEnd(Last(hunks)), cEnd))
                 ELSE Append(hunks, NewHunk(cStart, cEnd))
  /\ d' = NextRegion[2]
  /\ UNCHANGED <<old, new, at, v, trace, pos, edits>>

RegionsEnd ==
  /\ at = "regions" /\ ~\E i \in (d + 1)..Len(edits) : Changed(i)
  /\ at' = "done"
  /\ UNCHANGED <<old, new, d, v, trace, pos, edits, hunks>>

\* The steps are those of edit-file, where the code is commented; write-file has a copy.
MyersDiff == Round \/ Back \/ BackEnds
BuildHunks == Region \/ RegionsEnd

DiffNext == MyersDiff \/ BuildHunks

DiffSpec == DiffInit /\ [][DiffNext]_diffVars

-----------------------------------------------------------------------------
(* Properties *)

\* How many of some numbers are at most i.
Rank(s, i) == Cardinality({j \in s : j <= i})

\* The lines of a part of the script, those of one kind left out, are a text.
SpellsWithout(part, op, text) ==
  LET own == {i \in DOMAIN part : part[i].op # op}
  IN Len(text) = Cardinality(own) /\ \A i \in own : part[i].line = text[Rank(own, i)]

\* Lines of the old file, and as many of the new one that are the same in the same order.
Matches(s, t) ==
  /\ Cardinality(s) = Cardinality(t)
  /\ \A i \in s, j \in t : Rank(s, i) = Rank(t, j) => old[i] = new[j]

\* How many lines the files have in common, at the most.
Common ==
  Max({Cardinality(s) : s \in {s \in SUBSET (DOMAIN old) : \E t \in SUBSET (DOMAIN new) : Matches(s, t)}})

\* The script turns the old file into the new one, and none is shorter.
ShortestScript ==
  at \in {"regions", "done"} =>
    /\ SpellsWithout(edits, Insert, old) /\ SpellsWithout(edits, Delete, new)
    /\ Cardinality({i \in DOMAIN edits : Changed(i)}) = n + m - 2 * Common

\* Whoever applies the hunks by their line numbers gets the new file: each finds its old lines
\* where it says, what lies between hunks is equal, and the counts are those of its lines.
Patched ==
  LET aEnd(i) == IF i = 0 THEN 0 ELSE hunks[i].aStart + hunks[i].aCount
      bEnd(i) == IF i = 0 THEN 0 ELSE hunks[i].bStart + hunks[i].bCount
      aNext(i) == IF i = Len(hunks) THEN n ELSE hunks[i + 1].aStart
      bNext(i) == IF i = Len(hunks) THEN m ELSE hunks[i + 1].bStart
  IN /\ \A i \in DOMAIN hunks :
          /\ SpellsWithout(hunks[i].lines, Insert, SubSeq(old, hunks[i].aStart + 1, aEnd(i)))
          /\ SpellsWithout(hunks[i].lines, Delete, SubSeq(new, hunks[i].bStart + 1, bEnd(i)))
          /\ i > 1 => aEnd(i - 1) < hunks[i].aStart /\ bEnd(i - 1) < hunks[i].bStart
     /\ \A i \in 0..Len(hunks) :
          SubSeq(old, aEnd(i) + 1, aNext(i)) = SubSeq(new, bEnd(i) + 1, bNext(i))
HunksApply == at = "done" => Patched

\* The diff is the shortest one and applies.
DiffInv == LineDiffTypeOK /\ ShortestScript /\ HunksApply
=============================================================================
