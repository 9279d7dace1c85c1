--------------------------- MODULE EditingProofs ---------------------------
(***************************************************************************)
(* Proofs about text on its way: the keys from the terminal to the main    *)
(* loop, their bytes back to keys, the pasted and attached contents from   *)
(* the input line to the message, a changed text from an agent's call to   *)
(* the file, and the input line on the screen.                             *)
(***************************************************************************)
EXTENDS StdinReader, KeyDecoding, InputLine, PromptEntry, FileHelpers, SequenceTheorems,
        WellFoundedInduction, TLAPS

(***************************************************************************)
(* The terminal                                                            *)
(***************************************************************************)

Spots == {"loops", "reads", "has", "fails", "ended"}
Goroutine == [at : Spots, key : Nat]

me == readers[Len(readers)]
cur == channels[lastChannel]

ReaderTypes ==
  /\ typed \in Nat /\ typed <= MaxTyped
  /\ tty \in Seq(Nat) /\ got \in Seq(Nat) /\ channels \in Seq(Seq(Nat)) /\ meant \subseteq Nat
  /\ readers \in Seq(Goroutine) /\ Len(readers) = Len(channels)
  /\ Len(readers) \in 1..MaxSessions + 1 /\ closed \subseteq DOMAIN channels
  /\ session \in {"none", "stopped", "program", "over"}
  /\ session # "none" => Len(readers) <= MaxSessions
  /\ stdinDup = IF session = "none" THEN Len(readers) ELSE 0
  /\ crashed \in BOOLEAN /\ overlapped \in BOOLEAN

\* Keys are numbered as they are typed.
KeysTyped ==
  /\ \A i \in DOMAIN tty : tty[i] <= typed
  /\ \A r \in DOMAIN readers : readers[r].key <= typed
  /\ \A k \in meant : k <= typed

\* As long as nobody met: the readers before the last are gone, and the last one alone uses the
\* last channel, which it closes when it ends; it ends only while it is stopped.
OneReader ==
  /\ ~crashed
  /\ \A r \in DOMAIN readers : r # Len(readers) => readers[r].at = "ended"
  /\ lastChannel \in closed <=> me.at = "ended"
  /\ me.at \in {"fails", "ended"} => session # "none"

Rising(s) == \A i, j \in DOMAIN s : i < j => s[i] < s[j]
Below(s, t) == \A i \in DOMAIN s, j \in DOMAIN t : s[i] < t[j]
InHand == IF me.at = "has" THEN <<me.key>> ELSE <<>>

\* What the main loop has taken, what is in the channel, what the reader has in hand and what the
\* terminal holds follow each other in the order of typing.
InLine ==
  /\ Rising(got) /\ Rising(cur) /\ Rising(tty)
  /\ Below(got, cur) /\ Below(got, InHand) /\ Below(got, tty)
  /\ Below(cur, InHand) /\ Below(cur, tty) /\ Below(InHand, tty)
  /\ Below(got, <<typed + 1>>) /\ Below(cur, <<typed + 1>>) /\ Below(InHand, <<typed + 1>>)

\* None of it was meant for a program, once the program is over.
NotMeant(s) == \A i \in DOMAIN s : s[i] \notin meant
OwnKeys ==
  /\ NotMeant(got)
  /\ session = "none" => NotMeant(cur) /\ NotMeant(InHand)
  /\ session \in {"none", "over"} => NotMeant(tty)

ReadIndInv ==
  /\ ReaderTypes /\ KeysTyped
  /\ ~overlapped => OneReader /\ InLine /\ OwnKeys

-----------------------------------------------------------------------------
(* Order *)

LEMMA AppendIs ==
  ASSUME NEW S, NEW s \in Seq(S), NEW x \in S
  PROVE  /\ Append(s, x) \in Seq(S) /\ Len(s) \in Nat
         /\ DOMAIN s = 1..Len(s) /\ DOMAIN Append(s, x) = 1..Len(s) + 1
         /\ Append(s, x)[Len(s) + 1] = x
         /\ \A i \in DOMAIN s : Append(s, x)[i] = s[i]
OBVIOUS

LEMMA TailIs ==
  ASSUME NEW S, NEW s \in Seq(S), s # <<>>
  PROVE  /\ Tail(s) \in Seq(S) /\ Head(s) \in S /\ Head(s) = s[1] /\ 1 \in DOMAIN s
         /\ DOMAIN s = 1..Len(s) /\ Len(s) \in Nat /\ DOMAIN Tail(s) = 1..Len(s) - 1
         /\ \A i \in DOMAIN Tail(s) : i + 1 \in DOMAIN s /\ i + 1 > 1 /\ Tail(s)[i] = s[i + 1]
OBVIOUS

LEMMA RisingGrows ==
  ASSUME NEW s \in Seq(Nat), NEW x \in Nat, Rising(s), Below(s, <<x>>)
  PROVE  Rising(Append(s, x))
<1>1. \A i \in DOMAIN s : s[i] < x
  BY DEF Below
<1>2. /\ DOMAIN s = 1..Len(s) /\ DOMAIN Append(s, x) = 1..Len(s) + 1 /\ Len(s) \in Nat
      /\ Append(s, x)[Len(s) + 1] = x /\ \A i \in DOMAIN s : Append(s, x)[i] = s[i]
  BY AppendIs
<1> SUFFICES ASSUME NEW i \in 1..Len(s) + 1, NEW j \in 1..Len(s) + 1, i < j
             PROVE  Append(s, x)[i] < Append(s, x)[j]
  BY <1>2 DEF Rising
<1>3. i \in DOMAIN s
  BY <1>2
<1>4. CASE j = Len(s) + 1
  BY <1>1, <1>2, <1>3, <1>4
<1>5. CASE j # Len(s) + 1
  <2>1. j \in DOMAIN s
    BY <1>2, <1>5
  <2> QED  BY <1>2, <1>3, <2>1 DEF Rising
<1> QED  BY <1>4, <1>5

LEMMA RisingLoses ==
  ASSUME NEW s \in Seq(Nat), s # <<>>, Rising(s)
  PROVE  /\ Rising(Tail(s)) /\ Below(<<Head(s)>>, Tail(s))
<1> DEFINE n == Len(s)
<1>1. /\ Head(s) = s[1] /\ 1 \in 1..n /\ DOMAIN s = 1..n /\ n \in Nat /\ DOMAIN Tail(s) = 1..n - 1
      /\ \A i \in 1..n - 1 : i + 1 \in 1..n /\ i + 1 > 1 /\ Tail(s)[i] = s[i + 1]
  BY TailIs
<1>2. \A i, j \in 1..n : i < j => s[i] < s[j]
  BY <1>1 DEF Rising
<1> HIDE DEF n
<1>3. ASSUME NEW i \in 1..n - 1, NEW j \in 1..n - 1, i < j  PROVE Tail(s)[i] < Tail(s)[j]
  <2>1. i + 1 \in 1..n /\ j + 1 \in 1..n /\ i + 1 < j + 1
    BY <1>1, <1>3
  <2>2. Tail(s)[i] = s[i + 1] /\ Tail(s)[j] = s[j + 1]
    BY <1>1
  <2> QED  BY <1>2, <2>1, <2>2
<1>4. ASSUME NEW i \in 1..n - 1  PROVE s[1] < Tail(s)[i]
  <2>1. i + 1 \in 1..n /\ 1 < i + 1 /\ Tail(s)[i] = s[i + 1]
    BY <1>1
  <2> QED  BY <1>1, <1>2, <2>1
<1>5. Rising(Tail(s))
  BY <1>1, <1>3 DEF Rising
<1>6. \A i \in DOMAIN <<Head(s)>> : <<Head(s)>>[i] = s[1]
  BY <1>1
<1>7. Below(<<Head(s)>>, Tail(s))
  BY <1>1, <1>4, <1>6 DEF Below
<1> QED  BY <1>5, <1>7

LEMMA BelowGrows ==
  ASSUME NEW s \in Seq(Nat), NEW t \in Seq(Nat), NEW x \in Nat, Below(s, t), Below(s, <<x>>)
  PROVE  Below(s, Append(t, x))
<1>1. \A i \in DOMAIN s : s[i] < x
  BY DEF Below
<1>2. /\ DOMAIN Append(t, x) = 1..Len(t) + 1 /\ DOMAIN t = 1..Len(t) /\ Len(t) \in Nat
      /\ Append(t, x)[Len(t) + 1] = x /\ \A i \in DOMAIN t : Append(t, x)[i] = t[i]
  BY AppendIs
<1> SUFFICES ASSUME NEW i \in DOMAIN s, NEW j \in 1..Len(t) + 1  PROVE s[i] < Append(t, x)[j]
  BY <1>2 DEF Below
<1>3. CASE j = Len(t) + 1
  BY <1>1, <1>2, <1>3
<1>4. CASE j # Len(t) + 1
  <2>1. j \in DOMAIN t
    BY <1>2, <1>4
  <2> QED  BY <1>2, <2>1 DEF Below
<1> QED  BY <1>3, <1>4

LEMMA BelowGathers ==
  ASSUME NEW s \in Seq(Nat), NEW t \in Seq(Nat), NEW x \in Nat, Below(s, t), Below(<<x>>, t)
  PROVE  Below(Append(s, x), t)
<1>1. \A j \in DOMAIN t : x < t[j]
  BY DEF Below
<1>2. /\ DOMAIN Append(s, x) = 1..Len(s) + 1 /\ DOMAIN s = 1..Len(s) /\ Len(s) \in Nat
      /\ Append(s, x)[Len(s) + 1] = x /\ \A i \in DOMAIN s : Append(s, x)[i] = s[i]
  BY AppendIs
<1> SUFFICES ASSUME NEW i \in 1..Len(s) + 1, NEW j \in DOMAIN t  PROVE Append(s, x)[i] < t[j]
  BY <1>2 DEF Below
<1>3. CASE i = Len(s) + 1
  BY <1>1, <1>2, <1>3
<1>4. CASE i # Len(s) + 1
  <2>1. i \in DOMAIN s
    BY <1>2, <1>4
  <2> QED  BY <1>2, <2>1 DEF Below
<1> QED  BY <1>3, <1>4

LEMMA BelowLoses ==
  ASSUME NEW s \in Seq(Nat), NEW t \in Seq(Nat)
  PROVE  /\ Below(s, t) /\ t # <<>> => Below(s, Tail(t)) /\ Below(s, <<Head(t)>>)
         /\ Below(s, t) /\ s # <<>> => Below(Tail(s), t) /\ Below(<<Head(s)>>, t)
<1>1. ASSUME Below(s, t), t # <<>>  PROVE Below(s, Tail(t)) /\ Below(s, <<Head(t)>>)
  BY <1>1, TailIs DEF Below
<1>2. ASSUME Below(s, t), s # <<>>  PROVE Below(Tail(s), t) /\ Below(<<Head(s)>>, t)
  BY <1>2, TailIs DEF Below
<1> QED  BY <1>1, <1>2

LEMMA Trivial ==
  ASSUME NEW s \in Seq(Nat)
  PROVE  Below(<<>>, s) /\ Below(s, <<>>) /\ Rising(<<>>)
BY DEF Below, Rising

LEMMA ReadInit == ReaderInit => ReadIndInv
<1> SUFFICES ASSUME ReaderInit  PROVE ReadIndInv
  OBVIOUS
<1>1. MaxTyped \in Nat /\ MaxSessions \in Nat
  BY ReaderAssumption, Zenon
<1>2. /\ channels = <<<<>>>> /\ Len(channels) = 1 /\ DOMAIN channels = {1} /\ cur = <<>>
      /\ readers = <<Idle>> /\ Len(readers) = 1 /\ DOMAIN readers = {1} /\ me = Idle
  BY DEF ReaderInit, cur, me, lastChannel
<1>3. Idle \in Goroutine /\ Idle.at = "reads" /\ Idle.key = 0
  BY DEF Idle, Goroutine, Spots
<1>4. channels \in Seq(Seq(Nat)) /\ readers \in Seq(Goroutine)
  BY <1>2, <1>3
<1>5. ReaderTypes
  <2>1. 0 <= MaxTyped /\ 1 \in 1..MaxSessions + 1
    BY <1>1
  <2>2. <<>> \in Seq(Nat) /\ {} \subseteq Nat
    OBVIOUS
  <2> QED  BY <1>2, <1>4, <2>1, <2>2 DEF ReaderInit, ReaderTypes
<1>6. KeysTyped
  BY <1>1, <1>2, <1>3 DEF ReaderInit, KeysTyped
<1>7. OneReader
  BY <1>2, <1>3 DEF ReaderInit, OneReader, lastChannel
<1>8. InHand = <<>>
  BY <1>2, <1>3 DEF InHand
<1>9. got = <<>> /\ tty = <<>> /\ <<>> \in Seq(Nat) /\ typed = 0 /\ <<typed + 1>> \in Seq(Nat)
  BY DEF ReaderInit
<1>10. InLine
  <2>1. Rising(<<>>) /\ Below(<<>>, <<>>) /\ Below(<<>>, <<typed + 1>>)
    BY <1>9, Trivial
  <2> QED  BY <1>2, <1>8, <1>9, <2>1, Zenon DEF InLine
<1>11. OwnKeys
  BY <1>2, <1>8, <1>9 DEF OwnKeys, NotMeant
<1> QED  BY <1>5, <1>6, <1>7, <1>10, <1>11 DEF ReadIndInv
-----------------------------------------------------------------------------
(* The goroutine *)

LEMMA HandIs ==
  ASSUME ReaderTypes
  PROVE  /\ Len(readers) \in DOMAIN readers /\ DOMAIN readers = 1..Len(readers)
         /\ lastChannel = Len(readers) /\ lastChannel \in DOMAIN channels
         /\ DOMAIN channels = DOMAIN readers
         /\ me \in Goroutine /\ cur \in Seq(Nat) /\ InHand \in Seq(Nat)
         /\ <<typed + 1>> \in Seq(Nat) /\ Len(readers) \in Nat \ {0}
<1>1. /\ Len(readers) \in DOMAIN readers /\ DOMAIN readers = 1..Len(readers)
      /\ lastChannel = Len(readers) /\ lastChannel \in DOMAIN channels
      /\ DOMAIN channels = DOMAIN readers /\ Len(readers) \in Nat \ {0}
  BY ReaderAssumption DEF ReaderTypes, lastChannel
<1>2. me \in Goroutine
  <2>1. readers \in Seq(Goroutine)
    BY DEF ReaderTypes
  <2> QED  BY <1>1, <2>1, ElementOfSeq DEF me
<1>3. cur \in Seq(Nat)
  <2>1. channels \in Seq(Seq(Nat))
    BY DEF ReaderTypes
  <2> QED  BY <1>1, <2>1 DEF cur
<1>4. InHand \in Seq(Nat)
  BY <1>2 DEF InHand, Goroutine
<1>5. <<typed + 1>> \in Seq(Nat)
  BY DEF ReaderTypes
<1> QED  BY <1>1, <1>2, <1>3, <1>4, <1>5

LEMMA ReaderIs ==
  ASSUME ReaderTypes, NEW r \in DOMAIN readers, NEW at \in Spots, NEW key \in Nat,
         Reader(r, at, key)
  PROVE  /\ readers' \in Seq(Goroutine) /\ Len(readers') = Len(readers)
         /\ DOMAIN readers' = DOMAIN readers
         /\ readers'[r].at = at /\ readers'[r].key = key
         /\ \A q \in DOMAIN readers : q # r => readers'[q] = readers[q]
<1> DEFINE g == [at |-> at, key |-> key]
<1>1. g \in Goroutine /\ g.at = at /\ g.key = key
  BY DEF Goroutine
<1>2. readers' = [readers EXCEPT ![r] = g]
  BY DEF Reader
<1> HIDE DEF g
<1>3. readers \in Seq(Goroutine) /\ r \in 1..Len(readers) /\ DOMAIN readers = 1..Len(readers)
  BY DEF ReaderTypes
<1>4. readers' \in Seq(Goroutine) /\ Len(readers') = Len(readers)
  BY <1>1, <1>2, <1>3, ExceptSeq
<1> QED  BY <1>1, <1>2, <1>3, <1>4

\* A reader that has not ended is the last one, and has the last channel open.
LEMMA TheOne ==
  ASSUME ReaderTypes, OneReader, NEW r \in DOMAIN readers, readers[r].at # "ended"
  PROVE  r = Len(readers) /\ readers[r] = me /\ lastChannel \notin closed
BY DEF OneReader, me

LEMMA TypeKeeps == ASSUME ReadIndInv, Type  PROVE ReadIndInv'
<1>1. ReaderTypes /\ KeysTyped
  BY DEF ReadIndInv
<1>2. /\ typed' = typed + 1 /\ tty' = Append(tty, typed + 1) /\ typed < MaxTyped
      /\ meant' = (IF session = "program" THEN meant \cup {typed + 1} ELSE meant)
      /\ UNCHANGED <<stdinDup, channels, closed, readers, session, got, crashed, overlapped>>
  BY DEF Type
<1>3. /\ typed \in Nat /\ typed + 1 \in Nat /\ tty \in Seq(Nat)
      /\ MaxTyped \in Nat /\ typed + 1 <= MaxTyped
  BY <1>1, <1>2, ReaderAssumption DEF ReaderTypes
<1>4. /\ tty' \in Seq(Nat) /\ DOMAIN tty' = 1..Len(tty) + 1 /\ tty'[Len(tty) + 1] = typed + 1
      /\ \A i \in DOMAIN tty : tty'[i] = tty[i]
      /\ DOMAIN tty = 1..Len(tty) /\ Len(tty) \in Nat
  BY <1>2, <1>3, AppendIs
<1>5. ReaderTypes'
  BY <1>1, <1>2, <1>3, <1>4 DEF ReaderTypes
<1>6. KeysTyped'
  <2>1. ASSUME NEW i \in DOMAIN tty'  PROVE tty'[i] <= typed + 1
    <3>1. CASE i \in DOMAIN tty
      <4>1. tty[i] \in Nat /\ tty[i] <= typed  BY <1>1, <1>3, <3>1, ElementOfSeq DEF KeysTyped
      <4>2. tty'[i] = tty[i]  BY <1>4, <3>1
      <4> QED  BY <1>3, <4>1, <4>2
    <3>2. CASE i = Len(tty) + 1
      <4>1. tty'[i] = typed + 1  BY <1>4, <3>2
      <4> QED  BY <1>3, <4>1
    <3>3. i \in DOMAIN tty \/ i = Len(tty) + 1  BY <1>4
    <3> QED  BY <3>1, <3>2, <3>3
  <2>2. \A r \in DOMAIN readers : readers[r].key <= typed + 1
    <3>1. \A r \in DOMAIN readers : readers[r] \in Goroutine
      BY <1>1 DEF ReaderTypes
    <3> QED  BY <1>1, <1>3, <3>1 DEF KeysTyped, Goroutine
  <2>3. \A k \in meant' : k <= typed + 1
    BY <1>1, <1>2, <1>3 DEF KeysTyped, ReaderTypes
  <2> QED  BY <1>2, <2>1, <2>2, <2>3 DEF KeysTyped
<1>7. ASSUME ~overlapped'  PROVE OneReader' /\ InLine' /\ OwnKeys'
  <2>1. OneReader /\ InLine /\ OwnKeys
    BY <1>2, <1>7 DEF ReadIndInv
  <2>2. OneReader' /\ cur' = cur /\ InHand' = InHand
    BY <1>2, <2>1 DEF OneReader, me, cur, lastChannel, InHand
  <2>3. /\ cur \in Seq(Nat) /\ InHand \in Seq(Nat) /\ got \in Seq(Nat)
        /\ Below(got, <<typed + 1>>) /\ Below(cur, <<typed + 1>>) /\ Below(InHand, <<typed + 1>>)
    BY <1>1, <2>1, HandIs DEF ReaderTypes, InLine
  <2>4. /\ Below(got, <<typed + 1 + 1>>) /\ Below(cur, <<typed + 1 + 1>>)
        /\ Below(InHand, <<typed + 1 + 1>>)
    <3>1. ASSUME NEW s \in Seq(Nat), Below(s, <<typed + 1>>)  PROVE Below(s, <<typed + 1 + 1>>)
      <4>1. \A i \in DOMAIN s : s[i] \in Nat /\ s[i] < typed + 1
        BY <3>1 DEF Below
      <4>2. \A i \in DOMAIN s : s[i] < typed + 1 + 1
        BY <1>3, <4>1
      <4> QED  BY <4>2 DEF Below
    <3> QED  BY <2>3, <3>1
  <2>5. Below(tty, <<typed + 1>>)
    <3>1. \A i \in DOMAIN tty : tty[i] \in Nat /\ tty[i] <= typed
      BY <1>1, <1>3 DEF KeysTyped
    <3>2. \A i \in DOMAIN tty : tty[i] < typed + 1
      BY <1>3, <3>1
    <3> QED  BY <3>2 DEF Below
  <2>6. Rising(tty')
    BY <1>2, <1>3, <2>1, <2>5, RisingGrows DEF InLine
  <2>7. Below(got, tty') /\ Below(cur, tty') /\ Below(InHand, tty')
    BY <1>2, <1>3, <2>1, <2>3, BelowGrows DEF InLine
  <2>8. InLine'
    BY <1>2, <2>1, <2>2, <2>4, <2>6, <2>7 DEF InLine
  <2>9. OwnKeys'
    <3>1. typed + 1 \notin {got[i] : i \in DOMAIN got}
      <4>1. \A i \in DOMAIN got : got[i] < typed + 1 /\ got[i] \in Nat
        BY <2>3 DEF Below
      <4> QED  BY <1>3, <4>1
    <3>2. NotMeant(got)'
      BY <1>2, <2>1, <3>1 DEF OwnKeys, NotMeant
    <3>3. session = "none" => NotMeant(cur)' /\ NotMeant(InHand)'
      BY <1>2, <2>1, <2>2 DEF OwnKeys, NotMeant
    <3>4. ASSUME session \in {"none", "over"}  PROVE NotMeant(tty)'
      <4>1. meant' = meant /\ NotMeant(tty)
        BY <1>2, <2>1, <3>4 DEF OwnKeys
      <4>2. typed + 1 \notin meant
        BY <1>1, <1>3 DEF KeysTyped, ReaderTypes
      <4> QED  BY <1>4, <4>1, <4>2 DEF NotMeant
    <3> QED  BY <1>2, <3>2, <3>3, <3>4 DEF OwnKeys
  <2> QED  BY <2>2, <2>8, <2>9
<1> QED  BY <1>5, <1>6, <1>7 DEF ReadIndInv

\* A step of the goroutine r that neither takes nor gives a key.
LEMMA BeginsKeeps ==
  ASSUME ReadIndInv, NEW r \in DOMAIN readers, BeginsRead(r)  PROVE ReadIndInv'
<1> DEFINE at == IF stdinDup = 0 THEN "fails" ELSE "reads"
<1>1. ReaderTypes /\ KeysTyped
  BY DEF ReadIndInv
<1>2. /\ readers[r].at = "loops" /\ Reader(r, at, 0) /\ at \in Spots
      /\ UNCHANGED <<ReaderFrame, tty, channels, closed, crashed>>
  BY DEF BeginsRead, Spots
<1>3. at = "fails" => session # "none"
  BY <1>1 DEF ReaderTypes
<1>4. at \in {"fails", "reads"} /\ at # "has" /\ at # "ended"
  OBVIOUS
<1> HIDE DEF at
<1>5. /\ readers' \in Seq(Goroutine) /\ Len(readers') = Len(readers)
      /\ DOMAIN readers' = DOMAIN readers
      /\ readers'[r].at = at /\ readers'[r].key = 0
      /\ \A q \in DOMAIN readers : q # r => readers'[q] = readers[q]
  BY <1>1, <1>2, ReaderIs
<1>6. ReaderTypes'
  BY <1>1, <1>2, <1>5 DEF ReaderTypes, ReaderFrame
<1>7. KeysTyped'
  <2>1. UNCHANGED <<typed, meant, tty>> /\ typed \in Nat
    BY <1>1, <1>2 DEF ReaderFrame, ReaderTypes
  <2> QED  BY <1>1, <1>5, <2>1 DEF KeysTyped
<1>8. ASSUME ~overlapped'  PROVE OneReader' /\ InLine' /\ OwnKeys'
  <2>1. OneReader /\ InLine /\ OwnKeys
    BY <1>2, <1>8 DEF ReadIndInv, ReaderFrame
  <2>2. r = Len(readers) /\ readers[r] = me /\ lastChannel \notin closed
    BY <1>1, <1>2, <2>1, TheOne
  <2>3. me'.at = at /\ me' = readers'[r] /\ cur' = cur /\ InHand' = <<>> /\ InHand = <<>>
    BY <1>2, <1>4, <1>5, <2>2 DEF me, cur, lastChannel, InHand
  <2>4. OneReader'
    BY <1>2, <1>3, <1>4, <1>5, <2>1, <2>2, <2>3 DEF OneReader, lastChannel, ReaderFrame
  <2>5. InLine' /\ OwnKeys'
    BY <1>2, <2>1, <2>3 DEF InLine, OwnKeys, ReaderFrame, NotMeant
  <2> QED  BY <2>4, <2>5
<1> QED  BY <1>6, <1>7, <1>8 DEF ReadIndInv

LEMMA ReadsKeeps == ASSUME ReadIndInv, NEW r \in DOMAIN readers, Reads(r)  PROVE ReadIndInv'
<1>1. ReaderTypes /\ KeysTyped
  BY DEF ReadIndInv
<1>2. /\ readers[r].at = "reads" /\ tty # <<>> /\ Reader(r, "has", Head(tty)) /\ tty' = Tail(tty)
      /\ UNCHANGED <<ReaderFrame, channels, closed, crashed>> /\ "has" \in Spots
  BY DEF Reads, Spots
<1>3. /\ Tail(tty) \in Seq(Nat) /\ Head(tty) \in Nat /\ Head(tty) = tty[1] /\ 1 \in DOMAIN tty
      /\ \A i \in DOMAIN Tail(tty) : i + 1 \in DOMAIN tty /\ Tail(tty)[i] = tty[i + 1]
      /\ tty \in Seq(Nat)
  BY <1>1, <1>2, TailIs DEF ReaderTypes
<1>5. /\ readers' \in Seq(Goroutine) /\ Len(readers') = Len(readers)
      /\ DOMAIN readers' = DOMAIN readers
      /\ readers'[r].at = "has" /\ readers'[r].key = Head(tty)
      /\ \A q \in DOMAIN readers : q # r => readers'[q] = readers[q]
  BY <1>1, <1>2, <1>3, ReaderIs
<1>6. ReaderTypes'
  BY <1>1, <1>2, <1>3, <1>5 DEF ReaderTypes, ReaderFrame
<1>7. KeysTyped'
  BY <1>1, <1>2, <1>3, <1>5 DEF KeysTyped, ReaderFrame, ReaderTypes
<1>8. ASSUME ~overlapped'  PROVE OneReader' /\ InLine' /\ OwnKeys'
  <2>1. OneReader /\ InLine /\ OwnKeys
    BY <1>2, <1>8 DEF ReadIndInv, ReaderFrame
  <2>2. r = Len(readers) /\ readers[r] = me /\ lastChannel \notin closed
    BY <1>1, <1>2, <2>1, TheOne
  <2>3. /\ me'.at = "has" /\ me' = readers'[r] /\ cur' = cur
        /\ InHand' = <<Head(tty)>> /\ InHand = <<>>
    BY <1>2, <1>5, <2>2 DEF me, cur, lastChannel, InHand
  <2>4. OneReader'
    BY <1>2, <1>5, <2>1, <2>2, <2>3 DEF OneReader, lastChannel, ReaderFrame
  <2>5. got \in Seq(Nat) /\ cur \in Seq(Nat)
    BY <1>1, HandIs DEF ReaderTypes
  <2>6. /\ Below(got, Tail(tty)) /\ Below(got, <<Head(tty)>>)
        /\ Below(cur, Tail(tty)) /\ Below(cur, <<Head(tty)>>)
    BY <1>2, <1>3, <2>1, <2>5, BelowLoses DEF InLine
  <2>7. Rising(Tail(tty)) /\ Below(<<Head(tty)>>, Tail(tty))
    BY <1>2, <1>3, <2>1, RisingLoses DEF InLine
  <2>8. Below(<<Head(tty)>>, <<typed + 1>>)
    <3>1. Head(tty) \in Nat /\ Head(tty) <= typed /\ typed \in Nat
      BY <1>1, <1>3 DEF KeysTyped, ReaderTypes
    <3>2. Head(tty) < typed + 1
      BY <3>1
    <3> QED  BY <3>2 DEF Below
  <2>9. UNCHANGED <<got, typed, session, meant>>
    BY <1>2 DEF ReaderFrame
  <2>10. InLine'
    BY <1>2, <2>1, <2>3, <2>6, <2>7, <2>8, <2>9 DEF InLine
  <2>11. OwnKeys'
    BY <1>2, <1>3, <2>1, <2>3, <2>9 DEF OwnKeys, NotMeant
  <2> QED  BY <2>4, <2>10, <2>11
<1> QED  BY <1>6, <1>7, <1>8 DEF ReadIndInv

LEMMA ChannelIs ==
  ASSUME ReaderTypes, NEW s \in Seq(Nat), channels' = [channels EXCEPT ![lastChannel] = s]
  PROVE  /\ channels' \in Seq(Seq(Nat)) /\ Len(channels') = Len(channels)
         /\ DOMAIN channels' = DOMAIN channels /\ lastChannel' = lastChannel /\ cur' = s
<1>1. /\ lastChannel \in 1..Len(channels) /\ channels \in Seq(Seq(Nat))
      /\ DOMAIN channels = 1..Len(channels)
  BY HandIs DEF ReaderTypes
<1>2. channels' \in Seq(Seq(Nat)) /\ Len(channels') = Len(channels)
  BY <1>1, ExceptSeq
<1> QED  BY <1>1, <1>2 DEF cur, lastChannel

LEMMA SendsKeeps == ASSUME ReadIndInv, NEW r \in DOMAIN readers, Sends(r)  PROVE ReadIndInv'
<1>1. ReaderTypes /\ KeysTyped
  BY DEF ReadIndInv
<1>2. /\ readers[r].at = "has" /\ Reader(r, "loops", 0)
      /\ UNCHANGED <<ReaderFrame, tty, closed>> /\ "loops" \in Spots
  BY DEF Sends, Spots
<1>3. readers[r] \in Goroutine /\ readers[r].key \in Nat
  <2>1. readers[r] \in Goroutine
    BY <1>1 DEF ReaderTypes
  <2> QED  BY <2>1 DEF Goroutine
<1>4. /\ channels' \in Seq(Seq(Nat)) /\ Len(channels') = Len(channels)
      /\ DOMAIN channels' = DOMAIN channels /\ lastChannel' = lastChannel
      /\ crashed' \in BOOLEAN
      /\ lastChannel \notin closed => cur' = Append(cur, readers[r].key) /\ UNCHANGED crashed
  <2>1. CASE lastChannel \in closed
    BY <1>1, <2>1 DEF Sends, ReaderTypes, lastChannel
  <2>2. CASE lastChannel \notin closed
    <3>1. /\ channels' = [channels EXCEPT ![lastChannel] = Append(cur, readers[r].key)]
          /\ UNCHANGED crashed
      BY <2>2 DEF Sends, cur
    <3>2. Append(cur, readers[r].key) \in Seq(Nat)
      BY <1>1, <1>3, HandIs
    <3>3. /\ channels' \in Seq(Seq(Nat)) /\ Len(channels') = Len(channels)
          /\ DOMAIN channels' = DOMAIN channels /\ lastChannel' = lastChannel
          /\ cur' = Append(cur, readers[r].key)
      BY <1>1, <3>1, <3>2, ChannelIs
    <3> QED  BY <1>1, <3>1, <3>3 DEF ReaderTypes
  <2> QED  BY <2>1, <2>2
<1>5. /\ readers' \in Seq(Goroutine) /\ Len(readers') = Len(readers)
      /\ DOMAIN readers' = DOMAIN readers
      /\ readers'[r].at = "loops" /\ readers'[r].key = 0
      /\ \A q \in DOMAIN readers : q # r => readers'[q] = readers[q]
  BY <1>1, <1>2, ReaderIs
<1>6. ReaderTypes'
  BY <1>1, <1>2, <1>4, <1>5 DEF ReaderTypes, ReaderFrame
<1>7. KeysTyped'
  <2>1. UNCHANGED <<typed, meant, tty>> /\ typed \in Nat
    BY <1>1, <1>2 DEF ReaderFrame, ReaderTypes
  <2> QED  BY <1>1, <1>5, <2>1 DEF KeysTyped
<1>8. ASSUME ~overlapped'  PROVE OneReader' /\ InLine' /\ OwnKeys'
  <2>1. OneReader /\ InLine /\ OwnKeys
    BY <1>2, <1>8 DEF ReadIndInv, ReaderFrame
  <2>2. r = Len(readers) /\ readers[r] = me /\ lastChannel \notin closed
    BY <1>1, <1>2, <2>1, TheOne
  <2>3. /\ me'.at = "loops" /\ me' = readers'[r] /\ cur' = Append(cur, me.key) /\ InHand' = <<>>
        /\ InHand = <<me.key>> /\ UNCHANGED crashed /\ me.key \in Nat
    BY <1>2, <1>3, <1>4, <1>5, <2>2 DEF me, InHand
  <2>4. OneReader'
    BY <1>2, <1>4, <1>5, <2>1, <2>2, <2>3 DEF OneReader, ReaderFrame
  <2>5. got \in Seq(Nat) /\ cur \in Seq(Nat) /\ tty \in Seq(Nat) /\ <<typed + 1>> \in Seq(Nat)
    BY <1>1, HandIs DEF ReaderTypes
  <2>6. Rising(cur') /\ Below(got, cur')
    BY <2>1, <2>3, <2>5, RisingGrows, BelowGrows DEF InLine
  <2>7. Below(cur', tty) /\ Below(cur', <<typed + 1>>)
    BY <2>1, <2>3, <2>5, BelowGathers DEF InLine
  <2>8. /\ Below(got, <<>>) /\ Below(cur', <<>>) /\ Below(<<>>, tty)
        /\ Below(<<>>, <<typed + 1>>)
    <3>1. cur' \in Seq(Nat)
      BY <2>3, <2>5
    <3> QED  BY <2>5, <3>1, Trivial
  <2>9. UNCHANGED <<got, typed, session, meant, tty>>
    BY <1>2 DEF ReaderFrame
  <2>10. InLine'
    BY <2>1, <2>3, <2>6, <2>7, <2>8, <2>9 DEF InLine
  <2>11. OwnKeys'
    <3>1. session = "none" => NotMeant(cur') /\ NotMeant(InHand')
      <4>1. NotMeant(cur) /\ NotMeant(<<me.key>>) => NotMeant(Append(cur, me.key))
        BY <2>3, <2>5, AppendIs DEF NotMeant
      <4> QED  BY <2>1, <2>3, <4>1 DEF OwnKeys, NotMeant
    <3> QED  BY <2>1, <2>9, <3>1 DEF OwnKeys, NotMeant
  <2> QED  BY <2>4, <2>10, <2>11
<1> QED  BY <1>6, <1>7, <1>8 DEF ReadIndInv

LEMMA ClosesKeeps == ASSUME ReadIndInv, NEW r \in DOMAIN readers, Closes(r)  PROVE ReadIndInv'
<1>1. ReaderTypes /\ KeysTyped
  BY DEF ReadIndInv
<1>2. /\ readers[r].at = "fails" /\ Reader(r, "ended", 0) /\ "ended" \in Spots
      /\ crashed' = (lastChannel \in closed) /\ closed' = closed \cup {lastChannel}
      /\ UNCHANGED <<ReaderFrame, tty, channels>>
  BY DEF Closes, Spots
<1>5. /\ readers' \in Seq(Goroutine) /\ Len(readers') = Len(readers)
      /\ DOMAIN readers' = DOMAIN readers
      /\ readers'[r].at = "ended" /\ readers'[r].key = 0
      /\ \A q \in DOMAIN readers : q # r => readers'[q] = readers[q]
  BY <1>1, <1>2, ReaderIs
<1>6. ReaderTypes'
  <2>1. closed' \subseteq DOMAIN channels /\ crashed' \in BOOLEAN
    BY <1>1, <1>2, HandIs DEF ReaderTypes
  <2> QED  BY <1>1, <1>2, <1>5, <2>1 DEF ReaderTypes, ReaderFrame
<1>7. KeysTyped'
  <2>1. UNCHANGED <<typed, meant, tty>> /\ typed \in Nat
    BY <1>1, <1>2 DEF ReaderFrame, ReaderTypes
  <2> QED  BY <1>1, <1>5, <2>1 DEF KeysTyped
<1>8. ASSUME ~overlapped'  PROVE OneReader' /\ InLine' /\ OwnKeys'
  <2>1. OneReader /\ InLine /\ OwnKeys
    BY <1>2, <1>8 DEF ReadIndInv, ReaderFrame
  <2>2. r = Len(readers) /\ readers[r] = me /\ lastChannel \notin closed
    BY <1>1, <1>2, <2>1, TheOne
  <2>3. me'.at = "ended" /\ me' = readers'[r] /\ cur' = cur /\ InHand' = <<>> /\ InHand = <<>>
    BY <1>2, <1>5, <2>2 DEF me, cur, lastChannel, InHand
  <2>4. OneReader'
    BY <1>2, <1>5, <2>1, <2>2, <2>3 DEF OneReader, lastChannel, ReaderFrame
  <2>5. InLine' /\ OwnKeys'
    BY <1>2, <2>1, <2>3 DEF InLine, OwnKeys, ReaderFrame, NotMeant
  <2> QED  BY <2>4, <2>5
<1> QED  BY <1>6, <1>7, <1>8 DEF ReadIndInv

-----------------------------------------------------------------------------
(* The main loop *)

LEMMA HandleKeeps == ASSUME ReadIndInv, HandleKey  PROVE ReadIndInv'
<1>1. ReaderTypes /\ KeysTyped /\ cur \in Seq(Nat)
  BY HandIs DEF ReadIndInv
<1>2. /\ session = "none" /\ cur # <<>> /\ got' = Append(got, Head(cur))
      /\ channels' = [channels EXCEPT ![lastChannel] = Tail(cur)]
      /\ UNCHANGED <<tty, typed, stdinDup, closed, readers, session, meant, crashed, overlapped>>
  BY DEF HandleKey, cur
<1>3. /\ Tail(cur) \in Seq(Nat) /\ Head(cur) \in Nat /\ Head(cur) = cur[1] /\ 1 \in DOMAIN cur
      /\ \A i \in DOMAIN Tail(cur) : i + 1 \in DOMAIN cur /\ Tail(cur)[i] = cur[i + 1]
  BY <1>1, <1>2, TailIs
<1>4. /\ channels' \in Seq(Seq(Nat)) /\ Len(channels') = Len(channels)
      /\ DOMAIN channels' = DOMAIN channels /\ lastChannel' = lastChannel /\ cur' = Tail(cur)
  BY <1>1, <1>2, <1>3, ChannelIs
<1>5. got \in Seq(Nat) /\ tty \in Seq(Nat) /\ InHand \in Seq(Nat) /\ <<typed + 1>> \in Seq(Nat)
  BY <1>1, HandIs DEF ReaderTypes
<1>6. got' \in Seq(Nat)
  BY <1>2, <1>3, <1>5
<1>7. ReaderTypes'
  BY <1>1, <1>2, <1>4, <1>6 DEF ReaderTypes
<1>8. KeysTyped'
  BY <1>1, <1>2 DEF KeysTyped
<1>9. ASSUME ~overlapped'  PROVE OneReader' /\ InLine' /\ OwnKeys'
  <2>1. OneReader /\ InLine /\ OwnKeys
    BY <1>2, <1>9 DEF ReadIndInv
  <2>2. OneReader' /\ InHand' = InHand
    BY <1>2, <1>4, <2>1 DEF OneReader, me, InHand
  <2>3. /\ Rising(Tail(cur)) /\ Below(<<Head(cur)>>, Tail(cur)) /\ Rising(got')
    <3>1. Below(got, <<Head(cur)>>)
      BY <1>1, <1>2, <1>5, <2>1, BelowLoses DEF InLine
    <3> QED  BY <1>1, <1>2, <1>3, <1>5, <2>1, <3>1, RisingLoses, RisingGrows DEF InLine
  <2>4. Below(got, Tail(cur))
    BY <1>1, <1>2, <1>5, <2>1, BelowLoses DEF InLine
  <2>5. Below(got', Tail(cur))
    BY <1>2, <1>3, <1>5, <2>3, <2>4, BelowGathers
  <2>6. ASSUME NEW t \in Seq(Nat), Below(got, t), Below(cur, t)
        PROVE  Below(got', t) /\ Below(Tail(cur), t)
    BY <1>1, <1>2, <1>3, <1>5, <2>6, BelowLoses, BelowGathers
  <2>7. /\ Below(got', InHand) /\ Below(got', tty) /\ Below(got', <<typed + 1>>)
        /\ Below(Tail(cur), InHand) /\ Below(Tail(cur), tty) /\ Below(Tail(cur), <<typed + 1>>)
    BY <1>5, <2>1, <2>6 DEF InLine
  <2>8. InLine'
    BY <1>2, <1>4, <2>1, <2>2, <2>3, <2>5, <2>7 DEF InLine
  <2>9. OwnKeys'
    <3>1. NotMeant(got) /\ NotMeant(cur) /\ NotMeant(InHand) /\ NotMeant(tty)
      BY <1>2, <2>1 DEF OwnKeys
    <3>2. NotMeant(got') /\ NotMeant(Tail(cur))
      BY <1>2, <1>3, <1>5, <3>1, AppendIs DEF NotMeant
    <3> QED  BY <1>2, <1>4, <2>2, <3>1, <3>2 DEF OwnKeys, NotMeant
  <2> QED  BY <2>2, <2>8, <2>9
<1> QED  BY <1>7, <1>8, <1>9 DEF ReadIndInv

LEMMA StopKeeps == ASSUME ReadIndInv, StopStdinReader  PROVE ReadIndInv'
<1>1. ReaderTypes /\ KeysTyped /\ <<>> \in Seq(Nat)
  BY DEF ReadIndInv
<1>2. /\ session = "none" /\ session' = "stopped" /\ Len(readers) <= MaxSessions /\ stdinDup' = 0
      /\ channels' = [channels EXCEPT ![lastChannel] = <<>>]
      /\ UNCHANGED <<tty, typed, closed, readers, got, meant, crashed, overlapped>>
  BY DEF StopStdinReader
<1>3. /\ channels' \in Seq(Seq(Nat)) /\ Len(channels') = Len(channels)
      /\ DOMAIN channels' = DOMAIN channels /\ lastChannel' = lastChannel /\ cur' = <<>>
  BY <1>1, <1>2, ChannelIs
<1>4. ReaderTypes'
  BY <1>1, <1>2, <1>3 DEF ReaderTypes
<1>5. KeysTyped'
  BY <1>1, <1>2 DEF KeysTyped
<1>6. ASSUME ~overlapped'  PROVE OneReader' /\ InLine' /\ OwnKeys'
  <2>1. OneReader /\ InLine /\ OwnKeys
    BY <1>2, <1>6 DEF ReadIndInv
  <2>2. OneReader' /\ InHand' = InHand
    BY <1>2, <1>3, <2>1 DEF OneReader, me, InHand
  <2>3. got \in Seq(Nat) /\ tty \in Seq(Nat) /\ InHand \in Seq(Nat) /\ <<typed + 1>> \in Seq(Nat)
    BY <1>1, HandIs DEF ReaderTypes
  <2>4. /\ Rising(<<>>) /\ Below(got, <<>>) /\ Below(<<>>, InHand) /\ Below(<<>>, tty)
        /\ Below(<<>>, <<typed + 1>>)
    BY <2>3, Trivial
  <2>5. InLine'
    BY <1>2, <1>3, <2>1, <2>2, <2>4 DEF InLine
  <2>6. OwnKeys'
    BY <1>2, <2>1 DEF OwnKeys, NotMeant
  <2> QED  BY <2>2, <2>5, <2>6
<1> QED  BY <1>4, <1>5, <1>6 DEF ReadIndInv

\* What the terminal holds is discarded, or the program reads it.
LEMMA TerminalKeeps ==
  ASSUME ReadIndInv, session # "none", session' \in {"stopped", "program", "over"},
         session' = "over" => tty' = <<>>,
         tty' = <<>> \/ (tty # <<>> /\ tty' = Tail(tty)),
         UNCHANGED <<typed, stdinDup, channels, closed, readers, got, meant, crashed, overlapped>>
  PROVE  ReadIndInv'
<1>1. ReaderTypes /\ KeysTyped /\ <<>> \in Seq(Nat)
  BY DEF ReadIndInv
<1>2. got \in Seq(Nat) /\ cur \in Seq(Nat) /\ tty \in Seq(Nat) /\ InHand \in Seq(Nat)
  BY <1>1, HandIs DEF ReaderTypes
<1>3. tty' \in Seq(Nat) /\ \A i \in DOMAIN tty' : tty'[i] <= typed
  <2>1. CASE tty' = <<>>
    BY <2>1
  <2>2. CASE tty # <<>> /\ tty' = Tail(tty)
    BY <1>1, <1>2, <2>2, TailIs DEF KeysTyped
  <2> QED  BY <2>1, <2>2
<1>4. ReaderTypes'
  BY <1>1, <1>3 DEF ReaderTypes
<1>5. KeysTyped'
  BY <1>1, <1>3 DEF KeysTyped
<1>6. ASSUME ~overlapped'  PROVE OneReader' /\ InLine' /\ OwnKeys'
  <2>1. OneReader /\ InLine /\ OwnKeys
    BY <1>6 DEF ReadIndInv
  <2>2. OneReader' /\ InHand' = InHand /\ cur' = cur
    BY <2>1 DEF OneReader, me, InHand, cur, lastChannel
  <2>3. Rising(tty') /\ Below(got, tty') /\ Below(cur, tty') /\ Below(InHand, tty')
    <3>1. CASE tty' = <<>>
      BY <1>2, <3>1, Trivial
    <3>2. CASE tty # <<>> /\ tty' = Tail(tty)
      <4>1. Rising(tty) /\ Below(got, tty) /\ Below(cur, tty) /\ Below(InHand, tty)
        BY <2>1 DEF InLine
      <4> QED  BY <1>2, <3>2, <4>1, RisingLoses, BelowLoses
    <3> QED  BY <3>1, <3>2
  <2>4. InLine'
    BY <2>1, <2>2, <2>3 DEF InLine
  <2>5. OwnKeys'
    BY <2>1 DEF OwnKeys, NotMeant
  <2> QED  BY <2>2, <2>4, <2>5
<1> QED  BY <1>4, <1>5, <1>6 DEF ReadIndInv

LEMMA StartKeeps == ASSUME ReadIndInv, StartStdinReader  PROVE ReadIndInv'
<1>1. ReaderTypes /\ KeysTyped /\ <<>> \in Seq(Nat)
  BY DEF ReadIndInv
<1>2. /\ session = "over" /\ session' = "none" /\ stdinDup' = Len(readers) + 1
      /\ readers' = Append(readers, Idle) /\ channels' = Append(channels, <<>>)
      /\ overlapped' = (overlapped \/ \E r \in DOMAIN readers : readers[r].at # "ended")
      /\ UNCHANGED <<tty, typed, closed, got, meant, crashed>>
  BY DEF StartStdinReader
<1>3. Idle \in Goroutine /\ Idle.at = "reads" /\ Idle.key = 0
  BY DEF Idle, Goroutine, Spots
<1>4. /\ readers' \in Seq(Goroutine) /\ Len(readers') = Len(readers) + 1
      /\ DOMAIN readers' = 1..Len(readers) + 1 /\ DOMAIN readers = 1..Len(readers)
      /\ readers'[Len(readers) + 1] = Idle /\ Len(readers) \in Nat
      /\ \A r \in DOMAIN readers : readers'[r] = readers[r]
  BY <1>1, <1>2, <1>3, AppendIs DEF ReaderTypes
<1>5. /\ channels' \in Seq(Seq(Nat)) /\ Len(channels') = Len(channels) + 1
      /\ DOMAIN channels' = 1..Len(channels) + 1 /\ DOMAIN channels = 1..Len(channels)
      /\ channels'[Len(channels) + 1] = <<>> /\ Len(channels) = Len(readers)
  BY <1>1, <1>2, AppendIs DEF ReaderTypes
<1>6. ReaderTypes'
  <2>1. Len(readers') \in 1..MaxSessions + 1
    <3>1. MaxSessions \in Nat
      BY ReaderAssumption, Zenon
    <3> QED  BY <1>1, <1>2, <1>4, <3>1 DEF ReaderTypes
  <2>2. overlapped' \in BOOLEAN
    BY <1>1, <1>2 DEF ReaderTypes
  <2>3. closed' \subseteq DOMAIN channels'
    BY <1>1, <1>2, <1>4, <1>5 DEF ReaderTypes
  <2> QED  BY <1>1, <1>2, <1>4, <1>5, <2>1, <2>2, <2>3 DEF ReaderTypes
<1>7. KeysTyped'
  <2>1. typed \in Nat
    BY <1>1 DEF ReaderTypes
  <2> QED  BY <1>1, <1>2, <1>3, <1>4, <2>1 DEF KeysTyped
<1>8. ASSUME ~overlapped'  PROVE OneReader' /\ InLine' /\ OwnKeys'
  <2>1. OneReader /\ InLine /\ OwnKeys /\ \A r \in DOMAIN readers : readers[r].at = "ended"
    BY <1>2, <1>8 DEF ReadIndInv
  <2>2. /\ me' = Idle /\ cur' = <<>> /\ InHand' = <<>> /\ lastChannel' = Len(readers) + 1
        /\ lastChannel' \notin closed
    <3>1. me' = Idle /\ lastChannel' = Len(readers) + 1
      BY <1>4, <1>5 DEF me, lastChannel
    <3>2. cur' = <<>>
      BY <1>5 DEF cur, lastChannel
    <3>3. InHand' = <<>>
      BY <1>3, <3>1 DEF InHand
    <3>4. Len(readers) + 1 \notin closed
      BY <1>1, <1>4, <1>5 DEF ReaderTypes
    <3> QED  BY <3>1, <3>2, <3>3, <3>4
  <2>3. OneReader'
    BY <1>2, <1>3, <1>4, <2>1, <2>2 DEF OneReader
  <2>4. got \in Seq(Nat) /\ tty \in Seq(Nat) /\ <<typed + 1>> \in Seq(Nat)
    BY <1>1, HandIs DEF ReaderTypes
  <2>5. /\ Rising(<<>>) /\ Below(got, <<>>) /\ Below(<<>>, tty) /\ Below(<<>>, <<typed + 1>>)
        /\ Below(<<>>, <<>>)
    BY <1>1, <2>4, Trivial
  <2>6. InLine'
    BY <1>2, <2>1, <2>2, <2>5 DEF InLine
  <2>7. OwnKeys'
    BY <1>2, <2>1, <2>2 DEF OwnKeys, NotMeant
  <2> QED  BY <2>3, <2>6, <2>7
<1> QED  BY <1>6, <1>7, <1>8 DEF ReadIndInv

LEMMA ReadStep == ReadIndInv /\ [ReaderNext]_readerVars => ReadIndInv'
<1> SUFFICES ASSUME ReadIndInv, [ReaderNext]_readerVars  PROVE ReadIndInv'
  OBVIOUS
<1>1. CASE UNCHANGED readerVars
  BY <1>1 DEF readerVars, ReadIndInv, ReaderTypes, KeysTyped, OneReader, InLine, OwnKeys, NotMeant,
     me, cur, lastChannel, InHand
<1>2. CASE RunProgram
  BY <1>2, TerminalKeeps DEF RunProgram
<1>3. CASE ProgramReads
  BY <1>3, TerminalKeeps DEF ProgramReads
<1>4. CASE ProgramEnds
  BY <1>4, TerminalKeeps DEF ProgramEnds
<1> QED
  BY <1>1, <1>2, <1>3, <1>4, TypeKeeps, HandleKeeps, BeginsKeeps, ReadsKeeps, SendsKeeps,
     ClosesKeeps, StopKeeps, StartKeeps
  DEF ReaderNext

LEMMA ReadImplies == ReadIndInv => ReaderInv
<1> SUFFICES ASSUME ReadIndInv  PROVE ReaderInv
  OBVIOUS
<1>1. ReaderTypes /\ KeysTyped
  BY DEF ReadIndInv
<1>2. ReaderTypeOK
  <2>1. \A r \in DOMAIN readers : readers[r] \in Goroutine
    BY <1>1 DEF ReaderTypes
  <2>2. \A r \in DOMAIN readers : readers[r].at \in Spots /\ readers[r].key \in 0..MaxTyped
    <3>1. typed \in Nat /\ typed <= MaxTyped /\ MaxTyped \in Nat
      BY <1>1, ReaderAssumption DEF ReaderTypes
    <3> QED  BY <1>1, <2>1, <3>1 DEF KeysTyped, Goroutine
  <2> QED  BY <1>1, <2>2 DEF ReaderTypeOK, ReaderTypes, Spots
<1>3. KeysInOrder
  <2>1. ASSUME ~overlapped  PROVE ToSet(got) \cap meant = {}
    BY <2>1 DEF ReadIndInv, OwnKeys, NotMeant, ToSet
  <2> QED  BY <2>1 DEF KeysInOrder, ReadIndInv, OneReader, InLine, Rising
<1> QED  BY <1>2, <1>3 DEF ReaderInv

\* ReaderSpec => []ReaderInv: unless a program ended before the reader stopped for it had, the keys
\* startStdinReader's goroutines hand over arrive in the order of typing, none that was typed for
\* a program is among them, and no goroutine sends on or closes a closed channel.
THEOREM KeysArrive == ReaderSpec => []ReaderInv
BY ReadInit, ReadStep, ReadImplies, PTL DEF ReaderSpec

-----------------------------------------------------------------------------
(***************************************************************************)
(* The input line                                                          *)
(***************************************************************************)

Held == [is : Kinds, number : 1..MaxHeld, of : Contents, made : 0..MaxMessages]

\* A placeholder made for the message that is being written stands for what it was made for.
Stands(p) ==
  /\ p.made <= messages
  /\ p.made = messages => p.number <= Len(store[p.is]) /\ store[p.is][p.number] = p.of
Sound == {p \in Pieces : p.is \in Kinds => Stands(p)}

EntryTypes ==
  /\ store \in [Kinds -> Seq(Contents)]
  /\ index \in Int /\ index >= -1 /\ index < Len(recent)
  /\ busy \in BOOLEAN /\ naming \in BOOLEAN
  /\ messages \in Nat /\ messages <= MaxMessages /\ held \in Nat /\ held <= MaxHeld
  /\ Len(store["paste"]) <= held /\ Len(store["file"]) <= held

\* Wherever a line is kept, its placeholders are sound.
LinesSound == pieces \in Seq(Sound) /\ kept \in Seq(Sound) /\ recent \in Seq(Seq(Sound))

EntryIndInv == EntryTypes /\ LinesSound /\ PasteKept

LEMMA PieceIs ==
  ASSUME NEW p \in Pieces
  PROVE  /\ p.is \in Kinds => p \in Held
         /\ p.is = "path" => p.of \in Contents
<1>1. CASE p \in Held
  BY <1>1 DEF Held, Kinds
<1>2. CASE p = Word \/ p = Slash \/ p = Damaged
  BY <1>2 DEF Word, Slash, Damaged, Kinds
<1>3. CASE \E c \in Contents : p = Path(c)
  BY <1>3 DEF Path, Kinds
<1> QED  BY <1>1, <1>2, <1>3 DEF Pieces, Held

LEMMA PlainSound ==
  Word \in Sound /\ Slash \in Sound /\ Damaged \in Sound /\ \A c \in Contents : Path(c) \in Sound
BY DEF Sound, Pieces, Word, Slash, Damaged, Path, Kinds

LEMMA SeqGrows ==
  ASSUME NEW S, NEW T, S \subseteq T, NEW s \in Seq(S)  PROVE s \in Seq(T)
<1>1. DOMAIN s = 1..Len(s) /\ Len(s) \in Nat /\ \A i \in 1..Len(s) : s[i] \in T
  OBVIOUS
<1> QED  BY <1>1, IsASeq

LEMMA LinesGrow ==
  ASSUME LinesSound, Sound \subseteq Sound'
  PROVE  pieces \in Seq(Sound') /\ kept \in Seq(Sound') /\ recent \in Seq(Seq(Sound'))
<1>1. ASSUME NEW s \in Seq(Sound)  PROVE s \in Seq(Sound')
  BY SeqGrows
<1>2. Seq(Sound) \subseteq Seq(Sound')
  BY <1>1
<1> QED  BY <1>1, <1>2, SeqGrows DEF LinesSound

LEMMA EntInit == EntryInit => EntryIndInv
<1> SUFFICES ASSUME EntryInit  PROVE EntryIndInv
  OBVIOUS
<1>1. MaxHeld \in Nat /\ MaxMessages \in Nat
  BY EntryAssumption, Zenon
<1>2. pieces = <<>> /\ kept = <<>> /\ recent = <<>> /\ sent = <<>> /\ Len(recent) = 0
  BY DEF EntryInit
<1>3. LinesSound
  BY <1>2 DEF LinesSound
<1>4. <<>> \in Seq(Contents) /\ Len(<<>>) = 0
  OBVIOUS
<1>5. EntryTypes
  <2>1. /\ store = [k \in Kinds |-> <<>>] /\ index = -1 /\ busy = FALSE /\ naming = FALSE
        /\ messages = 0 /\ held = 0
    BY DEF EntryInit
  <2>2. store \in [Kinds -> Seq(Contents)] /\ store["paste"] = <<>> /\ store["file"] = <<>>
    BY <1>4, <2>1 DEF Kinds
  <2>3. index \in Int /\ index >= -1 /\ index < Len(recent)
    BY <1>2, <2>1
  <2>4. messages \in Nat /\ messages <= MaxMessages /\ held \in Nat /\ held <= MaxHeld
    BY <1>1, <2>1
  <2>5. Len(store["paste"]) <= held /\ Len(store["file"]) <= held
    BY <1>4, <2>1, <2>2
  <2> QED  BY <2>1, <2>2, <2>3, <2>4, <2>5 DEF EntryTypes
<1>6. PasteKept
  BY <1>2 DEF PasteKept
<1> QED  BY <1>3, <1>5, <1>6 DEF EntryIndInv

LEMMA NothingIsKept == ASSUME NothingSent PROVE PasteKept'
BY DEF NothingSent, PasteKept

-----------------------------------------------------------------------------
(* Steps that leave the store and the number of messages                    *)

LEMMA StoreStands == ASSUME UNCHANGED <<store, messages>>  PROVE Sound' = Sound
BY DEF Sound, Stands

\* An edit: the line is sound, what is kept of it too, and the history is left or walked.
LEMMA EditKeeps ==
  ASSUME EntryIndInv, UNCHANGED <<store, recent, messages, held>>, NothingSent,
         busy' \in BOOLEAN, naming' \in BOOLEAN,
         pieces' \in Seq(Sound), kept' \in Seq(Sound),
         index' \in Int, index' >= -1, index' < Len(recent)
  PROVE  EntryIndInv'
<1>1. EntryTypes /\ LinesSound
  BY DEF EntryIndInv
<1>2. LinesSound'
  BY <1>1, StoreStands DEF LinesSound
<1>3. EntryTypes'
  BY <1>1 DEF EntryTypes
<1> QED  BY <1>2, <1>3, NothingIsKept DEF EntryIndInv

LEMMA NavIs ==
  ASSUME EntryIndInv, NavRest
  PROVE  /\ kept' \in Seq(Sound) /\ index' \in Int /\ index' >= -1
         /\ UNCHANGED recent => index' < Len(recent)
<1>1. EntryTypes /\ LinesSound
  BY DEF EntryIndInv
<1>2. Len(recent) \in Nat
  BY <1>1 DEF LinesSound
<1> QED  BY <1>1, <1>2 DEF NavRest, LinesSound

LEMMA RemoveIs ==
  ASSUME NEW S, NEW s \in Seq(S), NEW i \in DOMAIN s  PROVE RemoveAt(s, i) \in Seq(S)
<1>1. Len(s) \in Nat /\ i \in 1..Len(s)
  OBVIOUS
<1>2. SubSeq(s, 1, i - 1) \in Seq(S) /\ SubSeq(s, i + 1, Len(s)) \in Seq(S)
  BY <1>1
<1> QED  BY <1>2 DEF RemoveAt

LEMMA TypingKeeps ==
  ASSUME EntryIndInv, TypePiece \/ TypeSlash \/ DeletePiece \/ ClearInput  PROVE EntryIndInv'
<1>1. EntryTypes /\ LinesSound /\ pieces \in Seq(Sound) /\ kept \in Seq(Sound)
  BY DEF EntryIndInv, LinesSound
<1>2. /\ UNCHANGED <<store, recent, messages, held, busy, naming>> /\ NothingSent
      /\ NavRest \/ UNCHANGED <<index, kept>>
  BY DEF TypePiece, TypeSlash, DeletePiece, ClearInput, Elsewhere
<1>3. kept' \in Seq(Sound) /\ index' \in Int /\ index' >= -1 /\ index' < Len(recent)
  BY <1>1, <1>2, NavIs DEF EntryTypes
<1>4. pieces' \in Seq(Sound)
  <2>1. CASE TypePiece
    <3>1. PICK p \in {Word} \cup {Path(c) : c \in Contents} : pieces' = Append(pieces, p)
      BY <2>1 DEF TypePiece
    <3>2. p \in Sound
      BY <3>1, PlainSound
    <3> QED  BY <1>1, <3>1, <3>2
  <2>2. CASE TypeSlash
    BY <2>2, PlainSound DEF TypeSlash
  <2>3. CASE DeletePiece
    <3>1. PICK i \in DOMAIN pieces :
            pieces' = RemoveAt(pieces, i) \/ pieces' = [pieces EXCEPT ![i] = Damaged]
      BY <2>3 DEF DeletePiece
    <3>2. i \in 1..Len(pieces)
      BY <1>1
    <3>3. RemoveAt(pieces, i) \in Seq(Sound)
      BY <1>1, RemoveIs
    <3>4. [pieces EXCEPT ![i] = Damaged] \in Seq(Sound)
      BY <1>1, <3>2, PlainSound, ExceptSeq
    <3> QED  BY <3>1, <3>3, <3>4
  <2>4. CASE ClearInput
    BY <2>4 DEF ClearInput
  <2> QED  BY <2>1, <2>2, <2>3, <2>4
<1> QED  BY <1>1, <1>2, <1>3, <1>4, EditKeeps DEF EntryTypes

LEMMA WalkKeeps == ASSUME EntryIndInv, HistoryUp \/ HistoryDown  PROVE EntryIndInv'
<1>1. EntryTypes /\ LinesSound /\ pieces \in Seq(Sound) /\ kept \in Seq(Sound)
      /\ recent \in Seq(Seq(Sound))
  BY DEF EntryIndInv, LinesSound
<1>2. /\ UNCHANGED <<store, recent, messages, held, busy, naming>> /\ NothingSent
  BY DEF HistoryUp, HistoryDown, Elsewhere
<1>3. Len(recent) \in Nat /\ index \in Int /\ index >= -1 /\ index < Len(recent)
  BY <1>1 DEF EntryTypes
<1>4. \A i \in 1..Len(recent) : recent[i] \in Seq(Sound)
  BY <1>1
<1>5. CASE HistoryUp
  <2>1. index' = index + 1 /\ index < Len(recent) - 1 /\ pieces' = recent[Len(recent) - index']
        /\ kept' = (IF index = -1 THEN pieces ELSE kept)
    BY <1>5 DEF HistoryUp
  <2>2. Len(recent) - index' \in 1..Len(recent)
    BY <1>3, <2>1
  <2>3. pieces' \in Seq(Sound) /\ kept' \in Seq(Sound)
    BY <1>1, <1>4, <2>1, <2>2
  <2>4. index' \in Int /\ index' >= -1 /\ index' < Len(recent)
    BY <1>3, <2>1
  <2> QED  BY <1>1, <1>2, <2>3, <2>4, EditKeeps DEF EntryTypes
<1>6. CASE HistoryDown
  <2>1. index' = index - 1 /\ index >= 0
    BY <1>6 DEF HistoryDown
  <2>2. pieces' \in Seq(Sound) /\ kept' \in Seq(Sound)
    <3>1. CASE index = 0
      BY <1>1, <1>6, <3>1 DEF HistoryDown
    <3>2. CASE index # 0
      <4>1. pieces' = recent[Len(recent) - index'] /\ kept' = kept
        BY <1>6, <3>2 DEF HistoryDown
      <4>2. Len(recent) - index' \in 1..Len(recent)
        BY <1>3, <2>1, <3>2
      <4> QED  BY <1>1, <1>4, <4>1, <4>2
    <3> QED  BY <3>1, <3>2
  <2>4. index' \in Int /\ index' >= -1 /\ index' < Len(recent)
    BY <1>3, <2>1
  <2> QED  BY <1>1, <1>2, <2>2, <2>4, EditKeeps DEF EntryTypes
<1> QED  BY <1>5, <1>6

LEMMA CommandsKeep ==
  ASSUME EntryIndInv, EnterName \/ EnterCommand \/ TurnEnds  PROVE EntryIndInv'
<1>1. /\ EntryTypes /\ LinesSound
      /\ pieces \in Seq(Sound) /\ kept \in Seq(Sound) /\ <<>> \in Seq(Sound)
  BY DEF EntryIndInv, LinesSound
<1>2. /\ UNCHANGED <<store, recent, messages, held, index, kept>> /\ NothingSent
      /\ busy' \in BOOLEAN /\ naming' \in BOOLEAN /\ pieces' \in {<<>>, pieces}
  BY <1>1 DEF EnterName, EnterCommand, TurnEnds, EntryTypes
<1> QED  BY <1>1, <1>2, EditKeeps DEF EntryTypes

LEMMA RememberIs ==
  ASSUME EntryIndInv, NEW line \in Seq(Sound), Remember(line)
  PROVE  /\ recent' \in Seq(Seq(Sound)) /\ kept' \in Seq(Sound)
         /\ index' \in Int /\ index' >= -1 /\ index' < Len(recent')
<1>1. EntryTypes /\ LinesSound /\ kept \in Seq(Sound) /\ recent \in Seq(Seq(Sound))
  BY DEF EntryIndInv, LinesSound
<1>2. CASE UNCHANGED <<recent, index, kept>>
  BY <1>1, <1>2 DEF EntryTypes
<1>3. CASE /\ recent' = LET r == Append(recent, line) IN IF Len(r) > MaxRecent THEN Tail(r) ELSE r
           /\ index' = -1 /\ kept' = <<>>
  <2>1. /\ Append(recent, line) \in Seq(Seq(Sound)) /\ Len(Append(recent, line)) = Len(recent) + 1
        /\ Append(recent, line) # <<>> /\ Len(recent) \in Nat
    <3>1. /\ Append(recent, line) \in Seq(Seq(Sound)) /\ Len(Append(recent, line)) = Len(recent) + 1
          /\ Len(recent) \in Nat
      BY <1>1
    <3>2. Append(recent, line) # <<>>
      BY <3>1
    <3> QED  BY <3>1, <3>2
  <2>2. /\ Tail(Append(recent, line)) \in Seq(Seq(Sound))
    BY <2>1, HeadTailProperties
  <2>3. recent' \in Seq(Seq(Sound))
    BY <1>3, <2>1, <2>2
  <2>4. Len(recent') \in Nat
    BY <2>3
  <2>5. <<>> \in Seq(Sound)
    OBVIOUS
  <2> QED  BY <1>3, <2>3, <2>4, <2>5
<1> QED  BY <1>2, <1>3 DEF Remember

LEMMA SlashKeeps == ASSUME EntryIndInv, EnterSlash  PROVE EntryIndInv'
<1>1. EntryTypes /\ LinesSound /\ pieces \in Seq(Sound) /\ kept \in Seq(Sound)
      /\ recent \in Seq(Seq(Sound)) /\ <<>> \in Seq(Sound)
  BY DEF EntryIndInv, LinesSound
<1>2. /\ UNCHANGED <<store, busy, naming, messages, held>> /\ NothingSent /\ pieces' = <<>>
      /\ Remember(pieces) \/ UNCHANGED <<recent, index, kept>>
  BY DEF EnterSlash
<1>3. /\ recent' \in Seq(Seq(Sound)) /\ kept' \in Seq(Sound)
      /\ index' \in Int /\ index' >= -1 /\ index' < Len(recent')
  BY <1>1, <1>2, RememberIs DEF EntryTypes
<1>4. LinesSound'
  BY <1>1, <1>2, <1>3, StoreStands DEF LinesSound
<1>5. EntryTypes'
  BY <1>1, <1>2, <1>3 DEF EntryTypes
<1> QED  BY <1>2, <1>4, <1>5, NothingIsKept DEF EntryIndInv

-----------------------------------------------------------------------------
(* A placeholder is made                                                    *)

LEMMA PasteKeeps == ASSUME EntryIndInv, HandlePaste  PROVE EntryIndInv'
<1>1. EntryTypes /\ LinesSound
  BY DEF EntryIndInv
<1>2. PICK k \in Kinds, c \in Contents :
        /\ Holds(k, c) /\ pieces' = Append(pieces, Placeholder(k, Len(store[k]) + 1, c))
  BY DEF HandlePaste
<1>0. PICK p : p = Placeholder(k, Len(store[k]) + 1, c)
  OBVIOUS
<1>3. /\ held < MaxHeld /\ held' = held + 1 /\ store' = [store EXCEPT ![k] = Append(store[k], c)]
      /\ NavRest /\ NothingSent /\ UNCHANGED <<recent, busy, naming, messages>>
  BY <1>2 DEF HandlePaste, Holds
<1>4. /\ store[k] \in Seq(Contents) /\ Len(store[k]) \in Nat /\ Len(store[k]) <= held
      /\ held \in Nat /\ MaxHeld \in Nat
  BY <1>1, EntryAssumption DEF EntryTypes, Kinds
<1>5. /\ store' \in [Kinds -> Seq(Contents)] /\ store'[k] = Append(store[k], c)
      /\ \A q \in Kinds : q # k => store'[q] = store[q]
      /\ Len(store'[k]) = Len(store[k]) + 1 /\ store'[k][Len(store[k]) + 1] = c
      /\ \A n \in 1..Len(store[k]) : store'[k][n] = store[k][n]
  BY <1>1, <1>3, <1>4 DEF EntryTypes
<1>6. EntryTypes'
  <2>1. kept' \in Seq(Sound) /\ index' \in Int /\ index' >= -1 /\ index' < Len(recent)
    BY <1>3, NavIs
  <2>2. \A q \in Kinds : Len(store'[q]) <= held'
    <3>1. \A q \in Kinds : Len(store[q]) <= held /\ Len(store[q]) \in Nat
      BY <1>1 DEF EntryTypes, Kinds
    <3> QED  BY <1>3, <1>4, <1>5, <3>1
  <2> QED  BY <1>1, <1>3, <1>4, <1>5, <2>1, <2>2 DEF EntryTypes, Kinds
<1>7. Sound \subseteq Sound'
  <2> SUFFICES ASSUME NEW q \in Sound, q.is \in Kinds  PROVE Stands(q)'
    BY DEF Sound
  <2>1. q \in Held /\ Stands(q)
    BY PieceIs DEF Sound
  <2>2. q.number \in Nat \ {0} /\ Len(store[q.is]) \in Nat
    BY <1>1, <2>1 DEF Held, EntryTypes
  <2>3. q.number <= Len(store[q.is]) =>
          q.number <= Len(store'[q.is]) /\ store'[q.is][q.number] = store[q.is][q.number]
    <3>1. CASE q.is = k
      <4>1. ASSUME q.number <= Len(store[k])  PROVE q.number \in 1..Len(store[k])
        BY <1>4, <2>2, <4>1
      <4> QED  BY <1>4, <1>5, <2>2, <3>1, <4>1
    <3>2. CASE q.is # k
      BY <1>5, <3>2
    <3> QED  BY <3>1, <3>2
  <2> QED  BY <1>3, <2>1, <2>3 DEF Stands
<1>8. p \in Sound'
  <2>1. p.is = k /\ p.number = Len(store[k]) + 1 /\ p.of = c /\ p.made = messages
    BY <1>0 DEF Placeholder
  <2>2. Len(store[k]) + 1 \in 1..MaxHeld /\ messages \in 0..MaxMessages
    BY <1>1, <1>3, <1>4, EntryAssumption DEF EntryTypes
  <2>3. p \in Pieces
    BY <1>0, <2>2 DEF Placeholder, Pieces
  <2>4. Stands(p)'
    BY <1>1, <1>3, <1>4, <1>5, <2>1 DEF Stands, EntryTypes
  <2> QED  BY <2>3, <2>4 DEF Sound
<1>9. LinesSound'
  <2>1. pieces \in Seq(Sound') /\ kept \in Seq(Sound') /\ recent \in Seq(Seq(Sound'))
    BY <1>1, <1>7, LinesGrow
  <2>2. Append(pieces, p) \in Seq(Sound')
    BY <1>8, <2>1
  <2>3. kept' \in Seq(Sound')
    BY <1>3, <2>1 DEF NavRest
  <2> QED  BY <1>0, <1>2, <1>3, <2>1, <2>2, <2>3 DEF LinesSound
<1> QED  BY <1>3, <1>6, <1>9, NothingIsKept DEF EntryIndInv
-----------------------------------------------------------------------------
(* The message is sent                                                      *)

LEMMA PathsAttached ==
  ASSUME EntryTypes, LinesSound, AllPaths, NEW i \in DOMAIN pieces
  PROVE  /\ Attached[i].is = "file" /\ Attached[i].of = pieces[i].of
         /\ Expand(Attached[i], Filled) = Attached[i].of
<1> DEFINE old == store["file"]
           new == [j \in DOMAIN pieces |-> pieces[j].of]
<1>1. /\ pieces \in Seq(Sound) /\ DOMAIN pieces = 1..Len(pieces) /\ Len(pieces) \in Nat
      /\ old \in Seq(Contents) /\ Len(old) \in Nat
  BY DEF LinesSound, EntryTypes, Kinds
<1>2. \A j \in DOMAIN pieces : pieces[j].of \in Contents
  <2>1. \A j \in DOMAIN pieces : pieces[j] \in Pieces /\ pieces[j].is = "path"
    BY <1>1 DEF AllPaths, Sound
  <2> QED  BY <2>1, PieceIs
<1>3. new \in Seq(Contents) /\ Len(new) = Len(pieces)
  <2>1. new \in [1..Len(pieces) -> Contents]
    BY <1>1, <1>2
  <2> QED  BY <1>1, <2>1
<1>4. new[i] = pieces[i].of /\ i \in 1..Len(new)
  BY <1>1, <1>3
<1>5. Filled = [store EXCEPT !["file"] = old \o new]
  BY DEF Filled
<1> HIDE DEF old, new
<1>6. /\ Len(old \o new) = Len(old) + Len(new) /\ (old \o new)[Len(old) + i] = new[i]
      /\ Len(old) + i <= Len(old \o new)
  <2>1. Len(new) \in Nat /\ i \in Nat /\ i >= 1 /\ i <= Len(new)
    BY <1>3, <1>4
  <2>2. /\ Len(old \o new) = Len(old) + Len(new)
        /\ \A j \in 1..Len(old) + Len(new) :
             (old \o new)[j] = IF j <= Len(old) THEN old[j] ELSE new[j - Len(old)]
    BY <1>1, <1>3, ConcatProperties
  <2>3. Len(old) + i \in 1..Len(old) + Len(new) /\ ~(Len(old) + i <= Len(old))
        /\ Len(old) + i - Len(old) = i
    BY <1>1, <2>1
  <2> QED  BY <1>1, <2>1, <2>2, <2>3
<1>7. Filled["file"] = old \o new
  BY <1>5 DEF EntryTypes, Kinds
<1>8. Attached[i] = Placeholder("file", Len(old) + i, pieces[i].of)
  BY DEF Attached, old
<1>9. /\ Attached[i].is = "file" /\ Attached[i].number = Len(old) + i
      /\ Attached[i].of = pieces[i].of
  BY <1>8 DEF Placeholder
<1> QED  BY <1>4, <1>6, <1>7, <1>9 DEF Expand, ExpandAttachment

LEMMA SoundExpands ==
  ASSUME NEW p \in Sound, p.is \in Kinds, p.made = messages
  PROVE  Expand(p, store) = p.of
BY DEF Sound, Stands, Expand, ExpandPaste, ExpandAttachment, Kinds

LEMMA SubmitKeeps == ASSUME EntryIndInv, Submit  PROVE EntryIndInv'
<1>1. EntryTypes /\ LinesSound
  BY DEF EntryIndInv
<1>2. /\ messages < MaxMessages /\ Remember(pieces) /\ pieces' = <<>>
      /\ store' = [k \in Kinds |-> <<>>] /\ messages' = messages + 1
      /\ sent' = [i \in DOMAIN Attached |-> [piece |-> Attached[i], got |-> Expand(Attached[i], Filled)]]
      /\ busy' \in BOOLEAN /\ UNCHANGED <<naming, held>>
  BY DEF Submit
<1>3. pieces \in Seq(Sound) /\ messages \in Nat /\ MaxMessages \in Nat
  BY <1>1, EntryAssumption DEF LinesSound, EntryTypes
<1>4. /\ recent' \in Seq(Seq(Sound)) /\ kept' \in Seq(Sound)
      /\ index' \in Int /\ index' >= -1 /\ index' < Len(recent')
  BY <1>2, <1>3, RememberIs
<1>5. EntryTypes'
  <2>1. store' \in [Kinds -> Seq(Contents)] /\ Len(store'["paste"]) = 0 /\ Len(store'["file"]) = 0
    <3>1. <<>> \in Seq(Contents) /\ Len(<<>>) = 0
      OBVIOUS
    <3> QED  BY <1>2, <3>1 DEF Kinds
  <2>2. messages' \in Nat /\ messages' <= MaxMessages
    BY <1>2, <1>3
  <2> QED  BY <1>1, <1>2, <1>4, <2>1, <2>2 DEF EntryTypes
<1>6. Sound \subseteq Sound'
  <2> SUFFICES ASSUME NEW p \in Sound, p.is \in Kinds  PROVE Stands(p)'
    BY DEF Sound
  <2>1. p \in Held /\ p.made <= messages
    BY PieceIs DEF Sound, Stands
  <2>2. p.made \in Nat
    BY <1>3, <2>1 DEF Held
  <2>3. p.made <= messages' /\ p.made # messages'
    BY <1>2, <1>3, <2>1, <2>2
  <2> QED  BY <2>3 DEF Stands
<1>7. LinesSound'
  <2>1. \A s \in Seq(Sound) : s \in Seq(Sound')
    <3>1. ASSUME NEW s \in Seq(Sound)  PROVE s \in Seq(Sound')
      BY <1>6, SeqGrows
    <3> QED  BY <3>1
  <2>2. Seq(Sound) \subseteq Seq(Sound')
    BY <2>1
  <2>3. recent' \in Seq(Seq(Sound'))
    BY <1>4, <2>2, SeqGrows
  <2>4. <<>> \in Seq(Sound')
    OBVIOUS
  <2> QED  BY <1>2, <1>4, <2>1, <2>3, <2>4 DEF LinesSound
<1>8. PasteKept'
  <2> SUFFICES ASSUME NEW i \in DOMAIN sent', sent'[i].piece.is \in Kinds,
                      sent'[i].piece.made = messages' - 1
               PROVE  sent'[i].got = sent'[i].piece.of
    BY DEF PasteKept
  <2>1. /\ i \in DOMAIN Attached /\ sent'[i].piece = Attached[i]
        /\ sent'[i].got = Expand(Attached[i], Filled)
    BY <1>2
  <2>2. messages' - 1 = messages
    BY <1>2, <1>3
  <2>3. CASE AllPaths
    <3>1. i \in DOMAIN pieces
      BY <2>1, <2>3 DEF Attached
    <3> QED  BY <1>1, <2>1, <2>3, <3>1, PathsAttached
  <2>4. CASE ~AllPaths
    <3>1. Attached = pieces /\ Filled = store
      BY <2>4 DEF Attached, Filled
    <3>2. Attached[i] \in Sound
      BY <1>3, <2>1, <3>1
    <3> QED  BY <2>1, <2>2, <3>1, <3>2, SoundExpands
  <2> QED  BY <2>3, <2>4
<1> QED  BY <1>5, <1>7, <1>8 DEF EntryIndInv

LEMMA EntStep == EntryIndInv /\ [EntryNext]_entryVars => EntryIndInv'
<1> SUFFICES ASSUME EntryIndInv, [EntryNext]_entryVars  PROVE EntryIndInv'
  OBVIOUS
<1>1. CASE UNCHANGED entryVars
  BY <1>1 DEF entryVars, EntryIndInv, EntryTypes, LinesSound, Sound, Stands, PasteKept
<1> QED
  BY <1>1, TypingKeeps, WalkKeeps, CommandsKeep, SlashKeeps, PasteKeeps, SubmitKeeps DEF EntryNext

LEMMA EntImplies == EntryIndInv => EntryInv
<1> SUFFICES ASSUME EntryIndInv  PROVE PromptTypeOK
  BY DEF EntryIndInv, EntryInv
<1>1. EntryTypes /\ LinesSound
  BY DEF EntryIndInv
<1>2. Sound \subseteq Pieces
  BY DEF Sound
<1>3. ASSUME NEW s \in Seq(Sound)  PROVE s \in Seq(Pieces)
  BY <1>2, SeqGrows
<1>4. \A s \in ToSet(recent) : s \in Seq(Sound)
  BY <1>1 DEF LinesSound, ToSet
<1>5. {pieces, kept} \cup ToSet(recent) \subseteq Seq(Pieces)
  BY <1>1, <1>3, <1>4 DEF LinesSound
<1>6. index \in -1..Len(recent) - 1
  <2>1. Len(recent) \in Nat
    BY <1>1 DEF LinesSound
  <2> QED  BY <1>1, <2>1 DEF EntryTypes
<1> QED  BY <1>1, <1>5, <1>6 DEF PromptTypeOK, EntryTypes

\* EntrySpec => []EntryInv: a placeholder that handlePaste or tryAttachPaths made for the message
\* handleEnter sends is filled with what it was made for, whatever happened to the line.
THEOREM PlaceholdersStand == EntrySpec => []EntryInv
BY EntInit, EntStep, EntImplies, PTL DEF EntrySpec

-----------------------------------------------------------------------------
(***************************************************************************)
(* The files                                                               *)
(***************************************************************************)

Modes == {"own", "temp"}
Stages == {"starts", "fills", "sets mode", "renames", "ended", "killed"}
Files == {<<>>} \cup {<<f>> : f \in [text : Texts, mode : Modes]}
Process == [ask : Asks, at : Stages, seen : Files, text : Texts, mode : Modes]

HelpTypes ==
  /\ file \in Files /\ proc \in Seq(Process) /\ temps \subseteq DOMAIN proc
  /\ DOMAIN told = DOMAIN proc
  /\ faults \in Nat /\ faults <= MaxFaults

\* What a process is about to put into the file was meant by its caller.
TextsMeant ==
  \A c \in DOMAIN proc :
    proc[c].at \in {"fills", "sets mode", "renames"} => proc[c].text \in written

\* The mode a file gets that is made anew; and the mode of the one that is there.
ModeNow == IF file = <<>> THEN "temp" ELSE file[1].mode

\* Until the file is removed: who saw no file began when there was none, and what is renamed
\* has the mode of the file it replaces.
ModesAgree ==
  ~removed => \A c \in DOMAIN proc :
    /\ file = <<>> => proc[c].seen = <<>>
    /\ proc[c].at \in {"fills", "sets mode"} /\ proc[c].seen = <<>> => ModeNow = "temp"
    /\ proc[c].at = "renames" => proc[c].mode = ModeNow

HelpIndInv == HelpTypes /\ WholeText /\ TempsGone /\ TextsMeant /\ ModesAgree

LEMMA EmptyText == <<>> \in Texts
<1>1. MaxWords \in Nat
  BY HelpersAssumption, Zenon
<1>2. <<>> \in [1..0 -> Words] /\ 0 \in 0..MaxWords
  BY <1>1
<1> QED  BY <1>2 DEF Texts

LEMMA TextReplaced ==
  ASSUME NEW text \in Texts, NEW ask, ask.to \in Words  PROVE Replaced(ask, text) \in Texts
<1>1. PICK k \in 0..MaxWords : text \in [1..k -> Words]
  BY DEF Texts
<1>2. Replaced(ask, text) \in [1..k -> Words]
  BY <1>1 DEF Replaced
<1> QED  BY <1>2 DEF Texts

LEMMA AskIs ==
  ASSUME NEW ask \in Asks
  PROVE  /\ ask.tool = "edit" => ask.to \in Words
         /\ ask.tool = "write" => ask.text \in Texts
<1>1. CASE \E from \in Words, to \in Words, all \in BOOLEAN : ask = EditCall(from, to, all)
  BY <1>1 DEF EditCall
<1>2. CASE \E text \in Texts : ask = Write(text)
  BY <1>2 DEF Write
<1> QED  BY <1>1, <1>2 DEF Asks

LEMMA FileIs ==
  ASSUME NEW f \in Files, f # <<>>
  PROVE  /\ f[1] \in [text : Texts, mode : Modes] /\ f = <<f[1]>>
         /\ DOMAIN f = {1} /\ Len(f) = 1
<1>1. PICK g \in [text : Texts, mode : Modes] : f = <<g>>
  BY DEF Files
<1>2. DOMAIN <<g>> = {1}
  OBVIOUS
<1> QED  BY <1>1, <1>2

LEMMA HelpInit == HelpersInit => HelpIndInv
<1> SUFFICES ASSUME HelpersInit  PROVE HelpIndInv
  OBVIOUS
<1>1. PICK text \in Texts : file \in {<<>>, <<[text |-> text, mode |-> "own"]>>}
  BY DEF HelpersInit
<1>2. [text |-> text, mode |-> "own"] \in [text : Texts, mode : Modes]
  BY DEF Modes
<1>3. file \in Files
  BY <1>1, <1>2 DEF Files
<1>4. 0 \in Nat /\ 0 <= MaxFaults
  BY HelpersAssumption
<1>5. proc \in Seq(Process) /\ DOMAIN proc = {} /\ DOMAIN told = {} /\ temps = {} /\ faults = 0
  BY DEF HelpersInit
<1>6. HelpTypes
  BY <1>3, <1>4, <1>5 DEF HelpTypes
<1>7. WholeText
  BY DEF HelpersInit, WholeText
<1> QED  BY <1>5, <1>6, <1>7 DEF HelpIndInv, TempsGone, TextsMeant, ModesAgree

-----------------------------------------------------------------------------
(* One call at a time                                                       *)

\* What a step of c keeps, when c keeps its part.
Others(c) ==
  /\ DOMAIN proc' = DOMAIN proc /\ \A d \in DOMAIN proc \ {c} : proc'[d] = proc[d]

LEMMA StepOfCall ==
  ASSUME HelpTypes, NEW c \in DOMAIN proc, NEW p \in Process, proc' = [proc EXCEPT ![c] = p]
  PROVE  proc' \in Seq(Process) /\ Others(c) /\ proc'[c] = p
<1>1. Len(proc) \in Nat /\ DOMAIN proc = 1..Len(proc)
  BY DEF HelpTypes
<1>2. proc' \in Seq(Process)
  BY <1>1, ExceptSeq DEF HelpTypes
<1> QED  BY <1>1, <1>2 DEF Others, HelpTypes

LEMMA SetStage ==
  ASSUME HelpTypes, NEW c \in DOMAIN proc, NEW at \in Stages,
         proc' = [proc EXCEPT ![c].at = at]
  PROVE  /\ proc' \in Seq(Process) /\ Others(c) /\ proc'[c].at = at
         /\ proc'[c].seen = proc[c].seen /\ proc'[c].text = proc[c].text
         /\ proc'[c].mode = proc[c].mode
<1>1. proc[c] \in Process
  BY DEF HelpTypes
<1>2. [proc[c] EXCEPT !.at = at] \in Process
  BY <1>1 DEF Process
<1>3. proc' = [proc EXCEPT ![c] = [proc[c] EXCEPT !.at = at]]
  OBVIOUS
<1>4. proc' \in Seq(Process) /\ Others(c) /\ proc'[c] = [proc[c] EXCEPT !.at = at]
  BY <1>2, <1>3, StepOfCall
<1> QED  BY <1>1, <1>4 DEF Process

HasRead(q, seen, text) == [q EXCEPT !.at = "fills", !.seen = seen, !.text = text]
HasMode(q, mode) == [q EXCEPT !.at = "renames", !.mode = mode]

LEMMA HasReadIs ==
  ASSUME NEW q \in Process, NEW seen \in Files, NEW text \in Texts
  PROVE  /\ HasRead(q, seen, text) \in Process /\ HasRead(q, seen, text).at = "fills"
         /\ HasRead(q, seen, text).seen = seen /\ HasRead(q, seen, text).text = text
BY DEF HasRead, Process, Stages

LEMMA HasModeIs ==
  ASSUME NEW q \in Process, NEW mode \in Modes
  PROVE  /\ HasMode(q, mode) \in Process /\ HasMode(q, mode).at = "renames"
         /\ HasMode(q, mode).mode = mode /\ HasMode(q, mode).seen = q.seen
         /\ HasMode(q, mode).text = q.text
BY DEF HasMode, Process, Stages

LEMMA OthersStand ==
  ASSUME HelpIndInv, NEW c \in DOMAIN proc, Others(c), UNCHANGED <<file, removed>>,
         written \subseteq written',
         proc'[c].at \in {"fills", "sets mode", "renames"} => proc'[c].text \in written',
         ~removed =>
           /\ file = <<>> => proc'[c].seen = <<>>
           /\ proc'[c].at \in {"fills", "sets mode"} /\ proc'[c].seen = <<>> => ModeNow = "temp"
           /\ proc'[c].at = "renames" => proc'[c].mode = ModeNow
  PROVE  WholeText' /\ TextsMeant' /\ ModesAgree'
<1>1. WholeText'
  BY DEF HelpIndInv, WholeText
<1>2. TextsMeant'
  BY DEF HelpIndInv, TextsMeant, Others
<1>3. ModeNow' = ModeNow
  BY DEF ModeNow
<1>4. ModesAgree'
  BY <1>3 DEF HelpIndInv, ModesAgree, Others
<1> QED  BY <1>1, <1>2, <1>4
-----------------------------------------------------------------------------
(* The steps *)

LEMMA CallKeeps == ASSUME HelpIndInv, Call  PROVE HelpIndInv'
<1>1. PICK ask \in Asks :
        proc' = Append(proc, [ask |-> ask, at |-> "starts", seen |-> <<>>, text |-> <<>>, mode |-> "temp"])
  BY DEF Call
<1> DEFINE p == [ask |-> ask, at |-> "starts", seen |-> <<>>, text |-> <<>>, mode |-> "temp"]
<1>2. p \in Process
  BY EmptyText DEF Process, Stages, Modes, Files
<1>3. proc \in Seq(Process) /\ Len(proc) \in Nat /\ DOMAIN proc = 1..Len(proc)
  BY DEF HelpIndInv, HelpTypes
<1> HIDE DEF p
<1>4. /\ proc' \in Seq(Process) /\ DOMAIN proc' = 1..Len(proc) + 1
      /\ \A d \in DOMAIN proc : proc'[d] = proc[d]
      /\ proc'[Len(proc) + 1] = p
  BY <1>1, <1>2, <1>3 DEF p
<1>5. p.at = "starts" /\ p.seen = <<>>
  BY DEF p
<1>6. told' = Append(told, "nothing") /\ UNCHANGED <<file, temps, faults, removed, written>>
  BY DEF Call
<1>7. DOMAIN proc \subseteq DOMAIN proc' /\ \A d \in DOMAIN proc' \ DOMAIN proc : proc'[d] = p
  BY <1>3, <1>4
<1>8. DOMAIN told' = DOMAIN proc'
  BY <1>3, <1>4, <1>6 DEF HelpIndInv, HelpTypes
<1>9. HelpTypes'
  BY <1>4, <1>6, <1>7, <1>8 DEF HelpIndInv, HelpTypes
<1>10. WholeText' /\ TempsGone' /\ TextsMeant'
  BY <1>4, <1>5, <1>6, <1>7 DEF HelpIndInv, HelpTypes, WholeText, TempsGone, TextsMeant
<1>11. ModesAgree'
  BY <1>4, <1>5, <1>6, <1>7 DEF HelpIndInv, HelpTypes, ModesAgree, ModeNow
<1> QED  BY <1>9, <1>10, <1>11 DEF HelpIndInv

LEMMA ToldDomain ==
  ASSUME HelpTypes, NEW c \in DOMAIN proc, NEW answer, Tells(c, answer)
  PROVE  DOMAIN told' = DOMAIN proc /\ proc' = [proc EXCEPT ![c].at = "ended"]
BY DEF Tells, HelpTypes

\* A step that ends a process, or leaves it to be killed, and touches the file no more.
LEMMA EndKeeps ==
  ASSUME HelpIndInv, NEW c \in DOMAIN proc, NEW at \in {"ended", "killed"},
         proc' = [proc EXCEPT ![c].at = at], DOMAIN told' = DOMAIN proc,
         faults' \in Nat, faults' <= MaxFaults, temps' \subseteq temps,
         at = "ended" => c \notin temps',
         UNCHANGED <<file, removed, written>>
  PROVE  HelpIndInv'
<1>1. HelpTypes /\ at \in Stages
  BY DEF HelpIndInv, Stages
<1>2. /\ proc' \in Seq(Process) /\ Others(c) /\ proc'[c].at = at
      /\ proc'[c].seen = proc[c].seen
  BY <1>1, SetStage
<1>3. WholeText' /\ TextsMeant' /\ ModesAgree'
  <2>1. ~removed => (file = <<>> => proc'[c].seen = <<>>)
    BY <1>2 DEF HelpIndInv, ModesAgree
  <2> QED  BY <1>2, <2>1, OthersStand
<1>4. HelpTypes'
  BY <1>1, <1>2 DEF HelpTypes, Others
<1>5. TempsGone'
  BY <1>2 DEF HelpIndInv, HelpTypes, TempsGone, Others
<1> QED  BY <1>3, <1>4, <1>5 DEF HelpIndInv

\* A process has read the file, and knows the text it will write.
LEMMA HasReadKeeps ==
  ASSUME HelpIndInv, NEW c \in DOMAIN proc, NEW text \in Texts, NEW p \in Process,
         p.at = "fills", p.seen = file, p.text = text,
         proc[c].at = "starts", proc' = [proc EXCEPT ![c] = p],
         written' = written \cup {text},
         UNCHANGED <<file, temps, told, faults, removed>>
  PROVE  HelpIndInv'
<1>1. proc' \in Seq(Process) /\ Others(c) /\ proc'[c] = p
  BY StepOfCall DEF HelpIndInv
<1>2. HelpTypes'
  BY <1>1 DEF HelpIndInv, HelpTypes, Others
<1>3. TempsGone'
  BY <1>1 DEF HelpIndInv, HelpTypes, TempsGone, Others
<1>4. file = <<>> => ModeNow = "temp"
  BY DEF ModeNow
<1>5. proc'[c].at = "fills" /\ proc'[c].seen = file /\ proc'[c].text \in written'
  BY <1>1
<1>6. WholeText' /\ TextsMeant' /\ ModesAgree'
  BY <1>1, <1>4, <1>5, OthersStand
<1> QED  BY <1>2, <1>3, <1>6 DEF HelpIndInv

LEMMA ReadSteps ==
  ASSUME HelpIndInv, NEW c \in DOMAIN proc, ReadsToEdit(c) \/ ReadsToWrite(c)
  PROVE  HelpIndInv'
<1>1. /\ proc[c] \in Process /\ proc[c].ask \in Asks /\ file \in Files /\ HelpTypes
      /\ proc[c].at = "starts" /\ UNCHANGED <<file, temps, faults, removed>>
  <2>1. HelpTypes
    BY DEF HelpIndInv
  <2>2. proc[c] \in Process /\ file \in Files
    BY <2>1 DEF HelpTypes
  <2>3. proc[c].at = "starts" /\ UNCHANGED <<file, temps, faults, removed>>
    BY DEF ReadsToEdit, ReadsToWrite, NoFault
  <2>4. proc[c].ask \in Asks
    BY <2>2 DEF Process
  <2> QED  BY <2>1, <2>2, <2>3, <2>4
<1>0. ASSUME NEW text \in Texts, proc' = [proc EXCEPT ![c] = HasRead(proc[c], file, text)],
             written' = written \cup {text}, UNCHANGED told
      PROVE  HelpIndInv'
  <2>1. LET p == HasRead(proc[c], file, text)
        IN p \in Process /\ p.at = "fills" /\ p.seen = file /\ p.text = text
    BY <1>1, HasReadIs
  <2> QED  BY <1>0, <1>1, <2>1, HasReadKeeps
<1>2. CASE ReadsToWrite(c)
  <2>1. proc[c].ask.text \in Texts
    BY <1>1, <1>2, AskIs DEF ReadsToWrite
  <2>2. /\ proc' = [proc EXCEPT ![c] = HasRead(proc[c], file, proc[c].ask.text)]
        /\ written' = written \cup {proc[c].ask.text} /\ UNCHANGED told
    BY <1>2 DEF ReadsToWrite, HasRead
  <2> QED  BY <1>0, <2>1, <2>2
<1>3. CASE ReadsToEdit(c) /\ Refuses(proc[c].ask, file)
  <2>1. Tells(c, "error") /\ UNCHANGED written
    BY <1>3 DEF ReadsToEdit
  <2>2. DOMAIN told' = DOMAIN proc /\ proc' = [proc EXCEPT ![c].at = "ended"]
    BY <1>1, <2>1, ToldDomain
  <2>3. c \notin temps' /\ faults' \in Nat /\ faults' <= MaxFaults
    BY <1>1 DEF HelpIndInv, HelpTypes, TempsGone
  <2> QED  BY <1>1, <2>1, <2>2, <2>3, EndKeeps
<1>4. CASE ReadsToEdit(c) /\ ~Refuses(proc[c].ask, file)
  <2>1. file # <<>> /\ file[1].text \in Texts
    BY <1>1, <1>4, FileIs DEF Refuses
  <2>2. Replaced(proc[c].ask, file[1].text) \in Texts
    BY <1>1, <1>4, <2>1, AskIs, TextReplaced DEF ReadsToEdit
  <2>3. /\ proc' = [proc EXCEPT ![c] = HasRead(proc[c], file, Replaced(proc[c].ask, file[1].text))]
        /\ written' = written \cup {Replaced(proc[c].ask, file[1].text)} /\ UNCHANGED told
    BY <1>4 DEF ReadsToEdit, HasRead
  <2> QED  BY <1>0, <2>2, <2>3
<1> QED  BY <1>2, <1>3, <1>4

\* A failing system call ends the process, and its temporary file is removed.
LEMMA FaultKeeps ==
  ASSUME HelpIndInv, NEW c \in DOMAIN proc, Fault, Tells(c, "error"),
         temps' \subseteq temps, c \notin temps', UNCHANGED <<file, written>>
  PROVE  HelpIndInv'
<1>1. HelpTypes
  BY DEF HelpIndInv
<1>2. DOMAIN told' = DOMAIN proc /\ proc' = [proc EXCEPT ![c].at = "ended"]
  BY <1>1, ToldDomain
<1>3. faults' \in Nat /\ faults' <= MaxFaults /\ UNCHANGED removed
  <2>1. MaxFaults \in Nat
    BY HelpersAssumption, Zenon
  <2> QED  BY <1>1, <2>1 DEF HelpTypes, Fault
<1> QED  BY <1>2, <1>3, EndKeeps

LEMMA FillsKeeps ==
  ASSUME HelpIndInv, NEW c \in DOMAIN proc, FillsTemp(c)  PROVE HelpIndInv'
<1>1. HelpTypes /\ proc[c].at = "fills" /\ c \notin temps /\ UNCHANGED <<file, written>>
  BY DEF HelpIndInv, TempsGone, FillsTemp
<1>2. CASE Fault /\ Tells(c, "error") /\ UNCHANGED temps
  BY <1>1, <1>2, FaultKeeps
<1>3. CASE /\ proc' = [proc EXCEPT ![c].at = "sets mode"] /\ temps' = temps \cup {c}
           /\ NoFault /\ UNCHANGED told
  <2>1. /\ proc' \in Seq(Process) /\ Others(c) /\ proc'[c].at = "sets mode"
        /\ proc'[c].seen = proc[c].seen /\ proc'[c].text = proc[c].text
    BY <1>1, <1>3, SetStage DEF Stages
  <2>2. proc'[c].text \in written'
    BY <1>1, <2>1 DEF HelpIndInv, TextsMeant
  <2>3. ~removed => /\ file = <<>> => proc'[c].seen = <<>>
                    /\ proc'[c].seen = <<>> => ModeNow = "temp"
    BY <1>1, <2>1 DEF HelpIndInv, ModesAgree
  <2>4. UNCHANGED removed
    BY <1>3 DEF NoFault
  <2>5. WholeText' /\ TextsMeant' /\ ModesAgree'
    BY <1>1, <2>1, <2>2, <2>3, <2>4, OthersStand
  <2>6. HelpTypes'
    BY <1>1, <1>3, <2>1 DEF HelpTypes, Others, NoFault
  <2>7. TempsGone'
    BY <1>1, <1>3, <2>1 DEF HelpIndInv, HelpTypes, TempsGone, Others
  <2> QED  BY <2>5, <2>6, <2>7 DEF HelpIndInv
<1> QED  BY <1>2, <1>3 DEF FillsTemp

LEMMA SetsModeKeeps ==
  ASSUME HelpIndInv, NEW c \in DOMAIN proc, SetsMode(c)  PROVE HelpIndInv'
<1>1. HelpTypes /\ proc[c].at = "sets mode" /\ UNCHANGED <<file, temps, told, written>> /\ NoFault
  BY DEF HelpIndInv, SetsMode
<1>2. proc[c] \in Process /\ file \in Files
  <2>1. proc \in Seq(Process) /\ file \in Files
    BY <1>1 DEF HelpTypes
  <2> QED  BY <2>1, ElementOfSeq
<1> DEFINE mode == IF file # <<>> /\ proc[c].seen # <<>> THEN file[1].mode ELSE "temp"
<1>3. mode \in Modes
  <2>1. file # <<>> => file[1].mode \in Modes
    BY <1>2, FileIs
  <2> QED  BY <2>1 DEF Modes
<1>4. proc' = [proc EXCEPT ![c] = HasMode(proc[c], mode)]
  BY DEF SetsMode, HasMode
<1>5. ~removed => mode = ModeNow
  BY <1>1 DEF HelpIndInv, ModesAgree, ModeNow
<1> HIDE DEF mode
<1>6. /\ HasMode(proc[c], mode) \in Process /\ HasMode(proc[c], mode).at = "renames"
      /\ HasMode(proc[c], mode).mode = mode /\ HasMode(proc[c], mode).seen = proc[c].seen
      /\ HasMode(proc[c], mode).text = proc[c].text
  BY <1>2, <1>3, HasModeIs
<1>7. /\ proc' \in Seq(Process) /\ Others(c) /\ proc'[c] = HasMode(proc[c], mode)
  BY <1>1, <1>4, <1>6, StepOfCall
<1>8. /\ proc'[c].at = "renames" /\ proc'[c].mode = mode /\ proc'[c].seen = proc[c].seen
      /\ proc'[c].text = proc[c].text
  BY <1>6, <1>7
<1>9. proc'[c].text \in written' /\ (~removed /\ file = <<>> => proc'[c].seen = <<>>)
  BY <1>1, <1>8 DEF HelpIndInv, TextsMeant, ModesAgree
<1>10. UNCHANGED removed
  BY <1>1 DEF NoFault
<1>11. WholeText' /\ TextsMeant' /\ ModesAgree'
  BY <1>1, <1>5, <1>7, <1>8, <1>9, <1>10, OthersStand
<1>12. HelpTypes'
  BY <1>1, <1>7 DEF HelpTypes, Others, NoFault
<1>13. TempsGone'
  BY <1>1, <1>7, <1>8 DEF HelpIndInv, HelpTypes, TempsGone, Others
<1> QED  BY <1>11, <1>12, <1>13 DEF HelpIndInv

LEMMA RenamesKeeps ==
  ASSUME HelpIndInv, NEW c \in DOMAIN proc, Renames(c)
  PROVE  HelpIndInv' /\ (file # <<>> /\ file' # <<>> /\ ~removed => file'[1].mode = file[1].mode)
<1>1. HelpTypes /\ proc[c].at = "renames" /\ UNCHANGED written
  BY DEF HelpIndInv, Renames
<1>2. CASE Fault /\ Tells(c, "error") /\ temps' = temps \ {c} /\ UNCHANGED file
  BY <1>1, <1>2, FaultKeeps
<1>3. CASE /\ file' = <<[text |-> proc[c].text, mode |-> proc[c].mode]>>
           /\ temps' = temps \ {c}
           /\ Tells(c, IF proc[c].seen = <<>> THEN "summary" ELSE "diff") /\ NoFault
  <2>1. DOMAIN told' = DOMAIN proc /\ proc' = [proc EXCEPT ![c].at = "ended"]
    BY <1>1, <1>3, ToldDomain
  <2>2. proc' \in Seq(Process) /\ Others(c) /\ proc'[c].at = "ended" /\ proc'[c].seen = proc[c].seen
    BY <1>1, <2>1, SetStage DEF Stages
  <2>3. proc[c] \in Process
    BY <1>1 DEF HelpTypes
  <2>4. [text |-> proc[c].text, mode |-> proc[c].mode] \in [text : Texts, mode : Modes]
    BY <2>3 DEF Process
  <2>5. file' \in Files /\ file' # <<>> /\ DOMAIN file' = {1}
        /\ file'[1].text = proc[c].text /\ file'[1].mode = proc[c].mode
    BY <1>3, <2>4 DEF Files
  <2>6. HelpTypes' /\ UNCHANGED <<removed, faults>>
    BY <1>1, <1>3, <2>1, <2>2, <2>5 DEF HelpTypes, Others, NoFault
  <2>7. WholeText' /\ TextsMeant'
    BY <1>1, <2>2, <2>5 DEF HelpIndInv, WholeText, TextsMeant, Others
  <2>8. TempsGone'
    BY <1>1, <1>3, <2>2 DEF HelpIndInv, HelpTypes, TempsGone, Others
  <2>9. ASSUME ~removed  PROVE ModeNow' = ModeNow /\ (file # <<>> => file'[1].mode = file[1].mode)
    BY <1>1, <2>5, <2>9 DEF HelpIndInv, ModesAgree, ModeNow
  <2>10. ModesAgree'
    BY <2>2, <2>5, <2>6, <2>9 DEF HelpIndInv, ModesAgree, Others
  <2> QED  BY <2>6, <2>7, <2>8, <2>9, <2>10 DEF HelpIndInv
<1> QED  BY <1>2, <1>3 DEF Renames

LEMMA AroundKeeps ==
  ASSUME HelpIndInv, Removed \/ \E c \in DOMAIN proc : GivesUp(c) \/ Killed(c)
  PROVE  HelpIndInv'
<1>1. HelpTypes
  BY DEF HelpIndInv
<1>2. CASE Removed
  <2>1. /\ file' = <<>> /\ DOMAIN <<>> = {} /\ removed'
        /\ UNCHANGED <<proc, temps, told, faults, written>>
    BY <1>2 DEF Removed
  <2>2. HelpTypes'
    BY <1>1, <2>1 DEF HelpTypes, Files
  <2>3. WholeText' /\ TempsGone' /\ TextsMeant' /\ ModesAgree'
    BY <2>1 DEF HelpIndInv, WholeText, TempsGone, TextsMeant, ModesAgree
  <2> QED  BY <2>2, <2>3 DEF HelpIndInv
<1>3. ASSUME NEW c \in DOMAIN proc, GivesUp(c)  PROVE HelpIndInv'
  <2>1. DOMAIN told' = DOMAIN told /\ UNCHANGED <<file, proc, temps, faults, removed, written>>
    BY <1>3 DEF GivesUp
  <2> QED  BY <2>1 DEF HelpIndInv, HelpTypes, WholeText, TempsGone, TextsMeant, ModesAgree, ModeNow
<1>4. ASSUME NEW c \in DOMAIN proc, Killed(c)  PROVE HelpIndInv'
  <2>1. DOMAIN told' = DOMAIN proc /\ proc' = [proc EXCEPT ![c].at = "killed"]
    BY <1>1, <1>4 DEF Killed, HelpTypes
  <2>2. MaxFaults \in Nat
    BY HelpersAssumption, Zenon
  <2>3. faults' \in Nat /\ faults' <= MaxFaults /\ UNCHANGED <<file, removed, written, temps>>
    BY <1>1, <1>4, <2>2 DEF HelpTypes, Killed, Fault
  <2> QED  BY <2>1, <2>3, EndKeeps
<1> QED  BY <1>2, <1>3, <1>4

LEMMA HelpStep == HelpIndInv /\ [HelpersNext]_helperVars => HelpIndInv'
<1> SUFFICES ASSUME HelpIndInv, [HelpersNext]_helperVars  PROVE HelpIndInv'
  OBVIOUS
<1>1. CASE UNCHANGED helperVars
  BY <1>1 DEF helperVars, HelpIndInv, HelpTypes, WholeText, TempsGone, TextsMeant, ModesAgree,
     ModeNow
<1>2. CASE HelpersNext
  BY <1>2, CallKeeps, ReadSteps, FillsKeeps, SetsModeKeeps, RenamesKeeps, AroundKeeps
  DEF HelpersNext, Calls
<1> QED  BY <1>1, <1>2

ModeStep == file # <<>> /\ file' # <<>> /\ ~removed => file'[1].mode = file[1].mode

LEMMA ModeStays == HelpIndInv /\ [HelpersNext]_helperVars => ModeStep
<1> SUFFICES ASSUME HelpIndInv, [HelpersNext]_helperVars  PROVE ModeStep
  OBVIOUS
<1>1. CASE UNCHANGED file
  BY <1>1 DEF ModeStep
<1>2. CASE Removed
  BY <1>2 DEF Removed, ModeStep
<1>3. ASSUME NEW c \in DOMAIN proc, Renames(c)  PROVE ModeStep
  BY <1>3, RenamesKeeps DEF ModeStep
<1> QED  BY <1>1, <1>2, <1>3
         DEF HelpersNext, helperVars, Calls, Call, ReadsToEdit, ReadsToWrite, FillsTemp, SetsMode,
             GivesUp, Killed

LEMMA HelpImplies == HelpIndInv => HelpersTypeOK /\ WholeText /\ TempsGone
<1> SUFFICES ASSUME HelpIndInv  PROVE HelpersTypeOK
  BY DEF HelpIndInv
<1>1. HelpTypes
  BY DEF HelpIndInv
<1>2. Len(file) <= 1 /\ \A i \in DOMAIN file : file[i].text \in Texts
  <2>1. CASE file = <<>>
    <3>1. Len(file) = 0 /\ DOMAIN file = {}
      BY <2>1
    <3> QED  BY <3>1
  <2>2. CASE file # <<>>
    <3>1. /\ file[1] \in [text : Texts, mode : Modes] /\ DOMAIN file = {1} /\ Len(file) = 1
      BY <1>1, <2>2, FileIs DEF HelpTypes
    <3> QED  BY <3>1
  <2> QED  BY <2>1, <2>2
<1>3. \A c \in DOMAIN proc : proc[c] \in Process
  BY <1>1 DEF HelpTypes
<1> QED  BY <1>1, <1>2, <1>3 DEF HelpersTypeOK, HelpTypes, Calls, Process, Stages, Modes

\* HelpersSpec => FileReplaced: edit-file and write-file leave the whole of some intended text in
\* the file, remove their temporary files, and keep the file's mode, whatever fails or is killed.
THEOREM FilesReplaced == HelpersSpec => FileReplaced
BY HelpInit, HelpStep, HelpImplies, ModeStays, PTL
DEF HelpersSpec, FileReplaced, ModeKept, ModeStep

(***************************************************************************)
(* The keys of the bytes                                                   *)
(***************************************************************************)

Tokens == STRING \cup Finals \cup {"xCode", "ctrlCode", "1", "2", "3", "0", "x", "newline", ESC, CR, CtrlA}
Whats == {"paste", "insert", "home", "up", "delete", "nothing", "enter", "escape"}
Effects == [does : Whats, text : Seq(Tokens)]
Bytes == [token : Tokens, key : Nat, nth : Nat]

\* Where a token stands: the key and its place in what the key sends.
Pos(b) == <<b.key, b.nth>>
After(keys, p) == IF p[2] < Len(keys[p[1]].sends) THEN <<p[1], p[2] + 1>> ELSE <<p[1] + 1, 1>>
Sent(keys, b) == /\ b.key \in DOMAIN keys /\ b.nth \in DOMAIN keys[b.key].sends
                 /\ b.token = keys[b.key].sends[b.nth]

\* s is what the keys sent from place p on, up to place e.
RunOf(keys, p, s, e) ==
  /\ s = <<>> => p = e
  /\ s # <<>> => Pos(s[1]) = p /\ After(keys, Pos(s[Len(s)])) = e
  /\ \A i \in 1..Len(s) - 1 : Pos(s[i + 1]) = After(keys, Pos(s[i]))
  /\ \A i \in DOMAIN s : Sent(keys, s[i])

WireEnd(keys) == <<Len(keys) + 1, 1>>
From(s, e) == IF s = <<>> THEN e ELSE Pos(s[1])
RestOf(keys, p, ch, w) ==
  /\ RunOf(keys, p, ch, From(w, WireEnd(keys)))
  /\ RunOf(keys, From(w, WireEnd(keys)), w, WireEnd(keys))

\* The handler's state after n tokens of key x.
CsiRead(x, n, p) ==
  \/ n = 2 /\ p = <<>>
  \/ n = 3 /\ p = <<x.sends[3]>> /\ x.sends[3] \notin Finals
  \/ n = 4 /\ p = <<"2", "0">> /\ x.effect.does = "paste"
  \/ n = 5 /\ p = <<"2", "0", "0">> /\ x.effect.does = "paste"
SoFar(x, c, m) == Len(c) = m /\ \A i \in 1..m : c[i] = x.effect.text[i]
PasteRead(x, m, s, p, c) ==
  \/ /\ s = "paste" /\ p = <<>>
     /\ m <= Len(x.effect.text) /\ SoFar(x, c, m)
  \/ /\ s = "pasteEscape" /\ p = <<>>
     /\ m >= 1 /\ m <= Len(x.effect.text) + 1 /\ x.sends[6 + m] = ESC /\ SoFar(x, c, m - 1)
  \/ /\ s = "pasteCsi" /\ Len(p) <= 3
     /\ Len(c) + 2 + Len(p) = m /\ Len(c) <= Len(x.effect.text) /\ SoFar(x, c, Len(c))
     /\ x.sends[7 + Len(c)] = ESC /\ x.sends[8 + Len(c)] = "["
     /\ \A i \in 1..Len(p) : p[i] = x.sends[8 + Len(c) + i]
TokensRead(x, n, s, p, c) ==
  /\ n <= Len(x.sends) /\ x.sends[1] = ESC
  /\ \/ s = "escape" /\ n = 1 /\ p = <<>>
     \/ s = "ss3" /\ n = 2 /\ n < Len(x.sends) /\ x.sends[2] = "O" /\ p = <<>>
     \/ s = "csi" /\ n < Len(x.sends) /\ x.sends[2] = "[" /\ CsiRead(x, n, p)
     \/ n >= 6 /\ n < Len(x.sends) /\ x.effect.does = "paste" /\ PasteRead(x, n - 6, s, p, c)

KeysTypes ==
  /\ pressed \in Seq(Keyboard) /\ Len(pressed) <= MaxKeys
  /\ wire \in Seq(Bytes) /\ stdinCh \in Seq(Bytes)
  /\ \A i \in DOMAIN wire : wire[i].key \in DOMAIN pressed
  /\ \A i \in DOMAIN stdinCh : stdinCh[i].key \in DOMAIN pressed
  /\ flying \subseteq DOMAIN pressed /\ state \in States
  /\ params \in Seq(Tokens) /\ content \in Seq(Tokens) /\ effects \in Seq(Effects)
  /\ params # <<>> => state \in {"csi", "pasteCsi"}
  /\ state = "pasteCsi" => Len(params) <= 3
  /\ disturbed \in BOOLEAN

Clean(keys) == \A i \in DOMAIN keys : ~CutsMarker(keys[i].effect.text) /\ ~HasMarker(keys[i].effect.text)

DoneSoFar(keys, es) == Len(es) <= Len(keys) /\ \A i \in 1..Len(es) : es[i] = keys[i].effect

BetweenKeys == /\ flying = {} /\ state = "ground" /\ params = <<>>
               /\ RestOf(pressed, <<Len(effects) + 1, 1>>, stdinCh, wire)
WithinKey ==
  /\ flying = {} /\ Len(effects) < Len(pressed)
  /\ \E n \in 1..Len(pressed[Len(effects) + 1].sends) :
       /\ TokensRead(pressed[Len(effects) + 1], n, state, params, content)
       /\ RestOf(pressed, After(pressed, <<Len(effects) + 1, n>>), stdinCh, wire)
OnControl == /\ Len(effects) < Len(pressed) /\ pressed[Len(effects) + 1].effect = Do("home")
             /\ state = "ground" /\ params = <<>>
ControlFlies ==
  /\ flying = {Len(effects) + 1} /\ OnControl
  /\ RestOf(pressed, <<Len(effects) + 2, 1>>, stdinCh, wire)
ControlSent ==
  /\ flying = {} /\ OnControl
  /\ stdinCh # <<>> /\ Head(stdinCh).token = CtrlA
  /\ RestOf(pressed, <<Len(effects) + 2, 1>>, Tail(stdinCh), wire)

Followed == DoneSoFar(pressed, effects) /\ (BetweenKeys \/ WithinKey \/ ControlFlies \/ ControlSent)
KeysIndInv == KeysTypes /\ (~disturbed /\ Clean(pressed) => Followed)

(* Runs of tokens *)

LEMMA PlaceIs == ASSUME NEW keys, NEW k, NEW n
  PROVE  /\ n < Len(keys[k].sends) => After(keys, <<k, n>>) = <<k, n + 1>>
         /\ ~(n < Len(keys[k].sends)) => After(keys, <<k, n>>) = <<k + 1, 1>>
BY DEF After

LEMMA PlacesEqual == ASSUME NEW a, NEW b, NEW c, NEW d, <<a, b>> = <<c, d>>
  PROVE  a = c /\ b = d
OBVIOUS

LEMMA ByteIs == ASSUME NEW b, NEW k, NEW n, Pos(b) = <<k, n>>
  PROVE  b.key = k /\ b.nth = n
BY PlacesEqual DEF Pos

\* What a sequence and its end are.
LEMMA Grown == ASSUME NEW S, NEW s \in Seq(S), NEW x \in S
  PROVE  /\ Append(s, x) \in Seq(S) /\ Append(s, x) # <<>>
         /\ Len(Append(s, x)) = Len(s) + 1 /\ Len(s) \in Nat
         /\ DOMAIN s = 1..Len(s) /\ DOMAIN Append(s, x) = 1..Len(s) + 1
         /\ Append(s, x)[Len(s) + 1] = x
         /\ \A i \in 1..Len(s) : Append(s, x)[i] = s[i] /\ s[i] \in S
         /\ s # <<>> => Len(s) >= 1
BY AppendProperties, LenProperties, EmptySeq, ElementOfSeq

LEMMA Shortened == ASSUME NEW S, NEW s \in Seq(S), s # <<>>
  PROVE  /\ Tail(s) \in Seq(S) /\ Head(s) = s[1] /\ Head(s) \in S
         /\ Len(Tail(s)) = Len(s) - 1 /\ Len(s) \in Nat /\ Len(s) >= 1
         /\ DOMAIN s = 1..Len(s) /\ DOMAIN Tail(s) = 1..Len(s) - 1
         /\ \A i \in 1..Len(s) - 1 : Tail(s)[i] = s[i + 1]
         /\ Tail(s) = <<>> <=> Len(s) = 1
<1>1. Len(s) \in Nat /\ Len(s) >= 1 /\ DOMAIN s = 1..Len(s)
  BY LenProperties, EmptySeq
<1>2. /\ Head(s) = s[1] /\ s[1] \in S
  BY HeadTailProperties, <1>1, ElementOfSeq
<1>3. /\ Tail(s) \in Seq(S) /\ Len(Tail(s)) = Len(s) - 1
      /\ \A i \in 1..Len(s) - 1 : Tail(s)[i] = s[i + 1]
  BY HeadTailProperties, <1>1
<1>4. DOMAIN Tail(s) = 1..Len(s) - 1
  BY <1>3, LenProperties
<1>5. Tail(s) = <<>> <=> Len(s) = 1
  <2> DEFINE rest == Tail(s)
  <2>1. rest \in Seq(S) /\ Len(rest) = Len(s) - 1  BY <1>3
  <2> HIDE DEF rest
  <2>2. rest # <<>> => Len(rest) \in Nat \ {0}  BY <2>1, EmptySeq
  <2>3. rest = <<>> => Len(rest) = 0  OBVIOUS
  <2>4. rest = <<>> <=> Len(s) = 1  BY <1>1, <2>1, <2>2, <2>3
  <2> QED  BY <2>4 DEF rest
<1> QED  BY <1>1, <1>2, <1>3, <1>4, <1>5

LEMMA RunEnds == ASSUME NEW keys, NEW p, NEW e
  PROVE  RunOf(keys, p, <<>>, e) <=> p = e
<1>1. Len(<<>>) = 0 /\ DOMAIN <<>> = {}  OBVIOUS
<1> QED  BY <1>1 DEF RunOf

LEMMA RunTaken ==
  ASSUME NEW keys, NEW p, NEW e, NEW s \in Seq(Bytes), s # <<>>, RunOf(keys, p, s, e)
  PROVE  Pos(Head(s)) = p /\ Sent(keys, Head(s)) /\ RunOf(keys, After(keys, p), Tail(s), e)
<1>1. /\ Head(s) = s[1] /\ Len(Tail(s)) = Len(s) - 1 /\ Len(s) \in Nat /\ Len(s) >= 1
      /\ DOMAIN s = 1..Len(s) /\ DOMAIN Tail(s) = 1..Len(s) - 1
      /\ \A i \in 1..Len(s) - 1 : Tail(s)[i] = s[i + 1]
      /\ Tail(s) = <<>> <=> Len(s) = 1
  BY Shortened
<1>2. /\ Pos(s[1]) = p /\ After(keys, Pos(s[Len(s)])) = e
      /\ \A i \in 1..Len(s) - 1 : Pos(s[i + 1]) = After(keys, Pos(s[i]))
      /\ \A i \in DOMAIN s : Sent(keys, s[i])
  BY DEF RunOf
<1>3. Tail(s) = <<>> => After(keys, p) = e
  BY <1>1, <1>2
<1>4. ASSUME Tail(s) # <<>>  PROVE Pos(Tail(s)[1]) = After(keys, p) /\ After(keys, Pos(Tail(s)[Len(Tail(s))])) = e
  BY <1>1, <1>2, <1>4
<1>5. \A i \in 1..Len(Tail(s)) - 1 : Pos(Tail(s)[i + 1]) = After(keys, Pos(Tail(s)[i]))
  BY <1>1, <1>2
<1>6. \A i \in DOMAIN Tail(s) : Sent(keys, Tail(s)[i])
  BY <1>1, <1>2
<1>7. RunOf(keys, After(keys, p), Tail(s), e)
  BY <1>3, <1>4, <1>5, <1>6 DEF RunOf
<1> QED  BY <1>1, <1>2, <1>7

LEMMA RunExtended ==
  ASSUME NEW keys, NEW p, NEW s \in Seq(Bytes), NEW x \in Bytes, RunOf(keys, p, s, Pos(x)), Sent(keys, x)
  PROVE  RunOf(keys, p, Append(s, x), After(keys, Pos(x)))
<1> DEFINE t == Append(s, x)
<1>1. /\ t # <<>> /\ Len(t) = Len(s) + 1 /\ Len(s) \in Nat
      /\ DOMAIN s = 1..Len(s) /\ DOMAIN t = 1..Len(s) + 1 /\ t[Len(s) + 1] = x
      /\ \A i \in 1..Len(s) : t[i] = s[i]
      /\ s # <<>> => Len(s) >= 1
  BY Grown
<1>2. s = <<>> => Len(s) = 0  OBVIOUS
<1>8. Len(t) = Len(s) + 1 /\ Len(s) \in Nat  BY <1>1
<1> HIDE DEF t
<1>3. Pos(t[1]) = p
  <2>1. CASE s = <<>>  BY <1>1, <1>2, <2>1 DEF RunOf
  <2>2. CASE s # <<>>  BY <1>1, <2>2 DEF RunOf
  <2> QED  BY <2>1, <2>2
<1>4. ASSUME NEW i \in 1..Len(t) - 1  PROVE Pos(t[i + 1]) = After(keys, Pos(t[i]))
  <2>1. CASE i = Len(s)
    <3>1. s # <<>> /\ t[i + 1] = x /\ t[i] = s[Len(s)]  BY <1>1, <1>2, <2>1
    <3> QED  BY <3>1 DEF RunOf
  <2>2. CASE i < Len(s)
    <3>1. t[i + 1] = s[i + 1] /\ t[i] = s[i] /\ i \in 1..Len(s) - 1  BY <1>1, <2>2
    <3> QED  BY <3>1 DEF RunOf
  <2>3. i = Len(s) \/ i < Len(s)  BY <1>8
  <2> QED  BY <2>1, <2>2, <2>3
<1>5. ASSUME NEW i \in DOMAIN t  PROVE Sent(keys, t[i])
  <2>1. i = Len(s) + 1 \/ (i \in DOMAIN s /\ t[i] = s[i])  BY <1>1
  <2>2. \A j \in DOMAIN s : Sent(keys, s[j])  BY DEF RunOf
  <2> QED  BY <1>1, <2>1, <2>2
<1>6. t[Len(t)] = x  BY <1>1
<1>7. RunOf(keys, p, t, After(keys, Pos(x)))
  BY <1>1, <1>3, <1>4, <1>5, <1>6 DEF RunOf
<1> QED  BY <1>7 DEF t

LEMMA RunJoined ==
  ASSUME NEW keys, NEW p, NEW m, NEW e, NEW s \in Seq(Bytes), NEW t \in Seq(Bytes),
         RunOf(keys, p, s, m), RunOf(keys, m, t, e)
  PROVE  RunOf(keys, p, s \o t, e)
<1>1. CASE t = <<>>
  BY <1>1, ConcatEmptySeq DEF RunOf
<1>2. CASE t # <<>> /\ s = <<>>
  BY <1>2, ConcatEmptySeq DEF RunOf
<1>3. CASE t # <<>> /\ s # <<>>
  <2> DEFINE u == s \o t
  <2>1. /\ u \in Seq(Bytes) /\ Len(u) = Len(s) + Len(t) /\ Len(s) \in Nat /\ Len(t) \in Nat
        /\ Len(s) >= 1 /\ Len(t) >= 1 /\ DOMAIN s = 1..Len(s) /\ DOMAIN t = 1..Len(t)
        /\ DOMAIN u = 1..Len(s) + Len(t)
    BY <1>3, ConcatProperties, LenProperties, EmptySeq
  <2>2. /\ \A i \in 1..Len(s) : u[i] = s[i]
        /\ \A i \in 1..Len(t) : u[Len(s) + i] = t[i]
    BY <2>1, ConcatProperties
  <2>3. u # <<>>
    BY <1>3, ConcatEqualIffEmpty, <2>1
  <2>9. Len(u) = Len(s) + Len(t) /\ Len(s) \in Nat /\ Len(t) \in Nat  BY <2>1
  <2> HIDE DEF u
  <2>4. /\ Pos(s[1]) = p /\ After(keys, Pos(s[Len(s)])) = m
        /\ \A i \in 1..Len(s) - 1 : Pos(s[i + 1]) = After(keys, Pos(s[i]))
        /\ \A i \in DOMAIN s : Sent(keys, s[i])
        /\ Pos(t[1]) = m /\ After(keys, Pos(t[Len(t)])) = e
        /\ \A i \in 1..Len(t) - 1 : Pos(t[i + 1]) = After(keys, Pos(t[i]))
        /\ \A i \in DOMAIN t : Sent(keys, t[i])
    BY <1>3 DEF RunOf
  <2>5. ASSUME NEW i \in 1..Len(u) - 1  PROVE Pos(u[i + 1]) = After(keys, Pos(u[i]))
    <3>1. CASE i < Len(s)
      <4>1. u[i + 1] = s[i + 1] /\ u[i] = s[i] /\ i \in 1..Len(s) - 1  BY <2>1, <2>2, <3>1
      <4> QED  BY <4>1, <2>4
    <3>2. CASE i = Len(s)
      <4>1. u[Len(s) + 1] = t[1]
        <5>1. 1 \in 1..Len(t)  BY <2>1
        <5> QED  BY <2>2, <5>1
      <4>2. u[Len(s)] = s[Len(s)]
        <5>1. Len(s) \in 1..Len(s)  BY <2>1
        <5> QED  BY <2>2, <5>1
      <4> QED  BY <3>2, <4>1, <4>2, <2>4
    <3>3. CASE i > Len(s)
      <4>1. PICK j \in 1..Len(t) - 1 : i = Len(s) + j
        <5>1. i - Len(s) \in 1..Len(t) - 1 /\ i = Len(s) + (i - Len(s))  BY <2>1, <3>3
        <5> QED  BY <5>1
      <4>2. u[i + 1] = t[j + 1] /\ u[i] = t[j]
        <5>1. i + 1 = Len(s) + (j + 1) /\ j \in 1..Len(t) /\ j + 1 \in 1..Len(t)  BY <2>1, <4>1
        <5> QED  BY <2>2, <4>1, <5>1
      <4> QED  BY <4>2, <2>4
    <3>4. i < Len(s) \/ i = Len(s) \/ i > Len(s)  BY <2>9
    <3> QED  BY <3>1, <3>2, <3>3, <3>4
  <2>6. ASSUME NEW i \in DOMAIN u  PROVE Sent(keys, u[i])
    <3>1. CASE i <= Len(s)  BY <2>1, <2>2, <2>4, <3>1
    <3>2. CASE i > Len(s)
      <4>1. PICK j \in 1..Len(t) : i = Len(s) + j
        <5>1. i - Len(s) \in 1..Len(t) /\ i = Len(s) + (i - Len(s))  BY <2>1, <3>2
        <5> QED  BY <5>1
      <4> QED  BY <4>1, <2>1, <2>2, <2>4
    <3>3. i <= Len(s) \/ i > Len(s)  BY <2>1
    <3> QED  BY <3>1, <3>2, <3>3
  <2>7. u[1] = s[1] /\ u[Len(u)] = t[Len(t)]  BY <2>1, <2>2
  <2>8. RunOf(keys, p, u, e)
    BY <2>3, <2>4, <2>5, <2>6, <2>7 DEF RunOf
  <2> QED  BY <2>8 DEF u
<1> QED  BY <1>1, <1>2, <1>3


(* Keys *)

PasteSends(t) == <<ESC, "[", "2", "0", "0", "~">> \o t \o <<ESC, "[", "2", "0", "1", "~">>

\* The tokens g of a paste of text t, one by one.
Spells(g, t) ==
  /\ Len(t) \in Nat /\ Len(g) = 12 + Len(t)
  /\ g[1] = ESC /\ g[2] = "[" /\ g[3] = "2" /\ g[4] = "0" /\ g[5] = "0" /\ g[6] = "~"
  /\ \A i \in 1..Len(t) : g[6 + i] = t[i]
  /\ g[7 + Len(t)] = ESC /\ g[8 + Len(t)] = "[" /\ g[9 + Len(t)] = "2"
  /\ g[10 + Len(t)] = "0" /\ g[11 + Len(t)] = "1" /\ g[12 + Len(t)] = "~"

LEMMA PasteSpelled == ASSUME NEW t \in PastedTexts
  PROVE  t \in Seq(Tokens) /\ Len(t) \in Nat /\ PasteSends(t) \in Seq(Tokens) /\ Spells(PasteSends(t), t)
<1> DEFINE a == <<ESC, "[", "2", "0", "0", "~">>  z == <<ESC, "[", "2", "0", "1", "~">>
<1>1. t \in Seq(Tokens)
  <2>1. t \in Seq(STRING)  BY KeysAssumption
  <2>2. STRING \subseteq Tokens  BY DEF Tokens
  <2> QED  BY <2>1, <2>2, SeqMonotonic
<1>2. /\ a \in Seq(Tokens) /\ z \in Seq(Tokens) /\ Len(a) = 6 /\ Len(z) = 6
      /\ a[1] = ESC /\ a[2] = "[" /\ a[3] = "2" /\ a[4] = "0" /\ a[5] = "0" /\ a[6] = "~"
      /\ z[1] = ESC /\ z[2] = "[" /\ z[3] = "2" /\ z[4] = "0" /\ z[5] = "1" /\ z[6] = "~"
  BY DEF Tokens, Finals, ESC
<1>3. PasteSends(t) = (a \o t) \o z  BY DEF PasteSends
<1> HIDE DEF a, z
<1>4. /\ a \o t \in Seq(Tokens) /\ Len(a \o t) = 6 + Len(t) /\ Len(t) \in Nat
      /\ \A i \in 1..6 : (a \o t)[i] = a[i]
      /\ \A i \in 1..Len(t) : (a \o t)[6 + i] = t[i]
  <2>1. Len(t) \in Nat  BY <1>1, LenProperties
  <2>2. /\ a \o t \in Seq(Tokens) /\ Len(a \o t) = Len(a) + Len(t)
        /\ \A i \in 1..Len(a) + Len(t) : (a \o t)[i] = IF i <= Len(a) THEN a[i] ELSE t[i - Len(a)]
    BY <1>1, <1>2, ConcatProperties
  <2> QED  BY <1>2, <2>1, <2>2
<1> DEFINE f == a \o t
<1>5. f \in Seq(Tokens) /\ Len(f) = 6 + Len(t)  BY <1>4
<1> HIDE DEF f
<1>6. /\ f \o z \in Seq(Tokens) /\ Len(f \o z) = 12 + Len(t)
      /\ \A i \in 1..6 + Len(t) : (f \o z)[i] = f[i]
      /\ \A i \in 1..6 : (f \o z)[6 + Len(t) + i] = z[i]
  <2>1. /\ f \o z \in Seq(Tokens) /\ Len(f \o z) = Len(f) + Len(z)
        /\ \A i \in 1..Len(f) + Len(z) : (f \o z)[i] = IF i <= Len(f) THEN f[i] ELSE z[i - Len(f)]
    BY <1>2, <1>5, ConcatProperties
  <2> QED  BY <1>2, <1>4, <1>5, <2>1
<1> DEFINE g == f \o z
<1>7. PasteSends(t) = g  BY <1>3 DEF f
<1>8. /\ g \in Seq(Tokens) /\ Len(g) = 12 + Len(t)
      /\ \A i \in 1..6 + Len(t) : g[i] = f[i]
      /\ \A i \in 1..6 : g[6 + Len(t) + i] = z[i]
  BY <1>6
<1>12. Len(t) \in Nat  BY <1>4
<1>13. /\ \A i \in 1..6 : f[i] = a[i]
       /\ \A i \in 1..Len(t) : f[6 + i] = t[i]
  BY <1>4 DEF f
<1> HIDE DEF g
<1>9. g[1] = ESC /\ g[2] = "[" /\ g[3] = "2" /\ g[4] = "0" /\ g[5] = "0" /\ g[6] = "~"
  <2>1. \A i \in 1..6 : i \in 1..6 + Len(t)  BY <1>12
  <2>2. \A i \in 1..6 : g[i] = a[i]  BY <1>8, <1>13, <2>1, Zenon
  <2>3. 1 \in 1..6 /\ 2 \in 1..6 /\ 3 \in 1..6 /\ 4 \in 1..6 /\ 5 \in 1..6 /\ 6 \in 1..6  OBVIOUS
  <2> QED  BY <1>2, <2>2, <2>3
<1>10. \A i \in 1..Len(t) : g[6 + i] = t[i]
  BY <1>8, <1>12, <1>13
<1>11. /\ g[7 + Len(t)] = ESC /\ g[8 + Len(t)] = "[" /\ g[9 + Len(t)] = "2"
       /\ g[10 + Len(t)] = "0" /\ g[11 + Len(t)] = "1" /\ g[12 + Len(t)] = "~"
  <2>1. \A i \in 1..6 : g[6 + Len(t) + i] = z[i]  BY <1>8
  <2>2. /\ 6 + Len(t) + 1 = 7 + Len(t) /\ 6 + Len(t) + 2 = 8 + Len(t) /\ 6 + Len(t) + 3 = 9 + Len(t)
        /\ 6 + Len(t) + 4 = 10 + Len(t) /\ 6 + Len(t) + 5 = 11 + Len(t) /\ 6 + Len(t) + 6 = 12 + Len(t)
    BY <1>12
  <2>3. 1 \in 1..6 /\ 2 \in 1..6 /\ 3 \in 1..6 /\ 4 \in 1..6 /\ 5 \in 1..6 /\ 6 \in 1..6  OBVIOUS
  <2> QED  BY <1>2, <2>1, <2>2, <2>3
<1>14. Spells(g, t)  BY <1>8, <1>9, <1>10, <1>11, <1>12 DEF Spells
<1> QED  BY <1>1, <1>7, <1>8, <1>12, <1>14

\* The keys that are no pastes, by what they send.
PlainKey(x) ==
  \/ x.sends = <<"x">> /\ x.effect = InsertText("x")
  \/ x.sends = <<CtrlA>> /\ x.effect = Do("home")
  \/ x.sends = <<CR>> /\ x.effect = Do("enter")
EscapedKey(x) ==
  \/ x.sends = <<ESC>> /\ x.effect = Do("escape")
  \/ x.sends = <<ESC, CR>> /\ x.effect = InsertText("newline")
  \/ x.sends = <<ESC, "O", "A">> /\ x.effect = Do("up")
CsiEncoded(x) ==
  \/ x.sends = <<ESC, "[", "A">> /\ x.effect = Do("up")
  \/ x.sends = <<ESC, "[", "xCode", "u">> /\ x.effect = InsertText("x")
  \/ x.sends = <<ESC, "[", "ctrlCode", "u">> /\ x.effect = Do("home")
  \/ x.sends = <<ESC, "[", "3", "~">> /\ x.effect = Do("delete")
  \/ x.sends = <<ESC, "[", "1", "~">> /\ x.effect = Do("nothing")
PasteOf(x, t) == x.sends = PasteSends(t) /\ x.effect = Paste(t)

LEMMA KeyIs == ASSUME NEW x \in Keyboard
  PROVE  PlainKey(x) \/ EscapedKey(x) \/ CsiEncoded(x) \/ \E t \in PastedTexts : PasteOf(x, t)
<1>1. CASE \E t \in PastedTexts : x = Key(Paste(t), PasteSends(t))
  <2>1. PICK t \in PastedTexts : x = Key(Paste(t), PasteSends(t))  BY <1>1
  <2>2. PasteOf(x, t)  BY <2>1 DEF PasteOf, Key
  <2> QED  BY <2>2
<1>2. CASE ~\E t \in PastedTexts : x = Key(Paste(t), PasteSends(t))
  <2>1. x \in { Key(InsertText("x"), <<"x">>), Key(InsertText("x"), <<ESC, "[", "xCode", "u">>),
    Key(Do("home"), <<CtrlA>>), Key(Do("home"), <<ESC, "[", "ctrlCode", "u">>),
    Key(Do("up"), <<ESC, "[", "A">>), Key(Do("up"), <<ESC, "O", "A">>),
    Key(Do("delete"), <<ESC, "[", "3", "~">>), Key(Do("nothing"), <<ESC, "[", "1", "~">>),
    Key(InsertText("newline"), <<ESC, CR>>), Key(Do("enter"), <<CR>>), Key(Do("escape"), <<ESC>>) }
    BY <1>2, Zenon DEF Keyboard, PasteSends
  <2>2. ASSUME NEW e, NEW tokens, x = Key(e, tokens)  PROVE x.effect = e /\ x.sends = tokens
    BY <2>2 DEF Key
  <2> HIDE DEF Key
  <2> QED  BY <2>1, <2>2, Zenon DEF PlainKey, EscapedKey, CsiEncoded
<1> QED  BY <1>1, <1>2

LEMMA EffectTypes ==
  /\ Do("home") \in Effects /\ Do("up") \in Effects /\ Do("delete") \in Effects
  /\ Do("nothing") \in Effects /\ Do("enter") \in Effects /\ Do("escape") \in Effects
  /\ InsertText("x") \in Effects /\ InsertText("newline") \in Effects
  /\ \A t \in Seq(Tokens) : Paste(t) \in Effects
  /\ \A token \in Tokens : InsertText(token) \in Effects
<1>1. <<>> \in Seq(Tokens) /\ \A token \in Tokens : <<token>> \in Seq(Tokens)  OBVIOUS
<1>2. "x" \in Tokens /\ "newline" \in Tokens  BY DEF Tokens
<1>3. \A what \in Whats : Do(what) \in Effects  BY <1>1 DEF Do, Effects
<1>4. \A token \in Tokens : InsertText(token) \in Effects  BY <1>1 DEF InsertText, Effects, Whats
<1>5. \A t \in Seq(Tokens) : Paste(t) \in Effects  BY DEF Paste, Effects, Whats
<1>6. /\ "home" \in Whats /\ "up" \in Whats /\ "delete" \in Whats
      /\ "nothing" \in Whats /\ "enter" \in Whats /\ "escape" \in Whats
  BY DEF Whats
<1> QED  BY <1>2, <1>3, <1>4, <1>5, <1>6

LEMMA TokenTypes ==
  /\ ESC \in Tokens /\ CR \in Tokens /\ CtrlA \in Tokens /\ Finals \subseteq Tokens
  /\ "x" \in Tokens /\ "xCode" \in Tokens /\ "ctrlCode" \in Tokens
  /\ "1" \in Tokens /\ "3" \in Tokens
BY DEF Tokens

\* A sequence of a few tokens.
LEMMA FewTokens ==
  /\ \A a \in Tokens : <<a>> \in Seq(Tokens) /\ Len(<<a>>) = 1 /\ <<a>>[1] = a
  /\ \A a, b \in Tokens : <<a, b>> \in Seq(Tokens) /\ Len(<<a, b>>) = 2 /\ <<a, b>>[1] = a
  /\ \A a, b, c \in Tokens : <<a, b, c>> \in Seq(Tokens) /\ Len(<<a, b, c>>) = 3 /\ <<a, b, c>>[1] = a
  /\ \A a, b, c, d \in Tokens : <<a, b, c, d>> \in Seq(Tokens) /\ Len(<<a, b, c, d>>) = 4 /\ <<a, b, c, d>>[1] = a
OBVIOUS

LEMMA ShortKey == ASSUME NEW x, PlainKey(x) \/ EscapedKey(x) \/ CsiEncoded(x)
  PROVE  /\ x.sends \in Seq(Tokens) /\ Len(x.sends) \in Nat /\ Len(x.sends) >= 1 /\ x.effect \in Effects
         /\ x.effect.does # "paste"
<1>1. "[" \in Tokens /\ "O" \in Tokens /\ "A" \in Tokens /\ "u" \in Tokens /\ "~" \in Tokens
  BY DEF Tokens, Finals
<1> DEFINE Short(q) == q \in Seq(Tokens) /\ Len(q) \in Nat /\ Len(q) >= 1
<1>2. /\ \A a \in Tokens : Short(<<a>>)
      /\ \A a, b \in Tokens : Short(<<a, b>>)
      /\ \A a, b, c \in Tokens : Short(<<a, b, c>>)
      /\ \A a, b, c, d \in Tokens : Short(<<a, b, c, d>>)
  BY FewTokens
<1> HIDE DEF Short
<1>3. Short(x.sends)
  <2>1. CASE PlainKey(x)  BY <1>1, <1>2, <2>1, TokenTypes, Zenon DEF PlainKey
  <2>2. CASE EscapedKey(x)  BY <1>1, <1>2, <2>2, TokenTypes, Zenon DEF EscapedKey
  <2>3. CASE CsiEncoded(x)
    <3>1. /\ Short(<<ESC, "[", "A">>) /\ Short(<<ESC, "[", "xCode", "u">>)
          /\ Short(<<ESC, "[", "ctrlCode", "u">>)
          /\ Short(<<ESC, "[", "3", "~">>) /\ Short(<<ESC, "[", "1", "~">>)
      BY <1>1, <1>2, TokenTypes, Zenon
    <3> QED  BY <2>3, <3>1, Zenon DEF CsiEncoded
  <2> QED  BY <2>1, <2>2, <2>3
<1>4. x.effect \in Effects
  BY EffectTypes, Zenon DEF PlainKey, EscapedKey, CsiEncoded
<1>5. x.effect.does # "paste"
  <2>1. \A what : Do(what).does = what  BY DEF Do
  <2>2. \A token : InsertText(token).does = "insert"  BY DEF InsertText
  <2>3. \/ x.effect \in {InsertText("x"), InsertText("newline")}
        \/ \E what \in {"home", "enter", "escape", "up", "delete", "nothing"} : x.effect = Do(what)
    BY Zenon DEF PlainKey, EscapedKey, CsiEncoded
  <2> QED  BY <2>1, <2>2, <2>3
<1> QED  BY <1>3, <1>4, <1>5 DEF Short

LEMMA KeyTypes == ASSUME NEW x \in Keyboard
  PROVE  x.sends \in Seq(Tokens) /\ Len(x.sends) \in Nat /\ Len(x.sends) >= 1 /\ x.effect \in Effects
<1>1. CASE PlainKey(x) \/ EscapedKey(x) \/ CsiEncoded(x)
  <2>1. x.sends \in Seq(Tokens) /\ Len(x.sends) \in Nat /\ Len(x.sends) >= 1 /\ x.effect \in Effects  BY <1>1, ShortKey
  <2> QED  BY <2>1
<1>4. CASE \E t \in PastedTexts : PasteOf(x, t)
  <2>1. PICK t \in PastedTexts : PasteOf(x, t)  BY <1>4
  <2>2. t \in Seq(Tokens) /\ Len(t) \in Nat /\ PasteSends(t) \in Seq(Tokens) /\ Len(PasteSends(t)) = 12 + Len(t)
    BY PasteSpelled DEF Spells
  <2>3. x.sends = PasteSends(t) /\ x.effect = Paste(t)  BY <2>1 DEF PasteOf
  <2> QED  BY <2>2, <2>3, EffectTypes
<1> QED  BY <1>1, <1>4, KeyIs

\* What a key may send, token by token.
LEMMA FirstToken == ASSUME NEW x \in Keyboard
  PROVE  /\ x.sends[1] # ESC => PlainKey(x)
         /\ x.sends[1] = ESC => EscapedKey(x) \/ CsiEncoded(x) \/ \E t \in PastedTexts : PasteOf(x, t)
<1>1. PlainKey(x) => x.sends[1] # ESC  BY DEF PlainKey, ESC, CtrlA, CR
<1>2. EscapedKey(x) \/ CsiEncoded(x) => x.sends[1] = ESC
  <2>1. EscapedKey(x) => x.sends[1] = ESC  BY DEF EscapedKey
  <2>2. CsiEncoded(x) => x.sends[1] = ESC
    <3>1. /\ <<ESC, "[", "A">>[1] = ESC /\ <<ESC, "[", "xCode", "u">>[1] = ESC
          /\ <<ESC, "[", "ctrlCode", "u">>[1] = ESC
          /\ <<ESC, "[", "3", "~">>[1] = ESC /\ <<ESC, "[", "1", "~">>[1] = ESC
      OBVIOUS
    <3> QED  BY <3>1, Zenon DEF CsiEncoded
  <2> QED  BY <2>1, <2>2
<1>3. ASSUME NEW t \in PastedTexts, PasteOf(x, t)  PROVE x.sends[1] = ESC
  BY <1>3, PasteSpelled DEF PasteOf, Spells
<1> QED  BY <1>1, <1>2, <1>3, KeyIs

LEMMA PasteKeyIs == ASSUME NEW x \in Keyboard, x.effect.does = "paste"
  PROVE  /\ x.effect.text \in Seq(Tokens) /\ Len(x.effect.text) \in Nat
         /\ x.effect = Paste(x.effect.text) /\ PasteOf(x, x.effect.text) /\ x.effect.text \in PastedTexts
<1>1. ~PlainKey(x) /\ ~EscapedKey(x) /\ ~CsiEncoded(x)
  BY ShortKey
<1>2. PICK t \in PastedTexts : PasteOf(x, t)  BY <1>1, KeyIs
<1>3. x.effect = Paste(t) /\ x.effect.text = t  BY <1>2 DEF PasteOf, Paste
<1> QED  BY <1>2, <1>3, PasteSpelled


LEMMA PasteTokens == ASSUME NEW x \in Keyboard, x.effect.does = "paste"
  PROVE  Spells(x.sends, x.effect.text)
BY PasteKeyIs, PasteSpelled DEF PasteOf

\* An encoded key after the bracket.
CsiTokens(x) ==
  \/ Len(x.sends) = 3 /\ x.sends[3] = "A" /\ x.effect = Do("up")
  \/ Len(x.sends) = 4 /\ x.sends[3] = "xCode" /\ x.sends[4] = "u" /\ x.effect = InsertText("x")
  \/ Len(x.sends) = 4 /\ x.sends[3] = "ctrlCode" /\ x.sends[4] = "u" /\ x.effect = Do("home")
  \/ Len(x.sends) = 4 /\ x.sends[3] = "3" /\ x.sends[4] = "~" /\ x.effect = Do("delete")
  \/ Len(x.sends) = 4 /\ x.sends[3] = "1" /\ x.sends[4] = "~" /\ x.effect = Do("nothing")

LEMMA EscapedTokens == ASSUME NEW x \in Keyboard, x.sends[1] = ESC
  PROVE  \/ Len(x.sends) = 1 /\ x.effect = Do("escape")
         \/ Len(x.sends) = 2 /\ x.sends[2] = CR /\ x.effect = InsertText("newline")
         \/ Len(x.sends) = 3 /\ x.sends[2] = "O" /\ x.sends[3] = "A" /\ x.effect = Do("up")
         \/ x.sends[2] = "[" /\ x.effect.does # "paste" /\ CsiTokens(x)
         \/ x.sends[2] = "[" /\ x.effect.does = "paste"
<1>1. CASE EscapedKey(x)  BY <1>1 DEF EscapedKey
<1>2. CASE CsiEncoded(x)
  <2>1. x.effect.does # "paste"  BY <1>2, ShortKey
  <2>2. CASE x.sends = <<ESC, "[", "A">> /\ x.effect = Do("up")
    <3>1. Len(x.sends) = 3 /\ x.sends[2] = "[" /\ x.sends[3] = "A"
      <4>1. x.sends = <<ESC, "[", "A">>  BY <2>2
      <4> QED  BY <4>1, SMTT(30)
    <3> QED  BY <2>1, <2>2, <3>1, Zenon DEF CsiTokens
  <2>3. CASE x.sends = <<ESC, "[", "xCode", "u">> /\ x.effect = InsertText("x")
    <3>1. Len(x.sends) = 4 /\ x.sends[2] = "[" /\ x.sends[3] = "xCode" /\ x.sends[4] = "u"
      <4>1. x.sends = <<ESC, "[", "xCode", "u">>  BY <2>3
      <4> QED  BY <4>1, SMTT(30)
    <3> QED  BY <2>1, <2>3, <3>1, Zenon DEF CsiTokens
  <2>4. CASE x.sends = <<ESC, "[", "ctrlCode", "u">> /\ x.effect = Do("home")
    <3>1. Len(x.sends) = 4 /\ x.sends[2] = "[" /\ x.sends[3] = "ctrlCode" /\ x.sends[4] = "u"
      <4>1. x.sends = <<ESC, "[", "ctrlCode", "u">>  BY <2>4
      <4> QED  BY <4>1, SMTT(30)
    <3> QED  BY <2>1, <2>4, <3>1, Zenon DEF CsiTokens
  <2>5. CASE x.sends = <<ESC, "[", "3", "~">> /\ x.effect = Do("delete")
    <3>1. Len(x.sends) = 4 /\ x.sends[2] = "[" /\ x.sends[3] = "3" /\ x.sends[4] = "~"
      <4>1. x.sends = <<ESC, "[", "3", "~">>  BY <2>5
      <4> QED  BY <4>1, SMTT(30)
    <3> QED  BY <2>1, <2>5, <3>1, Zenon DEF CsiTokens
  <2>6. CASE x.sends = <<ESC, "[", "1", "~">> /\ x.effect = Do("nothing")
    <3>1. Len(x.sends) = 4 /\ x.sends[2] = "[" /\ x.sends[3] = "1" /\ x.sends[4] = "~"
      <4>1. x.sends = <<ESC, "[", "1", "~">>  BY <2>6
      <4> QED  BY <4>1, SMTT(30)
    <3> QED  BY <2>1, <2>6, <3>1, Zenon DEF CsiTokens
  <2> QED  BY <1>2, <2>2, <2>3, <2>4, <2>5, <2>6 DEF CsiEncoded
<1>3. CASE \E t \in PastedTexts : PasteOf(x, t)
  <2>1. PICK t \in PastedTexts : PasteOf(x, t)  BY <1>3
  <2>2. x.effect.does = "paste"  BY <2>1 DEF PasteOf, Paste
  <2>3. x.sends[2] = "["  BY <2>2, PasteTokens DEF Spells
  <2> QED  BY <2>2, <2>3
<1> QED  BY <1>1, <1>2, <1>3, FirstToken

(* The handler *)

\* After token n of key x, which is b: within the key, at its end, or its control byte flies.
Outcome(x, n, b) ==
  \/ /\ effects' = effects /\ flying' = flying
     /\ TokensRead(x, n, state', params', content')
  \/ /\ effects' = Append(effects, x.effect) /\ flying' = flying
     /\ state' = "ground" /\ params' = <<>> /\ n = Len(x.sends)
  \/ /\ effects' = effects /\ flying' = flying \cup {b.key} /\ x.effect = Do("home")
     /\ state' = "ground" /\ params' = <<>> /\ n = Len(x.sends)

LEMMA GroundReads ==
  ASSUME NEW x \in Keyboard, NEW b, b.token = x.sends[1], Ground(b)
  PROVE  Outcome(x, 1, b)
<1>1. CASE x.sends[1] = ESC
  <2>1. state' = "escape" /\ params' = <<>> /\ effects' = effects /\ flying' = flying
    BY <1>1 DEF Ground, Waits
  <2>2. TokensRead(x, 1, state', params', content')
    BY <1>1, <2>1, KeyTypes DEF TokensRead
  <2> QED  BY <2>1, <2>2 DEF Outcome
<1>2. CASE x.sends[1] # ESC
  <2>1. state' = "ground" /\ params' = <<>> /\ flying' = flying
    BY <1>2 DEF Ground, Waits, Finished
  <2>2. effects' = Append(effects, x.effect) /\ 1 = Len(x.sends)
    <3>1. PlainKey(x)  BY <1>2, FirstToken
    <3>2. CASE x.sends = <<"x">> /\ x.effect = InsertText("x")
      <4>1. b.token = "x"  BY <3>2
      <4> QED  BY <4>1, <1>2, <3>2 DEF Ground, Done, CR, CtrlA, ESC
    <3>3. CASE x.sends = <<CtrlA>> /\ x.effect = Do("home")
      <4>1. b.token = CtrlA  BY <3>3
      <4> QED  BY <4>1, <1>2, <3>3 DEF Ground, Done, CR, CtrlA, ESC
    <3>4. CASE x.sends = <<CR>> /\ x.effect = Do("enter")
      <4>1. b.token = CR  BY <3>4
      <4> QED  BY <4>1, <1>2, <3>4 DEF Ground, Done, CR, CtrlA, ESC
    <3> QED  BY <3>1, <3>2, <3>3, <3>4 DEF PlainKey
  <2> QED  BY <2>1, <2>2 DEF Outcome
<1> QED  BY <1>1, <1>2

LEMMA EscapeReads ==
  ASSUME NEW x \in Keyboard, NEW b, x.sends[1] = ESC, 1 < Len(x.sends), b.token = x.sends[2], Escape(b)
  PROVE  Outcome(x, 2, b)
<1>1. content' = content /\ flying' = flying  BY DEF Escape
<1>2. CASE Len(x.sends) = 2 /\ x.sends[2] = CR /\ x.effect = InsertText("newline")
  <2>1. state' = "ground" /\ params' = <<>> /\ effects' = Append(effects, x.effect)
    BY <1>2 DEF Escape, Finished, Waits, Done, CR, ESC
  <2> QED  BY <1>1, <1>2, <2>1 DEF Outcome
<1>3. CASE Len(x.sends) = 3 /\ x.sends[2] = "O"
  <2>1. state' = "ss3" /\ params' = <<>> /\ effects' = effects
    BY <1>3 DEF Escape, Waits, CR, ESC
  <2>2. TokensRead(x, 2, state', params', content')
    BY <1>3, <2>1 DEF TokensRead
  <2> QED  BY <1>1, <2>1, <2>2 DEF Outcome
<1>4. CASE x.sends[2] = "[" /\ 2 < Len(x.sends)
  <2>1. state' = "csi" /\ params' = <<>> /\ effects' = effects
    BY <1>4 DEF Escape, Waits, CR, ESC
  <2>2. TokensRead(x, 2, state', params', content')
    BY <1>4, <2>1, KeyTypes DEF TokensRead, CsiRead
  <2> QED  BY <1>1, <2>1, <2>2 DEF Outcome
<1>5. x.effect.does = "paste" => 2 < Len(x.sends)  BY PasteTokens DEF Spells
<1>6. CsiTokens(x) => 2 < Len(x.sends)
  <2>1. CsiTokens(x) => Len(x.sends) = 3 \/ Len(x.sends) = 4  BY Zenon DEF CsiTokens
  <2>2. 2 < 3 /\ 2 < 4  OBVIOUS
  <2> QED  BY <2>1, <2>2, Zenon
<1> QED  BY <1>2, <1>3, <1>4, <1>5, <1>6, EscapedTokens

LEMMA Ss3Reads ==
  ASSUME NEW x \in Keyboard, NEW b, x.sends[1] = ESC, x.sends[2] = "O", 2 < Len(x.sends),
         b.token = x.sends[3], Ss3(b)
  PROVE  Outcome(x, 3, b)
<1>1. Len(x.sends) = 3 /\ x.sends[3] = "A" /\ x.effect = Do("up")
  BY EscapedTokens DEF CR
<1>2. /\ state' = "ground" /\ params' = <<>> /\ flying' = flying
      /\ effects' = Append(effects, NavKey(b.token))
  BY DEF Ss3, Finished, Waits, Done
<1>3. NavKey(b.token) = Do("up")  BY <1>1 DEF NavKey
<1> QED  BY <1>1, <1>2, <1>3 DEF Outcome


LEMMA OneMore ==
  ASSUME NEW S, NEW p \in Seq(S), NEW q \in Seq(S), NEW x \in S,
         Len(q) = Len(p) + 1, q[Len(p) + 1] = x, \A i \in 1..Len(p) : q[i] = p[i]
  PROVE  Append(p, x) = q
<1> DEFINE r == Append(p, x)
<1>1. /\ r \in Seq(S) /\ Len(r) = Len(p) + 1 /\ Len(p) \in Nat
      /\ r[Len(p) + 1] = x /\ \A i \in 1..Len(p) : r[i] = p[i]
  BY Grown
<1> HIDE DEF r
<1>2. \A i \in 1..Len(r) : r[i] = q[i]  BY <1>1
<1>3. r = q  BY <1>1, <1>2, SeqEqual
<1> QED  BY <1>3 DEF r

\* Parameters of a few tokens, and one more.
LEMMA ParameterAdded ==
  /\ \A a : Append(<<>>, a) = <<a>>
  /\ \A a, b : Append(<<a>>, b) = <<a, b>>
  /\ \A a, b, c : Append(<<a, b>>, c) = <<a, b, c>>
  /\ \A a : <<a>> # <<>> /\ <<a>> # <<"2", "0">> /\ <<a>> # <<"2", "0", "0">>
  /\ \A a, b : <<a>> = <<b>> => a = b
  /\ <<>> # <<"2", "0", "0">> /\ <<"2", "0">> # <<"2", "0", "0">>
  /\ \A a : <<"2", "0">> # <<a>> /\ <<"2", "0", "0">> # <<a>> /\ <<>> # <<a>>
<1>1. \A a : Append(<<>>, a) = <<a>>  OBVIOUS
<1>2. \A a, b : Append(<<a>>, b) = <<a, b>>
  <2> TAKE a, b
  <2>1. ASSUME NEW p, NEW q, p = <<a>>, q = <<a, b>>  PROVE Append(p, b) = q
    <3>1. p \in Seq({a, b}) /\ q \in Seq({a, b})  BY <2>1
    <3>2. Len(q) = Len(p) + 1 /\ q[Len(p) + 1] = b  BY <2>1
    <3>3. \A i \in 1..Len(p) : q[i] = p[i]  BY <2>1
    <3> QED  BY <3>1, <3>2, <3>3, OneMore
  <2> QED  BY <2>1
<1>3. \A a, b, c : Append(<<a, b>>, c) = <<a, b, c>>
  <2> TAKE a, b, c
  <2>1. ASSUME NEW p, NEW q, p = <<a, b>>, q = <<a, b, c>>  PROVE Append(p, c) = q
    <3>1. p \in Seq({a, b, c}) /\ q \in Seq({a, b, c})  BY <2>1
    <3>2. Len(q) = Len(p) + 1 /\ q[Len(p) + 1] = c  BY <2>1
    <3>3. \A i \in 1..Len(p) : q[i] = p[i]  BY <2>1
    <3> QED  BY <3>1, <3>2, <3>3, OneMore
  <2> QED  BY <2>1
<1>4. \A a : Len(<<a>>) = 1 /\ <<a>>[1] = a  OBVIOUS
<1>5. Len(<<>>) = 0 /\ Len(<<"2", "0">>) = 2 /\ Len(<<"2", "0", "0">>) = 3  OBVIOUS
<1> QED  BY <1>1, <1>2, <1>3, <1>4, <1>5

LEMMA CsiParameterReads ==
  ASSUME NEW x \in Keyboard, NEW n \in Nat, NEW b, x.sends[1] = ESC, x.sends[2] = "[", n < Len(x.sends),
         CsiRead(x, n, params), b.token = x.sends[n + 1], CsiParameter(b)
  PROVE  Outcome(x, n + 1, b)
<1>1. state' = "csi" /\ params' = Append(params, b.token) /\ effects' = effects /\ flying' = flying
  BY DEF CsiParameter, Waits, Stays
<1>2. b.token \notin Finals  BY DEF CsiParameter
<1>3. n + 1 < Len(x.sends) /\ CsiRead(x, n + 1, params')
  <2>1. CASE x.effect.does = "paste"
    <3>0. Len(x.sends) >= 12  BY <2>1, PasteTokens DEF Spells
    <3>1. x.sends[3] = "2" /\ x.sends[4] = "0" /\ x.sends[5] = "0" /\ x.sends[6] = "~"  BY <2>1, PasteTokens DEF Spells
    <3>2. CASE n = 2 /\ params = <<>>
      <4>1. params' = <<x.sends[3]>>  BY <1>1, <3>2, ParameterAdded
      <4>2. x.sends[3] \notin Finals  BY <1>2, <3>2
      <4> QED  BY <3>0, <3>2, <4>1, <4>2 DEF CsiRead
    <3>3. CASE n = 3 /\ params = <<x.sends[3]>>
      <4>1. params' = <<"2", "0">>  BY <1>1, <3>1, <3>3, ParameterAdded
      <4> QED  BY <3>0, <2>1, <3>3, <4>1 DEF CsiRead
    <3>4. CASE n = 4 /\ params = <<"2", "0">>
      <4>1. params' = <<"2", "0", "0">>  BY <1>1, <3>1, <3>4, ParameterAdded
      <4> QED  BY <3>0, <2>1, <3>4, <4>1 DEF CsiRead
    <3>5. CASE n = 5
      <4>1. b.token = "~"  BY <3>1, <3>5
      <4> QED  BY <4>1, <1>2 DEF Finals
    <3> QED  BY <3>2, <3>3, <3>4, <3>5 DEF CsiRead
  <2>2. CASE x.effect.does # "paste"
    <3>0. 2 <= n  BY DEF CsiRead
    <3>1. CsiTokens(x)  BY <2>2, <3>0, EscapedTokens DEF CR
    <3>2. (n = 2 /\ params = <<>>) \/ n = 3  BY <2>2 DEF CsiRead
    <3>3. n # 3
      <4> SUFFICES ASSUME n = 3  PROVE FALSE  OBVIOUS
      <4>1. b.token = x.sends[4]  OBVIOUS
      <4>2. Len(x.sends) # 3  OBVIOUS
      <4>3. x.sends[4] \in {"u", "~"}  BY <3>1, <4>2 DEF CsiTokens
      <4> QED  BY <4>1, <4>3, <1>2 DEF Finals
    <3>4. n = 2 /\ params = <<>> /\ b.token = x.sends[3]  BY <3>2, <3>3
    <3>5. Len(x.sends) = 4
      <4>1. x.sends[3] # "A"  BY <3>4, <1>2 DEF Finals
      <4> QED  BY <3>1, <4>1 DEF CsiTokens
    <3>6. params' = <<x.sends[3]>>  BY <1>1, <3>4, ParameterAdded
    <3> QED  BY <3>4, <3>5, <3>6, <1>2 DEF CsiRead
  <2> QED  BY <2>1, <2>2
<1>4. TokensRead(x, n + 1, state', params', content')
  BY <1>1, <1>3, KeyTypes DEF TokensRead
<1> QED  BY <1>1, <1>4 DEF Outcome

LEMMA CsiPasteReads ==
  ASSUME NEW x \in Keyboard, NEW n \in Nat, NEW b, x.sends[1] = ESC, x.sends[2] = "[", n < Len(x.sends),
         CsiRead(x, n, params), b.token = x.sends[n + 1], CsiPaste(b)
  PROVE  Outcome(x, n + 1, b)
<1>1. /\ state' = "paste" /\ params' = <<>> /\ content' = <<>> /\ effects' = effects /\ flying' = flying
      /\ params = <<"2", "0", "0">>
  BY DEF CsiPaste, Waits
<1>2. n = 5 /\ x.effect.does = "paste"
  BY <1>1, ParameterAdded DEF CsiRead
<1>3. Len(x.sends) = 12 + Len(x.effect.text) /\ Len(x.effect.text) \in Nat
  BY <1>2, PasteTokens DEF Spells
<1>4. SoFar(x, content', 0)
  BY <1>1 DEF SoFar
<1>5. PasteRead(x, 0, state', params', content')
  BY <1>1, <1>3, <1>4 DEF PasteRead
<1>6. n + 1 = 6 /\ n + 1 - 6 = 0 /\ n + 1 < Len(x.sends)
  BY <1>2, <1>3
<1>7. TokensRead(x, n + 1, state', params', content')
  BY <1>2, <1>5, <1>6 DEF TokensRead
<1> QED  BY <1>1, <1>7 DEF Outcome

\* The final token of an encoded key, which is no paste.
LEMMA CsiEnds ==
  ASSUME NEW x \in Keyboard, NEW n \in Nat, NEW b, x.sends[1] = ESC, x.sends[2] = "[", n < Len(x.sends),
         CsiRead(x, n, params), b.token = x.sends[n + 1], b.token \in Finals,
         ~(b.token = "~" /\ params = <<"2", "0", "0">>)
  PROVE  /\ CsiTokens(x) /\ n + 1 = Len(x.sends)
         /\ (n = 2 /\ params = <<>>) \/ (n = 3 /\ params = <<x.sends[3]>>)
<1>1. x.effect.does # "paste"
  <2> SUFFICES ASSUME x.effect.does = "paste"  PROVE FALSE  OBVIOUS
  <2>1. x.sends[3] = "2" /\ x.sends[4] = "0" /\ x.sends[5] = "0" /\ x.sends[6] = "~"  BY PasteTokens DEF Spells
  <2>2. n = 2 \/ n = 3 \/ n = 4 \/ (n = 5 /\ params = <<"2", "0", "0">>)  BY DEF CsiRead
  <2>3. "2" \notin Finals /\ "0" \notin Finals  BY DEF Finals
  <2> QED  BY <2>1, <2>2, <2>3
<1>6. 2 <= n  BY DEF CsiRead
<1>2. CsiTokens(x)  BY <1>1, <1>6, EscapedTokens DEF CR
<1>3. (n = 2 /\ params = <<>>) \/ (n = 3 /\ params = <<x.sends[3]>> /\ x.sends[3] \notin Finals)
  BY <1>1 DEF CsiRead
<1>4. CASE n = 2 /\ params = <<>>
  <2>1. x.sends[3] \in Finals  BY <1>4
  <2>2. x.sends[3] = "A"
    <3>1. "xCode" \notin Finals /\ "ctrlCode" \notin Finals /\ "3" \notin Finals /\ "1" \notin Finals
      BY DEF Finals
    <3> QED  BY <1>2, <2>1, <3>1 DEF CsiTokens
  <2>3. Len(x.sends) = 3  BY <1>2, <2>2 DEF CsiTokens
  <2> QED  BY <1>2, <1>4, <2>3
<1>5. CASE n = 3 /\ params = <<x.sends[3]>>
  <2>1. Len(x.sends) = 4  BY <1>2, <1>5 DEF CsiTokens
  <2> QED  BY <1>2, <1>5, <2>1
<1> QED  BY <1>3, <1>4, <1>5

LEMMA CsiControlReads ==
  ASSUME NEW x \in Keyboard, NEW n \in Nat, NEW b, x.sends[1] = ESC, x.sends[2] = "[", n < Len(x.sends),
         CsiRead(x, n, params), b.token = x.sends[n + 1], CsiControl(b)
  PROVE  Outcome(x, n + 1, b)
<1>1. /\ state' = "ground" /\ params' = <<>> /\ effects' = effects /\ flying' = flying \cup {b.key}
      /\ params = <<"ctrlCode">> /\ b.token \in {"u", "~"}
  BY DEF CsiControl, Finished, Waits
<1>2. b.token \in Finals /\ ~(b.token = "~" /\ params = <<"2", "0", "0">>)
  BY <1>1, ParameterAdded DEF Finals
<1>3. CsiTokens(x) /\ n + 1 = Len(x.sends) /\ params = <<x.sends[3]>>
  BY <1>1, <1>2, CsiEnds, ParameterAdded
<1>4. x.sends[3] = "ctrlCode"  BY <1>1, <1>3, ParameterAdded
<1>5. x.effect = Do("home")  BY <1>3, <1>4 DEF CsiTokens
<1> QED  BY <1>1, <1>3, <1>5 DEF Outcome

LEMMA CsiKeyReads ==
  ASSUME NEW x \in Keyboard, NEW n \in Nat, NEW b, x.sends[1] = ESC, x.sends[2] = "[", n < Len(x.sends),
         CsiRead(x, n, params), b.token = x.sends[n + 1], CsiKey(b)
  PROVE  Outcome(x, n + 1, b)
<1> DEFINE seen ==
         IF b.token = "~" /\ params = <<"3">> THEN Do("delete")
         ELSE IF b.token \in {"u", "~"} /\ params = <<"xCode">> THEN InsertText("x")
         ELSE IF b.token \notin {"u", "~"} /\ params = <<>> THEN NavKey(b.token) ELSE Do("nothing")
<1>1. /\ state' = "ground" /\ params' = <<>> /\ effects' = Append(effects, seen) /\ flying' = flying
      /\ b.token \in Finals /\ ~(b.token = "~" /\ params = <<"2", "0", "0">>)
      /\ ~(b.token \in {"u", "~"} /\ params = <<"ctrlCode">>)
  BY DEF CsiKey, Finished, Waits, Done
<1>2. /\ CsiTokens(x) /\ n + 1 = Len(x.sends)
      /\ (n = 2 /\ params = <<>>) \/ (n = 3 /\ params = <<x.sends[3]>>)
  BY <1>1, CsiEnds
<1>3. seen = x.effect
  <2>1. CASE n = 2 /\ params = <<>>
    <3>1. x.sends[3] = "A" /\ x.effect = Do("up") /\ b.token = "A"  BY <1>2, <2>1 DEF CsiTokens
    <3>2. seen = NavKey(b.token)  BY <2>1, <3>1, ParameterAdded
    <3> QED  BY <3>1, <3>2 DEF NavKey
  <2>2. CASE n = 3 /\ params = <<x.sends[3]>>
    <3>0. Len(x.sends) = 4 /\ b.token = x.sends[4]  BY <1>2, <2>2
    <3>1. \A a : params = <<a>> => x.sends[3] = a  BY <2>2, ParameterAdded
    <3>2. CASE x.sends[3] = "xCode" /\ x.sends[4] = "u" /\ x.effect = InsertText("x")
      BY <2>2, <3>0, <3>1, <3>2
    <3>3. CASE x.sends[3] = "ctrlCode" /\ x.sends[4] = "u"
      BY <1>1, <2>2, <3>0, <3>3
    <3>4. CASE x.sends[3] = "3" /\ x.sends[4] = "~" /\ x.effect = Do("delete")
      BY <2>2, <3>0, <3>4
    <3>5. CASE x.sends[3] = "1" /\ x.sends[4] = "~" /\ x.effect = Do("nothing")
      <4>1. params # <<"3">> /\ params # <<"xCode">> /\ params # <<>>  BY <3>1, <3>5, <2>2, ParameterAdded
      <4> QED  BY <3>0, <3>5, <4>1
    <3> QED  BY <1>2, <3>0, <3>2, <3>3, <3>4, <3>5 DEF CsiTokens
  <2> QED  BY <1>2, <2>1, <2>2
<1> HIDE DEF seen
<1>4. effects' = Append(effects, x.effect)  BY <1>1, <1>3
<1> QED  BY <1>1, <1>2, <1>4 DEF Outcome


\* The end marker, token by token.
LEMMA MarkerIs == ASSUME NEW q \in Seq(Tokens), Len(q) = 4
  PROVE  q = EndMarker <=> q[1] = "2" /\ q[2] = "0" /\ q[3] = "1" /\ q[4] = "~"
<1>1. /\ EndMarker \in Seq(Tokens) /\ Len(EndMarker) = 4 /\ EndMarker[1] = "2" /\ EndMarker[2] = "0"
      /\ EndMarker[3] = "1" /\ EndMarker[4] = "~"
  BY DEF EndMarker, Tokens, Finals
<1>2. ASSUME q[1] = "2" /\ q[2] = "0" /\ q[3] = "1" /\ q[4] = "~"  PROVE q = EndMarker
  <2>1. \A i \in 1..4 : i = 1 \/ i = 2 \/ i = 3 \/ i = 4  OBVIOUS
  <2>2. \A i \in 1..Len(q) : q[i] = EndMarker[i]  BY <1>1, <1>2, <2>1
  <2>3. Len(q) = Len(EndMarker)  BY <1>1
  <2> QED  BY <1>1, <2>2, <2>3, SeqEqual
<1> QED  BY <1>1, <1>2

\* One place more in a paste, behind its six before it and before the six at its end.
LEMMA SevenMore == \A m, l \in Nat :
  m + 1 < 6 + l => 7 + m >= 6 /\ 7 + m - 6 = m + 1 /\ 7 + m < 12 + l
  OBVIOUS

LEMMA PasteTextReads ==
  ASSUME NEW x \in Keyboard, NEW m \in Nat, NEW b, x.effect.does = "paste", x.sends[1] = ESC, 6 + m < Len(x.sends),
         PasteRead(x, m, state, params, content), b.token = x.sends[7 + m], b.token \in Tokens,
         content \in Seq(Tokens), PasteText(b)
  PROVE  Outcome(x, 7 + m, b)
<1> DEFINE t == x.effect.text
<1>1. /\ Len(t) \in Nat /\ Len(x.sends) = 12 + Len(t) /\ x.sends[7 + Len(t)] = ESC
      /\ \A i \in 1..Len(t) : x.sends[6 + i] = t[i]
  BY PasteTokens DEF Spells
<1>2. m <= Len(t) /\ SoFar(x, content, m)
  BY DEF PasteText, PasteRead
<1>3. effects' = effects /\ flying' = flying  BY DEF PasteText
<1>4. PasteRead(x, m + 1, state', params', content') /\ m + 1 < 6 + Len(t)
  <2>1. CASE b.token = ESC
    <3>1. state' = "pasteEscape" /\ params' = <<>> /\ content' = content  BY <2>1 DEF PasteText, Waits
    <3>2. m + 1 >= 1 /\ m + 1 <= Len(t) + 1 /\ 6 + (m + 1) = 7 + m /\ m + 1 - 1 = m /\ m + 1 < 6 + Len(t)
      <4>1. m <= Len(t) /\ Len(t) \in Nat  BY <1>1, <1>2
      <4> HIDE DEF t
      <4> QED  BY <4>1
    <3>3. x.sends[6 + (m + 1)] = ESC /\ SoFar(x, content, m + 1 - 1)  BY <1>2, <2>1, <3>2
    <3> QED  BY <3>1, <3>2, <3>3 DEF PasteRead
  <2>2. CASE b.token # ESC
    <3>1. state' = "paste" /\ params' = <<>> /\ content' = Append(content, b.token)  BY <2>2 DEF PasteText, Waits
    <3>2. m # Len(t)  BY <1>1, <2>2
    <3>3. m + 1 \in 1..Len(t) /\ 6 + (m + 1) = 7 + m  BY <1>1, <1>2, <3>2
    <3>4. b.token = t[m + 1]  BY <1>1, <3>3
    <3>5. SoFar(x, content', m + 1)
      <4>1. /\ Len(Append(content, b.token)) = Len(content) + 1 /\ Append(content, b.token)[Len(content) + 1] = b.token
            /\ \A i \in 1..Len(content) : Append(content, b.token)[i] = content[i]
        BY Grown
      <4>2. Len(content) = m /\ \A i \in 1..m : content[i] = t[i]  BY <1>2 DEF SoFar
      <4>3. \A i \in 1..m + 1 : Append(content, b.token)[i] = t[i]  BY <3>4, <4>1, <4>2
      <4> QED  BY <3>1, <4>1, <4>2, <4>3 DEF SoFar
    <3>6. m + 1 <= Len(t) /\ m + 1 < 6 + Len(t)  BY <1>1, <3>3
    <3> HIDE DEF t
    <3>7. m + 1 <= Len(x.effect.text)  BY <3>6 DEF t
    <3> QED  BY <3>1, <3>5, <3>6, <3>7 DEF PasteRead
  <2> QED  BY <2>1, <2>2
<1>5. 7 + m >= 6 /\ 7 + m - 6 = m + 1 /\ 7 + m < Len(x.sends)
  <2>1. Len(t) \in Nat /\ Len(x.sends) = 12 + Len(t) /\ m + 1 < 6 + Len(t)  BY <1>1, <1>4
  <2> HIDE DEF t
  <2> QED  BY <2>1, SevenMore
<1>6. TokensRead(x, 7 + m, state', params', content')
  BY <1>4, <1>5 DEF TokensRead
<1> QED  BY <1>3, <1>6 DEF Outcome

LEMMA PasteEscapeReads ==
  ASSUME NEW x \in Keyboard, NEW m \in Nat, NEW b, x.effect.does = "paste", x.sends[1] = ESC, 6 + m < Len(x.sends),
         PasteRead(x, m, state, params, content), b.token = x.sends[7 + m], b.token \in Tokens,
         content \in Seq(Tokens), ~CutsMarker(x.effect.text), PasteEscape(b)
  PROVE  Outcome(x, 7 + m, b)
<1> DEFINE t == x.effect.text
<1>1. /\ Len(t) \in Nat /\ Len(x.sends) = 12 + Len(t) /\ x.sends[8 + Len(t)] = "["
      /\ \A i \in 1..Len(t) : x.sends[6 + i] = t[i]
  BY PasteTokens DEF Spells
<1>2. m >= 1 /\ m <= Len(t) + 1 /\ x.sends[6 + m] = ESC /\ SoFar(x, content, m - 1)
  BY DEF PasteEscape, PasteRead
<1>3. effects' = effects /\ flying' = flying  BY DEF PasteEscape
<1>4. PasteRead(x, m + 1, state', params', content') /\ m + 1 < 6 + Len(t)
  <2>1. CASE b.token = "["
    <3>1. state' = "pasteCsi" /\ params' = <<>> /\ content' = content  BY <2>1 DEF PasteEscape, Waits
    <3>2. Len(content) = m - 1 /\ SoFar(x, content, Len(content))  BY <1>2 DEF SoFar
    <3>3. /\ Len(params') = 0 /\ Len(content) + 2 + Len(params') = m + 1 /\ Len(content) <= Len(t)
          /\ 7 + Len(content) = 6 + m /\ 8 + Len(content) = 7 + m
      BY <1>1, <1>2, <3>1, <3>2
    <3>4. \A i \in 1..Len(params') : FALSE  BY <3>3
    <3>5. x.sends[7 + Len(content)] = ESC /\ x.sends[8 + Len(content)] = "["
      BY <1>2, <2>1, <3>3
    <3>6. m + 1 < 6 + Len(t)  BY <1>1, <1>2
    <3>7. \A i \in 1..Len(params') : params'[i] = x.sends[8 + Len(content) + i]  BY <3>4
    <3>8. Len(params') <= 3 /\ Len(content) <= Len(x.effect.text)  BY <3>3
    <3> QED  BY <3>1, <3>2, <3>3, <3>5, <3>6, <3>7, <3>8 DEF PasteRead
  <2>2. CASE b.token # "["
    <3>1. state' = "paste" /\ params' = <<>> /\ content' = content \o <<ESC, b.token>>
      BY <2>2 DEF PasteEscape, Waits
    <3>2. m # Len(t) + 1
      <4> SUFFICES ASSUME m = Len(t) + 1  PROVE FALSE  OBVIOUS
      <4>1. 7 + m = 8 + Len(t)  BY <1>1
      <4> QED  BY <1>1, <2>2, <4>1
    <3>11. m # Len(t) + 1 /\ m >= 1 /\ m <= Len(t) + 1 /\ Len(t) \in Nat  BY <1>1, <1>2, <3>2
    <3> HIDE DEF t
    <3>9. m \in 1..Len(t)  BY <3>11
    <3> USE DEF t
    <3>3. m \in 1..Len(t) /\ t[m] = ESC  BY <1>1, <1>2, <3>9
    <3>4. m # Len(t)
      <4>1. t \in Seq(Tokens)  BY PasteKeyIs
      <4>2. m \in DOMAIN t  BY <3>3, <4>1, LenProperties
      <4> QED  BY <3>3, <4>2 DEF CutsMarker
    <3>5. m + 1 \in 1..Len(t) /\ 6 + (m + 1) = 7 + m  BY <1>1, <3>3, <3>4
    <3>6. b.token = t[m + 1]  BY <1>1, <3>5
    <3>7. SoFar(x, content', m + 1)
      <4> DEFINE z == <<ESC, b.token>>
      <4>1. z \in Seq(Tokens) /\ Len(z) = 2 /\ z[1] = ESC /\ z[2] = b.token  BY TokenTypes
      <4>2. content' = content \o z  BY <3>1
      <4> HIDE DEF z
      <4>3. Len(content) = m - 1 /\ \A i \in 1..m - 1 : content[i] = t[i]  BY <1>2 DEF SoFar
      <4>4. /\ Len(content \o z) = Len(content) + Len(z)
            /\ \A i \in 1..Len(content) + Len(z) : (content \o z)[i] = IF i <= Len(content) THEN content[i] ELSE z[i - Len(content)]
        BY <4>1, ConcatProperties
      <4>5. Len(content \o z) = m + 1  BY <4>1, <4>3, <4>4
      <4>6. \A i \in 1..m - 1 : (content \o z)[i] = t[i]  BY <4>1, <4>3, <4>4
      <4>7. (content \o z)[m] = t[m] /\ (content \o z)[m + 1] = t[m + 1]
        <5>1. (content \o z)[m] = z[1] /\ (content \o z)[m + 1] = z[2]  BY <1>2, <4>1, <4>3, <4>4
        <5> QED  BY <5>1, <3>3, <3>6, <4>1
      <4>8. \A i \in 1..m + 1 : i \in 1..m - 1 \/ i = m \/ i = m + 1  OBVIOUS
      <4>9. \A i \in 1..m + 1 : (content \o z)[i] = t[i]  BY <4>6, <4>7, <4>8
      <4> QED  BY <4>2, <4>5, <4>9 DEF SoFar
    <3>10. m + 1 <= Len(x.effect.text) /\ m + 1 < 6 + Len(t)  BY <1>1, <3>5
    <3> QED  BY <3>1, <3>7, <3>10 DEF PasteRead
  <2> QED  BY <2>1, <2>2
<1>5. 7 + m >= 6 /\ 7 + m - 6 = m + 1 /\ 7 + m < Len(x.sends)
  <2>1. Len(t) \in Nat /\ Len(x.sends) = 12 + Len(t) /\ m + 1 < 6 + Len(t)  BY <1>1, <1>4
  <2> HIDE DEF t
  <2> QED  BY <2>1, SevenMore
<1>6. TokensRead(x, 7 + m, state', params', content')
  BY <1>4, <1>5 DEF TokensRead
<1> QED  BY <1>3, <1>6 DEF Outcome


\* Counting.
LEMMA FourPlaces == \A c \in Nat : \A l \in Nat : c + 6 <= l =>
                      /\ c + 3 \in 1..l /\ c + 4 \in 1..l /\ c + 5 \in 1..l /\ c + 6 \in 1..l
                      /\ 6 + (c + 3) = 9 + c /\ 6 + (c + 4) = 10 + c /\ 6 + (c + 5) = 11 + c /\ 6 + (c + 6) = 12 + c
OBVIOUS

LEMMA UpToThree == \A n \in Nat : n <= 3 => n < 3 \/ n = 3
OBVIOUS

LEMMA SixMore == ASSUME NEW n \in Nat, NEW i \in 1..n + 6
  PROVE  i \in 1..n \/ i = n + 1 \/ i = n + 2 \/ \E j \in 1..4 : i = n + 2 + j
<1>1. CASE i > n + 2
  <2>1. i - (n + 2) \in 1..4 /\ i = n + 2 + (i - (n + 2))  BY <1>1
  <2> QED  BY <2>1
<1> QED  BY <1>1

\* Four bytes after an escape and a bracket, the last of which is b.
LEMMA FourBytes == ASSUME NEW p \in Seq(Tokens), NEW last \in Tokens
  PROVE  Len(p) = 3 =>
         /\ Append(p, last) \in Seq(Tokens) /\ Len(Append(p, last)) = 4
         /\ Append(p, last)[1] = p[1] /\ Append(p, last)[2] = p[2] /\ Append(p, last)[3] = p[3]
         /\ Append(p, last)[4] = last
<1>1. /\ Append(p, last) \in Seq(Tokens) /\ Len(Append(p, last)) = Len(p) + 1
      /\ Append(p, last)[Len(p) + 1] = last /\ \A i \in 1..Len(p) : Append(p, last)[i] = p[i]
  BY Grown
<1>2. 3 + 1 = 4 /\ 1 \in 1..3 /\ 2 \in 1..3 /\ 3 \in 1..3  OBVIOUS
<1> QED  BY <1>1, <1>2, Zenon

LEMMA JoinedIs == ASSUME NEW S, NEW s \in Seq(S), NEW u \in Seq(S)
  PROVE  /\ s \o u \in Seq(S) /\ Len(s \o u) = Len(s) + Len(u) /\ Len(s) \in Nat /\ Len(u) \in Nat
         /\ \A i \in 1..Len(s) : (s \o u)[i] = s[i]
         /\ \A i \in 1..Len(u) : (s \o u)[Len(s) + i] = u[i]
<1>1. Len(s) \in Nat /\ Len(u) \in Nat  BY LenProperties
<1>2. /\ s \o u \in Seq(S) /\ Len(s \o u) = Len(s) + Len(u)
      /\ \A i \in 1..Len(s) + Len(u) : (s \o u)[i] = IF i <= Len(s) THEN s[i] ELSE u[i - Len(s)]
  BY ConcatProperties
<1>3. ASSUME NEW i \in 1..Len(s)  PROVE (s \o u)[i] = s[i]
  <2>1. i \in 1..Len(s) + Len(u) /\ i <= Len(s)  BY <1>1
  <2> QED  BY <1>2, <2>1
<1>4. ASSUME NEW i \in 1..Len(u)  PROVE (s \o u)[Len(s) + i] = u[i]
  <2>1. /\ Len(s) + i \in 1..Len(s) + Len(u) /\ ~(Len(s) + i <= Len(s)) /\ Len(s) + i - Len(s) = i
    BY <1>1
  <2> QED  BY <1>2, <2>1
<1> QED  BY <1>1, <1>2, <1>3, <1>4

LEMMA JoinedThree == ASSUME NEW c \in Seq(Tokens), NEW q \in Seq(Tokens)
  PROVE  /\ Len(c) \in Nat /\ Len(q) \in Nat /\ Len(c \o <<ESC, "[">> \o q) = Len(c) + 2 + Len(q)
         /\ \A i \in 1..Len(c) : (c \o <<ESC, "[">> \o q)[i] = c[i]
         /\ (c \o <<ESC, "[">> \o q)[Len(c) + 1] = ESC /\ (c \o <<ESC, "[">> \o q)[Len(c) + 2] = "["
         /\ \A i \in 1..Len(q) : (c \o <<ESC, "[">> \o q)[Len(c) + 2 + i] = q[i]
<1> DEFINE z == <<ESC, "[">>
<1>1. z \in Seq(Tokens) /\ Len(z) = 2 /\ z[1] = ESC /\ z[2] = "["  BY TokenTypes DEF Finals
<1> HIDE DEF z
<1> DEFINE f == c \o z
<1>2. /\ f \in Seq(Tokens) /\ Len(f) = Len(c) + 2 /\ Len(c) \in Nat
      /\ \A i \in 1..Len(c) : f[i] = c[i]
      /\ f[Len(c) + 1] = ESC /\ f[Len(c) + 2] = "["
  <2>1. /\ f \in Seq(Tokens) /\ Len(f) = Len(c) + Len(z) /\ Len(c) \in Nat
        /\ \A i \in 1..Len(c) : f[i] = c[i]
        /\ \A i \in 1..Len(z) : f[Len(c) + i] = z[i]
    <3>1. z \in Seq(Tokens)  BY <1>1
    <3> QED  BY <3>1, JoinedIs
  <2> HIDE DEF f
  <2>2. 1 \in 1..2 /\ 2 \in 1..2  OBVIOUS
  <2> QED  BY <1>1, <2>1, <2>2, Zenon
<1> HIDE DEF f
<1> DEFINE g == f \o q
<1>3. /\ Len(g) = Len(f) + Len(q) /\ Len(q) \in Nat
      /\ \A i \in 1..Len(f) : g[i] = f[i]
      /\ \A i \in 1..Len(q) : g[Len(f) + i] = q[i]
  <2>1. f \in Seq(Tokens)  BY <1>2
  <2> QED  BY <2>1, JoinedIs
<1>4. c \o <<ESC, "[">> \o q = g  BY DEF z, f
<1> HIDE DEF g
<1>5. \A i \in 1..Len(c) + 2 : g[i] = f[i]  BY <1>2, <1>3
<1>6. Len(c) + 1 \in 1..Len(c) + 2 /\ Len(c) + 2 \in 1..Len(c) + 2 /\ \A i \in 1..Len(c) : i \in 1..Len(c) + 2
  BY <1>2
<1>7. /\ Len(g) = Len(c) + 2 + Len(q)
      /\ \A i \in 1..Len(c) : g[i] = c[i]
      /\ g[Len(c) + 1] = ESC /\ g[Len(c) + 2] = "["
      /\ \A i \in 1..Len(q) : g[Len(c) + 2 + i] = q[i]
  BY <1>2, <1>3, <1>5, <1>6, Zenon
<1> QED  BY <1>2, <1>3, <1>4, <1>7, Zenon

\* What was taken for a sequence in a pasted text goes to the text.
LEMMA TextResumes ==
  ASSUME NEW t \in Seq(Tokens), NEW c \in Seq(Tokens), NEW q \in Seq(Tokens), Len(q) = 4,
         \A i \in 1..Len(c) : c[i] = t[i],
         t[Len(c) + 1] = ESC, t[Len(c) + 2] = "[", \A i \in 1..4 : q[i] = t[Len(c) + 2 + i]
  PROVE  /\ Len(c \o <<ESC, "[">> \o q) = Len(c) + 6
         /\ \A i \in 1..Len(c) + 6 : (c \o <<ESC, "[">> \o q)[i] = t[i]
<1> DEFINE g == c \o <<ESC, "[">> \o q
<1>1. /\ Len(c) \in Nat /\ Len(g) = Len(c) + 2 + Len(q)
      /\ \A i \in 1..Len(c) : g[i] = c[i]
      /\ g[Len(c) + 1] = ESC /\ g[Len(c) + 2] = "["
      /\ \A i \in 1..Len(q) : g[Len(c) + 2 + i] = q[i]
  BY JoinedThree, Zenon
<1> HIDE DEF g
<1>2. Len(g) = Len(c) + 6
  <2>1. \A n \in Nat : n + 2 + 4 = n + 6  OBVIOUS
  <2> QED  BY <1>1, <2>1, Zenon
<1>3. ASSUME NEW i \in 1..Len(c) + 6  PROVE g[i] = t[i]
  <2>1. i \in 1..Len(c) \/ i = Len(c) + 1 \/ i = Len(c) + 2 \/ \E j \in 1..4 : i = Len(c) + 2 + j
    BY <1>1, SixMore, Zenon
  <2> QED  BY <1>1, <2>1, Zenon
<1> QED  BY <1>2, <1>3 DEF g

LEMMA BytesTaken == ASSUME NEW t \in Seq(Tokens), NEW k \in Nat, k + 5 <= Len(t)
  PROVE  /\ SubSeq(t, k + 2, k + 5) \in Seq(Tokens) /\ Len(SubSeq(t, k + 2, k + 5)) = 4
         /\ SubSeq(t, k + 2, k + 5)[1] = t[k + 2] /\ SubSeq(t, k + 2, k + 5)[2] = t[k + 3]
         /\ SubSeq(t, k + 2, k + 5)[3] = t[k + 4] /\ SubSeq(t, k + 2, k + 5)[4] = t[k + 5]
<1> DEFINE m == k + 2  n == k + 5  r == SubSeq(t, m, n)
<1>1. \A i \in m..n : t[i] \in Tokens
  <2> TAKE i \in m..n
  <2>1. i \in 1..Len(t)  BY LenProperties
  <2> QED  BY <2>1, ElementOfSeq
<1>2. m \in Int /\ n \in Int /\ m <= n /\ n - m + 1 = 4  OBVIOUS
<1> HIDE DEF m, n
<1>3. /\ r \in Seq(Tokens)
      /\ Len(r) = IF m <= n THEN n - m + 1 ELSE 0
      /\ \A i \in 1..n - m + 1 : r[i] = t[m + i - 1]
  BY <1>1, <1>2, SubSeqProperties
<1> HIDE DEF r
<1>4. m + 1 - 1 = k + 2 /\ m + 2 - 1 = k + 3 /\ m + 3 - 1 = k + 4 /\ m + 4 - 1 = k + 5  BY DEF m
<1>5. 1 \in 1..4 /\ 2 \in 1..4 /\ 3 \in 1..4 /\ 4 \in 1..4  OBVIOUS
<1>6. Len(r) = 4 /\ \A i \in 1..4 : r[i] = t[m + i - 1]  BY <1>2, <1>3, Zenon
<1>7. r[1] = t[k + 2] /\ r[2] = t[k + 3] /\ r[3] = t[k + 4] /\ r[4] = t[k + 5]
  <2>1. r[1] = t[m + 1 - 1] /\ r[2] = t[m + 2 - 1] /\ r[3] = t[m + 3 - 1] /\ r[4] = t[m + 4 - 1]
    BY <1>5, <1>6, Zenon
  <2> QED  BY <1>4, <2>1, Zenon
<1> QED  BY <1>3, <1>6, <1>7, Zenon DEF r, m, n

LEMMA PasteCsiIs == ASSUME NEW b, Len(params) \in Nat, PasteCsi(b)
  PROVE  /\ flying' = flying
         /\ Len(params) < 3 => /\ state' = "pasteCsi" /\ params' = Append(params, b.token)
                               /\ content' = content /\ effects' = effects
         /\ Len(params) = 3 /\ Append(params, b.token) = EndMarker =>
              state' = "ground" /\ params' = <<>> /\ effects' = Append(effects, Paste(content))
         /\ Len(params) = 3 /\ Append(params, b.token) # EndMarker =>
              /\ state' = "paste" /\ params' = <<>> /\ effects' = effects
              /\ content' = content \o <<ESC, "[">> \o Append(params, b.token)
<1> DEFINE n == Len(params)  q == Append(params, b.token)
<1>1. n < 3 => ~(n >= 3)  OBVIOUS
<1>2. n = 3 => n >= 3 /\ ~(n < 3)  OBVIOUS
<1>3. /\ CASE n < 3 -> Waits("pasteCsi", q) /\ UNCHANGED <<content, effects>>
            [] n >= 3 /\ q = EndMarker -> Finished /\ Done(Paste(content)) /\ UNCHANGED content
            [] n >= 3 /\ q # EndMarker ->
                 /\ Waits("paste", <<>>) /\ content' = content \o <<ESC, "[">> \o q
                 /\ UNCHANGED effects
      /\ flying' = flying
  BY DEF PasteCsi
<1> HIDE DEF n, q
<1>4. n < 3 => Waits("pasteCsi", q) /\ UNCHANGED <<content, effects>>  BY <1>1, <1>3
<1>5. n = 3 /\ q = EndMarker => Finished /\ Done(Paste(content))  BY <1>2, <1>3
<1>6. n = 3 /\ q # EndMarker => Waits("paste", <<>>) /\ content' = content \o <<ESC, "[">> \o q /\ UNCHANGED effects
  BY <1>2, <1>3
<1> QED  BY <1>3, <1>4, <1>5, <1>6 DEF n, q, Waits, Finished, Done

LEMMA PasteCsiReads ==
  ASSUME NEW x \in Keyboard, NEW m \in Nat, NEW b, x.effect.does = "paste", x.sends[1] = ESC, 6 + m < Len(x.sends),
         PasteRead(x, m, state, params, content), b.token = x.sends[7 + m], b.token \in Tokens,
         content \in Seq(Tokens), params \in Seq(Tokens),
         ~CutsMarker(x.effect.text), ~HasMarker(x.effect.text), PasteCsi(b)
  PROVE  Outcome(x, 7 + m, b)
<1> DEFINE t == x.effect.text  c == Len(content)
<1>0. t \in Seq(Tokens) /\ x.effect = Paste(t) /\ DOMAIN t = 1..Len(t) /\ Len(t) \in Nat
  BY PasteKeyIs, LenProperties
<1>1. /\ Len(x.sends) = 12 + Len(t)
      /\ \A i \in 1..Len(t) : x.sends[6 + i] = t[i]
      /\ x.sends[9 + Len(t)] = "2" /\ x.sends[10 + Len(t)] = "0"
      /\ x.sends[11 + Len(t)] = "1" /\ x.sends[12 + Len(t)] = "~"
  BY PasteTokens DEF Spells
<1>2. /\ Len(params) <= 3 /\ c + 2 + Len(params) = m /\ c <= Len(t) /\ SoFar(x, content, c)
      /\ x.sends[7 + c] = ESC /\ x.sends[8 + c] = "["
      /\ \A i \in 1..Len(params) : params[i] = x.sends[8 + c + i]
  BY DEF PasteCsi, PasteRead
<1>3. flying' = flying  BY DEF PasteCsi
<1>4. c \in Nat /\ Len(params) \in Nat  BY LenProperties
<1> HIDE DEF c, t
<1>7. c \in Nat /\ Len(t) \in Nat  BY <1>0, <1>4
<1>5. CASE Len(params) < 3
  <2>1. /\ state' = "pasteCsi" /\ params' = Append(params, b.token) /\ content' = content /\ effects' = effects
    BY <1>4, <1>5, PasteCsiIs
  <2>2. /\ Len(Append(params, b.token)) = Len(params) + 1
        /\ Append(params, b.token)[Len(params) + 1] = b.token
        /\ \A i \in 1..Len(params) : Append(params, b.token)[i] = params[i]
    BY Grown
  <2>3. b.token = x.sends[8 + c + (Len(params) + 1)]
    <3>1. 7 + m = 8 + c + (Len(params) + 1)  BY <1>2, <1>4
    <3> QED  BY <3>1
  <2>4. \A i \in 1..Len(params) + 1 : Append(params, b.token)[i] = x.sends[8 + c + i]
    <3>1. \A i \in 1..Len(params) + 1 : i \in 1..Len(params) \/ i = Len(params) + 1  BY <1>4
    <3> QED  BY <1>2, <2>2, <2>3, <3>1
  <2>5. /\ Len(params') <= 3 /\ c + 2 + Len(params') = m + 1 /\ Len(params') = Len(params) + 1
    BY <1>2, <1>4, <1>5, <2>1, <2>2
  <2>6. \A i \in 1..Len(params') : params'[i] = x.sends[8 + c + i]
    BY <2>1, <2>4, <2>5
  <2>7. PasteRead(x, m + 1, state', params', content')
    BY <1>2, <2>1, <2>5, <2>6 DEF PasteRead, c, t
  <2>8. m + 1 < 6 + Len(t)  BY <1>0, <1>2, <1>4, <1>5
  <2>9. 7 + m >= 6 /\ 7 + m - 6 = m + 1 /\ 7 + m < Len(x.sends)  BY <1>0, <1>1, <2>8
  <2>10. TokensRead(x, 7 + m, state', params', content')
    BY <2>7, <2>9 DEF TokensRead
  <2> QED  BY <1>3, <2>1, <2>10 DEF Outcome
<1>6. CASE Len(params) = 3
  <2> DEFINE q == Append(params, b.token)
  <2>1. /\ q \in Seq(Tokens) /\ Len(q) = 4 /\ q[1] = params[1] /\ q[2] = params[2] /\ q[3] = params[3]
        /\ q[4] = b.token
    BY <1>6, FourBytes
  <2>2. m = c + 5  BY <1>2, <1>4, <1>6
  <2>3. b.token = x.sends[12 + c]
    <3>1. 7 + m = 12 + c  BY <1>4, <2>2
    <3> QED  BY <3>1
  <2>4. params[1] = x.sends[9 + c] /\ params[2] = x.sends[10 + c] /\ params[3] = x.sends[11 + c]
    <3>1. 8 + c + 1 = 9 + c /\ 8 + c + 2 = 10 + c /\ 8 + c + 3 = 11 + c  BY <1>4
    <3>2. 1 \in 1..Len(params) /\ 2 \in 1..Len(params) /\ 3 \in 1..Len(params)  BY <1>6
    <3> QED  BY <1>2, <3>1, <3>2
  <2> HIDE DEF q
  <2>5. CASE c = Len(t)
    <3>1. q = EndMarker  BY <1>1, <2>1, <2>3, <2>4, <2>5, MarkerIs
    <3>2. state' = "ground" /\ params' = <<>> /\ effects' = Append(effects, Paste(content))
      BY <1>4, <1>6, <3>1, PasteCsiIs DEF q
    <3>3. content = t
      <4>1. Len(content) = Len(t) /\ \A i \in 1..Len(content) : content[i] = t[i]
        BY <1>2, <2>5 DEF SoFar, c, t
      <4> QED  BY <1>0, <4>1, SeqEqual
    <3>4. 7 + m = Len(x.sends)  BY <1>0, <1>1, <2>2, <2>5
    <3> QED  BY <1>0, <1>3, <3>2, <3>3, <3>4 DEF Outcome
  <2>6. CASE c < Len(t)
    <3>1. c + 1 \in 1..Len(t) /\ t[c + 1] = ESC
      <4>1. c + 1 \in 1..Len(t) /\ 6 + (c + 1) = 7 + c  BY <1>0, <1>4, <2>6
      <4> QED  BY <1>1, <1>2, <4>1
    <3>2. ~CutsMarker(t) /\ ~HasMarker(t)  BY DEF t
    <3>3. c + 1 # Len(t)
      BY <1>0, <3>1, <3>2 DEF CutsMarker
    <3>4. c + 2 \in 1..Len(t) /\ c + 1 + 1 = c + 2 /\ 6 + (c + 2) = 8 + c
      <4>1. c + 1 \in 1..Len(t)  BY <3>1
      <4> QED  BY <1>7, <3>3, <4>1
    <3>5. t[c + 2] = "["  BY <1>1, <1>2, <3>4
    <3>6. c + 6 <= Len(t)
      <4>1. ~(c + 1 + 5 > Len(t))
        BY <1>0, <3>1, <3>2, <3>4, <3>5 DEF CutsMarker
      <4> QED  BY <1>0, <1>4, <4>1
    <3>7. q[1] = t[c + 3] /\ q[2] = t[c + 4] /\ q[3] = t[c + 5] /\ q[4] = t[c + 6]
      <4>1. /\ c + 3 \in 1..Len(t) /\ c + 4 \in 1..Len(t) /\ c + 5 \in 1..Len(t) /\ c + 6 \in 1..Len(t)
            /\ 6 + (c + 3) = 9 + c /\ 6 + (c + 4) = 10 + c /\ 6 + (c + 5) = 11 + c /\ 6 + (c + 6) = 12 + c
        BY <1>7, <3>6, FourPlaces, Zenon
      <4>2. t[c + 3] = x.sends[9 + c] /\ t[c + 4] = x.sends[10 + c] /\ t[c + 5] = x.sends[11 + c] /\ t[c + 6] = x.sends[12 + c]
        BY <1>1, <4>1
      <4> QED  BY <2>1, <2>3, <2>4, <4>2
    <3>8. q # EndMarker
      <4> SUFFICES ASSUME q = EndMarker  PROVE FALSE  OBVIOUS
      <4>1. t[c + 3] = "2" /\ t[c + 4] = "0" /\ t[c + 5] = "1" /\ t[c + 6] = "~"
        BY <2>1, <3>7, MarkerIs
      <4>2. c + 1 \in Nat /\ c + 1 + 5 <= Len(t) /\ c + 1 \in 1..Len(t) - 5 /\ c + 1 + 2 = c + 3
            /\ c + 1 + 3 = c + 4 /\ c + 1 + 4 = c + 5 /\ c + 1 + 5 = c + 6
        BY <1>7, <3>6
      <4> DEFINE k == c + 1  r == SubSeq(t, k + 2, k + 5)
      <4>3. /\ r \in Seq(Tokens) /\ Len(r) = 4
            /\ r[1] = t[k + 2] /\ r[2] = t[k + 3] /\ r[3] = t[k + 4] /\ r[4] = t[k + 5]
        BY <1>0, <4>2, BytesTaken
      <4>4. r[1] = "2" /\ r[2] = "0" /\ r[3] = "1" /\ r[4] = "~"  BY <4>1, <4>2, <4>3
      <4> HIDE DEF r
      <4>5. r = EndMarker  BY <4>3, <4>4, MarkerIs
      <4> QED  BY <3>1, <3>2, <3>4, <3>5, <4>2, <4>5 DEF HasMarker, r
    <3>9. state' = "paste" /\ params' = <<>> /\ effects' = effects /\ content' = content \o <<ESC, "[">> \o q
      BY <1>4, <1>6, <3>8, PasteCsiIs DEF q
    <3>10. \A i \in 1..4 : q[i] = t[c + 2 + i]
      <4>1. \A i \in 1..4 : i = 1 \/ i = 2 \/ i = 3 \/ i = 4  OBVIOUS
      <4>2. c + 2 + 1 = c + 3 /\ c + 2 + 2 = c + 4 /\ c + 2 + 3 = c + 5 /\ c + 2 + 4 = c + 6  BY <1>4
      <4> QED  BY <3>7, <4>1, <4>2
    <3>11. \A i \in 1..c : content[i] = t[i]  BY <1>2 DEF SoFar, t
    <3>12. Len(content') = c + 6 /\ \A i \in 1..c + 6 : content'[i] = t[i]
      BY <1>0, <2>1, <3>1, <3>5, <3>6, <3>9, <3>10, <3>11, TextResumes DEF c
    <3>13. SoFar(x, content', m + 1) /\ m + 1 <= Len(x.effect.text)
      <4>1. m + 1 = c + 6  BY <1>4, <2>2
      <4> QED  BY <3>6, <3>12, <4>1 DEF SoFar, t
    <3>14. PasteRead(x, m + 1, state', params', content')
      BY <3>9, <3>13 DEF PasteRead
    <3>15. 7 + m >= 6 /\ 7 + m - 6 = m + 1 /\ 7 + m < Len(x.sends)  BY <1>0, <1>1, <1>4, <2>2, <3>6
    <3>16. TokensRead(x, 7 + m, state', params', content')
      BY <3>14, <3>15 DEF TokensRead
    <3> QED  BY <1>3, <3>9, <3>16 DEF Outcome
  <2>7. c <= Len(t)  BY <1>2 DEF t
  <2>8. c = Len(t) \/ c < Len(t)  BY <1>7, <2>7
  <2> QED  BY <2>5, <2>6, <2>8
<1>8. Len(params) < 3 \/ Len(params) = 3
  <2>1. Len(params) <= 3 /\ Len(params) \in Nat  BY <1>2, <1>4
  <2> QED  BY <2>1, UpToThree, Zenon
<1> QED  BY <1>5, <1>6, <1>8


LEMMA StateOf ==
  ASSUME NEW x, NEW n \in Nat, NEW s, NEW p, NEW c, TokensRead(x, n, s, p, c)
  PROVE  /\ x.sends[1] = ESC /\ s # "ground" /\ n <= Len(x.sends) /\ n >= 1
         /\ s = "escape" => n = 1
         /\ s # "escape" => n < Len(x.sends)
         /\ s = "ss3" => n = 2 /\ x.sends[2] = "O"
         /\ s = "csi" => x.sends[2] = "[" /\ CsiRead(x, n, p)
         /\ s \in {"paste", "pasteEscape", "pasteCsi"} => n >= 6 /\ x.effect.does = "paste" /\ PasteRead(x, n - 6, s, p, c)
<1>1. PasteRead(x, n - 6, s, p, c) => s \in {"paste", "pasteEscape", "pasteCsi"}
  BY DEF PasteRead
<1>2. CsiRead(x, n, p) => n >= 1
  BY DEF CsiRead
<1> QED  BY <1>1, <1>2 DEF TokensRead

Handles(b) ==
  \/ Ground(b) \/ Escape(b) \/ Ss3(b)
  \/ CsiParameter(b) \/ CsiPaste(b) \/ CsiControl(b) \/ CsiKey(b)
  \/ PasteText(b) \/ PasteEscape(b) \/ PasteCsi(b)

LEMMA KeyReads ==
  ASSUME NEW x \in Keyboard, NEW n \in Nat, n < Len(x.sends), NEW b, b.token = x.sends[n + 1], b.token \in Tokens,
         content \in Seq(Tokens), params \in Seq(Tokens),
         ~CutsMarker(x.effect.text), ~HasMarker(x.effect.text), Handles(b),
         (n = 0 /\ state = "ground") \/ TokensRead(x, n, state, params, content)
  PROVE  Outcome(x, n + 1, b)
<1>1. CASE Ground(b)
  <2>1. n = 0  BY <1>1, StateOf DEF Ground
  <2> QED  BY <1>1, <2>1, GroundReads
<1>2. state # "ground" => TokensRead(x, n, state, params, content)  OBVIOUS
<1>3. CASE Escape(b)
  <2>1. state = "escape"  BY <1>3 DEF Escape
  <2>2. n = 1 /\ x.sends[1] = ESC  BY <1>2, <2>1, StateOf
  <2>3. 1 + 1 = 2  OBVIOUS
  <2> QED  BY <1>3, <2>2, <2>3, EscapeReads
<1>4. CASE Ss3(b)
  <2>1. state = "ss3"  BY <1>4 DEF Ss3
  <2>2. n = 2 /\ x.sends[1] = ESC /\ x.sends[2] = "O"  BY <1>2, <2>1, StateOf
  <2>3. 2 + 1 = 3  OBVIOUS
  <2> QED  BY <1>4, <2>2, <2>3, Ss3Reads
<1>5. CASE CsiParameter(b) \/ CsiPaste(b) \/ CsiControl(b) \/ CsiKey(b)
  <2>1. state = "csi"  BY <1>5 DEF CsiParameter, CsiPaste, CsiControl, CsiKey
  <2>2. x.sends[1] = ESC /\ x.sends[2] = "[" /\ CsiRead(x, n, params)  BY <1>2, <2>1, StateOf
  <2> QED  BY <1>5, <2>2, CsiParameterReads, CsiPasteReads, CsiControlReads, CsiKeyReads
<1>6. CASE PasteText(b) \/ PasteEscape(b) \/ PasteCsi(b)
  <2>1. state \in {"paste", "pasteEscape", "pasteCsi"}  BY <1>6 DEF PasteText, PasteEscape, PasteCsi
  <2>2. x.sends[1] = ESC /\ n >= 6 /\ x.effect.does = "paste" /\ PasteRead(x, n - 6, state, params, content)
    BY <1>2, <2>1, StateOf
  <2>3. n - 6 \in Nat /\ 6 + (n - 6) = n /\ 7 + (n - 6) = n + 1  BY <2>2
  <2> DEFINE m == n - 6
  <2>4. m \in Nat /\ 6 + m < Len(x.sends) /\ b.token = x.sends[7 + m] /\ PasteRead(x, m, state, params, content)
        /\ 7 + m = n + 1
    BY <2>2, <2>3
  <2> HIDE DEF m
  <2>5. Outcome(x, 7 + m, b)
    BY <1>6, <2>2, <2>4, PasteTextReads, PasteEscapeReads, PasteCsiReads
  <2> QED  BY <2>4, <2>5
<1> QED  BY <1>1, <1>3, <1>4, <1>5, <1>6 DEF Handles

(* Runs of tokens on their way *)

LEMMA FromIs == ASSUME NEW keys, NEW p, NEW e, NEW s, RunOf(keys, p, s, e)
  PROVE  From(s, e) = p
BY DEF RunOf, From

LEMMA RestTaken ==
  ASSUME NEW keys, NEW p, NEW ch \in Seq(Bytes), ch # <<>>, NEW w, RestOf(keys, p, ch, w)
  PROVE  Pos(Head(ch)) = p /\ Sent(keys, Head(ch)) /\ RestOf(keys, After(keys, p), Tail(ch), w)
BY RunTaken DEF RestOf

LEMMA RestMoves ==
  ASSUME NEW keys, NEW p, NEW ch \in Seq(Bytes), NEW w \in Seq(Bytes), w # <<>>, RestOf(keys, p, ch, w)
  PROVE  RestOf(keys, p, Append(ch, Head(w)), Tail(w))
<1> DEFINE e == WireEnd(keys)  x == Head(w)
<1>1. RunOf(keys, p, ch, From(w, e)) /\ RunOf(keys, From(w, e), w, e)  BY DEF RestOf
<1>2. x \in Bytes /\ x = w[1]  BY Shortened
<1>3. From(w, e) = Pos(x)  BY <1>2 DEF From
<1> HIDE DEF e, x
<1>4. Sent(keys, x) /\ RunOf(keys, After(keys, Pos(x)), Tail(w), e)
  BY <1>1, <1>3, RunTaken DEF x
<1>5. RunOf(keys, p, Append(ch, x), After(keys, Pos(x)))
  BY <1>1, <1>2, <1>3, <1>4, RunExtended
<1>6. From(Tail(w), e) = After(keys, Pos(x))
  BY <1>4, FromIs
<1> QED  BY <1>4, <1>5, <1>6 DEF RestOf, e, x

LEMMA KeyKept == ASSUME NEW keys \in Seq(Keyboard), NEW k \in Keyboard
  PROVE  /\ Append(keys, k) \in Seq(Keyboard) /\ Len(Append(keys, k)) = Len(keys) + 1 /\ Len(keys) \in Nat
         /\ DOMAIN keys = 1..Len(keys) /\ DOMAIN Append(keys, k) = 1..Len(keys) + 1
         /\ Append(keys, k)[Len(keys) + 1] = k
         /\ \A i \in 1..Len(keys) : Append(keys, k)[i] = keys[i] /\ i \in 1..Len(keys) + 1
<1>1. Len(keys) \in Nat  BY LenProperties
<1>2. \A i \in 1..Len(keys) : i \in 1..Len(keys) + 1  BY <1>1
<1> QED  BY <1>1, <1>2, Grown

LEMMA RunGrows ==
  ASSUME NEW keys \in Seq(Keyboard), NEW k \in Keyboard, NEW p, NEW e, NEW s \in Seq(Bytes), RunOf(keys, p, s, e)
  PROVE  RunOf(Append(keys, k), p, s, e)
<1> DEFINE more == Append(keys, k)
<1>1. \A i \in DOMAIN keys : more[i] = keys[i] /\ i \in DOMAIN more  BY KeyKept
<1> HIDE DEF more
<1>2. \A b : Sent(keys, b) => Sent(more, b) /\ After(more, Pos(b)) = After(keys, Pos(b))
  <2> TAKE b
  <2> HAVE Sent(keys, b)
  <2>1. more[b.key] = keys[b.key] /\ b.key \in DOMAIN more  BY <1>1 DEF Sent
  <2>2. Pos(b)[1] = b.key  BY DEF Pos
  <2> QED  BY <2>1, <2>2 DEF Sent, After
<1>3. DOMAIN s = 1..Len(s) /\ Len(s) \in Nat /\ (s # <<>> => Len(s) >= 1)  BY LenProperties, EmptySeq
<1>4. \A i \in DOMAIN s : Sent(more, s[i]) /\ After(more, Pos(s[i])) = After(keys, Pos(s[i]))
  BY <1>2 DEF RunOf
<1>5. s # <<>> => Len(s) \in DOMAIN s  BY <1>3
<1>6. \A i \in 1..Len(s) - 1 : i \in DOMAIN s  BY <1>3
<1>7. RunOf(more, p, s, e)
  <2>1. s = <<>> => p = e  BY DEF RunOf
  <2>2. s # <<>> => Pos(s[1]) = p /\ After(more, Pos(s[Len(s)])) = e  BY <1>4, <1>5 DEF RunOf
  <2>3. \A i \in 1..Len(s) - 1 : Pos(s[i + 1]) = After(more, Pos(s[i]))  BY <1>4, <1>6 DEF RunOf
  <2> QED  BY <1>4, <2>1, <2>2, <2>3 DEF RunOf
<1> QED  BY <1>7 DEF more

NewBytes(k, key) == [i \in DOMAIN k.sends |-> [token |-> k.sends[i], key |-> key, nth |-> i]]

LEMMA NewRun ==
  ASSUME NEW keys \in Seq(Keyboard), NEW k \in Keyboard
  PROVE  /\ NewBytes(k, Len(keys) + 1) \in Seq(Bytes)
         /\ \A i \in DOMAIN NewBytes(k, Len(keys) + 1) : NewBytes(k, Len(keys) + 1)[i].key = Len(keys) + 1
         /\ RunOf(Append(keys, k), WireEnd(keys), NewBytes(k, Len(keys) + 1), WireEnd(Append(keys, k)))
<1> DEFINE more == Append(keys, k)  N == Len(keys) + 1  q == NewBytes(k, N)  L == Len(k.sends)
<1>1. k.sends \in Seq(Tokens) /\ L \in Nat /\ L >= 1  BY KeyTypes
<1>2. DOMAIN k.sends = 1..L /\ \A i \in 1..L : k.sends[i] \in Tokens  BY <1>1, LenProperties, ElementOfSeq
<1>3. N \in Nat /\ Len(more) = N /\ more[N] = k /\ DOMAIN more = 1..N /\ N \in 1..N  BY KeyKept
<1>4. WireEnd(keys) = <<N, 1>> /\ WireEnd(more) = <<N + 1, 1>>  BY <1>3 DEF WireEnd
<1> HIDE DEF more, N
<1>5. q = [i \in 1..L |-> [token |-> k.sends[i], key |-> N, nth |-> i]]  BY <1>2 DEF NewBytes
<1>6. \A i \in 1..L : /\ q[i] = [token |-> k.sends[i], key |-> N, nth |-> i] /\ q[i] \in Bytes
                       /\ q[i].token = k.sends[i] /\ q[i].key = N /\ q[i].nth = i
  BY <1>2, <1>3, <1>5 DEF Bytes
<1>7. q \in [1..L -> Bytes] /\ DOMAIN q = 1..L  BY <1>5, <1>6
<1> HIDE DEF q
<1>8. q \in Seq(Bytes) /\ Len(q) = L
  <2>1. q \in Seq(Bytes)  BY <1>1, <1>7, SeqDef
  <2>2. DOMAIN q = 1..Len(q) /\ Len(q) \in Nat  BY <2>1, LenProperties
  <2> QED  BY <1>1, <1>7, <2>1, <2>2
<1> HIDE DEF L
<1>9. \A i \in 1..L : Pos(q[i]) = <<N, i>>  BY <1>6 DEF Pos
<1>10. \A i \in 1..L : Sent(more, q[i])
  <2> TAKE i \in 1..L
  <2>1. q[i].key = N /\ q[i].nth = i /\ q[i].token = k.sends[i]  BY <1>6
  <2>2. more[N] = k /\ N \in DOMAIN more  BY <1>3
  <2>3. i \in DOMAIN k.sends  BY <1>2
  <2> QED  BY <2>1, <2>2, <2>3, Zenon DEF Sent
<1>11. \A i \in 1..L - 1 : After(more, <<N, i>>) = <<N, i + 1>>
  <2> TAKE i \in 1..L - 1
  <2>1. i < Len(more[N].sends)  BY <1>1, <1>3 DEF L
  <2> QED  BY <2>1, PlaceIs
<1>12. After(more, <<N, L>>) = <<N + 1, 1>>
  <2>1. ~(L < Len(more[N].sends))  BY <1>1, <1>3 DEF L
  <2> QED  BY <2>1, PlaceIs
<1>13. RunOf(more, <<N, 1>>, q, <<N + 1, 1>>)
  <2>1. q # <<>>  BY <1>1, <1>8
  <2>2. 1 \in 1..L /\ L \in 1..L /\ \A i \in 1..L - 1 : i \in 1..L /\ i + 1 \in 1..L  BY <1>1
  <2>3. Pos(q[1]) = <<N, 1>> /\ After(more, Pos(q[Len(q)])) = <<N + 1, 1>>  BY <1>8, <1>9, <1>12, <2>2
  <2>4. \A i \in 1..L - 1 : Pos(q[i + 1]) = After(more, Pos(q[i]))  BY <1>9, <1>11, <2>2
  <2> QED  BY <1>7, <1>8, <1>10, <2>1, <2>3, <2>4, Zenon DEF RunOf
<1> QED  BY <1>4, <1>6, <1>7, <1>8, <1>13 DEF more, N, q

LEMMA RestPressed ==
  ASSUME NEW keys \in Seq(Keyboard), NEW k \in Keyboard, NEW p, NEW ch \in Seq(Bytes), NEW w \in Seq(Bytes),
         RestOf(keys, p, ch, w)
  PROVE  RestOf(Append(keys, k), p, ch, w \o NewBytes(k, Len(keys) + 1))
<1> DEFINE more == Append(keys, k)  q == NewBytes(k, Len(keys) + 1)  e == WireEnd(keys)  z == WireEnd(more)
<1>1. RunOf(keys, p, ch, From(w, e)) /\ RunOf(keys, From(w, e), w, e)  BY DEF RestOf
<1>2. RunOf(more, p, ch, From(w, e)) /\ RunOf(more, From(w, e), w, e)  BY <1>1, RunGrows
<1>3. q \in Seq(Bytes) /\ RunOf(more, e, q, z)  BY NewRun
<1> HIDE DEF more, q, e, z
<1>4. RunOf(more, From(w, e), w \o q, z)  BY <1>2, <1>3, RunJoined
<1>5. From(w \o q, z) = From(w, e)  BY <1>4, FromIs
<1> QED  BY <1>2, <1>4, <1>5 DEF RestOf, more, q, z


(* The invariant *)

LEMMA TypesHandled ==
  ASSUME KeysTypes, NEW b \in Bytes, b.key \in DOMAIN pressed, Handles(b)
  PROVE  /\ flying' \subseteq DOMAIN pressed /\ state' \in States
         /\ params' \in Seq(Tokens) /\ content' \in Seq(Tokens) /\ effects' \in Seq(Effects)
         /\ params' # <<>> => state' \in {"csi", "pasteCsi"}
         /\ state' = "pasteCsi" => Len(params') <= 3
<1>1. b.token \in Tokens  BY DEF Bytes
<1>2. /\ params \in Seq(Tokens) /\ content \in Seq(Tokens) /\ effects \in Seq(Effects)
      /\ flying \subseteq DOMAIN pressed /\ (state = "pasteCsi" => Len(params) <= 3)
  BY DEF KeysTypes
<1>3. /\ <<>> \in Seq(Tokens) /\ Append(params, b.token) \in Seq(Tokens) /\ Append(content, b.token) \in Seq(Tokens)
      /\ Len(params) \in Nat /\ Len(Append(params, b.token)) = Len(params) + 1
  BY <1>1, <1>2, Grown
<1>4. \A e \in Effects : Append(effects, e) \in Seq(Effects)  BY <1>2, Grown
<1>5. {"ground", "escape", "ss3", "csi", "paste", "pasteEscape", "pasteCsi"} = States  BY DEF States
<1>6. CASE Ground(b)
  <2>1. content' = content /\ flying' = flying /\ params' = <<>> /\ state' \in {"ground", "escape"}
    BY <1>6 DEF Ground, Waits, Finished
  <2>2. effects' \in Seq(Effects)
    <3>1. CASE b.token = ESC  BY <1>2, <1>6, <3>1 DEF Ground
    <3>2. CASE b.token # ESC
      <4>1. Done(CASE b.token = CR -> Do("enter") [] b.token = CtrlA -> Do("home")
                   [] b.token \notin {CR, CtrlA} -> InsertText(b.token))
        BY <1>6, <3>2 DEF Ground
      <4>2. CR # CtrlA  BY DEF CR, CtrlA
      <4>3. (CASE b.token = CR -> Do("enter") [] b.token = CtrlA -> Do("home")
                [] b.token \notin {CR, CtrlA} -> InsertText(b.token)) \in {Do("enter"), Do("home"), InsertText(b.token)}
        <5>1. CASE b.token = CR  BY <4>2, <5>1
        <5>2. CASE b.token = CtrlA  BY <4>2, <5>2
        <5>3. CASE b.token \notin {CR, CtrlA}  BY <5>3
        <5> QED  BY <5>1, <5>2, <5>3
      <4>4. \A e \in {Do("enter"), Do("home"), InsertText(b.token)} : e \in Effects  BY <1>1, EffectTypes
      <4> QED  BY <1>4, <4>1, <4>3, <4>4, Zenon DEF Done
    <3> QED  BY <3>1, <3>2
  <2> QED  BY <1>2, <1>3, <1>5, <2>1, <2>2
<1>7. CASE Escape(b)
  <2>1. content' = content /\ flying' = flying  BY <1>7 DEF Escape
  <2>2. CASE b.token = "["
    <3>1. state' = "csi" /\ params' = <<>> /\ effects' = effects  BY <1>7, <2>2 DEF Escape, Waits, CR, ESC
    <3> QED  BY <1>2, <1>3, <1>5, <2>1, <3>1
  <2>3. CASE b.token = "O"
    <3>1. state' = "ss3" /\ params' = <<>> /\ effects' = effects  BY <1>7, <2>3 DEF Escape, Waits, CR, ESC
    <3> QED  BY <1>2, <1>3, <1>5, <2>1, <3>1
  <2>4. CASE b.token = CR
    <3>1. state' = "ground" /\ params' = <<>> /\ effects' = Append(effects, InsertText("newline"))
      BY <1>7, <2>4 DEF Escape, Finished, Waits, Done, CR, ESC
    <3> QED  BY <1>2, <1>3, <1>4, <1>5, <2>1, <3>1, EffectTypes
  <2>5. CASE b.token = ESC
    <3>1. state' = "ground" /\ params' = <<>> /\ effects' = effects \o <<Do("escape"), Do("escape")>>
      BY <1>7, <2>5 DEF Escape, Finished, Waits, CR, ESC
    <3>2. <<Do("escape"), Do("escape")>> \in Seq(Effects)
      <4>1. \A e \in Effects : <<e, e>> \in Seq(Effects)  OBVIOUS
      <4> QED  BY <4>1, EffectTypes
    <3>3. effects' \in Seq(Effects)  BY <1>2, <3>1, <3>2, ConcatProperties
    <3> QED  BY <1>2, <1>3, <1>5, <2>1, <3>1, <3>3
  <2>6. CASE b.token \notin {"[", "O", CR, ESC}
    <3>1. state' = "ground" /\ params' = <<>> /\ effects' = Append(effects, Do("escape"))
      BY <1>7, <2>6 DEF Escape, Finished, Waits, Done
    <3> QED  BY <1>2, <1>3, <1>4, <1>5, <2>1, <3>1, EffectTypes
  <2> QED  BY <2>2, <2>3, <2>4, <2>5, <2>6
<1>8. CASE Ss3(b)
  <2>1. /\ content' = content /\ flying' = flying /\ state' = "ground" /\ params' = <<>>
        /\ effects' = Append(effects, NavKey(b.token))
    BY <1>8 DEF Ss3, Finished, Waits, Done
  <2>2. NavKey(b.token) \in Effects  BY EffectTypes DEF NavKey
  <2> QED  BY <1>2, <1>3, <1>4, <1>5, <2>1, <2>2
<1>9. CASE CsiParameter(b)
  <2>1. state' = "csi" /\ params' = Append(params, b.token) /\ UNCHANGED <<content, flying, effects>>
    BY <1>9 DEF CsiParameter, Waits, Stays
  <2> QED  BY <1>2, <1>3, <1>5, <2>1
<1>10. CASE CsiPaste(b)
  <2>1. state' = "paste" /\ params' = <<>> /\ content' = <<>> /\ UNCHANGED <<flying, effects>>
    BY <1>10 DEF CsiPaste, Waits
  <2> QED  BY <1>2, <1>3, <1>5, <2>1
<1>11. CASE CsiControl(b)
  <2>1. state' = "ground" /\ params' = <<>> /\ flying' = flying \cup {b.key} /\ UNCHANGED <<content, effects>>
    BY <1>11 DEF CsiControl, Finished, Waits
  <2>2. flying' \subseteq DOMAIN pressed  BY <1>2, <2>1
  <2> QED  BY <1>2, <1>3, <1>5, <2>1, <2>2
<1>12. CASE CsiKey(b)
  <2>1. /\ state' = "ground" /\ params' = <<>> /\ UNCHANGED <<content, flying>>
        /\ \E e \in {Do("delete"), InsertText("x"), NavKey(b.token), Do("nothing")} : effects' = Append(effects, e)
    BY <1>12 DEF CsiKey, Finished, Waits, Done
  <2>2. \A e \in {Do("delete"), InsertText("x"), NavKey(b.token), Do("nothing")} : e \in Effects
    BY EffectTypes DEF NavKey
  <2>3. effects' \in Seq(Effects)  BY <1>4, <2>1, <2>2
  <2> QED  BY <1>2, <1>3, <1>5, <2>1, <2>3
<1>13. CASE PasteText(b)
  <2>1. /\ state' \in {"paste", "pasteEscape"} /\ params' = <<>> /\ UNCHANGED <<flying, effects>>
        /\ content' = content \/ content' = Append(content, b.token)
    BY <1>13 DEF PasteText, Waits
  <2> QED  BY <1>2, <1>3, <1>5, <2>1
<1>14. CASE PasteEscape(b)
  <2>1. /\ state' \in {"paste", "pasteCsi"} /\ params' = <<>> /\ UNCHANGED <<flying, effects>>
        /\ content' = content \/ content' = content \o <<ESC, b.token>>
    BY <1>14 DEF PasteEscape, Waits
  <2>2. content \o <<ESC, b.token>> \in Seq(Tokens)
    <3>1. <<ESC, b.token>> \in Seq(Tokens)  BY <1>1, TokenTypes
    <3> QED  BY <1>2, <3>1, ConcatProperties
  <2>3. Len(<<>>) <= 3  OBVIOUS
  <2> QED  BY <1>2, <1>3, <1>5, <2>1, <2>2, <2>3
<1>15. CASE PasteCsi(b)
  <2>0. state = "pasteCsi"  BY <1>15 DEF PasteCsi
  <2>1. Len(params) < 3 \/ Len(params) = 3  BY <1>2, <1>3, <2>0, UpToThree, Zenon
  <2>2. CASE Len(params) < 3
    <3>1. /\ state' = "pasteCsi" /\ params' = Append(params, b.token) /\ UNCHANGED <<content, effects, flying>>
      BY <1>3, <1>15, <2>2, PasteCsiIs
    <3>2. Len(params') <= 3  BY <1>3, <2>2, <3>1
    <3> QED  BY <1>2, <1>3, <1>5, <3>1, <3>2
  <2>3. CASE Len(params) = 3 /\ Append(params, b.token) = EndMarker
    <3>1. state' = "ground" /\ params' = <<>> /\ effects' = Append(effects, Paste(content)) /\ flying' = flying
      BY <1>3, <1>15, <2>3, PasteCsiIs
    <3>2. content' = content  BY <1>15, <2>3 DEF PasteCsi
    <3>3. Paste(content) \in Effects  BY <1>2, EffectTypes
    <3> QED  BY <1>2, <1>3, <1>4, <1>5, <3>1, <3>2, <3>3
  <2>4. CASE Len(params) = 3 /\ Append(params, b.token) # EndMarker
    <3>1. /\ state' = "paste" /\ params' = <<>> /\ UNCHANGED <<effects, flying>>
          /\ content' = content \o <<ESC, "[">> \o Append(params, b.token)
      BY <1>3, <1>15, <2>4, PasteCsiIs
    <3>2. <<ESC, "[">> \in Seq(Tokens)  BY TokenTypes DEF Finals
    <3>3. content \o <<ESC, "[">> \in Seq(Tokens)  BY <1>2, <3>2, ConcatProperties
    <3>4. content' \in Seq(Tokens)  BY <1>3, <3>1, <3>3, ConcatProperties
    <3> QED  BY <1>2, <1>3, <1>5, <3>1, <3>4
  <2> QED  BY <2>1, <2>2, <2>3, <2>4
<1> QED  BY <1>6, <1>7, <1>8, <1>9, <1>10, <1>11, <1>12, <1>13, <1>14, <1>15 DEF Handles


LEMMA TailAppended == ASSUME NEW S, NEW s \in Seq(S), NEW x \in S, s # <<>>
  PROVE  /\ Append(s, x) # <<>> /\ Head(Append(s, x)) = Head(s)
         /\ Tail(Append(s, x)) = Append(Tail(s), x)
<1> DEFINE u == Append(s, x)  v == Append(Tail(s), x)
<1>1. /\ u \in Seq(S) /\ u # <<>> /\ Len(u) = Len(s) + 1 /\ Len(s) \in Nat /\ Len(s) >= 1
      /\ u[Len(s) + 1] = x /\ \A i \in 1..Len(s) : u[i] = s[i]
  BY Grown
<1>2. /\ Tail(s) \in Seq(S) /\ Len(Tail(s)) = Len(s) - 1 /\ Head(s) = s[1]
      /\ \A i \in 1..Len(s) - 1 : Tail(s)[i] = s[i + 1]
  BY Shortened
<1>3. /\ v \in Seq(S) /\ Len(v) = Len(Tail(s)) + 1
      /\ v[Len(Tail(s)) + 1] = x /\ \A i \in 1..Len(Tail(s)) : v[i] = Tail(s)[i]
  BY <1>2, Grown
<1> HIDE DEF u, v
<1>4. /\ Tail(u) \in Seq(S) /\ Len(Tail(u)) = Len(u) - 1 /\ Head(u) = u[1]
      /\ \A i \in 1..Len(u) - 1 : Tail(u)[i] = u[i + 1]
  BY <1>1, Shortened
<1>5. Len(Tail(u)) = Len(s) /\ Len(v) = Len(s)  BY <1>1, <1>2, <1>3, <1>4
<1>6. ASSUME NEW i \in 1..Len(s)  PROVE Tail(u)[i] = v[i]
  <2>1. CASE i = Len(s)
    <3>1. Tail(u)[i] = x  BY <1>1, <1>4, <2>1
    <3>2. v[i] = x  BY <1>1, <1>2, <1>3, <2>1
    <3> QED  BY <3>1, <3>2
  <2>2. CASE i < Len(s)
    <3>1. Tail(u)[i] = s[i + 1]  BY <1>1, <1>4, <2>2
    <3>2. v[i] = s[i + 1]  BY <1>1, <1>2, <1>3, <2>2
    <3> QED  BY <3>1, <3>2
  <2>3. i = Len(s) \/ i < Len(s)  BY <1>1
  <2> QED  BY <2>1, <2>2, <2>3
<1>7. Tail(u) = v  BY <1>3, <1>4, <1>5, <1>6, SeqEqual
<1>8. Head(u) = Head(s)  BY <1>1, <1>2, <1>4
<1> QED  BY <1>1, <1>7, <1>8 DEF u, v

LEMMA TypesImply == KeysTypes => KeysTypeOK
BY DEF KeysTypes, KeysTypeOK

LEMMA KeysStart == KeysInit => KeysIndInv
<1> SUFFICES ASSUME KeysInit  PROVE KeysIndInv  OBVIOUS
<1>1. /\ pressed = <<>> /\ wire = <<>> /\ stdinCh = <<>> /\ flying = {}
      /\ state = "ground" /\ params = <<>> /\ content = <<>>
      /\ effects = <<>> /\ disturbed = FALSE
  BY DEF KeysInit
<1>2. Len(<<>>) = 0 /\ \A S : <<>> \in Seq(S)  BY EmptySeq
<1>3. KeysTypes
  <2>1. Len(pressed) <= MaxKeys  BY <1>1, <1>2, KeysAssumption
  <2>2. state \in States  BY <1>1 DEF States
  <2>3. DOMAIN <<>> = {}  OBVIOUS
  <2> QED  BY <1>1, <1>2, <2>1, <2>2, <2>3 DEF KeysTypes
<1>4. Followed
  <2>1. WireEnd(pressed) = <<1, 1>> /\ <<Len(effects) + 1, 1>> = <<1, 1>>  BY <1>1, <1>2 DEF WireEnd
  <2>2. From(wire, WireEnd(pressed)) = <<1, 1>>  BY <1>1, <2>1 DEF From
  <2>3. RestOf(pressed, <<Len(effects) + 1, 1>>, stdinCh, wire)
    BY <1>1, <2>1, <2>2, RunEnds DEF RestOf
  <2>4. BetweenKeys  BY <1>1, <2>3 DEF BetweenKeys
  <2>5. DoneSoFar(pressed, effects)  BY <1>1, <1>2 DEF DoneSoFar
  <2> QED  BY <2>4, <2>5 DEF Followed
<1> QED  BY <1>3, <1>4 DEF KeysIndInv

LEMMA CleanBefore == ASSUME NEW keys \in Seq(Keyboard), NEW k \in Keyboard, Clean(Append(keys, k))
  PROVE  Clean(keys)
<1>1. \A i \in DOMAIN keys : Append(keys, k)[i] = keys[i] /\ i \in DOMAIN Append(keys, k)  BY KeyKept
<1> QED  BY <1>1 DEF Clean

LEMMA PressKeeps == ASSUME KeysIndInv, Press  PROVE KeysIndInv'
<1>1. PICK k \in Keyboard :
        /\ pressed' = Append(pressed, k)
        /\ wire' = wire \o [i \in DOMAIN k.sends |-> [token |-> k.sends[i], key |-> Len(pressed'), nth |-> i]]
  BY DEF Press
<1>2. /\ Len(pressed) < MaxKeys
      /\ UNCHANGED <<stdinCh, flying, state, params, content, effects, disturbed>>
  BY DEF Press, HandlerVars
<1>3. pressed \in Seq(Keyboard) /\ wire \in Seq(Bytes) /\ stdinCh \in Seq(Bytes)
  BY DEF KeysIndInv, KeysTypes
<1>4. /\ pressed' \in Seq(Keyboard) /\ Len(pressed') = Len(pressed) + 1 /\ Len(pressed) \in Nat
      /\ DOMAIN pressed = 1..Len(pressed) /\ DOMAIN pressed' = 1..Len(pressed) + 1
      /\ \A i \in 1..Len(pressed) : pressed'[i] = pressed[i] /\ i \in 1..Len(pressed) + 1
  BY <1>1, <1>3, KeyKept
<1>5. wire' = wire \o NewBytes(k, Len(pressed) + 1)  BY <1>1, <1>4 DEF NewBytes
<1>6. /\ NewBytes(k, Len(pressed) + 1) \in Seq(Bytes)
      /\ \A i \in DOMAIN NewBytes(k, Len(pressed) + 1) : NewBytes(k, Len(pressed) + 1)[i].key = Len(pressed) + 1
  BY <1>3, NewRun
<1>7. KeysTypes'
  <2> DEFINE q == NewBytes(k, Len(pressed) + 1)
  <2>1. q \in Seq(Bytes) /\ wire' = wire \o q /\ \A i \in DOMAIN q : q[i].key = Len(pressed) + 1
    BY <1>5, <1>6
  <2> HIDE DEF q
  <2>2. /\ wire' \in Seq(Bytes) /\ Len(wire') = Len(wire) + Len(q) /\ Len(wire) \in Nat /\ Len(q) \in Nat
        /\ \A i \in 1..Len(wire) : wire'[i] = wire[i]
        /\ \A i \in 1..Len(q) : wire'[Len(wire) + i] = q[i]
        /\ DOMAIN wire = 1..Len(wire) /\ DOMAIN q = 1..Len(q)
    BY <1>3, <2>1, JoinedIs, LenProperties
  <2>3. DOMAIN wire' = 1..Len(wire) + Len(q)  BY <2>2, LenProperties
  <2>4. \A i \in DOMAIN wire : wire[i].key \in DOMAIN pressed'  BY <1>4 DEF KeysIndInv, KeysTypes
  <2>5. Len(pressed) + 1 \in DOMAIN pressed'  BY <1>4
  <2>6. ASSUME NEW i \in DOMAIN wire'  PROVE wire'[i].key \in DOMAIN pressed'
    <3>1. i \in 1..Len(wire) \/ (i - Len(wire) \in 1..Len(q) /\ i = Len(wire) + (i - Len(wire)))
      BY <2>2, <2>3
    <3>2. CASE i \in 1..Len(wire)  BY <2>2, <2>4, <3>2
    <3>3. ASSUME NEW j \in 1..Len(q), i = Len(wire) + j  PROVE wire'[i].key \in DOMAIN pressed'
      <4>1. wire'[Len(wire) + j] = q[j] /\ j \in DOMAIN q  BY <2>2
      <4> QED  BY <2>1, <2>5, <3>3, <4>1
    <3> QED  BY <3>1, <3>2, <3>3
  <2>7. /\ \A i \in DOMAIN stdinCh' : stdinCh'[i].key \in DOMAIN pressed'
        /\ flying' \subseteq DOMAIN pressed'
    BY <1>2, <1>4 DEF KeysIndInv, KeysTypes
  <2>8. Len(pressed') <= MaxKeys  BY <1>2, <1>4, KeysAssumption
  <2>9. /\ state' \in States /\ params' \in Seq(Tokens) /\ content' \in Seq(Tokens)
        /\ effects' \in Seq(Effects) /\ disturbed' \in BOOLEAN
        /\ (params' # <<>> => state' \in {"csi", "pasteCsi"})
        /\ (state' = "pasteCsi" => Len(params') <= 3)
        /\ stdinCh' \in Seq(Bytes)
    BY <1>2 DEF KeysIndInv, KeysTypes
  <2> QED  BY <1>4, <2>2, <2>6, <2>7, <2>8, <2>9 DEF KeysTypes
<1>8. ASSUME ~disturbed', Clean(pressed')  PROVE Followed'
  <2>1. Clean(pressed)  BY <1>1, <1>3, <1>8, CleanBefore
  <2>2. Followed  BY <1>2, <1>8, <2>1 DEF KeysIndInv
  <2>3. \A p, ch : ch \in Seq(Bytes) /\ RestOf(pressed, p, ch, wire) => RestOf(pressed', p, ch, wire')
    BY <1>1, <1>3, <1>5, RestPressed
  <2>4. DoneSoFar(pressed', effects')
    <3>1. Len(effects) \in Nat  BY LenProperties DEF KeysIndInv, KeysTypes
    <3>2. Len(effects) <= Len(pressed) /\ \A i \in 1..Len(effects) : effects[i] = pressed[i].effect
      BY <2>2 DEF Followed, DoneSoFar
    <3>3. Len(effects) <= Len(pressed) + 1 /\ \A i \in 1..Len(effects) : i \in 1..Len(pressed)
      BY <1>4, <3>1, <3>2
    <3> QED  BY <1>2, <1>4, <3>2, <3>3 DEF DoneSoFar
  <2>5. Len(effects) < Len(pressed) =>
          /\ Len(effects) < Len(pressed') /\ pressed'[Len(effects) + 1] = pressed[Len(effects) + 1]
          /\ \A n : After(pressed', <<Len(effects) + 1, n>>) = After(pressed, <<Len(effects) + 1, n>>)
    <3> SUFFICES ASSUME Len(effects) < Len(pressed)
                 PROVE  /\ Len(effects) < Len(pressed') /\ pressed'[Len(effects) + 1] = pressed[Len(effects) + 1]
                        /\ \A n : After(pressed', <<Len(effects) + 1, n>>) = After(pressed, <<Len(effects) + 1, n>>)
      OBVIOUS
    <3>1. Len(effects) \in Nat  BY LenProperties DEF KeysIndInv, KeysTypes
    <3>2. Len(effects) + 1 \in 1..Len(pressed) /\ Len(effects) < Len(pressed) + 1  BY <1>4, <3>1
    <3>3. pressed'[Len(effects) + 1] = pressed[Len(effects) + 1]  BY <1>4, <3>2
    <3> QED  BY <1>4, <3>2, <3>3 DEF After
  <2>6. CASE BetweenKeys
    <3>1. BetweenKeys'  BY <1>2, <1>3, <2>3, <2>6 DEF BetweenKeys
    <3> QED  BY <2>4, <3>1 DEF Followed
  <2>7. CASE WithinKey
    <3>1. PICK n \in 1..Len(pressed[Len(effects) + 1].sends) :
            /\ TokensRead(pressed[Len(effects) + 1], n, state, params, content)
            /\ RestOf(pressed, After(pressed, <<Len(effects) + 1, n>>), stdinCh, wire)
      BY <2>7 DEF WithinKey
    <3>2. Len(effects) < Len(pressed) /\ flying = {}  BY <2>7 DEF WithinKey
    <3>3. RestOf(pressed', After(pressed', <<Len(effects) + 1, n>>), stdinCh', wire')
      BY <1>2, <1>3, <2>3, <2>5, <3>1, <3>2
    <3>4. WithinKey'  BY <1>2, <2>5, <3>1, <3>2, <3>3 DEF WithinKey
    <3> QED  BY <2>4, <3>4 DEF Followed
  <2>8. CASE ControlFlies
    <3>1. OnControl'  BY <1>2, <2>5, <2>8 DEF ControlFlies, OnControl
    <3>2. ControlFlies'  BY <1>2, <1>3, <2>3, <2>8, <3>1 DEF ControlFlies
    <3> QED  BY <2>4, <3>2 DEF Followed
  <2>9. CASE ControlSent
    <3>1. OnControl'  BY <1>2, <2>5, <2>9 DEF ControlSent, OnControl
    <3>2. stdinCh # <<>> /\ Tail(stdinCh) \in Seq(Bytes)  BY <1>3, <2>9, Shortened DEF ControlSent
    <3>3. RestOf(pressed', <<Len(effects) + 2, 1>>, Tail(stdinCh), wire')  BY <2>3, <2>9, <3>2 DEF ControlSent
    <3>4. ControlSent'  BY <1>2, <2>9, <3>1, <3>3 DEF ControlSent
    <3> QED  BY <2>4, <3>4 DEF Followed
  <2> QED  BY <2>2, <2>6, <2>7, <2>8, <2>9 DEF Followed
<1> QED  BY <1>7, <1>8 DEF KeysIndInv

LEMMA ReadKeeps == ASSUME KeysIndInv, ReadStdin  PROVE KeysIndInv'
<1>1. /\ wire # <<>> /\ stdinCh' = Append(stdinCh, Head(wire)) /\ wire' = Tail(wire)
      /\ UNCHANGED <<pressed, flying, state, params, content, effects, disturbed>>
  BY DEF ReadStdin, HandlerVars
<1>2. pressed \in Seq(Keyboard) /\ wire \in Seq(Bytes) /\ stdinCh \in Seq(Bytes)
  BY DEF KeysIndInv, KeysTypes
<1>3. /\ Head(wire) = wire[1] /\ Head(wire) \in Bytes /\ 1 \in DOMAIN wire
      /\ Tail(wire) \in Seq(Bytes)
      /\ \A i \in DOMAIN Tail(wire) : Tail(wire)[i] = wire[i + 1] /\ i + 1 \in DOMAIN wire
  BY <1>1, <1>2, Shortened
<1>4. KeysTypes'
  <2>1. /\ Append(stdinCh, Head(wire)) \in Seq(Bytes) /\ Len(stdinCh) \in Nat
        /\ DOMAIN stdinCh = 1..Len(stdinCh) /\ DOMAIN Append(stdinCh, Head(wire)) = 1..Len(stdinCh) + 1
        /\ Append(stdinCh, Head(wire))[Len(stdinCh) + 1] = Head(wire)
        /\ \A i \in 1..Len(stdinCh) : Append(stdinCh, Head(wire))[i] = stdinCh[i]
    BY <1>2, <1>3, Grown
  <2>2. \A i \in 1..Len(stdinCh) + 1 : i \in 1..Len(stdinCh) \/ i = Len(stdinCh) + 1  BY <2>1
  <2>3. Head(wire).key \in DOMAIN pressed /\ \A i \in DOMAIN stdinCh : stdinCh[i].key \in DOMAIN pressed
    BY <1>3 DEF KeysIndInv, KeysTypes
  <2>4. \A i \in DOMAIN stdinCh' : stdinCh'[i].key \in DOMAIN pressed'
    BY <1>1, <2>1, <2>2, <2>3
  <2>5. \A i \in DOMAIN wire' : wire'[i].key \in DOMAIN pressed'
    BY <1>1, <1>3 DEF KeysIndInv, KeysTypes
  <2>6. /\ state' \in States /\ params' \in Seq(Tokens) /\ content' \in Seq(Tokens)
        /\ effects' \in Seq(Effects) /\ disturbed' \in BOOLEAN
        /\ (params' # <<>> => state' \in {"csi", "pasteCsi"})
        /\ (state' = "pasteCsi" => Len(params') <= 3)
        /\ flying' \subseteq DOMAIN pressed' /\ pressed' \in Seq(Keyboard) /\ Len(pressed') <= MaxKeys
    BY <1>1 DEF KeysIndInv, KeysTypes
  <2> QED  BY <1>1, <1>3, <2>1, <2>4, <2>5, <2>6 DEF KeysTypes
<1>5. ASSUME ~disturbed', Clean(pressed')  PROVE Followed'
  <2>1. Followed  BY <1>1, <1>5 DEF KeysIndInv
  <2>2. \A p, ch : ch \in Seq(Bytes) /\ RestOf(pressed, p, ch, wire) => RestOf(pressed, p, Append(ch, Head(wire)), wire')
    BY <1>1, <1>2, RestMoves
  <2>3. DoneSoFar(pressed', effects')  BY <1>1, <2>1 DEF Followed
  <2>4. CASE BetweenKeys
    <3>1. BetweenKeys'  BY <1>1, <1>2, <2>2, <2>4 DEF BetweenKeys
    <3> QED  BY <2>3, <3>1 DEF Followed
  <2>5. CASE WithinKey
    <3>1. PICK n \in 1..Len(pressed[Len(effects) + 1].sends) :
            /\ TokensRead(pressed[Len(effects) + 1], n, state, params, content)
            /\ RestOf(pressed, After(pressed, <<Len(effects) + 1, n>>), stdinCh, wire)
      BY <2>5 DEF WithinKey
    <3>2. RestOf(pressed', After(pressed', <<Len(effects) + 1, n>>), stdinCh', wire')
      BY <1>1, <1>2, <2>2, <3>1
    <3>3. WithinKey'  BY <1>1, <2>5, <3>1, <3>2 DEF WithinKey
    <3> QED  BY <2>3, <3>3 DEF Followed
  <2>6. CASE ControlFlies
    <3>1. OnControl'  BY <1>1, <2>6 DEF ControlFlies, OnControl
    <3>2. ControlFlies'  BY <1>1, <1>2, <2>2, <2>6, <3>1 DEF ControlFlies
    <3> QED  BY <2>3, <3>2 DEF Followed
  <2>7. CASE ControlSent
    <3>1. OnControl'  BY <1>1, <2>7 DEF ControlSent, OnControl
    <3>2. stdinCh # <<>> /\ Tail(stdinCh) \in Seq(Bytes)  BY <1>2, <2>7, Shortened DEF ControlSent
    <3>3. /\ stdinCh' # <<>> /\ Head(stdinCh') = Head(stdinCh)
          /\ Tail(stdinCh') = Append(Tail(stdinCh), Head(wire))
      BY <1>1, <1>2, <1>3, <3>2, TailAppended
    <3>4. RestOf(pressed, <<Len(effects) + 2, 1>>, Append(Tail(stdinCh), Head(wire)), wire')
      BY <2>2, <2>7, <3>2 DEF ControlSent
    <3>5. ControlSent'  BY <1>1, <2>7, <3>1, <3>3, <3>4 DEF ControlSent
    <3> QED  BY <2>3, <3>5 DEF Followed
  <2> QED  BY <2>1, <2>4, <2>5, <2>6, <2>7 DEF Followed
<1> QED  BY <1>4, <1>5 DEF KeysIndInv

LEMMA SendKeeps == ASSUME KeysIndInv, SendControlByte  PROVE KeysIndInv'
<1>1. PICK k \in flying : /\ stdinCh' = Append(stdinCh, [token |-> CtrlA, key |-> k, nth |-> 1])
                          /\ flying' = flying \ {k}
  BY DEF SendControlByte
<1>2. /\ disturbed' = (disturbed \/ stdinCh # <<>> \/ state # "ground")
      /\ UNCHANGED <<pressed, wire, state, params, content, effects>>
  BY DEF SendControlByte, HandlerVars
<1>3. pressed \in Seq(Keyboard) /\ stdinCh \in Seq(Bytes) /\ k \in DOMAIN pressed
  BY DEF KeysIndInv, KeysTypes
<1> DEFINE b == [token |-> CtrlA, key |-> k, nth |-> 1]
<1>4. k \in Nat  BY <1>3, LenProperties
<1>5. b \in Bytes /\ b.key = k /\ b.token = CtrlA  BY <1>4, TokenTypes DEF Bytes
<1>6. stdinCh' = Append(stdinCh, b)  BY <1>1
<1> HIDE DEF b
<1>7. /\ stdinCh' \in Seq(Bytes) /\ stdinCh' # <<>> /\ Len(stdinCh') = Len(stdinCh) + 1 /\ Len(stdinCh) \in Nat
      /\ DOMAIN stdinCh = 1..Len(stdinCh) /\ DOMAIN stdinCh' = 1..Len(stdinCh) + 1
      /\ stdinCh'[Len(stdinCh) + 1] = b /\ \A i \in 1..Len(stdinCh) : stdinCh'[i] = stdinCh[i]
  BY <1>3, <1>5, <1>6, Grown
<1>8. KeysTypes'
  <2>1. \A i \in 1..Len(stdinCh) + 1 : i \in 1..Len(stdinCh) \/ i = Len(stdinCh) + 1  BY <1>7
  <2>2. \A i \in DOMAIN stdinCh : stdinCh[i].key \in DOMAIN pressed  BY DEF KeysIndInv, KeysTypes
  <2>3. \A i \in DOMAIN stdinCh' : stdinCh'[i].key \in DOMAIN pressed'
    BY <1>2, <1>3, <1>5, <1>7, <2>1, <2>2
  <2>4. /\ state' \in States /\ params' \in Seq(Tokens) /\ content' \in Seq(Tokens)
        /\ effects' \in Seq(Effects)
        /\ (params' # <<>> => state' \in {"csi", "pasteCsi"})
        /\ (state' = "pasteCsi" => Len(params') <= 3)
        /\ pressed' \in Seq(Keyboard) /\ Len(pressed') <= MaxKeys
        /\ wire' \in Seq(Bytes) /\ \A i \in DOMAIN wire' : wire'[i].key \in DOMAIN pressed'
    BY <1>2 DEF KeysIndInv, KeysTypes
  <2>5. disturbed' \in BOOLEAN /\ flying' \subseteq DOMAIN pressed'
    BY <1>1, <1>2 DEF KeysIndInv, KeysTypes
  <2> QED  BY <1>7, <2>3, <2>4, <2>5 DEF KeysTypes
<1>9. ASSUME ~disturbed', Clean(pressed')  PROVE Followed'
  <2>1. ~disturbed /\ stdinCh = <<>> /\ state = "ground" /\ Clean(pressed)  BY <1>2, <1>9
  <2>2. Followed  BY <2>1 DEF KeysIndInv
  <2>3. ControlFlies  BY <1>1, <2>2 DEF Followed, BetweenKeys, WithinKey, ControlSent
  <2>4. k = Len(effects) + 1 /\ flying' = {}  BY <1>1, <2>3 DEF ControlFlies
  <2>5. Len(stdinCh') = 1 /\ stdinCh'[1] = b
    <3>1. Len(stdinCh) = 0  BY <2>1
    <3> QED  BY <1>7, <3>1
  <2>6. Head(stdinCh') = b /\ Tail(stdinCh') = <<>>  BY <1>7, <2>5, Shortened
  <2>7. OnControl'  BY <1>2, <2>3 DEF ControlFlies, OnControl
  <2>8. RestOf(pressed, <<Len(effects) + 2, 1>>, Tail(stdinCh'), wire)
    BY <2>1, <2>3, <2>6 DEF ControlFlies
  <2>9. ControlSent'  BY <1>2, <1>5, <1>7, <2>4, <2>6, <2>7, <2>8 DEF ControlSent
  <2>10. DoneSoFar(pressed', effects')  BY <1>2, <2>2 DEF Followed
  <2> QED  BY <2>9, <2>10 DEF Followed
<1> QED  BY <1>8, <1>9 DEF KeysIndInv

LEMMA DoneMore ==
  ASSUME NEW keys \in Seq(Keyboard), NEW es \in Seq(Effects), DoneSoFar(keys, es), Len(es) < Len(keys),
         NEW e \in Effects, e = keys[Len(es) + 1].effect
  PROVE  DoneSoFar(keys, Append(es, e)) /\ Len(Append(es, e)) = Len(es) + 1
<1> DEFINE t == Append(es, e)
<1>1. /\ Len(t) = Len(es) + 1 /\ Len(es) \in Nat /\ t[Len(es) + 1] = e
      /\ \A i \in 1..Len(es) : t[i] = es[i]
  BY Grown
<1> HIDE DEF t
<1>2. Len(keys) \in Nat  BY LenProperties
<1>3. \A i \in 1..Len(es) + 1 : i \in 1..Len(es) \/ i = Len(es) + 1  BY <1>1
<1>4. Len(t) <= Len(keys)  BY <1>1, <1>2
<1>5. \A i \in 1..Len(t) : t[i] = keys[i].effect  BY <1>1, <1>3 DEF DoneSoFar
<1> QED  BY <1>1, <1>4, <1>5 DEF DoneSoFar, t

\* What is done agrees with the keys, whatever the place reached within key x.
LEMMA OutcomeKeeps ==
  ASSUME KeysTypes, DoneSoFar(pressed, effects), flying = {}, Len(effects) < Len(pressed), pressed' = pressed,
         NEW x, x = pressed[Len(effects) + 1], NEW n \in 1..Len(x.sends),
         NEW b, b.key = Len(effects) + 1, Outcome(x, n, b),
         RestOf(pressed, After(pressed, <<Len(effects) + 1, n>>), stdinCh', wire')
  PROVE  Followed'
<1> DEFINE L == Len(effects)
<1>1. pressed \in Seq(Keyboard) /\ effects \in Seq(Effects)  BY DEF KeysTypes
<1>2. L \in Nat /\ L + 1 \in 1..Len(pressed) /\ Len(pressed) \in Nat
  BY <1>1, LenProperties
<1>3. x \in Keyboard  BY <1>1, <1>2, ElementOfSeq
<1>4. x.effect \in Effects /\ Len(x.sends) \in Nat  BY <1>3, KeyTypes
<1>5. n = Len(x.sends) => After(pressed, <<L + 1, n>>) = <<L + 2, 1>>
  <2>1. n = Len(x.sends) => After(pressed, <<L + 1, n>>) = <<L + 1 + 1, 1>>  BY <1>4, PlaceIs
  <2>2. L + 1 + 1 = L + 2  BY <1>2
  <2> QED  BY <2>1, <2>2
<1>6. CASE /\ effects' = effects /\ flying' = flying
           /\ TokensRead(x, n, state', params', content')
  <2>1. WithinKey'  BY <1>6 DEF WithinKey
  <2> QED  BY <1>6, <2>1 DEF Followed
<1>7. CASE /\ effects' = Append(effects, x.effect) /\ flying' = flying
           /\ state' = "ground" /\ params' = <<>> /\ n = Len(x.sends)
  <2>1. DoneSoFar(pressed, Append(effects, x.effect)) /\ Len(Append(effects, x.effect)) = L + 1
    BY <1>1, <1>4, DoneMore
  <2>2. Len(effects') + 1 = L + 2  BY <1>2, <1>7, <2>1
  <2>3. BetweenKeys'  BY <1>5, <1>7, <2>2 DEF BetweenKeys
  <2> QED  BY <1>7, <2>1, <2>3 DEF Followed
<1>8. CASE /\ effects' = effects /\ flying' = flying \cup {b.key} /\ x.effect = Do("home")
           /\ state' = "ground" /\ params' = <<>> /\ n = Len(x.sends)
  <2>1. flying' = {L + 1}  BY <1>8
  <2>2. ControlFlies'  BY <1>5, <1>8, <2>1 DEF ControlFlies, OnControl
  <2> QED  BY <1>8, <2>2 DEF Followed
<1> QED  BY <1>6, <1>7, <1>8 DEF Outcome

LEMMA ByteKeeps == ASSUME KeysIndInv, HandleByte  PROVE KeysIndInv'
<1> DEFINE b == Head(stdinCh)
<1>1. /\ stdinCh # <<>> /\ stdinCh' = Tail(stdinCh) /\ Handles(b)
      /\ disturbed' = (disturbed \/ flying # {} \/ (state = "escape" /\ b.nth = 1))
      /\ UNCHANGED <<pressed, wire>>
  BY DEF HandleByte, Handles
<1>2. /\ pressed \in Seq(Keyboard) /\ stdinCh \in Seq(Bytes) /\ KeysTypes
      /\ params \in Seq(Tokens) /\ content \in Seq(Tokens) /\ effects \in Seq(Effects)
  BY DEF KeysIndInv, KeysTypes
<1>3. /\ Tail(stdinCh) \in Seq(Bytes) /\ b = stdinCh[1] /\ b \in Bytes
      /\ Len(stdinCh) \in Nat /\ Len(stdinCh) >= 1
      /\ DOMAIN stdinCh = 1..Len(stdinCh) /\ DOMAIN Tail(stdinCh) = 1..Len(stdinCh) - 1
      /\ \A i \in 1..Len(stdinCh) - 1 : Tail(stdinCh)[i] = stdinCh[i + 1]
  BY <1>1, <1>2, Shortened
<1> HIDE DEF b
<1>4. b.key \in DOMAIN pressed /\ b.token \in Tokens
  <2>1. 1 \in DOMAIN stdinCh  BY <1>3
  <2>2. stdinCh[1].key \in DOMAIN pressed  BY <2>1 DEF KeysIndInv, KeysTypes
  <2> QED  BY <1>3, <2>2 DEF Bytes
<1>5. KeysTypes'
  <2>1. \A i \in DOMAIN stdinCh' : stdinCh'[i].key \in DOMAIN pressed'
    <3>1. \A i \in 1..Len(stdinCh) - 1 : i + 1 \in 1..Len(stdinCh)  BY <1>3
    <3>2. \A i \in DOMAIN stdinCh : stdinCh[i].key \in DOMAIN pressed  BY DEF KeysIndInv, KeysTypes
    <3> QED  BY <1>1, <1>3, <3>1, <3>2
  <2>2. /\ flying' \subseteq DOMAIN pressed /\ state' \in States
        /\ params' \in Seq(Tokens) /\ content' \in Seq(Tokens) /\ effects' \in Seq(Effects)
        /\ (params' # <<>> => state' \in {"csi", "pasteCsi"})
        /\ (state' = "pasteCsi" => Len(params') <= 3)
    BY <1>1, <1>2, <1>3, <1>4, TypesHandled
  <2>3. /\ pressed' \in Seq(Keyboard) /\ Len(pressed') <= MaxKeys
        /\ wire' \in Seq(Bytes) /\ \A i \in DOMAIN wire' : wire'[i].key \in DOMAIN pressed'
    BY <1>1 DEF KeysIndInv, KeysTypes
  <2>4. disturbed' \in BOOLEAN  BY <1>1 DEF KeysIndInv, KeysTypes
  <2> QED  BY <1>1, <1>3, <2>1, <2>2, <2>3, <2>4 DEF KeysTypes
<1>6. ASSUME ~disturbed', Clean(pressed')  PROVE Followed'
  <2>1. ~disturbed /\ flying = {} /\ ~(state = "escape" /\ b.nth = 1) /\ Clean(pressed)  BY <1>1, <1>6
  <2>2. Followed  BY <2>1 DEF KeysIndInv
  <2> DEFINE L == Len(effects)
  <2>3. DoneSoFar(pressed, effects) /\ L \in Nat /\ Len(pressed) \in Nat /\ DOMAIN pressed = 1..Len(pressed)
    BY <1>2, <2>2, LenProperties DEF Followed
  <2>4. ~ControlFlies
    <3>1. {L + 1} # {}  OBVIOUS
    <3> QED  BY <2>1, <3>1 DEF ControlFlies
  <2>5. ASSUME NEW n \in Nat, RestOf(pressed, <<L + 1, n + 1>>, stdinCh, wire),
               n = 0 \/ (L < Len(pressed) /\ n < Len(pressed[L + 1].sends)),
               (n = 0 /\ state = "ground") \/ TokensRead(pressed[L + 1], n, state, params, content)
        PROVE  Followed'
    <3>1. Pos(b) = <<L + 1, n + 1>> /\ Sent(pressed, b) /\ RestOf(pressed, After(pressed, <<L + 1, n + 1>>), stdinCh', wire')
      BY <1>1, <1>2, <2>5, RestTaken DEF b
    <3>2. b.key = L + 1 /\ b.nth = n + 1  BY <3>1, ByteIs
    <3> DEFINE x == pressed[L + 1]
    <3>3. /\ L + 1 \in DOMAIN pressed /\ n + 1 \in DOMAIN x.sends /\ b.token = x.sends[n + 1]
      BY <3>1, <3>2 DEF Sent
    <3>4. L < Len(pressed) /\ x \in Keyboard  BY <1>2, <2>3, <3>3, ElementOfSeq
    <3>5. /\ x.sends \in Seq(Tokens) /\ Len(x.sends) \in Nat  BY <3>4, KeyTypes
    <3>6. n < Len(x.sends) /\ n + 1 \in 1..Len(x.sends)
      <4>1. DOMAIN x.sends = 1..Len(x.sends)  BY <3>5, LenProperties
      <4> QED  BY <3>3, <3>5, <4>1
    <3>7. ~CutsMarker(x.effect.text) /\ ~HasMarker(x.effect.text)  BY <2>1, <3>3 DEF Clean
    <3>8. x = pressed[L + 1]  OBVIOUS
    <3>9. (n = 0 /\ state = "ground") \/ TokensRead(x, n, state, params, content)  BY <2>5
    <3> HIDE DEF x
    <3>10. Outcome(x, n + 1, b)
      BY <1>1, <1>2, <1>4, <3>3, <3>4, <3>6, <3>7, <3>9, KeyReads
    <3>11. pressed' = pressed  BY <1>1
    <3> QED  BY <1>2, <2>1, <2>3, <3>1, <3>2, <3>4, <3>6, <3>8, <3>10, <3>11, OutcomeKeeps
  <2>6. CASE BetweenKeys
    <3>1. RestOf(pressed, <<L + 1, 0 + 1>>, stdinCh, wire) /\ state = "ground"  BY <2>6 DEF BetweenKeys
    <3> QED  BY <2>5, <3>1
  <2>7. CASE WithinKey
    <3>1. L < Len(pressed)  BY <2>7 DEF WithinKey
    <3>2. PICK n \in 1..Len(pressed[L + 1].sends) :
            /\ TokensRead(pressed[L + 1], n, state, params, content)
            /\ RestOf(pressed, After(pressed, <<L + 1, n>>), stdinCh, wire)
      BY <2>7 DEF WithinKey
    <3>3. n \in Nat  OBVIOUS
    <3>4. CASE n < Len(pressed[L + 1].sends)
      <4>1. After(pressed, <<L + 1, n>>) = <<L + 1, n + 1>>  BY <3>4, PlaceIs
      <4> QED  BY <2>5, <3>1, <3>2, <3>3, <3>4, <4>1
    <3>5. CASE ~(n < Len(pressed[L + 1].sends))
      <4>1. After(pressed, <<L + 1, n>>) = <<L + 1 + 1, 1>>  BY <3>5, PlaceIs
      <4>2. Pos(b) = <<L + 1 + 1, 1>>  BY <1>1, <1>2, <3>2, <4>1, RestTaken DEF b
      <4>3. b.nth = 1  BY <4>2, ByteIs
      <4>4. state = "escape"  BY <3>2, <3>3, <3>5, StateOf
      <4> QED  BY <2>1, <4>3, <4>4
    <3> QED  BY <3>4, <3>5
  <2>8. CASE ControlSent
    <3>1. /\ b.token = CtrlA /\ OnControl /\ RestOf(pressed, <<L + 2, 1>>, stdinCh', wire')
      BY <1>1, <2>8 DEF ControlSent, b
    <3>2. /\ L < Len(pressed) /\ pressed[L + 1].effect = Do("home") /\ state = "ground"
      BY <3>1 DEF OnControl
    <3>3. Ground(b)
      BY <1>1, <3>2 DEF Handles, Escape, Ss3, CsiParameter, CsiPaste, CsiControl, CsiKey, PasteText, PasteEscape, PasteCsi
    <3>4. /\ state' = "ground" /\ params' = <<>> /\ effects' = Append(effects, Do("home")) /\ flying' = flying
      BY <3>1, <3>3 DEF Ground, Finished, Waits, Done, ESC, CR, CtrlA
    <3>5. DoneSoFar(pressed, Append(effects, Do("home"))) /\ Len(Append(effects, Do("home"))) = L + 1
      BY <1>2, <2>3, <3>2, EffectTypes, DoneMore
    <3>6. Len(effects') + 1 = L + 2  BY <2>3, <3>4, <3>5
    <3>7. BetweenKeys'  BY <1>1, <2>1, <3>1, <3>4, <3>6 DEF BetweenKeys
    <3> QED  BY <1>1, <3>4, <3>5, <3>7 DEF Followed
  <2> QED  BY <2>2, <2>4, <2>6, <2>7, <2>8 DEF Followed
<1> QED  BY <1>5, <1>6 DEF KeysIndInv

LEMMA OneOrMore == \A m \in Nat : m >= 1 => m = 1 \/ 1 < m
OBVIOUS

LEMMA AloneKeeps == ASSUME KeysIndInv, EscapeAlone  PROVE KeysIndInv'
<1>1. /\ state = "escape" /\ stdinCh = <<>> /\ state' = "ground" /\ params' = <<>>
      /\ effects' = Append(effects, Do("escape"))
      /\ disturbed' = (disturbed \/ (wire # <<>> /\ Head(wire).nth > 1))
      /\ UNCHANGED <<pressed, wire, stdinCh, content, flying>>
  BY DEF EscapeAlone, Finished, Waits, Done
<1>2. /\ pressed \in Seq(Keyboard) /\ wire \in Seq(Bytes) /\ effects \in Seq(Effects)
  BY DEF KeysIndInv, KeysTypes
<1>3. KeysTypes'
  <2>1. effects' \in Seq(Effects)  BY <1>1, <1>2, EffectTypes, Grown
  <2>2. state' \in States /\ params' \in Seq(Tokens) /\ state' # "pasteCsi" /\ params' = <<>>
    BY <1>1, EmptySeq DEF States
  <2>3. /\ pressed' \in Seq(Keyboard) /\ Len(pressed') <= MaxKeys
        /\ wire' \in Seq(Bytes) /\ \A i \in DOMAIN wire' : wire'[i].key \in DOMAIN pressed'
        /\ stdinCh' \in Seq(Bytes) /\ \A i \in DOMAIN stdinCh' : stdinCh'[i].key \in DOMAIN pressed'
        /\ content' \in Seq(Tokens) /\ flying' \subseteq DOMAIN pressed' /\ disturbed' \in BOOLEAN
    BY <1>1 DEF KeysIndInv, KeysTypes
  <2> QED  BY <2>1, <2>2, <2>3 DEF KeysTypes
<1>4. ASSUME ~disturbed', Clean(pressed')  PROVE Followed'
  <2>1. ~disturbed /\ ~(wire # <<>> /\ Head(wire).nth > 1) /\ Clean(pressed)  BY <1>1, <1>4
  <2>2. Followed  BY <2>1 DEF KeysIndInv
  <2> DEFINE L == Len(effects)  x == pressed[L + 1]
  <2>3. DoneSoFar(pressed, effects) /\ L \in Nat /\ Len(pressed) \in Nat
    BY <1>2, <2>2, LenProperties DEF Followed
  <2>4. WithinKey  BY <1>1, <2>2 DEF Followed, BetweenKeys, ControlFlies, ControlSent, OnControl
  <2>5. L < Len(pressed) /\ flying = {}  BY <2>4 DEF WithinKey
  <2>6. PICK n \in 1..Len(x.sends) :
          /\ TokensRead(x, n, state, params, content)
          /\ RestOf(pressed, After(pressed, <<L + 1, n>>), stdinCh, wire)
    BY <2>4 DEF WithinKey
  <2>7. x \in Keyboard
    <3>1. L + 1 \in 1..Len(pressed)  BY <2>3, <2>5
    <3> QED  BY <1>2, <3>1, ElementOfSeq
  <2>8. n \in Nat /\ Len(x.sends) \in Nat  BY <2>7, KeyTypes
  <2>9. n = 1 /\ x.sends[1] = ESC  BY <1>1, <2>6, <2>8, StateOf
  <2>10. RestOf(pressed, After(pressed, <<L + 1, 1>>), <<>>, wire)  BY <1>1, <2>6, <2>9
  <2>11. From(wire, WireEnd(pressed)) = After(pressed, <<L + 1, 1>>)  BY <2>10, RunEnds DEF RestOf
  <2>12. Len(x.sends) = 1
    <3>1. SUFFICES ASSUME 1 < Len(x.sends)  PROVE FALSE
      <4>1. Len(x.sends) >= 1 /\ Len(x.sends) \in Nat  BY <2>7, KeyTypes
      <4> QED  BY <4>1, OneOrMore, Zenon
    <3>2. After(pressed, <<L + 1, 1>>) = <<L + 1, 1 + 1>>  BY <3>1, PlaceIs
    <3>3. CASE wire = <<>>
      <4>1. <<Len(pressed) + 1, 1>> = <<L + 1, 1 + 1>>  BY <2>11, <3>2, <3>3 DEF From, WireEnd
      <4>2. 1 = 1 + 1  BY <4>1, PlacesEqual
      <4> QED  BY <4>2
    <3>4. CASE wire # <<>>
      <4>1. Head(wire) = wire[1]  BY <1>2, <3>4, Shortened
      <4>2. Pos(Head(wire)) = <<L + 1, 1 + 1>>  BY <2>11, <3>2, <3>4, <4>1 DEF From
      <4>3. Head(wire).nth = 1 + 1  BY <4>2, ByteIs
      <4> QED  BY <2>1, <3>4, <4>3
    <3> QED  BY <3>3, <3>4
  <2>13. x.effect = Do("escape")
    <3>1. x.sends[2] # "[" \/ ~CsiTokens(x) \/ Len(x.sends) # 1  BY DEF CsiTokens
    <3>2. x.effect.does = "paste" => Len(x.sends) = 12 + Len(x.effect.text) /\ Len(x.effect.text) \in Nat
      BY <2>7, PasteTokens DEF Spells
    <3> QED  BY <2>7, <2>9, <2>12, <3>1, <3>2, EscapedTokens
  <2>14. DoneSoFar(pressed, Append(effects, Do("escape"))) /\ Len(Append(effects, Do("escape"))) = L + 1
    BY <1>2, <2>3, <2>5, <2>13, EffectTypes, DoneMore
  <2>15. After(pressed, <<L + 1, 1>>) = <<L + 1 + 1, 1>>
    <3>1. ~(1 < Len(x.sends))  BY <2>12
    <3> QED  BY <3>1, PlaceIs, Zenon
  <2>16. Len(effects') + 1 = L + 1 + 1  BY <1>1, <2>14
  <2>17. BetweenKeys'  BY <1>1, <2>5, <2>10, <2>15, <2>16 DEF BetweenKeys
  <2> QED  BY <1>1, <2>14, <2>17 DEF Followed
<1> QED  BY <1>3, <1>4 DEF KeysIndInv

LEMMA KeysStep == KeysIndInv /\ [KeysNext]_keyVars => KeysIndInv'
<1> SUFFICES ASSUME KeysIndInv, [KeysNext]_keyVars  PROVE KeysIndInv'  OBVIOUS
<1>1. CASE Press  BY <1>1, PressKeeps
<1>2. CASE ReadStdin  BY <1>2, ReadKeeps
<1>3. CASE SendControlByte  BY <1>3, SendKeeps
<1>4. CASE EscapeAlone  BY <1>4, AloneKeeps
<1>5. CASE HandleByte  BY <1>5, ByteKeeps
<1>6. CASE UNCHANGED keyVars
  <2>1. UNCHANGED <<pressed, wire, stdinCh, flying, state, params, content, effects, disturbed>>
    BY <1>6 DEF keyVars
  <2>2. KeysTypes'  BY <2>1 DEF KeysIndInv, KeysTypes
  <2>3. BetweenKeys' = BetweenKeys /\ WithinKey' = WithinKey
    BY <2>1 DEF BetweenKeys, WithinKey
  <2>4. ControlFlies' = ControlFlies /\ ControlSent' = ControlSent
    BY <2>1 DEF ControlFlies, ControlSent, OnControl
  <2>5. Followed' = Followed  BY <2>1, <2>3, <2>4 DEF Followed
  <2> QED  BY <2>1, <2>2, <2>5 DEF KeysIndInv
<1> QED  BY <1>1, <1>2, <1>3, <1>4, <1>5, <1>6 DEF KeysNext

LEMMA KeysImply == KeysIndInv => KeysInv
<1> SUFFICES ASSUME KeysIndInv  PROVE DecodedAsPressed  BY TypesImply DEF KeysInv, KeysIndInv
<1> SUFFICES ASSUME wire = <<>>, stdinCh = <<>>, flying = {}, state = "ground", ~disturbed,
                    \A i \in DOMAIN pressed : ~CutsMarker(pressed[i].effect.text) /\ ~HasMarker(pressed[i].effect.text)
             PROVE  effects = [i \in DOMAIN pressed |-> pressed[i].effect]
  BY DEF DecodedAsPressed
<1>1. pressed \in Seq(Keyboard) /\ effects \in Seq(Effects)  BY DEF KeysIndInv, KeysTypes
<1>2. Followed  BY DEF KeysIndInv, Clean
<1>3. ~WithinKey
  <2> SUFFICES ASSUME WithinKey  PROVE FALSE  OBVIOUS
  <2>1. PICK n \in 1..Len(pressed[Len(effects) + 1].sends) :
          TokensRead(pressed[Len(effects) + 1], n, state, params, content)
    BY DEF WithinKey
  <2>2. n \in Nat  OBVIOUS
  <2> QED  BY <2>1, <2>2, StateOf
<1>4. ~ControlFlies
  <2>1. {Len(effects) + 1} # {}  OBVIOUS
  <2> QED  BY <2>1 DEF ControlFlies
<1>5. BetweenKeys  BY <1>2, <1>3, <1>4 DEF Followed, ControlSent
<1>6. <<Len(effects) + 1, 1>> = WireEnd(pressed)
  BY <1>5, RunEnds DEF BetweenKeys, RestOf, From
<1>7. Len(effects) = Len(pressed)
  <2>1. Len(effects) + 1 = Len(pressed) + 1  BY <1>6, PlacesEqual DEF WireEnd
  <2>2. Len(effects) \in Nat /\ Len(pressed) \in Nat  BY <1>1, LenProperties
  <2> QED  BY <2>1, <2>2
<1>8. DOMAIN effects = DOMAIN pressed /\ DOMAIN pressed = 1..Len(pressed)  BY <1>1, <1>7, LenProperties
<1>9. \A i \in DOMAIN pressed : effects[i] = pressed[i].effect  BY <1>2, <1>7, <1>8 DEF Followed, DoneSoFar
<1>10. effects = [i \in DOMAIN effects |-> effects[i]]
  <2>1. effects = [i \in 1..Len(effects) |-> effects[i]]  BY <1>1
  <2> QED  BY <1>7, <1>8, <2>1
<1> QED  BY <1>8, <1>9, <1>10

(* Bytes become keys again: when keys do not run into each other, each has  *)
(* the effect it is for, once and in order (handleByte,                     *)
(* handleEscapeSequence, readCSISequence, readBracketedPaste).              *)
THEOREM KeysDecoded == KeysSpec => []KeysInv
<1>1. KeysSpec => []KeysIndInv
  BY KeysStart, KeysStep, PTL DEF KeysSpec
<1>2. []KeysIndInv => []KeysInv
  BY KeysImply, PTL
<1> QED  BY <1>1, <1>2

(***************************************************************************)
(* Recursion over a number                                                 *)
(***************************************************************************)

\* Every set of numbers that is not empty has a least one: induction without an operator.
LEMMA LeastNumber ==
  ASSUME NEW T \in SUBSET Nat, T # {}
  PROVE  \E m \in T : \A k \in T : m <= k
<1>. DEFINE R == OpToRel(<, Nat)
<1>1. PICK m \in T : \A k \in T : ~(<<k, m>> \in R)
  <2>. HIDE DEF R
  <2>1. IsWellFoundedOn(R, Nat)
    BY NatLessThanWellFounded DEF R
  <2>. QED  BY <2>1, WFMin
<1>2. \A k \in T : ~(k < m)
  BY <1>1 DEF OpToRel
<1>. QED  BY <1>2

\* Numbers below a bound have a greatest one.
LEMMA GreatestNumber ==
  ASSUME NEW n \in Nat, NEW S \in SUBSET (0..n), S # {}
  PROVE  \E m \in S : \A x \in S : x <= m
<1>. DEFINE U == {u \in Nat : \A x \in S : x <= u}
<1>1. n \in U
  OBVIOUS
<1>2. PICK m \in U : \A k \in U : m <= k
  <2>. HIDE DEF U
  <2>1. U \in SUBSET Nat
    BY DEF U
  <2>. QED  BY <1>1, <2>1, LeastNumber
<1>3. m \in S
  <2>1. SUFFICES ASSUME m \notin S  PROVE FALSE
    OBVIOUS
  <2>2. \A x \in S : x < m
    BY <2>1
  <2>3. PICK x \in S : TRUE
    OBVIOUS
  <2>4. m \in Nat /\ m > 0
    BY <2>2, <2>3
  <2>5. m - 1 \in Nat /\ \A y \in S : y <= m - 1
    BY <2>2, <2>4
  <2>. QED  BY <1>2, <2>4, <2>5
<1>. QED  BY <1>3

\* The least and the greatest of some numbers are among them.
LEMMA MinIs ==
  ASSUME NEW S \in SUBSET Nat, S # {}
  PROVE  Min(S) \in S /\ \A x \in S : Min(S) <= x
<1>1. \E m \in S : \A x \in S : m <= x
  BY LeastNumber
<1>. QED  BY <1>1 DEF Min

LEMMA MaxIs ==
  ASSUME NEW n \in Nat, NEW S \in SUBSET (0..n), S # {}
  PROVE  Max(S) \in S /\ \A x \in S : x <= Max(S)
<1>1. \E m \in S : \A x \in S : x <= m
  BY GreatestNumber
<1>2. \E m \in S : \A x \in S : m >= x
  <2>1. PICK m \in S : \A x \in S : x <= m
    BY <1>1
  <2>2. \A x \in S : m >= x
    BY <2>1
  <2>. QED  BY <2>2
<1>3. Max(S) \in S /\ \A x \in S : Max(S) >= x
  BY <1>2 DEF Max
<1>. QED  BY <1>3

\* f starts with e and goes on, up to N, by the step g.
Recurs(f, e, g, N) == f[0] = e /\ \A n \in 1..N : f[n] = g[<<n, f[n - 1]>>]

\* Whatever a step does, a function can be written down that goes on by it: there is no
\* first number that none reaches.
LEMMA RecursionExists ==
  ASSUME NEW S, NEW e \in S, NEW g \in [Nat \X S -> S], NEW N \in Nat
  PROVE  \E f \in [0..N -> S] : Recurs(f, e, g, N)
<1>. DEFINE T == {k \in Nat : ~ \E f \in [0..k -> S] : Recurs(f, e, g, k)}
<1>1. SUFFICES ASSUME T # {} PROVE FALSE
  OBVIOUS
<1>2. PICK k \in T : \A j \in T : k <= j
  <2>1. T \in SUBSET Nat
    OBVIOUS
  <2>. HIDE DEF T
  <2>. QED  BY <1>1, <2>1, LeastNumber
<1>3. CASE k = 0
  <2>. DEFINE f == [n \in 0..0 |-> e]
  <2>1. f \in [0..0 -> S] /\ Recurs(f, e, g, 0)
    BY DEF Recurs
  <2>. QED  BY <1>2, <1>3, <2>1
<1>4. CASE k # 0
  <2>1. k \in Nat /\ k - 1 \in Nat /\ k - 1 \notin T
    BY <1>2, <1>4
  <2>2. PICK h \in [0..(k - 1) -> S] : Recurs(h, e, g, k - 1)
    BY <2>1
  <2>. DEFINE f == [n \in 0..k |-> IF n = k THEN g[<<k, h[k - 1]>>] ELSE h[n]]
  <2>3. h[k - 1] \in S /\ g[<<k, h[k - 1]>>] \in S
    <3>1. h[k - 1] \in S
      BY <2>1, <2>2
    <3>. QED  BY <2>1, <3>1
  <2>4. f \in [0..k -> S]
    BY <2>1, <2>2, <2>3
  <2>5. \A n \in 0..(k - 1) : f[n] = h[n]
    BY <2>1
  <2>6. f[k] = g[<<k, f[k - 1]>>]
    <3>1. f[k - 1] = h[k - 1]
      BY <2>1, <2>5
    <3>2. f[k] = g[<<k, h[k - 1]>>]
      BY <2>1
    <3>. HIDE DEF f
    <3>. QED  BY <3>1, <3>2
  <2>. HIDE DEF f
  <2>7. f[0] = e
    BY <2>1, <2>2, <2>5 DEF Recurs
  <2>8. \A n \in 1..k : f[n] = g[<<n, f[n - 1]>>]
    <3>. SUFFICES ASSUME NEW n \in 1..k, n # k PROVE f[n] = g[<<n, f[n - 1]>>]
      BY <2>6
    <3>1. n \in 1..(k - 1) /\ n \in 0..(k - 1) /\ n - 1 \in 0..(k - 1)
      BY <2>1
    <3>2. h[n] = g[<<n, h[n - 1]>>]
      BY <2>2, <3>1 DEF Recurs
    <3>. QED  BY <2>5, <3>1, <3>2
  <2>9. Recurs(f, e, g, k)
    BY <2>7, <2>8 DEF Recurs
  <2>. QED  BY <1>2, <2>4, <2>9
<1>. QED  BY <1>3, <1>4


(***************************************************************************)
(* The input line: the lines it is shown on                                *)
(***************************************************************************)

ScanStates ==
  [lines : Seq([start : Int, length : Int, col : Int]), start : Int, length : Int, col : Int, space : Int]

\* Another length and another space.
LEMMA StateWith ==
  ASSUME NEW L, NEW s \in [lines : L, start : Int, length : Int, col : Int, space : Int],
         NEW len \in Int, NEW space \in Int
  PROVE  LET t == [s EXCEPT !.space = space] u == [s EXCEPT !.length = len, !.space = space] IN
         /\ t \in [lines : L, start : Int, length : Int, col : Int, space : Int]
         /\ t.lines = s.lines /\ t.start = s.start /\ t.length = s.length /\ t.col = s.col
         /\ t.space = space
         /\ u \in [lines : L, start : Int, length : Int, col : Int, space : Int]
         /\ u.lines = s.lines /\ u.start = s.start /\ u.length = len /\ u.col = s.col
         /\ u.space = space
  OBVIOUS

\* A line ended or not, what is known of the lines has the same form.
LEMMA ScanTyped ==
  ASSUME width \in Int, NEW s \in ScanStates, NEW i \in Int
  PROVE  Scan(s, i) \in ScanStates
<1>1. ASSUME NEW t \in ScanStates, NEW len \in Int, NEW st \in Int, NEW rest \in Int
      PROVE  EndOfLine(t, len, st, rest) \in ScanStates
  <2>1. [start |-> t.start, length |-> len, col |-> t.col] \in [start : Int, length : Int, col : Int]
    BY DEF ScanStates
  <2>. DEFINE line == [start |-> t.start, length |-> len, col |-> t.col]
  <2>2. Append(t.lines, line) \in Seq([start : Int, length : Int, col : Int])
    <3>. HIDE DEF line
    <3>. QED  BY <2>1, AppendProperties DEF ScanStates, line
  <2>. QED  BY <2>2 DEF EndOfLine, ScanStates
<1>. DEFINE space == IF input[i + 1] = Blank THEN i ELSE s.space
            t == [s EXCEPT !.space = space]
<1>2. space \in Int /\ t \in ScanStates /\ t.space = space
  BY DEF ScanStates
<1>3. [s EXCEPT !.length = @ + 1, !.space = space] \in ScanStates
  <2>1. s.length + 1 \in Int
    BY DEF ScanStates
  <2>. HIDE DEF space, t
  <2>. QED  BY <1>2, <2>1, StateWith DEF ScanStates
<1>4. WrapsAtSpace(t, i) \in ScanStates
  <2>1. t.start \in Int /\ t.space \in Int
    BY <1>2 DEF ScanStates
  <2>. HIDE DEF t
  <2>. QED  BY <1>1, <1>2, <2>1 DEF WrapsAtSpace
<1>5. EndOfLine(s, s.length, i + 1, 0) \in ScanStates /\ EndOfLine(s, s.length + 1, i + 1, 0) \in ScanStates
  <2>1. s.length \in Int
    BY DEF ScanStates
  <2>. QED  BY <1>1, <2>1
<1>6. s.start \in Int /\ s.col \in Int /\ s.length \in Int
  BY DEF ScanStates
<1>. DEFINE breaks == input[i + 1] = Break
            fills == s.col + s.length + 1 >= width
<1>7. CASE breaks
  BY <1>5, <1>7 DEF Scan
<1>8. CASE ~breaks /\ ~fills
  BY <1>3, <1>8 DEF Scan
<1>9. CASE ~breaks /\ fills /\ space >= s.start
  <2>1. ~(space < s.start)
    BY <1>2, <1>6, <1>9
  <2>2. Scan(s, i) = WrapsAtSpace(t, i)
    BY <1>9, <2>1 DEF Scan
  <2>. QED  BY <1>4, <2>2
<1>10. CASE ~breaks /\ fills /\ ~(space >= s.start)
  <2>1. space < s.start
    BY <1>2, <1>6, <1>10
  <2>. QED  BY <1>5, <1>10, <2>1 DEF Scan
<1>. QED  BY <1>7, <1>8, <1>9, <1>10

\* Scanned is what its recursion says.
LEMMA ScannedIs ==
  ASSUME LineTypeOK
  PROVE  /\ Scanned[0] = FirstLine
         /\ \A n \in 1..Len(input) : Scanned[n] = Scan(Scanned[n - 1], n - 1)
<1>. DEFINE L == Len(input)
            rhs(f) == [n \in 0..L |-> IF n = 0 THEN FirstLine ELSE Scan(f[n - 1], n - 1)]
            step == [x \in Nat \X ScanStates |-> Scan(x[2], x[1] - 1)]
<1>0. L \in Nat /\ width \in Int
  BY LineAssumption DEF LineTypeOK
<1>1. FirstLine \in ScanStates
  BY DEF FirstLine, ScanStates, promptPrefixCols
<1>2. step \in [Nat \X ScanStates -> ScanStates]
  BY <1>0, ScanTyped
<1>3. PICK f \in [0..L -> ScanStates] : Recurs(f, FirstLine, step, L)
  <2>. HIDE DEF L, step
  <2>. QED  BY <1>0, <1>1, <1>2, RecursionExists
<1>4. f[0] = FirstLine /\ \A n \in 1..L : f[n] = Scan(f[n - 1], n - 1)
  <2>1. ASSUME NEW n \in 1..L PROVE f[n] = Scan(f[n - 1], n - 1)
    <3>1. n \in Nat /\ n - 1 \in 0..L
      BY <1>0
    <3>2. f[n - 1] \in ScanStates
      BY <3>1
    <3>3. f[n] = step[<<n, f[n - 1]>>]
      BY <1>3 DEF Recurs
    <3>4. step[<<n, f[n - 1]>>] = Scan(f[n - 1], n - 1)
      BY <3>1, <3>2
    <3>. QED  BY <3>3, <3>4
  <2>. QED  BY <1>3, <2>1 DEF Recurs
<1>5. f = rhs(f)
  <2>1. f = [n \in 0..L |-> f[n]]
    OBVIOUS
  <2>2. \A n \in 0..L : f[n] = IF n = 0 THEN FirstLine ELSE Scan(f[n - 1], n - 1)
    BY <1>0, <1>4
  <2>. QED  BY <2>1, <2>2
<1>6. Scanned = CHOOSE g : g = rhs(g)
  BY DEF Scanned
<1>7. Scanned = rhs(Scanned)
  BY <1>5, <1>6
<1>. DEFINE g == Scanned
<1>8. \A n \in 0..L : g[n] = IF n = 0 THEN FirstLine ELSE Scan(g[n - 1], n - 1)
  <2>. HIDE DEF g
  <2>. QED  BY <1>7 DEF g
<1>. QED  BY <1>0, <1>8

LineRecords == [start : Int, length : Int, col : Int]

\* What follows a line starts where it ends, or after the line break there; at a line break
\* the line was not full.
FollowsLine(line, start) ==
  \/ start = line.start + line.length /\ line.length >= 1
  \/ /\ start = line.start + line.length + 1 /\ start <= Len(input) /\ input[start] = Break
     /\ line.col + line.length < width

\* No line break between two positions.
Unbroken(from, to) == \A q \in from..to - 1 : input[q + 1] # Break

LineFits(line) ==
  /\ line \in LineRecords /\ line.start >= 0 /\ line.length >= 0 /\ line.col >= 0
  /\ line.col + line.length <= width /\ Unbroken(line.start, line.start + line.length)

\* Lines that cover the input as far as they go.
CoversInput(ls) ==
  /\ ls \in Seq(LineRecords)
  /\ \A i \in 1..Len(ls) : LineFits(ls[i]) /\ (i = 1 => ls[i].start = 0) /\ (i # 1 => ls[i].col = 0)
  /\ \A i \in 1..Len(ls) : i < Len(ls) => FollowsLine(ls[i], ls[i + 1].start)

\* A line can stand behind others.
StandsBehind(ls, start, col) ==
  /\ Len(ls) = 0 => start = 0
  /\ Len(ls) # 0 => col = 0 /\ FollowsLine(ls[Len(ls)], start)

\* The scan has seen p runes.
HasScanned(s, p) ==
  /\ s \in ScanStates /\ CoversInput(s.lines) /\ StandsBehind(s.lines, s.start, s.col)
  /\ s.start >= 0 /\ s.length >= 0 /\ s.start + s.length = p /\ s.col >= 0
  /\ s.col + s.length < width /\ Unbroken(s.start, p) /\ s.space < p

\* One line more.
LEMMA LineAdded ==
  ASSUME NEW ls, CoversInput(ls), NEW line, LineFits(line), StandsBehind(ls, line.start, line.col)
  PROVE  /\ CoversInput(Append(ls, line))
         /\ Len(Append(ls, line)) = Len(ls) + 1 /\ Append(ls, line)[Len(ls) + 1] = line
         /\ Len(ls) \in Nat
<1>. DEFINE more == Append(ls, line)
            L == Len(ls)
<1>1. ls \in Seq(LineRecords) /\ line \in LineRecords
  BY DEF CoversInput, LineFits
<1>2. L \in Nat
  BY <1>1
<1>3. more \in Seq(LineRecords) /\ Len(more) = L + 1 /\ more[L + 1] = line
      /\ \A i \in 1..L : more[i] = ls[i]
  BY <1>1, AppendProperties
<1>. HIDE DEF more, L
<1>4. ASSUME NEW i \in 1..L + 1
      PROVE  LineFits(more[i]) /\ (i = 1 => more[i].start = 0) /\ (i # 1 => more[i].col = 0)
  <2>1. CASE i \in 1..L
    BY <1>3, <2>1 DEF CoversInput, L
  <2>2. CASE i = L + 1
    <3>1. (i = 1 => L = 0) /\ (i # 1 => L # 0)
      BY <1>2, <2>2
    <3>. QED  BY <1>3, <2>2, <3>1 DEF StandsBehind, L
  <2>. QED  BY <1>2, <2>1, <2>2
<1>5. ASSUME NEW i \in 1..L + 1, i < L + 1
      PROVE  FollowsLine(more[i], more[i + 1].start)
  <2>1. CASE i \in 1..L - 1
    <3>1. i \in 1..L /\ i + 1 \in 1..L /\ i < L
      BY <1>2, <2>1
    <3>2. FollowsLine(ls[i], ls[i + 1].start)
      BY <3>1 DEF CoversInput, L
    <3>. QED  BY <1>3, <3>1, <3>2
  <2>2. CASE i = L
    <3>1. L # 0 /\ i \in 1..L
      BY <1>2, <2>2
    <3>. QED  BY <1>3, <2>2, <3>1 DEF StandsBehind, L
  <2>. QED  BY <1>2, <1>5, <2>1, <2>2
<1>6. CoversInput(more)
  BY <1>3, <1>4, <1>5 DEF CoversInput
<1>. QED  BY <1>2, <1>3, <1>6 DEF more, L

\* The line under way ends.
LEMMA LineEnds ==
  ASSUME LineTypeOK, NEW s \in ScanStates, NEW p, HasScanned(s, p),
         NEW length \in Nat, NEW start \in Nat, NEW rest \in Nat,
         s.col + length <= width, Unbroken(s.start, s.start + length),
         FollowsLine([start |-> s.start, length |-> length, col |-> s.col], start),
         rest < width, Unbroken(start, start + rest)
  PROVE  HasScanned(EndOfLine(s, length, start, rest), start + rest)
<1>. DEFINE line == [start |-> s.start, length |-> length, col |-> s.col]
            t == EndOfLine(s, length, start, rest)
            L == Len(s.lines)
<1>1. s.start \in Int /\ s.col \in Int /\ s.start >= 0 /\ s.col >= 0
  BY DEF HasScanned, ScanStates
<1>2. line.start = s.start /\ line.length = length /\ line.col = s.col /\ line \in LineRecords
  BY <1>1 DEF LineRecords
<1>3. LineFits(line)
  <2>. HIDE DEF line
  <2>. QED  BY <1>1, <1>2 DEF LineFits
<1>4. StandsBehind(s.lines, line.start, line.col) /\ CoversInput(s.lines)
  <2>. HIDE DEF line
  <2>. QED  BY <1>2 DEF HasScanned
<1>5. /\ CoversInput(Append(s.lines, line)) /\ Len(Append(s.lines, line)) = L + 1
      /\ Append(s.lines, line)[L + 1] = line /\ L \in Nat
  <2>. HIDE DEF line
  <2>. QED  BY <1>3, <1>4, LineAdded
<1>6. t.lines = Append(s.lines, line) /\ t.start = start /\ t.length = rest /\ t.col = 0 /\ t.space = -1
  BY DEF EndOfLine
<1>7. FollowsLine(line, start)
  OBVIOUS
<1>8. t \in ScanStates
  <2>1. Append(s.lines, line) \in Seq([start : Int, length : Int, col : Int])
    BY <1>5 DEF CoversInput, LineRecords
  <2>2. start \in Int /\ rest \in Int
    OBVIOUS
  <2>3. t = [lines |-> Append(s.lines, line), start |-> start, length |-> rest, col |-> 0, space |-> -1]
    BY DEF EndOfLine
  <2>. HIDE DEF t, line
  <2>. QED  BY <2>1, <2>2, <2>3 DEF ScanStates
<1>. HIDE DEF t, line
<1>9. StandsBehind(t.lines, t.start, t.col)
  <2>1. L + 1 # 0
    BY <1>5
  <2>. QED  BY <1>5, <1>6, <1>7, <2>1 DEF StandsBehind
<1>10. Unbroken(t.start, start + rest) /\ CoversInput(t.lines)
  BY <1>5, <1>6
<1>11. /\ t.start >= 0 /\ t.length >= 0 /\ t.start + t.length = start + rest /\ t.col >= 0
       /\ t.col + t.length < width /\ t.space < start + rest
  BY <1>6
<1>. QED  BY <1>8, <1>9, <1>10, <1>11 DEF HasScanned, t

LEMMA UnbrokenPart ==
  ASSUME NEW from \in Int, NEW to \in Int, Unbroken(from, to), NEW a \in Int, NEW b \in Int,
         from <= a, b <= to
  PROVE  Unbroken(a, b)
<1>1. \A q \in a..b - 1 : q \in from..to - 1
  OBVIOUS
<1>. QED  BY <1>1 DEF Unbroken

LEMMA UnbrokenMore ==
  ASSUME NEW from \in Int, NEW to \in Int, Unbroken(from, to), input[to + 1] # Break
  PROVE  Unbroken(from, to + 1)
<1>1. \A q \in from..to + 1 - 1 : q \in from..to - 1 \/ q = to
  OBVIOUS
<1>. QED  BY <1>1 DEF Unbroken

LEMMA UnbrokenNone == ASSUME NEW a \in Int, NEW b \in Int, b <= a  PROVE Unbroken(a, b)
<1>1. a..b - 1 = {}
  OBVIOUS
<1>. QED  BY <1>1 DEF Unbroken

\* A line takes a rune more.
LEMMA GrowsWithin ==
  ASSUME NEW start \in Nat, NEW length \in Nat, NEW col \in Nat, NEW p \in Nat, NEW space \in Int,
         NEW w \in Nat, start + length = p, ~(col + length + 1 >= w), space <= p
  PROVE  /\ start >= 0 /\ length + 1 >= 0 /\ start + (length + 1) = p + 1 /\ col >= 0
         /\ col + (length + 1) < w /\ space < p + 1
  OBVIOUS

\* One rune more.
LEMMA RuneScanned ==
  ASSUME LineTypeOK, NEW p \in Nat, p < Len(input), NEW s, HasScanned(s, p)
  PROVE  HasScanned(Scan(s, p), p + 1)
<1>. DEFINE space == IF input[p + 1] = Blank THEN p ELSE s.space
            breaks == input[p + 1] = Break
            fills == s.col + s.length + 1 >= width
<1>1. /\ s \in ScanStates /\ s.start \in Nat /\ s.length \in Nat /\ s.col \in Nat /\ s.space \in Int
      /\ s.start + s.length = p /\ s.col + s.length < width /\ s.space < p /\ Unbroken(s.start, p)
  BY DEF HasScanned, ScanStates
<1>2. width \in Nat /\ width > 0 /\ Len(input) \in Nat
  BY LineAssumption DEF LineTypeOK
<1>3. space \in Int /\ space <= p
  BY <1>1
<1>4. CASE breaks
  <2>1. Scan(s, p) = EndOfLine(s, s.length, p + 1, 0)
    BY <1>4 DEF Scan
  <2>. DEFINE line == [start |-> s.start, length |-> s.length, col |-> s.col]
  <2>2. line.start = s.start /\ line.length = s.length /\ line.col = s.col
    OBVIOUS
  <2>. HIDE DEF line
  <2>3. FollowsLine(line, p + 1)
    BY <1>1, <1>2, <1>4, <2>2 DEF FollowsLine
  <2>4. s.col + s.length <= width /\ Unbroken(s.start, s.start + s.length) /\ p + 1 \in Nat /\ p + 1 + 0 = p + 1
    BY <1>1, <1>2
  <2>5. Unbroken(p + 1, p + 1 + 0)
    BY UnbrokenNone
  <2>. QED  BY <1>1, <1>2, <2>1, <2>3, <2>4, <2>5, LineEnds DEF line
<1>5. CASE ~breaks /\ ~fills
  <2>. DEFINE u == [s EXCEPT !.length = @ + 1, !.space = space]
  <2>1. Scan(s, p) = u
    BY <1>5 DEF Scan
  <2>2. /\ u \in ScanStates /\ u.lines = s.lines /\ u.start = s.start /\ u.length = s.length + 1
        /\ u.col = s.col /\ u.space = space
    <3>1. s.length + 1 \in Int
      BY <1>1
    <3>. HIDE DEF space
    <3>. QED  BY <1>1, <1>3, <3>1, StateWith DEF ScanStates
  <2>. HIDE DEF u
  <2>3. Unbroken(s.start, p + 1)
    BY <1>1, <1>5, UnbrokenMore
  <2>4. CoversInput(u.lines) /\ StandsBehind(u.lines, u.start, u.col)
    BY <2>2 DEF HasScanned
  <2>5. /\ u.start >= 0 /\ u.length >= 0 /\ u.start + u.length = p + 1 /\ u.col >= 0
        /\ u.col + u.length < width /\ u.space < p + 1
    <3>. HIDE DEF space
    <3>1. /\ s.start >= 0 /\ s.length + 1 >= 0 /\ s.start + (s.length + 1) = p + 1 /\ s.col >= 0
          /\ s.col + (s.length + 1) < width /\ space < p + 1
      <4>1. ~(s.col + s.length + 1 >= width)
        BY <1>5
      <4>. QED  BY <1>1, <1>2, <1>3, <4>1, GrowsWithin
    <3>. QED  BY <2>2, <3>1, Zenon
  <2>6. Unbroken(u.start, p + 1)
    BY <2>2, <2>3
  <2>. QED  BY <2>1, <2>2, <2>4, <2>5, <2>6 DEF HasScanned
<1>6. CASE ~breaks /\ fills /\ space >= s.start
  <2>. DEFINE t == [s EXCEPT !.space = space]
              length == space - s.start + 1
              rest == p + 1 - s.start - length
              line == [start |-> s.start, length |-> length, col |-> s.col]
  <2>1. Scan(s, p) = WrapsAtSpace(t, p)
    <3>1. ~(space < s.start)
      BY <1>1, <1>3, <1>6
    <3>. QED  BY <1>6, <3>1 DEF Scan
  <2>2. /\ t \in ScanStates /\ t.lines = s.lines /\ t.start = s.start /\ t.length = s.length
        /\ t.col = s.col /\ t.space = space
    <3>. HIDE DEF space
    <3>. QED  BY <1>1, <1>3, StateWith DEF ScanStates
  <2>. HIDE DEF t
  <2>3. WrapsAtSpace(t, p) = EndOfLine(s, length, space + 1, rest)
    BY <2>2 DEF WrapsAtSpace, EndOfLine
  <2>. HIDE DEF space
  <2>4. /\ length \in Nat /\ length >= 1 /\ space + 1 \in Nat /\ rest \in Nat /\ space + 1 + rest = p + 1
        /\ s.col + length <= width /\ rest < width /\ s.start + length <= p + 1 /\ s.start <= space + 1
        /\ space + 1 = s.start + length
    <3>1. s.start <= space
      BY <1>1, <1>3, <1>6
    <3>2. /\ s.start \in Nat /\ s.length \in Nat /\ s.col \in Nat /\ space \in Int /\ width \in Nat
          /\ s.start + s.length = p /\ s.col + s.length < width /\ s.start <= space /\ space <= p
      BY <1>1, <1>2, <1>3, <3>1
    <3>3. /\ space - s.start + 1 \in Nat /\ space - s.start + 1 >= 1 /\ space + 1 \in Nat
          /\ p + 1 - s.start - (space - s.start + 1) \in Nat
          /\ space + 1 + (p + 1 - s.start - (space - s.start + 1)) = p + 1
          /\ s.col + (space - s.start + 1) <= width
          /\ p + 1 - s.start - (space - s.start + 1) < width
          /\ s.start + (space - s.start + 1) <= p + 1 /\ s.start <= space + 1
          /\ space + 1 = s.start + (space - s.start + 1)
      <4>. DEFINE st == s.start  len == s.length  co == s.col
      <4>1. st \in Nat /\ len \in Nat /\ co \in Nat /\ st + len = p /\ co + len < width /\ st <= space
        BY <3>2
      <4>. HIDE DEF st, len, co
      <4>2. /\ space - st + 1 \in Nat /\ space - st + 1 >= 1 /\ space + 1 \in Nat
            /\ p + 1 - st - (space - st + 1) \in Nat
            /\ space + 1 + (p + 1 - st - (space - st + 1)) = p + 1
            /\ co + (space - st + 1) <= width /\ p + 1 - st - (space - st + 1) < width
            /\ st + (space - st + 1) <= p + 1 /\ st <= space + 1
            /\ space + 1 = st + (space - st + 1)
        BY ONLY <3>2, <4>1, p \in Nat
      <4>. QED  BY <4>2 DEF st, len, co
    <3>. QED  BY <3>3
  <2>5. Unbroken(s.start, p + 1)
    BY <1>1, <1>6, UnbrokenMore
  <2>6. line.start = s.start /\ line.length = length /\ line.col = s.col
    OBVIOUS
  <2>. HIDE DEF length, rest, line
  <2>7. FollowsLine(line, space + 1)
    BY <2>4, <2>6 DEF FollowsLine
  <2>8. Unbroken(s.start, s.start + length) /\ Unbroken(space + 1, space + 1 + rest)
    <3>1. s.start + length \in Int /\ space + 1 \in Int /\ p + 1 \in Int /\ space + 1 + rest \in Int
          /\ s.start <= s.start /\ space + 1 + rest <= p + 1
      BY <1>1, <2>4
    <3>. QED  BY <1>1, <2>4, <2>5, <3>1, UnbrokenPart
  <2>9. HasScanned(EndOfLine(s, length, space + 1, rest), space + 1 + rest)
    BY <1>1, <2>4, <2>7, <2>8, LineEnds DEF line
  <2>. QED  BY <2>1, <2>3, <2>4, <2>9
<1>7. CASE ~breaks /\ fills /\ ~(space >= s.start)
  <2>1. Scan(s, p) = EndOfLine(s, s.length + 1, p + 1, 0)
    <3>1. space < s.start
      BY <1>1, <1>3, <1>7
    <3>. QED  BY <1>7, <3>1 DEF Scan
  <2>. DEFINE line == [start |-> s.start, length |-> s.length + 1, col |-> s.col]
  <2>2. line.start = s.start /\ line.length = s.length + 1 /\ line.col = s.col
    OBVIOUS
  <2>. HIDE DEF line, space
  <2>3. FollowsLine(line, p + 1)
    BY <1>1, <1>2, <2>2 DEF FollowsLine
  <2>4. /\ s.col + (s.length + 1) <= width /\ p + 1 \in Nat /\ p + 1 + 0 = p + 1
        /\ s.start + (s.length + 1) = p + 1 /\ s.length + 1 \in Nat
    BY <1>1, <1>2
  <2>5. Unbroken(p + 1, p + 1 + 0) /\ Unbroken(s.start, s.start + (s.length + 1))
    BY <1>1, <1>7, <2>4, UnbrokenNone, UnbrokenMore
  <2>. QED  BY <1>1, <1>2, <2>1, <2>3, <2>4, <2>5, LineEnds DEF line
<1>. QED  BY <1>4, <1>5, <1>6, <1>7

LEMMA AllScanned ==
  ASSUME LineTypeOK
  PROVE  \A n \in 0..Len(input) : HasScanned(Scanned[n], n)
<1>. DEFINE T == {n \in 0..Len(input) : ~HasScanned(Scanned[n], n)}
<1>0. Len(input) \in Nat /\ width \in Nat /\ 2 < width
  BY LineAssumption DEF LineTypeOK
<1>1. SUFFICES ASSUME T # {} PROVE FALSE
  OBVIOUS
<1>2. PICK k \in T : \A j \in T : k <= j
  <2>1. T \in SUBSET Nat
    BY <1>0
  <2>. HIDE DEF T
  <2>. QED  BY <1>1, <2>1, LeastNumber
<1>3. k \in 0..Len(input) /\ ~HasScanned(Scanned[k], k)
  OBVIOUS
<1>4. HasScanned(FirstLine, 0)
  <2>1. FirstLine \in ScanStates
    BY DEF FirstLine, ScanStates, promptPrefixCols
  <2>2. /\ FirstLine.lines = <<>> /\ FirstLine.start = 0 /\ FirstLine.length = 0 /\ FirstLine.col = 2
        /\ FirstLine.space = -1
    BY DEF FirstLine, promptPrefixCols
  <2>3. Len(FirstLine.lines) = 0 /\ FirstLine.lines \in Seq(LineRecords)
    BY <2>2
  <2>4. CoversInput(FirstLine.lines)
    BY <2>3 DEF CoversInput
  <2>5. StandsBehind(FirstLine.lines, FirstLine.start, FirstLine.col)
    BY <2>2, <2>3 DEF StandsBehind
  <2>6. Unbroken(FirstLine.start, 0)
    BY <2>2, UnbrokenNone
  <2>. QED  BY <1>0, <2>1, <2>2, <2>4, <2>5, <2>6 DEF HasScanned
<1>5. k # 0
  BY <1>3, <1>4, ScannedIs
<1>6. k - 1 \in Nat /\ k - 1 \in 0..Len(input) /\ k - 1 < Len(input) /\ k \in 1..Len(input)
      /\ (k - 1) + 1 = k /\ k - 1 \notin T
  BY <1>0, <1>2, <1>3, <1>5
<1>7. HasScanned(Scanned[k - 1], k - 1)
  BY <1>6
<1>8. HasScanned(Scan(Scanned[k - 1], k - 1), k - 1 + 1)
  <2>. HIDE DEF T
  <2>. QED  BY <1>6, <1>7, RuneScanned
<1>9. Scanned[k] = Scan(Scanned[k - 1], k - 1)
  BY <1>6, ScannedIs
<1>. QED  BY <1>3, <1>6, <1>8, <1>9

\* The lines of the whole input.
WholeLines(ls) ==
  /\ CoversInput(ls) /\ Len(ls) \in Nat /\ Len(ls) >= 1
  /\ ls[Len(ls)].start + ls[Len(ls)].length = Len(input)
  /\ ls[Len(ls)].col + ls[Len(ls)].length < width

LEMMA LinesAre == ASSUME LineTypeOK  PROVE WholeLines(VisualLines)
<1>. DEFINE end == Scanned[Len(input)]
            line == [start |-> end.start, length |-> end.length, col |-> end.col]
<1>0. Len(input) \in Nat /\ width \in Int
  BY LineAssumption DEF LineTypeOK
<1>1. HasScanned(end, Len(input))
  BY <1>0, AllScanned
<1>2. VisualLines = Append(end.lines, line)
  BY DEF VisualLines, EndOfLine
<1>. HIDE DEF end
<1>3. line.start = end.start /\ line.length = end.length /\ line.col = end.col
  OBVIOUS
<1>4. /\ end.start \in Int /\ end.length \in Int /\ end.col \in Int
      /\ end.start >= 0 /\ end.length >= 0 /\ end.col >= 0 /\ end.col + end.length < width
      /\ end.start + end.length = Len(input) /\ Unbroken(end.start, Len(input))
  BY <1>1 DEF HasScanned, ScanStates
<1>5. line \in LineRecords
  BY <1>4 DEF LineRecords
<1>. HIDE DEF line
<1>6. LineFits(line)
  <2>1. end.col + end.length <= width
    BY <1>0, <1>4
  <2>2. Unbroken(end.start, end.start + end.length)
    BY <1>4
  <2>. QED  BY <1>3, <1>4, <1>5, <2>1, <2>2 DEF LineFits
<1>7. CoversInput(end.lines) /\ StandsBehind(end.lines, line.start, line.col)
  BY <1>1, <1>3 DEF HasScanned
<1>. DEFINE L == Len(end.lines)
<1>8. CoversInput(VisualLines) /\ Len(VisualLines) = L + 1 /\ VisualLines[L + 1] = line /\ L \in Nat
  BY <1>2, <1>6, <1>7, LineAdded
<1>9. L + 1 \in Nat /\ L + 1 >= 1
  BY <1>8
<1>. HIDE DEF L
<1>. QED  BY <1>3, <1>4, <1>8, <1>9 DEF WholeLines

\* What is known of a line.
LEMMA LineIs ==
  ASSUME NEW ls, WholeLines(ls), NEW i \in 1..Len(ls)
  PROVE  /\ ls[i].start \in Nat /\ ls[i].length \in Nat /\ ls[i].col \in Nat
         /\ ls[i].col + ls[i].length <= width /\ (i = 1 => ls[i].start = 0) /\ (i # 1 => ls[i].col = 0)
         /\ i < Len(ls) => FollowsLine(ls[i], ls[i + 1].start)
         /\ \A q \in ls[i].start..ls[i].start + ls[i].length - 1 : input[q + 1] # Break
<1>1. /\ LineFits(ls[i]) /\ (i = 1 => ls[i].start = 0) /\ (i # 1 => ls[i].col = 0)
      /\ i < Len(ls) => FollowsLine(ls[i], ls[i + 1].start)
  BY DEF WholeLines, CoversInput
<1>. DEFINE l == ls[i]
<1>2. LineFits(l)
  BY <1>1
<1>. HIDE DEF l
<1>3. /\ l.start \in Nat /\ l.length \in Nat /\ l.col \in Nat /\ l.col + l.length <= width
      /\ \A q \in l.start..l.start + l.length - 1 : input[q + 1] # Break
  BY <1>2 DEF LineFits, LineRecords, Unbroken
<1>. QED  BY <1>1, <1>3 DEF l

\* A line starts behind every line before it, and where it ends or later.
LEMMA StartsRise ==
  ASSUME NEW ls, WholeLines(ls), NEW i \in 1..Len(ls)
  PROVE  \A j \in 1..Len(ls) : i < j => /\ ls[i].start < ls[j].start
                                         /\ ls[i].start + ls[i].length <= ls[j].start
<1>. DEFINE L == Len(ls)
            StartsBehind(j) == ls[i].start < ls[j].start /\ ls[i].start + ls[i].length <= ls[j].start
            T == {j \in 1..L : i < j /\ ~StartsBehind(j)}
<1>0. L \in Nat
  BY DEF WholeLines
<1>1. SUFFICES ASSUME T # {} PROVE FALSE
  OBVIOUS
<1>2. PICK k \in T : \A j \in T : k <= j
  <2>1. T \in SUBSET Nat
    BY <1>0
  <2>. HIDE DEF T
  <2>. QED  BY <1>1, <2>1, LeastNumber
<1>3. k \in 1..L /\ i < k /\ ~StartsBehind(k)
  OBVIOUS
<1>. DEFINE h == k - 1
<1>4. h \in 1..L /\ h < L /\ h + 1 = k /\ h < k /\ (i = h \/ i < h) /\ i \in Nat
  BY <1>0, <1>3
<1>5. h \notin T
  BY <1>0, <1>2, <1>3, <1>4
<1>6. i = h \/ StartsBehind(h)
  BY <1>4, <1>5
<1>. HIDE DEF h, L, T
<1>7. /\ ls[i].start \in Nat /\ ls[i].length \in Nat /\ ls[h].start \in Nat /\ ls[h].length \in Nat
      /\ FollowsLine(ls[h], ls[h + 1].start) /\ ls[h + 1].start \in Nat
  <2>1. h + 1 \in 1..L
    BY <1>3, <1>4
  <2>. QED  BY <1>4, <2>1, LineIs DEF L
<1>8. ls[h].start < ls[h + 1].start /\ ls[h].start + ls[h].length <= ls[h + 1].start
  BY <1>7 DEF FollowsLine
<1>9. StartsBehind(h + 1)
  BY <1>6, <1>7, <1>8
<1>. QED  BY <1>3, <1>4, <1>9

LEMMA EndsWithin ==
  ASSUME LineTypeOK, NEW ls, WholeLines(ls), NEW i \in 1..Len(ls)
  PROVE  ls[i].start + ls[i].length <= Len(input)
<1>. DEFINE L == Len(ls)
<1>1. L \in 1..L /\ (i = L \/ i < L) /\ Len(input) \in Nat
  BY DEF WholeLines, LineTypeOK
<1>2. /\ ls[i].start \in Nat /\ ls[i].length \in Nat /\ ls[L].start \in Nat /\ ls[L].length \in Nat
      /\ ls[L].start + ls[L].length = Len(input)
  BY <1>1, LineIs DEF WholeLines
<1>3. i < L => ls[i].start + ls[i].length <= ls[L].start
  BY <1>1, StartsRise
<1>. HIDE DEF L
<1>. QED  BY <1>1, <1>2, <1>3

(***************************************************************************)
(* The input line: the cursor on its lines                                 *)
(***************************************************************************)

\* What HeldBy says, about numbers.
LEMMA HeldIs ==
  ASSUME NEW ls, NEW at, NEW i
  PROVE  HeldBy(ls, at, i) <=> /\ ls[i].start <= at /\ at <= ls[i].start + ls[i].length
                               /\ \/ at < ls[i].start + ls[i].length
                                  \/ i = Len(ls)
                                  \/ at < Len(input) /\ input[at + 1] = Break
  BY DEF HeldBy, EndOf

\* Every position is on a line: on the last one that starts before it.
LEMMA SomeLineHolds ==
  ASSUME LineTypeOK, NEW ls, WholeLines(ls), NEW at \in 0..Len(input)
  PROVE  \E i \in 1..Len(ls) : HeldBy(ls, at, i)
<1>. DEFINE L == Len(ls)
            S == {i \in 1..L : ls[i].start <= at}
<1>0. L \in Nat /\ L >= 1 /\ Len(input) \in Nat /\ 1 \in 1..L
  BY DEF WholeLines, LineTypeOK
<1>1. 1 \in S
  <2>1. ls[1].start = 0
    BY <1>0, LineIs
  <2>. QED  BY <1>0, <2>1
<1>2. PICK m \in S : \A x \in S : x <= m
  <2>1. S \in SUBSET (0..L) /\ S # {}
    BY <1>0, <1>1
  <2>. HIDE DEF S
  <2>. QED  BY <1>0, <2>1, GreatestNumber
<1>3. m \in 1..L /\ ls[m].start <= at /\ (m < L \/ m = L)
  BY <1>0
<1>4. ls[m].start \in Nat /\ ls[m].length \in Nat
  BY <1>3, LineIs
<1>5. CASE m = L
  <2>1. ls[m].start + ls[m].length = Len(input)
    BY <1>5 DEF WholeLines
  <2>2. HeldBy(ls, at, m)
    <3>1. at <= ls[m].start + ls[m].length
      BY <2>1
    <3>. QED  BY <1>3, <1>5, <3>1, HeldIs
  <2>. QED  BY <1>3, <2>2
<1>6. CASE m < L
  <2>1. m + 1 \in 1..L /\ ~(m + 1 <= m)
    BY <1>0, <1>3, <1>6
  <2>2. m + 1 \notin S
    BY <1>2, <2>1
  <2>3. ls[m + 1].start \in Nat /\ at < ls[m + 1].start
    <3>1. ls[m + 1].start \in Nat
      BY <2>1, LineIs
    <3>2. ~(ls[m + 1].start <= at)
      BY <2>1, <2>2
    <3>. HIDE DEF S, L
    <3>. QED  BY <3>1, <3>2
  <2>4. FollowsLine(ls[m], ls[m + 1].start)
    BY <1>3, <1>6, LineIs
  <2>. HIDE DEF S, L
  <2>5. CASE ls[m + 1].start = ls[m].start + ls[m].length
    <3>1. at < ls[m].start + ls[m].length /\ at <= ls[m].start + ls[m].length
      BY <1>4, <2>3, <2>5
    <3>2. HeldBy(ls, at, m)
      BY <1>3, <3>1, HeldIs
    <3>. QED  BY <1>3, <3>2 DEF L
  <2>6. CASE /\ ls[m + 1].start = ls[m].start + ls[m].length + 1
             /\ ls[m + 1].start <= Len(input) /\ input[ls[m + 1].start] = Break
    <3>1. at <= ls[m].start + ls[m].length
      BY <1>4, <2>3, <2>6
    <3>2. at < ls[m].start + ls[m].length \/ at + 1 = ls[m + 1].start
      BY <1>4, <2>3, <2>6
    <3>3. at + 1 = ls[m + 1].start => at < Len(input) /\ input[at + 1] = Break
      BY <1>0, <2>6
    <3>4. HeldBy(ls, at, m)
      BY <1>3, <3>1, <3>2, <3>3, HeldIs
    <3>. QED  BY <1>3, <3>4 DEF L
  <2>. QED  BY <2>4, <2>5, <2>6 DEF FollowsLine
<1>. QED  BY <1>3, <1>5, <1>6

\* Shown is the first line that holds the position, and the place on it.
LEMMA ShownIs ==
  ASSUME LineTypeOK, NEW ls, WholeLines(ls), NEW at \in 0..Len(input)
  PROVE  \E k \in 1..Len(ls) :
           /\ HeldBy(ls, at, k) /\ \A j \in 1..Len(ls) : HeldBy(ls, at, j) => k <= j
           /\ Shown(ls, at)[1] = k /\ Shown(ls, at)[2] = ls[k].col + at - ls[k].start
<1>. DEFINE L == Len(ls)
            holders == {i \in DOMAIN ls : HeldBy(ls, at, i)}
            line == CHOOSE i \in holders : \A j \in holders : i <= j
<1>0. L \in Nat /\ DOMAIN ls = 1..L
  BY DEF WholeLines, CoversInput
<1>1. holders # {} /\ holders \in SUBSET Nat
  <2>1. \E i \in 1..L : HeldBy(ls, at, i)
    BY SomeLineHolds
  <2>. QED  BY <1>0, <2>1
<1>2. line \in holders /\ \A j \in holders : line <= j
  <2>. HIDE DEF holders
  <2>1. \E i \in holders : \A j \in holders : i <= j
    BY <1>1, LeastNumber
  <2>. QED  BY <2>1
<1>3. line \in 1..L /\ HeldBy(ls, at, line) /\ \A j \in 1..L : HeldBy(ls, at, j) => line <= j
  BY <1>0, <1>2
<1>4. Shown(ls, at) = <<line, ls[line].col + at - ls[line].start>>
  BY <1>1 DEF Shown
<1>. HIDE DEF line, holders
<1>5. Shown(ls, at)[1] = line /\ Shown(ls, at)[2] = ls[line].col + at - ls[line].start
  BY <1>4
<1>. QED  BY <1>3, <1>5

\* A line break at the start of a line, and the line is empty.
LEMMA EmptyAtBreak ==
  ASSUME NEW ls, WholeLines(ls), NEW j \in 1..Len(ls), NEW at \in Nat, ls[j].start = at,
         input[at + 1] = Break
  PROVE  ls[j].length = 0
<1>1. ls[j].length \in Nat /\ \A q \in at..at + ls[j].length - 1 : input[q + 1] # Break
  BY LineIs
<1>2. at \notin at..at + ls[j].length - 1
  BY <1>1
<1>. QED  BY <1>1, <1>2

\* A position that a line before the last holds at its end, when the next line starts there.
LEMMA FullBefore ==
  ASSUME NEW ls, WholeLines(ls), NEW i \in 1..Len(ls), i < Len(ls), NEW at \in Nat,
         HeldBy(ls, at, i), at = ls[i].start + ls[i].length, ls[i + 1].start = at
  PROVE  AfterFullLine(ls, at)
<1>0. Len(ls) \in Nat /\ i + 1 \in 1..Len(ls) /\ i + 1 \in 2..Len(ls) /\ i + 1 - 1 = i
  BY DEF WholeLines
<1>1. ls[i].start \in Nat /\ ls[i].length \in Nat
  BY LineIs
<1>2. at < Len(input) /\ input[at + 1] = Break
  <2>1. ~(at < ls[i].start + ls[i].length) /\ i # Len(ls)
    BY <1>0, <1>1
  <2>. QED  BY <2>1, HeldIs
<1>3. ls[i + 1].length = 0
  BY <1>0, <1>2, EmptyAtBreak
<1>4. EndOf(ls[i + 1 - 1]) = at
  BY <1>0 DEF EndOf
<1>. QED  BY <1>0, <1>2, <1>3, <1>4 DEF AfterFullLine

\* Two lines hold a position only after a full line.
LEMMA HeldTwice ==
  ASSUME NEW ls, WholeLines(ls), NEW at \in Nat, NEW i \in 1..Len(ls), NEW j \in 1..Len(ls),
         i < j, HeldBy(ls, at, i), HeldBy(ls, at, j)
  PROVE  AfterFullLine(ls, at)
<1>0. Len(ls) \in Nat /\ i + 1 \in 1..Len(ls) /\ i < Len(ls) /\ (i + 1 = j \/ i + 1 < j) /\ i < i + 1
  BY DEF WholeLines
<1>1. /\ ls[i].start \in Nat /\ ls[i].length \in Nat /\ ls[j].start \in Nat
      /\ ls[i + 1].start \in Nat
  BY <1>0, LineIs
<1>2. ls[i].start + ls[i].length <= ls[i + 1].start /\ (i + 1 < j => ls[i + 1].start < ls[j].start)
  BY <1>0, StartsRise
<1>3. at <= ls[i].start + ls[i].length /\ ls[j].start <= at
  BY HeldIs
<1>4. i + 1 = j
  BY <1>0, <1>1, <1>2, <1>3
<1>5. at = ls[i].start + ls[i].length /\ ls[i + 1].start = at
  BY <1>1, <1>2, <1>3, <1>4
<1>. QED  BY <1>0, <1>5, FullBefore

\* LinesCover, from what is known of the lines.
LEMMA LinesCoverHolds == LineTypeOK => LinesCover
<1>. SUFFICES ASSUME LineTypeOK PROVE LinesCover
  OBVIOUS
<1>. DEFINE ls == VisualLines
            L == Len(ls)
<1>0. WholeLines(ls)
  BY LinesAre
<1>. HIDE DEF ls
<1>1. L \in Nat /\ 1 \in 1..L /\ L \in 1..L /\ DOMAIN ls = 1..L
  BY <1>0 DEF WholeLines, CoversInput
<1>2. ls[1].start = 0
  BY <1>0, <1>1, LineIs
<1>3. EndOf(Last(ls)) = Len(input)
  BY <1>0 DEF WholeLines, EndOf, Last
<1>4. \A i \in DOMAIN ls : ls[i].col + ls[i].length <= width
  BY <1>0, <1>1, LineIs
<1>5. ASSUME NEW i \in 1..L - 1
      PROVE  LET end == EndOf(ls[i])
             IN \/ ls[i + 1].start = end
                \/ ls[i + 1].start = end + 1 /\ input[end + 1] = Break
  <2>1. i \in 1..L /\ i < L
    BY <1>1
  <2>2. FollowsLine(ls[i], ls[i + 1].start)
    BY <1>0, <2>1, LineIs
  <2>. QED  BY <2>2 DEF FollowsLine, EndOf
<1>. HIDE DEF L
<1>6. /\ ls[1].start = 0 /\ EndOf(Last(ls)) = Len(input)
      /\ \A i \in DOMAIN ls : ls[i].col + ls[i].length <= width
      /\ \A i \in 1..Len(ls) - 1 :
           LET end == EndOf(ls[i])
           IN \/ ls[i + 1].start = end
              \/ ls[i + 1].start = end + 1 /\ input[end + 1] = Break
  BY <1>2, <1>3, <1>4, <1>5 DEF L
<1>. QED  BY <1>6 DEF LinesCover, ls

\* The column of a position is on the terminal, but after a full line.
LEMMA ColumnFits ==
  ASSUME LineTypeOK, NEW ls, WholeLines(ls), NEW at \in 0..Len(input)
  PROVE  Shown(ls, at)[2] < width \/ AfterFullLine(ls, at)
<1>1. PICK k \in 1..Len(ls) : HeldBy(ls, at, k) /\ Shown(ls, at)[2] = ls[k].col + at - ls[k].start
  BY ShownIs
<1>. DEFINE st == ls[k].start len == ls[k].length col == ls[k].col L == Len(ls)
<1>2. st \in Nat /\ len \in Nat /\ col \in Nat /\ col + len <= width
  BY LineIs
<1>3. at \in Nat /\ width \in Nat /\ L \in Nat
  BY LineAssumption DEF LineTypeOK, WholeLines
<1>4. st <= at /\ at <= st + len
  BY <1>1, HeldIs
<1>5. k < L => FollowsLine(ls[k], ls[k + 1].start)
  BY LineIs
<1>6. k = L => col + len < width
  BY DEF WholeLines
<1>7. k < L \/ k = L
  BY <1>3
<1>. HIDE DEF st, len, col, L
<1>8. CASE col + len < width \/ at < st + len
  <2>1. col + at - st < width
    BY <1>2, <1>3, <1>4, <1>8
  <2>. QED  BY <1>1, <2>1 DEF st, col
<1>9. CASE ~(col + len < width) /\ ~(at < st + len)
  <2>1. at = st + len /\ k < L
    BY <1>2, <1>3, <1>4, <1>6, <1>7, <1>9
  <2>2. ls[k + 1].start = st + len
    BY <1>5, <1>9, <2>1 DEF FollowsLine, st, len, col
  <2>. QED  BY <1>1, <1>3, <2>1, <2>2, FullBefore DEF L, st, len
<1>. QED  BY <1>8, <1>9

\* The next position is shown later.
LEMMA ShownLater ==
  ASSUME LineTypeOK, NEW ls, WholeLines(ls), NEW at \in 1..Len(input)
  PROVE  \/ Shown(ls, at - 1)[1] < Shown(ls, at)[1]
         \/ Shown(ls, at - 1)[1] = Shown(ls, at)[1] /\ Shown(ls, at - 1)[2] < Shown(ls, at)[2]
<1>0. /\ Len(input) \in Nat /\ at \in 0..Len(input) /\ at - 1 \in 0..Len(input) /\ at \in Nat
      /\ Len(ls) \in Nat
  BY DEF LineTypeOK, WholeLines
<1>1. PICK k \in 1..Len(ls) :
        /\ HeldBy(ls, at - 1, k)
        /\ Shown(ls, at - 1)[1] = k /\ Shown(ls, at - 1)[2] = ls[k].col + (at - 1) - ls[k].start
  BY <1>0, ShownIs
<1>2. PICK h \in 1..Len(ls) :
        HeldBy(ls, at, h) /\ Shown(ls, at)[1] = h /\ Shown(ls, at)[2] = ls[h].col + at - ls[h].start
  BY <1>0, ShownIs
<1>3. ls[k].start <= at - 1 /\ at <= ls[h].start + ls[h].length
  BY <1>1, <1>2, HeldIs
<1>4. /\ ls[k].start \in Nat /\ ls[k].col \in Nat
      /\ ls[h].start \in Nat /\ ls[h].col \in Nat /\ ls[h].length \in Nat
  BY LineIs
<1>5. ~(h < k)
  <2>1. SUFFICES ASSUME h < k PROVE FALSE
    OBVIOUS
  <2>2. ls[h].start + ls[h].length <= ls[k].start
    BY <2>1, StartsRise
  <2>. DEFINE a == ls[h].start + ls[h].length b == ls[k].start
  <2>3. a \in Nat /\ b \in Nat /\ a <= b /\ b <= at - 1 /\ at <= a
    BY <1>3, <1>4, <2>2
  <2>. HIDE DEF a, b
  <2>. QED  BY <1>0, <2>3
<1>6. k < h \/ k = h
  BY <1>0, <1>5
<1>7. CASE k = h
  <2>. DEFINE col == ls[k].col st == ls[k].start
  <2>1. col \in Nat /\ st \in Nat
    BY <1>4
  <2>. HIDE DEF col, st
  <2>2. col + (at - 1) - st < col + at - st
    BY <1>0, <2>1
  <2>. QED  BY <1>1, <1>2, <1>7, <2>2 DEF col, st
<1>. QED  BY <1>1, <1>2, <1>6, <1>7

LEMMA CursorFollowsHolds == LineTypeOK => CursorFollowsInput
<1>. SUFFICES ASSUME LineTypeOK PROVE CursorFollowsInput
  OBVIOUS
<1>. DEFINE ls == VisualLines
            shown == [at \in 0..Len(input) |-> Shown(ls, at)]
<1>0. WholeLines(ls) /\ Len(input) \in Nat
  BY LinesAre DEF LineTypeOK
<1>. HIDE DEF ls
<1>1. \A at \in 0..Len(input) : shown[at][2] < width \/ AfterFullLine(ls, at)
  BY <1>0, ColumnFits
<1>2. ASSUME NEW at \in 1..Len(input)
      PROVE  \/ shown[at - 1][1] < shown[at][1]
             \/ shown[at - 1][1] = shown[at][1] /\ shown[at - 1][2] < shown[at][2]
  <2>1. at \in 0..Len(input) /\ at - 1 \in 0..Len(input)
    BY <1>0
  <2>2. shown[at] = Shown(ls, at) /\ shown[at - 1] = Shown(ls, at - 1)
    BY <2>1
  <2>. HIDE DEF shown
  <2>. QED  BY <1>0, <2>2, ShownLater
<1>. QED  BY <1>1, <1>2 DEF CursorFollowsInput, ls

\* A position between the ends of a line is shown on it, or at the start of the next one.
LEMMA ShownOnLine ==
  ASSUME LineTypeOK, NEW ls, WholeLines(ls), \A at \in 0..Len(input) : ~AfterFullLine(ls, at),
         NEW k \in 1..Len(ls), NEW at \in Int, ls[k].start <= at, at <= ls[k].start + ls[k].length
  PROVE  Shown(ls, at)[1] = k \/ (Shown(ls, at)[1] = k + 1 /\ Shown(ls, at)[2] = 0)
<1>. DEFINE L == Len(ls)
<1>0. /\ L \in Nat /\ k \in Nat /\ k <= L /\ Len(input) \in Nat /\ ls[k].start \in Nat
      /\ ls[k].length \in Nat /\ ls[k].start + ls[k].length <= Len(input)
  BY LineIs, EndsWithin DEF WholeLines, LineTypeOK
<1>1. at \in 0..Len(input) /\ at \in Nat
  BY <1>0
<1>2. PICK h \in 1..L :
        HeldBy(ls, at, h) /\ Shown(ls, at)[1] = h /\ Shown(ls, at)[2] = ls[h].col + at - ls[h].start
  BY <1>1, ShownIs
<1>3. \A i, j \in 1..L : i < j => ~(HeldBy(ls, at, i) /\ HeldBy(ls, at, j))
  BY <1>1, HeldTwice
<1>4. \A i \in 1..L : HeldBy(ls, at, i) => i = h
  <2>. SUFFICES ASSUME NEW i \in 1..L, HeldBy(ls, at, i) PROVE i = h
    OBVIOUS
  <2>1. ~(i < h) /\ ~(h < i)
    BY <1>2, <1>3
  <2>. QED  BY <1>0, <2>1
<1>5. CASE at < ls[k].start + ls[k].length \/ k = L \/ (at < Len(input) /\ input[at + 1] = Break)
  <2>1. HeldBy(ls, at, k)
    BY <1>5, HeldIs
  <2>. QED  BY <1>2, <1>4, <2>1
<1>6. CASE ~(at < ls[k].start + ls[k].length) /\ k # L /\ ~(at < Len(input) /\ input[at + 1] = Break)
  <2>1. at = ls[k].start + ls[k].length /\ k < L /\ k + 1 \in 1..L /\ k + 1 # 1
    BY <1>0, <1>6
  <2>2. FollowsLine(ls[k], ls[k + 1].start)
    BY <2>1, LineIs
  <2>3. ls[k + 1].start = at
    <3>1. CASE ls[k + 1].start = ls[k].start + ls[k].length
      BY <2>1, <3>1
    <3>2. CASE /\ ls[k + 1].start = ls[k].start + ls[k].length + 1
               /\ ls[k + 1].start <= Len(input) /\ input[ls[k + 1].start] = Break
      <4>1. ls[k + 1].start = at + 1
        BY <2>1, <3>2
      <4>2. at < Len(input) /\ input[at + 1] = Break
        BY <1>0, <1>1, <3>2, <4>1
      <4>. QED  BY <1>6, <4>2
    <3>. QED  BY <2>2, <3>1, <3>2 DEF FollowsLine
  <2>4. /\ ls[k + 1].length \in Nat /\ ls[k + 1].col = 0
        /\ k + 1 < L => FollowsLine(ls[k + 1], ls[k + 1 + 1].start)
    BY <2>1, LineIs
  <2>5. at < ls[k + 1].start + ls[k + 1].length \/ k + 1 = L
    <3>1. SUFFICES ASSUME ls[k + 1].length = 0, k + 1 # L PROVE FALSE
      BY <1>1, <2>3, <2>4
    <3>2. k + 1 < L
      BY <1>0, <2>1, <3>1
    <3>3. /\ ls[k + 1 + 1].start = at + 1 /\ ls[k + 1 + 1].start <= Len(input)
          /\ input[ls[k + 1 + 1].start] = Break
      BY <1>1, <2>3, <2>4, <3>1, <3>2 DEF FollowsLine
    <3>4. at < Len(input) /\ input[at + 1] = Break
      BY <1>0, <1>1, <3>3
    <3>. QED  BY <1>6, <3>4
  <2>6. HeldBy(ls, at, k + 1)
    <3>1. ls[k + 1].start <= at /\ at <= ls[k + 1].start + ls[k + 1].length
      BY <1>1, <2>3, <2>4
    <3>. QED  BY <2>5, <3>1, HeldIs
  <2>7. h = k + 1
    BY <1>4, <2>1, <2>6
  <2>8. Shown(ls, at)[2] = 0
    BY <1>1, <1>2, <2>3, <2>4, <2>7
  <2>. QED  BY <1>2, <2>7, <2>8
<1>. QED  BY <1>5, <1>6

\* The nearest position is between the ends of the line.
LEMMA NearestIs ==
  ASSUME NEW ls, WholeLines(ls), NEW k \in 1..Len(ls), NEW col \in Int
  PROVE  /\ Nearest(ls[k], col) \in Int
         /\ ls[k].start <= Nearest(ls[k], col) /\ Nearest(ls[k], col) <= ls[k].start + ls[k].length
<1>. DEFINE line == ls[k] near == Nearest(line, col)
<1>1. line.start \in Nat /\ line.length \in Nat /\ line.col \in Nat
  BY LineIs
<1>. HIDE DEF line
<1>2. CASE col > line.col + line.length
  <2>1. near = line.start + line.length
    BY <1>1, <1>2 DEF Nearest, EndOf
  <2>. QED  BY <1>1, <2>1 DEF line
<1>3. CASE col < line.col
  <2>1. ~(col > line.col + line.length)
    BY <1>1, <1>3
  <2>2. near = line.start
    BY <1>1, <1>3, <2>1 DEF Nearest
  <2>. QED  BY <1>1, <2>2 DEF line
<1>4. CASE line.col <= col /\ col <= line.col + line.length
  <2>1. near = line.start + col - line.col
    BY <1>1, <1>4 DEF Nearest
  <2>. QED  BY <1>1, <1>4, <2>1 DEF line
<1>5. col > line.col + line.length \/ col < line.col \/ (line.col <= col /\ col <= line.col + line.length)
  BY <1>1
<1>. QED  BY <1>2, <1>3, <1>4, <1>5

\* The column of a position is a number.
LEMMA ColumnIs ==
  ASSUME LineTypeOK, NEW ls, WholeLines(ls), NEW at \in 0..Len(input)
  PROVE  Shown(ls, at)[1] \in 1..Len(ls) /\ Shown(ls, at)[2] \in Int
<1>1. PICK k \in 1..Len(ls) : Shown(ls, at)[1] = k /\ Shown(ls, at)[2] = ls[k].col + at - ls[k].start
  BY ShownIs
<1>2. ls[k].col \in Nat /\ ls[k].start \in Nat
  BY LineIs
<1>. QED  BY <1>1, <1>2

\* The keys go to the line before and to the line after.
LineStep ==
  cursor' # cursor =>
  LET lines == VisualLines
      from == Shown(lines, cursor)[1]
      to == Shown(lines, cursor')
  IN (\A at \in 0..Len(input) : ~AfterFullLine(lines, at)) =>
       /\ MoveUp => to[1] = from - 1 \/ (to[1] = from /\ to[2] = 0)
       /\ MoveDown => to[1] = from + 1 \/ (to[1] = from + 2 /\ to[2] = 0)

LEMMA ArrowsMove == LineTypeOK => LineStep
<1>. SUFFICES ASSUME LineTypeOK PROVE LineStep
  OBVIOUS
<1>. DEFINE ls == VisualLines
            from == Shown(ls, cursor)[1]
            col == Shown(ls, cursor)[2]
            to == Shown(ls, cursor')
<1>0. WholeLines(ls) /\ cursor \in 0..Len(input)
  BY LinesAre DEF LineTypeOK
<1>. HIDE DEF ls
<1>1. from \in 1..Len(ls) /\ col \in Int /\ Len(ls) \in Nat
  BY <1>0, ColumnIs DEF WholeLines
<1>2. SUFFICES ASSUME \A at \in 0..Len(input) : ~AfterFullLine(ls, at)
               PROVE  /\ MoveUp => to[1] = from - 1 \/ (to[1] = from /\ to[2] = 0)
                      /\ MoveDown => to[1] = from + 1 \/ (to[1] = from + 2 /\ to[2] = 0)
  BY DEF LineStep, ls
<1>3. ASSUME NEW k \in 1..Len(ls), cursor' = Nearest(ls[k], col)
      PROVE  to[1] = k \/ (to[1] = k + 1 /\ to[2] = 0)
  <2>1. /\ cursor' \in Int
        /\ ls[k].start <= cursor' /\ cursor' <= ls[k].start + ls[k].length
    BY <1>0, <1>1, <1>3, NearestIs
  <2>. QED  BY <1>0, <1>2, <2>1, ShownOnLine
<1>4. ASSUME MoveUp PROVE to[1] = from - 1 \/ (to[1] = from /\ to[2] = 0)
  <2>1. from > 1 /\ cursor' = Nearest(ls[from - 1], col)
    BY <1>4 DEF MoveUp, MovesTo, Becomes, ls
  <2>. HIDE DEF from, col, to
  <2>2. from - 1 \in 1..Len(ls) /\ from - 1 + 1 = from
    BY <1>1, <2>1
  <2>. QED  BY <1>3, <2>1, <2>2
<1>5. ASSUME MoveDown PROVE to[1] = from + 1 \/ (to[1] = from + 2 /\ to[2] = 0)
  <2>1. from < Len(ls) /\ cursor' = Nearest(ls[from + 1], col)
    BY <1>5 DEF MoveDown, MovesTo, Becomes, ls
  <2>. HIDE DEF from, col, to
  <2>2. from + 1 \in 1..Len(ls) /\ from + 1 + 1 = from + 2
    BY <1>1, <2>1
  <2>. QED  BY <1>3, <2>1, <2>2
<1>. QED  BY <1>4, <1>5

(***************************************************************************)
(* The input line: every step                                              *)
(***************************************************************************)

\* A part between two positions taken out.
LEMMA WithoutIs ==
  ASSUME LineTypeOK, NEW from \in 0..Len(input), NEW to \in 0..Len(input), from <= to
  PROVE  Without(from, to) \in Seq(Runes) /\ Len(Without(from, to)) = Len(input) - (to - from)
<1>. DEFINE N == Len(input) a == SubSeq(input, 1, from) b == SubSeq(input, to + 1, N)
<1>1. input \in Seq(Runes) /\ N \in Nat
  BY DEF LineTypeOK
<1>2. a \in Seq(Runes) /\ Len(a) = from
  BY <1>1, SubSeqProperties
<1>3. b \in Seq(Runes) /\ Len(b) = N - to
  BY <1>1, SubSeqProperties
<1>4. Without(from, to) = a \o b
  BY DEF Without
<1>. HIDE DEF a, b
<1>5. a \o b \in Seq(Runes) /\ Len(a \o b) = from + (N - to)
  BY <1>2, <1>3, ConcatProperties
<1>. HIDE DEF N
<1>6. from + (N - to) = N - (to - from)
  BY <1>1 DEF N
<1>. QED  BY <1>4, <1>5, <1>6 DEF N

LEMMA InsertIs ==
  ASSUME NEW S, NEW s \in Seq(S), NEW i \in 1..Len(s) + 1, NEW e \in S
  PROVE  InsertAt(s, i, e) \in Seq(S) /\ Len(InsertAt(s, i, e)) = Len(s) + 1
<1>. DEFINE a == SubSeq(s, 1, i - 1) b == SubSeq(s, i, Len(s)) c == <<e>> d == a \o c
<1>1. a \in Seq(S) /\ Len(a) = i - 1
  BY SubSeqProperties
<1>2. b \in Seq(S) /\ Len(b) = Len(s) - i + 1
  BY SubSeqProperties
<1>3. c \in Seq(S) /\ Len(c) = 1
  OBVIOUS
<1>4. InsertAt(s, i, e) = d \o b
  BY Zenon DEF InsertAt
<1>. HIDE DEF a, b, c
<1>5. d \in Seq(S) /\ Len(d) = Len(a) + Len(c)
  BY <1>1, <1>3, ConcatProperties
<1>. HIDE DEF d
<1>6. d \o b \in Seq(S) /\ Len(d \o b) = Len(d) + Len(b)
  BY <1>2, <1>5, ConcatProperties
<1>. DEFINE n == Len(s)
<1>7. i \in Int /\ n \in Int
  OBVIOUS
<1>. HIDE DEF n
<1>8. i - 1 + 1 + (n - i + 1) = n + 1
  BY <1>7
<1>. QED  BY <1>1, <1>2, <1>3, <1>4, <1>5, <1>6, <1>8 DEF n

LEMMA BackOverIs ==
  ASSUME NEW at \in Nat, NEW runes
  PROVE  BackOver(at, runes) \in 0..at
<1>. DEFINE stops == {i \in 1..at : input[i] \notin runes}
<1>1. CASE stops = {}
  BY <1>1 DEF BackOver
<1>2. CASE stops # {}
  <2>1. stops \in SUBSET (0..at)
    OBVIOUS
  <2>2. BackOver(at, runes) = Max(stops)
    BY <1>2 DEF BackOver
  <2>3. Max(stops) \in stops
    <3>. HIDE DEF stops
    <3>. QED  BY <1>2, <2>1, MaxIs
  <2>. QED  BY <2>1, <2>2, <2>3
<1>. QED  BY <1>1, <1>2

LEMMA AheadOverIs ==
  ASSUME LineTypeOK, NEW at \in 0..Len(input), NEW runes
  PROVE  AheadOver(at, runes) \in at..Len(input)
<1>. DEFINE stops == {i \in at..Len(input) - 1 : input[i + 1] \notin runes}
<1>0. Len(input) \in Nat
  BY DEF LineTypeOK
<1>1. CASE stops = {}
  BY <1>0, <1>1 DEF AheadOver
<1>2. CASE stops # {}
  <2>1. stops \in SUBSET Nat /\ stops \in SUBSET (at..Len(input))
    BY <1>0
  <2>2. AheadOver(at, runes) = Min(stops)
    BY <1>2 DEF AheadOver
  <2>3. Min(stops) \in stops
    <3>. HIDE DEF stops
    <3>. QED  BY <1>2, <2>1, MinIs
  <2>. QED  BY <2>1, <2>2, <2>3
<1>. QED  BY <1>1, <1>2

\* A text no longer than the input, with a cursor in it.
LEMMA BecomesKeeps ==
  ASSUME LineTypeOK, NEW text \in Seq(Runes), NEW at \in 0..Len(text), Len(text) <= MaxRunes,
         Becomes(text, at)
  PROVE  LineTypeOK'
  BY DEF LineTypeOK, Becomes

LEMMA MoveKeeps == ASSUME LineTypeOK, NEW at \in 0..Len(input), MovesTo(at)  PROVE LineTypeOK'
  BY DEF LineTypeOK, MovesTo, Becomes

LEMMA CutKeeps ==
  ASSUME LineTypeOK, NEW from \in 0..Len(input), NEW to \in 0..Len(input), from <= to,
         Becomes(Without(from, to), from)
  PROVE  LineTypeOK'
<1>1. Len(input) \in Nat /\ Len(input) <= MaxRunes /\ MaxRunes \in Nat
  BY LineAssumption DEF LineTypeOK
<1>. DEFINE text == Without(from, to)
<1>2. text \in Seq(Runes) /\ Len(text) = Len(input) - (to - from)
  BY WithoutIs
<1>. HIDE DEF text
<1>3. from \in 0..Len(text) /\ Len(text) <= MaxRunes
  BY <1>1, <1>2
<1>. QED  BY <1>2, <1>3, BecomesKeeps DEF text

\* The keys that change the line.
LEMMA EditsKeep ==
  ASSUME LineTypeOK,
         \/ InsertAtCursor \/ DeleteBeforeCursor \/ DeleteAtCursor \/ DeleteWordBackward
         \/ KillLine \/ KillToStart \/ ResetInput
  PROVE  LineTypeOK'
<1>1. /\ Len(input) \in Nat /\ Len(input) <= MaxRunes /\ MaxRunes \in Nat /\ cursor \in 0..Len(input)
      /\ cursor \in Nat
  BY LineAssumption DEF LineTypeOK
<1>2. CASE InsertAtCursor
  <2>1. PICK r \in Runes : Becomes(InsertAt(input, cursor + 1, r), cursor + 1)
    BY <1>2 DEF InsertAtCursor
  <2>. DEFINE text == InsertAt(input, cursor + 1, r)
  <2>2. text \in Seq(Runes) /\ Len(text) = Len(input) + 1
    <3>1. cursor + 1 \in 1..Len(input) + 1 /\ input \in Seq(Runes)
      BY <1>1 DEF LineTypeOK
    <3>. QED  BY <3>1, InsertIs
  <2>3. Len(input) < MaxRunes
    BY <1>2 DEF InsertAtCursor
  <2>. HIDE DEF text
  <2>4. cursor + 1 \in 0..Len(text) /\ Len(text) <= MaxRunes
    BY <1>1, <2>2, <2>3
  <2>. QED  BY <2>1, <2>2, <2>4, BecomesKeeps DEF text
<1>3. CASE DeleteBeforeCursor
  <2>1. cursor - 1 \in 0..Len(input) /\ cursor - 1 <= cursor
    BY <1>1, <1>3 DEF DeleteBeforeCursor
  <2>. QED  BY <1>1, <1>3, <2>1, CutKeeps DEF DeleteBeforeCursor
<1>4. CASE DeleteAtCursor
  <2>1. cursor + 1 \in 0..Len(input) /\ cursor <= cursor + 1
    BY <1>1, <1>4 DEF DeleteAtCursor
  <2>. QED  BY <1>1, <1>4, <2>1, CutKeeps DEF DeleteAtCursor
<1>5. CASE DeleteWordBackward
  <2>. DEFINE word == BackOver(cursor, {Blank}) start == BackOver(word, {"x"})
  <2>1. word \in 0..cursor
    BY <1>1, BackOverIs
  <2>. HIDE DEF word
  <2>2. start \in 0..word
    BY <1>1, <2>1, BackOverIs
  <2>. HIDE DEF start
  <2>3. start \in 0..Len(input) /\ start <= cursor
    BY <1>1, <2>1, <2>2
  <2>4. Becomes(Without(start, cursor), start)
    BY <1>5 DEF DeleteWordBackward, start, word
  <2>. QED  BY <1>1, <2>3, <2>4, CutKeeps
<1>6. CASE KillLine
  <2>. DEFINE end == AheadOver(cursor, Runes \ {Break})
  <2>1. end \in cursor..Len(input)
    BY <1>1, AheadOverIs
  <2>2. Becomes(Without(cursor, end), cursor)
    BY <1>6 DEF KillLine
  <2>. HIDE DEF end
  <2>3. end \in 0..Len(input) /\ cursor <= end
    BY <1>1, <2>1
  <2>. QED  BY <1>1, <2>2, <2>3, CutKeeps
<1>7. CASE KillToStart
  <2>. DEFINE start == BackOver(cursor, Runes \ {Break})
  <2>1. start \in 0..cursor
    BY <1>1, BackOverIs
  <2>2. Becomes(Without(start, cursor), start)
    BY <1>7 DEF KillToStart
  <2>. HIDE DEF start
  <2>3. start \in 0..Len(input) /\ start <= cursor
    BY <1>1, <2>1
  <2>. QED  BY <1>1, <2>2, <2>3, CutKeeps
<1>8. CASE ResetInput
  <2>1. <<>> \in Seq(Runes) /\ Len(<<>>) = 0
    OBVIOUS
  <2>2. 0 \in 0..Len(<<>>) /\ Len(<<>>) <= MaxRunes /\ Becomes(<<>>, 0)
    BY <1>1, <1>8, <2>1 DEF ResetInput
  <2>. QED  BY <2>1, <2>2, BecomesKeeps
<1>. QED  BY <1>2, <1>3, <1>4, <1>5, <1>6, <1>7, <1>8

\* The keys that move in it.
LEMMA MovesKeep ==
  ASSUME LineTypeOK,
         \/ MoveRight \/ MoveLeft \/ Home \/ End \/ MoveWordLeft \/ MoveWordRight \/ MoveUp \/ MoveDown
  PROVE  LineTypeOK'
<1>1. Len(input) \in Nat /\ cursor \in 0..Len(input) /\ cursor \in Nat
  BY DEF LineTypeOK
<1>2. CASE MoveRight
  <2>1. cursor + 1 \in 0..Len(input)
    BY <1>1, <1>2 DEF MoveRight
  <2>. QED  BY <1>2, <2>1, MoveKeeps DEF MoveRight
<1>3. CASE MoveLeft
  <2>1. cursor - 1 \in 0..Len(input)
    BY <1>1, <1>3 DEF MoveLeft
  <2>. QED  BY <1>3, <2>1, MoveKeeps DEF MoveLeft
<1>4. CASE Home
  <2>1. 0 \in 0..Len(input)
    BY <1>1
  <2>. QED  BY <1>4, <2>1, MoveKeeps DEF Home
<1>5. CASE End
  <2>1. Len(input) \in 0..Len(input)
    BY <1>1
  <2>. QED  BY <1>5, <2>1, MoveKeeps DEF End
<1>6. CASE MoveWordLeft
  <2>. DEFINE over == {i \in 0..cursor - 1 : input[i + 1] # Blank}
              at == IF over = {} THEN 0 ELSE Max(over)
              to == BackOver(at, {"x"})
  <2>1. cursor > 0 /\ MovesTo(to)
    BY <1>6 DEF MoveWordLeft
  <2>2. at \in 0..cursor
    <3>1. CASE over = {}
      BY <1>1, <3>1
    <3>2. CASE over # {}
      <4>1. cursor - 1 \in Nat /\ over \in SUBSET (0..cursor - 1)
        BY <1>1, <2>1
      <4>2. Max(over) \in over
        <5>. HIDE DEF over
        <5>. QED  BY <3>2, <4>1, MaxIs
      <4>3. at = Max(over)
        BY <3>2
      <4>. HIDE DEF at
      <4>. QED  BY <1>1, <4>1, <4>2, <4>3
    <3>. QED  BY <3>1, <3>2
  <2>. HIDE DEF at
  <2>3. to \in 0..at
    BY <1>1, <2>2, BackOverIs
  <2>. HIDE DEF to
  <2>4. to \in 0..Len(input)
    BY <1>1, <2>2, <2>3
  <2>. QED  BY <2>1, <2>4, MoveKeeps
<1>7. CASE MoveWordRight
  <2>. DEFINE word == AheadOver(cursor + 1, {"x"}) to == AheadOver(word, {Blank})
  <2>1. cursor + 1 \in 0..Len(input) /\ MovesTo(to)
    BY <1>1, <1>7 DEF MoveWordRight
  <2>2. word \in cursor + 1..Len(input)
    BY <2>1, AheadOverIs
  <2>. HIDE DEF word
  <2>3. word \in 0..Len(input)
    BY <1>1, <2>2
  <2>4. to \in word..Len(input)
    BY <2>3, AheadOverIs
  <2>. HIDE DEF to
  <2>5. to \in 0..Len(input)
    BY <1>1, <2>3, <2>4
  <2>. QED  BY <2>1, <2>5, MoveKeeps
<1>8. ASSUME NEW k \in 1..Len(VisualLines), MovesTo(Nearest(VisualLines[k], Shown(VisualLines, cursor)[2]))
      PROVE  LineTypeOK'
  <2>. DEFINE ls == VisualLines col == Shown(ls, cursor)[2] to == Nearest(ls[k], col)
  <2>1. WholeLines(ls)
    BY LinesAre
  <2>2. MovesTo(to)
    BY <1>8
  <2>. HIDE DEF ls
  <2>3. k \in 1..Len(ls)
    BY <1>8 DEF ls
  <2>4. col \in Int
    BY <1>1, <2>1, ColumnIs
  <2>. HIDE DEF col
  <2>5. to \in Int /\ ls[k].start <= to /\ to <= ls[k].start + ls[k].length
    BY <2>1, <2>3, <2>4, NearestIs
  <2>6. ls[k].start \in Nat /\ ls[k].length \in Nat /\ ls[k].start + ls[k].length <= Len(input)
    BY <2>1, <2>3, LineIs, EndsWithin
  <2>. HIDE DEF to
  <2>7. to \in 0..Len(input)
    BY <1>1, <2>5, <2>6
  <2>. QED  BY <2>2, <2>7, MoveKeeps
<1>9. Shown(VisualLines, cursor)[1] \in 1..Len(VisualLines) /\ Len(VisualLines) \in Nat
  <2>1. WholeLines(VisualLines)
    BY LinesAre
  <2>. QED  BY <1>1, <2>1, ColumnIs DEF WholeLines
<1>. DEFINE from == Shown(VisualLines, cursor)[1]
<1>10. CASE MoveUp
  <2>1. from > 1 /\ MovesTo(Nearest(VisualLines[from - 1], Shown(VisualLines, cursor)[2]))
    BY <1>10 DEF MoveUp
  <2>. HIDE DEF from
  <2>2. from - 1 \in 1..Len(VisualLines)
    BY <1>9, <2>1 DEF from
  <2>. QED  BY <1>8, <2>1, <2>2
<1>11. CASE MoveDown
  <2>1. from < Len(VisualLines) /\ MovesTo(Nearest(VisualLines[from + 1], Shown(VisualLines, cursor)[2]))
    BY <1>11 DEF MoveDown
  <2>. HIDE DEF from
  <2>2. from + 1 \in 1..Len(VisualLines)
    BY <1>9, <2>1 DEF from
  <2>. QED  BY <1>8, <2>1, <2>2
<1>. QED  BY <1>2, <1>3, <1>4, <1>5, <1>6, <1>7, <1>10, <1>11

LEMMA LineKeeps == LineTypeOK /\ [LineNext]_inputVars => LineTypeOK'
<1>. SUFFICES ASSUME LineTypeOK, [LineNext]_inputVars PROVE LineTypeOK'
  OBVIOUS
<1>1. CASE Resize
  BY <1>1 DEF Resize, LineTypeOK
<1>2. CASE UNCHANGED inputVars
  BY <1>2 DEF inputVars, LineTypeOK
<1>. QED  BY <1>1, <1>2, EditsKeep, MovesKeep DEF LineNext

\* What is typed is shown, all of it and in one order, on lines that fit the terminal; the
\* cursor moves with it, and the arrow keys go to the line next to the cursor's (getVisualLines
\* and cursorVisualPos in render.go, moveUp and moveDown in input.go).
THEOREM InputShown == LineSpec => LineEdited
<1>1. LineInit => LineTypeOK
  <2>1. <<>> \in Seq(Runes) /\ Len(<<>>) = 0
    OBVIOUS
  <2>. QED  BY <2>1, LineAssumption DEF LineInit, LineTypeOK
<1>2. LineTypeOK => LineTypeOK /\ LinesCover /\ CursorFollowsInput
  BY LinesCoverHolds, CursorFollowsHolds
<1>3. LineTypeOK /\ [LineNext]_inputVars => [LineStep]_inputVars
  BY ArrowsMove
<1>. QED  BY <1>1, <1>2, <1>3, LineKeeps, PTL
          DEF LineSpec, LineEdited, ArrowsMoveByLine, LineStep

=============================================================================
