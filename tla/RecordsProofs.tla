--------------------------- MODULE RecordsProofs ---------------------------
(***************************************************************************)
(* Proofs about six of the records herm keeps, for every number of         *)
(* processes, agents, calls and nodes: the prompt history ends with the    *)
(* newest prompts, the request cache answers only what a caller was given  *)
(* to the end, permissions last as long as they were given for, a project  *)
(* keeps its number and its live locks, a compaction loses nothing that    *)
(* was said, and the trace of a conversation has what was told of it.      *)
(***************************************************************************)
EXTENDS PromptHistory, RequestCache, NakedPermissions, Worktrees, Conversation, Trace,
        SequenceTheorems, FiniteSetTheorems, TLAPS

(***************************************************************************)
(* The prompt history                                                      *)
(***************************************************************************)

File == {"file", "tmp"}
Texts == Prompts \cup {NoText}
Rewriters == {p \in Procs : proc[p] \in {"rewriting", "written"}}

KeptOK ==
  /\ files \in [File -> Seq(Prompts) \cup {Absent}]
  /\ handle \in [Procs -> {"file", "tmp", "gone", "none"}]
  /\ proc \in [Procs -> {"new", "counting", "rewriting", "written", "ready", "over"}]
  /\ entries \in [Procs -> Seq(Prompts)] /\ \A p \in Procs : Len(entries[p]) <= MaxSize
  /\ log \in Seq(Prompts) /\ raced \in BOOLEAN

\* A file is open for a rewrite only, and as long as it lasts.
HandlesFit == \A p \in Procs : handle[p] = "none" <=> p \notin Rewriters

\* As long as nobody met, one process at most rewrites: what it writes, and what every
\* loading process has read, is the newest part of the file.
RewriteGoesOn ==
  ~raced =>
    /\ \A p, q \in Rewriters : p = q
    /\ \A p \in Loading : entries[p] = Newest(Content("file"))
    /\ \A p \in Rewriters :
         handle[p] = "tmp" /\ files["tmp"] = IF proc[p] = "written" THEN entries[p] ELSE <<>>

\* A walk through the history is one of a process that is ready, and has left what was
\* typed in the draft.
WalkOK ==
  /\ index \in [Procs -> Int] /\ draft \in [Procs -> Texts] /\ line \in [Procs -> Texts]
  /\ typed \in [Procs -> Texts]
  /\ \A p \in Procs :
       /\ index[p] \in -1..Len(entries[p]) - 1
       /\ proc[p] # "ready" => index[p] = -1
       /\ typed[p] # NoText => IF index[p] = -1 THEN line[p] = typed[p] ELSE draft[p] = typed[p]

\* The inductive invariant.
HistIndInv == KeptOK /\ HandlesFit /\ RewriteGoesOn /\ NewestSurvive /\ WalkOK

-----------------------------------------------------------------------------
(* The newest prompts of a history *)

Shorter(n) == IF n > MaxSize THEN MaxSize ELSE n

LEMMA NewestIs ==
  ASSUME NEW s \in Seq(Prompts)
  PROVE  /\ Newest(s) \in Seq(Prompts) /\ Len(Newest(s)) = Shorter(Len(s)) /\ Len(Newest(s)) <= MaxSize
         /\ \A i \in 1..Shorter(Len(s)) : Newest(s)[i] = s[Len(s) - Shorter(Len(s)) + i]
<1>0. MaxSize \in Nat \ {0} /\ Len(s) \in Nat
  BY HistoryAssumption
<1>1. CASE Len(s) > MaxSize
  <2>1. Newest(s) = SubSeq(s, Len(s) - MaxSize + 1, Len(s)) /\ Shorter(Len(s)) = MaxSize
    BY <1>1 DEF Newest, Shorter
  <2>2. Len(s) - MaxSize + 1 \in 1..Len(s)
    BY <1>0, <1>1
  <2>3. SubSeq(s, Len(s) - MaxSize + 1, Len(s)) \in Seq(Prompts)
    BY <1>0, <2>2
  <2>4. Len(SubSeq(s, Len(s) - MaxSize + 1, Len(s))) = MaxSize
    BY <1>0, <2>2
  <2>5. ASSUME NEW i \in 1..MaxSize
        PROVE  SubSeq(s, Len(s) - MaxSize + 1, Len(s))[i] = s[Len(s) - MaxSize + i]
    BY <1>0, <1>1, <2>2
  <2>6. Newest(s) \in Seq(Prompts) /\ Len(Newest(s)) = Shorter(Len(s))
    BY <2>1, <2>3, <2>4
  <2>7. Len(Newest(s)) <= MaxSize
    BY <1>0, <2>1, <2>6
  <2>8. \A i \in 1..Shorter(Len(s)) : Newest(s)[i] = s[Len(s) - Shorter(Len(s)) + i]
    BY <2>1, <2>5
  <2>. QED  BY <2>6, <2>7, <2>8
<1>2. CASE ~(Len(s) > MaxSize)
  BY <1>0, <1>2 DEF Newest, Shorter
<1>. QED  BY <1>1, <1>2

LEMMA NewestOfNewest ==
  ASSUME NEW s \in Seq(Prompts)  PROVE Newest(Newest(s)) = Newest(s)
<1>1. Len(Newest(s)) <= MaxSize /\ Len(Newest(s)) \in Nat /\ MaxSize \in Nat
  BY NewestIs, HistoryAssumption
<1>. QED  BY <1>1 DEF Newest

LEMMA SameSequence ==
  ASSUME NEW s \in Seq(Prompts), NEW t \in Seq(Prompts), Len(s) = Len(t),
         \A i \in 1..Len(s) : s[i] = t[i]
  PROVE  s = t
OBVIOUS

LEMMA AppendIs ==
  ASSUME NEW s \in Seq(Prompts), NEW x \in Prompts
  PROVE  /\ Append(s, x) \in Seq(Prompts) /\ Len(Append(s, x)) = Len(s) + 1 /\ Len(s) \in Nat
         /\ \A i \in 1..Len(s) : Append(s, x)[i] = s[i]
         /\ Append(s, x)[Len(s) + 1] = x
OBVIOUS

LEMMA NewestOfLonger ==
  ASSUME NEW s \in Seq(Prompts), NEW x \in Prompts, NEW m \in Nat, m = Shorter(Len(s) + 1)
  PROVE  /\ Newest(Append(s, x)) \in Seq(Prompts) /\ Len(Newest(Append(s, x))) = m
         /\ \A i \in 1..m : Newest(Append(s, x))[i] = Append(s, x)[Len(s) + 1 - m + i]
<1>1. PICK w \in Seq(Prompts) : w = Append(s, x) /\ Len(w) = Len(s) + 1
  BY AppendIs
<1>2. Shorter(Len(w)) = m
  BY <1>1
<1>3. /\ Newest(w) \in Seq(Prompts) /\ Len(Newest(w)) = m
      /\ \A i \in 1..m : Newest(w)[i] = w[Len(w) - m + i]
  BY <1>2, NewestIs
<1>4. \A i \in 1..m : Newest(w)[i] = w[Len(s) + 1 - m + i]
  <2>1. Len(w) = Len(s) + 1
    BY <1>1
  <2>. QED  BY <1>3, <2>1
<1>. QED  BY <1>1, <1>3, <1>4, Zenon

\* Places counted from the end of a history, before and after a prompt is added.
LEMMA PlacesFromEnd ==
  ASSUME NEW n \in Nat, NEW k \in Nat, NEW m \in Nat, k <= n, m \in {k, k + 1},
         NEW i \in 1..m, i # m
  PROVE  /\ n + 1 - m + i \in 1..n /\ i + 1 - m + k \in 1..k
         /\ n + 1 - m + i = n - k + (i + 1 - m + k)
OBVIOUS

LEMMA NewestAppend ==
  ASSUME NEW s \in Seq(Prompts), NEW t \in Seq(Prompts), NEW x \in Prompts, Newest(s) = Newest(t)
  PROVE  Newest(Append(s, x)) = Newest(Append(t, x))
<1>0. MaxSize \in Nat \ {0} /\ Len(s) \in Nat /\ Len(t) \in Nat
  BY HistoryAssumption
<1>1. Append(s, x) \in Seq(Prompts) /\ Append(t, x) \in Seq(Prompts)
  BY AppendIs
<1>2. Len(Newest(s)) = Shorter(Len(s)) /\ Len(Newest(t)) = Shorter(Len(t))
  BY NewestIs
<1>3. PICK k \in Nat : k = Shorter(Len(s)) /\ k = Shorter(Len(t))
  BY <1>0, <1>2 DEF Shorter
<1>4. PICK m \in Nat : m = Shorter(Len(s) + 1) /\ m = Shorter(Len(t) + 1)
  BY <1>0, <1>3 DEF Shorter
<1>5. k <= Len(s) /\ k <= Len(t) /\ m \in {k, k + 1} /\ m # 0
  BY <1>0, <1>3, <1>4 DEF Shorter
<1>6. \A i \in 1..k : Newest(s)[i] = s[Len(s) - k + i] /\ Newest(t)[i] = t[Len(t) - k + i]
  BY <1>3, NewestIs
<1>7. \A i \in 1..k : s[Len(s) - k + i] = t[Len(t) - k + i]
  BY <1>6
<1>8. ASSUME NEW i \in 1..m  PROVE Append(s, x)[Len(s) + 1 - m + i] = Append(t, x)[Len(t) + 1 - m + i]
  <2>1. CASE i = m
    <3>1. Len(s) + 1 - m + i = Len(s) + 1 /\ Len(t) + 1 - m + i = Len(t) + 1
      BY <1>0, <2>1
    <3>. QED  BY <3>1, AppendIs
  <2>2. CASE i # m
    <3>1. PICK j \in Int : j = i + 1 - m + k
      OBVIOUS
    <3>2. /\ Len(s) + 1 - m + i \in 1..Len(s) /\ j \in 1..k
          /\ Len(s) + 1 - m + i = Len(s) - k + j
      BY <1>0, <1>5, <2>2, <3>1, PlacesFromEnd
    <3>3. Len(t) + 1 - m + i \in 1..Len(t) /\ Len(t) + 1 - m + i = Len(t) - k + j
      BY <1>0, <1>5, <2>2, <3>1, PlacesFromEnd
    <3>4. Append(s, x)[Len(s) + 1 - m + i] = s[Len(s) - k + j]
      BY <3>2, AppendIs
    <3>5. Append(t, x)[Len(t) + 1 - m + i] = t[Len(t) - k + j]
      BY <3>3, AppendIs
    <3>. QED  BY <1>7, <3>2, <3>4, <3>5
  <2>. QED  BY <2>1, <2>2
<1>9. /\ Newest(Append(s, x)) \in Seq(Prompts) /\ Len(Newest(Append(s, x))) = m
      /\ \A i \in 1..m : Newest(Append(s, x))[i] = Append(s, x)[Len(s) + 1 - m + i]
  BY <1>4, NewestOfLonger
<1>10. /\ Newest(Append(t, x)) \in Seq(Prompts) /\ Len(Newest(Append(t, x))) = m
       /\ \A i \in 1..m : Newest(Append(t, x))[i] = Append(t, x)[Len(t) + 1 - m + i]
  BY <1>4, NewestOfLonger
<1>. QED  BY <1>8, <1>9, <1>10, SameSequence

LEMMA ContentIs ==
  ASSUME KeptOK
  PROVE  /\ \A f \in File : Content(f) \in Seq(Prompts) /\ (files[f] # Absent => Content(f) = files[f])
         /\ \A s \in Seq(Prompts) : s # Absent
         /\ Loading \subseteq Procs /\ Rewriters \subseteq Loading
<1>1. \A s \in Seq(Prompts) : s # Absent
  <2>1. ASSUME NEW s \in Seq(Prompts), s = Absent  PROVE FALSE
    <3>1. Len(s) = 1 /\ s[1] = "absent"
      BY <2>1 DEF Absent
    <3>2. s[1] \in Prompts
      BY <3>1
    <3>. QED  BY <3>1, <3>2, HistoryAssumption
  <2>. QED  BY <2>1
<1>2. \A f \in File : Content(f) \in Seq(Prompts) /\ (files[f] # Absent => Content(f) = files[f])
  BY <1>1 DEF KeptOK, Content
<1>. QED  BY <1>1, <1>2 DEF Loading, Rewriters

LEMMA InMembers ==
  /\ Loading \subseteq Procs /\ Rewriters \subseteq Procs
  /\ \A q \in Procs : q \in Loading <=> proc[q] \in {"counting", "rewriting", "written"}
  /\ \A q \in Procs : q \in Rewriters <=> proc[q] \in {"rewriting", "written"}
BY DEF Loading, Rewriters

LEMMA HistInit == HistoryInit => HistIndInv
<1>. SUFFICES ASSUME HistoryInit  PROVE HistIndInv
  OBVIOUS
<1>0. <<>> \in Seq(Prompts) /\ Len(<<>>) = 0 /\ MaxSize \in Nat
  BY HistoryAssumption
<1>1. KeptOK
  <2>1. raced = FALSE
    BY DEF HistoryInit
  <2>2. raced \in BOOLEAN
    BY <2>1
  <2>. QED  BY <1>0, <2>2 DEF HistoryInit, KeptOK, File
<1>2. Loading = {} /\ Rewriters = {}
  BY DEF HistoryInit, Loading, Rewriters
<1>3. HandlesFit /\ RewriteGoesOn
  BY <1>2 DEF HistoryInit, HandlesFit, RewriteGoesOn
<1>4. Content("file") = log
  BY DEF HistoryInit, Content
<1>5. NewestSurvive
  BY <1>4 DEF NewestSurvive
<1>6. WalkOK
  BY <1>0 DEF HistoryInit, WalkOK, Texts
<1>. QED  BY <1>1, <1>3, <1>5, <1>6 DEF HistIndInv

-----------------------------------------------------------------------------
(* What a step of one process leaves to the others *)

\* A load or the rewrite of a file leaves the input line alone.
LEMMA WalkStands ==
  ASSUME HistIndInv, UNCHANGED navVars, entries' \in [Procs -> Seq(Prompts)],
         \A q \in Procs : proc[q] = "ready" => entries'[q] = entries[q] /\ proc'[q] = "ready"
  PROVE  WalkOK'
<1>1. UNCHANGED <<index, draft, line, typed>>
  BY DEF navVars
<1>2. \A q \in Procs : Len(entries'[q]) \in Nat
  OBVIOUS
<1>3. ASSUME NEW q \in Procs  PROVE index[q] \in -1..Len(entries'[q]) - 1
  <2>1. CASE proc[q] = "ready"
    <3>1. entries'[q] = entries[q] /\ index[q] \in -1..Len(entries[q]) - 1
      BY <2>1 DEF HistIndInv, WalkOK
    <3>. QED  BY <3>1, Zenon
  <2>2. CASE proc[q] # "ready"
    <3>1. index[q] = -1
      BY <2>2 DEF HistIndInv, WalkOK
    <3>. QED  BY <1>2, <3>1
  <2>. QED  BY <2>1, <2>2
<1>4. \A q \in Procs : proc'[q] # "ready" => index[q] = -1
  BY DEF HistIndInv, WalkOK
<1>5. ASSUME NEW q \in Procs, typed'[q] # NoText
      PROVE  IF index'[q] = -1 THEN line'[q] = typed'[q] ELSE draft'[q] = typed'[q]
  BY <1>1, <1>5 DEF HistIndInv, WalkOK
<1>6. \A q \in Procs : index'[q] \in -1..Len(entries'[q]) - 1 /\ (proc'[q] # "ready" => index'[q] = -1)
  BY <1>1, <1>3, <1>4
<1>7. /\ index' \in [Procs -> Int] /\ draft' \in [Procs -> Texts] /\ line' \in [Procs -> Texts]
      /\ typed' \in [Procs -> Texts]
  BY <1>1 DEF HistIndInv, WalkOK
<1>. QED  BY <1>5, <1>6, <1>7 DEF WalkOK

\* The keys that only edit or walk.
LEMMA FilesStand ==
  ASSUME HistIndInv, UNCHANGED KeyFrame
  PROVE  KeptOK' /\ HandlesFit' /\ RewriteGoesOn' /\ NewestSurvive'
<1>1. UNCHANGED <<files, handle, proc, entries, log, raced>>
  BY DEF KeyFrame
<1>2. /\ Content("file")' = Content("file") /\ Loading' = Loading /\ Rewriters' = Rewriters
      /\ KeptOK /\ HandlesFit /\ RewriteGoesOn /\ NewestSurvive
  BY <1>1 DEF HistIndInv, Content, Loading, Rewriters
<1>3. KeptOK' /\ HandlesFit'
  BY <1>1, <1>2 DEF KeptOK, HandlesFit
<1>4. RewriteGoesOn'
  BY <1>1, <1>2 DEF RewriteGoesOn
<1>5. NewestSurvive'
  BY <1>1, <1>2 DEF NewestSurvive
<1>. QED  BY <1>3, <1>4, <1>5

\* The walk of one process moves.
LEMMA WalkMoves ==
  ASSUME HistIndInv, UNCHANGED <<proc, entries>>, NEW p \in Procs, proc[p] = "ready",
         NEW i \in -1..Len(entries[p]) - 1, NEW d \in Texts, NEW l \in Texts, NEW t \in Texts,
         index' = [index EXCEPT ![p] = i], draft' = [draft EXCEPT ![p] = d],
         line' = [line EXCEPT ![p] = l], typed' = [typed EXCEPT ![p] = t],
         t # NoText => IF i = -1 THEN l = t ELSE d = t
  PROVE  WalkOK'
<1>1. Len(entries[p]) \in Nat
  BY DEF HistIndInv, KeptOK
<1>2. i \in Int
  BY <1>1
<1>. QED  BY <1>2 DEF HistIndInv, WalkOK

-----------------------------------------------------------------------------
(* The load and the rewrite *)

LEMMA LoadKeeps ==
  ASSUME HistIndInv, NEW p \in Procs, Load(p)  PROVE HistIndInv'
<1>1. KeptOK /\ HandlesFit
  BY DEF HistIndInv
<1>2. /\ proc[p] = "new" /\ UNCHANGED <<files, handle, log, raced>> /\ UNCHANGED navVars
      /\ entries' = [entries EXCEPT ![p] = Newest(Content("file"))]
      /\ proc'[p] \in {"ready", "counting"} /\ proc' \in [Procs -> {"new", "counting", "rewriting", "written", "ready", "over"}]
      /\ \A q \in Procs : q # p => proc'[q] = proc[q]
  BY <1>1 DEF Load, KeptOK
<1>3. Content("file") \in Seq(Prompts) /\ Content("file")' = Content("file")
  BY <1>1, <1>2, ContentIs DEF File, Content
<1>4. Newest(Content("file")) \in Seq(Prompts) /\ Len(Newest(Content("file"))) <= MaxSize
  BY <1>3, NewestIs
<1>5. KeptOK'
  BY <1>1, <1>2, <1>4 DEF KeptOK
<1>6. Rewriters' = Rewriters /\ Loading' \subseteq Loading \cup {p}
  BY <1>2 DEF Rewriters, Loading
<1>7. HandlesFit'
  BY <1>1, <1>2, <1>6 DEF HandlesFit
<1>8. RewriteGoesOn'
  <2>. SUFFICES ASSUME ~raced'  PROVE RewriteGoesOn'
    BY DEF RewriteGoesOn
  <2>1. RewriteGoesOn /\ ~raced
    BY <1>2 DEF HistIndInv
  <2>2. ASSUME NEW q \in Loading'  PROVE entries'[q] = Newest(Content("file")')
    <3>1. CASE q = p
      BY <1>1, <1>2, <1>3, <3>1 DEF KeptOK
    <3>2. CASE q # p
      BY <1>1, <1>2, <1>3, <1>6, <2>1, <3>2, InMembers DEF KeptOK, RewriteGoesOn
    <3>. QED  BY <3>1, <3>2
  <2>3. ASSUME NEW q \in Rewriters  PROVE entries'[q] = entries[q] /\ proc'[q] = proc[q]
    BY <1>1, <1>2, InMembers DEF KeptOK
  <2>. QED  BY <1>2, <1>6, <2>1, <2>2, <2>3 DEF RewriteGoesOn
<1>9. NewestSurvive'
  BY <1>2, <1>3 DEF HistIndInv, NewestSurvive
<1>10. WalkOK'
  BY <1>1, <1>2, <1>5, WalkStands DEF KeptOK
<1>. QED  BY <1>5, <1>7, <1>8, <1>9, <1>10 DEF HistIndInv

LEMMA CompactKeeps ==
  ASSUME HistIndInv, NEW p \in Procs, CompactIfNeeded(p)  PROVE HistIndInv'
<1>1. KeptOK /\ HandlesFit
  BY DEF HistIndInv
<1>2. /\ proc[p] = "counting" /\ UNCHANGED <<entries, log>> /\ UNCHANGED navVars
      /\ \/ /\ proc' = [proc EXCEPT ![p] = "rewriting"]
            /\ files' = [files EXCEPT !["tmp"] = <<>>] /\ handle' = [handle EXCEPT ![p] = "tmp"]
         \/ proc' = [proc EXCEPT ![p] = "ready"] /\ UNCHANGED <<files, handle>>
  BY DEF CompactIfNeeded
<1>3. raced' \in BOOLEAN /\ (~raced' => ~raced /\ Loading = {p})
  <2>1. raced' = (raced \/ Loading # {p})
    BY DEF CompactIfNeeded
  <2>. QED  BY <2>1, Zenon
<1>4. PICK empty \in Seq(Prompts) : empty = <<>>
  <2>1. <<>> \in Seq(Prompts)
    OBVIOUS
  <2>. QED  BY <2>1, Zenon
<1>5. KeptOK'
  <2>a. files' = files \/ files' = [files EXCEPT !["tmp"] = empty]
    BY <1>2, <1>4, Zenon
  <2>b. files' \in [File -> Seq(Prompts) \cup {Absent}]
    BY <1>1, <2>a DEF KeptOK, File
  <2>c. handle' \in [Procs -> {"file", "tmp", "gone", "none"}]
    BY <1>1, <1>2 DEF KeptOK
  <2>1. files' \in [File -> Seq(Prompts) \cup {Absent}] /\ handle' \in [Procs -> {"file", "tmp", "gone", "none"}]
    BY <2>b, <2>c
  <2>2. proc' \in [Procs -> {"new", "counting", "rewriting", "written", "ready", "over"}]
    BY <1>1, <1>2 DEF KeptOK
  <2>. QED  BY <1>1, <1>2, <1>3, <2>1, <2>2 DEF KeptOK
<1>6. Content("file")' = Content("file")
  BY <1>1, <1>2 DEF Content, KeptOK, File
<1>7. HandlesFit'
  <2>. SUFFICES ASSUME NEW q \in Procs  PROVE handle'[q] = "none" <=> ~(proc'[q] \in {"rewriting", "written"})
    BY DEF HandlesFit, Rewriters
  <2>1. handle[q] = "none" <=> ~(proc[q] \in {"rewriting", "written"})
    BY <1>1, InMembers DEF HandlesFit
  <2>. QED  BY <1>1, <1>2, <2>1 DEF KeptOK
<1>8. RewriteGoesOn'
  <2>. SUFFICES ASSUME ~raced'  PROVE RewriteGoesOn'
    BY DEF RewriteGoesOn
  <2>1. RewriteGoesOn /\ Loading = {p} /\ ~raced
    BY <1>3 DEF HistIndInv
  <2>2. Loading' \subseteq {p} /\ Rewriters' \subseteq {p}
    BY <1>1, <1>2, <2>1, InMembers DEF KeptOK, Loading, Rewriters
  <2>3. entries'[p] = Newest(Content("file")')
    BY <1>2, <1>6, <2>1 DEF RewriteGoesOn
  <2>4. p \in Rewriters' => handle'[p] = "tmp" /\ files'["tmp"] = <<>> /\ proc'[p] = "rewriting"
    BY <1>1, <1>2 DEF KeptOK, File, Rewriters
  <2>. QED  BY <2>2, <2>3, <2>4 DEF RewriteGoesOn
<1>9. NewestSurvive'
  BY <1>2, <1>3, <1>6 DEF HistIndInv, NewestSurvive
<1>10. WalkOK'
  BY <1>1, <1>2, <1>5, WalkStands DEF KeptOK
<1>. QED  BY <1>5, <1>7, <1>8, <1>9, <1>10 DEF HistIndInv

LEMMA WritesKeeps ==
  ASSUME HistIndInv, NEW p \in Procs, RewriteWrites(p)  PROVE HistIndInv'
<1>1. KeptOK /\ HandlesFit
  BY DEF HistIndInv
<1>2. /\ proc[p] = "rewriting" /\ proc' = [proc EXCEPT ![p] = "written"]
      /\ UNCHANGED <<handle, entries, log, raced>> /\ UNCHANGED navVars
  BY DEF RewriteWrites
<1>3. handle[p] \in {"file", "tmp", "gone"}
  BY <1>1, <1>2, InMembers DEF HandlesFit, KeptOK
<1>4. \/ handle[p] = "gone" /\ files' = files
      \/ /\ handle[p] \in File
         /\ files' = [files EXCEPT ![handle[p]] =
              entries[p] \o SubSeq(Content(handle[p]), Len(entries[p]) + 1, Len(Content(handle[p])))]
  BY <1>3 DEF RewriteWrites, File
<1>5. KeptOK'
  <2>1. CASE files' = files
    BY <1>1, <1>2, <2>1 DEF KeptOK
  <2>2. CASE files' # files
    <3>1. PICK f \in File, c \in Seq(Prompts) : files' = [files EXCEPT ![f] = entries[p] \o SubSeq(c, Len(entries[p]) + 1, Len(c))]
      BY <1>1, <1>4, <2>2, ContentIs
    <3>2. SubSeq(c, Len(entries[p]) + 1, Len(c)) \in Seq(Prompts)
      BY <1>1, <3>1 DEF KeptOK
    <3>3. entries[p] \o SubSeq(c, Len(entries[p]) + 1, Len(c)) \in Seq(Prompts)
      BY <1>1, <3>2 DEF KeptOK
    <3>. QED  BY <1>1, <1>2, <3>1, <3>3 DEF KeptOK
  <2>. QED  BY <2>1, <2>2
<1>6. Rewriters' = Rewriters /\ Loading' = Loading /\ p \in Rewriters
  BY <1>1, <1>2 DEF KeptOK, Rewriters, Loading
<1>7. HandlesFit'
  BY <1>1, <1>2, <1>6 DEF HandlesFit
<1>8. ~raced => /\ handle[p] = "tmp" /\ files'["tmp"] = entries[p] /\ files'["file"] = files["file"]
                /\ \A q \in Rewriters : q = p
  <2>. SUFFICES ASSUME ~raced  PROVE /\ handle[p] = "tmp" /\ files'["tmp"] = entries[p]
                                     /\ files'["file"] = files["file"] /\ \A q \in Rewriters : q = p
    OBVIOUS
  <2>1. handle[p] = "tmp" /\ files["tmp"] = <<>> /\ \A q \in Rewriters : q = p
    BY <1>2, <1>6 DEF HistIndInv, RewriteGoesOn
  <2>2. Content("tmp") = <<>>
    BY <2>1 DEF Content
  <2>3. entries[p] \o SubSeq(<<>>, Len(entries[p]) + 1, Len(<<>>)) = entries[p]
    <3>1. entries[p] \in Seq(Prompts) /\ Len(entries[p]) \in Nat
      BY <1>1 DEF KeptOK
    <3>2. SubSeq(<<>>, Len(entries[p]) + 1, Len(<<>>)) = <<>>
      BY <3>1
    <3>. QED  BY <3>1, <3>2, ConcatEmptySeq
  <2>4. files' = [files EXCEPT !["tmp"] = entries[p]]
    BY <1>4, <2>1, <2>2, <2>3
  <2>. QED  BY <1>1, <2>1, <2>4 DEF KeptOK, File
<1>9. ~raced => Content("file")' = Content("file")
  BY <1>8 DEF Content
<1>10. RewriteGoesOn'
  <2>. SUFFICES ASSUME ~raced'  PROVE RewriteGoesOn'
    BY DEF RewriteGoesOn
  <2>1. ~raced /\ RewriteGoesOn /\ Content("file")' = Content("file")
    BY <1>2, <1>9 DEF HistIndInv
  <2>2. proc'[p] = "written"
    BY <1>1, <1>2 DEF KeptOK
  <2>. QED  BY <1>2, <1>6, <1>8, <2>1, <2>2 DEF RewriteGoesOn
<1>11. NewestSurvive'
  BY <1>2, <1>9 DEF HistIndInv, NewestSurvive
<1>12. WalkOK'
  BY <1>1, <1>2, <1>5, WalkStands DEF KeptOK
<1>. QED  BY <1>5, <1>7, <1>10, <1>11, <1>12 DEF HistIndInv

LEMMA RenamesKeeps ==
  ASSUME HistIndInv, NEW p \in Procs, RewriteRenames(p)  PROVE HistIndInv'
<1>1. KeptOK /\ HandlesFit
  BY DEF HistIndInv
<1>2. /\ proc[p] = "written" /\ proc' = [proc EXCEPT ![p] = "ready"]
      /\ UNCHANGED <<entries, log, raced>> /\ UNCHANGED navVars
  BY DEF RewriteRenames
<1>3. handle' \in [Procs -> {"file", "tmp", "gone", "none"}]
      /\ \A q \in Procs : handle'[q] = "none" <=> q = p \/ handle[q] = "none"
  <2>1. CASE files["tmp"] = Absent
    BY <1>1, <2>1 DEF RewriteRenames, KeptOK
  <2>2. CASE files["tmp"] # Absent
    <3>1. \A q \in Procs : AfterRename(handle[q]) \in {"file", "tmp", "gone", "none"}
      BY <1>1 DEF KeptOK, AfterRename
    <3>2. \A q \in Procs : AfterRename(handle[q]) = "none" <=> handle[q] = "none"
      BY DEF AfterRename
    <3>. QED  BY <2>2, <3>1, <3>2 DEF RewriteRenames
  <2>. QED  BY <2>1, <2>2
<1>4. files' \in [File -> Seq(Prompts) \cup {Absent}]
      /\ (files["tmp"] # Absent => files'["file"] = files["tmp"])
  BY <1>1 DEF RewriteRenames, KeptOK, File
<1>5. KeptOK'
  BY <1>1, <1>2, <1>3, <1>4 DEF KeptOK
<1>6. Rewriters' = Rewriters \ {p} /\ Loading' \subseteq Loading /\ p \in Rewriters /\ p \in Loading
  BY <1>1, <1>2 DEF KeptOK, Rewriters, Loading
<1>7. HandlesFit'
  BY <1>1, <1>3, <1>6 DEF HandlesFit
<1>8. ~raced => /\ Rewriters = {p} /\ Newest(Content("file")') = Newest(Content("file"))
                /\ \A q \in Loading : entries[q] = Newest(Content("file"))
  <2>. SUFFICES ASSUME ~raced  PROVE /\ Rewriters = {p} /\ Newest(Content("file")') = Newest(Content("file"))
                                     /\ \A q \in Loading : entries[q] = Newest(Content("file"))
    OBVIOUS
  <2>1. /\ \A q \in Rewriters : q = p
        /\ files["tmp"] = entries[p]
        /\ \A q \in Loading : entries[q] = Newest(Content("file"))
    BY <1>2, <1>6 DEF HistIndInv, RewriteGoesOn
  <2>2. entries[p] \in Seq(Prompts) /\ entries[p] # Absent /\ Content("file") \in Seq(Prompts)
    BY <1>1, ContentIs DEF KeptOK, File
  <2>3. Content("file")' = entries[p]
    BY <1>4, <2>1, <2>2 DEF Content
  <2>4. Newest(entries[p]) = entries[p]
    BY <1>6, <2>1, <2>2, NewestOfNewest
  <2>. QED  BY <1>6, <2>1, <2>3, <2>4
<1>9. RewriteGoesOn'
  BY <1>2, <1>6, <1>8 DEF RewriteGoesOn
<1>10. NewestSurvive'
  BY <1>2, <1>8 DEF HistIndInv, NewestSurvive
<1>11. WalkOK'
  BY <1>1, <1>2, <1>5, WalkStands DEF KeptOK
<1>. QED  BY <1>5, <1>7, <1>9, <1>10, <1>11 DEF HistIndInv

LEMMA EndsKeeps ==
  ASSUME HistIndInv, NEW p \in Procs, ProcessEnds(p)  PROVE HistIndInv'
<1>1. KeptOK /\ HandlesFit
  BY DEF HistIndInv
<1>2. /\ proc' = [proc EXCEPT ![p] = "over"] /\ handle' = [handle EXCEPT ![p] = "none"]
      /\ entries' = [entries EXCEPT ![p] = <<>>] /\ UNCHANGED <<files, log, raced>>
      /\ index' = [index EXCEPT ![p] = -1] /\ draft' = [draft EXCEPT ![p] = NoText]
      /\ line' = [line EXCEPT ![p] = NoText] /\ typed' = [typed EXCEPT ![p] = NoText]
  BY DEF ProcessEnds
<1>3. \A q \in Procs : q # p => proc'[q] = proc[q] /\ handle'[q] = handle[q] /\ entries'[q] = entries[q]
  BY <1>1, <1>2 DEF KeptOK
<1>4. entries' \in [Procs -> Seq(Prompts)] /\ \A q \in Procs : Len(entries'[q]) <= MaxSize
  <2>1. PICK empty \in Seq(Prompts) : empty = <<>> /\ Len(empty) = 0
    <3>1. <<>> \in Seq(Prompts) /\ Len(<<>>) = 0
      OBVIOUS
    <3>. QED  BY <3>1, Zenon
  <2>2. entries' = [entries EXCEPT ![p] = empty]
    BY <1>2, <2>1, Zenon
  <2>. QED  BY <1>1, <2>1, <2>2, HistoryAssumption DEF KeptOK
<1>5. KeptOK'
  BY <1>1, <1>2, <1>4 DEF KeptOK
<1>6. Rewriters' = Rewriters \ {p} /\ Loading' = Loading \ {p}
  BY <1>1, <1>2 DEF KeptOK, Rewriters, Loading
<1>7. Content("file")' = Content("file")
  BY <1>2 DEF Content
<1>8. HandlesFit'
  <2>. SUFFICES ASSUME NEW q \in Procs  PROVE handle'[q] = "none" <=> q \notin Rewriters'
    BY DEF HandlesFit
  <2>1. CASE q = p
    BY <1>1, <1>2, <1>6, <2>1 DEF KeptOK
  <2>2. CASE q # p
    BY <1>1, <1>3, <1>6, <2>2 DEF HandlesFit
  <2>. QED  BY <2>1, <2>2
<1>9. RewriteGoesOn'
  BY <1>2, <1>3, <1>6, <1>7, InMembers DEF HistIndInv, RewriteGoesOn
<1>10. NewestSurvive'
  BY <1>2, <1>7 DEF HistIndInv, NewestSurvive
<1>11. WalkOK'
  <2>1. /\ index' \in [Procs -> Int] /\ draft' \in [Procs -> Texts] /\ line' \in [Procs -> Texts]
        /\ typed' \in [Procs -> Texts]
    BY <1>2 DEF HistIndInv, WalkOK, Texts
  <2>2. ASSUME NEW q \in Procs
        PROVE  /\ index'[q] \in -1..Len(entries'[q]) - 1 /\ (proc'[q] # "ready" => index'[q] = -1)
               /\ typed'[q] # NoText => IF index'[q] = -1 THEN line'[q] = typed'[q] ELSE draft'[q] = typed'[q]
    <3>1. CASE q = p
      <4>1. index'[q] = -1 /\ typed'[q] = NoText /\ Len(entries'[q]) \in Nat
        BY <1>2, <1>4, <3>1 DEF HistIndInv, WalkOK
      <4>. QED  BY <4>1
    <3>2. CASE q # p
      <4>1. /\ index'[q] = index[q] /\ typed'[q] = typed[q] /\ line'[q] = line[q] /\ draft'[q] = draft[q]
            /\ entries'[q] = entries[q] /\ proc'[q] = proc[q]
        BY <1>2, <1>3, <3>2 DEF HistIndInv, WalkOK
      <4>. QED  BY <4>1 DEF HistIndInv, WalkOK
    <3>. QED  BY <3>1, <3>2
  <2>. QED  BY <2>1, <2>2 DEF WalkOK
<1>. QED  BY <1>5, <1>8, <1>9, <1>10, <1>11 DEF HistIndInv

-----------------------------------------------------------------------------
(* The keys *)

LEMMA TextsOfProc ==
  ASSUME HistIndInv, NEW p \in Procs
  PROVE  /\ draft[p] \in Texts /\ line[p] \in Texts /\ typed[p] \in Texts /\ NoText \in Texts
         /\ index[p] \in -1..Len(entries[p]) - 1 /\ entries[p] \in Seq(Prompts) /\ Len(entries[p]) \in Nat
         /\ typed[p] # NoText => IF index[p] = -1 THEN line[p] = typed[p] ELSE draft[p] = typed[p]
         /\ draft = [draft EXCEPT ![p] = draft[p]] /\ index = [index EXCEPT ![p] = index[p]]
         /\ typed = [typed EXCEPT ![p] = typed[p]]
<1>1. KeptOK /\ WalkOK
  BY DEF HistIndInv
<1>2. entries[p] \in Seq(Prompts) /\ Len(entries[p]) \in Nat
  BY <1>1 DEF KeptOK
<1>3. /\ draft = [draft EXCEPT ![p] = draft[p]] /\ index = [index EXCEPT ![p] = index[p]]
      /\ typed = [typed EXCEPT ![p] = typed[p]]
  BY <1>1 DEF WalkOK
<1>. QED  BY <1>1, <1>2, <1>3 DEF WalkOK, Texts

LEMMA EntryIsPrompt ==
  ASSUME HistIndInv, NEW p \in Procs, NEW i \in 0..Len(entries[p]) - 1  PROVE Entry(p, i) \in Texts
<1>1. Len(entries[p]) - i \in 1..Len(entries[p])
  BY TextsOfProc
<1>. QED  BY <1>1, TextsOfProc DEF Entry, Texts

LEMMA EditKeeps ==
  ASSUME HistIndInv, NEW p \in Procs,
         (\E text \in Prompts : TypeText(p, text)) \/ Up(p) \/ Down(p) \/ ClearLine(p)
  PROVE  HistIndInv'
<1>1. UNCHANGED KeyFrame /\ proc[p] = "ready"
  BY DEF TypeText, Up, Down, ClearLine
<1>2. UNCHANGED <<proc, entries>>
  BY <1>1 DEF KeyFrame
<1>3. WalkOK'
  <2>1. ASSUME NEW text \in Prompts, TypeText(p, text)  PROVE WalkOK'
    <3>1. PICK d \in Texts : index' = [index EXCEPT ![p] = -1] /\ draft' = [draft EXCEPT ![p] = d]
      BY <2>1, TextsOfProc DEF TypeText, ResetNav
    <3>2. -1 \in -1..Len(entries[p]) - 1 /\ text \in Texts
      BY TextsOfProc DEF Texts
    <3>3. line' = [line EXCEPT ![p] = text] /\ typed' = [typed EXCEPT ![p] = text]
      BY <2>1 DEF TypeText, Show
    <3>. QED  BY <1>1, <1>2, <3>1, <3>2, <3>3, WalkMoves
  <2>2. ASSUME Up(p)  PROVE WalkOK'
    <3>1. index' = [index EXCEPT ![p] = index[p] + 1] /\ index[p] + 1 \in 0..Len(entries[p]) - 1
      BY <2>2, TextsOfProc DEF Up
    <3>2. PICK i \in 0..Len(entries[p]) - 1 : i = index[p] + 1 /\ i \in -1..Len(entries[p]) - 1 /\ i # -1
      BY <3>1
    <3>3. index' = [index EXCEPT ![p] = i] /\ index'[p] = i
      BY <3>1, <3>2 DEF HistIndInv, WalkOK
    <3>4. PICK d \in Texts : /\ draft' = [draft EXCEPT ![p] = d]
                             /\ d = IF index[p] = -1 THEN line[p] ELSE draft[p]
      BY <2>2, TextsOfProc DEF Up
    <3>5. PICK l \in Texts : line' = [line EXCEPT ![p] = l]
      BY <2>2, <3>3, EntryIsPrompt DEF Up, Show
    <3>6. typed' = [typed EXCEPT ![p] = typed[p]] /\ typed[p] \in Texts
      BY <2>2, TextsOfProc DEF Up
    <3>7. typed[p] # NoText => d = typed[p]
      BY <3>4, TextsOfProc
    <3>. QED  BY <1>1, <1>2, <3>2, <3>3, <3>4, <3>5, <3>6, <3>7, WalkMoves
  <2>3. ASSUME Down(p)  PROVE WalkOK'
    <3>1. /\ index' = [index EXCEPT ![p] = index[p] - 1] /\ index[p] \in 0..Len(entries[p]) - 1
          /\ UNCHANGED <<draft, typed>>
          /\ line' = [line EXCEPT ![p] = IF index[p] = 0 THEN draft[p] ELSE Entry(p, index'[p])]
      BY <2>3, TextsOfProc DEF Down, Show
    <3>2. PICK i \in -1..Len(entries[p]) - 1 : i = index[p] - 1
      BY <3>1, TextsOfProc
    <3>3. index' = [index EXCEPT ![p] = i] /\ index'[p] = i
      BY <3>1, <3>2 DEF HistIndInv, WalkOK
    <3>4. (i = -1 <=> index[p] = 0) /\ (i # -1 => i \in 0..Len(entries[p]) - 1)
      BY <3>1, <3>2, TextsOfProc
    <3>5. PICK l \in Texts : line' = [line EXCEPT ![p] = l] /\ (i = -1 => l = draft[p])
      BY <3>1, <3>3, <3>4, TextsOfProc, EntryIsPrompt
    <3>6. draft' = [draft EXCEPT ![p] = draft[p]] /\ typed' = [typed EXCEPT ![p] = typed[p]]
      BY <3>1, TextsOfProc
    <3>7. typed[p] # NoText => draft[p] = typed[p]
      BY <3>1, TextsOfProc
    <3>8. draft[p] \in Texts /\ typed[p] \in Texts
      BY TextsOfProc
    <3>. QED  BY <1>1, <1>2, <3>2, <3>3, <3>5, <3>6, <3>7, <3>8, WalkMoves
  <2>4. ASSUME ClearLine(p)  PROVE WalkOK'
    <3>1. line' = [line EXCEPT ![p] = NoText] /\ typed' = [typed EXCEPT ![p] = NoText]
      BY <2>4 DEF ClearLine, Show
    <3>2. index' = [index EXCEPT ![p] = index[p]] /\ draft' = [draft EXCEPT ![p] = draft[p]]
      BY <2>4, TextsOfProc DEF ClearLine
    <3>. QED  BY <1>1, <1>2, <3>1, <3>2, TextsOfProc, WalkMoves
  <2>. QED  BY <2>1, <2>2, <2>3, <2>4
<1>. QED  BY <1>1, <1>3, FilesStand DEF HistIndInv

LEMMA EnterKeeps ==
  ASSUME HistIndInv, NEW p \in Procs, Enter(p)  PROVE HistIndInv'
<1>1. /\ proc[p] = "ready" /\ line[p] # NoText /\ UNCHANGED <<handle, proc>>
      /\ line' = [line EXCEPT ![p] = NoText] /\ typed' = [typed EXCEPT ![p] = NoText]
  BY DEF Enter, Show
<1>2. CASE entries[p] # <<>> /\ Last(entries[p]) = line[p]
  <2>1. UNCHANGED <<files, entries, index, draft, log, raced>>
    BY <1>2 DEF Enter
  <2>2. UNCHANGED KeyFrame /\ UNCHANGED <<proc, entries>>
    BY <1>1, <2>1 DEF KeyFrame
  <2>3. index' = [index EXCEPT ![p] = index[p]] /\ draft' = [draft EXCEPT ![p] = draft[p]]
    BY <2>1, TextsOfProc
  <2>4. WalkOK'
    BY <1>1, <2>2, <2>3, TextsOfProc, WalkMoves
  <2>. QED  BY <2>2, <2>4, FilesStand DEF HistIndInv
<1>3. CASE ~(entries[p] # <<>> /\ Last(entries[p]) = line[p])
  <2>1. /\ entries' = [entries EXCEPT ![p] = Newest(Append(entries[p], line[p]))]
        /\ files' = [files EXCEPT !["file"] = Append(Content("file"), line[p])]
        /\ log' = Append(log, line[p]) /\ ResetNav(p)
    BY <1>3 DEF Enter
  <2>2. raced' \in BOOLEAN /\ (~raced' => ~raced /\ Loading = {})
    <3>1. raced' = (raced \/ Loading # {})
      BY <1>3 DEF Enter
    <3>. QED  BY <3>1, Zenon
  <2>3. PICK x \in Prompts : x = line[p]
    BY <1>1, TextsOfProc DEF Texts
  <2>4. KeptOK
    BY DEF HistIndInv
  <2>5. Content("file") \in Seq(Prompts) /\ log \in Seq(Prompts) /\ entries[p] \in Seq(Prompts)
    BY <2>4, ContentIs DEF KeptOK, File
  <2>6. /\ Append(Content("file"), x) \in Seq(Prompts) /\ Append(log, x) \in Seq(Prompts)
        /\ Append(entries[p], x) \in Seq(Prompts)
    BY <2>5, AppendIs
  <2>7. Newest(Append(entries[p], x)) \in Seq(Prompts) /\ Len(Newest(Append(entries[p], x))) <= MaxSize
    BY <2>6, NewestIs
  <2>8. KeptOK'
    <3>1. PICK a \in Seq(Prompts), b \in Seq(Prompts), c \in Seq(Prompts) :
            /\ entries' = [entries EXCEPT ![p] = a] /\ Len(a) <= MaxSize
            /\ files' = [files EXCEPT !["file"] = b] /\ log' = c
      BY <2>1, <2>3, <2>6, <2>7, Zenon
    <3>. QED  BY <1>1, <2>2, <2>4, <3>1 DEF KeptOK, File
  <2>9. Loading' = Loading /\ Rewriters' = Rewriters /\ Rewriters \subseteq Loading
    BY <1>1 DEF Loading, Rewriters
  <2>10. HandlesFit' /\ RewriteGoesOn'
    BY <1>1, <2>2, <2>9 DEF HistIndInv, HandlesFit, RewriteGoesOn
  <2>11. NewestSurvive'
    <3>. SUFFICES ASSUME ~raced'  PROVE Newest(Content("file")') = Newest(log')
      BY DEF NewestSurvive
    <3>1. Newest(Content("file")) = Newest(log)
      BY <2>2 DEF HistIndInv, NewestSurvive
    <3>2. Content("file")' = Append(Content("file"), x)
      <4>1. files'["file"] = Append(Content("file"), x)
        BY <2>1, <2>3, <2>4 DEF KeptOK, File
      <4>2. files'["file"] # Absent
        BY <2>4, <2>6, <4>1, ContentIs
      <4>. QED  BY <4>1, <4>2 DEF Content
    <3>3. Newest(Append(Content("file"), x)) = Newest(Append(log, x))
      BY <2>5, <3>1, NewestAppend
    <3>. QED  BY <2>1, <2>3, <3>2, <3>3, Zenon
  <2>12. WalkOK'
    <3>1. /\ index' = [index EXCEPT ![p] = -1] /\ draft' = [draft EXCEPT ![p] = NoText]
      BY <2>1 DEF ResetNav
    <3>2. /\ index' \in [Procs -> Int] /\ draft' \in [Procs -> Texts] /\ line' \in [Procs -> Texts]
          /\ typed' \in [Procs -> Texts]
      BY <1>1, <3>1 DEF HistIndInv, WalkOK, Texts
    <3>3. ASSUME NEW q \in Procs
          PROVE  /\ index'[q] \in -1..Len(entries'[q]) - 1 /\ (proc'[q] # "ready" => index'[q] = -1)
                 /\ typed'[q] # NoText => IF index'[q] = -1 THEN line'[q] = typed'[q] ELSE draft'[q] = typed'[q]
      <4>1. CASE q = p
        <5>1. index'[q] = -1 /\ typed'[q] = NoText /\ Len(entries'[q]) \in Nat
          BY <1>1, <2>8, <3>1, <4>1 DEF HistIndInv, WalkOK, KeptOK
        <5>. QED  BY <5>1
      <4>2. CASE q # p
        <5>1. /\ index'[q] = index[q] /\ typed'[q] = typed[q] /\ line'[q] = line[q] /\ draft'[q] = draft[q]
              /\ entries'[q] = entries[q] /\ proc'[q] = proc[q]
          BY <1>1, <2>1, <2>4, <3>1, <4>2 DEF HistIndInv, WalkOK, KeptOK
        <5>. QED  BY <5>1 DEF HistIndInv, WalkOK
      <4>. QED  BY <4>1, <4>2
    <3>. QED  BY <3>2, <3>3 DEF WalkOK
  <2>. QED  BY <2>8, <2>10, <2>11, <2>12 DEF HistIndInv
<1>. QED  BY <1>2, <1>3

LEMMA HistStep == HistIndInv /\ [HistoryNext]_histVars => HistIndInv'
<1>1. ASSUME HistIndInv, HistoryNext  PROVE HistIndInv'
  <2>1. PICK p \in Procs : \/ Load(p) \/ CompactIfNeeded(p) \/ RewriteWrites(p) \/ RewriteRenames(p)
                           \/ ProcessEnds(p) \/ Keys(p)
    BY <1>1 DEF HistoryNext
  <2>2. CASE Keys(p)
    BY <1>1, <2>2, EditKeeps, EnterKeeps DEF Keys
  <2>. QED  BY <1>1, <2>1, <2>2, LoadKeeps, CompactKeeps, WritesKeeps, RenamesKeeps, EndsKeeps
<1>2. ASSUME HistIndInv, UNCHANGED histVars  PROVE HistIndInv'
  <2>1. UNCHANGED KeyFrame /\ UNCHANGED navVars /\ UNCHANGED <<proc, entries>>
    BY <1>2 DEF histVars, KeyFrame, navVars
  <2>2. WalkOK'
    BY <1>2, <2>1, WalkStands DEF HistIndInv, KeptOK
  <2>. QED  BY <1>2, <2>1, <2>2, FilesStand DEF HistIndInv
<1>. QED  BY <1>1, <1>2

\* The prompt history (history.go), for every number of processes that share a file: what
\* was typed is on the line or in the draft the walk comes back to, and as long as no two
\* processes met while one was loading, the file ends with the newest prompts ever added,
\* whoever is killed in the middle of a rewrite.
THEOREM HistoryKept == HistorySpec => []HistoryInv
<1>1. HistIndInv => HistoryInv
  <2>. SUFFICES ASSUME HistIndInv  PROVE HistoryInv
    OBVIOUS
  <2>1. HistoryTypeOK
    BY DEF HistIndInv, KeptOK, WalkOK, HistoryTypeOK, File, Texts
  <2>2. TypedTextKept
    BY DEF HistIndInv, WalkOK, TypedTextKept
  <2>. QED  BY <2>1, <2>2 DEF HistIndInv, HistoryInv
<1>. QED  BY <1>1, HistInit, HistStep, PTL DEF HistorySpec

-----------------------------------------------------------------------------
(***************************************************************************)
(* The request cache                                                       *)
(***************************************************************************)

\* Before the end of a stream nothing follows its reply but an error.
ErrorAfterReply(s) == \A i \in 1..Len(s) : s[i] = "done" /\ i # Len(s) => s[i + 1] = "error"

\* A stream that has brought its reply has ended with it, or is about to contradict it.
ReplyStands(c) ==
  completed[c] => \/ inner[c] = <<>> /\ reply[c] \in told[CacheKey(c)]
                  \/ inner[c] # <<>> /\ inner[c][1] = "error"
StreamsWatched ==
  \A c \in Calls : call[c] = "stream" => ErrorAfterReply(inner[c]) /\ ReplyStands(c)

\* What is replayed is not written again.
NothingToKeep == \A c \in Calls : call[c] \in {"new", "replay"} => ~completed[c]

RepliesKnown == \A c \in Calls : call[c] \in {"stream", "replay", "write", "rename"} => reply[c] \in Replies

\* What is being written was told, and may be kept.
WrittenWasTold ==
  \A c \in Calls :
    call[c] \in {"write", "rename"} => Cacheable(reply[c]) /\ reply[c] \in told[CacheKey(c)]

\* The inductive invariant.
CacheIndInv ==
  /\ CacheTypeOK /\ KeptWasTold /\ StreamsWatched /\ NothingToKeep /\ RepliesKnown /\ WrittenWasTold

Event == {"text", "tool", "done", "error"}

LEMMA TailOfStream ==
  ASSUME NEW s \in Seq(Event), s # <<>>
  PROVE  /\ Tail(s) \in Seq(Event) /\ Head(s) = s[1] /\ Head(s) \in Event
         /\ Len(Tail(s)) = Len(s) - 1 /\ Len(s) \in Nat \ {0}
         /\ \A i \in 1..Len(s) - 1 : Tail(s)[i] = s[i + 1]
OBVIOUS

\* Places in a sequence that follows another.
LEMMA BehindAnother ==
  ASSUME NEW n \in Nat, NEW l \in Nat, NEW i \in 1..n + l, i \notin 1..n
  PROVE  i - n \in 1..l /\ i = n + (i - n) /\ (i # n + l => i - n # l)
OBVIOUS

LEMMA NextPlace ==
  ASSUME NEW n \in Nat, NEW l \in Nat, NEW k \in 1..l, k # l
  PROVE  k + 1 \in 1..l /\ (n + k) + 1 = n + (k + 1)
OBVIOUS

LEMMA EmptyStream ==
  ASSUME NEW s \in Seq(Event), Len(s) = 0  PROVE s = <<>>
OBVIOUS

\* A provider's stream is well formed, and so is what remains of one.
LEMMA ProviderIsOrderly ==
  ASSUME NEW y \in Replies, NEW s \in ProviderStream(y)
  PROVE  s \in Seq(Event) /\ ErrorAfterReply(s)
<1>1. y.blocks \in Seq({"text", "tool"})
  BY CacheAssumption
<1>2. PICK e \in {<<"done">>, <<"error">>, <<"done", "error">>, <<>>} : s = y.blocks \o e
  BY DEF ProviderStream
<1>3. e \in Seq(Event) /\ ErrorAfterReply(e) /\ Len(e) \in 0..2
  <2>1. CASE e = <<>>
    BY <2>1 DEF ErrorAfterReply
  <2>2. CASE e = <<"done">>
    BY <2>2 DEF Event, ErrorAfterReply
  <2>3. CASE e = <<"error">>
    BY <2>3 DEF Event, ErrorAfterReply
  <2>4. CASE e = <<"done", "error">>
    <3>1. e \in Seq(Event) /\ Len(e) = 2 /\ e[2] = "error" /\ e[1] = "done"
      BY <2>4 DEF Event
    <3>. QED  BY <3>1 DEF ErrorAfterReply
  <2>. QED  BY <1>2, <2>1, <2>2, <2>3, <2>4
<1>4. y.blocks \in Seq(Event)
  BY <1>1 DEF Event
<1>5. /\ s \in Seq(Event) /\ Len(s) = Len(y.blocks) + Len(e)
      /\ \A i \in 1..Len(y.blocks) : s[i] = y.blocks[i]
      /\ \A i \in 1..Len(e) : s[Len(y.blocks) + i] = e[i]
  BY <1>2, <1>3, <1>4
<1>6. ASSUME NEW i \in 1..Len(s), s[i] = "done", i # Len(s)  PROVE s[i + 1] = "error"
  <2>0. Len(y.blocks) \in Nat /\ \A j \in 1..Len(y.blocks) : y.blocks[j] # "done"
    BY <1>1
  <2>1. i \notin 1..Len(y.blocks)
    BY <1>5, <1>6, <2>0
  <2>2. PICK k \in 1..Len(e) : i = Len(y.blocks) + k /\ k # Len(e)
    <3>1. Len(e) \in Nat /\ i \in 1..Len(y.blocks) + Len(e) /\ i # Len(y.blocks) + Len(e)
      BY <1>3, <1>5, <1>6
    <3>2. /\ i - Len(y.blocks) \in 1..Len(e) /\ i - Len(y.blocks) # Len(e)
          /\ i = Len(y.blocks) + (i - Len(y.blocks))
      BY <2>0, <2>1, <3>1, BehindAnother
    <3>. QED  BY <3>2
  <2>3. e[k] = "done" /\ k # Len(e)
    BY <1>5, <1>6, <2>0, <2>2
  <2>4. e[k + 1] = "error"
    BY <1>3, <2>2, <2>3 DEF ErrorAfterReply
  <2>5. k + 1 \in 1..Len(e) /\ i + 1 = Len(y.blocks) + (k + 1)
    <3>1. Len(e) \in Nat
      BY <1>3
    <3>. QED  BY <2>0, <2>2, <3>1, NextPlace
  <2>. QED  BY <1>5, <2>4, <2>5
<1>. QED  BY <1>5, <1>6 DEF ErrorAfterReply

LEMMA TailIsOrderly ==
  ASSUME NEW s \in Seq(Event), s # <<>>, ErrorAfterReply(s)
  PROVE  ErrorAfterReply(Tail(s)) /\ (s[1] = "done" /\ Tail(s) # <<>> => Tail(s)[1] = "error")
<1>1. /\ Len(Tail(s)) = Len(s) - 1 /\ Len(s) \in Nat \ {0}
      /\ \A i \in 1..Len(s) - 1 : Tail(s)[i] = s[i + 1]
  BY TailOfStream
<1>2. ErrorAfterReply(Tail(s))
  <2>1. ASSUME NEW i \in 1..Len(Tail(s)), Tail(s)[i] = "done", i # Len(Tail(s))
        PROVE  Tail(s)[i + 1] = "error"
    <3>1. i \in 1..Len(s) - 1 /\ i + 1 \in 1..Len(s) - 1 /\ i + 1 \in 1..Len(s) /\ i + 1 # Len(s)
      <4>1. \A n \in Nat \ {0} : \A k \in 1..n - 1 : k # n - 1 => k + 1 \in 1..n - 1 /\ k + 1 \in 1..n /\ k + 1 # n
        OBVIOUS
      <4>2. i \in 1..Len(s) - 1 /\ i # Len(s) - 1
        BY <1>1, <2>1
      <4>. QED  BY <1>1, <4>1, <4>2
    <3>2. s[i + 1] = "done"
      BY <1>1, <2>1, <3>1
    <3>3. s[(i + 1) + 1] = "error"
      BY <3>1, <3>2 DEF ErrorAfterReply
    <3>. QED  BY <1>1, <3>1, <3>3
  <2>. QED  BY <2>1 DEF ErrorAfterReply
<1>3. Tail(s) # <<>> => Len(s) # 1
  BY <1>1, TailOfStream, EmptyStream
<1>4. ASSUME s[1] = "done", Tail(s) # <<>>  PROVE Tail(s)[1] = "error"
  <2>1. 1 \in 1..Len(s) /\ 1 # Len(s) /\ 1 \in 1..Len(s) - 1
    BY <1>1, <1>3, <1>4
  <2>2. s[1 + 1] = "error"
    BY <1>4, <2>1 DEF ErrorAfterReply
  <2>. QED  BY <1>1, <2>1, <2>2
<1>. QED  BY <1>2, <1>4

\* The types of what a step changes.
LEMMA TellTypes ==
  ASSUME CacheTypeOK, NEW c \in Calls, NEW y \in Replies, Tell(c, y)
  PROVE  told' \in [Requests -> SUBSET Replies] /\ y \in told'[CacheKey(c)]
         /\ \A r \in Requests : told[r] \subseteq told'[r]
BY DEF CacheTypeOK, Tell, CacheKey

\* What a caller was told stays told, and whatever is added is a reply.
LEMMA ToldGrows ==
  ASSUME CacheIndInv, NEW c \in Calls,
         \/ CompleteHits(c) \/ CompleteAsks(c) \/ StreamHits(c) \/ StreamAsks(c)
         \/ StreamPasses(c) \/ StreamAbandoned(c) \/ StreamEnds(c) \/ CallerCancels(c)
         \/ Write(c) \/ Rename(c) \/ Killed(c)
  PROVE  told' \in [Requests -> SUBSET Replies] /\ \A r \in Requests : told[r] \subseteq told'[r]
<1>0. CacheTypeOK /\ told \in [Requests -> SUBSET Replies] /\ asked[c] \in Requests
  BY DEF CacheIndInv, CacheTypeOK
<1>1. CASE told' = told
  BY <1>0, <1>1
<1>2. ASSUME NEW y \in Replies, Tell(c, y)
      PROVE told' \in [Requests -> SUBSET Replies] /\ \A r \in Requests : told[r] \subseteq told'[r]
  BY <1>0, <1>2, TellTypes
<1>3. CASE CompleteHits(c)
  <2>1. Read(c) \in Replies
    BY <1>0, <1>3 DEF CompleteHits, Read, CacheKey, CacheTypeOK
  <2>. QED  BY <1>2, <1>3, <2>1 DEF CompleteHits
<1>4. CASE CompleteAsks(c)
  BY <1>1, <1>2, <1>4 DEF CompleteAsks
<1>5. CASE StreamPasses(c)
  <2>1. reply[c] \in Replies
    BY <1>5 DEF StreamPasses, CacheIndInv, RepliesKnown
  <2>. QED  BY <1>1, <1>2, <1>5, <2>1 DEF StreamPasses, ToldByLast
<1>. QED  BY <1>1, <1>3, <1>4, <1>5 DEF StreamHits, StreamAsks, StreamAbandoned, StreamEnds,
             CallerCancels, Write, Rename, Killed

\* A step of one call: it says nothing of the others.
Step(c) ==
  \/ CompleteHits(c) \/ CompleteAsks(c) \/ StreamHits(c) \/ StreamAsks(c)
  \/ StreamPasses(c) \/ StreamAbandoned(c) \/ StreamEnds(c) \/ CallerCancels(c)
  \/ Write(c) \/ Rename(c) \/ Killed(c)

LEMMA OthersRest ==
  ASSUME CacheTypeOK, NEW c \in Calls, Step(c)
  PROVE  /\ asked' = asked
         /\ \A d \in Calls \ {c} : /\ call'[d] = call[d] /\ inner'[d] = inner[d] /\ reply'[d] = reply[d]
                                   /\ completed'[d] = completed[d]
BY DEF CacheTypeOK, Step, CompleteHits, CompleteAsks, StreamHits, StreamAsks, StreamPasses,
       StreamAbandoned, StreamEnds, CallerCancels, Write, Rename, Killed, Goes

LEMMA CacheTypesKept ==
  ASSUME CacheIndInv, NEW c \in Calls, Step(c)
  PROVE  CacheTypeOK'
<1>0. CacheTypeOK
  BY DEF CacheIndInv
<1>1. told' \in [Requests -> SUBSET Replies]
  BY ToldGrows DEF Step
<1>2. /\ asked' \in [Calls -> Requests] /\ cancelled' \subseteq Calls /\ completed' \in [Calls -> BOOLEAN]
      /\ temp' \in [Calls -> {"none", "part", "whole"}]
  BY <1>0 DEF CacheTypeOK, Step, CompleteHits, CompleteAsks, StreamHits, StreamAsks, StreamPasses,
       StreamAbandoned, StreamEnds, CallerCancels, Write, Rename, Killed, fileVars
<1>3. call' \in [Calls -> {"new", "complete", "stream", "replay", "write", "rename", "over"}]
  BY <1>0 DEF CacheTypeOK, Step, CompleteHits, CompleteAsks, StreamHits, StreamAsks, StreamPasses,
       StreamAbandoned, StreamEnds, CallerCancels, Write, Rename, Killed, Goes
<1>4. cached' \in [Requests -> Replies \cup {NoReply}] /\ reply' \in [Calls -> Replies \cup {NoReply}]
  <2>1. cached' = cached \/ cached' = [cached EXCEPT ![CacheKey(c)] = reply[c]]
    BY DEF Step, CompleteHits, CompleteAsks, StreamHits, StreamAsks, StreamPasses,
       StreamAbandoned, StreamEnds, CallerCancels, Write, Rename, Killed, fileVars
  <2>2. reply' = reply \/ \E y \in Replies \cup {Read(c)} : reply' = [reply EXCEPT ![c] = y]
    BY DEF Step, CompleteHits, CompleteAsks, StreamHits, StreamAsks, StreamPasses,
       StreamAbandoned, StreamEnds, CallerCancels, Write, Rename, Killed
  <2>3. Read(c) \in Replies \cup {NoReply} /\ reply[c] \in Replies \cup {NoReply} /\ CacheKey(c) \in Requests
    BY <1>0 DEF Read, CacheKey, CacheTypeOK
  <2>4. cached \in [Requests -> Replies \cup {NoReply}] /\ reply \in [Calls -> Replies \cup {NoReply}]
    BY <1>0 DEF CacheTypeOK
  <2>5. cached' \in [Requests -> Replies \cup {NoReply}]
    BY <2>1, <2>3, <2>4
  <2>6. reply' \in [Calls -> Replies \cup {NoReply}]
    BY <2>2, <2>3, <2>4
  <2>. QED  BY <2>5, <2>6
<1>5. inner' \in [Calls -> Seq(Event)]
  <2>0. inner \in [Calls -> Seq(Event)]
    BY <1>0 DEF CacheTypeOK, Event
  <2>1. CASE inner' = inner
    BY <2>0, <2>1
  <2>2. CASE StreamHits(c)
    <3>1. Read(c) \in Replies
      BY <1>0, <2>2 DEF StreamHits, Read, CacheKey, CacheTypeOK
    <3>2. Read(c).blocks \in Seq(Event)
      BY <3>1, CacheAssumption DEF Event
    <3>3. <<"done">> \in Seq(Event)
      BY DEF Event
    <3>4. Replayed(Read(c)) \in Seq(Event)
      BY <3>2, <3>3 DEF Replayed
    <3>. QED  BY <2>0, <2>2, <3>4 DEF StreamHits
  <2>3. CASE StreamAsks(c)
    <3>1. inner' = inner \/ \E s \in Seq(Event) : inner' = [inner EXCEPT ![c] = s]
      BY <2>3, ProviderIsOrderly DEF StreamAsks
    <3>. QED  BY <2>0, <3>1
  <2>4. CASE StreamPasses(c)
    <3>1. inner' = [inner EXCEPT ![c] = Tail(inner[c])] /\ Tail(inner[c]) \in Seq(Event)
      BY <2>0, <2>4, TailOfStream DEF StreamPasses
    <3>. QED  BY <2>0, <3>1
  <2>. QED  BY <2>1, <2>2, <2>3, <2>4 DEF Step, CompleteHits, CompleteAsks, StreamAbandoned, StreamEnds,
               CallerCancels, Write, Rename, Killed
<1>. QED  BY <1>1, <1>2, <1>3, <1>4, <1>5 DEF CacheTypeOK, Event

LEMMA KnownKept ==
  ASSUME CacheIndInv, NEW c \in Calls, Step(c)
  PROVE  RepliesKnown' /\ NothingToKeep'
<1>0. CacheTypeOK /\ RepliesKnown /\ NothingToKeep
  BY DEF CacheIndInv
<1>1. \A d \in Calls \ {c} : call'[d] = call[d] /\ reply'[d] = reply[d] /\ completed'[d] = completed[d]
  BY <1>0, OthersRest
<1>2. call'[c] \in {"stream", "replay", "write", "rename"} => reply'[c] \in Replies
  BY <1>0 DEF CacheTypeOK, RepliesKnown, Step, CompleteHits, CompleteAsks, StreamHits, StreamAsks, StreamPasses,
       StreamAbandoned, StreamEnds, CallerCancels, Write, Rename, Killed, Goes, Read, CacheKey
<1>3. call'[c] \in {"new", "replay"} => ~completed'[c]
  BY <1>0 DEF CacheTypeOK, NothingToKeep, Step, CompleteHits, CompleteAsks, StreamHits, StreamAsks, StreamPasses,
       StreamAbandoned, StreamEnds, CallerCancels, Write, Rename, Killed, Goes
<1>. QED  BY <1>0, <1>1, <1>2, <1>3 DEF RepliesKnown, NothingToKeep

LEMMA StreamsKept ==
  ASSUME CacheIndInv, NEW c \in Calls, Step(c)
  PROVE  StreamsWatched'
<1>0. CacheTypeOK /\ StreamsWatched /\ NothingToKeep /\ RepliesKnown /\ inner \in [Calls -> Seq(Event)]
  BY DEF CacheIndInv, CacheTypeOK, Event
<1>1. /\ \A r \in Requests : told[r] \subseteq told'[r]
      /\ asked' = asked /\ \A d \in Calls : CacheKey(d) \in Requests /\ CacheKey(d)' = CacheKey(d)
  BY <1>0, ToldGrows, OthersRest DEF Step, CacheTypeOK, CacheKey
<1>2. ASSUME NEW d \in Calls, call'[d] = "stream", call[d] = "stream",
             inner'[d] = inner[d], reply'[d] = reply[d], completed'[d] = completed[d]
      PROVE  ErrorAfterReply(inner'[d]) /\ ReplyStands(d)'
  <2>1. ErrorAfterReply(inner[d]) /\ ReplyStands(d)
    BY <1>0, <1>2 DEF StreamsWatched
  <2>. QED  BY <1>1, <1>2, <2>1 DEF ReplyStands
<1>3. \A d \in Calls \ {c} : call'[d] = "stream" => ErrorAfterReply(inner'[d]) /\ ReplyStands(d)'
  BY <1>0, <1>2, OthersRest
<1>4. ASSUME call'[c] = "stream"  PROVE ErrorAfterReply(inner'[c]) /\ ReplyStands(c)'
  <2>1. CASE StreamAsks(c)
    <3>0. PICK y \in Replies : \E s \in ProviderStream(y) : inner' = [inner EXCEPT ![c] = s]
      BY <1>0, <1>4, <2>1 DEF StreamAsks, Goes, CacheTypeOK
    <3>1. PICK s \in ProviderStream(y) : inner' = [inner EXCEPT ![c] = s]
      BY <3>0
    <3>2. inner'[c] = s
      BY <1>0, <3>1
    <3>3. ~completed'[c]
      BY <1>0, <2>1 DEF StreamAsks, NothingToKeep
    <3>. QED  BY <3>1, <3>2, <3>3, ProviderIsOrderly DEF ReplyStands
  <2>2. CASE StreamPasses(c)
    <3>1. call[c] = "stream" /\ inner[c] # <<>> /\ inner[c] \in Seq(Event) /\ inner'[c] = Tail(inner[c])
          /\ reply' = reply
      BY <1>0, <1>4, <2>2 DEF StreamPasses
    <3>2. ErrorAfterReply(inner[c]) /\ ReplyStands(c)
      BY <1>0, <3>1 DEF StreamsWatched
    <3>3. ErrorAfterReply(inner'[c])
      BY <3>1, <3>2, TailIsOrderly
    <3>4. Head(inner[c]) = inner[c][1]
      BY <3>1, TailOfStream
    <3>5. completed'[c] => inner[c][1] = "done"
      BY <1>0, <2>2, <3>1, <3>2, <3>4 DEF StreamPasses, ReplyStands, CacheTypeOK
    <3>6. ASSUME completed'[c]  PROVE ReplyStands(c)'
      <4>1. CASE Tail(inner[c]) # <<>>
        BY <3>1, <3>2, <3>5, <3>6, <4>1, TailIsOrderly DEF ReplyStands
      <4>2. CASE Tail(inner[c]) = <<>>
        <5>1. inner[c] = <<"done">>
          <6>1. Len(inner[c]) = 1
            <7>1. Len(Tail(inner[c])) = Len(inner[c]) - 1 /\ Len(inner[c]) \in Nat \ {0}
              BY <3>1, TailOfStream
            <7>2. Len(Tail(inner[c])) = 0
              <8>1. Len(<<>>) = 0
                OBVIOUS
              <8>. QED  BY <4>2, <8>1, Zenon
            <7>. QED  BY <7>1, <7>2
          <6>. QED  BY <3>1, <3>5, <3>6, <6>1
        <5>2. Tell(c, reply[c]) /\ reply[c] \in Replies
          BY <1>0, <2>2, <3>1, <5>1 DEF StreamPasses, ToldByLast, RepliesKnown
        <5>3. reply[c] \in told'[CacheKey(c)]
          BY <1>0, <5>2, TellTypes
        <5>. QED  BY <1>1, <3>1, <4>2, <5>3 DEF ReplyStands
      <4>. QED  BY <4>1, <4>2
    <3>. QED  BY <3>3, <3>6 DEF ReplyStands
  <2>3. CASE ~StreamAsks(c) /\ ~StreamPasses(c)
    <3>1. call[c] = "stream" /\ inner'[c] = inner[c] /\ reply'[c] = reply[c] /\ completed'[c] = completed[c]
      BY <1>0, <1>4, <2>3 DEF CacheTypeOK, Step, CompleteHits, CompleteAsks, StreamHits,
         StreamAbandoned, StreamEnds, CallerCancels, Write, Rename, Killed, Goes
    <3>. QED  BY <1>2, <1>4, <3>1
  <2>. QED  BY <2>1, <2>2, <2>3
<1>. QED  BY <1>3, <1>4 DEF StreamsWatched

LEMMA WritesKept ==
  ASSUME CacheIndInv, NEW c \in Calls, Step(c)
  PROVE  WrittenWasTold' /\ KeptWasTold'
<1>0. CacheTypeOK /\ StreamsWatched /\ NothingToKeep /\ WrittenWasTold /\ KeptWasTold
  BY DEF CacheIndInv
<1>1. /\ \A r \in Requests : told[r] \subseteq told'[r]
      /\ asked' = asked /\ \A d \in Calls : CacheKey(d) \in Requests /\ CacheKey(d)' = CacheKey(d)
  BY <1>0, ToldGrows, OthersRest DEF Step, CacheTypeOK, CacheKey
<1>2. ASSUME NEW d \in Calls, call[d] \in {"write", "rename"}, reply'[d] = reply[d]
      PROVE  Cacheable(reply'[d]) /\ reply'[d] \in told'[CacheKey(d)]
  BY <1>0, <1>1, <1>2 DEF WrittenWasTold
<1>3. \A d \in Calls \ {c} : call'[d] \in {"write", "rename"} =>
         Cacheable(reply'[d]) /\ reply'[d] \in told'[CacheKey(d)]
  BY <1>0, <1>2, OthersRest
<1>4. ASSUME call'[c] \in {"write", "rename"}
      PROVE  Cacheable(reply'[c]) /\ reply'[c] \in told'[CacheKey(c)]
  <2>1. CASE CompleteAsks(c)
    <3>1. PICK y \in Replies : reply' = [reply EXCEPT ![c] = y] /\ Tell(c, y) /\ Cacheable(y)
      BY <1>0, <1>4, <2>1 DEF CompleteAsks, Goes, CacheTypeOK
    <3>2. reply'[c] = y /\ y \in told'[CacheKey(c)]
      BY <1>0, <3>1, TellTypes DEF CacheTypeOK
    <3>. QED  BY <3>1, <3>2
  <2>2. CASE StreamEnds(c)
    <3>1. completed[c] /\ Cacheable(reply[c]) /\ inner[c] = <<>> /\ call[c] \in {"stream", "replay"}
          /\ reply' = reply /\ told' = told
      BY <1>0, <1>4, <2>2 DEF StreamEnds, Goes, CacheTypeOK
    <3>2. call[c] = "stream"
      BY <1>0, <3>1 DEF NothingToKeep
    <3>3. ReplyStands(c)
      BY <1>0, <3>2 DEF StreamsWatched
    <3>. QED  BY <3>1, <3>3 DEF ReplyStands
  <2>3. CASE ~CompleteAsks(c) /\ ~StreamEnds(c)
    <3>1. call[c] \in {"write", "rename"} /\ reply'[c] = reply[c]
      BY <1>0, <1>4, <2>3 DEF CacheTypeOK, Step, CompleteHits, StreamHits, StreamAsks, StreamPasses,
         StreamAbandoned, CallerCancels, Write, Rename, Killed, Goes
    <3>. QED  BY <1>2, <3>1
  <2>. QED  BY <2>1, <2>2, <2>3
<1>5. WrittenWasTold'
  BY <1>1, <1>3, <1>4 DEF WrittenWasTold
<1>6. KeptWasTold'
  <2>1. CASE cached' = cached
    BY <1>0, <1>1, <2>1 DEF KeptWasTold
  <2>2. CASE Rename(c) /\ cached' = [cached EXCEPT ![CacheKey(c)] = reply[c]]
    <3>1. reply[c] \in told[CacheKey(c)] /\ ~reply[c].cut
      BY <1>0, <2>2 DEF Rename, WrittenWasTold, Cacheable
    <3>. QED  BY <1>0, <1>1, <2>2, <3>1 DEF KeptWasTold, CacheTypeOK
  <2>. QED  BY <2>1, <2>2 DEF Step, CompleteHits, CompleteAsks, StreamHits, StreamAsks, StreamPasses,
         StreamAbandoned, StreamEnds, CallerCancels, Write, Rename, Killed, fileVars
<1>. QED  BY <1>5, <1>6

LEMMA CacheInitInv == CacheInit => CacheIndInv
<1>. SUFFICES ASSUME CacheInit PROVE CacheIndInv
  OBVIOUS
<1>1. inner \in [Calls -> Seq({"text", "tool", "done", "error"})]
  BY DEF CacheInit
<1>2. CacheTypeOK
  BY <1>1 DEF CacheInit, CacheTypeOK
<1>3. KeptWasTold /\ NothingToKeep /\ StreamsWatched /\ RepliesKnown /\ WrittenWasTold
  BY DEF CacheInit, KeptWasTold, NothingToKeep, StreamsWatched, RepliesKnown, WrittenWasTold
<1>. QED  BY <1>2, <1>3 DEF CacheIndInv

LEMMA CacheStutters ==
  ASSUME CacheIndInv, UNCHANGED cacheVars  PROVE CacheIndInv'
BY DEF cacheVars, CacheIndInv, CacheTypeOK, KeptWasTold, NothingToKeep, StreamsWatched, ReplyStands, RepliesKnown,
       WrittenWasTold, CacheKey

\* Whatever crashes, cancels and failing writes do: the cache answers what a caller was once
\* given to the end, and nothing else (request_cache.go, Complete, Stream and write).
THEOREM CacheTellsTheTruth == CacheSpec => []CacheInv
<1>1. CacheIndInv /\ [CacheNext]_cacheVars => CacheIndInv'
  <2>1. ASSUME CacheIndInv, NEW c \in Calls, Step(c)  PROVE CacheIndInv'
    BY <2>1, CacheTypesKept, KnownKept, StreamsKept, WritesKept DEF CacheIndInv
  <2>2. CacheNext => \E c \in Calls : Step(c)
    BY DEF CacheNext, Step
  <2>. QED  BY <2>1, <2>2, CacheStutters
<1>2. CacheIndInv => CacheInv
  BY DEF CacheIndInv, CacheInv
<1>. QED  BY <1>1, <1>2, CacheInitInv, PTL DEF CacheSpec

-----------------------------------------------------------------------------
(***************************************************************************)
(* The permissions of naked mode                                           *)
(***************************************************************************)

Saving == {"truncate", "fill"}

\* The agents that save are those that hold their store's lock.
SaversHoldLock ==
  \A a \in Agents : doing[a] \in Saving <=> mutex[StoreOf[a]] = a
LockIsOwn ==
  \A s \in Stores : \A a \in Agents : mutex[s] = a => StoreOf[a] = s

\* While no save has met another one, a save knows all that was remembered.
OneSaves ==
  ~clash => \A s \in Stores, t \in Stores : mutex[s] # Nobody /\ mutex[t] # Nobody => s = t
SaverKnows ==
  ~clash => \A a \in Agents :
    /\ doing[a] = "truncate" => loaded[a] = permFile /\ permFile = remembered
    /\ doing[a] = "fill" => loaded[a] = remembered

\* The inductive invariant.
NakedIndInv ==
  /\ NakedTypeOK /\ OnceEndsWithRun /\ RememberedKept
  /\ SaversHoldLock /\ LockIsOwn /\ OneSaves /\ SaverKnows

\* The steps of one agent.
Acts(a) ==
  \/ \E n \in CommandNeeds : Asks(a, n)
  \/ \E n \in SUBSET Grants : AsksForGrants(a, n)
  \/ Denied(a) \/ CommandAllowed(a) \/ GrantsAllowed(a) \/ SaveTruncates(a) \/ SaveFills(a)
  \/ RunPaths(a) \/ RunGrants(a) \/ RunEnds(a) \/ FinishApproval(a)

LEMMA NakedInitInv == NakedInit => NakedIndInv
<1>. SUFFICES ASSUME NakedInit  PROVE NakedIndInv
  OBVIOUS
<1>1. NakedTypeOK
  BY DEF NakedInit, NakedTypeOK
<1>2. OnceEndsWithRun /\ RememberedKept
  BY DEF NakedInit, OnceEndsWithRun, RememberedKept
<1>3. /\ \A a \in Agents : a # Nobody /\ StoreOf[a] \in Stores /\ doing[a] = "idle"
      /\ \A s \in Stores : mutex[s] = Nobody
  BY NakedAssumption DEF NakedInit
<1>4. SaversHoldLock /\ LockIsOwn /\ OneSaves /\ SaverKnows
  BY <1>3 DEF SaversHoldLock, Saving, LockIsOwn, OneSaves, SaverKnows
<1>. QED  BY <1>1, <1>2, <1>4 DEF NakedIndInv

LEMMA NakedStutters == ASSUME NakedIndInv, UNCHANGED nakedVars  PROVE NakedIndInv'
BY DEF nakedVars, NakedIndInv, NakedTypeOK, OnceEndsWithRun, RememberedKept, SaversHoldLock, LockIsOwn,
       OneSaves, SaverKnows

-----------------------------------------------------------------------------
(* Four kinds of steps cover what an agent does *)

\* Steps outside of a save: they leave the file, the locks and what was read alone.
Quiet(a) ==
  /\ doing[a] \notin Saving /\ doing'[a] \notin Saving
  /\ \A b \in Agents \ {a} : doing'[b] = doing[b] /\ needs'[b] = needs[b]
  /\ UNCHANGED <<permFile, mutex, loaded, remembered, clash>>

LEMMA AgentsKinds ==
  ASSUME NakedTypeOK, NEW a \in Agents, Acts(a)
  PROVE  \/ Quiet(a) \/ AllowedAlways(a) \/ SaveTruncates(a) \/ SaveFills(a)
<1>0. NakedTypeOK
  OBVIOUS
<1>1. ASSUME NEW n, Asks(a, n)  PROVE Quiet(a)
  BY <1>0, <1>1 DEF Asks, Proceed, Ends, Does, Quiet, Saving, NakedTypeOK
<1>2. ASSUME Denied(a)  PROVE Quiet(a)
  BY <1>0, <1>2 DEF Denied, Ends, Does, Quiet, Saving, NakedTypeOK
<1>3. ASSUME AllowedOnce(a)  PROVE Quiet(a)
  BY <1>0, <1>3 DEF AllowedOnce, Proceed, Ends, Does, Quiet, Saving, NakedTypeOK
<1>4. ASSUME RunPaths(a) \/ RunGrants(a) \/ RunEnds(a) \/ FinishApproval(a)  PROVE Quiet(a)
  BY <1>0, <1>4 DEF RunPaths, RunGrants, RunEnds, FinishApproval, Ends, Does, Quiet, Saving, NakedTypeOK
<1>. QED
  BY <1>1, <1>2, <1>3, <1>4 DEF Acts, AsksForGrants, CommandAllowed, GrantsAllowed

-----------------------------------------------------------------------------
(* Types *)

LEMMA ProceedTypes ==
  ASSUME NakedTypeOK, NEW a \in Agents, NEW n \in SUBSET Perms, Proceed(a, n) \/ Ends(a)
  PROVE  /\ doing' \in [Agents -> {"idle", "asking", "truncate", "fill", "run", "ready",
                                   "command", "finish", "dead"}]
         /\ needs' \in [Agents -> SUBSET Perms]
BY DEF NakedTypeOK, Proceed, Ends, Does

LEMMA NakedTypesKept == ASSUME NakedTypeOK, NEW a \in Agents, Acts(a)  PROVE NakedTypeOK'
<1>0. NakedTypeOK
  OBVIOUS
<1>a. /\ StoreOf[a] \in Stores /\ needs[a] \in SUBSET Perms
      /\ Grants \subseteq Perms /\ Needs \subseteq Perms
  BY NakedAssumption DEF NakedTypeOK, Perms
<1>1. ASSUME NEW n \in SUBSET Perms, Asks(a, n)  PROVE NakedTypeOK'
  <2>1. CASE Allowed(a, n)
    <3>1. Proceed(a, n)
      BY <1>1, <2>1 DEF Asks
    <3>. QED  BY <1>0, <1>1, <3>1, ProceedTypes DEF Asks, NakedTypeOK
  <2>2. CASE ~Allowed(a, n)
    BY <1>0, <1>1, <2>2 DEF Asks, Does, NakedTypeOK
  <2>. QED  BY <2>1, <2>2
<1>2. CASE Denied(a)
  BY <1>0, <1>2 DEF Denied, Ends, Does, NakedTypeOK
<1>3. CASE AllowedOnce(a)
  <2>1. once' \in [Stores -> SUBSET Perms] /\ owed' \in [Agents -> SUBSET Grants]
    BY <1>0, <1>a, <1>3 DEF AllowedOnce, Owes, NakedTypeOK
  <2>2. Proceed(a, needs[a])
    BY <1>3 DEF AllowedOnce
  <2>. QED  BY <1>0, <1>a, <1>3, <2>1, <2>2, ProceedTypes DEF AllowedOnce, NakedTypeOK
<1>4. CASE AllowedAlways(a)
  <2>1. CASE ~Readable \/ needs[a] \subseteq permFile
    <3>1. Proceed(a, needs[a]) \/ Ends(a)
      BY <1>4, <2>1 DEF AllowedAlways
    <3>2. UNCHANGED <<permFile, once, mutex, loaded, given, owed, remembered, clash>>
      BY <1>4, <2>1 DEF AllowedAlways
    <3>. QED  BY <1>0, <1>a, <3>1, <3>2, ProceedTypes DEF NakedTypeOK
  <2>2. CASE Readable /\ ~(needs[a] \subseteq permFile)
    <3>1. permFile \in SUBSET Perms
      BY <1>0, <2>2 DEF Readable, NakedTypeOK
    <3>2. /\ Does(a, "truncate") /\ UNCHANGED <<permFile, once, needs, given, owed, remembered>>
          /\ mutex' = [mutex EXCEPT ![StoreOf[a]] = a]
          /\ loaded' = [loaded EXCEPT ![a] = permFile]
          /\ clash' \in BOOLEAN
      BY <1>4, <2>2 DEF AllowedAlways
    <3>. QED  BY <1>0, <1>a, <3>1, <3>2 DEF NakedTypeOK, Does
  <2>. QED  BY <2>1, <2>2
<1>5. CASE SaveTruncates(a)
  BY <1>0, <1>5 DEF SaveTruncates, Does, NakedTypeOK
<1>6. CASE SaveFills(a)
  <2>1. loaded[a] \in SUBSET Perms /\ Proceed(a, needs[a])
    BY <1>0, <1>6 DEF SaveFills, NakedTypeOK
  <2>2. permFile' \in SUBSET Perms /\ remembered' \in SUBSET Perms /\ owed' \in [Agents -> SUBSET Grants]
    BY <1>0, <1>a, <1>6, <2>1 DEF SaveFills, Owes, NakedTypeOK
  <2>3. mutex' \in [Stores -> Agents \cup {Nobody}] /\ loaded' \in [Agents -> SUBSET Perms]
    BY <1>0, <1>a, <1>6 DEF SaveFills, NakedTypeOK
  <2>. QED  BY <1>0, <1>a, <1>6, <2>1, <2>2, <2>3, ProceedTypes DEF SaveFills, NakedTypeOK
<1>7. CASE RunPaths(a)
  BY <1>0, <1>a, <1>7 DEF RunPaths, Does, NakedTypeOK
<1>8. CASE RunGrants(a)
  <2>1. given' \in [Agents -> SUBSET Perms]
    BY <1>0, <1>a, <1>8 DEF RunGrants, NakedTypeOK
  <2>. QED  BY <1>0, <1>a, <1>8, <2>1 DEF RunGrants, Does, NakedTypeOK
<1>9. CASE RunEnds(a)
  BY <1>0, <1>a, <1>9 DEF RunEnds, Does, NakedTypeOK
<1>10. CASE FinishApproval(a)
  BY <1>0, <1>a, <1>10 DEF FinishApproval, Ends, Does, NakedTypeOK
<1>. QED
  BY <1>a, <1>1, <1>2, <1>3, <1>4, <1>5, <1>6, <1>7, <1>8, <1>9, <1>10
     DEF Acts, AsksForGrants, CommandAllowed, GrantsAllowed, CommandNeeds

-----------------------------------------------------------------------------
(* What was allowed once *)

\* Nothing is left allowed once without a run that needs it.
LEMMA OnceKept ==
  ASSUME NakedTypeOK, OnceEndsWithRun, SaversHoldLock, NEW a \in Agents, Acts(a)
  PROVE  OnceEndsWithRun'
<1>0. NakedTypeOK /\ OnceEndsWithRun
  OBVIOUS
<1>a. StoreOf[a] \in Stores /\ \A n \in Grants : n \notin Needs
  BY NakedAssumption
\* The agents of which nothing changes go on as before.
<1>b. ASSUME NEW s \in Stores, NEW n \in once[s] \cap Needs,
             doing[a] \notin {"run", "ready", "command", "finish"},
             \A b \in Agents \ {a} : doing'[b] = doing[b] /\ needs'[b] = needs[b]
      PROVE  \E b \in Agents : /\ StoreOf[b] = s /\ n \in needs'[b]
                               /\ doing'[b] \in {"run", "ready", "command", "finish"}
  BY <1>0, <1>b DEF OnceEndsWithRun
<1>1. ASSUME NEW n \in SUBSET Perms, Asks(a, n)  PROVE OnceEndsWithRun'
  <2>1. /\ \A b \in Agents \ {a} : doing'[b] = doing[b] /\ needs'[b] = needs[b]
        /\ doing[a] = "idle" /\ once' = once
    BY <1>0, <1>1 DEF Asks, Proceed, Ends, Does, NakedTypeOK
  <2>. QED  BY <1>b, <2>1 DEF OnceEndsWithRun
<1>2. CASE Denied(a) \/ AllowedAlways(a)
  <2>1. /\ \A b \in Agents \ {a} : doing'[b] = doing[b] /\ needs'[b] = needs[b]
        /\ doing[a] = "asking" /\ once' = once
    BY <1>0, <1>2 DEF Denied, AllowedAlways, Proceed, Ends, Does, NakedTypeOK
  <2>. QED  BY <1>b, <2>1 DEF OnceEndsWithRun
<1>3. CASE AllowedOnce(a)
  <2>1. /\ \A b \in Agents \ {a} : doing'[b] = doing[b] /\ needs'[b] = needs[b]
        /\ doing[a] = "asking" /\ once' = [once EXCEPT ![StoreOf[a]] = @ \cup needs[a]]
    BY <1>0, <1>3 DEF AllowedOnce, Proceed, Ends, Does, NakedTypeOK
  <2>2. needs[a] \subseteq Grants \/ (doing'[a] = "run" /\ needs'[a] = needs[a])
    <3>1. Proceed(a, needs[a])
      BY <1>3 DEF AllowedOnce
    <3>. QED  BY <1>0, <3>1 DEF Proceed, Does, NakedTypeOK
  <2>3. ASSUME NEW s \in Stores, NEW n \in once'[s] \cap Needs
        PROVE  \E b \in Agents : /\ StoreOf[b] = s /\ n \in needs'[b]
                                 /\ doing'[b] \in {"run", "ready", "command", "finish"}
    <3>1. CASE n \in once[s]
      BY <1>b, <2>1, <3>1
    <3>2. CASE n \notin once[s]
      <4>1. s = StoreOf[a] /\ n \in needs[a]
        BY <1>0, <1>a, <2>1, <3>2 DEF NakedTypeOK
      <4>. QED  BY <1>a, <2>2, <4>1
    <3>. QED  BY <3>1, <3>2
  <2>. QED  BY <2>3 DEF OnceEndsWithRun
<1>4. CASE SaveTruncates(a) \/ SaveFills(a)
  <2>1. /\ \A b \in Agents \ {a} : doing'[b] = doing[b] /\ needs'[b] = needs[b]
        /\ doing[a] \in Saving /\ once' = once
    BY <1>0, <1>4 DEF SaveTruncates, SaveFills, Proceed, Ends, Does, Saving, NakedTypeOK
  <2>2. doing[a] \notin {"run", "ready", "command", "finish"}
    BY <2>1 DEF Saving
  <2>. QED  BY <1>b, <2>1, <2>2 DEF OnceEndsWithRun
<1>5. CASE RunPaths(a) \/ RunGrants(a) \/ RunEnds(a)
  <2>1. /\ \A b \in Agents : \/ doing'[b] = doing[b]
                             \/ doing'[b] \in {"run", "ready", "command", "finish"}
        /\ needs' = needs /\ \A s \in Stores : once'[s] \subseteq once[s]
    BY <1>0, <1>a, <1>5 DEF RunPaths, RunGrants, RunEnds, Does, NakedTypeOK
  <2>. QED  BY <1>0, <2>1 DEF OnceEndsWithRun
<1>6. CASE FinishApproval(a)
  <2>1. /\ \A b \in Agents \ {a} : doing'[b] = doing[b] /\ needs'[b] = needs[b]
        /\ once' = [once EXCEPT ![StoreOf[a]] = @ \ needs[a]]
    BY <1>0, <1>6 DEF FinishApproval, Ends, Does, NakedTypeOK
  <2>2. ASSUME NEW s \in Stores, NEW n \in once'[s] \cap Needs
        PROVE  \E b \in Agents : /\ StoreOf[b] = s /\ n \in needs'[b]
                                 /\ doing'[b] \in {"run", "ready", "command", "finish"}
    <3>1. n \in once[s] \cap Needs /\ (s = StoreOf[a] => n \notin needs[a])
      BY <1>0, <1>a, <2>1 DEF NakedTypeOK
    <3>2. PICK b \in Agents : /\ StoreOf[b] = s /\ n \in needs[b]
                              /\ doing[b] \in {"run", "ready", "command", "finish"}
      BY <1>0, <3>1 DEF OnceEndsWithRun
    <3>3. b # a
      BY <3>1, <3>2
    <3>. QED  BY <2>1, <3>2, <3>3
  <2>. QED  BY <2>2 DEF OnceEndsWithRun
<1>. QED
  BY <1>1, <1>2, <1>3, <1>4, <1>5, <1>6
     DEF Acts, AsksForGrants, CommandAllowed, GrantsAllowed, CommandNeeds, Perms

-----------------------------------------------------------------------------
(* Locks and what was allowed for good *)

Locks == SaversHoldLock /\ LockIsOwn /\ OneSaves /\ SaverKnows /\ RememberedKept

\* A step that leaves the file and the locks alone.
LEMMA QuietKeeps ==
  ASSUME NakedTypeOK, Locks, NEW a \in Agents, Quiet(a)  PROVE Locks'
<1>1. \A b \in Agents : /\ doing'[b] \in Saving <=> doing[b] \in Saving
                        /\ doing'[b] \in Saving => doing'[b] = doing[b]
  BY DEF Quiet
<1>. QED
  BY <1>1 DEF Quiet, Locks, SaversHoldLock, LockIsOwn, OneSaves, SaverKnows, RememberedKept, Saving

LEMMA AlwaysKeeps ==
  ASSUME NakedTypeOK, Locks, NEW a \in Agents, AllowedAlways(a)  PROVE Locks'
<1>0. NakedTypeOK /\ Locks
  OBVIOUS
<1>a. StoreOf[a] \in Stores /\ \A b \in Agents : StoreOf[b] \in Stores /\ b # Nobody
  BY NakedAssumption
<1>1. CASE ~Readable \/ needs[a] \subseteq permFile
  <2>1. Quiet(a)
    BY <1>0, <1>1 DEF AllowedAlways, Proceed, Ends, Does, Quiet, Saving, NakedTypeOK
  <2>. QED  BY <1>0, <2>1, QuietKeeps
<1>2. CASE Readable /\ ~(needs[a] \subseteq permFile)
  <2>1. /\ doing[a] = "asking" /\ mutex[StoreOf[a]] = Nobody
        /\ doing'[a] = "truncate" /\ \A b \in Agents \ {a} : doing'[b] = doing[b] /\ loaded'[b] = loaded[b]
        /\ mutex' = [mutex EXCEPT ![StoreOf[a]] = a] /\ loaded'[a] = permFile
        /\ clash' = (clash \/ \E s \in Stores : mutex[s] # Nobody)
        /\ permFile' = permFile /\ remembered' = remembered
    BY <1>0, <1>2 DEF AllowedAlways, Does, MutexFree, NakedTypeOK
  <2>2. \A s \in Stores : mutex'[s] = IF s = StoreOf[a] THEN a ELSE mutex[s]
    BY <1>0, <2>1 DEF NakedTypeOK
  <2>3. SaversHoldLock' /\ LockIsOwn'
    BY <1>0, <1>a, <2>1, <2>2 DEF Locks, SaversHoldLock, LockIsOwn, Saving
  <2>4. ASSUME ~clash'
        PROVE  /\ \A s \in Stores : mutex[s] = Nobody
               /\ remembered = permFile /\ \A b \in Agents : doing[b] \notin Saving
    <3>1. ~clash /\ \A s \in Stores : mutex[s] = Nobody
      BY <2>1, <2>4
    <3>2. remembered = permFile
      BY <1>0, <3>1 DEF Locks, RememberedKept
    <3>3. \A b \in Agents : doing[b] \notin Saving
      BY <1>0, <1>a, <3>1 DEF Locks, SaversHoldLock
    <3>. QED  BY <3>1, <3>2, <3>3
  <2>5. OneSaves'
    <3>1. ASSUME ~clash', NEW s \in Stores, mutex'[s] # Nobody  PROVE s = StoreOf[a]
      <4>1. mutex[s] = Nobody
        BY <2>4, <3>1
      <4>2. s # StoreOf[a] => mutex'[s] = mutex[s]
        BY <2>2
      <4>. QED  BY <3>1, <4>1, <4>2
    <3>. QED  BY <3>1 DEF OneSaves
  <2>6. SaverKnows'
    BY <2>1, <2>4 DEF SaverKnows, Saving
  <2>7. RememberedKept'
    BY <1>a, <2>2 DEF RememberedKept
  <2>. QED  BY <2>3, <2>5, <2>6, <2>7 DEF Locks
<1>. QED  BY <1>1, <1>2

LEMMA TruncateKeeps ==
  ASSUME NakedTypeOK, Locks, NEW a \in Agents, SaveTruncates(a)  PROVE Locks'
<1>0. NakedTypeOK /\ Locks
  OBVIOUS
<1>a. StoreOf[a] \in Stores /\ \A b \in Agents : StoreOf[b] \in Stores /\ b # Nobody
  BY NakedAssumption
<1>1. /\ doing[a] = "truncate" /\ doing'[a] = "fill" /\ \A b \in Agents \ {a} : doing'[b] = doing[b]
      /\ UNCHANGED <<mutex, loaded, remembered, clash>>
  BY <1>0 DEF SaveTruncates, Does, NakedTypeOK
<1>2. mutex[StoreOf[a]] = a
  BY <1>0, <1>1 DEF Locks, SaversHoldLock, Saving
<1>3. SaversHoldLock' /\ LockIsOwn' /\ OneSaves'
  BY <1>0, <1>1 DEF Locks, SaversHoldLock, LockIsOwn, OneSaves, Saving
<1>4. RememberedKept'
  BY <1>a, <1>1, <1>2 DEF RememberedKept
\* Nobody else saves, so nobody else relies on the file.
<1>5. ASSUME ~clash, NEW b \in Agents, doing[b] \in Saving  PROVE b = a
  <2>1. mutex[StoreOf[b]] = b
    BY <1>0, <1>5 DEF Locks, SaversHoldLock
  <2>2. StoreOf[a] = StoreOf[b]
    BY <1>0, <1>a, <1>2, <1>5, <2>1 DEF Locks, OneSaves
  <2>. QED  BY <1>2, <2>1, <2>2
<1>6. SaverKnows'
  BY <1>0, <1>1, <1>5 DEF Locks, SaverKnows, Saving
<1>. QED  BY <1>3, <1>4, <1>6 DEF Locks

LEMMA FillKeeps ==
  ASSUME NakedTypeOK, Locks, NEW a \in Agents, SaveFills(a)  PROVE Locks'
<1>0. NakedTypeOK /\ Locks
  OBVIOUS
<1>a. StoreOf[a] \in Stores /\ \A b \in Agents : StoreOf[b] \in Stores /\ b # Nobody
  BY NakedAssumption
<1>1. /\ doing[a] = "fill" /\ doing'[a] \notin Saving
      /\ \A b \in Agents \ {a} : doing'[b] = doing[b] /\ loaded'[b] = loaded[b]
      /\ \A s \in Stores : mutex'[s] = IF s = StoreOf[a] THEN Nobody ELSE mutex[s]
      /\ permFile' = loaded[a] \cup needs[a] /\ remembered' = remembered \cup needs[a]
      /\ clash' = clash
  BY <1>0 DEF SaveFills, Proceed, Ends, Does, Saving, NakedTypeOK
<1>2. mutex[StoreOf[a]] = a
  BY <1>0, <1>1 DEF Locks, SaversHoldLock, Saving
<1>3. SaversHoldLock'
  <2>1. ASSUME NEW b \in Agents, b # a  PROVE doing'[b] \in Saving <=> mutex'[StoreOf[b]] = b
    <3>1. doing[b] \in Saving <=> mutex[StoreOf[b]] = b
      BY <1>0 DEF Locks, SaversHoldLock
    <3>. QED  BY <1>a, <1>1, <1>2, <2>1, <3>1
  <2>. QED  BY <1>a, <1>1, <2>1 DEF SaversHoldLock
<1>4. LockIsOwn' /\ OneSaves'
  BY <1>0, <1>a, <1>1 DEF Locks, LockIsOwn, OneSaves
<1>5. ASSUME ~clash  PROVE /\ permFile' = remembered'
                          /\ \A b \in Agents : doing'[b] \notin Saving
  <2>1. permFile' = remembered'
    BY <1>0, <1>1, <1>5 DEF Locks, SaverKnows
  <2>2. ASSUME NEW b \in Agents, doing'[b] \in Saving  PROVE FALSE
    <3>1. b # a /\ mutex[StoreOf[b]] = b
      BY <1>0, <1>1, <2>2 DEF Locks, SaversHoldLock
    <3>2. StoreOf[a] = StoreOf[b]
      BY <1>0, <1>a, <1>2, <1>5, <3>1 DEF Locks, OneSaves
    <3>. QED  BY <1>2, <3>1, <3>2
  <2>. QED  BY <2>1, <2>2
<1>6. RememberedKept' /\ SaverKnows'
  BY <1>1, <1>5 DEF RememberedKept, SaverKnows, Saving
<1>. QED  BY <1>3, <1>4, <1>6 DEF Locks

LEMMA DeathKeeps ==
  ASSUME NakedIndInv, NEW s \in Stores, StoreDies(s)  PROVE NakedIndInv'
<1>0. NakedTypeOK /\ OnceEndsWithRun /\ Locks
  BY DEF NakedIndInv, Locks
<1>a. \A b \in Agents : StoreOf[b] \in Stores /\ b # Nobody
  BY NakedAssumption
<1>1. NakedTypeOK'
  BY <1>0 DEF StoreDies, NakedTypeOK
<1>2. /\ \A a \in Agents : /\ StoreOf[a] = s => doing'[a] = "dead"
                           /\ StoreOf[a] # s => doing'[a] = doing[a] /\ needs'[a] = needs[a]
      /\ \A t \in Stores : mutex'[t] = IF t = s THEN Nobody ELSE mutex[t]
      /\ \A t \in Stores : once'[t] = IF t = s THEN {} ELSE once[t]
      /\ clash' = (clash \/ mutex[s] # Nobody)
      /\ UNCHANGED <<permFile, loaded, remembered>>
  BY <1>0 DEF StoreDies, NakedTypeOK
<1>3. OnceEndsWithRun'
  <2>1. ASSUME NEW t \in Stores, NEW n \in once'[t] \cap Needs
        PROVE  \E b \in Agents : /\ StoreOf[b] = t /\ n \in needs'[b]
                                 /\ doing'[b] \in {"run", "ready", "command", "finish"}
    <3>1. t # s /\ n \in once[t] \cap Needs
      BY <1>2, <2>1
    <3>. QED  BY <1>0, <1>2, <3>1 DEF OnceEndsWithRun
  <2>. QED  BY <2>1 DEF OnceEndsWithRun
<1>4. SaversHoldLock' /\ LockIsOwn' /\ OneSaves' /\ SaverKnows'
  <2>1. SaversHoldLock'
    BY <1>0, <1>a, <1>2 DEF Locks, SaversHoldLock, Saving
  <2>2. LockIsOwn'
    BY <1>0, <1>a, <1>2 DEF Locks, LockIsOwn
  <2>3. ~clash' => ~clash
    BY <1>2
  <2>4. \A t \in Stores : mutex'[t] # Nobody => mutex'[t] = mutex[t]
    BY <1>2
  <2>5. OneSaves'
    BY <1>0, <2>3, <2>4 DEF Locks, OneSaves
  <2>6. SaverKnows'
    BY <1>0, <1>2, <2>3 DEF Locks, SaverKnows
  <2>. QED  BY <2>1, <2>2, <2>5, <2>6
<1>5. RememberedKept'
  BY <1>0, <1>2 DEF Locks, RememberedKept
<1>. QED  BY <1>1, <1>3, <1>4, <1>5 DEF NakedIndInv

-----------------------------------------------------------------------------
\* Whatever agents of any stores do at the same time, and whoever is killed: an approval for
\* one run ends with the runs that need it, and one for good stays (naked_permissions.go).
THEOREM PermissionsLastAsTold == NakedSpec => []NakedInv
<1>1. NakedIndInv /\ [NakedNext]_nakedVars => NakedIndInv'
  <2>1. ASSUME NakedIndInv, NEW a \in Agents, Acts(a)  PROVE NakedIndInv'
    <3>1. NakedTypeOK /\ OnceEndsWithRun /\ Locks
      BY <2>1 DEF NakedIndInv, Locks
    <3>2. Locks'
      BY <2>1, <3>1, AgentsKinds, QuietKeeps, AlwaysKeeps, TruncateKeeps, FillKeeps
    <3>3. NakedTypeOK' /\ OnceEndsWithRun'
      BY <2>1, <3>1, NakedTypesKept, OnceKept DEF Locks
    <3>. QED  BY <3>2, <3>3 DEF NakedIndInv, Locks
  <2>2. NakedNext => (\E a \in Agents : Acts(a)) \/ \E s \in Stores : StoreDies(s)
    BY DEF NakedNext, Acts
  <2>. QED  BY <2>1, <2>2, DeathKeeps, NakedStutters
<1>2. NakedIndInv => NakedInv
  BY DEF NakedIndInv, NakedInv
<1>. QED  BY <1>1, <1>2, NakedInitInv, PTL DEF NakedSpec

-----------------------------------------------------------------------------
(***************************************************************************)
(* The worktrees and their locks                                           *)
(***************************************************************************)

\* A session that found no number is counted as reading until it has written one.
CreatorsRead == \A s \in alive : step[s] \in {"create", "fill"} => s \in reading

\* What was stale when it was read is stale for good; the tree it is about is remembered.
JudgedStale ==
  \A s \in alive :
    /\ step[s] \in {"test", "remove"} => goal[s] \in Trees
    /\ step[s] = "remove" => Stale(seenLock[s])

\* A session writes the lock of the tree it is at.
WritesOwn == \A s \in alive : step[s] = "write" => goal[s] = at[s] /\ goal[s] \in Trees

TreesIndInv == TreesTypeOK /\ CreatorsRead /\ JudgedStale /\ WritesOwn

Steps == {"idle", "create", "fill", "list", "test", "remove", "menu", "write"}

LEMMA LocksApart ==
  /\ NoFile \notin Sessions /\ Torn \notin Sessions /\ NoTree \notin Trees
  /\ RepoRoot \notin Trees
BY WorktreesAssumption DEF NoFile, Torn, NoTree

LEMMA TreesStart == TreesInit => TreesIndInv
BY LocksApart DEF TreesInit, TreesIndInv, TreesTypeOK, CreatorsRead, JudgedStale, WritesOwn,
   Places, NoMenu

LEMMA ProjectSteps ==
  ASSUME TreesIndInv, NEW s \in Sessions,
         ReadProject(s) \/ CreateProject(s) \/ FillProject(s)
  PROVE  TreesIndInv'
<1> USE DEF Then, Listing, Steps
<1>1. CASE ReadProject(s)
  <2>1. TreesTypeOK'
    <3>1. CASE project \in Sessions
      <4>1. step' \in [Sessions -> Steps]
        BY <1>1, <3>1 DEF ReadProject, TreesIndInv, TreesTypeOK
      <4>2. listed' \in [Sessions -> SUBSET Trees]
        BY <1>1, <3>1 DEF ReadProject, TreesIndInv, TreesTypeOK
      <4>3. projectId' \in [Sessions -> Sessions \cup {NoFile}]
        BY <1>1, <3>1 DEF ReadProject, TreesIndInv, TreesTypeOK
      <4> QED  BY <1>1, <3>1, <4>1, <4>2, <4>3 DEF ReadProject, TreesIndInv, TreesTypeOK
    <3>2. CASE project \notin Sessions
      BY <1>1, <3>2 DEF ReadProject, TreesIndInv, TreesTypeOK
    <3> QED  BY <3>1, <3>2
  <2>2. CreatorsRead'
    BY <1>1 DEF ReadProject, TreesIndInv, TreesTypeOK, CreatorsRead
  <2>3. JudgedStale' /\ WritesOwn'
    BY <1>1 DEF ReadProject, TreesIndInv, TreesTypeOK, JudgedStale, WritesOwn, Stale
  <2> QED  BY <2>1, <2>2, <2>3 DEF TreesIndInv
<1>2. CASE CreateProject(s)
  BY <1>2 DEF CreateProject, TreesIndInv, TreesTypeOK, CreatorsRead, JudgedStale,
     WritesOwn, Stale
<1>3. CASE FillProject(s)
  BY <1>3 DEF FillProject, TreesIndInv, TreesTypeOK, CreatorsRead, JudgedStale,
     WritesOwn, Stale
<1> QED  BY <1>1, <1>2, <1>3

LEMMA ListSteps ==
  ASSUME TreesIndInv, NEW s \in Sessions,
         \/ ListTests(s) \/ ListRemoves(s) \/ ListEnds(s)
         \/ \E t \in Trees : ListReads(s, t)
  PROVE  TreesIndInv'
<1> USE DEF Then, Steps
<1>1. CASE ListTests(s)
  <2>1. TreesTypeOK'
    <3>1. CASE Stale(seenLock[s])
      BY <1>1, <3>1 DEF ListTests, TreesIndInv, TreesTypeOK
    <3>2. CASE ~Stale(seenLock[s])
      <4>1. goal[s] \in Trees /\ menu[s] \in [trees : SUBSET Trees, active : SUBSET Trees]
        BY <1>1 DEF ListTests, TreesIndInv, TreesTypeOK, JudgedStale
      <4>2. menu' \in [Sessions -> [trees : SUBSET Trees, active : SUBSET Trees]]
        BY <1>1, <3>2, <4>1 DEF ListTests, TreesIndInv, TreesTypeOK
      <4>3. listed' \in [Sessions -> SUBSET Trees]
        BY <1>1, <3>2 DEF ListTests, TreesIndInv, TreesTypeOK
      <4>4. goal' \in [Sessions -> Trees \cup {NoTree}]
        BY <1>1, <3>2 DEF ListTests, TreesIndInv, TreesTypeOK
      <4>5. step' \in [Sessions -> Steps]
        BY <1>1, <3>2 DEF ListTests, TreesIndInv, TreesTypeOK
      <4>6. seenLock' \in [Sessions -> Sessions \cup {NoFile, Torn}]
        BY <1>1, <3>2 DEF ListTests, TreesIndInv, TreesTypeOK
      <4> QED  BY <1>1, <3>2, <4>2, <4>3, <4>4, <4>5, <4>6 DEF ListTests, TreesIndInv, TreesTypeOK
    <3> QED  BY <3>1, <3>2
  <2>2. CreatorsRead' /\ WritesOwn'
    BY <1>1 DEF ListTests, TreesIndInv, TreesTypeOK, CreatorsRead, WritesOwn
  <2>3. JudgedStale'
    BY <1>1 DEF ListTests, TreesIndInv, TreesTypeOK, JudgedStale, Stale
  <2> QED  BY <2>1, <2>2, <2>3 DEF TreesIndInv
<1>2. CASE ListRemoves(s)
  BY <1>2 DEF ListRemoves, Unlink, TreesIndInv, TreesTypeOK, CreatorsRead, JudgedStale,
     WritesOwn, Stale, Places
<1>3. CASE ListEnds(s)
  BY <1>3 DEF ListEnds, TreesIndInv, TreesTypeOK, CreatorsRead, JudgedStale,
     WritesOwn, Stale
<1>4. ASSUME NEW t \in Trees, ListReads(s, t)  PROVE  TreesIndInv'
  BY <1>4 DEF ListReads, TreesIndInv, TreesTypeOK, CreatorsRead, JudgedStale,
     WritesOwn, Stale, Places
<1> QED  BY <1>1, <1>2, <1>3, <1>4

LEMMA MenuSteps ==
  ASSUME TreesIndInv, NEW s \in Sessions,
         \/ CloseMenu(s) \/ WriteLock(s)
         \/ \E t \in Trees : Choose(s, t) \/ NewWorktree(s, t)
  PROVE  TreesIndInv'
<1> USE LocksApart DEF Then, NoMenu
<1>1. CASE CloseMenu(s)
  BY <1>1 DEF CloseMenu, TreesIndInv, TreesTypeOK, CreatorsRead, JudgedStale,
     WritesOwn, Stale
<1>2. CASE WriteLock(s)
  BY <1>2 DEF WriteLock, TreesIndInv, TreesTypeOK, CreatorsRead, JudgedStale,
     WritesOwn, Stale, Places
<1>3. ASSUME NEW t \in Trees, Choose(s, t)  PROVE  TreesIndInv'
  BY <1>3 DEF Choose, SwitchTo, TreesIndInv, TreesTypeOK, CreatorsRead, JudgedStale,
     WritesOwn, Stale, Places
<1>4. ASSUME NEW t \in Trees, NewWorktree(s, t)  PROVE  TreesIndInv'
  BY <1>4 DEF NewWorktree, SwitchTo, TreesIndInv, TreesTypeOK, CreatorsRead, JudgedStale,
     WritesOwn, Stale, Places
<1> QED  BY <1>1, <1>2, <1>3, <1>4

LEMMA EndSteps ==
  ASSUME TreesIndInv, NEW s \in Sessions, Quit(s) \/ Crash(s)
  PROVE  TreesIndInv'
<1> USE DEF Then, NoMenu, Gone
<1>1. CASE Quit(s)
  BY <1>1 DEF Quit, TreesIndInv, TreesTypeOK, CreatorsRead, JudgedStale,
     WritesOwn, Stale, Places
<1>2. CASE Crash(s)
  BY <1>2 DEF Crash, TreesIndInv, TreesTypeOK, CreatorsRead, JudgedStale,
     WritesOwn, Stale, Places
<1> QED  BY <1>1, <1>2

LEMMA TreesStep == TreesIndInv /\ [TreesNext]_treeVars => TreesIndInv'
<1> SUFFICES ASSUME TreesIndInv, [TreesNext]_treeVars  PROVE  TreesIndInv'
  OBVIOUS
<1>1. CASE UNCHANGED treeVars
  BY <1>1 DEF treeVars, TreesIndInv, TreesTypeOK, CreatorsRead, JudgedStale,
     WritesOwn, Stale
<1>2. CASE TreesNext
  BY <1>2, ProjectSteps, ListSteps, MenuSteps, EndSteps DEF TreesNext
<1> QED  BY <1>1, <1>2

KeepsIdStep == reading = {} /\ project \in Sessions => project' = project

KeptStep ==
  \A t \in Trees : lockFile[t] \in alive /\ lockFile'[t] # lockFile[t] =>
       \E s \in alive : \/ at'[s] = t /\ lockFile'[t] \in {Torn, s}
                        \/ at[s] = t /\ s \notin alive'
                        \/ step[s] = "remove" /\ goal[s] = t /\ seenLock[s] # lockFile[t]

LEMMA IdStep == TreesIndInv /\ [TreesNext]_treeVars => KeepsIdStep
<1> SUFFICES ASSUME TreesIndInv, TreesNext, reading = {}  PROVE  project' = project
  BY DEF KeepsIdStep, treeVars
<1>1. PICK s \in Sessions :
        \/ CreateProject(s) \/ FillProject(s) \/ project' = project
  BY DEF TreesNext, ReadProject, ListTests, ListRemoves, ListEnds, CloseMenu, WriteLock, Quit,
     Crash, ListReads, Choose, NewWorktree
<1> QED  BY <1>1 DEF CreateProject, FillProject, TreesIndInv, CreatorsRead

LEMMA LockStep == TreesIndInv /\ [TreesNext]_treeVars => KeptStep
<1> SUFFICES ASSUME TreesIndInv, TreesNext,
                    NEW t \in Trees, lockFile[t] \in alive, lockFile'[t] # lockFile[t]
             PROVE  \E s \in alive :
                      \/ at'[s] = t /\ lockFile'[t] \in {Torn, s}
                      \/ at[s] = t /\ s \notin alive'
                      \/ step[s] = "remove" /\ goal[s] = t /\ seenLock[s] # lockFile[t]
  BY DEF KeptStep, treeVars
<1>1. PICK s \in Sessions :
        \/ ListRemoves(s) \/ WriteLock(s) \/ Quit(s)
        \/ \E u \in Trees : Choose(s, u) \/ NewWorktree(s, u)
  BY DEF TreesNext, ReadProject, CreateProject, FillProject, ListTests, ListEnds, CloseMenu,
     Crash, ListReads
<1>2. CASE ListRemoves(s)
  BY <1>2, LocksApart
  DEF ListRemoves, Unlink, Stale, TreesIndInv, TreesTypeOK, JudgedStale, Places
<1>3. CASE WriteLock(s)
  BY <1>3 DEF WriteLock, TreesIndInv, TreesTypeOK, WritesOwn, Places
<1>4. CASE Quit(s)
  BY <1>4 DEF Quit, Gone, TreesIndInv, TreesTypeOK, Places
<1>5. ASSUME NEW u \in Trees, Choose(s, u) \/ NewWorktree(s, u)
      PROVE  s \in alive /\ at'[s] = t /\ lockFile'[t] \in {Torn, s}
  BY <1>5 DEF Choose, NewWorktree, SwitchTo, TreesIndInv, TreesTypeOK, Places
<1> QED  BY <1>1, <1>2, <1>3, <1>4, <1>5

\* TreesSpec => LocksHold: once a session has read or written the number of a project and none
\* is creating one, ensureProjectID leaves it as it is, and a live session's lock goes only
\* when somebody switches to its tree, quits there, or judged what it had read stale.
THEOREM TreesHold == TreesSpec => LocksHold
<1>1. TreesIndInv => TreesTypeOK
  BY DEF TreesIndInv
<1> QED  BY <1>1, TreesStart, TreesStep, IdStep, LockStep, PTL
         DEF TreesSpec, LocksHold, ProjectKeepsId, LiveLockKept, KeepsIdStep, KeptStep

(***************************************************************************)
(* The conversation                                                        *)
(***************************************************************************)

\* Every set of numbers that is not empty has a least one: induction without an operator.
LEMMA LeastNumber ==
  ASSUME NEW T \in SUBSET Nat, T # {}
  PROVE  \E m \in T : \A k \in T : m <= k
<1>. DEFINE R == OpToRel(<, Nat)
<1>1. PICK m \in T : \A k \in T : ~(<<k, m>> \in R)
  <2>. HIDE DEF R
  <2>1. IsWellFoundedOn(R, Nat)
    BY NatLessThanWellFounded DEF R
  <2>. QED  BY <2>1, WFMin
<1>2. \A k \in T : ~(k < m)
  BY <1>1 DEF OpToRel
<1>. QED  BY <1>2
(***************************************************************************)
(* The conversation: branches                                              *)
(***************************************************************************)

\* A store whose nodes come after their parents.
Ordered(store) ==
  /\ DOMAIN store = 1..Len(store) /\ Len(store) \in Nat
  /\ \A n \in 1..Len(store) : store[n].parent \in 0..(n - 1)

\* f gives the branches of the nodes up to m.
GivesBranches(f, store, m) ==
  /\ f \in [0..m -> Seq(Nat)]
  /\ f[0] = <<>>
  /\ \A n \in 1..m : f[n] = Append(f[store[n].parent], n)

\* A branch ends with its node, and holds no node twice or after it.
BranchWell(path, n) ==
  /\ path \in Seq(1..n)
  /\ n # 0 => Len(path) > 0 /\ path[Len(path)] = n

\* The branches up to a node can be written down: the first node for which they could not
\* comes after its parent.
LEMMA BranchesExist ==
  ASSUME NEW store, Ordered(store), NEW m \in 0..Len(store)
  PROVE  \E f : GivesBranches(f, store, m)
<1>. DEFINE T == {k \in 0..Len(store) : ~ \E f : GivesBranches(f, store, k)}
<1>0. Len(store) \in Nat
  BY DEF Ordered
<1>1. SUFFICES ASSUME T # {} PROVE FALSE
  OBVIOUS
<1>2. T \in SUBSET Nat
  BY <1>0
<1>3. PICK k \in T : \A j \in T : k <= j
  <2>. HIDE DEF T
  <2>. QED  BY <1>1, <1>2, LeastNumber
<1>4. CASE k = 0
  <2>. DEFINE f == [n \in 0..0 |-> <<>>]
  <2>1. <<>> \in Seq(Nat)
    OBVIOUS
  <2>2. f \in [0..0 -> Seq(Nat)] /\ f[0] = <<>>
    <3>1. f[0] = <<>>
      OBVIOUS
    <3>. QED  BY <2>1, <3>1
  <2>3. GivesBranches(f, store, 0)
    <3>. HIDE DEF f
    <3>. QED  BY <2>2 DEF GivesBranches
  <2>. QED  BY <1>3, <1>4, <2>3
<1>5. CASE k # 0
  <2>1. k \in Nat /\ k - 1 \in 0..Len(store) /\ k - 1 \notin T /\ k \in 1..Len(store)
    BY <1>0, <1>3, <1>5
  <2>2. PICK g : GivesBranches(g, store, k - 1)
    BY <2>1
  <2>. DEFINE f == [n \in 0..k |-> IF n = k THEN Append(g[store[k].parent], k) ELSE g[n]]
  <2>3. \A n \in 1..k : store[n].parent \in 0..(n - 1)
    BY <2>1, <1>0 DEF Ordered
  <2>4. \A n \in 0..(k - 1) : f[n] = g[n] /\ f[n] \in Seq(Nat)
    BY <2>1, <2>2 DEF GivesBranches
  <2>5. f[k] = Append(f[store[k].parent], k)
    BY <2>1, <2>3, <2>4
  <2>6. f[k] \in Seq(Nat)
    <3>1. f[store[k].parent] \in Seq(Nat)
      <4>1. store[k].parent \in 0..(k - 1)
        BY <2>1, <2>3
      <4>. HIDE DEF f
      <4>. QED  BY <2>4, <4>1
    <3>. HIDE DEF f
    <3>. QED  BY <2>1, <2>5, <3>1
  <2>7. f \in [0..k -> Seq(Nat)]
    <3>1. \A n \in 0..k : f[n] \in Seq(Nat)
      <4>. HIDE DEF f
      <4>. QED  BY <2>1, <2>4, <2>6
    <3>. QED  BY <3>1
  <2>8. \A n \in 1..k : f[n] = Append(f[store[n].parent], n)
    <3>. SUFFICES ASSUME NEW n \in 1..k, n # k PROVE f[n] = Append(f[store[n].parent], n)
      BY <2>5
    <3>1. n \in 1..(k - 1) /\ store[n].parent \in 0..(k - 1)
      BY <2>1, <2>3
    <3>2. g[n] = Append(g[store[n].parent], n)
      BY <2>2, <3>1 DEF GivesBranches
    <3>3. f[n] = g[n] /\ f[store[n].parent] = g[store[n].parent]
      BY <2>1, <2>4, <3>1
    <3>. HIDE DEF f
    <3>. QED  BY <3>2, <3>3
  <2>9. f[0] = <<>>
    <3>1. 0 \in 0..(k - 1)
      BY <2>1
    <3>. HIDE DEF f
    <3>. QED  BY <2>2, <2>4, <3>1 DEF GivesBranches
  <2>10. GivesBranches(f, store, k)
    <3>. HIDE DEF f
    <3>. QED  BY <2>7, <2>8, <2>9 DEF GivesBranches
  <2>. QED  BY <1>3, <2>10
<1>. QED  BY <1>4, <1>5

\* BranchOf is what its recursion says.
LEMMA BranchesGiven ==
  ASSUME NEW store, Ordered(store)
  PROVE  GivesBranches(BranchOf(store), store, Len(store))
<1>. DEFINE L == Len(store)
            rhs(f) == [n \in 0..L |-> IF n = 0 THEN <<>> ELSE Append(f[store[n].parent], n)]
<1>0. L \in Nat /\ L \in 0..L
  BY DEF Ordered
<1>1. PICK f : GivesBranches(f, store, L)
  BY <1>0, BranchesExist
<1>2. f = rhs(f)
  <2>1. f = [n \in 0..L |-> f[n]]
    BY <1>1 DEF GivesBranches
  <2>2. \A n \in 0..L : f[n] = IF n = 0 THEN <<>> ELSE Append(f[store[n].parent], n)
    BY <1>0, <1>1 DEF GivesBranches
  <2>. QED  BY <2>1, <2>2
<1>3. BranchOf(store) = CHOOSE g : g = rhs(g)
  BY DEF BranchOf
<1>4. BranchOf(store) = rhs(BranchOf(store))
  BY <1>2, <1>3
<1>. DEFINE g == BranchOf(store)
            T == {n \in 0..L : g[n] # f[n]}
<1>5. \A n \in 0..L : g[n] = IF n = 0 THEN <<>> ELSE Append(g[store[n].parent], n)
  <2>. HIDE DEF g
  <2>. QED  BY <1>4 DEF g
<1>6. T = {}
  <2>. SUFFICES ASSUME T # {} PROVE FALSE
    OBVIOUS
  <2>1. T \in SUBSET Nat
    BY <1>0
  <2>2. PICK n \in T : \A j \in T : n <= j
    <3>. HIDE DEF T
    <3>. QED  BY <2>1, LeastNumber
  <2>3. n # 0
    <3>. HIDE DEF g
    <3>. QED  BY <1>0, <1>1, <1>5, <2>2 DEF GivesBranches
  <2>4. n \in 1..L /\ store[n].parent \in 0..(n - 1)
    BY <1>0, <2>2, <2>3 DEF Ordered
  <2>5. store[n].parent \notin T /\ store[n].parent \in 0..L
    <3>. HIDE DEF g
    <3>. QED  BY <1>0, <2>2, <2>4
  <2>. HIDE DEF g
  <2>. QED  BY <1>1, <1>5, <2>2, <2>3, <2>4, <2>5 DEF GivesBranches
<1>7. g = f
  <2>1. g = [n \in 0..L |-> g[n]]
    BY <1>4
  <2>2. f = [n \in 0..L |-> f[n]]
    BY <1>1 DEF GivesBranches
  <2>3. \A n \in 0..L : g[n] = f[n]
    <3>. HIDE DEF g
    <3>. QED  BY <1>6
  <2>. HIDE DEF g
  <2>. QED  BY <2>1, <2>2, <2>3
<1>. QED  BY <1>1, <1>7

\* The branch of nothing is empty, and a node ends the branch of its parent.
LEMMA BranchSteps ==
  ASSUME NEW store, Ordered(store)
  PROVE  /\ BranchOf(store)[0] = <<>>
         /\ \A n \in 1..Len(store) : /\ store[n].parent \in 0..Len(store)
                                     /\ BranchOf(store)[n] = Append(BranchOf(store)[store[n].parent], n)
<1>1. \A n \in 1..Len(store) : store[n].parent \in 0..Len(store)
  BY DEF Ordered
<1>. QED  BY <1>1, BranchesGiven DEF GivesBranches

\* The nodes of a branch come before the node that ends it.
LEMMA BranchesWell ==
  ASSUME NEW store, Ordered(store), NEW n \in 0..Len(store)
  PROVE  BranchWell(BranchOf(store)[n], n)
<1>. DEFINE T == {k \in 0..Len(store) : ~ BranchWell(BranchOf(store)[k], k)}
<1>0. Len(store) \in Nat
  BY DEF Ordered
<1>1. SUFFICES ASSUME T # {} PROVE FALSE
  OBVIOUS
<1>2. T \in SUBSET Nat
  BY <1>0
<1>3. PICK k \in T : \A j \in T : k <= j
  <2>. HIDE DEF T
  <2>. QED  BY <1>1, <1>2, LeastNumber
<1>4. k # 0
  <2>. SUFFICES ASSUME k = 0 PROVE FALSE
    OBVIOUS
  <2>1. BranchOf(store)[0] = <<>>
    BY BranchSteps
  <2>2. BranchWell(<<>>, 0)
    BY DEF BranchWell
  <2>. QED  BY <1>3, <2>1, <2>2
<1>5. k \in 1..Len(store) /\ k \in Nat /\ store[k].parent \in 0..(k - 1) /\ store[k].parent \in 0..Len(store)
  BY <1>0, <1>3, <1>4 DEF Ordered
<1>6. store[k].parent \notin T
  BY <1>0, <1>3, <1>5
<1>. DEFINE path == BranchOf(store)[store[k].parent]
<1>7. BranchWell(path, store[k].parent)
  BY <1>5, <1>6
<1>8. BranchOf(store)[k] = Append(path, k)
  BY <1>5, BranchSteps
<1>. HIDE DEF path
<1>9. path \in Seq(1..k)
  <2>1. path \in Seq(1..store[k].parent)
    BY <1>7 DEF BranchWell
  <2>2. 1..store[k].parent \subseteq 1..k
    BY <1>5
  <2>3. Len(path) \in Nat /\ \A i \in 1..Len(path) : path[i] \in 1..store[k].parent
    BY <2>1, LenProperties, ElementOfSeq
  <2>4. path = [i \in 1..Len(path) |-> path[i]]
    BY <2>1
  <2>5. \A i \in 1..Len(path) : path[i] \in 1..k
    BY <2>2, <2>3
  <2>. QED  BY <2>3, <2>4, <2>5
<1>10. k \in 1..k
  BY <1>5
<1>11. BranchWell(Append(path, k), k)
  <2>1. Append(path, k) \in Seq(1..k)
    BY <1>9, <1>10
  <2>2. Len(Append(path, k)) = Len(path) + 1 /\ Append(path, k)[Len(path) + 1] = k /\ Len(path) \in Nat
    BY <1>9, <1>10
  <2>. QED  BY <2>1, <2>2 DEF BranchWell
<1>. QED  BY <1>3, <1>8, <1>11

\* Nodes that are there keep their branches, whatever is appended.
LEMMA BranchesStay ==
  ASSUME NEW store, Ordered(store), NEW more, Ordered(more), Len(store) <= Len(more),
         \A n \in 1..Len(store) : more[n].parent = store[n].parent,
         NEW n \in 0..Len(store)
  PROVE  BranchOf(more)[n] = BranchOf(store)[n]
<1>. DEFINE T == {k \in 0..Len(store) : BranchOf(more)[k] # BranchOf(store)[k]}
<1>0. Len(store) \in Nat /\ Len(more) \in Nat
  BY DEF Ordered
<1>1. SUFFICES ASSUME T # {} PROVE FALSE
  OBVIOUS
<1>2. T \in SUBSET Nat
  BY <1>0
<1>3. PICK k \in T : \A j \in T : k <= j
  <2>. HIDE DEF T
  <2>. QED  BY <1>1, <1>2, LeastNumber
<1>4. k # 0
  BY <1>3, BranchSteps
<1>5. k \in 1..Len(store) /\ k \in 1..Len(more) /\ store[k].parent \in 0..(k - 1) /\ store[k].parent \in 0..Len(store)
  BY <1>0, <1>3, <1>4 DEF Ordered
<1>6. store[k].parent \notin T
  BY <1>0, <1>3, <1>5
<1>. DEFINE parent == store[k].parent
<1>7. BranchOf(store)[k] = Append(BranchOf(store)[parent], k)
  BY <1>5, BranchSteps
<1>8. BranchOf(more)[k] = Append(BranchOf(more)[parent], k)
  <2>1. BranchOf(more)[k] = Append(BranchOf(more)[more[k].parent], k)
    BY <1>5, BranchSteps
  <2>. QED  BY <1>5, <2>1
<1>9. BranchOf(more)[parent] = BranchOf(store)[parent]
  BY <1>5, <1>6
<1>10. BranchOf(more)[k] # BranchOf(store)[k]
  BY <1>3
<1>. QED  BY <1>7, <1>8, <1>9, <1>10

Chained(store, r, k) == store[r].parent = 0 /\ \A i \in 1..k : store[r + i].parent = r + i - 1

\* A root and nodes that follow it one after the other are the branch of the last.
LEMMA ChainBranch ==
  ASSUME NEW store, Ordered(store), NEW r \in 1..Len(store), NEW k \in 0..(Len(store) - r),
         Chained(store, r, k)
  PROVE  BranchOf(store)[r + k] = [j \in 1..(k + 1) |-> r + j - 1]
<1>. DEFINE chain(i) == [j \in 1..(i + 1) |-> r + j - 1]
            T == {i \in 0..k : BranchOf(store)[r + i] # chain(i)}
<1>0. Len(store) \in Nat /\ k \in Nat /\ r \in Nat
  BY DEF Ordered
<1>a. store[r].parent = 0 /\ \A i \in 1..k : store[r + i].parent = r + i - 1
  BY DEF Chained
<1>1. SUFFICES ASSUME T # {} PROVE FALSE
  <2>1. k \in 0..k
    BY <1>0
  <2>2. T = {} => BranchOf(store)[r + k] = chain(k)
    <3>. HIDE DEF chain
    <3>. QED  BY <2>1
  <2>. QED  BY <2>2
<1>2. T \in SUBSET Nat
  BY <1>0
<1>3. PICK m \in T : \A j \in T : m <= j
  <2>. HIDE DEF T
  <2>. QED  BY <1>1, <1>2, LeastNumber
<1>4. m \in 0..k /\ m \in Nat
  BY <1>0, <1>3
<1>5. CASE m = 0
  <2>1. BranchOf(store)[r] = Append(<<>>, r)
    <3>1. BranchOf(store)[0] = <<>> /\ BranchOf(store)[r] = Append(BranchOf(store)[store[r].parent], r)
      BY BranchSteps
    <3>. QED  BY <1>a, <3>1
  <2>2. Append(<<>>, r) = chain(0)
    BY <1>0
  <2>3. r + m = r
    BY <1>0, <1>5
  <2>. QED  BY <1>3, <1>5, <2>1, <2>2, <2>3
<1>6. CASE m # 0
  <2>0. m - 1 \in 0..k /\ m \in 1..k /\ r + m \in 1..Len(store) /\ r + (m - 1) = r + m - 1 /\ ~(m <= m - 1)
    BY <1>0, <1>4, <1>6
  <2>1. m - 1 \in 0..k /\ m - 1 \notin T /\ m \in 1..k /\ r + m \in 1..Len(store) /\ r + (m - 1) = r + m - 1
    <3>. HIDE DEF T
    <3>. QED  BY <1>3, <2>0
  <2>2. BranchOf(store)[r + (m - 1)] = chain(m - 1)
    <3>. HIDE DEF chain
    <3>. QED  BY <2>1
  <2>3. BranchOf(store)[r + m] = Append(BranchOf(store)[r + m - 1], r + m)
    <3>1. store[r + m].parent = r + m - 1
      <4>1. m \in 1..k
        BY <2>1
      <4>. QED  BY <1>a, <4>1
    <3>2. BranchOf(store)[r + m] = Append(BranchOf(store)[store[r + m].parent], r + m)
      BY <2>1, BranchSteps
    <3>. QED  BY <3>1, <3>2
  <2>4. Append(chain(m - 1), r + m) = chain(m)
    <3>1. chain(m - 1) \in Seq(Nat) /\ Len(chain(m - 1)) = m /\ \A j \in 1..m : chain(m - 1)[j] = r + j - 1
      BY <1>0, <1>4, <2>1
    <3>2. chain(m) \in Seq(Nat) /\ Len(chain(m)) = m + 1 /\ \A j \in 1..(m + 1) : chain(m)[j] = r + j - 1
      BY <1>0, <1>4
    <3>. HIDE DEF chain
    <3>3. Append(chain(m - 1), r + m) \in Seq(Nat) /\ Len(Append(chain(m - 1), r + m)) = m + 1
      BY <1>0, <1>4, <3>1
    <3>4. \A j \in 1..(m + 1) : Append(chain(m - 1), r + m)[j] = r + j - 1
      <4>1. r + m \in Nat /\ m \in Nat
        BY <1>0, <1>4
      <4>2. /\ Append(chain(m - 1), r + m)[m + 1] = r + m
            /\ \A j \in 1..m : Append(chain(m - 1), r + m)[j] = chain(m - 1)[j]
        BY <3>1, <4>1
      <4>3. \A j \in 1..(m + 1) : j \in 1..m \/ j = m + 1
        BY <4>1
      <4>4. r + m = r + (m + 1) - 1
        BY <1>0, <4>1
      <4>. QED  BY <3>1, <4>2, <4>3, <4>4
    <3>5. \A j \in 1..(m + 1) : Append(chain(m - 1), r + m)[j] = chain(m)[j]
      BY <3>2, <3>4
    <3>. QED  BY <3>2, <3>3, <3>5, SeqEqual
  <2>. HIDE DEF chain
  <2>. QED  BY <1>3, <2>1, <2>2, <2>3, <2>4
<1>. QED  BY <1>5, <1>6

(***************************************************************************)
(* The conversation: what holds of the stored nodes                        *)
(***************************************************************************)

Kinds == {"prompt", "reply", "call", "result", "summary"}
NodeSet == [parent : Nat, kind : Kinds, says : SUBSET Nat, size : Nat, cleared : BOOLEAN]

\* A node says what it or an older one said first; only a summary says more than one thing.
StoreOK(store) ==
  /\ store \in Seq(NodeSet)
  /\ \A n \in 1..Len(store) :
       /\ store[n].parent \in 0..(n - 1)
       /\ store[n].says \subseteq 1..n
       /\ store[n].kind # "summary" => \E m \in 1..n : store[n].says = {m}
       /\ store[n].cleared => store[n].kind = "result"

\* No two nodes of a branch say the same.
Apart(store, path) ==
  \A i, j \in DOMAIN path : i # j => store[path[i]].says \cap store[path[j]].says = {}
AllApart(store) == \A n \in 0..Len(store) : Apart(store, BranchOf(store)[n])

\* What a compaction noted of itself is so: the root says what the older part of the old
\* branch said, and the nodes after it what the recent part said.
CompactionOK(store, c) ==
  LET path == BranchOf(store)[c.old]
      cut == Len(path) - CompactKeep
  IN /\ c.old \in 1..Len(store) /\ c.root \in 1..Len(store) /\ c.leaf \in c.root..Len(store)
     /\ c.leaf - c.root <= CompactKeep /\ Len(path) > CompactKeep
     /\ store[c.root].parent = 0
     /\ store[c.root].says = UNION {store[path[i]].says : i \in 1..cut}
     /\ \A i \in 1..(c.leaf - c.root) : /\ store[c.root + i].parent = c.root + i - 1
                                        /\ store[c.root + i].says = store[path[cut + i]].says

\* Said since the prompt.
Mine(store, from, n) == store[n].kind # "summary" /\ \A m \in store[n].says : m > from

\* What was said since the prompt ends the branch, no two results of it follow each other,
\* and a cleared one has ClearKeep results after it.
KeptReadable(store, from, n) ==
  LET path == BranchOf(store)[n] IN
  /\ \A i, j \in DOMAIN path : i < j /\ Mine(store, from, path[i]) => Mine(store, from, path[j])
  /\ \A i, j \in DOMAIN path :
       j = i + 1 /\ Mine(store, from, path[i]) /\ IsResult(store, path[i]) => ~IsResult(store, path[j])
  /\ \A i \in DOMAIN path :
       Mine(store, from, path[i]) /\ IsResult(store, path[i]) /\ store[path[i]].cleared
       => Cardinality(ResultsAfter(store, path, i)) >= ClearKeep

\* Every compaction since the prompt was stored in full.
InFull(set, from) == \A c \in set : c.root > from => c.leaf - c.root >= CompactKeep

TurnOK(store, state, n, from, set) ==
  state # "idle" =>
    /\ n # 0
    /\ InFull(set, from) => /\ state # "asks again" => ~IsResult(store, n)
                            /\ KeptReadable(store, from, n)

Stored(store, set) ==
  StoreOK(store) /\ Len(store) <= MaxNodes /\ AllApart(store) /\ \A c \in set : CompactionOK(store, c)

ConvIndInv ==
  /\ Stored(nodes, compacted)
  /\ agentNodeID \in 0..Len(nodes) /\ leaf \in 0..Len(nodes) /\ started \in 0..Len(nodes)
  /\ turn \in {"idle", "asks", "asks again", "tools"}
  /\ TurnOK(nodes, turn, leaf, started, compacted)

LEMMA StoreOrdered ==
  ASSUME NEW store, StoreOK(store)
  PROVE  Ordered(store) /\ Len(store) \in Nat /\ \A n \in 1..Len(store) : store[n] \in NodeSet
BY LenProperties, ElementOfSeq DEF StoreOK, Ordered

\* The places of a branch and what they hold.
LEMMA PathFacts ==
  ASSUME NEW store, StoreOK(store), NEW n \in 0..Len(store), NEW path, path = BranchOf(store)[n]
  PROVE  /\ Len(path) \in Nat /\ DOMAIN path = 1..Len(path) /\ path \in Seq(1..n)
         /\ \A i \in DOMAIN path : path[i] \in 1..n /\ path[i] \in 1..Len(store) /\ path[i] \in Nat
         /\ n # 0 => Len(path) > 0 /\ path[Len(path)] = n
<1>1. BranchWell(path, n) /\ Len(store) \in Nat
  BY StoreOrdered, BranchesWell
<1>2. path \in Seq(1..n)
  BY <1>1 DEF BranchWell
<1>3. Len(path) \in Nat /\ DOMAIN path = 1..Len(path)
  BY <1>2, LenProperties
<1>4. \A i \in 1..Len(path) : path[i] \in 1..n
  BY <1>2, ElementOfSeq
<1>5. \A k \in 1..n : k \in 1..Len(store) /\ k \in Nat
  BY <1>1
<1>. QED  BY <1>1, <1>2, <1>3, <1>4, <1>5 DEF BranchWell

\* more has the nodes of store, at most some of them cleared.
Carries(store, more) ==
  /\ Len(store) <= Len(more)
  /\ \A n \in 1..Len(store) : /\ more[n].parent = store[n].parent
                              /\ more[n].says = store[n].says
                              /\ more[n].kind = store[n].kind

LEMMA CarriedBranches ==
  ASSUME NEW store, StoreOK(store), NEW more, StoreOK(more), Carries(store, more)
  PROVE  \A n \in 0..Len(store) : BranchOf(more)[n] = BranchOf(store)[n]
BY StoreOrdered, BranchesStay DEF Carries

LEMMA CarriedApart ==
  ASSUME NEW store, StoreOK(store), NEW more, StoreOK(more), Carries(store, more),
         NEW n \in 0..Len(store), AllApart(store)
  PROVE  Apart(more, BranchOf(more)[n])
<1>. DEFINE path == BranchOf(store)[n]
<1>1. BranchOf(more)[n] = path
  BY CarriedBranches
<1>2. Apart(store, path)
  BY DEF AllApart
<1>3. \A i \in DOMAIN path : path[i] \in 1..Len(store)
  BY PathFacts
<1>4. \A i \in DOMAIN path : more[path[i]].says = store[path[i]].says
  BY <1>3 DEF Carries
<1>. HIDE DEF path
<1>. QED  BY <1>1, <1>2, <1>4 DEF Apart

LEMMA CarriedCompaction ==
  ASSUME NEW store, StoreOK(store), NEW more, StoreOK(more), Carries(store, more),
         NEW c, CompactionOK(store, c)
  PROVE  CompactionOK(more, c)
<1>. DEFINE path == BranchOf(store)[c.old]
            cut == Len(path) - CompactKeep
<1>0. Len(store) \in Nat /\ Len(more) \in Nat /\ CompactKeep \in Nat
  BY StoreOrdered, ConversationAssumption
<1>1. c.old \in 1..Len(store) /\ c.old \in 0..Len(store) /\ c.root \in 1..Len(store) /\ c.leaf \in c.root..Len(store)
  BY <1>0 DEF CompactionOK
<1>2. BranchOf(more)[c.old] = path
  BY <1>1, CarriedBranches
<1>3. Len(path) \in Nat /\ DOMAIN path = 1..Len(path) /\ \A i \in DOMAIN path : path[i] \in 1..Len(store)
  <2>. HIDE DEF path
  <2>1. path = BranchOf(store)[c.old]
    BY DEF path
  <2>. QED  BY <1>1, <2>1, PathFacts
<1>4. \A i \in DOMAIN path : more[path[i]].says = store[path[i]].says
  BY <1>3 DEF Carries
<1>5. cut \in Nat /\ (\A i \in 1..cut : i \in DOMAIN path)
      /\ \A i \in 1..(c.leaf - c.root) : cut + i \in DOMAIN path /\ c.root + i \in 1..Len(store)
  <2>1. c.leaf - c.root <= CompactKeep /\ Len(path) > CompactKeep
    BY DEF CompactionOK
  <2>2. c.root \in Nat /\ c.leaf \in Nat /\ c.leaf <= Len(store)
    BY <1>0, <1>1
  <2>. HIDE DEF path
  <2>3. cut \in Nat /\ cut <= Len(path)
    BY <1>0, <1>3, <2>1
  <2>4. \A i \in 1..cut : i \in 1..Len(path)
    BY <1>3, <2>3
  <2>5. \A i \in 1..(c.leaf - c.root) : cut + i \in 1..Len(path)
    BY <1>0, <1>3, <2>1, <2>2
  <2>6. \A i \in 1..(c.leaf - c.root) : c.root + i \in 1..Len(store)
    BY <1>0, <1>1, <2>2
  <2>. QED  BY <1>3, <2>3, <2>4, <2>5, <2>6
<1>6. more[c.root].parent = 0 /\ more[c.root].says = store[c.root].says
  BY <1>1 DEF CompactionOK, Carries
<1>7. UNION {more[path[i]].says : i \in 1..cut} = UNION {store[path[i]].says : i \in 1..cut}
  BY <1>4, <1>5
<1>8. \A i \in 1..(c.leaf - c.root) : /\ more[c.root + i].parent = store[c.root + i].parent
                                      /\ more[c.root + i].says = store[c.root + i].says
  BY <1>5 DEF Carries
<1>9. \A i \in 1..(c.leaf - c.root) : more[path[cut + i]].says = store[path[cut + i]].says
  BY <1>4, <1>5
<1>10. c.old \in 1..Len(more) /\ c.root \in 1..Len(more) /\ c.leaf \in c.root..Len(more)
  BY <1>0, <1>1 DEF Carries
<1>11. /\ c.leaf - c.root <= CompactKeep /\ Len(path) > CompactKeep
       /\ store[c.root].says = UNION {store[path[i]].says : i \in 1..cut}
       /\ \A i \in 1..(c.leaf - c.root) : /\ store[c.root + i].parent = c.root + i - 1
                                          /\ store[c.root + i].says = store[path[cut + i]].says
  BY DEF CompactionOK
<1>. HIDE DEF path
<1>12. \A i \in 1..(c.leaf - c.root) : /\ more[c.root + i].parent = c.root + i - 1
                                       /\ more[c.root + i].says = more[path[cut + i]].says
  BY <1>8, <1>9, <1>11
<1>13. more[c.root].says = UNION {more[path[i]].says : i \in 1..cut}
  BY <1>6, <1>7, <1>11
<1>. DEFINE now == BranchOf(more)[c.old]
<1>14. now = path
  BY <1>2
<1>. HIDE DEF now
<1>15. /\ Len(now) > CompactKeep
       /\ more[c.root].says = UNION {more[now[i]].says : i \in 1..(Len(now) - CompactKeep)}
       /\ \A i \in 1..(c.leaf - c.root) : more[c.root + i].says = more[now[Len(now) - CompactKeep + i]].says
  BY <1>11, <1>12, <1>13, <1>14
<1>. QED  BY <1>6, <1>10, <1>11, <1>12, <1>15 DEF CompactionOK, now

\* Results that are not cleared in between stay readable.
LEMMA CarriedReadable ==
  ASSUME NEW store, StoreOK(store), NEW more, StoreOK(more), Carries(store, more),
         \A n \in 1..Len(store) : more[n].cleared = store[n].cleared,
         NEW n \in 0..Len(store), NEW from, KeptReadable(store, from, n)
  PROVE  KeptReadable(more, from, n)
<1>. DEFINE path == BranchOf(store)[n]
<1>1. BranchOf(more)[n] = path
  BY CarriedBranches
<1>2. \A i \in DOMAIN path : path[i] \in 1..Len(store)
  BY PathFacts
<1>3. \A i \in DOMAIN path : /\ Mine(more, from, path[i]) <=> Mine(store, from, path[i])
                             /\ IsResult(more, path[i]) <=> IsResult(store, path[i])
                             /\ more[path[i]].cleared = store[path[i]].cleared
  BY <1>2 DEF Carries, Mine, IsResult
<1>4. \A i \in DOMAIN path : ResultsAfter(more, path, i) = ResultsAfter(store, path, i)
  BY <1>3 DEF ResultsAfter
<1>5. /\ \A i, j \in DOMAIN path : i < j /\ Mine(store, from, path[i]) => Mine(store, from, path[j])
      /\ \A i, j \in DOMAIN path :
           j = i + 1 /\ Mine(store, from, path[i]) /\ IsResult(store, path[i]) => ~IsResult(store, path[j])
      /\ \A i \in DOMAIN path :
           Mine(store, from, path[i]) /\ IsResult(store, path[i]) /\ store[path[i]].cleared
           => Cardinality(ResultsAfter(store, path, i)) >= ClearKeep
  BY DEF KeptReadable
<1>. HIDE DEF path
<1>6. \A i, j \in DOMAIN path : i < j /\ Mine(more, from, path[i]) => Mine(more, from, path[j])
  BY <1>3, <1>5
<1>7. \A i, j \in DOMAIN path :
        j = i + 1 /\ Mine(more, from, path[i]) /\ IsResult(more, path[i]) => ~IsResult(more, path[j])
  BY <1>3, <1>5
<1>8. \A i \in DOMAIN path :
        Mine(more, from, path[i]) /\ IsResult(more, path[i]) /\ more[path[i]].cleared
        => Cardinality(ResultsAfter(more, path, i)) >= ClearKeep
  BY <1>3, <1>4, <1>5
<1>. QED  BY <1>1, <1>6, <1>7, <1>8 DEF KeptReadable

(***************************************************************************)
(* The conversation: a turn adds a node                                    *)
(***************************************************************************)

IsNew(store, x) ==
  /\ x \in NodeSet /\ x.parent \in 0..Len(store) /\ x.says = {Len(store) + 1}
  /\ x.kind # "summary" /\ x.cleared = FALSE

Appended(store, x, more) == more = Append(store, x)

LEMMA NodeIsNew ==
  ASSUME NEW store, Len(store) \in Nat, NEW p \in 0..Len(store), NEW kind \in Kinds \ {"summary"}
  PROVE  IsNew(store, Node(p, kind, {Len(store) + 1}))
BY DEF IsNew, Node, NodeSet, Kinds

LEMMA AppendedStore ==
  ASSUME NEW store, StoreOK(store), NEW x, IsNew(store, x), NEW more, Appended(store, x, more)
  PROVE  /\ StoreOK(more) /\ Carries(store, more) /\ Len(more) = Len(store) + 1
         /\ more[Len(store) + 1] = x /\ \A n \in 1..Len(store) : more[n] = store[n]
<1>1. store \in Seq(NodeSet) /\ x \in NodeSet /\ Len(store) \in Nat
  BY StoreOrdered DEF StoreOK, IsNew
<1>2. /\ more \in Seq(NodeSet) /\ Len(more) = Len(store) + 1
      /\ more[Len(store) + 1] = x /\ \A n \in 1..Len(store) : more[n] = store[n]
  BY <1>1 DEF Appended
<1>3. Carries(store, more)
  BY <1>1, <1>2 DEF Carries
<1>4. \A n \in 1..Len(more) : n = Len(store) + 1 \/ n \in 1..Len(store)
  BY <1>1, <1>2
<1>5. x.cleared = FALSE /\ x.says = {Len(store) + 1} /\ x.parent \in 0..Len(store)
  BY DEF IsNew
<1>6. ASSUME NEW n \in 1..Len(more)
      PROVE  /\ more[n].parent \in 0..(n - 1) /\ more[n].says \subseteq 1..n
             /\ more[n].kind # "summary" => \E m \in 1..n : more[n].says = {m}
             /\ more[n].cleared => more[n].kind = "result"
  <2>1. CASE n = Len(store) + 1
    <3>1. more[n] = x /\ n \in 1..n /\ n - 1 = Len(store) /\ x.says = {n}
      BY <1>1, <1>2, <1>5, <2>1
    <3>. QED  BY <1>5, <3>1
  <2>2. CASE n \in 1..Len(store)
    BY <1>2, <2>2 DEF StoreOK
  <2>. QED  BY <1>4, <2>1, <2>2
<1>. QED  BY <1>2, <1>3, <1>6 DEF StoreOK

\* now is the branch path with the node n at its end; those before it were there.
EndsWith(now, path, n) ==
  /\ now = Append(path, n) /\ Len(path) \in Nat
  /\ DOMAIN path = 1..Len(path) /\ DOMAIN now = 1..(Len(path) + 1)
  /\ now[Len(path) + 1] = n /\ \A i \in DOMAIN path : now[i] = path[i]
  /\ \A i \in DOMAIN path : path[i] \in 1..(n - 1)

\* The branch of the new node.
LEMMA AppendedBranch ==
  ASSUME NEW store, StoreOK(store), NEW x, IsNew(store, x), NEW more, Appended(store, x, more)
  PROVE  EndsWith(BranchOf(more)[Len(more)], BranchOf(store)[x.parent], Len(more))
<1>. DEFINE path == BranchOf(store)[x.parent]
            now == BranchOf(more)[Len(more)]
<1>1. x.parent \in 0..Len(store) /\ Len(store) \in Nat
  BY StoreOrdered DEF IsNew
<1>a. Len(store) \in Nat
  BY StoreOrdered
<1>b. /\ StoreOK(more) /\ Carries(store, more) /\ Len(more) = Len(store) + 1
      /\ more[Len(store) + 1] = x /\ \A n \in 1..Len(store) : more[n] = store[n]
  BY AppendedStore
<1>2. StoreOK(more) /\ Len(more) = Len(store) + 1 /\ more[Len(more)] = x /\ Carries(store, more)
  BY <1>b
<1>3. BranchOf(more)[x.parent] = path
  BY <1>1, <1>2, CarriedBranches
<1>4. Len(more) \in 1..Len(more)
  BY <1>1, <1>2
<1>5. now = Append(path, Len(more))
  BY <1>2, <1>3, <1>4, StoreOrdered, BranchSteps
<1>6. /\ Len(path) \in Nat /\ DOMAIN path = 1..Len(path) /\ path \in Seq(1..x.parent)
      /\ \A i \in DOMAIN path : path[i] \in 1..Len(store)
  <2>. HIDE DEF path
  <2>1. path = BranchOf(store)[x.parent]
    BY DEF path
  <2>. QED  BY <1>1, <2>1, PathFacts
<1>7. path \in Seq(Nat) /\ Len(more) \in Nat
  <2>1. 1..x.parent \subseteq Nat
    BY <1>1
  <2>. QED  BY <1>1, <1>2, <1>6, <2>1, SeqMonotonic
<1>8. /\ DOMAIN Append(path, Len(more)) = 1..(Len(path) + 1)
      /\ Append(path, Len(more))[Len(path) + 1] = Len(more)
      /\ \A i \in 1..Len(path) : Append(path, Len(more))[i] = path[i]
  BY <1>7
<1>9. Len(more) - 1 = Len(store)
  BY <1>1, <1>2
<1>. HIDE DEF path, now
<1>10. EndsWith(now, path, Len(more))
  BY <1>5, <1>6, <1>8, <1>9 DEF EndsWith
<1>. QED  BY <1>10 DEF now, path

LEMMA AppendedApart ==
  ASSUME NEW store, StoreOK(store), AllApart(store), NEW x, IsNew(store, x), NEW more, Appended(store, x, more)
  PROVE  AllApart(more)
<1>a. Len(store) \in Nat
  BY StoreOrdered
<1>b. /\ StoreOK(more) /\ Carries(store, more) /\ Len(more) = Len(store) + 1
      /\ more[Len(store) + 1] = x /\ \A n \in 1..Len(store) : more[n] = store[n]
  BY AppendedStore
<1>0. Len(store) \in Nat /\ Len(more) = Len(store) + 1 /\ StoreOK(more) /\ Carries(store, more)
      /\ more[Len(more)] = x /\ x.says = {Len(more)}
  BY <1>a, <1>b DEF IsNew
<1>1. \A n \in 0..Len(store) : Apart(more, BranchOf(more)[n])
  BY <1>0, CarriedApart
<1>2. Apart(more, BranchOf(more)[Len(more)])
  <2>. DEFINE path == BranchOf(store)[x.parent]
              now == BranchOf(more)[Len(more)]
  <2>1. /\ Len(path) \in Nat
        /\ DOMAIN path = 1..Len(path) /\ DOMAIN now = 1..(Len(path) + 1)
        /\ now[Len(path) + 1] = Len(more) /\ \A i \in DOMAIN path : now[i] = path[i]
        /\ \A i \in DOMAIN path : path[i] \in 1..Len(store)
    <3>1. EndsWith(now, path, Len(more)) /\ Len(more) - 1 = Len(store)
      BY <1>0, AppendedBranch
    <3>. HIDE DEF path, now
    <3>. QED  BY <3>1 DEF EndsWith
  <2>2. Apart(store, path)
    BY DEF AllApart, IsNew
  <2>3. \A i \in DOMAIN path : more[now[i]].says = store[path[i]].says
    <3>. HIDE DEF path, now
    <3>. QED  BY <1>0, <2>1 DEF Carries
  <2>4. \A i \in DOMAIN path : Len(more) \notin more[now[i]].says
    <3>1. \A k \in 1..Len(store) : store[k].says \subseteq 1..k
      BY DEF StoreOK
    <3>2. \A k \in 1..Len(store) : Len(more) \notin store[k].says
      BY <1>0, <3>1
    <3>. HIDE DEF path, now
    <3>. QED  BY <2>1, <2>3, <3>2
  <2>5. more[now[Len(path) + 1]].says = {Len(more)}
    <3>. HIDE DEF path, now
    <3>. QED  BY <1>0, <2>1
  <2>6. \A i \in DOMAIN now : i \in DOMAIN path \/ i = Len(path) + 1
    <3>. HIDE DEF path, now
    <3>. QED  BY <2>1
  <2>. HIDE DEF path, now
  <2>7. ASSUME NEW i \in DOMAIN now, NEW j \in DOMAIN now, i # j
        PROVE  more[now[i]].says \cap more[now[j]].says = {}
    <3>1. CASE i \in DOMAIN path /\ j \in DOMAIN path
      BY <2>2, <2>3, <2>7, <3>1 DEF Apart
    <3>2. CASE i \in DOMAIN path /\ j = Len(path) + 1
      BY <2>4, <2>5, <3>2
    <3>3. CASE j \in DOMAIN path /\ i = Len(path) + 1
      BY <2>4, <2>5, <3>3
    <3>. QED  BY <2>6, <2>7, <3>1, <3>2, <3>3
  <2>8. Apart(more, now)
    BY <2>7 DEF Apart
  <2>. QED  BY <2>8 DEF now
<1>3. \A n \in 0..Len(more) : n \in 0..Len(store) \/ n = Len(more)
  BY <1>0
<1>. QED  BY <1>1, <1>2, <1>3 DEF AllApart

\* What a turn adds is its own, and leaves readable what was.
LEMMA AppendedReadable ==
  ASSUME NEW store, StoreOK(store), NEW x, IsNew(store, x), NEW more, Appended(store, x, more),
         NEW from \in 0..Len(store), KeptReadable(store, from, x.parent),
         x.kind = "result" => x.parent # 0 /\ ~IsResult(store, x.parent)
  PROVE  KeptReadable(more, from, Len(more))
<1>. DEFINE path == BranchOf(store)[x.parent]
            now == BranchOf(more)[Len(more)]
            last == Len(path) + 1
<1>a. Len(store) \in Nat
  BY StoreOrdered
<1>b. /\ StoreOK(more) /\ Carries(store, more) /\ Len(more) = Len(store) + 1
      /\ more[Len(store) + 1] = x /\ \A n \in 1..Len(store) : more[n] = store[n]
  BY AppendedStore
<1>0. Len(store) \in Nat /\ Len(more) = Len(store) + 1 /\ StoreOK(more) /\ Carries(store, more)
      /\ more[Len(more)] = x /\ x.says = {Len(more)} /\ x.kind # "summary" /\ x.cleared = FALSE
      /\ x.parent \in 0..Len(store)
      /\ \A n \in 1..Len(store) : more[n] = store[n]
  BY <1>a, <1>b DEF IsNew
<1>1. /\ Len(path) \in Nat
      /\ DOMAIN path = 1..Len(path) /\ DOMAIN now = 1..(Len(path) + 1)
      /\ now[Len(path) + 1] = Len(more) /\ \A i \in DOMAIN path : now[i] = path[i]
      /\ \A i \in DOMAIN path : path[i] \in 1..Len(store)
  <2>1. EndsWith(now, path, Len(more)) /\ Len(more) - 1 = Len(store)
    BY <1>0, AppendedBranch
  <2>. HIDE DEF path, now
  <2>. QED  BY <2>1 DEF EndsWith
<1>2. x.parent # 0 => Len(path) > 0 /\ path[Len(path)] = x.parent
  <2>. HIDE DEF path
  <2>1. path = BranchOf(store)[x.parent]
    BY DEF path
  <2>. QED  BY <1>0, <2>1, PathFacts
<1>3. /\ \A i, j \in DOMAIN path : i < j /\ Mine(store, from, path[i]) => Mine(store, from, path[j])
      /\ \A i, j \in DOMAIN path :
           j = i + 1 /\ Mine(store, from, path[i]) /\ IsResult(store, path[i]) => ~IsResult(store, path[j])
      /\ \A i \in DOMAIN path :
           Mine(store, from, path[i]) /\ IsResult(store, path[i]) /\ store[path[i]].cleared
           => Cardinality(ResultsAfter(store, path, i)) >= ClearKeep
  BY DEF KeptReadable
<1>. HIDE DEF path, now
<1>4. \A i \in DOMAIN path : /\ i \in DOMAIN now
                             /\ Mine(more, from, now[i]) <=> Mine(store, from, path[i])
                             /\ IsResult(more, now[i]) <=> IsResult(store, path[i])
                             /\ more[now[i]].cleared = store[path[i]].cleared
  BY <1>0, <1>1 DEF Mine, IsResult
<1>5. Mine(more, from, now[last]) /\ more[now[last]].cleared = FALSE /\ (IsResult(more, now[last]) <=> x.kind = "result")
  <2>1. more[now[last]] = x /\ \A m \in x.says : m > from
    BY <1>0, <1>1
  <2>. QED  BY <1>0, <2>1 DEF Mine, IsResult
<1>6. \A i \in DOMAIN now : i \in DOMAIN path \/ i = last
  BY <1>1
<1>7. \A i \in DOMAIN path : i <= Len(path) /\ i # last /\ ~(last < i) /\ i \in Nat
  BY <1>1
<1>8. \A i, j \in DOMAIN now : i < j /\ Mine(more, from, now[i]) => Mine(more, from, now[j])
  BY <1>3, <1>4, <1>5, <1>6, <1>7
<1>9. \A i, j \in DOMAIN now :
        j = i + 1 /\ Mine(more, from, now[i]) /\ IsResult(more, now[i]) => ~IsResult(more, now[j])
  <2>. SUFFICES ASSUME NEW i \in DOMAIN now, i + 1 \in DOMAIN now,
                       Mine(more, from, now[i]), IsResult(more, now[i]), IsResult(more, now[i + 1])
                PROVE  FALSE
    OBVIOUS
  <2>1. i \in DOMAIN path
    BY <1>1
  <2>2. CASE i + 1 \in DOMAIN path
    BY <1>3, <1>4, <2>1, <2>2
  <2>3. CASE i + 1 = last
    <3>1. i = Len(path)
      BY <1>1, <2>1, <2>3
    <3>2. x.kind = "result"
      BY <1>5, <2>3
    <3>3. path[i] = x.parent /\ ~IsResult(store, x.parent)
      BY <1>2, <3>1, <3>2
    <3>. QED  BY <1>4, <2>1, <3>3
  <2>. QED  BY <1>6, <2>2, <2>3
<1>10. ASSUME NEW i \in DOMAIN now, Mine(more, from, now[i]), IsResult(more, now[i]), more[now[i]].cleared
       PROVE  Cardinality(ResultsAfter(more, now, i)) >= ClearKeep
  <2>1. i \in DOMAIN path
    BY <1>5, <1>6, <1>10
  <2>2. Cardinality(ResultsAfter(store, path, i)) >= ClearKeep
    BY <1>3, <1>4, <1>10, <2>1
  <2>3. ResultsAfter(store, path, i) \subseteq ResultsAfter(more, now, i)
    BY <1>4 DEF ResultsAfter
  <2>4. IsFiniteSet(ResultsAfter(more, now, i))
    <3>1. IsFiniteSet(1..(Len(path) + 1))
      BY <1>1, FS_Interval
    <3>. QED  BY <1>1, <3>1, FS_Subset DEF ResultsAfter
  <2>5. Cardinality(ResultsAfter(store, path, i)) <= Cardinality(ResultsAfter(more, now, i))
        /\ Cardinality(ResultsAfter(more, now, i)) \in Nat /\ Cardinality(ResultsAfter(store, path, i)) \in Nat
    BY <2>3, <2>4, FS_Subset, FS_CardinalityType
  <2>. QED  BY <2>2, <2>5, ConversationAssumption
<1>. QED  BY <1>8, <1>9, <1>10 DEF KeptReadable, now

(***************************************************************************)
(* The conversation: clearing                                              *)
(***************************************************************************)

ResultNodes(store) == {n \in 1..Len(store) : IsResult(store, n)}

LEMMA ClearedStore ==
  ASSUME NEW store, StoreOK(store), NEW set \in SUBSET ResultNodes(store)
  PROVE  LET more == ClearAll(store, set) IN
         /\ StoreOK(more) /\ Carries(store, more) /\ Len(more) = Len(store)
         /\ \A n \in 1..Len(store) : more[n].cleared <=> n \in set \/ store[n].cleared
<1>. DEFINE more == ClearAll(store, set)
<1>1. Len(store) \in Nat /\ DOMAIN store = 1..Len(store) /\ \A n \in 1..Len(store) : store[n] \in NodeSet
  BY StoreOrdered DEF Ordered
<1>2. more = [n \in 1..Len(store) |-> IF n \in set THEN [store[n] EXCEPT !.cleared = TRUE] ELSE store[n]]
  BY <1>1 DEF ClearAll
<1>3. \A n \in 1..Len(store) : more[n] = IF n \in set THEN [store[n] EXCEPT !.cleared = TRUE] ELSE store[n]
  BY <1>2
<1>4. DOMAIN more = 1..Len(store)
  BY <1>2
<1>. HIDE DEF more
<1>5. ASSUME NEW n \in 1..Len(store)
      PROVE  /\ more[n] \in NodeSet
             /\ more[n].parent = store[n].parent /\ more[n].says = store[n].says /\ more[n].kind = store[n].kind
             /\ more[n].cleared <=> n \in set \/ store[n].cleared
  <2>1. store[n] \in NodeSet
    BY <1>1
  <2>2. CASE n \in set
    <3>1. more[n] = [store[n] EXCEPT !.cleared = TRUE]
      BY <1>3, <2>2
    <3>. QED  BY <2>1, <2>2, <3>1 DEF NodeSet
  <2>3. CASE n \notin set
    <3>1. more[n] = store[n]
      BY <1>3, <2>3
    <3>. QED  BY <2>1, <2>3, <3>1
  <2>. QED  BY <2>2, <2>3
<1>6. more \in Seq(NodeSet) /\ Len(more) = Len(store)
  <2>1. more = [n \in 1..Len(store) |-> more[n]]
    <3>1. more = [n \in DOMAIN more |-> more[n]]
      BY <1>2
    <3>. QED  BY <1>4, <3>1
  <2>2. \A n \in 1..Len(store) : more[n] \in NodeSet
    BY <1>5
  <2>3. more \in [1..Len(store) -> NodeSet]
    BY <2>1, <2>2
  <2>. QED  BY <1>1, <2>3
<1>7. Carries(store, more)
  BY <1>1, <1>5, <1>6 DEF Carries
<1>8. StoreOK(more)
  <2>. SUFFICES ASSUME NEW n \in 1..Len(store)
                PROVE  /\ more[n].parent \in 0..(n - 1) /\ more[n].says \subseteq 1..n
                       /\ more[n].kind # "summary" => \E m \in 1..n : more[n].says = {m}
                       /\ more[n].cleared => more[n].kind = "result"
    BY <1>6 DEF StoreOK
  <2>1. /\ store[n].parent \in 0..(n - 1) /\ store[n].says \subseteq 1..n
        /\ store[n].kind # "summary" => \E m \in 1..n : store[n].says = {m}
        /\ store[n].cleared => store[n].kind = "result"
    BY DEF StoreOK
  <2>2. n \in set => store[n].kind = "result"
    BY DEF ResultNodes, IsResult
  <2>. QED  BY <1>5, <2>1, <2>2
<1>. QED  BY <1>5, <1>6, <1>7, <1>8 DEF more

LEMMA ClearedApart ==
  ASSUME NEW store, StoreOK(store), NEW set \in SUBSET ResultNodes(store), AllApart(store)
  PROVE  AllApart(ClearAll(store, set))
<1>1. /\ StoreOK(ClearAll(store, set)) /\ Carries(store, ClearAll(store, set))
      /\ Len(ClearAll(store, set)) = Len(store)
  BY ClearedStore
<1>. QED  BY <1>1, CarriedApart DEF AllApart

LEMMA ClearableAreResults ==
  ASSUME NEW store, StoreOK(store), NEW n \in 0..Len(store)
  PROVE  Clearable(store, BranchOf(store)[n]) \subseteq ResultNodes(store)
<1>. DEFINE path == BranchOf(store)[n]
<1>1. \A i \in DOMAIN path : path[i] \in 1..Len(store)
  BY PathFacts
<1>. HIDE DEF path
<1>2. Clearable(store, path) \subseteq ResultNodes(store)
  BY <1>1 DEF Clearable, ResultNodes
<1>. QED  BY <1>2 DEF path

\* What is cleared has ClearKeep results after it.
LEMMA ClearedReadable ==
  ASSUME NEW store, StoreOK(store), AllApart(store), NEW n \in 0..Len(store), NEW from,
         NEW set \in SUBSET Clearable(store, BranchOf(store)[n]), KeptReadable(store, from, n)
  PROVE  KeptReadable(ClearAll(store, set), from, n)
<1>. DEFINE path == BranchOf(store)[n]
            more == ClearAll(store, set)
<1>0. set \in SUBSET ResultNodes(store)
  BY ClearableAreResults
<1>1. /\ StoreOK(more) /\ Carries(store, more) /\ Len(more) = Len(store)
      /\ \A k \in 1..Len(store) : more[k].cleared <=> k \in set \/ store[k].cleared
  BY <1>0, ClearedStore
<1>2. BranchOf(more)[n] = path
  BY <1>1, CarriedBranches
<1>3. \A i \in DOMAIN path : path[i] \in 1..Len(store)
  BY PathFacts
<1>4. Apart(store, path)
  BY DEF AllApart
<1>5. /\ \A i, j \in DOMAIN path : i < j /\ Mine(store, from, path[i]) => Mine(store, from, path[j])
      /\ \A i, j \in DOMAIN path :
           j = i + 1 /\ Mine(store, from, path[i]) /\ IsResult(store, path[i]) => ~IsResult(store, path[j])
      /\ \A i \in DOMAIN path :
           Mine(store, from, path[i]) /\ IsResult(store, path[i]) /\ store[path[i]].cleared
           => Cardinality(ResultsAfter(store, path, i)) >= ClearKeep
  BY DEF KeptReadable
<1>6. set \subseteq Clearable(store, path)
  OBVIOUS
<1>. HIDE DEF path, more
<1>7. \A i \in DOMAIN path : /\ Mine(more, from, path[i]) <=> Mine(store, from, path[i])
                             /\ IsResult(more, path[i]) <=> IsResult(store, path[i])
  BY <1>1, <1>3 DEF Carries, Mine, IsResult
<1>8. \A i \in DOMAIN path : ResultsAfter(more, path, i) = ResultsAfter(store, path, i)
  BY <1>7 DEF ResultsAfter
<1>9. ASSUME NEW i \in DOMAIN path, path[i] \in set
      PROVE  Cardinality(ResultsAfter(store, path, i)) >= ClearKeep
  <2>1. PICK j \in DOMAIN path : /\ path[j] = path[i] /\ IsResult(store, path[j])
                                 /\ Cardinality(ResultsAfter(store, path, j)) >= ClearKeep
    BY <1>6, <1>9 DEF Clearable
  <2>2. j = i
    <3>1. store[path[i]].says # {}
      <4>1. store[path[i]].kind # "summary"
        BY <2>1 DEF IsResult
      <4>. QED  BY <1>3, <4>1 DEF StoreOK
    <3>. QED  BY <1>4, <2>1, <3>1 DEF Apart
  <2>. QED  BY <2>1, <2>2
<1>10. \A i, j \in DOMAIN path : i < j /\ Mine(more, from, path[i]) => Mine(more, from, path[j])
  BY <1>5, <1>7
<1>11. \A i, j \in DOMAIN path :
         j = i + 1 /\ Mine(more, from, path[i]) /\ IsResult(more, path[i]) => ~IsResult(more, path[j])
  BY <1>5, <1>7
<1>12. \A i \in DOMAIN path :
         Mine(more, from, path[i]) /\ IsResult(more, path[i]) /\ more[path[i]].cleared
         => Cardinality(ResultsAfter(more, path, i)) >= ClearKeep
  BY <1>1, <1>3, <1>5, <1>7, <1>8, <1>9
<1>13. KeptReadable(more, from, n)
  BY <1>2, <1>10, <1>11, <1>12 DEF KeptReadable
<1>. QED  BY <1>13 DEF more

(***************************************************************************)
(* The conversation: compaction                                            *)
(***************************************************************************)

\* more is store with the branch of n compacted, and that many of its last nodes copied.
CompactsTo(store, more, n, copies) ==
  LET path == BranchOf(store)[n]
      cut == Len(path) - CompactKeep
      root == Len(store) + 1
  IN /\ cut \in Nat \ {0} /\ copies \in 0..CompactKeep
     /\ Len(more) = root + copies /\ more \in Seq(NodeSet)
     /\ \A k \in 1..Len(store) : more[k] = store[k]
     /\ more[root].parent = 0 /\ more[root].kind = "summary" /\ more[root].cleared = FALSE
     /\ more[root].says = UNION {store[path[i]].says : i \in 1..cut}
     /\ \A i \in 1..copies : /\ cut + i \in DOMAIN path
                             /\ more[root + i].parent = root + i - 1
                             /\ more[root + i].kind = store[path[cut + i]].kind
                             /\ more[root + i].says = store[path[cut + i]].says
                             /\ more[root + i].cleared = store[path[cut + i]].cleared

LEMMA CompactedShape ==
  ASSUME NEW store, StoreOK(store), NEW n \in 1..Len(store), NEW copies \in 0..CompactKeep,
         Len(BranchOf(store)[n]) > CompactKeep
  PROVE  CompactsTo(store, Compacted(store, BranchOf(store)[n], copies), n, copies)
<1>. DEFINE path == BranchOf(store)[n]
            cut == Len(path) - CompactKeep
            root == Len(store) + 1
            more == Compacted(store, path, copies)
            first == Node(0, "summary", Said(store, Summarised(path)))
            copy(i) == [store[Recent(path)[i]] EXCEPT !.parent = Len(store) + i]
            rest == [i \in 1..copies |-> copy(i)]
<1>0. Len(store) \in Nat /\ CompactKeep \in Nat /\ copies \in Nat /\ copies <= CompactKeep /\ store \in Seq(NodeSet)
  BY StoreOrdered, ConversationAssumption DEF StoreOK
<1>1. /\ Len(path) \in Nat /\ DOMAIN path = 1..Len(path) /\ path \in Seq(1..n)
      /\ \A i \in DOMAIN path : path[i] \in 1..Len(store)
  <2>1. n \in 0..Len(store)
    BY <1>0
  <2>. HIDE DEF path
  <2>2. path = BranchOf(store)[n]
    BY DEF path
  <2>. QED  BY <2>1, <2>2, PathFacts
<1>2. Len(path) > CompactKeep
  OBVIOUS
<1>. HIDE DEF path
<1>3. cut \in Nat \ {0} /\ cut <= Len(path)
  <2>1. Len(path) \in Nat
    BY <1>1
  <2>2. CompactKeep \in Nat
    BY <1>0
  <2>. QED  BY <1>2, <2>1, <2>2
<1>4. /\ Len(Summarised(path)) = cut /\ DOMAIN Summarised(path) = 1..cut
      /\ \A i \in 1..cut : Summarised(path)[i] = path[i]
  <2>1. Summarised(path) = SubSeq(path, 1, cut)
    BY DEF Summarised
  <2>2. cut \in 1..Len(path) /\ 1 \in 1..(Len(path) + 1) /\ cut \in Nat
    <3>1. Len(path) \in Nat
      BY <1>1
    <3>. HIDE DEF cut
    <3>. QED  BY <1>3, <3>1
  <2>. HIDE DEF cut
  <2>3. /\ Len(SubSeq(path, 1, cut)) = cut /\ DOMAIN SubSeq(path, 1, cut) = 1..cut
        /\ \A i \in 1..cut : SubSeq(path, 1, cut)[i] = path[i]
    BY <1>1, <2>2
  <2>. QED  BY <2>1, <2>3
<1>5. Said(store, Summarised(path)) = UNION {store[path[i]].says : i \in 1..cut}
  <2>. HIDE DEF cut
  <2>. QED  BY <1>4 DEF Said
<1>6. \A i \in 1..copies : cut + i \in DOMAIN path /\ Recent(path)[i] = path[cut + i]
  <2>. SUFFICES ASSUME NEW i \in 1..copies
                PROVE  cut + i \in DOMAIN path /\ Recent(path)[i] = path[cut + i]
    OBVIOUS
  <2>1. i \in 1..CompactKeep /\ cut + i \in 1..Len(path)
    BY <1>0, <1>1, <1>2
  <2>2. Recent(path)[i] = path[(Len(path) - CompactKeep + 1) + i - 1]
    BY <1>0, <1>1, <1>2, <2>1 DEF Recent
  <2>3. (Len(path) - CompactKeep + 1) + i - 1 = cut + i
    BY <1>0, <1>1, <2>1
  <2>. QED  BY <1>1, <2>1, <2>2, <2>3
<1>7. ASSUME NEW i \in 1..copies
      PROVE  /\ copy(i) \in NodeSet
             /\ copy(i).parent = root + i - 1
             /\ copy(i).kind = store[path[cut + i]].kind
             /\ copy(i).says = store[path[cut + i]].says
             /\ copy(i).cleared = store[path[cut + i]].cleared
  <2>1. store[path[cut + i]] \in NodeSet
    <3>. HIDE DEF cut
    <3>. QED  BY <1>1, <1>6, StoreOrdered
  <2>2. copy(i) = [store[path[cut + i]] EXCEPT !.parent = Len(store) + i]
    <3>. HIDE DEF cut
    <3>. QED  BY <1>6
  <2>3. Len(store) + i \in Nat /\ Len(store) + i = root + i - 1
    BY <1>0
  <2>. HIDE DEF copy, cut, root
  <2>. QED  BY <2>1, <2>2, <2>3 DEF NodeSet
<1>8. first \in NodeSet
  <2>1. UNION {store[path[i]].says : i \in 1..cut} \subseteq Nat
    <3>1. \A i \in 1..cut : path[i] \in 1..Len(store)
      BY <1>1, <1>3
    <3>2. \A k \in 1..Len(store) : store[k].says \subseteq Nat
      BY StoreOrdered DEF NodeSet
    <3>. HIDE DEF cut
    <3>. QED  BY <3>1, <3>2
  <2>. HIDE DEF cut
  <2>. QED  BY <1>5, <2>1 DEF Node, NodeSet, Kinds
<1>9. rest \in Seq(NodeSet) /\ Len(rest) = copies /\ \A i \in 1..copies : rest[i] = copy(i)
  <2>1. \A i \in 1..copies : copy(i) \in NodeSet
    BY <1>7
  <2>. HIDE DEF copy
  <2>2. rest \in [1..copies -> NodeSet]
    BY <2>1
  <2>. QED  BY <1>0, <2>2
<1>10. more = Append(store, first) \o rest
  BY DEF Compacted
<1>. HIDE DEF first, rest
<1>11. /\ Append(store, first) \in Seq(NodeSet) /\ Len(Append(store, first)) = root
       /\ Append(store, first)[root] = first /\ \A k \in 1..Len(store) : Append(store, first)[k] = store[k]
  BY <1>0, <1>8
<1>12. /\ more \in Seq(NodeSet) /\ Len(more) = root + copies
       /\ \A k \in 1..root : more[k] = Append(store, first)[k]
       /\ \A i \in 1..copies : more[root + i] = rest[i]
  <2>. DEFINE front == Append(store, first)
  <2>1. front \in Seq(NodeSet) /\ Len(front) = root /\ root \in Nat
    BY <1>0, <1>11
  <2>2. more = front \o rest
    BY <1>10
  <2>. HIDE DEF front, root, more
  <2>3. /\ front \o rest \in Seq(NodeSet) /\ Len(front \o rest) = root + copies
        /\ \A k \in 1..root : (front \o rest)[k] = front[k]
        /\ \A i \in 1..copies : (front \o rest)[root + i] = rest[i]
    <3>1. rest \in Seq(NodeSet) /\ Len(rest) = copies
      BY <1>9
    <3>. HIDE DEF NodeSet
    <3>2. Len(front \o rest) = Len(front) + Len(rest) /\ front \o rest \in Seq(NodeSet)
      BY <2>1, <3>1
    <3>3. \A k \in 1..Len(front) : (front \o rest)[k] = front[k]
      BY <2>1, <3>1
    <3>4. \A i \in 1..Len(rest) : (front \o rest)[Len(front) + i] = rest[i]
      BY <2>1, <3>1
    <3>. QED  BY <2>1, <3>1, <3>2, <3>3, <3>4
  <2>. QED  BY <2>2, <2>3 DEF front
<1>13. more[root] = first /\ \A k \in 1..Len(store) : more[k] = store[k]
  <2>1. root \in 1..root /\ \A k \in 1..Len(store) : k \in 1..root
    BY <1>0
  <2>. HIDE DEF root, more
  <2>. QED  BY <1>11, <1>12, <2>1
<1>14. /\ more[root].parent = 0 /\ more[root].kind = "summary" /\ more[root].cleared = FALSE
       /\ more[root].says = UNION {store[path[i]].says : i \in 1..cut}
  <2>. HIDE DEF root, more, cut
  <2>. QED  BY <1>5, <1>13 DEF first, Node
<1>15. \A i \in 1..copies : /\ cut + i \in DOMAIN path
                            /\ more[root + i].parent = root + i - 1
                            /\ more[root + i].kind = store[path[cut + i]].kind
                            /\ more[root + i].says = store[path[cut + i]].says
                            /\ more[root + i].cleared = store[path[cut + i]].cleared
  <2>. SUFFICES ASSUME NEW i \in 1..copies
                PROVE  /\ cut + i \in DOMAIN path
                       /\ more[root + i].parent = root + i - 1
                       /\ more[root + i].kind = store[path[cut + i]].kind
                       /\ more[root + i].says = store[path[cut + i]].says
                       /\ more[root + i].cleared = store[path[cut + i]].cleared
    OBVIOUS
  <2>1. more[root + i] = rest[i] /\ rest[i] = copy(i)
    <3>. HIDE DEF root, more, copy
    <3>. QED  BY <1>9, <1>12
  <2>2. more[root + i] = copy(i)
    <3>. HIDE DEF root, more, copy
    <3>. QED  BY <2>1
  <2>3. /\ copy(i).parent = root + i - 1
        /\ copy(i).kind = store[path[cut + i]].kind
        /\ copy(i).says = store[path[cut + i]].says
        /\ copy(i).cleared = store[path[cut + i]].cleared
    BY <1>7
  <2>. HIDE DEF root, more, cut, copy
  <2>. QED  BY <1>6, <2>2, <2>3
<1>16. CompactsTo(store, more, n, copies)
  <2>. HIDE DEF more
  <2>. QED  BY <1>3, <1>12, <1>13, <1>14, <1>15 DEF CompactsTo, path
<1>. QED  BY <1>16 DEF path

LEMMA CompactedStore ==
  ASSUME NEW store, StoreOK(store), NEW more, NEW n \in 1..Len(store), NEW copies,
         CompactsTo(store, more, n, copies)
  PROVE  StoreOK(more) /\ Carries(store, more)
<1>. DEFINE path == BranchOf(store)[n]
            cut == Len(path) - CompactKeep
            root == Len(store) + 1
<1>0. Len(store) \in Nat /\ CompactKeep \in Nat /\ n \in 0..Len(store)
  BY StoreOrdered, ConversationAssumption
<1>1. Len(path) \in Nat /\ DOMAIN path = 1..Len(path) /\ \A i \in DOMAIN path : path[i] \in 1..Len(store)
  <2>. HIDE DEF path
  <2>1. path = BranchOf(store)[n]
    BY DEF path
  <2>. QED  BY <1>0, <2>1, PathFacts
<1>2. /\ cut \in Nat \ {0} /\ copies \in 0..CompactKeep
      /\ Len(more) = root + copies /\ more \in Seq(NodeSet)
      /\ \A k \in 1..Len(store) : more[k] = store[k]
      /\ more[root].parent = 0 /\ more[root].kind = "summary" /\ more[root].cleared = FALSE
      /\ more[root].says = UNION {store[path[i]].says : i \in 1..cut}
      /\ \A i \in 1..copies : /\ cut + i \in DOMAIN path
                              /\ more[root + i].parent = root + i - 1
                              /\ more[root + i].kind = store[path[cut + i]].kind
                              /\ more[root + i].says = store[path[cut + i]].says
                              /\ more[root + i].cleared = store[path[cut + i]].cleared
  BY DEF CompactsTo
<1>. HIDE DEF path
<1>3. copies \in Nat /\ Len(more) = Len(store) + 1 + copies /\ cut <= Len(path)
  BY <1>0, <1>1, <1>2
<1>4. Carries(store, more)
  BY <1>0, <1>2, <1>3 DEF Carries
<1>5. \A k \in 1..Len(store) :
        /\ store[k].parent \in 0..(k - 1) /\ store[k].says \subseteq 1..k
        /\ store[k].kind # "summary" => \E m \in 1..k : store[k].says = {m}
        /\ store[k].cleared => store[k].kind = "result"
  BY DEF StoreOK
<1>6. ASSUME NEW k \in 1..Len(more)
      PROVE  /\ more[k].parent \in 0..(k - 1) /\ more[k].says \subseteq 1..k
             /\ more[k].kind # "summary" => \E m \in 1..k : more[k].says = {m}
             /\ more[k].cleared => more[k].kind = "result"
  <2>1. CASE k \in 1..Len(store)
    <3>1. more[k] = store[k]
      BY <1>2, <2>1
    <3>. QED  BY <1>5, <2>1, <3>1
  <2>2. CASE k = root
    <3>1. UNION {store[path[i]].says : i \in 1..cut} \subseteq 1..root
      <4>1. \A i \in 1..cut : path[i] \in 1..Len(store)
        <5>. HIDE DEF cut
        <5>1. \A i \in 1..cut : i \in 1..Len(path)
          BY <1>1, <1>2, <1>3
        <5>. QED  BY <1>1, <5>1
      <4>2. \A m \in 1..Len(store) : 1..m \subseteq 1..root
        BY <1>0
      <4>3. \A m \in 1..Len(store) : store[m].says \subseteq 1..root
        BY <1>5, <4>2
      <4>. HIDE DEF root, cut
      <4>. QED  BY <4>1, <4>3
    <3>2. 0 \in 0..(k - 1)
      BY <1>0, <2>2
    <3>. HIDE DEF root, cut
    <3>. QED  BY <1>2, <2>2, <3>1, <3>2
  <2>3. CASE \E i \in 1..copies : k = root + i
    <3>1. PICK i \in 1..copies : k = root + i
      BY <2>3
    <3>2. path[cut + i] \in 1..Len(store)
      <4>. HIDE DEF cut
      <4>. QED  BY <1>1, <1>2
    <3>3. PICK q \in 1..Len(store) : q = path[cut + i]
      BY <3>2
    <3>4. 1..q \subseteq 1..k /\ root + i - 1 \in 0..(k - 1)
      BY <1>0, <1>3, <3>1, <3>3
    <3>5. /\ more[k].parent = root + i - 1 /\ more[k].kind = store[q].kind
          /\ more[k].says = store[q].says /\ more[k].cleared = store[q].cleared
      <4>. HIDE DEF root, cut
      <4>. QED  BY <1>2, <3>1, <3>3
    <3>6. more[k].says \subseteq 1..k
      BY <1>5, <3>4, <3>5
    <3>7. more[k].kind # "summary" => \E m \in 1..k : more[k].says = {m}
      BY <1>5, <3>4, <3>5
    <3>. QED  BY <1>5, <3>4, <3>5, <3>6, <3>7
  <2>4. k \in 1..Len(store) \/ k = root \/ k - root \in 1..copies
    BY <1>0, <1>3
  <2>5. k = root + (k - root)
    BY <1>0, <1>3
  <2>. QED  BY <2>1, <2>2, <2>3, <2>4, <2>5
<1>. QED  BY <1>2, <1>4, <1>6 DEF StoreOK

\* The branch of the copies.
LEMMA CompactedBranch ==
  ASSUME NEW store, StoreOK(store), NEW more, NEW n \in 1..Len(store), NEW copies,
         CompactsTo(store, more, n, copies), NEW i \in 0..copies
  PROVE  BranchOf(more)[Len(store) + 1 + i] = [j \in 1..(i + 1) |-> Len(store) + j]
<1>. DEFINE root == Len(store) + 1
<1>0. Len(store) \in Nat /\ CompactKeep \in Nat
  BY StoreOrdered, ConversationAssumption
<1>1. /\ copies \in 0..CompactKeep /\ Len(more) = root + copies /\ more[root].parent = 0
      /\ \A k \in 1..copies : more[root + k].parent = root + k - 1
  BY DEF CompactsTo
<1>2. Ordered(more)
  BY CompactedStore, StoreOrdered
<1>3. root \in 1..Len(more) /\ i \in 0..(Len(more) - root) /\ \A k \in 1..i : k \in 1..copies
  BY <1>0, <1>1
<1>4. Chained(more, root, i)
  <2>. HIDE DEF root
  <2>. QED  BY <1>1, <1>3 DEF Chained
<1>5. BranchOf(more)[root + i] = [j \in 1..(i + 1) |-> root + j - 1]
  <2>. HIDE DEF root
  <2>. QED  BY <1>2, <1>3, <1>4, ChainBranch
<1>6. \A j \in 1..(i + 1) : root + j - 1 = Len(store) + j
  BY <1>0, <1>1
<1>. QED  BY <1>5, <1>6

\* What a compaction writes is what it notes of itself.
LEMMA CompactedNoted ==
  ASSUME NEW store, StoreOK(store), NEW more, NEW n \in 1..Len(store), NEW copies,
         CompactsTo(store, more, n, copies), NEW c, c.old = n, c.root = Len(store) + 1, c.leaf = Len(more)
  PROVE  CompactionOK(more, c)
<1>. DEFINE path == BranchOf(store)[n]
            cut == Len(path) - CompactKeep
            root == Len(store) + 1
<1>0. Len(store) \in Nat /\ CompactKeep \in Nat /\ n \in 0..Len(store) /\ StoreOK(more) /\ Carries(store, more)
  BY StoreOrdered, CompactedStore, ConversationAssumption
<1>1. Len(path) \in Nat /\ DOMAIN path = 1..Len(path) /\ \A i \in DOMAIN path : path[i] \in 1..Len(store)
  <2>. HIDE DEF path
  <2>1. path = BranchOf(store)[n]
    BY DEF path
  <2>. QED  BY <1>0, <2>1, PathFacts
<1>2. BranchOf(more)[n] = path
  BY <1>0, CarriedBranches
<1>3. /\ cut \in Nat \ {0} /\ copies \in 0..CompactKeep /\ Len(more) = root + copies
      /\ \A k \in 1..Len(store) : more[k] = store[k]
      /\ more[root].parent = 0 /\ more[root].says = UNION {store[path[i]].says : i \in 1..cut}
      /\ \A i \in 1..copies : /\ cut + i \in DOMAIN path
                              /\ more[root + i].parent = root + i - 1
                              /\ more[root + i].says = store[path[cut + i]].says
  BY DEF CompactsTo
<1>. HIDE DEF path
<1>a. Len(path) \in Nat /\ cut \in Nat \ {0} /\ copies \in 0..CompactKeep /\ Len(more) = root + copies
  BY <1>1, <1>3
<1>4. /\ n \in 1..Len(more) /\ root \in 1..Len(more) /\ Len(more) \in root..Len(more) /\ Len(more) - root = copies
      /\ copies <= CompactKeep /\ Len(path) > CompactKeep /\ \A i \in 1..cut : i \in 1..Len(path)
  <2>1. copies \in Nat /\ copies <= CompactKeep /\ root \in Nat
    BY <1>0, <1>a
  <2>2. Len(more) = Len(store) + 1 + copies /\ Len(more) \in Nat
    BY <1>0, <1>a, <2>1
  <2>3. Len(path) > CompactKeep /\ \A i \in 1..cut : i \in 1..Len(path)
    <3>1. Len(path) \in Nat /\ CompactKeep \in Nat /\ cut \in Nat /\ cut # 0
      BY <1>0, <1>a
    <3>2. cut = Len(path) - CompactKeep
      OBVIOUS
    <3>. HIDE DEF cut
    <3>. QED  BY <3>1, <3>2
  <2>4. n \in 1..Len(more) /\ root \in 1..Len(more) /\ Len(more) \in root..Len(more) /\ Len(more) - root = copies
    BY <1>0, <2>1, <2>2
  <2>. QED  BY <2>1, <2>3, <2>4
<1>. HIDE DEF root, cut
<1>5. \A i \in 1..cut : more[path[i]].says = store[path[i]].says
  BY <1>1, <1>3, <1>4
<1>6. more[root].says = UNION {more[path[i]].says : i \in 1..cut}
  <2>1. {more[path[i]].says : i \in 1..cut} = {store[path[i]].says : i \in 1..cut}
    BY <1>5
  <2>2. more[root].says = UNION {store[path[i]].says : i \in 1..cut}
    BY <1>3
  <2>. QED  BY <2>1, <2>2
<1>7. \A i \in 1..copies : /\ more[root + i].parent = root + i - 1
                           /\ more[root + i].says = more[path[cut + i]].says
  BY <1>1, <1>3
<1>8. c.old = n /\ c.root = root /\ c.leaf = Len(more)
  BY DEF root
<1>9. /\ c.old \in 1..Len(more) /\ c.root \in 1..Len(more) /\ c.leaf \in c.root..Len(more)
      /\ c.leaf - c.root = copies /\ copies <= CompactKeep /\ more[c.root].parent = 0
  BY <1>3, <1>4, <1>8
<1>10. /\ Len(path) > CompactKeep /\ BranchOf(more)[c.old] = path
       /\ more[c.root].says = UNION {more[path[i]].says : i \in 1..(Len(path) - CompactKeep)}
       /\ \A i \in 1..copies : /\ more[c.root + i].parent = c.root + i - 1
                               /\ more[c.root + i].says = more[path[Len(path) - CompactKeep + i]].says
  BY <1>2, <1>4, <1>6, <1>7, <1>8 DEF cut
<1>. QED  BY <1>9, <1>10 DEF CompactionOK

LEMMA CompactedApart ==
  ASSUME NEW store, StoreOK(store), AllApart(store), NEW more, NEW n \in 1..Len(store), NEW copies,
         CompactsTo(store, more, n, copies)
  PROVE  AllApart(more)
<1>. DEFINE path == BranchOf(store)[n]
            cut == Len(path) - CompactKeep
            root == Len(store) + 1
<1>0. Len(store) \in Nat /\ CompactKeep \in Nat /\ n \in 0..Len(store) /\ StoreOK(more) /\ Carries(store, more)
  BY StoreOrdered, CompactedStore, ConversationAssumption
<1>1. Len(path) \in Nat /\ DOMAIN path = 1..Len(path) /\ \A i \in DOMAIN path : path[i] \in 1..Len(store)
  <2>. HIDE DEF path
  <2>1. path = BranchOf(store)[n]
    BY DEF path
  <2>. QED  BY <1>0, <2>1, PathFacts
<1>2. /\ cut \in Nat \ {0} /\ copies \in 0..CompactKeep /\ Len(more) = root + copies
      /\ more[root].says = UNION {store[path[i]].says : i \in 1..cut}
      /\ \A i \in 1..copies : cut + i \in DOMAIN path /\ more[root + i].says = store[path[cut + i]].says
  BY DEF CompactsTo
<1>3. Apart(store, path)
  BY <1>0 DEF AllApart
<1>4. \A k \in 0..Len(store) : Apart(more, BranchOf(more)[k])
  BY <1>0, CarriedApart
<1>5. ASSUME NEW i \in 0..copies PROVE Apart(more, BranchOf(more)[root + i])
  <2>. DEFINE now == [j \in 1..(i + 1) |-> Len(store) + j]
  <2>1. BranchOf(more)[root + i] = now
    BY CompactedBranch
  <2>2. DOMAIN now = 1..(i + 1) /\ \A j \in 1..(i + 1) : now[j] = Len(store) + j
    OBVIOUS
  <2>. HIDE DEF now, path
  <2>3. i \in Nat /\ copies \in Nat /\ i <= copies /\ cut \in Nat
    BY <1>0, <1>2
  <2>4. now[1] = root /\ \A j \in 2..(i + 1) : now[j] = root + (j - 1) /\ j - 1 \in 1..copies
    BY <1>0, <2>2, <2>3
  <2>5. \A j \in DOMAIN now : j = 1 \/ j \in 2..(i + 1)
    BY <2>2, <2>3
  <2>6. \A j \in 2..(i + 1), k \in 2..(i + 1) : j # k => cut + (j - 1) # cut + (k - 1)
    BY <2>3
  <2>7. \A j \in 2..(i + 1), k \in 1..cut : cut + (j - 1) # k /\ k \in DOMAIN path
    <3>1. cut <= Len(path)
      BY <1>0, <1>1
    <3>2. \A k \in 1..cut : k \in 1..Len(path)
      <4>. HIDE DEF cut
      <4>. QED  BY <1>1, <2>3, <3>1
    <3>3. \A j \in 2..(i + 1), k \in 1..cut : cut + (j - 1) # k
      <4>. HIDE DEF cut
      <4>. QED  BY <2>3
    <3>. QED  BY <1>1, <3>2, <3>3
  <2>. HIDE DEF cut, root
  <2>8. \A j \in 2..(i + 1) : /\ cut + (j - 1) \in DOMAIN path
                              /\ more[now[j]].says = store[path[cut + (j - 1)]].says
    BY <1>2, <2>4
  <2>9. more[now[1]].says = UNION {store[path[k]].says : k \in 1..cut}
    BY <1>2, <2>4
  <2>10. ASSUME NEW j \in 2..(i + 1), NEW k \in 2..(i + 1), j # k
         PROVE  more[now[j]].says \cap more[now[k]].says = {}
    <3>. DEFINE a == cut + (j - 1)
                b == cut + (k - 1)
    <3>1. a \in DOMAIN path /\ b \in DOMAIN path /\ a # b
      BY <2>6, <2>8, <2>10
    <3>2. more[now[j]].says = store[path[a]].says /\ more[now[k]].says = store[path[b]].says
      BY <2>8
    <3>. HIDE DEF a, b
    <3>. QED  BY <1>3, <3>1, <3>2 DEF Apart
  <2>11. ASSUME NEW j \in 2..(i + 1)
         PROVE  more[now[j]].says \cap more[now[1]].says = {}
    <3>. DEFINE a == cut + (j - 1)
    <3>1. a \in DOMAIN path /\ more[now[j]].says = store[path[a]].says
      BY <2>8
    <3>2. \A k \in 1..cut : a # k /\ k \in DOMAIN path
      BY <2>7
    <3>. HIDE DEF a
    <3>3. \A k \in 1..cut : store[path[a]].says \cap store[path[k]].says = {}
      BY <1>3, <3>1, <3>2 DEF Apart
    <3>. QED  BY <2>9, <3>1, <3>3
  <2>12. ASSUME NEW j \in DOMAIN now, NEW k \in DOMAIN now, j # k
         PROVE  more[now[j]].says \cap more[now[k]].says = {}
    BY <2>5, <2>10, <2>11, <2>12
  <2>. QED  BY <2>1, <2>12 DEF Apart
<1>6. \A k \in 0..Len(more) : k \in 0..Len(store) \/ (k - root \in 0..copies /\ k = root + (k - root))
  BY <1>0, <1>2
<1>. HIDE DEF root
<1>7. \A k \in 0..Len(more) : Apart(more, BranchOf(more)[k])
  BY <1>4, <1>5, <1>6
<1>. QED  BY <1>7 DEF AllApart

\* Numbers no two of which are neighbours take at most half of an interval.
LEMMA NoNeighbours ==
  ASSUME NEW a \in Nat, NEW b \in Nat, a <= b + 1, NEW S \in SUBSET (a..b),
         \A x \in S : x + 1 \in (a..b) \ S
  PROVE  IsFiniteSet(S) /\ 2 * Cardinality(S) <= b + 1 - a
<1>. DEFINE T == {x + 1 : x \in S}
            f == [x \in S |-> x + 1]
<1>1. IsFiniteSet(a..b) /\ Cardinality(a..b) = b + 1 - a
  BY FS_Interval
<1>2. IsFiniteSet(S) /\ T \subseteq a..b /\ S \cap T = {}
  BY <1>1, FS_Subset
<1>3. S \subseteq Nat
  OBVIOUS
<1>4. f \in Bijection(S, T)
  <2>1. f \in [S -> T]
    OBVIOUS
  <2>2. \A x \in S, y \in S : f[x] = f[y] => x = y
    <3>. SUFFICES ASSUME NEW x \in S, NEW y \in S, x + 1 = y + 1 PROVE x = y
      OBVIOUS
    <3>1. x \in Nat /\ y \in Nat
      BY <1>3
    <3>. QED  BY <3>1
  <2>3. \A t \in T : \E x \in S : f[x] = t
    OBVIOUS
  <2>. HIDE DEF f, T
  <2>. QED  BY <2>1, <2>2, <2>3 DEF Bijection, Injection, Surjection, IsInjective
<1>5. IsFiniteSet(T) /\ Cardinality(T) = Cardinality(S)
  <2>. HIDE DEF f, T
  <2>. QED  BY <1>2, <1>4, FS_Bijection DEF ExistsBijection
<1>. HIDE DEF f, T
<1>6. Cardinality(S \cup T) = Cardinality(S) + Cardinality(T) - Cardinality(S \cap T)
  BY <1>2, <1>5, FS_Union
<1>7. Cardinality(S \cap T) = 0
  BY <1>2, FS_EmptySet
<1>8. Cardinality(S \cup T) <= Cardinality(a..b) /\ Cardinality(S) \in Nat
  BY <1>1, <1>2, FS_Subset, FS_CardinalityType
<1>. QED  BY <1>1, <1>2, <1>5, <1>6, <1>7, <1>8

\* A compaction that was stored in full copies no result that was cleared since the prompt:
\* too few results follow it among the nodes that are copied.
LEMMA CompactedReadable ==
  ASSUME NEW store, StoreOK(store), NEW more, NEW n \in 1..Len(store), NEW from,
         CompactsTo(store, more, n, CompactKeep), KeptReadable(store, from, n), ~IsResult(store, n)
  PROVE  KeptReadable(more, from, Len(more)) /\ ~IsResult(more, Len(more))
<1>. DEFINE path == BranchOf(store)[n]
            L == Len(path)
            cut == Len(path) - CompactKeep
            root == Len(store) + 1
            now == [j \in 1..(CompactKeep + 1) |-> Len(store) + j]
<1>0. /\ Len(store) \in Nat /\ CompactKeep \in Nat /\ ClearKeep \in Nat /\ CompactKeep <= 2 * ClearKeep + 1
      /\ n \in 0..Len(store) /\ n # 0
  BY StoreOrdered, ConversationAssumption
<1>1. /\ L \in Nat /\ DOMAIN path = 1..L /\ \A i \in DOMAIN path : path[i] \in 1..Len(store)
      /\ L > 0 /\ path[L] = n
  <2>. HIDE DEF path
  <2>1. path = BranchOf(store)[n]
    BY DEF path
  <2>. QED  BY <1>0, <2>1, PathFacts
<1>2. /\ cut \in Nat \ {0} /\ Len(more) = root + CompactKeep
      /\ more[root].kind = "summary"
      /\ \A i \in 1..CompactKeep : /\ cut + i \in DOMAIN path
                                   /\ more[root + i].kind = store[path[cut + i]].kind
                                   /\ more[root + i].says = store[path[cut + i]].says
                                   /\ more[root + i].cleared = store[path[cut + i]].cleared
  BY DEF CompactsTo
<1>3. BranchOf(more)[Len(more)] = now
  <2>1. CompactKeep \in 0..CompactKeep
    BY <1>0
  <2>2. BranchOf(more)[Len(store) + 1 + CompactKeep] = now
    BY <2>1, CompactedBranch
  <2>. QED  BY <1>2, <2>2
<1>4. /\ \A i, j \in DOMAIN path : i < j /\ Mine(store, from, path[i]) => Mine(store, from, path[j])
      /\ \A i, j \in DOMAIN path :
           j = i + 1 /\ Mine(store, from, path[i]) /\ IsResult(store, path[i]) => ~IsResult(store, path[j])
      /\ \A i \in DOMAIN path :
           Mine(store, from, path[i]) /\ IsResult(store, path[i]) /\ store[path[i]].cleared
           => Cardinality(ResultsAfter(store, path, i)) >= ClearKeep
  BY DEF KeptReadable
<1>5. DOMAIN now = 1..(CompactKeep + 1) /\ \A j \in DOMAIN now : now[j] = Len(store) + j
  OBVIOUS
<1>. HIDE DEF now, path
<1>6. now[1] = root /\ \A j \in 2..(CompactKeep + 1) : now[j] = root + (j - 1) /\ j - 1 \in 1..CompactKeep
  BY <1>0, <1>5
<1>7. \A j \in DOMAIN now : j = 1 \/ j \in 2..(CompactKeep + 1)
  BY <1>0, <1>5
<1>8. ~Mine(more, from, now[1]) /\ ~IsResult(more, now[1])
  BY <1>2, <1>6 DEF Mine, IsResult
\* Place j of the new branch copies place cut + (j - 1) of the old one.
<1>. DEFINE taken(j) == cut + (j - 1)
<1>9. ASSUME NEW j \in 2..(CompactKeep + 1)
      PROVE  /\ taken(j) \in DOMAIN path
             /\ Mine(more, from, now[j]) <=> Mine(store, from, path[taken(j)])
             /\ IsResult(more, now[j]) <=> IsResult(store, path[taken(j)])
             /\ more[now[j]].cleared = store[path[taken(j)]].cleared
  <2>1. now[j] = root + (j - 1) /\ j - 1 \in 1..CompactKeep
    BY <1>6
  <2>2. taken(j) \in DOMAIN path /\ more[now[j]].kind = store[path[taken(j)]].kind
        /\ more[now[j]].says = store[path[taken(j)]].says /\ more[now[j]].cleared = store[path[taken(j)]].cleared
    <3>. HIDE DEF cut, root
    <3>. QED  BY <1>2, <2>1
  <2>. HIDE DEF taken
  <2>. QED  BY <2>2 DEF Mine, IsResult
<1>10. \A i, j \in 2..(CompactKeep + 1) : /\ i < j => taken(i) < taken(j)
                                          /\ j = i + 1 => taken(j) = taken(i) + 1
  <2>1. cut \in Nat
    BY <1>2
  <2>. HIDE DEF cut
  <2>. QED  BY <2>1
<1>11. ASSUME NEW i \in DOMAIN now, NEW j \in DOMAIN now, i < j, Mine(more, from, now[i])
       PROVE  Mine(more, from, now[j])
  <2>1. i \in 2..(CompactKeep + 1)
    BY <1>7, <1>8, <1>11
  <2>2. j \in 2..(CompactKeep + 1)
    BY <1>0, <1>5, <1>11, <2>1
  <2>3. taken(i) < taken(j) /\ taken(i) \in DOMAIN path /\ taken(j) \in DOMAIN path /\ Mine(store, from, path[taken(i)])
    <3>1. taken(i) < taken(j)
      BY <1>10, <1>11, <2>1, <2>2
    <3>. HIDE DEF taken
    <3>. QED  BY <1>9, <1>11, <2>1, <2>2, <3>1
  <2>. HIDE DEF taken
  <2>4. Mine(store, from, path[taken(j)])
    BY <1>4, <2>3
  <2>. QED  BY <1>9, <2>2, <2>4
<1>12. ASSUME NEW i \in DOMAIN now, NEW j \in DOMAIN now, j = i + 1, Mine(more, from, now[i]),
              IsResult(more, now[i])
       PROVE  ~IsResult(more, now[j])
  <2>1. i \in 2..(CompactKeep + 1)
    BY <1>7, <1>8, <1>12
  <2>2. j \in 2..(CompactKeep + 1)
    BY <1>0, <1>5, <1>12, <2>1
  <2>3. taken(j) = taken(i) + 1
    BY <1>10, <1>12, <2>1, <2>2
  <2>. HIDE DEF taken
  <2>4. /\ taken(i) \in DOMAIN path /\ taken(j) \in DOMAIN path
        /\ Mine(store, from, path[taken(i)]) /\ IsResult(store, path[taken(i)])
    BY <1>9, <1>12, <2>1, <2>2
  <2>5. ~IsResult(store, path[taken(j)])
    BY <1>4, <2>3, <2>4
  <2>. QED  BY <1>9, <2>2, <2>5
\* Too few results follow one of the last CompactKeep places.
<1>13. ASSUME NEW q \in DOMAIN path, q > cut, Mine(store, from, path[q]), IsResult(store, path[q])
       PROVE  Cardinality(ResultsAfter(store, path, q)) < ClearKeep
  <2>. DEFINE S == ResultsAfter(store, path, q)
  <2>1. q \in Nat /\ q # L /\ q < L /\ q + 1 \in DOMAIN path
    BY <1>1, <1>13
  <2>2. ~IsResult(store, path[q + 1])
    BY <1>4, <1>13, <2>1
  <2>3. \A x \in S : x \in DOMAIN path /\ x > q /\ IsResult(store, path[x])
    BY DEF ResultsAfter
  <2>. HIDE DEF S
  <2>4. \A x \in S : x # q + 1 /\ x # L
    BY <1>1, <2>2, <2>3
  <2>5. \A x \in S : x \in Nat /\ x >= q + 2 /\ x <= L - 1
    <3>. SUFFICES ASSUME NEW x \in S PROVE x \in Nat /\ x >= q + 2 /\ x <= L - 1
      OBVIOUS
    <3>1. x \in 1..L /\ x > q /\ x # q + 1 /\ x # L
      BY <1>1, <2>3, <2>4
    <3>2. L \in Nat
      BY <1>1
    <3>. HIDE DEF L
    <3>. QED  BY <2>1, <3>1, <3>2
  <2>6. \A x \in S : x \in (q + 2)..L /\ x + 1 \in (q + 2)..L /\ x + 1 \in DOMAIN path
    BY <1>1, <2>1, <2>5
  <2>7. \A x \in S : x + 1 \notin S
    <3>. SUFFICES ASSUME NEW x \in S, x + 1 \in S PROVE FALSE
      OBVIOUS
    <3>1. x \in DOMAIN path /\ q < x /\ IsResult(store, path[x]) /\ IsResult(store, path[x + 1])
      BY <2>1, <2>3, <2>5
    <3>2. Mine(store, from, path[x])
      BY <1>4, <1>13, <3>1
    <3>3. ~IsResult(store, path[x + 1])
      BY <1>4, <2>6, <3>1, <3>2
    <3>. QED  BY <3>1, <3>3
  <2>8. q + 2 \in Nat /\ L \in Nat /\ q + 2 <= L + 1
    BY <1>1, <2>1
  <2>9. S \in SUBSET ((q + 2)..L) /\ \A x \in S : x + 1 \in ((q + 2)..L) \ S
    BY <2>6, <2>7
  <2>10. IsFiniteSet(S) /\ 2 * Cardinality(S) <= L + 1 - (q + 2)
    <3>. HIDE DEF L
    <3>. QED  BY <2>8, <2>9, NoNeighbours
  <2>11. Cardinality(S) \in Nat
    BY <2>10, FS_CardinalityType
  <2>12. L + 1 - (q + 2) <= CompactKeep - 2
    <3>1. q >= cut + 1 /\ cut = L - CompactKeep
      <4>1. cut \in Nat
        BY <1>2
      <4>. HIDE DEF cut
      <4>2. q >= cut + 1
        BY <1>13, <2>1, <4>1
      <4>. QED  BY <4>2 DEF cut
    <3>2. L \in Nat
      BY <1>1
    <3>. HIDE DEF L, cut
    <3>. QED  BY <1>0, <2>1, <3>1, <3>2
  <2>13. 2 * Cardinality(S) <= 2 * ClearKeep - 1
    <3>1. L \in Nat
      BY <1>1
    <3>. HIDE DEF L
    <3>. QED  BY <1>0, <2>1, <2>10, <2>11, <2>12, <3>1
  <2>14. Cardinality(S) < ClearKeep
    BY <1>0, <2>11, <2>13
  <2>. QED  BY <2>14 DEF S
<1>14. ASSUME NEW j \in DOMAIN now, Mine(more, from, now[j]), IsResult(more, now[j]), more[now[j]].cleared
       PROVE  FALSE
  <2>1. j \in 2..(CompactKeep + 1)
    BY <1>7, <1>8, <1>14
  <2>2. taken(j) > cut
    <3>1. cut \in Nat
      BY <1>2
    <3>. HIDE DEF cut
    <3>. QED  BY <2>1, <3>1
  <2>. HIDE DEF taken
  <2>3. /\ taken(j) \in DOMAIN path /\ Mine(store, from, path[taken(j)]) /\ IsResult(store, path[taken(j)])
        /\ store[path[taken(j)]].cleared
    BY <1>9, <1>14, <2>1
  <2>4. Cardinality(ResultsAfter(store, path, taken(j))) >= ClearKeep
    BY <1>4, <2>3
  <2>5. Cardinality(ResultsAfter(store, path, taken(j))) < ClearKeep
    BY <1>13, <2>2, <2>3
  <2>6. IsFiniteSet(ResultsAfter(store, path, taken(j)))
    <3>1. IsFiniteSet(1..L)
      BY <1>1, FS_Interval
    <3>. QED  BY <1>1, <3>1, FS_Subset DEF ResultsAfter
  <2>7. Cardinality(ResultsAfter(store, path, taken(j))) \in Nat
    BY <2>6, FS_CardinalityType
  <2>. QED  BY <1>0, <2>4, <2>5, <2>7
<1>15. ~IsResult(more, Len(more))
  <2>1. CASE CompactKeep = 0
    <3>1. Len(more) = root
      BY <1>0, <1>2, <2>1
    <3>. HIDE DEF root
    <3>. QED  BY <1>2, <3>1 DEF IsResult
  <2>2. CASE CompactKeep # 0
    <3>1. CompactKeep \in 1..CompactKeep
      BY <1>0, <2>2
    <3>2. cut + CompactKeep = L
      <4>1. L \in Nat
        BY <1>1
      <4>. HIDE DEF L
      <4>. QED  BY <1>0, <4>1 DEF L
    <3>3. more[Len(more)].kind = store[n].kind
      <4>. HIDE DEF root, cut, L
      <4>. QED  BY <1>1, <1>2, <3>1, <3>2
    <3>. QED  BY <3>3 DEF IsResult
  <2>. QED  BY <2>1, <2>2
<1>16. KeptReadable(more, from, Len(more))
  BY <1>3, <1>11, <1>12, <1>14 DEF KeptReadable
<1>. QED  BY <1>15, <1>16

(***************************************************************************)
(* The conversation: the steps                                             *)
(***************************************************************************)

LEMMA StoredAppend ==
  ASSUME NEW store, NEW set, Stored(store, set), NEW x, IsNew(store, x),
         NEW more, Appended(store, x, more), Len(store) + 1 <= MaxNodes
  PROVE  Stored(more, set)
<1>1. StoreOK(store) /\ AllApart(store) /\ \A c \in set : CompactionOK(store, c)
  BY DEF Stored
<1>2. StoreOK(more) /\ Carries(store, more) /\ Len(more) = Len(store) + 1
  BY <1>1, AppendedStore
<1>3. AllApart(more)
  BY <1>1, AppendedApart
<1>4. \A c \in set : CompactionOK(more, c)
  BY <1>1, <1>2, CarriedCompaction
<1>. QED  BY <1>2, <1>3, <1>4 DEF Stored

LEMMA StoredClear ==
  ASSUME NEW store, NEW set, Stored(store, set), NEW gone \in SUBSET ResultNodes(store)
  PROVE  Stored(ClearAll(store, gone), set)
<1>1. StoreOK(store) /\ AllApart(store) /\ Len(store) <= MaxNodes /\ \A c \in set : CompactionOK(store, c)
  BY DEF Stored
<1>2. /\ StoreOK(ClearAll(store, gone)) /\ Carries(store, ClearAll(store, gone))
      /\ Len(ClearAll(store, gone)) = Len(store)
  BY <1>1, ClearedStore
<1>3. AllApart(ClearAll(store, gone))
  BY <1>1, ClearedApart
<1>4. \A c \in set : CompactionOK(ClearAll(store, gone), c)
  BY <1>1, <1>2, CarriedCompaction
<1>. QED  BY <1>1, <1>2, <1>3, <1>4 DEF Stored

\* What Compacts notes of a compaction.
NoteOf(store, n, copies) ==
  [old |-> n, root |-> Len(store) + 1, leaf |-> Len(store) + 1 + copies, told |-> CompactKeep]

LEMMA StoredCompact ==
  ASSUME NEW store, NEW set, Stored(store, set), NEW n \in 1..Len(store), NEW copies,
         NEW more, CompactsTo(store, more, n, copies), Len(store) + copies + 1 <= MaxNodes
  PROVE  Stored(more, set \cup {NoteOf(store, n, copies)})
<1>1. StoreOK(store) /\ AllApart(store) /\ \A c \in set : CompactionOK(store, c)
  BY DEF Stored
<1>2. StoreOK(more) /\ Carries(store, more) /\ AllApart(more)
  BY <1>1, CompactedStore, CompactedApart
<1>3. Len(store) \in Nat /\ CompactKeep \in Nat /\ Len(more) = Len(store) + 1 + copies /\ copies \in 0..CompactKeep
  BY <1>1, StoreOrdered, ConversationAssumption DEF CompactsTo
<1>4. Len(more) <= MaxNodes
  BY <1>3, ConversationAssumption
<1>5. \A c \in set : CompactionOK(more, c)
  BY <1>1, <1>2, CarriedCompaction
<1>6. CompactionOK(more, NoteOf(store, n, copies))
  <2>. DEFINE c == NoteOf(store, n, copies)
  <2>1. c.old = n /\ c.root = Len(store) + 1 /\ c.leaf = Len(more)
    BY <1>3 DEF NoteOf
  <2>. HIDE DEF c
  <2>2. CompactionOK(more, c)
    BY <1>1, <2>1, CompactedNoted
  <2>. QED  BY <2>2 DEF c
<1>. QED  BY <1>2, <1>4, <1>5, <1>6 DEF Stored

\* Compacts, by what it does.
LEMMA CompactsStep ==
  ASSUME NEW store, NEW set, Stored(store, set), NEW n \in 1..Len(store), NEW copies \in 0..CompactKeep,
         Compacts(store, n, copies), compacted = set
  PROVE  /\ CompactsTo(store, nodes', n, copies) /\ agentNodeID' = Len(nodes')
         /\ compacted' = set \cup {NoteOf(store, n, copies)}
         /\ Stored(nodes', compacted')
         /\ Len(nodes') \in Nat /\ Len(store) + 1 <= Len(nodes') /\ StoreOK(nodes') /\ Carries(store, nodes')
<1>1. /\ Len(BranchOf(store)[n]) > CompactKeep /\ Len(store) + copies + 1 <= MaxNodes
      /\ nodes' = Compacted(store, BranchOf(store)[n], copies)
      /\ agentNodeID' = Len(nodes')
  BY DEF Compacts
<1>2. compacted' = set \cup {NoteOf(store, n, copies)}
  BY DEF Compacts, Noted, NoteOf
<1>3. StoreOK(store)
  BY DEF Stored
<1>4. CompactsTo(store, nodes', n, copies)
  BY <1>1, <1>3, CompactedShape
<1>5. Stored(nodes', compacted')
  BY <1>1, <1>2, <1>4, StoredCompact
<1>6. StoreOK(nodes') /\ Carries(store, nodes')
  BY <1>3, <1>4, CompactedStore
<1>7. Len(nodes') \in Nat /\ Len(store) + 1 <= Len(nodes')
  <2>1. Len(store) \in Nat /\ Len(nodes') = Len(store) + 1 + copies /\ CompactKeep \in Nat
    BY <1>3, <1>4, StoreOrdered, ConversationAssumption DEF CompactsTo
  <2>. QED  BY <2>1
<1>. QED  BY <1>1, <1>2, <1>4, <1>5, <1>6, <1>7

\* A new prompt has nothing after it.
LEMMA NothingMine ==
  ASSUME NEW store, StoreOK(store), NEW n \in 0..Len(store)
  PROVE  KeptReadable(store, Len(store), n)
<1>. DEFINE path == BranchOf(store)[n]
<1>1. \A i \in DOMAIN path : path[i] \in 1..Len(store)
  BY PathFacts
<1>2. Len(store) \in Nat
  BY StoreOrdered
<1>3. ASSUME NEW k \in 1..Len(store) PROVE ~Mine(store, Len(store), k)
  <2>. SUFFICES ASSUME Mine(store, Len(store), k) PROVE FALSE
    OBVIOUS
  <2>1. PICK m \in 1..k : store[k].says = {m}
    BY DEF StoreOK, Mine
  <2>2. m > Len(store)
    BY <2>1 DEF Mine
  <2>. QED  BY <1>2, <2>1, <2>2
<1>. HIDE DEF path
<1>4. \A i \in DOMAIN path : ~Mine(store, Len(store), path[i])
  BY <1>1, <1>3
<1>. QED  BY <1>4 DEF KeptReadable, path

LEMMA ConvInit == ConversationInit => ConvIndInv
<1>. SUFFICES ASSUME ConversationInit PROVE ConvIndInv
  OBVIOUS
<1>1. nodes = <<>> /\ agentNodeID = 0 /\ turn = "idle" /\ leaf = 0 /\ started = 0 /\ compacted = {}
  BY DEF ConversationInit
<1>2. Len(nodes) = 0 /\ nodes \in Seq(NodeSet)
  BY <1>1
<1>3. StoreOK(nodes)
  BY <1>2 DEF StoreOK
<1>4. AllApart(nodes)
  <2>1. BranchOf(nodes)[0] = <<>>
    BY <1>3, StoreOrdered, BranchSteps
  <2>2. Apart(nodes, <<>>)
    BY DEF Apart
  <2>3. \A n \in 0..0 : n = 0
    OBVIOUS
  <2>. QED  BY <1>2, <2>1, <2>2, <2>3 DEF AllApart
<1>5. Len(nodes) <= MaxNodes /\ \A c \in compacted : CompactionOK(nodes, c)
  BY <1>1, <1>2, ConversationAssumption
<1>6. TurnOK(nodes, turn, leaf, started, compacted)
  BY <1>1 DEF TurnOK
<1>. QED  BY <1>1, <1>2, <1>3, <1>4, <1>5, <1>6 DEF ConvIndInv, Stored

\* Positions of a store that has grown.
LEMMA Within ==
  ASSUME NEW a \in Nat, NEW b \in Nat, a <= b
  PROVE  /\ 0 \in 0..b /\ b \in 0..b
         /\ \A k \in 0..a : k \in 0..b /\ (k # 0 => k \in 1..a /\ k \in 1..b)
OBVIOUS

\* What ConvIndInv says of the nodes, in the terms of the lemmas.
LEMMA ConvNow ==
  ASSUME ConvIndInv
  PROVE  /\ StoreOK(nodes) /\ Len(nodes) \in Nat /\ Stored(nodes, compacted)
         /\ agentNodeID \in 0..Len(nodes) /\ leaf \in 0..Len(nodes) /\ started \in 0..Len(nodes)
         /\ turn \in {"idle", "asks", "asks again", "tools"}
         /\ turn # "idle" => leaf # 0 /\ leaf \in 1..Len(nodes)
         /\ turn # "idle" /\ InFull(compacted, started) =>
              /\ turn # "asks again" => ~IsResult(nodes, leaf)
              /\ KeptReadable(nodes, started, leaf)
<1>1. StoreOK(nodes) /\ Len(nodes) \in Nat
  BY StoreOrdered DEF ConvIndInv, Stored
<1>2. leaf \in 0..Len(nodes)
  BY DEF ConvIndInv
<1>3. turn # "idle" => leaf # 0
  BY DEF ConvIndInv, TurnOK
<1>4. leaf # 0 => leaf \in 1..Len(nodes)
  BY <1>1, <1>2, Within
<1>. QED  BY <1>1, <1>3, <1>4 DEF ConvIndInv, TurnOK

\* The turn ends, or nothing runs.
LEMMA IdleAfter ==
  ASSUME ConvIndInv, UNCHANGED <<nodes, started, compacted>>, turn' = "idle", leaf' = 0,
         agentNodeID' \in 0..Len(nodes)
  PROVE  ConvIndInv'
<1>1. 0 \in 0..Len(nodes)
  <2>1. Len(nodes) \in Nat
    BY ConvNow
  <2>. QED  BY <2>1
<1>2. TurnOK(nodes', turn', leaf', started', compacted')
  BY DEF TurnOK
<1>. QED  BY <1>1, <1>2, ConvNow DEF ConvIndInv

\* A node is added to the turn, which goes on from it or ends.
LEMMA TurnGrows ==
  ASSUME ConvIndInv, NEW x, IsNew(nodes, x), x.parent = leaf, turn # "idle", Len(nodes) + 1 <= MaxNodes,
         x.kind = "result" => turn # "asks again",
         NEW more, Appended(nodes, x, more)
  PROVE  /\ Stored(more, compacted) /\ StoreOK(more) /\ Len(more) = Len(nodes) + 1 /\ Carries(nodes, more)
         /\ more[Len(more)] = x
         /\ InFull(compacted, started) => KeptReadable(more, started, Len(more))
<1>1. StoreOK(nodes) /\ Stored(nodes, compacted) /\ started \in 0..Len(nodes) /\ leaf # 0
  BY ConvNow
<1>2. StoreOK(more) /\ Len(more) = Len(nodes) + 1 /\ Carries(nodes, more) /\ more[Len(nodes) + 1] = x
  BY <1>1, AppendedStore
<1>3. Stored(more, compacted)
  BY <1>1, StoredAppend
<1>4. ASSUME InFull(compacted, started) PROVE KeptReadable(more, started, Len(more))
  <2>1. KeptReadable(nodes, started, x.parent) /\ (x.kind = "result" => x.parent # 0 /\ ~IsResult(nodes, x.parent))
    BY <1>1, <1>4, ConvNow
  <2>. QED  BY <1>1, <2>1, AppendedReadable
<1>. QED  BY <1>2, <1>3, <1>4

LEMMA PromptStep == ASSUME ConvIndInv, Prompt PROVE ConvIndInv'
<1>. DEFINE x == Node(agentNodeID, "prompt", {Len(nodes) + 1})
<1>0. StoreOK(nodes) /\ Len(nodes) \in Nat /\ Stored(nodes, compacted) /\ agentNodeID \in 0..Len(nodes)
  BY ConvNow
<1>1. IsNew(nodes, x)
  BY <1>0, NodeIsNew DEF Kinds
<1>2. Appended(nodes, x, nodes') /\ Len(nodes) + 1 <= MaxNodes
  BY <1>0, ConversationAssumption DEF Prompt, Appended, Room
<1>3. /\ turn' = "asks" /\ leaf' = Len(nodes) + 1 /\ started' = Len(nodes) + 1
      /\ UNCHANGED <<agentNodeID, compacted>>
  BY DEF Prompt
<1>4. x.kind = "prompt"
  BY DEF Node
<1>. HIDE DEF x
<1>5. StoreOK(nodes') /\ Len(nodes') = Len(nodes) + 1 /\ nodes'[Len(nodes) + 1] = x
  BY <1>0, <1>1, <1>2, AppendedStore
<1>6. Stored(nodes', compacted)
  BY <1>0, <1>1, <1>2, StoredAppend
<1>7. KeptReadable(nodes', started', leaf') /\ leaf' \in 0..Len(nodes') /\ leaf' # 0
  <2>1. Len(nodes') \in 0..Len(nodes') /\ Len(nodes') # 0 /\ leaf' = Len(nodes') /\ started' = Len(nodes')
    BY <1>0, <1>3, <1>5
  <2>. QED  BY <1>5, <2>1, NothingMine
<1>8. ~IsResult(nodes', leaf')
  BY <1>3, <1>4, <1>5 DEF IsResult
<1>9. TurnOK(nodes', turn', leaf', started', compacted')
  BY <1>7, <1>8 DEF TurnOK
<1>10. agentNodeID' \in 0..Len(nodes') /\ started' \in 0..Len(nodes')
  BY <1>0, <1>3, <1>5
<1>. QED  BY <1>3, <1>6, <1>7, <1>9, <1>10 DEF ConvIndInv

LEMMA FailsStep == ASSUME ConvIndInv, Fails PROVE ConvIndInv'
BY ConvNow, IdleAfter DEF Fails, Done

LEMMA ModelRepliesStep == ASSUME ConvIndInv, ModelReplies PROVE ConvIndInv'
<1>0. StoreOK(nodes) /\ Len(nodes) \in Nat /\ agentNodeID \in 0..Len(nodes) /\ leaf \in 0..Len(nodes) /\ started \in 0..Len(nodes)
  BY ConvNow
<1>1. turn = "asks" /\ Len(nodes) + 1 <= MaxNodes /\ UNCHANGED <<started, compacted>>
  BY DEF ModelReplies, Room
<1>2. PICK kind \in {"reply", "call"} :
        /\ nodes' = Grow(kind)
        /\ kind = "reply" => turn' = "idle" /\ leaf' = 0 /\ (agentNodeID' = IF Len(nodes') = 0 THEN agentNodeID ELSE Len(nodes'))
        /\ kind = "call" => turn' = "tools" /\ leaf' = Len(nodes') /\ UNCHANGED agentNodeID
  BY DEF ModelReplies, Done
<1>. DEFINE x == Node(leaf, kind, {Len(nodes) + 1})
<1>3. IsNew(nodes, x)
  BY <1>0, NodeIsNew DEF Kinds
<1>4. Appended(nodes, x, nodes')
  BY <1>2 DEF Appended, Grow
<1>5. x.parent = leaf /\ x.kind = kind
  BY DEF Node
<1>. HIDE DEF x
<1>6. /\ Stored(nodes', compacted) /\ Len(nodes') = Len(nodes) + 1
      /\ nodes'[Len(nodes')] = x
      /\ InFull(compacted, started) => KeptReadable(nodes', started, Len(nodes'))
  BY <1>1, <1>3, <1>4, <1>5, TurnGrows
<1>7. ~IsResult(nodes', Len(nodes'))
  BY <1>5, <1>6 DEF IsResult
<1>8. /\ Len(nodes') \in 0..Len(nodes') /\ 0 \in 0..Len(nodes') /\ Len(nodes') # 0
      /\ agentNodeID \in 0..Len(nodes') /\ started \in 0..Len(nodes')
  BY <1>0, <1>6
<1>9. TurnOK(nodes', turn', leaf', started', compacted')
  BY <1>1, <1>2, <1>6, <1>7, <1>8 DEF TurnOK
<1>. QED  BY <1>1, <1>2, <1>6, <1>8, <1>9 DEF ConvIndInv

LEMMA ResultsStep == ASSUME ConvIndInv, Results PROVE ConvIndInv'
<1>0. StoreOK(nodes) /\ Len(nodes) \in Nat /\ agentNodeID \in 0..Len(nodes) /\ leaf \in 0..Len(nodes) /\ started \in 0..Len(nodes)
  BY ConvNow
<1>1. turn = "tools" /\ UNCHANGED <<started, compacted>>
  BY DEF Results
<1>2. CASE Done(leaf) /\ UNCHANGED nodes
  BY <1>0, <1>1, <1>2, IdleAfter DEF Done
<1>3. CASE /\ Room(2) /\ turn' = "asks again" /\ leaf' = Len(nodes) + 1 /\ UNCHANGED agentNodeID
           /\ \E s \in Sizes :
                nodes' = Append(nodes, [Node(leaf, "result", {Len(nodes) + 1}) EXCEPT !.size = s])
  <2>1. PICK s \in Sizes : nodes' = Append(nodes, [Node(leaf, "result", {Len(nodes) + 1}) EXCEPT !.size = s])
    BY <1>3
  <2>. DEFINE x == [Node(leaf, "result", {Len(nodes) + 1}) EXCEPT !.size = s]
  <2>2. s \in Nat
    BY ConversationAssumption
  <2>4. Appended(nodes, x, nodes')
    BY <2>1 DEF Appended
  <2>5. IsNew(nodes, x) /\ x.parent = leaf
    <3>. DEFINE r == Node(leaf, "result", {Len(nodes) + 1})
    <3>1. IsNew(nodes, r)
      BY <1>0, NodeIsNew DEF Kinds
    <3>2. r.parent = leaf
      BY DEF Node
    <3>3. x = [r EXCEPT !.size = s]
      OBVIOUS
    <3>. HIDE DEF x, r
    <3>4. r \in NodeSet
      BY <3>1 DEF IsNew
    <3>5. x \in NodeSet /\ x.parent = r.parent /\ x.kind = r.kind /\ x.says = r.says /\ x.cleared = r.cleared
      BY <2>2, <3>3, <3>4 DEF NodeSet
    <3>. QED  BY <3>1, <3>2, <3>5 DEF IsNew
  <2>. HIDE DEF x
  <2>6. Len(nodes) + 1 <= MaxNodes
    <3>1. MaxNodes \in Nat /\ Len(nodes) \in Nat
      BY <1>0, ConversationAssumption
    <3>2. Len(nodes) + 2 <= MaxNodes
      BY <1>3 DEF Room
    <3>. QED  BY <3>1, <3>2
  <2>7. /\ Stored(nodes', compacted) /\ Len(nodes') = Len(nodes) + 1
        /\ InFull(compacted, started) => KeptReadable(nodes', started, Len(nodes'))
    BY <1>1, <2>4, <2>5, <2>6, TurnGrows
  <2>8. /\ Len(nodes') \in 0..Len(nodes') /\ Len(nodes') # 0 /\ leaf' = Len(nodes')
        /\ agentNodeID \in 0..Len(nodes') /\ started \in 0..Len(nodes')
    <3>1. Len(nodes') = Len(nodes) + 1 /\ leaf' = Len(nodes) + 1
      BY <1>3, <2>7
    <3>2. Len(nodes') \in Nat /\ Len(nodes') # 0 /\ Len(nodes) \in Nat /\ Len(nodes) <= Len(nodes')
      BY <1>0, <3>1
    <3>. QED  BY <1>0, <3>1, <3>2, Within
  <2>9. TurnOK(nodes', turn', leaf', started', compacted')
    BY <1>1, <1>3, <2>7, <2>8 DEF TurnOK
  <2>. QED  BY <1>1, <1>3, <2>7, <2>8, <2>9 DEF ConvIndInv
<1>. QED  BY <1>2, <1>3 DEF Results

\* A note that is added leaves the premise about the older ones.
LEMMA FullBefore ==
  ASSUME NEW set, NEW c, NEW from, InFull(set \cup {c}, from)
  PROVE  InFull(set, from) /\ (c.root > from => c.leaf - c.root >= CompactKeep)
BY DEF InFull

LEMMA RepliesAgainStep == ASSUME ConvIndInv, RepliesAgain PROVE ConvIndInv'
<1>0. StoreOK(nodes) /\ Len(nodes) \in Nat /\ agentNodeID \in 0..Len(nodes) /\ leaf \in 0..Len(nodes) /\ started \in 0..Len(nodes)
  BY ConvNow
<1>1. turn = "asks again" /\ Len(nodes) + 1 <= MaxNodes /\ UNCHANGED started
  BY DEF RepliesAgain, Room
<1>. DEFINE goesOn(kind, n) == IF kind = "call" THEN turn' = "tools" /\ leaf' = n ELSE turn' = "idle" /\ leaf' = 0
            node(kind, n) == IF kind = "reply" THEN n ELSE agentNodeID
<1>2. PICK kind \in {"reply", "call"} :
        \/ /\ nodes' = Grow(kind) /\ goesOn(kind, Len(Grow(kind)))
           /\ agentNodeID' = node(kind, Len(Grow(kind))) /\ UNCHANGED compacted
        \/ \E excess \in 0..MaxExcess : \E set \in SUBSET Clearable(Grow(kind), BranchOf(Grow(kind))[Len(Grow(kind))]) :
             \E stored \in SUBSET set :
               \/ /\ nodes' = ClearAll(Grow(kind), stored) /\ goesOn(kind, Len(Grow(kind)))
                  /\ agentNodeID' = node(kind, Len(Grow(kind))) /\ UNCHANGED compacted
               \/ \E copies \in 0..CompactKeep :
                    Compacts(ClearAll(Grow(kind), stored), Len(Grow(kind)), copies) /\ goesOn(kind, Len(nodes'))
  BY DEF RepliesAgain
<1>. DEFINE x == Node(leaf, kind, {Len(nodes) + 1})
            grown == Grow(kind)
<1>3. IsNew(nodes, x)
  BY <1>0, NodeIsNew DEF Kinds
<1>4. Appended(nodes, x, grown)
  BY DEF Appended, Grow
<1>5. x.parent = leaf /\ x.kind = kind
  BY DEF Node
<1>. HIDE DEF x, grown
<1>6. /\ Stored(grown, compacted) /\ StoreOK(grown) /\ Len(grown) = Len(nodes) + 1
      /\ grown[Len(grown)] = x
      /\ InFull(compacted, started) => KeptReadable(grown, started, Len(grown))
  BY <1>1, <1>3, <1>4, <1>5, TurnGrows
<1>7. ~IsResult(grown, Len(grown))
  BY <1>5, <1>6 DEF IsResult
<1>8. /\ Len(grown) \in 0..Len(grown) /\ Len(grown) \in 1..Len(grown) /\ 0 \in 0..Len(grown) /\ Len(grown) # 0
      /\ agentNodeID \in 0..Len(grown) /\ started \in 0..Len(grown) /\ Len(grown) \in Nat
  BY <1>0, <1>6
\* Clearing first, of some of what may be cleared or of nothing.
<1>9. ASSUME NEW stored \in SUBSET Clearable(grown, BranchOf(grown)[Len(grown)])
      PROVE  LET cleared == ClearAll(grown, stored) IN
             /\ Stored(cleared, compacted) /\ Len(cleared) = Len(grown) /\ StoreOK(cleared)
             /\ ~IsResult(cleared, Len(grown))
             /\ InFull(compacted, started) => KeptReadable(cleared, started, Len(grown))
  <2>. DEFINE cleared == ClearAll(grown, stored)
  <2>1. stored \in SUBSET ResultNodes(grown) /\ AllApart(grown)
    BY <1>6, <1>8, ClearableAreResults DEF Stored
  <2>2. Stored(cleared, compacted)
    BY <1>6, <2>1, StoredClear
  <2>3. Len(cleared) = Len(grown) /\ StoreOK(cleared) /\ Carries(grown, cleared)
    BY <1>6, <2>1, ClearedStore
  <2>4. ~IsResult(cleared, Len(grown))
    BY <1>7, <1>8, <2>3 DEF Carries, IsResult
  <2>5. InFull(compacted, started) => KeptReadable(cleared, started, Len(grown))
    BY <1>6, <1>8, <2>1, ClearedReadable
  <2>. QED  BY <2>2, <2>3, <2>4, <2>5
<1>10. CASE /\ Stored(nodes', compacted) /\ Len(nodes') = Len(grown) /\ goesOn(kind, Len(grown))
            /\ ~IsResult(nodes', Len(grown))
            /\ InFull(compacted, started) => KeptReadable(nodes', started, Len(grown))
            /\ agentNodeID' = node(kind, Len(grown)) /\ UNCHANGED compacted
  <2>1. TurnOK(nodes', turn', leaf', started', compacted')
    BY <1>1, <1>8, <1>10 DEF TurnOK
  <2>2. agentNodeID' \in 0..Len(nodes') /\ leaf' \in 0..Len(nodes') /\ started' \in 0..Len(nodes')
        /\ turn' \in {"idle", "asks", "asks again", "tools"}
    BY <1>1, <1>8, <1>10
  <2>. QED  BY <1>10, <2>1, <2>2 DEF ConvIndInv
<1>11. ASSUME NEW stored \in SUBSET Clearable(grown, BranchOf(grown)[Len(grown)]), NEW copies \in 0..CompactKeep,
              Compacts(ClearAll(grown, stored), Len(grown), copies), goesOn(kind, Len(nodes'))
       PROVE  ConvIndInv'
  <2>. DEFINE cleared == ClearAll(grown, stored)
  <2>1. /\ Stored(cleared, compacted) /\ Len(cleared) = Len(grown) /\ StoreOK(cleared)
        /\ ~IsResult(cleared, Len(grown))
        /\ InFull(compacted, started) => KeptReadable(cleared, started, Len(grown))
    BY <1>9
  <2>2. Len(grown) \in 1..Len(cleared) /\ Compacts(cleared, Len(grown), copies)
    BY <1>8, <1>11, <2>1
  <2>. HIDE DEF cleared
  <2>3. /\ CompactsTo(cleared, nodes', Len(grown), copies) /\ agentNodeID' = Len(nodes')
        /\ compacted' = compacted \cup {NoteOf(cleared, Len(grown), copies)}
        /\ Stored(nodes', compacted') /\ Len(nodes') \in Nat /\ Len(cleared) + 1 <= Len(nodes')
    BY <2>1, <2>2, CompactsStep
  <2>4. ASSUME InFull(compacted', started)
        PROVE  KeptReadable(nodes', started, Len(nodes')) /\ ~IsResult(nodes', Len(nodes'))
    <3>. DEFINE c == NoteOf(cleared, Len(grown), copies)
    <3>1. InFull(compacted, started) /\ (c.root > started => c.leaf - c.root >= CompactKeep)
      BY <2>3, <2>4, FullBefore
    <3>2. c.root = Len(cleared) + 1 /\ c.leaf = Len(cleared) + 1 + copies
      BY DEF NoteOf
    <3>. HIDE DEF c
    <3>3. c.root > started /\ c.leaf - c.root = copies
      BY <1>8, <2>1, <3>2, ConversationAssumption
    <3>4. copies = CompactKeep
      BY <3>1, <3>3, ConversationAssumption
    <3>. QED  BY <2>1, <2>2, <2>3, <3>1, <3>4, CompactedReadable
  <2>5. Len(nodes') \in 0..Len(nodes') /\ 0 \in 0..Len(nodes') /\ Len(nodes') # 0 /\ started' \in 0..Len(nodes')
    <3>1. Len(grown) \in Nat /\ Len(nodes') \in Nat /\ Len(grown) + 1 <= Len(nodes') /\ started \in 0..Len(grown)
      BY <1>8, <2>1, <2>3
    <3>2. Len(grown) <= Len(nodes') /\ Len(nodes') # 0
      BY <3>1
    <3>. QED  BY <1>1, <3>1, <3>2, Within
  <2>6. TurnOK(nodes', turn', leaf', started', compacted')
    BY <1>1, <1>11, <2>4, <2>5 DEF TurnOK
  <2>7. leaf' \in 0..Len(nodes') /\ turn' \in {"idle", "asks", "asks again", "tools"}
    BY <1>11, <2>5
  <2>. QED  BY <2>3, <2>5, <2>6, <2>7 DEF ConvIndInv
<1>12. CASE /\ nodes' = grown /\ goesOn(kind, Len(grown))
            /\ agentNodeID' = node(kind, Len(grown)) /\ UNCHANGED compacted
  BY <1>6, <1>7, <1>10, <1>12
<1>13. ASSUME NEW stored \in SUBSET Clearable(grown, BranchOf(grown)[Len(grown)]),
              nodes' = ClearAll(grown, stored), goesOn(kind, Len(grown)),
              agentNodeID' = node(kind, Len(grown)), UNCHANGED compacted
       PROVE  ConvIndInv'
  BY <1>9, <1>10, <1>13
<1>14. \/ /\ nodes' = grown /\ goesOn(kind, Len(grown))
          /\ agentNodeID' = node(kind, Len(grown)) /\ UNCHANGED compacted
       \/ \E stored \in SUBSET Clearable(grown, BranchOf(grown)[Len(grown)]) :
            \/ /\ nodes' = ClearAll(grown, stored) /\ goesOn(kind, Len(grown))
               /\ agentNodeID' = node(kind, Len(grown)) /\ UNCHANGED compacted
            \/ \E copies \in 0..CompactKeep :
                 Compacts(ClearAll(grown, stored), Len(grown), copies) /\ goesOn(kind, Len(nodes'))
  <2>1. \A set, other : set \in SUBSET other => \A stored \in SUBSET set : stored \in SUBSET other
    OBVIOUS
  <2>. HIDE DEF goesOn, node
  <2>. QED  BY <1>2, <2>1 DEF grown
<1>. QED  BY <1>11, <1>12, <1>13, <1>14

LEMMA CompactCommandStep == ASSUME ConvIndInv, CompactCommand PROVE ConvIndInv'
<1>0. StoreOK(nodes) /\ Len(nodes) \in Nat /\ Stored(nodes, compacted) /\ agentNodeID \in 0..Len(nodes)
      /\ leaf \in 0..Len(nodes) /\ started \in 0..Len(nodes) /\ turn \in {"idle", "asks", "asks again", "tools"}
  BY ConvNow
<1>1. agentNodeID # 0 /\ UNCHANGED <<turn, leaf, started>>
  BY DEF CompactCommand
<1>2. PICK copies \in 0..CompactKeep : Compacts(nodes, agentNodeID, copies)
  BY DEF CompactCommand
<1>3. agentNodeID \in 1..Len(nodes)
  <2>1. Len(nodes) \in Nat
    BY <1>0
  <2>2. Len(nodes) <= Len(nodes)
    BY <2>1
  <2>. QED  BY <1>0, <1>1, <2>1, <2>2, Within
<1>4. /\ CompactsTo(nodes, nodes', agentNodeID, copies) /\ agentNodeID' = Len(nodes')
      /\ compacted' = compacted \cup {NoteOf(nodes, agentNodeID, copies)}
      /\ Stored(nodes', compacted')
      /\ Len(nodes') \in Nat /\ Len(nodes) + 1 <= Len(nodes') /\ StoreOK(nodes') /\ Carries(nodes, nodes')
  BY <1>0, <1>2, <1>3, CompactsStep
<1>5. \A k \in 1..Len(nodes) : nodes'[k] = nodes[k]
  BY <1>4 DEF CompactsTo
<1>6. /\ agentNodeID' \in 0..Len(nodes') /\ leaf' \in 0..Len(nodes') /\ started' \in 0..Len(nodes')
      /\ turn' \in {"idle", "asks", "asks again", "tools"}
  <2>1. Len(nodes) \in Nat /\ Len(nodes') \in Nat /\ Len(nodes) + 1 <= Len(nodes')
    BY <1>0, <1>4
  <2>2. Len(nodes) <= Len(nodes')
    BY <2>1
  <2>. QED  BY <1>0, <1>1, <1>4, <2>1, <2>2, Within
<1>7. ASSUME turn # "idle", InFull(compacted', started)
      PROVE  (turn # "asks again" => ~IsResult(nodes', leaf)) /\ KeptReadable(nodes', started, leaf)
  <2>1. InFull(compacted, started)
    BY <1>4, <1>7, FullBefore
  <2>2. /\ turn # "asks again" => ~IsResult(nodes, leaf)
        /\ KeptReadable(nodes, started, leaf) /\ leaf \in 1..Len(nodes)
    BY <1>7, <2>1, ConvNow
  <2>3. KeptReadable(nodes', started, leaf)
    BY <1>0, <1>4, <1>5, <2>2, CarriedReadable
  <2>. QED  BY <1>5, <2>2, <2>3 DEF IsResult
<1>8. TurnOK(nodes', turn', leaf', started', compacted')
  BY <1>1, <1>7, ConvNow DEF TurnOK
<1>. QED  BY <1>4, <1>6, <1>8 DEF ConvIndInv

LEMMA SimpleStep ==
  ASSUME ConvIndInv, ClearCommand \/ LoadConversation \/ Continue
  PROVE  ConvIndInv'
<1>0. Len(nodes) \in Nat /\ agentNodeID \in 0..Len(nodes)
  BY ConvNow
<1>1. CASE ClearCommand
  BY <1>0, <1>1, IdleAfter DEF ClearCommand
<1>2. CASE Continue
  BY <1>2, IdleAfter DEF Continue
<1>3. CASE LoadConversation
  <2>1. agentNodeID' \in NodeIds /\ turn = "idle" /\ UNCHANGED <<nodes, turn, leaf, started, compacted>>
    BY <1>3 DEF LoadConversation, Subtree
  <2>2. agentNodeID' \in 0..Len(nodes)
    BY <1>0, <2>1 DEF NodeIds
  <2>3. TurnOK(nodes', turn', leaf', started', compacted')
    BY <2>1 DEF TurnOK
  <2>. QED  BY <2>1, <2>2, <2>3, ConvNow DEF ConvIndInv
<1>. QED  BY <1>1, <1>2, <1>3

LEMMA ConvStep == ConvIndInv /\ [ConversationNext]_convVars => ConvIndInv'
<1>. SUFFICES ASSUME ConvIndInv, [ConversationNext]_convVars PROVE ConvIndInv'
  OBVIOUS
<1>1. CASE UNCHANGED convVars
  BY <1>1 DEF ConvIndInv, convVars
<1>. QED
  BY <1>1, PromptStep, ModelRepliesStep, FailsStep, ResultsStep, RepliesAgainStep, CompactCommandStep, SimpleStep
  DEF ConversationNext

\* A compaction tells as many nodes as it copied.
LEMMA ToldNodes ==
  ASSUME ConvIndInv, NEW c \in compacted
  PROVE  /\ Branch(c.leaf) = [j \in 1..(c.leaf - c.root + 1) |-> c.root + j - 1]
         /\ Told(c) = c.leaf - c.root
<1>1. CompactionOK(nodes, c) /\ StoreOK(nodes) /\ Len(nodes) \in Nat /\ Ordered(nodes)
  BY StoreOrdered DEF ConvIndInv, Stored
<1>2. c.root \in 1..Len(nodes) /\ c.leaf \in c.root..Len(nodes)
  BY <1>1 DEF CompactionOK
<1>. DEFINE k == c.leaf - c.root
<1>3. k \in 0..(Len(nodes) - c.root) /\ k \in Nat /\ c.root + k = c.leaf /\ c.root \in Nat
  BY <1>1, <1>2
<1>4. Chained(nodes, c.root, k)
  BY <1>1 DEF CompactionOK, Chained
<1>5. BranchOf(nodes)[c.root + k] = [j \in 1..(k + 1) |-> c.root + j - 1]
  <2>. HIDE DEF k
  <2>. QED  BY <1>1, <1>2, <1>3, <1>4, ChainBranch
<1>6. Branch(c.leaf) = [j \in 1..(k + 1) |-> c.root + j - 1]
  BY <1>3, <1>5 DEF Branch
<1>7. DOMAIN Branch(c.leaf) = 1..(k + 1)
  BY <1>6
<1>8. {i \in 1..(k + 1) : i > 1} = 2..(k + 1)
  <2>1. k \in Nat
    BY <1>3
  <2>. HIDE DEF k
  <2>. QED  BY <2>1
<1>9. Cardinality(2..(k + 1)) = k
  <2>1. k \in Nat
    BY <1>3
  <2>. HIDE DEF k
  <2>2. Cardinality(2..(k + 1)) = IF 2 > k + 1 THEN 0 ELSE k + 1 - 2 + 1
    BY <2>1, FS_Interval
  <2>. QED  BY <2>1, <2>2
<1>10. Told(c) = k
  BY <1>7, <1>8, <1>9 DEF Told
<1>. QED  BY <1>6, <1>10

LEMMA NatSeqOf ==
  ASSUME NEW n \in Nat, NEW f \in [1..n -> Nat]
  PROVE  f \in Seq(Nat) /\ Len(f) = n
<1>1. f \in Seq(Nat)
  BY SeqDef
<1>2. DOMAIN f = 1..n /\ DOMAIN f = 1..Len(f) /\ Len(f) \in Nat
  BY <1>1, LenProperties
<1>. QED  BY <1>1, <1>2

LEMMA NothingLostHolds == ConvIndInv => NothingLost
<1>. SUFFICES ASSUME ConvIndInv, NEW c \in compacted, Told(c) >= CompactKeep
              PROVE  LET copied == SubSeq(Branch(c.leaf), 2, CompactKeep + 1) IN
                     /\ nodes[c.root].says \cap Said(nodes, copied) = {}
                     /\ nodes[c.root].says \cup Said(nodes, copied) = Said(nodes, Branch(c.old))
  BY DEF NothingLost
<1>. DEFINE copied == SubSeq(Branch(c.leaf), 2, CompactKeep + 1)
            path == BranchOf(nodes)[c.old]
            cut == Len(path) - CompactKeep
<1>1. CompactionOK(nodes, c) /\ StoreOK(nodes) /\ AllApart(nodes) /\ Len(nodes) \in Nat /\ CompactKeep \in Nat
  BY StoreOrdered, ConversationAssumption DEF ConvIndInv, Stored
<1>2. /\ c.old \in 0..Len(nodes) /\ c.old \in 1..Len(nodes)
      /\ c.root \in Nat /\ c.leaf \in Nat
      /\ c.leaf - c.root <= CompactKeep /\ Len(path) > CompactKeep
      /\ nodes[c.root].says = UNION {nodes[path[i]].says : i \in 1..cut}
      /\ \A i \in 1..(c.leaf - c.root) : nodes[c.root + i].says = nodes[path[cut + i]].says
  BY <1>1 DEF CompactionOK
<1>3. Len(path) \in Nat /\ DOMAIN path = 1..Len(path) /\ Apart(nodes, path)
  <2>1. Apart(nodes, path)
    BY <1>1, <1>2 DEF AllApart
  <2>. HIDE DEF path
  <2>2. path = BranchOf(nodes)[c.old]
    BY DEF path
  <2>. QED  BY <1>1, <1>2, <2>1, <2>2, PathFacts
<1>4. Branch(c.old) = path
  BY DEF Branch
<1>5. c.leaf - c.root = CompactKeep
  <2>1. Told(c) = c.leaf - c.root
    BY ToldNodes
  <2>. HIDE DEF path
  <2>. QED  BY <1>1, <1>2, <2>1
<1>6. Branch(c.leaf) = [j \in 1..(CompactKeep + 1) |-> c.root + j - 1]
  BY <1>5, ToldNodes
<1>. HIDE DEF path
<1>7. DOMAIN copied = 1..CompactKeep /\ \A i \in 1..CompactKeep : copied[i] = c.root + i
  <2>1. /\ Branch(c.leaf) \in Seq(Nat) /\ Len(Branch(c.leaf)) = CompactKeep + 1
        /\ \A j \in 1..(CompactKeep + 1) : Branch(c.leaf)[j] = c.root + j - 1
    <3>1. \A j \in 1..(CompactKeep + 1) : c.root + j - 1 \in Nat
      BY <1>1, <1>2
    <3>2. CompactKeep + 1 \in Nat
      BY <1>1
    <3>3. Branch(c.leaf) \in [1..(CompactKeep + 1) -> Nat]
      <4>1. [j \in 1..(CompactKeep + 1) |-> c.root + j - 1] \in [1..(CompactKeep + 1) -> Nat]
        BY <3>1
      <4>. QED  BY <1>6, <4>1
    <3>4. \A j \in 1..(CompactKeep + 1) : Branch(c.leaf)[j] = c.root + j - 1
      BY <1>6
    <3>. QED  BY <3>2, <3>3, <3>4, NatSeqOf
  <2>2. \A j \in 2..(CompactKeep + 1) : Branch(c.leaf)[j] \in Nat
    <3>1. \A j \in 2..(CompactKeep + 1) : j \in 1..(CompactKeep + 1) /\ c.root + j - 1 \in Nat
      BY <1>1, <1>2
    <3>2. \A j \in 1..(CompactKeep + 1) : Branch(c.leaf)[j] = c.root + j - 1
      BY <2>1
    <3>. QED  BY <3>1, <3>2
  <2>3. copied \in Seq(Nat) /\ Len(copied) = CompactKeep /\ \A i \in 1..CompactKeep : copied[i] = Branch(c.leaf)[2 + i - 1]
    <3>1. /\ copied \in Seq(Nat)
          /\ Len(copied) = IF 2 <= CompactKeep + 1 THEN CompactKeep + 1 - 2 + 1 ELSE 0
          /\ \A i \in 1..(CompactKeep + 1 - 2 + 1) : copied[i] = Branch(c.leaf)[2 + i - 1]
      BY <1>1, <2>2, SubSeqProperties
    <3>. HIDE DEF copied
    <3>. QED  BY <1>1, <3>1
  <2>. HIDE DEF copied
  <2>4. \A i \in 1..CompactKeep : 2 + i - 1 \in 1..(CompactKeep + 1) /\ c.root + (2 + i - 1) - 1 = c.root + i
    BY <1>1, <1>2
  <2>5. \A i \in 1..CompactKeep : copied[i] = c.root + i
    BY <2>1, <2>3, <2>4
  <2>. QED  BY <2>3, <2>5, LenProperties
<1>. HIDE DEF copied
<1>8. cut \in Nat /\ (\A i \in 1..cut : i \in DOMAIN path)
      /\ (\A i \in 1..CompactKeep : cut + i \in DOMAIN path /\ \A j \in 1..cut : j # cut + i)
      /\ \A k \in DOMAIN path : k \in 1..cut \/ (k - cut \in 1..CompactKeep /\ cut + (k - cut) = k)
  <2>1. Len(path) \in Nat /\ CompactKeep \in Nat /\ Len(path) > CompactKeep
    BY <1>1, <1>2, <1>3
  <2>. QED  BY <1>3, <2>1
<1>9. \A i \in 1..CompactKeep : nodes[copied[i]].says = nodes[path[cut + i]].says
  BY <1>2, <1>5, <1>7
<1>. HIDE DEF cut
<1>10. Said(nodes, copied) = UNION {nodes[path[cut + i]].says : i \in 1..CompactKeep}
  <2>1. {nodes[copied[i]].says : i \in DOMAIN copied} = {nodes[path[cut + i]].says : i \in 1..CompactKeep}
    BY <1>7, <1>9
  <2>. QED  BY <2>1 DEF Said
<1>11. nodes[c.root].says = UNION {nodes[path[i]].says : i \in 1..cut}
  BY <1>2
<1>12. \A i \in 1..cut, j \in 1..CompactKeep : nodes[path[i]].says \cap nodes[path[cut + j]].says = {}
  BY <1>3, <1>8 DEF Apart
<1>13. nodes[c.root].says \cap Said(nodes, copied) = {}
  BY <1>10, <1>11, <1>12
<1>14. ASSUME NEW m PROVE m \in nodes[c.root].says \cup Said(nodes, copied) <=> m \in Said(nodes, path)
  <2>1. m \in Said(nodes, path) <=> \E k \in DOMAIN path : m \in nodes[path[k]].says
    BY DEF Said
  <2>2. m \in nodes[c.root].says <=> \E i \in 1..cut : m \in nodes[path[i]].says
    BY <1>11
  <2>3. m \in Said(nodes, copied) <=> \E i \in 1..CompactKeep : m \in nodes[path[cut + i]].says
    BY <1>10
  <2>4. ASSUME NEW k \in DOMAIN path, m \in nodes[path[k]].says
        PROVE  \/ \E i \in 1..cut : m \in nodes[path[i]].says
               \/ \E i \in 1..CompactKeep : m \in nodes[path[cut + i]].says
    <3>1. CASE k \in 1..cut
      BY <2>4, <3>1
    <3>2. CASE k - cut \in 1..CompactKeep /\ cut + (k - cut) = k
      <4>1. m \in nodes[path[cut + (k - cut)]].says
        BY <2>4, <3>2
      <4>. QED  BY <3>2, <4>1
    <3>. QED  BY <1>8, <3>1, <3>2
  <2>5. ASSUME NEW i \in 1..cut, m \in nodes[path[i]].says
        PROVE  \E k \in DOMAIN path : m \in nodes[path[k]].says
    <3>1. i \in DOMAIN path
      BY <1>8
    <3>. QED  BY <2>5, <3>1
  <2>6. ASSUME NEW i \in 1..CompactKeep, m \in nodes[path[cut + i]].says
        PROVE  \E k \in DOMAIN path : m \in nodes[path[k]].says
    <3>1. cut + i \in DOMAIN path
      BY <1>8
    <3>. QED  BY <2>6, <3>1
  <2>7. (\E k \in DOMAIN path : m \in nodes[path[k]].says)
        <=> \/ \E i \in 1..cut : m \in nodes[path[i]].says
            \/ \E i \in 1..CompactKeep : m \in nodes[path[cut + i]].says
    BY <2>4, <2>5, <2>6
  <2>8. m \in nodes[c.root].says \cup Said(nodes, copied)
        <=> m \in nodes[c.root].says \/ m \in Said(nodes, copied)
    OBVIOUS
  <2>. QED  BY <2>1, <2>2, <2>3, <2>7, <2>8
<1>15. nodes[c.root].says \cup Said(nodes, copied) = Said(nodes, Branch(c.old))
  BY <1>4, <1>14
<1>16. copied = SubSeq(Branch(c.leaf), 2, CompactKeep + 1)
  BY DEF copied
<1>. QED  BY <1>13, <1>15, <1>16

LEMMA ResultsReadableHolds == ConvIndInv => TurnResultsReadable
<1>. SUFFICES ASSUME ConvIndInv, turn # "idle", \A c \in compacted : c.root > started => Told(c) >= CompactKeep
              PROVE  LET path == Branch(leaf) IN
                     \A i \in DOMAIN path :
                       /\ IsResult(nodes, path[i]) /\ Min(nodes[path[i]].says) > started
                       /\ Cardinality(ResultsAfter(nodes, path, i)) < ClearKeep
                       => ~nodes[path[i]].cleared
  BY DEF TurnResultsReadable
<1>. DEFINE path == BranchOf(nodes)[leaf]
<1>1. InFull(compacted, started)
  BY ToldNodes DEF InFull
<1>2. KeptReadable(nodes, started, leaf) /\ leaf \in 0..Len(nodes) /\ StoreOK(nodes)
  BY <1>1, ConvNow
<1>3. \A i \in DOMAIN path : path[i] \in 1..Len(nodes)
  BY <1>2, PathFacts
<1>4. \A i \in DOMAIN path :
        Mine(nodes, started, path[i]) /\ IsResult(nodes, path[i]) /\ nodes[path[i]].cleared
        => Cardinality(ResultsAfter(nodes, path, i)) >= ClearKeep
  BY <1>2 DEF KeptReadable
<1>5. DOMAIN path \subseteq Nat /\ IsFiniteSet(DOMAIN path)
  <2>1. Len(path) \in Nat /\ DOMAIN path = 1..Len(path)
    <3>. HIDE DEF path
    <3>1. path = BranchOf(nodes)[leaf]
      BY DEF path
    <3>. QED  BY <1>2, <3>1, PathFacts
  <2>. HIDE DEF path
  <2>. QED  BY <2>1, FS_Interval
<1>. HIDE DEF path
<1>6. \A k \in 1..Len(nodes) : IsResult(nodes, k) /\ Min(nodes[k].says) > started => Mine(nodes, started, k)
  <2>. SUFFICES ASSUME NEW k \in 1..Len(nodes), IsResult(nodes, k), Min(nodes[k].says) > started
                PROVE  Mine(nodes, started, k)
    OBVIOUS
  <2>1. nodes[k].kind # "summary"
    BY DEF IsResult
  <2>2. PICK m \in 1..k : nodes[k].says = {m}
    BY <1>2, <2>1 DEF StoreOK
  <2>3. Min({m}) = m
    BY DEF Min
  <2>. QED  BY <2>1, <2>2, <2>3 DEF Mine
<1>7. ASSUME NEW i \in DOMAIN path, IsResult(nodes, path[i]), Min(nodes[path[i]].says) > started,
             Cardinality(ResultsAfter(nodes, path, i)) < ClearKeep, nodes[path[i]].cleared
      PROVE  FALSE
  <2>1. Cardinality(ResultsAfter(nodes, path, i)) >= ClearKeep
    BY <1>3, <1>4, <1>6, <1>7
  <2>2. IsFiniteSet(ResultsAfter(nodes, path, i))
    BY <1>5, FS_Subset DEF ResultsAfter
  <2>3. Cardinality(ResultsAfter(nodes, path, i)) \in Nat /\ ClearKeep \in Nat
    BY <2>2, FS_CardinalityType, ConversationAssumption
  <2>. QED  BY <1>7, <2>1, <2>3
<1>8. Branch(leaf) = path
  BY DEF Branch, path
<1>. QED  BY <1>7, <1>8

LEMMA ConversationTyped == ConvIndInv => ConversationTypeOK
<1>. SUFFICES ASSUME ConvIndInv PROVE ConversationTypeOK
  OBVIOUS
<1>1. StoreOK(nodes) /\ Len(nodes) \in Nat /\ Len(nodes) <= MaxNodes /\ \A c \in compacted : CompactionOK(nodes, c)
  BY ConvNow DEF ConvIndInv, Stored
<1>2. ASSUME NEW n \in NodeIds
      PROVE  /\ nodes[n].parent \in 0..(n - 1)
             /\ nodes[n].kind \in {"prompt", "reply", "call", "result", "summary"}
             /\ nodes[n].says \subseteq NodeIds
             /\ nodes[n].cleared => nodes[n].kind = "result"
  <2>1. n \in 1..Len(nodes) /\ 1..n \subseteq NodeIds
    BY <1>1 DEF NodeIds
  <2>2. nodes[n] \in NodeSet
    BY <1>1, <2>1, StoreOrdered
  <2>. QED  BY <1>1, <2>1, <2>2 DEF StoreOK, NodeSet, Kinds
<1>3. ASSUME NEW c \in compacted PROVE {c.old, c.root, c.leaf} \subseteq NodeIds
  <2>1. c.old \in 1..Len(nodes) /\ c.root \in 1..Len(nodes) /\ c.leaf \in c.root..Len(nodes)
    BY <1>1 DEF CompactionOK
  <2>2. c.leaf \in 1..Len(nodes)
    BY <1>1, <2>1
  <2>. QED  BY <2>1, <2>2 DEF NodeIds
<1>. QED  BY <1>1, <1>2, <1>3 DEF ConversationTypeOK, ConvIndInv

\* However clearing, compaction, failures of storage, commands and restarts meet, what
\* the old branch said is in the summary or told again, and a running turn can read its last
\* results as long as its compactions were stored in full (agent_loops.go, clearOldToolResults
\* and maybeCompact; compact.go, compactConversation).
THEOREM NothingToldIsLost == ConversationSpec => []ConversationInv
<1>1. ConvIndInv => ConversationInv
  BY NothingLostHolds, ResultsReadableHolds, ConversationTyped DEF ConversationInv
<1>. QED  BY <1>1, ConvInit, ConvStep, PTL DEF ConversationSpec

(***************************************************************************)
(* The trace                                                               *)
(***************************************************************************)

(***************************************************************************)
(* Recursion over a number                                                 *)
(***************************************************************************)

\* f starts with e and goes on, up to N, by the step g.
Recurs(f, e, g, N) == f[0] = e /\ \A n \in 1..N : f[n] = g[<<n, f[n - 1]>>]

\* Whatever a step does, a function can be written down that goes on by it: there is no
\* first number that none reaches.
LEMMA RecursionExists ==
  ASSUME NEW S, NEW e \in S, NEW g \in [Nat \X S -> S], NEW N \in Nat
  PROVE  \E f \in [0..N -> S] : Recurs(f, e, g, N)
<1>. DEFINE T == {k \in Nat : ~ \E f \in [0..k -> S] : Recurs(f, e, g, k)}
<1>1. SUFFICES ASSUME T # {} PROVE FALSE
  OBVIOUS
<1>2. PICK k \in T : \A j \in T : k <= j
  <2>1. T \in SUBSET Nat
    OBVIOUS
  <2>. HIDE DEF T
  <2>. QED  BY <1>1, <2>1, LeastNumber
<1>3. CASE k = 0
  <2>. DEFINE f == [n \in 0..0 |-> e]
  <2>1. f \in [0..0 -> S] /\ Recurs(f, e, g, 0)
    BY DEF Recurs
  <2>. QED  BY <1>2, <1>3, <2>1
<1>4. CASE k # 0
  <2>1. k \in Nat /\ k - 1 \in Nat /\ k - 1 \notin T
    BY <1>2, <1>4
  <2>2. PICK h \in [0..(k - 1) -> S] : Recurs(h, e, g, k - 1)
    BY <2>1
  <2>. DEFINE f == [n \in 0..k |-> IF n = k THEN g[<<k, h[k - 1]>>] ELSE h[n]]
  <2>3. h[k - 1] \in S /\ g[<<k, h[k - 1]>>] \in S
    <3>1. h[k - 1] \in S
      BY <2>1, <2>2
    <3>. QED  BY <2>1, <3>1
  <2>4. f \in [0..k -> S]
    BY <2>1, <2>2, <2>3
  <2>5. \A n \in 0..(k - 1) : f[n] = h[n]
    BY <2>1
  <2>6. f[k] = g[<<k, f[k - 1]>>]
    <3>1. f[k - 1] = h[k - 1]
      BY <2>1, <2>5
    <3>2. f[k] = g[<<k, h[k - 1]>>]
      BY <2>1
    <3>. HIDE DEF f
    <3>. QED  BY <3>1, <3>2
  <2>. HIDE DEF f
  <2>7. f[0] = e
    BY <2>1, <2>2, <2>5 DEF Recurs
  <2>8. \A n \in 1..k : f[n] = g[<<n, f[n - 1]>>]
    <3>. SUFFICES ASSUME NEW n \in 1..k, n # k PROVE f[n] = g[<<n, f[n - 1]>>]
      BY <2>6
    <3>1. n \in 1..(k - 1) /\ n \in 0..(k - 1) /\ n - 1 \in 0..(k - 1)
      BY <2>1
    <3>2. h[n] = g[<<n, h[n - 1]>>]
      BY <2>2, <3>1 DEF Recurs
    <3>. QED  BY <2>5, <3>1, <3>2
  <2>9. Recurs(f, e, g, k)
    BY <2>7, <2>8 DEF Recurs
  <2>. QED  BY <1>2, <2>4, <2>9
<1>. QED  BY <1>3, <1>4

\* Two functions that go on by the same step are the same as far as both go on.
LEMMA RecursionUnique ==
  ASSUME NEW e, NEW g, NEW N \in Nat, NEW f, NEW h, Recurs(f, e, g, N), Recurs(h, e, g, N)
  PROVE  \A n \in 0..N : f[n] = h[n]
<1>. DEFINE T == {k \in 0..N : f[k] # h[k]}
<1>1. SUFFICES ASSUME T # {} PROVE FALSE
  OBVIOUS
<1>2. PICK k \in T : \A j \in T : k <= j
  <2>1. T \in SUBSET Nat
    OBVIOUS
  <2>. HIDE DEF T
  <2>. QED  BY <1>1, <2>1, LeastNumber
<1>3. k \in 0..N /\ f[k] # h[k]
  OBVIOUS
<1>4. k # 0
  BY <1>3 DEF Recurs
<1>5. k \in 1..N /\ k - 1 \in 0..N /\ k - 1 \notin T
  BY <1>2, <1>3, <1>4
<1>6. f[k - 1] = h[k - 1]
  BY <1>5
<1>. QED  BY <1>3, <1>5, <1>6 DEF Recurs

(***************************************************************************)
(* The trace: what turns say                                               *)
(***************************************************************************)

\* How the flattening of ts goes on.
Joins(ts, S) ==
  [p \in Nat \X Seq(S) |-> IF p[1] \in 1..Len(ts) THEN p[2] \o ts[p[1]] ELSE p[2]]

LEMMA JoinsStep ==
  ASSUME NEW S, NEW ts \in Seq(Seq(S))
  PROVE  /\ Joins(ts, S) \in [Nat \X Seq(S) -> Seq(S)]
         /\ \A n \in 1..Len(ts), x \in Seq(S) : Joins(ts, S)[<<n, x>>] = x \o ts[n]
<1>1. \A n \in 1..Len(ts) : ts[n] \in Seq(S)
  BY ElementOfSeq
<1>2. Len(ts) \in Nat
  OBVIOUS
<1>3. \A p \in Nat \X Seq(S) : (IF p[1] \in 1..Len(ts) THEN p[2] \o ts[p[1]] ELSE p[2]) \in Seq(S)
  <2>. SUFFICES ASSUME NEW p \in Nat \X Seq(S)
                PROVE (IF p[1] \in 1..Len(ts) THEN p[2] \o ts[p[1]] ELSE p[2]) \in Seq(S)
    OBVIOUS
  <2>1. p[2] \in Seq(S)
    OBVIOUS
  <2>2. CASE p[1] \in 1..Len(ts)
    <3>1. ts[p[1]] \in Seq(S)
      BY <1>1, <2>2
    <3>2. p[2] \o ts[p[1]] \in Seq(S)
      BY <2>1, <3>1, ConcatProperties
    <3>. QED  BY <2>2, <3>2
  <2>3. CASE p[1] \notin 1..Len(ts)
    BY <2>1, <2>3
  <2>. QED  BY <2>2, <2>3
<1>4. ASSUME NEW n \in 1..Len(ts), NEW x \in Seq(S) PROVE Joins(ts, S)[<<n, x>>] = x \o ts[n]
  <2>. DEFINE p == <<n, x>>
  <2>1. p \in Nat \X Seq(S) /\ p[1] = n /\ p[2] = x
    BY <1>2
  <2>. HIDE DEF p
  <2>2. Joins(ts, S)[p] = x \o ts[n]
    BY <2>1 DEF Joins
  <2>. QED  BY <2>2 DEF p
<1>. QED  BY <1>3, <1>4 DEF Joins

\* FlattenSeq is what its recursion says.
LEMMA FlattenGiven ==
  ASSUME NEW S, NEW ts \in Seq(Seq(S)), NEW f \in [0..Len(ts) -> Seq(S)],
         Recurs(f, <<>>, Joins(ts, S), Len(ts))
  PROVE  FlattenSeq(ts) = f[Len(ts)]
<1>. DEFINE L == Len(ts)
            rhs(h) == [i \in 1..L |-> IF i = 1 THEN ts[i] ELSE h[i - 1] \o ts[i]]
            start == [i \in 1..L |-> f[i]]
<1>1. L \in Nat
  OBVIOUS
<1>2. \A n \in 1..L : f[n - 1] \in Seq(S) /\ f[n] = f[n - 1] \o ts[n]
  <2>. SUFFICES ASSUME NEW n \in 1..L PROVE f[n - 1] \in Seq(S) /\ f[n] = f[n - 1] \o ts[n]
    OBVIOUS
  <2>1. f[n - 1] \in Seq(S)
    <3>1. n - 1 \in 0..L
      <4>. HIDE DEF L
      <4>. QED  BY <1>1
    <3>. QED  BY <3>1
  <2>2. f[n] = Joins(ts, S)[<<n, f[n - 1]>>]
    BY DEF Recurs
  <2>. QED  BY <2>1, <2>2, JoinsStep
<1>3. CASE L = 0
  <2>1. ts = <<>>
    BY <1>3, EmptySeq
  <2>2. f[0] = <<>>
    BY DEF Recurs
  <2>3. FlattenSeq(ts) = ts
    BY <1>3 DEF FlattenSeq
  <2>. QED  BY <1>3, <2>1, <2>2, <2>3
<1>4. CASE L # 0
  <2>1. start = rhs(start)
    <3>1. \A i \in 1..L : f[i] = IF i = 1 THEN ts[i] ELSE start[i - 1] \o ts[i]
      <4>. SUFFICES ASSUME NEW i \in 1..L PROVE f[i] = IF i = 1 THEN ts[i] ELSE start[i - 1] \o ts[i]
        OBVIOUS
      <4>1. CASE i = 1
        <5>1. f[1] = <<>> \o ts[1] /\ ts[1] \in Seq(S)
          <6>1. f[0] = <<>> /\ 1 \in 1..L
            BY <4>1 DEF Recurs
          <6>2. f[1 - 1] = f[0]
            OBVIOUS
          <6>3. f[1] = f[1 - 1] \o ts[1]
            BY <1>2, <6>1
          <6>4. ts[1] \in Seq(S)
            BY <6>1, ElementOfSeq
          <6>. QED  BY <6>1, <6>2, <6>3, <6>4
        <5>. QED  BY <4>1, <5>1, ConcatEmptySeq
      <4>2. CASE i # 1
        <5>1. i - 1 \in 1..L
          BY <1>1, <4>2
        <5>2. start[i - 1] = f[i - 1]
          BY <5>1
        <5>. QED  BY <1>2, <4>2, <5>2
      <4>. QED  BY <4>1, <4>2
    <3>. QED  BY <3>1
  <2>. DEFINE h == CHOOSE h : h = rhs(h)
  <2>2. h = rhs(h)
    <3>. HIDE DEF start
    <3>. QED  BY <2>1
  <2>3. FlattenSeq(ts) = h[L]
    BY <1>4 DEF FlattenSeq
  <2>. HIDE DEF h
  <2>4. \A i \in 1..L : h[i] = IF i = 1 THEN ts[i] ELSE h[i - 1] \o ts[i]
    BY <2>2
  <2>. DEFINE k == [n \in 0..L |-> IF n = 0 THEN <<>> ELSE h[n]]
              T == {n \in 0..L : k[n] # f[n]}
  <2>5. T = {}
    <3>1. SUFFICES ASSUME T # {} PROVE FALSE
      OBVIOUS
    <3>2. PICK n \in T : \A j \in T : n <= j
      <4>1. T \in SUBSET Nat
        OBVIOUS
      <4>. HIDE DEF T
      <4>. QED  BY <3>1, <4>1, LeastNumber
    <3>3. n \in 0..L /\ k[n] # f[n]
      OBVIOUS
    <3>4. n # 0
      BY <3>3 DEF Recurs
    <3>5. n \in 1..L /\ k[n] = h[n]
      BY <1>1, <3>3, <3>4
    <3>6. CASE n = 1
      <4>1. f[n] = start[n] /\ start[n] = ts[n]
        <5>1. start[n] = rhs(start)[n]
          BY <2>1
        <5>2. rhs(start)[n] = ts[n]
          BY <3>5, <3>6
        <5>3. start[n] = f[n]
          BY <3>5
        <5>. QED  BY <5>1, <5>2, <5>3
      <4>. QED  BY <2>4, <3>3, <3>5, <3>6, <4>1
    <3>7. CASE n # 1
      <4>1. n - 1 \in 1..L /\ n - 1 \in 0..L /\ n - 1 \notin T /\ n - 1 # 0
        BY <1>1, <3>2, <3>5, <3>7
      <4>2. h[n - 1] = f[n - 1]
        BY <4>1
      <4>. QED  BY <1>2, <2>4, <3>3, <3>5, <3>7, <4>2
    <3>. QED  BY <3>6, <3>7
  <2>6. k[L] = f[L] /\ k[L] = h[L]
    <3>1. L \in 0..L /\ L # 0
      BY <1>1, <1>4
    <3>2. k[L] = h[L]
      BY <3>1
    <3>3. L \in 0..L /\ L \notin T
      BY <2>5, <3>1
    <3>4. k[L] = f[L]
      <4>. HIDE DEF k
      <4>. QED  BY <3>3
    <3>. QED  BY <3>2, <3>4
  <2>. QED  BY <2>3, <2>6
<1>. QED  BY <1>3, <1>4

\* Flattening goes on from what was flattened.
LEMMA FlattenAppend ==
  ASSUME NEW S, NEW ts \in Seq(Seq(S)), NEW t \in Seq(S)
  PROVE  /\ FlattenSeq(ts) \in Seq(S)
         /\ FlattenSeq(Append(ts, t)) = FlattenSeq(ts) \o t
<1>. DEFINE more == Append(ts, t)
            L == Len(ts)
<1>1. /\ more \in Seq(Seq(S)) /\ Len(more) = L + 1 /\ L \in Nat
      /\ more[L + 1] = t /\ \A n \in 1..L : more[n] = ts[n]
  BY AppendProperties
<1>2. <<>> \in Seq(S)
  OBVIOUS
<1>. HIDE DEF more
<1>3. PICK f \in [0..(L + 1) -> Seq(S)] : Recurs(f, <<>>, Joins(more, S), L + 1)
  <2>1. L + 1 \in Nat
    BY <1>1
  <2>2. Joins(more, S) \in [Nat \X Seq(S) -> Seq(S)]
    BY <1>1, JoinsStep
  <2>. HIDE DEF L
  <2>. QED  BY <1>2, <2>1, <2>2, RecursionExists
<1>. DEFINE h == [n \in 0..L |-> f[n]]
<1>4. \A n \in 1..(L + 1) : f[n - 1] \in Seq(S) /\ f[n] = f[n - 1] \o more[n]
  <2>. SUFFICES ASSUME NEW n \in 1..(L + 1) PROVE f[n - 1] \in Seq(S) /\ f[n] = f[n - 1] \o more[n]
    OBVIOUS
  <2>1. f[n - 1] \in Seq(S)
    BY <1>1
  <2>2. f[n] = Joins(more, S)[<<n, f[n - 1]>>]
    BY <1>3 DEF Recurs
  <2>3. Joins(more, S)[<<n, f[n - 1]>>] = f[n - 1] \o more[n]
    <3>1. n \in 1..Len(more)
      BY <1>1
    <3>. QED  BY <1>1, <2>1, <3>1, JoinsStep
  <2>. QED  BY <2>1, <2>2, <2>3
<1>5. h \in [0..L -> Seq(S)]
  BY <1>1
<1>6. Recurs(h, <<>>, Joins(ts, S), L)
  <2>1. h[0] = <<>>
    BY <1>1, <1>3 DEF Recurs
  <2>2. ASSUME NEW n \in 1..L PROVE h[n] = Joins(ts, S)[<<n, h[n - 1]>>]
    <3>1. n \in 1..(L + 1) /\ n \in 0..L /\ n - 1 \in 0..L
      BY <1>1
    <3>2. h[n] = f[n] /\ h[n - 1] = f[n - 1]
      BY <3>1
    <3>3. f[n - 1] \in Seq(S) /\ f[n] = f[n - 1] \o ts[n]
      BY <1>1, <1>4, <3>1
    <3>4. Joins(ts, S)[<<n, f[n - 1]>>] = f[n - 1] \o ts[n]
      BY <3>3, JoinsStep
    <3>. HIDE DEF h
    <3>. QED  BY <3>2, <3>3, <3>4
  <2>. HIDE DEF h
  <2>. QED  BY <2>1, <2>2 DEF Recurs
<1>7. FlattenSeq(ts) = h[L] /\ h[L] = f[L]
  <2>1. h[L] = f[L]
    BY <1>1
  <2>. HIDE DEF h
  <2>. QED  BY <1>5, <1>6, <2>1, FlattenGiven
<1>8. FlattenSeq(more) = f[L + 1]
  <2>1. f \in [0..Len(more) -> Seq(S)] /\ Recurs(f, <<>>, Joins(more, S), Len(more))
    BY <1>1, <1>3
  <2>2. FlattenSeq(more) = f[Len(more)]
    BY <1>1, <2>1, FlattenGiven
  <2>. QED  BY <1>1, <2>2
<1>9. f[L + 1] = f[L] \o t
  <2>1. L + 1 \in 1..(L + 1) /\ (L + 1) - 1 = L
    BY <1>1
  <2>. QED  BY <1>1, <1>4, <2>1
<1>10. f[L] \in Seq(S)
  BY <1>1
<1>. QED  BY <1>7, <1>8, <1>9, <1>10 DEF more

LEMMA FunctionIsSeq ==
  ASSUME NEW S, NEW n \in Nat, NEW f \in [1..n -> S]
  PROVE  f \in Seq(S) /\ Len(f) = n /\ DOMAIN f = 1..n
<1>1. f \in Seq(S)
  BY SeqDef
<1>2. DOMAIN f = 1..n /\ DOMAIN f = 1..Len(f) /\ Len(f) \in Nat
  BY <1>1, LenProperties
<1>. QED  BY <1>1, <1>2

LEMMA SeqAsFunction ==
  ASSUME NEW S, NEW s \in Seq(S)
  PROVE  s = [i \in 1..Len(s) |-> s[i]]
BY LenProperties

\* A turn, and a collector, of the right shape: a turn in progress is its agent's own.
TurnSet == [agent : Speakers, text : Seq(Nat), usages : Nat, calls : SUBSET Nat]

Said1(item, a) == IF item.agent = a THEN item.text ELSE <<>>

LEMMA TextAppend ==
  ASSUME NEW turns \in Seq(TurnSet), NEW item \in TurnSet, NEW a \in Speakers
  PROVE  /\ TextOf(turns, a) \in Seq(Nat) /\ TextOf(<<>>, a) = <<>>
         /\ TextOf(Append(turns, item), a) = TextOf(turns, a) \o Said1(item, a)
<1>. DEFINE more == Append(turns, item)
            ts == [i \in DOMAIN turns |-> Said1(turns[i], a)]
            ms == [i \in DOMAIN more |-> Said1(more[i], a)]
<1>1. /\ Len(turns) \in Nat /\ DOMAIN turns = 1..Len(turns)
      /\ \A i \in 1..Len(turns) : turns[i] \in TurnSet
  BY LenProperties, ElementOfSeq
<1>2. /\ DOMAIN more = 1..(Len(turns) + 1) /\ more[Len(turns) + 1] = item
      /\ \A i \in 1..Len(turns) : more[i] = turns[i]
  <2>1. /\ more \in Seq(TurnSet) /\ Len(more) = Len(turns) + 1 /\ more[Len(turns) + 1] = item
        /\ \A i \in 1..Len(turns) : more[i] = turns[i]
    BY AppendProperties
  <2>. HIDE DEF more
  <2>. QED  BY <2>1, LenProperties
<1>3. \A x \in TurnSet : Said1(x, a) \in Seq(Nat)
  BY DEF Said1, TurnSet
<1>4. ts \in Seq(Seq(Nat)) /\ Len(ts) = Len(turns) /\ DOMAIN ts = 1..Len(turns)
  <2>1. ts \in [1..Len(turns) -> Seq(Nat)]
    BY <1>1, <1>3
  <2>. HIDE DEF ts
  <2>. QED  BY <1>1, <2>1, FunctionIsSeq
<1>5. Said1(item, a) \in Seq(Nat)
  BY <1>3
<1>. HIDE DEF more
<1>6. ms = Append(ts, Said1(item, a))
  <2>. DEFINE ns == Append(ts, Said1(item, a))
  <2>1. /\ ns \in Seq(Seq(Nat)) /\ Len(ns) = Len(turns) + 1
        /\ ns[Len(turns) + 1] = Said1(item, a) /\ \A i \in 1..Len(turns) : ns[i] = ts[i]
    <3>. HIDE DEF ts
    <3>. QED  BY <1>4, <1>5, AppendProperties
  <2>2. \A i \in 1..Len(turns) : ts[i] = Said1(turns[i], a)
    BY <1>1
  <2>3. \A i \in 1..(Len(turns) + 1) : ms[i] = Said1(more[i], a)
    BY <1>2
  <2>4. \A i \in 1..(Len(turns) + 1) : i \in 1..Len(turns) \/ i = Len(turns) + 1
    BY <1>1
  <2>5. ns = [i \in 1..(Len(turns) + 1) |-> ns[i]]
    <3>. HIDE DEF ns
    <3>. QED  BY <2>1, SeqAsFunction
  <2>6. ms = [i \in 1..(Len(turns) + 1) |-> ms[i]]
    BY <1>2
  <2>7. \A i \in 1..(Len(turns) + 1) : ms[i] = ns[i]
    <3>. HIDE DEF ms, ns, ts
    <3>. QED  BY <1>2, <2>1, <2>2, <2>3, <2>4
  <2>. HIDE DEF ms, ns
  <2>8. ms = ns
    BY <2>5, <2>6, <2>7
  <2>. QED  BY <2>8 DEF ns
<1>7. TextOf(turns, a) = FlattenSeq(ts) /\ TextOf(more, a) = FlattenSeq(ms)
  <2>1. TextOf(turns, a) = FlattenSeq(ts)
    BY DEF TextOf, Said1
  <2>2. TextOf(more, a) = FlattenSeq(ms)
    BY DEF TextOf, Said1
  <2>. QED  BY <2>1, <2>2
<1>8. FlattenSeq(ts) \in Seq(Nat) /\ FlattenSeq(ms) = FlattenSeq(ts) \o Said1(item, a)
  <2>. HIDE DEF ts, ms
  <2>. QED  BY <1>4, <1>5, <1>6, FlattenAppend
<1>9. TextOf(<<>>, a) = <<>>
  <2>. DEFINE none == [i \in DOMAIN <<>> |-> IF <<>>[i].agent = a THEN <<>>[i].text ELSE <<>>]
  <2>1. none = <<>>
    OBVIOUS
  <2>2. FlattenSeq(<<>>) = <<>>
    BY EmptySeq DEF FlattenSeq
  <2>3. TextOf(<<>>, a) = FlattenSeq(none)
    BY DEF TextOf
  <2>. HIDE DEF none
  <2>. QED  BY <2>1, <2>2, <2>3
<1>. QED  BY <1>7, <1>8, <1>9 DEF more

\* How the usages of turns are added up.
Adds(turns) ==
  [p \in Nat \X Nat |-> IF p[1] \in 1..Len(turns) THEN p[2] + turns[p[1]].usages ELSE p[2]]

LEMMA AddsStep ==
  ASSUME NEW turns \in Seq(TurnSet)
  PROVE  /\ Adds(turns) \in [Nat \X Nat -> Nat]
         /\ \A n \in 1..Len(turns), x \in Nat : Adds(turns)[<<n, x>>] = x + turns[n].usages
<1>1. \A n \in 1..Len(turns) : turns[n].usages \in Nat
  <2>1. \A n \in 1..Len(turns) : turns[n] \in TurnSet
    BY ElementOfSeq
  <2>. QED  BY <2>1 DEF TurnSet
<1>2. Len(turns) \in Nat
  OBVIOUS
<1>3. ASSUME NEW p \in Nat \X Nat
      PROVE  (IF p[1] \in 1..Len(turns) THEN p[2] + turns[p[1]].usages ELSE p[2]) \in Nat
  <2>1. p[2] \in Nat
    OBVIOUS
  <2>2. CASE p[1] \in 1..Len(turns)
    <3>1. turns[p[1]].usages \in Nat
      BY <1>1, <2>2
    <3>. QED  BY <2>1, <2>2, <3>1
  <2>. QED  BY <2>1, <2>2
<1>4. ASSUME NEW n \in 1..Len(turns), NEW x \in Nat PROVE Adds(turns)[<<n, x>>] = x + turns[n].usages
  <2>. DEFINE p == <<n, x>>
  <2>1. p \in Nat \X Nat /\ p[1] = n /\ p[2] = x
    BY <1>2
  <2>. HIDE DEF p
  <2>2. Adds(turns)[p] = x + turns[n].usages
    BY <2>1 DEF Adds
  <2>. QED  BY <2>2 DEF p
<1>. QED  BY <1>3, <1>4 DEF Adds

\* Usages is what its recursion says.
LEMMA UsagesGiven ==
  ASSUME NEW turns \in Seq(TurnSet), NEW f \in [0..Len(turns) -> Nat], Recurs(f, 0, Adds(turns), Len(turns))
  PROVE  Usages(turns) = f[Len(turns)]
<1>. DEFINE L == Len(turns)
            rhs(h) == [n \in 0..L |-> IF n = 0 THEN 0 ELSE h[n - 1] + turns[n].usages]
<1>1. L \in Nat
  OBVIOUS
<1>2. \A n \in 1..L : f[n] = f[n - 1] + turns[n].usages
  <2>. SUFFICES ASSUME NEW n \in 1..L PROVE f[n] = f[n - 1] + turns[n].usages
    OBVIOUS
  <2>1. f[n - 1] \in Nat
    <3>1. n - 1 \in 0..L
      <4>. HIDE DEF L
      <4>. QED  BY <1>1
    <3>. QED  BY <3>1
  <2>2. f[n] = Adds(turns)[<<n, f[n - 1]>>]
    BY DEF Recurs
  <2>. QED  BY <2>1, <2>2, AddsStep
<1>3. f = rhs(f)
  <2>1. f[0] = 0
    BY DEF Recurs
  <2>2. \A n \in 0..L : f[n] = IF n = 0 THEN 0 ELSE f[n - 1] + turns[n].usages
    <3>1. \A n \in 0..L : n = 0 \/ n \in 1..L
      <4>. HIDE DEF L
      <4>. QED  BY <1>1
    <3>. QED  BY <1>2, <2>1, <3>1
  <2>3. f = [n \in 0..L |-> f[n]]
    OBVIOUS
  <2>. QED  BY <2>2, <2>3
<1>. DEFINE h == CHOOSE h : h = rhs(h)
<1>4. h = rhs(h)
  BY <1>3
<1>5. Usages(turns) = h[L]
  BY DEF Usages
<1>. HIDE DEF h
<1>6. \A n \in 0..L : h[n] = IF n = 0 THEN 0 ELSE h[n - 1] + turns[n].usages
  BY <1>4
<1>. DEFINE T == {n \in 0..L : h[n] # f[n]}
<1>7. T = {}
  <2>1. SUFFICES ASSUME T # {} PROVE FALSE
    OBVIOUS
  <2>2. PICK n \in T : \A j \in T : n <= j
    <3>1. T \in SUBSET Nat
      OBVIOUS
    <3>. HIDE DEF T
    <3>. QED  BY <2>1, <3>1, LeastNumber
  <2>3. n \in 0..L /\ h[n] # f[n]
    OBVIOUS
  <2>4. n # 0
    BY <1>6, <2>3 DEF Recurs
  <2>5. n \in 1..L /\ n - 1 \in 0..L /\ n - 1 \notin T
    <3>. HIDE DEF L
    <3>. QED  BY <1>1, <2>2, <2>3, <2>4
  <2>6. h[n - 1] = f[n - 1]
    BY <2>5
  <2>. QED  BY <1>2, <1>6, <2>3, <2>4, <2>5, <2>6
<1>8. h[L] = f[L]
  <2>1. L \in 0..L
    <3>. HIDE DEF L
    <3>. QED  BY <1>1
  <2>. QED  BY <1>7, <2>1
<1>. QED  BY <1>5, <1>8

LEMMA UsagesAppend ==
  ASSUME NEW turns \in Seq(TurnSet), NEW item \in TurnSet
  PROVE  /\ Usages(turns) \in Nat /\ Usages(<<>>) = 0
         /\ Usages(Append(turns, item)) = Usages(turns) + item.usages
<1>. DEFINE more == Append(turns, item)
            L == Len(turns)
<1>1. /\ more \in Seq(TurnSet) /\ Len(more) = L + 1 /\ L \in Nat
      /\ more[L + 1] = item /\ \A n \in 1..L : more[n] = turns[n]
  BY AppendProperties
<1>. HIDE DEF more
<1>2. PICK f \in [0..(L + 1) -> Nat] : Recurs(f, 0, Adds(more), L + 1)
  <2>1. L + 1 \in Nat
    BY <1>1
  <2>2. Adds(more) \in [Nat \X Nat -> Nat]
    BY <1>1, AddsStep
  <2>. HIDE DEF L
  <2>. QED  BY <2>1, <2>2, RecursionExists
<1>. DEFINE h == [n \in 0..L |-> f[n]]
<1>3. \A n \in 1..(L + 1) : f[n - 1] \in Nat /\ f[n] = f[n - 1] + more[n].usages
  <2>. SUFFICES ASSUME NEW n \in 1..(L + 1) PROVE f[n - 1] \in Nat /\ f[n] = f[n - 1] + more[n].usages
    OBVIOUS
  <2>1. f[n - 1] \in Nat
    BY <1>1
  <2>2. f[n] = Adds(more)[<<n, f[n - 1]>>]
    BY <1>2 DEF Recurs
  <2>3. Adds(more)[<<n, f[n - 1]>>] = f[n - 1] + more[n].usages
    <3>1. n \in 1..Len(more)
      BY <1>1
    <3>. QED  BY <1>1, <2>1, <3>1, AddsStep
  <2>. QED  BY <2>1, <2>2, <2>3
<1>4. h \in [0..L -> Nat]
  BY <1>1
<1>5. Recurs(h, 0, Adds(turns), L)
  <2>1. h[0] = 0
    BY <1>1, <1>2 DEF Recurs
  <2>2. ASSUME NEW n \in 1..L PROVE h[n] = Adds(turns)[<<n, h[n - 1]>>]
    <3>1. n \in 1..(L + 1) /\ n \in 0..L /\ n - 1 \in 0..L
      BY <1>1
    <3>2. h[n] = f[n] /\ h[n - 1] = f[n - 1]
      BY <3>1
    <3>3. f[n - 1] \in Nat /\ f[n] = f[n - 1] + turns[n].usages
      BY <1>1, <1>3, <3>1
    <3>4. Adds(turns)[<<n, f[n - 1]>>] = f[n - 1] + turns[n].usages
      BY <3>3, AddsStep
    <3>. HIDE DEF h
    <3>. QED  BY <3>2, <3>3, <3>4
  <2>. HIDE DEF h
  <2>. QED  BY <2>1, <2>2 DEF Recurs
<1>6. Usages(turns) = h[L] /\ h[L] = f[L]
  <2>1. h[L] = f[L]
    BY <1>1
  <2>. HIDE DEF h
  <2>. QED  BY <1>4, <1>5, <2>1, UsagesGiven
<1>7. Usages(more) = f[L + 1]
  <2>1. f \in [0..Len(more) -> Nat] /\ Recurs(f, 0, Adds(more), Len(more))
    BY <1>1, <1>2
  <2>2. Usages(more) = f[Len(more)]
    BY <1>1, <2>1, UsagesGiven
  <2>. QED  BY <1>1, <2>2
<1>8. f[L + 1] = f[L] + item.usages /\ f[L] \in Nat
  <2>1. L + 1 \in 1..(L + 1) /\ (L + 1) - 1 = L
    BY <1>1
  <2>. QED  BY <1>1, <1>3, <2>1
<1>9. Usages(<<>>) = 0
  <2>1. <<>> \in Seq(TurnSet) /\ Len(<<>>) = 0
    OBVIOUS
  <2>. DEFINE none == [n \in 0..0 |-> 0]
  <2>2. none \in [0..0 -> Nat] /\ Recurs(none, 0, Adds(<<>>), 0) /\ none[0] = 0
    BY DEF Recurs
  <2>. HIDE DEF none
  <2>. QED  BY <2>1, <2>2, UsagesGiven
<1>. QED  BY <1>6, <1>7, <1>8, <1>9 DEF more

\* The calls of turns, and that each is in one turn.
CallsIn(turns) == UNION {turns[i].calls : i \in DOMAIN turns}
CallsApart(turns) == \A i, j \in DOMAIN turns : i # j => turns[i].calls \cap turns[j].calls = {}

LEMMA CallsAppend ==
  ASSUME NEW turns \in Seq(TurnSet), NEW item \in TurnSet
  PROVE  /\ CallsIn(Append(turns, item)) = CallsIn(turns) \cup item.calls
         /\ CallsApart(Append(turns, item)) <=> CallsApart(turns) /\ CallsIn(turns) \cap item.calls = {}
<1>. DEFINE more == Append(turns, item)
            L == Len(turns)
<1>1. L \in Nat /\ DOMAIN turns = 1..L /\ DOMAIN more = 1..(L + 1)
      /\ more[L + 1] = item /\ \A n \in 1..L : more[n] = turns[n]
  <2>1. /\ more \in Seq(TurnSet) /\ Len(more) = L + 1 /\ L \in Nat
        /\ more[L + 1] = item /\ \A n \in 1..L : more[n] = turns[n]
    BY AppendProperties
  <2>. HIDE DEF more
  <2>. QED  BY <2>1, LenProperties
<1>. HIDE DEF more, L
<1>2. \A n \in 1..(L + 1) : n \in 1..L \/ n = L + 1
  BY <1>1
<1>2a. L + 1 \notin 1..L /\ L + 1 \in 1..(L + 1) /\ \A n \in 1..L : n \in 1..(L + 1) /\ n # L + 1
  BY <1>1
<1>3. ASSUME NEW c PROVE c \in CallsIn(more) <=> c \in CallsIn(turns) \/ c \in item.calls
  <2>1. c \in CallsIn(more) <=> \E n \in 1..(L + 1) : c \in more[n].calls
    BY <1>1 DEF CallsIn
  <2>2. c \in CallsIn(turns) <=> \E n \in 1..L : c \in turns[n].calls
    BY <1>1 DEF CallsIn
  <2>. QED  BY <1>1, <1>2, <1>2a, <2>1, <2>2
<1>4. CallsApart(more) => CallsApart(turns) /\ CallsIn(turns) \cap item.calls = {}
  <2>. SUFFICES ASSUME CallsApart(more) PROVE CallsApart(turns) /\ CallsIn(turns) \cap item.calls = {}
    OBVIOUS
  <2>1. \A i, j \in 1..(L + 1) : i # j => more[i].calls \cap more[j].calls = {}
    BY <1>1 DEF CallsApart
  <2>2. \A i, j \in 1..L : i # j => turns[i].calls \cap turns[j].calls = {}
    BY <1>1, <1>2a, <2>1
  <2>3. \A i \in 1..L : turns[i].calls \cap item.calls = {}
    BY <1>1, <1>2a, <2>1
  <2>. QED  BY <1>1, <2>2, <2>3 DEF CallsApart, CallsIn
<1>5. CallsApart(turns) /\ CallsIn(turns) \cap item.calls = {} => CallsApart(more)
  <2>. SUFFICES ASSUME CallsApart(turns), CallsIn(turns) \cap item.calls = {},
                       NEW i \in 1..(L + 1), NEW j \in 1..(L + 1), i # j
                PROVE  more[i].calls \cap more[j].calls = {}
    BY <1>1 DEF CallsApart
  <2>1. \A k \in 1..L : turns[k].calls \cap item.calls = {}
    BY <1>1 DEF CallsIn
  <2>2. CASE i \in 1..L /\ j \in 1..L
    BY <1>1, <2>2 DEF CallsApart
  <2>3. CASE i = L + 1 /\ j \in 1..L
    BY <1>1, <2>1, <2>3
  <2>4. CASE i \in 1..L /\ j = L + 1
    BY <1>1, <2>1, <2>4
  <2>. QED  BY <1>2, <2>2, <2>3, <2>4
<1>6. CallsIn(more) = CallsIn(turns) \cup item.calls
  BY <1>3
<1>. QED  BY <1>4, <1>5, <1>6 DEF more

LEMMA HasCallsIs ==
  ASSUME NEW turns, NEW said
  PROVE  HasCalls(turns, said) <=> CallsIn(turns) = said.ended /\ CallsApart(turns)
BY DEF HasCalls, CallsIn, CallsApart

\* A collector of the right shape: a turn in progress is its agent's own.
Collector ==
  [events : Seq(TurnSet), currentTurn : [Speakers -> Seq(TurnSet)], pendingTools : SUBSET (Nat \X Speakers),
   subs : Seq(Seq(TurnSet))]
InProgress(tc, a) == tc.currentTurn[a] # <<>>
CollectorOK(tc) ==
  /\ tc \in Collector
  /\ \A a \in Speakers : InProgress(tc, a) =>
       \E item \in TurnSet : item.agent = a /\ tc.currentTurn[a] = <<item>>
ToldSet == [text : [Speakers -> Seq(Nat)], ended : SUBSET Nat, asked : SUBSET Nat]

\* The collector holds what it was told.
Holds(tc, said) ==
  /\ CollectorOK(tc) /\ said \in ToldSet
  /\ HasText(BuildTrace(tc), said) /\ HasCalls(BuildTrace(tc), said)

\* Of the n calls so far, those of agent a that are open and whose start was heard are pending
\* and not ended, and their turn is in progress.
OpenIn(calls, a) == {p[1] : p \in {q \in calls : q[2] = a}}
CallsFit(tc, said, a, open, n) ==
  /\ said.ended \subseteq said.asked /\ said.asked \subseteq 1..n
  /\ \A p \in tc.pendingTools : p[2] = a /\ p[1] \in said.asked
  /\ \A c \in open \cap said.asked : <<c, a>> \in tc.pendingTools /\ c \notin said.ended
Waits(tc, said, a, open) == open \cap said.asked # {} => InProgress(tc, a)
Fits(tc, said, a, open, n) == Holds(tc, said) /\ CallsFit(tc, said, a, open, n) /\ Waits(tc, said, a, open)

AppFits(ac, said, open, n) == ac = <<>> \/ \E tc \in Collector : ac = <<tc>> /\ Fits(tc, said, Main, open, n)
FileFits(ac, said, f, late) ==
  ac # <<>> /\ ~late => f \in Seq(TurnSet) /\ HasCalls(f, said) /\ Usages(f) = Usages(BuildTrace(ac[1]))
OwnFits(oc, said, state, open, n) ==
  IF state = "none" THEN oc = <<>> /\ said = NothingHeard
  ELSE \E tc \in Collector : oc = <<tc>> /\ Fits(tc, said, Sub, open, n)
SubsFit(ac, said, state) ==
  \A i \in DOMAIN ac : \A j \in DOMAIN ac[i].subs :
    state = "done" /\ HasText(ac[i].subs[j], said) /\ HasCalls(ac[i].subs[j], said)

RunsOK ==
  /\ count \in [{"text", "calls", "asks", "answers", "traces"} -> Nat] /\ count.calls <= MaxCalls
  /\ running \subseteq (1..count.calls) \X Speakers
  /\ \A p, q \in running : p[1] = q[1] => p = q
  /\ phase = "asked" => OpenIn(running, Main) = {}
  /\ sub \in {"none", "done"} => OpenIn(running, Sub) = {}
KindsOK ==
  /\ {traceUsageSeen, ownSeen, behind} \subseteq BOOLEAN
  /\ phase \in {"idle", "asked", "answered"} /\ sub \in {"none", "runs", "fallback", "done"}
  /\ heard \in [app : ToldSet, own : ToldSet]

TraceIndInv ==
  /\ RunsOK /\ KindsOK
  /\ AppFits(app, heard.app, OpenIn(running, Main), count.calls)
  /\ FileFits(app, heard.app, file, behind)
  /\ OwnFits(own, heard.own, sub, OpenIn(running, Sub), count.calls)
  /\ SubsFit(app, heard.own, sub)

\* At most one turn, which is put at the end of others.
One(cur) == cur = <<>> \/ \E item \in TurnSet : cur = <<item>>
CurText(cur, a) == IF cur = <<>> THEN <<>> ELSE Said1(cur[1], a)
CurCalls(cur) == IF cur = <<>> THEN {} ELSE cur[1].calls
CurUsages(cur) == IF cur = <<>> THEN 0 ELSE cur[1].usages

LEMMA CurKind ==
  ASSUME NEW cur, One(cur)
  PROVE  /\ cur \in Seq(TurnSet) /\ CurCalls(cur) \in SUBSET Nat /\ CurUsages(cur) \in Nat
         /\ \A a \in Speakers : CurText(cur, a) \in Seq(Nat)
         /\ cur # <<>> => cur[1] \in TurnSet /\ cur = <<cur[1]>>
<1>1. CASE cur = <<>>
  BY <1>1 DEF CurText, CurCalls, CurUsages
<1>2. CASE \E item \in TurnSet : cur = <<item>>
  <2>1. PICK item \in TurnSet : cur = <<item>>
    BY <1>2
  <2>2. cur # <<>> /\ cur[1] = item /\ cur \in Seq(TurnSet)
    BY <2>1
  <2>3. item.calls \in SUBSET Nat /\ item.usages \in Nat /\ \A a \in Speakers : Said1(item, a) \in Seq(Nat)
    BY DEF TurnSet, Said1
  <2>. QED  BY <2>1, <2>2, <2>3 DEF CurText, CurCalls, CurUsages
<1>. QED  BY <1>1, <1>2 DEF One

LEMMA OneMore ==
  ASSUME NEW turns \in Seq(TurnSet), NEW cur, One(cur)
  PROVE  /\ turns \o cur \in Seq(TurnSet)
         /\ \A a \in Speakers : TextOf(turns \o cur, a) = TextOf(turns, a) \o CurText(cur, a)
         /\ CallsIn(turns \o cur) = CallsIn(turns) \cup CurCalls(cur)
         /\ CallsApart(turns \o cur) <=> CallsApart(turns) /\ CallsIn(turns) \cap CurCalls(cur) = {}
         /\ Usages(turns \o cur) = Usages(turns) + CurUsages(cur)
<1>1. CASE cur = <<>>
  <2>1. turns \o cur = turns
    BY <1>1, ConcatEmptySeq
  <2>2. CurCalls(cur) = {} /\ CurUsages(cur) = 0 /\ \A a \in Speakers : CurText(cur, a) = <<>>
    BY <1>1 DEF CurText, CurCalls, CurUsages
  <2>3. PICK item : item \in TurnSet
    <3>1. [agent |-> Main, text |-> <<>>, usages |-> 0, calls |-> {}] \in TurnSet
      BY DEF TurnSet, Speakers
    <3>. QED  BY <3>1
  <2>4. \A a \in Speakers : TextOf(turns, a) \in Seq(Nat)
    BY <2>3, TextAppend
  <2>5. \A a \in Speakers : TextOf(turns, a) \o CurText(cur, a) = TextOf(turns, a)
    BY <2>2, <2>4, ConcatEmptySeq
  <2>6. Usages(turns) \in Nat
    BY <2>3, UsagesAppend
  <2>7. Usages(turns) + CurUsages(cur) = Usages(turns)
    BY <2>2, <2>6
  <2>. QED  BY <2>1, <2>2, <2>5, <2>7
<1>2. CASE \E item \in TurnSet : cur = <<item>>
  <2>1. PICK item \in TurnSet : cur = <<item>>
    BY <1>2
  <2>2. cur # <<>> /\ cur[1] = item
    BY <2>1
  <2>3. turns \o cur = Append(turns, item) /\ Append(turns, item) \in Seq(TurnSet)
    BY <2>1
  <2>4. CurCalls(cur) = item.calls /\ CurUsages(cur) = item.usages /\ \A a \in Speakers : CurText(cur, a) = Said1(item, a)
    BY <2>2 DEF CurText, CurCalls, CurUsages
  <2>5. \A a \in Speakers : TextOf(Append(turns, item), a) = TextOf(turns, a) \o Said1(item, a)
    BY TextAppend
  <2>6. Usages(Append(turns, item)) = Usages(turns) + item.usages
    BY UsagesAppend
  <2>. QED  BY <2>3, <2>4, <2>5, <2>6, CallsAppend
<1>. QED  BY <1>1, <1>2 DEF One

\* What a snapshot shows: what is finished, and the two turns that may be in progress.
LEMMA Snapshot ==
  ASSUME NEW tc, CollectorOK(tc)
  PROVE  /\ One(tc.currentTurn[Main]) /\ One(tc.currentTurn[Sub]) /\ BuildTrace(tc) \in Seq(TurnSet)
         /\ \A a \in Speakers : TextOf(BuildTrace(tc), a) = TextOf(tc.events, a) \o CurText(tc.currentTurn[a], a)
         /\ CallsIn(BuildTrace(tc)) = CallsIn(tc.events) \cup CurCalls(tc.currentTurn[Main]) \cup CurCalls(tc.currentTurn[Sub])
         /\ CallsApart(BuildTrace(tc)) <=>
              /\ CallsApart(tc.events)
              /\ CallsIn(tc.events) \cap CurCalls(tc.currentTurn[Main]) = {}
              /\ CallsIn(tc.events) \cap CurCalls(tc.currentTurn[Sub]) = {}
              /\ CurCalls(tc.currentTurn[Main]) \cap CurCalls(tc.currentTurn[Sub]) = {}
         /\ Usages(BuildTrace(tc)) = Usages(tc.events) + CurUsages(tc.currentTurn[Main]) + CurUsages(tc.currentTurn[Sub])
<1>. DEFINE E == tc.events
            M == tc.currentTurn[Main]
            S == tc.currentTurn[Sub]
<1>1. E \in Seq(TurnSet) /\ Main \in Speakers /\ Sub \in Speakers /\ Main # Sub
  BY DEF CollectorOK, Collector, Speakers, Main, Sub
<1>2. One(M) /\ One(S)
  BY <1>1 DEF CollectorOK, InProgress, One
<1>3. \A a \in Speakers : a # Main => CurText(M, a) = <<>>
  BY <1>1 DEF CollectorOK, InProgress, CurText, Said1
<1>4. \A a \in Speakers : a # Sub => CurText(S, a) = <<>>
  BY <1>1 DEF CollectorOK, InProgress, CurText, Said1
<1>5. BuildTrace(tc) = (E \o M) \o S
  BY DEF BuildTrace
<1>. HIDE DEF E, M, S
<1>6. E \o M \in Seq(TurnSet)
  BY <1>1, <1>2, OneMore
<1>7. (E \o M) \o S \in Seq(TurnSet)
  BY <1>2, <1>6, OneMore
<1>8. ASSUME NEW a \in Speakers
      PROVE  TextOf((E \o M) \o S, a) = TextOf(E, a) \o CurText(IF a = Main THEN M ELSE S, a)
  <2>1. TextOf((E \o M) \o S, a) = (TextOf(E, a) \o CurText(M, a)) \o CurText(S, a)
    <3>1. TextOf((E \o M) \o S, a) = TextOf(E \o M, a) \o CurText(S, a)
      BY <1>2, <1>6, OneMore
    <3>2. TextOf(E \o M, a) = TextOf(E, a) \o CurText(M, a)
      BY <1>1, <1>2, OneMore
    <3>. QED  BY <3>1, <3>2
  <2>2. TextOf(E, a) \in Seq(Nat) /\ CurText(M, a) \in Seq(Nat) /\ CurText(S, a) \in Seq(Nat)
    <3>1. [agent |-> Main, text |-> <<>>, usages |-> 0, calls |-> {}] \in TurnSet
      BY <1>1 DEF TurnSet
    <3>2. TextOf(E, a) \in Seq(Nat)
      BY <1>1, <3>1, TextAppend
    <3>. QED  BY <3>2, <1>2, CurKind
  <2>3. CASE a = Main
    <3>1. CurText(S, a) = <<>>
      BY <1>1, <1>4, <2>3
    <3>2. TextOf(E, a) \o CurText(M, a) \in Seq(Nat)
      BY <2>2
    <3>. QED  BY <2>1, <2>3, <3>1, <3>2, ConcatEmptySeq
  <2>4. CASE a # Main
    <3>1. CurText(M, a) = <<>>
      BY <1>3, <2>4
    <3>. QED  BY <2>1, <2>2, <2>4, <3>1, ConcatEmptySeq
  <2>. QED  BY <2>3, <2>4
<1>8a. ASSUME NEW a \in Speakers
       PROVE  tc.currentTurn[a] = IF a = Main THEN M ELSE S
  BY DEF Speakers, M, S
<1>9. /\ CallsIn(E \o M) = CallsIn(E) \cup CurCalls(M)
      /\ CallsApart(E \o M) <=> CallsApart(E) /\ CallsIn(E) \cap CurCalls(M) = {}
      /\ Usages(E \o M) = Usages(E) + CurUsages(M)
  BY <1>1, <1>2, OneMore
<1>10. /\ CallsIn((E \o M) \o S) = CallsIn(E \o M) \cup CurCalls(S)
       /\ CallsApart((E \o M) \o S) <=> CallsApart(E \o M) /\ CallsIn(E \o M) \cap CurCalls(S) = {}
       /\ Usages((E \o M) \o S) = Usages(E \o M) + CurUsages(S)
  BY <1>2, <1>6, OneMore
<1>11. CallsApart((E \o M) \o S) <=>
              /\ CallsApart(E)
              /\ CallsIn(E) \cap CurCalls(M) = {}
              /\ CallsIn(E) \cap CurCalls(S) = {}
              /\ CurCalls(M) \cap CurCalls(S) = {}
  <2>1. CallsIn(E \o M) \cap CurCalls(S) = {} <=> CallsIn(E) \cap CurCalls(S) = {} /\ CurCalls(M) \cap CurCalls(S) = {}
    BY <1>9
  <2>. QED  BY <2>1, <1>9, <1>10
<1>12. \A a \in Speakers : TextOf(BuildTrace(tc), a) = TextOf(E, a) \o CurText(tc.currentTurn[a], a)
  BY <1>5, <1>8, <1>8a
<1>13. Usages(BuildTrace(tc)) = Usages(E) + CurUsages(M) + CurUsages(S)
  BY <1>5, <1>9, <1>10
<1>14. CallsIn(BuildTrace(tc)) = CallsIn(E) \cup CurCalls(M) \cup CurCalls(S)
  BY <1>5, <1>9, <1>10
<1>15. BuildTrace(tc) \in Seq(TurnSet)
  BY <1>5, <1>7
<1>. QED  BY <1>2, <1>5, <1>11, <1>12, <1>13, <1>14, <1>15 DEF E, M, S

\* What two collectors show is the same.
SameText(tc, uc) == \A a \in Speakers : TextOf(BuildTrace(uc), a) = TextOf(BuildTrace(tc), a)
SameCalls(tc, uc) ==
  /\ CallsIn(BuildTrace(uc)) = CallsIn(BuildTrace(tc))
  /\ CallsApart(BuildTrace(uc)) <=> CallsApart(BuildTrace(tc))
SameUsages(tc, uc) == Usages(BuildTrace(uc)) = Usages(BuildTrace(tc))
SameOther(tc, uc, a) ==
  /\ uc.events = tc.events
  /\ \A b \in Speakers : b # a => uc.currentTurn[b] = tc.currentTurn[b]

LEMMA EventsShow ==
  ASSUME NEW tc, CollectorOK(tc)
  PROVE  /\ tc.events \in Seq(TurnSet) /\ Usages(tc.events) \in Nat
         /\ \A a \in Speakers : TextOf(tc.events, a) \in Seq(Nat)
<1>1. tc.events \in Seq(TurnSet)
  BY DEF CollectorOK, Collector
<1>2. [agent |-> Main, text |-> <<>>, usages |-> 0, calls |-> {}] \in TurnSet
  BY DEF TurnSet, Speakers
<1>. QED  BY <1>1, <1>2, TextAppend, UsagesAppend

LEMMA TwoSpeakers ==
  ASSUME NEW a \in Speakers, NEW tc, CollectorOK(tc)
  PROVE  /\ Main \in Speakers /\ Sub \in Speakers /\ Main # Sub
         /\ \A b \in Speakers : One(tc.currentTurn[b]) /\ \A d \in Speakers : d # b => CurText(tc.currentTurn[b], d) = <<>>
<1>1. Main \in Speakers /\ Sub \in Speakers /\ Main # Sub
  BY DEF Speakers, Main, Sub
<1>2. \A b \in Speakers : One(tc.currentTurn[b])
  BY DEF CollectorOK, InProgress, One
<1>3. \A b \in Speakers : \A d \in Speakers : d # b => CurText(tc.currentTurn[b], d) = <<>>
  BY DEF CollectorOK, InProgress, CurText, Said1
<1>. QED  BY <1>1, <1>2, <1>3

LEMMA Changed ==
  ASSUME NEW tc, NEW uc, NEW a \in Speakers, CollectorOK(tc), CollectorOK(uc), SameOther(tc, uc, a)
  PROVE  /\ \A b \in Speakers : b # a => TextOf(BuildTrace(uc), b) = TextOf(BuildTrace(tc), b)
         /\ CurText(uc.currentTurn[a], a) = CurText(tc.currentTurn[a], a) => SameText(tc, uc)
         /\ CurCalls(uc.currentTurn[a]) = CurCalls(tc.currentTurn[a]) => SameCalls(tc, uc)
         /\ CurUsages(uc.currentTurn[a]) = CurUsages(tc.currentTurn[a]) => SameUsages(tc, uc)
<1>1. \A b \in Speakers : b # a => TextOf(BuildTrace(uc), b) = TextOf(BuildTrace(tc), b)
  BY Snapshot DEF SameOther
<1>2. CurText(uc.currentTurn[a], a) = CurText(tc.currentTurn[a], a) => SameText(tc, uc)
  BY <1>1, Snapshot DEF SameOther, SameText
<1>3. a = Main \/ a = Sub
  BY DEF Speakers
<1>4. CurCalls(uc.currentTurn[a]) = CurCalls(tc.currentTurn[a]) => SameCalls(tc, uc)
  <2>. SUFFICES ASSUME CurCalls(uc.currentTurn[a]) = CurCalls(tc.currentTurn[a]) PROVE SameCalls(tc, uc)
    OBVIOUS
  <2>1. uc.events = tc.events /\ \A b \in {Main, Sub} : CurCalls(uc.currentTurn[b]) = CurCalls(tc.currentTurn[b])
    BY TwoSpeakers DEF SameOther
  <2>2. CallsIn(BuildTrace(uc)) = CallsIn(BuildTrace(tc))
    BY <2>1, Snapshot
  <2>3. CallsApart(BuildTrace(uc)) <=> CallsApart(BuildTrace(tc))
    BY <2>1, Snapshot
  <2>. QED  BY <2>2, <2>3 DEF SameCalls
<1>5. CurUsages(uc.currentTurn[a]) = CurUsages(tc.currentTurn[a]) => SameUsages(tc, uc)
  <2>. SUFFICES ASSUME CurUsages(uc.currentTurn[a]) = CurUsages(tc.currentTurn[a]) PROVE SameUsages(tc, uc)
    OBVIOUS
  <2>1. uc.events = tc.events /\ \A b \in {Main, Sub} : CurUsages(uc.currentTurn[b]) = CurUsages(tc.currentTurn[b])
    BY TwoSpeakers DEF SameOther
  <2>. QED  BY <2>1, Snapshot DEF SameUsages
<1>. QED  BY <1>1, <1>2, <1>4, <1>5

LEMMA TextGrows ==
  ASSUME NEW tc, NEW uc, NEW a \in Speakers, CollectorOK(tc), CollectorOK(uc), SameOther(tc, uc, a),
         NEW piece \in Nat, CurText(uc.currentTurn[a], a) = Append(CurText(tc.currentTurn[a], a), piece)
  PROVE  TextOf(BuildTrace(uc), a) = Append(TextOf(BuildTrace(tc), a), piece)
<1>1. TextOf(BuildTrace(uc), a) = TextOf(tc.events, a) \o Append(CurText(tc.currentTurn[a], a), piece)
  BY Snapshot DEF SameOther
<1>2. TextOf(BuildTrace(tc), a) = TextOf(tc.events, a) \o CurText(tc.currentTurn[a], a)
  BY Snapshot
<1>3. CurText(tc.currentTurn[a], a) \in Seq(Nat) /\ TextOf(tc.events, a) \in Seq(Nat)
  BY TwoSpeakers, CurKind, EventsShow
<1>4. \A s, t \in Seq(Nat) : s \o Append(t, piece) = Append(s \o t, piece)
  <2>. SUFFICES ASSUME NEW s \in Seq(Nat), NEW t \in Seq(Nat) PROVE s \o Append(t, piece) = Append(s \o t, piece)
    OBVIOUS
  <2>1. Append(t, piece) = t \o <<piece>> /\ Append(s \o t, piece) = (s \o t) \o <<piece>> /\ <<piece>> \in Seq(Nat)
    OBVIOUS
  <2>. QED  BY <2>1, ConcatAssociative
<1>. QED  BY <1>1, <1>2, <1>3, <1>4

LEMMA CallsGrow ==
  ASSUME NEW tc, NEW uc, NEW a \in Speakers, CollectorOK(tc), CollectorOK(uc), SameOther(tc, uc, a),
         NEW c, CurCalls(uc.currentTurn[a]) = CurCalls(tc.currentTurn[a]) \cup {c},
         CallsApart(BuildTrace(tc)), c \notin CallsIn(BuildTrace(tc))
  PROVE  CallsIn(BuildTrace(uc)) = CallsIn(BuildTrace(tc)) \cup {c} /\ CallsApart(BuildTrace(uc))
<1>. DEFINE E == CallsIn(tc.events)
            M == CurCalls(tc.currentTurn[Main])
            S == CurCalls(tc.currentTurn[Sub])
            N == CurCalls(uc.currentTurn[Main])
            R == CurCalls(uc.currentTurn[Sub])
<1>1. CallsIn(BuildTrace(tc)) = E \cup M \cup S /\ E \cap M = {} /\ E \cap S = {} /\ M \cap S = {}
  BY Snapshot
<1>2. CallsIn(BuildTrace(uc)) = E \cup N \cup R
  BY Snapshot DEF SameOther
<1>3. E \cap N = {} /\ E \cap R = {} /\ N \cap R = {} => CallsApart(BuildTrace(uc))
  BY Snapshot DEF SameOther
<1>4. \/ N = M \cup {c} /\ R = S
      \/ N = M /\ R = S \cup {c}
  BY TwoSpeakers DEF SameOther, Speakers
<1>. HIDE DEF E, M, S, N, R
<1>5. c \notin E /\ c \notin M /\ c \notin S
  BY <1>1
<1>6. E \cap N = {} /\ E \cap R = {} /\ N \cap R = {} /\ E \cup N \cup R = (E \cup M \cup S) \cup {c}
  <2>1. CASE N = M \cup {c} /\ R = S
    BY <1>1, <1>5, <2>1
  <2>2. CASE N = M /\ R = S \cup {c}
    BY <1>1, <1>5, <2>2
  <2>. QED  BY <1>4, <2>1, <2>2
<1>. QED  BY <1>1, <1>2, <1>3, <1>6

\* A turn that is finished is shown as before.
LEMMA Finalized ==
  ASSUME NEW tc, NEW a \in Speakers, CollectorOK(tc)
  PROVE  LET uc == FinalizeTurn(tc, a)
         IN /\ CollectorOK(uc) /\ SameText(tc, uc) /\ SameCalls(tc, uc) /\ SameUsages(tc, uc)
            /\ uc.pendingTools = tc.pendingTools /\ uc.subs = tc.subs /\ uc.currentTurn[a] = <<>>
            /\ \A b \in Speakers : b # a => uc.currentTurn[b] = tc.currentTurn[b]
<1>. DEFINE uc == FinalizeTurn(tc, a)
<1>1. /\ tc \in Collector /\ tc.events \in Seq(TurnSet) /\ One(tc.currentTurn[a])
      /\ tc.currentTurn \in [Speakers -> Seq(TurnSet)]
  BY TwoSpeakers DEF CollectorOK, Collector
<1>2. tc.events \o tc.currentTurn[a] \in Seq(TurnSet)
  BY <1>1, OneMore
<1>3. /\ uc \in Collector /\ uc.events = tc.events \o tc.currentTurn[a]
      /\ uc.pendingTools = tc.pendingTools /\ uc.subs = tc.subs /\ uc.currentTurn[a] = <<>>
      /\ \A b \in Speakers : b # a => uc.currentTurn[b] = tc.currentTurn[b]
  <2>. DEFINE more == tc.events \o tc.currentTurn[a]
  <2>1. uc = [events |-> more, currentTurn |-> [tc.currentTurn EXCEPT ![a] = <<>>],
              pendingTools |-> tc.pendingTools, subs |-> tc.subs]
    <3>1. uc = [tc EXCEPT !.events = more, !.currentTurn[a] = <<>>]
      BY DEF FinalizeTurn
    <3>. HIDE DEF uc, more
    <3>. QED  BY <1>1, <3>1 DEF Collector
  <2>2. [tc.currentTurn EXCEPT ![a] = <<>>] \in [Speakers -> Seq(TurnSet)]
    BY <1>1
  <2>3. /\ uc.events = more /\ uc.currentTurn = [tc.currentTurn EXCEPT ![a] = <<>>]
        /\ uc.pendingTools = tc.pendingTools /\ uc.subs = tc.subs
    <3>. HIDE DEF uc, more
    <3>. QED  BY <2>1
  <2>4. uc \in Collector
    <3>1. tc.pendingTools \in SUBSET (Nat \X Speakers) /\ tc.subs \in Seq(Seq(TurnSet))
      BY <1>1 DEF Collector
    <3>. HIDE DEF uc, more
    <3>2. more \in Seq(TurnSet)
      BY <1>2 DEF more
    <3>. QED  BY <2>1, <2>2, <3>1, <3>2 DEF Collector
  <2>5. uc.currentTurn[a] = <<>> /\ \A b \in Speakers : b # a => uc.currentTurn[b] = tc.currentTurn[b]
    <3>. HIDE DEF uc, more
    <3>. QED  BY <1>1, <2>3
  <2>. HIDE DEF uc
  <2>. QED  BY <2>3, <2>4, <2>5
<1>. HIDE DEF uc
<1>4. CollectorOK(uc)
  <2>. SUFFICES ASSUME NEW b \in Speakers, InProgress(uc, b)
                PROVE  \E item \in TurnSet : item.agent = b /\ uc.currentTurn[b] = <<item>>
    BY <1>3 DEF CollectorOK
  <2>1. b # a /\ uc.currentTurn[b] = tc.currentTurn[b]
    BY <1>3 DEF InProgress
  <2>. QED  BY <2>1 DEF CollectorOK, InProgress
<1>5. SameText(tc, uc)
  <2>. SUFFICES ASSUME NEW b \in Speakers PROVE TextOf(BuildTrace(uc), b) = TextOf(BuildTrace(tc), b)
    BY DEF SameText
  <2>1. TextOf(BuildTrace(uc), b) = TextOf(uc.events, b) \o CurText(uc.currentTurn[b], b)
    BY <1>4, Snapshot
  <2>2. TextOf(BuildTrace(tc), b) = TextOf(tc.events, b) \o CurText(tc.currentTurn[b], b)
    BY Snapshot
  <2>3. TextOf(uc.events, b) = TextOf(tc.events, b) \o CurText(tc.currentTurn[a], b)
    <3>1. TextOf(tc.events \o tc.currentTurn[a], b) = TextOf(tc.events, b) \o CurText(tc.currentTurn[a], b)
      <4>. DEFINE E == tc.events
                  M == tc.currentTurn[a]
      <4>1. E \in Seq(TurnSet) /\ One(M)
        BY <1>1
      <4>. HIDE DEF E, M
      <4>2. TextOf(E \o M, b) = TextOf(E, b) \o CurText(M, b)
        BY <4>1, OneMore
      <4>. QED  BY <4>2 DEF E, M
    <3>. QED  BY <1>3, <3>1
  <2>4. /\ TextOf(tc.events, b) \in Seq(Nat) /\ TextOf(uc.events, b) \in Seq(Nat)
        /\ CurText(tc.currentTurn[b], b) \in Seq(Nat)
    BY <1>4, EventsShow, TwoSpeakers, CurKind
  <2>5. CASE b = a
    <3>1. CurText(uc.currentTurn[b], b) = <<>>
      BY <1>3, <2>5 DEF CurText
    <3>. QED  BY <2>1, <2>2, <2>3, <2>4, <2>5, <3>1, ConcatEmptySeq
  <2>6. CASE b # a
    <3>1. CurText(tc.currentTurn[a], b) = <<>> /\ uc.currentTurn[b] = tc.currentTurn[b]
      BY <1>3, <2>6, TwoSpeakers
    <3>2. TextOf(uc.events, b) = TextOf(tc.events, b)
      BY <2>3, <2>4, <3>1, ConcatEmptySeq
    <3>. QED  BY <2>1, <2>2, <3>1, <3>2
  <2>. QED  BY <2>5, <2>6
<1>6. /\ CallsIn(uc.events) = CallsIn(tc.events) \cup CurCalls(tc.currentTurn[a])
      /\ CallsApart(uc.events) <=> CallsApart(tc.events) /\ CallsIn(tc.events) \cap CurCalls(tc.currentTurn[a]) = {}
      /\ Usages(uc.events) = Usages(tc.events) + CurUsages(tc.currentTurn[a])
      /\ CurCalls(uc.currentTurn[a]) = {} /\ CurUsages(uc.currentTurn[a]) = 0
  BY <1>1, <1>3, OneMore DEF CurCalls, CurUsages
<1>7. \/ a = Main /\ uc.currentTurn[Sub] = tc.currentTurn[Sub]
      \/ a = Sub /\ uc.currentTurn[Main] = tc.currentTurn[Main]
  BY <1>3, TwoSpeakers DEF Speakers
<1>8. SameCalls(tc, uc)
  <2>. DEFINE E == CallsIn(tc.events)
              M == CurCalls(tc.currentTurn[Main])
              S == CurCalls(tc.currentTurn[Sub])
              A == CallsApart(tc.events)
              F == CallsIn(uc.events)
              N == CurCalls(uc.currentTurn[Main])
              R == CurCalls(uc.currentTurn[Sub])
              B == CallsApart(uc.events)
  <2>1. /\ CallsIn(BuildTrace(tc)) = E \cup M \cup S
        /\ CallsApart(BuildTrace(tc)) <=> A /\ E \cap M = {} /\ E \cap S = {} /\ M \cap S = {}
    BY Snapshot
  <2>2. /\ CallsIn(BuildTrace(uc)) = F \cup N \cup R
        /\ CallsApart(BuildTrace(uc)) <=> B /\ F \cap N = {} /\ F \cap R = {} /\ N \cap R = {}
    BY <1>4, Snapshot
  <2>3. \/ F = E \cup M /\ (B <=> A /\ E \cap M = {}) /\ N = {} /\ R = S
        \/ F = E \cup S /\ (B <=> A /\ E \cap S = {}) /\ R = {} /\ N = M
    BY <1>6, <1>7
  <2>. HIDE DEF E, M, S, A, F, N, R, B
  <2>4. CASE F = E \cup M /\ (B <=> A /\ E \cap M = {}) /\ N = {} /\ R = S
    <3>1. F \cup N \cup R = E \cup M \cup S
      BY <2>4
    <3>2. F \cap N = {} /\ N \cap R = {} /\ (F \cap R = {} <=> E \cap S = {} /\ M \cap S = {})
      BY <2>4
    <3>. QED  BY <2>1, <2>2, <2>4, <3>1, <3>2 DEF SameCalls
  <2>5. CASE F = E \cup S /\ (B <=> A /\ E \cap S = {}) /\ R = {} /\ N = M
    <3>1. F \cup N \cup R = E \cup M \cup S
      BY <2>5
    <3>2. F \cap R = {} /\ N \cap R = {} /\ (F \cap N = {} <=> E \cap M = {} /\ M \cap S = {})
      BY <2>5
    <3>. QED  BY <2>1, <2>2, <2>5, <3>1, <3>2 DEF SameCalls
  <2>. QED  BY <2>3, <2>4, <2>5
<1>9. SameUsages(tc, uc)
  <2>. DEFINE E == Usages(tc.events)
              M == CurUsages(tc.currentTurn[Main])
              S == CurUsages(tc.currentTurn[Sub])
              F == Usages(uc.events)
              N == CurUsages(uc.currentTurn[Main])
              R == CurUsages(uc.currentTurn[Sub])
  <2>1. Usages(BuildTrace(tc)) = E + M + S /\ Usages(BuildTrace(uc)) = F + N + R
    BY <1>4, Snapshot
  <2>2. E \in Nat /\ M \in Nat /\ S \in Nat
    BY EventsShow, TwoSpeakers, CurKind
  <2>3. \/ F = E + M /\ N = 0 /\ R = S
        \/ F = E + S /\ R = 0 /\ N = M
    BY <1>6, <1>7
  <2>. HIDE DEF E, M, S, F, N, R
  <2>4. F + N + R = E + M + S
    BY <2>2, <2>3
  <2>. QED  BY <2>1, <2>4 DEF SameUsages
<1>10. QED  BY <1>3, <1>4, <1>5, <1>8, <1>9 DEF uc

LEMMA PutTurn ==
  ASSUME NEW tc, NEW a \in Speakers, CollectorOK(tc), NEW item \in TurnSet, item.agent = a
  PROVE  LET uc == [tc EXCEPT !.currentTurn[a] = <<item>>]
         IN /\ CollectorOK(uc) /\ SameOther(tc, uc, a) /\ uc.currentTurn[a] = <<item>> /\ InProgress(uc, a)
            /\ uc.pendingTools = tc.pendingTools /\ uc.subs = tc.subs
            /\ CurText(uc.currentTurn[a], a) = item.text /\ CurCalls(uc.currentTurn[a]) = item.calls
            /\ CurUsages(uc.currentTurn[a]) = item.usages
<1>. DEFINE uc == [tc EXCEPT !.currentTurn[a] = <<item>>]
            one == <<item>>
<1>1. /\ tc \in Collector /\ tc.currentTurn \in [Speakers -> Seq(TurnSet)]
      /\ one \in Seq(TurnSet) /\ one # <<>> /\ one[1] = item
  BY DEF CollectorOK, Collector
<1>. HIDE DEF one
<1>2. uc = [events |-> tc.events, currentTurn |-> [tc.currentTurn EXCEPT ![a] = one],
            pendingTools |-> tc.pendingTools, subs |-> tc.subs]
  <2>1. uc = [tc EXCEPT !.currentTurn[a] = one]
    BY DEF one
  <2>. HIDE DEF uc
  <2>. QED  BY <1>1, <2>1 DEF Collector
<1>. HIDE DEF uc
<1>3. /\ uc.events = tc.events /\ uc.currentTurn = [tc.currentTurn EXCEPT ![a] = one]
      /\ uc.pendingTools = tc.pendingTools /\ uc.subs = tc.subs
  BY <1>2
<1>4. uc \in Collector
  <2>1. /\ tc.events \in Seq(TurnSet) /\ [tc.currentTurn EXCEPT ![a] = one] \in [Speakers -> Seq(TurnSet)]
        /\ tc.pendingTools \in SUBSET (Nat \X Speakers) /\ tc.subs \in Seq(Seq(TurnSet))
    BY <1>1 DEF Collector
  <2>. QED  BY <1>2, <2>1 DEF Collector
<1>5. uc.currentTurn[a] = one /\ \A b \in Speakers : b # a => uc.currentTurn[b] = tc.currentTurn[b]
  BY <1>1, <1>3
<1>6. CollectorOK(uc)
  <2>. SUFFICES ASSUME NEW b \in Speakers, InProgress(uc, b)
                PROVE  \E t \in TurnSet : t.agent = b /\ uc.currentTurn[b] = <<t>>
    BY <1>4 DEF CollectorOK
  <2>1. CASE b = a
    BY <1>5, <2>1 DEF one
  <2>2. CASE b # a
    BY <1>5, <2>2 DEF CollectorOK, InProgress
  <2>. QED  BY <2>1, <2>2
<1>7. SameOther(tc, uc, a)
  BY <1>3, <1>5 DEF SameOther
<1>8. /\ CurText(one, a) = item.text /\ CurCalls(one) = item.calls /\ CurUsages(one) = item.usages
  BY <1>1 DEF CurText, CurCalls, CurUsages, Said1
<1>. QED  BY <1>1, <1>3, <1>5, <1>6, <1>7, <1>8 DEF uc, one, InProgress

LEMMA Ensured ==
  ASSUME NEW tc, NEW a \in Speakers, CollectorOK(tc)
  PROVE  LET uc == EnsureTurn(tc, a)
         IN /\ CollectorOK(uc) /\ SameText(tc, uc) /\ SameCalls(tc, uc) /\ SameUsages(tc, uc) /\ SameOther(tc, uc, a)
            /\ InProgress(uc, a) /\ uc.pendingTools = tc.pendingTools /\ uc.subs = tc.subs
<1>1. CASE tc.currentTurn[a] # <<>>
  BY <1>1 DEF EnsureTurn, SameText, SameCalls, SameUsages, SameOther, InProgress
<1>2. CASE tc.currentTurn[a] = <<>>
  <2>. DEFINE item == Turn(a)
              uc == [tc EXCEPT !.currentTurn[a] = <<item>>]
  <2>1. item \in TurnSet /\ item.agent = a
    BY DEF Turn, TurnSet
  <2>2. item.text = <<>> /\ item.usages = 0 /\ item.calls = {}
    BY DEF Turn
  <2>4. EnsureTurn(tc, a) = uc
    BY <1>2 DEF EnsureTurn
  <2>. HIDE DEF item
  <2>3. /\ CollectorOK(uc) /\ SameOther(tc, uc, a) /\ InProgress(uc, a)
        /\ uc.pendingTools = tc.pendingTools /\ uc.subs = tc.subs
        /\ CurText(uc.currentTurn[a], a) = item.text /\ CurCalls(uc.currentTurn[a]) = item.calls
        /\ CurUsages(uc.currentTurn[a]) = item.usages
    BY <2>1, PutTurn
  <2>5. /\ CurText(tc.currentTurn[a], a) = <<>> /\ CurCalls(tc.currentTurn[a]) = {}
        /\ CurUsages(tc.currentTurn[a]) = 0
    BY <1>2 DEF CurText, CurCalls, CurUsages
  <2>. HIDE DEF uc
  <2>6. SameText(tc, uc) /\ SameCalls(tc, uc) /\ SameUsages(tc, uc)
    BY <2>2, <2>3, <2>5, Changed
  <2>. QED  BY <2>3, <2>4, <2>6
<1>. QED  BY <1>1, <1>2

\* The turn in progress.
LEMMA TurnOf ==
  ASSUME NEW tc, NEW a \in Speakers, CollectorOK(tc), InProgress(tc, a)
  PROVE  LET item == tc.currentTurn[a][1]
         IN /\ item \in TurnSet /\ item.agent = a
            /\ item.text \in Seq(Nat) /\ item.usages \in Nat /\ item.calls \in SUBSET Nat
            /\ CurText(tc.currentTurn[a], a) = item.text /\ CurCalls(tc.currentTurn[a]) = item.calls
            /\ CurUsages(tc.currentTurn[a]) = item.usages
<1>1. PICK item \in TurnSet : item.agent = a /\ tc.currentTurn[a] = <<item>>
  BY DEF CollectorOK
<1>2. tc.currentTurn[a] # <<>> /\ tc.currentTurn[a][1] = item
  BY <1>1
<1>. QED  BY <1>1, <1>2 DEF CurText, CurCalls, CurUsages, Said1, TurnSet

LEMMA TextAdded ==
  ASSUME NEW tc, NEW a \in Speakers, CollectorOK(tc), NEW piece \in Nat
  PROVE  LET uc == AddTextDelta(tc, a, piece)
         IN /\ CollectorOK(uc) /\ SameCalls(tc, uc) /\ SameUsages(tc, uc) /\ SameOther(tc, uc, a)
            /\ InProgress(uc, a) /\ uc.pendingTools = tc.pendingTools /\ uc.subs = tc.subs
            /\ TextOf(BuildTrace(uc), a) = Append(TextOf(BuildTrace(tc), a), piece)
            /\ \A b \in Speakers : b # a => TextOf(BuildTrace(uc), b) = TextOf(BuildTrace(tc), b)
<1>. DEFINE ec == EnsureTurn(tc, a)
            item == ec.currentTurn[a][1]
            next == Says(item, piece)
            uc == [ec EXCEPT !.currentTurn[a] = <<next>>]
<1>1. /\ CollectorOK(ec) /\ SameText(tc, ec) /\ SameCalls(tc, ec) /\ SameUsages(tc, ec) /\ SameOther(tc, ec, a)
      /\ InProgress(ec, a) /\ ec.pendingTools = tc.pendingTools /\ ec.subs = tc.subs
  BY Ensured
<1>2. AddTextDelta(tc, a, piece) = uc
  BY DEF AddTextDelta
<1>. HIDE DEF ec
<1>3. /\ item \in TurnSet /\ item.agent = a /\ item.text \in Seq(Nat)
      /\ CurText(ec.currentTurn[a], a) = item.text /\ CurCalls(ec.currentTurn[a]) = item.calls
      /\ CurUsages(ec.currentTurn[a]) = item.usages
  BY <1>1, TurnOf
<1>. HIDE DEF item
<1>4. /\ next \in TurnSet /\ next.agent = a /\ next.text = Append(item.text, piece)
      /\ next.calls = item.calls /\ next.usages = item.usages
  <2>. DEFINE longer == Append(item.text, piece)
  <2>1. longer \in Seq(Nat)
    BY <1>3
  <2>2. next = [item EXCEPT !.text = longer]
    BY DEF Says
  <2>. HIDE DEF longer, next
  <2>3. /\ next \in TurnSet /\ next.agent = a /\ next.text = longer
        /\ next.calls = item.calls /\ next.usages = item.usages
    BY <1>3, <2>1, <2>2 DEF TurnSet
  <2>. QED  BY <2>3 DEF longer
<1>. HIDE DEF next
<1>5. /\ CollectorOK(uc) /\ SameOther(ec, uc, a) /\ InProgress(uc, a)
      /\ uc.pendingTools = ec.pendingTools /\ uc.subs = ec.subs
      /\ CurText(uc.currentTurn[a], a) = next.text /\ CurCalls(uc.currentTurn[a]) = next.calls
      /\ CurUsages(uc.currentTurn[a]) = next.usages
  BY <1>1, <1>4, PutTurn
<1>. HIDE DEF uc
<1>6. SameCalls(ec, uc) /\ SameUsages(ec, uc) /\ \A b \in Speakers : b # a => TextOf(BuildTrace(uc), b) = TextOf(BuildTrace(ec), b)
  BY <1>1, <1>3, <1>4, <1>5, Changed
<1>7. TextOf(BuildTrace(uc), a) = Append(TextOf(BuildTrace(ec), a), piece)
  BY <1>1, <1>3, <1>4, <1>5, TextGrows
<1>8. SameCalls(tc, uc) /\ SameUsages(tc, uc) /\ SameOther(tc, uc, a)
  BY <1>1, <1>5, <1>6 DEF SameCalls, SameUsages, SameOther
<1>. QED  BY <1>1, <1>2, <1>5, <1>6, <1>7, <1>8 DEF SameText

LEMMA UsageSet ==
  ASSUME NEW tc, NEW a \in Speakers, CollectorOK(tc)
  PROVE  LET uc == SetUsage(tc, a)
         IN /\ CollectorOK(uc) /\ SameText(tc, uc) /\ SameCalls(tc, uc) /\ SameOther(tc, uc, a)
            /\ InProgress(uc, a) /\ uc.pendingTools = tc.pendingTools /\ uc.subs = tc.subs
<1>. DEFINE ec == EnsureTurn(tc, a)
            item == ec.currentTurn[a][1]
            next == Uses(item)
            uc == [ec EXCEPT !.currentTurn[a] = <<next>>]
<1>1. /\ CollectorOK(ec) /\ SameText(tc, ec) /\ SameCalls(tc, ec) /\ SameOther(tc, ec, a)
      /\ InProgress(ec, a) /\ ec.pendingTools = tc.pendingTools /\ ec.subs = tc.subs
  BY Ensured
<1>2. SetUsage(tc, a) = uc
  BY DEF SetUsage
<1>. HIDE DEF ec
<1>3. /\ item \in TurnSet /\ item.agent = a /\ item.usages \in Nat
      /\ CurText(ec.currentTurn[a], a) = item.text /\ CurCalls(ec.currentTurn[a]) = item.calls
  BY <1>1, TurnOf
<1>. HIDE DEF item
<1>4. /\ next \in TurnSet /\ next.agent = a /\ next.text = item.text
      /\ next.calls = item.calls
  BY <1>3 DEF TurnSet, Uses
<1>. HIDE DEF next
<1>5. /\ CollectorOK(uc) /\ SameOther(ec, uc, a) /\ InProgress(uc, a)
      /\ uc.pendingTools = ec.pendingTools /\ uc.subs = ec.subs
      /\ CurText(uc.currentTurn[a], a) = next.text /\ CurCalls(uc.currentTurn[a]) = next.calls
  BY <1>1, <1>4, PutTurn
<1>. HIDE DEF uc
<1>6. SameCalls(ec, uc) /\ SameText(ec, uc)
  BY <1>1, <1>3, <1>4, <1>5, Changed
<1>7. SameCalls(tc, uc) /\ SameText(tc, uc) /\ SameOther(tc, uc, a)
  BY <1>1, <1>5, <1>6 DEF SameCalls, SameText, SameOther
<1>. QED  BY <1>1, <1>2, <1>5, <1>7

\* Collectors that differ in their pending calls and in their sub-agents' traces show the same.
LEMMA SameTurns ==
  ASSUME NEW tc, NEW uc, uc.events = tc.events, uc.currentTurn = tc.currentTurn
  PROVE  BuildTrace(uc) = BuildTrace(tc) /\ \A a \in Speakers : InProgress(uc, a) <=> InProgress(tc, a)
BY DEF BuildTrace, InProgress

LEMMA CallStarted ==
  ASSUME NEW tc, NEW a \in Speakers, CollectorOK(tc), NEW c \in Nat
  PROVE  LET uc == StartToolCall(tc, a, c)
         IN /\ CollectorOK(uc) /\ SameText(tc, uc) /\ SameCalls(tc, uc) /\ SameUsages(tc, uc) /\ SameOther(tc, uc, a)
            /\ InProgress(uc, a) /\ uc.pendingTools = tc.pendingTools \cup {<<c, a>>} /\ uc.subs = tc.subs
<1>. DEFINE ec == EnsureTurn(tc, a)
            uc == StartToolCall(tc, a, c)
            more == tc.pendingTools \cup {<<c, a>>}
<1>1. /\ CollectorOK(ec) /\ SameText(tc, ec) /\ SameCalls(tc, ec) /\ SameUsages(tc, ec) /\ SameOther(tc, ec, a)
      /\ InProgress(ec, a) /\ ec.pendingTools = tc.pendingTools /\ ec.subs = tc.subs
  BY Ensured
<1>2. ec \in Collector /\ more \in SUBSET (Nat \X Speakers)
  BY <1>1 DEF CollectorOK, Collector
<1>3. uc = [events |-> ec.events, currentTurn |-> ec.currentTurn, pendingTools |-> more, subs |-> ec.subs]
  <2>1. uc = [ec EXCEPT !.pendingTools = @ \cup {<<c, a>>}]
    BY DEF StartToolCall
  <2>. HIDE DEF uc, ec
  <2>. QED  BY <1>1, <1>2, <2>1 DEF Collector
<1>. HIDE DEF ec, uc, more
<1>4. /\ uc.events = ec.events /\ uc.currentTurn = ec.currentTurn /\ uc.pendingTools = more
      /\ uc.subs = ec.subs /\ uc \in Collector
  BY <1>2, <1>3 DEF Collector
<1>5. CollectorOK(uc)
  BY <1>1, <1>4 DEF CollectorOK, InProgress
<1>6. BuildTrace(uc) = BuildTrace(ec) /\ InProgress(uc, a)
  BY <1>1, <1>4, SameTurns
<1>7. SameText(tc, uc) /\ SameCalls(tc, uc) /\ SameUsages(tc, uc) /\ SameOther(tc, uc, a)
  BY <1>1, <1>4, <1>6 DEF SameText, SameCalls, SameUsages, SameOther
<1>. QED  BY <1>1, <1>4, <1>5, <1>6, <1>7 DEF uc, more

\* The end of a call whose start the collector has not heard.
LEMMA CallUnknown ==
  ASSUME NEW tc, CollectorOK(tc), NEW c, \A p \in tc.pendingTools : p[1] # c
  PROVE  EndToolCall(tc, c) = tc
<1>. DEFINE mine == {p \in tc.pendingTools : p[1] = c}
            attached == [a \in Speakers |->
                           IF <<c, a>> \in mine /\ tc.currentTurn[a] # <<>>
                           THEN <<[tc.currentTurn[a][1] EXCEPT !.calls = @ \cup {c}]>>
                           ELSE tc.currentTurn[a]]
<1>1. tc \in Collector /\ tc.currentTurn = [a \in Speakers |-> tc.currentTurn[a]]
  BY DEF CollectorOK, Collector
<1>2. mine = {}
  OBVIOUS
<1>3. EndToolCall(tc, c) = [tc EXCEPT !.pendingTools = @ \ mine, !.currentTurn = attached]
  BY DEF EndToolCall
<1>. HIDE DEF mine
<1>4. attached = tc.currentTurn
  <2>1. attached = [a \in Speakers |-> tc.currentTurn[a]]
    BY <1>2
  <2>. HIDE DEF attached
  <2>. QED  BY <1>1, <2>1
<1>. HIDE DEF attached
<1>5. tc.pendingTools \ mine = tc.pendingTools
  BY <1>2
<1>. QED  BY <1>1, <1>3, <1>4, <1>5 DEF Collector

LEMMA CallEnded ==
  ASSUME NEW tc, NEW a \in Speakers, CollectorOK(tc), NEW c \in Nat,
         <<c, a>> \in tc.pendingTools, \A p \in tc.pendingTools : p[2] = a, InProgress(tc, a),
         CallsApart(BuildTrace(tc)), c \notin CallsIn(BuildTrace(tc))
  PROVE  LET uc == EndToolCall(tc, c)
         IN /\ CollectorOK(uc) /\ SameText(tc, uc) /\ SameOther(tc, uc, a)
            /\ CallsIn(BuildTrace(uc)) = CallsIn(BuildTrace(tc)) \cup {c} /\ CallsApart(BuildTrace(uc))
            /\ InProgress(uc, a) /\ uc.pendingTools = {p \in tc.pendingTools : p[1] # c} /\ uc.subs = tc.subs
<1>. DEFINE mine == {p \in tc.pendingTools : p[1] = c}
            item == tc.currentTurn[a][1]
            more == item.calls \cup {c}
            next == [item EXCEPT !.calls = more]
            attached == [b \in Speakers |->
                           IF <<c, b>> \in mine /\ tc.currentTurn[b] # <<>>
                           THEN <<[tc.currentTurn[b][1] EXCEPT !.calls = @ \cup {c}]>>
                           ELSE tc.currentTurn[b]]
            mc == [tc EXCEPT !.currentTurn[a] = <<next>>]
            left == tc.pendingTools \ mine
            uc == EndToolCall(tc, c)
<1>1. tc \in Collector /\ tc.currentTurn \in [Speakers -> Seq(TurnSet)] /\ tc.pendingTools \in SUBSET (Nat \X Speakers)
  BY DEF CollectorOK, Collector
<1>2. /\ item \in TurnSet /\ item.agent = a /\ item.calls \in SUBSET Nat
      /\ CurText(tc.currentTurn[a], a) = item.text /\ CurCalls(tc.currentTurn[a]) = item.calls
  BY TurnOf
<1>3. /\ next \in TurnSet /\ next.agent = a /\ next.text = item.text /\ next.calls = item.calls \cup {c}
  <2>1. more \in SUBSET Nat
    BY <1>2
  <2>. HIDE DEF item, more
  <2>2. /\ next \in TurnSet /\ next.agent = a /\ next.text = item.text /\ next.calls = more
    BY <1>2, <2>1 DEF TurnSet
  <2>. QED  BY <2>2 DEF more
<1>4. /\ <<c, a>> \in mine /\ \A b \in Speakers : b # a => <<c, b>> \notin mine
  OBVIOUS
<1>5. attached = [tc.currentTurn EXCEPT ![a] = <<next>>]
  <2>1. \A b \in Speakers : attached[b] = IF b = a THEN <<next>> ELSE tc.currentTurn[b]
    <3>. SUFFICES ASSUME NEW b \in Speakers PROVE attached[b] = IF b = a THEN <<next>> ELSE tc.currentTurn[b]
      OBVIOUS
    <3>1. CASE b = a
      BY <1>4, <3>1 DEF InProgress
    <3>2. CASE b # a
      <4>. HIDE DEF mine
      <4>. QED  BY <1>4, <3>2
    <3>. QED  BY <3>1, <3>2
  <2>2. attached = [b \in Speakers |-> attached[b]]
    OBVIOUS
  <2>. HIDE DEF attached, next
  <2>. QED  BY <1>1, <2>1, <2>2
<1>6. uc = [tc EXCEPT !.pendingTools = left, !.currentTurn = attached]
  BY DEF EndToolCall
<1>. HIDE DEF next, attached, left, uc, item
<1>7. /\ CollectorOK(mc) /\ SameOther(tc, mc, a) /\ InProgress(mc, a)
      /\ mc.pendingTools = tc.pendingTools /\ mc.subs = tc.subs
      /\ CurText(mc.currentTurn[a], a) = next.text /\ CurCalls(mc.currentTurn[a]) = next.calls
  BY <1>2, <1>3, PutTurn
<1>8. mc.events = tc.events /\ mc.currentTurn = attached
  BY <1>1, <1>5 DEF Collector
<1>. HIDE DEF mc
<1>9. /\ uc.events = mc.events /\ uc.currentTurn = mc.currentTurn /\ uc.pendingTools = left /\ uc.subs = tc.subs
      /\ uc = [events |-> mc.events, currentTurn |-> mc.currentTurn, pendingTools |-> left, subs |-> mc.subs]
  BY <1>1, <1>6, <1>7, <1>8 DEF Collector
<1>10. left \in SUBSET (Nat \X Speakers) /\ left = {p \in tc.pendingTools : p[1] # c}
  BY <1>1 DEF left
<1>11. CollectorOK(uc)
  <2>1. mc \in Collector
    BY <1>7 DEF CollectorOK
  <2>2. uc \in Collector
    BY <1>9, <1>10, <2>1 DEF Collector
  <2>. QED  BY <1>7, <1>9, <2>2 DEF CollectorOK, InProgress
<1>12. SameText(tc, mc)
  BY <1>2, <1>3, <1>7, Changed
<1>13. CallsIn(BuildTrace(mc)) = CallsIn(BuildTrace(tc)) \cup {c} /\ CallsApart(BuildTrace(mc))
  BY <1>2, <1>3, <1>7, CallsGrow
<1>14. BuildTrace(uc) = BuildTrace(mc) /\ InProgress(uc, a)
  BY <1>7, <1>9, SameTurns
<1>15. SameText(tc, uc) /\ SameOther(tc, uc, a)
  BY <1>7, <1>9, <1>12, <1>14 DEF SameText, SameOther
<1>. QED  BY <1>9, <1>10, <1>11, <1>13, <1>14, <1>15 DEF uc

\* What is handed over when all is finished.
LEMMA AllFinished ==
  ASSUME NEW tc, CollectorOK(tc)
  PROVE  LET uc == Finalize(tc)
         IN /\ CollectorOK(uc) /\ SameText(tc, uc) /\ SameCalls(tc, uc) /\ SameUsages(tc, uc)
            /\ uc.pendingTools = tc.pendingTools /\ uc.subs = tc.subs
            /\ BuildSubAgentEvent(tc) = BuildTrace(uc)
<1>. DEFINE mc == FinalizeTurn(tc, Sub)
            uc == FinalizeTurn(mc, Main)
<1>1. Main \in Speakers /\ Sub \in Speakers /\ Main # Sub
  BY DEF Speakers, Main, Sub
<1>2. /\ CollectorOK(mc) /\ SameText(tc, mc) /\ SameCalls(tc, mc) /\ SameUsages(tc, mc)
      /\ mc.pendingTools = tc.pendingTools /\ mc.subs = tc.subs /\ mc.currentTurn[Sub] = <<>>
  BY <1>1, Finalized
<1>3. Finalize(tc) = uc
  BY DEF Finalize
<1>. HIDE DEF mc
<1>4. /\ CollectorOK(uc) /\ SameText(mc, uc) /\ SameCalls(mc, uc) /\ SameUsages(mc, uc)
      /\ uc.pendingTools = mc.pendingTools /\ uc.subs = mc.subs /\ uc.currentTurn[Main] = <<>>
      /\ uc.currentTurn[Sub] = mc.currentTurn[Sub]
  BY <1>1, <1>2, Finalized
<1>. HIDE DEF uc
<1>5. BuildTrace(uc) = uc.events
  <2>1. uc.events \in Seq(TurnSet)
    BY <1>4 DEF CollectorOK, Collector
  <2>2. BuildTrace(uc) = (uc.events \o <<>>) \o <<>>
    BY <1>2, <1>4 DEF BuildTrace
  <2>. QED  BY <2>1, <2>2, ConcatEmptySeq
<1>6. SameText(tc, uc) /\ SameCalls(tc, uc) /\ SameUsages(tc, uc)
  BY <1>2, <1>4 DEF SameText, SameCalls, SameUsages
<1>. QED  BY <1>2, <1>3, <1>4, <1>5, <1>6 DEF BuildSubAgentEvent

LEMMA SubAdded ==
  ASSUME NEW tc, CollectorOK(tc), NEW turns \in Seq(TurnSet)
  PROVE  LET uc == [tc EXCEPT !.subs = Append(@, turns)]
         IN /\ CollectorOK(uc) /\ uc.events = tc.events /\ uc.currentTurn = tc.currentTurn
            /\ uc.pendingTools = tc.pendingTools /\ uc.subs = Append(tc.subs, turns)
<1>. DEFINE more == Append(tc.subs, turns)
            uc == [tc EXCEPT !.subs = more]
<1>1. tc \in Collector /\ tc.subs \in Seq(Seq(TurnSet))
  BY DEF CollectorOK, Collector
<1>2. more \in Seq(Seq(TurnSet))
  BY <1>1
<1>. HIDE DEF more
<1>3. uc \in Collector /\ uc.events = tc.events /\ uc.currentTurn = tc.currentTurn /\ uc.pendingTools = tc.pendingTools /\ uc.subs = more
  BY <1>1, <1>2 DEF Collector
<1>. HIDE DEF uc
<1>4. CollectorOK(uc)
  BY <1>3 DEF CollectorOK, InProgress
<1>. QED  BY <1>3, <1>4 DEF uc, more

\* An operation that neither adds to what is shown nor to the pending calls.
LEMMA FitsKept ==
  ASSUME NEW tc, NEW uc, NEW said, NEW a \in Speakers, NEW open, NEW n \in Nat,
         Holds(tc, said), CallsFit(tc, said, a, open, n), CollectorOK(uc),
         SameText(tc, uc), SameCalls(tc, uc), uc.pendingTools = tc.pendingTools
  PROVE  Holds(uc, said) /\ CallsFit(uc, said, a, open, n)
<1>1. HasText(BuildTrace(uc), said)
  BY DEF Holds, HasText, SameText
<1>2. HasCalls(BuildTrace(uc), said)
  BY HasCallsIs DEF Holds, SameCalls
<1>3. CallsFit(uc, said, a, open, n)
  BY DEF CallsFit
<1>. QED  BY <1>1, <1>2, <1>3 DEF Holds

\* Fewer calls are open, or there have been more.
LEMMA FitsLess ==
  ASSUME NEW tc, NEW said, NEW a \in Speakers, NEW open, NEW less, less \subseteq open, NEW n \in Nat,
         NEW m \in Nat, n <= m, Fits(tc, said, a, open, n)
  PROVE  Fits(tc, said, a, less, m)
<1>1. 1..n \subseteq 1..m
  OBVIOUS
<1>2. CallsFit(tc, said, a, less, m)
  BY <1>1 DEF Fits, CallsFit
<1>3. Waits(tc, said, a, less)
  BY DEF Fits, Waits
<1>. QED  BY <1>2, <1>3 DEF Fits

LEMMA FitsNew ==
  ASSUME NEW a \in Speakers, NEW open, NEW n \in Nat
  PROVE  /\ NewTraceCollector \in Collector /\ Fits(NewTraceCollector, NothingHeard, a, open, n)
         /\ NewTraceCollector.subs = <<>> /\ NothingHeard \in ToldSet /\ NothingHeard.ended = {}
         /\ <<>> \in Seq(TurnSet) /\ HasCalls(<<>>, NothingHeard) /\ HasText(<<>>, NothingHeard)
         /\ Usages(<<>>) = Usages(BuildTrace(NewTraceCollector))
<1>. DEFINE tc == NewTraceCollector
            said == NothingHeard
<1>1. /\ tc.events = <<>> /\ tc.pendingTools = {} /\ tc.subs = <<>>
      /\ \A b \in Speakers : tc.currentTurn[b] = <<>>
  BY DEF NewTraceCollector
<1>2. /\ said.ended = {} /\ said.asked = {} /\ \A b \in Speakers : said.text[b] = <<>>
  BY DEF NothingHeard, Nothing
<1>3. said \in ToldSet
  <2>1. Nothing \in [Speakers -> Seq(Nat)]
    BY DEF Nothing
  <2>2. {} \in SUBSET Nat
    OBVIOUS
  <2>. QED  BY <2>1, <2>2 DEF ToldSet, NothingHeard
<1>4. tc \in Collector
  <2>. DEFINE cur == [b \in Speakers |-> <<>>]
  <2>1. <<>> \in Seq(TurnSet) /\ <<>> \in Seq(Seq(TurnSet)) /\ cur \in [Speakers -> Seq(TurnSet)] /\ {} \in SUBSET (Nat \X Speakers)
    OBVIOUS
  <2>2. tc = [events |-> <<>>, currentTurn |-> cur, pendingTools |-> {}, subs |-> <<>>]
    BY DEF NewTraceCollector
  <2>. HIDE DEF cur, tc
  <2>. QED  BY <2>1, <2>2 DEF Collector
<1>. HIDE DEF tc, said
<1>5. CollectorOK(tc)
  BY <1>1, <1>4 DEF CollectorOK, InProgress
<1>6. BuildTrace(tc) = <<>>
  <2>1. Main \in Speakers /\ Sub \in Speakers /\ <<>> \in Seq(TurnSet)
    BY DEF Speakers
  <2>2. BuildTrace(tc) = (<<>> \o <<>>) \o <<>>
    BY <1>1, <2>1 DEF BuildTrace
  <2>. QED  BY <2>1, <2>2, ConcatEmptySeq
<1>7. HasText(<<>>, said)
  <2>1. <<>> \in Seq(TurnSet) /\ [agent |-> Main, text |-> <<>>, usages |-> 0, calls |-> {}] \in TurnSet
    BY DEF TurnSet, Speakers
  <2>2. \A b \in Speakers : TextOf(<<>>, b) = <<>>
    BY <2>1, TextAppend
  <2>. QED  BY <1>2, <2>2 DEF HasText
<1>8. HasCalls(<<>>, said)
  BY <1>2 DEF HasCalls
<1>9. CallsFit(tc, said, a, open, n) /\ Waits(tc, said, a, open)
  BY <1>1, <1>2 DEF CallsFit, Waits
<1>. QED  BY <1>1, <1>2, <1>3, <1>4, <1>5, <1>6, <1>7, <1>8, <1>9 DEF tc, said, Fits, Holds

\* A piece of text is heard, in a turn that is in progress afterwards.
LEMMA FitsText ==
  ASSUME NEW tc, NEW said, NEW a \in Speakers, NEW open, NEW n \in Nat, NEW piece \in Nat,
         Holds(tc, said), CallsFit(tc, said, a, open, n)
  PROVE  LET uc == AddTextDelta(tc, a, piece)
             saidNow == [said EXCEPT !.text[a] = Append(@, piece)]
         IN /\ uc \in Collector /\ Fits(uc, saidNow, a, open, n) /\ uc.subs = tc.subs
            /\ saidNow \in ToldSet /\ saidNow.ended = said.ended /\ SameUsages(tc, uc)
<1>. DEFINE uc == AddTextDelta(tc, a, piece)
            texts == [said.text EXCEPT ![a] = Append(@, piece)]
            saidNow == [said EXCEPT !.text[a] = Append(@, piece)]
<1>1. /\ CollectorOK(uc) /\ SameCalls(tc, uc) /\ SameUsages(tc, uc) /\ SameOther(tc, uc, a)
      /\ InProgress(uc, a) /\ uc.pendingTools = tc.pendingTools /\ uc.subs = tc.subs
      /\ TextOf(BuildTrace(uc), a) = Append(TextOf(BuildTrace(tc), a), piece)
      /\ \A b \in Speakers : b # a => TextOf(BuildTrace(uc), b) = TextOf(BuildTrace(tc), b)
  BY TextAdded DEF Holds
<1>2. said \in ToldSet /\ said.text \in [Speakers -> Seq(Nat)]
  BY DEF Holds, ToldSet
<1>3. /\ texts \in [Speakers -> Seq(Nat)] /\ texts[a] = Append(said.text[a], piece)
      /\ \A b \in Speakers : b # a => texts[b] = said.text[b]
  BY <1>2
<1>4. saidNow = [said EXCEPT !.text = texts]
  OBVIOUS
<1>. HIDE DEF texts, saidNow, uc
<1>5. saidNow \in ToldSet /\ saidNow.ended = said.ended /\ saidNow.asked = said.asked /\ saidNow.text = texts
  BY <1>2, <1>3, <1>4 DEF ToldSet
<1>6. HasText(BuildTrace(uc), saidNow)
  <2>. SUFFICES ASSUME NEW b \in Speakers PROVE TextOf(BuildTrace(uc), b) = texts[b]
    BY <1>5 DEF HasText
  <2>1. TextOf(BuildTrace(tc), b) = said.text[b]
    BY DEF Holds, HasText
  <2>. QED  BY <1>1, <1>3, <2>1
<1>7. HasCalls(BuildTrace(uc), saidNow)
  BY <1>1, <1>5, HasCallsIs DEF Holds, SameCalls
<1>8. CallsFit(uc, saidNow, a, open, n) /\ Waits(uc, saidNow, a, open)
  BY <1>1, <1>5 DEF CallsFit, Waits
<1>. QED  BY <1>1, <1>5, <1>6, <1>7, <1>8 DEF uc, saidNow, Fits, Holds, CollectorOK

LEMMA FitsStart ==
  ASSUME NEW tc, NEW said, NEW a \in Speakers, NEW open, NEW n \in Nat, NEW c \in Nat, n < c,
         open \subseteq 1..n, Fits(tc, said, a, open, n)
  PROVE  LET uc == StartToolCall(tc, a, c)
             saidNow == [said EXCEPT !.asked = @ \cup {c}]
         IN /\ uc \in Collector /\ Fits(uc, saidNow, a, open \cup {c}, c) /\ uc.subs = tc.subs
            /\ saidNow \in ToldSet /\ saidNow.ended = said.ended /\ SameUsages(tc, uc)
<1>. DEFINE uc == StartToolCall(tc, a, c)
            more == said.asked \cup {c}
            saidNow == [said EXCEPT !.asked = more]
<1>1. /\ CollectorOK(uc) /\ SameText(tc, uc) /\ SameCalls(tc, uc) /\ SameUsages(tc, uc)
      /\ InProgress(uc, a) /\ uc.pendingTools = tc.pendingTools \cup {<<c, a>>} /\ uc.subs = tc.subs
  BY CallStarted DEF Fits, Holds
<1>. HIDE DEF uc
<1>2. said \in ToldSet
  BY DEF Fits, Holds
<1>3. more \in SUBSET Nat
  BY <1>2 DEF ToldSet
<1>. HIDE DEF more
<1>4. saidNow \in ToldSet /\ saidNow.ended = said.ended /\ saidNow.asked = more /\ saidNow.text = said.text
  BY <1>2, <1>3 DEF ToldSet
<1>. HIDE DEF saidNow
<1>5. HasText(BuildTrace(uc), saidNow) /\ HasCalls(BuildTrace(uc), saidNow)
  <2>1. HasText(BuildTrace(uc), saidNow)
    BY <1>1, <1>4 DEF Fits, Holds, HasText, SameText
  <2>2. HasCalls(BuildTrace(uc), saidNow)
    BY <1>1, <1>4, HasCallsIs DEF Fits, Holds, SameCalls
  <2>. QED  BY <2>1, <2>2
<1>6. /\ said.ended \subseteq said.asked /\ said.asked \subseteq 1..n
      /\ \A p \in tc.pendingTools : p[2] = a /\ p[1] \in said.asked
      /\ \A d \in open \cap said.asked : <<d, a>> \in tc.pendingTools /\ d \notin said.ended
  BY DEF Fits, CallsFit
<1>7. c \notin 1..n /\ 1..n \subseteq 1..c /\ c \in 1..c
  OBVIOUS
<1>8. CallsFit(uc, saidNow, a, open \cup {c}, c)
  <2>1. saidNow.ended \subseteq saidNow.asked /\ saidNow.asked \subseteq 1..c
    BY <1>4, <1>6, <1>7 DEF more
  <2>2. \A p \in uc.pendingTools : p[2] = a /\ p[1] \in saidNow.asked
    BY <1>1, <1>4, <1>6 DEF more
  <2>3. ASSUME NEW d \in (open \cup {c}) \cap saidNow.asked
        PROVE  <<d, a>> \in uc.pendingTools /\ d \notin saidNow.ended
    <3>1. CASE d = c
      BY <1>1, <1>4, <1>6, <1>7, <3>1
    <3>2. CASE d # c
      <4>1. d \in open \cap said.asked
        BY <1>4, <3>2 DEF more
      <4>. QED  BY <1>1, <1>4, <1>6, <4>1
    <3>. QED  BY <3>1, <3>2
  <2>. QED  BY <2>1, <2>2, <2>3 DEF CallsFit
<1>. QED  BY <1>1, <1>4, <1>5, <1>8 DEF uc, saidNow, more, Fits, Holds, Waits, CollectorOK

LEMMA FitsEnd ==
  ASSUME NEW tc, NEW said, NEW a \in Speakers, NEW open, NEW n \in Nat, NEW c \in Nat, c \in open,
         Fits(tc, said, a, open, n)
  PROVE  LET uc == EndToolCall(tc, c)
             saidNow == [said EXCEPT !.ended = @ \cup ({c} \cap said.asked)]
         IN /\ uc \in Collector /\ Fits(uc, saidNow, a, open \ {c}, n) /\ uc.subs = tc.subs
            /\ saidNow \in ToldSet
<1>. DEFINE uc == EndToolCall(tc, c)
            more == said.ended \cup ({c} \cap said.asked)
            saidNow == [said EXCEPT !.ended = more]
<1>2. said \in ToldSet
  BY DEF Fits, Holds
<1>3. more \in SUBSET Nat
  BY <1>2 DEF ToldSet
<1>3a. CASE c \notin said.asked
  <2>1. uc = tc
    BY <1>3a, CallUnknown DEF Fits, Holds, CallsFit
  <2>2. more = said.ended
    BY <1>3a
  <2>. HIDE DEF more, uc
  <2>3. saidNow = said
    BY <1>2, <2>2 DEF ToldSet
  <2>. HIDE DEF saidNow
  <2>4. Fits(tc, said, a, open \ {c}, n)
    BY FitsLess
  <2>. QED  BY <1>2, <2>1, <2>3, <2>4 DEF uc, more, saidNow, Fits, Holds, CollectorOK
<1>3b. CASE c \in said.asked
  <2>1. /\ <<c, a>> \in tc.pendingTools /\ c \notin said.ended /\ InProgress(tc, a)
        /\ \A p \in tc.pendingTools : p[2] = a
        /\ CollectorOK(tc)
    BY <1>3b DEF Fits, Holds, CallsFit, Waits
  <2>2. CallsIn(BuildTrace(tc)) = said.ended /\ CallsApart(BuildTrace(tc))
    BY HasCallsIs DEF Fits, Holds
  <2>3. /\ CollectorOK(uc) /\ SameText(tc, uc)
        /\ CallsIn(BuildTrace(uc)) = CallsIn(BuildTrace(tc)) \cup {c} /\ CallsApart(BuildTrace(uc))
        /\ InProgress(uc, a) /\ uc.pendingTools = {p \in tc.pendingTools : p[1] # c} /\ uc.subs = tc.subs
    BY <2>1, <2>2, CallEnded
  <2>. HIDE DEF uc
  <2>4. more = said.ended \cup {c}
    BY <1>3b
  <2>. HIDE DEF more
  <2>5. saidNow \in ToldSet /\ saidNow.ended = more /\ saidNow.asked = said.asked /\ saidNow.text = said.text
    BY <1>2, <1>3, <2>4 DEF ToldSet
  <2>. HIDE DEF saidNow
  <2>6. HasText(BuildTrace(uc), saidNow)
    BY <2>3, <2>5 DEF Fits, Holds, HasText, SameText
  <2>7. HasCalls(BuildTrace(uc), saidNow)
    BY <2>2, <2>3, <2>4, <2>5, HasCallsIs
  <2>8. CallsFit(uc, saidNow, a, open \ {c}, n)
    <3>1. /\ said.ended \subseteq said.asked /\ said.asked \subseteq 1..n
          /\ \A p \in tc.pendingTools : p[2] = a /\ p[1] \in said.asked
          /\ \A d \in open \cap said.asked : <<d, a>> \in tc.pendingTools /\ d \notin said.ended
      BY DEF Fits, CallsFit
    <3>2. saidNow.ended \subseteq saidNow.asked /\ saidNow.asked \subseteq 1..n
      BY <1>3b, <2>4, <2>5, <3>1
    <3>3. \A p \in uc.pendingTools : p[2] = a /\ p[1] \in saidNow.asked
      BY <2>3, <2>5, <3>1
    <3>4. \A d \in (open \ {c}) \cap saidNow.asked : <<d, a>> \in uc.pendingTools /\ d \notin saidNow.ended
      BY <2>3, <2>4, <2>5, <3>1
    <3>. QED  BY <3>2, <3>3, <3>4 DEF CallsFit
  <2>. QED  BY <2>3, <2>5, <2>6, <2>7, <2>8 DEF uc, saidNow, more, Fits, Holds, Waits, CollectorOK
<1>. QED  BY <1>3a, <1>3b

\* The file, and the traces that were handed over.
LEMMA FileStays ==
  ASSUME NEW tc, NEW uc, NEW said, NEW saidNow, NEW f, NEW late, FileFits(<<tc>>, said, f, late),
         SameUsages(tc, uc), saidNow.ended = said.ended
  PROVE  FileFits(<<uc>>, saidNow, f, late)
<1>1. <<tc>> # <<>> /\ <<tc>>[1] = tc /\ <<uc>>[1] = uc
  OBVIOUS
<1>. QED  BY <1>1 DEF FileFits, HasCalls, SameUsages

LEMMA FileFlushed ==
  ASSUME NEW uc, NEW said, NEW f, NEW late, CollectorOK(uc), HasCalls(BuildTrace(uc), said),
         f = BuildTrace(uc) \/ late
  PROVE  FileFits(<<uc>>, said, f, late)
<1>1. <<uc>>[1] = uc
  OBVIOUS
<1>. QED  BY <1>1, Snapshot DEF FileFits

LEMMA SubsStay ==
  ASSUME NEW tc, NEW uc, NEW said, NEW state, SubsFit(<<tc>>, said, state), uc.subs = tc.subs
  PROVE  SubsFit(<<uc>>, said, state)
<1>1. DOMAIN <<tc>> = {1} /\ DOMAIN <<uc>> = {1} /\ <<tc>>[1] = tc /\ <<uc>>[1] = uc
  OBVIOUS
<1>. QED  BY <1>1 DEF SubsFit

\* Until the sub-agent is done nothing is handed over, whatever it is told.
LEMMA SubsNone ==
  ASSUME NEW ac, NEW said, NEW saidNow, NEW state, NEW next, SubsFit(ac, said, state), state # "done"
  PROVE  SubsFit(ac, saidNow, next)
BY DEF SubsFit

\* The open calls.
LEMMA OpenLess ==
  ASSUME NEW calls, NEW p \in calls, NEW b, b # p[2], \A r \in calls : r[1] = p[1] => r = p
  PROVE  /\ OpenIn(calls \ {p}, p[2]) = OpenIn(calls, p[2]) \ {p[1]} /\ p[1] \in OpenIn(calls, p[2])
         /\ OpenIn(calls \ {p}, b) = OpenIn(calls, b)
<1>1. {q \in calls \ {p} : q[2] = b} = {q \in calls : q[2] = b}
  OBVIOUS
<1>2. OpenIn(calls \ {p}, p[2]) = OpenIn(calls, p[2]) \ {p[1]}
  BY DEF OpenIn
<1>. QED  BY <1>1, <1>2 DEF OpenIn

LEMMA OpenNone ==
  ASSUME NEW calls, NEW a, \A p \in calls : p[2] # a
  PROVE  OpenIn(calls, a) = {}
BY DEF OpenIn

\* The numbers of the calls.
LEMMA CountsGrow ==
  ASSUME NEW what \in {"text", "calls", "asks", "answers", "traces"}, NEW most \in Nat, Counts(what, most), RunsOK
  PROVE  /\ count' \in [{"text", "calls", "asks", "answers", "traces"} -> Nat]
         /\ count'[what] = count[what] + 1 /\ count'[what] <= most
         /\ what # "calls" => count'.calls = count.calls
BY DEF Counts, RunsOK

LEMMA OpenKind ==
  ASSUME NEW a \in Speakers, RunsOK
  PROVE  OpenIn(running, a) \subseteq 1..count.calls /\ count.calls \in Nat
BY DEF RunsOK, OpenIn

LEMMA RunsKept ==
  ASSUME RunsOK, UNCHANGED running,
         count' \in [{"text", "calls", "asks", "answers", "traces"} -> Nat], count'.calls = count.calls,
         phase' = "asked" => OpenIn(running, Main) = {}, sub' \in {"none", "done"} => OpenIn(running, Sub) = {}
  PROVE  RunsOK'
BY DEF RunsOK, OpenIn

LEMMA AppIs ==
  ASSUME TraceIndInv, app # <<>>
  PROVE  /\ app = <<app[1]>> /\ app[1] \in Collector /\ CollectorOK(app[1])
         /\ Fits(app[1], heard.app, Main, OpenIn(running, Main), count.calls)
<1>1. PICK tc \in Collector : app = <<tc>> /\ Fits(tc, heard.app, Main, OpenIn(running, Main), count.calls)
  BY DEF TraceIndInv, AppFits
<1>2. app[1] = tc
  BY <1>1
<1>. QED  BY <1>1, <1>2 DEF Fits, Holds

LEMMA OwnIs ==
  ASSUME TraceIndInv, sub # "none"
  PROVE  /\ own = <<own[1]>> /\ own[1] \in Collector /\ CollectorOK(own[1])
         /\ Fits(own[1], heard.own, Sub, OpenIn(running, Sub), count.calls)
<1>1. PICK tc \in Collector : own = <<tc>> /\ Fits(tc, heard.own, Sub, OpenIn(running, Sub), count.calls)
  BY DEF TraceIndInv, OwnFits
<1>2. own[1] = tc
  BY <1>1
<1>. QED  BY <1>1, <1>2 DEF Fits, Holds

LEMMA HeardIs ==
  ASSUME NEW said \in [app : ToldSet, own : ToldSet], NEW one \in ToldSet
  PROVE  /\ [said EXCEPT !.app = one] \in [app : ToldSet, own : ToldSet]
         /\ [said EXCEPT !.app = one].app = one /\ [said EXCEPT !.app = one].own = said.own
         /\ [said EXCEPT !.own = one] \in [app : ToldSet, own : ToldSet]
         /\ [said EXCEPT !.own = one].own = one /\ [said EXCEPT !.own = one].app = said.app
OBVIOUS

LEMMA Speaking == Main \in Speakers /\ Sub \in Speakers /\ Main # Sub
BY DEF Speakers, Main, Sub

\* The application's part, when it is left as it is and calls end or have begun elsewhere.
LEMMA AppKept ==
  ASSUME TraceIndInv, RunsOK', UNCHANGED <<app, file, behind>>, heard'.app = heard.app,
         OpenIn(running', Main) \subseteq OpenIn(running, Main), count.calls <= count'.calls
  PROVE  /\ AppFits(app', heard'.app, OpenIn(running', Main), count'.calls)
         /\ FileFits(app', heard'.app, file', behind')
<1>1. FileFits(app', heard'.app, file', behind')
  BY DEF TraceIndInv
<1>2. count.calls \in Nat /\ count'.calls \in Nat
  BY DEF RunsOK, TraceIndInv
<1>3. CASE app = <<>>
  BY <1>1, <1>3 DEF AppFits
<1>4. CASE app # <<>>
  <2>1. app = <<app[1]>> /\ app[1] \in Collector /\ Fits(app[1], heard.app, Main, OpenIn(running, Main), count.calls)
    BY <1>4, AppIs
  <2>2. Fits(app[1], heard.app, Main, OpenIn(running', Main), count'.calls)
    BY <1>2, <2>1, Speaking, FitsLess
  <2>. QED  BY <1>1, <2>1, <2>2 DEF AppFits
<1>. QED  BY <1>3, <1>4

\* The sub-agent's part, likewise.
LEMMA OwnKept ==
  ASSUME TraceIndInv, RunsOK', UNCHANGED own, heard'.own = heard.own, sub' = "none" <=> sub = "none",
         OpenIn(running', Sub) \subseteq OpenIn(running, Sub), count.calls <= count'.calls
  PROVE  OwnFits(own', heard'.own, sub', OpenIn(running', Sub), count'.calls)
<1>1. count.calls \in Nat /\ count'.calls \in Nat
  BY DEF RunsOK, TraceIndInv
<1>2. CASE sub = "none"
  BY <1>2 DEF TraceIndInv, OwnFits
<1>3. CASE sub # "none"
  <2>1. own = <<own[1]>> /\ own[1] \in Collector /\ Fits(own[1], heard.own, Sub, OpenIn(running, Sub), count.calls)
    BY <1>3, OwnIs
  <2>2. Fits(own[1], heard.own, Sub, OpenIn(running', Sub), count'.calls)
    BY <1>1, <2>1, Speaking, FitsLess
  <2>. QED  BY <1>3, <2>1, <2>2 DEF OwnFits
<1>. QED  BY <1>2, <1>3

\* The application's collector has changed: its file is as it was, or is flushed.
LEMMA AppChanged ==
  ASSUME TraceIndInv, app # <<>>, NEW uc, app' = <<uc>>, uc \in Collector, uc.subs = app[1].subs,
         Fits(uc, heard'.app, Main, OpenIn(running', Main), count'.calls),
         \/ UNCHANGED <<file, behind>> /\ SameUsages(app[1], uc) /\ heard'.app.ended = heard.app.ended
         \/ Flush(uc),
         heard'.own = heard.own, sub' = sub
  PROVE  /\ AppFits(app', heard'.app, OpenIn(running', Main), count'.calls)
         /\ FileFits(app', heard'.app, file', behind')
         /\ SubsFit(app', heard'.own, sub')
<1>1. app = <<app[1]>>
  BY AppIs
<1>2. SubsFit(app', heard'.own, sub')
  <2>1. SubsFit(<<app[1]>>, heard.own, sub)
    BY <1>1 DEF TraceIndInv
  <2>. QED  BY <2>1, SubsStay
<1>3. FileFits(app', heard'.app, file', behind')
  <2>1. CASE UNCHANGED <<file, behind>> /\ SameUsages(app[1], uc) /\ heard'.app.ended = heard.app.ended
    <3>1. FileFits(<<app[1]>>, heard.app, file, behind)
      BY <1>1 DEF TraceIndInv
    <3>. QED  BY <2>1, <3>1, FileStays
  <2>2. CASE Flush(uc)
    <3>1. CollectorOK(uc) /\ HasCalls(BuildTrace(uc), heard'.app)
      BY DEF Fits, Holds
    <3>2. file' = BuildTrace(uc) \/ behind'
      BY <2>2 DEF Flush
    <3>. QED  BY <3>1, <3>2, FileFlushed
  <2>. QED  BY <2>1, <2>2
<1>4. AppFits(app', heard'.app, OpenIn(running', Main), count'.calls)
  BY DEF AppFits
<1>. QED  BY <1>2, <1>3, <1>4

\* A collector whose snapshot is as before fits as before.
LEMMA FitsSame ==
  ASSUME NEW tc, NEW uc, NEW said, NEW a \in Speakers, NEW open, NEW n \in Nat,
         Fits(tc, said, a, open, n), CollectorOK(uc), SameText(tc, uc), SameCalls(tc, uc),
         uc.pendingTools = tc.pendingTools, InProgress(tc, a) => InProgress(uc, a) \/ open = {}
  PROVE  Fits(uc, said, a, open, n) /\ uc \in Collector
<1>1. Holds(uc, said) /\ CallsFit(uc, said, a, open, n)
  BY FitsKept DEF Fits
<1>. QED  BY <1>1 DEF Fits, Waits, CollectorOK

LEMMA AskKeeps ==
  ASSUME TraceIndInv, ModelAsked
  PROVE  TraceIndInv'
<1>1. /\ phase' = "asked" /\ Counts("asks", MaxAnswers) /\ LLMStart
      /\ UNCHANGED <<own, ownSeen, sub, running>> /\ \A p \in running : p[2] # Main
  BY DEF ModelAsked
<1>2. /\ count' \in [{"text", "calls", "asks", "answers", "traces"} -> Nat] /\ count'.calls = count.calls
      /\ count.calls \in Nat
  BY <1>1 DEF Counts, RunsOK, TraceIndInv
<1>3. OpenIn(running, Main) = {}
  BY <1>1, Speaking, OpenNone
<1>4. RunsOK'
  BY <1>1, <1>2, <1>3, RunsKept DEF TraceIndInv, RunsOK
<1>5. heard' = heard /\ KindsOK'
  BY <1>1 DEF LLMStart, Unheard, TraceIndInv, KindsOK
<1>6. OwnFits(own', heard'.own, sub', OpenIn(running', Sub), count'.calls)
  BY <1>1, <1>2, <1>4, <1>5, OwnKept
<1>7. /\ AppFits(app', heard'.app, OpenIn(running', Main), count'.calls)
      /\ FileFits(app', heard'.app, file', behind')
      /\ SubsFit(app', heard'.own, sub')
  <2>1. CASE Unheard
    <3>1. UNCHANGED <<app, file, behind>>
      BY <2>1 DEF Unheard
    <3>. QED  BY <1>1, <1>2, <1>4, <1>5, <3>1, AppKept DEF TraceIndInv
  <2>2. CASE app # <<>> /\ app' = <<EnsureTurn(app[1], Main)>> /\ UNCHANGED <<file, behind>>
    <3>. DEFINE uc == EnsureTurn(app[1], Main)
    <3>1. /\ CollectorOK(app[1])
          /\ Fits(app[1], heard.app, Main, OpenIn(running, Main), count.calls)
      BY <2>2, AppIs
    <3>2. /\ CollectorOK(uc) /\ SameText(app[1], uc) /\ SameCalls(app[1], uc) /\ SameUsages(app[1], uc)
          /\ uc.pendingTools = app[1].pendingTools /\ uc.subs = app[1].subs
      BY <3>1, Speaking, Ensured
    <3>. HIDE DEF uc
    <3>3. Fits(uc, heard.app, Main, OpenIn(running, Main), count.calls) /\ uc \in Collector
      BY <1>2, <1>3, <3>1, <3>2, Speaking, FitsSame
    <3>4. app' = <<uc>>
      BY <2>2 DEF uc
    <3>. QED  BY <1>1, <1>2, <1>5, <2>2, <3>2, <3>3, <3>4, AppChanged
  <2>. QED  BY <1>1, <2>1, <2>2 DEF LLMStart
<1>. QED  BY <1>4, <1>5, <1>6, <1>7 DEF TraceIndInv

LEMMA TextKeeps ==
  ASSUME TraceIndInv, Text, TraceAssumption
  PROVE  TraceIndInv'
<1>1. /\ phase = "asked" /\ Counts("text", MaxText) /\ UNCHANGED <<own, ownSeen, phase, sub, running>>
  BY DEF Text
<1>2. /\ count' \in [{"text", "calls", "asks", "answers", "traces"} -> Nat] /\ count'.calls = count.calls
      /\ count.calls \in Nat /\ count'.text \in Nat
  BY <1>1 DEF Counts, RunsOK, TraceIndInv
<1>3. OpenIn(running, Main) = {}
  BY <1>1 DEF TraceIndInv, RunsOK
<1>4. RunsOK'
  BY <1>1, <1>2, <1>3, RunsKept DEF TraceIndInv, RunsOK
<1>5. CASE Unheard
  <2>1. UNCHANGED <<app, file, behind, heard, traceUsageSeen>>
    BY <1>5 DEF Unheard
  <2>2. KindsOK'
    BY <1>1, <2>1 DEF TraceIndInv, KindsOK
  <2>3. OwnFits(own', heard'.own, sub', OpenIn(running', Sub), count'.calls)
    BY <1>1, <1>2, <1>4, <2>1, OwnKept
  <2>4. SubsFit(app', heard'.own, sub')
    BY <1>1, <2>1 DEF TraceIndInv
  <2>. QED  BY <1>1, <1>2, <1>4, <2>1, <2>2, <2>3, <2>4, AppKept DEF TraceIndInv
<1>6. CASE ~Unheard
  <2>. DEFINE tc == IF traceUsageSeen THEN FinalizeTurn(app[1], Main) ELSE app[1]
              piece == count'.text
              uc == AddTextDelta(tc, Main, piece)
              said == heard.app
              saidNow == [said EXCEPT !.text[Main] = Append(@, piece)]
  <2>1. /\ app # <<>> /\ app' = <<uc>> /\ heard' = [heard EXCEPT !.app = saidNow]
        /\ traceUsageSeen' = FALSE /\ NoFlush
    BY <1>1, <1>6 DEF Text, TextHeard
  <2>2. /\ CollectorOK(app[1]) /\ Holds(app[1], said)
        /\ CallsFit(app[1], said, Main, OpenIn(running, Main), count.calls)
    BY <2>1, AppIs DEF Fits
  <2>3. /\ CollectorOK(tc) /\ SameText(app[1], tc) /\ SameCalls(app[1], tc) /\ SameUsages(app[1], tc)
        /\ tc.pendingTools = app[1].pendingTools /\ tc.subs = app[1].subs
    <3>1. CASE traceUsageSeen
      BY <2>2, <3>1, Speaking, Finalized
    <3>2. CASE ~traceUsageSeen
      BY <2>2, <3>2 DEF SameText, SameCalls, SameUsages
    <3>. QED  BY <3>1, <3>2
  <2>. HIDE DEF tc, piece, said
  <2>4. Holds(tc, said) /\ CallsFit(tc, said, Main, OpenIn(running, Main), count.calls)
    BY <1>2, <2>2, <2>3, Speaking, FitsKept
  <2>5. piece \in Nat
    BY <1>2 DEF piece
  <2>6. /\ uc \in Collector /\ Fits(uc, saidNow, Main, OpenIn(running, Main), count.calls) /\ uc.subs = tc.subs
        /\ saidNow \in ToldSet /\ saidNow.ended = said.ended /\ SameUsages(tc, uc)
    BY <1>2, <2>4, <2>5, Speaking, FitsText
  <2>. HIDE DEF uc, saidNow
  <2>7. /\ heard' \in [app : ToldSet, own : ToldSet] /\ heard'.app = saidNow /\ heard'.own = heard.own
    BY <2>1, <2>6, HeardIs DEF TraceIndInv, KindsOK
  <2>8. UNCHANGED <<file, behind>> /\ SameUsages(app[1], uc) /\ heard'.app.ended = heard.app.ended /\ uc.subs = app[1].subs
    BY <2>1, <2>3, <2>6, <2>7 DEF NoFlush, SameUsages, said
  <2>9. KindsOK'
    BY <1>1, <2>1, <2>7, <2>8 DEF TraceIndInv, KindsOK
  <2>10. OwnFits(own', heard'.own, sub', OpenIn(running', Sub), count'.calls)
    BY <1>1, <1>2, <1>4, <2>7, OwnKept
  <2>11. Fits(uc, heard'.app, Main, OpenIn(running', Main), count'.calls)
    BY <1>1, <1>2, <2>6, <2>7
  <2>12. /\ AppFits(app', heard'.app, OpenIn(running', Main), count'.calls)
         /\ FileFits(app', heard'.app, file', behind')
         /\ SubsFit(app', heard'.own, sub')
    BY <1>1, <2>1, <2>6, <2>7, <2>8, <2>11, AppChanged
  <2>. QED  BY <1>4, <2>9, <2>10, <2>12 DEF TraceIndInv
<1>. QED  BY <1>5, <1>6

\* A usage is taken from the main agent, none of whose calls is open, or from the sub-agent.
LEMMA UsageTaken ==
  ASSUME TraceIndInv, RunsOK', NEW a \in Speakers, TakeUsage(a), UNCHANGED <<running, sub>>, count'.calls = count.calls,
         a = Main => OpenIn(running, Main) = {}
  PROVE  /\ UNCHANGED heard /\ behind' \in BOOLEAN /\ traceUsageSeen' \in BOOLEAN
         /\ AppFits(app', heard'.app, OpenIn(running', Main), count'.calls)
         /\ FileFits(app', heard'.app, file', behind')
         /\ SubsFit(app', heard'.own, sub')
<1>1. CASE app # <<>> /\ ~Unheard
  <2>. DEFINE tc == IF traceUsageSeen THEN FinalizeTurn(app[1], a) ELSE app[1]
              uc == SetUsage(tc, a)
  <2>1. app' = <<uc>> /\ Flush(uc) /\ traceUsageSeen' = (a = Main) /\ UNCHANGED heard
    BY <1>1 DEF TakeUsage
  <2>2. /\ CollectorOK(app[1]) /\ Fits(app[1], heard.app, Main, OpenIn(running, Main), count.calls)
    BY <1>1, AppIs
  <2>3. /\ CollectorOK(tc) /\ SameText(app[1], tc) /\ SameCalls(app[1], tc)
        /\ tc.pendingTools = app[1].pendingTools /\ tc.subs = app[1].subs
        /\ a # Main => tc.currentTurn[Main] = app[1].currentTurn[Main]
    <3>1. CASE traceUsageSeen
      BY <2>2, <3>1, Speaking, Finalized
    <3>2. CASE ~traceUsageSeen
      BY <2>2, <3>2 DEF SameText, SameCalls
    <3>. QED  BY <3>1, <3>2
  <2>. HIDE DEF tc
  <2>4. /\ CollectorOK(uc) /\ SameText(tc, uc) /\ SameCalls(tc, uc) /\ SameOther(tc, uc, a)
        /\ InProgress(uc, a) /\ uc.pendingTools = tc.pendingTools /\ uc.subs = tc.subs
    BY <2>3, UsageSet
  <2>. HIDE DEF uc
  <2>5. /\ SameText(app[1], uc) /\ SameCalls(app[1], uc) /\ uc.subs = app[1].subs
        /\ uc.pendingTools = app[1].pendingTools
    BY <2>3, <2>4 DEF SameText, SameCalls
  <2>6. InProgress(app[1], Main) => InProgress(uc, Main) \/ OpenIn(running, Main) = {}
    BY <2>3, <2>4, Speaking DEF InProgress, SameOther
  <2>7. Fits(uc, heard.app, Main, OpenIn(running, Main), count.calls) /\ uc \in Collector
    BY <2>2, <2>4, <2>5, <2>6, Speaking, FitsSame DEF TraceIndInv, RunsOK
  <2>8. behind' \in BOOLEAN
    BY <2>1 DEF Flush
  <2>. QED  BY <1>1, <2>1, <2>5, <2>7, <2>8, AppChanged
<1>2. CASE app = <<>> \/ Unheard
  <2>1. UNCHANGED <<app, file, behind, heard>> /\ traceUsageSeen' \in BOOLEAN
    <3>1. CASE Unheard
      BY <3>1 DEF Unheard, TraceIndInv, KindsOK
    <3>2. CASE app = <<>> /\ ~Unheard
      BY <3>2 DEF TakeUsage, TraceIndInv, KindsOK
    <3>. QED  BY <1>2, <3>1, <3>2
  <2>2. behind' \in BOOLEAN /\ SubsFit(app', heard'.own, sub')
    BY <2>1 DEF TraceIndInv, KindsOK
  <2>3. count.calls <= count'.calls
    BY DEF TraceIndInv, RunsOK
  <2>. QED  BY <2>1, <2>2, <2>3, AppKept
<1>. QED  BY <1>1, <1>2

LEMMA AnswerKeeps ==
  ASSUME TraceIndInv, Answered
  PROVE  TraceIndInv'
<1>1. /\ phase = "asked" /\ phase' = "answered" /\ TakeUsage(Main)
      /\ UNCHANGED <<own, ownSeen, sub, running, count>>
  BY DEF Answered
<1>2. OpenIn(running, Main) = {}
  BY <1>1 DEF TraceIndInv, RunsOK
<1>3. RunsOK'
  BY <1>1, RunsKept DEF TraceIndInv, RunsOK
<1>4. /\ UNCHANGED heard /\ behind' \in BOOLEAN /\ traceUsageSeen' \in BOOLEAN
      /\ AppFits(app', heard'.app, OpenIn(running', Main), count'.calls)
      /\ FileFits(app', heard'.app, file', behind')
      /\ SubsFit(app', heard'.own, sub')
  BY <1>1, <1>2, <1>3, Speaking, UsageTaken
<1>5. KindsOK'
  BY <1>1, <1>4 DEF TraceIndInv, KindsOK
<1>6. OwnFits(own', heard'.own, sub', OpenIn(running', Sub), count'.calls)
  BY <1>1, <1>4 DEF TraceIndInv
<1>. QED  BY <1>3, <1>4, <1>5, <1>6 DEF TraceIndInv

\* A call of agent a starts.
LEMMA RunsStart ==
  ASSUME TraceIndInv, TraceAssumption, NEW a \in Speakers, NEW b \in Speakers, a # b, Counts("calls", MaxCalls),
         running' = running \cup {<<count'.calls, a>>}, UNCHANGED <<phase, sub>>,
         a = Main => phase # "asked", a = Sub => sub \notin {"none", "done"}
  PROVE  /\ RunsOK' /\ count'.calls = count.calls + 1 /\ count.calls \in Nat /\ count'.calls \in Nat
         /\ OpenIn(running', a) = OpenIn(running, a) \cup {count'.calls}
         /\ OpenIn(running', b) = OpenIn(running, b)
<1>. DEFINE c == count'.calls
            p == <<c, a>>
<1>1. /\ count' \in [{"text", "calls", "asks", "answers", "traces"} -> Nat] /\ c = count.calls + 1
      /\ count.calls \in Nat /\ c \in Nat /\ c <= MaxCalls
  BY CountsGrow DEF RunsOK, TraceIndInv, TraceAssumption
<1>2. p[1] = c /\ p[2] = a
  OBVIOUS
<1>3. running' = running \cup {p}
  OBVIOUS
<1>. HIDE DEF p
<1>4. OpenIn(running', a) = OpenIn(running, a) \cup {c} /\ OpenIn(running', b) = OpenIn(running, b)
  <2>1. {q \in running' : q[2] = a} = {q \in running : q[2] = a} \cup {p}
    BY <1>2, <1>3
  <2>2. {q \in running' : q[2] = b} = {q \in running : q[2] = b}
    BY <1>2, <1>3
  <2>. QED  BY <1>2, <2>1, <2>2 DEF OpenIn
<1>5. running' \subseteq (1..c) \X Speakers
  <2>1. \A q \in running : q \in (1..count.calls) \X Speakers
    BY DEF TraceIndInv, RunsOK
  <2>2. 1..count.calls \subseteq 1..c /\ c \in 1..c
    BY <1>1
  <2>. HIDE DEF c
  <2>3. p \in (1..c) \X Speakers
    BY <2>2 DEF p
  <2>. QED  BY <1>3, <2>1, <2>2, <2>3
<1>6. \A q, r \in running' : q[1] = r[1] => q = r
  <2>1. \A q \in running : q[1] \in 1..count.calls
    BY DEF TraceIndInv, RunsOK
  <2>2. c \notin 1..count.calls
    BY <1>1
  <2>3. \A q, r \in running : q[1] = r[1] => q = r
    BY DEF TraceIndInv, RunsOK
  <2>. HIDE DEF c
  <2>. QED  BY <1>2, <1>3, <2>1, <2>2, <2>3
<1>7. (a = Main /\ b = Sub) \/ (a = Sub /\ b = Main)
  BY DEF Speakers
<1>8. /\ phase' = "asked" => OpenIn(running', Main) = {}
      /\ sub' \in {"none", "done"} => OpenIn(running', Sub) = {}
  BY <1>4, <1>7 DEF TraceIndInv, RunsOK
<1>9. RunsOK'
  BY <1>1, <1>5, <1>6, <1>8 DEF RunsOK
<1>. QED  BY <1>1, <1>4, <1>9

LEMMA ToolStartKeeps ==
  ASSUME TraceIndInv, ToolStarts, TraceAssumption
  PROVE  TraceIndInv'
<1>. DEFINE c == count'.calls
<1>1. /\ phase = "answered" /\ Counts("calls", MaxCalls) /\ running' = running \cup {<<c, Main>>}
      /\ UNCHANGED <<own, ownSeen, phase, sub>>
  BY DEF ToolStarts
<1>2. /\ RunsOK' /\ c = count.calls + 1 /\ count.calls \in Nat /\ c \in Nat
      /\ OpenIn(running', Main) = OpenIn(running, Main) \cup {c} /\ OpenIn(running', Sub) = OpenIn(running, Sub)
  BY <1>1, Speaking, RunsStart
<1>. HIDE DEF c
<1>5. count.calls <= count'.calls
  BY <1>2 DEF c
<1>6. CASE app # <<>> /\ ~Unheard
  <2>. DEFINE said == heard.app
              uc == StartToolCall(app[1], Main, c)
              saidNow == [said EXCEPT !.asked = @ \cup {c}]
  <2>1. /\ app' = <<uc>> /\ UNCHANGED <<traceUsageSeen, file, behind>> /\ heard' = [heard EXCEPT !.app = saidNow]
    BY <1>6 DEF ToolStarts, CallHeard, c
  <2>. HIDE DEF said
  <2>2. Fits(app[1], said, Main, OpenIn(running, Main), count.calls)
    BY <1>6, AppIs DEF said
  <2>3. OpenIn(running, Main) \subseteq 1..count.calls
    BY Speaking, OpenKind DEF TraceIndInv
  <2>4. /\ uc \in Collector /\ Fits(uc, saidNow, Main, OpenIn(running, Main) \cup {c}, c) /\ uc.subs = app[1].subs
        /\ saidNow \in ToldSet /\ saidNow.ended = said.ended /\ SameUsages(app[1], uc)
    <3>1. count.calls < c /\ count.calls \in Nat /\ c \in Nat
      BY <1>2
    <3>. QED  BY <2>2, <2>3, <3>1, Speaking, FitsStart
  <2>. HIDE DEF uc, saidNow
  <2>5. /\ heard' \in [app : ToldSet, own : ToldSet] /\ heard'.app = saidNow /\ heard'.own = heard.own
    BY <2>1, <2>4, HeardIs DEF TraceIndInv, KindsOK
  <2>6. heard'.app.ended = heard.app.ended
    BY <2>4, <2>5 DEF said
  <2>7. Fits(uc, heard'.app, Main, OpenIn(running', Main), count'.calls)
    BY <1>2, <2>4, <2>5 DEF c
  <2>8. /\ AppFits(app', heard'.app, OpenIn(running', Main), count'.calls)
        /\ FileFits(app', heard'.app, file', behind')
        /\ SubsFit(app', heard'.own, sub')
    BY <1>1, <1>6, <2>1, <2>4, <2>5, <2>6, <2>7, AppChanged
  <2>9. KindsOK'
    BY <1>1, <2>1, <2>5 DEF TraceIndInv, KindsOK
  <2>10. OwnFits(own', heard'.own, sub', OpenIn(running', Sub), count'.calls)
    BY <1>1, <1>2, <1>5, <2>5, OwnKept
  <2>. QED  BY <1>2, <2>8, <2>9, <2>10 DEF TraceIndInv
<1>7. CASE Unheard
  <2>1. UNCHANGED <<app, file, behind, heard, traceUsageSeen>>
    BY <1>7 DEF Unheard
  <2>2. KindsOK'
    BY <1>1, <2>1 DEF TraceIndInv, KindsOK
  <2>3. OwnFits(own', heard'.own, sub', OpenIn(running', Sub), count'.calls)
    BY <1>1, <1>2, <1>5, <2>1, OwnKept
  <2>4. SubsFit(app', heard'.own, sub')
    BY <1>1, <2>1 DEF TraceIndInv
  <2>5. FileFits(app', heard'.app, file', behind')
    BY <2>1 DEF TraceIndInv
  <2>6. AppFits(app', heard'.app, OpenIn(running', Main), count'.calls)
    <3>1. CASE app = <<>>
      BY <2>1, <3>1 DEF AppFits
    <3>2. CASE app # <<>>
      <4>1. /\ app = <<app[1]>> /\ app[1] \in Collector
            /\ Fits(app[1], heard.app, Main, OpenIn(running, Main), count.calls)
        BY <3>2, AppIs
      <4>2. Fits(app[1], heard.app, Main, OpenIn(running', Main), count'.calls)
        <5>1. c \notin heard.app.asked /\ 1..count.calls \subseteq 1..c
          <6>1. heard.app.asked \subseteq 1..count.calls
            BY <4>1 DEF Fits, CallsFit
          <6>. QED  BY <1>2, <6>1
        <5>2. OpenIn(running', Main) \cap heard.app.asked = OpenIn(running, Main) \cap heard.app.asked
          BY <1>2, <5>1
        <5>. QED  BY <4>1, <5>1, <5>2 DEF Fits, CallsFit, Waits, c
      <4>. QED  BY <2>1, <4>1, <4>2 DEF AppFits
    <3>. QED  BY <3>1, <3>2
  <2>. QED  BY <1>2, <2>2, <2>3, <2>4, <2>5, <2>6 DEF TraceIndInv
<1>8. Unheard \/ app # <<>>
  BY DEF ToolStarts
<1>. QED  BY <1>6, <1>7, <1>8

\* A call of agent a ends, or all of them do.
LEMMA RunsEnd ==
  ASSUME TraceIndInv, NEW p \in running, running' = running \ {p}, UNCHANGED <<phase, sub, count>>, NEW b, b # p[2]
  PROVE  /\ RunsOK' /\ p[1] \in Nat /\ p[1] \in OpenIn(running, p[2])
         /\ OpenIn(running', p[2]) = OpenIn(running, p[2]) \ {p[1]} /\ OpenIn(running', b) = OpenIn(running, b)
<1>1. /\ \A q \in running : q[1] = p[1] => q = p
      /\ count.calls \in Nat /\ p \in (1..count.calls) \X Speakers
  BY DEF TraceIndInv, RunsOK
<1>2. /\ p[1] \in OpenIn(running, p[2])
      /\ OpenIn(running', p[2]) = OpenIn(running, p[2]) \ {p[1]} /\ OpenIn(running', b) = OpenIn(running, b)
  BY <1>1, OpenLess
<1>3. p[1] \in Nat
  BY <1>1
<1>4. OpenIn(running', Main) \subseteq OpenIn(running, Main) /\ OpenIn(running', Sub) \subseteq OpenIn(running, Sub)
  BY DEF OpenIn
<1>5. RunsOK'
  BY <1>4 DEF TraceIndInv, RunsOK
<1>. QED  BY <1>2, <1>3, <1>5

LEMMA RunsDrop ==
  ASSUME TraceIndInv, NEW a \in Speakers, NEW b \in Speakers, a # b, running' = {p \in running : p[2] = b},
         UNCHANGED count, phase' = "asked" => phase = "asked",
         sub' \in {"none", "done"} => sub \in {"none", "done"} \/ a = Sub
  PROVE  RunsOK' /\ OpenIn(running', a) = {} /\ OpenIn(running', b) = OpenIn(running, b)
<1>1. OpenIn(running', a) = {} /\ OpenIn(running', b) = OpenIn(running, b)
  <2>. DEFINE rest == {p \in running : p[2] = b}
  <2>1. OpenIn(rest, a) = {} /\ OpenIn(rest, b) = OpenIn(running, b)
    <3>1. {q \in rest : q[2] = a} = {} /\ {q \in rest : q[2] = b} = {q \in running : q[2] = b}
      OBVIOUS
    <3>. HIDE DEF rest
    <3>. QED  BY <3>1 DEF OpenIn
  <2>2. running' = rest
    OBVIOUS
  <2>. HIDE DEF rest
  <2>. QED  BY <2>1, <2>2
<1>2. /\ running' \subseteq (1..count.calls) \X Speakers
      /\ \A p, q \in running' : p[1] = q[1] => p = q
  BY DEF TraceIndInv, RunsOK
<1>3. {a, b} = {Main, Sub}
  BY DEF Speakers
<1>4. phase' = "asked" => OpenIn(running', Main) = {}
  BY <1>1, <1>3 DEF TraceIndInv, RunsOK
<1>5. sub' \in {"none", "done"} => OpenIn(running', Sub) = {}
  BY <1>1, <1>3 DEF TraceIndInv, RunsOK
<1>. QED  BY <1>1, <1>2, <1>4, <1>5 DEF TraceIndInv, RunsOK

LEMMA ToolEndKeeps ==
  ASSUME TraceIndInv, ToolEnds
  PROVE  TraceIndInv'
<1>1. PICK p \in running :
        /\ p[2] = Main /\ running' = running \ {p} /\ UNCHANGED <<own, ownSeen, phase, sub, count>>
        /\ \/ /\ app # <<>>
              /\ LET said == EndToolCall(app[1], p[1]) IN app' = <<said>> /\ Flush(said)
              /\ heard' = [heard EXCEPT !.app = EndHeard(@, p[1])]
              /\ UNCHANGED traceUsageSeen
           \/ Unheard
  BY DEF ToolEnds
<1>2. /\ RunsOK' /\ p[1] \in Nat /\ p[1] \in OpenIn(running, Main)
      /\ OpenIn(running', Main) = OpenIn(running, Main) \ {p[1]} /\ OpenIn(running', Sub) = OpenIn(running, Sub)
  <2>1. Sub # p[2]
    BY <1>1, Speaking
  <2>. QED  BY <1>1, <2>1, RunsEnd
<1>3. count.calls \in Nat /\ count.calls <= count'.calls
  BY <1>1 DEF TraceIndInv, RunsOK
<1>4. CASE Unheard
  <2>1. UNCHANGED <<app, file, behind, heard, traceUsageSeen>>
    BY <1>4 DEF Unheard
  <2>2. KindsOK'
    BY <1>1, <2>1 DEF TraceIndInv, KindsOK
  <2>3. OwnFits(own', heard'.own, sub', OpenIn(running', Sub), count'.calls)
    BY <1>1, <1>2, <1>3, <2>1, OwnKept
  <2>4. SubsFit(app', heard'.own, sub')
    BY <1>1, <2>1 DEF TraceIndInv
  <2>5. OpenIn(running', Main) \subseteq OpenIn(running, Main)
    BY <1>2
  <2>. QED  BY <1>2, <1>3, <2>1, <2>2, <2>3, <2>4, <2>5, AppKept DEF TraceIndInv
<1>5. CASE app # <<>> /\ ~Unheard
  <2>. DEFINE said == heard.app
              c == p[1]
              uc == EndToolCall(app[1], c)
              saidNow == [said EXCEPT !.ended = @ \cup ({c} \cap said.asked)]
  <2>1. /\ app' = <<uc>> /\ Flush(uc) /\ UNCHANGED traceUsageSeen /\ heard' = [heard EXCEPT !.app = saidNow]
    BY <1>1, <1>5 DEF EndHeard
  <2>. HIDE DEF said, c
  <2>2. Fits(app[1], said, Main, OpenIn(running, Main), count.calls)
    BY <1>5, AppIs DEF said
  <2>3. c \in Nat /\ c \in OpenIn(running, Main)
    BY <1>2 DEF c
  <2>4. /\ uc \in Collector /\ Fits(uc, saidNow, Main, OpenIn(running, Main) \ {c}, count.calls) /\ uc.subs = app[1].subs
        /\ saidNow \in ToldSet
    BY <1>3, <2>2, <2>3, Speaking, FitsEnd
  <2>. HIDE DEF uc, saidNow
  <2>5. /\ heard' \in [app : ToldSet, own : ToldSet] /\ heard'.app = saidNow /\ heard'.own = heard.own
    BY <2>1, <2>4, HeardIs DEF TraceIndInv, KindsOK
  <2>6. Fits(uc, heard'.app, Main, OpenIn(running', Main), count'.calls)
    BY <1>1, <1>2, <2>4, <2>5 DEF c
  <2>7. /\ AppFits(app', heard'.app, OpenIn(running', Main), count'.calls)
        /\ FileFits(app', heard'.app, file', behind')
        /\ SubsFit(app', heard'.own, sub')
    BY <1>1, <1>5, <2>1, <2>4, <2>5, <2>6, AppChanged
  <2>8. behind' \in BOOLEAN
    BY <2>1 DEF Flush
  <2>9. KindsOK'
    BY <1>1, <2>1, <2>5, <2>8 DEF TraceIndInv, KindsOK
  <2>10. OwnFits(own', heard'.own, sub', OpenIn(running', Sub), count'.calls)
    BY <1>1, <1>2, <1>3, <2>5, OwnKept
  <2>. QED  BY <1>2, <2>7, <2>9, <2>10 DEF TraceIndInv
<1>. QED  BY <1>1, <1>4, <1>5

LEMMA TurnEndKeeps ==
  ASSUME TraceIndInv, TurnEnds
  PROVE  TraceIndInv'
<1>1. /\ phase' = "idle" /\ running' = {p \in running : p[2] = Sub} /\ traceUsageSeen' = FALSE
      /\ UNCHANGED <<own, ownSeen, sub, count, heard>>
      /\ \/ app # <<>> /\ app' = <<Finalize(app[1])>> /\ Flush(app'[1])
         \/ app = <<>> /\ UNCHANGED <<app, file, behind, lost>>
  BY DEF TurnEnds
<1>2. RunsOK' /\ OpenIn(running', Main) = {} /\ OpenIn(running', Sub) = OpenIn(running, Sub)
  BY <1>1, Speaking, RunsDrop
<1>3. count.calls \in Nat /\ count.calls <= count'.calls
  BY <1>1 DEF TraceIndInv, RunsOK
<1>4. OwnFits(own', heard'.own, sub', OpenIn(running', Sub), count'.calls)
  BY <1>1, <1>2, <1>3, OwnKept
<1>5. CASE app = <<>>
  <2>1. UNCHANGED <<app, file, behind>>
    BY <1>1, <1>5
  <2>2. KindsOK'
    BY <1>1, <2>1 DEF TraceIndInv, KindsOK
  <2>3. SubsFit(app', heard'.own, sub') /\ FileFits(app', heard'.app, file', behind')
    BY <1>1, <2>1 DEF TraceIndInv
  <2>4. AppFits(app', heard'.app, OpenIn(running', Main), count'.calls)
    BY <1>5, <2>1 DEF AppFits
  <2>. QED  BY <1>2, <1>4, <2>2, <2>3, <2>4 DEF TraceIndInv
<1>6. CASE app # <<>>
  <2>. DEFINE uc == Finalize(app[1])
  <2>1. app' = <<uc>> /\ Flush(uc)
    <3>1. app' = <<uc>> /\ Flush(app'[1])
      BY <1>1, <1>6
    <3>2. app'[1] = uc
      BY <3>1
    <3>. QED  BY <3>1, <3>2
  <2>2. CollectorOK(app[1]) /\ Fits(app[1], heard.app, Main, OpenIn(running, Main), count.calls)
    BY <1>6, AppIs
  <2>3. /\ CollectorOK(uc) /\ SameText(app[1], uc) /\ SameCalls(app[1], uc)
        /\ uc.pendingTools = app[1].pendingTools /\ uc.subs = app[1].subs
    BY <2>2, AllFinished
  <2>. HIDE DEF uc
  <2>4. Fits(app[1], heard.app, Main, {}, count.calls)
    BY <1>3, <2>2, Speaking, FitsLess
  <2>5. Fits(uc, heard.app, Main, {}, count.calls) /\ uc \in Collector
    BY <1>3, <2>3, <2>4, Speaking, FitsSame
  <2>6. Fits(uc, heard'.app, Main, OpenIn(running', Main), count'.calls)
    BY <1>1, <1>2, <2>5
  <2>7. behind' \in BOOLEAN
    BY <2>1 DEF Flush
  <2>8. KindsOK'
    BY <1>1, <2>7 DEF TraceIndInv, KindsOK
  <2>9. /\ AppFits(app', heard'.app, OpenIn(running', Main), count'.calls)
        /\ FileFits(app', heard'.app, file', behind')
        /\ SubsFit(app', heard'.own, sub')
    BY <1>1, <1>6, <2>1, <2>3, <2>5, <2>6, AppChanged
  <2>. QED  BY <1>2, <1>4, <2>8, <2>9 DEF TraceIndInv
<1>. QED  BY <1>5, <1>6

\* A trace is begun, or is let go.
LEMMA SwitchKeeps ==
  ASSUME TraceIndInv, TraceAssumption, NewTrace \/ (LetGo /\ UNCHANGED count),
         UNCHANGED <<own, traceUsageSeen, ownSeen, phase, sub, running>>
  PROVE  TraceIndInv'
<1>1. /\ file' = <<>> /\ behind' = FALSE /\ heard' = [heard EXCEPT !.app = NothingHeard]
      /\ app' = <<>> \/ app' = <<NewTraceCollector>>
      /\ count' \in [{"text", "calls", "asks", "answers", "traces"} -> Nat] /\ count'.calls = count.calls
      /\ count.calls \in Nat
  BY DEF NewTrace, LetGo, Counts, TraceIndInv, RunsOK
<1>2. RunsOK'
  BY <1>1, RunsKept DEF TraceIndInv, RunsOK
<1>. DEFINE uc == NewTraceCollector
<1>3. /\ uc \in Collector /\ Fits(uc, NothingHeard, Main, OpenIn(running, Main), count.calls)
      /\ uc.subs = <<>> /\ NothingHeard \in ToldSet
      /\ <<>> \in Seq(TurnSet) /\ HasCalls(<<>>, NothingHeard) /\ Usages(<<>>) = Usages(BuildTrace(uc))
  BY <1>1, Speaking, FitsNew
<1>. HIDE DEF uc
<1>4. /\ heard' \in [app : ToldSet, own : ToldSet] /\ heard'.app = NothingHeard /\ heard'.own = heard.own
  BY <1>1, <1>3, HeardIs DEF TraceIndInv, KindsOK
<1>5. KindsOK'
  BY <1>1, <1>4 DEF TraceIndInv, KindsOK
<1>6. OwnFits(own', heard'.own, sub', OpenIn(running', Sub), count'.calls)
  BY <1>1, <1>4 DEF TraceIndInv
<1>7. CASE app' = <<>>
  <2>1. AppFits(app', heard'.app, OpenIn(running', Main), count'.calls)
    BY <1>7 DEF AppFits
  <2>2. FileFits(app', heard'.app, file', behind')
    BY <1>7 DEF FileFits
  <2>3. SubsFit(app', heard'.own, sub')
    BY <1>7 DEF SubsFit
  <2>. QED  BY <1>2, <1>5, <1>6, <2>1, <2>2, <2>3 DEF TraceIndInv
<1>8. CASE app' = <<uc>>
  <2>0. <<uc>>[1] = uc /\ DOMAIN <<uc>> = {1} /\ DOMAIN uc.subs = {}
    BY <1>3
  <2>1. AppFits(app', heard'.app, OpenIn(running', Main), count'.calls)
    BY <1>1, <1>3, <1>4, <1>8 DEF AppFits
  <2>2. FileFits(app', heard'.app, file', behind')
    BY <1>1, <1>3, <1>4, <1>8, <2>0 DEF FileFits
  <2>3. SubsFit(app', heard'.own, sub')
    BY <1>8, <2>0 DEF SubsFit
  <2>. QED  BY <1>2, <1>5, <1>6, <2>1, <2>2, <2>3 DEF TraceIndInv
<1>. QED  BY <1>1, <1>7, <1>8 DEF uc

LEMMA SubStartKeeps ==
  ASSUME TraceIndInv, SubStarts
  PROVE  TraceIndInv'
<1>1. /\ sub = "none" /\ sub' = "runs" /\ own' = <<NewTraceCollector>> /\ ownSeen' = FALSE
      /\ UNCHANGED <<running, count, heard, app, traceUsageSeen, phase, file, behind>>
  BY DEF SubStarts, SubUnseen
<1>2. RunsOK'
  BY <1>1, RunsKept DEF TraceIndInv, RunsOK
<1>3. KindsOK'
  BY <1>1 DEF TraceIndInv, KindsOK
<1>. DEFINE uc == NewTraceCollector
<1>4. uc \in Collector /\ Fits(uc, NothingHeard, Sub, OpenIn(running, Sub), count.calls)
  BY Speaking, FitsNew DEF TraceIndInv, RunsOK
<1>5. heard.own = NothingHeard
  BY <1>1 DEF TraceIndInv, OwnFits
<1>. HIDE DEF uc
<1>6. OwnFits(own', heard'.own, sub', OpenIn(running', Sub), count'.calls)
  BY <1>1, <1>4, <1>5 DEF OwnFits, uc
<1>7. SubsFit(app', heard'.own, sub')
  BY <1>1, SubsNone DEF TraceIndInv
<1>8. /\ AppFits(app', heard'.app, OpenIn(running', Main), count'.calls)
      /\ FileFits(app', heard'.app, file', behind')
  BY <1>1 DEF TraceIndInv
<1>. QED  BY <1>2, <1>3, <1>6, <1>7, <1>8 DEF TraceIndInv

LEMMA SubTextKeeps ==
  ASSUME TraceIndInv, SubText, TraceAssumption
  PROVE  TraceIndInv'
<1>. DEFINE ends == sub = "runs" /\ ownSeen
            tc == IF ends THEN FinalizeTurn(own[1], Sub) ELSE own[1]
            piece == count'.text
            uc == AddTextDelta(tc, Sub, piece)
            said == heard.own
            saidNow == [said EXCEPT !.text[Sub] = Append(@, piece)]
<1>1. /\ sub \in {"runs", "fallback"} /\ Counts("text", MaxText)
      /\ own' = <<uc>> /\ ownSeen' = (ownSeen /\ ~ends)
      /\ heard' = [heard EXCEPT !.own = saidNow]
      /\ UNCHANGED <<sub, running, app, traceUsageSeen, phase, file, behind>>
  BY DEF SubText, SubUnseen, TextHeard
<1>2. /\ count' \in [{"text", "calls", "asks", "answers", "traces"} -> Nat] /\ count'.calls = count.calls
      /\ count.calls \in Nat /\ piece \in Nat
  BY <1>1 DEF Counts, RunsOK, TraceIndInv
<1>3. RunsOK'
  BY <1>1, <1>2, RunsKept DEF TraceIndInv, RunsOK
<1>4. /\ CollectorOK(own[1]) /\ Holds(own[1], said)
      /\ CallsFit(own[1], said, Sub, OpenIn(running, Sub), count.calls)
  BY <1>1, OwnIs DEF Fits
<1>5. /\ CollectorOK(tc) /\ SameText(own[1], tc) /\ SameCalls(own[1], tc)
      /\ tc.pendingTools = own[1].pendingTools
  <2>1. CASE ends
    BY <1>4, <2>1, Speaking, Finalized
  <2>2. CASE ~ends
    BY <1>4, <2>2 DEF SameText, SameCalls
  <2>. QED  BY <2>1, <2>2
<1>6. ownSeen' \in BOOLEAN
  BY <1>1
<1>. HIDE DEF tc, piece, said, ends
<1>7. Holds(tc, said) /\ CallsFit(tc, said, Sub, OpenIn(running, Sub), count.calls)
  BY <1>2, <1>4, <1>5, Speaking, FitsKept
<1>8. /\ uc \in Collector /\ Fits(uc, saidNow, Sub, OpenIn(running, Sub), count.calls) /\ saidNow \in ToldSet
  BY <1>2, <1>7, Speaking, FitsText
<1>. HIDE DEF uc, saidNow
<1>9. /\ heard' \in [app : ToldSet, own : ToldSet] /\ heard'.own = saidNow /\ heard'.app = heard.app
  BY <1>1, <1>8, HeardIs DEF TraceIndInv, KindsOK
<1>10. KindsOK'
  BY <1>1, <1>6, <1>9 DEF TraceIndInv, KindsOK
<1>11. OwnFits(own', heard'.own, sub', OpenIn(running', Sub), count'.calls)
  BY <1>1, <1>2, <1>8, <1>9 DEF OwnFits
<1>12. SubsFit(app', heard'.own, sub')
  BY <1>1, SubsNone DEF TraceIndInv
<1>13. /\ AppFits(app', heard'.app, OpenIn(running', Main), count'.calls)
       /\ FileFits(app', heard'.app, file', behind')
  BY <1>1, <1>2, <1>9 DEF TraceIndInv
<1>. QED  BY <1>3, <1>10, <1>11, <1>12, <1>13 DEF TraceIndInv

LEMMA SubAnswerKeeps ==
  ASSUME TraceIndInv, SubAnswered
  PROVE  TraceIndInv'
<1>. DEFINE uc == SetUsage(own[1], Sub)
<1>1. /\ sub \in {"runs", "fallback"} /\ Counts("answers", MaxAnswers) /\ own' = <<uc>>
      /\ ownSeen' = (ownSeen \/ sub = "runs") /\ TakeUsage(Sub) /\ UNCHANGED <<phase, sub, running>>
  BY DEF SubAnswered
<1>2. /\ count' \in [{"text", "calls", "asks", "answers", "traces"} -> Nat] /\ count'.calls = count.calls
      /\ count.calls \in Nat
  BY <1>1 DEF Counts, RunsOK, TraceIndInv
<1>3. RunsOK'
  BY <1>1, <1>2, RunsKept DEF TraceIndInv, RunsOK
<1>4. /\ UNCHANGED heard /\ behind' \in BOOLEAN /\ traceUsageSeen' \in BOOLEAN
      /\ AppFits(app', heard'.app, OpenIn(running', Main), count'.calls)
      /\ FileFits(app', heard'.app, file', behind')
      /\ SubsFit(app', heard'.own, sub')
  BY <1>1, <1>2, <1>3, Speaking, UsageTaken
<1>5. KindsOK'
  BY <1>1, <1>4 DEF TraceIndInv, KindsOK
<1>6. CollectorOK(own[1]) /\ Fits(own[1], heard.own, Sub, OpenIn(running, Sub), count.calls)
  BY <1>1, OwnIs
<1>7. /\ CollectorOK(uc) /\ SameText(own[1], uc) /\ SameCalls(own[1], uc)
      /\ InProgress(uc, Sub) /\ uc.pendingTools = own[1].pendingTools
  BY <1>6, Speaking, UsageSet
<1>. HIDE DEF uc
<1>8. Fits(uc, heard.own, Sub, OpenIn(running, Sub), count.calls) /\ uc \in Collector
  BY <1>2, <1>6, <1>7, Speaking, FitsSame
<1>9. OwnFits(own', heard'.own, sub', OpenIn(running', Sub), count'.calls)
  BY <1>1, <1>2, <1>4, <1>8 DEF OwnFits
<1>. QED  BY <1>3, <1>4, <1>5, <1>9 DEF TraceIndInv

LEMMA SubToolStartKeeps ==
  ASSUME TraceIndInv, SubToolStarts, TraceAssumption
  PROVE  TraceIndInv'
<1>. DEFINE c == count'.calls
            said == heard.own
            uc == StartToolCall(own[1], Sub, c)
            saidNow == [said EXCEPT !.asked = @ \cup {c}]
<1>1. /\ sub \in {"runs", "fallback"} /\ Counts("calls", MaxCalls) /\ own' = <<uc>>
      /\ running' = running \cup {<<c, Sub>>} /\ heard' = [heard EXCEPT !.own = saidNow]
      /\ UNCHANGED <<ownSeen, sub, app, traceUsageSeen, phase, file, behind>>
  BY DEF SubToolStarts, SubUnseen, CallHeard
<1>2. /\ RunsOK' /\ c = count.calls + 1 /\ count.calls \in Nat /\ c \in Nat
      /\ OpenIn(running', Sub) = OpenIn(running, Sub) \cup {c} /\ OpenIn(running', Main) = OpenIn(running, Main)
  BY <1>1, Speaking, RunsStart
<1>3. count.calls <= count'.calls
  BY <1>2
<1>. HIDE DEF said, c
<1>4. Fits(own[1], said, Sub, OpenIn(running, Sub), count.calls)
  BY <1>1, OwnIs DEF said
<1>5. OpenIn(running, Sub) \subseteq 1..count.calls
  BY Speaking, OpenKind DEF TraceIndInv
<1>6. /\ uc \in Collector /\ Fits(uc, saidNow, Sub, OpenIn(running, Sub) \cup {c}, c) /\ saidNow \in ToldSet
  <2>1. count.calls < c /\ count.calls \in Nat /\ c \in Nat
    BY <1>2
  <2>. QED  BY <1>4, <1>5, <2>1, Speaking, FitsStart
<1>. HIDE DEF uc, saidNow
<1>7. /\ heard' \in [app : ToldSet, own : ToldSet] /\ heard'.own = saidNow /\ heard'.app = heard.app
  BY <1>1, <1>6, HeardIs DEF TraceIndInv, KindsOK
<1>8. KindsOK'
  BY <1>1, <1>7 DEF TraceIndInv, KindsOK
<1>9. OwnFits(own', heard'.own, sub', OpenIn(running', Sub), count'.calls)
  BY <1>1, <1>2, <1>6, <1>7 DEF OwnFits, c
<1>10. SubsFit(app', heard'.own, sub')
  BY <1>1, SubsNone DEF TraceIndInv
<1>11. /\ AppFits(app', heard'.app, OpenIn(running', Main), count'.calls)
       /\ FileFits(app', heard'.app, file', behind')
  BY <1>1, <1>2, <1>3, <1>7, AppKept
<1>. QED  BY <1>2, <1>8, <1>9, <1>10, <1>11 DEF TraceIndInv

LEMMA SubToolEndKeeps ==
  ASSUME TraceIndInv, SubToolEnds
  PROVE  TraceIndInv'
<1>1. PICK p \in running :
        /\ p[2] = Sub /\ running' = running \ {p} /\ own' = <<EndToolCall(own[1], p[1])>>
        /\ heard' = [heard EXCEPT !.own = EndHeard(@, p[1])]
        /\ UNCHANGED <<ownSeen, sub, count, app, traceUsageSeen, phase, file, behind>>
  BY DEF SubToolEnds, SubUnseen
<1>2. /\ RunsOK' /\ p[1] \in Nat /\ p[1] \in OpenIn(running, Sub)
      /\ OpenIn(running', Sub) = OpenIn(running, Sub) \ {p[1]} /\ OpenIn(running', Main) = OpenIn(running, Main)
  <2>1. Main # p[2]
    BY <1>1, Speaking
  <2>. QED  BY <1>1, <2>1, RunsEnd
<1>3. count.calls \in Nat /\ count.calls <= count'.calls
  BY <1>1 DEF TraceIndInv, RunsOK
<1>4. sub \in {"runs", "fallback"}
  BY <1>2 DEF TraceIndInv, RunsOK, KindsOK
<1>. DEFINE said == heard.own
            c == p[1]
            uc == EndToolCall(own[1], c)
            saidNow == [said EXCEPT !.ended = @ \cup ({c} \cap said.asked)]
<1>5. own' = <<uc>> /\ heard' = [heard EXCEPT !.own = saidNow]
  BY <1>1 DEF EndHeard
<1>. HIDE DEF said, c
<1>6. Fits(own[1], said, Sub, OpenIn(running, Sub), count.calls)
  BY <1>4, OwnIs DEF said
<1>7. c \in Nat /\ c \in OpenIn(running, Sub)
  BY <1>2 DEF c
<1>8. /\ uc \in Collector /\ Fits(uc, saidNow, Sub, OpenIn(running, Sub) \ {c}, count.calls) /\ saidNow \in ToldSet
  BY <1>3, <1>6, <1>7, Speaking, FitsEnd
<1>. HIDE DEF uc, saidNow
<1>9. /\ heard' \in [app : ToldSet, own : ToldSet] /\ heard'.own = saidNow /\ heard'.app = heard.app
  BY <1>5, <1>8, HeardIs DEF TraceIndInv, KindsOK
<1>10. KindsOK'
  BY <1>1, <1>9 DEF TraceIndInv, KindsOK
<1>11. OwnFits(own', heard'.own, sub', OpenIn(running', Sub), count'.calls)
  BY <1>1, <1>2, <1>4, <1>5, <1>8, <1>9 DEF OwnFits, c
<1>12. SubsFit(app', heard'.own, sub')
  BY <1>1, <1>4, SubsNone DEF TraceIndInv
<1>13. /\ AppFits(app', heard'.app, OpenIn(running', Main), count'.calls)
       /\ FileFits(app', heard'.app, file', behind')
  BY <1>1, <1>2, <1>3, <1>9, AppKept
<1>. QED  BY <1>2, <1>10, <1>11, <1>12, <1>13 DEF TraceIndInv

LEMMA DoneChKeeps ==
  ASSUME TraceIndInv, DoneChFires
  PROVE  TraceIndInv'
<1>1. /\ sub = "runs" /\ sub' = "fallback"
      /\ UNCHANGED <<own, ownSeen, running, count, heard, app, traceUsageSeen, phase, file, behind>>
  BY DEF DoneChFires, SubUnseen
<1>2. RunsOK' /\ KindsOK'
  BY <1>1 DEF TraceIndInv, RunsOK, KindsOK
<1>3. OwnFits(own', heard'.own, sub', OpenIn(running', Sub), count'.calls)
  BY <1>1 DEF TraceIndInv, OwnFits
<1>4. SubsFit(app', heard'.own, sub')
  BY <1>1, SubsNone DEF TraceIndInv
<1>5. /\ AppFits(app', heard'.app, OpenIn(running', Main), count'.calls)
      /\ FileFits(app', heard'.app, file', behind')
  BY <1>1 DEF TraceIndInv
<1>. QED  BY <1>2, <1>3, <1>4, <1>5 DEF TraceIndInv

LEMMA SubEndKeeps ==
  ASSUME TraceIndInv, SubEnds
  PROVE  TraceIndInv'
<1>1. /\ sub \in {"runs", "fallback"} /\ sub' = "done" /\ running' = {p \in running : p[2] = Main}
      /\ UNCHANGED <<own, ownSeen, traceUsageSeen, phase, file, behind, count, heard>>
      /\ \/ app # <<>> /\ app' = <<[app[1] EXCEPT !.subs = Append(@, BuildSubAgentEvent(own[1]))]>>
         \/ UNCHANGED app
  BY DEF SubEnds
<1>2. RunsOK' /\ OpenIn(running', Sub) = {} /\ OpenIn(running', Main) = OpenIn(running, Main)
  BY <1>1, Speaking, RunsDrop
<1>3. count.calls \in Nat /\ count.calls <= count'.calls
  BY <1>1 DEF TraceIndInv, RunsOK
<1>4. KindsOK'
  BY <1>1 DEF TraceIndInv, KindsOK
<1>5. OwnFits(own', heard'.own, sub', OpenIn(running', Sub), count'.calls)
  BY <1>1, <1>2, <1>3, OwnKept
<1>6. CASE UNCHANGED app
  <2>1. SubsFit(app', heard'.own, sub')
    BY <1>1, <1>6, SubsNone DEF TraceIndInv
  <2>2. /\ AppFits(app', heard'.app, OpenIn(running', Main), count'.calls)
        /\ FileFits(app', heard'.app, file', behind')
    BY <1>1, <1>2, <1>3, <1>6, AppKept
  <2>. QED  BY <1>2, <1>4, <1>5, <2>1, <2>2 DEF TraceIndInv
<1>7. CASE app # <<>> /\ app' = <<[app[1] EXCEPT !.subs = Append(@, BuildSubAgentEvent(own[1]))]>>
  <2>. DEFINE turns == BuildSubAgentEvent(own[1])
              uc == [app[1] EXCEPT !.subs = Append(@, turns)]
  <2>1. CollectorOK(own[1]) /\ Fits(own[1], heard.own, Sub, OpenIn(running, Sub), count.calls)
    BY <1>1, OwnIs
  <2>2. turns \in Seq(TurnSet) /\ HasText(turns, heard.own) /\ HasCalls(turns, heard.own)
    <3>. DEFINE all == Finalize(own[1])
    <3>1. CollectorOK(all) /\ SameText(own[1], all) /\ SameCalls(own[1], all) /\ turns = BuildTrace(all)
      BY <2>1, AllFinished
    <3>. HIDE DEF all, turns
    <3>2. turns \in Seq(TurnSet)
      BY <3>1, Snapshot
    <3>3. HasText(turns, heard.own)
      BY <2>1, <3>1 DEF Fits, Holds, HasText, SameText
    <3>4. HasCalls(turns, heard.own)
      BY <2>1, <3>1, HasCallsIs DEF Fits, Holds, SameCalls
    <3>. QED  BY <3>2, <3>3, <3>4
  <2>3. app = <<app[1]>> /\ CollectorOK(app[1]) /\ Fits(app[1], heard.app, Main, OpenIn(running, Main), count.calls)
    BY <1>7, AppIs
  <2>. HIDE DEF turns
  <2>4. /\ CollectorOK(uc) /\ uc.events = app[1].events /\ uc.currentTurn = app[1].currentTurn
        /\ uc.pendingTools = app[1].pendingTools /\ uc.subs = Append(app[1].subs, turns)
    BY <2>2, <2>3, SubAdded
  <2>5. app' = <<uc>>
    BY <1>7 DEF turns
  <2>. HIDE DEF uc
  <2>6. BuildTrace(uc) = BuildTrace(app[1]) /\ \A a \in Speakers : InProgress(uc, a) <=> InProgress(app[1], a)
    BY <2>4, SameTurns
  <2>7. SameText(app[1], uc) /\ SameCalls(app[1], uc) /\ SameUsages(app[1], uc)
    BY <2>6 DEF SameText, SameCalls, SameUsages
  <2>8. Fits(uc, heard.app, Main, OpenIn(running, Main), count.calls) /\ uc \in Collector
    BY <1>3, <2>3, <2>4, <2>6, <2>7, Speaking, FitsSame
  <2>9. AppFits(app', heard'.app, OpenIn(running', Main), count'.calls)
    BY <1>1, <1>2, <2>5, <2>8 DEF AppFits
  <2>10. FileFits(app', heard'.app, file', behind')
    <3>1. FileFits(<<app[1]>>, heard.app, file, behind)
      BY <2>3 DEF TraceIndInv
    <3>. QED  BY <1>1, <2>5, <2>7, <3>1, FileStays
  <2>11. SubsFit(app', heard'.own, sub')
    <3>1. app[1].subs = <<>>
      <4>1. \A j \in DOMAIN app[1].subs : FALSE
        BY <1>1, <2>3 DEF TraceIndInv, SubsFit
      <4>2. app[1].subs \in Seq(Seq(TurnSet))
        BY <2>3 DEF CollectorOK, Collector
      <4>. DEFINE subs == app[1].subs
      <4>3. ASSUME subs # <<>> PROVE FALSE
        <5>1. Len(subs) \in Nat \ {0} /\ DOMAIN subs = 1..Len(subs)
          BY <4>2, <4>3, EmptySeq, LenProperties
        <5>2. 1 \in DOMAIN subs
          BY <5>1
        <5>. QED  BY <4>1, <5>2
      <4>. QED  BY <4>3
    <3>2. uc.subs = Append(<<>>, turns)
      BY <2>4, <3>1
    <3>3. DOMAIN uc.subs = {1} /\ uc.subs[1] = turns
      BY <3>2
    <3>4. DOMAIN <<uc>> = {1} /\ <<uc>>[1] = uc
      OBVIOUS
    <3>. QED  BY <1>1, <2>2, <2>5, <3>3, <3>4 DEF SubsFit
  <2>. QED  BY <1>2, <1>4, <1>5, <2>9, <2>10, <2>11 DEF TraceIndInv
<1>. QED  BY <1>1, <1>6, <1>7

LEMMA TraceBegins == ASSUME TraceInit PROVE TraceIndInv
<1>1. /\ app \in {<<>>, <<NewTraceCollector>>} /\ own = <<>> /\ traceUsageSeen = FALSE /\ ownSeen = FALSE
      /\ phase = "idle" /\ sub = "none" /\ running = {} /\ file = <<>> /\ behind = FALSE
      /\ count = [text |-> 0, calls |-> 0, asks |-> 0, answers |-> 0, traces |-> 1]
      /\ heard = [app |-> NothingHeard, own |-> NothingHeard]
  BY DEF TraceInit
<1>. DEFINE uc == NewTraceCollector
<1>2. /\ uc \in Collector /\ Fits(uc, NothingHeard, Main, {}, 0) /\ uc.subs = <<>> /\ NothingHeard \in ToldSet
      /\ <<>> \in Seq(TurnSet) /\ HasCalls(<<>>, NothingHeard) /\ Usages(<<>>) = Usages(BuildTrace(uc))
  BY Speaking, FitsNew
<1>3. heard.app = NothingHeard /\ heard.own = NothingHeard /\ OpenIn(running, Main) = {} /\ OpenIn(running, Sub) = {} /\ count.calls = 0
  BY <1>1 DEF OpenIn
<1>4. app = <<>> \/ app = <<uc>>
  BY <1>1
<1>5. KindsOK
  BY <1>1, <1>2 DEF KindsOK
<1>. HIDE DEF uc
<1>6. <<uc>>[1] = uc /\ DOMAIN <<uc>> = {1} /\ DOMAIN uc.subs = {} /\ \A i \in DOMAIN <<>> : FALSE
  BY <1>2
<1>7. AppFits(app, heard.app, {}, 0)
  BY <1>2, <1>3, <1>4 DEF AppFits
<1>8. FileFits(app, heard.app, file, behind)
  BY <1>1, <1>2, <1>3, <1>4, <1>6 DEF FileFits
<1>9. SubsFit(app, heard.own, sub)
  BY <1>4, <1>6 DEF SubsFit
<1>10. OwnFits(own, heard.own, sub, {}, 0)
  BY <1>1, <1>3 DEF OwnFits
<1>11. RunsOK
  <2>1. count \in [{"text", "calls", "asks", "answers", "traces"} -> Nat]
    BY <1>1
  <2>2. 0 <= MaxCalls
    BY TraceAssumption DEF TraceAssumption
  <2>. QED  BY <1>1, <1>3, <2>1, <2>2 DEF RunsOK
<1>. QED  BY <1>3, <1>5, <1>7, <1>8, <1>9, <1>10, <1>11 DEF TraceIndInv

LEMMA TraceShows == ASSUME TraceIndInv PROVE TraceInv
<1>1. /\ traceUsageSeen \in BOOLEAN /\ ownSeen \in BOOLEAN /\ behind \in BOOLEAN
      /\ phase \in {"idle", "asked", "answered"} /\ sub \in {"none", "runs", "fallback", "done"}
  BY DEF TraceIndInv, KindsOK
<1>2. running \subseteq (1..MaxCalls) \X Speakers
  <2>1. /\ count.calls \in Nat /\ count.calls <= MaxCalls /\ MaxCalls \in Nat
        /\ \A p \in running : p \in (1..count.calls) \X Speakers
    BY TraceAssumption DEF TraceIndInv, RunsOK, TraceAssumption
  <2>2. 1..count.calls \subseteq 1..MaxCalls
    BY <2>1
  <2>. QED  BY <2>1, <2>2
<1>3. Len(own) <= 1
  <2>1. CASE sub = "none"
    <3>1. own = <<>>
      BY <2>1 DEF TraceIndInv, OwnFits
    <3>. QED  BY <3>1
  <2>2. CASE sub # "none"
    <3>1. own = <<own[1]>>
      BY <2>2, OwnIs
    <3>. QED  BY <3>1
  <2>. QED  BY <2>1, <2>2
<1>4. SubTraceWhole
  BY DEF TraceIndInv, SubsFit, SubTraceWhole
<1>5. FileFollows
  BY DEF TraceIndInv, FileFits, FileFollows
<1>6. CASE app = <<>>
  <2>1. Len(app) <= 1 /\ \A i \in DOMAIN app : FALSE
    BY <1>6
  <2>2. ToldIsTraced
    BY <1>6 DEF ToldIsTraced
  <2>. QED  BY <1>1, <1>2, <1>3, <1>4, <1>5, <2>1, <2>2 DEF TraceInv, TraceTypeOK
<1>7. CASE app # <<>>
  <2>1. app = <<app[1]>> /\ CollectorOK(app[1]) /\ Fits(app[1], heard.app, Main, OpenIn(running, Main), count.calls)
    BY <1>7, AppIs
  <2>2. Len(app) <= 1 /\ DOMAIN app = {1}
    <3>1. \A x : Len(<<x>>) <= 1 /\ DOMAIN <<x>> = {1}
      OBVIOUS
    <3>. QED  BY <2>1, <3>1
  <2>3. ToldIsTraced
    BY <2>1 DEF ToldIsTraced, Fits, Holds
  <2>4. ASSUME NEW a \in Speakers PROVE Len(app[1].currentTurn[a]) <= 1
    <3>1. app[1].currentTurn[a] = <<>> \/ \E item \in TurnSet : app[1].currentTurn[a] = <<item>>
      BY <2>1 DEF CollectorOK, InProgress
    <3>2. Len(<<>>) <= 1 /\ \A x : Len(<<x>>) <= 1
      OBVIOUS
    <3>. QED  BY <3>1, <3>2
  <2>. QED  BY <1>1, <1>2, <1>3, <1>4, <1>5, <2>2, <2>3, <2>4 DEF TraceInv, TraceTypeOK
<1>. QED  BY <1>6, <1>7

\* Whatever the order in which the application and a sub-agent's drain tell their collectors,
\* however many calls overlap, traces are begun and let go, events are lost and flushes fail: a
\* trace in memory has all the text and the calls it was told of exactly once, a sub-agent's
\* trace is whole when it is handed over, and the file is a trace a reader can use.
THEOREM ToldIsKept == TraceSpec => []TraceInv
<1>. USE TraceAssumption
<1>1. TraceInit => TraceIndInv
  BY TraceBegins
<1>2. TraceIndInv /\ [TraceNext]_traceVars => TraceIndInv'
  <2>. SUFFICES ASSUME TraceIndInv, [TraceNext]_traceVars PROVE TraceIndInv'
    OBVIOUS
  <2>1. CASE ModelAsked
    BY <2>1, AskKeeps
  <2>2. CASE Text
    BY <2>2, TextKeeps
  <2>3. CASE Answered
    BY <2>3, AnswerKeeps
  <2>4. CASE ToolStarts
    BY <2>4, ToolStartKeeps
  <2>5. CASE ToolEnds
    BY <2>5, ToolEndKeeps
  <2>6. CASE TurnEnds
    BY <2>6, TurnEndKeeps
  <2>7. CASE Clear
    BY <2>7, SwitchKeeps DEF Clear
  <2>8. CASE Toggle
    BY <2>8, SwitchKeeps DEF Toggle
  <2>9. CASE SubStarts
    BY <2>9, SubStartKeeps
  <2>10. CASE SubText
    BY <2>10, SubTextKeeps
  <2>11. CASE SubAnswered
    BY <2>11, SubAnswerKeeps
  <2>12. CASE SubToolStarts
    BY <2>12, SubToolStartKeeps
  <2>13. CASE SubToolEnds
    BY <2>13, SubToolEndKeeps
  <2>14. CASE DoneChFires
    BY <2>14, DoneChKeeps
  <2>15. CASE SubEnds
    BY <2>15, SubEndKeeps
  <2>16. CASE UNCHANGED traceVars
    BY <2>16 DEF traceVars, TraceIndInv, RunsOK, KindsOK
  <2>. QED  BY <2>1, <2>2, <2>3, <2>4, <2>5, <2>6, <2>7, <2>8, <2>9, <2>10, <2>11, <2>12, <2>13, <2>14, <2>15, <2>16 DEF TraceNext
<1>3. TraceIndInv => TraceInv
  BY TraceShows
<1>. QED  BY <1>1, <1>2, <1>3, PTL DEF TraceSpec
=============================================================================
