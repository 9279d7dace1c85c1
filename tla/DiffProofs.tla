----------------------------- MODULE DiffProofs -----------------------------
(***************************************************************************)
(* The diff of LineDiff is the shortest script and its hunks apply, for    *)
(* every pair of files and every width of the context.                     *)
(***************************************************************************)
EXTENDS LineDiff, FiniteSetTheorems, SequenceTheorems, WellFoundedInduction, TLAPS

-----------------------------------------------------------------------------
(* Numbers *)

\* Some natural numbers have a least one, by the well-foundedness of the order.
LEMMA LeastNumber ==
  ASSUME NEW T \in SUBSET Nat, T # {}
  PROVE  \E a \in T : \A b \in T : a <= b
<1>. DEFINE R == OpToRel(<, Nat)
<1>1. PICK a \in T : \A b \in T : ~(<<b, a>> \in R)
  <2>. HIDE DEF R
  <2>1. IsWellFoundedOn(R, Nat)
    BY NatLessThanWellFounded DEF R
  <2>. QED  BY <2>1, WFMin
<1>2. \A b \in T : ~(b < a)
  BY <1>1 DEF OpToRel
<1>. QED  BY <1>2

\* Numbers below a bound have a greatest one: their least upper bound.
LEMMA GreatestNumber ==
  ASSUME NEW N \in Nat, NEW S \in SUBSET (0..N), S # {}
  PROVE  \E a \in S : \A x \in S : x <= a
<1>. DEFINE U == {u \in Nat : \A x \in S : x <= u}
<1>1. N \in U
  OBVIOUS
<1>2. PICK a \in U : \A b \in U : a <= b
  <2>. HIDE DEF U
  <2>1. U \in SUBSET Nat
    BY DEF U
  <2>. QED  BY <1>1, <2>1, LeastNumber
<1>3. a \in S
  <2>1. SUFFICES ASSUME a \notin S  PROVE FALSE
    OBVIOUS
  <2>2. \A x \in S : x < a
    BY <2>1
  <2>3. PICK x \in S : TRUE
    OBVIOUS
  <2>4. a \in Nat /\ a > 0
    BY <2>2, <2>3
  <2>5. a - 1 \in Nat /\ \A y \in S : y <= a - 1
    BY <2>2, <2>4
  <2>. QED  BY <1>2, <2>4, <2>5
<1>. QED  BY <1>3

\* What Min and Max return.
LEMMA MinIs ==
  ASSUME NEW S \in SUBSET Nat, S # {}
  PROVE  Min(S) \in S /\ \A x \in S : Min(S) <= x
<1>1. \E a \in S : \A x \in S : a <= x
  BY LeastNumber
<1>. QED  BY <1>1 DEF Min

LEMMA MaxIs ==
  ASSUME NEW N \in Nat, NEW S \in SUBSET (0..N), S # {}
  PROVE  Max(S) \in S /\ \A x \in S : x <= Max(S)
<1>1. PICK a \in S : \A x \in S : x <= a
  BY GreatestNumber
<1>2. \A x \in S : a >= x
  BY <1>1
<1>3. Max(S) \in S /\ \A x \in S : Max(S) >= x
  BY <1>2 DEF Max
<1>. QED  BY <1>3

\* Min and Max of two numbers.
LEMMA MaxOfTwo ==
  ASSUME NEW a \in Int, NEW b \in Int
  PROVE  Max({a, b}) = IF a >= b THEN a ELSE b
<1>1. CASE a >= b
  <2>1. \E x \in {a, b} : \A y \in {a, b} : x >= y
    BY <1>1
  <2>2. Max({a, b}) \in {a, b} /\ \A y \in {a, b} : Max({a, b}) >= y
    BY <2>1 DEF Max
  <2>. QED  BY <1>1, <2>2
<1>2. CASE ~(a >= b)
  <2>1. \E x \in {a, b} : \A y \in {a, b} : x >= y
    BY <1>2
  <2>2. Max({a, b}) \in {a, b} /\ \A y \in {a, b} : Max({a, b}) >= y
    BY <2>1 DEF Max
  <2>. QED  BY <1>2, <2>2
<1>. QED  BY <1>1, <1>2

LEMMA MinOfTwo ==
  ASSUME NEW a \in Int, NEW b \in Int
  PROVE  Min({a, b}) = IF a <= b THEN a ELSE b
<1>1. CASE a <= b
  <2>1. \E x \in {a, b} : \A y \in {a, b} : x <= y
    BY <1>1
  <2>2. Min({a, b}) \in {a, b} /\ \A y \in {a, b} : Min({a, b}) <= y
    BY <2>1 DEF Min
  <2>. QED  BY <1>1, <2>2
<1>2. CASE ~(a <= b)
  <2>1. \E x \in {a, b} : \A y \in {a, b} : x <= y
    BY <1>2
  <2>2. Min({a, b}) \in {a, b} /\ \A y \in {a, b} : Min({a, b}) <= y
    BY <2>1 DEF Min
  <2>. QED  BY <1>2, <2>2
<1>. QED  BY <1>1, <1>2

-----------------------------------------------------------------------------
(* The search: how far the equal lines go *)

Files == old \in Seq(Lines) /\ new \in Seq(Lines)

LEMMA FileLengths ==
  ASSUME Files
  PROVE  /\ n \in Nat /\ m \in Nat /\ DOMAIN old = 1..n /\ DOMAIN new = 1..m
         /\ \A i \in 1..n : old[i] \in Lines
         /\ \A i \in 1..m : new[i] \in Lines
BY DEF Files, n, m

\* Snake goes j lines on, all of them equal and in the files, and could not go further.
SnakeOf(x, y, j) ==
  /\ j \in Nat /\ Snake(x, y) = x + j
  /\ j > 0 => x + j <= n /\ y + j <= m
  /\ \A i \in 1..j : old[x + i] = new[y + i]
  /\ x >= 0 /\ x + j < n /\ y + j < m => old[x + j + 1] # new[y + j + 1]

LEMMA SnakeGoes ==
  ASSUME Files, NEW x \in Int, NEW y \in Int
  PROVE  \E j \in Nat : SnakeOf(x, y, j)
<1>. n \in Nat /\ m \in Nat
  BY FileLengths
<1>. DEFINE R == {j \in 0..n : x + j <= n /\ y + j <= m /\ \A i \in 1..j : old[x + i] = new[y + i]}
            S == R \cup {0}
<1>1. S \in SUBSET (0..n) /\ S # {}
  OBVIOUS
<1>. DEFINE j == Max(S)
<1>2. j \in S /\ \A i \in S : i <= j
  <2>. HIDE DEF S
  <2>. QED  BY <1>1, MaxIs
<1>3. Snake(x, y) = x + j
  BY DEF Snake
<1>4. j \in Nat
  BY <1>2, <1>1
<1>. HIDE DEF j
<1>5. j > 0 => j \in R
  BY <1>2
<1>6. j > 0 => x + j <= n /\ y + j <= m
  BY <1>5
<1>7. \A i \in 1..j : old[x + i] = new[y + i]
  BY <1>4, <1>5
<1>8. ASSUME x >= 0, x + j < n, y + j < m, old[x + j + 1] = new[y + j + 1]  PROVE FALSE
  <2>1. j + 1 \in 0..n
    BY <1>4, <1>8
  <2>2. x + (j + 1) <= n /\ y + (j + 1) <= m
    BY <1>4, <1>8
  <2>3. \A i \in 1..(j + 1) : old[x + i] = new[y + i]
    <3>. TAKE i \in 1..(j + 1)
    <3>1. CASE i = j + 1
      <4>1. x + i = x + j + 1 /\ y + i = y + j + 1
        BY <1>4, <3>1
      <4>. QED  BY <1>8, <4>1
    <3>2. CASE i # j + 1
      <4>1. i \in 1..j
        BY <1>4, <3>2
      <4>. QED  BY <1>7, <4>1
    <3>. QED  BY <3>1, <3>2
  <2>4. j + 1 \in S
    BY <2>1, <2>2, <2>3
  <2>5. j + 1 <= j
    BY <1>2, <2>4
  <2>. QED  BY <1>4, <2>5
<1>. QED  BY <1>3, <1>4, <1>6, <1>7, <1>8 DEF SnakeOf
-----------------------------------------------------------------------------
(* The search: the rounds *)

\* The diagonals of a round: those of one parity.
OnRound(r) == {k \in -r..r : (k + r) % 2 = 0}

LEMMA Neighbours ==
  ASSUME NEW r \in Nat, NEW k \in OnRound(r)
  PROVE  /\ k \in Int /\ -r <= k /\ k <= r
         /\ k - 1 \in OnRound(r + 1) /\ k + 1 \in OnRound(r + 1)
         /\ r = 0 => k = 0
         /\ r > 0 /\ k # -r => k - 1 \in OnRound(r - 1)
         /\ r > 0 /\ k # r => k + 1 \in OnRound(r - 1)
BY DEF OnRound

LEMMA NeighboursBack ==
  ASSUME NEW r \in Nat, r > 0, NEW k \in Int
  PROVE  /\ k - 1 \in OnRound(r - 1) => k \in OnRound(r) /\ k # -r
         /\ k + 1 \in OnRound(r - 1) => k \in OnRound(r) /\ k # r
BY DEF OnRound

\* The x a round comes to on a diagonal before the equal lines, and with them.
StartOf(w, k, r) == IF Down(w, k, r) THEN w[k + 1] ELSE w[k - 1] + 1
FarOf(w, k, r) == Snake(StartOf(w, k, r), StartOf(w, k, r) - k)

\* The vectors of the first rounds: tr[1] before them, tr[r + 2] after round r.
Searched(tr) ==
  /\ tr \in Seq([Diagonals -> Int])
  /\ Len(tr) > 0 /\ Len(tr) <= n + m + 2
  /\ \A k \in Diagonals : tr[1][k] = 0
  /\ \A r \in 0..(Len(tr) - 2) : \A k \in OnRound(r) : tr[r + 2][k] = FarOf(tr[r + 1], k, r)

\* How far round r gets on diagonal k, and from where.
Far(tr, r, k) == tr[r + 2][k]
Start(tr, r, k) == StartOf(tr[r + 1], k, r)
IsDown(tr, r, k) == Down(tr[r + 1], k, r)

LEMMA RoundVector ==
  ASSUME Files, NEW tr, Searched(tr), NEW i \in 1..Len(tr)
  PROVE  tr[i] \in [Diagonals -> Int]
BY ElementOfSeq DEF Searched

LEMMA DiagonalsOfRound ==
  ASSUME Files, NEW r \in Nat, r <= n + m, NEW k \in OnRound(r)
  PROVE  k \in Diagonals /\ k - 1 \in Diagonals /\ k + 1 \in Diagonals
<1>. n \in Nat /\ m \in Nat
  BY FileLengths
<1>. QED  BY Neighbours DEF Diagonals

LEMMA FarType ==
  ASSUME Files, NEW tr, Searched(tr), NEW r \in 0..(Len(tr) - 2), NEW k \in OnRound(r)
  PROVE  Far(tr, r, k) \in Int
<1>. n \in Nat /\ m \in Nat
  BY FileLengths
<1>1. Len(tr) \in Nat /\ Len(tr) <= n + m + 2
  BY LenProperties DEF Searched
<1>2. r \in Nat /\ r <= n + m /\ r <= Len(tr) - 2
  BY <1>1
<1>3. k \in Diagonals
  BY <1>2, DiagonalsOfRound
<1>4. tr[r + 2] \in [Diagonals -> Int]
  <2>1. r + 2 \in 1..Len(tr)
    BY <1>1, <1>2
  <2>. QED  BY <2>1, RoundVector
<1>. QED  BY <1>3, <1>4 DEF Far

\* Where a round starts on a diagonal: from the one above, or one further from the one below.
LEMMA StartIs ==
  ASSUME Files, NEW tr, Searched(tr), NEW r \in 0..(Len(tr) - 2), NEW k \in OnRound(r)
  PROVE  /\ Far(tr, r, k) = Snake(Start(tr, r, k), Start(tr, r, k) - k)
         /\ Start(tr, r, k) \in Int
         /\ r = 0 => Start(tr, r, k) = 0
         /\ r > 0 /\ IsDown(tr, r, k) =>
              k + 1 \in OnRound(r - 1) /\ Start(tr, r, k) = Far(tr, r - 1, k + 1)
         /\ r > 0 /\ ~IsDown(tr, r, k) =>
              k - 1 \in OnRound(r - 1) /\ Start(tr, r, k) = Far(tr, r - 1, k - 1) + 1
         /\ r > 0 /\ k + 1 \in OnRound(r - 1) => Start(tr, r, k) >= Far(tr, r - 1, k + 1)
         /\ r > 0 /\ k - 1 \in OnRound(r - 1) => Start(tr, r, k) >= Far(tr, r - 1, k - 1) + 1
<1>. n \in Nat /\ m \in Nat
  BY FileLengths
<1>1. Len(tr) \in Nat /\ Len(tr) <= n + m + 2
  BY LenProperties DEF Searched
<1>2. r \in Nat /\ r <= n + m /\ r - 1 >= -1 /\ r - 1 <= Len(tr) - 2
  BY <1>1
<1>. DEFINE w == tr[r + 1]
<1>3. w \in [Diagonals -> Int]
  <2>1. r + 1 \in 1..Len(tr)
    BY <1>1, <1>2
  <2>. QED  BY <2>1, RoundVector
<1>4. k \in Diagonals /\ k - 1 \in Diagonals /\ k + 1 \in Diagonals
  BY <1>2, DiagonalsOfRound
<1>5. w[k - 1] \in Int /\ w[k + 1] \in Int
  BY <1>3, <1>4
<1>6. Far(tr, r, k) = Snake(Start(tr, r, k), Start(tr, r, k) - k)
  BY DEF Searched, Far, Start, FarOf
<1>7. Start(tr, r, k) = IF IsDown(tr, r, k) THEN w[k + 1] ELSE w[k - 1] + 1
  BY DEF Start, StartOf, IsDown
<1>8. IsDown(tr, r, k) <=> k = -r \/ (k # r /\ w[k - 1] < w[k + 1])
  BY DEF IsDown, Down
<1>9. CASE r = 0
  <2>1. k = 0
    BY <1>9, Neighbours
  <2>2. w[1] = 0
    BY <1>4, <1>9, <2>1 DEF Searched
  <2>3. IsDown(tr, r, k)
    <3>1. \A i \in Nat, j \in Int : -i <= j /\ j <= i /\ i < 1 => j = -i
      OBVIOUS
    <3>2. k = -r
      BY <1>2, <1>9, <3>1, Neighbours
    <3>. QED  BY <1>8, <3>2
  <2>4. Start(tr, r, k) = 0
    BY <1>7, <2>1, <2>2, <2>3
  <2>. QED  BY <1>6, <1>9, <2>4
<1>10. CASE r > 0
  <2>1. Far(tr, r - 1, k + 1) = w[k + 1] /\ Far(tr, r - 1, k - 1) = w[k - 1]
    <3>1. (r - 1) + 2 = r + 1
      BY <1>2
    <3>. QED  BY <3>1 DEF Far
  <2>2. (k # -r => k - 1 \in OnRound(r - 1)) /\ (k # r => k + 1 \in OnRound(r - 1))
    BY <1>2, <1>10, Neighbours
  <2>3. k \in Int /\ (k = -r => k # r)
    BY <1>10, <1>2, Neighbours
  <2>4. (k - 1 \in OnRound(r - 1) => k # -r) /\ (k + 1 \in OnRound(r - 1) => k # r)
    BY <1>2, <1>10, <2>3, NeighboursBack
  <2>. DEFINE x == Start(tr, r, k)
              dn == IsDown(tr, r, k)
              a == w[k + 1]
              b == w[k - 1]
  <2>5. dn <=> k = -r \/ (k # r /\ b < a)
    BY <1>8
  <2>6. x = IF dn THEN a ELSE b + 1
    BY <1>7
  <2>7. a \in Int /\ b \in Int
    BY <1>5
  <2>. HIDE DEF x, dn, a, b
  <2>8. x \in Int /\ (dn => k # r) /\ (~dn => k # -r)
    BY <2>3, <2>5, <2>6, <2>7
  <2>9. (k # r => x >= a) /\ (k # -r => x >= b + 1)
    BY <2>3, <2>5, <2>6, <2>7
  <2>. QED  BY <1>6, <1>10, <2>1, <2>2, <2>4, <2>6, <2>8, <2>9 DEF x, dn, a, b
<1>. QED  BY <1>2, <1>9, <1>10
\* Round r starts on diagonal k at Start and goes j equal lines on.
LEMMA FarSnake ==
  ASSUME Files, NEW tr, Searched(tr), NEW r \in 0..(Len(tr) - 2), NEW k \in OnRound(r)
  PROVE  \E j \in Nat : /\ SnakeOf(Start(tr, r, k), Start(tr, r, k) - k, j)
                        /\ Far(tr, r, k) = Start(tr, r, k) + j
<1>1. k \in Int
  BY DEF OnRound
<1>. DEFINE x == Start(tr, r, k)
<1>2. x \in Int /\ Far(tr, r, k) = Snake(x, x - k)
  BY StartIs
<1>. HIDE DEF x
<1>3. PICK j \in Nat : SnakeOf(x, x - k, j)
  BY <1>1, <1>2, SnakeGoes
<1>. QED  BY <1>2, <1>3 DEF SnakeOf, x

\* A round gets at least as far as the one before it on the neighbouring diagonals.
LEMMA Growth ==
  ASSUME Files, NEW tr, Searched(tr), NEW r \in 0..(Len(tr) - 2), r > 0, NEW k \in OnRound(r)
  PROVE  /\ k + 1 \in OnRound(r - 1) => Far(tr, r, k) >= Far(tr, r - 1, k + 1)
         /\ k - 1 \in OnRound(r - 1) => Far(tr, r, k) >= Far(tr, r - 1, k - 1) + 1
<1>0. r - 1 \in 0..(Len(tr) - 2)
  <2>1. Len(tr) \in Nat
    BY LenProperties DEF Searched
  <2>. QED  BY <2>1
<1>. DEFINE x == Start(tr, r, k)
            f == Far(tr, r, k)
            a == Far(tr, r - 1, k + 1)
            b == Far(tr, r - 1, k - 1)
<1>1. PICK j \in Nat : f = x + j
  BY FarSnake
<1>2. x \in Int
  BY StartIs
<1>3. k + 1 \in OnRound(r - 1) => a \in Int /\ x >= a
  BY <1>0, StartIs, FarType
<1>4. k - 1 \in OnRound(r - 1) => b \in Int /\ x >= b + 1
  BY <1>0, StartIs, FarType
<1>. HIDE DEF x, f, a, b
<1>5. k + 1 \in OnRound(r - 1) => f >= a
  BY <1>1, <1>2, <1>3
<1>6. k - 1 \in OnRound(r - 1) => f >= b + 1
  BY <1>1, <1>2, <1>4
<1>. QED  BY <1>5, <1>6 DEF f, a, b

\* The points a round comes to are not left of the old file or above the new one.
LEMMA FarBounds ==
  ASSUME Files, NEW tr, Searched(tr)
  PROVE  \A r \in 0..(Len(tr) - 2) : \A k \in OnRound(r) : Far(tr, r, k) >= 0 /\ Far(tr, r, k) >= k
<1>. DEFINE Good(r, k) == Far(tr, r, k) >= 0 /\ Far(tr, r, k) >= k
            T == {r \in 0..(Len(tr) - 2) : \E k \in OnRound(r) : ~Good(r, k)}
<1>1. SUFFICES ASSUME T # {}  PROVE FALSE
  OBVIOUS
<1>2. T \in SUBSET Nat
  OBVIOUS
<1>3. PICK r \in T : \A b \in T : r <= b
  <2>. HIDE DEF T
  <2>. QED  BY <1>1, <1>2, LeastNumber
<1>4. r \in Nat /\ r \in 0..(Len(tr) - 2)
  BY <1>3
<1>5. PICK k \in OnRound(r) : ~Good(r, k)
  BY <1>3
<1>6. k \in Int /\ -r <= k /\ k <= r /\ (r = 0 => k = 0)
  BY <1>4, Neighbours
<1>. DEFINE x == Start(tr, r, k)
            f == Far(tr, r, k)
<1>7. PICK j \in Nat : f = x + j
  BY <1>4, FarSnake
<1>8. x \in Int /\ (r = 0 => x = 0)
  BY <1>4, StartIs
<1>9. CASE r = 0
  BY <1>5, <1>6, <1>7, <1>8, <1>9
<1>10. CASE r > 0
  <2>1. r - 1 \in 0..(Len(tr) - 2) /\ r - 1 \notin T
    <3>1. Len(tr) \in Nat
      BY LenProperties DEF Searched
    <3>2. r - 1 \in 0..(Len(tr) - 2) /\ ~(r <= r - 1)
      BY <1>4, <1>10, <3>1
    <3>. QED  BY <1>3, <3>2
  <2>2. \A i \in OnRound(r - 1) : Good(r - 1, i) /\ Far(tr, r - 1, i) \in Int /\ i \in Int
    BY <2>1, FarType DEF OnRound
  <2>3. CASE IsDown(tr, r, k)
    <3>1. k + 1 \in OnRound(r - 1) /\ x = Far(tr, r - 1, k + 1)
      BY <1>4, <1>10, <2>3, StartIs
    <3>2. x >= 0 /\ x >= k + 1
      BY <2>2, <3>1
    <3>. HIDE DEF x, f
    <3>3. f >= 0 /\ f >= k
      BY <1>6, <1>7, <1>8, <3>2
    <3>. QED  BY <1>5, <3>3 DEF f
  <2>4. CASE ~IsDown(tr, r, k)
    <3>1. k - 1 \in OnRound(r - 1) /\ x = Far(tr, r - 1, k - 1) + 1
      BY <1>4, <1>10, <2>4, StartIs
    <3>. DEFINE b == Far(tr, r - 1, k - 1)
    <3>2. b \in Int /\ b >= 0 /\ b >= k - 1 /\ x = b + 1
      BY <2>2, <3>1
    <3>. HIDE DEF x, f, b
    <3>3. f >= 0 /\ f >= k
      BY <1>6, <1>7, <1>8, <3>2
    <3>. QED  BY <1>5, <3>3 DEF f
  <2>. QED  BY <2>3, <2>4
<1>. QED  BY <1>4, <1>9, <1>10

\* A round stops only where the next lines differ.
LEMMA Unmatched ==
  ASSUME Files, NEW tr, Searched(tr), NEW r \in 0..(Len(tr) - 2), NEW k \in OnRound(r),
         Far(tr, r, k) < n, Far(tr, r, k) - k < m
  PROVE  old[Far(tr, r, k) + 1] # new[Far(tr, r, k) - k + 1]
<1>. n \in Nat /\ m \in Nat
  BY FileLengths
<1>1. k \in Int
  BY DEF OnRound
<1>. DEFINE x == Start(tr, r, k)
            f == Far(tr, r, k)
<1>2. PICK j \in Nat : SnakeOf(x, x - k, j) /\ f = x + j
  BY FarSnake
<1>3. x \in Int
  BY StartIs
<1>4. CASE x >= 0
  <2>. HIDE DEF x
  <2>1. x + j = f /\ (x - k) + j = f - k /\ (x - k) + j + 1 = f - k + 1 /\ x + j + 1 = f + 1
    BY <1>1, <1>2, <1>3
  <2>2. x + j < n /\ (x - k) + j < m
    BY <2>1
  <2>3. old[x + j + 1] # new[(x - k) + j + 1]
    BY <1>2, <1>4, <2>2 DEF SnakeOf
  <2>. QED  BY <2>1, <2>3
<1>5. CASE ~(x >= 0)
  <2>1. r # 0
    BY <1>5, StartIs
  <2>2. r \in Nat /\ r > 0
    BY <2>1
  <2>3. r - 1 \in 0..(Len(tr) - 2)
    <3>1. Len(tr) \in Nat
      BY LenProperties DEF Searched
    <3>. QED  BY <2>2, <3>1
  <2>4. \A i \in OnRound(r - 1) : Far(tr, r - 1, i) >= 0 /\ Far(tr, r - 1, i) \in Int
    BY <2>3, FarBounds, FarType
  <2>5. CASE IsDown(tr, r, k)
    BY <1>5, <2>2, <2>4, <2>5, StartIs
  <2>6. CASE ~IsDown(tr, r, k)
    <3>1. k - 1 \in OnRound(r - 1) /\ x = Far(tr, r - 1, k - 1) + 1
      BY <2>2, <2>6, StartIs
    <3>2. Far(tr, r - 1, k - 1) >= 0 /\ Far(tr, r - 1, k - 1) \in Int
      BY <2>4, <3>1
    <3>. QED  BY <1>5, <3>1, <3>2
  <2>. QED  BY <2>5, <2>6
<1>. QED  BY <1>4, <1>5
\* A point beyond the end of the old file: the round before was there on the diagonal below.
LEMMA BeyondOld ==
  ASSUME Files, NEW tr, Searched(tr)
  PROVE  \A r \in 0..(Len(tr) - 2) : \A k \in OnRound(r) : Far(tr, r, k) >= n + 1 =>
           r > 0 /\ k - 1 \in OnRound(r - 1) /\ Far(tr, r - 1, k - 1) >= Far(tr, r, k) - 1
<1>. DEFINE Good(r, k) == Far(tr, r, k) >= n + 1 =>
              r > 0 /\ k - 1 \in OnRound(r - 1) /\ Far(tr, r - 1, k - 1) >= Far(tr, r, k) - 1
            T == {r \in 0..(Len(tr) - 2) : \E k \in OnRound(r) : ~Good(r, k)}
<1>1. SUFFICES ASSUME T # {}  PROVE FALSE
  OBVIOUS
<1>2. T \in SUBSET Nat
  OBVIOUS
<1>3. PICK r \in T : \A b \in T : r <= b
  <2>. HIDE DEF T
  <2>. QED  BY <1>1, <1>2, LeastNumber
<1>4. r \in Nat /\ r \in 0..(Len(tr) - 2) /\ Len(tr) \in Nat /\ n \in Nat
  BY <1>3, LenProperties, FileLengths DEF Searched
<1>5. PICK k \in OnRound(r) : ~Good(r, k)
  BY <1>3
<1>6. k \in Int
  BY DEF OnRound
<1>. DEFINE x == Start(tr, r, k)
            f == Far(tr, r, k)
<1>7. PICK j \in Nat : SnakeOf(x, x - k, j) /\ f = x + j
  BY <1>4, FarSnake
<1>8. x \in Int /\ (r = 0 => x = 0)
  BY <1>4, StartIs
<1>9. f >= n + 1
  BY <1>5
<1>10. f = x
  <2>1. j > 0 => x + j <= n
    BY <1>7 DEF SnakeOf
  <2>. HIDE DEF x, f
  <2>. QED  BY <1>4, <1>7, <1>8, <1>9, <2>1
<1>11. r > 0
  <2>. HIDE DEF x, f
  <2>. QED  BY <1>4, <1>8, <1>9, <1>10
<1>12. CASE ~IsDown(tr, r, k)
  <2>1. k - 1 \in OnRound(r - 1) /\ x = Far(tr, r - 1, k - 1) + 1
    BY <1>4, <1>11, <1>12, StartIs
  <2>2. r - 1 \in 0..(Len(tr) - 2)
    BY <1>4, <1>11
  <2>3. Far(tr, r - 1, k - 1) \in Int
    BY <2>1, <2>2, FarType
  <2>4. Far(tr, r - 1, k - 1) >= f - 1
    BY <1>10, <2>1, <2>3
  <2>. QED  BY <1>5, <1>11, <2>1, <2>4
<1>13. CASE IsDown(tr, r, k)
  <2>1. k + 1 \in OnRound(r - 1) /\ x = Far(tr, r - 1, k + 1)
    BY <1>4, <1>11, <1>13, StartIs
  <2>2. r - 1 \in 0..(Len(tr) - 2) /\ ~(r <= r - 1)
    BY <1>4, <1>11
  <2>3. Good(r - 1, k + 1)
    BY <1>3, <2>1, <2>2
  <2>4. (k + 1) - 1 = k /\ (r - 1) - 1 = r - 2 /\ (k - 1) + 1 = k /\ (r - 2) + 1 = r - 1
    BY <1>4, <1>6
  <2>5. r - 1 > 0 /\ k \in OnRound(r - 2) /\ Far(tr, r - 2, k) >= f - 1
    BY <1>9, <1>10, <2>1, <2>3, <2>4
  <2>6. r - 2 \in Nat /\ r - 2 \in 0..(Len(tr) - 2)
    BY <1>4, <2>5
  <2>7. k - 1 \in OnRound(r - 1)
    BY <2>4, <2>5, <2>6, Neighbours
  <2>8. Far(tr, r - 1, k - 1) >= Far(tr, r - 2, k)
    <3>. DEFINE q == k - 1
                s == r - 1
    <3>1. q + 1 = k /\ s - 1 = r - 2 /\ q \in OnRound(s) /\ s \in 0..(Len(tr) - 2) /\ s > 0
      BY <2>2, <2>4, <2>5, <2>7
    <3>. HIDE DEF q, s
    <3>2. q + 1 \in OnRound(s - 1)
      BY <2>5, <3>1
    <3>3. Far(tr, s, q) >= Far(tr, s - 1, q + 1)
      BY <3>1, <3>2, Growth
    <3>. QED  BY <3>1, <3>3 DEF q, s
  <2>9. Far(tr, r - 1, k - 1) \in Int /\ Far(tr, r - 2, k) \in Int /\ f \in Int
    BY <1>4, <2>2, <2>5, <2>6, <2>7, FarType
  <2>10. Far(tr, r - 1, k - 1) >= f - 1
    <3>. DEFINE a == Far(tr, r - 1, k - 1)
                b == Far(tr, r - 2, k)
    <3>. HIDE DEF a, b, f
    <3>. QED  BY <2>5, <2>8, <2>9 DEF a, b
  <2>. QED  BY <1>5, <1>11, <2>7, <2>10
<1>. QED  BY <1>12, <1>13

\* A point beyond the end of the new file: the round before was there on the diagonal above.
LEMMA BeyondNew ==
  ASSUME Files, NEW tr, Searched(tr)
  PROVE  \A r \in 0..(Len(tr) - 2) : \A k \in OnRound(r) : Far(tr, r, k) - k >= m + 1 =>
           r > 0 /\ k + 1 \in OnRound(r - 1) /\ Far(tr, r - 1, k + 1) >= Far(tr, r, k)
<1>. DEFINE Good(r, k) == Far(tr, r, k) - k >= m + 1 =>
              r > 0 /\ k + 1 \in OnRound(r - 1) /\ Far(tr, r - 1, k + 1) >= Far(tr, r, k)
            T == {r \in 0..(Len(tr) - 2) : \E k \in OnRound(r) : ~Good(r, k)}
<1>1. SUFFICES ASSUME T # {}  PROVE FALSE
  OBVIOUS
<1>2. T \in SUBSET Nat
  OBVIOUS
<1>3. PICK r \in T : \A b \in T : r <= b
  <2>. HIDE DEF T
  <2>. QED  BY <1>1, <1>2, LeastNumber
<1>4. r \in Nat /\ r \in 0..(Len(tr) - 2) /\ Len(tr) \in Nat /\ m \in Nat
  BY <1>3, LenProperties, FileLengths DEF Searched
<1>5. PICK k \in OnRound(r) : ~Good(r, k)
  BY <1>3
<1>6. k \in Int /\ (r = 0 => k = 0)
  BY <1>4, Neighbours
<1>. DEFINE x == Start(tr, r, k)
            f == Far(tr, r, k)
<1>7. PICK j \in Nat : SnakeOf(x, x - k, j) /\ f = x + j
  BY <1>4, FarSnake
<1>8. x \in Int /\ (r = 0 => x = 0)
  BY <1>4, StartIs
<1>9. f - k >= m + 1
  BY <1>5
<1>10. f = x
  <2>1. j > 0 => (x - k) + j <= m
    BY <1>7 DEF SnakeOf
  <2>. HIDE DEF x, f
  <2>. QED  BY <1>4, <1>6, <1>7, <1>8, <1>9, <2>1
<1>11. r > 0
  <2>. HIDE DEF x, f
  <2>. QED  BY <1>4, <1>6, <1>8, <1>9, <1>10
<1>12. CASE IsDown(tr, r, k)
  <2>1. k + 1 \in OnRound(r - 1) /\ x = Far(tr, r - 1, k + 1)
    BY <1>4, <1>11, <1>12, StartIs
  <2>. QED  BY <1>5, <1>8, <1>10, <1>11, <2>1
<1>13. CASE ~IsDown(tr, r, k)
  <2>. DEFINE b == Far(tr, r - 1, k - 1)
  <2>1. k - 1 \in OnRound(r - 1) /\ x = b + 1
    BY <1>4, <1>11, <1>13, StartIs
  <2>2. r - 1 \in 0..(Len(tr) - 2) /\ ~(r <= r - 1)
    BY <1>4, <1>11
  <2>3. Good(r - 1, k - 1)
    BY <1>3, <2>1, <2>2
  <2>4. (k - 1) + 1 = k /\ (r - 1) - 1 = r - 2 /\ (k + 1) - 1 = k /\ (r - 2) + 1 = r - 1
    BY <1>4, <1>6
  <2>5. b \in Int
    BY <2>1, <2>2, FarType
  <2>6. b - (k - 1) >= m + 1
    <3>. HIDE DEF x, f, b
    <3>. QED  BY <1>4, <1>6, <1>9, <1>10, <2>1, <2>5
  <2>7. r - 1 > 0 /\ k \in OnRound(r - 2) /\ Far(tr, r - 2, k) >= b
    BY <2>3, <2>4, <2>6
  <2>8. r - 2 \in Nat /\ r - 2 \in 0..(Len(tr) - 2)
    BY <1>4, <2>7
  <2>9. k + 1 \in OnRound(r - 1)
    BY <2>4, <2>7, <2>8, Neighbours
  <2>10. Far(tr, r - 1, k + 1) >= Far(tr, r - 2, k) + 1
    <3>. DEFINE q == k + 1
                s == r - 1
    <3>1. q - 1 = k /\ s - 1 = r - 2 /\ q \in OnRound(s) /\ s \in 0..(Len(tr) - 2) /\ s > 0
      BY <2>2, <2>4, <2>7, <2>9
    <3>. HIDE DEF q, s
    <3>2. q - 1 \in OnRound(s - 1)
      BY <2>7, <3>1
    <3>3. Far(tr, s, q) >= Far(tr, s - 1, q - 1) + 1
      BY <3>1, <3>2, Growth
    <3>. QED  BY <3>1, <3>3 DEF q, s
  <2>11. Far(tr, r - 1, k + 1) \in Int /\ Far(tr, r - 2, k) \in Int
    BY <1>4, <2>2, <2>7, <2>8, <2>9, FarType
  <2>12. Far(tr, r - 1, k + 1) >= f
    <3>. DEFINE a == Far(tr, r - 1, k + 1)
                c == Far(tr, r - 2, k)
    <3>. HIDE DEF a, b, c, f, x
    <3>. QED  BY <1>8, <1>10, <2>1, <2>5, <2>7, <2>10, <2>11 DEF a, c
  <2>. QED  BY <1>5, <1>11, <2>9, <2>12
<1>. QED  BY <1>12, <1>13

\* Round r gets to the ends of both files.
ReachedIn(tr, r) == \E k \in OnRound(r) : Far(tr, r, k) >= n /\ Far(tr, r, k) - k >= m

\* The first round that gets to the ends of both files gets there exactly.
LEMMA FirstReach ==
  ASSUME Files, NEW tr, Searched(tr), NEW r \in 0..(Len(tr) - 2), ReachedIn(tr, r),
         r > 0 => ~ReachedIn(tr, r - 1)
  PROVE  n - m \in OnRound(r) /\ Far(tr, r, n - m) = n
<1>1. r \in Nat /\ Len(tr) \in Nat /\ n \in Nat /\ m \in Nat
  BY LenProperties, FileLengths DEF Searched
<1>2. PICK k \in OnRound(r) : Far(tr, r, k) >= n /\ Far(tr, r, k) - k >= m
  BY DEF ReachedIn
<1>. DEFINE f == Far(tr, r, k)
<1>3. f \in Int /\ k \in Int
  BY FarType DEF OnRound
<1>4. ~(f >= n + 1)
  <2>1. SUFFICES ASSUME f >= n + 1  PROVE FALSE
    OBVIOUS
  <2>. DEFINE b == Far(tr, r - 1, k - 1)
  <2>2. r > 0 /\ k - 1 \in OnRound(r - 1) /\ b >= f - 1
    BY <2>1, BeyondOld
  <2>3. b \in Int
    <3>1. r - 1 \in 0..(Len(tr) - 2)
      BY <1>1, <2>2
    <3>. QED  BY <2>2, <3>1, FarType
  <2>4. b >= n /\ b - (k - 1) >= m
    <3>. HIDE DEF f, b
    <3>. QED  BY <1>1, <1>2, <1>3, <2>1, <2>2, <2>3 DEF f
  <2>. QED  BY <2>2, <2>4 DEF ReachedIn
<1>5. ~(f - k >= m + 1)
  <2>1. SUFFICES ASSUME f - k >= m + 1  PROVE FALSE
    OBVIOUS
  <2>. DEFINE a == Far(tr, r - 1, k + 1)
  <2>2. r > 0 /\ k + 1 \in OnRound(r - 1) /\ a >= f
    BY <2>1, BeyondNew
  <2>3. a \in Int
    <3>1. r - 1 \in 0..(Len(tr) - 2)
      BY <1>1, <2>2
    <3>. QED  BY <2>2, <3>1, FarType
  <2>4. a >= n /\ a - (k + 1) >= m
    <3>. HIDE DEF f, a
    <3>. QED  BY <1>1, <1>2, <1>3, <2>1, <2>2, <2>3 DEF f
  <2>. QED  BY <2>2, <2>4 DEF ReachedIn
<1>6. f = n /\ k = n - m
  <2>. HIDE DEF f
  <2>. QED  BY <1>1, <1>2, <1>3, <1>4, <1>5 DEF f
<1>. QED  BY <1>6
-----------------------------------------------------------------------------
(* Ranks, and the lines two files have in common *)

LEMMA CardinalityIs ==
  ASSUME NEW N \in Nat, NEW s \in SUBSET (1..N)
  PROVE  IsFiniteSet(s) /\ Cardinality(s) \in Nat /\ Cardinality(s) <= N
<1>1. IsFiniteSet(1..N) /\ Cardinality(1..N) = N
  BY FS_Interval
<1>2. IsFiniteSet(s) /\ Cardinality(s) <= N
  BY <1>1, FS_Subset
<1>. QED  BY <1>2, FS_CardinalityType

LEMMA RankType ==
  ASSUME NEW N \in Nat, NEW s \in SUBSET (1..N), NEW i \in Int
  PROVE  /\ IsFiniteSet(s) /\ Cardinality(s) \in Nat /\ Cardinality(s) <= N
         /\ Rank(s, i) \in Nat /\ Rank(s, i) <= Cardinality(s)
<1>1. IsFiniteSet(s) /\ Cardinality(s) \in Nat /\ Cardinality(s) <= N
  BY CardinalityIs
<1>4. {j \in s : j <= i} \in SUBSET s
  OBVIOUS
<1>5. IsFiniteSet({j \in s : j <= i}) /\ Cardinality({j \in s : j <= i}) <= Cardinality(s)
  BY <1>1, <1>4, FS_Subset
<1>6. Cardinality({j \in s : j <= i}) \in Nat
  BY <1>5, FS_CardinalityType
<1>. QED  BY <1>1, <1>5, <1>6 DEF Rank

LEMMA RankStep ==
  ASSUME NEW N \in Nat, NEW s \in SUBSET (1..N), NEW i \in Int
  PROVE  Rank(s, i + 1) = IF i + 1 \in s THEN Rank(s, i) + 1 ELSE Rank(s, i)
<1>. DEFINE a == {j \in s : j <= i}
            b == {j \in s : j <= i + 1}
<1>0. \A j \in s : j \in Int /\ 1 <= j /\ j <= N
  OBVIOUS
<1>1. IsFiniteSet(a)
  BY RankType, FS_Subset, a \in SUBSET s
<1>2. CASE i + 1 \in s
  <2>1. \A j \in s : j <= i + 1 <=> j <= i \/ j = i + 1
    BY <1>0
  <2>2. b = a \cup {i + 1} /\ i + 1 \notin a
    <3>1. i + 1 \notin a
      <4>1. ~(i + 1 <= i)
        OBVIOUS
      <4>. QED  BY <4>1
    <3>2. \A j : j \in b <=> j \in a \/ j = i + 1
      <4>1. \A j : j \in b <=> j \in s /\ j <= i + 1
        OBVIOUS
      <4>2. \A j : j \in a <=> j \in s /\ j <= i
        OBVIOUS
      <4>3. i + 1 <= i + 1
        OBVIOUS
      <4>. HIDE DEF a, b
      <4>. QED  BY <1>2, <2>1, <4>1, <4>2, <4>3
    <3>. HIDE DEF a, b
    <3>. QED  BY <3>1, <3>2
  <2>. HIDE DEF a, b
  <2>3. Cardinality(b) = Cardinality(a) + 1
    BY <1>1, <2>2, FS_AddElement
  <2>. QED  BY <1>2, <2>3 DEF Rank, a, b
<1>3. CASE i + 1 \notin s
  <2>1. \A j \in s : j <= i + 1 <=> j <= i
    BY <1>0, <1>3
  <2>2. b = a
    BY <2>1
  <2>. QED  BY <1>3, <2>2 DEF Rank
<1>. QED  BY <1>2, <1>3

LEMMA RankEnds ==
  ASSUME NEW N \in Nat, NEW s \in SUBSET (1..N)
  PROVE  /\ Rank(s, 0) = 0
         /\ \A i \in Int : i >= N => Rank(s, i) = Cardinality(s)
<1>0. \A j \in s : j \in Int /\ 1 <= j /\ j <= N
  OBVIOUS
<1>1. {j \in s : j <= 0} = {}
  <2>1. \A j \in s : ~(j <= 0)
    BY <1>0
  <2>. QED  BY <2>1
<1>2. \A i \in Int : i >= N => {j \in s : j <= i} = s
  <2>. TAKE i \in Int
  <2>. HAVE i >= N
  <2>1. \A j \in s : j <= i
    BY <1>0
  <2>. QED  BY <2>1
<1>. QED  BY <1>1, <1>2, FS_EmptySet DEF Rank

LEMMA RankGrows ==
  ASSUME NEW N \in Nat, NEW s \in SUBSET (1..N), NEW i \in Int, NEW j \in Int, i <= j
  PROVE  /\ Rank(s, i) <= Rank(s, j)
         /\ (\E l \in s : i < l /\ l <= j) => Rank(s, i) < Rank(s, j)
<1>. DEFINE a == {l \in s : l <= i}
            b == {l \in s : l <= j}
<1>0. \A l \in s : l \in Int /\ 1 <= l /\ l <= N
  OBVIOUS
<1>1. a \in SUBSET b /\ a \in SUBSET s /\ b \in SUBSET s
  <2>1. \A l \in s : l <= i => l <= j
    BY <1>0
  <2>. QED  BY <2>1
<1>2. IsFiniteSet(b)
  BY <1>1, RankType, FS_Subset
<1>3. Cardinality(a) <= Cardinality(b) /\ (Cardinality(b) = Cardinality(a) => b = a)
  <2>. HIDE DEF a, b
  <2>. QED  BY <1>1, <1>2, FS_Subset
<1>4. Cardinality(a) \in Nat /\ Cardinality(b) \in Nat
  BY RankType DEF Rank
<1>5. (\E l \in s : i < l /\ l <= j) => a # b
  BY <1>0
<1>. QED  BY <1>3, <1>4, <1>5 DEF Rank

\* A set goes on after f, for c numbers, as another one does from 1 on.
GoesOn(s, f, t, c) == \A i \in 1..c : f + i \in s <=> i \in t

Within(s, N) == s \in SUBSET (1..N)

\* Then its ranks go on likewise.
LEMMA RankShift ==
  ASSUME NEW s, NEW t, NEW N \in Nat, NEW M \in Nat, Within(s, N), Within(t, M),
         NEW f \in Nat, NEW c \in Nat, GoesOn(s, f, t, c)
  PROVE  \A i \in 0..c : Rank(s, f + i) = Rank(s, f) + Rank(t, i)
<1>. s \in SUBSET (1..N) /\ t \in SUBSET (1..M)
  BY DEF Within
<1>. DEFINE T == {i \in 0..c : Rank(s, f + i) # Rank(s, f) + Rank(t, i)}
<1>1. SUFFICES ASSUME T # {}  PROVE FALSE
  OBVIOUS
<1>2. T \in SUBSET Nat
  OBVIOUS
<1>3. PICK i \in T : \A j \in T : i <= j
  <2>. HIDE DEF T
  <2>. QED  BY <1>1, <1>2, LeastNumber
<1>4. i \in Nat /\ i <= c /\ Rank(s, f + i) # Rank(s, f) + Rank(t, i)
  BY <1>3
<1>5. Rank(s, f) \in Nat /\ \A j \in Int : Rank(t, j) \in Nat
  <2>1. f \in Int
    OBVIOUS
  <2>. QED  BY <2>1, RankType
<1>6. i # 0
  <2>1. Rank(t, 0) = 0 /\ f + 0 = f
    BY RankEnds
  <2>. QED  BY <1>4, <1>5, <2>1
<1>7. i - 1 \in 0..c /\ i - 1 \notin T
  BY <1>3, <1>4, <1>6
<1>8. Rank(s, f + (i - 1)) = Rank(s, f) + Rank(t, i - 1)
  BY <1>7
<1>9. Rank(s, f + i) = IF f + i \in s THEN Rank(s, f + (i - 1)) + 1 ELSE Rank(s, f + (i - 1))
  <2>1. f + (i - 1) \in Int /\ (f + (i - 1)) + 1 = f + i
    BY <1>4
  <2>. QED  BY <2>1, RankStep
<1>10. Rank(t, i) = IF i \in t THEN Rank(t, i - 1) + 1 ELSE Rank(t, i - 1)
  <2>. DEFINE q == i - 1
  <2>1. q \in Int /\ q + 1 = i
    BY <1>4
  <2>. HIDE DEF q
  <2>2. Rank(t, q + 1) = IF q + 1 \in t THEN Rank(t, q) + 1 ELSE Rank(t, q)
    BY <2>1, RankStep
  <2>. QED  BY <2>1, <2>2 DEF q
<1>11. f + i \in s <=> i \in t
  BY <1>4, <1>6 DEF GoesOn
<1>12. Rank(t, i - 1) \in Nat
  BY <1>5, <1>7
<1>. DEFINE a == Rank(s, f)
            b == Rank(t, i - 1)
<1>13. a \in Nat /\ b \in Nat
  BY <1>5, <1>12
<1>. HIDE DEF a, b
<1>14. Rank(s, f + i) = (IF i \in t THEN a + b + 1 ELSE a + b) /\ Rank(t, i) = IF i \in t THEN b + 1 ELSE b
  BY <1>8, <1>9, <1>10, <1>11, <1>13 DEF a, b
<1>15. a + (IF i \in t THEN b + 1 ELSE b) = IF i \in t THEN a + b + 1 ELSE a + b
  BY <1>13
<1>. QED  BY <1>4, <1>14, <1>15 DEF a

\* One more line in common, after the others.
LEMMA AddMatch ==
  ASSUME NEW x \in Nat, NEW y \in Nat, NEW s \in SUBSET (1..x), NEW t \in SUBSET (1..y),
         Matches(s, t), old[x + 1] = new[y + 1]
  PROVE  /\ s \cup {x + 1} \in SUBSET (1..(x + 1)) /\ t \cup {y + 1} \in SUBSET (1..(y + 1))
         /\ Matches(s \cup {x + 1}, t \cup {y + 1})
         /\ Cardinality(s \cup {x + 1}) = Cardinality(s) + 1
<1>. DEFINE S == s \cup {x + 1}
            T == t \cup {y + 1}
<1>1. S \in SUBSET (1..(x + 1)) /\ T \in SUBSET (1..(y + 1)) /\ x + 1 \notin s /\ y + 1 \notin t
  OBVIOUS
<1>2. /\ IsFiniteSet(s) /\ Cardinality(s) \in Nat /\ IsFiniteSet(t) /\ Cardinality(t) \in Nat
      /\ \A i \in Int : Rank(s, i) <= Cardinality(s) /\ Rank(s, i) \in Nat
      /\ \A i \in Int : Rank(t, i) <= Cardinality(t) /\ Rank(t, i) \in Nat
  BY RankType
<1>3. Cardinality(S) = Cardinality(s) + 1 /\ Cardinality(T) = Cardinality(t) + 1
  BY <1>1, <1>2, FS_AddElement
<1>4. \A i \in s : Rank(S, i) = Rank(s, i)
  <2>. TAKE i \in s
  <2>1. {j \in S : j <= i} = {j \in s : j <= i}
    OBVIOUS
  <2>. QED  BY <2>1 DEF Rank
<1>5. \A i \in t : Rank(T, i) = Rank(t, i)
  <2>. TAKE i \in t
  <2>1. {j \in T : j <= i} = {j \in t : j <= i}
    OBVIOUS
  <2>. QED  BY <2>1 DEF Rank
<1>6. Rank(S, x + 1) = Cardinality(S) /\ Rank(T, y + 1) = Cardinality(T)
  <2>1. (\A j \in S : j <= x + 1) /\ (\A j \in T : j <= y + 1)
    BY <1>1
  <2>2. {j \in S : j <= x + 1} = S /\ {j \in T : j <= y + 1} = T
    BY <2>1
  <2>. QED  BY <2>2 DEF Rank
<1>7. Cardinality(s) = Cardinality(t) /\ \A i \in s, j \in t : Rank(s, i) = Rank(t, j) => old[i] = new[j]
  BY DEF Matches
<1>8. ASSUME NEW i \in S, NEW j \in T, Rank(S, i) = Rank(T, j)  PROVE old[i] = new[j]
  <2>1. i \in Int /\ j \in Int
    BY <1>1
  <2>2. CASE i \in s /\ j \in t
    BY <1>4, <1>5, <1>7, <1>8, <2>2
  <2>3. CASE i \in s /\ j \notin t
    <3>1. j = y + 1 /\ Rank(T, j) = Cardinality(s) + 1
      BY <1>3, <1>6, <1>7, <2>3
    <3>2. Rank(S, i) <= Cardinality(s) /\ Rank(S, i) \in Nat
      BY <1>2, <1>4, <2>1, <2>3
    <3>. QED  BY <1>2, <1>8, <3>1, <3>2
  <2>4. CASE i \notin s /\ j \in t
    <3>1. i = x + 1 /\ Rank(S, i) = Cardinality(s) + 1
      BY <1>3, <1>6, <2>4
    <3>2. Rank(T, j) <= Cardinality(s) /\ Rank(T, j) \in Nat
      BY <1>2, <1>5, <1>7, <2>1, <2>4
    <3>. QED  BY <1>2, <1>8, <3>1, <3>2
  <2>5. CASE i \notin s /\ j \notin t
    BY <2>5
  <2>. QED  BY <2>2, <2>3, <2>4, <2>5
<1>9. Matches(S, T)
  BY <1>3, <1>7, <1>8 DEF Matches
<1>. QED  BY <1>1, <1>3, <1>9

\* And the last one taken away.
LEMMA TakeMatch ==
  ASSUME NEW x \in Nat, NEW y \in Nat, NEW s \in SUBSET (1..x), NEW t \in SUBSET (1..y),
         Matches(s, t), x \in s, y \in t
  PROVE  /\ old[x] = new[y]
         /\ s \ {x} \in SUBSET (1..(x - 1)) /\ t \ {y} \in SUBSET (1..(y - 1))
         /\ Matches(s \ {x}, t \ {y})
         /\ Cardinality(s \ {x}) = Cardinality(s) - 1
<1>. DEFINE S == s \ {x}
            T == t \ {y}
<1>1. IsFiniteSet(s) /\ Cardinality(s) \in Nat /\ IsFiniteSet(t) /\ Cardinality(t) \in Nat
  BY RankType
<1>2. Cardinality(S) = Cardinality(s) - 1 /\ Cardinality(T) = Cardinality(t) - 1
  BY <1>1, FS_RemoveElement
<1>3. Cardinality(s) = Cardinality(t) /\ \A i \in s, j \in t : Rank(s, i) = Rank(t, j) => old[i] = new[j]
  BY DEF Matches
<1>4. Rank(s, x) = Cardinality(s) /\ Rank(t, y) = Cardinality(t)
  <2>1. (\A j \in s : j <= x) /\ (\A j \in t : j <= y)
    OBVIOUS
  <2>2. {j \in s : j <= x} = s /\ {j \in t : j <= y} = t
    BY <2>1
  <2>. QED  BY <2>2 DEF Rank
<1>5. \A i \in S : Rank(S, i) = Rank(s, i)
  <2>. TAKE i \in S
  <2>1. {j \in S : j <= i} = {j \in s : j <= i}
    OBVIOUS
  <2>. QED  BY <2>1 DEF Rank
<1>6. \A i \in T : Rank(T, i) = Rank(t, i)
  <2>. TAKE i \in T
  <2>1. {j \in T : j <= i} = {j \in t : j <= i}
    OBVIOUS
  <2>. QED  BY <2>1 DEF Rank
<1>7. Matches(S, T)
  BY <1>2, <1>3, <1>5, <1>6 DEF Matches
<1>8. S \in SUBSET (1..(x - 1)) /\ T \in SUBSET (1..(y - 1))
  OBVIOUS
<1>. QED  BY <1>2, <1>3, <1>4, <1>7, <1>8
\* The rounds get to where lines in common lead: one edit a round is enough.
Leads(tr, x, y, c) ==
  x + y - 2 * c <= Len(tr) - 2 =>
    /\ x + y - 2 * c \in Nat /\ x - y \in OnRound(x + y - 2 * c)
    /\ Far(tr, x + y - 2 * c, x - y) >= x

LEMMA LeadsAcross ==
  ASSUME Files, NEW tr, Searched(tr), NEW x \in Nat, NEW y \in Nat, NEW c \in Nat,
         x > 0, Leads(tr, x - 1, y, c)
  PROVE  Leads(tr, x, y, c)
<1>1. Len(tr) \in Nat
  BY LenProperties DEF Searched
<1>. DEFINE r == x + y - 2 * c
            k == x - y
<1>2. SUFFICES ASSUME r <= Len(tr) - 2  PROVE r \in Nat /\ k \in OnRound(r) /\ Far(tr, r, k) >= x
  BY DEF Leads
<1>3. (x - 1) + y - 2 * c = r - 1 /\ (x - 1) - y = k - 1 /\ r \in Int /\ k \in Int
  OBVIOUS
<1>4. r - 1 <= Len(tr) - 2
  BY <1>1, <1>2, <1>3
<1>5. r - 1 \in Nat /\ k - 1 \in OnRound(r - 1) /\ Far(tr, r - 1, k - 1) >= x - 1
  BY <1>3, <1>4 DEF Leads
<1>. HIDE DEF r, k
<1>6. r \in Nat /\ r > 0 /\ r \in 0..(Len(tr) - 2) /\ r - 1 \in 0..(Len(tr) - 2)
  BY <1>1, <1>2, <1>3, <1>5
<1>7. k \in OnRound(r)
  BY <1>3, <1>5, <1>6, NeighboursBack
<1>8. Far(tr, r, k) >= Far(tr, r - 1, k - 1) + 1
  BY <1>5, <1>6, <1>7, Growth
<1>9. Far(tr, r, k) \in Int /\ Far(tr, r - 1, k - 1) \in Int
  BY <1>5, <1>6, <1>7, FarType
<1>10. Far(tr, r, k) >= x
  <2>. DEFINE a == Far(tr, r, k)
              b == Far(tr, r - 1, k - 1)
  <2>. HIDE DEF a, b
  <2>. QED  BY <1>5, <1>8, <1>9 DEF a, b
<1>. QED  BY <1>6, <1>7, <1>10

LEMMA LeadsDown ==
  ASSUME Files, NEW tr, Searched(tr), NEW x \in Nat, NEW y \in Nat, NEW c \in Nat,
         y > 0, Leads(tr, x, y - 1, c)
  PROVE  Leads(tr, x, y, c)
<1>1. Len(tr) \in Nat
  BY LenProperties DEF Searched
<1>. DEFINE r == x + y - 2 * c
            k == x - y
<1>2. SUFFICES ASSUME r <= Len(tr) - 2  PROVE r \in Nat /\ k \in OnRound(r) /\ Far(tr, r, k) >= x
  BY DEF Leads
<1>3. x + (y - 1) - 2 * c = r - 1 /\ x - (y - 1) = k + 1 /\ r \in Int /\ k \in Int
  OBVIOUS
<1>4. r - 1 <= Len(tr) - 2
  BY <1>1, <1>2, <1>3
<1>5. r - 1 \in Nat /\ k + 1 \in OnRound(r - 1) /\ Far(tr, r - 1, k + 1) >= x
  BY <1>3, <1>4 DEF Leads
<1>. HIDE DEF r, k
<1>6. r \in Nat /\ r > 0 /\ r \in 0..(Len(tr) - 2) /\ r - 1 \in 0..(Len(tr) - 2)
  BY <1>1, <1>2, <1>3, <1>5
<1>7. k \in OnRound(r)
  BY <1>3, <1>5, <1>6, NeighboursBack
<1>8. Far(tr, r, k) >= Far(tr, r - 1, k + 1)
  BY <1>5, <1>6, <1>7, Growth
<1>9. Far(tr, r, k) \in Int /\ Far(tr, r - 1, k + 1) \in Int
  BY <1>5, <1>6, <1>7, FarType
<1>10. Far(tr, r, k) >= x
  <2>. DEFINE a == Far(tr, r, k)
              b == Far(tr, r - 1, k + 1)
  <2>. HIDE DEF a, b
  <2>. QED  BY <1>5, <1>8, <1>9 DEF a, b
<1>. QED  BY <1>6, <1>7, <1>10

LEMMA LeadsAlong ==
  ASSUME Files, NEW tr, Searched(tr), NEW x \in 1..n, NEW y \in 1..m, NEW c \in Nat,
         old[x] = new[y], c > 0, Leads(tr, x - 1, y - 1, c - 1)
  PROVE  Leads(tr, x, y, c)
<1>1. Len(tr) \in Nat /\ n \in Nat /\ m \in Nat
  BY LenProperties, FileLengths DEF Searched
<1>. DEFINE r == x + y - 2 * c
            k == x - y
<1>2. SUFFICES ASSUME r <= Len(tr) - 2  PROVE r \in Nat /\ k \in OnRound(r) /\ Far(tr, r, k) >= x
  BY DEF Leads
<1>3. (x - 1) + (y - 1) - 2 * (c - 1) = r /\ (x - 1) - (y - 1) = k /\ r \in Int /\ k \in Int
  BY <1>1
<1>4. r \in Nat /\ k \in OnRound(r) /\ Far(tr, r, k) >= x - 1
  BY <1>2, <1>3 DEF Leads
<1>5. r \in 0..(Len(tr) - 2)
  BY <1>1, <1>2, <1>4
<1>. DEFINE f == Far(tr, r, k)
<1>6. f \in Int
  BY <1>4, <1>5, FarType
<1>7. f # x - 1
  <2>1. SUFFICES ASSUME f = x - 1  PROVE FALSE
    OBVIOUS
  <2>2. f < n /\ f - k < m /\ f + 1 = x /\ f - k + 1 = y
    BY <1>1, <2>1
  <2>3. old[f + 1] # new[f - k + 1]
    BY <1>4, <1>5, <2>2, Unmatched
  <2>. QED  BY <2>2, <2>3
<1>8. f >= x
  <2>1. f >= x - 1 /\ x \in Int
    BY <1>4
  <2>. HIDE DEF f
  <2>. QED  BY <1>6, <1>7, <2>1
<1>. QED  BY <1>4, <1>8

LEMMA FarEnough ==
  ASSUME Files, NEW tr, Searched(tr)
  PROVE  \A x \in 0..n, y \in 0..m : \A s \in SUBSET (1..x), t \in SUBSET (1..y) :
           Matches(s, t) => Leads(tr, x, y, Cardinality(s))
<1>0. Len(tr) \in Nat /\ n \in Nat /\ m \in Nat
  BY LenProperties, FileLengths DEF Searched
<1>. DEFINE Bad(z, x, y, s, t) == x + y = z /\ Matches(s, t) /\ ~Leads(tr, x, y, Cardinality(s))
            T == {z \in Nat : \E x \in 0..n, y \in 0..m : \E s \in SUBSET (1..x), t \in SUBSET (1..y) :
                    Bad(z, x, y, s, t)}
<1>1. SUFFICES ASSUME T # {}  PROVE FALSE
  <2>1. T = {}
    BY <1>1
  <2>. SUFFICES ASSUME NEW x \in 0..n, NEW y \in 0..m, NEW s \in SUBSET (1..x), NEW t \in SUBSET (1..y),
                       Matches(s, t)
                PROVE  Leads(tr, x, y, Cardinality(s))
    OBVIOUS
  <2>2. x + y \in Nat
    BY <1>0
  <2>3. ~Bad(x + y, x, y, s, t)
    BY <2>1, <2>2
  <2>. QED  BY <2>3
<1>2. T \in SUBSET Nat
  OBVIOUS
<1>3. PICK z \in T : \A b \in T : z <= b
  <2>. HIDE DEF T
  <2>. QED  BY <1>1, <1>2, LeastNumber
<1>4. z \in Nat
  BY <1>2, <1>3
<1>5. PICK x \in 0..n, y \in 0..m : \E s \in SUBSET (1..x), t \in SUBSET (1..y) : Bad(z, x, y, s, t)
  BY <1>3
<1>6. PICK s \in SUBSET (1..x), t \in SUBSET (1..y) : Bad(z, x, y, s, t)
  BY <1>5
<1>7. x \in Nat /\ y \in Nat /\ x <= n /\ y <= m /\ x + y = z
  BY <1>0, <1>6
<1>. DEFINE c == Cardinality(s)
<1>8. c \in Nat /\ c = Cardinality(t) /\ IsFiniteSet(s) /\ IsFiniteSet(t)
  BY <1>6, <1>7, RankType DEF Matches
<1>9. Matches(s, t) /\ ~Leads(tr, x, y, c)
  BY <1>6
<1>10. ASSUME NEW i \in 0..n, NEW j \in 0..m, NEW p \in SUBSET (1..i), NEW q \in SUBSET (1..j),
              i + j < z, Matches(p, q)
       PROVE  Leads(tr, i, j, Cardinality(p))
  <2>1. i + j \in Nat /\ ~(z <= i + j)
    BY <1>0, <1>4, <1>10
  <2>2. i + j \notin T
    BY <1>3, <2>1
  <2>3. ~Bad(i + j, i, j, p, q)
    BY <2>1, <2>2
  <2>. QED  BY <1>10, <2>3
<1>. HIDE DEF T, Bad
<1>11. ~(x > 0 /\ x \notin s)
  <2>1. SUFFICES ASSUME x > 0, x \notin s  PROVE FALSE
    OBVIOUS
  <2>2. x - 1 \in 0..n /\ (x - 1) + y < z
    BY <1>0, <1>7, <2>1
  <2>3. s \in SUBSET (1..(x - 1))
    <3>1. \A i \in s : i \in 1..x /\ i # x
      BY <2>1
    <3>2. \A i \in s : i \in 1..(x - 1)
      BY <1>7, <3>1
    <3>. QED  BY <3>2
  <2>4. Leads(tr, x - 1, y, c)
    BY <1>9, <1>10, <2>2, <2>3
  <2>. HIDE DEF c
  <2>. QED  BY <1>7, <1>8, <1>9, <2>1, <2>4, LeadsAcross
<1>12. ~(y > 0 /\ y \notin t)
  <2>1. SUFFICES ASSUME y > 0, y \notin t  PROVE FALSE
    OBVIOUS
  <2>2. y - 1 \in 0..m /\ x + (y - 1) < z
    BY <1>0, <1>7, <2>1
  <2>3. t \in SUBSET (1..(y - 1))
    <3>1. \A i \in t : i \in 1..y /\ i # y
      BY <2>1
    <3>2. \A i \in t : i \in 1..(y - 1)
      BY <1>7, <3>1
    <3>. QED  BY <3>2
  <2>4. Leads(tr, x, y - 1, c)
    BY <1>9, <1>10, <2>2, <2>3
  <2>. HIDE DEF c
  <2>. QED  BY <1>7, <1>8, <1>9, <2>1, <2>4, LeadsDown
<1>13. ~(x \in s /\ y \in t)
  <2>1. SUFFICES ASSUME x \in s, y \in t  PROVE FALSE
    OBVIOUS
  <2>2. /\ old[x] = new[y]
        /\ s \ {x} \in SUBSET (1..(x - 1)) /\ t \ {y} \in SUBSET (1..(y - 1))
        /\ Matches(s \ {x}, t \ {y})
        /\ Cardinality(s \ {x}) = c - 1
    BY <1>7, <1>9, <2>1, TakeMatch
  <2>3. x \in 1..n /\ y \in 1..m
    BY <1>0, <1>7, <2>1
  <2>4. x - 1 \in 0..n /\ y - 1 \in 0..m /\ (x - 1) + (y - 1) < z
    BY <1>0, <1>7, <2>3
  <2>5. c > 0
    BY <1>8, <2>1, FS_EmptySet
  <2>6. Leads(tr, x - 1, y - 1, Cardinality(s \ {x}))
    BY <1>10, <2>2, <2>4
  <2>7. Leads(tr, x - 1, y - 1, c - 1)
    BY <2>2, <2>6
  <2>. HIDE DEF c
  <2>. QED  BY <1>8, <1>9, <2>2, <2>3, <2>5, <2>7, LeadsAlong
<1>14. x = 0 \/ x \in s
  BY <1>7, <1>11
<1>15. y = 0 \/ y \in t
  BY <1>7, <1>12
<1>16. (s = {} <=> c = 0) /\ (t = {} <=> c = 0)
  BY <1>8, FS_EmptySet
<1>17. x = 0 => s = {}
  <2>1. x = 0 => 1..x = {}
    OBVIOUS
  <2>. QED  BY <2>1
<1>18. y = 0 => t = {}
  <2>1. y = 0 => 1..y = {}
    OBVIOUS
  <2>. QED  BY <2>1
<1>19. x = 0 /\ y = 0 /\ c = 0
  BY <1>13, <1>14, <1>15, <1>16, <1>17, <1>18
<1>20. Leads(tr, x, y, c)
  <2>. HIDE DEF c
  <2>1. SUFFICES ASSUME 0 <= Len(tr) - 2  PROVE 0 \in OnRound(0) /\ Far(tr, 0, 0) >= 0
    <3>1. x + y - 2 * c = 0 /\ x - y = 0
      BY <1>19
    <3>. QED  BY <1>19, <3>1 DEF Leads
  <2>2. 0 \in OnRound(0) /\ 0 \in 0..(Len(tr) - 2)
    BY <1>0, <2>1 DEF OnRound
  <2>. QED  BY <2>2, FarBounds
<1>. QED  BY <1>9, <1>20
\* A run of equal lines after lines in common.
LEMMA RunMatches ==
  ASSUME NEW x \in Nat, NEW y \in Nat, NEW s \in SUBSET (1..x), NEW t \in SUBSET (1..y), Matches(s, t),
         NEW j \in Nat, \A i \in 1..j : old[x + i] = new[y + i]
  PROVE  \E p \in SUBSET (1..(x + j)), q \in SUBSET (1..(y + j)) :
           Matches(p, q) /\ Cardinality(p) = Cardinality(s) + j
<1>. DEFINE Good(i) == \E p \in SUBSET (1..(x + i)), q \in SUBSET (1..(y + i)) :
              Matches(p, q) /\ Cardinality(p) = Cardinality(s) + i
            T == {i \in 0..j : ~Good(i)}
<1>1. SUFFICES ASSUME T # {}  PROVE FALSE
  <2>1. j \in 0..j
    OBVIOUS
  <2>. QED  BY <1>1, <2>1
<1>2. T \in SUBSET Nat
  OBVIOUS
<1>3. PICK i \in T : \A b \in T : i <= b
  <2>. HIDE DEF T
  <2>. QED  BY <1>1, <1>2, LeastNumber
<1>4. i \in Nat /\ i <= j /\ ~Good(i)
  BY <1>3
<1>5. i # 0
  <2>1. x + 0 = x /\ y + 0 = y /\ Cardinality(s) + 0 = Cardinality(s)
    <3>1. Cardinality(s) \in Nat
      BY CardinalityIs
    <3>. QED  BY <3>1
  <2>2. Good(0)
    BY <2>1
  <2>. QED  BY <1>4, <2>2
<1>. DEFINE h == i - 1
<1>6. h \in 0..j /\ ~(i <= h) /\ h \in Nat /\ i = h + 1
  BY <1>4, <1>5
<1>7. Good(h)
  BY <1>3, <1>6
<1>. HIDE DEF h
<1>8. PICK p \in SUBSET (1..(x + h)), q \in SUBSET (1..(y + h)) :
        Matches(p, q) /\ Cardinality(p) = Cardinality(s) + h
  BY <1>7
<1>. DEFINE X == x + h
            Y == y + h
<1>9. X \in Nat /\ Y \in Nat /\ X + 1 = x + i /\ Y + 1 = y + i
  BY <1>6
<1>10. old[X + 1] = new[Y + 1]
  <2>1. i \in 1..j
    BY <1>4, <1>5
  <2>. QED  BY <1>9, <2>1
<1>11. p \in SUBSET (1..X) /\ q \in SUBSET (1..Y)
  OBVIOUS
<1>. HIDE DEF X, Y
<1>12. /\ p \cup {X + 1} \in SUBSET (1..(X + 1)) /\ q \cup {Y + 1} \in SUBSET (1..(Y + 1))
       /\ Matches(p \cup {X + 1}, q \cup {Y + 1})
       /\ Cardinality(p \cup {X + 1}) = Cardinality(p) + 1
  <2>1. X \in Nat /\ Y \in Nat /\ Matches(p, q)
    BY <1>8, <1>9
  <2>. QED  BY ONLY <2>1, <1>10, <1>11, AddMatch
<1>13. Cardinality(p \cup {X + 1}) = Cardinality(s) + i
  <2>1. Cardinality(s) \in Nat
    BY CardinalityIs
  <2>. QED  BY <1>6, <1>8, <1>12, <2>1
<1>14. Good(i)
  BY <1>9, <1>12, <1>13
<1>. QED  BY <1>4, <1>14

\* Where a round starts is not left of the old file or above the new one either.
LEMMA StartBounds ==
  ASSUME Files, NEW tr, Searched(tr), NEW r \in 0..(Len(tr) - 2), NEW k \in OnRound(r)
  PROVE  Start(tr, r, k) \in Nat /\ Start(tr, r, k) - k \in Nat
<1>1. r \in Nat /\ Len(tr) \in Nat
  BY LenProperties DEF Searched
<1>2. k \in Int /\ (r = 0 => k = 0)
  BY <1>1, Neighbours
<1>. DEFINE x == Start(tr, r, k)
<1>3. x \in Int /\ (r = 0 => x = 0)
  BY StartIs
<1>4. CASE r = 0
  BY <1>2, <1>3, <1>4
<1>5. CASE r > 0
  <2>1. r - 1 \in 0..(Len(tr) - 2)
    BY <1>1, <1>5
  <2>2. \A i \in OnRound(r - 1) : Far(tr, r - 1, i) >= 0 /\ Far(tr, r - 1, i) >= i /\ Far(tr, r - 1, i) \in Int
    BY <2>1, FarBounds, FarType
  <2>3. CASE IsDown(tr, r, k)
    <3>1. k + 1 \in OnRound(r - 1) /\ x = Far(tr, r - 1, k + 1)
      BY <1>5, <2>3, StartIs
    <3>2. x >= 0 /\ x >= k + 1
      BY <2>2, <3>1
    <3>. HIDE DEF x
    <3>3. x \in Nat /\ x - k \in Nat
      BY <1>2, <1>3, <3>2
    <3>. QED  BY <3>3 DEF x
  <2>4. CASE ~IsDown(tr, r, k)
    <3>. DEFINE b == Far(tr, r - 1, k - 1)
    <3>1. k - 1 \in OnRound(r - 1) /\ x = b + 1
      BY <1>5, <2>4, StartIs
    <3>2. b >= 0 /\ b >= k - 1 /\ b \in Int
      BY <2>2, <3>1
    <3>. HIDE DEF x, b
    <3>3. x \in Nat /\ x - k \in Nat
      BY <1>2, <1>3, <3>1, <3>2
    <3>. QED  BY <3>3 DEF x
  <2>. QED  BY <2>3, <2>4
<1>. QED  BY <1>1, <1>4, <1>5

\* Where a round gets to, lines in common lead there with as many edits.
ComesFrom(x, y, r) ==
  \E s \in SUBSET (1..x), t \in SUBSET (1..y) : Matches(s, t) /\ 2 * Cardinality(s) = x + y - r

LEMMA ComesAlong ==
  ASSUME NEW x \in Nat, NEW y \in Nat, NEW r \in Nat, ComesFrom(x, y, r),
         NEW j \in Nat, \A i \in 1..j : old[x + i] = new[y + i]
  PROVE  ComesFrom(x + j, y + j, r)
<1>1. PICK s \in SUBSET (1..x), t \in SUBSET (1..y) : Matches(s, t) /\ 2 * Cardinality(s) = x + y - r
  BY DEF ComesFrom
<1>2. PICK p \in SUBSET (1..(x + j)), q \in SUBSET (1..(y + j)) :
        Matches(p, q) /\ Cardinality(p) = Cardinality(s) + j
  BY <1>1, RunMatches
<1>3. Cardinality(s) \in Nat
  BY CardinalityIs
<1>4. 2 * Cardinality(p) = (x + j) + (y + j) - r
  <2>. DEFINE c == Cardinality(s)
  <2>1. c \in Nat /\ 2 * c = x + y - r /\ Cardinality(p) = c + j
    BY <1>1, <1>2, <1>3
  <2>. HIDE DEF c
  <2>. QED  BY <2>1
<1>. QED  BY <1>2, <1>4 DEF ComesFrom

LEMMA ComesFurther ==
  ASSUME NEW x \in Nat, NEW y \in Nat, NEW r \in Nat, ComesFrom(x, y, r)
  PROVE  ComesFrom(x + 1, y, r + 1) /\ ComesFrom(x, y + 1, r + 1)
<1>1. PICK s \in SUBSET (1..x), t \in SUBSET (1..y) : Matches(s, t) /\ 2 * Cardinality(s) = x + y - r
  BY DEF ComesFrom
<1>2. s \in SUBSET (1..(x + 1)) /\ t \in SUBSET (1..(y + 1))
  <2>1. 1..x \subseteq 1..(x + 1) /\ 1..y \subseteq 1..(y + 1)
    OBVIOUS
  <2>. QED  BY <2>1
<1>3. x + y - r = (x + 1) + y - (r + 1) /\ x + y - r = x + (y + 1) - (r + 1)
  OBVIOUS
<1>. QED  BY <1>1, <1>2, <1>3 DEF ComesFrom

LEMMA FarComes ==
  ASSUME Files, NEW tr, Searched(tr)
  PROVE  \A r \in 0..(Len(tr) - 2) : \A k \in OnRound(r) : ComesFrom(Far(tr, r, k), Far(tr, r, k) - k, r)
<1>. DEFINE Good(r, k) == ComesFrom(Far(tr, r, k), Far(tr, r, k) - k, r)
            T == {r \in 0..(Len(tr) - 2) : \E k \in OnRound(r) : ~Good(r, k)}
<1>1. SUFFICES ASSUME T # {}  PROVE FALSE
  OBVIOUS
<1>2. T \in SUBSET Nat
  OBVIOUS
<1>3. PICK r \in T : \A b \in T : r <= b
  <2>. HIDE DEF T
  <2>. QED  BY <1>1, <1>2, LeastNumber
<1>4. r \in Nat /\ r \in 0..(Len(tr) - 2) /\ Len(tr) \in Nat
  BY <1>3, LenProperties DEF Searched
<1>5. PICK k \in OnRound(r) : ~Good(r, k)
  BY <1>3
<1>6. k \in Int /\ (r = 0 => k = 0)
  BY <1>4, Neighbours
<1>. DEFINE x == Start(tr, r, k)
<1>7. PICK j \in Nat : SnakeOf(x, x - k, j) /\ Far(tr, r, k) = x + j
  BY <1>4, FarSnake
<1>8. x \in Nat /\ x - k \in Nat /\ (r = 0 => x = 0)
  BY <1>4, StartBounds, StartIs
<1>9. ComesFrom(x, x - k, r)
  <2>1. CASE r = 0
    <3>1. Matches({}, {}) /\ Cardinality({}) = 0
      BY FS_EmptySet DEF Matches
    <3>2. x = 0 /\ x - k = 0 /\ 2 * Cardinality({}) = x + (x - k) - r
      BY <1>6, <1>8, <2>1, <3>1
    <3>. QED  BY <3>1, <3>2 DEF ComesFrom
  <2>2. CASE r > 0
    <3>. DEFINE q == r - 1
    <3>0. q \in 0..(Len(tr) - 2) /\ ~(r <= q) /\ q \in Nat /\ q + 1 = r
      BY <1>4, <2>2
    <3>1. \A i \in OnRound(q) : Good(q, i)
      BY <1>3, <3>0
    <3>2. CASE IsDown(tr, r, k)
      <4>1. k + 1 \in OnRound(q) /\ x = Far(tr, q, k + 1)
        BY <1>4, <2>2, <3>2, StartIs
      <4>2. ComesFrom(x, x - (k + 1), q)
        BY <3>1, <4>1
      <4>3. x - (k + 1) \in Nat
        <5>1. Far(tr, q, k + 1) >= k + 1
          BY <3>0, <4>1, FarBounds
        <5>. QED  BY <1>6, <1>8, <4>1, <5>1
      <4>4. (x - (k + 1)) + 1 = x - k
        BY <1>6, <1>8
      <4>. HIDE DEF x, q
      <4>. QED  BY <1>8, <3>0, <4>2, <4>3, <4>4, ComesFurther
    <3>3. CASE ~IsDown(tr, r, k)
      <4>. DEFINE b == Far(tr, q, k - 1)
      <4>1. k - 1 \in OnRound(q) /\ x = b + 1
        BY <1>4, <2>2, <3>3, StartIs
      <4>2. ComesFrom(b, b - (k - 1), q)
        BY <3>1, <4>1
      <4>3. b \in Nat
        <5>1. b >= 0 /\ b \in Int
          BY <3>0, <4>1, FarBounds, FarType
        <5>. QED  BY <5>1
      <4>4. b - (k - 1) = x - k
        BY <1>6, <4>1, <4>3
      <4>. HIDE DEF x, q, b
      <4>. QED  BY <1>8, <3>0, <4>1, <4>2, <4>3, <4>4, ComesFurther
    <3>. QED  BY <3>2, <3>3
  <2>. QED  BY <1>4, <2>1, <2>2
<1>10. (x + j) - k = (x - k) + j
  BY <1>6, <1>8
<1>11. \A i \in 1..j : old[x + i] = new[(x - k) + i]
  BY <1>7 DEF SnakeOf
<1>12. ComesFrom(x + j, (x - k) + j, r)
  <2>. DEFINE y == x - k
  <2>. HIDE DEF x, y
  <2>. QED  BY <1>4, <1>8, <1>9, <1>11, ComesAlong DEF y
<1>. QED  BY <1>5, <1>7, <1>10, <1>12

\* The round that first gets to the ends of both files is the number of edits of a shortest script.
LEMMA RoundsAreShortest ==
  ASSUME Files, NEW tr, Searched(tr), NEW r \in 0..(Len(tr) - 2), ReachedIn(tr, r),
         \A q \in 0..(r - 1) : ~ReachedIn(tr, q)
  PROVE  r = n + m - 2 * Common
<1>1. r \in Nat /\ Len(tr) \in Nat /\ n \in Nat /\ m \in Nat /\ DOMAIN old = 1..n /\ DOMAIN new = 1..m
  BY LenProperties, FileLengths DEF Searched
<1>2. n - m \in OnRound(r) /\ Far(tr, r, n - m) = n
  <2>1. r > 0 => ~ReachedIn(tr, r - 1)
    BY <1>1
  <2>. QED  BY <2>1, FirstReach
<1>3. PICK s \in SUBSET (1..n), t \in SUBSET (1..m) : Matches(s, t) /\ 2 * Cardinality(s) = n + m - r
  <2>1. ComesFrom(n, n - (n - m), r)
    BY <1>2, FarComes
  <2>2. n - (n - m) = m
    BY <1>1
  <2>. QED  BY <2>1, <2>2 DEF ComesFrom
<1>4. ASSUME NEW p \in SUBSET (1..n), NEW q \in SUBSET (1..m), Matches(p, q)
      PROVE  Cardinality(p) <= Cardinality(s)
  <2>. DEFINE c == Cardinality(p)
              z == n + m - 2 * c
              b == Cardinality(s)
  <2>1. c \in Nat /\ b \in Nat
    BY <1>1, CardinalityIs
  <2>2. SUFFICES ASSUME ~(c <= b)  PROVE FALSE
    OBVIOUS
  <2>3. 2 * b = n + m - r
    BY <1>3
  <2>4. Leads(tr, n, m, c)
    <3>1. n \in 0..n /\ m \in 0..m
      BY <1>1
    <3>. QED  BY <1>4, <3>1, FarEnough
  <2>. HIDE DEF c, b
  <2>5. z < r /\ z \in Int
    BY <1>1, <2>1, <2>2, <2>3
  <2>6. z \in Nat /\ n - m \in OnRound(z) /\ Far(tr, z, n - m) >= n
    <3>1. z <= Len(tr) - 2
      BY <1>1, <2>5
    <3>. QED  BY <2>4, <3>1 DEF Leads
  <2>. HIDE DEF z
  <2>7. z \in 0..(r - 1) /\ z \in 0..(Len(tr) - 2)
    BY <1>1, <2>5, <2>6
  <2>8. Far(tr, z, n - m) - (n - m) >= m
    <3>. DEFINE f == Far(tr, z, n - m)
    <3>1. f \in Int
      BY <2>6, <2>7, FarType
    <3>. HIDE DEF f
    <3>. QED  BY <1>1, <2>6, <3>1 DEF f
  <2>9. ReachedIn(tr, z)
    BY <2>6, <2>8 DEF ReachedIn
  <2>. QED  BY <2>7, <2>9
<1>. DEFINE S == {Cardinality(p) : p \in {p \in SUBSET (DOMAIN old) : \E q \in SUBSET (DOMAIN new) : Matches(p, q)}}
<1>5. Cardinality(s) \in S
  BY <1>1, <1>3
<1>6. S \in SUBSET (0..n)
  <2>. SUFFICES ASSUME NEW p \in SUBSET (1..n)  PROVE Cardinality(p) \in 0..n
    BY <1>1
  <2>1. Cardinality(p) \in Nat /\ Cardinality(p) <= n
    BY <1>1, CardinalityIs
  <2>. QED  BY <1>1, <2>1
<1>7. \A c \in S : c <= Cardinality(s)
  BY <1>1, <1>4
<1>8. Common = Max(S)
  BY DEF Common
<1>. HIDE DEF S
<1>9. Max(S) \in S /\ Cardinality(s) <= Max(S)
  BY <1>1, <1>5, <1>6, MaxIs
<1>10. Max(S) = Cardinality(s)
  <2>. DEFINE a == Max(S)
              b == Cardinality(s)
  <2>1. a \in S /\ b \in S /\ b <= a
    BY <1>5, <1>9
  <2>2. a <= b
    BY <1>7, <2>1
  <2>3. a \in Int /\ b \in Int
    <3>1. \A c \in 0..n : c \in Int
      BY <1>1
    <3>. HIDE DEF a, b
    <3>. QED  BY <1>6, <2>1, <3>1
  <2>. HIDE DEF a, b
  <2>4. a = b
    BY <2>1, <2>2, <2>3
  <2>. QED  BY <2>4 DEF a, b
<1>. DEFINE b == Cardinality(s)
<1>11. b \in Nat /\ 2 * b = n + m - r /\ Common = b
  BY <1>1, <1>3, <1>8, <1>10, CardinalityIs
<1>. HIDE DEF b
<1>. QED  BY <1>1, <1>11
-----------------------------------------------------------------------------
(* Scripts, and what they spell *)

EditSet == [op : {Equal, Delete, Insert}, line : Lines]

\* The places of a script that are not of one kind.
Own(p, op) == {i \in DOMAIN p : p[i].op # op}

\* Those places hold, in order, the lines of a text after line a up to line b.
Spelled(p, op, text, a, b) ==
  Cardinality(Own(p, op)) = b - a /\ \A i \in Own(p, op) : p[i].line = text[a + Rank(Own(p, op), i)]

LEMMA OwnIs ==
  ASSUME NEW p \in Seq(EditSet), NEW op
  PROVE  Len(p) \in Nat /\ DOMAIN p = 1..Len(p) /\ Own(p, op) \in SUBSET (1..Len(p))
BY LenProperties DEF Own

LEMMA OwnConcat ==
  ASSUME NEW p \in Seq(EditSet), NEW q \in Seq(EditSet), NEW op
  PROVE  /\ \A i \in 1..Len(p) : /\ i \in Own(p \o q, op) <=> i \in Own(p, op)
                                 /\ Rank(Own(p \o q, op), i) = Rank(Own(p, op), i)
         /\ \A i \in 1..Len(q) :
              /\ Len(p) + i \in Own(p \o q, op) <=> i \in Own(q, op)
              /\ Rank(Own(p \o q, op), Len(p) + i) = Cardinality(Own(p, op)) + Rank(Own(q, op), i)
         /\ Cardinality(Own(p \o q, op)) = Cardinality(Own(p, op)) + Cardinality(Own(q, op))
<1>. DEFINE S == Own(p \o q, op)
            P == Own(p, op)
            Q == Own(q, op)
            a == Len(p)
            b == Len(q)
<1>1. /\ p \o q \in Seq(EditSet) /\ Len(p \o q) = a + b
      /\ \A i \in 1..(a + b) : (p \o q)[i] = IF i <= a THEN p[i] ELSE q[i - a]
  BY ConcatProperties
<1>2. /\ a \in Nat /\ b \in Nat /\ DOMAIN p = 1..a /\ DOMAIN q = 1..b /\ DOMAIN (p \o q) = 1..(a + b)
      /\ P \in SUBSET (1..a) /\ Q \in SUBSET (1..b) /\ S \in SUBSET (1..(a + b))
  BY <1>1, OwnIs
<1>3. \A i \in 1..a : i \in S <=> i \in P
  <2>. TAKE i \in 1..a
  <2>1. i \in 1..(a + b) /\ (p \o q)[i] = p[i]
    BY <1>1, <1>2
  <2>. QED  BY <1>2, <2>1 DEF Own
<1>4. \A i \in 1..b : a + i \in S <=> i \in Q
  <2>. TAKE i \in 1..b
  <2>1. a + i \in 1..(a + b) /\ ~(a + i <= a) /\ (a + i) - a = i
    BY <1>2
  <2>2. (p \o q)[a + i] = q[i]
    BY <1>1, <2>1
  <2>. QED  BY <1>2, <2>1, <2>2 DEF Own
<1>. HIDE DEF S, P, Q, a, b
<1>5. a + b \in Nat /\ 0 \in Nat
  BY <1>2
<1>6. \A i \in 0..a : Rank(S, i) = Rank(P, i)
  <2>1. GoesOn(S, 0, P, a)
    BY <1>2, <1>3 DEF GoesOn
  <2>2. \A i \in 0..a : Rank(S, 0 + i) = Rank(S, 0) + Rank(P, i)
    <3>1. a + b \in Nat /\ a \in Nat /\ 0 \in Nat
      BY <1>2, <1>5
    <3>2. Within(S, a + b) /\ Within(P, a)
      BY <1>2 DEF Within
    <3>. QED  BY ONLY <3>1, <3>2, <2>1, RankShift
  <2>3. Rank(S, 0) = 0
    BY <1>2, <1>5, RankEnds
  <2>. TAKE i \in 0..a
  <2>5. 0 + i = i /\ i \in Int
    BY <1>2
  <2>4. Rank(P, i) \in Nat
    BY <1>2, <2>5, RankType
  <2>. QED  BY <2>2, <2>3, <2>4, <2>5
<1>7. Rank(S, a) = Cardinality(P)
  <2>1. a \in 0..a /\ a >= a /\ a \in Int
    BY <1>2
  <2>2. Rank(P, a) = Cardinality(P)
    BY <1>2, <2>1, RankEnds
  <2>. QED  BY <1>6, <2>1, <2>2
<1>8. \A i \in 0..b : Rank(S, a + i) = Cardinality(P) + Rank(Q, i)
  <2>1. \A i \in 0..b : Rank(S, a + i) = Rank(S, a) + Rank(Q, i)
    <3>1. a + b \in Nat /\ a \in Nat /\ b \in Nat
      BY <1>2, <1>5
    <3>2. Within(S, a + b) /\ Within(Q, b)
      BY <1>2 DEF Within
    <3>3. GoesOn(S, a, Q, b)
      BY <1>4 DEF GoesOn
    <3>. QED  BY ONLY <3>1, <3>2, <3>3, RankShift
  <2>. QED  BY <1>7, <2>1
<1>9. Cardinality(S) = Cardinality(P) + Cardinality(Q)
  <2>1. b \in 0..b /\ b \in Int /\ b >= b /\ a + b \in Int /\ a + b >= a + b
    BY <1>2
  <2>2. Rank(Q, b) = Cardinality(Q) /\ Rank(S, a + b) = Cardinality(S)
    BY <1>2, <1>5, <2>1, RankEnds
  <2>. QED  BY <1>8, <2>1, <2>2
<1>10. \A i \in 1..a : i \in 0..a
  BY <1>2
<1>11. \A i \in 1..b : i \in 0..b
  BY <1>2
<1>. QED  BY <1>3, <1>4, <1>6, <1>8, <1>9, <1>10, <1>11 DEF S, P, Q, a, b

LEMMA SpelledConcat ==
  ASSUME NEW p \in Seq(EditSet), NEW q \in Seq(EditSet), NEW op, NEW text,
         NEW x \in Int, NEW y \in Int, NEW z \in Int, Spelled(p, op, text, x, y), Spelled(q, op, text, y, z)
  PROVE  Spelled(p \o q, op, text, x, z)
<1>. DEFINE S == Own(p \o q, op)
            P == Own(p, op)
            Q == Own(q, op)
            a == Len(p)
            b == Len(q)
<1>1. /\ p \o q \in Seq(EditSet) /\ Len(p \o q) = a + b
      /\ \A i \in 1..(a + b) : (p \o q)[i] = IF i <= a THEN p[i] ELSE q[i - a]
  BY ConcatProperties
<1>2. /\ a \in Nat /\ b \in Nat
      /\ P \in SUBSET (1..a) /\ Q \in SUBSET (1..b) /\ S \in SUBSET (1..(a + b))
  BY <1>1, OwnIs
<1>3. /\ \A i \in 1..a : (i \in S <=> i \in P) /\ Rank(S, i) = Rank(P, i)
      /\ \A i \in 1..b : (a + i \in S <=> i \in Q) /\ Rank(S, a + i) = Cardinality(P) + Rank(Q, i)
      /\ Cardinality(S) = Cardinality(P) + Cardinality(Q)
  BY OwnConcat
<1>4. /\ Cardinality(P) = y - x /\ \A i \in P : p[i].line = text[x + Rank(P, i)]
      /\ Cardinality(Q) = z - y /\ \A i \in Q : q[i].line = text[y + Rank(Q, i)]
  BY DEF Spelled
<1>. HIDE DEF S, P, Q, a, b
<1>5. Cardinality(S) = z - x
  BY <1>3, <1>4
<1>6. ASSUME NEW i \in S  PROVE (p \o q)[i].line = text[x + Rank(S, i)]
  <2>1. i \in 1..(a + b)
    BY <1>2
  <2>2. CASE i <= a
    <3>1. i \in 1..a
      BY <1>2, <2>1, <2>2
    <3>. QED  BY <1>1, <1>3, <1>4, <2>1, <2>2, <3>1
  <2>3. CASE ~(i <= a)
    <3>. DEFINE j == i - a
    <3>1. j \in 1..b /\ a + j = i /\ j \in Int
      BY <1>2, <2>1, <2>3
    <3>2. (p \o q)[i] = q[j]
      BY <1>1, <2>1, <2>3
    <3>. HIDE DEF j
    <3>3. j \in Q /\ Rank(S, i) = Cardinality(P) + Rank(Q, j)
      BY <1>3, <3>1
    <3>4. Rank(Q, j) \in Nat
      BY <1>2, <3>1, RankType
    <3>5. x + Rank(S, i) = y + Rank(Q, j)
      BY <1>4, <3>3, <3>4
    <3>. QED  BY <1>4, <3>2, <3>3, <3>5
  <2>. QED  BY <2>2, <2>3
<1>. QED  BY <1>5, <1>6 DEF Spelled, S

\* A script leads from line x1 of the old file and y1 of the new one to x2 and y2, by c changes.
Turns(p, x1, y1, x2, y2, c) ==
  /\ p \in Seq(EditSet)
  /\ Spelled(p, Insert, old, x1, x2) /\ Spelled(p, Delete, new, y1, y2)
  /\ Cardinality(Own(p, Equal)) = c

LEMMA TurnsConcat ==
  ASSUME NEW p, NEW q, NEW x1 \in Int, NEW y1 \in Int, NEW x2 \in Int, NEW y2 \in Int,
         NEW x3 \in Int, NEW y3 \in Int, NEW c \in Int, NEW e \in Int,
         Turns(p, x1, y1, x2, y2, c), Turns(q, x2, y2, x3, y3, e)
  PROVE  Turns(p \o q, x1, y1, x3, y3, c + e)
<1>1. p \in Seq(EditSet) /\ q \in Seq(EditSet)
  BY DEF Turns
<1>2. p \o q \in Seq(EditSet)
  BY <1>1, ConcatProperties
<1>3. Spelled(p \o q, Insert, old, x1, x3)
  BY <1>1, SpelledConcat DEF Turns
<1>4. Spelled(p \o q, Delete, new, y1, y3)
  BY <1>1, SpelledConcat DEF Turns
<1>5. Cardinality(Own(p \o q, Equal)) = c + e
  BY <1>1, OwnConcat DEF Turns
<1>. QED  BY <1>2, <1>3, <1>4, <1>5 DEF Turns

LEMMA TurnsNothing ==
  ASSUME NEW x \in Int, NEW y \in Int
  PROVE  Turns(<<>>, x, y, x, y, 0)
<1>1. <<>> \in Seq(EditSet) /\ \A op : Own(<<>>, op) = {}
  BY DEF Own
<1>2. \A op : Cardinality(Own(<<>>, op)) = 0
  BY <1>1, FS_EmptySet
<1>. QED  BY <1>1, <1>2 DEF Turns, Spelled

\* The rank in a set of all the numbers from 1 on.
LEMMA RankOfAll ==
  ASSUME NEW c \in Nat, NEW i \in 1..c
  PROVE  Rank(1..c, i) = i
<1>1. \A j : j \in {l \in 1..c : l <= i} <=> j \in 1..i
  OBVIOUS
<1>2. {l \in 1..c : l <= i} = 1..i
  BY <1>1
<1>3. Cardinality(1..i) = i
  BY FS_Interval
<1>. QED  BY <1>2, <1>3 DEF Rank

LEMMA TurnsRun ==
  ASSUME Files, NEW x \in Nat, NEW y \in Nat, NEW j \in Nat, x + j <= n, y + j <= m,
         \A i \in 1..j : old[x + i] = new[y + i]
  PROVE  Turns(EqualRun(x, x + j), x, y, x + j, y + j, 0)
<1>1. n \in Nat /\ m \in Nat /\ \A i \in 1..n : old[i] \in Lines
  BY FileLengths
<1>. DEFINE p == EqualRun(x, x + j)
<1>2. p = [i \in 1..j |-> Edit(Equal, old[x + i])]
  <2>1. (x + j) - x = j
    OBVIOUS
  <2>. QED  BY <2>1 DEF EqualRun
<1>3. \A i \in 1..j : Edit(Equal, old[x + i]) \in EditSet
  <2>. TAKE i \in 1..j
  <2>1. x + i \in 1..n
    BY <1>1
  <2>2. old[x + i] \in Lines
    BY <1>1, <2>1
  <2>. QED  BY <2>2 DEF Edit, EditSet
<1>4. p \in Seq(EditSet) /\ DOMAIN p = 1..j
  BY <1>2, <1>3
<1>. HIDE DEF p
<1>5. \A i \in 1..j : p[i].op = Equal /\ p[i].line = old[x + i]
  BY <1>2 DEF Edit
<1>6. Own(p, Equal) = {} /\ Own(p, Insert) = 1..j /\ Own(p, Delete) = 1..j
  BY <1>4, <1>5 DEF Own, Equal, Insert, Delete
<1>7. Cardinality({}) = 0 /\ Cardinality(1..j) = j
  BY FS_EmptySet, FS_Interval
<1>8. \A i \in 1..j : Rank(1..j, i) = i
  BY RankOfAll
<1>9. (x + j) - x = j /\ (y + j) - y = j
  OBVIOUS
<1>10. Spelled(p, Insert, old, x, x + j)
  BY <1>5, <1>6, <1>7, <1>8, <1>9 DEF Spelled
<1>11. Spelled(p, Delete, new, y, y + j)
  BY <1>5, <1>6, <1>7, <1>8, <1>9 DEF Spelled
<1>. QED  BY <1>4, <1>6, <1>7, <1>10, <1>11 DEF Turns, p

LEMMA TurnsDelete ==
  ASSUME Files, NEW x \in Nat, NEW y \in Nat, x + 1 <= n
  PROVE  Turns(<<Edit(Delete, old[x + 1])>>, x, y, x + 1, y, 1)
<1>1. n \in Nat /\ \A i \in 1..n : old[i] \in Lines
  BY FileLengths
<1>. DEFINE e == Edit(Delete, old[x + 1])
            p == <<e>>
<1>2. e \in EditSet /\ e.op = Delete /\ e.line = old[x + 1]
  <2>1. x + 1 \in 1..n
    BY <1>1
  <2>2. old[x + 1] \in Lines
    BY <1>1, <2>1
  <2>. QED  BY <2>2 DEF Edit, EditSet
<1>. HIDE DEF e
<1>3. p \in Seq(EditSet) /\ DOMAIN p = {1} /\ p[1] = e
  BY <1>2
<1>. HIDE DEF p
<1>4. Own(p, Equal) = {1} /\ Own(p, Insert) = {1} /\ Own(p, Delete) = {}
  BY <1>2, <1>3 DEF Own, Equal, Insert, Delete
<1>5. Cardinality({}) = 0 /\ Cardinality({1}) = 1
  BY FS_EmptySet, FS_Singleton
<1>6. Rank({1}, 1) = 1
  <2>1. {j \in {1} : j <= 1} = {1}
    OBVIOUS
  <2>. QED  BY <1>5, <2>1 DEF Rank
<1>7. (x + 1) - x = 1 /\ y - y = 0
  OBVIOUS
<1>8. Spelled(p, Insert, old, x, x + 1)
  BY <1>2, <1>3, <1>4, <1>5, <1>6, <1>7 DEF Spelled
<1>9. Spelled(p, Delete, new, y, y)
  BY <1>4, <1>5, <1>7 DEF Spelled
<1>. QED  BY <1>3, <1>4, <1>5, <1>8, <1>9 DEF Turns, p, e

LEMMA TurnsInsert ==
  ASSUME Files, NEW x \in Nat, NEW y \in Nat, y + 1 <= m
  PROVE  Turns(<<Edit(Insert, new[y + 1])>>, x, y, x, y + 1, 1)
<1>1. m \in Nat /\ \A i \in 1..m : new[i] \in Lines
  BY FileLengths
<1>. DEFINE e == Edit(Insert, new[y + 1])
            p == <<e>>
<1>2. e \in EditSet /\ e.op = Insert /\ e.line = new[y + 1]
  <2>1. y + 1 \in 1..m
    BY <1>1
  <2>2. new[y + 1] \in Lines
    BY <1>1, <2>1
  <2>. QED  BY <2>2 DEF Edit, EditSet
<1>. HIDE DEF e
<1>3. p \in Seq(EditSet) /\ DOMAIN p = {1} /\ p[1] = e
  BY <1>2
<1>. HIDE DEF p
<1>4. Own(p, Equal) = {1} /\ Own(p, Delete) = {1} /\ Own(p, Insert) = {}
  BY <1>2, <1>3 DEF Own, Equal, Insert, Delete
<1>5. Cardinality({}) = 0 /\ Cardinality({1}) = 1
  BY FS_EmptySet, FS_Singleton
<1>6. Rank({1}, 1) = 1
  <2>1. {j \in {1} : j <= 1} = {1}
    OBVIOUS
  <2>. QED  BY <1>5, <2>1 DEF Rank
<1>7. (y + 1) - y = 1 /\ x - x = 0
  OBVIOUS
<1>8. Spelled(p, Delete, new, y, y + 1)
  BY <1>2, <1>3, <1>4, <1>5, <1>6, <1>7 DEF Spelled
<1>9. Spelled(p, Insert, old, x, x)
  BY <1>4, <1>5, <1>7 DEF Spelled
<1>. QED  BY <1>3, <1>4, <1>5, <1>8, <1>9 DEF Turns, p, e
-----------------------------------------------------------------------------
(* The inductive invariant of the search and of reading back *)

\* The vectors of the rounds done so far.
Vectors == Append(trace, v)

\* While the search goes forward, every round before this one has fallen short of the ends.
ForwardInv ==
  /\ Searched(Vectors) /\ d = Len(trace) /\ d <= n + m /\ trace \in Seq([Diagonals -> Int])
  /\ \A r \in 0..(d - 1) : ~ReachedIn(Vectors, r)
  /\ edits = <<>> /\ hunks = <<>>

\* Reading back stands where round d got to, with the rest of a shortest script behind it.
BackInv ==
  /\ Searched(Vectors) /\ trace \in Seq([Diagonals -> Int])
  /\ LET last == Len(trace) - 1
     IN /\ d \in 0..last /\ ReachedIn(Vectors, last) /\ \A r \in 0..(last - 1) : ~ReachedIn(Vectors, r)
        /\ pos = <<pos[1], pos[2]>> /\ pos[1] \in 0..n /\ pos[2] \in 0..m
        /\ pos[1] - pos[2] \in OnRound(d) /\ Far(Vectors, d, pos[1] - pos[2]) = pos[1]
        /\ Turns(edits, pos[1], pos[2], n, m, last - d)
  /\ hunks = <<>>

FilesBounded == old \in BoundedSeq(Lines, MaxLen) /\ new \in BoundedSeq(Lines, MaxLen)

LEMMA BoundedFiles ==
  ASSUME FilesBounded  PROVE Files
<1>. MaxLen \in Nat
  BY LineDiffAssumption
<1>1. \A s \in BoundedSeq(Lines, MaxLen) : s \in Seq(Lines)
  BY DEF BoundedSeq, SeqOf
<1>. QED  BY <1>1 DEF FilesBounded, Files

\* One more round.
LEMMA SearchedAppend ==
  ASSUME Files, NEW tr, Searched(tr), Len(tr) <= n + m + 1, NEW w \in [Diagonals -> Int],
         \A k \in OnRound(Len(tr) - 1) : w[k] = FarOf(tr[Len(tr)], k, Len(tr) - 1)
  PROVE  /\ Searched(Append(tr, w)) /\ Len(Append(tr, w)) = Len(tr) + 1
         /\ \A r \in 0..(Len(tr) - 2) : \A k : Far(Append(tr, w), r, k) = Far(tr, r, k)
         /\ \A k : Far(Append(tr, w), Len(tr) - 1, k) = w[k]
<1>1. n \in Nat /\ m \in Nat
  BY FileLengths
<1>. DEFINE V == [Diagonals -> Int]
            T == Append(tr, w)
            l == Len(tr)
<1>2. tr \in Seq(V) /\ w \in V /\ l \in Nat /\ l > 0
  BY LenProperties DEF Searched
<1>3. T \in Seq(V) /\ Len(T) = l + 1 /\ (\A i \in 1..l : T[i] = tr[i]) /\ T[l + 1] = w
  <2>. HIDE DEF V
  <2>. QED  BY <1>2, AppendProperties
<1>4. \A k \in Diagonals : T[1][k] = 0
  <2>1. 1 \in 1..l
    BY <1>2
  <2>2. T[1] = tr[1]
    BY <1>3, <2>1
  <2>. QED  BY <2>2 DEF Searched
<1>. HIDE DEF T, V
<1>5. ASSUME NEW r \in 0..(l - 1), NEW k \in OnRound(r)  PROVE T[r + 2][k] = FarOf(T[r + 1], k, r)
  <2>1. r + 1 \in 1..l /\ r \in Nat
    BY <1>2
  <2>2. T[r + 1] = tr[r + 1]
    BY <1>3, <2>1
  <2>3. CASE r = l - 1
    <3>1. r + 2 = l + 1 /\ r + 1 = l
      BY <1>2, <2>3
    <3>. QED  BY <1>3, <2>2, <2>3, <3>1
  <2>4. CASE r # l - 1
    <3>1. r + 2 \in 1..l /\ r \in 0..(l - 2)
      BY <1>2, <2>4
    <3>. QED  BY <1>3, <2>2, <3>1 DEF Searched
  <2>. QED  BY <2>3, <2>4
<1>6. Searched(T)
  <2>1. (l + 1) - 2 = l - 1 /\ l + 1 > 0 /\ l + 1 <= n + m + 2
    BY <1>1, <1>2
  <2>. QED  BY <1>3, <1>4, <1>5, <2>1 DEF Searched, V
<1>7. ASSUME NEW r \in 0..(l - 2), NEW k  PROVE Far(T, r, k) = Far(tr, r, k)
  <2>1. r + 2 \in 1..l
    BY <1>2
  <2>. QED  BY <1>3, <2>1 DEF Far
<1>8. ASSUME NEW k  PROVE Far(T, l - 1, k) = w[k]
  <2>1. (l - 1) + 2 = l + 1
    BY <1>2
  <2>. QED  BY <1>3, <2>1 DEF Far
<1>. QED  BY <1>3, <1>6, <1>7, <1>8 DEF T

LEMMA RoundKeeps ==
  ASSUME Files, ForwardInv, Round
  PROVE  /\ at' = "forward" => ForwardInv'
         /\ at' = "back" => BackInv'
         /\ at' \in {"forward", "back"}
<1>1. n \in Nat /\ m \in Nat
  BY FileLengths
<1>. DEFINE V == [Diagonals -> Int]
            T == Vectors
            U == Vectors'
            l == Len(T)
<1>2. trace \in Seq(V) /\ d = Len(trace) /\ d \in Nat /\ d <= n + m /\ Searched(T)
  BY LenProperties DEF ForwardInv
<1>3. T \in Seq(V) /\ l \in Nat
  BY <1>2, LenProperties DEF Searched
<1>4. l = d + 1 /\ T[l] = v /\ v \in V
  <2>1. Len(Append(trace, v)) = Len(trace) + 1 /\ Append(trace, v)[Len(trace) + 1] = v
    <3>. HIDE DEF V
    <3>. QED  BY <1>2
  <2>2. l = d + 1 /\ T[l] = v
    BY <1>2, <2>1 DEF Vectors
  <2>3. l \in 1..l
    BY <1>2, <2>2
  <2>. QED  BY <1>3, <2>2, <2>3, ElementOfSeq
<1>5. trace' = T /\ UNCHANGED <<old, new, edits, hunks>>
  BY DEF Round, Vectors
<1>6. n' = n /\ m' = m /\ Diagonals' = Diagonals
  BY <1>5 DEF n, m, Diagonals
<1>7. RoundOf = OnRound(d)
  BY DEF RoundOf, OnRound
<1>8. \A k : Furthest(k) = FarOf(v, k, d)
  BY DEF Furthest, FarOf, StartOf
<1>9. v' = [k \in Diagonals |-> IF k \in OnRound(d) THEN FarOf(v, k, d) ELSE v[k]]
  BY <1>4, <1>7, <1>8 DEF Round
<1>10. ASSUME NEW k \in OnRound(d)  PROVE FarOf(v, k, d) \in Int
  <2>1. k - 1 \in Diagonals /\ k + 1 \in Diagonals /\ k \in Int
    BY <1>2, <1>10, DiagonalsOfRound, Neighbours
  <2>2. v[k - 1] \in Int /\ v[k + 1] \in Int
    BY <1>4, <2>1
  <2>. DEFINE x == StartOf(v, k, d)
  <2>3. x \in Int
    BY <2>2 DEF StartOf
  <2>. HIDE DEF x
  <2>4. x - k \in Int
    BY <2>1, <2>3
  <2>5. PICK j \in Nat : SnakeOf(x, x - k, j)
    BY <2>3, <2>4, SnakeGoes
  <2>6. Snake(x, x - k) = x + j
    BY <2>5 DEF SnakeOf
  <2>. QED  BY <2>3, <2>6 DEF FarOf, x
<1>11. v' \in V /\ \A k \in OnRound(d) : v'[k] = FarOf(v, k, d)
  <2>1. \A k \in OnRound(d) : k \in Diagonals
    BY <1>2, DiagonalsOfRound
  <2>. QED  BY <1>4, <1>9, <1>10, <2>1
<1>12. U = Append(T, v')
  BY <1>5 DEF Vectors
<1>13. /\ Searched(U) /\ Len(U) = l + 1
       /\ \A r \in 0..(l - 2) : \A k : Far(U, r, k) = Far(T, r, k)
       /\ \A k : Far(U, l - 1, k) = v'[k]
  <2>1. l - 1 = d /\ l <= n + m + 1
    BY <1>1, <1>2, <1>4
  <2>2. \A k \in OnRound(l - 1) : v'[k] = FarOf(T[l], k, l - 1)
    BY <1>4, <1>11, <2>1
  <2>. HIDE DEF T, U, l
  <2>3. Searched(T) /\ v' \in [Diagonals -> Int] /\ l = Len(T)
    BY <1>2, <1>11 DEF T, l
  <2>. QED  BY <1>12, <2>1, <2>2, <2>3, SearchedAppend
<1>14. Len(U) = d + 2 /\ l - 2 = d - 1 /\ l - 1 = d
  BY <1>2, <1>4, <1>13
<1>15. \A r \in 0..(d - 1) : ~ReachedIn(U, r)
  <2>. TAKE r \in 0..(d - 1)
  <2>1. \A k : Far(U, r, k) = Far(T, r, k)
    BY <1>13, <1>14
  <2>2. ~ReachedIn(T, r)
    BY DEF ForwardInv
  <2>. QED  BY <2>1, <2>2 DEF ReachedIn
<1>16. ReachedIn(U, d) <=> \E k \in RoundOf : Furthest(k) >= n /\ Furthest(k) - k >= m
  <2>1. \A k \in OnRound(d) : Far(U, d, k) = Furthest(k)
    BY <1>8, <1>11, <1>13, <1>14
  <2>. QED  BY <1>7, <2>1 DEF ReachedIn
<1>17. \A r : ReachedIn(U, r) <=> ReachedIn(Vectors, r)'
  BY <1>6 DEF ReachedIn, Far
<1>18. Searched(Vectors)'
  <2>1. \A w, k, r : FarOf(w, k, r) = FarOf(w, k, r)'
    BY <1>5, <1>6 DEF FarOf, StartOf, Down, Snake
  <2>. QED  BY <1>6, <1>13, <2>1 DEF Searched, OnRound
<1>19. trace' \in Seq(V') /\ Len(trace') = d + 1
  BY <1>3, <1>4, <1>5, <1>6
<1>20. CASE ReachedIn(U, d)
  <2>1. at' = "back" /\ pos' = <<n, m>> /\ d' = d
    BY <1>16, <1>20 DEF Round
  <2>2. n - m \in OnRound(d) /\ Far(U, d, n - m) = n
    <3>1. d \in 0..(Len(U) - 2) /\ (d > 0 => d - 1 \in 0..(d - 1))
      BY <1>2, <1>14
    <3>2. d > 0 => ~ReachedIn(U, d - 1)
      BY <1>15, <3>1
    <3>. HIDE DEF U
    <3>. QED  BY <1>13, <1>20, <3>1, <3>2, FirstReach
  <2>3. Turns(<<>>, n, m, n, m, 0)
    BY <1>1, TurnsNothing
  <2>4. Turns(edits, n, m, n, m, 0)'
    <3>1. edits' = <<>>
      BY <1>5 DEF ForwardInv
    <3>2. Turns(<<>>, n, m, n, m, 0)'
      BY <1>5, <1>6, <2>3 DEF Turns, Spelled, Own, EditSet
    <3>. QED  BY <1>6, <3>1, <3>2
  <2>5. Len(trace') - 1 = d /\ d' - d' = 0 /\ d \in 0..d
    BY <1>2, <1>19, <2>1
  <2>. QED
    <3>1. (Searched(Vectors) /\ trace \in Seq([Diagonals -> Int]))'
      BY <1>18, <1>19
    <3>2. (d \in 0..(Len(trace) - 1) /\ ReachedIn(Vectors, Len(trace) - 1))'
      BY <1>17, <1>20, <2>1, <2>5
    <3>3. (\A r \in 0..((Len(trace) - 1) - 1) : ~ReachedIn(Vectors, r))'
      BY <1>15, <1>17, <2>5
    <3>4. pos' = <<n, m>> /\ pos'[1] = n' /\ pos'[2] = m' /\ n' \in 0..n' /\ m' \in 0..m'
      BY <1>1, <1>6, <2>1
    <3>5. (pos[1] - pos[2] \in OnRound(d) /\ Far(Vectors, d, pos[1] - pos[2]) = pos[1])'
      BY <1>6, <2>1, <2>2, <3>4 DEF OnRound, Far
    <3>6. Turns(edits, pos[1], pos[2], n, m, (Len(trace) - 1) - d)'
      BY <2>1, <2>4, <2>5, <3>4
    <3>7. hunks' = <<>>
      BY <1>5 DEF ForwardInv
    <3>8. BackInv'
      BY <1>6, <3>1, <3>2, <3>3, <3>4, <3>5, <3>6, <3>7 DEF BackInv
    <3>. QED  BY <2>1, <3>8
<1>21. CASE ~ReachedIn(U, d)
  <2>1. at' = "forward" /\ d' = d + 1
    BY <1>16, <1>21 DEF Round
  <2>2. d # n + m
    <3>1. SUFFICES ASSUME d = n + m  PROVE FALSE
      OBVIOUS
    <3>2. Matches({}, {}) /\ Cardinality({}) = 0
      BY FS_EmptySet DEF Matches
    <3>3. Leads(U, n, m, 0)
      <4>1. n \in 0..n /\ m \in 0..m /\ {} \in SUBSET (1..n) /\ {} \in SUBSET (1..m)
        BY <1>1
      <4>. HIDE DEF U
      <4>. QED  BY <1>13, <3>2, <4>1, FarEnough
    <3>4. n + m - 2 * 0 = d /\ d <= Len(U) - 2
      BY <1>1, <1>14, <3>1
    <3>5. n - m \in OnRound(d) /\ Far(U, d, n - m) >= n
      BY <3>3, <3>4 DEF Leads
    <3>6. Far(U, d, n - m) - (n - m) >= m
      <4>1. d \in 0..(Len(U) - 2)
        BY <1>2, <1>14
      <4>. DEFINE f == Far(U, d, n - m)
      <4>2. f \in Int
        <5>. HIDE DEF U
        <5>. QED  BY <1>13, <3>5, <4>1, FarType
      <4>3. f >= n
        BY <3>5
      <4>. HIDE DEF f
      <4>4. f - (n - m) >= m
        BY <1>1, <4>2, <4>3
      <4>. QED  BY <4>4 DEF f
    <3>. QED  BY <1>21, <3>5, <3>6 DEF ReachedIn
  <2>3. (Searched(Vectors) /\ trace \in Seq([Diagonals -> Int]) /\ d = Len(trace))'
    BY <1>18, <1>19, <2>1
  <2>4. (d <= n + m)'
    BY <1>1, <1>2, <1>6, <2>1, <2>2
  <2>5. (\A r \in 0..(d - 1) : ~ReachedIn(Vectors, r))'
    <3>. SUFFICES ASSUME NEW r \in 0..(d' - 1)  PROVE ~ReachedIn(Vectors, r)'
      OBVIOUS
    <3>1. r \in 0..(d - 1) \/ r = d
      BY <1>2, <2>1
    <3>. QED  BY <1>15, <1>17, <1>21, <3>1
  <2>6. (edits = <<>> /\ hunks = <<>>)'
    BY <1>5 DEF ForwardInv
  <2>7. ForwardInv'
    BY <2>3, <2>4, <2>5, <2>6 DEF ForwardInv
  <2>. QED  BY <2>1, <2>7
<1>. QED  BY <1>20, <1>21
\* The number of equal lines read back, and whether an insertion comes before them.
LEMMA StepsBack ==
  ASSUME NEW a \in Nat, NEW b \in Nat
  PROVE  Min({Max({a, 0}), Max({b, 0})}) = IF a <= b THEN a ELSE b
<1>1. Max({a, 0}) = a /\ Max({b, 0}) = b
  BY MaxOfTwo
<1>2. Min({a, b}) = IF a <= b THEN a ELSE b
  BY MinOfTwo
<1>. QED  BY <1>1, <1>2

\* Reading a round back ends where the round before got to.
LEMMA BackKeeps ==
  ASSUME Files, BackInv, Back
  PROVE  BackInv' /\ at' = at
<1>1. n \in Nat /\ m \in Nat
  BY FileLengths
<1>. DEFINE T == Vectors
            last == Len(trace) - 1
            x == pos[1]
            y == pos[2]
            k == x - y
            s == Start(T, d, k)
<1>2. /\ Searched(T) /\ trace \in Seq([Diagonals -> Int]) /\ d \in 0..last
      /\ x \in 0..n /\ y \in 0..m /\ k \in OnRound(d) /\ Far(T, d, k) = x
      /\ Turns(edits, x, y, n, m, last - d)
  BY DEF BackInv
<1>3. d > 0 /\ d' = d - 1 /\ at' = at /\ UNCHANGED <<old, new, v, trace, hunks>>
  BY DEF Back
<1>4. /\ Len(trace) \in Nat /\ Len(T) = Len(trace) + 1 /\ \A i \in 1..Len(trace) : T[i] = trace[i]
  <2>1. Len(trace) \in Nat
    BY <1>2, LenProperties
  <2>. QED  BY <1>2, <2>1 DEF Vectors
<1>5. d \in Nat /\ d \in 0..(Len(T) - 2) /\ d - 1 \in 0..(Len(T) - 2) /\ T[d + 1] = trace[d + 1]
  <2>1. d + 1 \in 1..Len(trace)
    BY <1>2, <1>4
  <2>. QED  BY <1>2, <1>3, <1>4, <2>1
<1>6. x \in Nat /\ y \in Nat /\ k \in Int /\ x <= n /\ y <= m
  BY <1>1, <1>2
<1>. HIDE DEF T
<1>7. PICK j \in Nat : SnakeOf(s, s - k, j) /\ x = s + j
  BY <1>2, <1>5, FarSnake
<1>8. s \in Nat /\ s - k \in Nat
  BY <1>2, <1>5, StartBounds
<1>9. \A i \in 1..j : old[s + i] = new[(s - k) + i]
  BY <1>7 DEF SnakeOf
<1>10. y = (s - k) + j /\ s = x - j /\ s - k = y - j
  BY <1>6, <1>7, <1>8
<1>11. Turns(EqualRun(s, x), s, s - k, x, y, 0)
  <2>. DEFINE z == s - k
  <2>1. s + j = x /\ z + j = y /\ z \in Nat /\ s \in Nat
    BY <1>7, <1>8, <1>10
  <2>. HIDE DEF s, z, x, y
  <2>2. Turns(EqualRun(s, s + j), s, z, s + j, z + j, 0)
    BY <1>6, <1>9, <2>1, TurnsRun DEF z
  <2>. QED  BY <2>1, <2>2 DEF z
<1>. DEFINE dn == Down(trace[d + 1], k, d)
            pk == IF dn THEN k + 1 ELSE k - 1
            px == trace[d + 1][pk]
            py == px - pk
            steps == Min({Max({x - px, 0}), Max({y - py, 0})})
            bx == x - steps
            by == y - steps
            move == IF bx = px THEN Edit(Insert, new[by]) ELSE Edit(Delete, old[bx])
<1>12. /\ edits' = <<move>> \o EqualRun(bx, x) \o edits
       /\ pos' = IF bx = px THEN <<bx, by - 1>> ELSE <<bx - 1, by>>
  BY DEF Back
<1>13. dn <=> IsDown(T, d, k)
  BY <1>5 DEF IsDown
<1>14. px = Far(T, d - 1, pk)
  <2>1. (d - 1) + 2 = d + 1
    BY <1>5
  <2>. QED  BY <1>5, <2>1 DEF Far
<1>15. /\ dn => pk = k + 1 /\ pk \in OnRound(d - 1) /\ s = px
       /\ ~dn => pk = k - 1 /\ pk \in OnRound(d - 1) /\ s = px + 1
  <2>1. CASE dn
    <3>1. k + 1 \in OnRound(d - 1) /\ s = Far(T, d - 1, k + 1)
      BY <1>2, <1>3, <1>5, <1>13, <2>1, StartIs
    <3>. QED  BY <1>14, <2>1, <3>1
  <2>2. CASE ~dn
    <3>1. k - 1 \in OnRound(d - 1) /\ s = Far(T, d - 1, k - 1) + 1
      BY <1>2, <1>3, <1>5, <1>13, <2>2, StartIs
    <3>. QED  BY <1>14, <2>2, <3>1
  <2>. QED  BY <2>1, <2>2
<1>16. pk \in OnRound(d - 1) /\ pk \in Int /\ px \in Int /\ px >= 0 /\ px >= pk
  <2>1. pk \in OnRound(d - 1)
    BY <1>15
  <2>2. px \in Int
    BY <1>2, <1>5, <1>14, <2>1, FarType
  <2>3. px >= 0 /\ px >= pk
    BY <1>2, <1>5, <1>14, <2>1, FarBounds
  <2>4. pk \in Int
    BY <1>6
  <2>. QED  BY <2>1, <2>2, <2>3, <2>4
<1>17. /\ dn => bx = s /\ by = s - k /\ px = s /\ py = (s - k) - 1
       /\ ~dn => bx = s /\ by = s - k /\ px = s - 1 /\ py = s - k
  <2>1. CASE dn
    <3>1. px = s /\ x - px = j /\ py = (s - k) - 1 /\ y - py = j + 1
      BY <1>6, <1>7, <1>8, <1>10, <1>15, <2>1
    <3>2. steps = j
      <4>1. j + 1 \in Nat /\ j <= j + 1
        OBVIOUS
      <4>. QED  BY <3>1, <4>1, StepsBack
    <3>. QED  BY <1>10, <2>1, <3>1, <3>2
  <2>2. CASE ~dn
    <3>1. px = s - 1 /\ x - px = j + 1 /\ py = s - k /\ y - py = j
      BY <1>6, <1>7, <1>8, <1>10, <1>15, <1>16, <2>2
    <3>2. steps = j
      <4>1. j + 1 \in Nat /\ ~(j + 1 <= j)
        OBVIOUS
      <4>. QED  BY <3>1, <4>1, StepsBack
    <3>. QED  BY <1>10, <2>2, <3>1, <3>2
  <2>. QED  BY <2>1, <2>2
<1>18. (dn <=> bx = px) /\ px \in Nat /\ py \in Nat /\ pos' = <<px, py>>
  <2>1. (dn <=> bx = px)
    BY <1>8, <1>17
  <2>2. px \in Nat /\ py \in Nat
    BY <1>16
  <2>3. dn => bx = px /\ by - 1 = py
    BY <1>17
  <2>4. ~dn => bx - 1 = px /\ by = py
    BY <1>17
  <2>. QED  BY <1>12, <2>1, <2>2, <2>3, <2>4
<1>. HIDE DEF dn, pk, px, py, steps, bx, by, s, k, x, y
<1>19. Turns(<<move>>, px, py, s, s - k, 1)
  <2>1. CASE dn
    <3>1. move = Edit(Insert, new[py + 1]) /\ py + 1 = s - k /\ px = s
      BY <1>17, <1>18, <2>1, <1>8
    <3>2. py + 1 <= m
      BY <1>1, <1>6, <1>7, <1>8, <1>10, <3>1
    <3>3. Turns(<<Edit(Insert, new[py + 1])>>, px, py, px, py + 1, 1)
      BY <1>18, <3>2, TurnsInsert
    <3>. QED  BY <3>1, <3>3
  <2>2. CASE ~dn
    <3>1. move = Edit(Delete, old[px + 1]) /\ px + 1 = s /\ py = s - k
      BY <1>8, <1>17, <1>18, <2>2
    <3>2. px + 1 <= n
      BY <1>1, <1>6, <1>7, <1>8, <3>1
    <3>3. Turns(<<Edit(Delete, old[px + 1])>>, px, py, px + 1, py, 1)
      BY <1>18, <3>2, TurnsDelete
    <3>. QED  BY <3>1, <3>3
  <2>. QED  BY <2>1, <2>2
<1>20. bx = s
  BY <1>17
<1>21. Turns(edits', px, py, n, m, last - (d - 1))
  <2>. DEFINE p == <<move>>
              q == EqualRun(bx, x)
  <2>1. px \in Int /\ py \in Int /\ s \in Int /\ s - k \in Int /\ x \in Int /\ y \in Int /\ n \in Int /\ m \in Int
    BY <1>1, <1>6, <1>8, <1>18
  <2>2. last \in Int /\ last - d \in Int /\ 1 + 0 = 1 /\ 1 + (last - d) = last - (d - 1)
    BY <1>4, <1>5
  <2>3. Turns(p, px, py, s, s - k, 1) /\ Turns(q, s, s - k, x, y, 0)
    BY <1>11, <1>19, <1>20
  <2>4. Turns(edits, x, y, n, m, last - d)
    BY <1>2
  <2>. DEFINE z == s - k
              c == last - d
  <2>. HIDE DEF p, q, z, c
  <2>5. Turns(p, px, py, s, z, 1) /\ Turns(q, s, z, x, y, 0) /\ z \in Int /\ Turns(edits, x, y, n, m, c) /\ c \in Int
    BY <2>1, <2>2, <2>3, <2>4 DEF z, c
  <2>6. Turns(p \o q, px, py, x, y, 1)
    <3>1. Turns(p \o q, px, py, x, y, 1 + 0)
      BY <2>1, <2>5, TurnsConcat
    <3>. QED  BY <2>2, <3>1
  <2>7. Turns((p \o q) \o edits, px, py, n, m, 1 + c)
    BY <2>1, <2>5, <2>6, TurnsConcat
  <2>8. edits' = (p \o q) \o edits
    BY <1>12 DEF p, q
  <2>. QED  BY <2>2, <2>7, <2>8 DEF c
<1>22. n' = n /\ m' = m /\ Diagonals' = Diagonals
  BY <1>3 DEF n, m, Diagonals
<1>23. px <= n /\ py <= m
  <2>1. CASE dn
    BY <1>1, <1>6, <1>7, <1>8, <1>10, <1>17, <2>1
  <2>2. CASE ~dn
    BY <1>1, <1>6, <1>7, <1>8, <1>10, <1>17, <2>2
  <2>. QED  BY <2>1, <2>2
<1>24. px - py = pk
  BY <1>16 DEF py
<1>25. Vectors' = T
  BY <1>3 DEF Vectors, T
<1>26. (Searched(Vectors) /\ trace \in Seq([Diagonals -> Int]))'
  <2>1. \A w, i, r : FarOf(w, i, r) = FarOf(w, i, r)'
    BY <1>3, <1>22 DEF FarOf, StartOf, Down, Snake
  <2>. QED  BY <1>2, <1>3, <1>22, <1>25, <2>1 DEF Searched, OnRound
<1>27. \A r : ReachedIn(T, r) <=> ReachedIn(Vectors, r)'
  BY <1>22, <1>25 DEF ReachedIn, Far
<1>28. (ReachedIn(Vectors, Len(trace) - 1) /\ \A r \in 0..((Len(trace) - 1) - 1) : ~ReachedIn(Vectors, r))'
  <2>1. ReachedIn(T, last) /\ \A r \in 0..(last - 1) : ~ReachedIn(T, r)
    BY DEF BackInv, T
  <2>. QED  BY <1>3, <1>27, <2>1
<1>29. (d \in 0..(Len(trace) - 1))'
  BY <1>2, <1>3, <1>4
<1>30. pos'[1] = px /\ pos'[2] = py /\ (pos = <<pos[1], pos[2]>>)'
  BY <1>18
<1>31. (pos[1] \in 0..n /\ pos[2] \in 0..m)'
  BY <1>1, <1>18, <1>22, <1>23, <1>30
<1>32. (pos[1] - pos[2] \in OnRound(d) /\ Far(Vectors, d, pos[1] - pos[2]) = pos[1])'
  <2>1. px - py \in OnRound(d - 1) /\ Far(T, d - 1, px - py) = px
    BY <1>14, <1>16, <1>24
  <2>. QED  BY <1>3, <1>25, <1>30, <2>1 DEF OnRound, Far
<1>33. Turns(edits, pos[1], pos[2], n, m, (Len(trace) - 1) - d)'
  <2>1. (Len(trace) - 1)' - d' = last - (d - 1)
    BY <1>3
  <2>. QED  BY <1>3, <1>21, <1>22, <1>30, <2>1 DEF Turns, Spelled, Own, EditSet
<1>34. hunks' = <<>>
  BY <1>3 DEF BackInv
<1>35. BackInv'
  BY <1>26, <1>28, <1>29, <1>30, <1>31, <1>32, <1>33, <1>34 DEF BackInv
<1>. QED  BY <1>3, <1>35
-----------------------------------------------------------------------------
(* Counting the lines of the script *)

\* The lines of a part of the script that are not of one kind, by the ranks of its ends.
LEMMA CountIs ==
  ASSUME edits \in Seq(EditSet), NEW op, NEW f \in Nat, NEW t \in Nat, f <= t, t <= Len(edits)
  PROVE  Cardinality({i \in f + 1..t : edits[i].op # op}) = Rank(Own(edits, op), t) - Rank(Own(edits, op), f)
<1>. DEFINE S == Own(edits, op)
            a == {j \in S : j <= f}
            b == {j \in S : j <= t}
            c == {i \in f + 1..t : edits[i].op # op}
<1>1. Len(edits) \in Nat /\ DOMAIN edits = 1..Len(edits) /\ S \in SUBSET (1..Len(edits))
  BY OwnIs
<1>2. \A i : i \in S <=> i \in 1..Len(edits) /\ edits[i].op # op
  BY <1>1 DEF Own
<1>. HIDE DEF S
<1>3. IsFiniteSet(S)
  BY <1>1, CardinalityIs
<1>4. a \in SUBSET S /\ b \in SUBSET S
  OBVIOUS
<1>5. IsFiniteSet(a)
  BY <1>3, <1>4, FS_Subset
<1>6. \A i \in Int : i \in f + 1..t => i \in 1..Len(edits)
  BY <1>1
<1>7. c \in SUBSET S
  BY <1>2, <1>6
<1>8. IsFiniteSet(c)
  BY <1>3, <1>7, FS_Subset
<1>9. \A i \in S : i \in Int /\ 1 <= i /\ (i <= t <=> i <= f \/ i \in f + 1..t)
  BY <1>1
<1>10. \A i \in f + 1..t : ~(i <= f) /\ i <= t
  OBVIOUS
<1>11. b = a \cup c
  <2>1. \A i : i \in b => i \in a \/ i \in c
    BY <1>2, <1>9
  <2>2. \A i : i \in a \/ i \in c => i \in b
    BY <1>7, <1>9, <1>10
  <2>. HIDE DEF a, b, c
  <2>. QED  BY <2>1, <2>2
<1>12. a \cap c = {}
  BY <1>10
<1>. HIDE DEF a, b, c
<1>13. Cardinality(b) = Cardinality(a) + Cardinality(c) - Cardinality({})
  BY <1>5, <1>8, <1>11, <1>12, FS_Union
<1>14. Cardinality(a) \in Nat /\ Cardinality(c) \in Nat /\ Cardinality({}) = 0
  BY <1>5, <1>8, FS_CardinalityType, FS_EmptySet
<1>15. Cardinality(c) = Cardinality(b) - Cardinality(a)
  BY <1>13, <1>14
<1>. QED  BY <1>15 DEF Rank, a, b, c, S

\* The lines of the old and of the new file before a place of the script.
OldAt(i) == Rank(Own(edits, Insert), i)
NewAt(i) == Rank(Own(edits, Delete), i)

LEMMA AtIs ==
  ASSUME edits \in Seq(EditSet)
  PROVE  /\ Len(edits) \in Nat /\ OldAt(0) = 0 /\ NewAt(0) = 0
         /\ \A i \in Int : OldAt(i) \in Nat /\ NewAt(i) \in Nat
         /\ \A f, t \in 0..Len(edits) : f <= t =>
              /\ OldAt(f) <= OldAt(t) /\ NewAt(f) <= NewAt(t)
              /\ InA(f, t) = OldAt(t) - OldAt(f) /\ InB(f, t) = NewAt(t) - NewAt(f)
              /\ f < t => OldAt(f) < OldAt(t) \/ NewAt(f) < NewAt(t)
<1>. DEFINE A == Own(edits, Insert)
            B == Own(edits, Delete)
            N == Len(edits)
<1>1. N \in Nat /\ A \in SUBSET (1..N) /\ B \in SUBSET (1..N) /\ DOMAIN edits = 1..N
  BY OwnIs
<1>2. OldAt(0) = 0 /\ NewAt(0) = 0
  BY <1>1, RankEnds DEF OldAt, NewAt
<1>3. \A i \in Int : OldAt(i) \in Nat /\ NewAt(i) \in Nat
  BY <1>1, RankType DEF OldAt, NewAt
<1>4. ASSUME NEW f \in 0..N, NEW t \in 0..N, f <= t
      PROVE  /\ OldAt(f) <= OldAt(t) /\ NewAt(f) <= NewAt(t)
             /\ InA(f, t) = OldAt(t) - OldAt(f) /\ InB(f, t) = NewAt(t) - NewAt(f)
             /\ f < t => OldAt(f) < OldAt(t) \/ NewAt(f) < NewAt(t)
  <2>1. f \in Int /\ t \in Int /\ f \in Nat /\ t \in Nat /\ t <= N
    BY <1>1
  <2>2. /\ OldAt(f) <= OldAt(t) /\ ((\E l \in A : f < l /\ l <= t) => OldAt(f) < OldAt(t))
        /\ NewAt(f) <= NewAt(t) /\ ((\E l \in B : f < l /\ l <= t) => NewAt(f) < NewAt(t))
    <3>. HIDE DEF A, B, N
    <3>. QED  BY <1>1, <1>4, <2>1, RankGrows DEF OldAt, NewAt, A, B
  <2>3. InA(f, t) = OldAt(t) - OldAt(f) /\ InB(f, t) = NewAt(t) - NewAt(f)
    BY <1>4, <2>1, CountIs DEF InA, InB, OldAt, NewAt
  <2>4. f < t => t \in A \/ t \in B
    <3>1. f < t => t \in 1..N
      BY <1>1, <2>1
    <3>2. Insert # Delete
      BY DEF Insert, Delete
    <3>. QED  BY <1>1, <3>1, <3>2 DEF Own
  <2>5. f < t => \E l \in A \cup B : l = t /\ f < l /\ l <= t
    BY <2>1, <2>4
  <2>. QED  BY <2>2, <2>3, <2>5
<1>. QED  BY <1>1, <1>2, <1>3, <1>4

\* A part of the script spells the lines between its ends.
LEMMA PartSpells ==
  ASSUME edits \in Seq(EditSet), NEW op, NEW text \in Seq(Lines), Spelled(edits, op, text, 0, Len(text)),
         NEW f \in Nat, NEW t \in Nat, f <= t, t <= Len(edits)
  PROVE  SpellsWithout(SubSeq(edits, f + 1, t), op,
                       SubSeq(text, Rank(Own(edits, op), f) + 1, Rank(Own(edits, op), t)))
<1>. DEFINE S == Own(edits, op)
            N == Len(edits)
            p == SubSeq(edits, f + 1, t)
            Q == Own(p, op)
            a == Rank(S, f)
            b == Rank(S, t)
            u == SubSeq(text, a + 1, b)
            c == t - f
<1>1. N \in Nat /\ DOMAIN edits = 1..N /\ S \in SUBSET (1..N) /\ \A i \in 1..N : edits[i] \in EditSet
  BY OwnIs, ElementOfSeq
<1>2. c \in Nat /\ f + c = t /\ t - (f + 1) + 1 = c
  OBVIOUS
<1>3. p \in Seq(EditSet) /\ Len(p) = c /\ \A i \in 1..c : p[i] = edits[f + i]
  <2>1. \A i \in f + 1..t : edits[i] \in EditSet
    BY <1>1
  <2>2. f + 1 \in Int /\ t \in Int
    OBVIOUS
  <2>3. /\ p \in Seq(EditSet) /\ Len(p) = IF f + 1 <= t THEN t - (f + 1) + 1 ELSE 0
        /\ \A i \in 1..(t - (f + 1) + 1) : p[i] = edits[(f + 1) + i - 1]
    BY <2>1, <2>2, SubSeqProperties
  <2>4. Len(p) = c
    BY <1>2, <2>3
  <2>5. \A i \in 1..c : (f + 1) + i - 1 = f + i
    BY <1>2
  <2>. QED  BY <1>2, <2>3, <2>4, <2>5
<1>4. Q \in SUBSET (1..c) /\ DOMAIN p = 1..c
  BY <1>3, OwnIs
<1>5. \A i \in 1..c : f + i \in S <=> i \in Q
  <2>. TAKE i \in 1..c
  <2>1. f + i \in 1..N
    BY <1>1, <1>2
  <2>. QED  BY <1>1, <1>3, <1>4, <2>1 DEF Own
<1>6. /\ Cardinality(S) = Len(text) - 0
      /\ \A i \in S : edits[i].line = text[0 + Rank(S, i)]
  BY DEF Spelled
<1>. HIDE DEF S, N, p, Q, c
<1>7. \A i \in 0..c : Rank(S, f + i) = Rank(S, f) + Rank(Q, i)
  <2>1. Within(S, N) /\ Within(Q, c) /\ GoesOn(S, f, Q, c)
    BY <1>1, <1>4, <1>5 DEF Within, GoesOn
  <2>. QED  BY <1>1, <1>2, <2>1, RankShift
<1>8. a \in Nat /\ b \in Nat /\ b <= Cardinality(S) /\ b = a + Cardinality(Q) /\ Cardinality(Q) \in Nat
  <2>1. f \in Int /\ t \in Int /\ c \in Int /\ c >= c /\ c \in 0..c
    BY <1>2
  <2>2. a \in Nat /\ b \in Nat /\ b <= Cardinality(S)
    BY <1>1, <2>1, RankType
  <2>3. Rank(Q, c) = Cardinality(Q) /\ Cardinality(Q) \in Nat
    BY <1>2, <1>4, <2>1, RankEnds, CardinalityIs
  <2>. QED  BY <1>2, <1>7, <2>1, <2>2, <2>3
<1>9. Len(text) \in Nat /\ Cardinality(S) = Len(text)
  <2>1. Len(text) \in Nat
    BY LenProperties
  <2>. QED  BY <1>6, <2>1
<1>. DEFINE e == Cardinality(Q)
<1>. HIDE DEF a, b, e
<1>10. Len(u) = e /\ \A i \in 1..e : u[i] = text[a + i]
  <2>1. \A i \in a + 1..b : text[i] \in Lines
    <3>1. \A i \in a + 1..b : i \in 1..Len(text)
      BY <1>8, <1>9
    <3>. QED  BY <3>1, ElementOfSeq
  <2>2. a + 1 \in Int /\ b \in Int /\ b - (a + 1) + 1 = e /\ (a + 1 <= b <=> e > 0)
    BY <1>8 DEF e
  <2>3. /\ Len(u) = IF a + 1 <= b THEN b - (a + 1) + 1 ELSE 0
        /\ \A i \in 1..(b - (a + 1) + 1) : u[i] = text[(a + 1) + i - 1]
    BY <2>1, <2>2, SubSeqProperties
  <2>4. \A i \in 1..e : (a + 1) + i - 1 = a + i
    BY <1>8 DEF e
  <2>5. Len(u) = e
    BY <1>8, <2>2, <2>3 DEF e
  <2>. QED  BY <2>2, <2>3, <2>4, <2>5
<1>11. ASSUME NEW i \in Q  PROVE p[i].line = u[Rank(Q, i)]
  <2>1. i \in 1..c /\ i \in 0..c /\ i \in Int /\ 0 < i /\ 0 \in Int /\ 0 <= i
    BY <1>2, <1>4
  <2>2. f + i \in S /\ Rank(S, f + i) = a + Rank(Q, i)
    BY <1>5, <1>7, <2>1 DEF a
  <2>3. Rank(Q, i) \in Nat /\ Rank(Q, i) <= e /\ Rank(Q, 0) = 0
    BY <1>2, <1>4, <2>1, RankType, RankEnds DEF e
  <2>4. Rank(Q, 0) < Rank(Q, i)
    <3>1. \E l \in Q : 0 < l /\ l <= i
      BY <2>1
    <3>. QED  BY <1>2, <1>4, <2>1, <3>1, RankGrows
  <2>5. Rank(Q, i) \in 1..e
    BY <1>8, <2>3, <2>4 DEF e
  <2>6. 0 + Rank(S, f + i) = a + Rank(Q, i)
    BY <1>8, <2>2, <2>3
  <2>7. edits[f + i].line = text[a + Rank(Q, i)]
    BY <1>6, <2>2, <2>6
  <2>. QED  BY <1>3, <1>10, <2>1, <2>5, <2>7
<1>12. SpellsWithout(p, op, u)
  <2>1. Own(p, op) = Q
    BY DEF Q
  <2>. QED  BY <1>10, <1>11, <2>1 DEF SpellsWithout, Own, e
<1>. QED  BY <1>12 DEF p, u, a, b, S

\* A part of the script without changes.
Quiet(f, t) == \A i \in f + 1..t : ~Changed(i)

\* Without changes the lines between its ends are the same in both files.
LEMMA QuietIsEqual ==
  ASSUME Files, Turns(edits, 0, 0, n, m, Cardinality(Own(edits, Equal))),
         NEW f \in Nat, NEW t \in Nat, f <= t, t <= Len(edits), Quiet(f, t)
  PROVE  /\ SubSeq(old, OldAt(f) + 1, OldAt(t)) = SubSeq(new, NewAt(f) + 1, NewAt(t))
         /\ OldAt(t) = OldAt(f) + (t - f) /\ NewAt(t) = NewAt(f) + (t - f)
<1>. DEFINE A == Own(edits, Insert)
            B == Own(edits, Delete)
            N == Len(edits)
            c == t - f
<1>1. n \in Nat /\ m \in Nat /\ (\A i \in 1..n : old[i] \in Lines) /\ (\A i \in 1..m : new[i] \in Lines)
  BY FileLengths
<1>2. edits \in Seq(EditSet) /\ Spelled(edits, Insert, old, 0, n) /\ Spelled(edits, Delete, new, 0, m)
  BY DEF Turns
<1>3. N \in Nat /\ DOMAIN edits = 1..N /\ A \in SUBSET (1..N) /\ B \in SUBSET (1..N)
  BY <1>2, OwnIs
<1>4. c \in Nat /\ f + c = t
  OBVIOUS
<1>5. \A i \in 1..c : f + i \in A /\ f + i \in B
  <2>. TAKE i \in 1..c
  <2>1. f + i \in 1..N /\ f + i \in f + 1..t
    BY <1>3, <1>4
  <2>2. edits[f + i].op = Equal
    BY <2>1 DEF Quiet, Changed
  <2>. QED  BY <1>3, <2>1, <2>2 DEF Own, Equal, Insert, Delete
<1>6. /\ Cardinality(A) = n - 0 /\ \A i \in A : edits[i].line = old[0 + Rank(A, i)]
      /\ Cardinality(B) = m - 0 /\ \A i \in B : edits[i].line = new[0 + Rank(B, i)]
  BY <1>2 DEF Spelled
<1>. HIDE DEF A, B, N, c
<1>7. \A i \in 0..c : Rank(1..c, i) = i
  <2>. TAKE i \in 0..c
  <2>1. CASE i = 0
    <3>1. 1..c \in SUBSET (1..c)
      OBVIOUS
    <3>. QED  BY <1>4, <2>1, <3>1, RankEnds
  <2>2. CASE i # 0
    <3>1. i \in 1..c
      BY <1>4, <2>2
    <3>. QED  BY <1>4, <3>1, RankOfAll
  <2>. QED  BY <2>1, <2>2
<1>8. \A i \in 0..c : Rank(A, f + i) = Rank(A, f) + i /\ Rank(B, f + i) = Rank(B, f) + i
  <2>1. Within(A, N) /\ Within(B, N) /\ Within(1..c, c)
    BY <1>3 DEF Within
  <2>2. GoesOn(A, f, 1..c, c) /\ GoesOn(B, f, 1..c, c)
    BY <1>5 DEF GoesOn
  <2>3. \A i \in 0..c : Rank(A, f + i) = Rank(A, f) + Rank(1..c, i)
    BY <1>3, <1>4, <2>1, <2>2, RankShift
  <2>4. \A i \in 0..c : Rank(B, f + i) = Rank(B, f) + Rank(1..c, i)
    BY <1>3, <1>4, <2>1, <2>2, RankShift
  <2>. QED  BY <1>7, <2>3, <2>4
<1>. DEFINE a == Rank(A, f)
            b == Rank(B, f)
<1>9. /\ a \in Nat /\ b \in Nat /\ Rank(A, t) = a + c /\ Rank(B, t) = b + c
      /\ a + c <= n /\ b + c <= m
  <2>1. f \in Int /\ t \in Int /\ c \in 0..c
    BY <1>4
  <2>2. a \in Nat /\ b \in Nat /\ Rank(A, t) <= Cardinality(A) /\ Rank(B, t) <= Cardinality(B)
    BY <1>3, <2>1, RankType
  <2>3. Rank(A, t) = a + c /\ Rank(B, t) = b + c
    BY <1>4, <1>8, <2>1
  <2>4. Cardinality(A) = n /\ Cardinality(B) = m
    BY <1>1, <1>6
  <2>. QED  BY <2>2, <2>3, <2>4
<1>. HIDE DEF a, b
<1>10. \A i \in 1..c : old[a + i] = new[b + i]
  <2>. TAKE i \in 1..c
  <2>1. i \in 0..c
    BY <1>4
  <2>2. Rank(A, f + i) = a + i /\ Rank(B, f + i) = b + i
    BY <1>8, <2>1 DEF a, b
  <2>3. edits[f + i].line = old[0 + Rank(A, f + i)] /\ edits[f + i].line = new[0 + Rank(B, f + i)]
    BY <1>5, <1>6
  <2>4. 0 + (a + i) = a + i /\ 0 + (b + i) = b + i
    BY <1>9
  <2>. QED  BY <2>2, <2>3, <2>4
<1>. DEFINE p == SubSeq(old, a + 1, a + c)
            q == SubSeq(new, b + 1, b + c)
<1>11. p \in Seq(Lines) /\ Len(p) = c /\ \A i \in 1..c : p[i] = old[a + i]
  <2>1. \A i \in a + 1..a + c : old[i] \in Lines
    <3>1. \A i \in a + 1..a + c : i \in 1..n
      BY <1>1, <1>4, <1>9
    <3>. QED  BY <1>1, <3>1
  <2>2. a + 1 \in Int /\ a + c \in Int /\ (a + c) - (a + 1) + 1 = c /\ (a + 1 <= a + c <=> c > 0)
    BY <1>4, <1>9
  <2>3. /\ p \in Seq(Lines) /\ Len(p) = IF a + 1 <= a + c THEN (a + c) - (a + 1) + 1 ELSE 0
        /\ \A i \in 1..((a + c) - (a + 1) + 1) : p[i] = old[(a + 1) + i - 1]
    BY <2>1, <2>2, SubSeqProperties
  <2>4. \A i \in 1..c : (a + 1) + i - 1 = a + i
    BY <1>4, <1>9
  <2>5. Len(p) = c
    BY <1>4, <2>2, <2>3
  <2>. QED  BY <2>2, <2>3, <2>4, <2>5
<1>12. q \in Seq(Lines) /\ Len(q) = c /\ \A i \in 1..c : q[i] = new[b + i]
  <2>1. \A i \in b + 1..b + c : new[i] \in Lines
    <3>1. \A i \in b + 1..b + c : i \in 1..m
      BY <1>1, <1>4, <1>9
    <3>. QED  BY <1>1, <3>1
  <2>2. b + 1 \in Int /\ b + c \in Int /\ (b + c) - (b + 1) + 1 = c /\ (b + 1 <= b + c <=> c > 0)
    BY <1>4, <1>9
  <2>3. /\ q \in Seq(Lines) /\ Len(q) = IF b + 1 <= b + c THEN (b + c) - (b + 1) + 1 ELSE 0
        /\ \A i \in 1..((b + c) - (b + 1) + 1) : q[i] = new[(b + 1) + i - 1]
    BY <2>1, <2>2, SubSeqProperties
  <2>4. \A i \in 1..c : (b + 1) + i - 1 = b + i
    BY <1>4, <1>9
  <2>5. Len(q) = c
    BY <1>4, <2>2, <2>3
  <2>. QED  BY <2>2, <2>3, <2>4, <2>5
<1>. HIDE DEF p, q
<1>13. p = q
  BY <1>10, <1>11, <1>12, SeqEqual
<1>14. OldAt(f) = a /\ NewAt(f) = b /\ OldAt(t) = a + c /\ NewAt(t) = b + c
  BY <1>9 DEF OldAt, NewAt, A, B, a, b
<1>. QED  BY <1>13, <1>14 DEF p, q, c
-----------------------------------------------------------------------------
(* The inductive invariant of the hunks *)

HunkSet == [aStart : Nat, aCount : Nat, bStart : Nat, bCount : Nat, lines : Seq(EditSet)]

\* Where hunks are cut out of the script: no overlap, and nothing but equal lines between.
CutAt(hs, cuts) ==
  /\ cuts \in Seq(Nat \X Nat) /\ hs \in Seq(HunkSet) /\ Len(hs) = Len(cuts)
  /\ \A i \in 1..Len(cuts) : /\ cuts[i][1] <= cuts[i][2] /\ cuts[i][2] <= Len(edits)
                             /\ hs[i] = NewHunk(cuts[i][1], cuts[i][2])
                             /\ i = 1 => Quiet(0, cuts[i][1])
                             /\ i > 1 => cuts[i - 1][2] < cuts[i][1] /\ Quiet(cuts[i - 1][2], cuts[i][1])

\* The last hunk reaches as far behind edit e, the end of the changes so far, as the context does.
CutTo(e, cuts) ==
  /\ cuts = <<>> => e = 0
  /\ cuts # <<>> => cuts[Len(cuts)][2] = IF e + Context <= Len(edits) THEN e + Context ELSE Len(edits)

RegionsInv ==
  /\ Turns(edits, 0, 0, n, m, n + m - 2 * Common)
  /\ d \in 0..Len(edits)
  /\ \E cuts : CutAt(hunks, cuts) /\ CutTo(d, cuts)

DiffIInv ==
  /\ FilesBounded /\ at \in {"forward", "back", "regions", "done"}
  /\ at = "forward" => ForwardInv
  /\ at = "back" => BackInv
  /\ at \in {"regions", "done"} => RegionsInv
  /\ at = "done" => Patched

LEMMA NoHunksYet ==
  ASSUME hunks = <<>>, d = 0
  PROVE  \E cuts : CutAt(hunks, cuts) /\ CutTo(d, cuts)
<1>1. <<>> \in Seq(Nat \X Nat) /\ <<>> \in Seq(HunkSet) /\ Len(<<>>) = 0
  BY EmptySeq
<1>2. \A i \in 1..0 : FALSE
  OBVIOUS
<1>3. CutAt(hunks, <<>>) /\ CutTo(d, <<>>)
  BY <1>1, <1>2 DEF CutAt, CutTo
<1>. QED  BY <1>3

\* The run of equal lines before the first edit ends the script.
LEMMA BackEndsKeeps ==
  ASSUME Files, BackInv, BackEnds
  PROVE  RegionsInv' /\ at' = "regions"
<1>1. n \in Nat /\ m \in Nat
  BY FileLengths
<1>. DEFINE T == Vectors
            last == Len(trace) - 1
            x == pos[1]
            y == pos[2]
            k == x - y
            s == Start(T, 0, k)
<1>2. /\ Searched(T) /\ trace \in Seq([Diagonals -> Int]) /\ d \in 0..last
      /\ x \in 0..n /\ y \in 0..m /\ k \in OnRound(d) /\ Far(T, d, k) = x
      /\ Turns(edits, x, y, n, m, last - d)
  BY DEF BackInv
<1>3. d = 0 /\ d' = 0 /\ at' = "regions" /\ UNCHANGED <<old, new, v, trace, pos, hunks>>
  BY DEF BackEnds
<1>4. Len(trace) \in Nat /\ Len(T) = Len(trace) + 1 /\ Len(T) \in Nat
  <2>1. Len(trace) \in Nat
    BY <1>2, LenProperties
  <2>. QED  BY <1>2, <2>1 DEF Vectors
<1>5. 0 \in 0..(Len(T) - 2) /\ last \in 0..(Len(T) - 2) /\ last - 0 = last /\ last \in Nat
  BY <1>2, <1>3, <1>4
<1>6. k = 0 /\ x \in Nat /\ y = x /\ x <= n /\ y <= m
  <2>1. k = 0
    BY <1>2, <1>3, Neighbours
  <2>. QED  BY <1>1, <1>2, <2>1
<1>7. k \in OnRound(0) /\ Far(T, 0, k) = x
  BY <1>2, <1>3
<1>. HIDE DEF T
<1>8. PICK j \in Nat : SnakeOf(s, s - k, j) /\ x = s + j
  BY <1>2, <1>5, <1>7, FarSnake
<1>9. s = 0 /\ s - k = 0 /\ j = x
  <2>1. s = 0
    BY <1>2, <1>5, <1>7, StartIs
  <2>. QED  BY <1>6, <1>8, <2>1
<1>10. \A i \in 1..x : old[0 + i] = new[0 + i]
  BY <1>8, <1>9 DEF SnakeOf
<1>11. Turns(EqualRun(0, x), 0, 0, x, y, 0)
  <2>1. 0 + x = x /\ 0 \in Nat /\ 0 + x <= n /\ 0 + x <= m
    BY <1>6
  <2>. HIDE DEF x, y
  <2>2. Turns(EqualRun(0, 0 + x), 0, 0, 0 + x, 0 + x, 0)
    BY <1>6, <1>10, <2>1, TurnsRun
  <2>. QED  BY <1>6, <2>1, <2>2
<1>12. edits' = EqualRun(0, x) \o edits
  <2>1. Min({x, y}) = x
    BY <1>6, MinOfTwo
  <2>2. x - Min({x, y}) = 0
    BY <1>6, <2>1
  <2>. QED  BY <2>2 DEF BackEnds
<1>13. Turns(edits', 0, 0, n, m, last)
  <2>1. Turns(edits, x, y, n, m, last)
    BY <1>2, <1>3, <1>5
  <2>2. 0 + last = last /\ 0 \in Int /\ x \in Int /\ y \in Int /\ n \in Int /\ m \in Int /\ last \in Int
    BY <1>1, <1>5, <1>6
  <2>. HIDE DEF last, x, y
  <2>3. Turns(EqualRun(0, x) \o edits, 0, 0, n, m, 0 + last)
    BY <1>11, <2>1, <2>2, TurnsConcat
  <2>. QED  BY <1>12, <2>2, <2>3
<1>14. last = n + m - 2 * Common
  <2>1. ReachedIn(T, last) /\ \A r \in 0..(last - 1) : ~ReachedIn(T, r)
    BY DEF BackInv, T
  <2>. HIDE DEF last
  <2>. QED  BY <1>2, <1>5, <2>1, RoundsAreShortest
<1>15. n' = n /\ m' = m /\ Common' = Common
  BY <1>3 DEF n, m, Common, Matches
<1>16. Turns(edits, 0, 0, n, m, n + m - 2 * Common)'
  BY <1>3, <1>13, <1>14, <1>15 DEF Turns, Spelled, Own, EditSet
<1>17. (d \in 0..Len(edits))'
  <2>1. edits' \in Seq(EditSet)
    BY <1>13 DEF Turns
  <2>2. Len(edits') \in Nat
    BY <2>1, LenProperties
  <2>. QED  BY <1>3, <2>2
<1>18. (\E cuts : CutAt(hunks, cuts) /\ CutTo(d, cuts))'
  <2>1. (hunks = <<>> /\ d = 0)'
    BY <1>3 DEF BackInv
  <2>2. (hunks = <<>> /\ d = 0) => \E cuts : CutAt(hunks, cuts) /\ CutTo(d, cuts)
    BY NoHunksYet
  <2>. QED  BY <2>1, NoHunksYet, PTL
<1>. QED  BY <1>3, <1>16, <1>17, <1>18 DEF RegionsInv

\* Files of which one is empty: all of the old one goes, all of the new one comes.
LEMMA OneSideEmpty ==
  ASSUME Files, n = 0 \/ m = 0,
         edits = [i \in 1..n |-> Edit(Delete, old[i])] \o [i \in 1..m |-> Edit(Insert, new[i])]
  PROVE  Turns(edits, 0, 0, n, m, n + m - 2 * Common)
<1>1. /\ n \in Nat /\ m \in Nat /\ DOMAIN old = 1..n /\ DOMAIN new = 1..m
      /\ (\A i \in 1..n : old[i] \in Lines) /\ (\A i \in 1..m : new[i] \in Lines)
  BY FileLengths
<1>. DEFINE p == [i \in 1..n |-> Edit(Delete, old[i])]
            q == [i \in 1..m |-> Edit(Insert, new[i])]
<1>2. p \in Seq(EditSet) /\ DOMAIN p = 1..n /\ \A i \in 1..n : p[i].op = Delete /\ p[i].line = old[i]
  <2>1. \A i \in 1..n : Edit(Delete, old[i]) \in EditSet
    BY <1>1 DEF Edit, EditSet
  <2>. QED  BY <1>1, <2>1 DEF Edit
<1>3. q \in Seq(EditSet) /\ DOMAIN q = 1..m /\ \A i \in 1..m : q[i].op = Insert /\ q[i].line = new[i]
  <2>1. \A i \in 1..m : Edit(Insert, new[i]) \in EditSet
    BY <1>1 DEF Edit, EditSet
  <2>. QED  BY <1>1, <2>1 DEF Edit
<1>. HIDE DEF p, q
<1>4. Own(p, Insert) = 1..n /\ Own(p, Delete) = {} /\ Own(p, Equal) = 1..n
  BY <1>2 DEF Own, Equal, Insert, Delete
<1>5. Own(q, Delete) = 1..m /\ Own(q, Insert) = {} /\ Own(q, Equal) = 1..m
  BY <1>3 DEF Own, Equal, Insert, Delete
<1>6. Cardinality({}) = 0 /\ Cardinality(1..n) = n /\ Cardinality(1..m) = m
  <2>1. \A i \in Nat : Cardinality(1..i) = i
    BY FS_Interval
  <2>. QED  BY <1>1, <2>1, FS_EmptySet
<1>7. (\A i \in 1..n : Rank(1..n, i) = i) /\ (\A i \in 1..m : Rank(1..m, i) = i)
  BY <1>1, RankOfAll
<1>8. n - 0 = n /\ m - 0 = m /\ n - n = 0 /\ (\A i \in 1..n : 0 + i = i) /\ (\A i \in 1..m : 0 + i = i)
  BY <1>1
<1>9. Turns(p, 0, 0, n, 0, n)
  <2>1. Spelled(p, Insert, old, 0, n)
    BY <1>2, <1>4, <1>6, <1>7, <1>8 DEF Spelled
  <2>2. Spelled(p, Delete, new, 0, 0)
    BY <1>4, <1>6 DEF Spelled
  <2>. QED  BY <1>2, <1>4, <1>6, <2>1, <2>2 DEF Turns
<1>10. Turns(q, n, 0, n, m, m)
  <2>1. Spelled(q, Delete, new, 0, m)
    BY <1>3, <1>5, <1>6, <1>7, <1>8 DEF Spelled
  <2>2. Spelled(q, Insert, old, n, n)
    BY <1>5, <1>6, <1>8 DEF Spelled
  <2>. QED  BY <1>3, <1>5, <1>6, <2>1, <2>2 DEF Turns
<1>11. Turns(p \o q, 0, 0, n, m, n + m)
  <2>1. 0 \in Int /\ n \in Int /\ m \in Int
    BY <1>1
  <2>. QED  BY <1>9, <1>10, <2>1, TurnsConcat
<1>. DEFINE S == {Cardinality(s) : s \in {s \in SUBSET (DOMAIN old) : \E t \in SUBSET (DOMAIN new) : Matches(s, t)}}
<1>12. S = {0}
  <2>1. ASSUME NEW s \in SUBSET (DOMAIN old), NEW t \in SUBSET (DOMAIN new), Matches(s, t)
        PROVE  Cardinality(s) = 0
    <3>1. CASE n = 0
      <4>1. s = {}
        <5>1. 1..0 = {}
          OBVIOUS
        <5>. QED  BY <1>1, <3>1, <5>1
      <4>. QED  BY <1>6, <4>1
    <3>2. CASE m = 0
      <4>1. t = {}
        <5>1. 1..0 = {}
          OBVIOUS
        <5>. QED  BY <1>1, <3>2, <5>1
      <4>. QED  BY <1>6, <2>1, <4>1 DEF Matches
    <3>. QED  BY <3>1, <3>2
  <2>2. Matches({}, {})
    BY DEF Matches
  <2>3. 0 \in S
    BY <1>6, <2>2
  <2>4. \A c \in S : c = 0
    BY <2>1
  <2>. HIDE DEF S
  <2>. QED  BY <2>3, <2>4
<1>13. Common = 0
  <2>1. Common = Max({0})
    BY <1>12 DEF Common
  <2>2. Max({0, 0}) = 0
    BY MaxOfTwo
  <2>3. {0, 0} = {0}
    OBVIOUS
  <2>. QED  BY <2>1, <2>2, <2>3
<1>14. n + m - 2 * Common = n + m
  BY <1>1, <1>13
<1>. QED  BY <1>11, <1>14 DEF p, q

LEMMA InitHolds ==
  ASSUME DiffInit
  PROVE  DiffIInv
<1>1. FilesBounded /\ Files
  BY BoundedFiles DEF DiffInit, FilesBounded
<1>2. n \in Nat /\ m \in Nat
  BY <1>1, FileLengths
<1>3. d = 0 /\ v = [k \in Diagonals |-> 0] /\ trace = <<>> /\ hunks = <<>>
  BY DEF DiffInit
<1>4. CASE n = 0 \/ m = 0
  <2>1. /\ at = "regions"
        /\ edits = [i \in 1..n |-> Edit(Delete, old[i])] \o [i \in 1..m |-> Edit(Insert, new[i])]
    BY <1>4 DEF DiffInit
  <2>2. Turns(edits, 0, 0, n, m, n + m - 2 * Common)
    BY <1>1, <1>4, <2>1, OneSideEmpty
  <2>3. Len(edits) \in Nat
    BY <2>2, LenProperties DEF Turns
  <2>4. d \in 0..Len(edits)
    BY <1>3, <2>3
  <2>5. \E cuts : CutAt(hunks, cuts) /\ CutTo(d, cuts)
    BY <1>3, NoHunksYet
  <2>. QED  BY <1>1, <2>1, <2>2, <2>4, <2>5 DEF DiffIInv, RegionsInv
<1>5. CASE ~(n = 0 \/ m = 0)
  <2>1. at = "forward" /\ edits = <<>>
    BY <1>5 DEF DiffInit
  <2>. DEFINE V == [Diagonals -> Int]
  <2>2. v \in V
    BY <1>3
  <2>3. <<>> \in Seq(V) /\ Len(<<>>) = 0
    BY EmptySeq
  <2>4. Vectors = <<v>>
    BY <1>3 DEF Vectors
  <2>5. Vectors \in Seq(V) /\ Len(Vectors) = 1 /\ Vectors[1] = v
    <3>. HIDE DEF V
    <3>. QED  BY <2>2, <2>4
  <2>6. Searched(Vectors)
    <3>1. \A k \in Diagonals : Vectors[1][k] = 0
      BY <1>3, <2>5
    <3>2. 1 <= n + m + 2 /\ \A r \in 0..(1 - 2) : FALSE
      BY <1>2
    <3>. QED  BY <2>5, <3>1, <3>2 DEF Searched
  <2>7. \A r \in 0..(d - 1) : ~ReachedIn(Vectors, r)
    <3>1. \A r \in 0..(0 - 1) : FALSE
      OBVIOUS
    <3>. QED  BY <1>3, <3>1
  <2>8. d = Len(trace) /\ d <= n + m /\ trace \in Seq([Diagonals -> Int])
    BY <1>2, <1>3, <2>3
  <2>9. ForwardInv
    BY <1>3, <2>1, <2>6, <2>7, <2>8 DEF ForwardInv
  <2>. QED  BY <1>1, <2>1, <2>9 DEF DiffIInv
<1>. QED  BY <1>4, <1>5
\* The next changes: none before them, and they end in the script.
LEMMA NextRegionIs ==
  ASSUME edits \in Seq(EditSet), d \in 0..Len(edits), \E i \in (d + 1)..Len(edits) : Changed(i)
  PROVE  /\ NextRegion[1] \in Nat /\ d <= NextRegion[1] /\ Quiet(d, NextRegion[1])
         /\ NextRegion[2] \in Nat /\ NextRegion[1] < NextRegion[2] /\ NextRegion[2] <= Len(edits)
<1>1. Len(edits) \in Nat /\ d \in Nat
  BY LenProperties
<1>. DEFINE N == Len(edits)
            S == {i \in (d + 1)..N : Changed(i)}
            first == Min(S)
            R == {i \in first..N : i = N \/ ~Changed(i + 1)}
            last == Min(R)
<1>2. S \in SUBSET Nat /\ S # {}
  BY <1>1
<1>3. first \in S /\ \A i \in S : first <= i
  <2>. HIDE DEF S
  <2>. QED  BY <1>2, MinIs
<1>4. first \in (d + 1)..N /\ first \in Nat
  BY <1>1, <1>3
<1>5. Quiet(d, first - 1)
  <2>. SUFFICES ASSUME NEW i \in d + 1..first - 1, Changed(i)  PROVE FALSE
    BY DEF Quiet
  <2>1. i \in (d + 1)..N /\ ~(first <= i)
    BY <1>1, <1>4
  <2>. QED  BY <1>3, <2>1
<1>. HIDE DEF first
<1>6. N \in R /\ R \in SUBSET Nat
  BY <1>1, <1>4
<1>7. last \in R
  <2>. HIDE DEF R
  <2>. QED  BY <1>6, MinIs
<1>8. last \in first..N /\ last \in Nat
  BY <1>1, <1>4, <1>7
<1>9. NextRegion = <<first - 1, last>>
  BY DEF NextRegion, first
<1>. HIDE DEF last
<1>. QED  BY <1>1, <1>4, <1>5, <1>8, <1>9

\* A hunk's counts, by the lines before its ends.
LEMMA HunkIs ==
  ASSUME edits \in Seq(EditSet), NEW f \in Nat, NEW t \in Nat, f <= t, t <= Len(edits)
  PROVE  /\ NewHunk(f, t) \in HunkSet
         /\ NewHunk(f, t).aStart = OldAt(f) /\ NewHunk(f, t).aCount = OldAt(t) - OldAt(f)
         /\ NewHunk(f, t).bStart = NewAt(f) /\ NewHunk(f, t).bCount = NewAt(t) - NewAt(f)
         /\ NewHunk(f, t).lines = SubSeq(edits, f + 1, t)
<1>1. Len(edits) \in Nat /\ OldAt(0) = 0 /\ NewAt(0) = 0
  BY AtIs
<1>2. 0 \in 0..Len(edits) /\ f \in 0..Len(edits) /\ t \in 0..Len(edits) /\ 0 <= f
  BY <1>1
<1>3. /\ InA(0, f) = OldAt(f) - OldAt(0) /\ InB(0, f) = NewAt(f) - NewAt(0)
      /\ InA(f, t) = OldAt(t) - OldAt(f) /\ InB(f, t) = NewAt(t) - NewAt(f)
      /\ OldAt(f) <= OldAt(t) /\ NewAt(f) <= NewAt(t)
  BY <1>2, AtIs
<1>4. OldAt(f) \in Nat /\ NewAt(f) \in Nat /\ OldAt(t) \in Nat /\ NewAt(t) \in Nat
  <2>1. f \in Int /\ t \in Int
    OBVIOUS
  <2>. QED  BY <2>1, AtIs
<1>5. /\ InA(0, f) = OldAt(f) /\ InB(0, f) = NewAt(f)
      /\ InA(f, t) \in Nat /\ InB(f, t) \in Nat
  BY <1>1, <1>3, <1>4
<1>6. SubSeq(edits, f + 1, t) \in Seq(EditSet)
  <2>1. \A i \in f + 1..t : edits[i] \in EditSet
    <3>1. \A i \in f + 1..t : i \in 1..Len(edits)
      BY <1>1
    <3>. QED  BY <3>1, ElementOfSeq
  <2>2. f + 1 \in Int /\ t \in Int
    OBVIOUS
  <2>. QED  BY <2>1, <2>2, SubSeqProperties
<1>. QED  BY <1>3, <1>4, <1>5, <1>6 DEF NewHunk, HunkSet

\* The end of the previous hunk is found by its counts, for every edit adds to one of them.
LEMMA PrevEndIs ==
  ASSUME edits \in Seq(EditSet), NEW f \in Nat, NEW t \in Nat, f <= t, t <= Len(edits)
  PROVE  PrevHunkEditEnd(NewHunk(f, t)) = t
<1>. DEFINE h == NewHunk(f, t)
            N == Len(edits)
            P == {i \in 0..(N - 1) : InA(0, i) >= h.aStart + h.aCount /\ InB(0, i) >= h.bStart + h.bCount} \cup {N}
<1>1. N \in Nat /\ OldAt(0) = 0 /\ NewAt(0) = 0
  BY AtIs
<1>2. \A i \in 0..N : OldAt(i) \in Nat /\ NewAt(i) \in Nat /\ InA(0, i) = OldAt(i) /\ InB(0, i) = NewAt(i)
  <2>. TAKE i \in 0..N
  <2>1. i \in Int /\ 0 \in 0..N /\ 0 <= i
    BY <1>1
  <2>2. OldAt(i) \in Nat /\ NewAt(i) \in Nat
    BY <2>1, AtIs
  <2>3. InA(0, i) = OldAt(i) - OldAt(0) /\ InB(0, i) = NewAt(i) - NewAt(0)
    BY <2>1, AtIs
  <2>. QED  BY <1>1, <2>2, <2>3
<1>3. f \in 0..N /\ t \in 0..N
  BY <1>1
<1>4. h.aStart + h.aCount = OldAt(t) /\ h.bStart + h.bCount = NewAt(t)
  <2>1. /\ h.aStart = OldAt(f) /\ h.aCount = OldAt(t) - OldAt(f)
        /\ h.bStart = NewAt(f) /\ h.bCount = NewAt(t) - NewAt(f)
    BY HunkIs
  <2>. HIDE DEF h
  <2>. QED  BY <1>2, <1>3, <2>1
<1>. HIDE DEF h
<1>5. P = {i \in 0..(N - 1) : OldAt(i) >= OldAt(t) /\ NewAt(i) >= NewAt(t)} \cup {N}
  <2>1. \A i \in 0..(N - 1) : i \in 0..N
    BY <1>1
  <2>. QED  BY <1>2, <1>4, <2>1
<1>. HIDE DEF P
<1>6. t \in P
  <2>1. OldAt(t) >= OldAt(t) /\ NewAt(t) >= NewAt(t)
    BY <1>2, <1>3
  <2>2. t = N \/ t \in 0..(N - 1)
    BY <1>1
  <2>. QED  BY <1>5, <2>1, <2>2
<1>7. \A i \in P : t <= i
  <2>. SUFFICES ASSUME NEW i \in P, ~(t <= i)  PROVE FALSE
    OBVIOUS
  <2>1. i \in 0..N /\ (i = N \/ (OldAt(i) >= OldAt(t) /\ NewAt(i) >= NewAt(t)))
    BY <1>1, <1>5
  <2>2. i < t /\ i <= t
    BY <1>1, <2>1
  <2>3. OldAt(i) < OldAt(t) \/ NewAt(i) < NewAt(t)
    BY <1>3, <2>1, <2>2, AtIs
  <2>4. i # N
    BY <1>1, <2>2
  <2>5. OldAt(i) \in Nat /\ OldAt(t) \in Nat /\ NewAt(i) \in Nat /\ NewAt(t) \in Nat
    BY <1>2, <1>3, <2>1
  <2>. QED  BY <2>1, <2>3, <2>4, <2>5
<1>8. P \in SUBSET Nat
  BY <1>1, <1>5
<1>9. Min(P) \in P /\ Min(P) <= t
  BY <1>6, <1>8, MinIs
<1>10. Min(P) = t
  <2>. DEFINE a == Min(P)
  <2>1. a \in Nat /\ a <= t /\ t <= a
    BY <1>7, <1>8, <1>9
  <2>. HIDE DEF a
  <2>2. a = t
    BY <2>1
  <2>. QED  BY <2>2 DEF a
<1>. QED  BY <1>10 DEF PrevHunkEditEnd, P, h

LEMMA RecordExtended ==
  ASSUME NEW a, NEW b, NEW c, NEW e, NEW l, NEW x, NEW y, NEW z, NEW h,
         h = [aStart |-> a, bStart |-> b, aCount |-> c, bCount |-> e, lines |-> l]
  PROVE  [h EXCEPT !.aCount = @ + x, !.bCount = @ + y, !.lines = @ \o z]
         = [aStart |-> a, bStart |-> b, aCount |-> c + x, bCount |-> e + y, lines |-> l \o z]
<1>. DEFINE g == [h EXCEPT !.aCount = @ + x, !.bCount = @ + y, !.lines = @ \o z]
            r == [aStart |-> a, bStart |-> b, aCount |-> c + x, bCount |-> e + y, lines |-> l \o z]
            D == {"aStart", "bStart", "aCount", "bCount", "lines"}
<1>1. DOMAIN g = D /\ g = [i \in DOMAIN g |-> g[i]]
  OBVIOUS
<1>2. DOMAIN r = D /\ r = [i \in DOMAIN r |-> r[i]]
  OBVIOUS
<1>3. g["aCount"] = r["aCount"] /\ g["bCount"] = r["bCount"]
  OBVIOUS
<1>4. g["lines"] = r["lines"] /\ g["aStart"] = r["aStart"] /\ g["bStart"] = r["bStart"]
  OBVIOUS
<1>5. \A i \in D : g[i] = r[i]
  <2>. HIDE DEF g, r
  <2>. QED  BY <1>3, <1>4
<1>. HIDE DEF g, r, D
<1>6. g = r
  BY <1>1, <1>2, <1>5
<1>. QED  BY <1>6 DEF g, r

\* A hunk made longer is the hunk that would have been cut so.
LEMMA ExtendIs ==
  ASSUME edits \in Seq(EditSet), NEW f \in Nat, NEW t \in Nat, NEW z \in Nat,
         f <= t, t <= z, z <= Len(edits)
  PROVE  ExtendHunk(NewHunk(f, t), t, z) = NewHunk(f, z)
<1>1. Len(edits) \in Nat
  BY AtIs
<1>2. f \in 0..Len(edits) /\ t \in 0..Len(edits) /\ z \in 0..Len(edits) /\ f <= z
  BY <1>1
<1>3. /\ InA(f, t) = OldAt(t) - OldAt(f) /\ InB(f, t) = NewAt(t) - NewAt(f)
      /\ InA(t, z) = OldAt(z) - OldAt(t) /\ InB(t, z) = NewAt(z) - NewAt(t)
      /\ InA(f, z) = OldAt(z) - OldAt(f) /\ InB(f, z) = NewAt(z) - NewAt(f)
  BY <1>2, AtIs
<1>4. \A i \in {f, t, z} : OldAt(i) \in Nat /\ NewAt(i) \in Nat
  <2>1. \A i \in {f, t, z} : i \in Int
    OBVIOUS
  <2>. QED  BY <2>1, AtIs
<1>5. InA(f, t) + InA(t, z) = InA(f, z) /\ InB(f, t) + InB(t, z) = InB(f, z)
  BY <1>3, <1>4
<1>6. SubSeq(edits, f + 1, t) \o SubSeq(edits, t + 1, z) = SubSeq(edits, f + 1, z)
  <2>1. f + 1 \in 1..Len(edits) + 1 /\ t \in (f + 1) - 1..Len(edits) /\ z \in t..Len(edits)
    BY <1>1
  <2>. QED  BY <2>1, ConcatAdjacentSubSeq
<1>. DEFINE h == NewHunk(f, t)
<1>7. h = [aStart |-> InA(0, f), bStart |-> InB(0, f), aCount |-> InA(f, t), bCount |-> InB(f, t),
           lines |-> SubSeq(edits, f + 1, t)]
  BY DEF NewHunk
<1>8. ExtendHunk(h, t, z) = [h EXCEPT !.aCount = @ + InA(t, z), !.bCount = @ + InB(t, z),
                                      !.lines = @ \o SubSeq(edits, t + 1, z)]
  BY DEF ExtendHunk
<1>. HIDE DEF h
<1>9. ExtendHunk(h, t, z) = [aStart |-> InA(0, f), bStart |-> InB(0, f), aCount |-> InA(f, t) + InA(t, z),
                             bCount |-> InB(f, t) + InB(t, z),
                             lines |-> SubSeq(edits, f + 1, t) \o SubSeq(edits, t + 1, z)]
  BY ONLY <1>7, <1>8, RecordExtended
<1>. QED  BY <1>5, <1>6, <1>9 DEF NewHunk, h

\* The last of a sequence replaced.
LEMMA LastReplaced ==
  ASSUME NEW S, NEW s \in Seq(S), s # <<>>, NEW e \in S
  PROVE  /\ Append(Front(s), e) \in Seq(S) /\ Len(Append(Front(s), e)) = Len(s)
         /\ \A i \in 1..Len(s) : Append(Front(s), e)[i] = IF i = Len(s) THEN e ELSE s[i]
         /\ Last(s) = s[Len(s)] /\ Len(s) \in Nat /\ Len(s) > 0
<1>1. Len(s) \in Nat /\ Len(s) > 0
  BY EmptySeq, LenProperties
<1>. DEFINE l == Len(s)
            p == Front(s)
<1>2. p \in Seq(S) /\ Len(p) = l - 1 /\ \A i \in 1..(l - 1) : p[i] = s[i]
  <2>1. p = SubSeq(s, 1, l - 1)
    BY DEF Front
  <2>2. \A i \in 1..(l - 1) : s[i] \in S
    <3>1. \A i \in 1..(l - 1) : i \in 1..l
      BY <1>1
    <3>. QED  BY <3>1, ElementOfSeq
  <2>3. l - 1 \in Int /\ (l - 1) - 1 + 1 = l - 1 /\ \A i \in 1..(l - 1) : 1 + i - 1 = i
    BY <1>1
  <2>4. /\ p \in Seq(S) /\ Len(p) = IF 1 <= l - 1 THEN (l - 1) - 1 + 1 ELSE 0
        /\ \A i \in 1..((l - 1) - 1 + 1) : p[i] = s[1 + i - 1]
    BY <2>1, <2>2, <2>3, SubSeqProperties
  <2>5. Len(p) = l - 1
    <3>1. l \in Nat /\ l > 0 /\ Len(p) = IF 1 <= l - 1 THEN (l - 1) - 1 + 1 ELSE 0
      BY <1>1, <2>4
    <3>. HIDE DEF p, l
    <3>. QED  BY <3>1
  <2>. QED  BY <2>3, <2>4, <2>5
<1>. HIDE DEF p
<1>3. /\ Append(p, e) \in Seq(S) /\ Len(Append(p, e)) = l
      /\ (\A i \in 1..(l - 1) : Append(p, e)[i] = p[i]) /\ Append(p, e)[l] = e
  <2>1. (l - 1) + 1 = l
    BY <1>1
  <2>. QED  BY <1>2, <2>1, AppendProperties
<1>4. \A i \in 1..l : i = l \/ i \in 1..(l - 1)
  BY <1>1
<1>. QED  BY <1>1, <1>2, <1>3, <1>4 DEF p, Last
\* What is known of the hunks so far and of the changes that follow.
LEMMA RegionStart ==
  ASSUME RegionsInv, Region
  PROVE  /\ edits \in Seq(EditSet) /\ Len(edits) \in Nat /\ d \in Nat /\ Context \in Nat
         /\ NextRegion[1] \in Nat /\ d <= NextRegion[1] /\ Quiet(d, NextRegion[1])
         /\ NextRegion[2] \in Nat /\ NextRegion[1] < NextRegion[2] /\ NextRegion[2] <= Len(edits)
         /\ d' = NextRegion[2] /\ UNCHANGED <<old, new, at, edits>>
         /\ Max({NextRegion[1] - Context, 0}) \in Nat
         /\ Max({NextRegion[1] - Context, 0}) <= NextRegion[1]
         /\ Min({NextRegion[2] + Context, Len(edits)}) =
              IF NextRegion[2] + Context <= Len(edits) THEN NextRegion[2] + Context ELSE Len(edits)
<1>1. edits \in Seq(EditSet) /\ d \in 0..Len(edits) /\ \E i \in (d + 1)..Len(edits) : Changed(i)
  BY DEF RegionsInv, Turns, Region
<1>2. Len(edits) \in Nat /\ d \in Nat /\ Context \in Nat
  BY <1>1, LenProperties, LineDiffAssumption
<1>3. /\ NextRegion[1] \in Nat /\ d <= NextRegion[1] /\ Quiet(d, NextRegion[1])
      /\ NextRegion[2] \in Nat /\ NextRegion[1] < NextRegion[2] /\ NextRegion[2] <= Len(edits)
  BY <1>1, NextRegionIs
<1>4. d' = NextRegion[2] /\ UNCHANGED <<old, new, at, edits>>
  BY DEF Region
<1>. DEFINE a == NextRegion[1]
            b == NextRegion[2]
            N == Len(edits)
<1>. HIDE DEF a, b, N
<1>5. a \in Nat /\ b \in Nat /\ N \in Nat
  BY <1>2, <1>3 DEF a, b, N
<1>6. Max({a - Context, 0}) \in Nat /\ Max({a - Context, 0}) <= a
  BY <1>2, <1>5, MaxOfTwo
<1>7. Min({b + Context, N}) = IF b + Context <= N THEN b + Context ELSE N
  BY <1>2, <1>5, MinOfTwo
<1>. QED  BY <1>1, <1>2, <1>3, <1>4, <1>6, <1>7 DEF a, b, N

LEMMA QuietPart ==
  ASSUME NEW f \in Int, NEW t \in Int, Quiet(f, t), NEW g \in Int, NEW u \in Int, f <= g, u <= t
  PROVE  Quiet(g, u)
<1>1. \A i \in g + 1..u : i \in f + 1..t
  OBVIOUS
<1>. QED  BY <1>1 DEF Quiet

\* The hunks stay cut out of the script, whether the changes make the last one longer or a new one.
LEMMA RegionCuts ==
  ASSUME RegionsInv, Region
  PROVE  \E cuts : CutAt(hunks', cuts) /\ CutTo(d', cuts)
<1>. DEFINE N == Len(edits)
            a == NextRegion[1]
            b == NextRegion[2]
            cStart == Max({a - Context, 0})
            cEnd == Min({b + Context, N})
<1>1. /\ edits \in Seq(EditSet) /\ N \in Nat /\ d \in Nat /\ Context \in Nat
      /\ a \in Nat /\ d <= a /\ Quiet(d, a) /\ b \in Nat /\ a < b /\ b <= N /\ d' = b
      /\ cStart \in Nat /\ cStart <= a
      /\ cEnd = IF b + Context <= N THEN b + Context ELSE N
  BY RegionStart
<1>2. PICK cuts : CutAt(hunks, cuts) /\ CutTo(d, cuts)
  BY DEF RegionsInv
<1>3. /\ hunks' = IF hunks # <<>> /\ cStart <= PrevHunkEditEnd(Last(hunks))
                  THEN Append(Front(hunks), ExtendHunk(Last(hunks), PrevHunkEditEnd(Last(hunks)), cEnd))
                  ELSE Append(hunks, NewHunk(cStart, cEnd))
  BY DEF Region
<1>. HIDE DEF a, b, cStart, cEnd
<1>4. cEnd \in Nat /\ cEnd <= N /\ b <= cEnd /\ cStart < cEnd
  BY <1>1
<1>5. cuts \in Seq(Nat \X Nat) /\ hunks \in Seq(HunkSet) /\ Len(hunks) = Len(cuts)
  BY <1>2 DEF CutAt
<1>. DEFINE l == Len(cuts)
<1>6. l \in Nat /\ (hunks = <<>> <=> l = 0) /\ (cuts = <<>> <=> l = 0)
  BY <1>5, EmptySeq, LenProperties
<1>7. \A i \in 1..l : /\ cuts[i] \in Nat \X Nat
                      /\ cuts[i][1] \in Nat /\ cuts[i][2] \in Nat
                      /\ cuts[i][1] <= cuts[i][2] /\ cuts[i][2] <= N
                      /\ hunks[i] = NewHunk(cuts[i][1], cuts[i][2])
                      /\ i = 1 => Quiet(0, cuts[i][1])
                      /\ i > 1 => cuts[i - 1][2] < cuts[i][1] /\ Quiet(cuts[i - 1][2], cuts[i][1])
  <2>1. \A i \in 1..l : cuts[i] \in Nat \X Nat
    BY <1>5, ElementOfSeq
  <2>. QED  BY <1>2, <2>1 DEF CutAt
<1>8. l > 0 => cuts[l][2] = IF d + Context <= N THEN d + Context ELSE N
  BY <1>2, <1>6 DEF CutTo
<1>9. l = 0 => d = 0
  BY <1>2, <1>6 DEF CutTo
<1>10. CASE hunks # <<>> /\ cStart <= PrevHunkEditEnd(Last(hunks))
  <2>1. l \in 1..l /\ l > 0 /\ hunks # <<>>
    BY <1>6, <1>10
  <2>. DEFINE f == cuts[l][1]
              t == cuts[l][2]
  <2>2. f \in Nat /\ t \in Nat /\ f <= t /\ t <= N /\ hunks[l] = NewHunk(f, t)
    BY <1>7, <2>1
  <2>3. t <= cEnd /\ f <= cEnd
    <3>1. t = IF d + Context <= N THEN d + Context ELSE N
      BY <1>8, <2>1
    <3>. HIDE DEF f, t, N
    <3>. QED  BY <1>1, <2>2, <3>1
  <2>4. Last(hunks) = NewHunk(f, t)
    <3>1. Last(hunks) = hunks[l]
      BY <1>5, <2>1, LastReplaced, <1>6 DEF Last
    <3>. QED  BY <2>2, <3>1
  <2>5. PrevHunkEditEnd(Last(hunks)) = t
    BY <1>1, <2>2, <2>4, PrevEndIs
  <2>6. hunks' = Append(Front(hunks), NewHunk(f, cEnd))
    <3>1. ExtendHunk(NewHunk(f, t), t, cEnd) = NewHunk(f, cEnd)
      BY <1>1, <1>4, <2>2, <2>3, ExtendIs
    <3>. QED  BY <1>3, <1>10, <2>4, <2>5, <3>1
  <2>7. NewHunk(f, cEnd) \in HunkSet
    BY <1>1, <1>4, <2>2, <2>3, HunkIs
  <2>8. /\ hunks' \in Seq(HunkSet) /\ Len(hunks') = l
        /\ \A i \in 1..l : hunks'[i] = IF i = l THEN NewHunk(f, cEnd) ELSE hunks[i]
    BY <1>5, <2>1, <2>6, <2>7, LastReplaced
  <2>. DEFINE made == [cuts EXCEPT ![l] = <<f, cEnd>>]
  <2>9. /\ made \in Seq(Nat \X Nat) /\ Len(made) = l
        /\ \A i \in 1..l : made[i] = IF i = l THEN <<f, cEnd>> ELSE cuts[i]
    <3>1. <<f, cEnd>> \in Nat \X Nat
      BY <1>4, <2>2
    <3>. QED  BY <1>5, <2>1, <3>1, ExceptSeq
  <2>. HIDE DEF made
  <2>10. CutTo(d', made)
    <3>1. made[l][2] = cEnd
      BY <2>1, <2>9
    <3>2. made # <<>>
      BY <2>1, <2>9, EmptySeq
    <3>. QED  BY <1>1, <2>9, <3>1, <3>2 DEF CutTo
  <2>11. ASSUME NEW i \in 1..l
         PROVE  /\ made[i][1] <= made[i][2] /\ made[i][2] <= N
                /\ hunks'[i] = NewHunk(made[i][1], made[i][2])
                /\ i = 1 => Quiet(0, made[i][1])
                /\ i > 1 => made[i - 1][2] < made[i][1] /\ Quiet(made[i - 1][2], made[i][1])
    <3>1. made[i][1] = cuts[i][1]
      BY <2>9
    <3>2. i > 1 => made[i - 1] = cuts[i - 1]
      <4>1. i > 1 => i - 1 \in 1..l /\ i - 1 # l
        BY <1>6
      <4>. QED  BY <2>9, <4>1
    <3>3. made[i][2] = IF i = l THEN cEnd ELSE cuts[i][2]
      BY <2>9
    <3>4. made[i][1] <= made[i][2] /\ made[i][2] <= N
      BY <1>4, <1>7, <2>3, <3>1, <3>3
    <3>5. hunks'[i] = NewHunk(made[i][1], made[i][2])
      BY <1>7, <2>8, <3>1, <3>3
    <3>. QED  BY <1>7, <3>1, <3>2, <3>4, <3>5
  <2>12. CutAt(hunks', made)
    BY <2>8, <2>9, <2>11 DEF CutAt
  <2>. QED  BY <2>10, <2>12
<1>11. CASE ~(hunks # <<>> /\ cStart <= PrevHunkEditEnd(Last(hunks)))
  <2>1. hunks' = Append(hunks, NewHunk(cStart, cEnd))
    BY <1>3, <1>11
  <2>2. NewHunk(cStart, cEnd) \in HunkSet
    BY <1>1, <1>4, HunkIs
  <2>3. /\ hunks' \in Seq(HunkSet) /\ Len(hunks') = l + 1 /\ hunks'[l + 1] = NewHunk(cStart, cEnd)
        /\ \A i \in 1..l : hunks'[i] = hunks[i]
    BY <1>5, <2>1, <2>2, AppendProperties
  <2>. DEFINE made == Append(cuts, <<cStart, cEnd>>)
  <2>4. /\ made \in Seq(Nat \X Nat) /\ Len(made) = l + 1 /\ made[l + 1] = <<cStart, cEnd>>
        /\ \A i \in 1..l : made[i] = cuts[i]
    <3>1. <<cStart, cEnd>> \in Nat \X Nat
      BY <1>1, <1>4
    <3>. QED  BY <1>5, <3>1, AppendProperties
  <2>. HIDE DEF made
  <2>5. CutTo(d', made)
    <3>1. made # <<>>
      BY <1>6, <2>4, EmptySeq
    <3>2. made[Len(made)][2] = cEnd
      BY <2>4
    <3>. QED  BY <1>1, <3>1, <3>2 DEF CutTo
  <2>6. l = 0 => Quiet(0, cStart)
    <3>1. l = 0 => Quiet(0, a)
      BY <1>1, <1>9
    <3>. QED  BY <1>1, <3>1, QuietPart
  <2>7. l > 0 => cuts[l][2] < cStart /\ Quiet(cuts[l][2], cStart)
    <3>. SUFFICES ASSUME l > 0  PROVE cuts[l][2] < cStart /\ Quiet(cuts[l][2], cStart)
      OBVIOUS
    <3>1. l \in 1..l /\ hunks # <<>>
      BY <1>6
    <3>. DEFINE f == cuts[l][1]
                t == cuts[l][2]
    <3>2. f \in Nat /\ t \in Nat /\ f <= t /\ t <= N /\ hunks[l] = NewHunk(f, t)
      BY <1>7, <3>1
    <3>3. Last(hunks) = hunks[l]
      BY <1>5, <3>1, LastReplaced, <1>6 DEF Last
    <3>4. PrevHunkEditEnd(Last(hunks)) = t
      BY <1>1, <3>2, <3>3, PrevEndIs
    <3>5. t < cStart
      <4>1. ~(cStart <= t)
        BY <1>11, <3>1, <3>4
      <4>. HIDE DEF f, t
      <4>. QED  BY <1>1, <3>2, <4>1
    <3>6. d <= t
      <4>1. t = IF d + Context <= N THEN d + Context ELSE N
        BY <1>8
      <4>. HIDE DEF f, t, N
      <4>. QED  BY <1>1, <3>2, <4>1
    <3>7. Quiet(t, cStart)
      <4>. HIDE DEF f, t
      <4>. QED  BY <1>1, <3>2, <3>6, QuietPart
    <3>. QED  BY <3>5, <3>7
  <2>8. ASSUME NEW i \in 1..(l + 1)
        PROVE  /\ made[i][1] <= made[i][2] /\ made[i][2] <= N
               /\ hunks'[i] = NewHunk(made[i][1], made[i][2])
               /\ i = 1 => Quiet(0, made[i][1])
               /\ i > 1 => made[i - 1][2] < made[i][1] /\ Quiet(made[i - 1][2], made[i][1])
    <3>1. CASE i = l + 1
      <4>1. made[i] = <<cStart, cEnd>> /\ hunks'[i] = NewHunk(cStart, cEnd)
        BY <2>3, <2>4, <3>1
      <4>2. i > 1 => made[i - 1] = cuts[l] /\ l > 0
        <5>1. i > 1 => l \in 1..l /\ i - 1 = l
          BY <1>6, <3>1
        <5>. QED  BY <2>4, <5>1
      <4>3. i = 1 => l = 0
        BY <1>6, <3>1
      <4>. QED  BY <1>1, <1>4, <2>6, <2>7, <4>1, <4>2, <4>3
    <3>2. CASE i # l + 1
      <4>1. i \in 1..l /\ (i > 1 => i - 1 \in 1..l)
        BY <1>6, <3>2
      <4>. QED  BY <1>7, <2>3, <2>4, <4>1
    <3>. QED  BY <3>1, <3>2
  <2>9. CutAt(hunks', made)
    BY <2>3, <2>4, <2>8, <1>5 DEF CutAt
  <2>. QED  BY <2>5, <2>9
<1>. QED  BY <1>10, <1>11

LEMMA RegionKeeps ==
  ASSUME Files, RegionsInv, Region
  PROVE  RegionsInv' /\ at' = "regions"
<1>1. /\ edits \in Seq(EditSet) /\ Len(edits) \in Nat
      /\ NextRegion[2] \in Nat /\ NextRegion[2] <= Len(edits)
      /\ d' = NextRegion[2] /\ UNCHANGED <<old, new, at, edits>>
  BY RegionStart
<1>2. n' = n /\ m' = m /\ Common' = Common
  BY <1>1 DEF n, m, Common, Matches
<1>3. Turns(edits, 0, 0, n, m, n + m - 2 * Common)'
  BY <1>1, <1>2 DEF RegionsInv, Turns, Spelled, Own, EditSet
<1>4. (d \in 0..Len(edits))'
  BY <1>1
<1>5. PICK cuts : CutAt(hunks', cuts) /\ CutTo(d', cuts)
  BY RegionCuts
<1>6. CutAt(hunks, cuts)' /\ CutTo(d, cuts)'
  BY <1>1, <1>5 DEF CutAt, CutTo, NewHunk, InA, InB, Quiet, Changed, HunkSet, EditSet
<1>7. (\E c : CutAt(hunks, c) /\ CutTo(d, c))'
  BY <1>6
<1>. QED  BY <1>1, <1>3, <1>4, <1>7 DEF RegionsInv, Region
-----------------------------------------------------------------------------
(* The hunks apply *)

\* At the end of the script are the ends of the files.
LEMMA ScriptEnds ==
  ASSUME Files, Turns(edits, 0, 0, n, m, Cardinality(Own(edits, Equal)))
  PROVE  OldAt(Len(edits)) = n /\ NewAt(Len(edits)) = m
<1>. DEFINE A == Own(edits, Insert)
            B == Own(edits, Delete)
            N == Len(edits)
<1>1. n \in Nat /\ m \in Nat
  BY FileLengths
<1>2. edits \in Seq(EditSet) /\ Cardinality(A) = n - 0 /\ Cardinality(B) = m - 0
  BY DEF Turns, Spelled
<1>3. N \in Nat /\ A \in SUBSET (1..N) /\ B \in SUBSET (1..N)
  BY <1>2, OwnIs
<1>4. N \in Int /\ N >= N
  BY <1>3
<1>5. Rank(A, N) = Cardinality(A) /\ Rank(B, N) = Cardinality(B)
  <2>. HIDE DEF A, B, N
  <2>. QED  BY <1>3, <1>4, RankEnds
<1>. QED  BY <1>1, <1>2, <1>5 DEF OldAt, NewAt

\* A hunk finds its old lines and its new lines where it says.
LEMMA HunkSpells ==
  ASSUME Files, Turns(edits, 0, 0, n, m, Cardinality(Own(edits, Equal))),
         NEW f \in Nat, NEW t \in Nat, f <= t, t <= Len(edits)
  PROVE  LET h == NewHunk(f, t)
         IN /\ h.aStart = OldAt(f) /\ h.aStart + h.aCount = OldAt(t)
            /\ h.bStart = NewAt(f) /\ h.bStart + h.bCount = NewAt(t)
            /\ SpellsWithout(h.lines, Insert, SubSeq(old, h.aStart + 1, h.aStart + h.aCount))
            /\ SpellsWithout(h.lines, Delete, SubSeq(new, h.bStart + 1, h.bStart + h.bCount))
<1>. DEFINE h == NewHunk(f, t)
<1>1. edits \in Seq(EditSet) /\ Spelled(edits, Insert, old, 0, n) /\ Spelled(edits, Delete, new, 0, m)
  BY DEF Turns
<1>2. /\ h.aStart = OldAt(f) /\ h.aCount = OldAt(t) - OldAt(f)
      /\ h.bStart = NewAt(f) /\ h.bCount = NewAt(t) - NewAt(f)
      /\ h.lines = SubSeq(edits, f + 1, t)
  BY <1>1, HunkIs
<1>3. OldAt(f) \in Nat /\ NewAt(f) \in Nat /\ OldAt(t) \in Nat /\ NewAt(t) \in Nat
  <2>1. f \in Int /\ t \in Int
    OBVIOUS
  <2>. QED  BY <1>1, <2>1, AtIs
<1>4. SpellsWithout(SubSeq(edits, f + 1, t), Insert, SubSeq(old, OldAt(f) + 1, OldAt(t)))
  BY <1>1, PartSpells DEF Files, n, OldAt
<1>5. SpellsWithout(SubSeq(edits, f + 1, t), Delete, SubSeq(new, NewAt(f) + 1, NewAt(t)))
  BY <1>1, PartSpells DEF Files, m, NewAt
<1>. HIDE DEF h
<1>6. h.aStart + h.aCount = OldAt(t) /\ h.bStart + h.bCount = NewAt(t)
  BY <1>2, <1>3
<1>7. /\ h.aStart = OldAt(f) /\ h.aStart + h.aCount = OldAt(t)
      /\ h.bStart = NewAt(f) /\ h.bStart + h.bCount = NewAt(t)
      /\ SpellsWithout(h.lines, Insert, SubSeq(old, h.aStart + 1, h.aStart + h.aCount))
      /\ SpellsWithout(h.lines, Delete, SubSeq(new, h.bStart + 1, h.bStart + h.bCount))
  BY <1>2, <1>4, <1>5, <1>6
<1>. QED  BY <1>7 DEF h

\* Hunks cut out of a script turn the old file into the new one when no change is left behind them.
LEMMA CutsApply ==
  ASSUME Files, Turns(edits, 0, 0, n, m, Cardinality(Own(edits, Equal))),
         NEW cuts, CutAt(hunks, cuts), CutTo(d, cuts), d \in 0..Len(edits), Quiet(d, Len(edits))
  PROVE  Patched
<1>. DEFINE N == Len(edits)
            l == Len(cuts)
            End(i) == IF i = 0 THEN 0 ELSE cuts[i][2]
            Next(i) == IF i = l THEN N ELSE cuts[i + 1][1]
            aEnd(i) == IF i = 0 THEN 0 ELSE hunks[i].aStart + hunks[i].aCount
            bEnd(i) == IF i = 0 THEN 0 ELSE hunks[i].bStart + hunks[i].bCount
            aNext(i) == IF i = Len(hunks) THEN n ELSE hunks[i + 1].aStart
            bNext(i) == IF i = Len(hunks) THEN m ELSE hunks[i + 1].bStart
<1>1. edits \in Seq(EditSet) /\ N \in Nat /\ OldAt(0) = 0 /\ NewAt(0) = 0 /\ Context \in Nat
  BY AtIs, LineDiffAssumption DEF Turns
<1>2. OldAt(N) = n /\ NewAt(N) = m
  BY ScriptEnds
<1>3. cuts \in Seq(Nat \X Nat) /\ hunks \in Seq(HunkSet) /\ Len(hunks) = l /\ l \in Nat
  BY LenProperties DEF CutAt
<1>4. \A i \in 1..l : /\ cuts[i][1] \in Nat /\ cuts[i][2] \in Nat
                      /\ cuts[i][1] <= cuts[i][2] /\ cuts[i][2] <= N
                      /\ hunks[i] = NewHunk(cuts[i][1], cuts[i][2])
                      /\ i = 1 => Quiet(0, cuts[i][1])
                      /\ i > 1 => cuts[i - 1][2] < cuts[i][1] /\ Quiet(cuts[i - 1][2], cuts[i][1])
  <2>1. \A i \in 1..l : cuts[i] \in Nat \X Nat
    BY <1>3, ElementOfSeq
  <2>. QED  BY <2>1 DEF CutAt
<1>5. /\ l = 0 => d = 0
      /\ l > 0 => cuts[l][2] = IF d + Context <= N THEN d + Context ELSE N
  BY <1>3, EmptySeq DEF CutTo
<1>6. \A i \in 1..l : /\ hunks[i].aStart = OldAt(cuts[i][1]) /\ aEnd(i) = OldAt(cuts[i][2])
                      /\ hunks[i].bStart = NewAt(cuts[i][1]) /\ bEnd(i) = NewAt(cuts[i][2])
                      /\ SpellsWithout(hunks[i].lines, Insert, SubSeq(old, hunks[i].aStart + 1, aEnd(i)))
                      /\ SpellsWithout(hunks[i].lines, Delete, SubSeq(new, hunks[i].bStart + 1, bEnd(i)))
  <2>. TAKE i \in 1..l
  <2>1. i # 0
    BY <1>3
  <2>. QED  BY <1>4, <2>1, HunkSpells
<1>7. \A i \in 0..l : /\ End(i) \in Nat /\ Next(i) \in Nat /\ End(i) <= Next(i) /\ Next(i) <= N
                      /\ Quiet(End(i), Next(i))
                      /\ i > 0 /\ i < l => End(i) < Next(i)
  <2>. TAKE i \in 0..l
  <2>1. i \in Int /\ (i = 0 \/ i \in 1..l) /\ (i = l \/ i + 1 \in 1..l) /\ (i + 1) - 1 = i
    BY <1>3
  <2>2. End(i) \in Nat /\ End(i) <= N
    BY <1>1, <1>4, <2>1
  <2>3. CASE i # l
    <3>1. i + 1 \in 1..l /\ Next(i) = cuts[i + 1][1]
      BY <2>1, <2>3
    <3>2. Next(i) \in Nat /\ Next(i) <= N
      <4>1. cuts[i + 1][1] \in Nat /\ cuts[i + 1][2] \in Nat /\ cuts[i + 1][1] <= cuts[i + 1][2] /\ cuts[i + 1][2] <= N
        BY <1>4, <3>1
      <4>. QED  BY <1>1, <3>1, <4>1
    <3>3. CASE i = 0
      <4>1. Quiet(0, cuts[1][1]) /\ Next(0) = cuts[1][1] /\ End(0) = 0
        BY <1>4, <3>1, <3>3
      <4>. QED  BY <2>2, <3>2, <3>3, <4>1
    <3>4. CASE i # 0
      <4>1. i + 1 > 1 /\ End(i) = cuts[i][2]
        BY <2>1, <3>4
      <4>2. cuts[i][2] < cuts[i + 1][1] /\ Quiet(cuts[i][2], cuts[i + 1][1])
        BY <1>4, <2>1, <3>1, <4>1
      <4>. HIDE DEF End, Next
      <4>. QED  BY <2>2, <3>1, <3>2, <4>1, <4>2
    <3>. QED  BY <3>3, <3>4
  <2>4. CASE i = l
    <3>1. Next(i) = N /\ ~(i < l)
      BY <1>3, <2>4
    <3>2. d <= End(i)
      <4>1. CASE i = 0
        BY <1>5, <2>4, <4>1
      <4>2. CASE i # 0
        <5>1. l > 0 /\ End(i) = cuts[l][2]
          BY <2>1, <2>4, <4>2
        <5>. HIDE DEF End
        <5>. QED  BY <1>1, <1>5, <2>2, <5>1
      <4>. QED  BY <4>1, <4>2
    <3>3. Quiet(End(i), N)
      <4>. HIDE DEF End
      <4>. QED  BY <1>1, <2>2, <3>2, QuietPart
    <3>. QED  BY <1>1, <2>2, <3>1, <3>3
  <2>. QED  BY <2>3, <2>4
<1>8. \A i \in 0..l : /\ aEnd(i) = OldAt(End(i)) /\ bEnd(i) = NewAt(End(i))
                      /\ aNext(i) = OldAt(Next(i)) /\ bNext(i) = NewAt(Next(i))
  <2>. TAKE i \in 0..l
  <2>1. (i = 0 \/ i \in 1..l) /\ (i = l \/ i + 1 \in 1..l)
    BY <1>3
  <2>2. aEnd(i) = OldAt(End(i)) /\ bEnd(i) = NewAt(End(i))
    BY <1>1, <1>6, <2>1
  <2>3. aNext(i) = OldAt(Next(i)) /\ bNext(i) = NewAt(Next(i))
    <3>1. CASE i = l
      BY <1>2, <1>3, <3>1
    <3>2. CASE i # l
      <4>1. i + 1 \in 1..l /\ i # Len(hunks)
        BY <1>3, <2>1, <3>2
      <4>2. aNext(i) = hunks[i + 1].aStart /\ bNext(i) = hunks[i + 1].bStart /\ Next(i) = cuts[i + 1][1]
        BY <3>2, <4>1
      <4>3. hunks[i + 1].aStart = OldAt(cuts[i + 1][1]) /\ hunks[i + 1].bStart = NewAt(cuts[i + 1][1])
        BY <1>6, <4>1
      <4>. QED  BY <4>2, <4>3
    <3>. QED  BY <3>1, <3>2
  <2>. QED  BY <2>2, <2>3
<1>. HIDE DEF End, Next
<1>9. \A i \in 0..l : /\ SubSeq(old, OldAt(End(i)) + 1, OldAt(Next(i))) = SubSeq(new, NewAt(End(i)) + 1, NewAt(Next(i)))
                      /\ OldAt(Next(i)) = OldAt(End(i)) + (Next(i) - End(i))
                      /\ NewAt(Next(i)) = NewAt(End(i)) + (Next(i) - End(i))
  <2>. TAKE i \in 0..l
  <2>. DEFINE f == End(i)
              t == Next(i)
  <2>1. f \in Nat /\ t \in Nat /\ f <= t /\ t <= Len(edits) /\ Quiet(f, t)
    BY <1>7
  <2>. HIDE DEF f, t
  <2>2. /\ SubSeq(old, OldAt(f) + 1, OldAt(t)) = SubSeq(new, NewAt(f) + 1, NewAt(t))
        /\ OldAt(t) = OldAt(f) + (t - f) /\ NewAt(t) = NewAt(f) + (t - f)
    BY <2>1, QuietIsEqual
  <2>. QED  BY <2>2 DEF f, t
<1>10. \A i \in 1..l : i > 1 => aEnd(i - 1) < hunks[i].aStart /\ bEnd(i - 1) < hunks[i].bStart
  <2>. TAKE i \in 1..l
  <2>. HAVE i > 1
  <2>. DEFINE j == i - 1
  <2>1. j \in 0..l /\ j > 0 /\ j < l /\ j + 1 = i /\ j # Len(hunks)
    BY <1>3
  <2>2. aNext(j) = hunks[i].aStart /\ bNext(j) = hunks[i].bStart
    BY <2>1
  <2>. DEFINE x == End(j)
              y == Next(j)
  <2>3. x \in Nat /\ y \in Nat /\ x < y
    BY <1>7, <2>1
  <2>4. OldAt(x) \in Nat /\ NewAt(x) \in Nat /\ OldAt(y) = OldAt(x) + (y - x) /\ NewAt(y) = NewAt(x) + (y - x)
    <3>1. x \in Int
      BY <2>3
    <3>2. OldAt(x) \in Nat /\ NewAt(x) \in Nat
      <4>. HIDE DEF x
      <4>. QED  BY <1>1, <3>1, AtIs
    <3>. QED  BY <1>9, <2>1, <3>2
  <2>5. aEnd(j) = OldAt(x) /\ bEnd(j) = NewAt(x) /\ aNext(j) = OldAt(y) /\ bNext(j) = NewAt(y)
    BY <1>8, <2>1
  <2>. HIDE DEF aEnd, bEnd, aNext, bNext, x, y
  <2>6. aEnd(j) < aNext(j) /\ bEnd(j) < bNext(j)
    <3>. HIDE DEF j
    <3>. QED  BY <2>3, <2>4, <2>5
  <2>. QED  BY <2>2, <2>6
<1>11. \A i \in 0..l : SubSeq(old, aEnd(i) + 1, aNext(i)) = SubSeq(new, bEnd(i) + 1, bNext(i))
  <2>. HIDE DEF aEnd, bEnd, aNext, bNext
  <2>. QED  BY <1>8, <1>9
<1>12. DOMAIN hunks = 1..l
  BY <1>3, LenProperties
<1>. QED  BY <1>3, <1>6, <1>10, <1>11, <1>12 DEF Patched

LEMMA RegionsEndKeeps ==
  ASSUME Files, RegionsInv, RegionsEnd
  PROVE  RegionsInv' /\ Patched' /\ at' = "done"
<1>1. at' = "done" /\ UNCHANGED <<old, new, d, edits, hunks>>
  BY DEF RegionsEnd
<1>2. n' = n /\ m' = m /\ Common' = Common
  BY <1>1 DEF n, m, Common, Matches
<1>3. RegionsInv'
  <2>1. Turns(edits, 0, 0, n, m, n + m - 2 * Common)'
    BY <1>1, <1>2 DEF RegionsInv, Turns, Spelled, Own, EditSet
  <2>2. PICK cuts : CutAt(hunks, cuts) /\ CutTo(d, cuts)
    BY DEF RegionsInv
  <2>3. CutAt(hunks, cuts)' /\ CutTo(d, cuts)'
    BY <1>1, <2>2 DEF CutAt, CutTo, NewHunk, InA, InB, Quiet, Changed, HunkSet, EditSet
  <2>4. (\E c : CutAt(hunks, c) /\ CutTo(d, c))'
    BY <2>3
  <2>5. (d \in 0..Len(edits))'
    BY <1>1 DEF RegionsInv
  <2>. QED  BY <2>1, <2>4, <2>5 DEF RegionsInv
<1>4. Turns(edits, 0, 0, n, m, Cardinality(Own(edits, Equal)))
  BY DEF RegionsInv, Turns
<1>5. Quiet(d, Len(edits))
  BY DEF RegionsEnd, Quiet
<1>6. Patched
  <2>1. PICK cuts : CutAt(hunks, cuts) /\ CutTo(d, cuts)
    BY DEF RegionsInv
  <2>2. d \in 0..Len(edits)
    BY DEF RegionsInv
  <2>. QED  BY <1>4, <1>5, <2>1, <2>2, CutsApply
<1>7. Patched'
  BY <1>1, <1>2, <1>6 DEF Patched
<1>. QED  BY <1>1, <1>3, <1>7
-----------------------------------------------------------------------------
(* The invariance *)

LEMMA StutterKeeps ==
  ASSUME DiffIInv, UNCHANGED diffVars
  PROVE  DiffIInv'
<1>1. UNCHANGED <<old, new, at, d, v, trace, pos, edits, hunks>>
  BY DEF diffVars
<1>2. n' = n /\ m' = m /\ Common' = Common /\ Vectors' = Vectors /\ Diagonals' = Diagonals
  BY <1>1 DEF n, m, Common, Matches, Vectors, Diagonals
<1>3. FilesBounded'
  BY <1>1 DEF DiffIInv, FilesBounded
<1>4. Searched(Vectors) => Searched(Vectors)'
  <2>1. \A w, i, r : FarOf(w, i, r) = FarOf(w, i, r)'
    BY <1>1, <1>2 DEF FarOf, StartOf, Down, Snake
  <2>. QED  BY <1>2, <2>1 DEF Searched, OnRound
<1>5. \A r : ReachedIn(Vectors, r) <=> ReachedIn(Vectors, r)'
  BY <1>2 DEF ReachedIn, Far
<1>6. \A x, y, c : Turns(edits, x, y, n, m, c) <=> Turns(edits, x, y, n, m, c)'
  BY <1>1, <1>2 DEF Turns, Spelled, Own, EditSet
<1>7. ASSUME at = "forward"  PROVE ForwardInv'
  <2>1. ForwardInv
    BY <1>7 DEF DiffIInv
  <2>. QED  BY <1>1, <1>2, <1>4, <1>5, <2>1 DEF ForwardInv
<1>8. ASSUME at = "back"  PROVE BackInv'
  <2>1. BackInv
    BY <1>8 DEF DiffIInv
  <2>2. (pos[1] - pos[2] \in OnRound(d) /\ Far(Vectors, d, pos[1] - pos[2]) = pos[1])'
    BY <1>1, <1>2, <2>1 DEF BackInv, OnRound, Far
  <2>3. Turns(edits, pos[1], pos[2], n, m, (Len(trace) - 1) - d)'
    BY <1>1, <1>2, <1>6, <2>1 DEF BackInv
  <2>. QED  BY <1>1, <1>2, <1>4, <1>5, <2>1, <2>2, <2>3 DEF BackInv
<1>9. ASSUME at \in {"regions", "done"}  PROVE RegionsInv'
  <2>1. RegionsInv
    BY <1>9 DEF DiffIInv
  <2>2. Turns(edits, 0, 0, n, m, n + m - 2 * Common)'
    BY <1>1, <1>2, <1>6, <2>1 DEF RegionsInv
  <2>3. PICK cuts : CutAt(hunks, cuts) /\ CutTo(d, cuts)
    BY <2>1 DEF RegionsInv
  <2>4. CutAt(hunks, cuts)' /\ CutTo(d, cuts)'
    BY <1>1, <2>3 DEF CutAt, CutTo, NewHunk, InA, InB, Quiet, Changed, HunkSet, EditSet
  <2>5. (\E c : CutAt(hunks, c) /\ CutTo(d, c))'
    BY <2>4
  <2>6. (d \in 0..Len(edits))'
    BY <1>1, <2>1 DEF RegionsInv
  <2>. QED  BY <2>2, <2>5, <2>6 DEF RegionsInv
<1>10. ASSUME at = "done"  PROVE Patched'
  <2>1. Patched
    BY <1>10 DEF DiffIInv
  <2>. QED  BY <1>1, <1>2, <2>1 DEF Patched
<1>11. at' \in {"forward", "back", "regions", "done"}
  BY <1>1 DEF DiffIInv
<1>. QED  BY <1>1, <1>3, <1>7, <1>8, <1>9, <1>10, <1>11 DEF DiffIInv

LEMMA DiffStepKeeps ==
  ASSUME DiffIInv, [DiffNext]_diffVars
  PROVE  DiffIInv'
<1>1. FilesBounded /\ Files
  BY BoundedFiles DEF DiffIInv
<1>2. CASE UNCHANGED diffVars
  BY <1>2, StutterKeeps
<1>3. ASSUME DiffNext  PROVE FilesBounded'
  <2>1. old' = old /\ new' = new
    BY <1>3 DEF DiffNext, MyersDiff, BuildHunks, Round, Back, BackEnds, Region, RegionsEnd
  <2>. QED  BY <1>1, <2>1 DEF FilesBounded
<1>4. CASE Round
  <2>1. FilesBounded'
    BY <1>3, <1>4 DEF DiffNext, MyersDiff
  <2>2. ForwardInv
    BY <1>4 DEF DiffIInv, Round
  <2>3. /\ at' = "forward" => ForwardInv'
        /\ at' = "back" => BackInv'
        /\ at' \in {"forward", "back"}
    BY <1>1, <1>4, <2>2, RoundKeeps
  <2>. QED  BY <2>1, <2>3 DEF DiffIInv
<1>5. CASE Back
  <2>1. FilesBounded'
    BY <1>3, <1>5 DEF DiffNext, MyersDiff
  <2>2. at = "back" /\ BackInv
    BY <1>5 DEF DiffIInv, Back
  <2>3. BackInv' /\ at' = "back"
    BY <1>1, <1>5, <2>2, BackKeeps
  <2>. QED  BY <2>1, <2>3 DEF DiffIInv
<1>6. CASE BackEnds
  <2>1. FilesBounded'
    BY <1>3, <1>6 DEF DiffNext, MyersDiff
  <2>2. BackInv
    BY <1>6 DEF DiffIInv, BackEnds
  <2>3. RegionsInv' /\ at' = "regions"
    BY <1>1, <1>6, <2>2, BackEndsKeeps
  <2>. QED  BY <2>1, <2>3 DEF DiffIInv
<1>7. CASE Region
  <2>1. FilesBounded'
    BY <1>3, <1>7 DEF DiffNext, BuildHunks
  <2>2. RegionsInv
    BY <1>7 DEF DiffIInv, Region
  <2>3. RegionsInv' /\ at' = "regions"
    BY <1>1, <1>7, <2>2, RegionKeeps
  <2>. QED  BY <2>1, <2>3 DEF DiffIInv
<1>8. CASE RegionsEnd
  <2>1. FilesBounded'
    BY <1>3, <1>8 DEF DiffNext, BuildHunks
  <2>2. RegionsInv
    BY <1>8 DEF DiffIInv, RegionsEnd
  <2>3. RegionsInv' /\ Patched' /\ at' = "done"
    BY <1>1, <1>8, <2>2, RegionsEndKeeps
  <2>. QED  BY <2>1, <2>3 DEF DiffIInv
<1>. QED  BY <1>2, <1>4, <1>5, <1>6, <1>7, <1>8 DEF DiffNext, MyersDiff, BuildHunks

-----------------------------------------------------------------------------
(* The invariant *)

\* Every line of a hunk is counted in one of the files.
LEMMA HunkLines ==
  ASSUME edits \in Seq(EditSet), NEW f \in Nat, NEW t \in Nat, f <= t, t <= Len(edits)
  PROVE  Len(NewHunk(f, t).lines) <= NewHunk(f, t).aCount + NewHunk(f, t).bCount
<1>. DEFINE a == {i \in f + 1..t : edits[i].op # Insert}
            b == {i \in f + 1..t : edits[i].op # Delete}
<1>1. IsFiniteSet(f + 1..t) /\ Cardinality(f + 1..t) = t - f
  <2>1. /\ IsFiniteSet(f + 1..t)
        /\ Cardinality(f + 1..t) = IF f + 1 > t THEN 0 ELSE t - (f + 1) + 1
    BY FS_Interval
  <2>. QED  BY <2>1
<1>2. a \cup b = f + 1..t
  BY DEF Insert, Delete
<1>3. IsFiniteSet(a) /\ IsFiniteSet(b)
  <2>1. a \in SUBSET (f + 1..t) /\ b \in SUBSET (f + 1..t)
    OBVIOUS
  <2>. HIDE DEF a, b
  <2>. QED  BY <1>1, <2>1, FS_Subset
<1>4. IsFiniteSet(a \cap b)
  BY <1>3, FS_Intersection
<1>. HIDE DEF a, b
<1>5. Cardinality(a \cup b) = Cardinality(a) + Cardinality(b) - Cardinality(a \cap b)
  BY <1>3, FS_Union
<1>6. Cardinality(a) \in Nat /\ Cardinality(b) \in Nat /\ Cardinality(a \cap b) \in Nat
  BY <1>3, <1>4, FS_CardinalityType
<1>7. t - f <= Cardinality(a) + Cardinality(b)
  <2>. DEFINE x == Cardinality(a)
              y == Cardinality(b)
              z == Cardinality(a \cap b)
  <2>1. x \in Nat /\ y \in Nat /\ z \in Nat /\ t - f = x + y - z
    BY <1>1, <1>2, <1>5, <1>6
  <2>. HIDE DEF x, y, z
  <2>2. t - f <= x + y
    BY <2>1
  <2>. QED  BY <2>2 DEF x, y
<1>8. Len(SubSeq(edits, f + 1, t)) = t - f
  <2>1. \A i \in f + 1..t : edits[i] \in EditSet
    <3>1. \A i \in f + 1..t : i \in 1..Len(edits)
      BY AtIs
    <3>. QED  BY <3>1, ElementOfSeq
  <2>2. f + 1 \in Int /\ t \in Int
    OBVIOUS
  <2>3. Len(SubSeq(edits, f + 1, t)) = IF f + 1 <= t THEN t - (f + 1) + 1 ELSE 0
    BY <2>1, <2>2, SubSeqProperties
  <2>. QED  BY <2>3
<1>. QED  BY <1>7, <1>8 DEF NewHunk, InA, InB, a, b

LEMMA EditsTyped ==
  ASSUME edits \in Seq(EditSet)
  PROVE  \A i \in DOMAIN edits : edits[i].op \in {Equal, Delete, Insert} /\ edits[i].line \in Lines
<1>1. \A i \in DOMAIN edits : edits[i] \in EditSet
  BY LenProperties, ElementOfSeq
<1>. QED  BY <1>1 DEF EditSet

LEMMA DiffIInvIsEnough ==
  ASSUME DiffIInv
  PROVE  DiffInv
<1>1. FilesBounded /\ Files
  BY BoundedFiles DEF DiffIInv
<1>2. edits \in Seq(EditSet)
  <2>1. CASE at = "forward"
    <3>1. edits = <<>>
      BY <2>1 DEF DiffIInv, ForwardInv
    <3>. QED  BY <3>1, EmptySeq
  <2>2. CASE at = "back"
    BY <2>2 DEF DiffIInv, BackInv, Turns
  <2>3. CASE at \in {"regions", "done"}
    BY <2>3 DEF DiffIInv, RegionsInv, Turns
  <2>. QED  BY <2>1, <2>2, <2>3 DEF DiffIInv
<1>3. \A i \in DOMAIN hunks : Len(hunks[i].lines) <= hunks[i].aCount + hunks[i].bCount
  <2>1. CASE at \in {"forward", "back"}
    <3>1. hunks = <<>>
      BY <2>1 DEF DiffIInv, ForwardInv, BackInv
    <3>2. DOMAIN <<>> = {}
      OBVIOUS
    <3>. QED  BY <3>1, <3>2
  <2>2. CASE at \in {"regions", "done"}
    <3>1. PICK cuts : CutAt(hunks, cuts)
      BY <2>2 DEF DiffIInv, RegionsInv
    <3>. TAKE i \in DOMAIN hunks
    <3>2. cuts \in Seq(Nat \X Nat) /\ i \in 1..Len(cuts)
      BY <3>1, LenProperties DEF CutAt
    <3>3. cuts[i] \in Nat \X Nat
      BY <3>2, ElementOfSeq
    <3>. DEFINE f == cuts[i][1]
                t == cuts[i][2]
    <3>4. f \in Nat /\ t \in Nat /\ f <= t /\ t <= Len(edits) /\ hunks[i] = NewHunk(f, t)
      BY <3>1, <3>2, <3>3 DEF CutAt
    <3>. HIDE DEF f, t
    <3>. QED  BY <1>2, <3>4, HunkLines
  <2>. QED  BY <2>1, <2>2 DEF DiffIInv
<1>4. LineDiffTypeOK
  <2>1. \A i \in DOMAIN edits : edits[i].op \in {Equal, Delete, Insert} /\ edits[i].line \in Lines
    BY <1>2, EditsTyped
  <2>2. {old, new} \subseteq BoundedSeq(Lines, MaxLen)
    BY <1>1 DEF FilesBounded
  <2>3. at \in {"forward", "back", "regions", "done"}
    BY DEF DiffIInv
  <2>. QED  BY <1>3, <2>1, <2>2, <2>3 DEF LineDiffTypeOK
<1>5. ShortestScript
  <2>. SUFFICES ASSUME at \in {"regions", "done"}
                PROVE  /\ SpellsWithout(edits, Insert, old) /\ SpellsWithout(edits, Delete, new)
                       /\ Cardinality({i \in DOMAIN edits : Changed(i)}) = n + m - 2 * Common
    BY DEF ShortestScript
  <2>1. Turns(edits, 0, 0, n, m, n + m - 2 * Common)
    BY DEF DiffIInv, RegionsInv
  <2>2. {i \in DOMAIN edits : Changed(i)} = Own(edits, Equal)
    BY DEF Own, Changed
  <2>3. Cardinality({i \in DOMAIN edits : Changed(i)}) = n + m - 2 * Common
    BY <2>1, <2>2 DEF Turns
  <2>4. ASSUME NEW op, NEW text \in Seq(Lines), Spelled(edits, op, text, 0, Len(text))
        PROVE  SpellsWithout(edits, op, text)
    <3>. DEFINE S == Own(edits, op)
    <3>1. Len(text) \in Nat /\ Cardinality(S) = Len(text) - 0 /\ \A i \in S : edits[i].line = text[0 + Rank(S, i)]
      BY <2>4, LenProperties DEF Spelled
    <3>2. \A i \in S : Rank(S, i) \in Nat
      <4>1. Len(edits) \in Nat /\ S \in SUBSET (1..Len(edits))
        BY <1>2, OwnIs
      <4>2. \A i \in S : i \in Int
        BY <4>1
      <4>. HIDE DEF S
      <4>. QED  BY <4>1, <4>2, RankType
    <3>3. Cardinality(S) = Len(text) /\ \A i \in S : edits[i].line = text[Rank(S, i)]
      <4>. HIDE DEF S
      <4>. QED  BY <3>1, <3>2
    <3>. QED  BY <3>3 DEF SpellsWithout, Own
  <2>5. SpellsWithout(edits, Insert, old) /\ SpellsWithout(edits, Delete, new)
    BY <1>1, <2>1, <2>4 DEF Turns, Files, n, m
  <2>. QED  BY <2>3, <2>5
<1>6. HunksApply
  BY DEF DiffIInv, HunksApply
<1>. QED  BY <1>4, <1>5, <1>6 DEF DiffInv

\* The script myersDiff finds turns the old file into the new one with as few changed lines as
\* there can be, and the hunks buildHunks cuts out of it turn the old file into the new one by
\* their line numbers (tools/edit-file/main.go unifiedDiff).
THEOREM DiffIsShortest == DiffSpec => []DiffInv
<1>1. DiffInit => DiffIInv
  BY InitHolds
<1>2. DiffIInv /\ [DiffNext]_diffVars => DiffIInv'
  BY DiffStepKeeps
<1>3. DiffIInv => DiffInv
  BY DiffIInvIsEnough
<1>. QED  BY <1>1, <1>2, <1>3, PTL DEF DiffSpec
=============================================================================
