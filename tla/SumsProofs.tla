----------------------------- MODULE SumsProofs -----------------------------
(***************************************************************************)
(* The laws of SumOver.  Each is an induction on the number of rows.  The  *)
(* induction principle is derived here in a first-order form (a set that   *)
(* holds 0 and is closed under successor is Nat) from the well-foundedness *)
(* of strict inclusion on finite sets.                                     *)
(***************************************************************************)
EXTENDS Sums, FiniteSets, FiniteSetTheorems, SequenceTheorems, WellFoundedInduction, TLAPS

(* A set of naturals that holds 0 and is closed under successor is Nat. *)
LEMMA InductionBySet ==
    ASSUME NEW S \in SUBSET Nat, 0 \in S, \A n \in Nat : n \in S => n + 1 \in S
    PROVE  S = Nat
  <1> DEFINE T == {1..n : n \in Nat \ S}
             R == StrictSubsetOrdering(Nat)
             F == FiniteSubsetsOf(Nat)
  <1>1. SUFFICES ASSUME T # {} PROVE FALSE
    BY Zenon
  <1>2. T \subseteq F
    <2> SUFFICES ASSUME NEW n \in Nat PROVE 1..n \in F
      OBVIOUS
    <2>1. IsFiniteSet(1..n)
      BY FS_Interval
    <2>2. 1..n \subseteq Nat
      OBVIOUS
    <2> QED BY <2>1, <2>2 DEF FiniteSubsetsOf
  <1>3. IsWellFoundedOn(R, F)
    BY FS_StrictSubsetOrderingWellFounded
  <1>4. PICK x \in T : \A y \in T : ~ (<<y, x>> \in R)
    <2> HIDE DEF T, R, F
    <2> QED BY <1>1, <1>2, <1>3, WFMin
  <1>5. PICK n \in Nat \ S : x = 1..n
    BY <1>4
  <1>6. n # 0 /\ n - 1 \in Nat
    BY <1>5
  <1>7. n - 1 \notin S
    BY <1>5, <1>6
  <1>8. 1..(n - 1) \in T
    BY <1>6, <1>7
  <1>9. <<1..(n - 1), 1..n>> \in R
    <2>1. 1..(n - 1) \subseteq 1..n /\ n \in 1..n /\ n \notin 1..(n - 1)
      BY <1>6
    <2>2. 1..(n - 1) \in SUBSET Nat /\ 1..n \in SUBSET Nat
      BY <1>6
    <2>3. 1..(n - 1) # 1..n
      BY <2>1
    <2> QED BY <2>1, <2>2, <2>3 DEF StrictSubsetOrdering
  <1> QED BY <1>4, <1>5, <1>8, <1>9

-----------------------------------------------------------------------------

(* g holds the running sums of w over 1..n. *)
Running(g, w, n) ==
    g = [i \in 0..n |-> IF i = 0 THEN 0 ELSE g[i - 1] + w[i]]

(* There is a function of running sums for every length. *)
LEMMA RunningExists ==
    ASSUME NEW w, NEW n \in Nat
    PROVE  \E g : Running(g, w, n)
  <1> DEFINE S == {k \in Nat : \E g : Running(g, w, k)}
  <1>1. 0 \in S
    <2>1. Running([i \in 0..0 |-> 0], w, 0)
      BY DEF Running
    <2> QED BY <2>1
  <1>2. ASSUME NEW k \in Nat, k \in S PROVE k + 1 \in S
    <2>1. PICK g : Running(g, w, k)
      BY <1>2
    <2> DEFINE h == [i \in 0..(k + 1) |-> IF i = k + 1 THEN g[k] + w[k + 1] ELSE g[i]]
    <2>2. \A i \in 0..k : g[i] = IF i = 0 THEN 0 ELSE g[i - 1] + w[i]
      BY <2>1 DEF Running
    <2>3. \A i \in 0..(k + 1) : h[i] = IF i = 0 THEN 0 ELSE h[i - 1] + w[i]
      <3> SUFFICES ASSUME NEW i \in 0..(k + 1)
                   PROVE  h[i] = IF i = 0 THEN 0 ELSE h[i - 1] + w[i]
        OBVIOUS
      <3>1. CASE i = k + 1
        <4>1. i # 0 /\ i - 1 = k /\ k \in 0..(k + 1) /\ k # k + 1
          BY <3>1
        <4> QED BY <3>1, <4>1
      <3>2. CASE i # k + 1
        <4>1. i \in 0..k
          BY <3>2
        <4>2. i # 0 => i - 1 \in 0..k /\ i - 1 # k + 1 /\ i - 1 \in 0..(k + 1)
          BY <4>1
        <4> QED BY <3>2, <4>1, <4>2, <2>2
      <3> QED BY <3>1, <3>2
    <2>4. Running(h, w, k + 1)
      BY <2>3 DEF Running
    <2> QED BY <2>4
  <1>3. S = Nat
    <2> HIDE DEF S
    <2>1. S \in SUBSET Nat
      BY DEF S
    <2> QED BY <1>1, <1>2, <2>1, InductionBySet
  <1> QED BY <1>3

(* Two functions of running sums of figures that agree on 1..m agree on 0..m. *)
LEMMA RunningAgree ==
    ASSUME NEW w, NEW v, NEW g, NEW h, NEW n \in Nat, NEW p \in Nat, NEW m \in Nat,
           m <= n, m <= p, Running(g, w, n), Running(h, v, p),
           \A i \in 1..m : w[i] = v[i]
    PROVE  g[m] = h[m]
  <1> DEFINE S == {k \in Nat : k <= m => g[k] = h[k]}
  <1>1. /\ \A i \in 0..n : g[i] = IF i = 0 THEN 0 ELSE g[i - 1] + w[i]
        /\ \A i \in 0..p : h[i] = IF i = 0 THEN 0 ELSE h[i - 1] + v[i]
    BY DEF Running
  <1>2. 0 \in S
    BY <1>1
  <1>3. ASSUME NEW k \in Nat, k \in S PROVE k + 1 \in S
    <2> SUFFICES ASSUME k + 1 <= m PROVE g[k + 1] = h[k + 1]
      OBVIOUS
    <2>1. g[k] = h[k]
      BY <1>3
    <2>2. k + 1 \in 0..n /\ k + 1 \in 0..p /\ k + 1 # 0 /\ (k + 1) - 1 = k
      OBVIOUS
    <2>3. w[k + 1] = v[k + 1]
      OBVIOUS
    <2>4. g[k + 1] = g[k] + w[k + 1]
      BY <1>1, <2>2
    <2>5. h[k + 1] = h[k] + v[k + 1]
      BY <1>1, <2>2
    <2> QED BY <2>1, <2>3, <2>4, <2>5
  <1>4. S = Nat
    <2> HIDE DEF S
    <2>1. S \in SUBSET Nat
      BY DEF S
    <2> QED BY <1>2, <1>3, <2>1, InductionBySet
  <1> QED BY <1>4

(* SumOver is the last entry of any function of running sums. *)
LEMMA SumOverIsRunning ==
    ASSUME NEW w, NEW n \in Nat, NEW g, Running(g, w, n)
    PROVE  SumOver(w, n) = g[n]
  <1> DEFINE f == CHOOSE f : Running(f, w, n)
  <1>1. Running(f, w, n)
    BY RunningExists
  <1>2. SumOver(w, n) = f[n]
    BY DEF SumOver, Running
  <1>3. f[n] = g[n]
    <2> HIDE DEF f
    <2> QED BY <1>1, RunningAgree
  <1> QED BY <1>2, <1>3

(* The two equations of SumOver. *)
LEMMA SumOverStep ==
    ASSUME NEW w, NEW n \in Nat
    PROVE  /\ SumOver(w, 0) = 0
           /\ SumOver(w, n + 1) = SumOver(w, n) + w[n + 1]
  <1>1. PICK g : Running(g, w, n + 1)
    BY RunningExists
  <1>2. PICK z : Running(z, w, 0)
    BY RunningExists
  <1>3. PICK h : Running(h, w, n)
    BY RunningExists
  <1>4. SumOver(w, n + 1) = g[n + 1] /\ SumOver(w, n) = h[n] /\ SumOver(w, 0) = z[0]
    BY <1>1, <1>2, <1>3, SumOverIsRunning
  <1>5. z[0] = 0
    BY <1>2 DEF Running
  <1>6. g[n + 1] = g[n] + w[n + 1]
    BY <1>1 DEF Running
  <1>7. g[n] = h[n]
    BY <1>1, <1>3, RunningAgree
  <1> QED BY <1>4, <1>5, <1>6, <1>7

(* SumOver depends on the first n figures only. *)
LEMMA SumOverAgree ==
    ASSUME NEW n \in Nat, NEW w, NEW v, \A i \in 1..n : w[i] = v[i]
    PROVE  SumOver(w, n) = SumOver(v, n)
  <1>1. PICK g : Running(g, w, n)
    BY RunningExists
  <1>2. PICK h : Running(h, v, n)
    BY RunningExists
  <1>3. g[n] = h[n]
    BY <1>1, <1>2, RunningAgree
  <1> QED BY <1>1, <1>2, <1>3, SumOverIsRunning

(* A sum of integers is an integer. *)
LEMMA SumOverInt ==
    ASSUME NEW n \in Nat, NEW w, \A i \in 1..n : w[i] \in Int
    PROVE  SumOver(w, n) \in Int
  <1> DEFINE S == {k \in Nat : k <= n => SumOver(w, k) \in Int}
  <1>1. 0 \in S
    BY SumOverStep
  <1>2. ASSUME NEW k \in Nat, k \in S PROVE k + 1 \in S
    <2> SUFFICES ASSUME k + 1 <= n PROVE SumOver(w, k + 1) \in Int
      OBVIOUS
    <2>1. SumOver(w, k) \in Int /\ w[k + 1] \in Int
      BY <1>2
    <2> QED BY <2>1, SumOverStep
  <1>3. S = Nat
    <2> HIDE DEF S
    <2>1. S \in SUBSET Nat
      BY DEF S
    <2> QED BY <1>1, <1>2, <2>1, InductionBySet
  <1> QED BY <1>3

(* A sum of naturals is a natural. *)
LEMMA SumOverNat ==
    ASSUME NEW n \in Nat, NEW w, \A i \in 1..n : w[i] \in Nat
    PROVE  SumOver(w, n) \in Nat
  <1> DEFINE S == {k \in Nat : k <= n => SumOver(w, k) \in Nat}
  <1>1. 0 \in S
    BY SumOverStep
  <1>2. ASSUME NEW k \in Nat, k \in S PROVE k + 1 \in S
    <2> SUFFICES ASSUME k + 1 <= n PROVE SumOver(w, k + 1) \in Nat
      OBVIOUS
    <2>1. SumOver(w, k) \in Nat /\ w[k + 1] \in Nat
      BY <1>2
    <2> QED BY <2>1, SumOverStep
  <1>3. S = Nat
    <2> HIDE DEF S
    <2>1. S \in SUBSET Nat
      BY DEF S
    <2> QED BY <1>1, <1>2, <2>1, InductionBySet
  <1> QED BY <1>3

\* The sums of v and w differ by their figures at j.
DifferAt(v, w, n, j) == SumOver(v, n) = SumOver(w, n) - w[j] + v[j]

(* Changing one figure changes the sum by the difference. *)
LEMMA SumOverUpdate ==
    ASSUME NEW n \in Nat, NEW w, NEW v, NEW j \in 1..n,
           \A i \in 1..n : w[i] \in Int /\ v[i] \in Int,
           \A i \in 1..n : i # j => v[i] = w[i]
    PROVE  DifferAt(v, w, n, j)
  <1> SUFFICES SumOver(v, n) = SumOver(w, n) - w[j] + v[j]
    BY DEF DifferAt
  <1> DEFINE S == {k \in Nat : j <= k /\ k <= n => SumOver(v, k) = SumOver(w, k) - w[j] + v[j]}
  <1>1. 0 \in S
    OBVIOUS
  <1>2. ASSUME NEW k \in Nat, k \in S PROVE k + 1 \in S
    <2> SUFFICES ASSUME j <= k + 1, k + 1 <= n
                 PROVE  SumOver(v, k + 1) = SumOver(w, k + 1) - w[j] + v[j]
      OBVIOUS
    <2>1. /\ SumOver(v, k + 1) = SumOver(v, k) + v[k + 1]
          /\ SumOver(w, k + 1) = SumOver(w, k) + w[k + 1]
      BY SumOverStep
    <2>2. SumOver(v, k) \in Int /\ SumOver(w, k) \in Int
      <3>1. \A i \in 1..k : w[i] \in Int /\ v[i] \in Int
        OBVIOUS
      <3> QED BY <3>1, SumOverInt
    <2>3. w[k + 1] \in Int /\ v[k + 1] \in Int /\ w[j] \in Int /\ v[j] \in Int
      OBVIOUS
    <2>4. CASE j = k + 1
      <3>1. \A i \in 1..k : w[i] = v[i]
        BY <2>4
      <3>2. SumOver(w, k) = SumOver(v, k)
        BY <3>1, SumOverAgree
      <3> QED BY <2>1, <2>2, <2>3, <2>4, <3>2
    <2>5. CASE j # k + 1
      <3>1. SumOver(v, k) = SumOver(w, k) - w[j] + v[j]
        BY <1>2, <2>5
      <3>2. v[k + 1] = w[k + 1]
        BY <2>5
      <3> QED BY <2>1, <2>2, <2>3, <3>1, <3>2
    <2> QED BY <2>4, <2>5
  <1>3. S = Nat
    <2> HIDE DEF S
    <2>1. S \in SUBSET Nat
      BY DEF S
    <2> QED BY <1>1, <1>2, <2>1, InductionBySet
  <1> QED BY <1>3

(* The sum over the rows of two tables is the sum of their sums. *)
LEMMA SumOverConcat ==
    ASSUME NEW m \in Nat, NEW n \in Nat, NEW u, NEW v,
           \A i \in 1..m + n : u[i] \in Int, \A i \in 1..n : v[i] = u[m + i]
    PROVE  SumOver(u, m + n) = SumOver(u, m) + SumOver(v, n)
  <1> DEFINE S == {k \in Nat : k <= n => SumOver(u, m + k) = SumOver(u, m) + SumOver(v, k)}
  <1>1. 0 \in S
    <2>1. SumOver(u, m) \in Int /\ m + 0 = m /\ SumOver(v, 0) = 0
      BY SumOverInt, SumOverStep
    <2> QED BY <2>1
  <1>2. ASSUME NEW k \in Nat, k \in S PROVE k + 1 \in S
    <2> SUFFICES ASSUME k + 1 <= n
                 PROVE  SumOver(u, m + (k + 1)) = SumOver(u, m) + SumOver(v, k + 1)
      OBVIOUS
    <2>1. SumOver(u, m + k) = SumOver(u, m) + SumOver(v, k)
      BY <1>2
    <2>2. /\ m + k \in Nat /\ m + (k + 1) = (m + k) + 1
          /\ k + 1 \in 1..n /\ (m + k) + 1 \in 1..m + n
      OBVIOUS
    <2>3. /\ SumOver(u, (m + k) + 1) = SumOver(u, m + k) + u[(m + k) + 1]
          /\ SumOver(v, k + 1) = SumOver(v, k) + v[k + 1]
      BY <2>2, SumOverStep
    <2>4. v[k + 1] = u[(m + k) + 1] /\ u[(m + k) + 1] \in Int
      BY <2>2
    <2>5. SumOver(u, m) \in Int
      BY SumOverInt
    <2>6. \A i \in 1..k : v[i] \in Int
      OBVIOUS
    <2>7. SumOver(v, k) \in Int
      BY <2>6, SumOverInt
    <2> QED BY <2>1, <2>2, <2>3, <2>4, <2>5, <2>7
  <1>3. S = Nat
    <2> HIDE DEF S
    <2>1. S \in SUBSET Nat
      BY DEF S
    <2> QED BY <1>1, <1>2, <2>1, InductionBySet
  <1> QED BY <1>3

(* A sum is not above the sum of figures that are not below. *)
LEMMA SumOverMonotone ==
    ASSUME NEW n \in Nat, NEW w, NEW v,
           \A i \in 1..n : w[i] \in Int /\ v[i] \in Int /\ w[i] <= v[i]
    PROVE  SumOver(w, n) <= SumOver(v, n)
  <1> DEFINE S == {k \in Nat : k <= n => SumOver(w, k) <= SumOver(v, k)}
  <1>1. 0 \in S
    BY SumOverStep
  <1>2. ASSUME NEW k \in Nat, k \in S PROVE k + 1 \in S
    <2> SUFFICES ASSUME k + 1 <= n PROVE SumOver(w, k + 1) <= SumOver(v, k + 1)
      OBVIOUS
    <2>1. SumOver(w, k) <= SumOver(v, k)
      BY <1>2
    <2>2. /\ SumOver(w, k + 1) = SumOver(w, k) + w[k + 1]
          /\ SumOver(v, k + 1) = SumOver(v, k) + v[k + 1]
      BY SumOverStep
    <2>3. SumOver(w, k) \in Int /\ SumOver(v, k) \in Int
      <3>1. \A i \in 1..k : w[i] \in Int /\ v[i] \in Int
        OBVIOUS
      <3> QED BY <3>1, SumOverInt
    <2>4. w[k + 1] \in Int /\ v[k + 1] \in Int /\ w[k + 1] <= v[k + 1]
      OBVIOUS
    <2> QED BY <2>1, <2>2, <2>3, <2>4
  <1>3. S = Nat
    <2> HIDE DEF S
    <2>1. S \in SUBSET Nat
      BY DEF S
    <2> QED BY <1>1, <1>2, <2>1, InductionBySet
  <1> QED BY <1>3

(* Figures that are all zero sum to zero. *)
LEMMA SumOverZero ==
    ASSUME NEW n \in Nat, NEW w, \A i \in 1..n : w[i] = 0
    PROVE  SumOver(w, n) = 0
  <1> DEFINE S == {k \in Nat : k <= n => SumOver(w, k) = 0}
  <1>1. 0 \in S
    BY SumOverStep
  <1>2. ASSUME NEW k \in Nat, k \in S PROVE k + 1 \in S
    <2> SUFFICES ASSUME k + 1 <= n PROVE SumOver(w, k + 1) = 0
      OBVIOUS
    <2>1. SumOver(w, k) = 0 /\ w[k + 1] = 0
      BY <1>2
    <2> QED BY <2>1, SumOverStep
  <1>3. S = Nat
    <2> HIDE DEF S
    <2>1. S \in SUBSET Nat
      BY DEF S
    <2> QED BY <1>1, <1>2, <2>1, InductionBySet
  <1> QED BY <1>3

(* A table with one more row. *)
LEMMA SumOverAppended ==
    ASSUME NEW n \in Nat, NEW w, NEW v, \A i \in 1..n : v[i] = w[i]
    PROVE  SumOver(v, n + 1) = SumOver(w, n) + v[n + 1]
  <1>1. SumOver(v, n) = SumOver(w, n)
    BY SumOverAgree
  <1> QED BY <1>1, SumOverStep

(* The sum of the negated figures. *)
LEMMA SumOverNegated ==
    ASSUME NEW n \in Nat, NEW w, NEW v, \A i \in 1..n : w[i] \in Int /\ v[i] = 0 - w[i]
    PROVE  SumOver(v, n) = 0 - SumOver(w, n)
  <1> DEFINE S == {k \in Nat : k <= n => SumOver(v, k) = 0 - SumOver(w, k)}
  <1>1. 0 \in S
    BY SumOverStep
  <1>2. ASSUME NEW k \in Nat, k \in S PROVE k + 1 \in S
    <2> SUFFICES ASSUME k + 1 <= n PROVE SumOver(v, k + 1) = 0 - SumOver(w, k + 1)
      OBVIOUS
    <2>1. SumOver(v, k) = 0 - SumOver(w, k) /\ w[k + 1] \in Int /\ v[k + 1] = 0 - w[k + 1]
      BY <1>2
    <2>2. SumOver(w, k) \in Int
      <3>1. \A i \in 1..k : w[i] \in Int
        OBVIOUS
      <3> QED BY <3>1, SumOverInt
    <2>3. /\ SumOver(w, k + 1) = SumOver(w, k) + w[k + 1]
          /\ SumOver(v, k + 1) = SumOver(v, k) + v[k + 1]
      BY SumOverStep
    <2> QED BY <2>1, <2>2, <2>3
  <1>3. S = Nat
    <2> HIDE DEF S
    <2>1. S \in SUBSET Nat
      BY DEF S
    <2> QED BY <1>1, <1>2, <2>1, InductionBySet
  <1> QED BY <1>3

-----------------------------------------------------------------------------
(* The same laws for the sum of a figure over the rows of a table.         *)

\* The sum of the figures f of the rows.
RowSum(f, rows) == SumOver([i \in 1..Len(rows) |-> f[rows[i]]], Len(rows))

(* A sum of figures that are those of the rows is their sum. *)
LEMMA RowSumIs ==
    ASSUME NEW S, NEW rows \in Seq(S), NEW f, NEW w,
           \A i \in 1..Len(rows) : w[i] = f[rows[i]]
    PROVE  SumOver(w, Len(rows)) = RowSum(f, rows)
  <1> DEFINE v == [i \in 1..Len(rows) |-> f[rows[i]]]
  <1>1. Len(rows) \in Nat /\ \A i \in 1..Len(rows) : w[i] = v[i]
    OBVIOUS
  <1> HIDE DEF v
  <1>2. SumOver(w, Len(rows)) = SumOver(v, Len(rows))
    BY <1>1, SumOverAgree
  <1> QED BY <1>2 DEF RowSum, v

(* The sum over no rows is zero, and over any rows an integer. *)
LEMMA RowSumInt ==
    ASSUME NEW S, NEW f \in [S -> Int]
    PROVE  /\ RowSum(f, <<>>) = 0
           /\ \A rows \in Seq(S) : RowSum(f, rows) \in Int
  <1>1. RowSum(f, <<>>) = 0
    <2>1. Len(<<>>) = 0
      OBVIOUS
    <2> QED BY <2>1, SumOverStep DEF RowSum
  <1>2. ASSUME NEW rows \in Seq(S) PROVE RowSum(f, rows) \in Int
    <2> DEFINE w == [i \in 1..Len(rows) |-> f[rows[i]]]
    <2>1. Len(rows) \in Nat
      OBVIOUS
    <2>2. \A i \in 1..Len(rows) : w[i] \in Int
      <3> SUFFICES ASSUME NEW i \in 1..Len(rows) PROVE f[rows[i]] \in Int
        OBVIOUS
      <3>1. rows[i] \in S
        OBVIOUS
      <3> QED BY <3>1
    <2> HIDE DEF w
    <2>3. SumOver(w, Len(rows)) \in Int
      BY <2>1, <2>2, SumOverInt
    <2> QED BY <2>3 DEF RowSum, w
  <1> QED BY <1>1, <1>2

(* Figures that are nowhere negative have no negative sum. *)
LEMMA RowSumNat ==
    ASSUME NEW S, NEW f \in [S -> Nat], NEW rows \in Seq(S)
    PROVE  RowSum(f, rows) \in Nat
  <1> DEFINE w == [i \in 1..Len(rows) |-> f[rows[i]]]
  <1>1. Len(rows) \in Nat
    OBVIOUS
  <1>2. \A i \in 1..Len(rows) : w[i] \in Nat
    <2> SUFFICES ASSUME NEW i \in 1..Len(rows) PROVE f[rows[i]] \in Nat
      OBVIOUS
    <2>1. rows[i] \in S
      OBVIOUS
    <2> QED BY <2>1
  <1> HIDE DEF w
  <1>3. SumOver(w, Len(rows)) \in Nat
    BY <1>1, <1>2, SumOverNat
  <1> QED BY <1>3 DEF RowSum, w

(* The rows of two tables together. *)
LEMMA RowSumConcat ==
    ASSUME NEW S, NEW f \in [S -> Int], NEW rows \in Seq(S), NEW new \in Seq(S)
    PROVE  RowSum(f, rows \o new) = RowSum(f, rows) + RowSum(f, new)
  <1> DEFINE m == Len(rows)
             n == Len(new)
             u == [i \in 1..Len(rows \o new) |-> f[(rows \o new)[i]]]
             v == [i \in 1..n |-> f[new[i]]]
  <1>1. m \in Nat /\ n \in Nat /\ Len(rows \o new) = m + n /\ rows \o new \in Seq(S)
    OBVIOUS
  <1>2. \A i \in 1..m + n : u[i] \in Int
    <2> SUFFICES ASSUME NEW i \in 1..m + n PROVE f[(rows \o new)[i]] \in Int
      BY <1>1
    <2>1. (rows \o new)[i] \in S
      BY <1>1
    <2> QED BY <2>1
  <1>3. \A i \in 1..n : v[i] = u[m + i]
    OBVIOUS
  <1>4. \A i \in 1..Len(rows) : u[i] = f[rows[i]]
    OBVIOUS
  <1>5. RowSum(f, rows \o new) = SumOver(u, m + n) /\ RowSum(f, new) = SumOver(v, n)
    BY <1>1 DEF RowSum
  <1> HIDE DEF u, v, m, n
  <1>6. SumOver(u, m + n) = SumOver(u, m) + SumOver(v, n)
    <2>1. m \in Nat /\ n \in Nat
      BY <1>1
    <2> QED BY <2>1, <1>2, <1>3, SumOverConcat, SMTT(30)
  <1>7. SumOver(u, Len(rows)) = RowSum(f, rows)
    BY <1>4, RowSumIs
  <1> QED BY <1>5, <1>6, <1>7 DEF m

(* One more row. *)
LEMMA RowSumAppend ==
    ASSUME NEW S, NEW f \in [S -> Int], NEW rows \in Seq(S), NEW row \in S
    PROVE  RowSum(f, Append(rows, row)) = RowSum(f, rows) + f[row]
  <1> DEFINE more == Append(rows, row)
             v == [i \in 1..Len(more) |-> f[more[i]]]
  <1>1. Len(rows) \in Nat /\ Len(more) = Len(rows) + 1
    OBVIOUS
  <1>2. (\A i \in 1..Len(rows) : v[i] = f[rows[i]]) /\ v[Len(rows) + 1] = f[row]
    OBVIOUS
  <1>3. RowSum(f, more) = SumOver(v, Len(rows) + 1)
    BY <1>1 DEF RowSum
  <1> HIDE DEF v
  <1>4. SumOver(v, Len(rows)) = RowSum(f, rows)
    BY <1>2, RowSumIs
  <1>5. SumOver(v, Len(rows) + 1) = SumOver(v, Len(rows)) + v[Len(rows) + 1]
    BY <1>1, SumOverStep
  <1> QED BY <1>2, <1>3, <1>4, <1>5

(* One row rewritten. *)
LEMMA RowSumRewrite ==
    ASSUME NEW S, NEW f \in [S -> Int], NEW rows \in Seq(S), NEW j \in 1..Len(rows), NEW row \in S
    PROVE  RowSum(f, [rows EXCEPT ![j] = row]) = RowSum(f, rows) - f[rows[j]] + f[row]
  <1> DEFINE new == [rows EXCEPT ![j] = row]
             w == [i \in 1..Len(rows) |-> f[rows[i]]]
             v == [i \in 1..Len(new) |-> f[new[i]]]
  <1>1. /\ Len(rows) \in Nat /\ Len(new) = Len(rows) /\ new[j] = row
        /\ \A i \in 1..Len(rows) : i # j => new[i] = rows[i]
    OBVIOUS
  <1>2. \A i \in 1..Len(rows) : w[i] \in Int /\ v[i] \in Int
    <2> SUFFICES ASSUME NEW i \in 1..Len(rows) PROVE f[rows[i]] \in Int /\ f[new[i]] \in Int
      BY <1>1
    <2>1. rows[i] \in S /\ new[i] \in S
      OBVIOUS
    <2> QED BY <2>1
  <1>3. \A i \in 1..Len(rows) : i # j => v[i] = w[i]
    BY <1>1
  <1>4. w[j] = f[rows[j]] /\ v[j] = f[row]
    BY <1>1
  <1>5. RowSum(f, rows) = SumOver(w, Len(rows)) /\ RowSum(f, new) = SumOver(v, Len(rows))
    BY <1>1 DEF RowSum
  <1> HIDE DEF w, v, new
  <1>6. DifferAt(v, w, Len(rows), j)
    BY <1>1, <1>2, <1>3, SumOverUpdate
  <1> QED BY <1>4, <1>5, <1>6 DEF DifferAt, new

\* Row by row, the figures f of the rows are the figures g of the others.
SameFigures(f, rows, g, other) ==
    Len(other) = Len(rows) /\ \A i \in 1..Len(rows) : f[rows[i]] = g[other[i]]

(* Figures that agree row by row have the same sum. *)
LEMMA RowSumAgree ==
    ASSUME NEW S, NEW f, NEW g, NEW rows \in Seq(S), NEW other, SameFigures(f, rows, g, other)
    PROVE  RowSum(f, rows) = RowSum(g, other)
  <1> DEFINE v == [i \in 1..Len(other) |-> g[other[i]]]
  <1>1. Len(other) = Len(rows) /\ \A i \in 1..Len(rows) : v[i] = f[rows[i]]
    BY DEF SameFigures
  <1>2. RowSum(g, other) = SumOver(v, Len(rows))
    BY <1>1 DEF RowSum
  <1> HIDE DEF v
  <1>3. SumOver(v, Len(rows)) = RowSum(f, rows)
    BY <1>1, RowSumIs
  <1> QED BY <1>2, <1>3

(* Figures that are zero on the rows sum to zero. *)
LEMMA RowSumZero ==
    ASSUME NEW S, NEW f, NEW rows \in Seq(S), \A i \in 1..Len(rows) : f[rows[i]] = 0
    PROVE  RowSum(f, rows) = 0
  <1> DEFINE w == [i \in 1..Len(rows) |-> f[rows[i]]]
  <1>1. Len(rows) \in Nat /\ \A i \in 1..Len(rows) : w[i] = 0
    OBVIOUS
  <1> HIDE DEF w
  <1>2. SumOver(w, Len(rows)) = 0
    BY <1>1, SumOverZero
  <1> QED BY <1>2 DEF RowSum, w

-----------------------------------------------------------------------------
(* The same over some of the rows of a table.                              *)

\* The sum of the figures f of the rows whose ids are picked.
PickedSum(f, rows, ids) ==
    SumOver([i \in 1..Len(rows) |-> IF i \in ids THEN f[rows[i]] ELSE 0], Len(rows))

(* A sum in which the other rows count for nothing. *)
LEMMA PickedIs ==
    ASSUME NEW S, NEW rows \in Seq(S), NEW f, NEW ids, NEW w,
           \A i \in 1..Len(rows) : w[i] = IF i \in ids THEN f[rows[i]] ELSE 0
    PROVE  SumOver(w, Len(rows)) = PickedSum(f, rows, ids)
  <1> DEFINE v == [i \in 1..Len(rows) |-> IF i \in ids THEN f[rows[i]] ELSE 0]
  <1>1. Len(rows) \in Nat /\ \A i \in 1..Len(rows) : w[i] = v[i]
    OBVIOUS
  <1> HIDE DEF v
  <1>2. SumOver(w, Len(rows)) = SumOver(v, Len(rows))
    BY <1>1, SumOverAgree
  <1> QED BY <1>2 DEF PickedSum, v

(* Figures that are nowhere negative have no negative sum. *)
LEMMA PickedNat ==
    ASSUME NEW S, NEW f \in [S -> Nat], NEW rows \in Seq(S), NEW ids
    PROVE  PickedSum(f, rows, ids) \in Nat
  <1> DEFINE w == [i \in 1..Len(rows) |-> IF i \in ids THEN f[rows[i]] ELSE 0]
  <1>1. Len(rows) \in Nat
    OBVIOUS
  <1>2. \A i \in 1..Len(rows) : w[i] \in Nat
    <2> SUFFICES ASSUME NEW i \in 1..Len(rows) PROVE f[rows[i]] \in Nat
      OBVIOUS
    <2>1. rows[i] \in S
      OBVIOUS
    <2> QED BY <2>1
  <1> HIDE DEF w
  <1>3. SumOver(w, Len(rows)) \in Nat
    BY <1>1, <1>2, SumOverNat
  <1> QED BY <1>3 DEF PickedSum, w

(* No rows sum to zero. *)
LEMMA PickedNone ==
    ASSUME NEW S, NEW f, NEW rows \in Seq(S)
    PROVE  PickedSum(f, rows, {}) = 0
  <1> DEFINE w == [i \in 1..Len(rows) |-> IF i \in {} THEN f[rows[i]] ELSE 0]
  <1>1. Len(rows) \in Nat /\ \A i \in 1..Len(rows) : w[i] = 0
    OBVIOUS
  <1> HIDE DEF w
  <1>2. SumOver(w, Len(rows)) = 0
    BY <1>1, SumOverZero
  <1> QED BY <1>2 DEF PickedSum, w

(* All rows whose figures are not zero sum to the sum of all. *)
LEMMA PickedAll ==
    ASSUME NEW S, NEW f, NEW rows \in Seq(S), NEW ids,
           \A i \in 1..Len(rows) : i \in ids \/ f[rows[i]] = 0
    PROVE  PickedSum(f, rows, ids) = RowSum(f, rows)
  <1> DEFINE w == [i \in 1..Len(rows) |-> IF i \in ids THEN f[rows[i]] ELSE 0]
  <1>1. \A i \in 1..Len(rows) : w[i] = f[rows[i]]
    OBVIOUS
  <1> HIDE DEF w
  <1>2. SumOver(w, Len(rows)) = RowSum(f, rows)
    BY <1>1, RowSumIs
  <1> QED BY <1>2 DEF PickedSum, w

\* What is left without row j and the figure of j make up what there was.
SplitAt(f, rows, ids, j) == PickedSum(f, rows, ids) = PickedSum(f, rows, ids \ {j}) + f[rows[j]]

(* One row less. *)
LEMMA PickedLess ==
    ASSUME NEW S, NEW f \in [S -> Int], NEW rows \in Seq(S), NEW ids,
           NEW j \in 1..Len(rows), j \in ids
    PROVE  SplitAt(f, rows, ids, j)
  <1> DEFINE w == [i \in 1..Len(rows) |-> IF i \in ids \ {j} THEN f[rows[i]] ELSE 0]
             v == [i \in 1..Len(rows) |-> IF i \in ids THEN f[rows[i]] ELSE 0]
  <1>1. Len(rows) \in Nat
    OBVIOUS
  <1>2. \A i \in 1..Len(rows) : w[i] \in Int /\ v[i] \in Int
    <2> SUFFICES ASSUME NEW i \in 1..Len(rows) PROVE f[rows[i]] \in Int
      OBVIOUS
    <2>1. rows[i] \in S
      OBVIOUS
    <2> QED BY <2>1
  <1>3. (\A i \in 1..Len(rows) : i # j => v[i] = w[i]) /\ w[j] = 0 /\ v[j] = f[rows[j]]
    OBVIOUS
  <1> HIDE DEF w, v
  <1>4. DifferAt(v, w, Len(rows), j)
    BY <1>1, <1>2, <1>3, SumOverUpdate
  <1>5. SumOver(w, Len(rows)) \in Int /\ v[j] \in Int
    BY <1>1, <1>2, SumOverInt
  <1>6. SumOver(v, Len(rows)) = SumOver(w, Len(rows)) + f[rows[j]]
    BY <1>3, <1>4, <1>5 DEF DifferAt
  <1> QED BY <1>6 DEF SplitAt, PickedSum, w, v

(* Rows whose figures are the same sum to the same. *)
LEMMA PickedSame ==
    ASSUME NEW S, NEW f, NEW rows \in Seq(S), NEW other, NEW ids, SameFigures(f, rows, f, other)
    PROVE  PickedSum(f, other, ids) = PickedSum(f, rows, ids)
  <1> DEFINE w == [i \in 1..Len(other) |-> IF i \in ids THEN f[other[i]] ELSE 0]
  <1>1. /\ Len(other) = Len(rows)
        /\ \A i \in 1..Len(rows) : w[i] = IF i \in ids THEN f[rows[i]] ELSE 0
    BY DEF SameFigures
  <1>2. PickedSum(f, other, ids) = SumOver(w, Len(rows))
    BY <1>1 DEF PickedSum
  <1> HIDE DEF w
  <1>3. SumOver(w, Len(rows)) = PickedSum(f, rows, ids)
    BY <1>1, PickedIs
  <1> QED BY <1>2, <1>3

-----------------------------------------------------------------------------
(* Where the rows of a longer table come from.                             *)

(* Appending rows of which each has a property, to rows of which each is kept. *)
LEMMA RowAppended ==
    ASSUME NEW S, NEW rows \in Seq(S), NEW row \in S
    PROVE  /\ Len(Append(rows, row)) = Len(rows) + 1 /\ Len(rows) \in Nat
           /\ \A i \in 1..Len(rows) + 1 :
                 IF i \in 1..Len(rows) THEN Append(rows, row)[i] = rows[i]
                                       ELSE i = Len(rows) + 1 /\ Append(rows, row)[i] = row
  OBVIOUS

(* The rows of two sequences one after the other. *)
LEMMA RowsConcatenated ==
    ASSUME NEW S, NEW rows \in Seq(S), NEW new \in Seq(S)
    PROVE  /\ Len(rows \o new) = Len(rows) + Len(new)
           /\ Len(rows) \in Nat /\ Len(new) \in Nat
           /\ \A i \in 1..Len(rows) : (rows \o new)[i] = rows[i]
           /\ \A i \in 1..Len(new) : (rows \o new)[Len(rows) + i] = new[i]
           /\ \A i \in 1..Len(rows) + Len(new) :
                 i \in 1..Len(rows) \/ \E k \in 1..Len(new) : i = Len(rows) + k
  <1>1. Len(rows) \in Nat /\ Len(new) \in Nat
    OBVIOUS
  <1>2. ASSUME NEW i \in 1..Len(rows) + Len(new), i \notin 1..Len(rows)
        PROVE  \E k \in 1..Len(new) : i = Len(rows) + k
    <2>1. i - Len(rows) \in 1..Len(new) /\ i = Len(rows) + (i - Len(rows))
      BY <1>1, <1>2
    <2> QED BY <2>1
  <1>3. ASSUME NEW i \in 1..Len(new) PROVE (rows \o new)[Len(rows) + i] = new[i]
    OBVIOUS
  <1>4. Len(rows \o new) = Len(rows) + Len(new) /\ \A i \in 1..Len(rows) : (rows \o new)[i] = rows[i]
    OBVIOUS
  <1> QED BY <1>1, <1>2, <1>3, <1>4

-----------------------------------------------------------------------------
(* The rows a loop picks.                                                  *)

(* A set of ids that is not empty has a least member. *)
LEMMA LeastMember ==
    ASSUME NEW ids \in SUBSET Nat, ids # {}
    PROVE  \E i \in ids : \A j \in ids : i <= j
  <1> DEFINE HasLeast(T) == \E i \in T : \A j \in T : i <= j
             S == {n \in Nat : (\E i \in ids : i <= n) => HasLeast(ids)}
  <1>1. 0 \in S
    <2> SUFFICES ASSUME NEW i \in ids, i <= 0 PROVE HasLeast(ids)
      OBVIOUS
    <2>1. \A j \in ids : i <= j
      OBVIOUS
    <2> QED BY <2>1
  <1>2. ASSUME NEW n \in Nat, n \in S PROVE n + 1 \in S
    <2> SUFFICES ASSUME NEW i \in ids, i <= n + 1, ~ \E k \in ids : k <= n
                 PROVE  HasLeast(ids)
      BY <1>2
    <2>1. \A j \in ids : i <= j
      OBVIOUS
    <2> QED BY <2>1
  <1>3. S \in SUBSET Nat
    OBVIOUS
  <1>4. S = Nat
    <2> HIDE DEF S
    <2> QED BY <1>1, <1>2, <1>3, InductionBySet
  <1>5. PICK i : i \in ids
    OBVIOUS
  <1>6. i \in S /\ i <= i
    BY <1>4, <1>5
  <1> QED BY <1>5, <1>6

\* g holds what is picked of the first 0..n rows.
Picking(g, s, ids, n) ==
    g = [i \in 0..n |-> IF i = 0 THEN <<>>
                        ELSE IF i \in ids THEN Append(g[i - 1], s[i]) ELSE g[i - 1]]

(* There is such a function for every length. *)
LEMMA PickingExists ==
    ASSUME NEW s, NEW ids, NEW n \in Nat
    PROVE  \E g : Picking(g, s, ids, n)
  <1> DEFINE S == {k \in Nat : \E g : Picking(g, s, ids, k)}
  <1>1. 0 \in S
    <2>1. Picking([i \in 0..0 |-> <<>>], s, ids, 0)
      BY DEF Picking
    <2> QED BY <2>1
  <1>2. ASSUME NEW k \in Nat, k \in S PROVE k + 1 \in S
    <2>1. PICK g : Picking(g, s, ids, k)
      BY <1>2
    <2>2. PICK last : last = IF k + 1 \in ids THEN Append(g[k], s[k + 1]) ELSE g[k]
      OBVIOUS
    <2> DEFINE h == [i \in 0..(k + 1) |-> IF i = k + 1 THEN last ELSE g[i]]
    <2>3. \A i \in 0..k : g[i] = IF i = 0 THEN <<>>
                                 ELSE IF i \in ids THEN Append(g[i - 1], s[i]) ELSE g[i - 1]
      BY <2>1 DEF Picking
    <2>4. ASSUME NEW i \in 0..(k + 1)
          PROVE  h[i] = IF i = 0 THEN <<>>
                        ELSE IF i \in ids THEN Append(h[i - 1], s[i]) ELSE h[i - 1]
      <3>1. CASE i = k + 1
        <4>1. i # 0 /\ i - 1 = k /\ h[i - 1] = g[k] /\ h[i] = last
          BY <3>1
        <4> QED BY <2>2, <3>1, <4>1
      <3>2. CASE i # k + 1
        <4>1. i \in 0..k /\ h[i] = g[i]
          BY <3>2
        <4>2. i # 0 => i - 1 \in 0..k /\ h[i - 1] = g[i - 1]
          BY <4>1
        <4> QED BY <2>3, <4>1, <4>2
      <3> QED BY <3>1, <3>2
    <2>5. Picking(h, s, ids, k + 1)
      BY <2>4 DEF Picking
    <2> QED BY <2>5
  <1>3. S \in SUBSET Nat
    OBVIOUS
  <1>4. S = Nat
    <2> HIDE DEF S
    <2> QED BY <1>1, <1>2, <1>3, InductionBySet
  <1> QED BY <1>4

(* What is picked are the rows at the ids, and their figures sum to the    *)
(* sum over those ids.                                                     *)
LEMMA PickedRows ==
    ASSUME NEW S, NEW s \in Seq(S), NEW ids, NEW T, NEW f \in [S -> Int],
           \A i \in 1..Len(s) : i \in ids => s[i] \in T
    PROVE  /\ Picked(s, ids) \in Seq(S) /\ Picked(s, ids) \in Seq(T)
           /\ RowSum(f, Picked(s, ids)) = PickedSum(f, s, ids)
  <1> DEFINE n == Len(s)
             g == CHOOSE g : Picking(g, s, ids, n)
             w == [i \in 1..n |-> IF i \in ids THEN f[s[i]] ELSE 0]
             K == {k \in Nat : k <= n => /\ g[k] \in Seq(S) /\ g[k] \in Seq(T)
                                         /\ RowSum(f, g[k]) = SumOver(w, k)}
  <1>1. n \in Nat
    OBVIOUS
  <1>2. Picking(g, s, ids, n)
    BY <1>1, PickingExists
  <1>3. Picked(s, ids) = g[n]
    BY DEF Picked, Picking
  <1> HIDE DEF g
  <1>4. \A i \in 0..n : g[i] = IF i = 0 THEN <<>>
                               ELSE IF i \in ids THEN Append(g[i - 1], s[i]) ELSE g[i - 1]
    BY <1>2 DEF Picking
  <1>5. \A i \in 1..n : s[i] \in S /\ f[s[i]] \in Int /\ w[i] = IF i \in ids THEN f[s[i]] ELSE 0
    BY ElementOfSeq
  <1>6. SumOver(w, n) = PickedSum(f, s, ids)
    BY DEF PickedSum
  <1> HIDE DEF w
  <1>7. 0 \in K
    <2>1. g[0] = <<>>
      BY <1>1, <1>4
    <2>2. RowSum(f, <<>>) = 0 /\ SumOver(w, 0) = 0
      BY RowSumInt, SumOverStep
    <2> QED BY <2>1, <2>2, EmptySeq
  <1>8. ASSUME NEW k \in Nat, k \in K PROVE k + 1 \in K
    <2> SUFFICES ASSUME k + 1 <= n
                 PROVE  /\ g[k + 1] \in Seq(S) /\ g[k + 1] \in Seq(T)
                        /\ RowSum(f, g[k + 1]) = SumOver(w, k + 1)
      OBVIOUS
    <2>1. g[k] \in Seq(S) /\ g[k] \in Seq(T) /\ RowSum(f, g[k]) = SumOver(w, k)
      BY <1>1, <1>8
    <2>2. k + 1 \in 1..n /\ k + 1 \in 0..n /\ k + 1 # 0 /\ (k + 1) - 1 = k
      BY <1>1
    <2>3. SumOver(w, k + 1) = SumOver(w, k) + w[k + 1]
      BY SumOverStep
    <2>4. g[k + 1] = IF k + 1 \in ids THEN Append(g[k], s[k + 1]) ELSE g[k]
      BY <1>4, <2>2
    <2>5. CASE k + 1 \in ids
      <3>1. RowSum(f, g[k + 1]) = RowSum(f, g[k]) + f[s[k + 1]]
        BY <1>5, <2>1, <2>2, <2>4, <2>5, RowSumAppend
      <3>2. s[k + 1] \in S /\ s[k + 1] \in T /\ w[k + 1] = f[s[k + 1]]
        BY <1>5, <2>2, <2>5
      <3>3. g[k + 1] \in Seq(S) /\ g[k + 1] \in Seq(T)
        BY <2>1, <2>4, <2>5, <3>2, AppendProperties
      <3> QED BY <2>1, <2>3, <3>1, <3>2, <3>3
    <2>6. CASE k + 1 \notin ids
      <3>1. RowSum(f, g[k]) \in Int /\ w[k + 1] = 0
        BY <1>5, <2>1, <2>2, <2>6, RowSumInt
      <3> QED BY <2>1, <2>3, <2>4, <2>6, <3>1
    <2> QED BY <2>5, <2>6
  <1>9. K = Nat
    <2> HIDE DEF K
    <2>1. K \in SUBSET Nat
      BY DEF K
    <2> QED BY <1>7, <1>8, <2>1, InductionBySet
  <1>10. n \in K
    BY <1>1, <1>9
  <1> QED BY <1>1, <1>3, <1>6, <1>10

(* Their figures sum to the sum over the ids. *)
LEMMA PickedRowSum ==
    ASSUME NEW S, NEW s \in Seq(S), NEW ids, NEW f \in [S -> Int]
    PROVE  RowSum(f, Picked(s, ids)) = PickedSum(f, s, ids)
  <1>1. \A i \in 1..Len(s) : i \in ids => s[i] \in S
    BY ElementOfSeq
  <1>2. /\ Picked(s, ids) \in Seq(S) /\ Picked(s, ids) \in Seq(S)
        /\ RowSum(f, Picked(s, ids)) = PickedSum(f, s, ids)
    BY <1>1, PickedRows, SMTT(30)
  <1> QED BY <1>2
=============================================================================
