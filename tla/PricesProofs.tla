----------------------------- MODULE PricesProofs -----------------------------
(***************************************************************************)
(* The search of Prices is exact: for any non-negative rates, the only net *)
(* that grosses to a figure lies in the window, and no figure is refused   *)
(* that some net grosses to.  The argument is the one of                   *)
(* search_radius_cents: each rounding moves a figure by at most half a     *)
(* cent.  Over ProductPrices it gives that a typed price is kept to the    *)
(* cent: its invariant says of every save under way that what it will      *)
(* write is derived, and grosses to the price it claims.  Where the ladder *)
(* has a rung finer than every cost, a typed price is kept or out of reach *)
(* of every net: the markup that keeps it is found.                        *)
(***************************************************************************)
EXTENDS ProductPrices, SumsProofs

(* The middle of a rounding is at most half away. *)
LEMMA RoundedBounds ==
    ASSUME NEW a \in Int, NEW b \in Nat \ {0}
    PROVE  /\ Rounded(a, b) \in Int
           /\ 2 * (b * Rounded(a, b)) <= 2 * a + b
           /\ 2 * a - b <= 2 * (b * Rounded(a, b))
  <1>1. ASSUME NEW c \in Nat
        PROVE  /\ (2 * c + b) \div (2 * b) \in Int
               /\ 2 * (b * ((2 * c + b) \div (2 * b))) <= 2 * c + b
               /\ 2 * c - b <= 2 * (b * ((2 * c + b) \div (2 * b)))
    <2> DEFINE q == (2 * c + b) \div (2 * b)
    <2>1. q \in Int /\ (2 * b) * q <= 2 * c + b /\ 2 * c + b < (2 * b) * q + 2 * b
      OBVIOUS
    <2>2. (2 * b) * q = 2 * (b * q)
      BY <2>1
    <2> QED BY <2>1, <2>2
  <1>2. CASE a >= 0
    BY <1>1, <1>2 DEF Rounded
  <1>3. CASE ~ (a >= 0)
    <2> DEFINE q == (2 * (-a) + b) \div (2 * b)
    <2>1. -a \in Nat
      BY <1>3
    <2>2. q \in Int /\ 2 * (b * q) <= 2 * (-a) + b /\ 2 * (-a) - b <= 2 * (b * q)
      BY <1>1, <2>1
    <2>3. Rounded(a, b) = -q
      <3>1. b - 2 * a = 2 * (-a) + b
        OBVIOUS
      <3> QED BY <1>3, <3>1 DEF Rounded
    <2>4. b * (-q) = -(b * q)
      BY <2>2
    <2> QED BY <2>2, <2>3, <2>4
  <1> QED BY <1>2, <1>3

(* A quotient is at most the exact one (rounded down). *)
LEMMA QuotientBound ==
    ASSUME NEW a \in Int, NEW b \in Nat \ {0}
    PROVE  a \div b \in Int /\ b * (a \div b) <= a
  OBVIOUS

(* Rounding keeps the order. *)
LEMMA RoundedMonotone ==
    ASSUME NEW a \in Int, NEW c \in Int, NEW b \in Nat \ {0}, a <= c
    PROVE  Rounded(a, b) <= Rounded(c, b)
  <1> DEFINE p == Rounded(a, b)
             q == Rounded(c, b)
  <1>1. CASE a = c
    <2>1. p \in Int
      BY RoundedBounds
    <2> QED BY <1>1, <2>1
  <1>2. CASE a # c
    <2>1. p \in Int /\ 2 * (b * p) <= 2 * a + b
      BY RoundedBounds
    <2>2. q \in Int /\ 2 * c - b <= 2 * (b * q)
      BY RoundedBounds
    <2>3. SUFFICES ASSUME q + 1 <= p PROVE FALSE
      BY <2>1, <2>2
    <2> HIDE DEF p, q
    <2>4. b * (q + 1) <= b * p
      BY <2>1, <2>2, <2>3
    <2>5. b * (q + 1) = b * q + b
      BY <2>2
    <2>6. b * p \in Int /\ b * q \in Int
      BY <2>1, <2>2
    <2> QED BY <1>2, <2>1, <2>2, <2>4, <2>5, <2>6
  <1> QED BY <1>1, <1>2

-----------------------------------------------------------------------------

(* The contribution of a tax is an integer, grows with the net, and is at  *)
(* most half a cent away from the exact figure.                            *)
LEMMA ContributionInt ==
    ASSUME NEW net \in Int, NEW rate \in Nat
    PROVE  /\ Contribution(net, rate) \in Int
           /\ 2 * (Whole * Contribution(net, rate)) <= 2 * (net * rate) + Whole
           /\ 2 * (net * rate) - Whole <= 2 * (Whole * Contribution(net, rate))
  <1>1. net * rate \in Int /\ Whole \in Nat \ {0}
    BY DEF Whole
  <1> QED BY <1>1, RoundedBounds DEF Contribution

LEMMA ContributionMonotone ==
    ASSUME NEW m \in Int, NEW n \in Int, m <= n, NEW rate \in Nat
    PROVE  Contribution(m, rate) <= Contribution(n, rate)
  <1>1. m * rate \in Int /\ n * rate \in Int /\ Whole \in Nat \ {0}
    BY DEF Whole
  <1>2. m * rate <= n * rate
    OBVIOUS
  <1> QED BY <1>1, <1>2, RoundedMonotone DEF Contribution

-----------------------------------------------------------------------------

(* A sum of smaller figures is smaller. *)
LEMMA SumMonotone ==
    ASSUME NEW n \in Nat, NEW v, NEW w,
           \A i \in 1..n : v[i] \in Int /\ w[i] \in Int /\ v[i] <= w[i]
    PROVE  SumOver(v, n) <= SumOver(w, n)
  <1> DEFINE S == {k \in Nat : k <= n => SumOver(v, k) <= SumOver(w, k)}
  <1>1. 0 \in S
    BY SumOverStep
  <1>2. ASSUME NEW k \in Nat, k \in S PROVE k + 1 \in S
    <2> SUFFICES ASSUME k + 1 <= n PROVE SumOver(v, k + 1) <= SumOver(w, k + 1)
      OBVIOUS
    <2>1. SumOver(v, k) <= SumOver(w, k)
      BY <1>2
    <2>2. SumOver(v, k) \in Int /\ SumOver(w, k) \in Int
      <3>1. \A i \in 1..k : v[i] \in Int /\ w[i] \in Int
        OBVIOUS
      <3> QED BY <3>1, SumOverInt
    <2>3. v[k + 1] \in Int /\ w[k + 1] \in Int /\ v[k + 1] <= w[k + 1]
      OBVIOUS
    <2>4. /\ SumOver(v, k + 1) = SumOver(v, k) + v[k + 1]
          /\ SumOver(w, k + 1) = SumOver(w, k) + w[k + 1]
      BY SumOverStep
    <2> QED BY <2>1, <2>2, <2>3, <2>4
  <1>3. S = Nat
    <2> HIDE DEF S
    <2>1. S \in SUBSET Nat
      BY DEF S
    <2> QED BY <1>1, <1>2, <2>1, InductionBySet
  <1> QED BY <1>3

(* The error of a sum is at most the sum of the errors of its terms. *)
LEMMA SumError ==
    ASSUME NEW n \in Nat, NEW c, NEW r, NEW m \in Int, NEW W \in Nat,
           \A i \in 1..n : /\ c[i] \in Int /\ r[i] \in Int
                           /\ 2 * (W * c[i]) <= 2 * (m * r[i]) + W
                           /\ 2 * (m * r[i]) - W <= 2 * (W * c[i])
    PROVE  /\ 2 * (W * SumOver(c, n)) <= 2 * (m * SumOver(r, n)) + n * W
           /\ 2 * (m * SumOver(r, n)) - n * W <= 2 * (W * SumOver(c, n))
  <1> DEFINE S == {k \in Nat : k <= n =>
                      /\ 2 * (W * SumOver(c, k)) <= 2 * (m * SumOver(r, k)) + k * W
                      /\ 2 * (m * SumOver(r, k)) - k * W <= 2 * (W * SumOver(c, k))}
  <1>1. 0 \in S
    <2>1. SumOver(c, 0) = 0 /\ SumOver(r, 0) = 0
      BY SumOverStep
    <2> QED BY <2>1
  <1>2. ASSUME NEW k \in Nat, k \in S PROVE k + 1 \in S
    <2> SUFFICES ASSUME k + 1 <= n
                 PROVE  /\ 2 * (W * SumOver(c, k + 1)) <= 2 * (m * SumOver(r, k + 1)) + (k + 1) * W
                        /\ 2 * (m * SumOver(r, k + 1)) - (k + 1) * W <= 2 * (W * SumOver(c, k + 1))
      OBVIOUS
    <2>1. /\ 2 * (W * SumOver(c, k)) <= 2 * (m * SumOver(r, k)) + k * W
          /\ 2 * (m * SumOver(r, k)) - k * W <= 2 * (W * SumOver(c, k))
      BY <1>2
    <2>2. SumOver(c, k) \in Int /\ SumOver(r, k) \in Int
      <3>1. \A i \in 1..k : c[i] \in Int /\ r[i] \in Int
        OBVIOUS
      <3> QED BY <3>1, SumOverInt
    <2>3. /\ c[k + 1] \in Int /\ r[k + 1] \in Int
          /\ 2 * (W * c[k + 1]) <= 2 * (m * r[k + 1]) + W
          /\ 2 * (m * r[k + 1]) - W <= 2 * (W * c[k + 1])
      OBVIOUS
    <2>4. /\ SumOver(c, k + 1) = SumOver(c, k) + c[k + 1]
          /\ SumOver(r, k + 1) = SumOver(r, k) + r[k + 1]
      BY SumOverStep
    <2> HIDE DEF S
    <2>5. W * SumOver(c, k + 1) = W * SumOver(c, k) + W * c[k + 1]
      BY <2>2, <2>3, <2>4
    <2>6. m * SumOver(r, k + 1) = m * SumOver(r, k) + m * r[k + 1]
      BY <2>2, <2>3, <2>4
    <2>7. (k + 1) * W = k * W + W
      OBVIOUS
    <2>8. /\ W * SumOver(c, k) \in Int /\ W * c[k + 1] \in Int /\ m * SumOver(r, k) \in Int
          /\ m * r[k + 1] \in Int /\ k * W \in Int
      BY <2>2, <2>3
    <2> QED BY <2>1, <2>3, <2>5, <2>6, <2>7, <2>8
  <1>3. S = Nat
    <2> HIDE DEF S
    <2>1. S \in SUBSET Nat
      BY DEF S
    <2> QED BY <1>1, <1>2, <2>1, InductionBySet
  <1> QED BY <1>3

-----------------------------------------------------------------------------

(* The taxes of a net, as figures of a sum. *)
LEMMA TaxFigures ==
    ASSUME NEW net \in Int, NEW rates \in Seq(Nat)
    PROVE  /\ Len(rates) \in Nat
           /\ \A i \in 1..Len(rates) : rates[i] \in Nat
           /\ TaxTotal(net, rates) \in Int
           /\ LineTotal(net, rates) \in Int
  <1>1. Len(rates) \in Nat /\ \A i \in 1..Len(rates) : rates[i] \in Nat
    OBVIOUS
  <1>2. \A i \in 1..Len(rates) : Contribution(net, rates[i]) \in Int
    BY <1>1, ContributionInt
  <1>3. TaxTotal(net, rates) \in Int
    <2> DEFINE c == [i \in 1..Len(rates) |-> Contribution(net, rates[i])]
    <2>1. \A i \in 1..Len(rates) : c[i] \in Int
      BY <1>2
    <2> HIDE DEF c
    <2>2. SumOver(c, Len(rates)) \in Int
      BY <1>1, <2>1, SumOverInt
    <2> QED BY <2>2 DEF TaxTotal, c
  <1> QED BY <1>1, <1>3 DEF LineTotal

(* A larger net has a larger total: no two nets share one. *)
LEMMA TotalIncreases ==
    ASSUME NEW m \in Int, NEW n \in Int, m < n, NEW rates \in Seq(Nat)
    PROVE  LineTotal(m, rates) < LineTotal(n, rates)
  <1> DEFINE v == [i \in 1..Len(rates) |-> Contribution(m, rates[i])]
             w == [i \in 1..Len(rates) |-> Contribution(n, rates[i])]
  <1>1. Len(rates) \in Nat /\ \A i \in 1..Len(rates) : rates[i] \in Nat
    BY TaxFigures
  <1>2. \A i \in 1..Len(rates) : v[i] \in Int /\ w[i] \in Int /\ v[i] <= w[i]
    <2> SUFFICES ASSUME NEW i \in 1..Len(rates)
                 PROVE  v[i] \in Int /\ w[i] \in Int /\ v[i] <= w[i]
      OBVIOUS
    <2>1. rates[i] \in Nat
      BY <1>1
    <2>2. v[i] = Contribution(m, rates[i]) /\ w[i] = Contribution(n, rates[i])
      OBVIOUS
    <2>3. Contribution(m, rates[i]) \in Int /\ Contribution(n, rates[i]) \in Int
      BY <2>1, ContributionInt
    <2>4. Contribution(m, rates[i]) <= Contribution(n, rates[i])
      BY <2>1, ContributionMonotone
    <2> QED BY <2>2, <2>3, <2>4
  <1>3. SumOver(v, Len(rates)) <= SumOver(w, Len(rates))
    <2> HIDE DEF v, w
    <2> QED BY <1>1, <1>2, SumMonotone
  <1>4. TaxTotal(m, rates) <= TaxTotal(n, rates)
    BY <1>3 DEF TaxTotal
  <1>5. TaxTotal(m, rates) \in Int /\ TaxTotal(n, rates) \in Int
    BY TaxFigures
  <1> QED BY <1>4, <1>5 DEF LineTotal

(* What a total and the exact figure differ by: half a cent per tax. *)
LEMMA TotalError ==
    ASSUME NEW net \in Int, NEW rates \in Seq(Nat)
    PROVE  /\ Divisor(rates) \in Nat /\ Divisor(rates) >= Whole
           /\ 2 * (Whole * LineTotal(net, rates))
                  <= 2 * (net * Divisor(rates)) + Len(rates) * Whole
           /\ 2 * (net * Divisor(rates)) - Len(rates) * Whole
                  <= 2 * (Whole * LineTotal(net, rates))
  <1> DEFINE k == Len(rates)
             c == [i \in 1..k |-> Contribution(net, rates[i])]
             C == SumOver(c, k)
             R == SumOver(rates, k)
  <1>1. k \in Nat /\ \A i \in 1..k : rates[i] \in Nat
    BY TaxFigures
  <1>2. \A i \in 1..k : /\ c[i] \in Int /\ rates[i] \in Int
                        /\ 2 * (Whole * c[i]) <= 2 * (net * rates[i]) + Whole
                        /\ 2 * (net * rates[i]) - Whole <= 2 * (Whole * c[i])
    <2> SUFFICES ASSUME NEW i \in 1..k
                 PROVE  /\ c[i] \in Int /\ rates[i] \in Int
                        /\ 2 * (Whole * c[i]) <= 2 * (net * rates[i]) + Whole
                        /\ 2 * (net * rates[i]) - Whole <= 2 * (Whole * c[i])
      OBVIOUS
    <2>1. rates[i] \in Nat /\ c[i] = Contribution(net, rates[i])
      BY <1>1
    <2>2. /\ Contribution(net, rates[i]) \in Int
          /\ 2 * (Whole * Contribution(net, rates[i])) <= 2 * (net * rates[i]) + Whole
          /\ 2 * (net * rates[i]) - Whole <= 2 * (Whole * Contribution(net, rates[i]))
      BY <2>1, ContributionInt
    <2> HIDE DEF c
    <2> QED BY <2>1, <2>2
  <1>3. Whole \in Nat
    BY DEF Whole
  <1>4. /\ 2 * (Whole * C) <= 2 * (net * R) + k * Whole
        /\ 2 * (net * R) - k * Whole <= 2 * (Whole * C)
    <2> HIDE DEF c
    <2> QED BY <1>1, <1>2, <1>3, SumError
  <1>5. R \in Nat
    BY <1>1, SumOverNat
  <1>6. C \in Int
    <2> HIDE DEF c
    <2> QED BY <1>1, <1>2, SumOverInt
  <1>7. LineTotal(net, rates) = net + C /\ Divisor(rates) = Whole + R
    BY DEF LineTotal, TaxTotal, Divisor
  <1> HIDE DEF k, C, R
  <1>8. Whole * (net + C) = Whole * net + Whole * C /\ net * (Whole + R) = Whole * net + net * R
    BY <1>3, <1>5, <1>6
  <1>9. /\ Whole * net \in Int /\ Whole * C \in Int /\ net * R \in Int /\ k * Whole \in Int
    BY <1>1, <1>3, <1>5, <1>6
  <1>10. Divisor(rates) \in Nat /\ Divisor(rates) >= Whole
    BY <1>3, <1>5, <1>7
  <1>11. /\ 2 * (Whole * LineTotal(net, rates)) <= 2 * (net * Divisor(rates)) + k * Whole
         /\ 2 * (net * Divisor(rates)) - k * Whole <= 2 * (Whole * LineTotal(net, rates))
    BY <1>4, <1>7, <1>8, <1>9
  <1> QED BY <1>10, <1>11 DEF k

-----------------------------------------------------------------------------

\* The number of taxes up to which the cap on the window never binds.
Bounded(rates) == Len(rates) + 1 <= 2 * (MaxRadius - 1)

(* The half-width covers half a cent per rounding, scaled to the net. *)
LEMMA RadiusCovers ==
    ASSUME NEW rates \in Seq(Nat), Bounded(rates)
    PROVE  /\ Radius(rates) \in Int
           /\ (Len(rates) + 1) * Whole + 2 * Divisor(rates) <= 2 * (Divisor(rates) * Radius(rates))
  <1> DEFINE k == Len(rates)
             D == Divisor(rates)
             x == (k + 1) * Whole
             q == (-x) \div (2 * D)
  <1>1. k \in Nat /\ D \in Nat /\ D >= Whole /\ Whole = 10000 /\ Whole \in Nat
    BY TaxFigures, TotalError DEF Whole
  <1>2. x \in Int /\ -x \in Int
    BY <1>1
  <1>3. (-(k + 1) * Whole) \div (2 * D) = q
    <2>1. -(k + 1) * Whole = -x
      BY <1>1
    <2> QED BY <2>1
  <1>4. Radius(rates) = IF -q + Margin <= MaxRadius THEN -q + Margin ELSE MaxRadius
    BY <1>3 DEF Radius
  <1> HIDE DEF k, D, x
  <1>5. q \in Int /\ (2 * D) * q <= -x
    <2>1. 2 * D \in Nat \ {0}
      BY <1>1
    <2> QED BY <1>2, <2>1, QuotientBound
  <1> HIDE DEF q
  <1>6. CASE -q + Margin <= MaxRadius
    <2>1. Radius(rates) = -q + 1
      BY <1>4, <1>6 DEF Margin
    <2>2. 2 * (D * (-q + 1)) = -((2 * D) * q) + 2 * D
      BY <1>1, <1>5
    <2>3. (2 * D) * q \in Int
      BY <1>1, <1>5
    <2>4. x + 2 * D <= 2 * (D * Radius(rates)) /\ Radius(rates) \in Int
      BY <1>1, <1>2, <1>5, <2>1, <2>2, <2>3
    <2> QED BY <2>4 DEF x, k, D
  <1>7. CASE ~ (-q + Margin <= MaxRadius)
    <2>1. Radius(rates) = MaxRadius
      BY <1>4, <1>7
    <2>2. (k + 1) + 2 <= 2 * MaxRadius /\ MaxRadius \in Nat
      BY <1>1 DEF Bounded, k, MaxRadius
    <2>3. (k + 1) * Whole <= (k + 1) * D
      BY <1>1
    <2>4. ((k + 1) + 2) * D <= (2 * MaxRadius) * D
      BY <1>1, <2>2
    <2>5. ((k + 1) + 2) * D = (k + 1) * D + 2 * D /\ (2 * MaxRadius) * D = 2 * (D * MaxRadius)
      BY <1>1, <2>2
    <2>6. (k + 1) * D \in Int /\ D * MaxRadius \in Int /\ (k + 1) * Whole \in Int
      BY <1>1, <2>2
    <2>7. (k + 1) * Whole + 2 * D <= 2 * (D * MaxRadius)
      BY <1>1, <2>3, <2>4, <2>5, <2>6
    <2> QED BY <2>1, <2>2, <2>7 DEF k, D
  <1> QED BY <1>6, <1>7

(* The net of a total is a candidate of the search. *)
LEMMA NetInWindow ==
    ASSUME NEW rates \in Seq(Nat), Bounded(rates), NEW net \in Int
    PROVE  net \in Candidates(LineTotal(net, rates), rates)
  <1> DEFINE k == Len(rates)
             D == Divisor(rates)
             T == LineTotal(net, rates)
             b == Base(T, rates)
             R == Radius(rates)
  <1>1. /\ k \in Nat /\ D \in Nat \ {0} /\ T \in Int /\ Whole \in Nat /\ T * Whole = Whole * T
        /\ Whole * T \in Int
    BY TaxFigures, TotalError, SMTT(30) DEF Whole
  <1>2. /\ 2 * (Whole * T) <= 2 * (net * D) + k * Whole
        /\ 2 * (net * D) - k * Whole <= 2 * (Whole * T)
    BY TotalError
  <1>3. b \in Int /\ 2 * (D * b) <= 2 * (Whole * T) + D /\ 2 * (Whole * T) - D <= 2 * (D * b)
    BY <1>1, RoundedBounds DEF Base
  <1>4. R \in Int /\ (k + 1) * Whole + 2 * D <= 2 * (D * R)
    BY RadiusCovers
  <1> HIDE DEF k, D, T, b, R
  <1>5. (k + 1) * Whole = k * Whole + Whole /\ k * Whole \in Nat
    BY <1>1
  <1>6. net * D = D * net /\ D * net \in Int /\ D * b \in Int /\ D * R \in Int
    BY <1>1, <1>3, <1>4
  <1>7. D * b - D * R <= D * net /\ D * net <= D * b + D * R
    BY <1>1, <1>2, <1>3, <1>4, <1>5, <1>6
  <1>8. ASSUME NEW u \in Int, NEW v \in Int, D * u <= D * v PROVE u <= v
    <2> SUFFICES ASSUME v + 1 <= u PROVE FALSE
      OBVIOUS
    <2>1. D * (v + 1) <= D * u /\ D * (v + 1) = D * v + D
      BY <1>1
    <2>2. D * v \in Int /\ D * u \in Int
      BY <1>1
    <2> QED BY <1>1, <1>8, <2>1, <2>2
  <1>9. D * (b - R) = D * b - D * R /\ D * (b + R) = D * b + D * R
    BY <1>1, <1>3, <1>4
  <1>10. net \in (b - R)..(b + R)
    BY <1>3, <1>4, <1>7, <1>8, <1>9
  <1> QED BY <1>10 DEF Candidates, T, b, R

(* The inverse is exact and complete: for up to 1997 taxes of any          *)
(* non-negative rates, the search finds every net from what it grosses to, *)
(* and nothing else (solve_net_from_gross).                                *)
THEOREM InverseExact ==
    ASSUME NEW rates \in Seq(Nat), Bounded(rates), NEW net \in Int
    PROVE  /\ Solvable(LineTotal(net, rates), rates)
           /\ SolveNet(LineTotal(net, rates), rates) = net
  <1> DEFINE T == LineTotal(net, rates)
  <1>1. net \in Candidates(T, rates)
    BY NetInWindow
  <1>2. ASSUME NEW other \in Candidates(T, rates) PROVE other = net
    <2>1. LineTotal(other, rates) = T
      BY DEF Candidates
    <2>2. other \in Int
      <3>1. Base(T, rates) \in Int /\ Radius(rates) \in Int
        <4>1. T * Whole \in Int /\ Divisor(rates) \in Nat \ {0}
          BY TaxFigures, TotalError DEF Whole
        <4> QED BY <4>1, RoundedBounds, RadiusCovers DEF Base
      <3> QED BY <3>1 DEF Candidates
    <2>3. ~ (LineTotal(net, rates) < LineTotal(net, rates))
      BY TaxFigures
    <2> QED BY <2>1, <2>2, <2>3, TotalIncreases
  <1>3. Candidates(T, rates) = {net}
    BY <1>1, <1>2
  <1>4. Nearer(net, net, T, rates)
    BY DEF Nearer
  <1>5. SolveNet(T, rates) = net
    BY <1>3, <1>4 DEF SolveNet
  <1> QED BY <1>1, <1>5 DEF Solvable

-----------------------------------------------------------------------------

(* The markup a save derives from is an integer of its rung. *)
LEMMA DeriveInt ==
    ASSUME NEW cost \in Nat, NEW markup \in Markup, markup # NoMarkup
    PROVE  DeriveNet(cost, markup) \in Int
  <1>1. markup.pct \in Int /\ markup.unit \in Nat \ {0}
    BY DEF Markup
  <1>2. cost * (100 * markup.unit + markup.pct) \in Int /\ 100 * markup.unit \in Nat \ {0}
    BY <1>1
  <1> QED BY <1>2, RoundedBounds DEF DeriveNet

(* Validation keeps a row a row, whose net is the derived one. *)
LEMMA ValidatedRow ==
    ASSUME NEW row \in Row
    PROVE  /\ Validated(row) \in Row
           /\ Validated(row).cost = row.cost /\ Validated(row).markup = row.markup
           /\ Validated(row).net = Derived(row)
  <1>1. Derived(row) \in Int
    <2>1. CASE row.markup = NoMarkup
      BY <2>1 DEF Derived, Row
    <2>2. CASE row.markup # NoMarkup
      BY <2>2, DeriveInt DEF Derived, Row
    <2> QED BY <2>1, <2>2
  <1> QED BY <1>1 DEF Validated, Row

(* A patch merged into a row is a row. *)
LEMMA MergedRow ==
    ASSUME product \in Row, NEW patch \in Patches
    PROVE  Merged(patch) \in Row
  <1>1. IsPatch(patch)
    BY ProductPricesAssumption
  <1>2. DOMAIN product = {"cost", "net", "markup"}
    BY DEF Row
  <1> QED BY <1>1, <1>2 DEF Merged, Row, IsPatch

(* A set of naturals that is not empty has a least member. *)
LEMMA LeastNatural ==
    ASSUME NEW T \in SUBSET Nat, T # {}
    PROVE  \E x \in T : \A y \in T : x <= y
  <1>1. SUFFICES ASSUME \A x \in T : \E y \in T : ~ (x <= y) PROVE FALSE
    OBVIOUS
  <1> DEFINE S == {n \in Nat : \A m \in 0..n : m \notin T}
  <1>2. 0 \in S
    BY <1>1
  <1>3. \A n \in Nat : n \in S => n + 1 \in S
    <2> SUFFICES ASSUME NEW n \in S PROVE n + 1 \in S
      OBVIOUS
    <2>1. n + 1 \notin T
      BY <1>1
    <2>2. 0..(n + 1) = 0..n \cup {n + 1}
      OBVIOUS
    <2> QED BY <2>1, <2>2
  <1>4. S = Nat
    <2> HIDE DEF S
    <2>1. S \in SUBSET Nat
      BY DEF S
    <2> QED BY <1>2, <1>3, <2>1, InductionBySet
  <1>5. PICK x \in T : TRUE
    OBVIOUS
  <1>6. x \in S
    BY <1>4
  <1> QED BY <1>5, <1>6

(* The net solved is an integer that grosses to the figure. *)
LEMMA NetSolved ==
    ASSUME NEW rates \in Seq(Nat), Bounded(rates), NEW final \in Nat, Solvable(final, rates)
    PROVE  SolveNet(final, rates) \in Int /\ LineTotal(SolveNet(final, rates), rates) = final
  <1>1. PICK net \in Candidates(final, rates) : TRUE
    BY DEF Solvable
  <1>2. net \in Int /\ LineTotal(net, rates) = final
    <2>1. Base(final, rates) \in Int /\ Radius(rates) \in Int
      <3>1. final * Whole \in Int /\ Divisor(rates) \in Nat \ {0}
        BY TotalError, 0 \in Int DEF Whole
      <3> QED BY <3>1, RoundedBounds, RadiusCovers DEF Base
    <2> QED BY <1>1, <2>1 DEF Candidates
  <1> QED BY <1>2, InverseExact

(* The markup solved is one of the ladder, and derives the net again. *)
LEMMA MarkupSolved ==
    ASSUME NEW cost \in Nat \ {0}, NEW net \in Int, Rungs(cost, net) # {}
    PROVE  SolveMarkup(cost, net) \in Markup /\ SolveMarkup(cost, net) # NoMarkup
           /\ DeriveNet(cost, SolveMarkup(cost, net)) = net
  <1>1. Len(Ladder) \in Nat /\ \A i \in 1..Len(Ladder) : Ladder[i] \in Nat \ {0}
    BY PricesAssumption
  <1> DEFINE k == CHOOSE i \in Rungs(cost, net) : \A j \in Rungs(cost, net) : i <= j
  <1>2. Rungs(cost, net) \in SUBSET Nat
    BY <1>1 DEF Rungs
  <1>3. k \in Rungs(cost, net)
    BY <1>2, LeastNatural
  <1> HIDE DEF k
  <1>4. k \in 1..Len(Ladder) /\ Closes(cost, net, Ladder[k])
    BY <1>3 DEF Rungs
  <1>5. (net - cost) * 100 * Ladder[k] \in Int /\ Ladder[k] \in Nat \ {0}
    BY <1>1, <1>4
  <1>6. MarkupAt(cost, net, Ladder[k]) \in [pct : Int, unit : Nat \ {0}]
    BY <1>5, RoundedBounds DEF MarkupAt
  <1>7. MarkupAt(cost, net, Ladder[k]) # NoMarkup
    <2>1. "pct" \in DOMAIN MarkupAt(cost, net, Ladder[k])
      BY <1>6
    <2>2. "pct" \notin DOMAIN NoMarkup
      BY DEF NoMarkup
    <2> QED BY <2>1, <2>2
  <1> QED BY <1>4, <1>6, <1>7 DEF SolveMarkup, Closes, Markup, k

(* What is solved is a net that grosses to the figure, with a markup that  *)
(* derives it where there is one.                                          *)
LEMMA FinalPriceSolved ==
    ASSUME NEW rates \in Seq(Nat), Bounded(rates), NEW final \in Nat, NEW cost \in Nat,
           NEW marked \in BOOLEAN, NEW price, price = FinalPrice(final, cost, marked, rates)
    PROVE  /\ "refused" \in DOMAIN price =>
                 /\ price.refused \in Reasons
                 /\ price.refused = "FinalPriceUnreachable" => ~ Solvable(final, rates)
           /\ "refused" \notin DOMAIN price =>
                 /\ price.net \in Int /\ price.markup \in Markup
                 /\ LineTotal(price.net, rates) = final
                 /\ price.markup # NoMarkup => price.net = DeriveNet(cost, price.markup)
  <1> DEFINE net == SolveNet(final, rates)
  <1>1. CASE price \in {[refused |-> why] : why \in Reasons}
    <2>1. price.refused = "FinalPriceUnreachable" => ~ Solvable(final, rates)
      BY <1>1 DEF FinalPrice
    <2> QED BY <1>1, <2>1
  <1>2. CASE price \notin {[refused |-> why] : why \in Reasons}
    <2> DEFINE R == {[refused |-> why] : why \in Reasons}
    <2>0. /\ [refused |-> "MarkupNeedsPositiveCost"] \in R
          /\ [refused |-> "SalePriceNotPositiveForProduct"] \in R
          /\ [refused |-> "FinalPriceUnreachable"] \in R
          /\ [refused |-> "FinalPriceMarkupUnreachable"] \in R
      BY DEF Reasons
    <2>5. price \notin R
      BY <1>2
    <2> HIDE DEF R
    <2>1. Solvable(final, rates)
      BY <2>0, <2>5, Zenon DEF FinalPrice
    <2>2. net \in Int /\ LineTotal(net, rates) = final
      BY <2>1, NetSolved
    <2>3. CASE cost = 0
      <3>1. price = [net |-> net, markup |-> NoMarkup]
        BY <2>0, <2>5, <2>1, <2>3, Zenon DEF FinalPrice
      <3> QED BY <2>2, <3>1 DEF Markup
    <2>4. CASE cost # 0
      <3>1. price = [net |-> net, markup |-> SolveMarkup(cost, net)] /\ Rungs(cost, net) # {}
        BY <2>0, <2>5, <2>1, <2>4, Zenon DEF FinalPrice
      <3>2. SolveMarkup(cost, net) \in Markup /\ DeriveNet(cost, SolveMarkup(cost, net)) = net
        BY <2>2, <2>4, <3>1, MarkupSolved
      <3> QED BY <2>2, <3>1, <3>2
    <2> QED BY <2>3, <2>4
  <1> QED BY <1>1, <1>2

-----------------------------------------------------------------------------

RowDerived(row) == row.markup # NoMarkup => row.net = DeriveNet(row.cost, row.markup)

\* What a save under way has read is still true of what it will write.
SavesKeep ==
    \A r \in Request : pending[r].step = "write" =>
        /\ RowDerived(pending[r].row)
        /\ pending[r].claim # 0 => LineTotal(pending[r].row.net, taxes) = pending[r].claim

Inv == TypeOK /\ PriceDerived /\ PriceGrosses /\ SavesKeep /\ RefusedFairly

(* The step of a request says what it holds. *)
LEMMA PendingKinds ==
    ASSUME NEW x \in Pending
    PROVE  /\ x.step = "write" => x \in Save
           /\ x.step = "solve" => x \in Screen
           /\ x.step = "refused" => x \in Refusal
  BY DEF Pending, NoSave, Save, Screen, Refusal

(* The search covers every set of taxes a product may have. *)
LEMMA RatesBounded ==
    ASSUME NEW rates \in RateSets
    PROVE  rates \in Seq(Nat) /\ Bounded(rates)
  BY ProductPricesAssumption DEF Bounded

(* A figure no candidate is found for is one no net grosses to. *)
LEMMA UnsolvableUnreachable ==
    ASSUME NEW rates \in RateSets, NEW final \in Nat, ~ Solvable(final, rates)
    PROVE  NetsOf(final, rates) = {}
  <1>1. SUFFICES ASSUME NEW net \in 0..final, LineTotal(net, rates) = final PROVE FALSE
    BY DEF NetsOf
  <1>2. net \in Int
    OBVIOUS
  <1> QED BY <1>1, <1>2, RatesBounded, InverseExact

LEMMA InitInv == Init => Inv
  <1> SUFFICES ASSUME Init PROVE Inv
    OBVIOUS
  <1>1. product \in Row /\ product.markup = NoMarkup /\ taxes \in RateSets /\ typed = 0
    BY ProductPricesAssumption DEF Init, Row, Markup
  <1>2. pending \in [Request -> Pending] /\ \A r \in Request : pending[r].step = "none"
    BY DEF Init, Pending, NoSave
  <1> QED BY <1>1, <1>2 DEF Inv, TypeOK, PriceDerived, PriceGrosses, SavesKeep, RefusedFairly

(* A validated row is derived, and one that was derived is left as it is. *)
LEMMA ValidatedDerived ==
    ASSUME NEW row \in Row
    PROVE  /\ Validated(row) \in Row /\ RowDerived(Validated(row))
           /\ RowDerived(row) => Validated(row).net = row.net
  <1>1. /\ Validated(row) \in Row
        /\ Validated(row).cost = row.cost /\ Validated(row).markup = row.markup
        /\ Validated(row).net = Derived(row)
    BY ValidatedRow
  <1> QED BY <1>1 DEF Derived, RowDerived

(* What one request comes to hold keeps the invariant, if it keeps it for  *)
(* that request.                                                           *)
LEMMA RequestInv ==
    ASSUME Inv, NEW r \in Request, NEW x \in Pending,
           pending' = [pending EXCEPT ![r] = x], UNCHANGED <<product, taxes, typed>>,
           x.step = "write" =>
               /\ RowDerived(x.row)
               /\ x.claim # 0 => LineTotal(x.row.net, taxes) = x.claim,
           x.step = "refused" /\ x.why = "FinalPriceUnreachable" => NetsOf(x.final, x.rates) = {}
    PROVE  Inv'
  <1>1. TypeOK'
    BY DEF Inv, TypeOK
  <1>2. \A q \in Request : pending'[q] = IF q = r THEN x ELSE pending[q]
    BY DEF Inv, TypeOK
  <1>3. SavesKeep'
    BY <1>2 DEF Inv, SavesKeep
  <1>4. RefusedFairly'
    BY <1>2 DEF Inv, RefusedFairly
  <1>5. PriceDerived' /\ PriceGrosses'
    BY DEF Inv, PriceDerived, PriceGrosses
  <1> QED BY <1>1, <1>3, <1>4, <1>5 DEF Inv

LEMMA SaveReadInv ==
    ASSUME Inv, NEW r \in Request, NEW patch \in Patches, SaveRead(r, patch)
    PROVE  Inv'
  <1> DEFINE m == Merged(patch)
             x == [step |-> "write", row |-> Validated(m), claim |-> IF m = product THEN typed ELSE 0]
  <1>1. m \in Row /\ product \in Row /\ typed \in Nat
    BY MergedRow DEF Inv, TypeOK
  <1>2. Validated(m) \in Row /\ RowDerived(Validated(m))
        /\ (RowDerived(m) => Validated(m).net = m.net)
    BY <1>1, ValidatedDerived
  <1>3. x \in Pending
    BY <1>1, <1>2 DEF Pending, Save
  <1>4. x.claim # 0 => LineTotal(x.row.net, taxes) = x.claim
    <2> SUFFICES ASSUME m = product, typed # 0 PROVE LineTotal(Validated(m).net, taxes) = typed
      OBVIOUS
    <2>1. RowDerived(m)
      BY DEF Inv, PriceDerived, RowDerived
    <2> QED BY <1>2, <2>1 DEF Inv, PriceGrosses
  <1>5. pending' = [pending EXCEPT ![r] = x] /\ UNCHANGED <<product, taxes, typed>>
    BY DEF SaveRead
  <1> HIDE DEF m
  <1>6. x.step = "write" /\ x.row = Validated(m)
    OBVIOUS
  <1> HIDE DEF x
  <1> QED BY <1>2, <1>3, <1>4, <1>5, <1>6, RequestInv

LEMMA FinalReadInv ==
    ASSUME Inv, NEW r \in Request, NEW final \in Figures, NEW cost \in UnitCosts,
           FinalRead(r, final, cost)
    PROVE  Inv'
  <1> DEFINE x == [step |-> "solve", final |-> final, cost |-> cost, marked |-> product.markup # NoMarkup]
  <1>1. x \in Pending /\ x.step = "solve"
    BY DEF Pending, Screen
  <1>2. pending' = [pending EXCEPT ![r] = x] /\ UNCHANGED <<product, taxes, typed>>
    BY DEF FinalRead
  <1> HIDE DEF x
  <1> QED BY <1>1, <1>2, RequestInv

LEMMA FinalSolveInv ==
    ASSUME Inv, NEW r \in Request, FinalSolve(r)
    PROVE  Inv'
  <1> DEFINE screen == pending[r]
             price == FinalPrice(screen.final, screen.cost, screen.marked, taxes)
             row == [cost |-> screen.cost, net |-> price.net, markup |-> price.markup]
             refusal == [step |-> "refused", final |-> screen.final, rates |-> taxes, why |-> price.refused]
             save == [step |-> "write", row |-> Validated(row), claim |-> screen.final]
  <1>1. /\ screen.final \in Figures /\ screen.final \in Nat
        /\ screen.cost \in Nat /\ screen.marked \in BOOLEAN /\ taxes \in RateSets
    <2>1. screen \in Screen
      BY PendingKinds DEF Inv, TypeOK, FinalSolve
    <2> QED BY <2>1, ProductPricesAssumption DEF Screen, Inv, TypeOK
  <1>2. taxes \in Seq(Nat) /\ Bounded(taxes)
    BY <1>1, RatesBounded
  <1>3. UNCHANGED <<product, taxes, typed>>
    BY DEF FinalSolve
  <1>4. CASE "refused" \in DOMAIN price
    <2>1. pending' = [pending EXCEPT ![r] = refusal]
      BY <1>4 DEF FinalSolve
    <2>2. price.refused \in Reasons /\ (price.refused = "FinalPriceUnreachable" => ~ Solvable(screen.final, taxes))
      <3> HIDE DEF screen
      <3> QED BY <1>1, <1>2, <1>4, FinalPriceSolved
    <2>3. price.refused = "FinalPriceUnreachable" => NetsOf(screen.final, taxes) = {}
      BY <1>1, <2>2, UnsolvableUnreachable
    <2> HIDE DEF price, screen
    <2>4. refusal \in Pending /\ refusal.step = "refused" /\ refusal.final = screen.final
          /\ refusal.rates = taxes /\ refusal.why = price.refused
      BY <1>1, <2>2 DEF Pending, Refusal
    <2> HIDE DEF refusal
    <2> QED BY <1>3, <2>1, <2>3, <2>4, RequestInv
  <1>5. CASE "refused" \notin DOMAIN price
    <2>1. pending' = [pending EXCEPT ![r] = save]
      BY <1>5 DEF FinalSolve
    <2>2. /\ price.net \in Int /\ price.markup \in Markup /\ LineTotal(price.net, taxes) = screen.final
          /\ price.markup # NoMarkup => price.net = DeriveNet(screen.cost, price.markup)
      <3> HIDE DEF screen
      <3> QED BY <1>1, <1>2, <1>5, FinalPriceSolved
    <2> HIDE DEF price, screen
    <2>3. row \in Row /\ RowDerived(row) /\ row.net = price.net
      BY <1>1, <2>2 DEF Row, RowDerived
    <2> HIDE DEF row
    <2>4. Validated(row) \in Row /\ RowDerived(Validated(row)) /\ Validated(row).net = price.net
      BY <2>3, ValidatedDerived
    <2>5. save \in Pending /\ save.step = "write" /\ save.row = Validated(row) /\ save.claim = screen.final
      BY <1>1, <2>4 DEF Pending, Save
    <2> HIDE DEF save
    <2> QED BY <1>3, <2>1, <2>2, <2>4, <2>5, RequestInv
  <1> QED BY <1>4, <1>5

LEMMA WriteInv ==
    ASSUME Inv, NEW r \in Request, Write(r)
    PROVE  Inv'
  <1>1. pending[r] \in Save /\ pending[r].step = "write"
    BY PendingKinds DEF Inv, TypeOK, Write
  <1>2. /\ product' \in Row /\ typed' \in Nat /\ RowDerived(product')
        /\ typed' # 0 => LineTotal(product'.net, taxes) = typed'
    BY <1>1 DEF Write, Save, Inv, SavesKeep
  <1>3. TypeOK'
    BY <1>2 DEF Write, Inv, TypeOK, Pending
  <1>4. \A q \in Request : pending'[q] = IF q = r THEN NoSave ELSE pending[q]
    BY DEF Write, Inv, TypeOK
  <1>5. NoSave.step = "none"
    BY DEF NoSave
  <1>6. SavesKeep' /\ RefusedFairly'
    BY <1>4, <1>5 DEF Write, Inv, SavesKeep, RefusedFairly
  <1>7. PriceDerived' /\ PriceGrosses'
    BY <1>2 DEF Write, PriceDerived, PriceGrosses, RowDerived
  <1> QED BY <1>3, <1>6, <1>7 DEF Inv

LEMMA TaxesInv ==
    ASSUME Inv, NEW rates \in RateSets, TaxesChange(rates)
    PROVE  Inv'
  <1>1. \A q \in Request :
            /\ pending[q].step = "write" => /\ pending'[q] \in Save
                                            /\ pending'[q].row = pending[q].row /\ pending'[q].claim = 0
            /\ pending[q].step # "write" => pending'[q] = pending[q]
    BY PendingKinds DEF TaxesChange, Inv, TypeOK, Save
  <1>2. pending' \in [Request -> Pending]
    <2>1. \A q \in Request : pending'[q] \in Pending
      BY <1>1 DEF Inv, TypeOK, Pending
    <2> QED BY <2>1 DEF TaxesChange
  <1>3. TypeOK'
    BY <1>2 DEF TaxesChange, Inv, TypeOK
  <1>4. \A q \in Request : pending'[q].step = "write" => pending[q].step = "write"
    BY <1>1
  <1>5. SavesKeep'
    BY <1>1, <1>4 DEF Inv, SavesKeep
  <1>6. \A q \in Request : pending'[q].step = "refused" => pending'[q] = pending[q]
    BY <1>1 DEF Save
  <1>7. RefusedFairly'
    BY <1>6 DEF Inv, RefusedFairly
  <1>8. PriceDerived' /\ PriceGrosses'
    BY DEF TaxesChange, Inv, PriceDerived, PriceGrosses
  <1> QED BY <1>3, <1>5, <1>7, <1>8 DEF Inv

LEMMA NextInv == Inv /\ [Next]_priceVars => Inv'
  <1> SUFFICES ASSUME Inv, [Next]_priceVars PROVE Inv'
    OBVIOUS
  <1>1. ASSUME NEW r \in Request, NEW patch \in Patches, SaveRead(r, patch) PROVE Inv'
    BY <1>1, SaveReadInv
  <1>2. ASSUME NEW r \in Request, NEW final \in Figures, NEW cost \in UnitCosts, FinalRead(r, final, cost)
        PROVE  Inv'
    BY <1>2, FinalReadInv
  <1>3. ASSUME NEW r \in Request, FinalSolve(r) PROVE Inv'
    BY <1>3, FinalSolveInv
  <1>4. ASSUME NEW r \in Request, Write(r) PROVE Inv'
    BY <1>4, WriteInv
  <1>5. ASSUME NEW r \in Request, Stop(r) PROVE Inv'
    <2>1. NoSave \in Pending /\ NoSave.step = "none"
      BY DEF Pending, NoSave
    <2>2. pending' = [pending EXCEPT ![r] = NoSave] /\ UNCHANGED <<product, taxes, typed>>
      BY <1>5 DEF Stop
    <2> QED BY <2>1, <2>2, RequestInv
  <1>6. ASSUME NEW rates \in RateSets, TaxesChange(rates) PROVE Inv'
    BY <1>6, TaxesInv
  <1>7. CASE UNCHANGED priceVars
    BY <1>7 DEF priceVars, Inv, TypeOK, PriceDerived, PriceGrosses, SavesKeep, RefusedFairly
  <1> QED BY <1>1, <1>2, <1>3, <1>4, <1>5, <1>6, <1>7 DEF Next

LEMMA PricesInv == PricesSpec => []Inv
  BY InitInv, NextInv, PTL DEF PricesSpec

(* The net of a product with a markup is always the one its cost and its   *)
(* markup derive, for every set of requests, patches and taxes             *)
(* (update_product writes the whole row it validated).                     *)
THEOREM ProductPriceDerived == PricesSpec => []PriceDerived
  <1>1. Inv => PriceDerived
    BY DEF Inv
  <1> QED BY <1>1, PricesInv, PTL

(* A price that was typed is kept to the cent while nothing it depends on  *)
(* is edited, and one that is called unreachable is: no net grosses to it  *)
(* (solve_final_price, update_product).                                    *)
THEOREM TypedPriceKept == PricesSpec => [](PriceGrosses /\ RefusedFairly)
  <1>1. Inv => PriceGrosses /\ RefusedFairly
    BY DEF Inv
  <1> QED BY <1>1, PricesInv, PTL

(* Nothing is due on nothing. *)
LEMMA NothingOnNothing ==
    ASSUME NEW rates \in Seq(Nat)
    PROVE  LineTotal(0, rates) = 0
  <1> DEFINE v == [i \in 1..Len(rates) |-> Contribution(0, rates[i])]
  <1>1. Len(rates) \in Nat /\ \A i \in 1..Len(rates) : rates[i] \in Nat
    OBVIOUS
  <1>2. \A i \in 1..Len(rates) : v[i] = 0
    <2> SUFFICES ASSUME NEW i \in 1..Len(rates) PROVE v[i] = 0
      OBVIOUS
    <2>1. rates[i] \in Nat /\ 0 * rates[i] = 0
      BY <1>1
    <2>2. Rounded(0, Whole) = 0
      BY DEF Rounded, Whole
    <2> QED BY <2>1, <2>2 DEF Contribution
  <1>3. SumOver(v, Len(rates)) = 0
    <2> HIDE DEF v
    <2> QED BY <1>1, <1>2, SumOverZero
  <1> QED BY <1>3 DEF LineTotal, TaxTotal

(* A price is solved to a net of at least a cent. *)
LEMMA SolvedPositive ==
    ASSUME NEW rates \in Seq(Nat), Bounded(rates), NEW final \in Nat \ {0}, Solvable(final, rates)
    PROVE  SolveNet(final, rates) \in Nat \ {0}
  <1>1. PICK net : net = SolveNet(final, rates)
    OBVIOUS
  <1>2. net \in Int /\ LineTotal(net, rates) = final
    BY <1>1, NetSolved
  <1>3. LineTotal(0, rates) = 0
    BY NothingOnNothing
  <1>4. ~ (net < 0)
    <2> SUFFICES ASSUME net < 0 PROVE FALSE
      OBVIOUS
    <2>1. LineTotal(net, rates) < LineTotal(0, rates)
      BY <1>2, 0 \in Int, TotalIncreases
    <2> QED BY <1>2, <1>3, <2>1
  <1>5. net # 0
    BY <1>2, <1>3
  <1> QED BY <1>1, <1>2, <1>4, <1>5

(* A rung that divides a percent into more parts than the cost has cents   *)
(* moves a derived price by less than half a cent: its markup derives the  *)
(* net.                                                                    *)
LEMMA FineRungCloses ==
    ASSUME NEW cost \in Nat \ {0}, NEW net \in Nat \ {0}, NEW unit \in Nat \ {0}, cost < 100 * unit
    PROVE  Closes(cost, net, unit)
  <1>1. PICK U \in Nat \ {0} : U = 100 * unit
    OBVIOUS
  <1>2. PICK a \in Int : a = (net - cost) * 100 * unit
    <2>1. (net - cost) * 100 * unit \in Int
      OBVIOUS
    <2> QED BY <2>1
  <1>3. a = net * U - cost * U /\ net * U \in Int /\ cost * U \in Int
    <2>1. PICK d \in Int : d = net - cost
      OBVIOUS
    <2>2. a = d * U
      BY <1>1, <1>2, <2>1
    <2>3. d * U = net * U - cost * U
      BY <2>1
    <2> QED BY <2>2, <2>3
  <1>4. PICK p \in Int : p = Rounded(a, cost)
    BY RoundedBounds
  <1>5. 2 * (cost * p) <= 2 * a + cost /\ 2 * a - cost <= 2 * (cost * p)
    BY <1>4, RoundedBounds
  <1>6. PICK b \in Int : b = cost * (U + p)
    <2>1. cost * (U + p) \in Int
      OBVIOUS
    <2> QED BY <2>1
  <1>7. b = cost * U + cost * p /\ cost * p \in Int
    BY <1>6
  <1>8. 2 * b <= 2 * (net * U) + cost /\ 2 * (net * U) - cost <= 2 * b
    BY <1>3, <1>5, <1>7
  <1>9. PICK n \in Int : n = Rounded(b, U)
    BY RoundedBounds
  <1>10. 2 * (U * n) <= 2 * b + U /\ 2 * b - U <= 2 * (U * n)
    BY <1>9, RoundedBounds
  <1>11. n = net
    <2>1. U * n \in Int /\ cost < U
      BY <1>1
    <2>2. U * n < net * U + U /\ net * U - U < U * n
      BY <1>3, <1>8, <1>10, <2>1
    <2>3. ~ (n >= net + 1)
      <3> SUFFICES ASSUME n >= net + 1 PROVE FALSE
        OBVIOUS
      <3>1. PICK e \in Nat : n = net + 1 + e
        <4>1. n - (net + 1) \in Nat /\ n = net + 1 + (n - (net + 1))
          OBVIOUS
        <4> QED BY <4>1
      <3>2. U * n = net * U + U + U * e /\ U * e \in Nat
        BY <3>1
      <3> QED BY <1>3, <2>1, <2>2, <3>2
    <2>4. ~ (n <= net - 1)
      <3> SUFFICES ASSUME n <= net - 1 PROVE FALSE
        OBVIOUS
      <3>1. PICK e \in Nat : n = net - 1 - e
        <4>1. net - 1 - n \in Nat /\ n = net - 1 - (net - 1 - n)
          OBVIOUS
        <4> QED BY <4>1
      <3>2. U * n = net * U - U - U * e /\ U * e \in Nat
        BY <3>1
      <3> QED BY <1>3, <2>1, <2>2, <3>2
    <2> QED BY <2>3, <2>4
  <1>12. p > -U
    <2> SUFFICES ASSUME p <= -U PROVE FALSE
      OBVIOUS
    <2>1. PICK e \in Nat : U + p = -e
      <3>1. -(U + p) \in Nat /\ U + p = -(-(U + p))
        OBVIOUS
      <3> QED BY <3>1
    <2>2. b = -(cost * e) /\ cost * e \in Nat
      BY <1>6, <2>1
    <2>3. net * U >= U
      <3>1. PICK e2 \in Nat : net = 1 + e2
        <4>1. net - 1 \in Nat /\ net = 1 + (net - 1)
          OBVIOUS
        <4> QED BY <4>1
      <3>2. net * U = U + e2 * U /\ e2 * U \in Nat
        BY <3>1
      <3> QED BY <3>2
    <2> QED BY <1>1, <1>3, <1>8, <2>2, <2>3
  <1>13. PICK markup : markup = MarkupAt(cost, net, unit)
    OBVIOUS
  <1>14. markup = [pct |-> p, unit |-> unit]
    BY <1>2, <1>4, <1>13 DEF MarkupAt
  <1>15. MarkupLegal(markup)
    <2>1. -100 * unit = -U
      BY <1>1
    <2> QED BY <1>12, <1>14, <2>1 DEF MarkupLegal
  <1>16. DeriveNet(cost, markup) = net
    <2>1. 100 * markup.unit = U /\ markup.pct = p
      BY <1>1, <1>14
    <2> QED BY <1>6, <1>9, <1>11, <2>1 DEF DeriveNet
  <1> QED BY <1>13, <1>15, <1>16 DEF Closes

\* The ladder has a rung that fine for every cost on the screens: the code's
\* goes down to 24 decimals, fine enough for every cost below 10^24.
FineLadder == \E i \in 1..Len(Ladder) : \A cost \in UnitCosts : cost < 100 * Ladder[i]

(* There, a price is never refused for want of a markup. *)
LEMMA FinalPriceMarked ==
    ASSUME FineLadder, NEW rates \in Seq(Nat), Bounded(rates), NEW final \in Nat,
           NEW cost \in UnitCosts, NEW marked \in BOOLEAN, NEW price,
           price = FinalPrice(final, cost, marked, rates), "refused" \in DOMAIN price
    PROVE  price.refused # "FinalPriceMarkupUnreachable"
  <1> SUFFICES ASSUME price.refused = "FinalPriceMarkupUnreachable" PROVE FALSE
    OBVIOUS
  <1>1. cost \in Nat
    BY ProductPricesAssumption
  <1>2. PICK net : net = SolveNet(final, rates)
    OBVIOUS
  <1>3. /\ final > 0 /\ Solvable(final, rates)
        /\ cost # 0 => Rungs(cost, net) = {}
        /\ cost # 0
    BY <1>2 DEF FinalPrice
  <1>4. net \in Nat \ {0}
    BY <1>2, <1>3, SolvedPositive
  <1>5. PICK i \in 1..Len(Ladder) : cost < 100 * Ladder[i]
    BY DEF FineLadder
  <1>6. Ladder[i] \in Nat \ {0}
    BY PricesAssumption
  <1>7. Closes(cost, net, Ladder[i])
    BY <1>1, <1>3, <1>4, <1>5, <1>6, FineRungCloses
  <1> QED BY <1>3, <1>7 DEF Rungs

(* No request is answered so. *)
LEMMA MarkupFoundStep == FineLadder /\ Inv /\ MarkupFound /\ [Next]_priceVars => MarkupFound'
  <1> SUFFICES ASSUME FineLadder, Inv, MarkupFound, [Next]_priceVars PROVE MarkupFound'
    OBVIOUS
  <1>1. ASSUME NEW r \in Request, NEW x, x.step # "refused", pending' = [pending EXCEPT ![r] = x]
        PROVE  MarkupFound'
    <2>1. \A q \in Request : pending'[q] = IF q = r THEN x ELSE pending[q]
      BY <1>1 DEF Inv, TypeOK
    <2> QED BY <1>1, <2>1 DEF MarkupFound
  <1>2. ASSUME NEW r \in Request, NEW patch \in Patches, SaveRead(r, patch) PROVE MarkupFound'
    <2>1. PICK row, claim : /\ row = Validated(Merged(patch))
                            /\ claim = IF Merged(patch) = product THEN typed ELSE 0
      OBVIOUS
    <2>2. PICK x : x = [step |-> "write", row |-> row, claim |-> claim]
      OBVIOUS
    <2>3. x.step # "refused" /\ pending' = [pending EXCEPT ![r] = x]
      BY <1>2, <2>1, <2>2 DEF SaveRead
    <2> QED BY <1>1, <2>3
  <1>3. ASSUME NEW r \in Request, NEW final \in Figures, NEW cost \in UnitCosts, FinalRead(r, final, cost)
        PROVE  MarkupFound'
    <2>1. PICK marked : marked = (product.markup # NoMarkup)
      OBVIOUS
    <2>2. PICK x : x = [step |-> "solve", final |-> final, cost |-> cost, marked |-> marked]
      OBVIOUS
    <2>3. x.step # "refused" /\ pending' = [pending EXCEPT ![r] = x]
      BY <1>3, <2>1, <2>2 DEF FinalRead
    <2> QED BY <1>1, <2>3
  <1>4. ASSUME NEW r \in Request, FinalSolve(r) PROVE MarkupFound'
    <2>1. PICK screen : screen = pending[r]
      OBVIOUS
    <2>2. screen \in Screen
      BY <1>4, <2>1, PendingKinds DEF Inv, TypeOK, FinalSolve
    <2>3. /\ screen.final \in Nat /\ screen.cost \in UnitCosts /\ screen.marked \in BOOLEAN
          /\ taxes \in Seq(Nat) /\ Bounded(taxes)
      BY <2>2, RatesBounded, ProductPricesAssumption DEF Screen, Inv, TypeOK
    <2>4. PICK price : price = FinalPrice(screen.final, screen.cost, screen.marked, taxes)
      OBVIOUS
    <2>5. CASE "refused" \in DOMAIN price
      <3>1. PICK x : x = [step |-> "refused", final |-> screen.final, rates |-> taxes, why |-> price.refused]
        OBVIOUS
      <3>2. pending' = [pending EXCEPT ![r] = x]
        BY <1>4, <2>1, <2>4, <2>5, <3>1 DEF FinalSolve
      <3>3. x.why # "FinalPriceMarkupUnreachable"
        <4>1. price.refused # "FinalPriceMarkupUnreachable"
          BY <2>3, <2>4, <2>5, FinalPriceMarked
        <4> QED BY <3>1, <4>1
      <3>4. \A q \in Request : pending'[q] = IF q = r THEN x ELSE pending[q]
        BY <3>2 DEF Inv, TypeOK
      <3> QED BY <3>3, <3>4 DEF MarkupFound
    <2>6. CASE "refused" \notin DOMAIN price
      <3>1. PICK row : row = Validated([cost |-> screen.cost, net |-> price.net, markup |-> price.markup])
        OBVIOUS
      <3>2. PICK x : x = [step |-> "write", row |-> row, claim |-> screen.final]
        OBVIOUS
      <3>3. pending' = [pending EXCEPT ![r] = x]
        BY <1>4, <2>1, <2>4, <2>6, <3>1, <3>2 DEF FinalSolve
      <3> QED BY <1>1, <3>2, <3>3
    <2> QED BY <2>5, <2>6
  <1>5. ASSUME NEW r \in Request, Write(r) PROVE MarkupFound'
    BY <1>1, <1>5 DEF Write, NoSave
  <1>6. ASSUME NEW r \in Request, Stop(r) PROVE MarkupFound'
    BY <1>1, <1>6 DEF Stop, NoSave
  <1>7. ASSUME NEW rates \in RateSets, TaxesChange(rates) PROVE MarkupFound'
    <2> SUFFICES ASSUME NEW q \in Request, pending'[q].step = "refused"
                 PROVE  pending'[q].why # "FinalPriceMarkupUnreachable"
      BY DEF MarkupFound
    <2>1. pending[q] \in Pending
      BY DEF Inv, TypeOK
    <2>2. CASE pending[q].step = "write"
      <3>1. pending'[q].step = "write"
        BY <1>7, <2>1, <2>2, PendingKinds DEF TaxesChange, Save
      <3> QED BY <3>1
    <2>3. CASE pending[q].step # "write"
      <3>1. pending'[q] = pending[q]
        BY <1>7, <2>3 DEF TaxesChange
      <3> QED BY <3>1 DEF MarkupFound
    <2> QED BY <2>2, <2>3
  <1>8. CASE UNCHANGED priceVars
    BY <1>8 DEF priceVars, MarkupFound
  <1> QED BY <1>2, <1>3, <1>4, <1>5, <1>6, <1>7, <1>8 DEF Next

(* Where the ladder has a rung fine enough for the costs on the screens, a *)
(* typed price is kept to the cent or refused for the one good reason: no  *)
(* net grosses to it.  A markup that stores the net is always found        *)
(* (solve_markup's refusal is a backstop).                                 *)
THEOREM PriceAlwaysKept == FineLadder => (PricesSpec => []PriceKept)
  <1>1. Init => MarkupFound
    BY DEF Init, MarkupFound, NoSave
  <1>2. CASE FineLadder
    <2>1. Inv /\ MarkupFound /\ [Next]_priceVars => MarkupFound'
      BY <1>2, MarkupFoundStep
    <2>2. Inv /\ MarkupFound => PriceKept
      BY DEF Inv, PriceKept
    <2> QED BY <1>1, <2>1, <2>2, PricesInv, PTL DEF PricesSpec
  <1> QED BY <1>2

=============================================================================
