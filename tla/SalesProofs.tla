----------------------------- MODULE SalesProofs -----------------------------
(***************************************************************************)
(* Proofs about Sales for every set of products, customers, accounts and   *)
(* requests and every bound.  However requests overlap and fail: the       *)
(* types; that the table implements SaleDocument, so that its numbers are  *)
(* dense and unique and a numbered sale is frozen; that the ledgers hold   *)
(* nothing of a sale that was not confirmed, every payment row has its     *)
(* transactions and no movement takes a level below zero.  With requests   *)
(* served one at a time: a sale is shipped as sold, paid within its total, *)
(* settled where it was sold for cash, and the customer's debt stays       *)
(* within the limit.  Where, besides, none dies half way: an annulled sale *)
(* is reversed, its goods come back once, and a receipt of Receipts groups *)
(* what was handed over.                                                   *)
(***************************************************************************)
EXTENDS Receipts, SumsProofs, SequenceTheorems

DocumentLaws == INSTANCE SaleDocumentProofs

-----------------------------------------------------------------------------
(* What the helpers return.                                                *)

(* The total of a list of lines is a natural number. *)
LEMMA TotalNat ==
    ASSUME NEW lines \in Seq(Line)
    PROVE  Total(lines) \in Nat
  <1> DEFINE w == [i \in 1..Len(lines) |-> lines[i].total]
  <1>1. \A i \in 1..Len(lines) : w[i] \in Nat
    <2> SUFFICES ASSUME NEW i \in 1..Len(lines) PROVE lines[i].total \in Nat
      OBVIOUS
    <2>1. lines[i] \in Line
      BY ElementOfSeq
    <2> QED BY <2>1, SalesAssumption DEF Line
  <1>2. Len(lines) \in Nat
    OBVIOUS
  <1> HIDE DEF w
  <1>3. SumOver(w, Len(lines)) \in Nat
    BY <1>1, <1>2, SumOverNat
  <1> QED BY <1>3 DEF Total, w

(* The least member of a set of ids is one of them. *)
LEMMA FirstIn ==
    ASSUME NEW ids \in SUBSET Nat, ids # {}
    PROVE  First(ids) \in ids
  BY LeastMember DEF First

TrackedLine == [product : Tracked, qty : Qty, total : LineTotal]

\* g gathers the tracked lines among the first i lines, for every i up to n.
Gathers(g, lines, n) ==
    g = [i \in 0..n |->
            IF i = 0 THEN <<>>
            ELSE IF lines[i].product \in Tracked THEN Append(g[i - 1], lines[i])
            ELSE g[i - 1]]

(* The gathering function exists, as for running sums. *)
LEMMA GathersExists ==
    ASSUME NEW lines, NEW n \in Nat
    PROVE  \E g : Gathers(g, lines, n)
  <1> DEFINE Next1(i, x) == IF lines[i].product \in Tracked THEN Append(x, lines[i]) ELSE x
             S == {k \in Nat : \E g : Gathers(g, lines, k)}
  <1>1. 0 \in S
    <2>1. Gathers([i \in 0..0 |-> <<>>], lines, 0)
      BY DEF Gathers
    <2> QED BY <2>1
  <1>2. ASSUME NEW k \in Nat, k \in S PROVE k + 1 \in S
    <2>1. PICK g : Gathers(g, lines, k)
      BY <1>2
    <2>2. \A i \in 0..k : g[i] = IF i = 0 THEN <<>> ELSE Next1(i, g[i - 1])
      BY <2>1 DEF Gathers
    <2> DEFINE h == [i \in 0..(k + 1) |-> IF i = k + 1 THEN Next1(k + 1, g[k]) ELSE g[i]]
    <2>3. h = [i \in 0..(k + 1) |-> IF i = 0 THEN <<>> ELSE Next1(i, h[i - 1])]
      <3> HIDE DEF Next1
      <3> SUFFICES ASSUME NEW i \in 0..(k + 1)
                   PROVE  h[i] = IF i = 0 THEN <<>> ELSE Next1(i, h[i - 1])
        OBVIOUS
      <3>1. CASE i = k + 1
        <4>1. i # 0 /\ i - 1 = k /\ k \in 0..(k + 1) /\ k # k + 1
          BY <3>1
        <4> QED BY <3>1, <4>1
      <3>2. CASE i # k + 1
        <4>1. i \in 0..k
          BY <3>2
        <4>2. i # 0 => i - 1 \in 0..k /\ i - 1 # k + 1 /\ i - 1 \in 0..(k + 1)
          BY <4>1
        <4> QED BY <3>2, <4>1, <4>2, <2>2
      <3> QED BY <3>1, <3>2
    <2>4. Gathers(h, lines, k + 1)
      BY <2>3 DEF Gathers
    <2> QED BY <2>4
  <1>3. S \in SUBSET Nat
    OBVIOUS
  <1>4. S = Nat
    <2> HIDE DEF S
    <2> QED BY <1>1, <1>2, <1>3, InductionBySet
  <1> QED BY <1>4

(* The tracked lines are lines of tracked products. *)
LEMMA TrackedLinesTyped ==
    ASSUME NEW lines \in Seq(Line)
    PROVE  TrackedLines(lines) \in Seq(TrackedLine)
  <1> DEFINE n == Len(lines)
             g == CHOOSE g : Gathers(g, lines, n)
             S == {k \in Nat : k <= n => g[k] \in Seq(TrackedLine)}
  <1>0. n \in Nat
    OBVIOUS
  <1>1. Gathers(g, lines, n)
    BY <1>0, GathersExists
  <1>2. TrackedLines(lines) = g[n]
    BY DEF TrackedLines, Gathers
  <1> HIDE DEF g
  <1>3. \A i \in 0..n : g[i] = IF i = 0 THEN <<>>
                              ELSE IF lines[i].product \in Tracked THEN Append(g[i - 1], lines[i])
                              ELSE g[i - 1]
    BY <1>1 DEF Gathers
  <1>4. 0 \in S
    <2>1. 0 \in 0..n
      BY <1>0
    <2>2. g[0] = <<>>
      BY <1>3, <2>1
    <2> QED BY <2>2, EmptySeq
  <1>5. ASSUME NEW k \in Nat, k \in S PROVE k + 1 \in S
    <2> SUFFICES ASSUME k + 1 <= n PROVE g[k + 1] \in Seq(TrackedLine)
      OBVIOUS
    <2>1. g[k] \in Seq(TrackedLine) /\ k + 1 \in 1..Len(lines) /\ k + 1 \in 0..n /\ k + 1 # 0
          /\ (k + 1) - 1 = k
      BY <1>5, <1>0
    <2>2. lines[k + 1] \in Line
      BY <2>1, ElementOfSeq
    <2>3. lines[k + 1].product \in Tracked => lines[k + 1] \in TrackedLine
      BY <2>2 DEF Line, TrackedLine
    <2>4. g[k + 1] = IF lines[k + 1].product \in Tracked THEN Append(g[k], lines[k + 1]) ELSE g[k]
      BY <1>3, <2>1
    <2> HIDE DEF n
    <2>5. CASE lines[k + 1].product \in Tracked
      BY <2>1, <2>3, <2>4, <2>5
    <2>6. CASE lines[k + 1].product \notin Tracked
      BY <2>1, <2>4, <2>6
    <2> QED BY <2>5, <2>6
  <1>6. S \in SUBSET Nat
    OBVIOUS
  <1>7. S = Nat
    <2> HIDE DEF S
    <2> QED BY <1>4, <1>5, <1>6, InductionBySet
  <1>8. n \in S
    BY <1>0, <1>7
  <1> QED BY <1>0, <1>2, <1>8

-----------------------------------------------------------------------------
(* The typing invariant: the types, what a request under way relies on,    *)
(* and that a payment belongs to a numbered sale.                          *)

Cancelling == {"cancelCheck", "reverse", "link"}

Posting == {"payPost", "payLink"} \cup Cancelling

\* What a request q relies on: its rows exist, and their sale is numbered.
Relies(q) ==
    /\ q.step # "idle" => q.sale \in 1..Len(sales)
    /\ q.step \in Posting => Numbered(q.sale)
    /\ q.step \in {"payLink", "link"} => q.tx \in 1..Len(entries)
    /\ q.step = "link" => q.pays # {}
    /\ q.step \in Cancelling =>
           /\ q.pays \subseteq 1..Len(payments)
           /\ \A i \in q.lines : /\ i \in 1..Len(sales[q.sale].lines)
                                 /\ sales[q.sale].lines[i].product \in Tracked

Typed ==
    /\ TypeOK
    /\ \A s \in 1..Len(sales) :
           /\ sales[s].status \in {"Draft", "deleted"} => ~ Numbered(s)
           /\ sales[s].status = "Confirmed" => Numbered(s)
    /\ \A i \in 1..Len(payments) :
           payments[i].sale \in 1..Len(sales) /\ Numbered(payments[i].sale)
    /\ \A r \in Request : Relies(req[r])

\* How one sale is rewritten, with what happens to the sequence.
Rewritten(s, x) ==
    \/ /\ sales[s].status = "Draft"
       /\ x = [sales[s] EXCEPT !.lines = x.lines]
       /\ UNCHANGED lastNumber
    \/ /\ ~ Numbered(s)
       /\ x = [sales[s] EXCEPT !.status = "deleted", !.lines = <<>>]
       /\ UNCHANGED lastNumber
    \/ /\ sales[s].status # "deleted"
       /\ x = [sales[s] EXCEPT !.year = x.year]
       /\ UNCHANGED lastNumber
    \/ /\ sales[s].status # "deleted"
       /\ x = [sales[s] EXCEPT !.status = "Cancelled"]
       /\ UNCHANGED lastNumber
    \/ \E y \in Year :
       /\ sales[s].status = "Draft"
       /\ x = [sales[s] EXCEPT !.status = "Confirmed", !.number = <<y, lastNumber[y] + 1>>]
       /\ lastNumber' = [lastNumber EXCEPT ![y] = @ + 1]

\* The three things a step can do to the sales table.
TableStep ==
    \/ UNCHANGED <<sales, lastNumber>>
    \/ /\ UNCHANGED lastNumber /\ Len(sales) < MaxSales
       /\ \E x \in Sale : /\ x.status = "Draft" /\ x.number = NoNumber
                          /\ sales' = Append(sales, x)
    \/ \E s \in 1..Len(sales) : \E x \in Sale :
          sales' = [sales EXCEPT ![s] = x] /\ Rewritten(s, x)

\* What every step leaves to a request and to the rows that refer to a sale.
Grows ==
    /\ 1..Len(sales) \subseteq 1..Len(sales')
    /\ 1..Len(entries) \subseteq 1..Len(entries')
    /\ 1..Len(payments) \subseteq 1..Len(payments')
    /\ \A s \in 1..Len(sales) : Numbered(s) =>
           sales'[s].number = sales[s].number /\ sales'[s].lines = sales[s].lines

(* The shape of a request's state follows from its step. *)
LEMMA RequestShape ==
    ASSUME TypeOK, NEW r \in Request
    PROVE  /\ req[r] \in RequestState
           /\ req[r].step = "header" => req[r].year \in Year
           /\ req[r].step \in {"confirmCheck", "confirmUnit"} => req[r].seen \in Sale
           /\ req[r].step \in {"payPost", "payLink"} => req[r].amount \in PayAmount
           /\ req[r].step = "payLink" => req[r].account \in Account
           /\ req[r].step # "idle" => req[r].sale \in SaleId
           /\ req[r].step \in Cancelling =>
                  req[r].pays \in SUBSET Nat /\ req[r].lines \in SUBSET Nat
           /\ req[r].step = "link" => req[r].lines = {}
           /\ req[r].step \in {"payLink", "link"} => req[r].tx \in Nat \ {0}
           /\ req[r].step = "idle" => req[r] = Idle
           /\ Idle \in RequestState /\ Idle.step = "idle"
  <1>1. req[r] \in RequestState
    BY DEF TypeOK
  <1> QED BY <1>1 DEF RequestState, Idle, Cancelling

(* A request that moves on, or ends, does not disturb the types. *)
LEMMA RequestMoves ==
    ASSUME TypeOK, NEW r \in Request, NEW st \in RequestState, Becomes(r, st)
    PROVE  /\ req' \in [Request -> RequestState] /\ req'[r] = st
           /\ \A o \in Request : o # r => req'[o] = req[o]
  BY DEF TypeOK, Becomes

(* What a request relies on stays. *)
LEMMA ReliesKept ==
    ASSUME TypeOK, Grows, NEW q \in RequestState, Relies(q)
    PROVE  Relies(q)'
  <1>1. /\ q.step # "idle" => q.sale \in 1..Len(sales')
        /\ q.step \in {"payLink", "link"} => q.tx \in 1..Len(entries')
        /\ q.step \in Cancelling => q.pays \subseteq 1..Len(payments')
    BY DEF Relies, Grows
  <1>2. q.step \in Posting =>
            /\ sales'[q.sale].number # NoNumber
            /\ sales'[q.sale].lines = sales[q.sale].lines
    BY DEF Relies, Grows, Numbered, Posting, Cancelling
  <1>3. q.step \in Cancelling => q.step \in Posting
    BY DEF Posting
  <1> QED BY <1>1, <1>2, <1>3 DEF Relies, Numbered

-----------------------------------------------------------------------------
(* The sales table.                                                        *)

(* A rewritten sale keeps what Grows asks for, and its stamp fits. *)
LEMMA RewrittenKeeps ==
    ASSUME Typed, NEW s \in 1..Len(sales), NEW x \in Sale, Rewritten(s, x)
    PROVE  /\ Numbered(s) => x.number = sales[s].number /\ x.lines = sales[s].lines
           /\ x.status \in {"Draft", "deleted"} => x.number = NoNumber
           /\ x.status = "Confirmed" => x.number # NoNumber
           /\ lastNumber' \in [Year -> Nat]
  <1>1. sales[s] \in Sale /\ lastNumber \in [Year -> Nat]
    BY ElementOfSeq DEF Typed, TypeOK
  <1>2. /\ sales[s].status \in {"Draft", "deleted"} => sales[s].number = NoNumber
        /\ sales[s].status = "Confirmed" => sales[s].number # NoNumber
    BY DEF Typed, Numbered
  <1>3. CASE \E y \in Year :
             /\ sales[s].status = "Draft"
             /\ x = [sales[s] EXCEPT !.status = "Confirmed", !.number = <<y, lastNumber[y] + 1>>]
             /\ lastNumber' = [lastNumber EXCEPT ![y] = @ + 1]
    <2>1. PICK y \in Year :
             /\ sales[s].status = "Draft"
             /\ x = [sales[s] EXCEPT !.status = "Confirmed", !.number = <<y, lastNumber[y] + 1>>]
             /\ lastNumber' = [lastNumber EXCEPT ![y] = @ + 1]
      BY <1>3
    <2>2. x.status = "Confirmed" /\ x.number = <<y, lastNumber[y] + 1>>
      BY <1>1, <2>1 DEF Sale
    <2>3. x.number # NoNumber
      BY <2>2 DEF NoNumber
    <2>4. lastNumber' \in [Year -> Nat]
      BY <1>1, <2>1
    <2> QED BY <1>2, <2>1, <2>2, <2>3, <2>4 DEF Numbered
  <1>4. CASE lastNumber' = lastNumber
    <2> QED BY <1>1, <1>2, <1>4, <1>3 DEF Rewritten, Sale, Numbered
  <1> QED BY <1>3, <1>4 DEF Rewritten

\* What a step on the table leaves: its types, stamps that fit, and numbered sales as they were.
TableKept ==
    /\ sales' \in Seq(Sale) /\ Len(sales') <= MaxSales
    /\ lastNumber' \in [Year -> Nat]
    /\ 1..Len(sales) \subseteq 1..Len(sales')
    /\ \A s \in 1..Len(sales) : Numbered(s) =>
           sales'[s].number = sales[s].number /\ sales'[s].lines = sales[s].lines
    /\ \A s \in 1..Len(sales') :
           /\ sales'[s].status \in {"Draft", "deleted"} => sales'[s].number = NoNumber
           /\ sales'[s].status = "Confirmed" => sales'[s].number # NoNumber

(* Every step on the table leaves that. *)
LEMMA TableTyped ==
    ASSUME Typed, TableStep
    PROVE  TableKept
  <1>1. sales \in Seq(Sale) /\ Len(sales) <= MaxSales /\ lastNumber \in [Year -> Nat]
        /\ Len(sales) \in Nat
    BY DEF Typed, TypeOK
  <1>2. \A s \in 1..Len(sales) :
            /\ sales[s].status \in {"Draft", "deleted"} => sales[s].number = NoNumber
            /\ sales[s].status = "Confirmed" => sales[s].number # NoNumber
    BY DEF Typed, Numbered
  <1>3. CASE UNCHANGED <<sales, lastNumber>>
    BY <1>1, <1>2, <1>3 DEF TableKept
  <1>4. CASE /\ UNCHANGED lastNumber /\ Len(sales) < MaxSales
             /\ \E x \in Sale : /\ x.status = "Draft" /\ x.number = NoNumber
                                /\ sales' = Append(sales, x)
    <2>1. PICK x \in Sale : /\ x.status = "Draft" /\ x.number = NoNumber
                            /\ sales' = Append(sales, x)
      BY <1>4
    <2>2. /\ sales' \in Seq(Sale) /\ Len(sales') = Len(sales) + 1 /\ sales'[Len(sales) + 1] = x
          /\ \A s \in 1..Len(sales) : sales'[s] = sales[s]
      BY <1>1, <2>1
    <2>3. \A s \in 1..Len(sales') : s \in 1..Len(sales) \/ sales'[s] = x
      BY <1>1, <2>2
    <2>4. Len(sales') <= MaxSales /\ 1..Len(sales) \subseteq 1..Len(sales')
      BY <1>1, <1>4, <2>2, SalesAssumption
    <2> QED BY <1>1, <1>2, <1>4, <2>1, <2>2, <2>3, <2>4 DEF TableKept
  <1>5. ASSUME NEW s \in 1..Len(sales), NEW x \in Sale,
               sales' = [sales EXCEPT ![s] = x], Rewritten(s, x)
        PROVE  TableKept
    <2>1. /\ sales' \in Seq(Sale) /\ Len(sales') = Len(sales) /\ sales'[s] = x
          /\ \A t \in 1..Len(sales) : t # s => sales'[t] = sales[t]
      BY <1>1, <1>5, ExceptSeq
    <2>2. /\ Numbered(s) => x.number = sales[s].number /\ x.lines = sales[s].lines
          /\ x.status \in {"Draft", "deleted"} => x.number = NoNumber
          /\ x.status = "Confirmed" => x.number # NoNumber
          /\ lastNumber' \in [Year -> Nat]
      BY <1>5, RewrittenKeeps
    <2> QED BY <1>1, <1>2, <2>1, <2>2 DEF TableKept
  <1> QED BY <1>3, <1>4, <1>5 DEF TableStep

(* Every step of a request or of a client is one of these on the table. *)
LEMMA StepOnTable ==
    ASSUME Typed, [Next]_vars
    PROVE  TableStep
  <1>1. sales \in Seq(Sale) /\ lastNumber \in [Year -> Nat]
        /\ \A s \in 1..Len(sales) : sales[s] \in Sale /\ Len(sales[s].lines) \in Nat
                                    /\ sales[s].lines \in Seq(Line)
    <2>1. \A s \in 1..Len(sales) : sales[s] \in Sale
      BY ElementOfSeq DEF Typed, TypeOK
    <2>2. \A s \in 1..Len(sales) : sales[s].lines \in Seq(Line)
      BY <2>1 DEF Sale
    <2> QED BY <2>1, <2>2, LenProperties DEF Typed, TypeOK
  <1>2. ASSUME UNCHANGED <<sales, lastNumber>> PROVE TableStep
    BY <1>2 DEF TableStep
  <1>3. ASSUME NEW y \in Year, NEW ptype \in {"Cash", "Credit"}, NEW c \in Customer,
               CreateDraft(y, ptype, c)
        PROVE  TableStep
    <2> DEFINE x == [status |-> "Draft", number |-> NoNumber, year |-> y,
                     ptype |-> ptype, customer |-> c, lines |-> <<>>]
    <2>1. x \in Sale
      BY EmptySeq DEF Sale, Status, Number
    <2>2. x.status = "Draft" /\ x.number = NoNumber
      OBVIOUS
    <2>3. sales' = Append(sales, x) /\ UNCHANGED lastNumber /\ Len(sales) < MaxSales
      BY <1>3 DEF CreateDraft
    <2> HIDE DEF x
    <2> QED BY <2>1, <2>2, <2>3 DEF TableStep
  <1>4. ASSUME NEW s \in 1..Len(sales), NEW lines \in Seq(Line), EditLines(s, lines)
        PROVE  TableStep
    <2> DEFINE x == [sales[s] EXCEPT !.lines = lines]
    <2>1. x \in Sale /\ x = [sales[s] EXCEPT !.lines = x.lines]
      BY <1>1 DEF Sale
    <2>2. sales' = [sales EXCEPT ![s] = x] /\ UNCHANGED lastNumber /\ sales[s].status = "Draft"
      BY <1>4 DEF EditLines, Rewrite, Is
    <2> HIDE DEF x
    <2> QED BY <2>1, <2>2 DEF TableStep, Rewritten
  <1>5. ASSUME NEW s \in 1..Len(sales), NEW line \in Line, AddLine(s, line) PROVE TableStep
    <2>1. Append(sales[s].lines, line) \in Seq(Line)
      BY <1>1
    <2> QED BY <1>4, <1>5, <2>1 DEF AddLine
  <1>6. ASSUME NEW s \in 1..Len(sales), NEW i \in 1..MaxLines, NEW qty \in Qty,
               NEW total \in LineTotal, UpdateLine(s, i, qty, total)
        PROVE  TableStep
    <2>1. i \in 1..Len(sales[s].lines)
      BY <1>6 DEF UpdateLine
    <2>2. [sales[s].lines[i] EXCEPT !.qty = qty, !.total = total] \in Line
      <3>1. sales[s].lines[i] \in Line
        BY <1>1, <2>1, ElementOfSeq
      <3> QED BY <3>1 DEF Line
    <2>3. [sales[s].lines EXCEPT ![i] = [@ EXCEPT !.qty = qty, !.total = total]] \in Seq(Line)
      BY <1>1, <2>1, <2>2, ExceptSeq
    <2> QED BY <1>4, <1>6, <2>3 DEF UpdateLine
  <1>7. ASSUME NEW s \in 1..Len(sales), NEW i \in 1..MaxLines, RemoveLine(s, i)
        PROVE  TableStep
    <2>1. i \in 1..Len(sales[s].lines)
      BY <1>7 DEF RemoveLine
    <2>2. RemoveAt(sales[s].lines, i) \in Seq(Line)
      BY <1>1, <2>1 DEF RemoveAt
    <2> QED BY <1>4, <1>7, <2>2 DEF RemoveLine
  <1>8. ASSUME NEW s \in 1..Len(sales), DeleteDraft(s) PROVE TableStep
    <2> DEFINE x == [sales[s] EXCEPT !.status = "deleted", !.lines = <<>>]
    <2>1. x \in Sale
      BY <1>1, EmptySeq DEF Sale, Status
    <2>2. sales' = [sales EXCEPT ![s] = x] /\ UNCHANGED lastNumber /\ ~ Numbered(s)
      BY <1>8 DEF DeleteDraft, Rewrite, Is, Typed, Numbered
    <2>3. Rewritten(s, x)
      BY <2>2 DEF Rewritten
    <2> HIDE DEF x
    <2> QED BY <2>1, <2>2, <2>3 DEF TableStep
  <1>9. ASSUME Drafting PROVE TableStep
    BY <1>9, <1>3, <1>5, <1>6, <1>7, <1>8 DEF Drafting
  <1>10. ASSUME NEW r \in Request, HeaderWrite(r) PROVE TableStep
    <2> DEFINE s == req[r].sale
               x == [sales[s] EXCEPT !.year = req[r].year]
    <2>1. s \in 1..Len(sales) /\ req[r].year \in Year
      BY <1>10, RequestShape DEF HeaderWrite, Typed, Relies
    <2>2. x \in Sale /\ x = [sales[s] EXCEPT !.year = x.year]
      BY <1>1, <2>1 DEF Sale
    <2>3. sales' = [sales EXCEPT ![s] = x] /\ UNCHANGED lastNumber /\ sales[s].status # "deleted"
      BY <1>10 DEF HeaderWrite, Rewrite
    <2> HIDE DEF x
    <2> QED BY <2>1, <2>2, <2>3 DEF TableStep, Rewritten
  <1>11. ASSUME NEW r \in Request, Discard(r) \/ CancelClose(r) PROVE TableStep
    <2> DEFINE s == req[r].sale
               x == [sales[s] EXCEPT !.status = "Cancelled"]
    <2>1. s \in 1..Len(sales) /\ (req[r].step = "reverse" => Numbered(s))
      BY <1>11 DEF Discard, CancelClose, Typed, Relies, Posting, Cancelling
    <2>2. x \in Sale
      BY <1>1, <2>1 DEF Sale, Status
    <2>3. sales' = [sales EXCEPT ![s] = x] /\ UNCHANGED lastNumber
      BY <1>11 DEF Discard, CancelClose, Rewrite
    <2>4. sales[s].status # "deleted"
      BY <1>11, <2>1 DEF Discard, CancelClose, Typed
    <2>5. Rewritten(s, x)
      BY <2>3, <2>4 DEF Rewritten
    <2> HIDE DEF x, s
    <2> QED BY <2>1, <2>2, <2>3, <2>5 DEF TableStep
  <1>12. ASSUME NEW r \in Request, NEW a \in Account, ConfirmUnit(r, a) PROVE TableStep
    <2> DEFINE s == req[r].sale
               y == req[r].seen.year
               x == [sales[s] EXCEPT !.status = "Confirmed", !.number = <<y, lastNumber[y] + 1>>]
    <2>1. s \in 1..Len(sales) /\ req[r].seen \in Sale
      BY <1>12, RequestShape DEF ConfirmUnit, Typed, Relies
    <2>2. y \in Year /\ lastNumber[y] + 1 \in Nat \ {0}
      BY <1>1, <2>1 DEF Sale
    <2>3. x \in Sale
      BY <1>1, <2>1, <2>2 DEF Sale, Status, Number
    <2>4. /\ sales' = [sales EXCEPT ![s] = x] /\ sales[s].status = "Draft"
          /\ lastNumber' = [lastNumber EXCEPT ![y] = @ + 1]
      BY <1>12 DEF ConfirmUnit, UnitAccepts, Rewrite, NextNumber
    <2>5. Rewritten(s, x)
      BY <2>2, <2>4 DEF Rewritten
    <2> HIDE DEF x, s
    <2> QED BY <2>1, <2>3, <2>4, <2>5 DEF TableStep
  <1>13. ASSUME NEW r \in Request, Works(r) PROVE TableStep
    <2>1. \/ HeaderWrite(r) \/ Discard(r) \/ CancelClose(r)
          \/ \E a \in Account : ConfirmUnit(r, a)
          \/ UNCHANGED <<sales, lastNumber>>
      BY <1>13 DEF Works, ConfirmCheck, PayPost, PayLink, CancelCheck, ReturnLine, RefundPost,
                   RefundLink, Unwritten
    <2> QED BY <2>1, <1>2, <1>10, <1>11, <1>12
  <1>14. ASSUME NEW r \in Request, Starts(r) \/ Quit(r) PROVE TableStep
    <2>1. UNCHANGED <<sales, lastNumber>>
      BY <1>14 DEF Starts, Quit, HeaderRead, ConfirmRead, CancelRead, PayRead, Unwritten
    <2> QED BY <2>1, <1>2
  <1>15. ASSUME \/ \E a \in Account, amount \in PayAmount : ManualExpense(a, amount)
                \/ \E id \in 1..Len(entries) :
                    \/ ManualDelete(id)
                    \/ \E kind \in Kind, amount \in PayAmount : ManualUpdate(id, kind, amount)
         PROVE  TableStep
    <2>1. UNCHANGED <<sales, lastNumber>>
      BY <1>15 DEF ManualExpense, ManualDelete, ManualUpdate
    <2> QED BY <2>1, <1>2
  <1> QED BY <1>2, <1>9, <1>13, <1>14, <1>15 DEF Next, vars

-----------------------------------------------------------------------------
(* The typing invariant is inductive.                                      *)

\* What a step leaves in the ledgers: types, no fewer rows, payments of numbered sales.
RowsKept ==
    /\ moves' \in Seq(Move) /\ entries' \in Seq(Entry) /\ payments' \in Seq(Payment)
    /\ Len(entries) <= Len(entries') /\ Len(payments) <= Len(payments')
    /\ \A i \in 1..Len(payments') :
           \/ i \in 1..Len(payments) /\ payments'[i].sale = payments[i].sale
           \/ /\ payments'[i].sale \in 1..Len(sales')
              /\ sales'[payments'[i].sale].number # NoNumber

\* A request is what it was, or relies on what is there.
RequestsKept ==
    /\ req' \in [Request -> RequestState]
    /\ \A r \in Request : \A q \in RequestState : req'[r] = q => req[r] = q \/ Relies(q)'

(* A step that does these three things leaves the rows a request relies on. *)
LEMMA KeptGrows ==
    ASSUME Typed, TableKept, RowsKept
    PROVE  Grows
  <1>1. /\ Len(entries) \in Nat /\ Len(entries') \in Nat
        /\ Len(payments) \in Nat /\ Len(payments') \in Nat
    BY LenProperties DEF Typed, TypeOK, RowsKept
  <1> QED BY <1>1 DEF RowsKept, TableKept, Grows

(* A step that does these three things preserves the invariant. *)
LEMMA KeptTyped ==
    ASSUME Typed, TableKept, RowsKept, RequestsKept
    PROVE  Typed'
  <1>1. Grows
    BY KeptGrows
  <1>2. TypeOK'
    BY DEF TypeOK, TableKept, RowsKept, RequestsKept
  <1>3. (\A s \in 1..Len(sales) :
            /\ sales[s].status \in {"Draft", "deleted"} => ~ Numbered(s)
            /\ sales[s].status = "Confirmed" => Numbered(s))'
    BY DEF TableKept, Numbered
  <1>4. (\A i \in 1..Len(payments) :
            payments[i].sale \in 1..Len(sales) /\ Numbered(payments[i].sale))'
    <2> SUFFICES ASSUME NEW i \in 1..Len(payments')
                 PROVE  payments'[i].sale \in 1..Len(sales')
                        /\ sales'[payments'[i].sale].number # NoNumber
      BY DEF Numbered
    <2>1. CASE i \in 1..Len(payments) /\ payments'[i].sale = payments[i].sale
      <3>1. PICK s : s = payments[i].sale
        OBVIOUS
      <3>2. s \in 1..Len(sales) /\ Numbered(s)
        BY <2>1, <3>1 DEF Typed
      <3> QED BY <2>1, <3>1, <3>2, <1>1 DEF Grows, Numbered
    <2> QED BY <2>1 DEF RowsKept
  <1>5. (\A r \in Request : Relies(req[r]))'
    <2> SUFFICES ASSUME NEW r \in Request PROVE Relies(req[r])'
      OBVIOUS
    <2>1. PICK q \in RequestState : q = req'[r]
      BY DEF RequestsKept
    <2>2. req[r] = q => Relies(q)
      BY DEF Typed
    <2>3. Relies(q) => Relies(q)'
      BY <1>1, ReliesKept DEF Typed
    <2>4. Relies(q)'
      BY <2>1, <2>2, <2>3 DEF RequestsKept
    <2> QED BY <2>1, <2>4 DEF Relies
  <1> QED BY <1>2, <1>3, <1>4, <1>5 DEF Typed

(* One request moves on and the others wait. *)
LEMMA OneMoves ==
    ASSUME Typed, NEW r \in Request, NEW st \in RequestState, Becomes(r, st), Relies(st)'
    PROVE  RequestsKept
  <1>1. /\ req' \in [Request -> RequestState] /\ req'[r] = st
        /\ \A o \in Request : o # r => req'[o] = req[o]
    BY RequestMoves DEF Typed
  <1> SUFFICES ASSUME NEW o \in Request, NEW q \in RequestState, req'[o] = q
               PROVE  req[o] = q \/ Relies(q)'
    BY <1>1 DEF RequestsKept
  <1>2. CASE o = r
    <2>1. q = st
      BY <1>1, <1>2
    <2> QED BY <2>1
  <1>3. CASE o # r
    BY <1>1, <1>3
  <1> QED BY <1>2, <1>3

(* A request that ends relies on nothing. *)
LEMMA OneEnds ==
    ASSUME Typed, NEW r \in Request, Becomes(r, Idle)
    PROVE  RequestsKept
  <1>1. Idle \in RequestState
    BY DEF RequestState
  <1>2. Relies(Idle)'
    BY DEF Relies, Idle, Posting, Cancelling
  <1> QED BY <1>1, <1>2, OneMoves

(* A request that only read moves on to what holds now. *)
LEMMA OneReads ==
    ASSUME Typed, NEW r \in Request, NEW st \in RequestState, Becomes(r, st), Relies(st),
           TableKept, RowsKept
    PROVE  RequestsKept
  <1>1. Relies(st)'
    BY KeptGrows, ReliesKept DEF Typed
  <1> QED BY <1>1, OneMoves

(* Ledgers a step leaves alone are kept. *)
LEMMA RowsSame ==
    ASSUME Typed, UNCHANGED <<moves, entries, payments>>
    PROVE  RowsKept
  <1>1. Len(entries) <= Len(entries) /\ Len(payments) <= Len(payments)
    BY LenProperties DEF Typed, TypeOK
  <1> QED BY <1>1 DEF Typed, TypeOK, RowsKept

(* Requests a step leaves alone are kept. *)
LEMMA RequestsSame ==
    ASSUME Typed, UNCHANGED req
    PROVE  RequestsKept
  BY DEF Typed, TypeOK, RequestsKept

(* Drafts are worked on by no request, where none is to be alone, and write *)
(* the table of sales only; a manual operation writes entries only.        *)
LEMMA ClientsWrite ==
    /\ Drafting => Quiet /\ UNCHANGED <<lastNumber, moves, entries, payments, req>>
    /\ \A a, amount : ManualExpense(a, amount) =>
           Quiet /\ UNCHANGED <<sales, lastNumber, moves, payments, req>>
    /\ \A id : ManualDelete(id) => Quiet /\ UNCHANGED <<sales, lastNumber, moves, payments, req>>
    /\ \A id, kind, amount : ManualUpdate(id, kind, amount) =>
           Quiet /\ UNCHANGED <<sales, lastNumber, moves, payments, req>>
  <1>1. ASSUME NEW y, NEW ptype, NEW c, CreateDraft(y, ptype, c)
        PROVE  Quiet /\ UNCHANGED <<lastNumber, moves, entries, payments, req>>
    BY <1>1 DEF CreateDraft
  <1>2. ASSUME NEW s, NEW line, AddLine(s, line)
        PROVE  Quiet /\ UNCHANGED <<lastNumber, moves, entries, payments, req>>
    BY <1>2 DEF AddLine, EditLines
  <1>3. ASSUME NEW s, NEW i, NEW qty, NEW total, UpdateLine(s, i, qty, total)
        PROVE  Quiet /\ UNCHANGED <<lastNumber, moves, entries, payments, req>>
    BY <1>3 DEF UpdateLine, EditLines
  <1>4. ASSUME NEW s, NEW i, RemoveLine(s, i)
        PROVE  Quiet /\ UNCHANGED <<lastNumber, moves, entries, payments, req>>
    BY <1>4 DEF RemoveLine, EditLines
  <1>5. ASSUME NEW s, DeleteDraft(s)
        PROVE  Quiet /\ UNCHANGED <<lastNumber, moves, entries, payments, req>>
    BY <1>5 DEF DeleteDraft
  <1>6. Drafting => Quiet /\ UNCHANGED <<lastNumber, moves, entries, payments, req>>
    BY <1>1, <1>2, <1>3, <1>4, <1>5 DEF Drafting
  <1>7. \A a, amount : ManualExpense(a, amount) =>
           Quiet /\ UNCHANGED <<sales, lastNumber, moves, payments, req>>
    BY DEF ManualExpense
  <1>8. \A id : ManualDelete(id) => Quiet /\ UNCHANGED <<sales, lastNumber, moves, payments, req>>
    BY DEF ManualDelete
  <1>9. \A id, kind, amount : ManualUpdate(id, kind, amount) =>
           Quiet /\ UNCHANGED <<sales, lastNumber, moves, payments, req>>
    BY DEF ManualUpdate
  <1> QED BY <1>6, <1>7, <1>8, <1>9

(* Where a request starts or ends without an answer no table changes. *)
LEMMA FirstWritesNothing ==
    ASSUME NEW r \in Request, Starts(r) \/ Quit(r)
    PROVE  Unwritten
  <1>1. Quit(r) => Unwritten
    BY DEF Quit
  <1>2. Starts(r) => Unwritten
    BY DEF Starts, HeaderRead, ConfirmRead, CancelRead, PayRead
  <1> QED BY <1>1, <1>2

(* The next number of a year is one. *)
LEMMA NextNumberIn ==
    ASSUME Typed, NEW year \in Year
    PROVE  /\ lastNumber[year] + 1 \in Nat \ {0}
           /\ NextNumber(year) \in Number /\ NextNumber(year) # NoNumber
  <1>1. lastNumber \in [Year -> Nat]
    BY DEF Typed, TypeOK
  <1>2. PICK n \in Nat : n = lastNumber[year]
    BY <1>1
  <1>3. n + 1 \in Nat \ {0}
    OBVIOUS
  <1> QED BY <1>2, <1>3 DEF NextNumber, Number, NoNumber

(* A client that edits drafts or finance transactions. *)
LEMMA ClientsKeep ==
    ASSUME Typed,
           \/ Drafting
           \/ \E a \in Account, amount \in PayAmount : ManualExpense(a, amount)
           \/ \E id \in 1..Len(entries) :
                \/ ManualDelete(id)
                \/ \E kind \in Kind, amount \in PayAmount : ManualUpdate(id, kind, amount)
    PROVE  RowsKept /\ RequestsKept
  <1>1. moves \in Seq(Move) /\ entries \in Seq(Entry) /\ payments \in Seq(Payment)
        /\ Len(entries) \in Nat /\ Len(payments) \in Nat
    BY LenProperties DEF Typed, TypeOK
  <1>2. UNCHANGED req
    BY ClientsWrite
  <1>3. ASSUME UNCHANGED <<moves, payments>>, entries' \in Seq(Entry),
               Len(entries) <= Len(entries')
        PROVE  RowsKept
    BY <1>1, <1>3 DEF RowsKept
  <1>4. ASSUME Drafting PROVE RowsKept
    <2>1. UNCHANGED <<moves, entries, payments>>
      BY <1>4, ClientsWrite
    <2> QED BY <2>1, RowsSame
  <1>5. ASSUME NEW a \in Account, NEW amount \in PayAmount, ManualExpense(a, amount)
        PROVE  RowsKept
    <2> DEFINE e == [kind |-> "Expense", account |-> a, amount |-> amount, number |-> NoNumber]
    <2>1. e \in Entry
      BY SalesAssumption DEF Entry, Kind, Number
    <2>2. entries' = Append(entries, e) /\ UNCHANGED <<moves, payments>>
      BY <1>5 DEF ManualExpense
    <2> HIDE DEF e
    <2> QED BY <1>1, <1>3, <2>1, <2>2
  <1>6. ASSUME NEW id \in 1..Len(entries), NEW e \in Entry,
               entries' = [entries EXCEPT ![id] = e], UNCHANGED <<moves, payments>>
        PROVE  RowsKept
    <2>1. entries' \in Seq(Entry) /\ Len(entries') = Len(entries)
      BY <1>1, <1>6, ExceptSeq
    <2> QED BY <1>1, <1>3, <1>6, <2>1
  <1>7. ASSUME NEW id \in 1..Len(entries), ManualDelete(id) PROVE RowsKept
    <2> DEFINE e == [entries[id] EXCEPT !.kind = "deleted"]
    <2>1. entries[id] \in Entry
      BY <1>1, ElementOfSeq
    <2>2. e \in Entry
      BY <2>1 DEF Entry
    <2>3. entries' = [entries EXCEPT ![id] = e] /\ UNCHANGED <<moves, payments>>
      BY <1>7 DEF ManualDelete
    <2> HIDE DEF e
    <2> QED BY <1>6, <2>2, <2>3
  <1>8. ASSUME NEW id \in 1..Len(entries), NEW kind \in Kind, NEW amount \in PayAmount,
               ManualUpdate(id, kind, amount)
        PROVE  RowsKept
    <2> DEFINE e == [entries[id] EXCEPT !.kind = kind, !.amount = amount]
    <2>1. entries[id] \in Entry
      BY <1>1, ElementOfSeq
    <2>2. e \in Entry
      BY <2>1, SalesAssumption DEF Entry
    <2>3. entries' = [entries EXCEPT ![id] = e] /\ UNCHANGED <<moves, payments>>
      BY <1>8 DEF ManualUpdate
    <2> HIDE DEF e
    <2> QED BY <1>6, <2>2, <2>3
  <1> QED BY <1>2, <1>4, <1>5, <1>7, <1>8, RequestsSame

(* A request that starts has only read. *)
LEMMA StartsKeep ==
    ASSUME Typed, TableKept, NEW r \in Request, Starts(r)
    PROVE  RowsKept /\ RequestsKept
  <1>1. RowsKept
    <2>1. UNCHANGED <<moves, entries, payments>>
      BY DEF Starts, HeaderRead, ConfirmRead, CancelRead, PayRead, Unwritten
    <2> QED BY <2>1, RowsSame
  <1>2. PICK s \in 1..Len(sales) :
            \/ \E y \in Year : HeaderRead(r, s, y)
            \/ ConfirmRead(r, s) \/ CancelRead(r, s)
            \/ \E amount \in PayAmount : PayRead(r, s, amount)
    BY DEF Starts
  <1>3. sales[s] \in Sale /\ s \in SaleId
    <2>1. sales[s] \in Sale
      BY ElementOfSeq DEF Typed, TypeOK
    <2>2. s \in Nat /\ 1 <= s /\ s <= MaxSales
      BY LenProperties, SalesAssumption DEF Typed, TypeOK
    <2> QED BY <2>1, <2>2, SalesAssumption DEF SaleId
  <1>4. ASSUME NEW st \in RequestState, Becomes(r, st), Relies(st) PROVE RequestsKept
    BY <1>1, <1>4, OneReads
  <1>5. ASSUME NEW y \in Year, HeaderRead(r, s, y) PROVE RequestsKept
    <2> DEFINE st == [step |-> "header", sale |-> s, year |-> y]
    <2>1. st \in RequestState
      BY <1>3 DEF RequestState
    <2>2. Relies(st)
      BY DEF Relies, Posting, Cancelling
    <2>3. Becomes(r, st)
      BY <1>5 DEF HeaderRead
    <2> QED BY <2>1, <2>2, <2>3, <1>4
  <1>6. ASSUME ConfirmRead(r, s) PROVE RequestsKept
    <2> DEFINE st == [step |-> "confirmCheck", sale |-> s, seen |-> sales[s]]
    <2>1. st \in RequestState
      BY <1>3 DEF RequestState
    <2>2. Relies(st)
      BY DEF Relies, Posting, Cancelling
    <2>3. Becomes(r, st)
      BY <1>6 DEF ConfirmRead
    <2> QED BY <2>1, <2>2, <2>3, <1>4
  <1>7. ASSUME Becomes(r, [step |-> "discard", sale |-> s]) PROVE RequestsKept
    <2> DEFINE st == [step |-> "discard", sale |-> s]
    <2>1. st \in RequestState
      BY <1>3 DEF RequestState
    <2>2. Relies(st)
      BY DEF Relies, Posting, Cancelling
    <2> QED BY <2>1, <2>2, <1>7, <1>4
  <1>8. ASSUME sales[s].status = "Confirmed", Becomes(r, ToReverse(s)) PROVE RequestsKept
    <2>1. PICK pays : pays = PaymentsOf(s)
      OBVIOUS
    <2>2. PICK lines : lines = {i \in 1..Len(sales[s].lines) : sales[s].lines[i].product \in Tracked}
      OBVIOUS
    <2> DEFINE st == [step |-> "cancelCheck", sale |-> s, pays |-> pays, lines |-> lines]
    <2>3. Becomes(r, st)
      BY <1>8, <2>1, <2>2 DEF ToReverse
    <2>4. pays \subseteq 1..Len(payments) /\ pays \in SUBSET Nat
      BY <2>1, LenProperties DEF PaymentsOf, Typed, TypeOK
    <2>5. lines \in SUBSET Nat
      BY <2>2, <1>3, LenProperties DEF Sale
    <2>6. st \in RequestState
      BY <1>3, <2>4, <2>5 DEF RequestState
    <2>7. Numbered(s)
      BY <1>8 DEF Typed
    <2>8. Relies(st)
      BY <2>2, <2>4, <2>7 DEF Relies, Posting, Cancelling
    <2> QED BY <2>3, <2>6, <2>8, <1>4
  <1>9. ASSUME NEW amount \in PayAmount, PayRead(r, s, amount) PROVE RequestsKept
    <2> DEFINE st == [step |-> "payPost", sale |-> s, amount |-> amount]
    <2>1. st \in RequestState
      BY <1>3 DEF RequestState
    <2>2. Numbered(s)
      BY <1>9 DEF PayRead, Is, Typed
    <2>3. Relies(st)
      BY <2>2 DEF Relies, Posting, Cancelling
    <2>4. Becomes(r, st)
      BY <1>9 DEF PayRead
    <2> QED BY <2>1, <2>3, <2>4, <1>4
  <1>10. CancelRead(r, s) => \/ Becomes(r, [step |-> "discard", sale |-> s])
                             \/ sales[s].status = "Confirmed" /\ Becomes(r, ToReverse(s))
    BY DEF CancelRead, Is
  <1> QED BY <1>1, <1>2, <1>5, <1>6, <1>7, <1>8, <1>9, <1>10

(* A confirm posts well-formed rows for a sale that is now numbered. *)
LEMMA ConfirmKeeps ==
    ASSUME Typed, TableKept, NEW r \in Request, NEW a \in Account, ConfirmUnit(r, a)
    PROVE  RowsKept
  <1> DEFINE s == req[r].sale
             lines == req[r].seen.lines
             number == NextNumber(req[r].seen.year)
             total == Total(lines)
  <1>1. s \in 1..Len(sales) /\ s \in SaleId /\ req[r].seen \in Sale
    BY RequestShape DEF ConfirmUnit, Typed, Relies
  <1>2. req[r].seen.year \in Year /\ lines \in Seq(Line)
    BY <1>1 DEF Sale
  <1>3. number \in Number /\ number # NoNumber
    BY <1>2, NextNumberIn
  <1>4. moves \in Seq(Move) /\ entries \in Seq(Entry) /\ payments \in Seq(Payment)
        /\ Len(entries) \in Nat /\ Len(payments) \in Nat /\ sales \in Seq(Sale)
    BY LenProperties DEF Typed, TypeOK
  <1>5. total \in Nat
    BY <1>2, TotalNat
  <1>6. sales'[s].number = number /\ s \in 1..Len(sales')
    <2>1. sales' = [sales EXCEPT ![s] = [sales[s] EXCEPT !.status = "Confirmed", !.number = number]]
      BY DEF ConfirmUnit, Rewrite
    <2>2. sales[s] \in Sale
      BY <1>1, <1>4, ElementOfSeq
    <2> HIDE DEF s, number
    <2> QED BY <1>1, <1>4, <2>1, <2>2 DEF TableKept, Sale
  <1>7. moves' \in Seq(Move)
    <2> DEFINE out == TrackedLines(lines)
               new == [i \in 1..Len(out) |->
                         [product |-> out[i].product, out |-> TRUE, qty |-> out[i].qty,
                          number |-> number]]
    <2>1. out \in Seq(TrackedLine)
      BY <1>2, TrackedLinesTyped
    <2>2. moves' = moves \o new
      BY DEF ConfirmUnit, ShipLines
    <2> HIDE DEF number, lines, out
    <2>3. \A i \in 1..Len(out) :
              [product |-> out[i].product, out |-> TRUE, qty |-> out[i].qty,
               number |-> number] \in Move
      <3> SUFFICES ASSUME NEW i \in 1..Len(out)
                   PROVE  [product |-> out[i].product, out |-> TRUE, qty |-> out[i].qty,
                           number |-> number] \in Move
        OBVIOUS
      <3>1. out[i] \in TrackedLine
        BY <2>1, ElementOfSeq
      <3> QED BY <3>1, <1>3 DEF TrackedLine, Move
    <2>4. new \in Seq(Move)
      <3>1. Len(out) \in Nat
        BY <2>1, LenProperties
      <3> QED BY <2>3, <3>1, IsASeq
    <2> HIDE DEF new
    <2> QED BY <1>4, <2>2, <2>4, ConcatProperties
  <1>8. CASE UNCHANGED <<entries, payments>>
    BY <1>4, <1>7, <1>8 DEF RowsKept
  <1>9. CASE ~ UNCHANGED <<entries, payments>>
    <2> DEFINE e == [kind |-> "Income", account |-> a, amount |-> total, number |-> number]
               pay == [sale |-> s, account |-> a, amount |-> total, tx |-> Len(entries) + 1,
                       refund |-> 0]
    <2>1. total > 0 /\ entries' = Append(entries, e) /\ payments' = Append(payments, pay)
      BY <1>9 DEF ConfirmUnit, PostCash
    <2>2. e \in Entry
      BY <1>3, <1>5, <2>1 DEF Entry, Kind
    <2>3. pay \in Payment /\ pay.sale = s
      <3>1. s \in Nat \ {0}
        BY <1>1 DEF SaleId
      <3> QED BY <1>4, <1>5, <2>1, <3>1 DEF Payment
    <2> HIDE DEF e, pay, s, total, number, lines
    <2>4. entries' \in Seq(Entry) /\ payments' \in Seq(Payment)
          /\ Len(entries') = Len(entries) + 1 /\ Len(payments') = Len(payments) + 1
      BY <1>4, <2>1, <2>2, <2>3, AppendProperties
    <2>5. ASSUME NEW i \in 1..Len(payments')
          PROVE  \/ i \in 1..Len(payments) /\ payments'[i].sale = payments[i].sale
                 \/ payments'[i].sale = s
      BY <1>4, <2>1, <2>3, <2>4, AppendProperties
    <2>6. ASSUME NEW i \in 1..Len(payments')
          PROVE  \/ i \in 1..Len(payments) /\ payments'[i].sale = payments[i].sale
                 \/ /\ payments'[i].sale \in 1..Len(sales')
                    /\ sales'[payments'[i].sale].number # NoNumber
      BY <1>3, <1>6, <2>5
    <2>7. Len(entries) <= Len(entries') /\ Len(payments) <= Len(payments')
      BY <1>4, <2>4
    <2> QED BY <1>7, <2>4, <2>6, <2>7 DEF RowsKept
  <1> QED BY <1>8, <1>9

(* A payment posts its Income, then its row. *)
LEMMA PayKeeps ==
    ASSUME Typed, TableKept, NEW r \in Request,
           (\E a \in Account : PayPost(r, a)) \/ PayLink(r)
    PROVE  RowsKept /\ RequestsKept
  <1>1. moves \in Seq(Move) /\ entries \in Seq(Entry) /\ payments \in Seq(Payment)
        /\ Len(entries) \in Nat /\ Len(payments) \in Nat /\ sales \in Seq(Sale)
    BY LenProperties DEF Typed, TypeOK
  <1>2. ASSUME NEW a \in Account, PayPost(r, a) PROVE RowsKept /\ RequestsKept
    <2>1. PICK q : q = req[r]
      OBVIOUS
    <2>2. /\ q.step = "payPost" /\ q.amount \in PayAmount /\ q.sale \in SaleId
          /\ q.sale \in 1..Len(sales) /\ Numbered(q.sale)
      BY <1>2, <2>1, RequestShape DEF PayPost, Typed, Relies, Posting
    <2>3. PICK e : e = [kind |-> "Income", account |-> a, amount |-> q.amount,
                        number |-> sales[q.sale].number]
      OBVIOUS
    <2>4. e \in Entry
      <3>1. sales[q.sale] \in Sale
        BY <1>1, <2>2, ElementOfSeq
      <3>2. sales[q.sale].number \in Number
        BY <3>1 DEF Sale
      <3> QED BY <2>2, <2>3, <3>2, SalesAssumption DEF Entry, Kind
    <2>5. entries' = Append(entries, e) /\ UNCHANGED <<sales, moves, payments>>
      BY <1>2, <2>1, <2>3 DEF PayPost
    <2>6. entries' \in Seq(Entry) /\ Len(entries') = Len(entries) + 1
      BY <1>1, <2>4, <2>5, AppendProperties
    <2>7. RowsKept
      BY <1>1, <2>5, <2>6 DEF RowsKept
    <2>8. PICK st : st = [step |-> "payLink", sale |-> q.sale, account |-> a,
                          amount |-> q.amount, tx |-> Len(entries) + 1]
      OBVIOUS
    <2>9. st \in RequestState
      BY <1>1, <2>2, <2>8 DEF RequestState
    <2>10. Becomes(r, st)
      BY <1>2, <2>1, <2>8 DEF PayPost
    <2>11. Relies(st)'
      BY <1>1, <2>2, <2>5, <2>6, <2>8 DEF Relies, Posting, Cancelling, Numbered
    <2> QED BY <2>7, <2>9, <2>10, <2>11, OneMoves
  <1>3. ASSUME PayLink(r) PROVE RowsKept /\ RequestsKept
    <2>1. PICK q : q = req[r]
      OBVIOUS
    <2>2. /\ q.step = "payLink" /\ q.amount \in PayAmount /\ q.account \in Account
          /\ q.sale \in SaleId /\ q.tx \in Nat \ {0}
          /\ q.sale \in 1..Len(sales) /\ Numbered(q.sale)
      BY <1>3, <2>1, RequestShape DEF PayLink, Typed, Relies, Posting
    <2>3. PICK pay : pay = PaymentRow(q, q.tx)
      OBVIOUS
    <2>4. pay \in Payment /\ pay.sale = q.sale
      <3>1. q.sale \in Nat \ {0}
        BY <2>2 DEF SaleId
      <3> QED BY <2>2, <2>3, <3>1, SalesAssumption DEF PaymentRow, Payment
    <2>5. payments' = Append(payments, pay) /\ UNCHANGED <<sales, moves, entries>>
      BY <1>3, <2>1, <2>3 DEF PayLink
    <2>6. payments' \in Seq(Payment) /\ Len(payments') = Len(payments) + 1
      BY <1>1, <2>4, <2>5, AppendProperties
    <2>7. ASSUME NEW i \in 1..Len(payments')
          PROVE  \/ i \in 1..Len(payments) /\ payments'[i].sale = payments[i].sale
                 \/ payments'[i].sale = q.sale
      BY <1>1, <2>4, <2>5, <2>6, AppendProperties
    <2>8. RowsKept
      BY <1>1, <2>2, <2>5, <2>6, <2>7 DEF RowsKept, Numbered
    <2> QED BY <1>3, <2>8, OneEnds DEF PayLink
  <1> QED BY <1>2, <1>3

(* A balance check that passes only moves the request on. *)
LEMMA ChecksKeep ==
    ASSUME Typed, TableKept, NEW r \in Request, ConfirmCheck(r) \/ CancelCheck(r)
    PROVE  RowsKept /\ RequestsKept
  <1>1. RowsKept
    BY RowsSame DEF ConfirmCheck, CancelCheck, Unwritten
  <1>2. PICK q : q = req[r]
    OBVIOUS
  <1>3. q \in RequestState /\ Relies(q)
    BY <1>2, RequestShape DEF Typed
  <1>4. ASSUME ConfirmCheck(r) PROVE RequestsKept
    <2>1. q.step = "confirmCheck" /\ Becomes(r, [q EXCEPT !.step = "confirmUnit"])
      BY <1>2, <1>4 DEF ConfirmCheck
    <2>2. PICK st : st = [q EXCEPT !.step = "confirmUnit"]
      OBVIOUS
    <2>3. st \in RequestState /\ st.step = "confirmUnit" /\ st.sale = q.sale
      BY <1>3, <2>1, <2>2 DEF RequestState, Idle
    <2>4. Relies(st)
      BY <1>3, <2>1, <2>3 DEF Relies, Posting, Cancelling
    <2> QED BY <1>1, <2>1, <2>2, <2>3, <2>4, OneReads
  <1>5. ASSUME CancelCheck(r) PROVE RequestsKept
    <2>1. q.step = "cancelCheck" /\ Becomes(r, [q EXCEPT !.step = "reverse"])
      BY <1>2, <1>5 DEF CancelCheck
    <2>2. PICK st : st = [q EXCEPT !.step = "reverse"]
      OBVIOUS
    <2>3. /\ st \in RequestState /\ st.step = "reverse"
          /\ st.sale = q.sale /\ st.pays = q.pays /\ st.lines = q.lines
      BY <1>3, <2>1, <2>2 DEF RequestState, Idle
    <2>4. Relies(st)
      BY <1>3, <2>1, <2>3 DEF Relies, Posting, Cancelling
    <2> QED BY <1>1, <2>1, <2>2, <2>3, <2>4, OneReads
  <1> QED BY <1>1, <1>4, <1>5

(* The movements of an annulment. *)
LEMMA ReturnKeeps ==
    ASSUME Typed, TableKept, NEW r \in Request, ReturnLine(r)
    PROVE  RowsKept /\ RequestsKept
  <1>1. moves \in Seq(Move) /\ entries \in Seq(Entry) /\ payments \in Seq(Payment)
        /\ Len(entries) \in Nat /\ Len(payments) \in Nat /\ sales \in Seq(Sale)
    BY LenProperties DEF Typed, TypeOK
  <1>2. PICK q : q = req[r]
    OBVIOUS
  <1>3. /\ q \in RequestState /\ Relies(q) /\ q.step = "reverse" /\ q.step \in Cancelling
        /\ q.lines # {} /\ q.lines \in SUBSET Nat
    BY <1>2, RequestShape DEF ReturnLine, Typed, Cancelling
  <1>4. PICK i : i = First(q.lines)
    OBVIOUS
  <1>5. PICK sale : sale = sales[q.sale]
    OBVIOUS
  <1>6. /\ q.sale \in 1..Len(sales) /\ i \in q.lines
        /\ i \in 1..Len(sale.lines) /\ sale.lines[i].product \in Tracked
    BY <1>3, <1>4, <1>5, FirstIn DEF Relies
  <1>7. sale \in Sale /\ sale.lines[i] \in Line
    <2>1. sale \in Sale
      BY <1>1, <1>5, <1>6, ElementOfSeq
    <2>2. sale.lines \in Seq(Line)
      BY <2>1 DEF Sale
    <2> QED BY <2>1, <2>2, <1>6, ElementOfSeq
  <1>8. PICK m : m = [product |-> sale.lines[i].product, out |-> FALSE,
                      qty |-> sale.lines[i].qty, number |-> sale.number]
    OBVIOUS
  <1>9. m \in Move
    BY <1>6, <1>7, <1>8 DEF Move, Line, Sale
  <1>10. moves' = Append(moves, m) /\ UNCHANGED <<sales, entries, payments>>
    BY <1>2, <1>4, <1>5, <1>8 DEF ReturnLine
  <1>11. RowsKept
    <2>1. moves' \in Seq(Move)
      BY <1>1, <1>9, <1>10, AppendProperties
    <2> QED BY <1>1, <1>10, <2>1 DEF RowsKept
  <1>12. PICK st : st = [q EXCEPT !.lines = q.lines \ {i}]
    OBVIOUS
  <1>13. /\ st \in RequestState /\ st.step = "reverse" /\ st.sale = q.sale /\ st.pays = q.pays
         /\ st.lines = q.lines \ {i}
    BY <1>3, <1>12 DEF RequestState, Idle
  <1>14. Becomes(r, st)
    BY <1>2, <1>4, <1>12 DEF ReturnLine
  <1>15. Relies(st)
    BY <1>3, <1>13 DEF Relies, Posting
  <1> QED BY <1>11, <1>13, <1>14, <1>15, OneReads

(* A refund posts its Expense, or ends the annulment. *)
LEMMA RefundKeeps ==
    ASSUME Typed, TableKept, NEW r \in Request, RefundPost(r)
    PROVE  RowsKept /\ RequestsKept
  <1>1. moves \in Seq(Move) /\ entries \in Seq(Entry) /\ payments \in Seq(Payment)
        /\ Len(entries) \in Nat /\ Len(payments) \in Nat /\ sales \in Seq(Sale)
    BY LenProperties DEF Typed, TypeOK
  <1>2. PICK q : q = req[r]
    OBVIOUS
  <1>3. /\ q \in RequestState /\ Relies(q) /\ q.step = "reverse" /\ q.step \in Cancelling
        /\ q.pays # {} /\ q.pays \in SUBSET Nat /\ q.sale \in SaleId
    BY <1>2, RequestShape DEF RefundPost, Typed, Cancelling
  <1>4. /\ q.sale \in 1..Len(sales) /\ Numbered(q.sale)
        /\ q.pays \subseteq 1..Len(payments) /\ First(q.pays) \in 1..Len(payments)
    BY <1>3, FirstIn DEF Relies, Posting
  <1>5. PICK pay : pay = payments[First(q.pays)]
    OBVIOUS
  <1>6. pay \in Payment
    BY <1>1, <1>4, <1>5, ElementOfSeq
  <1>7. CASE Becomes(r, Idle) /\ UNCHANGED entries
    <2>1. UNCHANGED <<moves, entries, payments>>
      BY <1>7 DEF RefundPost
    <2> QED BY <1>7, <2>1, RowsSame, OneEnds
  <1>8. CASE ~ (Becomes(r, Idle) /\ UNCHANGED entries)
    <2>1. PICK e : e = [kind |-> "Expense", account |-> pay.account, amount |-> pay.amount,
                        number |-> sales[q.sale].number]
      OBVIOUS
    <2>2. e \in Entry
      <3>1. sales[q.sale] \in Sale
        BY <1>1, <1>4, ElementOfSeq
      <3>2. sales[q.sale].number \in Number
        BY <3>1 DEF Sale
      <3> QED BY <1>6, <2>1, <3>2 DEF Payment, Entry, Kind
    <2>3. PICK st : st = [step |-> "link", sale |-> q.sale, lines |-> {}, pays |-> q.pays,
                          tx |-> Len(entries) + 1]
      OBVIOUS
    <2>4. entries' = Append(entries, e) /\ Becomes(r, st) /\ UNCHANGED <<sales, moves, payments>>
      BY <1>2, <1>5, <1>8, <2>1, <2>3 DEF RefundPost
    <2>5. entries' \in Seq(Entry) /\ Len(entries') = Len(entries) + 1
      BY <1>1, <2>2, <2>4, AppendProperties
    <2>6. RowsKept
      BY <1>1, <2>4, <2>5 DEF RowsKept
    <2>7. st \in RequestState
      BY <1>1, <1>3, <2>3 DEF RequestState
    <2>8. Relies(st)'
      BY <1>1, <1>3, <1>4, <2>3, <2>4, <2>5 DEF Relies, Posting, Cancelling, Numbered
    <2> QED BY <2>4, <2>6, <2>7, <2>8, OneMoves
  <1> QED BY <1>7, <1>8

(* A refund is linked to the payment it refunds. *)
LEMMA RefundLinkKeeps ==
    ASSUME Typed, TableKept, NEW r \in Request, RefundLink(r)
    PROVE  RowsKept /\ RequestsKept
  <1>1. moves \in Seq(Move) /\ entries \in Seq(Entry) /\ payments \in Seq(Payment)
        /\ Len(entries) \in Nat /\ Len(payments) \in Nat /\ sales \in Seq(Sale)
    BY LenProperties DEF Typed, TypeOK
  <1>2. PICK q : q = req[r]
    OBVIOUS
  <1>3. /\ q \in RequestState /\ Relies(q) /\ q.step = "link" /\ q.step \in Cancelling
        /\ q.pays \in SUBSET Nat /\ q.sale \in SaleId /\ q.tx \in Nat \ {0}
    BY <1>2, RequestShape DEF RefundLink, Typed, Cancelling
  <1>4. PICK i : i = First(q.pays)
    OBVIOUS
  <1>5. /\ q.sale \in 1..Len(sales) /\ Numbered(q.sale)
        /\ q.pays \subseteq 1..Len(payments) /\ i \in 1..Len(payments)
    BY <1>3, <1>4, FirstIn DEF Relies, Posting
  <1>6. PICK pay : pay = [payments[i] EXCEPT !.refund = q.tx]
    OBVIOUS
  <1>7. pay \in Payment /\ pay.sale = payments[i].sale
    <2>1. payments[i] \in Payment
      BY <1>1, <1>5, ElementOfSeq
    <2> QED BY <1>3, <1>6, <2>1 DEF Payment
  <1>8. payments' = [payments EXCEPT ![i] = pay] /\ UNCHANGED <<sales, moves, entries>>
    BY <1>2, <1>4, <1>6 DEF RefundLink
  <1>9. /\ payments' \in Seq(Payment) /\ Len(payments') = Len(payments) /\ payments'[i] = pay
        /\ \A j \in 1..Len(payments) : j # i => payments'[j] = payments[j]
    BY <1>1, <1>5, <1>7, <1>8, ExceptSeq
  <1>10. RowsKept
    BY <1>1, <1>7, <1>8, <1>9 DEF RowsKept
  <1>11. PICK st : st = [step |-> "reverse", sale |-> q.sale, lines |-> {},
                         pays |-> q.pays \ {i}]
    OBVIOUS
  <1>12. Becomes(r, st)
    BY <1>2, <1>4, <1>11 DEF RefundLink
  <1>13. st \in RequestState
    BY <1>3, <1>11 DEF RequestState
  <1>14. Relies(st)
    BY <1>5, <1>11 DEF Relies, Posting, Cancelling
  <1> QED BY <1>10, <1>12, <1>13, <1>14, OneReads

(* A request that works, or ends. *)
LEMMA WorksKeep ==
    ASSUME Typed, TableKept, NEW r \in Request, Works(r) \/ Quit(r)
    PROVE  RowsKept /\ RequestsKept
  <1>1. CASE HeaderWrite(r) \/ Discard(r) \/ CancelClose(r) \/ Quit(r)
    <2>1. UNCHANGED <<moves, entries, payments>> /\ Becomes(r, Idle)
      BY <1>1 DEF HeaderWrite, Discard, CancelClose, Quit, Unwritten
    <2> QED BY <2>1, RowsSame, OneEnds
  <1>2. ASSUME NEW a \in Account, ConfirmUnit(r, a) PROVE RowsKept /\ RequestsKept
    BY <1>2, ConfirmKeeps, OneEnds DEF ConfirmUnit
  <1> QED BY <1>1, <1>2, PayKeeps, ChecksKeep, ReturnKeeps, RefundKeeps, RefundLinkKeeps
          DEF Works

(* The typing invariant is inductive. *)
LEMMA TypedStep == Typed /\ [Next]_vars => Typed'
  <1> SUFFICES ASSUME Typed, [Next]_vars PROVE Typed'
    OBVIOUS
  <1>1. TableKept
    BY StepOnTable, TableTyped
  <1>2. CASE UNCHANGED vars
    BY <1>1, <1>2, RowsSame, RequestsSame, KeptTyped DEF vars
  <1>3. CASE Next
    <2>1. RowsKept /\ RequestsKept
      BY <1>1, <1>3, ClientsKeep, StartsKeep, WorksKeep DEF Next
    <2> QED BY <1>1, <2>1, KeptTyped
  <1> QED BY <1>2, <1>3

(* It holds at the start. *)
LEMMA TypedInit == Init => Typed
  <1> SUFFICES ASSUME Init PROVE Typed
    OBVIOUS
  <1>1. sales = <<>> /\ payments = <<>>
    BY DEF Init
  <1>2. TypeOK
    BY EmptySeq, SalesAssumption DEF Init, TypeOK, RequestState
  <1>3. \A r \in Request : Relies(req[r])
    BY DEF Init, Relies, Idle, Posting, Cancelling
  <1> QED BY <1>1, <1>2, <1>3 DEF Typed

(* Types hold in every state, and what a request under way relies on is    *)
(* still there when it is used, however requests overlap and fail.         *)
THEOREM SalesTyped == Spec => []Typed
  BY TypedInit, TypedStep, PTL DEF Spec

(* The types of Sales. *)
THEOREM SalesTyping == Spec => []TypeOK
  <1>1. Typed => TypeOK
    BY DEF Typed
  <1> QED BY <1>1, SalesTyped, PTL

-----------------------------------------------------------------------------
(* Sales implements SaleDocument.                                          *)

(* A sale, as a document, is one. *)
LEMMA DocumentTyped ==
    ASSUME NEW x \in Sale
    PROVE  AsDocument(x) \in Document!Doc /\ AsDocument(x).body \in Body
  BY DEF Sale, Status, Number, NoNumber, AsDocument, Body, Document!Doc, Document!NoNumber

(* The documents are the sales. *)
LEMMA DocsNow ==
    ASSUME sales \in Seq(Sale)
    PROVE  /\ docs \in Seq(Document!Doc) /\ Len(docs) = Len(sales)
           /\ \A s \in 1..Len(sales) : docs[s] = AsDocument(sales[s])
  <1>1. Len(sales) \in Nat
    OBVIOUS
  <1>2. \A s \in 1..Len(sales) : AsDocument(sales[s]) \in Document!Doc
    BY DocumentTyped, ElementOfSeq
  <1> QED BY <1>1, <1>2 DEF docs

(* So are they after a step. *)
LEMMA DocsNext ==
    ASSUME sales' \in Seq(Sale)
    PROVE  /\ docs' \in Seq(Document!Doc) /\ Len(docs') = Len(sales')
           /\ \A s \in 1..Len(sales') : docs'[s] = AsDocument(sales'[s])
  <1>1. PICK table : table = sales'
    OBVIOUS
  <1>2. Len(table) \in Nat
    BY <1>1
  <1>3. \A s \in 1..Len(table) : AsDocument(table[s]) \in Document!Doc
    BY <1>1, DocumentTyped, ElementOfSeq
  <1>4. docs' = [s \in 1..Len(table) |-> AsDocument(table[s])]
    BY <1>1 DEF docs, AsDocument
  <1> QED BY <1>1, <1>2, <1>3, <1>4

(* A new sale is a new document. *)
LEMMA CreatedIsDocument ==
    ASSUME Typed, NEW x \in Sale, x.status = "Draft", x.number = NoNumber,
           sales' = Append(sales, x), UNCHANGED lastNumber
    PROVE  Document!Create
  <1>1. sales \in Seq(Sale) /\ Len(sales) \in Nat
    BY LenProperties DEF Typed, TypeOK
  <1>2. /\ sales' \in Seq(Sale) /\ Len(sales') = Len(sales) + 1 /\ sales'[Len(sales) + 1] = x
        /\ \A s \in 1..Len(sales) : sales'[s] = sales[s]
    BY <1>1
  <1>3. PICK d : d = AsDocument(x)
    OBVIOUS
  <1>4. d \in Document!Doc /\ d.status = "Draft" /\ d.number = Document!NoNumber
    BY <1>3, DocumentTyped DEF AsDocument, NoNumber, Document!NoNumber
  <1>5. /\ docs \in Seq(Document!Doc) /\ Len(docs) = Len(sales)
        /\ \A s \in 1..Len(sales) : docs[s] = AsDocument(sales[s])
    BY <1>1, DocsNow
  <1>6. /\ docs' \in Seq(Document!Doc) /\ Len(docs') = Len(sales')
        /\ \A s \in 1..Len(sales') : docs'[s] = AsDocument(sales'[s])
    BY <1>2, DocsNext
  <1>7. docs'[Len(docs')] = d
    BY <1>1, <1>2, <1>3, <1>6
  <1>8. docs' = Append(docs, d)
    <2>1. \A s \in 1..Len(sales) : docs'[s] = docs[s]
      BY <1>1, <1>2, <1>5, <1>6
    <2>2. /\ Append(docs, d) \in Seq(Document!Doc) /\ Len(Append(docs, d)) = Len(docs) + 1
          /\ Append(docs, d)[Len(docs) + 1] = d
          /\ \A s \in 1..Len(docs) : Append(docs, d)[s] = docs[s]
      BY <1>4, <1>5, AppendProperties
    <2>3. \A s \in 1..Len(docs') : docs'[s] = Append(docs, d)[s]
      BY <1>1, <1>2, <1>5, <1>6, <1>7, <2>1, <2>2
    <2> QED BY <1>1, <1>2, <1>5, <1>6, <2>2, <2>3, SeqEqual
  <1> QED BY <1>1, <1>2, <1>4, <1>5, <1>6, <1>7, <1>8 DEF Document!Create

(* A rewritten sale is a rewritten document. *)
LEMMA RewrittenDocument ==
    ASSUME Typed, NEW s \in 1..Len(sales), NEW x \in Sale, sales' = [sales EXCEPT ![s] = x]
    PROVE  /\ docs \in Seq(Document!Doc) /\ s \in 1..Len(docs)
           /\ docs[s] = AsDocument(sales[s]) /\ docs'[s] = AsDocument(x)
           /\ docs' = [docs EXCEPT ![s] = AsDocument(x)]
  <1>1. sales \in Seq(Sale) /\ Len(sales) \in Nat
    BY LenProperties DEF Typed, TypeOK
  <1>2. /\ sales' \in Seq(Sale) /\ Len(sales') = Len(sales) /\ sales'[s] = x
        /\ \A t \in 1..Len(sales) : t # s => sales'[t] = sales[t]
    BY <1>1, ExceptSeq
  <1>3. PICK d : d = AsDocument(x)
    OBVIOUS
  <1>4. d \in Document!Doc
    BY <1>3, DocumentTyped
  <1>5. /\ docs \in Seq(Document!Doc) /\ Len(docs) = Len(sales)
        /\ \A t \in 1..Len(sales) : docs[t] = AsDocument(sales[t])
    BY <1>1, DocsNow
  <1>6. /\ docs' \in Seq(Document!Doc) /\ Len(docs') = Len(sales)
        /\ \A t \in 1..Len(sales) : docs'[t] = AsDocument(sales'[t])
    BY <1>2, DocsNext
  <1>7. docs'[s] = d
    BY <1>2, <1>3, <1>6
  <1>8. docs' = [docs EXCEPT ![s] = d]
    <2>1. PICK e : e = [docs EXCEPT ![s] = d]
      OBVIOUS
    <2>2. /\ e \in Seq(Document!Doc) /\ Len(e) = Len(docs) /\ e[s] = d
          /\ \A t \in 1..Len(docs) : t # s => e[t] = docs[t]
      BY <1>4, <1>5, <2>1, ExceptSeq
    <2>3. \A t \in 1..Len(docs') : docs'[t] = e[t]
      BY <1>2, <1>5, <1>6, <1>7, <2>2
    <2> QED BY <1>5, <1>6, <2>1, <2>2, <2>3, SeqEqual
  <1> QED BY <1>3, <1>5, <1>7, <1>8

(* What rewrites a sale is a step of its document, or leaves it alone. *)
LEMMA RewriteIsDocument ==
    ASSUME Typed, NEW s \in 1..Len(sales), NEW x \in Sale,
           sales' = [sales EXCEPT ![s] = x], Rewritten(s, x)
    PROVE  \/ Document!Edit(s) \/ Document!Cancel(s) \/ Document!Delete(s)
           \/ \E y \in Year : Document!Confirm(s, y)
           \/ UNCHANGED <<docs, lastNumber>>
  <1>1. sales[s] \in Sale /\ sales \in Seq(Sale)
    BY ElementOfSeq DEF Typed, TypeOK
  <1>2. PICK old : old = sales[s]
    OBVIOUS
  <1>3. PICK d : d = AsDocument(old)
    OBVIOUS
  <1>4. PICK e : e = AsDocument(x)
    OBVIOUS
  <1>5. /\ docs \in Seq(Document!Doc) /\ s \in 1..Len(docs)
        /\ docs[s] = d /\ docs'[s] = e /\ docs' = [docs EXCEPT ![s] = e]
    BY <1>2, <1>3, <1>4, RewrittenDocument
  <1>6. /\ d \in Document!Doc /\ e \in Document!Doc /\ e.body \in Body
        /\ d.status = old.status /\ d.number = old.number
        /\ e.status = x.status /\ e.number = x.number
        /\ d = [status |-> old.status, number |-> old.number, body |-> d.body]
        /\ e = [status |-> x.status, number |-> x.number, body |-> e.body]
    BY <1>1, <1>2, <1>3, <1>4, DocumentTyped DEF AsDocument
  <1>7. d = e => docs' = docs
    BY <1>5
  <1>8. CASE /\ sales[s].status = "Draft"
             /\ x = [sales[s] EXCEPT !.lines = x.lines]
             /\ UNCHANGED lastNumber
    <2>1. e = [d EXCEPT !.body = e.body]
      <3>1. x.status = old.status /\ x.number = old.number
        BY <1>1, <1>2, <1>8 DEF Sale
      <3> QED BY <1>6, <3>1
    <2> QED BY <1>2, <1>5, <1>6, <1>8, <2>1 DEF Document!Edit
  <1>9. CASE /\ ~ Numbered(s)
             /\ x = [sales[s] EXCEPT !.status = "deleted", !.lines = <<>>]
             /\ UNCHANGED lastNumber
    <2>1. e = [d EXCEPT !.status = "deleted", !.body = e.body]
      <3>1. x.status = "deleted" /\ x.number = old.number
        BY <1>1, <1>2, <1>9 DEF Sale
      <3> QED BY <1>6, <3>1
    <2> QED BY <1>2, <1>5, <1>6, <1>9, <2>1
            DEF Document!Delete, Numbered, NoNumber, Document!NoNumber
  <1>10. CASE /\ sales[s].status # "deleted"
              /\ x = [sales[s] EXCEPT !.year = x.year]
              /\ UNCHANGED lastNumber
    <2>1. e = d
      BY <1>1, <1>2, <1>3, <1>4, <1>10 DEF AsDocument, Sale
    <2> QED BY <1>7, <1>10, <2>1
  <1>11. CASE /\ sales[s].status # "deleted"
              /\ x = [sales[s] EXCEPT !.status = "Cancelled"]
              /\ UNCHANGED lastNumber
    <2>1. e = [d EXCEPT !.status = "Cancelled"]
      <3>1. x.status = "Cancelled" /\ x.number = old.number
        BY <1>1, <1>2, <1>11 DEF Sale
      <3>2. e.body = d.body
        BY <1>1, <1>2, <1>3, <1>4, <1>11 DEF AsDocument, Sale
      <3> QED BY <1>6, <3>1, <3>2
    <2>2. CASE old.status = "Cancelled"
      <3>1. e = d
        BY <1>6, <2>1, <2>2 DEF Document!Doc
      <3> QED BY <1>7, <1>11, <3>1
    <2>3. CASE old.status # "Cancelled"
      <3>1. d.status \in {"Draft", "Confirmed"}
        BY <1>1, <1>2, <1>6, <1>11, <2>3 DEF Sale, Status
      <3> QED BY <1>5, <1>11, <2>1, <3>1 DEF Document!Cancel
    <2> QED BY <2>2, <2>3
  <1>12. ASSUME NEW y \in Year,
                sales[s].status = "Draft",
                x = [sales[s] EXCEPT !.status = "Confirmed", !.number = <<y, lastNumber[y] + 1>>],
                lastNumber' = [lastNumber EXCEPT ![y] = @ + 1]
         PROVE  Document!Confirm(s, y)
    <2>1. e = [d EXCEPT !.status = "Confirmed", !.number = <<y, lastNumber[y] + 1>>]
      <3>1. x.status = "Confirmed" /\ x.number = <<y, lastNumber[y] + 1>>
        BY <1>1, <1>2, <1>12 DEF Sale
      <3>2. e.body = d.body
        BY <1>1, <1>2, <1>3, <1>4, <1>12 DEF AsDocument, Sale
      <3> QED BY <1>6, <3>1, <3>2
    <2> QED BY <1>2, <1>5, <1>6, <1>12, <2>1 DEF Document!Confirm
  <1> QED BY <1>8, <1>9, <1>10, <1>11, <1>12 DEF Rewritten

(* Every step of Sales is a step of a document, or leaves it alone. *)
LEMMA StepIsDocument ==
    Typed /\ [Next]_vars => [Document!Next]_<<docs, lastNumber>>
  <1> SUFFICES ASSUME Typed, [Next]_vars PROVE [Document!Next]_<<docs, lastNumber>>
    OBVIOUS
  <1>1. TableStep
    BY StepOnTable
  <1>2. Len(docs) = Len(sales)
    BY DocsNow DEF Typed, TypeOK
  <1>3. CASE UNCHANGED <<sales, lastNumber>>
    BY <1>3 DEF docs, AsDocument
  <1>4. ASSUME NEW x \in Sale, x.status = "Draft", x.number = NoNumber,
               sales' = Append(sales, x), UNCHANGED lastNumber
        PROVE  Document!Next
    BY <1>4, CreatedIsDocument DEF Document!Next
  <1>5. ASSUME NEW s \in 1..Len(sales), NEW x \in Sale,
               sales' = [sales EXCEPT ![s] = x], Rewritten(s, x)
        PROVE  Document!Next \/ UNCHANGED <<docs, lastNumber>>
    <2>1. \/ Document!Edit(s) \/ Document!Cancel(s) \/ Document!Delete(s)
          \/ \E y \in Year : Document!Confirm(s, y)
          \/ UNCHANGED <<docs, lastNumber>>
      BY <1>5, RewriteIsDocument
    <2> QED BY <1>2, <2>1 DEF Document!Next
  <1> QED BY <1>1, <1>3, <1>4, <1>5 DEF TableStep

(* The sales start as no documents. *)
LEMMA InitIsDocument == Init => Document!Init
  BY DEF Init, Document!Init, docs

(* Sales implements SaleDocument. *)
THEOREM SalesIsDocument == Spec => IsDocument
  BY InitIsDocument, StepIsDocument, SalesTyped, PTL
     DEF Spec, IsDocument, Document!Spec, Document!vars

-----------------------------------------------------------------------------
(* What every document promises holds of every sale.                       *)

(* The document Sales implements is the one the laws are about. *)
LEMMA SameDocument ==
    /\ Document!Init => DocumentLaws!Init
    /\ [Document!Next]_<<docs, lastNumber>> => [DocumentLaws!Next]_<<docs, lastNumber>>
  BY DEF Document!Init, DocumentLaws!Init, Document!Next, DocumentLaws!Next,
         Document!Create, DocumentLaws!Create, Document!Edit, DocumentLaws!Edit,
         Document!Confirm, DocumentLaws!Confirm, Document!Cancel, DocumentLaws!Cancel,
         Document!Delete, DocumentLaws!Delete, Document!NoNumber, DocumentLaws!NoNumber,
         Document!Doc, DocumentLaws!Doc

(* So the laws of documents hold of the sales. *)
LEMMA SalesObeyDocumentLaws == Spec => DocumentLaws!Spec
  BY InitIsDocument, StepIsDocument, SameDocument, SalesTyped, PTL
     DEF Spec, DocumentLaws!Spec, DocumentLaws!vars

(* The numbers of every year are dense and unique in every state, whatever *)
(* confirms raced, failed or were retried.                                 *)
THEOREM SaleNumbersDense == Spec => []NumbersInOrder
  <1>1. DocumentLaws!NumbersInOrder => NumbersInOrder
    BY DEF NumbersInOrder, Document!NumbersInOrder, DocumentLaws!NumbersInOrder,
           Document!NoNumber, DocumentLaws!NoNumber
  <1>2. DocumentLaws!Spec => []DocumentLaws!NumbersInOrder
    BY DocumentLaws!NumbersDense
  <1> QED BY <1>1, <1>2, SalesObeyDocumentLaws, PTL

(* No step changes what a confirmed or annulled sale says, although the    *)
(* header, discard and annulment statements carry no status predicate.     *)
THEOREM SaleRecordFrozen == Spec => RecordFrozen
  <1>1. DocumentLaws!Consistent /\ [DocumentLaws!Next]_<<docs, lastNumber>>
            => DocumentLaws!FrozenStep
    BY DocumentLaws!FrozenLemma DEF DocumentLaws!vars
  <1>2. DocumentLaws!FrozenStep => Document!FrozenStep
    BY DEF Document!FrozenStep, DocumentLaws!FrozenStep, Document!NoNumber,
           DocumentLaws!NoNumber
  <1>3. DocumentLaws!Spec => []DocumentLaws!Consistent
    BY DocumentLaws!DocumentConsistent
  <1> QED BY <1>1, <1>2, <1>3, SalesObeyDocumentLaws, PTL
          DEF RecordFrozen, DocumentLaws!Spec, DocumentLaws!vars

-----------------------------------------------------------------------------
(* The ledgers hold nothing of a sale that was never confirmed.            *)

Known(number) == \E s \in 1..Len(sales) : Numbered(s) /\ sales[s].number = number

KnownAfter(number) ==
    \E s \in 1..Len(sales') : sales'[s].number # NoNumber /\ sales'[s].number = number

\* Every movement, and every transaction that has a number, is under a sale's.
LedgersKnown ==
    /\ \A i \in 1..Len(moves) : Known(moves[i].number)
    /\ \A i \in 1..Len(entries) : entries[i].number = NoNumber \/ Known(entries[i].number)

\* What a step writes is under a number that is a sale's, or has none.
KnownWritten ==
    /\ \A i \in 1..Len(moves') :
           \/ i \in 1..Len(moves) /\ moves'[i].number = moves[i].number
           \/ KnownAfter(moves'[i].number)
    /\ \A i \in 1..Len(entries') :
           \/ i \in 1..Len(entries) /\ entries'[i].number = entries[i].number
           \/ entries'[i].number = NoNumber
           \/ KnownAfter(entries'[i].number)

(* A sale's number stays a sale's. *)
LEMMA KnownStays ==
    ASSUME TableKept, NEW number, Known(number)
    PROVE  KnownAfter(number)
  <1>1. PICK s \in 1..Len(sales) : Numbered(s) /\ sales[s].number = number
    BY DEF Known
  <1>2. s \in 1..Len(sales') /\ sales'[s].number = number /\ number # NoNumber
    BY <1>1 DEF TableKept, Numbered
  <1> QED BY <1>2 DEF KnownAfter

(* The movements a confirm writes: one per tracked line it read. *)
LEMMA ShippedRows ==
    ASSUME NEW lines \in Seq(Line), NEW number \in Number, ShipLines(lines, number)
    PROVE  \E new \in Seq(Move) :
              /\ moves' = moves \o new /\ Len(new) = Len(TrackedLines(lines))
              /\ \A i \in 1..Len(new) :
                    new[i] = [product |-> TrackedLines(lines)[i].product, out |-> TRUE,
                              qty |-> TrackedLines(lines)[i].qty, number |-> number]
  <1>1. PICK out \in Seq(TrackedLine) : out = TrackedLines(lines)
    BY TrackedLinesTyped
  <1> DEFINE Row(i) == [product |-> out[i].product, out |-> TRUE, qty |-> out[i].qty,
                        number |-> number]
  <1>2. PICK new : new = [i \in 1..Len(out) |-> Row(i)]
    OBVIOUS
  <1>3. \A i \in 1..Len(out) : Row(i) \in Move
    <2> SUFFICES ASSUME NEW i \in 1..Len(out) PROVE Row(i) \in Move
      OBVIOUS
    <2>1. out[i] \in TrackedLine
      BY ElementOfSeq
    <2> QED BY <2>1 DEF TrackedLine, Move
  <1>4. moves' = moves \o new
    BY <1>1, <1>2 DEF ShipLines
  <1> HIDE DEF Row
  <1>5. Len(out) \in Nat
    BY LenProperties
  <1>6. new \in Seq(Move) /\ Len(new) = Len(out)
    BY <1>2, <1>3, <1>5, IsASeq
  <1>7. \A i \in 1..Len(new) : new[i] = Row(i)
    BY <1>2, <1>6
  <1> QED BY <1>1, <1>4, <1>6, <1>7 DEF Row

(* Every step writes its rows under a number that is a sale's. *)
LEMMA StepKnown ==
    ASSUME Typed, Typed', TableKept, [Next]_vars
    PROVE  KnownWritten
  <1>1. /\ moves \in Seq(Move) /\ entries \in Seq(Entry) /\ payments \in Seq(Payment)
        /\ sales \in Seq(Sale) /\ moves' \in Seq(Move) /\ entries' \in Seq(Entry)
    BY DEF Typed, TypeOK
  <1> DEFINE MovesKnown == \A i \in 1..Len(moves') :
                              \/ i \in 1..Len(moves) /\ moves'[i].number = moves[i].number
                              \/ KnownAfter(moves'[i].number)
             EntriesKnown == \A i \in 1..Len(entries') :
                                \/ i \in 1..Len(entries) /\ entries'[i].number = entries[i].number
                                \/ entries'[i].number = NoNumber
                                \/ KnownAfter(entries'[i].number)
  <1>2. ASSUME UNCHANGED moves PROVE MovesKnown
    BY <1>2
  <1>3. ASSUME UNCHANGED entries PROVE EntriesKnown
    BY <1>3
  <1>4. ASSUME NEW e \in Entry, entries' = Append(entries, e),
               e.number = NoNumber \/ KnownAfter(e.number)
        PROVE  EntriesKnown
    <2>1. /\ Len(entries') = Len(entries) + 1
          /\ \A i \in 1..Len(entries) + 1 :
                IF i \in 1..Len(entries) THEN entries'[i] = entries[i] ELSE entries'[i] = e
      BY <1>1, <1>4, RowAppended
    <2> QED BY <1>4, <2>1
  <1>5. ASSUME NEW id \in 1..Len(entries), NEW e \in Entry, entries' = [entries EXCEPT ![id] = e],
               e.number = entries[id].number
        PROVE  EntriesKnown
    <2>1. /\ Len(entries') = Len(entries) /\ entries'[id] = e
          /\ \A i \in 1..Len(entries) : i # id => entries'[i] = entries[i]
      BY <1>1, <1>5, ExceptSeq
    <2> QED BY <1>5, <2>1
  <1>6. ASSUME NEW s \in 1..Len(sales), Numbered(s) PROVE KnownAfter(sales[s].number)
    BY <1>6, KnownStays DEF Known
  <1> HIDE DEF MovesKnown, EntriesKnown
  <1>7. ASSUME NEW a \in Account, NEW amount \in PayAmount, ManualExpense(a, amount)
        PROVE  MovesKnown /\ EntriesKnown
    <2>1. PICK e : e = [kind |-> "Expense", account |-> a, amount |-> amount, number |-> NoNumber]
      OBVIOUS
    <2>2. e \in Entry /\ e.number = NoNumber
      BY <2>1, SalesAssumption DEF Entry, Kind, Number
    <2> QED BY <1>2, <1>4, <1>7, <2>1, <2>2 DEF ManualExpense
  <1>8. ASSUME NEW id \in 1..Len(entries), ManualDelete(id) PROVE MovesKnown /\ EntriesKnown
    <2>1. PICK e : e = [entries[id] EXCEPT !.kind = "deleted"]
      OBVIOUS
    <2>2. e \in Entry /\ e.number = entries[id].number
      <3>1. entries[id] \in Entry
        BY <1>1, ElementOfSeq
      <3> QED BY <2>1, <3>1 DEF Entry
    <2> QED BY <1>2, <1>5, <1>8, <2>1, <2>2 DEF ManualDelete
  <1>9. ASSUME NEW id \in 1..Len(entries), NEW kind \in Kind, NEW amount \in PayAmount,
               ManualUpdate(id, kind, amount)
        PROVE  MovesKnown /\ EntriesKnown
    <2>1. PICK e : e = [entries[id] EXCEPT !.kind = kind, !.amount = amount]
      OBVIOUS
    <2>2. e \in Entry /\ e.number = entries[id].number
      <3>1. entries[id] \in Entry
        BY <1>1, ElementOfSeq
      <3> QED BY <2>1, <3>1, SalesAssumption DEF Entry
    <2> QED BY <1>2, <1>5, <1>9, <2>1, <2>2 DEF ManualUpdate
  <1>10. ASSUME NEW r \in Request, NEW a \in Account, ConfirmUnit(r, a)
         PROVE  MovesKnown /\ EntriesKnown
    <2>1. PICK q : q = req[r]
      OBVIOUS
    <2>2. q.sale \in 1..Len(sales) /\ q.seen \in Sale
      BY <1>10, <2>1, RequestShape DEF ConfirmUnit, Typed, Relies
    <2>3. PICK number : number = NextNumber(q.seen.year)
      OBVIOUS
    <2>4. number \in Number /\ number # NoNumber /\ q.seen.lines \in Seq(Line)
      <3>1. q.seen.year \in Year /\ q.seen.lines \in Seq(Line)
        BY <2>2 DEF Sale
      <3> QED BY <2>3, <3>1, NextNumberIn
    <2>5. KnownAfter(number)
      <3>1. sales' = [sales EXCEPT ![q.sale] =
                        [sales[q.sale] EXCEPT !.status = "Confirmed", !.number = number]]
        BY <1>10, <2>1, <2>3 DEF ConfirmUnit, Rewrite
      <3>2. sales[q.sale] \in Sale
        BY <1>1, <2>2, ElementOfSeq
      <3>3. q.sale \in 1..Len(sales') /\ sales'[q.sale].number = number
        BY <1>1, <2>2, <3>1, <3>2 DEF Sale
      <3> QED BY <2>4, <3>3 DEF KnownAfter
    <2>6. MovesKnown
      <3>1. ShipLines(q.seen.lines, number)
        BY <1>10, <2>1, <2>3 DEF ConfirmUnit
      <3>2. PICK new \in Seq(Move) : moves' = moves \o new
                                     /\ \A i \in 1..Len(new) : new[i].number = number
        <4>1. PICK new \in Seq(Move) :
              /\ moves' = moves \o new
              /\ \A i \in 1..Len(new) :
                    new[i] = [product |-> TrackedLines(q.seen.lines)[i].product, out |-> TRUE,
                              qty |-> TrackedLines(q.seen.lines)[i].qty, number |-> number]
          BY <2>4, <3>1, ShippedRows
        <4>2. ASSUME NEW i \in 1..Len(new) PROVE new[i].number = number
          <5>1. PICK line : line = TrackedLines(q.seen.lines)[i]
            OBVIOUS
          <5>2. new[i] = [product |-> line.product, out |-> TRUE, qty |-> line.qty,
                          number |-> number]
            BY <4>1, <5>1
          <5> QED BY <5>2
        <4> QED BY <4>1, <4>2
      <3>3. /\ Len(moves') = Len(moves) + Len(new)
            /\ \A i \in 1..Len(moves) : moves'[i] = moves[i]
            /\ \A i \in 1..Len(new) : moves'[Len(moves) + i] = new[i]
            /\ \A i \in 1..Len(moves) + Len(new) :
                  i \in 1..Len(moves) \/ \E k \in 1..Len(new) : i = Len(moves) + k
        <4>1. moves \in Seq(Move) /\ moves' = moves \o new
          BY <1>1, <3>2
        <4>2. /\ Len(moves \o new) = Len(moves) + Len(new)
              /\ \A i \in 1..Len(moves) : (moves \o new)[i] = moves[i]
              /\ \A i \in 1..Len(new) : (moves \o new)[Len(moves) + i] = new[i]
              /\ \A i \in 1..Len(moves) + Len(new) :
                    i \in 1..Len(moves) \/ \E k \in 1..Len(new) : i = Len(moves) + k
          BY <4>1, RowsConcatenated
        <4> QED BY <4>1, <4>2
      <3>4. ASSUME NEW i \in 1..Len(moves')
            PROVE  \/ i \in 1..Len(moves) /\ moves'[i].number = moves[i].number
                   \/ KnownAfter(moves'[i].number)
        <4>1. CASE i \in 1..Len(moves)
          BY <3>3, <4>1
        <4>2. ASSUME NEW k \in 1..Len(new), i = Len(moves) + k PROVE KnownAfter(moves'[i].number)
          <5>1. moves'[i].number = number
            BY <3>2, <3>3, <4>2
          <5> QED BY <2>5, <5>1
        <4> QED BY <3>3, <4>1, <4>2
      <3> QED BY <3>4 DEF MovesKnown
    <2>7. EntriesKnown
      <3>1. PICK total : total = Total(q.seen.lines)
        OBVIOUS
      <3>2. PICK e : e = [kind |-> "Income", account |-> a, amount |-> total, number |-> number]
        OBVIOUS
      <3>3. UNCHANGED entries \/ (total > 0 /\ entries' = Append(entries, e))
        BY <1>10, <2>1, <2>3, <3>1, <3>2 DEF ConfirmUnit, PostCash
      <3>4. total \in Nat
        BY <2>4, <3>1, TotalNat
      <3>5. total > 0 => e \in Entry /\ e.number = number
        BY <2>4, <3>2, <3>4 DEF Entry, Kind
      <3> QED BY <1>3, <1>4, <2>5, <3>3, <3>5
    <2> QED BY <2>6, <2>7
  <1>11. ASSUME NEW r \in Request, NEW a \in Account, PayPost(r, a)
         PROVE  MovesKnown /\ EntriesKnown
    <2>1. PICK q : q = req[r]
      OBVIOUS
    <2>2. /\ q.step = "payPost" /\ q.amount \in PayAmount /\ q.sale \in 1..Len(sales)
          /\ Numbered(q.sale)
      BY <1>11, <2>1, RequestShape DEF PayPost, Typed, Relies, Posting
    <2>3. PICK e : e = [kind |-> "Income", account |-> a, amount |-> q.amount,
                        number |-> sales[q.sale].number]
      OBVIOUS
    <2>4. e \in Entry /\ e.number = sales[q.sale].number
      <3>1. sales[q.sale] \in Sale
        BY <1>1, <2>2, ElementOfSeq
      <3>2. sales[q.sale].number \in Number
        BY <3>1 DEF Sale
      <3> QED BY <2>2, <2>3, <3>2, SalesAssumption DEF Entry, Kind
    <2> QED BY <1>2, <1>4, <1>6, <1>11, <2>1, <2>2, <2>3, <2>4 DEF PayPost
  <1>12. ASSUME NEW r \in Request, RefundPost(r) PROVE MovesKnown /\ EntriesKnown
    <2>1. PICK q : q = req[r]
      OBVIOUS
    <2>2. /\ q.step = "reverse" /\ q.pays # {} /\ q.sale \in 1..Len(sales) /\ Numbered(q.sale)
          /\ q.pays \subseteq 1..Len(payments) /\ q.pays \in SUBSET Nat
      BY <1>12, <2>1, RequestShape DEF RefundPost, Typed, Relies, Posting, Cancelling
    <2>3. PICK pay : pay = payments[First(q.pays)]
      OBVIOUS
    <2>4. PICK e : e = [kind |-> "Expense", account |-> pay.account, amount |-> pay.amount,
                        number |-> sales[q.sale].number]
      OBVIOUS
    <2>5. e \in Entry /\ e.number = sales[q.sale].number
      <3>1. sales[q.sale] \in Sale /\ pay \in Payment
        BY <1>1, <2>2, <2>3, FirstIn, ElementOfSeq
      <3>2. sales[q.sale].number \in Number
        BY <3>1 DEF Sale
      <3> QED BY <2>4, <3>1, <3>2 DEF Payment, Entry, Kind
    <2>6. UNCHANGED moves /\ (UNCHANGED entries \/ entries' = Append(entries, e))
      BY <1>12, <2>1, <2>3, <2>4 DEF RefundPost
    <2> QED BY <1>2, <1>3, <1>4, <1>6, <2>2, <2>5, <2>6
  <1>13. ASSUME NEW r \in Request, ReturnLine(r) PROVE MovesKnown /\ EntriesKnown
    <2>1. PICK q : q = req[r]
      OBVIOUS
    <2>2. q.sale \in 1..Len(sales) /\ Numbered(q.sale)
      BY <1>13, <2>1, RequestShape DEF ReturnLine, Typed, Relies, Posting, Cancelling
    <2>3. PICK line : line = sales[q.sale].lines[First(q.lines)]
      OBVIOUS
    <2>4. PICK m : m = [product |-> line.product, out |-> FALSE, qty |-> line.qty,
                        number |-> sales[q.sale].number]
      OBVIOUS
    <2>7. moves' = Append(moves, m) /\ UNCHANGED entries
      BY <1>13, <2>1, <2>3, <2>4 DEF ReturnLine
    <2>5. /\ Len(moves') = Len(moves) + 1
          /\ \A i \in 1..Len(moves) + 1 : i \in 1..Len(moves) \/ i = Len(moves) + 1
          /\ \A i \in 1..Len(moves) : moves'[i] = moves[i]
          /\ moves'[Len(moves) + 1] = m
      BY <1>1, <2>7
    <2>6. MovesKnown
      BY <1>6, <2>2, <2>4, <2>5 DEF MovesKnown
    <2> QED BY <1>3, <2>7, <2>6
  <1>14. ASSUME UNCHANGED <<moves, entries>> PROVE MovesKnown /\ EntriesKnown
    BY <1>2, <1>3, <1>14
  <1>15. MovesKnown /\ EntriesKnown
    <2>1. \/ UNCHANGED <<moves, entries>>
          \/ \E a \in Account, amount \in PayAmount : ManualExpense(a, amount)
          \/ \E id \in 1..Len(entries) :
                \/ ManualDelete(id)
                \/ \E kind \in Kind, amount \in PayAmount : ManualUpdate(id, kind, amount)
          \/ \E r \in Request : Works(r)
      BY ClientsWrite, FirstWritesNothing DEF Next, vars, Unwritten
    <2>2. ASSUME NEW r \in Request, Works(r)
          PROVE  \/ UNCHANGED <<moves, entries>>
                 \/ \E a \in Account : ConfirmUnit(r, a) \/ PayPost(r, a)
                 \/ ReturnLine(r) \/ RefundPost(r)
      BY <2>2 DEF Works, HeaderWrite, Discard, ConfirmCheck, PayLink, CancelCheck, RefundLink,
                  CancelClose, Unwritten
    <2> QED BY <1>7, <1>8, <1>9, <1>10, <1>11, <1>12, <1>13, <1>14, <2>1, <2>2
  <1> QED BY <1>15 DEF KnownWritten, MovesKnown, EntriesKnown

(* The ledgers stay known. *)
LEMMA LedgersKnownStep == Typed /\ LedgersKnown /\ [Next]_vars => LedgersKnown'
  <1> SUFFICES ASSUME Typed, LedgersKnown, [Next]_vars PROVE LedgersKnown'
    OBVIOUS
  <1>1. TableKept /\ Typed'
    BY StepOnTable, TableTyped, TypedStep
  <1>2. KnownWritten
    BY <1>1, StepKnown
  <1>3. \A n : Known(n) => KnownAfter(n)
    BY <1>1, KnownStays
  <1>4. \A n : KnownAfter(n) <=> \E s \in 1..Len(sales') : sales'[s].number # NoNumber
                                                          /\ sales'[s].number = n
    BY DEF KnownAfter
  <1>5. \A i \in 1..Len(moves') : KnownAfter(moves'[i].number)
    BY <1>2, <1>3 DEF LedgersKnown, KnownWritten
  <1>6. \A i \in 1..Len(entries') :
            entries'[i].number = NoNumber \/ KnownAfter(entries'[i].number)
    BY <1>2, <1>3 DEF LedgersKnown, KnownWritten
  <1>7. (\A i \in 1..Len(moves) : Known(moves[i].number))'
    BY <1>4, <1>5 DEF Known, Numbered
  <1>8. (\A i \in 1..Len(entries) : entries[i].number = NoNumber \/ Known(entries[i].number))'
    BY <1>4, <1>6 DEF Known, Numbered
  <1> QED BY <1>7, <1>8 DEF LedgersKnown

(* Nothing in the ledgers belongs to a sale that was never confirmed: no   *)
(* step of confirm, payment or annulment, however they overlap or stop,    *)
(* writes a row under a number no sale carries, and no numbered sale is    *)
(* deleted from under its rows.                                            *)
THEOREM SalesNothingOutside == Spec => []NothingOutside
  <1>1. Init => LedgersKnown
    BY DEF Init, LedgersKnown
  <1>2. Spec => []LedgersKnown
    BY <1>1, LedgersKnownStep, SalesTyped, PTL DEF Spec
  <1>3. Typed /\ LedgersKnown => NothingOutside
    BY DEF Typed, LedgersKnown, NothingOutside, Known
  <1> QED BY <1>2, <1>3, SalesTyped, PTL

-----------------------------------------------------------------------------
(* Every payment is posted: a transaction that was posted for a payment or *)
(* a refund stays with its request, and with no other, until it is linked. *)

Holding == {"payLink", "link"}

References(i) == {payments[i].tx, payments[i].refund}

\* The account a request posted its transaction on.
AccountOf(q) == IF q.step = "payLink" THEN q.account ELSE payments[First(q.pays)].account

\* A transaction is on the account, and under the number of the sale.
Fits(id, account, s) ==
    id \in 1..Len(entries) /\ entries[id].account = account /\ entries[id].number = sales[s].number

FitsAfter(id, account, s) ==
    /\ id \in 1..Len(entries')
    /\ entries'[id].account = account /\ entries'[id].number = sales'[s].number

\* No payment refers to it.
Unreferenced(id) == \A i \in 1..Len(payments) : id \notin References(i)

Posted ==
    /\ PaymentsPosted
    /\ \A r \in Request :
           /\ req[r].step \in Holding =>
                  Fits(req[r].tx, AccountOf(req[r]), req[r].sale) /\ Unreferenced(req[r].tx)
           /\ req[r].step \in Cancelling =>
                  \A i \in req[r].pays : payments[i].sale = req[r].sale
    /\ \A r, o \in Request :
           r # o /\ req[r].step \in Holding /\ req[o].step \in Holding => req[r].tx # req[o].tx

\* No step moves a transaction to another account or number, or deletes a linked one.
EntriesKept ==
    /\ 1..Len(entries) \subseteq 1..Len(entries')
    /\ \A id \in 1..Len(entries) :
           /\ entries'[id].account = entries[id].account
           /\ entries'[id].number = entries[id].number
           /\ entries'[id].kind = "deleted" => entries[id].kind = "deleted" \/ ~ Linked(id)

\* A reference a step adds: to a transaction that fits, that is there, and that nobody else has.
Linkable(id, account, s) ==
    /\ id # 0 /\ Unreferenced(id) /\ FitsAfter(id, account, s) /\ entries'[id].kind # "deleted"
    /\ \A r \in Request : req'[r].step \in Holding => req'[r].tx # id

\* The three things a step can do to the payments.
LinksStep ==
    \/ UNCHANGED payments
    \/ \E pay \in Payment :
           /\ payments' = Append(payments, pay)
           /\ pay.refund = 0 /\ pay.sale \in 1..Len(sales) /\ Linkable(pay.tx, pay.account, pay.sale)
    \/ \E i \in 1..Len(payments), id \in Nat :
           /\ payments' = [payments EXCEPT ![i] = [payments[i] EXCEPT !.refund = id]]
           /\ Linkable(id, payments[i].account, payments[i].sale)

\* The things a step can do to a request that has posted, or is about to.
HoldersStep ==
    \A r \in Request :
        \/ req'[r] = req[r]
        \/ /\ req'[r].step \notin Holding
           /\ req'[r].step \in Cancelling =>
                  /\ req'[r].pays \subseteq 1..Len(payments)
                  /\ \A i \in req'[r].pays : payments[i].sale = req'[r].sale
        \/ /\ req'[r].step \in Holding /\ req'[r].tx = Len(entries) + 1 /\ UNCHANGED payments
           /\ FitsAfter(req'[r].tx, AccountOf(req'[r]), req'[r].sale)
           /\ req'[r].step \in Cancelling => \A i \in req'[r].pays : payments[i].sale = req'[r].sale
           /\ \A o \in Request : o # r => req'[o] = req[o]

(* What fits goes on to fit. *)
LEMMA FitsStays ==
    ASSUME TableKept, EntriesKept, NEW id, NEW account, NEW s \in 1..Len(sales), Numbered(s),
           Fits(id, account, s)
    PROVE  FitsAfter(id, account, s)
  BY DEF TableKept, EntriesKept, Fits, FitsAfter

(* What payments refer to goes on to be there. *)
LEMMA BackedStays ==
    ASSUME Typed, Posted, TableKept, EntriesKept, NEW i \in 1..Len(payments),
           NEW id \in References(i), id # 0
    PROVE  /\ FitsAfter(id, payments[i].account, payments[i].sale)
           /\ entries'[id].kind # "deleted"
  <1>1. Backed(i, id)
    BY DEF Posted, PaymentsPosted, References
  <1>2. payments[i].sale \in 1..Len(sales) /\ Numbered(payments[i].sale)
    BY DEF Typed
  <1>3. Fits(id, payments[i].account, payments[i].sale) /\ id \in 1..Len(entries)
    BY <1>1 DEF Backed, Fits
  <1>4. Linked(id) /\ entries[id].kind # "deleted"
    BY <1>1 DEF Linked, References, Backed
  <1> QED BY <1>2, <1>3, <1>4, FitsStays DEF EntriesKept

(* What PaymentsPosted says after a step, by payment and account. *)
LEMMA PostedAfter ==
    ASSUME \A i \in 1..Len(payments') :
              /\ FitsAfter(payments'[i].tx, payments'[i].account, payments'[i].sale)
              /\ entries'[payments'[i].tx].kind # "deleted"
              /\ payments'[i].refund # 0 =>
                    /\ FitsAfter(payments'[i].refund, payments'[i].account, payments'[i].sale)
                    /\ entries'[payments'[i].refund].kind # "deleted"
              /\ payments'[i].refund # payments'[i].tx,
           \A i, j \in 1..Len(payments') :
              i # j => {payments'[i].tx, payments'[i].refund}
                         \cap {payments'[j].tx, payments'[j].refund} \subseteq {0}
    PROVE  PaymentsPosted'
  BY DEF PaymentsPosted, Backed, FitsAfter

(* The payments remain posted. *)
LEMMA PaymentsPostedStep ==
    ASSUME Typed, Posted, TableKept, EntriesKept, LinksStep
    PROVE  PaymentsPosted'
  <1>1. payments \in Seq(Payment) /\ Len(payments) \in Nat
    BY LenProperties DEF Typed, TypeOK
  <1>2. \A i \in 1..Len(payments) : payments[i] \in Payment
    BY <1>1, ElementOfSeq
  <1>3. \A i \in 1..Len(payments) :
           /\ FitsAfter(payments[i].tx, payments[i].account, payments[i].sale)
           /\ entries'[payments[i].tx].kind # "deleted"
           /\ payments[i].refund # 0 =>
                 /\ FitsAfter(payments[i].refund, payments[i].account, payments[i].sale)
                 /\ entries'[payments[i].refund].kind # "deleted"
           /\ payments[i].refund # payments[i].tx
    <2> SUFFICES ASSUME NEW i \in 1..Len(payments)
                 PROVE  /\ FitsAfter(payments[i].tx, payments[i].account, payments[i].sale)
                        /\ entries'[payments[i].tx].kind # "deleted"
                        /\ payments[i].refund # 0 =>
                              /\ FitsAfter(payments[i].refund, payments[i].account, payments[i].sale)
                              /\ entries'[payments[i].refund].kind # "deleted"
                        /\ payments[i].refund # payments[i].tx
      OBVIOUS
    <2>1. payments[i].tx # 0
      BY <1>2 DEF Payment
    <2>2. payments[i].tx \in References(i) /\ payments[i].refund \in References(i)
      BY DEF References
    <2> QED BY <2>1, <2>2, BackedStays DEF Posted, PaymentsPosted
  <1>4. \A i, j \in 1..Len(payments) :
            i # j => {payments[i].tx, payments[i].refund}
                       \cap {payments[j].tx, payments[j].refund} \subseteq {0}
    BY DEF Posted, PaymentsPosted
  <1>5. CASE UNCHANGED payments
    BY <1>3, <1>4, <1>5, PostedAfter
  <1>6. CASE \E pay \in Payment :
                /\ payments' = Append(payments, pay)
                /\ pay.refund = 0 /\ pay.sale \in 1..Len(sales)
                /\ Linkable(pay.tx, pay.account, pay.sale)
    <2>1. PICK pay \in Payment :
                /\ payments' = Append(payments, pay)
                /\ pay.refund = 0 /\ Linkable(pay.tx, pay.account, pay.sale)
      BY <1>6
    <2>2. /\ Len(payments') = Len(payments) + 1
          /\ \A i \in 1..Len(payments) + 1 :
                IF i \in 1..Len(payments) THEN payments'[i] = payments[i]
                                          ELSE i = Len(payments) + 1 /\ payments'[i] = pay
      BY <1>1, <2>1, RowAppended
    <2>3. /\ FitsAfter(pay.tx, pay.account, pay.sale) /\ entries'[pay.tx].kind # "deleted"
          /\ pay.refund # pay.tx
          /\ \A i \in 1..Len(payments) : pay.tx # payments[i].tx /\ pay.tx # payments[i].refund
      BY <2>1 DEF Linkable, Unreferenced, References, Payment
    <2>4. \A i \in 1..Len(payments') :
              \/ i \in 1..Len(payments) /\ payments'[i] = payments[i]
              \/ i = Len(payments) + 1 /\ payments'[i] = pay
      <3> SUFFICES ASSUME NEW i \in 1..Len(payments'), i \notin 1..Len(payments)
                   PROVE  i = Len(payments) + 1 /\ payments'[i] = pay
        BY <2>2
      <3> QED BY <1>1, <2>2
    <2>5. ASSUME NEW i \in 1..Len(payments'), NEW j \in 1..Len(payments'), i # j
          PROVE  {payments'[i].tx, payments'[i].refund}
                    \cap {payments'[j].tx, payments'[j].refund} \subseteq {0}
      BY <1>4, <2>1, <2>3, <2>4, <2>5
    <2> QED BY <1>3, <2>1, <2>3, <2>4, <2>5, PostedAfter
  <1>7. CASE \E i \in 1..Len(payments), id \in Nat :
                /\ payments' = [payments EXCEPT ![i] = [payments[i] EXCEPT !.refund = id]]
                /\ Linkable(id, payments[i].account, payments[i].sale)
    <2>1. PICK k \in 1..Len(payments), id \in Nat :
                /\ payments' = [payments EXCEPT ![k] = [payments[k] EXCEPT !.refund = id]]
                /\ Linkable(id, payments[k].account, payments[k].sale)
      BY <1>7
    <2>2. PICK pay : pay = [payments[k] EXCEPT !.refund = id]
      OBVIOUS
    <2>3. /\ pay \in Payment /\ pay.refund = id /\ pay.tx = payments[k].tx
          /\ pay.account = payments[k].account /\ pay.sale = payments[k].sale
      BY <1>2, <2>2 DEF Payment
    <2>4. /\ Len(payments') = Len(payments) /\ payments'[k] = pay
          /\ \A i \in 1..Len(payments) : i # k => payments'[i] = payments[i]
      BY <1>1, <2>1, <2>2, <2>3, ExceptSeq
    <2>5. /\ FitsAfter(id, pay.account, pay.sale) /\ entries'[id].kind # "deleted"
          /\ \A i \in 1..Len(payments) : id # payments[i].tx /\ id # payments[i].refund
      BY <2>1, <2>3 DEF Linkable, Unreferenced, References
    <2>6. ASSUME NEW i \in 1..Len(payments'), NEW j \in 1..Len(payments'), i # j
          PROVE  {payments'[i].tx, payments'[i].refund}
                    \cap {payments'[j].tx, payments'[j].refund} \subseteq {0}
      BY <1>4, <2>3, <2>4, <2>5, <2>6
    <2> QED BY <1>3, <2>3, <2>4, <2>5, <2>6, PostedAfter
  <1> QED BY <1>5, <1>6, <1>7 DEF LinksStep

(* What the payments a step leaves say of the old ones and of what requests hold. *)
LEMMA LinksLeave ==
    ASSUME Typed, LinksStep
    PROVE  /\ \A i \in 1..Len(payments) :
                 /\ i \in 1..Len(payments')
                 /\ payments'[i].account = payments[i].account
                 /\ payments'[i].sale = payments[i].sale
           /\ \A r \in Request : \A id \in Nat \ {0} :
                 req'[r].step \in Holding /\ req'[r].tx = id /\ Unreferenced(id) =>
                     \A i \in 1..Len(payments') : id # payments'[i].tx /\ id # payments'[i].refund
  <1>1. payments \in Seq(Payment) /\ Len(payments) \in Nat
    BY LenProperties DEF Typed, TypeOK
  <1>2. CASE UNCHANGED payments
    BY <1>2 DEF Unreferenced, References
  <1>3. CASE \E pay \in Payment :
                /\ payments' = Append(payments, pay)
                /\ pay.refund = 0 /\ pay.sale \in 1..Len(sales)
                /\ Linkable(pay.tx, pay.account, pay.sale)
    <2>1. PICK pay \in Payment :
                /\ payments' = Append(payments, pay)
                /\ pay.refund = 0 /\ Linkable(pay.tx, pay.account, pay.sale)
      BY <1>3
    <2>2. /\ Len(payments') = Len(payments) + 1
          /\ \A i \in 1..Len(payments) + 1 :
                IF i \in 1..Len(payments) THEN payments'[i] = payments[i]
                                          ELSE i = Len(payments) + 1 /\ payments'[i] = pay
      BY <1>1, <2>1, RowAppended
    <2>3. ASSUME NEW r \in Request, NEW id \in Nat \ {0}, req'[r].step \in Holding,
                 req'[r].tx = id, Unreferenced(id), NEW i \in 1..Len(payments')
          PROVE  id # payments'[i].tx /\ id # payments'[i].refund
      <3>1. id # pay.tx /\ id # pay.refund
        BY <2>1, <2>3 DEF Linkable
      <3>2. CASE i \in 1..Len(payments)
        BY <2>2, <2>3, <3>2 DEF Unreferenced, References
      <3>3. CASE i \notin 1..Len(payments)
        BY <2>2, <3>1, <3>3
      <3> QED BY <3>2, <3>3
    <2>4. \A i \in 1..Len(payments) : i \in 1..Len(payments') /\ payments'[i] = payments[i]
      BY <1>1, <2>2
    <2> QED BY <2>3, <2>4
  <1>4. CASE \E i \in 1..Len(payments), id \in Nat :
                /\ payments' = [payments EXCEPT ![i] = [payments[i] EXCEPT !.refund = id]]
                /\ Linkable(id, payments[i].account, payments[i].sale)
    <2>1. PICK k \in 1..Len(payments), new \in Nat :
                /\ payments' = [payments EXCEPT ![k] = [payments[k] EXCEPT !.refund = new]]
                /\ Linkable(new, payments[k].account, payments[k].sale)
      BY <1>4
    <2>2. PICK pay : pay = [payments[k] EXCEPT !.refund = new]
      OBVIOUS
    <2>3. /\ pay \in Payment /\ pay.refund = new /\ pay.tx = payments[k].tx
          /\ pay.account = payments[k].account /\ pay.sale = payments[k].sale
      <3>1. payments[k] \in Payment
        BY <1>1, ElementOfSeq
      <3> QED BY <2>2, <3>1 DEF Payment
    <2>4. /\ Len(payments') = Len(payments) /\ payments'[k] = pay
          /\ \A i \in 1..Len(payments) : i # k => payments'[i] = payments[i]
      <3>1. payments' = [payments EXCEPT ![k] = pay]
        BY <2>1, <2>2
      <3> QED BY <1>1, <2>3, <3>1, ExceptSeq
    <2>5. ASSUME NEW r \in Request, NEW id \in Nat \ {0}, req'[r].step \in Holding,
                 req'[r].tx = id, Unreferenced(id), NEW i \in 1..Len(payments')
          PROVE  id # payments'[i].tx /\ id # payments'[i].refund
      <3>1. id # new
        BY <2>1, <2>5 DEF Linkable
      <3>2. i \in 1..Len(payments) /\ id # payments[i].tx /\ id # payments[i].refund
        BY <2>4, <2>5 DEF Unreferenced, References
      <3> QED BY <2>3, <2>4, <3>1, <3>2
    <2> QED BY <2>3, <2>4, <2>5
  <1> QED BY <1>2, <1>3, <1>4 DEF LinksStep

(* No payment refers to a transaction that is yet to come. *)
LEMMA NewUnreferenced ==
    ASSUME Typed, Posted
    PROVE  Unreferenced(Len(entries) + 1) /\ Len(entries) \in Nat
  <1>1. Len(entries) \in Nat
    BY LenProperties DEF Typed, TypeOK
  <1> SUFFICES ASSUME NEW i \in 1..Len(payments) PROVE Len(entries) + 1 \notin References(i)
    BY <1>1 DEF Unreferenced
  <1>2. payments[i].tx \in 1..Len(entries)
        /\ (payments[i].refund = 0 \/ payments[i].refund \in 1..Len(entries))
    BY DEF Posted, PaymentsPosted, Backed
  <1> QED BY <1>1, <1>2 DEF References

(* What a request holds goes on to be its own. *)
LEMMA HoldersKept ==
    ASSUME Typed, Typed', Posted, TableKept, EntriesKept, LinksStep, HoldersStep,
           NEW r \in Request
    PROVE  /\ req'[r].step \in Holding =>
                /\ FitsAfter(req'[r].tx, AccountOf(req[r])', req'[r].sale)
                /\ \A i \in 1..Len(payments') :
                      req'[r].tx # payments'[i].tx /\ req'[r].tx # payments'[i].refund
           /\ req'[r].step \in Cancelling =>
                \A i \in req'[r].pays : payments'[i].sale = req'[r].sale
           /\ req'[r].step \in Holding =>
                \/ req'[r] = req[r] /\ req'[r].tx \in 1..Len(entries)
                \/ req'[r].tx = Len(entries) + 1 /\ \A o \in Request : o # r => req'[o] = req[o]
  <1>1. /\ \A i \in 1..Len(payments) :
                 /\ i \in 1..Len(payments')
                 /\ payments'[i].account = payments[i].account
                 /\ payments'[i].sale = payments[i].sale
        /\ \A id \in Nat \ {0} :
                 req'[r].step \in Holding /\ req'[r].tx = id /\ Unreferenced(id) =>
                     \A i \in 1..Len(payments') : id # payments'[i].tx /\ id # payments'[i].refund
    BY LinksLeave
  <1>2. PICK q : q = req'[r]
    OBVIOUS
  <1>3. CASE req'[r] = req[r]
    <2>1. /\ q \in RequestState /\ Relies(q)
          /\ q.step \in Holding => q.tx \in Nat \ {0}
          /\ q.step \in Cancelling => q.pays \in SUBSET Nat
      BY <1>2, <1>3, RequestShape DEF Typed, Holding
    <2>2. /\ q.step \in Holding => Fits(q.tx, AccountOf(q), q.sale) /\ Unreferenced(q.tx)
          /\ q.step \in Cancelling => \A i \in q.pays : payments[i].sale = q.sale
      BY <1>2, <1>3 DEF Posted
    <2>3. q.step \in Cancelling => \A i \in q.pays : payments'[i].sale = q.sale
      BY <1>1, <2>1, <2>2 DEF Relies
    <2>4. ASSUME q.step \in Holding
          PROVE  /\ FitsAfter(q.tx, AccountOf(req[r])', q.sale) /\ q.tx \in 1..Len(entries)
                 /\ \A i \in 1..Len(payments') : q.tx # payments'[i].tx /\ q.tx # payments'[i].refund
      <3>1. q.sale \in 1..Len(sales) /\ Numbered(q.sale)
        BY <2>1, <2>4 DEF Relies, Posting, Cancelling, Holding
      <3>2. FitsAfter(q.tx, AccountOf(q), q.sale)
        BY <2>2, <2>4, <3>1, FitsStays
      <3>3. AccountOf(req[r])' = AccountOf(q)
        <4>1. CASE q.step = "payLink"
          BY <1>2, <4>1 DEF AccountOf
        <4>2. CASE q.step # "payLink"
          <5>1. q.step = "link"
            BY <2>4, <4>2 DEF Holding
          <5>2. First(q.pays) \in q.pays /\ q.pays \subseteq 1..Len(payments)
            BY <2>1, <5>1, FirstIn DEF Relies, Cancelling
          <5>3. payments'[First(q.pays)].account = payments[First(q.pays)].account
            BY <1>1, <5>2
          <5>4. AccountOf(req[r])' = payments'[First(q.pays)].account
            BY <1>2, <4>2 DEF AccountOf, First
          <5> QED BY <4>2, <5>3, <5>4 DEF AccountOf
        <4> QED BY <4>1, <4>2
      <3>4. q.tx \in 1..Len(entries)
        BY <2>2, <2>4 DEF Fits
      <3> QED BY <1>1, <1>2, <2>1, <2>2, <2>4, <3>2, <3>3, <3>4
    <2> QED BY <1>2, <1>3, <2>3, <2>4
  <1>4. CASE /\ req'[r].step \notin Holding
             /\ req'[r].step \in Cancelling =>
                  /\ req'[r].pays \subseteq 1..Len(payments)
                  /\ \A i \in req'[r].pays : payments[i].sale = req'[r].sale
    BY <1>1, <1>4
  <1>5. CASE /\ req'[r].step \in Holding /\ req'[r].tx = Len(entries) + 1 /\ UNCHANGED payments
             /\ FitsAfter(req'[r].tx, AccountOf(req'[r]), req'[r].sale)
             /\ req'[r].step \in Cancelling => \A i \in req'[r].pays : payments[i].sale = req'[r].sale
             /\ \A o \in Request : o # r => req'[o] = req[o]
    <2>1. AccountOf(req[r])' = AccountOf(req'[r])
      BY <1>5 DEF AccountOf, First
    <2>2. Unreferenced(Len(entries) + 1) /\ Len(entries) + 1 \in Nat \ {0}
      BY NewUnreferenced
    <2> QED BY <1>1, <1>5, <2>1, <2>2
  <1> QED BY <1>3, <1>4, <1>5 DEF HoldersStep

(* Posted is kept by a step that does these three things. *)
LEMMA PostedKept ==
    ASSUME Typed, Typed', Posted, TableKept, EntriesKept, LinksStep, HoldersStep
    PROVE  Posted'
  <1>1. PaymentsPosted'
    BY PaymentsPostedStep
  <1>2. ASSUME NEW r \in Request
        PROVE  /\ req'[r].step \in Holding =>
                   /\ Fits(req[r].tx, AccountOf(req[r]), req[r].sale)'
                   /\ Unreferenced(req[r].tx)'
               /\ req'[r].step \in Cancelling =>
                   \A i \in req'[r].pays : payments'[i].sale = req'[r].sale
    BY HoldersKept DEF Fits, FitsAfter, Unreferenced, References
  <1>3. ASSUME NEW r \in Request, NEW o \in Request, r # o, req'[r].step \in Holding,
               req'[o].step \in Holding
        PROVE  req'[r].tx # req'[o].tx
    <2>1. \/ req'[r] = req[r] /\ req'[r].tx \in 1..Len(entries)
          \/ req'[r].tx = Len(entries) + 1 /\ req'[o] = req[o]
      BY <1>3, HoldersKept
    <2>2. \/ req'[o] = req[o] /\ req'[o].tx \in 1..Len(entries)
          \/ req'[o].tx = Len(entries) + 1 /\ req'[r] = req[r]
      BY <1>3, HoldersKept
    <2>3. Len(entries) \in Nat
      BY NewUnreferenced
    <2>4. ASSUME req'[r] = req[r], req'[o] = req[o] PROVE req'[r].tx # req'[o].tx
      BY <1>3, <2>4 DEF Posted
    <2>5. ASSUME NEW p \in Request, req'[p] = req[p], req[p].step \in Holding
          PROVE  req'[p].tx \in 1..Len(entries)
      BY <2>5 DEF Posted, Fits
    <2> QED BY <1>3, <2>1, <2>2, <2>3, <2>4, <2>5
  <1> QED BY <1>1, <1>2, <1>3 DEF Posted

(* A request that holds nothing after its step. *)
LEMMA MovesUnheld ==
    ASSUME Typed, NEW r \in Request, NEW st \in RequestState, Becomes(r, st),
           st.step \notin Holding,
           st.step \in Cancelling => /\ st.pays \subseteq 1..Len(payments)
                                     /\ \A i \in st.pays : payments[i].sale = st.sale
    PROVE  HoldersStep
  <1>1. req'[r] = st /\ \A o \in Request : o # r => req'[o] = req[o]
    BY RequestMoves DEF Typed
  <1> QED BY <1>1 DEF HoldersStep

(* A request that ends holds nothing. *)
LEMMA EndsUnheld ==
    ASSUME Typed, NEW r \in Request, Becomes(r, Idle)
    PROVE  HoldersStep
  <1>1. Idle \in RequestState /\ Idle.step \notin Holding /\ Idle.step \notin Cancelling
    BY DEF RequestState, Idle, Holding, Cancelling
  <1> QED BY <1>1, MovesUnheld

(* Entries that are left alone, or get one more, are kept. *)
LEMMA EntriesGrow ==
    ASSUME Typed, UNCHANGED entries \/ \E e \in Entry : entries' = Append(entries, e)
    PROVE  EntriesKept
  <1>1. entries \in Seq(Entry) /\ Len(entries) \in Nat
    BY LenProperties DEF Typed, TypeOK
  <1>2. CASE UNCHANGED entries
    BY <1>2 DEF EntriesKept
  <1>3. CASE \E e \in Entry : entries' = Append(entries, e)
    <2>1. PICK e \in Entry : entries' = Append(entries, e)
      BY <1>3
    <2>2. /\ Len(entries') = Len(entries) + 1
          /\ \A i \in 1..Len(entries) : entries'[i] = entries[i]
      BY <1>1, <2>1
    <2> QED BY <1>1, <2>2 DEF EntriesKept
  <1> QED BY <1>2, <1>3

(* The manual operations move no transaction and delete no linked one. *)
LEMMA ManualPosts ==
    ASSUME Typed,
           \/ \E a \in Account, amount \in PayAmount : ManualExpense(a, amount)
           \/ \E id \in 1..Len(entries) :
                \/ ManualDelete(id)
                \/ \E kind \in Kind, amount \in PayAmount : ManualUpdate(id, kind, amount)
    PROVE  EntriesKept /\ LinksStep /\ HoldersStep
  <1>1. entries \in Seq(Entry) /\ Len(entries) \in Nat
    BY LenProperties DEF Typed, TypeOK
  <1>2. UNCHANGED <<payments, req>>
    BY DEF ManualExpense, ManualDelete, ManualUpdate
  <1>3. LinksStep /\ HoldersStep
    BY <1>2 DEF LinksStep, HoldersStep
  <1>4. ASSUME NEW a \in Account, NEW amount \in PayAmount, ManualExpense(a, amount)
        PROVE  EntriesKept
    <2>1. PICK e : e = [kind |-> "Expense", account |-> a, amount |-> amount, number |-> NoNumber]
      OBVIOUS
    <2>2. e \in Entry /\ entries' = Append(entries, e)
      BY <1>4, <2>1, SalesAssumption DEF ManualExpense, Entry, Kind, Number
    <2> QED BY <2>2, EntriesGrow
  <1>5. ASSUME NEW id \in 1..Len(entries), NEW e \in Entry, entries' = [entries EXCEPT ![id] = e],
               e.account = entries[id].account, e.number = entries[id].number,
               e.kind = "deleted" => ~ Linked(id)
        PROVE  EntriesKept
    <2>1. /\ Len(entries') = Len(entries) /\ entries'[id] = e
          /\ \A i \in 1..Len(entries) : i # id => entries'[i] = entries[i]
      BY <1>1, <1>5, ExceptSeq
    <2> QED BY <1>5, <2>1 DEF EntriesKept
  <1>6. ASSUME NEW id \in 1..Len(entries), ManualDelete(id) PROVE EntriesKept
    <2>1. PICK e : e = [entries[id] EXCEPT !.kind = "deleted"]
      OBVIOUS
    <2>2. entries[id] \in Entry
      BY <1>1, ElementOfSeq
    <2>3. e \in Entry /\ e.account = entries[id].account /\ e.number = entries[id].number
      BY <2>1, <2>2 DEF Entry
    <2>4. ~ Linked(id) /\ entries' = [entries EXCEPT ![id] = e]
      BY <1>6, <2>1 DEF ManualDelete
    <2> QED BY <1>5, <2>3, <2>4
  <1>7. ASSUME NEW id \in 1..Len(entries), NEW kind \in Kind, NEW amount \in PayAmount,
               ManualUpdate(id, kind, amount)
        PROVE  EntriesKept
    <2>1. PICK e : e = [entries[id] EXCEPT !.kind = kind, !.amount = amount]
      OBVIOUS
    <2>2. entries[id] \in Entry
      BY <1>1, ElementOfSeq
    <2>3. /\ e \in Entry /\ e.account = entries[id].account /\ e.number = entries[id].number
          /\ e.kind # "deleted"
      BY <2>1, <2>2, SalesAssumption DEF Entry, Kind
    <2>4. entries' = [entries EXCEPT ![id] = e]
      BY <1>7, <2>1 DEF ManualUpdate
    <2> QED BY <1>5, <2>3, <2>4
  <1> QED BY <1>3, <1>4, <1>6, <1>7

(* A request that starts holds nothing yet, and refunds its own payments. *)
LEMMA StartsUnheld ==
    ASSUME Typed, NEW r \in Request, Starts(r)
    PROVE  HoldersStep
  <1>1. PICK s \in 1..Len(sales) :
            \/ \E y \in Year : HeaderRead(r, s, y)
            \/ ConfirmRead(r, s) \/ CancelRead(r, s)
            \/ \E amount \in PayAmount : PayRead(r, s, amount)
    BY DEF Starts
  <1>2. \A o \in Request : o # r => req'[o] = req[o]
    BY <1>1 DEF HeaderRead, ConfirmRead, CancelRead, PayRead, Becomes, Typed, TypeOK
  <1>3. ASSUME NEW st, Becomes(r, st), st.step \notin Holding,
               st.step \in Cancelling => /\ st.pays \subseteq 1..Len(payments)
                                         /\ \A i \in st.pays : payments[i].sale = st.sale
        PROVE  HoldersStep
    <2>1. req'[r] = st
      BY <1>3 DEF Becomes, Typed, TypeOK
    <2> QED BY <1>2, <1>3, <2>1 DEF HoldersStep
  <1>4. ASSUME NEW y \in Year, HeaderRead(r, s, y) PROVE HoldersStep
    <2>1. PICK st : st = [step |-> "header", sale |-> s, year |-> y]
      OBVIOUS
    <2>2. Becomes(r, st) /\ st.step = "header"
      BY <1>4, <2>1 DEF HeaderRead
    <2> QED BY <1>3, <2>2 DEF Holding, Cancelling
  <1>5. ASSUME ConfirmRead(r, s) PROVE HoldersStep
    <2>1. PICK st : st = [step |-> "confirmCheck", sale |-> s, seen |-> sales[s]]
      OBVIOUS
    <2>2. Becomes(r, st) /\ st.step = "confirmCheck"
      BY <1>5, <2>1 DEF ConfirmRead
    <2> QED BY <1>3, <2>2 DEF Holding, Cancelling
  <1>6. ASSUME Becomes(r, [step |-> "discard", sale |-> s]) PROVE HoldersStep
    <2>1. PICK st : st = [step |-> "discard", sale |-> s]
      OBVIOUS
    <2>2. Becomes(r, st) /\ st.step = "discard"
      BY <1>6, <2>1
    <2> QED BY <1>3, <2>2 DEF Holding, Cancelling
  <1>7. ASSUME Becomes(r, ToReverse(s)) PROVE HoldersStep
    <2>1. PICK st : st = ToReverse(s)
      OBVIOUS
    <2>2. st.step = "cancelCheck" /\ st.sale = s /\ st.pays = PaymentsOf(s)
      BY <2>1 DEF ToReverse
    <2>3. PaymentsOf(s) \subseteq 1..Len(payments)
          /\ \A i \in PaymentsOf(s) : payments[i].sale = s
      BY DEF PaymentsOf, IsOf
    <2> QED BY <1>3, <1>7, <2>1, <2>2, <2>3 DEF Holding
  <1>8. ASSUME NEW amount \in PayAmount, PayRead(r, s, amount) PROVE HoldersStep
    <2>1. PICK st : st = [step |-> "payPost", sale |-> s, amount |-> amount]
      OBVIOUS
    <2>2. Becomes(r, st) /\ st.step = "payPost"
      BY <1>8, <2>1 DEF PayRead
    <2> QED BY <1>3, <2>2 DEF Holding, Cancelling
  <1>9. CancelRead(r, s) => \/ Becomes(r, [step |-> "discard", sale |-> s])
                            \/ Becomes(r, ToReverse(s))
    BY DEF CancelRead
  <1> QED BY <1>1, <1>4, <1>5, <1>6, <1>7, <1>8, <1>9

(* A confirm links the Income it posts in the same unit. *)
LEMMA ConfirmPosts ==
    ASSUME Typed, Typed', Posted, TableKept, NEW r \in Request, NEW a \in Account, ConfirmUnit(r, a)
    PROVE  EntriesKept /\ LinksStep /\ HoldersStep
  <1>1. /\ entries \in Seq(Entry) /\ payments \in Seq(Payment) /\ sales \in Seq(Sale)
        /\ Len(entries) \in Nat /\ Len(payments) \in Nat
    BY LenProperties DEF Typed, TypeOK
  <1>2. HoldersStep
    BY EndsUnheld DEF ConfirmUnit
  <1>3. PICK q : q = req[r]
    OBVIOUS
  <1>4. q.sale \in 1..Len(sales) /\ q.sale \in SaleId /\ q.seen \in Sale
    BY <1>3, RequestShape DEF ConfirmUnit, Typed, Relies
  <1>5. PICK number : number = NextNumber(q.seen.year)
    OBVIOUS
  <1>6. number \in Number /\ q.seen.lines \in Seq(Line)
    <2>1. q.seen.year \in Year /\ q.seen.lines \in Seq(Line)
      BY <1>4 DEF Sale
    <2>5. number \in Number
      BY <1>5, <2>1, NextNumberIn
    <2> QED BY <2>1, <2>5
  <1>7. PICK total \in Nat : total = Total(q.seen.lines)
    BY <1>6, TotalNat
  <1>8. CASE UNCHANGED <<entries, payments>>
    BY <1>2, <1>8, EntriesGrow DEF LinksStep
  <1>9. CASE ~ UNCHANGED <<entries, payments>>
    <2>1. PICK e : e = [kind |-> "Income", account |-> a, amount |-> total, number |-> number]
      OBVIOUS
    <2>2. PICK pay : pay = [sale |-> q.sale, account |-> a, amount |-> total,
                            tx |-> Len(entries) + 1, refund |-> 0]
      OBVIOUS
    <2>3. total > 0 /\ entries' = Append(entries, e) /\ payments' = Append(payments, pay)
      BY <1>3, <1>5, <1>7, <1>9, <2>1, <2>2 DEF ConfirmUnit, PostCash
    <2>4. e \in Entry /\ e.kind = "Income" /\ e.account = a /\ e.number = number
      BY <1>6, <1>7, <2>1, <2>3 DEF Entry, Kind
    <2>5. pay \in Payment /\ pay.refund = 0 /\ pay.sale = q.sale /\ pay.account = a
          /\ pay.tx = Len(entries) + 1
      <3>1. q.sale \in Nat \ {0}
        BY <1>4 DEF SaleId
      <3> QED BY <1>1, <1>7, <2>2, <2>3, <3>1 DEF Payment
    <2>6. sales'[q.sale].number = number
      <3>1. sales' = [sales EXCEPT ![q.sale] =
                        [sales[q.sale] EXCEPT !.status = "Confirmed", !.number = number]]
        BY <1>3, <1>5 DEF ConfirmUnit, Rewrite
      <3>2. sales[q.sale] \in Sale
        BY <1>1, <1>4, ElementOfSeq
      <3> QED BY <1>1, <1>4, <3>1, <3>2 DEF Sale
    <2>7. Len(entries') = Len(entries) + 1 /\ entries'[Len(entries) + 1] = e
      BY <1>1, <2>3
    <2>8. ASSUME NEW o \in Request, req'[o].step \in Holding PROVE req'[o].tx # Len(entries) + 1
      <3>1. o # r
        <4>1. req'[r] = Idle
          BY DEF ConfirmUnit, Becomes, Typed, TypeOK
        <4> QED BY <2>8, <4>1 DEF Idle, Holding
      <3>2. req'[o] = req[o]
        BY <3>1 DEF ConfirmUnit, Becomes, Typed, TypeOK
      <3>3. req[o].tx \in 1..Len(entries)
        BY <2>8, <3>2 DEF Typed, Relies, Holding
      <3> QED BY <1>1, <3>2, <3>3
    <2>9. Linkable(pay.tx, pay.account, pay.sale)
      BY <1>1, <2>4, <2>5, <2>6, <2>7, <2>8, NewUnreferenced DEF Linkable, FitsAfter
    <2> QED BY <1>2, <1>4, <2>3, <2>4, <2>5, <2>9, EntriesGrow DEF LinksStep
  <1> QED BY <1>8, <1>9

(* A payment posts a transaction the request holds. *)
LEMMA PayPosts ==
    ASSUME Typed, Typed', Posted, TableKept, NEW r \in Request, NEW a \in Account, PayPost(r, a)
    PROVE  EntriesKept /\ LinksStep /\ HoldersStep
  <1>1. entries \in Seq(Entry) /\ Len(entries) \in Nat /\ sales \in Seq(Sale)
    BY LenProperties DEF Typed, TypeOK
  <1>2. PICK q : q = req[r]
    OBVIOUS
  <1>3. q.step = "payPost" /\ q.amount \in PayAmount /\ q.sale \in 1..Len(sales)
    BY <1>2, RequestShape DEF PayPost, Typed, Relies
  <1>4. PICK e : e = [kind |-> "Income", account |-> a, amount |-> q.amount,
                      number |-> sales[q.sale].number]
    OBVIOUS
  <1>5. e \in Entry /\ e.account = a /\ e.number = sales[q.sale].number
    <2>1. sales[q.sale] \in Sale
      BY <1>1, <1>3, ElementOfSeq
    <2>2. sales[q.sale].number \in Number
      BY <2>1 DEF Sale
    <2> QED BY <1>3, <1>4, <2>2, SalesAssumption DEF Entry, Kind
  <1>6. entries' = Append(entries, e) /\ UNCHANGED <<sales, payments>>
    BY <1>2, <1>4 DEF PayPost
  <1>7. PICK st : st = [step |-> "payLink", sale |-> q.sale, account |-> a,
                        amount |-> q.amount, tx |-> Len(entries) + 1]
    OBVIOUS
  <1>8. Becomes(r, st)
    BY <1>2, <1>7 DEF PayPost
  <1>9. req'[r] = st /\ \A o \in Request : o # r => req'[o] = req[o]
    BY <1>8 DEF Becomes, Typed, TypeOK
  <1>10. Len(entries') = Len(entries) + 1 /\ entries'[Len(entries) + 1] = e
    BY <1>1, <1>6
  <1>11. FitsAfter(st.tx, AccountOf(st), st.sale)
    BY <1>1, <1>5, <1>6, <1>7, <1>10 DEF FitsAfter, AccountOf
  <1>12. HoldersStep
    BY <1>6, <1>7, <1>9, <1>11 DEF HoldersStep, Holding, Cancelling
  <1> QED BY <1>5, <1>6, <1>12, EntriesGrow DEF LinksStep

(* The payment row refers to the transaction the request holds. *)
LEMMA PayLinks ==
    ASSUME Typed, Typed', Posted, TableKept, NEW r \in Request, PayLink(r)
    PROVE  EntriesKept /\ LinksStep /\ HoldersStep
  <1>1. PICK q : q = req[r]
    OBVIOUS
  <1>2. /\ q.step = "payLink" /\ q.amount \in PayAmount /\ q.account \in Account
        /\ q.sale \in SaleId /\ q.tx \in Nat \ {0} /\ q.sale \in 1..Len(sales)
        /\ entries[q.tx].kind # "deleted" /\ Numbered(q.sale)
    BY <1>1, RequestShape DEF PayLink, Typed, Relies, Posting
  <1>3. PICK pay : pay = PaymentRow(q, q.tx)
    OBVIOUS
  <1>4. /\ pay \in Payment /\ pay.refund = 0 /\ pay.sale = q.sale /\ pay.account = q.account
        /\ pay.tx = q.tx
    <2>1. q.sale \in Nat \ {0}
      BY <1>2 DEF SaleId
    <2> QED BY <1>2, <1>3, <2>1, SalesAssumption DEF PaymentRow, Payment
  <1>5. payments' = Append(payments, pay) /\ UNCHANGED <<sales, entries>> /\ Becomes(r, Idle)
    BY <1>1, <1>3 DEF PayLink
  <1>6. req[r].step \in Holding /\ AccountOf(q) = q.account
    BY <1>1, <1>2 DEF Holding, AccountOf
  <1>7. Fits(q.tx, q.account, q.sale) /\ Unreferenced(q.tx)
    BY <1>1, <1>6 DEF Posted
  <1>8. ASSUME NEW o \in Request, req'[o].step \in Holding PROVE req'[o].tx # q.tx
    <2>1. o # r /\ req'[o] = req[o]
      BY <1>5, <1>8 DEF Becomes, Typed, TypeOK, Idle, Holding
    <2> QED BY <1>1, <1>6, <1>8, <2>1 DEF Posted
  <1>9. Linkable(pay.tx, pay.account, pay.sale)
    BY <1>2, <1>4, <1>5, <1>7, <1>8 DEF Linkable, Fits, FitsAfter
  <1> QED BY <1>2, <1>4, <1>5, <1>9, EntriesGrow, EndsUnheld DEF LinksStep

(* A refund posts a transaction the request holds, on its payment's account. *)
LEMMA RefundPosts ==
    ASSUME Typed, Typed', Posted, TableKept, NEW r \in Request, RefundPost(r)
    PROVE  EntriesKept /\ LinksStep /\ HoldersStep
  <1>1. /\ entries \in Seq(Entry) /\ Len(entries) \in Nat /\ sales \in Seq(Sale)
        /\ payments \in Seq(Payment)
    BY LenProperties DEF Typed, TypeOK
  <1>2. PICK q : q = req[r]
    OBVIOUS
  <1>3. /\ q.step = "reverse" /\ q.pays # {} /\ q.sale \in 1..Len(sales)
        /\ q.pays \subseteq 1..Len(payments) /\ q.pays \in SUBSET Nat
    BY <1>2, RequestShape DEF RefundPost, Typed, Relies, Cancelling
  <1>4. \A i \in q.pays : payments[i].sale = q.sale
    BY <1>2, <1>3 DEF Posted, Cancelling
  <1>5. PICK pay : pay = payments[First(q.pays)]
    OBVIOUS
  <1>6. UNCHANGED <<sales, payments>>
    BY DEF RefundPost
  <1>7. PICK e : e = [kind |-> "Expense", account |-> pay.account, amount |-> pay.amount,
                      number |-> sales[q.sale].number]
    OBVIOUS
  <1>8. PICK st : st = [step |-> "link", sale |-> q.sale, lines |-> {}, pays |-> q.pays,
                        tx |-> Len(entries) + 1]
    OBVIOUS
  <1>9. \/ entries' = Append(entries, e) /\ Becomes(r, st)
        \/ Becomes(r, Idle) /\ UNCHANGED entries
    BY <1>2, <1>5, <1>7, <1>8 DEF RefundPost
  <1>10. CASE Becomes(r, Idle) /\ UNCHANGED entries
    BY <1>6, <1>10, EndsUnheld, EntriesGrow DEF LinksStep
  <1>11. CASE entries' = Append(entries, e) /\ Becomes(r, st)
    <2>1. e \in Entry /\ e.account = pay.account /\ e.number = sales[q.sale].number
      <3>1. sales[q.sale] \in Sale /\ pay \in Payment
        BY <1>1, <1>3, <1>5, FirstIn, ElementOfSeq
      <3>2. sales[q.sale].number \in Number
        BY <3>1 DEF Sale
      <3> QED BY <1>7, <3>1, <3>2 DEF Payment, Entry, Kind
    <2>2. req'[r] = st /\ \A o \in Request : o # r => req'[o] = req[o]
      BY <1>11 DEF Becomes, Typed, TypeOK
    <2>3. Len(entries') = Len(entries) + 1 /\ entries'[Len(entries) + 1] = e
      BY <1>1, <1>11
    <2>4. FitsAfter(st.tx, AccountOf(st), st.sale)
      BY <1>1, <1>5, <1>6, <1>8, <2>1, <2>3 DEF FitsAfter, AccountOf
    <2>5. HoldersStep
      BY <1>4, <1>6, <1>8, <2>2, <2>4 DEF HoldersStep, Holding
    <2> QED BY <1>6, <1>11, <2>1, <2>5, EntriesGrow DEF LinksStep
  <1> QED BY <1>9, <1>10, <1>11

(* The payment is linked to the refund the request holds. *)
LEMMA RefundLinks ==
    ASSUME Typed, Typed', Posted, TableKept, NEW r \in Request, RefundLink(r)
    PROVE  EntriesKept /\ LinksStep /\ HoldersStep
  <1>1. PICK q : q = req[r]
    OBVIOUS
  <1>2. /\ q.step = "link" /\ q.pays # {} /\ q.pays \subseteq 1..Len(payments)
        /\ q.pays \in SUBSET Nat /\ q.tx \in Nat \ {0} /\ q.sale \in 1..Len(sales)
        /\ entries[q.tx].kind # "deleted" /\ q.sale \in SaleId
    BY <1>1, RequestShape DEF RefundLink, Typed, Relies, Cancelling
  <1>3. PICK i : i = First(q.pays)
    OBVIOUS
  <1>4. i \in q.pays /\ i \in 1..Len(payments)
    BY <1>2, <1>3, FirstIn
  <1>5. \A j \in q.pays : payments[j].sale = q.sale
    BY <1>1, <1>2 DEF Posted, Cancelling
  <1>6. /\ payments' = [payments EXCEPT ![i] = [payments[i] EXCEPT !.refund = q.tx]]
        /\ UNCHANGED <<sales, entries>>
    BY <1>1, <1>3 DEF RefundLink
  <1>7. PICK st : st = [step |-> "reverse", sale |-> q.sale, lines |-> {},
                        pays |-> q.pays \ {i}]
    OBVIOUS
  <1>8. Becomes(r, st)
    BY <1>1, <1>3, <1>7 DEF RefundLink
  <1>9. req[r].step \in Holding /\ AccountOf(q) = payments[i].account
    BY <1>1, <1>2, <1>3 DEF Holding, AccountOf
  <1>10. Fits(q.tx, payments[i].account, payments[i].sale) /\ Unreferenced(q.tx)
    BY <1>1, <1>4, <1>5, <1>9 DEF Posted
  <1>11. ASSUME NEW o \in Request, req'[o].step \in Holding PROVE req'[o].tx # q.tx
    <2>1. req'[r] = st /\ \A p \in Request : p # r => req'[p] = req[p]
      BY <1>8 DEF Becomes, Typed, TypeOK
    <2>2. o # r
      BY <1>7, <1>11, <2>1 DEF Holding
    <2> QED BY <1>1, <1>9, <1>11, <2>1, <2>2 DEF Posted
  <1>12. Linkable(q.tx, payments[i].account, payments[i].sale)
    BY <1>2, <1>6, <1>10, <1>11 DEF Linkable, Fits, FitsAfter
  <1>13. HoldersStep
    <2>1. st \in RequestState
      BY <1>2, <1>7 DEF RequestState
    <2>2. st.step = "reverse" /\ st.pays \subseteq q.pays /\ st.sale = q.sale
      BY <1>7
    <2> QED BY <1>2, <1>5, <1>8, <2>1, <2>2, MovesUnheld DEF Holding
  <1> QED BY <1>2, <1>4, <1>6, <1>12, <1>13, EntriesGrow DEF LinksStep

(* The steps of a request that touch neither transactions nor payments. *)
LEMMA OthersUnheld ==
    ASSUME Typed, Posted, NEW r \in Request,
           \/ HeaderWrite(r) \/ Discard(r) \/ CancelClose(r) \/ Quit(r)
           \/ ConfirmCheck(r) \/ CancelCheck(r) \/ ReturnLine(r)
    PROVE  EntriesKept /\ LinksStep /\ HoldersStep
  <1>1. UNCHANGED <<entries, payments>>
    BY DEF HeaderWrite, Discard, CancelClose, Quit, ConfirmCheck, CancelCheck, ReturnLine, Unwritten
  <1>2. CASE HeaderWrite(r) \/ Discard(r) \/ CancelClose(r) \/ Quit(r)
    BY <1>1, <1>2, EndsUnheld, EntriesGrow DEF HeaderWrite, Discard, CancelClose, Quit, LinksStep
  <1>3. PICK q : q = req[r]
    OBVIOUS
  <1>4. q \in RequestState /\ Relies(q)
    BY <1>3, RequestShape DEF Typed
  <1>5. ASSUME ConfirmCheck(r) PROVE HoldersStep
    <2>1. PICK st : st = [q EXCEPT !.step = "confirmUnit"]
      OBVIOUS
    <2>2. q.step = "confirmCheck" /\ Becomes(r, st)
      BY <1>3, <1>5, <2>1 DEF ConfirmCheck
    <2>3. st \in RequestState /\ st.step = "confirmUnit"
      BY <1>4, <2>1, <2>2 DEF RequestState, Idle
    <2> QED BY <2>2, <2>3, MovesUnheld DEF Holding, Cancelling
  <1>6. ASSUME NEW st \in RequestState, Becomes(r, st), st.step = "reverse", q.step \in Cancelling,
               st.sale = q.sale, st.pays = q.pays
        PROVE  HoldersStep
    <2>1. q.pays \subseteq 1..Len(payments) /\ \A i \in q.pays : payments[i].sale = q.sale
      BY <1>3, <1>4, <1>6 DEF Posted, Relies
    <2> QED BY <1>6, <2>1, MovesUnheld DEF Holding
  <1>7. ASSUME CancelCheck(r) PROVE HoldersStep
    <2>1. PICK st : st = [q EXCEPT !.step = "reverse"]
      OBVIOUS
    <2>2. q.step = "cancelCheck" /\ Becomes(r, st)
      BY <1>3, <1>7, <2>1 DEF CancelCheck
    <2>3. st \in RequestState /\ st.step = "reverse" /\ st.sale = q.sale /\ st.pays = q.pays
      BY <1>4, <2>1, <2>2 DEF RequestState, Idle
    <2> QED BY <1>6, <2>2, <2>3 DEF Cancelling
  <1>8. ASSUME ReturnLine(r) PROVE HoldersStep
    <2>1. PICK st : st = [q EXCEPT !.lines = q.lines \ {First(q.lines)}]
      OBVIOUS
    <2>2. q.step = "reverse" /\ Becomes(r, st)
      BY <1>3, <1>8, <2>1 DEF ReturnLine
    <2>3. st \in RequestState /\ st.step = "reverse" /\ st.sale = q.sale /\ st.pays = q.pays
      BY <1>4, <2>1, <2>2 DEF RequestState, Idle
    <2> QED BY <1>6, <2>2, <2>3 DEF Cancelling
  <1> QED BY <1>1, <1>2, <1>5, <1>7, <1>8, EntriesGrow DEF LinksStep

(* Posted is inductive. *)
LEMMA PostedStep == Typed /\ Posted /\ [Next]_vars => Posted'
  <1> SUFFICES ASSUME Typed, Posted, [Next]_vars PROVE Posted'
    OBVIOUS
  <1>1. TableKept /\ Typed'
    BY StepOnTable, TableTyped, TypedStep
  <1>2. CASE UNCHANGED <<entries, payments, req>>
    <2>1. EntriesKept /\ LinksStep /\ HoldersStep
      BY <1>2, EntriesGrow DEF LinksStep, HoldersStep
    <2> QED BY <1>1, <2>1, PostedKept
  <1>3. CASE \/ \E a \in Account, amount \in PayAmount : ManualExpense(a, amount)
             \/ \E id \in 1..Len(entries) :
                   \/ ManualDelete(id)
                   \/ \E kind \in Kind, amount \in PayAmount : ManualUpdate(id, kind, amount)
    BY <1>1, <1>3, ManualPosts, PostedKept
  <1>4. ASSUME NEW r \in Request, Starts(r) PROVE Posted'
    <2>1. UNCHANGED <<entries, payments>>
      BY <1>4 DEF Starts, HeaderRead, ConfirmRead, CancelRead, PayRead, Unwritten
    <2>2. EntriesKept /\ LinksStep /\ HoldersStep
      BY <1>4, <2>1, EntriesGrow, StartsUnheld DEF LinksStep
    <2> QED BY <1>1, <2>2, PostedKept
  <1>5. ASSUME NEW r \in Request, Works(r) \/ Quit(r) PROVE Posted'
    <2>1. EntriesKept /\ LinksStep /\ HoldersStep
      BY <1>1, <1>5, ConfirmPosts, PayPosts, PayLinks, RefundPosts, RefundLinks, OthersUnheld
         DEF Works
    <2> QED BY <1>1, <2>1, PostedKept
  <1>6. \/ UNCHANGED <<entries, payments, req>>
        \/ \E a \in Account, amount \in PayAmount : ManualExpense(a, amount)
        \/ \E id \in 1..Len(entries) :
              \/ ManualDelete(id)
              \/ \E kind \in Kind, amount \in PayAmount : ManualUpdate(id, kind, amount)
        \/ \E r \in Request : Starts(r) \/ Works(r) \/ Quit(r)
    BY ClientsWrite DEF Next, vars
  <1> QED BY <1>2, <1>3, <1>4, <1>5, <1>6

(* Every payment row keeps a transaction of its own, on its account and    *)
(* under its document's number, and so does every refund: although the row *)
(* is written after the transaction was posted, another payment may be     *)
(* posted, and a transaction be edited or deleted by hand, in between, and *)
(* two annulments of one sale may overlap.                                 *)
THEOREM SalesPaymentsPosted == Spec => []PaymentsPosted
  <1>1. Init => Posted
    BY DEF Init, Posted, PaymentsPosted, Idle, Holding, Cancelling
  <1>2. Spec => []Posted
    BY <1>1, PostedStep, SalesTyped, PTL DEF Spec
  <1>3. Posted => PaymentsPosted
    BY DEF Posted
  <1> QED BY <1>2, <1>3, PTL

-----------------------------------------------------------------------------
(* What a confirm ships.                                                   *)

\* The units of p in one row.
Units(row, p) == IF row.product = p THEN row.qty ELSE 0

UnitsOf(S, p) == [row \in S |-> Units(row, p)]

(* The units of a line or of a movement are a natural number. *)
LEMMA UnitsNat ==
    ASSUME NEW p
    PROVE  /\ UnitsOf(Line, p) \in [Line -> Nat] /\ UnitsOf(Line, p) \in [Line -> Int]
           /\ UnitsOf(Move, p) \in [Move -> Nat] /\ UnitsOf(Move, p) \in [Move -> Int]
  <1>1. ASSUME NEW row \in Line \cup Move PROVE Units(row, p) \in Nat
    <2>1. row.qty \in Nat
      BY SalesAssumption DEF Line, Move
    <2> QED BY <2>1 DEF Units
  <1>2. Nat \subseteq Int
    OBVIOUS
  <1> QED BY <1>1, <1>2 DEF UnitsOf

(* What lines ask for is the sum of their units. *)
LEMMA DemandIsSum ==
    ASSUME NEW lines \in Seq(Line), NEW p
    PROVE  Demand(lines, p) = RowSum(UnitsOf(Line, p), lines)
  <1> DEFINE w == [i \in 1..Len(lines) |-> IF lines[i].product = p THEN lines[i].qty ELSE 0]
  <1>1. \A i \in 1..Len(lines) : w[i] = UnitsOf(Line, p)[lines[i]]
    <2> SUFFICES ASSUME NEW i \in 1..Len(lines)
                 PROVE  Units(lines[i], p) = UnitsOf(Line, p)[lines[i]]
      BY DEF Units
    <2>1. lines[i] \in Line
      BY ElementOfSeq
    <2> QED BY <2>1 DEF UnitsOf
  <1> HIDE DEF w
  <1>2. SumOver(w, Len(lines)) = RowSum(UnitsOf(Line, p), lines)
    BY <1>1, RowSumIs
  <1> QED BY <1>2 DEF Demand, w

(* The tracked lines ask for as many units of a tracked product as all of them. *)
LEMMA TrackedDemand ==
    ASSUME NEW lines \in Seq(Line), NEW p \in Tracked
    PROVE  RowSum(UnitsOf(Line, p), TrackedLines(lines)) = Demand(lines, p)
  <1> DEFINE n == Len(lines)
             g == CHOOSE g : Gathers(g, lines, n)
             f == UnitsOf(Line, p)
             w == [i \in 1..n |-> f[lines[i]]]
             S == {k \in Nat : k <= n => g[k] \in Seq(Line) /\ RowSum(f, g[k]) = SumOver(w, k)}
  <1>0. n \in Nat
    OBVIOUS
  <1>1. Gathers(g, lines, n)
    BY <1>0, GathersExists
  <1>2. TrackedLines(lines) = g[n]
    BY DEF TrackedLines, Gathers
  <1> HIDE DEF g
  <1>3. \A i \in 0..n : g[i] = IF i = 0 THEN <<>>
                              ELSE IF lines[i].product \in Tracked THEN Append(g[i - 1], lines[i])
                              ELSE g[i - 1]
    BY <1>1 DEF Gathers
  <1>4. \A i \in 1..n : lines[i] \in Line /\ w[i] = f[lines[i]]
    BY ElementOfSeq
  <1>5. f \in [Line -> Int] /\ \A line \in Line : f[line] = Units(line, p)
    BY UnitsNat DEF UnitsOf
  <1>6. SumOver(w, n) = Demand(lines, p)
    BY DemandIsSum DEF RowSum
  <1> HIDE DEF w, f
  <1>7. 0 \in S
    <2>1. g[0] = <<>>
      BY <1>0, <1>3
    <2>2. RowSum(f, <<>>) = 0 /\ SumOver(w, 0) = 0
      BY <1>5, RowSumInt, SumOverStep
    <2> QED BY <2>1, <2>2, EmptySeq
  <1>8. ASSUME NEW k \in Nat, k \in S PROVE k + 1 \in S
    <2> SUFFICES ASSUME k + 1 <= n
                 PROVE  g[k + 1] \in Seq(Line) /\ RowSum(f, g[k + 1]) = SumOver(w, k + 1)
      OBVIOUS
    <2>1. g[k] \in Seq(Line) /\ RowSum(f, g[k]) = SumOver(w, k)
      BY <1>0, <1>8
    <2>2. k + 1 \in 1..n /\ k + 1 \in 0..n /\ k + 1 # 0 /\ (k + 1) - 1 = k
      BY <1>0
    <2>3. SumOver(w, k + 1) = SumOver(w, k) + f[lines[k + 1]]
      BY <1>4, <2>2, SumOverStep
    <2>4. g[k + 1] = IF lines[k + 1].product \in Tracked THEN Append(g[k], lines[k + 1]) ELSE g[k]
      BY <1>3, <2>2
    <2>5. lines[k + 1] \in Line
      BY <1>4, <2>2
    <2>6. CASE lines[k + 1].product \in Tracked
      <3>1. RowSum(f, g[k + 1]) = RowSum(f, g[k]) + f[lines[k + 1]]
        <4>1. PICK rows \in Seq(Line), line \in Line : rows = g[k] /\ line = lines[k + 1]
          BY <2>1, <2>5
        <4>2. g[k + 1] = Append(rows, line)
          BY <2>4, <2>6, <4>1
        <4>3. RowSum(f, Append(rows, line)) = RowSum(f, rows) + f[line]
          BY <1>5, RowSumAppend
        <4> QED BY <4>1, <4>2, <4>3
      <3> QED BY <2>1, <2>3, <2>4, <2>5, <2>6, <3>1
    <2>7. CASE lines[k + 1].product \notin Tracked
      <3>1. f[lines[k + 1]] = 0
        BY <1>5, <2>5, <2>7 DEF Units
      <3>2. RowSum(f, g[k]) \in Int
        BY <1>5, <2>1, RowSumInt
      <3> QED BY <2>1, <2>3, <2>4, <2>7, <3>1, <3>2
    <2> QED BY <2>6, <2>7
  <1>9. S = Nat
    <2> HIDE DEF S
    <2>1. S \in SUBSET Nat
      BY DEF S
    <2> QED BY <1>7, <1>8, <2>1, InductionBySet
  <1>10. n \in S
    BY <1>0, <1>9
  <1> QED BY <1>0, <1>2, <1>6, <1>10 DEF f

(* The movements of a confirm carry exactly the units its lines ask for. *)
LEMMA ShippedUnits ==
    ASSUME NEW lines \in Seq(Line), NEW number \in Number, ShipLines(lines, number)
    PROVE  \E new \in Seq(Move) :
              /\ moves' = moves \o new
              /\ \A i \in 1..Len(new) : new[i].out = TRUE /\ new[i].number = number
              /\ \A p \in Tracked : RowSum(UnitsOf(Move, p), new) = Demand(lines, p)
  <1>1. PICK new \in Seq(Move) :
              /\ moves' = moves \o new /\ Len(new) = Len(TrackedLines(lines))
              /\ \A i \in 1..Len(new) :
                    new[i] = [product |-> TrackedLines(lines)[i].product, out |-> TRUE,
                              qty |-> TrackedLines(lines)[i].qty, number |-> number]
    BY ShippedRows
  <1>2. PICK out \in Seq(TrackedLine) : out = TrackedLines(lines)
    BY TrackedLinesTyped
  <1>3. ASSUME NEW i \in 1..Len(new)
        PROVE  /\ new[i].out = TRUE /\ new[i].number = number
               /\ new[i].product = out[i].product /\ new[i].qty = out[i].qty
    <2>1. PICK line : line = out[i]
      OBVIOUS
    <2>2. new[i] = [product |-> line.product, out |-> TRUE, qty |-> line.qty, number |-> number]
      BY <1>1, <1>2, <2>1
    <2> QED BY <2>1, <2>2
  <1>4. ASSUME NEW p \in Tracked PROVE RowSum(UnitsOf(Move, p), new) = Demand(lines, p)
    <2>1. \A i \in 1..Len(new) : UnitsOf(Move, p)[new[i]] = UnitsOf(Line, p)[out[i]]
      <3> SUFFICES ASSUME NEW i \in 1..Len(new)
                   PROVE  UnitsOf(Move, p)[new[i]] = UnitsOf(Line, p)[out[i]]
        OBVIOUS
      <3>1. new[i] \in Move /\ out[i] \in TrackedLine
        BY <1>1, <1>2, ElementOfSeq
      <3>2. out[i] \in Line
        BY <3>1, SalesAssumption DEF TrackedLine, Line
      <3> QED BY <1>3, <3>1, <3>2 DEF UnitsOf, Units
    <2>2. Len(out) = Len(new) /\ out \in Seq(TrackedLine)
      BY <1>1, <1>2
    <2>3. RowSum(UnitsOf(Move, p), new) = RowSum(UnitsOf(Line, p), out)
      <3>1. SameFigures(UnitsOf(Move, p), new, UnitsOf(Line, p), out)
        BY <2>1, <2>2 DEF SameFigures
      <3> QED BY <3>1, RowSumAgree
    <2> QED BY <1>2, <2>3, TrackedDemand
  <1> QED BY <1>1, <1>3, <1>4

-----------------------------------------------------------------------------
(* Stock never goes below zero.                                            *)

\* What a movement adds to the level of p.
Change(p) == [m \in Move |-> IF m.out THEN 0 - Units(m, p) ELSE Units(m, p)]

LevelIn(rows, p) ==
    SumOver([i \in 1..Len(rows) |->
        IF rows[i].product # p THEN 0
        ELSE IF rows[i].out THEN -rows[i].qty ELSE rows[i].qty], Len(rows))

(* A level is the sum of the changes. *)
LEMMA LevelIsSum ==
    ASSUME NEW rows \in Seq(Move), NEW p
    PROVE  /\ LevelIn(rows, p) = RowSum(Change(p), rows)
           /\ Change(p) \in [Move -> Int]
           /\ RowSum(Change(p), rows) \in Int
  <1> DEFINE w == [i \in 1..Len(rows) |->
                     IF rows[i].product # p THEN 0
                     ELSE IF rows[i].out THEN -rows[i].qty ELSE rows[i].qty]
  <1>1. \A i \in 1..Len(rows) : w[i] = Change(p)[rows[i]]
    <2> SUFFICES ASSUME NEW i \in 1..Len(rows) PROVE w[i] = Change(p)[rows[i]]
      OBVIOUS
    <2>1. PICK m \in Move : m = rows[i]
      BY ElementOfSeq
    <2>2. m.qty \in Nat \ {0} /\ Change(p)[m] = IF m.out THEN 0 - Units(m, p) ELSE Units(m, p)
      BY SalesAssumption DEF Move, Change
    <2>3. w[i] = IF m.product # p THEN 0 ELSE IF m.out THEN -m.qty ELSE m.qty
      BY <2>1
    <2> HIDE DEF w
    <2>4. CASE m.product # p
      <3>1. Units(m, p) = 0
        BY <2>4 DEF Units
      <3> QED BY <2>1, <2>2, <2>3, <2>4, <3>1
    <2>5. CASE m.product = p
      <3>1. Units(m, p) = m.qty
        BY <2>5 DEF Units
      <3> QED BY <2>1, <2>2, <2>3, <2>5, <3>1
    <2> QED BY <2>4, <2>5
  <1>2. Change(p) \in [Move -> Int]
    <2> SUFFICES ASSUME NEW m \in Move
                 PROVE  (IF m.out THEN 0 - Units(m, p) ELSE Units(m, p)) \in Int
      BY DEF Change
    <2>1. Units(m, p) \in Int
      BY UnitsNat DEF UnitsOf
    <2> QED BY <2>1
  <1> HIDE DEF w
  <1>3. SumOver(w, Len(rows)) = RowSum(Change(p), rows)
    BY <1>1, RowSumIs
  <1>4. RowSum(Change(p), rows) \in Int
    BY <1>2, RowSumInt
  <1> QED BY <1>2, <1>3, <1>4 DEF LevelIn, w

(* So it is before and after a step. *)
LEMMA LevelNow ==
    ASSUME Typed, Typed', NEW p
    PROVE  /\ moves \in Seq(Move) /\ moves' \in Seq(Move)
           /\ Level(p) = Opening + RowSum(Change(p), moves)
           /\ Level(p)' = Opening + RowSum(Change(p), moves')
           /\ Change(p) \in [Move -> Int] /\ Opening \in Int
           /\ RowSum(Change(p), moves) \in Int /\ RowSum(Change(p), moves') \in Int
  <1>1. moves \in Seq(Move) /\ moves' \in Seq(Move)
    BY DEF Typed, TypeOK
  <1>2. Level(p) = Opening + LevelIn(moves, p) /\ Level(p)' = Opening + LevelIn(moves', p)
    BY DEF Level, LevelIn
  <1> QED BY <1>1, <1>2, LevelIsSum, SalesAssumption

(* A returned line lowers no level. *)
LEMMA LevelReturned ==
    ASSUME Typed, Typed', NEW m, m.out = FALSE, moves' = Append(moves, m), NEW p
    PROVE  Level(p)' >= Level(p)
  <1>1. moves \in Seq(Move) /\ moves' \in Seq(Move)
    BY DEF Typed, TypeOK
  <1>2. m \in Move
    <2>1. Len(moves') = Len(moves) + 1 /\ moves'[Len(moves) + 1] = m /\ Len(moves) \in Nat
      BY <1>1
    <2> QED BY <1>1, <2>1, ElementOfSeq
  <1>3. RowSum(Change(p), moves') = RowSum(Change(p), moves) + Change(p)[m]
    BY <1>1, <1>2, LevelIsSum, RowSumAppend
  <1>4. Change(p)[m] = Units(m, p)
    BY <1>2 DEF Change
  <1>5. Units(m, p) \in Nat
    BY <1>2, UnitsNat DEF UnitsOf
  <1> QED BY <1>3, <1>4, <1>5, LevelNow

(* A confirm lowers the level of a tracked product by what its lines ask for. *)
LEMMA LevelShipped ==
    ASSUME Typed, Typed', NEW lines \in Seq(Line), NEW number \in Number,
           ShipLines(lines, number), NEW p \in Tracked
    PROVE  Level(p)' = Level(p) - Demand(lines, p) /\ Demand(lines, p) \in Nat
  <1>1. PICK new \in Seq(Move) :
              /\ moves' = moves \o new
              /\ \A i \in 1..Len(new) : new[i].out = TRUE
              /\ RowSum(UnitsOf(Move, p), new) = Demand(lines, p)
    <2>1. \E new \in Seq(Move) :
              /\ moves' = moves \o new
              /\ \A i \in 1..Len(new) : new[i].out = TRUE /\ new[i].number = number
              /\ \A t \in Tracked : RowSum(UnitsOf(Move, t), new) = Demand(lines, t)
      BY ShippedUnits
    <2> QED BY <2>1
  <1>2. RowSum(Change(p), moves') = RowSum(Change(p), moves) + RowSum(Change(p), new)
    BY <1>1, LevelNow, RowSumConcat
  <1>3. RowSum(Change(p), new) = 0 - RowSum(UnitsOf(Move, p), new)
    <2> DEFINE w == [i \in 1..Len(new) |-> UnitsOf(Move, p)[new[i]]]
               v == [i \in 1..Len(new) |-> Change(p)[new[i]]]
    <2>1. \A i \in 1..Len(new) : w[i] \in Int /\ v[i] = 0 - w[i]
      <3> SUFFICES ASSUME NEW i \in 1..Len(new)
                   PROVE  /\ UnitsOf(Move, p)[new[i]] \in Int
                          /\ Change(p)[new[i]] = 0 - UnitsOf(Move, p)[new[i]]
        OBVIOUS
      <3>1. PICK m \in Move : m = new[i] /\ m.out = TRUE
        BY <1>1, ElementOfSeq
      <3>2. Change(p)[m] = 0 - Units(m, p) /\ UnitsOf(Move, p)[m] = Units(m, p)
        BY <3>1 DEF Change, UnitsOf
      <3> QED BY <3>1, <3>2, UnitsNat
    <2>2. Len(new) \in Nat
      BY LenProperties
    <2> HIDE DEF w, v
    <2>3. SumOver(v, Len(new)) = 0 - SumOver(w, Len(new))
      BY <2>1, <2>2, SumOverNegated
    <2> QED BY <2>3 DEF RowSum, w, v
  <1>4. Demand(lines, p) \in Nat
    <2>1. UnitsOf(Line, p) \in [Line -> Nat]
      BY UnitsNat
    <2>2. RowSum(UnitsOf(Line, p), lines) \in Nat
      BY <2>1, RowSumNat
    <2> QED BY <2>2, DemandIsSum
  <1> QED BY <1>1, <1>2, <1>3, <1>4, LevelNow

(* Every step keeps the movements, returns a line, or ships what the unit accepted. *)
LEMMA StepOnMoves ==
    ASSUME Typed, [Next]_vars
    PROVE  \/ UNCHANGED moves
           \/ \E m : m.out = FALSE /\ moves' = Append(moves, m)
           \/ \E lines \in Seq(Line), number \in Number : InStock(lines) /\ ShipLines(lines, number)
  <1>1. ASSUME NEW r \in Request, ReturnLine(r)
        PROVE  \E m : m.out = FALSE /\ moves' = Append(moves, m)
    <2>1. PICK sale : sale = sales[req[r].sale]
      OBVIOUS
    <2>2. PICK line : line = sale.lines[First(req[r].lines)]
      OBVIOUS
    <2>3. PICK m : m = [product |-> line.product, out |-> FALSE, qty |-> line.qty,
                        number |-> sale.number]
      OBVIOUS
    <2>4. m.out = FALSE /\ moves' = Append(moves, m)
      BY <1>1, <2>1, <2>2, <2>3 DEF ReturnLine
    <2> QED BY <2>4
  <1>2. ASSUME NEW r \in Request, NEW a \in Account, ConfirmUnit(r, a)
        PROVE  \E lines \in Seq(Line), number \in Number : InStock(lines) /\ ShipLines(lines, number)
    <2>1. PICK q : q = req[r]
      OBVIOUS
    <2>2. q.seen \in Sale
      BY <1>2, <2>1, RequestShape DEF ConfirmUnit, Typed
    <2>3. q.seen.year \in Year /\ q.seen.lines \in Seq(Line)
      BY <2>2 DEF Sale
    <2>4. NextNumber(q.seen.year) \in Number
      <3>1. lastNumber[q.seen.year] + 1 \in Nat \ {0}
        BY <2>3 DEF Typed, TypeOK
      <3> QED BY <2>3, <3>1 DEF NextNumber, Number
    <2>5. InStock(q.seen.lines) /\ ShipLines(q.seen.lines, NextNumber(q.seen.year))
      BY <1>2, <2>1 DEF ConfirmUnit, UnitAccepts
    <2> QED BY <2>3, <2>4, <2>5
  <1>3. \/ UNCHANGED moves
        \/ \E r \in Request : ReturnLine(r) \/ \E a \in Account : ConfirmUnit(r, a)
    <2>1. \/ UNCHANGED moves
          \/ \E r \in Request : Works(r)
      BY ClientsWrite, FirstWritesNothing DEF Next, vars, Unwritten
    <2>2. ASSUME NEW r \in Request, Works(r)
          PROVE  UNCHANGED moves \/ ReturnLine(r) \/ \E a \in Account : ConfirmUnit(r, a)
      BY <2>2 DEF Works, HeaderWrite, Discard, ConfirmCheck, PayPost, PayLink, CancelCheck,
                  RefundPost, RefundLink, CancelClose, Unwritten
    <2> QED BY <2>1, <2>2
  <1> QED BY <1>1, <1>2, <1>3

(* Where stock may not go negative, no step takes units that are not       *)
(* there: however many confirms passed their check before another took the *)
(* goods, the fold inside the unit counts every movement already written,  *)
(* and one line of a product as much as several.                           *)
THEOREM SalesShipCovered == Spec => ShipsCovered
  <1>1. Typed /\ Typed' /\ [Next]_vars =>
            (~ AllowNegativeStock => \A p \in Tracked : Level(p)' < Level(p) => Level(p)' >= 0)
    <2> SUFFICES ASSUME Typed, Typed', [Next]_vars, ~ AllowNegativeStock, NEW p \in Tracked,
                        Level(p)' < Level(p)
                 PROVE  Level(p)' >= 0
      OBVIOUS
    <2>1. Level(p) \in Int /\ Level(p)' \in Int
      BY LevelNow
    <2>2. CASE UNCHANGED moves
      BY <2>1, <2>2 DEF Level
    <2>3. ASSUME NEW m, m.out = FALSE, moves' = Append(moves, m) PROVE FALSE
      <3>1. Level(p)' >= Level(p)
        BY <2>3, LevelReturned
      <3> QED BY <2>1, <3>1
    <2>4. ASSUME NEW lines \in Seq(Line), NEW number \in Number, InStock(lines),
                 ShipLines(lines, number)
          PROVE  Level(p)' >= 0
      <3>1. Level(p)' = Level(p) - Demand(lines, p) /\ Demand(lines, p) \in Nat
        BY <2>4, LevelShipped
      <3>2. Demand(lines, p) = 0 \/ Level(p) - Demand(lines, p) >= 0
        BY <2>4 DEF InStock
      <3> QED BY <2>1, <3>1, <3>2
    <2> QED BY <2>2, <2>3, <2>4, StepOnMoves
  <1> QED BY <1>1, SalesTyped, PTL DEF Spec, ShipsCovered

-----------------------------------------------------------------------------
(* Where requests are served one at a time.                                *)

\* At most one request is under way.
Alone == \A r, o \in Request : req[r] # Idle /\ req[o] # Idle => r = o

\* What the request under way has read still holds.
Holds(q) ==
    /\ q.step \in {"confirmCheck", "confirmUnit"} =>
           sales[q.sale] = q.seen /\ q.seen.status = "Draft"
    /\ q.step = "discard" => sales[q.sale].status = "Draft"
    /\ q.step \in {"payPost", "payLink"} \cup Cancelling => sales[q.sale].status = "Confirmed"
    /\ q.step \in {"payPost", "payLink"} => q.amount <= Due(q.sale)
    /\ q.step \in {"payLink", "link"} => entries[q.tx].kind # "deleted"

Held == \A r \in Request : Holds(req[r])

\* No other request is under way.
Sole(r) == \A o \in Request : o # r => req[o] = Idle

(* A step is one of no request, a request's first, or of the one request   *)
(* under way.                                                              *)
LEMMA SerialCases ==
    ASSUME OneAtATime, Alone, Typed, [Next]_vars
    PROVE  \/ UNCHANGED vars
           \/ /\ \A r \in Request : req[r] = Idle
              /\ UNCHANGED req
              /\ \/ Drafting
                 \/ \E a \in Account, amount \in PayAmount : ManualExpense(a, amount)
                 \/ \E id \in 1..Len(entries) :
                       \/ ManualDelete(id)
                       \/ \E kind \in Kind, amount \in PayAmount : ManualUpdate(id, kind, amount)
           \/ \E r \in Request : Sole(r) /\ Starts(r)
           \/ \E r \in Request : Sole(r) /\ (Works(r) \/ Quit(r))
  <1>1. ASSUME NEW r \in Request, Starts(r) PROVE Sole(r)
    BY <1>1 DEF Starts, HeaderRead, ConfirmRead, CancelRead, PayRead, Free, Quiet, Sole
  <1>2. ASSUME NEW r \in Request, Works(r) \/ Quit(r) PROVE Sole(r)
    <2>1. req[r] # Idle
      <3>1. Works(r) => req[r].step # "idle"
        BY DEF Works, HeaderWrite, Discard, ConfirmCheck, ConfirmUnit, PayPost, PayLink,
               CancelCheck, ReturnLine, RefundPost, RefundLink, CancelClose
      <3>2. Idle.step = "idle"
        BY DEF Idle
      <3> QED BY <1>2, <3>1, <3>2 DEF Quit
    <2> QED BY <2>1 DEF Alone, Sole
  <1>3. Drafting => Quiet /\ UNCHANGED req
    BY ClientsWrite
  <1>4. ASSUME \/ \E a \in Account, amount \in PayAmount : ManualExpense(a, amount)
               \/ \E id \in 1..Len(entries) :
                     \/ ManualDelete(id)
                     \/ \E kind \in Kind, amount \in PayAmount : ManualUpdate(id, kind, amount)
        PROVE  Quiet /\ UNCHANGED req
    BY <1>4 DEF ManualExpense, ManualDelete, ManualUpdate
  <1>5. Quiet => \A r \in Request : req[r] = Idle
    BY DEF Quiet
  <1> QED BY <1>1, <1>2, <1>3, <1>4, <1>5 DEF Next

(* The one request under way moves on to what holds. *)
LEMMA SoleMoves ==
    ASSUME Typed, NEW r \in Request, Sole(r), NEW st, Becomes(r, st), Holds(st)'
    PROVE  Alone' /\ Held'
  <1>1. req' = [req EXCEPT ![r] = st] /\ req \in [Request -> RequestState]
    BY DEF Becomes, Typed, TypeOK
  <1>2. req'[r] = st /\ \A o \in Request : o # r => req'[o] = Idle
    BY <1>1 DEF Sole
  <1>3. Alone'
    BY <1>2 DEF Alone
  <1>4. Holds(Idle)'
    BY DEF Holds, Idle, Cancelling
  <1>5. Held'
    <2> SUFFICES ASSUME NEW o \in Request PROVE Holds(req[o])'
      BY DEF Held
    <2>1. PICK q : q = req'[o]
      OBVIOUS
    <2>2. Holds(q)'
      BY <1>2, <1>4, <2>1
    <2> QED BY <2>1, <2>2 DEF Holds
  <1> QED BY <1>3, <1>5

(* A request that has ended holds nothing. *)
LEMMA SoleEnds ==
    ASSUME Typed, NEW r \in Request, Sole(r), Becomes(r, Idle)
    PROVE  Alone' /\ Held'
  <1>1. Holds(Idle)'
    BY DEF Holds, Idle, Cancelling
  <1> QED BY <1>1, SoleMoves

(* What holds goes on to hold where sales and payments stay and no kind is deleted. *)
LEMMA HoldsStays ==
    ASSUME UNCHANGED <<sales, payments>>, NEW q, Holds(q),
           q.step \in {"payLink", "link"} => entries'[q.tx].kind # "deleted"
    PROVE  Holds(q)'
  <1>1. Due(q.sale)' = Due(q.sale)
    BY DEF Due, Paid, Total, IsOf
  <1> QED BY <1>1 DEF Holds

(* A request's first step reads what holds. *)
LEMMA StartsHeld ==
    ASSUME Typed, NEW r \in Request, Sole(r), Starts(r)
    PROVE  Alone' /\ Held'
  <1>1. PICK s \in 1..Len(sales) :
            \/ \E y \in Year : HeaderRead(r, s, y)
            \/ ConfirmRead(r, s) \/ CancelRead(r, s)
            \/ \E amount \in PayAmount : PayRead(r, s, amount)
    BY DEF Starts
  <1>2. UNCHANGED <<sales, payments, entries>>
    BY <1>1 DEF HeaderRead, ConfirmRead, CancelRead, PayRead, Unwritten
  <1>3. ASSUME NEW st, Becomes(r, st), Holds(st), st.step \notin {"payLink", "link"}
        PROVE  Alone' /\ Held'
    BY <1>2, <1>3, HoldsStays, SoleMoves
  <1>4. ASSUME NEW y \in Year, HeaderRead(r, s, y) PROVE Alone' /\ Held'
    <2>1. PICK st : st = [step |-> "header", sale |-> s, year |-> y]
      OBVIOUS
    <2>2. Becomes(r, st) /\ st.step = "header"
      BY <1>4, <2>1 DEF HeaderRead
    <2>3. Holds(st)
      BY <2>2 DEF Holds, Cancelling
    <2> QED BY <1>3, <2>2, <2>3
  <1>5. ASSUME ConfirmRead(r, s) PROVE Alone' /\ Held'
    <2>1. PICK st : st = [step |-> "confirmCheck", sale |-> s, seen |-> sales[s]]
      OBVIOUS
    <2>2. Becomes(r, st) /\ st.step = "confirmCheck" /\ sales[s].status = "Draft"
      BY <1>5, <2>1 DEF ConfirmRead, Is
    <2>3. Holds(st)
      BY <2>1, <2>2 DEF Holds, Cancelling
    <2> QED BY <1>3, <2>2, <2>3
  <1>6. ASSUME sales[s].status = "Draft", Becomes(r, [step |-> "discard", sale |-> s])
        PROVE Alone' /\ Held'
    <2>1. PICK st : st = [step |-> "discard", sale |-> s]
      OBVIOUS
    <2>2. Becomes(r, st) /\ st.step = "discard" /\ st.sale = s
      BY <1>6, <2>1
    <2>3. Holds(st)
      BY <1>6, <2>2 DEF Holds, Cancelling
    <2> QED BY <1>3, <2>2, <2>3
  <1>7. ASSUME sales[s].status = "Confirmed", Becomes(r, ToReverse(s)) PROVE Alone' /\ Held'
    <2>1. PICK st : st = ToReverse(s)
      OBVIOUS
    <2>2. Becomes(r, st) /\ st.step = "cancelCheck" /\ st.sale = s
      BY <1>7, <2>1 DEF ToReverse
    <2>3. Holds(st)
      BY <1>7, <2>2 DEF Holds, Cancelling
    <2> QED BY <1>3, <2>2, <2>3
  <1>8. ASSUME NEW amount \in PayAmount, PayRead(r, s, amount) PROVE Alone' /\ Held'
    <2>1. PICK st : st = [step |-> "payPost", sale |-> s, amount |-> amount]
      OBVIOUS
    <2>2. Becomes(r, st) /\ st.step = "payPost" /\ sales[s].status = "Confirmed"
      BY <1>8, <2>1 DEF PayRead, Is
    <2>3. Holds(st)
      BY <1>8, <2>1, <2>2 DEF Holds, Cancelling, PayRead
    <2> QED BY <1>3, <2>2, <2>3
  <1>9. CancelRead(r, s) => \/ sales[s].status = "Draft" /\ Becomes(r, [step |-> "discard", sale |-> s])
                            \/ sales[s].status = "Confirmed" /\ Becomes(r, ToReverse(s))
    BY DEF CancelRead, Is
  <1> QED BY <1>1, <1>4, <1>5, <1>6, <1>7, <1>8, <1>9

(* The request under way goes on from what holds to what holds. *)
LEMMA WorksHeld ==
    ASSUME Typed, Held, NEW r \in Request, Sole(r), Works(r) \/ Quit(r)
    PROVE  Alone' /\ Held'
  <1>1. PICK q : q = req[r]
    OBVIOUS
  <1>2. q \in RequestState /\ Relies(q) /\ Holds(q)
    BY <1>1, RequestShape DEF Typed, Held
  <1>3. entries \in Seq(Entry) /\ Len(entries) \in Nat
    BY LenProperties DEF Typed, TypeOK
  <1>4. CASE HeaderWrite(r) \/ Discard(r) \/ CancelClose(r) \/ Quit(r) \/ PayLink(r)
             \/ \E a \in Account : ConfirmUnit(r, a)
    <2>1. Becomes(r, Idle)
      BY <1>4 DEF HeaderWrite, Discard, CancelClose, Quit, PayLink, ConfirmUnit
    <2> QED BY <2>1, SoleEnds
  <1>5. ASSUME ConfirmCheck(r) PROVE Alone' /\ Held'
    <2>1. PICK st : st = [q EXCEPT !.step = "confirmUnit"]
      OBVIOUS
    <2>2. q.step = "confirmCheck" /\ Becomes(r, st) /\ UNCHANGED <<sales, payments>>
      BY <1>1, <1>5, <2>1 DEF ConfirmCheck, Unwritten
    <2>3. st.step = "confirmUnit" /\ st.sale = q.sale /\ st.seen = q.seen
      BY <1>2, <2>1, <2>2 DEF RequestState, Idle
    <2>4. Holds(st)
      BY <1>2, <2>2, <2>3 DEF Holds, Cancelling
    <2> QED BY <2>2, <2>3, <2>4, HoldsStays, SoleMoves
  <1>6. ASSUME NEW a \in Account, PayPost(r, a) PROVE Alone' /\ Held'
    <2>1. PICK e : e = [kind |-> "Income", account |-> a, amount |-> q.amount,
                        number |-> sales[q.sale].number]
      OBVIOUS
    <2>2. PICK st : st = [step |-> "payLink", sale |-> q.sale, account |-> a,
                          amount |-> q.amount, tx |-> Len(entries) + 1]
      OBVIOUS
    <2>3. /\ q.step = "payPost" /\ Becomes(r, st) /\ UNCHANGED <<sales, payments>>
          /\ entries' = Append(entries, e)
      BY <1>1, <1>6, <2>1, <2>2 DEF PayPost
    <2>4. entries'[st.tx] = e
      BY <1>3, <2>2, <2>3, AppendProperties
    <2>5. entries'[st.tx].kind # "deleted"
      BY <2>1, <2>4
    <2>6. st.sale = q.sale /\ st.amount = q.amount /\ st.step = "payLink"
      BY <2>2
    <2>7. sales[st.sale].status = "Confirmed" /\ st.amount <= Due(st.sale)
      BY <1>2, <2>3, <2>6 DEF Holds
    <2>8. Due(st.sale)' = Due(st.sale)
      BY <2>3 DEF Due, Paid, Total, IsOf
    <2>9. Holds(st)'
      BY <2>3, <2>5, <2>6, <2>7, <2>8 DEF Holds, Cancelling
    <2> QED BY <2>3, <2>9, SoleMoves
  <1>7. ASSUME NEW st, Becomes(r, st), st.step \in Cancelling, q.step \in Cancelling,
               st.sale = q.sale, UNCHANGED sales,
               st.step = "link" => entries'[st.tx].kind # "deleted"
        PROVE  Alone' /\ Held'
    <2>1. sales'[st.sale].status = "Confirmed"
      BY <1>2, <1>7 DEF Holds
    <2>2. Holds(st)'
      BY <1>7, <2>1 DEF Holds, Cancelling
    <2> QED BY <1>7, <2>2, SoleMoves
  <1>8. ASSUME CancelCheck(r) PROVE Alone' /\ Held'
    <2>1. PICK st : st = [q EXCEPT !.step = "reverse"]
      OBVIOUS
    <2>2. q.step = "cancelCheck" /\ Becomes(r, st) /\ UNCHANGED sales
      BY <1>1, <1>8, <2>1 DEF CancelCheck, Unwritten
    <2>3. st.step = "reverse" /\ st.sale = q.sale
      BY <1>2, <2>1, <2>2 DEF RequestState, Idle
    <2> QED BY <1>7, <2>2, <2>3 DEF Cancelling
  <1>9. ASSUME ReturnLine(r) PROVE Alone' /\ Held'
    <2>1. PICK st : st = [q EXCEPT !.lines = q.lines \ {First(q.lines)}]
      OBVIOUS
    <2>2. q.step = "reverse" /\ Becomes(r, st) /\ UNCHANGED sales
      BY <1>1, <1>9, <2>1 DEF ReturnLine
    <2>3. st.step = "reverse" /\ st.sale = q.sale
      BY <1>2, <2>1, <2>2 DEF RequestState, Idle
    <2> QED BY <1>7, <2>2, <2>3 DEF Cancelling
  <1>10. ASSUME RefundPost(r) PROVE Alone' /\ Held'
    <2>1. PICK pay : pay = payments[First(q.pays)]
      OBVIOUS
    <2>2. PICK e : e = [kind |-> "Expense", account |-> pay.account, amount |-> pay.amount,
                        number |-> sales[q.sale].number]
      OBVIOUS
    <2>3. PICK st : st = [step |-> "link", sale |-> q.sale, lines |-> {}, pays |-> q.pays,
                          tx |-> Len(entries) + 1]
      OBVIOUS
    <2>4. /\ q.step = "reverse" /\ UNCHANGED sales
          /\ Becomes(r, Idle) \/ (Becomes(r, st) /\ entries' = Append(entries, e))
      BY <1>1, <1>10, <2>1, <2>2, <2>3 DEF RefundPost
    <2>5. CASE Becomes(r, st) /\ entries' = Append(entries, e)
      <3>1. entries'[st.tx] = e
        BY <1>3, <2>3, <2>5, AppendProperties
      <3>2. entries'[st.tx].kind # "deleted" /\ st.step = "link" /\ st.sale = q.sale
        BY <2>2, <2>3, <3>1
      <3> QED BY <1>7, <2>4, <2>5, <3>2 DEF Cancelling
    <2> QED BY <2>4, <2>5, SoleEnds
  <1>11. ASSUME RefundLink(r) PROVE Alone' /\ Held'
    <2>1. PICK st : st = [step |-> "reverse", sale |-> q.sale, lines |-> {},
                          pays |-> q.pays \ {First(q.pays)}]
      OBVIOUS
    <2>2. q.step = "link" /\ Becomes(r, st) /\ UNCHANGED sales
      BY <1>1, <1>11, <2>1 DEF RefundLink
    <2>3. st.step = "reverse" /\ st.sale = q.sale
      BY <2>1
    <2> QED BY <1>7, <2>2, <2>3 DEF Cancelling
  <1> QED BY <1>4, <1>5, <1>6, <1>8, <1>9, <1>10, <1>11 DEF Works

(* Where requests are served one at a time, one is under way at most, and  *)
(* what it has read holds until it has answered: its document is the one   *)
(* it saw, its payment fits what is due, its transaction is there.         *)
LEMMA HeldStep == OneAtATime /\ Typed /\ Alone /\ Held /\ [Next]_vars => Alone' /\ Held'
  <1> SUFFICES ASSUME OneAtATime, Typed, Alone, Held, [Next]_vars PROVE Alone' /\ Held'
    OBVIOUS
  <1>1. CASE UNCHANGED vars
    <2>1. UNCHANGED <<req, sales, payments, entries>>
      BY <1>1 DEF vars
    <2>2. Held'
      BY <2>1 DEF Held, Holds, Due, Paid, Total, IsOf
    <2> QED BY <2>1, <2>2 DEF Alone
  <1>2. CASE (\A r \in Request : req[r] = Idle) /\ UNCHANGED req
    <2>1. Holds(Idle)'
      BY DEF Holds, Idle, Cancelling
    <2>2. Held'
      BY <1>2, <2>1 DEF Held, Holds
    <2> QED BY <1>2, <2>2 DEF Alone
  <1> QED BY <1>1, <1>2, SerialCases, StartsHeld, WorksHeld

LEMMA HeldInit == Init => Alone /\ Held
  BY DEF Init, Alone, Held, Holds, Idle, Cancelling

-----------------------------------------------------------------------------
(* What a step does to the sales, the movements and the payments.          *)

\* A confirm: of a draft, as it is, under a number of its own.
Confirms(s, number, a) ==
    /\ s \in 1..Len(sales) /\ sales[s].status = "Draft" /\ ~ Numbered(s)
    /\ number \in Number /\ number # NoNumber
    /\ \A t \in 1..Len(sales) : sales[t].number # number
    /\ ShipLines(sales[s].lines, number)
    /\ IF sales[s].ptype = "Cash" /\ Total(sales[s].lines) > 0
       THEN \E pay \in Payment : /\ pay.sale = s /\ pay.amount = Total(sales[s].lines)
                                 /\ pay.refund = 0
                                 /\ payments' = Append(payments, pay)
       ELSE UNCHANGED payments
    /\ sales' = [sales EXCEPT ![s] = [sales[s] EXCEPT !.status = "Confirmed", !.number = number]]

\* No sale is confirmed, and a numbered one keeps what figures are made of.
SalesQuiet ==
    /\ Len(sales') = Len(sales) \/ Len(sales') = Len(sales) + 1
    /\ \A s \in 1..Len(sales) :
           /\ sales'[s].number = sales[s].number
           /\ Numbered(s) => /\ sales'[s].lines = sales[s].lines
                             /\ sales'[s].ptype = sales[s].ptype
                             /\ sales'[s].customer = sales[s].customer
           /\ sales'[s].status = "Confirmed" => sales[s].status = "Confirmed"
           /\ sales[s].status = "Cancelled" /\ Numbered(s) => sales'[s].status = "Cancelled"
    /\ \A s \in 1..Len(sales') : s \in 1..Len(sales) \/ sales'[s].number = NoNumber

(* A step confirms, or leaves the sequences, returns a line at most, and   *)
(* links a payment or a refund at most.                                    *)
LEMMA ConfirmsOrNot ==
    ASSUME Typed, [Next]_vars
    PROVE  \/ \E r \in Request, a \in Account : ConfirmUnit(r, a)
           \/ /\ UNCHANGED lastNumber
              /\ UNCHANGED moves \/ \E r \in Request : ReturnLine(r)
              /\ UNCHANGED payments \/ \E r \in Request : PayLink(r) \/ RefundLink(r)
  <1>1. \/ UNCHANGED <<lastNumber, moves, payments>>
        \/ \E r \in Request : Works(r)
    BY ClientsWrite, FirstWritesNothing DEF Next, vars, Unwritten
  <1>2. ASSUME NEW r \in Request, Works(r), ~ \E a \in Account : ConfirmUnit(r, a)
        PROVE  /\ UNCHANGED lastNumber
               /\ UNCHANGED moves \/ ReturnLine(r)
               /\ UNCHANGED payments \/ PayLink(r) \/ RefundLink(r)
    BY <1>2 DEF Works, HeaderWrite, Discard, ConfirmCheck, PayPost, PayLink, CancelCheck,
                ReturnLine, RefundPost, RefundLink, CancelClose, Unwritten
  <1> QED BY <1>1, <1>2

(* A step that leaves the sequences confirms nothing. *)
LEMMA QuietTable ==
    ASSUME Typed, TableStep, UNCHANGED lastNumber
    PROVE  SalesQuiet
  <1>1. /\ sales \in Seq(Sale) /\ Len(sales) \in Nat /\ lastNumber \in [Year -> Nat]
        /\ \A s \in 1..Len(sales) : sales[s] \in Sale
    BY ElementOfSeq, LenProperties DEF Typed, TypeOK
  <1>2. CASE UNCHANGED sales
    BY <1>1, <1>2 DEF SalesQuiet
  <1>3. ASSUME NEW x \in Sale, x.number = NoNumber, sales' = Append(sales, x)
        PROVE  SalesQuiet
    <2>1. /\ Len(sales') = Len(sales) + 1 /\ sales'[Len(sales) + 1] = x
          /\ \A s \in 1..Len(sales) : sales'[s] = sales[s]
      BY <1>1, <1>3
    <2>2. \A s \in 1..Len(sales') : s \in 1..Len(sales) \/ sales'[s] = x
      BY <1>1, <2>1
    <2> QED BY <1>1, <1>3, <2>1, <2>2 DEF SalesQuiet
  <1>4. ASSUME NEW s \in 1..Len(sales), NEW x \in Sale, sales' = [sales EXCEPT ![s] = x],
               Rewritten(s, x)
        PROVE  SalesQuiet
    <2>1. /\ Len(sales') = Len(sales) /\ sales'[s] = x
          /\ \A t \in 1..Len(sales) : t # s => sales'[t] = sales[t]
      BY <1>1, <1>4, ExceptSeq
    <2>2. PICK sale \in Sale : sale = sales[s]
      BY <1>1
    <2>3. sale.status = "Draft" => ~ Numbered(s)
      BY <2>2 DEF Typed
    <2>4. \/ sale.status = "Draft" /\ x = [sale EXCEPT !.lines = x.lines]
          \/ ~ Numbered(s) /\ x = [sale EXCEPT !.status = "deleted", !.lines = <<>>]
          \/ x = [sale EXCEPT !.year = x.year]
          \/ x = [sale EXCEPT !.status = "Cancelled"]
      <3>1. ASSUME NEW y \in Year, lastNumber' = [lastNumber EXCEPT ![y] = @ + 1] PROVE FALSE
        <4>1. lastNumber'[y] = lastNumber[y] + 1 /\ lastNumber[y] \in Nat
          BY <1>1, <3>1
        <4> QED BY <4>1
      <3> QED BY <1>4, <2>2, <3>1 DEF Rewritten
    <2>5. /\ x.number = sale.number
          /\ Numbered(s) => x.lines = sale.lines
          /\ x.ptype = sale.ptype /\ x.customer = sale.customer
          /\ x.status = "Confirmed" => sale.status = "Confirmed"
          /\ sale.status = "Cancelled" /\ Numbered(s) => x.status = "Cancelled"
      BY <2>3, <2>4 DEF Sale
    <2> QED BY <1>1, <2>1, <2>2, <2>5 DEF SalesQuiet
  <1> QED BY <1>2, <1>3, <1>4 DEF TableStep

(* The numbers of the sales are those of their documents. *)
LEMMA NumbersOfSales ==
    ASSUME Typed, NumbersInOrder
    PROVE  /\ \A s \in 1..Len(sales) : Numbered(s) =>
                  \E y \in Year : \E n \in 1..lastNumber[y] : sales[s].number = <<y, n>>
           /\ \A s, t \in 1..Len(sales) :
                  Numbered(s) /\ sales[s].number = sales[t].number => s = t
  <1>1. Len(docs) = Len(sales) /\ \A s \in 1..Len(sales) : docs[s].number = sales[s].number
    <2>1. Len(docs) = Len(sales) /\ \A s \in 1..Len(sales) : docs[s] = AsDocument(sales[s])
      BY DocsNow DEF Typed, TypeOK
    <2>2. \A sale : AsDocument(sale).number = sale.number
      BY DEF AsDocument
    <2> QED BY <2>1, <2>2
  <1>2. Document!NoNumber = NoNumber
    BY DEF Document!NoNumber, NoNumber
  <1>3. /\ \A s \in 1..Len(docs) : docs[s].number # NoNumber =>
               \E y \in Year : \E n \in 1..lastNumber[y] : docs[s].number = <<y, n>>
        /\ \A s, t \in 1..Len(docs) :
               docs[s].number = docs[t].number => s = t \/ docs[s].number = NoNumber
    BY <1>2 DEF NumbersInOrder, Document!NumbersInOrder
  <1> QED BY <1>1, <1>3 DEF Numbered

(* Where a confirm works from what is there, it confirms it as it is. *)
LEMMA ConfirmsRead ==
    ASSUME Typed, Held, NumbersInOrder, NEW r \in Request, NEW a \in Account, ConfirmUnit(r, a)
    PROVE  \E number : Confirms(req[r].sale, number, a)
  <1>1. PICK q : q = req[r]
    OBVIOUS
  <1>2. q.step = "confirmUnit"
    BY <1>1 DEF ConfirmUnit
  <1>3. q.sale \in 1..Len(sales) /\ q.seen \in Sale /\ q.seen = sales[q.sale]
        /\ q.seen.status = "Draft" /\ q.sale \in Nat \ {0}
    BY <1>1, <1>2, RequestShape DEF Typed, Relies, Held, Holds, SaleId
  <1>4. PICK s, seen : s = q.sale /\ seen = q.seen
    OBVIOUS
  <1>5. /\ s \in 1..Len(sales) /\ seen = sales[s] /\ seen \in Sale /\ seen.status = "Draft"
        /\ seen.year \in Year /\ seen.lines \in Seq(Line)
    BY <1>3, <1>4 DEF Sale
  <1>6. ~ Numbered(s)
    BY <1>5 DEF Typed
  <1>7. PICK n \in Nat : n = lastNumber[seen.year]
    BY <1>5 DEF Typed, TypeOK
  <1>8. PICK number : number = <<seen.year, n + 1>>
    OBVIOUS
  <1>9. number \in Number /\ number # NoNumber /\ number = NextNumber(seen.year)
    BY <1>5, <1>7, <1>8 DEF Number, NoNumber, NextNumber
  <1>10. ASSUME NEW t \in 1..Len(sales) PROVE sales[t].number # number
    <2> SUFFICES ASSUME sales[t].number = number PROVE FALSE
      OBVIOUS
    <2>1. PICK y \in Year : \E k \in 1..lastNumber[y] : sales[t].number = <<y, k>>
      BY <1>9, NumbersOfSales DEF Numbered
    <2>2. PICK k \in 1..lastNumber[y] : number = <<y, k>>
      BY <2>1
    <2>3. y = seen.year /\ k = n + 1
      BY <1>8, <2>2
    <2> QED BY <1>7, <2>2, <2>3
  <1>11. /\ ShipLines(seen.lines, number) /\ PostCash(q, a, number)
         /\ sales' = [sales EXCEPT ![s] = [sales[s] EXCEPT !.status = "Confirmed", !.number = number]]
    BY <1>1, <1>4, <1>9 DEF ConfirmUnit, Rewrite
  <1>12. PICK total \in Nat : total = Total(seen.lines)
    BY <1>5, TotalNat
  <1>13. IF seen.ptype = "Cash" /\ total > 0
         THEN \E pay \in Payment : /\ pay.sale = s /\ pay.amount = total /\ pay.refund = 0
                                   /\ payments' = Append(payments, pay)
         ELSE UNCHANGED payments
    <2>1. PICK pay : pay = [sale |-> s, account |-> a, amount |-> total,
                            tx |-> Len(entries) + 1, refund |-> 0]
      OBVIOUS
    <2>2. IF seen.ptype = "Cash" /\ total > 0 THEN payments' = Append(payments, pay)
                                              ELSE UNCHANGED payments
      BY <1>4, <1>11, <1>12, <2>1 DEF PostCash
    <2>3. total > 0 => pay \in Payment
      <3>1. Len(entries) \in Nat
        BY LenProperties DEF Typed, TypeOK
      <3> QED BY <1>3, <1>4, <2>1, <3>1 DEF Payment
    <2>4. pay.sale = s /\ pay.amount = total /\ pay.refund = 0
      BY <2>1
    <2> QED BY <2>2, <2>3, <2>4
  <1>14. Confirms(s, number, a)
    BY <1>5, <1>6, <1>9, <1>10, <1>11, <1>12, <1>13 DEF Confirms
  <1> QED BY <1>1, <1>4, <1>14

-----------------------------------------------------------------------------
(* The units moved under a number.                                         *)

OutFigure(number, p) ==
    [m \in Move |-> IF m.number = number /\ m.product = p /\ m.out = TRUE THEN m.qty ELSE 0]

InFigure(number, p) ==
    [m \in Move |-> IF m.number = number /\ m.product = p /\ m.out = FALSE THEN m.qty ELSE 0]

\* The units of p shipped, and returned, under a number.
ShippedIn(rows, number, p) == RowSum(OutFigure(number, p), rows)
ReturnedIn(rows, number, p) == RowSum(InFigure(number, p), rows)

MovedIn(rows, number, p, out) ==
    SumOver([i \in 1..Len(rows) |->
        IF rows[i].number = number /\ rows[i].product = p /\ rows[i].out = out
        THEN rows[i].qty ELSE 0], Len(rows))

(* The units moved are sums of figures. *)
LEMMA FiguresNat ==
    ASSUME NEW number, NEW p
    PROVE  /\ OutFigure(number, p) \in [Move -> Nat] /\ OutFigure(number, p) \in [Move -> Int]
           /\ InFigure(number, p) \in [Move -> Nat] /\ InFigure(number, p) \in [Move -> Int]
           /\ \A rows \in Seq(Move) :
                 ShippedIn(rows, number, p) \in Nat /\ ReturnedIn(rows, number, p) \in Nat
  <1>1. \A m \in Move : m.qty \in Nat
    BY SalesAssumption DEF Move
  <1>2. OutFigure(number, p) \in [Move -> Nat] /\ InFigure(number, p) \in [Move -> Nat]
    BY <1>1 DEF OutFigure, InFigure
  <1>3. OutFigure(number, p) \in [Move -> Int] /\ InFigure(number, p) \in [Move -> Int]
    <2>1. Nat \subseteq Int
      OBVIOUS
    <2> QED BY <1>2, <2>1
  <1>4. ASSUME NEW rows \in Seq(Move)
        PROVE  ShippedIn(rows, number, p) \in Nat /\ ReturnedIn(rows, number, p) \in Nat
    BY <1>2, RowSumNat DEF ShippedIn, ReturnedIn
  <1> QED BY <1>2, <1>3, <1>4

LEMMA MovedIsSum ==
    ASSUME NEW rows \in Seq(Move), NEW number, NEW p
    PROVE  /\ MovedIn(rows, number, p, TRUE) = ShippedIn(rows, number, p)
           /\ MovedIn(rows, number, p, FALSE) = ReturnedIn(rows, number, p)
  <1> DEFINE v == [i \in 1..Len(rows) |->
                     IF rows[i].number = number /\ rows[i].product = p /\ rows[i].out = TRUE
                     THEN rows[i].qty ELSE 0]
             w == [i \in 1..Len(rows) |->
                     IF rows[i].number = number /\ rows[i].product = p /\ rows[i].out = FALSE
                     THEN rows[i].qty ELSE 0]
             f == OutFigure(number, p)
             g == InFigure(number, p)
  <1>1. \A i \in 1..Len(rows) : v[i] = f[rows[i]] /\ w[i] = g[rows[i]]
    <2> SUFFICES ASSUME NEW i \in 1..Len(rows) PROVE v[i] = f[rows[i]] /\ w[i] = g[rows[i]]
      OBVIOUS
    <2>1. PICK m \in Move : m = rows[i]
      BY ElementOfSeq
    <2> QED BY <2>1 DEF OutFigure, InFigure
  <1> HIDE DEF v, w, f, g
  <1>2. SumOver(v, Len(rows)) = RowSum(f, rows) /\ SumOver(w, Len(rows)) = RowSum(g, rows)
    BY <1>1, RowSumIs
  <1>3. MovedIn(rows, number, p, TRUE) = ShippedIn(rows, number, p)
    BY <1>2 DEF MovedIn, ShippedIn, f, v
  <1>4. MovedIn(rows, number, p, FALSE) = ReturnedIn(rows, number, p)
    BY <1>2 DEF MovedIn, ReturnedIn, g, w
  <1> QED BY <1>3, <1>4

(* So they are before and after a step. *)
LEMMA MovedNow ==
    ASSUME Typed, Typed', NEW number, NEW p
    PROVE  /\ MovedBy(number, p, TRUE) = ShippedIn(moves, number, p)
           /\ MovedBy(number, p, FALSE) = ReturnedIn(moves, number, p)
           /\ MovedBy(number, p, TRUE)' = ShippedIn(moves', number, p)
           /\ MovedBy(number, p, FALSE)' = ReturnedIn(moves', number, p)
           /\ ShippedIn(moves, number, p) \in Nat /\ ShippedIn(moves', number, p) \in Nat
           /\ ReturnedIn(moves, number, p) \in Nat /\ ReturnedIn(moves', number, p) \in Nat
  <1>1. moves \in Seq(Move) /\ moves' \in Seq(Move)
    BY DEF Typed, TypeOK
  <1>2. MovedBy(number, p, TRUE) = ShippedIn(moves, number, p)
    BY <1>1, MovedIsSum DEF MovedBy, MovedIn
  <1>3. MovedBy(number, p, FALSE) = ReturnedIn(moves, number, p)
    BY <1>1, MovedIsSum DEF MovedBy, MovedIn
  <1>4. MovedBy(number, p, TRUE)' = ShippedIn(moves', number, p)
    BY <1>1, MovedIsSum DEF MovedBy, MovedIn
  <1>5. MovedBy(number, p, FALSE)' = ReturnedIn(moves', number, p)
    BY <1>1, MovedIsSum DEF MovedBy, MovedIn
  <1> QED BY <1>1, <1>2, <1>3, <1>4, <1>5, FiguresNat

(* A confirm moves what the lines ask for, out and under its number. *)
LEMMA MovedShipped ==
    ASSUME NEW lines \in Seq(Line), NEW number \in Number, moves \in Seq(Move),
           ShipLines(lines, number), NEW n, NEW p \in Tracked
    PROVE  /\ ShippedIn(moves', n, p) =
                  ShippedIn(moves, n, p) + (IF n = number THEN Demand(lines, p) ELSE 0)
           /\ ReturnedIn(moves', n, p) = ReturnedIn(moves, n, p)
  <1>1. PICK new \in Seq(Move) :
              /\ moves' = moves \o new
              /\ \A i \in 1..Len(new) : new[i].out = TRUE /\ new[i].number = number
              /\ \A u \in Tracked : RowSum(UnitsOf(Move, u), new) = Demand(lines, u)
    BY ShippedUnits
  <1>2. /\ OutFigure(n, p) \in [Move -> Int] /\ InFigure(n, p) \in [Move -> Int]
        /\ ShippedIn(moves, n, p) \in Nat /\ ReturnedIn(moves, n, p) \in Nat
    BY FiguresNat
  <1>3. ShippedIn(moves', n, p) = ShippedIn(moves, n, p) + ShippedIn(new, n, p)
    BY <1>1, <1>2, RowSumConcat DEF ShippedIn
  <1>4. ReturnedIn(moves', n, p) = ReturnedIn(moves, n, p) + ReturnedIn(new, n, p)
    BY <1>1, <1>2, RowSumConcat DEF ReturnedIn
  <1>5. ASSUME NEW i \in 1..Len(new)
        PROVE  /\ InFigure(n, p)[new[i]] = 0
               /\ OutFigure(n, p)[new[i]] = IF n = number THEN UnitsOf(Move, p)[new[i]] ELSE 0
    <2>1. PICK m \in Move : m = new[i] /\ m.out = TRUE /\ m.number = number
      BY <1>1, ElementOfSeq
    <2> QED BY <2>1 DEF OutFigure, InFigure, UnitsOf, Units
  <1>6. ReturnedIn(new, n, p) = 0
    BY <1>5, RowSumZero DEF ReturnedIn
  <1>7. ShippedIn(new, n, p) = IF n = number THEN Demand(lines, p) ELSE 0
    <2>1. CASE n = number
      <3>1. SameFigures(OutFigure(n, p), new, UnitsOf(Move, p), new)
        BY <1>5, <2>1 DEF SameFigures
      <3>2. RowSum(OutFigure(n, p), new) = RowSum(UnitsOf(Move, p), new)
        BY <3>1, RowSumAgree
      <3> QED BY <1>1, <2>1, <3>2 DEF ShippedIn
    <2>2. CASE n # number
      <3>1. \A i \in 1..Len(new) : OutFigure(n, p)[new[i]] = 0
        BY <1>5, <2>2
      <3> QED BY <2>2, <3>1, RowSumZero DEF ShippedIn
    <2> QED BY <2>1, <2>2
  <1> QED BY <1>2, <1>3, <1>4, <1>6, <1>7

(* A line that comes back is added to what came back under its number. *)
LEMMA MovedReturned ==
    ASSUME moves \in Seq(Move), NEW m \in Move, m.out = FALSE, moves' = Append(moves, m),
           NEW n, NEW p
    PROVE  /\ ShippedIn(moves', n, p) = ShippedIn(moves, n, p)
           /\ ReturnedIn(moves', n, p) =
                  ReturnedIn(moves, n, p) + (IF n = m.number THEN Units(m, p) ELSE 0)
  <1>1. /\ OutFigure(n, p) \in [Move -> Int] /\ InFigure(n, p) \in [Move -> Int]
        /\ ShippedIn(moves, n, p) \in Nat /\ ReturnedIn(moves, n, p) \in Nat
    BY FiguresNat
  <1>2. ShippedIn(moves', n, p) = ShippedIn(moves, n, p) + OutFigure(n, p)[m]
    BY <1>1, RowSumAppend DEF ShippedIn
  <1>3. ReturnedIn(moves', n, p) = ReturnedIn(moves, n, p) + InFigure(n, p)[m]
    BY <1>1, RowSumAppend DEF ReturnedIn
  <1>4. OutFigure(n, p)[m] = 0 /\ InFigure(n, p)[m] = IF n = m.number THEN Units(m, p) ELSE 0
    BY DEF OutFigure, InFigure, Units
  <1> QED BY <1>1, <1>2, <1>3, <1>4

(* Nothing has moved under a number no sale has. *)
LEMMA MovedUnknown ==
    ASSUME Typed, LedgersKnown, NEW number, number # NoNumber,
           \A t \in 1..Len(sales) : sales[t].number # number, NEW p
    PROVE  ShippedIn(moves, number, p) = 0 /\ ReturnedIn(moves, number, p) = 0
  <1>1. moves \in Seq(Move)
    BY DEF Typed, TypeOK
  <1>2. \A i \in 1..Len(moves) : /\ OutFigure(number, p)[moves[i]] = 0
                                 /\ InFigure(number, p)[moves[i]] = 0
    <2> SUFFICES ASSUME NEW i \in 1..Len(moves)
                 PROVE  /\ OutFigure(number, p)[moves[i]] = 0
                        /\ InFigure(number, p)[moves[i]] = 0
      OBVIOUS
    <2>1. PICK m \in Move : m = moves[i]
      BY <1>1, ElementOfSeq
    <2>2. moves[i].number # number
      BY DEF LedgersKnown, Known
    <2> QED BY <2>1, <2>2 DEF OutFigure, InFigure
  <1> QED BY <1>1, <1>2, RowSumZero DEF ShippedIn, ReturnedIn

(* The line an annulment returns next. *)
LEMMA ReturnedMove ==
    ASSUME Typed, NEW r \in Request, ReturnLine(r)
    PROVE  \E s \in 1..Len(sales), i \in Nat, m \in Move :
              /\ s = req[r].sale /\ i = First(req[r].lines) /\ i \in req[r].lines
              /\ i \in 1..Len(sales[s].lines) /\ Numbered(s)
              /\ m.product = sales[s].lines[i].product /\ m.qty = sales[s].lines[i].qty
              /\ m.out = FALSE /\ m.number = sales[s].number
              /\ moves' = Append(moves, m)
  <1>1. PICK q : q = req[r]
    OBVIOUS
  <1>2. /\ q.step = "reverse" /\ q.lines # {} /\ q.lines \in SUBSET Nat
        /\ q.sale \in 1..Len(sales) /\ Numbered(q.sale)
        /\ \A i \in q.lines : /\ i \in 1..Len(sales[q.sale].lines)
                              /\ sales[q.sale].lines[i].product \in Tracked
    BY <1>1, RequestShape DEF ReturnLine, Typed, Relies, Posting, Cancelling
  <1>3. PICK i : i = First(q.lines)
    OBVIOUS
  <1>4. i \in q.lines /\ i \in Nat
    BY <1>2, <1>3, FirstIn
  <1>5. PICK sale \in Sale : sale = sales[q.sale]
    BY <1>2, ElementOfSeq DEF Typed, TypeOK
  <1>6. PICK line \in Line : line = sale.lines[i] /\ line.product \in Tracked
    <2>1. sale.lines \in Seq(Line) /\ i \in 1..Len(sale.lines)
      BY <1>2, <1>4, <1>5 DEF Sale
    <2>2. sale.lines[i] \in Line /\ sale.lines[i].product \in Tracked
      BY <1>2, <1>4, <1>5, <2>1, ElementOfSeq
    <2> QED BY <2>2
  <1>7. PICK m : m = [product |-> line.product, out |-> FALSE, qty |-> line.qty,
                      number |-> sale.number]
    OBVIOUS
  <1>8. moves' = Append(moves, m)
    BY <1>1, <1>3, <1>5, <1>6, <1>7 DEF ReturnLine
  <1>9. m \in Move
    BY <1>5, <1>6, <1>7 DEF Move, Line, Sale
  <1>10. /\ m.product = line.product /\ m.qty = line.qty /\ m.out = FALSE /\ m.number = sale.number
    BY <1>7
  <1>11. i \in 1..Len(sales[q.sale].lines)
    BY <1>2, <1>4
  <1> QED BY <1>1, <1>2, <1>3, <1>4, <1>5, <1>6, <1>8, <1>9, <1>10, <1>11

-----------------------------------------------------------------------------
(* What a sale shipped is what it says.                                    *)

(* What ShippedAsSold says after a step, in figures. *)
LEMMA ShippedAfter ==
    ASSUME Typed, Typed',
           \A t \in 1..Len(sales') : \A p \in Tracked : sales'[t].number # NoNumber =>
               ShippedIn(moves', sales'[t].number, p) = Demand(sales'[t].lines, p)
    PROVE  ShippedAsSold'
  <1>1. PICK now : now = sales'
    OBVIOUS
  <1>2. ASSUME NEW t \in 1..Len(now), NEW p \in Tracked, now[t].number # NoNumber
        PROVE  MovedBy(now[t].number, p, TRUE)' = Demand(now[t].lines, p)
    <2>1. PICK n : n = now[t].number
      OBVIOUS
    <2>2. ShippedIn(moves', n, p) = Demand(now[t].lines, p)
      BY <1>1, <1>2, <2>1
    <2>3. MovedBy(n, p, TRUE)' = ShippedIn(moves', n, p)
      BY MovedNow
    <2> QED BY <2>1, <2>2, <2>3
  <1> QED BY <1>1, <1>2 DEF ShippedAsSold, Numbered, MovedBy, Demand

(* After a confirm the new sale has shipped its lines, the others what they had. *)
LEMMA ShippedByConfirm ==
    ASSUME Typed, Typed', LedgersKnown, ShippedAsSold, NEW s, NEW number, NEW a,
           Confirms(s, number, a)
    PROVE  ShippedAsSold'
  <1>1. /\ sales \in Seq(Sale) /\ s \in 1..Len(sales) /\ sales[s] \in Sale
        /\ sales[s].lines \in Seq(Line) /\ moves \in Seq(Move)
    <2>1. sales \in Seq(Sale) /\ s \in 1..Len(sales) /\ moves \in Seq(Move)
      BY DEF Confirms, Typed, TypeOK
    <2>2. sales[s] \in Sale
      BY <2>1, ElementOfSeq
    <2> QED BY <2>1, <2>2 DEF Sale
  <1>2. /\ Len(sales') = Len(sales)
        /\ sales'[s].number = number /\ sales'[s].lines = sales[s].lines
        /\ \A t \in 1..Len(sales) : t # s => sales'[t] = sales[t]
    <2>1. PICK x : x = [sales[s] EXCEPT !.status = "Confirmed", !.number = number]
      OBVIOUS
    <2>2. x.number = number /\ x.lines = sales[s].lines
      BY <1>1, <2>1 DEF Sale
    <2>3. sales' = [sales EXCEPT ![s] = x]
      BY <2>1 DEF Confirms
    <2>4. /\ Len(sales') = Len(sales) /\ sales'[s] = x
          /\ \A t \in 1..Len(sales) : t # s => sales'[t] = sales[t]
      BY <1>1, <2>3
    <2> QED BY <2>2, <2>4
  <1> SUFFICES ASSUME NEW t \in 1..Len(sales), NEW p \in Tracked, sales'[t].number # NoNumber
               PROVE  ShippedIn(moves', sales'[t].number, p) = Demand(sales'[t].lines, p)
    BY <1>2, ShippedAfter
  <1>3. number \in Number /\ number # NoNumber /\ ShipLines(sales[s].lines, number)
        /\ \A u \in 1..Len(sales) : sales[u].number # number
    BY DEF Confirms
  <1>4. CASE t = s
    <2>1. ShippedIn(moves, number, p) = 0
      BY <1>3, MovedUnknown
    <2>2. Demand(sales[s].lines, p) \in Nat
      <3>1. UnitsOf(Line, p) \in [Line -> Nat]
        BY UnitsNat
      <3>2. RowSum(UnitsOf(Line, p), sales[s].lines) \in Nat
        BY <1>1, <3>1, RowSumNat
      <3> QED BY <1>1, <3>2, DemandIsSum
    <2>3. ShippedIn(moves', number, p) = ShippedIn(moves, number, p) + Demand(sales[s].lines, p)
      BY <1>1, <1>3, MovedShipped
    <2>4. sales'[t].number = number /\ sales'[t].lines = sales[s].lines
      BY <1>2, <1>4
    <2> QED BY <2>1, <2>2, <2>3, <2>4
  <1>5. CASE t # s
    <2>1. PICK n : n = sales[t].number
      OBVIOUS
    <2>2. sales'[t] = sales[t] /\ n # number /\ n # NoNumber
      BY <1>2, <1>3, <1>5, <2>1
    <2>3. ShippedIn(moves', n, p) = ShippedIn(moves, n, p)
      <3>1. ShippedIn(moves', n, p) = ShippedIn(moves, n, p) + 0
        BY <1>1, <1>3, <2>2, MovedShipped
      <3>2. ShippedIn(moves, n, p) \in Nat
        BY <1>1, FiguresNat
      <3> QED BY <3>1, <3>2
    <2>4. ShippedIn(moves, n, p) = Demand(sales[t].lines, p)
      <3>1. MovedBy(n, p, TRUE) = Demand(sales[t].lines, p)
        BY <2>1, <2>2 DEF ShippedAsSold, Numbered
      <3>2. MovedBy(n, p, TRUE) = ShippedIn(moves, n, p)
        BY MovedNow
      <3> QED BY <3>1, <3>2
    <2> QED BY <2>1, <2>2, <2>3, <2>4
  <1> QED BY <1>4, <1>5

(* Other steps ship nothing, and change no numbered sale. *)
LEMMA ShippedOtherwise ==
    ASSUME Typed, Typed', ShippedAsSold, SalesQuiet,
           UNCHANGED moves \/ \E r \in Request : ReturnLine(r)
    PROVE  ShippedAsSold'
  <1>1. moves \in Seq(Move)
    BY DEF Typed, TypeOK
  <1>2. ASSUME NEW n, NEW p PROVE ShippedIn(moves', n, p) = ShippedIn(moves, n, p)
    <2>1. CASE UNCHANGED moves
      BY <2>1
    <2>2. ASSUME NEW r \in Request, ReturnLine(r)
          PROVE  ShippedIn(moves', n, p) = ShippedIn(moves, n, p)
      <3>1. PICK m \in Move : m.out = FALSE /\ moves' = Append(moves, m)
        BY <2>2, ReturnedMove
      <3> QED BY <1>1, <3>1, MovedReturned
    <2> QED BY <2>1, <2>2
  <1>3. ASSUME NEW t \in 1..Len(sales'), NEW p \in Tracked, sales'[t].number # NoNumber
        PROVE  ShippedIn(moves', sales'[t].number, p) = Demand(sales'[t].lines, p)
    <2>1. /\ t \in 1..Len(sales) /\ Numbered(t)
          /\ sales'[t].number = sales[t].number /\ sales'[t].lines = sales[t].lines
      BY <1>3 DEF SalesQuiet, Numbered
    <2>2. PICK n : n = sales[t].number
      OBVIOUS
    <2>3. MovedBy(n, p, TRUE) = Demand(sales[t].lines, p)
      BY <2>1, <2>2 DEF ShippedAsSold
    <2>4. ShippedIn(moves', n, p) = MovedBy(n, p, TRUE)
      BY <1>2, MovedNow
    <2> QED BY <2>1, <2>2, <2>3, <2>4
  <1> QED BY <1>3, ShippedAfter

(* Where requests are served one at a time, a confirmed or annulled sale   *)
(* has shipped exactly the units of its lines: the unit posts the lines    *)
(* that were read for it, and they are still those of the document.        *)
THEOREM SalesShippedAsSold == OneAtATime => (Spec => []ShippedAsSold)
  <1>1. Init => LedgersKnown
    BY DEF Init, LedgersKnown
  <1>2. Spec => []LedgersKnown
    BY <1>1, LedgersKnownStep, SalesTyped, PTL DEF Spec
  <1>3. Init => ShippedAsSold
    BY DEF Init, ShippedAsSold
  <1>4. CASE OneAtATime
    <2>1. Spec => [](Alone /\ Held)
      <3>1. Typed /\ Alone /\ Held /\ [Next]_vars => Alone' /\ Held'
        BY <1>4, HeldStep
      <3> QED BY <3>1, HeldInit, SalesTyped, PTL DEF Spec
    <2>2. Typed /\ Typed' /\ Held /\ LedgersKnown /\ NumbersInOrder /\ ShippedAsSold /\ [Next]_vars
              => ShippedAsSold'
      <3> SUFFICES ASSUME Typed, Typed', Held, LedgersKnown, NumbersInOrder, ShippedAsSold, [Next]_vars
                   PROVE  ShippedAsSold'
        OBVIOUS
      <3>1. ASSUME NEW r \in Request, NEW a \in Account, ConfirmUnit(r, a) PROVE ShippedAsSold'
        BY <3>1, ConfirmsRead, ShippedByConfirm
      <3>2. ASSUME UNCHANGED lastNumber, UNCHANGED moves \/ \E r \in Request : ReturnLine(r)
            PROVE  ShippedAsSold'
        BY <3>2, StepOnTable, QuietTable, ShippedOtherwise
      <3> QED BY <3>1, <3>2, ConfirmsOrNot
    <2> QED BY <1>2, <1>3, <2>1, <2>2, SalesTyped, SaleNumbersDense, PTL DEF Spec
  <1> QED BY <1>4

-----------------------------------------------------------------------------
(* What is paid on a sale.                                                 *)

PaidFigure(s) == [pay \in Payment |-> IF IsOf(pay, s) THEN pay.amount ELSE 0]

PaidIn(rows, s) == RowSum(PaidFigure(s), rows)

PaidSum(rows, s) ==
    SumOver([i \in 1..Len(rows) |-> IF IsOf(rows[i], s) THEN rows[i].amount ELSE 0], Len(rows))

\* No numbered sale is overpaid, and a cash sale is paid.
WellPaid ==
    \A s \in 1..Len(sales) : Numbered(s) =>
        /\ PaidIn(payments, s) <= Total(sales[s].lines)
        /\ sales[s].ptype = "Cash" => PaidIn(payments, s) = Total(sales[s].lines)

(* What is paid is a sum of figures. *)
LEMMA PaidIsSum ==
    ASSUME NEW rows \in Seq(Payment), NEW s
    PROVE  /\ PaidSum(rows, s) = PaidIn(rows, s)
           /\ PaidIn(rows, s) \in Nat
           /\ PaidFigure(s) \in [Payment -> Int]
  <1> DEFINE f == PaidFigure(s)
             w == [i \in 1..Len(rows) |-> IF IsOf(rows[i], s) THEN rows[i].amount ELSE 0]
  <1>1. f \in [Payment -> Nat] /\ f \in [Payment -> Int]
    <2>1. \A pay \in Payment : pay.amount \in Nat
      BY DEF Payment
    <2>2. f \in [Payment -> Nat]
      BY <2>1 DEF PaidFigure
    <2>3. Nat \subseteq Int
      OBVIOUS
    <2> QED BY <2>2, <2>3
  <1>2. \A i \in 1..Len(rows) : w[i] = f[rows[i]]
    <2> SUFFICES ASSUME NEW i \in 1..Len(rows) PROVE w[i] = f[rows[i]]
      OBVIOUS
    <2>1. PICK pay \in Payment : pay = rows[i]
      BY ElementOfSeq
    <2> QED BY <2>1 DEF PaidFigure
  <1> HIDE DEF w, f
  <1>3. SumOver(w, Len(rows)) = RowSum(f, rows)
    BY <1>2, RowSumIs
  <1>4. RowSum(f, rows) \in Nat
    BY <1>1, RowSumNat
  <1> QED BY <1>1, <1>3, <1>4 DEF PaidIn, PaidSum, f, w

(* So it is before and after a step. *)
LEMMA PaidNow ==
    ASSUME Typed, Typed', NEW s
    PROVE  /\ Paid(s) = PaidIn(payments, s) /\ Paid(s)' = PaidIn(payments', s)
           /\ PaidIn(payments, s) \in Nat /\ PaidIn(payments', s) \in Nat
           /\ payments \in Seq(Payment) /\ payments' \in Seq(Payment)
           /\ PaidFigure(s) \in [Payment -> Int]
  <1>1. payments \in Seq(Payment) /\ payments' \in Seq(Payment)
    BY DEF Typed, TypeOK
  <1>2. Paid(s) = PaidSum(payments, s) /\ Paid(s)' = PaidSum(payments', s)
    BY DEF Paid, PaidSum
  <1> QED BY <1>1, <1>2, PaidIsSum

(* Nothing is paid on a sale without a number. *)
LEMMA PaidUnnumbered ==
    ASSUME Typed, NEW s, ~ Numbered(s)
    PROVE  PaidIn(payments, s) = 0
  <1>1. payments \in Seq(Payment)
    BY DEF Typed, TypeOK
  <1>2. \A i \in 1..Len(payments) : PaidFigure(s)[payments[i]] = 0
    <2> SUFFICES ASSUME NEW i \in 1..Len(payments) PROVE PaidFigure(s)[payments[i]] = 0
      OBVIOUS
    <2>1. PICK pay \in Payment : pay = payments[i]
      BY <1>1, ElementOfSeq
    <2>2. pay.sale # s
      BY <2>1 DEF Typed
    <2> QED BY <2>1, <2>2 DEF PaidFigure, IsOf
  <1> QED BY <1>1, <1>2, RowSumZero DEF PaidIn

(* A payment row adds its amount to what is paid on its sale. *)
LEMMA PaidAppended ==
    ASSUME Typed, NEW pay \in Payment, payments' = Append(payments, pay), NEW t
    PROVE  PaidIn(payments', t) = PaidIn(payments, t) + (IF pay.sale = t THEN pay.amount ELSE 0)
  <1>1. payments \in Seq(Payment) /\ PaidFigure(t) \in [Payment -> Int]
    BY PaidIsSum DEF Typed, TypeOK
  <1>2. PaidFigure(t)[pay] = IF pay.sale = t THEN pay.amount ELSE 0
    BY DEF PaidFigure, IsOf
  <1> QED BY <1>1, <1>2, RowSumAppend DEF PaidIn

(* The row a payment adds. *)
LEMMA PayLinked ==
    ASSUME Typed, NEW r \in Request, PayLink(r)
    PROVE  \E pay \in Payment :
              /\ pay.sale = req[r].sale /\ pay.amount = req[r].amount /\ pay.refund = 0
              /\ payments' = Append(payments, pay)
  <1>1. PICK q : q = req[r]
    OBVIOUS
  <1>2. /\ q.step = "payLink" /\ q.amount \in PayAmount /\ q.account \in Account
        /\ q.sale \in SaleId /\ q.tx \in Nat \ {0}
    BY <1>1, RequestShape DEF PayLink, Typed
  <1>3. PICK pay : pay = PaymentRow(q, q.tx)
    OBVIOUS
  <1>4. pay \in Payment /\ pay.sale = q.sale /\ pay.amount = q.amount /\ pay.refund = 0
    <2>1. q.sale \in Nat \ {0}
      BY <1>2 DEF SaleId
    <2> QED BY <1>2, <1>3, <2>1, SalesAssumption DEF PaymentRow, Payment
  <1>5. payments' = Append(payments, pay)
    BY <1>1, <1>3 DEF PayLink
  <1> QED BY <1>1, <1>4, <1>5

(* The row a refund rewrites keeps its sale, its account and its amount. *)
LEMMA RefundLinked ==
    ASSUME Typed, NEW r \in Request, RefundLink(r)
    PROVE  \E i \in 1..Len(payments), pay \in Payment :
              /\ i = First(req[r].pays) /\ i \in req[r].pays
              /\ pay.sale = payments[i].sale /\ pay.amount = payments[i].amount
              /\ pay.account = payments[i].account /\ pay.refund = req[r].tx /\ pay.refund # 0
              /\ payments' = [payments EXCEPT ![i] = pay]
  <1>1. PICK q : q = req[r]
    OBVIOUS
  <1>2. /\ q.step = "link" /\ q.pays # {} /\ q.pays \in SUBSET Nat
        /\ q.pays \subseteq 1..Len(payments) /\ q.tx \in Nat \ {0}
    BY <1>1, RequestShape DEF RefundLink, Typed, Relies, Cancelling
  <1>3. PICK i \in 1..Len(payments) : i = First(q.pays) /\ i \in q.pays
    BY <1>2, FirstIn
  <1>4. PICK old \in Payment : old = payments[i]
    BY ElementOfSeq DEF Typed, TypeOK
  <1>5. PICK pay : pay = [old EXCEPT !.refund = q.tx]
    OBVIOUS
  <1>6. /\ pay \in Payment /\ pay.sale = old.sale /\ pay.amount = old.amount
        /\ pay.account = old.account /\ pay.refund = q.tx
    BY <1>2, <1>5 DEF Payment
  <1>7. payments' = [payments EXCEPT ![i] = pay]
    BY <1>1, <1>3, <1>4, <1>5 DEF RefundLink
  <1> QED BY <1>1, <1>2, <1>3, <1>4, <1>6, <1>7

(* Linking a refund leaves what is paid. *)
LEMMA PaidRefunded ==
    ASSUME Typed, NEW r \in Request, RefundLink(r), NEW t
    PROVE  PaidIn(payments', t) = PaidIn(payments, t)
  <1>1. PICK i \in 1..Len(payments), pay \in Payment :
              /\ pay.sale = payments[i].sale /\ pay.amount = payments[i].amount
              /\ payments' = [payments EXCEPT ![i] = pay]
    BY RefundLinked
  <1>2. /\ payments \in Seq(Payment) /\ PaidFigure(t) \in [Payment -> Int]
        /\ PaidIn(payments, t) \in Nat
    BY PaidIsSum DEF Typed, TypeOK
  <1>3. PICK old \in Payment : old = payments[i]
    BY <1>2, ElementOfSeq
  <1>4. PaidFigure(t)[pay] = PaidFigure(t)[old] /\ PaidFigure(t)[old] \in Int
    BY <1>1, <1>3 DEF PaidFigure, IsOf, Payment
  <1>5. PaidIn(payments', t) = PaidIn(payments, t) - PaidFigure(t)[old] + PaidFigure(t)[pay]
    <2>1. PICK f \in [Payment -> Int] : f = PaidFigure(t)
      BY <1>2
    <2>2. RowSum(f, [payments EXCEPT ![i] = pay]) = RowSum(f, payments) - f[payments[i]] + f[pay]
      BY <1>2, RowSumRewrite
    <2> QED BY <1>1, <1>3, <2>1, <2>2 DEF PaidIn
  <1> QED BY <1>2, <1>4, <1>5

(* After a confirm the new sale is unpaid, or paid in full if it is cash. *)
LEMMA PaidByConfirm ==
    ASSUME Typed, NEW s, NEW number, NEW a, Confirms(s, number, a), NEW t
    PROVE  PaidIn(payments', t) = IF t = s
                                  THEN IF sales[s].ptype = "Cash" THEN Total(sales[s].lines) ELSE 0
                                  ELSE PaidIn(payments, t)
  <1>1. /\ s \in 1..Len(sales) /\ ~ Numbered(s) /\ payments \in Seq(Payment) /\ sales[s] \in Sale
    <2>1. s \in 1..Len(sales) /\ ~ Numbered(s) /\ payments \in Seq(Payment) /\ sales \in Seq(Sale)
      BY DEF Confirms, Typed, TypeOK
    <2> QED BY <2>1, ElementOfSeq
  <1>2. PICK total \in Nat : total = Total(sales[s].lines)
    BY <1>1, TotalNat DEF Sale
  <1>3. PaidIn(payments, t) \in Nat /\ (t = s => PaidIn(payments, t) = 0)
    BY <1>1, PaidIsSum, PaidUnnumbered
  <1>4. IF sales[s].ptype = "Cash" /\ total > 0
        THEN \E pay \in Payment : /\ pay.sale = s /\ pay.amount = total
                                  /\ payments' = Append(payments, pay)
        ELSE UNCHANGED payments
    BY <1>2 DEF Confirms
  <1>5. CASE sales[s].ptype = "Cash" /\ total > 0
    <2>1. PICK pay \in Payment : /\ pay.sale = s /\ pay.amount = total
                                 /\ payments' = Append(payments, pay)
      BY <1>4, <1>5
    <2>2. PaidIn(payments', t) = PaidIn(payments, t) + (IF s = t THEN total ELSE 0)
      BY <2>1, PaidAppended
    <2> QED BY <1>2, <1>3, <1>5, <2>2
  <1>6. CASE ~ (sales[s].ptype = "Cash" /\ total > 0)
    <2>1. PaidIn(payments', t) = PaidIn(payments, t)
      BY <1>4, <1>6
    <2> QED BY <1>2, <1>3, <1>6, <2>1
  <1> QED BY <1>5, <1>6

(* What a confirm leaves in the table. *)
LEMMA ConfirmedTable ==
    ASSUME Typed, NEW s, NEW number, NEW a, Confirms(s, number, a)
    PROVE  /\ s \in 1..Len(sales) /\ sales[s] \in Sale /\ sales[s].lines \in Seq(Line)
           /\ Len(sales') = Len(sales)
           /\ sales'[s].status = "Confirmed" /\ sales'[s].number = number
           /\ sales'[s].lines = sales[s].lines /\ sales'[s].ptype = sales[s].ptype
           /\ sales'[s].customer = sales[s].customer
           /\ \A t \in 1..Len(sales) : t # s => sales'[t] = sales[t]
  <1>1. sales \in Seq(Sale) /\ s \in 1..Len(sales)
    BY DEF Confirms, Typed, TypeOK
  <1>2. PICK sale \in Sale : sale = sales[s]
    BY <1>1, ElementOfSeq
  <1>3. PICK x : x = [sale EXCEPT !.status = "Confirmed", !.number = number]
    OBVIOUS
  <1>4. /\ x.status = "Confirmed" /\ x.number = number /\ x.lines = sale.lines
        /\ x.ptype = sale.ptype /\ x.customer = sale.customer /\ sale.lines \in Seq(Line)
    BY <1>3 DEF Sale
  <1>5. sales' = [sales EXCEPT ![s] = x]
    BY <1>2, <1>3 DEF Confirms
  <1>6. /\ Len(sales') = Len(sales) /\ sales'[s] = x
        /\ \A t \in 1..Len(sales) : t # s => sales'[t] = sales[t]
    BY <1>1, <1>5
  <1> QED BY <1>1, <1>2, <1>4, <1>6

(* No step overpays a sale. *)
LEMMA WellPaidStep ==
    ASSUME Typed, Typed', Held, NumbersInOrder, WellPaid, [Next]_vars
    PROVE  WellPaid'
  <1>1. ASSUME NEW r \in Request, NEW a \in Account, ConfirmUnit(r, a) PROVE WellPaid'
    <2>1. PICK s, number : Confirms(s, number, a)
      BY <1>1, ConfirmsRead
    <2>2. ASSUME NEW t \in 1..Len(sales'), sales'[t].number # NoNumber
          PROVE  /\ PaidIn(payments', t) <= Total(sales'[t].lines)
                 /\ sales'[t].ptype = "Cash" => PaidIn(payments', t) = Total(sales'[t].lines)
      <3>1. CASE t = s
        <4>1. PICK lines \in Seq(Line), ptype \in {sales[s].ptype} : lines = sales[s].lines /\ ptype = sales[s].ptype
          BY <2>1, ConfirmedTable
        <4>2. sales'[t].lines = lines /\ sales'[t].ptype = ptype
          BY <2>1, <3>1, <4>1, ConfirmedTable
        <4>3. PaidIn(payments', t) = IF ptype = "Cash" THEN Total(lines) ELSE 0
          BY <2>1, <3>1, <4>1, PaidByConfirm
        <4>4. Total(lines) \in Nat
          BY TotalNat
        <4> QED BY <4>2, <4>3, <4>4
      <3>2. CASE t # s
        <4>1. t \in 1..Len(sales) /\ sales'[t] = sales[t] /\ Numbered(t)
          BY <2>1, <2>2, <3>2, ConfirmedTable DEF Numbered
        <4>2. PaidIn(payments', t) = PaidIn(payments, t)
          BY <2>1, <3>2, PaidByConfirm
        <4> QED BY <4>1, <4>2 DEF WellPaid
      <3> QED BY <3>1, <3>2
    <2> QED BY <2>2 DEF WellPaid, Numbered
  <1>2. ASSUME SalesQuiet,
               UNCHANGED payments \/ \E r \in Request : PayLink(r) \/ RefundLink(r)
        PROVE  WellPaid'
    <2>1. ASSUME NEW t \in 1..Len(sales'), sales'[t].number # NoNumber
          PROVE  /\ PaidIn(payments', t) <= Total(sales'[t].lines)
                 /\ sales'[t].ptype = "Cash" => PaidIn(payments', t) = Total(sales'[t].lines)
      <3>1. /\ t \in 1..Len(sales) /\ Numbered(t)
            /\ sales'[t].lines = sales[t].lines /\ sales'[t].ptype = sales[t].ptype
        BY <1>2, <2>1 DEF SalesQuiet, Numbered
      <3>2. /\ PaidIn(payments, t) <= Total(sales[t].lines)
            /\ sales[t].ptype = "Cash" => PaidIn(payments, t) = Total(sales[t].lines)
        BY <3>1 DEF WellPaid
      <3>3. CASE PaidIn(payments', t) = PaidIn(payments, t)
        BY <3>1, <3>2, <3>3
      <3>4. ASSUME NEW r \in Request, PayLink(r), PaidIn(payments', t) # PaidIn(payments, t)
            PROVE  /\ PaidIn(payments', t) <= Total(sales[t].lines)
                   /\ sales[t].ptype # "Cash"
        <4>1. PICK pay \in Payment : /\ pay.sale = req[r].sale /\ pay.amount = req[r].amount
                                     /\ payments' = Append(payments, pay)
          BY <3>4, PayLinked
        <4>2. PICK amount, paid \in Nat : amount = pay.amount /\ paid = PaidIn(payments, t)
          <5>1. pay.amount \in Nat /\ PaidIn(payments, t) \in Nat
            BY PaidNow DEF Payment
          <5> QED BY <5>1
        <4>3. PaidIn(payments', t) = paid + (IF pay.sale = t THEN amount ELSE 0)
          BY <4>1, <4>2, PaidAppended
        <4>4. pay.sale = t
          BY <3>4, <4>2, <4>3
        <4>5. req[r].amount <= Due(t)
          BY <3>4, <4>1, <4>4 DEF Held, Holds, PayLink
        <4>6. PICK total \in Nat : total = Total(sales[t].lines)
          <5>1. sales[t] \in Sale
            BY <3>1, ElementOfSeq DEF Typed, TypeOK
          <5> QED BY <5>1, TotalNat DEF Sale
        <4>7. amount <= total - paid
          BY <4>1, <4>2, <4>5, <4>6, PaidNow DEF Due
        <4>8. amount \in Nat \ {0}
          BY <4>2 DEF Payment
        <4>9. PaidIn(payments', t) = paid + amount
          BY <4>3, <4>4
        <4> QED BY <3>2, <4>2, <4>6, <4>7, <4>8, <4>9
      <3> QED BY <1>2, <3>1, <3>3, <3>4, PaidRefunded
    <2> QED BY <2>1 DEF WellPaid, Numbered
  <1> QED BY <1>1, <1>2, ConfirmsOrNot, StepOnTable, QuietTable

(* Where requests are served one at a time, no sale is paid beyond its     *)
(* total: what a payment read as due is still due when its row is written. *)
(* And a cash sale is settled, for good, by the unit that confirms it.     *)
LEMMA WellPaidAlways == OneAtATime => (Spec => []WellPaid)
  <1>1. Init => WellPaid
    BY DEF Init, WellPaid
  <1>2. CASE OneAtATime
    <2>1. Typed /\ Alone /\ Held /\ [Next]_vars => Alone' /\ Held'
      BY <1>2, HeldStep
    <2>2. Typed /\ Typed' /\ Held /\ NumbersInOrder /\ WellPaid /\ [Next]_vars => WellPaid'
      BY WellPaidStep
    <2> QED BY <1>1, <2>1, <2>2, HeldInit, SalesTyped, SaleNumbersDense, PTL DEF Spec
  <1> QED BY <1>2

(* What is paid, in the figures of the table. *)
LEMMA WellPaidMeans == Typed /\ WellPaid => PaidWithinTotal /\ CashSettled
  <1> SUFFICES ASSUME Typed, WellPaid PROVE PaidWithinTotal /\ CashSettled
    OBVIOUS
  <1>1. ASSUME NEW s PROVE Paid(s) = PaidIn(payments, s) /\ PaidIn(payments, s) \in Nat
    <2>1. payments \in Seq(Payment)
      BY DEF Typed, TypeOK
    <2>2. Paid(s) = PaidSum(payments, s)
      BY DEF Paid, PaidSum
    <2> QED BY <2>1, <2>2, PaidIsSum
  <1>2. ASSUME NEW s \in 1..Len(sales), Numbered(s), sales[s].ptype = "Cash" PROVE Due(s) = 0
    <2>1. PaidIn(payments, s) = Total(sales[s].lines)
      BY <1>2 DEF WellPaid
    <2> QED BY <1>1, <2>1 DEF Due
  <1> QED BY <1>1, <1>2 DEF PaidWithinTotal, CashSettled, WellPaid

(* Where requests are served one at a time, the payments of a sale never   *)
(* exceed its total: what was due when a payment was accepted is still due *)
(* when its row is written, though it was posted in between.               *)
THEOREM SalesPaidWithinTotal == OneAtATime => (Spec => []PaidWithinTotal)
  BY WellPaidAlways, WellPaidMeans, SalesTyped, PTL

(* There, a cash sale is settled by the unit that confirms it, and no      *)
(* payment is accepted on it afterwards.                                   *)
THEOREM SalesCashSettled == OneAtATime => (Spec => []CashSettled)
  BY WellPaidAlways, WellPaidMeans, SalesTyped, PTL

-----------------------------------------------------------------------------
(* What a customer owes.                                                   *)

\* What the sale at s adds to the debt of c.
ShareIn(table, rows, s, c) ==
    IF Owes(table[s], c) THEN Total(table[s].lines) - PaidIn(rows, s) ELSE 0

SharesIn(table, rows, c) == [s \in 1..Len(table) |-> ShareIn(table, rows, s, c)]

DebtIn(table, rows, c) == SumOver(SharesIn(table, rows, c), Len(table))

(* The debt of a customer is the sum of the shares. *)
LEMMA DebtIsSum ==
    ASSUME NEW table \in Seq(Sale), NEW rows \in Seq(Payment), NEW c
    PROVE  /\ SumOver([s \in 1..Len(table) |->
                 IF Owes(table[s], c) THEN Total(table[s].lines) - PaidSum(rows, s) ELSE 0],
                 Len(table)) = DebtIn(table, rows, c)
           /\ DebtIn(table, rows, c) \in Int
           /\ \A s \in 1..Len(table) : ShareIn(table, rows, s, c) \in Int
  <1> DEFINE w == [s \in 1..Len(table) |->
                     IF Owes(table[s], c) THEN Total(table[s].lines) - PaidSum(rows, s) ELSE 0]
             v == SharesIn(table, rows, c)
  <1>1. \A s \in 1..Len(table) : /\ v[s] = w[s] /\ v[s] \in Int
                                 /\ ShareIn(table, rows, s, c) \in Int
    <2> SUFFICES ASSUME NEW s \in 1..Len(table)
                 PROVE  v[s] = w[s] /\ v[s] \in Int /\ ShareIn(table, rows, s, c) \in Int
      OBVIOUS
    <2>1. table[s] \in Sale
      BY ElementOfSeq
    <2>2. Total(table[s].lines) \in Nat
      BY <2>1, TotalNat DEF Sale
    <2>3. PaidSum(rows, s) = PaidIn(rows, s) /\ PaidIn(rows, s) \in Nat
      BY PaidIsSum
    <2> QED BY <2>2, <2>3 DEF ShareIn, SharesIn
  <1>2. Len(table) \in Nat
    OBVIOUS
  <1> HIDE DEF w, v
  <1>3. SumOver(w, Len(table)) = SumOver(v, Len(table)) /\ SumOver(v, Len(table)) \in Int
    BY <1>1, <1>2, SumOverAgree, SumOverInt
  <1> QED BY <1>1, <1>3 DEF DebtIn, w, v

(* So it is before and after a step. *)
LEMMA DebtNow ==
    ASSUME Typed, Typed', NEW c
    PROVE  /\ Debt(c) = DebtIn(sales, payments, c) /\ Debt(c)' = DebtIn(sales', payments', c)
           /\ DebtIn(sales, payments, c) \in Int /\ DebtIn(sales', payments', c) \in Int
           /\ \A s \in 1..Len(sales) : ShareIn(sales, payments, s, c) \in Int
           /\ \A s \in 1..Len(sales') : ShareIn(sales', payments', s, c) \in Int
  <1>1. /\ sales \in Seq(Sale) /\ sales' \in Seq(Sale)
        /\ payments \in Seq(Payment) /\ payments' \in Seq(Payment)
    BY DEF Typed, TypeOK
  <1>2. Debt(c) = DebtIn(sales, payments, c)
    BY <1>1, DebtIsSum DEF Debt, Due, Paid, PaidSum
  <1>3. Debt(c)' = DebtIn(sales', payments', c)
    BY <1>1, DebtIsSum DEF Debt, Due, Paid, PaidSum, Owes, Total
  <1> QED BY <1>1, <1>2, <1>3, DebtIsSum

(* A step after which no sale has a greater share leaves no greater debt. *)
LEMMA DebtLowered ==
    ASSUME Typed, Typed', NEW c,
           Len(sales') = Len(sales) \/ Len(sales') = Len(sales) + 1,
           \A s \in 1..Len(sales) : ShareIn(sales', payments', s, c) <= ShareIn(sales, payments, s, c),
           \A s \in 1..Len(sales') : s \in 1..Len(sales) \/ ShareIn(sales', payments', s, c) = 0
    PROVE  DebtIn(sales', payments', c) <= DebtIn(sales, payments, c)
  <1> DEFINE n == Len(sales)
             w == SharesIn(sales, payments, c)
             v == SharesIn(sales', payments', c)
  <1>1. n \in Nat /\ Len(sales') \in Nat
    BY LenProperties DEF Typed, TypeOK
  <1>2. /\ \A s \in 1..n : w[s] = ShareIn(sales, payments, s, c)
        /\ \A s \in 1..Len(sales') : v[s] = ShareIn(sales', payments', s, c)
    BY DEF SharesIn
  <1>3. \A s \in 1..n : v[s] \in Int /\ w[s] \in Int /\ v[s] <= w[s]
    <2>1. /\ \A s \in 1..Len(sales) : ShareIn(sales, payments, s, c) \in Int
          /\ \A s \in 1..Len(sales') : ShareIn(sales', payments', s, c) \in Int
      BY DebtNow
    <2>2. \A s \in 1..n : s \in 1..Len(sales')
      BY <1>1
    <2> QED BY <1>2, <2>1, <2>2
  <1> HIDE DEF w, v
  <1>4. SumOver(v, n) <= SumOver(w, n)
    BY <1>1, <1>3, SumOverMonotone
  <1>5. SumOver(v, Len(sales')) = SumOver(v, n)
    <2>1. CASE Len(sales') = n + 1
      <3>1. v[n + 1] = 0
        BY <1>1, <1>2, <2>1
      <3>2. SumOver(v, n + 1) = SumOver(v, n) + v[n + 1] /\ SumOver(v, n) \in Int
        BY <1>1, <1>3, SumOverStep, SumOverInt
      <3> QED BY <2>1, <3>1, <3>2
    <2> QED BY <2>1
  <1> QED BY <1>4, <1>5 DEF DebtIn, w, v

(* A quiet step leaves no greater share. *)
LEMMA QuietDebt ==
    ASSUME Typed, Typed', WellPaid, SalesQuiet,
           UNCHANGED payments \/ \E r \in Request : PayLink(r) \/ RefundLink(r), NEW c
    PROVE  DebtIn(sales', payments', c) <= DebtIn(sales, payments, c)
  <1>1. ASSUME NEW s PROVE PaidIn(payments, s) <= PaidIn(payments', s)
    <2>0. PaidIn(payments, s) \in Nat
      BY PaidNow
    <2>1. CASE UNCHANGED payments
      BY <2>0, <2>1
    <2>2. ASSUME NEW r \in Request, PayLink(r) PROVE PaidIn(payments, s) <= PaidIn(payments', s)
      <3>1. PICK pay \in Payment : payments' = Append(payments, pay)
        BY <2>2, PayLinked
      <3>2. PaidIn(payments', s) = PaidIn(payments, s) + (IF pay.sale = s THEN pay.amount ELSE 0)
        BY <3>1, PaidAppended
      <3>3. pay.amount \in Nat
        BY DEF Payment
      <3> QED BY <2>0, <3>2, <3>3
    <2>3. ASSUME NEW r \in Request, RefundLink(r)
          PROVE  PaidIn(payments, s) <= PaidIn(payments', s)
      BY <2>0, <2>3, PaidRefunded
    <2> QED BY <2>1, <2>2, <2>3
  <1>2. ASSUME NEW s \in 1..Len(sales'), s \notin 1..Len(sales) \/ ~ Numbered(s)
        PROVE  ShareIn(sales', payments', s, c) = 0
    <2>1. sales'[s].number = NoNumber
      BY <1>2 DEF SalesQuiet, Numbered
    <2>2. sales'[s].status # "Confirmed"
      BY <2>1 DEF Typed, Numbered
    <2> QED BY <2>2 DEF ShareIn, Owes
  <1>3. ASSUME NEW s \in 1..Len(sales)
        PROVE  ShareIn(sales', payments', s, c) <= ShareIn(sales, payments, s, c)
    <2>0. sales[s] \in Sale /\ s \in 1..Len(sales')
      BY LenProperties, ElementOfSeq DEF Typed, TypeOK, SalesQuiet
    <2>1. PICK total, paid, later \in Nat :
              total = Total(sales[s].lines) /\ paid = PaidIn(payments, s) /\ later = PaidIn(payments', s)
      <3>1. Total(sales[s].lines) \in Nat
        BY <2>0, TotalNat DEF Sale
      <3> QED BY <3>1, PaidNow
    <2>2. ShareIn(sales, payments, s, c) = IF Owes(sales[s], c) THEN total - paid ELSE 0
      BY <2>1 DEF ShareIn
    <2>3. CASE ~ Numbered(s)
      <3>1. sales[s].status # "Confirmed"
        BY <2>3 DEF Typed
      <3>2. ShareIn(sales', payments', s, c) = 0
        BY <1>2, <2>0, <2>3
      <3> QED BY <2>2, <3>1, <3>2 DEF Owes
    <2>4. CASE Numbered(s)
      <3>1. /\ sales'[s].lines = sales[s].lines /\ sales'[s].ptype = sales[s].ptype
            /\ sales'[s].customer = sales[s].customer
            /\ sales'[s].status = "Confirmed" => sales[s].status = "Confirmed"
        BY <2>4 DEF SalesQuiet
      <3>2. ShareIn(sales', payments', s, c) = IF Owes(sales'[s], c) THEN total - later ELSE 0
        BY <2>1, <3>1 DEF ShareIn
      <3>3. Owes(sales'[s], c) => Owes(sales[s], c)
        BY <3>1 DEF Owes
      <3>4. paid <= later
        BY <1>1, <2>1
      <3>5. paid <= total
        BY <2>1, <2>4 DEF WellPaid
      <3> QED BY <2>1, <2>2, <3>2, <3>3, <3>4, <3>5
    <2> QED BY <2>3, <2>4
  <1> QED BY <1>2, <1>3, DebtLowered DEF SalesQuiet

(* A confirm adds the total of a credit sale to its customer's debt, and   *)
(* nothing to any other.                                                   *)
LEMMA ConfirmedDebt ==
    ASSUME Typed, Typed', NEW s, NEW number, NEW a, Confirms(s, number, a), NEW c
    PROVE  DebtIn(sales', payments', c) =
               DebtIn(sales, payments, c)
                   + (IF sales[s].ptype = "Credit" /\ sales[s].customer = c
                      THEN Total(sales[s].lines) ELSE 0)
  <1> DEFINE n == Len(sales)
             w == SharesIn(sales, payments, c)
             v == SharesIn(sales', payments', c)
  <1>1. n \in Nat /\ Len(sales') = n /\ s \in 1..n
    BY ConfirmedTable, LenProperties DEF Typed, TypeOK
  <1>2. /\ \A t \in 1..n : w[t] = ShareIn(sales, payments, t, c)
        /\ \A t \in 1..n : v[t] = ShareIn(sales', payments', t, c)
    BY <1>1 DEF SharesIn
  <1>3. \A t \in 1..n : v[t] \in Int /\ w[t] \in Int
    BY <1>1, <1>2, DebtNow
  <1>4. ASSUME NEW t \in 1..n, t # s PROVE v[t] = w[t]
    <2>1. sales'[t] = sales[t]
      BY <1>4, ConfirmedTable
    <2>2. PaidIn(payments', t) = PaidIn(payments, t)
      BY <1>4, PaidByConfirm
    <2> QED BY <1>2, <2>1, <2>2 DEF ShareIn
  <1>5. w[s] = 0
    <2>1. sales[s].status = "Draft"
      BY DEF Confirms
    <2> QED BY <1>1, <1>2, <2>1 DEF ShareIn, Owes
  <1>6. PICK lines \in Seq(Line) : lines = sales[s].lines
    BY ConfirmedTable
  <1>7. Total(lines) \in Nat
    BY TotalNat
  <1>8. v[s] = IF sales[s].ptype = "Credit" /\ sales[s].customer = c THEN Total(lines) ELSE 0
    <2>1. /\ sales'[s].status = "Confirmed" /\ sales'[s].lines = lines
          /\ sales'[s].ptype = sales[s].ptype /\ sales'[s].customer = sales[s].customer
      BY <1>6, ConfirmedTable
    <2>2. sales[s].ptype # "Cash" => PaidIn(payments', s) = 0
      BY PaidByConfirm
    <2> QED BY <1>1, <1>2, <1>7, <2>1, <2>2 DEF ShareIn, Owes
  <1> HIDE DEF w, v
  <1>9. DifferAt(v, w, n, s)
    BY <1>1, <1>3, <1>4, SumOverUpdate
  <1>10. SumOver(v, n) = SumOver(w, n) - w[s] + v[s]
    BY <1>9 DEF DifferAt
  <1>11. SumOver(w, n) \in Int
    BY <1>1, <1>3, SumOverInt
  <1> QED BY <1>1, <1>5, <1>6, <1>7, <1>8, <1>10, <1>11 DEF DebtIn, w, v

\* The credit check of a confirm about to post still passes.
Allowed(q) ==
    q.step = "confirmUnit" => WithinLimit(q.seen, Debt(q.seen.customer) + Total(q.seen.lines))

LimitKept == DebtWithinLimit /\ \A r \in Request : Allowed(req[r])

(* Only a credit check lets a confirm go on to post. *)
LEMMA UnitReached ==
    ASSUME Typed, NEW r \in Request, Starts(r) \/ Works(r) \/ Quit(r),
           req'[r].step = "confirmUnit"
    PROVE  ConfirmCheck(r)
  <1>1. PICK q : q = req[r]
    OBVIOUS
  <1>2. q \in RequestState
    BY <1>1, RequestShape DEF Typed
  <1>3. ASSUME NEW st, Becomes(r, st) PROVE st.step = "confirmUnit"
    BY <1>3 DEF Typed, TypeOK, Becomes
  <1>4. ~ Becomes(r, Idle)
    BY <1>3 DEF Idle
  <1>5. ~ Starts(r)
    <2> SUFFICES ASSUME Starts(r) PROVE FALSE
      OBVIOUS
    <2>1. PICK s \in 1..Len(sales) :
              \/ \E y \in Year : HeaderRead(r, s, y)
              \/ ConfirmRead(r, s) \/ CancelRead(r, s)
              \/ \E amount \in PayAmount : PayRead(r, s, amount)
      BY DEF Starts
    <2>2. \/ \E y \in Year : Becomes(r, [step |-> "header", sale |-> s, year |-> y])
          \/ Becomes(r, [step |-> "confirmCheck", sale |-> s, seen |-> sales[s]])
          \/ Becomes(r, [step |-> "discard", sale |-> s])
          \/ Becomes(r, ToReverse(s))
          \/ \E amount \in PayAmount : Becomes(r, [step |-> "payPost", sale |-> s, amount |-> amount])
      BY <2>1 DEF HeaderRead, ConfirmRead, CancelRead, PayRead
    <2>3. ToReverse(s).step = "cancelCheck"
      BY DEF ToReverse
    <2>4. ~ Becomes(r, ToReverse(s))
      BY <1>3, <2>3
    <2>5. ~ \E y \in Year : Becomes(r, [step |-> "header", sale |-> s, year |-> y])
      <3> SUFFICES ASSUME NEW y \in Year, Becomes(r, [step |-> "header", sale |-> s, year |-> y])
                   PROVE  FALSE
        OBVIOUS
      <3>1. PICK st : st = [step |-> "header", sale |-> s, year |-> y]
        OBVIOUS
      <3>2. st.step = "header" /\ Becomes(r, st)
        BY <3>1
      <3> QED BY <1>3, <3>2
    <2>6. /\ ~ Becomes(r, [step |-> "confirmCheck", sale |-> s, seen |-> sales[s]])
          /\ ~ Becomes(r, [step |-> "discard", sale |-> s])
      BY <1>3
    <2>7. ~ \E amount \in PayAmount : Becomes(r, [step |-> "payPost", sale |-> s, amount |-> amount])
      <3> SUFFICES ASSUME NEW amount \in PayAmount,
                          Becomes(r, [step |-> "payPost", sale |-> s, amount |-> amount])
                   PROVE  FALSE
        OBVIOUS
      <3>1. PICK st : st = [step |-> "payPost", sale |-> s, amount |-> amount]
        OBVIOUS
      <3>2. st.step = "payPost" /\ Becomes(r, st)
        BY <3>1
      <3> QED BY <1>3, <3>2
    <2> QED BY <2>2, <2>4, <2>5, <2>6, <2>7
  <1>6. ~ Quit(r) /\ ~ HeaderWrite(r) /\ ~ Discard(r) /\ ~ CancelClose(r) /\ ~ PayLink(r)
        /\ ~ \E a \in Account : ConfirmUnit(r, a)
    BY <1>4 DEF Quit, HeaderWrite, Discard, CancelClose, PayLink, ConfirmUnit
  <1>7. ~ \E a \in Account : PayPost(r, a)
    <2> SUFFICES ASSUME NEW a \in Account, PayPost(r, a) PROVE FALSE
      OBVIOUS
    <2>1. Becomes(r, [step |-> "payLink", sale |-> q.sale, account |-> a,
                      amount |-> q.amount, tx |-> Len(entries) + 1])
      BY <1>1 DEF PayPost
    <2> QED BY <1>3, <2>1
  <1>8. ~ CancelCheck(r)
    <2> SUFFICES ASSUME CancelCheck(r) PROVE FALSE
      OBVIOUS
    <2>1. PICK st : st = [q EXCEPT !.step = "reverse"]
      OBVIOUS
    <2>2. q.step = "cancelCheck" /\ Becomes(r, st)
      BY <1>1, <2>1 DEF CancelCheck
    <2>3. st.step = "reverse"
      BY <1>2, <2>1, <2>2 DEF RequestState, Idle
    <2> QED BY <1>3, <2>2, <2>3
  <1>9. ~ ReturnLine(r)
    <2> SUFFICES ASSUME ReturnLine(r) PROVE FALSE
      OBVIOUS
    <2>1. PICK st : st = [q EXCEPT !.lines = q.lines \ {First(q.lines)}]
      OBVIOUS
    <2>2. q.step = "reverse" /\ Becomes(r, st)
      BY <1>1, <2>1 DEF ReturnLine
    <2>3. st.step = "reverse"
      BY <1>2, <2>1, <2>2 DEF RequestState, Idle
    <2> QED BY <1>3, <2>2, <2>3
  <1>10. ~ RefundPost(r)
    <2> SUFFICES ASSUME RefundPost(r) PROVE FALSE
      OBVIOUS
    <2>1. Becomes(r, [step |-> "link", sale |-> q.sale, lines |-> {}, pays |-> q.pays,
                      tx |-> Len(entries) + 1])
      BY <1>1, <1>4 DEF RefundPost
    <2> QED BY <1>3, <2>1
  <1>11. ~ RefundLink(r)
    <2> SUFFICES ASSUME RefundLink(r) PROVE FALSE
      OBVIOUS
    <2>1. Becomes(r, [step |-> "reverse", sale |-> q.sale, lines |-> {},
                      pays |-> q.pays \ {First(q.pays)}])
      BY <1>1 DEF RefundLink
    <2> QED BY <1>3, <2>1
  <1> QED BY <1>5, <1>6, <1>7, <1>8, <1>9, <1>10, <1>11 DEF Works

(* The request that goes on to post was allowed to by what is still so. *)
LEMMA AllowedStep ==
    ASSUME OneAtATime, Typed, Typed', Alone, [Next]_vars, LimitKept
    PROVE  (\A r \in Request : Allowed(req[r]))'
  <1>1. CASE UNCHANGED vars
    <2>1. \A c : Debt(c)' = Debt(c)
      BY <1>1 DEF vars, Debt, Due, Paid
    <2> QED BY <1>1, <2>1 DEF vars, LimitKept, Allowed
  <1>2. CASE (\A r \in Request : req[r] = Idle) /\ UNCHANGED req
    BY <1>2 DEF Allowed, Idle
  <1>3. ASSUME NEW r \in Request, Sole(r), Starts(r) \/ Works(r) \/ Quit(r)
        PROVE  (\A o \in Request : Allowed(req[o]))'
    <2> SUFFICES ASSUME NEW o \in Request, req'[o].step = "confirmUnit"
                 PROVE  Allowed(req[o])'
      BY DEF Allowed
    <2>1. o = r
      <3>1. \E st : Becomes(r, st)
        BY <1>3 DEF Starts, HeaderRead, ConfirmRead, CancelRead, PayRead, Works, Quit, HeaderWrite,
               Discard, ConfirmCheck, ConfirmUnit, PayPost, PayLink, CancelCheck, ReturnLine,
               RefundPost, RefundLink, CancelClose
      <3>2. o # r => req'[o] = Idle
        BY <1>3, <3>1 DEF Sole, Becomes, Typed, TypeOK
      <3> QED BY <3>2 DEF Idle
    <2>2. ConfirmCheck(r)
      BY <1>3, <2>1, UnitReached
    <2>3. PICK q : q = req[r]
      OBVIOUS
    <2>4. q \in RequestState /\ q.step = "confirmCheck"
      BY <2>2, <2>3, RequestShape DEF Typed, ConfirmCheck
    <2>5. PICK st : st = [q EXCEPT !.step = "confirmUnit"]
      OBVIOUS
    <2>6. st.seen = q.seen
      BY <2>4, <2>5 DEF RequestState, Idle
    <2>7. req'[r] = st
      BY <2>2, <2>3, <2>5 DEF ConfirmCheck, Becomes, Typed, TypeOK
    <2>8. UNCHANGED <<sales, payments>>
      BY <2>2 DEF ConfirmCheck, Unwritten
    <2>9. \A c : Debt(c)' = Debt(c)
      BY <2>8 DEF Debt, Due, Paid
    <2>10. WithinLimit(q.seen, Debt(q.seen.customer) + Total(q.seen.lines))
      BY <2>2, <2>3 DEF ConfirmCheck
    <2>11. Allowed(st)'
      BY <2>6, <2>9, <2>10 DEF Allowed
    <2> QED BY <2>1, <2>7, <2>11 DEF Allowed
  <1> QED BY <1>1, <1>2, <1>3, SerialCases

(* No step takes a debt over the limit. *)
LEMMA LimitStep ==
    ASSUME OneAtATime, Typed, Typed', Alone, Held, NumbersInOrder, WellPaid, LimitKept, [Next]_vars
    PROVE  LimitKept'
  <1>1. ASSUME EnforceLimit, NEW c \in Limited PROVE Debt(c)' <= Limit
    <2>1. PICK debt, later \in Int :
              /\ debt = DebtIn(sales, payments, c) /\ later = DebtIn(sales', payments', c)
              /\ debt = Debt(c) /\ later = Debt(c)'
      BY DebtNow
    <2>2. debt <= Limit /\ Limit \in Nat
      BY <1>1, <2>1, SalesAssumption DEF LimitKept, DebtWithinLimit
    <2>3. ASSUME NEW r \in Request, NEW a \in Account, ConfirmUnit(r, a) PROVE later <= Limit
      <3>1. PICK q : q = req[r]
        OBVIOUS
      <3>2. PICK number : Confirms(q.sale, number, a)
        BY <2>3, <3>1, ConfirmsRead
      <3>3. q.step = "confirmUnit" /\ sales[q.sale] = q.seen
        BY <2>3, <3>1 DEF ConfirmUnit, Held, Holds
      <3>4. WithinLimit(q.seen, Debt(q.seen.customer) + Total(q.seen.lines))
        BY <3>1, <3>3 DEF LimitKept, Allowed
      <3>5. later = debt + (IF q.seen.ptype = "Credit" /\ q.seen.customer = c
                            THEN Total(q.seen.lines) ELSE 0)
        <4>1. PICK s : s = q.sale
          OBVIOUS
        <4>2. DebtIn(sales', payments', c) = DebtIn(sales, payments, c)
                  + (IF sales[s].ptype = "Credit" /\ sales[s].customer = c
                     THEN Total(sales[s].lines) ELSE 0)
          BY <3>2, <4>1, ConfirmedDebt
        <4> QED BY <2>1, <3>3, <4>1, <4>2
      <3> QED BY <1>1, <2>1, <2>2, <3>4, <3>5 DEF WithinLimit
    <2>4. ASSUME UNCHANGED lastNumber,
                 UNCHANGED payments \/ \E r \in Request : PayLink(r) \/ RefundLink(r)
          PROVE  later <= Limit
      <3>1. SalesQuiet
        BY <2>4, StepOnTable, QuietTable
      <3>2. later <= debt
        BY <2>1, <2>4, <3>1, QuietDebt
      <3> QED BY <2>1, <2>2, <3>2
    <2> QED BY <2>1, <2>3, <2>4, ConfirmsOrNot
  <1>2. DebtWithinLimit'
    BY <1>1 DEF DebtWithinLimit
  <1> QED BY <1>2, AllowedStep DEF LimitKept

(* Where requests are served one at a time and the limit is enforced, no   *)
(* customer with a limit ever owes more than it: the projected debt a      *)
(* confirm was let through with is the debt it leaves, and payments,       *)
(* annulments and edits never raise one.                                   *)
THEOREM SalesDebtWithinLimit == OneAtATime => (Spec => []DebtWithinLimit)
  <1>1. Init => LimitKept
    <2> SUFFICES ASSUME Init PROVE LimitKept
      OBVIOUS
    <2>1. sales = <<>> /\ \A r \in Request : req[r] = Idle
      BY DEF Init
    <2>2. ASSUME NEW c PROVE Debt(c) = 0
      <3>1. Len(<<>>) = 0
        OBVIOUS
      <3> QED BY <2>1, <3>1, SumOverStep DEF Debt
    <2> QED BY <2>1, <2>2, SalesAssumption DEF LimitKept, DebtWithinLimit, Allowed, Idle
  <1>2. CASE OneAtATime
    <2>1. Typed /\ Alone /\ Held /\ [Next]_vars => Alone' /\ Held'
      BY <1>2, HeldStep
    <2>2. Typed /\ Typed' /\ Alone /\ Held /\ NumbersInOrder /\ WellPaid /\ LimitKept /\ [Next]_vars
              => LimitKept'
      BY <1>2, LimitStep
    <2>3. LimitKept => DebtWithinLimit
      BY DEF LimitKept
    <2>4. Spec => []WellPaid
      BY <1>2, WellPaidAlways
    <2> QED BY <1>1, <2>1, <2>2, <2>3, <2>4, HeldInit, SalesTyped, SaleNumbersDense, PTL DEF Spec
  <1> QED BY <1>2

-----------------------------------------------------------------------------
(* What an annulment has still to do.                                      *)

AmountOn(a) == [pay \in Payment |-> IF pay.account = a THEN pay.amount ELSE 0]

BalanceFigure(a) == [e \in Entry |-> IF e.account = a THEN Signed(e.kind, e.amount) ELSE 0]

BalanceIn(rows, a) == RowSum(BalanceFigure(a), rows)

BalanceSum(rows, a) ==
    SumOver([i \in 1..Len(rows) |->
        IF rows[i].account = a THEN Signed(rows[i].kind, rows[i].amount) ELSE 0], Len(rows))

\* The units of p on the lines ids; what refunding the payments ids takes out of a.
LinesLeft(lines, ids, p) == PickedSum(UnitsOf(Line, p), lines, ids)

RefundsIn(rows, ids, a) == PickedSum(AmountOn(a), rows, ids)

\* The payments still to refund: of a posted refund the link only.
Left(q) == IF q.step = "link" THEN q.pays \ {First(q.pays)} ELSE q.pays

(* The figures are numbers. *)
LEMMA ReversalFigures ==
    ASSUME NEW a
    PROVE  /\ AmountOn(a) \in [Payment -> Nat] /\ AmountOn(a) \in [Payment -> Int]
           /\ BalanceFigure(a) \in [Entry -> Int]
  <1>1. AmountOn(a) \in [Payment -> Nat]
    <2>1. \A pay \in Payment : pay.amount \in Nat
      BY DEF Payment
    <2> QED BY <2>1 DEF AmountOn
  <1>2. Nat \subseteq Int
    OBVIOUS
  <1>3. BalanceFigure(a) \in [Entry -> Int]
    <2>1. \A e \in Entry : Signed(e.kind, e.amount) \in Int
      BY DEF Entry, Kind, Signed
    <2> QED BY <2>1 DEF BalanceFigure
  <1> QED BY <1>1, <1>2, <1>3

(* A balance is a sum of figures. *)
LEMMA BalanceIsSum ==
    ASSUME NEW rows \in Seq(Entry), NEW a
    PROVE  BalanceSum(rows, a) = BalanceIn(rows, a) /\ BalanceIn(rows, a) \in Int
  <1> DEFINE f == BalanceFigure(a)
             w == [i \in 1..Len(rows) |->
                     IF rows[i].account = a THEN Signed(rows[i].kind, rows[i].amount) ELSE 0]
  <1>1. \A i \in 1..Len(rows) : w[i] = f[rows[i]]
    <2> SUFFICES ASSUME NEW i \in 1..Len(rows) PROVE w[i] = f[rows[i]]
      OBVIOUS
    <2>1. PICK e \in Entry : e = rows[i]
      BY ElementOfSeq
    <2> QED BY <2>1 DEF BalanceFigure
  <1>2. f \in [Entry -> Int]
    BY ReversalFigures
  <1> HIDE DEF w, f
  <1>3. SumOver(w, Len(rows)) = RowSum(f, rows)
    BY <1>1, RowSumIs
  <1>4. RowSum(f, rows) \in Int
    BY <1>2, RowSumInt
  <1> QED BY <1>3, <1>4 DEF BalanceIn, BalanceSum, f, w

(* What refunding some payments takes out of an account is such a sum. *)
LEMMA RefundsIsSum ==
    ASSUME NEW ids, NEW a, payments \in Seq(Payment)
    PROVE  Refunds(ids, a) = RefundsIn(payments, ids, a)
  <1> DEFINE w == [i \in 1..Len(payments) |->
                     IF i \in ids /\ payments[i].account = a THEN payments[i].amount ELSE 0]
             f == AmountOn(a)
  <1>1. \A i \in 1..Len(payments) : w[i] = IF i \in ids THEN f[payments[i]] ELSE 0
    <2> SUFFICES ASSUME NEW i \in 1..Len(payments)
                 PROVE  w[i] = IF i \in ids THEN f[payments[i]] ELSE 0
      OBVIOUS
    <2>1. PICK pay \in Payment : pay = payments[i]
      BY ElementOfSeq
    <2> QED BY <2>1 DEF AmountOn
  <1> HIDE DEF w, f
  <1>2. SumOver(w, Len(payments)) = PickedSum(f, payments, ids)
    BY <1>1, PickedIs
  <1> QED BY <1>2 DEF Refunds, RefundsIn, f, w

-----------------------------------------------------------------------------
(* The goods, the money and the cover of an annulment q; the state is that *)
(* of the sales, the movements, the payments and the transactions given.   *)

GoodsOf(table, rows, q) ==
    \A p \in Tracked :
        ReturnedIn(rows, table[q.sale].number, p) + LinesLeft(table[q.sale].lines, q.lines, p)
            = Demand(table[q.sale].lines, p)

MoneyOf(pays, q) ==
    \A i \in 1..Len(pays) : pays[i].sale = q.sale => pays[i].refund # 0 \/ i \in q.pays

CoverOf(pays, ledger, q) ==
    \A a \in Account : \/ RefundsIn(pays, Left(q), a) = 0
                       \/ Solvent(BalanceIn(ledger, a) - RefundsIn(pays, Left(q), a))

\* What an annulment under way keeps.
Reverses(q) ==
    /\ q.step \in Cancelling => GoodsOf(sales, moves, q) /\ MoneyOf(payments, q)
    /\ q.step \in {"reverse", "link"} => CoverOf(payments, entries, q)

\* An annulment of s past its check is under way.
Under(s) == \E r \in Request : req[r].step \in {"reverse", "link"} /\ req[r].sale = s

UnderAfter(s) == \E r \in Request : req'[r].step \in {"reverse", "link"} /\ req'[r].sale = s

NothingBack(rows, sale) == \A p \in Tracked : ReturnedIn(rows, sale.number, p) = 0

AllBack(rows, sale) == \A p \in Tracked : ReturnedIn(rows, sale.number, p) = Demand(sale.lines, p)

AllRefunded(pays, s) == \A i \in 1..Len(pays) : pays[i].sale = s => pays[i].refund # 0

\* Nothing of a confirmed sale has come back, unless it is being annulled;
\* everything of an annulled one has.
Settled(s) ==
    Numbered(s) =>
        /\ sales[s].status = "Confirmed" => Under(s) \/ NothingBack(moves, sales[s])
        /\ sales[s].status = "Cancelled" => AllBack(moves, sales[s]) /\ AllRefunded(payments, s)

Annulments ==
    /\ \A r \in Request : Reverses(req[r])
    /\ \A s \in 1..Len(sales) : Settled(s)

-----------------------------------------------------------------------------
(* The steps of requests served one at a time that do not fail.            *)

\* No annulment goes on or ends, and what annulments are about stays.
Aside ==
    /\ \A r \in Request : req'[r].step \notin Cancelling /\ req[r].step \notin {"reverse", "link"}
    /\ UNCHANGED <<moves, payments>>
    /\ \A s \in 1..Len(sales') : sales'[s].number # NoNumber =>
           /\ s \in 1..Len(sales) /\ sales'[s].number = sales[s].number
           /\ sales'[s].lines = sales[s].lines /\ sales'[s].status = sales[s].status

(* The request under way moves; the others stay idle. *)
LEMMA SoleBecomes ==
    ASSUME TypeOK, NEW r \in Request, Sole(r), NEW st, Becomes(r, st)
    PROVE  /\ req'[r] = st
           /\ \A o \in Request : o # r => req[o] = Idle /\ req'[o] = Idle
  BY DEF TypeOK, Becomes, Sole

(* A numbered sale keeps its status in the steps that write drafts and headers. *)
LEMMA StatusKept ==
    ASSUME Typed, Held, NEW t \in 1..Len(sales), Numbered(t),
           \/ UNCHANGED sales \/ Drafting
           \/ \E r \in Request : HeaderWrite(r) \/ Discard(r)
    PROVE  sales'[t].status = sales[t].status
  <1>1. sales \in Seq(Sale) /\ \A s \in 1..Len(sales) : sales[s] \in Sale
    BY ElementOfSeq DEF Typed, TypeOK
  <1>2. sales[t].status # "Draft"
    BY DEF Typed
  <1>3. ASSUME NEW x, sales' = Append(sales, x) PROVE sales'[t] = sales[t]
    BY <1>1, <1>3
  <1>4. ASSUME NEW s \in 1..Len(sales), NEW x, s # t, sales' = [sales EXCEPT ![s] = x]
        PROVE  sales'[t] = sales[t]
    BY <1>1, <1>4
  <1>5. ASSUME NEW s \in 1..Len(sales), NEW lines, EditLines(s, lines)
        PROVE  sales'[t].status = sales[t].status
    <2>1. s # t /\ \E x : sales' = [sales EXCEPT ![s] = x]
      BY <1>2, <1>5 DEF EditLines, Is, Rewrite
    <2> QED BY <1>4, <2>1
  <1>6. ASSUME Drafting PROVE sales'[t].status = sales[t].status
    <2>1. ASSUME NEW s \in 1..Len(sales), DeleteDraft(s) PROVE sales'[t].status = sales[t].status
      <3>1. s # t /\ \E x : sales' = [sales EXCEPT ![s] = x]
        BY <1>2, <2>1 DEF DeleteDraft, Is, Rewrite, Numbered
      <3> QED BY <1>4, <3>1
    <2>2. ASSUME NEW y, NEW ptype, NEW c, CreateDraft(y, ptype, c)
          PROVE sales'[t].status = sales[t].status
      BY <1>3, <2>2 DEF CreateDraft
    <2> QED BY <1>5, <1>6, <2>1, <2>2 DEF Drafting, AddLine, UpdateLine, RemoveLine
  <1>7. ASSUME NEW r \in Request, HeaderWrite(r) PROVE sales'[t].status = sales[t].status
    <2>1. PICK s \in 1..Len(sales) : s = req[r].sale
      BY <1>7 DEF HeaderWrite, Typed, Relies
    <2>2. PICK x : x = [sales[s] EXCEPT !.year = req[r].year]
      OBVIOUS
    <2>3. sales' = [sales EXCEPT ![s] = x] /\ x.status = sales[s].status
      BY <1>1, <1>7, <2>1, <2>2 DEF HeaderWrite, Rewrite, Sale
    <2>4. sales'[s] = x
      BY <1>1, <2>3
    <2> QED BY <1>4, <2>3, <2>4
  <1>8. ASSUME NEW r \in Request, Discard(r) PROVE sales'[t].status = sales[t].status
    <2>1. PICK s \in 1..Len(sales) : s = req[r].sale
      BY <1>8 DEF Discard, Typed, Relies
    <2>2. sales[s].status = "Draft"
      BY <1>8, <2>1 DEF Discard, Held, Holds
    <2>3. s # t /\ \E x : sales' = [sales EXCEPT ![s] = x]
      BY <1>2, <1>8, <2>1, <2>2 DEF Discard, Rewrite
    <2> QED BY <1>4, <2>3
  <1> QED BY <1>6, <1>7, <1>8

-----------------------------------------------------------------------------
(* A step that writes drafts and headers only leaves what is numbered. *)
LEMMA AsideTable ==
    ASSUME Typed, Held, [Next]_vars, UNCHANGED lastNumber,
           \/ UNCHANGED sales \/ Drafting
           \/ \E r \in Request : HeaderWrite(r) \/ Discard(r)
    PROVE  \A s \in 1..Len(sales') : sales'[s].number # NoNumber =>
               /\ s \in 1..Len(sales) /\ sales'[s].number = sales[s].number
               /\ sales'[s].lines = sales[s].lines /\ sales'[s].status = sales[s].status
  <1>1. SalesQuiet
    BY StepOnTable, QuietTable
  <1> SUFFICES ASSUME NEW s \in 1..Len(sales'), sales'[s].number # NoNumber
               PROVE  /\ s \in 1..Len(sales) /\ sales'[s].number = sales[s].number
                      /\ sales'[s].lines = sales[s].lines /\ sales'[s].status = sales[s].status
    OBVIOUS
  <1>2. s \in 1..Len(sales) /\ sales'[s].number = sales[s].number /\ Numbered(s)
    BY <1>1 DEF SalesQuiet, Numbered
  <1>3. sales'[s].lines = sales[s].lines
    BY <1>1, <1>2 DEF SalesQuiet
  <1>4. sales'[s].status = sales[s].status
    BY <1>2, StatusKept
  <1> QED BY <1>2, <1>3, <1>4

(* A request that writes no more than that, and annuls nothing, stands aside. *)
LEMMA AsideSole ==
    ASSUME Typed, Held, [Next]_vars, NEW r \in Request, Sole(r), NEW st, Becomes(r, st),
           st.step \notin Cancelling, req[r].step \notin {"reverse", "link"},
           UNCHANGED <<lastNumber, moves, payments>>,
           UNCHANGED sales \/ HeaderWrite(r) \/ Discard(r)
    PROVE  Aside
  <1>1. /\ req'[r] = st
        /\ \A o \in Request : o # r => req[o] = Idle /\ req'[o] = Idle
    BY SoleBecomes DEF Typed
  <1>2. \A o \in Request : req'[o].step \notin Cancelling /\ req[o].step \notin {"reverse", "link"}
    BY <1>1 DEF Idle, Cancelling
  <1> QED BY <1>2, AsideTable DEF Aside

\* The start of an annulment.
Annuls(r, s) ==
    /\ sales[s].status = "Confirmed" /\ NoRefundYet(s)
    /\ \A o \in Request : req[o] = Idle
    /\ Becomes(r, ToReverse(s))
    /\ Unwritten

(* A request's first step stands aside, or starts an annulment. *)
LEMMA StartsAside ==
    ASSUME Typed, Held, OneAtATime, [Next]_vars, NEW r \in Request, Sole(r), Starts(r)
    PROVE  Aside \/ \E s \in 1..Len(sales) : Annuls(r, s)
  <1>1. PICK s \in 1..Len(sales) :
            \/ \E y \in Year : HeaderRead(r, s, y)
            \/ ConfirmRead(r, s) \/ CancelRead(r, s)
            \/ \E amount \in PayAmount : PayRead(r, s, amount)
    BY DEF Starts
  <1>2. UNCHANGED <<sales, lastNumber, moves, payments>> /\ Unwritten /\ Free(r)
    BY <1>1 DEF HeaderRead, ConfirmRead, CancelRead, PayRead, Unwritten
  <1>3. ASSUME NEW st, Becomes(r, st), st.step \notin Cancelling PROVE Aside
    <2>1. req[r].step \notin {"reverse", "link"}
      BY <1>2 DEF Free, Idle
    <2> QED BY <1>2, <1>3, <2>1, AsideSole
  <1>4. ASSUME NEW y \in Year, HeaderRead(r, s, y) PROVE Aside
    <2>1. PICK st : st = [step |-> "header", sale |-> s, year |-> y]
      OBVIOUS
    <2>2. Becomes(r, st) /\ st.step \notin Cancelling
      BY <1>4, <2>1 DEF HeaderRead, Cancelling
    <2> QED BY <1>3, <2>2
  <1>5. ASSUME ConfirmRead(r, s) PROVE Aside
    <2>1. PICK st : st = [step |-> "confirmCheck", sale |-> s, seen |-> sales[s]]
      OBVIOUS
    <2>2. Becomes(r, st) /\ st.step \notin Cancelling
      BY <1>5, <2>1 DEF ConfirmRead, Cancelling
    <2> QED BY <1>3, <2>2
  <1>6. ASSUME NEW amount \in PayAmount, PayRead(r, s, amount) PROVE Aside
    <2>1. PICK st : st = [step |-> "payPost", sale |-> s, amount |-> amount]
      OBVIOUS
    <2>2. Becomes(r, st) /\ st.step \notin Cancelling
      BY <1>6, <2>1 DEF PayRead, Cancelling
    <2> QED BY <1>3, <2>2
  <1>7. ASSUME CancelRead(r, s) PROVE Aside \/ Annuls(r, s)
    <2>1. PICK st : st = [step |-> "discard", sale |-> s]
      OBVIOUS
    <2>2. st.step \notin Cancelling
      BY <2>1 DEF Cancelling
    <2>3. CASE Becomes(r, st)
      BY <1>3, <2>2, <2>3
    <2>4. CASE ~ Becomes(r, st)
      <3>1. sales[s].status = "Confirmed" /\ NoRefundYet(s) /\ Becomes(r, ToReverse(s))
        BY <1>7, <2>1, <2>4 DEF CancelRead, Is
      <3>2. \A o \in Request : req[o] = Idle
        BY <1>2 DEF Free, Quiet
      <3> QED BY <1>2, <3>1, <3>2 DEF Annuls
    <2> QED BY <2>3, <2>4
  <1> QED BY <1>1, <1>4, <1>5, <1>6, <1>7

\* The steps that are not aside.
TakesPart(r) ==
    \/ \E s \in 1..Len(sales) : Annuls(r, s)
    \/ CancelCheck(r) \/ ReturnLine(r) \/ RefundPost(r) \/ RefundLink(r) \/ CancelClose(r)
    \/ PayLink(r) \/ \E a \in Account : ConfirmUnit(r, a)

(* The step of a request under way stands aside, or is one of these. *)
LEMMA WorksAside ==
    ASSUME Typed, Held, ~ MayFail, [Next]_vars, NEW r \in Request, Sole(r), Works(r) \/ Quit(r)
    PROVE  Aside \/ TakesPart(r)
  <1>1. PICK q : q = req[r]
    OBVIOUS
  <1>2. q \in RequestState /\ Holds(q)
    BY <1>1, RequestShape DEF Typed, Held
  <1>3. ASSUME HeaderWrite(r) \/ Discard(r) PROVE Aside
    <2>1. /\ Becomes(r, Idle) /\ UNCHANGED <<lastNumber, moves, payments>>
          /\ req[r].step \notin {"reverse", "link"}
      BY <1>3 DEF HeaderWrite, Discard
    <2> QED BY <1>3, <2>1, AsideSole DEF Idle, Cancelling
  <1>4. ASSUME ConfirmCheck(r) PROVE Aside
    <2>1. PICK st : st = [q EXCEPT !.step = "confirmUnit"]
      OBVIOUS
    <2>2. q.step = "confirmCheck" /\ Becomes(r, st) /\ UNCHANGED <<sales, lastNumber, moves, payments>>
      BY <1>1, <1>4, <2>1 DEF ConfirmCheck, Unwritten
    <2>3. st.step = "confirmUnit"
      BY <1>2, <2>1, <2>2 DEF RequestState, Idle
    <2> QED BY <1>1, <2>2, <2>3, AsideSole DEF Cancelling
  <1>5. ASSUME NEW a \in Account, PayPost(r, a) PROVE Aside
    <2>1. PICK st : st = [step |-> "payLink", sale |-> q.sale, account |-> a,
                          amount |-> q.amount, tx |-> Len(entries) + 1]
      OBVIOUS
    <2>2. q.step = "payPost" /\ Becomes(r, st) /\ UNCHANGED <<sales, lastNumber, moves, payments>>
      BY <1>1, <1>5, <2>1 DEF PayPost
    <2>3. st.step = "payLink"
      BY <2>1
    <2> QED BY <1>1, <2>2, <2>3, AsideSole DEF Cancelling
  <1>6. ASSUME Quit(r) PROVE Aside
    <2>1. q.step \notin {"reverse", "link"}
      BY <1>1, <1>2, <1>6 DEF Quit, Holds
    <2>2. Becomes(r, Idle) /\ UNCHANGED <<sales, lastNumber, moves, payments>>
      BY <1>6 DEF Quit, Unwritten
    <2> QED BY <1>1, <2>1, <2>2, AsideSole DEF Idle, Cancelling
  <1> QED BY <1>3, <1>4, <1>5, <1>6 DEF Works, TakesPart

(* Every step of such requests. *)
LEMMA SerialTurn ==
    ASSUME Typed, Alone, Held, OneAtATime, ~ MayFail, [Next]_vars
    PROVE  UNCHANGED vars \/ Aside \/ \E r \in Request : Sole(r) /\ TakesPart(r)
  <1>1. ASSUME \A r \in Request : req[r] = Idle, UNCHANGED req,
               \/ Drafting
               \/ \E a \in Account, amount \in PayAmount : ManualExpense(a, amount)
               \/ \E id \in 1..Len(entries) :
                     \/ ManualDelete(id)
                     \/ \E kind \in Kind, amount \in PayAmount : ManualUpdate(id, kind, amount)
        PROVE  Aside
    <2>1. \A o \in Request : req'[o].step \notin Cancelling /\ req[o].step \notin {"reverse", "link"}
      BY <1>1 DEF Idle, Cancelling
    <2>2. UNCHANGED <<lastNumber, moves, payments>> /\ (UNCHANGED sales \/ Drafting)
      BY <1>1, ClientsWrite
    <2> QED BY <2>1, <2>2, AsideTable DEF Aside
  <1>2. ASSUME NEW r \in Request, Sole(r), Starts(r) PROVE Aside \/ TakesPart(r)
    BY <1>2, StartsAside DEF TakesPart
  <1> QED BY <1>1, <1>2, SerialCases, WorksAside

-----------------------------------------------------------------------------
(* Each kind of step keeps what annulments keep.                           *)

(* A step aside of annulments. *)
LEMMA AsideAnnulments ==
    ASSUME Annulments, Aside
    PROVE  Annulments'
  <1>1. ASSUME NEW r \in Request PROVE Reverses(req[r])'
    BY DEF Aside, Reverses, Cancelling
  <1>2. ASSUME NEW s \in 1..Len(sales'), sales'[s].number # NoNumber
        PROVE  /\ sales'[s].status = "Confirmed" => NothingBack(moves', sales'[s])
               /\ sales'[s].status = "Cancelled" =>
                      AllBack(moves', sales'[s]) /\ AllRefunded(payments', s)
    <2>1. /\ s \in 1..Len(sales) /\ sales'[s].number = sales[s].number
          /\ sales'[s].lines = sales[s].lines /\ sales'[s].status = sales[s].status
          /\ UNCHANGED <<moves, payments>> /\ Numbered(s) /\ ~ Under(s)
      BY <1>2 DEF Aside, Numbered, Under
    <2>2. /\ sales[s].status = "Confirmed" => NothingBack(moves, sales[s])
          /\ sales[s].status = "Cancelled" => AllBack(moves, sales[s]) /\ AllRefunded(payments, s)
      BY <2>1 DEF Annulments, Settled
    <2> QED BY <2>1, <2>2 DEF NothingBack, AllBack
  <1> QED BY <1>1, <1>2 DEF Annulments, Settled, Numbered

(* The lines read are all that stock has to take back. *)
LEMMA AllLeft ==
    ASSUME NEW lines \in Seq(Line), NEW p \in Tracked
    PROVE  LinesLeft(lines, {i \in 1..Len(lines) : lines[i].product \in Tracked}, p)
               = Demand(lines, p)
  <1> DEFINE ids == {i \in 1..Len(lines) : lines[i].product \in Tracked}
  <1>1. \A i \in 1..Len(lines) : i \in ids \/ UnitsOf(Line, p)[lines[i]] = 0
    <2> SUFFICES ASSUME NEW i \in 1..Len(lines), i \notin ids
                 PROVE  UnitsOf(Line, p)[lines[i]] = 0
      OBVIOUS
    <2>1. PICK line \in Line : line = lines[i]
      BY ElementOfSeq
    <2> QED BY <2>1 DEF UnitsOf, Units
  <1> HIDE DEF ids
  <1>2. PickedSum(UnitsOf(Line, p), lines, ids) = RowSum(UnitsOf(Line, p), lines)
    BY <1>1, PickedAll
  <1> QED BY <1>2, DemandIsSum DEF LinesLeft, ids

(* The sales stay settled where only an annulment under way changes. *)
LEMMA SettledStays ==
    ASSUME Annulments, NEW r \in Request, Sole(r), NEW st, Becomes(r, st), TypeOK,
           req[r].step \in {"reverse", "link"} =>
               st.step \in {"reverse", "link"} /\ st.sale = req[r].sale,
           UNCHANGED <<sales, moves, payments>>
    PROVE  \A s \in 1..Len(sales) : Settled(s)'
  <1>1. /\ req'[r] = st
        /\ \A o \in Request : o # r => req[o] = Idle /\ req'[o] = Idle
    BY SoleBecomes
  <1>2. ASSUME NEW s \in 1..Len(sales), Under(s) PROVE UnderAfter(s)
    BY <1>1, <1>2 DEF Under, UnderAfter, Idle
  <1> QED BY <1>2 DEF Annulments, Settled, Numbered, Under, UnderAfter

(* The annulment under way goes on to what an annulment keeps. *)
LEMMA ReversesNext ==
    ASSUME TypeOK, NEW r \in Request, Sole(r), NEW st, Becomes(r, st), Reverses(st)'
    PROVE  \A o \in Request : Reverses(req[o])'
  <1>1. /\ req'[r] = st
        /\ \A o \in Request : o # r => req[o] = Idle /\ req'[o] = Idle
    BY SoleBecomes
  <1>2. Reverses(Idle)'
    BY DEF Reverses, Idle, Cancelling
  <1>3. ASSUME NEW o \in Request PROVE Reverses(req[o])'
    <2>1. PICK q : q = req'[o]
      OBVIOUS
    <2>2. Reverses(q)'
      BY <1>1, <1>2, <2>1
    <2> QED BY <2>1, <2>2 DEF Reverses
  <1> QED BY <1>3

(* An annulment starts with all goods and all payments before it. *)
LEMMA AnnulsAnnulments ==
    ASSUME Typed, Annulments, NEW r \in Request, NEW s \in 1..Len(sales), Sole(r), Annuls(r, s)
    PROVE  Annulments'
  <1>1. PICK st : st = ToReverse(s)
    OBVIOUS
  <1>2. /\ st.step = "cancelCheck" /\ st.sale = s /\ st.pays = PaymentsOf(s)
        /\ st.lines = {i \in 1..Len(sales[s].lines) : sales[s].lines[i].product \in Tracked}
    BY <1>1 DEF ToReverse
  <1>3. /\ Becomes(r, st) /\ UNCHANGED <<sales, moves, payments, entries>>
        /\ ~ Under(s) /\ sales[s].status = "Confirmed" /\ req[r] = Idle /\ TypeOK
    BY <1>1 DEF Annuls, Unwritten, Under, Idle, Typed
  <1>4. GoodsOf(sales, moves, st)
    <2> SUFFICES ASSUME NEW p \in Tracked
                 PROVE  ReturnedIn(moves, sales[s].number, p)
                          + LinesLeft(sales[s].lines, st.lines, p) = Demand(sales[s].lines, p)
      BY <1>2 DEF GoodsOf
    <2>1. NothingBack(moves, sales[s])
      BY <1>3 DEF Annulments, Settled, Typed
    <2>2. PICK lines \in Seq(Line) : lines = sales[s].lines
      <3>1. sales[s] \in Sale
        BY <1>3, ElementOfSeq DEF TypeOK
      <3> QED BY <3>1 DEF Sale
    <2>3. LinesLeft(lines, st.lines, p) = Demand(lines, p)
      BY <1>2, <2>2, AllLeft
    <2>4. Demand(lines, p) \in Nat
      <3>1. RowSum(UnitsOf(Line, p), lines) \in Nat
        BY UnitsNat, RowSumNat
      <3> QED BY <3>1, DemandIsSum
    <2> QED BY <2>1, <2>2, <2>3, <2>4 DEF NothingBack
  <1>5. MoneyOf(payments, st)
    BY <1>2 DEF MoneyOf, PaymentsOf, IsOf
  <1>6. Reverses(st)'
    BY <1>2, <1>3, <1>4, <1>5 DEF Reverses
  <1>7. \A t \in 1..Len(sales) : Settled(t)'
    BY <1>3, SettledStays DEF Idle
  <1> QED BY <1>3, <1>6, <1>7, ReversesNext DEF Annulments

(* The balance check covers all refunds together. *)
LEMMA CheckAnnulments ==
    ASSUME Typed, Annulments, NEW r \in Request, Sole(r), CancelCheck(r)
    PROVE  Annulments'
  <1>1. PICK q : q = req[r]
    OBVIOUS
  <1>2. q \in RequestState /\ Reverses(q) /\ q.step = "cancelCheck" /\ TypeOK
    BY <1>1, RequestShape DEF Typed, Annulments, CancelCheck
  <1>3. PICK st : st = [q EXCEPT !.step = "reverse"]
    OBVIOUS
  <1>4. /\ Becomes(r, st) /\ UNCHANGED <<sales, moves, payments, entries>>
    BY <1>1, <1>3 DEF CancelCheck, Unwritten
  <1>5. st.step = "reverse" /\ st.sale = q.sale /\ st.lines = q.lines /\ st.pays = q.pays
    BY <1>2, <1>3 DEF RequestState, Idle
  <1>6. GoodsOf(sales, moves, st) /\ MoneyOf(payments, st)
    BY <1>2, <1>5 DEF Reverses, Cancelling, GoodsOf, MoneyOf
  <1>7. CoverOf(payments, entries, st)
    <2> SUFFICES ASSUME NEW a \in Account
                 PROVE  \/ RefundsIn(payments, q.pays, a) = 0
                        \/ Solvent(BalanceIn(entries, a) - RefundsIn(payments, q.pays, a))
      BY <1>5 DEF CoverOf, Left
    <2>1. Refunds(q.pays, a) = 0 \/ Solvent(Balance(a) - Refunds(q.pays, a))
      BY <1>1 DEF CancelCheck
    <2>2. Refunds(q.pays, a) = RefundsIn(payments, q.pays, a)
      BY <1>2, RefundsIsSum DEF TypeOK
    <2>3. Balance(a) = BalanceIn(entries, a)
      <3>1. entries \in Seq(Entry)
        BY <1>2 DEF TypeOK
      <3>2. Balance(a) = BalanceSum(entries, a)
        BY DEF Balance, BalanceSum
      <3> QED BY <3>1, <3>2, BalanceIsSum
    <2> QED BY <2>1, <2>2, <2>3
  <1>8. Reverses(st)'
    BY <1>4, <1>5, <1>6, <1>7 DEF Reverses
  <1>9. \A t \in 1..Len(sales) : Settled(t)'
    BY <1>1, <1>2, <1>4, SettledStays
  <1> QED BY <1>2, <1>4, <1>8, <1>9, ReversesNext DEF Annulments

(* A line that comes back is one line less to return. *)
LEMMA ReturnAnnulments ==
    ASSUME Typed, Held, Annulments, NumbersInOrder, NEW r \in Request, Sole(r), ReturnLine(r)
    PROVE  Annulments'
  <1>1. PICK q : q = req[r]
    OBVIOUS
  <1>2. /\ q \in RequestState /\ Reverses(q) /\ q.step = "reverse" /\ TypeOK
        /\ sales[q.sale].status = "Confirmed"
    BY <1>1, RequestShape DEF Typed, Annulments, ReturnLine, Held, Holds, Cancelling
  <1>3. PICK s \in 1..Len(sales), i \in Nat, m \in Move :
              /\ s = q.sale /\ i = First(q.lines) /\ i \in q.lines
              /\ i \in 1..Len(sales[s].lines) /\ Numbered(s)
              /\ m.product = sales[s].lines[i].product /\ m.qty = sales[s].lines[i].qty
              /\ m.out = FALSE /\ m.number = sales[s].number
              /\ moves' = Append(moves, m)
    BY <1>1, ReturnedMove
  <1>4. PICK st : st = [q EXCEPT !.lines = q.lines \ {i}]
    OBVIOUS
  <1>5. Becomes(r, st) /\ UNCHANGED <<sales, payments, entries>>
    BY <1>1, <1>3, <1>4 DEF ReturnLine
  <1>6. /\ st.step = "reverse" /\ st.sale = q.sale /\ st.lines = q.lines \ {i} /\ st.pays = q.pays
    BY <1>2, <1>4 DEF RequestState, Idle
  <1>7. ASSUME NEW n, NEW p
        PROVE  ReturnedIn(moves', n, p) =
                   ReturnedIn(moves, n, p) + (IF n = m.number THEN Units(m, p) ELSE 0)
    <2>1. moves \in Seq(Move)
      BY <1>2 DEF TypeOK
    <2>2. m.out = FALSE /\ moves' = Append(moves, m)
      BY <1>3
    <2> QED BY <2>1, <2>2, MovedReturned
  <1>8. GoodsOf(sales, moves', st)
    <2> SUFFICES ASSUME NEW p \in Tracked
                 PROVE  ReturnedIn(moves', sales[s].number, p)
                          + LinesLeft(sales[s].lines, q.lines \ {i}, p) = Demand(sales[s].lines, p)
      BY <1>3, <1>6 DEF GoodsOf
    <2>1. PICK lines \in Seq(Line) : lines = sales[s].lines
      <3>1. sales[s] \in Sale
        BY <1>2, ElementOfSeq DEF TypeOK
      <3> QED BY <3>1 DEF Sale
    <2>2. PICK n : n = sales[s].number
      OBVIOUS
    <2>3. ReturnedIn(moves, n, p) + LinesLeft(lines, q.lines, p) = Demand(lines, p)
      BY <1>2, <1>3, <2>1, <2>2 DEF Reverses, Cancelling, GoodsOf
    <2>4. ReturnedIn(moves', n, p) = ReturnedIn(moves, n, p) + Units(m, p)
      BY <1>3, <1>7, <2>2
    <2>5. UnitsOf(Line, p)[lines[i]] = Units(m, p)
      <3>1. PICK line \in Line : line = lines[i]
        BY <1>3, <2>1, ElementOfSeq
      <3> QED BY <1>3, <2>1, <3>1 DEF UnitsOf, Units
    <2>6. LinesLeft(lines, q.lines, p) = LinesLeft(lines, q.lines \ {i}, p) + UnitsOf(Line, p)[lines[i]]
      <3>1. UnitsOf(Line, p) \in [Line -> Int] /\ i \in 1..Len(lines) /\ i \in q.lines
        BY <1>3, <2>1, UnitsNat
      <3>2. SplitAt(UnitsOf(Line, p), lines, q.lines, i)
        BY <3>1, PickedLess
      <3> QED BY <3>2 DEF SplitAt, LinesLeft
    <2>7. /\ ReturnedIn(moves, n, p) \in Nat /\ Units(m, p) \in Nat
          /\ LinesLeft(lines, q.lines \ {i}, p) \in Nat
      <3>1. ReturnedIn(moves, n, p) \in Nat
        BY <1>2, FiguresNat DEF TypeOK
      <3>2. LinesLeft(lines, q.lines \ {i}, p) \in Nat
        BY UnitsNat, PickedNat DEF LinesLeft
      <3>3. Units(m, p) \in Nat
        BY SalesAssumption DEF Units, Move
      <3> QED BY <3>1, <3>2, <3>3
    <2> QED BY <2>1, <2>2, <2>3, <2>4, <2>5, <2>6, <2>7
  <1>9. Reverses(st)'
    <2>1. MoneyOf(payments, st)
      BY <1>2, <1>6 DEF Reverses, Cancelling, MoneyOf
    <2>2. CoverOf(payments, entries, st)
      BY <1>2, <1>6 DEF Reverses, CoverOf, Left
    <2> QED BY <1>5, <1>8, <2>1, <2>2 DEF Reverses
  <1>10. UnderAfter(s)
    <2>1. req'[r] = st
      BY <1>2, <1>5, SoleBecomes
    <2> QED BY <1>3, <1>6, <2>1 DEF UnderAfter
  <1>11. ASSUME NEW t \in 1..Len(sales), t # s, Numbered(t)
         PROVE  \A p \in Tracked : ReturnedIn(moves', sales[t].number, p) = ReturnedIn(moves, sales[t].number, p)
    <2>1. sales[t].number # m.number
      BY <1>3, <1>11, NumbersOfSales
    <2>2. ASSUME NEW p \in Tracked PROVE ReturnedIn(moves', sales[t].number, p) = ReturnedIn(moves, sales[t].number, p)
      <3>1. ReturnedIn(moves, sales[t].number, p) \in Nat
        BY <1>2, FiguresNat DEF TypeOK
      <3>2. ReturnedIn(moves', sales[t].number, p) = ReturnedIn(moves, sales[t].number, p) + 0
        BY <1>7, <2>1
      <3> QED BY <3>1, <3>2
    <2> QED BY <2>2
  <1>12. ASSUME NEW t \in 1..Len(sales), t # s, Under(t) PROVE FALSE
    BY <1>1, <1>3, <1>12 DEF Under, Sole, Idle
  <1>13. ASSUME NEW t \in 1..Len(sales), Numbered(t)
         PROVE  /\ sales[t].status = "Confirmed" => UnderAfter(t) \/ NothingBack(moves', sales[t])
                /\ sales[t].status = "Cancelled" =>
                       AllBack(moves', sales[t]) /\ AllRefunded(payments, t)
    <2>1. CASE t = s
      BY <1>2, <1>3, <1>10, <2>1
    <2>2. CASE t # s
      BY <1>11, <1>12, <1>13, <2>2 DEF Annulments, Settled, NothingBack, AllBack
    <2> QED BY <2>1, <2>2
  <1>14. \A t \in 1..Len(sales) : Settled(t)'
    BY <1>5, <1>13 DEF Settled, Numbered, Under, UnderAfter
  <1> QED BY <1>2, <1>5, <1>9, <1>14, ReversesNext DEF Annulments

-----------------------------------------------------------------------------
(* An Expense of an amount lowers the balance of its account by it. *)
LEMMA BalanceExpense ==
    ASSUME NEW rows \in Seq(Entry), NEW e \in Entry, e.kind = "Expense", NEW a
    PROVE  BalanceIn(Append(rows, e), a) =
               BalanceIn(rows, a) - (IF e.account = a THEN e.amount ELSE 0)
  <1>1. BalanceFigure(a) \in [Entry -> Int] /\ BalanceIn(rows, a) \in Int
    BY ReversalFigures, BalanceIsSum
  <1>2. BalanceIn(Append(rows, e), a) = BalanceIn(rows, a) + BalanceFigure(a)[e]
    BY <1>1, RowSumAppend DEF BalanceIn
  <1>3. BalanceFigure(a)[e] = IF e.account = a THEN 0 - e.amount ELSE 0
    BY DEF BalanceFigure, Signed, Entry
  <1>4. e.amount \in Nat
    BY DEF Entry
  <1> QED BY <1>1, <1>2, <1>3, <1>4

\* What refunding payment i takes out of a.
RefundOf(rows, i, a) == IF rows[i].account = a THEN rows[i].amount ELSE 0

(* What is still to refund without payment i, and payment i. *)
LEMMA RefundsSplit ==
    ASSUME NEW rows \in Seq(Payment), NEW ids, NEW i \in 1..Len(rows), i \in ids, NEW a
    PROVE  /\ RefundsIn(rows, ids, a) = RefundsIn(rows, ids \ {i}, a) + RefundOf(rows, i, a)
           /\ RefundsIn(rows, ids \ {i}, a) \in Nat
  <1>1. SplitAt(AmountOn(a), rows, ids, i)
    BY ReversalFigures, PickedLess
  <1>2. AmountOn(a)[rows[i]] = RefundOf(rows, i, a)
    <2>1. rows[i] \in Payment
      BY ElementOfSeq
    <2> QED BY <2>1 DEF AmountOn, RefundOf
  <1>3. RefundsIn(rows, ids \ {i}, a) \in Nat
    BY ReversalFigures, PickedNat DEF RefundsIn
  <1> QED BY <1>1, <1>2, <1>3 DEF SplitAt, RefundsIn

(* A refund is covered, and leaves the others covered. *)
LEMMA CoverLasts ==
    ASSUME NEW pays \in Seq(Payment), NEW rows \in Seq(Entry), NEW ids,
           NEW i \in 1..Len(pays), i \in ids, NEW e \in Entry, e.kind = "Expense",
           e.account = pays[i].account, e.amount = pays[i].amount, NEW a,
           RefundsIn(pays, ids, a) = 0 \/ Solvent(BalanceIn(rows, a) - RefundsIn(pays, ids, a))
    PROVE  /\ \/ RefundsIn(pays, ids \ {i}, a) = 0
              \/ Solvent(BalanceIn(Append(rows, e), a) - RefundsIn(pays, ids \ {i}, a))
           /\ a = pays[i].account => Solvent(BalanceIn(rows, a) - pays[i].amount)
  <1>1. PICK amount \in Nat \ {0} : amount = pays[i].amount /\ amount = e.amount
    BY DEF Entry
  <1>2. PICK rest \in Nat : rest = RefundsIn(pays, ids \ {i}, a)
    BY RefundsSplit
  <1>3. PICK balance \in Int : balance = BalanceIn(rows, a)
    BY BalanceIsSum
  <1>4. RefundsIn(pays, ids, a) = rest + (IF pays[i].account = a THEN amount ELSE 0)
    <2>1. RefundsIn(pays, ids, a) = RefundsIn(pays, ids \ {i}, a) + RefundOf(pays, i, a)
      BY RefundsSplit
    <2>2. RefundOf(pays, i, a) = IF pays[i].account = a THEN amount ELSE 0
      BY <1>1 DEF RefundOf
    <2> QED BY <1>2, <2>1, <2>2
  <1>5. BalanceIn(Append(rows, e), a) = balance - (IF pays[i].account = a THEN amount ELSE 0)
    BY <1>1, <1>3, BalanceExpense
  <1>6. CASE pays[i].account = a
    <2>1. RefundsIn(pays, ids, a) = rest + amount /\ BalanceIn(Append(rows, e), a) = balance - amount
      BY <1>4, <1>5, <1>6
    <2>2. rest + amount # 0
      OBVIOUS
    <2>3. Solvent(balance - (rest + amount))
      BY <1>3, <2>1, <2>2
    <2>4. (balance - amount) - rest = balance - (rest + amount)
      OBVIOUS
    <2>5. Solvent((balance - amount) - rest)
      BY <2>3, <2>4
    <2>6. Solvent(balance - amount)
      BY <2>3 DEF Solvent
    <2> QED BY <1>1, <1>2, <1>3, <2>1, <2>5, <2>6
  <1>7. CASE pays[i].account # a
    <2>1. RefundsIn(pays, ids, a) = rest /\ BalanceIn(Append(rows, e), a) = balance
      BY <1>4, <1>5, <1>7
    <2> QED BY <1>2, <1>3, <1>7, <2>1
  <1> QED BY <1>6, <1>7

(* The refund posted next is covered, and what remains stays so. *)
LEMMA PostAnnulments ==
    ASSUME Typed, Annulments, NEW r \in Request, Sole(r), RefundPost(r)
    PROVE  Annulments'
  <1>1. PICK q : q = req[r]
    OBVIOUS
  <1>2. /\ q \in RequestState /\ Reverses(q) /\ q.step = "reverse" /\ q.lines = {} /\ q.pays # {}
        /\ q.pays \in SUBSET Nat /\ q.pays \subseteq 1..Len(payments) /\ Numbered(q.sale)
        /\ q.sale \in 1..Len(sales)
        /\ TypeOK
    BY <1>1, RequestShape DEF Typed, Annulments, RefundPost, Relies, Cancelling, Posting
  <1>3. PICK i \in 1..Len(payments) : i = First(q.pays) /\ i \in q.pays
    BY <1>2, FirstIn
  <1>4. PICK pay \in Payment : pay = payments[i]
    BY <1>2, ElementOfSeq DEF TypeOK
  <1>5. PICK e : e = [kind |-> "Expense", account |-> pay.account, amount |-> pay.amount,
                      number |-> sales[q.sale].number]
    OBVIOUS
  <1>6. PICK st : st = [step |-> "link", sale |-> q.sale, lines |-> {}, pays |-> q.pays,
                        tx |-> Len(entries) + 1]
    OBVIOUS
  <1>7. /\ e \in Entry /\ e.kind = "Expense" /\ e.account = pay.account /\ e.amount = pay.amount
    <2>1. sales[q.sale] \in Sale
      BY <1>2, ElementOfSeq DEF TypeOK
    <2> QED BY <1>5, <2>1 DEF Entry, Payment, Sale, Kind
  <1>8. /\ UNCHANGED <<sales, moves, payments>>
        /\ IF Solvent(Balance(pay.account) - pay.amount)
           THEN entries' = Append(entries, e) /\ Becomes(r, st)
           ELSE Becomes(r, Idle) /\ UNCHANGED entries
    BY <1>1, <1>3, <1>4, <1>5, <1>6 DEF RefundPost
  <1>9. payments \in Seq(Payment) /\ entries \in Seq(Entry)
    BY <1>2 DEF TypeOK
  <1>10. CoverOf(payments, entries, q) /\ Left(q) = q.pays
    BY <1>2 DEF Reverses, Left
  <1>11. ASSUME NEW a \in Account
         PROVE  /\ \/ RefundsIn(payments, q.pays \ {i}, a) = 0
                   \/ Solvent(BalanceIn(Append(entries, e), a) - RefundsIn(payments, q.pays \ {i}, a))
                /\ a = pay.account => Solvent(BalanceIn(entries, a) - pay.amount)
    <2>1. \/ RefundsIn(payments, q.pays, a) = 0
          \/ Solvent(BalanceIn(entries, a) - RefundsIn(payments, q.pays, a))
      BY <1>10 DEF CoverOf
    <2>2. e.account = payments[i].account /\ e.amount = payments[i].amount /\ i \in q.pays
      BY <1>3, <1>4, <1>7
    <2>3. /\ \/ RefundsIn(payments, q.pays \ {i}, a) = 0
             \/ Solvent(BalanceIn(Append(entries, e), a) - RefundsIn(payments, q.pays \ {i}, a))
          /\ a = payments[i].account => Solvent(BalanceIn(entries, a) - payments[i].amount)
      BY <1>7, <1>9, <2>1, <2>2, CoverLasts
    <2> QED BY <1>4, <2>3
  <1>12. Solvent(Balance(pay.account) - pay.amount)
    <2>1. pay.account \in Account
      BY DEF Payment
    <2>2. Balance(pay.account) = BalanceIn(entries, pay.account)
      <3>1. Balance(pay.account) = BalanceSum(entries, pay.account)
        BY DEF Balance, BalanceSum
      <3> QED BY <1>9, <3>1, BalanceIsSum
    <2> QED BY <1>11, <2>1, <2>2
  <1>13. entries' = Append(entries, e) /\ Becomes(r, st)
    BY <1>8, <1>12
  <1>14. /\ st.step = "link" /\ st.sale = q.sale /\ st.lines = q.lines /\ st.pays = q.pays
    BY <1>2, <1>6
  <1>15. CoverOf(payments, entries', st)
    <2>1. Left(st) = q.pays \ {i}
      BY <1>3, <1>14 DEF Left
    <2> QED BY <1>11, <1>13, <2>1 DEF CoverOf
  <1>16. GoodsOf(sales, moves, st) /\ MoneyOf(payments, st)
    BY <1>2, <1>14 DEF Reverses, Cancelling, GoodsOf, MoneyOf
  <1>17. Reverses(st)'
    BY <1>8, <1>15, <1>16 DEF Reverses
  <1>18. \A t \in 1..Len(sales) : Settled(t)'
    BY <1>1, <1>2, <1>8, <1>13, <1>14, SettledStays
  <1> QED BY <1>2, <1>8, <1>13, <1>17, <1>18, ReversesNext DEF Annulments

(* A refund linked is one payment less to refund. *)
LEMMA LinkAnnulments ==
    ASSUME Typed, Annulments, NEW r \in Request, Sole(r), RefundLink(r)
    PROVE  Annulments'
  <1>1. PICK q : q = req[r]
    OBVIOUS
  <1>2. /\ q \in RequestState /\ Reverses(q) /\ q.step = "link" /\ q.lines = {} /\ TypeOK
    BY <1>1, RequestShape DEF Typed, Annulments, RefundLink
  <1>3. PICK i \in 1..Len(payments), pay \in Payment :
              /\ i = First(q.pays) /\ i \in q.pays
              /\ pay.sale = payments[i].sale /\ pay.amount = payments[i].amount
              /\ pay.account = payments[i].account /\ pay.refund # 0
              /\ payments' = [payments EXCEPT ![i] = pay]
    BY <1>1, RefundLinked
  <1>4. PICK st : st = [step |-> "reverse", sale |-> q.sale, lines |-> {}, pays |-> q.pays \ {i}]
    OBVIOUS
  <1>5. Becomes(r, st) /\ UNCHANGED <<sales, moves, entries>>
    BY <1>1, <1>3, <1>4 DEF RefundLink
  <1>6. /\ st.step = "reverse" /\ st.sale = q.sale /\ st.lines = q.lines /\ st.pays = q.pays \ {i}
    BY <1>2, <1>4
  <1>7. /\ payments \in Seq(Payment) /\ Len(payments') = Len(payments)
        /\ payments'[i] = pay /\ \A k \in 1..Len(payments) : k # i => payments'[k] = payments[k]
    BY <1>2, <1>3 DEF TypeOK
  <1>8. GoodsOf(sales, moves, st)
    BY <1>2, <1>6 DEF Reverses, Cancelling, GoodsOf
  <1>9. MoneyOf(payments', st)
    <2>1. MoneyOf(payments, q)
      BY <1>2 DEF Reverses, Cancelling
    <2>2. ASSUME NEW k \in 1..Len(payments), payments'[k].sale = q.sale
          PROVE  payments'[k].refund # 0 \/ k \in q.pays \ {i}
      BY <1>3, <1>7, <2>1, <2>2 DEF MoneyOf
    <2> QED BY <1>6, <1>7, <2>2 DEF MoneyOf
  <1>10. CoverOf(payments', entries, st)
    <2>1. CoverOf(payments, entries, q) /\ Left(q) = q.pays \ {i} /\ Left(st) = q.pays \ {i}
      BY <1>2, <1>3, <1>6 DEF Reverses, Left
    <2>2. ASSUME NEW a PROVE RefundsIn(payments', q.pays \ {i}, a) = RefundsIn(payments, q.pays \ {i}, a)
      <3>1. ASSUME NEW k \in 1..Len(payments) PROVE AmountOn(a)[payments[k]] = AmountOn(a)[payments'[k]]
        <4>1. PICK old \in Payment : old = payments[k]
          BY <1>7, ElementOfSeq
        <4>2. CASE k = i
          <5>1. old.account = pay.account /\ old.amount = pay.amount /\ payments'[k] = pay
            BY <1>3, <1>7, <4>1, <4>2
          <5> QED BY <4>1, <5>1 DEF AmountOn
        <4> QED BY <1>7, <4>2
      <3>2. SameFigures(AmountOn(a), payments, AmountOn(a), payments')
        BY <1>7, <3>1 DEF SameFigures
      <3> QED BY <1>7, <3>2, PickedSame DEF RefundsIn
    <2> QED BY <2>1, <2>2 DEF CoverOf
  <1>11. Reverses(st)'
    BY <1>5, <1>8, <1>9, <1>10 DEF Reverses
  <1>12. ASSUME NEW s, AllRefunded(payments, s) PROVE AllRefunded(payments', s)
    BY <1>3, <1>7, <1>12 DEF AllRefunded
  <1>13. ASSUME NEW s \in 1..Len(sales), Under(s) PROVE UnderAfter(s)
    <2>1. /\ req'[r] = st
          /\ \A o \in Request : o # r => req[o] = Idle
      BY <1>2, <1>5, SoleBecomes
    <2> QED BY <1>1, <1>6, <1>13, <2>1 DEF Under, UnderAfter, Idle
  <1>14. \A t \in 1..Len(sales) : Settled(t)'
    BY <1>5, <1>12, <1>13 DEF Annulments, Settled, Numbered, Under, UnderAfter
  <1> QED BY <1>2, <1>5, <1>11, <1>14, ReversesNext DEF Annulments

(* A closed annulment has returned and refunded everything. *)
LEMMA CloseAnnulments ==
    ASSUME Typed, Held, Annulments, NEW r \in Request, Sole(r), CancelClose(r)
    PROVE  Annulments'
  <1>1. PICK q : q = req[r]
    OBVIOUS
  <1>2. /\ Reverses(q) /\ q.step = "reverse" /\ q.lines = {} /\ q.pays = {} /\ TypeOK
        /\ q.sale \in 1..Len(sales) /\ Numbered(q.sale)
    BY <1>1, RequestShape DEF Typed, Annulments, CancelClose, Relies, Cancelling, Posting
  <1>3. PICK s \in 1..Len(sales) : s = q.sale
    BY <1>2
  <1>4. PICK sale \in Sale : sale = sales[s]
    BY <1>2, ElementOfSeq DEF TypeOK
  <1>5. PICK x : x = [sale EXCEPT !.status = "Cancelled"]
    OBVIOUS
  <1>6. /\ Becomes(r, Idle) /\ UNCHANGED <<moves, payments>> /\ sales' = [sales EXCEPT ![s] = x]
    BY <1>1, <1>3, <1>4, <1>5 DEF CancelClose, Rewrite
  <1>7. /\ x.status = "Cancelled" /\ x.number = sale.number /\ x.lines = sale.lines
        /\ Len(sales') = Len(sales) /\ sales'[s] = x
        /\ \A t \in 1..Len(sales) : t # s => sales'[t] = sales[t]
    <2>1. sales \in Seq(Sale)
      BY <1>2 DEF TypeOK
    <2> QED BY <1>5, <1>6, <2>1 DEF Sale
  <1>8. AllBack(moves, sale)
    <2> SUFFICES ASSUME NEW p \in Tracked
                 PROVE  ReturnedIn(moves, sale.number, p) = Demand(sale.lines, p)
      BY DEF AllBack
    <2>1. ReturnedIn(moves, sale.number, p) + LinesLeft(sale.lines, {}, p) = Demand(sale.lines, p)
      BY <1>2, <1>3, <1>4 DEF Reverses, Cancelling, GoodsOf
    <2>2. LinesLeft(sale.lines, {}, p) = 0
      BY PickedNone DEF LinesLeft, Sale
    <2>3. ReturnedIn(moves, sale.number, p) \in Nat
      BY <1>2, FiguresNat DEF TypeOK
    <2> QED BY <2>1, <2>2, <2>3
  <1>9. AllRefunded(payments, s)
    BY <1>2, <1>3 DEF Reverses, Cancelling, MoneyOf, AllRefunded
  <1>10. ASSUME NEW t \in 1..Len(sales), t # s, Under(t) PROVE FALSE
    BY <1>1, <1>3, <1>10 DEF Under, Sole, Idle
  <1>11. ASSUME NEW t \in 1..Len(sales), sales'[t].number # NoNumber
         PROVE  /\ sales'[t].status = "Confirmed" => NothingBack(moves, sales'[t])
                /\ sales'[t].status = "Cancelled" =>
                       AllBack(moves, sales'[t]) /\ AllRefunded(payments, t)
    <2>1. CASE t = s
      BY <1>7, <1>8, <1>9, <2>1 DEF AllBack
    <2>2. CASE t # s
      BY <1>7, <1>10, <1>11, <2>2 DEF Annulments, Settled, Numbered
    <2> QED BY <2>1, <2>2
  <1>12. \A t \in 1..Len(sales') : Settled(t)'
    BY <1>6, <1>7, <1>11 DEF Settled, Numbered
  <1>13. Reverses(Idle)'
    BY DEF Reverses, Idle, Cancelling
  <1> QED BY <1>2, <1>6, <1>12, <1>13, ReversesNext DEF Annulments

-----------------------------------------------------------------------------
(* Where no annulment is under way before or after a step, each sale has   *)
(* what it had.                                                            *)
LEMMA IdleAnnulments ==
    ASSUME Typed, Annulments, NEW r \in Request, Sole(r), Becomes(r, Idle),
           req[r].step \notin {"reverse", "link"},
           \A s \in 1..Len(sales') : sales'[s].number # NoNumber =>
               /\ sales'[s].status = "Confirmed" => NothingBack(moves', sales'[s])
               /\ sales'[s].status = "Cancelled" =>
                      AllBack(moves', sales'[s]) /\ AllRefunded(payments', s)
    PROVE  Annulments'
  <1>1. Reverses(Idle)'
    BY DEF Reverses, Idle, Cancelling
  <1>2. \A s \in 1..Len(sales') : Settled(s)'
    BY DEF Settled, Numbered
  <1> QED BY <1>1, <1>2, ReversesNext DEF Annulments, Typed

(* Nothing of a sale comes back before an annulment of it is past its check. *)
LEMMA NotUnder ==
    ASSUME Annulments, NEW r \in Request, Sole(r), req[r].step \notin {"reverse", "link"},
           NEW s \in 1..Len(sales), Numbered(s)
    PROVE  /\ sales[s].status = "Confirmed" => NothingBack(moves, sales[s])
           /\ sales[s].status = "Cancelled" => AllBack(moves, sales[s]) /\ AllRefunded(payments, s)
  <1>1. ~ Under(s)
    BY DEF Under, Sole, Idle
  <1> QED BY <1>1 DEF Annulments, Settled

(* A payment is of a sale that is not annulled. *)
LEMMA PayAnnulments ==
    ASSUME Typed, Held, Annulments, NEW r \in Request, Sole(r), PayLink(r)
    PROVE  Annulments'
  <1>1. PICK q : q = req[r]
    OBVIOUS
  <1>2. q.step = "payLink" /\ Becomes(r, Idle) /\ UNCHANGED <<sales, moves>>
        /\ sales[q.sale].status = "Confirmed"
    BY <1>1 DEF PayLink, Held, Holds
  <1>3. PICK pay \in Payment : pay.sale = q.sale /\ payments' = Append(payments, pay)
    BY <1>1, PayLinked
  <1>4. /\ Len(payments') = Len(payments) + 1 /\ Len(payments) \in Nat
        /\ payments'[Len(payments) + 1] = pay
        /\ \A i \in 1..Len(payments) : payments'[i] = payments[i]
    <2>1. payments \in Seq(Payment)
      BY DEF Typed, TypeOK
    <2> QED BY <1>3, <2>1
  <1>5. ASSUME NEW s, sales[s].status = "Cancelled", AllRefunded(payments, s)
        PROVE  AllRefunded(payments', s)
    <2>1. ASSUME NEW i \in 1..Len(payments'), payments'[i].sale = s PROVE payments'[i].refund # 0
      <3>1. i \in 1..Len(payments)
        BY <1>2, <1>3, <1>4, <1>5, <2>1
      <3> QED BY <1>4, <1>5, <2>1, <3>1 DEF AllRefunded
    <2> QED BY <2>1 DEF AllRefunded
  <1>6. ASSUME NEW s \in 1..Len(sales), Numbered(s)
        PROVE  /\ sales[s].status = "Confirmed" => NothingBack(moves, sales[s])
               /\ sales[s].status = "Cancelled" =>
                      AllBack(moves, sales[s]) /\ AllRefunded(payments', s)
    BY <1>1, <1>2, <1>5, <1>6, NotUnder
  <1> QED BY <1>1, <1>2, <1>6, IdleAnnulments DEF Numbered

(* Nothing has come back of a sale just confirmed. *)
LEMMA ConfirmAnnulments ==
    ASSUME Typed, Held, NumbersInOrder, LedgersKnown, Annulments,
           NEW r \in Request, Sole(r), NEW a \in Account, ConfirmUnit(r, a)
    PROVE  Annulments'
  <1>1. PICK s, number : Confirms(s, number, a)
    BY ConfirmsRead
  <1>2. /\ s \in 1..Len(sales) /\ sales[s].lines \in Seq(Line) /\ Len(sales') = Len(sales)
        /\ sales'[s].status = "Confirmed" /\ sales'[s].number = number
        /\ \A t \in 1..Len(sales) : t # s => sales'[t] = sales[t]
    BY <1>1, ConfirmedTable
  <1>3. /\ number \in Number /\ number # NoNumber /\ ShipLines(sales[s].lines, number)
        /\ \A u \in 1..Len(sales) : sales[u].number # number
        /\ sales[s].status = "Draft"
    BY <1>1 DEF Confirms
  <1>4. ASSUME NEW n, NEW p \in Tracked PROVE ReturnedIn(moves', n, p) = ReturnedIn(moves, n, p)
    <2>1. moves \in Seq(Move)
      BY DEF Typed, TypeOK
    <2> QED BY <1>2, <1>3, <2>1, MovedShipped
  <1>5. NothingBack(moves', sales'[s])
    <2>1. \A p \in Tracked : ReturnedIn(moves, number, p) = 0
      BY <1>3, MovedUnknown
    <2> QED BY <1>2, <1>4, <2>1 DEF NothingBack
  <1>6. ASSUME NEW t, t # s, AllRefunded(payments, t) PROVE AllRefunded(payments', t)
    <2>1. CASE UNCHANGED payments
      BY <1>6, <2>1
    <2>2. ASSUME NEW pay \in Payment, pay.sale = s, payments' = Append(payments, pay)
          PROVE  AllRefunded(payments', t)
      <3>1. /\ Len(payments') = Len(payments) + 1 /\ Len(payments) \in Nat
            /\ payments'[Len(payments) + 1] = pay
            /\ \A i \in 1..Len(payments) : payments'[i] = payments[i]
        <4>1. payments \in Seq(Payment)
          BY DEF Typed, TypeOK
        <4> QED BY <2>2, <4>1
      <3>2. ASSUME NEW i \in 1..Len(payments'), payments'[i].sale = t PROVE payments'[i].refund # 0
        <4>1. i \in 1..Len(payments)
          BY <1>6, <2>2, <3>1, <3>2
        <4> QED BY <1>6, <3>1, <3>2, <4>1 DEF AllRefunded
      <3> QED BY <3>2 DEF AllRefunded
    <2> QED BY <1>1, <2>1, <2>2 DEF Confirms
  <1>7. ASSUME NEW t \in 1..Len(sales'), sales'[t].number # NoNumber
        PROVE  /\ sales'[t].status = "Confirmed" => NothingBack(moves', sales'[t])
               /\ sales'[t].status = "Cancelled" =>
                      AllBack(moves', sales'[t]) /\ AllRefunded(payments', t)
    <2>1. CASE t = s
      BY <1>2, <1>5, <2>1
    <2>2. CASE t # s
      <3>1. sales'[t] = sales[t] /\ t \in 1..Len(sales) /\ Numbered(t)
        BY <1>2, <1>7, <2>2 DEF Numbered
      <3>2. /\ sales[t].status = "Confirmed" => NothingBack(moves, sales[t])
            /\ sales[t].status = "Cancelled" => AllBack(moves, sales[t]) /\ AllRefunded(payments, t)
        BY <3>1, NotUnder DEF ConfirmUnit
      <3> QED BY <1>4, <1>6, <2>2, <3>1, <3>2 DEF NothingBack, AllBack
    <2> QED BY <2>1, <2>2
  <1>8. Becomes(r, Idle) /\ req[r].step \notin {"reverse", "link"}
    BY DEF ConfirmUnit
  <1> QED BY <1>7, <1>8, IdleAnnulments

(* Where requests are served one at a time and do not fail, every step     *)
(* keeps what annulments keep.                                             *)
LEMMA AnnulmentsStep ==
    /\ OneAtATime /\ ~ MayFail
    /\ Typed /\ Alone /\ Held /\ NumbersInOrder /\ LedgersKnown /\ Annulments /\ [Next]_vars
    => Annulments'
  <1> SUFFICES ASSUME OneAtATime, ~ MayFail, Typed, Alone, Held, NumbersInOrder, LedgersKnown,
                      Annulments, [Next]_vars
               PROVE  Annulments'
    OBVIOUS
  <1>1. CASE UNCHANGED vars
    BY <1>1 DEF vars, Annulments, Reverses, Settled, Under, Numbered
  <1>2. CASE Aside
    BY <1>2, AsideAnnulments
  <1>3. ASSUME NEW r \in Request, Sole(r), TakesPart(r) PROVE Annulments'
    BY <1>3, AnnulsAnnulments, CheckAnnulments, ReturnAnnulments, PostAnnulments,
       LinkAnnulments, CloseAnnulments, PayAnnulments, ConfirmAnnulments DEF TakesPart
  <1> QED BY <1>1, <1>2, <1>3, SerialTurn

(* What annulments keep says what comes back of a sale. *)
LEMMA AnnulmentsMean ==
    ASSUME Typed, Annulments, ShippedAsSold
    PROVE  AnnulledReversed /\ ReturnedOnce
  <1>1. /\ moves \in Seq(Move) /\ sales \in Seq(Sale) /\ payments \in Seq(Payment)
        /\ \A s \in 1..Len(sales) : sales[s] \in Sale /\ sales[s].lines \in Seq(Line)
    <2>1. moves \in Seq(Move) /\ sales \in Seq(Sale) /\ payments \in Seq(Payment)
      BY DEF Typed, TypeOK
    <2>2. \A s \in 1..Len(sales) : sales[s] \in Sale
      BY <2>1, ElementOfSeq
    <2> QED BY <2>1, <2>2 DEF Sale
  <1>2. ASSUME NEW s \in 1..Len(sales), NEW p \in Tracked
        PROVE  /\ ReturnedIn(moves, sales[s].number, p) \in Nat
               /\ Demand(sales[s].lines, p) \in Nat
    <2>1. ReturnedIn(moves, sales[s].number, p) \in Nat
      BY <1>1, FiguresNat
    <2>2. Demand(sales[s].lines, p) \in Nat
      <3>1. RowSum(UnitsOf(Line, p), sales[s].lines) \in Nat
        BY <1>1, UnitsNat, RowSumNat
      <3> QED BY <1>1, <3>1, DemandIsSum
    <2> QED BY <2>1, <2>2
  <1>3. ASSUME NEW s \in 1..Len(sales), NEW p \in Tracked, Numbered(s), Under(s)
        PROVE  ReturnedIn(moves, sales[s].number, p) <= Demand(sales[s].lines, p)
    <2>1. PICK r \in Request : req[r].step \in {"reverse", "link"} /\ req[r].sale = s
      BY <1>3 DEF Under
    <2>2. PICK q : q = req[r]
      OBVIOUS
    <2>3. GoodsOf(sales, moves, q) /\ q.sale = s
      BY <2>1, <2>2 DEF Annulments, Reverses, Cancelling
    <2>4. ReturnedIn(moves, sales[s].number, p) + LinesLeft(sales[s].lines, q.lines, p)
              = Demand(sales[s].lines, p)
      BY <2>3 DEF GoodsOf
    <2>5. LinesLeft(sales[s].lines, q.lines, p) \in Nat
      BY <1>1, UnitsNat, PickedNat DEF LinesLeft
    <2> QED BY <1>2, <1>3, <2>4, <2>5
  <1>4. ASSUME NEW s \in 1..Len(sales), Numbered(s)
        PROVE  /\ sales[s].status = "Confirmed" => Under(s) \/ NothingBack(moves, sales[s])
               /\ sales[s].status = "Cancelled" =>
                      AllBack(moves, sales[s]) /\ AllRefunded(payments, s)
               /\ sales[s].status \in {"Confirmed", "Cancelled"}
    BY <1>1, <1>4 DEF Annulments, Settled, Typed, Sale, Status
  <1>5. AnnulledReversed
    <2> SUFFICES ASSUME NEW s \in 1..Len(sales), sales[s].status = "Cancelled", Numbered(s)
                 PROVE  /\ \A p \in Tracked : MovedBy(sales[s].number, p, FALSE) =
                                              MovedBy(sales[s].number, p, TRUE)
                        /\ \A i \in PaymentsOf(s) : payments[i].refund # 0
      BY DEF AnnulledReversed
    <2>1. AllBack(moves, sales[s]) /\ AllRefunded(payments, s)
      BY <1>4
    <2>2. ASSUME NEW p \in Tracked
          PROVE  MovedBy(sales[s].number, p, FALSE) = MovedBy(sales[s].number, p, TRUE)
      <3>1. ReturnedIn(moves, sales[s].number, p) = Demand(sales[s].lines, p)
        BY <2>1 DEF AllBack
      <3>2. MovedBy(sales[s].number, p, FALSE) = ReturnedIn(moves, sales[s].number, p)
        BY <1>1, MovedIsSum DEF MovedBy, MovedIn
      <3>3. MovedBy(sales[s].number, p, TRUE) = Demand(sales[s].lines, p)
        BY DEF ShippedAsSold
      <3> QED BY <3>1, <3>2, <3>3
    <2> QED BY <2>1, <2>2 DEF AllRefunded, PaymentsOf, IsOf
  <1>6. ReturnedOnce
    <2> SUFFICES ASSUME NEW s \in 1..Len(sales), NEW p \in Tracked, Numbered(s)
                 PROVE  MovedBy(sales[s].number, p, FALSE) <= MovedBy(sales[s].number, p, TRUE)
      BY DEF ReturnedOnce
    <2>1. ReturnedIn(moves, sales[s].number, p) <= Demand(sales[s].lines, p)
      <3>1. CASE Under(s)
        BY <1>3, <3>1
      <3>2. CASE ReturnedIn(moves, sales[s].number, p) = 0
        BY <1>2, <3>2
      <3>3. CASE ReturnedIn(moves, sales[s].number, p) = Demand(sales[s].lines, p)
        BY <1>2, <3>3
      <3> QED BY <1>4, <3>1, <3>2, <3>3 DEF NothingBack, AllBack
    <2>2. MovedBy(sales[s].number, p, FALSE) = ReturnedIn(moves, sales[s].number, p)
      BY <1>1, MovedIsSum DEF MovedBy, MovedIn
    <2>3. MovedBy(sales[s].number, p, TRUE) = Demand(sales[s].lines, p)
      BY DEF ShippedAsSold
    <2> QED BY <2>1, <2>2, <2>3
  <1> QED BY <1>5, <1>6

(* Where requests are served one at a time and do not fail, it always holds. *)
LEMMA AnnulmentsAlways == OneAtATime /\ ~ MayFail => (Spec => []Annulments)
  <1>1. Init => Annulments
    BY DEF Init, Annulments, Reverses, Idle, Cancelling
  <1>2. CASE OneAtATime /\ ~ MayFail
    <2>1. Typed /\ Alone /\ Held /\ [Next]_vars => Alone' /\ Held'
      BY <1>2, HeldStep
    <2>2. Typed /\ LedgersKnown /\ [Next]_vars => LedgersKnown'
      BY LedgersKnownStep
    <2>3. Typed /\ Alone /\ Held /\ NumbersInOrder /\ LedgersKnown /\ Annulments /\ [Next]_vars
          => Annulments'
      BY <1>2, AnnulmentsStep
    <2>4. Init => LedgersKnown
      BY DEF Init, LedgersKnown
    <2> QED BY <1>1, <2>1, <2>2, <2>3, <2>4, HeldInit, SalesTyped, SaleNumbersDense, PTL DEF Spec
  <1> QED BY <1>2

(* There, an annulled sale is fully reversed: every unit it shipped has    *)
(* come back and every payment is refunded, although each line, refund and *)
(* link is written by itself, for the balance check covers all refunds.    *)
THEOREM SalesAnnulledReversed == OneAtATime /\ ~ MayFail => (Spec => []AnnulledReversed)
  <1>1. CASE OneAtATime /\ ~ MayFail
    <2>1. Typed /\ Annulments /\ ShippedAsSold => AnnulledReversed
      BY AnnulmentsMean
    <2> QED BY <1>1, <2>1, AnnulmentsAlways, SalesShippedAsSold, SalesTyped, PTL
  <1> QED BY <1>1

(* There, no more units of a sale come back than it shipped, at any moment *)
(* of its annulment: a line is returned once.                              *)
THEOREM SalesReturnedOnce == OneAtATime /\ ~ MayFail => (Spec => []ReturnedOnce)
  <1>1. CASE OneAtATime /\ ~ MayFail
    <2>1. Typed /\ Annulments /\ ShippedAsSold => ReturnedOnce
      BY AnnulmentsMean
    <2> QED BY <1>1, <2>1, AnnulmentsAlways, SalesShippedAsSold, SalesTyped, PTL
  <1> QED BY <1>1

-----------------------------------------------------------------------------
(* Receipts: a collection, its receipt and the payments it groups.         *)

Allocation == [sale : Nat \ {0}, amount : Nat \ {0}]

Collection == [customer : Customer, receipt : Nat, plan : Seq(Allocation)]

Receipt == [customer : Customer, handed : Nat]

\* What a plan allocates, and what the payments marked k come to.
PlanFigure == [row \in Allocation |-> row.amount]

GroupSum(rows, marks, k) ==
    SumOver([i \in 1..Len(rows) |-> IF marks[i] = k THEN rows[i].amount ELSE 0], Len(rows))

\* Rows and marks that say the same of money.
SameMoney(rows, marks, other, new) ==
    /\ Len(other) = Len(rows)
    /\ \A i \in 1..Len(rows) : other[i].amount = rows[i].amount /\ new[i] = marks[i]

(* What is grouped is a natural number. *)
LEMMA GroupNat ==
    ASSUME NEW rows \in Seq(Payment), NEW marks, NEW k
    PROVE  GroupSum(rows, marks, k) \in Nat
  <1> DEFINE w == [i \in 1..Len(rows) |-> IF marks[i] = k THEN rows[i].amount ELSE 0]
  <1>1. \A i \in 1..Len(rows) : w[i] \in Nat
    <2> SUFFICES ASSUME NEW i \in 1..Len(rows) PROVE rows[i].amount \in Nat
      OBVIOUS
    <2>1. rows[i] \in Payment
      BY ElementOfSeq
    <2> QED BY <2>1 DEF Payment
  <1>2. Len(rows) \in Nat
    OBVIOUS
  <1> HIDE DEF w
  <1>3. SumOver(w, Len(rows)) \in Nat
    BY <1>1, <1>2, SumOverNat
  <1> QED BY <1>3 DEF GroupSum, w

(* It depends on the amounts and the marks alone. *)
LEMMA GroupSame ==
    ASSUME NEW rows \in Seq(Payment), NEW marks, NEW other, NEW new, NEW k,
           SameMoney(rows, marks, other, new)
    PROVE  GroupSum(other, new, k) = GroupSum(rows, marks, k)
  <1> DEFINE w == [i \in 1..Len(rows) |-> IF marks[i] = k THEN rows[i].amount ELSE 0]
             v == [i \in 1..Len(other) |-> IF new[i] = k THEN other[i].amount ELSE 0]
  <1>1. \A i \in 1..Len(rows) : v[i] = w[i]
    BY DEF SameMoney
  <1>2. Len(rows) \in Nat /\ Len(other) = Len(rows)
    BY DEF SameMoney
  <1> HIDE DEF w, v
  <1>3. SumOver(v, Len(rows)) = SumOver(w, Len(rows))
    BY <1>1, <1>2, SumOverAgree
  <1> QED BY <1>2, <1>3 DEF GroupSum, w, v

(* A row adds its amount to the group it is marked with. *)
LEMMA GroupAppended ==
    ASSUME NEW rows \in Seq(Payment), NEW pay \in Payment, NEW marks \in Seq(Nat), NEW mark \in Nat,
           Len(marks) = Len(rows), NEW k
    PROVE  GroupSum(Append(rows, pay), Append(marks, mark), k)
               = GroupSum(rows, marks, k) + (IF mark = k THEN pay.amount ELSE 0)
  <1>1. PICK other, new : other = Append(rows, pay) /\ new = Append(marks, mark)
    OBVIOUS
  <1>2. PICK n \in Nat : n = Len(rows) /\ n = Len(marks)
    BY LenProperties
  <1>3. /\ Len(other) = n + 1 /\ other[n + 1] = pay /\ new[n + 1] = mark
        /\ \A i \in 1..n : other[i] = rows[i] /\ new[i] = marks[i]
    BY <1>1, <1>2, RowAppended
  <1> DEFINE w == [i \in 1..n |-> IF marks[i] = k THEN rows[i].amount ELSE 0]
             v == [i \in 1..n + 1 |-> IF new[i] = k THEN other[i].amount ELSE 0]
  <1>4. \A i \in 1..n : v[i] = w[i]
    BY <1>3
  <1>5. v[n + 1] = IF mark = k THEN pay.amount ELSE 0
    BY <1>3
  <1> HIDE DEF w, v
  <1>6. SumOver(v, n + 1) = SumOver(w, n) + v[n + 1]
    BY <1>4, SumOverAppended
  <1>7. GroupSum(other, new, k) = SumOver(v, n + 1)
    BY <1>3 DEF GroupSum, v
  <1>8. GroupSum(rows, marks, k) = SumOver(w, n)
    BY <1>2 DEF GroupSum, w
  <1> QED BY <1>1, <1>5, <1>6, <1>7, <1>8

(* Nothing is grouped under a mark that is not there. *)
LEMMA GroupNone ==
    ASSUME NEW rows \in Seq(Payment), NEW marks, NEW k, \A i \in 1..Len(rows) : marks[i] # k
    PROVE  GroupSum(rows, marks, k) = 0
  <1> DEFINE w == [i \in 1..Len(rows) |-> IF marks[i] = k THEN rows[i].amount ELSE 0]
  <1>1. \A i \in 1..Len(rows) : w[i] = 0
    OBVIOUS
  <1>2. Len(rows) \in Nat
    OBVIOUS
  <1> HIDE DEF w
  <1>3. SumOver(w, Len(rows)) = 0
    BY <1>1, <1>2, SumOverZero
  <1> QED BY <1>3 DEF GroupSum, w

(* A plan comes to its first allocation and the rest. *)
LEMMA PlanSplit ==
    ASSUME NEW plan \in Seq(Allocation)
    PROVE  /\ Planned(plan) \in Nat
           /\ plan # <<>> =>
                 /\ Tail(plan) \in Seq(Allocation) /\ Len(Tail(plan)) = Len(plan) - 1
                 /\ plan[1] \in Allocation /\ Head(plan) = plan[1] /\ Len(plan) \in Nat \ {0}
                 /\ \A i \in 1..Len(plan) - 1 : Tail(plan)[i] = plan[i + 1]
                 /\ Planned(plan) = plan[1].amount + Planned(Tail(plan))
                 /\ Len(plan) = 1 => Planned(plan) = plan[1].amount
  <1>1. ASSUME NEW rows \in Seq(Allocation)
        PROVE  /\ Len(rows) \in Nat
               /\ \A i \in 1..Len(rows) : rows[i] \in Allocation /\ rows[i].amount \in Nat
               /\ Planned(rows) \in Nat
    <2> DEFINE w == [i \in 1..Len(rows) |-> rows[i].amount]
    <2>1. Len(rows) \in Nat
      OBVIOUS
    <2>2. \A i \in 1..Len(rows) : rows[i] \in Allocation /\ rows[i].amount \in Nat
      <3> SUFFICES ASSUME NEW i \in 1..Len(rows)
                   PROVE  rows[i] \in Allocation /\ rows[i].amount \in Nat
        OBVIOUS
      <3>1. rows[i] \in Allocation
        BY ElementOfSeq
      <3> QED BY <3>1 DEF Allocation
    <2>3. \A i \in 1..Len(rows) : w[i] \in Nat
      BY <2>2
    <2> HIDE DEF w
    <2>4. SumOver(w, Len(rows)) \in Nat
      BY <2>1, <2>3, SumOverNat
    <2> QED BY <2>1, <2>2, <2>4 DEF Planned, w
  <1>2. ASSUME plan # <<>>
        PROVE  /\ Tail(plan) \in Seq(Allocation) /\ Len(Tail(plan)) = Len(plan) - 1
               /\ plan[1] \in Allocation /\ Head(plan) = plan[1] /\ Len(plan) \in Nat \ {0}
               /\ \A i \in 1..Len(plan) - 1 : Tail(plan)[i] = plan[i + 1]
               /\ Planned(plan) = plan[1].amount + Planned(Tail(plan))
               /\ Len(plan) = 1 => Planned(plan) = plan[1].amount
    <2>1. PICK n \in Nat : n = Len(plan) - 1 /\ Len(plan) = n + 1
      <3>1. Len(plan) \in Nat \ {0}
        BY <1>2, EmptySeq
      <3> QED BY <3>1
    <2>2. PICK rest \in Seq(Allocation) : rest = Tail(plan)
      BY <1>2, HeadTailProperties
    <2>3. Len(rest) = n /\ \A i \in 1..n : rest[i] = plan[i + 1]
      BY <1>2, <2>1, <2>2, HeadTailProperties
    <2>4. plan[1] \in Allocation /\ Head(plan) = plan[1] /\ plan[1].amount \in Nat
      BY <1>1, <2>1, HeadTailProperties
    <2> DEFINE u == [i \in 1..Len(plan) |-> plan[i].amount]
               v == [i \in 1..Len(rest) |-> rest[i].amount]
    <2>5. \A i \in 1..1 + n : u[i] \in Int
      BY <1>1, <2>1
    <2>6. \A i \in 1..n : v[i] = u[1 + i]
      <3> SUFFICES ASSUME NEW i \in 1..n PROVE v[i] = u[1 + i]
        OBVIOUS
      <3>1. 1 + i \in 1..Len(plan) /\ i \in 1..Len(rest) /\ rest[i] = plan[1 + i]
        BY <2>1, <2>3
      <3> QED BY <3>1
    <2>7. u[1] = plan[1].amount
      BY <2>1
    <2> HIDE DEF u, v
    <2>8. SumOver(u, 1 + n) = SumOver(u, 1) + SumOver(v, n)
      BY <2>5, <2>6, SumOverConcat
    <2>9. SumOver(u, 1) = u[1]
      <3>1. SumOver(u, 0) = 0 /\ SumOver(u, 0 + 1) = SumOver(u, 0) + u[0 + 1]
        BY SumOverStep
      <3>2. u[1] \in Int
        BY <2>4, <2>7
      <3> QED BY <3>1, <3>2
    <2>10. Planned(plan) = SumOver(u, 1 + n) /\ Planned(rest) = SumOver(v, n)
      BY <2>1, <2>3 DEF Planned, u, v
    <2>11. Planned(plan) = plan[1].amount + Planned(rest)
      BY <2>7, <2>8, <2>9, <2>10
    <2>12. n = 0 => Planned(plan) = plan[1].amount
      <3>1. SumOver(v, 0) = 0
        BY SumOverStep
      <3> QED BY <2>4, <2>10, <2>11, <3>1
    <2> QED BY <2>1, <2>2, <2>3, <2>4, <2>11, <2>12
  <1> QED BY <1>1, <1>2

(* A sale that is there has a total and a due balance. *)
LEMMA DueInt ==
    ASSUME Typed, NEW s \in 1..Len(sales)
    PROVE  Due(s) \in Int /\ Due(s) = Total(sales[s].lines) - PaidIn(payments, s)
           /\ Total(sales[s].lines) \in Nat
  <1>1. sales[s] \in Sale /\ payments \in Seq(Payment)
    BY ElementOfSeq DEF Typed, TypeOK
  <1>2. Total(sales[s].lines) \in Nat
    BY <1>1, TotalNat DEF Sale
  <1>3. Paid(s) = PaidSum(payments, s)
    BY DEF Paid, PaidSum
  <1>4. Paid(s) = PaidIn(payments, s) /\ PaidIn(payments, s) \in Nat
    BY <1>1, <1>3, PaidIsSum
  <1> QED BY <1>2, <1>4 DEF Due

\* What a plan for customer c promises: debts of the customer, each once and within what is due.
Promised(plan, c) ==
    /\ plan \in Seq(Allocation)
    /\ \A i \in 1..Len(plan) :
           /\ plan[i].sale \in 1..Len(sales) /\ sales[plan[i].sale].status = "Confirmed"
           /\ sales[plan[i].sale].customer = c /\ plan[i].amount <= Due(plan[i].sale)
    /\ \A i, k \in 1..Len(plan) : plan[i].sale = plan[k].sale => i = k

\* An order of the debts of a customer.
Ordered(order, c) ==
    /\ order \in Seq(Debts(c)) /\ Len(order) \in Nat
    /\ \A i, k \in 1..Len(order) : order[i] = order[k] => i = k

(* The orders a collection chooses from are such. *)
LEMMA OrdersOfDebts ==
    ASSUME Typed, NEW c, NEW order \in SetToSeqs(Debts(c))
    PROVE  Ordered(order, c)
  <1>1. PICK n \in Nat : n = Cardinality(Debts(c))
    <2>1. Debts(c) \in SUBSET (1..Len(sales)) /\ Len(sales) \in Int /\ 1 \in Int
      BY LenProperties DEF Debts, Typed, TypeOK
    <2>2. IsFiniteSet(1..Len(sales))
      BY <2>1, FS_Interval
    <2>3. IsFiniteSet(Debts(c))
      BY <2>1, <2>2, FS_Subset
    <2> QED BY <2>3, FS_CardinalityType
  <1>2. /\ order \in [1..n -> Debts(c)]
        /\ \A i, k \in 1..n : i # k => order[i] # order[k]
    BY <1>1 DEF SetToSeqs
  <1>3. order \in Seq(Debts(c)) /\ Len(order) = n
    BY <1>2
  <1> QED BY <1>2, <1>3 DEF Ordered

(* What comes before a debt in the order grows with it. *)
LEMMA BeforeGrows ==
    ASSUME Typed, NEW c, NEW order, Ordered(order, c),
           NEW j \in 1..Len(order), NEW i \in 1..Len(order), j <= i
    PROVE  /\ Before(order, j) \in Nat /\ Before(order, i) \in Nat
           /\ Before(order, j) <= Before(order, i)
  <1> DEFINE u == [k \in 1..Len(order) |-> DebtOf(order[k])]
  <1>1. order \in Seq(Debts(c)) /\ Len(order) \in Nat
    BY DEF Ordered
  <1>2. \A k \in 1..Len(order) : u[k] \in Nat
    <2> SUFFICES ASSUME NEW k \in 1..Len(order) PROVE DebtOf(order[k]) \in Nat
      OBVIOUS
    <2>1. order[k] \in Debts(c)
      BY <1>1, ElementOfSeq
    <2>2. order[k] \in 1..Len(sales) /\ Due(order[k]) > 0
      BY <2>1 DEF Debts
    <2>3. PICK s \in 1..Len(sales) : s = order[k]
      BY <2>2
    <2>4. Due(s) \in Int
      BY DueInt
    <2> QED BY <2>2, <2>3, <2>4 DEF DebtOf
  <1>3. PICK m \in Nat, d \in Nat : m = j - 1 /\ d = i - j /\ m + d = i - 1
    <2>1. j - 1 \in Nat /\ i - j \in Nat /\ (j - 1) + (i - j) = i - 1
      BY <1>1
    <2> QED BY <2>1
  <1> DEFINE v == [k \in 1..d |-> u[m + k]]
  <1>4. \A k \in 1..m + d : u[k] \in Int /\ u[k] \in Nat
    BY <1>1, <1>2, <1>3
  <1>5. \A k \in 1..d : v[k] = u[m + k] /\ v[k] \in Nat
    BY <1>4
  <1> HIDE DEF u, v
  <1>6. SumOver(u, m + d) = SumOver(u, m) + SumOver(v, d)
    <2>1. \A k \in 1..m + d : u[k] \in Int
      BY <1>4
    <2>2. \A k \in 1..d : v[k] = u[m + k]
      BY <1>5
    <2> QED BY <2>1, <2>2, SumOverConcat
  <1>7. SumOver(u, m) \in Nat
    BY <1>4, SumOverNat
  <1>8. SumOver(v, d) \in Nat
    BY <1>5, SumOverNat
  <1>9. Before(order, j) = SumOver(u, m) /\ Before(order, i) = SumOver(u, m + d)
    BY <1>3 DEF Before, u
  <1> QED BY <1>6, <1>7, <1>8, <1>9

\* The debts of an order that an amount reaches.
Covered(order, amount) == {i \in 1..Len(order) : Before(order, i) < amount}

(* They are the first ones. *)
LEMMA CoveredFirst ==
    ASSUME Typed, NEW c, NEW order, Ordered(order, c), NEW amount \in Nat
    PROVE  /\ Cardinality(Covered(order, amount)) \in Nat
           /\ 1..Cardinality(Covered(order, amount)) \subseteq Covered(order, amount)
  <1>1. PICK n \in Nat : n = Len(order)
    BY DEF Ordered
  <1>2. PICK C \in SUBSET (1..n) : C = Covered(order, amount)
    BY <1>1 DEF Covered
  <1>3. IsFiniteSet(1..n) /\ Cardinality(1..n) = n
    <2>1. 1 \in Int /\ n \in Int
      OBVIOUS
    <2>2. IsFiniteSet(1..n) /\ Cardinality(1..n) = IF 1 > n THEN 0 ELSE n - 1 + 1
      BY <2>1, FS_Interval
    <2> QED BY <2>2
  <1>4. IsFiniteSet(C) /\ Cardinality(C) <= n
    BY <1>3, FS_Subset
  <1>5. PICK size \in Nat : size = Cardinality(C)
    BY <1>4, FS_CardinalityType
  <1>6. ASSUME NEW i \in 1..size, i \notin C PROVE FALSE
    <2>1. i \in 1..n
      BY <1>4, <1>5
    <2>2. PICK m \in Nat : m = i - 1
      OBVIOUS
    <2>3. ASSUME NEW j \in C PROVE j \in 1..m
      <3> SUFFICES ASSUME j > m PROVE FALSE
        OBVIOUS
      <3>1. j \in 1..n /\ i <= j
        BY <2>1, <2>2
      <3>2. Before(order, i) \in Nat /\ Before(order, j) \in Nat /\ Before(order, i) <= Before(order, j)
        BY <1>1, <2>1, <3>1, BeforeGrows
      <3>3. Before(order, j) < amount
        BY <1>2 DEF Covered
      <3>4. Before(order, i) < amount
        BY <3>2, <3>3
      <3> QED BY <1>1, <1>2, <1>6, <2>1, <3>4 DEF Covered
    <2>4. IsFiniteSet(1..m) /\ Cardinality(1..m) = m
      <3>1. 1 \in Int /\ m \in Int
        OBVIOUS
      <3>2. IsFiniteSet(1..m) /\ Cardinality(1..m) = IF 1 > m THEN 0 ELSE m - 1 + 1
        BY <3>1, FS_Interval
      <3> QED BY <3>2
    <2>5. C \in SUBSET (1..m)
      BY <2>3
    <2>6. Cardinality(C) <= m
      BY <2>4, <2>5, FS_Subset
    <2> QED BY <1>5, <2>2, <2>6
  <1> QED BY <1>2, <1>5, <1>6

(* A plan promises what it says. *)
LEMMA PlanPromised ==
    ASSUME Typed, NEW c, NEW order, Ordered(order, c), NEW amount \in Nat
    PROVE  Promised(PlanAllocations(order, amount), c)
  <1>1. PICK N \in Nat : N = Cardinality(Covered(order, amount))
    BY CoveredFirst
  <1>2. PICK plan : plan = PlanAllocations(order, amount)
    OBVIOUS
  <1> DEFINE take(i) == IF DebtOf(order[i]) <= amount - Before(order, i) THEN DebtOf(order[i])
                        ELSE amount - Before(order, i)
  <1>3. plan = [i \in 1..N |-> [sale |-> order[i], amount |-> take(i)]]
    BY <1>1, <1>2 DEF PlanAllocations, Covered
  <1>4. order \in Seq(Debts(c)) /\ Len(order) \in Nat
    BY DEF Ordered
  <1>5. ASSUME NEW i \in 1..N
        PROVE  /\ i \in 1..Len(order) /\ plan[i].sale = order[i]
               /\ order[i] \in 1..Len(sales) /\ sales[order[i]].status = "Confirmed"
               /\ sales[order[i]].customer = c
               /\ plan[i].amount \in Nat \ {0} /\ plan[i].amount <= Due(order[i])
               /\ plan[i] \in Allocation
    <2>1. i \in 1..Len(order) /\ Before(order, i) < amount
      BY <1>1, CoveredFirst DEF Covered
    <2>2. PICK s \in Debts(c) : s = order[i]
      BY <1>4, <2>1, ElementOfSeq
    <2>3. /\ s \in 1..Len(sales) /\ Due(s) > 0 /\ Due(s) \in Int
          /\ sales[s].status = "Confirmed" /\ sales[s].customer = c
      BY DueInt DEF Debts, Owes
    <2>4. Before(order, i) \in Nat
      BY <2>1, BeforeGrows
    <2>5. PICK paid : paid = take(i)
      OBVIOUS
    <2>6. paid \in Nat \ {0} /\ paid <= Due(s)
      BY <2>1, <2>2, <2>3, <2>4, <2>5 DEF DebtOf
    <2>7. plan[i] = [sale |-> s, amount |-> paid]
      BY <1>3, <2>2, <2>5
    <2>8. s \in Nat \ {0}
      BY <2>3
    <2> QED BY <2>1, <2>2, <2>3, <2>6, <2>7, <2>8 DEF Allocation
  <1>6. plan \in Seq(Allocation) /\ Len(plan) = N
    <2>1. \A i \in 1..N : plan[i] \in Allocation
      BY <1>5
    <2>2. plan = [i \in 1..N |-> plan[i]]
      BY <1>3
    <2> HIDE DEF take
    <2> QED BY <2>1, <2>2
  <1>7. \A i, k \in 1..N : plan[i].sale = plan[k].sale => i = k
    BY <1>5 DEF Ordered
  <1> QED BY <1>2, <1>5, <1>6, <1>7 DEF Promised

(* A plan for a positive amount is not empty. *)
LEMMA PlanNotEmpty ==
    ASSUME NEW plan, Planned(plan) # 0
    PROVE  plan # <<>>
  <1> SUFFICES ASSUME plan = <<>> PROVE FALSE
    OBVIOUS
  <1> DEFINE w == [i \in 1..0 |-> plan[i].amount]
  <1>1. Len(plan) = 0
    OBVIOUS
  <1>2. Planned(plan) = SumOver(w, 0)
    BY <1>1 DEF Planned
  <1> HIDE DEF w
  <1>3. SumOver(w, 0) = 0
    BY SumOverStep
  <1> QED BY <1>2, <1>3

\* What a step does to the payments, as far as money goes.
PaymentsGrow ==
    \/ UNCHANGED payments
    \/ \E pay \in Payment : payments' = Append(payments, pay)
    \/ \E i \in 1..Len(payments), pay \in Payment :
           /\ pay.sale = payments[i].sale /\ pay.amount = payments[i].amount
           /\ payments' = [payments EXCEPT ![i] = pay]

LEMMA PaymentsStep ==
    ASSUME Typed, Typed', [Next]_vars
    PROVE  PaymentsGrow
  <1>1. ASSUME NEW r \in Request, PayLink(r) PROVE PaymentsGrow
    BY <1>1, PayLinked DEF PaymentsGrow
  <1>2. ASSUME NEW r \in Request, RefundLink(r) PROVE PaymentsGrow
    BY <1>2, RefundLinked DEF PaymentsGrow
  <1>3. ASSUME NEW r \in Request, NEW a \in Account, ConfirmUnit(r, a) PROVE PaymentsGrow
    <2>1. payments \in Seq(Payment) /\ payments' \in Seq(Payment)
      BY DEF Typed, TypeOK
    <2>2. CASE UNCHANGED payments
      BY <2>2 DEF PaymentsGrow
    <2>3. CASE ~ UNCHANGED payments
      <3>1. PICK pay : payments' = Append(payments, pay)
        BY <1>3, <2>3 DEF ConfirmUnit, PostCash
      <3>2. Len(payments') = Len(payments) + 1 /\ payments'[Len(payments) + 1] = pay
            /\ Len(payments) \in Nat
        BY <2>1, <3>1
      <3>3. pay \in Payment
        <4>1. Len(payments) + 1 \in 1..Len(payments')
          BY <3>2
        <4> QED BY <2>1, <3>2, <4>1, ElementOfSeq
      <3> QED BY <3>1, <3>3 DEF PaymentsGrow
    <2> QED BY <2>2, <2>3
  <1>4. CASE UNCHANGED payments
    BY <1>4 DEF PaymentsGrow
  <1> QED BY <1>1, <1>2, <1>3, <1>4, ConfirmsOrNot

(* No step takes a sale from its customer. *)
LEMMA CustomersStay ==
    ASSUME Typed, TableStep
    PROVE  \A s \in 1..Len(sales) : sales'[s].customer = sales[s].customer
  <1>1. /\ sales \in Seq(Sale) /\ Len(sales) \in Nat
        /\ \A s \in 1..Len(sales) : sales[s] \in Sale
    BY ElementOfSeq, LenProperties DEF Typed, TypeOK
  <1>2. ASSUME NEW x \in Sale, sales' = Append(sales, x), NEW s \in 1..Len(sales)
        PROVE  sales'[s].customer = sales[s].customer
    BY <1>1, <1>2
  <1>3. ASSUME NEW s \in 1..Len(sales), NEW x \in Sale, sales' = [sales EXCEPT ![s] = x],
               Rewritten(s, x), NEW t \in 1..Len(sales)
        PROVE  sales'[t].customer = sales[t].customer
    <2>1. sales'[t] = IF t = s THEN x ELSE sales[t]
      BY <1>1, <1>3
    <2>2. PICK sale \in Sale : sale = sales[s]
      BY <1>1
    <2>3. x.customer = sale.customer
      <3>1. ASSUME NEW y \in Year,
                   x = [sale EXCEPT !.status = "Confirmed", !.number = <<y, lastNumber[y] + 1>>]
            PROVE  x.customer = sale.customer
        BY <3>1 DEF Sale
      <3>2. ASSUME \/ x = [sale EXCEPT !.lines = x.lines]
                   \/ x = [sale EXCEPT !.status = "deleted", !.lines = <<>>]
                   \/ x = [sale EXCEPT !.year = x.year]
                   \/ x = [sale EXCEPT !.status = "Cancelled"]
            PROVE  x.customer = sale.customer
        BY <3>2 DEF Sale
      <3> QED BY <1>3, <2>2, <3>1, <3>2 DEF Rewritten
    <2> QED BY <2>1, <2>2, <2>3
  <1>4. CASE UNCHANGED sales
    BY <1>4
  <1> QED BY <1>2, <1>3, <1>4 DEF TableStep

-----------------------------------------------------------------------------

\* Rows and marks go together, and a group is of one customer.
Receipted ==
    /\ receipts \in Seq(Receipt) /\ grouped \in Seq(Nat) /\ Len(grouped) = Len(payments)
    /\ \A i \in 1..Len(payments) :
           /\ grouped[i] <= Len(receipts)
           /\ grouped[i] # 0 => sales[payments[i].sale].customer = receipts[grouped[i]].customer

\* The receipts nobody is working on are explained.
Explained ==
    \A k \in 1..Len(receipts) :
        (\A r \in Request : Collects(r) => collecting[r].receipt # k) =>
            GroupSum(payments, grouped, k) = receipts[k].handed

\* What the collection c of request r relies on: it is alone, its plan is still
\* payable, and what is grouped and what is planned come to what was handed over.
Serving(r, c) ==
    /\ \A o \in Request : o # r => collecting[o] = NoCollection /\ req[o] = Idle
    /\ Promised(c.plan, c.customer) /\ c.plan # <<>>
    /\ c.receipt = 0 => req[r] = Idle
    /\ c.receipt # 0 =>
           /\ c.receipt \in 1..Len(receipts) /\ receipts[c.receipt].customer = c.customer
           /\ GroupSum(payments, grouped, c.receipt) + Planned(c.plan) = receipts[c.receipt].handed
    /\ \/ req[r] = Idle
       \/ /\ req[r].step \in {"payPost", "payLink"}
          /\ req[r].sale = c.plan[1].sale /\ req[r].amount = c.plan[1].amount
    /\ req[r].step = "payLink" => entries[req[r].tx].kind = "Income"

CollectionsServed ==
    /\ collecting \in [Request -> {NoCollection} \cup Collection]
    /\ \A r \in Request : \A c \in Collection : collecting[r] = c => Serving(r, c)

\* Nothing is served beside anything else, and nothing that writes dies.
Unbroken == OneAtATime /\ ~ MayFail /\ PayAmount = Nat \ {0}

(* A collection is not none. *)
LEMMA CollectionSome ==
    ASSUME NEW c \in Collection
    PROVE  c # NoCollection
  <1>1. "receipt" \in DOMAIN c
    BY DEF Collection
  <1>2. "receipt" \notin DOMAIN NoCollection
    BY DEF NoCollection
  <1> QED BY <1>1, <1>2

(* A request that collects has a collection, and is served alone. *)
LEMMA CollectionOf ==
    ASSUME CollectionsServed, NEW r \in Request, Collects(r)
    PROVE  \E c \in Collection : /\ collecting[r] = c /\ Serving(r, c)
                                 /\ \A o \in Request : Collects(o) => o = r
  <1>1. PICK c \in Collection : collecting[r] = c
    BY DEF CollectionsServed, Collects
  <1>2. Serving(r, c)
    BY <1>1 DEF CollectionsServed
  <1>3. \A o \in Request : Collects(o) => o = r
    BY <1>2 DEF Serving, Collects
  <1> QED BY <1>1, <1>2, <1>3

(* Where nobody collects, and nobody starts to, sale steps keep receipts. *)
LEMMA SaleStepKeeps ==
    ASSUME OneAtATime, Typed, Receipted, Explained, CollectionsServed, SaleStep
    PROVE  Typed' /\ Receipted' /\ Explained' /\ CollectionsServed'
  <1>1. \A r \in Request : ~ Collects(r)
    BY DEF SaleStep, Uncollected
  <1>2. [Next]_vars
    BY DEF SaleStep
  <1>3. Typed'
    BY <1>2, TypedStep
  <1>4. UNCHANGED <<receipts, collecting>>
    BY DEF SaleStep
  <1>5. CollectionsServed'
    <2>1. \A r \in Request : collecting'[r] = NoCollection
      BY <1>1, <1>4 DEF Collects
    <2> QED BY <1>4, <2>1, CollectionSome DEF CollectionsServed
  <1>6. /\ payments \in Seq(Payment) /\ payments' \in Seq(Payment)
        /\ Len(payments) \in Nat /\ Len(payments') \in Nat
        /\ grouped \in Seq(Nat) /\ Len(grouped) = Len(payments)
    BY <1>3, LenProperties DEF Typed, TypeOK, Receipted
  <1>7. /\ Len(payments') = Len(payments)
           \/ \E pay \in Payment : payments' = Append(payments, pay) /\ Len(payments') = Len(payments) + 1
        /\ \A i \in 1..Len(payments) : /\ i \in 1..Len(payments')
                                       /\ payments'[i].sale = payments[i].sale
                                       /\ payments'[i].amount = payments[i].amount
    <2>1. PaymentsGrow
      BY <1>2, <1>3, PaymentsStep
    <2>2. CASE UNCHANGED payments
      BY <1>6, <2>2
    <2>3. ASSUME NEW pay \in Payment, payments' = Append(payments, pay)
          PROVE  /\ Len(payments') = Len(payments) + 1
                 /\ \A i \in 1..Len(payments) : i \in 1..Len(payments') /\ payments'[i] = payments[i]
      BY <1>6, <2>3
    <2>4. ASSUME NEW j \in 1..Len(payments), NEW pay \in Payment,
                 pay.sale = payments[j].sale, pay.amount = payments[j].amount,
                 payments' = [payments EXCEPT ![j] = pay]
          PROVE  /\ Len(payments') = Len(payments)
                 /\ \A i \in 1..Len(payments) : /\ i \in 1..Len(payments')
                                                /\ payments'[i].sale = payments[i].sale
                                                /\ payments'[i].amount = payments[i].amount
      <3>1. /\ Len(payments') = Len(payments) /\ payments'[j] = pay
            /\ \A i \in 1..Len(payments) : i # j => payments'[i] = payments[i]
        BY <1>6, <2>4, ExceptSeq
      <3> QED BY <2>4, <3>1
    <2> QED BY <2>1, <2>2, <2>3, <2>4 DEF PaymentsGrow
  <1>8. PICK d \in Nat : d = Len(payments') - Len(payments) /\ Len(payments') = Len(payments) + d
    BY <1>6, <1>7
  <1>9. PICK zeros \in Seq(Nat) : zeros = [i \in 1..d |-> 0] /\ Len(zeros) = d
    <2>1. [i \in 1..d |-> 0] \in Seq(Nat) /\ Len([i \in 1..d |-> 0]) = d
      <3>1. PICK z : z = [i \in 1..d |-> 0]
        OBVIOUS
      <3>2. z \in [1..d -> Nat]
        BY <3>1
      <3>3. z \in Seq(Nat) /\ Len(z) = d
        BY <3>2
      <3> QED BY <3>1, <3>3
    <2> QED BY <2>1
  <1>10. grouped' = grouped \o zeros
    BY <1>8, <1>9 DEF SaleStep
  <1>11. /\ grouped' \in Seq(Nat) /\ Len(grouped') = Len(payments')
         /\ \A i \in 1..Len(payments) : grouped'[i] = grouped[i]
         /\ \A i \in 1..Len(payments') : i \in 1..Len(payments) \/ grouped'[i] = 0
    <2>1. PICK marks \in Seq(Nat) : marks = grouped
      BY <1>6
    <2>2. PICK n \in Nat : n = Len(marks) /\ n = Len(payments)
      BY <1>6, <2>1
    <2>3. marks \o zeros \in Seq(Nat)
      BY ConcatProperties
    <2>4. /\ Len(marks \o zeros) = Len(marks) + Len(zeros)
          /\ \A i \in 1..Len(marks) : (marks \o zeros)[i] = marks[i]
          /\ \A i \in 1..Len(zeros) : (marks \o zeros)[Len(marks) + i] = zeros[i]
          /\ \A i \in 1..Len(marks) + Len(zeros) :
                i \in 1..Len(marks) \/ \E k \in 1..Len(zeros) : i = Len(marks) + k
      BY RowsConcatenated
    <2>5. PICK new : new = marks \o zeros
      OBVIOUS
    <2>6. /\ Len(new) = n + d
          /\ \A i \in 1..n : new[i] = marks[i]
          /\ \A i \in 1..n + d : i \in 1..n \/ \E k \in 1..d : new[i] = zeros[k]
      <3>1. Len(new) = n + d /\ \A i \in 1..n : new[i] = marks[i]
        BY <1>9, <2>2, <2>4, <2>5
      <3>2. ASSUME NEW i \in 1..n + d, i \notin 1..n PROVE \E k \in 1..d : new[i] = zeros[k]
        <4>1. PICK k \in 1..d : i = n + k
          <5>1. i - n \in 1..d /\ i = n + (i - n)
            BY <3>2
          <5> QED BY <5>1
        <4>2. new[n + k] = zeros[k]
          BY <1>9, <2>2, <2>4, <2>5
        <4> QED BY <4>1, <4>2
      <3> QED BY <3>1, <3>2
    <2>7. \A k \in 1..d : zeros[k] = 0
      BY <1>9
    <2>8. \A i \in 1..n + d : i \in 1..n \/ new[i] = 0
      BY <2>6, <2>7
    <2> QED BY <1>8, <1>10, <2>1, <2>2, <2>3, <2>5, <2>6, <2>8
  <1>12. Receipted'
    <2>1. receipts' = receipts /\ receipts \in Seq(Receipt) /\ Len(receipts) \in Nat
      BY <1>4, LenProperties DEF Receipted
    <2>2. ASSUME NEW i \in 1..Len(payments')
          PROVE  /\ grouped'[i] <= Len(receipts)
                 /\ grouped'[i] # 0 => sales'[payments'[i].sale].customer = receipts[grouped'[i]].customer
      <3>1. CASE i \in 1..Len(payments)
        <4>1. PICK s : s = payments[i].sale
          OBVIOUS
        <4>2. s \in 1..Len(sales) /\ payments'[i].sale = s
          BY <1>7, <3>1, <4>1 DEF Typed
        <4>3. sales'[s].customer = sales[s].customer
          BY <1>2, <4>2, StepOnTable, CustomersStay
        <4> QED BY <1>11, <3>1, <4>1, <4>2, <4>3 DEF Receipted
      <3>2. CASE i \notin 1..Len(payments)
        BY <1>11, <2>1, <3>2
      <3> QED BY <3>1, <3>2
    <2> QED BY <1>11, <2>1, <2>2 DEF Receipted
  <1>13. Explained'
    <2>1. ASSUME NEW k \in 1..Len(receipts)
          PROVE  GroupSum(payments', grouped', k) = receipts[k].handed
      <3>1. GroupSum(payments, grouped, k) = receipts[k].handed
        BY <1>1 DEF Explained
      <3>2. CASE Len(payments') = Len(payments)
        <4>1. SameMoney(payments, grouped, payments', grouped')
          BY <1>7, <1>11, <3>2 DEF SameMoney
        <4>2. GroupSum(payments', grouped', k) = GroupSum(payments, grouped, k)
          BY <1>6, <4>1, GroupSame
        <4> QED BY <3>1, <4>2
      <3>3. ASSUME NEW pay \in Payment, payments' = Append(payments, pay),
                   Len(payments') = Len(payments) + 1
            PROVE  GroupSum(payments', grouped', k) = receipts[k].handed
        <4>1. PICK new : new = Append(grouped, 0)
          OBVIOUS
        <4>2. Len(new) = Len(payments) + 1 /\ new[Len(payments) + 1] = 0
              /\ \A i \in 1..Len(payments) : new[i] = grouped[i]
          BY <1>6, <4>1
        <4>3. \A i \in 1..Len(payments') : new[i] = grouped'[i]
          <5>1. Len(payments) + 1 \in 1..Len(payments') /\ Len(payments) + 1 \notin 1..Len(payments)
            BY <1>6, <3>3
          <5>2. \A i \in 1..Len(payments') : i \in 1..Len(payments) \/ i = Len(payments) + 1
            BY <1>6, <3>3
          <5> QED BY <1>11, <4>2, <5>1, <5>2
        <4>4. SameMoney(payments', new, payments', grouped')
          BY <4>3 DEF SameMoney
        <4>5. GroupSum(payments', grouped', k) = GroupSum(payments', new, k)
          BY <1>6, <4>4, GroupSame
        <4>6. GroupSum(payments', new, k)
                  = GroupSum(payments, grouped, k) + (IF 0 = k THEN pay.amount ELSE 0)
          BY <1>6, <3>3, <4>1, 0 \in Nat, GroupAppended
        <4>7. GroupSum(payments, grouped, k) \in Nat /\ k # 0
          BY <1>6, GroupNat
        <4> QED BY <3>1, <4>5, <4>6, <4>7
      <3> QED BY <1>7, <3>2, <3>3
    <2> QED BY <1>4, <2>1 DEF Explained
  <1> QED BY <1>3, <1>5, <1>12, <1>13

(* A step that leaves the sales leaves their types to a request that only  *)
(* moves on.                                                               *)
LEMMA MovesTyped ==
    ASSUME Typed, UNCHANGED <<sales, lastNumber, moves, entries, payments>>, RequestsKept
    PROVE  Typed'
  <1>1. TableStep
    BY DEF TableStep
  <1>2. TableKept
    BY <1>1, TableTyped
  <1>3. RowsKept
    BY RowsSame
  <1> QED BY <1>2, <1>3, KeptTyped

(* What holds of the tables alone goes on to hold. *)
LEMMA SameTables ==
    ASSUME UNCHANGED <<sales, payments, grouped, receipts>>
    PROVE  /\ Receipted => Receipted'
           /\ \A plan, c : Promised(plan, c) => Promised(plan, c)'
           /\ \A k : GroupSum(payments', grouped', k) = GroupSum(payments, grouped, k)
  <1>1. Receipted => Receipted'
    BY DEF Receipted
  <1>2. ASSUME NEW plan, NEW c, Promised(plan, c) PROVE Promised(plan, c)'
    BY <1>2 DEF Promised, Due, Paid
  <1>3. ASSUME NEW k PROVE GroupSum(payments', grouped', k) = GroupSum(payments, grouped, k)
    OBVIOUS
  <1> QED BY <1>1, <1>2, <1>3

(* A collection starts alone, with a plan that promises. *)
LEMMA CollectReadKeeps ==
    ASSUME OneAtATime, Typed, Receipted, Explained, CollectionsServed,
           NEW r \in Request, NEW c \in Customer, NEW amount \in Collected, CollectRead(r, c, amount)
    PROVE  Typed' /\ Receipted' /\ Explained' /\ CollectionsServed'
  <1>1. \A o \in Request : ~ Collects(o) /\ collecting[o] = NoCollection /\ req[o] = Idle
    BY DEF CollectRead, Free, Quiet, Uncollected, Collects
  <1>2. UNCHANGED <<sales, lastNumber, moves, entries, payments, req>> /\ UNCHANGED <<receipts, grouped>>
    BY DEF CollectRead, vars
  <1>3. amount \in Nat /\ amount # 0
    BY ReceiptsAssumption
  <1>4. PICK order \in SetToSeqs(Debts(c)) :
            /\ Planned(PlanAllocations(order, amount)) = amount
            /\ collecting' = [collecting EXCEPT ![r] =
                   [customer |-> c, receipt |-> 0, plan |-> PlanAllocations(order, amount)]]
    BY DEF CollectRead
  <1>5. PICK plan : plan = PlanAllocations(order, amount)
    OBVIOUS
  <1>6. Promised(plan, c) /\ plan # <<>>
    <2>1. Ordered(order, c)
      BY OrdersOfDebts
    <2>2. Promised(plan, c)
      BY <1>3, <1>5, <2>1, PlanPromised
    <2>3. Planned(plan) # 0
      BY <1>3, <1>4, <1>5
    <2> QED BY <2>2, <2>3, PlanNotEmpty
  <1>7. PICK new : new = [customer |-> c, receipt |-> 0, plan |-> plan]
    OBVIOUS
  <1>8. new \in Collection /\ new.plan = plan /\ new.customer = c /\ new.receipt = 0
    BY <1>6, <1>7, 0 \in Nat DEF Collection, Promised
  <1>9. /\ collecting' \in [Request -> {NoCollection} \cup Collection]
        /\ \A o \in Request : collecting'[o] = IF o = r THEN new ELSE NoCollection
    <2>1. collecting' = [collecting EXCEPT ![r] = new]
      BY <1>4, <1>5, <1>7
    <2> QED BY <1>1, <1>8, <2>1 DEF CollectionsServed
  <1>10. Typed'
    BY <1>2, RequestsSame, MovesTyped
  <1>11. Receipted' /\ Promised(plan, c)'
    BY <1>2, <1>6, SameTables
  <1>12. Explained'
    <2>1. ASSUME NEW k \in 1..Len(receipts)
          PROVE  GroupSum(payments', grouped', k) = receipts[k].handed
      <3>1. GroupSum(payments, grouped, k) = receipts[k].handed
        BY <1>1 DEF Explained
      <3> QED BY <1>2, <3>1, SameTables
    <2> QED BY <1>2, <2>1 DEF Explained
  <1>13. CollectionsServed'
    <2>1. ASSUME NEW o \in Request, NEW d \in Collection, collecting'[o] = d
          PROVE  Serving(o, d)'
      <3>1. o = r /\ d = new
        BY <1>9, <2>1, CollectionSome
      <3>2. \A p \in Request : p # r => collecting'[p] = NoCollection /\ req'[p] = Idle
        BY <1>1, <1>2, <1>9
      <3>3. req'[r] = Idle /\ Idle.step # "payLink"
        BY <1>1, <1>2 DEF Idle
      <3>4. Promised(new.plan, new.customer)'
        BY <1>8, <1>11
      <3>5. Serving(r, new)'
        BY <1>6, <1>8, <3>2, <3>3, <3>4 DEF Serving
      <3> QED BY <3>1, <3>5
    <2> QED BY <1>9, <2>1 DEF CollectionsServed
  <1> QED BY <1>10, <1>11, <1>12, <1>13

(* The receipt is written: nothing is grouped by it, all of it is planned. *)
LEMMA ReceiptInsertKeeps ==
    ASSUME Typed, Receipted, Explained, CollectionsServed, NEW r \in Request, ReceiptInsert(r)
    PROVE  Typed' /\ Receipted' /\ Explained' /\ CollectionsServed'
  <1>1. PICK c \in Collection : /\ collecting[r] = c /\ Serving(r, c)
                                /\ \A o \in Request : Collects(o) => o = r
    BY CollectionOf DEF ReceiptInsert
  <1>2. UNCHANGED <<sales, lastNumber, moves, entries, payments, req>> /\ grouped' = grouped
    BY DEF ReceiptInsert, vars
  <1>3. PICK n \in Nat : n = Len(receipts)
    BY LenProperties DEF Receipted
  <1>4. PICK handed \in Nat : handed = Planned(c.plan)
    BY <1>1, PlanSplit DEF Serving, Promised
  <1>5. PICK row \in Receipt : /\ row = [customer |-> c.customer, handed |-> handed]
                               /\ row.customer = c.customer /\ row.handed = handed
    <2>1. c.customer \in Customer
      BY DEF Collection
    <2>2. PICK row : row = [customer |-> c.customer, handed |-> handed]
      OBVIOUS
    <2> QED BY <2>1, <2>2 DEF Receipt
  <1>6. /\ receipts' \in Seq(Receipt) /\ Len(receipts') = n + 1 /\ receipts'[n + 1] = row
        /\ \A i \in 1..n : receipts'[i] = receipts[i]
    <2>1. receipts' = Append(receipts, row)
      BY <1>1, <1>4, <1>5 DEF ReceiptInsert
    <2> QED BY <1>3, <2>1 DEF Receipted
  <1>7. PICK new : new = [c EXCEPT !.receipt = n + 1]
    OBVIOUS
  <1>8. new \in Collection /\ new.plan = c.plan /\ new.customer = c.customer /\ new.receipt = n + 1
    <2>1. n + 1 \in Nat
      OBVIOUS
    <2> QED BY <1>7, <2>1 DEF Collection
  <1>9. /\ collecting' \in [Request -> {NoCollection} \cup Collection]
        /\ \A o \in Request : collecting'[o] = IF o = r THEN new ELSE collecting[o]
    <2>1. collecting' = [collecting EXCEPT ![r] = new]
      BY <1>1, <1>3, <1>7 DEF ReceiptInsert
    <2> QED BY <1>8, <2>1 DEF CollectionsServed
  <1>10. Typed'
    BY <1>2, RequestsSame, MovesTyped
  <1>11. Receipted'
    <2>1. ASSUME NEW i \in 1..Len(payments)
          PROVE  /\ grouped[i] <= n + 1
                 /\ grouped[i] # 0 => sales[payments[i].sale].customer = receipts'[grouped[i]].customer
      <3>1. /\ grouped[i] <= n
            /\ grouped[i] # 0 => sales[payments[i].sale].customer = receipts[grouped[i]].customer
        BY <1>3, <2>1 DEF Receipted
      <3>2. grouped[i] \in Nat
        BY ElementOfSeq DEF Receipted
      <3>3. grouped[i] # 0 => grouped[i] \in 1..n
        BY <3>1, <3>2
      <3> QED BY <1>6, <3>1, <3>2, <3>3
    <2> QED BY <1>2, <1>6, <2>1 DEF Receipted
  <1>12. c.receipt = 0 /\ req[r] = Idle
    BY <1>1 DEF ReceiptInsert
  <1>13. Explained'
    <2>1. ASSUME NEW k \in 1..n + 1,
                 \A o \in Request : collecting'[o] # NoCollection => collecting'[o].receipt # k
          PROVE  GroupSum(payments, grouped, k) = receipts'[k].handed
      <3>1. k # n + 1
        BY <1>8, <1>9, <2>1, CollectionSome
      <3>2. k \in 1..n /\ k # 0
        BY <3>1
      <3>3. \A o \in Request : Collects(o) => collecting[o].receipt # k
        BY <1>1, <1>12, <3>2
      <3>4. GroupSum(payments, grouped, k) = receipts[k].handed
        BY <1>3, <3>2, <3>3 DEF Explained
      <3> QED BY <1>6, <3>2, <3>4
    <2> QED BY <1>2, <1>6, <2>1 DEF Explained, Collects
  <1>14. CollectionsServed'
    <2>1. ASSUME NEW o \in Request, NEW d \in Collection, collecting'[o] = d
          PROVE  Serving(o, d)'
      <3>1. o = r /\ d = new
        <4>1. o # r => collecting[o] = NoCollection
          BY <1>1 DEF Serving
        <4> QED BY <1>9, <2>1, <4>1, CollectionSome
      <3>2. \A p \in Request : p # r => collecting'[p] = NoCollection /\ req'[p] = Idle
        BY <1>1, <1>2, <1>9 DEF Serving
      <3>3. req'[r] = Idle /\ Idle.step # "payLink"
        BY <1>2, <1>12 DEF Idle
      <3>4. Promised(c.plan, c.customer)' /\ c.plan # <<>>
        <4>1. Promised(c.plan, c.customer) /\ c.plan # <<>>
          BY <1>1 DEF Serving
        <4>2. Promised(c.plan, c.customer)'
          BY <1>2, <4>1 DEF Promised, Due, Paid
        <4> QED BY <4>1, <4>2
      <3>5. GroupSum(payments, grouped, n + 1) = 0
        <4>1. payments \in Seq(Payment)
          BY DEF Typed, TypeOK
        <4>2. \A i \in 1..Len(payments) : grouped[i] # n + 1
          BY <1>3 DEF Receipted
        <4> QED BY <4>1, <4>2, GroupNone
      <3>6. /\ n + 1 \in 1..Len(receipts') /\ receipts'[n + 1].customer = c.customer
            /\ GroupSum(payments', grouped', n + 1) + Planned(c.plan) = receipts'[n + 1].handed
        BY <1>2, <1>4, <1>5, <1>6, <3>5
      <3>7. Serving(r, new)'
        BY <1>8, <3>2, <3>3, <3>4, <3>6 DEF Serving
      <3> QED BY <3>1, <3>7
    <2> QED BY <1>9, <2>1 DEF CollectionsServed
  <1> QED BY <1>10, <1>11, <1>13, <1>14

(* A step that only moves the request of a collection keeps the receipts,  *)
(* if the collection can go on from there.                                 *)
LEMMA CollectionMoves ==
    ASSUME Receipted, Explained, CollectionsServed, NEW r \in Request, NEW c \in Collection,
           collecting[r] = c, Serving(r, c), c.receipt # 0,
           UNCHANGED <<sales, payments, grouped, receipts, collecting>>,
           NEW st, req'[r] = st, \A o \in Request : o # r => req'[o] = req[o],
           st.step \in {"payPost", "payLink"}, st.sale = c.plan[1].sale, st.amount = c.plan[1].amount,
           st.step = "payLink" => entries'[st.tx].kind = "Income"
    PROVE  Receipted' /\ Explained' /\ CollectionsServed'
  <1>1. Receipted'
    BY SameTables
  <1>2. \A k : GroupSum(payments', grouped', k) = GroupSum(payments, grouped, k)
    BY SameTables
  <1>3. Explained'
    <2>1. ASSUME NEW k \in 1..Len(receipts),
                 \A o \in Request : Collects(o)' => collecting'[o].receipt # k
          PROVE  GroupSum(payments', grouped', k) = receipts[k].handed
      <3>1. \A o \in Request : Collects(o) => collecting[o].receipt # k
        BY <2>1 DEF Collects
      <3> QED BY <1>2, <3>1 DEF Explained
    <2> QED BY <2>1 DEF Explained
  <1>4. ASSUME NEW o \in Request, NEW d \in Collection, collecting'[o] = d
        PROVE  Serving(o, d)'
    <2>1. o = r /\ d = c
      <3>1. o # r => collecting[o] = NoCollection
        BY DEF Serving
      <3> QED BY <1>4, <3>1, CollectionSome
    <2>2. \A p \in Request : p # r => collecting'[p] = NoCollection /\ req'[p] = Idle
      BY DEF Serving
    <2>3. Promised(c.plan, c.customer)' /\ c.plan # <<>>
      <3>1. Promised(c.plan, c.customer) /\ c.plan # <<>>
        BY DEF Serving
      <3>2. Promised(c.plan, c.customer)'
        BY <3>1 DEF Promised, Due, Paid
      <3> QED BY <3>1, <3>2
    <2>4. /\ c.receipt \in 1..Len(receipts') /\ receipts'[c.receipt].customer = c.customer
          /\ GroupSum(payments', grouped', c.receipt) + Planned(c.plan) = receipts'[c.receipt].handed
      BY <1>2 DEF Serving
    <2>5. Serving(r, c)'
      BY <2>2, <2>3, <2>4 DEF Serving
    <2> QED BY <2>1, <2>5
  <1>5. CollectionsServed'
    BY <1>4 DEF CollectionsServed
  <1> QED BY <1>1, <1>3, <1>5

(* The next allocation is read: it is one of the plan, and still payable. *)
LEMMA AllocationReadKeeps ==
    ASSUME Unbroken, Typed, Receipted, Explained, CollectionsServed,
           NEW r \in Request, AllocationRead(r)
    PROVE  Typed' /\ Receipted' /\ Explained' /\ CollectionsServed'
  <1>1. PICK c \in Collection : collecting[r] = c /\ Serving(r, c)
    BY CollectionOf DEF AllocationRead
  <1>2. /\ UNCHANGED <<sales, lastNumber, moves, entries, payments>>
        /\ UNCHANGED <<receipts, grouped, collecting>>
    BY DEF AllocationRead, Unwritten, receiptVars
  <1>3. PICK next \in Allocation : /\ next = c.plan[1] /\ Head(c.plan) = next
                                   /\ next.sale \in 1..Len(sales)
                                   /\ sales[next.sale].status = "Confirmed"
    <2>1. c.plan \in Seq(Allocation) /\ c.plan # <<>>
      BY <1>1 DEF Serving, Promised
    <2>2. c.plan[1] \in Allocation /\ Head(c.plan) = c.plan[1] /\ Len(c.plan) \in Nat \ {0}
      BY <2>1, PlanSplit
    <2>3. 1 \in 1..Len(c.plan)
      BY <2>2
    <2>4. c.plan[1].sale \in 1..Len(sales) /\ sales[c.plan[1].sale].status = "Confirmed"
      BY <1>1, <2>3 DEF Serving, Promised
    <2> QED BY <2>2, <2>4
  <1>4. PICK st : st = [step |-> "payPost", sale |-> next.sale, amount |-> next.amount]
    OBVIOUS
  <1>5. st.step = "payPost" /\ st.sale = next.sale /\ st.amount = next.amount
    BY <1>4
  <1>6. st \in RequestState
    <2>1. next.sale \in SaleId /\ next.amount \in PayAmount
      <3>1. Len(sales) \in Nat /\ Len(sales) <= MaxSales
        BY LenProperties DEF Typed, TypeOK
      <3>2. next.amount \in Nat \ {0}
        BY DEF Allocation
      <3> QED BY <1>3, <3>1, <3>2, SalesAssumption DEF SaleId, Unbroken
    <2> QED BY <1>4, <2>1 DEF RequestState
  <1>7. Becomes(r, st) /\ collecting[r].receipt # 0
    BY <1>1, <1>3, <1>4 DEF AllocationRead
  <1>8. Relies(st)
    <2>1. Numbered(next.sale)
      BY <1>3 DEF Typed
    <2> QED BY <1>3, <1>5, <2>1 DEF Relies, Cancelling
  <1>9. Typed'
    <2>1. Relies(st)'
      BY <1>2, <1>5, <1>8 DEF Relies, Cancelling, Numbered
    <2>2. RequestsKept
      BY <1>6, <1>7, <2>1, OneMoves
    <2> QED BY <1>2, <2>2, MovesTyped
  <1>10. req'[r] = st /\ \A o \in Request : o # r => req'[o] = req[o]
    BY <1>7 DEF Becomes, Typed, TypeOK
  <1>11. Receipted' /\ Explained' /\ CollectionsServed'
    BY <1>1, <1>2, <1>3, <1>5, <1>7, <1>10, CollectionMoves
  <1> QED BY <1>9, <1>11

(* Its Income is posted. *)
LEMMA AllocationPostKeeps ==
    ASSUME Typed, Receipted, Explained, CollectionsServed,
           NEW r \in Request, NEW a \in Account, AllocationPost(r, a)
    PROVE  Typed' /\ Receipted' /\ Explained' /\ CollectionsServed'
  <1>1. PICK c \in Collection : collecting[r] = c /\ Serving(r, c)
    BY CollectionOf DEF AllocationPost
  <1>2. PayPost(r, a) /\ UNCHANGED <<receipts, grouped, collecting>>
    BY DEF AllocationPost, receiptVars
  <1>3. Typed'
    <2>1. [Next]_vars
      BY <1>2 DEF Next, Works
    <2> QED BY <2>1, TypedStep
  <1>4. UNCHANGED <<sales, payments>>
    BY <1>2 DEF PayPost
  <1>5. PICK q : q = req[r]
    OBVIOUS
  <1>6. q.step = "payPost"
    BY <1>2, <1>5 DEF PayPost
  <1>7. q.sale = c.plan[1].sale /\ q.amount = c.plan[1].amount /\ c.receipt # 0
    <2>1. q # Idle
      BY <1>6 DEF Idle
    <2> QED BY <1>1, <1>5, <2>1 DEF Serving
  <1>8. PICK st : st = [step |-> "payLink", sale |-> q.sale, account |-> a,
                        amount |-> q.amount, tx |-> Len(entries) + 1]
    OBVIOUS
  <1>9. /\ st.step = "payLink" /\ st.sale = q.sale /\ st.amount = q.amount
        /\ st.tx = Len(entries) + 1
    BY <1>8
  <1>10. req'[r] = st /\ \A o \in Request : o # r => req'[o] = req[o]
    BY <1>2, <1>5, <1>8 DEF PayPost, Becomes, Typed, TypeOK
  <1>11. entries'[st.tx].kind = "Income"
    <2>1. PICK e : e = [kind |-> "Income", account |-> a, amount |-> q.amount,
                        number |-> sales[q.sale].number]
      OBVIOUS
    <2>5. e.kind = "Income"
      BY <2>1
    <2>2. entries' = Append(entries, e)
      BY <1>2, <1>5, <2>1 DEF PayPost
    <2>3. entries \in Seq(Entry)
      BY DEF Typed, TypeOK
    <2>4. entries'[Len(entries) + 1] = e
      BY <2>2, <2>3
    <2> QED BY <1>9, <2>4, <2>5
  <1>12. Receipted' /\ Explained' /\ CollectionsServed'
    BY <1>1, <1>2, <1>4, <1>7, <1>9, <1>10, <1>11, CollectionMoves
  <1> QED BY <1>3, <1>12

(* A collection that is given up has written no receipt: a plan that was   *)
(* made alone is payable to its end.                                       *)
LEMMA CollectQuitKeeps ==
    ASSUME Unbroken, Typed, Receipted, Explained, CollectionsServed,
           NEW r \in Request, CollectQuit(r)
    PROVE  Typed' /\ Receipted' /\ Explained' /\ CollectionsServed'
  <1>1. PICK c \in Collection : /\ collecting[r] = c /\ Serving(r, c)
                                /\ \A o \in Request : Collects(o) => o = r
    BY CollectionOf DEF CollectQuit
  <1>2. /\ UNCHANGED <<sales, lastNumber, moves, entries, payments>>
        /\ UNCHANGED <<receipts, grouped>> /\ Becomes(r, Idle)
        /\ collecting' = [collecting EXCEPT ![r] = NoCollection]
    BY DEF CollectQuit, Unwritten
  <1>3. c.receipt = 0
    <2>1. c.plan[1].sale \in 1..Len(sales) /\ sales[c.plan[1].sale].status = "Confirmed"
          /\ c.plan[1].amount <= Due(c.plan[1].sale) /\ Head(c.plan) = c.plan[1]
      <3>1. c.plan \in Seq(Allocation) /\ c.plan # <<>>
        BY <1>1 DEF Serving, Promised
      <3>2. Head(c.plan) = c.plan[1] /\ Len(c.plan) \in Nat \ {0}
        BY <3>1, PlanSplit
      <3>3. 1 \in 1..Len(c.plan)
        BY <3>2
      <3> QED BY <1>1, <3>2, <3>3 DEF Serving, Promised
    <2>2. Payable(Head(c.plan))
      BY <2>1 DEF Payable, Is
    <2>3. ~ (req[r].step = "payLink" /\ entries[req[r].tx].kind = "deleted")
      BY <1>1 DEF Serving
    <2> QED BY <1>1, <2>2, <2>3 DEF CollectQuit, Stops, Unbroken
  <1>4. Typed'
    BY <1>2, OneEnds, MovesTyped
  <1>5. Receipted'
    BY <1>2, SameTables
  <1>6. \A o \in Request : collecting'[o] = NoCollection
    BY <1>1, <1>2 DEF CollectionsServed, Collects
  <1>7. Explained'
    <2>1. ASSUME NEW k \in 1..Len(receipts)
          PROVE  GroupSum(payments', grouped', k) = receipts[k].handed
      <3>1. \A o \in Request : Collects(o) => collecting[o].receipt # k
        BY <1>1, <1>3
      <3>2. GroupSum(payments, grouped, k) = receipts[k].handed
        BY <3>1 DEF Explained
      <3> QED BY <1>2, <3>2
    <2> QED BY <1>2, <2>1 DEF Explained
  <1>8. CollectionsServed'
    BY <1>2, <1>6, CollectionSome DEF CollectionsServed
  <1> QED BY <1>4, <1>5, <1>7, <1>8

(* The payment a collection inserts: its row, its mark, and what the       *)
(* collection has left to pay.                                             *)
LEMMA AllocationLinked ==
    ASSUME Typed, Receipted, CollectionsServed, NEW r \in Request, NEW c \in Collection,
           collecting[r] = c, Serving(r, c), AllocationLink(r)
    PROVE  /\ UNCHANGED <<sales, receipts>> /\ c.receipt \in 1..Len(receipts)
           /\ \E pay \in Payment :
                 /\ pay.sale = c.plan[1].sale /\ pay.amount = c.plan[1].amount
                 /\ payments' = Append(payments, pay)
           /\ grouped' = Append(grouped, c.receipt)
           /\ req'[r] = Idle /\ \A o \in Request : o # r => req'[o] = req[o]
           /\ collecting' = [collecting EXCEPT ![r] = Rest(r)]
           /\ Typed'
  <1>1. /\ PayLink(r) /\ UNCHANGED receipts /\ grouped' = Append(grouped, c.receipt)
        /\ collecting' = [collecting EXCEPT ![r] = Rest(r)]
    BY DEF AllocationLink
  <1>2. Typed'
    <2>1. [Next]_vars
      BY <1>1 DEF Next, Works
    <2> QED BY <2>1, TypedStep
  <1>3. PICK q : q = req[r]
    OBVIOUS
  <1>4. q.step = "payLink"
    BY <1>1, <1>3 DEF PayLink
  <1>5. q.sale = c.plan[1].sale /\ q.amount = c.plan[1].amount /\ c.receipt # 0
    <2>1. q # Idle
      BY <1>4 DEF Idle
    <2> QED BY <1>3, <2>1 DEF Serving
  <1>6. PICK pay \in Payment : /\ pay.sale = q.sale /\ pay.amount = q.amount
                               /\ payments' = Append(payments, pay)
    BY <1>1, <1>3, PayLinked
  <1>7. c.receipt \in 1..Len(receipts)
    BY <1>5 DEF Serving
  <1>8. UNCHANGED sales /\ req'[r] = Idle /\ \A o \in Request : o # r => req'[o] = req[o]
    BY <1>1 DEF PayLink, Becomes, Typed, TypeOK
  <1> QED BY <1>1, <1>2, <1>5, <1>6, <1>7, <1>8

(* What is promised after the first debt of a plan is paid: the others are *)
(* debts of other sales, so what is due of them is what it was.            *)
LEMMA RestPromised ==
    ASSUME Typed, Typed', UNCHANGED sales, NEW plan \in Seq(Allocation), NEW c, Promised(plan, c),
           plan # <<>>, NEW pay \in Payment, pay.sale = plan[1].sale, payments' = Append(payments, pay)
    PROVE  Promised(Tail(plan), c)'
  <1>1. /\ Tail(plan) \in Seq(Allocation) /\ Len(Tail(plan)) = Len(plan) - 1
        /\ Len(plan) \in Nat \ {0} /\ \A i \in 1..Len(plan) - 1 : Tail(plan)[i] = plan[i + 1]
    BY PlanSplit
  <1>2. PICK n \in Nat : n = Len(plan) - 1 /\ Len(plan) = n + 1
    <2>1. PICK m \in Nat \ {0} : m = Len(plan)
      BY <1>1
    <2>2. m - 1 \in Nat /\ m = (m - 1) + 1
      OBVIOUS
    <2> QED BY <2>1, <2>2
  <1>3. PICK rest \in Seq(Allocation) : rest = Tail(plan) /\ Len(rest) = n
                                        /\ \A i \in 1..n : rest[i] = plan[i + 1]
    BY <1>1, <1>2
  <1>4. ASSUME NEW i \in 1..n
        PROVE  /\ rest[i].sale \in 1..Len(sales) /\ sales[rest[i].sale].status = "Confirmed"
               /\ sales[rest[i].sale].customer = c
               /\ rest[i].amount <= Due(rest[i].sale)'
    <2>1. i + 1 \in 1..n + 1 /\ 1 \in 1..n + 1 /\ i + 1 # 1
      OBVIOUS
    <2>2. PICK s : s = plan[i + 1].sale
      OBVIOUS
    <2>3. /\ s \in 1..Len(sales) /\ sales[s].status = "Confirmed" /\ sales[s].customer = c
          /\ plan[i + 1].amount <= Due(s) /\ s # plan[1].sale
      BY <1>2, <2>1, <2>2 DEF Promised
    <2>4. PaidIn(payments', s) = PaidIn(payments, s)
      <3>1. PaidIn(payments', s) = PaidIn(payments, s) + (IF pay.sale = s THEN pay.amount ELSE 0)
        BY PaidAppended
      <3>2. PaidIn(payments, s) \in Nat
        BY PaidIsSum DEF Typed, TypeOK
      <3> QED BY <2>3, <3>1, <3>2
    <2>5. Due(s) = Total(sales[s].lines) - PaidIn(payments, s)
      BY <2>3, DueInt
    <2>6. Due(s)' = Total(sales[s].lines) - PaidIn(payments', s)
      <3>1. payments' \in Seq(Payment)
        BY DEF Typed, TypeOK
      <3>2. PaidSum(payments', s) = PaidIn(payments', s)
        BY <3>1, PaidIsSum
      <3>3. Paid(s)' = PaidSum(payments', s)
        BY DEF Paid, PaidSum
      <3> QED BY <3>2, <3>3 DEF Due
    <2> QED BY <1>3, <2>2, <2>3, <2>4, <2>5, <2>6
  <1>5. ASSUME NEW i \in 1..n, NEW k \in 1..n, rest[i].sale = rest[k].sale
        PROVE  i = k
    <2>1. i + 1 \in 1..n + 1 /\ k + 1 \in 1..n + 1
      OBVIOUS
    <2>2. i + 1 \in 1..Len(plan) /\ k + 1 \in 1..Len(plan)
      BY <1>2, <2>1
    <2>3. plan[i + 1].sale = plan[k + 1].sale
      BY <1>3, <1>5
    <2>4. i + 1 = k + 1
      BY <2>2, <2>3 DEF Promised
    <2> QED BY <2>4
  <1>6. Promised(rest, c)'
    BY <1>3, <1>4, <1>5 DEF Promised
  <1> QED BY <1>3, <1>6


(* A payment of a collection is a payment of its receipt, and of no other; *)
(* what is left of the plan is left to hand on.                            *)
LEMMA AllocationLinkKeeps ==
    ASSUME Typed, Receipted, Explained, CollectionsServed,
           NEW r \in Request, AllocationLink(r)
    PROVE  Typed' /\ Receipted' /\ Explained' /\ CollectionsServed'
  <1>1. PICK c \in Collection : /\ collecting[r] = c /\ Serving(r, c)
                                /\ \A o \in Request : Collects(o) => o = r
    BY CollectionOf DEF AllocationLink
  <1>2. /\ UNCHANGED <<sales, receipts>> /\ c.receipt \in 1..Len(receipts)
        /\ \E pay \in Payment :
              /\ pay.sale = c.plan[1].sale /\ pay.amount = c.plan[1].amount
              /\ payments' = Append(payments, pay)
        /\ grouped' = Append(grouped, c.receipt)
        /\ req'[r] = Idle /\ \A o \in Request : o # r => req'[o] = req[o]
        /\ collecting' = [collecting EXCEPT ![r] = Rest(r)]
        /\ Typed'
    BY <1>1, AllocationLinked
  <1>3. PICK pay \in Payment :
              /\ pay.sale = c.plan[1].sale /\ pay.amount = c.plan[1].amount
              /\ payments' = Append(payments, pay)
    BY <1>2
  <1>4. PICK m \in Nat \ {0} : m = c.receipt /\ m \in 1..Len(receipts)
    <2>1. c.receipt \in Nat
      BY DEF Collection
    <2>2. Len(receipts) \in Nat
      BY LenProperties DEF Receipted
    <2> QED BY <1>2, <2>1, <2>2
  <1>5. PICK plan \in Seq(Allocation) : plan = c.plan /\ plan # <<>> /\ Promised(plan, c.customer)
    BY <1>1 DEF Serving, Promised
  <1>6. PICK rest \in Seq(Allocation) :
              /\ rest = Tail(plan) /\ Len(rest) = Len(plan) - 1 /\ Len(plan) \in Nat \ {0}
              /\ plan[1] \in Allocation
              /\ Planned(plan) = plan[1].amount + Planned(rest)
              /\ Len(plan) = 1 => Planned(plan) = plan[1].amount
    BY <1>5, PlanSplit
  <1>7. /\ payments \in Seq(Payment) /\ Len(payments) \in Nat /\ grouped \in Seq(Nat)
        /\ Len(grouped) = Len(payments) /\ receipts \in Seq(Receipt)
    BY LenProperties DEF Typed, TypeOK, Receipted
  <1>8. \A k : GroupSum(payments', grouped', k)
                   = GroupSum(payments, grouped, k) + (IF m = k THEN pay.amount ELSE 0)
    BY <1>2, <1>3, <1>4, <1>7, GroupAppended
  <1>9. \A k : GroupSum(payments, grouped, k) \in Nat
    BY <1>7, GroupNat
  <1>10. /\ receipts[m].customer = c.customer
         /\ GroupSum(payments, grouped, m) + Planned(plan) = receipts[m].handed
    BY <1>1, <1>4, <1>5 DEF Serving
  <1>11. /\ 1 \in 1..Len(plan)
         /\ sales[pay.sale].customer = c.customer
    <2>1. 1 \in 1..Len(plan)
      BY <1>6
    <2> QED BY <1>3, <1>5, <2>1 DEF Promised
  <1>12. Receipted'
    <2>1. PICK n \in Nat : n = Len(payments) /\ n = Len(grouped)
      BY <1>7
    <2>2. /\ grouped' \in Seq(Nat) /\ Len(grouped') = n + 1 /\ Len(payments') = n + 1
          /\ grouped'[n + 1] = m /\ payments'[n + 1] = pay
          /\ \A i \in 1..n : grouped'[i] = grouped[i] /\ payments'[i] = payments[i]
      BY <1>2, <1>3, <1>4, <1>7, <2>1
    <2>3. ASSUME NEW i \in 1..n + 1
          PROVE  /\ grouped'[i] <= Len(receipts)
                 /\ grouped'[i] # 0 =>
                       sales[payments'[i].sale].customer = receipts[grouped'[i]].customer
      <3>1. CASE i = n + 1
        <4>1. m <= Len(receipts)
          BY <1>4, <1>7
        <4> QED BY <1>10, <1>11, <2>2, <3>1, <4>1
      <3>2. CASE i # n + 1
        <4>1. i \in 1..n
          BY <3>2
        <4> QED BY <2>1, <2>2, <4>1 DEF Receipted
      <3> QED BY <3>1, <3>2
    <2> QED BY <1>2, <1>7, <2>1, <2>2, <2>3 DEF Receipted
  <1>13. \A o \in Request : collecting'[o] = IF o = r THEN Rest(r) ELSE NoCollection
    <2>1. collecting' = [collecting EXCEPT ![r] = Rest(r)]
      BY <1>2
    <2>2. \A o \in Request : o # r => collecting[o] = NoCollection
      BY <1>1 DEF Serving
    <2> QED BY <2>1, <2>2 DEF CollectionsServed
  <1>14. ASSUME NEW k \in 1..Len(receipts), k # m
         PROVE  GroupSum(payments', grouped', k) = receipts[k].handed
    <2>1. \A o \in Request : Collects(o) => collecting[o].receipt # k
      BY <1>1, <1>4, <1>14
    <2>2. GroupSum(payments, grouped, k) = receipts[k].handed
      BY <2>1 DEF Explained
    <2> QED BY <1>8, <1>9, <1>14, <2>2
  <1>15. CASE Len(plan) = 1
    <2>1. Rest(r) = NoCollection
      BY <1>1, <1>5, <1>15 DEF Rest
    <2>2. GroupSum(payments', grouped', m) = receipts[m].handed
      BY <1>3, <1>5, <1>6, <1>8, <1>10, <1>15
    <2>3. Explained'
      BY <1>2, <1>14, <2>2 DEF Explained
    <2>4. \A o \in Request : collecting'[o] = NoCollection
      BY <1>13, <2>1
    <2>5. collecting' \in [Request -> {NoCollection} \cup Collection]
      BY <1>2, <2>1 DEF CollectionsServed
    <2>6. CollectionsServed'
      BY <2>4, <2>5, CollectionSome DEF CollectionsServed
    <2> QED BY <1>2, <1>12, <2>3, <2>6
  <1>16. CASE Len(plan) # 1
    <2>1. PICK new : new = [c EXCEPT !.plan = Tail(@)]
      OBVIOUS
    <2>2. /\ new \in Collection /\ new.plan = rest /\ new.customer = c.customer
          /\ new.receipt = m
      BY <1>4, <1>5, <1>6, <2>1 DEF Collection
    <2>3. Rest(r) = new
      BY <1>1, <1>5, <1>16, <2>1 DEF Rest
    <2>4. collecting' \in [Request -> {NoCollection} \cup Collection]
      BY <1>2, <2>2, <2>3 DEF CollectionsServed
    <2>5. collecting'[r] = new /\ \A o \in Request : o # r => collecting'[o] = NoCollection
      BY <1>13, <2>3
    <2>6. Explained'
      <3>1. ASSUME NEW k \in 1..Len(receipts),
                   \A o \in Request : collecting'[o] # NoCollection => collecting'[o].receipt # k
            PROVE  GroupSum(payments', grouped', k) = receipts[k].handed
        <4>1. k # m
          BY <2>2, <2>5, <3>1, CollectionSome
        <4> QED BY <1>14, <4>1
      <3> QED BY <1>2, <3>1 DEF Explained, Collects
    <2>7. rest # <<>>
      <3>1. Len(rest) # 0
        BY <1>6, <1>16
      <3> QED BY <3>1
    <2>8. Promised(rest, c.customer)'
      <3>1. PICK customer : customer = c.customer
        OBVIOUS
      <3>2. Promised(plan, customer)
        BY <1>5, <3>1
      <3>3. UNCHANGED sales /\ pay.sale = plan[1].sale /\ payments' = Append(payments, pay) /\ plan # <<>>
        BY <1>2, <1>3, <1>5
      <3>4. Promised(Tail(plan), customer)'
        BY <1>2, <3>2, <3>3, RestPromised
      <3> QED BY <1>6, <3>1, <3>4
    <2>9. GroupSum(payments', grouped', m) + Planned(rest) = receipts[m].handed
      <3>1. Planned(rest) \in Nat
        BY PlanSplit
      <3>2. pay.amount = plan[1].amount /\ pay.amount \in Nat
        BY <1>3, <1>5 DEF Payment
      <3> QED BY <1>6, <1>8, <1>9, <1>10, <3>1, <3>2
    <2>10. Serving(r, new)'
      <3>1. \A o \in Request : o # r => collecting'[o] = NoCollection /\ req'[o] = Idle
        BY <1>1, <1>2, <2>5 DEF Serving
      <3>2. req'[r].step # "payLink" /\ req'[r] = Idle
        BY <1>2 DEF Idle
      <3> QED BY <1>2, <1>4, <1>10, <2>2, <2>7, <2>8, <2>9, <3>1, <3>2 DEF Serving
    <2>11. CollectionsServed'
      <3>1. ASSUME NEW o \in Request, NEW d \in Collection, collecting'[o] = d
            PROVE  Serving(o, d)'
        <4>1. o = r /\ d = new
          BY <2>5, <3>1, CollectionSome
        <4> QED BY <2>10, <4>1
      <3> QED BY <2>4, <3>1 DEF CollectionsServed
    <2> QED BY <1>2, <1>12, <2>6, <2>11
  <1> QED BY <1>15, <1>16

\* The receipts, what they group, and the collection that is still at work.
ReceiptsHeld == Typed /\ Receipted /\ Explained /\ CollectionsServed

(* Every step keeps the receipts, where nothing is served beside anything  *)
(* else and nothing dies.                                                  *)
LEMMA ReceiptsHeldStep == Unbroken /\ ReceiptsHeld /\ [ReceiptsNext]_collectVars => ReceiptsHeld'
  <1> SUFFICES ASSUME Unbroken, ReceiptsHeld, [ReceiptsNext]_collectVars PROVE ReceiptsHeld'
    OBVIOUS
  <1> USE DEF ReceiptsHeld
  <1>1. CASE UNCHANGED collectVars
    <2>1. /\ UNCHANGED <<sales, lastNumber, moves, entries, payments, req>>
          /\ UNCHANGED <<receipts, grouped, collecting>>
      BY <1>1 DEF collectVars
    <2>2. Typed'
      BY <2>1, RequestsSame, MovesTyped
    <2>3. Receipted' /\ Explained'
      BY <2>1 DEF Receipted, Explained, Collects
    <2>4. CollectionsServed'
      <3>1. ASSUME NEW r \in Request, NEW c \in Collection, collecting[r] = c
            PROVE  Serving(r, c)'
        <4>1. Serving(r, c)
          BY <3>1 DEF CollectionsServed
        <4>2. Promised(c.plan, c.customer)'
          <5>1. PICK plan, customer : plan = c.plan /\ customer = c.customer
            OBVIOUS
          <5>2. Promised(plan, customer)
            BY <4>1, <5>1 DEF Serving
          <5>3. Promised(plan, customer)'
            BY <2>1, <5>2, SameTables
          <5> QED BY <5>1, <5>3
        <4> QED BY <2>1, <4>1, <4>2 DEF Serving
      <3> QED BY <2>1, <3>1 DEF CollectionsServed
    <2> QED BY <2>2, <2>3, <2>4
  <1>2. CASE SaleStep
    BY <1>2, SaleStepKeeps DEF Unbroken
  <1>3. ASSUME NEW r \in Request, NEW c \in Customer, NEW amount \in Collected,
               CollectRead(r, c, amount)
        PROVE  ReceiptsHeld'
    BY <1>3, CollectReadKeeps DEF Unbroken
  <1>4. ASSUME NEW r \in Request, ReceiptInsert(r) PROVE ReceiptsHeld'
    BY <1>4, ReceiptInsertKeeps
  <1>5. ASSUME NEW r \in Request, AllocationRead(r) PROVE ReceiptsHeld'
    BY <1>5, AllocationReadKeeps
  <1>6. ASSUME NEW r \in Request, NEW a \in Account, AllocationPost(r, a) PROVE ReceiptsHeld'
    BY <1>6, AllocationPostKeeps
  <1>7. ASSUME NEW r \in Request, AllocationLink(r) PROVE ReceiptsHeld'
    BY <1>7, AllocationLinkKeeps
  <1>8. ASSUME NEW r \in Request, CollectQuit(r) PROVE ReceiptsHeld'
    BY <1>8, CollectQuitKeeps
  <1> QED BY <1>1, <1>2, <1>3, <1>4, <1>5, <1>6, <1>7, <1>8 DEF ReceiptsNext, Collecting

LEMMA ReceiptsHeldInit == ReceiptsInit => ReceiptsHeld
  <1> SUFFICES ASSUME ReceiptsInit PROVE ReceiptsHeld
    OBVIOUS
  <1>1. /\ Init /\ receipts = <<>> /\ grouped = <<>>
        /\ collecting = [r \in Request |-> NoCollection]
    BY DEF ReceiptsInit
  <1>2. Typed
    BY <1>1, TypedInit
  <1>3. payments = <<>>
    BY <1>1 DEF Init
  <1>4. Receipted
    BY <1>1, <1>3, EmptySeq DEF Receipted
  <1>5. Explained
    BY <1>1, EmptySeq DEF Explained
  <1>6. CollectionsServed
    BY <1>1, CollectionSome DEF CollectionsServed
  <1> QED BY <1>2, <1>4, <1>5, <1>6 DEF ReceiptsHeld

LEMMA ReceiptsHeldExplains == ReceiptsHeld => ReceiptExplained
  <1> SUFFICES ASSUME ReceiptsHeld PROVE ReceiptExplained
    OBVIOUS
  <1>1. \A k : GroupedBy(k) = GroupSum(payments, grouped, k)
    BY DEF GroupedBy, GroupSum
  <1> QED BY <1>1 DEF ReceiptExplained, ReceiptsHeld, Receipted, Explained

(* Where nothing is served beside a collection and nothing dies between    *)
(* two of its writes, every receipt groups exactly the money that was      *)
(* handed over for it, in payments of its own customer's sales             *)
(* (services/customer_receipts.rs, collect): a plan made of one reading of *)
(* the debts is paid to its end, however many debts it takes.              *)
THEOREM ReceiptsExplained == Unbroken => (ReceiptsSpec => []ReceiptExplained)
  <1>1. CASE Unbroken
    <2>1. ReceiptsInit => ReceiptsHeld
      BY ReceiptsHeldInit
    <2>2. ReceiptsHeld /\ [ReceiptsNext]_collectVars => ReceiptsHeld'
      BY <1>1, ReceiptsHeldStep
    <2>3. ReceiptsHeld => ReceiptExplained
      BY ReceiptsHeldExplains
    <2> QED BY <2>1, <2>2, <2>3, PTL DEF ReceiptsSpec
  <1>2. CASE ~ Unbroken
    BY <1>2
  <1> QED BY <1>1, <1>2

=============================================================================
