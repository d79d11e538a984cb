--------------------------- MODULE PurchasesProofs ---------------------------
(***************************************************************************)
(* Proofs about Purchases for every set of products, suppliers, accounts   *)
(* and requests and every bound.  However requests overlap and fail: the   *)
(* types; that the table implements SaleDocument, so that its numbers are  *)
(* dense and unique and a numbered purchase keeps its lines; that every    *)
(* payment row has its transactions, and that a confirm never puts an      *)
(* older cost over a newer one.  With requests served one at a time: a     *)
(* purchase is paid within its total, received as bought, reversed whole   *)
(* where it was annulled, paid by plan in order, and its costs are what    *)
(* was read when they are written.                                         *)
(***************************************************************************)
EXTENDS Purchases, SumsProofs, SequenceTheorems

DocumentLaws == INSTANCE SaleDocumentProofs WITH docs <- docs, lastNumber <- lastNumber,
                                                 Year <- Year, Body <- Seq(Line)

-----------------------------------------------------------------------------
(* The invariant: the table is typed, a status fits its stamp, and what a  *)
(* request holds of a purchase is still true of it.                        *)

Cancelling == {"reverse", "out", "link"}

\* What a request q relies on, of the table as it is.
Relies(q, table) ==
    /\ q.step \in {"header", "confirm", "discard"} \cup Cancelling => q.purchase \in 1..Len(table)
    /\ q.step = "header" => q.header \in Header
    /\ q.step = "confirm" => q.seen \in Purchase
    /\ q.step \in Cancelling => table[q.purchase].number # NoNumber
    /\ q.step \in {"reverse", "out"} =>
           q = [step |-> q.step, purchase |-> q.purchase, lines |-> q.lines, pays |-> q.pays]
    /\ q.step = "pay" => q = [step |-> "pay", plan |-> q.plan, account |-> q.account]

Typed ==
    /\ purchases \in Seq(Purchase) /\ lastNumber \in [Year -> Nat]
    /\ \A k \in 1..Len(purchases) :
           /\ purchases[k].status \in {"Draft", "deleted"} => purchases[k].number = NoNumber
           /\ purchases[k].status = "Confirmed" => purchases[k].number # NoNumber
    /\ req = [r \in Request |-> req[r]]
    /\ \A r \in Request : Relies(req[r], purchases)

\* The same of the requests after a step.
RequestsKept ==
    /\ req' = [r \in Request |-> req'[r]]
    /\ \A r \in Request : Relies(req'[r], purchases')

\* How one row is rewritten, with what happens to the sequence.
Rewritten(k, x) ==
    \/ /\ purchases[k].status = "Draft"
       /\ x = [purchases[k] EXCEPT !.lines = x.lines]
       /\ UNCHANGED lastNumber
    \/ /\ purchases[k].number = NoNumber
       /\ x = [purchases[k] EXCEPT !.status = "deleted", !.lines = <<>>]
       /\ UNCHANGED lastNumber
    \/ /\ purchases[k].status # "deleted"
       /\ x = [purchases[k] EXCEPT !.header = x.header]
       /\ UNCHANGED lastNumber
    \/ /\ purchases[k].status # "deleted"
       /\ x = [purchases[k] EXCEPT !.status = "Cancelled"]
       /\ UNCHANGED lastNumber
    \/ \E y \in Year :
       /\ purchases[k].status = "Draft"
       /\ x = [purchases[k] EXCEPT !.status = "Confirmed", !.number = <<y, lastNumber[y] + 1>>]
       /\ lastNumber' = [lastNumber EXCEPT ![y] = @ + 1]

\* The three things a step can do to the table.
TableStep ==
    \/ UNCHANGED <<purchases, lastNumber>>
    \/ /\ UNCHANGED lastNumber
       /\ \E x \in Purchase : /\ x.status = "Draft" /\ x.number = NoNumber
                        /\ purchases' = Append(purchases, x)
    \/ \E k \in 1..Len(purchases) : \E x \in Purchase :
          purchases' = [purchases EXCEPT ![k] = x] /\ Rewritten(k, x)

(* What a step on the table leaves: its types, stamps that fit, and the    *)
(* numbers that were given.                                                *)
TableKept ==
    /\ purchases' \in Seq(Purchase) /\ lastNumber' \in [Year -> Nat]
    /\ 1..Len(purchases) \subseteq 1..Len(purchases')
    /\ \A k \in 1..Len(purchases) :
           purchases[k].number # NoNumber => purchases'[k].number # NoNumber
    /\ \A k \in 1..Len(purchases') :
           /\ purchases'[k].status \in {"Draft", "deleted"} => purchases'[k].number = NoNumber
           /\ purchases'[k].status = "Confirmed" => purchases'[k].number # NoNumber

(* A rewritten row is stamped as its status says. *)
LEMMA RewrittenKeeps ==
    ASSUME Typed, NEW k \in 1..Len(purchases), NEW x \in Purchase, Rewritten(k, x)
    PROVE  /\ purchases[k].number # NoNumber => x.number # NoNumber
           /\ x.status \in {"Draft", "deleted"} => x.number = NoNumber
           /\ x.status = "Confirmed" => x.number # NoNumber
           /\ lastNumber' \in [Year -> Nat]
  <1>1. purchases[k] \in Purchase /\ lastNumber \in [Year -> Nat]
    BY ElementOfSeq DEF Typed
  <1>2. /\ purchases[k].status \in {"Draft", "deleted"} => purchases[k].number = NoNumber
        /\ purchases[k].status = "Confirmed" => purchases[k].number # NoNumber
    BY DEF Typed
  <1>3. CASE \E y \in Year :
             /\ purchases[k].status = "Draft"
             /\ x = [purchases[k] EXCEPT !.status = "Confirmed", !.number = <<y, lastNumber[y] + 1>>]
             /\ lastNumber' = [lastNumber EXCEPT ![y] = @ + 1]
    <2>1. PICK y \in Year :
             /\ purchases[k].status = "Draft"
             /\ x = [purchases[k] EXCEPT !.status = "Confirmed", !.number = <<y, lastNumber[y] + 1>>]
             /\ lastNumber' = [lastNumber EXCEPT ![y] = @ + 1]
      BY <1>3
    <2>2. x.status = "Confirmed" /\ x.number = <<y, lastNumber[y] + 1>>
      BY <1>1, <2>1 DEF Purchase
    <2>3. x.number # NoNumber
      BY <2>2 DEF NoNumber
    <2>4. lastNumber' \in [Year -> Nat]
      BY <1>1, <2>1
    <2> QED BY <1>2, <2>1, <2>2, <2>3, <2>4
  <1>4. CASE lastNumber' = lastNumber
    <2> QED BY <1>1, <1>2, <1>4, <1>3 DEF Rewritten, Purchase
  <1> QED BY <1>3, <1>4 DEF Rewritten

(* Every step on the table leaves that. *)
LEMMA TableTyped ==
    ASSUME Typed, TableStep
    PROVE  TableKept
  <1>1. purchases \in Seq(Purchase) /\ lastNumber \in [Year -> Nat] /\ Len(purchases) \in Nat
    BY DEF Typed
  <1>2. \A k \in 1..Len(purchases) :
            /\ purchases[k].status \in {"Draft", "deleted"} => purchases[k].number = NoNumber
            /\ purchases[k].status = "Confirmed" => purchases[k].number # NoNumber
    BY DEF Typed
  <1>3. CASE UNCHANGED <<purchases, lastNumber>>
    BY <1>1, <1>2, <1>3 DEF TableKept
  <1>4. CASE /\ UNCHANGED lastNumber
             /\ \E x \in Purchase : /\ x.status = "Draft" /\ x.number = NoNumber
                              /\ purchases' = Append(purchases, x)
    <2>1. PICK x \in Purchase : /\ x.status = "Draft" /\ x.number = NoNumber
                          /\ purchases' = Append(purchases, x)
      BY <1>4
    <2>2. /\ purchases' \in Seq(Purchase) /\ Len(purchases') = Len(purchases) + 1
          /\ purchases'[Len(purchases) + 1] = x
          /\ \A k \in 1..Len(purchases) : purchases'[k] = purchases[k]
      BY <1>1, <2>1
    <2>3. \A k \in 1..Len(purchases') : k \in 1..Len(purchases) \/ purchases'[k] = x
      BY <1>1, <2>2
    <2>4. 1..Len(purchases) \subseteq 1..Len(purchases')
      BY <1>1, <2>2
    <2> QED BY <1>1, <1>2, <1>4, <2>1, <2>2, <2>3, <2>4 DEF TableKept
  <1>5. ASSUME NEW k \in 1..Len(purchases), NEW x \in Purchase,
               purchases' = [purchases EXCEPT ![k] = x], Rewritten(k, x)
        PROVE  TableKept
    <2>1. /\ purchases' \in Seq(Purchase) /\ Len(purchases') = Len(purchases) /\ purchases'[k] = x
          /\ \A t \in 1..Len(purchases) : t # k => purchases'[t] = purchases[t]
      BY <1>1, <1>5, ExceptSeq
    <2>2. /\ purchases[k].number # NoNumber => x.number # NoNumber
          /\ x.status \in {"Draft", "deleted"} => x.number = NoNumber
          /\ x.status = "Confirmed" => x.number # NoNumber
          /\ lastNumber' \in [Year -> Nat]
      BY <1>5, RewrittenKeeps
    <2> QED BY <1>1, <1>2, <2>1, <2>2 DEF TableKept
  <1> QED BY <1>3, <1>4, <1>5 DEF TableStep

(* The rows and their lines are typed. *)
LEMMA RowsTyped ==
    ASSUME Typed
    PROVE  /\ purchases \in Seq(Purchase) /\ Len(purchases) \in Nat /\ lastNumber \in [Year -> Nat]
           /\ \A k \in 1..Len(purchases) : /\ purchases[k] \in Purchase /\ purchases[k].lines \in Seq(Line)
                                    /\ Len(purchases[k].lines) \in Nat
  <1>1. purchases \in Seq(Purchase) /\ Len(purchases) \in Nat /\ lastNumber \in [Year -> Nat]
    BY DEF Typed
  <1>2. \A k \in 1..Len(purchases) : purchases[k] \in Purchase
    BY <1>1, ElementOfSeq
  <1>3. \A k \in 1..Len(purchases) : purchases[k].lines \in Seq(Line)
    BY <1>2 DEF Purchase
  <1> QED BY <1>1, <1>2, <1>3, LenProperties

-----------------------------------------------------------------------------
(* What a request relies on stays.                                         *)

(* One request goes on with what holds after the step, the others wait. *)
LEMMA OneMoves ==
    ASSUME Typed, TableKept, NEW r \in Request, NEW st, Becomes(r, st), Relies(st, purchases')
    PROVE  RequestsKept
  <1>1. req' = [o \in Request |-> IF o = r THEN st ELSE req[o]]
    BY DEF Typed, Becomes
  <1>2. ASSUME NEW o \in Request PROVE Relies(req'[o], purchases')
    <2>1. CASE o = r
      BY <1>1, <2>1
    <2>2. CASE o # r
      <3>1. req'[o] = req[o] /\ Relies(req[o], purchases)
        BY <1>1, <2>2 DEF Typed
      <3> QED BY <3>1 DEF Relies, TableKept
    <2> QED BY <2>1, <2>2
  <1>3. req' = [o \in Request |-> req'[o]]
    BY <1>1
  <1> QED BY <1>2, <1>3 DEF RequestsKept

(* What holds before a step that keeps the table holds after it. *)
LEMMA OneReads ==
    ASSUME Typed, TableKept, NEW r \in Request, NEW st, Becomes(r, st), Relies(st, purchases)
    PROVE  RequestsKept
  <1>1. Relies(st, purchases')
    BY DEF Relies, TableKept
  <1> QED BY <1>1, OneMoves

(* A request that ends relies on nothing. *)
LEMMA OneEnds ==
    ASSUME Typed, TableKept, NEW r \in Request, Becomes(r, Idle)
    PROVE  RequestsKept
  <1>1. Relies(Idle, purchases)
    BY DEF Relies, Idle, Cancelling
  <1> QED BY <1>1, OneReads

(* Requests a step leaves alone are kept. *)
LEMMA RequestsSame ==
    ASSUME Typed, TableKept, UNCHANGED req
    PROVE  RequestsKept
  <1>1. req' = [o \in Request |-> req'[o]]
    BY DEF Typed
  <1>2. \A o \in Request : Relies(req[o], purchases')
    BY DEF Typed, Relies, TableKept
  <1> QED BY <1>1, <1>2 DEF RequestsKept

-----------------------------------------------------------------------------
(* Every step is one of these on the table.                                *)

(* Edits of drafts. *)
LEMMA DraftingOnTable ==
    ASSUME Typed, Drafting
    PROVE  TableStep
  <1>1. /\ purchases \in Seq(Purchase) /\ lastNumber \in [Year -> Nat]
        /\ \A p \in 1..Len(purchases) : /\ purchases[p] \in Purchase
                                        /\ purchases[p].lines \in Seq(Line)
                                        /\ Len(purchases[p].lines) \in Nat
    BY RowsTyped
  <1>2. ASSUME NEW header \in Headers, CreateDraft(header) PROVE TableStep
    <2> DEFINE x == [status |-> "Draft", number |-> NoNumber, header |-> header, lines |-> <<>>]
    <2>1. x \in Purchase
      BY EmptySeq, InputsAssumption DEF Purchase, Number
    <2>2. x.status = "Draft" /\ x.number = NoNumber
      OBVIOUS
    <2>3. purchases' = Append(purchases, x) /\ UNCHANGED lastNumber
      BY <1>2 DEF CreateDraft
    <2> HIDE DEF x
    <2> QED BY <2>1, <2>2, <2>3 DEF TableStep
  <1>3. ASSUME NEW p \in 1..Len(purchases), NEW lines \in Seq(Line), EditLines(p, lines)
        PROVE  TableStep
    <2> DEFINE x == [purchases[p] EXCEPT !.lines = lines]
    <2>1. x \in Purchase /\ x = [purchases[p] EXCEPT !.lines = x.lines]
      BY <1>1 DEF Purchase
    <2>2. /\ purchases' = [purchases EXCEPT ![p] = x] /\ UNCHANGED lastNumber
          /\ purchases[p].status = "Draft"
      BY <1>3 DEF EditLines, Rewrite, Is
    <2> HIDE DEF x
    <2> QED BY <2>1, <2>2 DEF TableStep, Rewritten
  <1>4. ASSUME NEW p \in 1..Len(purchases), NEW line \in Lines, AddLine(p, line) PROVE TableStep
    <2>1. Append(purchases[p].lines, line) \in Seq(Line)
      BY <1>1, InputsAssumption
    <2> QED BY <1>3, <1>4, <2>1 DEF AddLine
  <1>5. ASSUME NEW p \in 1..Len(purchases), NEW i \in 1..MaxLines, NEW line \in Lines,
               UpdateLine(p, i, line)
        PROVE  TableStep
    <2>1. i \in 1..Len(purchases[p].lines) /\ line \in Line
      BY <1>5, InputsAssumption DEF UpdateLine
    <2>2. [purchases[p].lines EXCEPT ![i] = line] \in Seq(Line)
      BY <1>1, <2>1, ExceptSeq
    <2> QED BY <1>3, <1>5, <2>2 DEF UpdateLine
  <1>6. ASSUME NEW p \in 1..Len(purchases), NEW i \in 1..MaxLines, RemoveLine(p, i)
        PROVE  TableStep
    <2>1. i \in 1..Len(purchases[p].lines)
      BY <1>6 DEF RemoveLine
    <2>2. RemoveAt(purchases[p].lines, i) \in Seq(Line)
      BY <1>1, <2>1 DEF RemoveAt
    <2> QED BY <1>3, <1>6, <2>2 DEF RemoveLine
  <1>7. ASSUME NEW p \in 1..Len(purchases), DeleteDraft(p) PROVE TableStep
    <2> DEFINE x == [purchases[p] EXCEPT !.status = "deleted", !.lines = <<>>]
    <2>1. x \in Purchase
      BY <1>1, EmptySeq DEF Purchase
    <2>2. /\ purchases' = [purchases EXCEPT ![p] = x] /\ UNCHANGED lastNumber
          /\ purchases[p].number = NoNumber
      BY <1>7 DEF DeleteDraft, Rewrite, Is, Typed
    <2>3. Rewritten(p, x)
      BY <2>2 DEF Rewritten
    <2> HIDE DEF x
    <2> QED BY <2>1, <2>2, <2>3 DEF TableStep
  <1> QED BY <1>2, <1>4, <1>5, <1>6, <1>7 DEF Drafting

(* Steps of a request under way. *)
LEMMA WorksOnTable ==
    ASSUME Typed, NEW r \in Request, Works(r)
    PROVE  TableStep
  <1>1. PICK q : q = req[r]
    OBVIOUS
  <1>2. Relies(q, purchases)
    BY <1>1 DEF Typed
  <1>3. \A p \in 1..Len(purchases) : purchases[p] \in Purchase
    BY RowsTyped
  <1>4. ASSUME HeaderWrite(r) PROVE TableStep
    <2>1. /\ q.purchase \in 1..Len(purchases) /\ q.header \in Header
          /\ purchases[q.purchase].status # "deleted" /\ UNCHANGED lastNumber
          /\ purchases' = [purchases EXCEPT ![q.purchase] =
                                [purchases[q.purchase] EXCEPT !.header = q.header]]
      BY <1>1, <1>2, <1>4 DEF HeaderWrite, Relies, Rewrite
    <2> DEFINE p == q.purchase
               x == [purchases[p] EXCEPT !.header = q.header]
    <2>2. x \in Purchase /\ x = [purchases[p] EXCEPT !.header = x.header]
      BY <1>3, <2>1 DEF Purchase
    <2> HIDE DEF x
    <2>3. Rewritten(p, x)
      BY <2>1, <2>2 DEF Rewritten
    <2> QED BY <2>1, <2>2, <2>3 DEF TableStep, x
  <1>5. ASSUME Discard(r) \/ CancelClose(r) PROVE TableStep
    <2>1. /\ q.purchase \in 1..Len(purchases) /\ UNCHANGED lastNumber
          /\ purchases' = [purchases EXCEPT ![q.purchase] =
                                [purchases[q.purchase] EXCEPT !.status = "Cancelled"]]
      BY <1>1, <1>2, <1>5 DEF Discard, CancelClose, Close, Relies, Cancelling, Rewrite
    <2> DEFINE p == q.purchase
               x == [purchases[p] EXCEPT !.status = "Cancelled"]
    <2>2. purchases[p].status # "deleted"
      BY <1>1, <1>2, <1>5, <2>1 DEF Discard, CancelClose, Relies, Cancelling, Typed
    <2>3. x \in Purchase
      BY <1>3, <2>1 DEF Purchase
    <2>4. Rewritten(p, x)
      BY <2>1, <2>2 DEF Rewritten
    <2> QED BY <2>1, <2>3, <2>4 DEF TableStep
  <1>6. ASSUME ConfirmUnit(r) PROVE TableStep
    <2> DEFINE p == q.purchase
               y == q.seen.header.date[1]
               x == [purchases[p] EXCEPT !.status = "Confirmed", !.number = <<y, lastNumber[y] + 1>>]
    <2>1. p \in 1..Len(purchases) /\ q.seen \in Purchase
      BY <1>1, <1>2, <1>6 DEF ConfirmUnit, Relies
    <2>2. y \in Year
      <3>1. q.seen.header \in Header
        BY <2>1 DEF Purchase
      <3>2. q.seen.header.date \in Year \X Day
        BY <3>1 DEF Header, Date
      <3> QED BY <3>2
    <2>3. lastNumber[y] + 1 \in Nat \ {0}
      <3>1. lastNumber \in [Year -> Nat]
        BY DEF Typed
      <3>2. PICK year \in Year, last \in Nat : year = y /\ last = lastNumber[year]
        BY <2>2, <3>1
      <3>3. last + 1 \in Nat \ {0}
        OBVIOUS
      <3> QED BY <3>2, <3>3
    <2>4. x \in Purchase
      BY <1>3, <2>1, <2>2, <2>3 DEF Purchase, Number
    <2>5. /\ purchases' = [purchases EXCEPT ![p] = x] /\ purchases[p].status = "Draft"
          /\ lastNumber' = [lastNumber EXCEPT ![y] = @ + 1]
      BY <1>1, <1>6 DEF ConfirmUnit, UnitAccepts, Rewrite, NextNumber
    <2>6. Rewritten(p, x)
      BY <2>2, <2>5 DEF Rewritten
    <2> HIDE DEF x, p
    <2> QED BY <2>1, <2>4, <2>5, <2>6 DEF TableStep
  <1>7. \/ HeaderWrite(r) \/ Discard(r) \/ CancelClose(r) \/ ConfirmUnit(r)
        \/ UNCHANGED <<purchases, lastNumber>>
    BY DEF Works, PayCheck, PayPost, PayLink, OutCheck, OutInsert, RefundPost, RefundLink,
           CostWrite, MoveInsert, Unwritten
  <1> QED BY <1>4, <1>5, <1>6, <1>7 DEF TableStep

(* All of them. *)
LEMMA StepOnTable ==
    ASSUME Typed, [Next]_vars
    PROVE  TableStep
  <1>1. ASSUME NEW r \in Request, Starts(r) \/ Quit(r) PROVE TableStep
    <2>1. UNCHANGED <<purchases, lastNumber>>
      BY <1>1 DEF Starts, Quit, HeaderRead, ConfirmRead, Pay, CancelRead, PaySupplier, CostRead,
                  MoveRead, Unwritten
    <2> QED BY <2>1 DEF TableStep
  <1>2. CASE UNCHANGED vars
    BY <1>2 DEF vars, TableStep
  <1> QED BY <1>1, <1>2, DraftingOnTable, WorksOnTable DEF Next

-----------------------------------------------------------------------------
(* The invariant is inductive.                                             *)

(* A request that starts holds what it has read. *)
LEMMA StartsKeep ==
    ASSUME Typed, TableKept, NEW r \in Request, Starts(r)
    PROVE  RequestsKept
  <1>1. \A p \in 1..Len(purchases) : purchases[p] \in Purchase
    BY RowsTyped
  <1>2. ASSUME NEW p \in 1..Len(purchases), NEW header \in Headers, HeaderRead(r, p, header)
        PROVE  RequestsKept
    <2> DEFINE st == [step |-> "header", purchase |-> p, header |-> header]
    <2>1. Relies(st, purchases)
      BY InputsAssumption DEF Relies, Cancelling
    <2>2. Becomes(r, st)
      BY <1>2 DEF HeaderRead
    <2> QED BY <2>1, <2>2, OneReads
  <1>3. ASSUME NEW p \in 1..Len(purchases), NEW a \in Account, ConfirmRead(r, p, a)
        PROVE  RequestsKept
    <2> DEFINE st == [step |-> "confirm", purchase |-> p, seen |-> purchases[p], account |-> a]
    <2>1. Relies(st, purchases)
      BY <1>1 DEF Relies, Cancelling
    <2>2. Becomes(r, st)
      BY <1>3 DEF ConfirmRead
    <2> QED BY <2>1, <2>2, OneReads
  <1>4. ASSUME NEW p \in 1..Len(purchases), CancelRead(r, p) PROVE RequestsKept
    <2>1. CASE Becomes(r, [step |-> "discard", purchase |-> p])
      <3>1. Relies([step |-> "discard", purchase |-> p], purchases)
        BY DEF Relies, Cancelling
      <3> QED BY <2>1, <3>1, OneReads
    <2>2. ASSUME NEW pays, NEW lines, purchases[p].status = "Confirmed",
                 Becomes(r, [step |-> "reverse", purchase |-> p, pays |-> pays, lines |-> lines])
          PROVE  RequestsKept
      <3> DEFINE st == [step |-> "reverse", purchase |-> p, pays |-> pays, lines |-> lines]
      <3>1. Relies(st, purchases)
        BY <2>2 DEF Relies, Cancelling, Typed
      <3> QED BY <2>2, <3>1, OneReads
    <2> QED BY <1>4, <2>1, <2>2 DEF CancelRead, Is
  <1>5. ASSUME NEW st, st.step \in {"pay", "payPost", "cost", "move"}, Becomes(r, st),
               st.step = "pay" => st = [step |-> "pay", plan |-> st.plan, account |-> st.account]
        PROVE  RequestsKept
    <2>1. Relies(st, purchases)
      BY <1>5 DEF Relies, Cancelling
    <2> QED BY <1>5, <2>1, OneReads
  <1>6. ASSUME NEW p \in 1..Len(purchases), NEW amount \in PayAmount, NEW a \in Account,
               Pay(r, p, amount, a)
        PROVE  RequestsKept
    BY <1>5, <1>6 DEF Pay
  <1>7. ASSUME NEW s \in Supplier, NEW amount \in PayAmount, NEW a \in Account,
               PaySupplier(r, s, amount, a)
        PROVE  RequestsKept
    BY <1>5, <1>7 DEF PaySupplier
  <1>8. ASSUME NEW product \in Product, NEW s \in Supplier, NEW cost \in Cost, NEW date \in Date,
               CostRead(r, product, s, cost, date)
        PROVE  RequestsKept
    <2> DEFINE st == [step |-> "cost", product |-> product, supplier |-> s, cost |-> cost,
                      date |-> date, branch |-> Branch(costs[product, s], cost)]
    <2>1. Becomes(r, st)
      BY <1>8 DEF CostRead
    <2>2. st.step = "cost"
      OBVIOUS
    <2> HIDE DEF st
    <2> QED BY <1>5, <2>1, <2>2
  <1>9. ASSUME NEW product \in Tracked, NEW qty \in Qty,
               MoveRead(r, product, qty) \/ MoveRead(r, product, -qty)
        PROVE  RequestsKept
    BY <1>5, <1>9 DEF MoveRead
  <1> QED BY <1>2, <1>3, <1>4, <1>6, <1>7, <1>8, <1>9 DEF Starts

(* A request under way goes on with the purchase it holds, or ends. *)
LEMMA WorksKeep ==
    ASSUME Typed, TableKept, NEW r \in Request, Works(r) \/ Quit(r)
    PROVE  RequestsKept
  <1>1. PICK q : q = req[r]
    OBVIOUS
  <1>2. Relies(q, purchases)
    BY <1>1 DEF Typed
  <1>3. CASE Becomes(r, Idle)
    BY <1>3, OneEnds
  <1>4. ASSUME NEW st, Becomes(r, st), Relies(st, purchases) PROVE RequestsKept
    BY <1>4, OneReads
  <1>5. ASSUME PayCheck(r) PROVE RequestsKept
    <2>1. q = [step |-> "pay", plan |-> q.plan, account |-> q.account]
      BY <1>1, <1>2, <1>5 DEF PayCheck, Relies
    <2>2. PICK st : st = [step |-> "payPost", plan |-> q.plan, account |-> q.account]
      OBVIOUS
    <2>3. st = [q EXCEPT !.step = "payPost"]
      BY <2>1, <2>2
    <2>4. Relies(st, purchases)
      BY <2>2 DEF Relies, Cancelling
    <2> QED BY <1>1, <1>4, <1>5, <2>3, <2>4 DEF PayCheck
  <1>6. ASSUME PayPost(r) PROVE RequestsKept
    <2> DEFINE st == [step |-> "payLink", plan |-> q.plan, account |-> q.account,
                      tx |-> Len(entries) + 1]
    <2>1. Relies(st, purchases)
      BY DEF Relies, Cancelling
    <2>2. Becomes(r, st)
      BY <1>1, <1>6 DEF PayPost
    <2> QED BY <1>4, <2>1, <2>2
  <1>7. ASSUME PayLink(r) PROVE RequestsKept
    <2> DEFINE st == [step |-> "pay", plan |-> q.plan \ {NextPaid(q.plan)}, account |-> q.account]
    <2>1. Relies(st, purchases)
      BY DEF Relies, Cancelling
    <2>2. Becomes(r, Idle) \/ Becomes(r, st)
      BY <1>1, <1>7 DEF PayLink
    <2> QED BY <1>3, <1>4, <2>1, <2>2
  <1>8. ASSUME OutCheck(r) \/ OutInsert(r) PROVE RequestsKept
    <2>1. /\ q = [step |-> q.step, purchase |-> q.purchase, lines |-> q.lines, pays |-> q.pays]
          /\ q.purchase \in 1..Len(purchases) /\ purchases[q.purchase].number # NoNumber
      BY <1>1, <1>2, <1>8 DEF OutCheck, OutInsert, Relies, Cancelling
    <2>2. ASSUME NEW step \in {"reverse", "out"}, NEW lines,
                 Becomes(r, [step |-> step, purchase |-> q.purchase, lines |-> lines,
                             pays |-> q.pays])
          PROVE  RequestsKept
      <3> DEFINE st == [step |-> step, purchase |-> q.purchase, lines |-> lines, pays |-> q.pays]
      <3>1. Relies(st, purchases)
        BY <2>1 DEF Relies, Cancelling
      <3> QED BY <1>4, <2>2, <3>1
    <2>3. [q EXCEPT !.step = "out"] = [step |-> "out", purchase |-> q.purchase, lines |-> q.lines,
                                       pays |-> q.pays]
      BY <2>1
    <2>4. [q EXCEPT !.step = "reverse", !.lines = q.lines \ {First(q.lines)}] =
              [step |-> "reverse", purchase |-> q.purchase, lines |-> q.lines \ {First(q.lines)},
               pays |-> q.pays]
      <3>1. PICK rest : rest = q.lines \ {First(q.lines)}
        OBVIOUS
      <3>2. PICK e : e = [q EXCEPT !.step = "reverse", !.lines = rest]
        OBVIOUS
      <3>3. DOMAIN q = {"step", "purchase", "lines", "pays"}
        BY <2>1
      <3>4. DOMAIN e = {"step", "purchase", "lines", "pays"}
        BY <3>2, <3>3
      <3>5. e.step = "reverse" /\ e.purchase = q.purchase /\ e.lines = rest /\ e.pays = q.pays
        BY <3>2, <3>3
      <3>6. e = [step |-> e.step, purchase |-> e.purchase, lines |-> e.lines, pays |-> e.pays]
        BY <3>2, <3>4
      <3> QED BY <3>1, <3>2, <3>5, <3>6
    <2>5. OutCheck(r) => Becomes(r, [q EXCEPT !.step = "out"])
      BY <1>1 DEF OutCheck
    <2>6. OutInsert(r) =>
              Becomes(r, [q EXCEPT !.step = "reverse", !.lines = q.lines \ {First(q.lines)}])
      BY <1>1 DEF OutInsert
    <2> QED BY <1>8, <2>2, <2>3, <2>4, <2>5, <2>6
  <1>9. ASSUME RefundPost(r) \/ RefundLink(r) PROVE RequestsKept
    <2>1. q.purchase \in 1..Len(purchases) /\ purchases[q.purchase].number # NoNumber
      BY <1>1, <1>2, <1>9 DEF RefundPost, RefundLink, Relies, Cancelling
    <2>2. ASSUME NEW lines, NEW pays, NEW tx
          PROVE  /\ Relies([step |-> "link", purchase |-> q.purchase, lines |-> lines,
                            pays |-> pays, tx |-> tx], purchases)
                 /\ Relies([step |-> "reverse", purchase |-> q.purchase, lines |-> lines,
                            pays |-> pays], purchases)
      BY <2>1 DEF Relies, Cancelling
    <2>3. RefundPost(r) => Becomes(r, [step |-> "link", purchase |-> q.purchase, lines |-> {},
                                       pays |-> q.pays, tx |-> Len(entries) + 1])
      BY <1>1 DEF RefundPost
    <2>4. RefundLink(r) => Becomes(r, [step |-> "reverse", purchase |-> q.purchase, lines |-> {},
                                       pays |-> q.pays \ {First(q.pays)}])
      BY <1>1 DEF RefundLink
    <2> QED BY <1>4, <1>9, <2>2, <2>3, <2>4
  <1>10. ASSUME HeaderWrite(r) \/ ConfirmUnit(r) \/ Discard(r) \/ CancelClose(r)
                \/ CostWrite(r) \/ MoveInsert(r) \/ Quit(r)
         PROVE  RequestsKept
    <2>1. Becomes(r, Idle)
      BY <1>10 DEF HeaderWrite, ConfirmUnit, Discard, CancelClose, Close, CostWrite, MoveInsert, Quit
    <2> QED BY <1>3, <2>1
  <1> QED BY <1>5, <1>6, <1>7, <1>8, <1>9, <1>10 DEF Works

(* The invariant is inductive. *)
LEMMA TypedStep == Typed /\ [Next]_vars => Typed'
  <1> SUFFICES ASSUME Typed, [Next]_vars PROVE Typed'
    OBVIOUS
  <1>1. TableKept
    BY StepOnTable, TableTyped
  <1>2. CASE Drafting \/ UNCHANGED vars
    <2>1. UNCHANGED req
      BY <1>2 DEF Drafting, CreateDraft, AddLine, UpdateLine, RemoveLine, EditLines, DeleteDraft, vars
    <2>2. RequestsKept
      BY <1>1, <2>1, RequestsSame
    <2> QED BY <1>1, <2>2 DEF Typed, TableKept, RequestsKept
  <1>3. CASE \E r \in Request : Starts(r) \/ Works(r) \/ Quit(r)
    <2>1. RequestsKept
      BY <1>1, <1>3, StartsKeep, WorksKeep
    <2> QED BY <1>1, <2>1 DEF Typed, TableKept, RequestsKept
  <1> QED BY <1>2, <1>3 DEF Next

(* It holds at the start. *)
LEMMA TypedInit == Init => Typed
  <1> SUFFICES ASSUME Init PROVE Typed
    OBVIOUS
  <1>1. purchases = <<>> /\ Len(purchases) = 0 /\ req = [r \in Request |-> Idle]
    BY DEF Init
  <1>2. purchases \in Seq(Purchase) /\ lastNumber \in [Year -> Nat]
    BY EmptySeq DEF Init
  <1>3. \A r \in Request : Relies(req[r], purchases)
    BY <1>1 DEF Relies, Idle, Cancelling
  <1> QED BY <1>1, <1>2, <1>3 DEF Typed

(* The table is typed, and the purchase a request holds is still there and *)
(* still numbered when it writes, however requests overlap and fail.       *)
THEOREM AlwaysTyped == Spec => []Typed
  BY TypedInit, TypedStep, PTL DEF Spec

-----------------------------------------------------------------------------
(* The rows implement SaleDocument.                                        *)

Body == Seq(Line)

AsDocument(x) == [status |-> x.status, number |-> x.number, body |-> x.lines]

(* A row, as a document, is one. *)
LEMMA DocumentTyped ==
    ASSUME NEW x \in Purchase
    PROVE  AsDocument(x) \in Document!Doc /\ AsDocument(x).body \in Body
  BY DEF Purchase, Number, NoNumber, AsDocument, Body, Document!Doc, Document!NoNumber

(* The documents are the rows. *)
LEMMA DocsNow ==
    ASSUME purchases \in Seq(Purchase)
    PROVE  /\ docs \in Seq(Document!Doc) /\ Len(docs) = Len(purchases)
           /\ \A k \in 1..Len(purchases) : docs[k] = AsDocument(purchases[k])
  <1>1. Len(purchases) \in Nat
    OBVIOUS
  <1>2. \A k \in 1..Len(purchases) : AsDocument(purchases[k]) \in Document!Doc
    BY DocumentTyped, ElementOfSeq
  <1>3. docs = [k \in 1..Len(purchases) |-> AsDocument(purchases[k])]
    BY DEF docs, AsDocument
  <1> QED BY <1>1, <1>2, <1>3

(* So are they after a step. *)
LEMMA DocsNext ==
    ASSUME purchases' \in Seq(Purchase)
    PROVE  /\ docs' \in Seq(Document!Doc) /\ Len(docs') = Len(purchases')
           /\ \A k \in 1..Len(purchases') : docs'[k] = AsDocument(purchases'[k])
  <1>1. PICK table : table = purchases'
    OBVIOUS
  <1>2. Len(table) \in Nat
    BY <1>1
  <1>3. \A k \in 1..Len(table) : AsDocument(table[k]) \in Document!Doc
    BY <1>1, DocumentTyped, ElementOfSeq
  <1>4. docs' = [k \in 1..Len(table) |-> AsDocument(table[k])]
    BY <1>1 DEF docs, AsDocument
  <1> QED BY <1>1, <1>2, <1>3, <1>4

(* A new row is a new document. *)
LEMMA CreatedIsDocument ==
    ASSUME Typed, NEW x \in Purchase, x.status = "Draft", x.number = NoNumber,
           purchases' = Append(purchases, x), UNCHANGED lastNumber
    PROVE  Document!Create
  <1>1. purchases \in Seq(Purchase) /\ Len(purchases) \in Nat
    BY RowsTyped
  <1>2. /\ purchases' \in Seq(Purchase) /\ Len(purchases') = Len(purchases) + 1 /\ purchases'[Len(purchases) + 1] = x
        /\ \A k \in 1..Len(purchases) : purchases'[k] = purchases[k]
    BY <1>1
  <1>3. PICK d : d = AsDocument(x)
    OBVIOUS
  <1>4. d \in Document!Doc /\ d.status = "Draft" /\ d.number = Document!NoNumber
    BY <1>3, DocumentTyped DEF AsDocument, NoNumber, Document!NoNumber
  <1>5. /\ docs \in Seq(Document!Doc) /\ Len(docs) = Len(purchases)
        /\ \A k \in 1..Len(purchases) : docs[k] = AsDocument(purchases[k])
    BY <1>1, DocsNow
  <1>6. /\ docs' \in Seq(Document!Doc) /\ Len(docs') = Len(purchases')
        /\ \A k \in 1..Len(purchases') : docs'[k] = AsDocument(purchases'[k])
    BY <1>2, DocsNext
  <1>7. docs'[Len(docs')] = d
    BY <1>1, <1>2, <1>3, <1>6
  <1>8. docs' = Append(docs, d)
    <2>1. \A k \in 1..Len(purchases) : docs'[k] = docs[k]
      BY <1>1, <1>2, <1>5, <1>6
    <2>2. /\ Append(docs, d) \in Seq(Document!Doc) /\ Len(Append(docs, d)) = Len(docs) + 1
          /\ Append(docs, d)[Len(docs) + 1] = d
          /\ \A k \in 1..Len(docs) : Append(docs, d)[k] = docs[k]
      BY <1>4, <1>5, AppendProperties
    <2>3. \A k \in 1..Len(docs') : docs'[k] = Append(docs, d)[k]
      BY <1>1, <1>2, <1>5, <1>6, <1>7, <2>1, <2>2
    <2> QED BY <1>1, <1>2, <1>5, <1>6, <2>2, <2>3, SeqEqual
  <1> QED BY <1>1, <1>2, <1>4, <1>5, <1>6, <1>7, <1>8 DEF Document!Create

(* A rewritten row is a rewritten document. *)
LEMMA RewrittenDocument ==
    ASSUME Typed, NEW k \in 1..Len(purchases), NEW x \in Purchase, purchases' = [purchases EXCEPT ![k] = x]
    PROVE  /\ docs \in Seq(Document!Doc) /\ k \in 1..Len(docs)
           /\ docs[k] = AsDocument(purchases[k]) /\ docs'[k] = AsDocument(x)
           /\ docs' = [docs EXCEPT ![k] = AsDocument(x)]
  <1>1. purchases \in Seq(Purchase) /\ Len(purchases) \in Nat
    BY RowsTyped
  <1>2. /\ purchases' \in Seq(Purchase) /\ Len(purchases') = Len(purchases) /\ purchases'[k] = x
        /\ \A t \in 1..Len(purchases) : t # k => purchases'[t] = purchases[t]
    BY <1>1, ExceptSeq
  <1>3. PICK d : d = AsDocument(x)
    OBVIOUS
  <1>4. d \in Document!Doc
    BY <1>3, DocumentTyped
  <1>5. /\ docs \in Seq(Document!Doc) /\ Len(docs) = Len(purchases)
        /\ \A t \in 1..Len(purchases) : docs[t] = AsDocument(purchases[t])
    BY <1>1, DocsNow
  <1>6. /\ docs' \in Seq(Document!Doc) /\ Len(docs') = Len(purchases)
        /\ \A t \in 1..Len(purchases) : docs'[t] = AsDocument(purchases'[t])
    BY <1>2, DocsNext
  <1>7. docs'[k] = d
    BY <1>2, <1>3, <1>6
  <1>8. docs' = [docs EXCEPT ![k] = d]
    <2>1. PICK e : e = [docs EXCEPT ![k] = d]
      OBVIOUS
    <2>2. /\ e \in Seq(Document!Doc) /\ Len(e) = Len(docs) /\ e[k] = d
          /\ \A t \in 1..Len(docs) : t # k => e[t] = docs[t]
      BY <1>4, <1>5, <2>1, ExceptSeq
    <2>3. \A t \in 1..Len(docs') : docs'[t] = e[t]
      BY <1>2, <1>5, <1>6, <1>7, <2>2
    <2> QED BY <1>5, <1>6, <2>1, <2>2, <2>3, SeqEqual
  <1> QED BY <1>3, <1>5, <1>7, <1>8

(* What rewrites a row is a step of its document, or leaves it alone. *)
LEMMA RewriteIsDocument ==
    ASSUME Typed, NEW k \in 1..Len(purchases), NEW x \in Purchase,
           purchases' = [purchases EXCEPT ![k] = x], Rewritten(k, x)
    PROVE  \/ Document!Edit(k) \/ Document!Cancel(k) \/ Document!Delete(k)
           \/ \E y \in Year : Document!Confirm(k, y)
           \/ UNCHANGED <<docs, lastNumber>>
  <1>1. purchases[k] \in Purchase
    BY RowsTyped
  <1>2. PICK old : old = purchases[k]
    OBVIOUS
  <1>3. PICK d : d = AsDocument(old)
    OBVIOUS
  <1>4. PICK e : e = AsDocument(x)
    OBVIOUS
  <1>5. /\ docs \in Seq(Document!Doc) /\ k \in 1..Len(docs)
        /\ docs[k] = d /\ docs'[k] = e /\ docs' = [docs EXCEPT ![k] = e]
    BY <1>2, <1>3, <1>4, RewrittenDocument
  <1>6. /\ d \in Document!Doc /\ e \in Document!Doc /\ e.body \in Body
        /\ d.status = old.status /\ d.number = old.number
        /\ e.status = x.status /\ e.number = x.number
        /\ d = [status |-> old.status, number |-> old.number, body |-> d.body]
        /\ e = [status |-> x.status, number |-> x.number, body |-> e.body]
    BY <1>1, <1>2, <1>3, <1>4, DocumentTyped DEF AsDocument
  <1>7. d = e => docs' = docs
    BY <1>5
  <1>8. CASE /\ purchases[k].status = "Draft"
             /\ x = [purchases[k] EXCEPT !.lines = x.lines]
             /\ UNCHANGED lastNumber
    <2>1. e = [d EXCEPT !.body = e.body]
      <3>1. x.status = old.status /\ x.number = old.number
        BY <1>1, <1>2, <1>8 DEF Purchase
      <3> QED BY <1>6, <3>1
    <2> QED BY <1>2, <1>5, <1>6, <1>8, <2>1 DEF Document!Edit, Body
  <1>9. CASE /\ purchases[k].number = NoNumber
             /\ x = [purchases[k] EXCEPT !.status = "deleted", !.lines = <<>>]
             /\ UNCHANGED lastNumber
    <2>1. e = [d EXCEPT !.status = "deleted", !.body = e.body]
      <3>1. x.status = "deleted" /\ x.number = old.number
        BY <1>1, <1>2, <1>9 DEF Purchase
      <3> QED BY <1>6, <3>1
    <2> QED BY <1>2, <1>5, <1>6, <1>9, <2>1
            DEF Document!Delete, NoNumber, Document!NoNumber, Body
  <1>10. CASE /\ purchases[k].status # "deleted"
              /\ x = [purchases[k] EXCEPT !.header = x.header]
              /\ UNCHANGED lastNumber
    <2>1. e = d
      BY <1>1, <1>2, <1>3, <1>4, <1>10 DEF AsDocument, Purchase
    <2> QED BY <1>7, <1>10, <2>1
  <1>11. CASE /\ purchases[k].status # "deleted"
              /\ x = [purchases[k] EXCEPT !.status = "Cancelled"]
              /\ UNCHANGED lastNumber
    <2>1. e = [d EXCEPT !.status = "Cancelled"]
      <3>1. x.status = "Cancelled" /\ x.number = old.number
        BY <1>1, <1>2, <1>11 DEF Purchase
      <3>2. e.body = d.body
        BY <1>1, <1>2, <1>3, <1>4, <1>11 DEF AsDocument, Purchase
      <3> QED BY <1>6, <3>1, <3>2
    <2>2. CASE old.status = "Cancelled"
      <3>1. e = d
        BY <1>6, <2>1, <2>2 DEF Document!Doc
      <3> QED BY <1>7, <1>11, <3>1
    <2>3. CASE old.status # "Cancelled"
      <3>1. d.status \in {"Draft", "Confirmed"}
        BY <1>1, <1>2, <1>6, <1>11, <2>3 DEF Purchase
      <3> QED BY <1>5, <1>11, <2>1, <3>1 DEF Document!Cancel
    <2> QED BY <2>2, <2>3
  <1>12. ASSUME NEW y \in Year,
                purchases[k].status = "Draft",
                x = [purchases[k] EXCEPT !.status = "Confirmed", !.number = <<y, lastNumber[y] + 1>>],
                lastNumber' = [lastNumber EXCEPT ![y] = @ + 1]
         PROVE  Document!Confirm(k, y)
    <2>1. e = [d EXCEPT !.status = "Confirmed", !.number = <<y, lastNumber[y] + 1>>]
      <3>1. x.status = "Confirmed" /\ x.number = <<y, lastNumber[y] + 1>>
        BY <1>1, <1>2, <1>12 DEF Purchase
      <3>2. e.body = d.body
        BY <1>1, <1>2, <1>3, <1>4, <1>12 DEF AsDocument, Purchase
      <3> QED BY <1>6, <3>1, <3>2
    <2> QED BY <1>2, <1>5, <1>6, <1>12, <2>1 DEF Document!Confirm
  <1> QED BY <1>8, <1>9, <1>10, <1>11, <1>12 DEF Rewritten

(* Every step is a step of a document, or leaves the documents alone. *)
LEMMA StepIsDocument ==
    Typed /\ [Next]_vars => [Document!Next]_<<docs, lastNumber>>
  <1> SUFFICES ASSUME Typed, [Next]_vars PROVE [Document!Next]_<<docs, lastNumber>>
    OBVIOUS
  <1>1. TableStep
    BY StepOnTable
  <1>2. Len(docs) = Len(purchases)
    BY RowsTyped, DocsNow
  <1>3. CASE UNCHANGED <<purchases, lastNumber>>
    BY <1>3 DEF docs
  <1>4. ASSUME NEW x \in Purchase, x.status = "Draft", x.number = NoNumber,
               purchases' = Append(purchases, x), UNCHANGED lastNumber
        PROVE  Document!Next
    BY <1>4, CreatedIsDocument DEF Document!Next
  <1>5. ASSUME NEW k \in 1..Len(purchases), NEW x \in Purchase,
               purchases' = [purchases EXCEPT ![k] = x], Rewritten(k, x)
        PROVE  Document!Next \/ UNCHANGED <<docs, lastNumber>>
    <2>1. \/ Document!Edit(k) \/ Document!Cancel(k) \/ Document!Delete(k)
          \/ \E y \in Year : Document!Confirm(k, y)
          \/ UNCHANGED <<docs, lastNumber>>
      BY <1>5, RewriteIsDocument
    <2> QED BY <1>2, <2>1 DEF Document!Next
  <1> QED BY <1>1, <1>3, <1>4, <1>5 DEF TableStep

(* The table starts empty. *)
LEMMA InitIsDocument == Init => Document!Init
  BY DEF Init, Document!Init, docs

(* Purchases implements SaleDocument. *)
THEOREM PurchasesIsDocument == Spec => IsDocument
  BY InitIsDocument, StepIsDocument, AlwaysTyped, PTL
     DEF Spec, IsDocument, Document!Spec, Document!vars

-----------------------------------------------------------------------------
(* What every document promises holds of every row.                        *)

(* The document that is implemented is the one the laws are about. *)
LEMMA SameDocument ==
    /\ Document!Init => DocumentLaws!Init
    /\ [Document!Next]_<<docs, lastNumber>> => [DocumentLaws!Next]_<<docs, lastNumber>>
  BY DEF Document!Init, DocumentLaws!Init, Document!Next, DocumentLaws!Next,
         Document!Create, DocumentLaws!Create, Document!Edit, DocumentLaws!Edit,
         Document!Confirm, DocumentLaws!Confirm, Document!Cancel, DocumentLaws!Cancel,
         Document!Delete, DocumentLaws!Delete, Document!NoNumber, DocumentLaws!NoNumber,
         Document!Doc, DocumentLaws!Doc, Body

(* So the laws of documents hold of the rows. *)
LEMMA ObeysDocumentLaws == Spec => DocumentLaws!Spec
  BY InitIsDocument, StepIsDocument, SameDocument, AlwaysTyped, PTL
     DEF Spec, DocumentLaws!Spec, DocumentLaws!vars

(* The numbers of every year are dense and unique in every state, whatever *)
(* confirms raced, failed or were retried.                                 *)
THEOREM PurchaseNumbersDense == Spec => []Document!NumbersInOrder
  <1>1. DocumentLaws!NumbersInOrder => Document!NumbersInOrder
    BY DEF Document!NumbersInOrder, DocumentLaws!NumbersInOrder,
           Document!NoNumber, DocumentLaws!NoNumber
  <1>2. DocumentLaws!Spec => []DocumentLaws!NumbersInOrder
    BY DocumentLaws!NumbersDense
  <1> QED BY <1>1, <1>2, ObeysDocumentLaws, PTL

(* No step changes the lines or the number of a confirmed or annulled      *)
(* purchase, although the header, discard and annulment statements carry   *)
(* no status predicate.                                                    *)
THEOREM PurchaseRecordFrozen == Spec => [][Document!FrozenStep]_<<docs, lastNumber>>
  <1>1. DocumentLaws!Consistent /\ [DocumentLaws!Next]_<<docs, lastNumber>>
            => DocumentLaws!FrozenStep
    BY DocumentLaws!FrozenLemma DEF DocumentLaws!vars
  <1>2. DocumentLaws!FrozenStep => Document!FrozenStep
    BY DEF Document!FrozenStep, DocumentLaws!FrozenStep, Document!NoNumber,
           DocumentLaws!NoNumber
  <1>3. DocumentLaws!Spec => []DocumentLaws!Consistent
    BY DocumentLaws!DocumentConsistent
  <1> QED BY <1>1, <1>2, <1>3, ObeysDocumentLaws, PTL
          DEF DocumentLaws!Spec, DocumentLaws!vars

-----------------------------------------------------------------------------
(* What the helpers return.                                                *)

(* The total of a list of lines is a natural number. *)
LEMMA TotalNat ==
    ASSUME NEW lines \in Seq(Line)
    PROVE  Total(lines) \in Nat
  <1> DEFINE w == [i \in 1..Len(lines) |-> Gross(lines[i].qty, lines[i].cost)]
  <1>1. \A i \in 1..Len(lines) : w[i] \in Nat
    <2> SUFFICES ASSUME NEW i \in 1..Len(lines)
                 PROVE  Gross(lines[i].qty, lines[i].cost) \in Nat
      OBVIOUS
    <2>1. PICK line \in Line : line = lines[i]
      BY ElementOfSeq
    <2>2. line.qty \in Qty /\ line.cost \in Cost
      BY DEF Line
    <2> QED BY <2>1, <2>2, PurchasesAssumption
  <1>2. Len(lines) \in Nat
    OBVIOUS
  <1> HIDE DEF w
  <1>3. SumOver(w, Len(lines)) \in Nat
    BY <1>1, <1>2, SumOverNat
  <1> QED BY <1>3 DEF Total, w

(* What a purchase read for a confirm charges at once is a natural number. *)
LEMMA ChargeNat ==
    ASSUME NEW seen \in Purchase
    PROVE  Charge(seen) \in Nat /\ seen.lines \in Seq(Line)
  <1>1. seen.lines \in Seq(Line)
    BY DEF Purchase
  <1>2. Total(seen.lines) \in Nat
    BY <1>1, TotalNat
  <1> QED BY <1>1, <1>2 DEF Charge

(* What is due of a purchase is an integer. *)
LEMMA DueInt ==
    ASSUME purchases \in Seq(Purchase), payments \in Seq(Payment), NEW p \in 1..Len(purchases)
    PROVE  Due(p) \in Int
  <1> DEFINE w == [i \in 1..Len(payments) |->
                     IF IsOf(payments[i], p) THEN payments[i].amount ELSE 0]
  <1>1. \A i \in 1..Len(payments) : w[i] \in Int
    <2> SUFFICES ASSUME NEW i \in 1..Len(payments)
                 PROVE  payments[i].amount \in Int
      OBVIOUS
    <2>1. payments[i] \in Payment
      BY ElementOfSeq
    <2> QED BY <2>1 DEF Payment
  <1>2. Len(payments) \in Nat
    OBVIOUS
  <1> HIDE DEF w
  <1>3. SumOver(w, Len(payments)) \in Int
    BY <1>1, <1>2, SumOverInt
  <1>4. Paid(p) \in Int
    BY <1>3 DEF Paid, w
  <1>5. purchases[p] \in Purchase
    BY ElementOfSeq
  <1>6. Total(purchases[p].lines) \in Nat
    BY <1>5, TotalNat DEF Purchase
  <1> QED BY <1>4, <1>6 DEF Due

(* So is what is owed before it. *)
LEMMA OwedBeforeInt ==
    ASSUME purchases \in Seq(Purchase), payments \in Seq(Payment), NEW s, NEW p
    PROVE  OwedBefore(s, p) \in Int
  <1> DEFINE w == [q \in 1..Len(purchases) |->
                     IF Owed(s, q) /\ Older(Aged(q), Aged(p)) THEN Due(q) ELSE 0]
  <1>1. \A q \in 1..Len(purchases) : Due(q) \in Int
    BY DueInt
  <1>2. \A q \in 1..Len(purchases) : w[q] \in Int
    BY <1>1
  <1>3. Len(purchases) \in Nat
    OBVIOUS
  <1> HIDE DEF w
  <1>4. SumOver(w, Len(purchases)) \in Int
    BY <1>2, <1>3, SumOverInt
  <1> QED BY <1>4 DEF OwedBefore, w

(* A date, or no date, is a pair of naturals. *)
LEMMA DateShape ==
    ASSUME NEW d \in Date \cup {NoDate}
    PROVE  d[1] \in Nat /\ d[2] \in Nat /\ d = <<d[1], d[2]>>
  <1>1. CASE d = NoDate
    BY <1>1 DEF NoDate
  <1>2. CASE d \in Date
    <2>1. PICK y \in Year, n \in Day : d = <<y, n>>
      BY <1>2 DEF Date
    <2> QED BY <2>1, PurchasesAssumption
  <1> QED BY <1>1, <1>2

(* Of things with a natural figure one has the least. *)
LEMMA LeastBy ==
    ASSUME NEW T, T # {}, NEW f, \A a \in T : f[a] \in Nat
    PROVE  \E a \in T : \A b \in T : f[a] <= f[b]
  <1> DEFINE F == {f[a] : a \in T}
  <1>1. F \in SUBSET Nat /\ F # {}
    OBVIOUS
  <1>2. PICK i \in F : \A j \in F : i <= j
    BY <1>1, LeastMember
  <1> QED BY <1>2

\* What debts are sorted by.
Dated(a) ==
    a.due \in Date \cup {NoDate} /\ a.date \in Date \cup {NoDate} /\ a.purchase \in Nat

(* Of two debts only one is older than the other. *)
LEMMA OlderIsStrict ==
    ASSUME NEW a, NEW b, Dated(a), Dated(b), Older(a, b)
    PROVE  ~ Older(b, a)
  <1>1. /\ a.due[1] \in Nat /\ a.due[2] \in Nat /\ a.date[1] \in Nat /\ a.date[2] \in Nat
        /\ b.due[1] \in Nat /\ b.due[2] \in Nat /\ b.date[1] \in Nat /\ b.date[2] \in Nat
        /\ a.purchase \in Nat /\ b.purchase \in Nat
    BY DateShape DEF Dated
  <1> QED BY <1>1 DEF Older, Earlier

(* Debts of which none occurs twice have an oldest one. *)
LEMMA OldestIn ==
    ASSUME NEW plan, plan # {}, \A a \in plan : Dated(a),
           \A a, b \in plan : a.purchase = b.purchase => a = b
    PROVE  \E a \in plan : \A b \in plan : a = b \/ Older(a, b)
  <1>1. \A a \in plan : /\ a.due \in Date \cup {NoDate} /\ a.date \in Date \cup {NoDate}
                        /\ a.purchase \in Nat
    BY DEF Dated
  <1>2. \A a \in plan : /\ a.due[1] \in Nat /\ a.due[2] \in Nat /\ a.due = <<a.due[1], a.due[2]>>
                        /\ a.date[1] \in Nat /\ a.date[2] \in Nat
                        /\ a.date = <<a.date[1], a.date[2]>>
    BY <1>1, DateShape
  <1>3. PICK a1 \in plan : \A b \in plan : a1.due[1] <= b.due[1]
    <2> DEFINE f == [a \in plan |-> a.due[1]]
    <2>1. \A a \in plan : f[a] = a.due[1] /\ f[a] \in Nat
      BY <1>2
    <2> HIDE DEF f
    <2>2. \E a \in plan : \A b \in plan : f[a] <= f[b]
      BY <2>1, LeastBy
    <2> QED BY <2>1, <2>2
  <1> DEFINE T1 == {a \in plan : a.due[1] = a1.due[1]}
  <1>4. PICK a2 \in T1 : \A b \in T1 : a2.due[2] <= b.due[2]
    <2> DEFINE f == [a \in T1 |-> a.due[2]]
    <2>1. (\A a \in T1 : f[a] = a.due[2] /\ f[a] \in Nat) /\ T1 # {}
      BY <1>2
    <2> HIDE DEF f, T1
    <2>2. \E a \in T1 : \A b \in T1 : f[a] <= f[b]
      BY <2>1, LeastBy
    <2> QED BY <2>1, <2>2
  <1> DEFINE T2 == {a \in T1 : a.due[2] = a2.due[2]}
  <1>5. PICK a3 \in T2 : \A b \in T2 : a3.date[1] <= b.date[1]
    <2> DEFINE f == [a \in T2 |-> a.date[1]]
    <2>1. (\A a \in T2 : f[a] = a.date[1] /\ f[a] \in Nat) /\ T2 # {}
      BY <1>2
    <2> HIDE DEF f, T2
    <2>2. \E a \in T2 : \A b \in T2 : f[a] <= f[b]
      BY <2>1, LeastBy
    <2> QED BY <2>1, <2>2
  <1> DEFINE T3 == {a \in T2 : a.date[1] = a3.date[1]}
  <1>6. PICK a4 \in T3 : \A b \in T3 : a4.date[2] <= b.date[2]
    <2> DEFINE f == [a \in T3 |-> a.date[2]]
    <2>1. (\A a \in T3 : f[a] = a.date[2] /\ f[a] \in Nat) /\ T3 # {}
      BY <1>2
    <2> HIDE DEF f, T3
    <2>2. \E a \in T3 : \A b \in T3 : f[a] <= f[b]
      BY <2>1, LeastBy
    <2> QED BY <2>1, <2>2
  <1> DEFINE T4 == {a \in T3 : a.date[2] = a4.date[2]}
  <1>7. PICK a5 \in T4 : \A b \in T4 : a5.purchase <= b.purchase
    <2> DEFINE f == [a \in T4 |-> a.purchase]
    <2>1. (\A a \in T4 : f[a] = a.purchase /\ f[a] \in Nat) /\ T4 # {}
      BY <1>1
    <2> HIDE DEF f, T4
    <2>2. \E a \in T4 : \A b \in T4 : f[a] <= f[b]
      BY <2>1, LeastBy
    <2> QED BY <2>1, <2>2
  <1>8. /\ a5 \in plan /\ a5.due[1] = a1.due[1] /\ a5.due[2] = a2.due[2]
        /\ a5.date[1] = a3.date[1] /\ a5.date[2] = a4.date[2]
    BY <1>7
  <1>9. ASSUME NEW b \in plan PROVE a5 = b \/ Older(a5, b)
    <2>1. CASE b.due[1] # a5.due[1]
      BY <1>2, <1>3, <1>8, <2>1 DEF Older, Earlier
    <2>2. CASE b.due[1] = a5.due[1] /\ b.due[2] # a5.due[2]
      BY <1>2, <1>4, <1>8, <2>2 DEF Older, Earlier
    <2>3. CASE b.due[1] = a5.due[1] /\ b.due[2] = a5.due[2]
      <3>1. b.due = a5.due /\ b \in T2
        BY <1>2, <1>8, <2>3
      <3>2. CASE b.date[1] # a5.date[1]
        BY <1>2, <1>5, <1>8, <3>1, <3>2 DEF Older, Earlier
      <3>3. CASE b.date[1] = a5.date[1] /\ b.date[2] # a5.date[2]
        BY <1>2, <1>6, <1>8, <3>1, <3>3 DEF Older, Earlier
      <3>4. CASE b.date[1] = a5.date[1] /\ b.date[2] = a5.date[2]
        <4>1. b.date = a5.date /\ b \in T4
          BY <1>2, <1>8, <3>1, <3>4
        <4>2. a5.purchase <= b.purchase
          BY <1>7, <4>1
        <4>3. a5.purchase = b.purchase => a5 = b
          BY <1>8
        <4> QED BY <1>1, <1>8, <3>1, <4>1, <4>2, <4>3 DEF Older
      <3> QED BY <3>2, <3>3, <3>4
    <2> QED BY <2>1, <2>2, <2>3
  <1> QED BY <1>8, <1>9

(* So has a plan. *)
LEMMA NextPaidIn ==
    ASSUME NEW plan \in SUBSET Allocation, plan # {},
           \A a, b \in plan : a.purchase = b.purchase => a = b
    PROVE  /\ NextPaid(plan) \in plan /\ NextPaid(plan) \in Allocation
           /\ \A b \in plan : NextPaid(plan) = b \/ Older(NextPaid(plan), b)
  <1>1. \A a \in plan : Dated(a)
    BY PurchasesAssumption DEF Allocation, PurchaseId, Dated
  <1>2. \E a \in plan : \A b \in plan : a = b \/ Older(a, b)
    BY <1>1, OldestIn
  <1> QED BY <1>2 DEF NextPaid

(* The least of a set of ids is one of them. *)
LEMMA FirstIn ==
    ASSUME NEW ids \in SUBSET Nat, ids # {}
    PROVE  First(ids) \in ids /\ \A j \in ids : First(ids) <= j
  BY LeastMember DEF First

TrackedLine == [product : Tracked, qty : Qty, cost : Cost]

(* The tracked lines are lines of tracked products. *)
LEMMA TrackedLinesTyped ==
    ASSUME NEW lines \in Seq(Line)
    PROVE  TrackedLines(lines) \in Seq(TrackedLine)
  <1> DEFINE ids == {i \in 1..Len(lines) : lines[i].product \in Tracked}
             f == [line \in Line |-> 0]
  <1>1. f \in [Line -> Int]
    OBVIOUS
  <1>2. \A i \in 1..Len(lines) : i \in ids => lines[i] \in TrackedLine
    <2> SUFFICES ASSUME NEW i \in 1..Len(lines), lines[i].product \in Tracked
                 PROVE  lines[i] \in TrackedLine
      OBVIOUS
    <2>1. lines[i] \in Line
      BY ElementOfSeq
    <2> QED BY <2>1 DEF Line, TrackedLine
  <1> HIDE DEF ids, f
  <1>3. Picked(lines, ids) \in Seq(TrackedLine)
    BY <1>1, <1>2, PickedRows
  <1> QED BY <1>3 DEF TrackedLines, ids

-----------------------------------------------------------------------------
(* The ledgers and the requests are typed: a plan is not empty and names a *)
(* purchase once, an annulment holds tracked lines and the payments of its *)
(* purchase, and a cost is changed only where there is one.                *)

Planning == {"pay", "payPost", "payLink"}

\* What a request q holds, of the tables as they are.
Holds(q, table, pays, known) ==
    /\ q.step \in Planning =>
           /\ q.plan # {}
           /\ \A a \in q.plan : a.purchase \in 1..Len(table) /\ table[a.purchase].number # NoNumber
           /\ \A a, b \in q.plan : a.purchase = b.purchase => a = b
    /\ q.step \in Cancelling =>
           \A i \in q.pays : i \in 1..Len(pays) /\ pays[i].purchase = q.purchase
    /\ q.step \in {"reverse", "out"} =>
           \A i \in q.lines : /\ i \in 1..Len(table[q.purchase].lines)
                              /\ table[q.purchase].lines[i].product \in Tracked
    /\ q.step = "out" => q.lines # {}
    /\ q.step = "link" => q.pays # {}
    /\ q.step = "cost" /\ q.branch # "create" => known[<<q.product, q.supplier>>] # NoCost

Sound ==
    /\ Typed /\ TypeOK
    /\ \A r \in Request : Holds(req[r], purchases, payments, costs)
    /\ \A i \in 1..Len(payments) :
           payments[i].purchase \in 1..Len(purchases) /\ Numbered(payments[i].purchase)

\* What a step leaves of a numbered purchase.
RecordsKept ==
    \A k \in 1..Len(purchases) : Numbered(k) =>
        /\ k \in 1..Len(purchases')
        /\ purchases'[k].number = purchases[k].number /\ purchases'[k].lines = purchases[k].lines

\* What a step leaves of the ledgers: their types, the purchase of each payment, each cost.
LedgersKept ==
    /\ moves' \in Seq(Move) /\ entries' \in Seq(Entry) /\ payments' \in Seq(Payment)
    /\ costs' \in [Product \X Supplier -> Recorded \cup {NoCost}]
    /\ \A i \in 1..Len(payments) :
           i \in 1..Len(payments') /\ payments'[i].purchase = payments[i].purchase
    /\ \A i \in 1..Len(payments') :
           \/ i \in 1..Len(payments) /\ payments'[i].purchase = payments[i].purchase
           \/ /\ payments'[i].purchase \in 1..Len(purchases')
              /\ purchases'[payments'[i].purchase].number # NoNumber
    /\ \A pair \in Product \X Supplier : costs[pair] # NoCost => costs'[pair] # NoCost

\* A request is what it was, or holds what is there.
HoldersKept ==
    /\ req' \in [Request -> RequestState]
    /\ \A r \in Request : req'[r] = req[r] \/ Holds(req'[r], purchases', payments', costs')

(* Steps on the table leave the numbered purchases alone. *)
LEMMA TableFrozen ==
    ASSUME Typed, TableStep
    PROVE  RecordsKept
  <1>1. /\ purchases \in Seq(Purchase) /\ Len(purchases) \in Nat
        /\ \A k \in 1..Len(purchases) : purchases[k] \in Purchase
    BY RowsTyped
  <1>2. CASE UNCHANGED <<purchases, lastNumber>>
    BY <1>2 DEF RecordsKept
  <1>3. ASSUME NEW x \in Purchase, purchases' = Append(purchases, x) PROVE RecordsKept
    <2>1. /\ Len(purchases') = Len(purchases) + 1
          /\ \A k \in 1..Len(purchases) : purchases'[k] = purchases[k]
      BY <1>1, <1>3
    <2> QED BY <1>1, <2>1 DEF RecordsKept
  <1>4. ASSUME NEW k \in 1..Len(purchases), NEW x \in Purchase,
               purchases' = [purchases EXCEPT ![k] = x], Rewritten(k, x)
        PROVE  RecordsKept
    <2>1. /\ Len(purchases') = Len(purchases) /\ purchases'[k] = x
          /\ \A t \in 1..Len(purchases) : t # k => purchases'[t] = purchases[t]
      BY <1>1, <1>4, ExceptSeq
    <2>2. ASSUME Numbered(k) PROVE x.number = purchases[k].number /\ x.lines = purchases[k].lines
      <3>1. purchases[k].status # "Draft" /\ purchases[k].number # NoNumber
        BY <2>2 DEF Typed, Numbered
      <3>2. \/ x = [purchases[k] EXCEPT !.header = x.header]
            \/ x = [purchases[k] EXCEPT !.status = "Cancelled"]
        BY <1>4, <3>1 DEF Rewritten
      <3> QED BY <1>1, <3>2 DEF Purchase
    <2> QED BY <2>1, <2>2 DEF RecordsKept
  <1> QED BY <1>2, <1>3, <1>4 DEF TableStep

(* What a request holds stays. *)
LEMMA HoldsStay ==
    ASSUME Typed, RecordsKept, LedgersKept, NEW q, Relies(q, purchases),
           q.step = "cost" => <<q.product, q.supplier>> \in Product \X Supplier,
           Holds(q, purchases, payments, costs)
    PROVE  Holds(q, purchases', payments', costs')
  <1>1. ASSUME q.step \in Planning
        PROVE  \A a \in q.plan : /\ a.purchase \in 1..Len(purchases')
                                 /\ purchases'[a.purchase].number # NoNumber
    BY <1>1 DEF Holds, RecordsKept, Numbered
  <1>2. ASSUME q.step \in Cancelling
        PROVE  \A i \in q.pays : i \in 1..Len(payments') /\ payments'[i].purchase = q.purchase
    BY <1>2 DEF Holds, LedgersKept
  <1>3. ASSUME q.step \in {"reverse", "out"}
        PROVE  \A i \in q.lines : /\ i \in 1..Len(purchases'[q.purchase].lines)
                                  /\ purchases'[q.purchase].lines[i].product \in Tracked
    <2>1. q.purchase \in 1..Len(purchases) /\ Numbered(q.purchase)
      BY <1>3 DEF Relies, Cancelling, Numbered
    <2>2. purchases'[q.purchase].lines = purchases[q.purchase].lines
      BY <2>1 DEF RecordsKept
    <2> QED BY <1>3, <2>2 DEF Holds
  <1>4. ASSUME q.step = "cost" /\ q.branch # "create"
        PROVE  costs'[<<q.product, q.supplier>>] # NoCost
    BY <1>4 DEF Holds, LedgersKept
  <1> QED BY <1>1, <1>2, <1>3, <1>4 DEF Holds

(* The shape of a request's state follows from its step. *)
LEMMA RequestShape ==
    ASSUME TypeOK, NEW r \in Request
    PROVE  /\ req[r] \in RequestState
           /\ req[r].step = "header" => req[r].header \in Header
           /\ req[r].step = "confirm" => req[r].seen \in Purchase /\ req[r].account \in Account
           /\ req[r].step \in Planning => /\ req[r].plan \in SUBSET Allocation
                                          /\ req[r].account \in Account
           /\ req[r].step \in {"payLink", "link"} => req[r].tx \in Nat \ {0}
           /\ req[r].step \in Cancelling => /\ req[r].lines \in SUBSET Nat
                                            /\ req[r].pays \in SUBSET Nat
                                            /\ req[r].purchase \in PurchaseId
           /\ req[r].step = "link" => req[r].lines = {}
           /\ req[r].step = "move" => req[r].product \in Tracked /\ req[r].delta \in Int
           /\ req[r].step = "cost" => /\ req[r].product \in Product /\ req[r].supplier \in Supplier
                                      /\ req[r].cost \in Cost /\ req[r].date \in Date
                                      /\ req[r].branch \in {"create", "refresh", "shift"}
  <1>1. req[r] \in RequestState
    BY DEF TypeOK
  <1> QED BY <1>1 DEF RequestState, Idle, Cancelling, Planning

(* One request moves on and the others wait. *)
LEMMA HolderMoves ==
    ASSUME TypeOK, NEW r \in Request, NEW st \in RequestState, Becomes(r, st),
           Holds(st, purchases', payments', costs')
    PROVE  HoldersKept
  <1>1. req' = [o \in Request |-> IF o = r THEN st ELSE req[o]]
    BY DEF TypeOK, Becomes
  <1>2. req' \in [Request -> RequestState]
    BY <1>1 DEF TypeOK
  <1>3. ASSUME NEW o \in Request
        PROVE  req'[o] = req[o] \/ Holds(req'[o], purchases', payments', costs')
    <2>1. CASE o = r
      BY <1>1, <2>1
    <2>2. CASE o # r
      BY <1>1, <2>2
    <2> QED BY <2>1, <2>2
  <1> QED BY <1>2, <1>3 DEF HoldersKept

(* A request that ends holds nothing. *)
LEMMA HolderEnds ==
    ASSUME TypeOK, NEW r \in Request, Becomes(r, Idle)
    PROVE  HoldersKept
  <1>1. Idle \in RequestState
    BY DEF RequestState
  <1>2. Holds(Idle, purchases', payments', costs')
    BY DEF Holds, Idle, Planning, Cancelling
  <1> QED BY <1>1, <1>2, HolderMoves

(* A request that only reads holds what it has read. *)
LEMMA HolderReads ==
    ASSUME TypeOK, NEW r \in Request, NEW st \in RequestState, Becomes(r, st), Unwritten,
           Holds(st, purchases, payments, costs)
    PROVE  HoldersKept
  <1>1. purchases' = purchases /\ payments' = payments /\ costs' = costs
    BY DEF Unwritten
  <1>2. Holds(st, purchases', payments', costs')
    BY <1>1
  <1> QED BY <1>2, HolderMoves

(* A step that keeps the tables and what requests hold preserves Sound. *)
LEMMA SoundKept ==
    ASSUME Sound, Typed', TableKept, RecordsKept, LedgersKept, HoldersKept,
           Len(purchases') <= MaxPurchases
    PROVE  Sound'
  <1>1. TypeOK'
    BY DEF TypeOK, TableKept, LedgersKept, HoldersKept
  <1>2. ASSUME NEW r \in Request PROVE Holds(req'[r], purchases', payments', costs')
    <2>1. CASE req'[r] = req[r]
      <3>1. PICK q : q = req[r]
        OBVIOUS
      <3>2. Typed /\ Relies(q, purchases) /\ Holds(q, purchases, payments, costs)
        BY <3>1 DEF Sound, Typed
      <3>3. q.step = "cost" => <<q.product, q.supplier>> \in Product \X Supplier
        BY <3>1, RequestShape DEF Sound
      <3>4. Holds(q, purchases', payments', costs')
        BY <3>2, <3>3, HoldsStay
      <3> QED BY <2>1, <3>1, <3>4
    <2> QED BY <2>1 DEF HoldersKept
  <1>3. ASSUME NEW i \in 1..Len(payments')
        PROVE  /\ payments'[i].purchase \in 1..Len(purchases')
               /\ purchases'[payments'[i].purchase].number # NoNumber
    <2>1. CASE i \in 1..Len(payments) /\ payments'[i].purchase = payments[i].purchase
      <3>1. PICK p : p = payments[i].purchase
        OBVIOUS
      <3>2. p \in 1..Len(purchases) /\ Numbered(p)
        BY <2>1, <3>1 DEF Sound
      <3> QED BY <2>1, <3>1, <3>2 DEF RecordsKept, Numbered
    <2> QED BY <2>1 DEF LedgersKept
  <1> QED BY <1>1, <1>2, <1>3 DEF Sound, Numbered

(* Ledgers a step leaves alone are kept. *)
LEMMA LedgersSame ==
    ASSUME TypeOK, UNCHANGED <<moves, entries, payments, costs>>
    PROVE  LedgersKept
  BY DEF TypeOK, LedgersKept

-----------------------------------------------------------------------------
(* A request that starts holds what it has read.                           *)

(* A purchase's debt, as it is sorted. *)
LEMMA AgedIs ==
    ASSUME purchases \in Seq(Purchase), NEW p \in 1..Len(purchases)
    PROVE  /\ Dated(Aged(p)) /\ Aged(p).purchase = p
           /\ Aged(p).due = purchases[p].header.due /\ Aged(p).date = purchases[p].header.date
           /\ purchases[p].header.due \in Date \cup {NoDate} /\ purchases[p].header.date \in Date
  <1>1. PICK x \in Purchase : x = purchases[p]
    BY ElementOfSeq
  <1>2. x.header \in Header
    BY DEF Purchase
  <1>3. x.header.due \in Date \cup {NoDate} /\ x.header.date \in Date
    BY <1>2 DEF Header
  <1>4. p \in Nat
    OBVIOUS
  <1> QED BY <1>1, <1>3, <1>4 DEF Aged, Dated

(* A supplier who is owed something has a debt nothing is owed before. *)
LEMMA FirstDebt ==
    ASSUME purchases \in Seq(Purchase), payments \in Seq(Payment), NEW s,
           NEW p \in 1..Len(purchases), Owed(s, p)
    PROVE  \E q \in 1..Len(purchases) : Owed(s, q) /\ OwedBefore(s, q) = 0
  <1> DEFINE debts == {Aged(q) : q \in {q \in 1..Len(purchases) : Owed(s, q)}}
  <1>1. \A a \in debts : Dated(a) /\ Owed(s, a.purchase) /\ a.purchase \in 1..Len(purchases)
                         /\ a = Aged(a.purchase)
    BY AgedIs
  <1>2. debts # {} /\ \A a, b \in debts : a.purchase = b.purchase => a = b
    BY <1>1
  <1>3. PICK first \in debts : \A b \in debts : first = b \/ Older(first, b)
    <2> HIDE DEF debts
    <2> QED BY <1>1, <1>2, OldestIn
  <1>4. PICK q \in 1..Len(purchases) : Owed(s, q) /\ first = Aged(q)
    BY <1>3
  <1>5. ASSUME NEW o \in 1..Len(purchases), Owed(s, o), Older(Aged(o), Aged(q)) PROVE FALSE
    <2>1. Aged(o) \in debts /\ Dated(Aged(o)) /\ Dated(Aged(q))
      BY <1>5, AgedIs
    <2>2. Aged(q) = Aged(o) \/ Older(Aged(q), Aged(o))
      BY <1>3, <1>4, <2>1
    <2> HIDE DEF debts
    <2> QED BY <1>5, <2>1, <2>2, OlderIsStrict
  <1> DEFINE w == [o \in 1..Len(purchases) |->
                     IF Owed(s, o) /\ Older(Aged(o), Aged(q)) THEN Due(o) ELSE 0]
  <1>6. Len(purchases) \in Nat /\ \A o \in 1..Len(purchases) : w[o] = 0
    BY <1>5
  <1> HIDE DEF w
  <1>7. SumOver(w, Len(purchases)) = 0
    BY <1>6, SumOverZero
  <1>8. OwedBefore(s, q) = 0
    BY <1>7 DEF OwedBefore, w
  <1> QED BY <1>4, <1>8

(* Who is owed anything has a debt. *)
LEMMA SomeDebt ==
    ASSUME purchases \in Seq(Purchase), payments \in Seq(Payment), NEW s, Outstanding(s) # 0
    PROVE  \E p \in 1..Len(purchases) : Owed(s, p)
  <1> SUFFICES ASSUME \A p \in 1..Len(purchases) : ~ Owed(s, p) PROVE Outstanding(s) = 0
    OBVIOUS
  <1> DEFINE w == [p \in 1..Len(purchases) |-> IF Owed(s, p) THEN Due(p) ELSE 0]
  <1>1. Len(purchases) \in Nat /\ \A p \in 1..Len(purchases) : w[p] = 0
    OBVIOUS
  <1> HIDE DEF w
  <1>2. SumOver(w, Len(purchases)) = 0
    BY <1>1, SumOverZero
  <1> QED BY <1>2 DEF Outstanding, w

(* The plan of a supplier's payment: allocations of numbered purchases,    *)
(* none twice, and at least one.                                           *)
LEMMA PlanTyped ==
    ASSUME Sound, NEW s \in Supplier, NEW amount \in Nat \ {0}, amount <= Outstanding(s)
    PROVE  /\ Plan(s, amount) \in SUBSET Allocation /\ Plan(s, amount) # {}
           /\ \A a \in Plan(s, amount) : a.purchase \in 1..Len(purchases) /\ Numbered(a.purchase)
           /\ \A a, b \in Plan(s, amount) : a.purchase = b.purchase => a = b
  <1>1. /\ purchases \in Seq(Purchase) /\ payments \in Seq(Payment)
        /\ Len(purchases) \in Nat /\ Len(purchases) <= MaxPurchases
    BY RowsTyped DEF Sound, TypeOK
  <1> DEFINE Payee(p) == Owed(s, p) /\ OwedBefore(s, p) < amount
             Share(p) == [purchase |-> p, amount |-> Takes(s, p, amount),
                          due |-> purchases[p].header.due, date |-> purchases[p].header.date]
  <1>2. Plan(s, amount) = {Share(p) : p \in {p \in 1..Len(purchases) : Payee(p)}}
    BY DEF Plan
  <1>3. ASSUME NEW p \in 1..Len(purchases), Payee(p)
        PROVE  Share(p) \in Allocation /\ Numbered(p)
    <2>1. Due(p) \in Int /\ Due(p) > 0 /\ OwedBefore(s, p) \in Int /\ OwedBefore(s, p) < amount
      BY <1>1, <1>3, DueInt, OwedBeforeInt DEF Owed
    <2>2. Takes(s, p, amount) \in Nat \ {0}
      <3>1. PICK due \in Int, rest \in Int : due = Due(p) /\ rest = amount - OwedBefore(s, p)
        BY <2>1
      <3>2. due > 0 /\ rest > 0
        BY <2>1, <3>1
      <3>3. Least(due, rest) \in Nat \ {0}
        BY <3>1, <3>2 DEF Least
      <3> QED BY <3>1, <3>3 DEF Takes
    <2>3. p \in PurchaseId
      BY <1>1, PurchasesAssumption DEF PurchaseId
    <2>4. purchases[p].header.due \in Date \cup {NoDate} /\ purchases[p].header.date \in Date
      BY <1>1, AgedIs
    <2>5. Numbered(p)
      BY <1>3 DEF Owed, Is, Sound, Typed, Numbered
    <2> QED BY <2>2, <2>3, <2>4, <2>5 DEF Allocation
  <1>4. \A p : Share(p).purchase = p
    OBVIOUS
  <1>5. \E p \in 1..Len(purchases) : Payee(p)
    <2>1. Outstanding(s) # 0
      OBVIOUS
    <2>2. PICK p \in 1..Len(purchases) : Owed(s, p)
      BY <1>1, <2>1, SomeDebt
    <2>3. PICK q \in 1..Len(purchases) : Owed(s, q) /\ OwedBefore(s, q) = 0
      BY <1>1, <2>2, FirstDebt
    <2> QED BY <2>3
  <1> HIDE DEF Share, Payee
  <1> QED BY <1>2, <1>3, <1>4, <1>5

(* Every start. *)
LEMMA StartsSound ==
    ASSUME Sound, NEW r \in Request, Starts(r)
    PROVE  HoldersKept
  <1>1. /\ purchases \in Seq(Purchase) /\ payments \in Seq(Payment) /\ TypeOK
        /\ Len(purchases) \in Nat /\ Len(purchases) <= MaxPurchases
        /\ costs \in [Product \X Supplier -> Recorded \cup {NoCost}]
    BY RowsTyped DEF Sound, TypeOK
  <1>2. \A p \in 1..Len(purchases) : p \in PurchaseId /\ purchases[p] \in Purchase
    BY <1>1, PurchasesAssumption, ElementOfSeq DEF PurchaseId
  <1>3. ASSUME NEW p \in 1..Len(purchases), NEW header \in Headers, HeaderRead(r, p, header)
        PROVE  HoldersKept
    <2>1. PICK st : st = [step |-> "header", purchase |-> p, header |-> header]
      OBVIOUS
    <2>2. st \in RequestState
      BY <1>2, <2>1, InputsAssumption DEF RequestState
    <2>3. Holds(st, purchases, payments, costs)
      BY <2>1 DEF Holds, Planning, Cancelling
    <2>4. Becomes(r, st) /\ Unwritten
      BY <1>3, <2>1 DEF HeaderRead
    <2> QED BY <1>1, <2>2, <2>3, <2>4, HolderReads
  <1>4. ASSUME NEW p \in 1..Len(purchases), NEW a \in Account, ConfirmRead(r, p, a)
        PROVE  HoldersKept
    <2>1. PICK st : st = [step |-> "confirm", purchase |-> p, seen |-> purchases[p], account |-> a]
      OBVIOUS
    <2>2. st \in RequestState
      BY <1>2, <2>1 DEF RequestState
    <2>3. Holds(st, purchases, payments, costs)
      BY <2>1 DEF Holds, Planning, Cancelling
    <2>4. Becomes(r, st) /\ Unwritten
      BY <1>4, <2>1 DEF ConfirmRead
    <2> QED BY <1>1, <2>2, <2>3, <2>4, HolderReads
  <1>5. ASSUME NEW p \in 1..Len(purchases), CancelRead(r, p) PROVE HoldersKept
    <2> DEFINE ids == {i \in 1..Len(purchases[p].lines) : purchases[p].lines[i].product \in Tracked}
    <2>1. Unwritten
      BY <1>5 DEF CancelRead
    <2>2. CASE Becomes(r, [step |-> "discard", purchase |-> p])
      <3>1. PICK st : st = [step |-> "discard", purchase |-> p]
        OBVIOUS
      <3>2. st \in RequestState
        BY <1>2, <3>1 DEF RequestState
      <3>3. Holds(st, purchases, payments, costs)
        BY <3>1 DEF Holds, Planning, Cancelling
      <3> QED BY <1>1, <2>1, <2>2, <3>1, <3>2, <3>3, HolderReads
    <2>3. CASE Becomes(r, [step |-> "reverse", purchase |-> p, pays |-> PaymentsOf(p),
                           lines |-> ids])
      <3>1. PICK st : st = [step |-> "reverse", purchase |-> p, pays |-> PaymentsOf(p),
                            lines |-> ids]
        OBVIOUS
      <3>2. PaymentsOf(p) \subseteq Nat /\ \A i \in PaymentsOf(p) : i \in 1..Len(payments)
                                                            /\ payments[i].purchase = p
        BY DEF PaymentsOf, IsOf
      <3>3. ids \subseteq Nat /\ \A i \in ids : /\ i \in 1..Len(purchases[p].lines)
                                                /\ purchases[p].lines[i].product \in Tracked
        OBVIOUS
      <3> HIDE DEF ids
      <3>4. st \in RequestState
        BY <1>2, <3>1, <3>2, <3>3 DEF RequestState
      <3>5. Holds(st, purchases, payments, costs)
        BY <3>1, <3>2, <3>3 DEF Holds, Planning
      <3> QED BY <1>1, <2>1, <2>3, <3>1, <3>4, <3>5, HolderReads
    <2> QED BY <1>5, <2>2, <2>3 DEF CancelRead
  <1>6. ASSUME NEW p \in 1..Len(purchases), NEW amount \in PayAmount, NEW a \in Account,
               Pay(r, p, amount, a)
        PROVE  HoldersKept
    <2>1. PICK one : one = [purchase |-> p, amount |-> amount, due |-> NoDate,
                            date |-> purchases[p].header.date]
      OBVIOUS
    <2>2. PICK st : st = [step |-> "payPost", account |-> a, plan |-> {one}]
      OBVIOUS
    <2>3. one \in Allocation /\ one.purchase = p
      <3>1. purchases[p].header.date \in Date
        BY <1>1, AgedIs
      <3> QED BY <1>2, <2>1, <3>1, PurchasesAssumption DEF Allocation
    <2>4. Numbered(p)
      BY <1>6 DEF Pay, Payable, Is, Sound, Typed, Numbered
    <2>5. st \in RequestState
      BY <2>2, <2>3 DEF RequestState
    <2>6. Holds(st, purchases, payments, costs)
      BY <2>2, <2>3, <2>4 DEF Holds, Cancelling, Numbered
    <2>7. Becomes(r, st) /\ Unwritten
      BY <1>6, <2>1, <2>2 DEF Pay
    <2> QED BY <1>1, <2>5, <2>6, <2>7, HolderReads
  <1>7. ASSUME NEW s \in Supplier, NEW amount \in PayAmount, NEW a \in Account,
               PaySupplier(r, s, amount, a)
        PROVE  HoldersKept
    <2>1. PICK plan : plan = Plan(s, amount)
      OBVIOUS
    <2>2. PICK st : st = [step |-> "pay", account |-> a, plan |-> plan]
      OBVIOUS
    <2>3. amount \in Nat \ {0} /\ amount <= Outstanding(s)
      BY <1>7, PurchasesAssumption DEF PaySupplier
    <2>4. /\ plan \in SUBSET Allocation /\ plan # {}
          /\ \A b \in plan : b.purchase \in 1..Len(purchases) /\ Numbered(b.purchase)
          /\ \A b, c \in plan : b.purchase = c.purchase => b = c
      BY <2>1, <2>3, PlanTyped
    <2>5. st \in RequestState
      BY <2>2, <2>4 DEF RequestState
    <2>6. Holds(st, purchases, payments, costs)
      BY <2>2, <2>4 DEF Holds, Cancelling, Numbered
    <2>7. Becomes(r, st) /\ Unwritten
      BY <1>7, <2>1, <2>2 DEF PaySupplier
    <2> QED BY <1>1, <2>5, <2>6, <2>7, HolderReads
  <1>8. ASSUME NEW product \in Product, NEW s \in Supplier, NEW cost \in Cost, NEW date \in Date,
               CostRead(r, product, s, cost, date)
        PROVE  HoldersKept
    <2>1. PICK branch : branch = Branch(costs[product, s], cost)
      OBVIOUS
    <2>2. PICK st : st = [step |-> "cost", product |-> product, supplier |-> s, cost |-> cost,
                          date |-> date, branch |-> branch]
      OBVIOUS
    <2>3. /\ branch \in {"create", "refresh", "shift"}
          /\ branch # "create" => costs[<<product, s>>] # NoCost
      BY <2>1 DEF Branch
    <2>4. st \in RequestState
      BY <2>2, <2>3 DEF RequestState
    <2>5. Holds(st, purchases, payments, costs)
      BY <2>2, <2>3 DEF Holds, Planning, Cancelling
    <2>6. Becomes(r, st) /\ Unwritten
      BY <1>8, <2>1, <2>2 DEF CostRead
    <2> QED BY <1>1, <2>4, <2>5, <2>6, HolderReads
  <1>9. ASSUME NEW product \in Tracked, NEW qty \in Qty,
               MoveRead(r, product, qty) \/ MoveRead(r, product, -qty)
        PROVE  HoldersKept
    <2>1. PICK delta \in Int : MoveRead(r, product, delta)
      <3>1. qty \in Int /\ -qty \in Int
        BY PurchasesAssumption
      <3> QED BY <1>9, <3>1
    <2>2. PICK st : st = [step |-> "move", product |-> product, delta |-> delta]
      OBVIOUS
    <2>3. st \in RequestState
      BY <2>2 DEF RequestState
    <2>4. Holds(st, purchases, payments, costs)
      BY <2>2 DEF Holds, Planning, Cancelling
    <2>5. Becomes(r, st) /\ Unwritten
      BY <2>1, <2>2 DEF MoveRead
    <2> QED BY <1>1, <2>3, <2>4, <2>5, HolderReads
  <1> QED BY <1>3, <1>4, <1>5, <1>6, <1>7, <1>8, <1>9 DEF Starts

-----------------------------------------------------------------------------
(* A request that goes on keeps the ledgers and what it holds.             *)

(* A recorded cost is typed, however it is recorded. *)
LEMMA CostTyped ==
    ASSUME NEW row \in Recorded \cup {NoCost}, NEW branch \in {"create", "refresh", "shift"},
           branch # "create" => row # NoCost, NEW cost \in Cost, NEW date \in Date
    PROVE  WithCost(row, branch, cost, date) \in Recorded
           /\ WithCost(row, branch, cost, date) # NoCost
  <1>1. cost \in Nat /\ cost # -1
    BY PurchasesAssumption
  <1>2. \A x \in Recorded : x # NoCost
    <2> SUFFICES ASSUME NEW x \in Recorded PROVE x # NoCost
      OBVIOUS
    <2>1. x.cost \in Nat
      BY PurchasesAssumption DEF Recorded
    <2> QED BY <2>1 DEF NoCost
  <1>3. WithCost(row, branch, cost, date) \in Recorded
    <2>1. CASE branch = "create"
      BY <2>1 DEF WithCost, Recorded
    <2>2. CASE branch = "refresh"
      BY <2>2 DEF WithCost, Recorded
    <2>3. CASE branch = "shift"
      BY <2>3 DEF WithCost, Recorded
    <2> QED BY <2>1, <2>2, <2>3
  <1> QED BY <1>2, <1>3

(* So are the costs a confirm leaves. *)
LEMMA CostsOfTyped ==
    ASSUME TypeOK, NEW seen \in Purchase
    PROVE  /\ CostsOf(seen) \in [Product \X Supplier -> Recorded \cup {NoCost}]
           /\ \A pair \in Product \X Supplier : costs[pair] # NoCost => CostsOf(seen)[pair] # NoCost
  <1>1. /\ seen.lines \in Seq(Line) /\ seen.header.date \in Date /\ seen.header.supplier \in Supplier
        /\ costs \in [Product \X Supplier -> Recorded \cup {NoCost}]
    BY DEF Purchase, Header, TypeOK
  <1>2. ASSUME NEW pair \in Product \X Supplier
        PROVE  /\ CostsOf(seen)[pair] \in Recorded \cup {NoCost}
               /\ costs[pair] # NoCost => CostsOf(seen)[pair] # NoCost
    <2>1. CASE \E i \in 1..Len(seen.lines) : pair = <<seen.lines[i].product, seen.header.supplier>>
      <3>1. \E i \in 1..Len(seen.lines) : seen.lines[i].product = pair[1]
        BY <2>1
      <3>2. PICK i : i = CHOOSE j \in 1..Len(seen.lines) : seen.lines[j].product = pair[1]
        OBVIOUS
      <3>3. i \in 1..Len(seen.lines)
        BY <3>1, <3>2
      <3>4. PICK line : line = seen.lines[i]
        OBVIOUS
      <3>5. line.cost \in Cost
        <4>1. seen.lines[i] \in Line
          BY <1>1, <3>3, ElementOfSeq
        <4> QED BY <3>4, <4>1 DEF Line
      <3>6. PICK row \in Recorded \cup {NoCost} : row = costs[pair]
        BY <1>1
      <3>7. PICK branch : branch = Branch(row, line.cost)
        OBVIOUS
      <3>8. branch \in {"create", "refresh", "shift"} /\ (branch # "create" => row # NoCost)
        BY <3>7 DEF Branch
      <3>9. CostsOf(seen)[pair] = WithCost(row, branch, line.cost, seen.header.date)
        BY <2>1, <3>2, <3>4, <3>6, <3>7 DEF CostsOf
      <3>10. PICK date \in Date : date = seen.header.date
        BY <1>1
      <3>11. WithCost(row, branch, line.cost, date) \in Recorded
             /\ WithCost(row, branch, line.cost, date) # NoCost
        BY <3>5, <3>8, CostTyped
      <3> QED BY <3>9, <3>10, <3>11
    <2>2. CASE ~ \E i \in 1..Len(seen.lines) : pair = <<seen.lines[i].product, seen.header.supplier>>
      <3>1. CostsOf(seen)[pair] = costs[pair]
        BY <2>2 DEF CostsOf
      <3> QED BY <1>1, <3>1
    <2> QED BY <2>1, <2>2
  <1>3. CostsOf(seen) = [pair \in Product \X Supplier |-> CostsOf(seen)[pair]]
    BY DEF CostsOf
  <1> QED BY <1>2, <1>3

(* A movement of a tracked product is added to the others. *)
LEMMA MovesGrow ==
    ASSUME TypeOK, NEW product \in Tracked, NEW delta \in Int, NEW number \in Number,
           moves' = Append(moves, [product |-> product, delta |-> delta, number |-> number]),
           UNCHANGED <<entries, payments, costs>>
    PROVE  LedgersKept
  <1>1. [product |-> product, delta |-> delta, number |-> number] \in Move
    BY DEF Move
  <1>2. moves' \in Seq(Move)
    BY <1>1 DEF TypeOK
  <1> QED BY <1>2 DEF TypeOK, LedgersKept

(* A transaction is added to the others. *)
LEMMA EntriesGrow ==
    ASSUME TypeOK, NEW kind \in {"Income", "Expense"}, NEW a \in Account,
           NEW amount \in Nat \ {0}, NEW number \in Number,
           entries' = Append(entries, [kind |-> kind, account |-> a, amount |-> amount,
                                       number |-> number]),
           UNCHANGED <<moves, payments, costs>>
    PROVE  LedgersKept /\ Len(entries) + 1 \in Nat \ {0}
  <1>1. [kind |-> kind, account |-> a, amount |-> amount, number |-> number] \in Entry
    BY DEF Entry
  <1>2. entries' \in Seq(Entry) /\ Len(entries) \in Nat
    BY <1>1 DEF TypeOK
  <1> QED BY <1>2 DEF TypeOK, LedgersKept

(* A payment of a numbered purchase is added to the others. *)
LEMMA PaymentsGrow ==
    ASSUME TypeOK, NEW x \in Payment, payments' = Append(payments, x),
           x.purchase \in 1..Len(purchases'), purchases'[x.purchase].number # NoNumber
    PROVE  /\ payments' \in Seq(Payment)
           /\ \A i \in 1..Len(payments) :
                  i \in 1..Len(payments') /\ payments'[i].purchase = payments[i].purchase
           /\ \A i \in 1..Len(payments') :
                  \/ i \in 1..Len(payments) /\ payments'[i].purchase = payments[i].purchase
                  \/ /\ payments'[i].purchase \in 1..Len(purchases')
                     /\ purchases'[payments'[i].purchase].number # NoNumber
  <1>1. payments \in Seq(Payment) /\ Len(payments) \in Nat
    BY DEF TypeOK
  <1>2. /\ payments' \in Seq(Payment) /\ Len(payments') = Len(payments) + 1
        /\ payments'[Len(payments) + 1] = x
        /\ \A i \in 1..Len(payments) : payments'[i] = payments[i]
    BY <1>1
  <1>3. \A i \in 1..Len(payments') : i \in 1..Len(payments) \/ i = Len(payments) + 1
    BY <1>1, <1>2
  <1>4. \A i \in 1..Len(payments) : i \in 1..Len(payments')
    BY <1>1, <1>2
  <1> QED BY <1>2, <1>3, <1>4

(* The payment a plan comes to next. *)
LEMMA NextPaidSound ==
    ASSUME Sound, NEW r \in Request, req[r].step \in Planning
    PROVE  /\ NextPaid(req[r].plan) \in req[r].plan /\ NextPaid(req[r].plan) \in Allocation
           /\ NextPaid(req[r].plan).purchase \in 1..Len(purchases)
           /\ Numbered(NextPaid(req[r].plan).purchase)
           /\ purchases[NextPaid(req[r].plan).purchase].number \in Number
           /\ req[r].plan \in SUBSET Allocation /\ req[r].account \in Account
           /\ \A b \in req[r].plan : NextPaid(req[r].plan) = b \/ Older(NextPaid(req[r].plan), b)
  <1>1. PICK q : q = req[r]
    OBVIOUS
  <1>2. q.plan \in SUBSET Allocation /\ q.account \in Account
    BY <1>1, RequestShape DEF Sound
  <1>3. /\ q.plan # {}
        /\ \A a \in q.plan : a.purchase \in 1..Len(purchases) /\ Numbered(a.purchase)
        /\ \A a, b \in q.plan : a.purchase = b.purchase => a = b
    BY <1>1 DEF Sound, Holds, Numbered
  <1>4. /\ NextPaid(q.plan) \in q.plan /\ NextPaid(q.plan) \in Allocation
        /\ \A b \in q.plan : NextPaid(q.plan) = b \/ Older(NextPaid(q.plan), b)
    BY <1>2, <1>3, NextPaidIn
  <1>5. purchases[NextPaid(q.plan).purchase] \in Purchase
    BY <1>3, <1>4, RowsTyped DEF Sound
  <1> QED BY <1>1, <1>2, <1>3, <1>4, <1>5 DEF Purchase

(* The line an annulment takes out next. *)
LEMMA NextOutSound ==
    ASSUME Sound, NEW r \in Request, req[r].step \in {"reverse", "out"}, req[r].lines # {}
    PROVE  /\ req[r].purchase \in 1..Len(purchases) /\ Numbered(req[r].purchase)
           /\ purchases[req[r].purchase].number \in Number
           /\ First(req[r].lines) \in req[r].lines
           /\ First(req[r].lines) \in 1..Len(purchases[req[r].purchase].lines)
           /\ NextOut(req[r]) = purchases[req[r].purchase].lines[First(req[r].lines)]
           /\ NextOut(req[r]).product \in Tracked
           /\ NextOut(req[r]).qty \in Nat \ {0}
  <1>1. PICK q : q = req[r]
    OBVIOUS
  <1>2. q.step \in Cancelling /\ q.lines \in SUBSET Nat
    BY <1>1, RequestShape DEF Sound, Cancelling
  <1>3. q.purchase \in 1..Len(purchases) /\ Numbered(q.purchase)
    BY <1>1, <1>2 DEF Sound, Typed, Relies, Numbered
  <1>4. First(q.lines) \in q.lines
    BY <1>1, <1>2, FirstIn
  <1>5. /\ First(q.lines) \in 1..Len(purchases[q.purchase].lines)
        /\ purchases[q.purchase].lines[First(q.lines)].product \in Tracked
    BY <1>1, <1>4 DEF Sound, Holds
  <1>6. purchases[q.purchase] \in Purchase /\ purchases[q.purchase].lines \in Seq(Line)
    BY <1>3, RowsTyped DEF Sound
  <1>7. purchases[q.purchase].lines[First(q.lines)] \in Line
    BY <1>5, <1>6, ElementOfSeq
  <1>8. purchases[q.purchase].lines[First(q.lines)].qty \in Nat \ {0}
    BY <1>7, PurchasesAssumption DEF Line
  <1>9. NextOut(q) = purchases[q.purchase].lines[First(q.lines)]
    BY DEF NextOut
  <1> QED BY <1>1, <1>3, <1>4, <1>5, <1>6, <1>8, <1>9 DEF Purchase

-----------------------------------------------------------------------------
(* Every step of a request's work.                                         *)

(* What a document request writes. *)
LEMMA DocumentWorks ==
    ASSUME Sound, NEW r \in Request, HeaderWrite(r) \/ Discard(r) \/ CancelClose(r)
    PROVE  LedgersKept /\ HoldersKept
  <1>1. TypeOK /\ Becomes(r, Idle) /\ UNCHANGED <<moves, entries, payments, costs>>
    BY DEF Sound, HeaderWrite, Discard, CancelClose, Close
  <1> QED BY <1>1, LedgersSame, HolderEnds

(* The unit of a confirm. *)
LEMMA UnitWorks ==
    ASSUME Sound, NEW r \in Request, ConfirmUnit(r)
    PROVE  LedgersKept /\ HoldersKept
  <1>1. PICK q : q = req[r]
    OBVIOUS
  <1>2. TypeOK /\ Becomes(r, Idle) /\ q.step = "confirm"
    BY <1>1 DEF Sound, ConfirmUnit
  <1>3. q.seen \in Purchase /\ q.account \in Account /\ q.purchase \in 1..Len(purchases)
    BY <1>1, <1>2, RequestShape DEF Sound, Typed, Relies
  <1>4. purchases[q.purchase] \in Purchase /\ purchases \in Seq(Purchase)
        /\ lastNumber \in [Year -> Nat]
    BY <1>3, RowsTyped DEF Sound
  <1>5. PICK year : year = q.seen.header.date[1]
    OBVIOUS
  <1>6. PICK number : number = NextNumber(year)
    OBVIOUS
  <1>7. year \in Year
    <2>1. q.seen.header.date \in Date
      BY <1>3 DEF Purchase, Header
    <2> QED BY <1>5, <2>1 DEF Date
  <1>8. number \in Number /\ number # NoNumber
    BY <1>4, <1>6, <1>7 DEF NextNumber, Number, NoNumber
  <1>9. PICK received : received = TrackedLines(q.seen.lines)
    OBVIOUS
  <1>10. received \in Seq(TrackedLine) /\ Len(received) \in Nat
    BY <1>3, <1>9, ChargeNat, TrackedLinesTyped
  <1>11. PICK charge \in Nat : charge = Charge(q.seen)
    BY <1>3, ChargeNat
  <1>12. moves' \in Seq(Move)
    <2> DEFINE added == [i \in 1..Len(received) |->
                  [product |-> received[i].product, delta |-> received[i].qty, number |-> number]]
    <2>1. \A i \in 1..Len(received) : added[i] \in Move
      <3> SUFFICES ASSUME NEW i \in 1..Len(received) PROVE added[i] \in Move
        OBVIOUS
      <3>1. received[i] \in TrackedLine
        BY <1>10, ElementOfSeq
      <3>2. PICK row : row = received[i]
        OBVIOUS
      <3>3. row.product \in Tracked /\ row.qty \in Int
        <4>1. row.product \in Tracked /\ row.qty \in Qty
          BY <3>1, <3>2 DEF TrackedLine
        <4>2. \A n \in Qty : n \in Int
          BY PurchasesAssumption
        <4> QED BY <4>1, <4>2
      <3>4. added[i] = [product |-> row.product, delta |-> row.qty, number |-> number]
        BY <3>2
      <3> HIDE DEF added
      <3> QED BY <1>8, <3>3, <3>4 DEF Move
    <2>2. added \in Seq(Move)
      BY <1>10, <2>1, IsASeq
    <2>3. moves' = moves \o added
      BY <1>1, <1>5, <1>6, <1>9 DEF ConfirmUnit
    <2> HIDE DEF added
    <2> QED BY <1>2, <2>2, <2>3, ConcatProperties DEF TypeOK
  <1>13. costs' = CostsOf(q.seen)
    BY <1>1 DEF ConfirmUnit
  <1>14. /\ costs' \in [Product \X Supplier -> Recorded \cup {NoCost}]
         /\ \A pair \in Product \X Supplier : costs[pair] # NoCost => costs'[pair] # NoCost
    BY <1>2, <1>3, <1>13, CostsOfTyped
  <1>15. /\ Len(purchases') = Len(purchases) /\ purchases'[q.purchase].number = number
    <2>1. purchases' = [purchases EXCEPT ![q.purchase] =
                            [purchases[q.purchase] EXCEPT !.status = "Confirmed",
                                                          !.number = number]]
      BY <1>1, <1>5, <1>6 DEF ConfirmUnit, Rewrite
    <2> QED BY <1>3, <1>4, <2>1 DEF Purchase
  <1>16. Len(entries) \in Nat /\ Len(payments) \in Nat /\ payments \in Seq(Payment)
         /\ entries \in Seq(Entry)
    BY <1>2 DEF TypeOK
  <1>17. CASE charge > 0
    <2>1. PICK x : x = [purchase |-> q.purchase, account |-> q.account, amount |-> charge,
                        tx |-> Len(entries) + 1, refund |-> 0]
      OBVIOUS
    <2>2. x \in Payment /\ x.purchase = q.purchase
      BY <1>3, <1>16, <1>17, <2>1 DEF Payment
    <2>3. PICK e : e = [kind |-> "Expense", account |-> q.account, amount |-> charge,
                        number |-> number]
      OBVIOUS
    <2>4. e \in Entry
      BY <1>3, <1>8, <1>17, <2>3 DEF Entry
    <2>5. entries' = Append(entries, e) /\ payments' = Append(payments, x)
      BY <1>1, <1>5, <1>6, <1>11, <1>17, <2>1, <2>3 DEF ConfirmUnit
    <2>6. entries' \in Seq(Entry)
      BY <1>16, <2>4, <2>5
    <2>7. x.purchase \in 1..Len(purchases') /\ purchases'[x.purchase].number # NoNumber
      BY <1>3, <1>8, <1>15, <2>2
    <2>8. /\ payments' \in Seq(Payment)
          /\ \A i \in 1..Len(payments) :
                 i \in 1..Len(payments') /\ payments'[i].purchase = payments[i].purchase
          /\ \A i \in 1..Len(payments') :
                 \/ i \in 1..Len(payments) /\ payments'[i].purchase = payments[i].purchase
                 \/ /\ payments'[i].purchase \in 1..Len(purchases')
                    /\ purchases'[payments'[i].purchase].number # NoNumber
      BY <1>2, <2>2, <2>5, <2>7, PaymentsGrow
    <2>9. LedgersKept
      BY <1>12, <1>14, <2>6, <2>8 DEF LedgersKept
    <2> QED BY <1>2, <2>9, HolderEnds
  <1>18. CASE ~ charge > 0
    <2>1. entries' = entries /\ payments' = payments
      BY <1>1, <1>11, <1>18 DEF ConfirmUnit
    <2>2. LedgersKept
      BY <1>12, <1>14, <1>16, <2>1 DEF LedgersKept
    <2> QED BY <1>2, <2>2, HolderEnds
  <1> QED BY <1>17, <1>18

(* A payment. *)
LEMMA PayWorks ==
    ASSUME Sound, NEW r \in Request, PayCheck(r) \/ PayPost(r) \/ PayLink(r)
    PROVE  LedgersKept /\ HoldersKept
  <1>1. PICK q : q = req[r]
    OBVIOUS
  <1>2. TypeOK /\ q.step \in Planning
    BY <1>1 DEF Sound, Planning, PayCheck, PayPost, PayLink
  <1>3. PICK next : next = NextPaid(q.plan)
    OBVIOUS
  <1>4. /\ next \in q.plan /\ next \in Allocation /\ next.purchase \in 1..Len(purchases)
        /\ Numbered(next.purchase) /\ purchases[next.purchase].number \in Number
        /\ q.plan \in SUBSET Allocation /\ q.account \in Account
    BY <1>1, <1>2, <1>3, NextPaidSound
  <1>5. /\ \A a \in q.plan : a.purchase \in 1..Len(purchases)
                             /\ purchases[a.purchase].number # NoNumber
        /\ \A a, b \in q.plan : a.purchase = b.purchase => a = b
    BY <1>1, <1>2 DEF Sound, Holds
  <1>6. next.amount \in Nat \ {0} /\ next.purchase \in Nat \ {0}
    BY <1>4, PurchasesAssumption DEF Allocation, PurchaseId
  <1>7. CASE PayCheck(r)
    <2>1. q.step = "pay" /\ Becomes(r, [q EXCEPT !.step = "payPost"]) /\ Unwritten
      BY <1>1, <1>7 DEF PayCheck
    <2>2. q = [step |-> "pay", plan |-> q.plan, account |-> q.account]
      BY <1>1, <2>1 DEF Sound, Typed, Relies
    <2>3. PICK st : st = [step |-> "payPost", plan |-> q.plan, account |-> q.account]
      OBVIOUS
    <2>4. [q EXCEPT !.step = "payPost"] = st
      BY <2>2, <2>3
    <2>5. st \in RequestState
      BY <1>4, <2>3 DEF RequestState
    <2>6. Holds(st, purchases, payments, costs)
      BY <1>4, <1>5, <2>3 DEF Holds, Cancelling
    <2>7. HoldersKept
      BY <1>2, <2>1, <2>4, <2>5, <2>6, HolderReads
    <2> QED BY <1>2, <2>1, <2>7, LedgersSame DEF Unwritten
  <1>8. CASE PayPost(r)
    <2>1. /\ entries' = Append(entries, [kind |-> "Expense", account |-> q.account,
                                         amount |-> next.amount,
                                         number |-> purchases[next.purchase].number])
          /\ UNCHANGED <<purchases, moves, payments, costs>>
      BY <1>1, <1>3, <1>8 DEF PayPost
    <2>2. LedgersKept /\ Len(entries) + 1 \in Nat \ {0}
      <3>1. PICK kind \in {"Income", "Expense"} : kind = "Expense"
        OBVIOUS
      <3>2. UNCHANGED <<moves, payments, costs>>
        BY <2>1
      <3> QED BY <1>2, <1>4, <1>6, <2>1, <3>1, <3>2, EntriesGrow
    <2>3. PICK st : st = [step |-> "payLink", plan |-> q.plan, account |-> q.account,
                          tx |-> Len(entries) + 1]
      OBVIOUS
    <2>4. st \in RequestState
      BY <1>4, <2>2, <2>3 DEF RequestState
    <2>5. Holds(st, purchases', payments', costs')
      BY <1>4, <1>5, <2>1, <2>3 DEF Holds, Cancelling
    <2>6. Becomes(r, st)
      BY <1>1, <1>3, <1>8, <2>3 DEF PayPost
    <2> QED BY <1>2, <2>2, <2>4, <2>5, <2>6, HolderMoves
  <1>9. CASE PayLink(r)
    <2>1. q.step = "payLink" /\ UNCHANGED <<purchases, moves, entries, costs>>
          /\ payments' = Append(payments, PaymentRow(q))
      BY <1>1, <1>9 DEF PayLink
    <2>2. q.tx \in Nat \ {0}
      BY <1>1, <1>2, <2>1, RequestShape
    <2>3. PICK x : x = PaymentRow(q)
      OBVIOUS
    <2>4. x \in Payment /\ x.purchase = next.purchase
      BY <1>3, <1>4, <1>6, <2>2, <2>3 DEF Payment, PaymentRow
    <2>5. x.purchase \in 1..Len(purchases') /\ purchases'[x.purchase].number # NoNumber
      BY <1>4, <2>1, <2>4 DEF Numbered
    <2>6. /\ payments' \in Seq(Payment)
          /\ \A i \in 1..Len(payments) :
                 i \in 1..Len(payments') /\ payments'[i].purchase = payments[i].purchase
          /\ \A i \in 1..Len(payments') :
                 \/ i \in 1..Len(payments) /\ payments'[i].purchase = payments[i].purchase
                 \/ /\ payments'[i].purchase \in 1..Len(purchases')
                    /\ purchases'[payments'[i].purchase].number # NoNumber
      BY <1>2, <2>1, <2>3, <2>4, <2>5, PaymentsGrow
    <2>7. LedgersKept
      BY <1>2, <2>1, <2>6 DEF LedgersKept, TypeOK
    <2>8. CASE q.plan = {next}
      <3>1. Becomes(r, Idle)
        BY <1>1, <1>3, <1>9, <2>8 DEF PayLink
      <3> QED BY <1>2, <2>7, <3>1, HolderEnds
    <2>9. CASE q.plan # {next}
      <3>1. PICK st : st = [step |-> "pay", plan |-> q.plan \ {next}, account |-> q.account]
        OBVIOUS
      <3>2. st \in RequestState
        BY <1>4, <3>1 DEF RequestState
      <3>3. st.plan # {} /\ st.plan \subseteq q.plan /\ st.step = "pay"
        BY <1>4, <2>9, <3>1
      <3>4. Holds(st, purchases', payments', costs')
        BY <1>5, <2>1, <3>3 DEF Holds, Cancelling
      <3>5. Becomes(r, st)
        BY <1>1, <1>3, <1>9, <2>9, <3>1 DEF PayLink
      <3> QED BY <1>2, <2>7, <3>2, <3>4, <3>5, HolderMoves
    <2> QED BY <2>8, <2>9
  <1> QED BY <1>7, <1>8, <1>9

(* An annulment goes back to its lines. *)
LEMMA LineTaken ==
    ASSUME NEW q, q = [step |-> q.step, purchase |-> q.purchase, lines |-> q.lines, pays |-> q.pays],
           NEW left
    PROVE  [q EXCEPT !.step = "reverse", !.lines = left] =
               [step |-> "reverse", purchase |-> q.purchase, lines |-> left, pays |-> q.pays]
  <1>1. PICK e : e = [q EXCEPT !.step = "reverse", !.lines = left]
    OBVIOUS
  <1>2. DOMAIN q = {"step", "purchase", "lines", "pays"}
    OBVIOUS
  <1>3. DOMAIN e = {"step", "purchase", "lines", "pays"}
    BY <1>1, <1>2
  <1>4. e.step = "reverse" /\ e.purchase = q.purchase /\ e.lines = left /\ e.pays = q.pays
    BY <1>1, <1>2
  <1>5. e = [step |-> e.step, purchase |-> e.purchase, lines |-> e.lines, pays |-> e.pays]
    BY <1>1, <1>3
  <1> QED BY <1>1, <1>4, <1>5

(* The goods of an annulment. *)
LEMMA OutWorks ==
    ASSUME Sound, NEW r \in Request, OutCheck(r) \/ OutInsert(r)
    PROVE  LedgersKept /\ HoldersKept
  <1>1. PICK q : q = req[r]
    OBVIOUS
  <1>2. TypeOK /\ q.step \in {"reverse", "out"} /\ q.lines # {}
    BY <1>1 DEF Sound, Holds, OutCheck, OutInsert
  <1>3. /\ q.purchase \in 1..Len(purchases) /\ purchases[q.purchase].number \in Number
        /\ First(q.lines) \in q.lines
        /\ NextOut(q).product \in Tracked /\ NextOut(q).qty \in Nat \ {0}
    BY <1>1, <1>2, NextOutSound
  <1>4. q = [step |-> q.step, purchase |-> q.purchase, lines |-> q.lines, pays |-> q.pays]
    BY <1>1, <1>2 DEF Sound, Typed, Relies
  <1>5. q.lines \in SUBSET Nat /\ q.pays \in SUBSET Nat /\ q.purchase \in PurchaseId
    BY <1>1, <1>2, RequestShape DEF Cancelling
  <1>6. /\ \A i \in q.pays : i \in 1..Len(payments) /\ payments[i].purchase = q.purchase
        /\ \A i \in q.lines : /\ i \in 1..Len(purchases[q.purchase].lines)
                              /\ purchases[q.purchase].lines[i].product \in Tracked
    BY <1>1, <1>2 DEF Sound, Holds, Cancelling
  <1>7. CASE OutCheck(r)
    <2>1. q.step = "reverse" /\ Becomes(r, [q EXCEPT !.step = "out"]) /\ Unwritten
      BY <1>1, <1>7 DEF OutCheck
    <2>2. PICK st : st = [step |-> "out", purchase |-> q.purchase, lines |-> q.lines, pays |-> q.pays]
      OBVIOUS
    <2>3. [q EXCEPT !.step = "out"] = st
      BY <1>4, <2>1, <2>2
    <2>4. st \in RequestState
      BY <1>5, <2>2 DEF RequestState
    <2>5. Holds(st, purchases, payments, costs)
      BY <1>2, <1>6, <2>2 DEF Holds, Planning
    <2>6. HoldersKept
      BY <1>2, <2>1, <2>3, <2>4, <2>5, HolderReads
    <2> QED BY <1>2, <2>1, <2>6, LedgersSame DEF Unwritten
  <1>8. CASE OutInsert(r)
    <2>1. /\ moves' = Append(moves, [product |-> NextOut(q).product, delta |-> -NextOut(q).qty,
                                     number |-> purchases[q.purchase].number])
          /\ UNCHANGED <<purchases, entries, payments, costs>>
      BY <1>1, <1>8 DEF OutInsert
    <2>2. PICK delta \in Int : delta = -NextOut(q).qty
      BY <1>3
    <2>3. LedgersKept
      <3>1. UNCHANGED <<entries, payments, costs>>
        BY <2>1
      <3> QED BY <1>2, <1>3, <2>1, <2>2, <3>1, MovesGrow
    <2>4. PICK st : st = [step |-> "reverse", purchase |-> q.purchase,
                          lines |-> q.lines \ {First(q.lines)}, pays |-> q.pays]
      OBVIOUS
    <2>5. [q EXCEPT !.step = "reverse", !.lines = @ \ {First(q.lines)}] = st
      <3>1. PICK left : left = q.lines \ {First(q.lines)}
        OBVIOUS
      <3>2. q = [step |-> q.step, purchase |-> q.purchase, lines |-> q.lines, pays |-> q.pays]
        BY <1>4
      <3>3. [q EXCEPT !.step = "reverse", !.lines = left] =
              [step |-> "reverse", purchase |-> q.purchase, lines |-> left, pays |-> q.pays]
        BY <3>2, LineTaken
      <3> QED BY <2>4, <3>1, <3>3
    <2>6. st \in RequestState
      BY <1>5, <2>4 DEF RequestState
    <2>7. Holds(st, purchases', payments', costs')
      BY <1>6, <2>1, <2>4 DEF Holds, Planning
    <2>8. Becomes(r, st)
      BY <1>1, <1>8, <2>5 DEF OutInsert
    <2> QED BY <1>2, <2>3, <2>6, <2>7, <2>8, HolderMoves
  <1> QED BY <1>7, <1>8

-----------------------------------------------------------------------------

(* The refunds of an annulment. *)
LEMMA RefundWorks ==
    ASSUME Sound, NEW r \in Request, RefundPost(r) \/ RefundLink(r)
    PROVE  LedgersKept /\ HoldersKept
  <1>1. PICK q : q = req[r]
    OBVIOUS
  <1>2. TypeOK /\ q.step \in Cancelling /\ q.pays # {}
    BY <1>1 DEF Sound, Holds, Cancelling, RefundPost, RefundLink
  <1>3. /\ q.pays \in SUBSET Nat /\ q.purchase \in PurchaseId
        /\ q.purchase \in 1..Len(purchases) /\ Numbered(q.purchase)
        /\ \A i \in q.pays : i \in 1..Len(payments) /\ payments[i].purchase = q.purchase
    BY <1>1, <1>2, RequestShape DEF Sound, Typed, Relies, Holds, Numbered
  <1>4. PICK first : first = First(q.pays)
    OBVIOUS
  <1>5. first \in q.pays /\ first \in 1..Len(payments)
    BY <1>2, <1>3, <1>4, FirstIn
  <1>6. payments \in Seq(Payment) /\ payments[first] \in Payment
    BY <1>2, <1>5, ElementOfSeq DEF TypeOK
  <1>7. CASE RefundPost(r)
    <2>1. PICK pay \in Payment : pay = payments[first]
      BY <1>6
    <2>2. PICK number : number = purchases[q.purchase].number
      OBVIOUS
    <2>3. number \in Number
      <3>1. purchases[q.purchase] \in Purchase
        BY <1>3, RowsTyped DEF Sound
      <3> QED BY <2>2, <3>1 DEF Purchase
    <2>4. /\ entries' = Append(entries, [kind |-> "Income", account |-> pay.account,
                                         amount |-> pay.amount, number |-> number])
          /\ UNCHANGED <<moves, payments, costs>> /\ purchases' = purchases
      BY <1>1, <1>4, <1>7, <2>1, <2>2 DEF RefundPost
    <2>5. pay.account \in Account /\ pay.amount \in Nat \ {0}
      BY DEF Payment
    <2>6. LedgersKept /\ Len(entries) + 1 \in Nat \ {0}
      <3>1. PICK kind \in {"Income", "Expense"} : kind = "Income"
        OBVIOUS
      <3>2. UNCHANGED <<moves, payments, costs>>
        BY <2>4
      <3> QED BY <1>2, <2>3, <2>4, <2>5, <3>1, <3>2, EntriesGrow
    <2>7. PICK st : st = [step |-> "link", purchase |-> q.purchase, lines |-> {}, pays |-> q.pays,
                          tx |-> Len(entries) + 1]
      OBVIOUS
    <2>8. st \in RequestState
      BY <1>3, <2>6, <2>7 DEF RequestState
    <2>9. Holds(st, purchases', payments', costs')
      BY <1>2, <1>3, <2>4, <2>7 DEF Holds, Planning
    <2>10. Becomes(r, st)
      BY <1>1, <1>7, <2>7 DEF RefundPost
    <2> QED BY <1>2, <2>6, <2>8, <2>9, <2>10, HolderMoves
  <1>8. CASE RefundLink(r)
    <2>1. PICK tx \in Nat \ {0} : tx = q.tx
      BY <1>1, <1>2, <1>8, RequestShape DEF RefundLink
    <2>2. PICK pay \in Payment : pay = payments[first]
      BY <1>6
    <2>3. PICK x : x = [pay EXCEPT !.refund = tx]
      OBVIOUS
    <2>4. x \in Payment /\ x.purchase = pay.purchase
      BY <2>3 DEF Payment
    <2>5. payments' = [payments EXCEPT ![first] = x]
          /\ UNCHANGED <<purchases, moves, entries, costs>>
      BY <1>1, <1>4, <1>8, <2>1, <2>2, <2>3 DEF RefundLink
    <2>6. /\ payments' \in Seq(Payment) /\ Len(payments') = Len(payments)
          /\ \A i \in 1..Len(payments) : payments'[i].purchase = payments[i].purchase
      <3>1. /\ payments' \in Seq(Payment) /\ Len(payments') = Len(payments) /\ payments'[first] = x
            /\ \A i \in 1..Len(payments) : i # first => payments'[i] = payments[i]
        BY <1>5, <1>6, <2>4, <2>5, ExceptSeq
      <3> QED BY <2>2, <2>4, <3>1
    <2>7. LedgersKept
      BY <1>2, <2>5, <2>6 DEF LedgersKept, TypeOK
    <2>8. PICK st : st = [step |-> "reverse", purchase |-> q.purchase, lines |-> {},
                          pays |-> q.pays \ {first}]
      OBVIOUS
    <2>9. st \in RequestState
      BY <1>3, <2>8 DEF RequestState
    <2>10. Holds(st, purchases', payments', costs')
      BY <1>3, <2>6, <2>8 DEF Holds, Planning
    <2>11. Becomes(r, st)
      BY <1>1, <1>4, <1>8, <2>8 DEF RefundLink
    <2> QED BY <1>2, <2>7, <2>9, <2>10, <2>11, HolderMoves
  <1> QED BY <1>7, <1>8

(* What is written by hand. *)
LEMMA HandWorks ==
    ASSUME Sound, NEW r \in Request, CostWrite(r) \/ MoveInsert(r)
    PROVE  LedgersKept /\ HoldersKept
  <1>1. PICK q : q = req[r]
    OBVIOUS
  <1>2. TypeOK /\ Becomes(r, Idle)
    BY DEF Sound, CostWrite, MoveInsert
  <1>3. CASE CostWrite(r)
    <2>1. q.step = "cost" /\ UNCHANGED <<purchases, moves, entries, payments>>
      BY <1>1, <1>3 DEF CostWrite
    <2>2. /\ q.product \in Product /\ q.supplier \in Supplier /\ q.cost \in Cost /\ q.date \in Date
          /\ q.branch \in {"create", "refresh", "shift"}
      BY <1>1, <1>2, <2>1, RequestShape
    <2>3. PICK own \in Product \X Supplier : own = <<q.product, q.supplier>>
      BY <2>2
    <2>4. PICK row \in Recorded \cup {NoCost} : row = costs[own]
      BY <1>2 DEF TypeOK
    <2>5. q.branch # "create" => row # NoCost
      BY <1>1, <2>1, <2>3, <2>4 DEF Sound, Holds
    <2>6. PICK x : x = WithCost(row, q.branch, q.cost, q.date)
      OBVIOUS
    <2>7. x \in Recorded /\ x # NoCost
      BY <2>2, <2>5, <2>6, CostTyped
    <2>8. costs' = [costs EXCEPT ![own] = x]
      BY <1>1, <1>3, <2>3, <2>4, <2>6 DEF CostWrite
    <2>9. /\ costs' \in [Product \X Supplier -> Recorded \cup {NoCost}]
          /\ \A pair \in Product \X Supplier : costs[pair] # NoCost => costs'[pair] # NoCost
      BY <1>2, <2>7, <2>8 DEF TypeOK
    <2>10. LedgersKept
      BY <1>2, <2>1, <2>9 DEF LedgersKept, TypeOK
    <2> QED BY <1>2, <2>10, HolderEnds
  <1>4. CASE MoveInsert(r)
    <2>1. /\ q.step = "move" /\ UNCHANGED <<entries, payments, costs>>
          /\ moves' = Append(moves, [product |-> q.product, delta |-> q.delta, number |-> NoNumber])
      BY <1>1, <1>4 DEF MoveInsert
    <2>2. q.product \in Tracked /\ q.delta \in Int /\ NoNumber \in Number
      BY <1>1, <1>2, <2>1, RequestShape DEF Number
    <2>3. UNCHANGED <<entries, payments, costs>>
      BY <2>1
    <2>4. LedgersKept
      BY <1>2, <2>1, <2>2, <2>3, MovesGrow
    <2> QED BY <1>2, <2>4, HolderEnds
  <1> QED BY <1>3, <1>4

(* Every step of a request. *)
LEMMA WorksSound ==
    ASSUME Sound, NEW r \in Request, Works(r)
    PROVE  LedgersKept /\ HoldersKept
  BY DocumentWorks, UnitWorks, PayWorks, OutWorks, RefundWorks, HandWorks DEF Works

(* The table does not outgrow its bound. *)
LEMMA TableBounded ==
    ASSUME Sound, [Next]_vars
    PROVE  Len(purchases') <= MaxPurchases
  <1>1. /\ purchases \in Seq(Purchase) /\ Len(purchases) \in Nat /\ Len(purchases) <= MaxPurchases
        /\ MaxPurchases \in Nat
    BY PurchasesAssumption DEF Sound, TypeOK
  <1>2. CASE UNCHANGED purchases
    BY <1>1, <1>2
  <1>3. purchases' \in Seq(Purchase)
    BY StepOnTable, TableTyped DEF Sound, TableKept
  <1>4. ASSUME NEW header, CreateDraft(header) PROVE Len(purchases') <= MaxPurchases
    <2>1. PICK x : purchases' = Append(purchases, x)
      BY <1>4 DEF CreateDraft
    <2>2. Len(purchases) < MaxPurchases
      BY <1>4 DEF CreateDraft
    <2>3. Len(purchases') = Len(purchases) + 1
      BY <1>1, <2>1
    <2> QED BY <1>1, <2>2, <2>3
  <1>5. ASSUME NEW k, NEW x, Rewrite(k, x) PROVE Len(purchases') <= MaxPurchases
    <2>1. Len(purchases') \in Nat /\ Len(purchases') <= Len(purchases)
      <3>1. purchases' = [purchases EXCEPT ![k] = x] /\ purchases' \in Seq(Purchase)
        BY <1>5, <1>3 DEF Rewrite
      <3>2. DOMAIN purchases' = DOMAIN purchases
        BY <3>1
      <3>3. DOMAIN purchases' = 1..Len(purchases') /\ DOMAIN purchases = 1..Len(purchases)
            /\ Len(purchases') \in Nat
        BY <1>1, <3>1
      <3>4. Len(purchases') # 0 => Len(purchases') \in 1..Len(purchases)
        <4>1. PICK n \in Nat : n = Len(purchases')
          BY <3>3
        <4>2. n # 0 => n \in 1..n
          OBVIOUS
        <4>3. 1..n = 1..Len(purchases)
          BY <3>2, <3>3, <4>1
        <4> QED BY <4>1, <4>2, <4>3
      <3> QED BY <1>1, <3>3, <3>4
    <2> QED BY <1>1, <2>1
  <1>6. CASE Drafting
    BY <1>4, <1>5, <1>6 DEF Drafting, AddLine, UpdateLine, RemoveLine, EditLines, DeleteDraft
  <1>7. ASSUME NEW r \in Request, Starts(r) PROVE UNCHANGED purchases
    BY <1>7 DEF Starts, HeaderRead, ConfirmRead, Pay, CancelRead, PaySupplier, CostRead, MoveRead,
                Unwritten
  <1>8. ASSUME NEW r \in Request, Works(r)
        PROVE  UNCHANGED purchases \/ \E k, x : Rewrite(k, x)
    BY <1>8 DEF Works, HeaderWrite, ConfirmUnit, Discard, Close, PayCheck, PayPost, PayLink,
                OutCheck, OutInsert, RefundPost, RefundLink, CancelClose, CostWrite, MoveInsert,
                Unwritten
  <1>9. ASSUME NEW r \in Request, Quit(r) PROVE UNCHANGED purchases
    BY <1>9 DEF Quit, Unwritten
  <1> QED BY <1>2, <1>5, <1>6, <1>7, <1>8, <1>9 DEF Next, vars

(* Sound is inductive. *)
LEMMA SoundStep == Sound /\ [Next]_vars => Sound'
  <1> SUFFICES ASSUME Sound, [Next]_vars PROVE Sound'
    OBVIOUS
  <1>1. Typed /\ TypeOK
    BY DEF Sound
  <1>2. Typed'
    BY <1>1, TypedStep
  <1>3. TableStep
    <2>1. CASE Next
      BY <1>1, <2>1, StepOnTable
    <2>2. CASE UNCHANGED vars
      BY <2>2 DEF TableStep, vars
    <2> QED BY <2>1, <2>2
  <1>4. TableKept /\ RecordsKept /\ Len(purchases') <= MaxPurchases
    BY <1>1, <1>3, TableTyped, TableFrozen, TableBounded
  <1>5. LedgersKept /\ HoldersKept
    <2>1. ASSUME UNCHANGED <<moves, entries, payments, costs, req>>
          PROVE  LedgersKept /\ HoldersKept
      BY <1>1, <2>1, LedgersSame DEF HoldersKept, TypeOK
    <2>2. CASE Drafting
      <3>1. UNCHANGED <<moves, entries, payments, costs, req>>
        BY <2>2 DEF Drafting, CreateDraft, AddLine, UpdateLine, RemoveLine, EditLines, DeleteDraft
      <3> QED BY <2>1, <3>1
    <2>3. ASSUME NEW r \in Request, Starts(r) PROVE LedgersKept /\ HoldersKept
      <3>1. UNCHANGED <<moves, entries, payments, costs>>
        BY <2>3 DEF Starts, HeaderRead, ConfirmRead, Pay, CancelRead, PaySupplier, CostRead,
                    MoveRead, Unwritten
      <3> QED BY <1>1, <2>3, <3>1, LedgersSame, StartsSound
    <2>4. ASSUME NEW r \in Request, Quit(r) PROVE LedgersKept /\ HoldersKept
      BY <1>1, <2>4, LedgersSame, HolderEnds DEF Quit, Unwritten
    <2>5. CASE UNCHANGED vars
      BY <2>1, <2>5 DEF vars
    <2> QED BY <2>2, <2>3, <2>4, <2>5, WorksSound DEF Next
  <1> QED BY <1>2, <1>4, <1>5, SoundKept

(* It holds at the start. *)
LEMMA SoundInit == Init => Sound
  <1> SUFFICES ASSUME Init PROVE Sound
    OBVIOUS
  <1>1. Typed
    BY TypedInit
  <1>2. TypeOK
    BY EmptySeq, PurchasesAssumption DEF Init, TypeOK, RequestState
  <1>3. \A r \in Request : Holds(req[r], purchases, payments, costs)
    BY DEF Init, Idle, Holds, Planning, Cancelling
  <1>4. Len(payments) = 0
    BY DEF Init
  <1> QED BY <1>1, <1>2, <1>3, <1>4 DEF Sound

LEMMA AlwaysSound == Spec => []Sound
  BY SoundInit, SoundStep, PTL DEF Spec

(* Every row of the purchases and of the ledgers they write is of its type, *)
(* and so is what each request has read: TypeOK.                            *)
THEOREM PurchaseTypes == Spec => []TypeOK
  <1>1. Sound => TypeOK
    BY DEF Sound
  <1> QED BY <1>1, AlwaysSound, PTL

-----------------------------------------------------------------------------
(* Every payment is posted: a transaction that was posted for a payment or *)
(* a refund stays with its request, and with no other, until it is linked. *)

Holding == {"payLink", "link"}

References(i) == {payments[i].tx, payments[i].refund}

\* No payment refers to a transaction.
Unreferenced(id) == \A i \in 1..Len(payments) : id \notin References(i)

\* The transaction of a payment row.
Worth(pay, kind, table) == [kind |-> kind, account |-> pay.account, amount |-> pay.amount,
                            number |-> table[pay.purchase].number]

\* The transaction a request posted.
Claimed(q, pays, table) ==
    IF q.step = "payLink"
    THEN [kind |-> "Expense", account |-> q.account, amount |-> NextPaid(q.plan).amount,
          number |-> table[NextPaid(q.plan).purchase].number]
    ELSE [kind |-> "Income", account |-> pays[First(q.pays)].account,
          amount |-> pays[First(q.pays)].amount, number |-> table[q.purchase].number]

Posted ==
    /\ PaymentsPosted
    /\ \A r \in Request : req[r].step \in Holding =>
           /\ req[r].tx \in 1..Len(entries)
           /\ entries[req[r].tx] = Claimed(req[r], payments, purchases)
           /\ Unreferenced(req[r].tx)
    /\ \A r, o \in Request :
           r # o /\ req[r].step \in Holding /\ req[o].step \in Holding => req[r].tx # req[o].tx

\* Transactions are only added.
EntriesAdded ==
    /\ 1..Len(entries) \subseteq 1..Len(entries')
    /\ \A id \in 1..Len(entries) : entries'[id] = entries[id]

\* A reference a step adds: to a transaction that is what it should be and nobody else's.
Linkable(id, e) ==
    /\ id # 0 /\ Unreferenced(id) /\ id \in 1..Len(entries') /\ entries'[id] = e
    /\ \A r \in Request : req'[r].step \in Holding => req'[r].tx # id

\* The three things a step can do to the payments.
LinksStep ==
    \/ UNCHANGED payments
    \/ \E pay \in Payment :
           /\ payments' = Append(payments, pay) /\ pay.refund = 0
           /\ Linkable(pay.tx, Worth(pay, "Expense", purchases'))
    \/ \E i \in 1..Len(payments), id \in Nat \ {0} :
           /\ payments' = [payments EXCEPT ![i] = [payments[i] EXCEPT !.refund = id]]
           /\ Linkable(id, Worth(payments[i], "Income", purchases'))

\* The things a step can do to a request that has posted, or is about to.
HoldersStep ==
    \A r \in Request :
        \/ req'[r] = req[r]
        \/ req'[r].step \notin Holding
        \/ /\ req'[r].tx = Len(entries) + 1 /\ UNCHANGED payments
           /\ Len(entries) + 1 \in 1..Len(entries')
           /\ entries'[Len(entries) + 1] = Claimed(req'[r], payments, purchases')
           /\ \A o \in Request : o # r => req'[o] = req[o]

(* What is left of the payment rows. *)
LEMMA LinksLeave ==
    ASSUME TypeOK, LinksStep
    PROVE  /\ \A i \in 1..Len(payments) :
                 /\ i \in 1..Len(payments') /\ payments'[i].tx = payments[i].tx
                 /\ payments'[i].account = payments[i].account
                 /\ payments'[i].amount = payments[i].amount
                 /\ payments'[i].purchase = payments[i].purchase
           /\ \A i \in 1..Len(payments') :
                 \/ /\ i \in 1..Len(payments) /\ payments'[i].tx = payments[i].tx
                    /\ payments'[i].refund = payments[i].refund
                 \/ /\ i \notin 1..Len(payments) /\ i = Len(payments) + 1
                    /\ payments'[i].refund = 0
                    /\ Linkable(payments'[i].tx, Worth(payments'[i], "Expense", purchases'))
                 \/ /\ i \in 1..Len(payments) /\ payments'[i].tx = payments[i].tx
                    /\ \A j \in 1..Len(payments) : j # i => payments'[j] = payments[j]
                    /\ Len(payments') = Len(payments)
                    /\ Linkable(payments'[i].refund, Worth(payments[i], "Income", purchases'))
  <1>1. payments \in Seq(Payment) /\ Len(payments) \in Nat
    BY DEF TypeOK
  <1>2. CASE UNCHANGED payments
    BY <1>2
  <1>3. ASSUME NEW pay \in Payment, payments' = Append(payments, pay), pay.refund = 0,
               Linkable(pay.tx, Worth(pay, "Expense", purchases'))
        PROVE  /\ \A i \in 1..Len(payments) : i \in 1..Len(payments') /\ payments'[i] = payments[i]
               /\ \A i \in 1..Len(payments') :
                    \/ i \in 1..Len(payments) /\ payments'[i] = payments[i]
                    \/ /\ i \notin 1..Len(payments) /\ i = Len(payments) + 1
                       /\ payments'[i] = pay
    <2>1. /\ Len(payments') = Len(payments) + 1 /\ payments'[Len(payments) + 1] = pay
          /\ \A i \in 1..Len(payments) : payments'[i] = payments[i]
      BY <1>1, <1>3
    <2> QED BY <1>1, <2>1
  <1>4. ASSUME NEW k \in 1..Len(payments), NEW id \in Nat \ {0},
               payments' = [payments EXCEPT ![k] = [payments[k] EXCEPT !.refund = id]],
               Linkable(id, Worth(payments[k], "Income", purchases'))
        PROVE  /\ Len(payments') = Len(payments) /\ payments'[k].refund = id
               /\ payments'[k].tx = payments[k].tx /\ payments'[k].account = payments[k].account
               /\ payments'[k].amount = payments[k].amount
               /\ payments'[k].purchase = payments[k].purchase
               /\ \A i \in 1..Len(payments) : i # k => payments'[i] = payments[i]
    <2>1. PICK pay : pay = [payments[k] EXCEPT !.refund = id]
      OBVIOUS
    <2>2. payments[k] \in Payment
      BY <1>1, ElementOfSeq
    <2>3. /\ pay \in Payment /\ pay.refund = id /\ pay.tx = payments[k].tx
          /\ pay.account = payments[k].account /\ pay.amount = payments[k].amount
          /\ pay.purchase = payments[k].purchase
      BY <2>1, <2>2 DEF Payment
    <2>4. /\ Len(payments') = Len(payments) /\ payments'[k] = pay
          /\ \A i \in 1..Len(payments) : i # k => payments'[i] = payments[i]
      BY <1>1, <1>4, <2>1, <2>3, ExceptSeq
    <2> QED BY <2>3, <2>4
  <1>5. CASE \E pay \in Payment :
           /\ payments' = Append(payments, pay) /\ pay.refund = 0
           /\ Linkable(pay.tx, Worth(pay, "Expense", purchases'))
    BY <1>3, <1>5
  <1>6. CASE \E i \in 1..Len(payments), id \in Nat \ {0} :
           /\ payments' = [payments EXCEPT ![i] = [payments[i] EXCEPT !.refund = id]]
           /\ Linkable(id, Worth(payments[i], "Income", purchases'))
    BY <1>4, <1>6
  <1> QED BY <1>2, <1>5, <1>6 DEF LinksStep

(* A transaction a payment refers to remains what it was. *)
LEMMA WorthStays ==
    ASSUME Sound, Posted, RecordsKept, EntriesAdded, LinksStep, NEW i \in 1..Len(payments)
    PROVE  /\ payments[i].tx \in 1..Len(entries')
           /\ entries'[payments[i].tx] = Worth(payments'[i], "Expense", purchases')
           /\ payments[i].refund # 0 =>
                  /\ payments[i].refund \in 1..Len(entries')
                  /\ entries'[payments[i].refund] = Worth(payments'[i], "Income", purchases')
           /\ Worth(payments[i], "Income", purchases') = Worth(payments'[i], "Income", purchases')
  <1>1. /\ payments'[i].account = payments[i].account /\ payments'[i].amount = payments[i].amount
        /\ payments'[i].purchase = payments[i].purchase
    BY LinksLeave DEF Sound
  <1>2. PICK p : p = payments[i].purchase
    OBVIOUS
  <1>3. purchases'[p].number = purchases[p].number
    BY <1>2 DEF Sound, RecordsKept
  <1>4. /\ payments[i].tx \in 1..Len(entries)
        /\ entries[payments[i].tx] = Worth(payments[i], "Expense", purchases)
        /\ payments[i].refund # 0 =>
               /\ payments[i].refund \in 1..Len(entries)
               /\ entries[payments[i].refund] = Worth(payments[i], "Income", purchases)
    BY DEF Posted, PaymentsPosted, Backed, Worth
  <1>5. \A kind : /\ Worth(payments[i], kind, purchases) = Worth(payments'[i], kind, purchases')
                  /\ Worth(payments[i], kind, purchases') = Worth(payments'[i], kind, purchases')
    BY <1>1, <1>2, <1>3 DEF Worth
  <1> QED BY <1>4, <1>5 DEF EntriesAdded

(* The payments remain posted. *)
LEMMA PaymentsPostedStep ==
    ASSUME Sound, Sound', Posted, RecordsKept, EntriesAdded, LinksStep
    PROVE  PaymentsPosted'
  <1>1. TypeOK /\ payments \in Seq(Payment) /\ Len(payments) \in Nat
    BY DEF Sound, TypeOK
  <1>2. \A i \in 1..Len(payments') :
                 \/ /\ i \in 1..Len(payments) /\ payments'[i].tx = payments[i].tx
                    /\ payments'[i].refund = payments[i].refund
                 \/ /\ i \notin 1..Len(payments) /\ i = Len(payments) + 1
                    /\ payments'[i].refund = 0
                    /\ Linkable(payments'[i].tx, Worth(payments'[i], "Expense", purchases'))
                 \/ /\ i \in 1..Len(payments) /\ payments'[i].tx = payments[i].tx
                    /\ \A j \in 1..Len(payments) : j # i => payments'[j] = payments[j]
                    /\ Len(payments') = Len(payments)
                    /\ Linkable(payments'[i].refund, Worth(payments[i], "Income", purchases'))
    BY <1>1, LinksLeave
  <1>3. ASSUME NEW i \in 1..Len(payments')
        PROVE  /\ payments'[i].tx \in 1..Len(entries')
               /\ entries'[payments'[i].tx] = Worth(payments'[i], "Expense", purchases')
               /\ payments'[i].refund # 0 =>
                      /\ payments'[i].refund \in 1..Len(entries')
                      /\ entries'[payments'[i].refund] = Worth(payments'[i], "Income", purchases')
    BY <1>2, WorthStays DEF Linkable
  <1>4. ASSUME NEW i \in 1..Len(payments'), NEW j \in 1..Len(payments'), i # j
        PROVE  {payments'[i].tx, payments'[i].refund}
                  \cap {payments'[j].tx, payments'[j].refund} \subseteq {0}
    <2> DEFINE Shown(k) == /\ k \in 1..Len(payments) /\ payments'[k].tx = payments[k].tx
                           /\ payments'[k].refund = payments[k].refund
               Added(k) == /\ k \notin 1..Len(payments) /\ k = Len(payments) + 1
                           /\ payments'[k].refund = 0
                           /\ Unreferenced(payments'[k].tx)
               Refunded(k) == /\ k \in 1..Len(payments) /\ payments'[k].tx = payments[k].tx
                              /\ \A o \in 1..Len(payments) : o # k => payments'[o] = payments[o]
                              /\ Len(payments') = Len(payments)
                              /\ Unreferenced(payments'[k].refund)
    <2>1. \A k \in 1..Len(payments') : Shown(k) \/ Added(k) \/ Refunded(k)
      BY <1>2 DEF Linkable
    <2>2. \A k, o \in 1..Len(payments) : k # o =>
              {payments[k].tx, payments[k].refund} \cap {payments[o].tx, payments[o].refund} \subseteq {0}
      BY DEF Posted, PaymentsPosted
    <2>3. ASSUME NEW k \in 1..Len(payments'), NEW o \in 1..Len(payments'), k # o, Shown(k),
                 Shown(o) \/ Added(o) \/ Refunded(o)
          PROVE  {payments'[k].tx, payments'[k].refund}
                    \cap {payments'[o].tx, payments'[o].refund} \subseteq {0}
      <3>1. CASE Shown(o)
        BY <2>2, <2>3, <3>1
      <3>2. CASE Added(o)
        BY <2>3, <3>2 DEF Unreferenced, References
      <3>3. CASE Refunded(o)
        BY <2>2, <2>3, <3>3 DEF Unreferenced, References
      <3> QED BY <2>3, <3>1, <3>2, <3>3
    <2>4. ASSUME Refunded(i) PROVE Shown(j) \/ Refunded(j)
      BY <2>1, <2>4
    <2>5. ASSUME Refunded(i) PROVE Shown(j)
      BY <1>4, <2>4, <2>5
    <2>6. ASSUME Added(i) PROVE Shown(j)
      BY <1>1, <1>4, <2>1, <2>6
    <2> HIDE DEF Shown, Added, Refunded
    <2>7. CASE Shown(i)
      BY <1>4, <2>1, <2>3, <2>7
    <2>8. CASE Shown(j)
      BY <1>4, <2>1, <2>3, <2>8
    <2> QED BY <2>1, <2>5, <2>6, <2>7, <2>8
  <1>5. \A i \in 1..Len(payments') : purchases'[payments'[i].purchase].number # NoNumber
    BY DEF Sound, Numbered
  <1> QED BY <1>3, <1>4, <1>5 DEF PaymentsPosted, Backed, Worth, Numbered

(* No payment refers to a transaction that is yet to come. *)
LEMMA NewUnreferenced ==
    ASSUME Sound, Posted
    PROVE  Unreferenced(Len(entries) + 1) /\ Len(entries) \in Nat
  <1>1. Len(entries) \in Nat
    BY LenProperties DEF Sound, TypeOK
  <1> SUFFICES ASSUME NEW i \in 1..Len(payments) PROVE Len(entries) + 1 \notin References(i)
    BY <1>1 DEF Unreferenced
  <1>2. payments[i].tx \in 1..Len(entries)
        /\ (payments[i].refund = 0 \/ payments[i].refund \in 1..Len(entries))
    BY DEF Posted, PaymentsPosted, Backed
  <1> QED BY <1>1, <1>2 DEF References

(* What a waiting request posted remains what it was. *)
LEMMA ClaimStays ==
    ASSUME Sound, Posted, RecordsKept, EntriesAdded, LinksStep, NEW r \in Request,
           req[r].step \in Holding
    PROVE  /\ req[r].tx \in 1..Len(entries')
           /\ entries'[req[r].tx] = Claimed(req[r], payments', purchases')
  <1>1. PICK q : q = req[r]
    OBVIOUS
  <1>2. q.tx \in 1..Len(entries) /\ entries[q.tx] = Claimed(q, payments, purchases)
    BY <1>1 DEF Posted
  <1>3. Claimed(q, payments', purchases') = Claimed(q, payments, purchases)
    <2>1. CASE q.step = "payLink"
      <3>1. PICK p : p = NextPaid(q.plan).purchase
        OBVIOUS
      <3>2. p \in 1..Len(purchases) /\ Numbered(p)
        BY <1>1, <2>1, <3>1, NextPaidSound DEF Planning
      <3>3. purchases'[p].number = purchases[p].number
        BY <3>2 DEF RecordsKept
      <3> QED BY <2>1, <3>1, <3>3 DEF Claimed
    <2>2. CASE q.step # "payLink"
      <3>1. q.step = "link"
        BY <1>1, <2>2 DEF Holding
      <3>2. q.pays # {} /\ q.pays \in SUBSET Nat /\ \A i \in q.pays : i \in 1..Len(payments)
        BY <1>1, <3>1, RequestShape DEF Sound, Holds, Cancelling
      <3>3. PICK i : i = First(q.pays)
        OBVIOUS
      <3>4. i \in 1..Len(payments)
        BY <3>2, <3>3, FirstIn
      <3>5. payments'[i].account = payments[i].account /\ payments'[i].amount = payments[i].amount
        BY <3>4, LinksLeave DEF Sound
      <3>6. q.purchase \in 1..Len(purchases) /\ Numbered(q.purchase)
        BY <1>1, <3>1 DEF Sound, Typed, Relies, Cancelling, Numbered
      <3>7. purchases'[q.purchase].number = purchases[q.purchase].number
        BY <3>6 DEF RecordsKept
      <3> QED BY <2>2, <3>3, <3>5, <3>7 DEF Claimed
    <2> QED BY <2>1, <2>2
  <1> QED BY <1>1, <1>2, <1>3 DEF EntriesAdded

(* What a request holds goes on to be its own. *)
LEMMA ClaimsKept ==
    ASSUME Sound, Posted, RecordsKept, EntriesAdded, LinksStep, HoldersStep,
           NEW r \in Request, req'[r].step \in Holding
    PROVE  /\ req'[r].tx \in 1..Len(entries')
           /\ entries'[req'[r].tx] = Claimed(req'[r], payments', purchases')
           /\ \A i \in 1..Len(payments') :
                 req'[r].tx # payments'[i].tx /\ req'[r].tx # payments'[i].refund
           /\ \/ req'[r] = req[r] /\ req'[r].tx \in 1..Len(entries)
              \/ req'[r].tx = Len(entries) + 1 /\ \A o \in Request : o # r => req'[o] = req[o]
  <1>1. CASE req'[r] = req[r]
    <2>1. req[r].tx \in 1..Len(entries) /\ Unreferenced(req[r].tx)
      BY <1>1 DEF Posted
    <2>2. /\ req[r].tx \in 1..Len(entries')
          /\ entries'[req[r].tx] = Claimed(req[r], payments', purchases')
      BY <1>1, ClaimStays
    <2>3. \A i \in 1..Len(payments) : req[r].tx # payments[i].tx /\ req[r].tx # payments[i].refund
      BY <2>1 DEF Unreferenced, References
    <2>4. ASSUME NEW i \in 1..Len(payments')
          PROVE  req'[r].tx # payments'[i].tx /\ req'[r].tx # payments'[i].refund
      <3>1. \/ /\ i \in 1..Len(payments) /\ payments'[i].tx = payments[i].tx
               /\ payments'[i].refund = payments[i].refund
            \/ /\ payments'[i].refund = 0 /\ req'[r].tx # payments'[i].tx
            \/ /\ i \in 1..Len(payments) /\ payments'[i].tx = payments[i].tx
               /\ req'[r].tx # payments'[i].refund
        BY LinksLeave DEF Sound, Linkable
      <3>2. req'[r].tx # 0
        BY <1>1, <2>1
      <3> QED BY <1>1, <2>3, <3>1, <3>2
    <2> QED BY <1>1, <2>1, <2>2, <2>4
  <1>2. CASE /\ req'[r].tx = Len(entries) + 1 /\ UNCHANGED payments
             /\ Len(entries) + 1 \in 1..Len(entries')
             /\ entries'[Len(entries) + 1] = Claimed(req'[r], payments, purchases')
             /\ \A o \in Request : o # r => req'[o] = req[o]
    <2>1. Unreferenced(Len(entries) + 1)
      BY NewUnreferenced
    <2>2. \A i \in 1..Len(payments') :
             req'[r].tx # payments'[i].tx /\ req'[r].tx # payments'[i].refund
      BY <1>2, <2>1 DEF Unreferenced, References
    <2>3. payments' = payments
      BY <1>2
    <2> QED BY <1>2, <2>2, <2>3
  <1> QED BY <1>1, <1>2 DEF HoldersStep

(* Posted is kept by a step that does these three things. *)
LEMMA PostedKept ==
    ASSUME Sound, Sound', Posted, RecordsKept, EntriesAdded, LinksStep, HoldersStep
    PROVE  Posted'
  <1>1. PaymentsPosted'
    BY PaymentsPostedStep
  <1>2. ASSUME NEW r \in Request, req'[r].step \in Holding
        PROVE  /\ req'[r].tx \in 1..Len(entries')
               /\ entries'[req'[r].tx] = Claimed(req'[r], payments', purchases')
               /\ Unreferenced(req[r].tx)'
    BY <1>2, ClaimsKept DEF Unreferenced, References
  <1>3. ASSUME NEW r \in Request, NEW o \in Request, r # o, req'[r].step \in Holding,
               req'[o].step \in Holding
        PROVE  req'[r].tx # req'[o].tx
    <2>1. \/ req'[r] = req[r] /\ req'[r].tx \in 1..Len(entries)
          \/ req'[r].tx = Len(entries) + 1 /\ req'[o] = req[o]
      BY <1>3, ClaimsKept
    <2>2. \/ req'[o] = req[o] /\ req'[o].tx \in 1..Len(entries)
          \/ req'[o].tx = Len(entries) + 1 /\ req'[r] = req[r]
      BY <1>3, ClaimsKept
    <2>3. Len(entries) \in Nat
      BY NewUnreferenced
    <2>4. ASSUME req'[r] = req[r], req'[o] = req[o] PROVE req'[r].tx # req'[o].tx
      BY <1>3, <2>4 DEF Posted
    <2>5. ASSUME NEW p \in Request, req'[p] = req[p], req[p].step \in Holding
          PROVE  req'[p].tx \in 1..Len(entries)
      BY <2>5 DEF Posted
    <2> QED BY <1>3, <2>1, <2>2, <2>3, <2>4, <2>5
  <1> QED BY <1>1, <1>2, <1>3 DEF Posted, Claimed

(* A request that holds nothing after its step. *)
LEMMA MovesUnheld ==
    ASSUME TypeOK, NEW r \in Request, NEW st, Becomes(r, st), st.step \notin Holding
    PROVE  HoldersStep
  <1>1. req'[r] = st /\ \A o \in Request : o # r => req'[o] = req[o]
    BY DEF TypeOK, Becomes
  <1> QED BY <1>1 DEF HoldersStep

LEMMA EndsUnheld ==
    ASSUME TypeOK, NEW r \in Request, Becomes(r, Idle)
    PROVE  HoldersStep
  <1>1. Idle.step \notin Holding
    BY DEF Idle, Holding
  <1> QED BY <1>1, MovesUnheld

(* Transactions that are left alone, or get one more, are only added. *)
LEMMA AddedOnly ==
    ASSUME TypeOK, UNCHANGED entries \/ \E e \in Entry : entries' = Append(entries, e)
    PROVE  EntriesAdded
  <1>1. entries \in Seq(Entry) /\ Len(entries) \in Nat
    BY LenProperties DEF TypeOK
  <1>2. CASE UNCHANGED entries
    BY <1>2 DEF EntriesAdded
  <1>3. CASE \E e \in Entry : entries' = Append(entries, e)
    <2>1. PICK e \in Entry : entries' = Append(entries, e)
      BY <1>3
    <2>2. /\ Len(entries') = Len(entries) + 1
          /\ \A i \in 1..Len(entries) : entries'[i] = entries[i]
      BY <1>1, <2>1
    <2> QED BY <1>1, <2>2 DEF EntriesAdded
  <1> QED BY <1>2, <1>3

(* A request that starts holds nothing yet. *)
LEMMA StartsUnheld ==
    ASSUME TypeOK, NEW r \in Request, Starts(r)
    PROVE  HoldersStep
  <1>1. \A p, header : HeaderRead(r, p, header) => HoldersStep
    <2> SUFFICES ASSUME NEW p, NEW header, HeaderRead(r, p, header) PROVE HoldersStep
      OBVIOUS
    <2>1. PICK st : st = [step |-> "header", purchase |-> p, header |-> header]
      OBVIOUS
    <2>2. Becomes(r, st) /\ st.step \notin Holding
      BY <2>1 DEF HeaderRead, Holding
    <2> QED BY <2>2, MovesUnheld
  <1>2. \A p, a : ConfirmRead(r, p, a) => HoldersStep
    <2> SUFFICES ASSUME NEW p, NEW a, ConfirmRead(r, p, a) PROVE HoldersStep
      OBVIOUS
    <2>1. PICK st : st = [step |-> "confirm", purchase |-> p, seen |-> purchases[p], account |-> a]
      OBVIOUS
    <2>2. Becomes(r, st) /\ st.step \notin Holding
      BY <2>1 DEF ConfirmRead, Holding
    <2> QED BY <2>2, MovesUnheld
  <1>3. \A p, amount, a : Pay(r, p, amount, a) => HoldersStep
    <2> SUFFICES ASSUME NEW p, NEW amount, NEW a, Pay(r, p, amount, a) PROVE HoldersStep
      OBVIOUS
    <2>1. PICK plan : plan = {[purchase |-> p, amount |-> amount, due |-> NoDate,
                               date |-> purchases[p].header.date]}
      OBVIOUS
    <2>2. PICK st : st = [step |-> "payPost", account |-> a, plan |-> plan]
      OBVIOUS
    <2>3. Becomes(r, st) /\ st.step \notin Holding
      BY <2>1, <2>2 DEF Pay, Holding
    <2> QED BY <2>3, MovesUnheld
  <1>4. \A p : CancelRead(r, p) => HoldersStep
    <2> SUFFICES ASSUME NEW p, CancelRead(r, p) PROVE HoldersStep
      OBVIOUS
    <2>1. PICK lines : lines = {i \in 1..Len(purchases[p].lines) :
                                    purchases[p].lines[i].product \in Tracked}
      OBVIOUS
    <2>2. PICK st : st = [step |-> "discard", purchase |-> p]
      OBVIOUS
    <2>3. PICK stt : stt = [step |-> "reverse", purchase |-> p, pays |-> PaymentsOf(p),
                            lines |-> lines]
      OBVIOUS
    <2>4. Becomes(r, st) \/ Becomes(r, stt)
      BY <2>1, <2>2, <2>3 DEF CancelRead
    <2>5. st.step \notin Holding /\ stt.step \notin Holding
      BY <2>2, <2>3 DEF Holding
    <2> QED BY <2>4, <2>5, MovesUnheld
  <1>5. \A s, amount, a : PaySupplier(r, s, amount, a) => HoldersStep
    <2> SUFFICES ASSUME NEW s, NEW amount, NEW a, PaySupplier(r, s, amount, a) PROVE HoldersStep
      OBVIOUS
    <2>1. PICK st : st = [step |-> "pay", account |-> a, plan |-> Plan(s, amount)]
      OBVIOUS
    <2>2. Becomes(r, st) /\ st.step \notin Holding
      BY <2>1 DEF PaySupplier, Holding
    <2> QED BY <2>2, MovesUnheld
  <1>6. \A product, s, cost, date : CostRead(r, product, s, cost, date) => HoldersStep
    <2> SUFFICES ASSUME NEW product, NEW s, NEW cost, NEW date, CostRead(r, product, s, cost, date)
                 PROVE  HoldersStep
      OBVIOUS
    <2>1. PICK st : st = [step |-> "cost", product |-> product, supplier |-> s, cost |-> cost,
                          date |-> date, branch |-> Branch(costs[product, s], cost)]
      OBVIOUS
    <2>2. Becomes(r, st) /\ st.step \notin Holding
      BY <2>1 DEF CostRead, Holding
    <2> QED BY <2>2, MovesUnheld
  <1>7. \A product, delta : MoveRead(r, product, delta) => HoldersStep
    <2> SUFFICES ASSUME NEW product, NEW delta, MoveRead(r, product, delta) PROVE HoldersStep
      OBVIOUS
    <2>1. PICK st : st = [step |-> "move", product |-> product, delta |-> delta]
      OBVIOUS
    <2>2. Becomes(r, st) /\ st.step \notin Holding
      BY <2>1 DEF MoveRead, Holding
    <2> QED BY <2>2, MovesUnheld
  <1> QED BY <1>1, <1>2, <1>3, <1>4, <1>5, <1>6, <1>7 DEF Starts

(* A confirm links the Expense it posts in the same unit. *)
LEMMA ConfirmPosts ==
    ASSUME Sound, Posted, NEW r \in Request, ConfirmUnit(r)
    PROVE  EntriesAdded /\ LinksStep /\ HoldersStep
  <1>1. /\ entries \in Seq(Entry) /\ Len(entries) \in Nat /\ TypeOK
    BY LenProperties DEF Sound, TypeOK
  <1>2. HoldersStep
    BY <1>1, EndsUnheld DEF ConfirmUnit
  <1>3. PICK q : q = req[r]
    OBVIOUS
  <1>4. /\ q.step = "confirm" /\ q.seen \in Purchase /\ q.account \in Account
        /\ q.purchase \in 1..Len(purchases)
    BY <1>1, <1>3, RequestShape DEF ConfirmUnit, Sound, Typed, Relies
  <1>5. PICK number : number = NextNumber(q.seen.header.date[1])
    OBVIOUS
  <1>6. PICK charge \in Nat : charge = Charge(q.seen)
    BY <1>4, ChargeNat
  <1>7. purchases \in Seq(Purchase) /\ purchases[q.purchase] \in Purchase
        /\ lastNumber \in [Year -> Nat]
    BY <1>4, RowsTyped DEF Sound
  <1>8. number \in Number /\ purchases'[q.purchase].number = number
    <2>1. q.seen.header.date[1] \in Year
      BY <1>4 DEF Purchase, Header, Date
    <2>2. number \in Number
      BY <1>5, <1>7, <2>1 DEF NextNumber, Number
    <2>3. purchases' = [purchases EXCEPT ![q.purchase] =
                            [purchases[q.purchase] EXCEPT !.status = "Confirmed",
                                                          !.number = number]]
      BY <1>3, <1>5 DEF ConfirmUnit, Rewrite
    <2> QED BY <1>4, <1>7, <2>2, <2>3 DEF Purchase
  <1>9. CASE UNCHANGED <<entries, payments>>
    BY <1>1, <1>2, <1>9, AddedOnly DEF LinksStep
  <1>10. CASE ~ UNCHANGED <<entries, payments>>
    <2>1. PICK e : e = [kind |-> "Expense", account |-> q.account, amount |-> charge,
                        number |-> number]
      OBVIOUS
    <2>2. PICK pay : pay = [purchase |-> q.purchase, account |-> q.account, amount |-> charge,
                            tx |-> Len(entries) + 1, refund |-> 0]
      OBVIOUS
    <2>3. charge > 0 /\ entries' = Append(entries, e) /\ payments' = Append(payments, pay)
      BY <1>3, <1>5, <1>6, <1>10, <2>1, <2>2 DEF ConfirmUnit
    <2>4. e \in Entry
      BY <1>4, <1>8, <2>1, <2>3 DEF Entry
    <2>5. pay \in Payment /\ pay.refund = 0 /\ pay.tx = Len(entries) + 1
      BY <1>1, <1>4, <2>2, <2>3 DEF Payment
    <2>6. Worth(pay, "Expense", purchases') = e
      BY <1>8, <2>1, <2>2 DEF Worth
    <2>7. Len(entries') = Len(entries) + 1 /\ entries'[Len(entries) + 1] = e
      BY <1>1, <2>3
    <2>8. ASSUME NEW o \in Request, req'[o].step \in Holding PROVE req'[o].tx # Len(entries) + 1
      <3>1. Becomes(r, Idle)
        BY DEF ConfirmUnit
      <3>2. o # r /\ req'[o] = req[o]
        BY <1>1, <2>8, <3>1 DEF Becomes, TypeOK, Idle, Holding
      <3>3. req[o].tx \in 1..Len(entries)
        BY <2>8, <3>2 DEF Posted
      <3> QED BY <1>1, <3>2, <3>3
    <2>9. Linkable(pay.tx, Worth(pay, "Expense", purchases'))
      BY <1>1, <2>5, <2>6, <2>7, <2>8, NewUnreferenced DEF Linkable
    <2> QED BY <1>1, <1>2, <2>3, <2>4, <2>5, <2>9, AddedOnly DEF LinksStep
  <1> QED BY <1>9, <1>10

(* A transaction posted for a request is the one it holds. *)
LEMMA PostedHeld ==
    ASSUME TypeOK, NEW r \in Request, NEW st, Becomes(r, st), st.tx = Len(entries) + 1,
           NEW e \in Entry, entries' = Append(entries, e), UNCHANGED payments,
           e = Claimed(st, payments, purchases')
    PROVE  EntriesAdded /\ LinksStep /\ HoldersStep
  <1>1. entries \in Seq(Entry) /\ Len(entries) \in Nat
    BY LenProperties DEF TypeOK
  <1>2. Len(entries') = Len(entries) + 1 /\ entries'[Len(entries) + 1] = e
    BY <1>1
  <1>3. req'[r] = st /\ \A o \in Request : o # r => req'[o] = req[o]
    BY DEF TypeOK, Becomes
  <1>4. HoldersStep
    BY <1>1, <1>2, <1>3 DEF HoldersStep
  <1> QED BY <1>4, AddedOnly DEF LinksStep

(* A payment. *)
LEMMA PayPosts ==
    ASSUME Sound, Posted, NEW r \in Request, PayCheck(r) \/ PayPost(r) \/ PayLink(r)
    PROVE  EntriesAdded /\ LinksStep /\ HoldersStep
  <1>1. PICK q : q = req[r]
    OBVIOUS
  <1>2. TypeOK /\ q.step \in Planning
    BY <1>1 DEF Sound, Planning, PayCheck, PayPost, PayLink
  <1>3. PICK next : next = NextPaid(q.plan)
    OBVIOUS
  <1>4. /\ next \in Allocation /\ next.purchase \in 1..Len(purchases)
        /\ purchases[next.purchase].number \in Number /\ q.account \in Account
    BY <1>1, <1>2, <1>3, NextPaidSound
  <1>5. next.amount \in Nat \ {0} /\ next.purchase \in Nat \ {0}
    BY <1>4, PurchasesAssumption DEF Allocation, PurchaseId
  <1>6. CASE PayCheck(r)
    <2>1. PICK st : st = [q EXCEPT !.step = "payPost"]
      OBVIOUS
    <2>2. q.step = "pay" /\ Becomes(r, st) /\ UNCHANGED <<entries, payments>>
      BY <1>1, <1>6, <2>1 DEF PayCheck, Unwritten
    <2>3. q = [step |-> "pay", plan |-> q.plan, account |-> q.account]
      BY <1>1, <2>2 DEF Sound, Typed, Relies
    <2>4. st.step \notin Holding
      BY <2>1, <2>3 DEF Holding
    <2> QED BY <1>2, <2>2, <2>4, AddedOnly, MovesUnheld DEF LinksStep
  <1>7. CASE PayPost(r)
    <2>1. PICK e : e = [kind |-> "Expense", account |-> q.account, amount |-> next.amount,
                        number |-> purchases[next.purchase].number]
      OBVIOUS
    <2>2. PICK st : st = [step |-> "payLink", plan |-> q.plan, account |-> q.account,
                          tx |-> Len(entries) + 1]
      OBVIOUS
    <2>3. /\ entries' = Append(entries, e) /\ UNCHANGED payments /\ purchases' = purchases
          /\ Becomes(r, st)
      BY <1>1, <1>3, <1>7, <2>1, <2>2 DEF PayPost
    <2>4. e \in Entry
      BY <1>4, <1>5, <2>1 DEF Entry
    <2>5. e = Claimed(st, payments, purchases') /\ st.tx = Len(entries) + 1
      BY <1>3, <2>1, <2>2, <2>3 DEF Claimed
    <2> QED BY <1>2, <2>3, <2>4, <2>5, PostedHeld
  <1>8. CASE PayLink(r)
    <2>1. PICK pay : pay = PaymentRow(q)
      OBVIOUS
    <2>2. /\ q.step = "payLink" /\ payments' = Append(payments, pay)
          /\ entries' = entries /\ purchases' = purchases
      BY <1>1, <1>8, <2>1 DEF PayLink
    <2>3. q.tx \in Nat \ {0}
      BY <1>1, <1>2, <2>2, RequestShape
    <2>4. pay \in Payment /\ pay.refund = 0 /\ pay.tx = q.tx
      BY <1>3, <1>4, <1>5, <2>1, <2>3 DEF Payment, PaymentRow
    <2>5. Worth(pay, "Expense", purchases') = Claimed(q, payments, purchases)
      BY <1>3, <2>1, <2>2 DEF Worth, PaymentRow, Claimed
    <2>6. /\ q.tx \in 1..Len(entries) /\ entries[q.tx] = Claimed(q, payments, purchases)
          /\ Unreferenced(q.tx)
      BY <1>1, <2>2 DEF Posted, Holding
    <2>7. PICK st : st = IF q.plan = {next} THEN Idle
                         ELSE [step |-> "pay", plan |-> q.plan \ {next}, account |-> q.account]
      OBVIOUS
    <2>8. Becomes(r, st)
      BY <1>1, <1>3, <1>8, <2>7 DEF PayLink
    <2>9. st.step \notin Holding
      BY <2>7 DEF Holding, Idle
    <2>10. ASSUME NEW o \in Request, req'[o].step \in Holding PROVE req'[o].tx # q.tx
      <3>1. req'[r] = st /\ \A p \in Request : p # r => req'[p] = req[p]
        BY <1>2, <2>8 DEF Becomes, TypeOK
      <3>2. o # r /\ req[r].step \in Holding
        BY <1>1, <2>2, <2>9, <2>10, <3>1 DEF Holding
      <3> QED BY <1>1, <2>10, <3>1, <3>2 DEF Posted
    <2>11. Linkable(pay.tx, Worth(pay, "Expense", purchases'))
      BY <2>2, <2>3, <2>4, <2>5, <2>6, <2>10 DEF Linkable
    <2> QED BY <1>2, <2>2, <2>4, <2>8, <2>9, <2>11, AddedOnly, MovesUnheld DEF LinksStep
  <1> QED BY <1>6, <1>7, <1>8

(* A refund. *)
LEMMA RefundPosts ==
    ASSUME Sound, Posted, NEW r \in Request, RefundPost(r) \/ RefundLink(r)
    PROVE  EntriesAdded /\ LinksStep /\ HoldersStep
  <1>1. PICK q : q = req[r]
    OBVIOUS
  <1>2. TypeOK /\ q.step \in Cancelling /\ q.pays # {}
    BY <1>1 DEF Sound, Holds, Cancelling, RefundPost, RefundLink
  <1>3. /\ q.pays \in SUBSET Nat /\ q.purchase \in 1..Len(purchases)
        /\ \A i \in q.pays : i \in 1..Len(payments) /\ payments[i].purchase = q.purchase
    BY <1>1, <1>2, RequestShape DEF Sound, Typed, Relies, Holds
  <1>4. PICK i : i = First(q.pays)
    OBVIOUS
  <1>5. i \in 1..Len(payments) /\ payments[i].purchase = q.purchase
    BY <1>2, <1>3, <1>4, FirstIn
  <1>6. payments \in Seq(Payment) /\ payments[i] \in Payment
    BY <1>2, <1>5, ElementOfSeq DEF TypeOK
  <1>7. CASE RefundPost(r)
    <2>1. PICK e : e = [kind |-> "Income", account |-> payments[i].account,
                        amount |-> payments[i].amount, number |-> purchases[q.purchase].number]
      OBVIOUS
    <2>2. PICK st : st = [step |-> "link", purchase |-> q.purchase, lines |-> {}, pays |-> q.pays,
                          tx |-> Len(entries) + 1]
      OBVIOUS
    <2>3. /\ entries' = Append(entries, e) /\ UNCHANGED payments /\ purchases' = purchases
          /\ Becomes(r, st)
      BY <1>1, <1>4, <1>7, <2>1, <2>2 DEF RefundPost
    <2>4. e \in Entry
      <3>1. purchases[q.purchase] \in Purchase
        BY <1>3, RowsTyped DEF Sound
      <3> QED BY <1>6, <2>1, <3>1 DEF Purchase, Payment, Entry
    <2>5. e = Claimed(st, payments, purchases') /\ st.tx = Len(entries) + 1
      BY <1>4, <2>1, <2>2, <2>3 DEF Claimed
    <2> QED BY <1>2, <2>3, <2>4, <2>5, PostedHeld
  <1>8. CASE RefundLink(r)
    <2>1. /\ q.step = "link" /\ entries' = entries /\ purchases' = purchases
          /\ payments' = [payments EXCEPT ![i] = [payments[i] EXCEPT !.refund = q.tx]]
      BY <1>1, <1>4, <1>8 DEF RefundLink
    <2>2. q.tx \in Nat \ {0}
      BY <1>1, <1>2, <2>1, RequestShape
    <2>3. Worth(payments[i], "Income", purchases') = Claimed(q, payments, purchases)
      BY <1>4, <1>5, <2>1 DEF Worth, Claimed
    <2>4. /\ q.tx \in 1..Len(entries) /\ entries[q.tx] = Claimed(q, payments, purchases)
          /\ Unreferenced(q.tx)
      BY <1>1, <2>1 DEF Posted, Holding
    <2>5. PICK st : st = [step |-> "reverse", purchase |-> q.purchase, lines |-> {},
                          pays |-> q.pays \ {i}]
      OBVIOUS
    <2>6. Becomes(r, st) /\ st.step \notin Holding
      BY <1>1, <1>4, <1>8, <2>5 DEF RefundLink, Holding
    <2>7. ASSUME NEW o \in Request, req'[o].step \in Holding PROVE req'[o].tx # q.tx
      <3>1. req'[r] = st /\ \A p \in Request : p # r => req'[p] = req[p]
        BY <1>2, <2>6 DEF Becomes, TypeOK
      <3>2. o # r /\ req[r].step \in Holding
        BY <1>1, <2>1, <2>6, <2>7, <3>1 DEF Holding
      <3> QED BY <1>1, <2>7, <3>1, <3>2 DEF Posted
    <2>8. Linkable(q.tx, Worth(payments[i], "Income", purchases'))
      BY <2>1, <2>2, <2>3, <2>4, <2>7 DEF Linkable
    <2> QED BY <1>2, <1>5, <2>1, <2>2, <2>6, <2>8, AddedOnly, MovesUnheld DEF LinksStep
  <1> QED BY <1>7, <1>8

(* The steps of a request that touch neither transactions nor payments. *)
LEMMA OthersUnheld ==
    ASSUME Sound, Posted, NEW r \in Request,
           \/ HeaderWrite(r) \/ Discard(r) \/ CancelClose(r) \/ Quit(r)
           \/ OutCheck(r) \/ OutInsert(r) \/ CostWrite(r) \/ MoveInsert(r)
    PROVE  EntriesAdded /\ LinksStep /\ HoldersStep
  <1>1. TypeOK /\ UNCHANGED <<entries, payments>>
    BY DEF Sound, HeaderWrite, Discard, CancelClose, Close, Quit, OutCheck, OutInsert, CostWrite,
           MoveInsert, Unwritten
  <1>2. EntriesAdded /\ LinksStep
    BY <1>1, AddedOnly DEF LinksStep
  <1>3. CASE ~ OutCheck(r) /\ ~ OutInsert(r)
    <2>1. Becomes(r, Idle)
      BY <1>3 DEF HeaderWrite, Discard, CancelClose, Close, Quit, CostWrite, MoveInsert
    <2> QED BY <1>1, <1>2, <2>1, EndsUnheld
  <1>4. CASE OutCheck(r) \/ OutInsert(r)
    <2>1. PICK q : q = req[r]
      OBVIOUS
    <2>2. q = [step |-> q.step, purchase |-> q.purchase, lines |-> q.lines, pays |-> q.pays]
      BY <1>4, <2>1 DEF OutCheck, OutInsert, Sound, Typed, Relies
    <2>3. PICK left : left = q.lines \ {First(q.lines)}
      OBVIOUS
    <2>4. PICK st : st = [q EXCEPT !.step = "out"]
      OBVIOUS
    <2>5. PICK stt : stt = [q EXCEPT !.step = "reverse", !.lines = left]
      OBVIOUS
    <2>6. stt.step \notin Holding
      BY <2>2, <2>5, LineTaken DEF Holding
    <2>7. st.step \notin Holding
      BY <2>2, <2>4 DEF Holding
    <2>8. Becomes(r, st) \/ Becomes(r, stt)
      BY <1>4, <2>1, <2>3, <2>4, <2>5 DEF OutCheck, OutInsert
    <2> QED BY <1>1, <1>2, <2>6, <2>7, <2>8, MovesUnheld
  <1> QED BY <1>3, <1>4

(* Posted is inductive. *)
LEMMA PostedStep == Sound /\ Posted /\ [Next]_vars => Posted'
  <1> SUFFICES ASSUME Sound, Posted, [Next]_vars PROVE Posted'
    OBVIOUS
  <1>1. Sound' /\ TypeOK
    BY SoundStep DEF Sound
  <1>2. RecordsKept
    BY StepOnTable, TableFrozen DEF Sound
  <1>3. CASE UNCHANGED <<entries, payments, req>>
    <2>1. EntriesAdded /\ LinksStep /\ HoldersStep
      BY <1>1, <1>3, AddedOnly DEF LinksStep, HoldersStep
    <2> QED BY <1>1, <1>2, <2>1, PostedKept
  <1>4. ASSUME NEW r \in Request, Starts(r) PROVE Posted'
    <2>1. UNCHANGED <<entries, payments>>
      BY <1>4 DEF Starts, HeaderRead, ConfirmRead, Pay, CancelRead, PaySupplier, CostRead, MoveRead,
                  Unwritten
    <2>2. EntriesAdded /\ LinksStep /\ HoldersStep
      BY <1>1, <1>4, <2>1, AddedOnly, StartsUnheld DEF LinksStep
    <2> QED BY <1>1, <1>2, <2>2, PostedKept
  <1>5. ASSUME NEW r \in Request, Works(r) \/ Quit(r) PROVE Posted'
    <2>1. EntriesAdded /\ LinksStep /\ HoldersStep
      BY <1>5, ConfirmPosts, PayPosts, RefundPosts, OthersUnheld DEF Works
    <2> QED BY <1>1, <1>2, <2>1, PostedKept
  <1>6. \/ UNCHANGED <<entries, payments, req>>
        \/ \E r \in Request : Starts(r) \/ Works(r) \/ Quit(r)
    BY DEF Next, vars, Drafting, CreateDraft, AddLine, UpdateLine, RemoveLine, EditLines, DeleteDraft
  <1> QED BY <1>3, <1>4, <1>5, <1>6

(* Every payment row keeps an Expense of its own, and every refunded one   *)
(* an Income of its own, of its account, amount and document, although row *)
(* and link are written after the transaction was posted, with payments of *)
(* other requests, and other annulments of the purchase, in between.       *)
THEOREM PurchasePaymentsPosted == Spec => []PaymentsPosted
  <1>1. Init => Posted
    BY DEF Init, Posted, PaymentsPosted, Idle, Holding
  <1>2. Spec => []Posted
    BY <1>1, PostedStep, AlwaysSound, PTL DEF Spec
  <1>3. Posted => PaymentsPosted
    BY DEF Posted
  <1> QED BY <1>2, <1>3, PTL

-----------------------------------------------------------------------------
(* The dates of costs.                                                     *)

(* No date is earlier than itself. *)
LEMMA NotEarlierThanItself ==
    ASSUME NEW d \in Date
    PROVE  ~ Earlier(d, d)
  <1>1. d[1] \in Nat /\ d[2] \in Nat
    BY DateShape
  <1> QED BY <1>1 DEF Earlier

(* A recorded cost has a date. *)
LEMMA CostDated ==
    ASSUME TypeOK, NEW pair \in Product \X Supplier, costs[pair] # NoCost
    PROVE  costs[pair] \in Recorded /\ costs[pair].since \in Date
  <1>1. costs[pair] \in Recorded
    BY DEF TypeOK
  <1> QED BY <1>1 DEF Recorded

(* A confirm gives each pair it touches its own date. *)
LEMMA CostsOfDated ==
    ASSUME TypeOK, NEW seen \in Purchase, NEW pair \in Product \X Supplier, costs[pair] # NoCost
    PROVE  \/ CostsOf(seen)[pair] = costs[pair]
           \/ /\ CostsOf(seen)[pair].since = seen.header.date
              /\ \E i \in 1..Len(seen.lines) : pair = <<seen.lines[i].product, seen.header.supplier>>
  <1>1. CASE \E i \in 1..Len(seen.lines) : pair = <<seen.lines[i].product, seen.header.supplier>>
    <2>1. PICK line : line = seen.lines[CHOOSE i \in 1..Len(seen.lines) :
                                            seen.lines[i].product = pair[1]]
      OBVIOUS
    <2>2. PICK row \in Recorded : row = costs[pair]
      BY CostDated
    <2>3. PICK branch : branch = Branch(row, line.cost)
      OBVIOUS
    <2>4. branch \in {"refresh", "shift"}
      BY <2>2, <2>3 DEF Branch
    <2>5. WithCost(row, branch, line.cost, seen.header.date).since = seen.header.date
      <3>1. CASE branch = "refresh"
        <4>1. WithCost(row, branch, line.cost, seen.header.date)
                = [row EXCEPT !.since = seen.header.date]
          BY <3>1 DEF WithCost
        <4> QED BY <4>1 DEF Recorded
      <3>2. CASE branch = "shift"
        <4>1. WithCost(row, branch, line.cost, seen.header.date)
                = [cost |-> line.cost, since |-> seen.header.date, was |-> row.cost]
          BY <3>2 DEF WithCost
        <4> QED BY <4>1
      <3> QED BY <2>4, <3>1, <3>2
    <2>6. CostsOf(seen)[pair] = WithCost(row, branch, line.cost, seen.header.date)
      BY <1>1, <2>1, <2>2, <2>3 DEF CostsOf
    <2> QED BY <1>1, <2>5, <2>6
  <1>2. CASE ~ \E i \in 1..Len(seen.lines) : pair = <<seen.lines[i].product, seen.header.supplier>>
    BY <1>2 DEF CostsOf
  <1> QED BY <1>1, <1>2

\* What a confirm may do to the costs.
KeepsCosts ==
    (\E p \in 1..Len(purchases) : ~ Numbered(p) /\ Numbered(p)') =>
        \A pair \in Product \X Supplier :
            costs[pair] # NoCost => ~ Earlier(costs'[pair].since, costs[pair].since)

(* Every step keeps newer costs. *)
LEMMA CostsStep == Sound /\ [Next]_vars => KeepsCosts
  <1> SUFFICES ASSUME Sound, [Next]_vars PROVE KeepsCosts
    OBVIOUS
  <1>1. TypeOK
    BY DEF Sound
  <1>2. CASE UNCHANGED costs
    BY <1>1, <1>2, CostDated, NotEarlierThanItself DEF KeepsCosts
  <1>3. CASE UNCHANGED purchases
    BY <1>3 DEF KeepsCosts, Numbered
  <1>4. ASSUME NEW r \in Request, ConfirmUnit(r) PROVE KeepsCosts
    <2>1. PICK q : q = req[r]
      OBVIOUS
    <2>2. q.seen \in Purchase
      BY <1>1, <1>4, <2>1, RequestShape DEF ConfirmUnit
    <2>3. PICK seen \in Purchase : seen = q.seen
      BY <2>2
    <2>4. costs' = CostsOf(seen) /\ CostsAccept(seen)
      BY <1>4, <2>1, <2>3 DEF ConfirmUnit, UnitAccepts
    <2>5. ASSUME NEW pair \in Product \X Supplier, costs[pair] # NoCost
          PROVE  ~ Earlier(costs'[pair].since, costs[pair].since)
      <3>1. CASE CostsOf(seen)[pair] = costs[pair]
        BY <1>1, <2>4, <2>5, <3>1, CostDated, NotEarlierThanItself
      <3>2. ASSUME NEW i \in 1..Len(seen.lines),
                   pair = <<seen.lines[i].product, seen.header.supplier>>,
                   CostsOf(seen)[pair].since = seen.header.date
            PROVE  ~ Earlier(costs'[pair].since, costs[pair].since)
        <4>1. AcceptsCost(costs[pair], seen.header.date)
          BY <2>4, <3>2 DEF CostsAccept
        <4> QED BY <2>4, <2>5, <3>2, <4>1 DEF AcceptsCost
      <3> QED BY <1>1, <2>5, <3>1, <3>2, CostsOfDated
    <2> QED BY <2>5 DEF KeepsCosts
  <1>5. CASE Drafting
    BY <1>2, <1>5 DEF Drafting, CreateDraft, AddLine, UpdateLine, RemoveLine, EditLines, DeleteDraft
  <1>6. ASSUME NEW r \in Request, Starts(r) \/ Quit(r) PROVE KeepsCosts
    BY <1>2, <1>6 DEF Starts, HeaderRead, ConfirmRead, Pay, CancelRead, PaySupplier, CostRead,
                      MoveRead, Quit, Unwritten
  <1>7. ASSUME NEW r \in Request, Works(r), ~ ConfirmUnit(r) PROVE KeepsCosts
    <2>1. CASE CostWrite(r)
      BY <1>3, <2>1 DEF CostWrite
    <2>2. CASE ~ CostWrite(r)
      BY <1>2, <1>7, <2>2 DEF Works, HeaderWrite, Discard, Close, PayCheck, PayPost, PayLink,
                              OutCheck, OutInsert, RefundPost, RefundLink, CancelClose, MoveInsert,
                              Unwritten
    <2> QED BY <2>1, <2>2
  <1>8. CASE UNCHANGED vars
    BY <1>2, <1>8 DEF vars
  <1> QED BY <1>4, <1>5, <1>6, <1>7, <1>8 DEF Next

(* A confirm never puts an older cost over a newer one, also where the     *)
(* newer one was recorded by another confirm, or by hand, after this one   *)
(* had checked its dates.                                                  *)
THEOREM PurchaseConfirmKeepsCosts == Spec => ConfirmKeepsCosts
  <1>1. Sound /\ [Next]_vars => [KeepsCosts]_vars
    BY CostsStep
  <1>2. Spec => [][KeepsCosts]_vars
    BY <1>1, AlwaysSound, PTL DEF Spec
  <1>3. ConfirmKeepsCosts <=> [][KeepsCosts]_vars
    BY DEF ConfirmKeepsCosts, KeepsCosts
  <1> QED BY <1>2, <1>3

-----------------------------------------------------------------------------
(* What is paid on a purchase, as a sum of figures.                        *)

PaidFigure(p) == [pay \in Payment |-> IF IsOf(pay, p) THEN pay.amount ELSE 0]

PaidIn(rows, p) == RowSum(PaidFigure(p), rows)

PaidSum(rows, p) ==
    SumOver([i \in 1..Len(rows) |-> IF IsOf(rows[i], p) THEN rows[i].amount ELSE 0], Len(rows))

(* What is paid is that sum. *)
LEMMA PaidIsSum ==
    ASSUME NEW rows \in Seq(Payment), NEW p
    PROVE  /\ PaidSum(rows, p) = PaidIn(rows, p)
           /\ PaidIn(rows, p) \in Nat
           /\ PaidFigure(p) \in [Payment -> Int]
  <1> DEFINE f == PaidFigure(p)
             w == [i \in 1..Len(rows) |-> IF IsOf(rows[i], p) THEN rows[i].amount ELSE 0]
  <1>1. f \in [Payment -> Nat] /\ f \in [Payment -> Int]
    <2>1. \A pay \in Payment : pay.amount \in Nat
      BY DEF Payment
    <2>2. f \in [Payment -> Nat]
      BY <2>1 DEF PaidFigure
    <2>3. Nat \subseteq Int
      OBVIOUS
    <2> QED BY <2>2, <2>3
  <1>2. \A i \in 1..Len(rows) : w[i] = f[rows[i]]
    <2> SUFFICES ASSUME NEW i \in 1..Len(rows) PROVE w[i] = f[rows[i]]
      OBVIOUS
    <2>1. PICK pay \in Payment : pay = rows[i]
      BY ElementOfSeq
    <2> QED BY <2>1 DEF PaidFigure
  <1> HIDE DEF w, f
  <1>3. SumOver(w, Len(rows)) = RowSum(f, rows)
    BY <1>2, RowSumIs
  <1>4. RowSum(f, rows) \in Nat
    BY <1>1, RowSumNat
  <1> QED BY <1>1, <1>3, <1>4 DEF PaidIn, PaidSum, f, w

(* So it is before and after a step. *)
LEMMA PaidNow ==
    ASSUME Sound, Sound', NEW p
    PROVE  /\ Paid(p) = PaidIn(payments, p) /\ Paid(p)' = PaidIn(payments', p)
           /\ PaidIn(payments, p) \in Nat /\ PaidIn(payments', p) \in Nat
           /\ payments \in Seq(Payment) /\ payments' \in Seq(Payment)
           /\ PaidFigure(p) \in [Payment -> Int]
  <1>1. payments \in Seq(Payment) /\ payments' \in Seq(Payment)
    BY DEF Sound, TypeOK
  <1>2. Paid(p) = PaidSum(payments, p) /\ Paid(p)' = PaidSum(payments', p)
    BY DEF Paid, PaidSum
  <1> QED BY <1>1, <1>2, PaidIsSum

(* Nothing is paid on a purchase without a number. *)
LEMMA PaidUnnumbered ==
    ASSUME Sound, NEW p, ~ Numbered(p)
    PROVE  PaidIn(payments, p) = 0
  <1>1. payments \in Seq(Payment)
    BY DEF Sound, TypeOK
  <1>2. \A i \in 1..Len(payments) : PaidFigure(p)[payments[i]] = 0
    <2> SUFFICES ASSUME NEW i \in 1..Len(payments) PROVE PaidFigure(p)[payments[i]] = 0
      OBVIOUS
    <2>1. PICK pay \in Payment : pay = payments[i]
      BY <1>1, ElementOfSeq
    <2>2. pay.purchase # p
      BY <2>1 DEF Sound
    <2> QED BY <2>1, <2>2 DEF PaidFigure, IsOf
  <1> QED BY <1>1, <1>2, RowSumZero DEF PaidIn

(* A payment row adds its amount to what is paid on its purchase. *)
LEMMA PaidAppended ==
    ASSUME Sound, NEW pay \in Payment, payments' = Append(payments, pay), NEW t
    PROVE  PaidIn(payments', t) = PaidIn(payments, t) + (IF pay.purchase = t THEN pay.amount ELSE 0)
  <1>1. payments \in Seq(Payment) /\ PaidFigure(t) \in [Payment -> Int]
    BY PaidIsSum DEF Sound, TypeOK
  <1>2. PaidFigure(t)[pay] = IF pay.purchase = t THEN pay.amount ELSE 0
    BY DEF PaidFigure, IsOf
  <1> QED BY <1>1, <1>2, RowSumAppend DEF PaidIn

(* The row a payment adds. *)
LEMMA PayLinked ==
    ASSUME Sound, NEW r \in Request, PayLink(r)
    PROVE  \E pay \in Payment :
              /\ pay.purchase = NextPaid(req[r].plan).purchase
              /\ pay.amount = NextPaid(req[r].plan).amount /\ pay.refund = 0
              /\ payments' = Append(payments, pay)
  <1>1. PICK q, next : q = req[r] /\ next = NextPaid(q.plan)
    OBVIOUS
  <1>2. /\ q.step = "payLink" /\ q.account \in Account /\ q.tx \in Nat \ {0}
        /\ next \in Allocation /\ next.purchase \in 1..Len(purchases)
    <2>1. q.step = "payLink"
      BY <1>1 DEF PayLink
    <2> QED BY <1>1, <2>1, RequestShape, NextPaidSound DEF Sound, Planning
  <1>3. PICK pay : pay = PaymentRow(q)
    OBVIOUS
  <1>4. pay \in Payment /\ pay.purchase = next.purchase /\ pay.amount = next.amount /\ pay.refund = 0
    <2>1. next.purchase \in Nat \ {0} /\ next.amount \in Nat \ {0}
      BY <1>2 DEF Allocation, PurchaseId
    <2> QED BY <1>1, <1>2, <1>3, <2>1 DEF PaymentRow, Payment
  <1>5. payments' = Append(payments, pay)
    BY <1>1, <1>3 DEF PayLink
  <1> QED BY <1>1, <1>4, <1>5

(* The row a refund rewrites keeps its purchase, its account and its amount. *)
LEMMA RefundLinked ==
    ASSUME Sound, NEW r \in Request, RefundLink(r)
    PROVE  \E i \in 1..Len(payments), pay \in Payment :
              /\ i = First(req[r].pays) /\ i \in req[r].pays
              /\ pay.purchase = payments[i].purchase /\ pay.amount = payments[i].amount
              /\ pay.refund = req[r].tx /\ pay.refund # 0
              /\ payments' = [payments EXCEPT ![i] = pay]
  <1>1. PICK q : q = req[r]
    OBVIOUS
  <1>2. q.step = "link" /\ Holds(q, purchases, payments, costs)
    BY <1>1 DEF RefundLink, Sound
  <1>3. q.pays # {} /\ q.pays \in SUBSET Nat /\ q.tx \in Nat \ {0}
        /\ q.pays \subseteq 1..Len(payments)
    BY <1>1, <1>2, RequestShape DEF Sound, Holds, Cancelling
  <1>4. PICK i \in 1..Len(payments) : i = First(q.pays) /\ i \in q.pays
    BY <1>3, FirstIn
  <1>5. PICK old \in Payment : old = payments[i]
    BY ElementOfSeq DEF Sound, TypeOK
  <1>6. PICK pay : pay = [old EXCEPT !.refund = q.tx]
    OBVIOUS
  <1>7. /\ pay \in Payment /\ pay.purchase = old.purchase /\ pay.amount = old.amount
        /\ pay.refund = q.tx
    BY <1>3, <1>6 DEF Payment
  <1>8. payments' = [payments EXCEPT ![i] = pay]
    BY <1>1, <1>4, <1>5, <1>6 DEF RefundLink
  <1> QED BY <1>1, <1>3, <1>4, <1>5, <1>7, <1>8

(* Linking a refund leaves what is paid. *)
LEMMA PaidRefunded ==
    ASSUME Sound, NEW r \in Request, RefundLink(r), NEW t
    PROVE  PaidIn(payments', t) = PaidIn(payments, t)
  <1>1. PICK i \in 1..Len(payments), pay \in Payment :
              /\ pay.purchase = payments[i].purchase /\ pay.amount = payments[i].amount
              /\ payments' = [payments EXCEPT ![i] = pay]
    BY RefundLinked
  <1>2. /\ payments \in Seq(Payment) /\ PaidFigure(t) \in [Payment -> Int]
        /\ PaidIn(payments, t) \in Nat
    BY PaidIsSum DEF Sound, TypeOK
  <1>3. PICK old \in Payment : old = payments[i]
    BY <1>2, ElementOfSeq
  <1>4. PaidFigure(t)[pay] = PaidFigure(t)[old] /\ PaidFigure(t)[old] \in Int
    BY <1>1, <1>3 DEF PaidFigure, IsOf, Payment
  <1>5. PaidIn(payments', t) = PaidIn(payments, t) - PaidFigure(t)[old] + PaidFigure(t)[pay]
    <2>1. PICK f \in [Payment -> Int] : f = PaidFigure(t)
      BY <1>2
    <2>2. RowSum(f, [payments EXCEPT ![i] = pay]) = RowSum(f, payments) - f[payments[i]] + f[pay]
      BY <1>2, RowSumRewrite
    <2> QED BY <1>1, <1>3, <2>1, <2>2 DEF PaidIn
  <1> QED BY <1>2, <1>4, <1>5

-----------------------------------------------------------------------------
(* Where requests are served one at a time.                                *)

\* At most one request is under way.
Alone == \A r, o \in Request : req[r] # Idle /\ req[o] # Idle => r = o

\* What the request under way has read still holds.
Stands(q) ==
    /\ q.step \in {"header", "discard"} => purchases[q.purchase].status = "Draft"
    /\ q.step = "confirm" => purchases[q.purchase] = q.seen /\ q.seen.status = "Draft"
    /\ q.step \in Cancelling => purchases[q.purchase].status = "Confirmed"
    /\ q.step \in Planning =>
           \A a \in q.plan : /\ purchases[a.purchase].status = "Confirmed"
                             /\ a.amount <= Due(a.purchase)
    /\ q.step = "cost" => /\ AcceptsCost(costs[<<q.product, q.supplier>>], q.date)
                          /\ q.branch = Branch(costs[<<q.product, q.supplier>>], q.cost)

Held == \A r \in Request : Stands(req[r])

\* No other request is under way.
Sole(r) == \A o \in Request : o # r => req[o] = Idle

(* Where a request starts or ends without an answer no document changes. *)
LEMMA FirstWritesNothing ==
    ASSUME NEW r \in Request, Starts(r) \/ Quit(r)
    PROVE  UNCHANGED <<purchases, lastNumber>>
  <1>1. Quit(r) => UNCHANGED <<purchases, lastNumber>>
    BY DEF Quit, Unwritten
  <1>2. ASSUME NEW p, NEW header, HeaderRead(r, p, header)
        PROVE  UNCHANGED <<purchases, lastNumber>>
    BY <1>2 DEF HeaderRead, Unwritten
  <1>3. ASSUME NEW p, NEW a, ConfirmRead(r, p, a)
        PROVE  UNCHANGED <<purchases, lastNumber>>
    BY <1>3 DEF ConfirmRead, Unwritten
  <1>4. ASSUME NEW p, NEW amount, NEW a, Pay(r, p, amount, a)
        PROVE  UNCHANGED <<purchases, lastNumber>>
    BY <1>4 DEF Pay, Unwritten
  <1>5. ASSUME NEW p, CancelRead(r, p)
        PROVE  UNCHANGED <<purchases, lastNumber>>
    BY <1>5 DEF CancelRead, Unwritten
  <1>6. ASSUME NEW s, NEW amount, NEW a, PaySupplier(r, s, amount, a)
        PROVE  UNCHANGED <<purchases, lastNumber>>
    BY <1>6 DEF PaySupplier, Unwritten
  <1>7. ASSUME NEW product, NEW s, NEW cost, NEW date, CostRead(r, product, s, cost, date)
        PROVE  UNCHANGED <<purchases, lastNumber>>
    BY <1>7 DEF CostRead, Unwritten
  <1>8. ASSUME NEW product, NEW delta, MoveRead(r, product, delta)
        PROVE  UNCHANGED <<purchases, lastNumber>>
    BY <1>8 DEF MoveRead, Unwritten
  <1> QED BY <1>1, <1>2, <1>3, <1>4, <1>5, <1>6, <1>7, <1>8 DEF Starts

(* A step is one of no request, a request's first, or of the one request   *)
(* under way.                                                              *)
LEMMA SerialCases ==
    ASSUME OneAtATime, Alone, Typed, [Next]_vars
    PROVE  \/ UNCHANGED vars
           \/ (\A r \in Request : req[r] = Idle) /\ UNCHANGED req /\ Drafting
           \/ \E r \in Request : Sole(r) /\ Starts(r)
           \/ \E r \in Request : Sole(r) /\ (Works(r) \/ Quit(r))
  <1>1. ASSUME NEW r \in Request, Starts(r) PROVE Sole(r)
    BY <1>1 DEF Starts, HeaderRead, ConfirmRead, CancelRead, Pay, PaySupplier, CostRead, MoveRead,
                Free, Quiet, Sole
  <1>2. ASSUME NEW r \in Request, Works(r) \/ Quit(r) PROVE Sole(r)
    <2>1. req[r] # Idle
      <3>1. Works(r) => req[r].step # "idle"
        BY DEF Works, HeaderWrite, Discard, ConfirmUnit, PayCheck, PayPost, PayLink, OutCheck,
               OutInsert, RefundPost, RefundLink, CancelClose, CostWrite, MoveInsert
      <3>2. Idle.step = "idle"
        BY DEF Idle
      <3> QED BY <1>2, <3>1, <3>2 DEF Quit
    <2> QED BY <2>1 DEF Alone, Sole
  <1>3. Drafting => Quiet /\ UNCHANGED req
    BY DEF Drafting, CreateDraft, AddLine, UpdateLine, RemoveLine, EditLines, DeleteDraft
  <1>4. Quiet => \A r \in Request : req[r] = Idle
    BY DEF Quiet
  <1> QED BY <1>1, <1>2, <1>3, <1>4 DEF Next

(* The one request under way moves on to what holds. *)
LEMMA SoleMoves ==
    ASSUME Typed, NEW r \in Request, Sole(r), NEW st, Becomes(r, st), Stands(st)'
    PROVE  Alone' /\ Held'
  <1>1. req' = [o \in Request |-> IF o = r THEN st ELSE req[o]]
    BY DEF Becomes, Typed
  <1>2. req'[r] = st /\ \A o \in Request : o # r => req'[o] = Idle
    BY <1>1 DEF Sole
  <1>3. Alone'
    BY <1>2 DEF Alone
  <1>4. Stands(Idle)'
    BY DEF Stands, Idle, Cancelling, Planning
  <1>5. Held'
    <2> SUFFICES ASSUME NEW o \in Request PROVE Stands(req[o])'
      BY DEF Held
    <2>1. PICK q : q = req'[o]
      OBVIOUS
    <2>2. Stands(q)'
      BY <1>2, <1>4, <2>1
    <2> QED BY <2>1, <2>2 DEF Stands
  <1> QED BY <1>3, <1>5

(* A request that has ended holds nothing. *)
LEMMA SoleEnds ==
    ASSUME Typed, NEW r \in Request, Sole(r), Becomes(r, Idle)
    PROVE  Alone' /\ Held'
  <1>1. Stands(Idle)'
    BY DEF Stands, Idle, Cancelling, Planning
  <1> QED BY <1>1, SoleMoves

(* What holds goes on to hold where purchases, payments and costs stay. *)
LEMMA StandsStays ==
    ASSUME UNCHANGED <<purchases, payments, costs>>, NEW q, Stands(q)
    PROVE  Stands(q)'
  <1>1. \A p : Due(p)' = Due(p)
    BY DEF Due, Paid, Total, IsOf
  <1> QED BY <1>1 DEF Stands

(* What a supplier's plan takes of a purchase is due on it. *)
LEMMA PlanWithinDue ==
    ASSUME Sound, NEW s \in Supplier, NEW amount \in Nat \ {0}, NEW a \in Plan(s, amount)
    PROVE  /\ a.purchase \in 1..Len(purchases) /\ Owed(s, a.purchase)
           /\ a.amount = Takes(s, a.purchase, amount) /\ a.amount <= Due(a.purchase)
           /\ OwedBefore(s, a.purchase) < amount
           /\ a.due = purchases[a.purchase].header.due /\ a.date = purchases[a.purchase].header.date
  <1>1. PICK p \in 1..Len(purchases) :
            /\ Owed(s, p) /\ OwedBefore(s, p) < amount
            /\ a = [purchase |-> p, amount |-> Takes(s, p, amount),
                    due |-> purchases[p].header.due, date |-> purchases[p].header.date]
    BY DEF Plan
  <1>2. /\ a.purchase = p /\ a.amount = Takes(s, p, amount)
        /\ a.due = purchases[p].header.due /\ a.date = purchases[p].header.date
    BY <1>1
  <1>3. Due(p) \in Int /\ OwedBefore(s, p) \in Int
    BY DueInt, OwedBeforeInt DEF Sound, TypeOK
  <1>4. Takes(s, p, amount) <= Due(p)
    BY <1>3 DEF Takes, Least
  <1> QED BY <1>1, <1>2, <1>4

(* A request's first step reads what holds. *)
LEMMA StartsHeld ==
    ASSUME Sound, NEW r \in Request, Sole(r), Starts(r)
    PROVE  Alone' /\ Held'
  <1>1. UNCHANGED <<purchases, payments, costs>> /\ Typed
    BY DEF Starts, HeaderRead, ConfirmRead, CancelRead, Pay, PaySupplier, CostRead, MoveRead,
           Unwritten, Sound
  <1>2. ASSUME NEW st, Becomes(r, st), Stands(st) PROVE Alone' /\ Held'
    <2>1. UNCHANGED <<purchases, payments, costs>>
      BY <1>1
    <2>2. Stands(st)'
      BY <1>2, <2>1, StandsStays
    <2> QED BY <1>1, <1>2, <2>2, SoleMoves
  <1>3. ASSUME NEW p \in 1..Len(purchases), NEW header, HeaderRead(r, p, header) PROVE Alone' /\ Held'
    <2>1. PICK st : st = [step |-> "header", purchase |-> p, header |-> header]
      OBVIOUS
    <2>2. Becomes(r, st) /\ st.step = "header" /\ purchases[st.purchase].status = "Draft"
      BY <1>3, <2>1 DEF HeaderRead, Is
    <2>3. Stands(st)
      BY <2>2 DEF Stands, Cancelling, Planning
    <2> QED BY <1>2, <2>2, <2>3
  <1>4. ASSUME NEW p \in 1..Len(purchases), NEW a, ConfirmRead(r, p, a) PROVE Alone' /\ Held'
    <2>1. PICK st : st = [step |-> "confirm", purchase |-> p, seen |-> purchases[p], account |-> a]
      OBVIOUS
    <2>2. Becomes(r, st) /\ st.step = "confirm" /\ purchases[p].status = "Draft"
      BY <1>4, <2>1 DEF ConfirmRead, Is
    <2>3. Stands(st)
      BY <2>1, <2>2 DEF Stands, Cancelling, Planning
    <2> QED BY <1>2, <2>2, <2>3
  <1>5. ASSUME NEW p \in 1..Len(purchases), CancelRead(r, p) PROVE Alone' /\ Held'
    <2>1. PICK st : /\ Becomes(r, st) /\ st.purchase = p
                    /\ \/ st.step = "discard" /\ purchases[p].status = "Draft"
                       \/ st.step = "reverse" /\ purchases[p].status = "Confirmed"
      <3>1. PICK one, other :
                /\ one = [step |-> "discard", purchase |-> p]
                /\ other = [step |-> "reverse", purchase |-> p, pays |-> PaymentsOf(p),
                            lines |-> {i \in 1..Len(purchases[p].lines) :
                                           purchases[p].lines[i].product \in Tracked}]
        OBVIOUS
      <3>2. /\ one.step = "discard" /\ one.purchase = p
            /\ other.step = "reverse" /\ other.purchase = p
        BY <3>1
      <3>3. \/ Becomes(r, one) /\ purchases[p].status = "Draft"
            \/ Becomes(r, other) /\ purchases[p].status = "Confirmed"
        BY <1>5, <3>1 DEF CancelRead, Is
      <3> QED BY <3>2, <3>3
    <2>2. Stands(st)
      BY <2>1 DEF Stands, Cancelling, Planning
    <2> QED BY <1>2, <2>1, <2>2
  <1>6. ASSUME NEW p \in 1..Len(purchases), NEW amount, NEW a, Pay(r, p, amount, a)
        PROVE  Alone' /\ Held'
    <2>1. PICK x : x = [purchase |-> p, amount |-> amount, due |-> NoDate,
                        date |-> purchases[p].header.date]
      OBVIOUS
    <2>2. PICK st : st = [step |-> "payPost", account |-> a, plan |-> {x}]
      OBVIOUS
    <2>3. /\ Becomes(r, st) /\ st.step = "payPost" /\ st.plan = {x}
          /\ x.purchase = p /\ x.amount = amount
          /\ purchases[p].status = "Confirmed" /\ amount <= Due(p)
      BY <1>6, <2>1, <2>2 DEF Pay, Payable, Is
    <2>4. Stands(st)
      BY <2>3 DEF Stands, Cancelling, Planning
    <2> QED BY <1>2, <2>3, <2>4
  <1>7. ASSUME NEW s \in Supplier, NEW amount \in PayAmount, NEW a, PaySupplier(r, s, amount, a)
        PROVE  Alone' /\ Held'
    <2>1. PICK st : st = [step |-> "pay", account |-> a, plan |-> Plan(s, amount)]
      OBVIOUS
    <2>2. Becomes(r, st) /\ st.step = "pay" /\ st.plan = Plan(s, amount)
      BY <1>7, <2>1 DEF PaySupplier
    <2>3. amount \in Nat \ {0}
      BY PurchasesAssumption
    <2>4. \A x \in st.plan : purchases[x.purchase].status = "Confirmed" /\ x.amount <= Due(x.purchase)
      BY <2>2, <2>3, PlanWithinDue DEF Owed, Is
    <2>5. Stands(st)
      BY <2>2, <2>4 DEF Stands, Cancelling, Planning
    <2> QED BY <1>2, <2>2, <2>5
  <1>8. ASSUME NEW product, NEW s, NEW cost, NEW date, CostRead(r, product, s, cost, date)
        PROVE  Alone' /\ Held'
    <2>1. PICK st : st = [step |-> "cost", product |-> product, supplier |-> s, cost |-> cost,
                          date |-> date, branch |-> Branch(costs[<<product, s>>], cost)]
      OBVIOUS
    <2>2. Becomes(r, st) /\ AcceptsCost(costs[<<product, s>>], date)
      BY <1>8, <2>1 DEF CostRead
    <2>3. Stands(st)
      BY <2>1, <2>2 DEF Stands, Cancelling, Planning
    <2> QED BY <1>2, <2>2, <2>3
  <1>9. ASSUME NEW product, NEW delta, MoveRead(r, product, delta) PROVE Alone' /\ Held'
    <2>1. PICK st : st = [step |-> "move", product |-> product, delta |-> delta]
      OBVIOUS
    <2>2. Becomes(r, st) /\ st.step = "move"
      BY <1>9, <2>1 DEF MoveRead
    <2>3. Stands(st)
      BY <2>2 DEF Stands, Cancelling, Planning
    <2> QED BY <1>2, <2>2, <2>3
  <1> QED BY <1>3, <1>4, <1>5, <1>6, <1>7, <1>8, <1>9 DEF Starts

(* What a payment of a plan leaves due on the rest of it. *)
LEMMA DueOfOthers ==
    ASSUME Sound, Sound', NEW r \in Request, PayLink(r), NEW p,
           p # NextPaid(req[r].plan).purchase
    PROVE  Due(p)' = Due(p)
  <1>1. PICK pay \in Payment : /\ pay.purchase = NextPaid(req[r].plan).purchase
                               /\ payments' = Append(payments, pay)
    BY PayLinked
  <1>2. PaidIn(payments', p) = PaidIn(payments, p) + (IF pay.purchase = p THEN pay.amount ELSE 0)
    BY <1>1, PaidAppended
  <1>3. Paid(p)' = Paid(p)
    BY <1>1, <1>2, PaidNow
  <1>4. UNCHANGED purchases
    BY DEF PayLink
  <1> QED BY <1>3, <1>4 DEF Due, Total

(* The request under way goes on from what holds to what holds. *)
LEMMA WorksHeld ==
    ASSUME Sound, Sound', Held, NEW r \in Request, Sole(r), Works(r) \/ Quit(r)
    PROVE  Alone' /\ Held'
  <1>1. PICK q : q = req[r]
    OBVIOUS
  <1>2. q \in RequestState /\ Relies(q, purchases) /\ Stands(q) /\ Typed
        /\ Holds(q, purchases, payments, costs)
    BY <1>1, RequestShape DEF Sound, Typed, Held
  <1>3. CASE HeaderWrite(r) \/ Discard(r) \/ CancelClose(r) \/ Quit(r) \/ ConfirmUnit(r)
             \/ CostWrite(r) \/ MoveInsert(r)
    <2>1. Becomes(r, Idle)
      BY <1>3 DEF HeaderWrite, Discard, CancelClose, Close, Quit, ConfirmUnit, CostWrite, MoveInsert
    <2> QED BY <1>2, <2>1, SoleEnds
  <1>4. ASSUME NEW st, Becomes(r, st), st.step \in Planning, q.step \in Planning,
               st.plan \subseteq q.plan, UNCHANGED purchases,
               \A a \in st.plan : Due(a.purchase)' = Due(a.purchase)
        PROVE  Alone' /\ Held'
    <2>1. \A a \in st.plan : purchases'[a.purchase].status = "Confirmed" /\ a.amount <= Due(a.purchase)'
      BY <1>2, <1>4 DEF Stands
    <2>2. Stands(st)'
      BY <1>4, <2>1 DEF Stands, Cancelling, Planning
    <2> QED BY <1>2, <1>4, <2>2, SoleMoves
  <1>5. ASSUME PayCheck(r) PROVE Alone' /\ Held'
    <2>1. PICK st : st = [q EXCEPT !.step = "payPost"]
      OBVIOUS
    <2>2. q.step = "pay" /\ Becomes(r, st) /\ UNCHANGED <<purchases, payments, costs>>
      BY <1>1, <1>5, <2>1 DEF PayCheck, Unwritten
    <2>3. q = [step |-> "pay", plan |-> q.plan, account |-> q.account]
      BY <1>2, <2>2 DEF Relies
    <2>4. st.step = "payPost" /\ st.plan = q.plan
      BY <2>1, <2>3
    <2>5. \A p : Due(p)' = Due(p)
      BY <2>2 DEF Due, Paid, Total, IsOf
    <2> QED BY <1>4, <2>2, <2>4, <2>5 DEF Planning
  <1>6. ASSUME PayPost(r) PROVE Alone' /\ Held'
    <2>1. PICK st : st = [step |-> "payLink", plan |-> q.plan, account |-> q.account,
                          tx |-> Len(entries) + 1]
      OBVIOUS
    <2>2. q.step = "payPost" /\ Becomes(r, st) /\ UNCHANGED <<purchases, payments, costs>>
      BY <1>1, <1>6, <2>1 DEF PayPost
    <2>3. st.step = "payLink" /\ st.plan = q.plan
      BY <2>1
    <2>4. \A p : Due(p)' = Due(p)
      BY <2>2 DEF Due, Paid, Total, IsOf
    <2> QED BY <1>4, <2>2, <2>3, <2>4 DEF Planning
  <1>7. ASSUME PayLink(r) PROVE Alone' /\ Held'
    <2>1. PICK next, st : /\ next = NextPaid(q.plan)
                          /\ st = [step |-> "pay", plan |-> q.plan \ {next}, account |-> q.account]
      OBVIOUS
    <2>2. /\ q.step = "payLink" /\ UNCHANGED purchases /\ st.step = "pay" /\ st.plan = q.plan \ {next}
          /\ Becomes(r, IF q.plan = {next} THEN Idle ELSE st)
      BY <1>1, <1>7, <2>1 DEF PayLink
    <2>3. next \in q.plan
      BY <1>1, <2>1, <2>2, NextPaidSound DEF Planning
    <2>4. \A a \in st.plan : a.purchase # next.purchase
      BY <1>2, <2>2, <2>3 DEF Holds, Planning
    <2>5. \A a \in st.plan : Due(a.purchase)' = Due(a.purchase)
      BY <1>1, <1>7, <2>1, <2>4, DueOfOthers
    <2>6. CASE Becomes(r, Idle)
      BY <1>2, <2>6, SoleEnds
    <2> QED BY <1>4, <2>2, <2>5, <2>6 DEF Planning
  <1>8. ASSUME NEW st, Becomes(r, st), st.step \in Cancelling, q.step \in Cancelling,
               st.purchase = q.purchase, UNCHANGED purchases
        PROVE  Alone' /\ Held'
    <2>1. purchases'[st.purchase].status = "Confirmed"
      BY <1>2, <1>8 DEF Stands
    <2>2. Stands(st)'
      BY <1>8, <2>1 DEF Stands, Cancelling, Planning
    <2> QED BY <1>2, <1>8, <2>2, SoleMoves
  <1>9. ASSUME OutCheck(r) PROVE Alone' /\ Held'
    <2>1. PICK st : st = [q EXCEPT !.step = "out"]
      OBVIOUS
    <2>2. q.step = "reverse" /\ Becomes(r, st) /\ UNCHANGED purchases
      BY <1>1, <1>9, <2>1 DEF OutCheck, Unwritten
    <2>3. q = [step |-> q.step, purchase |-> q.purchase, lines |-> q.lines, pays |-> q.pays]
      BY <1>2, <2>2 DEF Relies
    <2>4. st.step = "out" /\ st.purchase = q.purchase
      BY <2>1, <2>3
    <2> QED BY <1>8, <2>2, <2>4 DEF Cancelling
  <1>10. ASSUME OutInsert(r) PROVE Alone' /\ Held'
    <2>1. PICK left, st : left = q.lines \ {First(q.lines)}
                          /\ st = [q EXCEPT !.step = "reverse", !.lines = left]
      OBVIOUS
    <2>2. q.step = "out" /\ Becomes(r, st) /\ UNCHANGED purchases
      BY <1>1, <1>10, <2>1 DEF OutInsert
    <2>3. q = [step |-> q.step, purchase |-> q.purchase, lines |-> q.lines, pays |-> q.pays]
      BY <1>2, <2>2 DEF Relies
    <2>4. st = [step |-> "reverse", purchase |-> q.purchase, lines |-> left, pays |-> q.pays]
      BY <2>1, <2>3, LineTaken
    <2>5. st.step = "reverse" /\ st.purchase = q.purchase
      BY <2>4
    <2> QED BY <1>8, <2>2, <2>5 DEF Cancelling
  <1>11. ASSUME RefundPost(r) PROVE Alone' /\ Held'
    <2>1. PICK st : st = [step |-> "link", purchase |-> q.purchase, lines |-> {}, pays |-> q.pays,
                          tx |-> Len(entries) + 1]
      OBVIOUS
    <2>2. q.step = "reverse" /\ Becomes(r, st) /\ UNCHANGED purchases
      BY <1>1, <1>11, <2>1 DEF RefundPost
    <2>3. st.step = "link" /\ st.purchase = q.purchase
      BY <2>1
    <2> QED BY <1>8, <2>2, <2>3 DEF Cancelling
  <1>12. ASSUME RefundLink(r) PROVE Alone' /\ Held'
    <2>1. PICK st : st = [step |-> "reverse", purchase |-> q.purchase, lines |-> {},
                          pays |-> q.pays \ {First(q.pays)}]
      OBVIOUS
    <2>2. q.step = "link" /\ Becomes(r, st) /\ UNCHANGED purchases
      BY <1>1, <1>12, <2>1 DEF RefundLink
    <2>3. st.step = "reverse" /\ st.purchase = q.purchase
      BY <2>1
    <2> QED BY <1>8, <2>2, <2>3 DEF Cancelling
  <1> QED BY <1>3, <1>5, <1>6, <1>7, <1>9, <1>10, <1>11, <1>12 DEF Works

(* Where requests are served one at a time, one is under way at most, and  *)
(* what it has read holds until it has answered: its purchase is the one   *)
(* it saw, every payment of its plan fits what is due, its cost is not     *)
(* older than the one on record.                                           *)
LEMMA HeldStep == OneAtATime /\ Sound /\ Sound' /\ Alone /\ Held /\ [Next]_vars => Alone' /\ Held'
  <1> SUFFICES ASSUME OneAtATime, Sound, Sound', Alone, Held, [Next]_vars PROVE Alone' /\ Held'
    OBVIOUS
  <1>1. CASE UNCHANGED vars
    <2>1. UNCHANGED <<purchases, payments, costs>> /\ UNCHANGED req
      BY <1>1 DEF vars
    <2>2. Held'
      <3> SUFFICES ASSUME NEW o \in Request PROVE Stands(req[o])'
        BY DEF Held
      <3>1. PICK q : q = req[o] /\ Stands(q)
        BY DEF Held
      <3>2. UNCHANGED <<purchases, payments, costs>>
        BY <2>1
      <3>3. Stands(q)'
        BY <3>1, <3>2, StandsStays
      <3>4. q = req'[o]
        BY <2>1, <3>1
      <3> QED BY <3>3, <3>4 DEF Stands
    <2> QED BY <2>1, <2>2 DEF Alone
  <1>2. CASE (\A r \in Request : req[r] = Idle) /\ UNCHANGED req
    <2>1. Stands(Idle)'
      BY DEF Stands, Idle, Cancelling, Planning
    <2>2. Held'
      <3> SUFFICES ASSUME NEW o \in Request PROVE Stands(req[o])'
        BY DEF Held
      <3>1. PICK q : q = req'[o]
        OBVIOUS
      <3>2. Stands(q)'
        BY <1>2, <2>1, <3>1
      <3> QED BY <3>1, <3>2 DEF Stands
    <2> QED BY <1>2, <2>2 DEF Alone
  <1>3. Typed
    BY DEF Sound
  <1> QED BY <1>1, <1>2, <1>3, SerialCases, StartsHeld, WorksHeld

LEMMA HeldInit == Init => Alone /\ Held
  <1> SUFFICES ASSUME Init PROVE Alone /\ Held
    OBVIOUS
  <1>1. \A r \in Request : req[r] = Idle
    BY DEF Init
  <1>2. Stands(Idle)
    BY DEF Stands, Idle, Cancelling, Planning
  <1>3. Held
    <2> SUFFICES ASSUME NEW r \in Request PROVE Stands(req[r])
      BY DEF Held
    <2> QED BY <1>1, <1>2
  <1> QED BY <1>1, <1>3 DEF Alone

-----------------------------------------------------------------------------
(* What a step does to the purchases and the ledgers.                      *)

\* The movements of a confirm: every tracked line in, under its number.
ReceiveLines(lines, number) ==
    moves' = moves \o [i \in 1..Len(TrackedLines(lines)) |->
                 [product |-> TrackedLines(lines)[i].product, delta |-> TrackedLines(lines)[i].qty,
                  number |-> number]]

\* A confirm: of a draft, as it is, under a number of its own.
Confirms(p, number) ==
    /\ p \in 1..Len(purchases) /\ purchases[p].status = "Draft" /\ ~ Numbered(p)
    /\ number \in Number /\ number # NoNumber
    /\ \A t \in 1..Len(purchases) : purchases[t].number # number
    /\ ReceiveLines(purchases[p].lines, number)
    /\ IF Charge(purchases[p]) > 0
       THEN \E pay \in Payment : /\ pay.purchase = p /\ pay.amount = Charge(purchases[p])
                                 /\ pay.refund = 0
                                 /\ payments' = Append(payments, pay)
       ELSE UNCHANGED payments
    /\ purchases' = [purchases EXCEPT ![p] =
                         [purchases[p] EXCEPT !.status = "Confirmed", !.number = number]]
    /\ costs' = CostsOf(purchases[p]) /\ CostsAccept(purchases[p])

\* No purchase is confirmed, and a numbered one keeps its number and lines.
PurchasesQuiet ==
    /\ Len(purchases') = Len(purchases) \/ Len(purchases') = Len(purchases) + 1
    /\ \A p \in 1..Len(purchases) :
           /\ purchases'[p].number = purchases[p].number
           /\ Numbered(p) => purchases'[p].lines = purchases[p].lines
           /\ purchases'[p].status = "Confirmed" => purchases[p].status = "Confirmed"
           /\ purchases[p].status = "Cancelled" /\ Numbered(p) => purchases'[p].status = "Cancelled"
    /\ \A p \in 1..Len(purchases') : p \in 1..Len(purchases) \/ purchases'[p].number = NoNumber

(* A step confirms, or leaves the sequences, and moves, pays, refunds or   *)
(* records a cost at most.                                                 *)
LEMMA ConfirmsOrNot ==
    ASSUME [Next]_vars
    PROVE  \/ \E r \in Request : ConfirmUnit(r)
           \/ /\ UNCHANGED lastNumber
              /\ UNCHANGED moves \/ \E r \in Request : OutInsert(r) \/ MoveInsert(r)
              /\ UNCHANGED payments \/ \E r \in Request : PayLink(r) \/ RefundLink(r)
              /\ UNCHANGED costs \/ \E r \in Request : CostWrite(r)
  <1>1. \/ UNCHANGED <<lastNumber, moves, payments, costs>>
        \/ \E r \in Request : Works(r)
    <2>1. Drafting => UNCHANGED <<lastNumber, moves, payments, costs>>
      BY DEF Drafting, CreateDraft, AddLine, UpdateLine, RemoveLine, EditLines, DeleteDraft
    <2>2. ASSUME NEW r \in Request, Starts(r) \/ Quit(r)
          PROVE  UNCHANGED <<lastNumber, moves, payments, costs>>
      BY <2>2 DEF Starts, Quit, HeaderRead, ConfirmRead, CancelRead, Pay, PaySupplier, CostRead,
                  MoveRead, Unwritten
    <2>3. UNCHANGED vars => UNCHANGED <<lastNumber, moves, payments, costs>>
      BY DEF vars
    <2> QED BY <2>1, <2>2, <2>3 DEF Next
  <1>2. ASSUME NEW r \in Request, Works(r), ~ ConfirmUnit(r)
        PROVE  /\ UNCHANGED lastNumber
               /\ UNCHANGED moves \/ OutInsert(r) \/ MoveInsert(r)
               /\ UNCHANGED payments \/ PayLink(r) \/ RefundLink(r)
               /\ UNCHANGED costs \/ CostWrite(r)
    BY <1>2 DEF Works, HeaderWrite, Discard, PayCheck, PayPost, PayLink, OutCheck, OutInsert,
                RefundPost, RefundLink, CancelClose, Close, CostWrite, MoveInsert, Unwritten
  <1> QED BY <1>1, <1>2

(* A step that leaves the sequences confirms nothing. *)
LEMMA QuietTable ==
    ASSUME Sound, TableStep, UNCHANGED lastNumber
    PROVE  PurchasesQuiet
  <1>1. /\ purchases \in Seq(Purchase) /\ Len(purchases) \in Nat /\ lastNumber \in [Year -> Nat]
        /\ \A p \in 1..Len(purchases) : purchases[p] \in Purchase
    BY ElementOfSeq, LenProperties DEF Sound, TypeOK
  <1>2. CASE UNCHANGED purchases
    BY <1>1, <1>2 DEF PurchasesQuiet
  <1>3. ASSUME NEW x \in Purchase, x.number = NoNumber, purchases' = Append(purchases, x)
        PROVE  PurchasesQuiet
    <2>1. /\ Len(purchases') = Len(purchases) + 1 /\ purchases'[Len(purchases) + 1] = x
          /\ \A p \in 1..Len(purchases) : purchases'[p] = purchases[p]
      BY <1>1, <1>3
    <2>2. \A p \in 1..Len(purchases') : p \in 1..Len(purchases) \/ purchases'[p] = x
      BY <1>1, <2>1
    <2> QED BY <1>1, <1>3, <2>1, <2>2 DEF PurchasesQuiet
  <1>4. ASSUME NEW p \in 1..Len(purchases), NEW x \in Purchase,
               purchases' = [purchases EXCEPT ![p] = x], Rewritten(p, x)
        PROVE  PurchasesQuiet
    <2>1. /\ Len(purchases') = Len(purchases) /\ purchases'[p] = x
          /\ \A t \in 1..Len(purchases) : t # p => purchases'[t] = purchases[t]
      BY <1>1, <1>4, ExceptSeq
    <2>2. PICK old \in Purchase : old = purchases[p]
      BY <1>1
    <2>3. old.status = "Draft" => ~ Numbered(p)
      BY <2>2 DEF Sound, Typed, Numbered
    <2>4. \/ old.status = "Draft" /\ x = [old EXCEPT !.lines = x.lines]
          \/ ~ Numbered(p) /\ x = [old EXCEPT !.status = "deleted", !.lines = <<>>]
          \/ x = [old EXCEPT !.header = x.header]
          \/ x = [old EXCEPT !.status = "Cancelled"]
      <3>1. ASSUME NEW y \in Year, lastNumber' = [lastNumber EXCEPT ![y] = @ + 1] PROVE FALSE
        <4>1. lastNumber'[y] = lastNumber[y] + 1 /\ lastNumber[y] \in Nat
          BY <1>1, <3>1
        <4> QED BY <4>1
      <3> QED BY <1>4, <2>2, <3>1 DEF Rewritten, Numbered
    <2>5. /\ x.number = old.number
          /\ Numbered(p) => x.lines = old.lines
          /\ x.status = "Confirmed" => old.status = "Confirmed"
          /\ old.status = "Cancelled" /\ Numbered(p) => x.status = "Cancelled"
      BY <2>3, <2>4 DEF Purchase
    <2> QED BY <1>1, <2>1, <2>2, <2>5 DEF PurchasesQuiet
  <1> QED BY <1>2, <1>3, <1>4 DEF TableStep

(* The numbers of the purchases are those of their documents. *)
LEMMA NumbersOfPurchases ==
    ASSUME Sound, Document!NumbersInOrder
    PROVE  \A p \in 1..Len(purchases) : Numbered(p) =>
               \E y \in Year : \E n \in 1..lastNumber[y] : purchases[p].number = <<y, n>>
  <1>1. Len(docs) = Len(purchases) /\ \A p \in 1..Len(purchases) : docs[p].number = purchases[p].number
    <2>1. Len(docs) = Len(purchases) /\ \A p \in 1..Len(purchases) : docs[p] = AsDocument(purchases[p])
      BY DocsNow DEF Sound, TypeOK
    <2>2. \A x : AsDocument(x).number = x.number
      BY DEF AsDocument
    <2> QED BY <2>1, <2>2
  <1>2. Document!NoNumber = NoNumber
    BY DEF Document!NoNumber, NoNumber
  <1>3. \A p \in 1..Len(docs) : docs[p].number # NoNumber =>
            \E y \in Year : \E n \in 1..lastNumber[y] : docs[p].number = <<y, n>>
    BY <1>2 DEF Document!NumbersInOrder
  <1> QED BY <1>1, <1>3 DEF Numbered

(* Where a confirm works from what is there, it confirms it as it is. *)
LEMMA ConfirmsRead ==
    ASSUME Sound, Held, Document!NumbersInOrder, NEW r \in Request, ConfirmUnit(r)
    PROVE  \E number : Confirms(req[r].purchase, number)
  <1>1. PICK q : q = req[r]
    OBVIOUS
  <1>2. q.step = "confirm" /\ q.account \in Account /\ Stands(q) /\ Relies(q, purchases)
    BY <1>1, RequestShape DEF ConfirmUnit, Held, Sound, Typed
  <1>3. PICK p, seen : p = q.purchase /\ seen = q.seen
    OBVIOUS
  <1>4. /\ p \in 1..Len(purchases) /\ p \in Nat \ {0} /\ seen = purchases[p] /\ seen \in Purchase
        /\ seen.status = "Draft"
    BY <1>2, <1>3 DEF Relies, Stands
  <1>5. ~ Numbered(p)
    BY <1>4 DEF Sound, Typed, Numbered
  <1>6. PICK year : year = seen.header.date[1]
    OBVIOUS
  <1>7. year \in Year
    <2>1. seen.header \in Header
      BY <1>4 DEF Purchase
    <2>2. seen.header.date \in Year \X Day
      BY <2>1 DEF Header, Date
    <2> QED BY <1>6, <2>2
  <1>8. PICK n \in Nat : n = lastNumber[year]
    BY <1>7 DEF Sound, TypeOK
  <1>9. PICK number : number = <<year, n + 1>>
    OBVIOUS
  <1>10. number \in Number /\ number # NoNumber /\ number = NextNumber(year)
    BY <1>7, <1>8, <1>9 DEF Number, NoNumber, NextNumber
  <1>11. ASSUME NEW t \in 1..Len(purchases) PROVE purchases[t].number # number
    <2> SUFFICES ASSUME purchases[t].number = number PROVE FALSE
      OBVIOUS
    <2>1. PICK y \in Year : \E k \in 1..lastNumber[y] : purchases[t].number = <<y, k>>
      BY <1>10, NumbersOfPurchases DEF Numbered
    <2>2. PICK k \in 1..lastNumber[y] : number = <<y, k>>
      BY <2>1
    <2>3. y = year /\ k = n + 1
      BY <1>9, <2>2
    <2> QED BY <1>8, <2>2, <2>3
  <1>12. PICK charge \in Nat : charge = Charge(seen)
    BY <1>4, ChargeNat
  <1>13. PICK pay : pay = [purchase |-> p, account |-> q.account, amount |-> charge,
                           tx |-> Len(entries) + 1, refund |-> 0]
    OBVIOUS
  <1>14. /\ UnitAccepts(q)
         /\ ReceiveLines(seen.lines, number)
         /\ IF charge > 0 THEN payments' = Append(payments, pay) ELSE UNCHANGED payments
         /\ purchases' = [purchases EXCEPT ![p] =
                              [purchases[p] EXCEPT !.status = "Confirmed", !.number = number]]
         /\ costs' = CostsOf(seen)
    <2>1. UnitAccepts(q) /\ costs' = CostsOf(seen)
      BY <1>1, <1>3 DEF ConfirmUnit
    <2>2. ReceiveLines(seen.lines, number)
      BY <1>1, <1>3, <1>6, <1>10 DEF ConfirmUnit, ReceiveLines
    <2>3. IF charge > 0 THEN payments' = Append(payments, pay) ELSE UNCHANGED payments
      BY <1>1, <1>3, <1>12, <1>13 DEF ConfirmUnit
    <2>4. purchases' = [purchases EXCEPT ![p] =
                            [purchases[p] EXCEPT !.status = "Confirmed", !.number = number]]
      BY <1>1, <1>3, <1>6, <1>10 DEF ConfirmUnit, Rewrite
    <2> QED BY <2>1, <2>2, <2>3, <2>4
  <1>15. charge > 0 => pay \in Payment
    <2>1. Len(entries) \in Nat
      BY LenProperties DEF Sound, TypeOK
    <2> QED BY <1>2, <1>4, <1>12, <1>13, <2>1 DEF Payment
  <1>16. pay.purchase = p /\ pay.amount = charge /\ pay.refund = 0
    BY <1>13
  <1>17. CostsAccept(seen)
    BY <1>3, <1>14 DEF UnitAccepts
  <1>18. IF charge > 0
         THEN \E row \in Payment : /\ row.purchase = p /\ row.amount = charge /\ row.refund = 0
                                   /\ payments' = Append(payments, row)
         ELSE UNCHANGED payments
    BY <1>14, <1>15, <1>16
  <1>19. Confirms(p, number)
    BY <1>4, <1>5, <1>10, <1>11, <1>12, <1>14, <1>17, <1>18 DEF Confirms
  <1> QED BY <1>1, <1>3, <1>19

(* What a confirm leaves in the table. *)
LEMMA ConfirmedTable ==
    ASSUME Sound, NEW p, NEW number, Confirms(p, number)
    PROVE  /\ p \in 1..Len(purchases) /\ purchases[p] \in Purchase /\ purchases[p].lines \in Seq(Line)
           /\ Len(purchases') = Len(purchases)
           /\ purchases'[p].status = "Confirmed" /\ purchases'[p].number = number
           /\ purchases'[p].lines = purchases[p].lines /\ purchases'[p].header = purchases[p].header
           /\ \A t \in 1..Len(purchases) : t # p => purchases'[t] = purchases[t]
  <1>1. purchases \in Seq(Purchase) /\ p \in 1..Len(purchases)
    BY DEF Confirms, Sound, TypeOK
  <1>2. PICK old \in Purchase : old = purchases[p]
    BY <1>1, ElementOfSeq
  <1>3. PICK x : x = [old EXCEPT !.status = "Confirmed", !.number = number]
    OBVIOUS
  <1>4. /\ x.status = "Confirmed" /\ x.number = number /\ x.lines = old.lines
        /\ x.header = old.header /\ old.lines \in Seq(Line)
    BY <1>3 DEF Purchase
  <1>5. purchases' = [purchases EXCEPT ![p] = x]
    BY <1>2, <1>3 DEF Confirms
  <1>6. /\ Len(purchases') = Len(purchases) /\ purchases'[p] = x
        /\ \A t \in 1..Len(purchases) : t # p => purchases'[t] = purchases[t]
    BY <1>1, <1>5
  <1> QED BY <1>1, <1>2, <1>4, <1>6
-----------------------------------------------------------------------------
(* What is paid stays within the total.                                    *)

\* No numbered purchase is overpaid.
WellPaid ==
    \A p \in 1..Len(purchases) : Numbered(p) => PaidIn(payments, p) <= Total(purchases[p].lines)

(* After a confirm the purchase is unpaid, or paid in full if it is cash. *)
LEMMA PaidByConfirm ==
    ASSUME Sound, NEW p, NEW number, Confirms(p, number), NEW t
    PROVE  PaidIn(payments', t) = IF t = p THEN Charge(purchases[p]) ELSE PaidIn(payments, t)
  <1>1. /\ p \in 1..Len(purchases) /\ ~ Numbered(p) /\ payments \in Seq(Payment)
        /\ purchases[p] \in Purchase
    <2>1. p \in 1..Len(purchases) /\ ~ Numbered(p) /\ payments \in Seq(Payment)
      BY DEF Confirms, Sound, TypeOK
    <2> QED BY <2>1, ConfirmedTable
  <1>2. PICK charge \in Nat : charge = Charge(purchases[p])
    BY <1>1, ChargeNat
  <1>3. PaidIn(payments, t) \in Nat /\ (t = p => PaidIn(payments, t) = 0)
    BY <1>1, PaidIsSum, PaidUnnumbered
  <1>4. IF charge > 0 THEN \E pay \in Payment : /\ pay.purchase = p /\ pay.amount = charge
                                                /\ payments' = Append(payments, pay)
                      ELSE UNCHANGED payments
    BY <1>2 DEF Confirms
  <1>5. CASE charge > 0
    <2>1. PICK pay \in Payment : /\ pay.purchase = p /\ pay.amount = charge
                                 /\ payments' = Append(payments, pay)
      BY <1>4, <1>5
    <2>2. PaidIn(payments', t) = PaidIn(payments, t) + (IF p = t THEN charge ELSE 0)
      BY <2>1, PaidAppended
    <2> QED BY <1>2, <1>3, <1>5, <2>2
  <1>6. CASE ~ (charge > 0)
    <2>1. PaidIn(payments', t) = PaidIn(payments, t)
      BY <1>4, <1>6
    <2> QED BY <1>2, <1>3, <1>6, <2>1
  <1> QED BY <1>5, <1>6

(* No step overpays a purchase. *)
LEMMA WellPaidStep ==
    ASSUME Sound, Sound', Held, Document!NumbersInOrder, WellPaid, [Next]_vars
    PROVE  WellPaid'
  <1>1. ASSUME NEW r \in Request, ConfirmUnit(r) PROVE WellPaid'
    <2>1. PICK p, number : Confirms(p, number)
      BY <1>1, ConfirmsRead
    <2>2. ASSUME NEW t \in 1..Len(purchases'), purchases'[t].number # NoNumber
          PROVE  PaidIn(payments', t) <= Total(purchases'[t].lines)
      <3>1. CASE t = p
        <4>1. PICK lines \in Seq(Line) : lines = purchases[p].lines
          BY <2>1, ConfirmedTable
        <4>2. purchases'[t].lines = lines
          BY <2>1, <3>1, <4>1, ConfirmedTable
        <4>3. PaidIn(payments', t) = Total(lines) \/ PaidIn(payments', t) = 0
          BY <2>1, <3>1, <4>1, PaidByConfirm DEF Charge
        <4>4. Total(lines) \in Nat
          BY TotalNat
        <4> QED BY <4>2, <4>3, <4>4
      <3>2. CASE t # p
        <4>1. t \in 1..Len(purchases) /\ purchases'[t] = purchases[t] /\ Numbered(t)
          BY <2>1, <2>2, <3>2, ConfirmedTable DEF Numbered
        <4>2. PaidIn(payments', t) = PaidIn(payments, t)
          BY <2>1, <3>2, PaidByConfirm
        <4> QED BY <4>1, <4>2 DEF WellPaid
      <3> QED BY <3>1, <3>2
    <2> QED BY <2>2 DEF WellPaid, Numbered
  <1>2. ASSUME PurchasesQuiet,
               UNCHANGED payments \/ \E r \in Request : PayLink(r) \/ RefundLink(r)
        PROVE  WellPaid'
    <2>1. ASSUME NEW t \in 1..Len(purchases'), purchases'[t].number # NoNumber
          PROVE  PaidIn(payments', t) <= Total(purchases'[t].lines)
      <3>1. t \in 1..Len(purchases) /\ Numbered(t) /\ purchases'[t].lines = purchases[t].lines
        BY <1>2, <2>1 DEF PurchasesQuiet, Numbered
      <3>2. PaidIn(payments, t) <= Total(purchases[t].lines)
        BY <3>1 DEF WellPaid
      <3>3. CASE PaidIn(payments', t) = PaidIn(payments, t)
        BY <3>1, <3>2, <3>3
      <3>4. ASSUME NEW r \in Request, PayLink(r), PaidIn(payments', t) # PaidIn(payments, t)
            PROVE  PaidIn(payments', t) <= Total(purchases[t].lines)
        <4>1. PICK next : next = NextPaid(req[r].plan)
          OBVIOUS
        <4>2. PICK pay \in Payment : /\ pay.purchase = next.purchase /\ pay.amount = next.amount
                                     /\ payments' = Append(payments, pay)
          BY <3>4, <4>1, PayLinked
        <4>3. PICK amount, paid \in Nat : amount = pay.amount /\ paid = PaidIn(payments, t)
          <5>1. pay.amount \in Nat /\ PaidIn(payments, t) \in Nat
            BY PaidNow DEF Payment
          <5> QED BY <5>1
        <4>4. PaidIn(payments', t) = paid + (IF pay.purchase = t THEN amount ELSE 0)
          BY <4>2, <4>3, PaidAppended
        <4>5. pay.purchase = t
          BY <3>4, <4>3, <4>4
        <4>6. next \in req[r].plan /\ req[r].step \in Planning
          <5>1. req[r].step = "payLink"
            BY <3>4 DEF PayLink
          <5> QED BY <4>1, <5>1, NextPaidSound DEF Planning
        <4>7. amount <= Due(t)
          BY <4>2, <4>3, <4>5, <4>6 DEF Held, Stands
        <4>8. PICK total \in Nat : total = Total(purchases[t].lines)
          <5>1. purchases[t] \in Purchase
            BY <3>1, ElementOfSeq DEF Sound, TypeOK
          <5> QED BY <5>1, TotalNat DEF Purchase
        <4>9. amount <= total - paid
          BY <4>3, <4>7, <4>8, PaidNow DEF Due
        <4>10. PaidIn(payments', t) = paid + amount
          BY <4>4, <4>5
        <4> QED BY <4>3, <4>8, <4>9, <4>10
      <3> QED BY <1>2, <3>1, <3>3, <3>4, PaidRefunded
    <2> QED BY <2>1 DEF WellPaid, Numbered
  <1>3. TableStep
    BY StepOnTable DEF Sound
  <1> QED BY <1>1, <1>2, <1>3, ConfirmsOrNot, QuietTable

(* Where requests are served one at a time, what was read still holds. *)
LEMMA AlwaysHeld == OneAtATime => (Spec => [](Alone /\ Held))
  <1>1. CASE OneAtATime
    <2>1. Sound /\ Sound' /\ Alone /\ Held /\ [Next]_vars => Alone' /\ Held'
      BY <1>1, HeldStep
    <2> QED BY <2>1, HeldInit, AlwaysSound, PTL DEF Spec
  <1> QED BY <1>1

LEMMA AlwaysWellPaid == OneAtATime => (Spec => []WellPaid)
  <1>1. Init => WellPaid
    BY DEF Init, WellPaid
  <1>2. Sound /\ Sound' /\ Held /\ Document!NumbersInOrder /\ WellPaid /\ [Next]_vars => WellPaid'
    BY WellPaidStep
  <1>3. CASE OneAtATime
    <2>1. Spec => [](Alone /\ Held)
      BY <1>3, AlwaysHeld
    <2> QED BY <1>1, <1>2, <2>1, AlwaysSound, PurchaseNumbersDense, PTL DEF Spec
  <1> QED BY <1>3

(* What is paid, in the figures of the table. *)
LEMMA WellPaidMeans == Sound /\ WellPaid => PaidWithinTotal
  <1> SUFFICES ASSUME Sound, WellPaid, NEW p \in 1..Len(purchases), Numbered(p)
               PROVE  Due(p) >= 0
    BY DEF PaidWithinTotal
  <1>1. PICK paid \in Nat : paid = PaidIn(payments, p) /\ Paid(p) = paid
    <2>1. payments \in Seq(Payment)
      BY DEF Sound, TypeOK
    <2>2. Paid(p) = PaidSum(payments, p)
      BY DEF Paid, PaidSum
    <2> QED BY <2>1, <2>2, PaidIsSum
  <1>2. PICK total \in Nat : total = Total(purchases[p].lines)
    <2>1. purchases[p] \in Purchase
      BY ElementOfSeq DEF Sound, TypeOK
    <2> QED BY <2>1, TotalNat DEF Purchase
  <1>3. paid <= total
    BY <1>1, <1>2 DEF WellPaid
  <1> QED BY <1>1, <1>2, <1>3 DEF Due

(* Where requests are served one at a time, the payments of a purchase     *)
(* never exceed its total, whether it is paid by itself or in the plan of  *)
(* a supplier: what was due when the plan was made is still due when its   *)
(* turn comes, because the other payments of the plan are of others.       *)
THEOREM PurchasePaidWithinTotal == OneAtATime => (Spec => []PaidWithinTotal)
  BY AlwaysWellPaid, WellPaidMeans, AlwaysSound, PTL

-----------------------------------------------------------------------------
(* The units moved under a number.                                         *)

UnitsOf(product) == [line \in Line |-> IF line.product = product THEN line.qty ELSE 0]

BoughtOf(lines, product) ==
    SumOver([i \in 1..Len(lines) |-> IF lines[i].product = product THEN lines[i].qty ELSE 0],
            Len(lines))

InFigure(number, product) ==
    [m \in Move |-> IF m.number = number /\ m.product = product /\ ~ (m.delta < 0)
                    THEN m.delta ELSE 0]

OutFigure(number, product) ==
    [m \in Move |-> IF m.number = number /\ m.product = product /\ m.delta < 0
                    THEN 0 - m.delta ELSE 0]

\* The units of a product that came in, and went out, under a number.
CameIn(rows, number, product) == RowSum(InFigure(number, product), rows)
WentOut(rows, number, product) == RowSum(OutFigure(number, product), rows)

MovedIn(rows, number, product, out) ==
    SumOver([i \in 1..Len(rows) |->
        IF rows[i].number = number /\ rows[i].product = product /\ (rows[i].delta < 0) = out
        THEN rows[i].delta ELSE 0], Len(rows))

(* They are sums of figures. *)
LEMMA FiguresNat ==
    ASSUME NEW number, NEW product
    PROVE  /\ InFigure(number, product) \in [Move -> Nat]
           /\ InFigure(number, product) \in [Move -> Int]
           /\ OutFigure(number, product) \in [Move -> Nat]
           /\ OutFigure(number, product) \in [Move -> Int]
           /\ \A rows \in Seq(Move) : CameIn(rows, number, product) \in Nat
                                      /\ WentOut(rows, number, product) \in Nat
  <1>1. \A m \in Move : m.delta \in Int
    BY DEF Move
  <1>2. InFigure(number, product) \in [Move -> Nat] /\ OutFigure(number, product) \in [Move -> Nat]
    BY <1>1 DEF InFigure, OutFigure
  <1>3. InFigure(number, product) \in [Move -> Int] /\ OutFigure(number, product) \in [Move -> Int]
    <2>1. Nat \subseteq Int
      OBVIOUS
    <2> QED BY <1>2, <2>1
  <1>4. ASSUME NEW rows \in Seq(Move)
        PROVE  CameIn(rows, number, product) \in Nat /\ WentOut(rows, number, product) \in Nat
    BY <1>2, RowSumNat DEF CameIn, WentOut
  <1> QED BY <1>2, <1>3, <1>4

LEMMA MovedIsSum ==
    ASSUME NEW rows \in Seq(Move), NEW number, NEW product
    PROVE  /\ MovedIn(rows, number, product, FALSE) = CameIn(rows, number, product)
           /\ MovedIn(rows, number, product, TRUE) = 0 - WentOut(rows, number, product)
  <1> DEFINE v == [i \in 1..Len(rows) |->
                     IF rows[i].number = number /\ rows[i].product = product
                        /\ (rows[i].delta < 0) = FALSE
                     THEN rows[i].delta ELSE 0]
             w == [i \in 1..Len(rows) |->
                     IF rows[i].number = number /\ rows[i].product = product
                        /\ (rows[i].delta < 0) = TRUE
                     THEN rows[i].delta ELSE 0]
             f == InFigure(number, product)
             g == OutFigure(number, product)
             u == [i \in 1..Len(rows) |-> g[rows[i]]]
  <1>1. \A i \in 1..Len(rows) : v[i] = f[rows[i]]
    <2> SUFFICES ASSUME NEW i \in 1..Len(rows) PROVE v[i] = f[rows[i]]
      OBVIOUS
    <2>1. PICK m \in Move : m = rows[i]
      BY ElementOfSeq
    <2> QED BY <2>1 DEF InFigure
  <1>2. \A i \in 1..Len(rows) : u[i] \in Int /\ w[i] = 0 - u[i] /\ u[i] = g[rows[i]]
    <2> SUFFICES ASSUME NEW i \in 1..Len(rows)
                 PROVE  u[i] \in Int /\ w[i] = 0 - u[i] /\ u[i] = g[rows[i]]
      OBVIOUS
    <2>1. PICK m \in Move : m = rows[i] /\ m.delta \in Int
      <3>1. rows[i] \in Move
        BY ElementOfSeq
      <3> QED BY <3>1 DEF Move
    <2>2. g[m] = IF m.number = number /\ m.product = product /\ m.delta < 0
                 THEN 0 - m.delta ELSE 0
      BY <2>1 DEF OutFigure
    <2>3. w[i] = IF m.number = number /\ m.product = product /\ m.delta < 0
                 THEN m.delta ELSE 0
      BY <2>1
    <2> HIDE DEF g, w
    <2> QED BY <2>1, <2>2, <2>3
  <1>3. Len(rows) \in Nat
    BY LenProperties
  <1> HIDE DEF v, w, f, g, u
  <1>4. SumOver(v, Len(rows)) = RowSum(f, rows)
    BY <1>1, RowSumIs
  <1>5. SumOver(u, Len(rows)) = RowSum(g, rows)
    BY <1>2, RowSumIs
  <1>6. SumOver(w, Len(rows)) = 0 - SumOver(u, Len(rows))
    BY <1>2, <1>3, SumOverNegated
  <1>7. MovedIn(rows, number, product, FALSE) = CameIn(rows, number, product)
    BY <1>4 DEF MovedIn, CameIn, f, v
  <1>8. MovedIn(rows, number, product, TRUE) = 0 - WentOut(rows, number, product)
    BY <1>5, <1>6 DEF MovedIn, WentOut, g, w
  <1> QED BY <1>7, <1>8

(* So they are before and after a step. *)
LEMMA MovedNow ==
    ASSUME Sound, Sound', NEW number, NEW product
    PROVE  /\ MovedBy(number, product, FALSE) = CameIn(moves, number, product)
           /\ MovedBy(number, product, TRUE) = 0 - WentOut(moves, number, product)
           /\ MovedBy(number, product, FALSE)' = CameIn(moves', number, product)
           /\ MovedBy(number, product, TRUE)' = 0 - WentOut(moves', number, product)
           /\ CameIn(moves, number, product) \in Nat /\ CameIn(moves', number, product) \in Nat
           /\ WentOut(moves, number, product) \in Nat /\ WentOut(moves', number, product) \in Nat
  <1>1. moves \in Seq(Move) /\ moves' \in Seq(Move)
    BY DEF Sound, TypeOK
  <1>2. MovedBy(number, product, FALSE) = CameIn(moves, number, product)
    BY <1>1, MovedIsSum DEF MovedBy, MovedIn
  <1>3. MovedBy(number, product, TRUE) = 0 - WentOut(moves, number, product)
    BY <1>1, MovedIsSum DEF MovedBy, MovedIn
  <1>4. MovedBy(number, product, FALSE)' = CameIn(moves', number, product)
    BY <1>1, MovedIsSum DEF MovedBy, MovedIn
  <1>5. MovedBy(number, product, TRUE)' = 0 - WentOut(moves', number, product)
    BY <1>1, MovedIsSum DEF MovedBy, MovedIn
  <1> QED BY <1>1, <1>2, <1>3, <1>4, <1>5, FiguresNat

(* What the lines of a purchase buy. *)
LEMMA BoughtIsSum ==
    ASSUME NEW lines \in Seq(Line), NEW product
    PROVE  /\ UnitsOf(product) \in [Line -> Nat] /\ UnitsOf(product) \in [Line -> Int]
           /\ BoughtOf(lines, product) = RowSum(UnitsOf(product), lines)
           /\ BoughtOf(lines, product) \in Nat
  <1> DEFINE f == UnitsOf(product)
             w == [i \in 1..Len(lines) |->
                      IF lines[i].product = product THEN lines[i].qty ELSE 0]
  <1>1. f \in [Line -> Nat] /\ f \in [Line -> Int]
    <2>1. \A line \in Line : line.qty \in Nat
      <3>1. \A line \in Line : line.qty \in Qty
        BY DEF Line
      <3>2. \A n \in Qty : n \in Nat
        BY PurchasesAssumption
      <3> QED BY <3>1, <3>2
    <2>2. f \in [Line -> Nat]
      BY <2>1 DEF UnitsOf
    <2>3. Nat \subseteq Int
      OBVIOUS
    <2> QED BY <2>2, <2>3
  <1>2. \A i \in 1..Len(lines) : w[i] = f[lines[i]]
    <2> SUFFICES ASSUME NEW i \in 1..Len(lines) PROVE w[i] = f[lines[i]]
      OBVIOUS
    <2>1. PICK line \in Line : line = lines[i]
      BY ElementOfSeq
    <2> QED BY <2>1 DEF UnitsOf
  <1> HIDE DEF w, f
  <1>3. SumOver(w, Len(lines)) = RowSum(f, lines)
    BY <1>2, RowSumIs
  <1>4. RowSum(f, lines) \in Nat
    BY <1>1, RowSumNat
  <1> QED BY <1>1, <1>3, <1>4 DEF BoughtOf, f, w

(* The tracked lines hold all there is of a tracked product. *)
LEMMA BoughtTracked ==
    ASSUME NEW lines \in Seq(Line), NEW product \in Tracked
    PROVE  RowSum(UnitsOf(product), TrackedLines(lines)) = BoughtOf(lines, product)
  <1> DEFINE ids == {i \in 1..Len(lines) : lines[i].product \in Tracked}
  <1>1. UnitsOf(product) \in [Line -> Int]
    BY BoughtIsSum
  <1>2. \A i \in 1..Len(lines) : i \in ids \/ UnitsOf(product)[lines[i]] = 0
    <2> SUFFICES ASSUME NEW i \in 1..Len(lines), lines[i].product \notin Tracked
                 PROVE  UnitsOf(product)[lines[i]] = 0
      OBVIOUS
    <2>1. PICK line \in Line : line = lines[i]
      BY ElementOfSeq
    <2>2. line.product # product
      BY <2>1
    <2> QED BY <2>1, <2>2 DEF UnitsOf
  <1>3. \A i \in 1..Len(lines) : i \in ids => lines[i] \in Line
    BY ElementOfSeq
  <1> HIDE DEF ids
  <1>4. RowSum(UnitsOf(product), Picked(lines, ids)) = PickedSum(UnitsOf(product), lines, ids)
    BY <1>1, PickedRowSum
  <1>5. PickedSum(UnitsOf(product), lines, ids) = RowSum(UnitsOf(product), lines)
    BY <1>2, PickedAll
  <1> QED BY <1>4, <1>5, BoughtIsSum DEF TrackedLines, ids

(* The movements a confirm adds: under its number, in, what the lines buy. *)
LEMMA ReceivedUnits ==
    ASSUME NEW lines \in Seq(Line), NEW number \in Number, ReceiveLines(lines, number)
    PROVE  \E new \in Seq(Move) :
              /\ moves' = moves \o new
              /\ \A i \in 1..Len(new) : new[i].number = number
              /\ \A n, u : WentOut(new, n, u) = 0
              /\ \A u \in Tracked : CameIn(new, number, u) = BoughtOf(lines, u)
  <1>1. PICK received \in Seq(TrackedLine) : received = TrackedLines(lines)
    BY TrackedLinesTyped
  <1>2. Len(received) \in Nat
    BY <1>1, LenProperties
  <1>3. PICK new : new = [i \in 1..Len(received) |->
                [product |-> received[i].product, delta |-> received[i].qty, number |-> number]]
    OBVIOUS
  <1>4. ASSUME NEW i \in 1..Len(received)
        PROVE  \E m \in Move, line \in Line :
                  /\ m = new[i] /\ line = received[i]
                  /\ m.product = line.product /\ m.delta = line.qty /\ m.number = number
                  /\ m.delta \in Nat
    <2>1. PICK line \in TrackedLine : line = received[i]
      BY <1>1, ElementOfSeq
    <2>2. PICK m : m = [product |-> line.product, delta |-> line.qty, number |-> number]
      OBVIOUS
    <2>3. m = new[i]
      BY <1>3, <2>1, <2>2
    <2>4. m.product = line.product /\ m.delta = line.qty /\ m.number = number
      BY <2>2
    <2>5. line.qty \in Nat /\ line.product \in Tracked
      <3>1. line.qty \in Qty /\ line.product \in Tracked
        BY DEF TrackedLine
      <3>2. \A n \in Qty : n \in Nat
        BY PurchasesAssumption
      <3> QED BY <3>1, <3>2
    <2>6. m \in Move
      BY <2>2, <2>5 DEF Move
    <2>7. line \in Line
      BY PurchasesAssumption DEF TrackedLine, Line
    <2> QED BY <2>1, <2>3, <2>4, <2>5, <2>6, <2>7
  <1>5. new \in Seq(Move) /\ Len(new) = Len(received)
    <2>1. \A i \in 1..Len(received) : new[i] \in Move
      BY <1>4
    <2>2. new \in Seq(Move)
      BY <1>2, <1>3, <2>1, IsASeq
    <2>3. DOMAIN new = 1..Len(received)
      BY <1>3
    <2>4. DOMAIN new = 1..Len(new) /\ Len(new) \in Nat
      BY <2>2, LenProperties
    <2> QED BY <1>2, <2>2, <2>3, <2>4
  <1>6. moves' = moves \o new
    BY <1>1, <1>3 DEF ReceiveLines
  <1>7. \A i \in 1..Len(new) : new[i].number = number
    BY <1>4, <1>5
  <1>8. ASSUME NEW n, NEW u PROVE WentOut(new, n, u) = 0
    <2>1. \A i \in 1..Len(new) : OutFigure(n, u)[new[i]] = 0
      <3> SUFFICES ASSUME NEW i \in 1..Len(new) PROVE OutFigure(n, u)[new[i]] = 0
        OBVIOUS
      <3>1. PICK m \in Move : m = new[i] /\ m.delta \in Nat
        BY <1>4, <1>5
      <3> QED BY <3>1 DEF OutFigure
    <2> QED BY <1>5, <2>1, RowSumZero DEF WentOut
  <1>9. ASSUME NEW u \in Tracked PROVE CameIn(new, number, u) = BoughtOf(lines, u)
    <2>1. \A i \in 1..Len(new) : InFigure(number, u)[new[i]] = UnitsOf(u)[received[i]]
      <3> SUFFICES ASSUME NEW i \in 1..Len(new)
                   PROVE  InFigure(number, u)[new[i]] = UnitsOf(u)[received[i]]
        OBVIOUS
      <3>1. PICK m \in Move, line \in Line :
                  /\ m = new[i] /\ line = received[i]
                  /\ m.product = line.product /\ m.delta = line.qty /\ m.number = number
                  /\ m.delta \in Nat
        BY <1>4, <1>5
      <3>2. InFigure(number, u)[m] = IF m.product = u THEN m.delta ELSE 0
        BY <3>1 DEF InFigure
      <3>3. UnitsOf(u)[line] = IF line.product = u THEN line.qty ELSE 0
        BY DEF UnitsOf
      <3> QED BY <3>1, <3>2, <3>3
    <2>2. SameFigures(InFigure(number, u), new, UnitsOf(u), received)
      BY <1>5, <2>1 DEF SameFigures
    <2>3. RowSum(InFigure(number, u), new) = RowSum(UnitsOf(u), received)
      BY <1>5, <2>2, RowSumAgree
    <2> QED BY <1>1, <2>3, BoughtTracked DEF CameIn
  <1> QED BY <1>5, <1>6, <1>7, <1>8, <1>9

(* A confirm brings in what the lines buy, and takes nothing out. *)
LEMMA MovedReceived ==
    ASSUME NEW lines \in Seq(Line), NEW number \in Number, moves \in Seq(Move),
           ReceiveLines(lines, number), NEW n, NEW u \in Tracked
    PROVE  /\ CameIn(moves', n, u) =
                  CameIn(moves, n, u) + (IF n = number THEN BoughtOf(lines, u) ELSE 0)
           /\ WentOut(moves', n, u) = WentOut(moves, n, u)
  <1>1. PICK new \in Seq(Move) :
              /\ moves' = moves \o new
              /\ \A i \in 1..Len(new) : new[i].number = number
              /\ \A k, v : WentOut(new, k, v) = 0
              /\ \A v \in Tracked : CameIn(new, number, v) = BoughtOf(lines, v)
    BY ReceivedUnits
  <1>2. /\ OutFigure(n, u) \in [Move -> Int] /\ InFigure(n, u) \in [Move -> Int]
        /\ CameIn(moves, n, u) \in Nat /\ WentOut(moves, n, u) \in Nat
    BY FiguresNat
  <1>3. CameIn(moves', n, u) = CameIn(moves, n, u) + CameIn(new, n, u)
    BY <1>1, <1>2, RowSumConcat DEF CameIn
  <1>4. WentOut(moves', n, u) = WentOut(moves, n, u) + WentOut(new, n, u)
    BY <1>1, <1>2, RowSumConcat DEF WentOut
  <1>5. CASE n = number
    BY <1>1, <1>2, <1>3, <1>4, <1>5
  <1>6. CASE n # number
    <2>1. \A i \in 1..Len(new) : InFigure(n, u)[new[i]] = 0
      <3> SUFFICES ASSUME NEW i \in 1..Len(new) PROVE InFigure(n, u)[new[i]] = 0
        OBVIOUS
      <3>1. PICK m \in Move : m = new[i] /\ m.number = number
        BY <1>1, ElementOfSeq
      <3> QED BY <1>6, <3>1 DEF InFigure
    <2>2. CameIn(new, n, u) = 0
      BY <2>1, RowSumZero DEF CameIn
    <2> QED BY <1>1, <1>2, <1>3, <1>4, <1>6, <2>2
  <1> QED BY <1>5, <1>6

-----------------------------------------------------------------------------
(* What a purchase received is what it says.                               *)

\* Every movement is of a numbered purchase or by hand.
MovesKnown ==
    \A i \in 1..Len(moves) :
        moves[i].number = NoNumber \/ \E t \in 1..Len(purchases) : purchases[t].number = moves[i].number

(* A movement adds to what came in or went out under its number. *)
LEMMA MovedAppended ==
    ASSUME moves \in Seq(Move), NEW m \in Move, moves' = Append(moves, m), NEW n, NEW u
    PROVE  /\ CameIn(moves', n, u) = CameIn(moves, n, u) + InFigure(n, u)[m]
           /\ WentOut(moves', n, u) = WentOut(moves, n, u) + OutFigure(n, u)[m]
  <1>1. /\ OutFigure(n, u) \in [Move -> Int] /\ InFigure(n, u) \in [Move -> Int]
    BY FiguresNat
  <1>2. CameIn(moves', n, u) = CameIn(moves, n, u) + InFigure(n, u)[m]
    BY <1>1, RowSumAppend DEF CameIn
  <1>3. WentOut(moves', n, u) = WentOut(moves, n, u) + OutFigure(n, u)[m]
    BY <1>1, RowSumAppend DEF WentOut
  <1> QED BY <1>2, <1>3

(* The movement by which an annulment takes a line out. *)
LEMMA OutMove ==
    ASSUME Sound, NEW r \in Request, OutInsert(r)
    PROVE  \E m \in Move, line \in Line :
              /\ line = NextOut(req[r]) /\ line.qty \in Nat \ {0}
              /\ m.product = line.product /\ m.delta = 0 - line.qty
              /\ req[r].purchase \in 1..Len(purchases) /\ Numbered(req[r].purchase)
              /\ m.number = purchases[req[r].purchase].number
              /\ First(req[r].lines) \in req[r].lines
              /\ First(req[r].lines) \in 1..Len(purchases[req[r].purchase].lines)
              /\ line = purchases[req[r].purchase].lines[First(req[r].lines)]
              /\ moves' = Append(moves, m)
  <1>1. PICK q : q = req[r]
    OBVIOUS
  <1>2. q.step = "out" /\ Holds(q, purchases, payments, costs)
    BY <1>1 DEF OutInsert, Sound
  <1>3. q.lines # {}
    BY <1>2 DEF Holds
  <1>4. PICK p, i : p = q.purchase /\ i = First(q.lines)
    OBVIOUS
  <1>5. /\ p \in 1..Len(purchases) /\ Numbered(p) /\ purchases[p].number \in Number
        /\ i \in q.lines /\ i \in 1..Len(purchases[p].lines)
        /\ NextOut(q) = purchases[p].lines[i]
        /\ NextOut(q).product \in Tracked /\ NextOut(q).qty \in Nat \ {0}
    BY <1>1, <1>2, <1>3, <1>4, NextOutSound
  <1>6. PICK line : line = NextOut(q)
    OBVIOUS
  <1>7. line \in Line
    <2>1. purchases[p] \in Purchase
      BY <1>5, ElementOfSeq DEF Sound, TypeOK
    <2>2. purchases[p].lines \in Seq(Line)
      BY <2>1 DEF Purchase
    <2> QED BY <1>5, <1>6, <2>2, ElementOfSeq
  <1>8. PICK m : m = [product |-> line.product, delta |-> -line.qty, number |-> purchases[p].number]
    OBVIOUS
  <1>9. m.product = line.product /\ m.delta = 0 - line.qty /\ m.number = purchases[p].number
    BY <1>5, <1>6, <1>8
  <1>10. m \in Move
    BY <1>5, <1>6, <1>8 DEF Move
  <1>11. moves' = Append(moves, m)
    BY <1>1, <1>4, <1>6, <1>8 DEF OutInsert
  <1> QED BY <1>1, <1>4, <1>5, <1>6, <1>7, <1>9, <1>10, <1>11

(* What an annulment's movement changes. *)
LEMMA MovedOut ==
    ASSUME Sound, NEW r \in Request, OutInsert(r), NEW n, NEW u
    PROVE  /\ CameIn(moves', n, u) = CameIn(moves, n, u)
           /\ WentOut(moves', n, u) = WentOut(moves, n, u)
                  + (IF n = purchases[req[r].purchase].number THEN UnitsOf(u)[NextOut(req[r])] ELSE 0)
  <1>1. PICK m \in Move, line \in Line :
              /\ line = NextOut(req[r]) /\ line.qty \in Nat \ {0}
              /\ m.product = line.product /\ m.delta = 0 - line.qty
              /\ m.number = purchases[req[r].purchase].number
              /\ moves' = Append(moves, m)
    BY OutMove
  <1>2. moves \in Seq(Move)
    BY DEF Sound, TypeOK
  <1>3. CameIn(moves, n, u) \in Nat /\ WentOut(moves, n, u) \in Nat
    BY <1>2, FiguresNat
  <1>4. m.delta < 0 /\ 0 - m.delta = line.qty
    BY <1>1
  <1>5. InFigure(n, u)[m] = 0
    BY <1>4 DEF InFigure
  <1>6. OutFigure(n, u)[m] = IF n = m.number /\ line.product = u THEN line.qty ELSE 0
    BY <1>1, <1>4 DEF OutFigure
  <1>7. UnitsOf(u)[line] = IF line.product = u THEN line.qty ELSE 0
    BY DEF UnitsOf
  <1>8. OutFigure(n, u)[m] = IF n = m.number THEN UnitsOf(u)[line] ELSE 0
    BY <1>6, <1>7
  <1>9. CameIn(moves', n, u) = CameIn(moves, n, u) + 0
    BY <1>1, <1>2, <1>5, MovedAppended
  <1>10. WentOut(moves', n, u) = WentOut(moves, n, u) + (IF n = m.number THEN UnitsOf(u)[line] ELSE 0)
    BY <1>1, <1>2, <1>8, MovedAppended
  <1> QED BY <1>1, <1>3, <1>9, <1>10

(* A movement by hand is of no document. *)
LEMMA HandMove ==
    ASSUME Sound, NEW r \in Request, MoveInsert(r)
    PROVE  \E m \in Move : m.number = NoNumber /\ moves' = Append(moves, m)
  <1>1. req[r].step = "move"
    BY DEF MoveInsert
  <1>2. req[r].product \in Tracked /\ req[r].delta \in Int
    BY <1>1, RequestShape DEF Sound
  <1>3. PICK m : m = [product |-> req[r].product, delta |-> req[r].delta, number |-> NoNumber]
    OBVIOUS
  <1>4. m \in Move /\ m.number = NoNumber
    BY <1>2, <1>3 DEF Move, Number
  <1> QED BY <1>3, <1>4 DEF MoveInsert

LEMMA MovedByHand ==
    ASSUME Sound, NEW r \in Request, MoveInsert(r), NEW n, n # NoNumber, NEW u
    PROVE  CameIn(moves', n, u) = CameIn(moves, n, u) /\ WentOut(moves', n, u) = WentOut(moves, n, u)
  <1>1. PICK m \in Move : m.number = NoNumber /\ moves' = Append(moves, m)
    BY HandMove
  <1>2. moves \in Seq(Move)
    BY DEF Sound, TypeOK
  <1>3. CameIn(moves, n, u) \in Nat /\ WentOut(moves, n, u) \in Nat
    BY <1>2, FiguresNat
  <1>4. InFigure(n, u)[m] = 0 /\ OutFigure(n, u)[m] = 0
    BY <1>1 DEF InFigure, OutFigure
  <1>5. /\ CameIn(moves', n, u) = CameIn(moves, n, u) + 0
        /\ WentOut(moves', n, u) = WentOut(moves, n, u) + 0
    BY <1>1, <1>2, <1>4, MovedAppended
  <1> QED BY <1>3, <1>5

(* Nothing has moved under a number no purchase has. *)
LEMMA MovedUnknown ==
    ASSUME Sound, MovesKnown, NEW number, number # NoNumber,
           \A t \in 1..Len(purchases) : purchases[t].number # number, NEW u
    PROVE  CameIn(moves, number, u) = 0 /\ WentOut(moves, number, u) = 0
  <1>1. moves \in Seq(Move)
    BY DEF Sound, TypeOK
  <1>2. \A i \in 1..Len(moves) : /\ InFigure(number, u)[moves[i]] = 0
                                 /\ OutFigure(number, u)[moves[i]] = 0
    <2> SUFFICES ASSUME NEW i \in 1..Len(moves)
                 PROVE  /\ InFigure(number, u)[moves[i]] = 0
                        /\ OutFigure(number, u)[moves[i]] = 0
      OBVIOUS
    <2>1. PICK m \in Move : m = moves[i]
      BY <1>1, ElementOfSeq
    <2>2. moves[i].number # number
      BY DEF MovesKnown
    <2> QED BY <2>1, <2>2 DEF InFigure, OutFigure
  <1> QED BY <1>1, <1>2, RowSumZero DEF CameIn, WentOut

(* Every step moves under the number of a purchase, or by hand. *)
LEMMA MovesKnownStep ==
    ASSUME Sound, Sound', Held, Document!NumbersInOrder, MovesKnown, [Next]_vars
    PROVE  MovesKnown'
  <1>1. moves \in Seq(Move) /\ Len(moves) \in Nat
    BY LenProperties DEF Sound, TypeOK
  <1>2. ASSUME NEW r \in Request, ConfirmUnit(r) PROVE MovesKnown'
    <2>1. PICK p, number : Confirms(p, number)
      BY <1>2, ConfirmsRead
    <2>2. /\ p \in 1..Len(purchases) /\ purchases[p].lines \in Seq(Line)
          /\ Len(purchases') = Len(purchases) /\ purchases'[p].number = number
          /\ ~ Numbered(p) /\ number \in Number
          /\ \A t \in 1..Len(purchases) : t # p => purchases'[t] = purchases[t]
          /\ ReceiveLines(purchases[p].lines, number)
      <3>1. /\ p \in 1..Len(purchases) /\ purchases[p].lines \in Seq(Line)
            /\ Len(purchases') = Len(purchases) /\ purchases'[p].number = number
            /\ \A t \in 1..Len(purchases) : t # p => purchases'[t] = purchases[t]
        BY <2>1, ConfirmedTable
      <3>2. ~ Numbered(p) /\ number \in Number /\ ReceiveLines(purchases[p].lines, number)
        BY <2>1 DEF Confirms
      <3> QED BY <3>1, <3>2
    <2>3. PICK lines \in Seq(Line) : ReceiveLines(lines, number)
      BY <2>2
    <2>4. PICK new \in Seq(Move) :
              moves' = moves \o new /\ \A i \in 1..Len(new) : new[i].number = number
      <3>1. number \in Number
        BY <2>2
      <3>2. \E new \in Seq(Move) :
              /\ moves' = moves \o new
              /\ \A i \in 1..Len(new) : new[i].number = number
              /\ \A n, u : WentOut(new, n, u) = 0
              /\ \A u \in Tracked : CameIn(new, number, u) = BoughtOf(lines, u)
        BY <2>3, <3>1, ReceivedUnits
      <3> QED BY <3>2
    <2>5. /\ Len(moves') = Len(moves) + Len(new) /\ Len(new) \in Nat
          /\ \A i \in 1..Len(moves) : moves'[i] = moves[i]
          /\ \A i \in 1..Len(new) : moves'[Len(moves) + i] = new[i]
          /\ \A i \in 1..Len(moves') :
                i \in 1..Len(moves) \/ \E k \in 1..Len(new) : i = Len(moves) + k
      BY <1>1, <2>4, RowsConcatenated
    <2>6. ASSUME NEW i \in 1..Len(moves'), moves'[i].number # NoNumber
          PROVE  \E t \in 1..Len(purchases') : purchases'[t].number = moves'[i].number
      <3>1. CASE i \in 1..Len(moves)
        <4>1. PICK t \in 1..Len(purchases) : purchases[t].number = moves'[i].number
          BY <2>5, <2>6, <3>1 DEF MovesKnown
        <4>2. t # p
          BY <2>2, <2>6, <4>1 DEF Numbered
        <4> QED BY <2>2, <4>1, <4>2
      <3>2. CASE i \notin 1..Len(moves)
        <4>1. PICK k \in 1..Len(new) : i = Len(moves) + k
          BY <2>5, <3>2
        <4>2. moves'[i].number = number
          BY <2>4, <2>5, <4>1
        <4> QED BY <2>2, <4>2
      <3> QED BY <3>1, <3>2
    <2> QED BY <2>6 DEF MovesKnown
  <1>3. ASSUME PurchasesQuiet,
               \/ UNCHANGED moves
               \/ \E m \in Move : /\ moves' = Append(moves, m)
                                  /\ \/ m.number = NoNumber
                                     \/ \E t \in 1..Len(purchases) : purchases[t].number = m.number
        PROVE  MovesKnown'
    <2>1. \A t \in 1..Len(purchases) :
              t \in 1..Len(purchases') /\ purchases'[t].number = purchases[t].number
      <3>1. Len(purchases) \in Nat
        BY LenProperties DEF Sound, TypeOK
      <3> QED BY <1>3, <3>1 DEF PurchasesQuiet
    <2>2. CASE UNCHANGED moves
      BY <2>1, <2>2 DEF MovesKnown
    <2>3. ASSUME NEW m \in Move, moves' = Append(moves, m),
                 m.number = NoNumber \/ \E t \in 1..Len(purchases) : purchases[t].number = m.number
          PROVE  MovesKnown'
      <3>1. \A i \in 1..Len(moves') : (i \in 1..Len(moves) /\ moves'[i] = moves[i]) \/ moves'[i] = m
        BY <1>1, <2>3
      <3> QED BY <2>1, <2>3, <3>1 DEF MovesKnown
    <2> QED BY <1>3, <2>2, <2>3
  <1>4. ASSUME NEW r \in Request, OutInsert(r)
        PROVE  \E m \in Move : /\ moves' = Append(moves, m)
                               /\ \E t \in 1..Len(purchases) : purchases[t].number = m.number
    BY <1>4, OutMove
  <1>5. TableStep
    BY StepOnTable DEF Sound
  <1> QED BY <1>2, <1>3, <1>4, <1>5, ConfirmsOrNot, QuietTable, HandMove

(* What ReceivedAsBought says after a step, in figures. *)
LEMMA ReceivedAfter ==
    ASSUME Sound, Sound',
           \A t \in 1..Len(purchases') : \A u \in Tracked : purchases'[t].number # NoNumber =>
               CameIn(moves', purchases'[t].number, u) = BoughtOf(purchases'[t].lines, u)
    PROVE  ReceivedAsBought'
  <1>1. PICK now : now = purchases'
    OBVIOUS
  <1>2. ASSUME NEW t \in 1..Len(now), NEW u \in Tracked, now[t].number # NoNumber
        PROVE  MovedBy(now[t].number, u, FALSE)' = BoughtOf(now[t].lines, u)
    <2>1. PICK n : n = now[t].number
      OBVIOUS
    <2>2. CameIn(moves', n, u) = BoughtOf(now[t].lines, u)
      BY <1>1, <1>2, <2>1
    <2>3. MovedBy(n, u, FALSE)' = CameIn(moves', n, u)
      BY MovedNow
    <2> QED BY <2>1, <2>2, <2>3
  <1> QED BY <1>1, <1>2 DEF ReceivedAsBought, Numbered, MovedBy, Bought, BoughtOf

(* The same before it. *)
LEMMA ReceivedBefore ==
    ASSUME Sound, ReceivedAsBought, NEW t \in 1..Len(purchases), Numbered(t), NEW u \in Tracked
    PROVE  CameIn(moves, purchases[t].number, u) = BoughtOf(purchases[t].lines, u)
  <1>1. PICK n : n = purchases[t].number
    OBVIOUS
  <1>2. MovedBy(n, u, FALSE) = BoughtOf(purchases[t].lines, u)
    BY <1>1 DEF ReceivedAsBought, Bought, BoughtOf
  <1>3. MovedBy(n, u, FALSE) = CameIn(moves, n, u)
    <2>1. moves \in Seq(Move)
      BY DEF Sound, TypeOK
    <2> QED BY <2>1, MovedIsSum DEF MovedBy, MovedIn
  <1> QED BY <1>1, <1>2, <1>3

(* After a confirm the new purchase has received its lines, the others     *)
(* what they had.                                                          *)
LEMMA ReceivedByConfirm ==
    ASSUME Sound, Sound', MovesKnown, ReceivedAsBought, NEW p, NEW number, Confirms(p, number)
    PROVE  ReceivedAsBought'
  <1>1. moves \in Seq(Move)
    BY DEF Sound, TypeOK
  <1>2. PICK lines \in Seq(Line) : lines = purchases[p].lines
    BY ConfirmedTable
  <1>3. /\ p \in 1..Len(purchases) /\ Len(purchases') = Len(purchases)
        /\ purchases'[p].number = number /\ purchases'[p].lines = lines
        /\ \A t \in 1..Len(purchases) : t # p => purchases'[t] = purchases[t]
    BY <1>2, ConfirmedTable
  <1> SUFFICES ASSUME NEW t \in 1..Len(purchases), NEW u \in Tracked, purchases'[t].number # NoNumber
               PROVE  CameIn(moves', purchases'[t].number, u) = BoughtOf(purchases'[t].lines, u)
    BY <1>3, ReceivedAfter
  <1>4. number \in Number /\ number # NoNumber /\ ReceiveLines(lines, number)
        /\ \A k \in 1..Len(purchases) : purchases[k].number # number
    BY <1>2 DEF Confirms
  <1>5. CASE t = p
    <2>1. CameIn(moves, number, u) = 0
      BY <1>4, MovedUnknown
    <2>2. BoughtOf(lines, u) \in Nat
      BY BoughtIsSum
    <2>3. CameIn(moves', number, u) = CameIn(moves, number, u) + BoughtOf(lines, u)
      BY <1>1, <1>4, MovedReceived
    <2> QED BY <1>3, <1>5, <2>1, <2>2, <2>3
  <1>6. CASE t # p
    <2>1. PICK n : n = purchases[t].number
      OBVIOUS
    <2>2. purchases'[t] = purchases[t] /\ n # number /\ n # NoNumber
      BY <1>3, <1>4, <1>6, <2>1
    <2>3. CameIn(moves', n, u) = CameIn(moves, n, u)
      <3>1. CameIn(moves', n, u) = CameIn(moves, n, u) + 0
        BY <1>1, <1>4, <2>2, MovedReceived
      <3>2. CameIn(moves, n, u) \in Nat
        BY <1>1, FiguresNat
      <3> QED BY <3>1, <3>2
    <2>4. CameIn(moves, n, u) = BoughtOf(purchases[t].lines, u)
      BY <2>1, <2>2, ReceivedBefore DEF Numbered
    <2> QED BY <2>1, <2>2, <2>3, <2>4
  <1> QED BY <1>5, <1>6

(* Other steps bring nothing in under a number. *)
LEMMA ReceivedOtherwise ==
    ASSUME Sound, Sound', ReceivedAsBought, PurchasesQuiet,
           UNCHANGED moves \/ \E r \in Request : OutInsert(r) \/ MoveInsert(r)
    PROVE  ReceivedAsBought'
  <1>1. ASSUME NEW n, n # NoNumber, NEW u PROVE CameIn(moves', n, u) = CameIn(moves, n, u)
    <2>1. CASE UNCHANGED moves
      BY <2>1
    <2> QED BY <1>1, <2>1, MovedOut, MovedByHand
  <1>2. ASSUME NEW t \in 1..Len(purchases'), NEW u \in Tracked, purchases'[t].number # NoNumber
        PROVE  CameIn(moves', purchases'[t].number, u) = BoughtOf(purchases'[t].lines, u)
    <2>1. /\ t \in 1..Len(purchases) /\ Numbered(t)
          /\ purchases'[t].number = purchases[t].number /\ purchases'[t].lines = purchases[t].lines
      BY <1>2 DEF PurchasesQuiet, Numbered
    <2>2. CameIn(moves, purchases[t].number, u) = BoughtOf(purchases[t].lines, u)
      BY <2>1, ReceivedBefore
    <2> QED BY <1>1, <1>2, <2>1, <2>2
  <1> QED BY <1>2, ReceivedAfter

LEMMA AlwaysMovesKnown == OneAtATime => (Spec => []MovesKnown)
  <1>1. Init => MovesKnown
    BY DEF Init, MovesKnown
  <1>2. Sound /\ Sound' /\ Held /\ Document!NumbersInOrder /\ MovesKnown /\ [Next]_vars => MovesKnown'
    BY MovesKnownStep
  <1>3. CASE OneAtATime
    <2>1. Spec => [](Alone /\ Held)
      BY <1>3, AlwaysHeld
    <2> QED BY <1>1, <1>2, <2>1, AlwaysSound, PurchaseNumbersDense, PTL DEF Spec
  <1> QED BY <1>3

(* Where requests are served one at a time, a confirmed or annulled        *)
(* purchase has brought in exactly the units of its lines: the unit posts  *)
(* the lines that were read for it, and they are still those of the        *)
(* document; an annulment, also one refused half way, only takes out.      *)
THEOREM PurchaseReceivedAsBought == OneAtATime => (Spec => []ReceivedAsBought)
  <1>1. Init => ReceivedAsBought
    BY DEF Init, ReceivedAsBought
  <1>2. Sound /\ Sound' /\ Held /\ Document!NumbersInOrder /\ MovesKnown /\ ReceivedAsBought /\ [Next]_vars
            => ReceivedAsBought'
    <2> SUFFICES ASSUME Sound, Sound', Held, Document!NumbersInOrder, MovesKnown, ReceivedAsBought,
                        [Next]_vars
                 PROVE  ReceivedAsBought'
      OBVIOUS
    <2>1. ASSUME NEW r \in Request, ConfirmUnit(r) PROVE ReceivedAsBought'
      BY <2>1, ConfirmsRead, ReceivedByConfirm
    <2>2. ASSUME UNCHANGED lastNumber,
                 UNCHANGED moves \/ \E r \in Request : OutInsert(r) \/ MoveInsert(r)
          PROVE  ReceivedAsBought'
      <3>1. TableStep
        BY StepOnTable DEF Sound
      <3> QED BY <2>2, <3>1, QuietTable, ReceivedOtherwise
    <2> QED BY <2>1, <2>2, ConfirmsOrNot
  <1>3. CASE OneAtATime
    <2>1. Spec => [](Alone /\ Held)
      BY <1>3, AlwaysHeld
    <2>2. Spec => []MovesKnown
      BY <1>3, AlwaysMovesKnown
    <2> QED BY <1>1, <1>2, <2>1, <2>2, AlwaysSound, PurchaseNumbersDense, PTL DEF Spec
  <1> QED BY <1>3

-----------------------------------------------------------------------------
(* What an annulled purchase keeps.                                        *)

\* Of what p bought, all but the lines in left has gone out again.
Gone(p, left) ==
    \A u \in Tracked :
        BoughtOf(purchases[p].lines, u) <=
            WentOut(moves, purchases[p].number, u) + PickedSum(UnitsOf(u), purchases[p].lines, left)

\* Of the payments of p, all but those in left are refunded.
Refunded(p, left) ==
    \A i \in 1..Len(payments) : payments[i].purchase = p /\ payments[i].refund = 0 => i \in left

\* An annulment under way is to do what is not done yet.
Progress(q) == q.step \in Cancelling => Gone(q.purchase, q.lines) /\ Refunded(q.purchase, q.pays)

Reversed ==
    /\ \A p \in 1..Len(purchases) : purchases[p].status = "Cancelled" /\ Numbered(p) =>
           Gone(p, {}) /\ Refunded(p, {})
    /\ \A r \in Request : Progress(req[r])

(* What goes out under a number only grows. *)
LEMMA OutsGrow ==
    ASSUME Sound, Sound', Held, Document!NumbersInOrder, [Next]_vars,
           NEW n, n # NoNumber, NEW u \in Tracked
    PROVE  WentOut(moves, n, u) <= WentOut(moves', n, u)
  <1>1. moves \in Seq(Move) /\ WentOut(moves, n, u) \in Nat
    <2>1. moves \in Seq(Move)
      BY DEF Sound, TypeOK
    <2> QED BY <2>1, FiguresNat
  <1>2. ASSUME NEW r \in Request, ConfirmUnit(r) PROVE WentOut(moves', n, u) = WentOut(moves, n, u)
    <2>1. PICK p, number : Confirms(p, number)
      BY <1>2, ConfirmsRead
    <2>2. PICK lines \in Seq(Line) : lines = purchases[p].lines
      BY <2>1, ConfirmedTable
    <2>3. ReceiveLines(lines, number) /\ number \in Number
      BY <2>1, <2>2 DEF Confirms
    <2> QED BY <1>1, <2>3, MovedReceived
  <1>3. ASSUME NEW r \in Request, OutInsert(r) PROVE WentOut(moves, n, u) <= WentOut(moves', n, u)
    <2>1. PICK line \in Line : line = NextOut(req[r])
      BY <1>3, OutMove
    <2>2. PICK k \in Nat : k = UnitsOf(u)[line]
      <3>1. UnitsOf(u) \in [Line -> Nat]
        BY BoughtIsSum, EmptySeq
      <3> QED BY <3>1
    <2>3. WentOut(moves', n, u) = WentOut(moves, n, u)
              + (IF n = purchases[req[r].purchase].number THEN k ELSE 0)
      BY <1>3, <2>1, <2>2, MovedOut
    <2> QED BY <1>1, <2>3
  <1>4. ASSUME NEW r \in Request, MoveInsert(r) PROVE WentOut(moves', n, u) = WentOut(moves, n, u)
    BY <1>4, MovedByHand
  <1>5. UNCHANGED moves => WentOut(moves', n, u) = WentOut(moves, n, u)
    OBVIOUS
  <1> QED BY <1>1, <1>2, <1>3, <1>4, <1>5, ConfirmsOrNot

(* A payment without a refund is an old one, or of a confirmed purchase. *)
LEMMA OpenPayments ==
    ASSUME Sound, Sound', Held, Document!NumbersInOrder, [Next]_vars,
           NEW i \in 1..Len(payments'), payments'[i].refund = 0
    PROVE  \/ /\ i \in 1..Len(payments) /\ payments[i].refund = 0
              /\ payments'[i].purchase = payments[i].purchase
           \/ purchases'[payments'[i].purchase].status = "Confirmed"
  <1>1. payments \in Seq(Payment) /\ Len(payments) \in Nat
    BY LenProperties DEF Sound, TypeOK
  <1>2. CASE UNCHANGED payments
    BY <1>2
  <1>3. ASSUME NEW pay \in Payment, payments' = Append(payments, pay),
               purchases'[pay.purchase].status = "Confirmed"
        PROVE  \/ /\ i \in 1..Len(payments) /\ payments[i].refund = 0
                  /\ payments'[i].purchase = payments[i].purchase
               \/ purchases'[payments'[i].purchase].status = "Confirmed"
    <2>1. (i \in 1..Len(payments) /\ payments'[i] = payments[i]) \/ payments'[i] = pay
      BY <1>1, <1>3
    <2> QED BY <1>3, <2>1
  <1>4. ASSUME NEW r \in Request, ConfirmUnit(r)
        PROVE  \/ UNCHANGED payments
               \/ \E pay \in Payment : /\ payments' = Append(payments, pay)
                                       /\ purchases'[pay.purchase].status = "Confirmed"
    <2>1. PICK p, number : Confirms(p, number)
      BY <1>4, ConfirmsRead
    <2>2. purchases'[p].status = "Confirmed"
      BY <2>1, ConfirmedTable
    <2>3. \/ UNCHANGED payments
          \/ \E pay \in Payment : pay.purchase = p /\ payments' = Append(payments, pay)
      BY <2>1 DEF Confirms
    <2> QED BY <2>2, <2>3
  <1>5. ASSUME NEW r \in Request, PayLink(r)
        PROVE  \E pay \in Payment : /\ payments' = Append(payments, pay)
                                    /\ purchases'[pay.purchase].status = "Confirmed"
    <2>1. PICK next : next = NextPaid(req[r].plan)
      OBVIOUS
    <2>2. PICK pay \in Payment : pay.purchase = next.purchase /\ payments' = Append(payments, pay)
      BY <1>5, <2>1, PayLinked
    <2>3. req[r].step \in Planning /\ UNCHANGED purchases
      BY <1>5 DEF PayLink, Planning
    <2>4. next \in req[r].plan
      BY <2>1, <2>3, NextPaidSound
    <2>5. purchases[next.purchase].status = "Confirmed"
      BY <2>3, <2>4 DEF Held, Stands
    <2> QED BY <2>2, <2>3, <2>5
  <1>6. ASSUME NEW r \in Request, RefundLink(r)
        PROVE  /\ i \in 1..Len(payments) /\ payments[i].refund = 0
               /\ payments'[i].purchase = payments[i].purchase
    <2>1. PICK j \in 1..Len(payments), pay \in Payment :
              pay.refund # 0 /\ payments' = [payments EXCEPT ![j] = pay]
      BY <1>6, RefundLinked
    <2>2. /\ Len(payments') = Len(payments) /\ payments'[j] = pay
          /\ \A k \in 1..Len(payments) : k # j => payments'[k] = payments[k]
      BY <1>1, <2>1, ExceptSeq
    <2> QED BY <2>1, <2>2
  <1> QED BY <1>2, <1>3, <1>4, <1>5, <1>6, ConfirmsOrNot

(* Only the end of an annulment cancels a numbered purchase. *)
LEMMA NewlyCancelled ==
    ASSUME Sound, Held, Document!NumbersInOrder, [Next]_vars,
           NEW p \in 1..Len(purchases'), purchases'[p].status = "Cancelled",
           purchases'[p].number # NoNumber, ~ \E r \in Request : CancelClose(r)
    PROVE  /\ p \in 1..Len(purchases) /\ Numbered(p) /\ purchases[p].status = "Cancelled"
           /\ purchases'[p].number = purchases[p].number /\ purchases'[p].lines = purchases[p].lines
  <1>1. purchases \in Seq(Purchase) /\ Typed /\ Len(purchases) \in Nat
    BY LenProperties DEF Sound, TypeOK
  <1>2. ASSUME NEW k \in 1..Len(purchases), NEW x, purchases' = [purchases EXCEPT ![k] = x],
               x.status # "Cancelled" \/ purchases[k].status = "Cancelled" \/ x.number = NoNumber
        PROVE  p \in 1..Len(purchases) /\ purchases[p].status = "Cancelled"
    <2>1. /\ Len(purchases') = Len(purchases) /\ purchases'[k] = x
          /\ \A t \in 1..Len(purchases) : t # k => purchases'[t] = purchases[t]
      BY <1>1, <1>2
    <2> QED BY <1>2, <2>1
  <1>3. ASSUME NEW r \in Request, ConfirmUnit(r)
        PROVE  /\ p \in 1..Len(purchases) /\ Numbered(p) /\ purchases[p].status = "Cancelled"
               /\ purchases'[p].number = purchases[p].number
               /\ purchases'[p].lines = purchases[p].lines
    <2>1. PICK t, number : Confirms(t, number)
      BY <1>3, ConfirmsRead
    <2>2. /\ Len(purchases') = Len(purchases) /\ purchases'[t].status = "Confirmed"
          /\ \A k \in 1..Len(purchases) : k # t => purchases'[k] = purchases[k]
      BY <2>1, ConfirmedTable
    <2> QED BY <2>2 DEF Numbered
  <1>4. ASSUME Drafting PROVE purchases[p].status = "Cancelled" /\ p \in 1..Len(purchases)
    <2>1. ASSUME NEW header, CreateDraft(header) PROVE purchases[p].status = "Cancelled" /\ p \in 1..Len(purchases)
      <3>1. PICK x : x.status = "Draft" /\ purchases' = Append(purchases, x)
        <4>1. PICK x : x = [status |-> "Draft", number |-> NoNumber, header |-> header, lines |-> <<>>]
          OBVIOUS
        <4> QED BY <2>1, <4>1 DEF CreateDraft
      <3> QED BY <1>1, <3>1
    <2>2. ASSUME NEW k \in 1..Len(purchases), NEW lines, EditLines(k, lines)
          PROVE  purchases[p].status = "Cancelled" /\ p \in 1..Len(purchases)
      <3>1. PICK old \in Purchase : old = purchases[k]
        BY <1>1, ElementOfSeq
      <3>2. PICK x : x = [old EXCEPT !.lines = lines]
        OBVIOUS
      <3>3. x.status = old.status /\ old.status = "Draft" /\ purchases' = [purchases EXCEPT ![k] = x]
        BY <2>2, <3>1, <3>2 DEF EditLines, Rewrite, Is, Purchase
      <3> QED BY <1>2, <3>3
    <2>3. ASSUME NEW k \in 1..Len(purchases), DeleteDraft(k)
          PROVE  purchases[p].status = "Cancelled" /\ p \in 1..Len(purchases)
      <3>1. PICK old \in Purchase : old = purchases[k]
        BY <1>1, ElementOfSeq
      <3>2. PICK x : x = [old EXCEPT !.status = "deleted", !.lines = <<>>]
        OBVIOUS
      <3>3. x.status = "deleted" /\ purchases' = [purchases EXCEPT ![k] = x]
        BY <2>3, <3>1, <3>2 DEF DeleteDraft, Rewrite, Purchase
      <3> QED BY <1>2, <3>3
    <2> QED BY <1>4, <2>1, <2>2, <2>3 DEF Drafting, AddLine, UpdateLine, RemoveLine
  <1>5. ASSUME NEW r \in Request, HeaderWrite(r)
        PROVE  purchases[p].status = "Cancelled" /\ p \in 1..Len(purchases)
    <2>1. PICK k, old : k = req[r].purchase /\ old = purchases[k]
      OBVIOUS
    <2>2. k \in 1..Len(purchases)
      BY <1>1, <1>5, <2>1 DEF HeaderWrite, Typed, Relies
    <2>3. old \in Purchase
      BY <1>1, <2>1, <2>2, ElementOfSeq
    <2>4. PICK x : x = [old EXCEPT !.header = req[r].header]
      OBVIOUS
    <2>5. x.status = old.status /\ purchases' = [purchases EXCEPT ![k] = x]
      BY <1>5, <2>1, <2>3, <2>4 DEF HeaderWrite, Rewrite, Purchase
    <2> QED BY <1>2, <2>1, <2>2, <2>5
  <1>6. ASSUME NEW r \in Request, Discard(r)
        PROVE  purchases[p].status = "Cancelled" /\ p \in 1..Len(purchases)
    <2>1. PICK k, old : k = req[r].purchase /\ old = purchases[k]
      OBVIOUS
    <2>2. k \in 1..Len(purchases) /\ old.status = "Draft"
      BY <1>1, <1>6, <2>1 DEF Discard, Typed, Relies, Held, Stands
    <2>3. old \in Purchase
      BY <1>1, <2>1, <2>2, ElementOfSeq
    <2>4. PICK x : x = [old EXCEPT !.status = "Cancelled"]
      OBVIOUS
    <2>5. x.number = old.number /\ old.number = NoNumber /\ purchases' = [purchases EXCEPT ![k] = x]
      BY <1>1, <1>6, <2>1, <2>2, <2>3, <2>4 DEF Discard, Close, Rewrite, Purchase, Typed
    <2> QED BY <1>2, <2>2, <2>5
  <1>7. UNCHANGED purchases => purchases[p].status = "Cancelled" /\ p \in 1..Len(purchases)
    OBVIOUS
  <1>8. \/ \E r \in Request : ConfirmUnit(r)
        \/ purchases[p].status = "Cancelled" /\ p \in 1..Len(purchases) /\ UNCHANGED lastNumber
    <2>1. \A r \in Request : Starts(r) \/ Quit(r) => UNCHANGED <<purchases, lastNumber>>
      BY FirstWritesNothing
    <2>2. ASSUME NEW r \in Request, Works(r)
          PROVE  \/ HeaderWrite(r) \/ Discard(r) \/ CancelClose(r) \/ ConfirmUnit(r)
                 \/ UNCHANGED purchases
      BY <2>2 DEF Works, PayCheck, PayPost, PayLink, OutCheck, OutInsert, RefundPost, RefundLink,
                  CostWrite, MoveInsert, Unwritten
    <2>3. UNCHANGED vars => UNCHANGED <<purchases, lastNumber>>
      BY DEF vars
    <2> QED BY <1>4, <1>5, <1>6, <1>7, <2>1, <2>2, <2>3, ConfirmsOrNot DEF Next
  <1>9. ASSUME p \in 1..Len(purchases), UNCHANGED lastNumber
        PROVE  /\ Numbered(p) /\ purchases'[p].number = purchases[p].number
               /\ purchases'[p].lines = purchases[p].lines
    <2>1. PurchasesQuiet
      BY <1>1, <1>9, StepOnTable, QuietTable
    <2> QED BY <1>9, <2>1 DEF PurchasesQuiet, Numbered
  <1> QED BY <1>3, <1>8, <1>9

-----------------------------------------------------------------------------
(* What has gone out again stays out. *)
LEMMA GoneStays ==
    ASSUME Sound, Sound', Held, Document!NumbersInOrder, [Next]_vars,
           NEW p \in 1..Len(purchases), Numbered(p), NEW left, Gone(p, left)
    PROVE  Gone(p, left)'
  <1>1. RecordsKept
    BY StepOnTable, TableFrozen DEF Sound
  <1>2. purchases'[p].number = purchases[p].number /\ purchases'[p].lines = purchases[p].lines
    BY <1>1 DEF RecordsKept
  <1>3. PICK n, lines : n = purchases[p].number /\ lines = purchases[p].lines /\ n # NoNumber
    BY DEF Numbered
  <1>4. lines \in Seq(Line) /\ moves \in Seq(Move) /\ moves' \in Seq(Move)
    <2>1. lines \in Seq(Line)
      BY <1>3, RowsTyped DEF Sound
    <2>2. moves \in Seq(Move) /\ moves' \in Seq(Move)
      BY DEF Sound, TypeOK
    <2> QED BY <2>1, <2>2
  <1>5. ASSUME NEW u \in Tracked
        PROVE  BoughtOf(lines, u) <= WentOut(moves', n, u) + PickedSum(UnitsOf(u), lines, left)
    <2>1. UnitsOf(u) \in [Line -> Nat] /\ BoughtOf(lines, u) \in Nat
      BY <1>4, BoughtIsSum
    <2>2. PickedSum(UnitsOf(u), lines, left) \in Nat
      BY <1>4, <2>1, PickedNat
    <2>3. WentOut(moves, n, u) \in Nat /\ WentOut(moves', n, u) \in Nat
      BY <1>4, FiguresNat
    <2>4. WentOut(moves, n, u) <= WentOut(moves', n, u)
      BY <1>3, OutsGrow
    <2>5. BoughtOf(lines, u) <= WentOut(moves, n, u) + PickedSum(UnitsOf(u), lines, left)
      BY <1>3 DEF Gone
    <2> QED BY <2>1, <2>2, <2>3, <2>4, <2>5
  <1>6. purchases'[p].number = n /\ purchases'[p].lines = lines
    BY <1>2, <1>3
  <1> QED BY <1>5, <1>6 DEF Gone, BoughtOf, WentOut, OutFigure, PickedSum, UnitsOf

(* A purchase that is confirmed no longer gains no payment to refund. *)
LEMMA RefundedStays ==
    ASSUME Sound, Sound', Held, Document!NumbersInOrder, [Next]_vars,
           NEW p \in 1..Len(purchases), purchases'[p].status # "Confirmed" \/ UNCHANGED payments,
           NEW left, Refunded(p, left)
    PROVE  Refunded(p, left)'
  <1> SUFFICES ASSUME NEW i \in 1..Len(payments'), payments'[i].purchase = p, payments'[i].refund = 0
               PROVE  i \in left
    BY DEF Refunded
  <1>1. CASE UNCHANGED payments
    BY <1>1 DEF Refunded
  <1>2. CASE purchases'[p].status # "Confirmed"
    BY <1>2, OpenPayments DEF Refunded
  <1> QED BY <1>1, <1>2

LEMMA ProgressMoves ==
    ASSUME Typed, NEW r \in Request, Sole(r), NEW st, Becomes(r, st), Progress(st)'
    PROVE  \A o \in Request : Progress(req[o])'
  <1> SUFFICES ASSUME NEW o \in Request PROVE Progress(req[o])'
    OBVIOUS
  <1>1. PICK q : q = req'[o]
    OBVIOUS
  <1>2. q = st \/ q = Idle
    BY <1>1 DEF Becomes, Sole, Typed
  <1>3. Progress(Idle)'
    BY DEF Progress, Idle, Cancelling
  <1>4. Progress(q)'
    BY <1>2, <1>3
  <1> QED BY <1>1, <1>4 DEF Progress

(* Lines and payments an annulment has read are all there is to reverse. *)
LEMMA CancelProgress ==
    ASSUME Sound, NEW r \in Request, Sole(r), NEW p \in 1..Len(purchases), CancelRead(r, p)
    PROVE  \A o \in Request : Progress(req[o])'
  <1>1. PICK lines \in Seq(Line) : lines = purchases[p].lines
    BY RowsTyped DEF Sound
  <1>2. PICK ids : ids = {i \in 1..Len(lines) : lines[i].product \in Tracked}
    OBVIOUS
  <1>3. PICK one, other :
            /\ one = [step |-> "discard", purchase |-> p]
            /\ other = [step |-> "reverse", purchase |-> p, pays |-> PaymentsOf(p), lines |-> ids]
    OBVIOUS
  <1>4. UNCHANGED <<purchases, moves, payments>> /\ Typed /\ moves \in Seq(Move)
    BY DEF CancelRead, Unwritten, Sound, TypeOK
  <1>5. Becomes(r, one) \/ (Becomes(r, other) /\ purchases[p].status = "Confirmed")
    BY <1>1, <1>2, <1>3 DEF CancelRead, Is
  <1>6. Progress(one)'
    BY <1>3 DEF Progress, Cancelling
  <1>7. ASSUME purchases[p].status = "Confirmed" PROVE Progress(other)'
    <2>1. /\ other.purchase = p /\ other.pays = PaymentsOf(p) /\ other.lines = ids
      BY <1>3
    <2>2. Refunded(p, PaymentsOf(p))
      BY DEF Refunded, PaymentsOf, IsOf
    <2>3. Gone(p, ids)
      <3> SUFFICES ASSUME NEW u \in Tracked
                   PROVE  BoughtOf(lines, u) <=
                              WentOut(moves, purchases[p].number, u) + PickedSum(UnitsOf(u), lines, ids)
        BY <1>1 DEF Gone
      <3>1. /\ UnitsOf(u) \in [Line -> Nat] /\ BoughtOf(lines, u) \in Nat
            /\ BoughtOf(lines, u) = RowSum(UnitsOf(u), lines)
        BY BoughtIsSum
      <3>2. \A i \in 1..Len(lines) : i \in ids \/ UnitsOf(u)[lines[i]] = 0
        <4> SUFFICES ASSUME NEW i \in 1..Len(lines), i \notin ids PROVE UnitsOf(u)[lines[i]] = 0
          OBVIOUS
        <4>1. lines[i] \in Line /\ lines[i].product # u
          BY <1>2, ElementOfSeq
        <4> QED BY <4>1 DEF UnitsOf
      <3>3. PickedSum(UnitsOf(u), lines, ids) = RowSum(UnitsOf(u), lines)
        BY <3>2, PickedAll
      <3>4. WentOut(moves, purchases[p].number, u) \in Nat
        BY <1>4, FiguresNat
      <3> QED BY <3>1, <3>3, <3>4
    <2>4. Gone(p, ids)'
      BY <1>4, <2>3 DEF Gone
    <2>5. Refunded(p, PaymentsOf(p))
      BY <2>2
    <2>6. PICK pays : pays = PaymentsOf(p) /\ Refunded(p, pays)
      BY <2>5
    <2>7. Refunded(p, pays)'
      BY <1>4, <2>6 DEF Refunded
    <2> QED BY <2>1, <2>4, <2>6, <2>7 DEF Progress
  <1> QED BY <1>4, <1>5, <1>6, <1>7, ProgressMoves

-----------------------------------------------------------------------------
(* One line goes out, and is no longer among those still to go. *)
LEMMA OutProgress ==
    ASSUME Sound, Sound', NEW r \in Request, OutInsert(r),
           NEW p, p = req[r].purchase, NEW ids, ids = req[r].lines, Gone(p, ids)
    PROVE  Gone(p, ids \ {First(ids)})'
  <1>1. PICK lines, n, j :
            /\ lines \in Seq(Line) /\ lines = purchases[p].lines /\ n = purchases[p].number /\ j = First(ids)
            /\ j \in ids /\ j \in 1..Len(lines) /\ NextOut(req[r]) = lines[j]
    <2>1. PICK m \in Move, line \in Line :
              /\ line = NextOut(req[r]) /\ p \in 1..Len(purchases)
              /\ First(ids) \in ids /\ First(ids) \in 1..Len(purchases[p].lines)
              /\ line = purchases[p].lines[First(ids)]
      BY OutMove
    <2>2. purchases[p].lines \in Seq(Line)
      BY <2>1, RowsTyped DEF Sound
    <2> QED BY <2>1, <2>2
  <1>2. UNCHANGED purchases /\ moves \in Seq(Move) /\ moves' \in Seq(Move)
    BY DEF OutInsert, Sound, TypeOK
  <1>3. ASSUME NEW u \in Tracked
        PROVE  BoughtOf(lines, u) <= WentOut(moves', n, u) + PickedSum(UnitsOf(u), lines, ids \ {j})
    <2>1. /\ UnitsOf(u) \in [Line -> Nat] /\ UnitsOf(u) \in [Line -> Int]
          /\ BoughtOf(lines, u) \in Nat
      BY <1>1, BoughtIsSum
    <2>2. lines[j] \in Line
      BY <1>1, ElementOfSeq
    <2>3. PICK k \in Nat : k = UnitsOf(u)[lines[j]]
      BY <2>1, <2>2
    <2>4. PickedSum(UnitsOf(u), lines, ids) = PickedSum(UnitsOf(u), lines, ids \ {j}) + k
      <3>1. SplitAt(UnitsOf(u), lines, ids, j)
        BY <1>1, <2>1, PickedLess
      <3> QED BY <2>3, <3>1 DEF SplitAt
    <2>5. WentOut(moves', n, u) = WentOut(moves, n, u)
              + (IF n = purchases[req[r].purchase].number THEN UnitsOf(u)[NextOut(req[r])] ELSE 0)
      BY MovedOut
    <2>6. WentOut(moves', n, u) = WentOut(moves, n, u) + k
      BY <1>1, <2>3, <2>5
    <2>7. /\ PickedSum(UnitsOf(u), lines, ids) \in Nat
          /\ PickedSum(UnitsOf(u), lines, ids \ {j}) \in Nat
      BY <1>1, <2>1, PickedNat
    <2>8. WentOut(moves, n, u) \in Nat /\ WentOut(moves', n, u) \in Nat
      BY <1>2, FiguresNat
    <2>9. BoughtOf(lines, u) <= WentOut(moves, n, u) + PickedSum(UnitsOf(u), lines, ids)
      BY <1>1 DEF Gone
    <2> QED BY <2>1, <2>4, <2>6, <2>7, <2>8, <2>9
  <1>4. purchases'[p].number = n /\ purchases'[p].lines = lines
    BY <1>1, <1>2
  <1>5. PICK left : left = ids \ {j}
    OBVIOUS
  <1>6. Gone(p, left)'
    <2> SUFFICES ASSUME NEW u \in Tracked
                 PROVE  (BoughtOf(purchases[p].lines, u) <=
                            WentOut(moves, purchases[p].number, u)
                                + PickedSum(UnitsOf(u), purchases[p].lines, left))'
      BY DEF Gone
    <2>1. BoughtOf(purchases[p].lines, u)' = BoughtOf(lines, u)
      BY <1>4 DEF BoughtOf
    <2>2. WentOut(moves, purchases[p].number, u)' = WentOut(moves', n, u)
      BY <1>4 DEF WentOut, OutFigure
    <2>3. PickedSum(UnitsOf(u), purchases[p].lines, left)' = PickedSum(UnitsOf(u), lines, left)
      BY <1>4 DEF PickedSum, UnitsOf
    <2> QED BY <1>3, <1>5, <2>1, <2>2, <2>3
  <1>7. left = ids \ {First(ids)}
    BY <1>1, <1>5
  <1> QED BY <1>6, <1>7 DEF Gone

(* One payment is linked to its refund, and is no longer among those to refund. *)
LEMMA RefundProgress ==
    ASSUME Sound, NEW r \in Request, RefundLink(r), NEW p, NEW ids, ids = req[r].pays,
           Refunded(p, ids)
    PROVE  Refunded(p, ids \ {First(ids)})'
  <1>1. PICK j \in 1..Len(payments), pay \in Payment :
            /\ j = First(ids) /\ j \in ids /\ pay.refund # 0
            /\ payments' = [payments EXCEPT ![j] = pay]
    BY RefundLinked
  <1>2. payments \in Seq(Payment)
    BY DEF Sound, TypeOK
  <1>3. /\ Len(payments') = Len(payments) /\ payments'[j] = pay
        /\ \A k \in 1..Len(payments) : k # j => payments'[k] = payments[k]
    BY <1>1, <1>2, ExceptSeq
  <1>4. \A i \in 1..Len(payments') :
            payments'[i].purchase = p /\ payments'[i].refund = 0 => i \in ids \ {j}
    BY <1>1, <1>3 DEF Refunded
  <1> QED BY <1>1, <1>4 DEF Refunded

(* An annulment under way has done all but what it is still to do. *)
LEMMA WorksProgress ==
    ASSUME Sound, Sound', Held, Document!NumbersInOrder, [Next]_vars,
           NEW r \in Request, Sole(r), Progress(req[r]), Works(r) \/ Quit(r)
    PROVE  \A o \in Request : Progress(req[o])'
  <1>1. PICK q : q = req[r]
    OBVIOUS
  <1>2. /\ Relies(q, purchases) /\ Stands(q) /\ Progress(q) /\ Typed
        /\ Holds(q, purchases, payments, costs)
    BY <1>1 DEF Sound, Typed, Held
  <1>3. ASSUME NEW st, Becomes(r, st), st.step \notin Cancelling
        PROVE  \A o \in Request : Progress(req[o])'
    <2>1. Progress(st)'
      BY <1>3 DEF Progress
    <2> QED BY <1>2, <1>3, <2>1, ProgressMoves
  <1>4. CASE \/ HeaderWrite(r) \/ Discard(r) \/ CancelClose(r) \/ Quit(r) \/ ConfirmUnit(r)
             \/ CostWrite(r) \/ MoveInsert(r)
    <2>1. Becomes(r, Idle)
      BY <1>4 DEF HeaderWrite, Discard, CancelClose, Close, Quit, ConfirmUnit, CostWrite, MoveInsert
    <2>2. Idle.step \notin Cancelling
      BY DEF Idle, Cancelling
    <2> QED BY <1>3, <2>1, <2>2
  <1>5. CASE PayCheck(r) \/ PayPost(r) \/ PayLink(r)
    <2>1. PICK st : Becomes(r, st) /\ st.step \notin Cancelling
      <3>1. ASSUME PayCheck(r) PROVE \E st : Becomes(r, st) /\ st.step \notin Cancelling
        <4>1. PICK st : st = [q EXCEPT !.step = "payPost"]
          OBVIOUS
        <4>2. q.step = "pay" /\ Becomes(r, st)
          BY <1>1, <3>1, <4>1 DEF PayCheck
        <4>3. q = [step |-> "pay", plan |-> q.plan, account |-> q.account]
          BY <1>2, <4>2 DEF Relies
        <4>4. st.step = "payPost"
          BY <4>1, <4>3
        <4> QED BY <4>2, <4>4 DEF Cancelling
      <3>2. ASSUME PayPost(r) PROVE \E st : Becomes(r, st) /\ st.step \notin Cancelling
        <4>1. PICK st : st = [step |-> "payLink", plan |-> q.plan, account |-> q.account,
                              tx |-> Len(entries) + 1]
          OBVIOUS
        <4>2. Becomes(r, st)
          BY <1>1, <3>2, <4>1 DEF PayPost
        <4> QED BY <4>1, <4>2 DEF Cancelling
      <3>3. ASSUME PayLink(r) PROVE \E st : Becomes(r, st) /\ st.step \notin Cancelling
        <4>1. PICK st : st = [step |-> "pay", plan |-> q.plan \ {NextPaid(q.plan)},
                              account |-> q.account]
          OBVIOUS
        <4>2. Becomes(r, IF q.plan = {NextPaid(q.plan)} THEN Idle ELSE st)
          BY <1>1, <3>3, <4>1 DEF PayLink
        <4>3. st.step \notin Cancelling /\ Idle.step \notin Cancelling
          BY <4>1 DEF Cancelling, Idle
        <4> QED BY <4>2, <4>3
      <3> QED BY <1>5, <3>1, <3>2, <3>3
    <2> QED BY <1>3, <2>1
  <1>6. ASSUME NEW st, Becomes(r, st), st.purchase = q.purchase,
               Gone(q.purchase, st.lines)', Refunded(q.purchase, st.pays)'
        PROVE  \A o \in Request : Progress(req[o])'
    <2>1. Progress(st)'
      BY <1>6 DEF Progress
    <2> QED BY <1>2, <1>6, <2>1, ProgressMoves
  <1>7. ASSUME q.step \in Cancelling
        PROVE  /\ Gone(q.purchase, q.lines)'
               /\ UNCHANGED payments => Refunded(q.purchase, q.pays)'
    <2>1. PICK p, left, pays : p = q.purchase /\ left = q.lines /\ pays = q.pays
      OBVIOUS
    <2>2. p \in 1..Len(purchases) /\ Numbered(p) /\ Gone(p, left) /\ Refunded(p, pays)
      BY <1>2, <1>7, <2>1 DEF Relies, Numbered, Progress
    <2>3. Gone(p, left)' /\ (UNCHANGED payments => Refunded(p, pays)')
      BY <2>2, GoneStays, RefundedStays
    <2> QED BY <2>1, <2>3
  <1>8. ASSUME OutCheck(r) PROVE \A o \in Request : Progress(req[o])'
    <2>1. PICK st : st = [q EXCEPT !.step = "out"]
      OBVIOUS
    <2>2. q.step = "reverse" /\ Becomes(r, st) /\ UNCHANGED payments
      BY <1>1, <1>8, <2>1 DEF OutCheck, Unwritten
    <2>3. q = [step |-> q.step, purchase |-> q.purchase, lines |-> q.lines, pays |-> q.pays]
      BY <1>2, <2>2 DEF Relies
    <2>4. st.purchase = q.purchase /\ st.lines = q.lines /\ st.pays = q.pays
      BY <2>1, <2>3
    <2>5. q.step \in Cancelling
      BY <2>2 DEF Cancelling
    <2> QED BY <1>6, <1>7, <2>2, <2>4, <2>5
  <1>9. ASSUME OutInsert(r) PROVE \A o \in Request : Progress(req[o])'
    <2>1. PICK left, st : left = q.lines \ {First(q.lines)}
                          /\ st = [q EXCEPT !.step = "reverse", !.lines = left]
      OBVIOUS
    <2>2. q.step = "out" /\ Becomes(r, st) /\ UNCHANGED payments
      BY <1>1, <1>9, <2>1 DEF OutInsert
    <2>3. q = [step |-> q.step, purchase |-> q.purchase, lines |-> q.lines, pays |-> q.pays]
      BY <1>2, <2>2 DEF Relies
    <2>4. st = [step |-> "reverse", purchase |-> q.purchase, lines |-> left, pays |-> q.pays]
      BY <2>1, <2>3, LineTaken
    <2>5. st.purchase = q.purchase /\ st.lines = left /\ st.pays = q.pays
      BY <2>4
    <2>6. q.step \in Cancelling
      BY <2>2 DEF Cancelling
    <2>7. PICK p, ids : p = q.purchase /\ ids = q.lines /\ Gone(p, ids)
      BY <1>2, <2>6 DEF Progress
    <2>8. Gone(p, ids \ {First(ids)})'
      BY <1>1, <1>9, <2>7, OutProgress
    <2>9. Gone(q.purchase, st.lines)'
      BY <2>1, <2>5, <2>7, <2>8
    <2> QED BY <1>6, <1>7, <2>2, <2>5, <2>6, <2>9
  <1>10. ASSUME RefundPost(r) PROVE \A o \in Request : Progress(req[o])'
    <2>1. PICK st : st = [step |-> "link", purchase |-> q.purchase, lines |-> {}, pays |-> q.pays,
                          tx |-> Len(entries) + 1]
      OBVIOUS
    <2>2. q.step = "reverse" /\ q.lines = {} /\ Becomes(r, st) /\ UNCHANGED payments
      BY <1>1, <1>10, <2>1 DEF RefundPost
    <2>3. st.purchase = q.purchase /\ st.lines = q.lines /\ st.pays = q.pays
      BY <2>1, <2>2
    <2>4. q.step \in Cancelling
      BY <2>2 DEF Cancelling
    <2> QED BY <1>6, <1>7, <2>2, <2>3, <2>4
  <1>11. ASSUME RefundLink(r) PROVE \A o \in Request : Progress(req[o])'
    <2>1. PICK st : st = [step |-> "reverse", purchase |-> q.purchase, lines |-> {},
                          pays |-> q.pays \ {First(q.pays)}]
      OBVIOUS
    <2>2. q.step = "link" /\ Becomes(r, st)
      BY <1>1, <1>11, <2>1 DEF RefundLink
    <2>3. q.lines = {}
      BY <1>1, <2>2, RequestShape DEF Sound
    <2>4. st.purchase = q.purchase /\ st.lines = q.lines /\ st.pays = q.pays \ {First(q.pays)}
      BY <2>1, <2>3
    <2>5. q.step \in Cancelling
      BY <2>2 DEF Cancelling
    <2>6. PICK p, ids : p = q.purchase /\ ids = q.pays /\ Refunded(p, ids)
      BY <1>2, <2>5 DEF Progress
    <2>7. Refunded(p, ids \ {First(ids)})'
      BY <1>1, <1>11, <2>6, RefundProgress
    <2>8. Refunded(q.purchase, st.pays)'
      BY <2>4, <2>6, <2>7
    <2> QED BY <1>6, <1>7, <2>2, <2>4, <2>5, <2>8
  <1> QED BY <1>4, <1>5, <1>8, <1>9, <1>10, <1>11 DEF Works

-----------------------------------------------------------------------------
(* The annulment that closes has nothing left to do. *)
LEMMA CloseProgress ==
    ASSUME Sound, Sound', Held, Document!NumbersInOrder, [Next]_vars,
           NEW r \in Request, CancelClose(r), Progress(req[r]), NEW p, p = req[r].purchase
    PROVE  /\ p \in 1..Len(purchases) /\ Gone(p, {})' /\ Refunded(p, {})'
           /\ \A t \in 1..Len(purchases) : t # p => purchases'[t] = purchases[t]
           /\ Len(purchases') = Len(purchases)
  <1>1. PICK q, x : /\ q = req[r] /\ p = q.purchase
                    /\ x = [purchases[p] EXCEPT !.status = "Cancelled"]
    OBVIOUS
  <1>2. /\ q.step = "reverse" /\ q.lines = {} /\ q.pays = {} /\ UNCHANGED payments
        /\ purchases' = [purchases EXCEPT ![p] = x]
    BY <1>1 DEF CancelClose, Close, Rewrite
  <1>3. q.step \in Cancelling /\ Relies(q, purchases) /\ Progress(q)
    BY <1>1, <1>2 DEF Cancelling, Sound, Typed
  <1>4. p \in 1..Len(purchases) /\ Numbered(p) /\ Gone(p, {}) /\ Refunded(p, {})
    BY <1>1, <1>2, <1>3 DEF Relies, Numbered, Progress
  <1>5. Gone(p, {})' /\ Refunded(p, {})'
    BY <1>2, <1>4, GoneStays, RefundedStays
  <1>6. /\ \A t \in 1..Len(purchases) : t # p => purchases'[t] = purchases[t]
        /\ Len(purchases') = Len(purchases)
    BY <1>2, <1>4, RowsTyped DEF Sound
  <1> QED BY <1>1, <1>4, <1>5, <1>6

LEMMA ReversedStep ==
    OneAtATime /\ Sound /\ Sound' /\ Alone /\ Held /\ Document!NumbersInOrder /\ Reversed
        /\ [Next]_vars => Reversed'
  <1> SUFFICES ASSUME OneAtATime, Sound, Sound', Alone, Held, Document!NumbersInOrder, Reversed,
                      [Next]_vars
               PROVE  Reversed'
    OBVIOUS
  <1>1. Typed
    BY DEF Sound
  <1>2. \A o \in Request : Progress(req[o])'
    <2>1. CASE UNCHANGED vars
      <3> SUFFICES ASSUME NEW o \in Request PROVE Progress(req[o])'
        OBVIOUS
      <3>1. PICK q : q = req[o] /\ Progress(q)
        BY DEF Reversed
      <3>2. UNCHANGED <<purchases, moves, payments>> /\ q = req'[o]
        BY <2>1, <3>1 DEF vars
      <3>3. Progress(q)'
        BY <3>1, <3>2 DEF Progress, Gone, Refunded
      <3> QED BY <3>2, <3>3 DEF Progress
    <2>2. CASE (\A r \in Request : req[r] = Idle) /\ UNCHANGED req
      <3> SUFFICES ASSUME NEW o \in Request PROVE Progress(req[o])'
        OBVIOUS
      <3>1. PICK q : q = req'[o] /\ q = Idle
        BY <2>2
      <3>2. Progress(q)'
        BY <3>1 DEF Progress, Idle, Cancelling
      <3> QED BY <3>1, <3>2 DEF Progress
    <2>3. ASSUME NEW r \in Request, Sole(r), Starts(r) PROVE \A o \in Request : Progress(req[o])'
      <3>1. ASSUME NEW st, Becomes(r, st), st.step \notin Cancelling
            PROVE  \A o \in Request : Progress(req[o])'
        <4>1. Progress(st)'
          BY <3>1 DEF Progress
        <4> QED BY <1>1, <2>3, <3>1, <4>1, ProgressMoves
      <3>2. ASSUME NEW p \in 1..Len(purchases), NEW header, HeaderRead(r, p, header)
            PROVE  \A o \in Request : Progress(req[o])'
        BY <3>1, <3>2 DEF HeaderRead, Cancelling
      <3>3. ASSUME NEW p \in 1..Len(purchases), NEW a, ConfirmRead(r, p, a)
            PROVE  \A o \in Request : Progress(req[o])'
        BY <3>1, <3>3 DEF ConfirmRead, Cancelling
      <3>4. ASSUME NEW p \in 1..Len(purchases), NEW amount, NEW a, Pay(r, p, amount, a)
            PROVE  \A o \in Request : Progress(req[o])'
        BY <3>1, <3>4 DEF Pay, Cancelling
      <3>5. ASSUME NEW s, NEW amount, NEW a, PaySupplier(r, s, amount, a)
            PROVE  \A o \in Request : Progress(req[o])'
        BY <3>1, <3>5 DEF PaySupplier, Cancelling
      <3>6. ASSUME NEW product, NEW s, NEW cost, NEW date, CostRead(r, product, s, cost, date)
            PROVE  \A o \in Request : Progress(req[o])'
        BY <3>1, <3>6 DEF CostRead, Cancelling
      <3>7. ASSUME NEW product, NEW delta, MoveRead(r, product, delta)
            PROVE  \A o \in Request : Progress(req[o])'
        BY <3>1, <3>7 DEF MoveRead, Cancelling
      <3> QED BY <2>3, <3>2, <3>3, <3>4, <3>5, <3>6, <3>7, CancelProgress DEF Starts
    <2>4. ASSUME NEW r \in Request, Sole(r), Works(r) \/ Quit(r)
          PROVE  \A o \in Request : Progress(req[o])'
      <3>1. Progress(req[r])
        BY DEF Reversed
      <3> QED BY <2>4, <3>1, WorksProgress
    <2> QED BY <1>1, <2>1, <2>2, <2>3, <2>4, SerialCases
  <1>3. ASSUME NEW p \in 1..Len(purchases'), purchases'[p].status = "Cancelled",
               purchases'[p].number # NoNumber
        PROVE  Gone(p, {})' /\ Refunded(p, {})'
    <2>1. ASSUME p \in 1..Len(purchases), Numbered(p), purchases[p].status = "Cancelled"
          PROVE  Gone(p, {})' /\ Refunded(p, {})'
      <3>1. Gone(p, {}) /\ Refunded(p, {})
        BY <2>1 DEF Reversed
      <3>2. purchases'[p].status # "Confirmed"
        BY <1>3
      <3> QED BY <2>1, <3>1, <3>2, GoneStays, RefundedStays
    <2>2. ASSUME NEW r \in Request, CancelClose(r) PROVE Gone(p, {})' /\ Refunded(p, {})'
      <3>1. PICK t : t = req[r].purchase
        OBVIOUS
      <3>2. /\ Gone(t, {})' /\ Refunded(t, {})' /\ Len(purchases') = Len(purchases)
            /\ \A k \in 1..Len(purchases) : k # t => purchases'[k] = purchases[k]
        <4>1. Progress(req[r])
          BY DEF Reversed
        <4> QED BY <2>2, <3>1, <4>1, CloseProgress
      <3>3. CASE p = t
        BY <3>2, <3>3
      <3>4. CASE p # t
        BY <1>3, <2>1, <3>2, <3>4 DEF Numbered
      <3> QED BY <3>3, <3>4
    <2> QED BY <1>3, <2>1, <2>2, NewlyCancelled
  <1> QED BY <1>2, <1>3 DEF Reversed, Numbered

LEMMA ReversedMeans ==
    ASSUME Sound, Reversed
    PROVE  AnnulledReversed
  <1> SUFFICES ASSUME NEW p \in 1..Len(purchases), purchases[p].status = "Cancelled", Numbered(p)
               PROVE  /\ \A u \in Tracked :
                             -MovedBy(purchases[p].number, u, TRUE) >= Bought(p, u)
                      /\ \A i \in PaymentsOf(p) : payments[i].refund # 0
    BY DEF AnnulledReversed
  <1>1. Gone(p, {}) /\ Refunded(p, {})
    BY DEF Reversed
  <1>2. \A i \in PaymentsOf(p) : payments[i].refund # 0
    BY <1>1 DEF Refunded, PaymentsOf, IsOf
  <1>3. PICK n, lines : n = purchases[p].number /\ lines = purchases[p].lines
    OBVIOUS
  <1>4. lines \in Seq(Line) /\ moves \in Seq(Move)
    <2>1. lines \in Seq(Line)
      BY <1>3, RowsTyped DEF Sound
    <2> QED BY <2>1 DEF Sound, TypeOK
  <1>5. ASSUME NEW u \in Tracked PROVE -MovedBy(purchases[p].number, u, TRUE) >= Bought(p, u)
    <2>1. MovedBy(n, u, TRUE) = MovedIn(moves, n, u, TRUE)
      BY DEF MovedBy, MovedIn
    <2>2. MovedIn(moves, n, u, TRUE) = 0 - WentOut(moves, n, u) /\ WentOut(moves, n, u) \in Nat
      BY <1>4, MovedIsSum, FiguresNat
    <2>3. PickedSum(UnitsOf(u), lines, {}) = 0
      BY <1>4, PickedNone
    <2>4. BoughtOf(lines, u) \in Nat
      BY <1>4, BoughtIsSum
    <2>5. Bought(p, u) = BoughtOf(lines, u)
      BY <1>3 DEF Bought, BoughtOf
    <2>6. BoughtOf(lines, u) <= WentOut(moves, n, u) + PickedSum(UnitsOf(u), lines, {})
      BY <1>1, <1>3 DEF Gone
    <2>7. BoughtOf(lines, u) <= WentOut(moves, n, u)
      BY <2>2, <2>3, <2>4, <2>6
    <2>8. -(0 - WentOut(moves, n, u)) >= BoughtOf(lines, u)
      BY <2>2, <2>4, <2>7
    <2> QED BY <1>3, <2>1, <2>2, <2>5, <2>8
  <1> QED BY <1>2, <1>5

(* Where requests are served one at a time, an annulled purchase keeps     *)
(* nothing, however many attempts to annul it died or were refused half    *)
(* way before one went through: every attempt takes out every line it      *)
(* reads, and none can start once a payment is refunded.                   *)
THEOREM PurchaseAnnulledReversed == OneAtATime => (Spec => []AnnulledReversed)
  <1>1. Init => Reversed
    <2> SUFFICES ASSUME Init PROVE Reversed
      OBVIOUS
    <2>1. \A r \in Request : req[r] = Idle
      BY DEF Init
    <2>2. Progress(Idle)
      BY DEF Progress, Idle, Cancelling
    <2>3. \A r \in Request : Progress(req[r])
      <3> SUFFICES ASSUME NEW r \in Request PROVE Progress(req[r])
        OBVIOUS
      <3> QED BY <2>1, <2>2
    <2>4. purchases = <<>>
      BY DEF Init
    <2> QED BY <2>3, <2>4 DEF Reversed
  <1>2. OneAtATime /\ Sound /\ Sound' /\ Alone /\ Held /\ Document!NumbersInOrder /\ Reversed
            /\ [Next]_vars => Reversed'
    BY ReversedStep
  <1>3. Sound /\ Reversed => AnnulledReversed
    BY ReversedMeans
  <1>4. CASE OneAtATime
    <2>1. Spec => [](Alone /\ Held)
      BY <1>4, AlwaysHeld
    <2>2. Sound /\ Sound' /\ Alone /\ Held /\ Document!NumbersInOrder /\ Reversed /\ [Next]_vars
              => Reversed'
      BY <1>2, <1>4
    <2> QED BY <1>1, <1>3, <2>1, <2>2, AlwaysSound, PurchaseNumbersDense, PTL DEF Spec
  <1> QED BY <1>4

-----------------------------------------------------------------------------
(* In which order a plan pays.                                             *)

Alike(a, p) == a.purchase = p /\ a.due = purchases[p].header.due /\ a.date = purchases[p].header.date

\* The plan is of debts of s, with every older debt of s than one it pays, and
\* what another of it follows it pays in full.
Ordered(plan, s) ==
    /\ \A a \in plan : purchases[a.purchase].header.supplier = s /\ Alike(a, a.purchase)
    /\ \A p \in 1..Len(purchases) : \A a \in plan :
           Owed(s, p) /\ Older(Aged(p), a) => \E b \in plan : b.purchase = p
    /\ \A a, b \in plan : Older(a, b) => a.amount = Due(a.purchase)

InOrder(q) ==
    q.step \in Planning =>
        (q.step # "pay" /\ \E x : q.plan = {x}) \/ \E s : Ordered(q.plan, s)

LEMMA OlderTransitive ==
    ASSUME NEW a, NEW b, NEW c, Dated(a), Dated(b), Dated(c), Older(a, b), Older(b, c)
    PROVE  Older(a, c)
  <1>1. /\ a.due[1] \in Nat /\ a.due[2] \in Nat /\ a.date[1] \in Nat /\ a.date[2] \in Nat
        /\ b.due[1] \in Nat /\ b.due[2] \in Nat /\ b.date[1] \in Nat /\ b.date[2] \in Nat
        /\ c.due[1] \in Nat /\ c.due[2] \in Nat /\ c.date[1] \in Nat /\ c.date[2] \in Nat
        /\ a.purchase \in Nat /\ b.purchase \in Nat /\ c.purchase \in Nat
    BY DateShape DEF Dated
  <1> QED BY <1>1 DEF Older, Earlier

\* What is owed to s before p is, q apart.
OwedTo(s, p) ==
    [o \in 1..Len(purchases) |-> IF Owed(s, o) /\ Older(Aged(o), Aged(p)) THEN Due(o) ELSE 0]

(* What is owed before a debt is owed before every later one, with the debt itself. *)
LEMMA OwedGrows ==
    ASSUME purchases \in Seq(Purchase), payments \in Seq(Payment), NEW s,
           NEW p \in 1..Len(purchases), NEW q \in 1..Len(purchases),
           Owed(s, p), Older(Aged(p), Aged(q))
    PROVE  OwedBefore(s, p) + Due(p) <= OwedBefore(s, q)
  <1> DEFINE n == Len(purchases)
             w == OwedTo(s, p)
             z == OwedTo(s, q)
             v == [o \in 1..n |-> IF o = p THEN Due(p) ELSE w[o]]
  <1>1. n \in Nat /\ \A o \in 1..n : Due(o) \in Int /\ Dated(Aged(o))
    BY DueInt, AgedIs
  <1>2. ~ Older(Aged(p), Aged(p))
    BY <1>1, OlderIsStrict
  <1>3. w[p] = 0
    BY <1>2 DEF OwedTo
  <1>4. \A o \in 1..n : w[o] \in Int /\ v[o] \in Int /\ z[o] \in Int
    BY <1>1 DEF OwedTo
  <1>5. \A o \in 1..n : v[o] <= z[o]
    <2> SUFFICES ASSUME NEW o \in 1..n PROVE v[o] <= z[o]
      OBVIOUS
    <2>1. CASE o = p
      BY <1>1, <2>1 DEF OwedTo
    <2>2. CASE o # p /\ Owed(s, o) /\ Older(Aged(o), Aged(p))
      <3>1. Older(Aged(o), Aged(q))
        BY <1>1, <2>2, OlderTransitive
      <3> QED BY <1>1, <2>2, <3>1 DEF OwedTo
    <2>3. CASE o # p /\ ~ (Owed(s, o) /\ Older(Aged(o), Aged(p)))
      <3>1. v[o] = 0
        BY <2>3 DEF OwedTo
      <3>2. Owed(s, o) => Due(o) >= 0
        BY <1>1 DEF Owed
      <3> QED BY <1>1, <3>1, <3>2 DEF OwedTo
    <2> QED BY <2>1, <2>2, <2>3
  <1>6. \A o \in 1..n : p # o => v[o] = w[o]
    OBVIOUS
  <1>7. v[p] = Due(p)
    OBVIOUS
  <1>8. OwedBefore(s, p) = SumOver(w, n) /\ OwedBefore(s, q) = SumOver(z, n)
    BY DEF OwedBefore, OwedTo
  <1> HIDE DEF w, z, v, n
  <1>9. SumOver(v, n) = SumOver(w, n) - w[p] + v[p]
    <2>1. p \in 1..n
      BY DEF n
    <2>2. DifferAt(v, w, n, p)
      BY <1>1, <1>4, <1>6, <2>1, SumOverUpdate
    <2> QED BY <2>2 DEF DifferAt
  <1>10. SumOver(v, n) <= SumOver(z, n)
    BY <1>1, <1>4, <1>5, SumOverMonotone
  <1>11. SumOver(w, n) \in Int /\ Due(p) \in Int
    <2>1. Due(p) \in Int
      BY DueInt
    <2> QED BY <1>1, <1>4, <2>1, SumOverInt
  <1> QED BY <1>3, <1>7, <1>8, <1>9, <1>10, <1>11

(* What makes a debt older is its dates. *)
LEMMA AgedAlike ==
    ASSUME NEW p, NEW a, Alike(a, p), NEW b
    PROVE  /\ Older(Aged(p), b) <=> Older(a, b)
           /\ Older(b, Aged(p)) <=> Older(b, a)
  <1>1. Aged(p).purchase = a.purchase /\ Aged(p).due = a.due /\ Aged(p).date = a.date
    BY DEF Alike, Aged
  <1> QED BY <1>1 DEF Older

(* The plan of an amount goes through the debts in their order. *)
LEMMA PlanOrdered ==
    ASSUME Sound, NEW s \in Supplier, NEW amount \in Nat \ {0}
    PROVE  Ordered(Plan(s, amount), s)
  <1>1. purchases \in Seq(Purchase) /\ payments \in Seq(Payment)
    BY DEF Sound, TypeOK
  <1>2. PICK plan : plan = Plan(s, amount)
    OBVIOUS
  <1>3. ASSUME NEW a \in plan
        PROVE  /\ a.purchase \in 1..Len(purchases) /\ Owed(s, a.purchase)
               /\ a.amount = Takes(s, a.purchase, amount) /\ OwedBefore(s, a.purchase) < amount
               /\ purchases[a.purchase].header.supplier = s /\ Alike(a, a.purchase)
    BY <1>2, PlanWithinDue DEF Owed, Alike
  <1>4. ASSUME NEW p \in 1..Len(purchases), NEW a \in plan, Owed(s, p), Older(Aged(p), a)
        PROVE  \E b \in plan : b.purchase = p
    <2>1. Older(Aged(p), Aged(a.purchase))
      BY <1>3, <1>4, AgedAlike
    <2>2. OwedBefore(s, p) + Due(p) <= OwedBefore(s, a.purchase)
      BY <1>1, <1>3, <1>4, <2>1, OwedGrows
    <2>3. /\ Due(p) \in Int /\ Due(p) > 0 /\ OwedBefore(s, p) \in Int
          /\ OwedBefore(s, a.purchase) \in Int
      BY <1>1, <1>4, DueInt, OwedBeforeInt DEF Owed
    <2>4. OwedBefore(s, p) < amount
      BY <1>3, <2>2, <2>3
    <2>5. PICK b : b = [purchase |-> p, amount |-> Takes(s, p, amount),
                        due |-> purchases[p].header.due, date |-> purchases[p].header.date]
      OBVIOUS
    <2>6. b \in plan
      BY <1>2, <1>4, <2>4, <2>5 DEF Plan
    <2> QED BY <2>5, <2>6
  <1>5. ASSUME NEW a \in plan, NEW b \in plan, Older(a, b) PROVE a.amount = Due(a.purchase)
    <2>1. Older(Aged(a.purchase), Aged(b.purchase))
      BY <1>3, <1>5, AgedAlike
    <2>2. OwedBefore(s, a.purchase) + Due(a.purchase) <= OwedBefore(s, b.purchase)
      BY <1>1, <1>3, <2>1, OwedGrows
    <2>3. /\ Due(a.purchase) \in Int /\ OwedBefore(s, a.purchase) \in Int
          /\ OwedBefore(s, b.purchase) \in Int
      BY <1>1, <1>3, DueInt, OwedBeforeInt
    <2>4. OwedBefore(s, b.purchase) < amount
      BY <1>3
    <2>5. Due(a.purchase) <= amount - OwedBefore(s, a.purchase)
      BY <2>2, <2>3, <2>4
    <2> QED BY <1>3, <2>5 DEF Takes, Least
  <1> QED BY <1>2, <1>3, <1>4, <1>5 DEF Ordered

-----------------------------------------------------------------------------
InOrderAll == \A r \in Request : InOrder(req[r])

LEMMA OrderMoves ==
    ASSUME Typed, NEW r \in Request, Sole(r), NEW st, Becomes(r, st), InOrder(st)'
    PROVE  InOrderAll'
  <1> SUFFICES ASSUME NEW o \in Request PROVE InOrder(req[o])'
    BY DEF InOrderAll
  <1>1. PICK q : q = req'[o]
    OBVIOUS
  <1>2. q = st \/ q = Idle
    BY <1>1 DEF Becomes, Sole, Typed
  <1>3. InOrder(Idle)'
    BY DEF InOrder, Idle, Planning
  <1>4. InOrder(q)'
    BY <1>2, <1>3
  <1> QED BY <1>1, <1>4 DEF InOrder

LEMMA OrderStays ==
    ASSUME UNCHANGED <<purchases, payments>>, NEW plan, NEW s, Ordered(plan, s)
    PROVE  Ordered(plan, s)'
  <1>1. \A p : Due(p)' = Due(p) /\ Aged(p)' = Aged(p)
    BY DEF Due, Paid, Total, IsOf, Aged
  <1>2. \A p : Owed(s, p)' = Owed(s, p)
    BY <1>1 DEF Owed, Is
  <1>3. \A a : Alike(a, a.purchase)' = Alike(a, a.purchase)
    BY DEF Alike
  <1> QED BY <1>1, <1>2, <1>3 DEF Ordered, Older

(* The oldest debt of a plan of several is paid in full, and nothing older is left. *)
LEMMA OrderPaid ==
    ASSUME Sound, Sound', NEW r \in Request, PayLink(r), NEW plan, plan = req[r].plan,
           NEW s, Ordered(plan, s), NEW next, next = NextPaid(plan), plan # {next}
    PROVE  Ordered(plan \ {next}, s)'
  <1>1. /\ req[r].step \in Planning /\ UNCHANGED purchases /\ Typed
        /\ purchases \in Seq(Purchase)
    BY DEF PayLink, Planning, Sound, TypeOK
  <1>2. /\ next \in plan /\ next.purchase \in 1..Len(purchases)
        /\ \A b \in plan : next = b \/ Older(next, b)
    BY <1>1, NextPaidSound
  <1>3. \A a \in plan : a.purchase \in 1..Len(purchases) /\ (a.purchase = next.purchase => a = next)
    BY <1>1, <1>2 DEF Sound, Holds
  <1>4. \A p : p # next.purchase => Due(p)' = Due(p)
    BY DueOfOthers
  <1>5. PICK other \in plan : other # next
    BY <1>2
  <1>6. next.amount = Due(next.purchase)
    BY <1>2, <1>5 DEF Ordered
  <1>7. Due(next.purchase)' = 0
    <2>1. PICK t : t = next.purchase
      OBVIOUS
    <2>2. PICK pay \in Payment : /\ pay.purchase = t /\ pay.amount = next.amount
                                 /\ payments' = Append(payments, pay)
      BY <2>1, PayLinked
    <2>3. PaidIn(payments', t) = PaidIn(payments, t) + (IF pay.purchase = t THEN pay.amount ELSE 0)
      BY <2>2, PaidAppended
    <2>4. /\ Paid(t) = PaidIn(payments, t) /\ Paid(t)' = PaidIn(payments', t)
          /\ PaidIn(payments, t) \in Nat /\ PaidIn(payments', t) \in Nat
      BY PaidNow
    <2>5. PICK total \in Nat : total = Total(purchases[t].lines)
      <3>1. purchases[t].lines \in Seq(Line)
        BY <1>1, <1>2, <2>1, RowsTyped
      <3> QED BY <3>1, TotalNat
    <2>6. Total(purchases[t].lines)' = total
      BY <1>1, <2>5 DEF Total
    <2>7. next.amount = total - PaidIn(payments, t)
      BY <1>6, <2>1, <2>4, <2>5 DEF Due
    <2>8. PaidIn(payments', t) = PaidIn(payments, t) + next.amount
      BY <2>2, <2>3
    <2>9. Due(t)' = total - PaidIn(payments', t)
      BY <2>4, <2>6 DEF Due
    <2>10. Due(t)' = 0
      BY <2>4, <2>7, <2>8, <2>9
    <2> QED BY <2>1, <2>10 DEF Due
  <1>8. PICK t, left : t = next.purchase /\ left = plan \ {next}
    OBVIOUS
  <1>9. Due(t)' = 0 /\ \A p : p # t => Due(p)' = Due(p)
    BY <1>4, <1>7, <1>8 DEF Due
  <1>10. \A p : Aged(p)' = Aged(p) /\ (p # t => Owed(s, p)' = Owed(s, p)) /\ ~ Owed(s, t)'
    BY <1>1, <1>9 DEF Aged, Owed, Is
  <1>11. \A a \in left : a \in plan /\ a.purchase # t
    BY <1>3, <1>8
  <1>12. \A a \in left : purchases'[a.purchase].header.supplier = s /\ Alike(a, a.purchase)'
    BY <1>1, <1>11 DEF Ordered, Alike
  <1>13. ASSUME NEW p \in 1..Len(purchases'), NEW a \in left, Owed(s, p)', Older(Aged(p), a)'
         PROVE  \E b \in left : b.purchase = p
    <2>1. p # t /\ Owed(s, p) /\ Older(Aged(p), a) /\ p \in 1..Len(purchases)
      BY <1>1, <1>10, <1>13 DEF Older
    <2>2. PICK b \in plan : b.purchase = p
      BY <1>11, <1>13, <2>1 DEF Ordered
    <2> QED BY <1>8, <2>1, <2>2
  <1>14. \A a, b \in left : Older(a, b) => a.amount = Due(a.purchase)'
    BY <1>9, <1>11 DEF Ordered
  <1>15. Ordered(left, s)'
    BY <1>12, <1>13, <1>14 DEF Ordered
  <1> QED BY <1>8, <1>15

(* A plan of one payment, or of a supplier's debts, is begun in order. *)
LEMMA StartsInOrder ==
    ASSUME Sound, NEW r \in Request, Sole(r), Starts(r)
    PROVE  InOrderAll'
  <1>1. UNCHANGED <<purchases, payments>> /\ Typed
    BY DEF Starts, HeaderRead, ConfirmRead, CancelRead, Pay, PaySupplier, CostRead, MoveRead,
           Unwritten, Sound
  <1>2. ASSUME NEW st, Becomes(r, st), st.step \notin Planning PROVE InOrderAll'
    <2>1. InOrder(st)'
      BY <1>2 DEF InOrder
    <2> QED BY <1>1, <1>2, <2>1, OrderMoves
  <1>3. ASSUME NEW p \in 1..Len(purchases), NEW header, HeaderRead(r, p, header) PROVE InOrderAll'
    BY <1>2, <1>3 DEF HeaderRead, Planning
  <1>4. ASSUME NEW p \in 1..Len(purchases), NEW a, ConfirmRead(r, p, a) PROVE InOrderAll'
    BY <1>2, <1>4 DEF ConfirmRead, Planning
  <1>5. ASSUME NEW p \in 1..Len(purchases), CancelRead(r, p) PROVE InOrderAll'
    BY <1>2, <1>5 DEF CancelRead, Planning
  <1>6. ASSUME NEW p \in 1..Len(purchases), NEW amount, NEW a, Pay(r, p, amount, a) PROVE InOrderAll'
    <2>1. PICK x : x = [purchase |-> p, amount |-> amount, due |-> NoDate,
                        date |-> purchases[p].header.date]
      OBVIOUS
    <2>2. PICK st : st = [step |-> "payPost", account |-> a, plan |-> {x}]
      OBVIOUS
    <2>3. Becomes(r, st) /\ st.step = "payPost" /\ st.plan = {x}
      BY <1>6, <2>1, <2>2 DEF Pay
    <2>4. st.step # "pay" /\ \E y : st.plan = {y}
      BY <2>3
    <2>5. InOrder(st)'
      BY <2>4 DEF InOrder
    <2> QED BY <1>1, <2>3, <2>5, OrderMoves
  <1>7. ASSUME NEW s \in Supplier, NEW amount \in PayAmount, NEW a, PaySupplier(r, s, amount, a)
        PROVE  InOrderAll'
    <2>1. PICK st : st = [step |-> "pay", account |-> a, plan |-> Plan(s, amount)]
      OBVIOUS
    <2>2. Becomes(r, st)
      BY <1>7, <2>1 DEF PaySupplier
    <2>3. amount \in Nat \ {0}
      BY PurchasesAssumption
    <2>4. PICK plan : plan = Plan(s, amount) /\ Ordered(plan, s) /\ st.plan = plan
      BY <2>1, <2>3, PlanOrdered
    <2>5. Ordered(plan, s)'
      BY <1>1, <2>4, OrderStays
    <2>6. InOrder(st)'
      BY <2>4, <2>5 DEF InOrder
    <2> QED BY <1>1, <2>2, <2>6, OrderMoves
  <1>8. ASSUME NEW product, NEW s, NEW cost, NEW date, CostRead(r, product, s, cost, date)
        PROVE  InOrderAll'
    BY <1>2, <1>8 DEF CostRead, Planning
  <1>9. ASSUME NEW product, NEW delta, MoveRead(r, product, delta) PROVE InOrderAll'
    BY <1>2, <1>9 DEF MoveRead, Planning
  <1> QED BY <1>3, <1>4, <1>5, <1>6, <1>7, <1>8, <1>9 DEF Starts

-----------------------------------------------------------------------------
(* A plan is paid in its order. *)
LEMMA WorksInOrder ==
    ASSUME Sound, Sound', InOrderAll, NEW r \in Request, Sole(r), Works(r) \/ Quit(r)
    PROVE  InOrderAll'
  <1>1. PICK q : q = req[r]
    OBVIOUS
  <1>2. InOrder(q) /\ Relies(q, purchases) /\ Typed
    BY <1>1 DEF Sound, Typed, InOrderAll
  <1>3. ASSUME NEW st, Becomes(r, st), st.step \notin Planning PROVE InOrderAll'
    <2>1. InOrder(st)'
      BY <1>3 DEF InOrder
    <2> QED BY <1>2, <1>3, <2>1, OrderMoves
  <1>4. CASE \/ HeaderWrite(r) \/ Discard(r) \/ CancelClose(r) \/ Quit(r) \/ ConfirmUnit(r)
             \/ CostWrite(r) \/ MoveInsert(r)
    <2>1. Becomes(r, Idle)
      BY <1>4 DEF HeaderWrite, Discard, CancelClose, Close, Quit, ConfirmUnit, CostWrite, MoveInsert
    <2>2. Idle.step \notin Planning
      BY DEF Idle, Planning
    <2> QED BY <1>3, <2>1, <2>2
  <1>5. ASSUME NEW st, Becomes(r, st), q.step \in Planning, st.plan = q.plan, st.step # "pay",
               UNCHANGED <<purchases, payments>>
        PROVE  InOrderAll'
    <2>1. PICK plan : plan = q.plan
      OBVIOUS
    <2>2. (\E x : plan = {x}) \/ \E s : Ordered(plan, s)
      BY <1>2, <1>5, <2>1 DEF InOrder
    <2>3. ASSUME NEW s, Ordered(plan, s) PROVE Ordered(plan, s)'
      BY <1>5, <2>3, OrderStays
    <2>4. (\E x : plan = {x}) \/ \E s : Ordered(plan, s)'
      BY <2>2, <2>3
    <2>5. st.plan = plan
      BY <1>5, <2>1
    <2>6. InOrder(st)'
      BY <1>5, <2>4, <2>5 DEF InOrder
    <2> QED BY <1>2, <1>5, <2>6, OrderMoves
  <1>6. ASSUME PayCheck(r) PROVE InOrderAll'
    <2>1. PICK st : st = [q EXCEPT !.step = "payPost"]
      OBVIOUS
    <2>2. q.step = "pay" /\ Becomes(r, st) /\ UNCHANGED <<purchases, payments>>
      BY <1>1, <1>6, <2>1 DEF PayCheck, Unwritten
    <2>3. q = [step |-> "pay", plan |-> q.plan, account |-> q.account]
      BY <1>2, <2>2 DEF Relies
    <2>4. st.step = "payPost" /\ st.plan = q.plan
      BY <2>1, <2>3
    <2>5. q.step \in Planning
      BY <2>2 DEF Planning
    <2> QED BY <1>5, <2>2, <2>4, <2>5
  <1>7. ASSUME PayPost(r) PROVE InOrderAll'
    <2>1. PICK st : st = [step |-> "payLink", plan |-> q.plan, account |-> q.account,
                          tx |-> Len(entries) + 1]
      OBVIOUS
    <2>2. q.step = "payPost" /\ Becomes(r, st) /\ UNCHANGED <<purchases, payments>>
      BY <1>1, <1>7, <2>1 DEF PayPost
    <2>3. st.step = "payLink" /\ st.plan = q.plan
      BY <2>1
    <2>4. q.step \in Planning
      BY <2>2 DEF Planning
    <2> QED BY <1>5, <2>2, <2>3, <2>4
  <1>8. ASSUME PayLink(r) PROVE InOrderAll'
    <2>1. PICK plan, next, st :
              /\ plan = q.plan /\ next = NextPaid(plan)
              /\ st = [step |-> "pay", plan |-> plan \ {next}, account |-> q.account]
      OBVIOUS
    <2>2. q.step = "payLink" /\ Becomes(r, IF plan = {next} THEN Idle ELSE st)
      BY <1>1, <1>8, <2>1 DEF PayLink
    <2>3. q.step \in Planning /\ next \in plan
      BY <1>1, <2>1, <2>2, NextPaidSound DEF Planning
    <2>4. CASE plan = {next}
      <3>1. Becomes(r, Idle) /\ Idle.step \notin Planning
        BY <2>2, <2>4 DEF Idle, Planning
      <3> QED BY <1>3, <3>1
    <2>5. CASE plan # {next}
      <3>1. Becomes(r, st)
        BY <2>2, <2>5
      <3>2. PICK s : Ordered(plan, s)
        BY <1>2, <2>1, <2>3, <2>5 DEF InOrder
      <3>3. PICK left : left = plan \ {next} /\ st.plan = left
        BY <2>1
      <3>4. Ordered(plan \ {next}, s)'
        BY <1>1, <1>8, <2>1, <2>5, <3>2, OrderPaid
      <3>5. Ordered(left, s)'
        BY <3>3, <3>4
      <3>6. InOrder(st)'
        BY <3>3, <3>5 DEF InOrder
      <3> QED BY <1>2, <3>1, <3>6, OrderMoves
    <2> QED BY <2>4, <2>5
  <1>9. CASE OutCheck(r) \/ OutInsert(r) \/ RefundPost(r) \/ RefundLink(r)
    <2>1. PICK st : Becomes(r, st) /\ st.step \notin Planning
      <3>1. ASSUME OutCheck(r) PROVE \E st : Becomes(r, st) /\ st.step \notin Planning
        <4>1. PICK st : st = [q EXCEPT !.step = "out"]
          OBVIOUS
        <4>2. q.step = "reverse" /\ Becomes(r, st)
          BY <1>1, <3>1, <4>1 DEF OutCheck
        <4>3. q = [step |-> q.step, purchase |-> q.purchase, lines |-> q.lines, pays |-> q.pays]
          BY <1>2, <4>2 DEF Relies
        <4>4. st.step = "out"
          BY <4>1, <4>3
        <4> QED BY <4>2, <4>4 DEF Planning
      <3>2. ASSUME OutInsert(r) PROVE \E st : Becomes(r, st) /\ st.step \notin Planning
        <4>1. PICK left, st : left = q.lines \ {First(q.lines)}
                              /\ st = [q EXCEPT !.step = "reverse", !.lines = left]
          OBVIOUS
        <4>2. q.step = "out" /\ Becomes(r, st)
          BY <1>1, <3>2, <4>1 DEF OutInsert
        <4>3. q = [step |-> q.step, purchase |-> q.purchase, lines |-> q.lines, pays |-> q.pays]
          BY <1>2, <4>2 DEF Relies
        <4>4. st = [step |-> "reverse", purchase |-> q.purchase, lines |-> left, pays |-> q.pays]
          BY <4>1, <4>3, LineTaken
        <4>5. st.step = "reverse"
          BY <4>4
        <4> QED BY <4>2, <4>5 DEF Planning
      <3>3. ASSUME RefundPost(r) PROVE \E st : Becomes(r, st) /\ st.step \notin Planning
        <4>1. PICK st : st = [step |-> "link", purchase |-> q.purchase, lines |-> {},
                              pays |-> q.pays, tx |-> Len(entries) + 1]
          OBVIOUS
        <4>2. Becomes(r, st)
          BY <1>1, <3>3, <4>1 DEF RefundPost
        <4> QED BY <4>1, <4>2 DEF Planning
      <3>4. ASSUME RefundLink(r) PROVE \E st : Becomes(r, st) /\ st.step \notin Planning
        <4>1. PICK st : st = [step |-> "reverse", purchase |-> q.purchase, lines |-> {},
                              pays |-> q.pays \ {First(q.pays)}]
          OBVIOUS
        <4>2. Becomes(r, st)
          BY <1>1, <3>4, <4>1 DEF RefundLink
        <4> QED BY <4>1, <4>2 DEF Planning
      <3> QED BY <1>9, <3>1, <3>2, <3>3, <3>4
    <2> QED BY <1>3, <2>1
  <1> QED BY <1>4, <1>6, <1>7, <1>8, <1>9 DEF Works

LEMMA OrderStep ==
    OneAtATime /\ Sound /\ Sound' /\ Alone /\ InOrderAll /\ [Next]_vars => InOrderAll'
  <1> SUFFICES ASSUME OneAtATime, Sound, Sound', Alone, InOrderAll, [Next]_vars PROVE InOrderAll'
    OBVIOUS
  <1>1. CASE UNCHANGED vars
    <2> SUFFICES ASSUME NEW o \in Request PROVE InOrder(req[o])'
      BY DEF InOrderAll
    <2>1. PICK q, plan : q = req[o] /\ InOrder(q) /\ plan = q.plan
      BY DEF InOrderAll
    <2>2. UNCHANGED <<purchases, payments>> /\ q = req'[o]
      BY <1>1, <2>1 DEF vars
    <2>3. ASSUME NEW s, Ordered(plan, s) PROVE Ordered(plan, s)'
      BY <2>2, <2>3, OrderStays
    <2>4. InOrder(q)'
      BY <2>1, <2>3 DEF InOrder
    <2> QED BY <2>2, <2>4 DEF InOrder
  <1>2. CASE (\A r \in Request : req[r] = Idle) /\ UNCHANGED req
    <2> SUFFICES ASSUME NEW o \in Request PROVE InOrder(req[o])'
      BY DEF InOrderAll
    <2>1. PICK q : q = req'[o] /\ q = Idle
      BY <1>2
    <2>2. InOrder(q)'
      BY <2>1 DEF InOrder, Idle, Planning
    <2> QED BY <2>1, <2>2 DEF InOrder
  <1>3. Typed
    BY DEF Sound
  <1> QED BY <1>1, <1>2, <1>3, SerialCases, StartsInOrder, WorksInOrder

LEMMA OrderMeans == Sound /\ Held /\ InOrderAll => PlanServed
  <1> SUFFICES ASSUME Sound, Held, InOrderAll, NEW r \in Request, req[r].step = "pay",
                      NEW next, next = NextPaid(req[r].plan), NEW s,
                      s = purchases[next.purchase].header.supplier
               PROVE  /\ Payable(next.purchase, next.amount)
                      /\ \A p \in 1..Len(purchases) : Owed(s, p) => ~ Older(Aged(p), next)
    BY DEF PlanServed
  <1>1. PICK q, plan : q = req[r] /\ plan = q.plan /\ q.step = "pay" /\ q.step \in Planning
    BY DEF Planning
  <1>2. /\ next \in plan /\ next.purchase \in 1..Len(purchases) /\ plan \in SUBSET Allocation
        /\ \A b \in plan : next = b \/ Older(next, b)
    BY <1>1, NextPaidSound
  <1>3. Payable(next.purchase, next.amount)
    BY <1>1, <1>2 DEF Held, Stands, Payable, Is
  <1>4. PICK o : Ordered(plan, o)
    BY <1>1 DEF InOrderAll, InOrder
  <1>5. o = s
    BY <1>2, <1>4 DEF Ordered
  <1>6. ASSUME NEW p \in 1..Len(purchases), Owed(s, p), Older(Aged(p), next) PROVE FALSE
    <2>1. PICK b \in plan : b.purchase = p
      BY <1>2, <1>4, <1>5, <1>6 DEF Ordered
    <2>2. Alike(b, p) /\ Older(b, next)
      <3>1. Alike(b, p)
        BY <1>4, <2>1 DEF Ordered
      <3> QED BY <1>6, <3>1, AgedAlike
    <2>3. Dated(b) /\ Dated(next)
      <3>1. b \in Allocation /\ next \in Allocation
        BY <1>2
      <3> QED BY <3>1 DEF Allocation, PurchaseId, Dated
    <2>4. ~ Older(next, b)
      BY <2>2, <2>3, OlderIsStrict
    <2>5. next = b
      BY <1>2, <2>4
    <2> QED BY <2>2, <2>4, <2>5
  <1> QED BY <1>3, <1>6

(* Where requests are served one at a time, pay_supplier pays oldest debt  *)
(* first and to the end of its plan: what precedes an allocation was paid  *)
(* in full, so that nothing older than it is still due when its turn       *)
(* comes, and what it takes is due then.                                   *)
THEOREM PurchasePlanServed == OneAtATime => (Spec => []PlanServed)
  <1>1. Init => InOrderAll
    <2> SUFFICES ASSUME Init PROVE InOrderAll
      OBVIOUS
    <2>1. \A r \in Request : req[r] = Idle
      BY DEF Init
    <2>2. InOrder(Idle)
      BY DEF InOrder, Idle, Planning
    <2> SUFFICES ASSUME NEW r \in Request PROVE InOrder(req[r])
      BY DEF InOrderAll
    <2> QED BY <2>1, <2>2
  <1>2. OneAtATime /\ Sound /\ Sound' /\ Alone /\ InOrderAll /\ [Next]_vars => InOrderAll'
    BY OrderStep
  <1>3. Sound /\ Held /\ InOrderAll => PlanServed
    BY OrderMeans
  <1>4. CASE OneAtATime
    <2>1. Spec => [](Alone /\ Held)
      BY <1>4, AlwaysHeld
    <2>2. Sound /\ Sound' /\ Alone /\ InOrderAll /\ [Next]_vars => InOrderAll'
      BY <1>2, <1>4
    <2> QED BY <1>1, <1>3, <2>1, <2>2, AlwaysSound, PTL DEF Spec
  <1> QED BY <1>4

-----------------------------------------------------------------------------
(* What the costs on record tell.                                          *)

Differ == \A pair \in Product \X Supplier : costs[pair] # NoCost => costs[pair].was # costs[pair].cost

\* The pairs of product and supplier a purchase has costs for.
Charged(p, pair) ==
    \E i \in 1..Len(purchases[p].lines) :
        pair = <<purchases[p].lines[i].product, purchases[p].header.supplier>>

Recent(p, row) == row # NoCost /\ ~ Earlier(row.since, purchases[p].header.date)

Current ==
    /\ \A p \in 1..Len(purchases) : Numbered(p) =>
           \A pair \in Product \X Supplier : Charged(p, pair) => Recent(p, costs[pair])
    /\ Differ

\* A row is written at a date that its old one accepts.
Renewed(row, new, date) ==
    new # NoCost /\ new.since = date /\ new.was # new.cost /\ AcceptsCost(row, date)

LEMMA CostRenewed ==
    ASSUME NEW row \in Recorded \cup {NoCost}, row # NoCost => row.was # row.cost,
           NEW cost \in Cost, NEW date \in Date, AcceptsCost(row, date),
           NEW new, new = WithCost(row, Branch(row, cost), cost, date)
    PROVE  Renewed(row, new, date)
  <1>1. PICK branch : branch = Branch(row, cost)
    OBVIOUS
  <1>2. branch \in {"create", "refresh", "shift"} /\ (branch # "create" => row # NoCost)
    BY <1>1 DEF Branch
  <1>3. new # NoCost
    BY <1>1, <1>2, CostTyped
  <1>4. CASE branch = "create"
    <2>1. new = [cost |-> cost, since |-> date, was |-> -1]
      BY <1>1, <1>4 DEF WithCost
    <2>2. cost \in Nat
      BY PurchasesAssumption
    <2>3. new.since = date /\ new.was # new.cost
      BY <2>1, <2>2
    <2> QED BY <1>3, <2>3 DEF Renewed
  <1>5. CASE branch = "refresh"
    <2>1. new = [row EXCEPT !.since = date] /\ row \in Recorded
      BY <1>1, <1>2, <1>5 DEF WithCost
    <2>2. new.since = date /\ new.was = row.was /\ new.cost = row.cost
      BY <2>1 DEF Recorded
    <2> QED BY <1>2, <1>3, <1>5, <2>2 DEF Renewed
  <1>6. CASE branch = "shift"
    <2>1. new = [cost |-> cost, since |-> date, was |-> row.cost] /\ row.cost # cost
      BY <1>1, <1>6 DEF WithCost, Branch
    <2>2. new.since = date /\ new.was # new.cost
      BY <2>1
    <2> QED BY <1>3, <2>2 DEF Renewed
  <1> QED BY <1>2, <1>4, <1>5, <1>6

(* A confirm writes a row of each pair of its purchase, at its date. *)
LEMMA CostsOfAt ==
    ASSUME TypeOK, Differ, NEW p \in 1..Len(purchases), CostsAccept(purchases[p]),
           NEW pair \in Product \X Supplier
    PROVE  IF Charged(p, pair)
           THEN Renewed(costs[pair], CostsOf(purchases[p])[pair], purchases[p].header.date)
           ELSE CostsOf(purchases[p])[pair] = costs[pair]
  <1>1. PICK seen \in Purchase : seen = purchases[p]
    <2>1. purchases \in Seq(Purchase)
      BY DEF TypeOK
    <2> QED BY <2>1, ElementOfSeq
  <1>2. seen.lines \in Seq(Line) /\ seen.header.date \in Date
    BY DEF Purchase, Header
  <1>3. ASSUME NEW k \in 1..Len(seen.lines), pair = <<seen.lines[k].product, seen.header.supplier>>
        PROVE  Renewed(costs[pair], CostsOf(seen)[pair], seen.header.date)
    <2>1. \E i \in 1..Len(seen.lines) : seen.lines[i].product = pair[1]
      BY <1>3
    <2>2. PICK i : i = CHOOSE j \in 1..Len(seen.lines) : seen.lines[j].product = pair[1]
      OBVIOUS
    <2>3. i \in 1..Len(seen.lines)
      BY <2>1, <2>2
    <2>4. PICK line : line = seen.lines[i]
      OBVIOUS
    <2>5. line.cost \in Cost
      <3>1. seen.lines[i] \in Line
        BY <1>2, <2>3, ElementOfSeq
      <3> QED BY <2>4, <3>1 DEF Line
    <2>6. PICK row \in Recorded \cup {NoCost} : row = costs[pair]
      BY DEF TypeOK
    <2>7. PICK new : new = CostsOf(seen)[pair]
      OBVIOUS
    <2>8. new = WithCost(row, Branch(row, line.cost), line.cost, seen.header.date)
      BY <1>3, <2>2, <2>4, <2>6, <2>7 DEF CostsOf
    <2>9. AcceptsCost(row, seen.header.date)
      <3>1. CostsAccept(seen)
        BY <1>1
      <3> QED BY <1>3, <2>6, <3>1 DEF CostsAccept
    <2>10. row # NoCost => row.was # row.cost
      BY <2>6 DEF Differ
    <2>11. Renewed(row, new, seen.header.date)
      BY <1>2, <2>5, <2>8, <2>9, <2>10, CostRenewed
    <2> QED BY <2>6, <2>7, <2>11
  <1>4. CASE Charged(p, pair)
    <2>1. Renewed(costs[pair], CostsOf(seen)[pair], seen.header.date)
      BY <1>1, <1>3, <1>4 DEF Charged
    <2> QED BY <1>1, <1>4, <2>1
  <1>5. CASE ~ Charged(p, pair)
    <2>1. CostsOf(seen)[pair] = costs[pair]
      BY <1>1, <1>5 DEF Charged, CostsOf
    <2> QED BY <1>1, <1>5, <2>1
  <1> QED BY <1>4, <1>5

(* A cost recorded by hand is written at its date. *)
LEMMA CostWrittenAt ==
    ASSUME Sound, Held, Differ, NEW r \in Request, CostWrite(r), NEW pair \in Product \X Supplier
    PROVE  costs'[pair] = costs[pair] \/ \E date \in Date : Renewed(costs[pair], costs'[pair], date)
  <1>1. PICK q : q = req[r]
    OBVIOUS
  <1>2. q.step = "cost" /\ Stands(q) /\ TypeOK
    BY <1>1 DEF CostWrite, Held, Sound
  <1>3. q.product \in Product /\ q.supplier \in Supplier /\ q.cost \in Cost /\ q.date \in Date
    BY <1>1, <1>2, RequestShape
  <1>4. PICK own \in Product \X Supplier : own = <<q.product, q.supplier>>
    BY <1>3
  <1>5. PICK row \in Recorded \cup {NoCost} : row = costs[own]
    BY <1>2 DEF TypeOK
  <1>6. AcceptsCost(row, q.date) /\ q.branch = Branch(row, q.cost)
    BY <1>2, <1>4, <1>5 DEF Stands
  <1>7. PICK x : x = WithCost(row, q.branch, q.cost, q.date)
    OBVIOUS
  <1>8. costs' = [costs EXCEPT ![own] = x]
    BY <1>1, <1>2, <1>4, <1>5, <1>7 DEF CostWrite
  <1>9. Renewed(row, x, q.date)
    <2>1. row # NoCost => row.was # row.cost
      BY <1>5 DEF Differ
    <2>2. x = WithCost(row, Branch(row, q.cost), q.cost, q.date)
      BY <1>6, <1>7
    <2> QED BY <1>3, <1>6, <2>1, <2>2, CostRenewed
  <1>10. costs'[pair] = IF pair = own THEN x ELSE costs[pair]
    BY <1>2, <1>8 DEF TypeOK
  <1> QED BY <1>3, <1>5, <1>9, <1>10

(* A numbered purchase keeps its header: only a draft's is written. *)
LEMMA HeadersKept ==
    ASSUME Sound, Held, Document!NumbersInOrder, [Next]_vars,
           NEW p \in 1..Len(purchases), Numbered(p)
    PROVE  purchases'[p].header = purchases[p].header
  <1>1. purchases \in Seq(Purchase) /\ Typed /\ Len(purchases) \in Nat
    BY LenProperties DEF Sound, TypeOK
  <1>2. ASSUME NEW k \in 1..Len(purchases), NEW x, purchases' = [purchases EXCEPT ![k] = x],
               purchases[k].number = NoNumber \/ x.header = purchases[k].header
        PROVE  purchases'[p].header = purchases[p].header
    <2>1. /\ purchases'[k] = x
          /\ \A t \in 1..Len(purchases) : t # k => purchases'[t] = purchases[t]
      BY <1>1, <1>2
    <2> QED BY <1>2, <2>1 DEF Numbered
  <1>3. ASSUME NEW r \in Request, ConfirmUnit(r) PROVE purchases'[p].header = purchases[p].header
    <2>1. PICK t, number : Confirms(t, number)
      BY <1>3, ConfirmsRead
    <2>2. /\ purchases'[t].header = purchases[t].header
          /\ \A k \in 1..Len(purchases) : k # t => purchases'[k] = purchases[k]
      BY <2>1, ConfirmedTable
    <2> QED BY <2>2
  <1>4. ASSUME Drafting PROVE purchases'[p].header = purchases[p].header
    <2>1. ASSUME NEW header, CreateDraft(header) PROVE purchases'[p].header = purchases[p].header
      BY <1>1, <2>1 DEF CreateDraft
    <2>2. ASSUME NEW k \in 1..Len(purchases), NEW lines, EditLines(k, lines)
          PROVE  purchases'[p].header = purchases[p].header
      BY <1>1, <1>2, <2>2 DEF EditLines, Rewrite, Is, Typed
    <2>3. ASSUME NEW k \in 1..Len(purchases), DeleteDraft(k)
          PROVE  purchases'[p].header = purchases[p].header
      BY <1>1, <1>2, <2>3 DEF DeleteDraft, Rewrite, Is, Typed
    <2> QED BY <1>4, <2>1, <2>2, <2>3 DEF Drafting, AddLine, UpdateLine, RemoveLine
  <1>5. ASSUME NEW r \in Request, HeaderWrite(r) \/ Discard(r)
        PROVE  purchases'[p].header = purchases[p].header
    <2>1. PICK k : k = req[r].purchase
      OBVIOUS
    <2>2. k \in 1..Len(purchases) /\ purchases[k].number = NoNumber
      BY <1>1, <1>5, <2>1 DEF HeaderWrite, Discard, Typed, Relies, Held, Stands
    <2> QED BY <1>2, <1>5, <2>1, <2>2 DEF HeaderWrite, Discard, Close, Rewrite
  <1>6. ASSUME NEW r \in Request, CancelClose(r) PROVE purchases'[p].header = purchases[p].header
    <2>1. PICK k, old : k = req[r].purchase /\ old = purchases[k]
      OBVIOUS
    <2>2. k \in 1..Len(purchases)
      BY <1>1, <1>6, <2>1 DEF CancelClose, Typed, Relies, Cancelling
    <2>3. old \in Purchase
      BY <1>1, <2>1, <2>2, ElementOfSeq
    <2>4. PICK x : x = [old EXCEPT !.status = "Cancelled"]
      OBVIOUS
    <2>5. x.header = old.header /\ purchases' = [purchases EXCEPT ![k] = x]
      BY <1>6, <2>1, <2>3, <2>4 DEF CancelClose, Close, Rewrite, Purchase
    <2> QED BY <1>2, <2>1, <2>2, <2>5
  <1>7. UNCHANGED purchases => purchases'[p].header = purchases[p].header
    OBVIOUS
  <1>8. \A r \in Request : Starts(r) \/ Quit(r) => UNCHANGED purchases
    BY FirstWritesNothing
  <1>9. ASSUME NEW r \in Request, Works(r)
        PROVE  \/ HeaderWrite(r) \/ Discard(r) \/ CancelClose(r) \/ ConfirmUnit(r)
               \/ UNCHANGED purchases
    BY <1>9 DEF Works, PayCheck, PayPost, PayLink, OutCheck, OutInsert, RefundPost, RefundLink,
                CostWrite, MoveInsert, Unwritten
  <1>10. UNCHANGED vars => UNCHANGED purchases
    BY DEF vars
  <1> QED BY <1>3, <1>4, <1>5, <1>6, <1>7, <1>8, <1>9, <1>10 DEF Next

-----------------------------------------------------------------------------
(* Dates of costs only advance. *)
LEMMA RecentStays ==
    ASSUME Sound, NEW p \in 1..Len(purchases), NEW pair \in Product \X Supplier,
           Recent(p, costs[pair]), NEW date \in Date, NEW new, Renewed(costs[pair], new, date)
    PROVE  Recent(p, new)
  <1>1. costs[pair] \in Recorded /\ costs[pair].since \in Date /\ costs[pair] # NoCost
    BY CostDated DEF Recent, Sound
  <1>2. purchases[p].header.date \in Date
    BY AgedIs DEF Sound, TypeOK
  <1>3. PICK d, e \in Date : d = costs[pair].since /\ e = purchases[p].header.date
    BY <1>1, <1>2
  <1>4. d \in Date
    BY <1>1, <1>3
  <1>5. d[1] \in Nat /\ d[2] \in Nat /\ e[1] \in Nat /\ e[2] \in Nat /\ date[1] \in Nat /\ date[2] \in Nat
    BY <1>3, <1>4, DateShape
  <1>6. ~ Earlier(d, e) /\ ~ Earlier(date, d)
    BY <1>1, <1>3 DEF Recent, Renewed, AcceptsCost
  <1>7. ~ Earlier(date, e)
    BY <1>5, <1>6 DEF Earlier
  <1> QED BY <1>3, <1>7 DEF Recent, Renewed

LEMMA CurrentStep ==
    ASSUME Sound, Sound', Held, Document!NumbersInOrder, Current, [Next]_vars
    PROVE  Current'
  <1>1. Differ /\ TypeOK /\ Len(purchases) \in Nat
    BY LenProperties DEF Current, Sound, TypeOK
  <1>2. ASSUME \A pair \in Product \X Supplier :
                   costs'[pair] = costs[pair] \/ \E date \in Date : Renewed(costs[pair], costs'[pair], date)
        PROVE  /\ Differ'
               /\ \A p \in 1..Len(purchases) : Numbered(p) =>
                      \A pair \in Product \X Supplier : Charged(p, pair) => Recent(p, costs'[pair])
    <2>1. Differ'
      BY <1>1, <1>2 DEF Differ, Renewed
    <2>2. ASSUME NEW p \in 1..Len(purchases), Numbered(p), NEW pair \in Product \X Supplier,
                 Charged(p, pair)
          PROVE  Recent(p, costs'[pair])
      <3>1. Recent(p, costs[pair])
        BY <2>2 DEF Current
      <3> QED BY <1>2, <2>2, <3>1, RecentStays
    <2> QED BY <2>1, <2>2
  <1>3. ASSUME NEW p \in 1..Len(purchases), Numbered(p), NEW pair
        PROVE  /\ Charged(p, pair)' => Charged(p, pair)
               /\ \A row : Recent(p, row) => Recent(p, row)'
    <2>1. purchases'[p].header = purchases[p].header
      BY <1>3, HeadersKept
    <2>2. purchases'[p].lines = purchases[p].lines
      BY <1>3, StepOnTable, TableFrozen DEF Sound, RecordsKept
    <2> QED BY <2>1, <2>2 DEF Charged, Recent
  <1>4. ASSUME NEW p \in 1..Len(purchases), Numbered(p), NEW pair \in Product \X Supplier,
               Charged(p, pair)',
               \A pr \in Product \X Supplier : Charged(p, pr) => Recent(p, costs'[pr])
        PROVE  Recent(p, costs[pair])'
    <2>1. PICK row : row = costs'[pair]
      OBVIOUS
    <2>2. Recent(p, row)
      BY <1>3, <1>4, <2>1
    <2>3. Recent(p, row)'
      BY <1>3, <1>4, <2>2
    <2> QED BY <2>1, <2>3 DEF Recent
  <1>5. ASSUME NEW r \in Request, ConfirmUnit(r) PROVE Current'
    <2>1. PICK p, number : Confirms(p, number)
      BY <1>5, ConfirmsRead
    <2>2. /\ p \in 1..Len(purchases) /\ purchases[p] \in Purchase
          /\ Len(purchases') = Len(purchases)
          /\ purchases'[p].lines = purchases[p].lines /\ purchases'[p].header = purchases[p].header
          /\ \A t \in 1..Len(purchases) : t # p => purchases'[t] = purchases[t]
      BY <2>1, ConfirmedTable
    <2>3. costs' = CostsOf(purchases[p]) /\ CostsAccept(purchases[p])
      BY <2>1 DEF Confirms
    <2>4. PICK date \in Date : date = purchases[p].header.date
      BY <2>2, AgedIs DEF Sound, TypeOK
    <2>5. \A pair \in Product \X Supplier :
              IF Charged(p, pair) THEN Renewed(costs[pair], costs'[pair], date)
                                  ELSE costs'[pair] = costs[pair]
      BY <1>1, <2>2, <2>3, <2>4, CostsOfAt
    <2>6. /\ Differ'
          /\ \A t \in 1..Len(purchases) : Numbered(t) =>
                 \A pair \in Product \X Supplier : Charged(t, pair) => Recent(t, costs'[pair])
      BY <1>2, <2>5
    <2>7. ASSUME NEW t \in 1..Len(purchases'), purchases'[t].number # NoNumber,
                 NEW pair \in Product \X Supplier, Charged(t, pair)'
          PROVE  Recent(t, costs[pair])'
      <3>1. CASE t # p
        BY <1>4, <2>2, <2>6, <2>7, <3>1 DEF Numbered
      <3>2. CASE t = p
        <4>1. Charged(p, pair)
          BY <2>2, <2>7, <3>2 DEF Charged
        <4>2. PICK row : row = costs'[pair]
          OBVIOUS
        <4>3. row # NoCost /\ row.since = date
          BY <2>5, <4>1, <4>2 DEF Renewed
        <4>4. ~ Earlier(date, date)
          BY NotEarlierThanItself
        <4> QED BY <2>2, <2>4, <3>2, <4>2, <4>3, <4>4 DEF Recent
      <3> QED BY <3>1, <3>2
    <2> QED BY <2>6, <2>7 DEF Current, Numbered
  <1>6. ASSUME UNCHANGED lastNumber, UNCHANGED costs \/ \E r \in Request : CostWrite(r)
        PROVE  Current'
    <2>1. PurchasesQuiet
      BY <1>6, StepOnTable, QuietTable DEF Sound
    <2>2. \A pair \in Product \X Supplier :
              costs'[pair] = costs[pair] \/ \E date \in Date : Renewed(costs[pair], costs'[pair], date)
      BY <1>1, <1>6, CostWrittenAt
    <2>3. /\ Differ'
          /\ \A t \in 1..Len(purchases) : Numbered(t) =>
                 \A pair \in Product \X Supplier : Charged(t, pair) => Recent(t, costs'[pair])
      BY <1>2, <2>2
    <2>4. ASSUME NEW t \in 1..Len(purchases'), purchases'[t].number # NoNumber,
                 NEW pair \in Product \X Supplier, Charged(t, pair)'
          PROVE  Recent(t, costs[pair])'
      <3>1. t \in 1..Len(purchases) /\ Numbered(t)
        BY <2>1, <2>4 DEF PurchasesQuiet, Numbered
      <3> QED BY <1>4, <2>3, <2>4, <3>1
    <2> QED BY <2>3, <2>4 DEF Current, Numbered
  <1> QED BY <1>5, <1>6, ConfirmsOrNot

LEMMA CurrentMeans == Sound /\ Current => CostsCurrent
  <1> SUFFICES ASSUME Sound, Current PROVE CostsCurrent
    OBVIOUS
  <1>1. ASSUME NEW p \in 1..Len(purchases), Numbered(p), NEW i \in 1..Len(purchases[p].lines),
               NEW pair, pair = <<purchases[p].lines[i].product, purchases[p].header.supplier>>
        PROVE  costs[pair] # NoCost /\ ~ Earlier(costs[pair].since, purchases[p].header.date)
    <2>1. PICK x \in Purchase : x = purchases[p]
      BY <1>1, RowsTyped DEF Sound
    <2>2. x.header.supplier \in Supplier /\ x.lines \in Seq(Line)
      BY DEF Purchase, Header
    <2>3. x.lines[i] \in Line
      BY <1>1, <2>1, <2>2, ElementOfSeq
    <2>4. pair \in Product \X Supplier
      BY <1>1, <2>1, <2>2, <2>3 DEF Line
    <2> QED BY <1>1, <2>4 DEF Current, Charged, Recent
  <1> QED BY <1>1 DEF CostsCurrent, Current, Differ

(* Where requests are served one at a time, what a supplier charges for a  *)
(* product is on record with a date no earlier than that of any purchase   *)
(* confirmed from him, and beside it a previous cost that differed: every  *)
(* write, of a confirm or by hand, is at a date the row accepts, and       *)
(* displaces only another cost.                                            *)
THEOREM PurchaseCostsCurrent == OneAtATime => (Spec => []CostsCurrent)
  <1>1. Init => Current
    BY DEF Init, Current, Differ
  <1>2. Sound /\ Sound' /\ Held /\ Document!NumbersInOrder /\ Current /\ [Next]_vars => Current'
    BY CurrentStep
  <1>3. Sound /\ Current => CostsCurrent
    BY CurrentMeans
  <1>4. CASE OneAtATime
    <2>1. Spec => [](Alone /\ Held)
      BY <1>4, AlwaysHeld
    <2> QED BY <1>1, <1>2, <1>3, <2>1, AlwaysSound, PurchaseNumbersDense, PTL DEF Spec
  <1> QED BY <1>4

=============================================================================
