-------------------------------- MODULE Receipts --------------------------------
(***************************************************************************)
(* The customer receipt (services/customer_receipts.rs) over Sales: one    *)
(* handover of money, planned over the customer's debts, recorded as a     *)
(* receipt row and then as one payment of each sale in the plan, every     *)
(* payment with the commits and the refusals it has in Sales.              *)
(*                                                                         *)
(* Sales has no due dates, so a plan may take the debts in any order.  A   *)
(* receipt is never deleted: delete_receipt has no caller but the tests.   *)
(***************************************************************************)
EXTENDS Sales

CONSTANTS Collected,   \* amounts a customer may hand over
          MaxReceipts  \* bound on receipts ever created

ASSUME ReceiptsAssumption == Collected \subseteq Nat \ {0} /\ MaxReceipts \in Nat

VARIABLES receipts,   \* customer_receipts by id: customer, and the amount handed over,
                      \* which the code does not store
          grouped,    \* sale_payments.receipt_id, by payment id; 0 is NULL
          collecting  \* the collection a request is serving, if any

receiptVars == <<receipts, grouped, collecting>>
collectVars == <<sales, lastNumber, moves, entries, payments, req, receipts, grouped, collecting>>

NoCollection == [plan |-> <<>>]

Collects(r) == collecting[r] # NoCollection

ReceiptsInit ==
    /\ Init
    /\ receipts = <<>> /\ grouped = <<>>
    /\ collecting = [r \in Request |-> NoCollection]

Debts(c) == {s \in 1..Len(sales) : Owes(sales[s], c) /\ Due(s) > 0}

\* Mutant: a debt is the whole total of its sale.
DebtTotal(s) == Total(sales[s].lines)

DebtOf(s) == Due(s)

\* What the debts that come before the i-th take of the amount.
Before(order, i) == SumOver([k \in 1..Len(order) |-> DebtOf(order[k])], i - 1)

\* The debts in order, each filled until the amount is used up.
PlanAllocations(order, amount) ==
    LET covered == {i \in 1..Len(order) : Before(order, i) < amount}
        take(i) == IF DebtOf(order[i]) <= amount - Before(order, i) THEN DebtOf(order[i])
                   ELSE amount - Before(order, i)
    IN  [i \in 1..Cardinality(covered) |-> [sale |-> order[i], amount |-> take(i)]]

Planned(plan) == SumOver([i \in 1..Len(plan) |-> plan[i].amount], Len(plan))

\* Nothing is served beside a collection, where requests are served alone.
Uncollected == OneAtATime => \A r \in Request : ~ Collects(r)

CollectRead(r, c, amount) ==
    /\ Free(r) /\ Uncollected /\ Room /\ Len(receipts) < MaxReceipts
    /\ amount <= Debt(c)
    /\ \E order \in SetToSeqs(Debts(c)) :
        /\ Planned(PlanAllocations(order, amount)) = amount
        /\ collecting' = [collecting EXCEPT ![r] =
               [customer |-> c, receipt |-> 0, plan |-> PlanAllocations(order, amount)]]
    /\ UNCHANGED <<vars, receipts, grouped>>

ReceiptInsert(r) ==
    /\ Collects(r) /\ req[r] = Idle /\ collecting[r].receipt = 0
    /\ receipts' = Append(receipts, [customer |-> collecting[r].customer,
                                     handed |-> Planned(collecting[r].plan)])
    /\ collecting' = [collecting EXCEPT ![r].receipt = Len(receipts) + 1]
    /\ UNCHANGED <<vars, grouped>>

\* record_payment_with_receipt of the next sale, up to its first write.
Payable(allocation) == Is(allocation.sale, "Confirmed") /\ allocation.amount <= Due(allocation.sale)

AllocationRead(r) ==
    /\ Collects(r) /\ req[r] = Idle /\ collecting[r].receipt # 0
    /\ LET next == Head(collecting[r].plan)
       IN  /\ Payable(next)
           /\ Becomes(r, [step |-> "payPost", sale |-> next.sale, amount |-> next.amount])
    /\ Unwritten /\ UNCHANGED receiptVars

AllocationPost(r, a) == Collects(r) /\ PayPost(r, a) /\ UNCHANGED receiptVars

Rest(r) ==
    IF Len(collecting[r].plan) = 1 THEN NoCollection
    ELSE [collecting[r] EXCEPT !.plan = Tail(@)]

AllocationLink(r) ==
    /\ Collects(r) /\ PayLink(r)
    /\ grouped' = Append(grouped, collecting[r].receipt)
    /\ collecting' = [collecting EXCEPT ![r] = Rest(r)]
    /\ UNCHANGED receipts

\* A collection ends where an allocation is refused or, if requests may fail, anywhere.
Stops(r) ==
    \/ MayFail
    \/ collecting[r].receipt = 0
    \/ req[r] = Idle /\ ~ Payable(Head(collecting[r].plan))
    \/ req[r].step = "payLink" /\ entries[req[r].tx].kind = "deleted"

CollectQuit(r) ==
    /\ Collects(r) /\ Stops(r)
    /\ Becomes(r, Idle) /\ collecting' = [collecting EXCEPT ![r] = NoCollection]
    /\ Unwritten /\ UNCHANGED <<receipts, grouped>>

Collecting(r) ==
    \/ ReceiptInsert(r) \/ AllocationRead(r) \/ AllocationLink(r)
    \/ \E a \in Account : AllocationPost(r, a)

\* A step of Sales, by a request that collects nothing or by hand.
SaleStep ==
    /\ Uncollected /\ Next
    /\ \A r \in Request : Collects(r) => req'[r] = req[r]
    /\ grouped' = grouped \o [i \in 1..(Len(payments') - Len(payments)) |-> 0]
    /\ UNCHANGED <<receipts, collecting>>

ReceiptsNext ==
    \/ SaleStep
    \/ \E r \in Request :
        \/ \E c \in Customer, amount \in Collected : CollectRead(r, c, amount)
        \/ Collecting(r) \/ CollectQuit(r)

ReceiptsSpec == ReceiptsInit /\ [][ReceiptsNext]_collectVars

\* The runtime polls a request until it has answered.
ServesSale(r) == ~ Collects(r) /\ Works(r) /\ SaleStep

FairReceiptsSpec ==
    ReceiptsSpec /\ \A r \in Request : WF_collectVars(ServesSale(r)) /\ WF_collectVars(Collecting(r))

-----------------------------------------------------------------------------

GroupedBy(k) ==
    SumOver([i \in 1..Len(payments) |-> IF grouped[i] = k THEN payments[i].amount ELSE 0],
            Len(payments))

(* A receipt groups exactly the money that was handed over, in payments of *)
(* its own customer's sales: no plan made of one reading of the debts is   *)
(* refused half way, where the collection is served alone.                 *)
ReceiptExplained ==
    /\ Len(grouped) = Len(payments)
    /\ \A i \in 1..Len(payments) : grouped[i] # 0 =>
           sales[payments[i].sale].customer = receipts[grouped[i]].customer
    /\ \A k \in 1..Len(receipts) :
           (\A r \in Request : Collects(r) => collecting[r].receipt # k) =>
               GroupedBy(k) = receipts[k].handed

=============================================================================
