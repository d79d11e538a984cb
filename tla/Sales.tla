-------------------------------- MODULE Sales --------------------------------
(***************************************************************************)
(* The sale document: draft, confirm, pay, annul, delete                   *)
(* (services/sales.rs and repositories/sale_repo.rs), with the stock       *)
(* movements, finance transactions and payment rows it writes.             *)
(*                                                                         *)
(* A request is a process, as in Finance.  confirm commits one unit, but   *)
(* from a document and lines it read before; a payment is a read, an       *)
(* Income and a payment row; an annulment is a read, a movement per line,  *)
(* and an Expense and a link per payment, each committed by itself.        *)
(* Reads that nothing can tell apart from one read are one step.  Refusals *)
(* that depend on the catalogue only (inactive product, method without     *)
(* account, missing due date) change nothing and are among those of Quit.  *)
(* The guard and the insert of one finance transaction are one step here:  *)
(* the race between them is what Finance is about.                         *)
(***************************************************************************)
EXTENDS Sums, SequencesExt

CONSTANTS Product, Tracked,      \* products, and those whose stock is tracked
          Customer, WalkIn,      \* customers, and "Consumidor final"
          Account, Year,         \* cash accounts; years of a sale date
          Qty, LineTotal,        \* quantities and tax-inclusive totals of a line
          PayAmount,             \* amounts a payment or a withdrawal may name
          Opening,               \* stock of every tracked product at the start
          Limited, Limit,        \* customers with a credit limit, and the limit
          EnforceLimit, AllowNegativeStock, AllowNegativeBalance,  \* configuration
          Request,               \* request slots
          OneAtATime,            \* a request is served only while no other is
          MayFail,               \* a request may die between two of its writes
          Manual,                \* which manual finance operations take place
          MaxSales, MaxLines,    \* bounds on sales ever created and lines per sale
          MaxMoves, MaxEntries   \* no request starts once a ledger has so many rows

ASSUME SalesAssumption ==
    /\ Tracked \subseteq Product /\ Limited \subseteq Customer
    /\ Qty \subseteq Nat \ {0} /\ LineTotal \subseteq Nat /\ PayAmount \subseteq Nat \ {0}
    /\ Opening \in Nat /\ Limit \in Nat
    /\ MaxSales \in Nat /\ MaxLines \in Nat /\ MaxMoves \in Nat /\ MaxEntries \in Nat

VARIABLES sales,     \* the sale rows by id, each with its lines
          lastNumber, \* doc_sequences of SALE, by year
          moves,     \* stock movements of sales, by id
          entries,   \* finance transactions, by id
          payments,  \* sale_payments, by id
          req        \* what each request has read and is about to do

vars == <<sales, lastNumber, moves, entries, payments, req>>

NoNumber == <<>>
Number == {NoNumber} \cup (Year \X (Nat \ {0}))

Status == {"Draft", "Confirmed", "Cancelled", "deleted"}

Line == [product : Product, qty : Qty, total : LineTotal]

Sale == [status : Status, number : Number, year : Year, ptype : {"Cash", "Credit"},
         customer : Customer, lines : Seq(Line)]

Move == [product : Tracked, out : BOOLEAN, qty : Qty, number : Number]

Kind == {"Income", "Expense"}

Entry == [kind : Kind \cup {"deleted"}, account : Account, amount : Nat \ {0}, number : Number]

\* tx and refund are ids of entries; refund 0 is NULL.
Payment == [sale : Nat \ {0}, account : Account, amount : Nat \ {0}, tx : Nat \ {0}, refund : Nat]

Idle == [step |-> "idle"]

SaleId == 1..MaxSales

RequestState ==
    {Idle}
    \cup [step : {"header"}, sale : SaleId, year : Year]
    \cup [step : {"confirmCheck", "confirmUnit"}, sale : SaleId, seen : Sale]
    \cup [step : {"payPost"}, sale : SaleId, amount : PayAmount]
    \cup [step : {"payLink"}, sale : SaleId, account : Account, amount : PayAmount, tx : Nat \ {0}]
    \cup [step : {"discard"}, sale : SaleId]
    \cup [step : {"cancelCheck", "reverse"}, sale : SaleId, lines : SUBSET Nat,
           pays : SUBSET Nat]
    \cup [step : {"link"}, sale : SaleId, lines : {{}}, pays : SUBSET Nat, tx : Nat \ {0}]

TypeOK ==
    /\ sales \in Seq(Sale) /\ Len(sales) <= MaxSales
    /\ lastNumber \in [Year -> Nat]
    /\ moves \in Seq(Move) /\ entries \in Seq(Entry) /\ payments \in Seq(Payment)
    /\ req \in [Request -> RequestState]

Init ==
    /\ sales = <<>> /\ lastNumber = [y \in Year |-> 0]
    /\ moves = <<>> /\ entries = <<>> /\ payments = <<>>
    /\ req = [r \in Request |-> Idle]

-----------------------------------------------------------------------------
(* What the code folds from the rows.                                      *)

Total(lines) == SumOver([i \in 1..Len(lines) |-> lines[i].total], Len(lines))

Demand(lines, p) ==
    SumOver([i \in 1..Len(lines) |-> IF lines[i].product = p THEN lines[i].qty ELSE 0], Len(lines))

IsOf(pay, s) == pay.sale = s

Paid(s) ==
    SumOver([i \in 1..Len(payments) |->
                IF IsOf(payments[i], s) THEN payments[i].amount ELSE 0], Len(payments))

Due(s) == Total(sales[s].lines) - Paid(s)

Owes(sale, c) == sale.status = "Confirmed" /\ sale.ptype = "Credit" /\ sale.customer = c

Debt(c) ==
    SumOver([s \in 1..Len(sales) |-> IF Owes(sales[s], c) THEN Due(s) ELSE 0], Len(sales))

Level(p) ==
    Opening + SumOver([i \in 1..Len(moves) |->
        IF moves[i].product # p THEN 0
        ELSE IF moves[i].out THEN -moves[i].qty ELSE moves[i].qty], Len(moves))

Signed(kind, amount) ==
    CASE kind = "Income" -> amount [] kind = "Expense" -> -amount [] kind = "deleted" -> 0

Balance(a) ==
    SumOver([i \in 1..Len(entries) |->
        IF entries[i].account = a THEN Signed(entries[i].kind, entries[i].amount) ELSE 0],
        Len(entries))

Solvent(balance) == AllowNegativeBalance \/ balance >= 0

\* Mutant: one movement per product.
TrackedLinesOnce(lines) ==
    LET upto[i \in 0..Len(lines)] ==
            IF i = 0 THEN <<>>
            ELSE IF /\ lines[i].product \in Tracked
                    /\ \A k \in 1..Len(upto[i - 1]) : upto[i - 1][k].product # lines[i].product
            THEN Append(upto[i - 1], lines[i])
            ELSE upto[i - 1]
    IN  upto[Len(lines)]

\* The loop that collects the tracked lines in order (a function, for the proofs).
TrackedLines(lines) ==
    LET upto[i \in 0..Len(lines)] ==
            IF i = 0 THEN <<>>
            ELSE IF lines[i].product \in Tracked THEN Append(upto[i - 1], lines[i])
            ELSE upto[i - 1]
    IN  upto[Len(lines)]

PaymentsOf(s) == {i \in 1..Len(payments) : IsOf(payments[i], s)}

-----------------------------------------------------------------------------

Quiet == OneAtATime => \A r \in Request : req[r] = Idle

Room == Len(moves) < MaxMoves /\ Len(entries) < MaxEntries

Free(r) == req[r] = Idle /\ Quiet

Becomes(r, state) == req' = [req EXCEPT ![r] = state]

Is(s, status) == s \in 1..Len(sales) /\ sales[s].status = status

Numbered(s) == sales[s].number # NoNumber

Rewrite(s, sale) == sales' = [sales EXCEPT ![s] = sale]

Unwritten == UNCHANGED <<sales, lastNumber, moves, entries, payments>>

(* Drafts.  A line statement carries the Draft predicate itself, so the    *)
(* service's earlier reads decide nothing; the header statement does not.  *)

CreateDraft(y, ptype, c) ==
    /\ Quiet /\ Len(sales) < MaxSales
    /\ sales' = Append(sales, [status |-> "Draft", number |-> NoNumber, year |-> y,
                               ptype |-> ptype, customer |-> c, lines |-> <<>>])
    /\ UNCHANGED <<lastNumber, moves, entries, payments, req>>

EditLines(s, lines) ==
    /\ Quiet /\ Is(s, "Draft")
    /\ Rewrite(s, [sales[s] EXCEPT !.lines = lines])
    /\ UNCHANGED <<lastNumber, moves, entries, payments, req>>

AddLine(s, line) ==
    /\ Len(sales[s].lines) < MaxLines
    /\ EditLines(s, Append(sales[s].lines, line))

UpdateLine(s, i, qty, total) ==
    /\ i \in 1..Len(sales[s].lines)
    /\ EditLines(s, [sales[s].lines EXCEPT ![i] = [@ EXCEPT !.qty = qty, !.total = total]])

RemoveLine(s, i) ==
    /\ i \in 1..Len(sales[s].lines)
    /\ EditLines(s, RemoveAt(sales[s].lines, i))

HeaderRead(r, s, y) ==
    /\ Free(r) /\ Is(s, "Draft")
    /\ Becomes(r, [step |-> "header", sale |-> s, year |-> y])
    /\ Unwritten

HeaderWrite(r) ==
    /\ req[r].step = "header"
    /\ sales[req[r].sale].status # "deleted"
    /\ Rewrite(req[r].sale, [sales[req[r].sale] EXCEPT !.year = req[r].year])
    /\ Becomes(r, Idle)
    /\ UNCHANGED <<lastNumber, moves, entries, payments>>

\* Mutant: any cancelled sale may be deleted.
DeleteDraftNumbered(s) ==
    /\ Quiet
    /\ Is(s, "Draft") \/ Is(s, "Cancelled")
    /\ Rewrite(s, [sales[s] EXCEPT !.status = "deleted", !.lines = <<>>])
    /\ UNCHANGED <<lastNumber, moves, entries, payments, req>>

\* The DELETE repeats the service's condition; its CASCADE finds no payment (NothingOutside).
DeleteDraft(s) ==
    /\ Quiet
    /\ Is(s, "Draft") \/ (Is(s, "Cancelled") /\ sales[s].number = NoNumber)
    /\ Rewrite(s, [sales[s] EXCEPT !.status = "deleted", !.lines = <<>>])
    /\ UNCHANGED <<lastNumber, moves, entries, payments, req>>

-----------------------------------------------------------------------------
(* confirm: read document and lines; check credit and stock; then the unit *)
(* posts what was read, with the fold of stock and the Draft predicate     *)
(* evaluated inside it.                                                    *)

ConfirmRead(r, s) ==
    /\ Free(r) /\ Room /\ Is(s, "Draft") /\ sales[s].lines # <<>>
    /\ sales[s].ptype = "Credit" => sales[s].customer # WalkIn
    /\ Becomes(r, [step |-> "confirmCheck", sale |-> s, seen |-> sales[s]])
    /\ Unwritten

WithinLimit(sale, debt) ==
    EnforceLimit /\ sale.ptype = "Credit" /\ sale.customer \in Limited => debt <= Limit

InStock(lines) ==
    \A p \in Tracked : AllowNegativeStock \/ Demand(lines, p) = 0 \/ Level(p) - Demand(lines, p) >= 0

\* Mutant: the projected debt is the document alone.
ConfirmCheckAlone(r) ==
    /\ req[r].step = "confirmCheck"
    /\ WithinLimit(req[r].seen, Total(req[r].seen.lines)) /\ InStock(req[r].seen.lines)
    /\ Becomes(r, [req[r] EXCEPT !.step = "confirmUnit"])
    /\ Unwritten

ConfirmCheck(r) ==
    /\ req[r].step = "confirmCheck"
    /\ LET seen == req[r].seen
       IN  WithinLimit(seen, Debt(seen.customer) + Total(seen.lines)) /\ InStock(seen.lines)
    /\ Becomes(r, [req[r] EXCEPT !.step = "confirmUnit"])
    /\ Unwritten

\* Mutant: the number is read before it is incremented.
NextNumberStale(y) == <<y, lastNumber[y]>>

NextNumber(y) == <<y, lastNumber[y] + 1>>

\* Mutant: set_confirmed has no Draft predicate.
UnitAcceptsAnyStatus(q) == sales[q.sale].status # "deleted" /\ InStock(q.seen.lines)

\* Mutant: only the check before the unit looks at the stock.
UnitAcceptsUnfolded(q) == sales[q.sale].status = "Draft"

UnitAccepts(q) == sales[q.sale].status = "Draft" /\ InStock(q.seen.lines)

ShipLines(lines, number) ==
    LET out == TrackedLines(lines)
    IN  moves' = moves \o [i \in 1..Len(out) |->
            [product |-> out[i].product, out |-> TRUE, qty |-> out[i].qty, number |-> number]]

\* Mutant: the Income is posted without its payment row.
PostCashUnlinked(q, a, number) ==
    LET total == Total(q.seen.lines)
    IN  /\ entries' = IF q.seen.ptype = "Cash" /\ total > 0
                      THEN Append(entries, [kind |-> "Income", account |-> a,
                                            amount |-> total, number |-> number])
                      ELSE entries
        /\ UNCHANGED payments

PostCash(q, a, number) ==
    LET total == Total(q.seen.lines)
    IN  IF q.seen.ptype = "Cash" /\ total > 0
        THEN /\ entries' = Append(entries, [kind |-> "Income", account |-> a,
                                            amount |-> total, number |-> number])
             /\ payments' = Append(payments, [sale |-> q.sale, account |-> a, amount |-> total,
                                              tx |-> Len(entries) + 1, refund |-> 0])
        ELSE UNCHANGED <<entries, payments>>

ConfirmUnit(r, a) ==
    /\ req[r].step = "confirmUnit"
    /\ LET q == req[r]
           number == NextNumber(q.seen.year)
       IN  /\ UnitAccepts(q)
           /\ lastNumber' = [lastNumber EXCEPT ![q.seen.year] = @ + 1]
           /\ ShipLines(q.seen.lines, number)
           /\ PostCash(q, a, number)
           /\ Rewrite(q.sale, [sales[q.sale] EXCEPT !.status = "Confirmed", !.number = number])
    /\ Becomes(r, Idle)

-----------------------------------------------------------------------------
(* record_payment: read the due balance; post the Income; insert the row.  *)

\* Mutant: each payment is measured against the total alone.
PayReadTotal(r, s, amount) ==
    /\ Free(r) /\ Room /\ Is(s, "Confirmed") /\ amount <= Total(sales[s].lines)
    /\ Becomes(r, [step |-> "payPost", sale |-> s, amount |-> amount])
    /\ Unwritten

PayRead(r, s, amount) ==
    /\ Free(r) /\ Room /\ Is(s, "Confirmed") /\ amount <= Due(s)
    /\ Becomes(r, [step |-> "payPost", sale |-> s, amount |-> amount])
    /\ Unwritten

PayPost(r, a) ==
    /\ req[r].step = "payPost"
    /\ entries' = Append(entries, [kind |-> "Income", account |-> a, amount |-> req[r].amount,
                                   number |-> sales[req[r].sale].number])
    /\ Becomes(r, [step |-> "payLink", sale |-> req[r].sale, account |-> a,
                   amount |-> req[r].amount, tx |-> Len(entries) + 1])
    /\ UNCHANGED <<sales, lastNumber, moves, payments>>

PaymentRow(q, tx) ==
    [sale |-> q.sale, account |-> q.account, amount |-> q.amount, tx |-> tx, refund |-> 0]

\* Mutant: the row takes the newest transaction for its own.
PayLinkNewest(r) ==
    /\ req[r].step = "payLink"
    /\ payments' = Append(payments, PaymentRow(req[r], Len(entries)))
    /\ Becomes(r, Idle)
    /\ UNCHANGED <<sales, lastNumber, moves, entries>>

\* The foreign key refuses a transaction deleted since; the request then quits.
PayLink(r) ==
    /\ req[r].step = "payLink" /\ entries[req[r].tx].kind # "deleted"
    /\ payments' = Append(payments, PaymentRow(req[r], req[r].tx))
    /\ Becomes(r, Idle)
    /\ UNCHANGED <<sales, lastNumber, moves, entries>>

(* The manual operations on the finance ledger (Finance has them in full). *)

Linked(id) == \E i \in 1..Len(payments) : id \in {payments[i].tx, payments[i].refund}

ManualExpense(a, amount) ==
    /\ Quiet /\ Room /\ "expense" \in Manual /\ Solvent(Balance(a) - amount)
    /\ entries' = Append(entries, [kind |-> "Expense", account |-> a, amount |-> amount,
                                   number |-> NoNumber])
    /\ UNCHANGED <<sales, lastNumber, moves, payments, req>>

ManualUpdate(id, kind, amount) ==
    /\ Quiet /\ "update" \in Manual /\ entries[id].kind # "deleted"
    /\ LET old == entries[id]
       IN  Solvent(Balance(old.account) - Signed(old.kind, old.amount) + Signed(kind, amount))
    /\ entries' = [entries EXCEPT ![id] = [@ EXCEPT !.kind = kind, !.amount = amount]]
    /\ UNCHANGED <<sales, lastNumber, moves, payments, req>>

ManualDelete(id) ==
    /\ Quiet /\ "delete" \in Manual /\ entries[id].kind # "deleted" /\ ~ Linked(id)
    /\ entries[id].kind = "Income" => Solvent(Balance(entries[id].account) - entries[id].amount)
    /\ entries' = [entries EXCEPT ![id] = [@ EXCEPT !.kind = "deleted"]]
    /\ UNCHANGED <<sales, lastNumber, moves, payments, req>>

-----------------------------------------------------------------------------
(* cancel: a Draft is discarded by a statement without predicate; of a     *)
(* Confirmed sale every tracked line is returned, then every payment is    *)
(* refunded and linked to its refund, then the status is set.              *)

ToReverse(s) ==
    [step |-> "cancelCheck", sale |-> s, pays |-> PaymentsOf(s),
     lines |-> {i \in 1..Len(sales[s].lines) : sales[s].lines[i].product \in Tracked}]

NoRefundYet(s) == \A i \in PaymentsOf(s) : payments[i].refund = 0

\* Mutant: only the refund guard stops a second annulment.
CancelReadAgain(r, s) ==
    /\ Free(r) /\ Room /\ Numbered(s) /\ NoRefundYet(s)
    /\ Becomes(r, ToReverse(s))
    /\ Unwritten

CancelRead(r, s) ==
    /\ Free(r) /\ Room
    /\ \/ /\ Is(s, "Draft")
          /\ Becomes(r, [step |-> "discard", sale |-> s])
       \/ /\ Is(s, "Confirmed") /\ NoRefundYet(s)
          /\ Becomes(r, ToReverse(s))
    /\ Unwritten

Discard(r) ==
    /\ req[r].step = "discard"
    /\ sales[req[r].sale].status # "deleted"
    /\ Rewrite(req[r].sale, [sales[req[r].sale] EXCEPT !.status = "Cancelled"])
    /\ Becomes(r, Idle)
    /\ UNCHANGED <<lastNumber, moves, entries, payments>>

\* What refunding the payments in `pays` takes out of an account.
Refunds(pays, a) ==
    SumOver([i \in 1..Len(payments) |->
        IF i \in pays /\ payments[i].account = a THEN payments[i].amount ELSE 0], Len(payments))

\* Mutant: every payment is checked against the balance by itself.
CancelCheckEach(r) ==
    /\ req[r].step = "cancelCheck"
    /\ \A i \in req[r].pays : Solvent(Balance(payments[i].account) - payments[i].amount)
    /\ Becomes(r, [req[r] EXCEPT !.step = "reverse"])
    /\ Unwritten

CancelCheck(r) ==
    /\ req[r].step = "cancelCheck"
    /\ \A a \in Account :
           Refunds(req[r].pays, a) = 0 \/ Solvent(Balance(a) - Refunds(req[r].pays, a))
    /\ Becomes(r, [req[r] EXCEPT !.step = "reverse"])
    /\ Unwritten

First(ids) == CHOOSE i \in ids : \A j \in ids : i <= j

\* The lines are those read: a confirmed sale's are frozen (RecordFrozen).
ReturnLine(r) ==
    /\ req[r].step = "reverse" /\ req[r].lines # {}
    /\ LET i == First(req[r].lines)
           sale == sales[req[r].sale]
       IN  /\ moves' = Append(moves, [product |-> sale.lines[i].product, out |-> FALSE,
                                      qty |-> sale.lines[i].qty, number |-> sale.number])
           /\ Becomes(r, [req[r] EXCEPT !.lines = @ \ {i}])
    /\ UNCHANGED <<sales, lastNumber, entries, payments>>

\* A refund the account no longer covers ends the annulment where it is.
RefundPost(r) ==
    /\ req[r].step = "reverse" /\ req[r].lines = {} /\ req[r].pays # {}
    /\ LET q == req[r]
           pay == payments[First(q.pays)]
       IN  IF Solvent(Balance(pay.account) - pay.amount)
           THEN /\ entries' = Append(entries, [kind |-> "Expense", account |-> pay.account,
                                               amount |-> pay.amount,
                                               number |-> sales[q.sale].number])
                /\ Becomes(r, [step |-> "link", sale |-> q.sale, lines |-> {}, pays |-> q.pays,
                               tx |-> Len(entries) + 1])
           ELSE Becomes(r, Idle) /\ UNCHANGED entries
    /\ UNCHANGED <<sales, lastNumber, moves, payments>>

RefundLink(r) ==
    /\ req[r].step = "link" /\ entries[req[r].tx].kind # "deleted"
    /\ LET i == First(req[r].pays)
       IN  /\ payments' = [payments EXCEPT ![i] = [@ EXCEPT !.refund = req[r].tx]]
           /\ Becomes(r, [step |-> "reverse", sale |-> req[r].sale, lines |-> {},
                          pays |-> req[r].pays \ {i}])
    /\ UNCHANGED <<sales, lastNumber, moves, entries>>

\* Mutant: the status is set once the goods are back.
CancelCloseEarly(r) ==
    /\ req[r].step = "reverse" /\ req[r].lines = {}
    /\ Rewrite(req[r].sale, [sales[req[r].sale] EXCEPT !.status = "Cancelled"])
    /\ Becomes(r, Idle)
    /\ UNCHANGED <<lastNumber, moves, entries, payments>>

CancelClose(r) ==
    /\ req[r].step = "reverse" /\ req[r].lines = {} /\ req[r].pays = {}
    /\ Rewrite(req[r].sale, [sales[req[r].sale] EXCEPT !.status = "Cancelled"])
    /\ Becomes(r, Idle)
    /\ UNCHANGED <<lastNumber, moves, entries, payments>>

\* A request is refused or dropped before its first write; later it ends there if
\* its transaction is gone, or if requests may fail.
Quit(r) ==
    /\ req[r] # Idle
    /\ \/ MayFail \/ req[r].step \notin {"payLink", "reverse", "link"}
       \/ req[r].step \in {"payLink", "link"} /\ entries[req[r].tx].kind = "deleted"
    /\ Becomes(r, Idle)
    /\ Unwritten

Drafting ==
    \/ \E y \in Year, ptype \in {"Cash", "Credit"}, c \in Customer : CreateDraft(y, ptype, c)
    \/ \E s \in 1..Len(sales) :
        \/ \E line \in Line : AddLine(s, line)
        \/ \E i \in 1..MaxLines, qty \in Qty, total \in LineTotal : UpdateLine(s, i, qty, total)
        \/ \E i \in 1..MaxLines : RemoveLine(s, i)
        \/ DeleteDraft(s)

Works(r) ==
    \/ HeaderWrite(r) \/ Discard(r)
    \/ ConfirmCheck(r) \/ \E a \in Account : ConfirmUnit(r, a)
    \/ \E a \in Account : PayPost(r, a)
    \/ PayLink(r)
    \/ CancelCheck(r) \/ ReturnLine(r) \/ RefundPost(r) \/ RefundLink(r) \/ CancelClose(r)

Starts(r) ==
    \E s \in 1..Len(sales) :
        \/ \E y \in Year : HeaderRead(r, s, y)
        \/ ConfirmRead(r, s) \/ CancelRead(r, s)
        \/ \E amount \in PayAmount : PayRead(r, s, amount)

Next ==
    \/ Drafting
    \/ \E a \in Account, amount \in PayAmount : ManualExpense(a, amount)
    \/ \E id \in 1..Len(entries) :
        \/ ManualDelete(id)
        \/ \E kind \in Kind, amount \in PayAmount : ManualUpdate(id, kind, amount)
    \/ \E r \in Request : Starts(r) \/ Works(r) \/ Quit(r)

Spec == Init /\ [][Next]_vars

\* The runtime polls a request until it has answered.
FairSpec == Spec /\ \A r \in Request : WF_vars(Works(r))

-----------------------------------------------------------------------------

(* The document a sale row is: its header date is left out, because it may *)
(* change after the number was given (HeaderWrite has no Draft predicate). *)
Body == [ptype : {"Cash", "Credit"}, customer : Customer, lines : Seq(Line)]

AsDocument(sale) ==
    [status |-> sale.status, number |-> sale.number,
     body |-> [ptype |-> sale.ptype, customer |-> sale.customer, lines |-> sale.lines]]

docs == [s \in 1..Len(sales) |-> AsDocument(sales[s])]

Document == INSTANCE SaleDocument
                WITH docs <- docs, lastNumber <- lastNumber, Year <- Year, Body <- Body

(* Every step on the sales is a step of a document, or leaves it alone.    *)
IsDocument == Document!Spec

(* Document numbers leave no gap and are never shared: the numbers of a    *)
(* year are exactly 1..lastNumber, each on one sale, whatever confirms     *)
(* raced, failed or were retried (next_number_in inside the unit).         *)
NumbersInOrder == Document!NumbersInOrder

(* A sale that never confirmed has no number, and nothing in the ledgers   *)
(* belongs to it: no payment of a draft, a discarded or a deleted sale, no *)
(* movement or transaction under a number no sale carries.                 *)
NothingOutside ==
    /\ \A s \in 1..Len(sales) :
           /\ sales[s].status \in {"Draft", "deleted"} => ~ Numbered(s)
           /\ sales[s].status = "Confirmed" => Numbered(s)
    /\ \A i \in 1..Len(payments) : Numbered(payments[i].sale)
    /\ \A i \in 1..Len(moves) : \E s \in 1..Len(sales) : Numbered(s) /\ sales[s].number = moves[i].number
    /\ \A i \in 1..Len(entries) :
           entries[i].number = NoNumber \/ \E s \in 1..Len(sales) : sales[s].number = entries[i].number

(* Every payment row refers to a transaction of its own that still exists, *)
(* on its account and under its document's number, and a refunded one to   *)
(* another such: no two references share a transaction (transaction_id,    *)
(* refund_transaction_id), although the row is written after it was posted *)
(* and a transaction may be edited or deleted by hand in between.          *)
Backed(i, id) ==
    /\ id \in 1..Len(entries)
    /\ entries[id].kind # "deleted"
    /\ entries[id].account = payments[i].account
    /\ entries[id].number = sales[payments[i].sale].number

PaymentsPosted ==
    /\ \A i \in 1..Len(payments) :
           /\ Backed(i, payments[i].tx)
           /\ payments[i].refund # 0 => Backed(i, payments[i].refund)
           /\ payments[i].refund # payments[i].tx
    /\ \A i, j \in 1..Len(payments) :
           i # j => {payments[i].tx, payments[i].refund}
                      \cap {payments[j].tx, payments[j].refund} \subseteq {0}

(* A confirmed sale keeps its number, its lines, its customer and terms,   *)
(* is never a draft again or deleted, and an annulled one stays annulled,  *)
(* although header, discard and annulment are written without predicate.   *)
RecordFrozen == [][Document!FrozenStep]_vars

(* Where stock may not go negative, no step takes units out of a product   *)
(* that does not have them, also when another sale took them since the     *)
(* confirm checked (the fold inside the unit).                             *)
ShipsCovered ==
    [][~ AllowNegativeStock => \A p \in Tracked : Level(p)' < Level(p) => Level(p)' >= 0]_vars

-----------------------------------------------------------------------------

MovedBy(number, p, out) ==
    SumOver([i \in 1..Len(moves) |->
        IF moves[i].number = number /\ moves[i].product = p /\ moves[i].out = out
        THEN moves[i].qty ELSE 0], Len(moves))

(* A confirmed or annulled sale has shipped exactly the units of its lines. *)
ShippedAsSold ==
    \A s \in 1..Len(sales), p \in Tracked :
        Numbered(s) => MovedBy(sales[s].number, p, TRUE) = Demand(sales[s].lines, p)

(* An annulled sale is fully reversed: every unit shipped has come back    *)
(* and every payment is refunded.                                          *)
AnnulledReversed ==
    \A s \in 1..Len(sales) : sales[s].status = "Cancelled" /\ Numbered(s) =>
        /\ \A p \in Tracked : MovedBy(sales[s].number, p, FALSE) = MovedBy(sales[s].number, p, TRUE)
        /\ \A i \in PaymentsOf(s) : payments[i].refund # 0

(* No more units of a sale come back than were shipped.                    *)
ReturnedOnce ==
    \A s \in 1..Len(sales), p \in Tracked :
        Numbered(s) => MovedBy(sales[s].number, p, FALSE) <= MovedBy(sales[s].number, p, TRUE)

(* The payments of a sale never exceed its total.                          *)
PaidWithinTotal == \A s \in 1..Len(sales) : Paid(s) <= Total(sales[s].lines) \/ ~ Numbered(s)

(* A cash sale is paid in full by the confirm itself.                      *)
CashSettled ==
    \A s \in 1..Len(sales) : Numbered(s) /\ sales[s].ptype = "Cash" => Due(s) = 0

(* A customer with a limit never owes more than the limit.                 *)
DebtWithinLimit == EnforceLimit => \A c \in Limited : Debt(c) <= Limit

(* Once its balance check has passed, an annulment served alone always     *)
(* reaches Cancelled: no refund is refused half way.                       *)
AnnulmentCompletes ==
    \A r \in Request, s \in SaleId :
        req[r].step = "reverse" /\ req[r].sale = s ~> Is(s, "Cancelled")

=============================================================================
