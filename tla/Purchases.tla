------------------------------- MODULE Purchases -------------------------------
(***************************************************************************)
(* The purchase document (services/purchases.rs and purchase_repo.rs),     *)
(* with what its flows write: the stock movements, the Expenses and        *)
(* payment rows, and the cost each supplier charges for a product          *)
(* (services/suppliers.rs), also recorded by hand; and the movements of    *)
(* stock entered by hand (services/inventory.rs).                          *)
(*                                                                         *)
(* A request is a process, as in Sales.  confirm is one unit over what it  *)
(* read before; a payment is a read, an Expense and a row; pay_supplier is *)
(* a plan of such payments; an annulment takes the goods out line by line, *)
(* each line a level read and an insert, and then refunds and links        *)
(* payment by payment.  Reads that nothing can tell apart from one read    *)
(* are one step; so are the guard and the insert of a finance transaction  *)
(* (Finance has that race).  Refusals that depend on the catalogue or on   *)
(* payment methods only are among those of Quit.                           *)
(***************************************************************************)
EXTENDS Sums, SequencesExt

CONSTANTS Product, Tracked,     \* products, and those whose stock is tracked
          Supplier, Account,
          Year, Day,            \* a date is a year and a day of it
          Qty, Cost,            \* quantities and unit costs of a line
          Headers, Lines,       \* the headers and lines callers give a draft
          Gross(_, _),          \* what a quantity at a cost comes to, tax included
          PayAmount,            \* amounts a caller of a payment may name
          Opening, Funds,       \* stock of a tracked product, balance of an account, at the start
          AllowNegativeStock, AllowNegativeBalance,  \* configuration
          Request,              \* request slots
          OneAtATime,           \* a request is served only while no other is
          MayFail,              \* a request may die between two of its writes
          CostByHand,           \* products whose costs are also recorded by hand
          StockByHand,          \* products whose stock is also moved by hand
          MaxPurchases, MaxLines,  \* bounds on purchases ever created and lines of each
          MaxMoves, MaxEntries  \* no request starts once a ledger has so many rows

ASSUME PurchasesAssumption ==
    /\ Tracked \subseteq Product /\ CostByHand \subseteq Product /\ StockByHand \subseteq Tracked
    /\ Year \subseteq Nat \ {0} /\ Day \subseteq Nat \ {0}
    /\ Qty \subseteq Nat \ {0} /\ Cost \subseteq Nat /\ PayAmount \subseteq Nat \ {0}
    /\ \A q \in Qty, c \in Cost : Gross(q, c) \in Nat
    /\ Opening \in Nat /\ Funds \in Nat
    /\ MaxPurchases \in Nat /\ MaxLines \in Nat /\ MaxMoves \in Nat /\ MaxEntries \in Nat

VARIABLES purchases,   \* the purchase rows by id, each with its lines
          lastNumber,  \* doc_sequences of PURCH, by year
          moves,       \* stock movements, by id
          entries,     \* finance transactions, by id
          payments,    \* purchase_payments, by id
          costs,       \* product_supplier_costs, by product and supplier
          req          \* what each request has read and is about to do

vars == <<purchases, lastNumber, moves, entries, payments, costs, req>>

Date == Year \X Day

Earlier(d, e) == d[1] < e[1] \/ (d[1] = e[1] /\ d[2] < e[2])

\* The due date of a cash purchase is NULL, which sorts before every date.
NoDate == <<0, 0>>

NoNumber == <<>>
Number == {NoNumber} \cup (Year \X (Nat \ {0}))

Line == [product : Product, qty : Qty, cost : Cost]

\* validate_dates: NULL for Cash, not before the purchase for Credit.
Header == {h \in [supplier : Supplier, date : Date, due : Date \cup {NoDate}] :
              h.due = NoDate \/ ~ Earlier(h.due, h.date)}

ASSUME InputsAssumption == Headers \subseteq Header /\ Lines \subseteq Line

Purchase == [status : {"Draft", "Confirmed", "Cancelled", "deleted"}, number : Number,
             header : Header, lines : Seq(Line)]

\* delta is signed; a movement by hand has no number.
Move == [product : Tracked, delta : Int, number : Number]

Entry == [kind : {"Income", "Expense"}, account : Account, amount : Nat \ {0}, number : Number]

\* tx and refund are ids of entries; refund 0 is NULL.
Payment == [purchase : Nat \ {0}, account : Account, amount : Nat \ {0}, tx : Nat \ {0}, refund : Nat]

NoCost == [cost |-> -1]
\* was is previous_cost; its date is not kept here.
Recorded == [cost : Cost, since : Date, was : Cost \cup {-1}]

Idle == [step |-> "idle"]

PurchaseId == 1..MaxPurchases

\* One payment of a plan, with the dates it was sorted by.
Allocation == [purchase : PurchaseId, amount : Nat \ {0}, due : Date \cup {NoDate}, date : Date]

RequestState ==
    {Idle}
    \cup [step : {"header"}, purchase : PurchaseId, header : Header]
    \cup [step : {"confirm"}, purchase : PurchaseId, seen : Purchase, account : Account]
    \cup [step : {"discard"}, purchase : PurchaseId]
    \cup [step : {"pay", "payPost"}, plan : SUBSET Allocation, account : Account]
    \cup [step : {"payLink"}, plan : SUBSET Allocation, account : Account, tx : Nat \ {0}]
    \cup [step : {"reverse", "out"}, purchase : PurchaseId, lines : SUBSET Nat, pays : SUBSET Nat]
    \cup [step : {"link"}, purchase : PurchaseId, lines : {{}}, pays : SUBSET Nat, tx : Nat \ {0}]
    \cup [step : {"move"}, product : Tracked, delta : Int]
    \cup [step : {"cost"}, product : Product, supplier : Supplier, cost : Cost, date : Date,
          branch : {"create", "refresh", "shift"}]

TypeOK ==
    /\ purchases \in Seq(Purchase) /\ Len(purchases) <= MaxPurchases
    /\ lastNumber \in [Year -> Nat]
    /\ moves \in Seq(Move) /\ entries \in Seq(Entry) /\ payments \in Seq(Payment)
    /\ costs \in [Product \X Supplier -> Recorded \cup {NoCost}]
    /\ req \in [Request -> RequestState]

Init ==
    /\ purchases = <<>> /\ lastNumber = [y \in Year |-> 0]
    /\ moves = <<>> /\ entries = <<>> /\ payments = <<>>
    /\ costs = [pair \in Product \X Supplier |-> NoCost]
    /\ req = [r \in Request |-> Idle]

-----------------------------------------------------------------------------
(* What the code folds from the rows.                                      *)

Total(lines) ==
    SumOver([i \in 1..Len(lines) |-> Gross(lines[i].qty, lines[i].cost)], Len(lines))

IsOf(pay, p) == pay.purchase = p

PaymentsOf(p) == {i \in 1..Len(payments) : IsOf(payments[i], p)}

Paid(p) ==
    SumOver([i \in 1..Len(payments) |->
                IF IsOf(payments[i], p) THEN payments[i].amount ELSE 0], Len(payments))

Due(p) == Total(purchases[p].lines) - Paid(p)

Level(product) ==
    Opening + SumOver([i \in 1..Len(moves) |->
        IF moves[i].product = product THEN moves[i].delta ELSE 0], Len(moves))

Balance(a) ==
    Funds + SumOver([i \in 1..Len(entries) |->
        IF entries[i].account # a THEN 0
        ELSE IF entries[i].kind = "Income" THEN entries[i].amount ELSE -entries[i].amount],
        Len(entries))

Covers(a, amount) == AllowNegativeBalance \/ Balance(a) - amount >= 0

StockAllows(product, delta) == AllowNegativeStock \/ Level(product) + delta >= 0

-----------------------------------------------------------------------------

Quiet == OneAtATime => \A r \in Request : req[r] = Idle

Room == Len(moves) < MaxMoves /\ Len(entries) < MaxEntries

Free(r) == req[r] = Idle /\ Quiet

Becomes(r, state) == req' = [req EXCEPT ![r] = state]

Is(p, status) == p \in 1..Len(purchases) /\ purchases[p].status = status

Numbered(p) == purchases[p].number # NoNumber

Rewrite(p, purchase) == purchases' = [purchases EXCEPT ![p] = purchase]

Unwritten == UNCHANGED <<purchases, lastNumber, moves, entries, payments, costs>>

(* Drafts.  A line statement carries the Draft predicate itself; that a    *)
(* product has no line yet is read before it, so two requests may each add *)
(* one.  The quantity of a merged scan is the caller's: UpdateLine.        *)

CreateDraft(header) ==
    /\ Quiet /\ Len(purchases) < MaxPurchases
    /\ purchases' = Append(purchases, [status |-> "Draft", number |-> NoNumber,
                                       header |-> header, lines |-> <<>>])
    /\ UNCHANGED <<lastNumber, moves, entries, payments, costs, req>>

EditLines(p, lines) ==
    /\ Quiet /\ Is(p, "Draft")
    /\ Rewrite(p, [purchases[p] EXCEPT !.lines = lines])
    /\ UNCHANGED <<lastNumber, moves, entries, payments, costs, req>>

AddLine(p, line) ==
    /\ Len(purchases[p].lines) < MaxLines
    /\ OneAtATime => \A i \in 1..Len(purchases[p].lines) : purchases[p].lines[i].product # line.product
    /\ EditLines(p, Append(purchases[p].lines, line))

\* Quantity and cost change, the product does not.
UpdateLine(p, i, line) ==
    /\ i \in 1..Len(purchases[p].lines) /\ purchases[p].lines[i].product = line.product
    /\ EditLines(p, [purchases[p].lines EXCEPT ![i] = line])

RemoveLine(p, i) ==
    /\ i \in 1..Len(purchases[p].lines)
    /\ EditLines(p, RemoveAt(purchases[p].lines, i))

HeaderRead(r, p, header) ==
    /\ Free(r) /\ Is(p, "Draft")
    /\ Becomes(r, [step |-> "header", purchase |-> p, header |-> header])
    /\ Unwritten

\* The UPDATE has no status predicate: supplier, terms and date may still change.
HeaderWrite(r) ==
    /\ req[r].step = "header" /\ purchases[req[r].purchase].status # "deleted"
    /\ Rewrite(req[r].purchase, [purchases[req[r].purchase] EXCEPT !.header = req[r].header])
    /\ Becomes(r, Idle)
    /\ UNCHANGED <<lastNumber, moves, entries, payments, costs>>

DeleteDraft(p) ==
    /\ Quiet
    /\ Is(p, "Draft") \/ (Is(p, "Cancelled") /\ purchases[p].number = NoNumber)
    /\ Rewrite(p, [purchases[p] EXCEPT !.status = "deleted", !.lines = <<>>])
    /\ UNCHANGED <<lastNumber, moves, entries, payments, costs, req>>

-----------------------------------------------------------------------------
(* Supplier costs: a cost may not be dated before the one on record; the   *)
(* same cost renews the date, another one displaces it into `was`.         *)

AcceptsCost(row, date) == row # NoCost => ~ Earlier(date, row.since)

Branch(row, cost) ==
    IF row = NoCost THEN "create" ELSE IF row.cost = cost THEN "refresh" ELSE "shift"

\* The three statements; each applies to the row as it is by then.
WithCost(row, branch, cost, date) ==
    CASE branch = "create" -> [cost |-> cost, since |-> date, was |-> -1]
      [] branch = "refresh" -> [row EXCEPT !.since = date]
      [] branch = "shift" -> [cost |-> cost, since |-> date, was |-> row.cost]

CostRead(r, product, supplier, cost, date) ==
    /\ Free(r) /\ product \in CostByHand
    /\ AcceptsCost(costs[product, supplier], date)
    /\ Becomes(r, [step |-> "cost", product |-> product, supplier |-> supplier, cost |-> cost,
                   date |-> date, branch |-> Branch(costs[product, supplier], cost)])
    /\ Unwritten

\* UNIQUE(product, supplier) refuses to create a row that exists by now.
CostWrite(r) ==
    /\ req[r].step = "cost"
    /\ LET q == req[r]
           row == costs[q.product, q.supplier]
       IN  /\ q.branch = "create" => row = NoCost
           /\ costs' = [costs EXCEPT ![<<q.product, q.supplier>>] =
                            WithCost(row, q.branch, q.cost, q.date)]
    /\ Becomes(r, Idle)
    /\ UNCHANGED <<purchases, lastNumber, moves, entries, payments>>

(* Stock moved by hand: the level is read, then the movement is inserted.  *)

MoveRead(r, product, delta) ==
    /\ Free(r) /\ Room /\ product \in StockByHand /\ StockAllows(product, delta)
    /\ Becomes(r, [step |-> "move", product |-> product, delta |-> delta])
    /\ Unwritten

MoveInsert(r) ==
    /\ req[r].step = "move"
    /\ moves' = Append(moves, [product |-> req[r].product, delta |-> req[r].delta,
                               number |-> NoNumber])
    /\ Becomes(r, Idle)
    /\ UNCHANGED <<purchases, lastNumber, entries, payments, costs>>

-----------------------------------------------------------------------------
(* confirm: read document, lines, costs and balance; then one unit posts   *)
(* what was read, with the Draft predicate, the level, the balance and the *)
(* cost dates evaluated inside it.                                         *)

IsCash(header) == header.due = NoDate

Charge(seen) == IF IsCash(seen.header) THEN Total(seen.lines) ELSE 0

UniqueProducts(lines) == \A i, j \in 1..Len(lines) : lines[i].product = lines[j].product => i = j

CostsAccept(seen) ==
    \A i \in 1..Len(seen.lines) :
        AcceptsCost(costs[seen.lines[i].product, seen.header.supplier], seen.header.date)

ConfirmRead(r, p, a) ==
    /\ Free(r) /\ Room /\ Is(p, "Draft")
    /\ purchases[p].lines # <<>> /\ UniqueProducts(purchases[p].lines)
    /\ CostsAccept(purchases[p])
    /\ Charge(purchases[p]) = 0 \/ Covers(a, Charge(purchases[p]))
    /\ Becomes(r, [step |-> "confirm", purchase |-> p, seen |-> purchases[p], account |-> a])
    /\ Unwritten

\* Mutant: only the first tracked line is received.
FirstTrackedLine(lines) ==
    IF \E i \in 1..Len(lines) : lines[i].product \in Tracked
    THEN <<CHOOSE line \in {lines[i] : i \in 1..Len(lines)} : line.product \in Tracked>>
    ELSE <<>>

TrackedLines(lines) == Picked(lines, {i \in 1..Len(lines) : lines[i].product \in Tracked})

\* Mutant: the number is read before it is incremented.
NextNumberStale(year) == <<year, lastNumber[year]>>

NextNumber(year) == <<year, lastNumber[year] + 1>>

\* Mutant: set_confirmed has no Draft predicate.
UnitAcceptsAnyStatus(q) == purchases[q.purchase].status # "deleted" /\ CostsAccept(q.seen)

\* Mutant: only the check before the unit looks at the cost dates.
UnitAcceptsAnyCost(q) == purchases[q.purchase].status = "Draft"

UnitAccepts(q) ==
    /\ purchases[q.purchase].status = "Draft"
    /\ CostsAccept(q.seen)
    /\ \A i \in 1..Len(q.seen.lines) :
           LET line == q.seen.lines[i]
           IN  line.product \in Tracked => StockAllows(line.product, line.qty)
    /\ Charge(q.seen) = 0 \/ Covers(q.account, Charge(q.seen))

\* Mutant: one cost row per purchase.
CostsOfFirst(seen) ==
    [costs EXCEPT ![<<seen.lines[1].product, seen.header.supplier>>] =
        WithCost(@, Branch(@, seen.lines[1].cost), seen.lines[1].cost, seen.header.date)]

\* Every line, tracked or not, leaves its cost with the supplier.
CostsOf(seen) ==
    [pair \in Product \X Supplier |->
        IF \E i \in 1..Len(seen.lines) : pair = <<seen.lines[i].product, seen.header.supplier>>
        THEN LET line == seen.lines[CHOOSE i \in 1..Len(seen.lines) : seen.lines[i].product = pair[1]]
             IN  WithCost(costs[pair], Branch(costs[pair], line.cost), line.cost, seen.header.date)
        ELSE costs[pair]]

ConfirmUnit(r) ==
    /\ req[r].step = "confirm" /\ UnitAccepts(req[r])
    /\ LET q == req[r]
           year == q.seen.header.date[1]
           number == NextNumber(year)
           received == TrackedLines(q.seen.lines)
       IN  /\ lastNumber' = [lastNumber EXCEPT ![year] = @ + 1]
           /\ moves' = moves \o [i \in 1..Len(received) |->
                  [product |-> received[i].product, delta |-> received[i].qty, number |-> number]]
           /\ IF Charge(q.seen) > 0
              THEN /\ entries' = Append(entries, [kind |-> "Expense", account |-> q.account,
                                                  amount |-> Charge(q.seen), number |-> number])
                   /\ payments' = Append(payments, [purchase |-> q.purchase, account |-> q.account,
                                                    amount |-> Charge(q.seen),
                                                    tx |-> Len(entries) + 1, refund |-> 0])
              ELSE UNCHANGED <<entries, payments>>
           /\ Rewrite(q.purchase, [purchases[q.purchase] EXCEPT !.status = "Confirmed",
                                                                !.number = number])
           /\ costs' = CostsOf(q.seen)
    /\ Becomes(r, Idle)

-----------------------------------------------------------------------------
(* Payments.  record_payment reads status and due balance, posts the       *)
(* Expense and inserts the row.  pay_supplier sorts the supplier's debts   *)
(* by due date, date and id, lets each take what is left of the amount,    *)
(* and makes a record_payment of every allocation in turn.                 *)

Older(a, b) ==
    \/ Earlier(a.due, b.due)
    \/ /\ a.due = b.due
       /\ Earlier(a.date, b.date) \/ (a.date = b.date /\ a.purchase < b.purchase)

Aged(p) == [purchase |-> p, due |-> purchases[p].header.due, date |-> purchases[p].header.date]

Owed(s, p) == Is(p, "Confirmed") /\ purchases[p].header.supplier = s /\ Due(p) > 0

Outstanding(s) ==
    SumOver([p \in 1..Len(purchases) |-> IF Owed(s, p) THEN Due(p) ELSE 0], Len(purchases))

OwedBefore(s, p) ==
    SumOver([q \in 1..Len(purchases) |->
        IF Owed(s, q) /\ Older(Aged(q), Aged(p)) THEN Due(q) ELSE 0], Len(purchases))

Least(x, y) == IF x <= y THEN x ELSE y

Takes(s, p, amount) == Least(Due(p), amount - OwedBefore(s, p))

Plan(s, amount) ==
    {[purchase |-> p, amount |-> Takes(s, p, amount),
      due |-> purchases[p].header.due, date |-> purchases[p].header.date] :
        p \in {p \in 1..Len(purchases) : Owed(s, p) /\ OwedBefore(s, p) < amount}}

\* Mutant: the plan is paid in order of id.
NextPaidById(plan) == CHOOSE a \in plan : \A b \in plan : a.purchase <= b.purchase

NextPaid(plan) == CHOOSE a \in plan : \A b \in plan : a = b \/ Older(a, b)

Payable(p, amount) == Is(p, "Confirmed") /\ amount <= Due(p)

\* Mutant: each payment is measured against the total alone.
PayTotal(r, p, amount, a) ==
    /\ Free(r) /\ Room /\ Is(p, "Confirmed") /\ amount <= Total(purchases[p].lines)
    /\ Becomes(r, [step |-> "payPost", account |-> a,
                   plan |-> {[purchase |-> p, amount |-> amount, due |-> NoDate,
                              date |-> purchases[p].header.date]}])
    /\ Unwritten

Pay(r, p, amount, a) ==
    /\ Free(r) /\ Room /\ Payable(p, amount)
    /\ Becomes(r, [step |-> "payPost", account |-> a,
                   plan |-> {[purchase |-> p, amount |-> amount, due |-> NoDate,
                              date |-> purchases[p].header.date]}])
    /\ Unwritten

PaySupplier(r, s, amount, a) ==
    /\ Free(r) /\ Room /\ amount <= Outstanding(s)
    /\ Becomes(r, [step |-> "pay", account |-> a, plan |-> Plan(s, amount)])
    /\ Unwritten

PayCheck(r) ==
    /\ req[r].step = "pay"
    /\ LET next == NextPaid(req[r].plan) IN Payable(next.purchase, next.amount)
    /\ Becomes(r, [req[r] EXCEPT !.step = "payPost"])
    /\ Unwritten

PayPost(r) ==
    /\ req[r].step = "payPost"
    /\ LET q == req[r]
           next == NextPaid(q.plan)
       IN  /\ Covers(q.account, next.amount)
           /\ entries' = Append(entries, [kind |-> "Expense", account |-> q.account,
                                          amount |-> next.amount,
                                          number |-> purchases[next.purchase].number])
           /\ Becomes(r, [step |-> "payLink", plan |-> q.plan, account |-> q.account,
                          tx |-> Len(entries) + 1])
    /\ UNCHANGED <<purchases, lastNumber, moves, payments, costs>>

\* Mutant: the row takes the newest transaction for its own.
PaymentRowNewest(q) ==
    [purchase |-> NextPaid(q.plan).purchase, account |-> q.account,
     amount |-> NextPaid(q.plan).amount, tx |-> Len(entries), refund |-> 0]

PaymentRow(q) ==
    [purchase |-> NextPaid(q.plan).purchase, account |-> q.account,
     amount |-> NextPaid(q.plan).amount, tx |-> q.tx, refund |-> 0]

PayLink(r) ==
    /\ req[r].step = "payLink"
    /\ LET q == req[r]
           next == NextPaid(q.plan)
       IN  /\ payments' = Append(payments, PaymentRow(q))
           /\ Becomes(r, IF q.plan = {next} THEN Idle
                         ELSE [step |-> "pay", plan |-> q.plan \ {next}, account |-> q.account])
    /\ UNCHANGED <<purchases, lastNumber, moves, entries, costs>>

-----------------------------------------------------------------------------
(* cancel: a Draft is discarded; of a Confirmed purchase every tracked     *)
(* line goes out by a movement of its own, refused where the goods are no  *)
(* longer there, then every payment is refunded and linked to its refund,  *)
(* then the status is set.  A refusal half way leaves what was written.    *)

NoRefundYet(p) == \A i \in PaymentsOf(p) : payments[i].refund = 0

CancelRead(r, p) ==
    /\ Free(r) /\ Room
    /\ \/ /\ Is(p, "Draft")
          /\ Becomes(r, [step |-> "discard", purchase |-> p])
       \/ /\ Is(p, "Confirmed") /\ NoRefundYet(p)
          /\ Becomes(r, [step |-> "reverse", purchase |-> p, pays |-> PaymentsOf(p),
                 lines |-> {i \in 1..Len(purchases[p].lines) : purchases[p].lines[i].product \in Tracked}])
    /\ Unwritten

\* Neither statement that sets Cancelled has a predicate.
Close(r) ==
    /\ Rewrite(req[r].purchase, [purchases[req[r].purchase] EXCEPT !.status = "Cancelled"])
    /\ Becomes(r, Idle)
    /\ UNCHANGED <<lastNumber, moves, entries, payments, costs>>

Discard(r) ==
    /\ req[r].step = "discard" /\ purchases[req[r].purchase].status # "deleted"
    /\ Close(r)

First(ids) == CHOOSE i \in ids : \A j \in ids : i <= j

\* The lines are those read: a confirmed purchase's are frozen (IsDocument).
NextOut(q) == purchases[q.purchase].lines[First(q.lines)]

OutCheck(r) ==
    /\ req[r].step = "reverse" /\ req[r].lines # {}
    /\ StockAllows(NextOut(req[r]).product, -NextOut(req[r]).qty)
    /\ Becomes(r, [req[r] EXCEPT !.step = "out"])
    /\ Unwritten

OutInsert(r) ==
    /\ req[r].step = "out"
    /\ LET q == req[r]
       IN  /\ moves' = Append(moves, [product |-> NextOut(q).product, delta |-> -NextOut(q).qty,
                                      number |-> purchases[q.purchase].number])
           /\ Becomes(r, [q EXCEPT !.step = "reverse", !.lines = @ \ {First(q.lines)}])
    /\ UNCHANGED <<purchases, lastNumber, entries, payments, costs>>

\* Money comes in: no balance is checked.
RefundPost(r) ==
    /\ req[r].step = "reverse" /\ req[r].lines = {} /\ req[r].pays # {}
    /\ LET q == req[r]
           pay == payments[First(q.pays)]
       IN  /\ entries' = Append(entries, [kind |-> "Income", account |-> pay.account,
                                          amount |-> pay.amount,
                                          number |-> purchases[q.purchase].number])
           /\ Becomes(r, [step |-> "link", purchase |-> q.purchase, lines |-> {}, pays |-> q.pays,
                          tx |-> Len(entries) + 1])
    /\ UNCHANGED <<purchases, lastNumber, moves, payments, costs>>

RefundLink(r) ==
    /\ req[r].step = "link"
    /\ LET i == First(req[r].pays)
       IN  /\ payments' = [payments EXCEPT ![i] = [@ EXCEPT !.refund = req[r].tx]]
           /\ Becomes(r, [step |-> "reverse", purchase |-> req[r].purchase, lines |-> {},
                          pays |-> req[r].pays \ {i}])
    /\ UNCHANGED <<purchases, lastNumber, moves, entries, costs>>

\* Mutant: the status is set once the goods are out.
CancelCloseEarly(r) == req[r].step = "reverse" /\ req[r].lines = {} /\ Close(r)

CancelClose(r) == req[r].step = "reverse" /\ req[r].lines = {} /\ req[r].pays = {} /\ Close(r)

-----------------------------------------------------------------------------

\* The guards that may refuse a request after its first write.
Refused(q) ==
    CASE q.step = "pay" -> ~ Payable(NextPaid(q.plan).purchase, NextPaid(q.plan).amount)
      [] q.step = "payPost" -> ~ Covers(q.account, NextPaid(q.plan).amount)
      [] q.step = "reverse" ->
             q.lines # {} /\ ~ StockAllows(NextOut(q).product, -NextOut(q).qty)
      [] OTHER -> q.step \in {"header", "confirm", "discard", "move", "cost"}

\* A request ends where it is refused or, if requests may fail, anywhere.
Quit(r) ==
    /\ req[r] # Idle
    /\ MayFail \/ Refused(req[r])
    /\ Becomes(r, Idle)
    /\ Unwritten

Drafting ==
    \/ \E header \in Headers : CreateDraft(header)
    \/ \E p \in 1..Len(purchases) :
        \/ \E line \in Lines : AddLine(p, line)
        \/ \E i \in 1..MaxLines, line \in Lines : UpdateLine(p, i, line)
        \/ \E i \in 1..MaxLines : RemoveLine(p, i)
        \/ DeleteDraft(p)

Starts(r) ==
    \/ \E p \in 1..Len(purchases) :
        \/ \E header \in Headers : HeaderRead(r, p, header)
        \/ \E a \in Account : ConfirmRead(r, p, a)
        \/ \E amount \in PayAmount, a \in Account : Pay(r, p, amount, a)
        \/ CancelRead(r, p)
    \/ \E s \in Supplier, amount \in PayAmount, a \in Account : PaySupplier(r, s, amount, a)
    \/ \E product \in Product, s \in Supplier, cost \in Cost, date \in Date :
           CostRead(r, product, s, cost, date)
    \/ \E product \in Tracked, qty \in Qty :
        MoveRead(r, product, qty) \/ MoveRead(r, product, -qty)

Works(r) ==
    \/ HeaderWrite(r) \/ ConfirmUnit(r) \/ Discard(r)
    \/ PayCheck(r) \/ PayPost(r) \/ PayLink(r)
    \/ OutCheck(r) \/ OutInsert(r) \/ RefundPost(r) \/ RefundLink(r) \/ CancelClose(r)
    \/ CostWrite(r) \/ MoveInsert(r)

Next == Drafting \/ \E r \in Request : Starts(r) \/ Works(r) \/ Quit(r)

Spec == Init /\ [][Next]_vars

-----------------------------------------------------------------------------

(* The document a purchase row is: its header is left out, because it may  *)
(* change after the number was given (HeaderWrite).                        *)
docs == [p \in 1..Len(purchases) |->
            [status |-> purchases[p].status, number |-> purchases[p].number,
             body |-> purchases[p].lines]]

Document == INSTANCE SaleDocument
                WITH docs <- docs, lastNumber <- lastNumber, Year <- Year, Body <- Seq(Line)

(* Every step on the purchases is a step of a document with frozen lines   *)
(* and a dense number series, or leaves every document alone.              *)
IsDocument == Document!Spec

(* Every payment row is of a purchase that was confirmed and refers to an  *)
(* Expense of its own, and a refunded one to an Income of its own, of its  *)
(* account, amount and document, although row and link are written after   *)
(* the transaction was posted.                                             *)
Backed(i, id, kind) ==
    /\ id \in 1..Len(entries)
    /\ entries[id] = [kind |-> kind, account |-> payments[i].account, amount |-> payments[i].amount,
                      number |-> purchases[payments[i].purchase].number]

PaymentsPosted ==
    /\ \A i \in 1..Len(payments) :
           /\ Numbered(payments[i].purchase) /\ Backed(i, payments[i].tx, "Expense")
           /\ payments[i].refund # 0 => Backed(i, payments[i].refund, "Income")
    /\ \A i, j \in 1..Len(payments) :
           i # j => {payments[i].tx, payments[i].refund}
                      \cap {payments[j].tx, payments[j].refund} \subseteq {0}

(* A confirm never puts an older cost over a newer one, also where the     *)
(* newer one was recorded after the confirm checked its cost dates.        *)
ConfirmKeepsCosts ==
    [][(\E p \in 1..Len(purchases) : ~ Numbered(p) /\ Numbered(p)') =>
           \A pair \in Product \X Supplier :
               costs[pair] # NoCost => ~ Earlier(costs'[pair].since, costs[pair].since)]_vars

-----------------------------------------------------------------------------

MovedBy(number, product, out) ==
    SumOver([i \in 1..Len(moves) |->
        IF moves[i].number = number /\ moves[i].product = product /\ (moves[i].delta < 0) = out
        THEN moves[i].delta ELSE 0], Len(moves))

Bought(p, product) ==
    SumOver([i \in 1..Len(purchases[p].lines) |->
        IF purchases[p].lines[i].product = product THEN purchases[p].lines[i].qty ELSE 0],
        Len(purchases[p].lines))

(* A confirmed or annulled purchase has brought in the units of its lines. *)
ReceivedAsBought ==
    \A p \in 1..Len(purchases), product \in Tracked :
        Numbered(p) => MovedBy(purchases[p].number, product, FALSE) = Bought(p, product)

(* An annulled purchase keeps nothing: every unit it brought in has gone   *)
(* out again and every payment is refunded, also where an earlier attempt  *)
(* to annul it was refused half way.                                       *)
AnnulledReversed ==
    \A p \in 1..Len(purchases) : purchases[p].status = "Cancelled" /\ Numbered(p) =>
        /\ \A product \in Tracked : -MovedBy(purchases[p].number, product, TRUE) >= Bought(p, product)
        /\ \A i \in PaymentsOf(p) : payments[i].refund # 0

(* The payments of a purchase never exceed its total, whether it is paid   *)
(* by itself or in the plan of a supplier.                                 *)
PaidWithinTotal == \A p \in 1..Len(purchases) : Numbered(p) => Due(p) >= 0

(* A supplier is paid oldest debt first and to the end of the plan: no     *)
(* allocation is refused for exceeding what is due when its turn comes,    *)
(* and no debt older than it is still open then.                           *)
PlanServed ==
    \A r \in Request : req[r].step = "pay" =>
        LET next == NextPaid(req[r].plan)
            s == purchases[next.purchase].header.supplier
        IN  /\ Payable(next.purchase, next.amount)
            /\ \A p \in 1..Len(purchases) : Owed(s, p) => ~ Older(Aged(p), next)

(* The cost a supplier charges for a product is as recent as every         *)
(* purchase that was confirmed from that supplier, and the previous one    *)
(* kept beside it is one that differed.                                    *)
CostsCurrent ==
    /\ \A p \in 1..Len(purchases) : Numbered(p) =>
           \A i \in 1..Len(purchases[p].lines) :
               LET row == costs[purchases[p].lines[i].product, purchases[p].header.supplier]
               IN  row # NoCost /\ ~ Earlier(row.since, purchases[p].header.date)
    /\ \A pair \in Product \X Supplier : costs[pair] # NoCost => costs[pair].was # costs[pair].cost

=============================================================================
