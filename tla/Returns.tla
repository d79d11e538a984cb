-------------------------------- MODULE Returns --------------------------------
(***************************************************************************)
(* Credit notes against sales and returns of purchases                     *)
(* (services/customer_return.rs and services/purchase_return.rs, with      *)
(* their repositories).  The two are one state machine with the directions *)
(* of goods and money exchanged: `family` says which one a behaviour is    *)
(* of, and never changes.                                                  *)
(*                                                                         *)
(* The parents are confirmed documents with frozen lines; they are paid    *)
(* and annulled beside their returns, each in one step here (Sales and     *)
(* Purchases take those flows apart).  A confirm reads the return, what is *)
(* left of each parent line and what the parent collected, and posts in    *)
(* one unit; a cancel moves goods back line by line and money payment by   *)
(* payment.  Statements without a predicate write whatever the status has  *)
(* become since it was read, so they ask for it only where requests are    *)
(* served one at a time.                                                   *)
(***************************************************************************)
EXTENDS Sums, SequencesExt

CONSTANTS Family,               \* of "sale" and "purchase"
          Parent,               \* the parent documents
          Sold,                 \* their lines, by line id
          Tracked, Account, Year,
          PayAmount, Qty,       \* amounts and quantities callers may name
          HandMove,             \* what movements entered by hand add to a level
          Opening, Funds,       \* stock of a tracked product, balance of an account, at the start
          AllowNegativeStock, AllowNegativeBalance,  \* configuration
          Request,              \* request slots
          OneAtATime,           \* a request is served only while no other is
          MayFail,              \* a request may die between two of its writes
          MaxReturns,           \* bound on returns ever created
          MaxMoves, MaxEntries  \* no request starts once a ledger has so many rows

ASSUME ReturnsAssumption ==
    /\ Family \subseteq {"sale", "purchase"}
    /\ Len(Sold) \in Nat
    /\ \A i \in 1..Len(Sold) :
           Sold[i].parent \in Parent /\ Sold[i].qty \in Nat \ {0} /\ Sold[i].price \in Nat
    /\ PayAmount \subseteq Nat \ {0} /\ Qty \subseteq Nat \ {0} /\ HandMove \subseteq Int
    /\ Opening \in Nat /\ Funds \in Nat
    /\ MaxReturns \in Nat /\ MaxMoves \in Nat /\ MaxEntries \in Nat

VARIABLES family,
          parents,     \* status and payments of every parent
          returns,     \* the return rows by id, each with its lines
          lastNumber,  \* doc_sequences of SRET or PRET, by year
          moves,       \* stock movements, by id
          entries,     \* finance transactions, by id
          refunds,     \* customer_return_payments or purchase_return_payments, by id
          req          \* what each request has read and is about to do

vars == <<family, parents, returns, lastNumber, moves, entries, refunds, req>>

NoNumber == <<>>
Number == {NoNumber} \cup (Year \X (Nat \ {0}))

Line == [sold : 1..Len(Sold), qty : Nat \ {0}]

Return == [status : {"Draft", "Confirmed", "Cancelled", "deleted"}, number : Number,
           parent : Parent, year : Year, lines : Seq(Line)]

\* What a row refers to: a return by number, a parent, or nothing.
Reference == Number \cup {<<p>> : p \in Parent}

Move == [product : Tracked, delta : Int, doc : Reference]

Entry == [kind : {"Income", "Expense"}, account : Account, amount : Nat \ {0}, doc : Reference]

\* tx and back are ids of entries: the refund, and the reversal (0 is NULL).
Refund == [return : Nat \ {0}, account : Account, amount : Nat \ {0}, tx : Nat \ {0}, back : Nat]

Share == [account : Account, amount : Nat \ {0}]

Idle == [step |-> "idle"]

ReturnId == 1..MaxReturns

RequestState ==
    {Idle}
    \cup [step : {"confirm"}, return : ReturnId, seen : Return, plan : Seq(Share)]
    \cup [step : {"reverse"}, return : ReturnId, lines : SUBSET Nat, pays : SUBSET Nat]
    \cup [step : {"link"}, return : ReturnId, lines : {{}}, pays : SUBSET Nat, tx : Nat \ {0}]

TypeOK ==
    /\ family \in Family
    /\ parents \in [Parent -> [status : {"Confirmed", "Cancelled"}, paid : Seq(Share)]]
    /\ returns \in Seq(Return) /\ Len(returns) <= MaxReturns
    /\ lastNumber \in [Year -> Nat]
    /\ moves \in Seq(Move) /\ entries \in Seq(Entry) /\ refunds \in Seq(Refund)
    /\ req \in [Request -> RequestState]

Init ==
    /\ family \in Family
    /\ parents = [p \in Parent |-> [status |-> "Confirmed", paid |-> <<>>]]
    /\ returns = <<>> /\ lastNumber = [y \in Year |-> 0]
    /\ moves = <<>> /\ entries = <<>> /\ refunds = <<>>
    /\ req = [r \in Request |-> Idle]

-----------------------------------------------------------------------------
(* What the code folds from the rows.                                      *)

Price(line) == line.qty * Sold[line.sold].price

Worth(lines) == SumOver([i \in 1..Len(lines) |-> Price(lines[i])], Len(lines))

AmountOf(shares, n) == SumOver([i \in 1..Len(shares) |-> shares[i].amount], n)

Collected(p) == AmountOf(parents[p].paid, Len(parents[p].paid))

Due(p) ==
    SumOver([i \in 1..Len(Sold) |-> IF Sold[i].parent = p THEN Sold[i].qty * Sold[i].price ELSE 0],
            Len(Sold)) - Collected(p)

QtyOf(lines, i) ==
    SumOver([k \in 1..Len(lines) |-> IF lines[k].sold = i THEN lines[k].qty ELSE 0], Len(lines))

\* What confirmed returns have taken of a parent line.
Taken(i) ==
    SumOver([k \in 1..Len(returns) |->
        IF returns[k].status = "Confirmed" THEN QtyOf(returns[k].lines, i) ELSE 0], Len(returns))

WithinParent(line) == line.qty <= Sold[line.sold].qty - Taken(line.sold)

Level(product) ==
    Opening + SumOver([i \in 1..Len(moves) |->
        IF moves[i].product = product THEN moves[i].delta ELSE 0], Len(moves))

Balance(a) ==
    Funds + SumOver([i \in 1..Len(entries) |->
        IF entries[i].account # a THEN 0
        ELSE IF entries[i].kind = "Income" THEN entries[i].amount ELSE -entries[i].amount],
        Len(entries))

StockAllows(product, delta) == AllowNegativeStock \/ Level(product) + delta >= 0

\* Only money that leaves is checked.
FundsAllow(kind, a, amount) == kind = "Income" \/ AllowNegativeBalance \/ Balance(a) - amount >= 0

\* Directions: a sale's goods come back in and its money out, a purchase's the other way.
Delta(qty) == IF family = "sale" THEN qty ELSE -qty

PaidBack == IF family = "sale" THEN "Expense" ELSE "Income"

PaidForth == IF family = "sale" THEN "Income" ELSE "Expense"

-----------------------------------------------------------------------------

Quiet == OneAtATime => \A r \in Request : req[r] = Idle

Room == Len(moves) < MaxMoves /\ Len(entries) < MaxEntries

Free(r) == req[r] = Idle /\ Quiet

Becomes(r, state) == req' = [req EXCEPT ![r] = state]

Is(k, status) == k \in 1..Len(returns) /\ returns[k].status = status

Numbered(k) == returns[k].number # NoNumber

Rewrite(k, return) == returns' = [returns EXCEPT ![k] = return]

Unwritten == UNCHANGED <<family, parents, returns, lastNumber, moves, entries, refunds>>

(* The parent is paid (record_payment) and annulled (cancel), and neither  *)
(* looks at its returns; goods and money also move by hand.                *)

PayParent(p, a, amount) ==
    /\ Quiet /\ Room /\ parents[p].status = "Confirmed" /\ amount <= Due(p)
    /\ FundsAllow(PaidForth, a, amount)
    /\ parents' = [parents EXCEPT ![p].paid = Append(@, [account |-> a, amount |-> amount])]
    /\ entries' = Append(entries, [kind |-> PaidForth, account |-> a, amount |-> amount, doc |-> <<p>>])
    /\ UNCHANGED <<family, returns, lastNumber, moves, refunds, req>>

PaidBy(p, a) ==
    SumOver([i \in 1..Len(parents[p].paid) |->
        IF parents[p].paid[i].account = a THEN parents[p].paid[i].amount ELSE 0], Len(parents[p].paid))

TrackedLines(lines) ==
    Picked(lines, {i \in 1..Len(lines) : Sold[lines[i].sold].product \in Tracked})

MoveOf(line, doc) ==
    [product |-> Sold[line.sold].product, delta |-> Delta(line.qty), doc |-> doc]

MovesOf(lines, doc) == LET out == TrackedLines(lines) IN [i \in 1..Len(out) |-> MoveOf(out[i], doc)]

\* Each movement is checked against the level the ones before it leave.
StockAllowsAll(lines) ==
    \A n \in 1..Len(lines) :
        LET product == Sold[lines[n].sold].product
            upto == SumOver([i \in 1..Len(lines) |->
                        IF Sold[lines[i].sold].product = product THEN Delta(lines[i].qty) ELSE 0], n)
        IN  product \in Tracked => StockAllows(product, upto)

LinesOf(p) ==
    LET ids == Picked([i \in 1..Len(Sold) |-> i], {i \in 1..Len(Sold) : Sold[i].parent = p})
    IN  [k \in 1..Len(ids) |-> [sold |-> ids[k], qty |-> Sold[ids[k]].qty]]

AnnulParent(p) ==
    /\ Quiet /\ Room /\ parents[p].status = "Confirmed"
    /\ \A a \in Account : PaidBy(p, a) = 0 \/ FundsAllow(PaidBack, a, PaidBy(p, a))
    /\ StockAllowsAll(LinesOf(p))
    /\ parents' = [parents EXCEPT ![p].status = "Cancelled"]
    /\ moves' = moves \o MovesOf(LinesOf(p), <<p>>)
    /\ entries' = entries \o [i \in 1..Len(parents[p].paid) |->
           [kind |-> PaidBack, account |-> parents[p].paid[i].account,
            amount |-> parents[p].paid[i].amount, doc |-> <<p>>]]
    /\ UNCHANGED <<family, returns, lastNumber, refunds, req>>

MoveByHand(product, delta) ==
    /\ Quiet /\ Room /\ StockAllows(product, delta)
    /\ moves' = Append(moves, [product |-> product, delta |-> delta, doc |-> NoNumber])
    /\ UNCHANGED <<family, parents, returns, lastNumber, entries, refunds, req>>

SpendByHand(a, amount) ==
    /\ Quiet /\ Room /\ FundsAllow("Expense", a, amount)
    /\ entries' = Append(entries, [kind |-> "Expense", account |-> a, amount |-> amount, doc |-> NoNumber])
    /\ UNCHANGED <<family, parents, returns, lastNumber, moves, refunds, req>>

-----------------------------------------------------------------------------
(* Drafts.  The line statements carry the Draft predicate; the allowance   *)
(* of the parent line is read before them, when it was larger or equal,    *)
(* and which document the line belongs to is not asked.                    *)

CreateDraft(p, y) ==
    /\ Quiet /\ Len(returns) < MaxReturns
    /\ OneAtATime => parents[p].status = "Confirmed"
    /\ returns' = Append(returns, [status |-> "Draft", number |-> NoNumber, parent |-> p,
                                   year |-> y, lines |-> <<>>])
    /\ UNCHANGED <<family, parents, lastNumber, moves, entries, refunds, req>>

\* Mutant: the line statement does not repeat the Draft predicate.
EditLinesAnyStatus(k, lines) ==
    /\ Quiet
    /\ Rewrite(k, [returns[k] EXCEPT !.lines = lines])
    /\ UNCHANGED <<family, parents, lastNumber, moves, entries, refunds, req>>

EditLines(k, lines) ==
    /\ Quiet /\ Is(k, "Draft")
    /\ Rewrite(k, [returns[k] EXCEPT !.lines = lines])
    /\ UNCHANGED <<family, parents, lastNumber, moves, entries, refunds, req>>

Allowed(line) ==
    /\ line.qty <= Sold[line.sold].qty
    /\ OneAtATime => WithinParent(line)

\* UNIQUE(return_id, sale_line_id).
AddLine(k, line) ==
    /\ \A i \in 1..Len(returns[k].lines) : returns[k].lines[i].sold # line.sold
    /\ Allowed(line)
    /\ EditLines(k, Append(returns[k].lines, line))

UpdateLine(k, i, qty) ==
    /\ i \in 1..Len(returns[k].lines)
    /\ Allowed([returns[k].lines[i] EXCEPT !.qty = qty])
    /\ EditLines(k, [returns[k].lines EXCEPT ![i] = [@ EXCEPT !.qty = qty]])

RemoveLine(k, i) ==
    /\ i \in 1..Len(returns[k].lines)
    /\ EditLines(k, RemoveAt(returns[k].lines, i))

\* The header statement, also issued by every line edit, has no predicate.
HeaderWrite(k, y) ==
    /\ Quiet /\ returns[k].status # "deleted"
    /\ OneAtATime => Is(k, "Draft")
    /\ Rewrite(k, [returns[k] EXCEPT !.year = y])
    /\ UNCHANGED <<family, parents, lastNumber, moves, entries, refunds, req>>

DeleteDraft(k) ==
    /\ Quiet
    /\ Is(k, "Draft") \/ (Is(k, "Cancelled") /\ ~ Numbered(k))
    /\ Rewrite(k, [returns[k] EXCEPT !.status = "deleted", !.lines = <<>>])
    /\ UNCHANGED <<family, parents, lastNumber, moves, entries, refunds, req>>

\* A Draft is discarded; nothing is posted.
Discard(k) ==
    /\ Quiet /\ returns[k].status # "deleted"
    /\ OneAtATime => Is(k, "Draft")
    /\ Rewrite(k, [returns[k] EXCEPT !.status = "Cancelled"])
    /\ UNCHANGED <<family, parents, lastNumber, moves, entries, refunds, req>>

-----------------------------------------------------------------------------
(* confirm: read the return, the allowance of its lines and what the       *)
(* parent collected; then one unit posts what was read.                    *)

Least(x, y) == IF x <= y THEN x ELSE y

\* The worth is spread over the parent's payments, oldest first.
RefundPlan(worth, paid) ==
    Picked([i \in 1..Len(paid) |->
               [paid[i] EXCEPT !.amount = Least(@, worth - AmountOf(paid, i - 1))]],
           {i \in 1..Len(paid) : AmountOf(paid, i - 1) < worth})

\* Mutant: the refund is not capped by what was collected.
UncappedWithinCollected(k) == k \in ReturnId

WithinCollected(k) ==
    LET collected == Collected(returns[k].parent)
    IN  collected > 0 => Worth(returns[k].lines) <= collected

\* Mutant: the allowance is not read again.
ConfirmReadUnmeasured(r, k) ==
    /\ Free(r) /\ Room /\ Is(k, "Draft") /\ returns[k].lines # <<>>
    /\ parents[returns[k].parent].status = "Confirmed" /\ WithinCollected(k)
    /\ Becomes(r, [step |-> "confirm", return |-> k, seen |-> returns[k],
           plan |-> RefundPlan(Worth(returns[k].lines), parents[returns[k].parent].paid)])
    /\ Unwritten

ConfirmRead(r, k) ==
    /\ Free(r) /\ Room /\ Is(k, "Draft") /\ returns[k].lines # <<>>
    /\ parents[returns[k].parent].status = "Confirmed" /\ WithinCollected(k)
    /\ \A i \in 1..Len(returns[k].lines) : WithinParent(returns[k].lines[i])
    /\ Becomes(r, [step |-> "confirm", return |-> k, seen |-> returns[k],
           plan |-> RefundPlan(Worth(returns[k].lines), parents[returns[k].parent].paid)])
    /\ Unwritten

ShareOf(shares, a) ==
    SumOver([i \in 1..Len(shares) |-> IF shares[i].account = a THEN shares[i].amount ELSE 0], Len(shares))

UnitAccepts(q) ==
    /\ returns[q.return].status = "Draft"
    /\ StockAllowsAll(q.seen.lines)
    /\ \A a \in Account : ShareOf(q.plan, a) = 0 \/ FundsAllow(PaidBack, a, ShareOf(q.plan, a))

\* Mutant: the number is read before it is incremented.
NextNumberStale(y) == <<y, lastNumber[y]>>

NextNumber(y) == <<y, lastNumber[y] + 1>>

\* Mutant: every refund row claims the first transaction.
RefundRowFirst(q, i) ==
    [return |-> q.return, account |-> q.plan[i].account, amount |-> q.plan[i].amount,
     tx |-> Len(entries) + 1, back |-> 0]

RefundRow(q, i) ==
    [return |-> q.return, account |-> q.plan[i].account, amount |-> q.plan[i].amount,
     tx |-> Len(entries) + i, back |-> 0]

ConfirmUnit(r) ==
    /\ req[r].step = "confirm" /\ UnitAccepts(req[r])
    /\ LET q == req[r]
           number == NextNumber(q.seen.year)
       IN  /\ lastNumber' = [lastNumber EXCEPT ![q.seen.year] = @ + 1]
           /\ moves' = moves \o MovesOf(q.seen.lines, number)
           /\ entries' = entries \o [i \in 1..Len(q.plan) |->
                  [kind |-> PaidBack, account |-> q.plan[i].account, amount |-> q.plan[i].amount,
                   doc |-> number]]
           /\ refunds' = refunds \o [i \in 1..Len(q.plan) |-> RefundRow(q, i)]
           /\ Rewrite(q.return, [returns[q.return] EXCEPT !.status = "Confirmed", !.number = number])
    /\ Becomes(r, Idle)
    /\ UNCHANGED <<family, parents>>

-----------------------------------------------------------------------------
(* cancel of a Confirmed return: every tracked line moves the other way,   *)
(* then every refund is reversed and linked to its reversal, then the      *)
(* status is set.  A refusal half way leaves what was written.             *)

RefundsOf(k) == {i \in 1..Len(refunds) : refunds[i].return = k}

CancelRead(r, k) ==
    /\ Free(r) /\ Room /\ Is(k, "Confirmed")
    /\ \A i \in RefundsOf(k) : refunds[i].back = 0
    /\ Becomes(r, [step |-> "reverse", return |-> k, pays |-> RefundsOf(k),
           lines |-> {i \in 1..Len(returns[k].lines) :
                        Sold[returns[k].lines[i].sold].product \in Tracked}])
    /\ Unwritten

First(ids) == CHOOSE i \in ids : \A j \in ids : i <= j

\* The lines are those read: a confirmed return's are frozen (IsDocument).
Reversed(q) ==
    LET line == returns[q.return].lines[First(q.lines)]
    IN  [product |-> Sold[line.sold].product, delta |-> -Delta(line.qty),
         doc |-> returns[q.return].number]

ReverseLine(r) ==
    /\ req[r].step = "reverse" /\ req[r].lines # {}
    /\ StockAllows(Reversed(req[r]).product, Reversed(req[r]).delta)
    /\ moves' = Append(moves, Reversed(req[r]))
    /\ Becomes(r, [req[r] EXCEPT !.lines = @ \ {First(req[r].lines)}])
    /\ UNCHANGED <<family, parents, returns, lastNumber, entries, refunds>>

PayForth(r) ==
    /\ req[r].step = "reverse" /\ req[r].lines = {} /\ req[r].pays # {}
    /\ LET q == req[r]
           pay == refunds[First(q.pays)]
       IN  /\ FundsAllow(PaidForth, pay.account, pay.amount)
           /\ entries' = Append(entries, [kind |-> PaidForth, account |-> pay.account,
                                          amount |-> pay.amount, doc |-> returns[q.return].number])
           /\ Becomes(r, [step |-> "link", return |-> q.return, lines |-> {}, pays |-> q.pays,
                          tx |-> Len(entries) + 1])
    /\ UNCHANGED <<family, parents, returns, lastNumber, moves, refunds>>

LinkBack(r) ==
    /\ req[r].step = "link"
    /\ LET i == First(req[r].pays)
       IN  /\ refunds' = [refunds EXCEPT ![i] = [@ EXCEPT !.back = req[r].tx]]
           /\ Becomes(r, [step |-> "reverse", return |-> req[r].return, lines |-> {},
                          pays |-> req[r].pays \ {i}])
    /\ UNCHANGED <<family, parents, returns, lastNumber, moves, entries>>

\* Mutant: the status is set once the goods have moved.
CancelCloseEarly(r) ==
    /\ req[r].step = "reverse" /\ req[r].lines = {}
    /\ Rewrite(req[r].return, [returns[req[r].return] EXCEPT !.status = "Cancelled"])
    /\ Becomes(r, Idle)
    /\ UNCHANGED <<family, parents, lastNumber, moves, entries, refunds>>

CancelClose(r) ==
    /\ req[r].step = "reverse" /\ req[r].lines = {} /\ req[r].pays = {}
    /\ Rewrite(req[r].return, [returns[req[r].return] EXCEPT !.status = "Cancelled"])
    /\ Becomes(r, Idle)
    /\ UNCHANGED <<family, parents, lastNumber, moves, entries, refunds>>

-----------------------------------------------------------------------------

\* The guards that may refuse a request after its first write.
Refused(q) ==
    CASE q.step = "confirm" -> TRUE
      [] q.step = "link" -> FALSE
      [] q.step = "reverse" ->
             IF q.lines # {} THEN ~ StockAllows(Reversed(q).product, Reversed(q).delta)
             ELSE \E i \in q.pays : i = First(q.pays)
                      /\ ~ FundsAllow(PaidForth, refunds[i].account, refunds[i].amount)

\* A request ends where it is refused or, if requests may fail, anywhere.
Quit(r) ==
    /\ req[r] # Idle
    /\ MayFail \/ Refused(req[r])
    /\ Becomes(r, Idle)
    /\ Unwritten

Drafting ==
    \/ \E p \in Parent, y \in Year : CreateDraft(p, y)
    \/ \E k \in 1..Len(returns) :
        \/ \E i \in 1..Len(Sold), qty \in Qty :
            AddLine(k, [sold |-> i, qty |-> qty]) \/ UpdateLine(k, i, qty) \/ RemoveLine(k, i)
        \/ \E y \in Year : HeaderWrite(k, y)
        \/ DeleteDraft(k) \/ Discard(k)

Beside ==
    \/ \E p \in Parent :
        \/ AnnulParent(p)
        \/ \E a \in Account, amount \in PayAmount : PayParent(p, a, amount)
    \/ \E product \in Tracked, delta \in HandMove : MoveByHand(product, delta)
    \/ \E a \in Account, amount \in PayAmount : SpendByHand(a, amount)

Works(r) ==
    ConfirmUnit(r) \/ ReverseLine(r) \/ PayForth(r) \/ LinkBack(r) \/ CancelClose(r)

Next ==
    \/ Drafting \/ Beside
    \/ \E r \in Request :
        \/ \E k \in 1..Len(returns) : ConfirmRead(r, k) \/ CancelRead(r, k)
        \/ Works(r) \/ Quit(r)

Spec == Init /\ [][Next]_vars

-----------------------------------------------------------------------------

(* The document a return row is; its date may still change after the       *)
(* number was given (HeaderWrite).                                         *)
docs == [k \in 1..Len(returns) |->
            [status |-> returns[k].status, number |-> returns[k].number,
             body |-> [parent |-> returns[k].parent, lines |-> returns[k].lines]]]

Document == INSTANCE SaleDocument
                WITH docs <- docs, lastNumber <- lastNumber, Year <- Year,
                     Body <- [parent : Parent, lines : Seq(Line)]

(* Every step on the returns is a step of a document with a dense number   *)
(* series and a frozen parent and lines, or leaves every document alone.   *)
IsDocument == Document!Spec

(* Confirmed returns never take more of a parent line than it sold or      *)
(* bought, whatever drafts were open at once, annulled or confirmed again. *)
WithinParents == \A i \in 1..Len(Sold) : Taken(i) <= Sold[i].qty

RefundedBy(k) ==
    SumOver([i \in 1..Len(refunds) |-> IF refunds[i].return = k THEN refunds[i].amount ELSE 0],
            Len(refunds))

(* A confirmed return pays back exactly its worth, or nothing where its    *)
(* parent had collected nothing.                                           *)
RefundedAsWorth ==
    \A k \in 1..Len(returns) :
        RefundedBy(k) \in IF Numbered(k) THEN {0, Worth(returns[k].lines)} ELSE {0}

MovedBy(number, product, back) ==
    SumOver([i \in 1..Len(moves) |->
        IF moves[i].doc = number /\ moves[i].product = product /\ (Delta(moves[i].delta) < 0) = back
        THEN Delta(moves[i].delta) ELSE 0], Len(moves))

ReturnedOf(k, product) ==
    SumOver([i \in 1..Len(returns[k].lines) |->
        IF Sold[returns[k].lines[i].sold].product = product THEN returns[k].lines[i].qty ELSE 0],
        Len(returns[k].lines))

(* A confirmed return has moved the goods of its lines, and a reversed one *)
(* has moved them back and reversed every refund, also where an earlier    *)
(* attempt was refused or died half way.                                   *)
MovedAndReversed ==
    \A k \in 1..Len(returns) : Numbered(k) =>
        \A product \in Tracked :
            /\ MovedBy(returns[k].number, product, FALSE) = ReturnedOf(k, product)
            /\ Is(k, "Cancelled") =>
                   /\ -MovedBy(returns[k].number, product, TRUE) >= ReturnedOf(k, product)
                   /\ \A i \in RefundsOf(k) : refunds[i].back # 0

(* Every refund row has a transaction of its own under its return's        *)
(* number, and a reversed one another: nothing is posted for a return that *)
(* was refused, discarded or deleted.                                      *)
Backed(i, id, kind) ==
    /\ id \in 1..Len(entries)
    /\ entries[id] = [kind |-> kind, account |-> refunds[i].account, amount |-> refunds[i].amount,
                      doc |-> returns[refunds[i].return].number]

RefundsPosted ==
    /\ \A i \in 1..Len(refunds) :
           /\ Numbered(refunds[i].return) /\ Backed(i, refunds[i].tx, PaidBack)
           /\ refunds[i].back # 0 => Backed(i, refunds[i].back, PaidForth)
    /\ \A i, j \in 1..Len(refunds) :
           i # j => {refunds[i].tx, refunds[i].back} \cap {refunds[j].tx, refunds[j].back} \subseteq {0}

=============================================================================
