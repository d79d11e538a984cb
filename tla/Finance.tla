------------------------------- MODULE Finance -------------------------------
(***************************************************************************)
(* The money ledger: accounts, the transactions table, the derived balance *)
(* and accounts.cached_balance (services/transaction.rs and                *)
(* repositories/transaction_repo.rs).                                      *)
(*                                                                         *)
(* A request is a process.  Every repository call it awaits outside a unit *)
(* is an autocommit statement of its own, so other requests run between a  *)
(* balance read and the write decided from it: each such read and each     *)
(* write is a step.  A document's confirm posts inside its unit, which     *)
(* already holds the write lock: read, decision and write are one step.    *)
(* A request may vanish between two steps (crash, client gone, busy        *)
(* timeout): Abandon.                                                      *)
(***************************************************************************)
EXTENDS Sums

CONSTANTS Account,        \* the accounts that may be created
          Amount,         \* the amounts a caller may name
          Request,        \* the request slots of the server
          AllowNegative,  \* ALLOW_NEGATIVE_BALANCE
          OneAtATime,     \* TRUE: a request is served only while no other is
          MaxRows         \* bound: transactions ever inserted

ASSUME FinanceAssumption ==
    /\ Amount \subseteq Nat \ {0}
    /\ AllowNegative \in BOOLEAN
    /\ OneAtATime \in BOOLEAN
    /\ MaxRows \in Nat

VARIABLES accounts,  \* the account rows
          rows,      \* the transactions table by id; a deleted row stays as a hole
          cached,    \* accounts.cached_balance
          req        \* what each request has read and is about to do

vars == <<accounts, rows, cached, req>>

Kind == {"Income", "Expense"}

\* linked: a sale_payments or purchase_payments row references this transaction.
Row == [account : Account, kind : Kind, amount : Amount, live : BOOLEAN, linked : BOOLEAN]

Idle == [step |-> "idle"]

RequestState ==
    {Idle, [step |-> "panicked"]}
    \cup [step : {"create"}, account : Account, kind : Kind, amount : Amount, payment : BOOLEAN]
    \cup [step : {"link", "deleteWrite"}, id : 1..MaxRows]
    \cup [step : {"updateBalance", "updateWrite"}, id : 1..MaxRows, kind : Kind, amount : Amount]
    \cup [step : {"updateOriginal"}, id : 1..MaxRows, kind : Kind, amount : Amount, seen : Int]
    \cup [step : {"deleteBalance"}, id : 1..MaxRows, account : Account, amount : Amount]

TypeOK ==
    /\ accounts \subseteq Account
    /\ rows \in Seq(Row)
    /\ Len(rows) <= MaxRows
    /\ cached \in [Account -> Int]
    /\ req \in [Request -> RequestState]

Init ==
    /\ accounts = {}
    /\ rows = <<>>
    /\ cached = [a \in Account |-> 0]
    /\ req = [r \in Request |-> Idle]

-----------------------------------------------------------------------------
(* The balance is always the fold of the account's rows.                   *)

Signed(row) == IF row.kind = "Income" THEN row.amount ELSE -row.amount

Figure(row, a) == IF row.live /\ row.account = a THEN Signed(row) ELSE 0

BalanceIn(rs, a) == SumOver([i \in 1..Len(rs) |-> Figure(rs[i], a)], Len(rs))

Balance(a) == BalanceIn(rows, a)

Exists(id) == id \in 1..Len(rows) /\ rows[id].live

\* Mutant: the cache is refreshed before the write.
WriteAndSyncEarly(rs, a) ==
    /\ rows' = rs
    /\ cached' = [cached EXCEPT ![a] = Balance(a)]

\* Every write of the repository refreshes the account's cache in its own transaction.
WriteAndSync(rs, a) ==
    /\ rows' = rs
    /\ cached' = [cached EXCEPT ![a] = BalanceIn(rs, a)]

\* The overdraft guard of create_with_reference: only an Expense can be refused.
Covered(a, kind, amount) == AllowNegative \/ kind = "Income" \/ Balance(a) - amount >= 0

\* A request slot takes a new request (the bound OneAtATime keeps the others out).
Free(r) ==
    /\ req[r] = Idle
    /\ OneAtATime => \A s \in Request : req[s] = Idle

Becomes(r, state) == req' = [req EXCEPT ![r] = state]

-----------------------------------------------------------------------------
(* Accounts are created and never deleted.                                 *)

CreateAccount(a) ==
    /\ a \notin accounts
    /\ accounts' = accounts \cup {a}
    /\ UNCHANGED <<rows, cached, req>>

(***************************************************************************)
(* create_with_reference: the guard reads the balance, then the insert     *)
(* runs in its own transaction.  With `payment` the caller is a document's *)
(* record_payment (or a refund), which links the row to a payment row in a *)
(* further statement.                                                      *)
(***************************************************************************)
CreateRead(r, a, kind, amount, payment) ==
    /\ Free(r)
    /\ a \in accounts
    /\ Covered(a, kind, amount)
    /\ Becomes(r, [step |-> "create", account |-> a, kind |-> kind,
                   amount |-> amount, payment |-> payment])
    /\ UNCHANGED <<accounts, rows, cached>>

CreateWrite(r) ==
    /\ req[r].step = "create"
    /\ Len(rows) < MaxRows
    /\ LET q == req[r]
           row == [account |-> q.account, kind |-> q.kind, amount |-> q.amount,
                   live |-> TRUE, linked |-> FALSE]
       IN  /\ WriteAndSync(Append(rows, row), q.account)
           /\ Becomes(r, IF q.payment THEN [step |-> "link", id |-> Len(rows) + 1] ELSE Idle)
    /\ UNCHANGED accounts

\* The payment row's foreign key refuses a transaction deleted in between.
LinkPayment(r) ==
    /\ req[r].step = "link"
    /\ LET id == req[r].id
       IN  rows' = IF rows[id].live THEN [rows EXCEPT ![id] = [@ EXCEPT !.linked = TRUE]] ELSE rows
    /\ Becomes(r, Idle)
    /\ UNCHANGED <<accounts, cached>>

\* create_with_reference_in and the payment row, inside a document's unit.
PostInUnit(a, kind, amount) ==
    /\ OneAtATime => \A s \in Request : req[s] = Idle
    /\ a \in accounts
    /\ Len(rows) < MaxRows
    /\ Covered(a, kind, amount)
    /\ WriteAndSync(Append(rows, [account |-> a, kind |-> kind, amount |-> amount,
                                  live |-> TRUE, linked |-> TRUE]), a)
    /\ UNCHANGED <<accounts, req>>

\* Mutant: an amount the patch leaves out is taken for zero.
UpdateFindUnmerged(r, id, kind, amount) ==
    /\ Free(r)
    /\ Exists(id)
    /\ Becomes(r, [step |-> "updateWrite", id |-> id, kind |-> kind, amount |-> 0])
    /\ UNCHANGED <<accounts, rows, cached>>

(***************************************************************************)
(* update: find the row and merge the patch, read the balance, read the    *)
(* original row again (unwrap: it must still be there), decide, write the  *)
(* merged row whatever has become of the original since.                   *)
(***************************************************************************)
UpdateFind(r, id, kind, amount) ==
    /\ Free(r)
    /\ Exists(id)
    /\ Becomes(r, [step |-> IF AllowNegative THEN "updateWrite" ELSE "updateBalance",
                   id |-> id, kind |-> kind, amount |-> amount])
    /\ UNCHANGED <<accounts, rows, cached>>

UpdateBalance(r) ==
    /\ req[r].step = "updateBalance"
    /\ LET q == req[r]
       IN  Becomes(r, [step |-> "updateOriginal", id |-> q.id, kind |-> q.kind,
                       amount |-> q.amount, seen |-> Balance(rows[q.id].account)])
    /\ UNCHANGED <<accounts, rows, cached>>

UpdateOriginal(r) ==
    /\ req[r].step = "updateOriginal"
    /\ LET q == req[r]
           projected == q.seen - Signed(rows[q.id]) + Signed(q)
       IN  Becomes(r, IF ~ rows[q.id].live THEN [step |-> "panicked"]
                      ELSE IF projected < 0 THEN Idle
                      ELSE [step |-> "updateWrite", id |-> q.id, kind |-> q.kind,
                            amount |-> q.amount])
    /\ UNCHANGED <<accounts, rows, cached>>

\* Mutant: the merged row is written as an upsert.
UpdateWriteUpsert(r) ==
    /\ req[r].step = "updateWrite"
    /\ LET q == req[r]
       IN  WriteAndSync([rows EXCEPT ![q.id] = [@ EXCEPT !.kind = q.kind, !.amount = q.amount,
                                                         !.live = TRUE]],
                        rows[q.id].account)
    /\ Becomes(r, Idle)
    /\ UNCHANGED accounts

UpdateWrite(r) ==
    /\ req[r].step = "updateWrite"
    /\ LET q == req[r]
       IN  IF rows[q.id].live
           THEN WriteAndSync([rows EXCEPT ![q.id] = [@ EXCEPT !.kind = q.kind, !.amount = q.amount]],
                             rows[q.id].account)
           ELSE UNCHANGED <<rows, cached>>
    /\ Becomes(r, Idle)
    /\ UNCHANGED accounts

\* Mutant: removing an Income is not guarded.
DeleteFindUnguarded(r, id) ==
    /\ Free(r)
    /\ Exists(id)
    /\ Becomes(r, [step |-> "deleteWrite", id |-> id])
    /\ UNCHANGED <<accounts, rows, cached>>

(***************************************************************************)
(* delete: find the row; removing an Income is guarded by a balance read;  *)
(* the DELETE is refused while a payment row references the transaction.   *)
(***************************************************************************)
DeleteFind(r, id) ==
    /\ Free(r)
    /\ Exists(id)
    /\ Becomes(r, IF ~ AllowNegative /\ rows[id].kind = "Income"
                  THEN [step |-> "deleteBalance", id |-> id,
                        account |-> rows[id].account, amount |-> rows[id].amount]
                  ELSE [step |-> "deleteWrite", id |-> id])
    /\ UNCHANGED <<accounts, rows, cached>>

DeleteBalance(r) ==
    /\ req[r].step = "deleteBalance"
    /\ LET q == req[r]
       IN  Becomes(r, IF Balance(q.account) - q.amount < 0 THEN Idle
                      ELSE [step |-> "deleteWrite", id |-> q.id])
    /\ UNCHANGED <<accounts, rows, cached>>

\* Mutant: the reference of a payment row does not stop the delete.
DeleteWriteUnlinked(r) ==
    /\ req[r].step = "deleteWrite"
    /\ LET id == req[r].id
       IN  WriteAndSync([rows EXCEPT ![id] = [@ EXCEPT !.live = FALSE]], rows[id].account)
    /\ Becomes(r, Idle)
    /\ UNCHANGED accounts

DeleteWrite(r) ==
    /\ req[r].step = "deleteWrite"
    /\ LET id == req[r].id
       IN  IF rows[id].live /\ ~ rows[id].linked
           THEN WriteAndSync([rows EXCEPT ![id] = [@ EXCEPT !.live = FALSE]], rows[id].account)
           ELSE UNCHANGED <<rows, cached>>
    /\ Becomes(r, Idle)
    /\ UNCHANGED accounts

\* A request that fails, is dropped or has panicked ends; nothing committed is undone.
Abandon(r) ==
    /\ req[r] # Idle
    /\ Becomes(r, Idle)
    /\ UNCHANGED <<accounts, rows, cached>>

Next ==
    \/ \E a \in Account : CreateAccount(a)
    \/ \E a \in Account, kind \in Kind, amount \in Amount : PostInUnit(a, kind, amount)
    \/ \E r \in Request :
        \/ \E a \in Account, kind \in Kind, amount \in Amount, payment \in BOOLEAN :
               CreateRead(r, a, kind, amount, payment)
        \/ \E id \in 1..Len(rows), kind \in Kind, amount \in Amount :
               UpdateFind(r, id, kind, amount)
        \/ \E id \in 1..Len(rows) : DeleteFind(r, id)
        \/ CreateWrite(r) \/ LinkPayment(r)
        \/ UpdateBalance(r) \/ UpdateOriginal(r) \/ UpdateWrite(r)
        \/ DeleteBalance(r) \/ DeleteWrite(r)
        \/ Abandon(r)

Spec == Init /\ [][Next]_vars

-----------------------------------------------------------------------------

(* The cache never disagrees with the rows behind it, whatever requests    *)
(* interleave or die (sync_cached in every writing transaction).           *)
CachedIsFold == \A a \in Account : cached[a] = Balance(a)

(* A transaction that a payment row references is never lost: deleting it  *)
(* is a conflict, also when the delete was decided before the link.        *)
LinkedStaysLive == \A i \in 1..Len(rows) : rows[i].linked => rows[i].live

(* No request, however stale, brings a deleted transaction back, moves a   *)
(* transaction to another account or drops the link of a payment.          *)
HistoryKept ==
    [][\A i \in 1..Len(rows) :
          /\ i \in 1..Len(rows')
          /\ rows'[i].account = rows[i].account
          /\ rows'[i].live => rows[i].live
          /\ rows[i].linked => rows'[i].linked]_vars

(* The overdraft rule: where negative balances are not allowed, the flag   *)
(* keeps every balance at or above zero.                                   *)
Solvent == ~ AllowNegative => \A a \in Account : Balance(a) >= 0

=============================================================================
