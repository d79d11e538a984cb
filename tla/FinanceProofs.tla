---------------------------- MODULE FinanceProofs ----------------------------
(***************************************************************************)
(* Proofs about Finance for every set of accounts, amounts and requests.   *)
(* First how the balance changes when one row is appended or rewritten,    *)
(* then the typing invariant, the agreement of the cache with the rows,    *)
(* and, when requests are served one at a time, the overdraft rule.        *)
(***************************************************************************)
EXTENDS Finance, SumsProofs, SequenceTheorems

(* The figure a row contributes to a balance is an integer. *)
LEMMA FigureInt ==
    ASSUME NEW row \in Row, NEW a
    PROVE  Signed(row) \in Int /\ Figure(row, a) \in Int
  <1>1. row.amount \in Nat
    BY FinanceAssumption DEF Row
  <1> QED BY <1>1 DEF Signed, Figure

(* A balance is an integer. *)
LEMMA BalanceInt ==
    ASSUME NEW rs \in Seq(Row), NEW a
    PROVE  BalanceIn(rs, a) \in Int
  <1> DEFINE w == [i \in 1..Len(rs) |-> Figure(rs[i], a)]
  <1>1. \A i \in 1..Len(rs) : w[i] \in Int
    BY FigureInt
  <1>2. Len(rs) \in Nat
    OBVIOUS
  <1> HIDE DEF w
  <1>3. SumOver(w, Len(rs)) \in Int
    BY <1>1, <1>2, SumOverInt
  <1> QED BY <1>3 DEF BalanceIn, w

(* Appending a row adds its figure to the balance. *)
LEMMA BalanceAppend ==
    ASSUME NEW rs \in Seq(Row), NEW row \in Row, NEW a
    PROVE  BalanceIn(Append(rs, row), a) = BalanceIn(rs, a) + Figure(row, a)
  <1> DEFINE n == Len(rs)
             w == [i \in 1..n |-> Figure(rs[i], a)]
             v == [i \in 1..(n + 1) |-> Figure(Append(rs, row)[i], a)]
  <1>1. n \in Nat /\ Len(Append(rs, row)) = n + 1
    OBVIOUS
  <1>2. \A i \in 1..n : v[i] = w[i]
    OBVIOUS
  <1>3. v[n + 1] = Figure(row, a)
    OBVIOUS
  <1>4. BalanceIn(Append(rs, row), a) = SumOver(v, n + 1)
    BY <1>1 DEF BalanceIn
  <1>5. BalanceIn(rs, a) = SumOver(w, n)
    BY DEF BalanceIn
  <1> HIDE DEF n, w, v
  <1>6. SumOver(v, n + 1) = SumOver(v, n) + v[n + 1]
    BY <1>1, SumOverStep
  <1>7. SumOver(v, n) = SumOver(w, n)
    BY <1>1, <1>2, SumOverAgree
  <1> QED BY <1>3, <1>4, <1>5, <1>6, <1>7

(* Rewriting one row changes the balance by the difference of its figures. *)
LEMMA BalanceRewrite ==
    ASSUME NEW rs \in Seq(Row), NEW new \in Seq(Row), NEW j \in 1..Len(rs), NEW a,
           Len(new) = Len(rs), \A i \in 1..Len(rs) : i # j => new[i] = rs[i]
    PROVE  BalanceIn(new, a) = BalanceIn(rs, a) - Figure(rs[j], a) + Figure(new[j], a)
  <1> DEFINE n == Len(rs)
             w == [i \in 1..n |-> Figure(rs[i], a)]
             v == [i \in 1..n |-> Figure(new[i], a)]
  <1>1. n \in Nat /\ j \in 1..n
    OBVIOUS
  <1>2. \A i \in 1..n : w[i] \in Int /\ v[i] \in Int
    BY FigureInt
  <1>3. \A i \in 1..n : i # j => v[i] = w[i]
    OBVIOUS
  <1>4. w[j] = Figure(rs[j], a) /\ v[j] = Figure(new[j], a)
    OBVIOUS
  <1>5. BalanceIn(new, a) = SumOver(v, n) /\ BalanceIn(rs, a) = SumOver(w, n)
    BY DEF BalanceIn
  <1> HIDE DEF n, w, v
  <1>6. DifferAt(v, w, n, j)
    BY <1>1, <1>2, <1>3, SumOverUpdate
  <1> QED BY <1>4, <1>5, <1>6 DEF DifferAt

(* A rewritten row is a row of the same account. *)
LEMMA RowRewrite ==
    ASSUME NEW rs \in Seq(Row), NEW j \in 1..Len(rs)
    PROVE  /\ rs[j] \in Row /\ rs[j].account \in Account /\ rs[j].live \in BOOLEAN
           /\ \A k \in Kind, amount \in Amount :
                  [rs[j] EXCEPT !.kind = k, !.amount = amount] \in Row
           /\ \A b \in BOOLEAN : [rs[j] EXCEPT !.live = b] \in Row
           /\ \A b \in BOOLEAN : [rs[j] EXCEPT !.linked = b] \in Row
  <1>1. rs[j] \in Row
    BY ElementOfSeq
  <1> QED BY <1>1 DEF Row

(* Rewriting one row by a row keeps the table a sequence of rows. *)
LEMMA RewriteTyped ==
    ASSUME NEW rs \in Seq(Row), NEW j \in 1..Len(rs), NEW x \in Row
    PROVE  /\ [rs EXCEPT ![j] = x] \in Seq(Row)
           /\ Len([rs EXCEPT ![j] = x]) = Len(rs)
           /\ [rs EXCEPT ![j] = x][j] = x
           /\ \A i \in 1..Len(rs) : i # j => [rs EXCEPT ![j] = x][i] = rs[i]
  BY ExceptSeq

-----------------------------------------------------------------------------
(* Typing: a request only ever names an id that was issued.                *)

IdSteps == {"link", "deleteWrite", "updateBalance", "updateWrite", "updateOriginal", "deleteBalance"}

Typed ==
    /\ TypeOK
    /\ \A r \in Request : req[r].step \in IdSteps => req[r].id \in 1..Len(rows)

(* Writing any row sequence and refreshing one cache keeps the types. *)
LEMMA SyncTyped ==
    ASSUME TypeOK, NEW rs \in Seq(Row), NEW a \in Account, WriteAndSync(rs, a)
    PROVE  rows' = rs /\ cached' \in [Account -> Int]
  <1>1. BalanceIn(rs, a) \in Int
    BY BalanceInt
  <1> QED BY <1>1 DEF WriteAndSync, TypeOK

(* A new row of the right shape may be appended below the bound. *)
LEMMA AppendTyped ==
    ASSUME TypeOK, NEW row \in Row, Len(rows) < MaxRows
    PROVE  /\ Append(rows, row) \in Seq(Row)
           /\ Len(Append(rows, row)) = Len(rows) + 1
           /\ Len(rows) + 1 \in 1..MaxRows
           /\ \A i \in 1..Len(rows) : Append(rows, row)[i] = rows[i]
           /\ Append(rows, row)[Len(rows) + 1] = row
  BY FinanceAssumption DEF TypeOK

(* The step of a request in a given stage tells the shape of its state. *)
LEMMA RequestShape ==
    ASSUME TypeOK, NEW r \in Request
    PROVE  /\ req[r].step = "create" => /\ req[r].account \in Account
                                        /\ req[r].kind \in Kind
                                        /\ req[r].amount \in Amount
                                        /\ req[r].payment \in BOOLEAN
           /\ req[r].step \in IdSteps => req[r].id \in 1..MaxRows
           /\ req[r].step \in {"updateBalance", "updateWrite", "updateOriginal"} =>
                  req[r].kind \in Kind /\ req[r].amount \in Amount
           /\ req[r].step = "updateOriginal" => req[r].seen \in Int
           /\ req[r].step = "deleteBalance" => /\ req[r].account \in Account
                                               /\ req[r].amount \in Amount
  <1>1. req[r] \in RequestState
    BY DEF TypeOK
  <1> QED BY <1>1 DEF RequestState, Idle, IdSteps

(* Every step preserves the typing invariant. *)
LEMMA TypedStep == Typed /\ [Next]_vars => Typed'
  <1> SUFFICES ASSUME Typed, [Next]_vars PROVE Typed'
    OBVIOUS
  <1> USE DEF Typed, IdSteps
  <1>1. ASSUME NEW a \in Account, CreateAccount(a) PROVE Typed'
    BY <1>1 DEF CreateAccount, TypeOK
  <1>2. ASSUME NEW a \in Account, NEW kind \in Kind, NEW amount \in Amount,
               PostInUnit(a, kind, amount)
        PROVE  Typed'
    <2> DEFINE row == [account |-> a, kind |-> kind, amount |-> amount,
                       live |-> TRUE, linked |-> TRUE]
    <2>1. row \in Row
      BY DEF Row
    <2>2. WriteAndSync(Append(rows, row), a) /\ Len(rows) < MaxRows
          /\ UNCHANGED <<accounts, req>>
      BY <1>2 DEF PostInUnit
    <2> HIDE DEF row
    <2>3. rows' = Append(rows, row) /\ cached' \in [Account -> Int]
      BY <2>1, <2>2, AppendTyped, SyncTyped
    <2> QED BY <2>1, <2>2, <2>3, AppendTyped, FinanceAssumption DEF TypeOK
  <1>3. ASSUME NEW r \in Request, NEW a \in Account, NEW kind \in Kind, NEW amount \in Amount,
               NEW payment \in BOOLEAN, CreateRead(r, a, kind, amount, payment)
        PROVE  Typed'
    <2>1. [step |-> "create", account |-> a, kind |-> kind, amount |-> amount,
           payment |-> payment] \in RequestState
      BY DEF RequestState
    <2> QED BY <1>3, <2>1 DEF CreateRead, Becomes, TypeOK
  <1>4. ASSUME NEW r \in Request, CreateWrite(r) PROVE Typed'
    <2> DEFINE q == req[r]
               row == [account |-> q.account, kind |-> q.kind, amount |-> q.amount,
                       live |-> TRUE, linked |-> FALSE]
    <2>1. q.account \in Account /\ row \in Row /\ Len(rows) < MaxRows
      BY <1>4, RequestShape DEF CreateWrite, Row
    <2>2. WriteAndSync(Append(rows, row), q.account)
      BY <1>4 DEF CreateWrite
    <2>3. rows' = Append(rows, row) /\ cached' \in [Account -> Int]
      <3> HIDE DEF row
      <3> QED BY <2>1, <2>2, AppendTyped, SyncTyped
    <2>4. /\ rows' \in Seq(Row)
          /\ Len(rows') = Len(rows) + 1
          /\ Len(rows) + 1 \in 1..MaxRows
      <3> HIDE DEF row
      <3> QED BY <2>1, <2>3, AppendTyped
    <2>5. /\ accounts' = accounts
          /\ \/ req' = [req EXCEPT ![r] = [step |-> "link", id |-> Len(rows) + 1]]
             \/ req' = [req EXCEPT ![r] = Idle]
      BY <1>4 DEF CreateWrite, Becomes
    <2>6. [step |-> "link", id |-> Len(rows) + 1] \in RequestState /\ Idle \in RequestState
      BY <2>4 DEF RequestState
    <2> HIDE DEF q, row
    <2>7. req' \in [Request -> RequestState]
      BY <2>5, <2>6 DEF TypeOK
    <2>8. \A s \in Request : req'[s].step \in IdSteps => req'[s].id \in 1..Len(rows')
      BY <2>4, <2>5 DEF TypeOK, Idle
    <2> QED BY <2>3, <2>4, <2>5, <2>7, <2>8, FinanceAssumption DEF TypeOK
  <1>5. ASSUME NEW r \in Request, LinkPayment(r) PROVE Typed'
    <2>1. req[r].id \in 1..Len(rows)
      BY <1>5 DEF LinkPayment
    <2> DEFINE x == [rows[req[r].id] EXCEPT !.linked = TRUE]
    <2>2. x \in Row
      BY <2>1, RowRewrite DEF TypeOK
    <2>3. rows' = rows \/ rows' = [rows EXCEPT ![req[r].id] = x]
      BY <1>5 DEF LinkPayment
    <2> HIDE DEF x
    <2>4. rows' \in Seq(Row) /\ Len(rows') = Len(rows)
      BY <2>1, <2>2, <2>3, RewriteTyped DEF TypeOK
    <2> QED BY <1>5, <2>4 DEF LinkPayment, TypeOK, Becomes, Idle, RequestState
  <1>6. ASSUME NEW r \in Request, NEW id \in 1..Len(rows), NEW kind \in Kind,
               NEW amount \in Amount, UpdateFind(r, id, kind, amount)
        PROVE  Typed'
    <2>1. id \in 1..MaxRows
      BY FinanceAssumption DEF TypeOK
    <2>2. PICK st \in {"updateWrite", "updateBalance"} :
              req' = [req EXCEPT ![r] = [step |-> st, id |-> id, kind |-> kind, amount |-> amount]]
      BY <1>6 DEF UpdateFind, Becomes
    <2>3. [step |-> st, id |-> id, kind |-> kind, amount |-> amount] \in RequestState
      BY <2>1 DEF RequestState
    <2> QED BY <1>6, <2>2, <2>3 DEF UpdateFind, TypeOK
  <1>7. ASSUME NEW r \in Request, UpdateBalance(r) PROVE Typed'
    <2> DEFINE b == Balance(rows[req[r].id].account)
    <2>1. b \in Int
      BY BalanceInt DEF Balance, TypeOK
    <2> HIDE DEF b
    <2>2. [step |-> "updateOriginal", id |-> req[r].id, kind |-> req[r].kind,
           amount |-> req[r].amount, seen |-> b] \in RequestState
      BY <1>7, <2>1, RequestShape DEF UpdateBalance, RequestState
    <2>3. req' = [req EXCEPT ![r] = [step |-> "updateOriginal", id |-> req[r].id,
                    kind |-> req[r].kind, amount |-> req[r].amount, seen |-> b]]
      BY <1>7 DEF UpdateBalance, Becomes, b
    <2> QED BY <1>7, <2>2, <2>3 DEF UpdateBalance, TypeOK
  <1>8. ASSUME NEW r \in Request, UpdateOriginal(r) PROVE Typed'
    <2> DEFINE w == [step |-> "updateWrite", id |-> req[r].id, kind |-> req[r].kind,
                     amount |-> req[r].amount]
    <2>1. w \in RequestState /\ Idle \in RequestState /\ [step |-> "panicked"] \in RequestState
      BY <1>8, RequestShape DEF UpdateOriginal, RequestState
    <2>2. PICK x \in {w, Idle, [step |-> "panicked"]} : req' = [req EXCEPT ![r] = x]
      BY <1>8 DEF UpdateOriginal, Becomes
    <2>3. x.step \in IdSteps => x.id \in 1..Len(rows)
      BY <1>8 DEF UpdateOriginal, Idle
    <2> QED BY <1>8, <2>1, <2>2, <2>3 DEF UpdateOriginal, TypeOK
  <1>9. ASSUME NEW r \in Request, UpdateWrite(r) PROVE Typed'
    <2> DEFINE q == req[r]
               x == [rows[q.id] EXCEPT !.kind = q.kind, !.amount = q.amount]
               new == [rows EXCEPT ![q.id] = x]
    <2>1. q.id \in 1..Len(rows) /\ q.kind \in Kind /\ q.amount \in Amount
      BY <1>9, RequestShape DEF UpdateWrite
    <2>2. new \in Seq(Row) /\ Len(new) = Len(rows) /\ rows[q.id].account \in Account
      <3>1. x \in Row /\ rows[q.id].account \in Account
        BY <2>1, RowRewrite DEF TypeOK
      <3> HIDE DEF x
      <3> QED BY <2>1, <3>1, RewriteTyped DEF TypeOK
    <2>3. \/ WriteAndSync(new, rows[q.id].account)
          \/ UNCHANGED <<rows, cached>>
      BY <1>9 DEF UpdateWrite
    <2>4. /\ accounts' = accounts
          /\ req' = [req EXCEPT ![r] = Idle]
      BY <1>9 DEF UpdateWrite, Becomes
    <2> HIDE DEF new
    <2>5. rows' \in Seq(Row) /\ Len(rows') = Len(rows) /\ cached' \in [Account -> Int]
      BY <2>2, <2>3, SyncTyped DEF TypeOK
    <2> QED BY <2>4, <2>5 DEF TypeOK, Idle, RequestState
  <1>10. ASSUME NEW r \in Request, NEW id \in 1..Len(rows), DeleteFind(r, id) PROVE Typed'
    <2> DEFINE d == [step |-> "deleteBalance", id |-> id,
                     account |-> rows[id].account, amount |-> rows[id].amount]
               w == [step |-> "deleteWrite", id |-> id]
    <2>1. id \in 1..MaxRows /\ rows[id] \in Row
      BY FinanceAssumption DEF TypeOK
    <2>2. d \in RequestState /\ w \in RequestState
      BY <2>1 DEF RequestState, Row
    <2>3. PICK x \in {d, w} : req' = [req EXCEPT ![r] = x]
      BY <1>10 DEF DeleteFind, Becomes
    <2>4. x.id = id
      OBVIOUS
    <2> QED BY <1>10, <2>2, <2>3, <2>4 DEF DeleteFind, TypeOK
  <1>11. ASSUME NEW r \in Request, DeleteBalance(r) PROVE Typed'
    <2> DEFINE w == [step |-> "deleteWrite", id |-> req[r].id]
    <2>1. w \in RequestState /\ Idle \in RequestState /\ req[r].id \in 1..Len(rows)
      BY <1>11, RequestShape DEF DeleteBalance, RequestState
    <2>2. PICK x \in {w, Idle} : req' = [req EXCEPT ![r] = x]
      BY <1>11 DEF DeleteBalance, Becomes
    <2>3. x.step \in IdSteps => x.id \in 1..Len(rows)
      BY <2>1 DEF Idle
    <2> QED BY <1>11, <2>1, <2>2, <2>3 DEF DeleteBalance, TypeOK
  <1>12. ASSUME NEW r \in Request, DeleteWrite(r) PROVE Typed'
    <2> DEFINE id == req[r].id
               x == [rows[id] EXCEPT !.live = FALSE]
               new == [rows EXCEPT ![id] = x]
    <2>1. id \in 1..Len(rows)
      BY <1>12 DEF DeleteWrite
    <2>2. new \in Seq(Row) /\ Len(new) = Len(rows) /\ rows[id].account \in Account
      <3>1. x \in Row /\ rows[id].account \in Account
        BY <2>1, RowRewrite DEF TypeOK
      <3> HIDE DEF x
      <3> QED BY <2>1, <3>1, RewriteTyped DEF TypeOK
    <2>3. \/ WriteAndSync(new, rows[id].account)
          \/ UNCHANGED <<rows, cached>>
      BY <1>12 DEF DeleteWrite
    <2>4. /\ accounts' = accounts
          /\ req' = [req EXCEPT ![r] = Idle]
      BY <1>12 DEF DeleteWrite, Becomes
    <2> HIDE DEF new
    <2>5. rows' \in Seq(Row) /\ Len(rows') = Len(rows) /\ cached' \in [Account -> Int]
      BY <2>2, <2>3, SyncTyped DEF TypeOK
    <2> QED BY <2>4, <2>5 DEF TypeOK, Idle, RequestState
  <1>13. ASSUME NEW r \in Request, Abandon(r) PROVE Typed'
    BY <1>13 DEF Abandon, Becomes, TypeOK, Idle, RequestState
  <1>14. CASE UNCHANGED vars
    BY <1>14 DEF vars, TypeOK
  <1> QED
    BY <1>1, <1>2, <1>3, <1>4, <1>5, <1>6, <1>7, <1>8, <1>9, <1>10, <1>11, <1>12, <1>13, <1>14
       DEF Next

(* The types, and that a request names only ids that were issued, hold     *)
(* in every reachable state of the ledger.                                 *)
THEOREM FinanceTyping == Spec => []Typed
  <1>1. Init => Typed
    BY FinanceAssumption DEF Init, Typed, TypeOK, Idle, RequestState, IdSteps
  <1> QED BY <1>1, TypedStep, PTL DEF Spec

(* The type invariant of the ledger, as the runs check it.                 *)
THEOREM FinanceTypes == Spec => []TypeOK
  <1>1. Typed => TypeOK
    BY DEF Typed
  <1> QED BY <1>1, FinanceTyping, PTL

-----------------------------------------------------------------------------
(* The four things a step can do to the transactions table.                *)

Inserts(row) ==
    /\ row.live
    /\ WriteAndSync(Append(rows, row), row.account)

Rewrites(id, x) ==
    /\ x.account = rows[id].account /\ x.linked = rows[id].linked
    /\ rows[id].live /\ (x.live \/ ~ x.linked)
    /\ WriteAndSync([rows EXCEPT ![id] = x], x.account)

Links(id, x) ==
    /\ x = [rows[id] EXCEPT !.linked = TRUE] /\ rows[id].live
    /\ rows' = [rows EXCEPT ![id] = x] /\ cached' = cached

(* Every step inserts a row, rewrites a live one, links one or leaves the table alone. *)
LEMMA TableStep ==
    ASSUME Typed, [Next]_vars
    PROVE  \/ UNCHANGED <<rows, cached>>
           \/ \E row \in Row : Inserts(row)
           \/ \E id \in 1..Len(rows), x \in Row : Rewrites(id, x) \/ Links(id, x)
  <1> DEFINE Goal == \/ UNCHANGED <<rows, cached>>
                     \/ \E row \in Row : Inserts(row)
                     \/ \E id \in 1..Len(rows), x \in Row : Rewrites(id, x) \/ Links(id, x)
  <1> USE DEF Typed, IdSteps
  <1>1. ASSUME NEW a \in Account, NEW kind \in Kind, NEW amount \in Amount,
               PostInUnit(a, kind, amount)
        PROVE  Goal
    <2> DEFINE row == [account |-> a, kind |-> kind, amount |-> amount,
                       live |-> TRUE, linked |-> TRUE]
    <2>1. row \in Row /\ row.account = a /\ row.live
      BY DEF Row
    <2>2. WriteAndSync(Append(rows, row), a)
      BY <1>1 DEF PostInUnit
    <2> HIDE DEF row
    <2> QED BY <2>1, <2>2 DEF Inserts
  <1>2. ASSUME NEW r \in Request, CreateWrite(r) PROVE Goal
    <2> DEFINE row == [account |-> req[r].account, kind |-> req[r].kind,
                       amount |-> req[r].amount, live |-> TRUE, linked |-> FALSE]
    <2>1. row \in Row /\ row.account = req[r].account /\ row.live
      BY <1>2, RequestShape DEF CreateWrite, Row
    <2>2. WriteAndSync(Append(rows, row), req[r].account)
      BY <1>2 DEF CreateWrite
    <2> HIDE DEF row
    <2> QED BY <2>1, <2>2 DEF Inserts
  <1>3. ASSUME NEW r \in Request, LinkPayment(r) PROVE Goal
    <2> DEFINE id == req[r].id
               x == [rows[id] EXCEPT !.linked = TRUE]
    <2>1. id \in 1..Len(rows)
      BY <1>3 DEF LinkPayment
    <2>2. x \in Row
      BY <2>1, RowRewrite DEF TypeOK
    <2>3. \/ UNCHANGED <<rows, cached>>
          \/ rows' = [rows EXCEPT ![id] = x] /\ cached' = cached /\ rows[id].live
      BY <1>3 DEF LinkPayment
    <2> QED BY <2>1, <2>2, <2>3 DEF Links
  <1>4. ASSUME NEW r \in Request, UpdateWrite(r) PROVE Goal
    <2> DEFINE id == req[r].id
               x == [rows[id] EXCEPT !.kind = req[r].kind, !.amount = req[r].amount]
    <2>1. id \in 1..Len(rows) /\ req[r].kind \in Kind /\ req[r].amount \in Amount
      BY <1>4, RequestShape DEF UpdateWrite
    <2>2. x \in Row /\ rows[id] \in Row
      BY <2>1, RowRewrite DEF TypeOK
    <2>3. \/ UNCHANGED <<rows, cached>>
          \/ WriteAndSync([rows EXCEPT ![id] = x], rows[id].account) /\ rows[id].live
      BY <1>4 DEF UpdateWrite
    <2>4. x.account = rows[id].account /\ x.linked = rows[id].linked /\ x.live = rows[id].live
      BY <2>2 DEF Row
    <2> HIDE DEF x
    <2> QED BY <2>1, <2>2, <2>3, <2>4 DEF Rewrites
  <1>5. ASSUME NEW r \in Request, DeleteWrite(r) PROVE Goal
    <2> DEFINE id == req[r].id
               x == [rows[id] EXCEPT !.live = FALSE]
    <2>1. id \in 1..Len(rows)
      BY <1>5 DEF DeleteWrite
    <2>2. x \in Row /\ rows[id] \in Row
      BY <2>1, RowRewrite DEF TypeOK
    <2>3. \/ UNCHANGED <<rows, cached>>
          \/ /\ WriteAndSync([rows EXCEPT ![id] = x], rows[id].account)
             /\ rows[id].live /\ ~ rows[id].linked
      BY <1>5 DEF DeleteWrite
    <2>4. x.account = rows[id].account /\ x.linked = rows[id].linked
      BY <2>2 DEF Row
    <2> HIDE DEF x
    <2> QED BY <2>1, <2>2, <2>3, <2>4 DEF Rewrites
  <1>6. CASE UNCHANGED <<rows, cached>>
    BY <1>6
  <1> QED
    BY <1>1, <1>2, <1>3, <1>4, <1>5, <1>6
       DEF Next, vars, CreateAccount, CreateRead, UpdateFind, DeleteFind, UpdateBalance,
           UpdateOriginal, DeleteBalance, Abandon

-----------------------------------------------------------------------------
(* The cached balance.                                                     *)

(* Every step keeps the cache equal to the fold of the rows. *)
LEMMA CachedStep ==
    ASSUME Typed, CachedIsFold, [Next]_vars
    PROVE  CachedIsFold'
  <1> SUFFICES ASSUME NEW c \in Account PROVE cached'[c] = BalanceIn(rows', c)
    BY DEF CachedIsFold, Balance
  <1>1. cached[c] = BalanceIn(rows, c) /\ rows \in Seq(Row) /\ cached \in [Account -> Int]
    BY DEF CachedIsFold, Balance, Typed, TypeOK
  <1>2. BalanceIn(rows, c) \in Int
    BY <1>1, BalanceInt
  <1>3. CASE UNCHANGED <<rows, cached>>
    BY <1>1, <1>3
  <1>4. ASSUME NEW row \in Row, Inserts(row) PROVE cached'[c] = BalanceIn(rows', c)
    <2>1. rows' = Append(rows, row) /\ cached' = [cached EXCEPT ![row.account] = BalanceIn(rows', row.account)]
      BY <1>4 DEF Inserts, WriteAndSync
    <2>2. CASE c = row.account
      BY <1>1, <2>1, <2>2
    <2>3. CASE c # row.account
      <3>1. Figure(row, c) = 0
        BY <2>3 DEF Figure
      <3>2. BalanceIn(rows', c) = BalanceIn(rows, c) + Figure(row, c)
        BY <1>1, <2>1, BalanceAppend
      <3> QED BY <1>1, <1>2, <2>1, <2>3, <3>1, <3>2
    <2> QED BY <2>2, <2>3
  <1>5. ASSUME NEW id \in 1..Len(rows), NEW x \in Row, Rewrites(id, x)
        PROVE  cached'[c] = BalanceIn(rows', c)
    <2>1. rows' = [rows EXCEPT ![id] = x] /\ cached' = [cached EXCEPT ![x.account] = BalanceIn(rows', x.account)]
          /\ x.account = rows[id].account
      BY <1>5 DEF Rewrites, WriteAndSync
    <2>2. CASE c = x.account
      BY <1>1, <2>1, <2>2
    <2>3. CASE c # x.account
      <3>1. /\ rows' \in Seq(Row) /\ Len(rows') = Len(rows) /\ rows'[id] = x
            /\ \A i \in 1..Len(rows) : i # id => rows'[i] = rows[i]
        BY <1>1, <2>1, RewriteTyped
      <3>2. BalanceIn(rows', c) = BalanceIn(rows, c) - Figure(rows[id], c) + Figure(rows'[id], c)
        BY <1>1, <3>1, BalanceRewrite
      <3>3. Figure(rows[id], c) = 0 /\ Figure(rows'[id], c) = 0
        BY <2>1, <2>3, <3>1 DEF Figure
      <3> QED BY <1>1, <1>2, <2>1, <2>3, <3>2, <3>3
    <2> QED BY <2>2, <2>3
  <1>6. ASSUME NEW id \in 1..Len(rows), NEW x \in Row, Links(id, x)
        PROVE  cached'[c] = BalanceIn(rows', c)
    <2>1. rows' = [rows EXCEPT ![id] = x] /\ cached' = cached
      BY <1>6 DEF Links
    <2>2. /\ rows' \in Seq(Row) /\ Len(rows') = Len(rows) /\ rows'[id] = x
          /\ \A i \in 1..Len(rows) : i # id => rows'[i] = rows[i]
      BY <1>1, <2>1, RewriteTyped
    <2>3. BalanceIn(rows', c) = BalanceIn(rows, c) - Figure(rows[id], c) + Figure(rows'[id], c)
      BY <1>1, <2>2, BalanceRewrite
    <2>4. rows[id] \in Row
      BY <1>1, RowRewrite
    <2>5. Figure(x, c) = Figure(rows[id], c)
      BY <1>6, <2>4 DEF Links, Figure, Signed, Row
    <2>6. Figure(x, c) \in Int
      BY FigureInt
    <2> QED BY <1>1, <1>2, <2>1, <2>2, <2>3, <2>5, <2>6
  <1> QED BY <1>3, <1>4, <1>5, <1>6, TableStep

(* accounts.cached_balance always equals the fold of the account's rows:   *)
(* any number of requests, in any order, failing anywhere.                 *)
THEOREM CacheAgrees == Spec => []CachedIsFold
  <1>1. Init => CachedIsFold
    <2> SUFFICES ASSUME Init, NEW a \in Account PROVE cached[a] = BalanceIn(rows, a)
      BY DEF CachedIsFold, Balance
    <2>1. rows = <<>> /\ cached[a] = 0
      BY DEF Init
    <2>2. BalanceIn(<<>>, a) = SumOver([i \in 1..0 |-> Figure(<<>>[i], a)], 0)
      BY DEF BalanceIn
    <2> QED BY <2>1, <2>2, SumOverStep
  <1>2. Typed /\ CachedIsFold /\ [Next]_vars => CachedIsFold'
    BY CachedStep
  <1> QED BY <1>1, <1>2, FinanceTyping, PTL DEF Spec

-----------------------------------------------------------------------------
(* Rows behind payments.                                                   *)

Kept ==
    \A i \in 1..Len(rows) :
        /\ i \in 1..Len(rows')
        /\ rows'[i].account = rows[i].account
        /\ rows'[i].live => rows[i].live
        /\ rows[i].linked => rows'[i].linked

(* Every step keeps the history of the rows, and linked rows alive. *)
LEMMA RowsStep ==
    ASSUME Typed, [Next]_vars
    PROVE  Kept /\ (LinkedStaysLive => LinkedStaysLive')
  <1>1. rows \in Seq(Row)
    BY DEF Typed, TypeOK
  <1>2. CASE UNCHANGED <<rows, cached>>
    BY <1>2 DEF Kept, LinkedStaysLive
  <1>3. ASSUME NEW row \in Row, Inserts(row) PROVE Kept /\ (LinkedStaysLive => LinkedStaysLive')
    <2>1. rows' = Append(rows, row) /\ row.live
      BY <1>3 DEF Inserts, WriteAndSync
    <2>2. /\ Len(rows') = Len(rows) + 1 /\ rows'[Len(rows) + 1] = row
          /\ \A i \in 1..Len(rows) : rows'[i] = rows[i]
      BY <1>1, <2>1
    <2>3. \A i \in 1..Len(rows') : i \in 1..Len(rows) \/ i = Len(rows) + 1
      BY <1>1, <2>2
    <2>4. \A i \in 1..Len(rows) : i \in 1..Len(rows')
      BY <1>1, <2>2
    <2> QED BY <2>1, <2>2, <2>3, <2>4 DEF Kept, LinkedStaysLive
  <1>4. ASSUME NEW id \in 1..Len(rows), NEW x \in Row, Rewrites(id, x) \/ Links(id, x)
        PROVE  Kept /\ (LinkedStaysLive => LinkedStaysLive')
    <2>1. rows' = [rows EXCEPT ![id] = x]
      BY <1>4 DEF Rewrites, Links, WriteAndSync
    <2>2. /\ Len(rows') = Len(rows) /\ rows'[id] = x
          /\ \A i \in 1..Len(rows) : i # id => rows'[i] = rows[i]
      BY <1>1, <2>1, RewriteTyped
    <2>3. rows[id] \in Row
      BY <1>1, RowRewrite
    <2>4. /\ x.account = rows[id].account /\ rows[id].live
          /\ rows[id].linked => x.linked
          /\ x.linked => x.live
      BY <1>4, <2>3 DEF Rewrites, Links, Row
    <2> QED BY <2>2, <2>4 DEF Kept, LinkedStaysLive
  <1> QED BY <1>2, <1>3, <1>4, TableStep

(* The transaction behind a payment or a refund is never deleted.          *)
THEOREM LinkedStays == Spec => []LinkedStaysLive
  <1>1. Init => LinkedStaysLive
    BY DEF Init, LinkedStaysLive
  <1>2. Typed /\ LinkedStaysLive /\ [Next]_vars => LinkedStaysLive'
    BY RowsStep
  <1> QED BY <1>1, <1>2, FinanceTyping, PTL DEF Spec

(* No step revives a deleted transaction, moves one to another account or  *)
(* takes a payment's link away.                                            *)
THEOREM History == Spec => HistoryKept
  <1>1. Typed /\ [Next]_vars => [Kept]_vars
    BY RowsStep
  <1>2. HistoryKept <=> [][Kept]_vars
    BY DEF HistoryKept, Kept
  <1> QED BY <1>1, <1>2, FinanceTyping, PTL DEF Spec

-----------------------------------------------------------------------------
(* The overdraft rule, when a request is served only while no other is.    *)
(* Then what the one request has decided is still true when it writes.     *)

NonNegative(rs) == \A a \in Account : BalanceIn(rs, a) >= 0

Alone == \A r, s \in Request : req[r] # Idle /\ req[s] # Idle => r = s

Decided(q) ==
    /\ q.step = "create" => q.kind = "Income" \/ BalanceIn(rows, q.account) - q.amount >= 0
    /\ q.step \in {"updateBalance", "updateOriginal", "updateWrite", "deleteBalance", "deleteWrite"} =>
           rows[q.id].live
    /\ q.step = "updateOriginal" => q.seen = BalanceIn(rows, rows[q.id].account)
    /\ q.step = "updateWrite" =>
           BalanceIn(rows, rows[q.id].account) - Signed(rows[q.id]) + Signed(q) >= 0
    /\ q.step = "deleteBalance" => /\ rows[q.id].kind = "Income"
                                   /\ q.account = rows[q.id].account
                                   /\ q.amount = rows[q.id].amount
    /\ q.step = "deleteWrite" => BalanceIn(rows, rows[q.id].account) - Signed(rows[q.id]) >= 0

Serial == Alone /\ NonNegative(rows) /\ \A r \in Request : Decided(req[r])

(* A row whose figure the account can bear may be inserted. *)
LEMMA InsertCovered ==
    ASSUME NEW rs \in Seq(Row), NEW row \in Row, row.live, NonNegative(rs),
           BalanceIn(rs, row.account) + Signed(row) >= 0
    PROVE  NonNegative(Append(rs, row))
  <1> SUFFICES ASSUME NEW a \in Account PROVE BalanceIn(Append(rs, row), a) >= 0
    BY DEF NonNegative
  <1>1. BalanceIn(Append(rs, row), a) = BalanceIn(rs, a) + Figure(row, a)
    BY BalanceAppend
  <1>2. Figure(row, a) = IF row.account = a THEN Signed(row) ELSE 0
    BY DEF Figure
  <1>3. BalanceIn(rs, a) >= 0 /\ BalanceIn(rs, a) \in Int
    BY BalanceInt DEF NonNegative
  <1> QED BY <1>1, <1>2, <1>3

(* A row may be rewritten when the account can bear the difference. *)
LEMMA RewriteCovered ==
    ASSUME NEW rs \in Seq(Row), NEW id \in 1..Len(rs), NEW x \in Row, NonNegative(rs),
           rs[id].live, x.account = rs[id].account,
           BalanceIn(rs, x.account) - Signed(rs[id]) + (IF x.live THEN Signed(x) ELSE 0) >= 0
    PROVE  NonNegative([rs EXCEPT ![id] = x])
  <1> DEFINE new == [rs EXCEPT ![id] = x]
  <1> SUFFICES ASSUME NEW a \in Account PROVE BalanceIn(new, a) >= 0
    BY DEF NonNegative
  <1>1. /\ new \in Seq(Row) /\ Len(new) = Len(rs) /\ new[id] = x
        /\ \A i \in 1..Len(rs) : i # id => new[i] = rs[i]
    BY RewriteTyped
  <1> HIDE DEF new
  <1>2. BalanceIn(new, a) = BalanceIn(rs, a) - Figure(rs[id], a) + Figure(x, a)
    BY <1>1, BalanceRewrite
  <1>3. /\ Figure(rs[id], a) = IF x.account = a THEN Signed(rs[id]) ELSE 0
        /\ Figure(x, a) = IF x.account = a /\ x.live THEN Signed(x) ELSE 0
    BY DEF Figure
  <1>4. BalanceIn(rs, a) >= 0 /\ BalanceIn(rs, a) \in Int
    BY BalanceInt DEF NonNegative
  <1>5. rs[id] \in Row
    BY RowRewrite
  <1>6. Signed(rs[id]) \in Int /\ Signed(x) \in Int
    BY <1>5, FigureInt
  <1> QED BY <1>2, <1>3, <1>4, <1>6

(* While one request runs, its step leaves the others idle. *)
LEMMA AloneStep ==
    ASSUME Typed, Alone, NEW r \in Request, NEW x, req' = [req EXCEPT ![r] = x],
           req[r] # Idle \/ \A s \in Request : req[s] = Idle
    PROVE  /\ Alone'
           /\ \A s \in Request : s # r => req'[s] = Idle
           /\ req'[r] = x
  BY DEF Typed, TypeOK, Alone

(* A finished, linking or idle request has nothing left to decide. *)
LEMMA IdleDecided ==
    ASSUME NEW q, q.step \in {"idle", "panicked", "link"}
    PROVE  Decided(q)'
  BY DEF Decided

(* A step of one request keeps the serial invariant when it leaves the     *)
(* balances covered and its own decision true.                             *)
LEMMA SerialFrom ==
    ASSUME Typed, Serial, NEW r \in Request, NEW x, req' = [req EXCEPT ![r] = x],
           req[r] # Idle \/ \A s \in Request : req[s] = Idle,
           NonNegative(rows'), Decided(x)'
    PROVE  Serial'
  <1>1. /\ Alone'
        /\ \A s \in Request : s # r => req'[s] = Idle
        /\ req'[r] = x
    BY AloneStep DEF Serial
  <1>2. Decided(Idle)'
    BY DEF Decided, Idle
  <1>3. \A s \in Request : Decided(req[s])'
    <2> SUFFICES ASSUME NEW s \in Request PROVE Decided(req[s])'
      OBVIOUS
    <2>1. CASE s = r
      BY <1>1, <2>1 DEF Decided
    <2>2. CASE s # r
      BY <1>1, <1>2, <2>2 DEF Decided
    <2> QED BY <2>1, <2>2
  <1> QED BY <1>1, <1>3 DEF Serial

(* The same for a step that only reads the table. *)
LEMMA SerialRead ==
    ASSUME Typed, Serial, NEW r \in Request, NEW x, req' = [req EXCEPT ![r] = x],
           req[r] # Idle \/ \A s \in Request : req[s] = Idle,
           rows' = rows, Decided(x)
    PROVE  Serial'
  <1>1. Decided(x)'
    BY DEF Decided
  <1>2. NonNegative(rows')
    BY DEF Serial
  <1> QED BY <1>1, <1>2, SerialFrom

(* Every step of a serial ledger without negative balances keeps them so. *)
LEMMA SerialStep ==
    ASSUME OneAtATime, ~ AllowNegative, Typed, Serial, [Next]_vars
    PROVE  Serial'
  <1> USE DEF IdSteps
  <1>0. /\ rows \in Seq(Row) /\ NonNegative(rows)
        /\ \A r \in Request : Decided(req[r]) /\ (req[r].step \in IdSteps => req[r].id \in 1..Len(rows))
    BY DEF Serial, Typed, TypeOK
  <1>1. CASE UNCHANGED <<rows, req>>
    BY <1>1 DEF Serial, Alone, Decided
  <1>2. ASSUME NEW a \in Account, NEW kind \in Kind, NEW amount \in Amount,
               PostInUnit(a, kind, amount)
        PROVE  Serial'
    <2> DEFINE row == [account |-> a, kind |-> kind, amount |-> amount,
                       live |-> TRUE, linked |-> TRUE]
    <2>1. /\ row \in Row /\ row.account = a /\ row.live
          /\ Signed(row) = IF kind = "Income" THEN amount ELSE -amount
      BY DEF Row, Signed
    <2>2. /\ \A s \in Request : req[s] = Idle
          /\ Covered(a, kind, amount) /\ req' = req /\ rows' = Append(rows, row)
      BY <1>2 DEF PostInUnit, WriteAndSync
    <2>3. BalanceIn(rows, a) \in Int /\ BalanceIn(rows, a) >= 0 /\ amount \in Nat
      BY <1>0, BalanceInt, FinanceAssumption DEF NonNegative
    <2>4. BalanceIn(rows, a) + Signed(row) >= 0
      BY <2>1, <2>2, <2>3 DEF Covered, Balance, Kind
    <2> HIDE DEF row
    <2>5. NonNegative(rows')
      BY <1>0, <2>1, <2>2, <2>4, InsertCovered
    <2> QED BY <2>2, <2>5 DEF Serial, Alone, Decided, Idle
  <1>3. ASSUME NEW r \in Request, NEW a \in Account, NEW kind \in Kind, NEW amount \in Amount,
               NEW payment \in BOOLEAN, CreateRead(r, a, kind, amount, payment)
        PROVE  Serial'
    <2> DEFINE x == [step |-> "create", account |-> a, kind |-> kind,
                     amount |-> amount, payment |-> payment]
    <2>1. /\ \A s \in Request : req[s] = Idle
          /\ req' = [req EXCEPT ![r] = x] /\ rows' = rows
      BY <1>3 DEF CreateRead, Free, Becomes
    <2>2. Decided(x)
      BY <1>3 DEF CreateRead, Covered, Balance, Decided
    <2> HIDE DEF x
    <2> QED BY <2>1, <2>2, SerialRead
  <1>4. ASSUME NEW r \in Request, CreateWrite(r) PROVE Serial'
    <2> DEFINE row == [account |-> req[r].account, kind |-> req[r].kind,
                       amount |-> req[r].amount, live |-> TRUE, linked |-> FALSE]
               link == [step |-> "link", id |-> Len(rows) + 1]
    <2>1. /\ row \in Row /\ row.account = req[r].account /\ row.live
          /\ req[r].account \in Account /\ req[r].amount \in Nat /\ req[r].kind \in Kind
          /\ Signed(row) = IF req[r].kind = "Income" THEN req[r].amount ELSE -req[r].amount
      BY <1>4, RequestShape, FinanceAssumption DEF CreateWrite, Row, Signed, Typed
    <2>2. /\ req[r].step = "create" /\ rows' = Append(rows, row)
          /\ req' = [req EXCEPT ![r] = link] \/ req' = [req EXCEPT ![r] = Idle]
      BY <1>4 DEF CreateWrite, WriteAndSync, Becomes
    <2>3. BalanceIn(rows, row.account) \in Int /\ BalanceIn(rows, row.account) >= 0
      BY <1>0, <2>1, BalanceInt DEF NonNegative
    <2>4. BalanceIn(rows, row.account) + Signed(row) >= 0
      BY <1>0, <2>1, <2>2, <2>3 DEF Decided
    <2>5. link.step = "link" /\ Idle.step = "idle" /\ req[r] # Idle
      BY <2>2 DEF Idle
    <2> HIDE DEF row, link
    <2>6. NonNegative(rows')
      BY <1>0, <2>1, <2>2, <2>4, InsertCovered
    <2>7. Decided(Idle)'
      BY <2>5 DEF Decided
    <2>8. CASE req' = [req EXCEPT ![r] = link]
      <3>1. PICK x : x = link
        OBVIOUS
      <3>2. Decided(x)'
        BY <2>5, <3>1 DEF Decided
      <3> QED BY <2>5, <2>6, <2>8, <3>1, <3>2, SerialFrom
    <2>9. CASE req' = [req EXCEPT ![r] = Idle]
      BY <2>5, <2>6, <2>7, <2>9, SerialFrom
    <2> QED BY <2>2, <2>8, <2>9
  <1>5. ASSUME NEW r \in Request, LinkPayment(r) PROVE Serial'
    <2> DEFINE id == req[r].id
               x == [rows[id] EXCEPT !.linked = TRUE]
    <2>1. /\ req[r].step = "link" /\ id \in 1..Len(rows) /\ req' = [req EXCEPT ![r] = Idle]
          /\ rows' = rows \/ (rows[id].live /\ rows' = [rows EXCEPT ![id] = x])
      BY <1>0, <1>5 DEF LinkPayment, Becomes
    <2>2. /\ x \in Row /\ rows[id] \in Row
          /\ x.live = rows[id].live /\ x.account = rows[id].account /\ Signed(x) = Signed(rows[id])
      <3>1. x \in Row /\ rows[id] \in Row
        BY <1>0, <2>1, RowRewrite
      <3>2. /\ x.live = rows[id].live /\ x.account = rows[id].account
            /\ x.kind = rows[id].kind /\ x.amount = rows[id].amount
        BY <3>1 DEF Row
      <3> QED BY <3>1, <3>2 DEF Signed
    <2>3. /\ BalanceIn(rows, x.account) \in Int /\ BalanceIn(rows, x.account) >= 0
          /\ Signed(x) \in Int
      BY <1>0, <2>2, BalanceInt, FigureInt DEF NonNegative, Row
    <2>4. Decided(Idle)' /\ req[r] # Idle
      BY <2>1 DEF Decided, Idle
    <2> HIDE DEF x, id
    <2>5. NonNegative(rows')
      <3>1. CASE rows' = rows
        BY <1>0, <3>1
      <3>2. CASE rows[id].live /\ rows' = [rows EXCEPT ![id] = x]
        <4>1. BalanceIn(rows, x.account) - Signed(rows[id]) + (IF x.live THEN Signed(x) ELSE 0) >= 0
          BY <2>2, <2>3, <3>2
        <4> QED BY <1>0, <2>1, <2>2, <3>2, <4>1, RewriteCovered
      <3> QED BY <2>1, <3>1, <3>2
    <2> QED BY <2>1, <2>4, <2>5, SerialFrom
  <1>6. ASSUME NEW r \in Request, NEW id \in 1..Len(rows), NEW kind \in Kind,
               NEW amount \in Amount, UpdateFind(r, id, kind, amount)
        PROVE  Serial'
    <2> DEFINE x == [step |-> "updateBalance", id |-> id, kind |-> kind, amount |-> amount]
    <2>1. /\ \A s \in Request : req[s] = Idle
          /\ rows[id].live /\ req' = [req EXCEPT ![r] = x] /\ rows' = rows
      BY <1>6 DEF UpdateFind, Free, Exists, Becomes
    <2>2. Decided(x)
      BY <2>1 DEF Decided
    <2> HIDE DEF x
    <2> QED BY <2>1, <2>2, SerialRead
  <1>7. ASSUME NEW r \in Request, UpdateBalance(r) PROVE Serial'
    <2> DEFINE x == [step |-> "updateOriginal", id |-> req[r].id, kind |-> req[r].kind,
                     amount |-> req[r].amount, seen |-> Balance(rows[req[r].id].account)]
    <2>1. /\ req[r].step = "updateBalance" /\ req[r] # Idle
          /\ req' = [req EXCEPT ![r] = x] /\ rows' = rows
      BY <1>7 DEF UpdateBalance, Becomes, Idle
    <2>2. Decided(x)
      BY <1>0, <2>1 DEF Decided, Balance
    <2> HIDE DEF x
    <2> QED BY <2>1, <2>2, SerialRead
  <1>8. ASSUME NEW r \in Request, UpdateOriginal(r) PROVE Serial'
    <2> DEFINE q == req[r]
               x == [step |-> "updateWrite", id |-> q.id, kind |-> q.kind, amount |-> q.amount]
               projected == q.seen - Signed(rows[q.id]) + Signed(q)
    <2>1. /\ q.step = "updateOriginal" /\ q # Idle /\ q.id \in 1..Len(rows) /\ rows' = rows
          /\ q.seen \in Int /\ q.amount \in Nat /\ q.kind \in Kind
          /\ rows[q.id].live /\ q.seen = BalanceIn(rows, rows[q.id].account)
      <3>1. q.step = "updateOriginal" /\ q # Idle /\ rows' = rows
        BY <1>8 DEF UpdateOriginal, Idle
      <3>2. q.seen \in Int /\ q.amount \in Nat /\ q.kind \in Kind
        BY <3>1, RequestShape, FinanceAssumption DEF Typed
      <3> QED BY <1>0, <3>1, <3>2 DEF Decided
    <2>2. req' = [req EXCEPT ![r] = IF projected < 0 THEN Idle ELSE x]
      BY <1>8, <2>1 DEF UpdateOriginal, Becomes
    <2>3. Signed(x) = Signed(q) /\ Signed(q) \in Int
      BY <2>1 DEF Signed
    <2>4. Signed(rows[q.id]) \in Int
      BY <1>0, <2>1, RowRewrite, FigureInt
    <2>5. CASE projected < 0
      <3>1. Decided(Idle) /\ req' = [req EXCEPT ![r] = Idle]
        BY <2>2, <2>5 DEF Decided, Idle
      <3> QED BY <2>1, <3>1, SerialRead
    <2>6. CASE ~ (projected < 0)
      <3>1. BalanceIn(rows, rows[q.id].account) - Signed(rows[q.id]) + Signed(x) >= 0
        BY <2>1, <2>3, <2>4, <2>6
      <3>2. Decided(x)
        BY <2>1, <3>1 DEF Decided
      <3>3. req' = [req EXCEPT ![r] = x]
        BY <2>2, <2>6
      <3> HIDE DEF x
      <3> QED BY <2>1, <3>2, <3>3, SerialRead
    <2> QED BY <2>5, <2>6
  <1>9. ASSUME NEW r \in Request, UpdateWrite(r) PROVE Serial'
    <2> DEFINE q == req[r]
               x == [rows[q.id] EXCEPT !.kind = q.kind, !.amount = q.amount]
    <2>1. /\ q.step = "updateWrite" /\ q # Idle /\ q.id \in 1..Len(rows)
          /\ q.kind \in Kind /\ q.amount \in Amount /\ rows[q.id].live
          /\ BalanceIn(rows, rows[q.id].account) - Signed(rows[q.id]) + Signed(q) >= 0
      BY <1>0, <1>9, RequestShape DEF UpdateWrite, Idle, Decided, Typed
    <2>2. rows' = [rows EXCEPT ![q.id] = x] /\ req' = [req EXCEPT ![r] = Idle]
      BY <1>9, <2>1 DEF UpdateWrite, WriteAndSync, Becomes
    <2>3. /\ x \in Row /\ x.account = rows[q.id].account /\ x.live
          /\ Signed(x) = Signed(q)
      <3>1. x \in Row /\ rows[q.id] \in Row
        BY <1>0, <2>1, RowRewrite
      <3>2. x.account = rows[q.id].account /\ x.live = rows[q.id].live
        BY <3>1 DEF Row
      <3>3. x.kind = q.kind /\ x.amount = q.amount
        BY <3>1 DEF Row
      <3> HIDE DEF x, q
      <3> QED BY <2>1, <3>1, <3>2, <3>3 DEF Signed
    <2>4. Decided(Idle)'
      BY DEF Decided, Idle
    <2> HIDE DEF q, x
    <2>5. BalanceIn(rows, x.account) - Signed(rows[q.id]) + (IF x.live THEN Signed(x) ELSE 0) >= 0
      BY <2>1, <2>3
    <2>6. NonNegative(rows')
      BY <1>0, <2>1, <2>2, <2>3, <2>5, RewriteCovered
    <2> QED BY <2>1, <2>2, <2>4, <2>6, SerialFrom DEF q
  <1>10. ASSUME NEW r \in Request, NEW id \in 1..Len(rows), DeleteFind(r, id) PROVE Serial'
    <2> DEFINE d == [step |-> "deleteBalance", id |-> id,
                     account |-> rows[id].account, amount |-> rows[id].amount]
               w == [step |-> "deleteWrite", id |-> id]
    <2>1. /\ \A s \in Request : req[s] = Idle
          /\ rows[id].live /\ rows' = rows
          /\ req' = [req EXCEPT ![r] = IF rows[id].kind = "Income" THEN d ELSE w]
      BY <1>10 DEF DeleteFind, Free, Exists, Becomes
    <2>2. CASE rows[id].kind = "Income"
      <3>1. Decided(d)
        BY <2>1, <2>2 DEF Decided
      <3> QED BY <2>1, <2>2, <3>1, SerialRead
    <2>3. CASE rows[id].kind # "Income"
      <3>1. rows[id] \in Row /\ rows[id].account \in Account /\ rows[id].amount \in Nat
        BY <1>0, RowRewrite, FinanceAssumption DEF Row
      <3>2. /\ BalanceIn(rows, rows[id].account) \in Int /\ BalanceIn(rows, rows[id].account) >= 0
            /\ Signed(rows[id]) = -rows[id].amount
        BY <1>0, <2>3, <3>1, BalanceInt DEF NonNegative, Signed
      <3>3. BalanceIn(rows, rows[id].account) - Signed(rows[id]) >= 0
        BY <3>1, <3>2
      <3>4. Decided(w)
        BY <2>1, <3>3 DEF Decided
      <3> QED BY <2>1, <2>3, <3>4, SerialRead
    <2> QED BY <2>2, <2>3
  <1>11. ASSUME NEW r \in Request, DeleteBalance(r) PROVE Serial'
    <2> DEFINE q == req[r]
               w == [step |-> "deleteWrite", id |-> q.id]
    <2>1. /\ q.step = "deleteBalance" /\ q # Idle /\ q.id \in 1..Len(rows)
          /\ rows[q.id].live /\ rows[q.id].kind = "Income" /\ rows' = rows
          /\ q.account = rows[q.id].account /\ q.amount = rows[q.id].amount
      BY <1>0, <1>11 DEF DeleteBalance, Idle, Decided
    <2>2. req' = [req EXCEPT ![r] = IF BalanceIn(rows, q.account) - q.amount < 0 THEN Idle ELSE w]
      BY <1>11 DEF DeleteBalance, Becomes, Balance
    <2>3. Decided(Idle)
      BY DEF Decided, Idle
    <2>4. CASE BalanceIn(rows, q.account) - q.amount < 0
      BY <2>1, <2>2, <2>3, <2>4, SerialRead
    <2>5. CASE ~ (BalanceIn(rows, q.account) - q.amount < 0)
      <3>1. q.amount \in Nat /\ Signed(rows[q.id]) = q.amount
        BY <1>0, <2>1, RowRewrite, FinanceAssumption DEF Row, Signed
      <3>2. BalanceIn(rows, q.account) \in Int
        BY <1>0, BalanceInt
      <3>3. BalanceIn(rows, rows[q.id].account) - Signed(rows[q.id]) >= 0
        BY <2>1, <2>5, <3>1, <3>2
      <3>4. Decided(w)
        BY <2>1, <3>3 DEF Decided
      <3> HIDE DEF w
      <3> QED BY <2>1, <2>2, <2>5, <3>4, SerialRead
    <2> QED BY <2>4, <2>5
  <1>12. ASSUME NEW r \in Request, DeleteWrite(r) PROVE Serial'
    <2> DEFINE q == req[r]
               x == [rows[q.id] EXCEPT !.live = FALSE]
    <2>1. /\ q.step = "deleteWrite" /\ q # Idle /\ q.id \in 1..Len(rows) /\ rows[q.id].live
          /\ BalanceIn(rows, rows[q.id].account) - Signed(rows[q.id]) >= 0
      BY <1>0, <1>12 DEF DeleteWrite, Idle, Decided
    <2>2. /\ req' = [req EXCEPT ![r] = Idle]
          /\ rows' = rows \/ rows' = [rows EXCEPT ![q.id] = x]
      BY <1>12 DEF DeleteWrite, WriteAndSync, Becomes
    <2>3. /\ x \in Row /\ rows[q.id] \in Row /\ x.account = rows[q.id].account /\ ~ x.live
          /\ Signed(rows[q.id]) \in Int
      <3>1. x \in Row /\ rows[q.id] \in Row
        BY <1>0, <2>1, RowRewrite
      <3>2. Signed(rows[q.id]) \in Int
        BY <3>1, FigureInt
      <3> QED BY <3>1, <3>2 DEF Row
    <2>4. Decided(Idle)'
      BY DEF Decided, Idle
    <2>5. BalanceIn(rows, x.account) \in Int
      BY <1>0, BalanceInt
    <2> HIDE DEF q, x
    <2>6. BalanceIn(rows, x.account) - Signed(rows[q.id]) + (IF x.live THEN Signed(x) ELSE 0) >= 0
      BY <2>1, <2>3, <2>5
    <2>7. NonNegative(rows')
      BY <1>0, <2>1, <2>2, <2>3, <2>6, RewriteCovered
    <2> QED BY <2>1, <2>2, <2>4, <2>7, SerialFrom DEF q
  <1>13. ASSUME NEW r \in Request, Abandon(r) PROVE Serial'
    <2>1. Decided(Idle) /\ req[r] # Idle /\ req' = [req EXCEPT ![r] = Idle] /\ rows' = rows
      BY <1>13 DEF Abandon, Becomes, Decided, Idle
    <2> QED BY <2>1, SerialRead
  <1> QED
    BY <1>1, <1>2, <1>3, <1>4, <1>5, <1>6, <1>7, <1>8, <1>9, <1>10, <1>11, <1>12, <1>13
       DEF Next, vars, CreateAccount

(* Where negative balances are not allowed and requests do not overlap, no *)
(* account is ever below zero, whatever requests are abandoned.            *)
THEOREM SerialSolvent == OneAtATime => (Spec => []Solvent)
  <1>1. CASE AllowNegative
    <2>1. Typed => Solvent
      BY <1>1 DEF Solvent
    <2> QED BY <2>1, FinanceTyping, PTL
  <1>2. CASE ~ AllowNegative /\ OneAtATime
    <2>1. Init => Serial
      <3> SUFFICES ASSUME Init PROVE Serial
        OBVIOUS
      <3>1. rows = <<>> /\ \A r \in Request : req[r] = Idle
        BY DEF Init
      <3>2. ASSUME NEW a \in Account PROVE BalanceIn(<<>>, a) = 0
        <4>1. BalanceIn(<<>>, a) = SumOver([i \in 1..0 |-> Figure(<<>>[i], a)], 0)
          BY DEF BalanceIn
        <4> QED BY <4>1, SumOverStep
      <3> QED BY <3>1, <3>2 DEF Serial, Alone, NonNegative, Decided, Idle
    <2>2. Typed /\ Serial /\ [Next]_vars => Serial'
      BY <1>2, SerialStep
    <2>3. Serial => Solvent
      BY DEF Serial, NonNegative, Solvent, Balance
    <2> QED BY <2>1, <2>2, <2>3, FinanceTyping, PTL DEF Spec
  <1> QED BY <1>1, <1>2

=============================================================================
