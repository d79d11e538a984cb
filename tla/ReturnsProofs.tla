---------------------------- MODULE ReturnsProofs ----------------------------
(***************************************************************************)
(* Proofs about Returns for every set of parents, products, accounts and   *)
(* requests and every bound.  However requests overlap and fail: the       *)
(* types; that the table of returns implements SaleDocument, so that its   *)
(* numbers are dense and unique and a numbered return keeps its parent and *)
(* its lines; and that every refund row has its transactions.  With        *)
(* requests served one at a time: returns stay within their parents, pay   *)
(* back their worth or nothing, move their goods, and a reversed one has   *)
(* undone all of it.                                                       *)
(***************************************************************************)
EXTENDS Returns, SumsProofs, SequenceTheorems

DocumentLaws == INSTANCE SaleDocumentProofs
                    WITH docs <- docs, lastNumber <- lastNumber, Year <- Year,
                         Body <- [parent : Parent, lines : Seq(Line)]

-----------------------------------------------------------------------------
(* The invariant: the table is typed, a status fits its stamp, and what a  *)
(* request holds of a return is still true of it.                          *)

Cancelling == {"reverse", "link"}

\* What a request q relies on, of the table as it is.
Relies(q, table) ==
    /\ q.step \in {"confirm"} \cup Cancelling => q.return \in 1..Len(table)
    /\ q.step = "confirm" => q.seen \in Return
    /\ q.step \in Cancelling => table[q.return].number # NoNumber
    /\ q.step = "reverse" =>
           q = [step |-> "reverse", return |-> q.return, lines |-> q.lines, pays |-> q.pays]

Typed ==
    /\ returns \in Seq(Return) /\ lastNumber \in [Year -> Nat]
    /\ \A k \in 1..Len(returns) :
           /\ returns[k].status \in {"Draft", "deleted"} => returns[k].number = NoNumber
           /\ returns[k].status = "Confirmed" => returns[k].number # NoNumber
    /\ req = [r \in Request |-> req[r]]
    /\ \A r \in Request : Relies(req[r], returns)

\* The same of the requests after a step.
RequestsKept ==
    /\ req' = [r \in Request |-> req'[r]]
    /\ \A r \in Request : Relies(req'[r], returns')

\* How one row is rewritten, with what happens to the sequence.
Rewritten(k, x) ==
    \/ /\ returns[k].status = "Draft"
       /\ x = [returns[k] EXCEPT !.lines = x.lines]
       /\ UNCHANGED lastNumber
    \/ /\ returns[k].number = NoNumber
       /\ x = [returns[k] EXCEPT !.status = "deleted", !.lines = <<>>]
       /\ UNCHANGED lastNumber
    \/ /\ returns[k].status # "deleted"
       /\ x = [returns[k] EXCEPT !.year = x.year]
       /\ UNCHANGED lastNumber
    \/ /\ returns[k].status # "deleted"
       /\ x = [returns[k] EXCEPT !.status = "Cancelled"]
       /\ UNCHANGED lastNumber
    \/ \E y \in Year :
       /\ returns[k].status = "Draft"
       /\ x = [returns[k] EXCEPT !.status = "Confirmed", !.number = <<y, lastNumber[y] + 1>>]
       /\ lastNumber' = [lastNumber EXCEPT ![y] = @ + 1]

\* The three things a step can do to the table.
TableStep ==
    \/ UNCHANGED <<returns, lastNumber>>
    \/ /\ UNCHANGED lastNumber
       /\ \E x \in Return : /\ x.status = "Draft" /\ x.number = NoNumber
                        /\ returns' = Append(returns, x)
    \/ \E k \in 1..Len(returns) : \E x \in Return :
          returns' = [returns EXCEPT ![k] = x] /\ Rewritten(k, x)

(* What a step on the table leaves: its types, stamps that fit, and the    *)
(* numbers that were given.                                                *)
TableKept ==
    /\ returns' \in Seq(Return) /\ lastNumber' \in [Year -> Nat]
    /\ 1..Len(returns) \subseteq 1..Len(returns')
    /\ \A k \in 1..Len(returns) :
           returns[k].number # NoNumber => returns'[k].number # NoNumber
    /\ \A k \in 1..Len(returns') :
           /\ returns'[k].status \in {"Draft", "deleted"} => returns'[k].number = NoNumber
           /\ returns'[k].status = "Confirmed" => returns'[k].number # NoNumber

(* A rewritten row is stamped as its status says. *)
LEMMA RewrittenKeeps ==
    ASSUME Typed, NEW k \in 1..Len(returns), NEW x \in Return, Rewritten(k, x)
    PROVE  /\ returns[k].number # NoNumber => x.number # NoNumber
           /\ x.status \in {"Draft", "deleted"} => x.number = NoNumber
           /\ x.status = "Confirmed" => x.number # NoNumber
           /\ lastNumber' \in [Year -> Nat]
  <1>1. returns[k] \in Return /\ lastNumber \in [Year -> Nat]
    BY ElementOfSeq DEF Typed
  <1>2. /\ returns[k].status \in {"Draft", "deleted"} => returns[k].number = NoNumber
        /\ returns[k].status = "Confirmed" => returns[k].number # NoNumber
    BY DEF Typed
  <1>3. CASE \E y \in Year :
             /\ returns[k].status = "Draft"
             /\ x = [returns[k] EXCEPT !.status = "Confirmed", !.number = <<y, lastNumber[y] + 1>>]
             /\ lastNumber' = [lastNumber EXCEPT ![y] = @ + 1]
    <2>1. PICK y \in Year :
             /\ returns[k].status = "Draft"
             /\ x = [returns[k] EXCEPT !.status = "Confirmed", !.number = <<y, lastNumber[y] + 1>>]
             /\ lastNumber' = [lastNumber EXCEPT ![y] = @ + 1]
      BY <1>3
    <2>2. x.status = "Confirmed" /\ x.number = <<y, lastNumber[y] + 1>>
      BY <1>1, <2>1 DEF Return
    <2>3. x.number # NoNumber
      BY <2>2 DEF NoNumber
    <2>4. lastNumber' \in [Year -> Nat]
      BY <1>1, <2>1
    <2> QED BY <1>2, <2>1, <2>2, <2>3, <2>4
  <1>4. CASE lastNumber' = lastNumber
    <2> QED BY <1>1, <1>2, <1>4, <1>3 DEF Rewritten, Return
  <1> QED BY <1>3, <1>4 DEF Rewritten

(* Every step on the table leaves that. *)
LEMMA TableTyped ==
    ASSUME Typed, TableStep
    PROVE  TableKept
  <1>1. returns \in Seq(Return) /\ lastNumber \in [Year -> Nat] /\ Len(returns) \in Nat
    BY DEF Typed
  <1>2. \A k \in 1..Len(returns) :
            /\ returns[k].status \in {"Draft", "deleted"} => returns[k].number = NoNumber
            /\ returns[k].status = "Confirmed" => returns[k].number # NoNumber
    BY DEF Typed
  <1>3. CASE UNCHANGED <<returns, lastNumber>>
    BY <1>1, <1>2, <1>3 DEF TableKept
  <1>4. CASE /\ UNCHANGED lastNumber
             /\ \E x \in Return : /\ x.status = "Draft" /\ x.number = NoNumber
                              /\ returns' = Append(returns, x)
    <2>1. PICK x \in Return : /\ x.status = "Draft" /\ x.number = NoNumber
                          /\ returns' = Append(returns, x)
      BY <1>4
    <2>2. /\ returns' \in Seq(Return) /\ Len(returns') = Len(returns) + 1
          /\ returns'[Len(returns) + 1] = x
          /\ \A k \in 1..Len(returns) : returns'[k] = returns[k]
      BY <1>1, <2>1
    <2>3. \A k \in 1..Len(returns') : k \in 1..Len(returns) \/ returns'[k] = x
      BY <1>1, <2>2
    <2>4. 1..Len(returns) \subseteq 1..Len(returns')
      BY <1>1, <2>2
    <2> QED BY <1>1, <1>2, <1>4, <2>1, <2>2, <2>3, <2>4 DEF TableKept
  <1>5. ASSUME NEW k \in 1..Len(returns), NEW x \in Return,
               returns' = [returns EXCEPT ![k] = x], Rewritten(k, x)
        PROVE  TableKept
    <2>1. /\ returns' \in Seq(Return) /\ Len(returns') = Len(returns) /\ returns'[k] = x
          /\ \A t \in 1..Len(returns) : t # k => returns'[t] = returns[t]
      BY <1>1, <1>5, ExceptSeq
    <2>2. /\ returns[k].number # NoNumber => x.number # NoNumber
          /\ x.status \in {"Draft", "deleted"} => x.number = NoNumber
          /\ x.status = "Confirmed" => x.number # NoNumber
          /\ lastNumber' \in [Year -> Nat]
      BY <1>5, RewrittenKeeps
    <2> QED BY <1>1, <1>2, <2>1, <2>2 DEF TableKept
  <1> QED BY <1>3, <1>4, <1>5 DEF TableStep

(* The rows and their lines are typed. *)
LEMMA RowsTyped ==
    ASSUME Typed
    PROVE  /\ returns \in Seq(Return) /\ Len(returns) \in Nat /\ lastNumber \in [Year -> Nat]
           /\ \A k \in 1..Len(returns) : /\ returns[k] \in Return /\ returns[k].lines \in Seq(Line)
                                    /\ Len(returns[k].lines) \in Nat
  <1>1. returns \in Seq(Return) /\ Len(returns) \in Nat /\ lastNumber \in [Year -> Nat]
    BY DEF Typed
  <1>2. \A k \in 1..Len(returns) : returns[k] \in Return
    BY <1>1, ElementOfSeq
  <1>3. \A k \in 1..Len(returns) : returns[k].lines \in Seq(Line)
    BY <1>2 DEF Return
  <1> QED BY <1>1, <1>2, <1>3, LenProperties

-----------------------------------------------------------------------------
(* What a request relies on stays.                                         *)

(* One request goes on with what holds after the step, the others wait. *)
LEMMA OneMoves ==
    ASSUME Typed, TableKept, NEW r \in Request, NEW st, Becomes(r, st), Relies(st, returns')
    PROVE  RequestsKept
  <1>1. req' = [o \in Request |-> IF o = r THEN st ELSE req[o]]
    BY DEF Typed, Becomes
  <1>2. ASSUME NEW o \in Request PROVE Relies(req'[o], returns')
    <2>1. CASE o = r
      BY <1>1, <2>1
    <2>2. CASE o # r
      <3>1. req'[o] = req[o] /\ Relies(req[o], returns)
        BY <1>1, <2>2 DEF Typed
      <3> QED BY <3>1 DEF Relies, TableKept
    <2> QED BY <2>1, <2>2
  <1>3. req' = [o \in Request |-> req'[o]]
    BY <1>1
  <1> QED BY <1>2, <1>3 DEF RequestsKept

(* What holds before a step that keeps the table holds after it. *)
LEMMA OneReads ==
    ASSUME Typed, TableKept, NEW r \in Request, NEW st, Becomes(r, st), Relies(st, returns)
    PROVE  RequestsKept
  <1>1. Relies(st, returns')
    BY DEF Relies, TableKept
  <1> QED BY <1>1, OneMoves

(* A request that ends relies on nothing. *)
LEMMA OneEnds ==
    ASSUME Typed, TableKept, NEW r \in Request, Becomes(r, Idle)
    PROVE  RequestsKept
  <1>1. Relies(Idle, returns)
    BY DEF Relies, Idle, Cancelling
  <1> QED BY <1>1, OneReads

(* Requests a step leaves alone are kept. *)
LEMMA RequestsSame ==
    ASSUME Typed, TableKept, UNCHANGED req
    PROVE  RequestsKept
  <1>1. req' = [o \in Request |-> req'[o]]
    BY DEF Typed
  <1>2. \A o \in Request : Relies(req[o], returns')
    BY DEF Typed, Relies, TableKept
  <1> QED BY <1>1, <1>2 DEF RequestsKept

-----------------------------------------------------------------------------
(* Every step is one of these on the table.                                *)

(* Edits of drafts, and the two statements without a predicate. *)
LEMMA DraftingOnTable ==
    ASSUME Typed, Drafting
    PROVE  TableStep
  <1>1. /\ returns \in Seq(Return) /\ lastNumber \in [Year -> Nat]
        /\ \A k \in 1..Len(returns) : /\ returns[k] \in Return
                                      /\ returns[k].lines \in Seq(Line)
                                      /\ Len(returns[k].lines) \in Nat
    BY RowsTyped
  <1>2. ASSUME NEW p \in Parent, NEW y \in Year, CreateDraft(p, y) PROVE TableStep
    <2> DEFINE x == [status |-> "Draft", number |-> NoNumber, parent |-> p, year |-> y,
                     lines |-> <<>>]
    <2>1. x \in Return
      BY EmptySeq DEF Return, Number
    <2>2. x.status = "Draft" /\ x.number = NoNumber
      OBVIOUS
    <2>3. returns' = Append(returns, x) /\ UNCHANGED lastNumber
      BY <1>2 DEF CreateDraft
    <2> HIDE DEF x
    <2> QED BY <2>1, <2>2, <2>3 DEF TableStep
  <1>3. ASSUME NEW k \in 1..Len(returns), NEW lines \in Seq(Line), EditLines(k, lines)
        PROVE  TableStep
    <2> DEFINE x == [returns[k] EXCEPT !.lines = lines]
    <2>1. x \in Return /\ x = [returns[k] EXCEPT !.lines = x.lines]
      BY <1>1 DEF Return
    <2>2. /\ returns' = [returns EXCEPT ![k] = x] /\ UNCHANGED lastNumber
          /\ returns[k].status = "Draft"
      BY <1>3 DEF EditLines, Rewrite, Is
    <2> HIDE DEF x
    <2> QED BY <2>1, <2>2 DEF TableStep, Rewritten
  <1>4. ASSUME NEW k \in 1..Len(returns), NEW i \in 1..Len(Sold), NEW qty \in Qty,
               AddLine(k, [sold |-> i, qty |-> qty])
        PROVE  TableStep
    <2>1. [sold |-> i, qty |-> qty] \in Line
      BY ReturnsAssumption DEF Line
    <2>2. Append(returns[k].lines, [sold |-> i, qty |-> qty]) \in Seq(Line)
      BY <1>1, <2>1
    <2> QED BY <1>3, <1>4, <2>2 DEF AddLine
  <1>5. ASSUME NEW k \in 1..Len(returns), NEW i \in 1..Len(Sold), NEW qty \in Qty,
               UpdateLine(k, i, qty)
        PROVE  TableStep
    <2>1. i \in 1..Len(returns[k].lines)
      BY <1>5 DEF UpdateLine
    <2>2. [returns[k].lines[i] EXCEPT !.qty = qty] \in Line
      <3>1. returns[k].lines[i] \in Line /\ qty \in Nat \ {0}
        BY <1>1, <2>1, ElementOfSeq, ReturnsAssumption
      <3> QED BY <3>1 DEF Line
    <2>3. [returns[k].lines EXCEPT ![i] = [@ EXCEPT !.qty = qty]] \in Seq(Line)
      BY <1>1, <2>1, <2>2, ExceptSeq
    <2> QED BY <1>3, <1>5, <2>3 DEF UpdateLine
  <1>6. ASSUME NEW k \in 1..Len(returns), NEW i \in 1..Len(Sold), RemoveLine(k, i)
        PROVE  TableStep
    <2>1. i \in 1..Len(returns[k].lines)
      BY <1>6 DEF RemoveLine
    <2>2. RemoveAt(returns[k].lines, i) \in Seq(Line)
      BY <1>1, <2>1 DEF RemoveAt
    <2> QED BY <1>3, <1>6, <2>2 DEF RemoveLine
  <1>7. ASSUME NEW k \in 1..Len(returns), NEW y \in Year, HeaderWrite(k, y) PROVE TableStep
    <2> DEFINE x == [returns[k] EXCEPT !.year = y]
    <2>1. x \in Return /\ x = [returns[k] EXCEPT !.year = x.year]
      BY <1>1 DEF Return
    <2>2. /\ returns' = [returns EXCEPT ![k] = x] /\ UNCHANGED lastNumber
          /\ returns[k].status # "deleted"
      BY <1>7 DEF HeaderWrite, Rewrite
    <2> HIDE DEF x
    <2> QED BY <2>1, <2>2 DEF TableStep, Rewritten
  <1>8. ASSUME NEW k \in 1..Len(returns), DeleteDraft(k) PROVE TableStep
    <2> DEFINE x == [returns[k] EXCEPT !.status = "deleted", !.lines = <<>>]
    <2>1. x \in Return
      BY <1>1, EmptySeq DEF Return
    <2>2. /\ returns' = [returns EXCEPT ![k] = x] /\ UNCHANGED lastNumber
          /\ returns[k].number = NoNumber
      BY <1>8 DEF DeleteDraft, Rewrite, Is, Numbered, Typed
    <2>3. Rewritten(k, x)
      BY <2>2 DEF Rewritten
    <2> HIDE DEF x
    <2> QED BY <2>1, <2>2, <2>3 DEF TableStep
  <1>9. ASSUME NEW k \in 1..Len(returns), Discard(k) PROVE TableStep
    <2> DEFINE x == [returns[k] EXCEPT !.status = "Cancelled"]
    <2>1. x \in Return
      BY <1>1 DEF Return
    <2>2. /\ returns' = [returns EXCEPT ![k] = x] /\ UNCHANGED lastNumber
          /\ returns[k].status # "deleted"
      BY <1>9 DEF Discard, Rewrite
    <2>3. Rewritten(k, x)
      BY <2>2 DEF Rewritten
    <2> HIDE DEF x
    <2> QED BY <2>1, <2>2, <2>3 DEF TableStep
  <1> QED BY <1>2, <1>4, <1>5, <1>6, <1>7, <1>8, <1>9 DEF Drafting

(* Steps of a request under way. *)
LEMMA WorksOnTable ==
    ASSUME Typed, NEW r \in Request, Works(r)
    PROVE  TableStep
  <1>1. PICK q : q = req[r]
    OBVIOUS
  <1>2. Relies(q, returns)
    BY <1>1 DEF Typed
  <1>3. \A k \in 1..Len(returns) : returns[k] \in Return
    BY RowsTyped
  <1>4. ASSUME CancelClose(r) PROVE TableStep
    <2> DEFINE k == q.return
               x == [returns[k] EXCEPT !.status = "Cancelled"]
    <2>1. k \in 1..Len(returns) /\ UNCHANGED lastNumber /\ returns' = [returns EXCEPT ![k] = x]
      BY <1>1, <1>2, <1>4 DEF CancelClose, Relies, Cancelling, Rewrite
    <2>2. returns[k].status # "deleted"
      BY <1>1, <1>2, <1>4, <2>1 DEF CancelClose, Relies, Cancelling, Typed
    <2>3. x \in Return
      BY <1>3, <2>1 DEF Return
    <2>4. Rewritten(k, x)
      BY <2>1, <2>2 DEF Rewritten
    <2> HIDE DEF x, k
    <2> QED BY <2>1, <2>3, <2>4 DEF TableStep
  <1>5. ASSUME ConfirmUnit(r) PROVE TableStep
    <2> DEFINE k == q.return
               y == q.seen.year
               x == [returns[k] EXCEPT !.status = "Confirmed", !.number = <<y, lastNumber[y] + 1>>]
    <2>1. k \in 1..Len(returns) /\ q.seen \in Return
      BY <1>1, <1>2, <1>5 DEF ConfirmUnit, Relies
    <2>2. y \in Year /\ lastNumber[y] + 1 \in Nat \ {0}
      BY <2>1 DEF Typed, Return
    <2>3. x \in Return
      BY <1>3, <2>1, <2>2 DEF Return, Number
    <2>4. /\ returns' = [returns EXCEPT ![k] = x] /\ returns[k].status = "Draft"
          /\ lastNumber' = [lastNumber EXCEPT ![y] = @ + 1]
      BY <1>1, <1>5 DEF ConfirmUnit, UnitAccepts, Rewrite, NextNumber
    <2>5. Rewritten(k, x)
      BY <2>2, <2>4 DEF Rewritten
    <2> HIDE DEF x, k
    <2> QED BY <2>1, <2>3, <2>4, <2>5 DEF TableStep
  <1>6. CancelClose(r) \/ ConfirmUnit(r) \/ UNCHANGED <<returns, lastNumber>>
    BY DEF Works, ReverseLine, PayForth, LinkBack
  <1> QED BY <1>4, <1>5, <1>6 DEF TableStep

(* All of them: what happens beside the returns leaves their table alone. *)
LEMMA StepOnTable ==
    ASSUME Typed, [Next]_vars
    PROVE  TableStep
  <1>1. ASSUME NEW r \in Request,
               \/ \E k \in 1..Len(returns) : ConfirmRead(r, k) \/ CancelRead(r, k)
               \/ Quit(r)
        PROVE  TableStep
    <2>1. UNCHANGED <<returns, lastNumber>>
      BY <1>1 DEF Quit, ConfirmRead, CancelRead, Unwritten
    <2> QED BY <2>1 DEF TableStep
  <1>2. CASE Beside
    <2>1. UNCHANGED <<returns, lastNumber>>
      BY <1>2 DEF Beside, AnnulParent, PayParent, MoveByHand, SpendByHand
    <2> QED BY <2>1 DEF TableStep
  <1>3. CASE UNCHANGED vars
    BY <1>3 DEF vars, TableStep
  <1> QED BY <1>1, <1>2, <1>3, DraftingOnTable, WorksOnTable DEF Next

-----------------------------------------------------------------------------
(* The invariant is inductive.                                             *)

(* A request that starts holds what it has read. *)
LEMMA StartsKeep ==
    ASSUME Typed, TableKept, NEW r \in Request, NEW k \in 1..Len(returns),
           ConfirmRead(r, k) \/ CancelRead(r, k)
    PROVE  RequestsKept
  <1>1. returns[k] \in Return
    BY RowsTyped
  <1>2. ASSUME NEW plan, Becomes(r, [step |-> "confirm", return |-> k, seen |-> returns[k],
                                     plan |-> plan])
        PROVE  RequestsKept
    <2> DEFINE st == [step |-> "confirm", return |-> k, seen |-> returns[k], plan |-> plan]
    <2>1. Relies(st, returns)
      BY <1>1 DEF Relies, Cancelling
    <2> QED BY <1>2, <2>1, OneReads
  <1>3. ASSUME NEW pays, NEW lines, returns[k].status = "Confirmed",
               Becomes(r, [step |-> "reverse", return |-> k, pays |-> pays, lines |-> lines])
        PROVE  RequestsKept
    <2> DEFINE st == [step |-> "reverse", return |-> k, pays |-> pays, lines |-> lines]
    <2>1. Relies(st, returns)
      BY <1>3 DEF Relies, Cancelling, Typed
    <2> QED BY <1>3, <2>1, OneReads
  <1> QED BY <1>2, <1>3 DEF ConfirmRead, CancelRead, Is

(* A request under way goes on with the return it holds, or ends. *)
LEMMA WorksKeep ==
    ASSUME Typed, TableKept, NEW r \in Request, Works(r) \/ Quit(r)
    PROVE  RequestsKept
  <1>1. PICK q : q = req[r]
    OBVIOUS
  <1>2. Relies(q, returns)
    BY <1>1 DEF Typed
  <1>3. CASE Becomes(r, Idle)
    BY <1>3, OneEnds
  <1>4. CASE ConfirmUnit(r) \/ CancelClose(r) \/ Quit(r)
    BY <1>3, <1>4 DEF ConfirmUnit, CancelClose, Quit
  <1>5. CASE ReverseLine(r) \/ PayForth(r) \/ LinkBack(r)
    <2>1. q.return \in 1..Len(returns) /\ returns[q.return].number # NoNumber
      BY <1>1, <1>2, <1>5 DEF ReverseLine, PayForth, LinkBack, Relies, Cancelling
    <2>2. ASSUME NEW lines, NEW pays, NEW tx
          PROVE  /\ Relies([step |-> "link", return |-> q.return, lines |-> lines,
                            pays |-> pays, tx |-> tx], returns)
                 /\ Relies([step |-> "reverse", return |-> q.return, lines |-> lines,
                            pays |-> pays], returns)
      BY <2>1 DEF Relies, Cancelling
    <2>3. PayForth(r) => Becomes(r, [step |-> "link", return |-> q.return, lines |-> {},
                                     pays |-> q.pays, tx |-> Len(entries) + 1])
      BY <1>1 DEF PayForth
    <2>4. LinkBack(r) => Becomes(r, [step |-> "reverse", return |-> q.return, lines |-> {},
                                     pays |-> q.pays \ {First(q.pays)}])
      BY <1>1 DEF LinkBack
    <2>5. ASSUME ReverseLine(r)
          PROVE  \E rest : Becomes(r, [step |-> "reverse", return |-> q.return, lines |-> rest,
                                       pays |-> q.pays])
      <3>1. PICK rest : rest = q.lines \ {First(q.lines)}
        OBVIOUS
      <3>2. PICK e : e = [q EXCEPT !.lines = rest]
        OBVIOUS
      <3>3. /\ DOMAIN q = {"step", "return", "lines", "pays"} /\ q.step = "reverse"
            /\ Becomes(r, e)
        BY <1>1, <1>2, <2>5, <3>1, <3>2 DEF ReverseLine, Relies
      <3>4. DOMAIN e = {"step", "return", "lines", "pays"}
        BY <3>2, <3>3
      <3>5. e.step = "reverse" /\ e.return = q.return /\ e.lines = rest /\ e.pays = q.pays
        BY <3>2, <3>3
      <3>6. e = [step |-> e.step, return |-> e.return, lines |-> e.lines, pays |-> e.pays]
        BY <3>2, <3>4
      <3> QED BY <3>3, <3>5, <3>6
    <2> QED BY <1>5, <2>2, <2>3, <2>4, <2>5, OneReads
  <1> QED BY <1>4, <1>5 DEF Works

(* Drafts are worked on by no request, where none is to be alone, and write *)
(* their own row only.                                                     *)
LEMMA DraftingWrites ==
    Drafting =>
        /\ Quiet /\ UNCHANGED <<family, parents, lastNumber, moves, entries, refunds, req>>
        /\ \/ Len(returns) < MaxReturns /\ \E x : returns' = Append(returns, x)
           \/ \E k, x : returns' = [returns EXCEPT ![k] = x]
  <1> DEFINE Own ==
        /\ Quiet /\ UNCHANGED <<family, parents, lastNumber, moves, entries, refunds, req>>
        /\ \/ Len(returns) < MaxReturns /\ \E x : returns' = Append(returns, x)
           \/ \E k, x : returns' = [returns EXCEPT ![k] = x]
  <1>1. ASSUME NEW p, NEW y, CreateDraft(p, y) PROVE Own
    BY <1>1 DEF CreateDraft
  <1>2. ASSUME NEW k, NEW line, AddLine(k, line) PROVE Own
    BY <1>2 DEF AddLine, EditLines, Rewrite
  <1>3. ASSUME NEW k, NEW i, NEW qty, UpdateLine(k, i, qty) PROVE Own
    BY <1>3 DEF UpdateLine, EditLines, Rewrite
  <1>4. ASSUME NEW k, NEW i, RemoveLine(k, i) PROVE Own
    BY <1>4 DEF RemoveLine, EditLines, Rewrite
  <1>5. ASSUME NEW k, NEW y, HeaderWrite(k, y) PROVE Own
    BY <1>5 DEF HeaderWrite, Rewrite
  <1>6. ASSUME NEW k, DeleteDraft(k) PROVE Own
    BY <1>6 DEF DeleteDraft, Rewrite
  <1>7. ASSUME NEW k, Discard(k) PROVE Own
    BY <1>7 DEF Discard, Rewrite
  <1> HIDE DEF Own
  <1>8. Drafting => Own
    BY <1>1, <1>2, <1>3, <1>4, <1>5, <1>6, <1>7 DEF Drafting
  <1> QED BY <1>8 DEF Own

(* The invariant is inductive. *)
LEMMA TypedStep == Typed /\ [Next]_vars => Typed'
  <1> SUFFICES ASSUME Typed, [Next]_vars PROVE Typed'
    OBVIOUS
  <1>1. TableKept
    BY StepOnTable, TableTyped
  <1>2. CASE Drafting \/ Beside \/ UNCHANGED vars
    <2>1. UNCHANGED req
      <3>1. Beside \/ UNCHANGED vars => UNCHANGED req
        BY DEF Beside, AnnulParent, PayParent, MoveByHand, SpendByHand, vars
      <3> QED BY <1>2, <3>1, DraftingWrites
    <2>2. RequestsKept
      BY <1>1, <2>1, RequestsSame
    <2> QED BY <1>1, <2>2 DEF Typed, TableKept, RequestsKept
  <1>3. CASE \E r \in Request : \/ \E k \in 1..Len(returns) : ConfirmRead(r, k) \/ CancelRead(r, k)
                                \/ Works(r) \/ Quit(r)
    <2>1. RequestsKept
      BY <1>1, <1>3, StartsKeep, WorksKeep
    <2> QED BY <1>1, <2>1 DEF Typed, TableKept, RequestsKept
  <1> QED BY <1>2, <1>3 DEF Next

(* It holds at the start. *)
LEMMA TypedInit == Init => Typed
  <1> SUFFICES ASSUME Init PROVE Typed
    OBVIOUS
  <1>1. returns = <<>> /\ Len(returns) = 0 /\ req = [r \in Request |-> Idle]
    BY DEF Init
  <1>2. returns \in Seq(Return) /\ lastNumber \in [Year -> Nat]
    BY EmptySeq DEF Init
  <1>3. \A r \in Request : Relies(req[r], returns)
    BY <1>1 DEF Relies, Idle, Cancelling
  <1> QED BY <1>1, <1>2, <1>3 DEF Typed

(* The table is typed, and the return a request holds is still there and   *)
(* still numbered when it writes, however requests overlap and fail.       *)
THEOREM AlwaysTyped == Spec => []Typed
  BY TypedInit, TypedStep, PTL DEF Spec

-----------------------------------------------------------------------------
(* The rows implement SaleDocument.                                        *)

Body == [parent : Parent, lines : Seq(Line)]

AsDocument(x) == [status |-> x.status, number |-> x.number, body |-> [parent |-> x.parent, lines |-> x.lines]]

(* A row, as a document, is one. *)
LEMMA DocumentTyped ==
    ASSUME NEW x \in Return
    PROVE  AsDocument(x) \in Document!Doc /\ AsDocument(x).body \in Body
  BY DEF Return, Number, NoNumber, AsDocument, Body, Document!Doc, Document!NoNumber

(* The documents are the rows. *)
LEMMA DocsNow ==
    ASSUME returns \in Seq(Return)
    PROVE  /\ docs \in Seq(Document!Doc) /\ Len(docs) = Len(returns)
           /\ \A k \in 1..Len(returns) : docs[k] = AsDocument(returns[k])
  <1>1. Len(returns) \in Nat
    OBVIOUS
  <1>2. \A k \in 1..Len(returns) : AsDocument(returns[k]) \in Document!Doc
    BY DocumentTyped, ElementOfSeq
  <1>3. docs = [k \in 1..Len(returns) |-> AsDocument(returns[k])]
    BY DEF docs, AsDocument
  <1> QED BY <1>1, <1>2, <1>3

(* So are they after a step. *)
LEMMA DocsNext ==
    ASSUME returns' \in Seq(Return)
    PROVE  /\ docs' \in Seq(Document!Doc) /\ Len(docs') = Len(returns')
           /\ \A k \in 1..Len(returns') : docs'[k] = AsDocument(returns'[k])
  <1>1. PICK table : table = returns'
    OBVIOUS
  <1>2. Len(table) \in Nat
    BY <1>1
  <1>3. \A k \in 1..Len(table) : AsDocument(table[k]) \in Document!Doc
    BY <1>1, DocumentTyped, ElementOfSeq
  <1>4. docs' = [k \in 1..Len(table) |-> AsDocument(table[k])]
    BY <1>1 DEF docs, AsDocument
  <1> QED BY <1>1, <1>2, <1>3, <1>4

(* A new row is a new document. *)
LEMMA CreatedIsDocument ==
    ASSUME Typed, NEW x \in Return, x.status = "Draft", x.number = NoNumber,
           returns' = Append(returns, x), UNCHANGED lastNumber
    PROVE  Document!Create
  <1>1. returns \in Seq(Return) /\ Len(returns) \in Nat
    BY RowsTyped
  <1>2. /\ returns' \in Seq(Return) /\ Len(returns') = Len(returns) + 1 /\ returns'[Len(returns) + 1] = x
        /\ \A k \in 1..Len(returns) : returns'[k] = returns[k]
    BY <1>1
  <1>3. PICK d : d = AsDocument(x)
    OBVIOUS
  <1>4. d \in Document!Doc /\ d.status = "Draft" /\ d.number = Document!NoNumber
    BY <1>3, DocumentTyped DEF AsDocument, NoNumber, Document!NoNumber
  <1>5. /\ docs \in Seq(Document!Doc) /\ Len(docs) = Len(returns)
        /\ \A k \in 1..Len(returns) : docs[k] = AsDocument(returns[k])
    BY <1>1, DocsNow
  <1>6. /\ docs' \in Seq(Document!Doc) /\ Len(docs') = Len(returns')
        /\ \A k \in 1..Len(returns') : docs'[k] = AsDocument(returns'[k])
    BY <1>2, DocsNext
  <1>7. docs'[Len(docs')] = d
    BY <1>1, <1>2, <1>3, <1>6
  <1>8. docs' = Append(docs, d)
    <2>1. \A k \in 1..Len(returns) : docs'[k] = docs[k]
      BY <1>1, <1>2, <1>5, <1>6
    <2>2. /\ Append(docs, d) \in Seq(Document!Doc) /\ Len(Append(docs, d)) = Len(docs) + 1
          /\ Append(docs, d)[Len(docs) + 1] = d
          /\ \A k \in 1..Len(docs) : Append(docs, d)[k] = docs[k]
      BY <1>4, <1>5, AppendProperties
    <2>3. \A k \in 1..Len(docs') : docs'[k] = Append(docs, d)[k]
      BY <1>1, <1>2, <1>5, <1>6, <1>7, <2>1, <2>2
    <2> QED BY <1>1, <1>2, <1>5, <1>6, <2>2, <2>3, SeqEqual
  <1> QED BY <1>1, <1>2, <1>4, <1>5, <1>6, <1>7, <1>8 DEF Document!Create

(* A rewritten row is a rewritten document. *)
LEMMA RewrittenDocument ==
    ASSUME Typed, NEW k \in 1..Len(returns), NEW x \in Return, returns' = [returns EXCEPT ![k] = x]
    PROVE  /\ docs \in Seq(Document!Doc) /\ k \in 1..Len(docs)
           /\ docs[k] = AsDocument(returns[k]) /\ docs'[k] = AsDocument(x)
           /\ docs' = [docs EXCEPT ![k] = AsDocument(x)]
  <1>1. returns \in Seq(Return) /\ Len(returns) \in Nat
    BY RowsTyped
  <1>2. /\ returns' \in Seq(Return) /\ Len(returns') = Len(returns) /\ returns'[k] = x
        /\ \A t \in 1..Len(returns) : t # k => returns'[t] = returns[t]
    BY <1>1, ExceptSeq
  <1>3. PICK d : d = AsDocument(x)
    OBVIOUS
  <1>4. d \in Document!Doc
    BY <1>3, DocumentTyped
  <1>5. /\ docs \in Seq(Document!Doc) /\ Len(docs) = Len(returns)
        /\ \A t \in 1..Len(returns) : docs[t] = AsDocument(returns[t])
    BY <1>1, DocsNow
  <1>6. /\ docs' \in Seq(Document!Doc) /\ Len(docs') = Len(returns)
        /\ \A t \in 1..Len(returns) : docs'[t] = AsDocument(returns'[t])
    BY <1>2, DocsNext
  <1>7. docs'[k] = d
    BY <1>2, <1>3, <1>6
  <1>8. docs' = [docs EXCEPT ![k] = d]
    <2>1. PICK e : e = [docs EXCEPT ![k] = d]
      OBVIOUS
    <2>2. /\ e \in Seq(Document!Doc) /\ Len(e) = Len(docs) /\ e[k] = d
          /\ \A t \in 1..Len(docs) : t # k => e[t] = docs[t]
      BY <1>4, <1>5, <2>1, ExceptSeq
    <2>3. \A t \in 1..Len(docs') : docs'[t] = e[t]
      BY <1>2, <1>5, <1>6, <1>7, <2>2
    <2> QED BY <1>5, <1>6, <2>1, <2>2, <2>3, SeqEqual
  <1> QED BY <1>3, <1>5, <1>7, <1>8

(* What rewrites a row is a step of its document, or leaves it alone. *)
LEMMA RewriteIsDocument ==
    ASSUME Typed, NEW k \in 1..Len(returns), NEW x \in Return,
           returns' = [returns EXCEPT ![k] = x], Rewritten(k, x)
    PROVE  \/ Document!Edit(k) \/ Document!Cancel(k) \/ Document!Delete(k)
           \/ \E y \in Year : Document!Confirm(k, y)
           \/ UNCHANGED <<docs, lastNumber>>
  <1>1. returns[k] \in Return
    BY RowsTyped
  <1>2. PICK old : old = returns[k]
    OBVIOUS
  <1>3. PICK d : d = AsDocument(old)
    OBVIOUS
  <1>4. PICK e : e = AsDocument(x)
    OBVIOUS
  <1>5. /\ docs \in Seq(Document!Doc) /\ k \in 1..Len(docs)
        /\ docs[k] = d /\ docs'[k] = e /\ docs' = [docs EXCEPT ![k] = e]
    BY <1>2, <1>3, <1>4, RewrittenDocument
  <1>6. /\ d \in Document!Doc /\ e \in Document!Doc /\ e.body \in Body
        /\ d.status = old.status /\ d.number = old.number
        /\ e.status = x.status /\ e.number = x.number
        /\ d = [status |-> old.status, number |-> old.number, body |-> d.body]
        /\ e = [status |-> x.status, number |-> x.number, body |-> e.body]
    BY <1>1, <1>2, <1>3, <1>4, DocumentTyped DEF AsDocument
  <1>7. d = e => docs' = docs
    BY <1>5
  <1>8. CASE /\ returns[k].status = "Draft"
             /\ x = [returns[k] EXCEPT !.lines = x.lines]
             /\ UNCHANGED lastNumber
    <2>1. e = [d EXCEPT !.body = e.body]
      <3>1. x.status = old.status /\ x.number = old.number
        BY <1>1, <1>2, <1>8 DEF Return
      <3> QED BY <1>6, <3>1
    <2> QED BY <1>2, <1>5, <1>6, <1>8, <2>1 DEF Document!Edit, Body
  <1>9. CASE /\ returns[k].number = NoNumber
             /\ x = [returns[k] EXCEPT !.status = "deleted", !.lines = <<>>]
             /\ UNCHANGED lastNumber
    <2>1. e = [d EXCEPT !.status = "deleted", !.body = e.body]
      <3>1. x.status = "deleted" /\ x.number = old.number
        BY <1>1, <1>2, <1>9 DEF Return
      <3> QED BY <1>6, <3>1
    <2> QED BY <1>2, <1>5, <1>6, <1>9, <2>1
            DEF Document!Delete, NoNumber, Document!NoNumber, Body
  <1>10. CASE /\ returns[k].status # "deleted"
              /\ x = [returns[k] EXCEPT !.year = x.year]
              /\ UNCHANGED lastNumber
    <2>1. e = d
      BY <1>1, <1>2, <1>3, <1>4, <1>10 DEF AsDocument, Return
    <2> QED BY <1>7, <1>10, <2>1
  <1>11. CASE /\ returns[k].status # "deleted"
              /\ x = [returns[k] EXCEPT !.status = "Cancelled"]
              /\ UNCHANGED lastNumber
    <2>1. e = [d EXCEPT !.status = "Cancelled"]
      <3>1. x.status = "Cancelled" /\ x.number = old.number
        BY <1>1, <1>2, <1>11 DEF Return
      <3>2. e.body = d.body
        BY <1>1, <1>2, <1>3, <1>4, <1>11 DEF AsDocument, Return
      <3> QED BY <1>6, <3>1, <3>2
    <2>2. CASE old.status = "Cancelled"
      <3>1. e = d
        BY <1>6, <2>1, <2>2 DEF Document!Doc
      <3> QED BY <1>7, <1>11, <3>1
    <2>3. CASE old.status # "Cancelled"
      <3>1. d.status \in {"Draft", "Confirmed"}
        BY <1>1, <1>2, <1>6, <1>11, <2>3 DEF Return
      <3> QED BY <1>5, <1>11, <2>1, <3>1 DEF Document!Cancel
    <2> QED BY <2>2, <2>3
  <1>12. ASSUME NEW y \in Year,
                returns[k].status = "Draft",
                x = [returns[k] EXCEPT !.status = "Confirmed", !.number = <<y, lastNumber[y] + 1>>],
                lastNumber' = [lastNumber EXCEPT ![y] = @ + 1]
         PROVE  Document!Confirm(k, y)
    <2>1. e = [d EXCEPT !.status = "Confirmed", !.number = <<y, lastNumber[y] + 1>>]
      <3>1. x.status = "Confirmed" /\ x.number = <<y, lastNumber[y] + 1>>
        BY <1>1, <1>2, <1>12 DEF Return
      <3>2. e.body = d.body
        BY <1>1, <1>2, <1>3, <1>4, <1>12 DEF AsDocument, Return
      <3> QED BY <1>6, <3>1, <3>2
    <2> QED BY <1>2, <1>5, <1>6, <1>12, <2>1 DEF Document!Confirm
  <1> QED BY <1>8, <1>9, <1>10, <1>11, <1>12 DEF Rewritten

(* Every step is a step of a document, or leaves the documents alone. *)
LEMMA StepIsDocument ==
    Typed /\ [Next]_vars => [Document!Next]_<<docs, lastNumber>>
  <1> SUFFICES ASSUME Typed, [Next]_vars PROVE [Document!Next]_<<docs, lastNumber>>
    OBVIOUS
  <1>1. TableStep
    BY StepOnTable
  <1>2. Len(docs) = Len(returns)
    BY RowsTyped, DocsNow
  <1>3. CASE UNCHANGED <<returns, lastNumber>>
    BY <1>3 DEF docs
  <1>4. ASSUME NEW x \in Return, x.status = "Draft", x.number = NoNumber,
               returns' = Append(returns, x), UNCHANGED lastNumber
        PROVE  Document!Next
    BY <1>4, CreatedIsDocument DEF Document!Next
  <1>5. ASSUME NEW k \in 1..Len(returns), NEW x \in Return,
               returns' = [returns EXCEPT ![k] = x], Rewritten(k, x)
        PROVE  Document!Next \/ UNCHANGED <<docs, lastNumber>>
    <2>1. \/ Document!Edit(k) \/ Document!Cancel(k) \/ Document!Delete(k)
          \/ \E y \in Year : Document!Confirm(k, y)
          \/ UNCHANGED <<docs, lastNumber>>
      BY <1>5, RewriteIsDocument
    <2> QED BY <1>2, <2>1 DEF Document!Next
  <1> QED BY <1>1, <1>3, <1>4, <1>5 DEF TableStep

(* The table starts empty. *)
LEMMA InitIsDocument == Init => Document!Init
  BY DEF Init, Document!Init, docs

(* Returns, of sales or of purchases, implement SaleDocument. *)
THEOREM ReturnsIsDocument == Spec => IsDocument
  BY InitIsDocument, StepIsDocument, AlwaysTyped, PTL
     DEF Spec, IsDocument, Document!Spec, Document!vars

-----------------------------------------------------------------------------
(* What every document promises holds of every row.                        *)

(* The document that is implemented is the one the laws are about. *)
LEMMA SameDocument ==
    /\ Document!Init => DocumentLaws!Init
    /\ [Document!Next]_<<docs, lastNumber>> => [DocumentLaws!Next]_<<docs, lastNumber>>
  BY DEF Document!Init, DocumentLaws!Init, Document!Next, DocumentLaws!Next,
         Document!Create, DocumentLaws!Create, Document!Edit, DocumentLaws!Edit,
         Document!Confirm, DocumentLaws!Confirm, Document!Cancel, DocumentLaws!Cancel,
         Document!Delete, DocumentLaws!Delete, Document!NoNumber, DocumentLaws!NoNumber,
         Document!Doc, DocumentLaws!Doc, Body

(* So the laws of documents hold of the rows. *)
LEMMA ObeysDocumentLaws == Spec => DocumentLaws!Spec
  BY InitIsDocument, StepIsDocument, SameDocument, AlwaysTyped, PTL
     DEF Spec, DocumentLaws!Spec, DocumentLaws!vars

(* The numbers of every year are dense and unique in every state, whatever *)
(* confirms raced, failed or were retried.                                 *)
THEOREM ReturnNumbersDense == Spec => []Document!NumbersInOrder
  <1>1. DocumentLaws!NumbersInOrder => Document!NumbersInOrder
    BY DEF Document!NumbersInOrder, DocumentLaws!NumbersInOrder,
           Document!NoNumber, DocumentLaws!NoNumber
  <1>2. DocumentLaws!Spec => []DocumentLaws!NumbersInOrder
    BY DocumentLaws!NumbersDense
  <1> QED BY <1>1, <1>2, ObeysDocumentLaws, PTL

(* No step changes the parent, the lines or the number of a confirmed or   *)
(* annulled return, although the header, discard and annulment statements  *)
(* carry no status predicate.                                              *)
THEOREM ReturnRecordFrozen == Spec => [][Document!FrozenStep]_<<docs, lastNumber>>
  <1>1. DocumentLaws!Consistent /\ [DocumentLaws!Next]_<<docs, lastNumber>>
            => DocumentLaws!FrozenStep
    BY DocumentLaws!FrozenLemma DEF DocumentLaws!vars
  <1>2. DocumentLaws!FrozenStep => Document!FrozenStep
    BY DEF Document!FrozenStep, DocumentLaws!FrozenStep, Document!NoNumber,
           DocumentLaws!NoNumber
  <1>3. DocumentLaws!Spec => []DocumentLaws!Consistent
    BY DocumentLaws!DocumentConsistent
  <1> QED BY <1>1, <1>2, <1>3, ObeysDocumentLaws, PTL
          DEF DocumentLaws!Spec, DocumentLaws!vars

-----------------------------------------------------------------------------
(* What the helpers return.                                                *)

(* The least of a set of ids is one of them. *)
LEMMA FirstIn ==
    ASSUME NEW ids \in SUBSET Nat, ids # {}
    PROVE  First(ids) \in ids
  BY LeastMember DEF First

(* A line is of a parent line, which has a price. *)
LEMMA LineFacts ==
    ASSUME NEW line \in Line
    PROVE  /\ line.sold \in 1..Len(Sold) /\ line.qty \in Nat \ {0} /\ line.qty \in Int
           /\ Sold[line.sold].price \in Nat /\ Price(line) \in Nat
  <1>1. line.sold \in 1..Len(Sold) /\ line.qty \in Nat \ {0}
    BY DEF Line
  <1>2. Sold[line.sold].price \in Nat
    BY <1>1, ReturnsAssumption
  <1>3. \A m, n \in Nat : m * n \in Nat
    OBVIOUS
  <1> QED BY <1>1, <1>2, <1>3 DEF Price

(* The worth of a list of lines is a natural number. *)
LEMMA WorthNat ==
    ASSUME NEW lines \in Seq(Line)
    PROVE  Worth(lines) \in Nat
  <1> DEFINE w == [i \in 1..Len(lines) |-> Price(lines[i])]
  <1>1. \A i \in 1..Len(lines) : w[i] \in Nat
    <2> SUFFICES ASSUME NEW i \in 1..Len(lines) PROVE Price(lines[i]) \in Nat
      OBVIOUS
    <2>1. lines[i] \in Line
      BY ElementOfSeq
    <2> QED BY <2>1, LineFacts
  <1>2. Len(lines) \in Nat
    OBVIOUS
  <1> HIDE DEF w
  <1>3. SumOver(w, Len(lines)) \in Nat
    BY <1>1, <1>2, SumOverNat
  <1> QED BY <1>3 DEF Worth, w

\* A figure of every share.
Amounts == [share \in Share |-> share.amount]

LEMMA AmountsNat == Amounts \in [Share -> Nat] /\ Amounts \in [Share -> Int]
  BY DEF Amounts, Share

(* What the first shares of a list amount to. *)
LEMMA AmountOfNat ==
    ASSUME NEW shares \in Seq(Share), NEW n \in Nat, n <= Len(shares)
    PROVE  AmountOf(shares, n) \in Nat
  <1> DEFINE w == [i \in 1..Len(shares) |-> shares[i].amount]
  <1>1. \A i \in 1..n : w[i] \in Nat
    <2> SUFFICES ASSUME NEW i \in 1..n PROVE shares[i].amount \in Nat
      OBVIOUS
    <2>1. i \in 1..Len(shares)
      BY LenProperties
    <2>2. shares[i] \in Share
      BY <2>1, ElementOfSeq
    <2> QED BY <2>2 DEF Share
  <1> HIDE DEF w
  <1>2. SumOver(w, n) \in Nat
    BY <1>1, SumOverNat
  <1> QED BY <1>2 DEF AmountOf, w

TrackedLine == {line \in Line : Sold[line.sold].product \in Tracked}

(* The tracked lines are lines of tracked products. *)
LEMMA TrackedLinesTyped ==
    ASSUME NEW lines \in Seq(Line)
    PROVE  TrackedLines(lines) \in Seq(TrackedLine)
  <1> DEFINE ids == {i \in 1..Len(lines) : Sold[lines[i].sold].product \in Tracked}
             f == [line \in Line |-> 0]
  <1>1. f \in [Line -> Int]
    OBVIOUS
  <1>2. \A i \in 1..Len(lines) : i \in ids => lines[i] \in TrackedLine
    BY ElementOfSeq DEF TrackedLine
  <1> HIDE DEF ids, f
  <1>3. Picked(lines, ids) \in Seq(TrackedLine)
    BY <1>1, <1>2, PickedRows
  <1> QED BY <1>3 DEF TrackedLines, ids

(* Quantities move in or out. *)
LEMMA DeltaInt ==
    ASSUME NEW n \in Int
    PROVE  Delta(n) \in Int /\ -Delta(n) \in Int /\ (Delta(n) = n \/ Delta(n) = -n)
  BY DEF Delta

(* The movements of a list of lines are typed. *)
LEMMA MovesOfTyped ==
    ASSUME NEW lines \in Seq(Line), NEW doc \in Reference
    PROVE  MovesOf(lines, doc) \in Seq(Move)
  <1>1. PICK out : out = TrackedLines(lines)
    OBVIOUS
  <1>2. out \in Seq(TrackedLine) /\ Len(out) \in Nat
    BY <1>1, TrackedLinesTyped
  <1> DEFINE s == [i \in 1..Len(out) |-> MoveOf(out[i], doc)]
  <1>3. \A i \in 1..Len(out) : s[i] \in Move
    <2> SUFFICES ASSUME NEW i \in 1..Len(out) PROVE MoveOf(out[i], doc) \in Move
      OBVIOUS
    <2>1. PICK line \in TrackedLine : line = out[i]
      BY <1>2, ElementOfSeq
    <2>2. line \in Line /\ Sold[line.sold].product \in Tracked
      BY DEF TrackedLine
    <2>3. Delta(line.qty) \in Int
      BY <2>2, LineFacts, DeltaInt
    <2> QED BY <2>1, <2>2, <2>3 DEF MoveOf, Move
  <1>4. s \in Seq(Move)
    BY <1>2, <1>3, IsASeq
  <1>5. MovesOf(lines, doc) = s
    BY <1>1 DEF MovesOf
  <1> QED BY <1>4, <1>5

(* The lines of a parent are lines of a return of all of it. *)
LEMMA LinesOfTyped ==
    ASSUME NEW p
    PROVE  LinesOf(p) \in Seq(Line)
  <1> DEFINE all == [i \in 1..Len(Sold) |-> i]
             own == {i \in 1..Len(Sold) : Sold[i].parent = p}
             f == [i \in 1..Len(Sold) |-> 0]
  <1>1. all \in Seq(1..Len(Sold)) /\ f \in [1..Len(Sold) -> Int]
    BY ReturnsAssumption, IsASeq
  <1>2. PICK ids : ids = Picked(all, own)
    OBVIOUS
  <1>3. \A i \in 1..Len(all) : i \in own => all[i] \in 1..Len(Sold)
    BY <1>1, ElementOfSeq
  <1>4. ids \in Seq(1..Len(Sold))
    <2> HIDE DEF all, own, f
    <2> QED BY <1>1, <1>2, <1>3, PickedRows
  <1> DEFINE s == [k \in 1..Len(ids) |-> [sold |-> ids[k], qty |-> Sold[ids[k]].qty]]
  <1>5. \A k \in 1..Len(ids) : s[k] \in Line
    <2> SUFFICES ASSUME NEW k \in 1..Len(ids)
                 PROVE  [sold |-> ids[k], qty |-> Sold[ids[k]].qty] \in Line
      OBVIOUS
    <2>1. PICK i \in 1..Len(Sold) : i = ids[k]
      BY <1>4, ElementOfSeq
    <2>2. Sold[i].qty \in Nat \ {0}
      BY ReturnsAssumption
    <2> QED BY <2>1, <2>2 DEF Line
  <1>6. s \in Seq(Line)
    BY <1>4, <1>5, IsASeq
  <1>7. LinesOf(p) = s
    BY <1>2 DEF LinesOf
  <1> QED BY <1>6, <1>7

(* The shares of a refund are paid by the accounts that were paid. *)
LEMMA RefundPlanTyped ==
    ASSUME NEW paid \in Seq(Share), NEW worth \in Nat
    PROVE  RefundPlan(worth, paid) \in Seq(Share)
  <1> DEFINE Part == [account : Account, amount : Int]
             all == [i \in 1..Len(paid) |->
                        [paid[i] EXCEPT !.amount = Least(@, worth - AmountOf(paid, i - 1))]]
             ids == {i \in 1..Len(paid) : AmountOf(paid, i - 1) < worth}
             f == [part \in Part |-> 0]
  <1>1. \A i \in 1..Len(paid) : /\ all[i] \in Part
                                /\ i \in ids => all[i] \in Share
    <2> SUFFICES ASSUME NEW i \in 1..Len(paid)
                 PROVE  all[i] \in Part /\ (i \in ids => all[i] \in Share)
      OBVIOUS
    <2>1. PICK share \in Share : share = paid[i]
      BY ElementOfSeq
    <2>2. share.account \in Account /\ share.amount \in Nat \ {0}
      BY DEF Share
    <2>3. PICK before \in Nat : before = AmountOf(paid, i - 1)
      <3>1. i - 1 \in Nat /\ i - 1 <= Len(paid)
        BY LenProperties
      <3> QED BY <3>1, AmountOfNat
    <2>4. PICK left : left = Least(share.amount, worth - before)
      OBVIOUS
    <2>5. left \in Int /\ (before < worth => left \in Nat \ {0})
      BY <2>2, <2>4 DEF Least
    <2>6. all[i] = [account |-> share.account, amount |-> left]
      BY <2>1, <2>3, <2>4 DEF Share
    <2>7. i \in ids => before < worth
      BY <2>3
    <2> HIDE DEF all, ids
    <2> QED BY <2>2, <2>5, <2>6, <2>7 DEF Share
  <1>2. Len(paid) \in Nat
    OBVIOUS
  <1>3. all \in Seq(Part) /\ Len(all) = Len(paid)
    <2>1. all \in Seq(Part)
      BY <1>1, <1>2, IsASeq
    <2> QED BY <1>2, <2>1
  <1>4. f \in [Part -> Int]
    OBVIOUS
  <1>5. \A i \in 1..Len(all) : i \in ids => all[i] \in Share
    BY <1>1, <1>3
  <1>6. RefundPlan(worth, paid) = Picked(all, ids)
    BY DEF RefundPlan
  <1> HIDE DEF all, ids, f, Part
  <1>7. Picked(all, ids) \in Seq(Share)
    BY <1>3, <1>4, <1>5, PickedRows
  <1> QED BY <1>6, <1>7

-----------------------------------------------------------------------------
(* The ledgers and the requests are typed: a reversal holds tracked lines  *)
(* and the refunds of its return.                                          *)

\* What a request q holds, of the tables as they are.
Holds(q, table, rows) ==
    /\ q.step \in Cancelling =>
           \A i \in q.pays : i \in 1..Len(rows) /\ rows[i].return = q.return
    /\ q.step = "reverse" =>
           \A i \in q.lines : /\ i \in 1..Len(table[q.return].lines)
                              /\ Sold[table[q.return].lines[i].sold].product \in Tracked
    /\ q.step = "link" => q.pays # {}

Sound ==
    /\ Typed /\ TypeOK
    /\ \A r \in Request : Holds(req[r], returns, refunds)
    /\ \A i \in 1..Len(refunds) :
           refunds[i].return \in 1..Len(returns) /\ Numbered(refunds[i].return)

\* What a step leaves of a numbered return.
RecordsKept ==
    \A k \in 1..Len(returns) : Numbered(k) =>
        /\ k \in 1..Len(returns')
        /\ returns'[k].number = returns[k].number /\ returns'[k].lines = returns[k].lines
        /\ returns'[k].parent = returns[k].parent

\* What a step leaves of the ledgers: their types, and the return of each refund.
LedgersKept ==
    /\ UNCHANGED family
    /\ parents' \in [Parent -> [status : {"Confirmed", "Cancelled"}, paid : Seq(Share)]]
    /\ moves' \in Seq(Move) /\ entries' \in Seq(Entry) /\ refunds' \in Seq(Refund)
    /\ \A i \in 1..Len(refunds) :
           i \in 1..Len(refunds') /\ refunds'[i].return = refunds[i].return
    /\ \A i \in 1..Len(refunds') :
           \/ i \in 1..Len(refunds) /\ refunds'[i].return = refunds[i].return
           \/ /\ refunds'[i].return \in 1..Len(returns')
              /\ returns'[refunds'[i].return].number # NoNumber

\* A request is what it was, or holds what is there.
HoldersKept ==
    /\ req' \in [Request -> RequestState]
    /\ \A r \in Request : req'[r] = req[r] \/ Holds(req'[r], returns', refunds')

(* Steps on the table leave the numbered returns alone. *)
LEMMA TableFrozen ==
    ASSUME Typed, TableStep
    PROVE  RecordsKept
  <1>1. /\ returns \in Seq(Return) /\ Len(returns) \in Nat
        /\ \A k \in 1..Len(returns) : returns[k] \in Return
    BY RowsTyped
  <1>2. CASE UNCHANGED <<returns, lastNumber>>
    BY <1>2 DEF RecordsKept
  <1>3. ASSUME NEW x \in Return, returns' = Append(returns, x) PROVE RecordsKept
    <2>1. /\ Len(returns') = Len(returns) + 1
          /\ \A k \in 1..Len(returns) : returns'[k] = returns[k]
      BY <1>1, <1>3
    <2> QED BY <1>1, <2>1 DEF RecordsKept
  <1>4. ASSUME NEW k \in 1..Len(returns), NEW x \in Return,
               returns' = [returns EXCEPT ![k] = x], Rewritten(k, x)
        PROVE  RecordsKept
    <2>1. /\ Len(returns') = Len(returns) /\ returns'[k] = x
          /\ \A t \in 1..Len(returns) : t # k => returns'[t] = returns[t]
      BY <1>1, <1>4, ExceptSeq
    <2>2. ASSUME Numbered(k) PROVE x.number = returns[k].number /\ x.lines = returns[k].lines
                                   /\ x.parent = returns[k].parent
      <3>1. returns[k].status # "Draft" /\ returns[k].number # NoNumber
        BY <2>2 DEF Typed, Numbered
      <3>2. \/ x = [returns[k] EXCEPT !.year = x.year]
            \/ x = [returns[k] EXCEPT !.status = "Cancelled"]
        BY <1>4, <3>1 DEF Rewritten
      <3> QED BY <1>1, <3>2 DEF Return
    <2> QED BY <2>1, <2>2 DEF RecordsKept
  <1> QED BY <1>2, <1>3, <1>4 DEF TableStep

(* What a request holds stays. *)
LEMMA HoldsStay ==
    ASSUME Typed, RecordsKept, LedgersKept, NEW q, Relies(q, returns), Holds(q, returns, refunds)
    PROVE  Holds(q, returns', refunds')
  <1>1. ASSUME q.step \in Cancelling
        PROVE  \A i \in q.pays : i \in 1..Len(refunds') /\ refunds'[i].return = q.return
    BY <1>1 DEF Holds, LedgersKept
  <1>2. ASSUME q.step = "reverse"
        PROVE  \A i \in q.lines : /\ i \in 1..Len(returns'[q.return].lines)
                                  /\ Sold[returns'[q.return].lines[i].sold].product \in Tracked
    <2>1. q.return \in 1..Len(returns) /\ Numbered(q.return)
      BY <1>2 DEF Relies, Cancelling, Numbered
    <2>2. returns'[q.return].lines = returns[q.return].lines
      BY <2>1 DEF RecordsKept
    <2> QED BY <1>2, <2>2 DEF Holds
  <1>3. q.step = "link" => q.pays # {}
    BY DEF Holds
  <1> QED BY <1>1, <1>2, <1>3 DEF Holds

(* The shape of a request's state follows from its step. *)
LEMMA RequestShape ==
    ASSUME TypeOK, NEW r \in Request
    PROVE  /\ req[r] \in RequestState
           /\ req[r].step = "confirm" => /\ req[r].seen \in Return /\ req[r].plan \in Seq(Share)
                                         /\ req[r].return \in ReturnId
           /\ req[r].step \in Cancelling => /\ req[r].lines \in SUBSET Nat
                                            /\ req[r].pays \in SUBSET Nat
                                            /\ req[r].return \in ReturnId
           /\ req[r].step = "link" => req[r].lines = {} /\ req[r].tx \in Nat \ {0}
  <1>1. req[r] \in RequestState
    BY DEF TypeOK
  <1> QED BY <1>1 DEF RequestState, Idle, Cancelling

(* One request moves on and the others wait. *)
LEMMA HolderMoves ==
    ASSUME TypeOK, NEW r \in Request, NEW st \in RequestState, Becomes(r, st),
           Holds(st, returns', refunds')
    PROVE  HoldersKept
  <1>1. req' = [o \in Request |-> IF o = r THEN st ELSE req[o]]
    BY DEF TypeOK, Becomes
  <1>2. req' \in [Request -> RequestState]
    BY <1>1 DEF TypeOK
  <1>3. ASSUME NEW o \in Request
        PROVE  req'[o] = req[o] \/ Holds(req'[o], returns', refunds')
    <2>1. CASE o = r
      BY <1>1, <2>1
    <2>2. CASE o # r
      BY <1>1, <2>2
    <2> QED BY <2>1, <2>2
  <1> QED BY <1>2, <1>3 DEF HoldersKept

(* A request that ends holds nothing. *)
LEMMA HolderEnds ==
    ASSUME TypeOK, NEW r \in Request, Becomes(r, Idle)
    PROVE  HoldersKept
  <1>1. Idle \in RequestState
    BY DEF RequestState
  <1>2. Holds(Idle, returns', refunds')
    BY DEF Holds, Idle, Cancelling
  <1> QED BY <1>1, <1>2, HolderMoves

(* A request that only reads holds what it has read. *)
LEMMA HolderReads ==
    ASSUME TypeOK, NEW r \in Request, NEW st \in RequestState, Becomes(r, st), Unwritten,
           Holds(st, returns, refunds)
    PROVE  HoldersKept
  <1>1. returns' = returns /\ refunds' = refunds
    BY DEF Unwritten
  <1>2. Holds(st, returns', refunds')
    BY <1>1
  <1> QED BY <1>2, HolderMoves

(* A step that keeps the tables and what requests hold preserves Sound. *)
LEMMA SoundKept ==
    ASSUME Sound, Typed', TableKept, RecordsKept, LedgersKept, HoldersKept,
           Len(returns') <= MaxReturns
    PROVE  Sound'
  <1>1. TypeOK'
    BY DEF Sound, TypeOK, TableKept, LedgersKept, HoldersKept
  <1>2. ASSUME NEW r \in Request PROVE Holds(req'[r], returns', refunds')
    <2>1. CASE req'[r] = req[r]
      <3>1. PICK q : q = req[r]
        OBVIOUS
      <3>2. Typed /\ Relies(q, returns) /\ Holds(q, returns, refunds)
        BY <3>1 DEF Sound, Typed
      <3>3. Holds(q, returns', refunds')
        BY <3>2, HoldsStay
      <3> QED BY <2>1, <3>1, <3>3
    <2> QED BY <2>1 DEF HoldersKept
  <1>3. ASSUME NEW i \in 1..Len(refunds')
        PROVE  /\ refunds'[i].return \in 1..Len(returns')
               /\ returns'[refunds'[i].return].number # NoNumber
    <2>1. CASE i \in 1..Len(refunds) /\ refunds'[i].return = refunds[i].return
      <3>1. PICK k : k = refunds[i].return
        OBVIOUS
      <3>2. k \in 1..Len(returns) /\ Numbered(k)
        BY <2>1, <3>1 DEF Sound
      <3> QED BY <2>1, <3>1, <3>2 DEF RecordsKept, Numbered
    <2> QED BY <2>1 DEF LedgersKept
  <1> QED BY <1>1, <1>2, <1>3 DEF Sound, Numbered

(* Ledgers a step leaves alone are kept. *)
LEMMA LedgersSame ==
    ASSUME TypeOK, UNCHANGED <<family, parents, moves, entries, refunds>>
    PROVE  LedgersKept
  BY DEF TypeOK, LedgersKept

-----------------------------------------------------------------------------
(* Every step keeps the ledgers and what requests hold.                    *)

(* Money of a kind. *)
LEMMA EntryTyped ==
    ASSUME NEW kind \in {"Income", "Expense"}, NEW share, share.account \in Account,
           share.amount \in Nat \ {0}, NEW doc \in Reference
    PROVE  [kind |-> kind, account |-> share.account, amount |-> share.amount, doc |-> doc] \in Entry
  BY DEF Entry

LEMMA KindsTyped ==
    PaidBack \in {"Income", "Expense"} /\ PaidForth \in {"Income", "Expense"}
    /\ PaidBack # PaidForth
  BY DEF PaidBack, PaidForth

(* A list of shares paid. *)
LEMMA EntriesOfTyped ==
    ASSUME NEW kind \in {"Income", "Expense"}, NEW shares \in Seq(Share), NEW doc \in Reference
    PROVE  [i \in 1..Len(shares) |-> [kind |-> kind, account |-> shares[i].account,
                                      amount |-> shares[i].amount, doc |-> doc]] \in Seq(Entry)
  <1> DEFINE s == [i \in 1..Len(shares) |-> [kind |-> kind, account |-> shares[i].account,
                                             amount |-> shares[i].amount, doc |-> doc]]
  <1>1. \A i \in 1..Len(shares) : s[i] \in Entry
    <2> SUFFICES ASSUME NEW i \in 1..Len(shares)
                 PROVE  [kind |-> kind, account |-> shares[i].account,
                         amount |-> shares[i].amount, doc |-> doc] \in Entry
      OBVIOUS
    <2>1. PICK share \in Share : share = shares[i]
      BY ElementOfSeq
    <2>2. share.account \in Account /\ share.amount \in Nat \ {0}
      BY DEF Share
    <2> QED BY <2>1, <2>2, EntryTyped
  <1>2. Len(shares) \in Nat
    OBVIOUS
  <1> QED BY <1>1, <1>2, IsASeq

(* A parent's payment, an annulment, and goods and money moved by hand. *)
LEMMA BesideKeeps ==
    ASSUME TypeOK, Beside
    PROVE  LedgersKept /\ UNCHANGED req
  <1>1. /\ moves \in Seq(Move) /\ entries \in Seq(Entry) /\ refunds \in Seq(Refund)
        /\ parents \in [Parent -> [status : {"Confirmed", "Cancelled"}, paid : Seq(Share)]]
    BY DEF TypeOK
  <1>2. UNCHANGED <<req, family, refunds>>
    BY DEF Beside, AnnulParent, PayParent, MoveByHand, SpendByHand
  <1>3. ASSUME moves' \in Seq(Move), entries' \in Seq(Entry),
               parents' \in [Parent -> [status : {"Confirmed", "Cancelled"}, paid : Seq(Share)]]
        PROVE  LedgersKept
    BY <1>1, <1>2, <1>3 DEF LedgersKept
  <1>4. \A p \in Parent : <<p>> \in Reference
    BY DEF Reference
  <1>5. NoNumber \in Reference
    BY DEF Reference, Number
  <1>6. ASSUME NEW p \in Parent, AnnulParent(p) PROVE LedgersKept
    <2>1. PICK doc \in Reference : doc = <<p>>
      BY <1>4
    <2>2. PICK parent \in [status : {"Confirmed", "Cancelled"}, paid : Seq(Share)] :
              parent = parents[p]
      BY <1>1
    <2>3. PICK kind \in {"Income", "Expense"} : kind = PaidBack
      BY KindsTyped
    <2>4. PICK lines \in Seq(Line) : lines = LinesOf(p)
      BY LinesOfTyped
    <2>5. /\ parents' = [parents EXCEPT ![p].status = "Cancelled"]
          /\ moves' = moves \o MovesOf(lines, doc)
          /\ entries' = entries \o [i \in 1..Len(parent.paid) |->
                 [kind |-> kind, account |-> parent.paid[i].account,
                  amount |-> parent.paid[i].amount, doc |-> doc]]
      BY <1>6, <2>1, <2>2, <2>3, <2>4 DEF AnnulParent
    <2>6. MovesOf(lines, doc) \in Seq(Move)
      BY MovesOfTyped
    <2>7. moves' \in Seq(Move)
      BY <1>1, <2>5, <2>6, ConcatProperties
    <2>8. parent.paid \in Seq(Share)
      OBVIOUS
    <2>9. PICK paid \in Seq(Share) : paid = parent.paid
      BY <2>8
    <2>10. entries' \in Seq(Entry)
      <3> DEFINE new == [i \in 1..Len(paid) |->
                 [kind |-> kind, account |-> paid[i].account, amount |-> paid[i].amount, doc |-> doc]]
      <3>1. new \in Seq(Entry)
        BY EntriesOfTyped
      <3>2. entries' = entries \o new
        BY <2>5, <2>9
      <3> HIDE DEF new
      <3> QED BY <1>1, <3>1, <3>2, ConcatProperties
    <2>11. parents' \in [Parent -> [status : {"Confirmed", "Cancelled"}, paid : Seq(Share)]]
      BY <1>1, <2>5
    <2> QED BY <1>3, <2>7, <2>10, <2>11
  <1>7. ASSUME NEW p \in Parent, NEW a \in Account, NEW amount \in PayAmount,
               PayParent(p, a, amount)
        PROVE  LedgersKept
    <2>1. PICK doc \in Reference : doc = <<p>>
      BY <1>4
    <2>2. PICK share : share = [account |-> a, amount |-> amount]
      OBVIOUS
    <2>3. amount \in Nat \ {0}
      BY ReturnsAssumption
    <2>4. share \in Share /\ share.account = a /\ share.amount = amount
      BY <2>2, <2>3 DEF Share
    <2>5. PICK kind \in {"Income", "Expense"} : kind = PaidForth
      BY KindsTyped
    <2>6. /\ parents' = [parents EXCEPT ![p].paid = Append(@, share)] /\ moves' = moves
          /\ entries' = Append(entries, [kind |-> kind, account |-> a, amount |-> amount,
                                         doc |-> doc])
      BY <1>7, <2>1, <2>2, <2>5 DEF PayParent
    <2>7. PICK e : e = [kind |-> kind, account |-> a, amount |-> amount, doc |-> doc]
      OBVIOUS
    <2>8. e \in Entry
      BY <2>3, <2>7 DEF Entry
    <2>9. entries' \in Seq(Entry)
      BY <1>1, <2>6, <2>7, <2>8, AppendProperties
    <2>10. PICK parent \in [status : {"Confirmed", "Cancelled"}, paid : Seq(Share)] :
              parent = parents[p]
      BY <1>1
    <2>11. PICK paid \in Seq(Share) : paid = Append(parent.paid, share)
      BY <2>4, AppendProperties
    <2>12. parents' = [parents EXCEPT ![p] = [parent EXCEPT !.paid = paid]]
      BY <2>6, <2>10, <2>11
    <2>13. parents' \in [Parent -> [status : {"Confirmed", "Cancelled"}, paid : Seq(Share)]]
      BY <1>1, <2>12
    <2> QED BY <1>1, <1>3, <2>6, <2>9, <2>13
  <1>8. ASSUME NEW product \in Tracked, NEW delta \in HandMove, MoveByHand(product, delta)
        PROVE  LedgersKept
    <2>1. PICK move : move = [product |-> product, delta |-> delta, doc |-> NoNumber]
      OBVIOUS
    <2>2. move \in Move
      BY <1>5, <2>1, ReturnsAssumption DEF Move
    <2>3. moves' = Append(moves, move) /\ UNCHANGED <<parents, entries>>
      BY <1>8, <2>1 DEF MoveByHand
    <2> QED BY <1>1, <1>3, <2>2, <2>3, AppendProperties
  <1>9. ASSUME NEW a \in Account, NEW amount \in PayAmount, SpendByHand(a, amount)
        PROVE  LedgersKept
    <2>1. PICK e : e = [kind |-> "Expense", account |-> a, amount |-> amount, doc |-> NoNumber]
      OBVIOUS
    <2>2. e \in Entry
      BY <1>5, <2>1, ReturnsAssumption DEF Entry
    <2>3. entries' = Append(entries, e) /\ UNCHANGED <<parents, moves>>
      BY <1>9, <2>1 DEF SpendByHand
    <2> QED BY <1>1, <1>3, <2>2, <2>3, AppendProperties
  <1> QED BY <1>2, <1>6, <1>7, <1>8, <1>9 DEF Beside

(* A request that starts holds what it has read. *)
LEMMA StartsSound ==
    ASSUME Sound, NEW r \in Request, NEW k \in 1..Len(returns),
           ConfirmRead(r, k) \/ CancelRead(r, k)
    PROVE  LedgersKept /\ HoldersKept
  <1>1. TypeOK /\ Unwritten
    BY DEF Sound, ConfirmRead, CancelRead
  <1>2. LedgersKept
    BY <1>1, LedgersSame DEF Unwritten
  <1>3. returns[k] \in Return /\ returns[k].lines \in Seq(Line) /\ Len(returns) \in Nat
    BY RowsTyped DEF Sound
  <1>4. k \in ReturnId
    BY <1>1, <1>3, ReturnsAssumption DEF ReturnId, TypeOK
  <1>5. CASE ConfirmRead(r, k)
    <2>1. PICK seen \in Return : seen = returns[k]
      BY <1>3
    <2>2. seen.parent \in Parent /\ seen.lines \in Seq(Line)
      BY DEF Return
    <2>3. PICK parent \in [status : {"Confirmed", "Cancelled"}, paid : Seq(Share)] :
              parent = parents[seen.parent]
      BY <1>1, <2>2 DEF TypeOK
    <2>4. PICK paid \in Seq(Share) : paid = parent.paid
      OBVIOUS
    <2>5. PICK plan : plan = RefundPlan(Worth(seen.lines), paid)
      OBVIOUS
    <2>6. plan \in Seq(Share)
      BY <2>2, <2>5, WorthNat, RefundPlanTyped
    <2>7. PICK st : st = [step |-> "confirm", return |-> k, seen |-> seen, plan |-> plan]
      OBVIOUS
    <2>8. st \in RequestState
      BY <1>4, <2>6, <2>7 DEF RequestState
    <2>9. Becomes(r, st)
      BY <1>5, <2>1, <2>3, <2>4, <2>5, <2>7 DEF ConfirmRead
    <2>10. Holds(st, returns, refunds)
      BY <2>7 DEF Holds, Cancelling
    <2> QED BY <1>1, <1>2, <2>8, <2>9, <2>10, HolderReads
  <1>6. CASE CancelRead(r, k)
    <2>1. PICK lines : lines = {i \in 1..Len(returns[k].lines) :
                                   Sold[returns[k].lines[i].sold].product \in Tracked}
      OBVIOUS
    <2>2. lines \in SUBSET Nat /\ RefundsOf(k) \in SUBSET Nat
      BY <2>1 DEF RefundsOf
    <2>3. PICK st : st = [step |-> "reverse", return |-> k, lines |-> lines, pays |-> RefundsOf(k)]
      OBVIOUS
    <2>4. st \in RequestState
      BY <1>4, <2>2, <2>3 DEF RequestState
    <2>5. Becomes(r, st)
      BY <1>6, <2>1, <2>3 DEF CancelRead
    <2>6. Holds(st, returns, refunds)
      BY <2>1, <2>3 DEF Holds, RefundsOf
    <2> QED BY <1>1, <1>2, <2>4, <2>5, <2>6, HolderReads
  <1> QED BY <1>5, <1>6

\* The refund rows of a plan whose transactions come after the first n.
RowsOf(k, plan, n) ==
    [i \in 1..Len(plan) |-> [return |-> k, account |-> plan[i].account, amount |-> plan[i].amount,
                             tx |-> n + i, back |-> 0]]

LEMMA RowsOfTyped ==
    ASSUME NEW k \in Nat \ {0}, NEW plan \in Seq(Share), NEW n \in Nat
    PROVE  /\ RowsOf(k, plan, n) \in Seq(Refund) /\ Len(RowsOf(k, plan, n)) = Len(plan)
           /\ \A i \in 1..Len(plan) :
                  RowsOf(k, plan, n)[i] =
                      [return |-> k, account |-> plan[i].account, amount |-> plan[i].amount,
                       tx |-> n + i, back |-> 0]
  <1>1. Len(plan) \in Nat
    OBVIOUS
  <1>2. \A i \in 1..Len(plan) : RowsOf(k, plan, n)[i] \in Refund
    <2> SUFFICES ASSUME NEW i \in 1..Len(plan) PROVE RowsOf(k, plan, n)[i] \in Refund
      OBVIOUS
    <2>1. PICK share \in Share : share = plan[i]
      BY ElementOfSeq
    <2>2. share.account \in Account /\ share.amount \in Nat \ {0} /\ n + i \in Nat \ {0}
      BY DEF Share
    <2> QED BY <2>1, <2>2 DEF RowsOf, Refund
  <1>3. \A i \in 1..Len(plan) :
                  RowsOf(k, plan, n)[i] =
                      [return |-> k, account |-> plan[i].account, amount |-> plan[i].amount,
                       tx |-> n + i, back |-> 0]
    BY DEF RowsOf
  <1>4. RowsOf(k, plan, n) \in Seq(Refund)
    BY <1>1, <1>2, IsASeq DEF RowsOf
  <1>5. Len(RowsOf(k, plan, n)) = Len(plan)
    BY <1>1 DEF RowsOf
  <1> QED BY <1>3, <1>4, <1>5

\* What a unit writes for a request q, under a number.
UnitOf(q, number) ==
    /\ moves' = moves \o MovesOf(q.seen.lines, number)
    /\ entries' = entries \o [i \in 1..Len(q.plan) |->
           [kind |-> PaidBack, account |-> q.plan[i].account, amount |-> q.plan[i].amount,
            doc |-> number]]
    /\ refunds' = refunds \o RowsOf(q.return, q.plan, Len(entries))
    /\ returns' = [returns EXCEPT ![q.return] =
                      [returns[q.return] EXCEPT !.status = "Confirmed", !.number = number]]

LEMMA UnitIs ==
    ASSUME Sound, NEW r \in Request, ConfirmUnit(r)
    PROVE  \E q, number : 
              /\ q = req[r] /\ number = NextNumber(q.seen.year) /\ UnitOf(q, number)
              /\ q.seen \in Return /\ q.seen.lines \in Seq(Line) /\ q.plan \in Seq(Share)
              /\ q.step = "confirm" /\ q.return \in 1..Len(returns)
              /\ returns[q.return].status = "Draft"
              /\ number \in Number /\ number # NoNumber /\ number \in Reference
              /\ Becomes(r, Idle) /\ UNCHANGED <<family, parents>>
  <1>1. PICK q : q = req[r]
    OBVIOUS
  <1>2. PICK number : number = NextNumber(q.seen.year)
    OBVIOUS
  <1>3. q.step = "confirm" /\ Becomes(r, Idle) /\ UNCHANGED <<family, parents>>
        /\ returns[q.return].status = "Draft"
    BY <1>1 DEF ConfirmUnit, UnitAccepts
  <1>4. q.seen \in Return /\ q.plan \in Seq(Share) /\ q.return \in 1..Len(returns)
    BY <1>1, <1>3, RequestShape DEF Sound, Typed, Relies
  <1>5. q.seen.lines \in Seq(Line) /\ q.seen.year \in Year
    BY <1>4 DEF Return
  <1>6. lastNumber \in [Year -> Nat]
    BY RowsTyped DEF Sound
  <1>7. number \in Number /\ number # NoNumber /\ number \in Reference
    BY <1>2, <1>5, <1>6 DEF NextNumber, Number, NoNumber, Reference
  <1>8. [i \in 1..Len(q.plan) |-> RefundRow(q, i)] = RowsOf(q.return, q.plan, Len(entries))
    BY DEF RefundRow, RowsOf
  <1>9. UnitOf(q, number)
    BY <1>1, <1>2, <1>8 DEF ConfirmUnit, Rewrite, UnitOf
  <1> QED BY <1>1, <1>2, <1>3, <1>4, <1>5, <1>7, <1>9

(* The unit of a confirm. *)
LEMMA UnitWorks ==
    ASSUME Sound, NEW r \in Request, ConfirmUnit(r)
    PROVE  LedgersKept /\ HoldersKept
  <1>1. PICK q, number :
              /\ q = req[r] /\ number = NextNumber(q.seen.year) /\ UnitOf(q, number)
              /\ q.seen \in Return /\ q.seen.lines \in Seq(Line) /\ q.plan \in Seq(Share)
              /\ q.step = "confirm" /\ q.return \in 1..Len(returns)
              /\ returns[q.return].status = "Draft"
              /\ number \in Number /\ number # NoNumber /\ number \in Reference
              /\ Becomes(r, Idle) /\ UNCHANGED <<family, parents>>
    BY UnitIs
  <1>2. /\ moves \in Seq(Move) /\ entries \in Seq(Entry) /\ refunds \in Seq(Refund) /\ TypeOK
        /\ parents \in [Parent -> [status : {"Confirmed", "Cancelled"}, paid : Seq(Share)]]
        /\ Len(entries) \in Nat /\ Len(refunds) \in Nat
    BY LenProperties DEF Sound, TypeOK
  <1>3. PICK plan \in Seq(Share) : plan = q.plan
    BY <1>1
  <1>4. PICK k \in 1..Len(returns) : k = q.return
    BY <1>1
  <1>5. k \in Nat \ {0}
    OBVIOUS
  <1>6. moves' \in Seq(Move)
    <2>1. MovesOf(q.seen.lines, number) \in Seq(Move)
      BY <1>1, MovesOfTyped
    <2> QED BY <1>1, <1>2, <2>1, ConcatProperties DEF UnitOf
  <1>7. entries' \in Seq(Entry)
    <2>1. PICK kind \in {"Income", "Expense"} : kind = PaidBack
      BY KindsTyped
    <2> DEFINE new == [i \in 1..Len(plan) |->
                 [kind |-> kind, account |-> plan[i].account, amount |-> plan[i].amount,
                  doc |-> number]]
    <2>2. new \in Seq(Entry)
      BY <1>1, EntriesOfTyped
    <2>3. entries' = entries \o new
      BY <1>1, <1>3, <2>1 DEF UnitOf
    <2> HIDE DEF new
    <2> QED BY <1>2, <2>2, <2>3, ConcatProperties
  <1>8. PICK new : new = RowsOf(k, plan, Len(entries))
    OBVIOUS
  <1>9. new \in Seq(Refund) /\ \A i \in 1..Len(new) : new[i].return = k
    <2>1. PICK n \in Nat : n = Len(entries)
      BY <1>2
    <2>2. RowsOf(k, plan, n) \in Seq(Refund) /\ Len(RowsOf(k, plan, n)) = Len(plan)
      BY <1>5, RowsOfTyped
    <2>3. \A i \in 1..Len(plan) : RowsOf(k, plan, n)[i].return = k
      BY DEF RowsOf
    <2> QED BY <1>8, <2>1, <2>2, <2>3
  <1>10. refunds' = refunds \o new
    BY <1>1, <1>3, <1>4, <1>8 DEF UnitOf
  <1>11. refunds' \in Seq(Refund)
    BY <1>2, <1>9, <1>10, ConcatProperties
  <1>12. k \in 1..Len(returns') /\ returns'[k].number # NoNumber
    <2>1. PICK x : x = [returns[k] EXCEPT !.status = "Confirmed", !.number = number]
      OBVIOUS
    <2>2. returns \in Seq(Return) /\ returns[k] \in Return
      BY RowsTyped DEF Sound
    <2>3. x \in Return /\ x.number = number
      BY <1>1, <2>1, <2>2 DEF Return
    <2>4. returns' = [returns EXCEPT ![k] = x]
      BY <1>1, <1>4, <2>1 DEF UnitOf
    <2>5. Len(returns') = Len(returns) /\ returns'[k] = x
      BY <2>2, <2>3, <2>4, ExceptSeq
    <2> QED BY <1>1, <2>3, <2>5
  <1>13. /\ \A i \in 1..Len(refunds) : i \in 1..Len(refunds') /\ refunds'[i] = refunds[i]
         /\ \A i \in 1..Len(refunds') :
               i \in 1..Len(refunds) \/ (i \notin 1..Len(refunds) /\ refunds'[i].return = k)
    <2>1. /\ Len(refunds') = Len(refunds) + Len(new) /\ Len(new) \in Nat
          /\ \A i \in 1..Len(refunds) : refunds'[i] = refunds[i]
          /\ \A i \in 1..Len(new) : refunds'[Len(refunds) + i] = new[i]
          /\ \A i \in 1..Len(refunds) + Len(new) :
                i \in 1..Len(refunds) \/ \E j \in 1..Len(new) : i = Len(refunds) + j
      BY <1>2, <1>9, <1>10, RowsConcatenated
    <2>2. \A i \in 1..Len(refunds) : i \in 1..Len(refunds')
      BY <1>2, <2>1
    <2>3. ASSUME NEW i \in 1..Len(refunds'), i \notin 1..Len(refunds) PROVE refunds'[i].return = k
      <3>1. i \in 1..Len(refunds) + Len(new)
        BY <2>1
      <3>2. PICK j \in 1..Len(new) : i = Len(refunds) + j
        BY <2>1, <2>3, <3>1
      <3> QED BY <1>9, <2>1, <3>2
    <2> QED BY <2>1, <2>2, <2>3
  <1>14. LedgersKept
    <2>1. \A i \in 1..Len(refunds') :
           \/ i \in 1..Len(refunds) /\ refunds'[i].return = refunds[i].return
           \/ /\ refunds'[i].return \in 1..Len(returns')
              /\ returns'[refunds'[i].return].number # NoNumber
      BY <1>12, <1>13
    <2>2. \A i \in 1..Len(refunds) :
             i \in 1..Len(refunds') /\ refunds'[i].return = refunds[i].return
      BY <1>13
    <2>3. parents' \in [Parent -> [status : {"Confirmed", "Cancelled"}, paid : Seq(Share)]]
          /\ UNCHANGED family
      BY <1>1, <1>2
    <2> QED BY <1>6, <1>7, <1>11, <2>1, <2>2, <2>3 DEF LedgersKept
  <1> QED BY <1>1, <1>2, <1>14, HolderEnds

(* The line that is moved back next. *)
LEMMA NextLineSound ==
    ASSUME Sound, NEW r \in Request, req[r].step = "reverse", req[r].lines # {}
    PROVE  /\ First(req[r].lines) \in req[r].lines
           /\ First(req[r].lines) \in 1..Len(returns[req[r].return].lines)
           /\ req[r].return \in 1..Len(returns) /\ Numbered(req[r].return)
           /\ returns[req[r].return].lines \in Seq(Line)
           /\ returns[req[r].return].lines[First(req[r].lines)] \in TrackedLine
           /\ Reversed(req[r]) \in Move
  <1>1. PICK q : q = req[r]
    OBVIOUS
  <1>2. q.lines \in SUBSET Nat /\ q.lines # {} /\ q.step = "reverse"
    BY <1>1, RequestShape DEF Sound, Cancelling
  <1>3. PICK i : i = First(q.lines)
    OBVIOUS
  <1>4. i \in q.lines
    BY <1>2, <1>3, FirstIn
  <1>5. /\ i \in 1..Len(returns[q.return].lines)
        /\ Sold[returns[q.return].lines[i].sold].product \in Tracked
    BY <1>1, <1>2, <1>4 DEF Sound, Holds
  <1>6. q.return \in 1..Len(returns) /\ Numbered(q.return)
    BY <1>1, <1>2 DEF Sound, Typed, Relies, Cancelling, Numbered
  <1>7. returns[q.return] \in Return /\ returns[q.return].lines \in Seq(Line)
    BY <1>6, RowsTyped DEF Sound
  <1>8. PICK line \in Line : line = returns[q.return].lines[i]
    BY <1>5, <1>7, ElementOfSeq
  <1>9. line \in TrackedLine
    BY <1>5, <1>8 DEF TrackedLine
  <1>10. PICK number \in Number : number = returns[q.return].number
    BY <1>7 DEF Return
  <1>11. Reversed(q) = [product |-> Sold[line.sold].product, delta |-> -Delta(line.qty),
                        doc |-> number]
    BY <1>3, <1>8, <1>10 DEF Reversed
  <1>12. -Delta(line.qty) \in Int
    BY LineFacts, DeltaInt
  <1>13. Reversed(q) \in Move
    BY <1>9, <1>10, <1>11, <1>12 DEF Move, Reference, TrackedLine
  <1> QED BY <1>1, <1>3, <1>4, <1>5, <1>6, <1>7, <1>8, <1>9, <1>13

(* What is left of a reversal's lines. *)
LEMMA LineTaken ==
    ASSUME NEW q, q = [step |-> "reverse", return |-> q.return, lines |-> q.lines, pays |-> q.pays],
           NEW left
    PROVE  [q EXCEPT !.lines = left] =
               [step |-> "reverse", return |-> q.return, lines |-> left, pays |-> q.pays]
  <1>1. PICK e : e = [q EXCEPT !.lines = left]
    OBVIOUS
  <1>2. DOMAIN q = {"step", "return", "lines", "pays"} /\ q.step = "reverse"
    OBVIOUS
  <1>3. DOMAIN e = {"step", "return", "lines", "pays"}
    BY <1>1, <1>2
  <1>4. e.step = "reverse" /\ e.return = q.return /\ e.lines = left /\ e.pays = q.pays
    BY <1>1, <1>2
  <1>5. e = [step |-> e.step, return |-> e.return, lines |-> e.lines, pays |-> e.pays]
    BY <1>1, <1>3
  <1> QED BY <1>1, <1>4, <1>5

(* The goods of a reversal. *)
LEMMA ReverseWorks ==
    ASSUME Sound, NEW r \in Request, ReverseLine(r)
    PROVE  LedgersKept /\ HoldersKept
  <1>1. PICK q : q = req[r]
    OBVIOUS
  <1>2. TypeOK /\ q.step = "reverse" /\ q.lines # {}
    BY <1>1 DEF Sound, ReverseLine
  <1>3. First(q.lines) \in q.lines /\ Reversed(q) \in Move
    BY <1>1, <1>2, NextLineSound
  <1>4. PICK move \in Move : move = Reversed(q)
    BY <1>3
  <1>5. moves' = Append(moves, move) /\ UNCHANGED <<family, parents, returns, entries, refunds>>
    BY <1>1, <1>4 DEF ReverseLine
  <1>6. LedgersKept
    <2>1. moves' \in Seq(Move)
      BY <1>2, <1>5, AppendProperties DEF TypeOK
    <2> QED BY <1>2, <1>5, <2>1 DEF LedgersKept, TypeOK
  <1>7. q = [step |-> "reverse", return |-> q.return, lines |-> q.lines, pays |-> q.pays]
    BY <1>1, <1>2 DEF Sound, Typed, Relies
  <1>8. q.lines \in SUBSET Nat /\ q.pays \in SUBSET Nat /\ q.return \in ReturnId
    BY <1>1, <1>2, RequestShape DEF Cancelling
  <1>9. PICK left : left = q.lines \ {First(q.lines)}
    OBVIOUS
  <1>10. PICK st : st = [step |-> "reverse", return |-> q.return, lines |-> left, pays |-> q.pays]
    OBVIOUS
  <1>11. [q EXCEPT !.lines = left] = st
    BY <1>7, <1>10, LineTaken
  <1>12. Becomes(r, st)
    BY <1>1, <1>9, <1>11 DEF ReverseLine
  <1>13. left \in SUBSET Nat
    BY <1>8, <1>9
  <1>14. st \in RequestState
    BY <1>8, <1>10, <1>13 DEF RequestState
  <1>15. Holds(st, returns', refunds')
    BY <1>1, <1>2, <1>5, <1>9, <1>10 DEF Sound, Holds, Cancelling
  <1> QED BY <1>2, <1>6, <1>12, <1>14, <1>15, HolderMoves

(* The money of a reversal. *)
LEMMA MoneyWorks ==
    ASSUME Sound, NEW r \in Request, PayForth(r) \/ LinkBack(r)
    PROVE  LedgersKept /\ HoldersKept
  <1>1. PICK q : q = req[r]
    OBVIOUS
  <1>2. TypeOK /\ q.step \in Cancelling /\ q.pays # {}
    BY <1>1 DEF Sound, Holds, Cancelling, PayForth, LinkBack
  <1>3. /\ q.pays \in SUBSET Nat /\ q.return \in ReturnId
        /\ q.return \in 1..Len(returns) /\ Numbered(q.return)
        /\ \A i \in q.pays : i \in 1..Len(refunds) /\ refunds[i].return = q.return
    BY <1>1, <1>2, RequestShape DEF Sound, Typed, Relies, Holds, Numbered
  <1>4. PICK first : first = First(q.pays)
    OBVIOUS
  <1>5. first \in q.pays /\ first \in 1..Len(refunds)
    BY <1>2, <1>3, <1>4, FirstIn
  <1>6. refunds \in Seq(Refund) /\ refunds[first] \in Refund
    BY <1>2, <1>5, ElementOfSeq DEF TypeOK
  <1>7. PICK pay \in Refund : pay = refunds[first]
    BY <1>6
  <1>8. CASE PayForth(r)
    <2>1. PICK number \in Number : number = returns[q.return].number
      <3>1. returns[q.return] \in Return
        BY <1>3, RowsTyped DEF Sound
      <3> QED BY <3>1 DEF Return
    <2>2. PICK kind \in {"Income", "Expense"} : kind = PaidForth
      BY KindsTyped
    <2>3. PICK e : e = [kind |-> kind, account |-> pay.account, amount |-> pay.amount,
                        doc |-> number]
      OBVIOUS
    <2>4. /\ entries' = Append(entries, e)
          /\ UNCHANGED <<family, parents, returns, moves, refunds>>
      BY <1>1, <1>4, <1>7, <1>8, <2>1, <2>2, <2>3 DEF PayForth
    <2>5. e \in Entry
      BY <2>3 DEF Entry, Reference, Refund
    <2>6. entries' \in Seq(Entry) /\ Len(entries) \in Nat
      BY <1>2, <2>4, <2>5, AppendProperties, LenProperties DEF TypeOK
    <2>7. LedgersKept
      BY <1>2, <2>4, <2>6 DEF LedgersKept, TypeOK
    <2>8. PICK st : st = [step |-> "link", return |-> q.return, lines |-> {}, pays |-> q.pays,
                          tx |-> Len(entries) + 1]
      OBVIOUS
    <2>9. st \in RequestState
      BY <1>3, <2>6, <2>8 DEF RequestState
    <2>10. Holds(st, returns', refunds')
      BY <1>2, <1>3, <2>4, <2>8 DEF Holds
    <2>11. Becomes(r, st)
      BY <1>1, <1>8, <2>8 DEF PayForth
    <2> QED BY <1>2, <2>7, <2>9, <2>10, <2>11, HolderMoves
  <1>9. CASE LinkBack(r)
    <2>1. PICK tx \in Nat \ {0} : tx = q.tx
      BY <1>1, <1>2, <1>9, RequestShape DEF LinkBack
    <2>2. PICK x : x = [pay EXCEPT !.back = tx]
      OBVIOUS
    <2>3. x \in Refund /\ x.return = pay.return
      BY <2>2 DEF Refund
    <2>4. refunds' = [refunds EXCEPT ![first] = x]
          /\ UNCHANGED <<family, parents, returns, moves, entries>>
      BY <1>1, <1>4, <1>7, <1>9, <2>1, <2>2 DEF LinkBack
    <2>5. /\ refunds' \in Seq(Refund) /\ Len(refunds') = Len(refunds)
          /\ \A i \in 1..Len(refunds) : refunds'[i].return = refunds[i].return
      <3>1. /\ refunds' \in Seq(Refund) /\ Len(refunds') = Len(refunds) /\ refunds'[first] = x
            /\ \A i \in 1..Len(refunds) : i # first => refunds'[i] = refunds[i]
        BY <1>5, <1>6, <2>3, <2>4, ExceptSeq
      <3> QED BY <1>7, <2>3, <3>1
    <2>6. LedgersKept
      BY <1>2, <2>4, <2>5 DEF LedgersKept, TypeOK
    <2>7. PICK st : st = [step |-> "reverse", return |-> q.return, lines |-> {},
                          pays |-> q.pays \ {first}]
      OBVIOUS
    <2>8. st \in RequestState
      BY <1>3, <2>7 DEF RequestState
    <2>9. Holds(st, returns', refunds')
      BY <1>3, <2>5, <2>7 DEF Holds
    <2>10. Becomes(r, st)
      BY <1>1, <1>4, <1>9, <2>7 DEF LinkBack
    <2> QED BY <1>2, <2>6, <2>8, <2>9, <2>10, HolderMoves
  <1> QED BY <1>8, <1>9

(* Every step of a request. *)
LEMMA WorksSound ==
    ASSUME Sound, NEW r \in Request, Works(r) \/ Quit(r)
    PROVE  LedgersKept /\ HoldersKept
  <1>1. CASE CancelClose(r) \/ Quit(r)
    <2>1. TypeOK /\ Becomes(r, Idle) /\ UNCHANGED <<family, parents, moves, entries, refunds>>
      BY <1>1 DEF Sound, CancelClose, Quit, Unwritten
    <2> QED BY <2>1, LedgersSame, HolderEnds
  <1> QED BY <1>1, UnitWorks, ReverseWorks, MoneyWorks DEF Works

(* The table does not outgrow its bound. *)
LEMMA TableBounded ==
    ASSUME Sound, [Next]_vars
    PROVE  Len(returns') <= MaxReturns
  <1>1. /\ returns \in Seq(Return) /\ Len(returns) \in Nat /\ Len(returns) <= MaxReturns
        /\ MaxReturns \in Nat
    BY ReturnsAssumption DEF Sound, TypeOK
  <1>2. TableKept /\ TableStep
    BY StepOnTable, TableTyped DEF Sound
  <1>3. ASSUME NEW x, Len(returns) < MaxReturns, returns' = Append(returns, x)
        PROVE  Len(returns') <= MaxReturns
    <2>1. Len(returns') = Len(returns) + 1
      BY <1>1, <1>3
    <2> QED BY <1>1, <1>3, <2>1
  <1>4. ASSUME NEW k, NEW x, returns' = [returns EXCEPT ![k] = x] PROVE Len(returns') <= MaxReturns
    <2>1. returns' \in Seq(Return) /\ DOMAIN returns' = DOMAIN returns
      BY <1>2, <1>4 DEF TableKept
    <2>2. DOMAIN returns' = 1..Len(returns') /\ DOMAIN returns = 1..Len(returns)
          /\ Len(returns') \in Nat
      BY <1>1, <2>1
    <2>3. Len(returns') # 0 => Len(returns') \in 1..Len(returns)
      <3>1. PICK n \in Nat : n = Len(returns')
        BY <2>2
      <3>2. n # 0 => n \in 1..n
        OBVIOUS
      <3>3. 1..n = 1..Len(returns)
        BY <2>1, <2>2, <3>1
      <3> QED BY <3>1, <3>2, <3>3
    <2> QED BY <1>1, <2>2, <2>3
  <1>5. CASE Drafting
    BY <1>3, <1>4, <1>5, DraftingWrites
  <1>6. CASE Beside \/ UNCHANGED vars
    <2>1. UNCHANGED returns
      BY <1>6 DEF Beside, AnnulParent, PayParent, MoveByHand, SpendByHand, vars
    <2> QED BY <1>1, <2>1
  <1>7. ASSUME NEW r \in Request,
               \/ \E k \in 1..Len(returns) : ConfirmRead(r, k) \/ CancelRead(r, k)
               \/ Works(r) \/ Quit(r)
        PROVE  Len(returns') <= MaxReturns
    <2>1. UNCHANGED returns \/ \E k, x : returns' = [returns EXCEPT ![k] = x]
      BY <1>7 DEF ConfirmRead, CancelRead, Works, ConfirmUnit, ReverseLine, PayForth, LinkBack,
                  CancelClose, Quit, Unwritten, Rewrite
    <2> QED BY <1>1, <1>4, <2>1
  <1> QED BY <1>5, <1>6, <1>7 DEF Next

(* Sound is inductive. *)
LEMMA SoundStep == Sound /\ [Next]_vars => Sound'
  <1> SUFFICES ASSUME Sound, [Next]_vars PROVE Sound'
    OBVIOUS
  <1>1. Typed /\ TypeOK
    BY DEF Sound
  <1>2. Typed' /\ TableStep
    BY <1>1, TypedStep, StepOnTable
  <1>3. TableKept /\ RecordsKept /\ Len(returns') <= MaxReturns
    BY <1>1, <1>2, TableTyped, TableFrozen, TableBounded
  <1>4. LedgersKept /\ HoldersKept
    <2>1. ASSUME UNCHANGED <<family, parents, moves, entries, refunds, req>>
          PROVE  LedgersKept /\ HoldersKept
      BY <1>1, <2>1, LedgersSame DEF HoldersKept, TypeOK
    <2>2. CASE Drafting
      <3>1. UNCHANGED <<family, parents, moves, entries, refunds, req>>
        BY <2>2, DraftingWrites
      <3> QED BY <2>1, <3>1
    <2>3. CASE UNCHANGED vars
      BY <2>1, <2>3 DEF vars
    <2>4. CASE Beside
      <3>1. LedgersKept /\ UNCHANGED req
        BY <1>1, <2>4, BesideKeeps
      <3> QED BY <1>1, <3>1 DEF HoldersKept, TypeOK
    <2> QED BY <2>2, <2>3, <2>4, StartsSound, WorksSound DEF Next
  <1> QED BY <1>2, <1>3, <1>4, SoundKept

(* It holds at the start. *)
LEMMA SoundInit == Init => Sound
  <1> SUFFICES ASSUME Init PROVE Sound
    OBVIOUS
  <1>1. Typed
    BY TypedInit
  <1>2. TypeOK
    BY EmptySeq, ReturnsAssumption DEF Init, TypeOK, RequestState
  <1>3. \A r \in Request : Holds(req[r], returns, refunds)
    BY DEF Init, Idle, Holds, Cancelling
  <1>4. Len(refunds) = 0
    BY DEF Init
  <1> QED BY <1>1, <1>2, <1>3, <1>4 DEF Sound

LEMMA AlwaysSound == Spec => []Sound
  BY SoundInit, SoundStep, PTL DEF Spec

(* Every row of the returns, of their parents and of the ledgers they      *)
(* write is of its type, and so is what each request has read: TypeOK.     *)
THEOREM ReturnTypes == Spec => []TypeOK
  <1>1. Sound => TypeOK
    BY DEF Sound
  <1> QED BY <1>1, AlwaysSound, PTL

-----------------------------------------------------------------------------
(* Every refund is posted: the transaction posted for a reversal stays     *)
(* with its request, and with no other, until it is linked.                *)

\* No refund row refers to a transaction.
Unreferenced(id) == \A i \in 1..Len(refunds) : id \notin {refunds[i].tx, refunds[i].back}

\* The transaction of a refund row.
Paying(pay, kind, table) == [kind |-> kind, account |-> pay.account, amount |-> pay.amount,
                             doc |-> table[pay.return].number]

\* The transaction a request posted.
Claimed(q, rows, table) ==
    [kind |-> PaidForth, account |-> rows[First(q.pays)].account,
     amount |-> rows[First(q.pays)].amount, doc |-> table[q.return].number]

Posted ==
    /\ RefundsPosted
    /\ \A r \in Request : req[r].step = "link" =>
           /\ req[r].tx \in 1..Len(entries)
           /\ entries[req[r].tx] = Claimed(req[r], refunds, returns)
           /\ Unreferenced(req[r].tx)
    /\ \A r, o \in Request :
           r # o /\ req[r].step = "link" /\ req[o].step = "link" => req[r].tx # req[o].tx

\* Transactions are only added.
EntriesAdded ==
    /\ 1..Len(entries) \subseteq 1..Len(entries')
    /\ \A id \in 1..Len(entries) : entries'[id] = entries[id]

\* A reference a step adds: to a transaction that is what it should be and nobody else's.
Linkable(id, e) ==
    /\ id # 0 /\ Unreferenced(id) /\ id \in 1..Len(entries') /\ entries'[id] = e
    /\ \A r \in Request : req'[r].step = "link" => req'[r].tx # id

\* The three things a step can do to the refunds.
LinksStep ==
    \/ UNCHANGED refunds
    \/ \E new \in Seq(Refund) :
           /\ refunds' = refunds \o new
           /\ \A i \in 1..Len(new) :
                 /\ new[i].back = 0 /\ new[i].tx = Len(entries) + i
                 /\ Linkable(new[i].tx, Paying(new[i], PaidBack, returns'))
    \/ \E i \in 1..Len(refunds), id \in Nat \ {0} :
           /\ refunds' = [refunds EXCEPT ![i] = [refunds[i] EXCEPT !.back = id]]
           /\ Linkable(id, Paying(refunds[i], PaidForth, returns'))

\* The things a step can do to a request that has posted, or is about to.
HoldersStep ==
    \A r \in Request :
        \/ req'[r] = req[r]
        \/ req'[r].step # "link"
        \/ /\ req'[r].tx = Len(entries) + 1 /\ UNCHANGED refunds
           /\ Len(entries) + 1 \in 1..Len(entries')
           /\ entries'[Len(entries) + 1] = Claimed(req'[r], refunds, returns')
           /\ \A o \in Request : o # r => req'[o] = req[o]

\* What a step may do to one refund row: nothing, add it, or link its reversal.
Shown(i) ==
    /\ i \in 1..Len(refunds) /\ refunds'[i].tx = refunds[i].tx /\ refunds'[i].back = refunds[i].back

Added(i) ==
    /\ i \notin 1..Len(refunds) /\ i \in Nat /\ refunds'[i].tx = Len(entries) + (i - Len(refunds))
    /\ refunds'[i].back = 0
    /\ Linkable(refunds'[i].tx, Paying(refunds'[i], PaidBack, returns'))

PaidAgain(i) ==
    /\ i \in 1..Len(refunds) /\ refunds'[i].tx = refunds[i].tx
    /\ \A j \in 1..Len(refunds) : j # i => refunds'[j] = refunds[j]
    /\ Len(refunds') = Len(refunds)
    /\ Linkable(refunds'[i].back, Paying(refunds[i], PaidForth, returns'))

(* What is left of the refund rows. *)
LEMMA LinksLeave ==
    ASSUME TypeOK, LinksStep
    PROVE  /\ \A i \in 1..Len(refunds) :
                 /\ i \in 1..Len(refunds') /\ refunds'[i].tx = refunds[i].tx
                 /\ refunds'[i].account = refunds[i].account
                 /\ refunds'[i].amount = refunds[i].amount
                 /\ refunds'[i].return = refunds[i].return
           /\ \A i \in 1..Len(refunds') : Shown(i) \/ Added(i) \/ PaidAgain(i)
  <1>1. refunds \in Seq(Refund) /\ Len(refunds) \in Nat
    BY DEF TypeOK
  <1>2. CASE UNCHANGED refunds
    BY <1>2 DEF Shown
  <1>3. ASSUME NEW new \in Seq(Refund), refunds' = refunds \o new,
               \A i \in 1..Len(new) :
                 /\ new[i].back = 0 /\ new[i].tx = Len(entries) + i
                 /\ Linkable(new[i].tx, Paying(new[i], PaidBack, returns'))
        PROVE  /\ \A i \in 1..Len(refunds) : i \in 1..Len(refunds') /\ refunds'[i] = refunds[i]
               /\ \A i \in 1..Len(refunds') :
                    \/ i \in 1..Len(refunds) /\ refunds'[i] = refunds[i]
                    \/ Added(i)
    <2>1. /\ Len(refunds') = Len(refunds) + Len(new) /\ Len(new) \in Nat
          /\ \A i \in 1..Len(refunds) : refunds'[i] = refunds[i]
          /\ \A i \in 1..Len(new) : refunds'[Len(refunds) + i] = new[i]
          /\ \A i \in 1..Len(refunds) + Len(new) :
                i \in 1..Len(refunds) \/ \E j \in 1..Len(new) : i = Len(refunds) + j
      BY <1>1, <1>3, RowsConcatenated
    <2>2. \A i \in 1..Len(refunds) : i \in 1..Len(refunds')
      BY <1>1, <2>1
    <2>3. ASSUME NEW i \in 1..Len(refunds'), i \notin 1..Len(refunds) PROVE Added(i)
      <3>1. i \in 1..Len(refunds) + Len(new)
        BY <2>1
      <3>2. PICK j \in 1..Len(new) : i = Len(refunds) + j
        BY <2>1, <2>3, <3>1
      <3>3. PICK pay : pay = new[j]
        OBVIOUS
      <3>4. refunds'[i] = pay /\ j = i - Len(refunds) /\ i \in Nat
        BY <1>1, <2>1, <3>2, <3>3
      <3>5. /\ pay.back = 0 /\ pay.tx = Len(entries) + j
            /\ Linkable(pay.tx, Paying(pay, PaidBack, returns'))
        BY <1>3, <3>3
      <3> QED BY <2>3, <3>4, <3>5 DEF Added
    <2> QED BY <2>1, <2>2, <2>3
  <1>4. ASSUME NEW k \in 1..Len(refunds), NEW id \in Nat \ {0},
               refunds' = [refunds EXCEPT ![k] = [refunds[k] EXCEPT !.back = id]],
               Linkable(id, Paying(refunds[k], PaidForth, returns'))
        PROVE  /\ Len(refunds') = Len(refunds) /\ refunds'[k].back = id
               /\ refunds'[k].tx = refunds[k].tx /\ refunds'[k].account = refunds[k].account
               /\ refunds'[k].amount = refunds[k].amount
               /\ refunds'[k].return = refunds[k].return
               /\ \A i \in 1..Len(refunds) : i # k => refunds'[i] = refunds[i]
    <2>1. PICK pay : pay = [refunds[k] EXCEPT !.back = id]
      OBVIOUS
    <2>2. refunds[k] \in Refund
      BY <1>1, ElementOfSeq
    <2>3. /\ pay \in Refund /\ pay.back = id /\ pay.tx = refunds[k].tx
          /\ pay.account = refunds[k].account /\ pay.amount = refunds[k].amount
          /\ pay.return = refunds[k].return
      BY <2>1, <2>2 DEF Refund
    <2>4. /\ Len(refunds') = Len(refunds) /\ refunds'[k] = pay
          /\ \A i \in 1..Len(refunds) : i # k => refunds'[i] = refunds[i]
      BY <1>1, <1>4, <2>1, <2>3, ExceptSeq
    <2> QED BY <2>3, <2>4
  <1>5. CASE \E new \in Seq(Refund) :
           /\ refunds' = refunds \o new
           /\ \A i \in 1..Len(new) :
                 /\ new[i].back = 0 /\ new[i].tx = Len(entries) + i
                 /\ Linkable(new[i].tx, Paying(new[i], PaidBack, returns'))
    BY <1>3, <1>5 DEF Shown
  <1>6. ASSUME NEW k \in 1..Len(refunds), NEW id \in Nat \ {0},
               refunds' = [refunds EXCEPT ![k] = [refunds[k] EXCEPT !.back = id]],
               Linkable(id, Paying(refunds[k], PaidForth, returns'))
        PROVE  /\ \A i \in 1..Len(refunds) :
                     /\ i \in 1..Len(refunds') /\ refunds'[i].tx = refunds[i].tx
                     /\ refunds'[i].account = refunds[i].account
                     /\ refunds'[i].amount = refunds[i].amount
                     /\ refunds'[i].return = refunds[i].return
               /\ \A i \in 1..Len(refunds') : Shown(i) \/ PaidAgain(i)
    BY <1>4, <1>6 DEF Shown, PaidAgain
  <1> QED BY <1>2, <1>5, <1>6 DEF LinksStep

(* A transaction a refund refers to remains what it was. *)
LEMMA PayingStays ==
    ASSUME Sound, Posted, RecordsKept, EntriesAdded, LinksStep, NEW i \in 1..Len(refunds)
    PROVE  /\ refunds[i].tx \in 1..Len(entries')
           /\ entries'[refunds[i].tx] = Paying(refunds'[i], PaidBack, returns')
           /\ refunds[i].back # 0 =>
                  /\ refunds[i].back \in 1..Len(entries')
                  /\ entries'[refunds[i].back] = Paying(refunds'[i], PaidForth, returns')
           /\ Paying(refunds[i], PaidForth, returns') = Paying(refunds'[i], PaidForth, returns')
  <1>1. /\ refunds'[i].account = refunds[i].account /\ refunds'[i].amount = refunds[i].amount
        /\ refunds'[i].return = refunds[i].return
    BY LinksLeave DEF Sound
  <1>2. PICK k : k = refunds[i].return
    OBVIOUS
  <1>3. returns'[k].number = returns[k].number
    BY <1>2 DEF Sound, RecordsKept
  <1>4. /\ refunds[i].tx \in 1..Len(entries)
        /\ entries[refunds[i].tx] = Paying(refunds[i], PaidBack, returns)
        /\ refunds[i].back # 0 =>
               /\ refunds[i].back \in 1..Len(entries)
               /\ entries[refunds[i].back] = Paying(refunds[i], PaidForth, returns)
    BY DEF Posted, RefundsPosted, Backed, Paying
  <1>5. \A kind : /\ Paying(refunds[i], kind, returns) = Paying(refunds'[i], kind, returns')
                  /\ Paying(refunds[i], kind, returns') = Paying(refunds'[i], kind, returns')
    BY <1>1, <1>2, <1>3 DEF Paying
  <1> QED BY <1>4, <1>5 DEF EntriesAdded

(* The refunds remain posted. *)
LEMMA RefundsPostedStep ==
    ASSUME Sound, Sound', Posted, RecordsKept, EntriesAdded, LinksStep, UNCHANGED family
    PROVE  RefundsPosted'
  <1>1. TypeOK /\ refunds \in Seq(Refund) /\ Len(refunds) \in Nat /\ Len(entries) \in Nat
    BY LenProperties DEF Sound, TypeOK
  <1>2. \A i \in 1..Len(refunds') : Shown(i) \/ Added(i) \/ PaidAgain(i)
    BY <1>1, LinksLeave
  <1>3. ASSUME NEW i \in 1..Len(refunds')
        PROVE  /\ refunds'[i].tx \in 1..Len(entries')
               /\ entries'[refunds'[i].tx] = Paying(refunds'[i], PaidBack, returns')
               /\ refunds'[i].back # 0 =>
                      /\ refunds'[i].back \in 1..Len(entries')
                      /\ entries'[refunds'[i].back] = Paying(refunds'[i], PaidForth, returns')
    BY <1>2, PayingStays DEF Linkable, Shown, Added, PaidAgain
  <1>4. ASSUME NEW i \in 1..Len(refunds'), NEW j \in 1..Len(refunds'), i # j
        PROVE  {refunds'[i].tx, refunds'[i].back}
                  \cap {refunds'[j].tx, refunds'[j].back} \subseteq {0}
    <2>1. \A k, o \in 1..Len(refunds) : k # o =>
              {refunds[k].tx, refunds[k].back} \cap {refunds[o].tx, refunds[o].back} \subseteq {0}
      BY DEF Posted, RefundsPosted
    <2>2. ASSUME NEW k \in 1..Len(refunds'), NEW o \in 1..Len(refunds'), k # o, Shown(k)
          PROVE  {refunds'[k].tx, refunds'[k].back}
                    \cap {refunds'[o].tx, refunds'[o].back} \subseteq {0}
      <3>1. CASE Shown(o)
        BY <2>1, <2>2, <3>1 DEF Shown
      <3>2. CASE Added(o)
        BY <2>2, <3>2 DEF Shown, Added, Linkable, Unreferenced
      <3>3. CASE PaidAgain(o)
        BY <2>1, <2>2, <3>3 DEF Shown, PaidAgain, Linkable, Unreferenced
      <3> QED BY <1>2, <2>2, <3>1, <3>2, <3>3
    <2>3. CASE Shown(i) \/ Shown(j)
      BY <1>4, <2>2, <2>3
    <2>4. CASE Added(i) /\ Added(j)
      <3>1. refunds'[i].tx # refunds'[j].tx
        BY <1>1, <1>4, <2>4 DEF Added
      <3> QED BY <2>4, <3>1 DEF Added
    <2>5. ASSUME PaidAgain(i) \/ PaidAgain(j) PROVE Shown(i) \/ Shown(j)
      BY <1>4, <2>5 DEF PaidAgain, Shown
    <2> QED BY <1>2, <2>3, <2>4, <2>5
  <1>5. \A i \in 1..Len(refunds') : returns'[refunds'[i].return].number # NoNumber
    BY DEF Sound, Numbered
  <1>6. PaidBack' = PaidBack /\ PaidForth' = PaidForth
    BY DEF PaidBack, PaidForth
  <1> QED BY <1>3, <1>4, <1>5, <1>6 DEF RefundsPosted, Backed, Paying, Numbered

(* No refund refers to a transaction that is yet to come. *)
LEMMA NewUnreferenced ==
    ASSUME Sound, Posted
    PROVE  Len(entries) \in Nat /\ \A n \in Nat \ {0} : Unreferenced(Len(entries) + n)
  <1>1. Len(entries) \in Nat
    BY LenProperties DEF Sound, TypeOK
  <1> SUFFICES ASSUME NEW n \in Nat \ {0}, NEW i \in 1..Len(refunds)
               PROVE  Len(entries) + n \notin {refunds[i].tx, refunds[i].back}
    BY <1>1 DEF Unreferenced
  <1>2. refunds[i].tx \in 1..Len(entries)
        /\ (refunds[i].back = 0 \/ refunds[i].back \in 1..Len(entries))
    BY DEF Posted, RefundsPosted, Backed
  <1> QED BY <1>1, <1>2

(* What a waiting request posted remains what it was. *)
LEMMA ClaimStays ==
    ASSUME Sound, Posted, RecordsKept, EntriesAdded, LinksStep, NEW r \in Request,
           req[r].step = "link"
    PROVE  /\ req[r].tx \in 1..Len(entries')
           /\ entries'[req[r].tx] = Claimed(req[r], refunds', returns')
  <1>1. PICK q : q = req[r]
    OBVIOUS
  <1>2. q.tx \in 1..Len(entries) /\ entries[q.tx] = Claimed(q, refunds, returns)
    BY <1>1 DEF Posted
  <1>3. q.pays # {} /\ q.pays \in SUBSET Nat /\ \A i \in q.pays : i \in 1..Len(refunds)
    BY <1>1, RequestShape DEF Sound, Holds, Cancelling
  <1>4. PICK i : i = First(q.pays)
    OBVIOUS
  <1>5. i \in 1..Len(refunds)
    BY <1>3, <1>4, FirstIn
  <1>6. refunds'[i].account = refunds[i].account /\ refunds'[i].amount = refunds[i].amount
    BY <1>5, LinksLeave DEF Sound
  <1>7. q.return \in 1..Len(returns) /\ Numbered(q.return)
    BY <1>1 DEF Sound, Typed, Relies, Cancelling, Numbered
  <1>8. returns'[q.return].number = returns[q.return].number
    BY <1>7 DEF RecordsKept
  <1>9. Claimed(q, refunds', returns') = Claimed(q, refunds, returns)
    BY <1>4, <1>6, <1>8 DEF Claimed
  <1> QED BY <1>1, <1>2, <1>9 DEF EntriesAdded

(* What a request holds goes on to be its own. *)
LEMMA ClaimsKept ==
    ASSUME Sound, Posted, RecordsKept, EntriesAdded, LinksStep, HoldersStep,
           NEW r \in Request, req'[r].step = "link"
    PROVE  /\ req'[r].tx \in 1..Len(entries')
           /\ entries'[req'[r].tx] = Claimed(req'[r], refunds', returns')
           /\ \A i \in 1..Len(refunds') :
                 req'[r].tx # refunds'[i].tx /\ req'[r].tx # refunds'[i].back
           /\ \/ req'[r] = req[r] /\ req'[r].tx \in 1..Len(entries)
              \/ req'[r].tx = Len(entries) + 1 /\ \A o \in Request : o # r => req'[o] = req[o]
  <1>1. CASE req'[r] = req[r]
    <2>1. req[r].tx \in 1..Len(entries) /\ Unreferenced(req[r].tx)
      BY <1>1 DEF Posted
    <2>2. /\ req[r].tx \in 1..Len(entries')
          /\ entries'[req[r].tx] = Claimed(req[r], refunds', returns')
      BY <1>1, ClaimStays
    <2>3. \A i \in 1..Len(refunds) : req[r].tx # refunds[i].tx /\ req[r].tx # refunds[i].back
      BY <2>1 DEF Unreferenced
    <2>4. ASSUME NEW i \in 1..Len(refunds')
          PROVE  req'[r].tx # refunds'[i].tx /\ req'[r].tx # refunds'[i].back
      <3>1. \/ /\ i \in 1..Len(refunds) /\ refunds'[i].tx = refunds[i].tx
               /\ refunds'[i].back = refunds[i].back
            \/ /\ refunds'[i].back = 0 /\ req'[r].tx # refunds'[i].tx
            \/ /\ i \in 1..Len(refunds) /\ refunds'[i].tx = refunds[i].tx
               /\ req'[r].tx # refunds'[i].back
        <4>1. Shown(i) \/ Added(i) \/ PaidAgain(i)
          BY LinksLeave DEF Sound
        <4> QED BY <1>1, <4>1 DEF Linkable, Shown, Added, PaidAgain
      <3>2. req'[r].tx # 0
        <4>1. PICK id \in 1..Len(entries) : id = req[r].tx
          BY <2>1
        <4> QED BY <1>1, <4>1
      <3> QED BY <1>1, <2>3, <3>1, <3>2
    <2> QED BY <1>1, <2>1, <2>2, <2>4
  <1>2. CASE /\ req'[r].tx = Len(entries) + 1 /\ UNCHANGED refunds
             /\ Len(entries) + 1 \in 1..Len(entries')
             /\ entries'[Len(entries) + 1] = Claimed(req'[r], refunds, returns')
             /\ \A o \in Request : o # r => req'[o] = req[o]
    <2>1. Unreferenced(Len(entries) + 1)
      BY NewUnreferenced
    <2>2. \A i \in 1..Len(refunds') :
             req'[r].tx # refunds'[i].tx /\ req'[r].tx # refunds'[i].back
      BY <1>2, <2>1 DEF Unreferenced
    <2>3. refunds' = refunds
      BY <1>2
    <2> QED BY <1>2, <2>2, <2>3
  <1> QED BY <1>1, <1>2 DEF HoldersStep

(* Posted is kept by a step that does these three things. *)
LEMMA PostedKept ==
    ASSUME Sound, Sound', Posted, RecordsKept, EntriesAdded, LinksStep, HoldersStep,
           UNCHANGED family
    PROVE  Posted'
  <1>1. RefundsPosted'
    BY RefundsPostedStep
  <1>2. ASSUME NEW r \in Request, req'[r].step = "link"
        PROVE  /\ req'[r].tx \in 1..Len(entries')
               /\ entries'[req'[r].tx] = Claimed(req'[r], refunds', returns')
               /\ \A i \in 1..Len(refunds') : req'[r].tx \notin {refunds'[i].tx, refunds'[i].back}
    BY <1>2, ClaimsKept
  <1>3. ASSUME NEW r \in Request, NEW o \in Request, r # o, req'[r].step = "link",
               req'[o].step = "link"
        PROVE  req'[r].tx # req'[o].tx
    <2>1. \/ req'[r] = req[r] /\ req'[r].tx \in 1..Len(entries)
          \/ req'[r].tx = Len(entries) + 1 /\ req'[o] = req[o]
      BY <1>3, ClaimsKept
    <2>2. \/ req'[o] = req[o] /\ req'[o].tx \in 1..Len(entries)
          \/ req'[o].tx = Len(entries) + 1 /\ req'[r] = req[r]
      BY <1>3, ClaimsKept
    <2>3. Len(entries) \in Nat
      BY NewUnreferenced
    <2>4. ASSUME req'[r] = req[r], req'[o] = req[o] PROVE req'[r].tx # req'[o].tx
      BY <1>3, <2>4 DEF Posted
    <2>5. ASSUME NEW p \in Request, req'[p] = req[p], req[p].step = "link"
          PROVE  req'[p].tx \in 1..Len(entries)
      BY <2>5 DEF Posted
    <2> QED BY <1>3, <2>1, <2>2, <2>3, <2>4, <2>5
  <1>4. PaidForth' = PaidForth
    BY DEF PaidForth
  <1> QED BY <1>1, <1>2, <1>3, <1>4 DEF Posted, Claimed, Unreferenced

LEMMA MovesUnheld ==
    ASSUME TypeOK, NEW r \in Request, NEW st, Becomes(r, st), st.step # "link"
    PROVE  HoldersStep
  <1>1. req'[r] = st /\ \A o \in Request : o # r => req'[o] = req[o]
    BY DEF TypeOK, Becomes
  <1> QED BY <1>1 DEF HoldersStep

LEMMA EndsUnheld ==
    ASSUME TypeOK, NEW r \in Request, Becomes(r, Idle)
    PROVE  HoldersStep
  <1>1. Idle.step # "link"
    BY DEF Idle
  <1> QED BY <1>1, MovesUnheld

(* Rows are only ever added at the end of the ledger. *)
LEMMA AddedOnly ==
    ASSUME TypeOK,
           UNCHANGED entries \/ \E new \in Seq(Entry) : entries' = entries \o new
    PROVE  EntriesAdded
  <1>1. entries \in Seq(Entry) /\ Len(entries) \in Nat
    BY LenProperties DEF TypeOK
  <1>2. CASE UNCHANGED entries
    BY <1>2 DEF EntriesAdded
  <1>3. ASSUME NEW new \in Seq(Entry), entries' = entries \o new
        PROVE  EntriesAdded
    <2>1. /\ Len(entries') = Len(entries) + Len(new) /\ Len(new) \in Nat
          /\ \A i \in 1..Len(entries) : entries'[i] = entries[i]
      BY <1>1, <1>3, RowsConcatenated
    <2>2. 1..Len(entries) \subseteq 1..Len(entries')
      BY <1>1, <2>1
    <2> QED BY <2>1, <2>2 DEF EntriesAdded
  <1> QED BY <1>2, <1>3

LEMMA OneAdded ==
    ASSUME TypeOK, NEW e \in Entry, entries' = Append(entries, e)
    PROVE  /\ EntriesAdded /\ Len(entries) \in Nat /\ Len(entries) + 1 \in 1..Len(entries')
           /\ entries'[Len(entries) + 1] = e
  <1>1. entries \in Seq(Entry) /\ Len(entries) \in Nat
    BY LenProperties DEF TypeOK
  <1>2. /\ Len(entries') = Len(entries) + 1 /\ entries'[Len(entries) + 1] = e
        /\ \A i \in 1..Len(entries) : entries'[i] = entries[i]
    BY <1>1, AppendProperties
  <1>3. 1..Len(entries) \subseteq 1..Len(entries') /\ Len(entries) + 1 \in 1..Len(entries')
    BY <1>1, <1>2
  <1> QED BY <1>1, <1>2, <1>3 DEF EntriesAdded

(* What moves beside the returns only adds rows. *)
LEMMA BesidePosts ==
    ASSUME TypeOK, Beside
    PROVE  EntriesAdded /\ UNCHANGED <<family, refunds, req>>
  <1>1. UNCHANGED <<req, family, refunds>>
    BY DEF Beside, AnnulParent, PayParent, MoveByHand, SpendByHand
  <1>2. \A p \in Parent : <<p>> \in Reference
    BY DEF Reference
  <1>3. NoNumber \in Reference
    BY DEF Reference, Number
  <1>4. ASSUME NEW p \in Parent, AnnulParent(p) PROVE EntriesAdded
    <2>1. PICK doc \in Reference : doc = <<p>>
      BY <1>2
    <2>2. parents[p].paid \in Seq(Share)
      BY DEF TypeOK
    <2>3. PICK paid \in Seq(Share) : paid = parents[p].paid
      BY <2>2
    <2>4. PICK kind \in {"Income", "Expense"} : kind = PaidBack
      BY KindsTyped
    <2> DEFINE new == [i \in 1..Len(paid) |->
               [kind |-> kind, account |-> paid[i].account, amount |-> paid[i].amount, doc |-> doc]]
    <2>5. entries' = entries \o new
      BY <1>4, <2>1, <2>3, <2>4 DEF AnnulParent
    <2>6. new \in Seq(Entry)
      BY EntriesOfTyped
    <2> HIDE DEF new
    <2> QED BY <2>5, <2>6, AddedOnly
  <1>5. ASSUME NEW p \in Parent, NEW a \in Account, NEW amount \in PayAmount,
               PayParent(p, a, amount)
        PROVE  EntriesAdded
    <2>1. PICK doc \in Reference : doc = <<p>>
      BY <1>2
    <2>2. PICK kind \in {"Income", "Expense"} : kind = PaidForth
      BY KindsTyped
    <2>3. PICK e : e = [kind |-> kind, account |-> a, amount |-> amount, doc |-> doc]
      OBVIOUS
    <2>4. e \in Entry
      BY <2>3, ReturnsAssumption DEF Entry
    <2>5. entries' = Append(entries, e)
      BY <1>5, <2>1, <2>2, <2>3 DEF PayParent
    <2> QED BY <2>4, <2>5, OneAdded
  <1>6. ASSUME NEW product \in Tracked, NEW delta \in HandMove, MoveByHand(product, delta)
        PROVE  EntriesAdded
    BY <1>6, AddedOnly DEF MoveByHand
  <1>7. ASSUME NEW a \in Account, NEW amount \in PayAmount, SpendByHand(a, amount)
        PROVE  EntriesAdded
    <2>1. PICK e : e = [kind |-> "Expense", account |-> a, amount |-> amount, doc |-> NoNumber]
      OBVIOUS
    <2>2. e \in Entry
      BY <1>3, <2>1, ReturnsAssumption DEF Entry
    <2>3. entries' = Append(entries, e)
      BY <1>7, <2>1 DEF SpendByHand
    <2> QED BY <2>2, <2>3, OneAdded
  <1> QED BY <1>1, <1>4, <1>5, <1>6, <1>7 DEF Beside

(* A confirm links the transactions it posts in the same unit. *)
LEMMA ConfirmPosts ==
    ASSUME Sound, Posted, NEW r \in Request, ConfirmUnit(r)
    PROVE  EntriesAdded /\ LinksStep /\ HoldersStep /\ UNCHANGED family
  <1>1. entries \in Seq(Entry) /\ Len(entries) \in Nat /\ TypeOK
    BY LenProperties DEF Sound, TypeOK
  <1>2. PICK q, number :
            /\ q = req[r] /\ UnitOf(q, number) /\ q.plan \in Seq(Share)
            /\ q.return \in 1..Len(returns)
            /\ number \in Number /\ number \in Reference
            /\ Becomes(r, Idle) /\ UNCHANGED family
    BY UnitIs
  <1>3. PICK plan \in Seq(Share) : plan = q.plan
    BY <1>2
  <1>4. PICK k \in Nat \ {0} : k = q.return
    BY <1>2
  <1>5. PICK kind \in {"Income", "Expense"} : kind = PaidBack
    BY KindsTyped
  <1>6. returns'[k].number = number
    <2>1. returns \in Seq(Return) /\ returns[k] \in Return
      BY <1>2, <1>4, RowsTyped DEF Sound
    <2>2. returns' = [returns EXCEPT ![k] = [returns[k] EXCEPT !.status = "Confirmed",
                                                               !.number = number]]
      BY <1>2, <1>4 DEF UnitOf
    <2> QED BY <1>2, <1>4, <2>1, <2>2 DEF Return
  <1> DEFINE new == [i \in 1..Len(plan) |->
             [kind |-> kind, account |-> plan[i].account, amount |-> plan[i].amount,
              doc |-> number]]
             rows == RowsOf(k, plan, Len(entries))
  <1>7. entries' = entries \o new /\ refunds' = refunds \o rows
    BY <1>2, <1>3, <1>4, <1>5 DEF UnitOf
  <1>8. new \in Seq(Entry) /\ Len(new) = Len(plan)
    <2>1. new \in Seq(Entry)
      BY <1>2, EntriesOfTyped
    <2>2. Len(plan) \in Nat
      BY LenProperties
    <2> QED BY <2>1, <2>2
  <1>9. \A i \in 1..Len(plan) :
            new[i] = [kind |-> kind, account |-> plan[i].account, amount |-> plan[i].amount,
                      doc |-> number]
    OBVIOUS
  <1>10. /\ rows \in Seq(Refund) /\ Len(rows) = Len(plan)
         /\ \A i \in 1..Len(plan) :
                rows[i] = [return |-> k, account |-> plan[i].account, amount |-> plan[i].amount,
                           tx |-> Len(entries) + i, back |-> 0]
    BY <1>1, RowsOfTyped
  <1> HIDE DEF new, rows
  <1>11. EntriesAdded
    BY <1>1, <1>7, <1>8, AddedOnly
  <1>12. /\ Len(entries') = Len(entries) + Len(plan) /\ Len(plan) \in Nat
         /\ \A i \in 1..Len(plan) : entries'[Len(entries) + i] = new[i]
    <2>1. PICK s \in Seq(Entry) : s = new
      BY <1>8
    <2>2. entries \in Seq(Entry)
      BY <1>1
    <2>3. /\ Len(entries \o s) = Len(entries) + Len(s) /\ Len(s) \in Nat
          /\ \A i \in 1..Len(s) : (entries \o s)[Len(entries) + i] = s[i]
      BY <2>2, RowsConcatenated
    <2>4. entries' = entries \o s /\ Len(s) = Len(plan)
      BY <1>7, <1>8, <2>1
    <2> QED BY <2>1, <2>3, <2>4
  <1>13. HoldersStep
    BY <1>1, <1>2, EndsUnheld
  <1>14. ASSUME NEW i \in 1..Len(rows)
         PROVE  /\ rows[i].back = 0 /\ rows[i].tx = Len(entries) + i
                /\ Linkable(rows[i].tx, Paying(rows[i], PaidBack, returns'))
    <2>1. /\ rows[i] = [return |-> k, account |-> plan[i].account, amount |-> plan[i].amount,
                        tx |-> Len(entries) + i, back |-> 0]
          /\ new[i] = [kind |-> kind, account |-> plan[i].account, amount |-> plan[i].amount,
                       doc |-> number]
          /\ i \in 1..Len(plan) /\ i \in Nat \ {0}
      BY <1>9, <1>10, <1>12
    <2>2. rows[i].back = 0 /\ rows[i].tx = Len(entries) + i
      BY <2>1
    <2>3. Paying(rows[i], PaidBack, returns') = new[i]
      BY <1>5, <1>6, <2>1 DEF Paying
    <2>4. /\ Len(entries) + i # 0 /\ Len(entries) + i \in 1..Len(entries')
          /\ entries'[Len(entries) + i] = new[i]
      BY <1>1, <1>12, <2>1
    <2>5. Unreferenced(Len(entries) + i)
      BY <2>1, NewUnreferenced
    <2>6. ASSUME NEW o \in Request, req'[o].step = "link" PROVE req'[o].tx # Len(entries) + i
      <3>1. o # r /\ req'[o] = req[o]
        BY <1>1, <1>2, <2>6 DEF Becomes, TypeOK, Idle
      <3>2. req[o].tx \in 1..Len(entries)
        BY <2>6, <3>1 DEF Posted
      <3> QED BY <1>1, <2>1, <3>1, <3>2
    <2>7. Linkable(Len(entries) + i, new[i])
      BY <2>4, <2>5, <2>6 DEF Linkable
    <2> QED BY <2>2, <2>3, <2>7
  <1>15. LinksStep
    BY <1>7, <1>10, <1>14 DEF LinksStep
  <1> QED BY <1>2, <1>11, <1>13, <1>15

(* A transaction posted for a request is the one it holds. *)
LEMMA PostedHeld ==
    ASSUME TypeOK, NEW r \in Request, NEW st, Becomes(r, st), st.tx = Len(entries) + 1,
           NEW e \in Entry, entries' = Append(entries, e), UNCHANGED refunds,
           e = Claimed(st, refunds, returns')
    PROVE  EntriesAdded /\ LinksStep /\ HoldersStep
  <1>1. /\ EntriesAdded /\ Len(entries) + 1 \in 1..Len(entries')
        /\ entries'[Len(entries) + 1] = e
    BY OneAdded
  <1>2. req'[r] = st /\ \A o \in Request : o # r => req'[o] = req[o]
    BY DEF TypeOK, Becomes
  <1>3. HoldersStep
    BY <1>1, <1>2 DEF HoldersStep
  <1> QED BY <1>1, <1>3 DEF LinksStep

(* A reversal. *)
LEMMA ReversalPosts ==
    ASSUME Sound, Posted, NEW r \in Request, PayForth(r) \/ LinkBack(r)
    PROVE  EntriesAdded /\ LinksStep /\ HoldersStep /\ UNCHANGED family
  <1>1. PICK q : q = req[r]
    OBVIOUS
  <1>2. TypeOK /\ q.step \in Cancelling /\ q.pays # {} /\ UNCHANGED family
    BY <1>1 DEF Sound, Holds, Cancelling, PayForth, LinkBack
  <1>3. /\ q.pays \in SUBSET Nat /\ q.return \in 1..Len(returns)
        /\ \A i \in q.pays : i \in 1..Len(refunds) /\ refunds[i].return = q.return
    BY <1>1, <1>2, RequestShape DEF Sound, Typed, Relies, Holds
  <1>4. PICK i : i = First(q.pays)
    OBVIOUS
  <1>5. i \in 1..Len(refunds) /\ refunds[i].return = q.return
    BY <1>2, <1>3, <1>4, FirstIn
  <1>6. refunds \in Seq(Refund) /\ refunds[i] \in Refund
    BY <1>2, <1>5, ElementOfSeq DEF TypeOK
  <1>7. PICK kind \in {"Income", "Expense"} : kind = PaidForth
    BY KindsTyped
  <1>8. CASE PayForth(r)
    <2>1. PICK e : e = [kind |-> kind, account |-> refunds[i].account,
                        amount |-> refunds[i].amount, doc |-> returns[q.return].number]
      OBVIOUS
    <2>2. PICK st : st = [step |-> "link", return |-> q.return, lines |-> {}, pays |-> q.pays,
                          tx |-> Len(entries) + 1]
      OBVIOUS
    <2>3. /\ entries' = Append(entries, e) /\ UNCHANGED refunds /\ returns' = returns
          /\ Becomes(r, st)
      BY <1>1, <1>4, <1>7, <1>8, <2>1, <2>2 DEF PayForth
    <2>4. e \in Entry
      <3>1. returns[q.return] \in Return
        BY <1>3, RowsTyped DEF Sound
      <3>2. returns[q.return].number \in Reference
        BY <3>1 DEF Return, Reference
      <3> QED BY <1>6, <2>1, <3>2 DEF Refund, Entry
    <2>5. e = Claimed(st, refunds, returns') /\ st.tx = Len(entries) + 1
      BY <1>4, <1>7, <2>1, <2>2, <2>3 DEF Claimed
    <2> QED BY <1>2, <2>3, <2>4, <2>5, PostedHeld
  <1>9. CASE LinkBack(r)
    <2>1. /\ q.step = "link" /\ entries' = entries /\ returns' = returns
          /\ refunds' = [refunds EXCEPT ![i] = [refunds[i] EXCEPT !.back = q.tx]]
      BY <1>1, <1>4, <1>9 DEF LinkBack
    <2>2. q.tx \in Nat \ {0}
      BY <1>1, <1>2, <2>1, RequestShape
    <2>3. Paying(refunds[i], PaidForth, returns') = Claimed(q, refunds, returns)
      BY <1>4, <1>5, <2>1 DEF Paying, Claimed
    <2>4. /\ q.tx \in 1..Len(entries) /\ entries[q.tx] = Claimed(q, refunds, returns)
          /\ Unreferenced(q.tx)
      BY <1>1, <2>1 DEF Posted
    <2>5. PICK st : st = [step |-> "reverse", return |-> q.return, lines |-> {},
                          pays |-> q.pays \ {i}]
      OBVIOUS
    <2>6. Becomes(r, st) /\ st.step # "link"
      BY <1>1, <1>4, <1>9, <2>5 DEF LinkBack
    <2>7. ASSUME NEW o \in Request, req'[o].step = "link" PROVE req'[o].tx # q.tx
      <3>1. req'[r] = st /\ \A p \in Request : p # r => req'[p] = req[p]
        BY <1>2, <2>6 DEF Becomes, TypeOK
      <3>2. o # r /\ req[r].step = "link"
        BY <1>1, <2>1, <2>6, <2>7, <3>1
      <3> QED BY <1>1, <2>7, <3>1, <3>2 DEF Posted
    <2>8. Linkable(q.tx, Paying(refunds[i], PaidForth, returns'))
      BY <2>1, <2>2, <2>3, <2>4, <2>7 DEF Linkable
    <2> QED BY <1>2, <1>5, <2>1, <2>2, <2>6, <2>8, AddedOnly, MovesUnheld DEF LinksStep
  <1> QED BY <1>8, <1>9

(* The steps of a request that touch neither transactions nor refunds. *)
LEMMA OthersUnheld ==
    ASSUME Sound, NEW r \in Request,
           \/ ReverseLine(r) \/ CancelClose(r) \/ Quit(r)
           \/ \E k \in 1..Len(returns) : ConfirmRead(r, k) \/ CancelRead(r, k)
    PROVE  EntriesAdded /\ LinksStep /\ HoldersStep /\ UNCHANGED family
  <1>1. TypeOK /\ UNCHANGED <<family, entries, refunds>>
    BY DEF Sound, ReverseLine, CancelClose, Quit, ConfirmRead, CancelRead, Unwritten
  <1>2. EntriesAdded /\ LinksStep
    BY <1>1, AddedOnly DEF LinksStep
  <1>3. CASE CancelClose(r) \/ Quit(r)
    BY <1>1, <1>2, <1>3, EndsUnheld DEF CancelClose, Quit
  <1>4. CASE ReverseLine(r)
    <2>1. PICK q : q = req[r]
      OBVIOUS
    <2>2. q = [step |-> "reverse", return |-> q.return, lines |-> q.lines, pays |-> q.pays]
      BY <1>4, <2>1 DEF ReverseLine, Sound, Typed, Relies
    <2>3. PICK left : left = q.lines \ {First(q.lines)}
      OBVIOUS
    <2>4. PICK st : st = [q EXCEPT !.lines = left]
      OBVIOUS
    <2>5. st.step # "link"
      BY <2>2, <2>4, LineTaken
    <2>6. Becomes(r, st)
      BY <1>4, <2>1, <2>3, <2>4 DEF ReverseLine
    <2> QED BY <1>1, <1>2, <2>5, <2>6, MovesUnheld
  <1>5. ASSUME NEW k \in 1..Len(returns), ConfirmRead(r, k) \/ CancelRead(r, k)
        PROVE  HoldersStep
    <2>1. PICK plan : plan = RefundPlan(Worth(returns[k].lines), parents[returns[k].parent].paid)
      OBVIOUS
    <2>2. PICK lines : lines = {i \in 1..Len(returns[k].lines) :
                                   Sold[returns[k].lines[i].sold].product \in Tracked}
      OBVIOUS
    <2>3. PICK st, stt : /\ st = [step |-> "confirm", return |-> k, seen |-> returns[k],
                                  plan |-> plan]
                         /\ stt = [step |-> "reverse", return |-> k, pays |-> RefundsOf(k),
                                   lines |-> lines]
      OBVIOUS
    <2>4. st.step # "link" /\ stt.step # "link"
      BY <2>3
    <2>5. Becomes(r, st) \/ Becomes(r, stt)
      BY <1>5, <2>1, <2>2, <2>3 DEF ConfirmRead, CancelRead
    <2> QED BY <1>1, <2>4, <2>5, MovesUnheld
  <1> QED BY <1>1, <1>2, <1>3, <1>4, <1>5

(* Posted is inductive. *)
LEMMA PostedStep == Sound /\ Posted /\ [Next]_vars => Posted'
  <1> SUFFICES ASSUME Sound, Posted, [Next]_vars PROVE Posted'
    OBVIOUS
  <1>1. Sound' /\ TypeOK
    BY SoundStep DEF Sound
  <1>2. RecordsKept
    BY StepOnTable, TableFrozen DEF Sound
  <1>3. ASSUME UNCHANGED <<family, entries, refunds, req>> PROVE Posted'
    <2>1. EntriesAdded /\ LinksStep /\ HoldersStep
      BY <1>1, <1>3, AddedOnly DEF LinksStep, HoldersStep
    <2> QED BY <1>1, <1>2, <1>3, <2>1, PostedKept
  <1>4. CASE Beside
    <2>1. EntriesAdded /\ UNCHANGED <<family, refunds, req>>
      BY <1>1, <1>4, BesidePosts
    <2>2. LinksStep /\ HoldersStep
      BY <2>1 DEF LinksStep, HoldersStep
    <2> QED BY <1>1, <1>2, <2>1, <2>2, PostedKept
  <1>5. ASSUME NEW r \in Request,
               \/ Works(r) \/ Quit(r)
               \/ \E k \in 1..Len(returns) : ConfirmRead(r, k) \/ CancelRead(r, k)
        PROVE  Posted'
    <2>1. EntriesAdded /\ LinksStep /\ HoldersStep /\ UNCHANGED family
      BY <1>5, ConfirmPosts, ReversalPosts, OthersUnheld DEF Works
    <2> QED BY <1>1, <1>2, <2>1, PostedKept
  <1>6. CASE Drafting
    <2>1. UNCHANGED <<family, entries, refunds, req>>
      BY <1>6, DraftingWrites
    <2> QED BY <1>3, <2>1
  <1>7. CASE UNCHANGED vars
    BY <1>3, <1>7 DEF vars
  <1> QED BY <1>4, <1>5, <1>6, <1>7 DEF Next

(* Every refund row keeps a transaction of its own under its return's      *)
(* number, and every reversed one another, of its account and amount,      *)
(* although the reversal is linked after it was posted, with the work of   *)
(* other requests, and other cancels of the return, in between.            *)
THEOREM ReturnRefundsPosted == Spec => []RefundsPosted
  <1>1. Init => Posted
    BY DEF Init, Posted, RefundsPosted, Idle
  <1>2. Spec => []Posted
    BY <1>1, PostedStep, AlwaysSound, PTL DEF Spec
  <1>3. Posted => RefundsPosted
    BY DEF Posted
  <1> QED BY <1>2, <1>3, PTL

-----------------------------------------------------------------------------
(* What a refund plan pays.                                                *)

(* Spreading a total over figures, first to last, gives each what is left  *)
(* up to the figure, and all of them the total or all there is.            *)
LEMMA SpreadSum ==
    ASSUME NEW n \in Nat, NEW total \in Nat, NEW w, NEW v, \A i \in 1..n : w[i] \in Nat,
           \A i \in 1..n :
               v[i] = IF SumOver(w, i - 1) < total THEN Least(w[i], total - SumOver(w, i - 1)) ELSE 0
    PROVE  SumOver(v, n) = Least(SumOver(w, n), total)
  <1> DEFINE S == {m \in Nat : m <= n => SumOver(v, m) = Least(SumOver(w, m), total)}
  <1>1. 0 \in S
    <2>1. SumOver(v, 0) = 0 /\ SumOver(w, 0) = 0
      BY SumOverStep
    <2> QED BY <2>1 DEF Least
  <1>2. ASSUME NEW m \in Nat, m \in S PROVE m + 1 \in S
    <2> SUFFICES ASSUME m + 1 <= n
                 PROVE  SumOver(v, m + 1) = Least(SumOver(w, m + 1), total)
      OBVIOUS
    <2>1. SumOver(v, m) = Least(SumOver(w, m), total)
      BY <1>2
    <2>2. /\ SumOver(v, m + 1) = SumOver(v, m) + v[m + 1]
          /\ SumOver(w, m + 1) = SumOver(w, m) + w[m + 1]
      BY SumOverStep
    <2>3. PICK before \in Nat : before = SumOver(w, m)
      BY SumOverNat
    <2>4. m + 1 \in 1..n /\ (m + 1) - 1 = m
      OBVIOUS
    <2>5. PICK figure \in Nat : figure = w[m + 1]
      BY <2>4
    <2>6. v[m + 1] = IF before < total THEN Least(figure, total - before) ELSE 0
      BY <2>3, <2>4, <2>5
    <2>7. PICK next, sum : next = v[m + 1] /\ sum = SumOver(v, m)
      OBVIOUS
    <2>8. sum = IF before <= total THEN before ELSE total
      BY <2>1, <2>3, <2>7 DEF Least
    <2>9. next = IF before < total THEN (IF figure <= total - before THEN figure ELSE total - before)
                 ELSE 0
      BY <2>6, <2>7 DEF Least
    <2>10. sum + next = IF before + figure <= total THEN before + figure ELSE total
      BY <2>8, <2>9
    <2> QED BY <2>2, <2>3, <2>5, <2>7, <2>10 DEF Least
  <1> HIDE DEF S
  <1>3. S = Nat
    <2>1. S \in SUBSET Nat
      BY DEF S
    <2> QED BY <1>1, <1>2, <2>1, InductionBySet
  <1>4. n \in S
    BY <1>3
  <1> QED BY <1>4 DEF S

(* A refund plan pays back the worth, or all that was collected. *)
LEMMA PlanSum ==
    ASSUME NEW paid \in Seq(Share), NEW worth \in Nat, NEW plan, plan = RefundPlan(worth, paid)
    PROVE  AmountOf(plan, Len(plan)) = Least(AmountOf(paid, Len(paid)), worth)
  <1> DEFINE Part == [account : Account, amount : Int]
             all == [i \in 1..Len(paid) |->
                        [paid[i] EXCEPT !.amount = Least(@, worth - AmountOf(paid, i - 1))]]
             ids == {i \in 1..Len(paid) : AmountOf(paid, i - 1) < worth}
             f == [part \in Part |-> part.amount]
             w == [i \in 1..Len(paid) |-> paid[i].amount]
             v == [i \in 1..Len(paid) |->
                      IF AmountOf(paid, i - 1) < worth
                      THEN Least(paid[i].amount, worth - AmountOf(paid, i - 1)) ELSE 0]
  <1>1. Len(paid) \in Nat
    OBVIOUS
  <1>2. ASSUME NEW i \in 1..Len(paid)
        PROVE  /\ w[i] \in Nat /\ all[i] \in Part
               /\ f[all[i]] = Least(paid[i].amount, worth - AmountOf(paid, i - 1))
    <2>1. PICK share \in Share : share = paid[i]
      BY ElementOfSeq
    <2>2. share.account \in Account /\ share.amount \in Nat
      BY DEF Share
    <2>3. PICK before \in Nat : before = AmountOf(paid, i - 1)
      <3>1. i - 1 \in Nat /\ i - 1 <= Len(paid)
        BY LenProperties
      <3> QED BY <3>1, AmountOfNat
    <2>4. PICK left : left = Least(share.amount, worth - before)
      OBVIOUS
    <2>5. left \in Int
      BY <2>2, <2>4 DEF Least
    <2>6. all[i] = [account |-> share.account, amount |-> left]
      BY <2>1, <2>3, <2>4 DEF Share
    <2>7. all[i] \in Part
      BY <2>2, <2>5, <2>6
    <2>8. f[all[i]] = left
      BY <2>6, <2>7
    <2> HIDE DEF all, f
    <2> QED BY <2>1, <2>2, <2>3, <2>4, <2>7, <2>8
  <1>3. all \in Seq(Part) /\ Len(all) = Len(paid)
    <2>1. \A i \in 1..Len(paid) : all[i] \in Part
      BY <1>2
    <2>2. all \in Seq(Part)
      <3> HIDE DEF Part
      <3> QED BY <1>1, <2>1, IsASeq
    <2> QED BY <1>1, <2>2
  <1>4. f \in [Part -> Int]
    OBVIOUS
  <1>5. RefundPlan(worth, paid) = Picked(all, ids)
    BY DEF RefundPlan
  <1>6. \A i \in 1..Len(paid) : v[i] = IF i \in ids THEN f[all[i]] ELSE 0
    BY <1>2
  <1>7. \A n : AmountOf(paid, n) = SumOver(w, n)
    BY DEF AmountOf
  <1>8. \A i \in 1..Len(paid) :
            v[i] = IF SumOver(w, i - 1) < worth THEN Least(w[i], worth - SumOver(w, i - 1)) ELSE 0
    BY <1>7
  <1>9. plan \in Seq(Share)
    BY RefundPlanTyped
  <1>10. ASSUME NEW i \in 1..Len(plan) PROVE plan[i].amount = f[plan[i]]
    <2>1. PICK share \in Share : share = plan[i]
      BY <1>9, ElementOfSeq
    <2>2. share \in Part
      BY DEF Share
    <2> QED BY <2>1, <2>2
  <1> HIDE DEF all, ids, f, Part, w, v
  <1>11. RowSum(f, plan) = PickedSum(f, all, ids)
    BY <1>3, <1>4, <1>5, PickedRowSum
  <1>12. SumOver(v, Len(all)) = PickedSum(f, all, ids)
    BY <1>3, <1>6, PickedIs
  <1>13. SumOver(v, Len(paid)) = Least(SumOver(w, Len(paid)), worth)
    BY <1>1, <1>2, <1>8, SpreadSum
  <1>14. AmountOf(plan, Len(plan)) = RowSum(f, plan)
    <2> DEFINE u == [i \in 1..Len(plan) |-> plan[i].amount]
    <2>1. \A i \in 1..Len(plan) : u[i] = f[plan[i]]
      BY <1>10
    <2>2. AmountOf(plan, Len(plan)) = SumOver(u, Len(plan))
      BY DEF AmountOf
    <2> HIDE DEF u
    <2> QED BY <1>9, <2>1, <2>2, RowSumIs
  <1> QED BY <1>3, <1>7, <1>11, <1>12, <1>13, <1>14

(* Where what is returned is worth no more than was collected, the plan    *)
(* pays its worth, or nothing where nothing was collected.                 *)
LEMMA PlanPays ==
    ASSUME Sound, NEW k \in 1..Len(returns), WithinCollected(k),
           NEW paid, paid = parents[returns[k].parent].paid,
           NEW worth, worth = Worth(returns[k].lines),
           NEW plan, plan = RefundPlan(worth, paid)
    PROVE  /\ plan \in Seq(Share) /\ worth \in Nat
           /\ AmountOf(plan, Len(plan)) \in {0, worth}
  <1>1. returns[k].lines \in Seq(Line) /\ returns[k].parent \in Parent
    BY RowsTyped DEF Sound, Return
  <1>2. paid \in Seq(Share)
    BY <1>1 DEF Sound, TypeOK
  <1>3. worth \in Nat
    BY <1>1, WorthNat
  <1>4. PICK collected \in Nat : collected = AmountOf(paid, Len(paid))
    <2>1. Len(paid) \in Nat
      BY <1>2
    <2> QED BY <1>2, <2>1, AmountOfNat
  <1>5. collected > 0 => worth <= collected
    BY <1>4 DEF WithinCollected, Collected
  <1>6. AmountOf(plan, Len(plan)) = Least(collected, worth)
    BY <1>2, <1>3, <1>4, PlanSum
  <1>7. AmountOf(plan, Len(plan)) \in {0, worth}
    BY <1>3, <1>5, <1>6 DEF Least
  <1>8. plan \in Seq(Share)
    BY <1>2, <1>3, RefundPlanTyped
  <1> QED BY <1>3, <1>7, <1>8

-----------------------------------------------------------------------------
(* One request at a time.                                                  *)

\* One request is under way at most.
Alone == \A r, o \in Request : req[r] # Idle /\ req[o] # Idle => r = o

\* What q has read is still true.
Stands(q) ==
    /\ q.step = "confirm" =>
           /\ returns[q.return] = q.seen /\ q.seen.status = "Draft"
           /\ \A i \in 1..Len(q.seen.lines) : WithinParent(q.seen.lines[i])
           /\ AmountOf(q.plan, Len(q.plan)) \in {0, Worth(q.seen.lines)}
    /\ q.step \in Cancelling => returns[q.return].status = "Confirmed"

Held == \A r \in Request : Stands(req[r])

\* No request but r is under way.
Sole(r) == \A o \in Request : o # r => req[o] = Idle

Starts(r) == \E k \in 1..Len(returns) : ConfirmRead(r, k) \/ CancelRead(r, k)

(* Every step is of one request, the only one, or of none. *)
LEMMA SerialCases ==
    ASSUME OneAtATime, Alone, Typed, [Next]_vars
    PROVE  \/ UNCHANGED vars
           \/ (\A r \in Request : req[r] = Idle) /\ UNCHANGED req /\ (Drafting \/ Beside)
           \/ \E r \in Request : Sole(r) /\ Starts(r)
           \/ \E r \in Request : Sole(r) /\ (Works(r) \/ Quit(r))
  <1>1. ASSUME NEW r \in Request, Starts(r) PROVE Sole(r)
    BY <1>1 DEF Starts, ConfirmRead, CancelRead, Free, Quiet, Sole
  <1>2. ASSUME NEW r \in Request, Works(r) \/ Quit(r) PROVE Sole(r)
    <2>1. req[r] # Idle
      <3>1. Works(r) => req[r].step # "idle"
        BY DEF Works, ConfirmUnit, ReverseLine, PayForth, LinkBack, CancelClose
      <3>2. Idle.step = "idle"
        BY DEF Idle
      <3> QED BY <1>2, <3>1, <3>2 DEF Quit
    <2> QED BY <2>1 DEF Alone, Sole
  <1>3. Drafting \/ Beside => Quiet /\ UNCHANGED req
    <2>1. Beside => Quiet /\ UNCHANGED req
      BY DEF Beside, AnnulParent, PayParent, MoveByHand, SpendByHand
    <2> QED BY <2>1, DraftingWrites
  <1>4. Quiet => \A r \in Request : req[r] = Idle
    BY DEF Quiet
  <1> QED BY <1>1, <1>2, <1>3, <1>4 DEF Next, Starts

(* The one request under way moves on to what holds. *)
LEMMA SoleMoves ==
    ASSUME Typed, NEW r \in Request, Sole(r), NEW st, Becomes(r, st), Stands(st)'
    PROVE  Alone' /\ Held'
  <1>1. req' = [o \in Request |-> IF o = r THEN st ELSE req[o]]
    BY DEF Becomes, Typed
  <1>2. req'[r] = st /\ \A o \in Request : o # r => req'[o] = Idle
    BY <1>1 DEF Sole
  <1>3. Alone'
    BY <1>2 DEF Alone
  <1>4. Stands(Idle)'
    BY DEF Stands, Idle, Cancelling
  <1>5. Held'
    <2> SUFFICES ASSUME NEW o \in Request PROVE Stands(req[o])'
      BY DEF Held
    <2>1. PICK q : q = req'[o]
      OBVIOUS
    <2>2. Stands(q)'
      BY <1>2, <1>4, <2>1
    <2> QED BY <2>1, <2>2 DEF Stands
  <1> QED BY <1>3, <1>5

(* A request that has ended holds nothing. *)
LEMMA SoleEnds ==
    ASSUME Typed, NEW r \in Request, Sole(r), Becomes(r, Idle)
    PROVE  Alone' /\ Held'
  <1>1. Stands(Idle)'
    BY DEF Stands, Idle, Cancelling
  <1> QED BY <1>1, SoleMoves

(* What is taken of a parent line is said by the returns alone. *)
LEMMA StandsStays ==
    ASSUME UNCHANGED returns, NEW q, Stands(q)
    PROVE  Stands(q)'
  <1>1. \A i : Taken(i)' = Taken(i)
    BY DEF Taken, QtyOf
  <1>2. \A line : WithinParent(line)' = WithinParent(line)
    BY <1>1 DEF WithinParent
  <1> QED BY <1>2 DEF Stands

(* A request begins with what it has just read. *)
LEMMA StartsHeld ==
    ASSUME Sound, NEW r \in Request, Sole(r), Starts(r)
    PROVE  Alone' /\ Held'
  <1>1. PICK k \in 1..Len(returns) : ConfirmRead(r, k) \/ CancelRead(r, k)
    BY DEF Starts
  <1>2. Typed /\ UNCHANGED returns
    BY <1>1 DEF Sound, ConfirmRead, CancelRead, Unwritten
  <1>3. CASE ConfirmRead(r, k)
    <2>1. PICK seen, paid, worth : /\ seen = returns[k]
                                   /\ paid = parents[returns[k].parent].paid
                                   /\ worth = Worth(returns[k].lines)
      OBVIOUS
    <2>2. PICK plan : plan = RefundPlan(worth, paid)
      OBVIOUS
    <2>3. PICK st : st = [step |-> "confirm", return |-> k, seen |-> seen, plan |-> plan]
      OBVIOUS
    <2>4. Becomes(r, st)
      BY <1>3, <2>1, <2>2, <2>3 DEF ConfirmRead
    <2>5. AmountOf(plan, Len(plan)) \in {0, worth}
      BY <1>3, <2>1, <2>2, PlanPays DEF ConfirmRead
    <2>6. seen.status = "Draft" /\ \A i \in 1..Len(seen.lines) : WithinParent(seen.lines[i])
      BY <1>3, <2>1 DEF ConfirmRead, Is
    <2>7. Stands(st)
      BY <2>1, <2>3, <2>5, <2>6 DEF Stands, Cancelling
    <2>8. Stands(st)'
      BY <1>2, <2>7, StandsStays
    <2> QED BY <1>2, <2>4, <2>8, SoleMoves
  <1>4. CASE CancelRead(r, k)
    <2>1. PICK lines : lines = {i \in 1..Len(returns[k].lines) :
                                   Sold[returns[k].lines[i].sold].product \in Tracked}
      OBVIOUS
    <2>2. PICK st : st = [step |-> "reverse", return |-> k, pays |-> RefundsOf(k), lines |-> lines]
      OBVIOUS
    <2>3. Becomes(r, st) /\ returns[k].status = "Confirmed"
      BY <1>4, <2>1, <2>2 DEF CancelRead, Is
    <2>4. Stands(st)
      BY <2>2, <2>3 DEF Stands, Cancelling
    <2>5. Stands(st)'
      BY <1>2, <2>4, StandsStays
    <2> QED BY <1>2, <2>3, <2>5, SoleMoves
  <1> QED BY <1>1, <1>3, <1>4

(* The request under way goes on from what holds to what holds. *)
LEMMA WorksHeld ==
    ASSUME Sound, Held, NEW r \in Request, Sole(r), Works(r) \/ Quit(r)
    PROVE  Alone' /\ Held'
  <1>1. PICK q : q = req[r]
    OBVIOUS
  <1>2. Relies(q, returns) /\ Stands(q) /\ Typed
    BY <1>1 DEF Sound, Typed, Held
  <1>3. CASE ConfirmUnit(r) \/ CancelClose(r) \/ Quit(r)
    BY <1>2, <1>3, SoleEnds DEF ConfirmUnit, CancelClose, Quit
  <1>4. ASSUME NEW st, Becomes(r, st), st.step \in Cancelling, q.step \in Cancelling,
               st.return = q.return, UNCHANGED returns
        PROVE  Alone' /\ Held'
    <2>1. returns'[st.return].status = "Confirmed"
      BY <1>2, <1>4 DEF Stands
    <2>2. Stands(st)'
      BY <1>4, <2>1 DEF Stands, Cancelling
    <2> QED BY <1>2, <1>4, <2>2, SoleMoves
  <1>5. ASSUME ReverseLine(r) PROVE Alone' /\ Held'
    <2>1. PICK left, st : left = q.lines \ {First(q.lines)} /\ st = [q EXCEPT !.lines = left]
      OBVIOUS
    <2>2. q.step = "reverse" /\ Becomes(r, st) /\ UNCHANGED returns
      BY <1>1, <1>5, <2>1 DEF ReverseLine
    <2>3. q = [step |-> "reverse", return |-> q.return, lines |-> q.lines, pays |-> q.pays]
      BY <1>2, <2>2 DEF Relies
    <2>4. st = [step |-> "reverse", return |-> q.return, lines |-> left, pays |-> q.pays]
      BY <2>1, <2>3, LineTaken
    <2>5. st.step = "reverse" /\ st.return = q.return
      BY <2>4
    <2> QED BY <1>4, <2>2, <2>5 DEF Cancelling
  <1>6. ASSUME PayForth(r) PROVE Alone' /\ Held'
    <2>1. PICK st : st = [step |-> "link", return |-> q.return, lines |-> {}, pays |-> q.pays,
                          tx |-> Len(entries) + 1]
      OBVIOUS
    <2>2. q.step = "reverse" /\ Becomes(r, st) /\ UNCHANGED returns
      BY <1>1, <1>6, <2>1 DEF PayForth
    <2>3. st.step = "link" /\ st.return = q.return
      BY <2>1
    <2> QED BY <1>4, <2>2, <2>3 DEF Cancelling
  <1>7. ASSUME LinkBack(r) PROVE Alone' /\ Held'
    <2>1. PICK st : st = [step |-> "reverse", return |-> q.return, lines |-> {},
                          pays |-> q.pays \ {First(q.pays)}]
      OBVIOUS
    <2>2. q.step = "link" /\ Becomes(r, st) /\ UNCHANGED returns
      BY <1>1, <1>7, <2>1 DEF LinkBack
    <2>3. st.step = "reverse" /\ st.return = q.return
      BY <2>1
    <2> QED BY <1>4, <2>2, <2>3 DEF Cancelling
  <1> QED BY <1>3, <1>5, <1>6, <1>7 DEF Works

(* Where requests are served one at a time, one is under way at most, and  *)
(* what it has read holds until it has answered: its return is the one it  *)
(* saw, every line of it is within its parent, its plan pays its worth.    *)
LEMMA HeldStep == OneAtATime /\ Sound /\ Alone /\ Held /\ [Next]_vars => Alone' /\ Held'
  <1> SUFFICES ASSUME OneAtATime, Sound, Alone, Held, [Next]_vars PROVE Alone' /\ Held'
    OBVIOUS
  <1>1. CASE UNCHANGED vars
    <2>1. UNCHANGED returns /\ UNCHANGED req
      BY <1>1 DEF vars
    <2>2. Held'
      <3> SUFFICES ASSUME NEW o \in Request PROVE Stands(req[o])'
        BY DEF Held
      <3>1. PICK q : q = req[o] /\ Stands(q)
        BY DEF Held
      <3>2. Stands(q)'
        BY <2>1, <3>1, StandsStays
      <3>3. q = req'[o]
        BY <2>1, <3>1
      <3> QED BY <3>2, <3>3 DEF Stands
    <2> QED BY <2>1, <2>2 DEF Alone
  <1>2. CASE (\A r \in Request : req[r] = Idle) /\ UNCHANGED req
    <2>1. Stands(Idle)'
      BY DEF Stands, Idle, Cancelling
    <2>2. Held'
      <3> SUFFICES ASSUME NEW o \in Request PROVE Stands(req[o])'
        BY DEF Held
      <3>1. PICK q : q = req'[o]
        OBVIOUS
      <3>2. Stands(q)'
        BY <1>2, <2>1, <3>1
      <3> QED BY <3>1, <3>2 DEF Stands
    <2> QED BY <1>2, <2>2 DEF Alone
  <1>3. Typed
    BY DEF Sound
  <1> QED BY <1>1, <1>2, <1>3, SerialCases, StartsHeld, WorksHeld

LEMMA HeldInit == Init => Alone /\ Held
  <1> SUFFICES ASSUME Init PROVE Alone /\ Held
    OBVIOUS
  <1>1. \A r \in Request : req[r] = Idle
    BY DEF Init
  <1>2. Stands(Idle)
    BY DEF Stands, Idle, Cancelling
  <1>3. Held
    <2> SUFFICES ASSUME NEW r \in Request PROVE Stands(req[r])
      BY DEF Held
    <2> QED BY <1>1, <1>2
  <1> QED BY <1>1, <1>3 DEF Alone

LEMMA AlwaysHeld == OneAtATime => (Spec => [](Alone /\ Held))
  <1>1. CASE OneAtATime
    <2>1. Sound /\ Alone /\ Held /\ [Next]_vars => Alone' /\ Held'
      BY <1>1, HeldStep
    <2> QED BY <2>1, HeldInit, AlwaysSound, PTL DEF Spec
  <1> QED BY <1>1

-----------------------------------------------------------------------------
(* What a step does to the returns and the ledgers.                        *)

\* A confirm: of a draft, as it is, under a number of its own.
Confirms(k, number, plan) ==
    /\ k \in 1..Len(returns) /\ returns[k].status = "Draft" /\ ~ Numbered(k)
    /\ number \in Number /\ number # NoNumber
    /\ \A t \in 1..Len(returns) : returns[t].number # number
    /\ \A i \in 1..Len(returns[k].lines) : WithinParent(returns[k].lines[i])
    /\ plan \in Seq(Share) /\ AmountOf(plan, Len(plan)) \in {0, Worth(returns[k].lines)}
    /\ moves' = moves \o MovesOf(returns[k].lines, number)
    /\ refunds' = refunds \o RowsOf(k, plan, Len(entries))
    /\ returns' = [returns EXCEPT ![k] =
                      [returns[k] EXCEPT !.status = "Confirmed", !.number = number]]
    /\ UNCHANGED family

\* No return is confirmed, and a numbered one keeps its number and lines.
ReturnsQuiet ==
    /\ Len(returns') = Len(returns) \/ Len(returns') = Len(returns) + 1
    /\ \A k \in 1..Len(returns) :
           /\ returns'[k].number = returns[k].number
           /\ Numbered(k) => returns'[k].lines = returns[k].lines
           /\ returns'[k].status = "Confirmed" => returns[k].status = "Confirmed"
           /\ returns[k].status = "Cancelled" /\ Numbered(k) => returns'[k].status = "Cancelled"
    /\ \A k \in 1..Len(returns') :
           k \in 1..Len(returns) \/ (returns'[k].number = NoNumber /\ returns'[k].status = "Draft")

\* What moves by hand or with a parent: nothing under the number of a return.
MovedBeside ==
    \E new \in Seq(Move) :
        /\ moves' = moves \o new
        /\ \A i \in 1..Len(new) : new[i].doc = NoNumber \/ new[i].doc \in {<<p>> : p \in Parent}

(* What moves beside the returns, in rows. *)
LEMMA BesideMoves ==
    ASSUME TypeOK, Beside
    PROVE  UNCHANGED moves \/ MovedBeside
  <1>1. moves \in Seq(Move)
    BY DEF TypeOK
  <1>2. ASSUME NEW p \in Parent, AnnulParent(p) PROVE MovedBeside
    <2>1. PICK doc : doc = <<p>>
      OBVIOUS
    <2>2. PICK lines \in Seq(Line) : lines = LinesOf(p)
      BY LinesOfTyped
    <2>3. PICK new : new = MovesOf(lines, doc)
      OBVIOUS
    <2>4. moves' = moves \o new
      BY <1>2, <2>1, <2>2, <2>3 DEF AnnulParent
    <2>5. doc \in Reference
      BY <2>1 DEF Reference
    <2>6. new \in Seq(Move)
      BY <2>3, <2>5, MovesOfTyped
    <2>7. \A i \in 1..Len(new) : new[i].doc = doc
      <3>1. PICK out : out = TrackedLines(lines)
        OBVIOUS
      <3>2. out \in Seq(TrackedLine) /\ Len(out) \in Nat
        BY <3>1, TrackedLinesTyped
      <3>3. new = [i \in 1..Len(out) |-> MoveOf(out[i], doc)]
        BY <2>3, <3>1 DEF MovesOf
      <3>4. Len(new) = Len(out)
        BY <3>2, <3>3
      <3> QED BY <3>3, <3>4 DEF MoveOf
    <2> QED BY <2>1, <2>4, <2>6, <2>7 DEF MovedBeside
  <1>3. ASSUME NEW product \in Tracked, NEW delta \in HandMove, MoveByHand(product, delta)
        PROVE  MovedBeside
    <2>1. PICK move : move = [product |-> product, delta |-> delta, doc |-> NoNumber]
      OBVIOUS
    <2>2. move \in Move /\ move.doc = NoNumber
      BY <2>1, ReturnsAssumption DEF Move, Reference, Number
    <2>3. moves' = Append(moves, move)
      BY <1>3, <2>1 DEF MoveByHand
    <2>4. PICK new : new = <<move>>
      OBVIOUS
    <2>5. new \in Seq(Move) /\ Len(new) = 1 /\ new[1] = move
      BY <2>2, <2>4
    <2>6. moves' = moves \o new
      BY <1>1, <2>2, <2>3, <2>4
    <2>7. \A i \in 1..Len(new) : new[i].doc = NoNumber
      BY <2>2, <2>5
    <2> QED BY <2>5, <2>6, <2>7 DEF MovedBeside
  <1>4. ASSUME NEW p \in Parent, NEW a \in Account, NEW amount \in PayAmount,
               PayParent(p, a, amount) \/ SpendByHand(a, amount)
        PROVE  UNCHANGED moves
    BY <1>4 DEF PayParent, SpendByHand
  <1>5. ASSUME NEW a \in Account, NEW amount \in PayAmount, SpendByHand(a, amount)
        PROVE  UNCHANGED moves
    BY <1>5 DEF SpendByHand
  <1> QED BY <1>2, <1>3, <1>4, <1>5 DEF Beside

(* A step confirms, or leaves the sequences, and moves, reverses or links  *)
(* at most.                                                                *)
LEMMA ConfirmsOrNot ==
    ASSUME TypeOK, [Next]_vars
    PROVE  /\ UNCHANGED family
           /\ \/ \E r \in Request : ConfirmUnit(r)
              \/ /\ UNCHANGED lastNumber
                 /\ UNCHANGED moves \/ MovedBeside \/ \E r \in Request : ReverseLine(r)
                 /\ UNCHANGED refunds \/ \E r \in Request : LinkBack(r)
  <1>1. UNCHANGED vars => UNCHANGED <<family, lastNumber, moves, refunds>>
    BY DEF vars
  <1>2. Drafting => UNCHANGED <<family, lastNumber, moves, refunds>>
    BY DraftingWrites
  <1>3. Beside => UNCHANGED <<family, lastNumber, refunds>>
    BY DEF Beside, AnnulParent, PayParent, MoveByHand, SpendByHand
  <1>4. ASSUME NEW r \in Request,
               Quit(r) \/ \E k \in 1..Len(returns) : ConfirmRead(r, k) \/ CancelRead(r, k)
        PROVE  UNCHANGED <<family, lastNumber, moves, refunds>>
    BY <1>4 DEF Quit, ConfirmRead, CancelRead, Unwritten
  <1>5. ASSUME NEW r \in Request, Works(r)
        PROVE  /\ UNCHANGED family
               /\ \/ ConfirmUnit(r)
                  \/ /\ UNCHANGED lastNumber
                     /\ UNCHANGED moves \/ ReverseLine(r)
                     /\ UNCHANGED refunds \/ LinkBack(r)
    BY <1>5 DEF Works, ConfirmUnit, ReverseLine, PayForth, LinkBack, CancelClose
  <1> QED BY <1>1, <1>2, <1>3, <1>4, <1>5, BesideMoves DEF Next

(* A step that leaves the sequences rewrites a row to one that is          *)
(* confirmed only where it was, with its lines.                            *)
LEMMA QuietRewrite ==
    ASSUME Sound, UNCHANGED lastNumber, NEW k \in 1..Len(returns), NEW x \in Return,
           Rewritten(k, x)
    PROVE  /\ x.number = returns[k].number
           /\ Numbered(k) => x.lines = returns[k].lines
           /\ x.status = "Confirmed" => returns[k].status = "Confirmed"
           /\ returns[k].status = "Cancelled" /\ Numbered(k) => x.status = "Cancelled"
  <1>1. PICK old \in Return : old = returns[k]
    BY RowsTyped DEF Sound
  <1>2. old.status = "Draft" => ~ Numbered(k)
    BY <1>1 DEF Sound, Typed, Numbered
  <1>3. \/ old.status = "Draft" /\ x = [old EXCEPT !.lines = x.lines]
        \/ ~ Numbered(k) /\ x = [old EXCEPT !.status = "deleted", !.lines = <<>>]
        \/ x = [old EXCEPT !.year = x.year]
        \/ x = [old EXCEPT !.status = "Cancelled"]
    <2>1. lastNumber \in [Year -> Nat]
      BY DEF Sound, TypeOK
    <2>2. ASSUME NEW y \in Year, lastNumber' = [lastNumber EXCEPT ![y] = @ + 1] PROVE FALSE
      <3>1. lastNumber'[y] = lastNumber[y] + 1 /\ lastNumber[y] \in Nat
        BY <2>1, <2>2
      <3> QED BY <3>1
    <2> QED BY <1>1, <2>2 DEF Rewritten, Numbered
  <1> QED BY <1>1, <1>2, <1>3 DEF Return

(* A step that leaves the sequences confirms nothing. *)
LEMMA QuietTable ==
    ASSUME Sound, TableStep, UNCHANGED lastNumber
    PROVE  ReturnsQuiet
  <1>1. /\ returns \in Seq(Return) /\ Len(returns) \in Nat
        /\ \A k \in 1..Len(returns) : returns[k] \in Return
    BY RowsTyped DEF Sound
  <1>2. CASE UNCHANGED returns
    BY <1>1, <1>2 DEF ReturnsQuiet
  <1>3. ASSUME NEW x \in Return, x.number = NoNumber, x.status = "Draft",
               returns' = Append(returns, x)
        PROVE  ReturnsQuiet
    <2>1. /\ Len(returns') = Len(returns) + 1 /\ returns'[Len(returns) + 1] = x
          /\ \A k \in 1..Len(returns) : returns'[k] = returns[k]
      BY <1>1, <1>3
    <2>2. \A k \in 1..Len(returns') : k \in 1..Len(returns) \/ returns'[k] = x
      BY <1>1, <2>1
    <2> QED BY <1>1, <1>3, <2>1, <2>2 DEF ReturnsQuiet
  <1>4. ASSUME NEW k \in 1..Len(returns), NEW x \in Return,
               returns' = [returns EXCEPT ![k] = x], Rewritten(k, x)
        PROVE  ReturnsQuiet
    <2>1. /\ Len(returns') = Len(returns) /\ returns'[k] = x
          /\ \A t \in 1..Len(returns) : t # k => returns'[t] = returns[t]
      BY <1>1, <1>4, ExceptSeq
    <2>2. /\ x.number = returns[k].number
          /\ Numbered(k) => x.lines = returns[k].lines
          /\ x.status = "Confirmed" => returns[k].status = "Confirmed"
          /\ returns[k].status = "Cancelled" /\ Numbered(k) => x.status = "Cancelled"
      BY <1>4, QuietRewrite
    <2> QED BY <1>1, <2>1, <2>2 DEF ReturnsQuiet
  <1> QED BY <1>2, <1>3, <1>4 DEF TableStep

(* The numbers of the returns are those of their documents. *)
LEMMA NumbersOfReturns ==
    ASSUME Sound, Document!NumbersInOrder
    PROVE  \A k \in 1..Len(returns) : Numbered(k) =>
               \E y \in Year : \E n \in 1..lastNumber[y] : returns[k].number = <<y, n>>
  <1>1. Len(docs) = Len(returns) /\ \A k \in 1..Len(returns) : docs[k].number = returns[k].number
    <2>1. Len(docs) = Len(returns) /\ \A k \in 1..Len(returns) : docs[k] = AsDocument(returns[k])
      BY DocsNow DEF Sound, TypeOK
    <2>2. \A x : AsDocument(x).number = x.number
      BY DEF AsDocument
    <2> QED BY <2>1, <2>2
  <1>2. Document!NoNumber = NoNumber
    BY DEF Document!NoNumber, NoNumber
  <1>3. \A k \in 1..Len(docs) : docs[k].number # NoNumber =>
            \E y \in Year : \E n \in 1..lastNumber[y] : docs[k].number = <<y, n>>
    BY <1>2 DEF Document!NumbersInOrder
  <1> QED BY <1>1, <1>3 DEF Numbered

(* Where a confirm works from what is there, it confirms it as it is. *)
LEMMA ConfirmsRead ==
    ASSUME Sound, Held, Document!NumbersInOrder, NEW r \in Request, ConfirmUnit(r)
    PROVE  \E k, number, plan : Confirms(k, number, plan)
  <1>1. PICK q, number :
              /\ q = req[r] /\ number = NextNumber(q.seen.year) /\ UnitOf(q, number)
              /\ q.seen \in Return /\ q.plan \in Seq(Share)
              /\ q.step = "confirm" /\ q.return \in 1..Len(returns)
              /\ number \in Number /\ number # NoNumber
              /\ UNCHANGED family
    BY UnitIs
  <1>2. Stands(q)
    BY <1>1 DEF Held
  <1>3. PICK k, seen, plan : k = q.return /\ seen = q.seen /\ plan = q.plan
    OBVIOUS
  <1>4. /\ k \in 1..Len(returns) /\ seen = returns[k] /\ seen \in Return /\ seen.status = "Draft"
        /\ \A i \in 1..Len(seen.lines) : WithinParent(seen.lines[i])
        /\ AmountOf(plan, Len(plan)) \in {0, Worth(seen.lines)}
    BY <1>1, <1>2, <1>3 DEF Stands
  <1>5. ~ Numbered(k)
    BY <1>4 DEF Sound, Typed, Numbered
  <1>6. PICK year \in Year : year = seen.year
    BY <1>4 DEF Return
  <1>7. PICK n \in Nat : n = lastNumber[year]
    BY <1>6 DEF Sound, TypeOK
  <1>8. number = <<year, n + 1>>
    BY <1>1, <1>3, <1>6, <1>7 DEF NextNumber
  <1>9. ASSUME NEW t \in 1..Len(returns) PROVE returns[t].number # number
    <2> SUFFICES ASSUME returns[t].number = number PROVE FALSE
      OBVIOUS
    <2>1. PICK y \in Year : \E m \in 1..lastNumber[y] : returns[t].number = <<y, m>>
      BY <1>1, NumbersOfReturns DEF Numbered
    <2>2. PICK m \in 1..lastNumber[y] : number = <<y, m>>
      BY <2>1
    <2>3. y = year /\ m = n + 1
      BY <1>8, <2>2
    <2> QED BY <1>7, <2>2, <2>3
  <1>10. /\ moves' = moves \o MovesOf(seen.lines, number)
         /\ refunds' = refunds \o RowsOf(k, plan, Len(entries))
         /\ returns' = [returns EXCEPT ![k] =
                           [returns[k] EXCEPT !.status = "Confirmed", !.number = number]]
    BY <1>1, <1>3 DEF UnitOf
  <1>11. Confirms(k, number, plan)
    BY <1>1, <1>3, <1>4, <1>5, <1>9, <1>10 DEF Confirms
  <1> QED BY <1>11

(* What a confirm leaves in the table. *)
LEMMA ConfirmedTable ==
    ASSUME Sound, NEW k, NEW number, NEW plan, Confirms(k, number, plan)
    PROVE  /\ k \in 1..Len(returns) /\ returns[k] \in Return /\ returns[k].lines \in Seq(Line)
           /\ Len(returns') = Len(returns)
           /\ returns'[k].status = "Confirmed" /\ returns'[k].number = number
           /\ returns'[k].lines = returns[k].lines
           /\ \A t \in 1..Len(returns) : t # k => returns'[t] = returns[t]
           /\ \E x \in Return : /\ x.status = "Confirmed" /\ x.lines = returns[k].lines
                                /\ returns' = [returns EXCEPT ![k] = x]
  <1>1. returns \in Seq(Return) /\ k \in 1..Len(returns)
    BY DEF Confirms, Sound, TypeOK
  <1>2. PICK old \in Return : old = returns[k]
    BY <1>1, ElementOfSeq
  <1>3. PICK x : x = [old EXCEPT !.status = "Confirmed", !.number = number]
    OBVIOUS
  <1>4. /\ x \in Return /\ x.status = "Confirmed" /\ x.number = number /\ x.lines = old.lines
        /\ old.lines \in Seq(Line)
    BY <1>3 DEF Return, Confirms
  <1>5. returns' = [returns EXCEPT ![k] = x]
    BY <1>2, <1>3 DEF Confirms
  <1>6. /\ Len(returns') = Len(returns) /\ returns'[k] = x
        /\ \A t \in 1..Len(returns) : t # k => returns'[t] = returns[t]
    BY <1>1, <1>5
  <1> QED BY <1>1, <1>2, <1>4, <1>5, <1>6

-----------------------------------------------------------------------------
(* Returns take no more than their parents have.                           *)

\* No two lines are of one parent line.
Apart(lines) == \A i, j \in 1..Len(lines) : i # j => lines[i].sold # lines[j].sold

Distinct == \A k \in 1..Len(returns) : Apart(returns[k].lines)

(* Editing keeps the lines of a return apart. *)
LEMMA EditsApart ==
    ASSUME NEW lines \in Seq(Line), Apart(lines)
    PROVE  /\ \A line \in Line : (\A i \in 1..Len(lines) : lines[i].sold # line.sold) =>
                                     Apart(Append(lines, line))
           /\ \A i \in 1..Len(lines) : \A qty \in Nat \ {0} :
                  Apart([lines EXCEPT ![i] = [@ EXCEPT !.qty = qty]])
           /\ \A i \in 1..Len(lines) : Apart(RemoveAt(lines, i))
  <1>1. Len(lines) \in Nat
    OBVIOUS
  <1>2. ASSUME NEW line \in Line, \A i \in 1..Len(lines) : lines[i].sold # line.sold
        PROVE  Apart(Append(lines, line))
    <2>1. PICK s : s = Append(lines, line)
      OBVIOUS
    <2>2. /\ Len(s) = Len(lines) + 1
          /\ \A i \in 1..Len(lines) + 1 :
                IF i \in 1..Len(lines) THEN s[i] = lines[i] ELSE i = Len(lines) + 1 /\ s[i] = line
      BY <2>1, RowAppended
    <2>3. Apart(s)
      BY <1>2, <2>2 DEF Apart
    <2> QED BY <2>1, <2>3
  <1>3. ASSUME NEW i \in 1..Len(lines), NEW qty \in Nat \ {0}
        PROVE  Apart([lines EXCEPT ![i] = [@ EXCEPT !.qty = qty]])
    <2>1. PICK line \in Line : line = lines[i]
      BY ElementOfSeq
    <2>2. PICK x : x = [line EXCEPT !.qty = qty]
      OBVIOUS
    <2>3. x.sold = line.sold
      BY <2>2 DEF Line
    <2>4. PICK s : s = [lines EXCEPT ![i] = x]
      OBVIOUS
    <2>5. /\ Len(s) = Len(lines)
          /\ \A j \in 1..Len(lines) : s[j].sold = lines[j].sold
      BY <2>1, <2>3, <2>4
    <2>6. Apart(s)
      BY <2>5 DEF Apart
    <2> QED BY <2>1, <2>2, <2>4, <2>6
  <1>4. ASSUME NEW i \in 1..Len(lines) PROVE Apart(RemoveAt(lines, i))
    <2>1. PICK s : s = RemoveAt(lines, i)
      OBVIOUS
    <2>2. PICK a, b : a = SubSeq(lines, 1, i - 1) /\ b = SubSeq(lines, i + 1, Len(lines))
      OBVIOUS
    <2>3. /\ a \in Seq(Line) /\ b \in Seq(Line) /\ s = a \o b
          /\ Len(a) = i - 1 /\ Len(b) = Len(lines) - i
          /\ \A j \in 1..i - 1 : a[j] = lines[j]
          /\ \A j \in 1..Len(lines) - i : b[j] = lines[i + j]
      <3>1. s = a \o b
        BY <2>1, <2>2 DEF RemoveAt
      <3>2. PICK n \in Nat : n = Len(lines)
        BY <1>1
      <3>3. \A j \in 1..n : lines[j] \in Line
        BY <3>2, ElementOfSeq
      <3>4. i \in 1..n /\ i - 1 \in Int /\ i + 1 \in Int /\ 1 \in Int /\ n \in Int
        BY <3>2
      <3>5. /\ a \in Seq(Line) /\ Len(a) = IF 1 <= i - 1 THEN i - 1 - 1 + 1 ELSE 0
            /\ \A j \in 1..i - 1 - 1 + 1 : a[j] = lines[1 + j - 1]
        <4>1. \A j \in 1..i - 1 : lines[j] \in Line
          BY <3>3, <3>4
        <4> QED BY <2>2, <3>4, <4>1, SubSeqProperties
      <3>6. /\ b \in Seq(Line) /\ Len(b) = IF i + 1 <= n THEN n - (i + 1) + 1 ELSE 0
            /\ \A j \in 1..n - (i + 1) + 1 : b[j] = lines[i + 1 + j - 1]
        <4>1. \A j \in i + 1..n : lines[j] \in Line
          BY <3>3, <3>4
        <4> QED BY <2>2, <3>2, <3>4, <4>1, SubSeqProperties
      <3>7. Len(a) = i - 1 /\ Len(b) = n - i
        BY <3>4, <3>5, <3>6
      <3>8. \A j \in 1..i - 1 : a[j] = lines[j]
        <4> SUFFICES ASSUME NEW j \in 1..i - 1 PROVE a[j] = lines[j]
          OBVIOUS
        <4>1. j \in 1..i - 1 - 1 + 1 /\ 1 + j - 1 = j
          BY <3>4
        <4> QED BY <3>5, <4>1
      <3>9. \A j \in 1..n - i : b[j] = lines[i + j]
        <4> SUFFICES ASSUME NEW j \in 1..n - i PROVE b[j] = lines[i + j]
          OBVIOUS
        <4>1. j \in 1..n - (i + 1) + 1 /\ i + 1 + j - 1 = i + j
          BY <3>4
        <4> QED BY <3>6, <4>1
      <3> QED BY <3>1, <3>2, <3>5, <3>6, <3>7, <3>8, <3>9
    <2>4. Len(s) = Len(lines) - 1
      <3>1. PICK n \in Nat : n = Len(lines)
        BY <1>1
      <3>2. Len(a \o b) = Len(a) + Len(b)
        BY <2>3, ConcatProperties
      <3>3. Len(a) = i - 1 /\ Len(b) = n - i /\ s = a \o b /\ i \in 1..n
        BY <2>3, <3>1
      <3>4. Len(s) = (i - 1) + (n - i)
        BY <3>2, <3>3
      <3> QED BY <3>1, <3>3, <3>4
    <2>5. \A j \in 1..Len(s) : s[j] = IF j < i THEN lines[j] ELSE lines[j + 1]
      <3>1. PICK n \in Nat : n = Len(lines)
        BY <1>1
      <3> SUFFICES ASSUME NEW j \in 1..n - 1 PROVE s[j] = IF j < i THEN lines[j] ELSE lines[j + 1]
        BY <2>4, <3>1
      <3>2. \A m \in 1..Len(a) + Len(b) : (a \o b)[m] = IF m <= Len(a) THEN a[m] ELSE b[m - Len(a)]
        BY <2>3, ConcatProperties
      <3>3. s[j] = IF j <= i - 1 THEN a[j] ELSE b[j - (i - 1)]
        <4>1. j \in 1..Len(a) + Len(b)
          BY <2>3, <3>1
        <4> QED BY <2>3, <3>2, <4>1
      <3>4. CASE j < i
        BY <2>3, <3>1, <3>3, <3>4
      <3>5. CASE ~ (j < i)
        <4>1. j - (i - 1) \in 1..n - i /\ i + (j - (i - 1)) = j + 1 /\ ~ (j <= i - 1)
          BY <3>1, <3>5
        <4> QED BY <2>3, <3>1, <3>3, <3>5, <4>1
      <3> QED BY <3>4, <3>5
    <2>6. \A j, k \in 1..Len(s) : j # k => s[j].sold # s[k].sold
      <3> SUFFICES ASSUME NEW j \in 1..Len(s), NEW k \in 1..Len(s), j # k
                   PROVE  s[j].sold # s[k].sold
        OBVIOUS
      <3>1. PICK m \in 1..Len(lines) : m = IF j < i THEN j ELSE j + 1
        BY <1>1, <2>4
      <3>2. PICK n \in 1..Len(lines) : n = IF k < i THEN k ELSE k + 1
        BY <1>1, <2>4
      <3>3. m # n /\ s[j] = lines[m] /\ s[k] = lines[n]
        BY <2>5, <3>1, <3>2
      <3> QED BY <3>3 DEF Apart
    <2> QED BY <2>1, <2>6 DEF Apart
  <1> QED BY <1>2, <1>3, <1>4

(* No two lines of a return are ever of one parent line. *)
LEMMA DistinctStep == Sound /\ Distinct /\ [Next]_vars => Distinct'
  <1> SUFFICES ASSUME Sound, Distinct, [Next]_vars PROVE Distinct'
    OBVIOUS
  <1>1. /\ returns \in Seq(Return) /\ Len(returns) \in Nat
        /\ \A k \in 1..Len(returns) : returns[k] \in Return /\ returns[k].lines \in Seq(Line)
    BY RowsTyped DEF Sound
  <1>2. CASE UNCHANGED returns
    BY <1>2 DEF Distinct
  <1>3. ASSUME NEW k \in 1..Len(returns), NEW x, returns' = [returns EXCEPT ![k] = x],
               Apart(x.lines)
        PROVE  Distinct'
    <2>1. /\ Len(returns') = Len(returns) /\ returns'[k] = x
          /\ \A t \in 1..Len(returns) : t # k => returns'[t] = returns[t]
      BY <1>1, <1>3
    <2>2. \A t \in 1..Len(returns') : Apart(returns'[t].lines)
      BY <1>3, <2>1 DEF Distinct
    <2> QED BY <2>2 DEF Distinct, Apart
  <1>4. ASSUME NEW p \in Parent, NEW y \in Year, CreateDraft(p, y) PROVE Distinct'
    <2>1. PICK x : x = [status |-> "Draft", number |-> NoNumber, parent |-> p, year |-> y,
                        lines |-> <<>>]
      OBVIOUS
    <2>2. returns' = Append(returns, x) /\ x.lines = <<>>
      BY <1>4, <2>1 DEF CreateDraft
    <2>3. /\ Len(returns') = Len(returns) + 1 /\ returns'[Len(returns) + 1] = x
          /\ \A t \in 1..Len(returns) : returns'[t] = returns[t]
      BY <1>1, <2>2
    <2>4. Apart(<<>>)
      BY DEF Apart
    <2>5. \A t \in 1..Len(returns') : Apart(returns'[t].lines)
      BY <1>1, <2>2, <2>3, <2>4 DEF Distinct
    <2> QED BY <2>5 DEF Distinct, Apart
  <1>5. ASSUME NEW k \in 1..Len(returns), NEW lines \in Seq(Line), Apart(lines),
               EditLines(k, lines)
        PROVE  Distinct'
    <2>1. PICK x : x = [returns[k] EXCEPT !.lines = lines]
      OBVIOUS
    <2>2. returns' = [returns EXCEPT ![k] = x] /\ x.lines = lines
      BY <1>1, <1>5, <2>1 DEF EditLines, Rewrite, Return
    <2> QED BY <1>3, <1>5, <2>2
  <1>6. ASSUME NEW k \in 1..Len(returns), NEW i \in 1..Len(Sold), NEW qty \in Qty,
               AddLine(k, [sold |-> i, qty |-> qty]) \/ UpdateLine(k, i, qty) \/ RemoveLine(k, i)
        PROVE  Distinct'
    <2>1. PICK old \in Seq(Line) : old = returns[k].lines
      BY <1>1
    <2>2. Apart(old)
      BY <2>1 DEF Distinct
    <2>3. PICK amount \in Nat \ {0} : amount = qty
      BY ReturnsAssumption
    <2>4. CASE AddLine(k, [sold |-> i, qty |-> qty])
      <3>1. PICK line \in Line : line = [sold |-> i, qty |-> amount]
        BY DEF Line
      <3>2. (\A j \in 1..Len(old) : old[j].sold # line.sold) /\ EditLines(k, Append(old, line))
        BY <2>1, <2>3, <2>4, <3>1 DEF AddLine
      <3>3. Apart(Append(old, line)) /\ Append(old, line) \in Seq(Line)
        BY <2>2, <3>2, EditsApart, AppendProperties
      <3> QED BY <1>5, <3>2, <3>3
    <2>5. CASE UpdateLine(k, i, qty)
      <3>1. PICK s : s = [old EXCEPT ![i] = [@ EXCEPT !.qty = amount]]
        OBVIOUS
      <3>2. i \in 1..Len(old) /\ EditLines(k, s)
        BY <2>1, <2>3, <2>5, <3>1 DEF UpdateLine
      <3>3. PICK line \in Line : line = old[i]
        BY <3>2, ElementOfSeq
      <3>4. PICK x \in Line : x = [line EXCEPT !.qty = amount]
        BY DEF Line
      <3>5. s = [old EXCEPT ![i] = x]
        BY <3>1, <3>3, <3>4
      <3>6. s \in Seq(Line)
        BY <3>2, <3>5, ExceptSeq
      <3>7. Apart(s)
        BY <2>2, <3>1, <3>2, EditsApart
      <3> QED BY <1>5, <3>2, <3>6, <3>7
    <2>6. CASE RemoveLine(k, i)
      <3>1. i \in 1..Len(old) /\ EditLines(k, RemoveAt(old, i))
        BY <2>1, <2>6 DEF RemoveLine
      <3>2. RemoveAt(old, i) \in Seq(Line)
        BY <3>1 DEF RemoveAt
      <3>3. Apart(RemoveAt(old, i))
        BY <2>2, <3>1, EditsApart
      <3> QED BY <1>5, <3>1, <3>2, <3>3
    <2> QED BY <1>6, <2>4, <2>5, <2>6
  <1>7. ASSUME NEW k \in 1..Len(returns),
               DeleteDraft(k) \/ Discard(k) \/ \E y \in Year : HeaderWrite(k, y)
        PROVE  Distinct'
    <2>1. PICK x : /\ returns' = [returns EXCEPT ![k] = x]
                   /\ x.lines = <<>> \/ x.lines = returns[k].lines
      <3>1. CASE DeleteDraft(k)
        <4>1. PICK x : x = [returns[k] EXCEPT !.status = "deleted", !.lines = <<>>]
          OBVIOUS
        <4>2. returns' = [returns EXCEPT ![k] = x] /\ x.lines = <<>>
          BY <1>1, <3>1, <4>1 DEF DeleteDraft, Rewrite, Return
        <4> QED BY <4>2
      <3>2. CASE Discard(k)
        <4>1. PICK x : x = [returns[k] EXCEPT !.status = "Cancelled"]
          OBVIOUS
        <4>2. returns' = [returns EXCEPT ![k] = x] /\ x.lines = returns[k].lines
          BY <1>1, <3>2, <4>1 DEF Discard, Rewrite, Return
        <4> QED BY <4>2
      <3>3. ASSUME NEW y \in Year, HeaderWrite(k, y)
            PROVE  \E x : returns' = [returns EXCEPT ![k] = x] /\ x.lines = returns[k].lines
        <4>1. PICK x : x = [returns[k] EXCEPT !.year = y]
          OBVIOUS
        <4>2. returns' = [returns EXCEPT ![k] = x] /\ x.lines = returns[k].lines
          BY <1>1, <3>3, <4>1 DEF HeaderWrite, Rewrite, Return
        <4> QED BY <4>2
      <3> QED BY <1>7, <3>1, <3>2, <3>3
    <2>2. Apart(<<>>) /\ Apart(returns[k].lines)
      BY DEF Apart, Distinct
    <2> QED BY <1>3, <2>1, <2>2
  <1>8. CASE Drafting
    BY <1>4, <1>6, <1>7, <1>8 DEF Drafting
  <1>9. ASSUME NEW r \in Request, Works(r) PROVE Distinct'
    <2>1. ASSUME NEW k, Rewrite(k, [returns[k] EXCEPT !.status = "Cancelled"]) PROVE Distinct'
      <3>1. CASE k \in 1..Len(returns)
        <4>1. PICK x : x = [returns[k] EXCEPT !.status = "Cancelled"]
          OBVIOUS
        <4>2. returns' = [returns EXCEPT ![k] = x] /\ x.lines = returns[k].lines
          BY <1>1, <2>1, <3>1, <4>1 DEF Rewrite, Return
        <4> QED BY <1>3, <3>1, <4>2 DEF Distinct
      <3>2. CASE k \notin 1..Len(returns)
        <4>1. returns' = returns
          BY <1>1, <2>1, <3>2 DEF Rewrite
        <4> QED BY <1>2, <4>1
      <3> QED BY <3>1, <3>2
    <2>2. CASE ConfirmUnit(r)
      <3>1. PICK q, number : UnitOf(q, number) /\ q.return \in 1..Len(returns)
        BY <2>2, UnitIs
      <3>2. PICK k \in 1..Len(returns) : k = q.return
        BY <3>1
      <3>3. PICK x : x = [returns[k] EXCEPT !.status = "Confirmed", !.number = number]
        OBVIOUS
      <3>4. returns' = [returns EXCEPT ![k] = x] /\ x.lines = returns[k].lines
        BY <1>1, <3>1, <3>2, <3>3 DEF UnitOf, Return
      <3> QED BY <1>3, <3>4 DEF Distinct
    <2>3. CASE CancelClose(r)
      <3>1. PICK k : k = req[r].return
        OBVIOUS
      <3>2. Rewrite(k, [returns[k] EXCEPT !.status = "Cancelled"])
        BY <2>3, <3>1 DEF CancelClose
      <3> QED BY <2>1, <3>2
    <2>4. CASE ReverseLine(r) \/ PayForth(r) \/ LinkBack(r)
      BY <1>2, <2>4 DEF ReverseLine, PayForth, LinkBack
    <2> QED BY <1>9, <2>2, <2>3, <2>4 DEF Works
  <1>10. ASSUME NEW r \in Request,
                Quit(r) \/ \E k \in 1..Len(returns) : ConfirmRead(r, k) \/ CancelRead(r, k)
         PROVE  Distinct'
    BY <1>2, <1>10 DEF Quit, ConfirmRead, CancelRead, Unwritten
  <1>11. CASE Beside
    BY <1>2, <1>11 DEF Beside, AnnulParent, PayParent, MoveByHand, SpendByHand
  <1>12. CASE UNCHANGED vars
    BY <1>2, <1>12 DEF vars
  <1> QED BY <1>8, <1>9, <1>10, <1>11, <1>12 DEF Next

LEMMA AlwaysDistinct == Spec => []Distinct
  <1>1. Init => Distinct
    BY DEF Init, Distinct
  <1> QED BY <1>1, DistinctStep, AlwaysSound, PTL DEF Spec

\* What a line takes of the parent line i.
OfLine(i) == [line \in Line |-> IF line.sold = i THEN line.qty ELSE 0]

\* What a return takes of it.
TakenFigure(i) == [x \in Return |-> IF x.status = "Confirmed" THEN QtyOf(x.lines, i) ELSE 0]

TakenIn(rows, i) == RowSum(TakenFigure(i), rows)

TakenOf(rows, i) ==
    SumOver([k \in 1..Len(rows) |->
        IF rows[k].status = "Confirmed" THEN QtyOf(rows[k].lines, i) ELSE 0], Len(rows))

(* What a list of lines takes is a natural number. *)
LEMMA QtyOfNat ==
    ASSUME NEW lines \in Seq(Line), NEW i
    PROVE  QtyOf(lines, i) \in Nat
  <1> DEFINE w == [k \in 1..Len(lines) |-> IF lines[k].sold = i THEN lines[k].qty ELSE 0]
  <1>1. \A k \in 1..Len(lines) : w[k] \in Nat
    <2> SUFFICES ASSUME NEW k \in 1..Len(lines) PROVE w[k] \in Nat
      OBVIOUS
    <2>1. lines[k] \in Line
      BY ElementOfSeq
    <2> QED BY <2>1, LineFacts
  <1>2. Len(lines) \in Nat
    OBVIOUS
  <1> HIDE DEF w
  <1>3. SumOver(w, Len(lines)) \in Nat
    BY <1>1, <1>2, SumOverNat
  <1> QED BY <1>3 DEF QtyOf, w

(* Where no two lines are of one parent line, what they take of it is what *)
(* the one that is of it takes, if any.                                    *)
LEMMA QtyOfApart ==
    ASSUME NEW lines \in Seq(Line), Apart(lines), NEW i
    PROVE  \/ QtyOf(lines, i) = 0
           \/ \E j \in 1..Len(lines) : lines[j].sold = i /\ QtyOf(lines, i) = lines[j].qty
  <1> DEFINE w == [k \in 1..Len(lines) |-> IF lines[k].sold = i THEN lines[k].qty ELSE 0]
             z == [k \in 1..Len(lines) |-> 0]
  <1>1. Len(lines) \in Nat
    OBVIOUS
  <1>2. \A k \in 1..Len(lines) : w[k] \in Int /\ z[k] \in Int
    <2> SUFFICES ASSUME NEW k \in 1..Len(lines) PROVE w[k] \in Int /\ z[k] \in Int
      OBVIOUS
    <2>1. lines[k] \in Line
      BY ElementOfSeq
    <2> QED BY <2>1, LineFacts
  <1>3. QtyOf(lines, i) = SumOver(w, Len(lines))
    BY DEF QtyOf
  <1>4. CASE \A j \in 1..Len(lines) : lines[j].sold # i
    <2>1. \A k \in 1..Len(lines) : w[k] = 0
      BY <1>4
    <2> HIDE DEF w
    <2>2. SumOver(w, Len(lines)) = 0
      BY <1>1, <2>1, SumOverZero
    <2> QED BY <1>3, <2>2
  <1>5. ASSUME NEW j \in 1..Len(lines), lines[j].sold = i
        PROVE  QtyOf(lines, i) = lines[j].qty
    <2>1. \A k \in 1..Len(lines) : k # j => w[k] = z[k]
      BY <1>5 DEF Apart
    <2>2. w[j] = lines[j].qty /\ z[j] = 0
      BY <1>5
    <2>3. \A k \in 1..Len(lines) : z[k] = 0
      OBVIOUS
    <2> HIDE DEF w, z
    <2>4. DifferAt(w, z, Len(lines), j)
      BY <1>1, <1>2, <2>1, SumOverUpdate
    <2>5. SumOver(z, Len(lines)) = 0
      BY <1>1, <2>3, SumOverZero
    <2>6. SumOver(w, Len(lines)) = SumOver(z, Len(lines)) - z[j] + w[j]
      BY <2>4 DEF DifferAt
    <2>7. w[j] \in Int
      BY <1>2
    <2> QED BY <1>3, <2>2, <2>5, <2>6, <2>7
  <1> QED BY <1>4, <1>5

(* What is taken is the sum of what each return takes. *)
LEMMA TakenIsSum ==
    ASSUME NEW rows \in Seq(Return), NEW i
    PROVE  /\ TakenOf(rows, i) = TakenIn(rows, i) /\ TakenIn(rows, i) \in Nat
           /\ TakenFigure(i) \in [Return -> Nat] /\ TakenFigure(i) \in [Return -> Int]
  <1> DEFINE f == TakenFigure(i)
             w == [k \in 1..Len(rows) |->
                     IF rows[k].status = "Confirmed" THEN QtyOf(rows[k].lines, i) ELSE 0]
  <1>1. f \in [Return -> Nat] /\ f \in [Return -> Int]
    <2>1. \A x \in Return : QtyOf(x.lines, i) \in Nat
      BY QtyOfNat DEF Return
    <2>2. f \in [Return -> Nat]
      BY <2>1 DEF TakenFigure
    <2>3. Nat \subseteq Int
      OBVIOUS
    <2> QED BY <2>2, <2>3
  <1>2. \A k \in 1..Len(rows) : w[k] = f[rows[k]]
    <2> SUFFICES ASSUME NEW k \in 1..Len(rows) PROVE w[k] = f[rows[k]]
      OBVIOUS
    <2>1. PICK x \in Return : x = rows[k]
      BY ElementOfSeq
    <2> QED BY <2>1 DEF TakenFigure
  <1> HIDE DEF w, f
  <1>3. SumOver(w, Len(rows)) = RowSum(f, rows)
    BY <1>2, RowSumIs
  <1>4. RowSum(f, rows) \in Nat
    BY <1>1, RowSumNat
  <1> QED BY <1>1, <1>3, <1>4 DEF TakenIn, TakenOf, f, w

(* So it is before and after a step. *)
LEMMA TakenNow ==
    ASSUME Sound, Sound', NEW i
    PROVE  /\ Taken(i) = TakenIn(returns, i) /\ Taken(i)' = TakenIn(returns', i)
           /\ TakenIn(returns, i) \in Nat /\ TakenIn(returns', i) \in Nat
  <1>1. returns \in Seq(Return) /\ returns' \in Seq(Return)
    BY DEF Sound, TypeOK
  <1>2. Taken(i) = TakenOf(returns, i) /\ Taken(i)' = TakenOf(returns', i)
    BY DEF Taken, TakenOf, QtyOf
  <1> QED BY <1>1, <1>2, TakenIsSum

(* Rewriting a row changes what is taken by what the row takes. *)
LEMMA TakenRewritten ==
    ASSUME NEW rows \in Seq(Return), NEW k \in 1..Len(rows), NEW x \in Return, NEW i
    PROVE  /\ TakenIn([rows EXCEPT ![k] = x], i) =
                  TakenIn(rows, i) - TakenFigure(i)[rows[k]] + TakenFigure(i)[x]
           /\ TakenFigure(i)[rows[k]] \in Nat /\ TakenFigure(i)[x] \in Nat
  <1>1. PICK f \in [Return -> Int] : f = TakenFigure(i)
    BY TakenIsSum
  <1>2. RowSum(f, [rows EXCEPT ![k] = x]) = RowSum(f, rows) - f[rows[k]] + f[x]
    BY RowSumRewrite
  <1>3. rows[k] \in Return
    BY ElementOfSeq
  <1>4. TakenFigure(i) \in [Return -> Nat]
    BY TakenIsSum
  <1> QED BY <1>1, <1>2, <1>3, <1>4 DEF TakenIn

(* A confirm takes what its lines take. *)
LEMMA TakenByConfirm ==
    ASSUME Sound, NEW k, NEW number, NEW plan, Confirms(k, number, plan), NEW i
    PROVE  /\ TakenIn(returns', i) = TakenIn(returns, i) + QtyOf(returns[k].lines, i)
           /\ QtyOf(returns[k].lines, i) \in Nat
  <1>1. returns \in Seq(Return) /\ k \in 1..Len(returns) /\ returns[k].status = "Draft"
    BY DEF Confirms, Sound, TypeOK
  <1>2. PICK old \in Return : old = returns[k]
    BY <1>1, ElementOfSeq
  <1>3. PICK x \in Return : /\ x.status = "Confirmed" /\ x.lines = returns[k].lines
                            /\ returns' = [returns EXCEPT ![k] = x]
    BY ConfirmedTable
  <1>4. TakenIn(returns', i) = TakenIn(returns, i) - TakenFigure(i)[old] + TakenFigure(i)[x]
    BY <1>1, <1>2, <1>3, TakenRewritten
  <1>5. TakenFigure(i)[old] = 0 /\ TakenFigure(i)[x] = QtyOf(old.lines, i)
    BY <1>1, <1>2, <1>3 DEF TakenFigure
  <1>6. old.lines \in Seq(Line)
    BY DEF Return
  <1>7. QtyOf(old.lines, i) \in Nat /\ TakenIn(returns, i) \in Nat
    BY <1>1, <1>6, QtyOfNat, TakenIsSum
  <1> QED BY <1>2, <1>4, <1>5, <1>7

(* A step that confirms nothing takes nothing. *)
LEMMA TakenOtherwise ==
    ASSUME Sound, TableStep, UNCHANGED lastNumber, NEW i
    PROVE  TakenIn(returns', i) <= TakenIn(returns, i)
  <1>1. returns \in Seq(Return) /\ TakenIn(returns, i) \in Nat
    BY TakenIsSum DEF Sound, TypeOK
  <1>2. CASE UNCHANGED returns
    BY <1>1, <1>2
  <1>3. ASSUME NEW x \in Return, x.status = "Draft", returns' = Append(returns, x)
        PROVE  TakenIn(returns', i) <= TakenIn(returns, i)
    <2>1. PICK f \in [Return -> Int] : f = TakenFigure(i)
      BY <1>1, TakenIsSum
    <2>2. RowSum(f, Append(returns, x)) = RowSum(f, returns) + f[x]
      BY <1>1, RowSumAppend
    <2>3. f[x] = 0
      BY <1>3, <2>1 DEF TakenFigure
    <2>4. TakenIn(returns', i) = TakenIn(returns, i) + 0
      BY <1>3, <2>1, <2>2, <2>3 DEF TakenIn
    <2> QED BY <1>1, <2>4
  <1>4. ASSUME NEW k \in 1..Len(returns), NEW x \in Return,
               returns' = [returns EXCEPT ![k] = x], Rewritten(k, x)
        PROVE  TakenIn(returns', i) <= TakenIn(returns, i)
    <2>1. PICK old \in Return : old = returns[k]
      BY <1>1, ElementOfSeq
    <2>2. PICK was, new \in Nat : was = TakenFigure(i)[old] /\ new = TakenFigure(i)[x]
      BY <1>1, <1>4, <2>1, TakenRewritten
    <2>3. TakenIn(returns', i) = TakenIn(returns, i) - was + new
      BY <1>1, <1>4, <2>1, <2>2, TakenRewritten
    <2>4. new <= was
      <3>1. CASE x.status # "Confirmed"
        BY <2>2, <3>1 DEF TakenFigure
      <3>2. CASE x.status = "Confirmed"
        <4>1. old.status = "Confirmed"
          BY <1>4, <2>1, <3>2, QuietRewrite
        <4>2. Numbered(k)
          BY <2>1, <4>1 DEF Sound, Typed, Numbered
        <4>3. x.lines = old.lines
          BY <1>4, <2>1, <4>2, QuietRewrite
        <4>4. new = was
          BY <2>2, <3>2, <4>1, <4>3 DEF TakenFigure
        <4> QED BY <2>2, <4>4
      <3> QED BY <3>1, <3>2
    <2> QED BY <1>1, <2>2, <2>3, <2>4
  <1> QED BY <1>2, <1>3, <1>4 DEF TableStep

(* No step takes more of a parent line than it has. *)
LEMMA WithinStep ==
    ASSUME Sound, Sound', Held, Distinct, Document!NumbersInOrder, WithinParents, [Next]_vars
    PROVE  WithinParents'
  <1>1. TableStep /\ TypeOK
    BY StepOnTable DEF Sound
  <1>2. ASSUME NEW i \in 1..Len(Sold) PROVE TakenIn(returns', i) <= Sold[i].qty
    <2>1. PICK was, after \in Nat : was = TakenIn(returns, i) /\ after = TakenIn(returns', i)
      BY TakenNow
    <2>2. PICK all \in Nat : all = Sold[i].qty
      BY ReturnsAssumption
    <2>3. was <= all
      BY <2>1, <2>2, TakenNow DEF WithinParents
    <2>4. CASE UNCHANGED lastNumber
      BY <1>1, <2>1, <2>2, <2>3, <2>4, TakenOtherwise
    <2>5. ASSUME NEW r \in Request, ConfirmUnit(r) PROVE after <= all
      <3>1. PICK k, number, plan : Confirms(k, number, plan)
        BY <2>5, ConfirmsRead
      <3>2. PICK lines \in Seq(Line) : lines = returns[k].lines
        BY <3>1, ConfirmedTable
      <3>3. Apart(lines)
        BY <3>1, <3>2 DEF Distinct, Confirms
      <3>4. PICK more \in Nat : more = QtyOf(lines, i) /\ after = was + more
        BY <2>1, <3>1, <3>2, TakenByConfirm
      <3>5. CASE more = 0
        BY <2>1, <2>2, <2>3, <3>4, <3>5
      <3>6. ASSUME NEW j \in 1..Len(lines), lines[j].sold = i, more = lines[j].qty
            PROVE  after <= all
        <4>1. WithinParent(lines[j])
          BY <3>1, <3>2 DEF Confirms
        <4>2. more <= all - was
          BY <2>1, <2>2, <3>6, <4>1, TakenNow DEF WithinParent
        <4> QED BY <2>1, <2>2, <3>4, <4>2
      <3> QED BY <3>2, <3>3, <3>4, <3>5, <3>6, QtyOfApart
    <2> QED BY <1>1, <2>1, <2>2, <2>4, <2>5, ConfirmsOrNot
  <1>3. \A i \in 1..Len(Sold) : Taken(i)' <= Sold[i].qty
    BY <1>2, TakenNow
  <1> QED BY <1>3 DEF WithinParents

(* Where requests are served one at a time, confirmed returns never take   *)
(* more of a parent line than it has, whatever drafts were open at once:   *)
(* what is left is read again for the confirm, no two lines of a return    *)
(* share a parent line, and nothing else is confirmed before it posts.     *)
THEOREM ReturnWithinParents == OneAtATime => (Spec => []WithinParents)
  <1>1. Init => WithinParents
    <2> SUFFICES ASSUME Init, NEW i \in 1..Len(Sold) PROVE Taken(i) <= Sold[i].qty
      BY DEF WithinParents
    <2>1. returns \in Seq(Return) /\ returns = <<>>
      BY EmptySeq DEF Init
    <2>2. Taken(i) = TakenIn(<<>>, i)
      <3>1. Taken(i) = TakenOf(returns, i)
        BY DEF Taken, TakenOf
      <3> QED BY <2>1, <3>1, TakenIsSum
    <2>3. PICK f \in [Return -> Int] : f = TakenFigure(i)
      BY <2>1, TakenIsSum
    <2>4. RowSum(f, <<>>) = 0
      BY RowSumInt
    <2>5. Taken(i) = 0
      BY <2>2, <2>3, <2>4 DEF TakenIn
    <2>6. Sold[i].qty \in Nat
      BY ReturnsAssumption
    <2> QED BY <2>5, <2>6
  <1>2. Sound /\ Sound' /\ Held /\ Distinct /\ Document!NumbersInOrder /\ WithinParents
            /\ [Next]_vars => WithinParents'
    BY WithinStep
  <1>3. CASE OneAtATime
    <2>1. Spec => [](Alone /\ Held)
      BY <1>3, AlwaysHeld
    <2> QED BY <1>1, <1>2, <2>1, AlwaysSound, AlwaysDistinct, ReturnNumbersDense, PTL DEF Spec
  <1> QED BY <1>3

-----------------------------------------------------------------------------
(* What is paid back on a return, as a sum of figures.                     *)

RefundFigure(k) == [pay \in Refund |-> IF pay.return = k THEN pay.amount ELSE 0]

RefundIn(rows, k) == RowSum(RefundFigure(k), rows)

RefundSum(rows, k) ==
    SumOver([i \in 1..Len(rows) |-> IF rows[i].return = k THEN rows[i].amount ELSE 0], Len(rows))

(* What is paid back is that sum. *)
LEMMA RefundIsSum ==
    ASSUME NEW rows \in Seq(Refund), NEW k
    PROVE  /\ RefundSum(rows, k) = RefundIn(rows, k)
           /\ RefundIn(rows, k) \in Nat
           /\ RefundFigure(k) \in [Refund -> Int]
  <1> DEFINE f == RefundFigure(k)
             w == [i \in 1..Len(rows) |-> IF rows[i].return = k THEN rows[i].amount ELSE 0]
  <1>1. f \in [Refund -> Nat] /\ f \in [Refund -> Int]
    <2>1. \A pay \in Refund : pay.amount \in Nat
      BY DEF Refund
    <2>2. f \in [Refund -> Nat]
      BY <2>1 DEF RefundFigure
    <2>3. Nat \subseteq Int
      OBVIOUS
    <2> QED BY <2>2, <2>3
  <1>2. \A i \in 1..Len(rows) : w[i] = f[rows[i]]
    <2> SUFFICES ASSUME NEW i \in 1..Len(rows) PROVE w[i] = f[rows[i]]
      OBVIOUS
    <2>1. PICK pay \in Refund : pay = rows[i]
      BY ElementOfSeq
    <2> QED BY <2>1 DEF RefundFigure
  <1> HIDE DEF w, f
  <1>3. SumOver(w, Len(rows)) = RowSum(f, rows)
    BY <1>2, RowSumIs
  <1>4. RowSum(f, rows) \in Nat
    BY <1>1, RowSumNat
  <1> QED BY <1>1, <1>3, <1>4 DEF RefundIn, RefundSum, f, w

(* So it is before and after a step. *)
LEMMA RefundNow ==
    ASSUME Sound, Sound', NEW k
    PROVE  /\ RefundedBy(k) = RefundIn(refunds, k) /\ RefundedBy(k)' = RefundIn(refunds', k)
           /\ RefundIn(refunds, k) \in Nat /\ RefundIn(refunds', k) \in Nat
           /\ refunds \in Seq(Refund) /\ refunds' \in Seq(Refund)
           /\ RefundFigure(k) \in [Refund -> Int]
  <1>1. refunds \in Seq(Refund) /\ refunds' \in Seq(Refund)
    BY DEF Sound, TypeOK
  <1>2. RefundedBy(k) = RefundSum(refunds, k) /\ RefundedBy(k)' = RefundSum(refunds', k)
    BY DEF RefundedBy, RefundSum
  <1> QED BY <1>1, <1>2, RefundIsSum

(* Nothing is paid back on a return without a number. *)
LEMMA RefundUnnumbered ==
    ASSUME Sound, NEW k, k \notin 1..Len(returns) \/ ~ Numbered(k)
    PROVE  RefundIn(refunds, k) = 0
  <1>1. refunds \in Seq(Refund)
    BY DEF Sound, TypeOK
  <1>2. \A i \in 1..Len(refunds) : RefundFigure(k)[refunds[i]] = 0
    <2> SUFFICES ASSUME NEW i \in 1..Len(refunds) PROVE RefundFigure(k)[refunds[i]] = 0
      OBVIOUS
    <2>1. PICK pay \in Refund : pay = refunds[i]
      BY <1>1, ElementOfSeq
    <2>2. pay.return # k
      BY <2>1 DEF Sound
    <2> QED BY <2>1, <2>2 DEF RefundFigure
  <1> QED BY <1>1, <1>2, RowSumZero DEF RefundIn

(* The rows of a plan pay back what the plan amounts to, on their return   *)
(* and on no other.                                                        *)
LEMMA RefundOfPlan ==
    ASSUME NEW k \in Nat \ {0}, NEW plan \in Seq(Share), NEW n \in Nat, NEW t
    PROVE  RefundIn(RowsOf(k, plan, n), t) = IF t = k THEN AmountOf(plan, Len(plan)) ELSE 0
  <1>1. PICK new \in Seq(Refund) :
            /\ new = RowsOf(k, plan, n) /\ Len(new) = Len(plan)
            /\ \A i \in 1..Len(plan) : new[i].return = k /\ new[i].amount = plan[i].amount
    <2>1. PICK new : new = RowsOf(k, plan, n)
      OBVIOUS
    <2>2. /\ new \in Seq(Refund) /\ Len(new) = Len(plan)
          /\ \A i \in 1..Len(plan) :
                new[i] = [return |-> k, account |-> plan[i].account, amount |-> plan[i].amount,
                          tx |-> n + i, back |-> 0]
      BY <2>1, RowsOfTyped
    <2>3. ASSUME NEW i \in 1..Len(plan) PROVE new[i].return = k /\ new[i].amount = plan[i].amount
      <3>1. PICK row : row = [return |-> k, account |-> plan[i].account, amount |-> plan[i].amount,
                              tx |-> n + i, back |-> 0]
        OBVIOUS
      <3>2. row.return = k /\ row.amount = plan[i].amount
        BY <3>1
      <3> QED BY <2>2, <3>1, <3>2
    <2> QED BY <2>1, <2>2, <2>3
  <1>2. RefundIn(new, t) = RefundSum(new, t) /\ Len(plan) \in Nat
    BY RefundIsSum
  <1>3. CASE t = k
    <2> DEFINE w == [i \in 1..Len(new) |-> IF new[i].return = t THEN new[i].amount ELSE 0]
               v == [i \in 1..Len(plan) |-> plan[i].amount]
    <2>1. \A i \in 1..Len(plan) : w[i] = v[i]
      BY <1>1, <1>3
    <2>2. RefundSum(new, t) = SumOver(w, Len(plan)) /\ AmountOf(plan, Len(plan)) = SumOver(v, Len(plan))
      BY <1>1 DEF RefundSum, AmountOf
    <2> HIDE DEF w, v
    <2>3. SumOver(w, Len(plan)) = SumOver(v, Len(plan))
      BY <1>2, <2>1, SumOverAgree
    <2> QED BY <1>1, <1>2, <1>3, <2>2, <2>3
  <1>4. CASE t # k
    <2> DEFINE w == [i \in 1..Len(new) |-> IF new[i].return = t THEN new[i].amount ELSE 0]
    <2>1. \A i \in 1..Len(plan) : w[i] = 0
      BY <1>1, <1>4
    <2>2. RefundSum(new, t) = SumOver(w, Len(plan))
      BY <1>1 DEF RefundSum
    <2> HIDE DEF w
    <2>3. SumOver(w, Len(plan)) = 0
      BY <1>2, <2>1, SumOverZero
    <2> QED BY <1>1, <1>2, <1>4, <2>2, <2>3
  <1> QED BY <1>3, <1>4

(* A confirm adds what its plan amounts to, to what its return pays back. *)
LEMMA RefundByConfirm ==
    ASSUME Sound, NEW k, NEW number, NEW plan, Confirms(k, number, plan), NEW t
    PROVE  RefundIn(refunds', t) =
               RefundIn(refunds, t) + (IF t = k THEN AmountOf(plan, Len(plan)) ELSE 0)
  <1>1. /\ refunds \in Seq(Refund) /\ entries \in Seq(Entry) /\ plan \in Seq(Share)
        /\ k \in 1..Len(returns) /\ returns \in Seq(Return)
    BY DEF Sound, TypeOK, Confirms
  <1>2. k \in Nat \ {0} /\ Len(entries) \in Nat
    <2>1. Len(entries) \in Nat /\ Len(returns) \in Nat
      BY <1>1
    <2> QED BY <1>1, <2>1
  <1>3. PICK new \in Seq(Refund) : new = RowsOf(k, plan, Len(entries))
    BY <1>1, <1>2, RowsOfTyped
  <1>4. RefundIn(new, t) = IF t = k THEN AmountOf(plan, Len(plan)) ELSE 0
    BY <1>1, <1>2, <1>3, RefundOfPlan
  <1>5. PICK f \in [Refund -> Int] : f = RefundFigure(t)
    BY <1>1, RefundIsSum
  <1>6. RowSum(f, refunds \o new) = RowSum(f, refunds) + RowSum(f, new)
    BY <1>1, RowSumConcat
  <1>7. refunds' = refunds \o new
    BY <1>3 DEF Confirms
  <1> QED BY <1>4, <1>5, <1>6, <1>7 DEF RefundIn

(* The row a reversal rewrites keeps its return and its amount. *)
LEMMA BackLinked ==
    ASSUME Sound, NEW r \in Request, LinkBack(r)
    PROVE  \E i \in 1..Len(refunds), pay \in Refund :
              /\ i = First(req[r].pays) /\ i \in req[r].pays
              /\ pay.return = refunds[i].return /\ pay.amount = refunds[i].amount
              /\ pay.back = req[r].tx /\ pay.back # 0
              /\ refunds' = [refunds EXCEPT ![i] = pay]
  <1>1. PICK q : q = req[r]
    OBVIOUS
  <1>2. q.step = "link" /\ Holds(q, returns, refunds)
    BY <1>1 DEF LinkBack, Sound
  <1>3. q.pays # {} /\ q.pays \in SUBSET Nat /\ q.tx \in Nat \ {0}
        /\ q.pays \subseteq 1..Len(refunds)
    BY <1>1, <1>2, RequestShape DEF Sound, Holds, Cancelling
  <1>4. PICK i \in 1..Len(refunds) : i = First(q.pays) /\ i \in q.pays
    BY <1>3, FirstIn
  <1>5. PICK old \in Refund : old = refunds[i]
    BY ElementOfSeq DEF Sound, TypeOK
  <1>6. PICK pay : pay = [old EXCEPT !.back = q.tx]
    OBVIOUS
  <1>7. /\ pay \in Refund /\ pay.return = old.return /\ pay.amount = old.amount
        /\ pay.back = q.tx
    BY <1>3, <1>6 DEF Refund
  <1>8. refunds' = [refunds EXCEPT ![i] = pay]
    BY <1>1, <1>4, <1>5, <1>6 DEF LinkBack
  <1> QED BY <1>1, <1>3, <1>4, <1>5, <1>7, <1>8

(* Linking a reversal leaves what is paid back. *)
LEMMA RefundByLink ==
    ASSUME Sound, NEW r \in Request, LinkBack(r), NEW t
    PROVE  RefundIn(refunds', t) = RefundIn(refunds, t)
  <1>1. PICK i \in 1..Len(refunds), pay \in Refund :
              /\ pay.return = refunds[i].return /\ pay.amount = refunds[i].amount
              /\ refunds' = [refunds EXCEPT ![i] = pay]
    BY BackLinked
  <1>2. /\ refunds \in Seq(Refund) /\ RefundFigure(t) \in [Refund -> Int]
        /\ RefundIn(refunds, t) \in Nat
    BY RefundIsSum DEF Sound, TypeOK
  <1>3. PICK old \in Refund : old = refunds[i]
    BY <1>2, ElementOfSeq
  <1>4. RefundFigure(t)[pay] = RefundFigure(t)[old] /\ RefundFigure(t)[old] \in Int
    BY <1>1, <1>3 DEF RefundFigure, Refund
  <1>5. RefundIn(refunds', t) = RefundIn(refunds, t) - RefundFigure(t)[old] + RefundFigure(t)[pay]
    <2>1. PICK f \in [Refund -> Int] : f = RefundFigure(t)
      BY <1>2
    <2>2. RowSum(f, [refunds EXCEPT ![i] = pay]) = RowSum(f, refunds) - f[refunds[i]] + f[pay]
      BY <1>2, RowSumRewrite
    <2> QED BY <1>1, <1>3, <2>1, <2>2 DEF RefundIn
  <1> QED BY <1>2, <1>4, <1>5

(* Every numbered return has paid back its worth or nothing. *)
WellRefunded ==
    \A k \in 1..Len(returns) : Numbered(k) =>
        RefundIn(refunds, k) \in {0, Worth(returns[k].lines)}

LEMMA WellRefundedStep ==
    ASSUME Sound, Sound', Held, Document!NumbersInOrder, WellRefunded, [Next]_vars
    PROVE  WellRefunded'
  <1>1. TableStep /\ TypeOK
    BY StepOnTable DEF Sound
  <1>2. CASE UNCHANGED lastNumber /\ (UNCHANGED refunds \/ \E r \in Request : LinkBack(r))
    <2>1. ReturnsQuiet
      BY <1>1, <1>2, QuietTable
    <2>2. \A t : RefundIn(refunds', t) = RefundIn(refunds, t)
      BY <1>2, RefundByLink
    <2>3. ASSUME NEW t \in 1..Len(returns'), returns'[t].number # NoNumber
          PROVE  RefundIn(refunds', t) \in {0, Worth(returns'[t].lines)}
      <3>1. t \in 1..Len(returns) /\ Numbered(t) /\ returns'[t].lines = returns[t].lines
        BY <2>1, <2>3 DEF ReturnsQuiet, Numbered
      <3> QED BY <2>2, <3>1 DEF WellRefunded
    <2> QED BY <2>3 DEF WellRefunded, Numbered, Worth, Price
  <1>3. CASE \E r \in Request : ConfirmUnit(r)
    <2>1. PICK k, number, plan : Confirms(k, number, plan)
      BY <1>3, ConfirmsRead
    <2>2. ASSUME NEW t \in 1..Len(returns'), returns'[t].number # NoNumber
          PROVE  RefundIn(refunds', t) \in {0, Worth(returns'[t].lines)}
      <3>1. t \in 1..Len(returns)
        BY <2>1, ConfirmedTable
      <3>2. CASE t = k
        <4>1. returns'[t].lines = returns[k].lines
          BY <2>1, <3>2, ConfirmedTable
        <4>2. RefundIn(refunds, k) = 0
          BY <2>1, RefundUnnumbered DEF Confirms
        <4>3. PICK sum \in Nat : /\ sum = AmountOf(plan, Len(plan))
                                 /\ sum \in {0, Worth(returns[k].lines)}
          <5>1. plan \in Seq(Share) /\ Len(plan) \in Nat
            BY <2>1 DEF Confirms
          <5> QED BY <2>1, <5>1, AmountOfNat DEF Confirms
        <4>4. RefundIn(refunds', k) = 0 + sum
          BY <2>1, <4>2, <4>3, RefundByConfirm
        <4> QED BY <3>2, <4>1, <4>3, <4>4
      <3>3. CASE t # k
        <4>1. returns'[t] = returns[t] /\ Numbered(t)
          BY <2>1, <2>2, <3>1, <3>3, ConfirmedTable DEF Numbered
        <4>2. RefundIn(refunds, t) \in Nat
          BY RefundNow
        <4>3. RefundIn(refunds', t) = RefundIn(refunds, t) + 0
          BY <2>1, <3>3, RefundByConfirm
        <4> QED BY <3>1, <4>1, <4>2, <4>3 DEF WellRefunded
      <3> QED BY <3>2, <3>3
    <2> QED BY <2>2 DEF WellRefunded, Numbered, Worth, Price
  <1> QED BY <1>1, <1>2, <1>3, ConfirmsOrNot

LEMMA WellRefundedMeans == Sound /\ WellRefunded => RefundedAsWorth
  <1> SUFFICES ASSUME Sound, WellRefunded, NEW k \in 1..Len(returns)
               PROVE  RefundedBy(k) \in IF Numbered(k) THEN {0, Worth(returns[k].lines)} ELSE {0}
    BY DEF RefundedAsWorth
  <1>1. RefundedBy(k) = RefundIn(refunds, k)
    <2>1. refunds \in Seq(Refund)
      BY DEF Sound, TypeOK
    <2>2. RefundedBy(k) = RefundSum(refunds, k)
      BY DEF RefundedBy, RefundSum
    <2> QED BY <2>1, <2>2, RefundIsSum
  <1>2. CASE Numbered(k)
    BY <1>1, <1>2 DEF WellRefunded
  <1>3. CASE ~ Numbered(k)
    BY <1>1, <1>3, RefundUnnumbered
  <1> QED BY <1>2, <1>3

(* Where requests are served one at a time, a confirmed return has paid    *)
(* back exactly its worth, or nothing: the plan was made for the lines the *)
(* return still has when it posts, and a reversal links the rows it finds. *)
THEOREM ReturnRefundedAsWorth == OneAtATime => (Spec => []RefundedAsWorth)
  <1>1. Init => WellRefunded
    BY DEF Init, WellRefunded
  <1>2. Sound /\ Sound' /\ Held /\ Document!NumbersInOrder /\ WellRefunded
            /\ [Next]_vars => WellRefunded'
    BY WellRefundedStep
  <1>3. Sound /\ WellRefunded => RefundedAsWorth
    BY WellRefundedMeans
  <1>4. CASE OneAtATime
    <2>1. Spec => [](Alone /\ Held)
      BY <1>4, AlwaysHeld
    <2> QED BY <1>1, <1>2, <1>3, <2>1, AlwaysSound, ReturnNumbersDense, PTL DEF Spec
  <1> QED BY <1>4

-----------------------------------------------------------------------------
(* The units moved under a number: towards the parent's undoing, and back. *)

Toward(way, n) == IF way = "sale" THEN n ELSE 0 - n

UnitsOf(product) == [line \in Line |-> IF Sold[line.sold].product = product THEN line.qty ELSE 0]

GoodsOf(lines, product) ==
    SumOver([i \in 1..Len(lines) |->
        IF Sold[lines[i].sold].product = product THEN lines[i].qty ELSE 0], Len(lines))

ForthFigure(way, number, product) ==
    [m \in Move |-> IF m.doc = number /\ m.product = product /\ ~ (Toward(way, m.delta) < 0)
                    THEN Toward(way, m.delta) ELSE 0]

BackFigure(way, number, product) ==
    [m \in Move |-> IF m.doc = number /\ m.product = product /\ Toward(way, m.delta) < 0
                    THEN 0 - Toward(way, m.delta) ELSE 0]

\* The units of a product that a return moved, and that moved back, under a number.
MovedForth(rows, way, number, product) == RowSum(ForthFigure(way, number, product), rows)
MovedBack(rows, way, number, product) == RowSum(BackFigure(way, number, product), rows)

MovedIn(rows, way, number, product, back) ==
    SumOver([i \in 1..Len(rows) |->
        IF rows[i].doc = number /\ rows[i].product = product /\ (Toward(way, rows[i].delta) < 0) = back
        THEN Toward(way, rows[i].delta) ELSE 0], Len(rows))

(* The direction of a family turns a figure round or leaves it. *)
LEMMA TowardIs ==
    ASSUME NEW n \in Int
    PROVE  /\ Delta(n) = Toward(family, n)
           /\ \A way : /\ Toward(way, n) \in Int
                       /\ Toward(way, Toward(way, n)) = n
                       /\ Toward(way, 0 - Toward(way, n)) = 0 - n
  <1>1. Delta(n) = Toward(family, n)
    BY DEF Delta, Toward
  <1>2. ASSUME NEW way
        PROVE  /\ Toward(way, n) \in Int /\ Toward(way, Toward(way, n)) = n
               /\ Toward(way, 0 - Toward(way, n)) = 0 - n
    <2>1. CASE way = "sale"
      BY <2>1 DEF Toward
    <2>2. CASE way # "sale"
      BY <2>2 DEF Toward
    <2> QED BY <2>1, <2>2
  <1> QED BY <1>1, <1>2

(* They are sums of figures. *)
LEMMA FiguresNat ==
    ASSUME NEW way, NEW number, NEW product
    PROVE  /\ ForthFigure(way, number, product) \in [Move -> Nat]
           /\ ForthFigure(way, number, product) \in [Move -> Int]
           /\ BackFigure(way, number, product) \in [Move -> Nat]
           /\ BackFigure(way, number, product) \in [Move -> Int]
           /\ \A rows \in Seq(Move) : MovedForth(rows, way, number, product) \in Nat
                                      /\ MovedBack(rows, way, number, product) \in Nat
  <1>1. \A m \in Move : Toward(way, m.delta) \in Int
    <2>1. \A m \in Move : m.delta \in Int
      BY DEF Move
    <2> QED BY <2>1, TowardIs
  <1>2. /\ ForthFigure(way, number, product) \in [Move -> Nat]
        /\ BackFigure(way, number, product) \in [Move -> Nat]
    BY <1>1 DEF ForthFigure, BackFigure
  <1>3. /\ ForthFigure(way, number, product) \in [Move -> Int]
        /\ BackFigure(way, number, product) \in [Move -> Int]
    <2>1. Nat \subseteq Int
      OBVIOUS
    <2> QED BY <1>2, <2>1
  <1>4. ASSUME NEW rows \in Seq(Move)
        PROVE  MovedForth(rows, way, number, product) \in Nat /\ MovedBack(rows, way, number, product) \in Nat
    BY <1>2, RowSumNat DEF MovedForth, MovedBack
  <1> QED BY <1>2, <1>3, <1>4

LEMMA MovedIsSum ==
    ASSUME NEW rows \in Seq(Move), NEW way, NEW number, NEW product
    PROVE  /\ MovedIn(rows, way, number, product, FALSE) = MovedForth(rows, way, number, product)
           /\ MovedIn(rows, way, number, product, TRUE) = 0 - MovedBack(rows, way, number, product)
  <1> DEFINE v == [i \in 1..Len(rows) |->
                     IF rows[i].doc = number /\ rows[i].product = product
                        /\ (Toward(way, rows[i].delta) < 0) = FALSE
                     THEN Toward(way, rows[i].delta) ELSE 0]
             w == [i \in 1..Len(rows) |->
                     IF rows[i].doc = number /\ rows[i].product = product
                        /\ (Toward(way, rows[i].delta) < 0) = TRUE
                     THEN Toward(way, rows[i].delta) ELSE 0]
             f == ForthFigure(way, number, product)
             g == BackFigure(way, number, product)
             u == [i \in 1..Len(rows) |-> g[rows[i]]]
  <1>1. \A i \in 1..Len(rows) : v[i] = f[rows[i]]
    <2> SUFFICES ASSUME NEW i \in 1..Len(rows) PROVE v[i] = f[rows[i]]
      OBVIOUS
    <2>1. PICK m \in Move : m = rows[i]
      BY ElementOfSeq
    <2> QED BY <2>1 DEF ForthFigure
  <1>2. \A i \in 1..Len(rows) : u[i] \in Int /\ w[i] = 0 - u[i] /\ u[i] = g[rows[i]]
    <2> SUFFICES ASSUME NEW i \in 1..Len(rows)
                 PROVE  u[i] \in Int /\ w[i] = 0 - u[i] /\ u[i] = g[rows[i]]
      OBVIOUS
    <2>1. PICK m \in Move : m = rows[i] /\ m.delta \in Int
      <3>1. rows[i] \in Move
        BY ElementOfSeq
      <3> QED BY <3>1 DEF Move
    <2>2. PICK n \in Int : n = Toward(way, m.delta)
      BY <2>1, TowardIs
    <2>3. g[m] = IF m.doc = number /\ m.product = product /\ n < 0 THEN 0 - n ELSE 0
      BY <2>1, <2>2 DEF BackFigure
    <2>4. w[i] = IF m.doc = number /\ m.product = product /\ n < 0 THEN n ELSE 0
      BY <2>1, <2>2
    <2>5. u[i] = g[m]
      BY <2>1
    <2> HIDE DEF g, w, u
    <2> QED BY <2>1, <2>2, <2>3, <2>4, <2>5
  <1>3. Len(rows) \in Nat
    BY LenProperties
  <1> HIDE DEF v, w, f, g, u
  <1>4. SumOver(v, Len(rows)) = RowSum(f, rows)
    BY <1>1, RowSumIs
  <1>5. SumOver(u, Len(rows)) = RowSum(g, rows)
    BY <1>2, RowSumIs
  <1>6. SumOver(w, Len(rows)) = 0 - SumOver(u, Len(rows))
    BY <1>2, <1>3, SumOverNegated
  <1>7. MovedIn(rows, way, number, product, FALSE) = MovedForth(rows, way, number, product)
    BY <1>4 DEF MovedIn, MovedForth, f, v
  <1>8. MovedIn(rows, way, number, product, TRUE) = 0 - MovedBack(rows, way, number, product)
    BY <1>5, <1>6 DEF MovedIn, MovedBack, g, w
  <1> QED BY <1>7, <1>8

(* What the state says has moved, in figures. *)
LEMMA MovedNow ==
    ASSUME moves \in Seq(Move), NEW number, NEW product
    PROVE  /\ MovedBy(number, product, FALSE) = MovedForth(moves, family, number, product)
           /\ MovedBy(number, product, TRUE) = 0 - MovedBack(moves, family, number, product)
           /\ MovedForth(moves, family, number, product) \in Nat
           /\ MovedBack(moves, family, number, product) \in Nat
  <1>1. \A i \in 1..Len(moves) : Delta(moves[i].delta) = Toward(family, moves[i].delta)
    <2> SUFFICES ASSUME NEW i \in 1..Len(moves)
                 PROVE  Delta(moves[i].delta) = Toward(family, moves[i].delta)
      OBVIOUS
    <2>1. PICK m \in Move : m = moves[i]
      BY ElementOfSeq
    <2>2. m.delta \in Int
      BY DEF Move
    <2> QED BY <2>1, <2>2, TowardIs
  <1>2. ASSUME NEW back
        PROVE  MovedBy(number, product, back) = MovedIn(moves, family, number, product, back)
    <2> DEFINE v == [i \in 1..Len(moves) |->
                       IF moves[i].doc = number /\ moves[i].product = product
                          /\ (Delta(moves[i].delta) < 0) = back
                       THEN Delta(moves[i].delta) ELSE 0]
               w == [i \in 1..Len(moves) |->
                       IF moves[i].doc = number /\ moves[i].product = product
                          /\ (Toward(family, moves[i].delta) < 0) = back
                       THEN Toward(family, moves[i].delta) ELSE 0]
    <2>1. \A i \in 1..Len(moves) : v[i] = w[i]
      BY <1>1, Zenon
    <2>2. MovedBy(number, product, back) = SumOver(v, Len(moves))
      BY DEF MovedBy
    <2>3. MovedIn(moves, family, number, product, back) = SumOver(w, Len(moves))
      BY DEF MovedIn
    <2>4. Len(moves) \in Nat
      BY LenProperties
    <2> HIDE DEF v, w
    <2>5. SumOver(v, Len(moves)) = SumOver(w, Len(moves))
      BY <2>1, <2>4, SumOverAgree
    <2> QED BY <2>2, <2>3, <2>5
  <1>3. MovedBy(number, product, FALSE) = MovedForth(moves, family, number, product)
    BY <1>2, MovedIsSum
  <1>4. MovedBy(number, product, TRUE) = 0 - MovedBack(moves, family, number, product)
    BY <1>2, MovedIsSum
  <1> QED BY <1>3, <1>4, FiguresNat

(* The goods of a list of lines. *)
LEMMA GoodsIsSum ==
    ASSUME NEW lines \in Seq(Line), NEW product
    PROVE  /\ UnitsOf(product) \in [Line -> Nat] /\ UnitsOf(product) \in [Line -> Int]
           /\ GoodsOf(lines, product) = RowSum(UnitsOf(product), lines)
           /\ GoodsOf(lines, product) \in Nat
  <1> DEFINE f == UnitsOf(product)
             w == [i \in 1..Len(lines) |->
                      IF Sold[lines[i].sold].product = product THEN lines[i].qty ELSE 0]
  <1>1. f \in [Line -> Nat] /\ f \in [Line -> Int]
    <2>1. \A line \in Line : line.qty \in Nat
      BY DEF Line
    <2>2. f \in [Line -> Nat]
      BY <2>1 DEF UnitsOf
    <2>3. Nat \subseteq Int
      OBVIOUS
    <2> QED BY <2>2, <2>3
  <1>2. \A i \in 1..Len(lines) : w[i] = f[lines[i]]
    <2> SUFFICES ASSUME NEW i \in 1..Len(lines) PROVE w[i] = f[lines[i]]
      OBVIOUS
    <2>1. PICK line \in Line : line = lines[i]
      BY ElementOfSeq
    <2> QED BY <2>1 DEF UnitsOf
  <1> HIDE DEF w, f
  <1>3. SumOver(w, Len(lines)) = RowSum(f, lines)
    BY <1>2, RowSumIs
  <1>4. RowSum(f, lines) \in Nat
    BY <1>1, RowSumNat
  <1> QED BY <1>1, <1>3, <1>4 DEF GoodsOf, f, w

(* The tracked lines hold all there is of a tracked product. *)
LEMMA GoodsTracked ==
    ASSUME NEW lines \in Seq(Line), NEW product \in Tracked
    PROVE  RowSum(UnitsOf(product), TrackedLines(lines)) = GoodsOf(lines, product)
  <1> DEFINE ids == {i \in 1..Len(lines) : Sold[lines[i].sold].product \in Tracked}
  <1>1. UnitsOf(product) \in [Line -> Int]
    BY GoodsIsSum
  <1>2. \A i \in 1..Len(lines) : i \in ids \/ UnitsOf(product)[lines[i]] = 0
    <2> SUFFICES ASSUME NEW i \in 1..Len(lines), Sold[lines[i].sold].product \notin Tracked
                 PROVE  UnitsOf(product)[lines[i]] = 0
      OBVIOUS
    <2>1. PICK line \in Line : line = lines[i]
      BY ElementOfSeq
    <2>2. Sold[line.sold].product # product
      BY <2>1
    <2> QED BY <2>1, <2>2 DEF UnitsOf
  <1> HIDE DEF ids
  <1>4. RowSum(UnitsOf(product), Picked(lines, ids)) = PickedSum(UnitsOf(product), lines, ids)
    BY <1>1, PickedRowSum
  <1>5. PickedSum(UnitsOf(product), lines, ids) = RowSum(UnitsOf(product), lines)
    BY <1>2, PickedAll
  <1> QED BY <1>4, <1>5, GoodsIsSum DEF TrackedLines, ids

(* The movements of a list of lines are of its goods, forth, under one     *)
(* document.                                                               *)
LEMMA MovesOfUnits ==
    ASSUME NEW lines \in Seq(Line), NEW number \in Reference, NEW new \in Seq(Move),
           new = MovesOf(lines, number)
    PROVE  /\ \A i \in 1..Len(new) : new[i].doc = number
           /\ \A n, u : MovedBack(new, family, n, u) = 0
           /\ \A u \in Tracked : MovedForth(new, family, number, u) = GoodsOf(lines, u)
  <1>1. PICK out \in Seq(TrackedLine) : out = TrackedLines(lines)
    BY TrackedLinesTyped
  <1>2. Len(out) \in Nat
    BY <1>1, LenProperties
  <1>3. new = [i \in 1..Len(out) |-> MoveOf(out[i], number)]
    BY <1>1 DEF MovesOf
  <1>4. Len(new) = Len(out)
    <2>1. DOMAIN new = 1..Len(out)
      BY <1>3
    <2>2. DOMAIN new = 1..Len(new) /\ Len(new) \in Nat
      BY LenProperties
    <2> QED BY <1>2, <2>1, <2>2
  <1>5. ASSUME NEW i \in 1..Len(new)
        PROVE  \E m \in Move, line \in Line :
                  /\ m = new[i] /\ line = out[i]
                  /\ m.product = Sold[line.sold].product /\ m.doc = number
                  /\ Toward(family, m.delta) = line.qty /\ line.qty \in Nat
    <2>1. PICK line \in TrackedLine : line = out[i]
      BY <1>1, <1>4, ElementOfSeq
    <2>2. PICK m : m = MoveOf(line, number)
      OBVIOUS
    <2>3. m = new[i]
      BY <1>3, <1>4, <2>1, <2>2
    <2>4. m \in Move
      BY <2>3, ElementOfSeq
    <2>5. m.product = Sold[line.sold].product /\ m.doc = number /\ m.delta = Delta(line.qty)
      BY <2>2 DEF MoveOf
    <2>6. line \in Line /\ line.qty \in Nat /\ line.qty \in Int
      BY LineFacts DEF TrackedLine
    <2>7. Toward(family, m.delta) = line.qty
      BY <2>5, <2>6, TowardIs
    <2> QED BY <2>1, <2>3, <2>4, <2>5, <2>6, <2>7
  <1>6. \A i \in 1..Len(new) : new[i].doc = number
    BY <1>5
  <1>7. ASSUME NEW n, NEW u PROVE MovedBack(new, family, n, u) = 0
    <2>1. \A i \in 1..Len(new) : BackFigure(family, n, u)[new[i]] = 0
      <3> SUFFICES ASSUME NEW i \in 1..Len(new) PROVE BackFigure(family, n, u)[new[i]] = 0
        OBVIOUS
      <3>1. PICK m \in Move : m = new[i] /\ Toward(family, m.delta) \in Nat
        BY <1>5
      <3> QED BY <3>1 DEF BackFigure
    <2> QED BY <2>1, RowSumZero DEF MovedBack
  <1>8. ASSUME NEW u \in Tracked PROVE MovedForth(new, family, number, u) = GoodsOf(lines, u)
    <2>1. \A i \in 1..Len(new) : ForthFigure(family, number, u)[new[i]] = UnitsOf(u)[out[i]]
      <3> SUFFICES ASSUME NEW i \in 1..Len(new)
                   PROVE  ForthFigure(family, number, u)[new[i]] = UnitsOf(u)[out[i]]
        OBVIOUS
      <3>1. PICK m \in Move, line \in Line :
                  /\ m = new[i] /\ line = out[i]
                  /\ m.product = Sold[line.sold].product /\ m.doc = number
                  /\ Toward(family, m.delta) = line.qty /\ line.qty \in Nat
        BY <1>5
      <3>2. ForthFigure(family, number, u)[m] = IF m.product = u THEN line.qty ELSE 0
        BY <3>1 DEF ForthFigure
      <3>3. UnitsOf(u)[line] = IF Sold[line.sold].product = u THEN line.qty ELSE 0
        BY DEF UnitsOf
      <3> QED BY <3>1, <3>2, <3>3
    <2>2. SameFigures(ForthFigure(family, number, u), new, UnitsOf(u), out)
      BY <1>4, <2>1 DEF SameFigures
    <2>3. RowSum(ForthFigure(family, number, u), new) = RowSum(UnitsOf(u), out)
      BY <2>2, RowSumAgree
    <2> QED BY <1>1, <2>3, GoodsTracked DEF MovedForth
  <1> QED BY <1>6, <1>7, <1>8

\* No movement of the list is of the document n.
NoneOf(rows, n) == \A i \in 1..Len(rows) : rows[i].doc # n

(* Movements of other documents leave what has moved under a number. *)
LEMMA MovedBesides ==
    ASSUME moves \in Seq(Move), NEW new \in Seq(Move), moves' = moves \o new,
           NEW n, NoneOf(new, n), NEW way, NEW u
    PROVE  /\ MovedForth(moves', way, n, u) = MovedForth(moves, way, n, u)
           /\ MovedBack(moves', way, n, u) = MovedBack(moves, way, n, u)
  <1>1. /\ BackFigure(way, n, u) \in [Move -> Int] /\ ForthFigure(way, n, u) \in [Move -> Int]
        /\ MovedForth(moves, way, n, u) \in Nat /\ MovedBack(moves, way, n, u) \in Nat
    BY FiguresNat
  <1>2. \A i \in 1..Len(new) : BackFigure(way, n, u)[new[i]] = 0 /\ ForthFigure(way, n, u)[new[i]] = 0
    <2> SUFFICES ASSUME NEW i \in 1..Len(new)
                 PROVE  BackFigure(way, n, u)[new[i]] = 0 /\ ForthFigure(way, n, u)[new[i]] = 0
      OBVIOUS
    <2>1. PICK m \in Move : m = new[i] /\ m.doc # n
      BY ElementOfSeq DEF NoneOf
    <2> QED BY <2>1 DEF BackFigure, ForthFigure
  <1>3. MovedForth(new, way, n, u) = 0 /\ MovedBack(new, way, n, u) = 0
    BY <1>2, RowSumZero DEF MovedForth, MovedBack
  <1>4. MovedForth(moves', way, n, u) = MovedForth(moves, way, n, u) + MovedForth(new, way, n, u)
    BY <1>1, RowSumConcat DEF MovedForth
  <1>5. MovedBack(moves', way, n, u) = MovedBack(moves, way, n, u) + MovedBack(new, way, n, u)
    BY <1>1, RowSumConcat DEF MovedBack
  <1> QED BY <1>1, <1>3, <1>4, <1>5

(* A confirm moves the goods of its lines forth, and nothing back. *)
LEMMA MovedByConfirm ==
    ASSUME Sound, NEW k, NEW number, NEW plan, Confirms(k, number, plan), NEW n, NEW u \in Tracked
    PROVE  /\ MovedForth(moves', family, n, u) = MovedForth(moves, family, n, u)
                  + (IF n = number THEN GoodsOf(returns[k].lines, u) ELSE 0)
           /\ MovedBack(moves', family, n, u) = MovedBack(moves, family, n, u)
  <1>1. PICK lines \in Seq(Line) : lines = returns[k].lines
    BY ConfirmedTable
  <1>2. moves \in Seq(Move) /\ number \in Reference /\ moves' = moves \o MovesOf(lines, number)
    BY <1>1 DEF Sound, TypeOK, Confirms, Reference
  <1>3. PICK new \in Seq(Move) : new = MovesOf(lines, number)
    BY <1>2, MovesOfTyped
  <1>4. /\ \A i \in 1..Len(new) : new[i].doc = number
        /\ MovedBack(new, family, n, u) = 0
        /\ MovedForth(new, family, number, u) = GoodsOf(lines, u)
    BY <1>2, <1>3, MovesOfUnits
  <1>5. moves' = moves \o new
    BY <1>2, <1>3
  <1>6. CASE n = number
    <2>1. /\ BackFigure(family, n, u) \in [Move -> Int] /\ ForthFigure(family, n, u) \in [Move -> Int]
          /\ MovedForth(moves, family, n, u) \in Nat /\ MovedBack(moves, family, n, u) \in Nat
      BY <1>2, FiguresNat
    <2>2. MovedForth(moves', family, n, u) = MovedForth(moves, family, n, u) + MovedForth(new, family, n, u)
      BY <1>2, <1>5, <2>1, RowSumConcat DEF MovedForth
    <2>3. MovedBack(moves', family, n, u) = MovedBack(moves, family, n, u) + MovedBack(new, family, n, u)
      BY <1>2, <1>5, <2>1, RowSumConcat DEF MovedBack
    <2> QED BY <1>1, <1>4, <1>6, <2>1, <2>2, <2>3
  <1>7. CASE n # number
    <2>1. NoneOf(new, n)
      BY <1>4, <1>7 DEF NoneOf
    <2>2. /\ MovedForth(moves', family, n, u) = MovedForth(moves, family, n, u)
          /\ MovedBack(moves', family, n, u) = MovedBack(moves, family, n, u)
      <3>1. PICK way : way = family
        OBVIOUS
      <3>2. moves \in Seq(Move) /\ moves' = moves \o new
        BY <1>2, <1>5
      <3>3. MovedForth(moves', way, n, u) = MovedForth(moves, way, n, u)
        BY <2>1, <3>2, MovedBesides
      <3>4. MovedBack(moves', way, n, u) = MovedBack(moves, way, n, u)
        BY <2>1, <3>2, MovedBesides
      <3> QED BY <3>1, <3>3, <3>4
    <2>3. MovedForth(moves, family, n, u) \in Nat
      BY <1>2, FiguresNat
    <2> QED BY <1>7, <2>2, <2>3
  <1> QED BY <1>6, <1>7

-----------------------------------------------------------------------------
(* What a return moved is what it says.                                    *)

\* Every movement is of a numbered return, of a parent, or by hand.
MovesKnown ==
    \A i \in 1..Len(moves) :
        \/ moves[i].doc = NoNumber \/ moves[i].doc \in {<<p>> : p \in Parent}
        \/ \E t \in 1..Len(returns) : returns[t].number = moves[i].doc

(* A number is no reference to a parent. *)
LEMMA NumberApart ==
    ASSUME NEW number \in Number, number # NoNumber
    PROVE  number \notin {<<p>> : p \in Parent}
  <1>1. PICK y \in Year, n \in Nat \ {0} : number = <<y, n>>
    BY DEF Number
  <1>2. \A p : Len(<<p>>) = 1 /\ Len(<<y, n>>) = 2
    OBVIOUS
  <1> QED BY <1>1, <1>2

(* The number of a return is one. *)
LEMMA NumberOf ==
    ASSUME Sound, NEW t \in 1..Len(returns)
    PROVE  returns[t].number \in Number
  <1>1. returns[t] \in Return
    BY RowsTyped DEF Sound
  <1> QED BY <1>1 DEF Return

(* The movement by which a cancel moves a line back. *)
LEMMA ReverseMove ==
    ASSUME Sound, NEW r \in Request, ReverseLine(r)
    PROVE  \E m \in Move, line \in Line :
              /\ req[r].return \in 1..Len(returns) /\ Numbered(req[r].return)
              /\ First(req[r].lines) \in req[r].lines
              /\ First(req[r].lines) \in 1..Len(returns[req[r].return].lines)
              /\ line = returns[req[r].return].lines[First(req[r].lines)]
              /\ m.product = Sold[line.sold].product /\ m.doc = returns[req[r].return].number
              /\ Toward(family, m.delta) = 0 - line.qty /\ line.qty \in Nat \ {0}
              /\ moves' = Append(moves, m)
  <1>1. PICK q : q = req[r]
    OBVIOUS
  <1>2. q.step = "reverse" /\ q.lines # {} /\ moves' = Append(moves, Reversed(q))
    BY <1>1 DEF ReverseLine
  <1>3. PICK k, i : k = q.return /\ i = First(q.lines)
    OBVIOUS
  <1>4. /\ i \in q.lines /\ i \in 1..Len(returns[k].lines)
        /\ k \in 1..Len(returns) /\ Numbered(k)
        /\ returns[k].lines[i] \in TrackedLine /\ Reversed(q) \in Move
    BY <1>1, <1>2, <1>3, NextLineSound
  <1>5. PICK line \in TrackedLine : line = returns[k].lines[i]
    BY <1>4
  <1>6. line \in Line /\ line.qty \in Nat \ {0} /\ line.qty \in Int
    BY LineFacts DEF TrackedLine
  <1>7. PICK m \in Move : m = Reversed(q)
    BY <1>4
  <1>8. m.product = Sold[line.sold].product /\ m.delta = -Delta(line.qty) /\ m.doc = returns[k].number
    BY <1>3, <1>5, <1>7 DEF Reversed
  <1>9. Toward(family, m.delta) = 0 - line.qty
    <2>1. PICK d \in Int : d = Toward(family, line.qty)
      BY <1>6, TowardIs
    <2>2. Delta(line.qty) = d /\ Toward(family, 0 - d) = 0 - line.qty
      BY <1>6, <2>1, TowardIs
    <2>3. m.delta = 0 - d
      BY <1>8, <2>1, <2>2
    <2> QED BY <2>2, <2>3
  <1> QED BY <1>1, <1>2, <1>3, <1>4, <1>5, <1>6, <1>7, <1>8, <1>9

(* A movement adds to what moved forth or back under its document. *)
LEMMA MovedAppended ==
    ASSUME moves \in Seq(Move), NEW m \in Move, moves' = Append(moves, m), NEW way, NEW n, NEW u
    PROVE  /\ MovedForth(moves', way, n, u) = MovedForth(moves, way, n, u) + ForthFigure(way, n, u)[m]
           /\ MovedBack(moves', way, n, u) = MovedBack(moves, way, n, u) + BackFigure(way, n, u)[m]
  <1>1. /\ BackFigure(way, n, u) \in [Move -> Int] /\ ForthFigure(way, n, u) \in [Move -> Int]
    BY FiguresNat
  <1>2. MovedForth(moves', way, n, u) = MovedForth(moves, way, n, u) + ForthFigure(way, n, u)[m]
    BY <1>1, RowSumAppend DEF MovedForth
  <1>3. MovedBack(moves', way, n, u) = MovedBack(moves, way, n, u) + BackFigure(way, n, u)[m]
    BY <1>1, RowSumAppend DEF MovedBack
  <1> QED BY <1>2, <1>3

(* What a cancel's movement changes. *)
LEMMA MovedByReversal ==
    ASSUME Sound, NEW r \in Request, ReverseLine(r), NEW n, NEW u, NEW k, k = req[r].return,
           NEW line, line = returns[k].lines[First(req[r].lines)]
    PROVE  /\ MovedForth(moves', family, n, u) = MovedForth(moves, family, n, u)
           /\ MovedBack(moves', family, n, u) = MovedBack(moves, family, n, u)
                  + (IF n = returns[k].number THEN UnitsOf(u)[line] ELSE 0)
           /\ line \in Line
  <1>1. PICK m \in Move :
              /\ line \in Line /\ line.qty \in Nat \ {0}
              /\ m.product = Sold[line.sold].product /\ m.doc = returns[k].number
              /\ Toward(family, m.delta) = 0 - line.qty
              /\ moves' = Append(moves, m)
    <2>1. PICK m \in Move, l \in Line :
              /\ l = returns[req[r].return].lines[First(req[r].lines)] /\ l.qty \in Nat \ {0}
              /\ m.product = Sold[l.sold].product /\ m.doc = returns[req[r].return].number
              /\ Toward(family, m.delta) = 0 - l.qty
              /\ moves' = Append(moves, m)
      BY ReverseMove
    <2>2. l = line /\ m.doc = returns[k].number
      BY <2>1
    <2>3. PICK unit : unit = Sold[l.sold].product /\ m.product = unit
      BY <2>1
    <2>4. Sold[line.sold].product = unit
      BY <2>2, <2>3
    <2>5. line \in Line /\ line.qty \in Nat \ {0} /\ Toward(family, m.delta) = 0 - line.qty
      BY <2>1, <2>2
    <2>6. moves' = Append(moves, m)
      BY <2>1
    <2> QED BY <2>2, <2>3, <2>4, <2>5, <2>6
  <1>2. moves \in Seq(Move)
    BY DEF Sound, TypeOK
  <1>3. PICK way : way = family
    OBVIOUS
  <1>4. MovedForth(moves, way, n, u) \in Nat /\ MovedBack(moves, way, n, u) \in Nat
    BY <1>2, FiguresNat
  <1>5. Toward(way, m.delta) < 0 /\ 0 - Toward(way, m.delta) = line.qty
    <2>1. PICK d \in Nat \ {0} : d = line.qty
      BY <1>1
    <2>2. PICK t : t = Toward(way, m.delta)
      OBVIOUS
    <2>3. t = 0 - d
      BY <1>1, <1>3, <2>1, <2>2
    <2>4. t < 0 /\ 0 - t = d
      BY <2>3
    <2> QED BY <2>1, <2>2, <2>4
  <1>6. ForthFigure(way, n, u)[m] = 0
    BY <1>5 DEF ForthFigure
  <1>7. BackFigure(way, n, u)[m] = IF n = m.doc /\ Sold[line.sold].product = u THEN line.qty ELSE 0
    BY <1>1, <1>5 DEF BackFigure
  <1>8. UnitsOf(u)[line] = IF Sold[line.sold].product = u THEN line.qty ELSE 0
    BY <1>1 DEF UnitsOf
  <1>9. BackFigure(way, n, u)[m] = IF n = m.doc THEN UnitsOf(u)[line] ELSE 0
    BY <1>7, <1>8
  <1>10. MovedForth(moves', way, n, u) = MovedForth(moves, way, n, u) + 0
    <2>1. moves' = Append(moves, m)
      BY <1>1
    <2>2. MovedForth(moves', way, n, u) = MovedForth(moves, way, n, u) + ForthFigure(way, n, u)[m]
      BY <1>2, <2>1, MovedAppended
    <2> QED BY <1>6, <2>2
  <1>11. MovedBack(moves', way, n, u) = MovedBack(moves, way, n, u)
             + (IF n = m.doc THEN UnitsOf(u)[line] ELSE 0)
    <2>1. moves' = Append(moves, m)
      BY <1>1
    <2>2. MovedBack(moves', way, n, u) = MovedBack(moves, way, n, u) + BackFigure(way, n, u)[m]
      BY <1>2, <2>1, MovedAppended
    <2> QED BY <1>9, <2>2
  <1>12. MovedForth(moves', way, n, u) = MovedForth(moves, way, n, u)
    BY <1>4, <1>10
  <1>13. m.doc = returns[k].number /\ line \in Line
    BY <1>1
  <1> QED BY <1>3, <1>11, <1>12, <1>13

(* Nothing beside the returns moves under a number. *)
LEMMA MovedByOthers ==
    ASSUME Sound, UNCHANGED moves \/ MovedBeside, NEW n \in Number, n # NoNumber, NEW u
    PROVE  /\ MovedForth(moves', family, n, u) = MovedForth(moves, family, n, u)
           /\ MovedBack(moves', family, n, u) = MovedBack(moves, family, n, u)
  <1>1. CASE UNCHANGED moves
    BY <1>1
  <1>2. CASE MovedBeside
    <2>1. PICK new \in Seq(Move) :
              /\ moves' = moves \o new
              /\ \A i \in 1..Len(new) : new[i].doc = NoNumber \/ new[i].doc \in {<<p>> : p \in Parent}
      BY <1>2 DEF MovedBeside
    <2>2. NoneOf(new, n)
      BY <2>1, NumberApart DEF NoneOf
    <2>3. PICK way : way = family
      OBVIOUS
    <2>4. moves \in Seq(Move) /\ moves' = moves \o new
      BY <2>1 DEF Sound, TypeOK
    <2>5. MovedForth(moves', way, n, u) = MovedForth(moves, way, n, u)
      BY <2>2, <2>4, MovedBesides
    <2>6. MovedBack(moves', way, n, u) = MovedBack(moves, way, n, u)
      BY <2>2, <2>4, MovedBesides
    <2> QED BY <2>3, <2>5, <2>6
  <1> QED BY <1>1, <1>2

(* Nothing has moved under a number no return has. *)
LEMMA MovedUnknown ==
    ASSUME Sound, MovesKnown, NEW number \in Number, number # NoNumber,
           \A t \in 1..Len(returns) : returns[t].number # number, NEW u
    PROVE  MovedForth(moves, family, number, u) = 0 /\ MovedBack(moves, family, number, u) = 0
  <1>1. moves \in Seq(Move)
    BY DEF Sound, TypeOK
  <1>2. \A i \in 1..Len(moves) : /\ ForthFigure(family, number, u)[moves[i]] = 0
                                 /\ BackFigure(family, number, u)[moves[i]] = 0
    <2> SUFFICES ASSUME NEW i \in 1..Len(moves)
                 PROVE  /\ ForthFigure(family, number, u)[moves[i]] = 0
                        /\ BackFigure(family, number, u)[moves[i]] = 0
      OBVIOUS
    <2>1. PICK m \in Move : m = moves[i]
      BY <1>1, ElementOfSeq
    <2>2. m.doc # number
      BY <2>1, NumberApart DEF MovesKnown
    <2> QED BY <2>1, <2>2 DEF ForthFigure, BackFigure
  <1> QED BY <1>1, <1>2, RowSumZero DEF MovedForth, MovedBack

(* Every step moves under the number of a return, beside them, or by hand. *)
LEMMA MovesKnownStep ==
    ASSUME Sound, Sound', Held, Document!NumbersInOrder, MovesKnown, [Next]_vars
    PROVE  MovesKnown'
  <1>1. moves \in Seq(Move) /\ Len(moves) \in Nat /\ returns \in Seq(Return) /\ TypeOK
        /\ Len(returns) \in Nat
    BY LenProperties DEF Sound, TypeOK
  <1>2. ASSUME NEW new \in Seq(Move), moves' = moves \o new,
               \A i \in 1..Len(new) :
                   \/ new[i].doc = NoNumber \/ new[i].doc \in {<<p>> : p \in Parent}
                   \/ \E t \in 1..Len(returns') : returns'[t].number = new[i].doc,
               \A t \in 1..Len(returns) : Numbered(t) =>
                   t \in 1..Len(returns') /\ returns'[t].number = returns[t].number
        PROVE  MovesKnown'
    <2>1. /\ Len(moves') = Len(moves) + Len(new) /\ Len(new) \in Nat
          /\ \A i \in 1..Len(moves) : moves'[i] = moves[i]
          /\ \A i \in 1..Len(new) : moves'[Len(moves) + i] = new[i]
          /\ \A i \in 1..Len(moves') :
                i \in 1..Len(moves) \/ \E k \in 1..Len(new) : i = Len(moves) + k
      BY <1>1, <1>2, RowsConcatenated
    <2>2. ASSUME NEW i \in 1..Len(moves'), moves'[i].doc # NoNumber,
                 moves'[i].doc \notin {<<p>> : p \in Parent}
          PROVE  \E t \in 1..Len(returns') : returns'[t].number = moves'[i].doc
      <3>1. CASE i \in 1..Len(moves)
        <4>1. moves'[i] = moves[i]
          BY <2>1, <3>1
        <4>2. PICK t \in 1..Len(returns) : returns[t].number = moves[i].doc
          BY <2>2, <3>1, <4>1 DEF MovesKnown
        <4>3. Numbered(t)
          BY <2>2, <4>1, <4>2 DEF Numbered
        <4> QED BY <1>2, <4>1, <4>2, <4>3
      <3>2. CASE i \notin 1..Len(moves)
        <4>1. PICK k \in 1..Len(new) : i = Len(moves) + k
          BY <2>1, <3>2
        <4>2. moves'[i] = new[k]
          BY <2>1, <4>1
        <4> QED BY <1>2, <2>2, <4>2
      <3> QED BY <3>1, <3>2
    <2> QED BY <2>2 DEF MovesKnown
  <1>3. RecordsKept
    BY StepOnTable, TableFrozen DEF Sound
  <1>4. \A t \in 1..Len(returns) : Numbered(t) =>
            t \in 1..Len(returns') /\ returns'[t].number = returns[t].number
    BY <1>3 DEF RecordsKept
  <1>5. ASSUME NEW r \in Request, ConfirmUnit(r) PROVE MovesKnown'
    <2>1. PICK k, number, plan : Confirms(k, number, plan)
      BY <1>5, ConfirmsRead
    <2>2. PICK lines \in Seq(Line) : lines = returns[k].lines
      BY <2>1, ConfirmedTable
    <2>3. k \in 1..Len(returns') /\ returns'[k].number = number
      BY <2>1, ConfirmedTable
    <2>4. number \in Reference /\ moves' = moves \o MovesOf(lines, number)
      BY <2>1, <2>2 DEF Confirms, Reference
    <2>5. PICK new \in Seq(Move) : new = MovesOf(lines, number)
      BY <2>4, MovesOfTyped
    <2>6. \A i \in 1..Len(new) : new[i].doc = number
      BY <2>4, <2>5, MovesOfUnits
    <2>7. moves' = moves \o new
      BY <2>4, <2>5
    <2> QED BY <1>2, <1>4, <2>3, <2>6, <2>7
  <1>6. CASE UNCHANGED moves
    <2>1. ASSUME NEW i \in 1..Len(moves), moves[i].doc # NoNumber,
                 moves[i].doc \notin {<<p>> : p \in Parent}
          PROVE  \E t \in 1..Len(returns') : returns'[t].number = moves[i].doc
      <3>1. PICK t \in 1..Len(returns) : returns[t].number = moves[i].doc
        BY <2>1 DEF MovesKnown
      <3>2. Numbered(t)
        BY <2>1, <3>1 DEF Numbered
      <3> QED BY <1>4, <3>1, <3>2
    <2> QED BY <1>6, <2>1 DEF MovesKnown
  <1>7. CASE MovedBeside
    BY <1>2, <1>4, <1>7 DEF MovedBeside
  <1>8. ASSUME NEW r \in Request, ReverseLine(r) PROVE MovesKnown'
    <2>1. PICK k : k = req[r].return
      OBVIOUS
    <2>2. PICK m \in Move : /\ k \in 1..Len(returns) /\ Numbered(k)
                            /\ m.doc = returns[k].number /\ moves' = Append(moves, m)
      BY <1>8, <2>1, ReverseMove
    <2>3. k \in 1..Len(returns') /\ returns'[k].number = m.doc
      BY <1>4, <2>2
    <2>4. PICK new : new = <<m>>
      OBVIOUS
    <2>5. new \in Seq(Move) /\ Len(new) = 1 /\ new[1] = m
      BY <2>4
    <2>6. moves' = moves \o new
      BY <1>1, <2>2, <2>4
    <2>7. \A i \in 1..Len(new) : new[i].doc = m.doc
      BY <2>5
    <2> QED BY <1>2, <1>4, <2>3, <2>5, <2>6, <2>7
  <1> QED BY <1>1, <1>5, <1>6, <1>7, <1>8, ConfirmsOrNot

\* Every numbered return has moved the goods of its lines.
WellMoved ==
    \A t \in 1..Len(returns) : Numbered(t) =>
        \A u \in Tracked :
            MovedForth(moves, family, returns[t].number, u) = GoodsOf(returns[t].lines, u)

(* After a confirm the new return has moved its lines, the others what they *)
(* had; other steps move nothing forth under a number.                      *)
LEMMA WellMovedStep ==
    ASSUME Sound, Sound', Held, Document!NumbersInOrder, MovesKnown, WellMoved, [Next]_vars
    PROVE  WellMoved'
  <1>1. UNCHANGED family /\ TypeOK
    BY ConfirmsOrNot DEF Sound
  <1> SUFFICES ASSUME NEW t \in 1..Len(returns'), returns'[t].number # NoNumber, NEW u \in Tracked
               PROVE  MovedForth(moves', family, returns'[t].number, u) = GoodsOf(returns'[t].lines, u)
    BY <1>1 DEF WellMoved, Numbered, GoodsOf, MovedForth, ForthFigure
  <1>2. ASSUME t \in 1..Len(returns), Numbered(t), returns'[t].number = returns[t].number,
               returns'[t].lines = returns[t].lines,
               NEW n, n = returns[t].number,
               MovedForth(moves', family, n, u) = MovedForth(moves, family, n, u)
        PROVE  MovedForth(moves', family, returns'[t].number, u) = GoodsOf(returns'[t].lines, u)
    BY <1>2 DEF WellMoved
  <1>3. ASSUME NEW r \in Request, ConfirmUnit(r)
        PROVE  MovedForth(moves', family, returns'[t].number, u) = GoodsOf(returns'[t].lines, u)
    <2>1. PICK k, number, plan : Confirms(k, number, plan)
      BY <1>3, ConfirmsRead
    <2>2. PICK lines \in Seq(Line) : lines = returns[k].lines
      BY <2>1, ConfirmedTable
    <2>3. /\ k \in 1..Len(returns) /\ t \in 1..Len(returns)
          /\ returns'[k].number = number /\ returns'[k].lines = lines
          /\ t # k => returns'[t] = returns[t]
      BY <2>1, <2>2, ConfirmedTable
    <2>4. number \in Number /\ number # NoNumber
          /\ \A s \in 1..Len(returns) : returns[s].number # number
      BY <2>1 DEF Confirms
    <2>5. CASE t = k
      <3>1. MovedForth(moves, family, number, u) = 0
        BY <2>4, MovedUnknown
      <3>2. GoodsOf(lines, u) \in Nat
        BY GoodsIsSum
      <3>3. MovedForth(moves', family, number, u) = MovedForth(moves, family, number, u) + GoodsOf(lines, u)
        BY <2>1, <2>2, MovedByConfirm
      <3> QED BY <2>3, <2>5, <3>1, <3>2, <3>3
    <2>6. CASE t # k
      <3>1. PICK n : n = returns[t].number
        OBVIOUS
      <3>2. n # number /\ Numbered(t) /\ returns'[t] = returns[t]
        BY <2>3, <2>4, <2>6, <3>1 DEF Numbered
      <3>3. MovedForth(moves, family, n, u) \in Nat
        BY FiguresNat DEF Sound, TypeOK
      <3>4. MovedForth(moves', family, n, u) = MovedForth(moves, family, n, u) + 0
        BY <2>1, <3>2, MovedByConfirm
      <3> QED BY <1>2, <2>3, <3>1, <3>2, <3>3, <3>4
    <2> QED BY <2>5, <2>6
  <1>4. ASSUME UNCHANGED lastNumber,
               UNCHANGED moves \/ MovedBeside \/ \E r \in Request : ReverseLine(r)
        PROVE  MovedForth(moves', family, returns'[t].number, u) = GoodsOf(returns'[t].lines, u)
    <2>1. ReturnsQuiet
      BY <1>4, StepOnTable, QuietTable DEF Sound
    <2>2. /\ t \in 1..Len(returns) /\ Numbered(t)
          /\ returns'[t].number = returns[t].number /\ returns'[t].lines = returns[t].lines
      BY <2>1 DEF ReturnsQuiet, Numbered
    <2>3. PICK n \in Number : n = returns[t].number /\ n # NoNumber
      BY <2>2, NumberOf DEF Numbered
    <2>4. MovedForth(moves', family, n, u) = MovedForth(moves, family, n, u)
      BY <1>4, <2>3, MovedByOthers, MovedByReversal
    <2> QED BY <1>2, <2>2, <2>3, <2>4
  <1> QED BY <1>1, <1>3, <1>4, ConfirmsOrNot

-----------------------------------------------------------------------------
(* What a reversed return has undone.                                      *)

\* Of what k moved, all but the lines in left has moved back.
Gone(k, left) ==
    \A u \in Tracked :
        GoodsOf(returns[k].lines, u) <=
            MovedBack(moves, family, returns[k].number, u)
                + PickedSum(UnitsOf(u), returns[k].lines, left)

\* Of the refunds of k, all but those in left are reversed.
PaidAll(k, left) ==
    \A i \in 1..Len(refunds) : refunds[i].return = k /\ refunds[i].back = 0 => i \in left

\* A cancel under way is to do what is not done yet.
Progress(q) == q.step \in Cancelling => Gone(q.return, q.lines) /\ PaidAll(q.return, q.pays)

Undone ==
    /\ \A k \in 1..Len(returns) : returns[k].status = "Cancelled" /\ Numbered(k) =>
           Gone(k, {}) /\ PaidAll(k, {})
    /\ \A r \in Request : Progress(req[r])

(* What moves back under a number only grows. *)
LEMMA BacksGrow ==
    ASSUME Sound, Held, Document!NumbersInOrder, [Next]_vars,
           NEW n \in Number, n # NoNumber, NEW u \in Tracked
    PROVE  /\ MovedBack(moves, family, n, u) \in Nat /\ MovedBack(moves', family, n, u) \in Nat
           /\ MovedBack(moves, family, n, u) <= MovedBack(moves', family, n, u)
  <1>1. MovedBack(moves, family, n, u) \in Nat /\ TypeOK
    BY FiguresNat DEF Sound, TypeOK
  <1>2. ASSUME NEW r \in Request, ConfirmUnit(r)
        PROVE  MovedBack(moves', family, n, u) = MovedBack(moves, family, n, u)
    BY <1>2, ConfirmsRead, MovedByConfirm
  <1>3. ASSUME NEW r \in Request, ReverseLine(r)
        PROVE  /\ MovedBack(moves', family, n, u) \in Nat
               /\ MovedBack(moves, family, n, u) <= MovedBack(moves', family, n, u)
    <2>1. PICK k, line : k = req[r].return /\ line = returns[k].lines[First(req[r].lines)]
      OBVIOUS
    <2>2. /\ MovedBack(moves', family, n, u) = MovedBack(moves, family, n, u)
                 + (IF n = returns[k].number THEN UnitsOf(u)[line] ELSE 0)
          /\ line \in Line
      BY <1>3, <2>1, MovedByReversal
    <2>3. UnitsOf(u)[line] \in Nat
      <3>1. UnitsOf(u) \in [Line -> Nat]
        BY GoodsIsSum, EmptySeq
      <3> QED BY <2>2, <3>1
    <2> QED BY <1>1, <2>2, <2>3
  <1>4. CASE UNCHANGED moves \/ MovedBeside
    <2>1. MovedBack(moves', family, n, u) = MovedBack(moves, family, n, u)
      BY <1>4, MovedByOthers
    <2> QED BY <1>1, <2>1
  <1> QED BY <1>1, <1>2, <1>3, <1>4, ConfirmsOrNot

(* A refund without a reversal is an old one, or of a confirmed return. *)
LEMMA OpenRefunds ==
    ASSUME Sound, Held, Document!NumbersInOrder, [Next]_vars,
           NEW i \in 1..Len(refunds'), refunds'[i].back = 0
    PROVE  \/ /\ i \in 1..Len(refunds) /\ refunds[i].back = 0
              /\ refunds'[i].return = refunds[i].return
           \/ returns'[refunds'[i].return].status = "Confirmed"
  <1>1. refunds \in Seq(Refund) /\ Len(refunds) \in Nat /\ TypeOK
    BY LenProperties DEF Sound, TypeOK
  <1>2. CASE UNCHANGED refunds
    BY <1>2
  <1>3. ASSUME NEW r \in Request, ConfirmUnit(r)
        PROVE  \/ i \in 1..Len(refunds) /\ refunds'[i] = refunds[i]
               \/ returns'[refunds'[i].return].status = "Confirmed"
    <2>1. PICK k, number, plan : Confirms(k, number, plan)
      BY <1>3, ConfirmsRead
    <2>2. returns'[k].status = "Confirmed" /\ k \in 1..Len(returns)
      BY <2>1, ConfirmedTable
    <2>3. k \in Nat \ {0} /\ plan \in Seq(Share) /\ Len(entries) \in Nat
      <3>1. Len(returns) \in Nat /\ Len(entries) \in Nat
        BY LenProperties DEF Sound, TypeOK
      <3> QED BY <2>1, <2>2, <3>1 DEF Confirms
    <2>4. PICK new \in Seq(Refund) : new = RowsOf(k, plan, Len(entries))
      BY <2>3, RowsOfTyped
    <2>5. Len(new) = Len(plan)
      BY <2>3, <2>4, RowsOfTyped
    <2>6. ASSUME NEW j \in 1..Len(new) PROVE new[j].return = k
      <3>1. PICK row : row = [return |-> k, account |-> plan[j].account, amount |-> plan[j].amount,
                              tx |-> Len(entries) + j, back |-> 0]
        OBVIOUS
      <3>2. new[j] = row
        BY <2>4, <2>5, <3>1 DEF RowsOf
      <3> QED BY <3>1, <3>2
    <2>7. refunds' = refunds \o new
      BY <2>1, <2>4 DEF Confirms
    <2>8. /\ \A j \in 1..Len(refunds) : refunds'[j] = refunds[j]
          /\ \A j \in 1..Len(new) : refunds'[Len(refunds) + j] = new[j]
          /\ i \in 1..Len(refunds) \/ \E j \in 1..Len(new) : i = Len(refunds) + j
      BY <1>1, <2>7, RowsConcatenated
    <2> QED BY <2>2, <2>6, <2>8
  <1>4. ASSUME NEW r \in Request, LinkBack(r)
        PROVE  i \in 1..Len(refunds) /\ refunds'[i] = refunds[i]
    <2>1. PICK j \in 1..Len(refunds), pay \in Refund :
              pay.back # 0 /\ refunds' = [refunds EXCEPT ![j] = pay]
      BY <1>4, BackLinked
    <2>2. /\ Len(refunds') = Len(refunds) /\ refunds'[j] = pay
          /\ \A k \in 1..Len(refunds) : k # j => refunds'[k] = refunds[k]
      BY <1>1, <2>1, ExceptSeq
    <2> QED BY <2>1, <2>2
  <1> QED BY <1>1, <1>2, <1>3, <1>4, ConfirmsOrNot

(* Only the end of a cancel cancels a numbered return. *)
LEMMA NewlyCancelled ==
    ASSUME OneAtATime, Sound, Held, Document!NumbersInOrder, [Next]_vars,
           NEW k \in 1..Len(returns'), returns'[k].status = "Cancelled",
           returns'[k].number # NoNumber, ~ \E r \in Request : CancelClose(r)
    PROVE  /\ k \in 1..Len(returns) /\ Numbered(k) /\ returns[k].status = "Cancelled"
           /\ returns'[k].number = returns[k].number /\ returns'[k].lines = returns[k].lines
  <1>1. returns \in Seq(Return) /\ Typed /\ Len(returns) \in Nat /\ TypeOK
    BY LenProperties DEF Sound, TypeOK
  <1>2. ASSUME NEW t \in 1..Len(returns), NEW x, returns' = [returns EXCEPT ![t] = x],
               x.status # "Cancelled" \/ returns[t].status = "Cancelled" \/ x.number = NoNumber
        PROVE  k \in 1..Len(returns) /\ returns[k].status = "Cancelled"
    <2>1. /\ Len(returns') = Len(returns) /\ returns'[t] = x
          /\ \A s \in 1..Len(returns) : s # t => returns'[s] = returns[s]
      BY <1>1, <1>2
    <2> QED BY <1>2, <2>1
  <1>3. ASSUME NEW r \in Request, ConfirmUnit(r)
        PROVE  /\ k \in 1..Len(returns) /\ Numbered(k) /\ returns[k].status = "Cancelled"
               /\ returns'[k].number = returns[k].number /\ returns'[k].lines = returns[k].lines
    <2>1. PICK t, number, plan : Confirms(t, number, plan)
      BY <1>3, ConfirmsRead
    <2>2. /\ Len(returns') = Len(returns) /\ returns'[t].status = "Confirmed"
          /\ \A s \in 1..Len(returns) : s # t => returns'[s] = returns[s]
      BY <2>1, ConfirmedTable
    <2> QED BY <2>2 DEF Numbered
  <1>4. ASSUME Drafting PROVE k \in 1..Len(returns) /\ returns[k].status = "Cancelled"
    <2>1. ASSUME NEW p, NEW y, CreateDraft(p, y)
          PROVE  k \in 1..Len(returns) /\ returns[k].status = "Cancelled"
      <3>1. PICK x : x.status = "Draft" /\ returns' = Append(returns, x)
        <4>1. PICK x : x = [status |-> "Draft", number |-> NoNumber, parent |-> p, year |-> y,
                            lines |-> <<>>]
          OBVIOUS
        <4> QED BY <2>1, <4>1 DEF CreateDraft
      <3> QED BY <1>1, <3>1
    <2>2. ASSUME NEW t \in 1..Len(returns), NEW lines, EditLines(t, lines)
          PROVE  k \in 1..Len(returns) /\ returns[k].status = "Cancelled"
      <3>1. PICK old \in Return : old = returns[t]
        BY <1>1, ElementOfSeq
      <3>2. PICK x : x = [old EXCEPT !.lines = lines]
        OBVIOUS
      <3>3. x.status = old.status /\ old.status = "Draft" /\ returns' = [returns EXCEPT ![t] = x]
        BY <2>2, <3>1, <3>2 DEF EditLines, Rewrite, Is, Return
      <3> QED BY <1>2, <3>3
    <2>3. ASSUME NEW t \in 1..Len(returns), DeleteDraft(t)
          PROVE  k \in 1..Len(returns) /\ returns[k].status = "Cancelled"
      <3>1. PICK old \in Return : old = returns[t]
        BY <1>1, ElementOfSeq
      <3>2. PICK x : x = [old EXCEPT !.status = "deleted", !.lines = <<>>]
        OBVIOUS
      <3>3. x.status = "deleted" /\ returns' = [returns EXCEPT ![t] = x]
        BY <2>3, <3>1, <3>2 DEF DeleteDraft, Rewrite, Return
      <3> QED BY <1>2, <3>3
    <2>4. ASSUME NEW t \in 1..Len(returns), NEW y, HeaderWrite(t, y)
          PROVE  k \in 1..Len(returns) /\ returns[k].status = "Cancelled"
      <3>1. PICK old \in Return : old = returns[t]
        BY <1>1, ElementOfSeq
      <3>2. PICK x : x = [old EXCEPT !.year = y]
        OBVIOUS
      <3>3. x.status = old.status /\ returns' = [returns EXCEPT ![t] = x]
        BY <2>4, <3>1, <3>2 DEF HeaderWrite, Rewrite, Return
      <3> QED BY <1>2, <3>1, <3>3
    <2>5. ASSUME NEW t \in 1..Len(returns), Discard(t)
          PROVE  k \in 1..Len(returns) /\ returns[k].status = "Cancelled"
      <3>1. PICK old \in Return : old = returns[t]
        BY <1>1, ElementOfSeq
      <3>2. PICK x : x = [old EXCEPT !.status = "Cancelled"]
        OBVIOUS
      <3>3. old.status = "Draft"
        BY <2>5, <3>1 DEF Discard, Is
      <3>4. old.number = NoNumber
        BY <1>1, <3>1, <3>3 DEF Typed
      <3>5. x.number = old.number /\ returns' = [returns EXCEPT ![t] = x]
        BY <2>5, <3>1, <3>2 DEF Discard, Rewrite, Return
      <3> QED BY <1>2, <3>4, <3>5
    <2> QED BY <1>4, <2>1, <2>2, <2>3, <2>4, <2>5 DEF Drafting, AddLine, UpdateLine, RemoveLine
  <1>5. UNCHANGED returns => k \in 1..Len(returns) /\ returns[k].status = "Cancelled"
    OBVIOUS
  <1>6. \/ \E r \in Request : ConfirmUnit(r)
        \/ k \in 1..Len(returns) /\ returns[k].status = "Cancelled" /\ UNCHANGED lastNumber
    <2>1. \A r \in Request : (\E t \in 1..Len(returns) : ConfirmRead(r, t) \/ CancelRead(r, t)) \/ Quit(r)
              => UNCHANGED returns
      BY DEF Quit, ConfirmRead, CancelRead, Unwritten
    <2>2. ASSUME NEW r \in Request, Works(r)
          PROVE  CancelClose(r) \/ ConfirmUnit(r) \/ UNCHANGED returns
      BY <2>2 DEF Works, ReverseLine, PayForth, LinkBack
    <2>3. UNCHANGED vars => UNCHANGED returns
      BY DEF vars
    <2>4. Beside => UNCHANGED returns
      BY DEF Beside, AnnulParent, PayParent, MoveByHand, SpendByHand
    <2> QED BY <1>1, <1>4, <1>5, <2>1, <2>2, <2>3, <2>4, ConfirmsOrNot DEF Next
  <1>7. ASSUME k \in 1..Len(returns), UNCHANGED lastNumber
        PROVE  /\ Numbered(k) /\ returns'[k].number = returns[k].number
               /\ returns'[k].lines = returns[k].lines
    <2>1. ReturnsQuiet
      BY <1>1, <1>7, StepOnTable, QuietTable
    <2> QED BY <1>7, <2>1 DEF ReturnsQuiet, Numbered
  <1> QED BY <1>3, <1>6, <1>7

(* What has moved back stays so. *)
LEMMA GoneStays ==
    ASSUME Sound, Held, Document!NumbersInOrder, [Next]_vars,
           NEW k \in 1..Len(returns), Numbered(k), NEW left, Gone(k, left)
    PROVE  Gone(k, left)'
  <1>1. RecordsKept
    BY StepOnTable, TableFrozen DEF Sound
  <1>2. returns'[k].number = returns[k].number /\ returns'[k].lines = returns[k].lines
    BY <1>1 DEF RecordsKept
  <1>3. PICK n \in Number : n = returns[k].number /\ n # NoNumber
    BY NumberOf DEF Numbered
  <1>4. PICK lines \in Seq(Line) : lines = returns[k].lines
    BY RowsTyped DEF Sound
  <1>5. UNCHANGED family
    BY ConfirmsOrNot DEF Sound
  <1>6. ASSUME NEW u \in Tracked
        PROVE  GoodsOf(lines, u) <= MovedBack(moves', family, n, u) + PickedSum(UnitsOf(u), lines, left)
    <2>1. UnitsOf(u) \in [Line -> Nat] /\ GoodsOf(lines, u) \in Nat
      BY GoodsIsSum
    <2>2. PickedSum(UnitsOf(u), lines, left) \in Nat
      BY <2>1, PickedNat
    <2>3. /\ MovedBack(moves, family, n, u) \in Nat /\ MovedBack(moves', family, n, u) \in Nat
          /\ MovedBack(moves, family, n, u) <= MovedBack(moves', family, n, u)
      BY <1>3, BacksGrow
    <2>4. GoodsOf(lines, u) <= MovedBack(moves, family, n, u) + PickedSum(UnitsOf(u), lines, left)
      BY <1>3, <1>4 DEF Gone
    <2> QED BY <2>1, <2>2, <2>3, <2>4
  <1>7. returns'[k].number = n /\ returns'[k].lines = lines
    BY <1>2, <1>3, <1>4
  <1> QED BY <1>5, <1>6, <1>7 DEF Gone, GoodsOf, MovedBack, BackFigure, PickedSum, UnitsOf

(* A return that is confirmed no longer gains no refund to reverse. *)
LEMMA PaidAllStays ==
    ASSUME Sound, Held, Document!NumbersInOrder, [Next]_vars,
           NEW k \in 1..Len(returns), returns'[k].status # "Confirmed" \/ UNCHANGED refunds,
           NEW left, PaidAll(k, left)
    PROVE  PaidAll(k, left)'
  <1> SUFFICES ASSUME NEW i \in 1..Len(refunds'), refunds'[i].return = k, refunds'[i].back = 0
               PROVE  i \in left
    BY DEF PaidAll
  <1>1. CASE UNCHANGED refunds
    BY <1>1 DEF PaidAll
  <1>2. CASE returns'[k].status # "Confirmed"
    BY <1>2, OpenRefunds DEF PaidAll
  <1> QED BY <1>1, <1>2

-----------------------------------------------------------------------------
(* A cancel under way undoes, line by line and refund by refund.           *)

LEMMA ProgressMoves ==
    ASSUME Typed, NEW r \in Request, Sole(r), NEW st, Becomes(r, st), Progress(st)'
    PROVE  \A o \in Request : Progress(req[o])'
  <1> SUFFICES ASSUME NEW o \in Request PROVE Progress(req[o])'
    OBVIOUS
  <1>1. PICK q : q = req'[o]
    OBVIOUS
  <1>2. q = st \/ q = Idle
    BY <1>1 DEF Becomes, Sole, Typed
  <1>3. Progress(Idle)'
    BY DEF Progress, Idle, Cancelling
  <1>4. Progress(q)'
    BY <1>2, <1>3
  <1> QED BY <1>1, <1>4 DEF Progress

(* Lines and refunds a cancel has read are all there is to undo. *)
LEMMA CancelProgress ==
    ASSUME Sound, NEW r \in Request, Sole(r), NEW k \in 1..Len(returns), CancelRead(r, k)
    PROVE  \A o \in Request : Progress(req[o])'
  <1>1. PICK lines \in Seq(Line) : lines = returns[k].lines
    BY RowsTyped DEF Sound
  <1>2. PICK ids : ids = {i \in 1..Len(lines) : Sold[lines[i].sold].product \in Tracked}
    OBVIOUS
  <1>3. PICK pays : pays = RefundsOf(k)
    OBVIOUS
  <1>4. PICK st : st = [step |-> "reverse", return |-> k, pays |-> pays, lines |-> ids]
    OBVIOUS
  <1>5. UNCHANGED <<family, returns, moves, refunds>> /\ Typed /\ moves \in Seq(Move)
    BY DEF CancelRead, Unwritten, Sound, TypeOK
  <1>6. Becomes(r, st)
    BY <1>1, <1>2, <1>3, <1>4 DEF CancelRead
  <1>7. PaidAll(k, pays)
    BY <1>3 DEF PaidAll, RefundsOf
  <1>8. Gone(k, ids)
    <2> SUFFICES ASSUME NEW u \in Tracked
                 PROVE  GoodsOf(lines, u) <=
                            MovedBack(moves, family, returns[k].number, u)
                                + PickedSum(UnitsOf(u), lines, ids)
      BY <1>1 DEF Gone
    <2>1. /\ UnitsOf(u) \in [Line -> Nat] /\ GoodsOf(lines, u) \in Nat
          /\ GoodsOf(lines, u) = RowSum(UnitsOf(u), lines)
      BY GoodsIsSum
    <2>2. \A i \in 1..Len(lines) : i \in ids \/ UnitsOf(u)[lines[i]] = 0
      <3> SUFFICES ASSUME NEW i \in 1..Len(lines), i \notin ids PROVE UnitsOf(u)[lines[i]] = 0
        OBVIOUS
      <3>1. lines[i] \in Line /\ Sold[lines[i].sold].product # u
        BY <1>2, ElementOfSeq
      <3> QED BY <3>1 DEF UnitsOf
    <2>3. PickedSum(UnitsOf(u), lines, ids) = RowSum(UnitsOf(u), lines)
      BY <2>2, PickedAll
    <2>4. MovedBack(moves, family, returns[k].number, u) \in Nat
      BY <1>5, FiguresNat
    <2> QED BY <2>1, <2>3, <2>4
  <1>9. Gone(k, ids)' /\ PaidAll(k, pays)'
    BY <1>5, <1>7, <1>8 DEF Gone, PaidAll
  <1>10. st.return = k /\ st.pays = pays /\ st.lines = ids
    BY <1>4
  <1>11. Progress(st)'
    BY <1>9, <1>10 DEF Progress
  <1> QED BY <1>5, <1>6, <1>11, ProgressMoves

(* One line moves back, and is no longer among those still to. *)
LEMMA ReverseProgress ==
    ASSUME Sound, NEW r \in Request, ReverseLine(r),
           NEW k, k = req[r].return, NEW ids, ids = req[r].lines, Gone(k, ids)
    PROVE  Gone(k, ids \ {First(ids)})'
  <1>1. PICK lines, n, j, line :
            /\ lines \in Seq(Line) /\ lines = returns[k].lines /\ n = returns[k].number /\ j = First(ids)
            /\ j \in ids /\ j \in 1..Len(lines) /\ line = lines[j] /\ line \in Line
    <2>1. PICK line \in Line :
              /\ k \in 1..Len(returns)
              /\ First(ids) \in ids /\ First(ids) \in 1..Len(returns[k].lines)
              /\ line = returns[k].lines[First(ids)]
      BY ReverseMove
    <2>2. returns[k].lines \in Seq(Line)
      BY <2>1, RowsTyped DEF Sound
    <2> QED BY <2>1, <2>2
  <1>2. UNCHANGED <<family, returns>> /\ moves \in Seq(Move)
    BY DEF ReverseLine, Sound, TypeOK
  <1>3. ASSUME NEW u \in Tracked
        PROVE  GoodsOf(lines, u) <=
                   MovedBack(moves', family, n, u) + PickedSum(UnitsOf(u), lines, ids \ {j})
    <2>1. /\ UnitsOf(u) \in [Line -> Nat] /\ UnitsOf(u) \in [Line -> Int]
          /\ GoodsOf(lines, u) \in Nat
      BY <1>1, GoodsIsSum
    <2>2. PICK d \in Nat : d = UnitsOf(u)[line]
      BY <1>1, <2>1
    <2>3. PickedSum(UnitsOf(u), lines, ids) = PickedSum(UnitsOf(u), lines, ids \ {j}) + d
      <3>1. SplitAt(UnitsOf(u), lines, ids, j)
        BY <1>1, <2>1, PickedLess
      <3> QED BY <1>1, <2>2, <3>1 DEF SplitAt
    <2>4. MovedBack(moves', family, n, u) =
              MovedBack(moves, family, n, u) + (IF n = returns[k].number THEN UnitsOf(u)[line] ELSE 0)
      BY <1>1, MovedByReversal
    <2>5. MovedBack(moves', family, n, u) = MovedBack(moves, family, n, u) + d
      BY <1>1, <2>2, <2>4
    <2>6. /\ PickedSum(UnitsOf(u), lines, ids) \in Nat
          /\ PickedSum(UnitsOf(u), lines, ids \ {j}) \in Nat
      BY <1>1, <2>1, PickedNat
    <2>7. MovedBack(moves, family, n, u) \in Nat
      BY <1>2, FiguresNat
    <2>8. GoodsOf(lines, u) <= MovedBack(moves, family, n, u) + PickedSum(UnitsOf(u), lines, ids)
      BY <1>1 DEF Gone
    <2> QED BY <2>1, <2>3, <2>5, <2>6, <2>7, <2>8
  <1>4. returns'[k].number = n /\ returns'[k].lines = lines
    BY <1>1, <1>2
  <1>5. PICK left : left = ids \ {j}
    OBVIOUS
  <1>6. Gone(k, left)'
    BY <1>2, <1>3, <1>4, <1>5 DEF Gone, GoodsOf, MovedBack, BackFigure, PickedSum, UnitsOf
  <1>7. left = ids \ {First(ids)}
    BY <1>1, <1>5
  <1> QED BY <1>6, <1>7 DEF Gone

(* One refund is linked to its reversal, and is no longer among those to. *)
LEMMA LinkProgress ==
    ASSUME Sound, NEW r \in Request, LinkBack(r), NEW k, NEW ids, ids = req[r].pays,
           PaidAll(k, ids)
    PROVE  PaidAll(k, ids \ {First(ids)})'
  <1>1. PICK j \in 1..Len(refunds), pay \in Refund :
            /\ j = First(ids) /\ j \in ids /\ pay.back # 0
            /\ refunds' = [refunds EXCEPT ![j] = pay]
    BY BackLinked
  <1>2. refunds \in Seq(Refund)
    BY DEF Sound, TypeOK
  <1>3. /\ Len(refunds') = Len(refunds) /\ refunds'[j] = pay
        /\ \A i \in 1..Len(refunds) : i # j => refunds'[i] = refunds[i]
    BY <1>1, <1>2, ExceptSeq
  <1>4. PICK left : left = ids \ {j}
    OBVIOUS
  <1>5. PaidAll(k, left)'
    BY <1>1, <1>3, <1>4 DEF PaidAll
  <1>6. left = ids \ {First(ids)}
    BY <1>1, <1>4
  <1> QED BY <1>5, <1>6 DEF PaidAll

(* A request that works on keeps what it is to do true. *)
LEMMA WorksProgress ==
    ASSUME Sound, Held, Document!NumbersInOrder, [Next]_vars,
           NEW r \in Request, Sole(r), Progress(req[r]), Works(r) \/ Quit(r)
    PROVE  \A o \in Request : Progress(req[o])'
  <1>1. PICK q : q = req[r]
    OBVIOUS
  <1>2. Relies(q, returns) /\ Progress(q) /\ Typed
    BY <1>1 DEF Sound, Typed
  <1>3. CASE ConfirmUnit(r) \/ CancelClose(r) \/ Quit(r)
    <2>1. Becomes(r, Idle)
      BY <1>3 DEF CancelClose, Quit, ConfirmUnit
    <2>2. Progress(Idle)'
      BY DEF Progress, Idle, Cancelling
    <2> QED BY <1>2, <2>1, <2>2, ProgressMoves
  <1>4. ASSUME NEW st, Becomes(r, st), st.return = q.return,
               Gone(q.return, st.lines)', PaidAll(q.return, st.pays)'
        PROVE  \A o \in Request : Progress(req[o])'
    <2>1. Progress(st)'
      BY <1>4 DEF Progress
    <2> QED BY <1>2, <1>4, <2>1, ProgressMoves
  <1>5. ASSUME q.step \in Cancelling
        PROVE  /\ Gone(q.return, q.lines)'
               /\ UNCHANGED refunds => PaidAll(q.return, q.pays)'
    <2>1. PICK k, left, pays : k = q.return /\ left = q.lines /\ pays = q.pays
      OBVIOUS
    <2>2. k \in 1..Len(returns) /\ Numbered(k) /\ Gone(k, left) /\ PaidAll(k, pays)
      BY <1>2, <1>5, <2>1 DEF Relies, Numbered, Progress
    <2>3. Gone(k, left)' /\ (UNCHANGED refunds => PaidAll(k, pays)')
      BY <2>2, GoneStays, PaidAllStays
    <2> QED BY <2>1, <2>3
  <1>6. ASSUME ReverseLine(r) PROVE \A o \in Request : Progress(req[o])'
    <2>1. PICK left, st : left = q.lines \ {First(q.lines)} /\ st = [q EXCEPT !.lines = left]
      OBVIOUS
    <2>2. q.step = "reverse" /\ Becomes(r, st) /\ UNCHANGED refunds
      BY <1>1, <1>6, <2>1 DEF ReverseLine
    <2>3. q = [step |-> "reverse", return |-> q.return, lines |-> q.lines, pays |-> q.pays]
      BY <1>2, <2>2 DEF Relies
    <2>4. st = [step |-> "reverse", return |-> q.return, lines |-> left, pays |-> q.pays]
      BY <2>1, <2>3, LineTaken
    <2>5. st.return = q.return /\ st.lines = left /\ st.pays = q.pays
      BY <2>4
    <2>6. q.step \in Cancelling
      BY <2>2 DEF Cancelling
    <2>7. PICK k, ids : k = q.return /\ ids = q.lines /\ Gone(k, ids)
      BY <1>2, <2>6 DEF Progress
    <2>8. Gone(k, ids \ {First(ids)})'
      BY <1>1, <1>6, <2>7, ReverseProgress
    <2>9. Gone(q.return, st.lines)'
      BY <2>1, <2>5, <2>7, <2>8
    <2> QED BY <1>4, <1>5, <2>2, <2>5, <2>6, <2>9
  <1>7. ASSUME PayForth(r) PROVE \A o \in Request : Progress(req[o])'
    <2>1. PICK st : st = [step |-> "link", return |-> q.return, lines |-> {}, pays |-> q.pays,
                          tx |-> Len(entries) + 1]
      OBVIOUS
    <2>2. q.step = "reverse" /\ q.lines = {} /\ Becomes(r, st) /\ UNCHANGED refunds
      BY <1>1, <1>7, <2>1 DEF PayForth
    <2>3. st.return = q.return /\ st.lines = q.lines /\ st.pays = q.pays
      BY <2>1, <2>2
    <2>4. q.step \in Cancelling
      BY <2>2 DEF Cancelling
    <2> QED BY <1>4, <1>5, <2>2, <2>3, <2>4
  <1>8. ASSUME LinkBack(r) PROVE \A o \in Request : Progress(req[o])'
    <2>1. PICK st : st = [step |-> "reverse", return |-> q.return, lines |-> {},
                          pays |-> q.pays \ {First(q.pays)}]
      OBVIOUS
    <2>2. q.step = "link" /\ Becomes(r, st)
      BY <1>1, <1>8, <2>1 DEF LinkBack
    <2>3. q.lines = {}
      BY <1>1, <2>2, RequestShape DEF Sound
    <2>4. st.return = q.return /\ st.lines = q.lines /\ st.pays = q.pays \ {First(q.pays)}
      BY <2>1, <2>3
    <2>5. q.step \in Cancelling
      BY <2>2 DEF Cancelling
    <2>6. PICK k, ids : k = q.return /\ ids = q.pays /\ PaidAll(k, ids)
      BY <1>2, <2>5 DEF Progress
    <2>7. PaidAll(k, ids \ {First(ids)})'
      BY <1>1, <1>8, <2>6, LinkProgress
    <2>8. PaidAll(q.return, st.pays)'
      BY <2>4, <2>6, <2>7
    <2> QED BY <1>4, <1>5, <2>2, <2>4, <2>5, <2>8
  <1> QED BY <1>3, <1>6, <1>7, <1>8 DEF Works

(* The cancel that closes has nothing left to do. *)
LEMMA CloseProgress ==
    ASSUME Sound, Held, Document!NumbersInOrder, [Next]_vars,
           NEW r \in Request, CancelClose(r), Progress(req[r]), NEW k, k = req[r].return
    PROVE  /\ k \in 1..Len(returns) /\ Gone(k, {})' /\ PaidAll(k, {})'
           /\ \A t \in 1..Len(returns) : t # k => returns'[t] = returns[t]
           /\ Len(returns') = Len(returns)
  <1>1. PICK q, x : /\ q = req[r] /\ k = q.return
                    /\ x = [returns[k] EXCEPT !.status = "Cancelled"]
    OBVIOUS
  <1>2. /\ q.step = "reverse" /\ q.lines = {} /\ q.pays = {} /\ UNCHANGED refunds
        /\ returns' = [returns EXCEPT ![k] = x]
    BY <1>1 DEF CancelClose, Rewrite
  <1>3. q.step \in Cancelling /\ Relies(q, returns) /\ Progress(q)
    BY <1>1, <1>2 DEF Cancelling, Sound, Typed
  <1>4. k \in 1..Len(returns) /\ Numbered(k) /\ Gone(k, {}) /\ PaidAll(k, {})
    BY <1>1, <1>2, <1>3 DEF Relies, Numbered, Progress
  <1>5. Gone(k, {})' /\ PaidAll(k, {})'
    BY <1>2, <1>4, GoneStays, PaidAllStays
  <1>6. /\ \A t \in 1..Len(returns) : t # k => returns'[t] = returns[t]
        /\ Len(returns') = Len(returns)
    BY <1>2, <1>4, RowsTyped DEF Sound
  <1> QED BY <1>1, <1>4, <1>5, <1>6

LEMMA UndoneStep ==
    OneAtATime /\ Sound /\ Alone /\ Held /\ Document!NumbersInOrder /\ Undone /\ [Next]_vars
        => Undone'
  <1> SUFFICES ASSUME OneAtATime, Sound, Alone, Held, Document!NumbersInOrder, Undone, [Next]_vars
               PROVE  Undone'
    OBVIOUS
  <1>1. Typed
    BY DEF Sound
  <1>2. \A o \in Request : Progress(req[o])'
    <2>1. CASE UNCHANGED vars
      <3> SUFFICES ASSUME NEW o \in Request PROVE Progress(req[o])'
        OBVIOUS
      <3>1. PICK q : q = req[o] /\ Progress(q)
        BY DEF Undone
      <3>2. UNCHANGED <<family, returns, moves, refunds>> /\ q = req'[o]
        BY <2>1, <3>1 DEF vars
      <3>3. Progress(q)'
        BY <3>1, <3>2 DEF Progress, Gone, PaidAll
      <3> QED BY <3>2, <3>3 DEF Progress
    <2>2. CASE (\A r \in Request : req[r] = Idle) /\ UNCHANGED req
      <3> SUFFICES ASSUME NEW o \in Request PROVE Progress(req[o])'
        OBVIOUS
      <3>1. PICK q : q = req'[o] /\ q = Idle
        BY <2>2
      <3>2. Progress(q)'
        BY <3>1 DEF Progress, Idle, Cancelling
      <3> QED BY <3>1, <3>2 DEF Progress
    <2>3. ASSUME NEW r \in Request, Sole(r), Starts(r) PROVE \A o \in Request : Progress(req[o])'
      <3>1. ASSUME NEW k \in 1..Len(returns), ConfirmRead(r, k)
            PROVE  \A o \in Request : Progress(req[o])'
        <4>1. PICK st : st.step = "confirm" /\ Becomes(r, st)
          <5>1. PICK st : st = [step |-> "confirm", return |-> k, seen |-> returns[k],
                    plan |-> RefundPlan(Worth(returns[k].lines), parents[returns[k].parent].paid)]
            OBVIOUS
          <5> QED BY <3>1, <5>1 DEF ConfirmRead
        <4>2. Progress(st)'
          BY <4>1 DEF Progress, Cancelling
        <4> QED BY <1>1, <2>3, <4>1, <4>2, ProgressMoves
      <3> QED BY <2>3, <3>1, CancelProgress DEF Starts
    <2>4. ASSUME NEW r \in Request, Sole(r), Works(r) \/ Quit(r)
          PROVE  \A o \in Request : Progress(req[o])'
      <3>1. Progress(req[r])
        BY DEF Undone
      <3> QED BY <2>4, <3>1, WorksProgress
    <2> QED BY <1>1, <2>1, <2>2, <2>3, <2>4, SerialCases
  <1>3. ASSUME NEW k \in 1..Len(returns'), returns'[k].status = "Cancelled",
               returns'[k].number # NoNumber
        PROVE  Gone(k, {})' /\ PaidAll(k, {})'
    <2>1. ASSUME k \in 1..Len(returns), Numbered(k), returns[k].status = "Cancelled"
          PROVE  Gone(k, {})' /\ PaidAll(k, {})'
      <3>1. Gone(k, {}) /\ PaidAll(k, {})
        BY <2>1 DEF Undone
      <3>2. returns'[k].status # "Confirmed"
        BY <1>3
      <3> QED BY <2>1, <3>1, <3>2, GoneStays, PaidAllStays
    <2>2. ASSUME NEW r \in Request, CancelClose(r) PROVE Gone(k, {})' /\ PaidAll(k, {})'
      <3>1. PICK t : t = req[r].return
        OBVIOUS
      <3>2. /\ Gone(t, {})' /\ PaidAll(t, {})' /\ Len(returns') = Len(returns)
            /\ \A s \in 1..Len(returns) : s # t => returns'[s] = returns[s]
        <4>1. Progress(req[r])
          BY DEF Undone
        <4> QED BY <2>2, <3>1, <4>1, CloseProgress
      <3>3. CASE k = t
        BY <3>2, <3>3
      <3>4. CASE k # t
        BY <1>3, <2>1, <3>2, <3>4 DEF Numbered
      <3> QED BY <3>3, <3>4
    <2> QED BY <1>3, <2>1, <2>2, NewlyCancelled
  <1> QED BY <1>2, <1>3 DEF Undone, Numbered

LEMMA UndoneMeans ==
    ASSUME Sound, WellMoved, Undone
    PROVE  MovedAndReversed
  <1>1. moves \in Seq(Move)
    BY DEF Sound, TypeOK
  <1> SUFFICES ASSUME NEW k \in 1..Len(returns), Numbered(k), NEW u \in Tracked
               PROVE  /\ MovedBy(returns[k].number, u, FALSE) = ReturnedOf(k, u)
                      /\ Is(k, "Cancelled") =>
                             /\ -MovedBy(returns[k].number, u, TRUE) >= ReturnedOf(k, u)
                             /\ \A i \in RefundsOf(k) : refunds[i].back # 0
    BY DEF MovedAndReversed
  <1>2. PICK n, lines : n = returns[k].number /\ lines = returns[k].lines
    OBVIOUS
  <1>3. lines \in Seq(Line)
    BY <1>2, RowsTyped DEF Sound
  <1>4. ReturnedOf(k, u) = GoodsOf(lines, u) /\ GoodsOf(lines, u) \in Nat
    BY <1>2, <1>3, GoodsIsSum DEF ReturnedOf, GoodsOf
  <1>5. /\ MovedBy(n, u, FALSE) = MovedForth(moves, family, n, u)
        /\ MovedBy(n, u, TRUE) = 0 - MovedBack(moves, family, n, u)
        /\ MovedBack(moves, family, n, u) \in Nat
    BY <1>1, MovedNow
  <1>6. MovedBy(returns[k].number, u, FALSE) = ReturnedOf(k, u)
    BY <1>2, <1>4, <1>5 DEF WellMoved
  <1>7. ASSUME Is(k, "Cancelled")
        PROVE  /\ -MovedBy(returns[k].number, u, TRUE) >= ReturnedOf(k, u)
               /\ \A i \in RefundsOf(k) : refunds[i].back # 0
    <2>1. Gone(k, {}) /\ PaidAll(k, {})
      BY <1>7 DEF Undone, Is
    <2>2. \A i \in RefundsOf(k) : refunds[i].back # 0
      BY <2>1 DEF PaidAll, RefundsOf
    <2>3. PickedSum(UnitsOf(u), lines, {}) = 0
      BY <1>3, PickedNone
    <2>4. GoodsOf(lines, u) <= MovedBack(moves, family, n, u) + PickedSum(UnitsOf(u), lines, {})
      BY <1>2, <2>1 DEF Gone
    <2>5. GoodsOf(lines, u) <= MovedBack(moves, family, n, u)
      BY <1>4, <1>5, <2>3, <2>4
    <2>6. -(0 - MovedBack(moves, family, n, u)) >= GoodsOf(lines, u)
      BY <1>4, <1>5, <2>5
    <2> QED BY <1>2, <1>4, <1>5, <2>2, <2>6
  <1> QED BY <1>6, <1>7

(* Where requests are served one at a time, a confirmed return has moved   *)
(* exactly the goods of its lines, and a reversed one has moved them back  *)
(* and reversed every refund, however many attempts died or were refused   *)
(* half way before one went through: every attempt moves back every line   *)
(* it reads, and none can start once a refund is reversed.                 *)
THEOREM ReturnMovedAndReversed == OneAtATime => (Spec => []MovedAndReversed)
  <1>1. Init => MovesKnown /\ WellMoved
    BY DEF Init, MovesKnown, WellMoved
  <1>2. Init => Undone
    <2> SUFFICES ASSUME Init PROVE Undone
      OBVIOUS
    <2>1. \A r \in Request : req[r] = Idle
      BY DEF Init
    <2>2. Progress(Idle)
      BY DEF Progress, Idle, Cancelling
    <2>3. \A r \in Request : Progress(req[r])
      <3> SUFFICES ASSUME NEW r \in Request PROVE Progress(req[r])
        OBVIOUS
      <3> QED BY <2>1, <2>2
    <2>4. returns = <<>>
      BY DEF Init
    <2> QED BY <2>3, <2>4 DEF Undone
  <1>3. Sound /\ WellMoved /\ Undone => MovedAndReversed
    BY UndoneMeans
  <1>4. CASE OneAtATime
    <2>1. Spec => [](Alone /\ Held)
      BY <1>4, AlwaysHeld
    <2>2. Sound /\ Sound' /\ Held /\ Document!NumbersInOrder /\ MovesKnown /\ [Next]_vars => MovesKnown'
      BY MovesKnownStep
    <2>3. Sound /\ Sound' /\ Held /\ Document!NumbersInOrder /\ MovesKnown /\ WellMoved /\ [Next]_vars
              => WellMoved'
      BY WellMovedStep
    <2>4. Sound /\ Alone /\ Held /\ Document!NumbersInOrder /\ Undone /\ [Next]_vars => Undone'
      BY <1>4, UndoneStep
    <2> QED BY <1>1, <1>2, <1>3, <2>1, <2>2, <2>3, <2>4, AlwaysSound, ReturnNumbersDense, PTL DEF Spec
  <1> QED BY <1>4

=============================================================================
