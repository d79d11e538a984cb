----------------------------- MODULE SaleDocument -----------------------------
(***************************************************************************)
(* What a sale promises as a document, whatever else happens around it:    *)
(* it is a draft whose content may change, then carries the next number of *)
(* a year and is frozen, and may be annulled but never reopened.  Sales is *)
(* shown to implement it, and so are Purchases and Returns, whose tables   *)
(* keep the same promise.  The content is not interpreted; a step that     *)
(* changes it is described by what it leaves alone.                        *)
(***************************************************************************)
EXTENDS Integers, Sequences

CONSTANTS Year, Body   \* years that have a sequence; contents of a document

VARIABLES docs, lastNumber

NoNumber == <<>>

Doc == [status : {"Draft", "Confirmed", "Cancelled", "deleted"},
        number : {NoNumber} \cup (Year \X (Nat \ {0})), body : Body]

Init == docs = <<>> /\ lastNumber = [y \in Year |-> 0]

Create ==
    /\ Len(docs') = Len(docs) + 1
    /\ LET new == docs'[Len(docs')]
       IN  /\ new \in Doc /\ new.status = "Draft" /\ new.number = NoNumber
           /\ docs' = Append(docs, new)
    /\ UNCHANGED lastNumber

Edit(s) ==
    /\ docs[s].status = "Draft"
    /\ docs'[s].body \in Body
    /\ docs' = [docs EXCEPT ![s] = [@ EXCEPT !.body = docs'[s].body]]
    /\ UNCHANGED lastNumber

\* A number is issued and used in one step, or not at all.
Confirm(s, y) ==
    /\ docs[s].status = "Draft"
    /\ docs' = [docs EXCEPT ![s] = [@ EXCEPT !.status = "Confirmed",
                                             !.number = <<y, lastNumber[y] + 1>>]]
    /\ lastNumber' = [lastNumber EXCEPT ![y] = @ + 1]

Cancel(s) ==
    /\ docs[s].status \in {"Draft", "Confirmed"}
    /\ docs' = [docs EXCEPT ![s] = [@ EXCEPT !.status = "Cancelled"]]
    /\ UNCHANGED lastNumber

Delete(s) ==
    /\ docs[s].number = NoNumber
    /\ docs'[s].body \in Body
    /\ docs' = [docs EXCEPT ![s] = [@ EXCEPT !.status = "deleted", !.body = docs'[s].body]]
    /\ UNCHANGED lastNumber

Next ==
    \/ Create
    \/ \E s \in 1..Len(docs) :
        \/ Edit(s) \/ Cancel(s) \/ Delete(s)
        \/ \E y \in Year : Confirm(s, y)

vars == <<docs, lastNumber>>

Spec == Init /\ [][Next]_vars

-----------------------------------------------------------------------------

(* The numbers of a year are exactly 1..lastNumber, each on one document.  *)
NumbersInOrder ==
    /\ \A s \in 1..Len(docs) :
           docs[s].number # NoNumber =>
               \E y \in Year : \E n \in 1..lastNumber[y] : docs[s].number = <<y, n>>
    /\ \A y \in Year : \A n \in 1..lastNumber[y] :
           \E s \in 1..Len(docs) : docs[s].number = <<y, n>>
    /\ \A s, t \in 1..Len(docs) :
           docs[s].number = docs[t].number => s = t \/ docs[s].number = NoNumber

(* A numbered document keeps its number and its content and is never a     *)
(* draft again or deleted; an annulled one stays annulled.                 *)
FrozenStep ==
    \A s \in 1..Len(docs) : docs[s].number # NoNumber =>
        /\ docs'[s].number = docs[s].number /\ docs'[s].body = docs[s].body
        /\ docs'[s].status \in {"Confirmed", "Cancelled"}
        /\ docs[s].status = "Cancelled" => docs'[s].status = "Cancelled"

=============================================================================
