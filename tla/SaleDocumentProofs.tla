-------------------------- MODULE SaleDocumentProofs --------------------------
(***************************************************************************)
(* The promises of SaleDocument, for every set of years and contents.      *)
(***************************************************************************)
EXTENDS SaleDocument, SequenceTheorems, TLAPS

Number == {NoNumber} \cup (Year \X (Nat \ {0}))

(* The inductive invariant: only a document that was confirmed has a       *)
(* number, which is what lets a confirm use the next one.                  *)
Consistent ==
    /\ docs \in Seq(Doc) /\ lastNumber \in [Year -> Nat]
    /\ \A s \in 1..Len(docs) :
           /\ docs[s].status \in {"Draft", "deleted"} => docs[s].number = NoNumber
           /\ docs[s].status = "Confirmed" => docs[s].number # NoNumber
    /\ NumbersInOrder

(* Rewriting one document by a document. *)
LEMMA Rewritten ==
    ASSUME docs \in Seq(Doc), NEW s \in 1..Len(docs), NEW d \in Doc,
           docs' = [docs EXCEPT ![s] = d]
    PROVE  /\ docs' \in Seq(Doc) /\ Len(docs') = Len(docs) /\ docs'[s] = d
           /\ \A t \in 1..Len(docs) : t # s => docs'[t] = docs[t]
  BY ExceptSeq

(* A step that keeps the numbers of all documents keeps them in order. *)
LEMMA SameNumbers ==
    ASSUME NumbersInOrder, docs \in Seq(Doc), docs' \in Seq(Doc), Len(docs') = Len(docs),
           lastNumber' = lastNumber,
           \A t \in 1..Len(docs) : docs'[t].number = docs[t].number
    PROVE  NumbersInOrder'
  <1>1. \A t \in 1..Len(docs') :
            docs'[t].number # NoNumber =>
                \E y \in Year : \E n \in 1..lastNumber'[y] : docs'[t].number = <<y, n>>
    <2> SUFFICES ASSUME NEW t \in 1..Len(docs), docs'[t].number # NoNumber
                 PROVE  \E y \in Year : \E n \in 1..lastNumber[y] : docs'[t].number = <<y, n>>
      OBVIOUS
    <2>1. PICK y \in Year : \E n \in 1..lastNumber[y] : docs[t].number = <<y, n>>
      BY DEF NumbersInOrder
    <2>2. PICK n \in 1..lastNumber[y] : docs[t].number = <<y, n>>
      BY <2>1
    <2> QED BY <2>2
  <1>2. \A y \in Year : \A n \in 1..lastNumber'[y] :
            \E t \in 1..Len(docs') : docs'[t].number = <<y, n>>
    <2> SUFFICES ASSUME NEW y \in Year, NEW n \in 1..lastNumber[y]
                 PROVE  \E t \in 1..Len(docs) : docs'[t].number = <<y, n>>
      OBVIOUS
    <2>1. PICK t \in 1..Len(docs) : docs[t].number = <<y, n>>
      BY DEF NumbersInOrder
    <2> QED BY <2>1
  <1>3. \A t, u \in 1..Len(docs') :
            docs'[t].number = docs'[u].number => t = u \/ docs'[t].number = NoNumber
    BY Zenon DEF NumbersInOrder
  <1> QED BY <1>1, <1>2, <1>3 DEF NumbersInOrder

(* A number of the sequence is not the absent number, and is a pair. *)
LEMMA PairIsNumber ==
    \A y \in Year, n \in Nat \ {0} : <<y, n>> \in Number /\ <<y, n>> # NoNumber
  BY DEF Number, NoNumber

(* A new draft takes no number. *)
LEMMA CreateConsistent == Consistent /\ Create => Consistent'
  <1> SUFFICES ASSUME Consistent, Create PROVE Consistent'
    OBVIOUS
  <1>1. PICK new : /\ new \in Doc /\ new.status = "Draft" /\ new.number = NoNumber
                   /\ docs' = Append(docs, new)
    BY DEF Create
  <1>2. docs \in Seq(Doc) /\ lastNumber' = lastNumber /\ lastNumber \in [Year -> Nat]
    BY DEF Consistent, Create
  <1>3. /\ docs' \in Seq(Doc) /\ Len(docs') = Len(docs) + 1 /\ Len(docs) \in Nat
        /\ docs'[Len(docs) + 1] = new
        /\ \A t \in 1..Len(docs) : docs'[t] = docs[t]
    BY <1>1, <1>2
  <1>4. \A t \in 1..Len(docs') : t \in 1..Len(docs) \/ (t = Len(docs) + 1 /\ docs'[t] = new)
    BY <1>3
  <1>5. NumbersInOrder'
    <2>1. NumbersInOrder
      BY DEF Consistent
    <2>2. \A t \in 1..Len(docs') :
              docs'[t].number # NoNumber =>
                  \E y \in Year : \E n \in 1..lastNumber'[y] : docs'[t].number = <<y, n>>
      <3> SUFFICES ASSUME NEW t \in 1..Len(docs'), docs'[t].number # NoNumber
                   PROVE  \E y \in Year : \E n \in 1..lastNumber[y] : docs'[t].number = <<y, n>>
        BY <1>2, Zenon
      <3>1. t \in 1..Len(docs) /\ docs'[t] = docs[t]
        BY <1>1, <1>3, <1>4
      <3>2. PICK y \in Year : \E n \in 1..lastNumber[y] : docs[t].number = <<y, n>>
        BY <3>1, <2>1 DEF NumbersInOrder
      <3>3. PICK n \in 1..lastNumber[y] : docs[t].number = <<y, n>>
        BY <3>2
      <3> QED BY <3>1, <3>3
    <2>3. \A y \in Year : \A n \in 1..lastNumber'[y] :
              \E t \in 1..Len(docs') : docs'[t].number = <<y, n>>
      <3> SUFFICES ASSUME NEW y \in Year, NEW n \in 1..lastNumber[y]
                   PROVE  \E t \in 1..Len(docs') : docs'[t].number = <<y, n>>
        BY <1>2, Zenon
      <3>1. PICK t \in 1..Len(docs) : docs[t].number = <<y, n>>
        BY <2>1 DEF NumbersInOrder
      <3>2. t \in 1..Len(docs') /\ docs'[t] = docs[t]
        BY <1>3
      <3> QED BY <3>1, <3>2, Zenon
    <2>4. \A t, u \in 1..Len(docs') :
              docs'[t].number = docs'[u].number => t = u \/ docs'[t].number = NoNumber
      BY <1>1, <1>3, <1>4, <2>1 DEF NumbersInOrder
    <2> QED BY <2>2, <2>3, <2>4 DEF NumbersInOrder
  <1>6. \A t \in 1..Len(docs') :
            /\ docs'[t].status \in {"Draft", "deleted"} => docs'[t].number = NoNumber
            /\ docs'[t].status = "Confirmed" => docs'[t].number # NoNumber
    BY <1>1, <1>3, <1>4 DEF Consistent
  <1> QED BY <1>2, <1>3, <1>5, <1>6 DEF Consistent

(* A rewrite that keeps the number and fits the status keeps the invariant. *)
LEMMA RewriteConsistent ==
    ASSUME Consistent, NEW s \in 1..Len(docs), NEW d \in Doc,
           docs' = [docs EXCEPT ![s] = d], lastNumber' = lastNumber,
           d.number = docs[s].number,
           d.status \in {"Draft", "deleted"} => d.number = NoNumber,
           d.status = "Confirmed" => d.number # NoNumber
    PROVE  Consistent'
  <1>1. /\ docs' \in Seq(Doc) /\ Len(docs') = Len(docs) /\ docs'[s] = d
        /\ \A t \in 1..Len(docs) : t # s => docs'[t] = docs[t]
    BY Rewritten DEF Consistent
  <1>2. \A t \in 1..Len(docs) : docs'[t].number = docs[t].number
    BY <1>1
  <1>3. NumbersInOrder'
    BY <1>1, <1>2, SameNumbers DEF Consistent
  <1>4. \A t \in 1..Len(docs') :
            /\ docs'[t].status \in {"Draft", "deleted"} => docs'[t].number = NoNumber
            /\ docs'[t].status = "Confirmed" => docs'[t].number # NoNumber
    BY <1>1 DEF Consistent
  <1> QED BY <1>1, <1>3, <1>4 DEF Consistent

(* Confirming a draft uses the next number of the year. *)
LEMMA ConfirmConsistent ==
    ASSUME Consistent, NEW s \in 1..Len(docs), NEW y \in Year, Confirm(s, y)
    PROVE  Consistent'
  <1> DEFINE n == lastNumber[y] + 1
             d == [docs[s] EXCEPT !.status = "Confirmed", !.number = <<y, n>>]
  <1>1. docs[s] \in Doc /\ docs \in Seq(Doc) /\ lastNumber \in [Year -> Nat]
    BY ElementOfSeq DEF Consistent
  <1>2. n \in Nat \ {0} /\ n = lastNumber[y] + 1
    BY <1>1
  <1>3. d \in Doc /\ d.number = <<y, n>> /\ d.status = "Confirmed" /\ <<y, n>> # NoNumber
    BY <1>1, <1>2, PairIsNumber DEF Doc, Number
  <1>4. docs' = [docs EXCEPT ![s] = d] /\ lastNumber' = [lastNumber EXCEPT ![y] = n]
    BY DEF Confirm
  <1>5. docs[s].number = NoNumber
    BY DEF Confirm, Consistent
  <1> HIDE DEF n, d
  <1>6. /\ docs' \in Seq(Doc) /\ Len(docs') = Len(docs) /\ docs'[s] = d
        /\ \A t \in 1..Len(docs) : t # s => docs'[t] = docs[t]
    BY <1>1, <1>3, <1>4, Rewritten
  <1>7. /\ lastNumber' \in [Year -> Nat] /\ lastNumber'[y] = n
        /\ \A z \in Year : z # y => lastNumber'[z] = lastNumber[z]
    BY <1>1, <1>2, <1>4
  <1>8. \A t \in 1..Len(docs) : docs[t].number # <<y, n>>
    <2> SUFFICES ASSUME NEW t \in 1..Len(docs), docs[t].number = <<y, n>> PROVE FALSE
      OBVIOUS
    <2>1. PICK z \in Year : \E m \in 1..lastNumber[z] : docs[t].number = <<z, m>>
      BY <1>3 DEF Consistent, NumbersInOrder
    <2>2. PICK m \in 1..lastNumber[z] : <<y, n>> = <<z, m>>
      BY <2>1
    <2>3. z = y /\ m = n
      BY <2>2
    <2> QED BY <1>1, <1>2, <2>2, <2>3
  <1>9. NumbersInOrder'
    <2>1. \A t \in 1..Len(docs') : docs'[t].number # NoNumber =>
              \E z \in Year : \E m \in 1..lastNumber'[z] : docs'[t].number = <<z, m>>
      <3> SUFFICES ASSUME NEW t \in 1..Len(docs), docs'[t].number # NoNumber
                   PROVE  \E z \in Year : \E m \in 1..lastNumber'[z] : docs'[t].number = <<z, m>>
        BY <1>6
      <3>1. CASE t = s
        <4>1. n \in 1..lastNumber'[y]
          BY <1>2, <1>7
        <4> QED BY <3>1, <4>1, <1>3, <1>6
      <3>2. CASE t # s
        <4>1. PICK z \in Year : \E m \in 1..lastNumber[z] : docs[t].number = <<z, m>>
          BY <3>2, <1>6 DEF Consistent, NumbersInOrder
        <4>2. PICK m \in 1..lastNumber[z] : docs[t].number = <<z, m>>
          BY <4>1
        <4>3. m \in 1..lastNumber'[z]
          BY <4>2, <1>1, <1>2, <1>7
        <4> QED BY <3>2, <4>2, <4>3, <1>6
      <3> QED BY <3>1, <3>2
    <2>2. \A z \in Year : \A m \in 1..lastNumber'[z] :
              \E t \in 1..Len(docs') : docs'[t].number = <<z, m>>
      <3> SUFFICES ASSUME NEW z \in Year, NEW m \in 1..lastNumber'[z]
                   PROVE  \E t \in 1..Len(docs) : docs'[t].number = <<z, m>>
        BY <1>6
      <3>1. CASE z = y /\ m = n
        BY <3>1, <1>3, <1>6
      <3>2. CASE ~ (z = y /\ m = n)
        <4>1. m \in 1..lastNumber[z]
          BY <3>2, <1>1, <1>2, <1>7
        <4>2. PICK t \in 1..Len(docs) : docs[t].number = <<z, m>>
          BY <4>1 DEF Consistent, NumbersInOrder
        <4>3. m \in Nat \ {0}
          BY <4>1, <1>1
        <4>4. t # s
          BY <4>2, <4>3, <1>5, PairIsNumber
        <4> QED BY <4>2, <4>4, <1>6
      <3> QED BY <3>1, <3>2
    <2>3. \A t, u \in 1..Len(docs') :
              docs'[t].number = docs'[u].number => t = u \/ docs'[t].number = NoNumber
      <3> SUFFICES ASSUME NEW t \in 1..Len(docs), NEW u \in 1..Len(docs),
                          docs'[t].number = docs'[u].number
                   PROVE  t = u \/ docs'[t].number = NoNumber
        BY <1>6
      <3>1. CASE t # s /\ u # s
        BY <3>1, <1>6 DEF Consistent, NumbersInOrder
      <3>2. CASE t = s \/ u = s
        BY <3>2, <1>3, <1>6, <1>8
      <3> QED BY <3>1, <3>2
    <2> QED BY <2>1, <2>2, <2>3 DEF NumbersInOrder
  <1>10. \A t \in 1..Len(docs') :
            /\ docs'[t].status \in {"Draft", "deleted"} => docs'[t].number = NoNumber
            /\ docs'[t].status = "Confirmed" => docs'[t].number # NoNumber
    BY <1>3, <1>6 DEF Consistent
  <1> QED BY <1>6, <1>7, <1>9, <1>10 DEF Consistent

(* Every step preserves the invariant. *)
LEMMA ConsistentStep == Consistent /\ [Next]_vars => Consistent'
  <1> SUFFICES ASSUME Consistent, [Next]_vars PROVE Consistent'
    OBVIOUS
  <1>1. CASE Create
    BY <1>1, CreateConsistent
  <1>2. ASSUME NEW s \in 1..Len(docs), Edit(s) \/ Cancel(s) \/ Delete(s) PROVE Consistent'
    <2>1. docs[s] \in Doc
      BY ElementOfSeq DEF Consistent
    <2>2. PICK d : /\ d \in Doc /\ d.number = docs[s].number
                   /\ docs' = [docs EXCEPT ![s] = d] /\ lastNumber' = lastNumber
                   /\ d.status \in {"Draft", "deleted"} => d.number = NoNumber
                   /\ d.status = "Confirmed" => d.number # NoNumber
      <3>1. CASE Edit(s)
        <4>1. PICK b \in Body : docs' = [docs EXCEPT ![s] = [docs[s] EXCEPT !.body = b]]
          BY <3>1 DEF Edit
        <4>2. [docs[s] EXCEPT !.body = b] \in Doc
          BY <2>1 DEF Doc
        <4> QED BY <3>1, <4>1, <4>2, <2>1 DEF Edit, Consistent, Doc
      <3>2. CASE Cancel(s)
        <4>1. [docs[s] EXCEPT !.status = "Cancelled"] \in Doc
          BY <2>1 DEF Doc
        <4> QED BY <3>2, <4>1, <2>1 DEF Cancel, Consistent, Doc
      <3>3. CASE Delete(s)
        <4>1. PICK b \in Body :
                  docs' = [docs EXCEPT ![s] = [docs[s] EXCEPT !.status = "deleted", !.body = b]]
          BY <3>3 DEF Delete
        <4>2. [docs[s] EXCEPT !.status = "deleted", !.body = b] \in Doc
          BY <2>1 DEF Doc
        <4> QED BY <3>3, <4>1, <4>2, <2>1 DEF Delete, Consistent, Doc
      <3> QED BY <1>2, <3>1, <3>2, <3>3
    <2> QED BY <2>2, RewriteConsistent
  <1>3. ASSUME NEW s \in 1..Len(docs), NEW y \in Year, Confirm(s, y) PROVE Consistent'
    BY <1>3, ConfirmConsistent
  <1>4. CASE UNCHANGED vars
    BY <1>4 DEF vars, Consistent, NumbersInOrder
  <1> QED BY <1>1, <1>2, <1>3, <1>4 DEF Next

(* No step, stuttering included, touches what a numbered document keeps. *)
LEMMA FrozenLemma == Consistent /\ [Next]_vars => FrozenStep
  <1> SUFFICES ASSUME Consistent, [Next]_vars,
                      NEW s \in 1..Len(docs), docs[s].number # NoNumber
               PROVE  /\ docs'[s].number = docs[s].number /\ docs'[s].body = docs[s].body
                      /\ docs'[s].status \in {"Confirmed", "Cancelled"}
                      /\ docs[s].status = "Cancelled" => docs'[s].status = "Cancelled"
    BY DEF FrozenStep
  <1>1. docs[s] \in Doc /\ docs \in Seq(Doc) /\ docs[s].status \in {"Confirmed", "Cancelled"}
    <2>1. docs[s] \in Doc /\ docs \in Seq(Doc)
      BY ElementOfSeq DEF Consistent
    <2> QED BY <2>1 DEF Consistent, Doc
  <1>2. CASE UNCHANGED vars
    BY <1>1, <1>2 DEF vars
  <1>3. CASE Create
    BY <1>1, <1>3 DEF Create
  <1>4. ASSUME NEW t \in 1..Len(docs),
               \/ Edit(t) \/ Cancel(t) \/ Delete(t)
               \/ \E y \in Year : Confirm(t, y)
        PROVE  \/ docs'[s] = docs[s]
               \/ docs'[s] = [docs[s] EXCEPT !.status = "Cancelled"]
    <2>1. CASE t = s
      <3>1. Cancel(s)
        <4>1. docs[s].status \notin {"Draft"} /\ docs[s].number # NoNumber
          BY <1>1
        <4> QED BY <1>4, <2>1, <4>1 DEF Edit, Delete, Confirm
      <3> QED BY <3>1, <1>1 DEF Cancel
    <2>2. CASE t # s
      <3>1. PICK d : docs' = [docs EXCEPT ![t] = d]
        BY <1>4 DEF Edit, Cancel, Delete, Confirm
      <3> QED BY <3>1, <2>2, <1>1
    <2> QED BY <2>1, <2>2
  <1>5. docs'[s] = [docs[s] EXCEPT !.status = "Cancelled"] =>
            /\ docs'[s].number = docs[s].number /\ docs'[s].body = docs[s].body
            /\ docs'[s].status = "Cancelled"
    BY <1>1 DEF Doc
  <1> QED BY <1>1, <1>2, <1>3, <1>4, <1>5 DEF Next

(* The invariant holds throughout. *)
THEOREM DocumentConsistent == Spec => []Consistent
  <1>1. Init => Consistent
    BY EmptySeq DEF Init, Consistent, NumbersInOrder
  <1> QED BY <1>1, ConsistentStep, PTL DEF Spec

(* The numbers of every year are dense and unique in every state. *)
THEOREM NumbersDense == Spec => []NumbersInOrder
  <1>1. Consistent => NumbersInOrder
    BY DEF Consistent
  <1> QED BY <1>1, DocumentConsistent, PTL

(* A numbered document is frozen at every step. *)
THEOREM DocumentFrozen == Spec => [][FrozenStep]_vars
  BY DocumentConsistent, FrozenLemma, PTL DEF Spec

=============================================================================
