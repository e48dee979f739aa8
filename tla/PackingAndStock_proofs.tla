------------------------ MODULE PackingAndStock_proofs ------------------------
(***************************************************************************)
(* What holds of two parts that share no state.                            *)
(*                                                                         *)
(* PackingLabels, for every set of workers, plans, pallet numbers and      *)
(* dates: its type invariant, the constraints of the label table and the   *)
(* numbering of its QR ids under every interleaving, and, when the         *)
(* requests on one plan do not overlap, that the labels out on the floor   *)
(* stay true and a printed sheet covers its plan.                          *)
(*                                                                         *)
(* Fulfilment and Stock, for every catalogue and every set of documents    *)
(* there may be at first: the stock of a design is what the documents that *)
(* are there are worth, a proforma invoice is chased as long as some of it *)
(* is on no order and no form offers less than is left, and exactly so     *)
(* where what is placed goes by one name.                                  *)
(***************************************************************************)
EXTENDS PackingLabels, Stock, Counting


-----------------------------------------------------------------------------
(* Lemmas about the operators.                                             *)

\* The labels minted by a request are labels, and finitely many.
LEMMA MintedLabelsType ==
    ASSUME NEW r \in Request, r.plan \in PlanIds, r.date \in Dates
    PROVE  /\ MintedLabels(r) \subseteq Label
           /\ IsFiniteSet(MintedLabels(r))
           /\ \A l \in MintedLabels(r) : l.plan = r.plan
<1> DEFINE missing == PackingsOf(r.layout) \ r.existing
           rank(n) == Cardinality({m \in missing : m < n})
           row(n) == [plan |-> r.plan, no |-> n, qr |-> [date |-> r.date, seq |-> r.seq + rank(n)]]
<1>1. missing \subseteq PackingNos
  BY DEF PackingsOf, Request, Layout
<1>2. IsFiniteSet(missing)
  BY <1>1, PackingNosAssumption, FS_Subset
<1>3. ASSUME NEW n \in missing
      PROVE  rank(n) \in Nat
  <2>1. {m \in missing : m < n} \subseteq missing
    OBVIOUS
  <2>2. IsFiniteSet({m \in missing : m < n})
    BY <1>2, <2>1, FS_Subset
  <2>3. QED
    BY <2>2, FS_CardinalityType
<1>4. MintedLabels(r) = {row(n) : n \in missing}
  BY DEF MintedLabels
<1>5. r.seq \in Nat
  BY DEF Request
<1> HIDE DEF rank, missing
<1>6. ASSUME NEW n \in missing
      PROVE  row(n) \in Label /\ row(n).plan = r.plan
  <2>1. [date |-> r.date, seq |-> r.seq + rank(n)] \in QrId
    BY <1>3, <1>5 DEF QrId
  <2>2. QED
    BY <1>1, <2>1 DEF Label
<1> HIDE DEF row
<1>7. IsFiniteSet({row(n) : n \in missing})
  <2> DEFINE f == [n \in missing |-> row(n)]
  <2>1. f \in Surjection(missing, {row(n) : n \in missing})
    BY DEF Surjection
  <2>2. QED
    BY <1>2, <2>1, FS_Surjection
<1>8. QED
  BY <1>4, <1>6, <1>7

-----------------------------------------------------------------------------
(* Typing.                                                                 *)

\* What the columns of a live plan and the locals of a request hold.
LiveRows ==
    \A p \in PlanIds :
        plan[p].state = "live" => plan[p].number \in DocNumber /\ plan[p].date \in Dates

DatedSteps == {"insert", "header", "children", "getItems", "getUnits",
               "existing", "sequence", "sync"}
Shaped(r) ==
    /\ r.pc \notin {"idle", "insert"} => r.plan \in PlanIds
    /\ r.pc \in DatedSteps => r.date \in Dates
    /\ r.pc = "insert" => r.number \in DocNumber
ReqShape == \A w \in Workers : Shaped(req[w])

TInv == TypeOK /\ LiveRows /\ ReqShape

\* next_number returns a document number.
LEMMA NextNumberType ==
    ASSUME NEW d \in Dates
    PROVE  NextNumber(d) \in DocNumber
<1> DEFINE S == {p \in PlanIds : plan[p].state = "live" /\ plan[p].number.date = d}
<1>1. IsFiniteSet(S)
  BY PlanIdsAssumption, FS_Subset
<1>2. Cardinality(S) \in Nat
  BY <1>1, FS_CardinalityType
<1>3. QED
  BY <1>2 DEF NextNumber, DocNumber

\* next_qr_sequence returns a natural.
LEMMA NextQrSequenceType ==
    ASSUME TypeOK
    PROVE  \A d : NextQrSequence(d) \in Nat
<1> SUFFICES ASSUME NEW d
             PROVE  NextQrSequence(d) \in Nat
  OBVIOUS
<1>1. IsFiniteSet({l \in labels : l.qr.date = d})
  BY FS_Subset DEF TypeOK
<1>2. Cardinality({l \in labels : l.qr.date = d}) \in Nat
  BY <1>1, FS_CardinalityType
<1>3. QED
  BY <1>2 DEF NextQrSequence

\* The idle request is one, and so is what a worker becomes from step to step.
LEMMA IdleType == Idle \in Request /\ Shaped(Idle)
BY DEF Idle, Request, Steps, NoLayout, Layout, Shaped, DatedSteps

\* A worker that goes on as a well-shaped request keeps all requests well-shaped.
LEMMA BecomeType ==
    ASSUME TypeOK, ReqShape, NEW w \in Workers, NEW r \in Request, Shaped(r), Become(w, r)
    PROVE  req' \in [Workers -> Request] /\ ReqShape'
BY DEF TypeOK, ReqShape, Become

\* So does one that is done.
LEMMA FinishType ==
    ASSUME TypeOK, ReqShape, NEW w \in Workers, Finish(w)
    PROVE  req' \in [Workers -> Request] /\ ReqShape'
BY IdleType, BecomeType DEF Finish

\* Every step keeps the types.
LEMMA TInvStep == TInv /\ [Next]_vars => TInv'
<1> SUFFICES ASSUME TInv, [Next]_vars
             PROVE  TInv'
  OBVIOUS
<1> USE DEF TInv
<1>0. ASSUME NEW w \in Workers
      PROVE  req[w] \in Request /\ Shaped(req[w])
  BY DEF TypeOK, ReqShape
<1> USE DEF db, history
<1>1. ASSUME NEW w \in Workers, StartCreate(w)
      PROVE  TInv'
  <2>1. PICK d \in Dates, lay \in Layouts :
           \E n \in {NextNumber(d)} \union [date : Dates, seq : 1..MaxNumber] :
             Become(w, [Idle EXCEPT !.pc = "insert", !.kind = "save", !.number = n,
                                    !.date = d, !.layout = lay])
    BY <1>1 DEF StartCreate
  <2>1a. PICK n \in {NextNumber(d)} \union [date : Dates, seq : 1..MaxNumber] :
           Become(w, [Idle EXCEPT !.pc = "insert", !.kind = "save", !.number = n,
                                  !.date = d, !.layout = lay])
    BY <2>1
  <2> DEFINE r == [Idle EXCEPT !.pc = "insert", !.kind = "save", !.number = n,
                               !.date = d, !.layout = lay]
  <2>2. n \in DocNumber /\ lay \in Layout
    BY <2>1a, NextNumberType, LayoutsAssumption, BoundsAssumption DEF Layout, DocNumber
  <2>3. r \in Request /\ Shaped(r)
    BY <2>2 DEF Idle, Request, Steps, Shaped, DatedSteps
  <2>4. QED
    BY <1>1, <2>1a, <2>3, BecomeType DEF StartCreate, TypeOK, LiveRows
<1>2. ASSUME NEW w \in Workers, InsertHeader(w)
      PROVE  TInv'
  <2>1. CASE NumberTaken(req[w].number)
    BY <1>2, <2>1, FinishType DEF InsertHeader, TypeOK, LiveRows
  <2>2. CASE ~NumberTaken(req[w].number)
    <3>1. PICK p \in PlanIds :
            /\ plan' = [plan EXCEPT ![p] = [state |-> "live", number |-> req[w].number,
                                            date |-> req[w].date, layout |-> NoLayout]]
            /\ Become(w, [req[w] EXCEPT !.pc = "children", !.plan = p, !.number = None])
      BY <1>2, <2>2 DEF InsertHeader
    <3> DEFINE r == [req[w] EXCEPT !.pc = "children", !.plan = p, !.number = None]
    <3>2. req[w].pc = "insert" /\ UNCHANGED <<labels, history>>
      BY <1>2 DEF InsertHeader
    <3>3. req[w].number \in DocNumber /\ req[w].date \in Dates
      BY <3>2, <1>0 DEF Shaped, DatedSteps
    <3>4. plan' \in [PlanIds -> Plan]
      BY <3>1, <3>3 DEF TypeOK, Plan, NoLayout, Layout
    <3>5. LiveRows'
      BY <3>1, <3>3 DEF LiveRows, TypeOK
    <3>6. r \in Request /\ Shaped(r)
      BY <3>3, <1>0 DEF Request, Steps, Shaped, DatedSteps
    <3>7. QED
      BY <3>1, <3>2, <3>4, <3>5, <3>6, BecomeType DEF TypeOK
  <2>3. QED
    BY <2>1, <2>2
<1>3. ASSUME NEW w \in Workers, NEW p \in PlanIds, StartUpdate(w, p)
      PROVE  TInv'
  <2>1. PICK d \in Dates, lay \in Layouts :
           Become(w, [Idle EXCEPT !.pc = "header", !.kind = "save", !.plan = p,
                                  !.date = d, !.layout = lay])
    BY <1>3 DEF StartUpdate
  <2> DEFINE r == [Idle EXCEPT !.pc = "header", !.kind = "save", !.plan = p,
                               !.date = d, !.layout = lay]
  <2>2. lay \in Layout
    BY LayoutsAssumption DEF Layout
  <2>3. r \in Request /\ Shaped(r)
    BY <2>2 DEF Idle, Request, Steps, Shaped, DatedSteps
  <2>4. QED
    BY <1>3, <2>1, <2>3, BecomeType DEF StartUpdate, TypeOK, LiveRows
<1>4. ASSUME NEW w \in Workers, UpdateHeader(w)
      PROVE  TInv'
  <2> DEFINE r == [req[w] EXCEPT !.pc = "children"]
  <2>1. r \in Request /\ Shaped(r)
    BY <1>4, <1>0 DEF UpdateHeader, Request, Steps, Shaped, DatedSteps
  <2>2. req[w].date \in Dates
    BY <1>4, <1>0 DEF UpdateHeader, Shaped, DatedSteps
  <2>3. plan' \in [PlanIds -> Plan] /\ LiveRows'
    BY <1>4, <2>2 DEF UpdateHeader, Live, Plan, TypeOK, LiveRows
  <2>4. QED
    BY <1>4, <2>1, <2>3, BecomeType DEF UpdateHeader, TypeOK
<1>5. ASSUME NEW w \in Workers, ReplaceChildren(w)
      PROVE  TInv'
  <2>1. CASE Live(req[w].plan)
    <3> DEFINE r == [Idle EXCEPT !.pc = "getHeader", !.kind = req[w].kind,
                                 !.plan = req[w].plan]
    <3>1. r \in Request /\ Shaped(r)
      BY <2>1, <1>0 DEF Idle, Live, NoLayout, Layout, Request, Steps, Shaped, DatedSteps
    <3>2. req' \in [Workers -> Request] /\ ReqShape'
      BY <1>5, <2>1, <3>1, BecomeType DEF ReplaceChildren, Restart
    <3>3. req[w].layout \in Layout
      BY <1>0 DEF Request
    <3>4. plan' \in [PlanIds -> Plan] /\ LiveRows'
      BY <1>5, <2>1, <3>3 DEF ReplaceChildren, Live, Plan, TypeOK, LiveRows
    <3>5. QED
      BY <1>5, <2>1, <3>2, <3>4 DEF ReplaceChildren, TypeOK
  <2>2. CASE ~Live(req[w].plan)
    BY <1>5, <2>2, FinishType DEF ReplaceChildren, TypeOK, LiveRows
  <2>3. QED
    BY <2>1, <2>2
<1>6. ASSUME NEW w \in Workers, GetHeader(w)
      PROVE  TInv'
  <2>1. CASE Live(req[w].plan)
    <3> DEFINE r == [req[w] EXCEPT !.pc = "getItems", !.date = plan[req[w].plan].date]
    <3>1. plan[req[w].plan].date \in Dates
      BY <2>1 DEF Live, LiveRows
    <3>2. r \in Request /\ Shaped(r)
      BY <1>0, <2>1, <3>1 DEF Live, Request, Steps, Shaped, DatedSteps
    <3>3. QED
      BY <1>6, <2>1, <3>2, BecomeType DEF GetHeader, TypeOK, LiveRows
  <2>2. CASE ~Live(req[w].plan)
    BY <1>6, <2>2, FinishType DEF GetHeader, TypeOK, LiveRows
  <2>3. QED
    BY <2>1, <2>2
<1>7. ASSUME NEW w \in Workers, GetItems(w)
      PROVE  TInv'
  <2> DEFINE to == IF req[w].pc = "getItems" THEN "getUnits" ELSE "sheetUnits"
             lay == [auto |-> plan[req[w].plan].layout.auto, units |-> req[w].layout.units]
             r == [req[w] EXCEPT !.pc = to, !.layout = lay]
  <2>1. req[w].plan \in PlanIds
    BY <1>7, <1>0 DEF GetItems, Shaped
  <2>2. lay \in Layout
    BY <2>1, <1>0 DEF TypeOK, Plan, Request, Layout
  <2> HIDE DEF lay
  <2>3. r \in Request /\ Shaped(r)
    BY <1>7, <1>0, <2>1, <2>2 DEF GetItems, Request, Steps, Shaped, DatedSteps
  <2>4. Become(w, r)
    BY <1>7 DEF GetItems, lay
  <2>5. QED
    BY <1>7, <2>3, <2>4, BecomeType DEF GetItems, TypeOK, LiveRows
<1>8. ASSUME NEW w \in Workers, GetUnits(w)
      PROVE  TInv'
  <2> DEFINE to == IF req[w].pc = "getUnits" THEN "existing" ELSE "sheetLabels"
             lay == [auto |-> req[w].layout.auto, units |-> plan[req[w].plan].layout.units]
             r == [req[w] EXCEPT !.pc = to, !.layout = lay]
  <2>1. req[w].plan \in PlanIds
    BY <1>8, <1>0 DEF GetUnits, Shaped
  <2>2. lay \in Layout
    BY <2>1, <1>0 DEF TypeOK, Plan, Request, Layout
  <2> HIDE DEF lay
  <2>3. r \in Request /\ Shaped(r)
    BY <1>8, <1>0, <2>1, <2>2 DEF GetUnits, Request, Steps, Shaped, DatedSteps
  <2>4. Become(w, r)
    BY <1>8 DEF GetUnits, lay
  <2>5. QED
    BY <1>8, <2>3, <2>4, BecomeType DEF GetUnits, TypeOK, LiveRows
<1>9. ASSUME NEW w \in Workers, ReadExisting(w)
      PROVE  TInv'
  <2> DEFINE nos == {l.no : l \in LabelsForPlan(req[w].plan)}
             r == [req[w] EXCEPT !.pc = "sequence", !.existing = nos]
  <2>1. nos \subseteq PackingNos
    BY DEF LabelsForPlan, TypeOK, Label
  <2>2. Become(w, r)
    BY <1>9 DEF ReadExisting
  <2> HIDE DEF nos
  <2>3. r \in Request /\ Shaped(r)
    BY <1>9, <1>0, <2>1 DEF ReadExisting, Request, Steps, Shaped, DatedSteps
  <2>4. QED
    BY <1>9, <2>2, <2>3, BecomeType DEF ReadExisting, TypeOK, LiveRows
<1>10. ASSUME NEW w \in Workers, ReadSequence(w)
      PROVE  TInv'
  <2> DEFINE r == [req[w] EXCEPT !.pc = "sync", !.seq = NextQrSequence(req[w].date)]
  <2>1. r \in Request /\ Shaped(r)
    BY <1>10, <1>0, NextQrSequenceType DEF ReadSequence, Request, Steps, Shaped, DatedSteps
  <2>2. QED
    BY <1>10, <2>1, BecomeType DEF ReadSequence, TypeOK, LiveRows
<1>11. ASSUME NEW w \in Workers, SyncLabels(w)
      PROVE  TInv'
  <2> DEFINE r == req[w]
             kept == {l \in labels : l.plan = r.plan => l.no \notin StaleNos(r)}
             fresh == MintedLabels(r)
  <2>1. r.pc = "sync" /\ r \in Request /\ r.plan \in PlanIds /\ r.date \in Dates
    BY <1>11, <1>0 DEF SyncLabels, Shaped, DatedSteps
  <2>2. fresh \subseteq Label /\ IsFiniteSet(fresh)
    BY <2>1, MintedLabelsType
  <2>3. kept \subseteq Label /\ IsFiniteSet(kept)
    BY FS_Subset DEF TypeOK
  <2>4. req' \in [Workers -> Request] /\ ReqShape'
    <3>1. Finish(w) \/ Restart(w, "sheetHeader")
      BY <1>11 DEF SyncLabels
    <3>2. CASE Restart(w, "sheetHeader")
      <4> DEFINE s == [Idle EXCEPT !.pc = "sheetHeader", !.kind = req[w].kind,
                                   !.plan = req[w].plan]
      <4>1. s \in Request /\ Shaped(s)
        BY <2>1 DEF Idle, NoLayout, Layout, Request, Steps, Shaped, DatedSteps
      <4>2. QED
        BY <3>2, <4>1, BecomeType DEF Restart
    <3>3. QED
      BY <3>1, <3>2, FinishType
  <2>5. UNCHANGED <<plan, floor>>
    BY <1>11 DEF SyncLabels
  <2>6. labels' \subseteq Label /\ IsFiniteSet(labels') /\ issued' \subseteq QrId
    <3>1. CASE labels' = kept \union fresh /\ issued' = issued \union {l.qr : l \in fresh}
      <4>1. IsFiniteSet(kept \union fresh)
        BY <2>2, <2>3, FS_Union
      <4>2. {l.qr : l \in fresh} \subseteq QrId
        BY <2>2 DEF Label
      <4>3. QED
        BY <3>1, <4>1, <4>2, <2>2, <2>3 DEF TypeOK
    <3>2. CASE UNCHANGED <<labels, issued>>
      BY <3>2 DEF TypeOK
    <3>3. QED
      BY <3>1, <3>2, <1>11 DEF SyncLabels
  <2>7. QED
    BY <2>4, <2>5, <2>6 DEF TypeOK, LiveRows
<1>12. ASSUME NEW w \in Workers, NEW p \in PlanIds, StartSheet(w, p)
      PROVE  TInv'
  <2> DEFINE r == [Idle EXCEPT !.pc = "getHeader", !.kind = "sheet", !.plan = p]
  <2>1. r \in Request /\ Shaped(r)
    BY DEF Idle, NoLayout, Layout, Request, Steps, Shaped, DatedSteps
  <2>2. QED
    BY <1>12, <2>1, BecomeType DEF StartSheet, TypeOK, LiveRows
<1>13. ASSUME NEW w \in Workers, SheetHeader(w)
      PROVE  TInv'
  <2>1. CASE Live(req[w].plan)
    <3> DEFINE r == [req[w] EXCEPT !.pc = "sheetItems"]
    <3>1. r \in Request /\ Shaped(r)
      BY <1>0, <2>1 DEF Live, Request, Steps, Shaped, DatedSteps
    <3>2. QED
      BY <1>13, <2>1, <3>1, BecomeType DEF SheetHeader, TypeOK, LiveRows
  <2>2. CASE ~Live(req[w].plan)
    BY <1>13, <2>2, FinishType DEF SheetHeader, TypeOK, LiveRows
  <2>3. QED
    BY <2>1, <2>2
<1>14. ASSUME NEW w \in Workers, PrintSheet(w)
      PROVE  TInv'
  BY <1>14, FinishType DEF PrintSheet, LabelsForPlan, TypeOK, LiveRows
<1>15. ASSUME NEW w \in Workers, NEW p \in PlanIds, StartDelete(w, p)
      PROVE  TInv'
  <2> DEFINE r == [Idle EXCEPT !.pc = "delete", !.kind = "delete", !.plan = p]
  <2>1. r \in Request /\ Shaped(r)
    BY DEF Idle, NoLayout, Layout, Request, Steps, Shaped, DatedSteps
  <2>2. QED
    BY <1>15, <2>1, BecomeType DEF StartDelete, TypeOK, LiveRows
<1>16. ASSUME NEW w \in Workers, DeletePlan(w)
      PROVE  TInv'
  <2>1. plan' \in [PlanIds -> Plan] /\ LiveRows'
    BY <1>16 DEF DeletePlan, NoPlan, NoLayout, Layout, Plan, TypeOK, LiveRows
  <2>2. labels' \subseteq Label /\ IsFiniteSet(labels')
    BY <1>16, FS_Subset DEF DeletePlan, TypeOK
  <2>3. QED
    BY <1>16, <2>1, <2>2, FinishType DEF DeletePlan, TypeOK
<1>17. ASSUME NEW w \in Workers, Abort(w)
      PROVE  TInv'
  BY <1>17, FinishType DEF Abort, TypeOK, LiveRows
<1>18. CASE UNCHANGED vars
  BY <1>18 DEF vars, TypeOK, LiveRows, ReqShape
<1>19. QED
  BY <1>1, <1>2, <1>3, <1>4, <1>5, <1>6, <1>7, <1>8, <1>9, <1>10, <1>11, <1>12, <1>13,
     <1>14, <1>15, <1>16, <1>17, <1>18
     DEF Next, Start, Save, Get, Mint, Sheet

\* The types hold of the empty tables.
LEMMA InitTInv == Init => TInv
BY IdleType, FS_EmptySet, NoneAssumption
   DEF Init, TInv, TypeOK, LiveRows, ReqShape, Shaped, Plan, NoPlan, NoLayout, Layout, Idle, DatedSteps

\* A worker's locals have been assigned before a step reads them.
THEOREM TypeInv == Spec => []TInv
BY InitTInv, TInvStep, PTL DEF Spec

\* The tables hold rows of their columns' types.
THEOREM TypeCorrect == Spec => []TypeOK
<1>1. TInv => TypeOK
  BY DEF TInv
<1>2. QED
  BY <1>1, TypeInv, PTL

-----------------------------------------------------------------------------
(* The label table, whatever requests race.                                *)

\* UNIQUE (packing_planning_id, packing_no).
RowsUnique == \A l, m \in labels : (l.plan = m.plan /\ l.no = m.no) => l = m

LabelInv == TInv /\ NoOrphanLabels /\ QrIdsUnique /\ RowsUnique

\* One mint gives a pallet of the layout one row, and no other pallet any.
LEMMA MintedRowsUnique ==
    ASSUME NEW r, NEW a \in MintedLabels(r), NEW b \in MintedLabels(r)
    PROVE  a.no \in PackingsOf(r.layout) /\ (a.no = b.no => a = b)
<1> DEFINE missing == PackingsOf(r.layout) \ r.existing
           rank(n) == Cardinality({m \in missing : m < n})
           row(n) == [plan |-> r.plan, no |-> n, qr |-> [date |-> r.date, seq |-> r.seq + rank(n)]]
<1>1. MintedLabels(r) = {row(n) : n \in missing}
  BY DEF MintedLabels
<1> HIDE DEF missing, rank
<1>2. PICK m \in missing, n \in missing : a = row(m) /\ b = row(n)
  BY <1>1
<1>3. a.no = m /\ b.no = n
  BY <1>2
<1>4. m \in PackingsOf(r.layout)
  BY DEF missing
<1>5. QED
  BY <1>2, <1>3, <1>4

\* What a sync leaves in the table: rows it kept, or rows it minted for a live
\* plan that clash with none it kept.
LEMMA SyncShape ==
    ASSUME TInv, NEW w \in Workers, SyncLabels(w)
    PROVE  LET r == req[w]
               kept == {l \in labels : l.plan = r.plan => l.no \notin StaleNos(r)}
               fresh == MintedLabels(r)
           IN  /\ UNCHANGED <<plan, floor>>
               /\ Finish(w) \/ Restart(w, "sheetHeader")
               /\ \/ labels' = labels
                  \/ /\ labels' = kept \union fresh
                     /\ Insertable(fresh, kept)
                     /\ fresh # {} => Live(r.plan)
                     /\ \A l \in fresh : l.plan = r.plan
<1>1. req[w] \in Request /\ req[w].plan \in PlanIds /\ req[w].date \in Dates
  BY DEF SyncLabels, TInv, TypeOK, ReqShape, Shaped, DatedSteps
<1>2. \A l \in MintedLabels(req[w]) : l.plan = req[w].plan
  BY <1>1, MintedLabelsType
<1>3. QED
  BY <1>2 DEF SyncLabels

\* Every step keeps the label table sound.
LEMMA LabelInvStep == LabelInv /\ [Next]_vars => LabelInv'
<1> SUFFICES ASSUME LabelInv, [Next]_vars
             PROVE  NoOrphanLabels' /\ QrIdsUnique' /\ RowsUnique'
  BY TInvStep DEF LabelInv
<1> USE DEF db, history
<1>0. TypeOK
  BY DEF LabelInv, TInv
<1>1. ASSUME UNCHANGED labels, \A p \in PlanIds : plan[p].state = "live" => plan'[p].state = "live"
      PROVE  NoOrphanLabels' /\ QrIdsUnique' /\ RowsUnique'
  BY <1>1 DEF LabelInv, NoOrphanLabels, QrIdsUnique, RowsUnique, Live
<1>2. ASSUME NEW w \in Workers, Start(w) \/ Get(w) \/ Sheet(w) \/ Abort(w)
      PROVE  UNCHANGED <<plan, labels>>
  BY <1>2 DEF Start, StartCreate, StartUpdate, StartSheet, StartDelete, Get, GetHeader, GetItems,
              GetUnits, Sheet, SheetHeader, PrintSheet, Abort
<1>3. ASSUME NEW w \in Workers, Save(w)
      PROVE  UNCHANGED labels /\ \A p \in PlanIds : plan[p].state = "live" => plan'[p].state = "live"
  <2>1. CASE InsertHeader(w)
    BY <1>0, <2>1 DEF InsertHeader, TypeOK
  <2>2. CASE UpdateHeader(w)
    BY <1>0, <2>2 DEF UpdateHeader, Live, TypeOK, Plan
  <2>3. CASE ReplaceChildren(w)
    BY <1>0, <2>3 DEF ReplaceChildren, Live, TypeOK, Plan
  <2>4. QED
    BY <1>3, <2>1, <2>2, <2>3 DEF Save
<1>4. ASSUME NEW w \in Workers, SyncLabels(w)
      PROVE  NoOrphanLabels' /\ QrIdsUnique' /\ RowsUnique'
  <2> DEFINE r == req[w]
             kept == {l \in labels : l.plan = r.plan => l.no \notin StaleNos(r)}
             fresh == MintedLabels(r)
  <2>1. UNCHANGED plan
    BY <1>4 DEF SyncLabels
  <2>2. CASE labels' = labels
    BY <1>1, <2>1, <2>2
  <2>3. CASE /\ labels' = kept \union fresh
             /\ Insertable(fresh, kept)
             /\ fresh # {} => Live(r.plan)
             /\ \A l \in fresh : l.plan = r.plan
    <3>1. NoOrphanLabels'
      BY <2>1, <2>3 DEF LabelInv, NoOrphanLabels, Live
    <3>2. QrIdsUnique'
      BY <2>3 DEF Insertable, QrIdsUnique
    <3>3. ASSUME NEW l \in labels', NEW m \in labels', l.plan = m.plan, l.no = m.no
          PROVE  l = m
      <4>1. CASE l \in fresh /\ m \in fresh
        BY <3>3, <4>1, MintedRowsUnique
      <4>2. CASE l \in kept /\ m \in kept
        BY <3>3, <4>2 DEF LabelInv, RowsUnique
      <4>3. ~(l \in fresh /\ m \in kept) /\ ~(l \in kept /\ m \in fresh)
        BY <2>3, <3>3 DEF Insertable
      <4>4. QED
        BY <2>3, <4>1, <4>2, <4>3
    <3>4. QED
      BY <3>1, <3>2, <3>3 DEF RowsUnique
  <2>4. QED
    BY <1>4, <2>2, <2>3, SyncShape DEF LabelInv
<1>5. ASSUME NEW w \in Workers, DeletePlan(w)
      PROVE  NoOrphanLabels' /\ QrIdsUnique' /\ RowsUnique'
  <2>1. labels' \subseteq labels /\ \A l \in labels' : l.plan # req[w].plan
    BY <1>5 DEF DeletePlan, LabelsForPlan
  <2>2. \A p \in PlanIds : p # req[w].plan => plan'[p] = plan[p]
    BY <1>0, <1>5 DEF DeletePlan, TypeOK
  <2>3. NoOrphanLabels'
    BY <2>1, <2>2 DEF LabelInv, NoOrphanLabels, Live
  <2>4. QED
    BY <2>1, <2>3 DEF LabelInv, QrIdsUnique, RowsUnique
<1>6. ASSUME NEW w \in Workers, ReadExisting(w) \/ ReadSequence(w)
      PROVE  UNCHANGED <<plan, labels>>
  BY <1>6 DEF ReadExisting, ReadSequence
<1>7. CASE UNCHANGED vars
  BY <1>1, <1>7 DEF vars
<1>8. QED
  BY <1>1, <1>2, <1>3, <1>4, <1>5, <1>6, <1>7 DEF Next, Mint

\* It is sound when empty.
LEMMA InitLabelInv == Init => LabelInv
<1>1. Init => TInv
  BY InitTInv
<1>2. QED
  BY <1>1 DEF Init, LabelInv, NoOrphanLabels, QrIdsUnique, RowsUnique

\* The label table is sound under every interleaving.
THEOREM LabelInvariant == Spec => []LabelInv
BY InitLabelInv, LabelInvStep, PTL DEF Spec

\* No mint that was under way when its plan was deleted leaves labels behind.
THEOREM NoOrphans == Spec => []NoOrphanLabels
<1>1. LabelInv => NoOrphanLabels
  BY DEF LabelInv
<1>2. QED
  BY <1>1, LabelInvariant, PTL

\* No two rows carry one QR id, whatever mints raced on one COUNT.
THEOREM QrIdsStayUnique == Spec => []QrIdsUnique
<1>1. LabelInv => QrIdsUnique
  BY DEF LabelInv
<1>2. QED
  BY <1>1, LabelInvariant, PTL

\* A minted row is kept as it is or dropped, in every step.
THEOREM NeverRewritten == Spec => RowsNeverRewritten
<1> DEFINE Kept == \A l \in labels, m \in labels' : (l.plan = m.plan /\ l.no = m.no) => l = m
<1>1. LabelInv /\ LabelInv' /\ [Next]_vars => [Kept]_vars
  <2> SUFFICES ASSUME LabelInv, LabelInv', [Next]_vars,
                      NEW l \in labels, NEW m \in labels', l.plan = m.plan, l.no = m.no
               PROVE  l = m
    OBVIOUS
  <2> USE DEF db, history
  <2>1. CASE l \in labels'
    BY <2>1 DEF LabelInv, RowsUnique
  <2>2. CASE m \in labels
    BY <2>2 DEF LabelInv, RowsUnique
  <2>3. ASSUME NEW w \in Workers, SyncLabels(w), m \notin labels
        PROVE  l \in labels'
    <3> DEFINE r == req[w]
    <3>1. /\ m \in MintedLabels(r)
          /\ m.plan = r.plan
          /\ labels' = {k \in labels : k.plan = r.plan => k.no \notin StaleNos(r)} \union MintedLabels(r)
      BY <2>3, SyncShape DEF LabelInv
    <3>2. m.no \in PackingsOf(r.layout)
      BY <3>1, MintedRowsUnique
    <3>3. QED
      BY <3>1, <3>2 DEF StaleNos
  <2>4. ASSUME m \notin labels
        PROVE  \E w \in Workers : SyncLabels(w)
    BY <2>4 DEF Next, Start, StartCreate, StartUpdate, StartSheet, StartDelete, Save, InsertHeader,
                UpdateHeader, ReplaceChildren, Get, GetHeader, GetItems, GetUnits, Mint,
                ReadExisting, ReadSequence, Sheet, SheetHeader, PrintSheet, DeletePlan, Abort, vars
  <2>5. QED
    BY <2>1, <2>2, <2>3, <2>4
<1>2. QED
  BY <1>1, LabelInvariant, PTL DEF Spec, RowsNeverRewritten
-----------------------------------------------------------------------------
(* The floor, when the requests on one plan do not overlap.                *)

\* A request's plan has been inserted, and no other request is on it.
OneOwner ==
    /\ \A w \in Workers : req[w].plan # None => plan[req[w].plan].state # "unused"
    /\ \A v, w \in Workers : v # w /\ req[v].plan # None => req[v].plan # req[w].plan

\* What a request has read of its plan's layout is still what the tables hold.
Fresh(r, plans) ==
    /\ r.pc \in {"getUnits", "existing", "sequence", "sync"} =>
           r.layout.auto = plans[r.plan].layout.auto
    /\ r.pc \in {"existing", "sequence", "sync"} =>
           r.layout.units = plans[r.plan].layout.units
FreshReads == \A w \in Workers : Fresh(req[w], plan)

\* UNIQUE (company_id, packing_planning_number).
NumbersUnique == \A p, q \in PlanIds : Live(p) /\ Live(q) /\ plan[p].number = plan[q].number => p = q

\* A pallet on the floor is planned.
FloorPlanned == \A l \in floor : l.no \in PackingsOf(plan[l.plan].layout)

FloorInv ==
    LabelInv /\ OneOwner /\ FreshReads /\ NumbersUnique /\ FloorPlanned /\ FloorIdsKept
\* A worker that goes on as r keeps to its plan, or takes one nobody is on.
LEMMA OwnerStep ==
    ASSUME TypeOK, OneOwner, NEW w \in Workers, NEW r, Become(w, r),
           \A p \in PlanIds : plan[p].state # "unused" => plan'[p].state # "unused",
           \/ r.plan = None
           \/ r.plan = req[w].plan
           \/ /\ r.plan \in PlanIds /\ plan'[r.plan].state # "unused"
              /\ \A v \in Workers : req[v].plan # r.plan
    PROVE  OneOwner'
<1>1. \A v \in Workers : req'[v] = IF v = w THEN r ELSE req[v]
  BY DEF Become, TypeOK
<1>2. \A v \in Workers : req[v].plan # None => req[v].plan \in PlanIds
  BY DEF TypeOK, Request
<1>3. \A v \in Workers : req'[v].plan # None => plan'[req'[v].plan].state # "unused"
  BY <1>1, <1>2 DEF OneOwner
<1>4. \A v, u \in Workers : v # u /\ req'[v].plan # None => req'[v].plan # req'[u].plan
  BY <1>1, <1>2 DEF OneOwner
<1>5. QED
  BY <1>3, <1>4 DEF OneOwner

\* A step of w leaves the reads of the others fresh if it leaves the layouts of
\* their plans alone.
LEMMA FreshStep ==
    ASSUME TInv, FreshReads, NEW w \in Workers, NEW r, Become(w, r), Fresh(r, plan'),
           \A v \in Workers \ {w} : req[v].plan \in PlanIds =>
               plan'[req[v].plan].layout = plan[req[v].plan].layout
    PROVE  FreshReads'
<1> SUFFICES ASSUME NEW v \in Workers
             PROVE  Fresh(req'[v], plan')
  BY DEF FreshReads
<1>1. CASE v = w
  BY <1>1 DEF Become, TInv, TypeOK
<1>2. CASE v # w
  <2>1. req'[v] = req[v]
    BY <1>2 DEF Become, TInv, TypeOK
  <2>2. Fresh(req[v], plan) /\ Shaped(req[v])
    BY DEF FreshReads, TInv, ReqShape
  <2>3. QED
    BY <1>2, <2>1, <2>2 DEF Fresh, Shaped
<1>3. QED
  BY <1>1, <1>2

\* Both, for the steps that write neither the plans nor the floor nor the labels.
LEMMA QuietStep ==
    ASSUME FloorInv, LabelInv', NEW w \in Workers, NEW r, Become(w, r), Fresh(r, plan),
           UNCHANGED <<plan, labels, floor>>,
           \/ r.plan = None
           \/ r.plan = req[w].plan
           \/ /\ r.plan \in PlanIds /\ plan[r.plan].state # "unused"
              /\ \A v \in Workers : req[v].plan # r.plan
    PROVE  FloorInv'
<1>1. TInv /\ TypeOK
  BY DEF FloorInv, LabelInv, TInv
<1>2. OneOwner'
  BY <1>1, OwnerStep DEF FloorInv
<1>3. FreshReads'
  BY <1>1, FreshStep DEF FloorInv
<1>4. NumbersUnique' /\ FloorPlanned' /\ FloorIdsKept'
  BY DEF FloorInv, NumbersUnique, Live, FloorPlanned, FloorIdsKept
<1>5. QED
  BY <1>2, <1>3, <1>4 DEF FloorInv

\* An idle worker is on no plan and has read nothing that could be stale.
LEMMA IdleFresh == Idle.plan = None /\ Idle.pc = "idle" /\ \A plans : Fresh(Idle, plans)
BY DEF Idle, Fresh

\* The steps of FloorInv.  Who is on a plan, what was read of it and what of it
\* is on the floor stay true of a step by its owner, and no one else writes it.
LEMMA FloorInvStep == OneRequestPerPlan /\ FloorInv /\ [Next]_vars => FloorInv'
<1> SUFFICES ASSUME OneRequestPerPlan, FloorInv, [Next]_vars
             PROVE  FloorInv'
  OBVIOUS
<1> USE DEF db, history
<1>a. LabelInv'
  BY LabelInvStep DEF FloorInv
<1>b. TInv /\ TypeOK
  BY DEF FloorInv, LabelInv, TInv
<1>c. ASSUME NEW w \in Workers
      PROVE  /\ req[w] \in Request /\ Shaped(req[w]) /\ Fresh(req[w], plan)
             /\ req[w].plan # None => req[w].plan \in PlanIds /\ plan[req[w].plan].state # "unused"
             /\ \A v \in Workers \ {w} : req[w].plan # None => req[v].plan # req[w].plan
  BY <1>b DEF FloorInv, FreshReads, OneOwner, TInv, ReqShape, TypeOK, Request
<1>d. \A l \in labels : l.plan \in PlanIds /\ Live(l.plan)
  BY DEF FloorInv, LabelInv, NoOrphanLabels, Live
<1>1. ASSUME NEW w \in Workers, Finish(w), UNCHANGED <<plan, labels, floor>>
      PROVE  FloorInv'
  BY <1>1, <1>a, IdleFresh, QuietStep DEF Finish
<1>2. ASSUME NEW w \in Workers, Start(w)
      PROVE  FloorInv'
  <2>0. UNCHANGED <<plan, labels, floor>>
    BY <1>2 DEF Start, StartCreate, StartUpdate, StartSheet, StartDelete
  <2>1. CASE StartCreate(w)
    <3>1. PICK r : Become(w, r) /\ r.plan = None /\ Fresh(r, plan)
      <4>1. PICK d \in Dates, lay \in Layouts :
               \E n \in {NextNumber(d)} \union [date : Dates, seq : 1..MaxNumber] :
                 Become(w, [Idle EXCEPT !.pc = "insert", !.kind = "save", !.number = n,
                                        !.date = d, !.layout = lay])
        BY <2>1 DEF StartCreate
      <4>2. PICK n \in {NextNumber(d)} \union [date : Dates, seq : 1..MaxNumber] :
               Become(w, [Idle EXCEPT !.pc = "insert", !.kind = "save", !.number = n,
                                      !.date = d, !.layout = lay])
        BY <4>1
      <4> DEFINE r == [Idle EXCEPT !.pc = "insert", !.kind = "save", !.number = n,
                                   !.date = d, !.layout = lay]
      <4>3. Become(w, r) /\ r.plan = None /\ Fresh(r, plan)
        BY <4>2 DEF Idle, Fresh
      <4> HIDE DEF r
      <4>4. QED
        BY <4>3
    <3>2. QED
      BY <1>a, <2>0, <3>1, QuietStep
  <2>2. ASSUME NEW p \in PlanIds, StartUpdate(w, p) \/ StartSheet(w, p) \/ StartDelete(w, p)
        PROVE  FloorInv'
    <3>1. plan[p].state # "unused" /\ \A v \in Workers : req[v].plan # p
      BY <2>2 DEF StartUpdate, StartSheet, StartDelete, Live, MayStart
    <3>2. PICK r : Become(w, r) /\ r.plan = p /\ Fresh(r, plan)
      <4>1. CASE StartUpdate(w, p)
        <5>1. PICK d \in Dates, lay \in Layouts :
                 Become(w, [Idle EXCEPT !.pc = "header", !.kind = "save", !.plan = p,
                                        !.date = d, !.layout = lay])
          BY <4>1 DEF StartUpdate
        <5> DEFINE r == [Idle EXCEPT !.pc = "header", !.kind = "save", !.plan = p,
                                     !.date = d, !.layout = lay]
        <5>2. Become(w, r) /\ r.plan = p /\ Fresh(r, plan)
          BY <5>1 DEF Idle, Fresh
        <5> HIDE DEF r
        <5>3. QED
          BY <5>2
      <4>2. CASE StartSheet(w, p)
        <5> DEFINE r == [Idle EXCEPT !.pc = "getHeader", !.kind = "sheet", !.plan = p]
        <5>1. Become(w, r) /\ r.plan = p /\ Fresh(r, plan)
          BY <4>2 DEF StartSheet, Idle, Fresh
        <5> HIDE DEF r
        <5>2. QED
          BY <5>1
      <4>3. CASE StartDelete(w, p)
        <5> DEFINE r == [Idle EXCEPT !.pc = "delete", !.kind = "delete", !.plan = p]
        <5>1. Become(w, r) /\ r.plan = p /\ Fresh(r, plan)
          BY <4>3 DEF StartDelete, Idle, Fresh
        <5> HIDE DEF r
        <5>2. QED
          BY <5>1
      <4>4. QED
        BY <2>2, <4>1, <4>2, <4>3
    <3>3. QED
      BY <1>a, <2>0, <3>1, <3>2, QuietStep
  <2>3. QED
    BY <1>2, <2>1, <2>2 DEF Start
<1>3. ASSUME NEW w \in Workers, InsertHeader(w)
      PROVE  FloorInv'
  <2>1. CASE NumberTaken(req[w].number)
    BY <1>1, <1>3, <2>1 DEF InsertHeader
  <2>2. CASE ~NumberTaken(req[w].number)
    <3>1. PICK p \in PlanIds :
            /\ plan[p].state = "unused"
            /\ plan' = [plan EXCEPT ![p] = [state |-> "live", number |-> req[w].number,
                                            date |-> req[w].date, layout |-> NoLayout]]
            /\ Become(w, [req[w] EXCEPT !.pc = "children", !.plan = p, !.number = None])
      BY <1>3, <2>2 DEF InsertHeader
    <3> DEFINE r == [req[w] EXCEPT !.pc = "children", !.plan = p, !.number = None]
    <3>2. r.plan = p /\ r.pc = "children" /\ Fresh(r, plan')
      BY <1>c DEF Request, Fresh
    <3>3. UNCHANGED <<labels, floor>>
      BY <1>3 DEF InsertHeader
    <3>4. \A q \in PlanIds : q # p => plan'[q] = plan[q]
      BY <3>1, <1>b DEF TypeOK
    <3>5. plan'[p].state = "live" /\ plan'[p].number = req[w].number
      BY <3>1, <1>b DEF TypeOK
    <3>6. \A v \in Workers : req[v].plan # p
      BY <1>c, <3>1, NoneAssumption
    <3>7. OneOwner'
      BY <1>b, <3>1, <3>2, <3>4, <3>5, <3>6, OwnerStep DEF FloorInv
    <3>8. FreshReads'
      BY <1>b, <3>1, <3>2, <3>4, <3>6, FreshStep DEF FloorInv
    <3>9. NumbersUnique'
      BY <2>2, <3>4, <3>5 DEF FloorInv, NumbersUnique, NumberTaken, Live
    <3>10. FloorPlanned' /\ FloorIdsKept'
      BY <1>d, <3>1, <3>3, <3>4 DEF FloorInv, FloorPlanned, FloorIdsKept, Live
    <3>11. QED
      BY <1>a, <3>7, <3>8, <3>9, <3>10 DEF FloorInv
  <2>3. QED
    BY <2>1, <2>2
<1>4. ASSUME NEW w \in Workers, UpdateHeader(w)
      PROVE  FloorInv'
  <2> DEFINE r == [req[w] EXCEPT !.pc = "children"]
  <2>1. Become(w, r) /\ UNCHANGED <<labels, floor>> /\ r.plan = req[w].plan
    BY <1>4, <1>c DEF UpdateHeader, Request
  <2>2. Fresh(r, plan')
    BY <1>c DEF Fresh, Request
  <2>3. \A p \in PlanIds : /\ plan'[p].state = plan[p].state
                           /\ plan'[p].number = plan[p].number
                           /\ plan'[p].layout = plan[p].layout
    BY <1>4, <1>b DEF UpdateHeader, TypeOK, Plan, Live
  <2> HIDE DEF r
  <2>4. OneOwner'
    BY <1>b, <2>1, <2>3, OwnerStep DEF FloorInv
  <2>5. FreshReads'
    BY <1>b, <2>1, <2>2, <2>3, FreshStep DEF FloorInv
  <2>6. NumbersUnique' /\ FloorPlanned' /\ FloorIdsKept'
    BY <1>d, <2>1, <2>3 DEF FloorInv, NumbersUnique, Live, FloorPlanned, FloorIdsKept
  <2>7. QED
    BY <1>a, <2>4, <2>5, <2>6 DEF FloorInv
<1>5. ASSUME NEW w \in Workers, ReplaceChildren(w)
      PROVE  FloorInv'
  <2>1. CASE Live(req[w].plan)
    <3> DEFINE p == req[w].plan
               r == [Idle EXCEPT !.pc = "getHeader", !.kind = req[w].kind, !.plan = p]
    <3>1. /\ Become(w, r)
          /\ plan' = [plan EXCEPT ![p].layout = req[w].layout]
          /\ floor' = {l \in floor : l.plan = p => l.no \in PackingsOf(req[w].layout)}
          /\ UNCHANGED labels
      BY <1>5, <2>1 DEF ReplaceChildren, Restart
    <3>2. r.plan = p /\ Fresh(r, plan') /\ p \in PlanIds
      BY <2>1 DEF Idle, Fresh, Live
    <3>3. \A q \in PlanIds : /\ plan'[q].state = plan[q].state
                             /\ plan'[q].number = plan[q].number
                             /\ plan'[q].layout = IF q = p THEN req[w].layout ELSE plan[q].layout
      BY <3>1, <3>2, <1>b DEF TypeOK, Plan
    <3>4. \A v \in Workers \ {w} : req[v].plan # p
      BY <1>c, <3>2, NoneAssumption
    <3> HIDE DEF r, p
    <3>5. OneOwner'
      BY <1>b, <3>1, <3>2, <3>3, OwnerStep DEF FloorInv, p
    <3>6. FreshReads'
      BY <1>b, <3>1, <3>2, <3>3, <3>4, FreshStep DEF FloorInv
    <3>7. NumbersUnique'
      BY <3>3 DEF FloorInv, NumbersUnique, Live
    <3>8. FloorPlanned' /\ FloorIdsKept'
      BY <1>d, <3>1, <3>3 DEF FloorInv, FloorPlanned, FloorIdsKept
    <3>9. QED
      BY <1>a, <3>5, <3>6, <3>7, <3>8 DEF FloorInv
  <2>2. CASE ~Live(req[w].plan)
    BY <1>1, <1>5, <2>2 DEF ReplaceChildren
  <2>3. QED
    BY <2>1, <2>2
<1>6. ASSUME NEW w \in Workers, Get(w) \/ Sheet(w) \/ ReadExisting(w) \/ ReadSequence(w),
             UNCHANGED <<plan, labels, floor>>, ~Finish(w)
      PROVE  FloorInv'
  <2>1. PICK r : Become(w, r) /\ r.plan = req[w].plan /\ Fresh(r, plan)
    <3>1. CASE GetHeader(w)
      <4> DEFINE r == [req[w] EXCEPT !.pc = "getItems", !.date = plan[req[w].plan].date]
      <4>1. Become(w, r) /\ r.plan = req[w].plan /\ Fresh(r, plan)
        BY <1>6, <3>1, <1>c DEF GetHeader, Request, Fresh
      <4> HIDE DEF r
      <4>2. QED
        BY <4>1
    <3>2. CASE GetItems(w)
      <4> DEFINE to == IF req[w].pc = "getItems" THEN "getUnits" ELSE "sheetUnits"
                 r == [req[w] EXCEPT !.pc = to, !.layout = [auto |-> plan[req[w].plan].layout.auto,
                                                            units |-> req[w].layout.units]]
      <4>1. Become(w, r) /\ r.plan = req[w].plan /\ Fresh(r, plan)
        BY <3>2, <1>c DEF GetItems, Request, Fresh
      <4> HIDE DEF r
      <4>2. QED
        BY <4>1
    <3>3. CASE GetUnits(w)
      <4> DEFINE to == IF req[w].pc = "getUnits" THEN "existing" ELSE "sheetLabels"
                 r == [req[w] EXCEPT !.pc = to, !.layout = [auto |-> req[w].layout.auto,
                                                            units |-> plan[req[w].plan].layout.units]]
      <4>1. Become(w, r) /\ r.plan = req[w].plan /\ Fresh(r, plan)
        BY <3>3, <1>c DEF GetUnits, Request, Fresh
      <4> HIDE DEF r
      <4>2. QED
        BY <4>1
    <3>4. CASE ReadExisting(w)
      <4> DEFINE r == [req[w] EXCEPT !.pc = "sequence",
                                     !.existing = {l.no : l \in LabelsForPlan(req[w].plan)}]
      <4>1. Become(w, r) /\ r.plan = req[w].plan /\ Fresh(r, plan)
        BY <3>4, <1>c DEF ReadExisting, Request, Fresh
      <4> HIDE DEF r
      <4>2. QED
        BY <4>1
    <3>5. CASE ReadSequence(w)
      <4> DEFINE r == [req[w] EXCEPT !.pc = "sync", !.seq = NextQrSequence(req[w].date)]
      <4>1. Become(w, r) /\ r.plan = req[w].plan /\ Fresh(r, plan)
        BY <3>5, <1>c DEF ReadSequence, Request, Fresh
      <4> HIDE DEF r
      <4>2. QED
        BY <4>1
    <3>6. CASE SheetHeader(w)
      <4> DEFINE r == [req[w] EXCEPT !.pc = "sheetItems"]
      <4>1. Become(w, r) /\ r.plan = req[w].plan /\ Fresh(r, plan)
        BY <1>6, <3>6, <1>c DEF SheetHeader, Request, Fresh
      <4> HIDE DEF r
      <4>2. QED
        BY <4>1
    <3>7. ~PrintSheet(w)
      BY <1>6 DEF PrintSheet
    <3>8. QED
      BY <1>6, <3>1, <3>2, <3>3, <3>4, <3>5, <3>6, <3>7 DEF Get, Sheet
  <2>2. QED
    BY <1>6, <1>a, <2>1, QuietStep
<1>7. ASSUME NEW w \in Workers, PrintSheet(w)
      PROVE  FloorInv'
  <2>1. Become(w, Idle) /\ UNCHANGED <<plan, labels>>
    BY <1>7 DEF PrintSheet, Finish
  <2>2. OneOwner'
    BY <1>b, <2>1, IdleFresh, OwnerStep DEF FloorInv
  <2>3. FreshReads'
    BY <1>b, <2>1, IdleFresh, FreshStep DEF FloorInv
  <2>4. NumbersUnique'
    BY <2>1 DEF FloorInv, NumbersUnique, Live
  <2>5. FloorPlanned' /\ FloorIdsKept'
    BY <1>7, <2>1 DEF PrintSheet, LabelsForPlan, FloorInv, FloorPlanned, FloorIdsKept
  <2>6. QED
    BY <1>a, <2>2, <2>3, <2>4, <2>5 DEF FloorInv
<1>8. ASSUME NEW w \in Workers, SyncLabels(w)
      PROVE  FloorInv'
  <2>1. UNCHANGED <<plan, floor>>
    BY <1>8 DEF SyncLabels
  <2>2. PICK r : Become(w, r) /\ Fresh(r, plan) /\ (r.plan = None \/ r.plan = req[w].plan)
    <3>1. Finish(w) \/ Restart(w, "sheetHeader")
      BY <1>8 DEF SyncLabels
    <3>2. CASE Finish(w)
      BY <3>2, IdleFresh DEF Finish
    <3>3. CASE Restart(w, "sheetHeader")
      <4> DEFINE r == [Idle EXCEPT !.pc = "sheetHeader", !.kind = req[w].kind, !.plan = req[w].plan]
      <4>1. Become(w, r) /\ r.plan = req[w].plan /\ Fresh(r, plan)
        BY <3>3 DEF Restart, Idle, Fresh
      <4> HIDE DEF r
      <4>2. QED
        BY <4>1
    <3>4. QED
      BY <3>1, <3>2, <3>3
  <2>3. OneOwner'
    BY <1>b, <2>1, <2>2, OwnerStep DEF FloorInv
  <2>4. FreshReads'
    BY <1>b, <2>1, <2>2, FreshStep DEF FloorInv
  <2>5. NumbersUnique' /\ FloorPlanned'
    BY <2>1 DEF FloorInv, NumbersUnique, Live, FloorPlanned
  <2>6. FloorIdsKept'
    <3> SUFFICES ASSUME NEW l \in floor
                 PROVE  l \in labels'
      BY <2>1 DEF FloorIdsKept
    <3>1. l \in labels /\ l.no \in PackingsOf(plan[l.plan].layout)
      BY DEF FloorInv, FloorIdsKept, FloorPlanned
    <3>2. req[w].layout.auto = plan[req[w].plan].layout.auto
          /\ req[w].layout.units = plan[req[w].plan].layout.units
      BY <1>8, <1>c DEF SyncLabels, Fresh
    <3>3. l.plan = req[w].plan => l.no \notin StaleNos(req[w])
      BY <3>1, <3>2 DEF StaleNos, PackingsOf
    <3>4. QED
      BY <1>8, <3>1, <3>3 DEF SyncLabels
  <2>7. QED
    BY <1>a, <2>3, <2>4, <2>5, <2>6 DEF FloorInv
<1>9. ASSUME NEW w \in Workers, DeletePlan(w)
      PROVE  FloorInv'
  <2> DEFINE p == req[w].plan
  <2>1. /\ Become(w, Idle)
        /\ plan' = [plan EXCEPT ![p] = [NoPlan EXCEPT !.state = "deleted"]]
        /\ labels' = labels \ LabelsForPlan(p)
        /\ floor' = {l \in floor : l.plan # p}
    BY <1>9 DEF DeletePlan, Finish
  <2>2. p \in PlanIds
    BY <1>9, <1>c DEF DeletePlan, Shaped
  <2>3. \A q \in PlanIds : q # p => plan'[q] = plan[q]
    BY <2>1, <1>b DEF TypeOK
  <2>4. plan'[p].state = "deleted"
    BY <2>1, <2>2, <1>b DEF TypeOK, NoPlan
  <2>5. \A v \in Workers \ {w} : req[v].plan # p
    BY <1>c, <2>2, NoneAssumption
  <2> HIDE DEF p
  <2>6. OneOwner'
    BY <1>b, <2>1, <2>3, <2>4, IdleFresh, OwnerStep DEF FloorInv
  <2>7. FreshReads'
    BY <1>b, <2>1, <2>3, <2>5, IdleFresh, FreshStep DEF FloorInv
  <2>8. NumbersUnique'
    BY <2>3, <2>4 DEF FloorInv, NumbersUnique, Live
  <2>9. FloorPlanned' /\ FloorIdsKept'
    BY <1>d, <2>1, <2>3 DEF FloorInv, FloorPlanned, FloorIdsKept, LabelsForPlan
  <2>10. QED
    BY <1>a, <2>6, <2>7, <2>8, <2>9 DEF FloorInv
<1>10. CASE UNCHANGED vars
  BY <1>10, <1>a DEF vars, FloorInv, OneOwner, FreshReads, Fresh, NumbersUnique, Live, FloorPlanned,
                   FloorIdsKept
<1>11. ASSUME NEW w \in Workers, GetHeader(w) \/ GetItems(w) \/ GetUnits(w) \/ SheetHeader(w)
                                 \/ ReadExisting(w) \/ ReadSequence(w) \/ Abort(w)
       PROVE  FloorInv'
  <2>1. UNCHANGED <<plan, labels, floor>>
    BY <1>11 DEF GetHeader, GetItems, GetUnits, SheetHeader, ReadExisting, ReadSequence, Abort
  <2>2. CASE Finish(w)
    BY <1>1, <2>1, <2>2
  <2>3. CASE ~Finish(w)
    BY <1>6, <1>11, <2>1, <2>3 DEF Get, Sheet, Abort
  <2>4. QED
    BY <2>2, <2>3
<1>12. QED
  BY <1>2, <1>3, <1>4, <1>5, <1>7, <1>8, <1>9, <1>10, <1>11 DEF Next, Save, Get, Mint, Sheet

\* It is sound when empty.
LEMMA InitFloorInv == Init => FloorInv
<1>1. Init => LabelInv
  BY InitLabelInv
<1>2. Init => OneOwner /\ FreshReads
  BY DEF Init, Idle, OneOwner, FreshReads, Fresh
<1>3. Init => NumbersUnique /\ FloorPlanned /\ FloorIdsKept
  BY DEF Init, NoPlan, NumbersUnique, Live, FloorPlanned, FloorIdsKept
<1>4. QED
  BY <1>1, <1>2, <1>3 DEF FloorInv

\* One request per plan is enough for everything below.
THEOREM FloorInvariant == OneRequestPerPlan => (Spec => []FloorInv)
<1> SUFFICES ASSUME OneRequestPerPlan
             PROVE  Spec => []FloorInv
  OBVIOUS
<1>1. FloorInv /\ [Next]_vars => FloorInv'
  BY FloorInvStep
<1>2. QED
  BY <1>1, InitFloorInv, PTL DEF Spec

\* As long as the requests on one plan do not overlap, a printed label whose
\* pallet is still planned is still the label the database has for it, however
\* the plan is edited and whatever happens on other plans.
THEOREM FloorKept == OneRequestPerPlan => (Spec => []FloorIdsKept)
<1>1. FloorInv => FloorIdsKept
  BY DEF FloorInv
<1>2. QED
  BY <1>1, FloorInvariant, PTL

\* And no two pallets on the floor share a QR id or a packing id.
THEOREM FloorDistinct == OneRequestPerPlan => (Spec => []FloorIdsDistinct)
<1>1. FloorInv => FloorIdsDistinct
  <2> SUFFICES ASSUME FloorInv, NEW a \in floor, NEW b \in floor,
                      a.qr = b.qr \/ PackingId(a) = PackingId(b)
               PROVE  a = b
    BY DEF FloorIdsDistinct
  <2>1. a \in labels /\ b \in labels
    BY DEF FloorInv, FloorIdsKept
  <2>2. CASE a.qr = b.qr
    BY <2>1, <2>2 DEF FloorInv, LabelInv, QrIdsUnique
  <2>3. CASE PackingId(a) = PackingId(b)
    <3>1. a.no = b.no /\ plan[a.plan].number = plan[b.plan].number
      BY <2>3 DEF PackingId
    <3>2. Live(a.plan) /\ Live(b.plan)
      BY <2>1 DEF FloorInv, LabelInv, NoOrphanLabels
    <3>3. a.plan = b.plan
      BY <3>1, <3>2 DEF FloorInv, NumbersUnique, Live
    <3>4. QED
      BY <2>1, <3>1, <3>3 DEF FloorInv, LabelInv, RowsUnique
  <2>4. QED
    BY <2>2, <2>3
<1>2. QED
  BY <1>1, FloorInvariant, PTL

-----------------------------------------------------------------------------
(* The numbering of the ids, whatever requests race.                       *)

\* The ids in the table have been issued.
RowsIssued == \A l \in labels : l.qr \in issued /\ l.qr.seq >= 1

\* A mint about to commit continues what has been issued on its date.
Continues(r, ids) ==
    r.pc = "sync" => /\ r.seq >= 1
                     /\ \A k \in 1..(r.seq - 1) : [date |-> r.date, seq |-> k] \in ids
MintsContinue == \A w \in Workers : Continues(req[w], issued)

GapInv == LabelInv /\ RowsIssued /\ MintsContinue /\ NoSequenceGaps

\* COUNT of a date's labels does not run ahead of what was issued on the date.
LEMMA CountIsIssued ==
    ASSUME TypeOK, QrIdsUnique, RowsIssued, NoSequenceGaps, NEW d \in Dates,
           NEW k \in 1..Cardinality({l \in labels : l.qr.date = d})
    PROVE  [date |-> d, seq |-> k] \in issued
<1> DEFINE L == {l \in labels : l.qr.date = d}
           c == Cardinality(L)
<1>1. IsFiniteSet(L) /\ c \in Nat
  <2>1. L \subseteq labels /\ IsFiniteSet(labels)
    BY DEF TypeOK
  <2> HIDE DEF L
  <2>2. QED
    BY <2>1, FS_Subset, FS_CardinalityType
<1>2. \A l \in L : l.qr \in QrId /\ l.qr.date = d /\ l.qr.seq \in Nat /\ l.qr.seq >= 1
  BY DEF TypeOK, Label, QrId, RowsIssued
<1>3. PICK l \in L : l.qr.seq >= c
  <2> SUFFICES ASSUME \A l \in L : ~(l.qr.seq >= c)
               PROVE  FALSE
    OBVIOUS
  <2> DEFINE f == [l \in L |-> l.qr.seq]
  <2>1. f \in [L -> 1..(c - 1)]
    <3>1. \A l \in L : l.qr.seq \in 1..(c - 1)
      BY <1>1, <1>2
    <3> HIDE DEF L, c
    <3>2. QED
      BY <3>1
  <2>2. ASSUME NEW a \in L, NEW b \in L, f[a] = f[b]
        PROVE  a = b
    <3>1. a.qr.seq = b.qr.seq
      BY <2>2
    <3>2. a.qr = b.qr
      BY <1>2, <3>1 DEF QrId
    <3>3. QED
      BY <3>2 DEF QrIdsUnique
  <2>3. f \in Injection(L, 1..(c - 1))
    <3> HIDE DEF f, L, c
    <3>1. QED
      BY <2>1, <2>2 DEF Injection, IsInjective
  <2>4. c - 1 \in Int /\ c # 0
    BY <1>1
  <2>5. IsFiniteSet(1..(c - 1)) /\ Cardinality(1..(c - 1)) = c - 1
    <3> HIDE DEF L, c
    <3>1. IsFiniteSet(1..(c - 1)) /\ Cardinality(1..(c - 1)) = IF 1 > c - 1 THEN 0 ELSE (c - 1) - 1 + 1
      BY <2>4, FS_Interval
    <3>2. QED
      BY <1>1, <2>4, <3>1
  <2> HIDE DEF f
  <2>6. Cardinality(L) <= c - 1
    BY <2>3, <2>5, FS_Injection
  <2>7. QED
    BY <1>1, <2>6
<1>4. k \in 1..l.qr.seq
  BY <1>1, <1>2, <1>3
<1>5. l.qr \in issued
  BY DEF RowsIssued
<1> HIDE DEF L
<1>6. [date |-> l.qr.date, seq |-> k] \in issued
  BY <1>4, <1>5 DEF NoSequenceGaps
<1>7. QED
  BY <1>2, <1>6

\* One mint numbers its labels from its sequence on, without a gap.
LEMMA MintedHaveNoGaps ==
    ASSUME NEW r \in Request, NEW l \in MintedLabels(r)
    PROVE  /\ l.qr.date = r.date /\ l.qr.seq \in Nat /\ l.qr.seq >= r.seq
           /\ \A k \in r.seq..l.qr.seq :
                \E m \in MintedLabels(r) : m.qr = [date |-> r.date, seq |-> k]
<1> DEFINE missing == PackingsOf(r.layout) \ r.existing
           rank(n) == Cardinality(Below(n, missing))
           row(n) == [plan |-> r.plan, no |-> n, qr |-> [date |-> r.date, seq |-> r.seq + rank(n)]]
<1>1. missing \subseteq PackingNos
  BY DEF PackingsOf, Request, Layout
<1>2. IsFiniteSet(missing) /\ missing \subseteq Nat
  BY <1>1, PackingNosAssumption, FS_Subset
<1>3. MintedLabels(r) = {row(n) : n \in missing}
  BY DEF MintedLabels, Below
<1>4. \A n : row(n).qr.date = r.date /\ row(n).qr.seq = r.seq + rank(n)
             /\ row(n).qr = [date |-> r.date, seq |-> r.seq + rank(n)]
  OBVIOUS
<1>5. r.seq \in Nat
  BY DEF Request
<1> HIDE DEF missing, row
<1>6. PICK n \in missing : l = row(n)
  BY <1>3
<1>7. rank(n) \in Nat
  <2>1. Below(n, missing) \in SUBSET missing
    BY DEF Below
  <2>2. QED
    BY <1>2, <2>1, FS_Subset, FS_CardinalityType
<1>8. l.qr.date = r.date /\ l.qr.seq = r.seq + rank(n)
  BY <1>4, <1>6
<1>9. ASSUME NEW k \in r.seq..l.qr.seq
      PROVE  \E m \in MintedLabels(r) : m.qr = [date |-> r.date, seq |-> k]
  <2>1. k - r.seq \in 0..rank(n)
    BY <1>5, <1>7, <1>8
  <2>2. PICK m \in missing : rank(m) = k - r.seq
    BY <1>2, <2>1, RanksHaveNoGaps
  <2>3. row(m) \in MintedLabels(r)
    BY <1>3
  <2>4. r.seq + rank(m) = k
    BY <1>5, <1>7, <1>8, <2>2
  <2>5. row(m).qr = [date |-> r.date, seq |-> k]
    BY <1>4, <2>4
  <2>6. QED
    BY <2>3, <2>5
<1>10. QED
  BY <1>5, <1>7, <1>8, <1>9

\* The steps that issue no id: the rows are among those there were, and the
\* worker goes on to another step than the sync, or continues what was issued.
LEMMA QuietGaps ==
    ASSUME GapInv, LabelInv', NEW w \in Workers, NEW r, Become(w, r),
           UNCHANGED issued, labels' \subseteq labels, Continues(r, issued)
    PROVE  GapInv'
<1>1. MintsContinue'
  <2> SUFFICES ASSUME NEW v \in Workers
               PROVE  Continues(req'[v], issued)
    BY DEF MintsContinue
  <2>1. req'[v] = IF v = w THEN r ELSE req[v]
    BY DEF Become, GapInv, LabelInv, TInv, TypeOK
  <2>2. QED
    BY <2>1 DEF GapInv, MintsContinue
<1>2. RowsIssued' /\ NoSequenceGaps'
  BY DEF GapInv, RowsIssued, NoSequenceGaps
<1>3. QED
  BY <1>1, <1>2 DEF GapInv

\* Every step leaves the ids numbered without gaps.
LEMMA GapInvStep == GapInv /\ [Next]_vars => GapInv'
<1> SUFFICES ASSUME GapInv, [Next]_vars
             PROVE  GapInv'
  OBVIOUS
<1> USE DEF db, history
<1>a. LabelInv'
  BY LabelInvStep DEF GapInv
<1>b. TInv /\ TypeOK /\ QrIdsUnique /\ RowsIssued /\ NoSequenceGaps
  BY DEF GapInv, LabelInv, TInv
<1>c. ASSUME NEW w \in Workers
      PROVE  req[w] \in Request /\ Shaped(req[w]) /\ Continues(req[w], issued)
  BY <1>b DEF GapInv, MintsContinue, TInv, TypeOK, ReqShape
<1>i. Continues(Idle, issued)
  BY DEF Continues, Idle
<1>1. ASSUME NEW w \in Workers, Finish(w), UNCHANGED issued, labels' \subseteq labels
      PROVE  GapInv'
  BY <1>1, <1>a, <1>i, QuietGaps DEF Finish
<1>2. ASSUME NEW w \in Workers, NEW r, Become(w, r), r.pc # "sync", UNCHANGED <<labels, issued>>
      PROVE  GapInv'
  BY <1>2, <1>a, QuietGaps DEF Continues
<1>3. ASSUME NEW w \in Workers, NEW step \in Steps \ {"sync"}, Restart(w, step),
             UNCHANGED <<labels, issued>>
      PROVE  GapInv'
  <2> DEFINE r == [Idle EXCEPT !.pc = step, !.kind = req[w].kind, !.plan = req[w].plan]
  <2>1. Become(w, r) /\ r.pc # "sync"
    BY <1>3 DEF Restart, Idle
  <2> HIDE DEF r
  <2>2. QED
    BY <1>2, <1>3, <2>1
<1>4. ASSUME NEW w \in Workers, Start(w)
      PROVE  GapInv'
  <2>1. UNCHANGED <<labels, issued>>
    BY <1>4 DEF Start, StartCreate, StartUpdate, StartSheet, StartDelete
  <2>2. PICK r : Become(w, r) /\ r.pc # "sync"
    <3>1. CASE StartCreate(w)
      <4>1. PICK d \in Dates, lay \in Layouts :
               \E n \in {NextNumber(d)} \union [date : Dates, seq : 1..MaxNumber] :
                 Become(w, [Idle EXCEPT !.pc = "insert", !.kind = "save", !.number = n,
                                        !.date = d, !.layout = lay])
        BY <3>1 DEF StartCreate
      <4>2. PICK n \in {NextNumber(d)} \union [date : Dates, seq : 1..MaxNumber] :
               Become(w, [Idle EXCEPT !.pc = "insert", !.kind = "save", !.number = n,
                                      !.date = d, !.layout = lay])
        BY <4>1
      <4> DEFINE r == [Idle EXCEPT !.pc = "insert", !.kind = "save", !.number = n,
                                   !.date = d, !.layout = lay]
      <4>3. Become(w, r) /\ r.pc # "sync"
        BY <4>2 DEF Idle
      <4> HIDE DEF r
      <4>4. QED
        BY <4>3
    <3>2. ASSUME NEW p \in PlanIds, StartUpdate(w, p)
          PROVE  \E r : Become(w, r) /\ r.pc # "sync"
      <4>1. PICK d \in Dates, lay \in Layouts :
               Become(w, [Idle EXCEPT !.pc = "header", !.kind = "save", !.plan = p,
                                      !.date = d, !.layout = lay])
        BY <3>2 DEF StartUpdate
      <4> DEFINE r == [Idle EXCEPT !.pc = "header", !.kind = "save", !.plan = p,
                                   !.date = d, !.layout = lay]
      <4>2. Become(w, r) /\ r.pc # "sync"
        BY <4>1 DEF Idle
      <4> HIDE DEF r
      <4>3. QED
        BY <4>2
    <3>3. ASSUME NEW p \in PlanIds, NEW step, NEW kind, step # "sync",
                 Become(w, [Idle EXCEPT !.pc = step, !.kind = kind, !.plan = p])
          PROVE  \E r : Become(w, r) /\ r.pc # "sync"
      <4> DEFINE r == [Idle EXCEPT !.pc = step, !.kind = kind, !.plan = p]
      <4>1. Become(w, r) /\ r.pc # "sync"
        BY <3>3 DEF Idle
      <4> HIDE DEF r
      <4>2. QED
        BY <4>1
    <3>4. ASSUME NEW p \in PlanIds, StartSheet(w, p) \/ StartDelete(w, p)
          PROVE  \E r : Become(w, r) /\ r.pc # "sync"
      BY <3>3, <3>4 DEF StartSheet, StartDelete
    <3>5. QED
      BY <1>4, <3>1, <3>2, <3>4 DEF Start
  <2>3. QED
    BY <1>2, <2>1, <2>2
<1>5. ASSUME NEW w \in Workers, InsertHeader(w)
      PROVE  GapInv'
  <2>1. UNCHANGED <<labels, issued>>
    BY <1>5 DEF InsertHeader
  <2>2. CASE Finish(w)
    BY <1>1, <2>1, <2>2
  <2>3. ASSUME NEW p \in PlanIds,
               Become(w, [req[w] EXCEPT !.pc = "children", !.plan = p, !.number = None])
        PROVE  GapInv'
    <3> DEFINE r == [req[w] EXCEPT !.pc = "children", !.plan = p, !.number = None]
    <3>1. r.pc # "sync"
      BY <1>c DEF Request
    <3> HIDE DEF r
    <3>2. QED
      BY <1>2, <2>1, <2>3, <3>1 DEF r
  <2>4. QED
    BY <1>5, <2>2, <2>3 DEF InsertHeader
<1>6. ASSUME NEW w \in Workers,
             UpdateHeader(w) \/ ReadExisting(w) \/ SheetHeader(w) \/ GetHeader(w)
                \/ GetItems(w) \/ GetUnits(w)
      PROVE  GapInv'
  <2>1. UNCHANGED <<labels, issued>>
    BY <1>6 DEF UpdateHeader, ReadExisting, SheetHeader, GetHeader, GetItems, GetUnits
  <2>2. CASE Finish(w)
    BY <1>1, <2>1, <2>2
  <2>3. CASE ~Finish(w)
    <3>1. CASE UpdateHeader(w)
      <4> DEFINE r == [req[w] EXCEPT !.pc = "children"]
      <4>1. Become(w, r) /\ r.pc # "sync"
        BY <1>c, <3>1 DEF UpdateHeader, Request
      <4> HIDE DEF r
      <4>2. QED
        BY <1>2, <2>1, <4>1
    <3>2. CASE ReadExisting(w)
      <4> DEFINE r == [req[w] EXCEPT !.pc = "sequence",
                                     !.existing = {l.no : l \in LabelsForPlan(req[w].plan)}]
      <4>1. Become(w, r) /\ r.pc # "sync"
        BY <1>c, <3>2 DEF ReadExisting, Request
      <4> HIDE DEF r
      <4>2. QED
        BY <1>2, <2>1, <4>1
    <3>3. CASE SheetHeader(w)
      <4> DEFINE r == [req[w] EXCEPT !.pc = "sheetItems"]
      <4>1. Become(w, r) /\ r.pc # "sync"
        BY <1>c, <2>3, <3>3 DEF SheetHeader, Request
      <4> HIDE DEF r
      <4>2. QED
        BY <1>2, <2>1, <4>1
    <3>4. CASE GetHeader(w)
      <4> DEFINE r == [req[w] EXCEPT !.pc = "getItems", !.date = plan[req[w].plan].date]
      <4>1. Become(w, r) /\ r.pc # "sync"
        BY <1>c, <2>3, <3>4 DEF GetHeader, Request
      <4> HIDE DEF r
      <4>2. QED
        BY <1>2, <2>1, <4>1
    <3>5. CASE GetItems(w)
      <4> DEFINE step == IF req[w].pc = "getItems" THEN "getUnits" ELSE "sheetUnits"
                 lay  == [auto |-> plan[req[w].plan].layout.auto, units |-> req[w].layout.units]
                 r    == [req[w] EXCEPT !.pc = step, !.layout = lay]
      <4>1. Become(w, r)
        BY <3>5 DEF GetItems
      <4>2. step # "sync"
        OBVIOUS
      <4> HIDE DEF step, lay
      <4>3. r.pc # "sync"
        BY <1>c, <4>2 DEF Request
      <4> HIDE DEF r
      <4>4. QED
        BY <1>2, <2>1, <4>1, <4>3
    <3>6. CASE GetUnits(w)
      <4> DEFINE step == IF req[w].pc = "getUnits" THEN "existing" ELSE "sheetLabels"
                 lay  == [auto |-> req[w].layout.auto, units |-> plan[req[w].plan].layout.units]
                 r    == [req[w] EXCEPT !.pc = step, !.layout = lay]
      <4>1. Become(w, r)
        BY <3>6 DEF GetUnits
      <4>2. step # "sync"
        OBVIOUS
      <4> HIDE DEF step, lay
      <4>3. r.pc # "sync"
        BY <1>c, <4>2 DEF Request
      <4> HIDE DEF r
      <4>4. QED
        BY <1>2, <2>1, <4>1, <4>3
    <3>7. QED
      BY <1>6, <3>1, <3>2, <3>3, <3>4, <3>5, <3>6
  <2>4. QED
    BY <2>2, <2>3
<1>7. ASSUME NEW w \in Workers, ReplaceChildren(w)
      PROVE  GapInv'
  BY <1>1, <1>3, <1>7 DEF ReplaceChildren, Steps
<1>8. ASSUME NEW w \in Workers, PrintSheet(w) \/ DeletePlan(w) \/ Abort(w)
      PROVE  GapInv'
  <2>1. Finish(w) /\ UNCHANGED issued /\ labels' \subseteq labels
    BY <1>8 DEF PrintSheet, DeletePlan, Abort
  <2>2. QED
    BY <1>1, <2>1
<1>9. ASSUME NEW w \in Workers, ReadSequence(w)
      PROVE  GapInv'
  <2> DEFINE n == NextQrSequence(req[w].date)
             r == [req[w] EXCEPT !.pc = "sync", !.seq = n]
  <2>1. Become(w, r) /\ UNCHANGED <<labels, issued>> /\ req[w].date \in Dates
    BY <1>9, <1>c DEF ReadSequence, Shaped, DatedSteps
  <2>2. n \in Nat /\ n - 1 = Cardinality({l \in labels : l.qr.date = req[w].date}) /\ n >= 1
    <3>1. {l \in labels : l.qr.date = req[w].date} \in SUBSET labels
      OBVIOUS
    <3>2. Cardinality({l \in labels : l.qr.date = req[w].date}) \in Nat
      BY <1>b, <3>1, FS_Subset, FS_CardinalityType DEF TypeOK
    <3>3. QED
      BY <3>2 DEF NextQrSequence
  <2>3. \A k \in 1..(n - 1) : [date |-> req[w].date, seq |-> k] \in issued
    BY <1>b, <2>1, <2>2, CountIsIssued
  <2> HIDE DEF n
  <2>4. r.date = req[w].date /\ r.seq = n
    BY <1>c DEF Request
  <2> HIDE DEF r
  <2>5. Continues(r, issued)
    BY <2>2, <2>3, <2>4 DEF Continues
  <2>6. QED
    BY <1>a, <2>1, <2>5, QuietGaps
<1>10. ASSUME NEW w \in Workers, SyncLabels(w)
       PROVE  GapInv'
  <2> DEFINE r == req[w]
             fresh == MintedLabels(r)
  <2>1. PICK r2 : Become(w, r2) /\ r2.pc # "sync"
    <3>1. CASE Finish(w)
      BY <3>1 DEF Finish, Idle
    <3>2. CASE Restart(w, "sheetHeader")
      <4> DEFINE r2 == [Idle EXCEPT !.pc = "sheetHeader", !.kind = req[w].kind, !.plan = req[w].plan]
      <4>1. Become(w, r2) /\ r2.pc # "sync"
        BY <3>2 DEF Restart, Idle
      <4> HIDE DEF r2
      <4>2. QED
        BY <4>1
    <3>3. QED
      BY <1>10, <3>1, <3>2 DEF SyncLabels
  <2>2. CASE UNCHANGED <<labels, issued>>
    BY <1>2, <2>1, <2>2
  <2>3. CASE /\ labels' \subseteq labels \union fresh
             /\ issued' = issued \union {l.qr : l \in fresh}
    <3>1. r.seq >= 1 /\ r.seq \in Nat /\ \A k \in 1..(r.seq - 1) : [date |-> r.date, seq |-> k] \in issued
      BY <1>10, <1>c DEF SyncLabels, Continues, Request
    <3>2. r \in Request
      BY <1>c
    <3> HIDE DEF r
    <3>3. RowsIssued'
      <4> SUFFICES ASSUME NEW l \in labels'
                   PROVE  l.qr \in issued' /\ l.qr.seq >= 1
        BY DEF RowsIssued
      <4>1. CASE l \in labels
        BY <1>b, <2>3, <4>1 DEF RowsIssued
      <4>2. CASE l \in fresh
        <5>1. l.qr.seq \in Nat /\ l.qr.seq >= r.seq
          BY <3>2, <4>2, MintedHaveNoGaps
        <5>2. QED
          BY <2>3, <3>1, <4>2, <5>1
      <4>3. QED
        BY <2>3, <4>1, <4>2
    <3>4. NoSequenceGaps'
      <4> SUFFICES ASSUME NEW q \in issued', NEW k \in 1..q.seq
                   PROVE  [date |-> q.date, seq |-> k] \in issued'
        BY DEF NoSequenceGaps
      <4>1. CASE q \in issued
        BY <1>b, <2>3, <4>1 DEF NoSequenceGaps
      <4>2. CASE q \notin issued
        <5>1. PICK l \in fresh : q = l.qr
          BY <2>3, <4>2
        <5>2. q.date = r.date /\ q.seq \in Nat /\ q.seq >= r.seq
              /\ \A i \in r.seq..q.seq :
                   \E m \in fresh : m.qr = [date |-> r.date, seq |-> i]
          BY <3>2, <5>1, MintedHaveNoGaps
        <5>3. CASE k \in 1..(r.seq - 1)
          BY <2>3, <3>1, <5>2, <5>3
        <5>4. CASE k \in r.seq..q.seq
          BY <2>3, <5>2, <5>4
        <5>5. k \in 1..(r.seq - 1) \/ k \in r.seq..q.seq
          BY <3>1, <5>2
        <5>6. QED
          BY <5>3, <5>4, <5>5
      <4>3. QED
        BY <4>1, <4>2
    <3>5. MintsContinue'
      <4> SUFFICES ASSUME NEW v \in Workers
                   PROVE  Continues(req'[v], issued')
        BY DEF MintsContinue
      <4>1. req'[v] = IF v = w THEN r2 ELSE req[v]
        BY <1>b, <2>1 DEF Become, TypeOK
      <4>2. QED
        BY <1>c, <2>1, <2>3, <4>1 DEF Continues
    <3>6. QED
      BY <1>a, <3>3, <3>4, <3>5 DEF GapInv
  <2>4. QED
    BY <1>10, <2>2, <2>3 DEF SyncLabels
<1>11. CASE UNCHANGED vars
  BY <1>11, <1>a, <1>b DEF vars, GapInv, RowsIssued, MintsContinue, NoSequenceGaps
<1>12. QED
  BY <1>4, <1>5, <1>6, <1>7, <1>8, <1>9, <1>10, <1>11 DEF Next, Save, Get, Mint, Sheet

\* They hold of the empty table.
LEMMA InitGapInv == Init => GapInv
<1>1. Init => LabelInv
  BY InitLabelInv
<1>2. Init => RowsIssued /\ MintsContinue /\ NoSequenceGaps
  BY DEF Init, Idle, RowsIssued, MintsContinue, Continues, NoSequenceGaps
<1>3. QED
  BY <1>1, <1>2 DEF GapInv

\* Whatever requests race, are refused or die, the ids issued on a date are
\* numbered without gaps (next_qr_sequence: COUNT + 1).
THEOREM NumbersHaveNoGaps == Spec => []NoSequenceGaps
<1>1. GapInv => NoSequenceGaps
  BY DEF GapInv
<1>2. QED
  BY <1>1, InitGapInv, GapInvStep, PTL DEF Spec

-----------------------------------------------------------------------------
(* The label sheet, when the requests on one plan do not overlap.          *)

HasLabel(rows, p, n) == \E l \in rows : l.plan = p /\ l.no = n
SheetSteps == {"sheetHeader", "sheetItems", "sheetUnits", "sheetLabels"}

\* What a request knows of its plan's labels: those it found are there; once it
\* prints, every pallet planned has one, and the pallets it has read are planned.
Sees(r, plans, rows) ==
    /\ r.pc \in {"sequence", "sync"} => \A n \in r.existing : HasLabel(rows, r.plan, n)
    /\ r.pc \in SheetSteps => \A n \in PackingsOf(plans[r.plan].layout) : HasLabel(rows, r.plan, n)
    /\ r.pc \in {"sheetUnits", "sheetLabels"} => r.layout.auto = plans[r.plan].layout.auto
    /\ r.pc = "sheetLabels" => r.layout.units = plans[r.plan].layout.units
AllSee == \A w \in Workers : Sees(req[w], plan, labels)

SheetInv == FloorInv /\ AllSee

\* A step of w leaves what the others know true if it leaves their plans'
\* layouts and labels in place.
LEMMA SeesStep ==
    ASSUME TInv, AllSee, NEW w \in Workers, NEW r, Become(w, r), Sees(r, plan', labels'),
           \A v \in Workers \ {w} : req[v].plan \in PlanIds =>
               /\ plan'[req[v].plan].layout = plan[req[v].plan].layout
               /\ \A l \in labels : l.plan = req[v].plan => l \in labels'
    PROVE  AllSee'
<1> SUFFICES ASSUME NEW v \in Workers
             PROVE  Sees(req'[v], plan', labels')
  BY DEF AllSee
<1>1. CASE v = w
  BY <1>1 DEF Become, TInv, TypeOK
<1>2. CASE v # w
  <2>1. req'[v] = req[v]
    BY <1>2 DEF Become, TInv, TypeOK
  <2>2. Sees(req[v], plan, labels) /\ Shaped(req[v])
    BY DEF AllSee, TInv, ReqShape
  <2>3. CASE req[v].pc \in {"idle", "insert"}
    BY <2>1, <2>3 DEF Sees, SheetSteps
  <2>4. CASE req[v].pc \notin {"idle", "insert"}
    <3>1. req[v].plan \in PlanIds
      BY <2>2, <2>4 DEF Shaped
    <3>2. \A n : HasLabel(labels, req[v].plan, n) => HasLabel(labels', req[v].plan, n)
      BY <1>2, <3>1 DEF HasLabel
    <3>3. QED
      BY <1>2, <2>1, <2>2, <3>1, <3>2 DEF Sees
  <2>5. QED
    BY <2>3, <2>4
<1>3. QED
  BY <1>1, <1>2

\* What a sync leaves has a label for every pallet of the layout it was made for.
LEMMA SyncCovers ==
    ASSUME NEW r, NEW rows, NEW rows2, \A n \in r.existing : HasLabel(rows, r.plan, n),
           rows2 = {l \in rows : l.plan = r.plan => l.no \notin StaleNos(r)} \union MintedLabels(r),
           NEW n \in PackingsOf(r.layout)
    PROVE  HasLabel(rows2, r.plan, n)
<1>1. CASE n \in r.existing
  <2>1. PICK l \in rows : l.plan = r.plan /\ l.no = n
    BY <1>1 DEF HasLabel
  <2>2. l \in rows2
    BY <2>1 DEF StaleNos
  <2>3. QED
    BY <2>1, <2>2 DEF HasLabel
<1>2. CASE n \notin r.existing
  <2> DEFINE missing == PackingsOf(r.layout) \ r.existing
             rank(k) == Cardinality({m \in missing : m < k})
             row(k) == [plan |-> r.plan, no |-> k, qr |-> [date |-> r.date, seq |-> r.seq + rank(k)]]
  <2>1. n \in missing
    BY <1>2
  <2>2. MintedLabels(r) = {row(k) : k \in missing}
    BY DEF MintedLabels
  <2> HIDE DEF missing, rank
  <2>3. row(n) \in MintedLabels(r) /\ row(n).plan = r.plan /\ row(n).no = n
    BY <2>1, <2>2
  <2> HIDE DEF row
  <2>4. QED
    BY <2>3 DEF HasLabel
<1>3. QED
  BY <1>1, <1>2

\* The steps that write neither the plans nor the labels.
LEMMA QuietSees ==
    ASSUME SheetInv, FloorInv', NEW w \in Workers, NEW r, Become(w, r),
           UNCHANGED <<plan, labels>>, Sees(r, plan, labels)
    PROVE  SheetInv'
BY SeesStep DEF SheetInv, FloorInv, LabelInv

\* When the requests on one plan do not overlap, every step keeps that knowledge.
LEMMA SheetInvStep == OneRequestPerPlan /\ SheetInv /\ [Next]_vars => SheetInv'
<1> SUFFICES ASSUME OneRequestPerPlan, SheetInv, [Next]_vars
             PROVE  SheetInv'
  OBVIOUS
<1> USE DEF db, history
<1>a. FloorInv'
  BY FloorInvStep DEF SheetInv
<1>b. TInv /\ TypeOK /\ FloorInv /\ AllSee /\ NoOrphanLabels
  BY DEF SheetInv, FloorInv, LabelInv, TInv
<1>c. ASSUME NEW w \in Workers
      PROVE  /\ req[w] \in Request /\ Shaped(req[w]) /\ Fresh(req[w], plan)
             /\ Sees(req[w], plan, labels)
             /\ \A v \in Workers \ {w} : req[w].plan # None => req[v].plan # req[w].plan
             /\ req[w].plan \in PlanIds => plan[req[w].plan].state # "unused"
  BY <1>b, NoneAssumption DEF SheetInv, AllSee, FloorInv, FreshReads, OneOwner, TInv, ReqShape, TypeOK
<1>n. None \notin PlanIds
  BY NoneAssumption
<1>i. \A plans, rows : Sees(Idle, plans, rows)
  BY DEF Sees, SheetSteps, Idle
<1>1. ASSUME NEW w \in Workers, Finish(w), UNCHANGED <<plan, labels>>
      PROVE  SheetInv'
  BY <1>1, <1>a, <1>i, QuietSees DEF Finish
<1>2. ASSUME NEW w \in Workers, NEW r, Become(w, r), UNCHANGED <<plan, labels>>,
             r.pc \in Steps \ ({"sequence", "sync"} \union SheetSteps)
      PROVE  SheetInv'
  BY <1>2, <1>a, QuietSees DEF Sees, SheetSteps
<1>3. ASSUME NEW w \in Workers, Start(w)
      PROVE  SheetInv'
  <2>1. UNCHANGED <<plan, labels>>
    BY <1>3 DEF Start, StartCreate, StartUpdate, StartSheet, StartDelete
  <2>2. PICK r : Become(w, r) /\ r.pc \in {"insert", "header", "getHeader", "delete"}
    <3>1. CASE StartCreate(w)
      <4>1. PICK d \in Dates, lay \in Layouts :
               \E n \in {NextNumber(d)} \union [date : Dates, seq : 1..MaxNumber] :
                 Become(w, [Idle EXCEPT !.pc = "insert", !.kind = "save", !.number = n,
                                        !.date = d, !.layout = lay])
        BY <3>1 DEF StartCreate
      <4>2. PICK n \in {NextNumber(d)} \union [date : Dates, seq : 1..MaxNumber] :
               Become(w, [Idle EXCEPT !.pc = "insert", !.kind = "save", !.number = n,
                                      !.date = d, !.layout = lay])
        BY <4>1
      <4> DEFINE r == [Idle EXCEPT !.pc = "insert", !.kind = "save", !.number = n,
                                   !.date = d, !.layout = lay]
      <4>3. Become(w, r) /\ r.pc = "insert"
        BY <4>2 DEF Idle
      <4> HIDE DEF r
      <4>4. QED
        BY <4>3
    <3>2. ASSUME NEW p \in PlanIds, StartUpdate(w, p)
          PROVE  \E r : Become(w, r) /\ r.pc = "header"
      <4>1. PICK d \in Dates, lay \in Layouts :
               Become(w, [Idle EXCEPT !.pc = "header", !.kind = "save", !.plan = p,
                                      !.date = d, !.layout = lay])
        BY <3>2 DEF StartUpdate
      <4> DEFINE r == [Idle EXCEPT !.pc = "header", !.kind = "save", !.plan = p,
                                   !.date = d, !.layout = lay]
      <4>2. Become(w, r) /\ r.pc = "header"
        BY <4>1 DEF Idle
      <4> HIDE DEF r
      <4>3. QED
        BY <4>2
    <3>3. ASSUME NEW p \in PlanIds, NEW step, NEW kind,
                 Become(w, [Idle EXCEPT !.pc = step, !.kind = kind, !.plan = p])
          PROVE  \E r : Become(w, r) /\ r.pc = step
      <4> DEFINE r == [Idle EXCEPT !.pc = step, !.kind = kind, !.plan = p]
      <4>1. Become(w, r) /\ r.pc = step
        BY <3>3 DEF Idle
      <4> HIDE DEF r
      <4>2. QED
        BY <4>1
    <3>4. ASSUME NEW p \in PlanIds, StartSheet(w, p) \/ StartDelete(w, p)
          PROVE  \E r : Become(w, r) /\ r.pc \in {"getHeader", "delete"}
      BY <3>3, <3>4 DEF StartSheet, StartDelete
    <3>5. QED
      BY <1>3, <3>1, <3>2, <3>4 DEF Start
  <2>3. QED
    BY <1>2, <2>1, <2>2 DEF Steps, SheetSteps
<1>4. ASSUME NEW w \in Workers, InsertHeader(w)
      PROVE  SheetInv'
  <2>1. UNCHANGED labels
    BY <1>4 DEF InsertHeader
  <2>2. CASE NumberTaken(req[w].number)
    BY <1>1, <1>4, <2>1, <2>2 DEF InsertHeader
  <2>3. CASE ~NumberTaken(req[w].number)
    <3>1. PICK p \in PlanIds :
            /\ plan[p].state = "unused"
            /\ plan' = [plan EXCEPT ![p] = [state |-> "live", number |-> req[w].number,
                                            date |-> req[w].date, layout |-> NoLayout]]
            /\ Become(w, [req[w] EXCEPT !.pc = "children", !.plan = p, !.number = None])
      BY <1>4, <2>3 DEF InsertHeader
    <3> DEFINE r == [req[w] EXCEPT !.pc = "children", !.plan = p, !.number = None]
    <3>2. r.pc = "children"
      BY <1>c DEF Request
    <3>3. \A q \in PlanIds : q # p => plan'[q] = plan[q]
      BY <1>b, <3>1 DEF TypeOK
    <3>4. \A v \in Workers : req[v].plan # p
      BY <1>c, <3>1
    <3> HIDE DEF r
    <3>5. Sees(r, plan', labels')
      BY <3>2 DEF Sees, SheetSteps
    <3>6. AllSee'
      BY <1>b, <2>1, <3>1, <3>3, <3>4, <3>5, SeesStep DEF r
    <3>7. QED
      BY <1>a, <3>6 DEF SheetInv
  <2>4. QED
    BY <2>2, <2>3
<1>5. ASSUME NEW w \in Workers, UpdateHeader(w)
      PROVE  SheetInv'
  <2> DEFINE r == [req[w] EXCEPT !.pc = "children"]
  <2>1. Become(w, r) /\ r.pc = "children" /\ UNCHANGED labels
    BY <1>5, <1>c DEF UpdateHeader, Request
  <2>2. \A q \in PlanIds : plan'[q].layout = plan[q].layout
    BY <1>5, <1>b DEF UpdateHeader, Live, TypeOK, Plan
  <2> HIDE DEF r
  <2>3. Sees(r, plan', labels')
    BY <2>1 DEF Sees, SheetSteps
  <2>4. AllSee'
    BY <1>b, <2>1, <2>2, <2>3, SeesStep
  <2>5. QED
    BY <1>a, <2>4 DEF SheetInv
<1>6. ASSUME NEW w \in Workers, ReplaceChildren(w)
      PROVE  SheetInv'
  <2> DEFINE p == req[w].plan
  <2>1. p \in PlanIds /\ UNCHANGED labels
    BY <1>6, <1>c DEF ReplaceChildren, Shaped
  <2>2. CASE Live(p)
    <3>1. plan' = [plan EXCEPT ![p].layout = req[w].layout] /\ Restart(w, "getHeader")
      BY <1>6, <2>2 DEF ReplaceChildren
    <3> DEFINE r == [Idle EXCEPT !.pc = "getHeader", !.kind = req[w].kind, !.plan = req[w].plan]
    <3>2. Become(w, r) /\ r.pc = "getHeader"
      BY <3>1 DEF Restart, Idle
    <3>3. \A q \in PlanIds : q # p => plan'[q] = plan[q]
      BY <1>b, <3>1 DEF TypeOK
    <3>4. \A v \in Workers \ {w} : req[v].plan # p
      BY <1>c, <1>n, <2>1
    <3> HIDE DEF r, p
    <3>5. Sees(r, plan', labels')
      BY <3>2 DEF Sees, SheetSteps
    <3>6. AllSee'
      BY <1>b, <2>1, <3>2, <3>3, <3>4, <3>5, SeesStep
    <3>7. QED
      BY <1>a, <3>6 DEF SheetInv
  <2>3. CASE ~Live(p)
    BY <1>1, <1>6, <2>1, <2>3 DEF ReplaceChildren
  <2>4. QED
    BY <2>2, <2>3
<1>7. ASSUME NEW w \in Workers, GetHeader(w)
      PROVE  SheetInv'
  <2>1. UNCHANGED <<plan, labels>>
    BY <1>7 DEF GetHeader
  <2>2. CASE Live(req[w].plan)
    <3> DEFINE r == [req[w] EXCEPT !.pc = "getItems", !.date = plan[req[w].plan].date]
    <3>1. Become(w, r) /\ r.pc = "getItems"
      BY <1>7, <1>c, <2>2 DEF GetHeader, Request
    <3> HIDE DEF r
    <3>2. QED
      BY <1>2, <2>1, <3>1 DEF Steps, SheetSteps
  <2>3. CASE ~Live(req[w].plan)
    BY <1>1, <1>7, <2>1, <2>3 DEF GetHeader
  <2>4. QED
    BY <2>2, <2>3
<1>8. ASSUME NEW w \in Workers, GetItems(w)
      PROVE  SheetInv'
  <2> DEFINE step == IF req[w].pc = "getItems" THEN "getUnits" ELSE "sheetUnits"
             auto == plan[req[w].plan].layout.auto
             lay  == [auto |-> auto, units |-> req[w].layout.units]
             r    == [req[w] EXCEPT !.pc = step, !.layout = lay]
  <2>1. Become(w, r) /\ UNCHANGED <<plan, labels>>
    BY <1>8 DEF GetItems
  <2>2. lay.auto = auto
    OBVIOUS
  <2> HIDE DEF lay
  <2>3. r.pc = step /\ r.plan = req[w].plan /\ r.layout = lay
    BY <1>c DEF Request
  <2> HIDE DEF r
  <2>4. CASE req[w].pc = "getItems"
    BY <1>2, <2>1, <2>3, <2>4 DEF Steps, SheetSteps
  <2>5. CASE req[w].pc = "sheetItems"
    <3>1. \A n \in PackingsOf(plan[r.plan].layout) : HasLabel(labels, r.plan, n)
      BY <1>c, <2>3, <2>5 DEF Sees, SheetSteps
    <3>2. Sees(r, plan, labels)
      BY <2>2, <2>3, <2>5, <3>1 DEF Sees
    <3>3. QED
      BY <1>a, <2>1, <3>2, QuietSees
  <2>6. QED
    BY <1>8, <2>4, <2>5 DEF GetItems
<1>9. ASSUME NEW w \in Workers, GetUnits(w)
      PROVE  SheetInv'
  <2> DEFINE step  == IF req[w].pc = "getUnits" THEN "existing" ELSE "sheetLabels"
             units == plan[req[w].plan].layout.units
             lay   == [auto |-> req[w].layout.auto, units |-> units]
             r     == [req[w] EXCEPT !.pc = step, !.layout = lay]
  <2>1. Become(w, r) /\ UNCHANGED <<plan, labels>>
    BY <1>9 DEF GetUnits
  <2>2. lay.units = units /\ lay.auto = req[w].layout.auto
    OBVIOUS
  <2> HIDE DEF lay
  <2>3. r.pc = step /\ r.plan = req[w].plan /\ r.layout = lay
    BY <1>c DEF Request
  <2> HIDE DEF r
  <2>4. CASE req[w].pc = "getUnits"
    BY <1>2, <2>1, <2>3, <2>4 DEF Steps, SheetSteps
  <2>5. CASE req[w].pc = "sheetUnits"
    <3>1. /\ \A n \in PackingsOf(plan[r.plan].layout) : HasLabel(labels, r.plan, n)
          /\ req[w].layout.auto = plan[r.plan].layout.auto
      BY <1>c, <2>3, <2>5 DEF Sees, SheetSteps
    <3>2. Sees(r, plan, labels)
      BY <2>2, <2>3, <2>5, <3>1 DEF Sees
    <3>3. QED
      BY <1>a, <2>1, <3>2, QuietSees
  <2>6. QED
    BY <1>9, <2>4, <2>5 DEF GetUnits
<1>10. ASSUME NEW w \in Workers, ReadExisting(w)
       PROVE  SheetInv'
  <2> DEFINE nos == {l.no : l \in LabelsForPlan(req[w].plan)}
             r   == [req[w] EXCEPT !.pc = "sequence", !.existing = nos]
  <2>1. Become(w, r) /\ UNCHANGED <<plan, labels>>
    BY <1>10 DEF ReadExisting
  <2>2. \A n \in nos : HasLabel(labels, req[w].plan, n)
    BY DEF LabelsForPlan, HasLabel
  <2> HIDE DEF nos
  <2>3. r.pc = "sequence" /\ r.plan = req[w].plan /\ r.existing = nos
    BY <1>c DEF Request
  <2> HIDE DEF r
  <2>4. Sees(r, plan, labels)
    BY <2>2, <2>3 DEF Sees, SheetSteps
  <2>5. QED
    BY <1>a, <2>1, <2>4, QuietSees
<1>11. ASSUME NEW w \in Workers, ReadSequence(w)
       PROVE  SheetInv'
  <2> DEFINE n == NextQrSequence(req[w].date)
             r == [req[w] EXCEPT !.pc = "sync", !.seq = n]
  <2>1. Become(w, r) /\ UNCHANGED <<plan, labels>> /\ req[w].pc = "sequence"
    BY <1>11 DEF ReadSequence
  <2> HIDE DEF n
  <2>2. r.pc = "sync" /\ r.plan = req[w].plan /\ r.existing = req[w].existing
    BY <1>c DEF Request
  <2> HIDE DEF r
  <2>3. Sees(r, plan, labels)
    BY <1>c, <2>1, <2>2 DEF Sees, SheetSteps
  <2>4. QED
    BY <1>a, <2>1, <2>3, QuietSees
<1>12. ASSUME NEW w \in Workers, SyncLabels(w)
       PROVE  SheetInv'
  <2> DEFINE r    == req[w]
             kept == {l \in labels : l.plan = r.plan => l.no \notin StaleNos(r)}
  <2>1. UNCHANGED plan /\ r.pc = "sync" /\ r.plan \in PlanIds
    BY <1>12, <1>c DEF SyncLabels, Shaped
  <2>2. CASE Finish(w) /\ UNCHANGED labels
    BY <1>1, <2>1, <2>2
  <2>3. CASE /\ labels' = kept \union MintedLabels(r)
             /\ Finish(w) \/ Restart(w, "sheetHeader")
    <3>1. \A v \in Workers \ {w} : req[v].plan # r.plan
      BY <1>c, <1>n, <2>1
    <3>2. \A v \in Workers \ {w} : \A l \in labels : l.plan = req[v].plan => l \in labels'
      BY <2>3, <3>1
    <3>3. \A n \in r.existing : HasLabel(labels, r.plan, n)
      BY <1>c, <2>1 DEF Sees
    <3>4. r.layout.auto = plan[r.plan].layout.auto /\ r.layout.units = plan[r.plan].layout.units
      BY <1>c, <2>1 DEF Fresh
    <3>5. \A n \in PackingsOf(plan[r.plan].layout) : HasLabel(labels', r.plan, n)
      <4>1. PackingsOf(plan[r.plan].layout) = PackingsOf(r.layout)
        BY <3>4 DEF PackingsOf
      <4>2. QED
        BY <2>3, <3>3, <4>1, SyncCovers
    <3>6. PICK r2 : Become(w, r2) /\ Sees(r2, plan', labels')
      <4>1. CASE Finish(w)
        BY <1>i, <4>1 DEF Finish
      <4>2. CASE Restart(w, "sheetHeader")
        <5> DEFINE r2 == [Idle EXCEPT !.pc = "sheetHeader", !.kind = req[w].kind, !.plan = req[w].plan]
        <5>1. Become(w, r2) /\ r2.pc = "sheetHeader" /\ r2.plan = r.plan
          BY <4>2 DEF Restart, Idle
        <5> HIDE DEF r2, r
        <5>2. Sees(r2, plan', labels')
          BY <2>1, <3>5, <5>1 DEF Sees
        <5>3. QED
          BY <5>1, <5>2
      <4>3. QED
        BY <2>3, <4>1, <4>2
    <3>7. AllSee'
      BY <1>b, <2>1, <3>2, <3>6, SeesStep
    <3>8. QED
      BY <1>a, <3>7 DEF SheetInv
  <2>4. QED
    BY <1>12, <2>2, <2>3 DEF SyncLabels
<1>13. ASSUME NEW w \in Workers, SheetHeader(w)
       PROVE  SheetInv'
  <2>1. UNCHANGED <<plan, labels>> /\ req[w].pc = "sheetHeader"
    BY <1>13 DEF SheetHeader
  <2>2. CASE Live(req[w].plan)
    <3> DEFINE r == [req[w] EXCEPT !.pc = "sheetItems"]
    <3>1. Become(w, r) /\ r.pc = "sheetItems" /\ r.plan = req[w].plan
      BY <1>13, <1>c, <2>2 DEF SheetHeader, Request
    <3> HIDE DEF r
    <3>2. Sees(r, plan, labels)
      BY <1>c, <2>1, <3>1 DEF Sees, SheetSteps
    <3>3. QED
      BY <1>a, <2>1, <3>1, <3>2, QuietSees
  <2>3. CASE ~Live(req[w].plan)
    BY <1>1, <1>13, <2>1, <2>3 DEF SheetHeader
  <2>4. QED
    BY <2>2, <2>3
<1>14. ASSUME NEW w \in Workers, PrintSheet(w) \/ Abort(w)
       PROVE  SheetInv'
  BY <1>1, <1>14 DEF PrintSheet, Abort
<1>15. ASSUME NEW w \in Workers, DeletePlan(w)
       PROVE  SheetInv'
  <2> DEFINE p == req[w].plan
  <2>1. p \in PlanIds /\ Become(w, Idle)
    BY <1>15, <1>c DEF DeletePlan, Finish, Shaped
  <2>2. \A v \in Workers \ {w} : req[v].plan # p
    BY <1>c, <1>n, <2>1
  <2>3. \A q \in PlanIds : q # p => plan'[q] = plan[q]
    BY <1>15, <1>b DEF DeletePlan, TypeOK
  <2>4. \A l \in labels : l.plan # p => l \in labels'
    BY <1>15 DEF DeletePlan, LabelsForPlan
  <2> HIDE DEF p
  <2>5. AllSee'
    BY <1>b, <1>i, <2>1, <2>2, <2>3, <2>4, SeesStep
  <2>6. QED
    BY <1>a, <2>5 DEF SheetInv
<1>16. CASE UNCHANGED vars
  BY <1>16, <1>a, <1>b DEF vars, SheetInv, AllSee
<1>17. QED
  BY <1>3, <1>4, <1>5, <1>6, <1>7, <1>8, <1>9, <1>10, <1>11, <1>12, <1>13, <1>14, <1>15, <1>16
     DEF Next, Save, Get, Mint, Sheet

\* No request knows anything to begin with.
LEMMA InitSheetInv == Init => SheetInv
<1>1. Init => AllSee
  BY DEF Init, Idle, AllSee, Sees, SheetSteps
<1>2. QED
  BY <1>1, InitFloorInv DEF SheetInv

\* As long as the requests on one plan do not overlap, the labels page prints a
\* label for every pallet of the plan (label_sheet skips a pallet without one).
THEOREM SheetsCoverPlans == OneRequestPerPlan => (Spec => SheetCoversPlan)
<1> SUFFICES ASSUME OneRequestPerPlan
             PROVE  Spec => SheetCoversPlan
  OBVIOUS
<1> DEFINE Covers == \A w \in Workers :
        PrintSheet(w) =>
            \A n \in PackingsOf(plan[req[w].plan].layout) :
                \E l \in floor' : l.plan = req[w].plan /\ l.no = n
<1>1. SheetInv /\ [Next]_vars => SheetInv'
  BY SheetInvStep
<1>2. SheetInv => Covers
  <2> SUFFICES ASSUME SheetInv, NEW w \in Workers, PrintSheet(w),
                      NEW n \in PackingsOf(plan[req[w].plan].layout)
               PROVE  \E l \in floor' : l.plan = req[w].plan /\ l.no = n
    OBVIOUS
  <2>1. Sees(req[w], plan, labels) /\ req[w].pc = "sheetLabels"
    BY DEF SheetInv, AllSee, PrintSheet
  <2>2. PICK l \in labels : l.plan = req[w].plan /\ l.no = n
    BY <2>1 DEF Sees, SheetSteps, HasLabel
  <2>3. n \in PackingsOf(req[w].layout)
    BY <2>1 DEF Sees, PackingsOf
  <2>4. l \in floor'
    BY <2>2, <2>3 DEF PrintSheet, LabelsForPlan
  <2>5. QED
    BY <2>2, <2>4
<1>3. QED
  BY <1>1, <1>2, InitSheetInv, PTL DEF Spec, SheetCoversPlan

-----------------------------------------------------------------------------
(* Fulfilment and Stock.  What the tables hold.                            *)

FormRow == [product : Nat, title : Nat, design : Designs, name : Nat, boxes : Nat]
GoodsRow == [product : Nat, title : Nat, design : Designs, name : Nat, boxes : Nat \ {0}]
JobLine == [from : Products, to : Products, title : Nat, name : Nat, source : Nat]
InvoiceLine == [product : Products, job : Nat]

\* What packing lists may be of.
Documents ==
    {Quotation, Proforma} \union ({"order"} \X DOMAIN orders)
        \union ({"jobwork"} \X DOMAIN jobs) \union ({"invoice"} \X DOMAIN invoices)

HasIds(t) == DOMAIN t \subseteq 1..(nextId - 1)
TablesFit ==
    /\ nextId \in Nat \ {Null}
    /\ HasIds(lists) /\ HasIds(orders) /\ HasIds(jobs) /\ HasIds(invoices) /\ HasIds(outs) /\ HasIds(ins)
NamesFit == names \in [CatalogDesigns -> Spellings] /\ titles \in [Products -> Titles]
ListsFit == \A i \in DOMAIN lists : lists[i] \in [of : Documents, rows : Seq(GoodsRow) \ {<<>>}]
OrdersFit == \A o \in DOMAIN orders : orders[o] \subseteq Nat /\ IsFiniteSet(orders[o])
JobsFit == \A j \in DOMAIN jobs : jobs[j] \in Seq(JobLine) /\ MakesSomething(jobs[j])
InvoicesFit ==
    \A v \in DOMAIN invoices :
        invoices[v] \in [order : DOMAIN orders \union {Null}, jobs : Seq(DOMAIN jobs), lines : Seq(InvoiceLine)]
OutsFit == \A x \in DOMAIN outs : outs[x] \in DOMAIN invoices
\* A row of a job in is of a design of its product, or of none.
Moved(r) == r.design # Null => ProductOf[r.design] = r.product
InsFit ==
    \A i \in DOMAIN ins :
        /\ ins[i] \in [out : DOMAIN outs, rows : Seq(FormRow)]
        /\ \A k \in DOMAIN ins[i].rows : Moved(ins[i].rows[k])

StockInv ==
    /\ TablesFit /\ NamesFit /\ ListsFit /\ OrdersFit /\ JobsFit /\ InvoicesFit /\ OutsFit /\ InsFit

LEMMA FiniteTable ==
    ASSUME nextId \in Nat, NEW t, HasIds(t)
    PROVE  IsFiniteSet(DOMAIN t)
<1>1. IsFiniteSet(1..(nextId - 1))
  BY FS_Interval
<1>2. QED
  BY <1>1, FS_Subset DEF HasIds

LEMMA ImageIsFinite ==
    ASSUME NEW D, IsFiniteSet(D), NEW E, NEW f \in [D -> E], \A y \in E : \E x \in D : f[x] = y
    PROVE  IsFiniteSet(E)
<1>1. f \in Surjection(D, E)
  BY DEF Surjection
<1>2. QED
  BY <1>1, FS_Surjection

-----------------------------------------------------------------------------
(* Places in tables of lists, and sums over them.                          *)

\* The places of lists of these lengths.
Places(ids, len) == UNION {{i} \X (1..len[i]) : i \in ids}

LEMMA PlacesAreFinite ==
    ASSUME NEW ids, IsFiniteSet(ids), NEW len \in [ids -> Nat]
    PROVE  IsFiniteSet(Places(ids, len))
<1> DEFINE S == {{i} \X (1..len[i]) : i \in ids}
<1>1. \A T \in S : IsFiniteSet(T)
  <2>1. ASSUME NEW i \in ids PROVE IsFiniteSet({i} \X (1..len[i]))
    <3>1. IsFiniteSet({i})
      BY FS_Singleton
    <3>2. IsFiniteSet(1..len[i])
      BY FS_Interval
    <3>3. QED
      BY <3>1, <3>2, FS_Product
  <2>2. QED
    BY <2>1
<1>2. IsFiniteSet(S)
  <2> DEFINE h == [i \in ids |-> {i} \X (1..len[i])]
  <2>1. h \in [ids -> S] /\ \A T \in S : \E i \in ids : h[i] = T
    OBVIOUS
  <2>2. h \in Surjection(ids, S)
    BY <2>1 DEF Surjection
  <2> HIDE DEF h, S
  <2>3. QED
    BY <2>2, FS_Surjection
<1> HIDE DEF S
<1>3. IsFiniteSet(UNION S)
  BY <1>1, <1>2, FS_UNION
<1>4. QED
  BY <1>3 DEF Places, S

\* The rows of packing lists, of job works and of job ins.
LEMMA RowPlaces ==
    ASSUME StockInv, NEW ids \in SUBSET DOMAIN lists
    PROVE  /\ IsFiniteSet(RowsOf(ids)) /\ RowsOf(ids) \subseteq RowsOf(DOMAIN lists)
           /\ \A p \in RowsOf(ids) :
                 /\ p[1] \in ids /\ p[2] \in DOMAIN lists[p[1]].rows /\ p = <<p[1], p[2]>>
                 /\ RowAt(p) \in GoodsRow
           /\ \A i \in ids : \A k \in DOMAIN lists[i].rows : <<i, k>> \in RowsOf(ids)
<1>1. \A i \in DOMAIN lists : lists[i] \in [of : Documents, rows : Seq(GoodsRow) \ {<<>>}]
  BY DEF StockInv, ListsFit
<1>2. \A i \in DOMAIN lists : lists[i].rows \in Seq(GoodsRow) \ {<<>>}
  BY <1>1
<1>3. \A i \in DOMAIN lists : DOMAIN lists[i].rows = 1..Len(lists[i].rows) /\ Len(lists[i].rows) \in Nat
  BY <1>2
<1>4. IsFiniteSet(ids)
  <2>1. IsFiniteSet(DOMAIN lists)
    BY FiniteTable DEF StockInv, TablesFit
  <2>2. QED
    BY <2>1, FS_Subset
<1>5. PICK len : len = [i \in ids |-> Len(lists[i].rows)]
  OBVIOUS
<1>6. IsFiniteSet(RowsOf(ids))
  <2>1. len \in [ids -> Nat]
    BY <1>3, <1>5
  <2>2. \A i \in ids : {i} \X DOMAIN lists[i].rows = {i} \X (1..len[i])
    BY <1>3, <1>5
  <2>3. RowsOf(ids) = Places(ids, len)
    BY <2>2 DEF RowsOf, Places
  <2>4. QED
    BY <1>4, <2>1, <2>3, PlacesAreFinite
<1>7. RowsOf(ids) \subseteq RowsOf(DOMAIN lists)
  BY DEF RowsOf
<1>8. ASSUME NEW p \in RowsOf(ids)
      PROVE  /\ p[1] \in ids /\ p[2] \in DOMAIN lists[p[1]].rows /\ p = <<p[1], p[2]>>
             /\ RowAt(p) \in GoodsRow
  <2>1. PICK i \in ids : p \in {i} \X DOMAIN lists[i].rows
    BY DEF RowsOf
  <2>2. PICK k \in DOMAIN lists[i].rows : p = <<i, k>>
    BY <2>1
  <2>3. p[1] = i /\ p[2] = k
    BY <2>2
  <2>4. lists[i].rows[k] \in GoodsRow
    BY <1>2
  <2>5. QED
    BY <2>2, <2>3, <2>4 DEF RowAt
<1>9. ASSUME NEW i \in ids, NEW k \in DOMAIN lists[i].rows PROVE <<i, k>> \in RowsOf(ids)
  <2>1. <<i, k>> \in {i} \X DOMAIN lists[i].rows
    OBVIOUS
  <2>2. QED
    BY <2>1 DEF RowsOf
<1>10. QED
  BY <1>6, <1>7, <1>8, <1>9

LEMMA ReturnPlaces ==
    ASSUME StockInv, NEW ids \in SUBSET DOMAIN ins
    PROVE  /\ IsFiniteSet(ReturnedRows(ids)) /\ ReturnedRows(ids) \subseteq ReturnedRows(DOMAIN ins)
           /\ \A p \in ReturnedRows(ids) :
                 /\ p[1] \in ids /\ p[2] \in DOMAIN ins[p[1]].rows /\ p = <<p[1], p[2]>>
                 /\ ReturnedAt(p) \in FormRow
           /\ \A i \in ids : \A k \in DOMAIN ins[i].rows : <<i, k>> \in ReturnedRows(ids)
<1>1. \A i \in DOMAIN ins : ins[i] \in [out : DOMAIN outs, rows : Seq(FormRow)]
  BY DEF StockInv, InsFit
<1>2. \A i \in DOMAIN ins : ins[i].rows \in Seq(FormRow)
  BY <1>1
<1>3. \A i \in DOMAIN ins : DOMAIN ins[i].rows = 1..Len(ins[i].rows) /\ Len(ins[i].rows) \in Nat
  BY <1>2
<1>4. IsFiniteSet(ids)
  <2>1. IsFiniteSet(DOMAIN ins)
    BY FiniteTable DEF StockInv, TablesFit
  <2>2. QED
    BY <2>1, FS_Subset
<1>5. PICK len : len = [i \in ids |-> Len(ins[i].rows)]
  OBVIOUS
<1>6. IsFiniteSet(ReturnedRows(ids))
  <2>1. len \in [ids -> Nat]
    BY <1>3, <1>5
  <2>2. \A i \in ids : {i} \X DOMAIN ins[i].rows = {i} \X (1..len[i])
    BY <1>3, <1>5
  <2>3. ReturnedRows(ids) = Places(ids, len)
    BY <2>2 DEF ReturnedRows, Places
  <2>4. QED
    BY <1>4, <2>1, <2>3, PlacesAreFinite
<1>7. ReturnedRows(ids) \subseteq ReturnedRows(DOMAIN ins)
  BY DEF ReturnedRows
<1>8. ASSUME NEW p \in ReturnedRows(ids)
      PROVE  /\ p[1] \in ids /\ p[2] \in DOMAIN ins[p[1]].rows /\ p = <<p[1], p[2]>>
             /\ ReturnedAt(p) \in FormRow
  <2>1. PICK i \in ids : p \in {i} \X DOMAIN ins[i].rows
    BY DEF ReturnedRows
  <2>2. PICK k \in DOMAIN ins[i].rows : p = <<i, k>>
    BY <2>1
  <2>3. p[1] = i /\ p[2] = k
    BY <2>2
  <2>4. ins[i].rows[k] \in FormRow
    BY <1>2
  <2>5. QED
    BY <2>2, <2>3, <2>4 DEF ReturnedAt
<1>9. ASSUME NEW i \in ids, NEW k \in DOMAIN ins[i].rows PROVE <<i, k>> \in ReturnedRows(ids)
  <2>1. <<i, k>> \in {i} \X DOMAIN ins[i].rows
    OBVIOUS
  <2>2. QED
    BY <2>1 DEF ReturnedRows
<1>10. QED
  BY <1>6, <1>7, <1>8, <1>9

LEMMA LinePlaces ==
    ASSUME StockInv
    PROVE  /\ IsFiniteSet(JobbedLines)
           /\ \A p \in JobbedLines :
                 /\ p[1] \in DOMAIN jobs /\ p[2] \in DOMAIN jobs[p[1]] /\ p = <<p[1], p[2]>>
                 /\ LineAt(p) \in JobLine
           /\ \A j \in DOMAIN jobs : \A k \in DOMAIN jobs[j] : <<j, k>> \in JobbedLines
<1>2. \A j \in DOMAIN jobs : jobs[j] \in Seq(JobLine)
  BY DEF StockInv, JobsFit
<1>3. \A j \in DOMAIN jobs : DOMAIN jobs[j] = 1..Len(jobs[j]) /\ Len(jobs[j]) \in Nat
  BY <1>2
<1>4. IsFiniteSet(DOMAIN jobs)
  BY FiniteTable DEF StockInv, TablesFit
<1>5. PICK len : len = [j \in DOMAIN jobs |-> Len(jobs[j])]
  OBVIOUS
<1>6. IsFiniteSet(JobbedLines)
  <2>1. len \in [DOMAIN jobs -> Nat]
    BY <1>3, <1>5
  <2>2. \A j \in DOMAIN jobs : {j} \X DOMAIN jobs[j] = {j} \X (1..len[j])
    BY <1>3, <1>5
  <2>3. JobbedLines = Places(DOMAIN jobs, len)
    BY <2>2 DEF JobbedLines, Places
  <2>4. QED
    BY <1>4, <2>1, <2>3, PlacesAreFinite
<1>8. ASSUME NEW p \in JobbedLines
      PROVE  /\ p[1] \in DOMAIN jobs /\ p[2] \in DOMAIN jobs[p[1]] /\ p = <<p[1], p[2]>>
             /\ LineAt(p) \in JobLine
  <2>1. PICK j \in DOMAIN jobs : p \in {j} \X DOMAIN jobs[j]
    BY DEF JobbedLines
  <2>2. PICK k \in DOMAIN jobs[j] : p = <<j, k>>
    BY <2>1
  <2>3. p[1] = j /\ p[2] = k
    BY <2>2
  <2>4. jobs[j][k] \in JobLine
    BY <1>2
  <2>5. QED
    BY <2>2, <2>3, <2>4 DEF LineAt
<1>9. ASSUME NEW j \in DOMAIN jobs, NEW k \in DOMAIN jobs[j] PROVE <<j, k>> \in JobbedLines
  <2>1. <<j, k>> \in {j} \X DOMAIN jobs[j]
    OBVIOUS
  <2>2. QED
    BY <2>1 DEF JobbedLines
<1>10. QED
  BY <1>6, <1>8, <1>9

-----------------------------------------------------------------------------
(* What the comparison comes to.                                           *)

\* In the order of two columns there is a last and a first.
LEMMA LastInOrder ==
    ASSUME NEW S, S # {}, IsFiniteSet(S), NEW a \in [S -> Nat], NEW b \in [S -> Nat]
    PROVE  \E x \in S : \A y \in S : Upto(<<a[y], b[y]>>, <<a[x], b[x]>>)
<1> DEFINE A == {a[x] : x \in S}
<1>1. IsFiniteSet(A) /\ A \in SUBSET Int /\ A # {}
  <2>1. a \in [S -> A] /\ \A y \in A : \E x \in S : a[x] = y
    OBVIOUS
  <2>2. IsFiniteSet(A)
    <3> HIDE DEF A
    <3>1. QED
      BY <2>1, ImageIsFinite
  <2>3. QED
    BY <2>2
<1>2. PICK n \in A : \A m \in A : n >= m
  <2> HIDE DEF A
  <2>1. QED
    BY <1>1, FiniteHasMax
<1> DEFINE T == {x \in S : a[x] = n}
           B == {b[x] : x \in T}
<1>3. IsFiniteSet(T) /\ T # {}
  BY <1>2, FS_Subset
<1>4. IsFiniteSet(B) /\ B \in SUBSET Int /\ B # {}
  <2> DEFINE f == [x \in T |-> b[x]]
  <2>1. f \in [T -> B] /\ \A y \in B : \E x \in T : f[x] = y
    OBVIOUS
  <2>2. IsFiniteSet(B)
    <3> HIDE DEF f, B, T
    <3>1. QED
      BY <1>3, <2>1, ImageIsFinite
  <2>3. \A x \in T : b[x] \in Int
    OBVIOUS
  <2>4. QED
    <3> HIDE DEF f, T
    <3>1. QED
      BY <1>3, <2>2, <2>3
<1>5. PICK k \in B : \A m \in B : k >= m
  <2> HIDE DEF B
  <2>1. QED
    BY <1>4, FiniteHasMax
<1>6. PICK x \in T : b[x] = k
  BY <1>5
<1>7. ASSUME NEW y \in S PROVE Upto(<<a[y], b[y]>>, <<a[x], b[x]>>)
  <2>1. a[y] \in Nat /\ b[y] \in Nat /\ a[x] \in Nat /\ b[x] \in Nat
    OBVIOUS
  <2>2. a[y] <= a[x]
    BY <1>2, <1>6, <2>1
  <2>3. a[y] = a[x] => b[y] <= b[x]
    BY <1>5, <1>6, <2>1
  <2>4. QED
    BY <2>1, <2>2, <2>3 DEF Upto
<1>8. QED
  BY <1>6, <1>7

LEMMA FirstInOrder ==
    ASSUME NEW S \in SUBSET Nat, S # {}, NEW a \in [S -> Nat]
    PROVE  \E x \in S : \A y \in S : Upto(<<a[x], x>>, <<a[y], y>>)
<1> DEFINE A == {a[x] : x \in S}
<1>1. A \in SUBSET Nat /\ A # {}
  OBVIOUS
<1>2. PICK n \in A : \A m \in A : n <= m
  <2> HIDE DEF A
  <2>1. QED
    BY <1>1, LeastElement
<1> DEFINE T == {x \in S : a[x] = n}
<1>3. T \in SUBSET Nat /\ T # {}
  BY <1>2
<1>4. PICK x \in T : \A y \in T : x <= y
  <2> HIDE DEF T
  <2>1. QED
    BY <1>3, LeastElement
<1>5. ASSUME NEW y \in S PROVE Upto(<<a[x], x>>, <<a[y], y>>)
  <2>1. a[y] \in Nat /\ a[x] \in Nat /\ x \in Nat /\ y \in Nat
    OBVIOUS
  <2>2. a[x] <= a[y]
    BY <1>2, <1>4
  <2>3. a[x] = a[y] => x <= y
    BY <1>4
  <2>4. QED
    BY <2>1, <2>2, <2>3 DEF Upto
<1>6. QED
  BY <1>4, <1>5

LEMMA ProductsAreIds == Products \subseteq Nat \ {Null}
<1>1. \A d \in CatalogDesigns : ProductOf[d] \in Nat \ {Null}
  BY CatalogueAssumption
<1>2. QED
  BY <1>1, CatalogueAssumption DEF Products

LEMMA NullIsDesign == Null \in Designs /\ Null \in Nat /\ Blank \in Nat
BY DEF Designs, Null, Blank

Groups == [product : Nat, title : Nat, design : Designs, name : Nat]

LEMMA BoxesAdd ==
    ASSUME StockInv, NEW places \in SUBSET RowsOf(DOMAIN lists)
    PROVE  /\ IsFiniteSet(places) /\ [p \in places |-> RowAt(p).boxes] \in [places -> Nat]
           /\ SumBoxes(places) \in Nat
           /\ \A p \in places : RowAt(p).boxes \in Nat \ {0} /\ RowAt(p).boxes <= SumBoxes(places)
<1>1. IsFiniteSet(places)
  <2>1. IsFiniteSet(RowsOf(DOMAIN lists))
    BY RowPlaces
  <2>2. QED
    BY <2>1, FS_Subset
<1>2. \A p \in places : RowAt(p).boxes \in Nat \ {0}
  <2>1. \A p \in RowsOf(DOMAIN lists) : RowAt(p) \in GoodsRow
    BY RowPlaces
  <2>2. QED
    BY <2>1 DEF GoodsRow
<1> DEFINE f == [p \in places |-> RowAt(p).boxes]
<1>3. f \in [places -> Nat] /\ \A p \in places : f[p] = RowAt(p).boxes
  BY <1>2
<1>4. SumBoxes(places) = SumFunction(f)
  BY DEF SumBoxes
<1> HIDE DEF f
<1>5. SumFunction(f) \in Nat
  BY <1>1, <1>3, SumSplits
<1>6. ASSUME NEW p \in places PROVE f[p] <= SumFunction(f)
  <2> DEFINE rest == [y \in places \ {p} |-> f[y]]
  <2>1. SumFunction(f) = f[p] + SumFunction(rest)
    BY <1>1, <1>3, SumSplits
  <2>2. IsFiniteSet(places \ {p}) /\ rest \in [places \ {p} -> Nat]
    BY <1>1, <1>3, FS_RemoveElement
  <2> HIDE DEF rest
  <2>3. SumFunction(rest) \in Nat
    BY <2>2, SumSplits
  <2>4. f[p] \in Nat
    BY <1>3
  <2>5. QED
    BY <2>1, <2>3, <2>4
<1>7. QED
  BY <1>1, <1>2, <1>3, <1>4, <1>5, <1>6 DEF f

LEMMA TotalsFit ==
    ASSUME StockInv, NEW ids \in SUBSET DOMAIN lists
    PROVE  /\ IsFiniteSet(DOMAIN DesignTotals(ids)) /\ DOMAIN DesignTotals(ids) \subseteq Groups
           /\ DesignTotals(ids) \in [DOMAIN DesignTotals(ids) -> Nat]
           /\ DOMAIN DesignTotals(ids) = {Group(RowAt(p)) : p \in RowsOf(ids)}
<1> DEFINE D == {Group(RowAt(p)) : p \in RowsOf(ids)}
           T == DesignTotals(ids)
<1>1. T = [g \in D |-> SumBoxes({p \in RowsOf(ids) : Group(RowAt(p)) = g})]
  BY DEF DesignTotals
<1>2. IsFiniteSet(D)
  <2>1. IsFiniteSet(RowsOf(ids))
    BY RowPlaces
  <2> DEFINE f == [p \in RowsOf(ids) |-> Group(RowAt(p))]
  <2>2. f \in [RowsOf(ids) -> D] /\ \A y \in D : \E p \in RowsOf(ids) : f[p] = y
    OBVIOUS
  <2> HIDE DEF f, D
  <2>3. QED
    BY <2>1, <2>2, ImageIsFinite
<1>3. D \subseteq Groups
  <2>1. \A p \in RowsOf(ids) : RowAt(p) \in GoodsRow
    BY RowPlaces
  <2>2. QED
    BY <2>1 DEF Groups, Group, GoodsRow
<1>4. ASSUME NEW g \in D PROVE T[g] \in Nat
  <2> DEFINE places == {p \in RowsOf(ids) : Group(RowAt(p)) = g}
  <2>1. RowsOf(ids) \subseteq RowsOf(DOMAIN lists)
    BY RowPlaces
  <2>2. places \in SUBSET RowsOf(DOMAIN lists)
    BY <2>1
  <2>3. T[g] = SumBoxes(places)
    BY <1>1
  <2> HIDE DEF places, T
  <2>4. QED
    BY <2>2, <2>3, BoxesAdd
<1> HIDE DEF D
<1>5. DOMAIN T = D /\ T \in [D -> Nat]
  <2> HIDE DEF T
  <2>1. QED
    BY <1>1, <1>4
<1>6. QED
  BY <1>2, <1>3, <1>5 DEF D

LEMMA LastOfFits ==
    ASSUME NEW totals, IsFiniteSet(DOMAIN totals), DOMAIN totals \subseteq Groups, NEW key, Has(totals, key)
    PROVE  LastOf(totals, key) \in DOMAIN totals /\ DesignKey(LastOf(totals, key)) = key
<1> DEFINE same == {g \in DOMAIN totals : DesignKey(g) = key}
           a == [g \in same |-> g.title]
           b == [g \in same |-> g.name]
<1>1. same # {} /\ IsFiniteSet(same)
  BY FS_Subset DEF Has
<1>2. a \in [same -> Nat] /\ b \in [same -> Nat]
  BY DEF Groups
<1>3. \E g \in same : \A h \in same : Upto(<<a[h], b[h]>>, <<a[g], b[g]>>)
  <2> HIDE DEF a, b, same
  <2>1. QED
    BY <1>1, <1>2, LastInOrder
<1>4. \A g \in same : a[g] = g.title /\ b[g] = g.name
  OBVIOUS
<1>5. \E g \in same : \A h \in same : Upto(<<h.title, h.name>>, <<g.title, g.name>>)
  <2> HIDE DEF a, b, same
  <2>1. QED
    BY <1>3, <1>4
<1>6. LastOf(totals, key) = CHOOSE g \in same : \A h \in same : Upto(<<h.title, h.name>>, <<g.title, g.name>>)
  BY DEF LastOf
<1>7. LastOf(totals, key) \in same
  <2> HIDE DEF a, b, same
  <2>1. QED
    BY <1>5, <1>6
<1>8. QED
  BY <1>7

LEMMA PlacedFits ==
    ASSUME NEW totals, IsFiniteSet(DOMAIN totals), DOMAIN totals \subseteq Groups,
           totals \in [DOMAIN totals -> Nat], NEW key
    PROVE  Placed(totals, key) \in Nat
<1>1. ASSUME Has(totals, key) PROVE totals[LastOf(totals, key)] \in Nat
  BY <1>1, LastOfFits
<1>2. QED
  BY <1>1 DEF Placed

\* The boxes that are with job manufacturers.
LEMMA JobTotalsFit ==
    ASSUME StockInv
    PROVE  /\ IsFiniteSet(DOMAIN JobTotals) /\ DOMAIN JobTotals \subseteq Groups
           /\ JobTotals \in [DOMAIN JobTotals -> Nat]
           /\ DOMAIN JobTotals = {LineGroup(l) : l \in JobbedLines}
           /\ \A lines \in SUBSET JobbedLines :
                 IsFiniteSet(lines) /\ [l \in lines |-> LineAt(l).source] \in [lines -> Nat]
<1> DEFINE D == {LineGroup(l) : l \in JobbedLines}
           boxes(g) == SumFunction([l \in {m \in JobbedLines : LineGroup(m) = g} |-> LineAt(l).source])
<1>1. JobTotals = [g \in D |-> boxes(g)]
  BY DEF JobTotals
<1>2. IsFiniteSet(JobbedLines) /\ \A l \in JobbedLines : LineAt(l) \in JobLine
  BY LinePlaces
<1>3. IsFiniteSet(D)
  <2> DEFINE f == [l \in JobbedLines |-> LineGroup(l)]
  <2>2. f \in [JobbedLines -> D] /\ \A y \in D : \E l \in JobbedLines : f[l] = y
    OBVIOUS
  <2> HIDE DEF f, D
  <2>3. QED
    BY <1>2, <2>2, ImageIsFinite
<1>4. D \subseteq Groups
  <2>1. ASSUME NEW l \in JobbedLines PROVE LineGroup(l) \in Groups
    <3>1. LineAt(l).to \in Nat /\ LineAt(l).title \in Nat /\ LineAt(l).name \in Nat
      BY <1>2, ProductsAreIds DEF JobLine
    <3>2. QED
      BY <3>1, NullIsDesign DEF LineGroup, Groups
  <2>2. QED
    BY <2>1
<1>5. ASSUME NEW lines \in SUBSET JobbedLines
      PROVE  IsFiniteSet(lines) /\ [l \in lines |-> LineAt(l).source] \in [lines -> Nat]
  <2>1. IsFiniteSet(lines)
    BY <1>2, FS_Subset
  <2>2. \A l \in lines : LineAt(l).source \in Nat
    BY <1>2 DEF JobLine
  <2>3. QED
    BY <2>1, <2>2
<1>6. ASSUME NEW g \in D PROVE boxes(g) \in Nat
  <2> DEFINE lines == {m \in JobbedLines : LineGroup(m) = g}
             f == [l \in lines |-> LineAt(l).source]
  <2>1. lines \in SUBSET JobbedLines
    OBVIOUS
  <2>2. IsFiniteSet(lines) /\ f \in [lines -> Nat]
    <3> HIDE DEF lines
    <3>1. QED
      BY <1>5, <2>1
  <2>3. SumFunction(f) \in Nat
    <3> HIDE DEF lines, f
    <3>1. QED
      BY <2>2, SumSplits
  <2>4. QED
    BY <2>3
<1>7. JobTotals \in [D -> Nat] /\ DOMAIN JobTotals = D
  <2> HIDE DEF D, boxes
  <2>1. QED
    BY <1>1, <1>6
<1>8. QED
  <2> HIDE DEF boxes
  <2>1. QED
    BY <1>3, <1>4, <1>5, <1>7

LEMMA JobPlacedFits ==
    ASSUME StockInv, NEW g
    PROVE  JobPlaced(g) \in Nat
<1>1. PICK jobbed : jobbed = JobTotals
  OBVIOUS
<1>2. IsFiniteSet(DOMAIN jobbed) /\ DOMAIN jobbed \subseteq Groups /\ jobbed \in [DOMAIN jobbed -> Nat]
  BY <1>1, JobTotalsFit
<1>3. Placed(jobbed, NameKey(g)) \in Nat
  BY <1>2, PlacedFits
<1>4. QED
  BY <1>1, <1>3 DEF JobPlaced

\* Which lists the two sides are added up from.
LEMMA SidesAreLists ==
    /\ (IF Of(Proforma) # {} THEN Of(Proforma) ELSE Of(Quotation)) \in SUBSET DOMAIN lists
    /\ UNION {Of(<<"order", o>>) : o \in DOMAIN orders} \in SUBSET DOMAIN lists
BY DEF Of

LEMMA CoveredFits ==
    ASSUME StockInv, NEW g
    PROVE  Covered(PlacedOnOrders, g) \in Nat
<1>1. JobPlaced(g) \in Nat
  BY JobPlacedFits
<1>2. PICK placed : placed = PlacedOnOrders
  OBVIOUS
<1>3. IsFiniteSet(DOMAIN placed) /\ DOMAIN placed \subseteq Groups /\ placed \in [DOMAIN placed -> Nat]
  BY <1>2, SidesAreLists, TotalsFit DEF PlacedOnOrders
<1>4. Placed(placed, DesignKey(g)) \in Nat
  BY <1>3, PlacedFits
<1>5. QED
  BY <1>1, <1>2, <1>4 DEF Covered

LEMMA PendingFits ==
    ASSUME StockInv
    PROVE  /\ IsFiniteSet(DOMAIN Required) /\ DOMAIN Required \subseteq Groups
           /\ Required \in [DOMAIN Required -> Nat]
           /\ IsFiniteSet(DOMAIN Pending) /\ DOMAIN Pending \subseteq DOMAIN Required
           /\ DOMAIN Pending = {g \in DOMAIN Required : Required[g] > Covered(PlacedOnOrders, g)}
           /\ \A g \in DOMAIN Pending : /\ Pending[g] = Required[g] - Covered(PlacedOnOrders, g)
                                        /\ Pending[g] \in Nat \ {0} /\ Required[g] \in Nat \ {0}
                                        /\ Pending[g] <= Required[g]
<1>1. /\ IsFiniteSet(DOMAIN Required) /\ DOMAIN Required \subseteq Groups
      /\ Required \in [DOMAIN Required -> Nat]
  BY SidesAreLists, TotalsFit DEF Required
<1>2. PICK required, placed : required = Required /\ placed = PlacedOnOrders
  OBVIOUS
<1> DEFINE D == {h \in DOMAIN required : required[h] > Covered(placed, h)}
<1>3. Pending = [g \in D |-> required[g] - Covered(placed, g)]
  BY <1>2 DEF Pending
<1>4. IsFiniteSet(D)
  BY <1>1, <1>2, FS_Subset
<1>5. \A g \in DOMAIN required : required[g] \in Nat /\ Covered(placed, g) \in Nat
  BY <1>1, <1>2, CoveredFits
<1>6. QED
  BY <1>1, <1>2, <1>3, <1>4, <1>5

-----------------------------------------------------------------------------
(* What the forms come with.                                               *)

LEMMA ListPlaces ==
    ASSUME NEW X, NEW s \in Seq(X)
    PROVE  DOMAIN s = 1..Len(s) /\ Len(s) \in Nat /\ \A k \in DOMAIN s : s[k] \in X
OBVIOUS

LEMMA Mapped ==
    ASSUME NEW X, NEW s \in Seq(X), NEW Y, NEW f \in [DOMAIN s -> Y]
    PROVE  f \in Seq(Y) /\ Len(f) = Len(s) /\ DOMAIN f = DOMAIN s
<1>1. DOMAIN s = 1..Len(s) /\ Len(s) \in Nat
  OBVIOUS
<1>2. QED
  BY <1>1

LEMMA RoundedFits ==
    ASSUME NEW n \in Nat, NEW d \in Nat \ {0}
    PROVE  Rounded(n, d) \in Nat
BY DEF Rounded

LEMMA JobQuantityFits ==
    ASSUME NEW source \in Nat
    PROVE  JobQuantity(source) \in Nat
<1>1. PICK q \in Nat : q = Rounded(source, Conversion)
  BY CatalogueAssumption, RoundedFits
<1>2. (q + 99) \div 100 \in Nat
  OBVIOUS
<1>3. QED
  BY <1>1, <1>2 DEF JobQuantity

LEMMA NewestFits ==
    ASSUME StockInv, NEW document, Of(document) # {}
    PROVE  /\ Newest(document) \in Seq(GoodsRow) \ {<<>>}
           /\ \E i \in Of(document) : /\ Newest(document) = lists[i].rows
                                      /\ \A j \in Of(document) : j <= i
<1>1. Of(document) \subseteq DOMAIN lists
  BY DEF Of
<1>2. IsFiniteSet(DOMAIN lists) /\ DOMAIN lists \subseteq Nat
  BY FiniteTable DEF StockInv, TablesFit, HasIds
<1>3. Of(document) \in SUBSET Int /\ IsFiniteSet(Of(document))
  BY <1>1, <1>2, FS_Subset
<1>4. \E i \in Of(document) : \A j \in Of(document) : j <= i
  <2>1. PICK i \in Of(document) : \A j \in Of(document) : i >= j
    BY <1>3, FiniteHasMax
  <2>2. QED
    BY <1>3, <2>1
<1>5. PICK i \in Of(document) : Newest(document) = lists[i].rows /\ \A j \in Of(document) : j <= i
  BY <1>4 DEF Newest
<1>6. lists[i] \in [of : Documents, rows : Seq(GoodsRow) \ {<<>>}]
  BY <1>1 DEF StockInv, ListsFit
<1>7. QED
  BY <1>5, <1>6

LEMMA GoodsAreRows == Seq(GoodsRow) \subseteq Seq(FormRow)
<1>1. GoodsRow \subseteq FormRow
  BY DEF GoodsRow, FormRow
<1>2. QED
  BY <1>1

LEMMA BlocksFit ==
    ASSUME NEW products, IsFiniteSet(products), products \subseteq Nat
    PROVE  Blocks(products) \in Seq(FormRow)
<1>1. PICK seq : seq = SetToSeq(products)
  OBVIOUS
<1>2. seq \in Seq(products)
  BY <1>1, SetInOrder
<1>3. \A k \in DOMAIN seq : seq[k] \in Nat
  <2>1. \A k \in DOMAIN seq : seq[k] \in products
    BY <1>2, ListPlaces
  <2>2. QED
    BY <2>1
<1>4. \A k \in DOMAIN seq : Block(seq[k]) \in FormRow
  BY <1>3, NullIsDesign DEF Block, Row, FormRow
<1>5. Blocks(products) = [k \in DOMAIN seq |-> Block(seq[k])]
  BY <1>1 DEF Blocks
<1>6. Blocks(products) \in [DOMAIN seq -> FormRow]
  BY <1>4, <1>5
<1>7. QED
  BY <1>2, <1>6, Mapped

LEMMA NamesAreNumbers ==
    ASSUME StockInv
    PROVE  /\ \A d \in CatalogDesigns : names[d] \in Nat /\ names[d] \in Spellings /\ d \in Nat
           /\ \A p \in Products : titles[p] \in Nat /\ titles[p] \in Titles /\ p \in Nat
<1>1. NamesFit
  BY DEF StockInv
<1>2. \A d \in CatalogDesigns : names[d] \in Spellings
  BY <1>1 DEF NamesFit
<1>3. \A p \in Products : titles[p] \in Titles
  BY <1>1 DEF NamesFit
<1>4. QED
  BY <1>2, <1>3, CatalogueAssumption, ProductsAreIds

LEMMA ResolveFits ==
    ASSUME StockInv, NEW p, NEW n
    PROVE  Resolve(p, n) \in Designs
<1> DEFINE any == {d \in CatalogDesigns : Plain(names[d]) = Plain(n)}
           own == {d \in any : ProductOf[d] = p}
           found == IF own # {} THEN own ELSE any
<1>1. found \subseteq CatalogDesigns
  OBVIOUS
<1>2. IsFiniteSet(found)
  <2> HIDE DEF found
  <2>1. IsFiniteSet(CatalogDesigns)
    BY CatalogueAssumption
  <2>2. QED
    BY <1>1, <2>1, FS_Subset
<1>3. Resolve(p, n) = IF n = Null \/ found = {} THEN Null
                      ELSE CHOOSE d \in found : \A e \in found : Upto(<<names[e], e>>, <<names[d], d>>)
  BY DEF Resolve
<1> HIDE DEF found
<1>4. ASSUME found # {}
      PROVE  (CHOOSE d \in found : \A e \in found : Upto(<<names[e], e>>, <<names[d], d>>)) \in found
  <2> DEFINE a == [d \in found |-> names[d]]
             b == [d \in found |-> d]
  <2>1. a \in [found -> Nat] /\ b \in [found -> Nat]
    BY <1>1, NamesAreNumbers
  <2>2. \A d \in found : a[d] = names[d] /\ b[d] = d
    OBVIOUS
  <2> HIDE DEF a, b
  <2>3. PICK d \in found : \A e \in found : Upto(<<a[e], b[e]>>, <<a[d], b[d]>>)
    BY <1>2, <1>4, <2>1, LastInOrder
  <2>4. \A e \in found : Upto(<<names[e], e>>, <<names[d], d>>)
    BY <2>2, <2>3
  <2>5. QED
    BY <2>4
<1>5. QED
  BY <1>1, <1>3, <1>4 DEF Designs

LEMMA ProformaFormsFit ==
    ASSUME StockInv
    PROVE  QuotationForm \in Seq(FormRow) /\ ProformaForm \in Seq(FormRow)
<1>1. Blocks(Invoiced) \in Seq(FormRow)
  BY CatalogueAssumption, BlocksFit
<1>2. Of(Quotation) # {} => Newest(Quotation) \in Seq(FormRow)
  BY NewestFits, GoodsAreRows
<1>3. QED
  BY <1>1, <1>2 DEF QuotationForm, ProformaForm

\* The groups a row's share is worked out from are those of what is asked for.
LEMMA PendingOf ==
    ASSUME StockInv, NEW key, Has(Pending, key)
    PROVE  /\ LastOf(Pending, key) \in DOMAIN Pending
           /\ DesignKey(LastOf(Pending, key)) = key
           /\ Pending[LastOf(Pending, key)] \in Nat \ {0} /\ Required[LastOf(Pending, key)] \in Nat \ {0}
           /\ Pending[LastOf(Pending, key)] <= Required[LastOf(Pending, key)]
<1>1. PICK pending : pending = Pending
  OBVIOUS
<1>2. IsFiniteSet(DOMAIN pending) /\ DOMAIN pending \subseteq Groups
  BY <1>1, PendingFits
<1>3. LastOf(pending, key) \in DOMAIN pending /\ DesignKey(LastOf(pending, key)) = key
  BY <1>1, <1>2, LastOfFits
<1>4. QED
  BY <1>1, <1>3, PendingFits

LEMMA ScaledRowFits ==
    ASSUME NEW row \in FormRow, NEW pending \in Nat, NEW required \in Nat \ {0}
    PROVE  /\ ScaledRow(row, pending, required) \in FormRow
           /\ ScaledRow(row, pending, required).product = row.product
           /\ ScaledRow(row, pending, required).title = row.title
           /\ ScaledRow(row, pending, required).design = row.design
           /\ ScaledRow(row, pending, required).name = row.name
           /\ ScaledRow(row, pending, required).boxes = Rounded(row.boxes * pending, required)
<1>1. row.boxes \in Nat
  BY DEF FormRow
<1>2. PICK n : n = row.boxes * pending
  OBVIOUS
<1>3. n \in Nat
  BY <1>1, <1>2
<1>4. Rounded(n, required) \in Nat
  BY <1>3, RoundedFits
<1>5. ScaledRow(row, pending, required) = [row EXCEPT !.boxes = Rounded(n, required)]
  BY <1>2 DEF ScaledRow
<1>6. QED
  BY <1>2, <1>4, <1>5 DEF FormRow

LEMMA RemainingFits ==
    ASSUME StockInv, NEW rows \in Seq(FormRow)
    PROVE  RemainingDesigns(rows) \in Seq(FormRow)
<1>1. PICK required, pending : required = Required /\ pending = Pending
  OBVIOUS
<1> DEFINE kept == At(rows, {k \in DOMAIN rows : Has(pending, DesignKey(rows[k]))})
           of(r) == LastOf(pending, DesignKey(r))
           scaled == [k \in DOMAIN kept |-> ScaledRow(kept[k], pending[of(kept[k])], required[of(kept[k])])]
<1>2. RemainingDesigns(rows) = IF DOMAIN required = {} THEN rows ELSE scaled
  BY <1>1 DEF RemainingDesigns
<1>3. PICK places \in SUBSET DOMAIN rows : /\ places = {k \in DOMAIN rows : Has(pending, DesignKey(rows[k]))}
                                           /\ kept = At(rows, places)
  OBVIOUS
<1>4. PICK h \in Bijection(1..Cardinality(places), places) :
          \A i \in 1..Cardinality(places) : At(rows, places)[i] = rows[h[i]]
  BY AtPlaces
<1>5. kept \in Seq(FormRow) /\ DOMAIN kept = 1..Cardinality(places)
  <2> HIDE DEF kept
  <2>1. QED
    BY <1>3, AtPlaces
<1>6. \A k \in DOMAIN kept : kept[k] \in FormRow /\ Has(pending, DesignKey(kept[k]))
  <2> HIDE DEF kept
  <2>1. ASSUME NEW k \in DOMAIN kept PROVE kept[k] \in FormRow /\ Has(pending, DesignKey(kept[k]))
    <3>1. h[k] \in places /\ kept[k] = rows[h[k]]
      BY <1>3, <1>4, <1>5 DEF Bijection, Injection
    <3>2. QED
      BY <1>3, <1>5, <3>1
  <2>2. QED
    BY <2>1
<1>7. \A k \in DOMAIN kept : ScaledRow(kept[k], pending[of(kept[k])], required[of(kept[k])]) \in FormRow
  <2> HIDE DEF kept
  <2>1. ASSUME NEW k \in DOMAIN kept
        PROVE  ScaledRow(kept[k], pending[of(kept[k])], required[of(kept[k])]) \in FormRow
    <3>1. PICK a, b : a = pending[of(kept[k])] /\ b = required[of(kept[k])]
      OBVIOUS
    <3>2. a \in Nat /\ b \in Nat \ {0}
      BY <1>1, <1>6, <3>1, PendingOf
    <3>3. ScaledRow(kept[k], a, b) \in FormRow
      BY <1>6, <3>2, ScaledRowFits
    <3>4. QED
      BY <3>1, <3>3
  <2>2. QED
    BY <2>1
<1>8. scaled \in [DOMAIN kept -> FormRow]
  <2> HIDE DEF kept, of
  <2>1. QED
    BY <1>7
<1>9. scaled \in Seq(FormRow)
  <2> HIDE DEF scaled, kept
  <2>1. QED
    BY <1>5, <1>8, Mapped
<1>10. QED
  BY <1>2, <1>9

LEMMA OrderFormFits ==
    ASSUME StockInv, NEW o \in DOMAIN orders
    PROVE  OrderForm(o) \in Seq(FormRow)
<1>1. PICK ancestor : ancestor = IF Of(Proforma) # {} THEN Proforma ELSE Quotation
  OBVIOUS
<1>2. Blocks(orders[o]) \in Seq(FormRow)
  BY BlocksFit DEF StockInv, OrdersFit
<1>3. PICK rows : rows = Newest(ancestor)
  OBVIOUS
<1> DEFINE kept == At(rows, {k \in DOMAIN rows : rows[k].product \in orders[o]})
<1>4. ASSUME Of(ancestor) # {} PROVE RemainingDesigns(kept) \in Seq(FormRow)
  <2>1. rows \in Seq(FormRow)
    BY <1>3, <1>4, NewestFits, GoodsAreRows
  <2>2. {k \in DOMAIN rows : rows[k].product \in orders[o]} \in SUBSET DOMAIN rows
    OBVIOUS
  <2>3. kept \in Seq(FormRow)
    BY <2>1, <2>2, AtPlaces
  <2> HIDE DEF kept
  <2>4. QED
    BY <2>3, RemainingFits
<1>5. OrderForm(o) = IF Of(ancestor) = {} THEN Blocks(orders[o]) ELSE RemainingDesigns(kept)
  BY <1>1, <1>3 DEF OrderForm
<1>6. QED
  BY <1>2, <1>4, <1>5

LEMMA JobFormFits ==
    ASSUME StockInv, NEW j \in DOMAIN jobs
    PROVE  JobForm(j) \in Seq(FormRow)
<1>1. PICK lines : lines = jobs[j]
  OBVIOUS
<1>2. lines \in Seq(JobLine)
  BY <1>1 DEF StockInv, JobsFit
<1>3. \A k \in DOMAIN lines : lines[k] \in JobLine
  BY <1>2
<1>4. ASSUME NEW l \in JobLine
      PROVE  Row(l.from, titles[l.from], Resolve(l.from, l.name), l.name, JobQuantity(l.source)) \in FormRow
  <2>1. l.from \in Nat /\ titles[l.from] \in Nat /\ l.name \in Nat /\ l.source \in Nat
    BY NamesAreNumbers DEF JobLine
  <2>2. PICK d \in Designs, q \in Nat : d = Resolve(l.from, l.name) /\ q = JobQuantity(l.source)
    BY <2>1, ResolveFits, JobQuantityFits
  <2>3. Row(l.from, titles[l.from], d, l.name, q) \in FormRow
    BY <2>1 DEF Row, FormRow
  <2>4. QED
    BY <2>2, <2>3
<1> DEFINE row(l) == Row(l.from, titles[l.from], Resolve(l.from, l.name), l.name, JobQuantity(l.source))
<1>5. JobForm(j) = [k \in DOMAIN lines |-> row(lines[k])]
  BY <1>1 DEF JobForm
<1>6. \A l \in JobLine : row(l) \in FormRow
  BY <1>4
<1> HIDE DEF row
<1>7. JobForm(j) \in [DOMAIN lines -> FormRow]
  BY <1>3, <1>5, <1>6
<1>8. QED
  BY <1>2, <1>7, Mapped

LEMMA FromJobWorkFits ==
    ASSUME StockInv, NEW line \in InvoiceLine
    PROVE  FromJobWork(line) \in Seq(FormRow)
<1> DEFINE has == line.job \in DOMAIN jobs
           rows == Newest(<<"jobwork", line.job>>)
           packed == IF ~has \/ Of(<<"jobwork", line.job>>) = {} THEN <<>>
                     ELSE At(rows, {k \in DOMAIN rows : rows[k].product = line.product})
           work == jobs[line.job]
           designs == IF ~has THEN <<>> ELSE At(work, {k \in DOMAIN work : work[k].from = line.product})
           taken(r) == [r EXCEPT !.design = IF @ = Null THEN Resolve(line.product, r.name) ELSE @]
           offered(l) == Row(line.product, titles[line.product], Resolve(line.product, l.name), l.name, Blank)
           fromList == [k \in DOMAIN packed |-> taken(packed[k])]
           fromWork == [k \in DOMAIN designs |-> offered(designs[k])]
<1>1. packed \in Seq(FormRow)
  <2>1. <<>> \in Seq(FormRow)
    OBVIOUS
  <2>2. ASSUME Of(<<"jobwork", line.job>>) # {} PROVE At(rows, {k \in DOMAIN rows : rows[k].product = line.product}) \in Seq(FormRow)
    <3>1. rows \in Seq(FormRow)
      BY <2>2, NewestFits, GoodsAreRows
    <3> HIDE DEF rows
    <3>2. {k \in DOMAIN rows : rows[k].product = line.product} \in SUBSET DOMAIN rows
      OBVIOUS
    <3>3. QED
      BY <3>1, <3>2, AtPlaces
  <2>3. QED
    BY <2>1, <2>2
<1>2. designs \in Seq(JobLine)
  <2>1. <<>> \in Seq(JobLine)
    OBVIOUS
  <2>2. ASSUME has PROVE At(work, {k \in DOMAIN work : work[k].from = line.product}) \in Seq(JobLine)
    <3>1. work \in Seq(JobLine)
      BY <2>2 DEF StockInv, JobsFit
    <3> HIDE DEF work
    <3>2. {k \in DOMAIN work : work[k].from = line.product} \in SUBSET DOMAIN work
      OBVIOUS
    <3>3. QED
      BY <3>1, <3>2, AtPlaces
  <2>3. QED
    BY <2>1, <2>2
<1>3. line.product \in Nat /\ titles[line.product] \in Nat
  BY NamesAreNumbers DEF InvoiceLine
<1>4. ASSUME NEW r \in FormRow PROVE taken(r) \in FormRow
  <2>1. PICK d \in Designs : d = Resolve(line.product, r.name)
    BY ResolveFits
  <2>2. [r EXCEPT !.design = IF @ = Null THEN d ELSE @] \in FormRow
    BY DEF FormRow
  <2>3. QED
    BY <2>1, <2>2
<1>5. ASSUME NEW l \in JobLine PROVE offered(l) \in FormRow
  <2>1. PICK d \in Designs : d = Resolve(line.product, l.name)
    BY ResolveFits
  <2>2. l.name \in Nat
    BY DEF JobLine
  <2>3. Row(line.product, titles[line.product], d, l.name, Blank) \in FormRow
    BY <1>3, <2>2, NullIsDesign DEF Row, FormRow
  <2>4. QED
    BY <2>1, <2>3
<1>6. FromJobWork(line) = CASE packed # <<>> -> fromList
                            [] packed = <<>> /\ designs # <<>> -> fromWork
                            [] OTHER -> <<Block(line.product)>>
  BY DEF FromJobWork
<1> HIDE DEF taken, offered, packed, designs
<1>7. fromList \in Seq(FormRow)
  <2>1. \A k \in DOMAIN packed : packed[k] \in FormRow
    BY <1>1, ListPlaces
  <2>2. fromList \in [DOMAIN packed -> FormRow]
    BY <1>4, <2>1
  <2> HIDE DEF fromList
  <2>3. QED
    BY <1>1, <2>2, Mapped
<1>8. fromWork \in Seq(FormRow)
  <2>1. \A k \in DOMAIN designs : designs[k] \in JobLine
    BY <1>2, ListPlaces
  <2>2. fromWork \in [DOMAIN designs -> FormRow]
    BY <1>5, <2>1
  <2> HIDE DEF fromWork
  <2>3. QED
    BY <1>2, <2>2, Mapped
<1>9. <<Block(line.product)>> \in Seq(FormRow)
  <2>1. Block(line.product) \in FormRow
    BY <1>3, NullIsDesign DEF Block, Row, FormRow
  <2>2. QED
    BY <2>1
<1> HIDE DEF fromList, fromWork
<1>10. QED
  BY <1>6, <1>7, <1>8, <1>9

LEMMA InvoiceFormFits ==
    ASSUME StockInv, NEW v \in DOMAIN invoices
    PROVE  InvoiceForm(v) \in Seq(FormRow)
<1>1. PICK lines, order : lines = invoices[v].lines /\ order = <<"order", invoices[v].order>>
  OBVIOUS
<1>2. lines \in Seq(InvoiceLine)
  <2>1. invoices[v] \in [order : DOMAIN orders \union {Null}, jobs : Seq(DOMAIN jobs), lines : Seq(InvoiceLine)]
    BY DEF StockInv, InvoicesFit
  <2>2. QED
    BY <1>1, <2>1
<1>3. \A k \in DOMAIN lines : lines[k] \in InvoiceLine
  BY <1>2, ListPlaces
<1>4. Of(order) # {} => Newest(order) \in Seq(FormRow)
  BY NewestFits, GoodsAreRows
<1> DEFINE parts == [k \in DOMAIN lines |-> FromJobWork(lines[k])]
           blocks == [k \in DOMAIN lines |-> Block(lines[k].product)]
<1>5. FlattenSeq(parts) \in Seq(FormRow)
  <2>1. parts \in [DOMAIN lines -> Seq(FormRow)]
    BY <1>3, FromJobWorkFits
  <2> HIDE DEF parts
  <2>2. parts \in Seq(Seq(FormRow))
    BY <1>2, <2>1, Mapped
  <2>3. QED
    BY <2>2, FlatSpots
<1>6. blocks \in Seq(FormRow)
  <2>1. \A k \in DOMAIN lines : Block(lines[k].product) \in FormRow
    BY <1>3, ProductsAreIds, NullIsDesign DEF Block, Row, FormRow, InvoiceLine
  <2>2. blocks \in [DOMAIN lines -> FormRow]
    BY <2>1
  <2> HIDE DEF blocks
  <2>3. QED
    BY <1>2, <2>2, Mapped
<1>7. InvoiceForm(v) = CASE Of(order) # {} -> Newest(order)
                         [] Of(order) = {} /\ invoices[v].order = Null -> FlattenSeq(parts)
                         [] OTHER -> blocks
  BY <1>1 DEF InvoiceForm
<1> HIDE DEF parts, blocks
<1>8. QED
  BY <1>4, <1>5, <1>6, <1>7

-----------------------------------------------------------------------------
(* What is posted.                                                         *)

LEMMA TypedFits ==
    ASSUME StockInv, NEW sheet \in Sheets
    PROVE  Typed(sheet) \in Seq(GoodsRow) \ {<<>>}
<1> DEFINE Cells == [product : Products, design : Designs, name : Nat, boxes : Nat \ {0}]
           row(r) == Row(r.product, titles[r.product], r.design,
                         IF r.design = Null THEN r.name ELSE names[r.design], r.boxes)
<1>1. sheet \in Seq(Cells) /\ sheet # <<>>
  BY FormsAssumption
<1>2. \A k \in DOMAIN sheet : sheet[k] \in Cells
  <2> HIDE DEF Cells
  <2>1. QED
    BY <1>1, ListPlaces
<1>4. ASSUME NEW r \in Cells PROVE row(r) \in GoodsRow
  <2>1. r.product \in Nat /\ titles[r.product] \in Nat
    BY NamesAreNumbers
  <2>2. (IF r.design = Null THEN r.name ELSE names[r.design]) \in Nat
    BY NamesAreNumbers DEF Designs
  <2>3. QED
    BY <2>1, <2>2 DEF Row, GoodsRow
<1>5. Typed(sheet) = [k \in DOMAIN sheet |-> row(sheet[k])]
  BY DEF Typed
<1> HIDE DEF row, Cells
<1>6. Typed(sheet) \in [DOMAIN sheet -> GoodsRow]
  BY <1>2, <1>4, <1>5
<1>7. Typed(sheet) \in Seq(GoodsRow) /\ Len(Typed(sheet)) = Len(sheet)
  BY <1>1, <1>6, Mapped
<1>8. Len(sheet) # 0
  BY <1>1
<1>9. QED
  BY <1>7, <1>8

LEMMA PostedFits ==
    ASSUME StockInv, NEW form \in Seq(FormRow), NEW rows \in Posted(form)
    PROVE  rows \in Seq(GoodsRow) \ {<<>>}
<1> DEFINE places == {k \in DOMAIN form : form[k].design # Null \/ form[k].name # Null}
           kept == At(form, places)
           filled == [k \in DOMAIN kept |-> IF kept[k].boxes = Blank THEN [kept[k] EXCEPT !.boxes = TypedBoxes]
                                            ELSE kept[k]]
<1>1. Posted(form) = ({filled} \union {Typed(s) : s \in Sheets}) \ {<<>>}
  BY DEF Posted
<1>2. kept \in Seq(FormRow)
  <2>1. places \in SUBSET DOMAIN form
    OBVIOUS
  <2> HIDE DEF places
  <2>2. QED
    BY <2>1, AtPlaces
<1> HIDE DEF kept
<1>3. \A k \in DOMAIN kept : kept[k] \in FormRow
  BY <1>2, ListPlaces
<1>4. filled \in [DOMAIN kept -> GoodsRow]
  <2>1. TypedBoxes \in Nat \ {0}
    BY CatalogueAssumption
  <2>2. QED
    BY <1>3, <2>1 DEF FormRow, GoodsRow, Blank
<1> HIDE DEF filled
<1>5. filled \in Seq(GoodsRow)
  BY <1>2, <1>4, Mapped
<1>6. QED
  BY <1>1, <1>5, TypedFits

LEMMA SourceQuantityFits ==
    ASSUME StockInv, NEW to, NEW n
    PROVE  SourceQuantity(to, n) \in Nat
<1> DEFINE rows == {p \in RowsOf(Of(Proforma)) : RowAt(p).product \in Invoiced /\ Plain(RowAt(p).name) = Plain(n)}
           products == {RowAt(p).product : p \in rows}
           source == IF to \in products \/ Cardinality(products) # 1 THEN to ELSE CHOOSE p \in products : TRUE
           places == {p \in rows : RowAt(p).product = source}
<1>3. SourceQuantity(to, n) = SumBoxes(places)
  BY DEF SourceQuantity
<1> HIDE DEF source
<1>4. places \in SUBSET RowsOf(DOMAIN lists)
  <2>1. Of(Proforma) \in SUBSET DOMAIN lists
    BY DEF Of
  <2>2. RowsOf(Of(Proforma)) \subseteq RowsOf(DOMAIN lists)
    BY <2>1, RowPlaces
  <2>3. QED
    BY <2>2
<1> HIDE DEF places
<1>5. QED
  BY <1>3, <1>4, BoxesAdd

LEMMA JobLinesFit ==
    ASSUME StockInv, NEW card \in Cards
    PROVE  JobLines(card) \in Seq(JobLine)
<1> DEFINE Card == [from : Products, to : Products, name : Nat]
           line(c) == [from |-> c.from, to |-> c.to, title |-> titles[c.to],
                       name |-> c.name, source |-> SourceQuantity(c.to, c.name)]
<1>1. card \in Seq(Card)
  BY FormsAssumption
<1>2. \A k \in DOMAIN card : card[k] \in Card
  <2> HIDE DEF Card
  <2>1. QED
    BY <1>1, ListPlaces
<1>3. ASSUME NEW c \in Card PROVE line(c) \in JobLine
  <2>1. PICK q \in Nat : q = SourceQuantity(c.to, c.name)
    BY SourceQuantityFits
  <2>2. [from |-> c.from, to |-> c.to, title |-> titles[c.to], name |-> c.name, source |-> q] \in JobLine
    BY NamesAreNumbers DEF JobLine
  <2>3. QED
    BY <2>1, <2>2
<1>4. JobLines(card) = [k \in DOMAIN card |-> line(card[k])]
  BY DEF JobLines
<1> HIDE DEF line, Card
<1>5. JobLines(card) \in [DOMAIN card -> JobLine]
  BY <1>2, <1>3, <1>4
<1>6. QED
  BY <1>1, <1>5, Mapped

-----------------------------------------------------------------------------
(* What a job in comes with, and what is counted of it.                    *)

LinesFrom(lines, p) == {k \in DOMAIN lines : lines[k].from = p}

\* What the job works an invoice names took, one line after the other.
WorkLines(v) == FlattenSeq([k \in DOMAIN invoices[v].jobs |-> jobs[invoices[v].jobs[k]]])

LEMMA JobbedFits ==
    ASSUME StockInv, NEW v \in DOMAIN invoices, NEW lines, lines = WorkLines(v)
    PROVE  /\ lines \in Seq(JobLine)
           /\ \A p : Jobbed(v, p) = At(lines, LinesFrom(lines, p)) /\ Jobbed(v, p) \in Seq(JobLine)
<1>0. PICK works, parts : works = invoices[v].jobs /\ parts = [k \in DOMAIN works |-> jobs[works[k]]]
  OBVIOUS
<1>1. works \in Seq(DOMAIN jobs)
  <2>1. invoices[v] \in [order : DOMAIN orders \union {Null}, jobs : Seq(DOMAIN jobs), lines : Seq(InvoiceLine)]
    BY DEF StockInv, InvoicesFit
  <2>2. QED
    BY <1>0, <2>1
<1>2. \A k \in DOMAIN works : works[k] \in DOMAIN jobs
  BY <1>1, ListPlaces
<1>3. parts \in [DOMAIN works -> Seq(JobLine)]
  BY <1>0, <1>2 DEF StockInv, JobsFit
<1>4. parts \in Seq(Seq(JobLine))
  BY <1>1, <1>3, Mapped
<1>5. lines = FlattenSeq(parts) /\ lines \in Seq(JobLine)
  BY <1>0, <1>4, FlatSpots DEF WorkLines
<1>6. ASSUME NEW p
      PROVE  Jobbed(v, p) = At(lines, LinesFrom(lines, p)) /\ Jobbed(v, p) \in Seq(JobLine)
  <2>1. PICK places \in SUBSET DOMAIN lines : places = LinesFrom(lines, p)
    BY DEF LinesFrom
  <2>2. Jobbed(v, p) = At(lines, places)
    BY <1>0, <1>5, <2>1 DEF Jobbed, LinesFrom
  <2>3. At(lines, places) \in Seq(JobLine)
    BY <1>5, AtPlaces
  <2>4. QED
    BY <2>1, <2>2, <2>3
<1>7. QED
  BY <1>5, <1>6

\* What the lines make of one design.
MadeOf(lines, n) == SumFunction([k \in {h \in DOMAIN lines : Plain(lines[h].name) = n} |-> lines[k].source])
Output(lines, n) == Row(Null, lines[1].title, Null, lines[FirstOf(lines, n)].name, MadeOf(lines, n))

LEMMA OutputsFit ==
    ASSUME NEW lines \in Seq(JobLine), lines # <<>>
    PROVE  /\ IsFiniteSet(Outputs(lines))
           /\ \A n \in Outputs(lines) : FirstOf(lines, n) \in DOMAIN lines /\ Plain(lines[FirstOf(lines, n)].name) = n
           /\ \A n : MadeOf(lines, n) \in Nat
           /\ lines[1] \in JobLine
           /\ OutputDesigns(lines) \in Seq(FormRow)
           /\ OutputDesigns(lines) =
                 [k \in DOMAIN SetToSeq(Outputs(lines)) |-> Output(lines, SetToSeq(Outputs(lines))[k])]
<1>1. DOMAIN lines = 1..Len(lines) /\ Len(lines) \in Nat /\ \A k \in DOMAIN lines : lines[k] \in JobLine
  BY ListPlaces
<1>2. IsFiniteSet(DOMAIN lines)
  BY <1>1, FS_Interval
<1>3. ASSUME NEW n \in Outputs(lines)
      PROVE  FirstOf(lines, n) \in DOMAIN lines /\ Plain(lines[FirstOf(lines, n)].name) = n
  <2> DEFINE T == {k \in DOMAIN lines : Plain(lines[k].name) = n}
  <2>1. T \subseteq Nat /\ T # {}
    BY <1>1 DEF Outputs
  <2>2. PICK k \in T : \A h \in T : k <= h
    <3> HIDE DEF T
    <3>1. QED
      BY <2>1, LeastElement
  <2>3. \E x \in DOMAIN lines : /\ Plain(lines[x].name) = n
                                /\ \A h \in DOMAIN lines : Plain(lines[h].name) = n => x <= h
    BY <2>2
  <2>4. QED
    BY <2>3 DEF FirstOf
<1>4. IsFiniteSet(Outputs(lines))
  <2> DEFINE f == [k \in DOMAIN lines |-> Plain(lines[k].name)]
  <2>1. f \in [DOMAIN lines -> Outputs(lines)] /\ \A y \in Outputs(lines) : \E k \in DOMAIN lines : f[k] = y
    BY DEF Outputs
  <2> HIDE DEF f
  <2>2. QED
    BY <1>2, <2>1, ImageIsFinite
<1>5. ASSUME NEW n PROVE MadeOf(lines, n) \in Nat
  <2> DEFINE D == {h \in DOMAIN lines : Plain(lines[h].name) = n}
             f == [k \in D |-> lines[k].source]
  <2>1. IsFiniteSet(D)
    BY <1>2, FS_Subset
  <2>2. f \in [D -> Nat]
    BY <1>1 DEF JobLine
  <2>3. MadeOf(lines, n) = SumFunction(f)
    BY DEF MadeOf
  <2> HIDE DEF f, D
  <2>4. QED
    BY <2>1, <2>2, <2>3, SumSplits
<1>6. lines[1] \in JobLine
  <2>1. 1 \in DOMAIN lines
    BY <1>1
  <2>2. QED
    BY <1>1, <2>1
<1>7. PICK found : found = SetToSeq(Outputs(lines))
  OBVIOUS
<1>8. OutputDesigns(lines) = [k \in DOMAIN found |-> Output(lines, found[k])]
  BY <1>7 DEF OutputDesigns, MadeOf, Output
<1>9. found \in Seq(Outputs(lines))
  BY <1>4, <1>7, SetInOrder
<1>10. \A k \in DOMAIN found : found[k] \in Outputs(lines)
  BY <1>9, ListPlaces
<1>11. ASSUME NEW n \in Outputs(lines) PROVE Output(lines, n) \in FormRow
  <2>1. lines[1].title \in Nat
    BY <1>6 DEF JobLine
  <2>2. lines[FirstOf(lines, n)].name \in Nat
    BY <1>1, <1>3 DEF JobLine
  <2>3. QED
    BY <1>5, <2>1, <2>2, NullIsDesign DEF Row, FormRow, Output
<1>12. OutputDesigns(lines) \in [DOMAIN found -> FormRow]
  BY <1>8, <1>10, <1>11
<1>13. OutputDesigns(lines) \in Seq(FormRow)
  BY <1>9, <1>12, Mapped
<1>14. QED
  BY <1>3, <1>4, <1>5, <1>6, <1>7, <1>8, <1>13

\* What is offered of one product of an invoice.
MadeOut(v, p) == IF Jobbed(v, p) = <<>> THEN <<>> ELSE OutputDesigns(Jobbed(v, p))

LEMMA JobInFormFits ==
    ASSUME StockInv, NEW x \in DOMAIN outs,
           NEW lines, lines = invoices[outs[x]].lines,
           NEW parts, parts = [k \in DOMAIN lines |-> MadeOut(outs[x], lines[k].product)]
    PROVE  /\ lines \in Seq(InvoiceLine) /\ parts \in Seq(Seq(FormRow)) /\ Len(parts) = Len(lines)
           /\ JobInForm(x) = FlattenSeq(parts) /\ JobInForm(x) \in Seq(FormRow)
<1>1. PICK v \in DOMAIN invoices : v = outs[x]
  BY DEF StockInv, OutsFit
<1>2. lines \in Seq(InvoiceLine)
  <2>1. invoices[v] \in [order : DOMAIN orders \union {Null}, jobs : Seq(DOMAIN jobs), lines : Seq(InvoiceLine)]
    BY DEF StockInv, InvoicesFit
  <2>2. QED
    BY <1>1, <2>1
<1>3. ASSUME NEW p PROVE MadeOut(v, p) \in Seq(FormRow)
  <2>1. PICK jobbed : jobbed = Jobbed(v, p)
    OBVIOUS
  <2>2. jobbed \in Seq(JobLine)
    BY <2>1, JobbedFits
  <2>3. jobbed # <<>> => OutputDesigns(jobbed) \in Seq(FormRow)
    BY <2>2, OutputsFit
  <2>4. <<>> \in Seq(FormRow)
    OBVIOUS
  <2>5. QED
    BY <2>1, <2>3, <2>4 DEF MadeOut
<1>4. parts \in [DOMAIN lines -> Seq(FormRow)]
  BY <1>1, <1>3
<1>5. parts \in Seq(Seq(FormRow)) /\ Len(parts) = Len(lines)
  BY <1>2, <1>4, Mapped
<1>6. JobInForm(x) = FlattenSeq(parts)
  BY DEF JobInForm, MadeOut
<1>7. QED
  BY <1>2, <1>5, <1>6, FlatSpots

LEMMA ProductOnFits ==
    ASSUME StockInv, NEW r \in FormRow
    PROVE  ProductOn(r) \in Nat
<1> DEFINE same == {p \in Products : Plain(titles[p]) = Plain(r.title)}
<1>1. same \subseteq Nat
  BY ProductsAreIds
<1>2. ASSUME same # {}
      PROVE  (CHOOSE p \in same : \A q \in same : Upto(<<titles[p], p>>, <<titles[q], q>>)) \in same
  <2> DEFINE a == [p \in same |-> titles[p]]
  <2>1. a \in [same -> Nat] /\ \A p \in same : a[p] = titles[p]
    BY NamesAreNumbers
  <2> HIDE DEF a, same
  <2>2. PICK p \in same : \A q \in same : Upto(<<a[p], p>>, <<a[q], q>>)
    BY <1>1, <1>2, <2>1, FirstInOrder
  <2>3. \A q \in same : Upto(<<titles[p], p>>, <<titles[q], q>>)
    BY <2>1, <2>2
  <2>4. QED
    BY <2>3
<1>3. ProductNamed(r.title) = IF same = {} THEN Null
                              ELSE CHOOSE p \in same : \A q \in same : Upto(<<titles[p], p>>, <<titles[q], q>>)
  BY DEF ProductNamed
<1>4. ProductNamed(r.title) \in Nat
  <2> HIDE DEF same
  <2>1. QED
    BY <1>1, <1>2, <1>3, NullIsDesign
<1>5. r.product \in Nat
  BY DEF FormRow
<1>6. QED
  BY <1>4, <1>5 DEF ProductOn

LEMMA ReceivedFits ==
    ASSUME StockInv, NEW r \in FormRow
    PROVE  Received(r) \in FormRow /\ Moved(Received(r))
<1>0. PICK product \in Nat : product = ProductOn(r)
  BY ProductOnFits
<1> DEFINE named == {d \in CatalogDesigns : ProductOf[d] = product /\ Plain(names[d]) = Plain(r.name)}
           known == r.design # Null /\ ProductOf[r.design] = product
           least == CHOOSE d \in named : \A e \in named : Upto(<<names[d], d>>, <<names[e], e>>)
           taken == CASE known -> r.design
                      [] ~known /\ named # {} -> least
                      [] OTHER -> Null
<1>1. named \subseteq CatalogDesigns /\ CatalogDesigns \subseteq Nat
  BY CatalogueAssumption
<1>2. named # {} => least \in named
  <2> DEFINE a == [d \in named |-> names[d]]
  <2>1. a \in [named -> Nat] /\ \A d \in named : a[d] = names[d]
    BY NamesAreNumbers
  <2> HIDE DEF a, named
  <2>2. ASSUME named # {} PROVE \E d \in named : \A e \in named : Upto(<<a[d], d>>, <<a[e], e>>)
    BY <1>1, <2>1, <2>2, FirstInOrder
  <2>3. QED
    BY <2>1, <2>2
<1>3. taken \in Designs /\ (taken # Null => ProductOf[taken] = product)
  <2>1. CASE known
    BY <2>1 DEF FormRow
  <2>2. CASE ~known /\ named # {}
    <3>1. least \in CatalogDesigns /\ ProductOf[least] = product
      BY <1>2, <2>2
    <3>2. taken = least
      BY <2>2
    <3>3. QED
      BY <3>1, <3>2 DEF Designs
  <2>3. CASE ~known /\ named = {}
    BY <2>3 DEF Designs
  <2>4. QED
    BY <2>1, <2>2, <2>3
<1>4. Received(r) = [r EXCEPT !.product = product, !.design = taken]
  BY <1>0 DEF Received
<1> HIDE DEF taken
<1>5. QED
  BY <1>3, <1>4 DEF FormRow, Moved

LEMMA CountedFits ==
    ASSUME StockInv, NEW rows \in Seq(FormRow)
    PROVE  Counted(rows) \in Seq(FormRow) /\ \A k \in DOMAIN Counted(rows) : Moved(Counted(rows)[k])
<1>1. \A k \in DOMAIN rows : rows[k] \in FormRow
  BY ListPlaces
<1>2. Counted(rows) = [k \in DOMAIN rows |-> Received(rows[k])]
  BY DEF Counted
<1>3. Counted(rows) \in [DOMAIN rows -> FormRow] /\ \A k \in DOMAIN rows : Moved(Counted(rows)[k])
  BY <1>1, <1>2, ReceivedFits
<1>4. Counted(rows) \in Seq(FormRow) /\ DOMAIN Counted(rows) = DOMAIN rows
  BY <1>3, Mapped
<1>5. QED
  BY <1>3, <1>4

-----------------------------------------------------------------------------
(* What may be stored at first, and every step.                            *)

LEMMA StartsFit == StockInit => StockInv
<1> SUFFICES ASSUME StockInit PROVE StockInv
  OBVIOUS
<1>1. PICK start \in Starts :
          /\ lists = start.lists /\ orders = start.orders
          /\ jobs = start.jobs /\ invoices = start.invoices
          /\ names = start.names /\ titles = start.titles
          /\ outs = <<>> /\ ins = <<>>
          /\ nextId = start.nextId
  BY DEF StockInit
<1>2. TablesFit
  <2>1. \A table \in {DOMAIN lists, DOMAIN orders, DOMAIN jobs, DOMAIN invoices} : table \subseteq 1..(nextId - 1)
    BY <1>1, StartsAssumption
  <2>2. DOMAIN outs = {} /\ DOMAIN ins = {}
    BY <1>1
  <2>3. nextId \in Nat \ {Null}
    BY <1>1, StartsAssumption
  <2>4. QED
    BY <2>1, <2>2, <2>3 DEF TablesFit, HasIds
<1>3. NamesFit
  BY <1>1, StartsAssumption DEF NamesFit
<1>4. ListsFit
  <2> DEFINE Kept == [product : Products, title : Nat, design : Designs, name : Nat, boxes : Nat \ {0}]
  <2>1. \A i \in DOMAIN lists : lists[i] \in [of : Documents, rows : Seq(Kept) \ {<<>>}]
    BY <1>1, StartsAssumption DEF Documents
  <2>2. Kept \subseteq GoodsRow
    BY ProductsAreIds DEF GoodsRow
  <2> HIDE DEF Kept
  <2>3. Seq(Kept) \subseteq Seq(GoodsRow)
    BY <2>2
  <2>4. QED
    BY <2>1, <2>3 DEF ListsFit
<1>5. OrdersFit
  BY <1>1, StartsAssumption DEF OrdersFit
<1>6. JobsFit
  BY <1>1, StartsAssumption DEF JobsFit, JobLine
<1>7. InvoicesFit
  BY <1>1, StartsAssumption DEF InvoicesFit, InvoiceLine
<1>8. OutsFit /\ InsFit
  BY <1>1 DEF OutsFit, InsFit
<1>9. QED
  BY <1>2, <1>3, <1>4, <1>5, <1>6, <1>7, <1>8 DEF StockInv

LEMMA ListIsCreated ==
    ASSUME StockInv, NEW document \in Documents, NEW form \in Seq(FormRow),
           CreateList(document, form), UNCHANGED receiving
    PROVE  StockInv'
<1>1. PICK rows \in Posted(form) :
          lists' = [i \in DOMAIN lists \union {nextId} |->
                       IF i = nextId THEN [of |-> document, rows |-> rows] ELSE lists[i]]
  BY DEF CreateList
<1>2. UNCHANGED <<names, titles, orders, jobs, invoices, outs, ins>> /\ nextId' = nextId + 1
  BY DEF CreateList, receiving
<1>3. TablesFit'
  <2>1. DOMAIN lists' = DOMAIN lists \union {nextId}
    BY <1>1
  <2>2. QED
    BY <1>2, <2>1 DEF StockInv, TablesFit, HasIds, Null
<1>4. ListsFit'
  <2>1. Documents' = Documents
    BY <1>2 DEF Documents
  <2>2. rows \in Seq(GoodsRow) \ {<<>>}
    BY PostedFits
  <2>3. ASSUME NEW i \in DOMAIN lists' PROVE lists'[i] \in [of : Documents, rows : Seq(GoodsRow) \ {<<>>}]
    <3>1. CASE i = nextId
      BY <1>1, <2>2, <3>1
    <3>2. CASE i # nextId
      BY <1>1, <3>2 DEF StockInv, ListsFit
    <3>3. QED
      BY <3>1, <3>2
  <2>4. QED
    BY <2>1, <2>3 DEF ListsFit
<1>5. QED
  BY <1>2, <1>3, <1>4
  DEF StockInv, NamesFit, OrdersFit, JobsFit, InvoicesFit, OutsFit, InsFit, MakesSomething, JobQuantity

LEMMA ListIsKept ==
    ASSUME StockInv, NEW i \in DOMAIN lists, UpdateList(i) \/ DeleteList(i), UNCHANGED receiving
    PROVE  StockInv'
<1>1. UNCHANGED <<names, titles, orders, jobs, nextId, invoices, outs, ins>>
  BY DEF UpdateList, DeleteList, receiving
<1>2. DOMAIN lists' \subseteq DOMAIN lists
  BY DEF UpdateList, DeleteList, Without
<1>3. ASSUME NEW h \in DOMAIN lists' PROVE lists'[h] \in [of : Documents, rows : Seq(GoodsRow) \ {<<>>}]
  <2>1. lists[h] \in [of : Documents, rows : Seq(GoodsRow) \ {<<>>}]
    BY <1>2 DEF StockInv, ListsFit
  <2>2. CASE DeleteList(i)
    <3>1. lists'[h] = lists[h]
      BY <2>2 DEF DeleteList, Without
    <3>2. QED
      BY <2>1, <3>1
  <2>3. CASE UpdateList(i)
    <3>1. PICK sheet \in Sheets : lists' = [lists EXCEPT ![i].rows = Typed(sheet)]
      BY <2>3 DEF UpdateList
    <3>2. PICK rows \in Seq(GoodsRow) \ {<<>>} : rows = Typed(sheet)
      BY TypedFits
    <3>3. lists'[h] = IF h = i THEN [lists[h] EXCEPT !.rows = rows] ELSE lists[h]
      BY <1>2, <3>1, <3>2
    <3>4. QED
      BY <2>1, <3>3
  <2>4. QED
    BY <2>2, <2>3
<1>4. ListsFit'
  <2>1. Documents' = Documents
    BY <1>1 DEF Documents
  <2>2. QED
    BY <1>3, <2>1 DEF ListsFit
<1>5. TablesFit'
  BY <1>1, <1>2 DEF StockInv, TablesFit, HasIds
<1>6. QED
  BY <1>1, <1>4, <1>5
  DEF StockInv, NamesFit, OrdersFit, JobsFit, InvoicesFit, OutsFit, InsFit, MakesSomething, JobQuantity

LEMMA JobWorkIsSaved ==
    ASSUME StockInv, CreateJobWork \/ (\E j \in DOMAIN jobs : UpdateJobWork(j)), UNCHANGED receiving
    PROVE  StockInv'
<1> DEFINE Saved(card, j) ==
              /\ MakesSomething(JobLines(card))
              /\ \/ /\ j = nextId /\ nextId' = nextId + 1
                    /\ jobs' = [i \in DOMAIN jobs \union {nextId} |-> IF i = nextId THEN JobLines(card) ELSE jobs[i]]
                 \/ /\ j \in DOMAIN jobs /\ nextId' = nextId
                    /\ jobs' = [jobs EXCEPT ![j] = JobLines(card)]
<1>0. \E card \in Cards : \E j : Saved(card, j)
  BY DEF CreateJobWork, UpdateJobWork
<1>1. PICK card \in Cards : \E j : Saved(card, j)
  BY <1>0
<1>11. PICK j : Saved(card, j)
  BY <1>1
<1>2. UNCHANGED <<names, titles, lists, orders, invoices, outs, ins>>
  BY DEF CreateJobWork, UpdateJobWork, receiving
<1>3. PICK lines \in Seq(JobLine) : lines = JobLines(card)
  BY JobLinesFit
<1>4. /\ DOMAIN jobs' = DOMAIN jobs \union {j} /\ nextId' \in Nat \ {Null} /\ nextId <= nextId' /\ j \in 1..(nextId' - 1)
      /\ \A i \in DOMAIN jobs' : jobs'[i] = IF i = j THEN lines ELSE jobs[i]
  <2>1. nextId \in Nat \ {Null} /\ DOMAIN jobs \subseteq 1..(nextId - 1)
    BY DEF StockInv, TablesFit, HasIds
  <2>2. CASE /\ j = nextId /\ nextId' = nextId + 1
             /\ jobs' = [i \in DOMAIN jobs \union {nextId} |-> IF i = nextId THEN JobLines(card) ELSE jobs[i]]
    <3>1. nextId' \in Nat \ {Null} /\ nextId <= nextId' /\ j \in 1..(nextId' - 1)
      BY <2>1, <2>2 DEF Null
    <3>2. QED
      BY <1>3, <2>2, <3>1
  <2>3. CASE /\ j \in DOMAIN jobs /\ nextId' = nextId
             /\ jobs' = [jobs EXCEPT ![j] = JobLines(card)]
    <3>1. nextId' \in Nat \ {Null} /\ nextId <= nextId' /\ j \in 1..(nextId' - 1)
      BY <2>1, <2>3
    <3>2. DOMAIN jobs' = DOMAIN jobs \union {j} /\ \A i \in DOMAIN jobs' : jobs'[i] = IF i = j THEN lines ELSE jobs[i]
      BY <1>3, <2>3
    <3>3. QED
      BY <3>1, <3>2
  <2>4. QED
    BY <1>11, <2>2, <2>3
<1>5. JobsFit'
  <2>1. ASSUME NEW i \in DOMAIN jobs' PROVE jobs'[i] \in Seq(JobLine) /\ MakesSomething(jobs'[i])
    BY <1>11, <1>3, <1>4 DEF StockInv, JobsFit
  <2>2. QED
    BY <2>1 DEF JobsFit, MakesSomething, JobQuantity
<1>6. TablesFit'
  <2>1. nextId \in Nat /\ nextId' \in Nat \ {Null} /\ nextId <= nextId'
    BY <1>4 DEF StockInv, TablesFit
  <2>2. \A m, n \in Nat : m <= n => 1..(m - 1) \subseteq 1..(n - 1)
    OBVIOUS
  <2>3. PICK old, new : old = 1..(nextId - 1) /\ new = 1..(nextId' - 1)
    OBVIOUS
  <2>4. \A T \in {DOMAIN lists, DOMAIN orders, DOMAIN jobs, DOMAIN invoices, DOMAIN outs, DOMAIN ins} : T \subseteq old
    BY <2>3 DEF StockInv, TablesFit, HasIds
  <2>5. old \subseteq new
    BY <2>1, <2>2, <2>3
  <2>6. \A T \in {DOMAIN lists, DOMAIN orders, DOMAIN jobs', DOMAIN invoices, DOMAIN outs, DOMAIN ins} : T \subseteq new
    BY <1>4, <2>3, <2>4, <2>5
  <2>7. QED
    BY <1>2, <2>1, <2>3, <2>6 DEF TablesFit, HasIds
<1>7. ListsFit'
  <2>1. Documents \subseteq Documents'
    BY <1>2, <1>4 DEF Documents
  <2>2. ASSUME NEW i \in DOMAIN lists PROVE lists[i] \in [of : Documents', rows : Seq(GoodsRow) \ {<<>>}]
    <3>1. lists[i] \in [of : Documents, rows : Seq(GoodsRow) \ {<<>>}]
      BY DEF StockInv, ListsFit
    <3>2. QED
      BY <2>1, <3>1
  <2>3. QED
    BY <1>2, <2>2 DEF ListsFit
<1>8. InvoicesFit'
  <2>1. ASSUME NEW v \in DOMAIN invoices
        PROVE  invoices[v] \in [order : DOMAIN orders \union {Null}, jobs : Seq(DOMAIN jobs'), lines : Seq(InvoiceLine)]
    <3>1. invoices[v] \in [order : DOMAIN orders \union {Null}, jobs : Seq(DOMAIN jobs), lines : Seq(InvoiceLine)]
      BY DEF StockInv, InvoicesFit
    <3>2. Seq(DOMAIN jobs) \subseteq Seq(DOMAIN jobs')
      <4>1. DOMAIN jobs \subseteq DOMAIN jobs'
        BY <1>4
      <4> HIDE <1>11
      <4>2. QED
        BY <4>1
    <3>3. QED
      BY <3>1, <3>2
  <2>2. QED
    BY <1>2, <2>1 DEF InvoicesFit
<1>9. QED
  BY <1>2, <1>5, <1>6, <1>7, <1>8 DEF StockInv, NamesFit, OrdersFit, OutsFit, InsFit

LEMMA DesignIsRenamed ==
    ASSUME StockInv, NEW d \in CatalogDesigns, NEW n \in Spellings, Rename(d, n), UNCHANGED receiving
    PROVE  StockInv'
<1>1. /\ names' = [names EXCEPT ![d] = n] /\ titles' = titles
      /\ UNCHANGED <<lists, orders, jobs, nextId, invoices, outs, ins>>
  BY DEF Rename, receiving
<1>2. NamesFit'
  BY <1>1 DEF StockInv, NamesFit
<1>3. TablesFit' /\ OrdersFit' /\ OutsFit' /\ InsFit' /\ InvoicesFit'
  BY <1>1 DEF StockInv, TablesFit, HasIds, OrdersFit, OutsFit, InsFit, InvoicesFit
<1>4. ListsFit'
  BY <1>1 DEF StockInv, ListsFit, Documents
<1>5. JobsFit'
  BY <1>1 DEF StockInv, JobsFit, MakesSomething, JobQuantity
<1>6. QED
  BY <1>2, <1>3, <1>4, <1>5 DEF StockInv

LEMMA ProductIsRenamed ==
    ASSUME StockInv, NEW p \in Products, NEW n \in Titles, RenameProduct(p, n), UNCHANGED receiving
    PROVE  StockInv'
<1>1. /\ titles' = [titles EXCEPT ![p] = n] /\ names' = names
      /\ UNCHANGED <<lists, orders, jobs, nextId, invoices, outs, ins>>
  BY DEF RenameProduct, receiving
<1>2. NamesFit'
  BY <1>1 DEF StockInv, NamesFit
<1>3. TablesFit' /\ OrdersFit' /\ OutsFit' /\ InsFit' /\ InvoicesFit'
  BY <1>1 DEF StockInv, TablesFit, HasIds, OrdersFit, OutsFit, InsFit, InvoicesFit
<1>4. ListsFit'
  BY <1>1 DEF StockInv, ListsFit, Documents
<1>5. JobsFit'
  BY <1>1 DEF StockInv, JobsFit, MakesSomething, JobQuantity
<1>6. QED
  BY <1>2, <1>3, <1>4, <1>5 DEF StockInv

LEMMA JobOutIsSaved ==
    ASSUME StockInv, NEW v \in DOMAIN invoices,
           CreateJobOut(v) \/ \E x \in DOMAIN outs : UpdateJobOut(x, v)
    PROVE  StockInv'
<1>1. UNCHANGED <<names, titles, lists, orders, jobs, invoices, ins>>
  BY DEF CreateJobOut, UpdateJobOut
<1>2. PICK ids : ids = DOMAIN outs'
  OBVIOUS
<1>3. /\ DOMAIN outs \subseteq ids /\ \A x \in ids : outs'[x] \in DOMAIN invoices
      /\ (nextId' = nextId + 1 /\ ids = DOMAIN outs \union {nextId}) \/ (nextId' = nextId /\ ids = DOMAIN outs)
  <2>1. \A x \in DOMAIN outs : outs[x] \in DOMAIN invoices
    BY DEF StockInv, OutsFit
  <2>2. CASE CreateJobOut(v)
    BY <1>2, <2>1, <2>2 DEF CreateJobOut
  <2>3. CASE \E x \in DOMAIN outs : UpdateJobOut(x, v)
    BY <1>2, <2>1, <2>3 DEF UpdateJobOut
  <2>4. QED
    BY <2>2, <2>3
<1>4. TablesFit'
  BY <1>1, <1>2, <1>3 DEF StockInv, TablesFit, HasIds, Null
<1>5. OutsFit'
  BY <1>1, <1>2, <1>3 DEF OutsFit
<1>6. InsFit'
  <2>1. ASSUME NEW i \in DOMAIN ins
        PROVE  /\ ins[i] \in [out : DOMAIN outs', rows : Seq(FormRow)]
               /\ \A k \in DOMAIN ins[i].rows : Moved(ins[i].rows[k])
    <3>1. /\ ins[i] \in [out : DOMAIN outs, rows : Seq(FormRow)]
          /\ \A k \in DOMAIN ins[i].rows : Moved(ins[i].rows[k])
      BY DEF StockInv, InsFit
    <3>2. DOMAIN outs \subseteq DOMAIN outs'
      BY <1>2, <1>3
    <3>3. QED
      BY <3>1, <3>2
  <2>2. QED
    BY <1>1, <2>1 DEF InsFit, Moved
<1>7. ListsFit' /\ InvoicesFit'
  BY <1>1 DEF StockInv, ListsFit, Documents, InvoicesFit
<1>8. NamesFit' /\ OrdersFit' /\ JobsFit'
  BY <1>1 DEF StockInv, NamesFit, OrdersFit, JobsFit, MakesSomething, JobQuantity
<1>9. QED
  BY <1>4, <1>5, <1>6, <1>7, <1>8 DEF StockInv

LEMMA JobInIsSaved ==
    ASSUME StockInv,
           \/ \E x \in DOMAIN outs : CreateJobIn(x)
           \/ \E i \in DOMAIN ins : UpdateJobIn(i) \/ DeleteJobIn(i)
    PROVE  StockInv'
<1> DEFINE Fit(r) == r \in [out : DOMAIN outs, rows : Seq(FormRow)] /\ \A k \in DOMAIN r.rows : Moved(r.rows[k])
<1>1. UNCHANGED <<names, titles, lists, orders, jobs, invoices, outs>>
  BY DEF CreateJobIn, UpdateJobIn, DeleteJobIn
<1>2. \A i \in DOMAIN ins : Fit(ins[i])
  BY DEF StockInv, InsFit
<1>3. ASSUME NEW x \in DOMAIN outs, NEW rows \in Seq(FormRow) PROVE Fit([out |-> x, rows |-> Counted(rows)])
  <2>1. PICK counted : counted = Counted(rows)
    OBVIOUS
  <2>2. counted \in Seq(FormRow) /\ \A k \in DOMAIN counted : Moved(counted[k])
    BY <2>1, CountedFits
  <2>3. QED
    BY <2>1, <2>2
<1>4. \A sheet \in Sheets : Typed(sheet) \in Seq(FormRow)
  BY TypedFits, GoodsAreRows
<1>5. PICK ids : ids = DOMAIN ins'
  OBVIOUS
<1>6. /\ \A i \in ids : Fit(ins'[i])
      /\ (nextId' = nextId + 1 /\ ids = DOMAIN ins \union {nextId}) \/ (nextId' = nextId /\ ids \subseteq DOMAIN ins)
  <2>1. ASSUME NEW x \in DOMAIN outs, CreateJobIn(x)
        PROVE  /\ nextId' = nextId + 1 /\ ids = DOMAIN ins \union {nextId}
               /\ \A i \in ids : Fit(ins'[i])
    <3>1. PICK rows \in ({JobInForm(x)} \union {Typed(s) : s \in Sheets}) \ {<<>>} :
              ins' = [i \in DOMAIN ins \union {nextId} |->
                         IF i = nextId THEN [out |-> x, rows |-> Counted(rows)] ELSE ins[i]]
      BY <2>1 DEF CreateJobIn
    <3>2. rows \in Seq(FormRow)
      <4>1. JobInForm(x) \in Seq(FormRow)
        BY JobInFormFits
      <4>2. QED
        BY <1>4, <4>1
    <3>3. PICK r : r = [out |-> x, rows |-> Counted(rows)]
      OBVIOUS
    <3>4. Fit(r)
      BY <1>3, <3>2, <3>3
    <3>5. ids = DOMAIN ins \union {nextId} /\ \A i \in ids : ins'[i] = IF i = nextId THEN r ELSE ins[i]
      BY <1>5, <3>1, <3>3
    <3> HIDE DEF Fit
    <3>6. \A i \in ids : Fit(ins'[i])
      BY <1>2, <3>4, <3>5
    <3>7. QED
      BY <2>1, <3>5, <3>6 DEF CreateJobIn
  <2>2. ASSUME NEW j \in DOMAIN ins, UpdateJobIn(j)
        PROVE  /\ nextId' = nextId /\ ids \subseteq DOMAIN ins
               /\ \A i \in ids : Fit(ins'[i])
    <3>1. PICK sheet \in Sheets : ins' = [ins EXCEPT ![j].rows = Counted(Typed(sheet))]
      BY <2>2 DEF UpdateJobIn
    <3>2. PICK rows \in Seq(FormRow) : rows = Typed(sheet)
      BY <1>4
    <3>3. ins[j].out \in DOMAIN outs /\ ins[j] = [out |-> ins[j].out, rows |-> ins[j].rows]
      <4>1. ins[j] \in [out : DOMAIN outs, rows : Seq(FormRow)]
        BY <1>2
      <4>2. QED
        BY <4>1
    <3>4. PICK r : r = [out |-> ins[j].out, rows |-> Counted(rows)]
      OBVIOUS
    <3>5. Fit(r)
      BY <1>3, <3>3, <3>4
    <3>6. ids = DOMAIN ins /\ \A i \in ids : ins'[i] = IF i = j THEN r ELSE ins[i]
      <4>1. [ins[j] EXCEPT !.rows = Counted(rows)] = r
        BY <3>3, <3>4
      <4>2. QED
        BY <1>5, <3>1, <3>2, <4>1
    <3> HIDE DEF Fit
    <3>7. \A i \in ids : Fit(ins'[i])
      BY <1>2, <3>5, <3>6
    <3>8. QED
      BY <2>2, <3>6, <3>7 DEF UpdateJobIn
  <2>3. ASSUME NEW j \in DOMAIN ins, DeleteJobIn(j)
        PROVE  /\ nextId' = nextId /\ ids \subseteq DOMAIN ins
               /\ \A i \in ids : Fit(ins'[i])
    <3>1. nextId' = nextId /\ ids \subseteq DOMAIN ins /\ \A i \in ids : ins'[i] = ins[i]
      BY <1>5, <2>3 DEF DeleteJobIn, Without
    <3> HIDE DEF Fit
    <3>2. QED
      BY <1>2, <3>1
  <2> HIDE DEF Fit
  <2>4. QED
    BY <2>1, <2>2, <2>3
<1>7. TablesFit'
  BY <1>1, <1>5, <1>6 DEF StockInv, TablesFit, HasIds, Null
<1>8. InsFit'
  BY <1>1, <1>5, <1>6 DEF InsFit, Moved
<1>9. ListsFit' /\ InvoicesFit' /\ OutsFit'
  BY <1>1 DEF StockInv, ListsFit, Documents, InvoicesFit, OutsFit
<1>10. NamesFit' /\ OrdersFit' /\ JobsFit'
  BY <1>1 DEF StockInv, NamesFit, OrdersFit, JobsFit, MakesSomething, JobQuantity
<1>11. QED
  BY <1>7, <1>8, <1>9, <1>10 DEF StockInv

\* What is left of the job outs and the job ins when some job outs are gone.
LEMMA ReturnsGo ==
    ASSUME StockInv, NEW xs, outs' = Without(outs, xs), ins' = Without(ins, Returns(xs))
    PROVE  /\ DOMAIN outs' = DOMAIN outs \ xs /\ \A x \in DOMAIN outs' : outs'[x] = outs[x]
           /\ DOMAIN ins' \subseteq DOMAIN ins /\ InsFit'
<1>1. DOMAIN outs' = DOMAIN outs \ xs /\ \A x \in DOMAIN outs' : outs'[x] = outs[x]
  BY DEF Without
<1>2. /\ DOMAIN ins' = DOMAIN ins \ Returns(xs)
      /\ \A i \in DOMAIN ins' : ins'[i] = ins[i]
  BY DEF Without
<1>3. ASSUME NEW i \in DOMAIN ins'
      PROVE  /\ ins'[i] \in [out : DOMAIN outs', rows : Seq(FormRow)]
             /\ \A k \in DOMAIN ins'[i].rows : Moved(ins'[i].rows[k])
  <2>1. /\ ins[i] \in [out : DOMAIN outs, rows : Seq(FormRow)]
        /\ \A k \in DOMAIN ins[i].rows : Moved(ins[i].rows[k])
    BY <1>2 DEF StockInv, InsFit
  <2>2. ins[i].out \notin xs
    BY <1>2 DEF Returns
  <2>3. ins[i] \in [out : DOMAIN outs', rows : Seq(FormRow)]
    BY <1>1, <2>1, <2>2
  <2>4. QED
    BY <1>2, <2>1, <2>3
<1>4. InsFit'
  BY <1>3 DEF InsFit, Moved
<1>5. QED
  BY <1>1, <1>2, <1>4

LEMMA JobOutIsDeleted ==
    ASSUME StockInv, NEW x \in DOMAIN outs, DeleteJobOut(x)
    PROVE  StockInv'
<1>1. UNCHANGED <<names, titles, lists, orders, jobs, nextId, invoices>>
  BY DEF DeleteJobOut
<1>2. /\ DOMAIN outs' = DOMAIN outs \ {x} /\ \A y \in DOMAIN outs' : outs'[y] = outs[y]
      /\ DOMAIN ins' \subseteq DOMAIN ins /\ InsFit'
  BY ReturnsGo DEF DeleteJobOut
<1>3. TablesFit'
  BY <1>1, <1>2 DEF StockInv, TablesFit, HasIds
<1>4. OutsFit'
  BY <1>1, <1>2 DEF StockInv, OutsFit
<1>5. ListsFit' /\ InvoicesFit'
  BY <1>1 DEF StockInv, ListsFit, Documents, InvoicesFit
<1>6. NamesFit' /\ OrdersFit' /\ JobsFit'
  BY <1>1 DEF StockInv, NamesFit, OrdersFit, JobsFit, MakesSomething, JobQuantity
<1>7. QED
  BY <1>2, <1>3, <1>4, <1>5, <1>6 DEF StockInv

\* What is left when invoices are gone, and lists of something else with them.
LEMMA CascadeFits ==
    ASSUME StockInv, NEW vs, NEW ls, DeleteWith(vs, ls), DOMAIN invoices' = DOMAIN invoices \ vs
    PROVE  /\ DOMAIN lists' = DOMAIN lists \ (ListsOf("invoice", vs) \union ls)
           /\ \A i \in DOMAIN lists' : lists'[i] = lists[i] /\ i \in DOMAIN lists /\ lists[i].of \notin {"invoice"} \X vs
           /\ DOMAIN outs' \subseteq DOMAIN outs /\ DOMAIN ins' \subseteq DOMAIN ins
           /\ OutsFit' /\ InsFit'
<1>1. /\ DOMAIN lists' = DOMAIN lists \ (ListsOf("invoice", vs) \union ls)
      /\ \A i \in DOMAIN lists' : lists'[i] = lists[i]
  BY DEF DeleteWith, Without
<1>2. ASSUME NEW i \in DOMAIN lists' PROVE i \in DOMAIN lists /\ lists[i].of \notin {"invoice"} \X vs
  <2>1. i \in DOMAIN lists /\ i \notin ListsOf("invoice", vs)
    BY <1>1
  <2>2. \A id \in vs : lists[i].of # <<"invoice", id>>
    BY <2>1 DEF ListsOf
  <2>3. QED
    BY <2>1, <2>2
<1>3. /\ DOMAIN outs' = DOMAIN outs \ Challans(vs) /\ \A x \in DOMAIN outs' : outs'[x] = outs[x]
      /\ DOMAIN ins' \subseteq DOMAIN ins /\ InsFit'
  <2>1. PICK xs : xs = Challans(vs)
    OBVIOUS
  <2>2. outs' = Without(outs, xs) /\ ins' = Without(ins, Returns(xs))
    BY <2>1 DEF DeleteWith
  <2>3. QED
    BY <2>1, <2>2, ReturnsGo
<1>4. OutsFit'
  <2>1. ASSUME NEW x \in DOMAIN outs' PROVE outs'[x] \in DOMAIN invoices'
    <3>1. x \in DOMAIN outs /\ outs'[x] = outs[x] /\ outs[x] \notin vs
      BY <1>3 DEF Challans
    <3>2. outs[x] \in DOMAIN invoices
      BY <3>1 DEF StockInv, OutsFit
    <3>3. QED
      BY <3>1, <3>2
  <2>2. QED
    BY <2>1 DEF OutsFit
<1>5. QED
  BY <1>1, <1>2, <1>3, <1>4

LEMMA InvoiceIsDeleted ==
    ASSUME StockInv, NEW v \in DOMAIN invoices, DeleteInvoice(v)
    PROVE  StockInv'
<1>1. /\ UNCHANGED <<names, titles, orders, jobs, nextId>> /\ DeleteWith({v}, {})
      /\ DOMAIN invoices' = DOMAIN invoices \ {v} /\ \A w \in DOMAIN invoices' : invoices'[w] = invoices[w]
  BY DEF DeleteInvoice, Without
<1>2. /\ \A i \in DOMAIN lists' : lists'[i] = lists[i] /\ i \in DOMAIN lists /\ lists[i].of \notin {"invoice"} \X {v}
      /\ DOMAIN outs' \subseteq DOMAIN outs /\ DOMAIN ins' \subseteq DOMAIN ins
      /\ OutsFit' /\ InsFit'
  BY <1>1, CascadeFits
<1>3. TablesFit'
  <2>1. DOMAIN lists' \subseteq DOMAIN lists /\ DOMAIN invoices' \subseteq DOMAIN invoices
    BY <1>1, <1>2
  <2>2. QED
    BY <1>1, <1>2, <2>1 DEF StockInv, TablesFit, HasIds
<1>4. ListsFit'
  <2>1. Documents \ ({"invoice"} \X {v}) \subseteq Documents'
    BY <1>1 DEF Documents
  <2>2. ASSUME NEW i \in DOMAIN lists' PROVE lists'[i] \in [of : Documents', rows : Seq(GoodsRow) \ {<<>>}]
    <3>1. lists[i] \in [of : Documents, rows : Seq(GoodsRow) \ {<<>>}]
      BY <1>2 DEF StockInv, ListsFit
    <3>2. lists[i].of \in Documents'
      BY <1>2, <2>1, <3>1
    <3>3. QED
      BY <1>2, <3>1, <3>2
  <2>3. QED
    BY <2>2 DEF ListsFit
<1>5. InvoicesFit'
  BY <1>1 DEF StockInv, InvoicesFit
<1>6. NamesFit' /\ OrdersFit' /\ JobsFit'
  BY <1>1 DEF StockInv, NamesFit, OrdersFit, JobsFit, MakesSomething, JobQuantity
<1>7. QED
  BY <1>2, <1>3, <1>4, <1>5, <1>6 DEF StockInv

LEMMA OrderIsDeleted ==
    ASSUME StockInv, NEW o \in DOMAIN orders, DeleteOrder(o)
    PROVE  StockInv'
<1>1. PICK raised : raised = {v \in DOMAIN invoices : invoices[v].order = o}
  OBVIOUS
<1>2. /\ UNCHANGED <<names, titles, jobs, nextId>> /\ DeleteWith(raised, ListsOf("order", {o}))
      /\ DOMAIN orders' = DOMAIN orders \ {o} /\ \A p \in DOMAIN orders' : orders'[p] = orders[p]
      /\ DOMAIN invoices' = DOMAIN invoices \ raised /\ \A w \in DOMAIN invoices' : invoices'[w] = invoices[w]
  BY <1>1 DEF DeleteOrder, Without
<1>3. /\ DOMAIN lists' = DOMAIN lists \ (ListsOf("invoice", raised) \union ListsOf("order", {o}))
      /\ \A i \in DOMAIN lists' : lists'[i] = lists[i] /\ i \in DOMAIN lists /\ lists[i].of \notin {"invoice"} \X raised
      /\ DOMAIN outs' \subseteq DOMAIN outs /\ DOMAIN ins' \subseteq DOMAIN ins
      /\ OutsFit' /\ InsFit'
  BY <1>2, CascadeFits
<1>4. TablesFit'
  <2>1. DOMAIN lists' \subseteq DOMAIN lists /\ DOMAIN invoices' \subseteq DOMAIN invoices
        /\ DOMAIN orders' \subseteq DOMAIN orders
    BY <1>2, <1>3
  <2>2. QED
    BY <1>2, <1>3, <2>1 DEF StockInv, TablesFit, HasIds
<1>5. ListsFit'
  <2>1. Documents \ (({"invoice"} \X raised) \union ({"order"} \X {o})) \subseteq Documents'
    BY <1>2 DEF Documents
  <2>2. ASSUME NEW i \in DOMAIN lists' PROVE lists'[i] \in [of : Documents', rows : Seq(GoodsRow) \ {<<>>}]
    <3>1. lists[i] \in [of : Documents, rows : Seq(GoodsRow) \ {<<>>}]
      BY <1>3 DEF StockInv, ListsFit
    <3>2. i \in DOMAIN lists /\ i \notin ListsOf("order", {o})
      BY <1>3
    <3>3. lists[i].of \notin {"order"} \X {o}
      BY <3>2 DEF ListsOf
    <3>4. lists[i].of \in Documents'
      BY <1>3, <2>1, <3>1, <3>3
    <3>5. QED
      BY <1>3, <3>1, <3>4
  <2>3. QED
    BY <2>2 DEF ListsFit
<1>6. InvoicesFit'
  <2>1. ASSUME NEW v \in DOMAIN invoices'
        PROVE  invoices'[v] \in [order : DOMAIN orders' \union {Null}, jobs : Seq(DOMAIN jobs), lines : Seq(InvoiceLine)]
    <3>1. v \in DOMAIN invoices /\ invoices[v].order # o /\ invoices'[v] = invoices[v]
      BY <1>1, <1>2
    <3>2. invoices[v] \in [order : DOMAIN orders \union {Null}, jobs : Seq(DOMAIN jobs), lines : Seq(InvoiceLine)]
      BY <3>1 DEF StockInv, InvoicesFit
    <3>3. QED
      BY <1>2, <3>1, <3>2
  <2>2. QED
    BY <1>2, <2>1 DEF InvoicesFit
<1>7. OrdersFit'
  BY <1>2 DEF StockInv, OrdersFit
<1>8. NamesFit' /\ JobsFit'
  BY <1>2 DEF StockInv, NamesFit, JobsFit, MakesSomething, JobQuantity
<1>9. QED
  BY <1>3, <1>4, <1>5, <1>6, <1>7, <1>8 DEF StockInv

LEMMA JobWorkIsDeleted ==
    ASSUME StockInv, NEW j \in DOMAIN jobs, DeleteJobWork(j)
    PROVE  StockInv'
<1> DEFINE freed(line) == IF line.job = j THEN [line EXCEPT !.job = Null] ELSE line
           unlinked(v) ==
              [invoices[v] EXCEPT !.jobs = At(@, {k \in DOMAIN @ : @[k] # j}),
                                  !.lines = [k \in DOMAIN @ |-> freed(@[k])]]
<1>1. PICK raised : raised = {v \in DOMAIN invoices : invoices[v].jobs # <<>> /\ Head(invoices[v].jobs) = j}
  OBVIOUS
<1>2. /\ UNCHANGED <<names, titles, orders, nextId>> /\ DeleteWith(raised, ListsOf("jobwork", {j}))
      /\ DOMAIN jobs' = DOMAIN jobs \ {j} /\ \A p \in DOMAIN jobs' : jobs'[p] = jobs[p]
      /\ invoices' = [v \in DOMAIN invoices \ raised |-> unlinked(v)]
  BY <1>1 DEF DeleteJobWork, Without
<1>3. DOMAIN invoices' = DOMAIN invoices \ raised /\ \A v \in DOMAIN invoices' : invoices'[v] = unlinked(v)
  <2> HIDE DEF unlinked
  <2>1. QED
    BY <1>2
<1>4. /\ DOMAIN lists' = DOMAIN lists \ (ListsOf("invoice", raised) \union ListsOf("jobwork", {j}))
      /\ \A i \in DOMAIN lists' : lists'[i] = lists[i] /\ i \in DOMAIN lists /\ lists[i].of \notin {"invoice"} \X raised
      /\ DOMAIN outs' \subseteq DOMAIN outs /\ DOMAIN ins' \subseteq DOMAIN ins
      /\ OutsFit' /\ InsFit'
  BY <1>2, <1>3, CascadeFits
<1>5. TablesFit'
  <2>1. DOMAIN lists' \subseteq DOMAIN lists /\ DOMAIN invoices' \subseteq DOMAIN invoices
        /\ DOMAIN jobs' \subseteq DOMAIN jobs
    BY <1>2, <1>3, <1>4
  <2>2. UNCHANGED <<orders, nextId>>
    BY <1>2
  <2>3. QED
    BY <1>4, <2>1, <2>2 DEF StockInv, TablesFit, HasIds
<1>6. ListsFit'
  <2>1. Documents \ (({"invoice"} \X raised) \union ({"jobwork"} \X {j})) \subseteq Documents'
    <3>1. UNCHANGED orders /\ DOMAIN jobs' = DOMAIN jobs \ {j}
      BY <1>2
    <3>2. QED
      BY <1>3, <3>1 DEF Documents
  <2>2. ASSUME NEW i \in DOMAIN lists' PROVE lists'[i] \in [of : Documents', rows : Seq(GoodsRow) \ {<<>>}]
    <3>1. lists[i] \in [of : Documents, rows : Seq(GoodsRow) \ {<<>>}]
      BY <1>4 DEF StockInv, ListsFit
    <3>2. i \in DOMAIN lists /\ i \notin ListsOf("jobwork", {j})
      BY <1>4
    <3>3. lists[i].of \notin {"jobwork"} \X {j}
      BY <3>2 DEF ListsOf
    <3>4. lists[i].of \in Documents'
      BY <1>4, <2>1, <3>1, <3>3
    <3>5. QED
      BY <1>4, <3>1, <3>4
  <2>3. QED
    BY <2>2 DEF ListsFit
<1>7. InvoicesFit'
  <2>1. ASSUME NEW v \in DOMAIN invoices
        PROVE  unlinked(v) \in [order : DOMAIN orders \union {Null}, jobs : Seq(DOMAIN jobs'), lines : Seq(InvoiceLine)]
    <3>1. invoices[v] \in [order : DOMAIN orders \union {Null}, jobs : Seq(DOMAIN jobs), lines : Seq(InvoiceLine)]
      BY DEF StockInv, InvoicesFit
    <3>2. PICK works \in Seq(DOMAIN jobs), lines \in Seq(InvoiceLine) :
              works = invoices[v].jobs /\ lines = invoices[v].lines
      BY <3>1
    <3>3. PICK places \in SUBSET DOMAIN works : places = {k \in DOMAIN works : works[k] # j}
      OBVIOUS
    <3>4. At(works, places) \in Seq(DOMAIN jobs')
      <4>1. PICK h \in Bijection(1..Cardinality(places), places) :
                \A i \in 1..Cardinality(places) : At(works, places)[i] = works[h[i]]
        BY AtPlaces
      <4>2. At(works, places) \in Seq(DOMAIN jobs) /\ DOMAIN At(works, places) = 1..Cardinality(places)
        BY AtPlaces
      <4>3. PICK kept : kept = At(works, places)
        OBVIOUS
      <4>4. ASSUME NEW i \in DOMAIN kept PROVE kept[i] \in DOMAIN jobs'
        <5>1. h[i] \in places /\ kept[i] = works[h[i]] /\ kept[i] \in DOMAIN jobs
          BY <4>1, <4>2, <4>3, <4>4, ListPlaces DEF Bijection, Injection
        <5>2. kept[i] # j
          BY <3>3, <5>1
        <5>3. QED
          BY <1>2, <5>1, <5>2
      <4>5. kept \in Seq(DOMAIN jobs)
        BY <4>2, <4>3
      <4>6. DOMAIN kept = 1..Len(kept) /\ Len(kept) \in Nat /\ kept = [k \in DOMAIN kept |-> kept[k]]
        BY <4>5
      <4>7. kept \in Seq(DOMAIN jobs')
        BY ONLY <4>4, <4>6
      <4>8. QED
        BY <4>3, <4>7
    <3>5. ASSUME NEW line \in InvoiceLine PROVE freed(line) \in InvoiceLine
      BY NullIsDesign DEF InvoiceLine
    <3> DEFINE left == [k \in DOMAIN lines |-> freed(lines[k])]
    <3>6. left \in Seq(InvoiceLine)
      <4>1. \A k \in DOMAIN lines : lines[k] \in InvoiceLine
        BY ListPlaces
      <4> HIDE DEF freed
      <4>2. left \in [DOMAIN lines -> InvoiceLine]
        BY <3>5, <4>1
      <4> HIDE DEF left
      <4>3. QED
        BY <4>2, Mapped
    <3>7. unlinked(v) = [invoices[v] EXCEPT !.jobs = At(works, places), !.lines = left]
      BY <3>2, <3>3
    <3> HIDE DEF unlinked, left
    <3>8. QED
      BY <3>1, <3>4, <3>6, <3>7
  <2> HIDE DEF unlinked
  <2>2. QED
    BY <1>2, <1>3, <2>1 DEF InvoicesFit
<1>8. JobsFit'
  <2>1. \A i \in DOMAIN jobs' : i \in DOMAIN jobs /\ jobs'[i] = jobs[i]
    BY <1>2
  <2>2. \A i \in DOMAIN jobs : jobs[i] \in Seq(JobLine) /\ MakesSomething(jobs[i])
    BY DEF StockInv, JobsFit
  <2>3. \A i \in DOMAIN jobs' : jobs'[i] \in Seq(JobLine) /\ MakesSomething(jobs'[i])
    BY <2>1, <2>2
  <2>4. QED
    BY <2>3 DEF JobsFit, MakesSomething, JobQuantity
<1>9. NamesFit' /\ OrdersFit'
  <2>1. UNCHANGED <<names, titles, orders>>
    BY <1>2
  <2>2. QED
    BY <2>1 DEF StockInv, NamesFit, OrdersFit
<1>10. QED
  BY <1>4, <1>5, <1>6, <1>7, <1>8, <1>9 DEF StockInv

LEMMA StocksStayFit == StockInv /\ [StockNext]_stockVars => StockInv'
<1> SUFFICES ASSUME StockInv, [StockNext]_stockVars PROVE StockInv'
  OBVIOUS
<1>1. CASE UNCHANGED stockVars
  BY <1>1 DEF stockVars, placing, receiving, StockInv, TablesFit, HasIds, NamesFit, ListsFit, Documents, OrdersFit,
         JobsFit, MakesSomething, JobQuantity, InvoicesFit, OutsFit, InsFit, Moved
<1>2. CASE Pack /\ UNCHANGED receiving
  <2>1. /\ {Quotation, Proforma} \subseteq Documents /\ \A o \in DOMAIN orders : <<"order", o>> \in Documents
        /\ \A j \in DOMAIN jobs : <<"jobwork", j>> \in Documents
        /\ \A v \in DOMAIN invoices : <<"invoice", v>> \in Documents
    BY DEF Documents
  <2>2. CASE CreateList(Quotation, QuotationForm)
    BY <1>2, <2>1, <2>2, ListIsCreated, ProformaFormsFit
  <2>3. CASE CreateList(Proforma, ProformaForm)
    BY <1>2, <2>1, <2>3, ListIsCreated, ProformaFormsFit
  <2>4. CASE \E o \in DOMAIN orders : CreateList(<<"order", o>>, OrderForm(o))
    BY <1>2, <2>1, <2>4, ListIsCreated, OrderFormFits
  <2>5. CASE \E j \in DOMAIN jobs : CreateList(<<"jobwork", j>>, JobForm(j))
    BY <1>2, <2>1, <2>5, ListIsCreated, JobFormFits
  <2>6. CASE \E v \in DOMAIN invoices : CreateList(<<"invoice", v>>, InvoiceForm(v))
    BY <1>2, <2>1, <2>6, ListIsCreated, InvoiceFormFits
  <2>7. CASE \E i \in DOMAIN lists : UpdateList(i) \/ DeleteList(i)
    BY <1>2, <2>7, ListIsKept
  <2>8. CASE CreateJobWork \/ \E j \in DOMAIN jobs : UpdateJobWork(j)
    BY <1>2, <2>8, JobWorkIsSaved
  <2>9. CASE \E d \in CatalogDesigns, n \in Spellings : Rename(d, n)
    BY <1>2, <2>9, DesignIsRenamed
  <2>10. CASE \E p \in Products, n \in Titles : RenameProduct(p, n)
    BY <1>2, <2>10, ProductIsRenamed
  <2>11. QED
    BY <1>2, <2>2, <2>3, <2>4, <2>5, <2>6, <2>7, <2>8, <2>9, <2>10 DEF Pack
<1>3. CASE Move
  BY <1>3, JobOutIsSaved, InvoiceIsDeleted, JobInIsSaved, JobOutIsDeleted, OrderIsDeleted, JobWorkIsDeleted DEF Move
<1>4. QED
  BY <1>1, <1>2, <1>3 DEF StockNext

LEMMA StockInvHolds == StockSpec => []StockInv
BY StartsFit, StocksStayFit, PTL DEF StockSpec

-----------------------------------------------------------------------------
(* The stock of a design is what the invoices are worth.                   *)

\* A list that is of an invoice names one that is there.
LEMMA InvoiceNamed ==
    ASSUME StockInv, NEW i \in DOMAIN lists
    PROVE  /\ lists[i].of[1] = "invoice" =>
                 lists[i].of[2] \in DOMAIN invoices /\ lists[i].of = <<"invoice", lists[i].of[2]>>
           /\ \A v : lists[i].of = <<"invoice", v>> => lists[i].of[1] = "invoice" /\ lists[i].of[2] = v
           /\ \/ lists[i].of[1] \in {"quotation", "proforma"}
              \/ lists[i].of[1] = "order" /\ lists[i].of[2] \in DOMAIN orders
              \/ lists[i].of[1] = "jobwork" /\ lists[i].of[2] \in DOMAIN jobs
              \/ lists[i].of[1] = "invoice" /\ lists[i].of[2] \in DOMAIN invoices
<1>1. lists[i].of \in Documents
  <2>1. lists[i] \in [of : Documents, rows : Seq(GoodsRow) \ {<<>>}]
    BY DEF StockInv, ListsFit
  <2>2. QED
    BY <2>1
<1>2. PICK doc \in Documents : doc = lists[i].of
  BY <1>1
<1>3. \/ doc[1] \in {"quotation", "proforma"}
      \/ doc[1] = "order" /\ doc[2] \in DOMAIN orders
      \/ doc[1] = "jobwork" /\ doc[2] \in DOMAIN jobs
      \/ doc[1] = "invoice" /\ doc[2] \in DOMAIN invoices /\ doc = <<"invoice", doc[2]>>
  <2>1. CASE doc \in {Quotation, Proforma}
    BY <2>1 DEF Quotation, Proforma
  <2>2. CASE doc \in {"order"} \X DOMAIN orders
    BY <2>2
  <2>3. CASE doc \in {"jobwork"} \X DOMAIN jobs
    BY <2>3
  <2>4. CASE doc \in {"invoice"} \X DOMAIN invoices
    BY <2>4
  <2>5. QED
    BY <2>1, <2>2, <2>3, <2>4 DEF Documents
<1>4. \A v : doc = <<"invoice", v>> => doc[1] = "invoice" /\ doc[2] = v
  OBVIOUS
<1>5. QED
  BY <1>2, <1>3, <1>4

\* What has been received of a design and not been sent on, and what came back.
OnHand(d) ==
    {p \in RowsOf(DOMAIN lists) :
        /\ RowAt(p).design = d /\ lists[p[1]].of[1] = "invoice"
        /\ \A x \in DOMAIN outs : outs[x] # lists[p[1]].of[2]}
CameBack(d) == {q \in ReturnedRows(DOMAIN ins) : ReturnedAt(q).design = d}

LEMMA NetIsOnHand ==
    ASSUME StockInv, NEW d
    PROVE  /\ SumBoxes(OnHand(d)) \in Nat /\ ReceivedBack(d) \in Nat
           /\ Net(d) = SumBoxes(OnHand(d)) + ReceivedBack(d)
<1> DEFINE bought == {i \in DOMAIN lists : lists[i].of[1] = "invoice"}
           sent == {i \in DOMAIN lists : /\ lists[i].of[1] = "invoice"
                                         /\ \E x \in DOMAIN outs : outs[x] = lists[i].of[2]}
           B == {p \in RowsOf(bought) : RowAt(p).design = d}
           S == {p \in RowsOf(sent) : RowAt(p).design = d}
           f == [p \in B |-> RowAt(p).boxes]
<1>1. Bought(d) = SumBoxes(B) /\ Dispatched(d) = SumBoxes(S)
  BY DEF Bought, Dispatched, OfDesign
<1>2. \A p \in RowsOf(DOMAIN lists) :
          /\ p[1] \in DOMAIN lists
          /\ p \in RowsOf(bought) <=> p[1] \in bought
          /\ p \in RowsOf(sent) <=> p[1] \in sent
  <2>1. \A p \in RowsOf(DOMAIN lists) : p[1] \in DOMAIN lists /\ p[2] \in DOMAIN lists[p[1]].rows /\ p = <<p[1], p[2]>>
    BY RowPlaces
  <2>2. ASSUME NEW ids \in SUBSET DOMAIN lists, NEW p \in RowsOf(DOMAIN lists) PROVE p \in RowsOf(ids) <=> p[1] \in ids
    <3>1. (\A q \in RowsOf(ids) : q[1] \in ids) /\ \A i \in ids : \A k \in DOMAIN lists[i].rows : <<i, k>> \in RowsOf(ids)
      BY RowPlaces
    <3>2. QED
      BY <2>1, <3>1
  <2>3. bought \in SUBSET DOMAIN lists /\ sent \in SUBSET DOMAIN lists
    OBVIOUS
  <2> HIDE DEF bought, sent
  <2>4. QED
    BY <2>1, <2>2, <2>3
<1>3. B \in SUBSET RowsOf(DOMAIN lists) /\ S \in SUBSET RowsOf(DOMAIN lists)
  <2>1. bought \in SUBSET DOMAIN lists /\ sent \in SUBSET DOMAIN lists
    OBVIOUS
  <2> HIDE DEF bought, sent
  <2>2. RowsOf(bought) \subseteq RowsOf(DOMAIN lists) /\ RowsOf(sent) \subseteq RowsOf(DOMAIN lists)
    BY <2>1, RowPlaces
  <2>3. QED
    BY <2>2
<1>4. S \subseteq B /\ B \ S = OnHand(d)
  BY <1>2, <1>3 DEF OnHand
<1> HIDE DEF B, S
<1>5. SumBoxes(B) = SumBoxes(S) + SumBoxes(OnHand(d))
  <2>1. IsFiniteSet(B) /\ f \in [B -> Nat]
    BY <1>3, BoxesAdd
  <2>2. S \in SUBSET B
    BY <1>4
  <2>3. SumBoxes(S) = SumFunction([p \in S |-> f[p]])
    <3>1. [p \in S |-> f[p]] = [p \in S |-> RowAt(p).boxes]
      BY <2>2
    <3>2. QED
      BY <3>1 DEF SumBoxes
  <2>4. SumBoxes(OnHand(d)) = SumFunction([p \in B \ S |-> f[p]])
    <3>1. [p \in B \ S |-> f[p]] = [p \in OnHand(d) |-> RowAt(p).boxes]
      BY <1>4
    <3>2. QED
      BY <3>1 DEF SumBoxes
  <2>5. SumBoxes(B) = SumFunction(f)
    BY DEF SumBoxes
  <2> HIDE DEF f
  <2>6. SumFunction(f) = SumFunction([p \in S |-> f[p]]) + SumFunction([p \in B \ S |-> f[p]])
    BY ONLY <2>1, <2>2, SumOfTwo
  <2>7. QED
    BY <2>3, <2>4, <2>5, <2>6
<1>6. SumBoxes(S) \in Nat /\ SumBoxes(OnHand(d)) \in Nat
  <2>1. OnHand(d) \in SUBSET RowsOf(DOMAIN lists)
    BY DEF OnHand
  <2>2. QED
    BY <1>3, <2>1, BoxesAdd
<1>7. ReceivedBack(d) \in Nat
  <2> DEFINE g == [q \in CameBack(d) |-> ReturnedAt(q).boxes]
  <2>1. IsFiniteSet(ReturnedRows(DOMAIN ins)) /\ \A q \in ReturnedRows(DOMAIN ins) : ReturnedAt(q) \in FormRow
    BY ReturnPlaces
  <2>2. IsFiniteSet(CameBack(d))
    BY <2>1, FS_Subset DEF CameBack
  <2>3. g \in [CameBack(d) -> Nat]
    BY <2>1 DEF CameBack, FormRow
  <2>4. ReceivedBack(d) = SumFunction(g)
    BY DEF ReceivedBack, Returned, CameBack
  <2> HIDE DEF g
  <2>5. QED
    BY <2>2, <2>3, <2>4, SumSplits
<1>8. QED
  BY <1>1, <1>5, <1>6, <1>7 DEF Net

LEMMA StockIsWorth ==
    ASSUME StockInv, NEW d
    PROVE  Net(d) = SumFunction([v \in DOMAIN invoices |-> Worth(v, d)])
<1> DEFINE K == OnHand(d)
           Q == CameBack(d)
           V == DOMAIN invoices
           f == [p \in K |-> RowAt(p).boxes]
           g == [q \in Q |-> ReturnedAt(q).boxes]
           of == [p \in K |-> lists[p[1]].of[2]]
           back == [q \in Q |-> outs[ins[q[1]].out]]
           a == [v \in V |-> SumFunction([x \in {y \in K : of[y] = v} |-> f[x]])]
           b == [v \in V |-> SumFunction([x \in {y \in Q : back[y] = v} |-> g[x]])]
<1>1. IsFiniteSet(V)
  BY FiniteTable DEF StockInv, TablesFit
<1>2. /\ K \in SUBSET RowsOf(DOMAIN lists) /\ IsFiniteSet(K) /\ f \in [K -> Nat]
      /\ SumBoxes(K) = SumFunction(f)
  <2>1. K \in SUBSET RowsOf(DOMAIN lists)
    BY DEF OnHand
  <2>2. QED
    BY <2>1, BoxesAdd DEF SumBoxes
<1>3. of \in [K -> V]
  <2>1. ASSUME NEW p \in K PROVE lists[p[1]].of[2] \in V
    <3>1. p[1] \in DOMAIN lists /\ lists[p[1]].of[1] = "invoice"
      BY RowPlaces DEF OnHand
    <3>2. QED
      BY <3>1, InvoiceNamed
  <2>2. QED
    BY <2>1
<1>4. IsFiniteSet(Q) /\ g \in [Q -> Nat] /\ ReceivedBack(d) = SumFunction(g)
  <2>1. IsFiniteSet(ReturnedRows(DOMAIN ins)) /\ \A q \in ReturnedRows(DOMAIN ins) : ReturnedAt(q) \in FormRow
    BY ReturnPlaces
  <2>2. IsFiniteSet(Q)
    BY <2>1, FS_Subset DEF CameBack
  <2>3. g \in [Q -> Nat]
    BY <2>1 DEF CameBack, FormRow
  <2>4. QED
    BY <2>2, <2>3 DEF ReceivedBack, Returned, CameBack
<1>5. back \in [Q -> V]
  <2>1. ASSUME NEW q \in Q PROVE outs[ins[q[1]].out] \in V
    <3>1. q[1] \in DOMAIN ins
      BY ReturnPlaces DEF CameBack
    <3>2. ins[q[1]] \in [out : DOMAIN outs, rows : Seq(FormRow)]
      BY <3>1 DEF StockInv, InsFit
    <3>3. QED
      BY <3>2 DEF StockInv, OutsFit
  <2>2. QED
    BY <2>1
<1>6. a \in [V -> Nat] /\ SumFunction(f) = SumFunction(a)
  <2>1. PICK aa : aa = a
    OBVIOUS
  <2> HIDE DEF f, of, K, V
  <2>2. aa = [v \in V |-> SumFunction([x \in {y \in K : of[y] = v} |-> f[x]])]
    BY <2>1
  <2> HIDE DEF a
  <2>3. aa \in [V -> Nat] /\ SumFunction(f) = SumFunction(aa)
    BY ONLY <1>1, <1>2, <1>3, <2>2, SumBySort
  <2>4. QED
    BY <2>1, <2>3
<1>7. b \in [V -> Nat] /\ SumFunction(g) = SumFunction(b)
  <2>1. PICK bb : bb = b
    OBVIOUS
  <2> HIDE DEF g, back, Q, V
  <2>2. bb = [v \in V |-> SumFunction([x \in {y \in Q : back[y] = v} |-> g[x]])]
    BY <2>1
  <2> HIDE DEF b
  <2>3. bb \in [V -> Nat] /\ SumFunction(g) = SumFunction(bb)
    BY ONLY <1>1, <1>4, <1>5, <2>2, SumBySort
  <2>4. QED
    BY <2>1, <2>3
<1>8. ASSUME NEW v \in V PROVE Worth(v, d) = a[v] + b[v]
  <2> DEFINE mine == {p \in RowsOf(Of(<<"invoice", v>>)) : RowAt(p).design = d}
             came == {i \in DOMAIN ins : ins[i].out \in Challans({v})}
             theirs == {q \in ReturnedRows(came) : ReturnedAt(q).design = d}
             Kv == {y \in K : of[y] = v}
             Qv == {y \in Q : back[y] = v}
  <2>1. a[v] = SumFunction([x \in Kv |-> f[x]]) /\ b[v] = SumFunction([x \in Qv |-> g[x]])
    OBVIOUS
  <2>2. CASE Challans({v}) = {}
    <3>1. \A x \in DOMAIN outs : outs[x] # v
      BY <2>2 DEF Challans
    <3>2. Kv = mine
      <4>1. Of(<<"invoice", v>>) \in SUBSET DOMAIN lists
        BY DEF Of
      <4>2. ASSUME NEW p \in Kv PROVE p \in mine
        <5>1. /\ p \in RowsOf(DOMAIN lists) /\ RowAt(p).design = d /\ lists[p[1]].of[1] = "invoice"
              /\ lists[p[1]].of[2] = v
          BY DEF OnHand
        <5>2. p[1] \in DOMAIN lists /\ p[2] \in DOMAIN lists[p[1]].rows /\ p = <<p[1], p[2]>>
          BY <5>1, RowPlaces
        <5>3. p[1] \in Of(<<"invoice", v>>)
          BY <5>1, <5>2, InvoiceNamed DEF Of
        <5>4. p \in RowsOf(Of(<<"invoice", v>>))
          BY <4>1, <5>2, <5>3, RowPlaces
        <5>5. QED
          BY <5>1, <5>4
      <4>3. ASSUME NEW p \in mine PROVE p \in Kv
        <5>1. p \in RowsOf(DOMAIN lists) /\ p[1] \in Of(<<"invoice", v>>)
          BY <4>1, RowPlaces
        <5>2. lists[p[1]].of[1] = "invoice" /\ lists[p[1]].of[2] = v
          BY <5>1, InvoiceNamed DEF Of
        <5>3. p \in K
          BY <3>1, <5>1, <5>2 DEF OnHand
        <5>4. QED
          BY <5>2, <5>3
      <4> HIDE DEF Kv, mine
      <4>4. QED
        BY <4>2, <4>3
    <3>3. Worth(v, d) = a[v]
      <4>1. [x \in Kv |-> f[x]] = [p \in mine |-> RowAt(p).boxes]
        <5>1. \A x \in Kv : f[x] = RowAt(x).boxes
          OBVIOUS
        <5> HIDE DEF Kv, mine, f
        <5>2. QED
          BY <3>2, <5>1
      <4>2. Worth(v, d) = SumFunction([p \in mine |-> RowAt(p).boxes])
        BY <2>2 DEF Worth, OfDesign, SumBoxes
      <4> HIDE DEF a, Kv, f, mine
      <4>3. QED
        BY <2>1, <4>1, <4>2
    <3>4. b[v] = 0
      <4>1. ASSUME NEW q \in Qv PROVE FALSE
        <5>1. q[1] \in DOMAIN ins /\ outs[ins[q[1]].out] = v
          BY ReturnPlaces DEF CameBack
        <5>2. ins[q[1]] \in [out : DOMAIN outs, rows : Seq(FormRow)]
          BY <5>1 DEF StockInv, InsFit
        <5>3. QED
          BY <3>1, <5>1, <5>2
      <4>2. PICK h : h = [x \in Qv |-> g[x]]
        OBVIOUS
      <4> HIDE DEF Qv
      <4>3. Qv = {} /\ IsFiniteSet(Qv)
        BY <4>1, FS_EmptySet
      <4>4. h \in [Qv -> Nat] /\ \A x \in Qv : h[x] = 0
        BY <4>2, <4>3
      <4>5. SumFunction(h) = 0
        BY ONLY <4>3, <4>4, SumOfZeros
      <4> HIDE DEF b, g
      <4>6. QED
        BY <2>1, <4>2, <4>5
    <3>5. a[v] \in Nat
      BY <1>6
    <3> HIDE DEF a, b
    <3>6. QED
      BY <3>3, <3>4, <3>5
  <2>3. CASE Challans({v}) # {}
    <3>1. PICK x \in DOMAIN outs : outs[x] = v
      BY <2>3 DEF Challans
    <3>2. Qv = theirs
      <4>1. came \in SUBSET DOMAIN ins
        OBVIOUS
      <4>2. ASSUME NEW q \in Qv PROVE q \in theirs
        <5>1. q \in ReturnedRows(DOMAIN ins) /\ ReturnedAt(q).design = d /\ outs[ins[q[1]].out] = v
          BY DEF CameBack
        <5>2. q[1] \in DOMAIN ins /\ q[2] \in DOMAIN ins[q[1]].rows /\ q = <<q[1], q[2]>>
          BY <5>1, ReturnPlaces
        <5>3. ins[q[1]] \in [out : DOMAIN outs, rows : Seq(FormRow)]
          BY <5>2 DEF StockInv, InsFit
        <5>4. q[1] \in came
          BY <5>1, <5>2, <5>3 DEF Challans
        <5> HIDE DEF came
        <5>5. q \in ReturnedRows(came)
          BY <4>1, <5>2, <5>4, ReturnPlaces
        <5>6. QED
          BY <5>1, <5>5
      <4>3. ASSUME NEW q \in theirs PROVE q \in Qv
        <5>1. q[1] \in came /\ q \in ReturnedRows(DOMAIN ins) /\ ReturnedAt(q).design = d
          <6>1. q \in ReturnedRows(came) /\ ReturnedAt(q).design = d
            OBVIOUS
          <6> HIDE DEF came
          <6>2. QED
            BY <4>1, <6>1, ReturnPlaces
        <5>2. outs[ins[q[1]].out] = v
          BY <5>1 DEF Challans
        <5>3. QED
          BY <5>1, <5>2 DEF CameBack
      <4> HIDE DEF Qv, theirs
      <4>4. QED
        BY <4>2, <4>3
    <3>3. Worth(v, d) = b[v]
      <4>1. [y \in Qv |-> g[y]] = [q \in theirs |-> ReturnedAt(q).boxes]
        <5>1. \A y \in Qv : g[y] = ReturnedAt(y).boxes
          OBVIOUS
        <5> HIDE DEF Qv, theirs, g
        <5>2. QED
          BY <3>2, <5>1
      <4>2. Worth(v, d) = SumFunction([q \in theirs |-> ReturnedAt(q).boxes])
        BY <2>3 DEF Worth, Returned
      <4> HIDE DEF b, Qv, g, theirs
      <4>3. QED
        BY <2>1, <4>1, <4>2
    <3>4. a[v] = 0
      <4>1. ASSUME NEW p \in Kv PROVE FALSE
        BY <3>1 DEF OnHand
      <4>2. PICK h : h = [y \in Kv |-> f[y]]
        OBVIOUS
      <4> HIDE DEF Kv
      <4>3. Kv = {} /\ IsFiniteSet(Kv)
        BY <4>1, FS_EmptySet
      <4>4. h \in [Kv -> Nat] /\ \A y \in Kv : h[y] = 0
        BY <4>2, <4>3
      <4>5. SumFunction(h) = 0
        BY ONLY <4>3, <4>4, SumOfZeros
      <4> HIDE DEF a, f
      <4>6. QED
        BY <2>1, <4>2, <4>5
    <3>5. b[v] \in Nat
      BY <1>7
    <3> HIDE DEF a, b
    <3>6. QED
      BY <3>3, <3>4, <3>5
  <2>4. QED
    BY <2>2, <2>3
<1>9. PICK worth : worth = [v \in V |-> Worth(v, d)]
  OBVIOUS
<1> HIDE DEF a, b, f, g
<1>10. worth = [v \in V |-> a[v] + b[v]]
  BY <1>8, <1>9
<1>11. SumFunction(worth) = SumFunction(a) + SumFunction(b)
  <2> HIDE DEF V
  <2>1. QED
    BY ONLY <1>1, <1>6, <1>7, <1>10, SumPlus
<1>12. Net(d) = SumBoxes(K) + ReceivedBack(d)
  BY NetIsOnHand
<1>13. QED
  BY <1>2, <1>4, <1>6, <1>7, <1>9, <1>11, <1>12

LEMMA StocksBalance == StockInv => StockBalances
<1> SUFFICES ASSUME StockInv PROVE StockBalances
  OBVIOUS
<1>1. NothingOutlivesItsDocument
  <2>1. \A x \in DOMAIN outs : outs[x] \in DOMAIN invoices
    BY DEF StockInv, OutsFit
  <2>2. \A i \in DOMAIN ins : ins[i].out \in DOMAIN outs
    <3>1. \A i \in DOMAIN ins : ins[i] \in [out : DOMAIN outs, rows : Seq(FormRow)]
      BY DEF StockInv, InsFit
    <3>2. QED
      BY <3>1
  <2>3. ASSUME NEW i \in DOMAIN lists, NEW kind, kind = lists[i].of[1]
        PROVE  \/ kind \in {"quotation", "proforma"}
               \/ lists[i].of[2] \in DOMAIN (CASE kind = "order" -> orders
                                               [] kind = "jobwork" -> jobs
                                               [] OTHER -> invoices)
    <3>1. \/ kind \in {"quotation", "proforma"}
          \/ kind = "order" /\ lists[i].of[2] \in DOMAIN orders
          \/ kind = "jobwork" /\ lists[i].of[2] \in DOMAIN jobs
          \/ kind = "invoice" /\ lists[i].of[2] \in DOMAIN invoices
      BY <2>3, InvoiceNamed
    <3>2. QED
      BY <3>1
  <2>4. QED
    BY <2>1, <2>2, <2>3 DEF NothingOutlivesItsDocument
<1>2. ASSUME NEW d \in CatalogDesigns
      PROVE  Net(d) >= 0 /\ Net(d) = SumFunction([v \in DOMAIN invoices |-> Worth(v, d)])
  <2>1. SumBoxes(OnHand(d)) \in Nat /\ ReceivedBack(d) \in Nat /\ Net(d) = SumBoxes(OnHand(d)) + ReceivedBack(d)
    BY NetIsOnHand
  <2>2. Net(d) >= 0
    BY <2>1
  <2>3. QED
    BY <2>2, StockIsWorth
<1>3. \A i \in DOMAIN ins : \A k \in DOMAIN ins[i].rows :
          ins[i].rows[k].design # Null => ProductOf[ins[i].rows[k].design] = ins[i].rows[k].product
  BY DEF StockInv, InsFit, Moved
<1>4. QED
  BY <1>1, <1>2, <1>3 DEF StockBalances

\* The stock of every design is what the invoices that are there are worth,
\* and nothing outlives what it is of.
THEOREM StockStaysBalanced == StockSpec => []StockBalances
BY StockInvHolds, StocksBalance, PTL

-----------------------------------------------------------------------------
(* The invoice is chased exactly while a box of it is not placed.          *)

LEMMA KeysOfGroups ==
    ASSUME NEW r
    PROVE  NameKey(Group(r)) = NameKey(r) /\ DesignKey(Group(r)) = DesignKey(r)
BY DEF Group, NameKey, DesignKey

\* Where names tell designs, the two keys tell the same rows apart.
LEMMA KeysAgree ==
    ASSUME NamesTellDesigns, NEW p \in AskedFor \union OnOrder, NEW q \in AskedFor \union OnOrder,
           NEW g, g = Group(RowAt(p)), NEW h, h = Group(RowAt(q))
    PROVE  DesignKey(g) = DesignKey(h) <=> NameKey(g) = NameKey(h)
<1>1. {g, h} \subseteq GroupsOf(AskedFor \union OnOrder)
  BY DEF GroupsOf
<1>2. SameDesign(g, h) = (NameKey(g) = NameKey(h))
  BY <1>1 DEF NamesTellDesigns
<1>3. SameDesign(g, h) <=> DesignKey(g) = DesignKey(h)
  BY DEF SameDesign, DesignKey
<1>4. QED
  BY <1>2, <1>3

\* Where what is asked for goes by one name, rows of one key are of one group.
LEMMA AskedAreNamed ==
    ASSUME AskedByOneName, NEW p \in AskedFor, NEW q \in AskedFor,
           NEW g, g = Group(RowAt(p)), NEW h, h = Group(RowAt(q))
    PROVE  /\ g = h <=> NameKey(RowAt(p)) = NameKey(RowAt(q))
           /\ g = h <=> DesignKey(g) = DesignKey(h)
<1>1. NameKey(g) = NameKey(RowAt(p)) /\ NameKey(h) = NameKey(RowAt(q))
  BY KeysOfGroups
<1>2. {g, h} \subseteq GroupsOf(AskedFor)
  BY DEF GroupsOf
<1>3. NameKey(g) = NameKey(h) => g = h
  BY <1>2 DEF AskedByOneName, OneGroupEach
<1>4. DesignKey(g) = DesignKey(h) <=> NameKey(g) = NameKey(h)
  BY KeysAgree DEF AskedByOneName
<1>5. QED
  BY <1>1, <1>3, <1>4

\* Boxes at some places, added up group by group; the places of one key.
AddedUp(totals, places, b, grp) ==
    totals = [g \in {grp[p] : p \in places} |-> SumFunction([p \in {q \in places : grp[q] = g} |-> b[p]])]
Keyed(like, f, places, b, grp, key) ==
    like = {q \in places : DesignKey(grp[q]) = key} /\ f = [p \in like |-> b[p]]

\* The one group a dict keeps says no more than all that is of its key, and
\* just that if there is no other group.
LEMMA PlacedTotals ==
    ASSUME NEW places, IsFiniteSet(places), NEW b \in [places -> Nat], NEW grp \in [places -> Groups],
           NEW totals, AddedUp(totals, places, b, grp),
           NEW key, NEW like, NEW f, Keyed(like, f, places, b, grp, key)
    PROVE  /\ SumFunction(f) \in Nat /\ Placed(totals, key) \in Nat /\ Placed(totals, key) <= SumFunction(f)
           /\ (\A p, q \in like : grp[p] = grp[q]) => Placed(totals, key) = SumFunction(f)
<1> DEFINE D == {grp[p] : p \in places}
           Like(g) == {q \in places : grp[q] = g}
<1>0. like = {q \in places : DesignKey(grp[q]) = key} /\ f = [p \in like |-> b[p]]
  BY DEF Keyed
<1>1. DOMAIN totals = D /\ \A g \in D : totals[g] = SumFunction([p \in Like(g) |-> b[p]])
  BY DEF AddedUp
<1>2. IsFiniteSet(D) /\ D \subseteq Groups
  <2>1. grp \in [places -> D] /\ \A y \in D : \E p \in places : grp[p] = y
    OBVIOUS
  <2>2. D \subseteq Groups
    OBVIOUS
  <2> HIDE DEF D
  <2>3. QED
    BY <2>1, <2>2, ImageIsFinite
<1>3. IsFiniteSet(like) /\ f \in [like -> Nat] /\ like \subseteq places
  BY <1>0, FS_Subset
<1>4. SumFunction(f) \in Nat
  BY <1>3, SumSplits
<1>5. CASE Has(totals, key)
  <2>1. PICK g \in D : g = LastOf(totals, key) /\ DesignKey(g) = key
    <3> HIDE DEF D
    <3>1. QED
      BY <1>1, <1>2, <1>5, LastOfFits
  <2>2. PICK E \in SUBSET like : E = Like(g)
    BY <1>0, <2>1
  <2> DEFINE e == [p \in E |-> b[p]]
  <2>3. Placed(totals, key) = SumFunction(e)
    BY <1>1, <1>5, <2>1, <2>2 DEF Placed
  <2>4. IsFiniteSet(E) /\ e \in [E -> Nat] /\ \A p \in E : e[p] <= f[p]
    <3>1. \A p \in E : b[p] \in Nat /\ f[p] = b[p]
      BY <1>0, <1>3
    <3>2. QED
      BY <1>3, <3>1, FS_Subset
  <2>5. ASSUME \A p, q \in like : grp[p] = grp[q] PROVE e = f
    <3>1. PICK p \in places : grp[p] = g
      BY <2>1
    <3>2. p \in like
      BY <1>0, <2>1, <3>1
    <3>3. E = like
      BY <1>3, <2>2, <2>5, <3>1, <3>2
    <3>4. QED
      BY <1>0, <3>3
  <2> HIDE DEF e
  <2>6. SumFunction(e) \in Nat
    BY <2>4, SumSplits
  <2>7. SumFunction(e) <= SumFunction(f)
    BY ONLY <1>3, <2>2, <2>4, SumGrows
  <2>8. QED
    BY <1>4, <2>3, <2>5, <2>6, <2>7
<1>6. CASE ~Has(totals, key)
  <2>1. like = {}
    BY <1>0, <1>1, <1>6 DEF Has
  <2>2. \A p \in like : f[p] = 0
    BY <2>1
  <2>3. SumFunction(f) = 0
    BY ONLY <1>3, <2>2, SumOfZeros
  <2>4. Placed(totals, key) = 0
    BY <1>6 DEF Placed
  <2>5. QED
    BY <1>4, <2>3, <2>4
<1>7. QED
  BY <1>5, <1>6

\* What is on orders, of one design that is asked for.
LEMMA OrderedAtMost ==
    ASSUME StockInv, NamesTellDesigns, NEW p \in AskedFor, NEW g, g = Group(RowAt(p)),
           NEW named, named = Named(OnOrder, NameKey(RowAt(p))),
           NEW placed, placed = PlacedOnOrders
    PROVE  /\ named \in Nat /\ Placed(placed, DesignKey(g)) \in Nat /\ Placed(placed, DesignKey(g)) <= named
           /\ OneGroupEach(GroupsOf(OnOrder)) => Placed(placed, DesignKey(g)) = named
<1>1. PICK ids \in SUBSET DOMAIN lists : ids = UNION {Of(<<"order", o>>) : o \in DOMAIN orders}
  BY SidesAreLists
<1>2. PICK places : places = OnOrder
  OBVIOUS
<1>3. places = RowsOf(ids) /\ placed = DesignTotals(ids)
  BY <1>1, <1>2 DEF OnOrder, PlacedOnOrders
<1>4. /\ IsFiniteSet(places) /\ places \in SUBSET RowsOf(DOMAIN lists)
      /\ \A q \in places : RowAt(q) \in GoodsRow
  BY <1>3, RowPlaces
<1> DEFINE b == [q \in places |-> RowAt(q).boxes]
           grp == [q \in places |-> Group(RowAt(q))]
           like == {q \in places : DesignKey(grp[q]) = DesignKey(g)}
<1>5. b \in [places -> Nat] /\ grp \in [places -> Groups]
  BY <1>4 DEF GoodsRow, Group, Groups
<1>6. placed = [h \in {grp[q] : q \in places} |-> SumFunction([q \in {s \in places : grp[s] = h} |-> b[q]])]
  <2>1. {grp[q] : q \in places} = {Group(RowAt(q)) : q \in RowsOf(ids)}
    BY <1>3
  <2>2. ASSUME NEW h
        PROVE  SumBoxes({q \in RowsOf(ids) : Group(RowAt(q)) = h})
                  = SumFunction([q \in {s \in places : grp[s] = h} |-> b[q]])
    <3>1. {q \in RowsOf(ids) : Group(RowAt(q)) = h} = {s \in places : grp[s] = h}
      BY <1>3
    <3>2. PICK S : S = {s \in places : grp[s] = h}
      OBVIOUS
    <3>3. [q \in S |-> RowAt(q).boxes] = [q \in S |-> b[q]]
      BY <3>2
    <3>4. QED
      BY <3>1, <3>2, <3>3 DEF SumBoxes
  <2>3. placed = [h \in {Group(RowAt(q)) : q \in RowsOf(ids)} |->
                     SumBoxes({q \in RowsOf(ids) : Group(RowAt(q)) = h})]
    BY <1>3 DEF DesignTotals
  <2> DEFINE A == {grp[q] : q \in places}
             left(h) == SumBoxes({q \in RowsOf(ids) : Group(RowAt(q)) = h})
             right(h) == SumFunction([q \in {s \in places : grp[s] = h} |-> b[q]])
  <2>4. placed = [h \in A |-> left(h)] /\ \A h : left(h) = right(h)
    BY <2>1, <2>2, <2>3
  <2> HIDE DEF A, left, right
  <2>5. placed = [h \in A |-> right(h)]
    BY <2>4
  <2>6. QED
    BY <2>5 DEF A, right
<1>7. /\ \A q \in places : grp[q] = Group(RowAt(q))
      /\ \A q \in places : DesignKey(grp[q]) = DesignKey(g) <=> NameKey(RowAt(q)) = NameKey(RowAt(p))
  <2>1. ASSUME NEW q \in places
        PROVE  DesignKey(Group(RowAt(q))) = DesignKey(g) <=> NameKey(RowAt(q)) = NameKey(RowAt(p))
    <3>1. PICK h : h = Group(RowAt(q))
      OBVIOUS
    <3>2. DesignKey(h) = DesignKey(g) <=> NameKey(h) = NameKey(g)
      BY <1>2, <3>1, KeysAgree
    <3>3. NameKey(h) = NameKey(RowAt(q)) /\ NameKey(g) = NameKey(RowAt(p))
      BY <3>1, KeysOfGroups
    <3>4. QED
      BY <3>1, <3>2, <3>3
  <2>2. QED
    BY <2>1
<1>8. named = SumFunction([q \in like |-> b[q]])
  <2>1. like = {q \in OnOrder : NameKey(RowAt(q)) = NameKey(RowAt(p))}
    <3> HIDE DEF grp
    <3>1. QED
      BY <1>2, <1>7
  <2>2. [q \in like |-> RowAt(q).boxes] = [q \in like |-> b[q]]
    <3>1. \A q \in like : q \in places
      OBVIOUS
    <3> HIDE DEF like
    <3>2. QED
      BY <3>1
  <2> HIDE DEF like, b
  <2>3. QED
    BY <2>1, <2>2 DEF Named, SumBoxes
<1>9. ASSUME OneGroupEach(GroupsOf(OnOrder)), NEW q \in like, NEW s \in like PROVE grp[q] = grp[s]
  <2>1. grp[q] \in GroupsOf(OnOrder) /\ grp[s] \in GroupsOf(OnOrder)
    BY <1>2 DEF GroupsOf
  <2>2. NameKey(grp[q]) = NameKey(grp[s])
    BY <1>7, KeysOfGroups
  <2> HIDE DEF grp
  <2>3. QED
    BY <1>9, <2>1, <2>2 DEF OneGroupEach
<1>10. PICK key, f : key = DesignKey(g) /\ f = [q \in like |-> b[q]]
  OBVIOUS
<1>11. AddedUp(placed, places, b, grp) /\ Keyed(like, f, places, b, grp, key)
  BY <1>6, <1>10 DEF AddedUp, Keyed
<1> HIDE DEF b, grp, like
<1>12. /\ SumFunction(f) \in Nat /\ Placed(placed, key) \in Nat /\ Placed(placed, key) <= SumFunction(f)
       /\ (\A q, s \in like : grp[q] = grp[s]) => Placed(placed, key) = SumFunction(f)
  BY ONLY <1>4, <1>5, <1>11, PlacedTotals
<1>13. named = SumFunction(f)
  BY <1>8, <1>10
<1>14. QED
  BY <1>9, <1>10, <1>12, <1>13

\* What is with job manufacturers, likewise.
LEMMA JobbedAtMost ==
    ASSUME StockInv, NEW g
    PROVE  /\ AtWork(NameKey(g)) \in Nat /\ JobPlaced(g) \in Nat /\ JobPlaced(g) <= AtWork(NameKey(g))
           /\ OneGroupEach({LineGroup(l) : l \in JobbedLines}) => JobPlaced(g) = AtWork(NameKey(g))
<1>1. PICK places : places = JobbedLines
  OBVIOUS
<1>2. PICK jobbed : jobbed = JobTotals
  OBVIOUS
<1> DEFINE b == [l \in places |-> LineAt(l).source]
           grp == [l \in places |-> LineGroup(l)]
           like == {l \in places : DesignKey(grp[l]) = NameKey(g)}
<1>3. IsFiniteSet(places) /\ b \in [places -> Nat]
  <2>1. places \in SUBSET JobbedLines
    BY <1>1
  <2>2. QED
    BY <2>1, JobTotalsFit
<1>4. grp \in [places -> Groups]
  <2>1. {LineGroup(l) : l \in JobbedLines} \subseteq Groups
    BY JobTotalsFit
  <2>2. QED
    BY <1>1, <2>1
<1>5. jobbed = [h \in {grp[l] : l \in places} |-> SumFunction([l \in {s \in places : grp[s] = h} |-> b[l]])]
  <2>1. {grp[l] : l \in places} = {LineGroup(l) : l \in JobbedLines}
    BY <1>1
  <2> DEFINE A == {grp[l] : l \in places}
             left(h) == SumFunction([l \in {m \in JobbedLines : LineGroup(m) = h} |-> LineAt(l).source])
             right(h) == SumFunction([l \in {s \in places : grp[s] = h} |-> b[l]])
  <2>2. ASSUME NEW h PROVE left(h) = right(h)
    <3>1. {m \in JobbedLines : LineGroup(m) = h} = {s \in places : grp[s] = h}
      BY <1>1
    <3>2. PICK S : S = {s \in places : grp[s] = h}
      OBVIOUS
    <3>3. [l \in S |-> LineAt(l).source] = [l \in S |-> b[l]]
      BY <3>2
    <3>4. QED
      BY <3>1, <3>2, <3>3
  <2>3. jobbed = [h \in A |-> left(h)]
    BY <1>2, <2>1 DEF JobTotals
  <2> HIDE DEF A, left, right
  <2>4. jobbed = [h \in A |-> right(h)]
    BY <2>2, <2>3
  <2>5. QED
    BY <2>4 DEF A, right
<1>6. \A l \in places : grp[l] = LineGroup(l) /\ DesignKey(grp[l]) = NameKey(grp[l])
  BY DEF LineGroup, DesignKey, NameKey
<1>7. AtWork(NameKey(g)) = SumFunction([l \in like |-> b[l]])
  <2>1. like = {m \in JobbedLines : NameKey(LineGroup(m)) = NameKey(g)}
    <3> HIDE DEF grp
    <3>1. QED
      BY <1>1, <1>6
  <2>2. [l \in like |-> LineAt(l).source] = [l \in like |-> b[l]]
    <3>1. \A l \in like : l \in places
      OBVIOUS
    <3> HIDE DEF like
    <3>2. QED
      BY <3>1
  <2> HIDE DEF like, b
  <2>3. QED
    BY <2>1, <2>2 DEF AtWork
<1>8. ASSUME OneGroupEach({LineGroup(l) : l \in JobbedLines}), NEW q \in like, NEW s \in like PROVE grp[q] = grp[s]
  <2>1. {grp[q], grp[s]} \subseteq {LineGroup(l) : l \in JobbedLines}
    BY <1>1
  <2>2. NameKey(grp[q]) = NameKey(grp[s])
    BY <1>6
  <2> HIDE DEF grp
  <2>3. QED
    BY <1>8, <2>1, <2>2 DEF OneGroupEach
<1>9. PICK key, f : key = NameKey(g) /\ f = [l \in like |-> b[l]]
  OBVIOUS
<1>10. AddedUp(jobbed, places, b, grp) /\ Keyed(like, f, places, b, grp, key)
  BY <1>5, <1>9 DEF AddedUp, Keyed
<1> HIDE DEF b, grp, like
<1>11. /\ SumFunction(f) \in Nat /\ Placed(jobbed, key) \in Nat /\ Placed(jobbed, key) <= SumFunction(f)
       /\ (\A q, s \in like : grp[q] = grp[s]) => Placed(jobbed, key) = SumFunction(f)
  BY ONLY <1>3, <1>4, <1>10, PlacedTotals
<1>12. JobPlaced(g) = Placed(jobbed, key) /\ AtWork(key) = SumFunction(f)
  BY <1>2, <1>7, <1>9 DEF JobPlaced
<1>13. QED
  BY <1>8, <1>9, <1>11, <1>12

\* Group by group the comparison finds lacking at least what the rows lack,
\* whoever wrote them, and just that where what is placed goes by one name.
LEMMA LacksAreCompared ==
    ASSUME StockInv, AskedByOneName, NEW p \in AskedFor, NEW g, g = Group(RowAt(p)),
           NEW key, key = NameKey(RowAt(p)),
           NEW lacks, lacks = Lacks(AskedFor, OnOrder, key)
    PROVE  /\ g \in DOMAIN Required
           /\ Required[g] = Named(AskedFor, key)
           /\ Required[g] \in Nat /\ Covered(PlacedOnOrders, g) \in Nat /\ lacks \in Int
           /\ lacks <= Required[g] - Covered(PlacedOnOrders, g)
           /\ PlacedByOneName => lacks = Required[g] - Covered(PlacedOnOrders, g)
<1>1. PICK ids \in SUBSET DOMAIN lists : ids = (IF Of(Proforma) # {} THEN Of(Proforma) ELSE Of(Quotation))
  BY SidesAreLists
<1>2. AskedFor = RowsOf(ids) /\ Required = DesignTotals(ids)
  BY <1>1 DEF AskedFor, Asking, Required
<1>3. PICK required, placed : required = Required /\ placed = PlacedOnOrders
  OBVIOUS
<1>4. g \in DOMAIN required /\ required[g] \in Nat
  BY <1>2, <1>3, TotalsFit
<1>5. required[g] = Named(AskedFor, key)
  <2>1. required[g] = SumBoxes({q \in AskedFor : Group(RowAt(q)) = g})
    BY <1>2, <1>3, <1>4, TotalsFit DEF DesignTotals
  <2>2. \A q \in AskedFor : Group(RowAt(q)) = g <=> NameKey(RowAt(q)) = key
    BY AskedAreNamed
  <2>3. {q \in AskedFor : Group(RowAt(q)) = g} = {q \in AskedFor : NameKey(RowAt(q)) = key}
    BY <2>2
  <2>4. QED
    BY <2>1, <2>3 DEF Named
<1>6. PICK ordered, atWork : ordered = Named(OnOrder, key) /\ atWork = AtWork(key)
  OBVIOUS
<1>7. PICK a, b : a = Placed(placed, DesignKey(g)) /\ b = JobPlaced(g)
  OBVIOUS
<1>8. a \in Nat /\ ordered \in Nat /\ a <= ordered /\ (PlacedByOneName => a = ordered)
  BY <1>3, <1>6, <1>7, OrderedAtMost DEF AskedByOneName, PlacedByOneName
<1>9. b \in Nat /\ atWork \in Nat /\ b <= atWork /\ (PlacedByOneName => b = atWork)
  <2>1. NameKey(g) = key
    BY KeysOfGroups
  <2>2. QED
    BY <1>6, <1>7, <2>1, JobbedAtMost DEF PlacedByOneName
<1>10. Covered(placed, g) = a + b
  BY <1>7 DEF Covered
<1>11. lacks = required[g] - ordered - atWork
  BY <1>5, <1>6 DEF Lacks
<1>12. QED
  BY <1>3, <1>4, <1>5, <1>8, <1>9, <1>10, <1>11

LEMMA InvoicesAreFollowed == StockInv => ChasedUntilPlaced
<1> SUFFICES ASSUME StockInv PROVE ChasedUntilPlaced
  OBVIOUS
<1>1. PlacingTypeOK
  <2>1. ASSUME NEW i \in DOMAIN lists
        PROVE  lists[i].rows # <<>> /\ \A k \in DOMAIN lists[i].rows : lists[i].rows[k].boxes \in Nat \ {0}
    <3>1. lists[i] \in [of : Documents, rows : Seq(GoodsRow) \ {<<>>}]
      BY DEF StockInv, ListsFit
    <3>2. PICK rows \in Seq(GoodsRow) \ {<<>>} : rows = lists[i].rows
      BY <3>1
    <3>3. \A k \in DOMAIN rows : rows[k] \in GoodsRow
      BY ListPlaces
    <3>4. QED
      BY <3>2, <3>3 DEF GoodsRow
  <2>2. \A j \in DOMAIN jobs : \A k \in DOMAIN jobs[j] : JobQuantity(jobs[j][k].source) > 0
    BY DEF StockInv, JobsFit, MakesSomething
  <2>3. QED
    BY <2>1, <2>2 DEF PlacingTypeOK, StockInv, NamesFit
<1>2. ASSUME AskedByOneName,
             NEW asked, asked = AskedFor, NEW ordered, ordered = OnOrder,
             NEW unplaced, unplaced = (asked = {} \/ \E p \in asked : Lacks(asked, ordered, NameKey(RowAt(p))) > 0)
      PROVE  /\ unplaced => Reminded
             /\ PlacedByOneName =>
                   /\ Reminded => unplaced
                   /\ OverOrdered = {Group(RowAt(p)) : p \in {q \in asked :
                                        Lacks(asked, ordered, NameKey(RowAt(q))) < 0}}
  <2> DEFINE lacks(p) == Lacks(asked, ordered, NameKey(RowAt(p)))
  <2>1. PICK required, placed : required = Required /\ placed = PlacedOnOrders
    OBVIOUS
  <2>2. DOMAIN required = {Group(RowAt(p)) : p \in asked}
    BY <1>2, <2>1, SidesAreLists, TotalsFit DEF Required, AskedFor, Asking
  <2>3. \A p \in asked :
           LET g == Group(RowAt(p))
           IN  /\ required[g] \in Nat /\ Covered(placed, g) \in Nat /\ lacks(p) \in Int
               /\ lacks(p) <= required[g] - Covered(placed, g)
               /\ PlacedByOneName => lacks(p) = required[g] - Covered(placed, g)
    BY <1>2, <2>1, LacksAreCompared
  <2>4. DOMAIN Pending = {g \in DOMAIN required : required[g] > Covered(placed, g)}
    BY <2>1, PendingFits
  <2>5. OverOrdered = {g \in DOMAIN required : required[g] < Covered(placed, g)}
    BY <2>1 DEF OverOrdered
  <2>6. unplaced <=> asked = {} \/ \E p \in asked : lacks(p) > 0
    BY <1>2
  <2> HIDE DEF lacks
  <2>7. \A p \in asked :
           LET g == Group(RowAt(p))
           IN  /\ lacks(p) > 0 => required[g] > Covered(placed, g)
               /\ PlacedByOneName => /\ required[g] > Covered(placed, g) => lacks(p) > 0
                                     /\ lacks(p) < 0 <=> required[g] < Covered(placed, g)
    BY <2>3
  <2>8. DOMAIN required = {} <=> asked = {}
    BY <2>2
  <2>9. unplaced => Reminded
    BY <2>1, <2>2, <2>4, <2>6, <2>7, <2>8 DEF Reminded
  <2>10. PlacedByOneName => (Reminded => unplaced)
    BY <2>1, <2>2, <2>4, <2>6, <2>7, <2>8 DEF Reminded
  <2>11. PlacedByOneName => OverOrdered = {Group(RowAt(p)) : p \in {q \in asked : lacks(q) < 0}}
    BY <2>2, <2>5, <2>7
  <2>12. QED
    BY <2>9, <2>10, <2>11 DEF lacks
<1>3. QED
  BY <1>1, <1>2 DEF ChasedUntilPlaced

\* A confirmed invoice whose goods are asked for by one name each is chased as
\* long as a box of it is on no order and in no job work; and where what is
\* placed goes by one name too, no longer than that, and what is bought in
\* excess is reported.
THEOREM InvoicesAreChased == StockSpec => []ChasedUntilPlaced
BY StockInvHolds, InvoicesAreFollowed, PTL

-----------------------------------------------------------------------------
(* An order's form offers what is left, to half a hundredth of a box a row.*)

LEMMA Divided ==
    ASSUME NEW m \in Nat, NEW e \in Nat \ {0}
    PROVE  m \div e \in Nat /\ e * (m \div e) <= m /\ m < e * (m \div e) + e
<1>1. e * (m \div e) <= m
  OBVIOUS
<1>2. m < e * (m \div e) + e
  OBVIOUS
<1>3. QED
  BY <1>1, <1>2

LEMMA RoundedNear ==
    ASSUME NEW n \in Nat, NEW d \in Nat \ {0}
    PROVE  /\ Rounded(n, d) \in Nat
           /\ 2 * (d * Rounded(n, d)) <= 2 * n + d /\ 2 * n <= 2 * (d * Rounded(n, d)) + d
<1>1. PICK m, e \in Nat \ {0} : m = 2 * n + d /\ e = 2 * d
  OBVIOUS
<1>2. PICK q \in Nat : q = m \div e
  OBVIOUS
<1>3. e * q <= m /\ m < e * q + e
  BY <1>2, Divided
<1>4. e * q = 2 * (d * q)
  BY <1>1
<1>5. PICK z \in Nat : z = d * q
  OBVIOUS
<1>6. 2 * z <= 2 * n + d /\ 2 * n <= 2 * z + d
  BY <1>1, <1>3, <1>4, <1>5
<1>7. Rounded(n, d) = q
  BY <1>1, <1>2 DEF Rounded
<1>8. QED
  BY <1>5, <1>6, <1>7

\* Shares of a whole in proportion to its parts, each rounded.
Shares(D, b, part, whole, q) ==
    /\ IsFiniteSet(D) /\ b \in [D -> Nat] /\ part \in Nat /\ whole \in Nat \ {0}
    /\ q = [x \in D |-> Rounded(b[x] * part, whole)]

LEMMA RoundedSharesAdd ==
    ASSUME NEW D, NEW b, NEW part, NEW whole, NEW q, Shares(D, b, part, whole, q)
    PROVE  /\ q \in [D -> Nat] /\ Cardinality(D) \in Nat
           /\ 2 * (whole * SumFunction(q)) <= 2 * (part * SumFunction(b)) + whole * Cardinality(D)
           /\ 2 * (part * SumFunction(b)) <= 2 * (whole * SumFunction(q)) + whole * Cardinality(D)
<1> DEFINE bs(T) == [x \in T |-> b[x]]
           qs(T) == [x \in T |-> q[x]]
           Near(s, t, n) == 2 * (whole * s) <= 2 * (part * t) + whole * n /\ 2 * (part * t) <= 2 * (whole * s) + whole * n
           P == {T \in SUBSET D : Near(SumFunction(qs(T)), SumFunction(bs(T)), Cardinality(T))}
<1>0. /\ IsFiniteSet(D) /\ b \in [D -> Nat] /\ part \in Nat /\ whole \in Nat \ {0}
      /\ q = [x \in D |-> Rounded(b[x] * part, whole)]
  BY DEF Shares
<1>1. ASSUME NEW x \in D
      PROVE  /\ q[x] \in Nat /\ b[x] \in Nat
             /\ 2 * (whole * q[x]) <= 2 * (part * b[x]) + whole /\ 2 * (part * b[x]) <= 2 * (whole * q[x]) + whole
  <2>1. PICK n \in Nat : n = b[x] * part /\ n = part * b[x]
    BY <1>0
  <2>2. q[x] = Rounded(n, whole)
    BY <1>0, <2>1
  <2>3. QED
    BY <1>0, <2>1, <2>2, RoundedNear
<1>2. q \in [D -> Nat]
  BY <1>0, <1>1
<1>3. ASSUME NEW T \in SUBSET D
      PROVE  IsFiniteSet(T) /\ Cardinality(T) \in Nat /\ bs(T) \in [T -> Nat] /\ qs(T) \in [T -> Nat]
  <2>1. IsFiniteSet(T) /\ Cardinality(T) \in Nat
    BY <1>0, FS_Subset, FS_CardinalityType
  <2>2. QED
    BY <1>0, <1>1, <2>1
<1>4. ASSUME NEW T \in SUBSET D, \A x \in T : T \ {x} \in P PROVE T \in P
  <2>1. CASE T = {}
    <3>1. IsFiniteSet(T) /\ bs(T) \in [T -> Nat] /\ qs(T) \in [T -> Nat] /\ (\A x \in T : bs(T)[x] = 0) /\ \A x \in T : qs(T)[x] = 0
      BY <1>3, <2>1
    <3>2. PICK f, g : f = bs(T) /\ g = qs(T)
      OBVIOUS
    <3> HIDE DEF bs, qs
    <3>3. SumFunction(f) = 0 /\ SumFunction(g) = 0
      BY ONLY <3>1, <3>2, SumOfZeros
    <3>4. Cardinality(T) = 0
      BY <2>1, FS_EmptySet
    <3>5. Near(0, 0, 0)
      BY <1>0
    <3> HIDE DEF Near
    <3>6. QED
      BY <3>2, <3>3, <3>4, <3>5
  <2>2. CASE T # {}
    <3>1. PICK x \in T : TRUE
      BY <2>2
    <3>2. T \ {x} \in P
      BY <1>4, <3>1
    <3>3. PICK f, g, f1, g1 : f = bs(T) /\ g = qs(T) /\ f1 = bs(T \ {x}) /\ g1 = qs(T \ {x})
      OBVIOUS
    <3>4. /\ f1 = [y \in T \ {x} |-> f[y]] /\ g1 = [y \in T \ {x} |-> g[y]]
          /\ f[x] = b[x] /\ g[x] = q[x]
      BY <3>1, <3>3
    <3>5. /\ IsFiniteSet(T) /\ f \in [T -> Nat] /\ g \in [T -> Nat]
          /\ IsFiniteSet(T \ {x}) /\ f1 \in [T \ {x} -> Nat] /\ g1 \in [T \ {x} -> Nat]
      BY <1>3, <3>3
    <3> HIDE DEF bs, qs
    <3>6. SumFunction(f) = f[x] + SumFunction(f1) /\ SumFunction(g) = g[x] + SumFunction(g1)
      <4>1. \A y \in T : SumFunction(f) = f[y] + SumFunction([z \in T \ {y} |-> f[z]])
        BY ONLY <3>5, SumSplits
      <4>2. \A y \in T : SumFunction(g) = g[y] + SumFunction([z \in T \ {y} |-> g[z]])
        BY ONLY <3>5, SumSplits
      <4>3. QED
        BY <3>1, <3>4, <4>1, <4>2
    <3>7. SumFunction(f1) \in Nat /\ SumFunction(g1) \in Nat
      BY ONLY <3>5, SumSplits
    <3>8. PICK s \in Nat, t \in Nat, n \in Nat :
              s = SumFunction(g1) /\ t = SumFunction(f1) /\ n = Cardinality(T \ {x})
      BY <1>3, <3>7
    <3>9. Cardinality(T) = n + 1
      <4>1. Cardinality(T \ {x}) = Cardinality(T) - 1 /\ Cardinality(T) \in Nat
        BY <1>3, <3>1, <3>5, FS_RemoveElement
      <4>2. QED
        BY <3>8, <4>1
    <3>10. Near(s, t, n)
      BY <3>2, <3>3, <3>8
    <3>11. PICK c \in Nat, a \in Nat : c = q[x] /\ a = b[x]
      BY <1>1
    <3>12. 2 * (whole * c) <= 2 * (part * a) + whole /\ 2 * (part * a) <= 2 * (whole * c) + whole
      BY <1>1, <3>11
    <3>13. Near(c + s, a + t, n + 1)
      <4>1. PICK ws \in Nat, wc \in Nat, pt \in Nat, pa \in Nat, wn \in Nat :
                ws = whole * s /\ wc = whole * c /\ pt = part * t /\ pa = part * a /\ wn = whole * n
        BY <1>0
      <4>2. whole * (c + s) = wc + ws /\ part * (a + t) = pa + pt /\ whole * (n + 1) = wn + whole
        BY <1>0, <4>1
      <4>3. 2 * ws <= 2 * pt + wn /\ 2 * pt <= 2 * ws + wn /\ 2 * wc <= 2 * pa + whole /\ 2 * pa <= 2 * wc + whole
        BY <1>0, <3>10, <3>12, <4>1
      <4>4. 2 * (wc + ws) <= 2 * (pa + pt) + (wn + whole) /\ 2 * (pa + pt) <= 2 * (wc + ws) + (wn + whole)
        BY <1>0, <4>3
      <4>5. QED
        BY <4>2, <4>4
    <3>14. SumFunction(qs(T)) = c + s /\ SumFunction(bs(T)) = a + t
      BY <3>3, <3>4, <3>6, <3>8, <3>11
    <3> HIDE DEF Near
    <3>15. QED
      BY <3>9, <3>13, <3>14
  <2>3. QED
    BY <2>1, <2>2
<1>5. D \in P
  <2>1. PICK PP : PP = P
    OBVIOUS
  <2>2. \A T \in SUBSET D : (\A x \in T : T \ {x} \in PP) => T \in PP
    BY <1>4, <2>1
  <2> HIDE DEF P
  <2>3. D \in PP
    BY ONLY <1>0, <2>2, FiniteInduction
  <2>4. QED
    BY <2>1, <2>3
<1>6. bs(D) = b /\ qs(D) = q
  BY <1>0, <1>2
<1>7. Near(SumFunction(q), SumFunction(b), Cardinality(D))
  <2> HIDE DEF bs, qs, Near
  <2>1. QED
    BY <1>5, <1>6
<1>8. QED
  BY <1>2, <1>3, <1>7

\* The rows of an order's form are those of the newest list that are of its
\* products and of which something is pending, each cut to its share.
OfferedOf(rows, o) == {k \in DOMAIN rows : rows[k].product \in orders[o] /\ Has(Pending, DesignKey(rows[k]))}
ShareOf(row) ==
    ScaledRow(row, Pending[LastOf(Pending, DesignKey(row))], Required[LastOf(Pending, DesignKey(row))])

LEMMA OrderFormRows ==
    ASSUME StockInv, NEW o \in DOMAIN orders, NEW ancestor, ancestor = IF Of(Proforma) # {} THEN Proforma ELSE Quotation,
           Of(ancestor) # {}, DOMAIN Required # {},
           NEW rows, rows = Newest(ancestor)
    PROVE  /\ rows \in Seq(FormRow)
           /\ \E h \in Bijection(OfferedOf(rows, o), DOMAIN OrderForm(o)) :
                 \A k \in OfferedOf(rows, o) : OrderForm(o)[h[k]] = ShareOf(rows[k])
<1>1. rows \in Seq(FormRow)
  BY NewestFits, GoodsAreRows
<1>2. PICK places1 \in SUBSET DOMAIN rows : places1 = {k \in DOMAIN rows : rows[k].product \in orders[o]}
  OBVIOUS
<1>3. PICK kept1 : kept1 = At(rows, places1)
  OBVIOUS
<1>4. PICK rank1 : KeptBy(rows, places1, rank1)
  BY <1>1, KeptRanks
<1>5. kept1 \in Seq(FormRow) /\ DOMAIN kept1 = 1..Len(kept1)
  <2>1. kept1 \in Seq(FormRow)
    BY <1>1, <1>3, KeptRanks
  <2>2. QED
    BY <2>1
<1>6. PICK places2 \in SUBSET DOMAIN kept1 : places2 = {k \in DOMAIN kept1 : Has(Pending, DesignKey(kept1[k]))}
  OBVIOUS
<1>7. PICK kept2 : kept2 = At(kept1, places2)
  OBVIOUS
<1>8. PICK rank2 : KeptBy(kept1, places2, rank2)
  BY <1>5, KeptRanks
<1>9. kept2 \in Seq(FormRow) /\ DOMAIN kept2 = 1..Len(kept2)
  <2>1. kept2 \in Seq(FormRow)
    BY <1>5, <1>7, KeptRanks
  <2>2. QED
    BY <2>1
<1>10. OrderForm(o) = [k \in DOMAIN kept2 |-> ShareOf(kept2[k])]
  <2>1. OrderForm(o) = RemainingDesigns(kept1)
    BY <1>2, <1>3 DEF OrderForm
  <2>2. RemainingDesigns(kept1) = [k \in DOMAIN kept2 |-> ShareOf(kept2[k])]
    BY <1>6, <1>7 DEF RemainingDesigns, ShareOf
  <2>3. QED
    BY <2>1, <2>2
<1>11. /\ rank1 \in Bijection(places1, DOMAIN kept1) /\ \A k \in places1 : kept1[rank1[k]] = rows[k]
  BY <1>3, <1>4, <1>5 DEF KeptBy
<1>12. /\ rank2 \in Bijection(places2, DOMAIN kept2) /\ \A k \in places2 : kept2[rank2[k]] = kept1[k]
  BY <1>7, <1>8, <1>9 DEF KeptBy
<1> DEFINE K == OfferedOf(rows, o)
           h == [k \in K |-> rank2[rank1[k]]]
<1>13. ASSUME NEW k \in K
       PROVE  /\ k \in places1 /\ rank1[k] \in places2 /\ h[k] \in DOMAIN kept2
              /\ kept2[h[k]] = rows[k]
  <2>1. k \in places1 /\ Has(Pending, DesignKey(rows[k]))
    BY <1>2 DEF OfferedOf
  <2>2. rank1[k] \in DOMAIN kept1 /\ kept1[rank1[k]] = rows[k]
    BY <1>11, <2>1 DEF Bijection, Injection, IsInjective
  <2>3. rank1[k] \in places2
    BY <1>6, <2>1, <2>2
  <2>4. h[k] = rank2[rank1[k]]
    OBVIOUS
  <2>5. QED
    BY <1>12, <2>1, <2>2, <2>3, <2>4 DEF Bijection, Injection, IsInjective
<1>14. h \in Injection(K, DOMAIN kept2)
  <2>1. ASSUME NEW j \in K, NEW k \in K, h[j] = h[k] PROVE j = k
    <3>1. rank2[rank1[j]] = rank2[rank1[k]]
      BY <2>1
    <3>2. rank1[j] = rank1[k]
      BY <1>12, <1>13, <3>1 DEF Bijection, Injection, IsInjective
    <3>3. QED
      BY <1>11, <1>13, <3>2 DEF Bijection, Injection, IsInjective
  <2>2. h \in [K -> DOMAIN kept2]
    BY <1>13
  <2> HIDE DEF h
  <2>3. QED
    BY <2>1, <2>2 DEF Injection, IsInjective
<1>15. ASSUME NEW j \in DOMAIN kept2 PROVE \E k \in K : h[k] = j
  <2>1. PICK m \in places2 : rank2[m] = j
    BY <1>12 DEF Bijection, Surjection
  <2>2. PICK k \in places1 : rank1[k] = m
    BY <1>11 DEF Bijection, Surjection
  <2>3. kept1[m] = rows[k] /\ Has(Pending, DesignKey(kept1[m]))
    BY <1>6, <1>11, <2>1, <2>2
  <2>4. k \in K
    BY <1>2, <2>2, <2>3 DEF OfferedOf
  <2>5. h[k] = j
    BY <2>1, <2>2, <2>4
  <2>6. QED
    BY <2>4, <2>5
<1>16. h \in Bijection(K, DOMAIN kept2)
  <2> HIDE DEF h
  <2>1. QED
    BY <1>14, <1>15 DEF Bijection, Injection, Surjection
<1>17. \A k \in K : OrderForm(o)[h[k]] = ShareOf(rows[k])
  <2> HIDE DEF h, K
  <2>1. QED
    BY <1>10, <1>13
<1>18. DOMAIN OrderForm(o) = DOMAIN kept2
  BY <1>10
<1> HIDE DEF h
<1>19. QED
  BY <1>1, <1>16, <1>17, <1>18

\* What a form offers of one design, out of the rows that are of it.
LEMMA OrdersAreOffered ==
    ASSUME StockInv, AskedByOneName,
           NEW ancestor, ancestor = IF Of(Proforma) # {} THEN Proforma ELSE Quotation,
           Cardinality(Of(ancestor)) = 1,
           NEW o \in DOMAIN orders, NEW form, form = OrderForm(o),
           NEW p \in AskedFor, NEW r, r = RowAt(p), r.product \in orders[o],
           NEW key, key = NameKey(r),
           NEW due, due = Required[Group(r)] - Covered(PlacedOnOrders, Group(r)),
           NEW off, off = BoxesNamed(form, key) - (IF due > 0 THEN due ELSE 0),
           NEW n, n = Cardinality(RowsNamed(form, key))
    PROVE  off \in Int /\ n \in Nat /\ 2 * off <= n /\ 0 - 2 * off <= n
<1>1. PICK i \in DOMAIN lists : Of(ancestor) = {i}
  <2>1. Of(ancestor) \in SUBSET DOMAIN lists /\ IsFiniteSet(DOMAIN lists)
    BY FiniteTable DEF Of, StockInv, TablesFit
  <2>2. IsFiniteSet(Of(ancestor))
    BY <2>1, FS_Subset
  <2>3. \E i : Of(ancestor) = {i}
    BY <2>2, FS_Singleton
  <2>4. QED
    BY <2>1, <2>3
<1>2. PICK rows : rows = lists[i].rows
  OBVIOUS
<1>3. Newest(ancestor) = rows
  BY <1>1, <1>2, NewestFits
<1>4. AskedFor = RowsOf({i})
  BY <1>1 DEF AskedFor, Asking
<1>5. /\ \A q \in AskedFor : q[1] = i /\ q[2] \in DOMAIN rows /\ q = <<i, q[2]>> /\ RowAt(q) = rows[q[2]]
      /\ \A k \in DOMAIN rows : <<i, k>> \in AskedFor /\ RowAt(<<i, k>>) = rows[k]
      /\ AskedFor \subseteq RowsOf(DOMAIN lists)
      /\ \A k \in DOMAIN rows : rows[k] \in GoodsRow
  <2>1. {i} \in SUBSET DOMAIN lists
    OBVIOUS
  <2>2. /\ \A q \in RowsOf({i}) : q[1] \in {i} /\ q[2] \in DOMAIN lists[q[1]].rows /\ q = <<q[1], q[2]>>
        /\ \A j \in {i} : \A k \in DOMAIN lists[j].rows : <<j, k>> \in RowsOf({i})
        /\ RowsOf({i}) \subseteq RowsOf(DOMAIN lists)
        /\ \A q \in RowsOf({i}) : RowAt(q) \in GoodsRow
    BY <2>1, RowPlaces
  <2>3. \A k \in DOMAIN rows : <<i, k>> \in AskedFor /\ RowAt(<<i, k>>) = rows[k]
    BY <1>2, <1>4, <2>2 DEF RowAt
  <2>4. \A q \in AskedFor : q[1] = i /\ q[2] \in DOMAIN rows /\ q = <<i, q[2]>> /\ RowAt(q) = rows[q[2]]
    BY <1>2, <1>4, <2>2 DEF RowAt
  <2>5. QED
    BY <1>4, <2>2, <2>3, <2>4
<1>6. PICK g : g = Group(r)
  OBVIOUS
<1>7. PICK R \in Nat, C \in Nat :
          /\ R = Required[g] /\ C = Covered(PlacedOnOrders, g) /\ g \in DOMAIN Required
          /\ R = Named(AskedFor, key) /\ due = R - C
  BY <1>6, LacksAreCompared
<1> DEFINE K == OfferedOf(rows, o)
           F == RowsNamed(form, key)
           M == {k \in DOMAIN rows : NameKey(rows[k]) = key}
<1>8. PICK h \in Bijection(K, DOMAIN form) : \A k \in K : form[h[k]] = ShareOf(rows[k])
  <2>1. Of(ancestor) # {} /\ DOMAIN Required # {}
    BY <1>1, <1>7
  <2>2. QED
    BY <1>3, <2>1, OrderFormRows
<1>9. ASSUME NEW k \in M
      PROVE  /\ DesignKey(rows[k]) = DesignKey(g) /\ rows[k] \in FormRow
             /\ \A c : c = DesignKey(rows[k]) => (Has(Pending, c) <=> g \in DOMAIN Pending)
             /\ Has(Pending, DesignKey(rows[k])) => LastOf(Pending, DesignKey(rows[k])) = g
  <2>1. PICK q \in RowsOf(DOMAIN lists) : q = <<i, k>> /\ RowAt(q) = rows[k] /\ q \in AskedFor
    BY <1>5
  <2>3. Group(RowAt(q)) = g /\ DesignKey(rows[k]) = DesignKey(g)
    <3>1. Group(RowAt(q)) = g
      BY <1>6, <2>1, AskedAreNamed
    <3>2. QED
      BY <2>1, <3>1, KeysOfGroups
  <2>4. ASSUME NEW e \in DOMAIN Pending, DesignKey(e) = DesignKey(g) PROVE e = g
    <3>1. e \in DOMAIN Required
      BY PendingFits
    <3>2. DOMAIN Required = {Group(RowAt(x)) : x \in AskedFor}
      BY SidesAreLists, TotalsFit DEF Required, AskedFor, Asking
    <3>3. PICK x \in AskedFor : e = Group(RowAt(x))
      BY <3>1, <3>2
    <3>4. QED
      BY <1>6, <2>4, <3>3, AskedAreNamed
  <2>5. PICK pending : pending = Pending
    OBVIOUS
  <2>6. IsFiniteSet(DOMAIN pending) /\ DOMAIN pending \subseteq Groups
    BY <2>5, PendingFits
  <2>7. Has(pending, DesignKey(g)) <=> g \in DOMAIN pending
    BY <2>4, <2>5 DEF Has
  <2>8. Has(pending, DesignKey(g)) => LastOf(pending, DesignKey(g)) = g
    BY <2>4, <2>5, <2>6, LastOfFits
  <2>9. rows[k] \in FormRow
    BY <1>5 DEF GoodsRow, FormRow
  <2>10. QED
    BY <2>3, <2>5, <2>7, <2>8, <2>9
<1>10. ASSUME NEW k \in K
       PROVE  /\ k \in DOMAIN rows /\ rows[k].product \in orders[o] /\ Has(Pending, DesignKey(rows[k]))
              /\ h[k] \in DOMAIN form
              /\ NameKey(form[h[k]]) = NameKey(rows[k])
              /\ h[k] \in F <=> k \in M
  <2>1. k \in DOMAIN rows /\ rows[k].product \in orders[o] /\ Has(Pending, DesignKey(rows[k]))
    BY DEF OfferedOf
  <2>2. rows[k] \in FormRow
    BY <1>5, <2>1 DEF GoodsRow, FormRow
  <2>3. PICK a, b : a = Pending[LastOf(Pending, DesignKey(rows[k]))] /\ b = Required[LastOf(Pending, DesignKey(rows[k]))]
    OBVIOUS
  <2>4. a \in Nat /\ b \in Nat \ {0}
    BY <2>1, <2>3, PendingOf
  <2>5. form[h[k]] = ScaledRow(rows[k], a, b)
    BY <1>8, <2>3 DEF ShareOf
  <2>6. NameKey(form[h[k]]) = NameKey(rows[k])
    <3>1. PICK row \in FormRow : row = rows[k]
      BY <2>2
    <3>2. ScaledRow(row, a, b).product = row.product /\ ScaledRow(row, a, b).name = row.name
      BY <2>4, ScaledRowFits
    <3>3. QED
      BY <2>5, <3>1, <3>2 DEF NameKey
  <2>7. h[k] \in DOMAIN form
    BY <1>8 DEF Bijection, Injection
  <2>8. QED
    BY <2>1, <2>6, <2>7 DEF RowsNamed
<1>11. \A j \in F : \E k \in K : h[k] = j
  BY <1>8 DEF Bijection, Surjection, RowsNamed
<1>12. CASE g \notin DOMAIN Pending
  <2>1. F = {}
    <3>1. ASSUME NEW j \in F PROVE FALSE
      <4>1. PICK k \in K : h[k] = j
        BY <1>11
      <4>2. k \in M /\ Has(Pending, DesignKey(rows[k]))
        BY <1>10, <4>1
      <4>3. QED
        BY <1>9, <1>12, <4>2
    <3> HIDE DEF F
    <3>2. QED
      BY <3>1
  <2>2. ~(due > 0)
    <3>1. ~(R > C)
      BY <1>7, <1>12, PendingFits
    <3>2. QED
      BY <1>7, <3>1
  <2>3. PICK f : f = [k \in F |-> form[k].boxes]
    OBVIOUS
  <2>4. BoxesNamed(form, key) = SumFunction(f)
    BY <2>3 DEF BoxesNamed
  <2> HIDE DEF F
  <2>5. IsFiniteSet(F) /\ f \in [F -> Nat] /\ \A k \in F : f[k] = 0
    BY <2>1, <2>3, FS_EmptySet
  <2>6. SumFunction(f) = 0
    BY ONLY <2>5, SumOfZeros
  <2>7. n = 0
    BY <2>1, FS_EmptySet DEF F
  <2>8. off = 0
    BY <2>2, <2>4, <2>6
  <2>9. QED
    BY <2>7, <2>8
<1>13. CASE g \in DOMAIN Pending
  <2>1. PICK rest \in Nat \ {0} : rest = Pending[g] /\ rest = R - C /\ R \in Nat \ {0}
    BY <1>7, <1>13, PendingFits
  <2>2. M \subseteq K
    <3>1. ASSUME NEW k \in M PROVE k \in OfferedOf(rows, o)
      <4>1. Has(Pending, DesignKey(rows[k]))
        BY <1>9, <1>13
      <4>2. k \in DOMAIN rows /\ NameKey(rows[k]) = NameKey(r)
        OBVIOUS
      <4>3. rows[k].product = r.product
        BY <4>2 DEF NameKey
      <4>4. QED
        BY <4>1, <4>2, <4>3 DEF OfferedOf
    <3> HIDE DEF M
    <3>2. QED
      BY <3>1
  <2> DEFINE b == [k \in M |-> rows[k].boxes]
             q == [k \in M |-> Rounded(b[k] * rest, R)]
             f == [k \in F |-> form[k].boxes]
             m == [k \in M |-> h[k]]
             like == {x \in AskedFor : NameKey(RowAt(x)) = key}
             at == [k \in M |-> <<i, k>>]
             boxes == [x \in like |-> RowAt(x).boxes]
  <2>3. IsFiniteSet(M) /\ b \in [M -> Nat]
    <3>1. rows \in Seq(FormRow)
      BY <1>1, <1>3, NewestFits, GoodsAreRows
    <3>2. IsFiniteSet(DOMAIN rows)
      BY <3>1, FS_Interval, ListPlaces
    <3>3. IsFiniteSet(M)
      BY <3>2, FS_Subset
    <3>4. b \in [M -> Nat]
      BY <1>5 DEF GoodsRow
    <3>5. QED
      BY <3>3, <3>4
  <2>4. SumFunction(b) = R
    <3>1. at \in Bijection(M, like)
      <4>1. \A k \in M : <<i, k>> \in like
        BY <1>5
      <4>2. \A x \in like : x[2] \in M /\ x = <<i, x[2]>>
        BY <1>5
      <4>3. at \in [M -> like] /\ (\A j, k \in M : at[j] = at[k] => j = k) /\ \A x \in like : \E k \in M : at[k] = x
        BY <4>1, <4>2
      <4> HIDE DEF at, M, like
      <4>4. QED
        BY <4>3 DEF Bijection, Injection, Surjection, IsInjective
    <3>2. boxes \in [like -> Nat]
      BY <1>5, BoxesAdd
    <3>3. \A k \in M : b[k] = boxes[at[k]]
      BY <1>5
    <3>4. R = SumFunction(boxes)
      BY <1>7 DEF Named, SumBoxes
    <3> HIDE DEF at, boxes, b, M, like
    <3>5. Renames(at, M, like, b, boxes)
      BY <2>3, <3>1, <3>2, <3>3 DEF Renames
    <3>6. SumFunction(b) = SumFunction(boxes)
      BY <3>5, SumsRenamed
    <3>7. QED
      BY <3>4, <3>6
  <2>5. m \in Bijection(M, F)
    <3>1. ASSUME NEW k \in M PROVE m[k] \in F
      BY <1>10, <2>2
    <3>2. ASSUME NEW j \in M, NEW k \in M, m[j] = m[k] PROVE j = k
      BY <1>8, <2>2, <3>2 DEF Bijection, Injection, IsInjective
    <3>3. ASSUME NEW j \in F PROVE \E k \in M : m[k] = j
      BY <1>10, <1>11
    <3>4. m \in [M -> F]
      BY <3>1
    <3> HIDE DEF m, M, F
    <3>5. QED
      BY <3>2, <3>3, <3>4 DEF Bijection, Injection, Surjection, IsInjective
  <2>6. ASSUME NEW k \in M PROVE form[h[k]].boxes = Rounded(b[k] * rest, R)
    <3>1. k \in K /\ LastOf(Pending, DesignKey(rows[k])) = g /\ rows[k] \in FormRow
      BY <1>9, <1>10, <2>2
    <3>2. form[h[k]] = ScaledRow(rows[k], rest, R)
      BY <1>7, <1>8, <2>1, <3>1 DEF ShareOf
    <3>3. PICK row \in FormRow : row = rows[k]
      BY <3>1
    <3>4. ScaledRow(row, rest, R).boxes = Rounded(row.boxes * rest, R)
      BY <2>1, ScaledRowFits
    <3>5. b[k] = row.boxes
      BY <3>3
    <3> HIDE DEF b
    <3>6. QED
      BY <3>2, <3>3, <3>4, <3>5
  <2>7. /\ q \in [M -> Nat] /\ Cardinality(M) \in Nat
        /\ 2 * (R * SumFunction(q)) <= 2 * (rest * SumFunction(b)) + R * Cardinality(M)
        /\ 2 * (rest * SumFunction(b)) <= 2 * (R * SumFunction(q)) + R * Cardinality(M)
    <3>1. PICK qq : qq = q
      OBVIOUS
    <3> HIDE DEF b, M
    <3>2. Shares(M, b, rest, R, qq)
      BY <2>1, <2>3, <3>1 DEF Shares
    <3> HIDE DEF q
    <3>3. /\ qq \in [M -> Nat] /\ Cardinality(M) \in Nat
          /\ 2 * (R * SumFunction(qq)) <= 2 * (rest * SumFunction(b)) + R * Cardinality(M)
          /\ 2 * (rest * SumFunction(b)) <= 2 * (R * SumFunction(qq)) + R * Cardinality(M)
      BY <3>2, RoundedSharesAdd
    <3>4. QED
      BY <3>1, <3>3
  <2>8. f \in [F -> Nat] /\ SumFunction(f) = SumFunction(q) /\ SumFunction(q) \in Nat
    <3>1. \A k \in M : q[k] = f[m[k]]
      <4>1. \A k \in M : m[k] \in F /\ m[k] = h[k]
        BY <1>10, <2>2
      <4>2. QED
        BY <2>6, <4>1
    <3>2. f \in [F -> Nat]
      <4>1. ASSUME NEW j \in F PROVE f[j] \in Nat
        <5>1. PICK k \in M : m[k] = j
          BY <2>5 DEF Bijection, Surjection
        <5>2. QED
          BY <2>7, <3>1, <5>1
      <4>2. QED
        BY <4>1
    <3> HIDE DEF f, q, m, M, F
    <3>3. Renames(m, M, F, q, f)
      BY <2>3, <2>5, <2>7, <3>1, <3>2 DEF Renames
    <3>4. SumFunction(q) = SumFunction(f)
      BY <3>3, SumsRenamed
    <3>5. SumFunction(q) \in Nat
      BY <2>3, <2>7, SumSplits
    <3>6. QED
      BY <3>2, <3>4, <3>5
  <2>9. n = Cardinality(M)
    <3>1. n = Cardinality(F)
      OBVIOUS
    <3> HIDE DEF M, F
    <3>2. ExistsBijection(M, F)
      BY <2>5 DEF ExistsBijection
    <3>3. QED
      BY <2>3, <3>1, <3>2, FS_Bijection
  <2>10. PICK s \in Nat, c \in Nat : s = SumFunction(q) /\ c = n
    BY <2>7, <2>8, <2>9
  <2>11. off = s - rest
    <3>1. BoxesNamed(form, key) = SumFunction(f)
      BY DEF BoxesNamed
    <3>2. due > 0 /\ due = rest
      BY <1>7, <2>1
    <3> HIDE DEF f, q
    <3>3. QED
      BY <2>8, <2>10, <3>1, <3>2
  <2>12. R * (2 * s) <= R * (2 * rest + c) /\ R * (2 * rest) <= R * (2 * s + c)
    <3>1. 2 * (R * s) <= 2 * (rest * R) + R * c /\ 2 * (rest * R) <= 2 * (R * s) + R * c
      BY <2>4, <2>7, <2>9, <2>10
    <3>2. PICK Rs \in Nat, Rr \in Nat, Rc \in Nat : Rs = R * s /\ Rr = rest * R /\ Rc = R * c
      OBVIOUS
    <3>3. R * (2 * s) = 2 * Rs /\ R * (2 * rest + c) = 2 * Rr + Rc /\ R * (2 * rest) = 2 * Rr /\ R * (2 * s + c) = 2 * Rs + Rc
      BY <3>2
    <3>4. QED
      BY <3>1, <3>2, <3>3
  <2>13. 2 * s <= 2 * rest + c /\ 2 * rest <= 2 * s + c
    <3>1. \A x, y \in Nat : R * x <= R * y => x <= y
      BY <2>1
    <3>2. PICK x1 \in Nat, y1 \in Nat, x2 \in Nat, y2 \in Nat :
              x1 = 2 * s /\ y1 = 2 * rest + c /\ x2 = 2 * rest /\ y2 = 2 * s + c
      OBVIOUS
    <3>3. R * x1 <= R * y1 /\ R * x2 <= R * y2
      BY <2>12, <3>2
    <3>4. x1 <= y1 /\ x2 <= y2
      BY <3>1, <3>3
    <3>5. QED
      BY <3>2, <3>4
  <2>14. QED
    BY <2>10, <2>11, <2>13
<1>14. QED
  BY <1>12, <1>13

LEMMA BoxesNamedFits ==
    ASSUME NEW form \in Seq(FormRow), NEW key
    PROVE  BoxesNamed(form, key) \in Nat
<1> DEFINE A == RowsNamed(form, key)
           f == [k \in A |-> form[k].boxes]
<1>1. DOMAIN form = 1..Len(form) /\ Len(form) \in Nat /\ \A k \in DOMAIN form : form[k] \in FormRow
  BY ListPlaces
<1>2. IsFiniteSet(DOMAIN form)
  BY <1>1, FS_Interval
<1>3. IsFiniteSet(A) /\ A \subseteq DOMAIN form
  BY <1>2, FS_Subset DEF RowsNamed
<1>4. f \in [A -> Nat]
  BY <1>1, <1>3 DEF FormRow
<1>5. BoxesNamed(form, key) = SumFunction(f)
  BY DEF BoxesNamed
<1> HIDE DEF f, A
<1>6. QED
  BY <1>3, <1>4, <1>5, SumSplits

LEMMA OrderFormsOffer == StockInv => OrdersAreOfferedTheRest
<1> SUFFICES ASSUME StockInv PROVE OrdersAreOfferedTheRest
  OBVIOUS
<1>1. SUFFICES ASSUME AskedByOneName, Cardinality(Asking) = 1,
                      NEW asked, asked = AskedFor, NEW ordered, ordered = OnOrder,
                      NEW o \in DOMAIN orders, NEW form, form = OrderForm(o),
                      NEW p \in asked, RowAt(p).product \in orders[o],
                      NEW key, key = NameKey(RowAt(p)),
                      NEW lacks, lacks = Lacks(asked, ordered, key),
                      NEW off, off = BoxesNamed(form, key) - (IF lacks > 0 THEN lacks ELSE 0),
                      NEW n, n = Cardinality(RowsNamed(form, key))
               PROVE  0 - 2 * off <= n /\ (PlacedByOneName => 2 * off <= n)
  BY DEF OrdersAreOfferedTheRest
<1>2. PICK ancestor : ancestor = IF Of(Proforma) # {} THEN Proforma ELSE Quotation
  OBVIOUS
<1>3. Cardinality(Of(ancestor)) = 1
  BY <1>1, <1>2 DEF Asking
<1>4. PICK g, r : r = RowAt(p) /\ g = Group(r)
  OBVIOUS
<1>5. PICK due, from : due = Required[g] - Covered(PlacedOnOrders, g)
                       /\ from = BoxesNamed(form, key) - (IF due > 0 THEN due ELSE 0)
  OBVIOUS
<1>6. due \in Int /\ lacks \in Int /\ lacks <= due /\ (PlacedByOneName => lacks = due)
  <2>1. /\ Required[g] \in Nat /\ Covered(PlacedOnOrders, g) \in Nat /\ lacks \in Int
        /\ lacks <= Required[g] - Covered(PlacedOnOrders, g)
        /\ PlacedByOneName => lacks = Required[g] - Covered(PlacedOnOrders, g)
    BY <1>1, <1>4, LacksAreCompared
  <2>2. QED
    BY <1>5, <2>1
<1>7. from \in Int /\ n \in Nat /\ 2 * from <= n /\ 0 - 2 * from <= n
  BY <1>1, <1>2, <1>3, <1>4, <1>5, OrdersAreOffered
<1>8. BoxesNamed(form, key) \in Int
  <2>1. form \in Seq(FormRow)
    BY <1>1, OrderFormFits
  <2>2. QED
    BY <2>1, BoxesNamedFits
<1>9. PICK B \in Int : B = BoxesNamed(form, key)
  BY <1>8
<1>10. QED
  BY <1>1, <1>5, <1>6, <1>7, <1>9

-----------------------------------------------------------------------------
(* A job in's form offers what the job works took.                         *)

\* The boxes of a row if it is of this design, and nothing otherwise.
BoxesIf(key) == [r \in FormRow |-> IF MadeKey(r) = key THEN r.boxes ELSE 0]

LEMMA BoxesIfFits ==
    ASSUME NEW key
    PROVE  BoxesIf(key) \in [FormRow -> Nat]
BY DEF BoxesIf, FormRow

LEMMA NamedIsTally ==
    ASSUME NEW form \in Seq(FormRow), NEW key
    PROVE  BoxesMade(form, key) = Tally(BoxesIf(key), form)
<1> DEFINE D == 1..Len(form)
           A == RowsMade(form, key)
           f == [k \in A |-> form[k].boxes]
           g == [k \in D |-> BoxesIf(key)[form[k]]]
<1>1. DOMAIN form = D /\ Len(form) \in Nat /\ \A k \in D : form[k] \in FormRow
  BY ListPlaces
<1>2. IsFiniteSet(D) /\ A \in SUBSET D
  BY <1>1, FS_Interval DEF RowsMade
<1>3. f \in [A -> Nat]
  <2>1. \A k \in A : form[k].boxes \in Nat
    BY <1>1, <1>2 DEF FormRow
  <2>2. QED
    BY <2>1
<1>4. g \in [D -> Nat]
  BY <1>1, BoxesIfFits
<1>5. \A k \in D : g[k] = IF k \in A THEN form[k].boxes ELSE 0
  BY <1>1 DEF RowsMade, BoxesIf
<1>6. BoxesMade(form, key) = SumFunction(f) /\ Tally(BoxesIf(key), form) = SumFunction(g)
  BY DEF BoxesMade, Tally
<1>7. (\A k \in A : g[k] = f[k]) /\ \A k \in D \ A : g[k] = 0
  BY <1>2, <1>5
<1> HIDE DEF f, g, A, D
<1>8. Pads(D, A, f, g)
  BY <1>2, <1>3, <1>4, <1>7 DEF Pads
<1>9. SumFunction(g) = SumFunction(f)
  BY <1>8, SumPadded
<1>10. QED
  BY <1>6, <1>9

\* What these lines of job works take to make one design of one product.
TakenFor(lines, places, key) == {h \in places : MadeKey(lines[h]) = key}
BoxesTaken(lines, places, key) == [k \in TakenFor(lines, places, key) |-> lines[k].source]
TakenAt(lines, places, key) == SumFunction(BoxesTaken(lines, places, key))

LEMMA TakenFits ==
    ASSUME NEW lines \in Seq(JobLine), NEW places \in SUBSET DOMAIN lines, NEW key
    PROVE  /\ TakenAt(lines, places, key) \in Nat
           /\ IsFiniteSet(TakenFor(lines, places, key))
           /\ BoxesTaken(lines, places, key) \in [TakenFor(lines, places, key) -> Nat]
           /\ TakenFor(lines, places, key) = {} => TakenAt(lines, places, key) = 0
<1> DEFINE S == {h \in places : MadeKey(lines[h]) = key}
           f == [k \in S |-> lines[k].source]
<1>1. DOMAIN lines = 1..Len(lines) /\ Len(lines) \in Nat /\ \A k \in DOMAIN lines : lines[k] \in JobLine
  BY ListPlaces
<1>2. IsFiniteSet(S)
  <2>1. IsFiniteSet(DOMAIN lines)
    BY <1>1, FS_Interval
  <2>2. S \subseteq DOMAIN lines
    OBVIOUS
  <2>3. QED
    BY <2>1, <2>2, FS_Subset
<1>3. f \in [S -> Nat]
  BY <1>1 DEF JobLine
<1>4. /\ TakenAt(lines, places, key) = SumFunction(f)
      /\ TakenFor(lines, places, key) = S /\ BoxesTaken(lines, places, key) = f
  BY DEF TakenAt, TakenFor, BoxesTaken
<1>5. SumFunction(f) \in Nat
  <2> HIDE DEF f, S
  <2>1. QED
    BY <1>2, <1>3, SumSplits
<1>6. ASSUME S = {} PROVE SumFunction(f) = 0
  <2>1. \A k \in S : f[k] = 0
    BY <1>6
  <2> HIDE DEF f, S
  <2>2. QED
    BY ONLY <1>2, <1>3, <2>1, SumOfZeros
<1> HIDE DEF f, S
<1>7. QED
  BY <1>2, <1>3, <1>4, <1>5, <1>6

\* One row per design says how much was taken for it.
LEMMA OutputsTally ==
    ASSUME NEW lines \in Seq(JobLine), lines # <<>>, \A k \in DOMAIN lines : lines[k].title = lines[1].title, NEW key
    PROVE  Tally(BoxesIf(key), OutputDesigns(lines)) = TakenAt(lines, DOMAIN lines, key)
<1> DEFINE S == {h \in DOMAIN lines : MadeKey(lines[h]) = key}
<1>1. PICK found : found = SetToSeq(Outputs(lines))
  OBVIOUS
<1>2. /\ IsFiniteSet(Outputs(lines)) /\ \A m : MadeOf(lines, m) \in Nat
      /\ OutputDesigns(lines) \in Seq(FormRow)
      /\ OutputDesigns(lines) = [k \in DOMAIN found |-> Output(lines, found[k])]
      /\ \A m \in Outputs(lines) : Plain(lines[FirstOf(lines, m)].name) = m
  BY <1>1, OutputsFit
<1>3. /\ DOMAIN found = 1..Len(found) /\ Len(found) \in Nat
      /\ \A i, j \in DOMAIN found : found[i] = found[j] => i = j
      /\ \A m \in Outputs(lines) : \E i \in DOMAIN found : found[i] = m
      /\ \A i \in DOMAIN found : found[i] \in Outputs(lines)
  <2>1. found \in Seq(Outputs(lines)) /\ DOMAIN found = 1..Cardinality(Outputs(lines))
        /\ Cardinality(Outputs(lines)) \in Nat /\ Len(found) = Cardinality(Outputs(lines))
    BY <1>1, <1>2, SetInOrder
  <2>2. /\ \A i, j \in 1..Cardinality(Outputs(lines)) : found[i] = found[j] => i = j
        /\ \A m \in Outputs(lines) : \E i \in 1..Cardinality(Outputs(lines)) : found[i] = m
    BY <1>1, <1>2, SetInOrder
  <2>3. \A i \in DOMAIN found : found[i] \in Outputs(lines)
    BY <2>1, ListPlaces
  <2>4. QED
    BY <2>1, <2>2, <2>3
<1>4. PICK out \in Seq(FormRow) : out = OutputDesigns(lines)
  BY <1>2
<1>5. DOMAIN out = DOMAIN found /\ Len(out) = Len(found) /\ \A k \in DOMAIN out : out[k] \in FormRow
  <2>1. DOMAIN out = DOMAIN found
    BY <1>2, <1>4
  <2>2. DOMAIN out = 1..Len(out) /\ Len(out) \in Nat /\ \A k \in DOMAIN out : out[k] \in FormRow
    BY ListPlaces
  <2>3. QED
    BY <1>3, <2>1, <2>2
<1> DEFINE f == [k \in 1..Len(out) |-> BoxesIf(key)[out[k]]]
<1>6. Tally(BoxesIf(key), out) = SumFunction(f)
  BY DEF Tally
<1>7. IsFiniteSet(1..Len(out)) /\ f \in [1..Len(out) -> Nat]
  <2>1. IsFiniteSet(1..Len(out))
    BY <1>3, <1>5, FS_Interval
  <2>2. QED
    BY <1>3, <1>5, <2>1, BoxesIfFits
<1>8. ASSUME NEW k \in 1..Len(out)
      PROVE  f[k] = IF <<lines[1].title, found[k]>> = key THEN MadeOf(lines, found[k]) ELSE 0
  <2>1. k \in DOMAIN found /\ out[k] \in FormRow /\ found[k] \in Outputs(lines)
    BY <1>3, <1>5
  <2>2. out[k] = Output(lines, found[k])
    BY <1>2, <1>4, <2>1
  <2>3. /\ out[k].title = lines[1].title /\ out[k].boxes = MadeOf(lines, found[k])
        /\ out[k].name = lines[FirstOf(lines, found[k])].name
    BY <2>2 DEF Row, Output
  <2>4. MadeKey(out[k]) = <<lines[1].title, found[k]>>
    BY <1>2, <2>1, <2>3 DEF MadeKey
  <2>5. f[k] = IF MadeKey(out[k]) = key THEN out[k].boxes ELSE 0
    BY <2>1 DEF BoxesIf
  <2> HIDE DEF f
  <2>6. QED
    BY <2>3, <2>4, <2>5
<1>9. \A h \in DOMAIN lines : MadeKey(lines[h]) = <<lines[1].title, Plain(lines[h].name)>>
  BY DEF MadeKey
<1>10. CASE \E m \in Outputs(lines) : key = <<lines[1].title, m>>
  <2>1. PICK k \in 1..Len(out) : key = <<lines[1].title, found[k]>>
    BY <1>3, <1>5, <1>10
  <2>2. f[k] = MadeOf(lines, found[k]) /\ \A j \in (1..Len(out)) \ {k} : f[j] = 0
    <3>1. \A j \in (1..Len(out)) \ {k} : <<lines[1].title, found[j]>> # key
      BY <1>3, <1>5, <2>1
    <3> HIDE DEF f
    <3>2. QED
      BY <1>8, <2>1, <3>1
  <2>3. SumFunction(f) = f[k]
    <3> HIDE DEF f
    <3>1. QED
      BY ONLY <1>7, <2>1, <2>2, SumOfOne
  <2>4. MadeOf(lines, found[k]) = TakenAt(lines, DOMAIN lines, key)
    <3>1. {h \in DOMAIN lines : Plain(lines[h].name) = found[k]} = S
      BY <1>9, <2>1
    <3>2. QED
      BY <3>1 DEF MadeOf, TakenAt, TakenFor, BoxesTaken
  <2> HIDE DEF f
  <2>5. QED
    BY <1>4, <1>6, <2>2, <2>3, <2>4
<1>11. CASE ~\E m \in Outputs(lines) : key = <<lines[1].title, m>>
  <2>1. S = {}
    BY <1>9, <1>11 DEF Outputs
  <2>2. TakenAt(lines, DOMAIN lines, key) = 0
    <3>1. PICK D \in SUBSET DOMAIN lines : D = DOMAIN lines
      OBVIOUS
    <3>2. QED
      BY <2>1, <3>1, TakenFits DEF TakenFor
  <2>3. \A k \in 1..Len(out) : f[k] = 0
    <3>1. \A k \in 1..Len(out) : <<lines[1].title, found[k]>> # key
      BY <1>3, <1>5, <1>11
    <3> HIDE DEF f
    <3>2. QED
      BY <1>8, <3>1
  <2>4. SumFunction(f) = 0
    <3> HIDE DEF f
    <3>1. QED
      BY ONLY <1>7, <2>3, SumOfZeros
  <2> HIDE DEF f
  <2>5. QED
    BY <1>4, <1>6, <2>2, <2>4
<1>12. QED
  BY <1>10, <1>11

LEMMA KeptAreTaken ==
    ASSUME NEW lines \in Seq(JobLine), NEW places \in SUBSET DOMAIN lines, NEW kept, kept = At(lines, places),
           NEW key
    PROVE  TakenAt(kept, DOMAIN kept, key) = TakenAt(lines, places, key)
<1>1. kept \in Seq(JobLine) /\ DOMAIN kept = 1..Len(kept)
  <2>1. kept \in Seq(JobLine)
    BY KeptRanks
  <2>2. QED
    BY <2>1, ListPlaces
<1>2. PICK rank : KeptBy(lines, places, rank)
  BY KeptRanks
<1>3. rank \in Bijection(places, DOMAIN kept) /\ \A k \in places : kept[rank[k]] = lines[k]
  BY <1>1, <1>2 DEF KeptBy
<1> DEFINE S == {h \in places : MadeKey(lines[h]) = key}
           T == {h \in DOMAIN kept : MadeKey(kept[h]) = key}
           m == [k \in S |-> rank[k]]
           f == [k \in S |-> lines[k].source]
           g == [k \in T |-> kept[k].source]
<1>4. ASSUME NEW k \in S PROVE m[k] \in T /\ f[k] = g[m[k]]
  <2>1. rank[k] \in DOMAIN kept /\ kept[rank[k]] = lines[k] /\ m[k] = rank[k]
    BY <1>3 DEF Bijection, Injection
  <2>2. QED
    BY <2>1
<1>5. ASSUME NEW j \in S, NEW k \in S, m[j] = m[k] PROVE j = k
  BY <1>3, <1>5 DEF Bijection, Injection, IsInjective
<1>6. ASSUME NEW j \in T PROVE \E k \in S : m[k] = j
  <2>1. PICK k \in places : rank[k] = j
    BY <1>3 DEF Bijection, Surjection
  <2>2. k \in S
    BY <1>3, <2>1
  <2>3. QED
    BY <2>1, <2>2
<1>7. m \in [S -> T]
  BY <1>4
<1>8. IsFiniteSet(S) /\ f \in [S -> Nat]
  <2>1. S = TakenFor(lines, places, key) /\ f = BoxesTaken(lines, places, key)
    BY DEF TakenFor, BoxesTaken
  <2> HIDE DEF S, f
  <2>2. QED
    BY <2>1, TakenFits
<1>9. g \in [T -> Nat]
  <2>1. PICK D \in SUBSET DOMAIN kept : D = DOMAIN kept
    OBVIOUS
  <2>2. T = TakenFor(kept, D, key) /\ g = BoxesTaken(kept, D, key)
    BY <2>1 DEF TakenFor, BoxesTaken
  <2> HIDE DEF T, g
  <2>3. QED
    BY <1>1, <2>2, TakenFits
<1>10. TakenAt(kept, DOMAIN kept, key) = SumFunction(g) /\ TakenAt(lines, places, key) = SumFunction(f)
  BY DEF TakenAt, TakenFor, BoxesTaken
<1> HIDE DEF m, f, g, S, T
<1>11. m \in Bijection(S, T)
  BY <1>5, <1>6, <1>7 DEF Bijection, Injection, Surjection, IsInjective
<1>12. Renames(m, S, T, f, g)
  BY <1>4, <1>8, <1>9, <1>11 DEF Renames
<1>13. SumFunction(f) = SumFunction(g)
  BY <1>12, SumsRenamed
<1>14. QED
  BY <1>10, <1>13

\* The lines of those that took goods the invoice bought.
SentTo(v) ==
    {k \in DOMAIN WorkLines(v) :
        WorkLines(v)[k].from \in {invoices[v].lines[j].product : j \in DOMAIN invoices[v].lines}}

LEMMA JobInsAreOffered ==
    ASSUME StockInv, NEW x \in DOMAIN outs, NEW v, v = outs[x], Once(v),
           NEW goods, goods = invoices[v].lines,
           NEW lines, lines = WorkLines(v),
           NEW sent, sent = SentTo(v),
           NEW key
    PROVE  TakenAt(lines, sent, key) = BoxesMade(JobInForm(x), key)
<1>1. v \in DOMAIN invoices
  BY DEF StockInv, OutsFit
<1>2. sent = {k \in DOMAIN lines : lines[k].from \in {goods[j].product : j \in DOMAIN goods}}
  BY DEF SentTo
<1>3. /\ lines \in Seq(JobLine)
      /\ \A q : Jobbed(v, q) = At(lines, LinesFrom(lines, q)) /\ Jobbed(v, q) \in Seq(JobLine)
  BY <1>1, JobbedFits
<1>4. PICK parts : parts = [k \in DOMAIN goods |-> MadeOut(v, goods[k].product)]
  OBVIOUS
<1>5. /\ goods \in Seq(InvoiceLine) /\ parts \in Seq(Seq(FormRow)) /\ Len(parts) = Len(goods)
      /\ JobInForm(x) = FlattenSeq(parts) /\ JobInForm(x) \in Seq(FormRow)
  <2>1. goods = invoices[outs[x]].lines /\ parts = [k \in DOMAIN goods |-> MadeOut(outs[x], goods[k].product)]
    BY <1>4
  <2>2. QED
    BY <2>1, JobInFormFits
<1>6. DOMAIN goods = 1..Len(goods) /\ Len(goods) \in Nat
  BY <1>5, ListPlaces
<1> DEFINE val == BoxesIf(key)
           D == 1..Len(goods)
           from(q) == LinesFrom(lines, q)
           S == {h \in sent : MadeKey(lines[h]) = key}
           f == [k \in S |-> lines[k].source]
           sort == [k \in S |-> CHOOSE j \in D : goods[j].product = lines[k].from]
           t == [j \in D |-> Tally(val, parts[j])]
<1>7. BoxesMade(JobInForm(x), key) = SumFunction(t)
  <2>1. BoxesMade(JobInForm(x), key) = Tally(val, FlattenSeq(parts))
    BY <1>5, NamedIsTally
  <2>2. val \in [FormRow -> Nat]
    BY BoxesIfFits
  <2> HIDE DEF val
  <2>3. Tally(val, FlattenSeq(parts)) = SumFunction([j \in 1..Len(parts) |-> Tally(val, parts[j])])
    BY <1>5, <2>2, TotalOfFlat
  <2>4. QED
    BY <1>5, <2>1, <2>3
<1>8. ASSUME NEW j \in D
      PROVE  t[j] = TakenAt(lines, from(goods[j].product), key)
  <2>1. PICK q : q = goods[j].product
    OBVIOUS
  <2>2. PICK places \in SUBSET DOMAIN lines : places = from(q)
    BY DEF LinesFrom
  <2>3. PICK jobbed \in Seq(JobLine) : jobbed = Jobbed(v, q) /\ jobbed = At(lines, places)
    BY <1>3, <2>2
  <2>4. parts[j] = IF jobbed = <<>> THEN <<>> ELSE OutputDesigns(jobbed)
    BY <1>4, <1>6, <2>1, <2>3 DEF MadeOut
  <2>5. Tally(val, parts[j]) = TakenAt(jobbed, DOMAIN jobbed, key)
    <3>1. CASE jobbed = <<>>
      <4>1. parts[j] = <<>> /\ Len(parts[j]) = 0
        BY <2>4, <3>1
      <4>2. PICK e : e = [k \in 1..Len(parts[j]) |-> val[parts[j][k]]]
        OBVIOUS
      <4> HIDE DEF val
      <4>3. IsFiniteSet(1..Len(parts[j])) /\ e \in [1..Len(parts[j]) -> Nat] /\ \A k \in 1..Len(parts[j]) : e[k] = 0
        <5>1. 1..Len(parts[j]) = {}
          BY <4>1
        <5>2. QED
          BY <4>2, <5>1, FS_EmptySet
      <4>4. SumFunction(e) = 0
        BY ONLY <4>3, SumOfZeros
      <4>5. Tally(val, parts[j]) = 0
        BY <4>2, <4>4 DEF Tally
      <4>6. TakenAt(jobbed, DOMAIN jobbed, key) = 0
        <5>1. DOMAIN jobbed = {}
          BY <3>1
        <5>2. PICK E \in SUBSET DOMAIN jobbed : E = DOMAIN jobbed
          OBVIOUS
        <5>3. TakenFor(jobbed, E, key) = {}
          BY <5>1, <5>2 DEF TakenFor
        <5>4. QED
          BY <5>2, <5>3, TakenFits
      <4>7. QED
        BY <4>5, <4>6
    <3>2. CASE jobbed # <<>>
      <4>1. \A k \in DOMAIN jobbed : jobbed[k].title = jobbed[1].title
        <5>1. DOMAIN jobbed = 1..Len(jobbed) /\ Len(jobbed) \in Nat
          BY ListPlaces
        <5>2. 1 \in DOMAIN jobbed
          BY <3>2, <5>1
        <5>3. \A l, m \in ToSet(Jobbed(v, q)) : l.title = m.title
          BY <1>6, <2>1 DEF Once
        <5>4. \A k \in DOMAIN jobbed : jobbed[k] \in ToSet(jobbed)
          BY DEF ToSet
        <5>5. QED
          BY <2>3, <5>2, <5>3, <5>4
      <4>2. Tally(val, OutputDesigns(jobbed)) = TakenAt(jobbed, DOMAIN jobbed, key)
        BY <3>2, <4>1, OutputsTally
      <4>3. QED
        BY <2>4, <3>2, <4>2
    <3>3. QED
      BY <3>1, <3>2
  <2>6. TakenAt(jobbed, DOMAIN jobbed, key) = TakenAt(lines, places, key)
    BY <1>3, <2>3, KeptAreTaken
  <2>7. t[j] = Tally(val, parts[j])
    OBVIOUS
  <2> HIDE DEF t, val, from
  <2>8. QED
    BY <2>1, <2>2, <2>5, <2>6, <2>7
<1>9. sent \in SUBSET DOMAIN lines
  BY <1>2
<1>10. IsFiniteSet(S) /\ f \in [S -> Nat] /\ TakenAt(lines, sent, key) = SumFunction(f)
  <2>1. S = TakenFor(lines, sent, key) /\ f = BoxesTaken(lines, sent, key)
    BY DEF TakenFor, BoxesTaken
  <2> HIDE DEF S, f
  <2>2. QED
    BY <1>3, <1>9, <2>1, TakenFits DEF TakenAt
<1>11. ASSUME NEW k \in S PROVE sort[k] \in D /\ goods[sort[k]].product = lines[k].from
  <2>1. \E j \in D : goods[j].product = lines[k].from
    BY <1>2, <1>6
  <2>2. QED
    BY <2>1
<1>12. ASSUME NEW j \in D
       PROVE  {k \in S : sort[k] = j} = {h \in from(goods[j].product) : MadeKey(lines[h]) = key}
  <2>1. ASSUME NEW k \in S, sort[k] = j PROVE k \in from(goods[j].product) /\ MadeKey(lines[k]) = key
    BY <1>9, <1>11, <2>1 DEF LinesFrom
  <2>2. ASSUME NEW k \in from(goods[j].product), MadeKey(lines[k]) = key PROVE k \in S /\ sort[k] = j
    <3>1. k \in S
      BY <1>2, <1>6, <2>2 DEF LinesFrom
    <3>2. sort[k] \in D /\ goods[sort[k]].product = goods[j].product
      BY <1>11, <2>2, <3>1 DEF LinesFrom
    <3>3. \A i, h \in D : goods[h].product = goods[i].product => h = i
      BY <1>6 DEF Once
    <3> HIDE DEF sort
    <3>4. QED
      BY <3>1, <3>2, <3>3
  <2> HIDE DEF sort, from, S
  <2>3. QED
    BY <2>1, <2>2 DEF S, from
<1>13. t = [j \in D |-> SumFunction([k \in {y \in S : sort[y] = j} |-> f[k]])]
  <2>1. ASSUME NEW j \in D PROVE t[j] = SumFunction([k \in {y \in S : sort[y] = j} |-> f[k]])
    <3>1. PICK B : B = {y \in S : sort[y] = j}
      OBVIOUS
    <3>2. B = {h \in from(goods[j].product) : MadeKey(lines[h]) = key}
      BY <1>12, <3>1
    <3>3. TakenAt(lines, from(goods[j].product), key) = SumFunction([k \in B |-> lines[k].source])
      BY <3>2 DEF TakenAt, TakenFor, BoxesTaken
    <3>4. \A k \in B : f[k] = lines[k].source
      BY <3>1
    <3> HIDE DEF f, from, t, S, sort
    <3>5. [k \in B |-> f[k]] = [k \in B |-> lines[k].source]
      BY <3>4
    <3>6. QED
      BY <1>8, <3>1, <3>3, <3>5
  <2>2. t = [j \in D |-> t[j]]
    OBVIOUS
  <2> HIDE DEF t, f, sort, S, D
  <2>3. QED
    BY <2>1, <2>2
<1>14. sort \in [S -> D]
  <2> DEFINE c(k) == CHOOSE j \in D : goods[j].product = lines[k].from
  <2>1. sort = [k \in S |-> c(k)]
    OBVIOUS
  <2>2. \A k \in S : sort[k] = c(k)
    OBVIOUS
  <2>3. \A k \in S : sort[k] \in D
    BY <1>11
  <2> HIDE DEF sort, S, D, c
  <2>4. \A k \in S : c(k) \in D
    BY <2>2, <2>3
  <2>5. QED
    BY <2>1, <2>4
<1>15. IsFiniteSet(D)
  <2>1. Len(goods) \in Nat
    BY <1>6
  <2>2. 1 \in Int /\ Len(goods) \in Int
    BY <2>1
  <2>3. IsFiniteSet(1..Len(goods))
    BY ONLY <2>2, FS_Interval
  <2>4. QED
    BY <2>3
<1>16. SumFunction(f) = SumFunction(t)
  <2> HIDE DEF t, f, sort, S, D
  <2>1. QED
    BY ONLY <1>10, <1>13, <1>14, <1>15, SumBySort
<1> HIDE DEF t, f
<1>17. QED
  BY <1>7, <1>10, <1>16

LEMMA JobInFormsOffer == StockInv => JobInsAreOfferedWhatWasSent
<1> SUFFICES ASSUME StockInv PROVE JobInsAreOfferedWhatWasSent
  OBVIOUS
<1>1. ASSUME NEW x \in DOMAIN outs, Once(outs[x]), NEW h \in SentTo(outs[x])
      PROVE  TakenAt(WorkLines(outs[x]), SentTo(outs[x]), MadeKey(WorkLines(outs[x])[h]))
                 = BoxesMade(JobInForm(x), MadeKey(WorkLines(outs[x])[h]))
  <2>1. PICK v, goods, lines, sent : v = outs[x] /\ goods = invoices[v].lines /\ lines = WorkLines(v) /\ sent = SentTo(v)
    OBVIOUS
  <2>2. PICK key : key = MadeKey(lines[h])
    OBVIOUS
  <2>3. Once(v)
    BY <1>1, <2>1
  <2>4. TakenAt(lines, sent, key) = BoxesMade(JobInForm(x), key)
    BY <2>1, <2>3, JobInsAreOffered
  <2>5. QED
    BY <2>1, <2>2, <2>4
<1>2. QED
  BY <1>1 DEF JobInsAreOfferedWhatWasSent, TakenAt, TakenFor, BoxesTaken, WorkLines, SentTo

LEMMA FormsOffer == StockInv => FormsOfferTheRest
BY OrderFormsOffer, JobInFormsOffer DEF FormsOfferTheRest

\* The form of an order's list never offers less than there is to come, nor
\* more where what is placed goes by one name; the form of a job in offers what
\* the job works took, where a product stands on one line and is made into one.
THEOREM FormsStayRight == StockSpec => []FormsOfferTheRest
BY StockInvHolds, FormsOffer, PTL
===============================================================================
