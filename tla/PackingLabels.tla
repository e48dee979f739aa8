---------------------------- MODULE PackingLabels ----------------------------
(***************************************************************************)
(* The labels of the PACKING PLANNING document: one row of                 *)
(* packing_planning_labels per physical pallet, carrying the QR id and the *)
(* packing id printed on it.                                               *)
(*                                                                         *)
(* A request runs in a worker process and makes several database           *)
(* transactions; each action below is one of them (or one read), so the    *)
(* requests of several workers interleave between them.  One tenant is     *)
(* modelled: every query of the document is scoped by company_id.          *)
(*                                                                         *)
(* A packing number is a small natural, a date a model value, a QR id the  *)
(* pair (date, sequence) that f"UPQR{date}{sequence:03d}" spells, and a    *)
(* plan's layout the set of pallet numbers of its batch rows (auto) and    *)
(* the set of its hand-packed units' numbers (units).                      *)
(***************************************************************************)
EXTENDS Integers, FiniteSets

CONSTANTS
    Workers,            \* worker processes, each serving one request at a time
    PlanIds,            \* row ids AUTOINCREMENT can hand out
    PackingNos,         \* pallet numbers a sheet can use
    Dates,              \* planning dates
    Layouts,            \* the layouts an operator may post
    MaxNumber,          \* bound on the sequence of a typed document number
    None,               \* SQL NULL / no value
    OneRequestPerPlan   \* TRUE: no two requests on one plan overlap

ASSUME PackingNosAssumption == PackingNos \subseteq Nat /\ IsFiniteSet(PackingNos)
ASSUME PlanIdsAssumption == IsFiniteSet(PlanIds)   \* row ids are 64-bit
ASSUME LayoutsAssumption ==
    Layouts \subseteq [auto : SUBSET PackingNos, units : SUBSET PackingNos]
ASSUME NoneAssumption == None \notin PlanIds /\ None \notin Dates
ASSUME BoundsAssumption == MaxNumber \in Nat /\ OneRequestPerPlan \in BOOLEAN

VARIABLES
    plan,       \* packing_plannings and its child rows, by id
    labels,     \* the rows of packing_planning_labels
    req,        \* what each worker is doing, with its local variables
    floor,      \* history: printed labels whose pallet was not re-planned away
    issued      \* history: every QR id ever inserted

db == <<plan, labels>>
history == <<floor, issued>>
vars == <<plan, labels, req, floor, issued>>

-----------------------------------------------------------------------------
(* Types.                                                                  *)

NoLayout == [auto |-> {}, units |-> {}]
Layout == [auto : SUBSET PackingNos, units : SUBSET PackingNos]

\* PP{date}{seq} and UPQR{date}{seq}.
DocNumber == [date : Dates, seq : Nat]
QrId == [date : Dates, seq : Nat]

Plan == [state : {"unused", "live", "deleted"},
         number : DocNumber \union {None},
         date : Dates \union {None},
         layout : Layout]
NoPlan == [state |-> "unused", number |-> None, date |-> None, layout |-> NoLayout]

Label == [plan : PlanIds, no : PackingNos, qr : QrId]

Steps == {"idle", "insert", "header", "children",
          "getHeader", "getItems", "getUnits",
          "existing", "sequence", "sync",
          "sheetHeader", "sheetItems", "sheetUnits", "sheetLabels", "delete"}

Request == [pc : Steps,
            kind : {"none", "save", "sheet", "delete"},
            plan : PlanIds \union {None},
            number : DocNumber \union {None},
            date : Dates \union {None},
            layout : Layout,
            existing : SUBSET PackingNos,
            seq : Nat]
Idle == [pc |-> "idle", kind |-> "none", plan |-> None, number |-> None, date |-> None,
         layout |-> NoLayout, existing |-> {}, seq |-> 0]

TypeOK ==
    /\ plan \in [PlanIds -> Plan]
    /\ labels \subseteq Label /\ IsFiniteSet(labels)
    /\ req \in [Workers -> Request]
    /\ floor \subseteq Label
    /\ issued \subseteq QrId

-----------------------------------------------------------------------------
(* Helpers.                                                                *)

Live(p) == p \in PlanIds /\ plan[p].state = "live"

\* The numbers PackingPlanning.packings enumerates: both halves of the sheet.
PackingsOf(layout) == layout.auto \union layout.units

LabelsForPlan(p) == {l \in labels : l.plan = p}

\* PackingPlanningRepository.next_number: COUNT of the date's documents + 1.
NextNumber(d) ==
    [date |-> d,
     seq |-> Cardinality({p \in PlanIds : plan[p].state = "live" /\ plan[p].number.date = d}) + 1]

\* Deviation: the sequence is advanced before its first use.
NextQrSequence_Early(d) == Cardinality({l \in labels : l.qr.date = d}) + 2

\* Deviation: MAX instead of COUNT, which is NULL on a date without labels.
NextQrSequence_Max(d) ==
    LET used == {l.qr.seq : l \in {k \in labels : k.qr.date = d}}
    IN  IF used = {} THEN None ELSE (CHOOSE n \in used : \A m \in used : m <= n) + 1

\* PackingPlanningRepository.next_qr_sequence: COUNT of the date's labels + 1.
NextQrSequence(d) == Cardinality({l \in labels : l.qr.date = d}) + 1

\* The ids minted for the wanted pallets that have none, in packing_no order.
MintedLabels(r) ==
    LET missing == PackingsOf(r.layout) \ r.existing
        rank(n) == Cardinality({m \in missing : m < n})
    IN  {[plan |-> r.plan, no |-> n, qr |-> [date |-> r.date, seq |-> r.seq + rank(n)]] :
            n \in missing}

\* Deviation: the labels treated like every other child list, wholesale deleted.
StaleNos_Wholesale(r) == r.existing

StaleNos(r) == r.existing \ PackingsOf(r.layout)

\* Deviations: a table without one or the other of its UNIQUE constraints.
Insertable_AnyQrId(fresh, kept) ==
    \A f \in fresh, k \in kept : f.plan = k.plan => f.no # k.no
Insertable_AnyPallet(fresh, kept) ==
    \A a, b \in fresh \union kept : a.qr = b.qr => a = b

\* UNIQUE (packing_planning_id, packing_no), UNIQUE (company_id, unique_qr_id).
Insertable(fresh, kept) ==
    /\ \A f \in fresh, k \in kept : f.plan = k.plan => f.no # k.no
    /\ \A a, b \in fresh \union kept : a.qr = b.qr => a = b

\* Deviation: a table without UNIQUE (company_id, packing_planning_number).
NumberTaken_Never(n) == FALSE

\* UNIQUE (company_id, packing_planning_number) refuses the number.
NumberTaken(n) == \E p \in PlanIds : plan[p].state = "live" /\ plan[p].number = n

\* Worker w goes on as r; to a step with its other locals dead; to its end.
Become(w, r) == req' = [req EXCEPT ![w] = r]
Restart(w, step) ==
    Become(w, [Idle EXCEPT !.pc = step, !.kind = req[w].kind, !.plan = req[w].plan])
Finish(w) == Become(w, Idle)

\* The environment's promise when OneRequestPerPlan: a request on p starts only
\* when no other request is on p.
MayStart(p) == OneRequestPerPlan => \A v \in Workers : req[v].plan # p

-----------------------------------------------------------------------------
Init ==
    /\ plan = [p \in PlanIds |-> NoPlan]
    /\ labels = {}
    /\ req = [w \in Workers |-> Idle]
    /\ floor = {}
    /\ issued = {}

(* Saving: create and update.                                              *)

\* create/_build: the number is the one typed, or the next one of the date.
StartCreate(w) ==
    /\ req[w].pc = "idle"
    /\ \E d \in Dates, lay \in Layouts :
         \E n \in {NextNumber(d)} \union [date : Dates, seq : 1..MaxNumber] :
            Become(w, [Idle EXCEPT !.pc = "insert", !.kind = "save", !.number = n,
                                   !.date = d, !.layout = lay])
    /\ UNCHANGED <<db, history>>

\* repo.create, first transaction.
InsertHeader(w) ==
    /\ req[w].pc = "insert"
    /\ IF NumberTaken(req[w].number)
       THEN Finish(w) /\ UNCHANGED plan
       ELSE \E p \in PlanIds :
              /\ plan[p].state = "unused"
              /\ plan' = [plan EXCEPT ![p] = [state |-> "live", number |-> req[w].number,
                                              date |-> req[w].date, layout |-> NoLayout]]
              /\ Become(w, [req[w] EXCEPT !.pc = "children", !.plan = p, !.number = None])
    /\ UNCHANGED <<labels, history>>

\* update/_build: the plan must exist; its number is kept.
StartUpdate(w, p) ==
    /\ req[w].pc = "idle"
    /\ Live(p) /\ MayStart(p)
    /\ \E d \in Dates, lay \in Layouts :
         Become(w, [Idle EXCEPT !.pc = "header", !.kind = "save", !.plan = p,
                                !.date = d, !.layout = lay])
    /\ UNCHANGED <<db, history>>

\* repo.update, first transaction: no row is touched if the plan is gone.
UpdateHeader(w) ==
    /\ req[w].pc = "header"
    /\ plan' = IF Live(req[w].plan)
               THEN [plan EXCEPT ![req[w].plan].date = req[w].date] ELSE plan
    /\ Become(w, [req[w] EXCEPT !.pc = "children"])
    /\ UNCHANGED <<labels, history>>

\* _replace_children, second transaction: links, batch rows and units together.
\* The child rows of a plan that is gone violate their foreign key.
ReplaceChildren(w) ==
    LET p == req[w].plan
    IN  /\ req[w].pc = "children"
        /\ IF Live(p)
           THEN /\ plan' = [plan EXCEPT ![p].layout = req[w].layout]
                /\ floor' = {l \in floor : l.plan = p => l.no \in PackingsOf(req[w].layout)}
                /\ Restart(w, "getHeader")
           ELSE Finish(w) /\ UNCHANGED <<plan, floor>>
        /\ UNCHANGED <<labels, issued>>

(* get_by_id: a query each for the header, the batch rows and the units.   *)

GetHeader(w) ==
    /\ req[w].pc = "getHeader"
    /\ IF Live(req[w].plan)
       THEN Become(w, [req[w] EXCEPT !.pc = "getItems", !.date = plan[req[w].plan].date])
       ELSE Finish(w)
    /\ UNCHANGED <<db, history>>

GetItems(w) ==
    /\ req[w].pc \in {"getItems", "sheetItems"}
    /\ Become(w, [req[w] EXCEPT
                    !.pc = IF @ = "getItems" THEN "getUnits" ELSE "sheetUnits",
                    !.layout = [auto |-> plan[req[w].plan].layout.auto, units |-> @.units]])
    /\ UNCHANGED <<db, history>>

GetUnits(w) ==
    /\ req[w].pc \in {"getUnits", "sheetUnits"}
    /\ Become(w, [req[w] EXCEPT
                    !.pc = IF @ = "getUnits" THEN "existing" ELSE "sheetLabels",
                    !.layout = [auto |-> @.auto, units |-> plan[req[w].plan].layout.units]])
    /\ UNCHANGED <<db, history>>

(* mint_labels.                                                            *)

ReadExisting(w) ==
    /\ req[w].pc = "existing"
    /\ Become(w, [req[w] EXCEPT !.pc = "sequence",
                                !.existing = {l.no : l \in LabelsForPlan(req[w].plan)}])
    /\ UNCHANGED <<db, history>>

ReadSequence(w) ==
    /\ req[w].pc = "sequence"
    /\ Become(w, [req[w] EXCEPT !.pc = "sync", !.seq = NextQrSequence(req[w].date)])
    /\ UNCHANGED <<db, history>>

\* sync_labels: one transaction, the deletes first.  A constraint that fails
\* rolls it back and the request ends with the error.
SyncLabels(w) ==
    LET r == req[w]
        kept == {l \in labels : l.plan = r.plan => l.no \notin StaleNos(r)}
        fresh == MintedLabels(r)
    IN  /\ r.pc = "sync"
        /\ IF Insertable(fresh, kept) /\ (fresh # {} => Live(r.plan))
           THEN /\ labels' = kept \union fresh
                /\ issued' = issued \union {l.qr : l \in fresh}
                /\ IF r.kind = "sheet" THEN Restart(w, "sheetHeader") ELSE Finish(w)
           ELSE Finish(w) /\ UNCHANGED <<labels, issued>>
        /\ UNCHANGED <<plan, floor>>

(* GET /<id>/labels: mint first, then print.                               *)

\* Deviation: the route prints without minting first.
StartSheet_NoMint(w, p) ==
    /\ req[w].pc = "idle"
    /\ p \in PlanIds /\ MayStart(p)
    /\ plan[p].state # "unused"
    /\ Become(w, [Idle EXCEPT !.pc = "sheetHeader", !.kind = "sheet", !.plan = p])
    /\ UNCHANGED <<db, history>>

StartSheet(w, p) ==
    /\ req[w].pc = "idle"
    /\ p \in PlanIds /\ MayStart(p)
    /\ plan[p].state # "unused"
    /\ Become(w, [Idle EXCEPT !.pc = "getHeader", !.kind = "sheet", !.plan = p])
    /\ UNCHANGED <<db, history>>

\* label_sheet reads the plan again.
SheetHeader(w) ==
    /\ req[w].pc = "sheetHeader"
    /\ IF Live(req[w].plan) THEN Become(w, [req[w] EXCEPT !.pc = "sheetItems"]) ELSE Finish(w)
    /\ UNCHANGED <<db, history>>

\* The labels found for the packings read: a packing without one is skipped.
\* A printed label is on the floor, unless its pallet has been re-planned away.
PrintSheet(w) ==
    /\ req[w].pc = "sheetLabels"
    /\ floor' = floor \union
         {l \in LabelsForPlan(req[w].plan) :
             /\ l.no \in PackingsOf(req[w].layout)
             /\ l.no \in PackingsOf(plan[req[w].plan].layout)}
    /\ Finish(w)
    /\ UNCHANGED <<db, issued>>

(* Deleting.                                                               *)

StartDelete(w, p) ==
    /\ req[w].pc = "idle"
    /\ Live(p) /\ MayStart(p)
    /\ Become(w, [Idle EXCEPT !.pc = "delete", !.kind = "delete", !.plan = p])
    /\ UNCHANGED <<db, history>>

\* Deviation: the labels are left to an ON DELETE CASCADE that is not enforced.
DeletePlan_KeepsLabels(w) ==
    LET p == req[w].plan
    IN  /\ req[w].pc = "delete"
        /\ plan' = [plan EXCEPT ![p] = [NoPlan EXCEPT !.state = "deleted"]]
        /\ floor' = {l \in floor : l.plan # p}
        /\ Finish(w)
        /\ UNCHANGED <<labels, issued>>

\* repo.delete: the labels, the children and the header in one transaction.
DeletePlan(w) ==
    LET p == req[w].plan
    IN  /\ req[w].pc = "delete"
        /\ plan' = [plan EXCEPT ![p] = [NoPlan EXCEPT !.state = "deleted"]]
        /\ labels' = labels \ LabelsForPlan(p)
        /\ floor' = {l \in floor : l.plan # p}
        /\ Finish(w)
        /\ UNCHANGED issued

\* A worker killed or timed out, or SQLite's "database is locked": what was
\* committed stays, the rest of the request never happens.
Abort(w) ==
    /\ req[w].pc # "idle"
    /\ Finish(w)
    /\ UNCHANGED <<db, history>>

Save(w) == InsertHeader(w) \/ UpdateHeader(w) \/ ReplaceChildren(w)
Get(w) == GetHeader(w) \/ GetItems(w) \/ GetUnits(w)
Mint(w) == ReadExisting(w) \/ ReadSequence(w) \/ SyncLabels(w)
Sheet(w) == SheetHeader(w) \/ PrintSheet(w)
Start(w) ==
    \/ StartCreate(w)
    \/ \E p \in PlanIds : StartUpdate(w, p) \/ StartSheet(w, p) \/ StartDelete(w, p)

Next == \E w \in Workers :
    Start(w) \/ Save(w) \/ Get(w) \/ Mint(w) \/ Sheet(w) \/ DeletePlan(w) \/ Abort(w)

Spec == Init /\ [][Next]_vars
-----------------------------------------------------------------------------
(* Properties.                                                             *)

\* Whatever requests race, a row that is minted is never rewritten: as long as
\* a pallet of a plan has a label, it is the same one (sync_labels: "Existing
\* rows are never rewritten").
RowsNeverRewritten ==
    [][\A l \in labels, m \in labels' : (l.plan = m.plan /\ l.no = m.no) => l = m]_vars

\* A mint that was under way when its plan is deleted leaves no label behind.
NoOrphanLabels == \A l \in labels : Live(l.plan)

\* Two mints that read the same COUNT never put one QR id on two rows.
QrIdsUnique == \A l, m \in labels : l.qr = m.qr => l = m

\* The ids issued on a date are numbered without gaps: COUNT + 1 never runs
\* ahead of what was issued, whatever was dropped, raced or rolled back before.
NoSequenceGaps ==
    \A q \in issued : \A k \in 1..q.seq : [date |-> q.date, seq |-> k] \in issued

\* "a pallet that survives an edit keeps the id already out on the floor"
\* (PackingPlanningLabel): a printed label whose pallet is still planned is
\* still the label the database has for it.
FloorIdsKept == floor \subseteq labels

\* No two pallets on the floor carry one QR id or one packing id, so a scan
\* names one pallet.
PackingId(l) == <<plan[l.plan].number, l.no>>
FloorIdsDistinct ==
    \A a, b \in floor : (a.qr = b.qr \/ PackingId(a) = PackingId(b)) => a = b

\* The labels page leaves no planned pallet without a label: it mints first and
\* prints only after the mint has committed.
SheetCoversPlan ==
    [][\A w \in Workers :
        PrintSheet(w) =>
            \A n \in PackingsOf(plan[req[w].plan].layout) :
                \E l \in floor' : l.plan = req[w].plan /\ l.no = n]_vars

=============================================================================
