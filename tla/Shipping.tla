-------------------------------- MODULE Shipping --------------------------------
(***************************************************************************)
(* From the packed pallet to the export packing list: a loading planning   *)
(* imports packing plannings as they stand and puts their packings into a  *)
(* booking's containers; an export invoice takes its goods, its containers *)
(* and the split of the one over the other from a loading planning; saving *)
(* it writes the invoice and then its packing list.                        *)
(*                                                                         *)
(* Lines, packings and containers refer to one another by number or by     *)
(* position, and every document renumbers what it takes: containers are    *)
(* positions among the rows that identify one, goods lines positions among *)
(* the rows that have a name.  A container is a number; a row with ct =    *)
(* None states a type or a weight but no container.                        *)
(*                                                                         *)
(* The save of an export invoice is taken transaction by transaction; the  *)
(* version and the client's stage it also writes are in Documents, and the *)
(* header and child tables of a loading planning are saved in one step.    *)
(***************************************************************************)
EXTENDS Rows, FiniteSetsExt, SequencesExt, Functions

CONSTANTS
    Users,
    Admins,
    Packed,         \* the packing plannings a loading planning may be made of, in sequence
    Bookings,       \* container rows bookings may have
    Limit, Tare,    \* container (or None) -> permitted weight, 0: none; empty weight
    Loads,          \* loading plannings there may be when the users come
    MaxPages,       \* bound on the pages opened
    MaxChanges,     \* bound on the forms that are not left as they were opened
    MaxKills        \* bound on the saves cut short

None == 0
Weight == 1         \* of a box, and of an empty pallet
Rates == 0..1       \* exchange rates; 0: not set

ASSUME PackedAssumption ==
    Packed \subseteq Seq([lines : Seq([product : Nat \ {None}, per : Nat, units : Nat]),
                          byHand : Seq(Seq([sr : Nat, boxes : Nat]))])
ASSUME BookingsAssumption ==
    /\ Bookings \subseteq Seq(DOMAIN Limit)
    /\ Limit \in [DOMAIN Limit -> Nat] /\ Tare \in [DOMAIN Limit -> Nat]

VARIABLES
    loads,      \* id -> loading planning
    invoices,   \* id -> export invoice
    lists,      \* export invoice id -> export packing list
    page,       \* what each user has open, or is saving
    nextId, opened, changes, kills,
    moved,      \* a save took a container from its place in the 11B table
    removed     \* an export invoice was deleted

store == <<loads, invoices, lists>>
vars == <<store, page, nextId, opened, changes, kills, moved, removed>>

Put(f, x, y) == [z \in DOMAIN f \union {x} |-> IF z = x THEN y ELSE f[z]]
Drop(f, x) == [z \in DOMAIN f \ {x} |-> f[z]]
BoxesIn(rows) == SumFunction([k \in DOMAIN rows |-> rows[k].boxes])
BoxesOf(rows, srs) ==
    SumFunction([k \in DOMAIN rows |-> IF rows[k].sr \in srs THEN rows[k].boxes ELSE 0])
\* The boxes of these lines, in all of the packings.
BoxesPacked(packings, srs) ==
    SumFunction([n \in DOMAIN packings |-> BoxesOf(packings[n], srs)])

-----------------------------------------------------------------------------
(* The packings of a packing planning: `units` whole ones of `per` boxes   *)
(* out of each line, and those packed by hand out of what was left.        *)

WholeUnits(plan, sr) ==
    [n \in 1..plan.lines[sr].units |-> <<[sr |-> sr, boxes |-> plan.lines[sr].per]>>]
Packings(plan) ==
    FlattenSeq([sr \in DOMAIN plan.lines |-> WholeUnits(plan, sr)]) \o plan.byHand
PackedBoxes(plan, sr) == plan.lines[sr].units * plan.lines[sr].per + BoxesPacked(plan.byHand, {sr})

(* build_prefill_from_packing_plannings: lines and packings renumbered     *)
(* through the document, the contents repointed at the new lines; what     *)
(* names no line of its planning is left out.                              *)

\* Deviation: the contents keep the numbers they had.
Repointed_NotAtAll(contents, before) == contents
Repointed(contents, before) ==
    [k \in DOMAIN contents |-> [contents[k] EXCEPT !.sr = before + contents[k].sr]]

ImportedLines(plan) ==
    [sr \in DOMAIN plan.lines |->
        [product |-> plan.lines[sr].product, boxes |-> PackedBoxes(plan, sr)]]
Known(contents, plan) == At(contents, {k \in DOMAIN contents : contents[k].sr \in DOMAIN plan.lines})
ImportedPackings(plan, before) ==
    [k \in DOMAIN Packings(plan) |->
        [contents |-> Repointed(Known(Packings(plan)[k], plan), before), at |-> None]]
LinesBefore(plans, p) == SumFunction([q \in 1..(p - 1) |-> Len(plans[q].lines)])
Imported(plans) ==
    [lines    |-> FlattenSeq([p \in DOMAIN plans |-> ImportedLines(plans[p])]),
     packings |-> FlattenSeq([p \in DOMAIN plans |->
                                 ImportedPackings(plans[p], LinesBefore(plans, p))])]

Gross(packing) == Weight + Weight * BoxesIn(packing.contents)
\* What container k weighs with the packings that `at` puts into it.
Vgm(rows, packings, at, k) ==
    Tare[rows[k]] + SumFunction([n \in DOMAIN at |-> IF at[n] = k THEN Gross(packings[n]) ELSE 0])

\* auto_assign_containers: in order, each to the container that carries least
\* and has room for it.
Room(carried, rows, gross) ==
    {k \in DOMAIN rows : Limit[rows[k]] = 0 \/ carried[k] + gross <= Limit[rows[k]]}
Lightest(carried, ks) ==
    CHOOSE k \in ks : \A j \in ks : carried[k] < carried[j] \/ (carried[k] = carried[j] /\ k <= j)
\* Deviation: an empty container weighs nothing.
Assigned_NoTare(packings, rows, at) ==
    LET carried == [k \in DOMAIN rows |-> Vgm(rows, packings, at, k) - Tare[rows[k]]]
        room == Room(carried, rows, Gross(packings[Len(at) + 1]))
    IN  Append(at, IF room = {} THEN None ELSE Lightest(carried, room))
Assigned(packings, rows, at) ==
    LET carried == [k \in DOMAIN rows |-> Vgm(rows, packings, at, k)]
        room == Room(carried, rows, Gross(packings[Len(at) + 1]))
    IN  Append(at, IF room = {} THEN None ELSE Lightest(carried, room))
AutoAssigned(packings, rows) ==
    LET first[n \in 0..Len(packings)] ==
            IF n = 0 THEN <<>> ELSE Assigned(packings, rows, first[n - 1])
    IN  first[Len(packings)]

\* A loading planning as it is saved.
Saved(lines, rows, packings, at) ==
    [lines |-> lines, rows |-> rows,
     packings |-> [n \in DOMAIN at |-> [packings[n] EXCEPT !.at = at[n]]]]

\* Those there are when the users come were saved so.
ASSUME LoadsAssumption ==
    \A stored \in Loads : \A l \in DOMAIN stored :
        /\ l # None
        /\ \E plans \in Packed, rows \in Bookings :
              LET doc == Imported(plans)
              IN  \E at \in [DOMAIN doc.packings -> 0..Len(rows)] :
                      stored[l] = Saved(doc.lines, rows, doc.packings, at)

-----------------------------------------------------------------------------
(* The export invoice's form.                                              *)

\* _is_shipped_container, and containers() of the form.
\* Deviation: a row that states no container is kept.
IsShipped_Any(ct) == TRUE
IsShipped(ct) == ct # None
Shipped(rows) == At(rows, {k \in DOMAIN rows : IsShipped(rows[k])})
IndexOf(rows, sr) == Cardinality({k \in 1..sr : IsShipped(rows[k])})
OnForm(rows) == At(rows, {k \in DOMAIN rows : rows[k] # None})

\* A goods line for each product, in the order they come.
Batches(lines, p) == {sr \in DOMAIN lines : lines[sr].product = p}
Products(lines) ==
    LET firsts == At(lines, {sr \in DOMAIN lines : \A j \in Batches(lines, lines[sr].product) : sr <= j})
    IN  [k \in DOMAIN firsts |-> firsts[k].product]
Goods(lines) ==
    [k \in DOMAIN Products(lines) |->
        [product |-> Products(lines)[k],
         boxes |-> SumFunction([sr \in Batches(lines, Products(lines)[k]) |-> lines[sr].boxes])]]

\* The split the packings make, of those in a container that is on the form.
\* `n` tells its rows apart; `meant`, `of`: the container and the product the
\* boxes are of.
Carried(load, sr, p) ==
    SumFunction([n \in DOMAIN load.packings |->
                    IF load.packings[n].at = sr
                    THEN BoxesOf(load.packings[n].contents, Batches(load.lines, p)) ELSE 0])
SplitOf(load) ==
    {[n |-> <<sr, k>>, at |-> IndexOf(load.rows, sr), line |-> k,
      boxes |-> Carried(load, sr, Products(load.lines)[k]),
      meant |-> load.rows[sr], of |-> Products(load.lines)[k]] :
        sr \in {s \in DOMAIN load.rows : IsShipped(load.rows[s])},
        k \in DOMAIN Products(load.lines)}
Given(split) == {a \in split : a.boxes > 0}
\* render(): a container that is not there any more is the last one.
Place(at, rows) == Min({at, Max({1, Len(OnForm(rows))})})
Label(rows, at) == IF at \in DOMAIN OnForm(rows) THEN OnForm(rows)[at] ELSE None
Rendered(split, rows) == {[a EXCEPT !.at = Place(@, rows)] : a \in split}

\* _remap_allocations: the rows with no name are not lines.
\* Deviation: the rows are taken to be the lines.
Remapped_AsTheyStand(split, lines) == {a \in split : lines[a.line].product # None}
Remapped(split, lines) ==
    {[a EXCEPT !.line = Cardinality({k \in 1..a.line : lines[k].product # None})] :
        a \in {b \in split : lines[b.line].product # None}}
Named(lines) == At(lines, {k \in DOMAIN lines : lines[k].product # None})

\* _assert_balanced: every box in exactly one container.
BoxesInSplit(split, k) ==
    SumFunction([a \in {b \in split : b.line = k} |-> a.boxes])
Balanced(lines, split) == \A k \in DOMAIN lines : BoxesInSplit(split, k) = lines[k].boxes

\* default_allocations: every line whole in the first container.
DefaultSplit(lines, rows) ==
    {[n |-> <<1, k>>, at |-> 1, line |-> k, boxes |-> lines[k].boxes, of |-> lines[k].product,
      meant |-> Label(rows, 1)] : k \in DOMAIN lines}
\* build_items: the container a row names is the one at its place in 11B.
\* Deviation: the boxes of a row that identifies no container are left out.
PackingRows_InContainers(lines, rows, split) ==
    {Put(Put(a, "ct", rows[a.at]), "product", lines[a.line].product) :
        a \in {b \in split : Label(rows, b.at) # None}}
PackingRows(lines, rows, split) ==
    {Put(Put(a, "ct", IF a.at \in DOMAIN rows THEN rows[a.at] ELSE None),
         "product", lines[a.line].product) : a \in split}

-----------------------------------------------------------------------------
(* Pages.  fresh: nothing was written since; alone: since it was submitted.*)

Closed == [at |-> "closed"]
Leave(u, next) ==
    page' = [v \in Users |->
                IF v = u THEN next
                ELSE IF page[v] = Closed THEN Closed ELSE [page[v] EXCEPT !.alone = FALSE]]
Ended(at, id, alone) == [at |-> at, id |-> id, alone |-> alone]
Visit == opened < MaxPages /\ opened' = opened + 1
Open(u, content) ==
    /\ page' = [page EXCEPT ![u] = content]
    /\ UNCHANGED <<store, nextId, changes, kills, moved, removed>>
MayModify(u, i) == u \in Admins \/ invoices[i].by = u

\* The packing plannings are imported as they stand, which they need not stay.
OpenLoad(u, plans) ==
    /\ LET doc == Imported(plans)
       IN  Open(u, [at |-> "load", id |-> None, lines |-> doc.lines, packings |-> doc.packings,
                    rows |-> <<>>, alone |-> TRUE])
EditLoad(u, l) ==
    Open(u, [at |-> "load", id |-> l, lines |-> loads[l].lines, packings |-> loads[l].packings,
             rows |-> loads[l].rows, alone |-> TRUE])

\* The containers of a booking are copied; packings are assigned automatically,
\* and one of them moved or taken out by hand.
SaveLoad(u) ==
    /\ page[u].at = "load"
    /\ \E rows \in Bookings :
       LET auto == AutoAssigned(page[u].packings, rows) IN
       \E at \in {auto} \union {[auto EXCEPT ![n] = k] : n \in DOMAIN auto, k \in 0..Len(rows)} :
          loads' = Put(loads, IF page[u].id = None THEN nextId ELSE page[u].id,
                       Saved(page[u].lines, rows, page[u].packings, at))
    /\ nextId' = IF page[u].id = None THEN nextId + 1 ELSE nextId
    /\ Leave(u, Closed)
    /\ UNCHANGED <<invoices, lists, opened, changes, kills, moved, removed>>

\* GET new, and "Load" with a loading planning: build_export_invoice_prefill.
OpenInvoice(u, l) ==
    LET load == loads[l]
    IN  Open(u, [at |-> "invoice", id |-> None, lines |-> Goods(load.lines), rows |-> Shipped(load.rows),
                 split |-> Rendered(Given(SplitOf(load)), Shipped(load.rows)),
                 odd |-> FALSE, alone |-> TRUE, load |-> l])
EditInvoice(u, i) ==
    /\ MayModify(u, i)
    /\ LET rows == [k \in DOMAIN invoices[i].rows |-> invoices[i].rows[k].ct]
           lines == invoices[i].lines
           shown == IF i \in DOMAIN lists THEN {r \in lists[i].rows : r.line \in DOMAIN lines} ELSE {}
       IN  Open(u, [at |-> "invoice", id |-> i, lines |-> lines, rows |-> rows,
                    split |-> IF shown = {} THEN DefaultSplit(lines, rows)
                              ELSE {LET at == Place(r.at, rows) IN
                                    [n |-> r.n, at |-> at, line |-> r.line, boxes |-> r.boxes,
                                     meant |-> Label(rows, at), of |-> lines[r.line].product] : r \in shown},
                    odd |-> OnForm(rows) # rows, alone |-> TRUE, load |-> None])

(* What the user makes of the form: takes another booking's containers and *)
(* lays the split out again, drops a container (the split stays), clears a *)
(* goods row, takes a box off a line and off the split, or leaves it.      *)

Rebooked(form) ==
    {[form EXCEPT !.rows = rows, !.split = DefaultSplit(form.lines, rows), !.odd = OnForm(rows) # rows] :
        rows \in Bookings \ {form.rows}}
LineCleared(form) ==
    {[form EXCEPT !.lines[k].product = None] : k \in DOMAIN form.lines}
BoxTaken(form) ==
    {[form EXCEPT !.lines[a.line].boxes = @ - 1,
                  !.split = (@ \ {a}) \union {[a EXCEPT !.boxes = @ - 1]}] :
        a \in {b \in form.split : b.boxes > 1}}
Changed(form) ==
    IF changes = MaxChanges THEN {form} ELSE
    {form} \union Rebooked(form) \union LineCleared(form) \union BoxTaken(form)
        \union IF form.rows = <<>> THEN {} ELSE {[form EXCEPT !.rows = Tail(@), !.odd = TRUE]}

-----------------------------------------------------------------------------
(* Saving it.  What the form does not carry is read from the row first:    *)
(* the shipping bill, the weighing slips by position, the rate.            *)

\* The rate is set once by anyone and changed by an admin.
\* Deviation: the one that is stored is not looked at.
RateKept_AnyOne(u, before, rate) == rate
RateKept(u, before, rate) == IF before = 0 \/ u \in Admins THEN rate ELSE before
RateAllowed(u, before, rate) == before = 0 \/ u \in Admins \/ rate \in {0, before}

\* Deviation: only the rows the form posts are written.
Carry_Nothing(rows, before) == [k \in DOMAIN rows |-> [ct |-> rows[k], slip |-> None]]
\* Deviation: a row takes what was typed for the one after it.
Carry_OneOff(rows, before) ==
    [k \in DOMAIN rows |->
        [ct |-> rows[k], slip |-> IF k + 1 \in DOMAIN before THEN before[k + 1].slip ELSE None]]
Carry(rows, before) ==
    [k \in DOMAIN rows |-> [ct |-> rows[k], slip |-> IF k \in DOMAIN before THEN before[k].slip ELSE None]]

Existing(u) ==
    IF page[u].id = None THEN [rate |-> 0, bill |-> None, rows |-> <<>>] ELSE invoices[page[u].id]

\* The container split is checked before anything is written.
Submit(u) ==
    /\ page[u].at = "invoice" /\ page[u].id \in DOMAIN invoices \union {None}
    /\ \E form \in Changed(page[u]), rate \in Rates :
          LET lines == Named(form.lines)
              posted == Remapped(form.split, form.lines)
              split == IF posted = {} THEN DefaultSplit(lines, form.rows) ELSE posted
              before == Existing(u)
          IN  /\ changes' = IF form = page[u] THEN changes ELSE changes + 1
              /\ lines # <<>> /\ Balanced(lines, split) /\ RateAllowed(u, before.rate, rate)
              /\ page' = [page EXCEPT ![u] =
                    [at |-> "header", id |-> form.id, lines |-> lines, odd |-> form.odd, alone |-> TRUE,
                     rate |-> RateKept(u, before.rate, rate), bill |-> before.bill, no |-> None,
                     rows |-> Carry(form.rows, before.rows), list |-> PackingRows(lines, form.rows, split)]]
    /\ UNCHANGED <<store, nextId, opened, kills, moved, removed>>

WriteHeader(u) ==
    /\ page[u].at = "header"
    /\ LET id == IF page[u].id = None THEN nextId ELSE page[u].id
           made == [by |-> u, rate |-> page[u].rate, bill |-> page[u].bill, lines |-> <<>>, rows |-> <<>>]
       IN  /\ invoices' = IF page[u].id = None THEN Put(invoices, id, made)
                          ELSE IF id \in DOMAIN invoices
                          THEN [invoices EXCEPT ![id].rate = page[u].rate, ![id].bill = page[u].bill]
                          ELSE invoices
           /\ Leave(u, [page[u] EXCEPT !.at = "children", !.id = id])
    /\ nextId' = IF page[u].id = None THEN nextId + 1 ELSE nextId
    /\ UNCHANGED <<loads, lists, opened, changes, kills, moved, removed>>

\* All the child tables in one transaction; refused when the invoice is gone.
WriteChildren(u) ==
    /\ page[u].at = "children"
    /\ LET id == page[u].id IN
       IF id \in DOMAIN invoices
       THEN /\ invoices' = [invoices EXCEPT ![id].lines = page[u].lines, ![id].rows = page[u].rows]
            /\ moved' = (moved \/ \E k \in DOMAIN invoices[id].rows :
                            k \in DOMAIN page[u].rows => page[u].rows[k].ct # invoices[id].rows[k].ct)
            /\ Leave(u, [page[u] EXCEPT !.at = "count"])
       ELSE UNCHANGED <<invoices, moved>> /\ Leave(u, Ended("failed", id, page[u].alone))
    /\ UNCHANGED <<loads, lists, nextId, opened, changes, kills, removed>>

\* next_number: the lists of the day, counted ahead of the upsert.
CountLists(u) ==
    /\ page[u].at = "count"
    /\ page' = [page EXCEPT ![u].at = "list", ![u].no = Cardinality(DOMAIN lists) + 1]
    /\ UNCHANGED <<store, nextId, opened, changes, kills, moved, removed>>

\* Deviation: a list is given the number that was counted, whether or not it has one.
ListNumber_Anew(i, no) == no
ListNumber(i, no) == IF i \in DOMAIN lists THEN lists[i].no ELSE no
\* Deviation: two lists may bear one number.
NumberTaken_Never(i, no) == FALSE
NumberTaken(i, no) == \E j \in DOMAIN lists \ {i} : lists[j].no = no
\* upsert_for_invoice: its number is kept, or refused when another list has it.
SaveList(u) ==
    /\ page[u].at = "list"
    /\ LET i == page[u].id
           no == ListNumber(i, page[u].no)
       IN  IF i \in DOMAIN invoices /\ ~NumberTaken(i, no)
           THEN /\ lists' = Put(lists, i, [no |-> no, rows |-> page[u].list, odd |-> page[u].odd])
                /\ Leave(u, Ended("done", i, page[u].alone))
           ELSE UNCHANGED lists /\ Leave(u, Ended("failed", i, page[u].alone))
    /\ UNCHANGED <<loads, invoices, nextId, opened, changes, kills, moved, removed>>

\* The process dies between two of these transactions.
Kill(u) ==
    /\ page[u].at \in {"children", "count", "list"} /\ kills < MaxKills
    /\ kills' = kills + 1
    /\ page' = [page EXCEPT ![u] = Closed]
    /\ UNCHANGED <<store, nextId, opened, changes, moved, removed>>

-----------------------------------------------------------------------------
(* The list page's popups and the per-container sheets: targeted writes.   *)

UpdateShippingBill(u, i, bill) ==
    /\ MayModify(u, i)
    /\ invoices' = [invoices EXCEPT ![i].bill = bill]
    /\ Leave(u, Closed)
    /\ UNCHANGED <<loads, lists, nextId, changes, kills, moved, removed>>

\* A row of the VGM sheet's form: container ct, in place sr.
OpenSlip(u, i, sr) ==
    /\ MayModify(u, i) /\ invoices[i].rows[sr].ct # None
    /\ Open(u, [at |-> "slip", id |-> i, sr |-> sr, ct |-> invoices[i].rows[sr].ct, alone |-> TRUE])
\* The slip bears the number of the container it is of.
UpdateVgmDetails(u) ==
    /\ page[u].at = "slip"
    /\ LET i == page[u].id IN
       IF i \in DOMAIN invoices /\ page[u].sr \in DOMAIN invoices[i].rows
       THEN invoices' = [invoices EXCEPT ![i].rows[page[u].sr].slip = page[u].ct]
       ELSE UNCHANGED invoices
    /\ Leave(u, Closed)
    /\ UNCHANGED <<loads, lists, nextId, opened, changes, kills, moved, removed>>

DeleteInvoice(u, i) ==
    /\ MayModify(u, i)
    /\ invoices' = Drop(invoices, i) /\ lists' = Drop(lists, i)
    /\ removed' = TRUE
    /\ Leave(u, Closed)
    /\ UNCHANGED <<loads, nextId, changes, kills, moved>>

-----------------------------------------------------------------------------
Init ==
    /\ loads \in Loads /\ invoices = <<>> /\ lists = <<>>
    /\ page = [u \in Users |-> Closed]
    /\ nextId = 2 /\ opened = 0 /\ changes = 0 /\ kills = 0 /\ moved = FALSE /\ removed = FALSE

Begin(u) ==
    /\ page[u].at \in {"closed", "done", "failed"} /\ Visit
    /\ \/ \E plans \in Packed : OpenLoad(u, plans)
       \/ \E l \in DOMAIN loads : EditLoad(u, l) \/ OpenInvoice(u, l)
       \/ \E i \in DOMAIN invoices :
             \/ EditInvoice(u, i) \/ DeleteInvoice(u, i)
             \/ \E bill \in 0..1 : UpdateShippingBill(u, i, bill)
             \/ \E sr \in DOMAIN invoices[i].rows : OpenSlip(u, i, sr)

Act(u) ==
    \/ SaveLoad(u) \/ UpdateVgmDetails(u)
    \/ Submit(u) \/ WriteHeader(u) \/ WriteChildren(u) \/ CountLists(u) \/ SaveList(u)
    \/ Kill(u)

Next == \E u \in Users : Begin(u) \/ Act(u)
Spec == Init /\ [][Next]_vars

-----------------------------------------------------------------------------
(* Properties.                                                             *)

\* Every document has the shape of its tables; a packing is of lines of its
\* loading planning, and a packing list of an invoice that is there, under a
\* number no other list has.
LoadsFit ==
    \A l \in DOMAIN loads : \A n \in DOMAIN loads[l].packings :
        /\ loads[l].packings[n].at \in 0..Len(loads[l].rows)
        /\ \A k \in DOMAIN loads[l].packings[n].contents :
              loads[l].packings[n].contents[k].sr \in DOMAIN loads[l].lines
InvoicesFit ==
    /\ \A i \in DOMAIN invoices : invoices[i].by \in Users /\ invoices[i].rate \in Rates
                                  /\ invoices[i].bill \in 0..1
    /\ DOMAIN lists \subseteq DOMAIN invoices
    /\ \A i, j \in DOMAIN lists : lists[i].no = lists[j].no => i = j
TypeOK == LoadsFit /\ InvoicesFit

\* A clean import balances: of every line of a loading planning its packings
\* hold all the boxes, whichever plannings were merged, and whatever was done
\* to them since ("both halves come off the same packing plan").
LoadsBalance ==
    \A l \in DOMAIN loads : \A sr \in DOMAIN loads[l].lines :
        loads[l].lines[sr].boxes =
            BoxesPacked([n \in DOMAIN loads[l].packings |-> loads[l].packings[n].contents], {sr})

\* What auto-assigning fills is never over weight on the loading planning's own
\* summary (container_summary), but for what weighs too much empty, and a packing
\* is left out only when no container could still take it.
AutoAssignFits ==
    \A l \in DOMAIN loads : \A rows \in Bookings :
        LET packings == loads[l].packings
            at == AutoAssigned(packings, rows)
        IN  \A k \in DOMAIN rows : Limit[rows[k]] > 0 =>
                /\ \/ Vgm(rows, packings, at, k) <= Limit[rows[k]]
                   \/ \A n \in DOMAIN at : at[n] # k
                /\ \A n \in DOMAIN at : at[n] = None =>
                       Vgm(rows, packings, at, k) + Gross(packings[n]) > Limit[rows[k]]

\* An invoice form a loading planning filled can be submitted as it stands just
\* when every packing that holds a box is in a container that went out.
FullLoadIsAccepted ==
    \A u \in Users : (page[u].at = "invoice" /\ page[u].load \in DOMAIN loads /\ page[u].alone) =>
        (Balanced(page[u].lines, page[u].split) <=>
            LET load == loads[page[u].load] IN
            \A n \in DOMAIN load.packings : BoxesIn(load.packings[n].contents) > 0 =>
                load.packings[n].at # None /\ load.rows[load.packings[n].at] # None)

\* The boxes of a loading planning, from the packings through the containers
\* to the invoice form: none is lost, doubled or put where it does not fit.
LoadsAreSound ==
    /\ TypeOK
    /\ LoadsBalance
    /\ AutoAssignFits
    /\ FullLoadIsAccepted

\* Whatever the user makes of the form, the server finds the boxes of every
\* goods line in containers just when the screen does: clearing a row shifts
\* the lines under the split, and both number them anew.
ScreenAgreesWithServer ==
    \A u \in Users : page[u].at = "invoice" => \A form \in Changed(page[u]) :
        Remapped(form.split, form.lines) # {} =>
            (Balanced(Named(form.lines), Remapped(form.split, form.lines))
                <=> \A k \in DOMAIN form.lines : form.lines[k].product # None =>
                        BoxesInSplit(form.split, k) = form.lines[k].boxes)

\* The packing list says of every box the container it was put into and the
\* product it is of, though it refers to both by position: as long as each row
\* of the 11B table names a container and none was dropped under the split.
SplitIsAsEntered ==
    \A i \in DOMAIN lists : ~lists[i].odd =>
        \A r \in lists[i].rows : r.ct = r.meant /\ r.product = r.of

\* The places of the containers mean the same on the screen, in what is posted,
\* in the split and in the packing list, although each numbers them its own way.
PlacesAgree ==
    /\ ScreenAgreesWithServer
    /\ SplitIsAsEntered

\* A save that nobody came between fails only when an invoice was deleted,
\* whose list's number the count then gives away again.
LoneSaveSucceeds ==
    \A u \in Users : (page[u].at \in {"done", "failed"} /\ page[u].alone) =>
        IF page[u].at = "failed" THEN removed ELSE page[u].id \in DOMAIN lists

\* It leaves the list of exactly the boxes the invoice has.
LoneSaveIsListed ==
    \A u \in Users : (page[u].at = "done" /\ page[u].alone) =>
        Balanced(invoices[page[u].id].lines, lists[page[u].id].rows)

\* A weighing slip stays with the container it was typed for, through edits
\* that rewrite the rows and carry it by position: as long as none of them
\* takes a container from its place.
SlipsStay ==
    ~moved => \A i \in DOMAIN invoices : \A k \in DOMAIN invoices[i].rows :
        invoices[i].rows[k].slip \in {None, invoices[i].rows[k].ct}

\* After a save, the list and the slips are those of the invoice that was saved.
SavesAreSound ==
    /\ LoneSaveSucceeds
    /\ LoneSaveIsListed
    /\ SlipsStay

\* An edit nobody came between takes away nothing that is entered elsewhere:
\* neither the shipping bill nor the slip of a row that stays.
LoneEditKeepsPopups ==
    [][\A u \in Users : page[u].at \in {"header", "children"} /\ page'[u].at # page[u].at /\ page[u].alone
                         /\ page[u].id \in DOMAIN invoices \intersect DOMAIN invoices' =>
          LET i == page[u].id IN
          /\ invoices'[i].bill = invoices[i].bill
          /\ \A k \in DOMAIN invoices[i].rows \intersect DOMAIN invoices'[i].rows :
                invoices'[i].rows[k].slip = invoices[i].rows[k].slip]_vars

\* A rate that is set is changed by an admin, or by a save that read the
\* invoice before it was.
RateIsTheAdmins ==
    [][\A i \in DOMAIN invoices \intersect DOMAIN invoices' :
          (invoices[i].rate # 0 /\ invoices'[i].rate # invoices[i].rate) =>
              \E u \in Users : page[u].at = "header" /\ (u \in Admins \/ ~page[u].alone)]_vars

\* The number a packing list went out under survives every edit of its invoice.
ListKeepsItsNumber ==
    [][\A i \in DOMAIN lists \intersect DOMAIN lists' : lists'[i].no = lists[i].no]_vars

\* What was entered on other pages, or by those allowed to, outlives an edit.
EditsKeepWhatIsNotTheirs ==
    /\ LoneEditKeepsPopups
    /\ RateIsTheAdmins
    /\ ListKeepsItsNumber
=============================================================================
