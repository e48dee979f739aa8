----------------------------- MODULE Shipping_proofs -----------------------------
(***************************************************************************)
(* What holds of Shipping for every set of users, bookings and packing     *)
(* plannings: an edit that no other came between takes away nothing that   *)
(* is entered elsewhere; a weighing slip stays with its container; every   *)
(* packing list is of an invoice, under a number of its own; and a save    *)
(* that no other came between goes through.  The packings of a loading     *)
(* planning hold every box of its lines, in containers that can carry      *)
(* them; a form of an invoice, and the invoice a save that no other came   *)
(* between leaves, account for each line's boxes exactly once when all of  *)
(* them went out.                                                          *)
(***************************************************************************)
EXTENDS Shipping, Counting

-----------------------------------------------------------------------------
(* Typing.                                                                 *)

Saving == {"header", "children", "count", "list"}
Ats == {"load", "invoice", "slip", "done", "failed"} \union Saving

RowShape(rows) == \A k \in DOMAIN rows : {"ct", "slip"} \subseteq DOMAIN rows[k]

\* A page has the fields of what it shows.
PageShape(r) ==
    \/ r = Closed
    \/ /\ {"at", "id", "alone"} \subseteq DOMAIN r
       /\ r.at \in Ats /\ r.alone \in BOOLEAN
       /\ r.at = "slip" => {"sr", "ct"} \subseteq DOMAIN r
       /\ r.at \in Saving =>
             /\ {"lines", "rate", "bill", "no", "rows", "list", "odd"} \subseteq DOMAIN r
             /\ r.rate \in Rates /\ r.bill \in 0..1 /\ RowShape(r.rows)

\* What it is of has been given its id.
OfAnId(r, next) == r.at \in Saving \union {"invoice", "slip"} => r.id \in Nat /\ r.id < next

InvoiceShape(x) == {"by", "rate", "bill", "lines", "rows"} \subseteq DOMAIN x /\ RowShape(x.rows)

Ids == \A i \in DOMAIN invoices : i \in Nat \ {0} /\ i < nextId

ShapeInv ==
    /\ DOMAIN page = Users /\ nextId \in Nat \ {0}
    /\ \A u \in Users : PageShape(page[u]) /\ OfAnId(page[u], nextId)
    /\ \A i \in DOMAIN invoices : InvoiceShape(invoices[i])
    /\ Ids
    /\ InvoicesFit

\* A closed page is no other.
LEMMA ClosedAt == Closed.at = "closed" /\ Closed.at \notin Ats
BY DEF Closed, Ats, Saving

\* An open page has a place, an id and the mark of being alone.
LEMMA OpenPage ==
    ASSUME NEW r, PageShape(r), r.at \in Ats
    PROVE  /\ {"at", "id", "alone"} \subseteq DOMAIN r /\ r # Closed
           /\ r.alone \in BOOLEAN
BY ClosedAt DEF PageShape

\* What a page of user v is after a step of another.
Passed(r, s) ==
    /\ PageShape(s)
    /\ s.at = r.at
    /\ r = Closed => s = Closed
    /\ r.at \in Ats => s.id = r.id /\ (s.alone => r.alone)
    /\ r.at = "slip" => s.sr = r.sr /\ s.ct = r.ct
    /\ r.at \in Saving =>
          s.rows = r.rows /\ s.bill = r.bill /\ s.rate = r.rate /\ s.no = r.no

\* A page that is let be, and one another user leaves unalone, is as it was.
LEMMA PassedBy ==
    ASSUME NEW r, PageShape(r)
    PROVE  /\ Passed(r, r)
           /\ r # Closed => /\ Passed(r, [r EXCEPT !.alone = FALSE])
                            /\ ~([r EXCEPT !.alone = FALSE]).alone
<1>1. Passed(r, r)
  BY DEF Passed
<1>2. ASSUME r # Closed
      PROVE  /\ Passed(r, [r EXCEPT !.alone = FALSE])
             /\ ~([r EXCEPT !.alone = FALSE]).alone
  <2> DEFINE s == [r EXCEPT !.alone = FALSE]
  <2>1. {"at", "id", "alone"} \subseteq DOMAIN r /\ r.at \in Ats
    BY <1>2 DEF PageShape
  <2>2. s.at = r.at /\ s.id = r.id /\ s.alone = FALSE /\ DOMAIN s = DOMAIN r
    BY <2>1
  <2>3. ASSUME r.at = "slip"
        PROVE  s.sr = r.sr /\ s.ct = r.ct /\ {"sr", "ct"} \subseteq DOMAIN s
    BY <1>2, <2>2, <2>3 DEF PageShape
  <2>4. ASSUME r.at \in Saving
        PROVE  /\ s.rows = r.rows /\ s.bill = r.bill /\ s.rate = r.rate /\ s.no = r.no
               /\ {"lines", "rate", "bill", "no", "rows", "list", "odd"} \subseteq DOMAIN s
               /\ s.rate \in Rates /\ s.bill \in 0..1 /\ RowShape(s.rows)
    BY <1>2, <2>2, <2>4 DEF PageShape
  <2> HIDE DEF s
  <2>5. PageShape(s)
    BY <2>1, <2>2, <2>3, <2>4 DEF PageShape
  <2>6. Passed(r, s)
    BY <1>2, <2>2, <2>3, <2>4, <2>5 DEF Passed
  <2>7. QED
    BY <2>2, <2>6 DEF s
<1>3. QED
  BY <1>1, <1>2

\* Leaving a page: the user's own is the one given, the others are not alone.
LEMMA LeaveStep ==
    ASSUME NEW u \in Users, NEW next, Leave(u, next), \A v \in Users : PageShape(page[v])
    PROVE  /\ DOMAIN page' = Users /\ page'[u] = next
           /\ \A v \in Users \ {u} : /\ Passed(page[v], page'[v])
                                     /\ page[v] = Closed \/ ~page'[v].alone
<1>1. DOMAIN page' = Users /\ page'[u] = next
  BY DEF Leave
<1>2. ASSUME NEW v \in Users \ {u}
      PROVE  Passed(page[v], page'[v]) /\ (page[v] = Closed \/ ~page'[v].alone)
  <2>1. page'[v] = IF page[v] = Closed THEN Closed ELSE [page[v] EXCEPT !.alone = FALSE]
    BY DEF Leave
  <2>2. QED
    BY <2>1, PassedBy
<1>3. QED
  BY <1>1, <1>2

\* An edit of the user's own page leaves the others be.
LEMMA EditStep ==
    ASSUME NEW u \in Users, NEW next, page' = [page EXCEPT ![u] = next],
           DOMAIN page = Users, \A v \in Users : PageShape(page[v])
    PROVE  /\ DOMAIN page' = Users /\ page'[u] = next
           /\ \A v \in Users \ {u} : page'[v] = page[v] /\ Passed(page[v], page'[v])
<1>1. \A v \in Users \ {u} : page'[v] = page[v]
  OBVIOUS
<1>2. QED
  BY <1>1, PassedBy

\* What the steps do to the page of their user: the form it is left as is that
\* of the same invoice.
LEMMA ChangedIsOfIt ==
    ASSUME NEW form, PageShape(form), form.at = "invoice", NEW f \in Changed(form)
    PROVE  f.id = form.id
<1>1. {"at", "id", "alone"} \subseteq DOMAIN form
  BY OpenPage DEF Ats
<1>2. CASE f = form
  BY <1>2
<1>3. CASE f \in Rebooked(form)
  BY <1>1, <1>3 DEF Rebooked
<1>4. CASE f \in LineCleared(form)
  BY <1>1, <1>4 DEF LineCleared
<1>5. CASE f \in BoxTaken(form)
  BY <1>1, <1>5 DEF BoxTaken
<1>6. CASE f = [form EXCEPT !.rows = Tail(@), !.odd = TRUE]
  BY <1>1, <1>6
<1>7. QED
  BY <1>2, <1>3, <1>4, <1>5, <1>6 DEF Changed

\* The rows a save writes: those of the form, with the slips that were read.
LEMMA CarriedRows ==
    ASSUME NEW rows, NEW before
    PROVE  /\ DOMAIN Carry(rows, before) = DOMAIN rows /\ RowShape(Carry(rows, before))
           /\ \A k \in DOMAIN rows :
                 /\ Carry(rows, before)[k].ct = rows[k]
                 /\ Carry(rows, before)[k].slip = IF k \in DOMAIN before THEN before[k].slip ELSE None
BY DEF Carry, RowShape

-----------------------------------------------------------------------------
(* The steps, by what they do to the tables and to the page of their user. *)

\* A page is opened or closed, and the tables of the invoices stay.
Looks(u) ==
    /\ page'[u] = Closed \/ (page'[u].at \in {"load", "invoice", "slip"} /\ page'[u] # Closed)
    /\ UNCHANGED <<invoices, lists, moved, removed>> /\ nextId' \in {nextId, nextId + 1}
    /\ page'[u].at = "slip" =>
          /\ page'[u].id \in DOMAIN invoices
          /\ page'[u].sr \in DOMAIN invoices[page'[u].id].rows
          /\ page'[u].ct = invoices[page'[u].id].rows[page'[u].sr].ct

\* The form is submitted: what will be written, and what was read for it.
Submitted(u) ==
    /\ page[u].at = "invoice" /\ page[u].id \in DOMAIN invoices \union {None}
    /\ page'[u].at = "header" /\ page'[u].id = page[u].id
    /\ page'[u].bill = Existing(u).bill
    /\ \E rate \in Rates : page'[u].rate = RateKept(u, Existing(u).rate, rate)
    /\ \E rows : page'[u].rows = Carry(rows, Existing(u).rows)
    /\ UNCHANGED <<invoices, lists, nextId, moved, removed>>

\* The page a step leaves its user, and that of the others.
Turn(u) ==
    /\ DOMAIN page' = Users
    /\ PageShape(page'[u]) /\ OfAnId(page'[u], nextId')
    /\ \A v \in Users \ {u} : Passed(page[v], page'[v])
    /\ \A v \in Users \ {u} : UNCHANGED <<invoices, lists>> \/ page[v] = Closed \/ ~page'[v].alone

\* Opening a page, or closing one whose tables stay.
LEMMA LooksStep ==
    ASSUME ShapeInv, NEW u \in Users, Begin(u) \/ SaveLoad(u) \/ Kill(u)
    PROVE  \/ Looks(u) /\ Turn(u)
           \/ /\ page[u].at \notin Saving
              /\ \/ \E i \in DOMAIN invoices, bill \in 0..1 : UpdateShippingBill(u, i, bill)
                 \/ \E i \in DOMAIN invoices : DeleteInvoice(u, i)
<1>1. CASE SaveLoad(u)
  <2>1. page'[u] = Closed
    BY <1>1, LeaveStep DEF SaveLoad, ShapeInv
  <2>2. nextId' \in {nextId, nextId + 1}
    BY <1>1 DEF SaveLoad, ShapeInv
  <2>3. Looks(u)
    BY <1>1, <2>1, <2>2, ClosedAt DEF SaveLoad, Looks, Ats
  <2>4. Turn(u)
    BY <1>1, <2>1, LeaveStep, ClosedAt DEF SaveLoad, ShapeInv, Turn, PageShape, OfAnId, Ats, Saving
  <2>5. QED
    BY <2>3, <2>4
<1>2. CASE Kill(u)
  <2>1. page'[u] = Closed
    BY <1>2, EditStep DEF Kill, ShapeInv
  <2>2. Looks(u)
    BY <1>2, <2>1, ClosedAt DEF Kill, Looks, ShapeInv, store, Ats
  <2>3. Turn(u)
    BY <1>2, <2>1, <2>2, EditStep, ClosedAt
    DEF Kill, Looks, ShapeInv, Turn, PageShape, OfAnId, Ats, Saving
  <2>4. QED
    BY <2>2, <2>3
<1>3. ASSUME NEW content, Open(u, content), PageShape(content), OfAnId(content, nextId),
             content.at \in {"load", "invoice", "slip"},
             content.at = "slip" =>
                 /\ content.id \in DOMAIN invoices
                 /\ content.sr \in DOMAIN invoices[content.id].rows
                 /\ content.ct = invoices[content.id].rows[content.sr].ct
      PROVE  Looks(u) /\ Turn(u)
  <2>1. page'[u] = content /\ content # Closed
    BY <1>3, EditStep, ClosedAt DEF Open, ShapeInv, Ats
  <2>2. Looks(u)
    BY <1>3, <2>1 DEF Open, store, Looks, ShapeInv
  <2>3. Turn(u)
    BY <1>3, <2>1, EditStep DEF Open, store, ShapeInv, Turn
  <2>4. QED
    BY <2>2, <2>3
<1>4. CASE Begin(u)
  <2>1. CASE \E plans \in Packed : OpenLoad(u, plans)
    <3>1. PICK plans \in Packed : OpenLoad(u, plans)
      BY <2>1
    <3> DEFINE doc == Imported(plans)
               new == [at |-> "load", id |-> None, lines |-> doc.lines, packings |-> doc.packings,
                       rows |-> <<>>, alone |-> TRUE]
    <3>2. Open(u, new)
      BY <3>1 DEF OpenLoad
    <3> HIDE DEF doc
    <3>3. PageShape(new) /\ OfAnId(new, nextId) /\ new.at = "load"
      BY DEF PageShape, OfAnId, Ats, Saving
    <3>4. QED
      BY <1>3, <3>2, <3>3
  <2>2. CASE \E l \in DOMAIN loads : EditLoad(u, l) \/ OpenInvoice(u, l)
    <3>1. PICK l \in DOMAIN loads : EditLoad(u, l) \/ OpenInvoice(u, l)
      BY <2>2
    <3>2. CASE EditLoad(u, l)
      <4> DEFINE new == [at |-> "load", id |-> l, lines |-> loads[l].lines,
                         packings |-> loads[l].packings, rows |-> loads[l].rows, alone |-> TRUE]
      <4>1. Open(u, new)
        BY <3>2 DEF EditLoad
      <4>2. PageShape(new) /\ OfAnId(new, nextId) /\ new.at = "load"
        BY DEF PageShape, OfAnId, Ats, Saving
      <4>3. QED
        BY <1>3, <4>1, <4>2
    <3>3. CASE OpenInvoice(u, l)
      <4> DEFINE lines == Goods(loads[l].lines)
                 rows == Shipped(loads[l].rows)
                 split == Rendered(Given(SplitOf(loads[l])), Shipped(loads[l].rows))
                 new == [at |-> "invoice", id |-> None, lines |-> lines, rows |-> rows,
                         split |-> split, odd |-> FALSE, alone |-> TRUE, load |-> l]
      <4>1. Open(u, new)
        BY <3>3 DEF OpenInvoice
      <4> HIDE DEF lines, rows, split
      <4>2. PageShape(new) /\ OfAnId(new, nextId) /\ new.at = "invoice"
        BY DEF PageShape, OfAnId, Ats, Saving, None, ShapeInv
      <4>3. QED
        BY <1>3, <4>1, <4>2
    <3>4. QED
      BY <3>1, <3>2, <3>3
  <2>3. CASE \E i \in DOMAIN invoices : EditInvoice(u, i)
    <3>1. PICK i \in DOMAIN invoices : EditInvoice(u, i)
      BY <2>3
    <3>2. PICK lines, rows, split, odd :
             Open(u, [at |-> "invoice", id |-> i, lines |-> lines, rows |-> rows, split |-> split,
                      odd |-> odd, alone |-> TRUE, load |-> None])
      BY <3>1 DEF EditInvoice
    <3> DEFINE new == [at |-> "invoice", id |-> i, lines |-> lines, rows |-> rows,
                       split |-> split, odd |-> odd, alone |-> TRUE, load |-> None]
    <3>3. PageShape(new) /\ OfAnId(new, nextId) /\ new.at = "invoice"
      BY DEF PageShape, OfAnId, Ats, Saving, ShapeInv, Ids
    <3>4. QED
      BY <1>3, <3>2, <3>3
  <2>4. CASE \E i \in DOMAIN invoices : \E sr \in DOMAIN invoices[i].rows : OpenSlip(u, i, sr)
    <3>0. PICK i \in DOMAIN invoices : \E sr \in DOMAIN invoices[i].rows : OpenSlip(u, i, sr)
      BY <2>4
    <3>1. PICK sr \in DOMAIN invoices[i].rows : OpenSlip(u, i, sr)
      BY <3>0
    <3> DEFINE new == [at |-> "slip", id |-> i, sr |-> sr, ct |-> invoices[i].rows[sr].ct,
                       alone |-> TRUE]
    <3>2. Open(u, new)
      BY <3>1 DEF OpenSlip
    <3>3. PageShape(new) /\ OfAnId(new, nextId) /\ new.at = "slip"
      BY DEF PageShape, OfAnId, Ats, Saving, ShapeInv, Ids
    <3>4. QED
      BY <1>3, <3>2, <3>3
  <2>5. QED
    BY <1>4, <2>1, <2>2, <2>3, <2>4 DEF Begin, Saving
<1>5. QED
  BY <1>1, <1>2, <1>4

\* What a submitted form leaves to be written.
ToWrite(u, form, rate, lines, list) ==
    [at |-> "header", id |-> form.id, lines |-> lines, odd |-> form.odd, alone |-> TRUE,
     rate |-> RateKept(u, Existing(u).rate, rate), bill |-> Existing(u).bill, no |-> None,
     rows |-> Carry(form.rows, Existing(u).rows), list |-> list]

\* Submitting keeps the tables.
LEMMA SubmitStep ==
    ASSUME ShapeInv, NEW u \in Users, Submit(u)
    PROVE  Submitted(u) /\ Turn(u)
<1>1. page[u].at = "invoice" /\ page[u].id \in DOMAIN invoices \union {None}
  BY DEF Submit
<1>2. PICK form \in Changed(page[u]), rate \in Rates : \E lines, list :
         page' = [page EXCEPT ![u] = ToWrite(u, form, rate, lines, list)]
  <2>1. PICK form \in Changed(page[u]), rate \in Rates :
          LET lines == Named(form.lines)
              posted == Remapped(form.split, form.lines)
              split == IF posted = {} THEN DefaultSplit(lines, form.rows) ELSE posted
              before == Existing(u)
          IN  page' = [page EXCEPT ![u] =
                 [at |-> "header", id |-> form.id, lines |-> lines, odd |-> form.odd, alone |-> TRUE,
                  rate |-> RateKept(u, before.rate, rate), bill |-> before.bill, no |-> None,
                  rows |-> Carry(form.rows, before.rows),
                  list |-> PackingRows(lines, form.rows, split)]]
    BY DEF Submit
  <2>2. QED
    BY <2>1 DEF ToWrite
<1>3. PICK lines, list : page' = [page EXCEPT ![u] = ToWrite(u, form, rate, lines, list)]
  BY <1>2
<1> DEFINE new == ToWrite(u, form, rate, lines, list)
<1>4. form.id = page[u].id
  BY <1>1, <1>2, ChangedIsOfIt DEF ShapeInv
<1>5. Existing(u).rate \in Rates /\ Existing(u).bill \in 0..1
  BY <1>1 DEF Existing, ShapeInv, InvoicesFit, Rates, None
<1>6. page[u].id \in Nat /\ page[u].id < nextId
  BY <1>1 DEF ShapeInv, OfAnId
<1>7. page'[u] = new
  BY <1>3, EditStep DEF ShapeInv
<1>8. Submitted(u)
  BY <1>1, <1>2, <1>4, <1>7 DEF Submitted, Submit, store, ToWrite
<1>9. RowShape(new.rows) /\ new.rate \in Rates /\ new.bill \in 0..1
  BY <1>5, CarriedRows DEF RateKept, ToWrite
<1>10. PageShape(new) /\ OfAnId(new, nextId')
  BY <1>4, <1>6, <1>8, <1>9 DEF PageShape, OfAnId, Ats, Saving, Submitted, ToWrite
<1>11. UNCHANGED <<invoices, lists>>
  BY <1>8 DEF Submitted
<1>12. Turn(u)
  BY <1>3, <1>7, <1>10, <1>11, EditStep DEF Turn, ShapeInv
<1>13. QED
  BY <1>8, <1>12

\* The page of a save that goes on to its next transaction.
GoesOn(r, s, at) ==
    /\ s.at = at /\ s.alone = r.alone /\ PageShape(s)
    /\ s.rows = r.rows /\ s.bill = r.bill /\ s.rate = r.rate

\* The page of a save that is over.
LEMMA EndedPage ==
    ASSUME NEW at \in {"done", "failed"}, NEW i, NEW alone \in BOOLEAN, NEW n
    PROVE  /\ PageShape(Ended(at, i, alone)) /\ OfAnId(Ended(at, i, alone), n)
           /\ Ended(at, i, alone).at = at /\ Ended(at, i, alone).id = i
           /\ Ended(at, i, alone).alone = alone
BY DEF Ended, PageShape, OfAnId, Ats, Saving

\* A save whose page moves on keeps what it is to write.
LEMMA MovesOn ==
    ASSUME NEW r, PageShape(r), r.at \in Saving, NEW at \in Saving, NEW s,
           DOMAIN s = DOMAIN r, s.at = at,
           \A f \in {"alone", "rate", "bill", "rows"} : s[f] = r[f]
    PROVE  GoesOn(r, s, at)
<1>1. /\ {"at", "id", "alone"} \subseteq DOMAIN r /\ r.alone \in BOOLEAN
      /\ {"lines", "rate", "bill", "no", "rows", "list", "odd"} \subseteq DOMAIN r
      /\ r.rate \in Rates /\ r.bill \in 0..1 /\ RowShape(r.rows)
  BY ClosedAt DEF PageShape, Ats, Saving
<1>2. s.alone = r.alone /\ s.rate = r.rate /\ s.bill = r.bill /\ s.rows = r.rows
  OBVIOUS
<1>3. PageShape(s)
  BY <1>1, <1>2 DEF PageShape, Ats, Saving
<1>4. QED
  BY <1>2, <1>3 DEF GoesOn

\* The invoice a header is written to.
Target(u) == IF page[u].id = None THEN nextId ELSE page[u].id

\* The transactions of a save, by the page they leave.
LEMMA SavingStep ==
    ASSUME ShapeInv, NEW u \in Users
    PROVE  /\ WriteHeader(u) =>
                 Turn(u) /\ GoesOn(page[u], page'[u], "children") /\ page'[u].id = Target(u)
           /\ WriteChildren(u) =>
                 /\ Turn(u) /\ page'[u].id = page[u].id
                 /\ IF page[u].id \in DOMAIN invoices THEN GoesOn(page[u], page'[u], "count")
                    ELSE page'[u] = Ended("failed", page[u].id, page[u].alone)
           /\ CountLists(u) =>
                 /\ Turn(u) /\ GoesOn(page[u], page'[u], "list") /\ page'[u].id = page[u].id
                 /\ page'[u].no = Cardinality(DOMAIN lists) + 1
           /\ SaveList(u) =>
                 Turn(u) /\ \E at \in {"done", "failed"} :
                               page'[u] = Ended(at, page[u].id, page[u].alone)
<1>1. ASSUME page[u].at \in Saving
      PROVE  /\ PageShape(page[u]) /\ page[u].alone \in BOOLEAN
             /\ page[u].id \in Nat /\ page[u].id < nextId
             /\ {"at", "id", "alone", "rate", "bill", "rows", "no"} \subseteq DOMAIN page[u]
  BY <1>1, OpenPage DEF ShapeInv, OfAnId, Ats, PageShape
<1>2. ASSUME WriteHeader(u)
      PROVE  Turn(u) /\ GoesOn(page[u], page'[u], "children") /\ page'[u].id = Target(u)
  <2>1. page[u].at \in Saving
    BY <1>2 DEF WriteHeader, Saving
  <2>2. Leave(u, [page[u] EXCEPT !.at = "children", !.id = Target(u)])
    BY <1>2 DEF WriteHeader, Target
  <2>3. page'[u] = [page[u] EXCEPT !.at = "children", !.id = Target(u)]
    BY <2>2, LeaveStep DEF ShapeInv
  <2>4. GoesOn(page[u], page'[u], "children") /\ page'[u].id = Target(u)
    <3>1. /\ DOMAIN page'[u] = DOMAIN page[u] /\ page'[u].at = "children" /\ page'[u].id = Target(u)
          /\ \A f \in {"alone", "rate", "bill", "rows"} : page'[u][f] = page[u][f]
      BY <1>1, <2>1, <2>3
    <3>2. QED
      BY <1>1, <2>1, <3>1, MovesOn DEF Saving
  <2>5. nextId' = IF page[u].id = None THEN nextId + 1 ELSE nextId
    BY <1>2 DEF WriteHeader
  <2>6. OfAnId(page'[u], nextId')
    BY <1>1, <2>1, <2>4, <2>5 DEF OfAnId, Target, ShapeInv
  <2>7. Turn(u)
    BY <2>2, <2>4, <2>6, LeaveStep DEF Turn, GoesOn, ShapeInv
  <2>8. QED
    BY <2>4, <2>7
<1>3. ASSUME WriteChildren(u)
      PROVE  /\ Turn(u) /\ page'[u].id = page[u].id
             /\ IF page[u].id \in DOMAIN invoices THEN GoesOn(page[u], page'[u], "count")
                ELSE page'[u] = Ended("failed", page[u].id, page[u].alone)
  <2>1. page[u].at \in Saving /\ nextId' = nextId
    BY <1>3 DEF WriteChildren, Saving
  <2>2. CASE page[u].id \in DOMAIN invoices
    <3>1. Leave(u, [page[u] EXCEPT !.at = "count"])
      BY <1>3, <2>2 DEF WriteChildren
    <3>2. page'[u] = [page[u] EXCEPT !.at = "count"]
      BY <3>1, LeaveStep DEF ShapeInv
    <3>3. GoesOn(page[u], page'[u], "count") /\ page'[u].id = page[u].id
      <4>1. /\ DOMAIN page'[u] = DOMAIN page[u] /\ page'[u].at = "count" /\ page'[u].id = page[u].id
            /\ \A f \in {"alone", "rate", "bill", "rows"} : page'[u][f] = page[u][f]
        BY <1>1, <2>1, <3>2
      <4>2. QED
        BY <1>1, <2>1, <4>1, MovesOn DEF Saving
    <3>4. Turn(u)
      BY <1>1, <2>1, <3>1, <3>3, LeaveStep DEF Turn, GoesOn, ShapeInv, OfAnId
    <3>5. QED
      BY <2>2, <3>3, <3>4
  <2>3. CASE page[u].id \notin DOMAIN invoices
    <3>1. Leave(u, Ended("failed", page[u].id, page[u].alone))
      BY <1>3, <2>3 DEF WriteChildren
    <3>2. page'[u] = Ended("failed", page[u].id, page[u].alone)
      BY <3>1, LeaveStep DEF ShapeInv
    <3>3. page'[u].id = page[u].id
      BY <1>1, <2>1, <3>2, EndedPage
    <3>4. PageShape(page'[u]) /\ OfAnId(page'[u], nextId')
      BY <1>1, <2>1, <3>2, EndedPage
    <3>5. /\ DOMAIN page' = Users
          /\ \A v \in Users \ {u} : /\ Passed(page[v], page'[v])
                                    /\ page[v] = Closed \/ ~page'[v].alone
      BY <3>1, LeaveStep DEF ShapeInv
    <3>6. Turn(u)
      BY <3>4, <3>5 DEF Turn
    <3>7. QED
      BY <2>3, <3>2, <3>3, <3>6
  <2>4. QED
    BY <2>2, <2>3
<1>4. ASSUME CountLists(u)
      PROVE  /\ Turn(u) /\ GoesOn(page[u], page'[u], "list") /\ page'[u].id = page[u].id
             /\ page'[u].no = Cardinality(DOMAIN lists) + 1
  <2>1. page[u].at \in Saving /\ nextId' = nextId /\ UNCHANGED <<invoices, lists>>
    BY <1>4 DEF CountLists, Saving, store
  <2> DEFINE n == Cardinality(DOMAIN lists) + 1
  <2>2. page' = [page EXCEPT ![u] = [page[u] EXCEPT !.at = "list", !.no = n]]
    BY <1>4 DEF CountLists, ShapeInv
  <2> HIDE DEF n
  <2>3. page'[u] = [page[u] EXCEPT !.at = "list", !.no = n]
    BY <2>2, EditStep DEF ShapeInv
  <2>4. GoesOn(page[u], page'[u], "list") /\ page'[u].id = page[u].id /\ page'[u].no = n
    <3>1. /\ DOMAIN page'[u] = DOMAIN page[u] /\ page'[u].at = "list" /\ page'[u].id = page[u].id /\ page'[u].no = n
          /\ \A f \in {"alone", "rate", "bill", "rows"} : page'[u][f] = page[u][f]
      BY <1>1, <2>1, <2>3
    <3>2. QED
      BY <1>1, <2>1, <3>1, MovesOn DEF Saving
  <2>5. Turn(u)
    BY <1>1, <2>1, <2>2, <2>4, EditStep DEF Turn, GoesOn, ShapeInv, OfAnId
  <2>6. QED
    BY <2>4, <2>5 DEF n
<1>5. ASSUME SaveList(u)
      PROVE  Turn(u) /\ \E at \in {"done", "failed"} :
                           page'[u] = Ended(at, page[u].id, page[u].alone)
  <2>1. page[u].at \in Saving /\ nextId' = nextId
    BY <1>5 DEF SaveList, Saving
  <2>2. PICK at \in {"done", "failed"} : Leave(u, Ended(at, page[u].id, page[u].alone))
    BY <1>5 DEF SaveList
  <2>3. page'[u] = Ended(at, page[u].id, page[u].alone)
    BY <2>2, LeaveStep DEF ShapeInv
  <2>4. PageShape(page'[u]) /\ OfAnId(page'[u], nextId')
    BY <1>1, <2>1, <2>3, EndedPage
  <2>5. /\ DOMAIN page' = Users
        /\ \A v \in Users \ {u} : /\ Passed(page[v], page'[v])
                                  /\ page[v] = Closed \/ ~page'[v].alone
    BY <2>2, LeaveStep DEF ShapeInv
  <2>6. Turn(u)
    BY <2>4, <2>5 DEF Turn
  <2>7. QED
    BY <2>3, <2>6
<1>6. QED
  BY <1>2, <1>3, <1>4, <1>5

\* A popup, a slip and a deletion close the page.
LEMMA ClosingStep ==
    ASSUME ShapeInv, NEW u \in Users,
           \/ \E i \in DOMAIN invoices, bill \in 0..1 : UpdateShippingBill(u, i, bill)
           \/ \E i \in DOMAIN invoices : DeleteInvoice(u, i)
           \/ UpdateVgmDetails(u)
    PROVE  Turn(u) /\ page'[u] = Closed /\ nextId' = nextId
<1>1. Leave(u, Closed) /\ nextId' = nextId
  BY DEF UpdateShippingBill, DeleteInvoice, UpdateVgmDetails
<1>2. page'[u] = Closed
  BY <1>1, LeaveStep DEF ShapeInv
<1>3. PageShape(Closed) /\ OfAnId(Closed, nextId')
  BY ClosedAt DEF PageShape, OfAnId, Ats, Saving
<1>4. Turn(u)
  BY <1>1, <1>2, <1>3, LeaveStep DEF Turn, ShapeInv
<1>5. QED
  BY <1>1, <1>2, <1>4

-----------------------------------------------------------------------------
(* What the writing steps do to the invoices.                              *)

\* An invoice that a step changes keeps the rest, and has its rows' shape.
LEMMA HeaderTables ==
    ASSUME ShapeInv, NEW u \in Users, WriteHeader(u)
    PROVE  /\ page[u].id = None =>
                 /\ DOMAIN invoices' = DOMAIN invoices \union {nextId}
                 /\ nextId \notin DOMAIN invoices /\ nextId' = nextId + 1
                 /\ InvoiceShape(invoices'[nextId]) /\ invoices'[nextId].by = u
                 /\ invoices'[nextId].rate = page[u].rate /\ invoices'[nextId].bill = page[u].bill
                 /\ DOMAIN invoices'[nextId].rows = {}
                 /\ \A j \in DOMAIN invoices : invoices'[j] = invoices[j]
           /\ page[u].id # None =>
                 /\ DOMAIN invoices' = DOMAIN invoices /\ nextId' = nextId
                 /\ \A j \in DOMAIN invoices \ {page[u].id} : invoices'[j] = invoices[j]
                 /\ page[u].id \in DOMAIN invoices =>
                       LET x == invoices'[page[u].id]
                           y == invoices[page[u].id]
                       IN  /\ InvoiceShape(x) /\ x.by = y.by /\ x.rows = y.rows
                           /\ x.rate = page[u].rate /\ x.bill = page[u].bill
           /\ UNCHANGED <<lists, moved, removed>>
<1>1. UNCHANGED <<lists, moved, removed>>
  BY DEF WriteHeader
<1>2. ASSUME page[u].id = None
      PROVE  /\ DOMAIN invoices' = DOMAIN invoices \union {nextId}
             /\ nextId \notin DOMAIN invoices /\ nextId' = nextId + 1
             /\ InvoiceShape(invoices'[nextId]) /\ invoices'[nextId].by = u
             /\ invoices'[nextId].rate = page[u].rate /\ invoices'[nextId].bill = page[u].bill
             /\ DOMAIN invoices'[nextId].rows = {}
             /\ \A j \in DOMAIN invoices : invoices'[j] = invoices[j]
  <2> DEFINE made == [by |-> u, rate |-> page[u].rate, bill |-> page[u].bill, lines |-> <<>>, rows |-> <<>>]
  <2>1. invoices' = Put(invoices, nextId, made) /\ nextId' = nextId + 1
    BY <1>2 DEF WriteHeader
  <2>2. /\ made.by = u /\ made.rate = page[u].rate /\ made.bill = page[u].bill
        /\ DOMAIN made = {"by", "rate", "bill", "lines", "rows"} /\ made.rows = <<>>
    OBVIOUS
  <2>3. DOMAIN made.rows = {}
    BY <2>2
  <2>4. InvoiceShape(made)
    BY <2>2, <2>3 DEF InvoiceShape, RowShape
  <2>5. nextId \notin DOMAIN invoices
    BY DEF ShapeInv, Ids
  <2> HIDE DEF made
  <2>6. /\ DOMAIN invoices' = DOMAIN invoices \union {nextId} /\ invoices'[nextId] = made
        /\ \A j \in DOMAIN invoices : invoices'[j] = invoices[j]
    BY <2>1, <2>5 DEF Put
  <2>7. QED
    BY <2>1, <2>2, <2>3, <2>4, <2>5, <2>6
<1>3. ASSUME page[u].id # None
      PROVE  /\ DOMAIN invoices' = DOMAIN invoices /\ nextId' = nextId
             /\ \A j \in DOMAIN invoices \ {page[u].id} : invoices'[j] = invoices[j]
             /\ page[u].id \in DOMAIN invoices =>
                   LET x == invoices'[page[u].id]
                       y == invoices[page[u].id]
                   IN  /\ InvoiceShape(x) /\ x.by = y.by /\ x.rows = y.rows
                       /\ x.rate = page[u].rate /\ x.bill = page[u].bill
  <2>1. CASE page[u].id \in DOMAIN invoices
    <3> DEFINE i == page[u].id
    <3>1. invoices' = [invoices EXCEPT ![i].rate = page[u].rate, ![i].bill = page[u].bill]
      BY <1>3, <2>1 DEF WriteHeader
    <3>2. nextId' = nextId
      BY <1>3 DEF WriteHeader
    <3>3. InvoiceShape(invoices[i])
      BY <2>1 DEF ShapeInv
    <3> HIDE DEF i
    <3>4. /\ DOMAIN invoices' = DOMAIN invoices
          /\ \A j \in DOMAIN invoices \ {i} : invoices'[j] = invoices[j]
      BY <3>1
    <3>5. /\ DOMAIN invoices'[i] = DOMAIN invoices[i]
          /\ invoices'[i].by = invoices[i].by /\ invoices'[i].rows = invoices[i].rows
          /\ invoices'[i].rate = page[u].rate /\ invoices'[i].bill = page[u].bill
      BY <2>1, <3>1, <3>3 DEF InvoiceShape, i
    <3>6. InvoiceShape(invoices'[i])
      BY <3>3, <3>5 DEF InvoiceShape
    <3>7. QED
      BY <3>2, <3>4, <3>5, <3>6 DEF i
  <2>2. CASE page[u].id \notin DOMAIN invoices
    BY <1>3, <2>2 DEF WriteHeader
  <2>3. QED
    BY <2>1, <2>2
<1>4. QED
  BY <1>1, <1>2, <1>3

\* The child tables of one invoice are rewritten.
LEMMA ChildrenTables ==
    ASSUME ShapeInv, NEW u \in Users, WriteChildren(u)
    PROVE  /\ DOMAIN invoices' = DOMAIN invoices /\ UNCHANGED <<lists, nextId, removed>>
           /\ \A j \in DOMAIN invoices \ {page[u].id} : invoices'[j] = invoices[j]
           /\ page[u].id \notin DOMAIN invoices => moved' = moved
           /\ page[u].id \in DOMAIN invoices =>
                 LET x == invoices'[page[u].id]
                     y == invoices[page[u].id]
                 IN  /\ InvoiceShape(x) /\ x.rows = page[u].rows
                     /\ x.by = y.by /\ x.rate = y.rate /\ x.bill = y.bill
                     /\ ~moved' => ~moved /\ \A k \in DOMAIN y.rows :
                                                 k \in DOMAIN x.rows /\ x.rows[k].ct = y.rows[k].ct
<1>1. UNCHANGED <<lists, nextId, removed>>
  BY DEF WriteChildren
<1>2. CASE page[u].id \in DOMAIN invoices
  <2> DEFINE i == page[u].id
  <2>1. /\ invoices' = [invoices EXCEPT ![i].lines = page[u].lines, ![i].rows = page[u].rows]
        /\ moved' = (moved \/ \E k \in DOMAIN invoices[i].rows :
                        k \in DOMAIN page[u].rows => page[u].rows[k].ct # invoices[i].rows[k].ct)
    BY <1>2 DEF WriteChildren
  <2>2. InvoiceShape(invoices[i])
    BY <1>2 DEF ShapeInv
  <2>3. RowShape(page[u].rows)
    BY ClosedAt DEF WriteChildren, ShapeInv, PageShape, Saving, Ats
  <2> HIDE DEF i
  <2>4. /\ DOMAIN invoices' = DOMAIN invoices
        /\ \A j \in DOMAIN invoices \ {i} : invoices'[j] = invoices[j]
    BY <2>1
  <2>5. /\ DOMAIN invoices'[i] = DOMAIN invoices[i]
        /\ invoices'[i].by = invoices[i].by /\ invoices'[i].rows = page[u].rows
        /\ invoices'[i].rate = invoices[i].rate /\ invoices'[i].bill = invoices[i].bill
    BY <1>2, <2>1, <2>2 DEF InvoiceShape, i
  <2>6. InvoiceShape(invoices'[i])
    BY <2>2, <2>3, <2>5 DEF InvoiceShape
  <2>7. ~moved' => ~moved /\ \A k \in DOMAIN invoices[i].rows :
                      k \in DOMAIN page[u].rows /\ page[u].rows[k].ct = invoices[i].rows[k].ct
    BY <2>1
  <2>8. QED
    BY <1>1, <1>2, <2>4, <2>5, <2>6, <2>7 DEF i
<1>3. CASE page[u].id \notin DOMAIN invoices
  BY <1>1, <1>3 DEF WriteChildren
<1>4. QED
  BY <1>2, <1>3

\* A popup writes one column.
LEMMA BillTables ==
    ASSUME ShapeInv, NEW u \in Users, NEW i \in DOMAIN invoices, NEW bill \in 0..1,
           UpdateShippingBill(u, i, bill)
    PROVE  /\ DOMAIN invoices' = DOMAIN invoices /\ UNCHANGED <<lists, moved, removed>>
           /\ \A j \in DOMAIN invoices :
                 /\ InvoiceShape(invoices'[j])
                 /\ invoices'[j].rows = invoices[j].rows /\ invoices'[j].by = invoices[j].by
                 /\ invoices'[j].rate = invoices[j].rate /\ invoices'[j].bill \in 0..1
<1>1. invoices' = [invoices EXCEPT ![i].bill = bill] /\ UNCHANGED <<lists, moved, removed>>
  BY DEF UpdateShippingBill
<1>2. ASSUME NEW j \in DOMAIN invoices
      PROVE  /\ InvoiceShape(invoices'[j])
             /\ invoices'[j].rows = invoices[j].rows /\ invoices'[j].by = invoices[j].by
             /\ invoices'[j].rate = invoices[j].rate /\ invoices'[j].bill \in 0..1
  <2>1. InvoiceShape(invoices[j]) /\ invoices[j].bill \in 0..1
    BY DEF ShapeInv, InvoicesFit
  <2>2. /\ DOMAIN invoices'[j] = DOMAIN invoices[j]
        /\ invoices'[j].rows = invoices[j].rows /\ invoices'[j].by = invoices[j].by
        /\ invoices'[j].rate = invoices[j].rate /\ invoices'[j].bill \in 0..1
    BY <1>1, <2>1 DEF InvoiceShape
  <2>3. QED
    BY <2>1, <2>2 DEF InvoiceShape
<1>3. QED
  BY <1>1, <1>2

\* A slip writes one column of one row.
LEMMA SlipTables ==
    ASSUME ShapeInv, NEW u \in Users, UpdateVgmDetails(u)
    PROVE  /\ DOMAIN invoices' = DOMAIN invoices /\ UNCHANGED <<lists, moved, removed>>
           /\ \A j \in DOMAIN invoices :
                 /\ InvoiceShape(invoices'[j]) /\ DOMAIN invoices'[j].rows = DOMAIN invoices[j].rows
                 /\ invoices'[j].by = invoices[j].by
                 /\ invoices'[j].rate = invoices[j].rate /\ invoices'[j].bill = invoices[j].bill
                 /\ \A k \in DOMAIN invoices[j].rows :
                       /\ invoices'[j].rows[k].ct = invoices[j].rows[k].ct
                       /\ \/ invoices'[j].rows[k].slip = invoices[j].rows[k].slip
                          \/ /\ j = page[u].id /\ k = page[u].sr
                             /\ invoices'[j].rows[k].slip = page[u].ct
<1>1. UNCHANGED <<lists, moved, removed>>
  BY DEF UpdateVgmDetails
<1>2. CASE ~(page[u].id \in DOMAIN invoices /\ page[u].sr \in DOMAIN invoices[page[u].id].rows)
  BY <1>1, <1>2 DEF UpdateVgmDetails, ShapeInv
<1>3. CASE page[u].id \in DOMAIN invoices /\ page[u].sr \in DOMAIN invoices[page[u].id].rows
  <2> DEFINE i == page[u].id
             sr == page[u].sr
  <2>1. invoices' = [invoices EXCEPT ![i].rows[sr].slip = page[u].ct]
    BY <1>3 DEF UpdateVgmDetails
  <2>2. i \in DOMAIN invoices /\ sr \in DOMAIN invoices[i].rows
    BY <1>3
  <2> HIDE DEF i, sr
  <2>3. ASSUME NEW j \in DOMAIN invoices
        PROVE  /\ DOMAIN invoices'[j] = DOMAIN invoices[j]
               /\ DOMAIN invoices'[j].rows = DOMAIN invoices[j].rows
               /\ invoices'[j].by = invoices[j].by
               /\ invoices'[j].rate = invoices[j].rate /\ invoices'[j].bill = invoices[j].bill
               /\ \A k \in DOMAIN invoices[j].rows :
                     /\ DOMAIN invoices'[j].rows[k] = DOMAIN invoices[j].rows[k]
                     /\ invoices'[j].rows[k].ct = invoices[j].rows[k].ct
                     /\ \/ invoices'[j].rows[k].slip = invoices[j].rows[k].slip
                        \/ j = i /\ k = sr /\ invoices'[j].rows[k].slip = page[u].ct
    <3>1. InvoiceShape(invoices[j])
      BY DEF ShapeInv
    <3>2. CASE j # i
      BY <2>1, <3>2
    <3>3. CASE j = i
      <4> DEFINE x == invoices'[i]
                 y == invoices[i]
      <4>1. x = [y EXCEPT !.rows[sr].slip = page[u].ct]
        BY <2>1, <2>2
      <4>2. {"by", "rate", "bill", "lines", "rows"} \subseteq DOMAIN y /\ RowShape(y.rows)
        BY <3>1, <3>3 DEF InvoiceShape
      <4> HIDE DEF x, y
      <4>3. /\ DOMAIN x = DOMAIN y /\ x.by = y.by /\ x.rate = y.rate /\ x.bill = y.bill
            /\ x.rows = [y.rows EXCEPT ![sr].slip = page[u].ct]
        BY <4>1, <4>2
      <4>4. /\ DOMAIN x.rows = DOMAIN y.rows
            /\ \A k \in DOMAIN y.rows \ {sr} : x.rows[k] = y.rows[k]
            /\ sr \in DOMAIN y.rows => x.rows[sr] = [y.rows[sr] EXCEPT !.slip = page[u].ct]
        BY <4>3
      <4>5. ASSUME NEW k \in DOMAIN y.rows
            PROVE  /\ DOMAIN x.rows[k] = DOMAIN y.rows[k]
                   /\ x.rows[k].ct = y.rows[k].ct
                   /\ x.rows[k].slip = y.rows[k].slip \/ (k = sr /\ x.rows[k].slip = page[u].ct)
        <5>1. {"ct", "slip"} \subseteq DOMAIN y.rows[k]
          BY <4>2 DEF RowShape
        <5>2. QED
          BY <4>4, <5>1
      <4>6. QED
        BY <3>3, <4>3, <4>4, <4>5 DEF x, y
    <3>4. QED
      BY <3>2, <3>3
  <2>4. ASSUME NEW j \in DOMAIN invoices
        PROVE  InvoiceShape(invoices'[j])
    <3>1. InvoiceShape(invoices[j])
      BY DEF ShapeInv
    <3>2. RowShape(invoices'[j].rows)
      BY <2>3, <3>1 DEF InvoiceShape, RowShape
    <3>3. QED
      BY <2>3, <3>1, <3>2 DEF InvoiceShape
  <2>5. DOMAIN invoices' = DOMAIN invoices
    BY <2>1
  <2>6. QED
    BY <1>1, <2>3, <2>4, <2>5 DEF i, sr
<1>4. QED
  BY <1>2, <1>3

\* A deletion takes one invoice and its list.
LEMMA DeletionTables ==
    ASSUME NEW u \in Users, NEW i \in DOMAIN invoices, DeleteInvoice(u, i)
    PROVE  /\ DOMAIN invoices' = DOMAIN invoices \ {i} /\ DOMAIN lists' = DOMAIN lists \ {i}
           /\ \A j \in DOMAIN invoices' : invoices'[j] = invoices[j]
           /\ \A j \in DOMAIN lists' : lists'[j] = lists[j]
           /\ removed' /\ moved' = moved
BY DEF DeleteInvoice, Drop

\* A list is saved for an invoice that is there, under a number that is free.
LEMMA ListTables ==
    ASSUME NEW u \in Users, SaveList(u)
    PROVE  /\ UNCHANGED <<invoices, nextId, moved, removed>>
           /\ LET i == page[u].id
                  no == ListNumber(i, page[u].no)
              IN  IF i \in DOMAIN invoices /\ ~NumberTaken(i, no)
                  THEN /\ DOMAIN lists' = DOMAIN lists \union {i} /\ lists'[i].no = no
                       /\ \A j \in DOMAIN lists \ {i} : lists'[j] = lists[j]
                       /\ page'[u] = Ended("done", i, page[u].alone)
                  ELSE lists' = lists /\ page'[u] = Ended("failed", i, page[u].alone)
<1> DEFINE i == page[u].id
           no == ListNumber(i, page[u].no)
<1>1. UNCHANGED <<invoices, nextId, moved, removed>>
  BY DEF SaveList
<1>2. CASE i \in DOMAIN invoices /\ ~NumberTaken(i, no)
  <2>1. /\ lists' = Put(lists, i, [no |-> no, rows |-> page[u].list, odd |-> page[u].odd])
        /\ Leave(u, Ended("done", i, page[u].alone))
    BY <1>2 DEF SaveList
  <2> HIDE DEF i, no
  <2>2. /\ DOMAIN lists' = DOMAIN lists \union {i} /\ lists'[i].no = no
        /\ \A j \in DOMAIN lists \ {i} : lists'[j] = lists[j]
    BY <2>1 DEF Put
  <2>3. page'[u] = Ended("done", i, page[u].alone)
    BY <2>1 DEF Leave
  <2>4. QED
    BY <1>1, <1>2, <2>2, <2>3 DEF i, no
<1>3. CASE ~(i \in DOMAIN invoices /\ ~NumberTaken(i, no))
  <2>1. lists' = lists /\ Leave(u, Ended("failed", i, page[u].alone))
    BY <1>3 DEF SaveList
  <2>2. page'[u] = Ended("failed", i, page[u].alone)
    BY <2>1 DEF Leave
  <2>3. QED
    BY <1>1, <1>3, <2>1, <2>2
<1>4. QED
  BY <1>2, <1>3

\* Every step is one of these.
LEMMA StepKinds ==
    ASSUME ShapeInv, NEW u \in Users, Begin(u) \/ Act(u)
    PROVE  \/ Looks(u) /\ Turn(u)
           \/ Submitted(u) /\ Turn(u)
           \/ /\ page[u].at \notin Saving
              /\ \/ \E i \in DOMAIN invoices, bill \in 0..1 : UpdateShippingBill(u, i, bill)
                 \/ \E i \in DOMAIN invoices : DeleteInvoice(u, i)
           \/ UpdateVgmDetails(u)
           \/ WriteHeader(u) \/ WriteChildren(u) \/ CountLists(u) \/ SaveList(u)
BY LooksStep, SubmitStep DEF Act

-----------------------------------------------------------------------------
(* The tables and pages keep their shape; every packing list is of an      *)
(* invoice, under a number of its own.                                     *)

LEMMA InitShapeInv == Init => ShapeInv
<1>1. SUFFICES ASSUME Init PROVE ShapeInv
  OBVIOUS
<1>2. DOMAIN invoices = {} /\ DOMAIN lists = {}
  BY <1>1 DEF Init
<1>3. \A u \in Users : PageShape(page[u]) /\ OfAnId(page[u], nextId)
  BY <1>1, ClosedAt DEF Init, PageShape, OfAnId, Ats, Saving
<1>4. QED
  BY <1>1, <1>2, <1>3 DEF Init, ShapeInv, Ids, InvoicesFit

\* A step's pages are well shaped.
LEMMA TurnShapes ==
    ASSUME ShapeInv, NEW u \in Users, Turn(u), nextId <= nextId', nextId' \in Nat \ {0}
    PROVE  /\ DOMAIN page' = Users
           /\ \A v \in Users : PageShape(page'[v]) /\ OfAnId(page'[v], nextId')
<1>1. ASSUME NEW v \in Users \ {u}
      PROVE  PageShape(page'[v]) /\ OfAnId(page'[v], nextId')
  <2>1. Passed(page[v], page'[v])
    BY DEF Turn
  <2>2. page'[v].at = page[v].at /\ (page[v].at \in Ats => page'[v].id = page[v].id)
    BY <2>1 DEF Passed
  <2>3. OfAnId(page[v], nextId) /\ nextId \in Nat
    BY DEF ShapeInv
  <2>4. QED
    BY <2>1, <2>2, <2>3 DEF Passed, OfAnId, Ats
<1>2. QED
  BY <1>1 DEF Turn

LEMMA ShapeInvStep == ShapeInv /\ [Next]_vars => ShapeInv'
<1>1. SUFFICES ASSUME ShapeInv, [Next]_vars PROVE ShapeInv'
  OBVIOUS
<1>2. CASE UNCHANGED vars
  BY <1>1, <1>2 DEF vars, store, ShapeInv, Ids, InvoicesFit
<1>3. ASSUME NEW u \in Users, Begin(u) \/ Act(u) PROVE ShapeInv'
  <2>1. ASSUME UNCHANGED <<invoices, lists>>, Turn(u), nextId <= nextId', nextId' \in Nat
        PROVE  ShapeInv'
    <3>1. nextId' \in Nat \ {0}
      BY <1>1, <2>1 DEF ShapeInv
    <3>2. Ids' /\ InvoicesFit'
      BY <1>1, <2>1, <3>1 DEF ShapeInv, Ids, InvoicesFit
    <3>3. QED
      BY <1>1, <2>1, <3>1, <3>2, TurnShapes DEF ShapeInv
  <2>2. ASSUME lists' = lists, Turn(u), nextId <= nextId', nextId' \in Nat,
               \A i \in DOMAIN invoices' :
                   /\ InvoiceShape(invoices'[i])
                   /\ i \in Nat \ {0} /\ i < nextId'
                   /\ invoices'[i].by \in Users /\ invoices'[i].rate \in Rates
                   /\ invoices'[i].bill \in 0..1,
               DOMAIN invoices \subseteq DOMAIN invoices'
        PROVE  ShapeInv'
    <3>1. nextId' \in Nat \ {0}
      BY <1>1, <2>2 DEF ShapeInv
    <3>2. Ids' /\ InvoicesFit'
      BY <1>1, <2>2, <3>1 DEF ShapeInv, Ids, InvoicesFit
    <3>3. QED
      BY <1>1, <2>2, <3>1, <3>2, TurnShapes DEF ShapeInv
  <2>3. CASE Looks(u) /\ Turn(u)
    <3>1. nextId' \in Nat /\ nextId <= nextId'
      BY <1>1, <2>3 DEF Looks, ShapeInv
    <3>2. QED
      BY <2>1, <2>3, <3>1 DEF Looks
  <2>4. CASE Submitted(u) /\ Turn(u)
    BY <1>1, <2>1, <2>4 DEF Submitted, ShapeInv
  <2>5. CASE CountLists(u)
    <3>1. Turn(u) /\ UNCHANGED <<invoices, lists>> /\ nextId' = nextId
      BY <1>1, <2>5, SavingStep DEF CountLists, store
    <3>2. QED
      BY <1>1, <2>1, <3>1 DEF ShapeInv
  <2>6. CASE UpdateVgmDetails(u)
    <3>1. Turn(u) /\ nextId' = nextId
      BY <1>1, <2>6, ClosingStep
    <3>2. QED
      BY <1>1, <2>2, <2>6, <3>1, SlipTables DEF ShapeInv, Ids, InvoicesFit
  <2>7. CASE \E i \in DOMAIN invoices, bill \in 0..1 : UpdateShippingBill(u, i, bill)
    <3>1. Turn(u) /\ nextId' = nextId
      BY <1>1, <2>7, ClosingStep
    <3>2. PICK i \in DOMAIN invoices, bill \in 0..1 : UpdateShippingBill(u, i, bill)
      BY <2>7
    <3>3. QED
      BY <1>1, <2>2, <3>1, <3>2, BillTables DEF ShapeInv, Ids, InvoicesFit
  <2>8. CASE \E i \in DOMAIN invoices : DeleteInvoice(u, i)
    <3>1. Turn(u) /\ nextId' = nextId
      BY <1>1, <2>8, ClosingStep
    <3>2. PICK i \in DOMAIN invoices : DeleteInvoice(u, i)
      BY <2>8
    <3>3. /\ DOMAIN invoices' = DOMAIN invoices \ {i} /\ DOMAIN lists' = DOMAIN lists \ {i}
          /\ \A j \in DOMAIN invoices' : invoices'[j] = invoices[j]
          /\ \A j \in DOMAIN lists' : lists'[j] = lists[j]
      BY <3>2, DeletionTables
    <3>4. Ids' /\ InvoicesFit' /\ \A j \in DOMAIN invoices' : InvoiceShape(invoices'[j])
      BY <1>1, <3>1, <3>3 DEF ShapeInv, Ids, InvoicesFit
    <3>5. QED
      BY <1>1, <3>1, <3>4, TurnShapes DEF ShapeInv
  <2>9. CASE WriteHeader(u)
    <3>1. Turn(u)
      BY <1>1, <2>9, SavingStep
    <3>2. /\ nextId <= nextId' /\ nextId' \in Nat
          /\ UNCHANGED lists /\ DOMAIN invoices \subseteq DOMAIN invoices'
      BY <1>1, <2>9, HeaderTables DEF ShapeInv
    <3>3. page[u].rate \in Rates /\ page[u].bill \in 0..1
      BY <1>1, <2>9, ClosedAt DEF WriteHeader, ShapeInv, PageShape, Saving, Ats
    <3>4. ASSUME NEW i \in DOMAIN invoices'
          PROVE  /\ InvoiceShape(invoices'[i])
                 /\ i \in Nat \ {0} /\ i < nextId'
                 /\ invoices'[i].by \in Users /\ invoices'[i].rate \in Rates
                 /\ invoices'[i].bill \in 0..1
      <4>1. CASE i \in DOMAIN invoices /\ invoices'[i] = invoices[i]
        BY <1>1, <3>2, <4>1 DEF ShapeInv, Ids, InvoicesFit
      <4>2. CASE page[u].id = None /\ i = nextId
        BY <1>1, <2>9, <3>3, <4>2, HeaderTables DEF ShapeInv
      <4>3. CASE page[u].id # None /\ i = page[u].id
        BY <1>1, <2>9, <3>3, <4>3, HeaderTables DEF ShapeInv, Ids, InvoicesFit
      <4>4. QED
        BY <1>1, <2>9, <4>1, <4>2, <4>3, HeaderTables
    <3>5. QED
      BY <2>2, <3>1, <3>2, <3>4
  <2>10. CASE WriteChildren(u)
    <3>1. Turn(u)
      BY <1>1, <2>10, SavingStep
    <3>2. /\ DOMAIN invoices' = DOMAIN invoices /\ UNCHANGED <<lists, nextId>>
      BY <1>1, <2>10, ChildrenTables
    <3>3. ASSUME NEW i \in DOMAIN invoices'
          PROVE  /\ InvoiceShape(invoices'[i])
                 /\ i \in Nat \ {0} /\ i < nextId'
                 /\ invoices'[i].by \in Users /\ invoices'[i].rate \in Rates
                 /\ invoices'[i].bill \in 0..1
      <4>1. CASE i = page[u].id
        BY <1>1, <2>10, <3>2, <4>1, ChildrenTables DEF ShapeInv, Ids, InvoicesFit
      <4>2. CASE i # page[u].id
        BY <1>1, <2>10, <3>2, <4>2, ChildrenTables DEF ShapeInv, Ids, InvoicesFit
      <4>3. QED
        BY <4>1, <4>2
    <3>4. QED
      BY <1>1, <2>2, <3>1, <3>2, <3>3 DEF ShapeInv
  <2>11. CASE SaveList(u)
    <3>1. Turn(u) /\ UNCHANGED <<invoices, nextId>>
      BY <1>1, <2>11, SavingStep, ListTables
    <3> DEFINE i == page[u].id
               no == ListNumber(i, page[u].no)
    <3>2. CASE lists' = lists
      BY <1>1, <2>1, <3>1, <3>2 DEF ShapeInv
    <3>3. CASE lists' # lists
      <4>1. /\ i \in DOMAIN invoices /\ ~NumberTaken(i, no)
            /\ DOMAIN lists' = DOMAIN lists \union {i} /\ lists'[i].no = no
            /\ \A j \in DOMAIN lists \ {i} : lists'[j] = lists[j]
        BY <2>11, <3>3, ListTables
      <4>2. \A j \in DOMAIN lists \ {i} : lists[j].no # no
        BY <4>1 DEF NumberTaken
      <4> HIDE DEF i, no
      <4>3. InvoicesFit'
        BY <1>1, <3>1, <4>1, <4>2 DEF ShapeInv, InvoicesFit
      <4>4. QED
        BY <1>1, <3>1, <4>3, TurnShapes DEF ShapeInv, Ids
    <3>4. QED
      BY <3>2, <3>3
  <2>12. QED
    BY <1>1, <1>3, <2>3, <2>4, <2>5, <2>6, <2>7, <2>8, <2>9, <2>10, <2>11, StepKinds
<1>4. QED
  BY <1>1, <1>2, <1>3 DEF Next

LEMMA AlwaysShaped == Spec => []ShapeInv
<1>1. QED
  BY InitShapeInv, ShapeInvStep, PTL DEF Spec

\* Every packing list is of an invoice that is there and has a number no other
\* list has, though the save that writes it goes through four transactions and
\* the number is counted in one before: the database's unique number and the
\* refusal of upsert_for_invoice hold under every interleaving.
THEOREM ListsAreOfInvoices == Spec => []InvoicesFit
<1>1. ShapeInv => InvoicesFit
  BY DEF ShapeInv
<1>2. QED
  BY <1>1, AlwaysShaped, PTL

-----------------------------------------------------------------------------
(* What an edit that no other came between read is still what is stored.   *)

\* The save of user u, page r, against the invoices.
Keeps(u, r, invs) ==
    (r.at \in {"header", "children"} /\ r.alone /\ r.id \in DOMAIN invs) =>
        /\ r.bill = invs[r.id].bill
        /\ \A k \in DOMAIN invs[r.id].rows \intersect DOMAIN r.rows :
              r.rows[k].slip = invs[r.id].rows[k].slip
        /\ (r.at = "header" /\ u \notin Admins /\ invs[r.id].rate # 0) => r.rate = invs[r.id].rate

KeepInv == \A u \in Users : Keeps(u, page[u], invoices)

\* The pages of the others still keep what they kept.
LEMMA OthersKeep ==
    ASSUME ShapeInv, KeepInv, NEW u \in Users, Turn(u), NEW v \in Users \ {u}
    PROVE  Keeps(v, page'[v], invoices')
<1>1. Passed(page[v], page'[v]) /\ PageShape(page[v]) /\ Keeps(v, page[v], invoices)
  BY DEF Turn, ShapeInv, KeepInv
<1>2. CASE page'[v].at \notin {"header", "children"}
  BY <1>2 DEF Keeps
<1>3. CASE page'[v].at \in {"header", "children"} /\ page[v] # Closed
  <2>1. page'[v].alone => UNCHANGED invoices
    BY <1>3 DEF Turn
  <2>2. page[v].at = page'[v].at /\ page[v].at \in Saving /\ page[v].at \in Ats
    BY <1>1, <1>3 DEF Passed, Saving, Ats
  <2>3. /\ page'[v].id = page[v].id /\ page'[v].rows = page[v].rows
        /\ page'[v].bill = page[v].bill /\ page'[v].rate = page[v].rate
        /\ page'[v].alone => page[v].alone
    BY <1>1, <2>2 DEF Passed
  <2>4. QED
    BY <1>1, <2>1, <2>2, <2>3 DEF Keeps
<1>4. CASE page[v] = Closed
  BY <1>1, <1>4, ClosedAt DEF Passed, Keeps
<1>5. QED
  BY <1>2, <1>3, <1>4

LEMMA KeepInvStep == ShapeInv /\ KeepInv /\ [Next]_vars => KeepInv'
<1>1. SUFFICES ASSUME ShapeInv, KeepInv, [Next]_vars PROVE KeepInv'
  OBVIOUS
<1>2. CASE UNCHANGED vars
  BY <1>1, <1>2 DEF vars, store, KeepInv
<1>3. ASSUME NEW u \in Users, Begin(u) \/ Act(u) PROVE KeepInv'
  <2>1. ASSUME Turn(u), Keeps(u, page'[u], invoices') PROVE KeepInv'
    BY <1>1, <2>1, OthersKeep DEF KeepInv
  <2>2. ASSUME page'[u].at \notin {"header", "children"}, Turn(u) PROVE KeepInv'
    BY <2>1, <2>2 DEF Keeps
  <2>3. CASE Looks(u) /\ Turn(u)
    BY <2>2, <2>3, ClosedAt DEF Looks
  <2>4. CASE Submitted(u) /\ Turn(u)
    <3>1. None \notin DOMAIN invoices
      BY <1>1 DEF ShapeInv, Ids, None
    <3>2. ASSUME page[u].id \in DOMAIN invoices
          PROVE  Existing(u) = invoices[page[u].id]
      BY <3>1, <3>2 DEF Existing
    <3>3. PICK rate \in Rates : page'[u].rate = RateKept(u, Existing(u).rate, rate)
      BY <2>4 DEF Submitted
    <3>4. PICK rows : page'[u].rows = Carry(rows, Existing(u).rows)
      BY <2>4 DEF Submitted
    <3>5. Keeps(u, page'[u], invoices')
      BY <2>4, <3>2, <3>3, <3>4, CarriedRows DEF Submitted, Keeps, RateKept
    <3>6. QED
      BY <2>1, <2>4, <3>5
  <2>5. CASE CountLists(u)
    BY <1>1, <2>2, <2>5, SavingStep DEF GoesOn
  <2>6. CASE UpdateVgmDetails(u)
    BY <1>1, <2>2, <2>6, ClosingStep, ClosedAt
  <2>7. CASE \E i \in DOMAIN invoices, bill \in 0..1 : UpdateShippingBill(u, i, bill)
    BY <1>1, <2>2, <2>7, ClosingStep, ClosedAt
  <2>8. CASE \E i \in DOMAIN invoices : DeleteInvoice(u, i)
    BY <1>1, <2>2, <2>8, ClosingStep, ClosedAt
  <2>9. CASE WriteHeader(u)
    <3>1. Turn(u) /\ GoesOn(page[u], page'[u], "children") /\ page'[u].id = Target(u)
      BY <1>1, <2>9, SavingStep
    <3>2. page[u].at = "header" /\ Keeps(u, page[u], invoices)
      BY <1>1, <2>9 DEF WriteHeader, KeepInv
    <3>3. CASE page[u].id = None
      <4>1. DOMAIN invoices'[nextId].rows = {} /\ invoices'[nextId].bill = page[u].bill
        BY <1>1, <2>9, <3>3, HeaderTables
      <4>2. QED
        BY <2>1, <3>1, <3>3, <4>1 DEF Keeps, GoesOn, Target
    <3>4. CASE page[u].id # None
      <4>1. /\ DOMAIN invoices' = DOMAIN invoices
            /\ page[u].id \in DOMAIN invoices =>
                   /\ invoices'[page[u].id].rows = invoices[page[u].id].rows
                   /\ invoices'[page[u].id].bill = page[u].bill
        BY <1>1, <2>9, <3>4, HeaderTables
      <4>2. QED
        BY <2>1, <3>1, <3>2, <3>4, <4>1 DEF Keeps, GoesOn, Target
    <3>5. QED
      BY <3>3, <3>4
  <2>10. CASE WriteChildren(u)
    <3>1. /\ Turn(u)
          /\ GoesOn(page[u], page'[u], "count") \/ page'[u] = Ended("failed", page[u].id, page[u].alone)
      BY <1>1, <2>10, SavingStep
    <3>2. page'[u].at \in {"count", "failed"}
      BY <3>1 DEF GoesOn, Ended
    <3>3. QED
      BY <2>2, <3>1, <3>2
  <2>11. CASE SaveList(u)
    <3>1. /\ Turn(u)
          /\ \E at \in {"done", "failed"} : page'[u] = Ended(at, page[u].id, page[u].alone)
      BY <1>1, <2>11, SavingStep
    <3>2. page'[u].at \in {"done", "failed"}
      BY <3>1 DEF Ended
    <3>3. QED
      BY <2>2, <3>1, <3>2
  <2>12. QED
    BY <1>1, <1>3, <2>3, <2>4, <2>5, <2>6, <2>7, <2>8, <2>9, <2>10, <2>11, StepKinds
<1>4. QED
  BY <1>1, <1>2, <1>3 DEF Next

LEMMA InitKeepInv == Init => KeepInv
BY ClosedAt DEF Init, KeepInv, Keeps

\* An edit that no other save, popup or deletion came between, from the reading
\* of the invoice to its writing, takes neither the shipping bill nor the slip
\* of a row that stays: neither is on the form, both are read and written back
\* (ExportInvoiceService.update, the repository's update).
LEMMA EditsKeepPopups == Spec => LoneEditKeepsPopups
<1> DEFINE Kept == \A u \in Users :
        page[u].at \in {"header", "children"} /\ page'[u].at # page[u].at /\ page[u].alone
           /\ page[u].id \in DOMAIN invoices \intersect DOMAIN invoices' =>
        LET i == page[u].id IN
        /\ invoices'[i].bill = invoices[i].bill
        /\ \A k \in DOMAIN invoices[i].rows \intersect DOMAIN invoices'[i].rows :
              invoices'[i].rows[k].slip = invoices[i].rows[k].slip
<1>1. ShapeInv /\ KeepInv /\ [Next]_vars => [Kept]_vars
  <2> SUFFICES ASSUME ShapeInv, KeepInv, Next, NEW w \in Users,
                      page[w].at \in {"header", "children"}, page'[w].at # page[w].at,
                      page[w].alone, page[w].id \in DOMAIN invoices \intersect DOMAIN invoices'
               PROVE  /\ invoices'[page[w].id].bill = invoices[page[w].id].bill
                      /\ \A k \in DOMAIN invoices[page[w].id].rows
                                    \intersect DOMAIN invoices'[page[w].id].rows :
                            invoices'[page[w].id].rows[k].slip = invoices[page[w].id].rows[k].slip
    BY DEF vars
  <2>1. PICK u \in Users : Begin(u) \/ Act(u)
    BY DEF Next
  <2>2. ASSUME Turn(u) PROVE w = u
    BY <2>2 DEF Turn, Passed
  <2>3. page[w].id # None /\ Keeps(w, page[w], invoices)
    BY DEF ShapeInv, Ids, None, KeepInv
  <2>4. CASE Looks(u) /\ Turn(u)
    BY <2>4 DEF Looks
  <2>5. CASE Submitted(u) /\ Turn(u)
    BY <2>2, <2>5 DEF Submitted
  <2>6. CASE CountLists(u)
    BY <2>6 DEF CountLists, store
  <2>7. CASE /\ page[u].at \notin Saving
             /\ \/ \E i \in DOMAIN invoices, bill \in 0..1 : UpdateShippingBill(u, i, bill)
                \/ \E i \in DOMAIN invoices : DeleteInvoice(u, i)
    <3>1. w = u
      BY <2>2, <2>7, ClosingStep
    <3>2. QED
      BY <2>7, <3>1 DEF Saving
  <2>8. CASE UpdateVgmDetails(u)
    <3>1. w = u
      BY <2>2, <2>8, ClosingStep
    <3>2. QED
      BY <2>8, <3>1 DEF UpdateVgmDetails
  <2>9. CASE WriteHeader(u)
    <3>1. w = u
      BY <2>2, <2>9, SavingStep
    <3>2. page[u].at = "header"
      BY <2>9 DEF WriteHeader
    <3>3. QED
      BY <2>3, <2>9, <3>1, <3>2, HeaderTables DEF Keeps
  <2>10. CASE WriteChildren(u)
    <3>1. w = u
      BY <2>2, <2>10, SavingStep
    <3>2. page[u].at = "children"
      BY <2>10 DEF WriteChildren
    <3>3. QED
      BY <2>3, <2>10, <3>1, <3>2, ChildrenTables DEF Keeps
  <2>11. CASE SaveList(u)
    BY <2>11, ListTables
  <2>12. QED
    BY <2>1, <2>4, <2>5, <2>6, <2>7, <2>8, <2>9, <2>10, <2>11, StepKinds
<1>2. QED
  BY <1>1, AlwaysShaped, InitKeepInv, KeepInvStep, PTL DEF Spec, LoneEditKeepsPopups

\* A rate that is set is changed by an admin's save, or by one that others came
\* between since it read the invoice.
LEMMA RatesAreKept == Spec => RateIsTheAdmins
<1> DEFINE Kept == \A i \in DOMAIN invoices \intersect DOMAIN invoices' :
        (invoices[i].rate # 0 /\ invoices'[i].rate # invoices[i].rate) =>
            \E u \in Users : page[u].at = "header" /\ (u \in Admins \/ ~page[u].alone)
<1>1. ShapeInv /\ KeepInv /\ [Next]_vars => [Kept]_vars
  <2> SUFFICES ASSUME ShapeInv, KeepInv, Next, NEW i \in DOMAIN invoices \intersect DOMAIN invoices',
                      invoices[i].rate # 0, invoices'[i].rate # invoices[i].rate
               PROVE  \E u \in Users : page[u].at = "header" /\ (u \in Admins \/ ~page[u].alone)
    BY DEF vars
  <2>1. PICK u \in Users : Begin(u) \/ Act(u)
    BY DEF Next
  <2>2. CASE UNCHANGED invoices
    BY <2>2
  <2>3. CASE \E j \in DOMAIN invoices, bill \in 0..1 : UpdateShippingBill(u, j, bill)
    BY <2>3, BillTables
  <2>4. CASE \E j \in DOMAIN invoices : DeleteInvoice(u, j)
    BY <2>4, DeletionTables
  <2>5. CASE UpdateVgmDetails(u)
    BY <2>5, SlipTables
  <2>6. CASE WriteChildren(u)
    BY <2>6, ChildrenTables
  <2>7. CASE WriteHeader(u)
    <3>1. page[u].at = "header" /\ Keeps(u, page[u], invoices)
      BY <2>7 DEF WriteHeader, KeepInv
    <3>2. page[u].id = i /\ invoices'[i].rate = page[u].rate
      BY <2>7, HeaderTables
    <3>3. QED
      BY <3>1, <3>2 DEF Keeps
  <2>8. QED
    BY <2>1, <2>2, <2>3, <2>4, <2>5, <2>6, <2>7, StepKinds, ListTables
    DEF Looks, Submitted, CountLists, store
<1>2. QED
  BY <1>1, AlwaysShaped, InitKeepInv, KeepInvStep, PTL DEF Spec, RateIsTheAdmins

\* No edit of an invoice gives its packing list another number.
LEMMA NumbersAreKept == Spec => ListKeepsItsNumber
<1> DEFINE Kept == \A i \in DOMAIN lists \intersect DOMAIN lists' : lists'[i].no = lists[i].no
<1>1. ShapeInv /\ [Next]_vars => [Kept]_vars
  <2> SUFFICES ASSUME ShapeInv, Next, NEW i \in DOMAIN lists \intersect DOMAIN lists'
               PROVE  lists'[i].no = lists[i].no
    BY DEF vars
  <2>1. PICK u \in Users : Begin(u) \/ Act(u)
    BY DEF Next
  <2>2. CASE UNCHANGED lists
    BY <2>2
  <2>3. CASE \E j \in DOMAIN invoices : DeleteInvoice(u, j)
    BY <2>3, DeletionTables
  <2>4. CASE SaveList(u)
    BY <2>4, ListTables DEF ListNumber
  <2>5. CASE \E j \in DOMAIN invoices, bill \in 0..1 : UpdateShippingBill(u, j, bill)
    BY <2>2, <2>5, BillTables
  <2>6. QED
    BY <2>1, <2>2, <2>3, <2>4, <2>5, StepKinds, HeaderTables, ChildrenTables, SlipTables
    DEF Looks, Submitted, CountLists, store
<1>2. QED
  BY <1>1, AlwaysShaped, PTL DEF Spec, ListKeepsItsNumber

\* What was entered on other pages, or by those allowed to, outlives an edit:
\* under every interleaving of the saves, popups, slips and deletions.
THEOREM EditsKeepTheRest == Spec => EditsKeepWhatIsNotTheirs
BY EditsKeepPopups, RatesAreKept, NumbersAreKept DEF EditsKeepWhatIsNotTheirs

-----------------------------------------------------------------------------
(* The slips: while no container was taken from its place, every row, slip *)
(* and save still means the container it meant.                            *)

\* What a page holds of the containers' places, against the invoices.
SlipHeld(r, invs) ==
    /\ (r.at = "slip" /\ r.id \in DOMAIN invs) =>
          r.sr \in DOMAIN invs[r.id].rows /\ invs[r.id].rows[r.sr].ct = r.ct
    /\ r.at \in {"header", "children"} => \A k \in DOMAIN r.rows :
          \/ r.rows[k].slip = None
          \/ /\ r.id # None
             /\ r.id \in DOMAIN invs => /\ k \in DOMAIN invs[r.id].rows
                                        /\ r.rows[k].slip = invs[r.id].rows[k].ct
SlipInv == ~moved => SlipsStay /\ \A u \in Users : SlipHeld(page[u], invoices)

\* The containers that stood in a place still do.
StayPut ==
    \A i \in DOMAIN invoices' :
        IF i \in DOMAIN invoices
        THEN \A k \in DOMAIN invoices[i].rows :
                k \in DOMAIN invoices'[i].rows /\ invoices'[i].rows[k].ct = invoices[i].rows[k].ct
        ELSE i = nextId

\* Every step leaves them there, or is noted.
LEMMA PlacesStay ==
    ASSUME ShapeInv, NEW u \in Users, Begin(u) \/ Act(u), ~moved'
    PROVE  ~moved /\ StayPut
<1>1. CASE UNCHANGED <<invoices, moved>>
  BY <1>1 DEF StayPut
<1>2. CASE \E i \in DOMAIN invoices, bill \in 0..1 : UpdateShippingBill(u, i, bill)
  BY <1>2, BillTables DEF StayPut
<1>3. CASE \E i \in DOMAIN invoices : DeleteInvoice(u, i)
  BY <1>3, DeletionTables DEF StayPut
<1>4. CASE UpdateVgmDetails(u)
  BY <1>4, SlipTables DEF StayPut
<1>5. CASE WriteHeader(u)
  <2>1. ~moved
    BY <1>5, HeaderTables
  <2>2. CASE page[u].id = None
    BY <1>5, <2>1, <2>2, HeaderTables DEF StayPut
  <2>3. CASE page[u].id # None
    BY <1>5, <2>1, <2>3, HeaderTables DEF StayPut
  <2>4. QED
    BY <2>2, <2>3
<1>6. CASE WriteChildren(u)
  BY <1>6, ChildrenTables DEF StayPut
<1>7. QED
  BY <1>1, <1>2, <1>3, <1>4, <1>5, <1>6, StepKinds, ListTables DEF Looks, Submitted, CountLists, store

\* What a page of another user holds, it still holds.
LEMMA StillHeld ==
    ASSUME StayPut, NEW r, NEW s, OfAnId(r, nextId), nextId \in Nat, Passed(r, s),
           SlipHeld(r, invoices)
    PROVE  SlipHeld(s, invoices')
<1>1. CASE r.at = "slip"
  <2>1. s.at = r.at /\ s.id = r.id /\ s.sr = r.sr /\ s.ct = r.ct /\ r.id < nextId
    BY <1>1 DEF Passed, OfAnId, Ats
  <2>2. QED
    BY <1>1, <2>1 DEF SlipHeld, StayPut
<1>2. CASE r.at \in {"header", "children"}
  <2>1. s.at = r.at /\ s.id = r.id /\ s.rows = r.rows /\ r.id < nextId
    BY <1>2 DEF Passed, OfAnId, Ats, Saving
  <2>2. QED
    BY <1>2, <2>1 DEF SlipHeld, StayPut
<1>3. CASE r.at \notin {"slip", "header", "children"}
  BY <1>3 DEF Passed, SlipHeld
<1>4. QED
  BY <1>1, <1>2, <1>3

LEMMA SlipInvStep == ShapeInv /\ SlipInv /\ [Next]_vars => SlipInv'
<1>1. SUFFICES ASSUME ShapeInv, SlipInv, [Next]_vars, ~moved'
               PROVE  SlipsStay' /\ \A v \in Users : SlipHeld(page'[v], invoices')
  BY DEF SlipInv
<1>2. CASE UNCHANGED vars
  BY <1>1, <1>2 DEF vars, store, SlipInv, SlipsStay
<1>3. ASSUME NEW u \in Users, Begin(u) \/ Act(u)
      PROVE  SlipsStay' /\ \A v \in Users : SlipHeld(page'[v], invoices')
  <2>1. ~moved /\ StayPut
    BY <1>1, <1>3, PlacesStay
  <2>2. SlipsStay /\ \A v \in Users : SlipHeld(page[v], invoices)
    BY <1>1, <2>1 DEF SlipInv
  <2>3. \A i \in DOMAIN invoices : \A k \in DOMAIN invoices[i].rows :
            invoices[i].rows[k].slip \in {None, invoices[i].rows[k].ct}
    BY <2>1, <2>2 DEF SlipsStay
  <2>4. ASSUME Turn(u) PROVE \A v \in Users \ {u} : SlipHeld(page'[v], invoices')
    BY <1>1, <2>1, <2>2, <2>4, StillHeld DEF Turn, ShapeInv
  <2>5. ASSUME Turn(u), SlipHeld(page'[u], invoices'),
               \A i \in DOMAIN invoices' : \A k \in DOMAIN invoices'[i].rows :
                   invoices'[i].rows[k].slip \in {None, invoices'[i].rows[k].ct}
        PROVE  SlipsStay' /\ \A v \in Users : SlipHeld(page'[v], invoices')
    BY <2>4, <2>5 DEF SlipsStay
  <2>6. ASSUME page'[u].at \notin {"slip", "header", "children"}
        PROVE  SlipHeld(page'[u], invoices')
    BY <2>6 DEF SlipHeld
  <2>7. CASE Looks(u) /\ Turn(u)
    <3>1. SlipHeld(page'[u], invoices')
      BY <2>7, ClosedAt DEF Looks, SlipHeld
    <3>2. QED
      BY <2>3, <2>5, <2>7, <3>1 DEF Looks
  <2>8. CASE Submitted(u) /\ Turn(u)
    <3>1. PICK rows : page'[u].rows = Carry(rows, Existing(u).rows)
      BY <2>8 DEF Submitted
    <3>2. ASSUME NEW k \in DOMAIN page'[u].rows, page'[u].rows[k].slip # None
          PROVE  /\ page'[u].id # None
                 /\ page'[u].id \in DOMAIN invoices =>
                       /\ k \in DOMAIN invoices[page'[u].id].rows
                       /\ page'[u].rows[k].slip = invoices[page'[u].id].rows[k].ct
      <4>1. k \in DOMAIN Existing(u).rows /\ page'[u].rows[k].slip = Existing(u).rows[k].slip
        BY <3>1, <3>2, CarriedRows
      <4>2. page'[u].id = page[u].id /\ page[u].id \in DOMAIN invoices \union {None}
        BY <2>8 DEF Submitted
      <4>3. CASE page[u].id = None
        <5>1. Existing(u).rows = <<>>
          BY <4>3 DEF Existing
        <5>2. QED
          BY <4>1, <5>1
      <4>4. CASE page[u].id # None
        BY <2>3, <3>2, <4>1, <4>2, <4>4 DEF Existing
      <4>5. QED
        BY <4>3, <4>4
    <3>3. SlipHeld(page'[u], invoices')
      BY <2>8, <3>2 DEF Submitted, SlipHeld
    <3>4. QED
      BY <2>3, <2>5, <2>8, <3>3 DEF Submitted
  <2>9. CASE CountLists(u)
    <3>1. Turn(u) /\ page'[u].at = "list" /\ UNCHANGED invoices
      BY <1>1, <2>9, SavingStep DEF GoesOn, CountLists, store
    <3>2. QED
      BY <2>3, <2>5, <2>6, <3>1
  <2>10. CASE UpdateVgmDetails(u)
    <3>1. Turn(u) /\ page'[u] = Closed
      BY <1>1, <2>10, ClosingStep
    <3>2. page[u].at = "slip"
      BY <2>10 DEF UpdateVgmDetails
    <3>3. ASSUME NEW i \in DOMAIN invoices', NEW k \in DOMAIN invoices'[i].rows
          PROVE  invoices'[i].rows[k].slip \in {None, invoices'[i].rows[k].ct}
      <4>1. i \in DOMAIN invoices /\ k \in DOMAIN invoices[i].rows
        BY <1>1, <2>10, SlipTables
      <4>2. /\ invoices'[i].rows[k].ct = invoices[i].rows[k].ct
            /\ \/ invoices'[i].rows[k].slip = invoices[i].rows[k].slip
               \/ /\ i = page[u].id /\ k = page[u].sr
                  /\ invoices'[i].rows[k].slip = page[u].ct
        BY <1>1, <2>10, <4>1, SlipTables
      <4>3. SlipHeld(page[u], invoices)
        BY <2>2
      <4>4. QED
        BY <2>3, <3>2, <4>1, <4>2, <4>3 DEF SlipHeld
    <3>4. QED
      BY <2>5, <2>6, <3>1, <3>3, ClosedAt
  <2>11. CASE \E i \in DOMAIN invoices, bill \in 0..1 : UpdateShippingBill(u, i, bill)
    <3>1. Turn(u) /\ page'[u] = Closed
      BY <1>1, <2>11, ClosingStep
    <3>2. DOMAIN invoices' = DOMAIN invoices
          /\ \A j \in DOMAIN invoices : invoices'[j].rows = invoices[j].rows
      BY <1>1, <2>11, BillTables
    <3>3. QED
      BY <2>3, <2>5, <2>6, <3>1, <3>2, ClosedAt
  <2>12. CASE \E i \in DOMAIN invoices : DeleteInvoice(u, i)
    <3>1. Turn(u) /\ page'[u] = Closed
      BY <1>1, <2>12, ClosingStep
    <3>2. DOMAIN invoices' \subseteq DOMAIN invoices
          /\ \A j \in DOMAIN invoices' : invoices'[j] = invoices[j]
      BY <2>12, DeletionTables
    <3>3. QED
      BY <2>3, <2>5, <2>6, <3>1, <3>2, ClosedAt
  <2>13. CASE WriteHeader(u)
    <3>1. Turn(u) /\ GoesOn(page[u], page'[u], "children") /\ page'[u].id = Target(u)
      BY <1>1, <2>13, SavingStep
    <3>2. page[u].at = "header" /\ SlipHeld(page[u], invoices)
      BY <2>2, <2>13 DEF WriteHeader
    <3>3. CASE page[u].id = None
      <4>1. /\ DOMAIN invoices' = DOMAIN invoices \union {nextId}
            /\ DOMAIN invoices'[nextId].rows = {}
            /\ \A j \in DOMAIN invoices : invoices'[j] = invoices[j]
        BY <1>1, <2>13, <3>3, HeaderTables
      <4>2. SlipHeld(page'[u], invoices')
        BY <3>1, <3>2, <3>3 DEF SlipHeld, GoesOn, Target
      <4>3. QED
        BY <2>3, <2>5, <3>1, <4>1, <4>2
    <3>4. CASE page[u].id # None
      <4>1. /\ DOMAIN invoices' = DOMAIN invoices
            /\ \A j \in DOMAIN invoices : invoices'[j].rows = invoices[j].rows
        BY <1>1, <2>13, <3>4, HeaderTables
      <4>2. SlipHeld(page'[u], invoices')
        BY <3>1, <3>2, <3>4, <4>1 DEF SlipHeld, GoesOn, Target
      <4>3. QED
        BY <2>3, <2>5, <3>1, <4>1, <4>2
    <3>5. QED
      BY <3>3, <3>4
  <2>14. CASE WriteChildren(u)
    <3>1. /\ Turn(u)
          /\ GoesOn(page[u], page'[u], "count") \/ page'[u] = Ended("failed", page[u].id, page[u].alone)
      BY <1>1, <2>14, SavingStep
    <3>2. SlipHeld(page'[u], invoices')
      BY <2>6, <3>1 DEF GoesOn, Ended
    <3>3. page[u].at = "children" /\ SlipHeld(page[u], invoices)
      BY <2>2, <2>14 DEF WriteChildren
    <3>4. /\ DOMAIN invoices' = DOMAIN invoices
          /\ \A j \in DOMAIN invoices \ {page[u].id} : invoices'[j] = invoices[j]
          /\ page[u].id \in DOMAIN invoices => invoices'[page[u].id].rows = page[u].rows
      BY <1>1, <2>14, ChildrenTables
    <3>5. ASSUME NEW i \in DOMAIN invoices', NEW k \in DOMAIN invoices'[i].rows
          PROVE  invoices'[i].rows[k].slip \in {None, invoices'[i].rows[k].ct}
      <4>1. CASE i # page[u].id
        BY <2>3, <3>4, <4>1
      <4>2. CASE i = page[u].id
        <5>1. invoices'[i].rows = page[u].rows /\ i \in DOMAIN invoices
          BY <3>4, <4>2
        <5>2. \/ page[u].rows[k].slip = None
              \/ k \in DOMAIN invoices[i].rows /\ page[u].rows[k].slip = invoices[i].rows[k].ct
          BY <3>3, <4>2, <5>1 DEF SlipHeld
        <5>3. k \in DOMAIN invoices[i].rows => invoices'[i].rows[k].ct = invoices[i].rows[k].ct
          BY <2>1, <5>1 DEF StayPut
        <5>4. QED
          BY <5>1, <5>2, <5>3
      <4>3. QED
        BY <4>1, <4>2
    <3>6. QED
      BY <2>5, <3>1, <3>2, <3>5
  <2>15. CASE SaveList(u)
    <3>1. /\ Turn(u) /\ UNCHANGED invoices
          /\ \E at \in {"done", "failed"} : page'[u] = Ended(at, page[u].id, page[u].alone)
      BY <1>1, <2>15, SavingStep, ListTables
    <3>2. SlipHeld(page'[u], invoices')
      BY <2>6, <3>1 DEF Ended
    <3>3. QED
      BY <2>3, <2>5, <3>1, <3>2
  <2>16. QED
    BY <1>1, <1>3, <2>7, <2>8, <2>9, <2>10, <2>11, <2>12, <2>13, <2>14, <2>15, StepKinds
<1>4. QED
  BY <1>1, <1>2, <1>3 DEF Next

LEMMA InitSlipInv == Init => SlipInv
<1>1. SUFFICES ASSUME Init PROVE SlipInv
  OBVIOUS
<1>2. DOMAIN invoices = {} /\ \A u \in Users : page[u].at = "closed"
  BY <1>1, ClosedAt DEF Init
<1>3. QED
  BY <1>2 DEF SlipInv, SlipsStay, SlipHeld

\* As long as no save takes a container from its place in the 11B table, a
\* weighing slip stays with the container it was typed for, though saves carry
\* it by position from what they read and slips are written by position too, in
\* whatever order the two come.
THEOREM SlipsStayWithTheirContainers == Spec => []SlipsStay
<1>1. SlipInv => SlipsStay
  BY DEF SlipInv, SlipsStay
<1>2. QED
  BY <1>1, AlwaysShaped, InitSlipInv, SlipInvStep, PTL DEF Spec

-----------------------------------------------------------------------------
(* The numbers of the packing lists: as long as no invoice was deleted, they *)
(* are at most as many as the lists, and a count is of all the lists unless  *)
(* another save came between.                                                *)

\* A save, page r, against the tables: before an invoice is deleted, its own is
\* there, and the number it counted is one more than the lists there are.
Numbered(r, invs, n) ==
    /\ (r.at \in {"children", "count", "list"} \/ (r.at = "header" /\ r.id # None)) =>
          r.id \in DOMAIN invs
    /\ r.at = "list" => r.no \in Nat /\ r.no <= n + 1 /\ (r.alone => r.no = n + 1)
    /\ r.at = "failed" => ~r.alone

NumberInv ==
    /\ IsFiniteSet(DOMAIN lists)
    /\ \A u \in Users : (page[u].at = "done" /\ page[u].alone) => page[u].id \in DOMAIN lists
    /\ ~removed =>
          /\ \A i \in DOMAIN lists : lists[i].no \in Nat /\ lists[i].no <= Cardinality(DOMAIN lists)
          /\ \A u \in Users : Numbered(page[u], invoices, Cardinality(DOMAIN lists))

\* What another user's page counted stays in range while no list is lost.
LEMMA StillNumbered ==
    ASSUME NEW r, NEW s, Passed(r, s), NEW i1, NEW i2, NEW m \in Nat, NEW n \in Nat, m <= n,
           DOMAIN i1 \subseteq DOMAIN i2, Numbered(r, i1, m), m = n \/ ~s.alone
    PROVE  Numbered(s, i2, n)
<1>1. CASE r.at \in Saving \union {"failed"}
  <2>1. /\ s.at = r.at /\ s.id = r.id /\ (s.alone => r.alone)
        /\ r.at \in Saving => s.no = r.no
    BY <1>1 DEF Passed, Ats
  <2>2. QED
    BY <1>1, <2>1 DEF Numbered, Saving
<1>2. CASE r.at \notin Saving \union {"failed"}
  BY <1>2 DEF Passed, Numbered, Saving
<1>3. QED
  BY <1>1, <1>2

LEMMA NumberInvStep == ShapeInv /\ NumberInv /\ [Next]_vars => NumberInv'
<1>1. SUFFICES ASSUME ShapeInv, NumberInv, [Next]_vars PROVE NumberInv'
  OBVIOUS
<1>2. CASE UNCHANGED vars
  BY <1>1, <1>2 DEF vars, store, NumberInv
<1>3. ASSUME NEW u \in Users, Begin(u) \/ Act(u) PROVE NumberInv'
  <2> DEFINE n == Cardinality(DOMAIN lists)
             m == Cardinality(DOMAIN lists')
  <2>1. n \in Nat /\ IsFiniteSet(DOMAIN lists)
    BY <1>1, FS_CardinalityType DEF NumberInv
  <2>2. CASE \E i \in DOMAIN invoices : DeleteInvoice(u, i)
    <3>1. removed' /\ DOMAIN lists' \subseteq DOMAIN lists
      BY <2>2, DeletionTables
    <3>2. IsFiniteSet(DOMAIN lists')
      BY <2>1, <3>1, FS_Subset
    <3>3. Turn(u) /\ page'[u] = Closed
      BY <1>1, <2>2, ClosingStep
    <3>4. ASSUME NEW v \in Users PROVE ~(page'[v].at = "done" /\ page'[v].alone)
      <4>1. CASE v = u
        BY <3>3, <4>1, ClosedAt
      <4>2. CASE v # u
        <5>1. Passed(page[v], page'[v])
          BY <3>3, <4>2 DEF Turn
        <5>2. PICK i \in DOMAIN invoices : DeleteInvoice(u, i)
          BY <2>2
        <5>3. page[v] = Closed \/ ~page'[v].alone
          BY <1>1, <4>2, <5>2, LeaveStep DEF DeleteInvoice, ShapeInv
        <5>4. QED
          BY <5>1, <5>3, ClosedAt DEF Passed
      <4>3. QED
        BY <4>1, <4>2
    <3>5. QED
      BY <3>1, <3>2, <3>4 DEF NumberInv
  <2>3. ASSUME Turn(u), UNCHANGED <<lists, removed>>, DOMAIN invoices \subseteq DOMAIN invoices',
               page'[u].at # "done",
               ~removed => Numbered(page'[u], invoices', n)
        PROVE  NumberInv'
    <3>1. ASSUME NEW v \in Users, page'[v].at = "done", page'[v].alone
          PROVE  page'[v].id \in DOMAIN lists
      <4>1. v # u /\ Passed(page[v], page'[v])
        BY <2>3, <3>1 DEF Turn
      <4>2. page[v].at = "done" /\ page[v].alone /\ page'[v].id = page[v].id
        BY <3>1, <4>1 DEF Passed, Ats
      <4>3. QED
        BY <1>1, <4>2 DEF NumberInv
    <3>2. ASSUME ~removed, NEW v \in Users PROVE Numbered(page'[v], invoices', n)
      <4>1. CASE v = u
        BY <2>3, <3>2, <4>1
      <4>2. CASE v # u
        <5>1. Passed(page[v], page'[v]) /\ Numbered(page[v], invoices, n)
          BY <1>1, <2>3, <3>2, <4>2 DEF Turn, NumberInv
        <5> HIDE DEF n
        <5>2. QED
          BY <2>1, <2>3, <5>1, StillNumbered
      <4>3. QED
        BY <4>1, <4>2
    <3>3. QED
      BY <1>1, <2>1, <2>3, <3>1, <3>2 DEF NumberInv
  <2>4. ASSUME page'[u].at \notin Saving \union {"done", "failed"}
        PROVE  page'[u].at # "done" /\ Numbered(page'[u], invoices', n)
    BY <2>4 DEF Numbered, Saving
  <2>5. CASE Looks(u) /\ Turn(u)
    <3>1. page'[u].at \notin Saving \union {"done", "failed"}
      BY <2>5, ClosedAt DEF Looks, Saving
    <3>2. QED
      BY <2>3, <2>4, <2>5, <3>1 DEF Looks
  <2>6. CASE Submitted(u) /\ Turn(u)
    <3>1. page'[u].at # "done" /\ Numbered(page'[u], invoices', n)
      BY <2>6 DEF Submitted, Numbered
    <3>2. QED
      BY <2>3, <2>6, <3>1 DEF Submitted
  <2>7. CASE UpdateVgmDetails(u) \/ \E i \in DOMAIN invoices, bill \in 0..1 : UpdateShippingBill(u, i, bill)
    <3>1. Turn(u) /\ page'[u] = Closed
      BY <1>1, <2>7, ClosingStep
    <3>2. DOMAIN invoices' = DOMAIN invoices /\ UNCHANGED <<lists, removed>>
      BY <1>1, <2>7, SlipTables, BillTables
    <3>3. QED
      BY <2>3, <2>4, <3>1, <3>2, ClosedAt DEF Saving
  <2>8. CASE WriteHeader(u)
    <3>1. Turn(u) /\ page'[u].at = "children" /\ page'[u].id = Target(u)
      BY <1>1, <2>8, SavingStep DEF GoesOn
    <3>2. UNCHANGED <<lists, removed>> /\ DOMAIN invoices \subseteq DOMAIN invoices'
      BY <1>1, <2>8, HeaderTables
    <3>3. ASSUME ~removed PROVE Target(u) \in DOMAIN invoices'
      <4>1. CASE page[u].id = None
        BY <1>1, <2>8, <4>1, HeaderTables DEF Target
      <4>2. CASE page[u].id # None
        BY <1>1, <2>8, <3>2, <3>3, <4>2 DEF Target, WriteHeader, NumberInv, Numbered
      <4>3. QED
        BY <4>1, <4>2
    <3>4. ~removed => Numbered(page'[u], invoices', n)
      BY <3>1, <3>3 DEF Numbered
    <3>5. QED
      BY <2>3, <3>1, <3>2, <3>4
  <2>9. CASE WriteChildren(u)
    <3>1. /\ Turn(u) /\ page'[u].id = page[u].id
          /\ IF page[u].id \in DOMAIN invoices THEN GoesOn(page[u], page'[u], "count")
             ELSE page'[u] = Ended("failed", page[u].id, page[u].alone)
      BY <1>1, <2>9, SavingStep
    <3>2. DOMAIN invoices' = DOMAIN invoices /\ UNCHANGED <<lists, removed>>
      BY <1>1, <2>9, ChildrenTables
    <3>3. ~removed => page[u].id \in DOMAIN invoices
      BY <1>1, <2>9 DEF WriteChildren, NumberInv, Numbered
    <3>4. page'[u].at # "done"
      BY <3>1 DEF GoesOn, Ended
    <3>5. ~removed => Numbered(page'[u], invoices', n)
      BY <3>1, <3>2, <3>3 DEF GoesOn, Numbered
    <3>6. QED
      BY <2>3, <3>1, <3>2, <3>4, <3>5
  <2>10. CASE CountLists(u)
    <3>1. /\ Turn(u) /\ page'[u].at = "list" /\ page'[u].id = page[u].id
          /\ page'[u].no = n + 1
      BY <1>1, <2>10, SavingStep DEF GoesOn
    <3>2. UNCHANGED <<invoices, lists, removed>> /\ page[u].at = "count"
      BY <2>10 DEF CountLists, store
    <3>3. ~removed => page[u].id \in DOMAIN invoices
      BY <1>1, <3>2 DEF NumberInv, Numbered
    <3> HIDE DEF n
    <3>4. ~removed => Numbered(page'[u], invoices', n)
      BY <2>1, <3>1, <3>2, <3>3 DEF Numbered
    <3>5. QED
      BY <2>3, <3>1, <3>2, <3>4
  <2>11. CASE SaveList(u)
    <3> DEFINE i == page[u].id
               no == ListNumber(i, page[u].no)
    <3>1. Turn(u) /\ UNCHANGED <<invoices, removed>> /\ page[u].at = "list"
      BY <1>1, <2>11, SavingStep, ListTables DEF SaveList
    <3>2. CASE i \in DOMAIN invoices /\ ~NumberTaken(i, no)
      <4>1. /\ DOMAIN lists' = DOMAIN lists \union {i} /\ lists'[i].no = no
            /\ \A j \in DOMAIN lists \ {i} : lists'[j] = lists[j]
            /\ page'[u] = Ended("done", i, page[u].alone)
        BY <2>11, <3>2, ListTables
      <4>2. IsFiniteSet(DOMAIN lists')
        BY <2>1, <4>1, FS_AddElement
      <4>3. m = IF i \in DOMAIN lists THEN n ELSE n + 1
        BY <2>1, <4>1, FS_AddElement
      <4>4. page'[u].at = "done" /\ page'[u].id = i
        BY <4>1 DEF Ended
      <4>5. ASSUME NEW v \in Users, page'[v].at = "done", page'[v].alone
            PROVE  page'[v].id \in DOMAIN lists'
        <5>1. CASE v = u
          BY <4>1, <4>4, <5>1
        <5>2. CASE v # u
          <6>1. Passed(page[v], page'[v])
            BY <3>1, <5>2 DEF Turn
          <6>2. page[v].at = "done" /\ page[v].alone /\ page'[v].id = page[v].id
            BY <4>5, <6>1 DEF Passed, Ats
          <6>3. QED
            BY <1>1, <4>1, <6>2 DEF NumberInv
        <5>3. QED
          BY <5>1, <5>2
      <4>6. ASSUME ~removed
            PROVE  \A j \in DOMAIN lists' : lists'[j].no \in Nat /\ lists'[j].no <= m
        <5>1. /\ \A j \in DOMAIN lists : lists[j].no \in Nat /\ lists[j].no <= n
              /\ Numbered(page[u], invoices, n)
          BY <1>1, <4>6 DEF NumberInv
        <5>2. page[u].no \in Nat /\ page[u].no <= n + 1
          BY <3>1, <5>1 DEF Numbered
        <5>3. no \in Nat /\ no <= m
          BY <2>1, <4>3, <5>1, <5>2 DEF ListNumber
        <5> HIDE DEF n, m, i, no
        <5>4. QED
          BY <2>1, <4>1, <4>3, <5>1, <5>3
      <4>7. ASSUME ~removed, NEW v \in Users
            PROVE  Numbered(page'[v], invoices', m)
        <5>1. CASE v = u
          BY <4>4, <5>1 DEF Numbered
        <5>2. CASE v # u
          <6>1. Passed(page[v], page'[v]) /\ Numbered(page[v], invoices, n)
            BY <1>1, <3>1, <4>7, <5>2 DEF Turn, NumberInv
          <6>2. page[v] = Closed \/ ~page'[v].alone
            BY <1>1, <2>11, <5>2, LeaveStep DEF SaveList, ShapeInv
          <6>3. CASE page[v] = Closed
            BY <6>1, <6>3, ClosedAt DEF Passed, Numbered
          <6> HIDE DEF n, m
          <6>4. CASE ~page'[v].alone
            BY <2>1, <3>1, <4>3, <6>1, <6>4, StillNumbered
          <6>5. QED
            BY <6>2, <6>3, <6>4
        <5>3. QED
          BY <5>1, <5>2
      <4>8. QED
        BY <3>1, <4>2, <4>5, <4>6, <4>7 DEF NumberInv
    <3>3. CASE ~(i \in DOMAIN invoices /\ ~NumberTaken(i, no))
      <4>1. lists' = lists /\ page'[u] = Ended("failed", i, page[u].alone)
        BY <2>11, <3>3, ListTables
      <4>2. page'[u].at = "failed" /\ page'[u].alone = page[u].alone
        BY <4>1 DEF Ended
      <4>3. ASSUME ~removed PROVE ~page[u].alone
        <5>1. /\ \A j \in DOMAIN lists : lists[j].no \in Nat /\ lists[j].no <= n
              /\ Numbered(page[u], invoices, n)
          BY <1>1, <4>3 DEF NumberInv
        <5>2. i \in DOMAIN invoices
          BY <3>1, <5>1 DEF Numbered
        <5>3. PICK j \in DOMAIN lists \ {i} : lists[j].no = no
          BY <3>3, <5>2 DEF NumberTaken
        <5>4. i \notin DOMAIN lists
          BY <1>1, <5>3 DEF ListNumber, ShapeInv, InvoicesFit
        <5>5. no = page[u].no
          BY <5>4 DEF ListNumber
        <5> HIDE DEF n, no
        <5>6. page[u].alone => page[u].no = n + 1
          BY <3>1, <5>1 DEF Numbered
        <5>7. QED
          BY <2>1, <5>1, <5>3, <5>5, <5>6
      <4>4. ~removed => Numbered(page'[u], invoices', n)
        BY <4>2, <4>3 DEF Numbered
      <4>5. QED
        BY <2>3, <3>1, <4>1, <4>2, <4>4
    <3>4. QED
      BY <3>2, <3>3
  <2>12. QED
    BY <1>1, <1>3, <2>2, <2>5, <2>6, <2>7, <2>8, <2>9, <2>10, <2>11, StepKinds
<1>4. QED
  BY <1>1, <1>2, <1>3 DEF Next

LEMMA InitNumberInv == Init => NumberInv
<1>1. SUFFICES ASSUME Init PROVE NumberInv
  OBVIOUS
<1>2. DOMAIN lists = {} /\ \A u \in Users : page[u].at = "closed"
  BY <1>1, ClosedAt DEF Init
<1>3. IsFiniteSet(DOMAIN lists)
  BY <1>2, FS_EmptySet
<1>4. QED
  BY <1>2, <1>3 DEF NumberInv, Numbered

\* A save of an export invoice that no other came between ends with its packing
\* list saved, unless an invoice was deleted before: the number, counted one
\* transaction ahead of its use, is then free.
THEOREM LoneSavesSucceed == Spec => []LoneSaveSucceeds
<1>1. NumberInv => LoneSaveSucceeds
  BY DEF NumberInv, Numbered, LoneSaveSucceeds
<1>2. QED
  BY <1>1, AlwaysShaped, InitNumberInv, NumberInvStep, PTL DEF Spec

-----------------------------------------------------------------------------
(* What the packings of a loading planning hold.                           *)

\* The places of a list.
LEMMA ListPlaces ==
    ASSUME NEW X, NEW s \in Seq(X)
    PROVE  /\ DOMAIN s = 1..Len(s) /\ Len(s) \in Nat /\ IsFiniteSet(DOMAIN s)
           /\ \A k \in DOMAIN s : k \in Nat \ {0} /\ s[k] \in X
<1>1. DOMAIN s = 1..Len(s) /\ Len(s) \in Nat /\ \A k \in DOMAIN s : k \in Nat \ {0} /\ s[k] \in X
  OBVIOUS
<1>2. IsFiniteSet(1..Len(s))
  BY <1>1, FS_Interval
<1>3. QED
  BY <1>1, <1>2

Boxes == [sr : Nat, boxes : Nat]
Plan == [lines : Seq([product : Nat \ {None}, per : Nat, units : Nat]), byHand : Seq(Seq(Boxes))]
\* What a row of contents has of the boxes of these lines.
Boxed(srs) == [x \in Boxes |-> IF x.sr \in srs THEN x.boxes ELSE 0]
Content(srs) == [c \in Seq(Boxes) |-> BoxesOf(c, srs)]

\* What is left of a list comes to what the list does, when the rest is nothing.
LEMMA TotalOfKept ==
    ASSUME NEW X, NEW v \in [X -> Nat], NEW s \in Seq(X), NEW places \in SUBSET DOMAIN s,
           \A k \in DOMAIN s \ places : v[s[k]] = 0
    PROVE  At(s, places) \in Seq(X) /\ Tally(v, At(s, places)) = Tally(v, s)
<1>00. PICK rank : KeptBy(s, places, rank) /\ At(s, places) \in Seq(X)
  BY KeptRanks
<1>0. PICK t : t = At(s, places)
  OBVIOUS
<1> DEFINE f == [k \in places |-> v[s[k]]]
           g == [k \in 1..Len(t) |-> v[t[k]]]
           h == [k \in DOMAIN s |-> v[s[k]]]
<1>1. DOMAIN s = 1..Len(s) /\ Len(s) \in Nat /\ \A k \in DOMAIN s : s[k] \in X
  OBVIOUS
<1>2. IsFiniteSet(DOMAIN s) /\ IsFiniteSet(places)
  <2>1. IsFiniteSet(1..Len(s))
    BY <1>1, FS_Interval
  <2>2. QED
    BY <1>1, <2>1, FS_Subset
<1>3. /\ t \in Seq(X) /\ rank \in Bijection(places, 1..Len(t))
      /\ \A k \in places : t[rank[k]] = s[k]
  BY <1>00, <1>0 DEF KeptBy
<1>4. f \in [places -> Nat] /\ g \in [1..Len(t) -> Nat] /\ h \in [DOMAIN s -> Nat]
  <2>1. \A k \in 1..Len(t) : t[k] \in X
    BY <1>3
  <2>2. QED
    BY <1>1, <2>1
<1>5. SumFunction(f) = SumFunction(g)
  <2>1. \A k \in places : rank[k] \in 1..Len(t)
    BY <1>3 DEF Bijection, Injection
  <2>2. \A k \in places : f[k] = g[rank[k]]
    BY <1>3, <2>1
  <2> HIDE DEF f, g
  <2>3. Renames(rank, places, 1..Len(t), f, g)
    BY <1>2, <1>3, <1>4, <2>2 DEF Renames
  <2>4. QED
    BY <2>3, SumsRenamed
<1>6. SumFunction(h) = SumFunction(f)
  <2>1. (\A k \in places : h[k] = f[k]) /\ \A k \in DOMAIN s \ places : h[k] = 0
    OBVIOUS
  <2> HIDE DEF f, h
  <2>2. Pads(DOMAIN s, places, f, h)
    BY <1>2, <1>4, <2>1 DEF Pads
  <2>3. QED
    BY <2>2, SumPadded
<1>7. Tally(v, t) = SumFunction(g) /\ Tally(v, s) = SumFunction(h)
  BY <1>1 DEF Tally
<1>8. QED
  BY <1>0, <1>3, <1>5, <1>6, <1>7

\* The boxes of some lines in a packing, as a total.
LEMMA BoxesTotal ==
    ASSUME NEW c \in Seq(Boxes), NEW srs
    PROVE  /\ Boxed(srs) \in [Boxes -> Nat] /\ Content(srs) \in [Seq(Boxes) -> Nat]
           /\ BoxesOf(c, srs) = Tally(Boxed(srs), c) /\ BoxesOf(c, srs) \in Nat
<1>1. Boxed(srs) \in [Boxes -> Nat]
  BY DEF Boxed, Boxes
<1>2. ASSUME NEW d \in Seq(Boxes)
      PROVE  BoxesOf(d, srs) = Tally(Boxed(srs), d) /\ BoxesOf(d, srs) \in Nat
  <2>1. DOMAIN d = 1..Len(d) /\ \A k \in DOMAIN d : d[k] \in Boxes
    OBVIOUS
  <2>2. \A k \in DOMAIN d : Boxed(srs)[d[k]] = IF d[k].sr \in srs THEN d[k].boxes ELSE 0
    BY <2>1 DEF Boxed
  <2>3. BoxesOf(d, srs) = Tally(Boxed(srs), d)
    BY <2>1, <2>2 DEF BoxesOf, Tally
  <2>4. Tally(Boxed(srs), d) \in Nat
    BY <1>1, TotalOfBoth
  <2>5. QED
    BY <2>3, <2>4
<1>3. Content(srs) \in [Seq(Boxes) -> Nat]
  BY <1>2 DEF Content
<1>4. QED
  BY <1>1, <1>2, <1>3

\* The boxes of some lines in packings, as a total.
LEMMA PackedTotal ==
    ASSUME NEW packings \in Seq(Seq(Boxes)), NEW srs
    PROVE  BoxesPacked(packings, srs) = Tally(Content(srs), packings) /\ BoxesPacked(packings, srs) \in Nat
<1>1. DOMAIN packings = 1..Len(packings) /\ \A n \in DOMAIN packings : packings[n] \in Seq(Boxes)
  OBVIOUS
<1>2. \A n \in DOMAIN packings : Content(srs)[packings[n]] = BoxesOf(packings[n], srs)
  BY <1>1 DEF Content
<1>3. BoxesPacked(packings, srs) = Tally(Content(srs), packings)
  BY <1>1, <1>2 DEF BoxesPacked, Tally
<1>4. <<>> \in Seq(Boxes)
  OBVIOUS
<1>5. Content(srs) \in [Seq(Boxes) -> Nat]
  BY <1>4, BoxesTotal
<1>6. Tally(Content(srs), packings) \in Nat
  BY <1>5, TotalOfBoth
<1>7. QED
  BY <1>3, <1>6

\* The whole units of a line are of its boxes alone.
LEMMA WholeTotals ==
    ASSUME NEW plan \in Plan, NEW sr \in DOMAIN plan.lines, NEW x
    PROVE  /\ WholeUnits(plan, sr) \in Seq(Seq(Boxes))
           /\ Tally(Content({x}), WholeUnits(plan, sr)) =
                 IF x = sr THEN plan.lines[sr].units * plan.lines[sr].per ELSE 0
<1> DEFINE units == plan.lines[sr].units
           per == plan.lines[sr].per
           one == <<[sr |-> sr, boxes |-> per]>>
           c == IF x = sr THEN per ELSE 0
           f == [n \in 1..units |-> c]
<1>1. units \in Nat /\ per \in Nat /\ sr \in Nat
  <2>1. plan.lines \in Seq([product : Nat \ {None}, per : Nat, units : Nat])
    BY DEF Plan
  <2>2. sr \in Nat /\ plan.lines[sr] \in [product : Nat \ {None}, per : Nat, units : Nat]
    BY <2>1, ListPlaces
  <2>3. QED
    BY <2>2
<1> HIDE DEF units, per
<1>2. one \in Seq(Boxes) /\ Len(one) = 1 /\ one[1] = [sr |-> sr, boxes |-> per]
  BY <1>1 DEF Boxes
<1>3. WholeUnits(plan, sr) = [n \in 1..units |-> one]
  BY DEF WholeUnits, units, per
<1> HIDE DEF one
<1>4. WholeUnits(plan, sr) \in Seq(Seq(Boxes)) /\ Len(WholeUnits(plan, sr)) = units
  BY <1>1, <1>2, <1>3
<1>5. BoxesOf(one, {x}) = c
  <2> DEFINE g == [k \in DOMAIN one |-> IF one[k].sr \in {x} THEN one[k].boxes ELSE 0]
  <2>1. DOMAIN one = 1..1 /\ g \in [1..1 -> Nat] /\ g[1] = c
    BY <1>1, <1>2
  <2>2. BoxesOf(one, {x}) = SumFunction(g)
    BY DEF BoxesOf
  <2> HIDE DEF g, c
  <2>3. PICK D : D = 1..1
    OBVIOUS
  <2>4. IsFiniteSet(D) /\ 1 \in D /\ \A y \in D \ {1} : g[y] = 0
    <3>1. D = {1}
      BY <2>3
    <3>2. QED
      BY <3>1, FS_Singleton
  <2>5. g \in [D -> Nat]
    BY <2>1, <2>3
  <2>6. SumFunction(g) = g[1]
    BY ONLY <2>4, <2>5, SumOfOne, SMTT(30)
  <2>7. QED
    BY <2>1, <2>2, <2>6
<1>6. \A n \in 1..units : Content({x})[WholeUnits(plan, sr)[n]] = c
  BY <1>2, <1>3, <1>5 DEF Content
<1>7. Tally(Content({x}), WholeUnits(plan, sr)) = SumFunction(f)
  <2> HIDE DEF c
  <2>1. QED
    BY <1>4, <1>6 DEF Tally
<1>8. SumFunction(f) = units * c
  <2>1. c \in Nat
    BY <1>1
  <2>2. f \in [1..units -> Nat] /\ \A i \in 1..units : f[i] = c
    BY <2>1
  <2> HIDE DEF f, c
  <2>3. QED
    BY <1>1, <2>1, <2>2, SumOfEqual
<1>9. units * c = IF x = sr THEN units * per ELSE 0
  BY <1>1
<1>10. QED
  BY <1>4, <1>7, <1>8, <1>9 DEF units, per

\* The packings of a packing planning hold what it says is packed of each line.
LEMMA PlanTotals ==
    ASSUME NEW plan \in Plan
    PROVE  /\ Packings(plan) \in Seq(Seq(Boxes))
           /\ \A sr \in DOMAIN plan.lines :
                 PackedBoxes(plan, sr) \in Nat /\ BoxesPacked(Packings(plan), {sr}) = PackedBoxes(plan, sr)
<1> DEFINE whole == [sr \in DOMAIN plan.lines |-> WholeUnits(plan, sr)]
           flat == FlattenSeq(whole)
           n == Len(plan.lines)
<1>1. /\ DOMAIN plan.lines = 1..n /\ n \in Nat /\ plan.byHand \in Seq(Seq(Boxes))
      /\ \A sr \in DOMAIN plan.lines : plan.lines[sr].units \in Nat /\ plan.lines[sr].per \in Nat
  <2>1. plan.lines \in Seq([product : Nat \ {None}, per : Nat, units : Nat]) /\ plan.byHand \in Seq(Seq(Boxes))
    BY DEF Plan
  <2>2. \A sr \in DOMAIN plan.lines : plan.lines[sr] \in [product : Nat \ {None}, per : Nat, units : Nat]
    BY <2>1, ListPlaces
  <2>3. QED
    BY <2>1, <2>2
<1> HIDE DEF n
<1>2. \A sr \in DOMAIN plan.lines : WholeUnits(plan, sr) \in Seq(Seq(Boxes))
  BY WholeTotals
<1>3. whole \in Seq(Seq(Seq(Boxes))) /\ Len(whole) = n
  BY <1>1, <1>2
<1>4. \A sr \in 1..n : whole[sr] = WholeUnits(plan, sr)
  BY <1>1
<1> HIDE DEF whole
<1>5. flat \in Seq(Seq(Boxes))
  BY <1>3, FlatSpots
<1>6. Packings(plan) = flat \o plan.byHand
  BY DEF Packings, whole
<1>7. ASSUME NEW sr \in DOMAIN plan.lines
      PROVE  PackedBoxes(plan, sr) \in Nat /\ BoxesPacked(Packings(plan), {sr}) = PackedBoxes(plan, sr)
  <2> DEFINE v == Content({sr})
             f == [p \in 1..n |-> Tally(v, whole[p])]
             u == plan.lines[sr].units * plan.lines[sr].per
  <2>1. v \in [Seq(Boxes) -> Nat]
    <3>1. <<>> \in Seq(Boxes)
      OBVIOUS
    <3>2. QED
      BY <3>1, BoxesTotal
  <2>2. Tally(v, flat) = SumFunction(f)
    <3> HIDE DEF v
    <3>1. Tally(v, FlattenSeq(whole)) = SumFunction([p \in 1..Len(whole) |-> Tally(v, whole[p])])
      BY <1>3, <2>1, TotalOfFlat
    <3>2. QED
      BY <1>3, <3>1
  <2>3. \A p \in 1..n : Tally(v, whole[p]) = IF sr = p THEN plan.lines[p].units * plan.lines[p].per ELSE 0
    <3>1. SUFFICES ASSUME NEW p \in 1..n
                   PROVE  Tally(v, whole[p]) = IF sr = p THEN plan.lines[p].units * plan.lines[p].per ELSE 0
      OBVIOUS
    <3>2. p \in DOMAIN plan.lines
      BY <1>1
    <3>3. Tally(v, WholeUnits(plan, p)) = IF sr = p THEN plan.lines[p].units * plan.lines[p].per ELSE 0
      BY <3>2, WholeTotals
    <3>4. QED
      BY <1>4, <3>3
  <2>4. u \in Nat
    BY <1>1
  <2>5. f \in [1..n -> Nat] /\ f[sr] = u /\ \A p \in 1..n \ {sr} : f[p] = 0
    <3> HIDE DEF v
    <3>1. sr \in 1..n
      BY <1>1
    <3>2. \A p \in 1..n : f[p] = IF sr = p THEN plan.lines[p].units * plan.lines[p].per ELSE 0
      BY <2>3
    <3> HIDE DEF f
    <3>3. f[sr] = u /\ \A p \in 1..n \ {sr} : f[p] = 0
      BY <3>1, <3>2
    <3>4. \A p \in 1..n : f[p] \in Nat
      <4> HIDE DEF u
      <4>1. QED
        BY <2>4, <3>3
    <3>5. QED
      BY <3>3, <3>4 DEF f
  <2>6. SumFunction(f) = u
    <3> HIDE DEF f, u
    <3>1. PICK D : D = 1..n
      OBVIOUS
    <3>2. IsFiniteSet(D) /\ sr \in D /\ \A y \in D \ {sr} : f[y] = 0
      BY <1>1, <2>5, <3>1, FS_Interval
    <3>3. f \in [D -> Nat]
      BY <2>5, <3>1
    <3>4. SumFunction(f) = f[sr]
      BY ONLY <3>2, <3>3, SumOfOne, SMTT(30)
    <3>5. QED
      BY <2>5, <3>4
  <2>7. Tally(v, flat \o plan.byHand) = Tally(v, flat) + Tally(v, plan.byHand)
    <3> HIDE DEF v, flat
    <3>1. QED
      BY <1>1, <1>5, <2>1, TotalOfBoth
  <2>8. BoxesPacked(plan.byHand, {sr}) = Tally(v, plan.byHand) /\ BoxesPacked(plan.byHand, {sr}) \in Nat
    BY <1>1, PackedTotal
  <2>9. Packings(plan) \in Seq(Seq(Boxes))
    <3> HIDE DEF flat
    <3>1. QED
      BY <1>1, <1>5, <1>6, Appended
  <2>10. BoxesPacked(Packings(plan), {sr}) = Tally(v, Packings(plan))
    BY <2>9, PackedTotal
  <2>11. PackedBoxes(plan, sr) = u + BoxesPacked(plan.byHand, {sr})
    BY DEF PackedBoxes
  <2> HIDE DEF u, v, flat
  <2>12. QED
    BY <1>6, <2>2, <2>4, <2>6, <2>7, <2>8, <2>10, <2>11
<1>8. Packings(plan) \in Seq(Seq(Boxes))
  <2> HIDE DEF flat
  <2>1. QED
    BY <1>1, <1>5, <1>6, Appended
<1>9. QED
  BY <1>7, <1>8

-----------------------------------------------------------------------------
(* The split of the goods lines over the containers.                       *)

Line == [product : Nat \ {None}, boxes : Nat]
AnyLine == [product : Nat, boxes : Int]

\* A row of the split of these lines over containers.
SplitRow(a, lines) ==
    /\ a = [n |-> a.n, at |-> a.at, line |-> a.line, boxes |-> a.boxes, meant |-> a.meant, of |-> a.of]
    /\ a.line \in DOMAIN lines /\ a.boxes \in Nat
SplitFits(split, lines) == IsFiniteSet(split) /\ \A a \in split : SplitRow(a, lines)

\* Each row says what stands at its place, when no row of the table is left out on the form.
MeantFits(odd, rows, split) ==
    ~odd => OnForm(rows) = rows /\ \A a \in split : a.meant = Label(rows, a.at)

\* A form as it was opened.
FormFits(r) ==
    /\ {"at", "id", "lines", "rows", "split", "odd"} \subseteq DOMAIN r
    /\ r.lines \in Seq(Line) /\ SplitFits(r.split, r.lines)
    /\ MeantFits(r.odd, r.rows, r.split)
    /\ \A a \in r.split : a.of = r.lines[a.line].product

\* A form as it is submitted.
ChangedFits(f) ==
    /\ f.lines \in Seq(AnyLine) /\ SplitFits(f.split, f.lines)
    /\ MeantFits(f.odd, f.rows, f.split)
    /\ \A a \in f.split : f.lines[a.line].product # None => a.of = f.lines[a.line].product
    /\ \/ \A k \in DOMAIN f.lines : f.lines[k].boxes \in Nat
       \/ \E a \in f.split : f.lines[a.line].product # None

\* A list of what its places have.
LEMMA Retyped ==
    ASSUME NEW X, NEW Y, NEW s \in Seq(X), \A k \in 1..Len(s) : s[k] \in Y
    PROVE  s \in Seq(Y)
OBVIOUS

\* The split every line of which is whole in the first container.
LEMMA DefaultFits ==
    ASSUME NEW lines \in Seq(AnyLine), \A k \in DOMAIN lines : lines[k].boxes \in Nat, NEW rows
    PROVE  /\ SplitFits(DefaultSplit(lines, rows), lines)
           /\ \A a \in DefaultSplit(lines, rows) :
                 a.meant = Label(rows, a.at) /\ a.of = lines[a.line].product
<1> DEFINE row(k) == [n |-> <<1, k>>, at |-> 1, line |-> k, boxes |-> lines[k].boxes,
                      of |-> lines[k].product, meant |-> Label(rows, 1)]
           h == [k \in DOMAIN lines |-> row(k)]
           split == DefaultSplit(lines, rows)
<1>1. \A a \in split : \E k \in DOMAIN lines : a = row(k)
  BY DEF DefaultSplit
<1>2. ASSUME NEW a \in split
      PROVE  SplitRow(a, lines) /\ a.meant = Label(rows, a.at) /\ a.of = lines[a.line].product
  <2>1. PICK k \in DOMAIN lines : a = row(k)
    BY <1>1
  <2>2. /\ a.n = <<1, k>> /\ a.at = 1 /\ a.line = k /\ a.boxes = lines[k].boxes
        /\ a.of = lines[k].product /\ a.meant = Label(rows, 1)
    BY <2>1
  <2>3. SplitRow(a, lines)
    BY <2>1, <2>2 DEF SplitRow
  <2>4. QED
    BY <2>2, <2>3
<1>3. IsFiniteSet(split)
  <2>1. IsFiniteSet(DOMAIN lines)
    BY ListPlaces
  <2>2. split = {row(k) : k \in DOMAIN lines}
    BY DEF DefaultSplit
  <2>3. h \in Surjection(DOMAIN lines, split)
    BY <2>2 DEF Surjection
  <2>4. QED
    BY <2>1, <2>3, FS_Surjection
<1>4. QED
  BY <1>2, <1>3 DEF SplitFits

\* The rows of one line, and the boxes they come to.
Of(split, k) == {b \in split : b.line = k}

\* The boxes a split has of a line are a finite sum of naturals.
LEMMA SplitSums ==
    ASSUME NEW lines, NEW split, SplitFits(split, lines), NEW k
    PROVE  /\ IsFiniteSet(Of(split, k)) /\ [a \in Of(split, k) |-> a.boxes] \in [Of(split, k) -> Nat]
           /\ BoxesInSplit(split, k) = SumFunction([a \in Of(split, k) |-> a.boxes])
           /\ BoxesInSplit(split, k) \in Nat
<1>1. IsFiniteSet(split) /\ \A a \in split : a.boxes \in Nat
  BY DEF SplitFits, SplitRow
<1>2. IsFiniteSet(Of(split, k))
  <2>1. Of(split, k) \in SUBSET split
    BY DEF Of
  <2>2. QED
    BY <1>1, <2>1, FS_Subset
<1>3. [a \in Of(split, k) |-> a.boxes] \in [Of(split, k) -> Nat]
  BY <1>1 DEF Of
<1>4. SumFunction([a \in Of(split, k) |-> a.boxes]) \in Nat
  BY <1>2, <1>3, SumSplits
<1>5. QED
  BY <1>2, <1>3, <1>4 DEF BoxesInSplit, Of

\* A split whose rows are rewritten one by one has as many boxes of a line as before.
Rewrites(g, split, new, j, k) ==
    /\ \A a \in Of(split, k) : g[a] \in Of(new, j) /\ g[a].boxes = a.boxes
    /\ \A a, b \in Of(split, k) : g[a] = g[b] => a = b
    /\ \A c \in Of(new, j) : \E a \in Of(split, k) : g[a] = c

\* It has as many of a line, however its rows are rewritten one by one.
LEMMA SumsRewritten ==
    ASSUME NEW lines, NEW split, SplitFits(split, lines), NEW g, NEW new, NEW j, NEW k,
           Rewrites(g, split, new, j, k)
    PROVE  BoxesInSplit(new, j) = BoxesInSplit(split, k)
<1> DEFINE D == Of(split, k)
           E == Of(new, j)
           h == [a \in D |-> g[a]]
           f == [a \in D |-> a.boxes]
           e == [a \in E |-> a.boxes]
<1>1. IsFiniteSet(D) /\ f \in [D -> Nat] /\ BoxesInSplit(split, k) = SumFunction(f)
  BY SplitSums
<1>2. /\ \A a \in D : g[a] \in E /\ g[a].boxes = a.boxes
      /\ \A a, b \in D : g[a] = g[b] => a = b
      /\ \A c \in E : \E a \in D : g[a] = c
  BY DEF Rewrites
<1>3. BoxesInSplit(new, j) = SumFunction(e)
  BY DEF BoxesInSplit, Of
<1> HIDE DEF D, E
<1>4. \A a \in D : a.boxes \in Nat
  BY <1>1
<1>5. e \in [E -> Nat]
  BY <1>2, <1>4
<1>6. h \in Bijection(D, E)
  <2>1. h \in [D -> E]
    BY <1>2
  <2>2. \A a, b \in D : h[a] = h[b] => a = b
    BY <1>2
  <2>3. \A c \in E : \E a \in D : h[a] = c
    BY <1>2
  <2> HIDE DEF h
  <2>4. QED
    BY <2>1, <2>2, <2>3 DEF Bijection, Injection, Surjection, IsInjective
<1>7. \A a \in D : f[a] = e[h[a]]
  BY <1>2
<1> HIDE DEF e, f, h
<1>8. Renames(h, D, E, f, e)
  BY <1>1, <1>5, <1>6, <1>7 DEF Renames
<1>9. QED
  BY <1>1, <1>3, <1>8, SumsRenamed

\* Where the lines that have a name end up.
Kept(lines) == {k \in DOMAIN lines : lines[k].product # None}

\* A line that is kept has the number of the lines up to it that are.
LEMMA NamedRanks ==
    ASSUME NEW X, NEW lines \in Seq(X)
    PROVE  /\ Named(lines) \in Seq(X)
           /\ \E rank : /\ KeptBy(lines, Kept(lines), rank)
                        /\ \A k \in Kept(lines) :
                              rank[k] = Cardinality({j \in 1..k : lines[j].product # None})
<1>1. Kept(lines) \in SUBSET DOMAIN lines /\ Named(lines) = At(lines, Kept(lines))
  BY DEF Kept, Named
<1>2. PICK rank : KeptBy(lines, Kept(lines), rank) /\ Named(lines) \in Seq(X)
  BY <1>1, KeptRanks
<1>3. ASSUME NEW k \in Kept(lines)
      PROVE  rank[k] = Cardinality({j \in 1..k : lines[j].product # None})
  <2>1. DOMAIN lines = 1..Len(lines) /\ Len(lines) \in Nat /\ k \in DOMAIN lines
    BY DEF Kept
  <2>2. {j \in Kept(lines) : j <= k} = {j \in 1..k : lines[j].product # None}
    BY <2>1 DEF Kept
  <2>3. rank[k] = Cardinality({j \in Kept(lines) : j <= k})
    BY <1>2 DEF KeptBy
  <2>4. QED
    BY <2>2, <2>3
<1>4. QED
  BY <1>2, <1>3

\* A row is told by the rest of it when its line is.
LEMMA LineReplaced ==
    ASSUME NEW a, NEW lines, SplitRow(a, lines), NEW c
    PROVE  LET b == [a EXCEPT !.line = c]
           IN  /\ b = [n |-> a.n, at |-> a.at, line |-> c, boxes |-> a.boxes, meant |-> a.meant, of |-> a.of]
               /\ b.n = a.n /\ b.at = a.at /\ b.line = c /\ b.boxes = a.boxes
               /\ b.meant = a.meant /\ b.of = a.of
BY DEF SplitRow

\* The split that is posted is of the lines that are written as the one on
\* the screen is of the lines that are shown.
Remaps(split, lines) ==
    /\ Named(lines) \in Seq([product : Nat \ {None}, boxes : Int])
    /\ SplitFits(Remapped(split, lines), Named(lines))
    /\ \A b \in Remapped(split, lines) : \E a \in split :
          /\ b.at = a.at /\ b.meant = a.meant /\ b.of = a.of
          /\ lines[a.line].product # None /\ Named(lines)[b.line] = lines[a.line]
    /\ Balanced(Named(lines), Remapped(split, lines)) <=>
          \A k \in DOMAIN lines : lines[k].product # None =>
              BoxesInSplit(split, k) = lines[k].boxes

\* So it is whichever rows of the lines are cleared.
LEMMA RemapFits ==
    ASSUME NEW lines \in Seq(AnyLine), NEW split, SplitFits(split, lines)
    PROVE  Remaps(split, lines)
<1> DEFINE new == Remapped(split, lines)
           named == Named(lines)
           K == Kept(lines)
<1>1. PICK rank : /\ KeptBy(lines, K, rank) /\ named \in Seq(AnyLine)
                  /\ \A k \in K : rank[k] = Cardinality({j \in 1..k : lines[j].product # None})
  BY NamedRanks
<1>2. DOMAIN named = 1..Len(named) /\ Len(named) \in Nat
  BY <1>1
<1>3. /\ \A k \in K : rank[k] \in DOMAIN named /\ named[rank[k]] = lines[k]
      /\ \A j \in DOMAIN named : \E k \in K : rank[k] = j
      /\ \A j, k \in K : rank[j] = rank[k] => j = k
  <2>1. rank \in Bijection(K, 1..Len(named)) /\ \A k \in K : named[rank[k]] = lines[k]
    BY <1>1 DEF KeptBy, Named, Kept
  <2>2. QED
    BY <1>2, <2>1 DEF Bijection, Injection, Surjection, IsInjective
<1>4. \A k \in K : k \in DOMAIN lines /\ lines[k].product # None /\ lines[k] \in AnyLine
  BY ListPlaces DEF Kept
<1> DEFINE to(a) == [a EXCEPT !.line = rank[a.line]]
           kept == {b \in split : lines[b.line].product # None}
<1>5. \A a \in kept : a \in split /\ SplitRow(a, lines) /\ a.line \in K
  BY DEF SplitFits, SplitRow, Kept
<1>6. \A a \in kept : /\ to(a).n = a.n /\ to(a).at = a.at /\ to(a).line = rank[a.line] /\ to(a).boxes = a.boxes
                      /\ to(a).meant = a.meant /\ to(a).of = a.of
                      /\ to(a) = [n |-> a.n, at |-> a.at, line |-> rank[a.line], boxes |-> a.boxes,
                                  meant |-> a.meant, of |-> a.of]
  BY <1>5, LineReplaced
<1>7. new = {to(a) : a \in kept}
  <2>1. \A a \in kept : rank[a.line] = Cardinality({k \in 1..a.line : lines[k].product # None})
    BY <1>1, <1>5
  <2>2. new = {[a EXCEPT !.line = Cardinality({k \in 1..a.line : lines[k].product # None})] : a \in kept}
    BY DEF Remapped
  <2> HIDE DEF kept
  <2>3. QED
    BY <2>1, <2>2
<1>8. \A a, b \in kept : to(a) = to(b) => a = b
  <2>1. SUFFICES ASSUME NEW a \in kept, NEW b \in kept, to(a) = to(b) PROVE a = b
    OBVIOUS
  <2>2. a.n = b.n /\ a.at = b.at /\ rank[a.line] = rank[b.line] /\ a.boxes = b.boxes
        /\ a.meant = b.meant /\ a.of = b.of
    BY <1>6, <2>1
  <2>3. a.line = b.line
    BY <1>3, <1>5, <2>2
  <2>4. QED
    BY <1>5, <2>2, <2>3 DEF SplitRow
<1>9. named \in Seq([product : Nat \ {None}, boxes : Int])
  <2>1. \A j \in 1..Len(named) : named[j] \in [product : Nat \ {None}, boxes : Int]
    <3>1. SUFFICES ASSUME NEW j \in 1..Len(named) PROVE named[j] \in [product : Nat \ {None}, boxes : Int]
      OBVIOUS
    <3>2. PICK k \in K : rank[k] = j
      BY <1>2, <1>3
    <3>3. named[j] = lines[k] /\ lines[k].product # None /\ lines[k] \in AnyLine
      BY <1>3, <1>4, <3>2
    <3>4. QED
      BY <3>3 DEF AnyLine
  <2> HIDE DEF named
  <2>2. QED
    BY <1>1, <2>1, Retyped
<1>10. ASSUME NEW b \in new
       PROVE  \E a \in kept : /\ b = to(a) /\ SplitRow(b, named) /\ b.at = a.at /\ b.meant = a.meant /\ b.of = a.of
                              /\ lines[a.line].product # None /\ named[b.line] = lines[a.line]
  <2>1. PICK a \in kept : b = to(a)
    BY <1>7
  <2>2. a.line \in K /\ a.boxes \in Nat
    BY <1>5 DEF SplitRow
  <2>3. rank[a.line] \in DOMAIN named /\ named[rank[a.line]] = lines[a.line] /\ lines[a.line].product # None
    BY <1>3, <1>4, <2>2
  <2>4. SplitRow(b, named)
    BY <1>6, <2>1, <2>2, <2>3 DEF SplitRow
  <2>5. QED
    BY <1>6, <2>1, <2>3, <2>4
<1>11. IsFiniteSet(new)
  <2> DEFINE h == [a \in kept |-> to(a)]
  <2>1. IsFiniteSet(kept)
    <3>1. kept \in SUBSET split /\ IsFiniteSet(split)
      BY DEF SplitFits
    <3>2. QED
      BY <3>1, FS_Subset
  <2>2. h \in Surjection(kept, new)
    <3> HIDE DEF kept, new
    <3>1. QED
      BY <1>7 DEF Surjection
  <2>3. QED
    BY <2>1, <2>2, FS_Surjection
<1>12. SplitFits(new, named)
  BY <1>10, <1>11 DEF SplitFits
<1>13. ASSUME NEW k \in K
       PROVE  BoxesInSplit(new, rank[k]) = BoxesInSplit(split, k)
  <2> DEFINE g == [a \in kept |-> to(a)]
             j == rank[k]
  <2>1. \A a \in Of(split, k) : a \in kept /\ a.line = k
    BY <1>4 DEF Of
  <2>2. \A a \in Of(split, k) : g[a] = to(a)
    BY <2>1
  <2>3. \A a \in Of(split, k) : g[a] \in Of(new, j) /\ g[a].boxes = a.boxes
    <3>1. SUFFICES ASSUME NEW a \in Of(split, k) PROVE g[a] \in Of(new, j) /\ g[a].boxes = a.boxes
      OBVIOUS
    <3>2. a \in kept /\ a.line = k /\ g[a] = to(a)
      BY <2>1, <2>2
    <3>3. to(a).line = j /\ to(a).boxes = a.boxes
      BY <1>6, <3>2
    <3>4. to(a) \in new
      BY <1>7, <3>2
    <3>5. QED
      BY <3>2, <3>3, <3>4 DEF Of
  <2>4. \A a, b \in Of(split, k) : g[a] = g[b] => a = b
    BY <1>8, <2>1, <2>2
  <2>5. \A c \in Of(new, j) : \E a \in Of(split, k) : g[a] = c
    <3>1. SUFFICES ASSUME NEW c \in Of(new, j) PROVE \E a \in Of(split, k) : g[a] = c
      OBVIOUS
    <3>2. PICK a \in kept : c = to(a)
      BY <1>7 DEF Of
    <3>3. rank[a.line] = rank[k]
      BY <1>6, <3>1, <3>2 DEF Of
    <3>4. a.line = k
      BY <1>3, <1>5, <3>2, <3>3
    <3>5. a \in Of(split, k)
      BY <1>5, <3>2, <3>4 DEF Of
    <3>6. QED
      BY <2>2, <3>2, <3>5
  <2> HIDE DEF g, new
  <2>6. Rewrites(g, split, new, j, k)
    BY <2>3, <2>4, <2>5 DEF Rewrites
  <2>7. QED
    BY <2>6, SumsRewritten
<1>14. ASSUME NEW k \in K
       PROVE  BoxesInSplit(new, rank[k]) = named[rank[k]].boxes <=> BoxesInSplit(split, k) = lines[k].boxes
  BY <1>3, <1>13
<1>15. Balanced(named, new) <=> \A k \in K : BoxesInSplit(split, k) = lines[k].boxes
  <2> HIDE DEF K, new, named
  <2>1. QED
    BY <1>3, <1>14 DEF Balanced
<1>16. (\A k \in K : BoxesInSplit(split, k) = lines[k].boxes) <=>
           \A k \in DOMAIN lines : lines[k].product # None => BoxesInSplit(split, k) = lines[k].boxes
  BY DEF Kept
<1>17. \A b \in new : \E a \in split :
          /\ b.at = a.at /\ b.meant = a.meant /\ b.of = a.of
          /\ lines[a.line].product # None /\ named[b.line] = lines[a.line]
  <2> HIDE DEF new, named
  <2>1. QED
    BY <1>5, <1>10
<1>18. QED
  BY <1>9, <1>12, <1>15, <1>16, <1>17 DEF Remaps

\* A row of the packing list, made of one of the split.
PackingRow(a, ct, product) == Put(Put(a, "ct", ct), "product", product)

\* What it says beside that is what the row of the split says.
LEMMA PackingRowOf ==
    ASSUME NEW a, NEW lines, SplitRow(a, lines), NEW ct, NEW product
    PROVE  LET x == PackingRow(a, ct, product)
           IN  /\ x.n = a.n /\ x.at = a.at /\ x.line = a.line /\ x.boxes = a.boxes /\ x.meant = a.meant
               /\ x.of = a.of /\ x.ct = ct /\ x.product = product
<1> DEFINE b == Put(a, "ct", ct)
           x == PackingRow(a, ct, product)
<1>1. DOMAIN a = {"n", "at", "line", "boxes", "meant", "of"}
  BY DEF SplitRow
<1>2. DOMAIN b = DOMAIN a \union {"ct"} /\ \A z \in DOMAIN b : b[z] = IF z = "ct" THEN ct ELSE a[z]
  BY DEF Put
<1>3. x = Put(b, "product", product)
  BY DEF PackingRow
<1> HIDE DEF b, x
<1>4. DOMAIN x = DOMAIN b \union {"product"} /\ \A z \in DOMAIN x : x[z] = IF z = "product" THEN product ELSE b[z]
  BY <1>3 DEF Put
<1>5. \A z \in DOMAIN a : x[z] = a[z]
  BY <1>1, <1>2, <1>4
<1>6. x["ct"] = ct /\ x["product"] = product
  BY <1>1, <1>2, <1>4
<1>7. /\ x["n"] = a["n"] /\ x["at"] = a["at"] /\ x["line"] = a["line"] /\ x["boxes"] = a["boxes"]
      /\ x["meant"] = a["meant"] /\ x["of"] = a["of"]
  BY <1>1, <1>5
<1>8. QED
  BY <1>6, <1>7 DEF x

\* The packing list has the boxes of the split, with what stands at their places.
LEMMA PackFits ==
    ASSUME NEW lines, NEW split, SplitFits(split, lines), NEW rows
    PROVE  /\ IsFiniteSet(PackingRows(lines, rows, split))
           /\ \A x \in PackingRows(lines, rows, split) : \E a \in split :
                 /\ x.line = a.line /\ x.boxes = a.boxes /\ x.meant = a.meant /\ x.of = a.of
                 /\ x.ct = (IF a.at \in DOMAIN rows THEN rows[a.at] ELSE None)
                 /\ x.product = lines[a.line].product
           /\ \A k : BoxesInSplit(PackingRows(lines, rows, split), k) = BoxesInSplit(split, k)
<1> DEFINE ct(a) == IF a.at \in DOMAIN rows THEN rows[a.at] ELSE None
           to(a) == PackingRow(a, ct(a), lines[a.line].product)
           new == PackingRows(lines, rows, split)
           h == [a \in split |-> to(a)]
<1>1. new = {to(a) : a \in split}
  BY DEF PackingRows, PackingRow
<1>2. IsFiniteSet(split) /\ \A a \in split : SplitRow(a, lines)
  BY DEF SplitFits
<1>3. ASSUME NEW a \in split
      PROVE  /\ to(a).n = a.n /\ to(a).at = a.at /\ to(a).line = a.line /\ to(a).boxes = a.boxes
             /\ to(a).meant = a.meant /\ to(a).of = a.of /\ to(a).ct = ct(a)
             /\ to(a).product = lines[a.line].product
  <2> HIDE DEF ct
  <2>1. QED
    BY <1>2, PackingRowOf
<1> HIDE DEF to, new
<1>4. \A a, b \in split : to(a) = to(b) => a = b
  <2>1. SUFFICES ASSUME NEW a \in split, NEW b \in split, to(a) = to(b) PROVE a = b
    OBVIOUS
  <2>2. /\ a.n = b.n /\ a.at = b.at /\ a.line = b.line /\ a.boxes = b.boxes /\ a.meant = b.meant /\ a.of = b.of
    BY <1>3, <2>1
  <2>3. QED
    BY <1>2, <2>2 DEF SplitRow
<1>5. IsFiniteSet(new)
  <2>1. h \in Surjection(split, new)
    BY <1>1 DEF Surjection
  <2>2. QED
    BY <1>2, <2>1, FS_Surjection
<1>6. ASSUME NEW k
      PROVE  BoxesInSplit(new, k) = BoxesInSplit(split, k)
  <2>1. \A a \in Of(split, k) : a \in split /\ a.line = k /\ h[a] = to(a)
    BY DEF Of
  <2>2. \A a \in Of(split, k) : h[a] \in Of(new, k) /\ h[a].boxes = a.boxes
    BY <1>1, <1>3, <2>1 DEF Of
  <2>3. \A a, b \in Of(split, k) : h[a] = h[b] => a = b
    BY <1>4, <2>1
  <2>4. \A c \in Of(new, k) : \E a \in Of(split, k) : h[a] = c
    <3>1. SUFFICES ASSUME NEW c \in Of(new, k) PROVE \E a \in Of(split, k) : h[a] = c
      OBVIOUS
    <3>2. PICK a \in split : c = to(a)
      BY <1>1 DEF Of
    <3>3. a \in Of(split, k)
      BY <1>3, <3>1, <3>2 DEF Of
    <3>4. QED
      BY <2>1, <3>2, <3>3
  <2> HIDE DEF h
  <2>5. Rewrites(h, split, new, k, k)
    BY <2>2, <2>3, <2>4 DEF Rewrites
  <2>6. QED
    BY <2>5, SumsRewritten
<1>7. ASSUME NEW x \in new
      PROVE  \E a \in split :
                 /\ x.line = a.line /\ x.boxes = a.boxes /\ x.meant = a.meant /\ x.of = a.of
                 /\ x.ct = ct(a) /\ x.product = lines[a.line].product
  BY <1>1, <1>3
<1>8. QED
  BY <1>5, <1>6, <1>7 DEF new

\* Whatever the user makes of a form as it was opened, it can be read.
LEMMA ChangesFit ==
    ASSUME NEW r, FormFits(r), NEW f \in Changed(r)
    PROVE  ChangedFits(f) /\ {"at", "id", "lines", "rows", "split", "odd"} \subseteq DOMAIN f
<1>1. /\ {"at", "id", "lines", "rows", "split", "odd"} \subseteq DOMAIN r
      /\ r.lines \in Seq(Line) /\ SplitFits(r.split, r.lines)
      /\ MeantFits(r.odd, r.rows, r.split)
      /\ \A a \in r.split : a.of = r.lines[a.line].product
  BY DEF FormFits
<1>2. /\ r.lines \in Seq(AnyLine) /\ DOMAIN r.lines = 1..Len(r.lines)
      /\ \A k \in DOMAIN r.lines : r.lines[k] \in Line /\ r.lines[k].boxes \in Nat /\ r.lines[k].product # None
                                   /\ r.lines[k].product \in Nat
  <2>1. \A k \in DOMAIN r.lines : r.lines[k] \in Line
    BY <1>1, ListPlaces
  <2>2. \A k \in DOMAIN r.lines : r.lines[k].boxes \in Nat /\ r.lines[k].product # None
                                  /\ r.lines[k].product \in Nat /\ r.lines[k] \in AnyLine
    BY <2>1 DEF Line, AnyLine
  <2>3. DOMAIN r.lines = 1..Len(r.lines)
    BY <1>1
  <2>4. r.lines \in Seq(AnyLine)
    BY <1>1, <2>2, <2>3, Retyped
  <2>5. QED
    BY <2>1, <2>2, <2>3, <2>4
<1>3. CASE f = r
  BY <1>1, <1>2, <1>3 DEF ChangedFits
<1>4. CASE f \in Rebooked(r)
  <2>1. PICK rows : f = [r EXCEPT !.rows = rows, !.split = DefaultSplit(r.lines, rows), !.odd = OnForm(rows) # rows]
    BY <1>4 DEF Rebooked
  <2>2. /\ f.lines = r.lines /\ f.rows = rows /\ f.split = DefaultSplit(r.lines, rows)
        /\ f.odd = (OnForm(rows) # rows) /\ DOMAIN f = DOMAIN r
    BY <1>1, <2>1
  <2>3. /\ SplitFits(f.split, f.lines)
        /\ \A a \in f.split : a.meant = Label(rows, a.at) /\ a.of = f.lines[a.line].product
    BY <1>2, <2>2, DefaultFits
  <2>4. MeantFits(f.odd, f.rows, f.split)
    BY <2>2, <2>3 DEF MeantFits
  <2>5. QED
    BY <1>1, <1>2, <2>2, <2>3, <2>4 DEF ChangedFits
<1>5. CASE f \in LineCleared(r)
  <2>1. PICK k \in DOMAIN r.lines : f = [r EXCEPT !.lines[k].product = None]
    BY <1>5 DEF LineCleared
  <2>2. /\ f.lines = [r.lines EXCEPT ![k].product = None] /\ f.rows = r.rows /\ f.split = r.split
        /\ f.odd = r.odd /\ DOMAIN f = DOMAIN r
    BY <1>1, <2>1
  <2>3. DOMAIN f.lines = DOMAIN r.lines /\ \A j \in DOMAIN r.lines :
            f.lines[j] = IF j = k THEN [r.lines[k] EXCEPT !.product = None] ELSE r.lines[j]
    BY <2>2
  <2>4. \A j \in DOMAIN r.lines : /\ f.lines[j] \in AnyLine /\ f.lines[j].boxes \in Nat
                                  /\ f.lines[j].product # None => f.lines[j].product = r.lines[j].product
    <3>1. [r.lines[k] EXCEPT !.product = None] \in AnyLine
          /\ [r.lines[k] EXCEPT !.product = None].boxes \in Nat
          /\ [r.lines[k] EXCEPT !.product = None].product = None
      BY <1>2 DEF Line, AnyLine, None
    <3>2. \A j \in DOMAIN r.lines : r.lines[j] \in AnyLine
      BY <1>2 DEF Line, AnyLine
    <3>3. QED
      BY <1>2, <2>3, <3>1, <3>2
  <2>5. f.lines \in Seq(AnyLine)
    <3> DEFINE n == Len(r.lines)
    <3>1. PICK e : f.lines = [r.lines EXCEPT ![k] = e]
      BY <2>2
    <3>2. f.lines = [j \in DOMAIN r.lines |-> f.lines[j]]
      BY <3>1
    <3>3. n \in Nat /\ f.lines = [j \in 1..n |-> f.lines[j]]
      BY <1>1, <1>2, <3>2
    <3>4. \A j \in 1..n : f.lines[j] \in AnyLine
      BY <1>2, <2>4
    <3> HIDE DEF n
    <3>5. QED
      BY <3>3, <3>4
  <2>6. SplitFits(f.split, f.lines)
    BY <1>1, <2>2, <2>3 DEF SplitFits, SplitRow
  <2>7. \A a \in f.split : f.lines[a.line].product # None => a.of = f.lines[a.line].product
    BY <1>1, <2>2, <2>4 DEF SplitFits, SplitRow
  <2>8. QED
    BY <1>1, <2>2, <2>3, <2>4, <2>5, <2>6, <2>7 DEF ChangedFits
<1>6. CASE f \in BoxTaken(r)
  <2>1. PICK a \in r.split : a.boxes > 1 /\
            f = [r EXCEPT !.lines[a.line].boxes = @ - 1,
                          !.split = (@ \ {a}) \union {[a EXCEPT !.boxes = @ - 1]}]
    BY <1>6 DEF BoxTaken
  <2> DEFINE less == [a EXCEPT !.boxes = @ - 1]
             k == a.line
  <2>2. /\ f.lines = [r.lines EXCEPT ![k].boxes = @ - 1] /\ f.rows = r.rows
        /\ f.split = (r.split \ {a}) \union {less} /\ f.odd = r.odd /\ DOMAIN f = DOMAIN r
    BY <1>1, <2>1
  <2>3. SplitRow(a, r.lines) /\ k \in DOMAIN r.lines
    BY <1>1 DEF SplitFits, SplitRow
  <2>4. SplitRow(less, r.lines) /\ less.line = k /\ less.meant = a.meant /\ less.at = a.at /\ less.of = a.of
    <3>1. a.boxes - 1 \in Nat
      BY <2>1, <2>3 DEF SplitRow
    <3>2. less = [n |-> a.n, at |-> a.at, line |-> a.line, boxes |-> a.boxes - 1, meant |-> a.meant, of |-> a.of]
      BY <2>3 DEF SplitRow
    <3> HIDE DEF less
    <3>3. /\ less.n = a.n /\ less.at = a.at /\ less.line = a.line /\ less.boxes = a.boxes - 1
          /\ less.meant = a.meant /\ less.of = a.of
      BY <3>2
    <3>4. QED
      BY <2>3, <3>1, <3>2, <3>3 DEF SplitRow
  <2> HIDE DEF less
  <2>5. DOMAIN f.lines = DOMAIN r.lines /\ \A j \in DOMAIN r.lines :
            f.lines[j] = IF j = k THEN [r.lines[k] EXCEPT !.boxes = @ - 1] ELSE r.lines[j]
    BY <2>2
  <2>6. \A j \in DOMAIN r.lines : f.lines[j] \in AnyLine /\ f.lines[j].product = r.lines[j].product
    <3>1. [r.lines[k] EXCEPT !.boxes = @ - 1] \in AnyLine
          /\ [r.lines[k] EXCEPT !.boxes = @ - 1].product = r.lines[k].product
      <4>1. r.lines[k] \in Line
        BY <1>2, <2>3
      <4>2. QED
        BY <4>1 DEF Line, AnyLine
    <3>2. \A j \in DOMAIN r.lines : r.lines[j] \in AnyLine
      BY <1>2 DEF Line, AnyLine
    <3>3. QED
      BY <2>5, <3>1, <3>2
  <2>7. f.lines \in Seq(AnyLine)
    <3> DEFINE n == Len(r.lines)
    <3>1. PICK e : f.lines = [r.lines EXCEPT ![k] = e]
      BY <2>2
    <3>2. f.lines = [j \in DOMAIN r.lines |-> f.lines[j]]
      BY <3>1
    <3>3. n \in Nat /\ f.lines = [j \in 1..n |-> f.lines[j]]
      BY <1>1, <1>2, <3>2
    <3>4. \A j \in 1..n : f.lines[j] \in AnyLine
      BY <1>2, <2>6
    <3> HIDE DEF n
    <3>5. QED
      BY <3>3, <3>4
  <2>8. SplitFits(f.split, f.lines)
    <3>1. IsFiniteSet(f.split)
      <4>1. IsFiniteSet(r.split \ {a})
        BY <1>1, FS_RemoveElement DEF SplitFits
      <4>2. QED
        BY <2>2, <4>1, FS_AddElement
    <3>2. \A b \in f.split : SplitRow(b, r.lines)
      BY <1>1, <2>2, <2>4 DEF SplitFits
    <3>3. QED
      BY <2>5, <3>1, <3>2 DEF SplitFits, SplitRow
  <2>9. MeantFits(f.odd, f.rows, f.split)
    BY <1>1, <2>2, <2>4 DEF MeantFits
  <2>10. \A b \in f.split : b.of = f.lines[b.line].product
    <3>1. \A b \in r.split : b.of = r.lines[b.line].product /\ b.line \in DOMAIN r.lines
      BY <1>1 DEF SplitFits, SplitRow
    <3>2. less.of = r.lines[less.line].product /\ less.line \in DOMAIN r.lines
      BY <2>3, <2>4, <3>1
    <3>3. QED
      BY <2>2, <2>6, <3>1, <3>2
  <2>11. less \in f.split /\ f.lines[less.line].product # None
    BY <1>2, <2>2, <2>3, <2>4, <2>6
  <2>12. QED
    BY <1>1, <2>2, <2>7, <2>8, <2>9, <2>10, <2>11 DEF ChangedFits
<1>7. CASE f = [r EXCEPT !.rows = Tail(@), !.odd = TRUE]
  <2>1. f.lines = r.lines /\ f.split = r.split /\ f.odd = TRUE /\ DOMAIN f = DOMAIN r
    BY <1>1, <1>7
  <2>2. QED
    BY <1>1, <1>2, <2>1 DEF ChangedFits, MeantFits
<1>8. QED
  BY <1>3, <1>4, <1>5, <1>6, <1>7 DEF Changed

\* What a list says of its boxes, and what the user meant.
ListFits(list, odd) ==
    /\ IsFiniteSet(list) /\ \A x \in list : x.boxes \in Nat
    /\ ~odd => \A x \in list : x.ct = x.meant /\ x.product = x.of

\* A form that is accepted leaves lines and a list that are of one another.
LEMMA SubmittedFits ==
    ASSUME NEW f, ChangedFits(f), NEW lines, lines = Named(f.lines),
           NEW split, split = IF Remapped(f.split, f.lines) = {} THEN DefaultSplit(lines, f.rows)
                              ELSE Remapped(f.split, f.lines),
           Balanced(lines, split), NEW list, list = PackingRows(lines, f.rows, split)
    PROVE  lines \in Seq(Line) /\ ListFits(list, f.odd) /\ Balanced(lines, list)
<1> DEFINE posted == Remapped(f.split, f.lines)
<1>1. /\ f.lines \in Seq(AnyLine) /\ SplitFits(f.split, f.lines)
      /\ MeantFits(f.odd, f.rows, f.split)
      /\ \A a \in f.split : f.lines[a.line].product # None => a.of = f.lines[a.line].product
      /\ \/ \A k \in DOMAIN f.lines : f.lines[k].boxes \in Nat
         \/ \E a \in f.split : f.lines[a.line].product # None
  BY DEF ChangedFits
<1>2. /\ lines \in Seq([product : Nat \ {None}, boxes : Int])
      /\ SplitFits(posted, lines)
      /\ \A b \in posted : \E a \in f.split :
            /\ b.at = a.at /\ b.meant = a.meant /\ b.of = a.of
            /\ f.lines[a.line].product # None /\ lines[b.line] = f.lines[a.line]
  <2>1. Remaps(f.split, f.lines)
    BY <1>1, RemapFits
  <2>2. QED
    BY <2>1 DEF Remaps
<1>3. \A k \in DOMAIN lines : lines[k] \in AnyLine /\ lines[k] \in [product : Nat \ {None}, boxes : Int]
  <2>1. \A k \in DOMAIN lines : lines[k] \in [product : Nat \ {None}, boxes : Int]
    BY <1>2, ListPlaces
  <2>2. QED
    BY <2>1 DEF AnyLine
<1> HIDE DEF posted
<1>4. /\ SplitFits(split, lines)
      /\ ~f.odd => \A b \in split : b.meant = Label(f.rows, b.at) /\ b.of = lines[b.line].product
  <2>1. CASE posted = {}
    <3>1. \A a \in f.split : f.lines[a.line].product = None
      BY <2>1 DEF Remapped, posted
    <3>2. \A k \in DOMAIN f.lines : f.lines[k].boxes \in Nat
      BY <1>1, <3>1
    <3>3. \A k \in DOMAIN lines : lines[k].boxes \in Nat
      <4>1. PICK rank : KeptBy(f.lines, Kept(f.lines), rank) /\ lines \in Seq(AnyLine)
        BY <1>1, NamedRanks
      <4>2. /\ rank \in Bijection(Kept(f.lines), 1..Len(lines))
            /\ \A k \in Kept(f.lines) : lines[rank[k]] = f.lines[k] /\ k \in DOMAIN f.lines
        BY <4>1 DEF KeptBy, Named, Kept
      <4>3. \A j \in 1..Len(lines) : \E k \in Kept(f.lines) : rank[k] = j
        BY <4>2 DEF Bijection, Surjection
      <4>4. DOMAIN lines = 1..Len(lines)
        BY <4>1
      <4>5. QED
        BY <3>2, <4>2, <4>3, <4>4
    <3>4. lines \in Seq(AnyLine)
      BY <1>2, <1>3, Retyped, ListPlaces
    <3>5. split = DefaultSplit(lines, f.rows)
      BY <2>1 DEF posted
    <3>6. QED
      BY <3>3, <3>4, <3>5, DefaultFits
  <2>2. CASE posted # {}
    <3>1. split = posted
      BY <2>2 DEF posted
    <3>2. ASSUME ~f.odd, NEW b \in posted
          PROVE  b.meant = Label(f.rows, b.at) /\ b.of = lines[b.line].product
      <4>1. PICK a \in f.split : /\ b.at = a.at /\ b.meant = a.meant /\ b.of = a.of
                                 /\ f.lines[a.line].product # None /\ lines[b.line] = f.lines[a.line]
        BY <1>2
      <4>2. a.meant = Label(f.rows, a.at)
        BY <1>1, <3>2 DEF MeantFits
      <4>3. a.of = f.lines[a.line].product
        BY <1>1, <4>1
      <4>4. QED
        BY <4>1, <4>2, <4>3
    <3>3. QED
      BY <1>2, <3>1, <3>2
  <2>3. QED
    BY <2>1, <2>2
<1>5. lines \in Seq(Line)
  <2>1. \A k \in DOMAIN lines : lines[k].boxes = BoxesInSplit(split, k)
    BY DEF Balanced
  <2>2. \A k : BoxesInSplit(split, k) \in Nat
    BY <1>4, SplitSums
  <2>3. \A k \in DOMAIN lines : lines[k] \in Line
    BY <1>3, <2>1, <2>2 DEF Line
  <2>4. \A k \in 1..Len(lines) : lines[k] \in Line
    BY <1>2, <2>3, ListPlaces
  <2>5. QED
    BY <1>2, <2>4, Retyped
<1>6. /\ IsFiniteSet(list)
      /\ \A x \in list : \E a \in split :
            /\ x.line = a.line /\ x.boxes = a.boxes /\ x.meant = a.meant /\ x.of = a.of
            /\ x.ct = (IF a.at \in DOMAIN f.rows THEN f.rows[a.at] ELSE None)
            /\ x.product = lines[a.line].product
      /\ \A k : BoxesInSplit(list, k) = BoxesInSplit(split, k)
  <2>1. SplitFits(split, lines)
    BY <1>4
  <2>2. QED
    BY <2>1, PackFits
<1>7. ListFits(list, f.odd)
  <2>1. \A a \in split : a.boxes \in Nat
    BY <1>4 DEF SplitFits, SplitRow
  <2>2. ASSUME ~f.odd, NEW x \in list
        PROVE  x.ct = x.meant /\ x.product = x.of
    <3>1. PICK a \in split : /\ x.meant = a.meant /\ x.of = a.of
                             /\ x.ct = (IF a.at \in DOMAIN f.rows THEN f.rows[a.at] ELSE None)
                             /\ x.product = lines[a.line].product
      BY <1>6
    <3>2. a.meant = Label(f.rows, a.at) /\ a.of = lines[a.line].product
      BY <1>4, <2>2
    <3>3. OnForm(f.rows) = f.rows
      BY <1>1, <2>2 DEF MeantFits
    <3>4. QED
      BY <3>1, <3>2, <3>3 DEF Label
  <2>3. QED
    BY <1>6, <2>1, <2>2 DEF ListFits
<1>8. Balanced(lines, list)
  BY <1>6 DEF Balanced
<1>9. QED
  BY <1>5, <1>7, <1>8

\* The split of an invoice that is edited: that of its packing list, or the default.
EditedSplit(lines, rows, shown) ==
    IF shown = {} THEN DefaultSplit(lines, rows)
    ELSE {LET at == Place(r.at, rows) IN
          [n |-> r.n, at |-> at, line |-> r.line, boxes |-> r.boxes,
           meant |-> Label(rows, at), of |-> lines[r.line].product] : r \in shown}

\* It fits the lines and the containers of the invoice as they are.
LEMMA EditedFits ==
    ASSUME NEW lines \in Seq(Line), NEW rows, NEW shown, IsFiniteSet(shown),
           \A x \in shown : x.boxes \in Nat /\ x.line \in DOMAIN lines,
           NEW split, split = EditedSplit(lines, rows, shown)
    PROVE  /\ SplitFits(split, lines) /\ MeantFits(OnForm(rows) # rows, rows, split)
           /\ \A a \in split : a.of = lines[a.line].product
<1> DEFINE at(r) == Place(r.at, rows)
           to(r) == [n |-> r.n, at |-> at(r), line |-> r.line, boxes |-> r.boxes,
                     meant |-> Label(rows, at(r)), of |-> lines[r.line].product]
<1>1. CASE shown = {}
  <2>1. split = DefaultSplit(lines, rows)
    BY <1>1 DEF EditedSplit
  <2>2. \A k \in DOMAIN lines : lines[k] \in AnyLine /\ lines[k].boxes \in Nat
    <3>1. \A k \in DOMAIN lines : lines[k] \in Line
      BY ListPlaces
    <3>2. QED
      BY <3>1 DEF Line, AnyLine
  <2>3. lines \in Seq(AnyLine)
    BY <2>2, Retyped, ListPlaces
  <2>4. SplitFits(split, lines) /\ \A a \in split : a.meant = Label(rows, a.at) /\ a.of = lines[a.line].product
    BY <2>1, <2>2, <2>3, DefaultFits
  <2>5. QED
    BY <2>4 DEF MeantFits
<1>2. CASE shown # {}
  <2>1. split = {to(r) : r \in shown}
    BY <1>2 DEF EditedSplit
  <2> HIDE DEF at
  <2>2. \A a \in split : SplitRow(a, lines) /\ a.meant = Label(rows, a.at) /\ a.of = lines[a.line].product
    <3>1. SUFFICES ASSUME NEW a \in split
                   PROVE  SplitRow(a, lines) /\ a.meant = Label(rows, a.at) /\ a.of = lines[a.line].product
      OBVIOUS
    <3>2. PICK r \in shown : a = to(r)
      BY <2>1
    <3>3. /\ a.n = r.n /\ a.at = at(r) /\ a.line = r.line /\ a.boxes = r.boxes
          /\ a.meant = Label(rows, at(r)) /\ a.of = lines[r.line].product
      BY <3>2
    <3>4. SplitRow(a, lines)
      BY <3>2, <3>3 DEF SplitRow
    <3>5. QED
      BY <3>3, <3>4
  <2>3. IsFiniteSet(split)
    <3> DEFINE h == [r \in shown |-> to(r)]
    <3>1. h \in Surjection(shown, split)
      <4> HIDE DEF to
      <4>1. QED
        BY <2>1 DEF Surjection
    <3>2. QED
      BY <3>1, FS_Surjection
  <2>4. QED
    BY <2>2, <2>3 DEF SplitFits, MeantFits
<1>3. QED
  BY <1>1, <1>2

-----------------------------------------------------------------------------
(* The documents that are imported.                                        *)

Packing == [contents : Seq(Boxes), at : Nat]
\* The boxes of some lines in a packing.
Holding(srs) == [p \in Packing |-> BoxesOf(p.contents, srs)]

\* What packings hold of some lines, as a total over the packings.
LEMMA ContentsHeld ==
    ASSUME NEW packings \in Seq(Packing), NEW srs
    PROVE  /\ Holding(srs) \in [Packing -> Nat]
           /\ BoxesPacked([n \in DOMAIN packings |-> packings[n].contents], srs) = Tally(Holding(srs), packings)
           /\ Tally(Holding(srs), packings) \in Nat
<1> DEFINE all == [n \in DOMAIN packings |-> packings[n].contents]
<1>1. ASSUME NEW p \in Packing
      PROVE  p.contents \in Seq(Boxes) /\ BoxesOf(p.contents, srs) \in Nat
  <2>1. p.contents \in Seq(Boxes)
    BY DEF Packing
  <2>2. QED
    BY <2>1, BoxesTotal
<1>2. Holding(srs) \in [Packing -> Nat]
  BY <1>1 DEF Holding
<1>3. DOMAIN packings = 1..Len(packings) /\ \A n \in DOMAIN packings : packings[n] \in Packing
  BY ListPlaces
<1>4. DOMAIN all = DOMAIN packings /\ \A n \in DOMAIN packings : BoxesOf(all[n], srs) = Holding(srs)[packings[n]]
  BY <1>3 DEF Holding
<1> HIDE DEF all
<1>5. [n \in DOMAIN all |-> BoxesOf(all[n], srs)] = [n \in 1..Len(packings) |-> Holding(srs)[packings[n]]]
  BY <1>3, <1>4
<1>6. BoxesPacked(all, srs) = Tally(Holding(srs), packings)
  BY <1>5 DEF BoxesPacked, Tally
<1>7. Tally(Holding(srs), packings) \in Nat
  BY <1>2, TotalOfBoth
<1>8. QED
  BY <1>2, <1>6, <1>7 DEF all

\* What is left out of a packing names no line of its planning.
LEMMA KnownFits ==
    ASSUME NEW plan \in Plan, NEW c \in Seq(Boxes)
    PROVE  /\ Known(c, plan) \in Seq(Boxes)
           /\ \A k \in DOMAIN Known(c, plan) : Known(c, plan)[k].sr \in DOMAIN plan.lines
           /\ \A x \in DOMAIN plan.lines : BoxesOf(Known(c, plan), {x}) = BoxesOf(c, {x})
<1> DEFINE K == {k \in DOMAIN c : c[k].sr \in DOMAIN plan.lines}
           d == Known(c, plan)
<1>1. d = At(c, K) /\ K \in SUBSET DOMAIN c /\ \A k \in K : c[k].sr \in DOMAIN plan.lines
  BY DEF Known
<1>2. \A k \in DOMAIN c : c[k] \in Boxes
  BY ListPlaces
<1>3. \A k \in DOMAIN c \ K : c[k].sr \notin DOMAIN plan.lines
  OBVIOUS
<1> HIDE DEF d, K
<1>4. PICK rank : KeptBy(c, K, rank) /\ d \in Seq(Boxes)
  BY <1>1, KeptRanks
<1>5. \A j \in DOMAIN d : \E k \in K : d[j] = c[k]
  <2>1. rank \in Bijection(K, 1..Len(d)) /\ \A k \in K : d[rank[k]] = c[k]
    BY <1>1, <1>4 DEF KeptBy
  <2>2. \A j \in 1..Len(d) : \E k \in K : rank[k] = j
    BY <2>1 DEF Bijection, Surjection
  <2>3. DOMAIN d = 1..Len(d)
    BY <1>4
  <2>4. QED
    BY <2>1, <2>2, <2>3
<1>6. ASSUME NEW x \in DOMAIN plan.lines
      PROVE  BoxesOf(d, {x}) = BoxesOf(c, {x})
  <2> DEFINE v == Boxed({x})
  <2>1. v \in [Boxes -> Nat] /\ BoxesOf(c, {x}) = Tally(v, c) /\ BoxesOf(d, {x}) = Tally(v, d)
    BY <1>4, BoxesTotal
  <2>2. \A k \in DOMAIN c \ K : v[c[k]] = 0
    BY <1>2, <1>3 DEF Boxed
  <2> HIDE DEF v
  <2>3. Tally(v, d) = Tally(v, c)
    BY <1>1, <2>1, <2>2, TotalOfKept
  <2>4. QED
    BY <2>1, <2>3
<1>7. QED
  BY <1>1, <1>4, <1>5, <1>6 DEF d

\* Contents repointed at the lines after the first `before` ones.
LEMMA RepointedFits ==
    ASSUME NEW c \in Seq(Boxes), NEW n \in Nat, \A k \in DOMAIN c : c[k].sr \in 1..n, NEW before \in Nat
    PROVE  /\ Repointed(c, before) \in Seq(Boxes)
           /\ \A k \in DOMAIN Repointed(c, before) : Repointed(c, before)[k].sr \in (before + 1)..(before + n)
           /\ \A x \in Nat : BoxesOf(Repointed(c, before), {x}) = BoxesOf(c, {x - before})
<1> DEFINE d == Repointed(c, before)
<1>1. DOMAIN c = 1..Len(c) /\ Len(c) \in Nat /\ \A k \in DOMAIN c : c[k] \in Boxes
  BY ListPlaces
<1>2. d = [k \in 1..Len(c) |-> [c[k] EXCEPT !.sr = before + c[k].sr]]
  BY <1>1 DEF Repointed
<1>3. DOMAIN d = DOMAIN c /\ \A k \in DOMAIN c : /\ d[k] \in Boxes /\ d[k].sr = before + c[k].sr
                                                 /\ d[k].boxes = c[k].boxes /\ c[k].sr \in Nat
  BY <1>1, <1>2 DEF Boxes
<1>4. d \in Seq(Boxes)
  <2>1. d = [k \in 1..Len(c) |-> d[k]] /\ \A k \in 1..Len(c) : d[k] \in Boxes
    BY <1>1, <1>2, <1>3
  <2> HIDE DEF d
  <2>2. QED
    BY <1>1, <2>1
<1> HIDE DEF d
<1>5. \A k \in DOMAIN d : d[k].sr \in (before + 1)..(before + n)
  BY <1>3
<1>6. ASSUME NEW x \in Nat
      PROVE  BoxesOf(d, {x}) = BoxesOf(c, {x - before})
  <2>1. \A k \in DOMAIN c : d[k].sr \in {x} <=> c[k].sr \in {x - before}
    BY <1>3
  <2>2. [k \in DOMAIN d |-> IF d[k].sr \in {x} THEN d[k].boxes ELSE 0]
            = [k \in DOMAIN c |-> IF c[k].sr \in {x - before} THEN c[k].boxes ELSE 0]
    BY <1>3, <2>1
  <2>3. QED
    BY <2>2 DEF BoxesOf
<1>7. QED
  BY <1>4, <1>5, <1>6 DEF d

\* No box is of a line that none names.
LEMMA NoneOf ==
    ASSUME NEW c \in Seq(Boxes), NEW y, \A k \in DOMAIN c : c[k].sr # y
    PROVE  BoxesOf(c, {y}) = 0
<1> DEFINE f == [k \in DOMAIN c |-> IF c[k].sr \in {y} THEN c[k].boxes ELSE 0]
<1>1. IsFiniteSet(DOMAIN c) /\ f \in [DOMAIN c -> Nat] /\ \A k \in DOMAIN c : f[k] = 0
  BY ListPlaces
<1>2. BoxesOf(c, {y}) = SumFunction(f)
  BY DEF BoxesOf
<1> HIDE DEF f
<1>3. QED
  BY <1>1, <1>2, SumOfZeros

\* The packings of one planning, imported after `before` lines.
LEMMA PlanImported ==
    ASSUME NEW plan \in Plan, NEW before \in Nat
    PROVE  /\ ImportedPackings(plan, before) \in Seq(Packing)
           /\ \A n \in DOMAIN ImportedPackings(plan, before) :
                 LET p == ImportedPackings(plan, before)[n]
                 IN  p.at = None /\ \A k \in DOMAIN p.contents :
                         p.contents[k].sr \in (before + 1)..(before + Len(plan.lines))
           /\ \A x \in Nat : Tally(Holding({x}), ImportedPackings(plan, before)) =
                 IF x - before \in DOMAIN plan.lines THEN PackedBoxes(plan, x - before) ELSE 0
<1> DEFINE from == Packings(plan)
           new == ImportedPackings(plan, before)
           c(k) == Known(from[k], plan)
           d(k) == Repointed(c(k), before)
           n == Len(plan.lines)
<1>1. /\ from \in Seq(Seq(Boxes)) /\ DOMAIN from = 1..Len(from) /\ Len(from) \in Nat
      /\ \A k \in DOMAIN from : from[k] \in Seq(Boxes)
  BY PlanTotals
<1>2. DOMAIN plan.lines = 1..n /\ n \in Nat
  BY DEF Plan
<1> HIDE DEF n
<1>3. ASSUME NEW k \in DOMAIN from
      PROVE  /\ c(k) \in Seq(Boxes) /\ \A j \in DOMAIN c(k) : c(k)[j].sr \in 1..n
             /\ \A x \in DOMAIN plan.lines : BoxesOf(c(k), {x}) = BoxesOf(from[k], {x})
  <2> HIDE DEF from
  <2>1. QED
    BY <1>1, <1>2, KnownFits
<1> HIDE DEF c
<1>4. ASSUME NEW k \in DOMAIN from
      PROVE  /\ d(k) \in Seq(Boxes) /\ \A j \in DOMAIN d(k) : d(k)[j].sr \in (before + 1)..(before + n)
             /\ \A x \in Nat : BoxesOf(d(k), {x}) = BoxesOf(c(k), {x - before})
  <2>1. PICK e : e = c(k)
    OBVIOUS
  <2>2. e \in Seq(Boxes) /\ \A j \in DOMAIN e : e[j].sr \in 1..n
    BY <1>3, <2>1
  <2>3. /\ Repointed(e, before) \in Seq(Boxes)
        /\ \A j \in DOMAIN Repointed(e, before) : Repointed(e, before)[j].sr \in (before + 1)..(before + n)
        /\ \A x \in Nat : BoxesOf(Repointed(e, before), {x}) = BoxesOf(e, {x - before})
    BY <1>2, <2>2, RepointedFits
  <2>4. QED
    BY <2>1, <2>3
<1>5. new = [k \in 1..Len(from) |-> [contents |-> d(k), at |-> None]]
  BY <1>1 DEF ImportedPackings, c
<1> HIDE DEF new, from, d
<1>6. /\ DOMAIN new = DOMAIN from /\ Len(new) = Len(from) /\ new \in Seq(Packing)
      /\ \A k \in DOMAIN from : new[k] = [contents |-> d(k), at |-> None] /\ new[k].at = None
                                /\ new[k].contents = d(k) /\ new[k] \in Packing
  <2>1. \A k \in 1..Len(from) : [contents |-> d(k), at |-> None] \in Packing
    BY <1>1, <1>4 DEF Packing, None
  <2>2. QED
    BY <1>1, <1>5, <2>1
<1>7. ASSUME NEW x \in Nat
      PROVE  Tally(Holding({x}), new) = IF x - before \in DOMAIN plan.lines THEN PackedBoxes(plan, x - before) ELSE 0
  <2> DEFINE y == x - before
             f == [k \in 1..Len(from) |-> BoxesOf(c(k), {y})]
  <2>1. \A k \in 1..Len(from) : Holding({x})[new[k]] = BoxesOf(c(k), {y})
    <3>1. SUFFICES ASSUME NEW k \in 1..Len(from) PROVE Holding({x})[new[k]] = BoxesOf(c(k), {y})
      OBVIOUS
    <3>2. new[k] \in Packing /\ new[k].contents = d(k)
      BY <1>1, <1>6
    <3>3. Holding({x})[new[k]] = BoxesOf(d(k), {x})
      BY <3>2 DEF Holding
    <3>4. QED
      BY <1>1, <1>4, <3>3
  <2>2. Tally(Holding({x}), new) = SumFunction(f)
    BY <1>1, <1>6, <2>1 DEF Tally
  <2>3. CASE y \in DOMAIN plan.lines
    <3>1. \A k \in DOMAIN from : BoxesOf(c(k), {y}) = BoxesOf(from[k], {y})
      BY <1>3, <2>3
    <3>2. f = [k \in DOMAIN from |-> BoxesOf(from[k], {y})]
      BY <1>1, <3>1
    <3>3. SumFunction(f) = BoxesPacked(from, {y})
      BY <3>2 DEF BoxesPacked
    <3>4. BoxesPacked(from, {y}) = PackedBoxes(plan, y)
      BY <2>3, PlanTotals DEF from
    <3>5. QED
      BY <2>2, <2>3, <3>3, <3>4
  <2>4. CASE y \notin DOMAIN plan.lines
    <3>1. \A k \in 1..Len(from) : BoxesOf(c(k), {y}) = 0
      <4>1. SUFFICES ASSUME NEW k \in 1..Len(from) PROVE BoxesOf(c(k), {y}) = 0
        OBVIOUS
      <4>2. PICK e : e = c(k)
        OBVIOUS
      <4>3. e \in Seq(Boxes) /\ \A j \in DOMAIN e : e[j].sr # y
        BY <1>1, <1>2, <1>3, <2>4, <4>2
      <4>4. BoxesOf(e, {y}) = 0
        BY <4>3, NoneOf
      <4>5. QED
        BY <4>2, <4>4
    <3>2. f \in [1..Len(from) -> Nat] /\ \A k \in 1..Len(from) : f[k] = 0
      <4> HIDE DEF y
      <4>1. f = [k \in 1..Len(from) |-> f[k]] /\ \A k \in 1..Len(from) : f[k] = 0
        BY <3>1
      <4> HIDE DEF f
      <4>2. QED
        BY <4>1
    <3>3. IsFiniteSet(1..Len(from))
      BY <1>1, FS_Interval
    <3> HIDE DEF f
    <3>4. SumFunction(f) = 0
      BY <3>2, <3>3, SumOfZeros
    <3>5. QED
      BY <2>2, <2>4, <3>4
  <2>5. QED
    BY <2>3, <2>4
<1>8. \A k \in DOMAIN new : new[k].at = None /\ \A j \in DOMAIN new[k].contents :
          new[k].contents[j].sr \in (before + 1)..(before + n)
  BY <1>4, <1>6
<1>9. QED
  BY <1>6, <1>7, <1>8 DEF new, n

\* A document that was imported: its lines, its packings, which hold all the
\* boxes of every line and of no other.
Whole(doc) ==
    /\ doc.lines \in Seq(Line) /\ doc.packings \in Seq(Packing)
    /\ \A n \in DOMAIN doc.packings :
          /\ doc.packings[n].at = None
          /\ \A k \in DOMAIN doc.packings[n].contents : doc.packings[n].contents[k].sr \in DOMAIN doc.lines
    /\ \A sr \in DOMAIN doc.lines : doc.lines[sr].boxes = Tally(Holding({sr}), doc.packings)

\* Where a place of one list is among the others.
LEMMA ApartFrom ==
    ASSUME NEW X, NEW seqs \in Seq(Seq(X)), NEW p \in 1..Len(seqs), NEW q \in 1..Len(seqs[p]),
           NEW m \in 1..Len(seqs), m # p
    PROVE  Offset(seqs, p) + q - Offset(seqs, m) \notin 1..Len(seqs[m])
<1>1. /\ Offset(seqs, p) \in Nat /\ Offset(seqs, m) \in Nat /\ p \in Nat /\ m \in Nat /\ Len(seqs) \in Nat
      /\ Len(seqs[p]) \in Nat /\ Len(seqs[m]) \in Nat
  <2>1. Len(seqs) \in Nat /\ p \in 1..(Len(seqs) + 1) /\ m \in 1..(Len(seqs) + 1)
    OBVIOUS
  <2>2. Offset(seqs, p) \in Nat /\ (p <= Len(seqs) => Len(seqs[p]) \in Nat)
    BY <2>1, Offsets
  <2>3. Offset(seqs, m) \in Nat /\ (m <= Len(seqs) => Len(seqs[m]) \in Nat)
    BY <2>1, Offsets
  <2>4. QED
    BY <2>1, <2>2, <2>3
<1>2. CASE m < p
  <2>1. p \in 1..(Len(seqs) + 1)
    BY <1>1
  <2>2. Offset(seqs, m) + Len(seqs[m]) <= Offset(seqs, p)
    BY <1>2, <2>1, OffsetsGrow
  <2>3. QED
    BY <1>1, <2>2
<1>3. CASE p < m
  <2>1. m \in 1..(Len(seqs) + 1)
    BY <1>1
  <2>2. Offset(seqs, p) + Len(seqs[p]) <= Offset(seqs, m)
    BY <1>3, <2>1, OffsetsGrow
  <2>3. QED
    BY <1>1, <2>2
<1>4. QED
  BY <1>1, <1>2, <1>3

\* The lines of one planning.
LEMMA PlanLines ==
    ASSUME NEW plan \in Plan
    PROVE  /\ ImportedLines(plan) \in Seq(Line) /\ Len(ImportedLines(plan)) = Len(plan.lines)
           /\ DOMAIN plan.lines = 1..Len(plan.lines) /\ Len(plan.lines) \in Nat
           /\ \A sr \in DOMAIN plan.lines : /\ ImportedLines(plan)[sr].boxes = PackedBoxes(plan, sr)
                                            /\ PackedBoxes(plan, sr) \in Nat
<1>1. plan.lines \in Seq([product : Nat \ {None}, per : Nat, units : Nat])
  BY DEF Plan
<1>2. /\ DOMAIN plan.lines = 1..Len(plan.lines) /\ Len(plan.lines) \in Nat
      /\ \A sr \in DOMAIN plan.lines : plan.lines[sr] \in [product : Nat \ {None}, per : Nat, units : Nat]
  <2>1. PICK list : list = plan.lines
    OBVIOUS
  <2>2. PICK X : X = [product : Nat \ {None}, per : Nat, units : Nat]
    OBVIOUS
  <2>3. list \in Seq(X)
    BY <1>1, <2>1, <2>2
  <2>4. DOMAIN list = 1..Len(list) /\ Len(list) \in Nat /\ \A sr \in DOMAIN list : list[sr] \in X
    BY <2>3
  <2>5. QED
    BY <2>1, <2>2, <2>4
<1>3. \A sr \in DOMAIN plan.lines : PackedBoxes(plan, sr) \in Nat
  BY PlanTotals
<1>4. \A sr \in DOMAIN plan.lines :
          [product |-> plan.lines[sr].product, boxes |-> PackedBoxes(plan, sr)] \in Line
  BY <1>2, <1>3 DEF Line
<1>5. ImportedLines(plan) = [sr \in 1..Len(plan.lines) |->
          [product |-> plan.lines[sr].product, boxes |-> PackedBoxes(plan, sr)]]
  BY <1>2 DEF ImportedLines
<1>6. QED
  BY <1>2, <1>3, <1>4, <1>5

\* Whichever plannings are merged.
LEMMA ImportedIsWhole ==
    ASSUME NEW plans \in Seq(Plan)
    PROVE  Whole(Imported(plans))
<1> DEFINE ls == [p \in DOMAIN plans |-> ImportedLines(plans[p])]
           ps == [p \in DOMAIN plans |-> ImportedPackings(plans[p], LinesBefore(plans, p))]
           lines == FlattenSeq(ls)
           packings == FlattenSeq(ps)
           P == Len(plans)
           len(p) == Len(plans[p].lines)
<1>1. /\ DOMAIN plans = 1..P /\ P \in Nat /\ \A p \in 1..P : plans[p] \in Plan
  BY ListPlaces
<1> HIDE DEF P
<1>2. /\ ls \in Seq(Seq(Line)) /\ Len(ls) = P
      /\ \A p \in 1..P : ls[p] = ImportedLines(plans[p])
  <2>1. \A p \in 1..P : ImportedLines(plans[p]) \in Seq(Line)
    BY <1>1, PlanLines
  <2>2. QED
    BY <1>1, <2>1
<1>3. \A p \in 1..P : Len(ls[p]) = len(p) /\ len(p) \in Nat /\ DOMAIN plans[p].lines = 1..len(p)
  BY <1>1, <1>2, PlanLines
<1> HIDE DEF ls
<1>4. ASSUME NEW p \in 1..P
      PROVE  LinesBefore(plans, p) = Offset(ls, p) /\ Offset(ls, p) \in Nat
  <2>1. \A q \in 1..(p - 1) : Len(ls[q]) = Len(plans[q].lines)
    BY <1>1, <1>3
  <2>2. [q \in 1..(p - 1) |-> Len(plans[q].lines)] = [q \in 1..(p - 1) |-> Len(ls[q])]
    BY <2>1
  <2>3. LinesBefore(plans, p) = Offset(ls, p)
    BY <2>2 DEF LinesBefore, Offset
  <2>4. p \in 1..(Len(ls) + 1)
    BY <1>1, <1>2
  <2>5. Offset(ls, p) \in Nat
    BY <1>2, <2>4, Offsets
  <2>6. QED
    BY <2>3, <2>5
<1> DEFINE part(p) == ImportedPackings(plans[p], Offset(ls, p))
<1>5. ASSUME NEW p \in 1..P
      PROVE  /\ part(p) \in Seq(Packing)
             /\ \A n \in DOMAIN part(p) :
                   /\ part(p)[n].at = None
                   /\ \A k \in DOMAIN part(p)[n].contents :
                         part(p)[n].contents[k].sr \in (Offset(ls, p) + 1)..(Offset(ls, p) + len(p))
             /\ \A x \in Nat : Tally(Holding({x}), part(p)) =
                   IF x - Offset(ls, p) \in 1..len(p) THEN PackedBoxes(plans[p], x - Offset(ls, p)) ELSE 0
  <2>1. PICK plan : plan = plans[p]
    OBVIOUS
  <2>2. PICK before : before = Offset(ls, p)
    OBVIOUS
  <2>3. plan \in Plan /\ before \in Nat /\ DOMAIN plan.lines = 1..len(p)
    BY <1>1, <1>3, <1>4, <2>1, <2>2
  <2>4. /\ ImportedPackings(plan, before) \in Seq(Packing)
        /\ \A n \in DOMAIN ImportedPackings(plan, before) :
              LET s == ImportedPackings(plan, before)[n]
              IN  s.at = None /\ \A k \in DOMAIN s.contents :
                      s.contents[k].sr \in (before + 1)..(before + Len(plan.lines))
        /\ \A x \in Nat : Tally(Holding({x}), ImportedPackings(plan, before)) =
              IF x - before \in DOMAIN plan.lines THEN PackedBoxes(plan, x - before) ELSE 0
    BY <2>3, PlanImported
  <2>5. QED
    BY <2>1, <2>2, <2>3, <2>4
<1>6. /\ ps \in Seq(Seq(Packing)) /\ Len(ps) = P
      /\ \A p \in 1..P : ps[p] = part(p)
  <2>1. ps = [p \in 1..P |-> part(p)]
    BY <1>1, <1>4
  <2> HIDE DEF ps, part
  <2>2. QED
    BY <1>1, <1>5, <2>1
<1> HIDE DEF ps
<1>7. lines \in Seq(Line) /\ Holds(ls, P, lines)
  BY <1>2, FlatSpots
<1>8. packings \in Seq(Packing) /\ Holds(ps, P, packings)
  BY <1>6, FlatSpots
<1>9. ASSUME NEW p \in 1..P
      PROVE  \A x \in (Offset(ls, p) + 1)..(Offset(ls, p) + len(p)) : x \in DOMAIN lines
  <2>1. \A q \in 1..len(p) : Offset(ls, p) + q \in 1..Len(lines)
    BY <1>3, <1>7 DEF Holds
  <2>2. DOMAIN lines = 1..Len(lines)
    BY <1>7, ListPlaces
  <2>3. SUFFICES ASSUME NEW x \in (Offset(ls, p) + 1)..(Offset(ls, p) + len(p)) PROVE x \in DOMAIN lines
    OBVIOUS
  <2>4. PICK off \in Nat : off = Offset(ls, p)
    BY <1>4
  <2>5. x - off \in 1..len(p) /\ x = off + (x - off)
    BY <1>3, <2>3, <2>4
  <2>6. QED
    BY <2>1, <2>2, <2>4, <2>5
<1>10. ASSUME NEW n \in DOMAIN packings
       PROVE  packings[n].at = None /\ \A k \in DOMAIN packings[n].contents :
                  packings[n].contents[k].sr \in DOMAIN lines
  <2>1. n \in 1..Len(packings)
    BY <1>8, ListPlaces
  <2>2. Spot(ps, P, n, packings)
    BY <1>8, <2>1 DEF Holds
  <2>3. PICK p \in 1..P : \E q \in 1..Len(ps[p]) : packings[n] = ps[p][q]
    BY <2>2 DEF Spot
  <2>4. PICK q \in 1..Len(part(p)) : packings[n] = part(p)[q]
    BY <1>6, <2>3
  <2>5. q \in DOMAIN part(p)
    BY <1>5, <2>4, ListPlaces
  <2> HIDE DEF part, lines, packings
  <2>6. QED
    BY <1>5, <1>9, <2>4, <2>5
<1>11. ASSUME NEW sr \in DOMAIN lines
       PROVE  lines[sr].boxes = Tally(Holding({sr}), packings)
  <2>1. sr \in 1..Len(lines) /\ sr \in Nat
    BY <1>7, ListPlaces
  <2>2. Spot(ls, P, sr, lines)
    BY <1>7, <2>1 DEF Holds
  <2>3. PICK p \in 1..P : \E q \in 1..Len(ls[p]) : sr = Offset(ls, p) + q /\ lines[sr] = ls[p][q]
    BY <2>2 DEF Spot
  <2>4. PICK q \in 1..Len(ls[p]) : sr = Offset(ls, p) + q /\ lines[sr] = ls[p][q]
    BY <2>3
  <2>5. q \in 1..len(p) /\ sr - Offset(ls, p) = q
    BY <1>3, <1>4, <2>4
  <2>6. lines[sr].boxes = PackedBoxes(plans[p], q) /\ PackedBoxes(plans[p], q) \in Nat
    <3>1. q \in DOMAIN plans[p].lines
      BY <1>3, <2>5
    <3>2. ImportedLines(plans[p])[q].boxes = PackedBoxes(plans[p], q) /\ PackedBoxes(plans[p], q) \in Nat
      BY <1>1, <3>1, PlanLines
    <3>3. QED
      BY <1>2, <2>4, <3>2
  <2> DEFINE v == Holding({sr})
             f == [m \in 1..P |-> Tally(v, part(m))]
  <2>7. v \in [Packing -> Nat]
    BY <1>8, ContentsHeld
  <2>8. Tally(v, packings) = SumFunction(f)
    <3> HIDE DEF v, part
    <3>1. Tally(v, packings) = SumFunction([m \in 1..Len(ps) |-> Tally(v, ps[m])])
      BY <1>6, <2>7, TotalOfFlat
    <3>2. [m \in 1..Len(ps) |-> Tally(v, ps[m])] = f
      BY <1>6
    <3>3. QED
      BY <3>1, <3>2
  <2>9. f[p] = PackedBoxes(plans[p], q)
    BY <1>5, <2>1, <2>5
  <2>10. \A m \in 1..P \ {p} : f[m] = 0
    <3>1. SUFFICES ASSUME NEW m \in 1..P, m # p PROVE f[m] = 0
      OBVIOUS
    <3>2. Offset(ls, p) + q - Offset(ls, m) \notin 1..Len(ls[m])
      <4>1. p \in 1..Len(ls) /\ m \in 1..Len(ls)
        BY <1>2
      <4>2. QED
        BY <1>2, <2>4, <3>1, <4>1, ApartFrom
    <3>3. sr - Offset(ls, m) \notin 1..len(m)
      <4>1. Len(ls[m]) = len(m)
        BY <1>3
      <4>2. sr - Offset(ls, m) = Offset(ls, p) + q - Offset(ls, m)
        <5>1. Offset(ls, p) \in Nat /\ Offset(ls, m) \in Nat /\ q \in Nat
          BY <1>3, <1>4, <2>5
        <5>2. QED
          BY <2>4, <5>1
      <4>3. QED
        BY <3>2, <4>1, <4>2
    <3>4. QED
      BY <1>5, <2>1, <3>3
  <2>11. f \in [1..P -> Nat]
    <3>1. f = [m \in 1..P |-> f[m]]
      OBVIOUS
    <3> HIDE DEF f
    <3>2. \A m \in 1..P : f[m] \in Nat
      BY <2>6, <2>9, <2>10
    <3>3. QED
      BY <3>1, <3>2
  <2> HIDE DEF f
  <2>12. SumFunction(f) = f[p]
    <3>1. PICK D : D = 1..P
      OBVIOUS
    <3>2. IsFiniteSet(D) /\ p \in D /\ \A y \in D \ {p} : f[y] = 0
      BY <1>1, <2>10, <3>1, FS_Interval
    <3>3. f \in [D -> Nat]
      BY <2>11, <3>1
    <3>4. QED
      BY ONLY <3>2, <3>3, SumOfOne, SMTT(30)
  <2>13. QED
    BY <2>6, <2>8, <2>9, <2>12
<1>12. Imported(plans).lines = lines /\ Imported(plans).packings = packings
  BY DEF Imported, ls, ps
<1> HIDE DEF lines, packings
<1>13. QED
  BY <1>7, <1>8, <1>10, <1>11, <1>12 DEF Whole

-----------------------------------------------------------------------------
(* What is assigned automatically.                                         *)

Rowed == Seq(DOMAIN Limit)

\* The boxes of a packing, and what it weighs.
LEMMA GrossIs ==
    ASSUME NEW p \in Packing
    PROVE  BoxesIn(p.contents) \in Nat /\ Gross(p) \in Nat /\ Gross(p) > 0
<1> DEFINE c == p.contents
           f == [k \in DOMAIN c |-> c[k].boxes]
<1>1. c \in Seq(Boxes)
  BY DEF Packing
<1> HIDE DEF c
<1>2. IsFiniteSet(DOMAIN c) /\ \A k \in DOMAIN c : c[k].boxes \in Nat
  <2>1. IsFiniteSet(DOMAIN c) /\ \A k \in DOMAIN c : c[k] \in Boxes
    BY <1>1, ListPlaces
  <2>2. QED
    BY <2>1 DEF Boxes
<1>3. f \in [DOMAIN c -> Nat]
  BY <1>2
<1>4. SumFunction(f) \in Nat
  BY <1>2, <1>3, SumSplits
<1>5. BoxesIn(c) = SumFunction(f)
  BY DEF BoxesIn
<1> HIDE DEF f
<1>6. Gross(p) = 1 + 1 * BoxesIn(c)
  BY DEF Gross, Weight, c
<1>7. QED
  BY <1>4, <1>5, <1>6 DEF c

\* The loads of a container: those of the packings that are put into it.
LoadsOf(packings, at, k) == [n \in DOMAIN at |-> IF at[n] = k THEN Gross(packings[n]) ELSE 0]

\* One packing more is put somewhere.
LEMMA VgmGrows ==
    ASSUME NEW packings \in Seq(Packing), NEW rows \in Rowed, NEW at \in Seq(0..Len(rows)),
           Len(at) < Len(packings), NEW c \in 0..Len(rows), NEW k \in DOMAIN rows
    PROVE  LET gross == Gross(packings[Len(at) + 1])
           IN  /\ Vgm(rows, packings, at, k) \in Nat /\ gross \in Nat /\ gross > 0
               /\ Vgm(rows, packings, Append(at, c), k) =
                     Vgm(rows, packings, at, k) + IF c = k THEN gross ELSE 0
<1> DEFINE n == Len(at)
           m == n + 1
           new == Append(at, c)
           f == LoadsOf(packings, new, k)
           g == LoadsOf(packings, at, k)
           gross == Gross(packings[m])
<1>1. n \in Nat /\ m \in Nat /\ DOMAIN at = 1..n /\ Len(packings) \in Nat /\ DOMAIN packings = 1..Len(packings)
  OBVIOUS
<1>2. DOMAIN new = 1..m /\ new[m] = c /\ \A i \in 1..n : new[i] = at[i]
  <2>1. Len(new) = m /\ new[m] = c /\ \A i \in 1..n : new[i] = at[i]
    OBVIOUS
  <2>2. new \in Seq(0..Len(rows))
    OBVIOUS
  <2>3. DOMAIN new = 1..Len(new)
    BY <2>2
  <2>4. QED
    BY <2>1, <2>3
<1>3. n < Len(packings)
  OBVIOUS
<1> HIDE DEF n, new
<1>4. \A i \in 1..m : i \in DOMAIN packings /\ packings[i] \in Packing
  <2>1. \A i \in 1..m : i \in DOMAIN packings
    BY <1>1, <1>3
  <2>2. QED
    BY <2>1, ListPlaces
<1>5. \A i \in 1..m : Gross(packings[i]) \in Nat /\ Gross(packings[i]) > 0
  BY <1>4, GrossIs
<1>6. f \in [1..m -> Nat] /\ g \in [1..n -> Nat]
  <2>1. f = [i \in 1..m |-> IF new[i] = k THEN Gross(packings[i]) ELSE 0]
    BY <1>2 DEF LoadsOf
  <2>2. g = [i \in 1..n |-> IF at[i] = k THEN Gross(packings[i]) ELSE 0]
    BY <1>1 DEF LoadsOf
  <2>3. \A i \in 1..n : i \in 1..m
    BY <1>1
  <2> HIDE DEF f, g, m
  <2>4. f \in [1..m -> Nat]
    BY <1>5, <2>1
  <2>5. g \in [1..n -> Nat]
    BY <1>5, <2>2, <2>3
  <2>6. QED
    BY <2>4, <2>5
<1>7. f[m] = IF c = k THEN gross ELSE 0
  BY <1>1, <1>2 DEF LoadsOf
<1>8. g = [i \in 1..(m - 1) |-> f[i]]
  BY <1>1, <1>2 DEF LoadsOf
<1> HIDE DEF f, g
<1>9. SumFunction(f) = f[m] + SumFunction(g)
  <2>1. m \in Nat \ {0}
    BY <1>1
  <2>2. SumFunction(f) = f[m] + SumFunction([i \in 1..(m - 1) |-> f[i]])
    BY <1>6, <2>1, SumLast
  <2>3. QED
    BY <1>8, <2>2
<1>10. SumFunction(g) \in Nat
  <2>1. IsFiniteSet(1..n)
    BY <1>1, FS_Interval
  <2>2. QED
    BY <1>6, <2>1, SumSplits
<1>11. Tare[rows[k]] \in Nat
  <2>1. rows[k] \in DOMAIN Limit
    BY ListPlaces DEF Rowed
  <2>2. QED
    BY <2>1, BookingsAssumption
<1>12. /\ Vgm(rows, packings, new, k) = Tare[rows[k]] + SumFunction(f)
       /\ Vgm(rows, packings, at, k) = Tare[rows[k]] + SumFunction(g)
  BY DEF Vgm, LoadsOf, f, g
<1>13. gross \in Nat /\ gross > 0
  BY <1>1, <1>5
<1> HIDE DEF gross
<1>14. QED
  BY <1>7, <1>9, <1>10, <1>11, <1>12, <1>13 DEF gross, n, new

\* Of some containers, one carries least.
LEMMA LightestIs ==
    ASSUME NEW ks, ks \subseteq Nat, ks # {}, NEW carried, \A k \in ks : carried[k] \in Nat
    PROVE  Lightest(carried, ks) \in ks
<1> DEFINE W == {carried[k] : k \in ks}
<1>1. PICK w \in W : \A x \in W : w <= x
  <2>1. W \subseteq Nat /\ W # {}
    OBVIOUS
  <2> HIDE DEF W
  <2>2. QED
    BY <2>1, LeastElement
<1> DEFINE T == {k \in ks : carried[k] = w}
<1>2. PICK k \in T : \A j \in T : k <= j
  <2>1. T \subseteq Nat /\ T # {}
    OBVIOUS
  <2> HIDE DEF T
  <2>2. QED
    BY <2>1, LeastElement
<1>3. \A j \in ks : carried[k] < carried[j] \/ (carried[k] = carried[j] /\ k <= j)
  <2>1. SUFFICES ASSUME NEW j \in ks
                 PROVE  carried[k] < carried[j] \/ (carried[k] = carried[j] /\ k <= j)
    OBVIOUS
  <2>2. w <= carried[j] /\ carried[k] = w /\ w \in Nat /\ carried[j] \in Nat
    BY <1>1, <1>2
  <2>3. CASE carried[j] = w
    BY <1>2, <2>2, <2>3
  <2>4. CASE carried[j] # w
    BY <2>2, <2>4
  <2>5. QED
    BY <2>3, <2>4
<1>4. k \in ks
  BY <1>2
<1>5. QED
  BY <1>3, <1>4 DEF Lightest

\* What some packings put into containers are fit for.
Fitting(packings, rows, at, n) ==
    /\ at \in Seq(0..Len(rows)) /\ Len(at) = n
    /\ \A k \in DOMAIN rows : Limit[rows[k]] > 0 =>
          /\ Vgm(rows, packings, at, k) <= Limit[rows[k]] \/ \A i \in DOMAIN at : at[i] # k
          /\ \A i \in DOMAIN at : at[i] = None =>
                Vgm(rows, packings, at, k) + Gross(packings[i]) > Limit[rows[k]]

\* The next one is put where it fits.
LEMMA NextFits ==
    ASSUME NEW packings \in Seq(Packing), NEW rows \in Rowed, NEW at, NEW n \in Nat, n < Len(packings),
           Fitting(packings, rows, at, n)
    PROVE  Fitting(packings, rows, Assigned(packings, rows, at), n + 1)
<1> DEFINE carried == [k \in DOMAIN rows |-> Vgm(rows, packings, at, k)]
           gross == Gross(packings[Len(at) + 1])
           room == Room(carried, rows, gross)
           c == IF room = {} THEN None ELSE Lightest(carried, room)
           new == Append(at, c)
           V(k) == Vgm(rows, packings, at, k)
           L(k) == Limit[rows[k]]
<1>1. at \in Seq(0..Len(rows)) /\ Len(at) = n /\ Len(at) < Len(packings)
  BY DEF Fitting
<1>2. Assigned(packings, rows, at) = new
  BY DEF Assigned
<1>3. DOMAIN rows = 1..Len(rows) /\ Len(rows) \in Nat /\ \A k \in DOMAIN rows : L(k) \in Nat
  <2>1. DOMAIN rows = 1..Len(rows) /\ Len(rows) \in Nat /\ \A k \in DOMAIN rows : rows[k] \in DOMAIN Limit
    BY ListPlaces DEF Rowed
  <2>2. QED
    BY <2>1, BookingsAssumption
<1>4. gross \in Nat /\ gross > 0
  <2>1. packings[Len(at) + 1] \in Packing
    <3>1. Len(at) + 1 \in DOMAIN packings
      BY <1>1
    <3>2. QED
      BY <3>1, ListPlaces
  <2>2. QED
    BY <2>1, GrossIs
<1>5. \A k \in DOMAIN rows : V(k) \in Nat
  <2>1. 0 \in 0..Len(rows)
    BY <1>3
  <2>2. QED
    BY <1>1, <2>1, VgmGrows
<1>6. /\ room \subseteq DOMAIN rows
      /\ \A k \in DOMAIN rows : k \in room <=> L(k) = 0 \/ V(k) + gross <= L(k)
  BY DEF Room
<1> HIDE DEF L, gross
<1>7. \A k \in room : carried[k] \in Nat
  BY <1>5, <1>6
<1> HIDE DEF V, carried, room
<1>8. /\ room = {} => c = None
      /\ room # {} => c \in room
  <2>1. room \subseteq Nat
    BY <1>3, <1>6
  <2>2. QED
    BY <1>7, <2>1, LightestIs
<1>9. c \in 0..Len(rows) /\ (room # {} => c # None)
  BY <1>3, <1>6, <1>8 DEF None
<1> HIDE DEF c
<1>10. \A k \in DOMAIN rows : Vgm(rows, packings, new, k) = V(k) + IF c = k THEN gross ELSE 0
  BY <1>1, <1>9, VgmGrows DEF V, gross
<1>11. /\ new \in Seq(0..Len(rows)) /\ Len(new) = n + 1 /\ DOMAIN new = 1..(n + 1) /\ DOMAIN at = 1..n
       /\ new[n + 1] = c /\ \A i \in 1..n : new[i] = at[i]
  BY <1>1, <1>9
<1> HIDE DEF new
<1>12. gross = Gross(packings[n + 1])
  BY <1>1 DEF gross
<1>13. ASSUME NEW k \in DOMAIN rows, L(k) > 0
       PROVE  /\ Vgm(rows, packings, new, k) <= L(k) \/ \A i \in DOMAIN new : new[i] # k
              /\ \A i \in DOMAIN new : new[i] = None =>
                    Vgm(rows, packings, new, k) + Gross(packings[i]) > L(k)
  <2>1. /\ V(k) <= L(k) \/ \A i \in 1..n : at[i] # k
        /\ \A i \in 1..n : at[i] = None => V(k) + Gross(packings[i]) > L(k)
    BY <1>11, <1>13 DEF Fitting, V, L
  <2>2. V(k) \in Nat /\ L(k) \in Nat /\ gross \in Nat /\ gross > 0 /\ k # None
    BY <1>3, <1>4, <1>5 DEF None
  <2>3. Vgm(rows, packings, new, k) <= L(k) \/ \A i \in DOMAIN new : new[i] # k
    <3>1. CASE c = k
      <4>1. k \in room
        BY <1>8, <2>2, <3>1
      <4>2. V(k) + gross <= L(k)
        BY <1>6, <1>13, <2>2, <4>1
      <4>3. QED
        BY <1>10, <3>1, <4>2
    <3>2. CASE c # k
      <4>1. Vgm(rows, packings, new, k) = V(k)
        BY <1>10, <2>2, <3>2
      <4>2. \A i \in DOMAIN new : i = n + 1 \/ i \in 1..n
        BY <1>11
      <4>3. QED
        BY <1>11, <2>1, <3>2, <4>1, <4>2
    <3>3. QED
      BY <3>1, <3>2
  <2>4. ASSUME NEW i \in DOMAIN new, new[i] = None
        PROVE  Vgm(rows, packings, new, k) + Gross(packings[i]) > L(k)
    <3>1. CASE i = n + 1
      <4>1. c = None /\ room = {}
        BY <1>9, <1>11, <2>4, <3>1
      <4>2. ~(V(k) + gross <= L(k))
        BY <1>6, <4>1
      <4>3. Vgm(rows, packings, new, k) = V(k)
        BY <1>10, <2>2, <4>1
      <4>4. QED
        BY <1>12, <2>2, <3>1, <4>2, <4>3
    <3>2. CASE i # n + 1
      <4>1. i \in 1..n
        BY <1>11, <3>2
      <4>2. at[i] = None
        BY <1>11, <2>4, <4>1
      <4>3. V(k) + Gross(packings[i]) > L(k)
        BY <2>1, <4>1, <4>2
      <4>4. Gross(packings[i]) \in Nat
        <5>1. i \in DOMAIN packings
          BY <1>1, <4>1
        <5>2. packings[i] \in Packing
          BY <5>1, ListPlaces
        <5>3. QED
          BY <5>2, GrossIs
      <4>5. Vgm(rows, packings, new, k) = V(k) \/ Vgm(rows, packings, new, k) = V(k) + gross
        BY <1>10, <2>2
      <4>6. QED
        BY <2>2, <4>3, <4>4, <4>5
    <3>3. QED
      BY <3>1, <3>2
  <2>5. QED
    BY <2>3, <2>4
<1>14. Fitting(packings, rows, new, n + 1)
  BY <1>11, <1>13 DEF Fitting, L
<1>15. QED
  BY <1>2, <1>14

\* What is assigned as the packings come.
Assignments(packings, rows, n, g) ==
    g = [i \in 0..n |-> IF i = 0 THEN <<>> ELSE Assigned(packings, rows, g[i - 1])]

\* There are such, however many packings there are.
LEMMA AssignmentsExist ==
    ASSUME NEW packings, NEW rows, NEW n \in Nat
    PROVE  \E g : Assignments(packings, rows, n, g)
<1> DEFINE A(at) == Assigned(packings, rows, at)
           Good(i) == \E g : g = [j \in 0..i |-> IF j = 0 THEN <<>> ELSE A(g[j - 1])]
           P == {i \in Nat : Good(i)}
<1> HIDE DEF A
<1>1. 0 \in P
  <2> DEFINE g == [j \in 0..0 |-> <<>>]
  <2>1. g = [j \in 0..0 |-> IF j = 0 THEN <<>> ELSE A(g[j - 1])]
    <3>1. \A j \in 0..0 : j = 0
      OBVIOUS
    <3>2. QED
      BY <3>1
  <2> HIDE DEF g
  <2>2. QED
    BY <2>1
<1>2. ASSUME NEW i \in Nat, i < n /\ i \in P
      PROVE  i + 1 \in P
  <2>1. PICK g : g = [j \in 0..i |-> IF j = 0 THEN <<>> ELSE A(g[j - 1])]
    BY <1>2
  <2> DEFINE h == [j \in 0..(i + 1) |-> IF j = i + 1 THEN A(g[i]) ELSE g[j]]
  <2>2. \A j \in 0..i : h[j] = g[j]
    OBVIOUS
  <2>3. h[i + 1] = A(g[i]) /\ h[i] = g[i]
    OBVIOUS
  <2>4. \A j \in 0..i : j # 0 => j - 1 \in 0..i
    OBVIOUS
  <2>5. \A j \in 0..(i + 1) : h[j] = IF j = 0 THEN <<>> ELSE A(h[j - 1])
    <3>1. SUFFICES ASSUME NEW j \in 0..(i + 1) PROVE h[j] = IF j = 0 THEN <<>> ELSE A(h[j - 1])
      OBVIOUS
    <3>2. CASE j = i + 1
      <4>1. j - 1 = i /\ j # 0
        BY <3>2
      <4> HIDE DEF h
      <4>2. QED
        BY <2>3, <3>2, <4>1
    <3>3. CASE j # i + 1
      <4>1. j \in 0..i
        BY <3>3
      <4>2. g[j] = IF j = 0 THEN <<>> ELSE A(g[j - 1])
        BY <2>1, <4>1
      <4> HIDE DEF h
      <4>3. QED
        BY <2>2, <2>4, <4>1, <4>2
    <3>4. QED
      BY <3>2, <3>3
  <2>6. h = [j \in 0..(i + 1) |-> h[j]]
    OBVIOUS
  <2> HIDE DEF h
  <2>7. h = [j \in 0..(i + 1) |-> IF j = 0 THEN <<>> ELSE A(h[j - 1])]
    BY <2>5, <2>6
  <2>8. QED
    BY <2>7
<1> HIDE DEF P
<1>3. n \in P
  BY <1>1, <1>2, CountingUp
<1>4. QED
  BY <1>3 DEF P, Assignments, A

\* What is assigned in the end fits.
LEMMA AutoFits ==
    ASSUME NEW packings \in Seq(Packing), NEW rows \in Rowed
    PROVE  Fitting(packings, rows, AutoAssigned(packings, rows), Len(packings))
<1> DEFINE N == Len(packings)
           g == CHOOSE g : Assignments(packings, rows, N, g)
           P == {i \in Nat : i <= N => Fitting(packings, rows, g[i], i)}
<1>1. N \in Nat /\ DOMAIN packings = 1..N
  BY ListPlaces
<1>2. AutoAssigned(packings, rows) = g[N]
  BY DEF AutoAssigned, Assignments
<1>3. Assignments(packings, rows, N, g)
  BY <1>1, AssignmentsExist
<1> HIDE DEF N, g
<1>4. \A i \in 0..N : g[i] = IF i = 0 THEN <<>> ELSE Assigned(packings, rows, g[i - 1])
  BY <1>3 DEF Assignments
<1>5. 0 \in P
  <2>1. g[0] = <<>>
    BY <1>1, <1>4
  <2> DEFINE at == <<>>
  <2>2. at \in Seq(0..Len(rows)) /\ Len(at) = 0 /\ DOMAIN at = {}
    OBVIOUS
  <2>3. \A k \in DOMAIN rows : Limit[rows[k]] > 0 =>
            /\ \A i \in DOMAIN at : at[i] # k
            /\ \A i \in DOMAIN at : at[i] = None =>
                  Vgm(rows, packings, at, k) + Gross(packings[i]) > Limit[rows[k]]
    BY <2>2
  <2> HIDE DEF at
  <2>4. Fitting(packings, rows, at, 0)
    BY <2>2, <2>3 DEF Fitting
  <2>5. QED
    BY <2>1, <2>4 DEF at
<1>6. ASSUME NEW i \in Nat, i < N /\ i \in P
      PROVE  i + 1 \in P
  <2>1. Fitting(packings, rows, g[i], i) /\ i < N
    BY <1>1, <1>6
  <2>2. PICK at : at = g[i]
    OBVIOUS
  <2>3. Fitting(packings, rows, Assigned(packings, rows, at), i + 1)
    BY <1>1, <2>1, <2>2, NextFits DEF N
  <2>4. g[i + 1] = Assigned(packings, rows, at)
    <3>1. i + 1 \in 0..N /\ i + 1 # 0 /\ (i + 1) - 1 = i
      BY <1>1, <2>1
    <3>2. QED
      BY <1>4, <2>2, <3>1
  <2>5. QED
    BY <2>3, <2>4
<1> HIDE DEF P
<1>7. N \in P
  BY <1>1, <1>5, <1>6, CountingUp
<1>8. QED
  BY <1>1, <1>2, <1>7 DEF P, N

-----------------------------------------------------------------------------
(* From a loading planning to the form of an export invoice.               *)

\* Lines in parts: each in one of them.
Parts(part, E, srs) ==
    /\ \A e \in E : part[e] \subseteq srs
    /\ \A y \in srs : \E e \in E : y \in part[e] /\ \A d \in E : y \in part[d] => d = e

\* The boxes of lines are those of their parts.
LEMMA BoxesByPart ==
    ASSUME NEW c \in Seq(Boxes), NEW E, IsFiniteSet(E), NEW part, NEW srs, Parts(part, E, srs)
    PROVE  /\ [e \in E |-> BoxesOf(c, part[e])] \in [E -> Nat]
           /\ BoxesOf(c, srs) = SumFunction([e \in E |-> BoxesOf(c, part[e])])
<1> DEFINE D == DOMAIN c
           f == [e \in E |-> [j \in D |-> IF c[j].sr \in part[e] THEN c[j].boxes ELSE 0]]
           row == [e \in E |-> SumFunction([j \in D |-> f[e][j]])]
           col == [j \in D |-> SumFunction([e \in E |-> f[e][j]])]
           all == [j \in D |-> IF c[j].sr \in srs THEN c[j].boxes ELSE 0]
<1>1. IsFiniteSet(D) /\ \A j \in D : c[j].boxes \in Nat
  <2>1. IsFiniteSet(D) /\ \A j \in D : c[j] \in Boxes
    BY ListPlaces
  <2>2. QED
    BY <2>1 DEF Boxes
<1> HIDE DEF D
<1>2. \A e \in E, j \in D : f[e][j] = (IF c[j].sr \in part[e] THEN c[j].boxes ELSE 0) /\ f[e][j] \in Nat
  BY <1>1
<1>3. \A e \in E : SumFunction([j \in D |-> f[e][j]]) = BoxesOf(c, part[e])
  <2>1. SUFFICES ASSUME NEW e \in E PROVE SumFunction([j \in D |-> f[e][j]]) = BoxesOf(c, part[e])
    OBVIOUS
  <2>2. [j \in D |-> f[e][j]] = [j \in D |-> IF c[j].sr \in part[e] THEN c[j].boxes ELSE 0]
    OBVIOUS
  <2>3. QED
    BY <2>2 DEF BoxesOf, D
<1> HIDE DEF f
<1>4. row = [e \in E |-> BoxesOf(c, part[e])]
  BY <1>3
<1>5. row \in [E -> Nat] /\ col \in [D -> Nat] /\ SumFunction(row) = SumFunction(col)
  <2>1. Table(E, D, f, row, col)
    BY <1>1, <1>2 DEF Table
  <2> HIDE DEF row, col
  <2>2. QED
    BY <2>1, SumSwap
<1>6. ASSUME NEW j \in D
      PROVE  col[j] = all[j]
  <2> DEFINE g == [e \in E |-> f[e][j]]
             y == c[j].sr
  <2>1. g \in [E -> Nat] /\ \A e \in E : g[e] = IF y \in part[e] THEN c[j].boxes ELSE 0
    <3>1. \A e \in E : g[e] = (IF y \in part[e] THEN c[j].boxes ELSE 0) /\ g[e] \in Nat
      BY <1>2
    <3>2. g = [e \in E |-> g[e]]
      OBVIOUS
    <3> HIDE DEF g
    <3>3. QED
      BY <3>1, <3>2
  <2> HIDE DEF g, y
  <2>2. SumFunction(g) = IF y \in srs THEN c[j].boxes ELSE 0
    <3>1. CASE y \in srs
      <4>1. PICK e \in E : y \in part[e] /\ \A d \in E : y \in part[d] => d = e
        BY <3>1 DEF Parts
      <4>2. g[e] = c[j].boxes /\ \A d \in E \ {e} : g[d] = 0
        BY <2>1, <4>1
      <4>3. SumFunction(g) = g[e]
        BY <2>1, <4>2, SumOfOne
      <4>4. QED
        BY <3>1, <4>2, <4>3
    <3>2. CASE y \notin srs
      <4>1. \A e \in E : g[e] = 0
        BY <2>1, <3>2 DEF Parts
      <4>2. SumFunction(g) = 0
        BY <2>1, <4>1, SumOfZeros
      <4>3. QED
        BY <3>2, <4>2
    <3>3. QED
      BY <3>1, <3>2
  <2>3. QED
    BY <2>2 DEF g, y
<1>7. col = all
  BY <1>6
<1>8. BoxesOf(c, srs) = SumFunction(all)
  BY DEF BoxesOf, D
<1>9. QED
  BY <1>4, <1>5, <1>7, <1>8

\* The goods lines: one for each product.
LEMMA GoodsAre ==
    ASSUME NEW lines \in Seq(Line)
    PROVE  /\ Products(lines) \in Seq(Nat \ {None})
           /\ \A sr \in DOMAIN lines : \E k \in DOMAIN Products(lines) : Products(lines)[k] = lines[sr].product
           /\ \A j, k \in DOMAIN Products(lines) : Products(lines)[j] = Products(lines)[k] => j = k
<1> DEFINE F == {sr \in DOMAIN lines : \A j \in Batches(lines, lines[sr].product) : sr <= j}
           firsts == At(lines, F)
           ps == Products(lines)
<1>1. /\ DOMAIN lines = 1..Len(lines) /\ Len(lines) \in Nat
      /\ \A sr \in DOMAIN lines : lines[sr].product \in Nat \ {None}
  <2>1. DOMAIN lines = 1..Len(lines) /\ Len(lines) \in Nat /\ \A sr \in DOMAIN lines : lines[sr] \in Line
    BY ListPlaces
  <2>2. QED
    BY <2>1 DEF Line
<1>2. F \in SUBSET DOMAIN lines
  OBVIOUS
<1>3. ASSUME NEW sr \in DOMAIN lines
      PROVE  \E k \in F : lines[k].product = lines[sr].product
  <2> DEFINE B == Batches(lines, lines[sr].product)
  <2>1. B \subseteq Nat /\ sr \in B /\ B \subseteq DOMAIN lines
    BY <1>1 DEF Batches
  <2>2. PICK k \in B : \A j \in B : k <= j
    <3> HIDE DEF B
    <3>1. QED
      BY <2>1, LeastElement
  <2>3. lines[k].product = lines[sr].product /\ k \in DOMAIN lines
    BY DEF Batches
  <2>4. k \in F
    BY <2>2, <2>3
  <2>5. QED
    BY <2>3, <2>4
<1>4. ASSUME NEW j \in F, NEW k \in F, lines[j].product = lines[k].product
      PROVE  j = k
  <2>1. k \in Batches(lines, lines[j].product) /\ j \in Batches(lines, lines[k].product)
    BY <1>4 DEF Batches
  <2>2. j <= k /\ k <= j
    BY <2>1
  <2>3. j \in Nat /\ k \in Nat
    BY <1>1
  <2>4. QED
    BY <2>2, <2>3
<1> HIDE DEF F
<1>5. PICK rank : KeptBy(lines, F, rank) /\ firsts \in Seq(Line)
  BY <1>2, KeptRanks
<1>6. /\ \A k \in F : rank[k] \in 1..Len(firsts) /\ firsts[rank[k]] = lines[k]
      /\ \A i \in 1..Len(firsts) : \E k \in F : rank[k] = i
      /\ DOMAIN firsts = 1..Len(firsts) /\ Len(firsts) \in Nat
  <2>1. rank \in Bijection(F, 1..Len(firsts)) /\ \A k \in F : firsts[rank[k]] = lines[k]
    BY <1>5 DEF KeptBy
  <2>2. DOMAIN firsts = 1..Len(firsts) /\ Len(firsts) \in Nat
    BY <1>5
  <2> HIDE DEF firsts
  <2>3. QED
    BY <2>1, <2>2 DEF Bijection, Injection, Surjection
<1>7. ps = [k \in 1..Len(firsts) |-> firsts[k].product]
  <2>1. ps = [k \in DOMAIN firsts |-> firsts[k].product]
    BY DEF Products, F
  <2>2. QED
    BY <1>6, <2>1
<1> HIDE DEF ps, firsts
<1>8. ps \in Seq(Nat \ {None}) /\ DOMAIN ps = 1..Len(firsts)
  <2>1. \A i \in 1..Len(firsts) : firsts[i].product \in Nat \ {None}
    BY <1>1, <1>2, <1>6
  <2>2. QED
    BY <1>6, <1>7, <2>1
<1>9. ASSUME NEW sr \in DOMAIN lines
      PROVE  \E k \in DOMAIN ps : ps[k] = lines[sr].product
  <2>1. PICK k \in F : lines[k].product = lines[sr].product
    BY <1>3
  <2>2. ps[rank[k]] = lines[sr].product /\ rank[k] \in DOMAIN ps
    BY <1>6, <1>7, <1>8, <2>1
  <2>3. QED
    BY <2>2
<1>10. ASSUME NEW j \in DOMAIN ps, NEW k \in DOMAIN ps, ps[j] = ps[k]
       PROVE  j = k
  <2>1. PICK a \in F : rank[a] = j
    BY <1>6, <1>8
  <2>2. PICK b \in F : rank[b] = k
    BY <1>6, <1>8
  <2>3. lines[a].product = lines[b].product
    BY <1>6, <1>7, <1>8, <1>10, <2>1, <2>2
  <2>4. QED
    BY <1>4, <2>1, <2>2, <2>3
<1>11. QED
  BY <1>8, <1>9, <1>10 DEF ps

\* All the places of a list.
LEMMA AtAll ==
    ASSUME NEW X, NEW s \in Seq(X)
    PROVE  At(s, DOMAIN s) = s
<1> DEFINE t == At(s, DOMAIN s)
           n == Len(s)
<1>1. DOMAIN s = 1..n /\ n \in Nat /\ IsFiniteSet(1..n)
  BY ListPlaces
<1> HIDE DEF n
<1>2. PICK rank : KeptBy(s, DOMAIN s, rank) /\ t \in Seq(X) /\ Len(t) = Cardinality(DOMAIN s)
  BY KeptRanks
<1>3. Len(t) = n
  <2>1. Cardinality(1..n) = n
    BY <1>1, FS_Interval
  <2>2. QED
    BY <1>1, <1>2, <2>1
<1>4. ASSUME NEW k \in 1..n
      PROVE  rank[k] = k
  <2>1. rank[k] = Cardinality({j \in 1..n : j <= k})
    BY <1>1, <1>2 DEF KeptBy
  <2>2. {j \in 1..n : j <= k} = 1..k
    BY <1>1
  <2>3. Cardinality(1..k) = k
    BY <1>1, FS_Interval
  <2>4. QED
    BY <2>1, <2>2, <2>3
<1>5. \A k \in 1..n : t[k] = s[k]
  BY <1>1, <1>2, <1>4 DEF KeptBy
<1> HIDE DEF t
<1>6. t = [k \in 1..n |-> t[k]] /\ s = [k \in 1..n |-> s[k]]
  BY <1>1, <1>2, <1>3
<1>7. QED
  BY <1>5, <1>6 DEF t

\* A container that is there is where it is.
LEMMA PlaceIsIt ==
    ASSUME NEW X, NEW rows \in Seq(X), NEW at \in 1..Len(rows), OnForm(rows) = rows
    PROVE  Place(at, rows) = at
<1> DEFINE n == Len(rows)
           S == {1, n}
           m == Max(S)
<1>1. n \in Nat /\ 1 <= n /\ at \in Nat /\ at <= n
  OBVIOUS
<1> HIDE DEF n
<1>2. m \in S /\ \A y \in S : y <= m
  <2>1. \E x \in S : \A y \in S : y <= x
    BY <1>1
  <2>2. m = CHOOSE x \in S : \A y \in S : x >= y
    BY DEF Max
  <2> HIDE DEF S
  <2>3. \E x \in S : \A y \in S : x >= y
    BY <2>1
  <2>4. QED
    BY <2>2, <2>3
<1>3. m \in Nat /\ at <= m
  BY <1>1, <1>2
<1> HIDE DEF m
<1>4. Min({at, m}) = at
  <2>1. at \in {at, m} /\ \A y \in {at, m} : at <= y
    BY <1>1, <1>3
  <2>2. \A x \in {at, m} : (\A y \in {at, m} : x <= y) => x = at
    BY <1>1, <1>3
  <2>3. QED
    BY <2>1, <2>2 DEF Min
<1>5. QED
  BY <1>4 DEF Place, m, n

\* A loading planning: its packings are of its lines, hold all their boxes and
\* stand in its containers.
LoadFits(load) ==
    /\ load.lines \in Seq(Line) /\ load.packings \in Seq(Packing) /\ load.rows \in Rowed
    /\ \A n \in DOMAIN load.packings :
          /\ load.packings[n].at \in 0..Len(load.rows)
          /\ \A k \in DOMAIN load.packings[n].contents :
                load.packings[n].contents[k].sr \in DOMAIN load.lines
    /\ \A sr \in DOMAIN load.lines : load.lines[sr].boxes = Tally(Holding({sr}), load.packings)

\* The rows that identify a container.
Sent(rows) == {s \in DOMAIN rows : IsShipped(rows[s])}

\* On the form such a row stands at its rank among them.
LEMMA ShippedPlaces ==
    ASSUME NEW rows \in Rowed
    PROVE  /\ Shipped(rows) \in Rowed /\ OnForm(Shipped(rows)) = Shipped(rows)
           /\ IsFiniteSet(Sent(rows)) /\ Sent(rows) \subseteq DOMAIN rows /\ DOMAIN rows = 1..Len(rows)
           /\ \A sr \in Sent(rows) : /\ IndexOf(rows, sr) \in DOMAIN Shipped(rows)
                                     /\ IndexOf(rows, sr) \in 1..Len(Shipped(rows))
                                     /\ Shipped(rows)[IndexOf(rows, sr)] = rows[sr]
<1> DEFINE S == Sent(rows)
           t == Shipped(rows)
<1>1. /\ S \in SUBSET DOMAIN rows /\ t = At(rows, S) /\ DOMAIN rows = 1..Len(rows) /\ IsFiniteSet(DOMAIN rows)
      /\ \A k \in S : rows[k] # None /\ k \in DOMAIN rows
  BY ListPlaces DEF Sent, Shipped, IsShipped, Rowed
<1>2. IsFiniteSet(S)
  BY <1>1, FS_Subset
<1> HIDE DEF S, t
<1>3. PICK rank : KeptBy(rows, S, rank) /\ t \in Rowed
  BY <1>1, KeptRanks DEF Rowed
<1>4. /\ \A k \in S : rank[k] \in 1..Len(t) /\ t[rank[k]] = rows[k]
      /\ \A i \in 1..Len(t) : \E k \in S : rank[k] = i
  <2>1. rank \in Bijection(S, 1..Len(t)) /\ \A k \in S : t[rank[k]] = rows[k]
    BY <1>1, <1>3 DEF KeptBy
  <2>2. QED
    BY <2>1 DEF Bijection, Injection, Surjection
<1>5. DOMAIN t = 1..Len(t)
  BY <1>3 DEF Rowed
<1>6. ASSUME NEW sr \in S
      PROVE  IndexOf(rows, sr) = rank[sr]
  <2>1. {j \in S : j <= sr} = {k \in 1..sr : IsShipped(rows[k])}
    BY <1>1 DEF S, Sent
  <2>2. rank[sr] = Cardinality({j \in S : j <= sr})
    BY <1>3 DEF KeptBy
  <2>3. QED
    BY <2>1, <2>2 DEF IndexOf
<1>7. OnForm(t) = t
  <2>1. \A k \in DOMAIN t : t[k] # None
    BY <1>1, <1>4, <1>5
  <2>2. {k \in DOMAIN t : t[k] # None} = DOMAIN t
    BY <2>1
  <2>3. QED
    BY <1>3, <2>2, AtAll DEF OnForm, Rowed
<1>8. QED
  BY <1>1, <1>2, <1>3, <1>4, <1>5, <1>6, <1>7 DEF S, t

\* What a packing holds of a product, and how much of it a container carries.
Part(load, n, k) == BoxesOf(load.packings[n].contents, Batches(load.lines, Products(load.lines)[k]))
CarriedOf(load, sr, k) == Carried(load, sr, Products(load.lines)[k])

\* What a container carries adds up what its packings hold.
LEMMA PartsCarried ==
    ASSUME NEW load, LoadFits(load), NEW k
    PROVE  /\ \A n \in DOMAIN load.packings : Part(load, n, k) \in Nat
           /\ \A sr : /\ CarriedOf(load, sr, k) \in Nat
                      /\ CarriedOf(load, sr, k) = SumFunction([n \in DOMAIN load.packings |->
                            IF load.packings[n].at = sr THEN Part(load, n, k) ELSE 0])
<1> DEFINE D == DOMAIN load.packings
<1>1. IsFiniteSet(D) /\ \A n \in D : load.packings[n] \in Packing
  BY ListPlaces DEF LoadFits
<1>2. \A n \in D : load.packings[n].contents \in Seq(Boxes)
  BY <1>1 DEF Packing
<1>3. \A n \in D : Part(load, n, k) \in Nat
  BY <1>2, BoxesTotal DEF Part
<1>4. ASSUME NEW sr
      PROVE  /\ CarriedOf(load, sr, k) \in Nat
             /\ CarriedOf(load, sr, k) = SumFunction([n \in D |->
                   IF load.packings[n].at = sr THEN Part(load, n, k) ELSE 0])
  <2> DEFINE f == [n \in D |-> IF load.packings[n].at = sr THEN Part(load, n, k) ELSE 0]
  <2>1. f \in [D -> Nat]
    BY <1>3
  <2>2. CarriedOf(load, sr, k) = SumFunction(f)
    BY DEF CarriedOf, Carried, Part
  <2>3. SumFunction(f) \in Nat
    BY <1>1, <2>1, SumSplits
  <2>4. QED
    BY <2>2, <2>3
<1>5. QED
  BY <1>3, <1>4

\* A row of the split a loading planning fills the form with.
LoadRow(load, sr, k) ==
    [n |-> <<sr, k>>, at |-> IndexOf(load.rows, sr), line |-> k, boxes |-> CarriedOf(load, sr, k),
     meant |-> load.rows[sr], of |-> Products(load.lines)[k]]
LoadSplit(load) == Rendered(Given(SplitOf(load)), Shipped(load.rows))

\* The split has such a row for each product that a container carries.
LEMMA LoadRows ==
    ASSUME NEW load, LoadFits(load)
    PROVE  /\ \A a \in LoadSplit(load) : \E sr \in Sent(load.rows), k \in DOMAIN Products(load.lines) :
                 a = LoadRow(load, sr, k) /\ CarriedOf(load, sr, k) > 0
           /\ \A sr \in Sent(load.rows), k \in DOMAIN Products(load.lines) :
                 CarriedOf(load, sr, k) > 0 => LoadRow(load, sr, k) \in LoadSplit(load)
<1> DEFINE S == Sent(load.rows)
           K == DOMAIN Products(load.lines)
           t == Shipped(load.rows)
<1>1. SplitOf(load) = {LoadRow(load, sr, k) : sr \in S, k \in K}
  BY DEF SplitOf, LoadRow, CarriedOf, Sent
<1>2. ASSUME NEW sr \in S, NEW k
      PROVE  /\ LoadRow(load, sr, k).boxes = CarriedOf(load, sr, k)
             /\ [LoadRow(load, sr, k) EXCEPT !.at = Place(@, t)] = LoadRow(load, sr, k)
  <2>1. load.rows \in Rowed
    BY DEF LoadFits
  <2>2. /\ IndexOf(load.rows, sr) \in 1..Len(t) /\ OnForm(t) = t /\ t \in Rowed
    BY <2>1, ShippedPlaces
  <2> HIDE DEF t
  <2>3. Place(IndexOf(load.rows, sr), t) = IndexOf(load.rows, sr)
    BY <2>2, PlaceIsIt DEF Rowed
  <2>4. LoadRow(load, sr, k).at = IndexOf(load.rows, sr) /\ LoadRow(load, sr, k).boxes = CarriedOf(load, sr, k)
    BY DEF LoadRow
  <2>5. [LoadRow(load, sr, k) EXCEPT !.at = IndexOf(load.rows, sr)] = LoadRow(load, sr, k)
    BY DEF LoadRow
  <2>6. QED
    BY <2>3, <2>4, <2>5
<1>3. Given(SplitOf(load)) = {a \in SplitOf(load) : a.boxes > 0}
  BY DEF Given
<1>4. LoadSplit(load) = {[a EXCEPT !.at = Place(@, t)] : a \in Given(SplitOf(load))}
  BY DEF LoadSplit, Rendered
<1> HIDE DEF S, K, t
<1>5. ASSUME NEW a \in LoadSplit(load)
      PROVE  \E sr \in S, k \in K : a = LoadRow(load, sr, k) /\ CarriedOf(load, sr, k) > 0
  <2>1. PICK b \in Given(SplitOf(load)) : a = [b EXCEPT !.at = Place(@, t)]
    BY <1>4
  <2>2. b \in SplitOf(load) /\ b.boxes > 0
    BY <1>3
  <2>3. PICK sr \in S, k \in K : b = LoadRow(load, sr, k)
    BY <1>1, <2>2
  <2>4. a = LoadRow(load, sr, k) /\ CarriedOf(load, sr, k) > 0
    BY <1>2, <2>1, <2>2, <2>3
  <2>5. QED
    BY <2>4
<1>6. ASSUME NEW sr \in S, NEW k \in K, CarriedOf(load, sr, k) > 0
      PROVE  LoadRow(load, sr, k) \in LoadSplit(load)
  <2>1. LoadRow(load, sr, k) \in SplitOf(load)
    BY <1>1
  <2>2. LoadRow(load, sr, k) \in Given(SplitOf(load))
    BY <1>2, <1>3, <1>6, <2>1
  <2>3. QED
    BY <1>2, <1>4, <2>2
<1>7. QED
  BY <1>5, <1>6 DEF S, K

\* The lines of one product.
LEMMA BatchesAre ==
    ASSUME NEW lines \in Seq(Line), NEW p
    PROVE  /\ IsFiniteSet(Batches(lines, p)) /\ Batches(lines, p) \subseteq DOMAIN lines
           /\ [sr \in Batches(lines, p) |-> lines[sr].boxes] \in [Batches(lines, p) -> Nat]
<1>1. IsFiniteSet(DOMAIN lines) /\ \A sr \in DOMAIN lines : lines[sr] \in Line
  BY ListPlaces
<1>2. Batches(lines, p) \in SUBSET DOMAIN lines
  BY DEF Batches
<1>3. IsFiniteSet(Batches(lines, p))
  BY <1>1, <1>2, FS_Subset
<1>4. \A sr \in Batches(lines, p) : lines[sr].boxes \in Nat
  BY <1>1, <1>2 DEF Line
<1>5. QED
  BY <1>2, <1>3, <1>4

\* The form a loading planning fills.
LEMMA LoadFormFits ==
    ASSUME NEW load, LoadFits(load)
    PROVE  /\ Goods(load.lines) \in Seq(Line) /\ SplitFits(LoadSplit(load), Goods(load.lines))
           /\ MeantFits(FALSE, Shipped(load.rows), LoadSplit(load))
           /\ \A a \in LoadSplit(load) : a.of = Goods(load.lines)[a.line].product
<1> DEFINE lines == load.lines
           goods == Goods(lines)
           ps == Products(lines)
           S == Sent(load.rows)
           t == Shipped(load.rows)
<1>1. lines \in Seq(Line) /\ load.rows \in Rowed
  BY DEF LoadFits
<1>2. ps \in Seq(Nat \ {None})
  BY <1>1, GoodsAre
<1>3. DOMAIN ps = 1..Len(ps) /\ Len(ps) \in Nat /\ IsFiniteSet(DOMAIN ps) /\ \A k \in DOMAIN ps : ps[k] \in Nat \ {None}
  BY <1>2, ListPlaces
<1> DEFINE sum(k) == SumFunction([sr \in Batches(lines, ps[k]) |-> lines[sr].boxes])
<1>4. \A k : sum(k) \in Nat
  <2>1. SUFFICES ASSUME NEW k PROVE sum(k) \in Nat
    OBVIOUS
  <2>2. PICK p : p = ps[k]
    OBVIOUS
  <2>3. IsFiniteSet(Batches(lines, p)) /\ [sr \in Batches(lines, p) |-> lines[sr].boxes] \in [Batches(lines, p) -> Nat]
    BY <1>1, BatchesAre
  <2>4. SumFunction([sr \in Batches(lines, p) |-> lines[sr].boxes]) \in Nat
    BY <2>3, SumSplits
  <2>5. QED
    BY <2>2, <2>4
<1>5. goods = [k \in 1..Len(ps) |-> [product |-> ps[k], boxes |-> sum(k)]]
  BY <1>3 DEF Goods
<1> HIDE DEF sum, ps, goods, lines, t, S
<1>6. goods \in Seq(Line) /\ DOMAIN goods = DOMAIN ps /\ \A k \in DOMAIN ps : goods[k].product = ps[k]
  <2>1. \A k \in 1..Len(ps) : [product |-> ps[k], boxes |-> sum(k)] \in Line
    BY <1>3, <1>4 DEF Line
  <2>2. QED
    BY <1>3, <1>5, <2>1
<1>7. /\ t \in Rowed /\ OnForm(t) = t /\ IsFiniteSet(S)
      /\ \A sr \in S : IndexOf(load.rows, sr) \in DOMAIN t /\ t[IndexOf(load.rows, sr)] = load.rows[sr]
  BY <1>1, ShippedPlaces DEF t, S
<1>8. ASSUME NEW a \in LoadSplit(load)
      PROVE  SplitRow(a, goods) /\ a.meant = Label(t, a.at) /\ a.of = goods[a.line].product
             /\ \E sr \in S, k \in DOMAIN ps : a = LoadRow(load, sr, k)
  <2>1. PICK sr \in S, k \in DOMAIN ps : a = LoadRow(load, sr, k)
    BY LoadRows DEF S, ps, lines
  <2>2. /\ a.n = <<sr, k>> /\ a.at = IndexOf(load.rows, sr) /\ a.line = k /\ a.boxes = CarriedOf(load, sr, k)
        /\ a.meant = load.rows[sr] /\ a.of = ps[k]
    BY <2>1 DEF LoadRow, ps, lines
  <2>3. a.boxes \in Nat
    <3>1. CarriedOf(load, sr, k) \in Nat
      BY ONLY LoadFits(load), PartsCarried
    <3>2. QED
      BY <2>2, <3>1
  <2>4. SplitRow(a, goods)
    <3>1. a = [n |-> <<sr, k>>, at |-> IndexOf(load.rows, sr), line |-> k, boxes |-> CarriedOf(load, sr, k),
               meant |-> load.rows[sr], of |-> ps[k]]
      BY <2>1 DEF LoadRow, ps, lines
    <3>2. QED
      BY <1>6, <2>2, <2>3, <3>1 DEF SplitRow
  <2>5. a.meant = Label(t, a.at)
    BY <1>7, <2>2 DEF Label
  <2>6. QED
    BY <1>6, <2>1, <2>2, <2>4, <2>5
<1>9. IsFiniteSet(LoadSplit(load))
  <2> DEFINE all == {LoadRow(load, p[1], p[2]) : p \in S \X DOMAIN ps}
             h == [p \in S \X DOMAIN ps |-> LoadRow(load, p[1], p[2])]
  <2>1. IsFiniteSet(S \X DOMAIN ps)
    BY <1>3, <1>7, FS_Product
  <2>2. h \in Surjection(S \X DOMAIN ps, all)
    BY DEF Surjection
  <2>3. IsFiniteSet(all)
    BY <2>1, <2>2, FS_Surjection
  <2>4. LoadSplit(load) \in SUBSET all
    <3>1. SUFFICES ASSUME NEW a \in LoadSplit(load) PROVE a \in all
      OBVIOUS
    <3>2. PICK sr \in S, k \in DOMAIN ps : a = LoadRow(load, sr, k)
      BY <1>8
    <3>3. <<sr, k>> \in S \X DOMAIN ps /\ a = LoadRow(load, <<sr, k>>[1], <<sr, k>>[2])
      BY <3>2
    <3>4. QED
      BY <3>3
  <2>5. QED
    BY <2>3, <2>4, FS_Subset
<1>10. SplitFits(LoadSplit(load), goods)
  BY <1>8, <1>9 DEF SplitFits
<1>11. MeantFits(FALSE, t, LoadSplit(load))
  BY <1>7, <1>8 DEF MeantFits
<1>12. QED
  BY <1>6, <1>8, <1>10, <1>11 DEF goods, t, lines

\* A goods line has the boxes its packings have of the product.
LEMMA GoodsHold ==
    ASSUME NEW load, LoadFits(load), NEW k \in DOMAIN Products(load.lines)
    PROVE  Goods(load.lines)[k].boxes = SumFunction([n \in DOMAIN load.packings |-> Part(load, n, k)])
<1> DEFINE lines == load.lines
           D == DOMAIN load.packings
           B == Batches(lines, Products(lines)[k])
           c(n) == load.packings[n].contents
           f == [sr \in B |-> [n \in D |-> BoxesOf(c(n), {sr})]]
           row == [sr \in B |-> SumFunction([n \in D |-> f[sr][n]])]
           col == [n \in D |-> SumFunction([sr \in B |-> f[sr][n]])]
<1>1. /\ lines \in Seq(Line) /\ load.packings \in Seq(Packing)
      /\ \A sr \in DOMAIN lines : lines[sr].boxes = Tally(Holding({sr}), load.packings)
  BY DEF LoadFits
<1>2. IsFiniteSet(D) /\ D = 1..Len(load.packings) /\ \A n \in D : load.packings[n] \in Packing
  BY <1>1, ListPlaces
<1>3. \A n \in D : c(n) \in Seq(Boxes)
  BY <1>2 DEF Packing
<1>4. IsFiniteSet(B) /\ B \subseteq DOMAIN lines
  BY <1>1, BatchesAre
<1>5. Goods(lines)[k].boxes = SumFunction([sr \in B |-> lines[sr].boxes])
  BY DEF Goods
<1>6. \A n \in D : Part(load, n, k) = BoxesOf(c(n), B)
  BY DEF Part
<1> HIDE DEF B, D, lines
<1>7. \A sr \in B, n \in D : f[sr][n] = BoxesOf(c(n), {sr}) /\ f[sr][n] \in Nat
  <2>1. \A sr \in B, n \in D : f[sr][n] = BoxesOf(c(n), {sr})
    OBVIOUS
  <2> HIDE DEF c, f
  <2>2. \A sr, n : n \in D => BoxesOf(c(n), {sr}) \in Nat
    BY <1>3, BoxesTotal
  <2>3. QED
    BY <2>1, <2>2
<1>8. row = [sr \in B |-> lines[sr].boxes]
  <2>1. ASSUME NEW sr \in B
        PROVE  row[sr] = lines[sr].boxes
    <3>1. \A n \in D : f[sr][n] = Holding({sr})[load.packings[n]]
      BY <1>2 DEF Holding
    <3>2. [n \in D |-> f[sr][n]] = [n \in 1..Len(load.packings) |-> Holding({sr})[load.packings[n]]]
      BY <1>2, <3>1
    <3>3. row[sr] = Tally(Holding({sr}), load.packings)
      BY <3>2 DEF Tally
    <3> HIDE DEF row
    <3>4. QED
      BY <1>1, <1>4, <3>3
  <2>2. QED
    BY <2>1
<1>9. col = [n \in D |-> Part(load, n, k)]
  <2>1. ASSUME NEW n \in D
        PROVE  col[n] = Part(load, n, k)
    <3> DEFINE part == [sr \in B |-> {sr}]
               list == c(n)
    <3>1. list \in Seq(Boxes) /\ Part(load, n, k) = BoxesOf(list, B)
      BY <1>3, <1>6
    <3>2. Parts(part, B, B)
      BY DEF Parts
    <3>3. [sr \in B |-> f[sr][n]] = [sr \in B |-> BoxesOf(list, part[sr])]
      BY <1>7
    <3>4. col[n] = SumFunction([sr \in B |-> f[sr][n]])
      OBVIOUS
    <3> HIDE DEF part, list, f, col
    <3>5. BoxesOf(list, B) = SumFunction([sr \in B |-> BoxesOf(list, part[sr])])
      BY <1>4, <3>1, <3>2, BoxesByPart
    <3>6. QED
      BY <3>1, <3>3, <3>4, <3>5
  <2>2. QED
    BY <2>1
<1>10. Table(B, D, f, row, col)
  <2>1. \A sr \in B, n \in D : f[sr][n] \in Nat
    BY <1>7
  <2> HIDE DEF f
  <2>2. QED
    BY <1>2, <1>4, <2>1 DEF Table, D
<1>11. SumFunction(row) = SumFunction(col)
  <2> HIDE DEF row, col, f
  <2>1. QED
    BY <1>10, SumSwap
<1> HIDE DEF row, col
<1>12. QED
  BY <1>5, <1>8, <1>9, <1>11 DEF lines, D

\* The split has what the packings have that are in a container that was sent.
LEMMA SplitHolds ==
    ASSUME NEW load, LoadFits(load), NEW k \in DOMAIN Products(load.lines)
    PROVE  BoxesInSplit(LoadSplit(load), k) =
               SumFunction([n \in DOMAIN load.packings |->
                   IF load.packings[n].at \in Sent(load.rows) THEN Part(load, n, k) ELSE 0])
<1> DEFINE D == DOMAIN load.packings
           S == Sent(load.rows)
           E == {sr \in S : CarriedOf(load, sr, k) > 0}
           O == Of(LoadSplit(load), k)
           g == [sr \in E |-> CarriedOf(load, sr, k)]
           all == [sr \in S |-> CarriedOf(load, sr, k)]
           h == [sr \in E |-> LoadRow(load, sr, k)]
           b == [a \in O |-> a.boxes]
<1>1. IsFiniteSet(D) /\ IsFiniteSet(S)
  BY ListPlaces, ShippedPlaces DEF LoadFits
<1>2. IsFiniteSet(E)
  BY <1>1, FS_Subset
<1>3. /\ \A n \in D : Part(load, n, k) \in Nat
      /\ \A sr : CarriedOf(load, sr, k) \in Nat /\ CarriedOf(load, sr, k) =
            SumFunction([n \in D |-> IF load.packings[n].at = sr THEN Part(load, n, k) ELSE 0])
  BY PartsCarried
<1>4. b \in [O -> Nat] /\ BoxesInSplit(LoadSplit(load), k) = SumFunction(b)
  <2>1. SplitFits(LoadSplit(load), Goods(load.lines))
    BY LoadFormFits
  <2>2. QED
    BY <2>1, SplitSums
<1>5. \A sr \in E : LoadRow(load, sr, k) \in O /\ LoadRow(load, sr, k).boxes = CarriedOf(load, sr, k)
                    /\ LoadRow(load, sr, k).n = <<sr, k>>
  <2>1. \A sr \in E : LoadRow(load, sr, k) \in LoadSplit(load)
    BY LoadRows
  <2>2. \A sr \in E : /\ LoadRow(load, sr, k).line = k /\ LoadRow(load, sr, k).boxes = CarriedOf(load, sr, k)
                      /\ LoadRow(load, sr, k).n = <<sr, k>>
    BY DEF LoadRow
  <2>3. QED
    BY <2>1, <2>2 DEF Of
<1>6. \A a \in O : \E sr \in E : a = LoadRow(load, sr, k)
  <2>1. SUFFICES ASSUME NEW a \in O PROVE \E sr \in E : a = LoadRow(load, sr, k)
    OBVIOUS
  <2>2. a \in LoadSplit(load) /\ a.line = k
    BY DEF Of
  <2>3. PICK sr \in S, j \in DOMAIN Products(load.lines) : a = LoadRow(load, sr, j) /\ CarriedOf(load, sr, j) > 0
    BY <2>2, LoadRows
  <2>4. j = k
    BY <2>2, <2>3 DEF LoadRow
  <2>5. QED
    BY <2>3, <2>4
<1> HIDE DEF E, O, S, D
<1>7. SumFunction(g) = SumFunction(b)
  <2>1. h \in [E -> O]
    BY <1>5
  <2>2. \A x, y \in E : h[x] = h[y] => x = y
    <3>1. \A x \in E : h[x].n = <<x, k>>
      BY <1>5
    <3> HIDE DEF h
    <3>2. QED
      BY <3>1
  <2>3. \A a \in O : \E x \in E : h[x] = a
    BY <1>6
  <2>4. \A x \in E : g[x] = b[h[x]]
    BY <1>5
  <2>5. g \in [E -> Nat]
    BY <1>3
  <2> HIDE DEF h, g, b
  <2>6. h \in Bijection(E, O)
    BY <2>1, <2>2, <2>3 DEF Bijection, Injection, Surjection, IsInjective
  <2>7. Renames(h, E, O, g, b)
    BY <1>2, <1>4, <2>4, <2>5, <2>6 DEF Renames
  <2>8. QED
    BY <2>7, SumsRenamed
<1>8. SumFunction(all) = SumFunction(g)
  <2>1. E \in SUBSET S /\ \A sr \in S \ E : CarriedOf(load, sr, k) = 0
    BY <1>3 DEF E
  <2>2. /\ g \in [E -> Nat] /\ all \in [S -> Nat]
        /\ (\A x \in E : all[x] = g[x]) /\ \A x \in S \ E : all[x] = 0
    BY <1>3, <2>1
  <2> HIDE DEF g, all
  <2>3. Pads(S, E, g, all)
    BY <1>1, <2>1, <2>2 DEF Pads
  <2>4. QED
    BY <2>3, SumPadded
<1> DEFINE at(n) == load.packings[n].at
           f == [sr \in S |-> [n \in D |-> IF at(n) = sr THEN Part(load, n, k) ELSE 0]]
           row == [sr \in S |-> SumFunction([n \in D |-> f[sr][n]])]
           col == [n \in D |-> SumFunction([sr \in S |-> f[sr][n]])]
           want == [n \in D |-> IF at(n) \in S THEN Part(load, n, k) ELSE 0]
<1>9. \A sr \in S, n \in D : f[sr][n] = (IF at(n) = sr THEN Part(load, n, k) ELSE 0) /\ f[sr][n] \in Nat
  BY <1>3
<1>10. row = all
  <2>1. ASSUME NEW sr \in S PROVE row[sr] = all[sr]
    <3>1. [n \in D |-> f[sr][n]] = [n \in D |-> IF at(n) = sr THEN Part(load, n, k) ELSE 0]
      OBVIOUS
    <3>2. row[sr] = SumFunction([n \in D |-> IF at(n) = sr THEN Part(load, n, k) ELSE 0])
      BY <3>1
    <3>3. QED
      BY <1>3, <3>2
  <2>2. QED
    BY <2>1
<1>11. col = want
  <2>1. ASSUME NEW n \in D PROVE col[n] = want[n]
    <3> DEFINE e == [sr \in S |-> f[sr][n]]
    <3>1. e \in [S -> Nat] /\ \A sr \in S : e[sr] = IF at(n) = sr THEN Part(load, n, k) ELSE 0
      <4>1. e = [sr \in S |-> e[sr]] /\ \A sr \in S : e[sr] = f[sr][n]
        OBVIOUS
      <4> HIDE DEF e, f, at
      <4>2. QED
        BY <1>9, <4>1
    <3>2. col[n] = SumFunction(e)
      OBVIOUS
    <3> HIDE DEF e, f, col, at
    <3>3. SumFunction(e) = IF at(n) \in S THEN Part(load, n, k) ELSE 0
      <4>1. CASE at(n) \in S
        <5>1. PICK sr \in S : at(n) = sr
          BY <4>1
        <5>2. e[sr] = Part(load, n, k) /\ \A y \in S \ {sr} : e[y] = 0
          BY <3>1, <5>1
        <5>3. SumFunction(e) = e[sr]
          BY <1>1, <3>1, <5>2, SumOfOne
        <5>4. QED
          BY <4>1, <5>2, <5>3
      <4>2. CASE at(n) \notin S
        <5>1. \A sr \in S : e[sr] = 0
          BY <3>1, <4>2
        <5>2. SumFunction(e) = 0
          BY <1>1, <3>1, <5>1, SumOfZeros
        <5>3. QED
          BY <4>2, <5>2
      <4>3. QED
        BY <4>1, <4>2
    <3>4. QED
      BY <3>2, <3>3
  <2>2. QED
    BY <2>1
<1>12. SumFunction(row) = SumFunction(col)
  <2>1. Table(S, D, f, row, col)
    <3>1. \A sr \in S, n \in D : f[sr][n] \in Nat
      BY <1>9
    <3> HIDE DEF f
    <3>2. QED
      BY <1>1, <3>1 DEF Table
  <2> HIDE DEF row, col, f
  <2>2. QED
    BY <2>1, SumSwap
<1> HIDE DEF row, col, all, g, b, want
<1>13. SumFunction(b) = SumFunction(want)
  BY <1>7, <1>8, <1>10, <1>11, <1>12
<1>14. QED
  BY <1>4, <1>13 DEF want, D, S

\* A packing that is in no container that went out.
LEMMA LeftBehind ==
    ASSUME NEW load, LoadFits(load), NEW n \in DOMAIN load.packings
    PROVE  load.packings[n].at \notin Sent(load.rows) <=>
               ~(load.packings[n].at # None /\ load.rows[load.packings[n].at] # None)
<1> DEFINE at == load.packings[n].at
<1>1. at \in 0..Len(load.rows) /\ load.rows \in Rowed
  BY DEF LoadFits
<1>2. DOMAIN load.rows = 1..Len(load.rows) /\ Len(load.rows) \in Nat
  BY <1>1, ListPlaces DEF Rowed
<1>3. at \in Sent(load.rows) <=> at \in DOMAIN load.rows /\ load.rows[at] # None
  BY DEF Sent, IsShipped
<1> HIDE DEF at
<1>4. at \in DOMAIN load.rows <=> at # None
  BY <1>1, <1>2 DEF None
<1>5. QED
  BY <1>3, <1>4 DEF at

\* What a packing holds is what it holds of the products.
LEMMA HeldByProduct ==
    ASSUME NEW load, LoadFits(load), NEW n \in DOMAIN load.packings
    PROVE  BoxesIn(load.packings[n].contents) > 0 <=>
               \E k \in DOMAIN Products(load.lines) : Part(load, n, k) # 0
<1> DEFINE lines == load.lines
           K == DOMAIN Products(lines)
           c == load.packings[n].contents
           part == [k \in K |-> Batches(lines, Products(lines)[k])]
           held == [k \in K |-> BoxesOf(c, part[k])]
<1>1. /\ lines \in Seq(Line) /\ load.packings \in Seq(Packing)
      /\ \A k \in DOMAIN c : c[k].sr \in DOMAIN lines
  BY DEF LoadFits
<1>2. c \in Seq(Boxes)
  <2>1. load.packings[n] \in Packing
    BY <1>1, ListPlaces
  <2>2. QED
    BY <2>1 DEF Packing
<1>3. /\ IsFiniteSet(K)
      /\ \A sr \in DOMAIN lines : \E k \in K : Products(lines)[k] = lines[sr].product
      /\ \A j, k \in K : Products(lines)[j] = Products(lines)[k] => j = k
  <2>1. Products(lines) \in Seq(Nat \ {None})
    BY <1>1, GoodsAre
  <2>2. IsFiniteSet(DOMAIN Products(lines))
    BY <2>1, ListPlaces
  <2>3. QED
    BY <1>1, <2>2, GoodsAre
<1>4. Parts(part, K, DOMAIN lines)
  <2>1. \A k \in K : part[k] = {sr \in DOMAIN lines : lines[sr].product = Products(lines)[k]}
    BY DEF Batches
  <2> HIDE DEF part, K
  <2>2. QED
    BY <1>3, <2>1 DEF Parts
<1>5. BoxesIn(c) = BoxesOf(c, DOMAIN lines)
  <2>1. [k \in DOMAIN c |-> c[k].boxes] = [k \in DOMAIN c |-> IF c[k].sr \in DOMAIN lines THEN c[k].boxes ELSE 0]
    BY <1>1
  <2>2. QED
    BY <2>1 DEF BoxesIn, BoxesOf
<1>6. held \in [K -> Nat] /\ BoxesOf(c, DOMAIN lines) = SumFunction(held)
  <2> HIDE DEF part, K, c, lines
  <2>1. QED
    BY <1>2, <1>3, <1>4, BoxesByPart
<1>7. \A k \in K : held[k] = Part(load, n, k)
  BY DEF Part
<1> HIDE DEF held, K
<1>8. SumFunction(held) \in Nat
  BY <1>3, <1>6, SumSplits
<1>9. SumFunction(held) = 0 <=> \A k \in K : held[k] = 0
  BY <1>3, <1>6, SumIsZero
<1>10. SumFunction(held) > 0 <=> \E k \in K : held[k] # 0
  BY <1>8, <1>9
<1>11. QED
  BY <1>5, <1>6, <1>7, <1>10 DEF K, c, lines

\* A goods line is in containers whole just when no packing that was left
\* behind has any of it.
LEMMA GoodsAreSent ==
    ASSUME NEW load, LoadFits(load), NEW k \in DOMAIN Products(load.lines)
    PROVE  BoxesInSplit(LoadSplit(load), k) = Goods(load.lines)[k].boxes <=>
               \A n \in DOMAIN load.packings :
                   load.packings[n].at \notin Sent(load.rows) => Part(load, n, k) = 0
<1> DEFINE D == DOMAIN load.packings
           at(n) == load.packings[n].at
           S == Sent(load.rows)
           f == [n \in D |-> IF at(n) \in S THEN Part(load, n, k) ELSE 0]
           g == [n \in D |-> Part(load, n, k)]
<1>1. BoxesInSplit(LoadSplit(load), k) = SumFunction(f) /\ Goods(load.lines)[k].boxes = SumFunction(g)
  BY SplitHolds, GoodsHold
<1>2. IsFiniteSet(D)
  BY ListPlaces DEF LoadFits
<1>3. \A n \in D : Part(load, n, k) \in Nat
  BY PartsCarried
<1>4. f \in [D -> Nat] /\ g \in [D -> Nat] /\ \A n \in D : f[n] <= g[n]
  BY <1>3
<1>5. \A n \in D : f[n] = g[n] <=> (at(n) \notin S => Part(load, n, k) = 0)
  BY <1>3
<1> HIDE DEF f, g
<1>6. SumFunction(f) = SumFunction(g) <=> \A n \in D : f[n] = g[n]
  BY <1>2, <1>4, SumsAreEqual
<1> HIDE DEF D, at, S
<1>7. SumFunction(f) = SumFunction(g) <=> \A n \in D : at(n) \notin S => Part(load, n, k) = 0
  BY <1>5, <1>6
<1>8. QED
  BY <1>1, <1>7 DEF D, at, S

\* The form a loading planning fills balances just when each packing that holds
\* a box is in a container that went out.
LEMMA FullLoads ==
    ASSUME NEW load, LoadFits(load)
    PROVE  Balanced(Goods(load.lines), LoadSplit(load)) <=>
               \A n \in DOMAIN load.packings : BoxesIn(load.packings[n].contents) > 0 =>
                   load.packings[n].at # None /\ load.rows[load.packings[n].at] # None
<1> DEFINE D == DOMAIN load.packings
           K == DOMAIN Products(load.lines)
           out(n) == load.packings[n].at \notin Sent(load.rows)
           in(n) == load.packings[n].at # None /\ load.rows[load.packings[n].at] # None
           full(n) == BoxesIn(load.packings[n].contents) > 0
           none(n, k) == Part(load, n, k) = 0
           whole(k) == BoxesInSplit(LoadSplit(load), k) = Goods(load.lines)[k].boxes
<1>1. Balanced(Goods(load.lines), LoadSplit(load)) <=> \A k \in K : whole(k)
  BY DEF Balanced, Goods
<1>2. \A k \in K : whole(k) <=> \A n \in D : out(n) => none(n, k)
  BY GoodsAreSent
<1>3. \A n \in D : (out(n) <=> ~in(n)) /\ (full(n) <=> \E k \in K : ~none(n, k))
  BY LeftBehind, HeldByProduct
<1> HIDE DEF D, K, out, in, full, none, whole
<1>4. (\A k \in K : whole(k)) <=> \A n \in D : full(n) => in(n)
  BY <1>2, <1>3
<1>5. QED
  BY <1>1, <1>4 DEF D, in, full

-----------------------------------------------------------------------------
(* What the documents hold.                                                *)

\* Lines, and packings that are of them and hold all their boxes.
ContentFits(lines, packings) ==
    /\ lines \in Seq(Line) /\ packings \in Seq(Packing)
    /\ \A n \in DOMAIN packings : \A k \in DOMAIN packings[n].contents :
          packings[n].contents[k].sr \in DOMAIN lines
    /\ \A sr \in DOMAIN lines : lines[sr].boxes = Tally(Holding({sr}), packings)

\* Packings that are put into containers are the same packings.
LEMMA SavedFits ==
    ASSUME NEW lines, NEW packings, ContentFits(lines, packings), NEW rows \in Rowed,
           NEW at \in [DOMAIN packings -> 0..Len(rows)]
    PROVE  LoadFits(Saved(lines, rows, packings, at))
<1> DEFINE put(n) == [packings[n] EXCEPT !.at = at[n]]
           new == [n \in DOMAIN at |-> put(n)]
           load == Saved(lines, rows, packings, at)
<1>1. /\ lines \in Seq(Line) /\ packings \in Seq(Packing)
      /\ \A n \in DOMAIN packings : \A k \in DOMAIN packings[n].contents :
            packings[n].contents[k].sr \in DOMAIN lines
      /\ \A sr \in DOMAIN lines : lines[sr].boxes = Tally(Holding({sr}), packings)
  BY DEF ContentFits
<1>2. DOMAIN packings = 1..Len(packings) /\ Len(packings) \in Nat /\ \A n \in DOMAIN packings : packings[n] \in Packing
  BY <1>1, ListPlaces
<1>3. Len(rows) \in Nat
  BY ListPlaces DEF Rowed
<1>4. \A n \in DOMAIN packings :
          put(n) \in Packing /\ put(n).at = at[n] /\ put(n).contents = packings[n].contents
  <2>1. \A n \in DOMAIN packings : at[n] \in Nat
    BY <1>3
  <2>2. QED
    BY <1>2, <2>1 DEF Packing
<1>5. new \in Seq(Packing) /\ Len(new) = Len(packings) /\ DOMAIN new = DOMAIN packings
      /\ \A n \in DOMAIN packings : new[n] = put(n)
  <2>1. new = [n \in 1..Len(packings) |-> put(n)]
    BY <1>2
  <2> HIDE DEF put
  <2>2. QED
    BY <1>2, <1>4, <2>1
<1>6. load.lines = lines /\ load.rows = rows /\ load.packings = new
  BY DEF Saved
<1> HIDE DEF put, load, new
<1>7. \A sr : Tally(Holding({sr}), new) = Tally(Holding({sr}), packings)
  <2>1. SUFFICES ASSUME NEW sr PROVE Tally(Holding({sr}), new) = Tally(Holding({sr}), packings)
    OBVIOUS
  <2>2. \A n \in DOMAIN packings : Holding({sr})[new[n]] = Holding({sr})[packings[n]]
    BY <1>2, <1>4, <1>5 DEF Holding
  <2>3. [n \in 1..Len(new) |-> Holding({sr})[new[n]]] = [n \in 1..Len(packings) |-> Holding({sr})[packings[n]]]
    BY <1>2, <1>5, <2>2
  <2>4. QED
    BY <2>3 DEF Tally
<1>8. \A n \in DOMAIN new : /\ new[n].at \in 0..Len(rows)
                            /\ \A k \in DOMAIN new[n].contents : new[n].contents[k].sr \in DOMAIN lines
  BY <1>1, <1>4, <1>5
<1>9. LoadFits(load)
  BY <1>1, <1>5, <1>6, <1>7, <1>8 DEF LoadFits
<1>10. QED
  BY <1>9 DEF load

\* What packing plannings are imported as.
LEMMA ImportedFits ==
    ASSUME NEW plans \in Packed
    PROVE  ContentFits(Imported(plans).lines, Imported(plans).packings)
<1>1. plans \in Seq(Plan)
  BY PackedAssumption DEF Plan, Boxes
<1>2. Whole(Imported(plans))
  BY <1>1, ImportedIsWhole
<1>3. QED
  BY <1>2 DEF Whole, ContentFits

\* Bookings are rows that may be filled.
LEMMA BookingsRowed == \A rows \in Bookings : rows \in Rowed
BY BookingsAssumption DEF Rowed

\* The loading plannings there are when the users come.
LEMMA LoadsThereAre ==
    ASSUME NEW stored \in Loads, NEW l \in DOMAIN stored
    PROVE  l # None /\ LoadFits(stored[l])
<1>1. PICK plans \in Packed, rows \in Bookings :
         \E at \in [DOMAIN Imported(plans).packings -> 0..Len(rows)] :
             stored[l] = Saved(Imported(plans).lines, rows, Imported(plans).packings, at)
  BY LoadsAssumption
<1>2. PICK at \in [DOMAIN Imported(plans).packings -> 0..Len(rows)] :
         stored[l] = Saved(Imported(plans).lines, rows, Imported(plans).packings, at)
  BY <1>1
<1>3. PICK doc : doc = Imported(plans)
  OBVIOUS
<1>4. ContentFits(doc.lines, doc.packings) /\ rows \in Rowed
  BY <1>3, ImportedFits, BookingsRowed
<1>5. LoadFits(Saved(doc.lines, rows, doc.packings, at))
  BY <1>2, <1>3, <1>4, SavedFits
<1>6. QED
  BY <1>2, <1>3, <1>5, LoadsAssumption

-----------------------------------------------------------------------------
(* What the pages hold.                                                    *)

\* A page shows or is to write what fits.
PageData(r) ==
    /\ r.at = "load" => {"lines", "packings", "id"} \subseteq DOMAIN r /\ ContentFits(r.lines, r.packings)
    /\ r.at = "invoice" => FormFits(r)
    /\ r.at \in Saving => r.lines \in Seq(Line) /\ ListFits(r.list, r.odd) /\ Balanced(r.lines, r.list)

\* And so do the documents.
DataInv ==
    /\ \A l \in DOMAIN loads : l # None /\ LoadFits(loads[l])
    /\ \A i \in DOMAIN invoices : invoices[i].lines \in Seq(Line)
    /\ \A i \in DOMAIN lists : ListFits(lists[i].rows, lists[i].odd)
    /\ \A u \in Users : PageData(page[u])

\* The page of a user that lets the others pass by.
Left(r) == [r EXCEPT !.alone = FALSE]
Apart(u) ==
    \A v \in Users \ {u} : \/ page'[v] = page[v] /\ (page[v] = Closed \/ UNCHANGED store)
                           \/ page[v] # Closed /\ page'[v] = Left(page[v])

\* So do the pages of all the others, whatever a user does.
LEMMA ApartStep ==
    ASSUME ShapeInv, NEW u \in Users, Begin(u) \/ Act(u)
    PROVE  Apart(u)
<1>1. ASSUME NEW next, Leave(u, next) PROVE Apart(u)
  BY <1>1 DEF Leave, Apart, Left
<1>2. ASSUME NEW next, page' = [page EXCEPT ![u] = next], UNCHANGED store PROVE Apart(u)
  BY <1>2 DEF Apart, ShapeInv
<1>3. CASE SaveLoad(u)
  BY <1>1, <1>3 DEF SaveLoad
<1>4. CASE UpdateVgmDetails(u)
  BY <1>1, <1>4 DEF UpdateVgmDetails
<1>5. CASE Submit(u)
  <2>1. PICK next : page' = [page EXCEPT ![u] = next]
    BY <1>5 DEF Submit
  <2>2. UNCHANGED store
    BY <1>5 DEF Submit
  <2>3. QED
    BY <1>2, <2>1, <2>2
<1>6. CASE WriteHeader(u)
  BY <1>1, <1>6 DEF WriteHeader
<1>7. CASE WriteChildren(u)
  <2>1. \E next : Leave(u, next)
    BY <1>7 DEF WriteChildren
  <2>2. QED
    BY <1>1, <2>1
<1>8. CASE CountLists(u)
  <2>1. PICK next : page' = [page EXCEPT ![u] = next]
    <3>1. page' = [page EXCEPT ![u] = [page[u] EXCEPT !.at = "list", !.no = Cardinality(DOMAIN lists) + 1]]
      BY <1>8 DEF CountLists, ShapeInv
    <3>2. QED
      BY <3>1
  <2>2. UNCHANGED store
    BY <1>8 DEF CountLists
  <2>3. QED
    BY <1>2, <2>1, <2>2
<1>9. CASE SaveList(u)
  <2>1. \E next : Leave(u, next)
    BY <1>9 DEF SaveList
  <2>2. QED
    BY <1>1, <2>1
<1>10. CASE Kill(u)
  BY <1>2, <1>10 DEF Kill
<1>11. CASE Begin(u)
  <2>1. CASE \E content : Open(u, content)
    BY <1>2, <2>1 DEF Open
  <2>2. CASE \E plans \in Packed : OpenLoad(u, plans)
    BY <2>1, <2>2 DEF OpenLoad
  <2>3. CASE \E l \in DOMAIN loads : EditLoad(u, l) \/ OpenInvoice(u, l)
    BY <2>1, <2>3 DEF EditLoad, OpenInvoice
  <2>4. CASE \E i \in DOMAIN invoices : EditInvoice(u, i)
    BY <2>1, <2>4 DEF EditInvoice
  <2>5. CASE \E i \in DOMAIN invoices : \E sr \in DOMAIN invoices[i].rows : OpenSlip(u, i, sr)
    BY <2>1, <2>5 DEF OpenSlip
  <2>6. CASE \E i \in DOMAIN invoices : DeleteInvoice(u, i)
    BY <1>1, <2>6 DEF DeleteInvoice
  <2>7. CASE \E i \in DOMAIN invoices, bill \in 0..1 : UpdateShippingBill(u, i, bill)
    BY <1>1, <2>7 DEF UpdateShippingBill
  <2>8. QED
    BY <1>11, <2>2, <2>3, <2>4, <2>5, <2>6, <2>7 DEF Begin
<1>12. QED
  BY <1>3, <1>4, <1>5, <1>6, <1>7, <1>8, <1>9, <1>10, <1>11 DEF Act

\* A page that is left unalone holds what it held.
LEMMA LeftHolds ==
    ASSUME NEW r, PageShape(r), r # Closed
    PROVE  /\ PageShape(r) => Left(r).at = r.at /\ DOMAIN Left(r) = DOMAIN r
           /\ ~Left(r).alone
           /\ PageData(r) => PageData(Left(r))
<1>1. {"at", "id", "alone"} \subseteq DOMAIN r /\ r.at \in Ats
  BY DEF PageShape
<1>2. PICK s : s = Left(r)
  OBVIOUS
<1>3. /\ DOMAIN s = DOMAIN r /\ \A f \in DOMAIN r \ {"alone"} : s[f] = r[f]
      /\ s.at = r.at /\ s.id = r.id /\ s.alone = FALSE
  BY <1>1, <1>2 DEF Left
<1>4. ASSUME PageData(r) PROVE PageData(s)
  <2>1. ASSUME r.at = "load" PROVE s.lines = r.lines /\ s.packings = r.packings /\ PageData(s)
    <3>1. {"lines", "packings", "id"} \subseteq DOMAIN r /\ ContentFits(r.lines, r.packings)
      BY <1>4, <2>1 DEF PageData
    <3>2. s.lines = r.lines /\ s.packings = r.packings
      BY <1>3, <3>1
    <3>3. QED
      BY <1>3, <2>1, <3>1, <3>2 DEF PageData, Saving
  <2>2. ASSUME r.at = "invoice" PROVE PageData(s)
    <3>1. FormFits(r)
      BY <1>4, <2>2 DEF PageData
    <3>2. s.lines = r.lines /\ s.rows = r.rows /\ s.split = r.split /\ s.odd = r.odd
      BY <1>3, <3>1 DEF FormFits
    <3>3. FormFits(s)
      BY <1>3, <3>1, <3>2 DEF FormFits
    <3>4. QED
      BY <1>3, <2>2, <3>3 DEF PageData, Saving
  <2>3. ASSUME r.at \in Saving PROVE PageData(s)
    <3>1. {"lines", "list", "odd"} \subseteq DOMAIN r
      BY <2>3 DEF PageShape
    <3>2. s.lines = r.lines /\ s.list = r.list /\ s.odd = r.odd
      BY <1>3, <3>1
    <3>3. QED
      BY <1>3, <1>4, <2>3, <3>2 DEF PageData, Saving
  <2>4. QED
    BY <1>3, <2>1, <2>2, <2>3 DEF PageData
<1>5. QED
  BY <1>2, <1>3, <1>4

\* A page of which nothing is said.
LEMMA NoData == ASSUME NEW r, r.at \notin Saving \union {"load", "invoice"} PROVE PageData(r)
BY DEF PageData

-----------------------------------------------------------------------------
(* What the steps do to the tables.                                        *)

TablesFit ==
    /\ \A l \in DOMAIN loads : l # None /\ LoadFits(loads[l])
    /\ \A i \in DOMAIN invoices : invoices[i].lines \in Seq(Line)
    /\ \A i \in DOMAIN lists : ListFits(lists[i].rows, lists[i].odd)

\* A loading planning is saved as it was opened, in containers of a booking.
LEMMA SaveLoadFits ==
    ASSUME ShapeInv, DataInv, NEW u \in Users, SaveLoad(u)
    PROVE  \A l \in DOMAIN loads' : l # None /\ LoadFits(loads'[l])
<1> DEFINE id == IF page[u].id = None THEN nextId ELSE page[u].id
           ps == page[u].packings
<1>1. ContentFits(page[u].lines, ps)
  BY DEF DataInv, PageData, SaveLoad
<1>2. ps \in Seq(Packing)
  BY <1>1 DEF ContentFits
<1>3. PICK rows \in Bookings :
         \E at \in {AutoAssigned(ps, rows)} \union
                   {[AutoAssigned(ps, rows) EXCEPT ![n] = k] : n \in DOMAIN AutoAssigned(ps, rows), k \in 0..Len(rows)} :
            loads' = Put(loads, id, Saved(page[u].lines, rows, ps, at))
  BY DEF SaveLoad
<1> DEFINE auto == AutoAssigned(ps, rows)
<1>4. PICK at \in {auto} \union {[auto EXCEPT ![n] = k] : n \in DOMAIN auto, k \in 0..Len(rows)} :
         loads' = Put(loads, id, Saved(page[u].lines, rows, ps, at))
  BY <1>3
<1>5. rows \in Rowed
  BY BookingsRowed
<1>6. auto \in Seq(0..Len(rows)) /\ Len(auto) = Len(ps)
  <2>1. Fitting(ps, rows, auto, Len(ps))
    BY <1>2, <1>5, AutoFits
  <2>2. QED
    BY <2>1 DEF Fitting
<1>7. DOMAIN ps = 1..Len(ps)
  BY <1>2, ListPlaces
<1> HIDE DEF auto, ps
<1>8. auto \in [DOMAIN ps -> 0..Len(rows)]
  BY <1>6, <1>7
<1>9. at \in [DOMAIN ps -> 0..Len(rows)]
  <2>1. CASE at = auto
    BY <1>8, <2>1
  <2>2. CASE at # auto
    <3>1. PICK n \in DOMAIN auto, k \in 0..Len(rows) : at = [auto EXCEPT ![n] = k]
      BY <2>2
    <3>2. QED
      BY <1>8, <3>1
  <2>3. QED
    BY <2>1, <2>2
<1>10. LoadFits(Saved(page[u].lines, rows, ps, at))
  BY <1>1, <1>5, <1>9, SavedFits
<1>11. id # None
  BY DEF ShapeInv, None
<1> HIDE DEF id
<1>12. QED
  BY <1>4, <1>10, <1>11 DEF Put, DataInv, ps

\* The tables of the invoices, by the step that writes them.
LEMMA TablesStep ==
    ASSUME ShapeInv, DataInv, NEW u \in Users, Begin(u) \/ Act(u)
    PROVE  TablesFit'
<1>1. TablesFit
  BY DEF DataInv, TablesFit
<1>2. ASSUME UNCHANGED store PROVE TablesFit'
  BY <1>1, <1>2 DEF TablesFit, store
<1>3. CASE SaveLoad(u)
  <2>1. UNCHANGED <<invoices, lists>>
    BY <1>3 DEF SaveLoad
  <2>2. QED
    BY <1>1, <1>3, <2>1, SaveLoadFits DEF TablesFit
<1>4. CASE UpdateVgmDetails(u)
  <2>1. UNCHANGED <<loads, lists>>
    BY <1>4 DEF UpdateVgmDetails
  <2>2. CASE ~(page[u].id \in DOMAIN invoices /\ page[u].sr \in DOMAIN invoices[page[u].id].rows)
    BY <1>1, <1>4, <2>1, <2>2 DEF UpdateVgmDetails, TablesFit
  <2>3. CASE page[u].id \in DOMAIN invoices /\ page[u].sr \in DOMAIN invoices[page[u].id].rows
    <3> DEFINE i == page[u].id
    <3>1. invoices' = [invoices EXCEPT ![i].rows[page[u].sr].slip = page[u].ct]
      BY <1>4, <2>3 DEF UpdateVgmDetails
    <3> HIDE DEF i
    <3>2. DOMAIN invoices' = DOMAIN invoices /\ \A j \in DOMAIN invoices : invoices'[j].lines = invoices[j].lines
      BY <3>1 DEF ShapeInv, InvoiceShape
    <3>3. QED
      BY <1>1, <2>1, <3>2 DEF TablesFit
  <2>4. QED
    BY <2>2, <2>3
<1>5. CASE WriteHeader(u)
  <2>1. UNCHANGED <<loads, lists>>
    BY <1>5 DEF WriteHeader
  <2>2. CASE page[u].id = None
    <3> DEFINE made == [by |-> u, rate |-> page[u].rate, bill |-> page[u].bill, lines |-> <<>>, rows |-> <<>>]
    <3>1. invoices' = Put(invoices, nextId, made)
      BY <1>5, <2>2 DEF WriteHeader
    <3>2. made.lines \in Seq(Line)
      OBVIOUS
    <3> HIDE DEF made
    <3>3. \A i \in DOMAIN invoices' : invoices'[i].lines \in Seq(Line)
      BY <1>1, <3>1, <3>2 DEF TablesFit, Put
    <3>4. QED
      BY <1>1, <2>1, <3>3 DEF TablesFit
  <2>3. CASE page[u].id # None
    <3> DEFINE i == page[u].id
    <3>1. invoices' = invoices \/ invoices' = [invoices EXCEPT ![i].rate = page[u].rate, ![i].bill = page[u].bill]
      BY <1>5, <2>3 DEF WriteHeader
    <3> HIDE DEF i
    <3>2. DOMAIN invoices' = DOMAIN invoices /\ \A j \in DOMAIN invoices : invoices'[j].lines = invoices[j].lines
      BY <3>1 DEF ShapeInv, InvoiceShape
    <3>3. QED
      BY <1>1, <2>1, <3>2 DEF TablesFit
  <2>4. QED
    BY <2>2, <2>3
<1>6. CASE WriteChildren(u)
  <2>1. UNCHANGED <<loads, lists>>
    BY <1>6 DEF WriteChildren
  <2>2. page[u].lines \in Seq(Line)
    BY <1>6 DEF WriteChildren, DataInv, PageData, Saving
  <2> DEFINE i == page[u].id
  <2>3. invoices' = invoices \/ invoices' = [invoices EXCEPT ![i].lines = page[u].lines, ![i].rows = page[u].rows]
    BY <1>6 DEF WriteChildren
  <2> HIDE DEF i
  <2>4. DOMAIN invoices' = DOMAIN invoices
        /\ \A j \in DOMAIN invoices : invoices'[j].lines \in {invoices[j].lines, page[u].lines}
    BY <2>3 DEF ShapeInv, InvoiceShape
  <2>5. QED
    BY <1>1, <2>1, <2>2, <2>4 DEF TablesFit
<1>7. CASE SaveList(u)
  <2>1. UNCHANGED <<loads, invoices>>
    BY <1>7 DEF SaveList
  <2>2. ListFits(page[u].list, page[u].odd)
    BY <1>7 DEF SaveList, DataInv, PageData, Saving
  <2> DEFINE new == [no |-> ListNumber(page[u].id, page[u].no), rows |-> page[u].list, odd |-> page[u].odd]
  <2>3. lists' = lists \/ lists' = Put(lists, page[u].id, new)
    BY <1>7 DEF SaveList
  <2>4. new.rows = page[u].list /\ new.odd = page[u].odd
    OBVIOUS
  <2> HIDE DEF new
  <2>5. \A i \in DOMAIN lists' : ListFits(lists'[i].rows, lists'[i].odd)
    BY <1>1, <2>2, <2>3, <2>4 DEF TablesFit, Put
  <2>6. QED
    BY <1>1, <2>1, <2>5 DEF TablesFit
<1>8. CASE \E i \in DOMAIN invoices : DeleteInvoice(u, i)
  BY <1>1, <1>8 DEF DeleteInvoice, TablesFit, Drop
<1>9. CASE \E i \in DOMAIN invoices, bill \in 0..1 : UpdateShippingBill(u, i, bill)
  <2>1. PICK i \in DOMAIN invoices, bill \in 0..1 : UpdateShippingBill(u, i, bill)
    BY <1>9
  <2>2. invoices' = [invoices EXCEPT ![i].bill = bill] /\ UNCHANGED <<loads, lists>>
    BY <2>1 DEF UpdateShippingBill
  <2>3. DOMAIN invoices' = DOMAIN invoices /\ \A j \in DOMAIN invoices : invoices'[j].lines = invoices[j].lines
    BY <2>2 DEF ShapeInv, InvoiceShape
  <2>4. QED
    BY <1>1, <2>2, <2>3 DEF TablesFit
<1>10. CASE Submit(u) \/ CountLists(u) \/ Kill(u)
  <2>1. UNCHANGED store
    BY <1>10 DEF Submit, CountLists, Kill
  <2>2. QED
    BY <1>2, <2>1
<1>11. CASE Begin(u)
  <2>1. ASSUME NEW content, Open(u, content) PROVE TablesFit'
    BY <1>2, <2>1 DEF Open
  <2>2. CASE \E plans \in Packed : OpenLoad(u, plans)
    BY <2>1, <2>2 DEF OpenLoad
  <2>3. CASE \E l \in DOMAIN loads : EditLoad(u, l) \/ OpenInvoice(u, l)
    BY <2>1, <2>3 DEF EditLoad, OpenInvoice
  <2>4. CASE \E i \in DOMAIN invoices : EditInvoice(u, i)
    BY <2>1, <2>4 DEF EditInvoice
  <2>5. CASE \E i \in DOMAIN invoices : \E sr \in DOMAIN invoices[i].rows : OpenSlip(u, i, sr)
    BY <2>1, <2>5 DEF OpenSlip
  <2>6. QED
    BY <1>8, <1>9, <1>11, <2>2, <2>3, <2>4, <2>5 DEF Begin
<1>12. QED
  BY <1>3, <1>4, <1>5, <1>6, <1>7, <1>8, <1>9, <1>10, <1>11 DEF Act

-----------------------------------------------------------------------------
(* What the steps do to the page of their user.                            *)

\* What a loading planning fills the form with fits.
LoadForm(l) ==
    [at |-> "invoice", id |-> None, lines |-> Goods(loads[l].lines), rows |-> Shipped(loads[l].rows),
     split |-> LoadSplit(loads[l]), odd |-> FALSE, alone |-> TRUE, load |-> l]

\* The form so filled fits.
LEMMA LoadFormData ==
    ASSUME DataInv, NEW l \in DOMAIN loads
    PROVE  PageData(LoadForm(l))
<1> DEFINE r == LoadForm(l)
<1>1. LoadFits(loads[l])
  BY DEF DataInv
<1>2. PICK load : load = loads[l]
  OBVIOUS
<1>3. /\ Goods(load.lines) \in Seq(Line) /\ SplitFits(LoadSplit(load), Goods(load.lines))
      /\ MeantFits(FALSE, Shipped(load.rows), LoadSplit(load))
      /\ \A a \in LoadSplit(load) : a.of = Goods(load.lines)[a.line].product
  BY <1>1, <1>2, LoadFormFits
<1>4. /\ r.lines = Goods(load.lines) /\ r.rows = Shipped(load.rows) /\ r.split = LoadSplit(load)
      /\ r.odd = FALSE /\ r.at = "invoice"
      /\ {"at", "id", "lines", "rows", "split", "odd"} \subseteq DOMAIN r
  BY <1>2 DEF LoadForm
<1> HIDE DEF r
<1>5. FormFits(r)
  BY <1>3, <1>4 DEF FormFits
<1>6. QED
  BY <1>4, <1>5 DEF PageData, Saving, r

\* What an invoice is edited as.
Cts(i) == [k \in DOMAIN invoices[i].rows |-> invoices[i].rows[k].ct]
ShownOf(i) == IF i \in DOMAIN lists THEN {r \in lists[i].rows : r.line \in DOMAIN invoices[i].lines} ELSE {}
EditForm(i) ==
    [at |-> "invoice", id |-> i, lines |-> invoices[i].lines, rows |-> Cts(i),
     split |-> EditedSplit(invoices[i].lines, Cts(i), ShownOf(i)),
     odd |-> OnForm(Cts(i)) # Cts(i), alone |-> TRUE, load |-> None]

\* The form it is edited in fits.
LEMMA EditFormData ==
    ASSUME DataInv, NEW i \in DOMAIN invoices
    PROVE  PageData(EditForm(i))
<1> DEFINE r == EditForm(i)
           shown == ShownOf(i)
           lines == invoices[i].lines
           rows == Cts(i)
           split == EditedSplit(lines, rows, shown)
<1>1. lines \in Seq(Line)
  BY DEF DataInv
<1>2. IsFiniteSet(shown) /\ \A x \in shown : x.boxes \in Nat /\ x.line \in DOMAIN lines
  <2>1. CASE i \in DOMAIN lists
    <3>1. IsFiniteSet(lists[i].rows) /\ \A x \in lists[i].rows : x.boxes \in Nat
      BY <2>1 DEF DataInv, ListFits
    <3>2. shown = {x \in lists[i].rows : x.line \in DOMAIN lines}
      BY <2>1 DEF ShownOf
    <3>3. shown \in SUBSET lists[i].rows
      BY <3>2
    <3>4. IsFiniteSet(shown)
      BY <3>1, <3>3, FS_Subset
    <3>5. QED
      BY <3>1, <3>2, <3>4
  <2>2. CASE i \notin DOMAIN lists
    <3>1. shown = {}
      BY <2>2 DEF ShownOf
    <3>2. QED
      BY <3>1, FS_EmptySet
  <2>3. QED
    BY <2>1, <2>2
<1>3. /\ r.lines = lines /\ r.rows = rows /\ r.split = split
      /\ r.odd = (OnForm(rows) # rows) /\ r.at = "invoice"
      /\ {"at", "id", "lines", "rows", "split", "odd"} \subseteq DOMAIN r
  BY DEF EditForm
<1> HIDE DEF r, shown, lines, rows, split
<1>4. /\ SplitFits(split, lines) /\ MeantFits(OnForm(rows) # rows, rows, split)
      /\ \A a \in split : a.of = lines[a.line].product
  BY <1>1, <1>2, EditedFits DEF split
<1>5. FormFits(r)
  BY <1>1, <1>3, <1>4 DEF FormFits
<1>6. QED
  BY <1>3, <1>5 DEF PageData, Saving, r

\* The pages that are opened.
LEMMA OpenedData ==
    ASSUME ShapeInv, DataInv, NEW u \in Users, Begin(u)
    PROVE  \/ page'[u] = Closed
           \/ page'[u].at = "slip"
           \/ page'[u].at = "load" /\ PageData(page'[u])
           \/ \E l \in DOMAIN loads : page'[u] = LoadForm(l) /\ UNCHANGED store
           \/ \E i \in DOMAIN invoices : page'[u] = EditForm(i) /\ UNCHANGED store
<1>1. ASSUME NEW content, Open(u, content) PROVE page'[u] = content /\ UNCHANGED store
  BY <1>1 DEF Open, ShapeInv
<1>2. ASSUME NEW id, NEW lines, NEW packings, NEW rows, ContentFits(lines, packings),
             Open(u, [at |-> "load", id |-> id, lines |-> lines, packings |-> packings,
                      rows |-> rows, alone |-> TRUE])
      PROVE  page'[u].at = "load" /\ PageData(page'[u])
  <2> DEFINE new == [at |-> "load", id |-> id, lines |-> lines, packings |-> packings,
                     rows |-> rows, alone |-> TRUE]
  <2>1. page'[u] = new
    BY <1>1, <1>2
  <2>2. PageData(new) /\ new.at = "load"
    BY <1>2 DEF PageData, Saving
  <2>3. QED
    BY <2>1, <2>2
<1>3. CASE \E plans \in Packed : OpenLoad(u, plans)
  <2>1. PICK plans \in Packed : OpenLoad(u, plans)
    BY <1>3
  <2>2. PICK doc : doc = Imported(plans)
    OBVIOUS
  <2>3. ContentFits(doc.lines, doc.packings)
    BY <2>2, ImportedFits
  <2>4. Open(u, [at |-> "load", id |-> None, lines |-> doc.lines, packings |-> doc.packings,
                 rows |-> <<>>, alone |-> TRUE])
    BY <2>1, <2>2 DEF OpenLoad
  <2>5. QED
    BY <1>2, <2>3, <2>4
<1>4. ASSUME NEW l \in DOMAIN loads, EditLoad(u, l)
      PROVE  page'[u].at = "load" /\ PageData(page'[u])
  <2>1. ContentFits(loads[l].lines, loads[l].packings)
    BY DEF DataInv, LoadFits, ContentFits
  <2>2. QED
    BY <1>2, <1>4, <2>1 DEF EditLoad
<1>5. ASSUME NEW l \in DOMAIN loads, OpenInvoice(u, l)
      PROVE  page'[u] = LoadForm(l) /\ UNCHANGED store
  <2>1. Open(u, LoadForm(l))
    BY <1>5 DEF OpenInvoice, LoadForm, LoadSplit
  <2>2. QED
    BY <1>1, <2>1
<1>6. ASSUME NEW i \in DOMAIN invoices, EditInvoice(u, i)
      PROVE  page'[u] = EditForm(i) /\ UNCHANGED store
  <2>1. Open(u, EditForm(i))
    BY <1>6 DEF EditInvoice, EditForm, EditedSplit, Cts, ShownOf
  <2>2. QED
    BY <1>1, <2>1
<1>7. ASSUME NEW i \in DOMAIN invoices, NEW sr \in DOMAIN invoices[i].rows, OpenSlip(u, i, sr)
      PROVE  page'[u].at = "slip"
  BY <1>1, <1>7 DEF OpenSlip
<1>8. ASSUME Leave(u, Closed) PROVE page'[u] = Closed
  BY <1>8 DEF Leave
<1>9. QED
  BY <1>3, <1>2, <1>4, <1>5, <1>6, <1>7, <1>8 DEF Begin, DeleteInvoice, UpdateShippingBill

\* A form that is accepted leaves what fits to be written.
LEMMA SubmitData ==
    ASSUME ShapeInv, DataInv, NEW u \in Users, Submit(u)
    PROVE  PageData(page'[u]) /\ page'[u].at = "header"
<1>1. PICK form \in Changed(page[u]), rate \in Rates :
          LET lines == Named(form.lines)
              posted == Remapped(form.split, form.lines)
              split == IF posted = {} THEN DefaultSplit(lines, form.rows) ELSE posted
              before == Existing(u)
          IN  /\ Balanced(lines, split)
              /\ page' = [page EXCEPT ![u] =
                 [at |-> "header", id |-> form.id, lines |-> lines, odd |-> form.odd, alone |-> TRUE,
                  rate |-> RateKept(u, before.rate, rate), bill |-> before.bill, no |-> None,
                  rows |-> Carry(form.rows, before.rows),
                  list |-> PackingRows(lines, form.rows, split)]]
  BY DEF Submit
<1> DEFINE lines == Named(form.lines)
           posted == Remapped(form.split, form.lines)
           split == IF posted = {} THEN DefaultSplit(lines, form.rows) ELSE posted
           list == PackingRows(lines, form.rows, split)
           new == ToWrite(u, form, rate, lines, list)
<1>2. FormFits(page[u])
  BY DEF DataInv, PageData, Submit
<1>3. ChangedFits(form)
  BY <1>2, ChangesFit
<1>4. lines \in Seq(Line) /\ ListFits(list, form.odd) /\ Balanced(lines, list)
  <2>1. Balanced(lines, split)
    BY <1>1
  <2>2. PICK ls : ls = lines
    OBVIOUS
  <2>3. PICK sp : sp = split
    OBVIOUS
  <2>4. PICK li : li = list
    OBVIOUS
  <2>5. ls \in Seq(Line) /\ ListFits(li, form.odd) /\ Balanced(ls, li)
    BY <1>3, <2>1, <2>2, <2>3, <2>4, SubmittedFits
  <2>6. QED
    BY <2>2, <2>4, <2>5
<1>5. page' = [page EXCEPT ![u] = new]
  BY <1>1 DEF ToWrite
<1> HIDE DEF lines, list
<1>6. page'[u] = new
  BY <1>5 DEF ShapeInv
<1>7. new.at = "header" /\ new.lines = lines /\ new.list = list /\ new.odd = form.odd
  BY DEF ToWrite
<1>8. PageData(new)
  BY <1>4, <1>7 DEF PageData, Saving
<1>9. QED
  BY <1>6, <1>7, <1>8

\* A save that goes on has still to write what it had.
LEMMA MovesData ==
    ASSUME NEW r, PageShape(r), r.at \in Saving, PageData(r), NEW at \in Saving, NEW s,
           DOMAIN s = DOMAIN r, s.at = at, \A f \in {"lines", "list", "odd"} : s[f] = r[f]
    PROVE  PageData(s)
<1>1. s.lines = r.lines /\ s.list = r.list /\ s.odd = r.odd
  OBVIOUS
<1>2. QED
  BY <1>1 DEF PageData, Saving

\* What a save is to write: lines, and a list of them.
SameWork(r, s) == s.lines = r.lines /\ s.list = r.list /\ s.odd = r.odd /\ s.alone = r.alone

\* The page a save leaves its user.
LEMMA SavingData ==
    ASSUME ShapeInv, DataInv, NEW u \in Users
    PROVE  /\ WriteHeader(u) => PageData(page'[u])
           /\ WriteChildren(u) => PageData(page'[u]) /\ (page'[u].at # "failed" => SameWork(page[u], page'[u]))
           /\ CountLists(u) => PageData(page'[u]) /\ SameWork(page[u], page'[u])
           /\ SaveList(u) => PageData(page'[u])
<1>1. ASSUME page[u].at \in Saving
      PROVE  /\ PageShape(page[u]) /\ PageData(page[u])
             /\ {"at", "id", "alone", "no", "lines", "list", "odd"} \subseteq DOMAIN page[u]
  BY <1>1, OpenPage DEF ShapeInv, DataInv, Ats, PageShape
<1>2. ASSUME NEW s, page[u].at \in Saving, NEW at \in Saving, DOMAIN s = DOMAIN page[u], s.at = at,
             \A f \in {"lines", "list", "odd", "alone"} : s[f] = page[u][f], page'[u] = s
      PROVE  PageData(page'[u]) /\ SameWork(page[u], page'[u])
  BY <1>1, <1>2, MovesData DEF SameWork
<1>3. ASSUME NEW at \in {"done", "failed"}, page'[u] = Ended(at, page[u].id, page[u].alone)
      PROVE  PageData(page'[u]) /\ page'[u].at = at
  BY <1>3 DEF Ended, PageData, Saving
<1>4. ASSUME WriteHeader(u) PROVE PageData(page'[u])
  <2>1. page[u].at \in Saving
    BY <1>4 DEF WriteHeader, Saving
  <2> DEFINE new == [page[u] EXCEPT !.at = "children", !.id = Target(u)]
  <2>2. Leave(u, new)
    BY <1>4 DEF WriteHeader, Target
  <2>3. page'[u] = new
    BY <2>2 DEF Leave
  <2>4. DOMAIN new = DOMAIN page[u] /\ new.at = "children"
        /\ \A f \in {"lines", "list", "odd", "alone"} : new[f] = page[u][f]
    BY <1>1, <2>1
  <2> HIDE DEF new
  <2>5. QED
    BY <1>2, <2>1, <2>3, <2>4 DEF Saving
<1>5. ASSUME WriteChildren(u)
      PROVE  PageData(page'[u]) /\ (page'[u].at # "failed" => SameWork(page[u], page'[u]))
  <2>1. page[u].at \in Saving
    BY <1>5 DEF WriteChildren, Saving
  <2> DEFINE new == [page[u] EXCEPT !.at = "count"]
  <2>2. Leave(u, new) \/ Leave(u, Ended("failed", page[u].id, page[u].alone))
    BY <1>5 DEF WriteChildren
  <2>3. page'[u] = new \/ page'[u] = Ended("failed", page[u].id, page[u].alone)
    BY <2>2 DEF Leave
  <2>4. DOMAIN new = DOMAIN page[u] /\ new.at = "count"
        /\ \A f \in {"lines", "list", "odd", "alone"} : new[f] = page[u][f]
    BY <1>1, <2>1
  <2> HIDE DEF new
  <2>5. QED
    BY <1>2, <1>3, <2>1, <2>3, <2>4 DEF Saving
<1>6. ASSUME CountLists(u)
      PROVE  PageData(page'[u]) /\ SameWork(page[u], page'[u])
  <2>1. page[u].at \in Saving
    BY <1>6 DEF CountLists, Saving
  <2> DEFINE new == [page[u] EXCEPT !.at = "list", !.no = Cardinality(DOMAIN lists) + 1]
  <2>2. page'[u] = new
    BY <1>6 DEF CountLists, ShapeInv
  <2>3. DOMAIN new = DOMAIN page[u] /\ new.at = "list"
        /\ \A f \in {"lines", "list", "odd", "alone"} : new[f] = page[u][f]
    BY <1>1, <2>1
  <2> HIDE DEF new
  <2>4. QED
    BY <1>2, <2>1, <2>2, <2>3 DEF Saving
<1>7. ASSUME SaveList(u) PROVE PageData(page'[u])
  <2>1. PICK at \in {"done", "failed"} : Leave(u, Ended(at, page[u].id, page[u].alone))
    BY <1>7 DEF SaveList
  <2>2. page'[u] = Ended(at, page[u].id, page[u].alone)
    BY <2>1 DEF Leave
  <2>3. QED
    BY <1>3, <2>2
<1>8. QED
  BY <1>4, <1>5, <1>6, <1>7

\* A step leaves its user what fits.
LEMMA OwnData ==
    ASSUME ShapeInv, DataInv, NEW u \in Users, Begin(u) \/ Act(u)
    PROVE  PageData(page'[u])
<1>1. PageData(Closed)
  BY DEF Closed, PageData, Saving
<1>2. ASSUME Leave(u, Closed) PROVE page'[u] = Closed
  BY <1>2 DEF Leave
<1>3. CASE Begin(u)
  <2>1. ASSUME page'[u].at = "slip" PROVE PageData(page'[u])
    BY <2>1 DEF PageData, Saving
  <2>2. QED
    BY <1>1, <1>3, <2>1, OpenedData, LoadFormData, EditFormData
<1>4. CASE SaveLoad(u) \/ UpdateVgmDetails(u)
  BY <1>1, <1>2, <1>4 DEF SaveLoad, UpdateVgmDetails
<1>5. CASE Kill(u)
  BY <1>1, <1>5 DEF Kill, ShapeInv
<1>6. QED
  BY <1>3, <1>4, <1>5, SubmitData, SavingData DEF Act

\* Documents and pages fit one another for good.
LEMMA DataInvStep == ShapeInv /\ DataInv /\ [Next]_vars => DataInv'
<1>1. SUFFICES ASSUME ShapeInv, DataInv, [Next]_vars PROVE DataInv'
  OBVIOUS
<1>2. CASE UNCHANGED vars
  BY <1>1, <1>2 DEF vars, store, DataInv
<1>3. ASSUME NEW u \in Users, Begin(u) \/ Act(u) PROVE DataInv'
  <2>1. TablesFit' /\ PageData(page'[u]) /\ Apart(u)
    BY <1>1, <1>3, TablesStep, OwnData, ApartStep
  <2>2. ASSUME NEW v \in Users \ {u} PROVE PageData(page'[v])
    <3>1. PageShape(page[v]) /\ PageData(page[v])
      BY <1>1 DEF ShapeInv, DataInv
    <3>2. page'[v] = page[v] \/ (page[v] # Closed /\ page'[v] = Left(page[v]))
      BY <2>1 DEF Apart
    <3>3. QED
      BY <3>1, <3>2, LeftHolds
  <2>3. \A v \in Users : PageData(page'[v])
    BY <2>1, <2>2
  <2>4. QED
    BY <2>1, <2>3 DEF TablesFit, DataInv
<1>4. QED
  BY <1>1, <1>2, <1>3 DEF Next

\* So they do when the users come.
LEMMA InitDataInv == Init => DataInv
<1>1. SUFFICES ASSUME Init PROVE DataInv
  OBVIOUS
<1>2. \A l \in DOMAIN loads : l # None /\ LoadFits(loads[l])
  BY <1>1, LoadsThereAre DEF Init
<1>3. DOMAIN invoices = {} /\ DOMAIN lists = {}
  BY <1>1 DEF Init
<1>4. \A u \in Users : PageData(page[u])
  BY <1>1 DEF Init, Closed, PageData, Saving
<1>5. QED
  BY <1>2, <1>3, <1>4 DEF DataInv

\* The documents and the pages always fit.
LEMMA AlwaysData == Spec => []DataInv
BY AlwaysShaped, InitDataInv, DataInvStep, PTL DEF Spec

\* What the user makes of a form that fits, the server and the screen agree on.
LEMMA FormsAgree ==
    ASSUME NEW r, FormFits(r), NEW form \in Changed(r)
    PROVE  Balanced(Named(form.lines), Remapped(form.split, form.lines))
               <=> \A k \in DOMAIN form.lines : form.lines[k].product # None =>
                       BoxesInSplit(form.split, k) = form.lines[k].boxes
<1>1. form.lines \in Seq(AnyLine) /\ SplitFits(form.split, form.lines)
  BY ChangesFit DEF ChangedFits
<1>2. Remaps(form.split, form.lines)
  BY <1>1, RemapFits
<1>3. QED
  BY <1>2 DEF Remaps

\* Whatever the user makes of the form, its lines and containers are the same on
\* the screen, in what is posted and in the packing list, which number them anew.
THEOREM PlacesAgreeThroughout == Spec => []PlacesAgree
<1>1. DataInv => ScreenAgreesWithServer
  BY FormsAgree DEF DataInv, PageData, ScreenAgreesWithServer
<1>2. DataInv => SplitIsAsEntered
  BY DEF DataInv, ListFits, SplitIsAsEntered
<1>3. DataInv => PlacesAgree
  BY <1>1, <1>2 DEF PlacesAgree
<1>4. QED
  BY <1>3, AlwaysData, PTL

-----------------------------------------------------------------------------
(* What a page says of the tables as long as it is alone.                  *)

\* The form a loading planning filled, and the save that wrote its lines.
Agrees(r) ==
    /\ (r.at = "invoice" /\ r.load \in DOMAIN loads) =>
          r.lines = Goods(loads[r.load].lines) /\ r.split = LoadSplit(loads[r.load])
    /\ r.at \in {"count", "list"} => r.id \in DOMAIN invoices /\ invoices[r.id].lines = r.lines
    /\ r.at = "done" => /\ r.id \in DOMAIN invoices
                        /\ Balanced(invoices[r.id].lines, lists[r.id].rows)

AloneInv == \A u \in Users : (page[u] # Closed /\ page[u].alone) => Agrees(page[u])

\* A page of which the tables say nothing.
LEMMA NoTables == ASSUME NEW r, r.at \notin {"invoice", "count", "list", "done"} PROVE Agrees(r)'
BY DEF Agrees

\* The tables stay, and with them what is said of them.
LEMMA SameTables == ASSUME UNCHANGED store, NEW r, Agrees(r) PROVE Agrees(r)'
BY DEF store, Agrees

\* It stays true of a page until another user writes.
LEMMA AloneInvStep == ShapeInv /\ DataInv /\ DataInv' /\ AloneInv /\ [Next]_vars => AloneInv'
<1>1. SUFFICES ASSUME ShapeInv, DataInv, DataInv', AloneInv, [Next]_vars PROVE AloneInv'
  OBVIOUS
<1>2. CASE UNCHANGED vars
  BY <1>1, <1>2 DEF vars, store, AloneInv, Agrees
<1>3. ASSUME NEW u \in Users, Begin(u) \/ Act(u),
             (page'[u] # Closed /\ page'[u].alone) => Agrees(page[u])'
      PROVE  AloneInv'
  <2>1. Apart(u)
    BY <1>1, <1>3, ApartStep
  <2>2. ASSUME NEW v \in Users \ {u}, page'[v] # Closed, page'[v].alone
        PROVE  Agrees(page[v])'
    <3>1. PageShape(page[v])
      BY <1>1 DEF ShapeInv
    <3>2. CASE page'[v] = page[v] /\ UNCHANGED store
      <4>1. Agrees(page[v])
        BY <1>1, <2>2, <3>2 DEF AloneInv
      <4>2. QED
        BY <3>2, <4>1 DEF store, Agrees
    <3>3. CASE page[v] # Closed /\ page'[v] = Left(page[v])
      BY <2>2, <3>1, <3>3, LeftHolds
    <3>4. QED
      BY <2>1, <2>2, <3>2, <3>3 DEF Apart
  <2>3. QED
    BY <1>3, <2>2 DEF AloneInv
<1>4. ASSUME NEW u \in Users, Begin(u) \/ Act(u)
      PROVE  (page'[u] # Closed /\ page'[u].alone) => Agrees(page[u])'
  <2>1. SUFFICES ASSUME page'[u] # Closed, page'[u].alone PROVE Agrees(page[u])'
    OBVIOUS
  <2>2. ASSUME Leave(u, Closed) PROVE page'[u] = Closed
    BY <2>2 DEF Leave
  <2>3. CASE Begin(u)
    <3>1. CASE page'[u].at \in {"slip", "load"}
      BY <3>1 DEF Agrees
    <3>2. ASSUME NEW l \in DOMAIN loads, page'[u] = LoadForm(l), UNCHANGED store
          PROVE  Agrees(page[u])'
      <4>1. /\ page'[u].at = "invoice" /\ page'[u].load = l
            /\ page'[u].lines = Goods(loads[l].lines) /\ page'[u].split = LoadSplit(loads[l])
        BY <3>2 DEF LoadForm
      <4>2. loads' = loads
        BY <3>2 DEF store
      <4>3. QED
        BY <4>1, <4>2 DEF Agrees
    <3>3. ASSUME NEW i \in DOMAIN invoices, page'[u] = EditForm(i), UNCHANGED store
          PROVE  Agrees(page[u])'
      <4>1. page'[u].at = "invoice" /\ page'[u].load = None
        BY <3>3 DEF EditForm
      <4>2. None \notin DOMAIN loads'
        BY <1>1 DEF DataInv
      <4>3. QED
        BY <4>1, <4>2 DEF Agrees
    <3>4. QED
      BY <1>1, <2>1, <2>3, <3>1, <3>2, <3>3, OpenedData
  <2>4. CASE SaveLoad(u) \/ UpdateVgmDetails(u)
    BY <2>1, <2>2, <2>4 DEF SaveLoad, UpdateVgmDetails
  <2>5. CASE Kill(u)
    BY <1>1, <2>1, <2>5 DEF Kill, ShapeInv
  <2>6. CASE Submit(u)
    <3>1. page'[u].at = "header"
      BY <1>1, <2>6, SubmitData
    <3>2. QED
      BY <3>1 DEF Agrees
  <2>7. CASE WriteHeader(u)
    <3>1. page'[u].at = "children"
      BY <1>1, <2>7, SavingStep DEF GoesOn
    <3>2. QED
      BY <3>1 DEF Agrees
  <2>8. CASE WriteChildren(u)
    <3>1. CASE page[u].id \in DOMAIN invoices
      <4>1. GoesOn(page[u], page'[u], "count") /\ page'[u].id = page[u].id
        BY <1>1, <2>8, <3>1, SavingStep
      <4>2. page'[u].at = "count" /\ page'[u].lines = page[u].lines
        BY <1>1, <2>8, <4>1, SavingData DEF GoesOn, SameWork
      <4> DEFINE i == page[u].id
      <4>3. invoices' = [invoices EXCEPT ![i].lines = page[u].lines, ![i].rows = page[u].rows]
        BY <2>8, <3>1 DEF WriteChildren
      <4>4. InvoiceShape(invoices[i])
        BY <1>1, <3>1 DEF ShapeInv
      <4>5. i \in DOMAIN invoices
        BY <3>1
      <4> HIDE DEF i
      <4>6. i \in DOMAIN invoices' /\ invoices'[i].lines = page[u].lines
        BY <4>3, <4>4, <4>5 DEF InvoiceShape
      <4>7. QED
        BY <4>1, <4>2, <4>6 DEF Agrees, i
    <3>2. CASE page[u].id \notin DOMAIN invoices
      <4>1. page'[u] = Ended("failed", page[u].id, page[u].alone)
        BY <1>1, <2>8, <3>2, SavingStep
      <4>2. page'[u].at = "failed"
        BY <4>1 DEF Ended
      <4>3. QED
        BY <4>2 DEF Agrees
    <3>3. QED
      BY <3>1, <3>2
  <2>9. CASE CountLists(u)
    <3>1. page'[u].at = "list" /\ page'[u].id = page[u].id /\ SameWork(page[u], page'[u])
      BY <1>1, <2>9, SavingStep, SavingData DEF GoesOn
    <3>2. page[u].at = "count" /\ page[u] # Closed /\ invoices' = invoices
      BY <2>9, ClosedAt DEF CountLists, store
    <3>3. page[u].alone /\ page'[u].lines = page[u].lines
      BY <2>1, <3>1 DEF SameWork
    <3>4. Agrees(page[u])
      BY <1>1, <3>2, <3>3 DEF AloneInv
    <3>5. QED
      BY <3>1, <3>2, <3>3, <3>4 DEF Agrees
  <2>10. CASE SaveList(u)
    <3> DEFINE i == page[u].id
               no == ListNumber(i, page[u].no)
               new == [no |-> no, rows |-> page[u].list, odd |-> page[u].odd]
    <3>1. CASE i \in DOMAIN invoices /\ ~NumberTaken(i, no)
      <4>1. lists' = Put(lists, i, new) /\ Leave(u, Ended("done", i, page[u].alone)) /\ invoices' = invoices
        BY <2>10, <3>1 DEF SaveList
      <4>2. page'[u] = Ended("done", i, page[u].alone)
        BY <4>1 DEF Leave
      <4>3. page'[u].at = "done" /\ page'[u].id = i /\ page[u].alone
        BY <2>1, <4>2 DEF Ended
      <4>4. page[u].at = "list" /\ page[u] # Closed
        BY <2>10, ClosedAt DEF SaveList
      <4>5. Agrees(page[u]) /\ PageData(page[u])
        BY <1>1, <4>3, <4>4 DEF AloneInv, DataInv
      <4>6. i \in DOMAIN invoices /\ invoices[i].lines = page[u].lines /\ Balanced(page[u].lines, page[u].list)
        BY <4>4, <4>5 DEF Agrees, PageData, Saving
      <4>7. new.rows = page[u].list
        OBVIOUS
      <4> HIDE DEF i, new
      <4>8. lists'[i] = new
        BY <4>1 DEF Put
      <4>9. QED
        BY <4>1, <4>3, <4>6, <4>7, <4>8 DEF Agrees
    <3>2. CASE ~(i \in DOMAIN invoices /\ ~NumberTaken(i, no))
      <4>1. Leave(u, Ended("failed", i, page[u].alone))
        BY <2>10, <3>2 DEF SaveList
      <4>2. page'[u] = Ended("failed", i, page[u].alone)
        BY <4>1 DEF Leave
      <4>3. page'[u].at = "failed"
        BY <4>2 DEF Ended
      <4>4. QED
        BY <4>3 DEF Agrees
    <3>3. QED
      BY <3>1, <3>2
  <2>11. QED
    BY <1>4, <2>3, <2>4, <2>5, <2>6, <2>7, <2>8, <2>9, <2>10 DEF Act
<1>5. QED
  BY <1>1, <1>2, <1>3, <1>4 DEF Next

\* Nobody has a page open at first.
LEMMA InitAloneInv == Init => AloneInv
BY DEF Init, AloneInv

\* What an unalone page no longer says, one that is alone always does.
LEMMA AlwaysAlone == Spec => []AloneInv
BY AlwaysShaped, AlwaysData, InitAloneInv, AloneInvStep, PTL DEF Spec

\* A loading planning that fits balances, and its packings are of its lines.
LEMMA LoadsHold ==
    ASSUME NEW load, LoadFits(load)
    PROVE  /\ \A n \in DOMAIN load.packings :
                 /\ load.packings[n].at \in 0..Len(load.rows)
                 /\ \A k \in DOMAIN load.packings[n].contents :
                       load.packings[n].contents[k].sr \in DOMAIN load.lines
           /\ \A sr \in DOMAIN load.lines : load.lines[sr].boxes =
                 BoxesPacked([n \in DOMAIN load.packings |-> load.packings[n].contents], {sr})
<1>1. load.packings \in Seq(Packing)
  BY DEF LoadFits
<1>2. \A srs : BoxesPacked([n \in DOMAIN load.packings |-> load.packings[n].contents], srs)
                   = Tally(Holding(srs), load.packings)
  BY <1>1, ContentsHeld
<1>3. QED
  BY <1>2 DEF LoadFits

\* What auto-assigning fills of its packings.
LEMMA LoadsAssign ==
    ASSUME NEW load, LoadFits(load), NEW rows \in Bookings, NEW packings, packings = load.packings,
           NEW at, at = AutoAssigned(packings, rows), NEW k \in DOMAIN rows, Limit[rows[k]] > 0
    PROVE  /\ \/ Vgm(rows, packings, at, k) <= Limit[rows[k]]
              \/ \A n \in DOMAIN at : at[n] # k
           /\ \A n \in DOMAIN at : at[n] = None =>
                  Vgm(rows, packings, at, k) + Gross(packings[n]) > Limit[rows[k]]
<1>1. packings \in Seq(Packing) /\ rows \in Rowed
  BY BookingsRowed DEF LoadFits
<1>2. Fitting(packings, rows, at, Len(packings))
  BY <1>1, AutoFits
<1>3. QED
  BY <1>2 DEF Fitting

\* The boxes of a loading planning, whichever packing plannings it merged, stand
\* in its packings, fill no container above its limit, and fill an invoice form
\* that can be submitted just when every packing went out.
THEOREM LoadsStaySound == Spec => []LoadsAreSound
<1>1. DataInv => LoadsFit /\ LoadsBalance
  BY LoadsHold DEF DataInv, LoadsFit, LoadsBalance
<1>2. DataInv => AutoAssignFits
  BY LoadsAssign DEF DataInv, AutoAssignFits
<1>3. DataInv /\ AloneInv => FullLoadIsAccepted
  <2>1. SUFFICES ASSUME DataInv, AloneInv, NEW u \in Users,
                        page[u].at = "invoice", page[u].load \in DOMAIN loads, page[u].alone
                 PROVE  Balanced(page[u].lines, page[u].split) <=>
                            LET load == loads[page[u].load] IN
                            \A n \in DOMAIN load.packings : BoxesIn(load.packings[n].contents) > 0 =>
                                load.packings[n].at # None /\ load.rows[load.packings[n].at] # None
    BY DEF FullLoadIsAccepted
  <2>2. PICK load : load = loads[page[u].load]
    OBVIOUS
  <2>3. LoadFits(load)
    BY <2>1, <2>2 DEF DataInv
  <2>4. page[u].lines = Goods(load.lines) /\ page[u].split = LoadSplit(load)
    BY <2>1, <2>2, ClosedAt DEF AloneInv, Agrees, Ats
  <2>5. Balanced(Goods(load.lines), LoadSplit(load)) <=>
            \A n \in DOMAIN load.packings : BoxesIn(load.packings[n].contents) > 0 =>
                load.packings[n].at # None /\ load.rows[load.packings[n].at] # None
    BY <2>3, FullLoads
  <2>6. QED
    BY <2>2, <2>4, <2>5
<1>4. ShapeInv => InvoicesFit
  BY DEF ShapeInv
<1>5. ShapeInv /\ DataInv /\ AloneInv => LoadsAreSound
  BY <1>1, <1>2, <1>3, <1>4 DEF LoadsAreSound, TypeOK
<1>6. QED
  BY <1>5, AlwaysShaped, AlwaysData, AlwaysAlone, PTL

\* After a save that no other came between, the packing list is of exactly the
\* boxes of the invoice that was saved, and the slips stay with their containers.
THEOREM SavesStaySound == Spec => []SavesAreSound
<1>1. AloneInv => LoneSaveIsListed
  BY ClosedAt DEF AloneInv, Agrees, LoneSaveIsListed, Ats
<1>2. AloneInv /\ LoneSaveSucceeds /\ SlipsStay => SavesAreSound
  BY <1>1 DEF SavesAreSound
<1>3. QED
  BY <1>2, AlwaysAlone, LoneSavesSucceed, SlipsStayWithTheirContainers, PTL
=================================================================================
