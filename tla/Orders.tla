--------------------------------- MODULE Orders ---------------------------------
(***************************************************************************)
(* What is still to be ordered and to be invoiced.  A proforma invoice is  *)
(* split over several purchase orders, each prefilled with what the others *)
(* left; an order, or the Products card of a job work, is split over       *)
(* purchase invoices in the same way; and the production of an order hangs *)
(* on line ids that every save of the order replaces.                      *)
(*                                                                         *)
(* A form is filled from what was stored when it was opened and submitted  *)
(* later, while other users order, invoice, edit and delete.  A save is    *)
(* one step except where its own reads and its write matter: the lines of  *)
(* an edited order and the production of a line.  That any save may also   *)
(* be torn between its tables is the subject of Documents.                 *)
(***************************************************************************)
EXTENDS Rows, SequencesExt, Functions

CONSTANTS
    Users,
    Designs,        \* designs a packing list may break a product into
    Proformas,      \* lines the proforma invoice may have
    Cards,          \* lines a job work's Products card may have
    AltQuantity,    \* product -> its alternate quantity: how much is in a box
    Names,          \* names a product may go by; alphabetical
    MaxPages        \* bound on the pages opened

None == 0           \* SQL NULL; the design of a line with no breakdown

\* A line counts boxes, or a bare quantity when it states none; `name` is what its
\* product was called when it was picked; `ref` is its own id in an order, its
\* source order in an invoice.
Lines == [product : DOMAIN AltQuantity, name : Names, unit : {"box", "quantity"},
          n : Nat \ {0}, ref : Nat]

ASSUME DesignsAssumption == IsFiniteSet(Designs) /\ None \notin Designs
ASSUME AltQuantityAssumption == AltQuantity \in [DOMAIN AltQuantity -> Nat] /\ Names \subseteq Nat
ASSUME FormsAssumption == Proformas \union Cards \subseteq Seq(Lines) \ {<<>>}

VARIABLES
    proforma,   \* the lines of the proforma invoice
    packing,    \* the designs its packing list names for a product
    orders,     \* id -> purchase order or job work, with its lines
    invoices,   \* id -> purchase invoice, with its lines
    production, \* purchase_order_item_production, each row with its batches
    nextId,     \* AUTOINCREMENT
    page,       \* what each user has open, or is saving
    opened,     \* pages opened
    shuffled    \* an edit took a product from its line number

store == <<proforma, packing, orders, invoices, production, nextId>>
vars == <<store, page, opened, shuffled>>

-----------------------------------------------------------------------------
(* What the lines add up to.                                               *)

Line(p, m, unit, n) == [product |-> p, name |-> m, unit |-> unit, n |-> n, ref |-> None]
InUnit(unit, line) ==
    CASE line.unit = unit                    -> line.n
      [] line.unit = "box" /\ unit = "quantity" -> line.n * AltQuantity[line.product]
      [] OTHER                               -> 0
Worth(line, p, unit) == IF line.product = p THEN InUnit(unit, line) ELSE 0
Sum(lines, p, unit) == SumFunction([k \in DOMAIN lines |-> Worth(lines[k], p, unit)])
SumAs(lines, p, m, unit) ==
    SumFunction([k \in DOMAIN lines |-> IF lines[k].name = m THEN Worth(lines[k], p, unit) ELSE 0])

\* The totals of the lines of several documents, by product id and name, in a
\* dict by _product_key, which is the id: of the groups of a product the one with
\* the last name is what stays.
NamesOf(docs, p) ==
    {m \in Names : \E d \in DOMAIN docs : \E k \in DOMAIN docs[d] :
                       docs[d][k].product = p /\ docs[d][k].name = m}
Recorded(docs, p, unit) ==
    LET names == NamesOf(docs, p)
    IN  IF names = {} THEN 0
        ELSE SumFunction([d \in DOMAIN docs |-> SumAs(docs[d], p, Max(names), unit)])

\* What each line still lacks, `done` being what its product is covered for.
Outstanding(line, done) == line.n - done
\* A line at the share that the line `by` still lacks, rounded to a whole.
\* Deviation: a line with anything outstanding is offered whole.
CutDown_Whole(line, by, done) == line
CutDown(line, by, done) == [line EXCEPT !.n = (line.n * Outstanding(by, done)) \div by.n]

-----------------------------------------------------------------------------
(* What is placed of the proforma invoice, what is invoiced of an order.   *)

Purchases == {o \in DOMAIN orders : orders[o].kind = "order"}

\* product_totals_for_proforma: every purchase order linked to the invoice.
OrderedLines == [o \in Purchases |-> orders[o].lines]
Placed(p, unit) == Recorded(OrderedLines, p, unit)

\* invoiced_totals_for_purchase_order, invoiced_totals_for_job_work: the lines
\* tagged with the order, but for an invoice that is being edited.
Tagged(lines, o) == [k \in {j \in DOMAIN lines : lines[j].ref = o} |-> lines[k]]
InvoicedLines(o, except) ==
    [i \in DOMAIN invoices \ {except} |-> Tagged(invoices[i].lines, o)]
Invoiced(o, p, unit, except) == Recorded(InvoicedLines(o, except), p, unit)

\* product_status: the lines of the proforma still pending, by their places.
\* Deviation: a line that is placed in part is not offered again.
Pending_Untouched ==
    {k \in DOMAIN proforma : Placed(proforma[k].product, proforma[k].unit) = 0}
Pending ==
    {k \in DOMAIN proforma :
        LET l == proforma[k] IN Outstanding(l, Placed(l.product, l.unit)) > 0}
PendingOf(p) == {k \in Pending : proforma[k].product = p}

\* What an order form is filled with: pending lines are looked up by product, so
\* that every line of a product comes at the share its last pending line lacks.
RemainingProducts ==
    LET offered == At(proforma, {k \in DOMAIN proforma : PendingOf(proforma[k].product) # {}})
        row(l) == LET by == proforma[Max(PendingOf(l.product))]
                  IN  CutDown(l, by, Placed(by.product, by.unit))
    IN  [i \in DOMAIN offered |-> row(offered[i])]

\* Is the order offered under "Start from"?
\* Deviation: the invoice that is being edited counts as well.
HasOutstanding_CountsItself(o, except) ==
    \E i \in DOMAIN orders[o].lines :
        LET l == orders[o].lines[i] IN Outstanding(l, Invoiced(o, l.product, l.unit, None)) > 0
HasOutstanding(o, except) ==
    \E i \in DOMAIN orders[o].lines :
        LET l == orders[o].lines[i] IN Outstanding(l, Invoiced(o, l.product, l.unit, except)) > 0

\* What an invoice form is filled with for an order: the rest, tagged with it.
RemainingItems(o) ==
    LET done(l) == Invoiced(o, l.product, l.unit, None)
        left == At(orders[o].lines, {k \in DOMAIN orders[o].lines :
                                        LET l == orders[o].lines[k] IN Outstanding(l, done(l)) > 0})
    IN  [i \in DOMAIN left |-> [CutDown(left[i], left[i], done(left[i])) EXCEPT !.ref = o]]

-----------------------------------------------------------------------------
(* Pages.  `fresh`: nothing was written since the page was filled.         *)

Closed == [at |-> "closed"]
Fill(u, content) ==
    /\ page[u] = Closed /\ opened < MaxPages
    /\ page' = [page EXCEPT ![u] = content]
    /\ opened' = opened + 1
    /\ UNCHANGED <<store, shuffled>>
\* The user writes: the pages of the others are of an older state.
Leave(u, next) ==
    page' = [v \in Users |-> IF v = u THEN next
                             ELSE IF "fresh" \in DOMAIN page[v] THEN [page[v] EXCEPT !.fresh = FALSE]
                             ELSE page[v]]

Put(f, x, y) == [z \in DOMAIN f \union {x} |-> IF z = x THEN y ELSE f[z]]
Drop(f, x) == [z \in DOMAIN f \ {x} |-> f[z]]

\* Deviation: a form with no row left is saved.
Rows_Empty(lines) ==
    {ls \in {lines, Tail(lines)} : \A i \in DOMAIN ls : ls[i].n > 0}
\* A row lowered, or its product picked anew, under the name it has by then.
Changed(row) == {[row EXCEPT !.n = row.n - 1]} \union {[row EXCEPT !.name = m] : m \in Names}
\* What a user may make of the rows of a form: keep them, take the first one
\* off or put it last, or change it.  A form with no row left is refused.
Rows(lines) ==
    LET first == Head(lines)
    IN  {ls \in {lines, Tail(lines), Append(Tail(lines), first)}
                 \union {<<row>> \o Tail(lines) : row \in Changed(first)} :
            ls # <<>> /\ \A i \in DOMAIN ls : ls[i].n > 0}

\* Rows inserted as lines of their own; sr_no is the place in the form.
Inserted(lines, id) == [sr \in DOMAIN lines |-> [lines[sr] EXCEPT !.ref = id + sr]]

-----------------------------------------------------------------------------
(* Purchase orders and job works.                                          *)

\* GET new: the form comes with what the other orders left.
OpenOrder(u) ==
    /\ RemainingProducts # <<>>
    /\ Fill(u, [at |-> "order", lines |-> RemainingProducts, fresh |-> TRUE])

PlaceOrder(u) ==
    /\ page[u].at = "order"
    /\ \E lines \in Rows(page[u].lines) :
          /\ orders' = Put(orders, nextId, [kind |-> "order", lines |-> Inserted(lines, nextId)])
          /\ nextId' = nextId + Len(lines) + 1
    /\ Leave(u, Closed)
    /\ UNCHANGED <<proforma, packing, invoices, production, opened, shuffled>>

\* A job work's Products card is typed.
PlaceJobWork(u) ==
    /\ page[u] = Closed /\ opened < MaxPages
    /\ \E lines \in Cards :
          /\ orders' = Put(orders, nextId, [kind |-> "jobwork", lines |-> Inserted(lines, nextId)])
          /\ nextId' = nextId + Len(lines) + 1
    /\ opened' = opened + 1
    /\ Leave(u, Closed)
    /\ UNCHANGED <<proforma, packing, invoices, production, shuffled>>

OpenEdit(u, o) ==
    Fill(u, [at |-> "edit", order |-> o, lines |-> orders[o].lines, fresh |-> TRUE])

\* POST edit: the order is looked up, then _replace_items reads what hangs on
\* its lines, by their numbers, ahead of the transaction that replaces them.
OnOrder(rows, o) == {r \in rows : \E sr \in DOMAIN orders[o].lines : orders[o].lines[sr].ref = r.item}
NumberOf(o, item) == CHOOSE sr \in DOMAIN orders[o].lines : orders[o].lines[sr].ref = item
\* Deviation: the batches are left behind.
Lifted_NoBatches(o) ==
    {[r EXCEPT !.item = NumberOf(o, r.item), !.batches = 0] : r \in OnOrder(production, o)}
Lifted(o) == {[r EXCEPT !.item = NumberOf(o, r.item)] : r \in OnOrder(production, o)}

LiftProduction(u) ==
    /\ page[u].at = "edit"
    /\ LET o == page[u].order
       IN  IF o \notin DOMAIN orders THEN page' = [page EXCEPT ![u] = Closed]
           ELSE \E lines \in Rows(page[u].lines) :
                    page' = [page EXCEPT ![u] = [at |-> "rewrite", order |-> o, lines |-> lines,
                                                 lifted |-> Lifted(o), fresh |-> TRUE]]
    /\ UNCHANGED <<store, opened, shuffled>>

\* The transaction: the old lines go, and what hangs on them with them; the new
\* ones get what was lifted from a line of the same number.
\* Deviation: the rows of a line go to the next one.
Repointed_NextLine(lifted, lines, id) ==
    {[row EXCEPT !.item = id + row.item + 1] : row \in {r \in lifted : r.item + 1 \in DOMAIN lines}}
Repointed(lifted, lines, id) ==
    {[row EXCEPT !.item = id + row.item] : row \in {r \in lifted : r.item \in DOMAIN lines}}

RewriteLines(u) ==
    /\ page[u].at = "rewrite"
    /\ LET o == page[u].order
           lines == page[u].lines
       IN  IF o \notin DOMAIN orders
           THEN UNCHANGED <<store, shuffled>>      \* its lines have no order: refused
           ELSE /\ orders' = [orders EXCEPT ![o].lines = Inserted(lines, nextId)]
                /\ production' = (production \ OnOrder(production, o))
                                     \union Repointed(page[u].lifted, lines, nextId)
                /\ nextId' = nextId + Len(lines) + 1
                /\ shuffled' = (shuffled \/ \E sr \in DOMAIN orders[o].lines :
                        sr \in DOMAIN lines => lines[sr].product # orders[o].lines[sr].product)
                /\ UNCHANGED <<proforma, packing, invoices>>
    /\ Leave(u, Closed)
    /\ UNCHANGED opened

\* The purchase invoices whose first purchase order, or first job work, it is go
\* with it; in the others its tag and its link are gone.
DeleteOrder(u, o) ==
    /\ page[u] = Closed /\ opened < MaxPages
    /\ orders' = Drop(orders, o)
    /\ production' = production \ OnOrder(production, o)
    /\ LET kept == {i \in DOMAIN invoices : o \notin invoices[i].primary}
           untag(l) == IF l.ref = o THEN [l EXCEPT !.ref = None] ELSE l
       IN  invoices' = [i \in kept |->
                           [invoices[i] EXCEPT !.lines = [k \in DOMAIN invoices[i].lines |->
                                                             untag(invoices[i].lines[k])],
                                               !.covers = @ \ {o}]]
    /\ opened' = opened + 1
    /\ Leave(u, Closed)
    /\ UNCHANGED <<proforma, packing, nextId, shuffled>>

-----------------------------------------------------------------------------
(* Purchase invoices.                                                      *)

\* GET new with the orders that were picked among those offered, or GET edit.
OpenInvoice(u, os) ==
    /\ os # {} /\ \A o \in os : HasOutstanding(o, None)
    /\ LET picked == SetToSeq(os)
       IN  Fill(u, [at |-> "invoice", id |-> None, covers |-> picked, fresh |-> TRUE,
                    lines |-> FlattenSeq([k \in DOMAIN picked |-> RemainingItems(picked[k])])])
OpenInvoiceEdit(u, i) ==
    /\ invoices[i].lines # <<>>
    /\ Fill(u, [at |-> "invoice", id |-> i, covers |-> SetToSeq(invoices[i].covers),
                lines |-> invoices[i].lines, fresh |-> TRUE])

\* _build_header: the orders that still exist are linked.
\* Deviation: only the primary order is linked.
Linked_Primary(covers) == At(covers, {k \in DOMAIN covers \cap {1} : covers[k] \in DOMAIN orders})
Linked(covers) == At(covers, {k \in DOMAIN covers : covers[k] \in DOMAIN orders})

\* purchase_order_id and job_work_id: the first linked of its kind.
Firsts(links) ==
    {links[k] : k \in {j \in DOMAIN links :
                          \A i \in 1..(j - 1) : orders[links[i]].kind # orders[links[j]].kind}}

\* The header is saved first: a row tagged with an order that is gone by then
\* is refused by the foreign key, which leaves the lines and links as they were.
Invoice(u, lines) ==
    LET links == Linked(page[u].covers)
        before == IF page[u].id = None THEN [lines |-> <<>>, covers |-> {}] ELSE invoices[page[u].id]
        whole == \A k \in DOMAIN lines : lines[k].ref \in DOMAIN orders \union {None}
    IN  [primary |-> Firsts(links),
         covers |-> IF whole THEN Range(links) ELSE before.covers,
         lines |-> IF whole THEN lines ELSE before.lines]

SaveInvoice(u) ==
    /\ page[u].at = "invoice"
    /\ IF page[u].id \in DOMAIN invoices \union {None}
       THEN \E lines \in Rows(page[u].lines) :
               /\ invoices' = Put(invoices, IF page[u].id = None THEN nextId ELSE page[u].id,
                                  Invoice(u, lines))
               /\ nextId' = nextId + 1
       ELSE UNCHANGED <<invoices, nextId>>      \* 404
    /\ Leave(u, Closed)
    /\ UNCHANGED <<proforma, packing, orders, production, opened, shuffled>>

DeleteInvoice(u, i) ==
    /\ page[u] = Closed /\ opened < MaxPages
    /\ invoices' = Drop(invoices, i)
    /\ opened' = opened + 1
    /\ Leave(u, Closed)
    /\ UNCHANGED <<proforma, packing, orders, production, nextId, shuffled>>

-----------------------------------------------------------------------------
(* Production.  The page of an order has a row for each design the         *)
(* proforma's packing list names for a line's product, or one for the      *)
(* line; `of` is the product the row was reported for.                     *)

DesignsOf(p) == IF packing[p] = {} THEN {None} ELSE packing[p]
OpenBoard(u, o, sr, d) ==
    /\ orders[o].kind = "order" /\ d \in DesignsOf(orders[o].lines[sr].product)
    /\ \E status \in {"pending", "ready"}, batches \in 0..1 :
          Fill(u, [at |-> "board", order |-> o, batches |-> batches, status |-> status,
                   item |-> orders[o].lines[sr].ref, of |-> orders[o].lines[sr].product,
                   design |-> d])

\* save_row: the line must be one of the order's.
CheckLine(u) ==
    /\ page[u].at = "board"
    /\ LET o == page[u].order
           known == o \in DOMAIN orders /\ \E sr \in DOMAIN orders[o].lines :
                                              orders[o].lines[sr].ref = page[u].item
       IN  page' = [page EXCEPT ![u] = IF known THEN [page[u] EXCEPT !.at = "look"] ELSE Closed]
    /\ UNCHANGED <<store, opened, shuffled>>

RowOf(u) == {r \in production : r.item = page[u].item /\ r.design = page[u].design}

\* save_for_design reads whether there is a row, ahead of its transaction.
LookForRow(u) ==
    /\ page[u].at = "look"
    /\ page' = [page EXCEPT ![u].at = IF RowOf(u) = {} THEN "insert" ELSE "update"]
    /\ UNCHANGED <<store, opened, shuffled>>

\* The transaction.  An insert is refused when the line is gone, or by the
\* unique index when another user has inserted the row; an update of a row
\* that is gone does nothing, but batches without a line are refused.
\* Deviation: no unique index.
MayInsert_Twice(u) == \E o \in DOMAIN orders : \E sr \in DOMAIN orders[o].lines :
                          orders[o].lines[sr].ref = page[u].item
MayInsert(u) ==
    /\ \E o \in DOMAIN orders : \E sr \in DOMAIN orders[o].lines :
          orders[o].lines[sr].ref = page[u].item
    /\ RowOf(u) = {}

SaveProduction(u) ==
    /\ page[u].at \in {"insert", "update"}
    /\ LET row == [item |-> page[u].item, design |-> page[u].design, of |-> page[u].of,
                   status |-> page[u].status, batches |-> page[u].batches, by |-> u]
       IN  production' = CASE page[u].at = "insert" /\ MayInsert(u) -> production \union {row}
                           [] page[u].at = "update" /\ RowOf(u) # {} ->
                                  (production \ RowOf(u)) \union {row}
                           [] OTHER -> production
    /\ Leave(u, Closed)
    /\ UNCHANGED <<proforma, packing, orders, invoices, nextId, opened, shuffled>>

\* The packing list of the proforma invoice is edited.
Repack(u, p, ds) ==
    /\ page[u] = Closed /\ opened < MaxPages /\ ds # packing[p]
    /\ packing' = [packing EXCEPT ![p] = ds]
    /\ opened' = opened + 1
    /\ Leave(u, Closed)
    /\ UNCHANGED <<proforma, orders, invoices, production, nextId, shuffled>>

\* summary_map_for_company: {'ready': n, 'total': n} of an order.
RowsOn(o) == OnOrder(production, o)
Ready(o) == Cardinality({r \in RowsOn(o) : r.status = "ready"})
\* Deviation: the total is of the rows the page has.
Total_AsLaidOut(o) ==
    LET named == {row \in (DOMAIN orders[o].lines) \X Designs :
                     row[2] \in packing[orders[o].lines[row[1]].product]}
    IN  IF named = {} THEN Len(orders[o].lines) ELSE Cardinality(named)
Total(o) ==
    LET named == {row \in (DOMAIN orders[o].lines) \X Designs :
                     row[2] \in packing[orders[o].lines[row[1]].product]}
        laidOut == IF named = {} THEN Len(orders[o].lines) ELSE Cardinality(named)
    IN  IF laidOut < Cardinality(RowsOn(o)) THEN Cardinality(RowsOn(o)) ELSE laidOut

-----------------------------------------------------------------------------
Init ==
    /\ proforma \in Proformas
    /\ packing \in [DOMAIN AltQuantity -> {{}, Designs}]
    /\ orders = <<>> /\ invoices = <<>>
    /\ production = {}
    /\ nextId = 1 /\ opened = 0 /\ shuffled = FALSE
    /\ page = [u \in Users |-> Closed]

Act(u) ==
    \/ PlaceOrder(u) \/ LiftProduction(u) \/ RewriteLines(u) \/ SaveInvoice(u)
    \/ CheckLine(u) \/ LookForRow(u) \/ SaveProduction(u)

Visit(u) ==
    /\ page[u] = Closed /\ opened < MaxPages
    /\ \/ OpenOrder(u)
       \/ PlaceJobWork(u)
       \/ \E o \in DOMAIN orders :
             \/ OpenEdit(u, o)
             \/ DeleteOrder(u, o)
             \/ \E sr \in DOMAIN orders[o].lines, d \in Designs \union {None} : OpenBoard(u, o, sr, d)
       \/ \E os \in SUBSET DOMAIN orders : OpenInvoice(u, os)
       \/ \E i \in DOMAIN invoices : OpenInvoiceEdit(u, i) \/ DeleteInvoice(u, i)
       \/ \E p \in DOMAIN AltQuantity, ds \in {{}, Designs} : Repack(u, p, ds)

Next == \E u \in Users : Visit(u) \/ Act(u)
Spec == Init /\ [][Next]_vars

-----------------------------------------------------------------------------
(* Properties.                                                             *)

\* Every row has the shape of its table; what a refused save leaves has too.
TypeOK ==
    /\ \A o \in DOMAIN orders : /\ orders[o].kind \in {"order", "jobwork"}
                                /\ orders[o].lines # <<>>
                                /\ \A k \in DOMAIN orders[o].lines : orders[o].lines[k] \in Lines
    /\ \A i \in DOMAIN invoices : /\ invoices[i].primary \subseteq DOMAIN orders
                                  /\ invoices[i].covers \subseteq DOMAIN orders
                                  /\ \A k \in DOMAIN invoices[i].lines : invoices[i].lines[k] \in Lines
    /\ \A r \in production : \E o \in Purchases : r \in OnOrder(production, o)

Single(lines, p) == Cardinality({k \in DOMAIN lines : lines[k].product = p}) = 1

\* What the lines really come to, by whatever name, and that there is one name.
InAll(docs, p, unit) == SumFunction([d \in DOMAIN docs |-> Sum(docs[d], p, unit)])
OneName(docs, p) == \A m, n \in NamesOf(docs, p) : m = n

\* A form nothing was written behind offers, of a product that stands on one line,
\* never less than what is not ordered (or invoiced) yet, so that no goods are
\* forgotten however often the rest was ordered, lowered, renamed or deleted; and
\* no more, if the lines that are to count bear one name for the product: of a
\* product under two, only one is counted
\* (PurchaseOrderService._remaining_products, PurchaseInvoiceService._remaining_items).
OffersTheRest(l, form, docs) ==
    LET done == InAll(docs, l.product, l.unit)
        rest == IF done < l.n THEN l.n - done ELSE 0
        offered == Sum(form, l.product, l.unit)
    IN  rest <= offered /\ (OneName(docs, l.product) => offered = rest)
FreshFormsHoldTheRest ==
    \A u \in Users :
        /\ page[u].at = "order" /\ page[u].fresh =>
               \A k \in DOMAIN proforma :
                   Single(proforma, proforma[k].product) =>
                       OffersTheRest(proforma[k], page[u].lines, OrderedLines)
        /\ page[u].at = "invoice" /\ page[u].fresh /\ page[u].id = None =>
               \A o \in Range(page[u].covers) : \A k \in DOMAIN orders[o].lines :
                   LET l == orders[o].lines[k] IN
                   Single(orders[o].lines, l.product) =>
                       OffersTheRest(l, Tagged(page[u].lines, o), InvoicedLines(o, None))

\* Submitting such a form never orders more than the proforma invoice asks for,
\* nor invoices more than was ordered, of any product whose lines, however many,
\* are counted in one unit, and whose ordered (or invoiced) lines bear one name.
Greater(a, b) == IF a < b THEN b ELSE a
OneUnit(lines, l) == \A k \in DOMAIN lines : lines[k].product = l.product => lines[k].unit = l.unit
StaysWithin(lines, l, before, after) ==
    OneUnit(lines, l) /\ OneName(before, l.product) =>
        InAll(after, l.product, l.unit)
            <= Greater(InAll(before, l.product, l.unit), Sum(lines, l.product, l.unit))
FreshFormsFit ==
    [][\A u \in Users :
          /\ PlaceOrder(u) /\ page[u].fresh =>
                 \A k \in DOMAIN proforma :
                     StaysWithin(proforma, proforma[k], OrderedLines, OrderedLines')
          /\ SaveInvoice(u) /\ page[u].fresh /\ page[u].id = None =>
                 \A o \in DOMAIN orders : \A k \in DOMAIN orders[o].lines :
                     StaysWithin(orders[o].lines, orders[o].lines[k],
                                 InvoicedLines(o, None), InvoicedLines(o, None)')]_vars

\* The page of an invoice that alone covers an order offers that order again,
\* though nothing of it is outstanding (list_all_outstanding's exclusion).
EditOffersItsOrders ==
    \A i \in DOMAIN invoices : \A o \in invoices[i].covers :
        (\A j \in DOMAIN invoices \ {i} : o \notin invoices[j].covers) => HasOutstanding(o, i)

\* A page that is opened offers everything there is still to order or to
\* invoice and, as far as that is told by name, no more; and the page of an invoice
\* offers the orders it is for.
PagesOfferTheRest ==
    /\ TypeOK
    /\ FreshFormsHoldTheRest
    /\ EditOffersItsOrders

\* What counts as invoiced goes by the tags of the lines, what the pages of an
\* order list goes by the link table: no line is tagged with an unlinked order.
TagsAreLinked ==
    \A i \in DOMAIN invoices : \A k \in DOMAIN invoices[i].lines :
        invoices[i].lines[k].ref \in invoices[i].covers \union {None}

\* Production stays with the product it was reported for as long as no edit
\* moves a product to another line number, whatever saves come in between.
ProductionOfItsProduct ==
    ~shuffled => \A o \in Purchases : \A r \in OnOrder(production, o) :
                     orders[o].lines[NumberOf(o, r.item)].product = r.of

\* Saving an order again keeps the production and the batches of every line
\* number that is still there, unless someone writes while it is being saved.
LoneResaveKeepsProduction ==
    [][\A u \in Users : RewriteLines(u) /\ page[u].fresh /\ page[u].order \in DOMAIN orders =>
          LET o == page[u].order IN
          \A r \in OnOrder(production, o) :
              NumberOf(o, r.item) \in DOMAIN page[u].lines =>
                  \E q \in production' : /\ q.item = orders'[o].lines[NumberOf(o, r.item)].ref
                                         /\ [q EXCEPT !.item = r.item] = r]_vars

\* However two saves of one line's production overlap, one row is kept per design.
OneStatusPerDesign ==
    \A r, q \in production : r.item = q.item /\ r.design = q.design => r = q

\* The list never shows more ready than there is in all, whatever became of the
\* packing list the designs were tracked against.
ReadyWithinTotal == \A o \in Purchases : Ready(o) <= Total(o)

\* The production rows of an order say something of it, each one thing: of the
\* product on its line, one status per design, no more ready than there is.
ProductionIsOfTheOrder ==
    /\ ProductionOfItsProduct
    /\ OneStatusPerDesign
    /\ ReadyWithinTotal

=============================================================================
