----------------------------- MODULE Fulfilment -----------------------------
(***************************************************************************)
(* Packing lists: what each document says of its goods, design by design.  *)
(* A list is filled from the one of the document it comes from, and nothing*)
(* is kept of what is still to be placed: ProformaFulfilmentService adds   *)
(* up, on every page, the lists of a proforma invoice against the lists of *)
(* its purchase orders and the lines of its job works.                     *)
(*                                                                         *)
(* There is one confirmed proforma invoice and the quotation it was made   *)
(* from.  A save is one step: that it may be torn is in Documents.  Rows a *)
(* user types stand for a form that was filled before others wrote, too.   *)
(* Boxes are counted in hundredths, which is what the forms round to.      *)
(***************************************************************************)
EXTENDS Rows, SequencesExt, Functions

CONSTANTS
    ProductOf,      \* design -> the product it is a design of
    Spellings,      \* names a design may be given; alphabetical, 0 is NULL
    Titles,         \* names a product may be given, likewise
    Plain(_),       \* _normalize_name: a name in capitals, with single spaces
    Invoiced,       \* the products on the lines of the proforma invoice
    Starts,         \* what may be stored at first
    Sheets,         \* rows a user may type
    Cards,          \* design lines a job work may have
    Conversion,     \* boxes jobbed out of one box
    TypedBoxes,     \* what a user puts in a row without boxes
    MaxSaves        \* bound: forms saved and documents deleted

VARIABLES
    names,          \* design -> its name in the catalogue
    titles,         \* product -> its name in the catalogue
    lists,          \* id -> packing list: the document it is of, its rows
    orders,         \* id -> the products of a purchase order of the invoice
    jobs,           \* id -> the design lines of a job work of the invoice
    nextId,
    saves           \* forms saved and documents deleted so far

placing == <<names, titles, lists, orders, jobs, nextId, saves>>

Null == 0
Quotation == <<"quotation", 0>>
Proforma == <<"proforma", 0>>
CatalogDesigns == DOMAIN ProductOf
Products == Invoiced \union {ProductOf[d] : d \in CatalogDesigns}

Designs == CatalogDesigns \union {Null}

\* What the catalogue and the forms are made of: ids and names are numbers, a row
\* a user types has boxes, and a form has a row.
ASSUME CatalogueAssumption ==
    /\ CatalogDesigns \subseteq Nat \ {Null} /\ IsFiniteSet(CatalogDesigns)
    /\ ProductOf \in [CatalogDesigns -> Nat \ {Null}]
    /\ Invoiced \subseteq Nat \ {Null} /\ IsFiniteSet(Invoiced)
    /\ Spellings \subseteq Nat /\ Titles \subseteq Nat
    /\ Conversion \in Nat \ {0} /\ TypedBoxes \in Nat \ {0}
ASSUME FormsAssumption ==
    /\ Sheets \subseteq Seq([product : Products, design : Designs, name : Nat, boxes : Nat \ {0}]) \ {<<>>}
    /\ Cards \subseteq Seq([from : Products, to : Products, name : Nat])

\* A row keeps what its product and its design were called when it was saved.
Row(p, title, d, n, boxes) ==
    [product |-> p, title |-> title, design |-> d, name |-> n, boxes |-> boxes]
Blank == 0                                      \* boxes to be filled in
Block(p) == Row(p, Null, Null, Null, Blank)     \* is_placeholder: a product, no design
Group(r) == [product |-> r.product, title |-> r.title, design |-> r.design, name |-> r.name]

\* Deviation: a design typed by hand is known as it was typed.
DesignKey_Typed(r) == <<r.product, r.design, IF r.design = Null THEN r.name ELSE Null>>
\* _design_key: the catalogue id, or the name of a design typed by hand.
DesignKey(r) == <<r.product, r.design, IF r.design = Null THEN Plain(r.name) ELSE Null>>
\* What a job work knows a design by: it has no ids of designs.
NameKey(r) == <<r.product, Null, Plain(r.name)>>

Of(document) == {i \in DOMAIN lists : lists[i].of = document}
\* The rows of these lists: which list, and which of its rows.
RowsOf(ids) == UNION {{i} \X DOMAIN lists[i].rows : i \in ids}
RowAt(p) == lists[p[1]].rows[p[2]]
SumBoxes(places) == SumFunction([p \in places |-> RowAt(p).boxes])
\* The lines of the job works of the invoice, likewise.
JobbedLines == UNION {{j} \X DOMAIN jobs[j] : j \in DOMAIN jobs}
LineAt(l) == jobs[l[1]][l[2]]
LineGroup(l) == [product |-> LineAt(l).to, title |-> LineAt(l).title, design |-> Null, name |-> LineAt(l).name]

\* To the nearest of what is counted in.
Rounded(n, d) == (2 * n + d) \div (2 * d)

\* Of rows sorted by two columns, b does not come before a.
Upto(a, b) == a[1] < b[1] \/ (a[1] = b[1] /\ a[2] <= b[2])

-----------------------------------------------------------------------------
(* The comparison.                                                         *)

\* GROUP BY product_id, product_name, design_id, design_name.
DesignTotals(ids) ==
    [g \in {Group(RowAt(p)) : p \in RowsOf(ids)} |->
        SumBoxes({p \in RowsOf(ids) : Group(RowAt(p)) = g})]

\* Deviation: an invoice without a list of its own asks for nothing.
Required_OwnOnly == DesignTotals(Of(Proforma))
\* The lists of the invoice, or those of its quotation if it has none.
Required == DesignTotals(IF Of(Proforma) # {} THEN Of(Proforma) ELSE Of(Quotation))

PlacedOnOrders == DesignTotals(UNION {Of(<<"order", o>>) : o \in DOMAIN orders})

\* GROUP BY to_product_id, to_product_name, design_name.
JobTotals ==
    [g \in {LineGroup(l) : l \in JobbedLines} |->
        SumFunction([l \in {m \in JobbedLines : LineGroup(m) = g} |-> LineAt(l).source])]

\* A dict by _design_key: of the groups with one key, in the order of the SQL,
\* the last one stays.
LastOf(totals, key) ==
    LET same == {g \in DOMAIN totals : DesignKey(g) = key}
    IN  CHOOSE g \in same : \A h \in same : Upto(<<h.title, h.name>>, <<g.title, g.name>>)
Has(totals, key) == \E g \in DOMAIN totals : DesignKey(g) = key
Placed(totals, key) == IF Has(totals, key) THEN totals[LastOf(totals, key)] ELSE 0

\* Deviation: what is with a job manufacturer is still to be ordered.
JobPlaced_Not(g) == 0
\* job_placed_index: by the name, under the product made.
JobPlaced(g) == LET jobbed == JobTotals IN Placed(jobbed, NameKey(g))

Covered(placed, g) == Placed(placed, DesignKey(g)) + JobPlaced(g)

\* design_status: what each design still lacks, or has too much of.
Pending ==
    LET required == Required
        placed == PlacedOnOrders
    IN  [g \in {h \in DOMAIN required : required[h] > Covered(placed, h)} |->
            required[g] - Covered(placed, g)]
OverOrdered ==
    LET required == Required
        placed == PlacedOnOrders
    IN  {g \in DOMAIN required : required[g] < Covered(placed, g)}

\* pending_purchase_order_reminders, of a confirmed invoice.
Reminded == DOMAIN Pending # {} \/ DOMAIN Required = {}

-----------------------------------------------------------------------------
(* What the form of a new packing list comes with.                         *)

Newest(document) == lists[CHOOSE i \in Of(document) : \A j \in Of(document) : j <= i].rows
Blocks(products) == LET seq == SetToSeq(products) IN [k \in DOMAIN seq |-> Block(seq[k])]

\* _design_id_resolver: a design of the product by that name, or of any.
Resolve(p, n) ==
    LET any == {d \in CatalogDesigns : Plain(names[d]) = Plain(n)}
        own == {d \in any : ProductOf[d] = p}
        found == IF own # {} THEN own ELSE any
    IN  IF n = Null \/ found = {} THEN Null
        ELSE CHOOSE d \in found : \A e \in found : Upto(<<names[e], e>>, <<names[d], d>>)

QuotationForm == Blocks(Invoiced)
ProformaForm == IF Of(Quotation) = {} THEN Blocks(Invoiced) ELSE Newest(Quotation)

\* Deviation: a row is offered whole as long as anything of it is pending.
ScaledRow_Whole(row, pending, required) == row
\* _scaled_row: its share of what is pending; nothing left of it is a blank.
ScaledRow(row, pending, required) == [row EXCEPT !.boxes = Rounded(@ * pending, required)]

\* _remaining_designs.
RemainingDesigns(rows) ==
    LET required == Required
        pending == Pending
        kept == At(rows, {k \in DOMAIN rows : Has(pending, DesignKey(rows[k]))})
        of(r) == LastOf(pending, DesignKey(r))
    IN  IF DOMAIN required = {} THEN rows
        ELSE [k \in DOMAIN kept |-> ScaledRow(kept[k], pending[of(kept[k])], required[of(kept[k])])]

\* From the list of the invoice, or else of its quotation: the order's
\* products, and of those what is not placed yet.
OrderForm(o) ==
    LET ancestor == IF Of(Proforma) # {} THEN Proforma ELSE Quotation
    IN  IF Of(ancestor) = {} THEN Blocks(orders[o])
        ELSE LET rows == Newest(ancestor)
             IN  RemainingDesigns(At(rows, {k \in DOMAIN rows : rows[k].product \in orders[o]}))

\* job_quantity, in whole boxes.
JobQuantity(source) == ((Rounded(source, Conversion) + 99) \div 100) * 100
\* What a product is called on the lists of job works and purchase invoices is
\* not read again: its title in the catalogue stands for it.
JobForm(j) ==
    [k \in DOMAIN jobs[j] |->
        LET l == jobs[j][k]
        IN  Row(l.from, titles[l.from], Resolve(l.from, l.name), l.name, JobQuantity(l.source))]

-----------------------------------------------------------------------------
(* Saving.                                                                 *)

Saves == saves < MaxSaves /\ saves' = saves + 1

\* A product or a design picked from the catalogue comes with its name.
Typed(sheet) ==
    [k \in DOMAIN sheet |->
        LET r == sheet[k]
        IN  Row(r.product, titles[r.product], r.design, IF r.design = Null THEN r.name ELSE names[r.design],
                r.boxes)]

\* A form as it came, its blanks filled in, or retyped; a block has no row to
\* post, and at least one row is compulsory.
Posted(form) ==
    LET rows == At(form, {k \in DOMAIN form : form[k].design # Null \/ form[k].name # Null})
        filled == [k \in DOMAIN rows |-> IF rows[k].boxes = Blank THEN [rows[k] EXCEPT !.boxes = TypedBoxes]
                                         ELSE rows[k]]
    IN  ({filled} \union {Typed(s) : s \in Sheets}) \ {<<>>}

CreateList(document, form) ==
    /\ Saves
    /\ \E rows \in Posted(form) :
          lists' = [i \in DOMAIN lists \union {nextId} |->
                       IF i = nextId THEN [of |-> document, rows |-> rows] ELSE lists[i]]
    /\ nextId' = nextId + 1
    /\ UNCHANGED <<names, titles, orders, jobs>>

\* The form comes with the stored rows, and names the document again.
UpdateList(i) ==
    /\ Saves
    /\ \E sheet \in Sheets : lists' = [lists EXCEPT ![i].rows = Typed(sheet)]
    /\ UNCHANGED <<names, titles, orders, jobs, nextId>>

Without(f, gone) == [i \in DOMAIN f \ gone |-> f[i]]
DeleteList(i) ==
    /\ Saves
    /\ lists' = Without(lists, {i})
    /\ UNCHANGED <<names, titles, orders, jobs, nextId>>

\* invoice_quantities: by product and name, or by a name only one product has;
\* over every list of the invoice, of its own products.
SourceQuantity(to, n) ==
    LET rows == {p \in RowsOf(Of(Proforma)) : RowAt(p).product \in Invoiced /\ Plain(RowAt(p).name) = Plain(n)}
        products == {RowAt(p).product : p \in rows}
        source == IF to \in products \/ Cardinality(products) # 1 THEN to
                  ELSE CHOOSE p \in products : TRUE
    IN  SumBoxes({p \in rows : RowAt(p).product = source})

\* _build_items: fetched anew on every save, and refused if that is nothing.
\* The product made is called what the catalogue calls it.
JobLines(card) ==
    [k \in DOMAIN card |-> [from |-> card[k].from, to |-> card[k].to, title |-> titles[card[k].to],
                            name |-> card[k].name, source |-> SourceQuantity(card[k].to, card[k].name)]]
MakesSomething(lines) == \A k \in DOMAIN lines : JobQuantity(lines[k].source) > 0

CreateJobWork ==
    /\ Saves
    /\ \E card \in Cards :
          /\ MakesSomething(JobLines(card))
          /\ jobs' = [j \in DOMAIN jobs \union {nextId} |-> IF j = nextId THEN JobLines(card) ELSE jobs[j]]
    /\ nextId' = nextId + 1
    /\ UNCHANGED <<names, titles, lists, orders>>
UpdateJobWork(j) ==
    /\ Saves
    /\ \E card \in Cards :
          /\ MakesSomething(JobLines(card))
          /\ jobs' = [jobs EXCEPT ![j] = JobLines(card)]
    /\ UNCHANGED <<names, titles, lists, orders, nextId>>

\* update_design: the rows that were saved keep the name they were saved with.
Rename(d, n) ==
    /\ Saves
    /\ n # names[d]
    /\ names' = [names EXCEPT ![d] = n]
    /\ UNCHANGED <<titles, lists, orders, jobs, nextId>>
\* update_product: likewise.
RenameProduct(p, n) ==
    /\ Saves
    /\ n # titles[p]
    /\ titles' = [titles EXCEPT ![p] = n]
    /\ UNCHANGED <<names, lists, orders, jobs, nextId>>

-----------------------------------------------------------------------------
(* Properties.                                                             *)

PlacingTypeOK ==
    /\ names \in [CatalogDesigns -> Spellings] /\ titles \in [Products -> Titles]
    /\ \A i \in DOMAIN lists :
          /\ lists[i].rows # <<>>
          /\ \A k \in DOMAIN lists[i].rows : lists[i].rows[k].boxes \in Nat \ {0}
    /\ \A j \in DOMAIN jobs : \A k \in DOMAIN jobs[j] : JobQuantity(jobs[j][k].source) > 0

\* What stands between the two sides, row by row and whatever it is called.
Asking == IF Of(Proforma) # {} THEN Of(Proforma) ELSE Of(Quotation)
AskedFor == RowsOf(Asking)
OnOrder == RowsOf(UNION {Of(<<"order", o>>) : o \in DOMAIN orders})

\* No name stands for two designs, nor a design under two names, but for its
\* spelling and for what its product is called.
SameDesign(r, s) ==
    r.product = s.product /\ r.design = s.design /\ (r.design = Null => Plain(r.name) = Plain(s.name))
GroupsOf(places) == {Group(RowAt(p)) : p \in places}
NamesTellDesigns ==
    LET groups == GroupsOf(AskedFor \union OnOrder)
    IN  \A g, h \in groups : SameDesign(g, h) = (NameKey(g) = NameKey(h))
\* A design is called one thing, and so is its product.
OneGroupEach(groups) == \A g, h \in groups : NameKey(g) = NameKey(h) => g = h
AskedByOneName == NamesTellDesigns /\ OneGroupEach(GroupsOf(AskedFor))
PlacedByOneName == OneGroupEach(GroupsOf(OnOrder)) /\ OneGroupEach({LineGroup(l) : l \in JobbedLines})

Named(places, key) == SumBoxes({q \in places : NameKey(RowAt(q)) = key})
AtWork(key) ==
    SumFunction([l \in {m \in JobbedLines : NameKey(LineGroup(m)) = key} |-> LineAt(l).source])
Lacks(asked, ordered, key) == Named(asked, key) - Named(ordered, key) - AtWork(key)

\* The invoice is on the list of reminders as long as a box of any design is
\* on no order and in no job work, however the lists behind it came, were
\* retyped, deleted or split, and whatever a product was renamed to since it
\* was asked for.  It is on it no longer than that, and a design is reported
\* as bought in excess exactly when more of it is placed than is asked for,
\* where what is placed of a design goes by one name: a dict keeps one group.
ChasedUntilPlaced ==
    /\ PlacingTypeOK
    /\ AskedByOneName =>
          LET asked == AskedFor
              ordered == OnOrder
              lacks(p) == Lacks(asked, ordered, NameKey(RowAt(p)))
              unplaced == asked = {} \/ \E p \in asked : lacks(p) > 0
          IN  /\ unplaced => Reminded
              /\ PlacedByOneName =>
                    /\ Reminded => unplaced
                    /\ OverOrdered = {Group(RowAt(p)) : p \in {q \in asked : lacks(q) < 0}}

\* The boxes of one design on a form, in the rows that are of it.
RowsNamed(form, key) == {k \in DOMAIN form : NameKey(form[k]) = key}
BoxesNamed(form, key) == SumFunction([k \in RowsNamed(form, key) |-> form[k].boxes])

\* The form of an order's list offers, of each design of the order's products,
\* no less than what no order or job work covers, and where what is placed goes
\* by one name no more: to half a hundredth of a box per row, and where one
\* list asks for the goods, since it is filled from the newest one.
OrdersAreOfferedTheRest ==
    AskedByOneName /\ Cardinality(Asking) = 1 =>
        LET asked == AskedFor
            ordered == OnOrder
            rest(key) == LET lacks == Lacks(asked, ordered, key) IN IF lacks > 0 THEN lacks ELSE 0
        IN  \A o \in DOMAIN orders :
                LET form == OrderForm(o)
                IN  \A p \in {q \in asked : RowAt(q).product \in orders[o]} :
                        LET key == NameKey(RowAt(p))
                            rows == Cardinality(RowsNamed(form, key))
                            off == BoxesNamed(form, key) - rest(key)
                        IN  0 - 2 * off <= rows /\ (PlacedByOneName => 2 * off <= rows)
=============================================================================
