-------------------------------- MODULE Stock --------------------------------
(***************************************************************************)
(* Goods on hand.  A purchase invoice receives what its packing lists say; *)
(* a job out sends all of it to a job manufacturer, in as many challans as *)
(* it takes; a job in receives what was made of it.  InventoryService keeps*)
(* no figure of its own: the stock of a design is added up from the rows of*)
(* these documents, so a document that goes must take its rows with it.    *)
(***************************************************************************)
EXTENDS Fulfilment

VARIABLES
    invoices,       \* id -> purchase invoice: its order, its job works, its lines
    outs,           \* id -> the purchase invoice a job out is against
    ins             \* id -> job in: its job out, its rows

receiving == <<invoices, outs, ins>>
stockVars == <<placing, receiving>>

-----------------------------------------------------------------------------
(* The packing list of a purchase invoice.                                 *)

\* _placeholder_items_from_job_works, of one line: the list of its job work,
\* else the designs of the job work, else a block.
FromJobWork(line) ==
    LET has == line.job \in DOMAIN jobs
        packed == IF ~has \/ Of(<<"jobwork", line.job>>) = {} THEN <<>>
                  ELSE LET rows == Newest(<<"jobwork", line.job>>)
                       IN  At(rows, {k \in DOMAIN rows : rows[k].product = line.product})
        designs == IF ~has THEN <<>>
                   ELSE At(jobs[line.job], {k \in DOMAIN jobs[line.job] : jobs[line.job][k].from = line.product})
    IN  CASE packed # <<>> ->
                [k \in DOMAIN packed |->
                    [packed[k] EXCEPT !.design = IF @ = Null THEN Resolve(line.product, packed[k].name) ELSE @]]
          [] packed = <<>> /\ designs # <<>> ->
                [k \in DOMAIN designs |->
                    Row(line.product, titles[line.product], Resolve(line.product, designs[k].name),
                        designs[k].name, Blank)]
          [] OTHER -> <<Block(line.product)>>

\* The newest list of its order as it is, or what its job works say.
InvoiceForm(v) ==
    LET lines == invoices[v].lines
        order == <<"order", invoices[v].order>>
    IN  CASE Of(order) # {} -> Newest(order)
          [] Of(order) = {} /\ invoices[v].order = Null ->
                FlattenSeq([k \in DOMAIN lines |-> FromJobWork(lines[k])])
          [] OTHER -> [k \in DOMAIN lines |-> Block(lines[k].product)]

-----------------------------------------------------------------------------
(* Job outs and job ins.                                                   *)

\* _jobbed_map: what the job works of the invoice make of a product.
Jobbed(v, p) ==
    LET works == invoices[v].jobs
        lines == FlattenSeq([k \in DOMAIN works |-> jobs[works[k]]])
    IN  At(lines, {k \in DOMAIN lines : lines[k].from = p})

Outputs(lines) == {Plain(lines[k].name) : k \in DOMAIN lines}
\* A design is spelled as on the first line of it.
FirstOf(lines, n) ==
    CHOOSE k \in DOMAIN lines : /\ Plain(lines[k].name) = n
                                /\ \A h \in DOMAIN lines : Plain(lines[h].name) = n => k <= h
\* Deviation: a design that is jobbed twice comes back as often as the first says.
OutputDesigns_First(lines) ==
    LET found == SetToSeq(Outputs(lines))
        first(n) == lines[FirstOf(lines, n)]
    IN  [k \in DOMAIN found |->
            Row(Null, lines[1].title, Null, first(found[k]).name, first(found[k]).source)]
\* One row per design, all under what the first line says is made: a name.
OutputDesigns(lines) ==
    LET found == SetToSeq(Outputs(lines))
        total(n) == SumFunction([k \in {h \in DOMAIN lines : Plain(lines[h].name) = n} |-> lines[k].source])
    IN  [k \in DOMAIN found |->
            Row(Null, lines[1].title, Null, lines[FirstOf(lines, found[k])].name, total(found[k]))]

\* build_prefill_from_job_out: for each line of the invoice, what is made of it.
JobInForm(x) ==
    LET lines == invoices[outs[x]].lines
    IN  FlattenSeq([k \in DOMAIN lines |->
                       LET jobbed == Jobbed(outs[x], lines[k].product)
                       IN  IF jobbed = <<>> THEN <<>> ELSE OutputDesigns(jobbed)])

\* _product_by_name: the first of that name.
ProductNamed(title) ==
    LET same == {p \in Products : Plain(titles[p]) = Plain(title)}
    IN  IF same = {} THEN Null
        ELSE CHOOSE p \in same : \A q \in same : Upto(<<titles[p], p>>, <<titles[q], q>>)
ProductOn(r) == IF r.product # Null THEN r.product ELSE ProductNamed(r.title)

\* Deviation: a design is taken by its name whatever product it is of.
Received_AnyProduct(r) ==
    [r EXCEPT !.product = ProductOn(r),
              !.design = IF @ # Null THEN @ ELSE Resolve(ProductOn(r), r.name)]
\* JobInService._build_items: a design must be of the row's product, by its id
\* or else by its name; otherwise the row is printed and moves no stock.
Received(r) ==
    LET product == ProductOn(r)
        named == {d \in CatalogDesigns : ProductOf[d] = product /\ Plain(names[d]) = Plain(r.name)}
        known == r.design # Null /\ ProductOf[r.design] = product
    IN  [r EXCEPT !.product = product,
                  !.design = CASE known -> @
                               [] ~known /\ named # {} ->
                                    CHOOSE d \in named : \A e \in named : Upto(<<names[d], d>>, <<names[e], e>>)
                               [] OTHER -> Null]
Counted(rows) == [k \in DOMAIN rows |-> Received(rows[k])]

CreateJobOut(v) ==
    /\ Saves
    /\ outs' = [x \in DOMAIN outs \union {nextId} |-> IF x = nextId THEN v ELSE outs[x]]
    /\ nextId' = nextId + 1
    /\ UNCHANGED <<names, titles, lists, orders, jobs, invoices, ins>>
\* The form picks the invoice anew.
UpdateJobOut(x, v) ==
    /\ Saves
    /\ v # outs[x]
    /\ outs' = [outs EXCEPT ![x] = v]
    /\ UNCHANGED <<names, titles, lists, orders, jobs, nextId, invoices, ins>>

CreateJobIn(x) ==
    /\ Saves
    /\ \E rows \in ({JobInForm(x)} \union {Typed(s) : s \in Sheets}) \ {<<>>} :
          ins' = [i \in DOMAIN ins \union {nextId} |->
                     IF i = nextId THEN [out |-> x, rows |-> Counted(rows)] ELSE ins[i]]
    /\ nextId' = nextId + 1
    /\ UNCHANGED <<names, titles, lists, orders, jobs, invoices, outs>>
UpdateJobIn(i) ==
    /\ Saves
    /\ \E sheet \in Sheets : ins' = [ins EXCEPT ![i].rows = Counted(Typed(sheet))]
    /\ UNCHANGED <<names, titles, lists, orders, jobs, nextId, invoices, outs>>
DeleteJobIn(i) ==
    /\ Saves
    /\ ins' = Without(ins, {i})
    /\ UNCHANGED <<names, titles, lists, orders, jobs, nextId, invoices, outs>>

\* What is deleted with job outs, and with purchase invoices.
\* Deviation: the job ins stay.
Returns_Stay(xs) == {}
Returns(xs) == {i \in DOMAIN ins : ins[i].out \in xs}
Challans(vs) == {x \in DOMAIN outs : outs[x] \in vs}
\* Deviation: the packing lists stay.
ListsOf_Stay(kind, ids) == {}
ListsOf(kind, ids) == {i \in DOMAIN lists : \E id \in ids : lists[i].of = <<kind, id>>}

DeleteJobOut(x) ==
    /\ Saves
    /\ ins' = Without(ins, Returns({x}))
    /\ outs' = Without(outs, {x})
    /\ UNCHANGED <<names, titles, lists, orders, jobs, nextId, invoices>>

\* _cascade_delete_purchase_invoice, of all in vs, and the lists in ls.
DeleteWith(vs, ls) ==
    /\ lists' = Without(lists, ListsOf("invoice", vs) \union ls)
    /\ ins' = Without(ins, Returns(Challans(vs)))
    /\ outs' = Without(outs, Challans(vs))
DeleteInvoice(v) ==
    /\ Saves
    /\ DeleteWith({v}, {})
    /\ invoices' = Without(invoices, {v})
    /\ UNCHANGED <<names, titles, orders, jobs, nextId>>
DeleteOrder(o) ==
    /\ Saves
    /\ LET raised == {v \in DOMAIN invoices : invoices[v].order = o}
       IN  DeleteWith(raised, ListsOf("order", {o})) /\ invoices' = Without(invoices, raised)
    /\ orders' = Without(orders, {o})
    /\ UNCHANGED <<names, titles, jobs, nextId>>
\* The invoices raised first of all against it; the others lose the link.
DeleteJobWork(j) ==
    /\ Saves
    /\ LET raised == {v \in DOMAIN invoices : invoices[v].jobs # <<>> /\ Head(invoices[v].jobs) = j}
           unlinked(v) == [invoices[v] EXCEPT !.jobs = At(@, {k \in DOMAIN @ : @[k] # j}),
                                              !.lines = [k \in DOMAIN @ |->
                                                  IF @[k].job = j THEN [@[k] EXCEPT !.job = Null] ELSE @[k]]]
       IN  /\ DeleteWith(raised, ListsOf("jobwork", {j}))
           /\ invoices' = [v \in DOMAIN invoices \ raised |-> unlinked(v)]
    /\ jobs' = Without(jobs, {j})
    /\ UNCHANGED <<names, titles, orders, nextId>>

-----------------------------------------------------------------------------
(* InventoryService: boxes on hand, of a design.                           *)

OfDesign(places, d) == SumBoxes({p \in places : RowAt(p).design = d})
\* bought_totals_by_design: of every packing list of a purchase invoice.
Bought(d) == OfDesign(RowsOf({i \in DOMAIN lists : lists[i].of[1] = "invoice"}), d)
\* Deviation: once per challan.
Dispatched_PerChallan(d) ==
    SumFunction([x \in DOMAIN outs |-> OfDesign(RowsOf(Of(<<"invoice", outs[x]>>)), d)])
\* dispatched_totals_by_design: once per invoice that any challan is against.
Dispatched(d) ==
    OfDesign(RowsOf({i \in DOMAIN lists : /\ lists[i].of[1] = "invoice"
                                          /\ \E x \in DOMAIN outs : outs[x] = lists[i].of[2]}), d)
ReturnedRows(is) == UNION {{i} \X DOMAIN ins[i].rows : i \in is}
ReturnedAt(p) == ins[p[1]].rows[p[2]]
Returned(is, d) ==
    SumFunction([p \in {q \in ReturnedRows(is) : ReturnedAt(q).design = d} |-> ReturnedAt(p).boxes])
ReceivedBack(d) == Returned(DOMAIN ins, d)

Net(d) == Bought(d) + ReceivedBack(d) - Dispatched(d)

-----------------------------------------------------------------------------
\* What is stored at first: documents of one another, saved by the forms.
ASSUME StartsAssumption ==
    \A start \in Starts :
        /\ start.names \in [CatalogDesigns -> Spellings] /\ start.titles \in [Products -> Titles]
        /\ start.nextId \in Nat \ {Null}
        /\ \A table \in {DOMAIN start.lists, DOMAIN start.orders, DOMAIN start.jobs, DOMAIN start.invoices} :
              table \subseteq 1..(start.nextId - 1)
        /\ \A i \in DOMAIN start.lists :
              start.lists[i] \in
                  [of : {Quotation, Proforma} \union ({"order"} \X DOMAIN start.orders)
                           \union ({"jobwork"} \X DOMAIN start.jobs) \union ({"invoice"} \X DOMAIN start.invoices),
                   rows : Seq([product : Products, title : Nat, design : Designs, name : Nat, boxes : Nat \ {0}])
                              \ {<<>>}]
        /\ \A o \in DOMAIN start.orders : start.orders[o] \subseteq Nat /\ IsFiniteSet(start.orders[o])
        /\ \A j \in DOMAIN start.jobs :
              /\ start.jobs[j] \in Seq([from : Products, to : Products, title : Nat, name : Nat, source : Nat])
              /\ MakesSomething(start.jobs[j])
        /\ \A v \in DOMAIN start.invoices :
              start.invoices[v] \in [order : DOMAIN start.orders \union {Null}, jobs : Seq(DOMAIN start.jobs),
                                     lines : Seq([product : Products, job : Nat])]

StockInit ==
    \E start \in Starts :
        /\ lists = start.lists /\ orders = start.orders
        /\ jobs = start.jobs /\ invoices = start.invoices
        /\ names = start.names /\ titles = start.titles
        /\ outs = <<>> /\ ins = <<>>
        /\ nextId = start.nextId /\ saves = 0

Pack ==
    \/ CreateList(Quotation, QuotationForm)
    \/ CreateList(Proforma, ProformaForm)
    \/ \E o \in DOMAIN orders : CreateList(<<"order", o>>, OrderForm(o))
    \/ \E j \in DOMAIN jobs : CreateList(<<"jobwork", j>>, JobForm(j)) \/ UpdateJobWork(j)
    \/ \E v \in DOMAIN invoices : CreateList(<<"invoice", v>>, InvoiceForm(v))
    \/ \E i \in DOMAIN lists : UpdateList(i) \/ DeleteList(i)
    \/ CreateJobWork
    \/ \E d \in CatalogDesigns, n \in Spellings : Rename(d, n)
    \/ \E p \in Products, n \in Titles : RenameProduct(p, n)

Move ==
    \/ \E v \in DOMAIN invoices : CreateJobOut(v) \/ DeleteInvoice(v)
    \/ \E x \in DOMAIN outs : \/ CreateJobIn(x) \/ DeleteJobOut(x)
                              \/ \E v \in DOMAIN invoices : UpdateJobOut(x, v)
    \/ \E i \in DOMAIN ins : UpdateJobIn(i) \/ DeleteJobIn(i)
    \/ \E o \in DOMAIN orders : DeleteOrder(o)
    \/ \E j \in DOMAIN jobs : DeleteJobWork(j)

StockNext ==
    /\ saves < MaxSaves
    /\ (Pack /\ UNCHANGED receiving) \/ Move
StockSpec == StockInit /\ [][StockNext]_stockVars

-----------------------------------------------------------------------------
(* Properties.                                                             *)

\* A row of stock is of a document that is there: no list, job out or job in
\* outlives what it is of.
NothingOutlivesItsDocument ==
    /\ \A i \in DOMAIN lists :
          LET kind == lists[i].of[1]
          IN  \/ kind \in {"quotation", "proforma"}
              \/ lists[i].of[2] \in DOMAIN (CASE kind = "order" -> orders
                                              [] kind = "jobwork" -> jobs
                                              [] OTHER -> invoices)
    /\ \A x \in DOMAIN outs : outs[x] \in DOMAIN invoices
    /\ \A i \in DOMAIN ins : ins[i].out \in DOMAIN outs

\* What an invoice is worth in stock: what it received until any of it is sent
\* out, and from then on what came back.
Worth(v, d) ==
    IF Challans({v}) = {} THEN OfDesign(RowsOf(Of(<<"invoice", v>>)), d)
    ELSE Returned({i \in DOMAIN ins : ins[i].out \in Challans({v})}, d)

\* However many challans an invoice goes out in, however often they are moved
\* to another invoice, retyped or deleted: the stock of a design is what the
\* invoices that are there are worth, so it never falls below nothing and a
\* document that goes takes out what it brought in; and what a job in brings
\* in is of the product on its row.
StockBalances ==
    /\ NothingOutlivesItsDocument
    /\ \A d \in CatalogDesigns :
          LET net == Net(d)
          IN  /\ net >= 0
              /\ net = SumFunction([v \in DOMAIN invoices |-> Worth(v, d)])
    /\ \A i \in DOMAIN ins : \A k \in DOMAIN ins[i].rows :
          LET r == ins[i].rows[k] IN r.design # Null => ProductOf[r.design] = r.product

\* The form of a job in offers of every design what the job works of the
\* invoice took for it, whatever number of works and lines that is over: where
\* a product stands on one line of the invoice and is made into one other, by
\* one name.
Once(v) ==
    LET lines == invoices[v].lines
    IN  \A k \in DOMAIN lines :
            /\ \A h \in DOMAIN lines : lines[h].product = lines[k].product => h = k
            /\ \A l, m \in ToSet(Jobbed(v, lines[k].product)) : l.title = m.title
MadeKey(r) == <<r.title, Plain(r.name)>>
RowsMade(form, key) == {k \in DOMAIN form : MadeKey(form[k]) = key}
BoxesMade(form, key) == SumFunction([k \in RowsMade(form, key) |-> form[k].boxes])
JobInsAreOfferedWhatWasSent ==
    \A x \in DOMAIN outs : Once(outs[x]) =>
        LET v == outs[x]
            sold == {invoices[v].lines[k].product : k \in DOMAIN invoices[v].lines}
            works == invoices[v].jobs
            lines == FlattenSeq([k \in DOMAIN works |-> jobs[works[k]]])
            sent == {k \in DOMAIN lines : lines[k].from \in sold}
            form == JobInForm(x)
        IN  \A h \in sent :
                LET alike == {k \in sent : MadeKey(lines[k]) = MadeKey(lines[h])}
                IN  SumFunction([k \in alike |-> lines[k].source])
                        = BoxesMade(form, MadeKey(lines[h]))

\* No form offers less than there is to come, nor more but for a name.
FormsOfferTheRest == OrdersAreOfferedTheRest /\ JobInsAreOfferedWhatWasSent
=============================================================================
