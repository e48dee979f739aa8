------------------------------- MODULE Documents -------------------------------
(***************************************************************************)
(* The life of the trade documents: how a request of a worker creates,     *)
(* edits, copies or deletes one, over the header tables, their child       *)
(* tables, document_versions and the client's status.                      *)
(*                                                                         *)
(* Every statement of Database.execute and every `with get_connection()`   *)
(* is a transaction of its own, so a save is a sequence of steps another   *)
(* request may come between: the header, each child table, the read-back,  *)
(* the version, the status.  What a form holds is one token, the number of *)
(* the request that posted it; a table of a document holds the token of    *)
(* the form its rows are from, and 0 when it has none.  One company, one   *)
(* day, one lead: numbers are the day's sequence.                          *)
(***************************************************************************)
EXTENDS Integers, Sequences, FiniteSets

CONSTANTS
    Workers,        \* threads of the server, each serving one user, a request at a time
    Admins,         \* the workers that serve an admin
    NewKinds,       \* kinds of the documents created
    Books,          \* documents there may be when the server starts
    MaxRequests,    \* bound on the requests served
    MaxCrashes      \* bound on the times the server is killed

TypedNumbers == 1..2            \* numbers a clerk may type
None == 0                       \* SQL NULL

VARIABLES
    docs,       \* id -> row of a document table, with what its child tables hold
    nextId,     \* AUTOINCREMENT
    versions,   \* document_versions
    lead,       \* leads.status, and whether it was converted
    client,     \* the client's status, as its position in CLIENT_STATUSES
    job,        \* what each worker is doing
    served,     \* requests begun
    crashes,
    withdrawn   \* kinds a document was deleted of

store == <<docs, nextId, versions, lead, client>>
vars == <<store, job, served, crashes, withdrawn>>

-----------------------------------------------------------------------------
(* The kinds of document.  A repository: the child tables its save         *)
(* replaces after the header, a transaction each; the kinds its delete     *)
(* lists (SELECT) and walks into; the kinds it deletes by one DELETE.      *)

QuotationRepository ==
    [tables |-> <<"items", "containers">>, lists |-> {"proforma"}, takes |-> {"packing"}]
ProformaInvoiceRepository ==
    [tables |-> <<"items", "containers">>, lists |-> {"order"}, takes |-> {"packing"}]
PurchaseOrderRepository ==
    [tables |-> <<"items">>, lists |-> {"invoice"}, takes |-> {"packing"}]
JobWorkRepository ==
    [tables |-> <<"items", "products">>, lists |-> {"invoice"}, takes |-> {"packing"}]
\* Deviation: the cascade forgets the job outs.
PurchaseInvoiceRepository_NoJobOuts ==
    [tables |-> <<"items", "vehicles", "orderLinks", "jobWorkLinks">>,
     lists |-> {}, takes |-> {"packing"}]
PurchaseInvoiceRepository ==
    [tables |-> <<"items", "vehicles", "orderLinks", "jobWorkLinks">>,
     lists |-> {}, takes |-> {"packing", "jobout"}]
JobOutRepository == [tables |-> <<>>, lists |-> {}, takes |-> {"jobin"}]
JobInRepository == [tables |-> <<"items">>, lists |-> {}, takes |-> {}]
PackingListRepository == [tables |-> <<"items">>, lists |-> {}, takes |-> {}]
\* All the child tables of an export invoice are replaced in one transaction.
ExportInvoiceRepository == [tables |-> <<"children">>, lists |-> {}, takes |-> {}]

Repository ==
    [quotation |-> QuotationRepository, proforma |-> ProformaInvoiceRepository,
     order |-> PurchaseOrderRepository, jobwork |-> JobWorkRepository,
     invoice |-> PurchaseInvoiceRepository, jobout |-> JobOutRepository,
     jobin |-> JobInRepository, packing |-> PackingListRepository,
     export |-> ExportInvoiceRepository]
Kinds == DOMAIN Repository

(* A service: the kinds counted for its next number ({}: the number is     *)
(* typed), the kinds it may be raised from, whether it must be, and the    *)
(* client stage a save reaches (CLIENT_STATUS_ADVANCE_ON; 0: none).        *)

QuotationService ==
    [counts |-> {"quotation"}, from |-> {}, must |-> FALSE, stage |-> 0]
ProformaInvoiceService ==
    [counts |-> {"proforma"}, from |-> {"quotation"}, must |-> FALSE, stage |-> 2]
PurchaseOrderService ==
    [counts |-> {"order"}, from |-> {"proforma"}, must |-> FALSE, stage |-> 3]
JobWorkService ==
    [counts |-> {"order", "jobwork"}, from |-> {"proforma"}, must |-> FALSE, stage |-> 0]
PurchaseInvoiceService ==
    [counts |-> {"invoice"}, from |-> {"order", "jobwork"}, must |-> FALSE, stage |-> 4]
JobOutService == [counts |-> {}, from |-> {"invoice"}, must |-> TRUE, stage |-> 0]
JobInService == [counts |-> {}, from |-> {"jobout"}, must |-> TRUE, stage |-> 0]
PackingListService ==
    [counts |-> {"packing"}, must |-> FALSE, stage |-> 0,
     from |-> {"quotation", "proforma", "order", "jobwork", "invoice"}]
ExportInvoiceService == [counts |-> {}, from |-> {}, must |-> FALSE, stage |-> 5]

Service ==
    [quotation |-> QuotationService, proforma |-> ProformaInvoiceService,
     order |-> PurchaseOrderService, jobwork |-> JobWorkService,
     invoice |-> PurchaseInvoiceService, jobout |-> JobOutService,
     jobin |-> JobInService, packing |-> PackingListService, export |-> ExportInvoiceService]

Tables(kind) == Repository[kind].tables
Parts(kind) == <<"head">> \o Tables(kind)
PartsOf(kind) == {Parts(kind)[i] : i \in 1..Len(Parts(kind))}
TypedKinds == {k \in Kinds : Service[k].counts = {}}

-----------------------------------------------------------------------------
(* Rows and types.                                                         *)

Live == DOMAIN docs

RowOf(kind) ==
    [kind : {kind}, no : Nat, by : Workers, up : Nat, confirmed : BOOLEAN,
     part : [PartsOf(kind) -> Nat]]
IsRow(row) == row.kind \in Kinds /\ row \in RowOf(row.kind)
IsVersion(v) == v.id \in 1..nextId - 1 /\ v.n \in Nat \ {0}

\* The documents there may be at the start have had the first ids, none of them
\* was deleted, and they satisfy the constraints of their tables.
WellKept(book) ==
    /\ \A d \in DOMAIN book : book[d].up # None =>
          book[d].up \in DOMAIN book /\ book[book[d].up].kind \in Service[book[d].kind].from
    /\ \A d, e \in DOMAIN book : book[d].kind = book[e].kind /\ book[d].no = book[e].no => d = e
    /\ \A d \in DOMAIN book : book[d].kind \notin TypedKinds =>
          book[d].no <= Cardinality({e \in DOMAIN book :
                                        book[e].kind \in Service[book[d].kind].counts})
ASSUME BooksAssumption ==
    \A book \in Books :
        /\ IsFiniteSet(DOMAIN book) /\ DOMAIN book = 1..Cardinality(DOMAIN book)
        /\ \A d \in DOMAIN book : IsRow(book[d])
        /\ WellKept(book)
ASSUME KindsAssumption == NewKinds \subseteq Kinds

Idle == [pc |-> "idle"]
Steps == {"idle", "copy", "number", "insert", "update", "tables", "read", "version", "record",
          "stage", "advance", "list", "remove", "done", "failed"}

TypeOK ==
    /\ \A d \in Live : d \in 1..nextId - 1 /\ IsRow(docs[d])
    /\ \A v \in versions : IsVersion(v)
    /\ lead \in [status : {"follow_up", "in_client"}, converted : BOOLEAN]
    /\ client \in 1..5
    /\ \A w \in Workers : job[w].pc \in Steps
    /\ withdrawn \subseteq Kinds

Put(f, x, v) == [y \in DOMAIN f \union {x} |-> IF y = x THEN v ELSE f[y]]

\* Deviation: job works are numbered after the purchase orders only.
CountForDate_Orders(kinds) == Cardinality({d \in Live : docs[d].kind \in kinds \ {"jobwork"}})
\* count_for_date_prefix: the rows of the day of the kinds that are counted.
CountForDate(kinds) == Cardinality({d \in Live : docs[d].kind \in kinds})
Taken(kind, no, except) == \E d \in Live \ {except} : docs[d].kind = kind /\ docs[d].no = no

\* The parents a document of the kind can be raised from; a link to a document
\* that is gone is dropped, or the form refused when the link is compulsory.
Parents(kind) ==
    {d \in Live : docs[d].kind \in Service[kind].from}
        \union (IF Service[kind].must THEN {} ELSE {None})

\* _lead_id_for_quotation, _lead_id_for_proforma: up the links to the quotation.
HasKind(d, kind) == d \in Live /\ docs[d].kind = kind
LeadOfQuotation(d) == HasKind(d, "quotation")
LeadOfProforma(d) == HasKind(d, "proforma") /\ LeadOfQuotation(docs[d].up)
LeadBehind(kind, up) ==
    CASE kind = "proforma" -> LeadOfQuotation(up)
      [] kind = "order"    -> LeadOfProforma(up)
      [] OTHER             -> TRUE       \* a lead_id of its own

-----------------------------------------------------------------------------
(* Requests.                                                               *)

\* A request begins; the others it overlaps are no longer alone.
Begin(w, request) ==
    /\ served' = served + 1
    /\ job' = [v \in Workers |->
                  IF v = w THEN Put(request, "alone", \A x \in Workers : job[x].pc = "idle")
                  ELSE IF job[v].pc = "idle" THEN Idle ELSE [job[v] EXCEPT !.alone = FALSE]]

Nothing == [p \in {} |-> None]
ToRead(j) == [j EXCEPT !.pc = "read", !.todo = Parts(j.kind), !.seen = Nothing]
\* Deviation: only the first child table is saved.
ToTables_FirstOnly(j) == IF Tables(j.kind) = <<>> THEN ToRead(j)
                         ELSE [j EXCEPT !.pc = "tables", !.todo = <<Head(Tables(j.kind))>>]
ToTables(j) == IF Tables(j.kind) = <<>> THEN ToRead(j)
               ELSE [j EXCEPT !.pc = "tables", !.todo = Tables(j.kind)]
Goto(w, pc) == job' = [job EXCEPT ![w].pc = pc]
Form == served + 1
Written(kind) == [p \in PartsOf(kind) |-> Form]
MayModify(w, d) == w \in Admins \/ docs[d].by = w

-----------------------------------------------------------------------------
(* Creating.  The form is validated and its parent looked up, the number   *)
(* counted (or its clash looked for), and only then the header inserted.   *)

StartCreate(w, kind, up, no) ==
    /\ IF kind \in TypedKinds THEN no \in TypedNumbers /\ ~Taken(kind, no, None) ELSE no = None
    /\ Begin(w, [op |-> "create", kind |-> kind, id |-> None, up |-> up, no |-> no,
                 write |-> Written(kind), todo |-> <<>>, seen |-> Nothing,
                 pc |-> IF kind \in TypedKinds THEN "insert" ELSE "number"])
    /\ UNCHANGED <<store, crashes, withdrawn>>

\* QuotationService.duplicate: what the original holds is written to the copy.
StartDuplicate(w, d) ==
    /\ HasKind(d, "quotation")
    /\ Begin(w, [op |-> "duplicate", kind |-> "quotation", id |-> d, up |-> None, no |-> None,
                 write |-> Nothing, todo |-> Parts("quotation"),
                 seen |-> Nothing, pc |-> "copy"])
    /\ UNCHANGED <<store, crashes, withdrawn>>

GenerateNumber(w) ==
    /\ job[w].pc = "number"
    /\ job' = [job EXCEPT ![w].no = CountForDate(Service[job[w].kind].counts) + 1,
                          ![w].pc = "insert"]
    /\ UNCHANGED <<store, served, crashes, withdrawn>>

\* The foreign key and UNIQUE (company_id, number) hold, or the INSERT fails.
Insertable(w) == /\ job[w].up \in Live \union {None}
                 /\ ~Taken(job[w].kind, job[w].no, None)

InsertHeader(w) ==
    /\ job[w].pc = "insert"
    /\ IF Insertable(w)
       THEN /\ docs' = Put(docs, nextId,
                   [kind |-> job[w].kind, no |-> job[w].no, by |-> w,
                    up |-> job[w].up, confirmed |-> FALSE,
                    part |-> [p \in PartsOf(job[w].kind) |->
                                 IF p = "head" THEN job[w].write[p] ELSE None]])
            /\ nextId' = nextId + 1
            /\ job' = [job EXCEPT ![w] = ToTables([@ EXCEPT !.id = nextId])]
       ELSE Goto(w, "failed") /\ UNCHANGED <<docs, nextId>>
    /\ UNCHANGED <<versions, lead, client, served, crashes, withdrawn>>

-----------------------------------------------------------------------------
(* Editing.                                                                *)

\* A confirmed proforma invoice is locked, for everyone.
\* Deviation: the lock is not asked about.
Editable_Unlocked(w, d) == MayModify(w, d)
Editable(w, d) == MayModify(w, d) /\ ~docs[d].confirmed

\* Deviation: an edit mints the document a new number.
StartUpdate_Renumbers(w, d, no) ==
    /\ Editable(w, d) /\ no = docs[d].no
    /\ Begin(w, [op |-> "update", kind |-> docs[d].kind, id |-> d, up |-> docs[d].up,
                 no |-> CountForDate({docs[d].kind}) + 1,
                 write |-> Written(docs[d].kind), todo |-> <<>>,
                 seen |-> Nothing, pc |-> "update"])
    /\ UNCHANGED <<store, crashes, withdrawn>>
\* The form posts the link the document has.
StartUpdate(w, d, no) ==
    /\ Editable(w, d)
    /\ IF docs[d].kind \in TypedKinds THEN no \in TypedNumbers /\ ~Taken(docs[d].kind, no, d)
                                      ELSE no = docs[d].no
    /\ Begin(w, [op |-> "update", kind |-> docs[d].kind, id |-> d, up |-> docs[d].up, no |-> no,
                 write |-> Written(docs[d].kind), todo |-> <<>>,
                 seen |-> Nothing, pc |-> "update"])
    /\ UNCHANGED <<store, crashes, withdrawn>>

\* UPDATE ... WHERE id = ?: changes nothing when the row is gone.
UpdateHeader(w) ==
    LET j == job[w] IN
    /\ j.pc = "update"
    /\ \/ /\ j.id \notin Live
          /\ job' = [job EXCEPT ![w] = ToTables(@)] /\ UNCHANGED docs
       \/ /\ j.id \in Live /\ j.up \in Live \union {None} /\ ~Taken(j.kind, j.no, j.id)
          /\ docs' = [docs EXCEPT ![j.id].up = j.up, ![j.id].no = j.no,
                                  ![j.id].part["head"] = j.write["head"]]
          /\ job' = [job EXCEPT ![w] = ToTables(@)]
       \/ /\ j.id \in Live /\ (j.up \notin Live \union {None} \/ Taken(j.kind, j.no, j.id))
          /\ Goto(w, "failed") /\ UNCHANGED docs
    /\ UNCHANGED <<nextId, versions, lead, client, served, crashes, withdrawn>>

-----------------------------------------------------------------------------
(* What creating and editing share.                                        *)

\* _replace_items and its like: DELETE and INSERT of one child table's rows,
\* which the foreign key refuses when the document is gone.
ReplaceTable(w) ==
    LET j == job[w]
        table == Head(j.todo) IN
    /\ j.pc = "tables"
    /\ IF j.id \in Live
       THEN /\ docs' = [docs EXCEPT ![j.id].part[table] = j.write[table]]
            /\ job' = [job EXCEPT ![w] = IF Len(j.todo) = 1 THEN ToRead(j)
                                         ELSE [j EXCEPT !.todo = Tail(@)]]
       ELSE UNCHANGED docs /\ Goto(w, "failed")
    /\ UNCHANGED <<nextId, versions, lead, client, served, crashes, withdrawn>>

\* get_by_id: the header and then each child table, by reads of their own.
\* What a save reads back becomes its version, what a duplicate reads its copy.
GetById(w) ==
    LET j == job[w]
        part == Head(j.todo)
        seen == Put(j.seen, part, IF j.id \in Live THEN docs[j.id].part[part] ELSE None) IN
    /\ j.pc \in {"copy", "read"}
    /\ IF part = "head" /\ j.id \notin Live THEN Goto(w, "failed")
       ELSE job' = [job EXCEPT ![w] =
               IF Len(j.todo) > 1 THEN [j EXCEPT !.seen = seen, !.todo = Tail(@)]
               ELSE IF j.pc = "copy" THEN [j EXCEPT !.write = seen, !.id = None, !.pc = "number"]
               ELSE [j EXCEPT !.seen = seen, !.pc = "version"]]
    /\ UNCHANGED <<store, served, crashes, withdrawn>>

VersionsOf(d) == {v \in versions : v.id = d}
LatestVersion(d) ==
    CHOOSE n \in {0} \union {v.n : v \in VersionsOf(d)} : \A v \in VersionsOf(d) : v.n <= n

\* Deviation: the number of the newest version, not the one after it.
NextVersionNumber_NotNext(w) ==
    /\ job[w].pc = "version"
    /\ job' = [job EXCEPT ![w] =
                  Put([@ EXCEPT !.pc = "record"], "n", LatestVersion(@.id))]
    /\ UNCHANGED <<store, served, crashes, withdrawn>>
\* _next_version_number reads MAX + 1; the INSERT is a transaction of its own,
\* and UNIQUE (document_type, document_id, version_number) may refuse it.
NextVersionNumber(w) ==
    /\ job[w].pc = "version"
    /\ job' = [job EXCEPT ![w] =
                  Put([@ EXCEPT !.pc = "record"], "n", LatestVersion(@.id) + 1)]
    /\ UNCHANGED <<store, served, crashes, withdrawn>>

\* Deviation: a refused INSERT is tried again, under the number it was refused.
Record_Retries(w) ==
    LET j == job[w] IN
    /\ j.pc = "record"
    /\ IF \E v \in VersionsOf(j.id) : v.n = j.n
       THEN UNCHANGED <<job, versions>>
       ELSE /\ versions' = versions \union {[id |-> j.id, n |-> j.n, snap |-> j.seen]}
            /\ Goto(w, IF j.op = "duplicate" THEN "done" ELSE "stage")
    /\ UNCHANGED <<docs, nextId, lead, client, served, crashes, withdrawn>>

Record(w) ==
    LET j == job[w] IN
    /\ j.pc = "record"
    /\ IF \E v \in VersionsOf(j.id) : v.n = j.n
       THEN Goto(w, "failed") /\ UNCHANGED versions
       ELSE /\ versions' = versions \union {[id |-> j.id, n |-> j.n, snap |-> j.seen]}
            /\ Goto(w, IF j.op = "duplicate" THEN "done" ELSE "stage")
    /\ UNCHANGED <<docs, nextId, lead, client, served, crashes, withdrawn>>

-----------------------------------------------------------------------------
(* The lead and the client behind the document.                            *)

\* A quotation takes its lead to in_client, any other document the client to
\* the stage its kind reaches; nothing to do when it is there or past it.
\* Deviation: the stage the client is at is not compared.
Advances_Anyway(kind, up) ==
    IF kind = "quotation" THEN ~lead.converted /\ lead.status # "in_client"
    ELSE Service[kind].stage > 0 /\ lead.converted /\ LeadBehind(kind, up)
Advances(kind, up) ==
    IF kind = "quotation" THEN ~lead.converted /\ lead.status # "in_client"
    ELSE /\ Service[kind].stage > client
         /\ lead.converted /\ LeadBehind(kind, up)

ReadStage(w) ==
    /\ job[w].pc = "stage"
    /\ Goto(w, IF Advances(job[w].kind, job[w].up) THEN "advance" ELSE "done")
    /\ UNCHANGED <<store, served, crashes, withdrawn>>

Advance(w) ==
    /\ job[w].pc = "advance"
    /\ IF job[w].kind = "quotation"
       THEN lead' = [lead EXCEPT !.status = "in_client"] /\ UNCHANGED client
       ELSE client' = Service[job[w].kind].stage /\ UNCHANGED lead
    /\ Goto(w, "done")
    /\ UNCHANGED <<docs, nextId, versions, served, crashes, withdrawn>>

-----------------------------------------------------------------------------
(* Deleting.  SQLite opens the write transaction at the first DELETE, so   *)
(* what the cascade lists before it, down the first branch, is read        *)
(* outside it; the rest is inside.                                         *)

Listed(d) == {e \in Live : docs[e].up = d /\ docs[e].kind \in Repository[docs[d].kind].lists}
FirstOf(S) == CHOOSE e \in S : \A f \in S : e <= f
NextDown(S) == IF S = {} THEN {} ELSE Listed(FirstOf(S))

StartDelete(w, d) ==
    /\ Editable(w, d)
    /\ Begin(w, [op |-> "delete", kind |-> docs[d].kind, id |-> d,
                 pc |-> "list"])
    /\ UNCHANGED <<store, crashes, withdrawn>>

\* d and the first documents below it: whose lists are read.
FirstBranch(d) ==
    LET one == NextDown({d})
        two == NextDown(one)
        three == NextDown(two) IN
    {d} \union {FirstOf(S) : S \in {one, two, three} \ {{}}}

ListCascade(w) ==
    /\ job[w].pc = "list"
    /\ job' = [job EXCEPT ![w] =
          Put([@ EXCEPT !.pc = "remove"], "lists",
              IF @.id \in Live THEN [e \in FirstBranch(@.id) |-> Listed(e)] ELSE [e \in {} |-> {}])]
    /\ UNCHANGED <<store, served, crashes, withdrawn>>

\* The documents the cascade of d takes: those whose links lead up to it by
\* steps it follows, listed where lists says what was read.
Follows(e, lists) ==
    LET up == docs[e].up IN
    /\ up \in Live
    /\ \/ docs[e].kind \in Repository[docs[up].kind].takes
       \/ e \in (IF up \in DOMAIN lists THEN lists[up] ELSE Listed(up))
Cascade(d, lists) ==
    LET taken[e \in Live] == e = d \/ (Follows(e, lists) /\ taken[docs[e].up]) IN
    {e \in Live : taken[e]}

\* A job work outlives its proforma invoice (ON DELETE SET NULL); any other
\* document left pointing at a deleted one fails the whole transaction.
Remove(w) ==
    LET j == job[w]
        gone == IF j.id \in Live THEN Cascade(j.id, j.lists) ELSE {}
        left == {e \in Live \ gone : docs[e].up \in gone} IN
    /\ j.pc = "remove"
    /\ IF \A e \in left : docs[e].kind = "jobwork"
       THEN /\ docs' = [e \in Live \ gone |->
                           IF e \in left THEN [docs[e] EXCEPT !.up = None] ELSE docs[e]]
            /\ withdrawn' = withdrawn \union {docs[e].kind : e \in gone}
            /\ Goto(w, "done")
       ELSE Goto(w, "failed") /\ UNCHANGED <<docs, withdrawn>>
    /\ UNCHANGED <<nextId, versions, lead, client, served, crashes>>

-----------------------------------------------------------------------------
(* The rest of the system.                                                 *)

\* The response: a redirect, or the error page.
Respond(w) ==
    /\ job[w].pc \in {"done", "failed"}
    /\ job' = [job EXCEPT ![w] = Idle]
    /\ UNCHANGED <<store, served, crashes, withdrawn>>

\* ProformaInvoiceService.set_status: draft again only by an admin.
SetStatus(w, d) ==
    /\ HasKind(d, "proforma") /\ MayModify(w, d)
    /\ docs[d].confirmed => w \in Admins
    /\ docs' = [docs EXCEPT ![d].confirmed = ~@]
    /\ job' = [v \in Workers |->
                  IF job[v].pc = "idle" THEN Idle ELSE [job[v] EXCEPT !.alone = FALSE]]
    /\ UNCHANGED <<nextId, versions, lead, client, served, crashes, withdrawn>>

\* The process is killed and started again: what was not committed is lost,
\* and so is every request.
Crash ==
    /\ crashes < MaxCrashes /\ crashes' = crashes + 1
    /\ job' = [w \in Workers |-> Idle]
    /\ UNCHANGED <<store, served, withdrawn>>

Init ==
    /\ docs \in Books
    /\ nextId = Cardinality(Live) + 1
    /\ versions = {[id |-> d, n |-> 1, snap |-> docs[d].part] : d \in Live}
    /\ lead \in [status : {"follow_up"}, converted : BOOLEAN]
    /\ client = 1
    /\ job = [w \in Workers |-> Idle]
    /\ served = 0 /\ crashes = 0 /\ withdrawn = {}

\* A started request runs to its response.
Work(w) ==
    \/ GenerateNumber(w) \/ InsertHeader(w) \/ UpdateHeader(w) \/ ReplaceTable(w) \/ GetById(w)
    \/ NextVersionNumber(w) \/ Record(w) \/ ReadStage(w) \/ Advance(w)
    \/ ListCascade(w) \/ Remove(w) \/ Respond(w)

Request(w) ==
    /\ job[w].pc = "idle" /\ served < MaxRequests
    /\ \/ \E kind \in NewKinds : \E up \in Parents(kind), no \in TypedNumbers \union {None} :
              StartCreate(w, kind, up, no)
       \/ \E d \in Live : StartDuplicate(w, d) \/ StartDelete(w, d)
       \/ \E d \in Live : \E no \in TypedNumbers \union {docs[d].no} : StartUpdate(w, d, no)

Next ==
    \/ \E w \in Workers : Request(w) \/ Work(w)
    \/ \E w \in Workers, d \in Live : SetStatus(w, d)
    \/ Crash

\* The server's threads are scheduled: a started request goes on.  Nothing
\* makes a user begin one.
Fairness == \A w \in Workers : WF_vars(Work(w))
Spec == Init /\ [][Next]_vars /\ Fairness

-----------------------------------------------------------------------------
(* Correctness.                                                            *)

Whole(d, write) == d \in Live /\ docs[d].part = write
NewestSnapshot(d) == (CHOOSE v \in VersionsOf(d) : v.n = LatestVersion(d)).snap

\* A save no other request came between leaves every table of the document
\* with the rows of its form (a copy: of its original), and a newest version
\* that says the same: what DocumentVersionService.record snapshots.
LoneSaveIsWhole ==
    \A w \in Workers :
        (job[w].pc \in {"stage", "advance", "done"} /\ job[w].alone /\ job[w].op # "delete") =>
            /\ Whole(job[w].id, job[w].write)
            /\ NewestSnapshot(job[w].id) = job[w].write

\* The cascade of a delete covers every reference to the documents it takes:
\* alone, it never fails on a foreign key, and leaves nothing of the document.
LoneDeleteSucceeds ==
    \A w \in Workers : (job[w].pc \in {"done", "failed"} /\ job[w].alone /\ job[w].op = "delete") =>
        job[w].pc = "done" /\ job[w].id \notin Live

\* The count of the day plus one is a free number, unless a document counted
\* was deleted: alone, a create is refused for no other reason.
LoneCreateIsNumbered ==
    \A w \in Workers : (job[w].pc = "failed" /\ job[w].alone) =>
        Service[job[w].kind].counts \intersect withdrawn # {}

\* What a request the others leave alone does to its document, be it a save or
\* a delete, is what its handler promises; and the tables keep their shape.
LoneRequestIsSound ==
    /\ TypeOK
    /\ LoneSaveIsWhole
    /\ LoneDeleteSucceeds
    /\ LoneCreateIsNumbered

\* advance_client_status: "regenerating/editing a document shouldn't walk the
\* status backwards" - a request that ran alone does not.
LoneAdvanceIsForward ==
    [][client' < client => \E w \in Workers : job[w].pc = "advance" /\ ~job[w].alone]_vars

\* A confirmed proforma invoice is edited or deleted through its own service
\* only by a request the confirmation came in the middle of.
LockHolds ==
    [][\A w \in Workers, d \in Live :
          (docs[d].confirmed /\ job[w].pc # "idle" /\ job[w].id = d /\ job[w].alone) =>
              d \in DOMAIN docs' /\ docs'[d].part = docs[d].part]_vars

\* Whatever goes wrong, a request that begins gets its response: no step of a
\* save or a delete waits for another request.
RequestsEnd == \A w \in Workers : job[w].pc # "idle" ~> job[w].pc = "idle"

\* The book of documents the requests keep.
Title == [d \in Live |-> [kind |-> docs[d].kind, no |-> docs[d].no]]
HistoryOf(d) == [n \in 1..Cardinality(VersionsOf(d)) |->
                    (CHOOSE v \in VersionsOf(d) : v.n = n).snap]
History == [d \in 1..nextId - 1 |-> HistoryOf(d)]
Book == INSTANCE DocumentBook WITH
    TypedKinds <- TypedKinds, last <- nextId - 1, title <- Title, history <- History

\* Numbers and histories are kept as DocumentBook promises, overlaps and
\* crashes included.
KeepsTheBook == Book!BookSpec
================================================================================
