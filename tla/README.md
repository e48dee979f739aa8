# Export management, specified in TLA+

A Flask application over one SQLite file for exporters: leads become buyers and
suppliers, and a shipment runs through quotation, proforma invoice, purchase
order, job work, packing list, packing planning, loading planning, export
invoice and export packing list. This directory models its parts in TLA+,
checks them with TLC on small instances and proves theorems about them with
TLAPS. `PROJECT.json` lists the components, runs, mutants, source lines, findings
and hazards this file talks about. Paths below are relative to `src/crm_app/app`.

## 1. How the program runs, and what is hard about it

Routes (`routes/*.py`) parse a form and call a service (`services.py`), which
checks and derives and calls repositories (`repositories.py`) over `database.py`.
`Database.get_connection` opens a connection, runs one block in one transaction
and commits, or rolls back on an exception. A service call is a *sequence* of
such transactions and nothing joins them. The server is gunicorn with several
worker processes (three by default), so the requests of several workers
interleave between any two transactions, and a worker killed, timed out or
answered "database is locked" leaves the earlier transactions committed. Python's
`sqlite3` opens a transaction only before an INSERT, UPDATE or DELETE: a SELECT
that comes first in the block sees an older state than the writes after it. DDL
commits on its own when no such transaction is open. Foreign keys are on.
Uploaded files are written and removed between the transactions, and nothing
undoes them.

So the hard behaviour is: state read by one transaction, or shown on a form, and
used by a later one; requests that stop half way; rows that refer to one another
by position or number through saves that renumber them; figures that are stored
nowhere and added up from documents others change; numbers derived from a COUNT
or a MAX; and migrations at startup that a crash or a second worker interrupts.
There are no queues, timers or background threads. The one thing that must
eventually happen is that a request that began gets its response.

## 2. Inventory

| component | state | operations | interacts with | what makes it correct | modules |
|---|---|---|---|---|---|
| packing plannings | `packing_plannings`, seven child tables, `packing_planning_labels` | create, update, delete, mint and print labels | proforma invoices and packing lists (prefill), loading plannings (read packings) | a printed id names one pallet, and stays true of the database while the pallet is planned | `PackingLabels` |
| leads | `leads`, `lead_contacts` | create, edit, contacts, primary flag, convert | buyers, suppliers | one client per lead, one primary contact | `LeadConversion` |
| buyers and suppliers | `buyers`, `suppliers`, `party_contacts`, `supplier_contact_persons`, `payment_history`, `communications`, `documents` | create, convert from lead, satellites, profile, delete | leads; documents name them | a delete leaves nothing behind; a converted lead's client exists; a profile is saved list by list | `LeadConversion`, `MasterData` |
| database, migrations | the schema, `user_version` | `init_schema` on each startup | everything | steps keep data and can be run again | `SchemaMigration` |
| backup, restore | the database file and upload trees | backup zip, restore zip | everything | a backup is whole, a restore is the backup or can be undone | `Backup` |
| quotations, proforma invoices, purchase orders, job works/outs/ins, purchase invoices, packing lists, export invoices | a header table and child tables each, `document_versions` | create, update, duplicate, delete, confirm, version | leads (client status), each other | numbers are unique and kept, versions grow by one, children and version are those of one save | `Documents`, `DocumentBook` |
| purchase orders, purchase invoices, production | `purchase_orders`, `purchase_invoices`, links, `purchase_order_item_production` | prefill, place, invoice, edit, production and its batches | proforma invoices, packing lists, job works | nothing forgotten, nothing ordered or invoiced twice but what goes by two names; production stays with its product | `Orders` |
| fulfilment, packing lists, job works | `packing_lists`, `job_works`; what is placed is derived | the five forms of a list, save, delete, job works, reminders | proforma, quotation, orders, catalogue | chased as long as anything is not placed, forms offer no less than the rest; exactly so where names agree | `Fulfilment` |
| job outs, job ins, inventory | `job_outs`, `job_ins`; stock is derived | challans made and moved, goods returned, cascades | purchase invoices, packing lists | stock equals what came in less what went out | `Stock` |
| loading plannings, export invoices, export packing lists | their tables; popups, slips, split | import plannings, fill containers, invoice, edit, list | packing plannings, bookings | no box lost or doubled, positions mean the same everywhere, popups survive edits | `Shipping` |
| products | `categories`, `products`, `product_folders`, `designs`, images | create, edit, rename, duplicate, delete at each level | documents copy the product's fields | every image a record names is served, no litter | `Catalogue`, `Uploads` |
| company, suppliers' profiles, transporters, permits, bookings, lists, platform logins; files of permits, purchase and export invoices | a table and its lists each, upload trees | create, edit, delete | — | a record, its lists and its files go together | `MasterData`, `Uploads` |
| users, authentication | `users` | login, admin | everything (tenant, role) | — | not modelled |
| reports, printed documents | none | read and lay out | everything | formatting only | not modelled |

`PROJECT.json` lists, under `hazards`, each place where these go wrong in a way a
test would hardly reach, with the properties that watch it or, where the code does go wrong
and a property is claimed only of requests that do not overlap, a note that says so.

## 3. Modules

| module | models | built on | proofs |
|---|---|---|---|
| `PackingLabels` | the label life cycle of packing plannings | | `PackingAndStock_proofs` |
| `LeadConversion` | leads, conversion, clients and their satellites | | `LeadsAndOrders_proofs` |
| `SchemaMigration` | the statement programs of `init_schema`, crashes, racing workers | | `SchemaMigration_proofs` |
| `DocumentBook` | what the document services promise together (abstract) | | |
| `Documents` | a request on any trade document, transaction by transaction | refines `DocumentBook` | `Documents_proofs` |
| `Orders` | what is left to order and to invoice; production | `Rows` | `LeadsAndOrders_proofs` |
| `Fulfilment` | packing lists and job works, design by design | `Rows` | with `Stock` |
| `Stock` | job outs, job ins, stock | extends `Fulfilment` | `PackingAndStock_proofs` |
| `Shipping` | loading planning, export invoice, export packing list | `Rows` | `Shipping_proofs` |
| `Uploads` | requests as lists of calls to tables and upload trees | | |
| `Catalogue`, `MasterData` | which calls the catalogue's and the other records' handlers make | extend `Uploads` | |
| `Backup` | download and restore beside all of those | extends `Catalogue`, `MasterData` | `Backup_proofs`, `Records_proofs` |
| `MC...` | small sets, stored states and symmetry for the `.cfg` files | | |
| `Rows` | one operator: the rows a list comprehension with a condition keeps | | |
| `Counting` | nothing: lemmas on ranks in a finite set, on finite sums and on lists laid one after another | | used by the proofs of `PackingLabels`, `Orders`, `Shipping` and `Stock` |

### PackingLabels

`plan` is the header with its children (a *layout*: the pallet numbers of the
batch rows and those of the hand-packed units), `labels` the label table, `req`
what each worker is doing with the local variables of its Python frames. One
action is one transaction or one read: `create` is `StartCreate`, `InsertHeader`,
`ReplaceChildren`; then `_mint` re-reads the plan (`GetHeader`, `GetItems`,
`GetUnits`: three queries, which another worker's save may fall between), reads
the existing numbers and the COUNT (`ReadExisting`, `ReadSequence`) and writes in
one transaction (`SyncLabels`). The labels page does the same mint, then reads
the plan again and prints (`SheetHeader`, `PrintSheet`). `Abort` ends a request
anywhere. A history variable, `floor`, holds the labels that were printed and
whose pallet no save has taken off the plan since; `issued` holds every QR id
ever inserted.

Abstractions: `UPQR{date}{seq:03d}` is the pair (date, seq), which the padding
keeps injective; a document number is the pair (date, seq) too, so a number an
operator types has the generated shape; `unique_packing_id` is the pair (plan
number, packing number) it is spelled from; the tenant is fixed.

### LeadConversion

`lead`, `client`, `contacts` and `attached` are the rows that link to each other;
names, addresses and the status label are left out. Two contact rows of one
person under one parent are one row. `SqliteLeadRepository.create` commits the
lead, then each contact; `convert_lead` checks, reads the lead's contacts and
converts in one transaction; a supplier's contact persons are seeded in another.
`delete` reads `lead_id` before the statement that opens its transaction, so
`ReadLeadId` and `DeleteParty` are two actions.

### SchemaMigration

`init_schema` runs, on every start, some two thousand lines of guarded SQL. The
module holds the blocks of `_migrate` that carry rows, retire them or re-create
something as *data*, each a sequence of statements under a guard (`TareWeight`,
`Containers`, `Production`...), and interprets them: `Branch` is Python's `if`, `Ddl`
a statement that commits on its own when no transaction is open, `Dml` one that
opens a transaction, `CommitTransaction`, `BackupFile`, `Raise` and `Crash` what
their names say. So whether two statements are atomic follows, as in the code,
from what an earlier block left open. A row is named by its *home*, the place the
current code reads it from; `Life` says which version had which name, and `Init`
builds a database of any listed version, full, without linked purchase invoices,
or empty.

Abstractions: one row per name; the columns a block adds together are one column,
unless the gap between them matters (`vessel_name`, `voyage_no`); schema.sql is one
step, since each of its statements can be repeated.

Some blocks drop a column that holds data with no copy and no backup, because the
value is entered elsewhere by then: v24 `permits.supplier_id` (`database.py:1188`),
v67 `lead_id` of four tables (1680), v78 `design_id` and `design_name` of
invoice and proforma lines (1779), v84 `quantity_boxes`, `_unit` and `_value` of job work
lines (1928) and v86 their `jobed_quantity` and `jobed_unit` (1918). They are rows of the
model too; `Discarded` lists them, and `NothingLost` and `UpMeansHome` except them by
name and nothing else.

Left out are the blocks that only add a nullable column (except those that a modelled
block or a later start depends on), the rename in place of v25, v37 (a copy of the shape
of v33, with its backup), `_pre_schema_migrate` and the loading-planning reshape of v98 and
v99 (of tables in which no row was ever saved), and the steps up to v13: the v13 step
itself cannot run on a database that has clients (section 7). A second writer waits for
the first; a "database is locked" after five seconds is a `Crash`.

### Documents and DocumentBook

All nine document kinds run one protocol, so `Documents` holds the protocol once
and, per kind, a `Repository` record (child tables in the order they are
replaced, what a delete lists first and what it deletes outright) and a `Service`
record (whose rows its number counts, what it may be raised from, the client
stage it reaches). A request is `StartCreate`, `StartDuplicate`, `StartUpdate` or
`StartDelete` and then one action per transaction: the number
(`GenerateNumber`), the header, each child table (`ReplaceTable`), the read-back
(`GetById`), the version's number and row (`NextVersionNumber`, `Record`), the
client's stage (`ReadStage`, `Advance`); a delete lists its cascade
(`ListCascade`) before the transaction that removes it (`Remove`). The content of
a form is a token, and a table of a document holds the token of the form its rows
came from, which is all that a torn or mixed save needs to be seen. `Crash` kills
the server between any two steps. `alone` is a history variable: no other request
was being served while this one ran, and the server did not change the status under it.

`DocumentBook` says what all this amounts to: ids are issued in order, numbers
stay, histories grow by one. `KeepsTheBook` is the refinement, with `title` read
off the header tables and `history` off `document_versions`; it holds in every
interleaving and across crashes.

### Orders

A form is filled when its page is opened and submitted later; `page` is that
form, with `fresh` telling whether anything was written behind it. Prefill with the
remainder over several orders, tags of invoice lines, links, exclusion of an
invoice's own rows, job works invoiced through their Products card, and the
production rows that an edit of the order carries over by line number are as in
the services. A save is one step except where its own reads and its write matter:
an edited order (`LiftProduction` reads what hangs on the old lines, `RewriteLines`
replaces them) and the production of a line (`CheckLine`, `LookForRow`,
`SaveProduction`).

A line keeps the name its product had when it was picked, and the totals of what is
ordered or invoiced are grouped by id *and* name (`repositories.py:2899`, 3625, 3648), then put
into a dict by id (`services.py:8029`, 4384, 4433): of a product that stands under two names
only the group of the last name is counted (`Recorded`). A form then offers again what is
placed under the other name. So `PagesOfferTheRest` claims of any names that no less than the
rest is offered, and no more only if the lines that count bear one name (`OneName`);
`FreshFormsFit` likewise. `purchase_order_id` and `job_work_id` of an invoice are the first of
each kind (`Firsts`), and deleting either deletes the invoice.

`RemainingProducts` looks the pending lines up by product, as the dict of the code
does: of a product on two lines both are offered, at the share its last pending line
lacks. The comment at `services.py:3336` ("a line already placed in full on another
purchase order ... is dropped") is true only of products that stand on one line, and
so is `FreshFormsHoldTheRest`; and a product counted in boxes on one line and in pieces
on another may be ordered beyond what is asked for, which is why `FreshFormsFit` asks for
`OneUnit`. Shares are rounded to whole units, where the code keeps two decimals and calls a
rest within `_DESIGN_QTY_TOLERANCE` nothing.

### Fulfilment and Stock

`Fulfilment` is the design-by-design side: `Required` (the lists of the invoice,
or of its quotation when it has none), `PlacedOnOrders`, `JobPlaced`, and from
them `Pending`, `OverOrdered` and `Reminded`; and the forms a packing list is
filled from. `DesignTotals` and `JobTotals` group as
the SQL does, by id and name of the product and of the design; `DesignKey` and `NameKey` are what
the dicts go by, in which of several groups with one key the last stays (`LastOf`). The two
differ once a product or a design is renamed (`RenameProduct`, `Rename`) or typed in other
capitals (`Plain` is `_normalize_name`). So a design that is placed under two names is
chased and offered again although it is placed: `ChasedUntilPlaced` and `FormsOfferTheRest`
claim of any placing that what is not placed is chased and offered, and the converse
under `PlacedByOneName`. `_jobbed_map` resolves the designs of a job in by name, and a
product renamed since its job work may not be found and moves no stock (`ProductNamed`). Boxes are
hundredths, so that `ScaledRow` rounds as the code. `Stock` adds purchase
invoices, job outs and job ins: the invoice form's three sources, the sheet of a
job out derived from the job works, a job in's rows resolved to designs of the
row's product, the cascades, and the three totals `InventoryService` nets. One
save is one step here.

### Shipping

Import of packing plannings renumbers their lines and packings; containers are
positions among the rows that identify one; goods lines are positions among the
rows that have a name. `Loads` to `lists` follows a box through all of it, with
automatic assignment by weight, the screen's and the server's own count of the
split, popups and slips entered on other pages, and the save of an invoice in its
transactions (`WriteHeader`, `WriteChildren`, `CountLists`, `SaveList`, or `Kill` in
between). `odd`, `moved` and `alone` are history
variables that name when a property claims nothing.

### Uploads, Catalogue, MasterData, Backup

A handler here is a list of calls: `Catalogue` and `MasterData` say which and in
which order (a file stored, a row written, a list replaced, references counted, a
file removed), `Uploads` runs one call per step, for two workers, one of whom may
be killed. The order is where these handlers differ, so it is data in the model
too. `Backup` adds the download (the database is copied, then the trees are
walked) and the restore (check, keep a copy, swap the database, swap each tree with
its own rollback, migrate), and replaces everything under the other requests. A
row carries `odd` once a write was made from what may have been stale.

## 4. Runs

| run | properties | result | what it shows |
|---|---|---|---|
| `labels_overlap` | `TypeOK`, `NoOrphanLabels`, `QrIdsUnique`, `NoSequenceGaps`, `RowsNeverRewritten` | holds | Requests of two workers on one packing plan overlap in every way: the label table keeps its ids unique, its rows as minted and no row of a deleted plan. |
| `labels_serial` | `FloorIdsKept`, `FloorIdsDistinct`, `SheetCoversPlan` | holds | Two workers on two plans, no two requests on one plan at a time: what is printed stays true of the database, names one pallet, and covers the plan. |
| `leads_overlap` | `LeadTypeOK`, `ConvertedClientLives` | holds | Requests of two workers on one lead and its clients overlap in every way: a converted lead always names a client that exists and names it back. |
| `leads_serial` | `ClientsAreTheirLeads`, `NothingLeftBehind`, `AtMostOnePrimary`, `ContactsCopied` | holds | No two requests on one lead at a time: one client per lead, nothing left behind by a delete, one primary contact, and conversion copies the contacts as they are. |
| `schema_upgrade` | `UpMeansHome`, `UpMeansCurrent`, `StartsSucceed` | holds | One worker, never killed, on databases of seventeen versions from a fresh install and v13 to the current one, full, partly filled or empty: the start succeeds, and ends with every row that is not discarded by design in its place and every name of the schema, but for the tax columns of a job_works it had to rebuild, which only the next start adds. |
| `schema_race` | `TypeOK`, `NothingLost`, `AtomicMovesHome` | holds | Two workers starting at once, each killed between any two statements any number of times, on databases of six versions: no row is ever lost but those of the columns discarded by design, and the moves made in one transaction are complete when a start is. |
| `schema_stranded` | `UpMeansHome` | violated | A worker killed between ADD COLUMN tare_weight_kg and the copy: every later start finds the column and skips the copy. |
| `documents` | `LoneRequestIsSound`, `LoneAdvanceIsForward`, `LockHolds`, `KeepsTheBook`, `RequestsEnd` | holds | Two requests on the nine kinds of document overlap transaction by transaction, and the server is killed once: ids, numbers and histories are kept as DocumentBook promises; a request nobody came between saves, numbers, locks and deletes as its service says; every request ends. |
| `orders` | `PagesOfferTheRest`, `TagsAreLinked`, `ProductionIsOfTheOrder`, `FreshFormsFit`, `LoneResaveKeepsProduction` | holds | Two users split a proforma invoice over purchase orders and the orders and a job work over purchase invoices, edit and delete them, and report production, each from a page that was filled earlier: what is offered is never less than what is left, and exactly that while the lines that count bear one name for the product, and production follows its line through the saves that replace it. |
| `shipping` | `LoadsAreSound`, `PlacesAgree`, `SavesAreSound`, `EditsKeepWhatIsNotTheirs` | holds | Two users plan loads from packed pallets, fill export invoices from them, edit them and fill in their popups, each save in its transactions and one of them cut short: lines, packings and containers, which refer to one another by number and position, stay with what they were entered for. |
| `backup` | `PathsAreServed`, `RecordsAreSound`, `BackupsAreSound` | holds | Two requests on the catalogue, the master data and the carried files, or a backup or a restore beside one of them, overlap call by call and a worker is killed once: no record names a file that is not there, a request that nobody came between and that was not refused leaves nothing half written or behind, and a backup brings back just what it was taken of. |
| `stock` | `ChasedUntilPlaced`, `FormsOfferTheRest`, `StockBalances` | holds | Packing lists, job works, job outs and job ins are made, retyped, moved and deleted in any order and designs and products renamed, from three stored states: a proforma invoice is chased as long as a box of it is on no order and no form offers less than is left, exactly so where what is placed of a design goes by one name, and the stock of every design is what the invoices that are there are worth. |

Two assumptions appear where a property fails without them, and the properties say
so themselves. `OneRequestPerPlan` (`OneRequestPerLead`) TRUE means that the
environment runs no two requests on one plan (lead) at a time; requests on
*different* plans or leads always interleave. A property of `Documents`, `Orders`,
`Shipping` or `Backup` that speaks of a request that is `alone`, or of a page that is
`fresh`, claims its conclusion only for those, while every other request still
interleaves around them. Both are assumptions about how the operators work,
not something the code enforces. Some history variables and definitions mark the other
exceptions: `odd` (a row written from what may have been stale; a packing list of
a form whose containers do not fill the table), `moved` and `shuffled` (an edit took
a container or a product from its number, by putting another there or by dropping it), `AskedByOneName` and `PlacedByOneName` (the
rows that ask for a design, or that place it, call it and its product one thing), `OneName`
(likewise of the lines of `Orders`) and `Once` (a product stands on one line of the
invoice and is jobbed into one other, by one name).

Bounds, and why they suffice:
- Two workers (users) are enough for every race here, each being between a read and
  a write of two requests. One plan (lead) is enough for what happens to one plan
  when requests overlap; two plans of one date are needed for what they share: the
  QR sequence and the document number. Two packing numbers let a plan shrink, grow
  and move a pallet between its halves. `MaxNumber` bounds only the number an
  operator may type. Row ids are never reused (AUTOINCREMENT), so these runs are
  finite by their ids, and no `CHECK_DEADLOCK FALSE` is needed.
- `SchemaMigration` needs no bound: a start is a finite program and a restart
  returns to an earlier state. Its `Vintages` are the versions just before a modelled
  step (or the last that has what the step moves) and the current one;
  `schema_race` takes those whose steps carry rows or drop them in a transaction.
- `documents`: two requests on a book that already holds a chain of four documents,
  from quotation to packing list or from job work to job in, so that every kind is
  edited, copied and deleted with its cascade; `NewKinds` are the kinds created, a
  numbered and a typed one; one crash anywhere.
- `orders`: four pages over an invoice of two products, or of one product twice: two
  orders of one invoice and an edit, or an order, two invoices of it and a page. A product may
  go by two names, and the one that sorts last is either the earlier or the later.
- `shipping`: three pages, so a planning is imported, an invoice made of it and
  edited, or a popup used in between; one form changed by hand, one save killed. Two
  plannings, one packed in a batch and one by hand; two containers with limits.
- `stock`: four saves from three stored states, which hold what would take six to
  ten saves to build: a quotation with a list and two orders; an invoice from an
  order beside one from a job work; an invoice of two job works. Products and designs have two
  names each, in the stored rows and to be renamed to, and a third that differs in capitals.
- `backup`: two requests, the second possibly a backup or a restore, and one kill, in a
  company with a category in a category, a folder in a folder, a design copied
  between products, and one record of each kind that carries files.

The last five of these stop when their bound is reached, so they say `CHECK_DEADLOCK FALSE`.

Fairness is stated once, in `Documents`: `WF_vars(Work(w))` for each worker. A request
that began is run by a thread the operating system schedules; no step of it waits
for another request (a locked database answers with an error after five seconds), so
weak fairness is what the server gives. Nothing is assumed of users, who need not
begin requests, nor of crashes. `RequestsEnd` follows only because every path
through the handlers, each refusal and cascade included, leads to a response.

Every property of a passing run has one or more mutants in `PROJECT.json`: a
definition of the model changed as a bug in the code would change it (`..._Wholesale`,
`..._Unchecked` and so on, next to the definition in the module), under which TLC
finds the property violated.

## 5. Proofs

All theorems hold for every value of the constants that satisfies the named
assumptions, which TLC evaluates on the instances of the runs:
- finite sets of ids, packing numbers and designs, and `None` outside them;
- in `Documents`, what the code keeps of the documents that are there from the start
  (`BooksAssumption`): they are rows of the first ids; each was raised from one that
  exists, of a kind its service may raise it from; no two of a kind share a number, and
  a number that was minted is at most the count of the kinds it counts; and that the
  kinds created are kinds (`KindsAssumption`);
- in `Orders`, that a form has at least one line (`FormsAssumption`), and that how much is in
  a box and what a product is called are natural numbers (`AltQuantityAssumption`);
- in `Fulfilment` and `Stock`, that ids and names are numbers and the conversion of boxes is
  not 0 (`CatalogueAssumption`), that a row a user types has boxes and a form has a row
  (`FormsAssumption`), and that the documents there from the start are of one another, with
  rows the forms can have saved (`StartsAssumption`);
- in `Shipping`, that a packing planning's lines name a product and boxes are natural
  numbers (`PackedAssumption`), that containers a booking has are of a known limit and
  tare (`BookingsAssumption`), and that the loading plannings there from the start were
  saved from such plannings and bookings by the import the module models
  (`LoadsAssumption`);
- in `SchemaMigration`, that the versions a database may arrive at are none later than the
  program's (`ConstantsOK`);
- in `Backup`, that the rows of the database in use and of the backup at hand are as the
  handlers leave them (`StoredAssumption`, `EarlierAssumption`): a path lies in the folder
  its column is for and carries the name of no request to come, only designs share one,
  and a backup that says it is whole is; that both are databases as the schema and the services
  keep them, with ids the AUTOINCREMENT has issued (`SoundAssumption`); that the drop lists in
  use are drop lists (`ListsAssumption`), an entry has a name (`NamesAssumption`) and a level is
  not the mark for a text left alone (`LevelsAssumption`); and that the bounds are natural numbers
  (`BoundsAssumption`).

`PackingAndStock_proofs` holds the proofs of two parts that share no state. Of `PackingLabels`:
- `TypeCorrect`. `TInv` adds to `TypeOK` that a request past its start names a
  plan, which `SyncLabels` needs.
- `NoOrphans`, `QrIdsStayUnique`, `NeverRewritten` from `LabelInv`, under any
  interleaving. Labels enter only through `SyncLabels`, whose guard is the table's
  unique constraints plus its foreign key; `MintedLabels` numbers the missing
  pallets by rank, and the lemmas of `Counting` show that distinct pallets get
  distinct sequences.
- `NumbersHaveNoGaps`, from `GapInv`: the count a mint has read is at most one past the
  numbers issued by then (`Continues`), and ranks have no gaps, so what is inserted
  continues the row of numbers, or is refused by its unique constraint.
- `FloorKept`, `FloorDistinct` under `OneRequestPerPlan`. `FloorInv` says that a
  printed label is in the table, that its pallet is in the plan, and that the copy of the
  plan a request in flight holds, once read, is the plan. The last is what fails
  when requests overlap (section 7).
- `SheetsCoverPlans` under `OneRequestPerPlan`, from `SheetInv`: once its mint is done,
  the request that prints finds a label in the table for every pallet it has read (`Sees`).

`LeadsAndOrders_proofs` holds the proofs of two parts that share no state. Of `LeadConversion`:
- `LeadTypeCorrect`.
- `ConvertedClientsLive` under any interleaving. `LinkInv` needs `DeleteKnows`: a
  delete past `ReadLeadId` knows the lead its client has, if the client is still
  there, because a client's `lead_id` never changes.
- `OneClientPerLead` under `OneRequestPerLead`, from `SerialInv`: a started
  conversion still has an unconverted lead to convert (`ChecksHold`).
- `DeletesLeaveNothing`, `PrimariesAreUnique` and `ConversionCopiesAll`, from
  `ContactInv`: the cards a request carries are those of its parent, with one primary at
  most (`CardsFit`), and every other step changes the rows of one parent (`SameBut`).

`Documents_proofs`, with any number of workers, documents, requests and crashes:
- `RequestsKeepTheBook`: `Documents` implements `DocumentBook`. `BookInv` says that
  every document was issued an id below the next one, that the versions of a
  document are numbered 1, 2, ... without gap or repeat (`Numbered`), and that a
  request knows of its document what it relies on (`Fits`): at `update`, the kind
  and the minted number it will write back; at `record`, a version number that is
  at most one past the newest. The last is why the race for a version number loses
  a version but cannot leave a gap: when `UNIQUE` accepts the number, it is the
  next. Each action is then a step of the book (`InsertIssues`, `UpdateRetitles`,
  `RecordRecords`, `RemoveWithdraws`) or changes nothing in it (`BookStutters`).
- `ConfirmedIsLocked` and `LoneSavesAdvance`, from `AloneInv`: while a request that
  is still alone is under way no other is, the document it works on is not
  confirmed, and the stage it is about to write is ahead of the client's.

- `LoneRequestsAreSound`, the whole of `LoneRequestIsSound`. `LoneInv` is the
  conjunction, over the workers, of what a request is (`Formed`), what it `Knows` of its
  document whoever else is served, and what is `Promised` of it while it is alone, read
  off its program: at `tables`, that the tables not in its list already hold its form's
  rows; at `version`, that all do; at `record`, that its number is free; at `remove`,
  that its document is there. `TablesFit` is what every interleaving keeps of the
  tables: links lead to documents of the kinds they may be raised from, and as long as
  no document of a counted kind was deleted, numbers are unique and at most the count,
  which is why a create finds its own free. The argument for deletes: a cascade is the
  least set that holds the document and follows the branches (`CascadeIs`), a document
  outside it that refers into it does so by a link that a delete sets to NULL, and so no
  foreign key fails and `TablesFit` survives (`CascadeLeavesJobWorks`).

`Orders`, in `LeadsAndOrders_proofs`, under any interleaving of edits, reports and deletes:
- `ProductionStaysSound`. `OrdersInv` says that the lines of all orders carry distinct
  references that were issued (`RefsIssued`, `RefsUnique`), and that a row of production
  hangs on a line of its order, or on none if the order is gone; `ProductInv`, that
  while no edit took a product from its line the row's product is the line's, also for the
  rows an edit holds between `LiftProduction` and `RewriteLines`.
- `ResavesKeepProduction`, from `FreshInv`: what a fresh edit has lifted is still what
  hangs on the lines.
- `TagsStayLinked`, `FormsOfferWhatIsLeft` (the whole of `PagesOfferTheRest`) and
  `FreshFormsNeverExceed`, from `FormsInv`: the tables are finite and every invoice's links
  and tags are orders that exist, each tag among the links (`BookInv`); a form has rows, and
  those of an invoice's are tagged with what it covers (`PageLines`); and a form nothing
  was written behind is what would be filled in now (`FreshForm`). A step on a page leaves
  the tables alone, a write leaves no page fresh. What a form offers is a *cut* of the
  lines it was filled from: each row within a line of its own, so sums of rows are at most
  sums of lines (`RowsWithin`), whatever the user keeps or lowers adds up to no more
  (`RowsAddUp`), and a product on one line is offered its rest, to the unit if what is placed
  goes by one name: what is counted is never more than what the lines come to, and is that if
  there is one group. The rows of an
  invoice of several orders are told apart by their tags (`FlatParts`: which part of the
  concatenation a place lies in, by counting).
- `Counting` has the sums this rests on. A sum over a finite set of naturals is the number
  of its units (`SumCounts`), hence the same in any order; it splits, grows and is bounded as
  one expects (`SumSplits`, `SumGrows`, `SumWithin`). All of it is by induction over
  finite sets, stated of a set of the subsets for which the claim holds, which is a form
  of induction the provers can instantiate.

`Shipping_proofs`, under any interleaving and with a save killed anywhere:
- `EditsKeepTheRest`, from `KeepInv`: a save that is alone has the bill, rate and
  reference of the invoice it rewrites.
- `SlipsStayWithTheirContainers` (a part of `SavesAreSound`), from `SlipInv`: the rows a
  save is about to write carry each slip to the place of the container it was typed for.
  The attempt showed that `moved` must also note a save that *drops* a container: a
  second save, whose form was read before, otherwise puts another container in its
  place, and its slip there.
- `LoadsStaySound` (the whole of `LoadsAreSound`), `PlacesAgreeThroughout` and
  `SavesStaySound` (the whole of `PlacesAgree` and `SavesAreSound`). `DataInv` says what
  the tables and pages hold: a loading planning is the import of some packing plannings with its
  packings put into some of its containers (`LoadFits`), an invoice's lines and a list's rows
  are what a form can be, a page's split names lines and containers it has (`PageData`).
  `AloneInv` says of a page that is still alone that it `Agrees` with what it was filled
  from. The rest is about the operators, in four arguments:
  - *Imports balance.* The packings of one planning hold the boxes of its lines; an
    import lays lines and packings one after another and moves what they refer to by the
    number of lines before, so a line of the whole is in the packings of its own part
    and in no others (`FlatParts`, `TotalOfFlat`).
  - *Assignment fits*, by induction over the packings (`Fitting`): weights only grow, a
    container is chosen only with room, and what was left out once stays without room.
  - *Screen and server agree.* Clearing a row of the form and numbering the lines and
    containers anew is a relabelling that is one to one on what is left (`Remaps`), and a sum
    over a relabelled set is the same sum.
  - *A full load balances.* A goods line's boxes in the split, added up over containers,
    are its boxes added up over packings that went out: sums are exchanged (`SumSwap`), and
    the total falls short by exactly what the packings left behind hold.
  What a sum or a filter is of is stated over functions and places (`SumFunction`, `At`),
  where the model once folded over sequences: the form a proof can take apart.
- The attempt at the first corrected two properties. A container whose tare alone
  exceeds its limit is over weight and yet assigned nothing, so `AutoAssignFits` excepts what is
  empty; and a packing that holds no box may be left behind without unbalancing an
  invoice, so `FullLoadIsAccepted` is an equivalence only for those that hold one.
- `ListsAreOfInvoices` and `LoneSavesSucceed` (parts of `TypeOK` and `SavesAreSound`),
  from `NumberInv`: the number a save counted for its list is free as long as it is alone
  and no invoice was ever deleted.

`Fulfilment` and `Stock`, in `PackingAndStock_proofs`, for any catalogue, any stored documents and any
sequence of saves and deletes:
- `StockStaysBalanced`, `InvoicesAreChased` and `FormsStayRight`: the whole of `StockBalances`,
  `ChasedUntilPlaced` and `FormsOfferTheRest`. One inductive invariant carries them,
  `StockInv`: every id was issued, a list is of a document that exists and has rows with boxes,
  a job out is of an invoice that exists and a job in of a job out, the rows of a job in are
  of designs of their product. What has to be shown of a step is that a cascade takes all that
  refers to what goes (`ReturnsGo`, `CascadeFits`), and that whatever form is filled in, typed
  or fetched anew has rows a table may hold (`PostedFits`, `JobLinesFit`, `CountedFits`).
  The properties then follow from `StockInv` alone, by what the operators compute:
  - *Stock.* Every row of a list is of one invoice and every row of a job in comes
    back under one, so the three totals are sums over invoices, and what is bought less what is
    sent is the sum of the invoices that have no challan (`NetIsOnHand`, `StockIsWorth`).
  - *Chasing.* SQL groups by the names of product and design as well, the dicts by `DesignKey` or
    `NameKey`. What is read from a dict is one group, so at most what is placed of the design
    (`OrderedAtMost`, `JobbedAtMost`), and all of it if there is no other group
    (`PlacedTotals`); where the invoice asks for a design by one name, its group there is
    all its rows, so comparing groups errs at most towards what is not placed
    (`LacksAreCompared`).
  - *Forms.* An order is offered its rows in shares of what is pending, each rounded to half a
    hundredth (`RoundedNear`), and shares of all rows of a design add up to what is pending
    (`RoundedSharesAdd`). A job in is offered one row per design of each line of its invoice: the
    lines of the job works, sorted by the invoice's line they are for and then by design, are each
    counted once (`OutputsTally`, `JobInsAreOffered`).
- For these the model too was brought to sums over places (`SumBoxes`, `RowAt`), and what may
  be stored at first is a named assumption where it was only an instance's value.

`Backup_proofs`, with any number of workers, requests and kills, and any database:
- `FilesAreServed` (the whole of `PathsAreServed`) and `BackupsStaySound` (the whole of
  `BackupsAreSound`), from one invariant, `IInv`, with six parts. `DataInv`: tables,
  files and the last download are well formed, and the download complete if nothing
  came between. `KnownInv`: a file that a request has stored and not yet written into a
  row is in no row, in no backup and in no other request's calls. `PairInv`: of two
  requests under way neither is alone, and who runs beside a restore knows it crossed one.
  `JobInv`: what is left of a request's list of calls is in order (`ListOk` for records,
  `BackupOk` for a download, `Follows` and `StageOk` for a restore). `ListOk` carries
  the argument about interleavings: a file is removed only right after it was found that
  no row names it (`Dead`), as the last but one call of a service that removes first, or
  once the company's row names another (`RemoveOk`); a row names a file only when its
  upload was called before (`TakeOk`); a path read at the start and written back at the
  end is still that row's own (`UpdateOk`). `StageOk` says what is on disk and in
  the snapshot after each call of a restore. `ServedInv`: a path is there, or its row is
  marked, or the one call that mends it is the next of its request.
- The step of `Count` is the heart of the first: whether a design names the image is read
  in one transaction and the file removed in a later call, with any number of calls
  of others between. It holds because a row can come to name a file only by copying a row that
  names it, or in a restore; and what is copied or restored beside other requests is
  marked `odd`.
- To be reasoned about, the model changed in form: paths carry the column they are for,
  and the images a delete has noted are one set, counted in any order, where they were a list.

`Records_proofs`, of the same steps, with `IInv` and a second invariant, `SInv`:
- `RecordsStaySound`, that `SInv` holds throughout, and from it `RecordTypesHold` and
  `EntriesStayDistinct` (the whole of `TypeOK` and of `EntriesDiffer`, two of the three conjuncts of
  `RecordsAreSound`). `SInv` says of the rows, of the last download, and of the download under
  way, that they are `IsSound`: every row is of its table's shape, refers to rows of the
  right tables that are there, lies in a folder of its own product, and no drop list holds
  a name twice. Of a request it says what it may still write: a row placed where the tables
  of then had room for it (`Placed`), or a name looked up and found new (`NewName`); `Evolves`
  is what every step of another request leaves true of that.
- ON DELETE CASCADE is computed by recursion over the rows (`Below`). It is the least set that
  holds the row and all that refers into it (`BelowCloses`): its layers grow until one adds
  nothing, which happens within as many as there are rows, and this is shown by counting up over a
  set of numbers, an induction the provers can instantiate. Hence no row left refers to one
  that went.
- That a name is unique rests on two layers of the code: COLLATE NOCASE in the look-up,
  of which nothing is left to a request that did not run alone, and the exact UNIQUE of the
  table, which holds for those: hence the two cases of `Differ`.

`SchemaMigration_proofs`, for any number of workers that start side by side on a database
of any version and are killed and started again at any statement:
- `TypesHold`, `NoRowIsLost`, `AtomicMovesAreHome`. `ProgramReads` says which statement
  stands at which of the 108 places of the program, `Listing` where each name is created,
  carried and dropped. `DataInv` then says of the committed database, and of the open
  transaction as its worker sees it, that it is `Sound` (a row is only where its home, its
  former place or its copy can be), that nothing is lost but what is `Discarded` (`Kept`), that what was retired is
  in a backup (`Shrunk`) and that a transaction holds what was read (`Fresh`). What a worker
  past some statement may rely on is its `Duty`: what is `Owed` at that place (a row whose
  copy was made is home) and how long it `Lasts`. Every kind of statement is shown right once
  (`CreateRight`, `CarryRight`, `DropRight`, `RenameRight`, `DeleteRight`) and then every
  action; that the others' duties survive follows as no statement ever adds a row
  to a former place.
- Not every place is inductive on its own: the rows the steps 102 to 106 carry need that
  these statements share one transaction, which the open transaction's worker has from an
  UPDATE before them.

With TLC only, and why:
- `UpMeansHome`, `UpMeansCurrent` and `StartsSucceed` of `SchemaMigration`: they are of one
  worker that is never killed, where the program is one fixed list of statements on databases
  of fixed versions, which TLC covers from end to end. A proof would need the shape of
  every name at each of the 109 places for each version, and be the same enumeration.
- `LoneRequestIsClean`, a conjunct of `RecordsAreSound`: that what one request nothing came
  between has saved is its form, list by list, and that it leaves no file behind. It needs a
  second invariant beside `SInv`, of what each kind of request still owes its row and the
  files it has noted; the other two conjuncts of `RecordsAreSound` are proved.
- `RequestsEnd`, a liveness property.

## 6. What the runs found

`PROJECT.json` lists each under `findings`, with the line quoted.

- `schema_stranded` (`UpMeansHome`, database.py:1473): ADD COLUMN tare_weight_kg commits on its own and is what the step's guard looks at: a worker killed before the UPDATEs leaves the typed weights in the old column for good, and the new one NULL; src/crm_app/app/database.py:245 says "Steps must be DATA-PRESERVING and idempotent: this method runs on every startup".

## 7. Not modelled, and the plan

Met while modelling and not turned into runs of their own:
- The labels page mints from the plan it read first; a save in between plans pallets
  whose labels it then drops (`services.py:8661`). `labels_serial` holds only because
  it runs one request per plan. Likewise two conversions of one lead (`services.py:752`).
- Dropping the label with the highest sequence makes COUNT + 1 issue the same QR id
  again for another pallet (`repositories.py:4989`): `FloorIdsDistinct` and
  `FloorIdsKept` are stated of labels whose pallet is still planned.
- The v13 step inserts into `exporters`, which schema.sql no longer creates, so a
  database of v12 with clients cannot be migrated (`database.py:790`). Two workers
  starting at once may both pass the test before an ALTER TABLE, and one then fails
  its start (`database.py:1244`).
- What is placed is grouped by id and name and read through a dict by id, which keeps the last
  group (`services.py:7880`, 8029, 4384, 4433). A product renamed between two orders, two
  lists or two invoices, or a design typed in other capitals, is therefore chased or
  offered again although all of it is placed. Hence `OneName` and `PlacedByOneName`. With
  two lists of one invoice an order's form is filled from the newer only.
- A start from v86 or before that finds `job_works` without tax columns adds them
  (`database.py:1950`-`1960`), and then rebuilds the table from a list of columns that has none of
  them (2192-2240), though `schema.sql:1739`-`1743` has; the version is stamped all the same. Until the
  next start, which finds them missing and adds them again, no job work can be saved.
  `UpMeansCurrent` excepts `job_work_tax` by name.
- An invoice with one product on two lines, or a product jobbed into two products,
  doubles or misattributes the rows a job in is offered. Hence `Once`.
- A share rounded to a hundredth of a box may leave 0.01 pending, which the form then
  offers as a blank row.
- Deleting an export invoice leaves the PDF of its bill of lading
  (`services.py:6718`); a permit or supplier PDF is removed before the row is written
  (`services.py:1507`); a company logo of the wrong type is refused after its row is
  committed (`services.py:1394`); a design whose second image or price is refused
  leaves the first image (`services.py:2194`); the product page drops `unit_kind`
  (`routes/products.py:258`); a restore whose second tree fails keeps the new database
  (`services.py:9799`), where its docstring promises both or none.

Left out, and why:
- Authentication, sessions, roles beyond admin and owner, and tenancy: every property
  here is of one tenant, and a request that is not allowed is a request that does not
  happen.
- Printed and exported documents, statistics, reports: read-only layout and sums.
- Taxes, prices, weights and pieces of the trade documents: columns computed from one
  form and read back by nothing but prints. The text rules of forms likewise.
- The packing-number arithmetic of packing plannings (`services.py:8107`-`8560`:
  shares of pallets, boxes left, weights). Pure, and planned next as operators
  checked against a reference definition.
- The purchase history of a design and its share of an order (`services.py:2482`).
- Migration blocks that only add a nullable column, the rename of v25, v37,
  `_pre_schema_migrate`, and the steps up to v13 (see `SchemaMigration`).
- In `Fulfilment` a packing list saved for a document that was deleted meanwhile
  (its reference becomes NULL) and deletion of the invoice itself, which `Documents`
  has; there is one invoice, confirmed.
- A design created while a restore puts another database under the request can end in
  a folder of another product, as the form's folder id is not looked up again before the
  INSERT (`RecordsAreSound` calls such rows odd). Deleting that product then takes the row and
  leaves the image. It takes three requests, so `LoneRequestIsClean` excepts it by name:
  an attempt to prove the invariant found it, not the run of two requests.

Next: the packing arithmetic; a specification of the label table as a book of ids
(`PackingLabels` refines it under `OneRequestPerPlan`); a proof of `LoneRequestIsClean`.
