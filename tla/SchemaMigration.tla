--------------------------- MODULE SchemaMigration ---------------------------
(***************************************************************************)
(* What Database.init_schema does to a database of an older version, one   *)
(* SQL statement at a time, in one or several workers, any of which may    *)
(* die between two statements and be started again.                        *)
(*                                                                         *)
(* The blocks of _migrate are data: Program is their sequence of           *)
(* statements, and the actions below run it under the rules of Python's    *)
(* sqlite3: a CREATE, ALTER or DROP commits on its own unless an INSERT,   *)
(* UPDATE or DELETE has opened a transaction, which then stays open, from  *)
(* block to block, until the next conn.commit().                           *)
(*                                                                         *)
(* A name is a table or a column. What is stored is a row per name that    *)
(* some block carries data to or retires: the row is called after the name *)
(* that holds it in the current schema, its home. A row of a column that   *)
(* some block drops for good has the name of the column.                   *)
(***************************************************************************)
EXTENDS Integers, Sequences, FiniteSets

CONSTANTS Workers,   \* the processes that call init_schema
          Vintages,  \* the schema versions a database may arrive at
          MayDie,    \* BOOLEAN: a worker may be killed during its start
          None       \* no worker

SchemaVersion == 104
Current == SchemaVersion + 1

ASSUME ConstantsOK ==
    /\ IsFiniteSet(Workers) /\ Workers # {} /\ None \notin Workers
    /\ Vintages \subseteq 0..SchemaVersion   \* no later version than the program's
    /\ MayDie \in BOOLEAN

(***************************************************************************)
(* The versions that have each name: from the first to before the second.  *)
(* Version 0 is a file without tables: a fresh install.                    *)
(***************************************************************************)
Life ==
    [ clients |-> <<1, 13>>, buyers |-> <<13, Current>>,
      exporters |-> <<13, 55>>, product_pallet_types |-> <<1, Current>>,
      purchase_invoices |-> <<17, Current>>,
      pi_item_order |-> <<62, Current>>, pi_order_links |-> <<62, Current>>,
      export_invoices |-> <<21, Current>>, buyer_orders |-> <<21, 26>>,
      buyer_order_no |-> <<26, Current>>, c_no |-> <<30, 33>>,
      vessel_voyage_no |-> <<41, 56>>, vessel_name |-> <<56, Current>>,
      voyage_no |-> <<56, Current>>,
      tare_weight |-> <<27, 52>>, tare_weight_kg |-> <<52, Current>>,
      quotation_details |-> <<1, 64>>, quotation_containers |-> <<64, Current>>,
      proforma_details |-> <<1, 65>>, proforma_containers |-> <<65, Current>>,
      permit_supplier |-> <<23, 24>>, lead_id |-> <<12, 67>>,
      line_design |-> <<77, 78>>,
      item_designs |-> <<78, 104>>, designs_lists |-> <<79, 103>>,
      job_works |-> <<80, Current>>, job_works_rebuilt |-> <<0, 0>>,
      job_work_tax |-> <<87, Current>>,
      job_work_items |-> <<80, Current>>, quantity_boxes |-> <<80, 84>>,
      jobed_quantity |-> <<80, 86>>, jobed_unit |-> <<81, 86>>,
      job_quantity |-> <<80, Current>>, source_quantity |-> <<86, Current>>,
      weight_kg |-> <<72, Current>>, unit_kind |-> <<94, Current>>,
      production |-> <<95, Current>>, production_old |-> <<0, 0>>,
      production_index |-> <<95, Current>> ]
Names == DOMAIN Life
InSchema == {n \in Names : Life[n][2] = Current}

(***************************************************************************)
(* Columns live in a table, and are created with it: the script makes a    *)
(* column only if it makes the table, and a DROP TABLE takes its columns.  *)
(* Tables that arrived together share a name, and so do columns that are   *)
(* added and dropped together. Every other name is its own table.          *)
(***************************************************************************)
TableOf(n) ==
    CASE n \in {"buyer_order_no", "c_no", "vessel_voyage_no", "vessel_name",
                "voyage_no", "tare_weight", "tare_weight_kg",
                "line_design"} -> "export_invoices"
      [] n = "pi_item_order" -> "purchase_invoices"
      [] n \in {"quantity_boxes", "jobed_quantity", "jobed_unit", "job_quantity",
                "source_quantity"} -> "job_work_items"
      [] n = "job_work_tax" -> "job_works"
      [] n \in {"weight_kg", "unit_kind"} -> "product_pallet_types"
      [] OTHER -> n

\* Where a row was before its home existed.
Former ==
    [ buyers |-> "clients", buyer_order_no |-> "buyer_orders",
      tare_weight_kg |-> "tare_weight", vessel_name |-> "vessel_voyage_no",
      pi_item_order |-> "purchase_invoices", pi_order_links |-> "purchase_invoices",
      quotation_containers |-> "quotation_details",
      proforma_containers |-> "proforma_details",
      source_quantity |-> "job_quantity", unit_kind |-> "weight_kg" ]
\* Rows whose document or party is retired: they leave for a backup.
Retired == {"c_no", "exporters", "item_designs", "designs_lists"}
\* What is dropped with no copy and no backup: the changelog says that each is
\* of no more use.
Discarded == {"permit_supplier", "lead_id", "line_design", "quantity_boxes",
              "jobed_quantity", "jobed_unit"}
Rows == DOMAIN Former \cup Retired \cup Discarded
            \cup {"job_works", "job_work_items", "production"}

-----------------------------------------------------------------------------
VARIABLES
    db,       \* the committed database: the shape and rows of each name, version
    pending,  \* the database as the open transaction sees it, None if none is open
    writer,   \* the worker whose transaction that is
    at,       \* each worker's next statement: 0 down, Up serving
    fk,       \* whether each worker's connection enforces foreign keys
    backups,  \* the copies in instance/backups, each by its rows
    facts,    \* history: the rows the database arrived with
    failed    \* history: whether a start ended in an exception

vars == <<db, pending, writer, at, fk, backups, facts, failed>>

Shapes == {"absent", "old", "new"}
Databases == [shape : [Names -> Shapes], rows : [Names -> SUBSET Rows],
              version : 0..SchemaVersion]

-----------------------------------------------------------------------------
(***************************************************************************)
(* Statements. Guards are the tests the blocks make on PRAGMA table_info,  *)
(* sqlite_master, row counts and user_version.                             *)
(***************************************************************************)
Always == [present |-> {}, missing |-> {}, old |-> {}, filled |-> {},
           empty |-> {}, below |-> Current]
Missing(n) == [Always EXCEPT !.missing = {n}]
Present(n) == [Always EXCEPT !.present = {n}]
MissingFrom(n, t) == [Always EXCEPT !.missing = {n}, !.present = {t}]
OldShape(n) == [Always EXCEPT !.old = {n}]
Filled(n) == [Always EXCEPT !.filled = {n}]
Empty(n) == [Always EXCEPT !.empty = {n}]
PresentBelow(n, v) == [Always EXCEPT !.present = {n}, !.below = v]

Create(n) == [op |-> "create", name |-> n]
CreateIfMissing(n) == [op |-> "createIfMissing", name |-> n]
Drop(n) == [op |-> "drop", name |-> n]
DropIfExists(n) == [op |-> "dropIfExists", name |-> n]
Rename(from, to) == [op |-> "rename", name |-> from, to |-> to]
\* INSERT INTO to SELECT ... FROM from, which carries the rows called row; it
\* fails on a key already there if keyed, and on a from of a shape it cannot read.
Carry(op, from, to, row, keyed, reads) ==
    [op |-> op, name |-> from, to |-> to, row |-> row, keyed |-> keyed, reads |-> reads]
Insert(from, to) == Carry("insert", from, to, to, TRUE, {"old", "new"})
InsertUnkeyed(from, to) == Carry("insert", from, to, to, FALSE, {"old", "new"})
InsertAs(row, from, to) == Carry("insert", from, to, row, TRUE, {"old"})
\* UPDATE of the column to from the column from.
Update(from, to) == Carry("update", from, to, to, FALSE, {"old", "new"})
\* The same as one UPDATE for each row that a SELECT returned: it reads no more.
UpdateRows(from, to) == Carry("update", from, to, to, FALSE, Shapes)
Delete(n) == [op |-> "delete", name |-> n]
Commit == [op |-> "commit"]
Backup == [op |-> "backup"]
Begin == [op |-> "begin"]
Connect(enforce) == [op |-> "connect", fk |-> enforce]
Script == [op |-> "script"]
Stamp == [op |-> "stamp"]

\* Python's "if cond: body".
When(cond, body) ==
    <<[op |-> "if", cond |-> cond, skip |-> Len(body)]>> \o body
UpdateEach(from, to) == When(Filled(from), <<UpdateRows(from, to)>>)
AddColumn(n, t) == When(MissingFrom(n, t), <<Create(n)>>)
DropColumn(n) == When(Present(n), <<Drop(n)>>)

-----------------------------------------------------------------------------
(***************************************************************************)
(* The program, block by block, in the order of init_schema.               *)
(***************************************************************************)
\* v13. No statement after the second INSERT is reached: the schema script
\* makes no exporters table.
ClientSplit ==
    When(Present("clients"),
         <<Commit, Backup, Insert("clients", "buyers"), Insert("clients", "exporters")>>)

\* v24
PermitSupplier == DropColumn("permit_supplier")

\* Deviation: the table is dropped before its rows are written.
BuyerOrders_DropFirst ==
    AddColumn("buyer_order_no", "export_invoices")
    \o When(Present("buyer_orders"),
            <<Drop("buyer_orders")>> \o UpdateEach("buyer_orders", "buyer_order_no"))

\* v26
BuyerOrders ==
    AddColumn("buyer_order_no", "export_invoices")
    \o When(Present("buyer_orders"),
            UpdateEach("buyer_orders", "buyer_order_no") \o <<Drop("buyer_orders")>>)

\* v27, on every start: v52 has dropped it
TareText == AddColumn("tare_weight", "export_invoices")

\* v33
DeadFields == When(Present("c_no"), <<Commit, Backup, Drop("c_no")>>)

\* v41, on every start: v56 has dropped it
VesselVoyage == AddColumn("vessel_voyage_no", "export_invoices")

\* Deviation: the old column goes before its values are carried.
TareWeight_DropFirst ==
    When(MissingFrom("tare_weight_kg", "tare_weight"),
         <<Create("tare_weight_kg"), Drop("tare_weight")>>
         \o UpdateEach("tare_weight", "tare_weight_kg"))

\* v52
TareWeight ==
    When(MissingFrom("tare_weight_kg", "tare_weight"),
         <<Create("tare_weight_kg")>>
         \o UpdateEach("tare_weight", "tare_weight_kg")
         \o <<Drop("tare_weight")>>)

\* v55: the four DELETEs take what was attached to an exporter
DropExporters ==
    When(Present("exporters"), <<Commit, Backup, Delete("exporters"), Drop("exporters")>>)

\* v56
VesselName ==
    When(MissingFrom("vessel_name", "vessel_voyage_no"),
         <<Create("vessel_name"), Create("voyage_no"),
           Update("vessel_voyage_no", "vessel_name"), Drop("vessel_voyage_no")>>)

\* v62
OrderLinks ==
    When(MissingFrom("pi_item_order", "purchase_invoices"),
         <<Create("pi_item_order"), Update("purchase_invoices", "pi_item_order")>>)
    \o When(Empty("pi_order_links"),
            <<Insert("purchase_invoices", "pi_order_links")>>)

\* v64, v65
Containers(details, containers) ==
    <<CreateIfMissing(containers)>>
    \o When(Present(details), <<InsertUnkeyed(details, containers), Drop(details)>>)

\* v67: of proforma invoices, purchase orders and packing lists
LeadIds == DropColumn("lead_id")

\* v72
PalletWeight == AddColumn("weight_kg", "product_pallet_types")

\* v77, v78: added and dropped on every start
LineDesigns == AddColumn("line_design", "export_invoices") \o DropColumn("line_design")

\* v78, v79, on every start: v103 and v104 drop them again
DesignTables == <<CreateIfMissing("item_designs"), CreateIfMissing("designs_lists")>>

\* v81, v85, v86, v84: jobed_unit is added and dropped on every start
JobQuantities ==
    AddColumn("jobed_unit", "job_work_items")
    \o When(PresentBelow("job_work_items", 85),
            <<Update("job_work_items", "job_work_items")>>)
    \o When(MissingFrom("source_quantity", "job_work_items"),
            <<Create("source_quantity"), Update("job_quantity", "source_quantity")>>)
    \o DropColumn("jobed_quantity") \o DropColumn("jobed_unit")
    \o DropColumn("quantity_boxes")

\* v87
JobWorkTax == AddColumn("job_work_tax", "job_works")

\* v94
UnitKind ==
    When(MissingFrom("unit_kind", "product_pallet_types"),
         <<Create("unit_kind"), Update("weight_kg", "unit_kind")>>)

\* Deviation: CREATE TABLE IF NOT EXISTS alone, with no check of the shape.
Production_ShapeUnchecked ==
    <<CreateIfMissing("production"),
      DropIfExists("production_index"), Create("production_index")>>

\* v95: the old shape is that of the first cut
Production ==
    <<CreateIfMissing("production")>>
    \o When(OldShape("production"),
            <<DropIfExists("production_index"), Rename("production", "production_old"),
              Create("production"), Insert("production_old", "production"),
              Drop("production_old")>>)
    \o <<DropIfExists("production_index"), Create("production_index")>>

\* v103, v104
RetireDesigns ==
    When(Present("designs_lists"), <<Commit, Backup, Drop("designs_lists")>>)
    \o When(Present("item_designs"), <<Commit, Backup, Drop("item_designs")>>)

\* The statements that put job_works into the shape of v83. The new table has not
\* the columns that JobWorkTax has just added to the old one.
Rebuilding ==
    <<Begin, Create("job_works_rebuilt"),
      InsertAs("job_works", "job_works", "job_works_rebuilt"),
      Drop("job_works"), Rename("job_works_rebuilt", "job_works")>>

\* Deviation: on a connection of Database, which enforces foreign keys.
RebuildJobWorks_KeysOn ==
    <<Connect(TRUE)>> \o When(OldShape("job_works"), Rebuilding \o <<Commit>>)

\* Deviation: no COMMIT.
RebuildJobWorks_NoCommit ==
    <<Connect(FALSE)>> \o When(OldShape("job_works"), Rebuilding)

\* A connection of its own: foreign keys off, one explicit transaction.
RebuildJobWorks ==
    <<Connect(FALSE)>> \o When(OldShape("job_works"), Rebuilding \o <<Commit>>)

Migrate ==
    <<Connect(TRUE)>>
    \o ClientSplit \o PermitSupplier \o BuyerOrders \o TareText \o DeadFields \o VesselVoyage
    \o TareWeight \o DropExporters \o VesselName \o OrderLinks
    \o Containers("quotation_details", "quotation_containers")
    \o Containers("proforma_details", "proforma_containers")
    \o LeadIds \o PalletWeight \o LineDesigns \o DesignTables \o JobQuantities
    \o JobWorkTax \o UnitKind \o Production \o RetireDesigns \o <<Commit>>

InitSchema ==
    <<Connect(TRUE), Script>> \o Migrate \o RebuildJobWorks \o <<Connect(TRUE), Stamp>>

Program == InitSchema
Up == Len(Program) + 1

-----------------------------------------------------------------------------
(***************************************************************************)
(* What a statement needs of the database d, and what it makes of it.      *)
(***************************************************************************)
Here(d, n) == d.shape[n] # "absent"

Holds(c, d) ==
    /\ \A n \in c.present \cup c.old \cup c.filled \cup c.empty : Here(d, n)
    /\ \A n \in c.missing : ~Here(d, n)
    /\ \A n \in c.old : d.shape[n] = "old"
    /\ \A n \in c.filled : d.rows[n] # {}
    /\ \A n \in c.empty : d.rows[n] = {}
    \* get_schema_version opens a connection: it sees what is committed
    /\ db.version < c.below

Moved(s, d) == d.rows[s.name] \cap {s.row}

Indexable(d) == d.shape["production"] = "new"

Legal(s, d) ==
    CASE s.op = "create" ->
            ~Here(d, s.name) /\ (s.name = "production_index" => Indexable(d))
      [] s.op \in {"drop", "delete"} -> Here(d, s.name)
      [] s.op = "rename" -> Here(d, s.name) /\ ~Here(d, s.to)
      [] s.op \in {"insert", "update"} ->
            /\ Here(d, s.to) /\ d.shape[s.name] \in s.reads
            /\ s.keyed => Moved(s, d) \cap d.rows[s.to] = {}
      [] s.op = "script" -> Here(d, "production_index") \/ ~Here(d, "production") \/ Indexable(d)
      [] OTHER -> TRUE

Put(d, n, shape, rows) == [d EXCEPT !.shape[n] = shape, !.rows[n] = rows]

\* schema.sql: every table that is missing, with its columns, and the index.
Scripted(d) ==
    [d EXCEPT !.shape = [n \in Names |->
        IF n \in InSchema /\ ~Here(d, n) /\ ~Here(d, TableOf(n)) THEN "new" ELSE d.shape[n]]]

\* A table goes with its columns. DROP TABLE deletes the rows first, which
\* cascades if keys are enforced.
Dropped(d, n, enforce) ==
    LET lost == {m \in Names : m = n \/ TableOf(m) = n}
        gone == [d EXCEPT !.shape = [m \in Names |-> IF m \in lost THEN "absent" ELSE @[m]],
                          !.rows = [m \in Names |-> IF m \in lost THEN {} ELSE @[m]]]
    IN IF n = "job_works" /\ enforce
       THEN [gone EXCEPT !.rows["job_work_items"] = {}]
       ELSE gone

Result(s, d, enforce) ==
    CASE s.op \in {"create", "createIfMissing"} ->
            IF Here(d, s.name) THEN d ELSE Put(d, s.name, "new", {})
      [] s.op \in {"drop", "dropIfExists"} -> Dropped(d, s.name, enforce)
      [] s.op = "rename" ->
            Put(Put(d, s.to, d.shape[s.name], d.rows[s.name]), s.name, "absent", {})
      [] s.op \in {"insert", "update"} ->
            [d EXCEPT !.rows[s.to] = @ \cup Moved(s, d)]
      [] s.op = "delete" -> [d EXCEPT !.rows[s.name] = {}]
      [] s.op = "script" -> Scripted(d)
      [] s.op = "stamp" -> [d EXCEPT !.version = SchemaVersion]

-----------------------------------------------------------------------------
(***************************************************************************)
(* Running it.                                                             *)
(***************************************************************************)
Lived(n, v) == Life[n][1] <= v /\ v < Life[n][2]

\* Where a database of version v keeps a row, if it knows the row at all.
Places(r, v) ==
    {n \in {r} \cup (IF r \in DOMAIN Former /\ ~Lived(r, v) THEN {Former[r]} ELSE {}) :
        Lived(n, v)}

ShapeAt(n, v, firstCut) ==
    IF ~Lived(n, v) THEN "absent"
    ELSE IF (n = "job_works" /\ v < 83) \/ (n = "production" /\ firstCut)
         THEN "old" ELSE "new"

\* A database that is full, without linked purchase invoices, or empty.
Fillings(v) ==
    LET known == {r \in Rows : Places(r, v) # {}}
    IN {known, known \ {"pi_order_links", "pi_item_order"}, {}}

Init ==
    /\ \E v \in Vintages, firstCut \in BOOLEAN :
        /\ firstCut => v = 95
        /\ facts \in Fillings(v)
        /\ db = [ shape |-> [n \in Names |-> ShapeAt(n, v, firstCut)],
                  rows |-> [n \in Names |-> {r \in facts : n \in Places(r, v)}],
                  version |-> v ]
    /\ pending = None /\ writer = None
    /\ at = [w \in Workers |-> 0]
    /\ fk = [w \in Workers |-> TRUE]
    /\ backups = {} /\ failed = FALSE

Starting(w) == at[w] \in 1..Len(Program)
Statement(w) == Program[at[w]]
Advance(w) == at' = [at EXCEPT ![w] = @ + 1]
View(w) == IF writer = w THEN pending ELSE db
\* A second writer waits for the first.
MayWrite(w) == writer \in {None, w}

DdlOps == {"create", "createIfMissing", "drop", "dropIfExists", "rename", "script", "stamp"}
DmlOps == {"insert", "update", "delete"}

StartUp(w) ==
    /\ at[w] = 0
    /\ at' = [at EXCEPT ![w] = 1]
    /\ UNCHANGED <<db, pending, writer, fk, backups, facts, failed>>

Branch(w) ==
    /\ Starting(w) /\ Statement(w).op = "if"
    /\ at' = [at EXCEPT ![w] = @ + 1 +
                 IF Holds(Statement(w).cond, View(w)) THEN 0 ELSE Statement(w).skip]
    /\ UNCHANGED <<db, pending, writer, fk, backups, facts, failed>>

Ddl(w) ==
    /\ Starting(w) /\ Statement(w).op \in DdlOps
    /\ MayWrite(w) /\ Legal(Statement(w), View(w))
    /\ LET d == Result(Statement(w), View(w), fk[w])
       IN IF writer = w THEN pending' = d /\ db' = db
                        ELSE db' = d /\ pending' = pending
    /\ Advance(w)
    /\ UNCHANGED <<writer, fk, backups, facts, failed>>

Dml(w) ==
    /\ Starting(w) /\ Statement(w).op \in DmlOps
    /\ MayWrite(w) /\ Legal(Statement(w), View(w))
    /\ writer' = w
    /\ pending' = Result(Statement(w), View(w), fk[w])
    /\ Advance(w)
    /\ UNCHANGED <<db, fk, backups, facts, failed>>

BeginTransaction(w) ==
    /\ Starting(w) /\ Statement(w).op = "begin"
    /\ writer = None
    /\ writer' = w /\ pending' = db
    /\ Advance(w)
    /\ UNCHANGED <<db, fk, backups, facts, failed>>

CommitTransaction(w) ==
    /\ Starting(w) /\ Statement(w).op = "commit"
    /\ db' = View(w)
    /\ IF writer = w THEN writer' = None /\ pending' = None
                     ELSE UNCHANGED <<writer, pending>>
    /\ Advance(w)
    /\ UNCHANGED <<fk, backups, facts, failed>>

\* The connection before it is closed, and a transaction open on it rolled back.
OpenConnection(w) ==
    /\ Starting(w) /\ Statement(w).op = "connect"
    /\ fk' = [fk EXCEPT ![w] = Statement(w).fk]
    /\ IF writer = w THEN writer' = None /\ pending' = None
                     ELSE UNCHANGED <<writer, pending>>
    /\ Advance(w)
    /\ UNCHANGED <<db, backups, facts, failed>>

\* _backup_db_file copies the file: what is committed.
BackupFile(w) ==
    /\ Starting(w) /\ Statement(w).op = "backup"
    /\ backups' = backups \cup {UNION {db.rows[n] : n \in Names}}
    /\ Advance(w)
    /\ UNCHANGED <<db, pending, writer, fk, facts, failed>>

\* Deviation: the transaction is gone and its lock stays.
Fall_KeepsLock(w) ==
    /\ at' = [at EXCEPT ![w] = 0]
    /\ pending' = IF writer = w THEN None ELSE pending
    /\ UNCHANGED <<db, writer, fk, backups, facts>>

\* The worker is down and its transaction rolled back.
Fall(w) ==
    /\ at' = [at EXCEPT ![w] = 0]
    /\ IF writer = w THEN writer' = None /\ pending' = None
                     ELSE UNCHANGED <<writer, pending>>
    /\ UNCHANGED <<db, fk, backups, facts>>

\* The statement raises and the exception leaves init_schema.
Raise(w) ==
    /\ Starting(w) /\ Statement(w).op \in DdlOps \cup DmlOps
    /\ MayWrite(w) /\ ~Legal(Statement(w), View(w))
    /\ Fall(w)
    /\ failed' = TRUE

\* Killed, or answered "database is locked", between two statements.
Crash(w) ==
    /\ MayDie /\ Starting(w)
    /\ Fall(w)
    /\ UNCHANGED failed

\* A serving worker is restarted.
Stop(w) ==
    /\ at[w] = Up
    /\ Fall(w)
    /\ UNCHANGED failed

Next ==
    \E w \in Workers :
        \/ StartUp(w) \/ Branch(w) \/ Ddl(w) \/ Dml(w)
        \/ BeginTransaction(w) \/ CommitTransaction(w) \/ OpenConnection(w)
        \/ BackupFile(w) \/ Raise(w) \/ Crash(w) \/ Stop(w)

Spec == Init /\ [][Next]_vars

-----------------------------------------------------------------------------
\* Every variable keeps its type, and a transaction is open when it has a writer.
TypeOK ==
    /\ db \in Databases
    /\ writer \in Workers \cup {None}
    /\ IF writer = None THEN pending = None ELSE pending \in Databases
    /\ at \in [Workers -> 0..Up]
    /\ fk \in [Workers -> BOOLEAN]
    /\ backups \subseteq SUBSET Rows
    /\ facts \subseteq Rows /\ failed \in BOOLEAN

InBackup(r) == \E b \in backups : r \in b
AtHome(r) == IF r \in Retired THEN InBackup(r) ELSE r \in db.rows[r]

\* Whatever a start does and wherever it stops, every row the database arrived
\* with is still committed somewhere, or, retired, is in a backup, but for those of
\* the columns that are discarded by design: a block's copy, DROP and commits may
\* not come in an order that leaves a moment with neither.
NothingLost ==
    \A r \in facts \ Discarded :
        (r \in Retired /\ InBackup(r)) \/ \E n \in Names : r \in db.rows[n]

Serving == \E w \in Workers : at[w] = Up

\* When init_schema returns, each row that is not discarded is where the current
\* code reads it, and a retired one is in a backup.
UpMeansHome == Serving => \A r \in facts \ Discarded : AtHome(r)

\* When init_schema returns, the version is the program's and every name is there
\* in its current shape, but for the tax columns of job_works: a start that has to
\* rebuild the table adds them to the old one, rebuilds it without them and stamps
\* the version all the same. (The next start finds them missing and adds them.)
UpMeansCurrent ==
    Serving =>
        /\ db.version = SchemaVersion
        /\ \A n \in InSchema \ {"job_work_tax"} : db.shape[n] = "new"

\* The moves whose copy and DROP share a transaction (buyer orders, containers,
\* job works and their lines), and the rows that are backed up and then dropped,
\* are complete whenever a start is, however many died or ran beside it.
Atomic == Retired \cup {"buyer_order_no", "quotation_containers", "proforma_containers",
                        "job_works", "job_work_items"}
AtomicMovesHome == Serving => \A r \in facts \cap Atomic : AtHome(r)

\* No start ends in an exception.
StartsSucceed == ~failed

=============================================================================
