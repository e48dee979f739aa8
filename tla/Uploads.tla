------------------------------ MODULE Uploads ------------------------------
(***************************************************************************)
(* Rows of the database that name uploaded files.  A handler reads what it *)
(* needs and is left with a list of calls: to the repositories, each a     *)
(* transaction of its own, and to the file system, which no transaction    *)
(* covers.  The calls of two requests interleave, and a worker may be      *)
(* killed between any two.  Catalogue and MasterData say which calls a     *)
(* handler makes and in which order, Backup replaces everything under it.  *)
(***************************************************************************)
EXTENDS Integers, Sequences, FiniteSets

CONSTANTS
    Workers,        \* threads of the server
    Stored,         \* the rows of a database in use
    MaxRequests,    \* bound: requests begun
    MaxKills        \* bound: workers killed
ASSUME BoundsAssumption == MaxRequests \in Nat /\ MaxKills \in Nat

None == 0                                   \* SQL NULL
Same == 0 - 1                               \* a column an UPDATE leaves alone
NoFile == [tree |-> "none", n |-> 0, slot |-> 0]    \* SQL NULL, in the column of a path
Keep == [tree |-> "same", n |-> 0, slot |-> 0]      \* such a column an UPDATE leaves alone
AsIs == "as it is"                          \* a text an UPDATE leaves alone

\* The folders of Config.*_UPLOAD_FOLDER, in the order a backup takes them.
Trees == <<"products", "purchase_invoices", "export_invoices", "permits">>
TreeNames == {Trees[t] : t \in DOMAIN Trees}

\* The services that remove a file before they write the row that names it.
RemovesFirst == {"permit", "purchase invoice", "export invoice"}

\* An uploaded file: its folder, the request that stored it, and the column it
\* is for; a company's logo is called logo_...
Logo == 3
Files == [tree : TreeNames, n : Int, slot : 1..Logo]

\* The columns of a table that name a file, and the files they name.
Columns(kind) == CASE kind \in {"design", "export invoice"} -> 2
                   [] kind \in {"company", "permit", "purchase invoice"} -> 1
                   [] OTHER -> 0
TreeOf(kind) == CASE kind = "purchase invoice" -> "purchase_invoices"
                  [] kind = "export invoice" -> "export_invoices"
                  [] kind = "permit" -> "permits"
                  [] OTHER -> "products"
Fits(file, kind, k) ==
    file \in Files /\ file.tree = TreeOf(kind) /\ file.slot = IF kind = "company" THEN Logo ELSE k

\* A row, with a file or none in each of its columns for one; those of the
\* services that remove first refer to no other row and have no name to be unique.
IsRow(row) ==
    /\ row = [field \in DOMAIN row |-> row[field]]
    /\ {"kind", "up", "side", "files", "text", "odd", "parts"} \subseteq DOMAIN row
    /\ row.odd \in BOOLEAN /\ DOMAIN row.files = 1..Columns(row.kind)
    /\ \A k \in DOMAIN row.files : row.files[k] = NoFile \/ Fits(row.files[k], row.kind, k)
    /\ row.kind \in RemovesFirst => row.up = None /\ row.side = None /\ row.text = ""

\* Rows as the requests leave them: only designs share a file.
NamesOf(table) ==
    (UNION {{table[i].files[k] : k \in DOMAIN table[i].files} : i \in DOMAIN table}) \ {NoFile}
IsTable(table) ==
    /\ \A i \in DOMAIN table : IsRow(table[i])
    /\ \A i, j \in DOMAIN table :
          \A k \in DOMAIN table[i].files \intersect DOMAIN table[j].files :
             table[i].files[k] = table[j].files[k] /\ table[i].files[k] # NoFile =>
                 \/ table[i].kind = "design" \/ i = j \/ (table[i].odd /\ table[j].odd)
ASSUME StoredAssumption == IsTable(Stored) /\ \A f \in NamesOf(Stored) : f.n <= 0

VARIABLES
    rows,       \* id -> row; odd: written from what may have been stale
    nextId,     \* AUTOINCREMENT
    disk,       \* the uploaded files
    job,        \* worker -> the request it is serving, or served last
    served,     \* requests begun so far: the contents of a form
    kills

Idle == [op |-> "idle"]
Serving(w) == job[w].op # "idle" /\ job[w].end = "no"

\* A new row as a form fills it: parts[1] is the row itself, the others are
\* the rows of its lists; text is a name that is unique, or of a product the
\* level its packing types are of.
Row(kind, up, side, files, lists, text) ==
    [kind |-> kind, up |-> up, side |-> side, files |-> files, text |-> text, odd |-> FALSE,
     parts |-> <<served + 1>> \o [k \in 1..lists |-> None]]

OfKind(k) == {i \in DOMAIN rows : rows[i].kind = k}
\* A node and all under it, where pairs say what is right under what.
Below(node, pairs) ==
    LET under[n \in 0..Cardinality(pairs)] ==
            IF n = 0 THEN {}
            ELSE LET above == {node} \union under[n - 1]
                 IN  {p[1] : p \in {q \in pairs : q[2] \in above}}
    IN  {node} \union under[Cardinality(pairs)]

\* The collision-proof name a file of the request that begins is stored under.
Fresh(tree, slot) == [tree |-> tree, n |-> served + 1, slot |-> slot]

\* _save_image, _save_pdf: nothing chosen, a file, or one of a wrong type,
\* which ends the request where it stands.
Store(tree, slot, chosen) ==
    CASE chosen = "file" -> <<[do |-> "store", file |-> Fresh(tree, slot)]>>
      [] chosen = "wrong type" -> <<[do |-> "refuse"]>>
      [] OTHER -> <<>>

\* os.remove, of a path that may be NULL or gone.
Removal(file) == IF file = NoFile THEN <<>> ELSE <<[do |-> "remove", file |-> file]>>

\* A call that is made for each of some things in turn.
ForEach(do, things) == IF things = {} THEN <<>> ELSE <<[do |-> do, each |-> things]>>

Deletion(kind, id) == <<[do |-> "delete", kind |-> kind, id |-> id]>>

\* The tables of the drop lists, one like the other: a name is looked up first.
MiscCurrency == "misc_currencies"
MiscNatureOfContract == "misc_nature_of_contracts"
MiscPortOfLoading == "misc_ports_of_loading"
MiscContainerType == "misc_container_types"
MiscHsnCode == "misc_hsn_codes"
MiscCountry == "misc_countries"
MiscUnit == "misc_units"
DropLists == {MiscCurrency, MiscNatureOfContract, MiscPortOfLoading, MiscContainerType,
              MiscHsnCode, MiscCountry, MiscUnit}

-----------------------------------------------------------------------------
(* Serving a request.                                                      *)

\* alone: no other request has been served at the same time; crossed: a restore
\* has.  before: what there was when it began, for the properties only.
Begin(w, op, kind, id, todo) ==
    /\ ~Serving(w) /\ served < MaxRequests
    /\ served' = served + 1
    /\ LET others == {v \in Workers \ {w} : Serving(v)}
           now == [op |-> op, kind |-> kind, id |-> id, form |-> served + 1, todo |-> todo,
                   alone |-> others = {}, crossed |-> \E v \in others : job[v].op = "restore",
                   end |-> "no", before |-> [rows |-> rows, disk |-> disk]]
       IN  job' = [v \in Workers |-> CASE v = w -> now
                                       [] v \in others -> [job[v] EXCEPT !.alone = FALSE,
                                                               !.crossed = @ \/ op = "restore"]
                                       [] OTHER -> Idle]
    /\ UNCHANGED <<rows, nextId, disk, kills>>

NextCall(w) == Head(job[w].todo)
At(w, do) == Serving(w) /\ job[w].todo # <<>> /\ NextCall(w).do = do
Go(w, todo) == job' = [job EXCEPT ![w].todo = todo, ![w].end = IF todo = <<>> THEN "ok" ELSE "no"]
Pop(w) == Go(w, Tail(job[w].todo))
Fail(w) == job' = [job EXCEPT ![w].todo = <<>>, ![w].end = "failed"]

\* The row a call is about: the one the request has inserted, if it names none.
About(w) == IF NextCall(w).id = None THEN job[w].id ELSE NextCall(w).id
Found(w) == About(w) \in OfKind(job[w].kind)

\* What a request writes from what it read may be stale by then.
Stale(w) ==
    \/ job[w].crossed
    \/ ~job[w].alone /\ (job[w].op = "duplicate" \/ job[w].kind \in RemovesFirst \union DropLists)

\* The tables a row may refer to: a category its parent, a product its category,
\* a folder and a design their product and the folder they are in.
UpOf(kind) == CASE kind \in {"category", "product"} -> {"category"}
                [] kind \in {"folder", "design"} -> {"product"}
                [] OTHER -> {}
SideOf(kind) == IF kind \in {"folder", "design"} THEN {"folder"} ELSE {}

\* FOREIGN KEY and UNIQUE constraints of a row.
Referable(i, kinds) == i = None \/ (i \in DOMAIN rows /\ rows[i].kind \in kinds)
Admissible(row, id) ==
    /\ Referable(row.up, UpOf(row.kind)) /\ Referable(row.side, SideOf(row.kind))
    /\ \A i \in OfKind(row.kind) \ {id} : row.text = rows[i].text => row.text = "" \/ row.kind = "product"

\* INSERT, of AUTOINCREMENT id.
Insert(w) ==
    /\ At(w, "insert")
    /\ LET row == [NextCall(w).row EXCEPT !.odd = @ \/ Stale(w)] IN
       IF Admissible(row, None)
         THEN /\ rows' = [i \in DOMAIN rows \union {nextId} |-> IF i = nextId THEN row ELSE rows[i]]
              /\ nextId' = nextId + 1
              /\ LET todo == Tail(job[w].todo) IN
                 job' = [job EXCEPT ![w].id = nextId, ![w].todo = todo,
                                    ![w].end = IF todo = <<>> THEN "ok" ELSE "no"]
         ELSE Fail(w) /\ UNCHANGED <<rows, nextId>>
    /\ UNCHANGED <<disk, served, kills>>

\* UPDATE ... WHERE id = ?: of a row that is gone, nothing happens.
Updated(row, call, form, stale) ==
    [row EXCEPT !.up = IF call.up = Same THEN @ ELSE call.up,
                !.text = IF call.text = AsIs THEN @ ELSE call.text,
                !.files = [k \in DOMAIN @ |-> IF call.files[k] = Keep THEN @[k] ELSE call.files[k]],
                !.parts[1] = IF call.head THEN form ELSE @,
                !.odd = @ \/ stale]
Update(w) ==
    /\ At(w, "update")
    /\ IF ~Found(w) THEN Pop(w) /\ UNCHANGED rows
       ELSE LET row == Updated(rows[About(w)], NextCall(w), job[w].form, Stale(w)) IN
            IF Admissible(row, About(w)) THEN Pop(w) /\ rows' = [rows EXCEPT ![About(w)] = row]
                                         ELSE Fail(w) /\ UNCHANGED rows
    /\ UNCHANGED <<nextId, disk, served, kills>>

\* DELETE and INSERTs of the rows of a list: they refer to their row.
Replace(w) ==
    /\ At(w, "replace")
    /\ IF Found(w)
         THEN /\ rows' = [rows EXCEPT ![About(w)].parts[NextCall(w).part] = NextCall(w).with,
                                      ![About(w)].text = IF NextCall(w).text = AsIs THEN @ ELSE NextCall(w).text]
              /\ Pop(w)
         ELSE /\ IF NextCall(w).with = None THEN Pop(w) ELSE Fail(w)
              /\ UNCHANGED rows
    /\ UNCHANGED <<nextId, disk, served, kills>>

\* DELETE ... WHERE id = ?, with all that ON DELETE CASCADE reaches.
Cascade(id) == Below(id, {<<i, rows[i].up>> : i \in DOMAIN rows}
                         \union {<<i, rows[i].side>> : i \in DOMAIN rows})
Delete(w) ==
    /\ At(w, "delete")
    /\ LET gone == IF NextCall(w).id \in OfKind(NextCall(w).kind) THEN Cascade(NextCall(w).id) ELSE {}
       IN  rows' = [i \in DOMAIN rows \ gone |-> rows[i]]
    /\ Pop(w)
    /\ UNCHANGED <<nextId, disk, served, kills>>

\* The file system.
Write(w) == /\ At(w, "store")
            /\ disk' = disk \union {NextCall(w).file}
            /\ Pop(w)
            /\ UNCHANGED <<rows, nextId, served, kills>>
Unlink(w) == /\ At(w, "remove")
             /\ disk' = disk \ {NextCall(w).file}
             /\ Pop(w)
             /\ UNCHANGED <<rows, nextId, served, kills>>
Refuse(w) == /\ At(w, "refuse")
             /\ Fail(w)
             /\ UNCHANGED <<rows, nextId, disk, served, kills>>

\* The worker is killed.  What it was writing file first stays half done; so
\* does everything, if it was swapping a backup in.
Kill(w) ==
    /\ Serving(w) /\ kills < MaxKills
    /\ kills' = kills + 1
    /\ job' = [job EXCEPT ![w] = Idle]
    /\ rows' = [i \in DOMAIN rows |->
                   [rows[i] EXCEPT !.odd = @ \/ job[w].op = "restore"
                                             \/ (i = job[w].id /\ job[w].kind \in RemovesFirst)]]
    /\ UNCHANGED <<nextId, disk, served>>

\* One more call of the request.
Call(w) == \/ Insert(w) \/ Update(w) \/ Replace(w) \/ Delete(w)
           \/ Write(w) \/ Unlink(w) \/ Refuse(w)
=============================================================================
