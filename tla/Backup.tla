------------------------------- MODULE Backup -------------------------------
(***************************************************************************)
(* BackupService over the whole of the data: the database is copied in one *)
(* moment, the upload folders one after the other while other requests go  *)
(* on; a restore first keeps a copy of what is there, then replaces the    *)
(* database in one moment and each folder by moving it aside and copying   *)
(* the other in.                                                           *)
(***************************************************************************)
EXTENDS Catalogue, MasterData, Functions

CONSTANTS
    Earlier     \* the backup the admin has at hand at first

\* A backup that is whole holds every file its rows name.
Complete(backup) ==
    backup.whole => \A i \in DOMAIN backup.rows : \A k \in DOMAIN backup.rows[i].files :
                        backup.rows[i].odd \/ backup.rows[i].files[k] \in backup.files \union {NoFile}
ASSUME EarlierAssumption ==
    /\ IsTable(Earlier.rows) /\ \A f \in NamesOf(Earlier.rows) : f.n <= 0
    /\ Earlier.files \subseteq Files /\ Earlier.whole \in BOOLEAN /\ Complete(Earlier)

\* A database as the schema and the services keep it.  The lists beside a row:
ListsOf(kind) == CASE kind = "company" -> 5
                   [] kind = "supplier" -> 3
                   [] kind = "booking" -> 2
                   [] kind \in {"transporter", "product"} -> 1
                   [] OTHER -> 0
IsRecord(row) ==
    /\ DOMAIN row = {"kind", "up", "side", "files", "text", "odd", "parts"}
    /\ row.files = [k \in 1..Columns(row.kind) |-> row.files[k]]
    /\ row.parts = [k \in 1..ListsOf(row.kind) + 1 |-> row.parts[k]]
    /\ row.kind = "product" => row.text # AsIs /\ (row.parts[2] = None => row.text = "")
\* What it refers to is there and of the right kind;
LeadsTo(i, kinds, table) == i = None \/ (i \in DOMAIN table /\ table[i].kind \in kinds)
\* what is in a folder is in the product of the folder, where nothing was stale;
Belongs(row, table) == row.side \in DOMAIN table => table[row.side].up = row.up
\* and no drop list holds a name twice, in whatever case, unless two requests
\* wrote to it at once; and then not in the same letters.
Differ(table) ==
    \A i, j \in DOMAIN table :
        (i # j /\ table[i].kind \in DropLists /\ table[i].kind = table[j].kind) =>
            IF table[i].odd \/ table[j].odd THEN table[i].text # table[j].text
                                           ELSE Fold[table[i].text] # Fold[table[j].text]
IsSound(table, next) ==
    /\ next \in Nat \ {0} /\ table = [i \in DOMAIN table |-> table[i]]
    /\ \A i \in DOMAIN table :
          /\ i \in 1..next - 1 /\ IsRecord(table[i])
          /\ LeadsTo(table[i].up, UpOf(table[i].kind), table)
          /\ LeadsTo(table[i].side, SideOf(table[i].kind), table)
          /\ table[i].odd \/ Belongs(table[i], table)
    /\ Differ(table)
ASSUME SoundAssumption ==
    /\ IsFiniteSet(DOMAIN Stored) /\ DOMAIN Stored = 1..Cardinality(DOMAIN Stored)
    /\ IsSound(Stored, Cardinality(DOMAIN Stored) + 1) /\ IsSound(Earlier.rows, Earlier.nextId)

VARIABLES
    zip,        \* the backup last downloaded; whole: nothing went on meanwhile
    snapshot    \* what the last restore kept in instance/backups

vars == <<rows, nextId, disk, job, served, kills, zip, snapshot>>

Of(tree) == {f \in disk : f.tree = tree}
\* Deviation: the folder added last is forgotten.
Each_Three(do) == [k \in 1..3 |-> [do |-> do, tree |-> Trees[k]]]
Each(do) == [k \in DOMAIN Trees |-> [do |-> do, tree |-> Trees[k]]]

-----------------------------------------------------------------------------
(* Download.                                                               *)

CreateBackupZip(w) == Begin(w, "backup", "zip", None, <<[do |-> "copy database"]>>)

CopyDatabase(w) ==
    /\ At(w, "copy database")
    /\ Go(w, Each("walk") \o <<[do |-> "send", rows |-> rows, nextId |-> nextId, files |-> {}]>>)
    /\ UNCHANGED <<rows, nextId, disk, served, kills>>

\* os.walk: the files are those found when its turn comes.
Walk(w) ==
    /\ At(w, "walk")
    /\ Go(w, LET rest == Tail(job[w].todo) IN
             [rest EXCEPT ![Len(rest)].files = @ \union Of(NextCall(w).tree)])
    /\ UNCHANGED <<rows, nextId, disk, served, kills>>

Send(w) ==
    /\ At(w, "send")
    /\ zip' = [rows |-> NextCall(w).rows, nextId |-> NextCall(w).nextId, files |-> NextCall(w).files,
               whole |-> job[w].alone]
    /\ Pop(w)
    /\ UNCHANGED <<rows, nextId, disk, served, kills>>

-----------------------------------------------------------------------------
(* Restore.                                                                *)

SwapIn ==
    [k \in 1..2 * Len(Trees) |->
        IF k % 2 = 1 THEN [do |-> "move aside", tree |-> Trees[(k + 1) \div 2]]
                     ELSE [do |-> "copy in", tree |-> Trees[k \div 2], aside |-> {}]]

\* Deviation: what is there is kept once the database is swapped.
RestoreFromZip_KeepLate(w) ==
    Begin(w, "restore", "zip", None,
          <<[do |-> "swap database"], [do |-> "keep database"]>> \o Each("keep")
              \o SwapIn \o <<[do |-> "migrate"]>>)
\* Another file, or the backup of a newer version, is refused before anything
\* is touched; the rest is first kept, then swapped in, then migrated.
RestoreFromZip(w) ==
    \E chosen \in {"ours", "not ours", "newer"} :
        Begin(w, "restore", "zip", None,
              IF chosen # "ours" THEN <<[do |-> "refuse"]>>
              ELSE <<[do |-> "keep database"]>> \o Each("keep")
                       \o <<[do |-> "swap database"]>> \o SwapIn \o <<[do |-> "migrate"]>>)

KeepDatabase(w) ==
    /\ At(w, "keep database")
    /\ snapshot' = [rows |-> rows, files |-> {}]
    /\ Pop(w)
    /\ UNCHANGED <<rows, nextId, disk, served, kills>>
KeepTree(w) ==
    /\ At(w, "keep")
    /\ snapshot' = [snapshot EXCEPT !.files = @ \union Of(NextCall(w).tree)]
    /\ Pop(w)
    /\ UNCHANGED <<rows, nextId, disk, served, kills>>

\* Deviation: the AUTOINCREMENT counters of before go on.
SwapDatabase_Rows(w) ==
    /\ At(w, "swap database")
    /\ rows' = [i \in DOMAIN zip.rows |-> [zip.rows[i] EXCEPT !.odd = @ \/ ~zip.whole \/ ~job[w].alone]]
    /\ Pop(w)
    /\ UNCHANGED <<nextId, disk, served, kills>>
\* os.replace, with the AUTOINCREMENT counters of the backup.
SwapDatabase(w) ==
    /\ At(w, "swap database")
    /\ rows' = [i \in DOMAIN zip.rows |-> [zip.rows[i] EXCEPT !.odd = @ \/ ~zip.whole \/ ~job[w].alone]]
    /\ nextId' = zip.nextId
    /\ Pop(w)
    /\ UNCHANGED <<disk, served, kills>>

\* Deviation: the backup is copied over the folder as it stands.
MoveAside_Merge(w) ==
    /\ At(w, "move aside")
    /\ Pop(w)
    /\ UNCHANGED <<rows, nextId, disk, served, kills>>
MoveAside(w) ==
    /\ At(w, "move aside")
    /\ disk' = disk \ Of(NextCall(w).tree)
    /\ LET rest == Tail(job[w].todo) IN
       Go(w, <<[Head(rest) EXCEPT !.aside = Of(NextCall(w).tree)]>> \o Tail(rest))
    /\ UNCHANGED <<rows, nextId, served, kills>>

\* Deviation: the folder moved aside stays there.
CopyIn_NoRollback(w) ==
    /\ At(w, "copy in")
    /\ \/ disk' = disk \union {f \in zip.files : f.tree = NextCall(w).tree} /\ Pop(w)
       \/ UNCHANGED disk /\ Fail(w)
    /\ rows' = [i \in DOMAIN rows |-> [rows[i] EXCEPT !.odd = @ \/ ~job[w].alone \/ job'[w].end = "failed"]]
    /\ UNCHANGED <<nextId, served, kills>>
\* copytree; if it fails the folder moved aside is moved back, and the restore
\* ends there, with the new database.
CopyIn(w) ==
    /\ At(w, "copy in")
    /\ \/ disk' = disk \union {f \in zip.files : f.tree = NextCall(w).tree} /\ Pop(w)
       \/ disk' = (disk \ Of(NextCall(w).tree)) \union NextCall(w).aside /\ Fail(w)
    /\ rows' = [i \in DOMAIN rows |-> [rows[i] EXCEPT !.odd = @ \/ ~job[w].alone \/ job'[w].end = "failed"]]
    /\ UNCHANGED <<nextId, served, kills>>

\* init_schema: SchemaMigration says what becomes of the rows.
Migrate(w) == At(w, "migrate") /\ Pop(w) /\ UNCHANGED <<rows, nextId, disk, served, kills>>

-----------------------------------------------------------------------------
Init ==
    /\ rows = Stored
    /\ nextId = Cardinality(DOMAIN Stored) + 1
    /\ disk = NamesOf(rows)
    /\ job = [w \in Workers |-> Idle]
    /\ served = 0 /\ kills = 0
    /\ zip = Earlier
    /\ snapshot = [rows |-> << >>, files |-> {}]

Request(w) == CatalogueRequest(w) \/ MasterDataRequest(w) \/ CreateBackupZip(w) \/ RestoreFromZip(w)

Next ==
    \E w \in Workers :
        \/ /\ \/ Request(w) \/ Call(w) \/ CatalogueCall(w) \/ Kill(w)
              \/ CopyDatabase(w) \/ Walk(w) \/ SwapDatabase(w) \/ MoveAside(w) \/ CopyIn(w) \/ Migrate(w)
           /\ UNCHANGED <<zip, snapshot>>
        \/ Send(w) /\ UNCHANGED snapshot
        \/ (KeepDatabase(w) \/ KeepTree(w)) /\ UNCHANGED zip

Spec == Init /\ [][Next]_vars

-----------------------------------------------------------------------------
(* Properties.                                                             *)

\* Rows refer to rows of the right kind, files lie in their folders, and a
\* worker that is done has nothing left to do.
TypeOK ==
    /\ \A i \in DOMAIN rows :
          /\ i \in 1..nextId - 1
          /\ Referable(rows[i].up, UpOf(rows[i].kind)) /\ Referable(rows[i].side, SideOf(rows[i].kind))
          /\ \A f \in Range(rows[i].files) : f = NoFile \/ f.tree \in Range(Trees)
    /\ \A f \in disk \union zip.files : f.tree \in Range(Trees)
    /\ \A w \in Workers : job[w] = Idle \/ (job[w].end = "no") = (job[w].todo # <<>>)
    /\ served \in 0..MaxRequests /\ kills \in 0..MaxKills

Restoring == \E w \in Workers : Serving(w) /\ job[w].op = "restore"

\* Every image and every file a record names is there to be served, however
\* requests interleave and wherever a worker is killed, but for rows marked `odd`:
\* a copy of a design may name an image that was removed while it was made, and the
\* services that remove first may leave a path behind when they overlap or, as the
\* third case has it for a while, are cut short.
PathsAreServed ==
    \A i \in DOMAIN rows : \A k \in DOMAIN rows[i].files :
        \/ rows[i].files[k] \in disk \union {NoFile}
        \/ rows[i].odd \/ Restoring
        \/ rows[i].kind \in RemovesFirst /\ \E w \in Workers : Serving(w) /\ job[w].id = i

Done(w) == job[w].op # "idle" /\ job[w].end = "ok" /\ job[w].alone
Litter(on, of) == on \ UNION {{of[i].files[k] : k \in DOMAIN of[i].files} : i \in DOMAIN of}

\* What a request nobody came between and that was not refused has saved is the form, list by list, or
\* a row there was, if it copied one; what it deleted is gone; and neither
\* leaves a file that nothing names, but for the bill of lading of a deleted
\* export invoice, which its delete forgets, and the images of designs whose
\* folder a restore moved to another product under the request that made it.  A
\* request refused half way (a second image, a price) leaves what it had stored.
LoneRequestIsClean ==
    \A w \in Workers : Done(w) /\ job[w].op \notin {"backup", "restore"} =>
        LET was == job[w].before
            now == rows[job[w].id]
        IN  /\ CASE job[w].op = "delete" -> job[w].id \notin DOMAIN rows
                 [] job[w].op = "duplicate" ->
                        \E i \in DOMAIN was.rows :
                            now = [was.rows[i] EXCEPT !.up = now.up, !.side = now.side, !.odd = now.odd]
                 [] OTHER -> \A k \in DOMAIN now.parts :
                                \/ now.parts[k] = job[w].form
                                \/ now.parts[k] = None /\ job[w].kind = "product"
            /\ \A f \in Litter(disk, rows) \ Litter(was.disk, was.rows) :
                   /\ job[w].op = "delete"
                   /\ \/ job[w].kind = "export invoice" /\ f = was.rows[job[w].id].files[2]
                      \/ \E i \in DOMAIN was.rows \ DOMAIN rows : was.rows[i].odd

\* No drop list holds a name twice.
EntriesDiffer == Differ(rows)

\* A record, its lists and its files are written, copied and deleted together,
\* one transaction after the other, and a looked-up name is unique.
RecordsAreSound == TypeOK /\ LoneRequestIsClean /\ EntriesDiffer

\* A backup taken while nothing else went on names no file it does not hold.
BackupIsWhole == Complete(zip)

\* "so a restore is reversible": from the moment the first thing is replaced
\* the snapshot holds all there was.
RestoreIsReversible ==
    \A w \in Workers :
        (job[w].op = "restore" /\ job[w].alone
            /\ (job[w].todo = <<>> \/ NextCall(w).do \in {"move aside", "copy in", "migrate"})) =>
            \/ rows = job[w].before.rows /\ disk = job[w].before.disk
            \/ snapshot = [rows |-> job[w].before.rows, files |-> job[w].before.disk]

\* What is restored is the backup: rows, counters and folders, and nothing else.
RestoredIsTheBackup ==
    \A w \in Workers : Done(w) /\ job[w].op = "restore" =>
        /\ disk = zip.files /\ nextId = zip.nextId /\ DOMAIN rows = DOMAIN zip.rows
        /\ \A i \in DOMAIN rows : [rows[i] EXCEPT !.odd = zip.rows[i].odd] = zip.rows[i]
\* Where copying a folder in fails, each is as it was or as the backup has it.
FailedRestoreIsClean ==
    \A w \in Workers : (job[w].op = "restore" /\ job[w].alone /\ job[w].end = "failed") =>
        \A tree \in Range(Trees) :
            Of(tree) \in {{f \in from : f.tree = tree} : from \in {zip.files, job[w].before.disk}}

\* A download holds what was there, and a restore puts back just that or, where
\* it cannot, can be undone.
BackupsAreSound ==
    BackupIsWhole /\ RestoreIsReversible /\ RestoredIsTheBackup /\ FailedRestoreIsClean
=============================================================================
