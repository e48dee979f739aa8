------------------------------ MODULE Backup_proofs ------------------------------
(***************************************************************************)
(* What holds of Backup for every set of workers, every database and any   *)
(* number of requests and kills: every file a record names is there to be  *)
(* served, however the calls of the requests interleave; and a download    *)
(* and a restore that nothing came between are faithful.                   *)
(***************************************************************************)
EXTENDS Backup, SequenceTheorems, TLAPS

-----------------------------------------------------------------------------
(* Lists of calls.                                                         *)

IsList(s) == \E S : s \in Seq(S)

\* A list is a function on the numbers up to its length.
LEMMA ListIs ==
    ASSUME NEW s, IsList(s)
    PROVE  /\ Len(s) \in Nat /\ DOMAIN s = 1..Len(s) /\ (s = <<>> <=> Len(s) = 0)
           /\ s = [p \in DOMAIN s |-> s[p]]
<1>1. PICK S : s \in Seq(S)
  BY DEF IsList
<1>2. QED
  BY <1>1, LenProperties, EmptySeq

\* What is left when the first call is made.
LEMMA ListTail ==
    ASSUME NEW s, IsList(s), s # <<>>
    PROVE  /\ IsList(Tail(s)) /\ Len(Tail(s)) = Len(s) - 1 /\ Head(s) = s[1] /\ 1 \in DOMAIN s
           /\ \A p \in DOMAIN Tail(s) : p + 1 \in DOMAIN s /\ Tail(s)[p] = s[p + 1]
<1>1. PICK S : s \in Seq(S)
  BY DEF IsList
<1>2. QED
  BY <1>1, HeadTailProperties, ListIs DEF IsList

\* One list after the other.
LEMMA ListConcat ==
    ASSUME NEW s, IsList(s), NEW t, IsList(t)
    PROVE  /\ IsList(s \o t) /\ Len(s \o t) = Len(s) + Len(t)
           /\ \A p \in DOMAIN s : p \in DOMAIN (s \o t) /\ (s \o t)[p] = s[p]
           /\ \A p \in DOMAIN t : Len(s) + p \in DOMAIN (s \o t) /\ (s \o t)[Len(s) + p] = t[p]
           /\ \A p \in DOMAIN (s \o t) :
                 \/ p \in DOMAIN s
                 \/ \E q \in DOMAIN t : p = Len(s) + q
<1>1. PICK S : s \in Seq(S)
  BY DEF IsList
<1>2. PICK T : t \in Seq(T)
  BY DEF IsList
<1>3. /\ s \o t \in Seq(S \union T) /\ Len(s \o t) = Len(s) + Len(t)
      /\ \A i \in 1..Len(s) + Len(t) : (s \o t)[i] = IF i <= Len(s) THEN s[i] ELSE t[i - Len(s)]
  BY <1>1, <1>2, SeqMonotonic, ConcatProperties
<1>4. IsList(s \o t)
  BY <1>3 DEF IsList
<1> DEFINE m == Len(s) n == Len(t) u == s \o t
<1>5. /\ m \in Nat /\ DOMAIN s = 1..m /\ n \in Nat /\ DOMAIN t = 1..n /\ DOMAIN u = 1..m + n
      /\ \A i \in 1..m + n : u[i] = IF i <= m THEN s[i] ELSE t[i - m]
  BY <1>3, <1>4, ListIs
<1> HIDE DEF m, n, u
<1>6. ASSUME NEW p \in DOMAIN t
      PROVE  m + p \in DOMAIN u /\ u[m + p] = t[p]
  BY <1>5, <1>6
<1>7. ASSUME NEW p \in DOMAIN u, p \notin DOMAIN s
       PROVE  \E q \in DOMAIN t : p = m + q
  <2>1. p - m \in 1..n /\ p = m + (p - m)
    BY <1>5, <1>7
  <2>2. QED
    BY <1>5, <2>1
<1>8. QED
  BY <1>3, <1>4, <1>5, <1>6, <1>7 DEF m, n, u

\* Lists of one and of two, and the empty one.
LEMMA ListOne ==
    ASSUME NEW a
    PROVE  IsList(<<a>>) /\ Len(<<a>>) = 1 /\ DOMAIN <<a>> = {1} /\ <<a>>[1] = a /\ <<a>> # <<>>
<1>1. a \in {a}
  OBVIOUS
<1>2. <<a>> \in Seq({a})
  BY <1>1
<1>3. IsList(<<a>>)
  BY <1>2 DEF IsList
<1>4. QED
  BY <1>3, ListIs

\* A list of two calls.
LEMMA ListTwo ==
    ASSUME NEW a, NEW b
    PROVE  /\ IsList(<<a, b>>) /\ Len(<<a, b>>) = 2 /\ DOMAIN <<a, b>> = {1, 2}
           /\ <<a, b>>[1] = a /\ <<a, b>>[2] = b /\ <<a, b>> # <<>>
<1>1. a \in {a, b} /\ b \in {a, b}
  OBVIOUS
<1>2. <<a, b>> \in Seq({a, b})
  BY <1>1
<1>3. IsList(<<a, b>>)
  BY <1>2 DEF IsList
<1>4. QED
  BY <1>3, ListIs

\* No call at all.
LEMMA ListNone == IsList(<<>>) /\ Len(<<>>) = 0 /\ DOMAIN <<>> = {}
<1>1. <<>> \in Seq({})
  OBVIOUS
<1>2. IsList(<<>>)
  BY <1>1 DEF IsList
<1>3. QED
  BY <1>2, ListIs

\* The places of a list.
LEMMA ListPlaces ==
    ASSUME NEW s, IsList(s)
    PROVE  /\ \A p \in DOMAIN s : p \in Nat /\ p >= 1 /\ (p < Len(s) \/ p = Len(s))
           /\ s # <<>> => /\ 1 \in DOMAIN s /\ Len(s) \in DOMAIN s /\ Len(s) \in Nat /\ Len(s) >= 1
                          /\ Len(s) # 1 => 1 < Len(s)
<1> DEFINE n == Len(s)
<1> HIDE DEF n
<1>1. QED
  BY ListIs DEF n

\* A list given place by place.
LEMMA ListFun ==
    ASSUME NEW n \in Nat, NEW s, s = [k \in 1..n |-> s[k]]
    PROVE  IsList(s) /\ Len(s) = n /\ DOMAIN s = 1..n
<1> DEFINE S == {s[k] : k \in 1..n}
<1>1. s \in [1..n -> S]
  OBVIOUS
<1>2. s \in Seq(S)
  BY <1>1, SeqDef
<1>3. IsList(s)
  BY <1>2 DEF IsList
<1>4. DOMAIN s = 1..n
  BY <1>1
<1>5. Len(s) = n
  BY <1>2, <1>4, LenProperties
<1>6. QED
  BY <1>3, <1>4, <1>5

\* Two lists that agree are one.
LEMMA ListSame ==
    ASSUME NEW s, IsList(s), NEW t, IsList(t), Len(s) = Len(t), \A p \in DOMAIN s : s[p] = t[p]
    PROVE  s = t
<1>1. PICK S : s \in Seq(S)
  BY DEF IsList
<1>2. PICK T : t \in Seq(T)
  BY DEF IsList
<1>3. DOMAIN s = 1..Len(s) /\ DOMAIN t = 1..Len(s)
  BY ListIs
<1>4. s = [p \in 1..Len(s) |-> s[p]] /\ t = [p \in 1..Len(t) |-> t[p]]
  BY <1>1, <1>2
<1>5. QED
  BY <1>3, <1>4

-----------------------------------------------------------------------------
(* The invariant.  Every predicate takes the part of the state it is about: *)
(* R the rows, D the files on disk, Z the backup, SN the snapshot, J the    *)
(* jobs, s how many requests began.                                         *)

DataInv(R, D, Z, s) ==
    /\ s \in Nat
    /\ IsTable(R) /\ D \subseteq Files
    /\ IsTable(Z.rows) /\ Z.files \subseteq Files /\ Z.whole \in BOOLEAN /\ Complete(Z)

\* The files a call of request m is about: those it writes into a row, those of
\* them it has stored itself, and the others, which a row named before.
NamesIn(files) == {files[k] : k \in DOMAIN files} \ {NoFile, Keep}
Written(c) == IF c.do = "insert" THEN NamesIn(c.row.files)
              ELSE IF c.do = "update" THEN NamesIn(c.files) ELSE {}
Handled(c) == IF c.do = "remove" THEN {c.file}
              ELSE IF c.do = "count" THEN c.each
              ELSE IF c.do = "send" THEN NamesOf(c.rows) ELSE {}
Takes(c, m) == {f \in Written(c) : f.n = m}
Shows(c, m) == Handled(c) \union {f \in Written(c) : f.n # m}
Taken(j) == UNION {Takes(j.todo[p], j.form) : p \in DOMAIN j.todo}
ShownBy(j) == UNION {Shows(j.todo[p], j.form) : p \in DOMAIN j.todo}
Known(R, Z, J) ==
    NamesOf(R) \union NamesOf(Z.rows) \union UNION {ShownBy(J[w]) : w \in {v \in Workers : J[v] # Idle}}

\* What a request has stored and not yet written nobody else knows of.
KnownInv(R, Z, J, s) ==
    /\ \A f \in Known(R, Z, J) : f.n \in Int /\ f.n <= s
    /\ \A w \in Workers : J[w] # Idle => Taken(J[w]) \intersect Known(R, Z, J) = {}

Serves(j) == j # Idle /\ j.todo # <<>>
PairInv(J) ==
    \A w, v \in Workers : w # v /\ J[w] # Idle /\ J[v] # Idle =>
        /\ J[w].form # J[v].form
        /\ J[w].alone => ~Serves(J[v])
        /\ Serves(J[w]) /\ Serves(J[v]) /\ J[v].op = "restore" => J[w].crossed

JobFields == {"op", "kind", "id", "form", "todo", "alone", "crossed", "end", "before"}
IsJob(j, s) ==
    /\ JobFields \subseteq DOMAIN j /\ j = [x \in DOMAIN j |-> j[x]]
    /\ j # Idle /\ j.op # "idle" /\ IsList(j.todo)
    /\ j.form \in Nat /\ j.form <= s
    /\ j.alone \in BOOLEAN /\ j.crossed \in BOOLEAN /\ (j.crossed => ~j.alone)
    /\ j.end \in {"no", "ok", "failed"} /\ (j.end = "no" <=> j.todo # <<>>)

-----------------------------------------------------------------------------
(* The calls of a request on records.                                      *)

Dos == {"insert", "update", "replace", "delete", "store", "remove", "refuse",
        "count", "list", "open", "copy"}
CatalogueKinds == {"category", "product", "folder", "design"}

CallOk(j, c) ==
    /\ c.do \in Dos
    /\ c.do = "insert" =>
         /\ IsRow(c.row) /\ c.row.kind = j.kind /\ j.kind # "company"
         /\ \A f \in NamesIn(c.row.files) : f.n # j.form => j.op = "duplicate" /\ j.kind = "design"
    /\ c.do = "update" =>
         /\ c.id = j.id /\ DOMAIN c.files = 1..Columns(j.kind)
         /\ \A k \in DOMAIN c.files : c.files[k] \in {NoFile, Keep} \/ Fits(c.files[k], j.kind, k)
         /\ \A f \in NamesIn(c.files) : f.n # j.form => j.kind \in RemovesFirst
         /\ j.kind \in RemovesFirst => c.up = Same /\ c.text = AsIs
    /\ c.do = "replace" => j.kind \notin RemovesFirst
    /\ c.do = "delete" => (j.kind \in RemovesFirst => c.kind = j.kind /\ c.id = j.id)
    /\ c.do \in {"store", "remove"} => c.file \in Files
    /\ c.do \in {"count", "list", "open", "copy"} => j.kind \in CatalogueKinds
    /\ c.do = "count" => \A f \in c.each : \E k \in 1..2 : Fits(f, "design", k)

\* Rows that name the file are marked, or are the row the request is about.
Dead(f, R) == \A i \in DOMAIN R : \A k \in DOMAIN R[i].files : R[i].files[k] = f => R[i].odd
Claims(id, f, R) ==
    \A i \in DOMAIN R : \A k \in DOMAIN R[i].files : R[i].files[k] = f => R[i].odd \/ i = id

\* The call that follows the removal of a file, and leaves no row with its name.
Final(j, f, c) ==
    c.do = "delete" \/ (c.do = "update" /\ c.files[f.slot] # Keep
                           /\ (c.files[f.slot] = NoFile \/ c.files[f.slot].n = j.form))

\* A file is removed just before the last call by those who remove first, last
\* by a company, and when nobody names it by the others.
RemoveOk(j, s, p, R) ==
    LET f == s[p].file IN
    IF j.kind \in RemovesFirst
      THEN /\ p = Len(s) - 1 /\ Final(j, f, s[p + 1]) /\ Claims(j.id, f, R)
           /\ \E k \in 1..Columns(j.kind) : Fits(f, j.kind, k)
      ELSE \/ p = 1 /\ Dead(f, R)
           \/ /\ j.kind = "company" /\ p = Len(s) /\ p > 1
              /\ Fits(f, "company", 1) /\ Claims(j.id, f, R)
              /\ s[p - 1].do = "update" /\ s[p - 1].files[1] \notin {Keep, f}

\* One call only writes files of the request's own, and they are stored by then.
TakeOk(j, s, p, D) ==
    Takes(s[p], j.form) # {} =>
        /\ \A q \in DOMAIN s : q # p => Takes(s[q], j.form) = {}
        /\ \A f \in Takes(s[p], j.form) :
              \/ f \in D \/ j.crossed
              \/ \E q \in DOMAIN s : q < p /\ s[q].do = "store" /\ s[q].file = f

InsertOk(j, s, p, D) ==
    /\ \A q \in DOMAIN s : q > p => s[q].do \in {"replace", "copy"}
    /\ Shows(s[p], j.form) # {} =>
          Len(s) = 1 /\ (j.alone => s[p].row.odd \/ NamesIn(s[p].row.files) \subseteq D)

\* A path that is written back is the one that was read.
UpdateOk(j, s, p, R) ==
    \A k \in DOMAIN s[p].files :
        \/ s[p].files[k] \in {NoFile, Keep} \/ s[p].files[k].n = j.form
        \/ /\ Claims(j.id, s[p].files[k], R)
           /\ j.alone => j.id \in DOMAIN R /\ k \in DOMAIN R[j.id].files
                            /\ R[j.id].files[k] = s[p].files[k]

ListOk(j, s, R, D) ==
    /\ \A p \in DOMAIN s : CallOk(j, s[p])
    /\ \A p \in DOMAIN s : s[p].do = "remove" => RemoveOk(j, s, p, R)
    /\ \A p \in DOMAIN s : TakeOk(j, s, p, D)
    /\ \A p \in DOMAIN s : s[p].do = "insert" => InsertOk(j, s, p, D)
    /\ \A p \in DOMAIN s : s[p].do = "update" => UpdateOk(j, s, p, R)
    /\ j.kind \in RemovesFirst =>
         \A p \in DOMAIN s : p < Len(s) => s[p].do \in {"store", "remove", "refuse"}

-----------------------------------------------------------------------------
(* The calls of a download and of a restore.                               *)

TreesTo(n) == {Trees[t] : t \in 1..n}
Within(D, names) == {f \in D : f.tree \in names}

IsSend(c) ==
    /\ c = [do |-> "send", rows |-> c.rows, nextId |-> c.nextId, files |-> c.files]
    /\ IsTable(c.rows) /\ c.files \subseteq Files
BackupOk(j, s, R, D) ==
    \/ s = <<>>
    \/ Len(s) = 1 /\ s[1].do = "copy database"
    \/ /\ Len(s) \in 1..5
       /\ \A p \in DOMAIN s : p < Len(s) => s[p].do = "walk" /\ s[p].tree = Trees[p + 5 - Len(s)]
       /\ IsSend(s[Len(s)])
       /\ j.alone => /\ s[Len(s)].rows = R
                     /\ s[Len(s)].files = Within(D, TreesTo(5 - Len(s)))

Program == <<"keep database", "keep", "keep", "keep", "keep", "swap database", "move aside", "copy in",
             "move aside", "copy in", "move aside", "copy in", "move aside", "copy in", "migrate">>
TreeAt(q) == IF q <= 5 THEN Trees[q - 1] ELSE Trees[(q - 5) \div 2]
Refused == <<[do |-> "refuse"]>>

\* What is left of the program.
IsCopyIn(c) ==
    c = [do |-> "copy in", tree |-> c.tree, aside |-> c.aside] /\ c.aside \subseteq Files
InProgram(c, q) ==
    /\ c.do = Program[q]
    /\ Program[q] \in {"keep", "move aside", "copy in"} => c.tree = TreeAt(q)
    /\ Program[q] = "copy in" => IsCopyIn(c)
Follows(s) == Len(s) <= 15 /\ \A p \in DOMAIN s : InProgram(s[p], p + 15 - Len(s))

OfTree(D, t) == Within(D, {Trees[t]})
SameRows(R, Q, whole) == R = [i \in DOMAIN Q |-> [Q[i] EXCEPT !.odd = @ \/ ~whole]]

\* Where a restore that nothing came between stands: L calls are left.
Untouched(b, s, R, D, SN) ==
    /\ R = b.rows /\ D = b.disk
    /\ (s # Refused /\ Len(s) \in 10..14) => SN = [rows |-> R, files |-> Within(D, TreesTo(14 - Len(s)))]
HalfDone(b, D, Z, SN) ==
    /\ SN = [rows |-> b.rows, files |-> b.disk]
    /\ \A t \in 1..4 : OfTree(D, t) \in {OfTree(Z.files, t), OfTree(b.disk, t)}
SwappedIn(b, s, R, D, next, Z, SN) ==
    /\ SN = [rows |-> b.rows, files |-> b.disk]
    /\ SameRows(R, Z.rows, Z.whole) /\ next = Z.nextId
    /\ \A t \in 1..4 :
          /\ Len(s) <= 9 - 2 * t => OfTree(D, t) = OfTree(Z.files, t)
          /\ Len(s) = 10 - 2 * t => OfTree(D, t) = {} /\ s[1].aside = OfTree(b.disk, t)
          /\ Len(s) > 10 - 2 * t => OfTree(D, t) = OfTree(b.disk, t)
StageOk(j, s, R, D, next, Z, SN) ==
    IF s = Refused \/ Len(s) > 9 THEN Untouched(j.before, s, R, D, SN)
    ELSE IF j.end = "failed" THEN Untouched(j.before, s, R, D, SN) \/ HalfDone(j.before, D, Z, SN)
    ELSE SwappedIn(j.before, s, R, D, next, Z, SN)

-----------------------------------------------------------------------------
Ordinary == {"create", "update", "delete", "duplicate"}
OpInv(j, R, D, next, Z, SN) ==
    \/ j.op \in Ordinary /\ ListOk(j, j.todo, R, D)
    \/ j.op = "backup" /\ BackupOk(j, j.todo, R, D)
    \/ /\ j.op = "restore" /\ (j.todo = Refused \/ Follows(j.todo))
       /\ j.alone => StageOk(j, j.todo, R, D, next, Z, SN)
JobInv(j, R, D, next, Z, SN, s) == j = Idle \/ (IsJob(j, s) /\ OpInv(j, R, D, next, Z, SN))

\* Every file is there, but while a restore swaps and for the rows a request is
\* about to write or to delete.
Swapping(j) == Serves(j) /\ j.op = "restore" /\ j.todo[1].do \in {"move aside", "copy in"}
Mends(j, i, k, row) ==
    /\ Serves(j) /\ j.op \in Ordinary /\ j.kind \in RemovesFirst
    /\ j.id = i /\ row.kind = j.kind /\ Len(j.todo) = 1
    /\ LET c == j.todo[1] IN
       c.do = "delete" \/ (c.do = "update" /\ c.files[k] # Keep
                              /\ (c.files[k] = NoFile \/ c.files[k].n = j.form))
ThereOrMended(R, D, J) ==
    \A i \in DOMAIN R : \A k \in DOMAIN R[i].files :
        R[i].files[k] \in D \union {NoFile} \/ R[i].odd \/ \E w \in Workers : Mends(J[w], i, k, R[i])
ServedInv(R, D, J) == (\E w \in Workers : Swapping(J[w])) \/ ThereOrMended(R, D, J)

Inv(R, next, D, J, s, Z, SN) ==
    /\ J = [w \in Workers |-> J[w]]
    /\ DataInv(R, D, Z, s)
    /\ KnownInv(R, Z, J, s)
    /\ PairInv(J)
    /\ \A w \in Workers : JobInv(J[w], R, D, next, Z, SN, s)
    /\ ServedInv(R, D, J)
IInv == Inv(rows, nextId, disk, job, served, zip, snapshot)
-----------------------------------------------------------------------------
(* Kinds of rows and their files.                                          *)

\* The four folders.
LEMMA TreesAre ==
    /\ Len(Trees) = 4 /\ DOMAIN Trees = 1..4
    /\ Trees[1] = "products" /\ Trees[2] = "purchase_invoices"
    /\ Trees[3] = "export_invoices" /\ Trees[4] = "permits"
    /\ TreeNames = {"products", "purchase_invoices", "export_invoices", "permits"}
BY DEF Trees, TreeNames

\* The columns of each kind.
LEMMA ColumnsAre ==
    ASSUME NEW kind
    PROVE  /\ Columns(kind) \in {0, 1, 2}
           /\ Columns(kind) # 0 =>
                kind \in {"design", "export invoice", "company", "permit", "purchase invoice"}
           /\ Columns("design") = 2 /\ Columns("export invoice") = 2 /\ Columns("company") = 1
           /\ Columns("permit") = 1 /\ Columns("purchase invoice") = 1
           /\ TreeOf("design") = "products" /\ TreeOf("company") = "products"
           /\ TreeOf("export invoice") = "export_invoices" /\ TreeOf("permit") = "permits"
           /\ TreeOf("purchase invoice") = "purchase_invoices"
<1>1. /\ Columns(kind) \in {0, 1, 2}
      /\ Columns(kind) # 0 =>
           kind \in {"design", "export invoice", "company", "permit", "purchase invoice"}
  BY Zenon DEF Columns
<1>2. Columns("design") = 2 /\ Columns("export invoice") = 2 /\ Columns("company") = 1
  BY Zenon DEF Columns
<1>3. Columns("permit") = 1 /\ Columns("purchase invoice") = 1
  BY Zenon DEF Columns
<1>4. TreeOf("design") = "products" /\ TreeOf("company") = "products"
  BY Zenon DEF TreeOf
<1>5. /\ TreeOf("export invoice") = "export_invoices" /\ TreeOf("permit") = "permits"
      /\ TreeOf("purchase invoice") = "purchase_invoices"
  BY Zenon DEF TreeOf
<1>6. QED
  BY <1>1, <1>2, <1>3, <1>4, <1>5

\* A file tells the kind of the rows that may name it, and the column.
LEMMA FitsKinds ==
    ASSUME NEW f, NEW a, NEW b, NEW k \in 1..Columns(a), NEW m \in 1..Columns(b),
           Fits(f, a, k), Fits(f, b, m)
    PROVE  a = b /\ k = m
<1>1. /\ f.tree = TreeOf(a) /\ f.tree = TreeOf(b)
      /\ f.slot = (IF a = "company" THEN 3 ELSE k) /\ f.slot = IF b = "company" THEN 3 ELSE m
  BY DEF Fits, Logo
<1>2. Columns(a) \in {1, 2} /\ Columns(b) \in {1, 2} /\ k \in {1, 2} /\ m \in {1, 2}
  <2>1. Columns(a) \in {0, 1, 2} /\ Columns(b) \in {0, 1, 2}
    BY ColumnsAre
  <2>2. QED
    BY <2>1
<1>3. /\ a \in {"design", "export invoice", "company", "permit", "purchase invoice"}
      /\ b \in {"design", "export invoice", "company", "permit", "purchase invoice"}
  <2>1. Columns(a) # 0 /\ Columns(b) # 0
    BY <1>2
  <2>2. QED
    BY <2>1, ColumnsAre
<1>4. a = b
  <2>1. CASE f.slot = 3
    BY <1>1, <1>2, <2>1
  <2>2. CASE f.slot # 3
    BY <1>1, <2>2, <1>3, ColumnsAre
  <2>3. QED
    BY <2>1, <2>2
<1>5. CASE a = "company"
  <2>1. k \in 1..1 /\ m \in 1..1
    BY <1>4, <1>5, ColumnsAre
  <2>2. QED
    BY <1>4, <2>1
<1>6. CASE a # "company"
  BY <1>1, <1>4, <1>6
<1>7. QED
  BY <1>5, <1>6

\* A file that fits is a file.
LEMMA FitsFile ==
    ASSUME NEW f, NEW a, NEW k, Fits(f, a, k)
    PROVE  f \in Files /\ f # NoFile /\ f # Keep /\ f.n \in Int
<1>1. f \in Files
  BY DEF Fits
<1>2. f.tree \in TreeNames /\ f.n \in Int
  BY <1>1 DEF Files
<1>3. f.tree # "none" /\ f.tree # "same"
  BY <1>2, TreesAre
<1>4. QED
  BY <1>1, <1>2, <1>3 DEF NoFile, Keep

\* A path of a row is NULL or names a file of the row's kind and column.
LEMMA RowFiles ==
    ASSUME NEW row, IsRow(row), NEW k \in DOMAIN row.files
    PROVE  /\ k \in 1..Columns(row.kind)
           /\ row.files[k] = NoFile \/ Fits(row.files[k], row.kind, k)
           /\ row.files[k] # Keep
           /\ row.files[k] # NoFile => row.files[k] \in NamesIn(row.files)
<1>1. /\ k \in 1..Columns(row.kind)
      /\ row.files[k] = NoFile \/ Fits(row.files[k], row.kind, k)
  BY DEF IsRow
<1>2. NoFile # Keep
  BY DEF NoFile, Keep
<1>3. row.files[k] # Keep
  BY <1>1, <1>2, FitsFile
<1>4. QED
  BY <1>1, <1>3 DEF NamesIn

\* The files a table names.
LEMMA TableNames ==
    ASSUME NEW R, NEW i \in DOMAIN R, NEW k \in DOMAIN R[i].files, R[i].files[k] # NoFile
    PROVE  R[i].files[k] \in NamesOf(R)
<1> DEFINE names(r) == {R[r].files[m] : m \in DOMAIN R[r].files}
<1>1. R[i].files[k] \in names(i) /\ names(i) \in {names(r) : r \in DOMAIN R}
  OBVIOUS
<1>2. QED
  BY <1>1 DEF NamesOf

\* A file a table names is named in a column of a row.
LEMMA NamesTable ==
    ASSUME NEW R, NEW f \in NamesOf(R)
    PROVE  f # NoFile /\ \E i \in DOMAIN R : \E k \in DOMAIN R[i].files : R[i].files[k] = f
<1>1. /\ f # NoFile
      /\ \E S \in {{R[i].files[k] : k \in DOMAIN R[i].files} : i \in DOMAIN R} : f \in S
  BY DEF NamesOf
<1>2. QED
  BY <1>1

-----------------------------------------------------------------------------
(* What the others know and rely on when a request goes on.                *)

\* The files the calls of a request are about.
LEMMA ShownIs ==
    ASSUME NEW j, NEW p \in DOMAIN j.todo
    PROVE  Shows(j.todo[p], j.form) \subseteq ShownBy(j) /\ Takes(j.todo[p], j.form) \subseteq Taken(j)
BY DEF ShownBy, Taken

\* A file a request shows is shown by one of its calls.
LEMMA IsShown ==
    ASSUME NEW j, NEW f \in ShownBy(j)
    PROVE  \E p \in DOMAIN j.todo : f \in Shows(j.todo[p], j.form)
BY DEF ShownBy

\* A file a request takes is its own, and taken by one of its calls.
LEMMA IsTaken ==
    ASSUME NEW j, NEW f \in Taken(j)
    PROVE  f.n = j.form /\ \E p \in DOMAIN j.todo : f \in Takes(j.todo[p], j.form)
<1>1. \E p \in DOMAIN j.todo : f \in Takes(j.todo[p], j.form)
  BY DEF Taken
<1>2. QED
  BY <1>1 DEF Takes

\* The files somebody knows of.
LEMMA KnownIs ==
    ASSUME NEW R, NEW Z, NEW J
    PROVE  /\ NamesOf(R) \subseteq Known(R, Z, J) /\ NamesOf(Z.rows) \subseteq Known(R, Z, J)
           /\ \A w \in Workers : J[w] # Idle => ShownBy(J[w]) \subseteq Known(R, Z, J)
           /\ \A f \in Known(R, Z, J) : \/ f \in NamesOf(R) \/ f \in NamesOf(Z.rows)
                                        \/ \E w \in Workers : J[w] # Idle /\ f \in ShownBy(J[w])
<1> DEFINE S == {ShownBy(J[w]) : w \in {v \in Workers : J[v] # Idle}}
<1> HIDE DEF S
<1>1. QED
  BY DEF Known

\* The same request, some calls later.
Continues(j, j2) ==
    /\ j2.op = j.op /\ j2.kind = j.kind /\ j2.form = j.form
    /\ j2.alone = j.alone /\ j2.crossed = j.crossed /\ j2.before = j.before

\* A request that goes on shows what was known, and what it has just written.
LEMMA KnownStep ==
    ASSUME NEW R, NEW Z, NEW R2, NEW Z2, NEW J, NEW s, NEW w \in Workers, NEW j2, NEW T,
           J = [v \in Workers |-> J[v]], KnownInv(R, Z, J, s), PairInv(J),
           Serves(J[w]), IsJob(J[w], s), T \subseteq Taken(J[w]),
           NamesOf(R2) \subseteq Known(R, Z, J) \union T, NamesOf(Z2.rows) \subseteq Known(R, Z, J) \union T,
           j2 # Idle => /\ Continues(J[w], j2) /\ ShownBy(j2) \subseteq Known(R, Z, J)
                        /\ Taken(j2) \subseteq Taken(J[w]) \ T
    PROVE  KnownInv(R2, Z2, [J EXCEPT ![w] = j2], s) /\ PairInv([J EXCEPT ![w] = j2])
<1> DEFINE J2 == [J EXCEPT ![w] = j2]
<1>1. J2[w] = j2 /\ \A v \in Workers \ {w} : J2[v] = J[v]
  OBVIOUS
<1>2. J[w] # Idle /\ J[w].form \in Nat /\ J[w].form <= s
  BY DEF IsJob
<1> HIDE DEF J2
<1>3. Known(R2, Z2, J2) \subseteq Known(R, Z, J) \union T
  <2> SUFFICES ASSUME NEW f \in Known(R2, Z2, J2), f \notin NamesOf(R2), f \notin NamesOf(Z2.rows)
               PROVE  f \in Known(R, Z, J)
    OBVIOUS
  <2>1. PICK v \in Workers : J2[v] # Idle /\ f \in ShownBy(J2[v])
    BY KnownIs
  <2>2. CASE v = w
    BY <1>1, <2>1, <2>2
  <2>3. CASE v # w
    BY <1>1, <2>1, <2>3, KnownIs
  <2>4. QED
    BY <2>2, <2>3
<1>4. \A f \in T : f.n = J[w].form
  BY IsTaken
<1>5. ASSUME NEW v \in Workers, J2[v] # Idle
      PROVE  Taken(J2[v]) \intersect Known(R2, Z2, J2) = {}
  BY <1>1, <1>5, <1>2, <1>3, IsTaken, <1>4 DEF KnownInv, PairInv
<1>6. ASSUME NEW u \in Workers, NEW v \in Workers, u # v, J2[u] # Idle, J2[v] # Idle
      PROVE  /\ J2[u].form # J2[v].form
             /\ J2[u].alone => ~Serves(J2[v])
             /\ Serves(J2[u]) /\ Serves(J2[v]) /\ J2[v].op = "restore" => J2[u].crossed
  BY <1>1, <1>6, <1>2 DEF PairInv, Continues, Serves
<1>7. QED
  BY <1>2, <1>3, <1>4, <1>5, <1>6 DEF J2, KnownInv, PairInv

-----------------------------------------------------------------------------
(* What the others rely on stays so.                                       *)

\* A file a row names was named there before, is one of T, or the row is odd.
Passes(R, R2, T) ==
    \A i \in DOMAIN R2 : \A k \in DOMAIN R2[i].files :
        \/ R2[i].files[k] \in T \union {NoFile} \/ R2[i].odd
        \/ i \in DOMAIN R /\ k \in DOMAIN R[i].files /\ R[i].files[k] = R2[i].files[k] /\ ~R[i].odd

\* Who claimed a file claims it in what the table passes into.
LEMMA PassesOn ==
    ASSUME NEW R, NEW R2, NEW T, Passes(R, R2, T), NEW f, f \notin T, f # NoFile
    PROVE  (Dead(f, R) => Dead(f, R2)) /\ \A id : Claims(id, f, R) => Claims(id, f, R2)
BY DEF Passes, Dead, Claims

\* The calls of a request that is not alone, after a step of another's.
LEMMA ListStays ==
    ASSUME NEW R, NEW R2, NEW D, NEW D2, NEW T, NEW j, j.alone \in BOOLEAN, ~j.alone,
           Passes(R, R2, T), ListOk(j, j.todo, R, D), ShownBy(j) \intersect T = {},
           \A f \in Taken(j) : f \in D => f \in D2 \/ j.crossed
    PROVE  ListOk(j, j.todo, R2, D2)
<1> DEFINE s == j.todo
<1>1. \A p \in DOMAIN s : CallOk(j, s[p])
  BY DEF ListOk
<1>2. ASSUME NEW p \in DOMAIN s, s[p].do = "remove" PROVE RemoveOk(j, s, p, R2)
  <2> DEFINE f == s[p].file
  <2>1. (Dead(f, R) => Dead(f, R2)) /\ (Claims(j.id, f, R) => Claims(j.id, f, R2))
    BY <1>2, ShownIs, <1>1, TreesAre, PassesOn DEF Shows, Handled, CallOk, NoFile, Files
  <2>2. RemoveOk(j, s, p, R)
    BY <1>2 DEF ListOk
  <2> HIDE DEF s
  <2>3. QED
    BY <2>1, <2>2 DEF RemoveOk
<1>3. ASSUME NEW p \in DOMAIN s PROVE TakeOk(j, s, p, D2)
  <2>1. TakeOk(j, s, p, D)
    BY DEF ListOk
  <2>2. Takes(s[p], j.form) \subseteq Taken(j)
    BY ShownIs
  <2> HIDE DEF s
  <2>3. QED
    BY <2>1, <2>2 DEF TakeOk
<1>4. ASSUME NEW p \in DOMAIN s, s[p].do = "insert" PROVE InsertOk(j, s, p, D2)
  BY <1>4 DEF ListOk, InsertOk
<1>5. ASSUME NEW p \in DOMAIN s, s[p].do = "update" PROVE UpdateOk(j, s, p, R2)
  BY <1>5, ShownIs, PassesOn DEF Shows, Written, NamesIn, UpdateOk, ListOk
<1>6. QED
  BY <1>1, <1>2, <1>3, <1>4, <1>5 DEF ListOk

\* The request of another worker, after a call of worker w.
LEMMA OthersStay ==
    ASSUME NEW R, NEW D, NEW N, NEW Z, NEW SN, NEW R2, NEW D2, NEW N2, NEW Z2, NEW SN2, NEW s, NEW J,
           NEW w \in Workers, NEW v \in Workers, v # w, NEW T, T \subseteq Taken(J[w]),
           Serves(J[w]), PairInv(J), KnownInv(R, Z, J, s), JobInv(J[v], R, D, N, Z, SN, s),
           J[w].alone \/ (Passes(R, R2, T) /\ (J[w].op = "restore" \/ D \ D2 \subseteq Known(R, Z, J)))
    PROVE  JobInv(J[v], R2, D2, N2, Z2, SN2, s)
<1> DEFINE j == J[v]
<1>1. CASE j = Idle
  BY <1>1 DEF JobInv
<1>2. CASE j # Idle
  <2>1. IsJob(j, s) /\ OpInv(j, R, D, N, Z, SN)
    BY <1>2 DEF JobInv
  <2>2. J[w] # Idle /\ j.alone \in BOOLEAN /\ ~j.alone
    BY <1>2, <2>1 DEF Serves, PairInv, IsJob
  <2>3. ASSUME ListOk(j, j.todo, R, D) PROVE ListOk(j, j.todo, R2, D2)
    <3>1. CASE j.todo = <<>>
      BY <3>1, ListNone DEF ListOk
    <3>2. CASE j.todo # <<>>
      <4>1. Serves(j)
        BY <1>2, <3>2 DEF Serves
      <4>2. ~J[w].alone
        BY <1>2, <2>2, <4>1 DEF PairInv
      <4>3. ShownBy(j) \intersect T = {}
        BY <1>2, <2>2, KnownIs DEF KnownInv
      <4>4. ASSUME NEW f \in Taken(j), f \in D PROVE f \in D2 \/ j.crossed
        BY <1>2, <2>2, <4>1, <4>4, <4>2 DEF PairInv, KnownInv
      <4>5. QED
        BY <2>2, <2>3, <4>2, <4>3, <4>4, ListStays
    <3>3. QED
      BY <3>1, <3>2
  <2>4. QED
    BY <2>1, <2>2, <2>3 DEF JobInv, BackupOk, OpInv
<1>3. QED
  BY <1>1, <1>2

-----------------------------------------------------------------------------
(* A worker goes on with its request.                                      *)

With(j, id, todo, end) == [j EXCEPT !.id = id, !.todo = todo, !.end = end]
After(j, todo) == With(j, j.id, todo, IF todo = <<>> THEN "ok" ELSE "no")
Failed(j) == With(j, j.id, <<>>, "failed")

\* The request after a call: what it was, but for what is left of it.
LEMMA WithIs ==
    ASSUME NEW j, NEW s, IsJob(j, s), NEW id, NEW t, IsList(t),
           NEW e \in {"no", "ok", "failed"}, e = "no" <=> t # <<>>
    PROVE  /\ IsJob(With(j, id, t, e), s) /\ Continues(j, With(j, id, t, e))
           /\ With(j, id, t, e) # Idle /\ With(j, id, t, e).id = id
           /\ With(j, id, t, e).todo = t /\ With(j, id, t, e).end = e
<1> DEFINE j2 == With(j, id, t, e)
<1> HIDE DEF j2
<1>1. QED
  BY DEF j2, Continues, IsJob, Idle, JobFields, With

\* job' of Go and of Fail, and of an INSERT.
Gone(J, w, todo, end) == [J EXCEPT ![w].todo = todo, ![w].end = end]
Inserted(J, w, id, todo, end) == [J EXCEPT ![w].id = id, ![w].todo = todo, ![w].end = end]

\* Going on with other calls, as a record.
LEMMA GoIs ==
    ASSUME NEW J, J = [v \in Workers |-> J[v]], NEW w \in Workers, NEW s, IsJob(J[w], s),
           NEW t, NEW e
    PROVE  Gone(J, w, t, e) = [J EXCEPT ![w] = With(J[w], J[w].id, t, e)]
<1> DEFINE a == [J[w] EXCEPT !.todo = t]
           b == [a EXCEPT !.end = e]
           c == [J[w] EXCEPT !.id = J[w].id]
           d == [c EXCEPT !.todo = t]
           g == [d EXCEPT !.end = e]
<1>1. b = g
  BY DEF JobFields, IsJob
<1>2. [J EXCEPT ![w].todo = t, ![w].end = e] = [J EXCEPT ![w] = b]
  <2> DEFINE J1 == [J EXCEPT ![w].todo = t]
  <2>1. J1 = [v \in Workers |-> IF v = w THEN a ELSE J[v]]
    OBVIOUS
  <2> HIDE DEF J1, a
  <2>2. QED
    BY <2>1 DEF J1
<1>3. QED
  BY <1>1, <1>2 DEF Gone, With

\* Going on with the row just inserted, as a record.
LEMMA GoIdIs ==
    ASSUME NEW J, J = [v \in Workers |-> J[v]], NEW w \in Workers, NEW id, NEW t, NEW e
    PROVE  Inserted(J, w, id, t, e) = [J EXCEPT ![w] = With(J[w], id, t, e)]
<1> DEFINE a == [J[w] EXCEPT !.id = id]
           b == [a EXCEPT !.todo = t]
           c == [b EXCEPT !.end = e]
           J1 == [J EXCEPT ![w].id = id]
           J2 == [J1 EXCEPT ![w].todo = t]
           J3 == [J2 EXCEPT ![w].end = e]
<1> HIDE DEF a
<1> HIDE DEF J1
<1> HIDE DEF b
<1> HIDE DEF J2
<1>1. QED
  BY DEF J3, J2, J1, Inserted, With

\* What is left after a call shows and takes no more than before.
LEMMA TailTaken ==
    ASSUME NEW j, NEW j2, NEW D, IsList(j.todo), j.todo # <<>>, j2.todo = Tail(j.todo), j2.form = j.form
    PROVE  /\ ShownBy(j2) \subseteq ShownBy(j) /\ Taken(j2) \subseteq Taken(j)
           /\ TakeOk(j, j.todo, 1, D) =>
                 Taken(j2) \intersect Takes(j.todo[1], j.form) = {}
<1> DEFINE s == j.todo
<1>1. ASSUME NEW p \in DOMAIN Tail(s)
      PROVE  p + 1 \in DOMAIN s /\ p + 1 # 1 /\ j2.todo[p] = s[p + 1]
  BY ListTail, ListIs
<1>2. ShownBy(j2) \subseteq ShownBy(j)
  <2> SUFFICES ASSUME NEW f \in ShownBy(j2) PROVE f \in ShownBy(j)
    OBVIOUS
  <2>1. PICK p \in DOMAIN Tail(s) : f \in Shows(j2.todo[p], j2.form)
    BY IsShown
  <2>2. QED
    BY <1>1, <2>1, ShownIs
<1>3. ASSUME NEW f \in Taken(j2)
      PROVE  \E q \in DOMAIN s : q # 1 /\ f \in Takes(s[q], j.form)
  <2>1. PICK p \in DOMAIN Tail(s) : f \in Takes(j2.todo[p], j2.form)
    BY IsTaken
  <2>2. QED
    BY <1>1, <2>1
<1>4. ASSUME TakeOk(j, s, 1, D) PROVE Taken(j2) \intersect Takes(s[1], j.form) = {}
  <2> SUFFICES ASSUME NEW f \in Taken(j2), f \in Takes(s[1], j.form) PROVE FALSE
    OBVIOUS
  <2>1. PICK q \in DOMAIN s : q # 1 /\ f \in Takes(s[q], j.form)
    BY <1>3
  <2> HIDE DEF s
  <2>2. QED
    BY <2>1, <1>4 DEF TakeOk
<1>5. QED
  BY <1>2, <1>3, ShownIs, <1>4

\* The calls left after the first, if what they rely on is still so.
LEMMA TailStays ==
    ASSUME NEW R, NEW R2, NEW D, NEW D2, NEW j, NEW j2, IsList(j.todo), j.todo # <<>>,
           Continues(j, j2), j2.id = j.id, j2.todo = Tail(j.todo),
           ListOk(j, j.todo, R, D), \A f \in Taken(j) : f \in D => f \in D2,
           j.todo[1].do = "store" => j.todo[1].file \in D2,
           \/ Len(j.todo) = 1 \/ (R2 = R /\ j.todo[1].do # "update")
           \/ /\ j.kind \notin RemovesFirst
              /\ \A p \in DOMAIN j.todo : p > 1 /\ j.todo[p].do = "remove" =>
                    /\ Claims(j.id, j.todo[p].file, R2)
                    /\ p = 2 => Dead(j.todo[p].file, R2)
    PROVE  ListOk(j2, j2.todo, R2, D2)
<1> DEFINE s == j.todo t == Tail(s) n == Len(s)
<1>1. /\ n \in Nat /\ n # 0 /\ Len(t) = n - 1 /\ DOMAIN s = 1..n /\ DOMAIN t = 1..n - 1
      /\ \A p \in DOMAIN t : p + 1 \in DOMAIN s /\ t[p] = s[p + 1]
  BY ListIs, ListTail
<1>2. /\ j2.op = j.op /\ j2.kind = j.kind /\ j2.form = j.form /\ j2.alone = j.alone
      /\ j2.crossed = j.crossed /\ j2.id = j.id /\ j2.todo = t
  BY DEF Continues
<1>3. /\ \A p \in DOMAIN s : CallOk(j, s[p])
      /\ \A p \in DOMAIN s : s[p].do = "remove" => RemoveOk(j, s, p, R)
      /\ \A p \in DOMAIN s : TakeOk(j, s, p, D)
      /\ \A p \in DOMAIN s : s[p].do = "insert" => InsertOk(j, s, p, D)
      /\ \A p \in DOMAIN s : s[p].do = "update" => UpdateOk(j, s, p, R)
      /\ j.kind \in RemovesFirst =>
           \A p \in DOMAIN s : p < n => s[p].do \in {"store", "remove", "refuse"}
  BY DEF ListOk
<1>4. \A p \in DOMAIN s : Takes(s[p], j.form) \subseteq Taken(j)
  BY ShownIs
<1>5. /\ s[1].do = "store" => s[1].file \in D2
      /\ \/ n = 1 \/ (R2 = R /\ s[1].do # "update")
         \/ /\ j.kind \notin RemovesFirst
            /\ \A p \in DOMAIN s : p > 1 /\ s[p].do = "remove" =>
                  /\ Claims(j.id, s[p].file, R2)
                  /\ p = 2 => Dead(s[p].file, R2)
  OBVIOUS
<1> HIDE DEF s, t, n
<1>6. \A p \in DOMAIN t : p \in Nat /\ p + 1 \in DOMAIN s /\ p + 1 > 1 /\ t[p] = s[p + 1] /\ n # 1
  BY <1>1
<1>7. \A p \in DOMAIN t : CallOk(j2, t[p])
  BY <1>2, <1>3, <1>6 DEF CallOk
<1>8. ASSUME NEW p \in DOMAIN t, t[p].do = "remove" PROVE RemoveOk(j2, t, p, R2)
  <2>1. RemoveOk(j, s, p + 1, R) /\ t[p] = s[p + 1] /\ s[p + 1].do = "remove" /\ p + 1 \in DOMAIN s
    BY <1>3, <1>6, <1>8
  <2>2. CASE j.kind \in RemovesFirst
    BY <2>1, <2>2, <1>1, <1>2, <1>5, <1>6 DEF RemoveOk, n, Final
  <2>3. CASE j.kind \notin RemovesFirst
    BY <1>6, <2>1, <2>3, <1>5, <1>2, <1>1 DEF RemoveOk, n
  <2>4. QED
    BY <2>2, <2>3
<1>9. ASSUME NEW p \in DOMAIN t, Takes(t[p], j.form) # {}
      PROVE  /\ \A q \in DOMAIN t : q # p => Takes(t[q], j.form) = {}
             /\ \A f \in Takes(t[p], j.form) :
                  \/ f \in D2 \/ j.crossed
                  \/ \E q \in DOMAIN t : q < p /\ t[q].do = "store" /\ t[q].file = f
  <2>1. TakeOk(j, s, p + 1, D) /\ Takes(s[p + 1], j.form) # {} /\ p + 1 \in DOMAIN s /\ t[p] = s[p + 1]
    BY <1>3, <1>6, <1>9
  <2>2. ASSUME NEW q \in DOMAIN t, q # p PROVE Takes(t[q], j.form) = {}
    BY <1>6, <2>2, <2>1 DEF TakeOk
  <2>3. ASSUME NEW f \in Takes(t[p], j.form), f \notin D2, ~j.crossed
        PROVE  \E q \in DOMAIN t : q < p /\ t[q].do = "store" /\ t[q].file = f
    <3>1. PICK q \in DOMAIN s : q < p + 1 /\ s[q].do = "store" /\ s[q].file = f
      BY <2>1, <2>3, <1>4 DEF TakeOk
    <3>2. q - 1 \in DOMAIN t /\ q - 1 < p /\ (q - 1) + 1 = q
      BY <1>1, <3>1, <1>5, <2>3
    <3>3. QED
      BY <3>1, <3>2, <1>6
  <2>4. QED
    BY <2>2, <2>3
<1>10. \A p \in DOMAIN t : TakeOk(j2, t, p, D2)
  BY <1>2, <1>9 DEF TakeOk
<1>11. ASSUME NEW p \in DOMAIN t, t[p].do = "insert" PROVE InsertOk(j2, t, p, D2)
  BY <1>3, <1>6, <1>11, <1>2 DEF InsertOk, n
<1>12. ASSUME NEW p \in DOMAIN t, t[p].do = "update" PROVE UpdateOk(j2, t, p, R2)
  BY <1>3, <1>6, <1>12, <1>2, <1>5 DEF UpdateOk, CallOk, NamesIn
<1>13. ASSUME j.kind \in RemovesFirst, NEW p \in DOMAIN t, p < n - 1
       PROVE  t[p].do \in {"store", "remove", "refuse"}
  BY <1>1, <1>6, <1>13, <1>3
<1>14. QED
  BY <1>1, <1>2, <1>7, <1>8, <1>10, <1>11, <1>12, <1>13 DEF ListOk

-----------------------------------------------------------------------------
(* The invariant after a call.                                             *)

\* A path is good after a call, or was named in that place before.
Carried(j, j2, R, D, R2, D2) ==
    \A i \in DOMAIN R2 : \A k \in DOMAIN R2[i].files :
        \/ R2[i].files[k] \in D2 \union {NoFile} \/ R2[i].odd \/ Mends(j2, i, k, R2[i])
        \/ /\ i \in DOMAIN R /\ k \in DOMAIN R[i].files /\ R[i].files[k] = R2[i].files[k]
           /\ ~R[i].odd /\ R[i].kind = R2[i].kind
           /\ R[i].files[k] \in D => R[i].files[k] \in D2
           /\ ~Mends(j, i, k, R[i])

\* What is served after a call of a request on records.
LEMMA ServedStep ==
    ASSUME NEW R, NEW D, NEW R2, NEW D2, NEW J, J = [v \in Workers |-> J[v]], NEW w \in Workers, NEW j2,
           ServedInv(R, D, J), ~Swapping(J[w]),
           Carried(J[w], j2, R, D, R2, D2)
    PROVE  ServedInv(R2, D2, [J EXCEPT ![w] = j2])
<1> DEFINE J2 == [J EXCEPT ![w] = j2]
<1>1. J2[w] = j2 /\ \A v \in Workers \ {w} : J2[v] = J[v]
  OBVIOUS
<1> HIDE DEF J2
<1>2. ASSUME NEW v \in Workers, Swapping(J[v]) PROVE ServedInv(R2, D2, J2)
  BY <1>1, <1>2 DEF ServedInv
<1>3. ASSUME ThereOrMended(R, D, J), NEW i \in DOMAIN R2, NEW k \in DOMAIN R2[i].files,
             ~(R2[i].files[k] \in D2 \union {NoFile} \/ R2[i].odd)
      PROVE  \E v \in Workers : Mends(J2[v], i, k, R2[i])
  <2>1. CASE Mends(j2, i, k, R2[i])
    BY <1>1, <2>1
  <2>2. CASE ~Mends(j2, i, k, R2[i])
    <3>1. /\ i \in DOMAIN R /\ k \in DOMAIN R[i].files /\ R[i].files[k] = R2[i].files[k]
          /\ ~R[i].odd /\ R[i].kind = R2[i].kind
          /\ R[i].files[k] \in D => R[i].files[k] \in D2
          /\ ~Mends(J[w], i, k, R[i])
      BY <1>3, <2>2 DEF Carried
    <3>2. PICK v \in Workers : Mends(J[v], i, k, R[i])
      BY <1>3, <3>1 DEF ThereOrMended
    <3>3. QED
      BY <3>1, <3>2, <1>1 DEF Mends
  <2>3. QED
    BY <2>1, <2>2
<1>4. QED
  BY <1>2, <1>3 DEF J2, ServedInv, ThereOrMended

\* A worker that serves has a request.
LEMMA ServesJob ==
    ASSUME NEW R, NEW N, NEW D, NEW J, NEW s, NEW Z, NEW SN, Inv(R, N, D, J, s, Z, SN),
           NEW w \in Workers
    PROVE  /\ J[w] # Idle => IsJob(J[w], s) /\ OpInv(J[w], R, D, N, Z, SN)
           /\ Serves(J[w]) => /\ J[w] # Idle /\ IsJob(J[w], s) /\ OpInv(J[w], R, D, N, Z, SN)
                              /\ IsList(J[w].todo) /\ J[w].todo # <<>>
           /\ (J[w].op # "idle" /\ J[w].end = "no") <=> Serves(J[w])
<1>1. JobInv(J[w], R, D, N, Z, SN, s)
  BY DEF Inv
<1>2. Idle.op = "idle"
  BY DEF Idle
<1>3. QED
  BY <1>1, <1>2 DEF JobInv, IsJob, Serves

\* A call of one worker.
LEMMA GoesOn ==
    ASSUME NEW R, NEW N, NEW D, NEW J, NEW s, NEW Z, NEW SN, Inv(R, N, D, J, s, Z, SN),
           NEW R2, NEW N2, NEW D2, NEW Z2, NEW SN2, DataInv(R2, D2, Z2, s),
           NEW w \in Workers, Serves(J[w]), NEW j2, NEW T, T \subseteq Taken(J[w]),
           NamesOf(R2) \subseteq Known(R, Z, J) \union T,
           NamesOf(Z2.rows) \subseteq Known(R, Z, J) \union T,
           j2 # Idle => /\ Continues(J[w], j2) /\ ShownBy(j2) \subseteq Known(R, Z, J)
                        /\ Taken(j2) \subseteq Taken(J[w]) \ T,
           J[w].alone \/ (Passes(R, R2, T) /\ (J[w].op = "restore" \/ D \ D2 \subseteq Known(R, Z, J))),
           JobInv(j2, R2, D2, N2, Z2, SN2, s), ServedInv(R2, D2, [J EXCEPT ![w] = j2])
    PROVE  Inv(R2, N2, D2, [J EXCEPT ![w] = j2], s, Z2, SN2)
<1> DEFINE J2 == [J EXCEPT ![w] = j2]
<1>1. KnownInv(R, Z, J, s) /\ PairInv(J) /\ J = [v \in Workers |-> J[v]]
  BY DEF Inv
<1>2. KnownInv(R2, Z2, J2, s) /\ PairInv(J2)
  BY ServesJob, <1>1, KnownStep
<1>3. ASSUME NEW v \in Workers, v # w PROVE JobInv(J[v], R2, D2, N2, Z2, SN2, s)
  BY <1>1, <1>3, OthersStay DEF Inv
<1> HIDE DEF J2
<1>4. QED
  BY <1>2, <1>3 DEF J2, Inv

\* A call that leaves the rows alone.
LEMMA GoesOnQuietly ==
    ASSUME NEW R, NEW N, NEW D, NEW J, NEW s, NEW Z, NEW SN, Inv(R, N, D, J, s, Z, SN),
           NEW D2, D2 \subseteq Files, NEW SN2, NEW w \in Workers, Serves(J[w]), NEW j2,
           Continues(J[w], j2), ShownBy(j2) \subseteq Known(R, Z, J), Taken(j2) \subseteq Taken(J[w]),
           J[w].alone \/ J[w].op = "restore" \/ D \ D2 \subseteq Known(R, Z, J),
           JobInv(j2, R, D2, N, Z, SN2, s), ServedInv(R, D2, [J EXCEPT ![w] = j2])
    PROVE  Inv(R, N, D2, [J EXCEPT ![w] = j2], s, Z, SN2)
<1>1. DataInv(R, D2, Z, s)
  BY DEF Inv, DataInv
<1> DEFINE T == {}
<1>2. NamesOf(R) \subseteq Known(R, Z, J) \union T /\ NamesOf(Z.rows) \subseteq Known(R, Z, J) \union T
  BY KnownIs
<1>3. T \subseteq Taken(J[w]) /\ (Taken(j2) \subseteq Taken(J[w]) \ T)
  OBVIOUS
<1> HIDE DEF T
<1>4. QED
  BY <1>1, <1>2, <1>3, GoesOn DEF Passes

-----------------------------------------------------------------------------
(* Whose turn it is.                                                       *)

\* The program of a restore, call by call.
LEMMA ProgramIs ==
    /\ Program[1] = "keep database" /\ Program[2] = "keep" /\ Program[3] = "keep"
    /\ Program[4] = "keep" /\ Program[5] = "keep" /\ Program[6] = "swap database"
    /\ Program[7] = "move aside" /\ Program[8] = "copy in" /\ Program[9] = "move aside"
    /\ Program[10] = "copy in" /\ Program[11] = "move aside" /\ Program[12] = "copy in"
    /\ Program[13] = "move aside" /\ Program[14] = "copy in" /\ Program[15] = "migrate"
BY DEF Program

\* The calls a restore is made of.
LEMMA ProgramDos ==
    ASSUME NEW q \in 1..15
    PROVE  Program[q] \in {"keep database", "keep", "swap database", "move aside", "copy in", "migrate"}
<1>1. q \in {1, 2, 3, 4, 5, 6, 7, 8, 9, 10, 11, 12, 13, 14, 15}
  OBVIOUS
<1>2. QED
  BY <1>1, ProgramIs

\* The last call of a download.
LEMMA SendIs == ASSUME NEW c, IsSend(c) PROVE c.do = "send"
BY DEF IsSend

\* The first call tells what is being done.
LEMMA FirstCall ==
    ASSUME NEW j, NEW R, NEW D, NEW N, NEW Z, NEW SN, OpInv(j, R, D, N, Z, SN),
           IsList(j.todo), j.todo # <<>>
    PROVE  /\ j.op = "backup" => j.todo[1].do \in {"copy database", "walk", "send"}
           /\ j.op = "restore" =>
                j.todo = Refused \/
                  (Follows(j.todo) /\ j.todo[1].do = Program[16 - Len(j.todo)] /\ Len(j.todo) \in 1..15
                    /\ j.todo[1].do \in {"keep database", "keep", "swap database", "move aside",
                                         "copy in", "migrate"})
           /\ j.op \in Ordinary => j.todo[1].do \in Dos /\ ListOk(j, j.todo, R, D) /\ CallOk(j, j.todo[1])
           /\ j.op \in Ordinary \union {"backup", "restore"}
           /\ j.todo = Refused => j.todo[1].do = "refuse" /\ Len(j.todo) = 1
<1> DEFINE s == j.todo
<1>1. Len(s) \in Nat /\ DOMAIN s = 1..Len(s) /\ Len(s) # 0 /\ 1 \in DOMAIN s
  BY ListIs, ListTail
<1>2. ASSUME j.op = "backup" PROVE s[1].do \in {"copy database", "walk", "send"}
  BY <1>2, <1>1, SendIs, ListPlaces DEF OpInv, Ordinary, BackupOk
<1>3. s = Refused => s[1].do = "refuse" /\ Len(s) = 1
  <2> HIDE DEF s
  <2>1. QED
    BY ListOne DEF Refused
<1>4. ASSUME j.op = "restore", s # Refused
      PROVE  /\ Follows(s) /\ s[1].do = Program[16 - Len(s)] /\ Len(s) \in 1..15
             /\ s[1].do \in {"keep database", "keep", "swap database", "move aside", "copy in", "migrate"}
  <2>1. Follows(s)
    BY <1>4 DEF OpInv, Ordinary
  <2> HIDE DEF s
  <2>2. s[1].do = Program[1 + 15 - Len(s)] /\ Len(s) <= 15
    BY <1>1, <2>1 DEF Follows, InProgram
  <2> DEFINE n == Len(s)
  <2>3. n \in Nat /\ n # 0 /\ n <= 15
    BY <1>1, <2>2
  <2> HIDE DEF n
  <2>4. 1 + 15 - n = 16 - n /\ 16 - n \in 1..15 /\ n \in 1..15
    BY <2>3
  <2>5. QED
    BY <2>1, <2>2, <2>4, ProgramDos DEF n
<1>5. ASSUME j.op \in Ordinary PROVE s[1].do \in Dos /\ ListOk(j, s, R, D) /\ CallOk(j, s[1])
  BY <1>5, <1>1 DEF OpInv, Ordinary, ListOk, CallOk
<1>6. QED
  BY <1>2, <1>3, <1>4, <1>5 DEF OpInv

\* A worker whose next call it is.
LEMMA Turn ==
    ASSUME IInv, NEW w \in Workers, NEW do, At(w, do)
    PROVE  /\ Serves(job[w]) /\ IsJob(job[w], served) /\ IsList(job[w].todo) /\ job[w].todo # <<>>
           /\ OpInv(job[w], rows, disk, nextId, zip, snapshot)
           /\ NextCall(w) = job[w].todo[1] /\ job[w].todo[1].do = do /\ 1 \in DOMAIN job[w].todo
           /\ ShownBy(job[w]) \subseteq Known(rows, zip, job)
BY ServesJob, ListTail, KnownIs DEF At, Serving, IInv, NextCall

\* Who comes to a call on records serves a request on records.
LEMMA OrdinaryTurn ==
    ASSUME IInv, NEW w \in Workers, NEW do \in Dos \ {"refuse"}, At(w, do)
    PROVE  /\ job[w].op \in Ordinary /\ ListOk(job[w], job[w].todo, rows, disk)
           /\ CallOk(job[w], job[w].todo[1]) /\ ~Swapping(job[w])
BY Turn, FirstCall DEF Dos, Swapping, Ordinary

\* What Go and Fail make of the request.
LEMMA Goes ==
    ASSUME IInv, NEW w \in Workers, Serves(job[w]), NEW t, IsList(t)
    PROVE  /\ Go(w, t) => job' = [job EXCEPT ![w] = After(job[w], t)]
           /\ IsJob(After(job[w], t), served) /\ Continues(job[w], After(job[w], t))
           /\ After(job[w], t) # Idle /\ After(job[w], t).todo = t /\ After(job[w], t).id = job[w].id
           /\ After(job[w], t).end = IF t = <<>> THEN "ok" ELSE "no"
<1>1. IsJob(job[w], served) /\ job = [v \in Workers |-> job[v]]
  BY ServesJob DEF IInv, Inv
<1> DEFINE e == IF t = <<>> THEN "ok" ELSE "no"
<1>2. Go(w, t) => job' = Gone(job, w, t, e)
  BY DEF Go, Gone
<1>3. After(job[w], t) = With(job[w], job[w].id, t, e)
  BY DEF After
<1> HIDE DEF e
<1>4. QED
  BY <1>2, <1>3, <1>1, GoIs, WithIs DEF e

\* A request that fails has nothing left to do.
LEMMA Fails ==
    ASSUME IInv, NEW w \in Workers, Serves(job[w])
    PROVE  LET j2 == Failed(job[w]) IN
           /\ Fail(w) => job' = [job EXCEPT ![w] = j2]
           /\ IsJob(j2, served) /\ Continues(job[w], j2) /\ j2 # Idle /\ j2.todo = <<>>
           /\ ShownBy(j2) = {} /\ Taken(j2) = {} /\ j2.end = "failed"
<1> DEFINE j2 == Failed(job[w])
<1>1. IsJob(job[w], served) /\ job = [v \in Workers |-> job[v]]
  BY ServesJob DEF IInv, Inv
<1>2. Fail(w) => job' = [job EXCEPT ![w] = j2]
  <2>1. Gone(job, w, <<>>, "failed") = [job EXCEPT ![w] = With(job[w], job[w].id, <<>>, "failed")]
    BY <1>1, GoIs
  <2>2. QED
    BY <2>1 DEF Failed, Fail, Gone
<1> HIDE DEF j2
<1>3. QED
  BY <1>2, <1>1, ListNone, WithIs, IsShown, IsTaken DEF j2, Failed

\* Nothing is left to do.
LEMMA NothingLeft ==
    ASSUME NEW j, NEW R, NEW D, NEW N, NEW Z, NEW SN, NEW s, IsJob(j, s), j.todo = <<>>, j.op \in Ordinary
    PROVE  JobInv(j, R, D, N, Z, SN, s)
<1>1. DOMAIN j.todo = {}
  BY ListNone
<1>2. ListOk(j, j.todo, R, D)
  BY <1>1 DEF ListOk
<1>3. QED
  BY <1>2 DEF JobInv, OpInv

\* What is served after a call that touches neither rows nor files.
LEMMA ServedQuietly ==
    ASSUME NEW R, NEW D, NEW D2, D \subseteq D2, NEW J, J = [v \in Workers |-> J[v]], NEW w \in Workers,
           NEW j2, ServedInv(R, D, J), ~Swapping(J[w]),
           J[w].todo[1].do \notin {"delete", "update"} \/ J[w].kind \notin RemovesFirst
    PROVE  ServedInv(R, D2, [J EXCEPT ![w] = j2])
<1>1. \A i, k, row : ~Mends(J[w], i, k, row)
  BY DEF Mends
<1>2. Carried(J[w], j2, R, D, R, D2)
  BY <1>1 DEF Carried
<1>3. QED
  BY <1>2, ServedStep

-----------------------------------------------------------------------------
(* Calls that leave the rows alone.                                        *)

\* A file is stored or removed.
LEMMA FileStep ==
    ASSUME IInv, NEW w \in Workers, NEW do \in {"store", "remove"}, At(w, do), Pop(w),
           UNCHANGED <<rows, nextId, served, zip, snapshot>>, disk' \subseteq Files,
           disk \ disk' \subseteq ShownBy(job[w]), do = "store" => job[w].todo[1].file \in disk',
           ServedInv(rows, disk', [job EXCEPT ![w] = After(job[w], Tail(job[w].todo))])
    PROVE  IInv'
<1> DEFINE j == job[w] s == job[w].todo j2 == After(job[w], Tail(job[w].todo))
<1>1. /\ Serves(j) /\ IsJob(j, served) /\ IsList(s) /\ s # <<>> /\ s[1].do = do
      /\ ShownBy(j) \subseteq Known(rows, zip, job) /\ 1 \in DOMAIN s
  BY Turn
<1>2. do \in Dos \ {"refuse"}
  BY DEF Dos
<1>3. /\ j.op \in Ordinary /\ ListOk(j, s, rows, disk) /\ CallOk(j, s[1])
  BY <1>2, OrdinaryTurn
<1>4. IsList(Tail(s))
  BY <1>1, ListTail
<1>5. Go(w, Tail(s))
  BY DEF Pop
<1>6. /\ job' = [job EXCEPT ![w] = j2] /\ IsJob(j2, served) /\ Continues(j, j2) /\ j2 # Idle
      /\ j2.todo = Tail(s) /\ j2.id = j.id
  BY <1>1, <1>4, <1>5, Goes
<1> HIDE DEF j2
<1>7. j2.form = j.form /\ j2.op = j.op
  BY <1>6 DEF Continues
<1>8. ShownBy(j2) \subseteq ShownBy(j) /\ Taken(j2) \subseteq Taken(j)
  BY <1>1, <1>6, <1>7, TailTaken
<1>9. \A f \in Taken(j) : f \in disk => f \in disk'
  <2>1. Taken(j) \intersect Known(rows, zip, job) = {}
    BY <1>1 DEF IInv, Inv, KnownInv, Serves
  <2>2. QED
    BY <1>1, <2>1
<1>10. ListOk(j2, j2.todo, rows, disk')
  <2>1. s[1].do # "update" /\ (s[1].do = "store" => s[1].file \in disk')
    BY <1>1
  <2>2. QED
    BY <1>1, <1>3, <1>6, <1>9, <2>1, TailStays
<1>11. JobInv(j2, rows, disk', nextId, zip, snapshot, served)
  BY <1>3, <1>6, <1>7, <1>10 DEF JobInv, OpInv
<1>12. disk \ disk' \subseteq Known(rows, zip, job) /\ ShownBy(j2) \subseteq Known(rows, zip, job)
  BY <1>1, <1>8
<1>13. Inv(rows, nextId, disk', [job EXCEPT ![w] = j2], served, zip, snapshot)
  BY <1>1, <1>6, <1>8, <1>11, <1>12, GoesOnQuietly DEF IInv, j2
<1>14. QED
  BY <1>6, <1>13 DEF IInv

\* _save_image, _save_pdf: the file is there before a row names it.
LEMMA WriteStep ==
    ASSUME IInv, NEW w \in Workers, Write(w), UNCHANGED <<zip, snapshot>>
    PROVE  IInv'
<1> DEFINE s == job[w].todo
           j2 == After(job[w], Tail(job[w].todo))
<1>1. /\ At(w, "store") /\ Pop(w) /\ disk' = disk \union {NextCall(w).file}
      /\ UNCHANGED <<rows, nextId, served, zip, snapshot>>
  BY DEF Write
<1>2. s[1].do = "store" /\ NextCall(w) = s[1]
  BY <1>1, Turn
<1>3. CallOk(job[w], s[1]) /\ ~Swapping(job[w])
  BY <1>1, OrdinaryTurn DEF Dos
<1> HIDE DEF j2
<1>4. QED
  BY <1>1, <1>2, <1>3, ServedQuietly, FileStep DEF j2, IInv, Inv, CallOk, DataInv

\* os.remove: no row names the file, or the one that does is about to change.
LEMMA UnlinkStep ==
    ASSUME IInv, NEW w \in Workers, Unlink(w), UNCHANGED <<zip, snapshot>>
    PROVE  IInv'
<1> DEFINE j == job[w]
           s == job[w].todo
           f == s[1].file
           j2 == After(job[w], Tail(job[w].todo))
<1>1. /\ At(w, "remove") /\ Pop(w) /\ disk' = disk \ {NextCall(w).file}
      /\ UNCHANGED <<rows, nextId, served, zip, snapshot>>
  BY DEF Unlink
<1>2. /\ s[1].do = "remove" /\ NextCall(w) = s[1] /\ 1 \in DOMAIN s /\ Serves(j) /\ IsJob(j, served)
      /\ IsList(s) /\ s # <<>>
  BY <1>1, Turn
<1>3. ~Swapping(j) /\ ListOk(j, s, rows, disk) /\ j.op \in Ordinary
  BY <1>1, OrdinaryTurn DEF Dos
<1>4. disk \subseteq Files /\ job = [v \in Workers |-> job[v]] /\ ServedInv(rows, disk, job) /\ IsTable(rows)
  BY DEF IInv, Inv, DataInv
<1>5. disk' = disk \ {f} /\ disk' \subseteq Files
  BY <1>1, <1>2, <1>4
<1>6. RemoveOk(j, s, 1, rows)
  BY <1>2, <1>3 DEF ListOk
<1>7. /\ IsJob(j2, served) /\ Continues(j, j2) /\ j2 # Idle /\ j2.todo = Tail(s) /\ j2.id = j.id
  BY <1>2, ListTail, Goes
<1> HIDE DEF j2
<1>8. ASSUME NEW i \in DOMAIN rows, NEW k \in DOMAIN rows[i].files, rows[i].files[k] = f, ~rows[i].odd,
              f # NoFile
       PROVE  Mends(j2, i, k, rows[i])
  <2>1. Fits(f, rows[i].kind, k) /\ k \in 1..Columns(rows[i].kind)
    BY <1>8, <1>4, RowFiles DEF IsTable
  <2>2. /\ j.kind \in RemovesFirst /\ 1 = Len(s) - 1 /\ Final(j, f, s[1 + 1]) /\ Claims(j.id, f, rows)
        /\ \E m \in 1..Columns(j.kind) : Fits(f, j.kind, m)
    BY <1>6, <1>8 DEF RemoveOk, Dead
  <2>3. rows[i].kind = j.kind
    BY <2>1, <2>2, FitsKinds
  <2>4. f.slot = k
    BY <2>1, <2>2, <2>3 DEF Fits, RemovesFirst
  <2>5. Len(Tail(s)) = 1 /\ 1 \in DOMAIN Tail(s) /\ Tail(s)[1] = s[1 + 1]
    BY <1>2, ListTail, <2>2, ListIs
  <2>6. j2.op = j.op /\ j2.kind = j.kind /\ j2.form = j.form
    BY <1>7 DEF Continues
  <2>7. QED
    BY <1>3, <1>7, <2>2, <1>8, <2>3, <2>4, <2>5, ListNone, <2>6 DEF Mends, Final, Claims, Serves
<1>9. ASSUME NEW i \in DOMAIN rows, NEW k \in DOMAIN rows[i].files
       PROVE  \/ rows[i].files[k] \in disk' \union {NoFile} \/ rows[i].odd \/ Mends(j2, i, k, rows[i])
              \/ /\ i \in DOMAIN rows /\ k \in DOMAIN rows[i].files /\ rows[i].files[k] = rows[i].files[k]
                 /\ ~rows[i].odd /\ rows[i].kind = rows[i].kind
                 /\ rows[i].files[k] \in disk => rows[i].files[k] \in disk'
                 /\ ~Mends(j, i, k, rows[i])
  BY <1>8, <1>5, <1>2 DEF Mends
<1>10. ServedInv(rows, disk', [job EXCEPT ![w] = j2])
  <2> DEFINE D2 == disk'
  <2> HIDE DEF D2
  <2>1. QED
    BY <1>3, <1>4, <1>9, ServedStep DEF D2, Carried
<1>11. QED
  BY <1>1, <1>2, <1>5, <1>10, ShownIs, FileStep DEF j2, Shows, Handled

\* A request on records is cut short: nothing is left to do.
LEMMA FailStep ==
    ASSUME IInv, NEW w \in Workers, NEW do \in Dos \ {"refuse"}, At(w, do), Fail(w),
           do \notin {"delete", "update"} \/ job[w].kind \notin RemovesFirst,
           UNCHANGED <<rows, nextId, disk, served, zip, snapshot>>
    PROVE  IInv'
<1> DEFINE j == job[w] s == job[w].todo j2 == Failed(job[w])
<1>1. /\ s[1].do = do /\ Serves(j) /\ IsJob(j, served)
  BY Turn
<1>2. /\ job' = [job EXCEPT ![w] = j2] /\ IsJob(j2, served) /\ Continues(j, j2) /\ j2 # Idle /\ j2.todo = <<>>
      /\ ShownBy(j2) = {} /\ Taken(j2) = {}
  BY <1>1, Fails
<1> HIDE DEF j2
<1>3. ServedInv(rows, disk, job) /\ disk \subseteq Files /\ job = [v \in Workers |-> job[v]]
  BY DEF IInv, Inv, DataInv
<1>4. QED
  BY <1>2, <1>1, OrdinaryTurn, NothingLeft, <1>3, ServedQuietly, GoesOnQuietly DEF IInv, Continues

\* A form is refused: nothing is left to do.
LEMMA RefuseStep ==
    ASSUME IInv, NEW w \in Workers, Refuse(w), UNCHANGED <<zip, snapshot>>
    PROVE  IInv'
<1> DEFINE j == job[w] s == job[w].todo j2 == Failed(job[w])
<1>1. At(w, "refuse") /\ Fail(w) /\ UNCHANGED <<rows, nextId, disk, served, zip, snapshot>>
  BY DEF Refuse
<1>2. /\ s[1].do = "refuse" /\ Serves(j) /\ IsList(s) /\ s # <<>> /\ IsJob(j, served)
      /\ OpInv(j, rows, disk, nextId, zip, snapshot)
  BY <1>1, Turn
<1>3. /\ job' = [job EXCEPT ![w] = j2] /\ IsJob(j2, served) /\ Continues(j, j2) /\ j2 # Idle /\ j2.todo = <<>>
      /\ ShownBy(j2) = {} /\ Taken(j2) = {} /\ j2.end = "failed"
  BY <1>1, <1>2, Fails
<1> HIDE DEF j2
<1>4. j2.op = j.op /\ j2.alone = j.alone /\ j2.before = j.before
  BY <1>3 DEF Continues
<1>5. /\ j.op = "restore" => s = Refused
      /\ j.op \in {"restore"} \union Ordinary
  BY <1>2, FirstCall
<1>6. JobInv(j2, rows, disk, nextId, zip, snapshot, served)
  <2>1. CASE j.op \in Ordinary
    BY <1>3, <1>4, <2>1, NothingLeft
  <2>2. CASE j.op = "restore"
    <3>1. DOMAIN <<>> = {} /\ Len(<<>>) = 0
      BY ListNone
    <3>2. j.alone => StageOk(j2, <<>>, rows, disk, nextId, zip, snapshot)
      BY <1>3, <1>4, <3>1, <1>2, <1>5, <2>2, ListOne DEF StageOk, Untouched, OpInv, Ordinary, Refused
    <3>3. QED
      BY <1>3, <1>4, <2>2, <3>1, <3>2 DEF JobInv, OpInv, Follows
  <2>3. QED
    BY <1>5, <2>1, <2>2
<1>7. ServedInv(rows, disk, job) /\ disk \subseteq Files /\ job = [v \in Workers |-> job[v]]
  BY DEF IInv, Inv, DataInv
<1>8. Inv(rows, nextId, disk, [job EXCEPT ![w] = j2], served, zip, snapshot)
  BY <1>2, <1>3, <1>6, <1>7, ServedQuietly, GoesOnQuietly DEF IInv, Swapping
<1>9. QED
  BY <1>1, <1>3, <1>8 DEF IInv

-----------------------------------------------------------------------------
(* Calls that put others in front of what is left.                         *)

\* A call that names no file but some of K, to look whether they are named.
Plain(j, c, K) ==
    /\ CallOk(j, c) /\ c.do \in {"replace", "delete", "count", "list", "open", "copy"}
    /\ c.do = "count" => c.each \subseteq K
AllPlain(j, X, K) == IsList(X) /\ \A p \in DOMAIN X : Plain(j, X[p], K)
\* The same, but for a file nobody names, which is removed first.
Fronts(j, X, K, R) ==
    /\ IsList(X)
    /\ \A p \in DOMAIN X :
          \/ Plain(j, X[p], K)
          \/ p = 1 /\ X[p].do = "remove" /\ X[p].file \in K /\ X[p].file \in Files /\ Dead(X[p].file, R)

\* Calls that name no file: none,
LEMMA PlainNone == \A j, K : AllPlain(j, <<>>, K)
BY ListNone DEF AllPlain

\* one,
LEMMA PlainOne ==
    ASSUME NEW j, NEW c, NEW K, Plain(j, c, K)
    PROVE  AllPlain(j, <<c>>, K)
BY ListOne DEF AllPlain

\* one list of them after the other,
LEMMA PlainConcat ==
    ASSUME NEW j, NEW X, NEW Y, NEW K, AllPlain(j, X, K), AllPlain(j, Y, K)
    PROVE  AllPlain(j, X \o Y, K)
<1> DEFINE u == X \o Y
<1> HIDE DEF u
<1>1. QED
  BY ListConcat DEF u, AllPlain

\* A call made for each of some things.
LEMMA PlainEach ==
    ASSUME NEW j, NEW do \in {"count", "list", "open"}, NEW S, NEW K, j.kind \in CatalogueKinds,
           do = "count" => \A f \in S : f \in K /\ \E k \in 1..2 : Fits(f, "design", k)
    PROVE  AllPlain(j, ForEach(do, S), K)
<1> DEFINE c == [do |-> do, each |-> S]
<1>1. c.do = do /\ c.each = S
  OBVIOUS
<1>2. ForEach(do, S) = IF S = {} THEN <<>> ELSE <<c>>
  BY DEF ForEach
<1> HIDE DEF c
<1>3. CallOk(j, c)
  BY <1>1 DEF CallOk, Dos
<1>4. Plain(j, c, K)
  BY <1>1, <1>3 DEF Plain
<1>5. QED
  BY <1>2, <1>4, PlainOne, PlainNone

\* the deletion of a row,
LEMMA PlainDeletion ==
    ASSUME NEW j, NEW kind, NEW id, NEW K, j.kind \notin RemovesFirst
    PROVE  AllPlain(j, Deletion(kind, id), K)
<1> DEFINE c == [do |-> "delete", kind |-> kind, id |-> id]
<1>1. c.do = "delete"
  OBVIOUS
<1>2. Deletion(kind, id) = <<c>>
  BY DEF Deletion
<1> HIDE DEF c
<1>3. CallOk(j, c)
  BY <1>1 DEF CallOk, Dos
<1>4. QED
  BY <1>1, <1>2, <1>3, PlainOne DEF Plain

\* and the packing types of a product.
LEMMA PlainPallets ==
    ASSUME NEW j, NEW id, NEW with, NEW level, NEW K, j.kind \notin RemovesFirst
    PROVE  AllPlain(j, Pallets(id, with, level), K)
<1> DEFINE c == [do |-> "replace", id |-> id, part |-> 2, with |-> with, text |-> level]
<1>1. c.do = "replace"
  OBVIOUS
<1>2. Pallets(id, with, level) = <<c>>
  BY DEF Pallets
<1> HIDE DEF c
<1>3. CallOk(j, c)
  BY <1>1 DEF CallOk, Dos
<1>4. QED
  BY <1>1, <1>2, <1>3, PlainOne DEF Plain

\* The images of designs are those of their rows.
LEMMA ImagesAre ==
    ASSUME NEW K, IsTable(rows), NamesOf(rows) \subseteq K, NEW designs, designs \subseteq Designs
    PROVE  \A f \in ImagesOf(designs) \ {NoFile} : f \in K /\ \E k \in 1..2 : Fits(f, "design", k)
<1> SUFFICES ASSUME NEW f \in ImagesOf(designs), f # NoFile
             PROVE  f \in K /\ \E k \in 1..2 : Fits(f, "design", k)
  OBVIOUS
<1>1. PICK d \in designs : f \in {rows[d].files[k] : k \in 1..2}
  BY DEF ImagesOf
<1>2. PICK k \in 1..2 : f = rows[d].files[k]
  BY <1>1
<1>3. d \in DOMAIN rows /\ rows[d].kind = "design" /\ IsRow(rows[d])
  BY <1>1 DEF Designs, OfKind, IsTable
<1>4. QED
  BY <1>2, <1>3, ColumnsAre, RowFiles, TableNames DEF IsRow

\* Calls in front of those left: in a catalogue, whatever is removed is next.
LEMMA InFront ==
    ASSUME NEW R, NEW D, NEW j, NEW j2, IsList(j.todo), j.todo # <<>>, ListOk(j, j.todo, R, D),
           j.todo[1].do \in {"count", "list", "open", "copy"}, Continues(j, j2), j2.id = j.id,
           NEW X, j2.todo = X \o Tail(j.todo), NEW K, ShownBy(j) \subseteq K, Fronts(j, X, K, R)
    PROVE  ListOk(j2, j2.todo, R, D) /\ ShownBy(j2) \subseteq K /\ Taken(j2) \subseteq Taken(j)
<1> DEFINE s == j.todo t == Tail(s)
<1>1. /\ IsList(t) /\ 1 \in DOMAIN s /\ Len(s) \in Nat /\ DOMAIN s = 1..Len(s) /\ Len(t) = Len(s) - 1
      /\ \A p \in DOMAIN t : p + 1 \in DOMAIN s /\ t[p] = s[p + 1]
      /\ DOMAIN t = 1..Len(t)
  BY ListTail, ListIs
<1> HIDE DEF t
<1>2. /\ IsList(X)
      /\ \A p \in DOMAIN X :
          \/ Plain(j, X[p], K)
          \/ p = 1 /\ X[p].do = "remove" /\ X[p].file \in K /\ X[p].file \in Files /\ Dead(X[p].file, R)
  BY DEF Fronts
<1> DEFINE u == X \o t m == Len(X)
<1>3. /\ \A p \in DOMAIN X : p \in DOMAIN u /\ u[p] = X[p]
      /\ \A p \in DOMAIN t : m + p \in DOMAIN u /\ u[m + p] = t[p]
      /\ \A p \in DOMAIN u : p \in DOMAIN X \/ \E q \in DOMAIN t : p = m + q
      /\ m \in Nat /\ DOMAIN X = 1..m
  <2>1. IsList(t) /\ IsList(X)
    BY <1>2, <1>1
  <2>2. /\ \A p \in DOMAIN X : p \in DOMAIN u /\ u[p] = X[p]
        /\ \A p \in DOMAIN t : m + p \in DOMAIN u /\ u[m + p] = t[p]
        /\ \A p \in DOMAIN u : p \in DOMAIN X \/ \E q \in DOMAIN t : p = m + q
    <3>1. \A p \in DOMAIN X : p \in DOMAIN u /\ u[p] = X[p]
      BY ONLY <2>1, ListConcat
    <3>2. \A p \in DOMAIN t : m + p \in DOMAIN u /\ u[m + p] = t[p]
      BY ONLY <2>1, ListConcat
    <3>3. \A p \in DOMAIN u : p \in DOMAIN X \/ \E q \in DOMAIN t : p = m + q
      BY ONLY <2>1, ListConcat
    <3>4. QED
      BY <3>1, <3>2, <3>3
  <2>3. QED
    BY <2>2, <2>1, ListIs
<1>4. /\ j2.op = j.op /\ j2.kind = j.kind /\ j2.form = j.form /\ j2.alone = j.alone
      /\ j2.crossed = j.crossed /\ j2.id = j.id /\ j2.todo = u
  BY DEF Continues, t
<1>5. /\ \A p \in DOMAIN s : CallOk(j, s[p])
      /\ \A p \in DOMAIN s : s[p].do = "remove" => RemoveOk(j, s, p, R)
      /\ \A p \in DOMAIN s : TakeOk(j, s, p, D)
      /\ \A p \in DOMAIN s : s[p].do = "insert" => InsertOk(j, s, p, D)
  BY DEF ListOk
<1>6. /\ \A p \in DOMAIN s : Takes(s[p], j.form) \subseteq Taken(j)
      /\ \A p \in DOMAIN s : Shows(s[p], j.form) \subseteq ShownBy(j)
  BY ShownIs
<1>7. s[1].do \in {"count", "list", "open", "copy"} /\ Len(s) = Len(j.todo)
  OBVIOUS
<1> HIDE DEF s, u, m
<1>8. j.kind \notin RemovesFirst /\ j.kind # "company"
  BY <1>1, <1>5, <1>7 DEF CatalogueKinds, RemovesFirst, CallOk
<1>9. \A p \in DOMAIN t : p \in Nat /\ p >= 1 /\ p + 1 \in DOMAIN s /\ p + 1 # 1 /\ t[p] = s[p + 1]
  BY <1>1
<1>10. \A p \in DOMAIN X : /\ CallOk(j, X[p]) /\ Written(X[p]) = {} /\ Handled(X[p]) \subseteq K
                           /\ X[p].do \notin {"insert", "update", "store"}
  <2> SUFFICES ASSUME NEW p \in DOMAIN X
               PROVE  /\ CallOk(j, X[p]) /\ Written(X[p]) = {} /\ Handled(X[p]) \subseteq K
                      /\ X[p].do \notin {"insert", "update", "store"}
    OBVIOUS
  <2>1. CASE Plain(j, X[p], K)
    BY <2>1 DEF Plain, Written, Handled
  <2>2. CASE X[p].do = "remove" /\ X[p].file \in K /\ X[p].file \in Files
    BY <2>2 DEF CallOk, Dos, Written, Handled
  <2>3. QED
    BY <1>2, <2>1, <2>2
<1>11. ASSUME NEW p \in DOMAIN u
       PROVE  \/ p \in DOMAIN X /\ u[p] = X[p] /\ Takes(u[p], j.form) = {}
              \/ \E q \in DOMAIN t : p = m + q /\ u[p] = s[q + 1]
  BY <1>3, <1>10, <1>9 DEF Takes
<1>12. ASSUME NEW p \in DOMAIN u PROVE CallOk(j2, u[p]) /\ Shows(u[p], j.form) \subseteq K
  BY <1>5, <1>9, <1>10, <1>11, <1>4, <1>6 DEF CallOk, Shows
<1>13. ASSUME NEW p \in DOMAIN u, u[p].do = "remove" PROVE RemoveOk(j2, u, p, R)
  BY <1>4, <1>8, <1>2, <1>13, <1>9, <1>5, <1>11 DEF RemoveOk, Plain
<1>14. ASSUME NEW p \in DOMAIN u, Takes(u[p], j.form) # {}
       PROVE  /\ \A q \in DOMAIN u : q # p => Takes(u[q], j.form) = {}
              /\ \A f \in Takes(u[p], j.form) :
                   \/ f \in D \/ j.crossed
                   \/ \E q \in DOMAIN u : q < p /\ u[q].do = "store" /\ u[q].file = f
  <2>1. PICK r \in DOMAIN t : p = m + r /\ u[p] = s[r + 1]
    BY <1>11, <1>14
  <2>2. TakeOk(j, s, r + 1, D) /\ r + 1 \in DOMAIN s /\ r \in Nat
    BY <1>5, <1>9, <2>1
  <2>3. ASSUME NEW q \in DOMAIN u, q # p PROVE Takes(u[q], j.form) = {}
    <3>1. CASE Takes(u[q], j.form) # {}
      <4>1. PICK x \in DOMAIN t : q = m + x /\ u[q] = s[x + 1]
        BY <1>11, <3>1
      <4>2. x + 1 \in DOMAIN s /\ x + 1 # r + 1
        BY <1>3, <1>9, <2>1, <2>2, <2>3, <4>1
      <4>3. QED
        BY <1>14, <2>1, <2>2, <4>1, <4>2 DEF TakeOk
    <3>2. QED
      BY <3>1
  <2>4. ASSUME NEW f \in Takes(u[p], j.form), f \notin D, ~j.crossed
        PROVE  \E q \in DOMAIN u : q < p /\ u[q].do = "store" /\ u[q].file = f
    <3>1. PICK y \in DOMAIN s : y < r + 1 /\ s[y].do = "store" /\ s[y].file = f
      BY <1>14, <2>1, <2>2, <2>4 DEF TakeOk
    <3>2. y # 1
      BY <1>7, <3>1
    <3>3. y - 1 \in DOMAIN t /\ (y - 1) + 1 = y /\ m + (y - 1) < m + r
      BY <1>1, <1>3, <2>2, <3>1, <3>2
    <3>4. QED
      BY <2>1, <3>1, <3>3, <1>3, <1>9
  <2>5. QED
    BY <2>3, <2>4
<1>15. ASSUME NEW p \in DOMAIN u, u[p].do = "insert" PROVE InsertOk(j2, u, p, D)
  <2>1. PICK r \in DOMAIN t : p = m + r /\ u[p] = s[r + 1]
    BY <1>10, <1>11, <1>15
  <2>2. InsertOk(j, s, r + 1, D) /\ r + 1 \in DOMAIN s /\ r \in Nat /\ r >= 1
    BY <1>5, <1>9, <1>15, <2>1
  <2>3. ASSUME NEW q \in DOMAIN u, q > p PROVE u[q].do \in {"replace", "copy"}
    <3>1. PICK x \in DOMAIN t : q = m + x /\ u[q] = s[x + 1]
      BY <1>11, <1>3, <2>1, <2>2, <2>3
    <3>2. QED
      BY <2>2, <3>1, <1>3, <1>9, <2>1, <2>3 DEF InsertOk
  <2>4. QED
    BY <1>4, <2>3, <2>1, <2>2, <1>1 DEF InsertOk
<1>16. ASSUME NEW p \in DOMAIN u, u[p].do = "update" PROVE UpdateOk(j2, u, p, R)
  BY <1>12, <1>4, <1>8, <1>16 DEF CallOk, NamesIn, UpdateOk
<1>17. ListOk(j2, u, R, D)
  BY <1>4, <1>8, <1>12, <1>13, <1>14, <1>15, <1>16 DEF ListOk, TakeOk
<1>18. ShownBy(j2) \subseteq K
  <2> SUFFICES ASSUME NEW f \in ShownBy(j2) PROVE f \in K
    OBVIOUS
  <2>1. PICK p \in DOMAIN u : f \in Shows(u[p], j.form)
    BY <1>4, IsShown
  <2>2. QED
    BY <1>12, <2>1
<1>19. Taken(j2) \subseteq Taken(j)
  <2> SUFFICES ASSUME NEW f \in Taken(j2) PROVE f \in Taken(j)
    OBVIOUS
  <2>1. PICK p \in DOMAIN u : f \in Takes(u[p], j.form)
    BY <1>4, IsTaken
  <2>2. PICK r \in DOMAIN t : u[p] = s[r + 1]
    BY <1>11, <2>1
  <2>3. QED
    BY <1>6, <1>9, <2>1, <2>2
<1>20. QED
  BY <1>4, <1>17, <1>18, <1>19

\* A call that only puts others in front.
LEMMA FrontStep ==
    ASSUME IInv, NEW w \in Workers, NEW do \in {"count", "list", "open", "copy"}, At(w, do),
           UNCHANGED <<rows, nextId, disk, served, zip, snapshot>>,
           NEW X, Go(w, X \o Tail(job[w].todo)), Fronts(job[w], X, Known(rows, zip, job), rows)
    PROVE  IInv'
<1> DEFINE j == job[w] s == job[w].todo t == X \o Tail(s) K == Known(rows, zip, job)
<1>1. /\ Serves(j) /\ IsJob(j, served) /\ IsList(s) /\ s # <<>> /\ s[1].do = do
      /\ ShownBy(j) \subseteq Known(rows, zip, job) /\ 1 \in DOMAIN s
  BY Turn
<1>2. j.op \in Ordinary /\ ListOk(j, s, rows, disk) /\ ~Swapping(j)
  BY OrdinaryTurn DEF Dos
<1>3. IsList(t)
  BY <1>1, ListTail, ListConcat DEF Fronts
<1>4. Go(w, t) /\ t = X \o Tail(s)
  OBVIOUS
<1> HIDE DEF t
<1> DEFINE j2 == After(job[w], t)
<1>5. Fronts(j, X, K, rows)
  OBVIOUS
<1>6. /\ job' = [job EXCEPT ![w] = j2] /\ IsJob(j2, served) /\ Continues(j, j2) /\ j2 # Idle
      /\ j2.todo = X \o Tail(j.todo) /\ j2.id = j.id
  <2>1. /\ Go(w, t) => job' = [job EXCEPT ![w] = j2]
        /\ IsJob(j2, served) /\ Continues(j, j2) /\ j2 # Idle /\ j2.todo = t /\ j2.id = j.id
    BY <1>3, <1>1, Goes
  <2>2. QED
    BY <1>4, <2>1
<1> HIDE DEF j2
<1>7. ListOk(j2, j2.todo, rows, disk) /\ ShownBy(j2) \subseteq K /\ Taken(j2) \subseteq Taken(j)
  <2>1. ShownBy(j) \subseteq K
    BY <1>1
  <2> HIDE DEF K
  <2>2. QED
    BY <1>1, <1>2, <1>6, <1>5, <2>1, InFront
<1>8. ServedInv(rows, disk, job) /\ disk \subseteq Files /\ job = [v \in Workers |-> job[v]]
  BY DEF IInv, Inv, DataInv
<1>9. ServedInv(rows, disk, [job EXCEPT ![w] = j2])
  BY <1>1, <1>2, <1>8, ServedQuietly
<1>10. QED
  BY <1>6, <1>1, <1>7, <1>2, <1>8, <1>9, GoesOnQuietly DEF IInv, JobInv, OpInv, Continues

\* Such calls may be put in front of what is left to do,
LEMMA FrontsPlain ==
    ASSUME NEW j, NEW X, NEW K, NEW R, AllPlain(j, X, K)
    PROVE  Fronts(j, X, K, R)
BY DEF AllPlain, Fronts

\* and so may the removal of a file that no row names any more.
LEMMA FrontsRemoval ==
    ASSUME NEW j, NEW Y, NEW K, NEW R, AllPlain(j, Y, K), NEW f \in K, f \in Files, Dead(f, R)
    PROVE  Fronts(j, Removal(f) \o Y, K, R)
<1> DEFINE c == [do |-> "remove", file |-> f]
<1>1. c.do = "remove" /\ c.file = f
  OBVIOUS
<1>2. Removal(f) = <<c>>
  BY TreesAre DEF Removal, NoFile, Files
<1> HIDE DEF c
<1> DEFINE A == <<c>>
<1>3. IsList(A) /\ DOMAIN A = {1} /\ Len(A) = 1 /\ A[1] = c
  BY ListOne
<1> HIDE DEF A
<1>4. IsList(Y) /\ \A p \in DOMAIN Y : Plain(j, Y[p], K)
  BY DEF AllPlain
<1> DEFINE u == A \o Y
<1>5. /\ IsList(u) /\ \A p \in DOMAIN A : u[p] = A[p]
      /\ \A p \in DOMAIN Y : u[Len(A) + p] = Y[p]
      /\ \A p \in DOMAIN u : p \in DOMAIN A \/ \E q \in DOMAIN Y : p = Len(A) + q
  <2>1. IsList(A) /\ IsList(Y)
    BY <1>3, <1>4
  <2>2. IsList(u) /\ \A p \in DOMAIN A : u[p] = A[p]
    BY ONLY <2>1, ListConcat
  <2>3. \A p \in DOMAIN Y : u[Len(A) + p] = Y[p]
    BY ONLY <2>1, ListConcat
  <2>4. \A p \in DOMAIN u : p \in DOMAIN A \/ \E q \in DOMAIN Y : p = Len(A) + q
    BY ONLY <2>1, ListConcat
  <2>5. QED
    BY <2>2, <2>3, <2>4
<1> HIDE DEF u
<1>6. ASSUME NEW p \in DOMAIN u
      PROVE  \/ Plain(j, u[p], K)
             \/ p = 1 /\ u[p].do = "remove" /\ u[p].file \in K /\ u[p].file \in Files /\ Dead(u[p].file, R)
  BY <1>1, <1>3, <1>5, <1>4
<1>7. QED
  BY <1>2, <1>5, <1>6 DEF u, A, Fronts

\* What a call of the catalogue may rely on.
LEMMA CatalogueTurn ==
    ASSUME IInv, NEW w \in Workers, NEW do \in {"count", "list", "open", "copy"}, At(w, do)
    PROVE  /\ job[w].kind \in CatalogueKinds /\ job[w].kind \notin RemovesFirst
           /\ IsTable(rows) /\ NamesOf(rows) \subseteq Known(rows, zip, job)
           /\ do = "count" => \A f \in NextCall(w).each :
                  /\ f \in Known(rows, zip, job) /\ f \in Files
                  /\ \E k \in 1..2 : Fits(f, "design", k)
<1>1. CallOk(job[w], job[w].todo[1])
  BY OrdinaryTurn DEF Dos
<1>2. /\ job[w].todo[1].do = do /\ NextCall(w) = job[w].todo[1] /\ 1 \in DOMAIN job[w].todo
      /\ ShownBy(job[w]) \subseteq Known(rows, zip, job)
  BY Turn
<1>3. ASSUME do = "count", NEW f \in NextCall(w).each
      PROVE  f \in Known(rows, zip, job) /\ f \in Files /\ \E k \in 1..2 : Fits(f, "design", k)
  BY <1>1, <1>2, <1>3, FitsFile, ShownIs DEF CallOk, Shows, Handled
<1>4. QED
  BY <1>1, <1>2, KnownIs, <1>3 DEF CatalogueKinds, RemovesFirst, CallOk, IInv, Inv, DataInv

\* list_in_category: the products found are to be deleted one by one.
LEMMA ListProductsStep ==
    ASSUME IInv, NEW w \in Workers, ListProducts(w), UNCHANGED <<zip, snapshot>>
    PROVE  IInv'
<1> DEFINE K == Known(rows, zip, job)
<1>1. /\ At(w, "list") /\ UNCHANGED <<rows, nextId, disk, served, zip, snapshot>>
      /\ \E c \in NextCall(w).each :
            Go(w, ForEach("open", {p \in Products : rows[p].up = c})
                      \o ForEach("list", NextCall(w).each \ {c}) \o Tail(job[w].todo))
  BY DEF ListProducts
<1>2. PICK c \in NextCall(w).each :
         Go(w, ForEach("open", {p \in Products : rows[p].up = c})
                   \o ForEach("list", NextCall(w).each \ {c}) \o Tail(job[w].todo))
  BY <1>1
<1> DEFINE X == ForEach("open", {p \in Products : rows[p].up = c}) \o ForEach("list", NextCall(w).each \ {c})
<1> HIDE DEF X
<1>3. QED
  BY <1>1, <1>2, CatalogueTurn, PlainEach, PlainConcat, FrontsPlain, FrontStep

\* The packing types of the original are copied: they name no file.
LEMMA CopyPalletsStep ==
    ASSUME IInv, NEW w \in Workers, CopyPallets(w), UNCHANGED <<zip, snapshot>>
    PROVE  IInv'
<1> DEFINE K == Known(rows, zip, job)
           p == NextCall(w).product
           X == IF p \notin Products \/ rows[p].parts[2] = None THEN <<>>
                ELSE Pallets(None, rows[p].parts[2], rows[p].text)
<1>1. /\ At(w, "copy") /\ UNCHANGED <<rows, nextId, disk, served, zip, snapshot>>
      /\ Go(w, X \o Tail(job[w].todo))
  BY DEF CopyPallets
<1>2. AllPlain(job[w], X, K)
  BY <1>1, CatalogueTurn, PlainPallets, PlainNone
<1> HIDE DEF X
<1>3. QED
  BY <1>1, <1>2, FrontsPlain, FrontStep

\* count_by_photo_path: a file that no design names is removed next.
LEMMA CountStep ==
    ASSUME IInv, NEW w \in Workers, Count(w), UNCHANGED <<zip, snapshot>>
    PROVE  IInv'
<1> DEFINE K == Known(rows, zip, job)
<1>1. /\ At(w, "count") /\ UNCHANGED <<rows, nextId, disk, served, zip, snapshot>>
      /\ \E file \in NextCall(w).each :
            Go(w, (IF References(file) = {} THEN Removal(file) ELSE <<>>)
                      \o ForEach("count", NextCall(w).each \ {file}) \o Tail(job[w].todo))
  BY DEF Count
<1>2. PICK file \in NextCall(w).each :
         Go(w, (IF References(file) = {} THEN Removal(file) ELSE <<>>)
                   \o ForEach("count", NextCall(w).each \ {file}) \o Tail(job[w].todo))
  BY <1>1
<1> DEFINE Y == ForEach("count", NextCall(w).each \ {file})
           X == (IF References(file) = {} THEN Removal(file) ELSE <<>>) \o Y
<1>3. /\ job[w].kind \in CatalogueKinds /\ IsTable(rows)
      /\ \A f \in NextCall(w).each : f \in K /\ f \in Files /\ \E k \in 1..2 : Fits(f, "design", k)
  BY <1>1, CatalogueTurn
<1>4. Go(w, X \o Tail(job[w].todo))
  BY <1>2
<1>5. AllPlain(job[w], Y, K)
  BY <1>3, PlainEach
<1> HIDE DEF Y
<1>6. Fronts(job[w], X, K, rows)
  <2>1. CASE References(file) = {}
    <3>1. ASSUME NEW i \in DOMAIN rows, NEW k \in DOMAIN rows[i].files, rows[i].files[k] = file
          PROVE  FALSE
      <4>1. PICK m \in 1..2 : Fits(file, "design", m)
        BY <1>3
      <4>2. m \in 1..Columns("design")
        BY <4>1, ColumnsAre
      <4>3. i \in Designs /\ k \in 1..2
        BY <4>1, <3>1, <1>3, FitsFile, RowFiles, <4>2, FitsKinds DEF Designs, OfKind, IsTable
      <4>4. QED
        BY <2>1, <3>1, <4>3 DEF References
    <3> HIDE DEF K
    <3>2. QED
      BY <2>1, <1>5, <3>1, <1>3, FrontsRemoval DEF Dead
  <2>2. CASE References(file) # {}
    <3> DEFINE E == <<>>
    <3>1. AllPlain(job[w], E \o Y, K)
      <4>1. AllPlain(job[w], E, K)
        BY PlainNone
      <4> HIDE DEF E
      <4>2. QED
        BY <1>5, <4>1, PlainConcat
    <3>2. X = E \o Y
      BY <2>2
    <3> HIDE DEF E, X
    <3>3. QED
      BY <3>1, <3>2, FrontsPlain
  <2>3. QED
    BY <2>1, <2>2
<1> HIDE DEF X
<1>7. QED
  BY <1>1, <1>4, <1>6, FrontStep

\* delete_product: the images noted are counted when the row is gone.
LEMMA OpenProductStep ==
    ASSUME IInv, NEW w \in Workers, OpenProduct(w), UNCHANGED <<zip, snapshot>>
    PROVE  IInv'
<1> DEFINE K == Known(rows, zip, job)
<1>1. /\ At(w, "open") /\ UNCHANGED <<rows, nextId, disk, served, zip, snapshot>>
      /\ \E p \in NextCall(w).each :
            IF p \notin Products THEN Fail(w)
            ELSE Go(w, Deletion("product", p) \o Unlinks(ImagesOf({d \in Designs : rows[d].up = p}))
                           \o ForEach("open", NextCall(w).each \ {p}) \o Tail(job[w].todo))
  BY DEF OpenProduct
<1>2. PICK p \in NextCall(w).each :
            IF p \notin Products THEN Fail(w)
            ELSE Go(w, Deletion("product", p) \o Unlinks(ImagesOf({d \in Designs : rows[d].up = p}))
                           \o ForEach("open", NextCall(w).each \ {p}) \o Tail(job[w].todo))
  BY <1>1
<1>3. job[w].kind \in CatalogueKinds /\ job[w].kind \notin RemovesFirst /\ IsTable(rows)
      /\ NamesOf(rows) \subseteq K
  BY <1>1, CatalogueTurn
<1>4. CASE p \notin Products
  BY <1>1, <1>2, <1>4, FailStep DEF Dos
<1>5. CASE p \in Products
  <2> DEFINE I == ImagesOf({d \in Designs : rows[d].up = p})
             X == Deletion("product", p) \o Unlinks(I) \o ForEach("open", NextCall(w).each \ {p})
  <2>1. \A f \in I \ {NoFile} : f \in K /\ \E k \in 1..2 : Fits(f, "design", k)
    BY <1>3, ImagesAre
  <2> HIDE DEF I
  <2>2. AllPlain(job[w], X, K)
    BY <1>3, <2>1, PlainEach, PlainDeletion, PlainConcat DEF Unlinks
  <2>3. Go(w, X \o Tail(job[w].todo))
    BY <1>2, <1>5 DEF I
  <2> HIDE DEF X
  <2>4. QED
    BY <1>1, <2>3, <2>2, FrontsPlain, FrontStep
<1>6. QED
  BY <1>4, <1>5

-----------------------------------------------------------------------------
(* Calls that write rows.                                                  *)

\* Rows are dropped or marked, and name what they named.
Marks(R, R2) ==
    /\ DOMAIN R2 \subseteq DOMAIN R
    /\ \A i \in DOMAIN R2 : /\ IsRow(R2[i]) /\ R2[i].files = R[i].files /\ R2[i].kind = R[i].kind
                            /\ R[i].odd => R2[i].odd

\* A row that loses nothing but its good name names the files it named.
LEMMA MarksIs ==
    ASSUME NEW R, NEW R2, IsTable(R), Marks(R, R2)
    PROVE  IsTable(R2) /\ NamesOf(R2) \subseteq NamesOf(R) /\ \A T : Passes(R, R2, T)
<1>1. ASSUME NEW i \in DOMAIN R2, NEW j \in DOMAIN R2,
             NEW k \in DOMAIN R2[i].files \intersect DOMAIN R2[j].files,
             R2[i].files[k] = R2[j].files[k], R2[i].files[k] # NoFile
      PROVE  R2[i].kind = "design" \/ i = j \/ (R2[i].odd /\ R2[j].odd)
  BY <1>1 DEF Marks, IsTable
<1>2. NamesOf(R2) \subseteq NamesOf(R)
  <2> SUFFICES ASSUME NEW f \in NamesOf(R2) PROVE f \in NamesOf(R)
    OBVIOUS
  <2>1. PICK i \in DOMAIN R2 : f # NoFile /\ \E k \in DOMAIN R2[i].files : R2[i].files[k] = f
    BY NamesTable
  <2>2. QED
    BY <2>1, TableNames DEF Marks
<1>3. QED
  BY <1>1, <1>2 DEF IsTable, Marks, Passes

\* A call that writes rows and is done with.
LEMMA PopRowsStep ==
    ASSUME IInv, NEW w \in Workers, NEW do \in {"update", "replace", "delete"}, At(w, do), Pop(w),
           UNCHANGED <<disk, served, zip, snapshot>>, IsTable(rows'),
           NEW T, T = Takes(job[w].todo[1], job[w].form),
           NamesOf(rows') \subseteq Known(rows, zip, job) \union T,
           Passes(rows, rows', T) \/ (job[w].alone /\ Len(job[w].todo) = 1),
           do = "update" /\ Len(job[w].todo) = 2 /\ job[w].todo[2].do = "remove" =>
              Dead(job[w].todo[2].file, rows'),
           ServedInv(rows', disk, [job EXCEPT ![w] = After(job[w], Tail(job[w].todo))])
    PROVE  IInv'
<1> DEFINE j == job[w] s == job[w].todo j2 == After(job[w], Tail(job[w].todo)) n == Len(s)
           K == Known(rows, zip, job)
<1>1. /\ Serves(j) /\ IsJob(j, served) /\ IsList(s) /\ s # <<>> /\ s[1].do = do
      /\ ShownBy(j) \subseteq K /\ 1 \in DOMAIN s
  BY Turn
<1>2. /\ j.op \in Ordinary /\ ListOk(j, s, rows, disk) /\ CallOk(j, s[1])
  BY OrdinaryTurn DEF Dos
<1>3. /\ job' = [job EXCEPT ![w] = j2] /\ IsJob(j2, served) /\ Continues(j, j2) /\ j2 # Idle
      /\ j2.todo = Tail(s) /\ j2.id = j.id
  BY <1>1, ListTail, Goes DEF Pop
<1> HIDE DEF j2
<1>4. j2.form = j.form /\ j2.op = j.op
  BY <1>3 DEF Continues
<1>5. /\ ShownBy(j2) \subseteq ShownBy(j) /\ Taken(j2) \subseteq Taken(j) /\ Taken(j2) \intersect T = {}
      /\ T \subseteq Taken(j)
  BY <1>1, <1>2, ShownIs, <1>3, <1>4, TailTaken DEF ListOk
<1>6. n \in Nat /\ n # 0 /\ DOMAIN s = 1..n
  BY <1>1, ListIs
<1> HIDE DEF n
<1>7. ASSUME n # 1
       PROVE  /\ j.kind \notin RemovesFirst
              /\ \A p \in DOMAIN s : p > 1 /\ s[p].do = "remove" =>
                    Claims(j.id, s[p].file, rows') /\ (p = 2 => Dead(s[p].file, rows'))
  <2>1. j.kind \notin RemovesFirst
    <3>1. 1 < n
      BY <1>6, <1>7
    <3>2. QED
      BY <1>1, <1>2, <3>1 DEF ListOk, n
  <2>2. ASSUME NEW p \in DOMAIN s, p > 1, s[p].do = "remove"
        PROVE  Claims(j.id, s[p].file, rows') /\ (p = 2 => Dead(s[p].file, rows'))
    <3>1. CallOk(j, s[p]) /\ RemoveOk(j, s, p, rows)
      BY <1>2, <2>2 DEF ListOk
    <3>2. /\ p = n /\ Claims(j.id, s[p].file, rows) /\ s[p - 1].do = "update"
      BY <2>1, <2>2, <3>1 DEF RemoveOk, n
    <3>3. s[p].file \in ShownBy(j)
      BY <2>2, ShownIs DEF Shows, Handled
    <3>4. s[p].file \notin T
      BY <1>1, <1>5, <3>3 DEF IInv, Inv, KnownInv, Serves
    <3>5. QED
      BY <3>2, <2>2, <3>1, TreesAre, <3>4, <1>7, PassesOn, <1>1 DEF NoFile, Files, CallOk, n
  <2>3. QED
    BY <2>1, <2>2
<1>8. ListOk(j2, j2.todo, rows', disk)
  <2> DEFINE R2 == rows'
  <2> HIDE DEF R2
  <2>1. QED
    BY <1>1, <1>2, <1>3, <1>7, TailStays DEF R2, n
<1>9. NamesOf(zip.rows) \subseteq K \union T /\ ShownBy(j2) \subseteq K /\ Taken(j2) \subseteq Taken(j) \ T
       /\ disk \ disk \subseteq K
  BY <1>1, <1>5, KnownIs
<1>10. Inv(rows', nextId', disk, [job EXCEPT ![w] = j2], served, zip, snapshot)
  <2> DEFINE R2 == rows' N2 == nextId'
  <2>1. /\ Inv(rows, nextId, disk, job, served, zip, snapshot) /\ DataInv(R2, disk, zip, served)
        /\ NamesOf(R2) \subseteq K \union T /\ JobInv(j2, R2, disk, N2, zip, snapshot, served)
        /\ ServedInv(R2, disk, [job EXCEPT ![w] = j2])
        /\ j.alone \/ (Passes(rows, R2, T) /\ disk \ disk \subseteq K)
    BY <1>2, <1>3, <1>4, <1>8, <1>9 DEF IInv, JobInv, OpInv, Inv, DataInv, j2
  <2> HIDE DEF R2, N2
  <2>2. Inv(R2, N2, disk, [job EXCEPT ![w] = j2], served, zip, snapshot)
    BY <1>1, <1>3, <1>5, <1>9, <2>1, GoesOn
  <2>3. QED
    BY <2>2 DEF R2, N2
<1>11. QED
  BY <1>3, <1>10 DEF IInv


\* What is served when rows are dropped or marked.
LEMMA MarksServed ==
    ASSUME NEW R, NEW R2, NEW D, NEW J, J = [v \in Workers |-> J[v]], NEW w \in Workers, NEW j2,
           ServedInv(R, D, J), ~Swapping(J[w]), Marks(R, R2),
           \A i \in DOMAIN R2 : \A k \in DOMAIN R2[i].files : ~R2[i].odd => ~Mends(J[w], i, k, R[i])
    PROVE  ServedInv(R2, D, [J EXCEPT ![w] = j2])
BY ServedStep DEF Marks, Carried

\* A call that drops or marks rows and is done with.
LEMMA MarksStep ==
    ASSUME IInv, NEW w \in Workers, NEW do \in {"replace", "delete"}, At(w, do), Pop(w),
           UNCHANGED <<disk, served, zip, snapshot>>, Marks(rows, rows'),
           \A i \in DOMAIN rows' : \A k \in DOMAIN rows'[i].files : ~Mends(job[w], i, k, rows[i])
    PROVE  IInv'
<1> DEFINE T == Takes(job[w].todo[1], job[w].form)
           R2 == rows'
           j2 == After(job[w], Tail(job[w].todo))
<1>1. IsTable(rows) /\ ServedInv(rows, disk, job) /\ job = [v \in Workers |-> job[v]]
  BY DEF IInv, Inv, DataInv
<1>2. Marks(rows, R2) /\ \A i \in DOMAIN R2 : \A k \in DOMAIN R2[i].files : ~Mends(job[w], i, k, rows[i])
  OBVIOUS
<1> HIDE DEF R2, T, j2
<1>3. ServedInv(R2, disk, [job EXCEPT ![w] = j2])
  BY Turn, OrdinaryTurn, <1>1, <1>2, MarksServed DEF Dos
<1>4. QED
  BY <1>1, <1>2, MarksIs, <1>3, KnownIs, PopRowsStep DEF R2, T, j2

\* A row whose path, kind and mark stay.
LEMMA RowStays ==
    ASSUME NEW row, IsRow(row), NEW row2, row2 = [x \in DOMAIN row |-> row2[x]],
           \A x \in DOMAIN row \ {"parts", "text"} : row2[x] = row[x], row.kind \notin RemovesFirst
    PROVE  IsRow(row2) /\ row2.files = row.files /\ row2.kind = row.kind /\ row2.odd = row.odd
BY DEF IsRow

\* A table marks itself.
LEMMA SameMarks ==
    ASSUME NEW R, IsTable(R)
    PROVE  Marks(R, R)
BY DEF Marks, IsTable

\* replace_*: the rows of a list name no file.
LEMMA ReplaceStep ==
    ASSUME IInv, NEW w \in Workers, Replace(w), UNCHANGED <<zip, snapshot>>
    PROVE  IInv'
<1> DEFINE c == NextCall(w) a == About(w)
<1>1. /\ At(w, "replace") /\ UNCHANGED <<nextId, disk, served, zip, snapshot>>
  BY DEF Replace
<1>2. "replace" \in Dos \ {"refuse"} /\ "replace" \in {"replace", "delete"}
  BY DEF Dos
<1>3. job[w].kind \notin RemovesFirst
  BY <1>1, <1>2, Turn, OrdinaryTurn DEF CallOk
<1>4. \A i, k, row : ~Mends(job[w], i, k, row)
  BY <1>3 DEF Mends
<1>5. IsTable(rows)
  BY DEF IInv, Inv, DataInv
<1>6. CASE Found(w)
  <2> DEFINE p1 == [rows[a].parts EXCEPT ![c.part] = c.with]
             row1 == [rows[a] EXCEPT !.parts = p1]
             row2 == [row1 EXCEPT !.text = IF c.text = AsIs THEN @ ELSE c.text]
             R1 == [rows EXCEPT ![a].parts[c.part] = c.with]
             R2 == [R1 EXCEPT ![a].text = IF c.text = AsIs THEN @ ELSE c.text]
  <2>1. rows' = R2 /\ Pop(w)
    BY <1>6 DEF Replace
  <2>2. a \in DOMAIN rows /\ rows[a].kind = job[w].kind
    BY <1>6 DEF Found, OfKind
  <2>3. R1 = [i \in DOMAIN rows |-> IF i = a THEN row1 ELSE rows[i]]
    BY <2>2
  <2>4. row2 = [x \in DOMAIN rows[a] |-> row2[x]]
    OBVIOUS
  <2>5. \A x \in DOMAIN rows[a] \ {"parts", "text"} : row2[x] = rows[a][x]
    OBVIOUS
  <2> HIDE DEF R1, row1, p1
  <2>6. DOMAIN R2 = DOMAIN rows /\ R2[a] = row2 /\ \A i \in DOMAIN rows \ {a} : R2[i] = rows[i]
    BY <2>2, <2>3
  <2> HIDE DEF R2, row2, a
  <2>7. Marks(rows, R2)
    BY <2>6, <1>3, <1>5, <2>2, <2>4, <2>5, RowStays DEF IsTable, Marks
  <2>8. QED
    BY <1>1, <1>2, <1>4, <2>1, <2>7, MarksStep
<1>7. CASE ~Found(w)
  BY <1>7, <1>1, <1>2, <1>3, FailStep, <1>5, SameMarks, <1>4, MarksStep DEF Replace
<1>8. QED
  BY <1>6, <1>7

\* DELETE: rows that are gone name nothing.
LEMMA DeleteStep ==
    ASSUME IInv, NEW w \in Workers, Delete(w), UNCHANGED <<zip, snapshot>>
    PROVE  IInv'
<1> DEFINE c == NextCall(w) j == job[w]
           gone == IF c.id \in OfKind(c.kind) THEN Cascade(c.id) ELSE {}
           R2 == [i \in DOMAIN rows \ gone |-> rows[i]]
<1>1. /\ At(w, "delete") /\ Pop(w) /\ UNCHANGED <<nextId, disk, served, zip, snapshot>>
      /\ rows' = R2
  BY DEF Delete
<1>2. "delete" \in Dos \ {"refuse"} /\ "delete" \in {"replace", "delete"}
  BY DEF Dos
<1>3. j.kind \in RemovesFirst => c.kind = j.kind /\ c.id = j.id
  BY <1>1, <1>2, Turn, OrdinaryTurn DEF CallOk
<1>4. c.id \in OfKind(c.kind) => c.id \in gone
  BY DEF Below, Cascade
<1> HIDE DEF gone, c, j
<1>5. Marks(rows, R2)
  BY DEF Marks, IsTable, IInv, Inv, DataInv
<1>6. ASSUME NEW i \in DOMAIN R2, NEW k, Mends(j, i, k, rows[i])
      PROVE  FALSE
  BY <1>6, <1>3, <1>4 DEF Mends, OfKind
<1> HIDE DEF R2
<1>7. QED
  BY <1>1, <1>2, <1>5, <1>6, MarksStep DEF j

\* The worker is killed.
LEMMA KillStep ==
    ASSUME IInv, NEW w \in Workers, Kill(w), UNCHANGED <<zip, snapshot>>
    PROVE  IInv'
<1> DEFINE j == job[w]
           mark(i) == j.op = "restore" \/ (i = j.id /\ j.kind \in RemovesFirst)
           R2 == [i \in DOMAIN rows |-> [rows[i] EXCEPT !.odd = @ \/ mark(i)]]
           K == Known(rows, zip, job)
<1>1. rows' = R2
  BY DEF Kill
<1>2. IsTable(rows) /\ disk \subseteq Files /\ DataInv(rows, disk, zip, served)
      /\ ServedInv(rows, disk, job) /\ job = [v \in Workers |-> job[v]]
  BY DEF IInv, Inv, DataInv
<1>3. ASSUME NEW i \in DOMAIN rows
      PROVE  /\ IsRow(R2[i]) /\ R2[i].files = rows[i].files /\ R2[i].kind = rows[i].kind
             /\ R2[i].odd = (rows[i].odd \/ mark(i))
  <2> DEFINE row == rows[i] row2 == [row EXCEPT !.odd = @ \/ mark(i)]
  <2>1. /\ IsRow(row) /\ R2[i] = row2 /\ mark(i) \in BOOLEAN
    BY <1>2 DEF IsTable
  <2>2. /\ row = [field \in DOMAIN row |-> row[field]]
        /\ {"kind", "up", "side", "files", "text", "odd", "parts"} \subseteq DOMAIN row
        /\ row.odd \in BOOLEAN
    BY <2>1 DEF IsRow
  <2> HIDE DEF mark, row
  <2>3. /\ row2 = [field \in DOMAIN row2 |-> row2[field]] /\ DOMAIN row2 = DOMAIN row
        /\ \A x \in DOMAIN row \ {"odd"} : row2[x] = row[x]
    OBVIOUS
  <2>4. row2.odd = (row.odd \/ mark(i))
    BY <2>2
  <2> HIDE DEF row2
  <2>5. /\ row2.kind = row.kind /\ row2.files = row.files /\ row2.up = row.up /\ row2.side = row.side
        /\ row2.text = row.text
    BY <2>2, <2>3
  <2>6. IsRow(row2)
    BY <2>1, <2>2, <2>3, <2>4, <2>5 DEF IsRow
  <2>7. QED
    BY <2>1, <2>4, <2>5, <2>6 DEF row
<1>4. DOMAIN R2 = DOMAIN rows
  OBVIOUS
<1> HIDE DEF R2
<1>5. Marks(rows, R2)
  BY <1>3, <1>4 DEF Marks
<1> DEFINE T == {}
<1>6. T \subseteq Taken(j)
  OBVIOUS
<1> HIDE DEF T
<1>7. IsTable(R2) /\ NamesOf(R2) \subseteq NamesOf(rows) /\ Passes(rows, R2, T)
  BY <1>2, <1>5, MarksIs
<1>8. ServedInv(R2, disk, [job EXCEPT ![w] = Idle])
  <2>1. CASE j.op = "restore"
    BY <1>3, <1>4, <2>1 DEF ServedInv, ThereOrMended
  <2>2. CASE j.op # "restore"
    BY <2>2, <1>3, <1>4, <1>2, <1>5, MarksServed DEF Swapping, Mends
  <2>3. QED
    BY <2>1, <2>2
<1> DEFINE j2 == Idle
<1>9. JobInv(j2, R2, disk, nextId, zip, snapshot, served) /\ ServedInv(R2, disk, [job EXCEPT ![w] = j2])
       /\ j2 = Idle
  BY <1>8 DEF JobInv
<1> HIDE DEF j2, K
<1>10. QED
  BY <1>1, <1>9, ServesJob, <1>6, <1>7, <1>2, KnownIs, GoesOn DEF IInv, K, Serving, DataInv, Kill

\* The files of a row that a call writes.
LEMMA WrittenIs ==
    ASSUME NEW j, NEW p \in DOMAIN j.todo, NEW f \in Written(j.todo[p])
    PROVE  /\ f.n = j.form => f \in Takes(j.todo[p], j.form) /\ f \in Taken(j)
           /\ f.n # j.form => f \in Shows(j.todo[p], j.form) /\ f \in ShownBy(j)
<1>1. /\ f.n = j.form => f \in Takes(j.todo[p], j.form)
      /\ f.n # j.form => f \in Shows(j.todo[p], j.form)
  BY DEF Takes, Shows
<1>2. QED
  BY <1>1, ShownIs

\* The row an UPDATE writes.
CallFits(c, kind) ==
    /\ DOMAIN c.files = 1..Columns(kind)
    /\ \A k \in DOMAIN c.files : c.files[k] \in {NoFile, Keep} \/ Fits(c.files[k], kind, k)
    /\ kind \in RemovesFirst => c.up = Same /\ c.text = AsIs
Updates(row, row2, c, stale) ==
    /\ IsRow(row2) /\ row2.kind = row.kind /\ row2.odd = (row.odd \/ stale)
    /\ DOMAIN row2.files = DOMAIN row.files /\ DOMAIN row.files = DOMAIN c.files
    /\ \A k \in DOMAIN row.files :
          row2.files[k] = IF c.files[k] = Keep THEN row.files[k] ELSE c.files[k]
    /\ row.kind \in RemovesFirst => row2.up = None /\ row2.side = None /\ row2.text = ""

\* What an UPDATE makes of a row.
LEMMA UpdatedIs ==
    ASSUME NEW row, IsRow(row), NEW c, NEW form, NEW stale \in BOOLEAN, CallFits(c, row.kind)
    PROVE  Updates(row, Updated(row, c, form, stale), c, stale)
<1> DEFINE row2 == Updated(row, c, form, stale)
           files2 == [k \in DOMAIN row.files |-> IF c.files[k] = Keep THEN row.files[k] ELSE c.files[k]]
<1> DEFINE r1 == [row EXCEPT !.up = IF c.up = Same THEN @ ELSE c.up]
           r2 == [r1 EXCEPT !.text = IF c.text = AsIs THEN @ ELSE c.text]
           r3 == [r2 EXCEPT !.files = [k \in DOMAIN @ |-> IF c.files[k] = Keep THEN @[k] ELSE c.files[k]]]
           r4 == [r3 EXCEPT !.parts[1] = IF c.head THEN form ELSE @]
           r5 == [r4 EXCEPT !.odd = @ \/ stale]
<1> HIDE DEF r1
<1> HIDE DEF r2
<1> HIDE DEF r3, files2
<1> HIDE DEF r4
<1> HIDE DEF r5
<1>1. QED
  BY DEF Updates, IsRow, Updated, files2, CallFits

\* The row an UPDATE is about, and what it makes of its paths.
LEMMA UpdateRowIs ==
    ASSUME IInv, NEW w \in Workers, At(w, "update"), Found(w)
    PROVE  LET c == NextCall(w)
               a == job[w].id
               row2 == Updated(rows[a], c, job[w].form, Stale(w))
               T == Takes(c, job[w].form)
           IN  /\ About(w) = a /\ a \in DOMAIN rows /\ rows[a].kind = job[w].kind
               /\ IsRow(row2) /\ row2.kind = rows[a].kind /\ row2.odd = (rows[a].odd \/ Stale(w))
               /\ DOMAIN row2.files = DOMAIN rows[a].files /\ DOMAIN rows[a].files = DOMAIN c.files
               /\ job[w].kind \in RemovesFirst => row2.up = None /\ row2.side = None /\ row2.text = ""
               /\ \A k \in DOMAIN rows[a].files :
                     \/ c.files[k] = Keep /\ row2.files[k] = rows[a].files[k]
                     \/ c.files[k] # Keep /\ row2.files[k] = c.files[k]
                           /\ (c.files[k] = NoFile \/ (c.files[k].n = job[w].form /\ c.files[k] \in T))
                     \/ /\ c.files[k] # Keep /\ row2.files[k] = c.files[k]
                        /\ c.files[k].n # job[w].form /\ c.files[k] # NoFile
                        /\ c.files[k] \in ShownBy(job[w])
                        /\ Claims(a, c.files[k], rows)
                        /\ Stale(w) \/ rows[a].files[k] = c.files[k]
<1> DEFINE c == NextCall(w) j == job[w] a == job[w].id stale == Stale(w)
           row2 == Updated(rows[a], c, j.form, stale)
           T == Takes(c, j.form)
<1>1. /\ c = j.todo[1] /\ j.todo[1].do = "update" /\ 1 \in DOMAIN j.todo /\ Serves(j) /\ IsJob(j, served)
  BY Turn
<1>2. ListOk(j, j.todo, rows, disk) /\ CallOk(j, j.todo[1])
  BY OrdinaryTurn DEF Dos
<1>3. UpdateOk(j, j.todo, 1, rows)
  BY <1>1, <1>2 DEF ListOk
<1>4. /\ c.do = "update" /\ c.id = j.id /\ DOMAIN c.files = 1..Columns(j.kind)
      /\ \A k \in DOMAIN c.files : c.files[k] \in {NoFile, Keep} \/ Fits(c.files[k], j.kind, k)
      /\ \A f \in NamesIn(c.files) : f.n # j.form => j.kind \in RemovesFirst
      /\ j.kind \in RemovesFirst => c.up = Same /\ c.text = AsIs
  BY <1>1, <1>2 DEF CallOk
<1>5. About(w) = a
  BY <1>4 DEF About
<1>6. a \in DOMAIN rows /\ rows[a].kind = j.kind
  BY <1>5 DEF Found, OfKind
<1>7. IsRow(rows[a]) /\ stale \in BOOLEAN
  BY <1>1, <1>6 DEF IInv, Inv, DataInv, IsJob, IsTable, Stale
<1>8. ASSUME NEW k \in DOMAIN c.files, c.files[k] \notin {NoFile, Keep}
       PROVE  /\ c.files[k].n = j.form => c.files[k] \in T
              /\ c.files[k].n # j.form =>
                    /\ c.files[k] \in ShownBy(j) /\ Claims(a, c.files[k], rows)
                    /\ stale \/ rows[a].files[k] = c.files[k]
  BY <1>4, <1>8, <1>1, <1>3, WrittenIs DEF Written, NamesIn, UpdateOk, Stale
<1> HIDE DEF stale, T, c, j
<1> DEFINE row == rows[a]
<1>9. /\ IsRow(row) /\ stale \in BOOLEAN /\ CallFits(c, row.kind) /\ row2 = Updated(row, c, j.form, stale)
  BY <1>4, <1>6, <1>7 DEF CallFits
<1> HIDE DEF row, row2
<1>10. Updates(row, row2, c, stale)
  BY <1>9, UpdatedIs
<1> HIDE DEF a
<1>11. QED
  BY <1>5, <1>6, <1>10, <1>8 DEF row2, stale, T, c, a, j, NoFile, Keep, row, Updates

\* An UPDATE of a row that is there.
LEMMA UpdateFoundStep ==
    ASSUME IInv, NEW w \in Workers, At(w, "update"), Found(w), Pop(w),
           UNCHANGED <<nextId, disk, served, zip, snapshot>>,
           rows' = [rows EXCEPT ![About(w)] = Updated(rows[About(w)], NextCall(w), job[w].form, Stale(w))]
    PROVE  IInv'
<1> DEFINE c == NextCall(w) j == job[w] a == job[w].id stale == Stale(w) s == job[w].todo
           row2 == Updated(rows[a], c, j.form, stale)
           T == Takes(c, j.form)
           R2 == [rows EXCEPT ![a] = row2]
           K == Known(rows, zip, job)
           j2 == After(job[w], Tail(job[w].todo))
<1>1. /\ About(w) = a /\ a \in DOMAIN rows /\ rows[a].kind = j.kind
      /\ IsRow(row2) /\ row2.kind = rows[a].kind /\ row2.odd = (rows[a].odd \/ stale)
      /\ DOMAIN row2.files = DOMAIN rows[a].files /\ DOMAIN rows[a].files = DOMAIN c.files
      /\ \A k \in DOMAIN rows[a].files :
            \/ c.files[k] = Keep /\ row2.files[k] = rows[a].files[k]
            \/ c.files[k] # Keep /\ row2.files[k] = c.files[k]
                  /\ (c.files[k] = NoFile \/ (c.files[k].n = j.form /\ c.files[k] \in T))
            \/ /\ c.files[k] # Keep /\ row2.files[k] = c.files[k]
               /\ c.files[k].n # j.form /\ c.files[k] # NoFile /\ c.files[k] \in ShownBy(j)
               /\ Claims(a, c.files[k], rows)
               /\ stale \/ rows[a].files[k] = c.files[k]
  BY UpdateRowIs
<1>2. /\ c = s[1] /\ s[1].do = "update" /\ 1 \in DOMAIN s /\ Serves(j) /\ IsJob(j, served)
      /\ ShownBy(j) \subseteq K /\ IsList(s)
  BY Turn
<1>3. "update" \in Dos \ {"refuse"} /\ "update" \in {"update", "replace", "delete"}
  BY DEF Dos
<1>4. ListOk(j, s, rows, disk) /\ CallOk(j, s[1]) /\ ~Swapping(j)
  BY <1>3, OrdinaryTurn
<1>5. /\ IsTable(rows) /\ NamesOf(rows) \subseteq K /\ job = [v \in Workers |-> job[v]]
      /\ ServedInv(rows, disk, job) /\ T \subseteq Taken(j) /\ Taken(j) \intersect K = {}
  BY <1>2, ShownIs, KnownIs DEF IInv, Inv, KnownInv, Serves, DataInv
<1>6. rows' = R2
  BY <1>1
<1>7. DOMAIN R2 = DOMAIN rows /\ R2[a] = row2 /\ \A i \in DOMAIN rows \ {a} : R2[i] = rows[i]
  BY <1>1
<1>8. TakeOk(j, s, 1, disk)
  BY <1>2, <1>4 DEF ListOk
<1>9. \A f \in T : f \in disk \/ stale
  BY <1>2, <1>8, ListIs DEF TakeOk, Stale
<1> HIDE DEF R2, row2, T, a, stale, c, K, j2
<1>10. ASSUME NEW i \in DOMAIN rows, i # a, NEW k \in DOMAIN rows[i].files, k \in DOMAIN row2.files,
              rows[i].files[k] = row2.files[k], rows[i].files[k] # NoFile
       PROVE  \/ rows[i].kind = "design" /\ row2.kind = "design"
              \/ rows[i].odd /\ row2.odd
  <2> DEFINE g == row2.files[k]
  <2>1. rows[i].kind = row2.kind
    BY <1>5, <1>10, RowFiles, <1>1, FitsKinds DEF IsTable
  <2>2. rows[a].files[k] = g => rows[i].kind = "design" \/ (rows[i].odd /\ rows[a].odd)
    BY <1>1, <1>5, <1>10 DEF IsTable
  <2>3. \/ rows[a].files[k] = g
        \/ Claims(a, g, rows) /\ stale
    BY <1>1, <1>10, <1>5, TableNames
  <2> HIDE DEF g
  <2>4. CASE rows[a].files[k] = g
    BY <1>1, <2>1, <2>2, <2>4
  <2>5. CASE Claims(a, g, rows) /\ stale
    BY <1>10, <2>5, <1>1 DEF g, Claims
  <2>6. QED
    BY <2>3, <2>4, <2>5
<1>11. ASSUME NEW i \in DOMAIN R2, NEW m \in DOMAIN R2,
              NEW k \in DOMAIN R2[i].files \intersect DOMAIN R2[m].files,
              R2[i].files[k] = R2[m].files[k], R2[i].files[k] # NoFile
       PROVE  R2[i].kind = "design" \/ i = m \/ (R2[i].odd /\ R2[m].odd)
  BY <1>5, <1>7, <1>11, <1>10 DEF IsTable
<1>12. IsTable(R2)
  BY <1>1, <1>5, <1>7, <1>11 DEF IsTable
<1>13. NamesOf(R2) \subseteq K \union T
  <2> SUFFICES ASSUME NEW f \in NamesOf(R2) PROVE f \in K \union T
    OBVIOUS
  <2>1. PICK i \in DOMAIN R2 : f # NoFile /\ \E k \in DOMAIN R2[i].files : R2[i].files[k] = f
    BY NamesTable
  <2>2. PICK k \in DOMAIN R2[i].files : R2[i].files[k] = f
    BY <2>1
  <2>3. CASE i # a
    BY <1>5, <1>7, <2>1, <2>2, <2>3, TableNames
  <2>4. CASE i = a
    BY <1>1, <1>7, <2>2, <2>4, <1>5, <2>1, TableNames, <1>2
  <2>5. QED
    BY <2>3, <2>4
<1>14. ASSUME NEW i \in DOMAIN R2, NEW k \in DOMAIN R2[i].files
       PROVE  \/ R2[i].files[k] \in T \union {NoFile} \/ R2[i].odd
              \/ /\ i \in DOMAIN rows /\ k \in DOMAIN rows[i].files
                 /\ rows[i].files[k] = R2[i].files[k] /\ ~rows[i].odd
                 /\ rows[i].kind = R2[i].kind
                 /\ i = a => c.files[k] = Keep \/ (c.files[k] # NoFile /\ c.files[k].n # j.form)
  BY <1>7, <1>14, <1>1
<1>15. Passes(rows, R2, T)
  BY <1>14 DEF Passes
<1>16. Carried(j, j2, rows, disk, R2, disk)
  <2>1. ASSUME NEW i \in DOMAIN R2, NEW k \in DOMAIN R2[i].files,
               ~(R2[i].files[k] \in disk \union {NoFile}), ~R2[i].odd
        PROVE  ~Mends(j, i, k, rows[i])
    BY <1>1, <1>7, <1>9, <2>1, <1>14, <1>2 DEF Mends, a
  <2>2. ASSUME NEW i \in DOMAIN R2, NEW k \in DOMAIN R2[i].files,
               ~(R2[i].files[k] \in disk \union {NoFile}), ~R2[i].odd
        PROVE  R2[i].files[k] \notin T
    <3>1. CASE i = a
      BY <1>1, <1>7, <1>9, <2>2, <3>1
    <3>2. CASE i # a
      BY <1>7, <3>2, <1>5, <2>2, TableNames
    <3>3. QED
      BY <3>1, <3>2
  <2>3. QED
    BY <1>14, <2>1, <2>2 DEF Carried
<1>17. Len(s) = 2 /\ s[2].do = "remove" => Dead(s[2].file, R2)
  <2> SUFFICES ASSUME Len(s) = 2, s[2].do = "remove" PROVE Dead(s[2].file, R2)
    OBVIOUS
  <2> DEFINE f == s[2].file
  <2>1. /\ j.kind = "company" /\ Fits(f, "company", 1) /\ Claims(a, f, rows) /\ c.files[1] \notin {Keep, f}
    BY <1>2, <1>4, ListIs DEF ListOk, RemoveOk, a
  <2>2. ASSUME NEW i \in DOMAIN R2, NEW k \in DOMAIN R2[i].files, R2[i].files[k] = f, ~R2[i].odd
        PROVE  FALSE
    <3>1. k \in DOMAIN rows[a].files /\ row2.files[k] = f
      BY <1>1, <1>7, <2>2, <2>1 DEF Claims
    <3>2. k = 1
      <4>1. Columns(row2.kind) = 1
        BY <1>1, <2>1, ColumnsAre
      <4>2. QED
        BY <1>1, <3>1, RowFiles, <4>1
    <3>3. QED
      BY <2>1, <3>1, <3>2, <1>1
  <2>3. QED
    BY <2>2 DEF Dead
<1>18. IsTable(rows') /\ NamesOf(rows') \subseteq K \union T /\ Passes(rows, rows', T)
       /\ ServedInv(rows', disk, [job EXCEPT ![w] = j2])
       /\ (Len(s) = 2 /\ s[2].do = "remove" => Dead(s[2].file, rows'))
  BY <1>6, <1>12, <1>13, <1>15, <1>4, <1>5, <1>16, ServedStep, <1>17
<1>19. QED
  BY <1>3, <1>2, <1>18, PopRowsStep DEF K, j2, T

\* UPDATE: of a row that is gone, or refused by a constraint, nothing is written.
LEMMA UpdateStep ==
    ASSUME IInv, NEW w \in Workers, Update(w), UNCHANGED <<zip, snapshot>>
    PROVE  IInv'
<1> DEFINE c == NextCall(w) j == job[w] s == job[w].todo
           row2 == Updated(rows[About(w)], c, j.form, Stale(w))
<1>1. At(w, "update") /\ UNCHANGED <<nextId, disk, served, zip, snapshot>>
  BY DEF Update
<1>2. /\ c = s[1] /\ s[1].do = "update" /\ 1 \in DOMAIN s /\ IsList(s) /\ IsJob(j, served)
  BY <1>1, Turn
<1>3. "update" \in Dos \ {"refuse"} /\ "update" \in {"update", "replace", "delete"}
  BY DEF Dos
<1>4. ListOk(j, s, rows, disk) /\ CallOk(j, s[1]) /\ ~Swapping(j)
  BY <1>1, <1>3, OrdinaryTurn
<1>5. IsTable(rows) /\ ServedInv(rows, disk, job) /\ job = [v \in Workers |-> job[v]]
  BY DEF IInv, Inv, DataInv
<1>6. About(w) = j.id
  BY <1>2, <1>4 DEF CallOk, About
<1>7. CASE ~Found(w)
  <2>1. rows' = rows /\ Pop(w)
    BY <1>7 DEF Update
  <2> DEFINE T == Takes(s[1], j.form) j2 == After(job[w], Tail(job[w].todo))
  <2>2. ~(j.id \in DOMAIN rows /\ rows[j.id].kind = j.kind)
    BY <1>6, <1>7 DEF Found, OfKind
  <2> HIDE DEF T, j2
  <2>3. ASSUME Len(s) = 2, s[2].do = "remove" PROVE Dead(s[2].file, rows)
    <3> DEFINE f == s[2].file
    <3>1. /\ j.kind = "company" /\ Fits(f, "company", 1) /\ Claims(j.id, f, rows)
      BY <1>2, <1>4, <2>3, ListIs DEF ListOk, RemoveOk
    <3> HIDE DEF f
    <3>2. ASSUME NEW i \in DOMAIN rows, NEW k \in DOMAIN rows[i].files, rows[i].files[k] = f, ~rows[i].odd
          PROVE  FALSE
      <4>1. 1 \in 1..Columns("company")
        <5>1. Columns("company") = 1
          BY ColumnsAre
        <5>2. QED
          BY <5>1
      <4>2. QED
        BY <2>2, <3>1, <3>2, <1>5, FitsFile, RowFiles, <4>1, FitsKinds DEF Claims, IsTable
    <3>3. QED
      BY <3>2 DEF Dead, f
  <2>4. IsTable(rows') /\ NamesOf(rows') \subseteq Known(rows, zip, job) \union T /\ Passes(rows, rows', T)
        /\ ServedInv(rows', disk, [job EXCEPT ![w] = j2])
        /\ (Len(s) = 2 /\ s[2].do = "remove" => Dead(s[2].file, rows'))
    BY <1>5, <2>1, <1>4, SameMarks, <2>2, MarksServed, MarksIs, KnownIs, <2>3 DEF Mends
  <2>5. QED
    BY <1>1, <1>3, <2>1, <2>4, PopRowsStep DEF j2, T
<1>8. CASE Found(w) /\ Admissible(row2, About(w))
  BY <1>8, <1>1, UpdateFoundStep DEF Update
<1>9. CASE Found(w) /\ ~Admissible(row2, About(w))
  <2>1. j.kind \notin RemovesFirst
    <3> DEFINE row3 == Updated(rows[j.id], c, j.form, Stale(w))
    <3> HIDE DEF row3
    <3>1. QED
      BY <1>9, <1>6, <1>1, UpdateRowIs DEF row3, Admissible, Referable
  <2>2. QED
    BY <1>1, <1>3, <1>9, <2>1, FailStep DEF Update
<1>10. QED
  BY <1>7, <1>8, <1>9

\* What is left after an INSERT rewrites lists only.
LEMMA TailOfInsert ==
    ASSUME NEW R, NEW R2, NEW D, NEW j, NEW j2, IsList(j.todo), j.todo # <<>>, j.todo[1].do = "insert",
           ListOk(j, j.todo, R, D), j2.kind = j.kind, j2.form = j.form, j2.todo = Tail(j.todo)
    PROVE  ListOk(j2, j2.todo, R2, D) /\ ShownBy(j2) = {} /\ Taken(j2) = {}
<1> DEFINE s == j.todo t == Tail(s)
<1>1. /\ 1 \in DOMAIN s /\ Len(s) \in Nat /\ DOMAIN s = 1..Len(s)
      /\ \A p \in DOMAIN t : p + 1 \in DOMAIN s /\ t[p] = s[p + 1]
      /\ Len(t) = Len(s) - 1 /\ DOMAIN t = 1..Len(t)
  BY ListTail, ListIs
<1>2. InsertOk(j, s, 1, D) /\ \A p \in DOMAIN s : CallOk(j, s[p])
  BY <1>1 DEF ListOk
<1>3. j2.todo = t
  OBVIOUS
<1>4. j.kind \in RemovesFirst => Len(s) = 1
  <2>1. ASSUME 1 < Len(s), j.kind \in RemovesFirst PROVE FALSE
    BY <1>1, <2>1 DEF ListOk
  <2> DEFINE n == Len(s)
  <2>2. n \in Nat /\ 1 \in 1..n
    BY <1>1
  <2> HIDE DEF n
  <2>3. n = 1 \/ 1 < n
    BY <2>2
  <2>4. QED
    BY <2>1, <2>3 DEF n
<1> HIDE DEF s, t
<1>5. ASSUME NEW p \in DOMAIN t
      PROVE  /\ t[p].do \in {"replace", "copy"} /\ CallOk(j, t[p]) /\ j.kind \notin RemovesFirst
             /\ p \in Nat
  BY <1>1, <1>2, <1>4 DEF InsertOk
<1>6. ASSUME NEW p \in DOMAIN t
      PROVE  /\ CallOk(j2, t[p]) /\ Written(t[p]) = {} /\ Handled(t[p]) = {}
             /\ t[p].do \notin {"insert", "update", "remove"}
    BY <1>5 DEF CallOk, Written, Handled
<1>7. QED
  BY <1>3, <1>5, <1>6, IsShown, IsTaken DEF ListOk, TakeOk, Takes, Shows

\* The row an INSERT writes: its files, and which of them are where.
LEMMA InsertRowIs ==
    ASSUME IInv, NEW w \in Workers, At(w, "insert")
    PROVE  LET c == NextCall(w)
               row == [c.row EXCEPT !.odd = @ \/ Stale(w)]
               T == Takes(c, job[w].form)
           IN  /\ IsRow(row) /\ row.kind = job[w].kind
               /\ \A k \in DOMAIN row.files :
                     \/ row.files[k] = NoFile
                     \/ row.files[k] \in T /\ (row.odd \/ row.files[k] \in disk)
                     \/ /\ row.kind = "design" /\ row.files[k] \in ShownBy(job[w])
                        /\ row.odd \/ (row.files[k] \in disk /\ Len(job[w].todo) = 1 /\ job[w].alone)
<1> DEFINE c == NextCall(w) j == job[w] s == job[w].todo stale == Stale(w)
           row == [c.row EXCEPT !.odd = @ \/ stale]
           T == Takes(c, j.form)
<1>1. /\ c = s[1] /\ s[1].do = "insert" /\ 1 \in DOMAIN s /\ Serves(j) /\ IsJob(j, served) /\ IsList(s)
  BY Turn
<1>2. ListOk(j, s, rows, disk) /\ CallOk(j, s[1])
  BY OrdinaryTurn DEF Dos
<1>3. TakeOk(j, s, 1, disk) /\ InsertOk(j, s, 1, disk)
  BY <1>1, <1>2 DEF ListOk
<1>4. /\ c.do = "insert" /\ IsRow(c.row) /\ c.row.kind = j.kind
      /\ \A f \in NamesIn(c.row.files) : f.n # j.form => j.op = "duplicate" /\ j.kind = "design"
  BY <1>1, <1>2 DEF CallOk
<1>5. stale \in BOOLEAN /\ (j.crossed => stale) /\ (~j.alone /\ j.op = "duplicate" => stale)
  BY <1>1 DEF IsJob, Stale
<1> HIDE DEF stale
<1>6. /\ IsRow(row) /\ row.kind = c.row.kind /\ row.files = c.row.files
      /\ row.odd = (c.row.odd \/ stale) /\ row.odd \in BOOLEAN /\ c.row.odd \in BOOLEAN
  <2> DEFINE r == c.row
  <2>1. /\ r = [field \in DOMAIN r |-> r[field]]
        /\ {"kind", "up", "side", "files", "text", "odd", "parts"} \subseteq DOMAIN r
        /\ r.odd \in BOOLEAN
    BY <1>4 DEF IsRow
  <2> DEFINE r2 == [r EXCEPT !.odd = @ \/ stale]
  <2> HIDE DEF r
  <2>2. /\ r2 = [field \in DOMAIN r2 |-> r2[field]] /\ DOMAIN r2 = DOMAIN r
        /\ \A x \in DOMAIN r \ {"odd"} : r2[x] = r[x]
    OBVIOUS
  <2>3. r2.odd = (r.odd \/ stale) /\ r2.odd \in BOOLEAN
    BY <1>5, <2>1
  <2> HIDE DEF r2
  <2>4. /\ r2.kind = r.kind /\ r2.files = r.files /\ r2.up = r.up /\ r2.side = r.side
        /\ r2.text = r.text
    BY <2>1, <2>2
  <2>5. row = r2
    BY DEF r2, r
  <2> HIDE DEF row
  <2>6. QED
    BY <2>1, <2>3, <2>4, <1>4, <2>2, <2>5 DEF r, IsRow
<1> HIDE DEF row, c, T
<1>7. ASSUME NEW k \in DOMAIN row.files, row.files[k] # NoFile
      PROVE  \/ row.files[k] \in T /\ (row.odd \/ row.files[k] \in disk)
             \/ /\ row.kind = "design" /\ row.files[k] \in ShownBy(job[w])
                /\ row.odd \/ (row.files[k] \in disk /\ Len(s) = 1 /\ j.alone)
  <2> DEFINE f == row.files[k]
  <2>1. f \in NamesIn(c.row.files) /\ f \in Written(c)
    BY <1>6, <1>7, RowFiles, <1>4 DEF Written
  <2> HIDE DEF f
  <2>2. CASE f.n = j.form
    <3>1. \A q \in DOMAIN s : ~(q < 1)
      BY <1>1, ListIs
    <3>2. QED
      BY <1>5, <1>6, <1>1, <2>1, <2>2, WrittenIs, <1>3, <3>1 DEF f, TakeOk, T
  <2>3. CASE f.n # j.form
    BY <1>4, <2>1, <2>3, <1>1, WrittenIs, <1>3, <1>6, <1>5 DEF InsertOk, f
  <2>4. QED
    BY <2>2, <2>3
<1>8. QED
  BY <1>4, <1>6, <1>7 DEF row, c, T, stale

\* INSERT: the files the new row names are stored by then, or shared by designs.
LEMMA InsertStep ==
    ASSUME IInv, NEW w \in Workers, Insert(w), UNCHANGED <<zip, snapshot>>
    PROVE  IInv'
<1> DEFINE c == NextCall(w) j == job[w] s == job[w].todo
           row == [c.row EXCEPT !.odd = @ \/ Stale(w)]
           T == Takes(c, j.form)
           a == nextId
           R2 == [i \in DOMAIN rows \union {a} |-> IF i = a THEN row ELSE rows[i]]
           K == Known(rows, zip, job)
           e == IF Tail(s) = <<>> THEN "ok" ELSE "no"
           j2 == With(j, a, Tail(s), e)
<1>1. At(w, "insert") /\ UNCHANGED <<disk, served, zip, snapshot>>
  BY DEF Insert
<1>2. /\ c = s[1] /\ s[1].do = "insert" /\ 1 \in DOMAIN s /\ Serves(j) /\ IsJob(j, served)
      /\ ShownBy(j) \subseteq K /\ IsList(s) /\ s # <<>>
  BY <1>1, Turn
<1>3. "insert" \in Dos \ {"refuse"} /\ "insert" \notin {"delete", "update"}
  BY DEF Dos
<1>4. ListOk(j, s, rows, disk) /\ CallOk(j, s[1]) /\ ~Swapping(j) /\ j.op \in Ordinary
  BY <1>1, <1>3, OrdinaryTurn
<1>5. /\ IsTable(rows) /\ NamesOf(rows) \subseteq K /\ job = [v \in Workers |-> job[v]]
      /\ ServedInv(rows, disk, job) /\ T \subseteq Taken(j) /\ Taken(j) \intersect K = {}
      /\ disk \subseteq Files /\ DataInv(rows, disk, zip, served)
  BY <1>2, ShownIs, KnownIs DEF IInv, Inv, KnownInv, Serves, DataInv
<1>6. CASE ~Admissible(row, None)
  BY <1>6, <1>1, <1>3, FailStep DEF Insert
<1>7. CASE Admissible(row, None)
  <2>1. /\ rows' = R2 /\ nextId' = nextId + 1
        /\ job' = [job EXCEPT ![w].id = a, ![w].todo = Tail(s), ![w].end = e]
    BY <1>7 DEF Insert
  <2>2. /\ job' = [job EXCEPT ![w] = j2] /\ IsJob(j2, served) /\ Continues(j, j2) /\ j2 # Idle
        /\ j2.todo = Tail(s)
    <3> DEFINE t == Tail(s)
    <3>1. Serves(job[w]) /\ IsList(t) /\ e = IF t = <<>> THEN "ok" ELSE "no"
      BY <1>2, ListTail
    <3>2. j2 = With(job[w], a, t, e)
      OBVIOUS
    <3> HIDE DEF e, t, a, j2
    <3>3. /\ Inserted(job, w, a, t, e) = [job EXCEPT ![w] = With(job[w], a, t, e)]
          /\ IsJob(With(job[w], a, t, e), served) /\ Continues(job[w], With(job[w], a, t, e))
          /\ With(job[w], a, t, e) # Idle /\ With(job[w], a, t, e).todo = t
      <4>1. IsJob(job[w], served) /\ job = [v \in Workers |-> job[v]]
        BY <3>1, ServesJob DEF IInv, Inv
      <4>2. QED
        BY <3>1, <4>1, GoIdIs, WithIs
    <3>4. QED
      BY <2>1, <3>2, <3>3 DEF t, Inserted
  <2>3. /\ IsRow(row) /\ row.kind = j.kind
        /\ \A k \in DOMAIN row.files :
              \/ row.files[k] = NoFile
              \/ row.files[k] \in T /\ (row.odd \/ row.files[k] \in disk)
              \/ /\ row.kind = "design" /\ row.files[k] \in ShownBy(job[w])
                 /\ row.odd \/ (row.files[k] \in disk /\ Len(job[w].todo) = 1 /\ job[w].alone)
    BY <1>1, InsertRowIs
  <2>4. DOMAIN R2 = DOMAIN rows \union {a} /\ R2[a] = row /\ \A i \in DOMAIN R2 \ {a} : i \in DOMAIN rows /\ R2[i] = rows[i]
    OBVIOUS
  <2> HIDE DEF R2, row, a, T, K, j2
  <2>5. ListOk(j2, j2.todo, R2, disk) /\ ShownBy(j2) = {} /\ Taken(j2) = {} /\ j2.op = j.op
    BY <2>2, <1>2, <1>4, TailOfInsert DEF Continues
  <2>6. ASSUME NEW i \in DOMAIN rows, NEW k \in DOMAIN rows[i].files, k \in DOMAIN row.files,
               rows[i].files[k] = row.files[k], rows[i].files[k] # NoFile
        PROVE  rows[i].kind = "design" /\ row.kind = "design"
    <3> DEFINE g == row.files[k]
    <3>1. QED
      BY <2>3, <2>6, <1>5, TableNames, RowFiles, FitsKinds DEF IsTable
  <2>7. ASSUME NEW i \in DOMAIN R2, NEW m \in DOMAIN R2,
               NEW k \in DOMAIN R2[i].files \intersect DOMAIN R2[m].files,
               R2[i].files[k] = R2[m].files[k], R2[i].files[k] # NoFile
        PROVE  R2[i].kind = "design" \/ i = m \/ (R2[i].odd /\ R2[m].odd)
    BY <1>5, <2>4, <2>7, <2>6 DEF IsTable
  <2>8. NamesOf(R2) \subseteq K \union T
    <3> SUFFICES ASSUME NEW f \in NamesOf(R2) PROVE f \in K \union T
      OBVIOUS
    <3>1. PICK i \in DOMAIN R2 : f # NoFile /\ \E k \in DOMAIN R2[i].files : R2[i].files[k] = f
      BY NamesTable
    <3>2. PICK k \in DOMAIN R2[i].files : R2[i].files[k] = f
      BY <3>1
    <3>3. CASE i # a
      BY <1>5, <2>4, <3>1, <3>2, <3>3, TableNames
    <3>4. CASE i = a
      BY <1>2, <2>3, <2>4, <3>1, <3>2, <3>4
    <3>5. QED
      BY <3>3, <3>4
  <2>9. Carried(j, j2, rows, disk, R2, disk)
    BY <2>3, <2>4, <1>2 DEF Carried, Mends
  <2> DEFINE N2 == nextId'
  <2> HIDE DEF N2
  <2>10. JobInv(j2, R2, disk, N2, zip, snapshot, served)
    BY <1>4, <2>2, <2>5 DEF JobInv, OpInv
  <2>11. DataInv(R2, disk, zip, served)
    BY <1>5, <2>7, <2>3, <2>4 DEF DataInv, IsTable
  <2>12. /\ NamesOf(zip.rows) \subseteq K \union T /\ disk \ disk \subseteq K
         /\ ShownBy(j2) \subseteq K /\ Taken(j2) \subseteq Taken(j) \ T
         /\ j.alone \/ (Passes(rows, R2, T) /\ (j.op = "restore" \/ disk \ disk \subseteq K))
    BY <2>5, <2>3, <2>4, KnownIs DEF K, Passes
  <2>13. Inv(R2, N2, disk, [job EXCEPT ![w] = j2], served, zip, snapshot)
    BY <1>2, <1>5, <2>2, <2>8, <1>4, <2>9, ServedStep, <2>10, <2>11, <2>12, GoesOn DEF K, IInv
  <2>14. QED
    BY <1>1, <2>1, <2>2, <2>13 DEF IInv, N2
<1>8. QED
  BY <1>6, <1>7
-----------------------------------------------------------------------------
(* A download, call by call.                                               *)

\* The folders one by one.
LEMMA FoldersAre ==
    ASSUME NEW D, D \subseteq Files
    PROVE  /\ Within(D, TreesTo(0)) = {} /\ Within(D, TreesTo(4)) = D
           /\ \A t \in 1..4 : Within(D, TreesTo(t)) = Within(D, TreesTo(t - 1)) \union OfTree(D, t)
           /\ \A t, u \in 1..4 : t # u => Trees[t] # Trees[u]
           /\ \A t \in 1..4 : OfTree(D, t) = {f \in D : f.tree = Trees[t]}
BY TreesAre DEF TreesTo, Within, TreeNames, Files, OfTree

\* Files are the same where folder by folder they are.
LEMMA SameFolders ==
    ASSUME NEW D, D \subseteq Files, NEW E, E \subseteq Files, \A t \in 1..4 : OfTree(D, t) = OfTree(E, t)
    PROVE  D = E
<1>1. \A f \in Files : \E t \in 1..4 : f.tree = Trees[t]
  BY TreesAre DEF Files, TreeNames
<1>2. \A f \in D : f \in E
  BY <1>1 DEF OfTree, Within
<1>3. \A f \in E : f \in D
  BY <1>1 DEF OfTree, Within
<1>4. QED
  BY <1>2, <1>3

\* What the calls of a download and of a restore show and take.
LEMMA NothingTaken ==
    ASSUME NEW j, \A p \in DOMAIN j.todo : j.todo[p].do \notin {"insert", "update"}
    PROVE  Taken(j) = {}
<1>1. \A p \in DOMAIN j.todo : Takes(j.todo[p], j.form) = {}
  BY DEF Takes, Written
<1>2. QED
  BY <1>1, IsTaken

\* A request whose calls are about no file shows and takes none.
LEMMA NothingShown ==
    ASSUME NEW j, \A p \in DOMAIN j.todo :
                     j.todo[p].do \notin {"insert", "update", "remove", "count", "send"}
    PROVE  ShownBy(j) = {} /\ Taken(j) = {}
<1>1. \A p \in DOMAIN j.todo : Takes(j.todo[p], j.form) = {} /\ Shows(j.todo[p], j.form) = {}
  BY DEF Takes, Shows, Written, Handled
<1>2. QED
  BY <1>1, IsTaken, IsShown

\* What a download has before it.
LEMMA BackupTurn ==
    ASSUME IInv, NEW w \in Workers, NEW do \in {"copy database", "walk", "send"}, At(w, do)
    PROVE  /\ job[w].op = "backup" /\ ~Swapping(job[w]) /\ job[w].op \notin Ordinary
           /\ do = "copy database" => Len(job[w].todo) = 1
           /\ do # "copy database" =>
                 /\ Len(job[w].todo) \in 1..5 /\ (do = "send" <=> Len(job[w].todo) = 1)
                 /\ \A p \in DOMAIN job[w].todo : p < Len(job[w].todo) =>
                        /\ job[w].todo[p].do = "walk"
                        /\ job[w].todo[p].tree = Trees[p + 5 - Len(job[w].todo)]
                 /\ IsSend(job[w].todo[Len(job[w].todo)])
                 /\ job[w].alone =>
                       /\ job[w].todo[Len(job[w].todo)].rows = rows
                       /\ job[w].todo[Len(job[w].todo)].files = Within(disk, TreesTo(5 - Len(job[w].todo)))
<1> DEFINE j == job[w] s == job[w].todo n == Len(s) c == s[n]
<1>1. /\ Serves(j) /\ IsList(s) /\ s # <<>> /\ s[1].do = do /\ 1 \in DOMAIN s
      /\ OpInv(j, rows, disk, nextId, zip, snapshot)
  BY Turn
<1>2. j.op = "backup"
  BY <1>1, FirstCall DEF Dos
<1>3. BackupOk(j, s, rows, disk)
  BY <1>1, <1>2 DEF OpInv, Ordinary
<1>4. n # 1 => 1 < n
  BY <1>1, ListPlaces
<1>5. ASSUME do # "copy database"
      PROVE  /\ n \in 1..5
             /\ \A p \in DOMAIN s : p < n => s[p].do = "walk" /\ s[p].tree = Trees[p + 5 - n]
             /\ IsSend(c)
             /\ j.alone => c.rows = rows /\ c.files = Within(disk, TreesTo(5 - n))
  BY <1>1, <1>3, <1>5 DEF BackupOk
<1>6. ASSUME do = "copy database" PROVE n = 1
  <2> SUFFICES ASSUME n # 1 PROVE FALSE
    OBVIOUS
  <2>1. QED
    BY <1>1, <1>6, <1>4, <1>3 DEF BackupOk
<1>7. ASSUME do # "copy database" PROVE do = "send" <=> n = 1
  BY <1>5, <1>7, SendIs, <1>1, <1>4
<1>8. QED
  BY <1>2, <1>5, <1>6, <1>7 DEF Swapping, Ordinary

\* A call of a download that has others to follow.
LEMMA DownloadStep ==
    ASSUME IInv, NEW w \in Workers, NEW do \in {"copy database", "walk"}, At(w, do),
           UNCHANGED <<rows, nextId, disk, served, zip, snapshot>>,
           NEW t, IsList(t), Go(w, t), t # <<>>, BackupOk(job[w], t, rows, disk),
           \A p \in DOMAIN t : p < Len(t) => t[p].do = "walk",
           IsSend(t[Len(t)]), NamesOf(t[Len(t)].rows) \subseteq Known(rows, zip, job)
    PROVE  IInv'
<1> DEFINE j == job[w] j2 == After(job[w], t) K == Known(rows, zip, job)
<1>1. Serves(j) /\ j.todo[1].do = do
  BY Turn
<1>2. j.op = "backup" /\ ~Swapping(j)
  <2>1. do \in {"copy database", "walk", "send"}
    OBVIOUS
  <2>2. QED
    BY <2>1, BackupTurn
<1>3. /\ job' = [job EXCEPT ![w] = j2] /\ IsJob(j2, served) /\ Continues(j, j2) /\ j2 # Idle
      /\ j2.todo = t
  <2>1. Serves(job[w])
    BY <1>1
  <2> HIDE DEF j, j2
  <2>2. QED
    BY <2>1, Goes DEF j, j2
<1> HIDE DEF j2
<1>4. \A p \in DOMAIN t : p < Len(t) \/ p = Len(t)
  BY ListPlaces
<1>5. Taken(j2) = {}
  <2>1. \A p \in DOMAIN j2.todo : j2.todo[p].do \notin {"insert", "update"}
    BY <1>3, <1>4, SendIs
  <2>2. QED
    BY <2>1, NothingTaken
<1>6. ShownBy(j2) \subseteq K
  <2> SUFFICES ASSUME NEW f \in ShownBy(j2) PROVE f \in K
    OBVIOUS
  <2>1. PICK p \in DOMAIN t : f \in Shows(t[p], j2.form)
    BY <1>3, IsShown
  <2>2. CASE p < Len(t)
    <3>1. t[p].do = "walk"
      BY <2>2
    <3>2. QED
      BY <2>1, <3>1 DEF Shows, Handled, Written
  <2>3. CASE p = Len(t)
    <3>1. t[p].do = "send"
      BY <2>3, SendIs
    <3>2. QED
      BY <2>1, <2>3, <3>1 DEF Shows, Handled, Written
  <2>4. QED
    BY <1>4, <2>2, <2>3
<1>7. JobInv(j2, rows, disk, nextId, zip, snapshot, served)
  <2>1. j2.op = "backup" /\ j2.alone = j.alone
    BY <1>2, <1>3 DEF Continues
  <2>2. BackupOk(j2, t, rows, disk)
    BY <2>1 DEF BackupOk
  <2>3. QED
    BY <1>3, <2>1, <2>2 DEF JobInv, OpInv
<1>8. ServedInv(rows, disk, job) /\ disk \subseteq Files /\ job = [v \in Workers |-> job[v]]
  BY DEF IInv, Inv, DataInv
<1>9. ServedInv(rows, disk, [job EXCEPT ![w] = j2])
  BY <1>1, <1>2, <1>8, ServedQuietly
<1>10. Taken(j2) \subseteq Taken(j) /\ disk \ disk \subseteq Known(rows, zip, job)
  BY <1>5
<1>11. Inv(rows, nextId, disk, [job EXCEPT ![w] = j2], served, zip, snapshot)
  BY <1>1, <1>3, <1>6, <1>7, <1>8, <1>9, <1>10, GoesOnQuietly DEF IInv
<1>12. QED
  BY <1>3, <1>11 DEF IInv

\* A call for each of the folders.
LEMMA EachIs ==
    ASSUME NEW do
    PROVE  /\ IsList(Each(do)) /\ Len(Each(do)) = 4 /\ DOMAIN Each(do) = 1..4
           /\ \A k \in 1..4 : Each(do)[k].do = do /\ Each(do)[k].tree = Trees[k]
<1> DEFINE s == Each(do)
<1>1. s = [k \in 1..4 |-> s[k]] /\ \A k \in 1..4 : s[k] = [do |-> do, tree |-> Trees[k]]
  BY TreesAre DEF Each
<1> HIDE DEF s
<1>2. IsList(s) /\ Len(s) = 4 /\ DOMAIN s = 1..4
  BY <1>1, ListFun
<1>3. QED
  BY <1>2, <1>1 DEF s

\* A list with one place changed.
LEMMA ListChange ==
    ASSUME NEW s, IsList(s), NEW m \in DOMAIN s, NEW t, DOMAIN t = DOMAIN s, t = [p \in DOMAIN t |-> t[p]]
    PROVE  IsList(t) /\ Len(t) = Len(s)
<1>1. Len(s) \in Nat /\ DOMAIN s = 1..Len(s)
  BY ListIs
<1>2. t = [p \in 1..Len(s) |-> t[p]]
  BY <1>1
<1>3. QED
  BY <1>1, <1>2, ListFun

\* The database is copied in one moment.
LEMMA CopyDatabaseStep ==
    ASSUME IInv, NEW w \in Workers, CopyDatabase(w), UNCHANGED <<zip, snapshot>>
    PROVE  IInv'
<1> DEFINE c == [do |-> "send", rows |-> rows, nextId |-> nextId, files |-> {}]
           e == Each("walk")
           t == e \o <<c>>
<1>1. At(w, "copy database") /\ Go(w, t) /\ UNCHANGED <<rows, nextId, disk, served, zip, snapshot>>
  BY DEF CopyDatabase
<1>2. c = [do |-> "send", rows |-> c.rows, nextId |-> c.nextId, files |-> c.files]
  OBVIOUS
<1>3. c.rows = rows /\ c.files = {}
  OBVIOUS
<1> HIDE DEF c
<1>4. IsTable(rows) /\ disk \subseteq Files
  BY DEF IInv, Inv, DataInv
<1>5. /\ IsList(e) /\ Len(e) = 4 /\ DOMAIN e = 1..4
      /\ \A k \in 1..4 : e[k].do = "walk" /\ e[k].tree = Trees[k]
  BY EachIs
<1> HIDE DEF e
<1> DEFINE o == <<c>>
<1>6. IsList(o) /\ Len(o) = 1 /\ DOMAIN o = {1} /\ o[1] = c
  BY ListOne
<1> HIDE DEF o
<1>7. /\ IsList(e \o o) /\ Len(e \o o) = Len(e) + Len(o)
      /\ \A p \in DOMAIN e : p \in DOMAIN (e \o o) /\ (e \o o)[p] = e[p]
      /\ \A p \in DOMAIN o : Len(e) + p \in DOMAIN (e \o o) /\ (e \o o)[Len(e) + p] = o[p]
  BY <1>5, <1>6, ListConcat
<1> HIDE DEF t
<1>8. /\ IsList(t) /\ Len(t) = 5 /\ \A p \in 1..4 : t[p] = e[p]
      /\ t[5] = c
  BY <1>5, <1>6, <1>7 DEF t, o
<1>9. DOMAIN t = 1..5 /\ t # <<>>
  <2>1. DOMAIN t = 1..Len(t) /\ (t = <<>> => Len(t) = 0)
    BY <1>8, ListIs
  <2>2. QED
    BY <1>8, <2>1
<1>10. \A p \in DOMAIN t : p < 5 => t[p].do = "walk" /\ t[p].tree = Trees[p]
  BY <1>5, <1>8, <1>9
<1>11. Within(disk, TreesTo(0)) = {}
  BY <1>4, FoldersAre
<1>12. IsSend(t[Len(t)]) /\ t[Len(t)].rows = rows /\ t[Len(t)].files = Within(disk, TreesTo(5 - Len(t)))
  BY <1>3, <1>2, <1>4, <1>8, <1>11 DEF IsSend
<1>13. BackupOk(job[w], t, rows, disk)
  BY <1>8, <1>10, <1>9, <1>12 DEF BackupOk
<1>14. QED
  BY <1>1, <1>8, <1>9, <1>12, <1>13, KnownIs, <1>10, DownloadStep

\* A folder is walked through.
LEMMA WalkStep ==
    ASSUME IInv, NEW w \in Workers, Walk(w), UNCHANGED <<zip, snapshot>>
    PROVE  IInv'
<1> DEFINE j == job[w] s == j.todo r == Tail(s) n == Len(s) m == Len(r)
           t == [r EXCEPT ![m].files = @ \union Of(NextCall(w).tree)]
           c == s[n]
<1>1. At(w, "walk") /\ Go(w, t) /\ UNCHANGED <<rows, nextId, disk, served, zip, snapshot>>
  BY DEF Walk
<1>2. "walk" \in {"copy database", "walk", "send"} /\ "walk" \in {"copy database", "walk"}
  OBVIOUS
<1>3. /\ n \in 1..5 /\ n # 1
      /\ \A p \in DOMAIN s : p < n => s[p].do = "walk" /\ s[p].tree = Trees[p + 5 - n]
      /\ IsSend(c)
      /\ j.alone => c.rows = rows /\ c.files = Within(disk, TreesTo(5 - n))
  BY <1>1, <1>2, BackupTurn
<1>4. /\ Serves(j) /\ IsList(s) /\ s # <<>> /\ 1 \in DOMAIN s /\ NextCall(w) = s[1]
      /\ ShownBy(j) \subseteq Known(rows, zip, job)
  BY <1>1, Turn
<1>5. /\ IsList(r) /\ m = n - 1 /\ \A p \in DOMAIN r : p + 1 \in DOMAIN s /\ r[p] = s[p + 1]
  BY <1>4, ListTail
<1>6. m \in Nat /\ DOMAIN r = 1..m /\ n \in DOMAIN s
  BY <1>4, <1>5, ListIs, ListPlaces
<1> DEFINE F == Of(NextCall(w).tree) d == [r[m] EXCEPT !.files = @ \union F]
<1>7. NextCall(w).tree = Trees[1 + 5 - n]
  BY <1>4, <1>3, ListPlaces
<1> HIDE DEF s, F, n, r, m
<1>8. n \in {2, 3, 4, 5} /\ m = n - 1 /\ m \in DOMAIN r /\ m + 1 = n /\ 1 + 5 - n = 6 - n /\ 6 - n \in 1..4
      /\ 5 - m = 6 - n /\ (6 - n) - 1 = 5 - n
  BY <1>3, <1>5, <1>6
<1>9. r[m] = c
  BY <1>5, <1>8
<1> HIDE DEF c
<1>10. /\ DOMAIN t = DOMAIN r /\ t = [p \in DOMAIN t |-> t[p]]
       /\ t[m] = [r[m] EXCEPT !.files = @ \union F] /\ \A p \in DOMAIN r : p # m => t[p] = r[p]
  BY <1>5, ListIs, <1>8 DEF F
<1> HIDE DEF t
<1>11. IsList(t) /\ Len(t) = m /\ DOMAIN t = 1..m
  BY <1>5, <1>8, <1>10, ListChange, <1>6 DEF m
<1>12. /\ c.files \subseteq Files /\ IsTable(c.rows)
       /\ c = [do |-> "send", rows |-> c.rows, nextId |-> c.nextId, files |-> c.files]
  BY <1>3 DEF IsSend
<1>13. disk \subseteq Files /\ F = OfTree(disk, 6 - n)
  BY <1>7, <1>8, FoldersAre DEF IInv, Inv, DataInv, F, Of
<1> DEFINE g == t[m]
<1>14. /\ g = [do |-> "send", rows |-> g.rows, nextId |-> g.nextId, files |-> g.files]
       /\ g.rows = c.rows /\ g.files = c.files \union F
  BY <1>12, <1>9, <1>10
<1> HIDE DEF g
<1>15. IsSend(g)
  BY <1>12, <1>13, <1>14 DEF IsSend, OfTree, Within
<1>16. ASSUME j.alone PROVE g.rows = rows /\ g.files = Within(disk, TreesTo(5 - m))
  BY <1>8, <1>13, FoldersAre, <1>3, <1>14, <1>16
<1>17. ASSUME NEW p \in DOMAIN t, p < m PROVE t[p].do = "walk" /\ t[p].tree = Trees[p + 5 - m]
  <2>1. p + 1 < n /\ (p + 1) + 5 - n = p + 5 - m
    BY <1>8, <1>11, <1>17
  <2>2. QED
    BY <1>3, <1>5, <1>6, <1>10, <1>11, <1>17, <2>1
<1>18. m \in 1..5
  BY <1>8
<1>19. BackupOk(j, t, rows, disk)
  BY <1>11, <1>15, <1>16, <1>17, <1>18 DEF BackupOk, g
<1>20. IsSend(t[Len(t)]) /\ NamesOf(t[Len(t)].rows) \subseteq Known(rows, zip, job)
  BY <1>11, <1>15, <1>12, <1>6, ShownIs, <1>4, <1>14 DEF g, Shows, Handled, c, s, n
<1>21. QED
  BY <1>1, <1>2, <1>11, <1>8, ListNone, <1>19, <1>20, <1>17, DownloadStep DEF t, m, r, s

\* What is served while a request that writes no row is the only one.
LEMMA AllIsServed ==
    ASSUME IInv, NEW w \in Workers, Serves(job[w]), job[w].alone, ~Swapping(job[w]), job[w].op \notin Ordinary
    PROVE  \A i \in DOMAIN rows : \A k \in DOMAIN rows[i].files :
              rows[i].files[k] \in disk \union {NoFile} \/ rows[i].odd
<1>1. ServedInv(rows, disk, job) /\ PairInv(job)
  BY DEF IInv, Inv
<1>2. \A v \in Workers : v # w => ~Serves(job[v])
  BY <1>1 DEF PairInv, Serves
<1>3. QED
  BY <1>2, <1>1 DEF ThereOrMended, Mends, ServedInv, Swapping

\* The download is sent, and there is the backup.
LEMMA SendStep ==
    ASSUME IInv, NEW w \in Workers, Send(w), UNCHANGED snapshot
    PROVE  IInv'
<1> DEFINE j == job[w] s == j.todo c == s[1] t == Tail(s) j2 == After(j, t)
<1>1. /\ At(w, "send") /\ Go(w, t) /\ UNCHANGED <<rows, nextId, disk, served, snapshot>>
      /\ zip' = [rows |-> NextCall(w).rows, nextId |-> NextCall(w).nextId, files |-> NextCall(w).files,
                 whole |-> job[w].alone]
  BY DEF Send, Pop
<1>2. /\ Len(s) = 1 /\ IsSend(s[Len(s)]) /\ j.op = "backup" /\ ~Swapping(j) /\ j.op \notin Ordinary
      /\ j.alone => s[Len(s)].rows = rows /\ s[Len(s)].files = Within(disk, TreesTo(5 - Len(s)))
  BY <1>1, BackupTurn
<1>3. /\ Serves(j) /\ IsList(s) /\ s # <<>> /\ 1 \in DOMAIN s /\ NextCall(w) = c
      /\ ShownBy(j) \subseteq Known(rows, zip, job) /\ IsJob(j, served)
  BY <1>1, Turn
<1>4. IsList(t) /\ t = <<>>
  BY <1>3, ListTail, <1>2, ListIs
<1>5. IsSend(c) /\ (j.alone => c.rows = rows /\ c.files = disk)
  BY <1>2, FoldersAre DEF IInv, Inv, DataInv
<1> DEFINE Z == zip'
<1>6. Z.rows = c.rows /\ Z.nextId = c.nextId /\ Z.files = c.files /\ Z.whole = j.alone
  BY <1>1, <1>3
<1>7. /\ job' = [job EXCEPT ![w] = j2] /\ IsJob(j2, served) /\ Continues(j, j2) /\ j2 # Idle
       /\ j2.todo = t
  BY <1>3, <1>4, <1>1, Goes
<1> HIDE DEF Z, j2
<1>8. DataInv(rows, disk, Z, served)
  BY <1>2, <1>3, <1>5, <1>6, AllIsServed DEF Complete, IsSend, IInv, Inv, DataInv, IsJob
<1>9. JobInv(j2, rows, disk, nextId, Z, snapshot, served)
  BY <1>2, <1>4, <1>7 DEF Continues, BackupOk, JobInv, OpInv
<1> DEFINE T == {} K == Known(rows, zip, job)
<1>10. NamesOf(rows) \subseteq K \union T /\ NamesOf(Z.rows) \subseteq K \union T
  BY <1>5, SendIs, <1>3, ShownIs, <1>6, KnownIs DEF Shows, Handled
<1>11. T \subseteq Taken(j) /\ ShownBy(j2) \subseteq K /\ (Taken(j2) \subseteq Taken(j) \ T)
       /\ disk \ disk \subseteq K
  BY <1>4, <1>7, ListNone, IsShown, IsTaken
<1> HIDE DEF T
<1>12. ServedInv(rows, disk, [job EXCEPT ![w] = j2])
  BY <1>2, <1>5, SendIs, ServedQuietly DEF IInv, Inv
<1>13. Inv(rows, nextId, disk, [job EXCEPT ![w] = j2], served, Z, snapshot)
  BY <1>3, <1>7, <1>8, <1>9, <1>10, <1>11, <1>12, GoesOn DEF IInv, Passes
<1>14. QED
  BY <1>1, <1>7, <1>13 DEF IInv, Z

-----------------------------------------------------------------------------
(* A restore, call by call.                                                *)

\* A table with all of its rows marked, or none.
OddRows(Q, b) == [i \in DOMAIN Q |-> [Q[i] EXCEPT !.odd = @ \/ b]]

\* A row that is marked keeps the rest.
LEMMA OddRow ==
    ASSUME NEW row, IsRow(row), NEW b \in BOOLEAN, NEW row2, row2 = [row EXCEPT !.odd = @ \/ b]
    PROVE  /\ IsRow(row2) /\ row2.files = row.files /\ row2.kind = row.kind
           /\ row2.odd = (row.odd \/ b) /\ (~b => row2 = row)
BY DEF IsRow

\* So does a table whose rows are marked.
LEMMA OddRowsAre ==
    ASSUME NEW Q, IsTable(Q), NEW b \in BOOLEAN, NEW R2, R2 = OddRows(Q, b)
    PROVE  /\ Marks(Q, R2) /\ DOMAIN R2 = DOMAIN Q
           /\ \A i \in DOMAIN Q : R2[i].odd = (Q[i].odd \/ b)
           /\ \A i \in DOMAIN Q : ~b => R2[i] = Q[i]
           /\ b => \A i \in DOMAIN R2 : R2[i].odd
<1>1. DOMAIN R2 = DOMAIN Q /\ \A i \in DOMAIN Q : R2[i] = [Q[i] EXCEPT !.odd = @ \/ b]
  BY DEF OddRows
<1>2. ASSUME NEW i \in DOMAIN Q
      PROVE  /\ IsRow(R2[i]) /\ R2[i].files = Q[i].files /\ R2[i].kind = Q[i].kind
             /\ R2[i].odd = (Q[i].odd \/ b) /\ (~b => R2[i] = Q[i]) /\ Q[i].odd \in BOOLEAN
  <2>1. IsRow(Q[i])
    BY DEF IsTable
  <2>2. Q[i].odd \in BOOLEAN
    BY <2>1 DEF IsRow
  <2>3. QED
    BY <1>1, <2>1, <2>2, OddRow
<1>3. QED
  BY <1>1, <1>2 DEF Marks

\* Where all rows are marked nothing more is promised.
LEMMA AllOdd ==
    ASSUME NEW R2, \A i \in DOMAIN R2 : R2[i].odd, NEW R, NEW T, NEW D, NEW J
    PROVE  Passes(R, R2, T) /\ ServedInv(R2, D, J)
BY DEF Passes, ServedInv, ThereOrMended

\* Which call of the program is next, where L are left.
LEMMA StageAt ==
    ASSUME NEW L \in 1..15
    PROVE  /\ Program[16 - L] = "keep database" => L = 15
           /\ Program[16 - L] = "keep" => L \in {11, 12, 13, 14} /\ TreeAt(16 - L) = Trees[15 - L]
           /\ Program[16 - L] = "swap database" => L = 10
           /\ Program[16 - L] = "move aside" =>
                \E t \in 1..4 : L = 11 - 2 * t /\ TreeAt(16 - L) = Trees[t]
           /\ Program[16 - L] = "copy in" =>
                \E t \in 1..4 : L = 10 - 2 * t /\ TreeAt(16 - L) = Trees[t]
           /\ Program[16 - L] = "migrate" => L = 1
<1> DEFINE q == 16 - L
<1>1. q \in {1, 2, 3, 4, 5, 6, 7, 8, 9, 10, 11, 12, 13, 14, 15} /\ L = 16 - q
  OBVIOUS
<1> HIDE DEF q
<1>2. ASSUME q \in {2, 3, 4, 5} PROVE L \in {11, 12, 13, 14} /\ TreeAt(q) = Trees[15 - L]
  BY <1>1, <1>2 DEF TreeAt
<1>3. ASSUME q \in {7, 9, 11, 13} PROVE \E t \in 1..4 : L = 11 - 2 * t /\ TreeAt(q) = Trees[t]
  <2>1. PICK t \in 1..4 : q = 5 + 2 * t
    BY <1>3
  <2>2. QED
    BY <1>1, <2>1 DEF TreeAt
<1>4. ASSUME q \in {8, 10, 12, 14} PROVE \E t \in 1..4 : L = 10 - 2 * t /\ TreeAt(q) = Trees[t]
  <2>1. PICK t \in 1..4 : q = 6 + 2 * t
    BY <1>4
  <2>2. QED
    BY <1>1, <2>1 DEF TreeAt
<1>5. L = 15 <=> q = 1
  BY <1>1
<1>6. (L = 10 <=> q = 6) /\ (L = 1 <=> q = 15)
  BY <1>1
<1>7. QED
  BY <1>1, ProgramIs, <1>2, <1>3, <1>4, <1>5, <1>6 DEF q

\* A refusal is none of its calls.
LEMMA NotRefused == ASSUME NEW s, Follows(s) PROVE s # Refused
<1> SUFFICES ASSUME s = Refused PROVE FALSE
  OBVIOUS
<1> DEFINE a == [do |-> "refuse"]
<1> HIDE DEF a
<1>1. Len(s) = 1 /\ DOMAIN s = {1} /\ s[1].do = "refuse"
  BY ListOne DEF Refused, a
<1>2. InProgram(s[1], 1 + 15 - 1)
  BY <1>1 DEF Follows
<1>3. 1 + 15 - 1 = 15
  OBVIOUS
<1>4. QED
  BY <1>1, <1>2, <1>3, ProgramIs DEF InProgram

\* What is left of the program when its next call is made.
LEMMA TailFollows ==
    ASSUME NEW s, IsList(s), s # <<>>, Follows(s)
    PROVE  Follows(Tail(s)) /\ Tail(s) # Refused
<1> DEFINE n == Len(s) t == Tail(s) m == Len(t)
<1>1. IsList(t) /\ m = n - 1 /\ \A p \in DOMAIN t : p + 1 \in DOMAIN s /\ t[p] = s[p + 1]
  BY ListTail
<1>2. n \in Nat /\ m \in Nat /\ DOMAIN t = 1..m
  BY <1>1, ListIs
<1>3. n <= 15 /\ \A p \in DOMAIN s : InProgram(s[p], p + 15 - n)
  BY DEF Follows
<1> HIDE DEF n, t, m
<1>4. ASSUME NEW p \in DOMAIN t PROVE InProgram(t[p], p + 15 - m)
  BY <1>1, <1>2, <1>3
<1>5. QED
  BY <1>4, <1>1, <1>2, <1>3, NotRefused DEF t, Follows, m

RestoreDos == {"keep database", "keep", "swap database", "move aside", "copy in", "migrate"}

\* What a restore has before it.
LEMMA RestoreTurn ==
    ASSUME IInv, NEW w \in Workers, NEW do \in RestoreDos, At(w, do)
    PROVE  /\ Serves(job[w]) /\ IsJob(job[w], served) /\ IsList(job[w].todo) /\ job[w].todo # <<>>
           /\ NextCall(w) = job[w].todo[1] /\ job[w].todo[1].do = do
           /\ job[w].op = "restore" /\ job[w].op \notin Ordinary
           /\ Follows(job[w].todo) /\ job[w].todo # Refused /\ Len(job[w].todo) \in 1..15
           /\ Program[16 - Len(job[w].todo)] = do
           /\ InProgram(job[w].todo[1], 16 - Len(job[w].todo))
           /\ do \in {"keep", "move aside", "copy in"} =>
                job[w].todo[1].tree = TreeAt(16 - Len(job[w].todo))
           /\ do = "copy in" => IsCopyIn(job[w].todo[1])
           /\ job[w].end = "no"
           /\ job[w].alone => StageOk(job[w], job[w].todo, rows, disk, nextId, zip, snapshot)
<1> DEFINE j == job[w] s == job[w].todo n == Len(s)
<1>1. /\ Serves(j) /\ IsJob(j, served) /\ IsList(s) /\ s # <<>> /\ NextCall(w) = s[1] /\ s[1].do = do
      /\ OpInv(j, rows, disk, nextId, zip, snapshot) /\ 1 \in DOMAIN s
  BY Turn
<1>2. j.op = "restore" /\ s # Refused
  BY <1>1, FirstCall DEF Dos, RestoreDos
<1>3. Follows(s) /\ s[1].do = Program[16 - n] /\ n \in 1..15
  BY <1>1, <1>2, FirstCall
<1>4. InProgram(s[1], 1 + 15 - n)
  BY <1>1, <1>3 DEF Follows
<1> HIDE DEF n
<1>5. InProgram(s[1], 16 - n)
  BY <1>4, <1>3
<1>6. QED
  BY <1>1, <1>2, <1>3, <1>5 DEF n, OpInv, Ordinary, IsJob, InProgram

\* A restore shows no file and takes none.
LEMMA FollowsShows ==
    ASSUME NEW j, IsList(j.todo), Follows(j.todo)
    PROVE  ShownBy(j) = {} /\ Taken(j) = {}
<1> DEFINE s == j.todo n == Len(s)
<1>1. DOMAIN s = 1..n /\ n \in Nat /\ n <= 15 /\ \A p \in DOMAIN s : InProgram(s[p], p + 15 - n)
  BY ListIs DEF Follows
<1> HIDE DEF s, n
<1>2. ASSUME NEW p \in DOMAIN s
      PROVE  s[p].do \notin {"insert", "update", "remove", "count", "send"}
  <2>1. p + 15 - n \in 1..15
    BY <1>1
  <2>2. QED
    BY <2>1, <1>1, ProgramDos DEF InProgram
<1>3. QED
  BY <1>2, NothingShown DEF s

\* A call of a restore.
LEMMA RestoreStep ==
    ASSUME IInv, NEW w \in Workers, Serves(job[w]), job[w].op = "restore",
           NEW R2, NEW N2, NEW D2, NEW SN2, NEW j2,
           IsTable(R2), D2 \subseteq Files, NamesOf(R2) \subseteq Known(rows, zip, job),
           IsJob(j2, served), Continues(job[w], j2), j2 # Idle, Follows(j2.todo),
           job[w].alone \/ \A T : Passes(rows, R2, T),
           job[w].alone => StageOk(j2, j2.todo, R2, D2, N2, zip, SN2),
           ServedInv(R2, D2, [job EXCEPT ![w] = j2])
    PROVE  Inv(R2, N2, D2, [job EXCEPT ![w] = j2], served, zip, SN2)
<1> DEFINE T == {} K == Known(rows, zip, job)
<1>1. DataInv(R2, D2, zip, served)
  BY DEF IInv, Inv, DataInv
<1> HIDE DEF T
<1>2. job[w].alone \/ Passes(rows, R2, T)
  OBVIOUS
<1>3. QED
  BY <1>1, FollowsShows, KnownIs, <1>2, GoesOn DEF IInv, JobInv, OpInv, IsJob, Continues

\* A call of a restore that leaves rows and files alone.
LEMMA QuietRestoreStep ==
    ASSUME IInv, NEW w \in Workers, NEW do \in {"keep database", "keep", "migrate"}, At(w, do), Pop(w),
           UNCHANGED <<rows, nextId, disk, served, zip>>,
           job[w].alone => StageOk(After(job[w], Tail(job[w].todo)), Tail(job[w].todo), rows, disk, nextId, zip,
                                   snapshot')
    PROVE  IInv'
<1> DEFINE j == job[w] t == Tail(j.todo) j2 == After(j, t) SN2 == snapshot'
<1>1. /\ Serves(j) /\ IsList(j.todo) /\ j.todo # <<>> /\ j.op = "restore" /\ j.todo[1].do = do
      /\ Follows(j.todo) /\ j.op \notin Ordinary
  BY RestoreTurn DEF RestoreDos
<1>2. IsList(t)
  BY <1>1, ListTail
<1>3. Go(w, t)
  BY DEF Pop
<1>4. /\ job' = [job EXCEPT ![w] = j2] /\ IsJob(j2, served) /\ Continues(j, j2) /\ j2 # Idle
      /\ j2.todo = t
  BY <1>1, <1>2, <1>3, Goes
<1>5. Follows(t)
  BY <1>1, TailFollows
<1>6. j.alone => StageOk(j2, t, rows, disk, nextId, zip, SN2)
  OBVIOUS
<1> HIDE DEF j2, SN2, t
<1>7. /\ ServedInv(rows, disk, job) /\ disk \subseteq Files /\ job = [v \in Workers |-> job[v]]
      /\ IsTable(rows)
  BY DEF IInv, Inv, DataInv
<1>8. Inv(rows, nextId, disk, [job EXCEPT ![w] = j2], served, zip, SN2)
  BY <1>1, <1>4, <1>5, <1>6, <1>7, ServedQuietly, KnownIs, RestoreStep DEF Swapping, Passes
<1>9. QED
  BY <1>4, <1>8 DEF IInv, SN2

\* What is said of each stage of a restore.
LEMMA Stages ==
    ASSUME NEW j, NEW s, NEW R, NEW D, NEW N, NEW Z, NEW SN
    PROVE  /\ (s = Refused \/ Len(s) > 9) => (StageOk(j, s, R, D, N, Z, SN) <=> Untouched(j.before, s, R, D, SN))
           /\ (s # Refused /\ ~(Len(s) > 9) /\ j.end # "failed") =>
                 (StageOk(j, s, R, D, N, Z, SN) <=> SwappedIn(j.before, s, R, D, N, Z, SN))
           /\ (s # Refused /\ ~(Len(s) > 9) /\ j.end = "failed") =>
                 (StageOk(j, s, R, D, N, Z, SN) <=>
                    (Untouched(j.before, s, R, D, SN) \/ HalfDone(j.before, D, Z, SN)))
BY Zenon DEF StageOk

\* The database is kept first.
LEMMA KeepDatabaseStep ==
    ASSUME IInv, NEW w \in Workers, KeepDatabase(w), UNCHANGED zip
    PROVE  IInv'
<1> DEFINE j == job[w] s == job[w].todo n == Len(s) t == Tail(s) j2 == After(j, t) SN2 == snapshot'
<1>1. /\ At(w, "keep database") /\ Pop(w) /\ UNCHANGED <<rows, nextId, disk, served, zip>>
      /\ SN2 = [rows |-> rows, files |-> {}]
  BY DEF KeepDatabase
<1>2. "keep database" \in RestoreDos /\ "keep database" \in {"keep database", "keep", "migrate"}
  BY DEF RestoreDos
<1>3. /\ Serves(j) /\ IsList(s) /\ s # <<>> /\ Follows(s) /\ s # Refused /\ n \in 1..15
      /\ Program[16 - n] = "keep database"
      /\ j.alone => StageOk(j, s, rows, disk, nextId, zip, snapshot)
  BY <1>1, <1>2, RestoreTurn
<1>4. n = 15
  BY <1>3, StageAt
<1>5. Len(t) = 14 /\ IsList(t) /\ t # Refused
  <2>1. Len(t) = n - 1 /\ IsList(t) /\ t # Refused
    BY <1>3, ListTail, TailFollows
  <2>2. QED
    BY <1>4, <2>1
<1>6. j2.before = j.before
  <2>1. Continues(j, j2)
    BY <1>3, <1>5, Goes
  <2>2. QED
    BY <2>1 DEF Continues
<1> HIDE DEF j2, t, SN2, s
<1>7. ASSUME j.alone PROVE StageOk(j2, t, rows, disk, nextId, zip, SN2)
  <2>1. Untouched(j.before, s, rows, disk, snapshot)
    <3>1. Len(s) > 9
      BY <1>4
    <3>2. QED
      BY <1>3, <1>7, <3>1, Stages
  <2>2. 14 - Len(t) = 0
    BY <1>5
  <2>3. Untouched(j.before, t, rows, disk, SN2)
    BY <1>1, <2>1, FoldersAre, <2>2 DEF Untouched, IInv, Inv, DataInv
  <2>4. Len(t) > 9
    BY <1>5
  <2>5. QED
    BY <1>6, <2>3, <2>4, Stages
<1>8. QED
  BY <1>1, <1>2, <1>7, QuietRestoreStep DEF j2, t, s, SN2

\* Then the folders, one by one.
LEMMA KeepTreeStep ==
    ASSUME IInv, NEW w \in Workers, KeepTree(w), UNCHANGED zip
    PROVE  IInv'
<1> DEFINE j == job[w] s == job[w].todo n == Len(s) t == Tail(s) j2 == After(j, t) SN2 == snapshot'
<1>1. /\ At(w, "keep") /\ Pop(w) /\ UNCHANGED <<rows, nextId, disk, served, zip>>
      /\ SN2 = [snapshot EXCEPT !.files = @ \union Of(NextCall(w).tree)]
  BY DEF KeepTree
<1>2. "keep" \in RestoreDos /\ "keep" \in {"keep database", "keep", "migrate"}
      /\ "keep" \in {"keep", "move aside", "copy in"}
  BY DEF RestoreDos
<1>3. /\ Serves(j) /\ IsList(s) /\ s # <<>> /\ Follows(s) /\ s # Refused /\ n \in 1..15
      /\ Program[16 - n] = "keep" /\ NextCall(w) = s[1] /\ s[1].tree = TreeAt(16 - n)
      /\ j.alone => StageOk(j, s, rows, disk, nextId, zip, snapshot)
  BY <1>1, <1>2, RestoreTurn
<1>4. n \in {11, 12, 13, 14} /\ TreeAt(16 - n) = Trees[15 - n]
  BY <1>3, StageAt
<1>5. IsList(t) /\ Len(t) = n - 1 /\ t # Refused
  BY <1>3, ListTail, TailFollows
<1>6. j2.before = j.before
  BY <1>3, <1>5, Goes DEF Continues
<1> HIDE DEF j2, t, SN2, s, n
<1>7. ASSUME j.alone PROVE StageOk(j2, t, rows, disk, nextId, zip, SN2)
  <2>1. Untouched(j.before, s, rows, disk, snapshot)
    <3>1. n > 9
      BY <1>4
    <3>2. QED
      BY <1>3, <1>7, <3>1, Stages DEF n
  <2>2. 15 - n \in 1..4 /\ (15 - n) - 1 = 14 - n /\ 14 - Len(t) = 15 - n /\ Len(t) > 9
    BY <1>4, <1>5
  <2>3. Within(disk, TreesTo(15 - n)) = Within(disk, TreesTo(14 - n)) \union OfTree(disk, 15 - n)
    BY <2>2, FoldersAre DEF IInv, Inv, DataInv
  <2> DEFINE A == Within(disk, TreesTo(14 - n)) B == OfTree(disk, 15 - n)
  <2>4. SN2 = [rows |-> rows, files |-> A \union B]
    <3>1. snapshot = [rows |-> rows, files |-> A] /\ Of(NextCall(w).tree) = B
      BY <1>3, <1>4, <2>1 DEF Untouched, n, Of, OfTree, Within
    <3> HIDE DEF A, B
    <3>2. QED
      BY <1>1, <3>1
  <2>5. Untouched(j.before, t, rows, disk, SN2)
    BY <2>1, <2>2, <2>3, <2>4 DEF Untouched
  <2>6. QED
    BY <1>6, <2>2, <2>5, Stages
<1>8. QED
  BY <1>1, <1>2, <1>7, QuietRestoreStep DEF j2, t, s, SN2

\* What was swapped in is migrated.
LEMMA MigrateStep ==
    ASSUME IInv, NEW w \in Workers, Migrate(w), UNCHANGED <<zip, snapshot>>
    PROVE  IInv'
<1> DEFINE j == job[w] s == job[w].todo n == Len(s) t == Tail(s) j2 == After(j, t)
<1>1. /\ At(w, "migrate") /\ Pop(w) /\ UNCHANGED <<rows, nextId, disk, served, zip, snapshot>>
  BY DEF Migrate
<1>2. "migrate" \in RestoreDos /\ "migrate" \in {"keep database", "keep", "migrate"}
  BY DEF RestoreDos
<1>3. /\ Serves(j) /\ IsList(s) /\ s # <<>> /\ Follows(s) /\ s # Refused /\ n \in 1..15
      /\ Program[16 - n] = "migrate" /\ j.end = "no"
      /\ j.alone => StageOk(j, s, rows, disk, nextId, zip, snapshot)
  BY <1>1, <1>2, RestoreTurn
<1>4. n = 1
  BY <1>3, StageAt
<1>5. IsList(t) /\ Len(t) = 0 /\ t # Refused /\ t = <<>>
  BY <1>3, ListTail, TailFollows, <1>4, ListIs
<1>6. j2.before = j.before /\ j2.end = "ok"
  BY <1>3, <1>5, Goes DEF Continues
<1> HIDE DEF j2, t, s
<1>7. ASSUME j.alone PROVE StageOk(j2, t, rows, disk, nextId, zip, snapshot)
  <2>1. SwappedIn(j.before, s, rows, disk, nextId, zip, snapshot)
    <3>1. ~(Len(s) > 9)
      BY <1>4
    <3>2. QED
      BY <1>3, <1>7, <3>1, Stages
  <2>2. QED
    BY <1>5, <1>6, <2>1, <1>4, Stages DEF SwappedIn
<1>8. QED
  BY <1>1, <1>2, <1>7, QuietRestoreStep DEF j2, t, s

\* The next call of what is left of the program.
LEMMA NextIs ==
    ASSUME NEW s, IsList(s), Follows(s), s # <<>>
    PROVE  InProgram(s[1], 16 - Len(s)) /\ Len(s) \in 1..15
<1> DEFINE n == Len(s)
<1>1. n \in Nat /\ n >= 1 /\ 1 \in DOMAIN s
  BY ListPlaces
<1>2. n <= 15 /\ InProgram(s[1], 1 + 15 - n)
  BY <1>1 DEF Follows
<1> HIDE DEF n
<1>3. n \in 1..15 /\ 1 + 15 - n = 16 - n
  BY <1>1, <1>2
<1>4. InProgram(s[1], 16 - n)
  BY <1>2, <1>3
<1>5. QED
  BY <1>3, <1>4 DEF n

\* A restore that goes on to swap a folder.
LEMMA NowSwapping ==
    ASSUME NEW R, NEW D, NEW J, J = [v \in Workers |-> J[v]], NEW w \in Workers, NEW j2,
           j2 # Idle, j2.op = "restore", j2.todo # <<>>, j2.todo[1].do \in {"move aside", "copy in"}
    PROVE  ServedInv(R, D, [J EXCEPT ![w] = j2])
<1> DEFINE J2 == [J EXCEPT ![w] = j2]
<1>1. J2[w] = j2
  OBVIOUS
<1> HIDE DEF J2
<1>2. Swapping(J2[w])
  BY <1>1 DEF Swapping, Serves
<1>3. ServedInv(R, D, J2)
  BY <1>2 DEF ServedInv
<1>4. QED
  BY <1>3 DEF J2

\* The database of the backup takes the place of the one there is.
LEMMA SwapDatabaseStep ==
    ASSUME IInv, NEW w \in Workers, SwapDatabase(w), UNCHANGED <<zip, snapshot>>
    PROVE  IInv'
<1> DEFINE j == job[w] s == job[w].todo n == Len(s) t == Tail(s) j2 == After(j, t) R2 == rows'
           b == ~zip.whole \/ ~j.alone
<1>1. /\ At(w, "swap database") /\ Go(w, t) /\ UNCHANGED <<disk, served, zip, snapshot>>
      /\ nextId' = zip.nextId
      /\ R2 = [i \in DOMAIN zip.rows |-> [zip.rows[i] EXCEPT !.odd = @ \/ ~zip.whole \/ ~j.alone]]
  BY DEF SwapDatabase, Pop
<1>2. /\ Serves(j) /\ IsList(s) /\ s # <<>> /\ Follows(s) /\ s # Refused /\ n \in 1..15
      /\ Program[16 - n] = "swap database" /\ j.op = "restore" /\ IsJob(j, served) /\ j.end = "no"
      /\ j.alone => StageOk(j, s, rows, disk, nextId, zip, snapshot)
  BY <1>1, RestoreTurn DEF RestoreDos
<1>3. n = 10
  BY <1>2, StageAt
<1>4. IsList(t) /\ Len(t) = 9 /\ t # Refused /\ Follows(t)
  <2>1. IsList(t) /\ Len(t) = n - 1 /\ t # Refused /\ Follows(t)
    BY <1>2, ListTail, TailFollows
  <2>2. QED
    BY <1>3, <2>1
<1>5. /\ job' = [job EXCEPT ![w] = j2] /\ IsJob(j2, served) /\ Continues(j, j2) /\ j2 # Idle
      /\ j2.todo = t /\ j2.end = IF t = <<>> THEN "ok" ELSE "no"
  BY <1>1, <1>2, <1>4, Goes
<1>6. j2.before = j.before /\ j2.op = "restore"
  BY <1>2, <1>5 DEF Continues
<1>7. IsTable(zip.rows) /\ zip.whole \in BOOLEAN /\ job = [v \in Workers |-> job[v]] /\ disk \subseteq Files
  BY DEF IInv, Inv, DataInv
<1>8. j.alone \in BOOLEAN /\ b \in BOOLEAN
  BY <1>2 DEF IsJob
<1>9. R2 = OddRows(zip.rows, b)
  <2> DEFINE x == ~zip.whole y == ~j.alone
  <2>1. R2 = [i \in DOMAIN zip.rows |-> [zip.rows[i] EXCEPT !.odd = (@ \/ x) \/ y]]
    BY <1>1
  <2>2. b = (x \/ y)
    OBVIOUS
  <2> HIDE DEF x, y, b
  <2>3. ASSUME NEW r PROVE [r EXCEPT !.odd = (@ \/ x) \/ y] = [r EXCEPT !.odd = @ \/ (x \/ y)]
    OBVIOUS
  <2>4. QED
    BY <2>1, <2>2, <2>3 DEF OddRows
<1> HIDE DEF R2, j2, t, s, b, n
<1>10. Marks(zip.rows, R2) /\ (b => \A i \in DOMAIN R2 : R2[i].odd)
  BY <1>7, <1>8, <1>9, OddRowsAre
<1>11. ASSUME j.alone PROVE StageOk(j2, t, R2, disk, zip.nextId, zip, snapshot)
  <2>1. Len(s) > 9
    BY <1>3 DEF n
  <2>2. Untouched(j.before, s, rows, disk, snapshot)
    BY <1>2, <1>11, <2>1, Stages
  <2>3. Len(s) \in 10..14 /\ 14 - Len(s) = 4
    BY <1>3 DEF n
  <2>4. Within(disk, TreesTo(4)) = disk
    BY <1>7, FoldersAre
  <2>5. SameRows(R2, zip.rows, zip.whole)
    BY <1>7, <1>11, <1>9 DEF b, SameRows, OddRows
  <2>6. \A k \in 1..4 : ~(Len(t) <= 9 - 2 * k) /\ Len(t) # 10 - 2 * k
    BY <1>4
  <2>7. SwappedIn(j.before, t, R2, disk, zip.nextId, zip, snapshot)
    BY <1>2, <2>2, <2>3, <2>4, <2>5, <2>6 DEF SwappedIn, Untouched
  <2>8. ~(Len(t) > 9) /\ j2.end # "failed"
    BY <1>4, <1>5
  <2>9. QED
    BY <1>4, <1>6, <2>7, <2>8, Stages
<1>12. ServedInv(R2, disk, [job EXCEPT ![w] = j2])
  <2>1. t # <<>>
    BY <1>4, ListIs
  <2>2. 16 - Len(t) = 7
    BY <1>4
  <2>3. t[1].do = "move aside"
    BY <1>4, <2>1, NextIs, <2>2, ProgramIs DEF InProgram
  <2>4. QED
    BY <1>5, <1>6, <1>7, <2>1, <2>3, NowSwapping
<1>13. Inv(R2, zip.nextId, disk, [job EXCEPT ![w] = j2], served, zip, snapshot)
  BY <1>2, <1>5, <1>7, <1>10, MarksIs, KnownIs, AllOdd, <1>12, <1>4, <1>11, RestoreStep DEF b
<1>14. QED
  BY <1>1, <1>5, <1>13 DEF IInv, R2

\* The folders without one of them.
LEMMA WithoutFolder ==
    ASSUME NEW D, D \subseteq Files, NEW u \in 1..4, NEW D2, D2 = D \ OfTree(D, u)
    PROVE  /\ OfTree(D2, u) = {} /\ D2 \subseteq Files
           /\ \A t \in 1..4 : t # u => OfTree(D2, t) = OfTree(D, t)
<1>1. \A t \in 1..4 : t # u => Trees[t] # Trees[u]
  BY FoldersAre
<1>2. ASSUME NEW t \in 1..4, t # u PROVE OfTree(D2, t) = OfTree(D, t)
  BY <1>1, <1>2 DEF OfTree, Within
<1>3. QED
  BY <1>2 DEF OfTree, Within

\* And with another's in its place.
LEMMA WithFolder ==
    ASSUME NEW D, D \subseteq Files, NEW E, E \subseteq Files, NEW u \in 1..4, NEW D2, D2 = D \union OfTree(E, u)
    PROVE  /\ OfTree(D2, u) = OfTree(D, u) \union OfTree(E, u) /\ D2 \subseteq Files
           /\ \A t \in 1..4 : t # u => OfTree(D2, t) = OfTree(D, t)
<1>1. \A t \in 1..4 : t # u => Trees[t] # Trees[u]
  BY FoldersAre
<1>2. ASSUME NEW t \in 1..4, t # u PROVE OfTree(D2, t) = OfTree(D, t)
  BY <1>1, <1>2 DEF OfTree, Within
<1>3. QED
  BY <1>2 DEF OfTree, Within

\* What was moved aside is noted in the call that copies in.
Noted(c, F) == [c EXCEPT !.aside = F]

\* What was moved aside is noted in the call that copies in, as a record,
LEMMA NotedIs ==
    ASSUME NEW a, NEW b, NEW F, NEW c, c = [do |-> "copy in", tree |-> a, aside |-> b],
           NEW x, x = [c EXCEPT !.aside = F]
    PROVE  x = [do |-> "copy in", tree |-> a, aside |-> F]
OBVIOUS

\* which stays such a call.
LEMMA AsideIs ==
    ASSUME NEW c, IsCopyIn(c), NEW F, F \subseteq Files
    PROVE  /\ Noted(c, F).do = "copy in" /\ Noted(c, F).tree = c.tree /\ Noted(c, F).aside = F
           /\ IsCopyIn(Noted(c, F))
<1> DEFINE a == c.tree b == c.aside x == Noted(c, F)
<1>1. c = [do |-> "copy in", tree |-> a, aside |-> b]
  BY DEF IsCopyIn
<1>2. x = [c EXCEPT !.aside = F]
  BY DEF Noted
<1> HIDE DEF a, b, x
<1>3. x = [do |-> "copy in", tree |-> a, aside |-> F]
  BY <1>1, <1>2, NotedIs
<1>4. x.do = "copy in" /\ x.tree = a /\ x.aside = F
  BY <1>3
<1>5. QED
  BY <1>4, <1>3 DEF a, x, IsCopyIn

\* A folder of what is there is moved aside.
LEMMA MoveAsideStep ==
    ASSUME IInv, NEW w \in Workers, MoveAside(w), UNCHANGED <<zip, snapshot>>
    PROVE  IInv'
<1> DEFINE j == job[w] s == job[w].todo n == Len(s) r == Tail(s) m == Len(r)
           F == Of(NextCall(w).tree) x == Noted(Head(r), F)
           o == <<x>> q == Tail(r) t == o \o q j2 == After(j, t) D2 == disk'
<1>1. /\ At(w, "move aside") /\ Go(w, t) /\ UNCHANGED <<rows, nextId, served, zip, snapshot>>
      /\ D2 = disk \ F
  BY DEF MoveAside, Noted
<1>2. /\ Serves(j) /\ IsList(s) /\ s # <<>> /\ Follows(s) /\ s # Refused /\ n \in 1..15
      /\ Program[16 - n] = "move aside" /\ j.op = "restore" /\ IsJob(j, served) /\ j.end = "no"
      /\ NextCall(w) = s[1] /\ s[1].tree = TreeAt(16 - n)
      /\ j.alone => StageOk(j, s, rows, disk, nextId, zip, snapshot)
  BY <1>1, RestoreTurn DEF RestoreDos
<1>3. PICK u \in 1..4 : n = 11 - 2 * u /\ TreeAt(16 - n) = Trees[u]
  BY <1>2, StageAt
<1>4. IsList(r) /\ m = n - 1 /\ Follows(r) /\ m \in Nat /\ m <= 15 /\ DOMAIN r = 1..m
  BY <1>2, ListTail, TailFollows, ListIs DEF Follows
<1> HIDE DEF n, m
<1>5. r # <<>>
  <2>1. m # 0
    BY <1>3, <1>4
  <2>2. QED
    BY <1>4, <2>1, ListIs DEF m
<1>6. /\ Head(r) = r[1] /\ 1 \in DOMAIN r /\ IsList(q) /\ Len(q) = m - 1
      /\ \A p \in DOMAIN q : p + 1 \in DOMAIN r /\ q[p] = r[p + 1]
  BY <1>4, <1>5, ListTail DEF m
<1>7. disk \subseteq Files /\ job = [v \in Workers |-> job[v]] /\ IsTable(rows)
  BY DEF IInv, Inv, DataInv
<1>8. F = OfTree(disk, u) /\ F \subseteq Files
  <2>1. F = OfTree(disk, u)
    <3>1. F = {f \in disk : f.tree = Trees[u]}
      BY <1>2, <1>3 DEF Of
    <3>2. QED
      BY <1>7, <3>1, FoldersAre
  <2>2. QED
    BY <1>7, <2>1 DEF OfTree, Within
<1>9. 16 - m = 6 + 2 * u /\ m = 10 - 2 * u
  BY <1>3, <1>4
<1>10. Program[16 - m] = "copy in"
  <2>1. 16 - m \in {8, 10, 12, 14}
    BY <1>9
  <2>2. QED
    BY <2>1, ProgramIs
<1>11. r[1].do = "copy in" /\ r[1].tree = TreeAt(16 - m) /\ IsCopyIn(r[1])
  BY <1>4, <1>5, NextIs, <1>10 DEF InProgram, m
<1> HIDE DEF F, r, s, q
<1> DEFINE c == r[1]
<1>12. x = Noted(c, F)
  BY <1>6
<1> HIDE DEF x
<1>13. x.do = "copy in" /\ x.tree = c.tree /\ x.aside = F /\ IsCopyIn(x)
  BY <1>8, <1>11, <1>12, AsideIs
<1>14. InProgram(x, 16 - m)
  BY <1>10, <1>11, <1>13 DEF InProgram
<1>15. IsList(o) /\ Len(o) = 1 /\ DOMAIN o = {1} /\ o[1] = x
  BY <1>6, ListOne
<1> HIDE DEF o
<1>16. /\ IsList(o \o q) /\ Len(o \o q) = Len(o) + Len(q)
       /\ \A p \in DOMAIN o : p \in DOMAIN (o \o q) /\ (o \o q)[p] = o[p]
       /\ \A p \in DOMAIN q : Len(o) + p \in DOMAIN (o \o q) /\ (o \o q)[Len(o) + p] = q[p]
       /\ \A p \in DOMAIN (o \o q) :
             \/ p \in DOMAIN o
             \/ \E k \in DOMAIN q : p = Len(o) + k
  BY <1>6, <1>15, ListConcat
<1>17. IsList(t) /\ Len(t) = m /\ t[1] = x
  BY <1>4, <1>6, <1>15, <1>16
<1>18. ASSUME NEW p \in DOMAIN t PROVE InProgram(t[p], p + 15 - m)
  <2>1. CASE p \in DOMAIN o
    BY <1>15, <1>17, <2>1, <1>4, <1>14
  <2>2. CASE p \notin DOMAIN o
    <3>1. PICK k \in DOMAIN q : p = Len(o) + k
      BY <1>16, <1>18, <2>2
    <3>2. t[p] = q[k] /\ q[k] = r[k + 1] /\ k + 1 \in DOMAIN r
      BY <1>6, <1>16, <3>1
    <3>3. QED
      BY <3>2, <1>4, <1>6, ListIs, <1>15, <3>1 DEF Follows, m
  <2>3. QED
    BY <2>1, <2>2
<1> HIDE DEF t
<1>19. Follows(t) /\ t # Refused
  BY <1>4, <1>17, <1>18, NotRefused DEF Follows
<1>20. t # <<>>
  BY <1>9, <1>17, ListNone
<1>21. /\ job' = [job EXCEPT ![w] = j2] /\ IsJob(j2, served) /\ Continues(j, j2) /\ j2 # Idle
       /\ j2.todo = t /\ j2.end = IF t = <<>> THEN "ok" ELSE "no"
  BY <1>1, <1>2, <1>17, Goes DEF t, o, x, q, r, s, F
<1>22. j2.before = j.before /\ j2.op = "restore"
  BY <1>2, <1>21 DEF Continues
<1> HIDE DEF j2, D2
<1>23. /\ OfTree(D2, u) = {} /\ D2 \subseteq Files
       /\ \A k \in 1..4 : k # u => OfTree(D2, k) = OfTree(disk, k)
  <2>1. D2 = disk \ OfTree(disk, u)
    BY <1>1, <1>8 DEF D2
  <2>2. QED
    BY <1>7, <2>1, WithoutFolder
<1>24. ASSUME j.alone PROVE StageOk(j2, t, rows, D2, nextId, zip, snapshot)
  <2>1. ~(Len(s) > 9)
    BY <1>3 DEF n
  <2>2. SwappedIn(j.before, s, rows, disk, nextId, zip, snapshot)
    BY <1>2, <1>24, <2>1, Stages
  <2>3. /\ snapshot = [rows |-> j.before.rows, files |-> j.before.disk]
        /\ SameRows(rows, zip.rows, zip.whole) /\ nextId = zip.nextId
        /\ \A k \in 1..4 :
              /\ n <= 9 - 2 * k => OfTree(disk, k) = OfTree(zip.files, k)
              /\ n > 10 - 2 * k => OfTree(disk, k) = OfTree(j.before.disk, k)
    BY <2>2 DEF SwappedIn, n
  <2>4. ASSUME NEW k \in 1..4
        PROVE  /\ m <= 9 - 2 * k => OfTree(D2, k) = OfTree(zip.files, k)
               /\ m = 10 - 2 * k => OfTree(D2, k) = {} /\ t[1].aside = OfTree(j.before.disk, k)
               /\ m > 10 - 2 * k => OfTree(D2, k) = OfTree(j.before.disk, k)
    <3>1. t[1].aside = OfTree(disk, u)
      BY <1>8, <1>13, <1>17
    <3>2. QED
      BY <1>23, <2>3, <1>3, <1>9, <3>1
  <2>5. ~(Len(t) > 9) /\ j2.end # "failed"
    BY <1>9, <1>17, <1>21
  <2>6. QED
    BY <1>19, <1>22, <1>17, <2>3, <2>4, <2>5, Stages DEF SwappedIn
<1>25. Follows(j2.todo) /\ (j.alone => StageOk(j2, j2.todo, rows, D2, nextId, zip, snapshot))
  BY <1>19, <1>21, <1>24
<1>26. NamesOf(rows) \subseteq Known(rows, zip, job) /\ \A T : Passes(rows, rows, T)
  BY KnownIs DEF Passes
<1>27. Inv(rows, nextId, D2, [job EXCEPT ![w] = j2], served, zip, snapshot)
  BY <1>2, <1>7, <1>21, <1>23, <1>13, <1>17, <1>20, <1>22, NowSwapping, <1>25, <1>26, RestoreStep
<1>28. QED
  BY <1>1, <1>21, <1>27 DEF IInv, D2

\* A mark that is made of two.
LEMMA TwoMarks ==
    ASSUME NEW Q, NEW x, NEW y, NEW b, b = (x \/ y),
           NEW R2, R2 = [i \in DOMAIN Q |-> [Q[i] EXCEPT !.odd = @ \/ x \/ y]]
    PROVE  R2 = OddRows(Q, b)
<1>1. OddRows(Q, b) = [i \in DOMAIN Q |-> [Q[i] EXCEPT !.odd = @ \/ (x \/ y)]]
  BY DEF OddRows
<1>2. ASSUME NEW r PROVE [r EXCEPT !.odd = (@ \/ x) \/ y] = [r EXCEPT !.odd = @ \/ (x \/ y)]
  <2>1. ((r.odd \/ x) \/ y) = (r.odd \/ (x \/ y))
    OBVIOUS
  <2>2. QED
    BY <2>1
<1>3. QED
  BY <1>1, <1>2

\* Where a restore stands when it copies folder u in.
AtFolder(u, j, c, R, D, N, Z, SN) ==
    /\ Len(j.todo) = 10 - 2 * u /\ c.tree = Trees[u] /\ c.aside \subseteq Files
    /\ j.alone =>
         /\ SN = [rows |-> j.before.rows, files |-> j.before.disk]
         /\ SameRows(R, Z.rows, Z.whole) /\ N = Z.nextId
         /\ OfTree(D, u) = {} /\ c.aside = OfTree(j.before.disk, u)
         /\ \A k \in 1..4 : /\ k < u => OfTree(D, k) = OfTree(Z.files, k)
                            /\ k > u => OfTree(D, k) = OfTree(j.before.disk, k)

\* How many calls are left tells which folders are done.
LEMMA FoldersLeft ==
    ASSUME NEW u \in 1..4
    PROVE  /\ ~(10 - 2 * u > 9)
           /\ \A k \in 1..4 : (k < u => 10 - 2 * u <= 9 - 2 * k) /\ (k > u => 10 - 2 * u > 10 - 2 * k)
OBVIOUS

\* Who copies in is at one of the four folders.
LEMMA CopyInTurn ==
    ASSUME IInv, NEW w \in Workers, At(w, "copy in")
    PROVE  \E u \in 1..4 : AtFolder(u, job[w], NextCall(w), rows, disk, nextId, zip, snapshot)
<1> DEFINE j == job[w] s == job[w].todo n == Len(s) c == NextCall(w)
<1>1. /\ s # Refused /\ n \in 1..15 /\ Program[16 - n] = "copy in" /\ j.end = "no"
      /\ c = s[1] /\ s[1].tree = TreeAt(16 - n) /\ IsCopyIn(s[1])
      /\ j.alone => StageOk(j, s, rows, disk, nextId, zip, snapshot)
  BY RestoreTurn DEF RestoreDos
<1> HIDE DEF n
<1> HIDE DEF s, c
<1>2. PICK u \in 1..4 : n = 10 - 2 * u /\ s[1].tree = Trees[u]
  BY <1>1, StageAt
<1>3. n = 10 - 2 * u /\ n \in 1..15
  BY <1>2, <1>1
<1>4. Len(s) = n
  BY DEF n
<1>5. ~(n > 9) /\ \A k \in 1..4 : (k < u => n <= 9 - 2 * k) /\ (k > u => n > 10 - 2 * k)
  BY <1>3, FoldersLeft
<1>6. ASSUME j.alone PROVE SwappedIn(j.before, s, rows, disk, nextId, zip, snapshot)
  BY <1>4, <1>5, <1>1, <1>6, Stages
<1>7. ASSUME j.alone
      PROVE  /\ snapshot = [rows |-> j.before.rows, files |-> j.before.disk]
             /\ SameRows(rows, zip.rows, zip.whole) /\ nextId = zip.nextId
             /\ OfTree(disk, u) = {} /\ c.aside = OfTree(j.before.disk, u)
             /\ \A k \in 1..4 : /\ k < u => OfTree(disk, k) = OfTree(zip.files, k)
                                /\ k > u => OfTree(disk, k) = OfTree(j.before.disk, k)
  BY <1>6, <1>7, <1>1, <1>3, <1>5 DEF SwappedIn, n
<1>8. QED
  BY <1>1, <1>2, <1>3, <1>4, <1>7 DEF c, AtFolder, s, IsCopyIn

\* What a backup names is there where its files are.
LEMMA WholeIsServed ==
    ASSUME NEW Z, IsTable(Z.rows), Z.whole \in BOOLEAN, Complete(Z), NEW R2, SameRows(R2, Z.rows, Z.whole), NEW J
    PROVE  ThereOrMended(R2, Z.files, J)
<1> DEFINE b == ~Z.whole
<1>1. R2 = OddRows(Z.rows, b) /\ b \in BOOLEAN
  BY DEF SameRows, OddRows
<1> HIDE DEF b
<1>2. /\ Marks(Z.rows, R2) /\ DOMAIN R2 = DOMAIN Z.rows
      /\ \A i \in DOMAIN Z.rows : R2[i].odd = (Z.rows[i].odd \/ b)
      /\ (b => \A i \in DOMAIN R2 : R2[i].odd)
  BY <1>1, OddRowsAre
<1>3. ASSUME NEW i \in DOMAIN R2, NEW k \in DOMAIN R2[i].files
      PROVE  R2[i].files[k] \in Z.files \union {NoFile} \/ R2[i].odd
  BY <1>2 DEF Marks, b, Complete
<1>4. QED
  BY <1>3 DEF ThereOrMended

\* A folder of the backup is copied in.
LEMMA CopiedStep ==
    ASSUME IInv, NEW w \in Workers, CopyIn(w), UNCHANGED <<zip, snapshot>>,
           disk' = disk \union {f \in zip.files : f.tree = NextCall(w).tree}, Pop(w)
    PROVE  IInv'
<1> DEFINE j == job[w] s == job[w].todo n == Len(s) t == Tail(s) j2 == After(j, t) D2 == disk' R2 == rows'
           m == Len(t) b == ~j.alone \/ job'[w].end = "failed"
<1>1. /\ At(w, "copy in") /\ Go(w, t) /\ UNCHANGED <<nextId, served, zip, snapshot>>
      /\ R2 = [i \in DOMAIN rows |-> [rows[i] EXCEPT !.odd = @ \/ ~j.alone \/ job'[w].end = "failed"]]
      /\ D2 = disk \union {f \in zip.files : f.tree = NextCall(w).tree}
  BY DEF CopyIn, Pop
<1>2. /\ Serves(j) /\ IsList(s) /\ s # <<>> /\ Follows(s) /\ j.op = "restore" /\ IsJob(j, served)
  BY <1>1, RestoreTurn DEF RestoreDos
<1> PICK u \in 1..4 : AtFolder(u, j, NextCall(w), rows, disk, nextId, zip, snapshot)
  BY <1>1, CopyInTurn
<1>3. /\ n = 10 - 2 * u /\ NextCall(w).tree = Trees[u]
      /\ j.alone =>
           /\ snapshot = [rows |-> j.before.rows, files |-> j.before.disk]
           /\ SameRows(rows, zip.rows, zip.whole) /\ nextId = zip.nextId
           /\ OfTree(disk, u) = {}
           /\ \A k \in 1..4 : /\ k < u => OfTree(disk, k) = OfTree(zip.files, k)
                              /\ k > u => OfTree(disk, k) = OfTree(j.before.disk, k)
  BY DEF AtFolder
<1>4. {f \in zip.files : f.tree = NextCall(w).tree} = OfTree(zip.files, u)
  <2> DEFINE g == NextCall(w).tree
  <2> HIDE DEF g
  <2>1. QED
    BY <1>3 DEF g, OfTree, Within
<1>5. D2 = disk \union OfTree(zip.files, u)
  <2> HIDE DEF D2
  <2>1. QED
    BY <1>1, <1>4
<1>6. /\ IsList(t) /\ m = n - 1 /\ t # Refused /\ Follows(t)
  BY <1>2, ListTail, TailFollows
<1>7. /\ job' = [job EXCEPT ![w] = j2] /\ IsJob(j2, served) /\ Continues(j, j2) /\ j2 # Idle
      /\ j2.todo = t /\ j2.end = IF t = <<>> THEN "ok" ELSE "no"
  <2>1. IsList(t) /\ Go(w, t)
    BY <1>1, <1>6
  <2> HIDE DEF t
  <2>2. QED
    BY <1>2, <2>1, Goes
<1>8. j2.before = j.before /\ j2.op = "restore" /\ j2.end # "failed"
  BY <1>2, <1>7 DEF Continues
<1>9. /\ IsTable(rows) /\ job = [v \in Workers |-> job[v]] /\ disk \subseteq Files /\ zip.files \subseteq Files
      /\ IsTable(zip.rows) /\ zip.whole \in BOOLEAN /\ Complete(zip)
  BY DEF IInv, Inv, DataInv
<1> HIDE DEF j2
<1>10. j.alone \in BOOLEAN /\ b = ~j.alone
  BY <1>2, <1>8, <1>7, <1>9 DEF IsJob
<1>11. R2 = OddRows(rows, b)
  <2> DEFINE x == ~j.alone y == job'[w].end = "failed"
  <2>1. R2 = [i \in DOMAIN rows |-> [rows[i] EXCEPT !.odd = @ \/ x \/ y]]
    BY <1>1, Zenon
  <2>2. b = (x \/ y)
    OBVIOUS
  <2> HIDE DEF x, y, b, R2
  <2>3. QED
    BY <2>1, <2>2, TwoMarks
<1>12. b \in BOOLEAN
  OBVIOUS
<1> HIDE DEF R2, D2, t, s, b, n, m
<1>13. /\ Marks(rows, R2) /\ DOMAIN R2 = DOMAIN rows /\ (b => \A i \in DOMAIN R2 : R2[i].odd)
       /\ \A i \in DOMAIN rows : R2[i].odd = (rows[i].odd \/ b)
  BY <1>9, <1>12, <1>11, OddRowsAre
<1>14. /\ OfTree(D2, u) = OfTree(disk, u) \union OfTree(zip.files, u) /\ D2 \subseteq Files
       /\ \A k \in 1..4 : k # u => OfTree(D2, k) = OfTree(disk, k)
  BY <1>5, <1>9, WithFolder
<1>15. ASSUME j.alone PROVE SameRows(R2, zip.rows, zip.whole)
  <2>1. ~b
    BY <1>10, <1>15
  <2>2. QED
    BY <1>3, <1>15, <1>13, <2>1, <1>9, <1>12, <1>11, OddRowsAre DEF OddRows, SameRows
<1>16. m = 9 - 2 * u
  BY <1>3, <1>6
<1>17. ASSUME j.alone PROVE SwappedIn(j.before, t, R2, D2, nextId, zip, snapshot)
  <2>1. ASSUME NEW k \in 1..4
        PROVE  /\ m <= 9 - 2 * k => OfTree(D2, k) = OfTree(zip.files, k)
               /\ m # 10 - 2 * k
               /\ m > 10 - 2 * k => OfTree(D2, k) = OfTree(j.before.disk, k)
    <3>1. OfTree(D2, u) = OfTree(zip.files, u)
      BY <1>3, <1>14, <1>17
    <3>2. QED
      BY <1>3, <1>14, <1>17, <1>16, <3>1
  <2>2. QED
    BY <1>3, <1>15, <1>17, <2>1 DEF SwappedIn, m
<1>18. ASSUME j.alone PROVE StageOk(j2, t, R2, D2, nextId, zip, snapshot)
  BY <1>16, <1>6, <1>8, <1>17, <1>18, Stages DEF m
<1>19. t # <<>>
  BY <1>16, ListNone DEF m
<1>20. ASSUME u # 4 PROVE ServedInv(R2, D2, [job EXCEPT ![w] = j2])
  <2>1. 16 - m \in {9, 11, 13}
    BY <1>16, <1>20
  <2>2. t[1].do = "move aside"
    BY <1>6, <1>19, NextIs, <2>1, ProgramIs DEF InProgram, m
  <2>3. QED
    BY <1>7, <1>8, <1>9, <1>19, <2>2, NowSwapping
<1>21. ASSUME j.alone, u = 4 PROVE ServedInv(R2, D2, [job EXCEPT ![w] = j2])
  <2>1. \A k \in 1..4 : OfTree(D2, k) = OfTree(zip.files, k)
    <3>1. \A k \in 1..4 : k < u \/ k = u
      BY <1>21
    <3>2. QED
      BY <1>3, <1>14, <1>21, <3>1
  <2>2. QED
    BY <1>9, <1>15, <1>21, <1>14, <2>1, SameFolders, WholeIsServed DEF ServedInv
<1>22. ServedInv(R2, D2, [job EXCEPT ![w] = j2])
  BY <1>10, <1>13, AllOdd, <1>20, <1>21
<1>23. Follows(j2.todo) /\ (j.alone => StageOk(j2, j2.todo, R2, D2, nextId, zip, snapshot))
  BY <1>6, <1>7, <1>18
<1>24. Inv(R2, nextId, D2, [job EXCEPT ![w] = j2], served, zip, snapshot)
  BY <1>2, <1>7, <1>9, <1>13, MarksIs, KnownIs, <1>10, AllOdd, <1>14, <1>22, <1>23, RestoreStep
<1>25. QED
  BY <1>1, <1>7, <1>24 DEF IInv, R2, D2

\* Copying a folder in fails: what was moved aside is moved back.
LEMMA NotCopiedStep ==
    ASSUME IInv, NEW w \in Workers, CopyIn(w), UNCHANGED <<zip, snapshot>>,
           disk' = (disk \ Of(NextCall(w).tree)) \union NextCall(w).aside, Fail(w)
    PROVE  IInv'
<1> DEFINE j == job[w] s == job[w].todo n == Len(s) j2 == Failed(j) D2 == disk' R2 == rows'
           F == NextCall(w).aside b == ~j.alone \/ job'[w].end = "failed"
<1>1. /\ At(w, "copy in") /\ UNCHANGED <<nextId, served, zip, snapshot>>
      /\ R2 = [i \in DOMAIN rows |-> [rows[i] EXCEPT !.odd = @ \/ ~j.alone \/ job'[w].end = "failed"]]
      /\ D2 = (disk \ Of(NextCall(w).tree)) \union F
  BY DEF CopyIn
<1>2. Serves(j) /\ IsList(s) /\ s # <<>> /\ j.op = "restore" /\ IsJob(j, served)
  BY <1>1, RestoreTurn DEF RestoreDos
<1> PICK u \in 1..4 : AtFolder(u, j, NextCall(w), rows, disk, nextId, zip, snapshot)
  BY <1>1, CopyInTurn
<1>3. /\ NextCall(w).tree = Trees[u] /\ F \subseteq Files
      /\ j.alone =>
           /\ snapshot = [rows |-> j.before.rows, files |-> j.before.disk]
           /\ F = OfTree(j.before.disk, u)
           /\ \A k \in 1..4 : /\ k < u => OfTree(disk, k) = OfTree(zip.files, k)
                              /\ k > u => OfTree(disk, k) = OfTree(j.before.disk, k)
  BY DEF AtFolder
<1>4. /\ job' = [job EXCEPT ![w] = j2] /\ IsJob(j2, served) /\ Continues(j, j2) /\ j2 # Idle
      /\ j2.todo = <<>> /\ j2.end = "failed"
  BY <1>2, Fails
<1>5. /\ IsTable(rows) /\ job = [v \in Workers |-> job[v]] /\ disk \subseteq Files
  BY DEF IInv, Inv, DataInv
<1> HIDE DEF j2
<1>6. j.alone \in BOOLEAN /\ b
  BY <1>2, <1>4, <1>5 DEF IsJob
<1>7. R2 = OddRows(rows, b)
  <2> DEFINE x == ~j.alone y == job'[w].end = "failed"
  <2>1. R2 = [i \in DOMAIN rows |-> [rows[i] EXCEPT !.odd = @ \/ x \/ y]]
    BY <1>1, Zenon
  <2>2. b = (x \/ y)
    OBVIOUS
  <2> HIDE DEF x, y, b, R2
  <2>3. QED
    BY <2>1, <2>2, TwoMarks
<1> HIDE DEF R2, D2, s, b, n, F
<1>8. Marks(rows, R2) /\ \A i \in DOMAIN R2 : R2[i].odd
  BY <1>5, <1>6, <1>7, OddRowsAre
<1>9. ASSUME j.alone PROVE HalfDone(j.before, D2, zip, snapshot)
  <2> DEFINE D1 == disk \ OfTree(disk, u) B == j.before.disk
  <2>1. D2 = D1 \union OfTree(B, u)
    BY <1>1, <1>3, <1>9 DEF D2, Of, OfTree, Within
  <2>2. OfTree(D1, u) = {} /\ \A k \in 1..4 : k # u => OfTree(D1, k) = OfTree(disk, k)
    BY <1>5, WithoutFolder
  <2>3. \A k \in 1..4 : k # u => Trees[k] # Trees[u]
    BY <1>5, FoldersAre
  <2> HIDE DEF D1, B
  <2>4. ASSUME NEW k \in 1..4, k # u PROVE OfTree(D2, k) = OfTree(disk, k)
    BY <2>3, <2>4, <2>1, <2>2 DEF OfTree, Within
  <2>5. QED
    BY <1>3, <1>9, <2>1, <2>2, <2>4 DEF HalfDone, B, OfTree, Within
<1>10. Follows(j2.todo) /\ (j.alone => StageOk(j2, j2.todo, R2, D2, nextId, zip, snapshot))
  BY <1>4, <1>2, <1>9, ListNone, NotRefused, Stages DEF Continues, Follows
<1>11. Inv(R2, nextId, D2, [job EXCEPT ![w] = j2], served, zip, snapshot)
  BY <1>2, <1>4, <1>5, <1>8, MarksIs, KnownIs, AllOdd, <1>1, <1>3, <1>10, RestoreStep DEF D2
<1>12. QED
  BY <1>1, <1>4, <1>11 DEF IInv, R2, D2

\* A folder of the backup is copied in, or the restore ends there.
LEMMA CopyInStep ==
    ASSUME IInv, NEW w \in Workers, CopyIn(w), UNCHANGED <<zip, snapshot>>
    PROVE  IInv'
BY CopiedStep, NotCopiedStep DEF CopyIn
-----------------------------------------------------------------------------
(* A request begins.                                                       *)

\* The job of the request, and those of the requests that are being served.
Others(w) == {v \in Workers \ {w} : Serving(v)}
NewJob(op, kind, id, todo, n, a, c, R, D) ==
    [op |-> op, kind |-> kind, id |-> id, form |-> n, todo |-> todo, alone |-> a, crossed |-> c,
     end |-> "no", before |-> [rows |-> R, disk |-> D]]
Begun(w, op, kind, id, todo) ==
    NewJob(op, kind, id, todo, served + 1, Others(w) = {}, \E v \in Others(w) : job[v].op = "restore",
           rows, disk)
Beside(j, op) == [j EXCEPT !.alone = FALSE, !.crossed = @ \/ op = "restore"]

\* The job a request begins with.
LEMMA NewJobIs ==
    ASSUME NEW op, op # "idle", NEW kind, NEW id, NEW todo, IsList(todo), todo # <<>>, NEW n \in Nat,
           NEW a \in BOOLEAN, NEW c \in BOOLEAN, c => ~a, NEW R, NEW D,
           NEW j, j = NewJob(op, kind, id, todo, n, a, c, R, D)
    PROVE  /\ IsJob(j, n) /\ j # Idle /\ Serves(j)
           /\ j.op = op /\ j.kind = kind /\ j.id = id /\ j.form = n /\ j.todo = todo /\ j.alone = a
           /\ j.crossed = c /\ j.before = [rows |-> R, disk |-> D] /\ j.end = "no"
BY DEF Serves, IsJob, Idle, NewJob, JobFields

\* The job of a request that another begins beside.
IsBeside(j, op, j2) ==
    /\ j2.op = j.op /\ j2.kind = j.kind /\ j2.id = j.id /\ j2.form = j.form /\ j2.todo = j.todo
    /\ j2.end = j.end /\ j2.alone = FALSE
    /\ (j.crossed \/ op = "restore") => j2.crossed
\* A request another one began beside is the same but for that.
LEMMA BesideIs ==
    ASSUME NEW j, NEW s, IsJob(j, s), NEW op
    PROVE  /\ IsBeside(j, op, Beside(j, op)) /\ Beside(j, op) # Idle
           /\ \A n : (\A m \in Nat : m <= s => m <= n) => IsJob(Beside(j, op), n)
<1> DEFINE j2 == Beside(j, op)
<1>1. /\ JobFields \subseteq DOMAIN j /\ j = [x \in DOMAIN j |-> j[x]]
      /\ j # Idle /\ j.op # "idle" /\ IsList(j.todo)
      /\ j.form \in Nat /\ j.form <= s /\ j.crossed \in BOOLEAN
      /\ j.end \in {"no", "ok", "failed"} /\ (j.end = "no" <=> j.todo # <<>>)
  BY DEF IsJob
<1>2. /\ DOMAIN j2 = DOMAIN j /\ j2 = [x \in DOMAIN j2 |-> j2[x]]
      /\ \A x \in DOMAIN j \ {"alone", "crossed"} : j2[x] = j[x]
      /\ ("alone" \in DOMAIN j => j2["alone"] = FALSE)
      /\ ("crossed" \in DOMAIN j => j2["crossed"] = (j["crossed"] \/ op = "restore"))
  BY DEF Beside
<1> HIDE DEF j2
<1>3. j2.crossed = (j.crossed \/ op = "restore")
  BY <1>1, <1>2 DEF JobFields
<1>4. /\ j2.op = j.op /\ j2.kind = j.kind /\ j2.id = j.id /\ j2.form = j.form /\ j2.todo = j.todo
      /\ j2.end = j.end /\ j2.alone = FALSE
  BY <1>1, <1>2 DEF JobFields
<1>5. j2 # Idle /\ IsBeside(j, op, j2)
  <2>1. IsBeside(j, op, j2)
    BY <1>4, <1>3 DEF IsBeside
  <2>2. QED
    BY <1>1, <1>4, <2>1 DEF Idle
<1>6. ASSUME NEW n, \A m \in Nat : m <= s => m <= n PROVE IsJob(j2, n)
  BY <1>1, <1>3, <1>4, <1>6, <1>2, <1>5 DEF IsJob
<1>7. QED
  BY <1>5, <1>6 DEF j2

\* Its calls stay in order.
LEMMA ListBeside ==
    ASSUME NEW j, NEW j2, NEW op, IsBeside(j, op, j2), NEW s, NEW R, NEW D, ListOk(j, s, R, D)
    PROVE  ListOk(j2, s, R, D)
BY DEF IsBeside, ListOk, CallOk, RemoveOk, Final, TakeOk, InsertOk, UpdateOk

\* Its calls are then as they were.
LEMMA OpBeside ==
    ASSUME NEW j, NEW j2, NEW op, IsBeside(j, op, j2), NEW R, NEW D, NEW N, NEW Z, NEW SN,
           OpInv(j, R, D, N, Z, SN)
    PROVE  OpInv(j2, R, D, N, Z, SN) /\ ShownBy(j2) = ShownBy(j) /\ Taken(j2) = Taken(j)
BY ListBeside DEF IsBeside, BackupOk, OpInv, ShownBy, Taken

\* The jobs once a request has begun.
Joined(J, w, j, others) ==
    [v \in Workers |-> CASE v = w -> j [] v \in others -> Beside(J[v], j.op) [] OTHER -> Idle]

\* The jobs once a request has begun, worker by worker.
LEMMA JoinedIs ==
    ASSUME NEW J, NEW w \in Workers, NEW j, NEW others, others \subseteq Workers \ {w},
           NEW J2, J2 = Joined(J, w, j, others)
    PROVE  /\ J2 = [v \in Workers |-> J2[v]] /\ J2[w] = j
           /\ \A v \in others : J2[v] = Beside(J[v], j.op)
           /\ \A v \in Workers : v = w \/ v \in others \/ J2[v] = Idle
BY DEF Joined

Starts(w, op, kind, id, todo, j, others) ==
    /\ job' = Joined(job, w, j, others)
    /\ served' = served + 1 /\ served \in Nat /\ UNCHANGED <<rows, nextId, disk>>
    /\ IsJob(j, served + 1) /\ j # Idle /\ Serves(j)
    /\ j.op = op /\ j.kind = kind /\ j.id = id /\ j.form = served + 1 /\ j.todo = todo
    /\ j.alone = (others = {}) /\ j.before = [rows |-> rows, disk |-> disk] /\ j.end = "no"
    /\ j.crossed = \E v \in others : job[v].op = "restore"
    /\ others \subseteq Workers \ {w}
    /\ \A v \in Workers : v \in others <=> Serves(job[v])
\* What begins is new, and what it begins beside is no longer alone.
LEMMA Begins ==
    ASSUME IInv, NEW w \in Workers, NEW op, op # "idle", NEW kind, NEW id, NEW todo, IsList(todo), todo # <<>>,
           Begin(w, op, kind, id, todo), NEW j, j = Begun(w, op, kind, id, todo)
    PROVE  Starts(w, op, kind, id, todo, j, Others(w))
<1> DEFINE a == Others(w) = {} c == \E v \in Others(w) : job[v].op = "restore" n == served + 1
<1>1. served \in Nat /\ n \in Nat
  BY DEF IInv, Inv, DataInv
<1>2. a \in BOOLEAN /\ c \in BOOLEAN /\ (c => ~a)
  OBVIOUS
<1>3. j = NewJob(op, kind, id, todo, n, a, c, rows, disk)
  BY DEF Begun
<1>4. /\ IsJob(j, n) /\ j # Idle /\ Serves(j)
      /\ j.op = op /\ j.kind = kind /\ j.id = id /\ j.form = n /\ j.todo = todo /\ j.alone = a
      /\ j.crossed = c /\ j.before = [rows |-> rows, disk |-> disk] /\ j.end = "no"
  <2> HIDE DEF a, c, n
  <2>1. QED
    BY <1>1, <1>2, <1>3, NewJobIs
<1>5. job' = Joined(job, w, j, Others(w))
  BY <1>3, <1>4, Zenon DEF Begin, Joined, NewJob, Beside, Others
<1>6. served' = served + 1 /\ UNCHANGED <<rows, nextId, disk>> /\ ~Serving(w)
  BY DEF Begin
<1>7. QED
  BY <1>1, <1>4, <1>5, <1>6, ServesJob DEF Starts, Others, IInv, Serving

\* What a request that begins shows is known, and what it has to store is new.
LEMMA BeginKnown ==
    ASSUME NEW R, NEW Z, NEW J, NEW s \in Nat, KnownInv(R, Z, J, s), PairInv(J),
           \A v \in Workers : J[v] # Idle => IsJob(J[v], s),
           NEW w \in Workers, NEW others, others \subseteq Workers \ {w},
           \A v \in Workers : v \in others <=> Serves(J[v]),
           NEW j, IsJob(j, s + 1), j.form = s + 1, ShownBy(j) \subseteq Known(R, Z, J),
           j.alone = (others = {}), j.crossed = \E v \in others : J[v].op = "restore",
           NEW J2, J2 = Joined(J, w, j, others)
    PROVE  KnownInv(R, Z, J2, s + 1) /\ PairInv(J2)
<1>1. /\ J2 = [v \in Workers |-> J2[v]] /\ J2[w] = j
      /\ \A v \in others : J2[v] = Beside(J[v], j.op)
      /\ \A v \in Workers : v = w \/ v \in others \/ J2[v] = Idle
  BY JoinedIs
<1>2. ASSUME NEW v \in others
      PROVE  /\ J[v] # Idle /\ v \in Workers /\ v # w /\ J2[v].form = J[v].form /\ J2[v].todo = J[v].todo
             /\ J2[v].op = J[v].op /\ J2[v].alone = FALSE /\ (J[v].crossed \/ j.op = "restore" => J2[v].crossed)
             /\ J[v].form \in Nat /\ J[v].form <= s /\ Serves(J[v])
  <2>1. J[v] # Idle /\ v \in Workers /\ v # w /\ Serves(J[v])
    BY DEF Serves
  <2>2. IsJob(J[v], s)
    BY <2>1
  <2> DEFINE a == J[v] b == J2[v]
  <2>3. IsJob(a, s) /\ b = Beside(a, j.op)
    BY <2>2, <1>1
  <2> HIDE DEF a, b
  <2>4. IsBeside(a, j.op, b)
    BY <2>3, BesideIs
  <2>5. QED
    BY <2>1, <2>2, <2>4 DEF a, b, IsJob, IsBeside
<1>3. ASSUME NEW v \in others PROVE ShownBy(J2[v]) = ShownBy(J[v]) /\ Taken(J2[v]) = Taken(J[v])
  <2> DEFINE a == J[v] b == J2[v]
  <2>1. b.form = a.form /\ b.todo = a.todo
    BY <1>2
  <2> HIDE DEF a, b
  <2>2. QED
    BY <2>1 DEF a, b, ShownBy, Taken
<1>4. \A v \in Workers : J2[v] # Idle => v = w \/ v \in others
  BY <1>1
<1>5. ASSUME NEW f \in Known(R, Z, J2) PROVE f \in Known(R, Z, J)
  <2>1. CASE f \in NamesOf(R) \/ f \in NamesOf(Z.rows)
    BY <2>1, KnownIs
  <2>2. CASE \E v \in Workers : J2[v] # Idle /\ f \in ShownBy(J2[v])
    <3>1. PICK v \in Workers : J2[v] # Idle /\ f \in ShownBy(J2[v])
      BY <2>2
    <3>2. CASE v = w
      BY <1>1, <3>1, <3>2
    <3>3. CASE v \in others
      BY <1>2, <1>3, <3>1, <3>3, KnownIs
    <3>4. QED
      BY <1>4, <3>1, <3>2, <3>3
  <2>3. QED
    BY <2>1, <2>2, KnownIs
<1>6. \A f \in Known(R, Z, J) : f.n \in Int /\ f.n <= s
  BY DEF KnownInv
<1>7. ASSUME NEW f \in Known(R, Z, J2) PROVE f.n \in Int /\ f.n <= s + 1
  BY <1>5, <1>6
<1>8. ASSUME NEW v \in Workers, J2[v] # Idle PROVE Taken(J2[v]) \intersect Known(R, Z, J2) = {}
  <2>1. CASE v = w
    BY IsTaken, <1>6, <1>1, <1>5, <2>1
  <2>2. CASE v \in others
    BY <1>2, <2>2, <1>3, <1>5 DEF KnownInv
  <2>3. QED
    BY <1>4, <1>8, <2>1, <2>2
<1>9. ASSUME NEW v \in others, NEW u \in others, v # u
       PROVE  J2[v].form # J2[u].form /\ (Serves(J2[v]) /\ Serves(J2[u]) /\ J2[u].op = "restore" => J2[v].crossed)
  <2>1. J[v].form # J[u].form /\ (J[u].op = "restore" => J[v].crossed)
    BY <1>2, <1>9 DEF PairInv
  <2>2. QED
    BY <1>2, <2>1
<1>10. ASSUME NEW v \in others
       PROVE  /\ J2[v].form # j.form /\ ~J2[v].alone /\ ~j.alone
              /\ j.op = "restore" => J2[v].crossed
              /\ J2[v].op = "restore" => j.crossed
  <2>1. J2[v].form # s + 1
    <3>1. J2[v].form \in Nat /\ J2[v].form <= s
      BY <1>2
    <3>2. QED
      BY <3>1
  <2>2. QED
    BY <2>1, <1>2
<1>11. ASSUME NEW u \in Workers, NEW v \in Workers, u # v, J2[u] # Idle, J2[v] # Idle
       PROVE  /\ J2[u].form # J2[v].form
              /\ J2[u].alone => ~Serves(J2[v])
              /\ Serves(J2[u]) /\ Serves(J2[v]) /\ J2[v].op = "restore" => J2[u].crossed
  <2>1. CASE u = w /\ v \in others
    BY <1>1, <1>10, <2>1
  <2>2. CASE v = w /\ u \in others
    BY <1>1, <1>10, <2>2
  <2>3. CASE u \in others /\ v \in others
    BY <1>9, <1>10, <1>11, <2>3
  <2>4. QED
    BY <1>4, <1>11, <2>1, <2>2, <2>3
<1>12. QED
  BY <1>7, <1>8, <1>11 DEF KnownInv, PairInv

\* Every file is as it was.
LEMMA BeginServed ==
    ASSUME NEW R, NEW D, NEW J, ServedInv(R, D, J), NEW s \in Nat,
           \A v \in Workers : J[v] # Idle => IsJob(J[v], s),
           NEW w \in Workers, NEW others, others \subseteq Workers \ {w},
           \A v \in Workers : v \in others <=> Serves(J[v]),
           NEW j, NEW J2, J2 = Joined(J, w, j, others)
    PROVE  ServedInv(R, D, J2)
<1>1. ASSUME NEW v \in Workers, Serves(J[v])
      PROVE  /\ J2[v] # Idle /\ J2[v].form = J[v].form /\ J2[v].todo = J[v].todo
             /\ J2[v].op = J[v].op /\ J2[v].kind = J[v].kind /\ J2[v].id = J[v].id
  <2> DEFINE a == J[v] b == J2[v]
  <2>1. IsJob(a, s) /\ b = Beside(a, j.op)
    BY JoinedIs, <1>1 DEF Serves
  <2> HIDE DEF a, b
  <2>2. IsBeside(a, j.op, b) /\ b # Idle
    BY <2>1, BesideIs
  <2>3. QED
    BY <2>2 DEF a, b, IsBeside
<1>2. ASSUME NEW v \in Workers, Swapping(J[v]) PROVE Swapping(J2[v])
  BY <1>1, <1>2 DEF Swapping, Serves
<1>3. ASSUME NEW v \in Workers, NEW i, NEW k, Mends(J[v], i, k, R[i]) PROVE Mends(J2[v], i, k, R[i])
  BY <1>3, <1>1 DEF Mends, Serves
<1>4. QED
  BY <1>2, <1>3 DEF ServedInv, ThereOrMended

\* A request begins, beside those that are being served.
LEMMA BeginStep ==
    ASSUME IInv, NEW w \in Workers, NEW op, op # "idle", NEW kind, NEW id, NEW todo, IsList(todo), todo # <<>>,
           Begin(w, op, kind, id, todo), UNCHANGED <<zip, snapshot>>,
           ShownBy(Begun(w, op, kind, id, todo)) \subseteq Known(rows, zip, job),
           OpInv(Begun(w, op, kind, id, todo), rows, disk, nextId, zip, snapshot)
    PROVE  IInv'
<1> DEFINE j == Begun(w, op, kind, id, todo) J2 == job' others == Others(w) n == served + 1
<1>1. Starts(w, op, kind, id, todo, j, others)
  <2> DEFINE b == j
  <2> HIDE DEF b
  <2>1. QED
    BY Begins DEF b
<1>2. ShownBy(j) \subseteq Known(rows, zip, job) /\ OpInv(j, rows, disk, nextId, zip, snapshot)
  OBVIOUS
<1> HIDE DEF j, others
<1>3. /\ J2 = Joined(job, w, j, others)
      /\ served' = n /\ served \in Nat /\ UNCHANGED <<rows, nextId, disk, zip, snapshot>>
      /\ IsJob(j, n) /\ j # Idle /\ Serves(j) /\ j.op = op /\ j.form = n
      /\ j.alone = (others = {}) /\ j.crossed = \E v \in others : job[v].op = "restore"
      /\ others \subseteq Workers \ {w}
      /\ \A v \in Workers : v \in others <=> Serves(job[v])
  BY <1>1 DEF Starts
<1>4. /\ DataInv(rows, disk, zip, served) /\ KnownInv(rows, zip, job, served) /\ PairInv(job)
      /\ ServedInv(rows, disk, job) /\ \A v \in Workers : JobInv(job[v], rows, disk, nextId, zip, snapshot, served)
  BY DEF IInv, Inv
<1>5. \A v \in Workers : job[v] # Idle => IsJob(job[v], served) /\ OpInv(job[v], rows, disk, nextId, zip, snapshot)
  BY <1>4 DEF JobInv
<1> HIDE DEF J2
<1>6. J2 = Joined(job, w, j, others)
  BY <1>3
<1>7. KnownInv(rows, zip, J2, served + 1) /\ PairInv(J2)
  BY <1>3, <1>2, <1>4, <1>5, <1>6, BeginKnown
<1>8. /\ J2 = [v \in Workers |-> J2[v]] /\ J2[w] = j
      /\ \A v \in others : J2[v] = Beside(job[v], j.op)
      /\ \A v \in Workers : v = w \/ v \in others \/ J2[v] = Idle
  BY <1>3, JoinedIs
<1>9. ASSUME NEW v \in Workers PROVE JobInv(J2[v], rows, disk, nextId, zip, snapshot, served + 1)
  <2>1. CASE v = w
    BY <1>3, <1>2, <1>8, <2>1 DEF JobInv
  <2>2. CASE v \in others
    <3>1. J2[v] = Beside(job[v], j.op)
      BY <1>8, <2>2
    <3>2. QED
      BY <1>3, <1>5, <2>2, <3>1, BesideIs, OpBeside DEF JobInv, Serves
  <2>3. CASE J2[v] = Idle
    BY <2>3 DEF JobInv
  <2>4. QED
    BY <1>8, <2>1, <2>2, <2>3
<1>10. QED
  BY <1>3, <1>7, <1>4, <1>5, <1>6, BeginServed, <1>8, <1>9 DEF IInv, J2, Inv, DataInv
-----------------------------------------------------------------------------
(* The calls a request is left with.                                       *)

\* A call that writes no file into a row, removes none and inserts nothing.
Light(j, c, K) ==
    /\ CallOk(j, c) /\ c.do \notin {"insert", "remove"}
    /\ Written(c) = {} /\ Handled(c) \subseteq K
AllLight(j, X, K) == IsList(X) /\ \A p \in DOMAIN X : Light(j, X[p], K)

\* Light calls, one by one and one list after the other.
LEMMA LightNone == \A j, K : AllLight(j, <<>>, K)
BY ListNone DEF AllLight

\* Calls that write no file of theirs into a row: one,
LEMMA LightOne ==
    ASSUME NEW j, NEW c, NEW K, Light(j, c, K)
    PROVE  AllLight(j, <<c>>, K)
BY ListOne DEF AllLight

\* one list of them after the other,
LEMMA LightConcat ==
    ASSUME NEW j, NEW X, NEW Y, NEW K, AllLight(j, X, K), AllLight(j, Y, K)
    PROVE  AllLight(j, X \o Y, K)
<1> DEFINE u == X \o Y
<1> HIDE DEF u
<1>1. QED
  BY ListConcat DEF u, AllLight

\* those that name no file,
LEMMA LightPlain ==
    ASSUME NEW j, NEW X, NEW K, AllPlain(j, X, K)
    PROVE  AllLight(j, X, K)
<1>1. ASSUME NEW p \in DOMAIN X PROVE Light(j, X[p], K)
  <2>1. Plain(j, X[p], K)
    BY DEF AllPlain
  <2>2. QED
    BY <2>1 DEF Plain, Light, Written, Handled
<1>2. QED
  BY <1>1 DEF AllPlain, AllLight

\* Storing what was chosen, or refusing it.
OnlyStores(X) == \A p \in DOMAIN X : X[p].do \in {"store", "refuse"}
Storing(X, file, chosen) ==
    /\ \A j, K : AllLight(j, X, K)
    /\ OnlyStores(X)
    /\ chosen = "file" => \E p \in DOMAIN X : X[p].do = "store" /\ X[p].file = file
\* and the upload of a file of the request itself.
LEMMA LightStore ==
    ASSUME NEW tree \in TreeNames, NEW slot \in 1..3, NEW chosen, served \in Nat
    PROVE  Storing(Store(tree, slot, chosen), Fresh(tree, slot), chosen)
<1> DEFINE a == [do |-> "store", file |-> Fresh(tree, slot)]
           b == [do |-> "refuse"]
           X == Store(tree, slot, chosen)
<1>1. a.do = "store" /\ a.file = Fresh(tree, slot) /\ b.do = "refuse"
  OBVIOUS
<1>2. /\ chosen = "file" => X = <<a>>
      /\ chosen = "wrong type" => X = <<b>>
      /\ chosen \notin {"file", "wrong type"} => X = <<>>
  BY DEF Store
<1>3. Fresh(tree, slot) \in Files
  BY DEF Fresh, Files, Logo
<1> HIDE DEF a, b, X
<1>4. ASSUME NEW j, NEW K PROVE AllLight(j, X, K)
  BY <1>1, <1>3, LightOne, LightNone, <1>2 DEF CallOk, Dos, Light, Written, Handled
<1>5. DOMAIN <<a>> = {1} /\ <<a>>[1] = a /\ DOMAIN <<b>> = {1} /\ <<b>>[1] = b /\ DOMAIN <<>> = {}
  BY ListOne, ListNone
<1>6. QED
  BY <1>4, <1>1, <1>2, <1>5 DEF X, Storing, OnlyStores

\* What else a list holds: one call that writes into a row, and removals.
WriterOk(j, s, m, R, D, K) ==
    /\ s[m].do \in {"insert", "update"} /\ CallOk(j, s[m]) /\ Shows(s[m], j.form) \subseteq K
    /\ \A f \in Takes(s[m], j.form) : \E q \in DOMAIN s : q < m /\ s[q].do = "store" /\ s[q].file = f
    /\ s[m].do = "insert" => InsertOk(j, s, m, D)
    /\ s[m].do = "update" => UpdateOk(j, s, m, R)
RestOk(j, s, m, R, K) ==
    \A p \in DOMAIN s : p # m =>
        \/ Light(j, s[p], K)
        \/ s[p].do = "remove" /\ CallOk(j, s[p]) /\ RemoveOk(j, s, p, R) /\ s[p].file \in K

\* A list of such calls around one that writes is in order.
LEMMA ListIsOk ==
    ASSUME NEW j, NEW s, IsList(s), j.todo = s, NEW R, NEW D, NEW K, NEW m, RestOk(j, s, m, R, K),
           m \in DOMAIN s => WriterOk(j, s, m, R, D, K),
           j.kind \in RemovesFirst =>
              \A p \in DOMAIN s : p < Len(s) => s[p].do \in {"store", "remove", "refuse"}
    PROVE  ListOk(j, s, R, D) /\ ShownBy(j) \subseteq K
<1>1. ASSUME NEW p \in DOMAIN s, p # m
      PROVE  /\ CallOk(j, s[p]) /\ Takes(s[p], j.form) = {} /\ Shows(s[p], j.form) \subseteq K
             /\ s[p].do # "insert" /\ (s[p].do = "remove" => RemoveOk(j, s, p, R))
             /\ s[p].do = "update" => UpdateOk(j, s, p, R)
  BY <1>1 DEF Light, Takes, Shows, UpdateOk, Written, NamesIn, Handled, RestOk
<1>2. QED
  BY <1>1, IsShown DEF ListOk, TakeOk, WriterOk

\* Light calls only.
LEMMA LightIsOk ==
    ASSUME NEW j, NEW s, j.todo = s, NEW R, NEW D, NEW K, AllLight(j, s, K), j.kind \notin RemovesFirst
    PROVE  ListOk(j, s, R, D) /\ ShownBy(j) \subseteq K
<1>1. IsList(s)
  BY DEF AllLight
<1>2. 0 \notin DOMAIN s
  BY <1>1, ListIs
<1>3. RestOk(j, s, 0, R, K)
  BY DEF RestOk, AllLight
<1>4. QED
  BY <1>1, <1>2, <1>3, ListIsOk

\* A list of calls before one that writes, that one, and those after it.
Middle(X, c, Y, s, m) ==
    /\ IsList(s) /\ s # <<>> /\ m \in DOMAIN s /\ m \in Nat /\ s[m] = c /\ Len(s) = m + Len(Y)
    /\ \A p \in DOMAIN X : p \in DOMAIN s /\ s[p] = X[p] /\ p < m
    /\ \A p \in DOMAIN s : p # m => \/ p \in DOMAIN X /\ s[p] = X[p] /\ p < m
                                    \/ p > m /\ \E q \in DOMAIN Y : s[p] = Y[q] /\ p = m + q
\* The place of one call between two lists.
LEMMA ListMiddle ==
    ASSUME NEW X, IsList(X), NEW c, NEW Y, IsList(Y), NEW s, s = (X \o <<c>>) \o Y,
           NEW m, m = Len(X) + 1
    PROVE  Middle(X, c, Y, s, m)
<1> DEFINE C == <<c>> Z == X \o C n == Len(X)
<1>1. IsList(C) /\ Len(C) = 1 /\ DOMAIN C = {1} /\ C[1] = c
  BY ListOne
<1> HIDE DEF C
<1>2. /\ IsList(Z) /\ Len(Z) = n + 1
      /\ \A p \in DOMAIN X : p \in DOMAIN Z /\ Z[p] = X[p]
      /\ \A p \in DOMAIN C : n + p \in DOMAIN Z /\ Z[n + p] = C[p]
      /\ \A p \in DOMAIN Z : p \in DOMAIN X \/ \E q \in DOMAIN C : p = n + q
  <2>1. IsList(Z) /\ Len(Z) = n + Len(C)
    BY ONLY <1>1, IsList(X), ListConcat
  <2>2. \A p \in DOMAIN X : p \in DOMAIN Z /\ Z[p] = X[p]
    BY ONLY <1>1, IsList(X), ListConcat
  <2>3. \A p \in DOMAIN C : n + p \in DOMAIN Z /\ Z[n + p] = C[p]
    BY ONLY <1>1, IsList(X), ListConcat
  <2>4. \A p \in DOMAIN Z : p \in DOMAIN X \/ \E q \in DOMAIN C : p = n + q
    BY ONLY <1>1, IsList(X), ListConcat
  <2>5. QED
    BY <1>1, <2>1, <2>2, <2>3, <2>4
<1>3. n \in Nat /\ DOMAIN X = 1..n
  BY ListIs
<1>4. s = Z \o Y
  BY DEF C
<1> HIDE DEF Z
<1>5. /\ IsList(s) /\ Len(s) = Len(Z) + Len(Y)
      /\ \A p \in DOMAIN Z : p \in DOMAIN s /\ s[p] = Z[p]
      /\ \A p \in DOMAIN s : p \in DOMAIN Z \/ \E q \in DOMAIN Y : p = Len(Z) + q
      /\ \A p \in DOMAIN Y : s[Len(Z) + p] = Y[p]
  <2>1. IsList(Z) /\ IsList(Y)
    BY <1>2
  <2>2. IsList(s) /\ Len(s) = Len(Z) + Len(Y)
    BY ONLY <1>4, <2>1, ListConcat
  <2>3. \A p \in DOMAIN Z : p \in DOMAIN s /\ s[p] = Z[p]
    BY ONLY <1>4, <2>1, ListConcat
  <2>4. \A p \in DOMAIN s : p \in DOMAIN Z \/ \E q \in DOMAIN Y : p = Len(Z) + q
    BY ONLY <1>4, <2>1, ListConcat
  <2>5. \A p \in DOMAIN Y : s[Len(Z) + p] = Y[p]
    BY ONLY <1>4, <2>1, ListConcat
  <2>6. QED
    BY <2>2, <2>3, <2>4, <2>5
<1> DEFINE k == Len(Y)
<1>6. /\ m = n + 1 /\ Len(s) = m + k /\ DOMAIN Y = 1..k /\ k \in Nat
      /\ \A p \in DOMAIN s : p \in DOMAIN Z \/ \E q \in DOMAIN Y : p = m + q
      /\ \A q \in DOMAIN Y : s[m + q] = Y[q]
  BY <1>2, <1>5, ListIs
<1> HIDE DEF n, k
<1>7. QED
  BY <1>3, <1>5, <1>6, <1>1, <1>2, ListNone DEF k, Middle

\* An empty list before or after changes nothing.
LEMMA ListEnds ==
    ASSUME NEW s, IsList(s)
    PROVE  <<>> \o s = s /\ s \o <<>> = s
<1>1. PICK S : s \in Seq(S)
  BY DEF IsList
<1>2. QED
  BY <1>1, ConcatEmptySeq

\* A row is inserted once its files are stored, and its lists are filled.
StoresAll(X, files, n) ==
    \A f \in NamesIn(files) : f.n = n /\ \E p \in DOMAIN X : X[p].do = "store" /\ X[p].file = f
FillsLists(Y) == \A p \in DOMAIN Y : Y[p].do \in {"replace", "copy"}
\* Uploads, the INSERT that names them, and the rows of lists are in order.
LEMMA InsertList ==
    ASSUME NEW j, NEW R, NEW D, NEW K, NEW X, NEW c, NEW Y, NEW s, s = (X \o <<c>>) \o Y, j.todo = s,
           AllLight(j, X, K), AllLight(j, Y, K), c.do = "insert", IsRow(c.row), c.row.kind = j.kind,
           j.kind # "company",
           StoresAll(X, c.row.files, j.form), FillsLists(Y),
           j.kind \in RemovesFirst => Y = <<>> /\ OnlyStores(X)
    PROVE  IsList(s) /\ s # <<>> /\ ListOk(j, s, R, D) /\ ShownBy(j) \subseteq K
<1> DEFINE m == Len(X) + 1
<1>1. m = Len(X) + 1
  OBVIOUS
<1> HIDE DEF m
<1>2. IsList(X) /\ IsList(Y)
  BY DEF AllLight
<1>3. /\ IsList(s) /\ s # <<>> /\ m \in DOMAIN s /\ s[m] = c /\ Len(s) = m + Len(Y)
      /\ \A p \in DOMAIN X : p \in DOMAIN s /\ s[p] = X[p] /\ p < m
      /\ \A p \in DOMAIN s : p # m => \/ p \in DOMAIN X /\ s[p] = X[p] /\ p < m
                                      \/ p > m /\ \E q \in DOMAIN Y : s[p] = Y[q] /\ p = m + q
  <2>1. Middle(X, c, Y, s, m)
    BY <1>1, <1>2, ListMiddle
  <2>2. QED
    BY <2>1 DEF Middle
<1>4. m \in Nat
  BY <1>1, <1>2, ListIs
<1>5. RestOk(j, s, m, R, K)
  BY <1>3 DEF RestOk, AllLight
<1>6. \A f \in NamesIn(c.row.files) : f.n = j.form /\ \E p \in DOMAIN X : X[p].do = "store" /\ X[p].file = f
  BY DEF StoresAll
<1>7. Shows(c, j.form) = {} /\ Takes(c, j.form) \subseteq NamesIn(c.row.files)
  BY <1>6 DEF Shows, Takes, Written, Handled
<1>8. WriterOk(j, s, m, R, D, K)
  BY <1>3, <1>6, <1>7, <1>4 DEF WriterOk, CallOk, Dos, FillsLists, InsertOk
<1>9. ASSUME j.kind \in RemovesFirst, NEW p \in DOMAIN s, p < Len(s)
      PROVE  s[p].do \in {"store", "remove", "refuse"}
  BY <1>3, <1>4, <1>9, ListNone DEF OnlyStores
<1>10. QED
  BY <1>3, <1>5, <1>8, <1>9, ListIsOk

\* A row is updated once a file is stored, and others are looked at.
LEMMA UpdateList ==
    ASSUME NEW j, NEW R, NEW D, NEW K, NEW X, NEW c, NEW Y, NEW s, s = (X \o <<c>>) \o Y, j.todo = s,
           AllLight(j, X, K), AllLight(j, Y, K), c.do = "update", c.id = j.id, j.kind \notin RemovesFirst,
           DOMAIN c.files = 1..Columns(j.kind),
           \A k \in DOMAIN c.files : c.files[k] \in {NoFile, Keep} \/ Fits(c.files[k], j.kind, k),
           StoresAll(X, c.files, j.form)
    PROVE  IsList(s) /\ s # <<>> /\ ListOk(j, s, R, D) /\ ShownBy(j) \subseteq K
<1> DEFINE m == Len(X) + 1
<1>1. m = Len(X) + 1
  OBVIOUS
<1> HIDE DEF m
<1>2. /\ IsList(s) /\ s # <<>> /\ m \in DOMAIN s /\ s[m] = c
      /\ \A p \in DOMAIN X : p \in DOMAIN s /\ s[p] = X[p] /\ p < m
      /\ \A p \in DOMAIN s : p # m => \/ p \in DOMAIN X /\ s[p] = X[p] /\ p < m
                                      \/ p > m /\ \E q \in DOMAIN Y : s[p] = Y[q] /\ p = m + q
  <2>1. Middle(X, c, Y, s, m)
    BY <1>1, ListMiddle DEF AllLight
  <2>2. QED
    BY <2>1 DEF Middle
<1>3. RestOk(j, s, m, R, K)
  BY <1>2 DEF RestOk, AllLight
<1>4. \A f \in NamesIn(c.files) : f.n = j.form /\ \E p \in DOMAIN X : X[p].do = "store" /\ X[p].file = f
  BY DEF StoresAll
<1>5. CallOk(j, c)
  BY <1>4 DEF CallOk, Dos
<1>6. UpdateOk(j, s, m, R)
  BY <1>2, <1>4 DEF UpdateOk, NamesIn
<1>7. WriterOk(j, s, m, R, D, K)
  BY <1>2, <1>5, <1>4, <1>6 DEF WriterOk, Shows, Takes, Written, Handled
<1>8. QED
  BY <1>2, <1>3, <1>7, ListIsOk
-----------------------------------------------------------------------------
(* The requests on the catalogue.                                          *)

\* What a request knows of itself.
Opened(j, op, kind, id, todo) ==
    /\ j.op = op /\ j.kind = kind /\ j.id = id /\ j.form = served + 1 /\ j.todo = todo
    /\ j.alone => \A v \in Workers : ~Serves(job[v])
\* A request as it begins.
LEMMA BegunIs ==
    ASSUME IInv, NEW w \in Workers, NEW op, NEW kind, NEW id, NEW todo, Begin(w, op, kind, id, todo),
           NEW j, j = Begun(w, op, kind, id, todo)
    PROVE  Opened(j, op, kind, id, todo)
BY ServesJob DEF Begun, NewJob, IInv, Serving, Begin, Others, Opened

\* A request on records begins, with calls that are in order.
LEMMA RequestStep ==
    ASSUME IInv, NEW w \in Workers, NEW op \in Ordinary, NEW kind, NEW id, NEW todo,
           IsList(todo), todo # <<>>, Begin(w, op, kind, id, todo), UNCHANGED <<zip, snapshot>>,
           NEW j, j = Begun(w, op, kind, id, todo),
           ListOk(j, todo, rows, disk), ShownBy(j) \subseteq Known(rows, zip, job)
    PROVE  IInv'
<1>1. op # "idle"
  BY DEF Ordinary
<1>2. j.op = op /\ j.todo = todo
  BY BegunIs DEF Opened
<1>3. OpInv(j, rows, disk, nextId, zip, snapshot)
  BY <1>2 DEF OpInv
<1>4. QED
  BY <1>1, <1>3, BeginStep

\* What there is when a request begins.
LEMMA AtFirst ==
    ASSUME IInv
    PROVE  /\ served \in Nat /\ IsTable(rows) /\ disk \subseteq Files
           /\ NamesOf(rows) \subseteq Known(rows, zip, job)
           /\ \A i \in DOMAIN rows : IsRow(rows[i])
BY KnownIs DEF IInv, Inv, DataInv, IsTable

\* A row as a form fills it.
FilesFit(files, kind) ==
    /\ DOMAIN files = 1..Columns(kind)
    /\ \A k \in DOMAIN files : files[k] = NoFile \/ Fits(files[k], kind, k)
RowOf(row, kind, files) == IsRow(row) /\ row.kind = kind /\ row.files = files
Stands(kind, up, side, text) == kind \in RemovesFirst => up = None /\ side = None /\ text = ""
\* A row as a form fills it.
LEMMA RowIs ==
    ASSUME NEW kind, NEW up, NEW side, NEW files, NEW lists, NEW text,
           FilesFit(files, kind), Stands(kind, up, side, text)
    PROVE  RowOf(Row(kind, up, side, files, lists, text), kind, files)
<1> DEFINE row == Row(kind, up, side, files, lists, text)
<1> HIDE DEF row
<1>1. QED
  BY DEF RowOf, row, IsRow, FilesFit, Stands, Row

\* A row without files is inserted, and its lists are filled.
LEMMA BareInsertStep ==
    ASSUME IInv, NEW w \in Workers, NEW op \in Ordinary, NEW kind, Columns(kind) = 0, kind \notin RemovesFirst,
           kind # "company", NEW row, IsRow(row), row.kind = kind,
           NEW Y, NEW todo, todo = <<[do |-> "insert", row |-> row]>> \o Y,
           \A j : j.kind = kind => AllLight(j, Y, Known(rows, zip, job)),
           FillsLists(Y),
           Begin(w, op, kind, None, todo), UNCHANGED <<zip, snapshot>>
    PROVE  IInv'
<1> DEFINE j == Begun(w, op, kind, None, todo)
           c == [do |-> "insert", row |-> row]
           K == Known(rows, zip, job)
           X == <<>>
<1>1. Opened(j, op, kind, None, todo)
  BY BegunIs
<1>2. c.do = "insert" /\ c.row = row /\ j = Begun(w, op, kind, None, todo)
  OBVIOUS
<1>3. NamesIn(row.files) = {}
  <2>1. 1..0 = {}
    OBVIOUS
  <2>2. DOMAIN row.files = {}
    BY <2>1, Zenon DEF IsRow
  <2>3. QED
    BY <2>2 DEF NamesIn
<1>4. todo = (X \o <<c>>) \o Y
  BY ListOne, ListEnds
<1> HIDE DEF j, c
<1>5. j.kind = kind /\ j.todo = todo
  BY <1>1 DEF Opened
<1>6. AllLight(j, Y, K) /\ AllLight(j, X, K)
  BY <1>5, LightNone
<1> HIDE DEF K, X
<1>7. IsList(todo) /\ todo # <<>> /\ ListOk(j, todo, rows, disk) /\ ShownBy(j) \subseteq K
  BY <1>4, <1>5, <1>6, <1>2, <1>3, InsertList DEF StoresAll
<1>8. QED
  BY <1>2, <1>7, RequestStep DEF K

\* An UPDATE as a form fills it.
LEMMA EditIs ==
    ASSUME NEW id, NEW up, NEW files, NEW text
    PROVE  \E c : /\ Edit(id, up, files, text) = <<c>> /\ c.do = "update" /\ c.id = id
                  /\ c.files = files /\ c.up = up /\ c.text = text
<1> DEFINE c == [do |-> "update", id |-> id, up |-> up, files |-> files, text |-> text, head |-> TRUE]
<1>1. Edit(id, up, files, text) = <<c>> /\ c.do = "update" /\ c.id = id /\ c.files = files /\ c.up = up /\ c.text = text
  BY DEF Edit
<1>2. QED
  BY <1>1
\* The one call of UpdateRow.
LEMMA UpdatingIs ==
    ASSUME NEW id, NEW files, NEW head, NEW text
    PROVE  \E c : /\ UpdateRow(id, files, head, text) = <<c>> /\ c.do = "update" /\ c.id = id
                  /\ c.files = files /\ c.up = Same /\ c.text = text
<1> DEFINE c == [do |-> "update", id |-> id, up |-> Same, files |-> files, text |-> text, head |-> head]
<1>1. /\ UpdateRow(id, files, head, text) = <<c>> /\ c.do = "update" /\ c.id = id /\ c.files = files
      /\ c.up = Same /\ c.text = text
  BY DEF UpdateRow
<1>2. QED
  BY <1>1

\* Light calls, which begin at once.
LEMMA LightStep ==
    ASSUME IInv, NEW w \in Workers, NEW op \in Ordinary, NEW kind, kind \notin RemovesFirst, NEW id,
           NEW todo, todo # <<>>, Begin(w, op, kind, id, todo), UNCHANGED <<zip, snapshot>>,
           NEW j, j = Begun(w, op, kind, id, todo), AllLight(j, todo, Known(rows, zip, job))
    PROVE  IInv'
<1>1. j.kind = kind /\ j.todo = todo
  BY BegunIs DEF Opened
<1>2. ListOk(j, todo, rows, disk) /\ ShownBy(j) \subseteq Known(rows, zip, job)
  BY <1>1, LightIsOk
<1>3. IsList(todo)
  BY DEF AllLight
<1>4. QED
  BY <1>2, <1>3, RequestStep

\* Which tables name no files, and who does not remove first.
LEMMA BareKinds ==
    /\ \A kind \in {"category", "product", "folder", "supplier", "transporter", "booking", "login"}
                   \union DropLists : Columns(kind) = 0 /\ kind \notin RemovesFirst /\ kind # "company"
    /\ "design" \notin RemovesFirst /\ "company" \notin RemovesFirst /\ "design" # "company"
    /\ {"create", "update", "delete", "duplicate"} \subseteq Ordinary
    /\ {"category", "product", "folder", "design"} \subseteq CatalogueKinds
<1>1. \A kind \in {"category", "product", "folder", "supplier", "transporter", "booking", "login"}
                  \union DropLists : kind \notin {"design", "export invoice", "company", "permit", "purchase invoice"}
  BY DEF DropLists, MiscCurrency, MiscNatureOfContract, MiscPortOfLoading, MiscContainerType,
         MiscHsnCode, MiscCountry, MiscUnit
<1>2. QED
  BY <1>1, ColumnsAre DEF RemovesFirst, Ordinary, CatalogueKinds

\* A row of a table that names no files.
LEMMA BareRow ==
    ASSUME NEW kind, Columns(kind) = 0, kind \notin RemovesFirst, NEW up, NEW side, NEW lists, NEW text
    PROVE  RowOf(Row(kind, up, side, <<>>, lists, text), kind, <<>>)
<1> DEFINE files == <<>>
<1>1. DOMAIN files = {} /\ 1..0 = {}
  BY ListNone
<1> HIDE DEF files
<1>2. QED
  BY <1>1, RowIs DEF files, FilesFit, Stands

\* A row is all there is to insert.
LEMMA BareCreateStep ==
    ASSUME IInv, NEW w \in Workers, NEW op \in Ordinary, NEW kind, Columns(kind) = 0, kind \notin RemovesFirst,
           kind # "company", NEW row, IsRow(row), row.kind = kind,
           Begin(w, op, kind, None, <<[do |-> "insert", row |-> row]>>), UNCHANGED <<zip, snapshot>>
    PROVE  IInv'
<1> DEFINE c == [do |-> "insert", row |-> row]
           Y == <<>>
           todo == <<c>> \o Y
<1>1. Begin(w, op, kind, None, todo) /\ todo = <<[do |-> "insert", row |-> row]>> \o Y
  BY ListOne, ListEnds
<1> HIDE DEF c, todo
<1>2. FillsLists(Y) /\ \A j : j.kind = kind => AllLight(j, Y, Known(rows, zip, job))
  BY ListNone, LightNone DEF FillsLists
<1> HIDE DEF Y
<1>3. QED
  BY <1>1, <1>2, BareInsertStep

\* A category is created.
LEMMA CreateCategoryStep ==
    ASSUME IInv, NEW w \in Workers, CreateCategory(w), UNCHANGED <<zip, snapshot>>
    PROVE  IInv'
<1>1. PICK parent \in Categories \union {None} :
         Begin(w, "create", "category", None,
               <<[do |-> "insert", row |-> Row("category", parent, None, <<>>, 0, "")]>>)
  BY DEF CreateCategory
<1> DEFINE row == Row("category", parent, None, <<>>, 0, "")
<1>2. Begin(w, "create", "category", None, <<[do |-> "insert", row |-> row]>>)
  BY <1>1
<1>3. row = Row("category", parent, None, <<>>, 0, "")
  OBVIOUS
<1> HIDE DEF row
<1>4. IsRow(row) /\ row.kind = "category"
  <2>1. RowOf(Row("category", parent, None, <<>>, 0, ""), "category", <<>>)
    BY BareKinds, BareRow
  <2>2. QED
    BY <1>3, <2>1 DEF RowOf
<1>5. QED
  BY <1>2, <1>4, BareKinds, BareCreateStep

\* A folder is created.
LEMMA CreateFolderStep ==
    ASSUME IInv, NEW w \in Workers, CreateFolder(w), UNCHANGED <<zip, snapshot>>
    PROVE  IInv'
<1>1. PICK p \in Products : \E parent \in FoldersOf(p) \union {None} :
         Begin(w, "create", "folder", None,
               <<[do |-> "insert", row |-> Row("folder", p, parent, <<>>, 0, "")]>>)
  BY DEF CreateFolder
<1>2. PICK parent \in FoldersOf(p) \union {None} :
         Begin(w, "create", "folder", None,
               <<[do |-> "insert", row |-> Row("folder", p, parent, <<>>, 0, "")]>>)
  BY <1>1
<1> DEFINE row == Row("folder", p, parent, <<>>, 0, "")
<1>3. Begin(w, "create", "folder", None, <<[do |-> "insert", row |-> row]>>)
  BY <1>2
<1>4. row = Row("folder", p, parent, <<>>, 0, "")
  OBVIOUS
<1> HIDE DEF row
<1>5. IsRow(row) /\ row.kind = "folder"
  <2>1. RowOf(Row("folder", p, parent, <<>>, 0, ""), "folder", <<>>)
    BY BareKinds, BareRow
  <2>2. QED
    BY <1>4, <2>1 DEF RowOf
<1>6. QED
  BY <1>3, <1>5, BareKinds, BareCreateStep

\* Rows of a list replaced.
LEMMA PalletsAre ==
    ASSUME NEW id, NEW with, NEW level, NEW K
    PROVE  /\ FillsLists(Pallets(id, with, level))
           /\ \A j : j.kind \notin RemovesFirst => AllLight(j, Pallets(id, with, level), K)
<1> DEFINE c == [do |-> "replace", id |-> id, part |-> 2, with |-> with, text |-> level]
<1> HIDE DEF c
<1>1. QED
  BY ListOne, PlainPallets, LightPlain DEF FillsLists, Pallets

\* A product is created, with its packing types.
LEMMA CreateProductStep ==
    ASSUME IInv, NEW w \in Workers, CreateProduct(w), UNCHANGED <<zip, snapshot>>
    PROVE  IInv'
<1>1. PICK c \in Categories \union {None} : \E level \in Levels \union {"none"} :
         Begin(w, "create", "product", None,
               <<[do |-> "insert", row |-> Row("product", c, None, <<>>, 1, "")]>>
                   \o IF level = "none" THEN <<>> ELSE Pallets(None, served + 1, level))
  BY DEF CreateProduct
<1>2. PICK level \in Levels \union {"none"} :
         Begin(w, "create", "product", None,
               <<[do |-> "insert", row |-> Row("product", c, None, <<>>, 1, "")]>>
                   \o IF level = "none" THEN <<>> ELSE Pallets(None, served + 1, level))
  BY <1>1
<1> DEFINE row == Row("product", c, None, <<>>, 1, "")
           Y == IF level = "none" THEN <<>> ELSE Pallets(None, served + 1, level)
           todo == <<[do |-> "insert", row |-> row]>> \o Y
<1>3. Begin(w, "create", "product", None, todo)
  BY <1>2
<1>4. row = Row("product", c, None, <<>>, 1, "")
  OBVIOUS
<1>5. FillsLists(Y) /\ \A j : j.kind \notin RemovesFirst => AllLight(j, Y, Known(rows, zip, job))
  BY PalletsAre, ListNone, LightNone DEF FillsLists
<1>6. todo = <<[do |-> "insert", row |-> row]>> \o Y
  OBVIOUS
<1> HIDE DEF row, Y, todo
<1>7. IsRow(row) /\ row.kind = "product"
  <2>1. RowOf(Row("product", c, None, <<>>, 1, ""), "product", <<>>)
    BY BareKinds, BareRow
  <2>2. QED
    BY <1>4, <2>1 DEF RowOf
<1>8. QED
  BY <1>3, <1>7, <1>5, <1>6, BareKinds, BareInsertStep

\* Two lists of one are a list of two.
LEMMA PairIs ==
    ASSUME NEW a, NEW b
    PROVE  <<a>> \o <<b>> = <<a, b>>
<1> DEFINE A == <<a>> B == <<b>> C == <<a, b>> u == A \o B
<1>1. /\ IsList(A) /\ Len(A) = 1 /\ DOMAIN A = {1} /\ A[1] = a
      /\ IsList(B) /\ Len(B) = 1 /\ DOMAIN B = {1} /\ B[1] = b
      /\ IsList(C) /\ Len(C) = 2 /\ DOMAIN C = {1, 2} /\ C[1] = a /\ C[2] = b
  BY ListOne, ListTwo
<1> HIDE DEF A, B, C
<1>2. IsList(u) /\ Len(u) = Len(A) + Len(B)
  BY <1>1, ListConcat
<1>3. \A p \in DOMAIN A : u[p] = A[p]
  BY <1>1, ListConcat
<1>4. \A p \in DOMAIN B : u[Len(A) + p] = B[p]
  BY <1>1, ListConcat
<1> HIDE DEF u
<1>5. C = u
  BY <1>1, <1>2, <1>3, <1>4, ListSame
<1>6. QED
  BY <1>5 DEF u, A, B, C

\* A product is copied, without its designs.
LEMMA DuplicateProductStep ==
    ASSUME IInv, NEW w \in Workers, DuplicateProduct(w), UNCHANGED <<zip, snapshot>>
    PROVE  IInv'
<1>1. PICK p \in Products :
         Begin(w, "duplicate", "product", None,
               <<[do |-> "insert", row |-> [Row("product", rows[p].up, None, <<>>, 1, "")
                                               EXCEPT !.parts[1] = rows[p].parts[1]]],
                 [do |-> "copy", product |-> p]>>)
  BY DEF DuplicateProduct
<1> DEFINE row0 == Row("product", rows[p].up, None, <<>>, 1, "")
           row == [row0 EXCEPT !.parts[1] = rows[p].parts[1]]
           c == [do |-> "insert", row |-> row]
           d == [do |-> "copy", product |-> p]
           Y == <<d>>
           todo == <<[do |-> "insert", row |-> row]>> \o Y
<1>2. row0 = Row("product", rows[p].up, None, <<>>, 1, "")
  OBVIOUS
<1>3. IsRow(row0) /\ row0.kind = "product"
  <2> HIDE DEF row0
  <2>1. RowOf(Row("product", rows[p].up, None, <<>>, 1, ""), "product", <<>>)
    BY BareKinds, BareRow
  <2>2. QED
    BY <1>2, <2>1 DEF RowOf
<1>4. row = [x \in DOMAIN row0 |-> row[x]] /\ \A x \in DOMAIN row0 \ {"parts", "text"} : row[x] = row0[x]
  <2> HIDE DEF row0
  <2>1. QED
    BY <1>3 DEF IsRow
<1> HIDE DEF row0, row
<1>5. todo = <<c, d>>
  <2> HIDE DEF c, d
  <2>1. QED
    BY PairIs DEF c
<1>6. Begin(w, "duplicate", "product", None, todo)
  BY <1>1, <1>5 DEF row, row0
<1>7. d.do = "copy"
  OBVIOUS
<1> HIDE DEF d
<1>8. FillsLists(Y)
  BY <1>7, ListOne DEF FillsLists
<1>9. ASSUME NEW j, j.kind = "product" PROVE AllLight(j, Y, Known(rows, zip, job))
  BY <1>7, <1>9, BareKinds, PlainOne, LightPlain DEF CallOk, Dos, Plain
<1>10. todo = <<[do |-> "insert", row |-> row]>> \o Y
  OBVIOUS
<1> HIDE DEF Y, todo
<1>11. QED
  BY <1>3, <1>4, BareKinds, RowStays, <1>6, <1>8, <1>9, <1>10, BareInsertStep

\* A row is updated, but for its files.
LEMMA LightUpdate ==
    ASSUME NEW j, j.kind \notin RemovesFirst, NEW K, NEW c, c.do = "update", c.id = j.id,
           DOMAIN c.files = 1..Columns(j.kind), \A k \in DOMAIN c.files : c.files[k] = Keep
    PROVE  AllLight(j, <<c>>, K)
<1>1. NamesIn(c.files) = {}
  BY DEF NamesIn
<1>2. CallOk(j, c)
  BY <1>1 DEF CallOk, Dos
<1>3. Light(j, c, K)
  BY <1>1, <1>2 DEF Light, Written, Handled
<1>4. QED
  BY <1>3, LightOne

\* An UPDATE of a row without files is such a call.
LEMMA LightEdit ==
    ASSUME NEW j, j.kind \notin RemovesFirst, Columns(j.kind) = 0, NEW K, NEW id, id = j.id, NEW up, NEW text
    PROVE  /\ AllLight(j, Edit(id, up, <<>>, text), K)
           /\ \A head : AllLight(j, UpdateRow(id, <<>>, head, text), K)
<1> DEFINE files == <<>>
<1>1. 1..0 = {} /\ DOMAIN files = {}
  BY ListNone
<1> HIDE DEF files
<1>2. DOMAIN files = 1..Columns(j.kind)
  BY <1>1
<1>3. AllLight(j, Edit(id, up, files, text), K)
  <2>1. PICK c : Edit(id, up, files, text) = <<c>> /\ c.do = "update" /\ c.id = id /\ c.files = files
    BY EditIs
  <2>2. QED
    BY <2>1, <1>1, <1>2, LightUpdate
<1>4. ASSUME NEW head PROVE AllLight(j, UpdateRow(id, files, head, text), K)
  <2>1. PICK c : UpdateRow(id, files, head, text) = <<c>> /\ c.do = "update" /\ c.id = id /\ c.files = files
    BY UpdatingIs
  <2>2. AllLight(j, <<c>>, K)
    BY <1>1, <1>2, <2>1, LightUpdate
  <2>3. QED
    BY <2>1, <2>2
<1>5. QED
  BY <1>3, <1>4 DEF files

\* A list with something in it.
LEMMA NotEmpty ==
    ASSUME NEW s, IsList(s), NEW t, IsList(t), s # <<>> \/ t # <<>>
    PROVE  s \o t # <<>>
<1> DEFINE u == s \o t
<1> HIDE DEF u
<1> DEFINE m == Len(s) n == Len(t)
<1> HIDE DEF m, n
<1>1. QED
  BY ListConcat, ListIs DEF u

\* A category or a folder is renamed.
LEMMA RenameStep ==
    ASSUME IInv, NEW w \in Workers, Rename(w), UNCHANGED <<zip, snapshot>>
    PROVE  IInv'
<1>1. PICK i \in Categories \union Folders :
         Begin(w, "update", rows[i].kind, i, Edit(i, Same, <<>>, AsIs))
  BY DEF Rename
<1> DEFINE kind == rows[i].kind todo == Edit(i, Same, <<>>, AsIs)
           j == Begun(w, "update", kind, i, todo) K == Known(rows, zip, job)
<1>2. Columns(kind) = 0 /\ kind \notin RemovesFirst /\ "update" \in Ordinary
  BY BareKinds DEF Categories, Folders, OfKind
<1>3. Begin(w, "update", kind, i, todo) /\ j = Begun(w, "update", kind, i, todo) /\ todo = Edit(i, Same, <<>>, AsIs)
  BY <1>1
<1> HIDE DEF kind, todo, j
<1>4. j.kind = kind /\ j.id = i
  BY <1>3, BegunIs DEF Opened
<1>5. AllLight(j, todo, K)
  BY <1>2, <1>3, <1>4, LightEdit
<1>6. QED
  BY <1>2, <1>3, <1>5, EditIs, ListOne, LightStep

\* A product is saved.
LEMMA UpdateProductStep ==
    ASSUME IInv, NEW w \in Workers, UpdateProduct(w), UNCHANGED <<zip, snapshot>>
    PROVE  IInv'
<1>1. PICK p \in Products, c \in Categories \union {None} :
      \E level \in {Shown(rows[p].text)} \union IF rows[p].text = "" THEN {} ELSE Levels :
         Begin(w, "update", "product", p,
               Edit(p, c, <<>>, AsIs) \o Pallets(p, IF level = "" THEN None ELSE served + 1, level))
  BY DEF UpdateProduct
<1>2. PICK level :
         Begin(w, "update", "product", p,
               Edit(p, c, <<>>, AsIs) \o Pallets(p, IF level = "" THEN None ELSE served + 1, level))
  BY <1>1
<1> DEFINE X == Edit(p, c, <<>>, AsIs) Y == Pallets(p, IF level = "" THEN None ELSE served + 1, level)
           todo == X \o Y
           j == Begun(w, "update", "product", p, todo) K == Known(rows, zip, job)
<1>3. Columns("product") = 0 /\ "product" \notin RemovesFirst /\ "update" \in Ordinary
  BY BareKinds
<1>4. Begin(w, "update", "product", p, todo) /\ j = Begun(w, "update", "product", p, todo)
  BY <1>2
<1> HIDE DEF todo, j
<1>5. j.kind = "product" /\ j.id = p
  BY <1>4, BegunIs DEF Opened
<1>6. AllLight(j, X, K)
  BY <1>3, <1>5, LightEdit
<1>7. AllLight(j, Y, K)
  BY <1>3, <1>5, PalletsAre
<1>8. X # <<>>
  BY EditIs, ListOne
<1>9. AllLight(j, todo, K)
  <2> HIDE DEF X, Y
  <2>1. QED
    BY <1>6, <1>7, LightConcat DEF todo
<1>10. todo # <<>>
  <2> HIDE DEF X, Y
  <2>1. QED
    BY <1>8, <1>6, <1>7, NotEmpty DEF todo, AllLight
<1>11. QED
  BY <1>3, <1>4, <1>9, <1>10, LightStep

\* A category is deleted: its products are looked for first.
LEMMA DeleteCategoryStep ==
    ASSUME IInv, NEW w \in Workers, DeleteCategory(w), UNCHANGED <<zip, snapshot>>
    PROVE  IInv'
<1>1. PICK c \in Categories :
         Begin(w, "delete", "category", c, ForEach("list", Descendants(c)) \o Deletion("category", c))
  BY DEF DeleteCategory
<1> DEFINE X == ForEach("list", Descendants(c)) Y == Deletion("category", c)
           todo == X \o Y
           j == Begun(w, "delete", "category", c, todo) K == Known(rows, zip, job)
<1>2. "category" \in CatalogueKinds /\ "category" \notin RemovesFirst /\ "delete" \in Ordinary
  BY BareKinds
<1>3. Begin(w, "delete", "category", c, todo) /\ j = Begun(w, "delete", "category", c, todo)
  BY <1>1
<1> HIDE DEF todo, j
<1>4. j.kind = "category"
  BY <1>3, BegunIs DEF Opened
<1>5. AllLight(j, X, K)
  BY <1>2, <1>4, PlainEach, LightPlain
<1>6. AllLight(j, Y, K)
  BY <1>2, <1>4, PlainDeletion, LightPlain
<1>7. Y # <<>>
  BY ListOne DEF Deletion
<1>8. AllLight(j, todo, K)
  <2> HIDE DEF X, Y
  <2>1. QED
    BY <1>5, <1>6, LightConcat DEF todo
<1>9. todo # <<>>
  <2> HIDE DEF X, Y
  <2>1. QED
    BY <1>7, <1>5, <1>6, NotEmpty DEF todo, AllLight
<1>10. QED
  BY <1>2, <1>3, <1>8, <1>9, LightStep

\* A product is deleted.
LEMMA DeleteProductStep ==
    ASSUME IInv, NEW w \in Workers, DeleteProduct(w), UNCHANGED <<zip, snapshot>>
    PROVE  IInv'
<1>1. PICK p \in Products : Begin(w, "delete", "product", p, ForEach("open", {p}))
  BY DEF DeleteProduct
<1> DEFINE todo == ForEach("open", {p})
           j == Begun(w, "delete", "product", p, todo) K == Known(rows, zip, job)
<1>2. "product" \in CatalogueKinds /\ "product" \notin RemovesFirst /\ "delete" \in Ordinary
  BY BareKinds
<1>3. Begin(w, "delete", "product", p, todo) /\ j = Begun(w, "delete", "product", p, todo)
  BY <1>1
<1> HIDE DEF j
<1>4. AllLight(j, todo, K)
  BY <1>2, <1>3, BegunIs, PlainEach, LightPlain DEF Opened
<1>5. todo # <<>>
  BY ListOne DEF ForEach
<1> HIDE DEF todo
<1>6. QED
  BY <1>2, <1>3, <1>4, <1>5, LightStep

\* A row is deleted, then its images are looked for.
LEMMA UnlinksAre ==
    ASSUME IInv, NEW designs, designs \subseteq Designs, NEW paths, paths \subseteq ImagesOf(designs),
           NEW j, j.kind \in CatalogueKinds
    PROVE  AllLight(j, Unlinks(paths), Known(rows, zip, job))
<1> DEFINE K == Known(rows, zip, job) S == paths \ {NoFile}
<1>1. \A f \in S : f \in K /\ \E k \in 1..2 : Fits(f, "design", k)
  BY AtFirst, ImagesAre
<1> HIDE DEF K, S
<1>2. AllPlain(j, ForEach("count", S), K)
  BY <1>1, PlainEach
<1>3. QED
  BY <1>2, LightPlain DEF Unlinks, K, S

\* A row is deleted, then the images of designs that go with it are counted.
LEMMA DropStep ==
    ASSUME IInv, NEW w \in Workers, NEW kind \in {"folder", "design"}, NEW id, NEW designs, designs \subseteq Designs,
           Begin(w, "delete", kind, id, Deletion(kind, id) \o Unlinks(ImagesOf(designs))),
           UNCHANGED <<zip, snapshot>>
    PROVE  IInv'
<1> DEFINE X == Deletion(kind, id) Y == Unlinks(ImagesOf(designs))
           todo == X \o Y
           j == Begun(w, "delete", kind, id, todo) K == Known(rows, zip, job)
<1>1. kind \in CatalogueKinds /\ kind \notin RemovesFirst /\ "delete" \in Ordinary
  BY BareKinds
<1>2. Begin(w, "delete", kind, id, todo) /\ j = Begun(w, "delete", kind, id, todo)
  OBVIOUS
<1> HIDE DEF todo, j
<1>3. j.kind = kind
  BY <1>2, BegunIs DEF Opened
<1>4. AllLight(j, X, K)
  BY <1>1, <1>3, PlainDeletion, LightPlain
<1>5. AllLight(j, Y, K)
  BY <1>1, <1>3, UnlinksAre
<1>6. X # <<>>
  BY ListOne DEF Deletion
<1>7. AllLight(j, todo, K)
  <2> HIDE DEF X, Y
  <2>1. QED
    BY <1>4, <1>5, LightConcat DEF todo
<1>8. todo # <<>>
  <2> HIDE DEF X, Y
  <2>1. QED
    BY <1>6, <1>4, <1>5, NotEmpty DEF todo, AllLight
<1>9. QED
  BY <1>1, <1>2, <1>7, <1>8, LightStep

\* A folder is deleted, with the designs at any depth.
LEMMA DeleteFolderStep ==
    ASSUME IInv, NEW w \in Workers, DeleteFolder(w), UNCHANGED <<zip, snapshot>>
    PROVE  IInv'
<1>1. PICK f \in Folders :
         Begin(w, "delete", "folder", f, Deletion("folder", f) \o Unlinks(FolderImagePaths(rows[f].up, f)))
  BY DEF DeleteFolder
<1> DEFINE folders == Below(f, {<<i, rows[i].side>> : i \in FoldersOf(rows[f].up)})
           designs == {d \in Designs : rows[d].up = rows[f].up /\ rows[d].side \in folders}
<1> HIDE DEF designs
<1>2. QED
  BY <1>1, DropStep DEF FolderImagePaths

\* A design is deleted.
LEMMA DeleteDesignStep ==
    ASSUME IInv, NEW w \in Workers, DeleteDesign(w), UNCHANGED <<zip, snapshot>>
    PROVE  IInv'
<1>1. PICK d \in Designs :
         Begin(w, "delete", "design", d, Deletion("design", d) \o Unlinks(ImagesOf({d})))
  BY DEF DeleteDesign
<1>2. {d} \subseteq Designs
  OBVIOUS
<1>3. QED
  BY <1>1, <1>2, DropStep

\* Images are stored, and named by the row.
LEMMA ImagesStored ==
    ASSUME IInv, NEW chosen
    PROVE  /\ \A j, K : AllLight(j, Images(chosen), K)
           /\ \A otherwise \in {NoFile, Keep} : StoresAll(Images(chosen), Paths(chosen, otherwise), served + 1)
           /\ \A otherwise : DOMAIN Paths(chosen, otherwise) = 1..2
           /\ \A otherwise : \A k \in 1..2 : \/ Paths(chosen, otherwise)[k] = otherwise
                                             \/ Fits(Paths(chosen, otherwise)[k], "design", k)
<1> DEFINE A == Store("products", 1, chosen[1]) B == Store("products", 2, chosen[2]) X == A \o B
<1>1. served \in Nat /\ "products" \in TreeNames /\ 1 \in 1..3 /\ 2 \in 1..3
  BY AtFirst, TreesAre
<1>2. Storing(A, Fresh("products", 1), chosen[1]) /\ Storing(B, Fresh("products", 2), chosen[2])
  BY <1>1, LightStore
<1>3. \A j, K : AllLight(j, A, K) /\ AllLight(j, B, K)
  <2> HIDE DEF A, B
  <2>1. QED
    BY <1>2 DEF Storing
<1>4. \A j, K : AllLight(j, X, K)
  <2> HIDE DEF A, B
  <2>1. QED
    BY <1>3, LightConcat
<1>5. /\ chosen[1] = "file" => \E p \in DOMAIN A : A[p].do = "store" /\ A[p].file = Fresh("products", 1)
      /\ chosen[2] = "file" => \E p \in DOMAIN B : B[p].do = "store" /\ B[p].file = Fresh("products", 2)
  <2> HIDE DEF A, B
  <2>1. QED
    BY <1>2 DEF Storing
<1> HIDE DEF A, B
<1>6. IsList(A) /\ IsList(B)
  BY <1>3 DEF AllLight
<1>7. /\ \A p \in DOMAIN A : p \in DOMAIN X /\ X[p] = A[p]
      /\ \A p \in DOMAIN B : Len(A) + p \in DOMAIN X /\ X[Len(A) + p] = B[p]
  <2>1. \A p \in DOMAIN A : p \in DOMAIN X /\ X[p] = A[p]
    BY ONLY <1>6, ListConcat
  <2>2. \A p \in DOMAIN B : Len(A) + p \in DOMAIN X /\ X[Len(A) + p] = B[p]
    BY ONLY <1>6, ListConcat
  <2>3. QED
    BY <2>1, <2>2
<1> HIDE DEF X
<1>8. \A k \in 1..2 : Fresh("products", k).n = served + 1 /\ Fits(Fresh("products", k), "design", k)
  <2>1. ASSUME NEW k \in 1..2 PROVE Fits(Fresh("products", k), "design", k)
    <3>1. /\ Fresh("products", k).tree = "products" /\ Fresh("products", k).slot = k
          /\ Fresh("products", k) \in Files
      BY <1>1 DEF Fresh, Files, Logo
    <3>2. QED
      BY <3>1, ColumnsAre DEF Fits
  <2>2. QED
    BY <2>1 DEF Fresh
<1>9. ASSUME NEW otherwise
       PROVE  /\ DOMAIN Paths(chosen, otherwise) = 1..2
              /\ \A k \in 1..2 : Paths(chosen, otherwise)[k] =
                                    IF chosen[k] = "file" THEN Fresh("products", k) ELSE otherwise
  BY DEF Paths
<1>10. ASSUME NEW otherwise \in {NoFile, Keep}
       PROVE  StoresAll(X, Paths(chosen, otherwise), served + 1)
  <2> DEFINE P == Paths(chosen, otherwise)
  <2>1. DOMAIN P = 1..2 /\ \A k \in 1..2 : P[k] = IF chosen[k] = "file" THEN Fresh("products", k) ELSE otherwise
    BY <1>9
  <2> HIDE DEF P
  <2>2. ASSUME NEW f \in NamesIn(P)
        PROVE  f.n = served + 1 /\ \E p \in DOMAIN X : X[p].do = "store" /\ X[p].file = f
    <3>1. PICK k \in 1..2 : f = P[k] /\ f # NoFile /\ f # Keep
      BY <2>1 DEF NamesIn
    <3>2. QED
      BY <1>5, <1>7, <1>8, <1>10, <2>1, <3>1
  <2>3. QED
    BY <2>2 DEF StoresAll, P
<1>11. QED
  BY <1>4, <1>8, <1>9, <1>10 DEF X, A, B, Images

\* A row is inserted when its files are stored.
LEMMA NewRowStep ==
    ASSUME IInv, NEW w \in Workers, NEW op \in Ordinary, NEW kind, kind # "company",
           NEW row, IsRow(row), row.kind = kind, NEW X, StoresAll(X, row.files, served + 1),
           \A j, K : AllLight(j, X, K), kind \in RemovesFirst => OnlyStores(X),
           Begin(w, op, kind, None, X \o <<[do |-> "insert", row |-> row]>>), UNCHANGED <<zip, snapshot>>
    PROVE  IInv'
<1> DEFINE c == [do |-> "insert", row |-> row]
           Y == <<>>
           todo == X \o <<c>>
           j == Begun(w, op, kind, None, todo)
           K == Known(rows, zip, job)
<1>1. c.do = "insert" /\ c.row = row /\ Begin(w, op, kind, None, todo) /\ j = Begun(w, op, kind, None, todo)
  OBVIOUS
<1> HIDE DEF c, j, K
<1>2. AllLight(j, X, K)
  OBVIOUS
<1>3. todo = (X \o <<c>>) \o Y
  BY <1>2, ListOne, ListConcat, ListEnds DEF AllLight
<1> HIDE DEF todo
<1>4. j.kind = kind /\ j.todo = todo /\ j.form = served + 1
  BY <1>1, BegunIs DEF Opened
<1>5. Y = <<>>
  OBVIOUS
<1> HIDE DEF Y
<1>6. IsList(todo) /\ todo # <<>> /\ ListOk(j, todo, rows, disk) /\ ShownBy(j) \subseteq K
  BY <1>2, <1>3, <1>4, LightNone, ListNone, <1>1, <1>5, InsertList DEF FillsLists
<1>7. QED
  BY <1>1, <1>6, RequestStep DEF K

\* A design is created: its images are stored first.
LEMMA CreateDesignStep ==
    ASSUME IInv, NEW w \in Workers, CreateDesign(w), UNCHANGED <<zip, snapshot>>
    PROVE  IInv'
<1>1. PICK p \in Products : \E f \in FoldersOf(p) \union {None} : \E chosen \in Uploaded :
        Begin(w, "create", "design", None,
              Images(chosen) \o
              <<[do |-> "insert", row |-> Row("design", p, f, Paths(chosen, NoFile), 0, "")]>>)
  BY DEF CreateDesign
<1>2. PICK f \in FoldersOf(p) \union {None} : \E chosen \in Uploaded :
        Begin(w, "create", "design", None,
              Images(chosen) \o
              <<[do |-> "insert", row |-> Row("design", p, f, Paths(chosen, NoFile), 0, "")]>>)
  BY <1>1
<1>3. PICK chosen \in Uploaded :
        Begin(w, "create", "design", None,
              Images(chosen) \o
              <<[do |-> "insert", row |-> Row("design", p, f, Paths(chosen, NoFile), 0, "")]>>)
  BY <1>2
<1> DEFINE files == Paths(chosen, NoFile) row == Row("design", p, f, files, 0, "") X == Images(chosen)
<1>4. row = Row("design", p, f, files, 0, "")
  OBVIOUS
<1>5. Begin(w, "create", "design", None, X \o <<[do |-> "insert", row |-> row]>>)
  BY <1>3
<1>6. /\ \A j, K : AllLight(j, X, K)
      /\ StoresAll(X, files, served + 1) /\ DOMAIN files = 1..2
      /\ \A k \in 1..2 : files[k] = NoFile \/ Fits(files[k], "design", k)
  BY ImagesStored
<1>7. "design" \notin RemovesFirst /\ "design" # "company" /\ Columns("design") = 2 /\ "create" \in Ordinary
  BY BareKinds, ColumnsAre
<1> HIDE DEF files, row, X
<1>8. IsRow(row) /\ row.kind = "design" /\ row.files = files
  <2>1. RowOf(Row("design", p, f, files, 0, ""), "design", files)
    BY <1>6, <1>7, RowIs DEF FilesFit, Stands
  <2>2. QED
    BY <1>4, <2>1 DEF RowOf
<1>9. QED
  BY <1>5, <1>6, <1>7, <1>8, NewRowStep

\* A design is saved: the images it replaces are counted last.
LEMMA UpdateDesignStep ==
    ASSUME IInv, NEW w \in Workers, UpdateDesign(w), UNCHANGED <<zip, snapshot>>
    PROVE  IInv'
<1>1. PICK d \in Designs, chosen \in Uploaded :
        Begin(w, "update", "design", d,
              Images(chosen) \o Edit(d, Same, Paths(chosen, Keep), AsIs)
                  \o Unlinks({rows[d].files[k] : k \in {n \in 1..2 : chosen[n] = "file"}}))
  BY DEF UpdateDesign
<1> DEFINE files == Paths(chosen, Keep) X == Images(chosen)
           paths == {rows[d].files[k] : k \in {n \in 1..2 : chosen[n] = "file"}}
           Y == Unlinks(paths)
<1>2. PICK c : Edit(d, Same, files, AsIs) = <<c>> /\ c.do = "update" /\ c.id = d /\ c.files = files
  BY EditIs
<1> DEFINE todo == (X \o <<c>>) \o Y
           j == Begun(w, "update", "design", d, todo) K == Known(rows, zip, job)
<1>3. Begin(w, "update", "design", d, todo) /\ j = Begun(w, "update", "design", d, todo)
  BY <1>1, <1>2
<1>4. todo = (X \o <<c>>) \o Y
  OBVIOUS
<1>5. /\ AllLight(j, X, K)
      /\ StoresAll(X, files, served + 1) /\ DOMAIN files = 1..2
      /\ \A k \in 1..2 : files[k] = Keep \/ Fits(files[k], "design", k)
  BY ImagesStored
<1>6. /\ "design" \notin RemovesFirst /\ "design" # "company" /\ Columns("design") = 2 /\ "update" \in Ordinary
      /\ "design" \in CatalogueKinds
  BY BareKinds, ColumnsAre
<1> HIDE DEF files, X, todo, j
<1>7. j.kind = "design" /\ j.id = d /\ j.form = served + 1 /\ j.todo = todo
  BY <1>3, BegunIs DEF Opened
<1>8. paths \subseteq ImagesOf({d}) /\ {d} \subseteq Designs
  BY DEF ImagesOf
<1> HIDE DEF paths
<1>9. AllLight(j, Y, K)
  BY <1>6, <1>7, <1>8, UnlinksAre
<1> HIDE DEF Y, K
<1>10. IsList(todo) /\ todo # <<>> /\ ListOk(j, todo, rows, disk) /\ ShownBy(j) \subseteq K
  BY <1>2, <1>5, <1>6, <1>7, <1>4, <1>9, UpdateList
<1>11. QED
  BY <1>3, <1>6, <1>10, RequestStep DEF K

\* Nobody is served, so every file is there.
LEMMA AllThere ==
    ASSUME IInv, \A v \in Workers : ~Serves(job[v])
    PROVE  \A i \in DOMAIN rows : \A k \in DOMAIN rows[i].files :
              rows[i].files[k] \in disk \union {NoFile} \/ rows[i].odd
<1>1. ServedInv(rows, disk, job)
  BY DEF IInv, Inv
<1>2. \A v \in Workers : ~Swapping(job[v])
  BY DEF Swapping
<1>3. \A v \in Workers : \A i, k : ~Mends(job[v], i, k, rows[i])
  BY DEF Mends
<1>4. ThereOrMended(rows, disk, job)
  BY <1>1, <1>2 DEF ServedInv
<1>5. QED
  BY <1>3, <1>4 DEF ThereOrMended

\* A copy of a design names the images of its original.
LEMMA DuplicateDesignStep ==
    ASSUME IInv, NEW w \in Workers, DuplicateDesign(w), UNCHANGED <<zip, snapshot>>
    PROVE  IInv'
<1>1. PICK d \in Designs, p \in Products : \E f \in FoldersOf(p) \union {None} :
        Begin(w, "duplicate", "design", None,
              <<[do |-> "insert", row |-> [rows[d] EXCEPT !.up = p, !.side = f]]>>)
  BY DEF DuplicateDesign
<1>2. PICK f \in FoldersOf(p) \union {None} :
        Begin(w, "duplicate", "design", None,
              <<[do |-> "insert", row |-> [rows[d] EXCEPT !.up = p, !.side = f]]>>)
  BY <1>1
<1> DEFINE old == rows[d] row == [old EXCEPT !.up = p, !.side = f]
           c == [do |-> "insert", row |-> row] todo == <<c>>
           j == Begun(w, "duplicate", "design", None, todo) K == Known(rows, zip, job)
<1>3. c.do = "insert" /\ c.row = row
  OBVIOUS
<1>4. Begin(w, "duplicate", "design", None, todo) /\ j = Begun(w, "duplicate", "design", None, todo)
  BY <1>2
<1>5. "design" \notin RemovesFirst /\ "design" # "company" /\ "duplicate" \in Ordinary
  BY BareKinds
<1>6. d \in DOMAIN rows /\ old.kind = "design" /\ IsRow(old)
  BY AtFirst DEF Designs, OfKind
<1>7. IsRow(row) /\ row.kind = "design" /\ row.files = old.files /\ row.odd = old.odd
  <2> HIDE DEF old
  <2> DEFINE mid == [old EXCEPT !.up = p]
  <2>1. row = [mid EXCEPT !.side = f]
    OBVIOUS
  <2>2. /\ DOMAIN mid = DOMAIN old /\ mid = [x \in DOMAIN old |-> mid[x]]
        /\ \A x \in DOMAIN old \ {"up"} : mid[x] = old[x]
    BY <1>6 DEF IsRow
  <2> HIDE DEF mid
  <2> HIDE DEF row
  <2>3. QED
    BY <1>6, <2>2, <2>1, <1>5 DEF IsRow
<1>8. \A g \in NamesIn(old.files) : g \in NamesOf(rows) /\ g \in K /\ g.n \in Int /\ g.n <= served
  BY <1>6, AtFirst DEF NamesIn, NamesOf, IInv, Inv, KnownInv
<1>9. Opened(j, "duplicate", "design", None, todo)
  BY <1>4, BegunIs
<1>10. todo = <<c>>
  OBVIOUS
<1> HIDE DEF c, todo, j, row
<1>11. j.op = "duplicate" /\ j.kind = "design" /\ j.todo = todo /\ j.form = served + 1
  BY <1>9 DEF Opened
<1>12. j.alone => row.odd \/ NamesIn(row.files) \subseteq disk
  <2>1. ASSUME j.alone, ~row.odd, NEW g \in NamesIn(row.files) PROVE g \in disk
    <3>1. PICK k \in DOMAIN old.files : g = old.files[k] /\ g # NoFile
      BY <1>7, <2>1 DEF NamesIn
    <3>2. QED
      BY <1>7, <2>1, <3>1, <1>6, <1>9, AllThere DEF Opened
  <2>2. QED
    BY <2>1
<1> HIDE DEF old, K
<1>13. Takes(c, j.form) = {} /\ Shows(c, j.form) \subseteq K
  BY <1>11, AtFirst, <1>7, <1>8, <1>3 DEF Takes, Shows, Written, Handled
<1>14. IsList(todo) /\ todo # <<>> /\ Len(todo) = 1 /\ DOMAIN todo = {1} /\ todo[1] = c
  BY <1>10, ListOne
<1>15. WriterOk(j, todo, 1, rows, disk, K)
  BY <1>3, <1>13, <1>14, <1>5, <1>7, <1>11, <1>12 DEF WriterOk, CallOk, Dos, InsertOk
<1>16. ListOk(j, todo, rows, disk) /\ ShownBy(j) \subseteq K
  BY <1>5, <1>11, <1>14, <1>15, ListIsOk DEF RestOk
<1>17. QED
  BY <1>4, <1>5, <1>14, <1>16, RequestStep DEF K
-----------------------------------------------------------------------------
(* The requests on the records around the documents.                       *)

\* The lists of a row replaced, one after the other.
LEMMA ListsAre ==
    ASSUME NEW s, s.lists \in Nat, NEW id, NEW K
    PROVE  /\ FillsLists(ReplaceLists(s, id))
           /\ \A j : j.kind \notin RemovesFirst => AllLight(j, ReplaceLists(s, id), K)
<1> DEFINE X == ReplaceLists(s, id) n == s.lists
           call(k) == [do |-> "replace", id |-> id, part |-> k + 1, with |-> served + 1, text |-> AsIs]
<1>1. n \in Nat
  OBVIOUS
<1>2. X = [k \in 1..n |-> call(k)]
  BY DEF ReplaceLists
<1>3. \A k : call(k).do = "replace"
  OBVIOUS
<1> HIDE DEF call, X, n
<1>4. X = [k \in 1..n |-> X[k]] /\ \A k \in 1..n : X[k].do = "replace"
  BY <1>2, <1>3
<1>5. IsList(X) /\ DOMAIN X = 1..n
  BY <1>1, <1>4, ListFun
<1>6. ASSUME NEW j, j.kind \notin RemovesFirst PROVE AllLight(j, X, K)
  BY <1>4, <1>5, <1>6 DEF Light, CallOk, Dos, Written, Handled, AllLight
<1>7. QED
  BY <1>4, <1>5, <1>6 DEF X, FillsLists

\* The services of rows and lists without files.
LEMMA DirectoriesAre ==
    ASSUME NEW s \in Directories
    PROVE  /\ s.lists \in Nat /\ Columns(s.kind) = 0 /\ s.kind \notin RemovesFirst /\ s.kind # "company"
<1>1. s.lists \in Nat /\ s.kind \in {"supplier", "transporter", "booking", "login"}
  BY DEF Directories, SupplierService, TransporterService, BookingDetailService, PlatformLoginService
<1>2. QED
  BY <1>1, BareKinds

\* A row is inserted, and its lists are filled.
LEMMA CreateRecordStep ==
    ASSUME IInv, NEW w \in Workers, CreateRecord(w), UNCHANGED <<zip, snapshot>>
    PROVE  IInv'
<1>1. PICK s \in Directories :
        Begin(w, "create", s.kind, None,
              <<[do |-> "insert", row |-> Row(s.kind, None, None, <<>>, s.lists, "")]>>
                  \o ReplaceLists(s, None))
  BY DEF CreateRecord
<1> DEFINE kind == s.kind
           row == Row(kind, None, None, <<>>, s.lists, "")
           Y == ReplaceLists(s, None)
           todo == <<[do |-> "insert", row |-> row]>> \o Y
<1>2. s.lists \in Nat /\ Columns(kind) = 0 /\ kind \notin RemovesFirst /\ kind # "company"
  BY DirectoriesAre
<1>3. Begin(w, "create", kind, None, todo) /\ todo = <<[do |-> "insert", row |-> row]>> \o Y
  BY <1>1
<1>4. IsRow(row) /\ row.kind = kind
  <2> HIDE DEF kind
  <2>1. RowOf(Row(kind, None, None, <<>>, s.lists, ""), kind, <<>>)
    BY <1>2, BareRow
  <2>2. QED
    BY <2>1 DEF RowOf
<1> HIDE DEF kind, row, todo
<1>5. FillsLists(Y) /\ \A j : j.kind \notin RemovesFirst => AllLight(j, Y, Known(rows, zip, job))
  BY <1>2, ListsAre
<1> HIDE DEF Y
<1>6. QED
  BY <1>2, <1>3, <1>4, <1>5, BareKinds, BareInsertStep

\* A row is updated, and its lists are replaced.
LEMMA UpdateRecordStep ==
    ASSUME IInv, NEW w \in Workers, UpdateRecord(w), UNCHANGED <<zip, snapshot>>
    PROVE  IInv'
<1>1. PICK s \in Directories : \E r \in OfKind(s.kind) :
        Begin(w, "update", s.kind, r, UpdateRow(r, <<>>, TRUE, AsIs) \o ReplaceLists(s, r))
  BY DEF UpdateRecord
<1>2. PICK r \in OfKind(s.kind) :
        Begin(w, "update", s.kind, r, UpdateRow(r, <<>>, TRUE, AsIs) \o ReplaceLists(s, r))
  BY <1>1
<1> DEFINE kind == s.kind X == UpdateRow(r, <<>>, TRUE, AsIs) Y == ReplaceLists(s, r)
           todo == X \o Y
           j == Begun(w, "update", kind, r, todo) K == Known(rows, zip, job)
<1>3. s.lists \in Nat /\ Columns(kind) = 0 /\ kind \notin RemovesFirst /\ "update" \in Ordinary
  BY DirectoriesAre, BareKinds
<1>4. Begin(w, "update", kind, r, todo) /\ j = Begun(w, "update", kind, r, todo)
  BY <1>2
<1> HIDE DEF kind, todo, j
<1>5. j.kind = kind /\ j.id = r
  BY <1>4, BegunIs DEF Opened
<1>6. AllLight(j, X, K)
  <2>1. X = UpdateRow(r, <<>>, TRUE, AsIs) /\ Columns(j.kind) = 0 /\ j.kind \notin RemovesFirst /\ r = j.id
    BY <1>3, <1>5
  <2> HIDE DEF X
  <2>2. QED
    BY <2>1, LightEdit
<1>7. AllLight(j, Y, K)
  BY <1>3, <1>5, ListsAre
<1>8. X # <<>>
  BY ListOne DEF UpdateRow
<1>9. AllLight(j, todo, K)
  <2> HIDE DEF X, Y
  <2>1. QED
    BY <1>6, <1>7, LightConcat DEF todo
<1>10. todo # <<>>
  <2> HIDE DEF X, Y
  <2>1. QED
    BY <1>8, <1>6, <1>7, NotEmpty DEF todo, AllLight
<1>11. QED
  BY <1>3, <1>4, <1>9, <1>10, LightStep

\* A row is deleted.
LEMMA PlainDeleteStep ==
    ASSUME IInv, NEW w \in Workers, NEW kind, kind \notin RemovesFirst, NEW id,
           Begin(w, "delete", kind, id, Deletion(kind, id)), UNCHANGED <<zip, snapshot>>
    PROVE  IInv'
<1> DEFINE todo == Deletion(kind, id) j == Begun(w, "delete", kind, id, todo)
<1>1. Begin(w, "delete", kind, id, todo) /\ j = Begun(w, "delete", kind, id, todo)
  OBVIOUS
<1> HIDE DEF j
<1>2. AllLight(j, todo, Known(rows, zip, job))
  BY <1>1, BegunIs, PlainDeletion, LightPlain DEF Opened
<1>3. todo # <<>>
  BY ListOne DEF Deletion
<1> HIDE DEF todo
<1>4. QED
  BY <1>1, <1>2, <1>3, BareKinds, LightStep

\* A record without files is deleted.
LEMMA DeleteRecordStep ==
    ASSUME IInv, NEW w \in Workers, DeleteRecord(w), UNCHANGED <<zip, snapshot>>
    PROVE  IInv'
<1>1. PICK s \in Directories : \E r \in OfKind(s.kind) :
        Begin(w, "delete", s.kind, r, Deletion(s.kind, r))
  BY DEF DeleteRecord
<1>2. PICK r \in OfKind(s.kind) : Begin(w, "delete", s.kind, r, Deletion(s.kind, r))
  BY <1>1
<1>3. QED
  BY <1>2, DirectoriesAre, PlainDeleteStep

\* The entries of the drop lists.
LEMMA EntryStep ==
    ASSUME IInv, NEW w \in Workers, EntryRequest(w), UNCHANGED <<zip, snapshot>>
    PROVE  IInv'
<1>1. \A list \in Lists : Columns(list) = 0 /\ list \notin RemovesFirst /\ list # "company"
  BY ListsAssumption, BareKinds
<1>2. CASE CreateEntry(w)
  <2>1. PICK list \in Lists, name \in Names :
          Begin(w, "create", list, None,
                <<[do |-> "insert", row |-> Row(list, None, None, <<>>, 0, name)]>>)
    BY <1>2 DEF CreateEntry
  <2> DEFINE row == Row(list, None, None, <<>>, 0, name)
  <2>2. Begin(w, "create", list, None, <<[do |-> "insert", row |-> row]>>)
    BY <2>1
  <2>3. IsRow(row) /\ row.kind = list
    BY <1>1, BareRow DEF RowOf
  <2> HIDE DEF row
  <2>4. QED
    BY <1>1, <2>2, <2>3, BareKinds, BareCreateStep
<1>3. CASE UpdateEntry(w)
  <2>1. PICK list \in Lists : \E e \in OfKind(list), name \in Names :
          Begin(w, "update", list, e, UpdateRow(e, <<>>, TRUE, name))
    BY <1>3 DEF UpdateEntry
  <2>2. PICK e \in OfKind(list), name \in Names :
          Begin(w, "update", list, e, UpdateRow(e, <<>>, TRUE, name))
    BY <2>1
  <2> DEFINE todo == UpdateRow(e, <<>>, TRUE, name) j == Begun(w, "update", list, e, todo)
  <2>3. Begin(w, "update", list, e, todo) /\ j = Begun(w, "update", list, e, todo)
    BY <2>2
  <2>4. todo # <<>>
    BY ListOne DEF UpdateRow
  <2>5. todo = UpdateRow(e, <<>>, TRUE, name)
    OBVIOUS
  <2> HIDE DEF j, todo
  <2>6. j.kind = list /\ j.id = e
    BY <2>3, BegunIs DEF Opened
  <2>7. AllLight(j, todo, Known(rows, zip, job))
    BY <1>1, <2>6, LightEdit, <2>5
  <2>8. QED
    BY <1>1, <2>3, <2>7, <2>4, BareKinds, LightStep
<1>4. CASE DeleteEntry(w)
  <2>1. PICK list \in Lists : \E e \in OfKind(list) : Begin(w, "delete", list, e, Deletion(list, e))
    BY <1>4 DEF DeleteEntry
  <2>2. PICK e \in OfKind(list) : Begin(w, "delete", list, e, Deletion(list, e))
    BY <2>1
  <2>3. QED
    BY <1>1, <2>2, PlainDeleteStep
<1>5. QED
  BY <1>2, <1>3, <1>4 DEF EntryRequest

\* Three lists, one after the other.
LEMMA ListAssociates ==
    ASSUME NEW s, IsList(s), NEW t, IsList(t), NEW u, IsList(u)
    PROVE  s \o (t \o u) = (s \o t) \o u
<1>1. PICK S : s \in Seq(S)
  BY DEF IsList
<1>2. PICK T : t \in Seq(T)
  BY DEF IsList
<1>3. PICK U : u \in Seq(U)
  BY DEF IsList
<1> DEFINE V == S \union T \union U
<1> HIDE DEF V
<1>4. QED
  BY <1>1, <1>2, <1>3, SeqMonotonic, ConcatAssociative

\* A file in the row of a table whose rows do not share theirs.
LEMMA OwnFile ==
    ASSUME NEW R, IsTable(R), NEW r \in DOMAIN R, R[r].kind # "design", NEW k \in DOMAIN R[r].files,
           NEW f, f = R[r].files[k], f # NoFile
    PROVE  Claims(r, f, R) /\ Fits(f, R[r].kind, k) /\ f \in Files
<1>1. Fits(f, R[r].kind, k) /\ k \in 1..Columns(R[r].kind)
  BY DEF IsTable, IsRow
<1>2. ASSUME NEW i \in DOMAIN R, NEW m \in DOMAIN R[i].files, R[i].files[m] = f
      PROVE  R[i].odd \/ i = r
  BY <1>2, RowFiles, <1>1, FitsKinds DEF IsTable
<1>3. QED
  BY <1>1, <1>2 DEF Claims, Fits

\* The path of a file, or NULL, that is removed.
LEMMA RemovalIs ==
    ASSUME NEW f
    PROVE  /\ IsList(Removal(f)) /\ (f = NoFile => Removal(f) = <<>>)
           /\ f # NoFile => \E c : Removal(f) = <<c>> /\ c.do = "remove" /\ c.file = f
<1> DEFINE c == [do |-> "remove", file |-> f]
<1>1. (f = NoFile => Removal(f) = <<>>) /\ (f # NoFile => Removal(f) = <<c>>) /\ c.do = "remove" /\ c.file = f
  BY DEF Removal
<1> HIDE DEF c
<1>2. IsList(Removal(f))
  BY <1>1, ListOne, ListNone
<1>3. QED
  BY <1>1, <1>2

\* A row of the company is updated, and the file it named before is removed.
LEMMA LogoStep ==
    ASSUME IInv, NEW w \in Workers, NEW r \in OfKind("company"), NEW old, old = rows[r].files[1],
           NEW X, NEW c, c.do = "update", c.id = r, DOMAIN c.files = {1},
           c.files[1] = NoFile \/ Fits(c.files[1], "company", 1), c.files[1] # old,
           StoresAll(X, c.files, served + 1), \A j, K : j.kind = "company" /\ j.id = r => AllLight(j, X, K),
           NEW todo, todo = (X \o <<c>>) \o Removal(old),
           Begin(w, "update", "company", r, todo), UNCHANGED <<zip, snapshot>>
    PROVE  IInv'
<1> DEFINE j == Begun(w, "update", "company", r, todo) K == Known(rows, zip, job) Y == Removal(old)
           m == Len(X) + 1
<1>1. j = Begun(w, "update", "company", r, todo) /\ m = Len(X) + 1 /\ todo = (X \o <<c>>) \o Y
  OBVIOUS
<1>2. IsList(Y) /\ \A q \in DOMAIN Y : Y[q].do = "remove" /\ Y[q].file = old /\ old # NoFile /\ q = 1 /\ Len(Y) = 1
  <2>1. CASE old = NoFile
    BY <2>1, RemovalIs, ListNone
  <2>2. CASE old # NoFile
    <3>1. PICK d : Y = <<d>> /\ d.do = "remove" /\ d.file = old
      BY <2>2, RemovalIs
    <3> HIDE DEF Y
    <3>2. QED
      BY <2>2, <3>1, ListOne
  <2>3. QED
    BY <2>1, <2>2
<1> HIDE DEF j, Y, m
<1>3. j.kind = "company" /\ j.id = r /\ j.todo = todo /\ j.form = served + 1
  <2>1. j = Begun(w, "update", "company", r, todo)
    BY <1>1
  <2>2. Opened(j, "update", "company", r, todo)
    BY ONLY <2>1, IInv, w \in Workers, Begin(w, "update", "company", r, todo), BegunIs
  <2>3. QED
    BY <2>2 DEF Opened
<1>4. r \in DOMAIN rows /\ rows[r].kind = "company" /\ DOMAIN rows[r].files = 1..1 /\ "company" \notin RemovesFirst
  <2>1. r \in DOMAIN rows /\ rows[r].kind = "company"
    BY DEF OfKind
  <2>2. IsRow(rows[r]) /\ "company" \notin RemovesFirst
    BY <2>1, AtFirst, BareKinds
  <2>3. QED
    BY <2>1, <2>2, ColumnsAre DEF IsRow
<1>5. old # NoFile => Claims(r, old, rows) /\ Fits(old, "company", 1) /\ old \in Files /\ old \in K
  BY <1>4, AtFirst, TableNames, OwnFile
<1> HIDE DEF K
<1>6. AllLight(j, X, K)
  BY <1>3
<1>7. Middle(X, c, Y, todo, m)
  BY <1>1, <1>2, <1>6, ListMiddle DEF AllLight
<1>8. /\ IsList(todo) /\ todo # <<>> /\ m \in DOMAIN todo /\ m \in Nat /\ todo[m] = c /\ Len(todo) = m + Len(Y)
      /\ \A p \in DOMAIN X : p \in DOMAIN todo /\ todo[p] = X[p] /\ p < m
      /\ \A p \in DOMAIN todo : p # m => \/ p \in DOMAIN X /\ todo[p] = X[p] /\ p < m
                                         \/ p > m /\ \E q \in DOMAIN Y : todo[p] = Y[q] /\ p = m + q
  BY <1>7 DEF Middle
<1>9. \A f \in NamesIn(c.files) : f.n = j.form /\ \E p \in DOMAIN X : X[p].do = "store" /\ X[p].file = f
  BY <1>3 DEF StoresAll
<1>10. CallOk(j, c)
  <2>1. Columns("company") = 1
    BY ColumnsAre
  <2>2. QED
    BY <1>3, <1>4, <1>9, <2>1 DEF CallOk, Dos
<1>11. Shows(c, j.form) = {} /\ Takes(c, j.form) \subseteq NamesIn(c.files)
  BY <1>9 DEF Shows, Takes, Written, Handled
<1>12. UpdateOk(j, todo, m, rows)
  BY <1>8, <1>9 DEF UpdateOk, NamesIn
<1>13. WriterOk(j, todo, m, rows, disk, K)
  BY <1>8, <1>9, <1>10, <1>11, <1>12 DEF WriterOk
<1>14. c.files[1] # Keep
  BY FitsFile DEF NoFile, Keep
<1>15. ASSUME NEW p \in DOMAIN todo, p > m, NEW q \in DOMAIN Y, todo[p] = Y[q], p = m + q
       PROVE  todo[p].do = "remove" /\ CallOk(j, todo[p]) /\ RemoveOk(j, todo, p, rows) /\ todo[p].file \in K
  <2>1. todo[p].do = "remove" /\ todo[p].file = old /\ old # NoFile /\ p = m + 1 /\ Len(todo) = p
    BY <1>2, <1>8, <1>15
  <2>2. p > 1 /\ p - 1 = m
    <3>1. m >= 1
      BY <1>8, ListIs
    <3>2. m \in Nat /\ p = m + 1
      BY <1>8, <2>1
    <3>3. QED
      BY ONLY <3>1, <3>2
  <2>3. QED
    BY <1>5, <2>1, <1>3, <1>4, <1>8, <1>14, <2>2 DEF CallOk, Dos, RemoveOk
<1>16. RestOk(j, todo, m, rows, K)
  BY <1>6, <1>15, <1>8 DEF AllLight, RestOk
<1>17. ListOk(j, todo, rows, disk) /\ ShownBy(j) \subseteq K
  BY <1>3, <1>4, <1>8, <1>13, <1>16, ListIsOk
<1>18. QED
  BY <1>1, <1>8, <1>17, BareKinds, RequestStep DEF K

\* What a save of the company begins with: the row but for its logo, its lists,
\* and the file that was chosen.
Beginning(X, r, logo) ==
    /\ \A j, K : j.kind = "company" /\ j.id = r => AllLight(j, X, K)
    /\ X # <<>>
    /\ logo = "file" => \E p \in DOMAIN X : X[p].do = "store" /\ X[p].file = Fresh("products", Logo)
\* What CompanyService.save does before it names the new logo.
LEMMA BeginningIs ==
    ASSUME IInv, NEW r, NEW logo
    PROVE  Beginning(UpdateRow(r, <<Keep>>, TRUE, AsIs) \o ReplaceLists(CompanyService, r)
                        \o Store("products", Logo, logo), r, logo)
<1> DEFINE files == <<Keep>> A == UpdateRow(r, files, TRUE, AsIs) B == ReplaceLists(CompanyService, r)
           C == Store("products", Logo, logo) X == A \o B \o C file == Fresh("products", Logo)
<1>1. PICK c : A = <<c>> /\ c.do = "update" /\ c.id = r /\ c.files = files
  <2> HIDE DEF files
  <2> DEFINE d == [do |-> "update", id |-> r, up |-> Same, files |-> files, text |-> AsIs, head |-> TRUE]
  <2>1. A = <<d>> /\ d.do = "update" /\ d.id = r /\ d.files = files
    BY DEF UpdateRow
  <2>2. QED
    BY <2>1
<1>2. DOMAIN files = {1} /\ files[1] = Keep
  BY ListOne
<1>3. "company" \notin RemovesFirst /\ 1..1 = {1}
  BY BareKinds
<1>4. Storing(C, file, logo)
  BY AtFirst, TreesAre, LightStore DEF Logo
<1>5. \A j, K : AllLight(j, C, K)
  <2> HIDE DEF C, file
  <2>1. QED
    BY <1>4 DEF Storing
<1>6. logo = "file" => \E p \in DOMAIN C : C[p].do = "store" /\ C[p].file = file
  <2> HIDE DEF C, file
  <2>1. QED
    BY <1>4 DEF Storing
<1>7. \A j, K : j.kind \notin RemovesFirst => AllLight(j, B, K)
  BY ListsAre DEF CompanyService
<1>8. A # <<>> /\ IsList(A)
  <2> HIDE DEF A
  <2>1. QED
    BY <1>1, ListOne
<1>9. ASSUME NEW j, NEW K, j.kind = "company", j.id = r PROVE AllLight(j, A, K)
  <2> HIDE DEF A, files
  <2>1. QED
    BY <1>1, <1>3, <1>9, <1>2, ColumnsAre, LightUpdate
<1> HIDE DEF A, B, C, file
<1> DEFINE Z == A \o B
<1>10. IsList(B) /\ IsList(C)
  <2>1. \E j : j.kind \notin RemovesFirst
    <3> DEFINE j0 == [kind |-> "company"]
    <3>1. j0.kind \notin RemovesFirst
      BY <1>3
    <3>2. QED
      BY <3>1
  <2>2. QED
    BY <1>5, <1>7, <2>1 DEF AllLight
<1>11. IsList(Z) /\ Z # <<>>
  BY <1>8, <1>10, ListConcat, NotEmpty
<1>12. ASSUME NEW j, NEW K, j.kind = "company", j.id = r PROVE AllLight(j, X, K)
  <2> HIDE DEF Z
  <2>1. QED
    BY <1>3, <1>5, <1>7, <1>9, <1>12, LightConcat DEF Z
<1> HIDE DEF Z
<1>13. Z \o C # <<>> /\ \A p \in DOMAIN C : Len(Z) + p \in DOMAIN (Z \o C) /\ (Z \o C)[Len(Z) + p] = C[p]
  <2>1. \A p \in DOMAIN C : Len(Z) + p \in DOMAIN (Z \o C) /\ (Z \o C)[Len(Z) + p] = C[p]
    BY ONLY <1>10, <1>11, ListConcat
  <2>2. QED
    BY <1>10, <1>11, NotEmpty, <2>1
<1> HIDE DEF X
<1>14. QED
  BY <1>12, <1>13, <1>6 DEF X, A, B, C, files, Beginning, file, Z

\* The company is saved, with or without a logo.
LEMMA SaveCompanyStep ==
    ASSUME IInv, NEW w \in Workers, SaveCompany(w), UNCHANGED <<zip, snapshot>>
    PROVE  IInv'
<1>1. PICK r, logo :
        /\ r \in OfKind("company")
        /\ LET old == rows[r].files[1] IN
           Begin(w, "update", "company", r,
                 UpdateRow(r, <<Keep>>, TRUE, AsIs) \o ReplaceLists(CompanyService, r)
                 \o Store("products", Logo, logo)
                 \o CASE logo = "file" -> UpdateRow(r, <<Fresh("products", Logo)>>, FALSE, AsIs) \o Removal(old)
                      [] logo = "remove" /\ old # NoFile -> UpdateRow(r, <<NoFile>>, FALSE, AsIs) \o Removal(old)
                      [] OTHER -> <<>>)
  BY DEF SaveCompany
<1> DEFINE old == rows[r].files[1]
           X == UpdateRow(r, <<Keep>>, TRUE, AsIs) \o ReplaceLists(CompanyService, r)
                   \o Store("products", Logo, logo)
           file == Fresh("products", Logo)
           one == <<file>> none == <<NoFile>>
           E == CASE logo = "file" -> UpdateRow(r, one, FALSE, AsIs) \o Removal(old)
                  [] logo = "remove" /\ old # NoFile -> UpdateRow(r, none, FALSE, AsIs) \o Removal(old)
                  [] OTHER -> <<>>
           todo == X \o E
<1>2. Begin(w, "update", "company", r, todo) /\ old = rows[r].files[1] /\ r \in OfKind("company")
  BY <1>1
<1>3. Beginning(X, r, logo)
  BY BeginningIs
<1>4. file.n = served + 1 /\ Fits(file, "company", 1) /\ file # NoFile /\ file # Keep
  <2>1. file.n = served + 1 /\ file.tree = "products" /\ file.slot = Logo /\ file \in Files
    BY AtFirst, TreesAre DEF Files, Fresh, Logo
  <2>2. QED
    BY <2>1, ColumnsAre, FitsFile DEF Fits
<1>5. DOMAIN one = {1} /\ one[1] = file /\ DOMAIN none = {1} /\ none[1] = NoFile
  BY ListOne
<1> HIDE DEF X, file, one, none
<1>6. /\ logo = "file" => E = UpdateRow(r, one, FALSE, AsIs) \o Removal(old)
      /\ logo = "remove" /\ old # NoFile => E = UpdateRow(r, none, FALSE, AsIs) \o Removal(old)
      /\ ~(logo = "file") /\ ~(logo = "remove" /\ old # NoFile) => E = <<>>
  OBVIOUS
<1>7. todo = X \o E
  OBVIOUS
<1> HIDE DEF E, todo, old
<1>8. \A j, K : j.kind = "company" /\ j.id = r => AllLight(j, X, K)
  BY <1>3 DEF Beginning
<1>9. IsList(X) /\ X # <<>>
  <2> DEFINE j0 == [kind |-> "company", id |-> r]
  <2>1. j0.kind = "company" /\ j0.id = r
    OBVIOUS
  <2> HIDE DEF j0
  <2>2. QED
    BY <1>3, <1>8, <2>1 DEF AllLight, Beginning
<1>10. old # file
  <2>1. ASSUME old # NoFile PROVE old.n \in Int /\ old.n <= served
    <3>1. r \in DOMAIN rows /\ rows[r].kind = "company" /\ IsRow(rows[r])
      BY <1>2, AtFirst DEF OfKind
    <3>2. DOMAIN rows[r].files = 1..1
      BY <3>1, ColumnsAre DEF IsRow
    <3>3. QED
      BY <1>2, <2>1, <3>1, <3>2, TableNames, AtFirst DEF IInv, Inv, KnownInv
  <2>2. served \in Nat
    BY AtFirst
  <2>3. \A n \in Int : n <= served => n # served + 1
    BY ONLY <2>2
  <2>4. QED
    BY <1>4, <2>1, <2>3
<1>11. ASSUME NEW files, DOMAIN files = {1}, files[1] = NoFile \/ Fits(files[1], "company", 1), files[1] # old,
              StoresAll(X, files, served + 1), E = UpdateRow(r, files, FALSE, AsIs) \o Removal(old)
       PROVE  IInv'
  <2>1. PICK c : UpdateRow(r, files, FALSE, AsIs) = <<c>> /\ c.do = "update" /\ c.id = r /\ c.files = files
    <3> DEFINE d == [do |-> "update", id |-> r, up |-> Same, files |-> files, text |-> AsIs, head |-> FALSE]
    <3>1. UpdateRow(r, files, FALSE, AsIs) = <<d>> /\ d.do = "update" /\ d.id = r /\ d.files = files
      BY DEF UpdateRow
    <3>2. QED
      BY <3>1
  <2>2. X \o (<<c>> \o Removal(old)) = (X \o <<c>>) \o Removal(old)
    <3> DEFINE s == <<c>> u == Removal(old)
    <3>1. IsList(s) /\ IsList(u) /\ IsList(X)
      BY <1>9, ListOne, RemovalIs
    <3> HIDE DEF s, u
    <3>2. X \o (s \o u) = (X \o s) \o u
      BY ONLY <3>1, ListAssociates
    <3>3. QED
      BY <3>2 DEF s, u
  <2>3. QED
    BY <1>2, <1>8, <2>1, <1>7, <1>11, <2>2, LogoStep
<1>12. CASE logo = "file"
  BY <1>4, <1>5, <1>10, <1>11, <1>3, <1>12, <1>6 DEF NamesIn, Beginning, file, StoresAll
<1>13. CASE logo = "remove" /\ old # NoFile
  BY <1>5, <1>6, <1>13, <1>11 DEF StoresAll, NamesIn
<1>14. CASE ~(logo = "file") /\ ~(logo = "remove" /\ old # NoFile)
  <2> DEFINE j == Begun(w, "update", "company", r, todo)
  <2>1. j = Begun(w, "update", "company", r, todo)
    OBVIOUS
  <2> HIDE DEF j
  <2>2. Opened(j, "update", "company", r, todo)
    BY ONLY <2>1, IInv, w \in Workers, <1>2, BegunIs
  <2>3. QED
    BY <1>2, <2>1, <1>8, <1>6, <1>7, <1>14, <1>9, ListEnds, <2>2, BareKinds, LightStep DEF Opened
<1>15. QED
  BY <1>12, <1>13, <1>14

\* The services that remove a file before they write the row that names it.
LEMMA CarriersAre ==
    ASSUME NEW s \in Carriers
    PROVE  /\ s.kind \in RemovesFirst /\ s.tree = TreeOf(s.kind) /\ s.tree \in TreeNames
           /\ s.files = Columns(s.kind) /\ s.files \in {1, 2} /\ s.kind # "company" /\ s.kind # "design"
<1>1. \/ s.kind = "permit" /\ s.tree = "permits" /\ s.files = 1
      \/ s.kind = "purchase invoice" /\ s.tree = "purchase_invoices" /\ s.files = 1
      \/ s.kind = "export invoice" /\ s.tree = "export_invoices" /\ s.files = 2
  <2>1. PermitService.kind = "permit" /\ PermitService.tree = "permits" /\ PermitService.files = 1
    BY DEF PermitService
  <2>2. /\ PurchaseInvoiceFiles.kind = "purchase invoice" /\ PurchaseInvoiceFiles.tree = "purchase_invoices"
        /\ PurchaseInvoiceFiles.files = 1
    BY DEF PurchaseInvoiceFiles
  <2>3. /\ ExportInvoiceFiles.kind = "export invoice" /\ ExportInvoiceFiles.tree = "export_invoices"
        /\ ExportInvoiceFiles.files = 2
    BY DEF ExportInvoiceFiles
  <2>4. QED
    BY <2>1, <2>2, <2>3 DEF Carriers
<1>2. CASE s.kind = "permit" /\ s.tree = "permits" /\ s.files = 1
  BY <1>2, ColumnsAre, TreesAre DEF RemovesFirst
<1>3. CASE s.kind = "purchase invoice" /\ s.tree = "purchase_invoices" /\ s.files = 1
  BY <1>3, ColumnsAre, TreesAre DEF RemovesFirst
<1>4. CASE s.kind = "export invoice" /\ s.tree = "export_invoices" /\ s.files = 2
  BY <1>4, ColumnsAre, TreesAre DEF RemovesFirst
<1>5. QED
  BY <1>1, <1>2, <1>3, <1>4

\* The name a file of a carrier is stored under.
LEMMA FreshFits ==
    ASSUME IInv, NEW tree, NEW kind, tree = TreeOf(kind), tree \in TreeNames, kind # "company", NEW slot \in {1, 2}
    PROVE  /\ Fits(Fresh(tree, slot), kind, slot) /\ Fresh(tree, slot).n = served + 1
           /\ Fresh(tree, slot) # NoFile /\ Fresh(tree, slot) # Keep
<1> DEFINE file == Fresh(tree, slot)
<1>1. file.n = served + 1 /\ file.tree = tree /\ file.slot = slot /\ file \in Files
  BY AtFirst DEF Files, Fresh, Logo
<1> HIDE DEF file
<1>2. QED
  BY <1>1, FitsFile DEF file, Fits

\* A record that carries files is created.
LEMMA CreateCarrierStep ==
    ASSUME IInv, NEW w \in Workers, CreateCarrier(w), UNCHANGED <<zip, snapshot>>
    PROVE  IInv'
<1>1. PICK s, chosen :
        /\ s \in Carriers
        /\ LET files == [k \in 1..s.files |->
                            IF k = 1 /\ chosen = "file" THEN Fresh(s.tree, 1) ELSE NoFile]
           IN  Begin(w, "create", s.kind, None,
                     Store(s.tree, 1, chosen)
                         \o <<[do |-> "insert", row |-> Row(s.kind, None, None, files, 0, "")]>>)
  BY DEF CreateCarrier
<1> DEFINE kind == s.kind file == Fresh(s.tree, 1)
           files == [k \in 1..s.files |-> IF k = 1 /\ chosen = "file" THEN file ELSE NoFile]
           row == Row(kind, None, None, files, 0, "") X == Store(s.tree, 1, chosen)
<1>2. /\ kind \in RemovesFirst /\ s.tree = TreeOf(kind) /\ s.tree \in TreeNames
      /\ s.files = Columns(kind) /\ s.files \in {1, 2} /\ kind # "company" /\ kind # "design"
  BY <1>1, CarriersAre
<1>3. Begin(w, "create", kind, None, X \o <<[do |-> "insert", row |-> row]>>)
  BY <1>1
<1>4. row = Row(kind, None, None, files, 0, "")
  OBVIOUS
<1>5. Fits(file, kind, 1) /\ file.n = served + 1 /\ file # NoFile /\ file # Keep
  <2> HIDE DEF kind
  <2>1. QED
    BY <1>2, FreshFits
<1>6. Storing(X, file, chosen)
  BY <1>2, AtFirst, LightStore
<1> HIDE DEF kind, file, X, row
<1>7. DOMAIN files = 1..Columns(kind) /\ \A k \in DOMAIN files : files[k] = IF k = 1 /\ chosen = "file" THEN file ELSE NoFile
  BY <1>2
<1> HIDE DEF files
<1>8. IsRow(row) /\ row.kind = kind /\ row.files = files
  <2>1. RowOf(Row(kind, None, None, files, 0, ""), kind, files)
    BY <1>5, <1>7, RowIs DEF FilesFit, Stands
  <2>2. QED
    BY <1>4, <2>1 DEF RowOf
<1>9. QED
  BY <1>2, <1>3, <1>8, <1>6, <1>7, <1>5, BareKinds, NewRowStep DEF Storing, NamesIn, StoresAll

\* What a form does to a file of a record: new is what the row names then.
Files2(files, kind, slot, new) ==
    /\ DOMAIN files = 1..Columns(kind) /\ files[slot] = new
    /\ \A k \in DOMAIN files : k = slot \/ files[k] = Keep
Replaces(X, Z, old, new, n) ==
    \/ Z = <<>> /\ new = old
    \/ Z = Removal(old) /\ new = NoFile
    \/ Z = Removal(old) /\ new.n = n /\ \E p \in DOMAIN X : X[p].do = "store" /\ X[p].file = new

\* A file of a record is replaced: stored, the old one removed, the row written.
LEMMA CarrierStep ==
    ASSUME IInv, NEW w \in Workers, NEW kind \in RemovesFirst, kind # "company", kind # "design",
           NEW r \in OfKind(kind), NEW slot \in 1..Columns(kind), NEW old, old = rows[r].files[slot],
           NEW X, OnlyStores(X), \A j, K : AllLight(j, X, K), NEW Z,
           NEW new, new = NoFile \/ Fits(new, kind, slot), Replaces(X, Z, old, new, served + 1),
           NEW c, c.do = "update", c.id = r, c.up = Same, c.text = AsIs, Files2(c.files, kind, slot, new),
           NEW todo, todo = (X \o Z) \o <<c>>,
           Begin(w, "update", kind, r, todo), UNCHANGED <<zip, snapshot>>
    PROVE  IInv'
<1> DEFINE j == Begun(w, "update", kind, r, todo) K == Known(rows, zip, job) V == X \o Z
           m == Len(V) + 1
<1>1. j = Begun(w, "update", kind, r, todo) /\ m = Len(V) + 1 /\ V = X \o Z /\ todo = V \o <<c>>
  OBVIOUS
<1>2. IsList(X)
  BY DEF AllLight
<1>3. IsList(Z) /\ \A q \in DOMAIN Z : Z = Removal(old) /\ Z[q].do = "remove" /\ Z[q].file = old /\ old # NoFile
                                       /\ q = 1 /\ Len(Z) = 1
  <2>1. CASE Z = <<>>
    BY <2>1, ListNone
  <2>2. CASE Z = Removal(old) /\ old = NoFile
    BY <2>2, RemovalIs, ListNone
  <2>3. CASE Z = Removal(old) /\ old # NoFile
    <3>1. PICK d : Z = <<d>> /\ d.do = "remove" /\ d.file = old
      BY <2>3, RemovalIs
    <3>2. IsList(Z) /\ Len(Z) = 1 /\ DOMAIN Z = {1} /\ Z[1] = d
      BY <3>1, ListOne
    <3>3. QED
      BY <2>3, <3>1, <3>2
  <2>4. QED
    BY <2>1, <2>2, <2>3 DEF Replaces
<1> HIDE DEF j, V, m
<1>4. /\ IsList(V) /\ Len(V) = Len(X) + Len(Z)
      /\ \A p \in DOMAIN X : p \in DOMAIN V /\ V[p] = X[p]
      /\ \A p \in DOMAIN Z : V[Len(X) + p] = Z[p]
      /\ \A p \in DOMAIN V : p \in DOMAIN X \/ \E q \in DOMAIN Z : p = Len(X) + q
  <2>1. IsList(V) /\ Len(V) = Len(X) + Len(Z)
    BY ONLY <1>1, <1>2, <1>3, ListConcat
  <2>2. \A p \in DOMAIN X : p \in DOMAIN V /\ V[p] = X[p]
    BY ONLY <1>1, <1>2, <1>3, ListConcat
  <2>3. \A p \in DOMAIN Z : V[Len(X) + p] = Z[p]
    BY ONLY <1>1, <1>2, <1>3, ListConcat
  <2>4. \A p \in DOMAIN V : p \in DOMAIN X \/ \E q \in DOMAIN Z : p = Len(X) + q
    BY ONLY <1>1, <1>2, <1>3, ListConcat
  <2>5. QED
    BY <2>1, <2>2, <2>3, <2>4
<1>5. Opened(j, "update", kind, r, todo)
  BY ONLY <1>1, IInv, w \in Workers, Begin(w, "update", kind, r, todo), BegunIs
<1>6. j.kind = kind /\ j.id = r /\ j.todo = todo /\ j.form = served + 1
  BY <1>5 DEF Opened
<1>7. /\ r \in DOMAIN rows /\ rows[r].kind = kind /\ slot \in DOMAIN rows[r].files
      /\ old = NoFile \/ Fits(old, kind, slot)
  <2>1. r \in DOMAIN rows /\ rows[r].kind = kind /\ IsRow(rows[r])
    BY AtFirst DEF OfKind
  <2>2. slot \in DOMAIN rows[r].files
    BY <2>1 DEF IsRow
  <2>3. QED
    BY <2>1, <2>2, RowFiles
<1>8. old # NoFile => /\ Claims(r, old, rows) /\ Fits(old, kind, slot) /\ old \in Files /\ old \in K
                      /\ old.n \in Int /\ old.n <= served
  <2>1. ASSUME old # NoFile PROVE old \in NamesOf(rows) /\ Claims(r, old, rows) /\ old \in Files
    BY <1>7, <2>1, AtFirst, TableNames, OwnFile
  <2>2. ASSUME old # NoFile PROVE old \in K
    BY <2>1, <2>2, AtFirst
  <2>3. \A f \in K : f.n \in Int /\ f.n <= served
    BY DEF IInv, Inv, KnownInv
  <2>4. QED
    BY <1>7, <2>1, <2>2, <2>3
<1> HIDE DEF K
<1>9. served \in Nat
  BY AtFirst
<1>10. old # NoFile => old.n # j.form
  <2>1. \A n \in Int : n <= served => n # served + 1
    BY <1>9
  <2>2. QED
    BY <1>6, <1>8, <2>1
<1>11. /\ IsList(todo) /\ todo # <<>> /\ m \in DOMAIN todo /\ m \in Nat /\ todo[m] = c /\ Len(todo) = m
       /\ \A p \in DOMAIN V : p \in DOMAIN todo /\ todo[p] = V[p] /\ p < m
       /\ \A p \in DOMAIN todo : p # m => p \in DOMAIN V /\ todo[p] = V[p] /\ p < m
  <2> DEFINE Y == <<>>
  <2>1. IsList(Y) /\ DOMAIN Y = {} /\ Len(Y) = 0
    BY ListNone
  <2>2. todo = (V \o <<c>>) \o Y
    <3>1. IsList(<<c>>)
      BY ListOne
    <3>2. IsList(todo)
      BY <1>1, <1>4, <3>1, ListConcat
    <3>3. todo \o Y = todo
      BY <3>2, ListEnds
    <3>4. QED
      BY <1>1, <3>3
  <2> HIDE DEF Y
  <2>3. Middle(V, c, Y, todo, m)
    BY <1>1, <1>4, <2>1, <2>2, ListMiddle
  <2>4. QED
    BY <2>1, <2>3 DEF Middle
<1>12. DOMAIN c.files = 1..Columns(kind) /\ c.files[slot] = new /\ \A k \in DOMAIN c.files : k = slot \/ c.files[k] = Keep
  BY DEF Files2
<1>13. NamesIn(c.files) \subseteq {new} \ {NoFile, Keep}
  BY <1>12 DEF NamesIn
<1>14. new = NoFile \/ (new = old /\ new # NoFile /\ new.n # j.form)
          \/ (new.n = j.form /\ \E p \in DOMAIN X : X[p].do = "store" /\ X[p].file = new)
  BY <1>6, <1>10 DEF Replaces
<1>15. CallOk(j, c)
  BY <1>6, <1>12 DEF CallOk, Dos
<1>16. Handled(c) = {} /\ Written(c) = NamesIn(c.files)
  BY DEF Written, Handled
<1>17. Shows(c, j.form) \subseteq K
  BY <1>8, <1>13, <1>14, <1>16 DEF Shows
<1>18. \A f \in Takes(c, j.form) : \E q \in DOMAIN todo : q < m /\ todo[q].do = "store" /\ todo[q].file = f
  <2>1. ASSUME NEW f \in Takes(c, j.form) PROVE \E p \in DOMAIN X : X[p].do = "store" /\ X[p].file = f
    BY <1>13, <1>14, <1>16 DEF Takes
  <2>2. QED
    BY <1>4, <1>11, <2>1
<1>19. UpdateOk(j, todo, m, rows)
  <2>1. CASE new = NoFile \/ new.n = j.form
    BY <1>11, <1>12, <2>1 DEF UpdateOk
  <2>2. CASE new = old /\ new # NoFile
    BY <1>6, <1>7, <1>8, <1>11, <1>12, <2>2 DEF UpdateOk
  <2>3. QED
    BY <1>14, <2>1, <2>2
<1>20. WriterOk(j, todo, m, rows, disk, K)
  BY <1>11, <1>15, <1>17, <1>18, <1>19 DEF WriterOk
<1>21. ASSUME NEW p \in DOMAIN todo, NEW q \in DOMAIN Z, p = Len(X) + q, todo[p] = Z[q]
       PROVE  todo[p].do = "remove" /\ CallOk(j, todo[p]) /\ RemoveOk(j, todo, p, rows) /\ todo[p].file \in K
  <2>1. todo[p].do = "remove" /\ todo[p].file = old /\ old # NoFile /\ q = 1 /\ Len(Z) = 1
    BY <1>3, <1>21
  <2>2. p = m - 1 /\ p + 1 = m
    <3>1. Len(X) \in Nat
      BY <1>2, ListIs
    <3>2. QED
      BY <1>1, <1>4, <1>21, <2>1, <3>1
  <2>3. CallOk(j, todo[p])
    BY <1>8, <2>1 DEF CallOk, Dos
  <2>4. old.slot = slot
    BY <1>8, <2>1 DEF Fits
  <2>5. new = NoFile \/ new.n = j.form
    <3>1. Z # <<>>
      BY <1>21, ListNone
    <3>2. QED
      BY <1>6, <3>1 DEF Replaces
  <2>6. new # Keep
    BY FitsFile DEF NoFile, Keep
  <2>7. Final(j, old, c)
    BY <1>12, <2>4, <2>5, <2>6 DEF Final
  <2>8. RemoveOk(j, todo, p, rows)
    BY <1>6, <1>8, <1>11, <2>1, <2>2, <2>7 DEF RemoveOk
  <2>9. QED
    BY <1>8, <2>1, <2>3, <2>8
<1>22. ASSUME NEW p \in DOMAIN todo, p # m
       PROVE  \/ p \in DOMAIN X /\ todo[p] = X[p]
              \/ \E q \in DOMAIN Z : p = Len(X) + q /\ todo[p] = Z[q]
  BY <1>4, <1>11, <1>22
<1>23. RestOk(j, todo, m, rows, K)
  <2>1. ASSUME NEW p \in DOMAIN todo, p # m
        PROVE  \/ Light(j, todo[p], K)
               \/ todo[p].do = "remove" /\ CallOk(j, todo[p]) /\ RemoveOk(j, todo, p, rows) /\ todo[p].file \in K
    <3>1. CASE p \in DOMAIN X /\ todo[p] = X[p]
      <4>1. AllLight(j, X, K)
        OBVIOUS
      <4>2. QED
        BY <3>1, <4>1 DEF AllLight
    <3>2. CASE \E q \in DOMAIN Z : p = Len(X) + q /\ todo[p] = Z[q]
      BY <1>21, <3>2
    <3>3. QED
      BY <1>22, <2>1, <3>1, <3>2
  <2>2. QED
    BY <2>1 DEF RestOk
<1>24. ASSUME NEW p \in DOMAIN todo, p < Len(todo) PROVE todo[p].do \in {"store", "remove", "refuse"}
  <2>1. p # m
    BY <1>11, <1>24
  <2>2. CASE p \in DOMAIN X /\ todo[p] = X[p]
    BY <2>2 DEF OnlyStores
  <2>3. CASE \E q \in DOMAIN Z : p = Len(X) + q /\ todo[p] = Z[q]
    BY <1>3, <2>3
  <2>4. QED
    BY <1>22, <2>1, <2>2, <2>3
<1>25. ListOk(j, todo, rows, disk) /\ ShownBy(j) \subseteq K
  BY <1>6, <1>11, <1>20, <1>23, <1>24, ListIsOk
<1>26. QED
  BY <1>1, <1>11, <1>25, BareKinds, RequestStep DEF K

\* A record that carries files is updated.
LEMMA UpdateCarrierStep ==
    ASSUME IInv, NEW w \in Workers, UpdateCarrier(w), UNCHANGED <<zip, snapshot>>
    PROVE  IInv'
<1>1. PICK s, r, slot, chosen :
        /\ s \in Carriers /\ r \in OfKind(s.kind) /\ slot \in 1..s.files
        /\ LET old == rows[r].files[slot]
               new == CASE chosen = "file" -> Fresh(s.tree, slot) [] chosen = "remove" -> NoFile [] OTHER -> old
           IN  Begin(w, "update", s.kind, r,
                     Store(s.tree, slot, chosen)
                     \o (IF chosen \in {"file", "remove"} THEN Removal(old) ELSE <<>>)
                     \o UpdateRow(r, [k \in 1..s.files |-> IF k = slot THEN new ELSE Keep], TRUE, AsIs))
  <2> DEFINE P(s, r, slot, chosen) ==
               LET old == rows[r].files[slot]
                   new == CASE chosen = "file" -> Fresh(s.tree, slot) [] chosen = "remove" -> NoFile [] OTHER -> old
               IN  Begin(w, "update", s.kind, r,
                         Store(s.tree, slot, chosen)
                         \o (IF chosen \in {"file", "remove"} THEN Removal(old) ELSE <<>>)
                         \o UpdateRow(r, [k \in 1..s.files |-> IF k = slot THEN new ELSE Keep], TRUE, AsIs))
  <2>1. \E s \in Carriers : \E r \in OfKind(s.kind), slot \in 1..s.files,
                           chosen \in {"none", "file", "wrong type", "remove"} : P(s, r, slot, chosen)
    BY DEF UpdateCarrier
  <2> HIDE DEF P
  <2>2. \E s, r, slot, chosen :
           s \in Carriers /\ r \in OfKind(s.kind) /\ slot \in 1..s.files /\ P(s, r, slot, chosen)
    BY <2>1
  <2>3. QED
    BY <2>2 DEF P
<1> DEFINE kind == s.kind old == rows[r].files[slot] file == Fresh(s.tree, slot)
           new == CASE chosen = "file" -> file [] chosen = "remove" -> NoFile [] OTHER -> old
           X == Store(s.tree, slot, chosen)
           Z == IF chosen \in {"file", "remove"} THEN Removal(old) ELSE <<>>
           files == [k \in 1..s.files |-> IF k = slot THEN new ELSE Keep]
           todo == X \o Z \o UpdateRow(r, files, TRUE, AsIs)
<1>2. Begin(w, "update", kind, r, todo) /\ r \in OfKind(kind) /\ slot \in 1..s.files /\ s \in Carriers
  BY <1>1
<1>3. /\ kind \in RemovesFirst /\ s.tree = TreeOf(kind) /\ s.tree \in TreeNames
      /\ s.files = Columns(kind) /\ s.files \in {1, 2} /\ kind # "company" /\ kind # "design"
  BY <1>2, CarriersAre
<1>4. old = rows[r].files[slot]
  OBVIOUS
<1>5. /\ chosen = "file" => new = file /\ Z = Removal(old)
      /\ chosen = "remove" => new = NoFile /\ Z = Removal(old)
      /\ chosen \notin {"file", "remove"} => new = old /\ Z = <<>>
  OBVIOUS
<1>6. slot \in {1, 2}
  BY <1>2, <1>3
<1>7. Fits(file, kind, slot) /\ file.n = served + 1
  <2> HIDE DEF kind
  <2>1. QED
    BY <1>3, <1>6, FreshFits
<1>8. Storing(X, file, chosen)
  BY <1>3, <1>6, AtFirst, LightStore
<1>9. PICK c : /\ UpdateRow(r, files, TRUE, AsIs) = <<c>> /\ c.do = "update" /\ c.id = r /\ c.files = files
               /\ c.up = Same /\ c.text = AsIs
  <2> HIDE DEF files
  <2> DEFINE d == [do |-> "update", id |-> r, up |-> Same, files |-> files, text |-> AsIs, head |-> TRUE]
  <2>1. UpdateRow(r, files, TRUE, AsIs) = <<d>> /\ d.do = "update" /\ d.id = r /\ d.files = files /\ d.up = Same /\ d.text = AsIs
    BY DEF UpdateRow
  <2>2. QED
    BY <2>1
<1>10. todo = (X \o Z) \o <<c>>
  BY <1>9
<1> HIDE DEF kind, old, file, new, X, Z, todo
<1>11. DOMAIN files = 1..Columns(kind) /\ files[slot] = new /\ \A k \in DOMAIN files : k = slot \/ files[k] = Keep
  BY <1>2, <1>3
<1> HIDE DEF files
<1>12. new = NoFile \/ Fits(new, kind, slot)
  BY <1>5, <1>7, <1>2, AtFirst, <1>3, <1>4, RowFiles DEF OfKind, IsRow
<1>13. Replaces(X, Z, old, new, served + 1)
  BY <1>8, <1>5, <1>7 DEF Storing, Replaces
<1>14. QED
  BY <1>2, <1>3, <1>4, <1>9, <1>10, <1>11, <1>8, <1>12, <1>13, CarrierStep DEF Files2, Storing

\* A record that carries files is deleted, after the first of them.
LEMMA DeleteCarrierStep ==
    ASSUME IInv, NEW w \in Workers, DeleteCarrier(w), UNCHANGED <<zip, snapshot>>
    PROVE  IInv'
<1>1. PICK s, r : /\ s \in Carriers /\ r \in OfKind(s.kind)
                  /\ Begin(w, "delete", s.kind, r, Removal(rows[r].files[1]) \o Deletion(s.kind, r))
  BY DEF DeleteCarrier
<1> DEFINE kind == s.kind old == rows[r].files[1] X == Removal(old) c == [do |-> "delete", kind |-> kind, id |-> r]
           todo == X \o <<c>> j == Begun(w, "delete", kind, r, todo) K == Known(rows, zip, job)
<1>2. Begin(w, "delete", kind, r, todo) /\ j = Begun(w, "delete", kind, r, todo) /\ old = rows[r].files[1]
  BY <1>1 DEF Deletion
<1>3. /\ kind \in RemovesFirst /\ r \in OfKind(kind) /\ Columns(kind) \in {1, 2} /\ kind # "design"
  BY <1>1, CarriersAre
<1>4. c.do = "delete" /\ c.kind = kind /\ c.id = r
  OBVIOUS
<1>5. IsList(X) /\ \A q \in DOMAIN X : X[q].do = "remove" /\ X[q].file = old /\ old # NoFile /\ q = 1 /\ Len(X) = 1
  <2>1. CASE old = NoFile
    BY <2>1, RemovalIs, ListNone
  <2>2. CASE old # NoFile
    <3>1. PICK d : X = <<d>> /\ d.do = "remove" /\ d.file = old
      BY <2>2, RemovalIs
    <3> HIDE DEF X
    <3>2. QED
      BY <2>2, <3>1, ListOne
  <2>3. QED
    BY <2>1, <2>2
<1>6. todo = X \o <<c>>
  OBVIOUS
<1> HIDE DEF kind, old, X, c, todo, j
<1>7. Opened(j, "delete", kind, r, todo)
  BY ONLY <1>2, IInv, w \in Workers, BegunIs
<1>8. j.kind = kind /\ j.id = r /\ j.todo = todo
  BY <1>7 DEF Opened
<1>9. /\ r \in DOMAIN rows /\ rows[r].kind = kind /\ 1 \in DOMAIN rows[r].files /\ 1 \in 1..Columns(kind)
  <2>1. 1 \in 1..Columns(kind)
    BY <1>3
  <2>2. QED
    BY <1>3, AtFirst, <2>1 DEF IsRow, OfKind
<1>10. old # NoFile => Claims(r, old, rows) /\ Fits(old, kind, 1) /\ old \in Files /\ old \in K
  BY <1>2, <1>9, TableNames, <1>3, AtFirst, OwnFile
<1> HIDE DEF K
<1> DEFINE C == <<c>> m == Len(X) + 1
<1>11. IsList(C) /\ Len(C) = 1 /\ DOMAIN C = {1} /\ C[1] = c /\ todo = X \o C
  BY <1>6, ListOne
<1> HIDE DEF C
<1>12. /\ IsList(todo) /\ Len(todo) = m
       /\ \A p \in DOMAIN X : todo[p] = X[p]
       /\ todo[m] = c
       /\ \A p \in DOMAIN todo : p \in DOMAIN X \/ p = m
       /\ m \in Nat /\ m > 0
  <2>1. IsList(todo) /\ Len(todo) = Len(X) + Len(C)
    BY ONLY <1>5, <1>11, ListConcat
  <2>2. \A p \in DOMAIN X : todo[p] = X[p]
    BY ONLY <1>5, <1>11, ListConcat
  <2>3. \A p \in DOMAIN C : todo[Len(X) + p] = C[p]
    BY ONLY <1>5, <1>11, ListConcat
  <2>4. \A p \in DOMAIN todo : p \in DOMAIN X \/ \E q \in DOMAIN C : p = Len(X) + q
    BY ONLY <1>5, <1>11, ListConcat
  <2>5. QED
    BY <1>11, <2>1, <2>2, <2>3, <2>4, <1>5, ListIs
<1> HIDE DEF m
<1>13. ASSUME NEW p \in DOMAIN X
       PROVE  /\ todo[p].do = "remove" /\ CallOk(j, todo[p]) /\ RemoveOk(j, todo, p, rows) /\ todo[p].file \in K
  BY <1>5, <1>12, <1>10, <1>4, <1>3, <1>8, <1>9 DEF CallOk, Dos, Final, RemoveOk
<1>14. RestOk(j, todo, 0, rows, K)
  BY <1>12, <1>4, <1>8, <1>13 DEF RestOk, Light, CallOk, Dos, Written, Handled
<1>15. 0 \notin DOMAIN todo
  BY <1>12, ListIs
<1>16. \A p \in DOMAIN todo : p < Len(todo) => todo[p].do \in {"store", "remove", "refuse"}
  BY <1>12, <1>13
<1>17. ListOk(j, todo, rows, disk) /\ ShownBy(j) \subseteq K
  BY <1>8, <1>12, <1>14, <1>15, <1>16, ListIsOk
<1>18. QED
  BY <1>2, <1>12, ListNone, <1>17, BareKinds, RequestStep DEF K
-----------------------------------------------------------------------------
(* A download and a restore begin.                                         *)

\* A download begins.
LEMMA CreateBackupZipStep ==
    ASSUME IInv, NEW w \in Workers, CreateBackupZip(w), UNCHANGED <<zip, snapshot>>
    PROVE  IInv'
<1> DEFINE c == [do |-> "copy database"] todo == <<c>> j == Begun(w, "backup", "zip", None, todo)
<1>1. Begin(w, "backup", "zip", None, todo) /\ j = Begun(w, "backup", "zip", None, todo) /\ c.do = "copy database"
  BY DEF CreateBackupZip
<1> HIDE DEF c
<1>2. IsList(todo) /\ todo # <<>> /\ Len(todo) = 1 /\ DOMAIN todo = {1} /\ todo[1] = c
  BY ListOne
<1> HIDE DEF todo, j
<1>3. Opened(j, "backup", "zip", None, todo)
  BY ONLY <1>1, IInv, w \in Workers, BegunIs
<1>4. QED
  BY <1>1, <1>2, <1>3, NothingShown, BeginStep DEF OpInv, BackupOk, Opened

\* The second of two lists begins where the first ends.
Appended(s, t, u) ==
    /\ IsList(u) /\ Len(u) = Len(s) + Len(t)
    /\ \A p \in DOMAIN s : u[p] = s[p]
    /\ \A p \in DOMAIN t : u[Len(s) + p] = t[p]
\* The places of a list appended to another.
LEMMA ListAppended ==
    ASSUME NEW s, IsList(s), NEW t, IsList(t), NEW u, u = s \o t
    PROVE  Appended(s, t, u)
<1>1. IsList(u) /\ Len(u) = Len(s) + Len(t)
  BY ListConcat
<1>2. \A p \in DOMAIN s : u[p] = s[p]
  BY ListConcat
<1>3. \A p \in DOMAIN t : u[Len(s) + p] = t[p]
  BY ListConcat
<1>4. QED
  BY <1>1, <1>2, <1>3 DEF Appended

\* Each folder in turn is moved aside and copied in.
LEMMA SwapInIs ==
    /\ IsList(SwapIn) /\ Len(SwapIn) = 8 /\ DOMAIN SwapIn = 1..8
    /\ \A k \in 1..8 : InProgram(SwapIn[k], 6 + k)
<1> DEFINE S == SwapIn
           away(k) == [do |-> "move aside", tree |-> Trees[(k + 1) \div 2]]
           in(k) == [do |-> "copy in", tree |-> Trees[k \div 2], aside |-> {}]
<1>1. S = [k \in 1..8 |-> IF k % 2 = 1 THEN away(k) ELSE in(k)]
  BY TreesAre DEF SwapIn
<1>2. \A k : away(k).do = "move aside" /\ away(k).tree = Trees[(k + 1) \div 2]
  OBVIOUS
<1>3. \A k : /\ in(k).do = "copy in" /\ in(k).tree = Trees[k \div 2] /\ in(k).aside = {}
             /\ in(k) = [do |-> "copy in", tree |-> in(k).tree, aside |-> in(k).aside]
  OBVIOUS
<1> HIDE DEF S, away, in
<1>4. S = [k \in 1..8 |-> S[k]] /\ \A k \in 1..8 : S[k] = IF k % 2 = 1 THEN away(k) ELSE in(k)
  BY <1>1
<1>5. ASSUME NEW k \in {1, 3, 5, 7}, k % 2 = 1 PROVE InProgram(S[k], 6 + k)
  <2>1. S[k] = away(k)
    BY <1>4, <1>5
  <2>2. 6 + k \in {7, 9, 11, 13}
    BY <1>5
  <2>3. TreeAt(6 + k) = Trees[(k + 1) \div 2]
    BY <1>5 DEF TreeAt
  <2>4. QED
    BY <1>2, <2>1, <2>2, ProgramIs, <2>3 DEF InProgram
<1>6. ASSUME NEW k \in {2, 4, 6, 8}, k % 2 # 1 PROVE InProgram(S[k], 6 + k)
  <2>1. 6 + k \in {8, 10, 12, 14}
    BY <1>6
  <2>2. Program[6 + k] = "copy in"
    BY <2>1, ProgramIs
  <2>3. QED
    BY <1>3, <1>4, <1>6, <2>2 DEF InProgram, IsCopyIn, TreeAt
<1>7. \A k \in 1..8 : InProgram(S[k], 6 + k)
  BY <1>5, <1>6
<1>8. QED
  BY <1>4, ListFun, <1>7 DEF S

\* What a restore has before it.
Restoration == <<[do |-> "keep database"]>> \o Each("keep")
                  \o <<[do |-> "swap database"]>> \o SwapIn \o <<[do |-> "migrate"]>>
\* A restore begins with the whole of its program before it.
LEMMA RestorationFollows == IsList(Restoration) /\ Len(Restoration) = 15 /\ Follows(Restoration)
<1> DEFINE a == [do |-> "keep database"] b == [do |-> "swap database"] m == [do |-> "migrate"]
           A == <<a>> B == Each("keep") C == <<b>> S == SwapIn M == <<m>>
           S1 == A \o B S2 == S1 \o C S3 == S2 \o S S4 == S3 \o M
<1>1. a.do = "keep database" /\ b.do = "swap database" /\ m.do = "migrate"
  OBVIOUS
<1>2. S4 = Restoration
  BY DEF Restoration
<1> HIDE DEF a, b, m
<1>3. /\ IsList(A) /\ Len(A) = 1 /\ DOMAIN A = {1} /\ A[1] = a
      /\ IsList(C) /\ Len(C) = 1 /\ DOMAIN C = {1} /\ C[1] = b
      /\ IsList(M) /\ Len(M) = 1 /\ DOMAIN M = {1} /\ M[1] = m
  BY ListOne
<1>4. /\ IsList(B) /\ Len(B) = 4 /\ DOMAIN B = 1..4
      /\ \A k \in 1..4 : B[k].do = "keep" /\ B[k].tree = Trees[k]
  BY EachIs
<1>5. IsList(S) /\ Len(S) = 8 /\ DOMAIN S = 1..8 /\ \A k \in 1..8 : InProgram(S[k], 6 + k)
  BY SwapInIs
<1> HIDE DEF A, B, C, S, M
<1>6. IsList(S1) /\ Len(S1) = 5 /\ S1[1] = a /\ \A k \in 1..4 : S1[1 + k] = B[k]
  <2>1. Appended(A, B, S1)
    BY <1>3, <1>4, ListAppended
  <2> HIDE DEF S1
  <2>2. QED
    BY <1>3, <1>4, <2>1 DEF Appended
<1> HIDE DEF S1
<1>7. IsList(S2) /\ Len(S2) = 6 /\ (\A p \in 1..5 : S2[p] = S1[p]) /\ S2[6] = b
  <2>1. Appended(S1, C, S2)
    BY <1>3, <1>6, ListAppended
  <2> HIDE DEF S2
  <2>2. QED
    BY <1>3, <1>6, <2>1, ListIs DEF Appended
<1> HIDE DEF S2
<1>8. IsList(S3) /\ Len(S3) = 14 /\ (\A p \in 1..6 : S3[p] = S2[p]) /\ \A k \in 1..8 : S3[6 + k] = S[k]
  <2>1. Appended(S2, S, S3)
    BY <1>5, <1>7, ListAppended
  <2> HIDE DEF S3
  <2>2. QED
    BY <1>5, <1>7, <2>1, ListIs DEF Appended
<1> HIDE DEF S3
<1>9. IsList(S4) /\ Len(S4) = 15 /\ (\A p \in 1..14 : S4[p] = S3[p]) /\ S4[15] = m
  <2>1. Appended(S3, M, S4)
    BY <1>3, <1>8, ListAppended
  <2>2. DOMAIN S3 = 1..14
    BY <1>8, ListIs
  <2> HIDE DEF S4
  <2>3. QED
    BY <1>3, <1>8, <2>1, <2>2 DEF Appended
<1> HIDE DEF S4
<1>10. InProgram(S4[1], 1)
  <2>1. S4[1] = a
    BY <1>6, <1>7, <1>8, <1>9
  <2>2. QED
    BY <1>1, <2>1, ProgramIs DEF InProgram
<1>11. ASSUME NEW k \in {1, 2, 3, 4} PROVE InProgram(S4[1 + k], 1 + k)
  <2>1. 1 + k \in {2, 3, 4, 5} /\ 1 + k \in 1..5 /\ 1 + k \in 1..6 /\ 1 + k \in 1..14 /\ k \in 1..4
    OBVIOUS
  <2>2. Program[1 + k] = "keep"
    BY <2>1, ProgramIs
  <2>3. QED
    BY <1>4, <2>1, <1>6, <1>7, <1>8, <1>9, <2>2 DEF InProgram, TreeAt
<1>12. InProgram(S4[6], 6)
  <2>1. S4[6] = b
    BY <1>7, <1>8, <1>9
  <2>2. QED
    BY <1>1, <2>1, ProgramIs DEF InProgram
<1>13. ASSUME NEW k \in 1..8 PROVE InProgram(S4[6 + k], 6 + k)
  BY <1>8, <1>9, <1>5
<1>14. InProgram(S4[15], 15)
  BY <1>1, <1>9, ProgramIs DEF InProgram
<1>15. ASSUME NEW p \in 1..15 PROVE InProgram(S4[p], p)
  BY <1>10, <1>11, <1>12, <1>13, <1>14
<1>16. QED
  BY <1>2, <1>9, ListIs, <1>15 DEF Follows

\* What is not a backup of ours is refused, the rest restored.
LEMMA RestoreFromZipStep ==
    ASSUME IInv, NEW w \in Workers, RestoreFromZip(w), UNCHANGED <<zip, snapshot>>
    PROVE  IInv'
<1>1. PICK todo : (todo = Refused \/ todo = Restoration) /\ Begin(w, "restore", "zip", None, todo)
  <2> HIDE DEF Refused, Restoration
  <2>1. QED
    BY DEF RestoreFromZip, Refused, Restoration
<1> DEFINE j == Begun(w, "restore", "zip", None, todo)
<1>2. j = Begun(w, "restore", "zip", None, todo)
  OBVIOUS
<1>3. IsList(Refused) /\ Len(Refused) = 1 /\ DOMAIN Refused = {1} /\ Refused[1].do = "refuse"
  <2> DEFINE c == [do |-> "refuse"]
  <2> HIDE DEF c
  <2>1. QED
    BY ListOne DEF Refused
<1>4. IsList(todo) /\ todo # <<>> /\ (Len(todo) = 1 \/ Len(todo) = 15)
  BY <1>1, <1>3, RestorationFollows, ListNone
<1> HIDE DEF j
<1>5. "restore" # "idle"
  OBVIOUS
<1>6. Starts(w, "restore", "zip", None, todo, j, Others(w))
  BY ONLY <1>1, <1>2, <1>4, <1>5, IInv, w \in Workers, Begins
<1>7. j.op = "restore" /\ j.todo = todo /\ j.before = [rows |-> rows, disk |-> disk] /\ j.end = "no"
  BY <1>6 DEF Starts
<1>8. Untouched(j.before, todo, rows, disk, snapshot)
  <2>1. ASSUME todo # Refused PROVE Len(todo) \notin 10..14
    BY <1>1, <2>1, RestorationFollows
  <2>2. QED
    BY <1>7, <2>1 DEF Untouched
<1>9. StageOk(j, todo, rows, disk, nextId, zip, snapshot)
  <2>1. CASE todo = Refused
    BY <1>8, <2>1, Stages
  <2>2. CASE todo = Restoration
    <3>1. Len(todo) > 9
      BY <2>2, RestorationFollows
    <3>2. QED
      BY <1>8, <3>1, Stages
  <2>3. QED
    BY <1>1, <2>1, <2>2
<1>10. ShownBy(j) \subseteq Known(rows, zip, job)
  BY <1>3, <1>7, NothingShown, <1>4, FollowsShows, RestorationFollows, <1>1
<1>11. QED
  BY <1>1, <1>2, <1>4, <1>5, <1>7, <1>9, RestorationFollows, <1>10, BeginStep DEF OpInv

-----------------------------------------------------------------------------
(* The specification.                                                      *)

\* The database in use and the backup at hand are as the assumptions have them.
LEMMA InitInv == Init => IInv
<1> SUFFICES ASSUME Init PROVE IInv
  OBVIOUS
<1>1. /\ rows = Stored /\ disk = NamesOf(rows) /\ served = 0 /\ zip = Earlier
      /\ job = [w \in Workers |-> Idle]
  BY DEF Init
<1>2. job = [w \in Workers |-> job[w]] /\ \A w \in Workers : job[w] = Idle
  BY <1>1
<1>3. IsTable(rows) /\ \A f \in NamesOf(rows) : f.n <= 0
  BY <1>1, StoredAssumption
<1>4. ASSUME NEW Q, IsTable(Q), NEW f \in NamesOf(Q) PROVE f \in Files /\ f.n \in Int
  <2>1. PICK i \in DOMAIN Q : \E k \in DOMAIN Q[i].files : f = Q[i].files[k]
    BY NamesTable
  <2>2. PICK k \in DOMAIN Q[i].files : f = Q[i].files[k]
    BY <2>1
  <2>3. Fits(f, Q[i].kind, k)
    BY <2>2, <1>4, NamesTable, RowFiles DEF IsTable
  <2>4. QED
    BY <2>3, FitsFile DEF Fits
<1>5. DataInv(rows, disk, zip, served)
  BY <1>1, EarlierAssumption, <1>3, <1>4 DEF DataInv
<1>6. KnownInv(rows, zip, job, served)
  BY <1>2, KnownIs, <1>1, EarlierAssumption, <1>5, <1>3, <1>4 DEF DataInv, KnownInv
<1>7. QED
  BY <1>2, <1>5, <1>6, <1>1, TableNames DEF IInv, Inv, PairInv, JobInv, ServedInv, ThereOrMended

\* What the invariant says of every path.
LEMMA ServedFollows == IInv => PathsAreServed
<1> SUFFICES ASSUME IInv PROVE PathsAreServed
  OBVIOUS
<1>1. ServedInv(rows, disk, job) /\ Inv(rows, nextId, disk, job, served, zip, snapshot)
  BY DEF IInv, Inv
<1>2. ASSUME NEW w \in Workers, Serves(job[w]) PROVE Serving(w)
  BY <1>1, <1>2, ServesJob DEF Serving
<1>3. CASE \E w \in Workers : Swapping(job[w])
  BY <1>2, <1>3 DEF Swapping, Restoring, PathsAreServed
<1>4. CASE ThereOrMended(rows, disk, job)
  <2>1. ASSUME NEW i \in DOMAIN rows, NEW k \in DOMAIN rows[i].files
        PROVE  \/ rows[i].files[k] \in disk \union {NoFile}
               \/ rows[i].odd \/ Restoring
               \/ rows[i].kind \in RemovesFirst /\ \E w \in Workers : Serving(w) /\ job[w].id = i
    <3>1. CASE rows[i].files[k] \in disk \union {NoFile} \/ rows[i].odd
      BY <3>1
    <3>2. CASE \E w \in Workers : Mends(job[w], i, k, rows[i])
      <4>1. PICK w \in Workers : Mends(job[w], i, k, rows[i])
        BY <3>2
      <4>2. QED
        BY <1>2, <4>1 DEF Mends
    <3>3. QED
      BY <1>4, <3>1, <3>2 DEF ThereOrMended
  <2>2. QED
    BY <2>1 DEF PathsAreServed
<1>5. QED
  BY <1>1, <1>3, <1>4 DEF ServedInv

\* Where a restore that nothing came between stands.
LEMMA RestoreStands ==
    ASSUME IInv, NEW w \in Workers, job[w].op = "restore", job[w].alone
    PROVE  /\ IsJob(job[w], served) /\ StageOk(job[w], job[w].todo, rows, disk, nextId, zip, snapshot)
           /\ job[w].end # "no" => job[w].todo = <<>>
BY ServesJob DEF Idle, IInv, Ordinary, OpInv, IsJob

\* No call is left, and none was refused.
LEMMA NoCalls == <<>> # Refused /\ ~(Len(<<>>) > 9)
<1> DEFINE s == <<>>
<1>1. Len(s) = 0
  BY ListNone
<1> HIDE DEF s
<1>2. Len(Refused) = 1
  BY ListOne DEF Refused
<1>3. s # Refused /\ ~(Len(s) > 9)
  BY <1>1, <1>2
<1>4. QED
  BY <1>3 DEF s

\* A restore that was finished put in every folder and every row of the backup.
LEMMA RestoredFollows == IInv => RestoredIsTheBackup
<1> SUFFICES ASSUME IInv, NEW w \in Workers, Done(w), job[w].op = "restore"
             PROVE  /\ disk = zip.files /\ nextId = zip.nextId /\ DOMAIN rows = DOMAIN zip.rows
                    /\ \A i \in DOMAIN rows : [rows[i] EXCEPT !.odd = zip.rows[i].odd] = zip.rows[i]
  BY DEF RestoredIsTheBackup
<1> DEFINE s == job[w].todo
<1>1. job[w].end = "ok" /\ job[w].alone
  BY DEF Done
<1>2. s = <<>> /\ StageOk(job[w], s, rows, disk, nextId, zip, snapshot)
  BY <1>1, RestoreStands
<1>3. s # Refused /\ ~(Len(s) > 9) /\ Len(s) = 0
  BY <1>2, NoCalls, ListNone
<1> HIDE DEF s
<1>4. /\ SameRows(rows, zip.rows, zip.whole) /\ nextId = zip.nextId
      /\ \A t \in 1..4 : Len(s) <= 9 - 2 * t => OfTree(disk, t) = OfTree(zip.files, t)
  BY <1>1, <1>2, <1>3, Stages DEF SwappedIn
<1>5. DOMAIN rows = DOMAIN zip.rows
  BY <1>4 DEF SameRows
<1>6. ASSUME NEW i \in DOMAIN rows PROVE [rows[i] EXCEPT !.odd = zip.rows[i].odd] = zip.rows[i]
  <2> DEFINE r == zip.rows[i] b == r.odd \/ ~zip.whole
  <2>1. r = [field \in DOMAIN r |-> r[field]] /\ "odd" \in DOMAIN r
    BY <1>5 DEF IsRow, IsTable, IInv, Inv, DataInv
  <2> HIDE DEF r, b
  <2>2. QED
    BY <1>4, <1>5, <2>1 DEF r, SameRows
<1>7. QED
  BY <1>4, <1>3, SameFolders, <1>5, <1>6 DEF IInv, Inv, DataInv

\* What the snapshot of a restore holds from the first folder on.
LEMMA ReversibleFollows == IInv => RestoreIsReversible
<1> SUFFICES ASSUME IInv, NEW w \in Workers, job[w].op = "restore", job[w].alone
             PROVE  \/ rows = job[w].before.rows /\ disk = job[w].before.disk
                    \/ snapshot = [rows |-> job[w].before.rows, files |-> job[w].before.disk]
  BY DEF RestoreIsReversible
<1> DEFINE j == job[w] s == job[w].todo
<1>1. QED
  BY RestoreStands, Stages DEF Untouched, HalfDone, SwappedIn

\* Where a restore has failed no folder is half one and half the other.
LEMMA CleanFollows == IInv => FailedRestoreIsClean
<1> SUFFICES ASSUME IInv, NEW w \in Workers, job[w].op = "restore", job[w].alone, job[w].end = "failed",
                    NEW tree \in Range(Trees)
             PROVE  Of(tree) \in {{f \in from : f.tree = tree} : from \in {zip.files, job[w].before.disk}}
  BY DEF FailedRestoreIsClean
<1> DEFINE j == job[w] s == job[w].todo was == job[w].before.disk
<1>1. PICK t \in 1..4 : tree = Trees[t]
  BY TreesAre DEF Range
<1>2. ASSUME NEW D PROVE OfTree(D, t) = {f \in D : f.tree = tree}
  BY <1>1 DEF OfTree, Within
<1>3. PICK from \in {zip.files, was} : Of(tree) = OfTree(from, t)
  BY RestoreStands, NoCalls, Stages, <1>2 DEF Untouched, HalfDone, Of
<1>4. QED
  BY <1>3, <1>2

\* What the invariant says of backups.
LEMMA BackupsFollow == IInv => BackupsAreSound
<1>1. IInv => BackupIsWhole
  BY DEF IInv, Inv, DataInv, BackupIsWhole
<1>2. QED
  BY <1>1, ReversibleFollows, RestoredFollows, CleanFollows DEF BackupsAreSound

\* Whatever request begins, the invariant holds of what it is to do.
LEMMA AnyRequestStep ==
    ASSUME IInv, NEW w \in Workers, Request(w), UNCHANGED <<zip, snapshot>>
    PROVE  IInv'
<1>1. CASE CatalogueRequest(w)
  BY <1>1, CreateCategoryStep, RenameStep, DeleteCategoryStep, CreateProductStep, UpdateProductStep,
     DuplicateProductStep, DeleteProductStep, CreateFolderStep, DeleteFolderStep, CreateDesignStep,
     DuplicateDesignStep, UpdateDesignStep, DeleteDesignStep DEF CatalogueRequest
<1>2. CASE MasterDataRequest(w)
  BY <1>2, CreateRecordStep, UpdateRecordStep, DeleteRecordStep, SaveCompanyStep, CreateCarrierStep,
     UpdateCarrierStep, DeleteCarrierStep, EntryStep DEF MasterDataRequest
<1>3. QED
  BY <1>1, <1>2, CreateBackupZipStep, RestoreFromZipStep DEF Request

\* Every step keeps the invariant.
LEMMA NextInv == IInv /\ [Next]_vars => IInv'
<1> SUFFICES ASSUME IInv, [Next]_vars PROVE IInv'
  OBVIOUS
<1>1. CASE UNCHANGED vars
  BY <1>1 DEF vars, IInv
<1>2. CASE Next
  <2>1. PICK w \in Workers :
           \/ /\ \/ Request(w) \/ Call(w) \/ CatalogueCall(w) \/ Kill(w)
                 \/ CopyDatabase(w) \/ Walk(w) \/ SwapDatabase(w) \/ MoveAside(w) \/ CopyIn(w) \/ Migrate(w)
              /\ UNCHANGED <<zip, snapshot>>
           \/ Send(w) /\ UNCHANGED snapshot
           \/ (KeepDatabase(w) \/ KeepTree(w)) /\ UNCHANGED zip
    BY <1>2 DEF Next
  <2>2. CASE Request(w) /\ UNCHANGED <<zip, snapshot>>
    BY <2>2, AnyRequestStep
  <2>3. CASE Call(w) /\ UNCHANGED <<zip, snapshot>>
    BY <2>3, InsertStep, UpdateStep, ReplaceStep, DeleteStep, WriteStep, UnlinkStep, RefuseStep DEF Call
  <2>4. CASE CatalogueCall(w) /\ UNCHANGED <<zip, snapshot>>
    BY <2>4, ListProductsStep, CopyPalletsStep, OpenProductStep, CountStep DEF CatalogueCall
  <2>5. CASE Kill(w) /\ UNCHANGED <<zip, snapshot>>
    BY <2>5, KillStep
  <2>6. CASE (CopyDatabase(w) \/ Walk(w)) /\ UNCHANGED <<zip, snapshot>>
    BY <2>6, CopyDatabaseStep, WalkStep
  <2>7. CASE Send(w) /\ UNCHANGED snapshot
    BY <2>7, SendStep
  <2>8. CASE (KeepDatabase(w) \/ KeepTree(w)) /\ UNCHANGED zip
    BY <2>8, KeepDatabaseStep, KeepTreeStep
  <2>9. CASE (SwapDatabase(w) \/ MoveAside(w) \/ CopyIn(w) \/ Migrate(w)) /\ UNCHANGED <<zip, snapshot>>
    BY <2>9, SwapDatabaseStep, MoveAsideStep, CopyInStep, MigrateStep
  <2>10. QED
    BY <2>1, <2>2, <2>3, <2>4, <2>5, <2>6, <2>7, <2>8, <2>9
<1>3. QED
  BY <1>1, <1>2

\* The files behind the records are never lost: whichever requests of the
\* product catalogue and of the master data interleave, whether one copies a
\* design while another deletes it, replaces a file, backs up or restores, and
\* wherever a worker is killed, each path a row names is there to be served,
\* but for those PathsAreServed excepts (_delete_image_file, _save_image,
\* BackupService.restore_from_zip).
THEOREM FilesAreServed == Spec => []PathsAreServed
<1>1. Init => IInv
  BY InitInv
<1>2. IInv /\ [Next]_vars => IInv'
  BY NextInv
<1>3. IInv => PathsAreServed
  BY ServedFollows
<1>4. QED
  BY <1>1, <1>2, <1>3, PTL DEF Spec

\* A backup taken while nothing else went on is complete; a restore can be
\* undone from the moment it replaces anything, ends with exactly the backup,
\* and where it fails leaves every folder as it was or as the backup has it
\* (BackupService.create_backup_zip, restore_from_zip).
THEOREM BackupsStaySound == Spec => []BackupsAreSound
<1>1. Init => IInv
  BY InitInv
<1>2. IInv /\ [Next]_vars => IInv'
  BY NextInv
<1>3. IInv => BackupsAreSound
  BY BackupsFollow
<1>4. QED
  BY <1>1, <1>2, <1>3, PTL DEF Spec
=============================================================================
