---------------------------- MODULE Documents_proofs ----------------------------
(***************************************************************************)
(* What holds of Documents for every set of workers, documents and kinds,  *)
(* any number of requests and any number of crashes: the requests keep the *)
(* book of documents as DocumentBook promises, and a request that no other *)
(* comes between respects the lock of a confirmed proforma invoice, takes  *)
(* the client's stage forward only, and does what its handler promises.    *)
(***************************************************************************)
EXTENDS Documents, FiniteSetTheorems, SequenceTheorems, TLAPS

-----------------------------------------------------------------------------
(* Version numbers.                                                        *)

VersionsIn(V, d) == {v \in V : v.id = d}

\* The versions of a document are numbered 1, 2, ... without gap or repeat.
Numbered(S) ==
    /\ IsFiniteSet(S)
    /\ \A v \in S : v.n \in 1..Cardinality(S)
    /\ \A n \in 1..Cardinality(S) : \E v \in S : v.n = n
    /\ \A u, v \in S : u.n = v.n => u = v

\* A document without versions is numbered.
LEMMA NumberedEmpty == Numbered({})
BY FS_EmptySet DEF Numbered

\* One more, under the next number, leaves them numbered.
LEMMA NumberedAdd ==
    ASSUME NEW S, Numbered(S), NEW v, v.n = Cardinality(S) + 1
    PROVE  /\ Numbered(S \union {v}) /\ Cardinality(S \union {v}) = Cardinality(S) + 1
           /\ v \notin S
<1> DEFINE c == Cardinality(S)
           T == S \union {v}
<1>1. c \in Nat
  BY FS_CardinalityType DEF Numbered
<1>2. v \notin S
  BY <1>1 DEF Numbered
<1>3. IsFiniteSet(T) /\ Cardinality(T) = c + 1
  BY <1>2, FS_AddElement DEF Numbered
<1>4. \A u \in T : u.n \in 1..c + 1
  BY <1>1 DEF Numbered
<1>5. \A n \in 1..c + 1 : \E u \in T : u.n = n
  <2> TAKE n \in 1..c + 1
  <2>1. CASE n = c + 1
    BY <2>1
  <2>2. CASE n # c + 1
    <3>1. n \in 1..c
      BY <1>1, <2>2
    <3>2. QED
      BY <3>1 DEF Numbered
  <2>3. QED
    BY <2>1, <2>2
<1>6. \A u, x \in T : u.n = x.n => u = x
  BY <1>1 DEF Numbered
<1>7. QED
  BY <1>2, <1>3, <1>4, <1>5, <1>6 DEF Numbered

\* MAX(version_number) is the number of versions.
LEMMA LatestIsCount ==
    ASSUME NEW d, Numbered(VersionsOf(d))
    PROVE  LatestVersion(d) = Cardinality(VersionsOf(d))
<1> DEFINE S == VersionsOf(d)
           c == Cardinality(S)
           N == {0} \union {v.n : v \in S}
           P(n) == \A v \in S : v.n <= n
<1>1. c \in Nat
  BY FS_CardinalityType DEF Numbered
<1>2. c \in N
  <2>1. CASE c = 0
    BY <2>1
  <2>2. CASE c # 0
    BY <1>1, <2>2 DEF Numbered
  <2>3. QED
    BY <2>1, <2>2
<1>3. P(c)
  BY <1>1 DEF Numbered
<1>4. ASSUME NEW n \in N, P(n) PROVE n = c
  <2>1. n \in 0..c
    BY <1>1, <1>4 DEF Numbered
  <2>2. CASE c = 0
    BY <2>1, <2>2
  <2>3. CASE c # 0
    <3>1. c \in 1..c
      BY <1>1, <2>3
    <3>2. PICK v \in S : v.n = c
      BY <3>1 DEF Numbered
    <3>3. v.n <= n
      BY <3>2, <1>4
    <3>4. QED
      BY <3>2, <3>3, <2>1, <1>1
  <2>4. QED
    BY <2>2, <2>3
<1>5. (CHOOSE n \in N : P(n)) = c
  BY <1>2, <1>3, <1>4
<1>6. QED
  BY <1>5 DEF LatestVersion

\* The version of a number is the only one there is.
LEMMA VersionAt ==
    ASSUME NEW S, Numbered(S), NEW v \in S
    PROVE  (CHOOSE u \in S : u.n = v.n) = v
BY DEF Numbered

-----------------------------------------------------------------------------
(* The invariant of the book: ids are issued in order, versions numbered   *)
(* in order, and a request knows of its document what it relies on.        *)

\* The fields a request has.
Shape(j) ==
    /\ "pc" \in DOMAIN j
    /\ j.pc # "idle" => {"id", "kind", "alone"} \subseteq DOMAIN j /\ j.kind \in Kinds
    /\ j.pc = "update" => "no" \in DOMAIN j
    /\ j.pc = "record" => "n" \in DOMAIN j

Saving == {"update", "tables", "read", "version", "record"}

\* Of the documents D, the versions V and the next id: the document a request
\* saves was issued; its kind, and a minted number, are those the request was
\* given; and the version number it is about to use leaves no gap.
Fits(j, D, V, next) ==
    /\ j.pc \in Saving => j.id \in 1..next - 1
    /\ (j.pc = "update" /\ j.id \in DOMAIN D) =>
          D[j.id].kind = j.kind /\ (j.kind \notin TypedKinds => D[j.id].no = j.no)
    /\ j.pc = "record" => j.n \in 1..Cardinality(VersionsIn(V, j.id)) + 1

HasFields(row) ==
    /\ row = [f \in DOMAIN row |-> row[f]]
    /\ {"kind", "no", "up", "confirmed", "part"} \subseteq DOMAIN row
    /\ row.kind \in Kinds /\ row.confirmed \in BOOLEAN

\* What only SetStatus changes of a row.
SameBut(new, row) ==
    /\ HasFields(new) /\ new.kind = row.kind /\ new.confirmed = row.confirmed

Issued(D, next) ==
    /\ next \in Nat \ {0}
    /\ DOMAIN D \subseteq 1..next - 1
    /\ \A d \in DOMAIN D : HasFields(D[d])

Recorded(V, next) ==
    /\ \A v \in V : v.id \in 1..next - 1
    /\ \A d \in 1..next - 1 : Numbered(VersionsIn(V, d))

JobsFit ==
    /\ DOMAIN job = Workers
    /\ \A w \in Workers : Shape(job[w]) /\ Fits(job[w], docs, versions, nextId)

BookInv == Issued(docs, nextId) /\ Recorded(versions, nextId) /\ JobsFit

\* What the steps of one request leave true of the documents of the others:
\* ids are not reused, kinds and minted numbers stay, versions are not dropped.
Grows(D, V, next, D2, V2, next2) ==
    /\ next2 \in Int /\ next <= next2
    /\ \A d \in 1..next - 1 : d \in DOMAIN D2 =>
          /\ d \in DOMAIN D /\ D2[d].kind = D[d].kind
          /\ D[d].kind \notin TypedKinds => D2[d].no = D[d].no
    /\ \A d \in 1..next - 1 :
          /\ Cardinality(VersionsIn(V2, d)) \in Nat
          /\ Cardinality(VersionsIn(V, d)) <= Cardinality(VersionsIn(V2, d))

\* What a request relies on survives what grows the tables.
LEMMA FitsGrows ==
    ASSUME NEW j, NEW D, NEW V, NEW next, NEW D2, NEW V2, NEW next2,
           Fits(j, D, V, next), Issued(D, next), Recorded(V, next),
           Grows(D, V, next, D2, V2, next2)
    PROVE  Fits(j, D2, V2, next2)
<1>1. next \in Nat \ {0}
  BY DEF Issued
<1>2. j.pc \in Saving => j.id \in 1..next - 1 /\ j.id \in 1..next2 - 1
  BY <1>1 DEF Fits, Grows
<1>3. (j.pc = "update" /\ j.id \in DOMAIN D2) =>
         D2[j.id].kind = j.kind /\ (j.kind \notin TypedKinds => D2[j.id].no = j.no)
  BY <1>2 DEF Fits, Grows, Saving
<1>4. j.pc = "record" => j.n \in 1..Cardinality(VersionsIn(V2, j.id)) + 1
  <2> SUFFICES ASSUME j.pc = "record"
               PROVE  j.n \in 1..Cardinality(VersionsIn(V2, j.id)) + 1
    OBVIOUS
  <2>1. j.id \in 1..next - 1
    BY <1>2 DEF Saving
  <2>2. Cardinality(VersionsIn(V, j.id)) \in Nat
    BY <2>1, FS_CardinalityType DEF Recorded, Numbered
  <2>3. QED
    BY <2>1, <2>2 DEF Fits, Grows
<1>5. QED
  BY <1>2, <1>3, <1>4 DEF Fits

\* What changes no table grows it.
LEMMA StaysGrows ==
    ASSUME NEW D, NEW V, NEW next, Issued(D, next), Recorded(V, next)
    PROVE  Grows(D, V, next, D, V, next)
<1>1. \A d \in 1..next - 1 : Cardinality(VersionsIn(V, d)) \in Nat
  BY FS_CardinalityType DEF Recorded, Numbered
<1>2. QED
  BY <1>1 DEF Grows, Issued

\* Being interrupted changes nothing a request relies on.
LEMMA UnaloneFits ==
    ASSUME NEW j, NEW D, NEW V, NEW next, Shape(j), Fits(j, D, V, next)
    PROVE  LET k == [j EXCEPT !.alone = FALSE] IN Shape(k) /\ Fits(k, D, V, next)
<1> DEFINE k == [j EXCEPT !.alone = FALSE]
<1>1. DOMAIN k = DOMAIN j /\ k.pc = j.pc
  BY DEF Shape
<1>2. j.pc # "idle" => k.id = j.id /\ k.kind = j.kind
  BY DEF Shape
<1>3. j.pc = "update" => k.no = j.no
  BY DEF Shape
<1>4. j.pc = "record" => k.n = j.n
  BY DEF Shape
<1>5. Shape(k)
  BY <1>1, <1>2 DEF Shape
<1>6. Fits(k, D, V, next)
  BY <1>1, <1>2, <1>3, <1>4 DEF Fits, Saving
<1>7. QED
  BY <1>5, <1>6

\* A worker without a request relies on nothing.
LEMMA IdleFits ==
    ASSUME NEW D, NEW V, NEW next
    PROVE  Shape(Idle) /\ Fits(Idle, D, V, next)
BY DEF Shape, Fits, Idle, Saving

\* A step of one request: it fits what it finds, the others still do.
LEMMA StepInv ==
    ASSUME BookInv, NEW w \in Workers,
           DOMAIN job' = Workers, \A v \in Workers \ {w} : job'[v] = job[v],
           Shape(job'[w]), Fits(job'[w], docs', versions', nextId'),
           Issued(docs', nextId'), Recorded(versions', nextId'),
           Grows(docs, versions, nextId, docs', versions', nextId')
    PROVE  BookInv'
<1>1. ASSUME NEW v \in Workers \ {w}
      PROVE  Shape(job'[v]) /\ Fits(job'[v], docs', versions', nextId')
  <2>1. Shape(job[v]) /\ Fits(job[v], docs, versions, nextId)
    BY DEF BookInv, JobsFit
  <2>2. Fits(job[v], docs', versions', nextId')
    BY <2>1, FitsGrows DEF BookInv
  <2>3. QED
    BY <2>1, <2>2
<1>2. JobsFit'
  BY <1>1 DEF JobsFit
<1>3. QED
  BY <1>2 DEF BookInv

\* One that changes no document, version or id.
LEMMA QuietInv ==
    ASSUME BookInv, NEW w \in Workers, UNCHANGED <<docs, versions, nextId>>,
           DOMAIN job' = Workers, \A v \in Workers \ {w} : job'[v] = job[v],
           Shape(job'[w]), Fits(job'[w], docs, versions, nextId)
    PROVE  BookInv'
BY StaysGrows, StepInv DEF BookInv

-----------------------------------------------------------------------------
(* Every step keeps the invariant.                                         *)

\* A request that goes on with its document to a step that is neither the
\* header's update nor the recording of a version.
LEMMA GoesOn ==
    ASSUME NEW j, NEW k, NEW D, NEW V, NEW next,
           Shape(j), j.pc # "idle", DOMAIN j \subseteq DOMAIN k, k.kind = j.kind,
           k.pc \notin {"update", "record"}, k.pc \in Saving => k.id \in 1..next - 1
    PROVE  Shape(k) /\ Fits(k, D, V, next)
BY DEF Shape, Fits

\* A request goes on to its child tables, or to the read-back when it has none.
LEMMA ToTablesFits ==
    ASSUME NEW j, NEW D, NEW V, NEW next,
           Shape(j), j.pc # "idle", j.id \in 1..next - 1
    PROVE  Shape(ToTables(j)) /\ Fits(ToTables(j), D, V, next)
<1>1. /\ DOMAIN ToRead(j) = DOMAIN j /\ ToRead(j).kind = j.kind
      /\ ToRead(j).pc = "read" /\ ToRead(j).id = j.id
  BY DEF ToRead, Shape
<1>2. Shape(ToRead(j)) /\ Fits(ToRead(j), D, V, next)
  BY <1>1, GoesOn DEF Saving
<1> DEFINE k == [j EXCEPT !.pc = "tables", !.todo = Tables(j.kind)]
<1>3. DOMAIN k = DOMAIN j /\ k.kind = j.kind /\ k.pc = "tables" /\ k.id = j.id
  BY DEF Shape
<1>4. Shape(k) /\ Fits(k, D, V, next)
  <2> HIDE DEF k
  <2>1. QED
    BY <1>3, GoesOn DEF Saving
<1>5. QED
  BY <1>2, <1>4 DEF ToTables

\* A request to a step that is not one of Saving.
LEMMA GotoFits ==
    ASSUME NEW j, NEW D, NEW V, NEW next, Shape(j), j.pc # "idle",
           NEW pc, pc \notin Saving
    PROVE  LET k == [j EXCEPT !.pc = pc] IN Shape(k) /\ Fits(k, D, V, next)
<1> DEFINE k == [j EXCEPT !.pc = pc]
<1>1. DOMAIN k = DOMAIN j /\ k.kind = j.kind /\ k.pc = pc
  BY DEF Shape
<1>2. Shape(k) /\ Fits(k, D, V, next)
  <2> HIDE DEF k
  <2>1. QED
    BY <1>1, GoesOn DEF Saving
<1>3. QED
  BY <1>2

\* A request begins.
LEMMA BeginInv ==
    ASSUME BookInv, NEW w \in Workers, NEW r, Begin(w, r), UNCHANGED store,
           {"pc", "id", "kind"} \subseteq DOMAIN r, r.kind \in Kinds,
           r.pc \in {"insert", "number", "copy", "list"}
             \/ (/\ r.pc = "update" /\ "no" \in DOMAIN r /\ r.id \in DOMAIN docs
                 /\ docs[r.id].kind = r.kind
                 /\ r.kind \notin TypedKinds => docs[r.id].no = r.no)
    PROVE  BookInv'
<1> DEFINE k == Put(r, "alone", \A x \in Workers : job[x].pc = "idle")
<1>1. DOMAIN k = DOMAIN r \union {"alone"} /\ k.pc = r.pc /\ k.id = r.id /\ k.kind = r.kind
  BY DEF Put
<1>2. r.pc = "update" => k.no = r.no
  BY DEF Put
<1>3. Shape(k) /\ Fits(k, docs, versions, nextId)
  <2> HIDE DEF k
  <2>1. Shape(k)
    BY <1>1, <1>2 DEF Shape
  <2>2. Fits(k, docs, versions, nextId)
    BY <1>1, <1>2 DEF Fits, Saving, BookInv, Issued
  <2>3. QED
    BY <2>1, <2>2
<1>4. ASSUME NEW v \in Workers
      PROVE  Shape(job'[v]) /\ Fits(job'[v], docs, versions, nextId)
  <2>1. Shape(job[v]) /\ Fits(job[v], docs, versions, nextId)
    BY DEF BookInv, JobsFit
  <2>2. CASE v = w
    BY <2>2, <1>3 DEF Begin
  <2>3. CASE v # w /\ job[v].pc = "idle"
    BY <2>3, IdleFits DEF Begin
  <2>4. CASE v # w /\ job[v].pc # "idle"
    BY <2>4, <2>1, UnaloneFits DEF Begin
  <2>5. QED
    BY <2>2, <2>3, <2>4
<1>5. DOMAIN job' = Workers
  BY DEF Begin
<1>6. QED
  BY <1>4, <1>5 DEF BookInv, JobsFit, store

\* A document is issued.
LEMMA IssueInv ==
    ASSUME NEW D, NEW V, NEW next, Issued(D, next), Recorded(V, next),
           NEW row, HasFields(row)
    PROVE  /\ Issued(Put(D, next, row), next + 1) /\ Recorded(V, next + 1)
           /\ Grows(D, V, next, Put(D, next, row), V, next + 1)
<1>1. next \in Nat \ {0} /\ next \notin DOMAIN D
  BY DEF Issued
<1>2. Issued(Put(D, next, row), next + 1)
  BY <1>1 DEF Issued, Put
<1>3. VersionsIn(V, next) = {}
  BY <1>1 DEF VersionsIn, Recorded
<1>4. Recorded(V, next + 1)
  <2>1. \A v \in V : v.id \in 1..next
    BY <1>1 DEF Recorded
  <2>2. \A d \in 1..next : Numbered(VersionsIn(V, d))
    <3> TAKE d \in 1..next
    <3>1. CASE d = next
      BY <3>1, <1>3, NumberedEmpty
    <3>2. CASE d # next
      <4>1. d \in 1..next - 1
        BY <3>2, <1>1
      <4>2. QED
        BY <4>1 DEF Recorded
    <3>3. QED
      BY <3>1, <3>2
  <2>3. QED
    BY <2>1, <2>2, <1>1 DEF Recorded
<1>5. Grows(D, V, next, Put(D, next, row), V, next + 1)
  <2>1. Grows(D, V, next, D, V, next)
    BY StaysGrows
  <2>2. ASSUME NEW d \in 1..next - 1, d \in DOMAIN Put(D, next, row)
        PROVE  d \in DOMAIN D /\ Put(D, next, row)[d] = D[d]
    BY <1>1, <2>2 DEF Put
  <2>3. QED
    BY <1>1, <2>1, <2>2 DEF Grows
<1>6. QED
  BY <1>2, <1>4, <1>5

\* The rows of D are changed or deleted, none of them its kind or minted number.
LEMMA ChangeGrows ==
    ASSUME NEW D, NEW V, NEW next, Issued(D, next), Recorded(V, next), NEW D2,
           DOMAIN D2 \subseteq DOMAIN D,
           \A d \in DOMAIN D2 :
              /\ HasFields(D2[d]) /\ D2[d].kind = D[d].kind
              /\ D[d].kind \notin TypedKinds => D2[d].no = D[d].no
    PROVE  Issued(D2, next) /\ Grows(D, V, next, D2, V, next)
<1>1. Issued(D2, next)
  BY DEF Issued
<1>2. Grows(D, V, next, D, V, next)
  BY StaysGrows
<1>3. QED
  BY <1>1, <1>2 DEF Grows

\* A version is recorded.
LEMMA RecordGrows ==
    ASSUME NEW D, NEW V, NEW next, Issued(D, next), Recorded(V, next),
           NEW v, v.id \in 1..next - 1, v.n = Cardinality(VersionsIn(V, v.id)) + 1
    PROVE  Recorded(V \union {v}, next) /\ Grows(D, V, next, D, V \union {v}, next)
<1> DEFINE V2 == V \union {v}
<1>1. VersionsIn(V2, v.id) = VersionsIn(V, v.id) \union {v}
  BY DEF VersionsIn
<1>2. \A d \in 1..next - 1 : d # v.id => VersionsIn(V2, d) = VersionsIn(V, d)
  BY DEF VersionsIn
<1>3. Numbered(VersionsIn(V, v.id))
  BY DEF Recorded
<1>4. /\ Numbered(VersionsIn(V2, v.id))
      /\ Cardinality(VersionsIn(V2, v.id)) = Cardinality(VersionsIn(V, v.id)) + 1
  BY <1>1, <1>3, NumberedAdd
<1>5. Recorded(V2, next)
  <2>1. \A u \in V2 : u.id \in 1..next - 1
    BY DEF Recorded
  <2>2. \A d \in 1..next - 1 : Numbered(VersionsIn(V2, d))
    BY <1>2, <1>4 DEF Recorded
  <2>3. QED
    BY <2>1, <2>2 DEF Recorded
<1>6. Grows(D, V, next, D, V2, next)
  <2>1. Grows(D, V, next, D, V, next)
    BY StaysGrows
  <2>2. ASSUME NEW d \in 1..next - 1
        PROVE  /\ Cardinality(VersionsIn(V2, d)) \in Nat
               /\ Cardinality(VersionsIn(V, d)) <= Cardinality(VersionsIn(V2, d))
    <3>1. Cardinality(VersionsIn(V, d)) \in Nat
      BY <2>1 DEF Grows
    <3>2. CASE d = v.id
      BY <3>1, <3>2, <1>4
    <3>3. CASE d # v.id
      <4>1. VersionsIn(V2, d) = VersionsIn(V, d)
        BY <3>3, <1>2
      <4> HIDE DEF V2
      <4>2. QED
        BY <4>1, <3>1
    <3>4. QED
      BY <3>2, <3>3
  <2>3. QED
    BY <2>1, <2>2 DEF Grows
<1>7. QED
  BY <1>5, <1>6

\* A request that begins writes nothing yet.
LEMMA RequestInv ==
    ASSUME BookInv, NEW w \in Workers, Request(w)
    PROVE  BookInv' /\ UNCHANGED store
<1>1. ASSUME NEW kind \in NewKinds, NEW up, NEW no, StartCreate(w, kind, up, no)
      PROVE  BookInv' /\ UNCHANGED store
  <2> DEFINE r == [op |-> "create", kind |-> kind, id |-> None, up |-> up, no |-> no,
                   write |-> Written(kind), todo |-> <<>>, seen |-> Nothing,
                   pc |-> IF kind \in TypedKinds THEN "insert" ELSE "number"]
  <2>1. Begin(w, r) /\ UNCHANGED store
    BY <1>1 DEF StartCreate
  <2>2. {"pc", "id", "kind"} \subseteq DOMAIN r /\ r.kind = kind /\ r.pc \in {"insert", "number"}
    OBVIOUS
  <2>3. kind \in Kinds
    BY KindsAssumption
  <2> HIDE DEF r
  <2>4. QED
    BY <2>1, <2>2, <2>3, BeginInv
<1>2. ASSUME NEW d \in Live, StartDuplicate(w, d)
      PROVE  BookInv' /\ UNCHANGED store
  <2> DEFINE r == [op |-> "duplicate", kind |-> "quotation", id |-> d, up |-> None,
                   no |-> None, write |-> Nothing, todo |-> Parts("quotation"),
                   seen |-> Nothing, pc |-> "copy"]
  <2>1. Begin(w, r) /\ UNCHANGED store
    BY <1>2 DEF StartDuplicate
  <2>2. {"pc", "id", "kind"} \subseteq DOMAIN r /\ r.kind = "quotation" /\ r.pc = "copy"
    OBVIOUS
  <2>3. "quotation" \in Kinds
    BY DEF Kinds, Repository
  <2> HIDE DEF r
  <2>4. QED
    BY <2>1, <2>2, <2>3, BeginInv
<1>3. ASSUME NEW d \in Live, StartDelete(w, d)
      PROVE  BookInv' /\ UNCHANGED store
  <2> DEFINE r == [op |-> "delete", kind |-> docs[d].kind, id |-> d, pc |-> "list"]
  <2>1. Begin(w, r) /\ UNCHANGED store
    BY <1>3 DEF StartDelete
  <2>2. {"pc", "id", "kind"} \subseteq DOMAIN r /\ r.kind = docs[d].kind /\ r.pc = "list"
    OBVIOUS
  <2>3. docs[d].kind \in Kinds
    BY DEF BookInv, Issued, HasFields, Live
  <2> HIDE DEF r
  <2>4. QED
    BY <2>1, <2>2, <2>3, BeginInv
<1>4. ASSUME NEW d \in Live, NEW no, StartUpdate(w, d, no)
      PROVE  BookInv' /\ UNCHANGED store
  <2> DEFINE r == [op |-> "update", kind |-> docs[d].kind, id |-> d, up |-> docs[d].up,
                   no |-> no, write |-> Written(docs[d].kind), todo |-> <<>>,
                   seen |-> Nothing, pc |-> "update"]
  <2>1. Begin(w, r) /\ UNCHANGED store
    BY <1>4 DEF StartUpdate
  <2>2. /\ {"pc", "id", "kind", "no"} \subseteq DOMAIN r /\ r.kind = docs[d].kind
        /\ r.pc = "update" /\ r.id = d /\ r.no = no
    OBVIOUS
  <2>3. docs[d].kind \in Kinds /\ (docs[d].kind \notin TypedKinds => no = docs[d].no)
    BY <1>4 DEF BookInv, Issued, HasFields, Live, StartUpdate
  <2> HIDE DEF r
  <2>4. QED
    BY <2>1, <2>2, <2>3, BeginInv DEF Live
<1>5. QED
  BY <1>1, <1>2, <1>3, <1>4 DEF Request

\* INSERT of the header, or its refusal.
LEMMA InsertHeaderInv ==
    ASSUME BookInv, NEW w \in Workers, InsertHeader(w)
    PROVE  BookInv'
<1> DEFINE j == job[w]
<1>0. Shape(j) /\ j.pc = "insert" /\ DOMAIN job = Workers
  BY DEF BookInv, JobsFit, InsertHeader
<1>1. CASE Insertable(w)
  <2> DEFINE row == [kind |-> j.kind, no |-> j.no, by |-> w, up |-> j.up, confirmed |-> FALSE,
                     part |-> [p \in PartsOf(j.kind) |->
                                  IF p = "head" THEN j.write[p] ELSE None]]
             i == [j EXCEPT !.id = nextId]
  <2>1. /\ docs' = Put(docs, nextId, row) /\ nextId' = nextId + 1 /\ versions' = versions
        /\ job' = [job EXCEPT ![w] = ToTables(i)]
    BY <1>1 DEF InsertHeader
  <2>2. HasFields(row)
    BY <1>0 DEF HasFields, Shape
  <2>3. /\ Issued(docs', nextId') /\ Recorded(versions', nextId')
        /\ Grows(docs, versions, nextId, docs', versions', nextId')
    <3> HIDE DEF row
    <3>1. QED
      BY <2>1, <2>2, IssueInv DEF BookInv
  <2>4. DOMAIN i = DOMAIN j /\ i.pc = "insert" /\ i.kind = j.kind /\ i.id = nextId
    BY <1>0 DEF Shape
  <2>5. Shape(i) /\ i.id \in 1..nextId' - 1
    <3>1. Shape(i)
      <4> HIDE DEF i
      <4>1. QED
        BY <1>0, <2>4 DEF Shape
    <3>2. QED
      BY <3>1, <2>1, <2>4 DEF BookInv, Issued
  <2>6. Shape(job'[w]) /\ Fits(job'[w], docs', versions', nextId')
    <3> HIDE DEF i
    <3>1. job'[w] = ToTables(i)
      BY <2>1, <1>0
    <3>2. QED
      BY <3>1, <2>4, <2>5, ToTablesFits
  <2>7. DOMAIN job' = Workers /\ \A v \in Workers \ {w} : job'[v] = job[v]
    BY <2>1, <1>0
  <2>8. QED
    BY <2>3, <2>6, <2>7, StepInv
<1>2. CASE ~Insertable(w)
  <2>1. job' = [job EXCEPT ![w] = [@ EXCEPT !.pc = "failed"]]
    BY <1>2 DEF InsertHeader, Goto
  <2>2. Shape(job'[w]) /\ Fits(job'[w], docs, versions, nextId)
    BY <1>0, <2>1, GotoFits DEF Saving
  <2>3. QED
    BY <1>0, <1>2, <2>1, <2>2, QuietInv DEF InsertHeader
<1>3. QED
  BY <1>1, <1>2

\* Writing a field but the kind, and the flag of a proforma.
LEMMA WriteField ==
    ASSUME NEW row, HasFields(row), NEW field, field \notin {"kind", "confirmed"}, NEW x
    PROVE  LET new == [row EXCEPT ![field] = x] IN
           SameBut(new, row) /\ (field # "no" => new.no = row.no) /\ (field = "no" => new.no = x)
<1> DEFINE new == [row EXCEPT ![field] = x]
<1>1. DOMAIN new = DOMAIN row /\ new = [f \in DOMAIN new |-> new[f]]
  BY DEF HasFields
<1>2. /\ new.kind = row.kind /\ new.confirmed = row.confirmed
      /\ (field # "no" => new.no = row.no) /\ (field = "no" => new.no = x)
  BY DEF HasFields
<1>3. HasFields(new)
  <2> HIDE DEF new
  <2>1. QED
    BY <1>1, <1>2 DEF HasFields
<1>4. QED
  BY <1>2, <1>3 DEF SameBut

\* UPDATE: the header of one row, its kind and lock apart.
LEMMA UpdateHeaderRows ==
    ASSUME BookInv, NEW w \in Workers, UpdateHeader(w)
    PROVE  /\ DOMAIN docs' = DOMAIN docs
           /\ \A d \in DOMAIN docs : SameBut(docs'[d], docs[d])
           /\ \A d \in DOMAIN docs : docs'[d].no # docs[d].no =>
                 d = job[w].id /\ docs[d].kind \in TypedKinds
<1> DEFINE j == job[w]
<1>0. \A d \in DOMAIN docs : HasFields(docs[d]) /\ SameBut(docs[d], docs[d])
  BY DEF BookInv, Issued, SameBut
<1>1. CASE UNCHANGED docs
  BY <1>0, <1>1
<1>2. CASE /\ j.id \in Live
           /\ docs' = [docs EXCEPT ![j.id].up = j.up, ![j.id].no = j.no,
                                   ![j.id].part["head"] = j.write["head"]]
  <2> DEFINE row == docs[j.id]
             one == [row EXCEPT !.up = j.up]
             two == [one EXCEPT !.no = j.no]
             new == [two EXCEPT !.part = [two.part EXCEPT !["head"] = j.write["head"]]]
  <2>1. HasFields(row)
    BY <1>0, <1>2 DEF Live
  <2>2. docs'[j.id] = new /\ DOMAIN docs' = DOMAIN docs
    BY <1>2 DEF Live
  <2>3. SameBut(one, row)
    <3> HIDE DEF row
    <3>1. QED
      BY <2>1, WriteField
  <2>4. SameBut(two, one) /\ two.no = j.no
    <3> HIDE DEF one
    <3>1. QED
      BY <2>3, WriteField DEF SameBut
  <2>5. SameBut(new, two) /\ new.no = two.no
    <3> HIDE DEF two
    <3>1. QED
      BY <2>4, WriteField DEF SameBut
  <2>6. SameBut(new, row) /\ new.no = j.no
    <3> HIDE DEF row, one, two, new
    <3>1. QED
      BY <2>3, <2>4, <2>5 DEF SameBut
  <2>7. j.no # row.no => row.kind \in TypedKinds
    BY <1>2 DEF BookInv, JobsFit, Fits, UpdateHeader, Live
  <2>8. \A d \in DOMAIN docs : d # j.id => docs'[d] = docs[d]
    BY <1>2
  <2>9. QED
    <3> HIDE DEF new
    <3>1. QED
      BY <1>0, <2>2, <2>6, <2>7, <2>8
<1>3. QED
  BY <1>1, <1>2 DEF UpdateHeader

\* UPDATE of the header, or its refusal.
LEMMA UpdateHeaderInv ==
    ASSUME BookInv, NEW w \in Workers, UpdateHeader(w)
    PROVE  BookInv'
<1> DEFINE j == job[w]
<1>0. /\ Shape(j) /\ Fits(j, docs, versions, nextId) /\ j.pc = "update" /\ DOMAIN job = Workers
      /\ UNCHANGED <<versions, nextId>>
  BY DEF BookInv, JobsFit, UpdateHeader
<1>1. Issued(docs', nextId) /\ Grows(docs, versions, nextId, docs', versions, nextId)
  BY UpdateHeaderRows, ChangeGrows DEF BookInv, SameBut
<1>2. ASSUME job' = [job EXCEPT ![w] = ToTables(@)]
      PROVE  BookInv'
  <2>1. Shape(ToTables(j)) /\ Fits(ToTables(j), docs', versions', nextId')
    BY <1>0, ToTablesFits DEF Fits, Saving
  <2>2. job'[w] = ToTables(j) /\ DOMAIN job' = Workers
        /\ \A v \in Workers \ {w} : job'[v] = job[v]
    BY <1>0, <1>2
  <2>3. QED
    BY <1>0, <1>1, <2>1, <2>2, StepInv DEF BookInv
<1>3. ASSUME Goto(w, "failed")
      PROVE  BookInv'
  <2>1. Shape(job'[w]) /\ Fits(job'[w], docs', versions', nextId')
    BY <1>0, <1>3, GotoFits DEF Saving, Goto
  <2>2. DOMAIN job' = Workers /\ \A v \in Workers \ {w} : job'[v] = job[v]
    BY <1>0, <1>3 DEF Goto
  <2>3. QED
    BY <1>0, <1>1, <2>1, <2>2, StepInv DEF BookInv
<1>4. QED
  BY <1>2, <1>3 DEF UpdateHeader

\* DELETE and INSERT of a child table's rows: nothing of the header.
LEMMA ReplaceTableRows ==
    ASSUME BookInv, NEW w \in Workers, ReplaceTable(w)
    PROVE  /\ DOMAIN docs' = DOMAIN docs
           /\ \A d \in DOMAIN docs : SameBut(docs'[d], docs[d]) /\ docs'[d].no = docs[d].no
<1> DEFINE j == job[w]
           table == Head(j.todo)
<1>0. \A d \in DOMAIN docs : HasFields(docs[d]) /\ SameBut(docs[d], docs[d])
  BY DEF BookInv, Issued, SameBut
<1>1. CASE UNCHANGED docs
  BY <1>0, <1>1
<1>2. CASE j.id \in Live /\ docs' = [docs EXCEPT ![j.id].part[table] = j.write[table]]
  <2> DEFINE row == docs[j.id]
             new == [row EXCEPT !.part = [row.part EXCEPT ![table] = j.write[table]]]
  <2>1. HasFields(row)
    BY <1>0, <1>2 DEF Live
  <2>2. docs'[j.id] = new /\ DOMAIN docs' = DOMAIN docs
    BY <1>2 DEF Live
  <2>3. SameBut(new, row) /\ new.no = row.no
    <3> HIDE DEF row
    <3>1. QED
      BY <2>1, WriteField
  <2>4. \A d \in DOMAIN docs : d # j.id => docs'[d] = docs[d]
    BY <1>2
  <2>5. QED
    <3> HIDE DEF new
    <3>1. QED
      BY <1>0, <2>2, <2>3, <2>4
<1>3. QED
  BY <1>1, <1>2 DEF ReplaceTable

\* The rows of one child table, or the foreign key's refusal.
LEMMA ReplaceTableInv ==
    ASSUME BookInv, NEW w \in Workers, ReplaceTable(w)
    PROVE  BookInv'
<1> DEFINE j == job[w]
           table == Head(j.todo)
<1>0. /\ Shape(j) /\ Fits(j, docs, versions, nextId) /\ j.pc = "tables" /\ DOMAIN job = Workers
      /\ UNCHANGED <<versions, nextId>>
  BY DEF BookInv, JobsFit, ReplaceTable
<1>1. CASE j.id \in Live
  <2>1. /\ docs' = [docs EXCEPT ![j.id].part[table] = j.write[table]]
        /\ job' = [job EXCEPT ![w] = IF Len(j.todo) = 1 THEN ToRead(j)
                                     ELSE [j EXCEPT !.todo = Tail(@)]]
    BY <1>1 DEF ReplaceTable
  <2>2. Issued(docs', nextId) /\ Grows(docs, versions, nextId, docs', versions, nextId)
    BY ReplaceTableRows, ChangeGrows DEF BookInv, SameBut
  <2>3. Shape(job'[w]) /\ Fits(job'[w], docs', versions', nextId')
    <3>1. j.id \in 1..nextId - 1
      BY <1>0 DEF Fits, Saving
    <3>2. ASSUME NEW k, DOMAIN k = DOMAIN j, k.kind = j.kind, k.pc \in {"read", "tables"},
                 k.id = j.id
          PROVE  Shape(k) /\ Fits(k, docs', versions', nextId')
      BY <1>0, <3>1, <3>2, GoesOn
    <3>3. CASE Len(j.todo) = 1
      <4> DEFINE k == ToRead(j)
      <4>1. job'[w] = k
        BY <3>3, <2>1, <1>0
      <4>2. DOMAIN k = DOMAIN j /\ k.kind = j.kind /\ k.pc = "read" /\ k.id = j.id
        BY <1>0 DEF ToRead, Shape
      <4> HIDE DEF k
      <4>3. QED
        BY <3>2, <4>1, <4>2
    <3>4. CASE Len(j.todo) # 1
      <4> DEFINE k == [j EXCEPT !.todo = Tail(@)]
      <4>1. job'[w] = k
        BY <3>4, <2>1, <1>0
      <4>2. DOMAIN k = DOMAIN j /\ k.kind = j.kind /\ k.pc = "tables" /\ k.id = j.id
        BY <1>0 DEF Shape
      <4> HIDE DEF k
      <4>3. QED
        BY <3>2, <4>1, <4>2
    <3>5. QED
      BY <3>3, <3>4
  <2>4. DOMAIN job' = Workers /\ \A v \in Workers \ {w} : job'[v] = job[v]
    BY <1>0, <2>1
  <2>5. QED
    BY <1>0, <2>2, <2>3, <2>4, StepInv DEF BookInv
<1>2. CASE j.id \notin Live
  <2>1. UNCHANGED docs /\ Goto(w, "failed")
    BY <1>2 DEF ReplaceTable
  <2>2. Shape(job'[w]) /\ Fits(job'[w], docs, versions, nextId)
    BY <1>0, <2>1, GotoFits DEF Saving, Goto
  <2>3. QED
    BY <1>0, <2>1, <2>2, QuietInv DEF Goto
<1>3. QED
  BY <1>1, <1>2

\* A read of a part of a document.
LEMMA GetByIdInv ==
    ASSUME BookInv, NEW w \in Workers, GetById(w)
    PROVE  BookInv'
<1> DEFINE j == job[w]
           part == Head(j.todo)
           seen == Put(j.seen, part, IF j.id \in Live THEN docs[j.id].part[part] ELSE None)
<1>0. /\ Shape(j) /\ Fits(j, docs, versions, nextId) /\ j.pc \in {"copy", "read"}
      /\ DOMAIN job = Workers /\ UNCHANGED <<docs, versions, nextId>>
  BY DEF BookInv, JobsFit, GetById, store
<1>1. ASSUME NEW k, DOMAIN k = DOMAIN j, k.kind = j.kind,
             k.pc \in {"copy", "read", "number", "version", "failed"},
             k.pc \in {"read", "version"} => j.pc = "read" /\ k.id = j.id,
             job' = [job EXCEPT ![w] = k]
      PROVE  BookInv'
  <2>1. Shape(k) /\ Fits(k, docs, versions, nextId)
    BY <1>0, <1>1, GoesOn DEF Saving, Fits
  <2>2. QED
    BY <1>0, <1>1, <2>1, QuietInv
<1>2. CASE part = "head" /\ j.id \notin Live
  <2> DEFINE k == [j EXCEPT !.pc = "failed"]
  <2>1. job' = [job EXCEPT ![w] = k]
    BY <1>2 DEF GetById, Goto
  <2>2. DOMAIN k = DOMAIN j /\ k.kind = j.kind /\ k.pc = "failed"
    BY <1>0 DEF Shape
  <2> HIDE DEF k
  <2>3. QED
    BY <1>1, <2>1, <2>2
<1>3. CASE ~(part = "head" /\ j.id \notin Live)
  <2>0. job' = [job EXCEPT ![w] =
               IF Len(j.todo) > 1 THEN [j EXCEPT !.seen = seen, !.todo = Tail(@)]
               ELSE IF j.pc = "copy" THEN [j EXCEPT !.write = seen, !.id = None, !.pc = "number"]
               ELSE [j EXCEPT !.seen = seen, !.pc = "version"]]
    BY <1>3 DEF GetById
  <2> HIDE DEF seen
  <2>1. CASE Len(j.todo) > 1
    <3> DEFINE k == [j EXCEPT !.seen = seen, !.todo = Tail(@)]
    <3>1. DOMAIN k = DOMAIN j /\ k.kind = j.kind /\ k.pc = j.pc /\ k.id = j.id
      BY <1>0 DEF Shape
    <3>2. job' = [job EXCEPT ![w] = k]
      BY <2>0, <2>1
    <3> HIDE DEF k
    <3>3. QED
      BY <1>0, <1>1, <3>1, <3>2
  <2>2. CASE ~(Len(j.todo) > 1) /\ j.pc = "copy"
    <3> DEFINE k == [j EXCEPT !.write = seen, !.id = None, !.pc = "number"]
    <3>1. DOMAIN k = DOMAIN j /\ k.kind = j.kind /\ k.pc = "number"
      BY <1>0 DEF Shape
    <3>2. job' = [job EXCEPT ![w] = k]
      BY <2>0, <2>2
    <3> HIDE DEF k
    <3>3. QED
      BY <1>1, <3>1, <3>2
  <2>3. CASE ~(Len(j.todo) > 1) /\ j.pc # "copy"
    <3> DEFINE k == [j EXCEPT !.seen = seen, !.pc = "version"]
    <3>1. DOMAIN k = DOMAIN j /\ k.kind = j.kind /\ k.pc = "version" /\ k.id = j.id
      BY <1>0 DEF Shape
    <3>2. job' = [job EXCEPT ![w] = k]
      BY <2>0, <2>3
    <3> HIDE DEF k
    <3>3. QED
      BY <1>0, <1>1, <2>3, <3>1, <3>2
  <2>4. QED
    BY <2>1, <2>2, <2>3
<1>4. QED
  BY <1>2, <1>3

\* The number a version is about to be given leaves no gap, now or later.
LEMMA NextVersionNumberInv ==
    ASSUME BookInv, NEW w \in Workers, NextVersionNumber(w)
    PROVE  BookInv'
<1> DEFINE j == job[w]
           c == Cardinality(VersionsIn(versions, j.id))
           k == Put([j EXCEPT !.pc = "record"], "n", c + 1)
<1>0. /\ Shape(j) /\ Fits(j, docs, versions, nextId) /\ j.pc = "version"
      /\ DOMAIN job = Workers /\ UNCHANGED <<docs, versions, nextId>>
  BY DEF BookInv, JobsFit, NextVersionNumber, store
<1>1. j.id \in 1..nextId - 1
  BY <1>0 DEF Fits, Saving
<1>2. Numbered(VersionsIn(versions, j.id)) /\ VersionsIn(versions, j.id) = VersionsOf(j.id)
  BY <1>1 DEF BookInv, Recorded, VersionsIn, VersionsOf
<1>3. c \in Nat /\ LatestVersion(j.id) = c
  BY <1>2, LatestIsCount, FS_CardinalityType DEF Numbered
<1>4. job' = [job EXCEPT ![w] = k]
  BY <1>3 DEF NextVersionNumber
<1>5. /\ DOMAIN k = DOMAIN j \union {"n"} /\ k.pc = "record" /\ k.id = j.id /\ k.kind = j.kind
      /\ k.n = c + 1
  BY <1>0 DEF Put, Shape
<1>6. Shape(k) /\ Fits(k, docs, versions, nextId)
  <2> HIDE DEF k
  <2>1. Shape(k)
    BY <1>0, <1>5 DEF Shape
  <2>2. Fits(k, docs, versions, nextId)
    BY <1>1, <1>3, <1>5 DEF Fits, Saving
  <2>3. QED
    BY <2>1, <2>2
<1>7. QED
  <2> HIDE DEF k
  <2>1. QED
    BY <1>0, <1>4, <1>6, QuietInv

\* INSERT of the version: the number is still the next, or UNIQUE refuses it.
LEMMA RecordInv ==
    ASSUME BookInv, NEW w \in Workers, Record(w)
    PROVE  BookInv'
<1> DEFINE j == job[w]
           v == [id |-> j.id, n |-> j.n, snap |-> j.seen]
<1>0. /\ Shape(j) /\ Fits(j, docs, versions, nextId) /\ j.pc = "record"
      /\ DOMAIN job = Workers /\ UNCHANGED <<docs, nextId>>
  BY DEF BookInv, JobsFit, Record
<1>1. PICK pc \in {"failed", "done", "stage"} : Goto(w, pc)
  BY DEF Record
<1>2. Shape(job'[w]) /\ Fits(job'[w], docs, versions', nextId)
  BY <1>0, <1>1, GotoFits DEF Saving, Goto
<1>3. DOMAIN job' = Workers /\ \A x \in Workers \ {w} : job'[x] = job[x]
  BY <1>0, <1>1 DEF Goto
<1>4. CASE \E u \in VersionsOf(j.id) : u.n = j.n
  <2>1. UNCHANGED versions
    BY <1>4 DEF Record
  <2>2. QED
    BY <1>0, <1>2, <1>3, <2>1, QuietInv
<1>5. CASE ~\E u \in VersionsOf(j.id) : u.n = j.n
  <2>1. versions' = versions \union {v}
    BY <1>5 DEF Record
  <2>2. v.id \in 1..nextId - 1 /\ v.n = Cardinality(VersionsIn(versions, v.id)) + 1
    <3>1. j.id \in 1..nextId - 1 /\ j.n \in 1..Cardinality(VersionsIn(versions, j.id)) + 1
      BY <1>0 DEF Fits, Saving
    <3>2. Numbered(VersionsIn(versions, j.id))
      BY <3>1 DEF BookInv, Recorded
    <3>3. j.n \notin 1..Cardinality(VersionsIn(versions, j.id))
      BY <3>2, <1>5 DEF Numbered, VersionsIn, VersionsOf
    <3>4. Cardinality(VersionsIn(versions, j.id)) \in Nat
      BY <3>2, FS_CardinalityType DEF Numbered
    <3>5. QED
      BY <3>1, <3>3, <3>4
  <2>3. Recorded(versions', nextId) /\ Grows(docs, versions, nextId, docs, versions', nextId)
    <3> HIDE DEF v
    <3>1. QED
      BY <2>1, <2>2, RecordGrows DEF BookInv
  <2>4. QED
    BY <1>0, <1>2, <1>3, <2>3, StepInv DEF BookInv
<1>6. QED
  BY <1>4, <1>5

\* The DELETEs: fewer rows, the links of some set to NULL.
LEMMA RemoveRows ==
    ASSUME BookInv, NEW w \in Workers, Remove(w)
    PROVE  /\ DOMAIN docs' \subseteq DOMAIN docs
           /\ \A d \in DOMAIN docs' :
                 /\ SameBut(docs'[d], docs[d]) /\ docs'[d].no = docs[d].no
<1> DEFINE gone == IF job[w].id \in Live THEN Cascade(job[w].id, job[w].lists) ELSE {}
           left == {e \in Live \ gone : docs[e].up \in gone}
<1>0. \A d \in DOMAIN docs : HasFields(docs[d]) /\ SameBut(docs[d], docs[d])
  BY DEF BookInv, Issued, SameBut
<1>1. CASE UNCHANGED docs
  BY <1>0, <1>1
<1>2. CASE docs' = [e \in Live \ gone |->
                       IF e \in left THEN [docs[e] EXCEPT !.up = None] ELSE docs[e]]
  <2>1. DOMAIN docs' \subseteq DOMAIN docs
    BY <1>2 DEF Live
  <2>2. ASSUME NEW d \in DOMAIN docs'
        PROVE  SameBut(docs'[d], docs[d]) /\ docs'[d].no = docs[d].no
    <3> DEFINE row == docs[d]
               new == [row EXCEPT !.up = None]
    <3>1. docs'[d] = new \/ docs'[d] = docs[d]
      <4> HIDE DEF gone, left
      <4>1. QED
        BY <1>2
    <3>2. SameBut(new, row) /\ new.no = row.no
      <4>1. HasFields(row)
        BY <1>0, <2>1
      <4> HIDE DEF row
      <4>2. QED
        BY <4>1, WriteField
    <3>3. QED
      <4> HIDE DEF new
      <4>1. QED
        BY <1>0, <2>1, <3>1, <3>2
  <2>3. QED
    BY <2>1, <2>2
<1>3. QED
  BY <1>1, <1>2 DEF Remove

\* The cascade of a delete.
LEMMA RemoveInv ==
    ASSUME BookInv, NEW w \in Workers, Remove(w)
    PROVE  BookInv'
<1>0. /\ Shape(job[w]) /\ job[w].pc = "remove" /\ DOMAIN job = Workers
      /\ UNCHANGED <<versions, nextId>>
  BY DEF BookInv, JobsFit, Remove
<1>1. PICK pc \in {"failed", "done"} : Goto(w, pc)
  BY DEF Remove
<1>2. Shape(job'[w]) /\ Fits(job'[w], docs', versions', nextId')
  BY <1>0, <1>1, GotoFits DEF Saving, Goto
<1>3. DOMAIN job' = Workers /\ \A x \in Workers \ {w} : job'[x] = job[x]
  BY <1>0, <1>1 DEF Goto
<1>4. Issued(docs', nextId) /\ Grows(docs, versions, nextId, docs', versions, nextId)
  BY RemoveRows, ChangeGrows DEF BookInv, SameBut
<1>5. QED
  BY <1>0, <1>2, <1>3, <1>4, StepInv DEF BookInv

\* The steps that change no document, version or id.
Quiet(w) == GenerateNumber(w) \/ ReadStage(w) \/ Advance(w) \/ ListCascade(w) \/ Respond(w)

\* The other steps of a request keep the invariant.
LEMMA QuietStepInv ==
    ASSUME BookInv, NEW w \in Workers, Quiet(w)
    PROVE  BookInv'
<1> DEFINE j == job[w]
<1>0. /\ Shape(j) /\ j.pc # "idle" /\ DOMAIN job = Workers
      /\ UNCHANGED <<docs, versions, nextId>>
  BY DEF BookInv, JobsFit, Quiet, GenerateNumber, ReadStage, Advance, ListCascade, Respond, store
<1>1. ASSUME NEW k, job' = [job EXCEPT ![w] = k], Shape(k), Fits(k, docs, versions, nextId)
      PROVE  BookInv'
  BY <1>0, <1>1, QuietInv
<1>2. ASSUME NEW pc, pc \notin Saving, Goto(w, pc)
      PROVE  BookInv'
  <2>1. job' = [job EXCEPT ![w] = [j EXCEPT !.pc = pc]]
    BY <1>2 DEF Goto
  <2>2. QED
    BY <1>0, <1>1, <1>2, <2>1, GotoFits
<1>3. CASE GenerateNumber(w)
  <2> DEFINE no == CountForDate(Service[j.kind].counts) + 1
             k == [j EXCEPT !.no = no, !.pc = "insert"]
  <2>1. job' = [job EXCEPT ![w] = k]
    BY <1>3 DEF GenerateNumber
  <2>2. DOMAIN k = DOMAIN j /\ k.kind = j.kind /\ k.pc = "insert"
    BY <1>0 DEF Shape
  <2> HIDE DEF k
  <2>3. QED
    BY <1>0, <1>1, <2>1, <2>2, GoesOn DEF Saving
<1>4. CASE ReadStage(w)
  BY <1>2, <1>4 DEF ReadStage, Saving
<1>5. CASE Advance(w)
  BY <1>2, <1>5 DEF Advance, Saving
<1>6. CASE ListCascade(w)
  <2> DEFINE lists == IF j.id \in Live THEN [e \in FirstBranch(j.id) |-> Listed(e)]
                                       ELSE [e \in {} |-> {}]
             k == Put([j EXCEPT !.pc = "remove"], "lists", lists)
  <2>1. job' = [job EXCEPT ![w] = k]
    BY <1>6, <1>0 DEF ListCascade, Shape
  <2>2. DOMAIN k = DOMAIN j \union {"lists"} /\ k.kind = j.kind /\ k.pc = "remove"
    BY <1>0 DEF Shape, Put
  <2> HIDE DEF k
  <2>3. QED
    BY <1>0, <1>1, <2>1, <2>2, GoesOn DEF Saving
<1>7. CASE Respond(w)
  BY <1>1, <1>7, IdleFits DEF Respond
<1>8. QED
  BY <1>3, <1>4, <1>5, <1>6, <1>7 DEF Quiet

\* Confirming a proforma invoice writes its flag only.
LEMMA SetStatusRows ==
    ASSUME BookInv, NEW w \in Workers, NEW d \in Live, SetStatus(w, d)
    PROVE  /\ DOMAIN docs' = DOMAIN docs
           /\ \A e \in DOMAIN docs :
                 /\ HasFields(docs'[e]) /\ docs'[e].kind = docs[e].kind
                 /\ docs'[e].no = docs[e].no /\ docs'[e].part = docs[e].part
<1>1. docs' = [docs EXCEPT ![d].confirmed = ~@]
  BY DEF SetStatus
<1>2. ASSUME NEW e \in DOMAIN docs
      PROVE  /\ HasFields(docs'[e]) /\ docs'[e].kind = docs[e].kind
             /\ docs'[e].no = docs[e].no /\ docs'[e].part = docs[e].part
  <2> DEFINE row == docs[e]
             new == [row EXCEPT !.confirmed = ~@]
  <2>1. HasFields(row)
    BY DEF BookInv, Issued
  <2>2. docs'[e] = new \/ docs'[e] = row
    BY <1>1
  <2>3. /\ DOMAIN new = DOMAIN row /\ new.kind = row.kind /\ new.no = row.no
        /\ new.part = row.part /\ new.confirmed = ~row.confirmed /\ new = [f \in DOMAIN new |-> new[f]]
    BY <2>1 DEF HasFields
  <2>4. HasFields(new)
    <3> HIDE DEF new
    <3>1. QED
      BY <2>1, <2>3 DEF HasFields
  <2>5. QED
    <3> HIDE DEF new
    <3>1. QED
      BY <2>1, <2>2, <2>3, <2>4
<1>3. QED
  BY <1>1, <1>2

\* Confirming interrupts the requests under way, and nothing else.
LEMMA SetStatusInv ==
    ASSUME BookInv, NEW w \in Workers, NEW d \in Live, SetStatus(w, d)
    PROVE  BookInv'
<1>1. /\ UNCHANGED <<versions, nextId>>
      /\ job' = [v \in Workers |->
                    IF job[v].pc = "idle" THEN Idle ELSE [job[v] EXCEPT !.alone = FALSE]]
  BY DEF SetStatus
<1>2. Issued(docs', nextId) /\ Grows(docs, versions, nextId, docs', versions, nextId)
  BY SetStatusRows, ChangeGrows DEF BookInv
<1>3. ASSUME NEW v \in Workers
      PROVE  Shape(job'[v]) /\ Fits(job'[v], docs', versions, nextId)
  <2>1. Shape(job[v]) /\ Fits(job[v], docs', versions, nextId)
    BY <1>2, FitsGrows DEF BookInv, JobsFit
  <2>2. QED
    BY <1>1, <2>1, IdleFits, UnaloneFits
<1>4. QED
  BY <1>1, <1>2, <1>3 DEF BookInv, JobsFit

\* Every step keeps the invariant of the book.
LEMMA BookInvStep == BookInv /\ [Next]_vars => BookInv'
<1> SUFFICES ASSUME BookInv, [Next]_vars
             PROVE  BookInv'
  OBVIOUS
<1>1. ASSUME NEW w \in Workers, Request(w)
      PROVE  BookInv'
  BY <1>1, RequestInv
<1>2. ASSUME NEW w \in Workers, Work(w)
      PROVE  BookInv'
  BY <1>2, InsertHeaderInv, UpdateHeaderInv, ReplaceTableInv, GetByIdInv, NextVersionNumberInv,
     RecordInv, RemoveInv, QuietStepInv DEF Work, Quiet
<1>3. ASSUME NEW w \in Workers, NEW d \in Live, SetStatus(w, d)
      PROVE  BookInv'
  BY <1>3, SetStatusInv
<1>4. CASE Crash
  BY <1>4, IdleFits DEF Crash, store, BookInv, JobsFit
<1>5. CASE UNCHANGED vars
  BY <1>5 DEF vars, store, BookInv, JobsFit
<1>6. QED
  BY <1>1, <1>2, <1>3, <1>4, <1>5 DEF Next

\* The documents there are at the start were issued, with one version each.
LEMMA BookInvInit == Init => BookInv
<1> SUFFICES ASSUME Init
             PROVE  BookInv
  OBVIOUS
<1> DEFINE c == Cardinality(Live)
<1>1. IsFiniteSet(Live) /\ Live = 1..c /\ c \in Nat /\ nextId = c + 1
  BY BooksAssumption, FS_CardinalityType DEF Init, Live
<1>2. ASSUME NEW d \in DOMAIN docs
      PROVE  HasFields(docs[d])
  <2>1. IsRow(docs[d])
    BY BooksAssumption DEF Init
  <2>2. QED
    BY <2>1 DEF IsRow, RowOf, HasFields
<1>3. Issued(docs, nextId)
  BY <1>1, <1>2 DEF Issued, Live
<1>4. Recorded(versions, nextId)
  <2> DEFINE first(d) == [id |-> d, n |-> 1, snap |-> docs[d].part]
  <2>1. versions = {first(d) : d \in Live}
    BY DEF Init
  <2>2. \A v \in versions : v.id \in 1..nextId - 1
    BY <1>1, <2>1
  <2>3. ASSUME NEW d \in 1..nextId - 1
        PROVE  Numbered(VersionsIn(versions, d))
    <3> DEFINE v == first(d)
    <3>1. d \in Live
      BY <1>1
    <3>2. VersionsIn(versions, d) = {v}
      BY <2>1, <3>1 DEF VersionsIn
    <3>3. v.n = 1
      OBVIOUS
    <3> HIDE DEF v
    <3>4. Numbered({} \union {v})
      <4>1. v.n = Cardinality({}) + 1
        BY <3>3, FS_EmptySet
      <4>2. QED
        BY <4>1, NumberedEmpty, NumberedAdd
    <3>5. {} \union {v} = {v}
      OBVIOUS
    <3>6. QED
      BY <3>2, <3>4, <3>5
  <2>4. QED
    BY <2>2, <2>3 DEF Recorded
<1>5. JobsFit
  BY IdleFits DEF Init, JobsFit
<1>6. QED
  BY <1>3, <1>4, <1>5 DEF BookInv

\* The invariant holds throughout.
THEOREM BookKept == Spec => []BookInv
BY BookInvInit, BookInvStep, PTL DEF Spec

-----------------------------------------------------------------------------
(* The requests keep the book: every step is one of the book's or none.    *)

\* The history of a document, as a sequence.
Sequenced(S) == [n \in 1..Cardinality(S) |-> (CHOOSE v \in S : v.n = n).snap]
HistoryIn(V, d) == Sequenced(VersionsIn(V, d))

\* The histories of the book are the versions, document by document.
LEMMA HistoryIs == History = [d \in 1..nextId - 1 |-> HistoryIn(versions, d)]
BY DEF History, HistoryOf, HistoryIn, Sequenced, VersionsOf, VersionsIn

\* The same after a step.
LEMMA HistoryNext == History' = [d \in 1..nextId' - 1 |-> HistoryIn(versions', d)]
BY DEF History, HistoryOf, HistoryIn, Sequenced, VersionsOf, VersionsIn

\* A step that leaves titles, ids and versions alone leaves the book alone.
LEMMA BookStutters ==
    ASSUME DOMAIN docs' = DOMAIN docs, UNCHANGED <<versions, nextId>>,
           \A d \in DOMAIN docs : docs'[d].kind = docs[d].kind /\ docs'[d].no = docs[d].no
    PROVE  UNCHANGED Book!bookVars
<1>1. Title' = Title
  BY DEF Title, Live
<1>2. History' = History
  BY HistoryIs, HistoryNext
<1>3. QED
  BY <1>1, <1>2 DEF Book!bookVars

\* A new header issues the document.
LEMMA InsertIssues ==
    ASSUME BookInv, NEW w \in Workers, InsertHeader(w)
    PROVE  Book!Issue \/ UNCHANGED Book!bookVars
<1>1. CASE Insertable(w)
  <2> DEFINE row == [kind |-> job[w].kind, no |-> job[w].no, by |-> w, up |-> job[w].up,
                     confirmed |-> FALSE,
                     part |-> [p \in PartsOf(job[w].kind) |->
                                  IF p = "head" THEN job[w].write[p] ELSE None]]
  <2>1. docs' = Put(docs, nextId, row) /\ nextId' = nextId + 1 /\ versions' = versions
    BY <1>1 DEF InsertHeader
  <2> HIDE DEF row
  <2>2. nextId \in Nat \ {0} /\ nextId \notin DOMAIN docs
    BY DEF BookInv, Issued
  <2>3. nextId' - 1 = (nextId - 1) + 1 /\ nextId' - 1 = nextId
    BY <2>1, <2>2
  <2>4. DOMAIN Title' = DOMAIN Title \union {nextId' - 1}
    BY <2>1, <2>3 DEF Title, Live, Put
  <2>5. \A d \in DOMAIN Title : Title'[d] = Title[d]
    BY <2>1, <2>2 DEF Title, Live, Put
  <2>6. History' = Append(History, <<>>)
    <3> DEFINE S == {HistoryIn(versions, d) : d \in 1..nextId}
    <3>1. History \in [1..nextId - 1 -> S]
      BY HistoryIs, <2>2
    <3>2. History \in Seq(S) /\ Len(History) = nextId - 1
      BY <3>1, <2>2
    <3>3. VersionsIn(versions, nextId) = {}
      BY <2>2 DEF VersionsIn, BookInv, Recorded
    <3>4. HistoryIn(versions, nextId) = <<>>
      BY <3>3, FS_EmptySet DEF HistoryIn, Sequenced
    <3>5. History' = [d \in 1..nextId |-> HistoryIn(versions, d)]
      BY HistoryNext, <2>1, <2>2
    <3>6. QED
      BY <3>2, <3>4, <3>5, HistoryIs, <2>2
  <2>7. QED
    BY <2>3, <2>4, <2>5, <2>6 DEF Book!Issue
<1>2. CASE ~Insertable(w)
  BY <1>2, BookStutters DEF InsertHeader
<1>3. QED
  BY <1>1, <1>2

\* An edit of the header retitles a document of a kind whose numbers are typed.
LEMMA UpdateRetitles ==
    ASSUME BookInv, NEW w \in Workers, UpdateHeader(w)
    PROVE  (\E d \in DOMAIN Title : Book!Retitle(d)) \/ UNCHANGED Book!bookVars
<1> DEFINE i == job[w].id
<1>0. /\ DOMAIN docs' = DOMAIN docs /\ UNCHANGED <<versions, nextId>>
      /\ \A d \in DOMAIN docs : docs'[d].kind = docs[d].kind
      /\ \A d \in DOMAIN docs : docs'[d].no # docs[d].no =>
            d = i /\ docs[d].kind \in TypedKinds
  BY UpdateHeaderRows DEF SameBut, UpdateHeader
<1>1. CASE \A d \in DOMAIN docs : docs'[d].no = docs[d].no
  BY <1>0, <1>1, BookStutters
<1>2. CASE \E d \in DOMAIN docs : docs'[d].no # docs[d].no
  <2>1. i \in DOMAIN docs /\ docs[i].kind \in TypedKinds
    BY <1>0, <1>2
  <2>2. History' = History /\ nextId' - 1 = nextId - 1
    BY <1>0, HistoryIs, HistoryNext
  <2>3. i \in DOMAIN Title /\ Title[i].kind \in TypedKinds /\ DOMAIN Title' = DOMAIN Title
    BY <1>0, <2>1 DEF Title, Live
  <2>4. Title' = [Title EXCEPT ![i].no = Title'[i].no]
    <3>1. /\ Title = [d \in DOMAIN docs |-> [kind |-> docs[d].kind, no |-> docs[d].no]]
          /\ Title' = [d \in DOMAIN docs |-> [kind |-> docs'[d].kind, no |-> docs'[d].no]]
      BY <1>0 DEF Title, Live
    <3>2. \A d \in DOMAIN docs : d # i => Title'[d] = Title[d]
      BY <1>0, <3>1
    <3>3. Title'[i] = [Title[i] EXCEPT !.no = Title'[i].no]
      BY <1>0, <2>1, <3>1
    <3>4. QED
      BY <2>1, <3>1, <3>2, <3>3
  <2>5. Book!Retitle(i)
    BY <2>2, <2>3, <2>4 DEF Book!Retitle
  <2>6. QED
    BY <2>3, <2>5
<1>3. QED
  BY <1>1, <1>2

\* A sequence that agrees with another and is one longer is an Append to it.
LEMMA AppendOne ==
    ASSUME NEW c \in Nat, NEW old, NEW new,
           old = [n \in 1..c |-> old[n]], new = [n \in 1..c + 1 |-> new[n]],
           \A n \in 1..c : new[n] = old[n]
    PROVE  new = Append(old, new[c + 1]) /\ Len(old) = c /\ Len(new) = c + 1
<1> DEFINE T == {new[n] : n \in 1..c + 1}
<1>1. \A n \in 1..c : n \in 1..c + 1
  OBVIOUS
<1>2. \A n \in 1..c + 1 : new[n] \in T
  OBVIOUS
<1>3. \A n \in 1..c : old[n] \in T
  BY <1>1, <1>2
<1> HIDE DEF T
<1>4. old \in [1..c -> T] /\ new \in [1..c + 1 -> T]
  BY <1>2, <1>3
<1>5. old \in Seq(T) /\ new \in Seq(T)
  <2>1. c + 1 \in Nat
    OBVIOUS
  <2>2. QED
    BY <1>4, <2>1, SeqDef
<1>6. Len(old) = c /\ Len(new) = c + 1
  BY <1>4, <1>5, LenProperties
<1> DEFINE more == Append(old, new[c + 1])
<1>7. more \in Seq(T) /\ Len(more) = c + 1
  BY <1>2, <1>5, <1>6, AppendProperties
<1>8. \A n \in 1..c + 1 : new[n] = more[n]
  <2> TAKE n \in 1..c + 1
  <2>1. CASE n = c + 1
    BY <2>1, <1>2, <1>5, <1>6, AppendProperties
  <2>2. CASE n # c + 1
    <3>1. n \in 1..c
      BY <2>2
    <3>2. QED
      BY <3>1, <1>2, <1>5, <1>6, AppendProperties
  <2>3. QED
    BY <2>1, <2>2
<1> HIDE DEF more
<1>9. new = more
  BY <1>5, <1>6, <1>7, <1>8, SeqEqual
<1>10. QED
  BY <1>6, <1>9 DEF more

\* A version recorded is the next of its document's history.
LEMMA RecordRecords ==
    ASSUME BookInv, NEW w \in Workers, Record(w)
    PROVE  (\E d \in DOMAIN History : Book!Record(d)) \/ UNCHANGED Book!bookVars
<1> DEFINE j == job[w]
           i == j.id
           v == [id |-> i, n |-> j.n, snap |-> j.seen]
<1>0. Fits(j, docs, versions, nextId) /\ j.pc = "record" /\ UNCHANGED <<docs, nextId>>
  BY DEF BookInv, JobsFit, Record
<1>1. CASE UNCHANGED versions
  BY <1>0, <1>1, BookStutters
<1>2. CASE versions' = versions \union {v} /\ ~\E u \in VersionsOf(i) : u.n = j.n
  <2> DEFINE S == VersionsIn(versions, i)
             c == Cardinality(S)
  <2>1. i \in 1..nextId - 1 /\ j.n \in 1..c + 1 /\ nextId \in Nat
    BY <1>0 DEF Fits, Saving, BookInv, Issued
  <2>2. Numbered(S) /\ c \in Nat
    BY <2>1, FS_CardinalityType DEF BookInv, Recorded, Numbered
  <2>3. v.n = c + 1 /\ v.id = i
    <3>1. j.n \notin 1..c
      BY <2>2, <1>2 DEF Numbered, VersionsIn, VersionsOf
    <3>2. QED
      BY <3>1, <2>1, <2>2
  <2> HIDE DEF v
  <2>4. VersionsIn(versions', i) = S \union {v}
    BY <1>2, <2>3 DEF VersionsIn
  <2>5. Numbered(S \union {v}) /\ Cardinality(S \union {v}) = c + 1
    BY <2>2, <2>3, NumberedAdd
  <2>6. \A d \in 1..nextId - 1 : d # i => HistoryIn(versions', d) = HistoryIn(versions, d)
    <3> TAKE d \in 1..nextId - 1
    <3>1. d # i => VersionsIn(versions', d) = VersionsIn(versions, d)
      BY <1>2, <2>3 DEF VersionsIn
    <3>2. QED
      BY <3>1 DEF HistoryIn
  <2> DEFINE old == HistoryIn(versions, i)
             new == HistoryIn(versions', i)
  <2>7. ASSUME NEW n \in 1..c
        PROVE  new[n] = old[n]
    <3>1. PICK u \in S : u.n = n
      BY <2>2 DEF Numbered
    <3>2. (CHOOSE x \in S : x.n = n) = u
      BY <2>2, <3>1, VersionAt
    <3>3. (CHOOSE x \in S \union {v} : x.n = n) = u
      BY <2>5, <3>1, VersionAt
    <3>4. n \in 1..c + 1
      BY <2>2
    <3>5. old[n] = u.snap /\ new[n] = u.snap
      BY <3>2, <3>3, <3>4, <2>4, <2>5 DEF HistoryIn, Sequenced
    <3>6. QED
      BY <3>5
  <2>8. DOMAIN old = 1..c /\ DOMAIN new = 1..c + 1
    BY <2>4, <2>5 DEF HistoryIn, Sequenced
  <2>9. /\ new = Append(old, new[c + 1]) /\ Len(old) = c /\ Len(new) = c + 1
    <3>1. old = [n \in 1..c |-> old[n]] /\ new = [n \in 1..c + 1 |-> new[n]]
      BY <2>4, <2>5 DEF HistoryIn, Sequenced
    <3> HIDE DEF old, new, c
    <3>2. QED
      BY <2>2, <2>7, <3>1, AppendOne
  <2>10. History' = [History EXCEPT ![i] = Append(@, new[Len(new)])]
    <3> HIDE DEF old, new
    <3>1. /\ History' = [d \in 1..nextId - 1 |-> HistoryIn(versions', d)]
          /\ History = [d \in 1..nextId - 1 |-> HistoryIn(versions, d)]
      BY HistoryIs, HistoryNext, <1>0
    <3>2. HistoryIn(versions', i) = Append(HistoryIn(versions, i), new[Len(new)])
      BY <2>9 DEF old, new
    <3>3. QED
      BY <3>1, <3>2, <2>1, <2>6
  <2>11. History'[i] = new /\ History[i] = old
    BY HistoryIs, HistoryNext, <1>0, <2>1
  <2>12. Title' = Title /\ nextId' - 1 = nextId - 1
    BY <1>0 DEF Title, Live
  <2>13. Book!Record(i)
    <3> HIDE DEF old, new
    <3>1. Len(History'[i]) = Len(History[i]) + 1
      BY <2>9, <2>11
    <3>2. QED
      BY <3>1, <2>10, <2>11, <2>12 DEF Book!Record
  <2>14. i \in DOMAIN History
    BY HistoryIs, <2>1
  <2>15. QED
    BY <2>13, <2>14
<1>3. QED
  BY <1>1, <1>2 DEF Record

\* A delete withdraws documents, whatever its cascade takes.
LEMMA RemoveWithdraws ==
    ASSUME BookInv, NEW w \in Workers, Remove(w)
    PROVE  Book!Withdraw
<1>1. /\ DOMAIN docs' \subseteq DOMAIN docs /\ UNCHANGED <<versions, nextId>>
      /\ \A d \in DOMAIN docs' : docs'[d].kind = docs[d].kind /\ docs'[d].no = docs[d].no
  BY RemoveRows DEF SameBut, Remove
<1>2. DOMAIN Title' \subseteq DOMAIN Title /\ Title' = [d \in DOMAIN Title' |-> Title[d]]
  <2>1. Title' = [d \in DOMAIN docs' |-> [kind |-> docs'[d].kind, no |-> docs'[d].no]]
    BY DEF Title, Live
  <2>2. \A d \in DOMAIN docs' : Title[d] = [kind |-> docs[d].kind, no |-> docs[d].no]
    BY <1>1 DEF Title, Live
  <2>3. QED
    BY <1>1, <2>1, <2>2 DEF Title, Live
<1>3. History' = History /\ nextId' - 1 = nextId - 1
  BY <1>1, HistoryIs, HistoryNext
<1>4. QED
  BY <1>2, <1>3 DEF Book!Withdraw

\* Every step of the requests is one of the book, or leaves it as it is.
LEMMA BookStep == BookInv /\ [Next]_vars => [Book!BookNext]_(Book!bookVars)
<1> SUFFICES ASSUME BookInv, [Next]_vars
             PROVE  Book!BookNext \/ UNCHANGED Book!bookVars
  OBVIOUS
<1>0. ASSUME UNCHANGED <<docs, versions, nextId>>
      PROVE  UNCHANGED Book!bookVars
  BY <1>0, BookStutters
<1>1. ASSUME NEW w \in Workers, Request(w)
      PROVE  UNCHANGED Book!bookVars
  BY <1>0, <1>1, RequestInv DEF store
<1>2. ASSUME NEW w \in Workers, Work(w)
      PROVE  Book!BookNext \/ UNCHANGED Book!bookVars
  <2>1. CASE Quiet(w) \/ GetById(w) \/ NextVersionNumber(w)
    BY <2>1, <1>0 DEF Quiet, GenerateNumber, ReadStage, Advance, ListCascade, Respond,
                      GetById, NextVersionNumber, store
  <2>2. CASE ReplaceTable(w)
    BY <2>2, ReplaceTableRows, BookStutters DEF ReplaceTable, SameBut
  <2>3. CASE InsertHeader(w)
    BY <2>3, InsertIssues DEF Book!BookNext
  <2>4. CASE UpdateHeader(w)
    BY <2>4, UpdateRetitles DEF Book!BookNext
  <2>5. CASE Record(w)
    BY <2>5, RecordRecords DEF Book!BookNext
  <2>6. CASE Remove(w)
    BY <2>6, RemoveWithdraws DEF Book!BookNext
  <2>7. QED
    BY <1>2, <2>1, <2>2, <2>3, <2>4, <2>5, <2>6 DEF Work, Quiet
<1>3. ASSUME NEW w \in Workers, NEW d \in Live, SetStatus(w, d)
      PROVE  UNCHANGED Book!bookVars
  BY <1>3, SetStatusRows, BookStutters DEF SetStatus
<1>4. CASE Crash \/ UNCHANGED vars
  BY <1>0, <1>4 DEF Crash, vars, store
<1>5. QED
  BY <1>1, <1>2, <1>3, <1>4 DEF Next

\* The documents there are at the start make a book.
LEMMA BookStart == BookInv => Book!BookInit
<1> SUFFICES ASSUME BookInv
             PROVE  Book!BookInit
  OBVIOUS
<1>1. nextId - 1 \in Nat /\ DOMAIN Title \subseteq 1..nextId - 1
  BY DEF BookInv, Issued, Title, Live
<1>2. DOMAIN History = 1..nextId - 1
  BY DEF History
<1>3. QED
  BY <1>1, <1>2 DEF Book!BookInit

\* Every behaviour of the requests, overlaps and crashes included, is one of
\* the book: ids are fresh, minted numbers stay, histories grow by one.
THEOREM RequestsKeepTheBook == Spec => KeepsTheBook
<1>1. Init => Book!BookInit
  BY BookInvInit, BookStart
<1>2. QED
  BY <1>1, BookKept, BookStep, PTL DEF Spec, KeepsTheBook, Book!BookSpec

-----------------------------------------------------------------------------
(* What a request that no other comes between relies on.                   *)

\* Of the documents D and the client's stage c: the document it edits is not
\* confirmed, and the stage it advances the client to is ahead.
Undisturbed(j, D, c) ==
    /\ (j.pc \notin {"idle", "copy"} /\ j.alone = TRUE /\ j.id \in DOMAIN D) =>
          D[j.id].confirmed = FALSE
    /\ (j.pc = "advance" /\ j.alone = TRUE /\ j.kind # "quotation") =>
          Service[j.kind].stage > c

AloneInv ==
    /\ client \in Nat
    /\ \A w \in Workers : Undisturbed(job[w], docs, client)
    /\ \A w \in Workers : (job[w].pc # "idle" /\ job[w].alone = TRUE) =>
          \A v \in Workers \ {w} : job[v].pc = "idle"

\* CLIENT_STATUS_ADVANCE_ON: every kind has a stage, 0 when it advances none.
LEMMA StageType == \A kind \in Kinds : Service[kind].stage \in Nat
BY DEF Kinds, Repository, Service, QuotationService, ProformaInvoiceService, PurchaseOrderService,
       JobWorkService, PurchaseInvoiceService, JobOutService, JobInService, PackingListService,
       ExportInvoiceService

\* No request is under way when the server starts.
LEMMA AloneInvInit == Init => AloneInv
BY DEF Init, AloneInv, Undisturbed, Idle

\* A step of a request that is under way: the others are idle or not alone, so
\* only what it relies on itself is at stake.
LEMMA AloneStep ==
    ASSUME AloneInv, NEW w \in Workers, job[w].pc # "idle",
           \A v \in Workers \ {w} : job'[v] = job[v],
           client' \in Nat,
           job'[w].pc # "idle" => job'[w].alone = job[w].alone,
           Undisturbed(job'[w], docs', client')
    PROVE  AloneInv'
<1>1. ASSUME NEW v \in Workers \ {w}
      PROVE  job[v].pc = "idle" \/ job[v].alone # TRUE
  BY DEF AloneInv
<1>2. \A v \in Workers : Undisturbed(job'[v], docs', client')
  BY <1>1 DEF Undisturbed
<1>3. ASSUME NEW v \in Workers, job'[v].pc # "idle", job'[v].alone = TRUE,
             NEW x \in Workers \ {v}
      PROVE  job'[x].pc = "idle"
  <2>1. v = w
    BY <1>1, <1>3
  <2>2. QED
    BY <1>3, <2>1 DEF AloneInv
<1>4. QED
  BY <1>2, <1>3 DEF AloneInv

\* One that goes on with the same document, whose lock it leaves as it was.
LEMMA SameDocument ==
    ASSUME AloneInv, NEW w \in Workers, job[w].pc \notin {"idle", "copy"},
           \A v \in Workers \ {w} : job'[v] = job[v],
           client' \in Nat,
           job'[w].alone = job[w].alone, job'[w].id = job[w].id, job'[w].pc # "advance",
           DOMAIN docs' \subseteq DOMAIN docs,
           \A d \in DOMAIN docs' : docs'[d].confirmed = docs[d].confirmed
    PROVE  AloneInv'
<1>1. Undisturbed(job[w], docs, client)
  BY DEF AloneInv
<1>2. Undisturbed(job'[w], docs', client')
  BY <1>1 DEF Undisturbed
<1>3. QED
  BY <1>2, AloneStep

\* Requests begin alone or not; the others are alone no more.
LEMMA BeginAlone ==
    ASSUME BookInv, AloneInv, NEW w \in Workers, NEW r, Begin(w, r), UNCHANGED store,
           "pc" \in DOMAIN r, "id" \in DOMAIN r, r.pc # "advance",
           (r.pc # "copy" /\ r.id \in DOMAIN docs) => docs[r.id].confirmed = FALSE
    PROVE  AloneInv'
<1> DEFINE k == Put(r, "alone", \A x \in Workers : job[x].pc = "idle")
<1>1. k.pc = r.pc /\ k.id = r.id /\ k.alone = (\A x \in Workers : job[x].pc = "idle")
  BY DEF Put
<1>2. job'[w] = k
  BY DEF Begin
<1>3. ASSUME NEW v \in Workers, v # w
      PROVE  job'[v].pc = "idle" \/ job'[v].alone = FALSE
  <2>1. CASE job[v].pc = "idle"
    BY <1>3, <2>1 DEF Begin, Idle
  <2>2. CASE job[v].pc # "idle"
    BY <1>3, <2>2 DEF Begin, BookInv, JobsFit, Shape
  <2>3. QED
    BY <2>1, <2>2
<1>4. ASSUME NEW v \in Workers
      PROVE  Undisturbed(job'[v], docs', client')
  <2>1. CASE v = w
    <3> HIDE DEF k
    <3>1. QED
      BY <1>1, <1>2, <2>1 DEF Undisturbed, store
  <2>2. CASE v # w
    BY <1>3, <2>2 DEF Undisturbed
  <2>3. QED
    BY <2>1, <2>2
<1>5. ASSUME NEW v \in Workers, job'[v].pc # "idle", job'[v].alone = TRUE,
             NEW x \in Workers \ {v}
      PROVE  job'[x].pc = "idle"
  <2>1. v = w
    BY <1>3, <1>5
  <2>2. \A y \in Workers : job[y].pc = "idle"
    BY <1>1, <1>2, <1>5, <2>1
  <2>3. QED
    BY <2>1, <2>2 DEF Begin, Idle
<1>6. QED
  BY <1>4, <1>5 DEF AloneInv, store

\* A request begins on a document that is not confirmed.
LEMMA RequestAlone ==
    ASSUME BookInv, AloneInv, NEW w \in Workers, Request(w)
    PROVE  AloneInv'
<1>0. \A d \in Live : docs[d].confirmed \in BOOLEAN
  BY DEF BookInv, Issued, HasFields, Live
<1>1. ASSUME NEW kind, NEW up, NEW no, StartCreate(w, kind, up, no)
      PROVE  AloneInv'
  <2> DEFINE r == [op |-> "create", kind |-> kind, id |-> None, up |-> up, no |-> no,
                   write |-> Written(kind), todo |-> <<>>, seen |-> Nothing,
                   pc |-> IF kind \in TypedKinds THEN "insert" ELSE "number"]
  <2>1. Begin(w, r) /\ UNCHANGED store
    BY <1>1 DEF StartCreate
  <2>2. "pc" \in DOMAIN r /\ "id" \in DOMAIN r /\ r.pc \in {"insert", "number"} /\ r.id = 0
    BY DEF None
  <2>3. 0 \notin DOMAIN docs
    BY DEF BookInv, Issued
  <2> HIDE DEF r
  <2>4. QED
    BY <2>1, <2>2, <2>3, BeginAlone
<1>2. ASSUME NEW d \in Live, StartDuplicate(w, d)
      PROVE  AloneInv'
  <2> DEFINE r == [op |-> "duplicate", kind |-> "quotation", id |-> d, up |-> None,
                   no |-> None, write |-> Nothing, todo |-> Parts("quotation"),
                   seen |-> Nothing, pc |-> "copy"]
  <2>1. Begin(w, r) /\ UNCHANGED store
    BY <1>2 DEF StartDuplicate
  <2>2. "pc" \in DOMAIN r /\ "id" \in DOMAIN r /\ r.pc = "copy"
    OBVIOUS
  <2> HIDE DEF r
  <2>3. QED
    BY <2>1, <2>2, BeginAlone
<1>3. ASSUME NEW d \in Live, StartDelete(w, d)
      PROVE  AloneInv'
  <2> DEFINE r == [op |-> "delete", kind |-> docs[d].kind, id |-> d, pc |-> "list"]
  <2>1. Begin(w, r) /\ UNCHANGED store /\ docs[d].confirmed = FALSE
    BY <1>0, <1>3 DEF StartDelete, Editable
  <2>2. "pc" \in DOMAIN r /\ "id" \in DOMAIN r /\ r.pc = "list" /\ r.id = d
    OBVIOUS
  <2> HIDE DEF r
  <2>3. QED
    BY <2>1, <2>2, BeginAlone
<1>4. ASSUME NEW d \in Live, NEW no, StartUpdate(w, d, no)
      PROVE  AloneInv'
  <2> DEFINE r == [op |-> "update", kind |-> docs[d].kind, id |-> d, up |-> docs[d].up,
                   no |-> no, write |-> Written(docs[d].kind), todo |-> <<>>,
                   seen |-> Nothing, pc |-> "update"]
  <2>1. Begin(w, r) /\ UNCHANGED store /\ docs[d].confirmed = FALSE
    BY <1>0, <1>4 DEF StartUpdate, Editable
  <2>2. "pc" \in DOMAIN r /\ "id" \in DOMAIN r /\ r.pc = "update" /\ r.id = d
    OBVIOUS
  <2> HIDE DEF r
  <2>3. QED
    BY <2>1, <2>2, BeginAlone
<1>5. QED
  BY <1>1, <1>2, <1>3, <1>4 DEF Request

\* What the steps to the tables leave of the request.
LEMMA ToTablesKeeps ==
    ASSUME NEW j, Shape(j), j.pc # "idle"
    PROVE  /\ ToTables(j).id = j.id /\ ToTables(j).alone = j.alone
           /\ ToTables(j).pc \in {"tables", "read"}
           /\ ToRead(j).id = j.id /\ ToRead(j).alone = j.alone /\ ToRead(j).pc = "read"
BY DEF ToTables, ToRead, Shape

\* A request that goes on keeps its document.
LEMMA GotoKeeps ==
    ASSUME NEW j, Shape(j), j.pc # "idle", NEW pc
    PROVE  LET k == [j EXCEPT !.pc = pc] IN
           k.id = j.id /\ k.alone = j.alone /\ k.kind = j.kind /\ k.pc = pc
BY DEF Shape

\* A new document is a draft.
LEMMA InsertHeaderAlone ==
    ASSUME BookInv, AloneInv, NEW w \in Workers, InsertHeader(w)
    PROVE  AloneInv'
<1> DEFINE j == job[w]
<1>0. Shape(j) /\ j.pc = "insert" /\ DOMAIN job = Workers /\ client' \in Nat
  BY DEF BookInv, JobsFit, InsertHeader, AloneInv
<1>1. CASE Insertable(w)
  <2> DEFINE row == [kind |-> j.kind, no |-> j.no, by |-> w, up |-> j.up, confirmed |-> FALSE,
                     part |-> [p \in PartsOf(j.kind) |->
                                  IF p = "head" THEN j.write[p] ELSE None]]
             i == [j EXCEPT !.id = nextId]
  <2>1. docs' = Put(docs, nextId, row) /\ job' = [job EXCEPT ![w] = ToTables(i)]
    BY <1>1 DEF InsertHeader
  <2>2. /\ DOMAIN i = DOMAIN j /\ i.pc = "insert" /\ i.kind = j.kind /\ i.id = nextId
        /\ i.alone = j.alone
    BY <1>0 DEF Shape
  <2>3. row.confirmed = FALSE
    OBVIOUS
  <2> HIDE DEF row, i
  <2>4. Shape(i)
    BY <1>0, <2>2 DEF Shape
  <2>5. job'[w].id = nextId /\ job'[w].alone = j.alone /\ job'[w].pc \in {"tables", "read"}
    BY <1>0, <2>1, <2>2, <2>4, ToTablesKeeps
  <2>6. docs'[nextId].confirmed = FALSE
    BY <2>1, <2>3 DEF Put
  <2>7. Undisturbed(job'[w], docs', client')
    BY <2>5, <2>6 DEF Undisturbed
  <2>8. \A v \in Workers \ {w} : job'[v] = job[v]
    BY <1>0, <2>1
  <2>9. QED
    BY <1>0, <2>5, <2>7, <2>8, AloneStep
<1>2. CASE ~Insertable(w)
  <2>1. Goto(w, "failed") /\ UNCHANGED docs
    BY <1>2 DEF InsertHeader
  <2>2. job'[w].id = j.id /\ job'[w].alone = j.alone /\ job'[w].pc = "failed"
        /\ \A v \in Workers \ {w} : job'[v] = job[v]
    BY <1>0, <2>1, GotoKeeps DEF Goto
  <2>3. QED
    BY <1>0, <2>1, <2>2, SameDocument
<1>3. QED
  BY <1>1, <1>2

\* Saving or deleting sets no lock.
LEMMA EditAlone ==
    ASSUME BookInv, AloneInv, NEW w \in Workers,
           UpdateHeader(w) \/ ReplaceTable(w) \/ Remove(w)
    PROVE  AloneInv'
<1> DEFINE j == job[w]
<1>0. /\ Shape(j) /\ j.pc \in {"update", "tables", "remove"} /\ DOMAIN job = Workers
      /\ client' \in Nat
  BY DEF BookInv, JobsFit, UpdateHeader, ReplaceTable, Remove, AloneInv
<1>1. /\ DOMAIN docs' \subseteq DOMAIN docs
      /\ \A d \in DOMAIN docs' : docs'[d].confirmed = docs[d].confirmed
  BY UpdateHeaderRows, ReplaceTableRows, RemoveRows DEF SameBut
<1>2. ASSUME \A v \in Workers \ {w} : job'[v] = job[v],
             job'[w].id = j.id, job'[w].alone = j.alone,
             job'[w].pc \in {"tables", "read", "done", "failed"}
      PROVE  AloneInv'
  BY <1>0, <1>1, <1>2, SameDocument
<1>3. ASSUME NEW pc \in {"done", "failed"}, Goto(w, pc)
      PROVE  AloneInv'
  <2>1. job'[w].id = j.id /\ job'[w].alone = j.alone /\ job'[w].pc = pc
        /\ \A v \in Workers \ {w} : job'[v] = job[v]
    BY <1>0, <1>3, GotoKeeps DEF Goto
  <2>2. QED
    BY <1>2, <2>1
<1>4. ASSUME job' = [job EXCEPT ![w] = ToTables(@)] \/ job' = [job EXCEPT ![w] = ToRead(j)]
      PROVE  AloneInv'
  BY <1>0, <1>2, <1>4, ToTablesKeeps
<1>5. ASSUME job' = [job EXCEPT ![w] = [j EXCEPT !.todo = Tail(@)]], j.pc = "tables"
      PROVE  AloneInv'
  <2> DEFINE k == [j EXCEPT !.todo = Tail(@)]
  <2>1. k.id = j.id /\ k.alone = j.alone /\ k.pc = "tables"
    BY <1>0, <1>5 DEF Shape
  <2> HIDE DEF k
  <2>2. job'[w] = k /\ \A v \in Workers \ {w} : job'[v] = job[v]
    BY <1>0, <1>5 DEF k
  <2>3. QED
    BY <1>2, <2>1, <2>2
<1>6. CASE UpdateHeader(w)
  BY <1>3, <1>4, <1>6 DEF UpdateHeader
<1>7. CASE ReplaceTable(w)
  <2>1. CASE j.id \notin Live
    BY <1>3, <1>7, <2>1 DEF ReplaceTable
  <2>2. CASE j.id \in Live /\ Len(j.todo) = 1
    BY <1>4, <1>7, <2>2 DEF ReplaceTable
  <2>3. CASE j.id \in Live /\ Len(j.todo) # 1
    BY <1>5, <1>7, <2>3 DEF ReplaceTable
  <2>4. QED
    BY <2>1, <2>2, <2>3
<1>8. CASE Remove(w)
  BY <1>3, <1>8 DEF Remove
<1>9. QED
  BY <1>6, <1>7, <1>8

\* Reading a document sets no lock; a copy forgets its original.
LEMMA GetByIdAlone ==
    ASSUME BookInv, AloneInv, NEW w \in Workers, GetById(w)
    PROVE  AloneInv'
<1> DEFINE j == job[w]
           part == Head(j.todo)
           seen == Put(j.seen, part, IF j.id \in Live THEN docs[j.id].part[part] ELSE None)
<1>0. /\ Shape(j) /\ j.pc \in {"copy", "read"} /\ DOMAIN job = Workers
      /\ UNCHANGED <<docs, client>> /\ client' \in Nat /\ 0 \notin DOMAIN docs
  BY DEF BookInv, JobsFit, GetById, store, AloneInv, Issued
<1>1. ASSUME NEW k, job' = [job EXCEPT ![w] = k], k.alone = j.alone,
             k.pc \in {"copy", "read", "number", "version", "failed"},
             \/ k.id = j.id /\ (j.pc = "copy" => k.pc = "copy")
             \/ k.id \notin DOMAIN docs
      PROVE  AloneInv'
  <2>1. job'[w] = k /\ \A v \in Workers \ {w} : job'[v] = job[v]
    BY <1>0, <1>1
  <2>2. Undisturbed(job[w], docs, client)
    BY DEF AloneInv
  <2>3. Undisturbed(job'[w], docs', client')
    BY <1>0, <1>1, <2>1, <2>2 DEF Undisturbed
  <2>4. QED
    BY <1>0, <1>1, <2>1, <2>3, AloneStep
<1>2. CASE part = "head" /\ j.id \notin Live
  <2> DEFINE k == [j EXCEPT !.pc = "failed"]
  <2>1. job' = [job EXCEPT ![w] = k]
    BY <1>2 DEF GetById, Goto
  <2>2. k.alone = j.alone /\ k.pc = "failed" /\ k.id = j.id
    BY <1>0 DEF Shape
  <2> HIDE DEF k
  <2>3. QED
    BY <1>1, <1>2, <2>1, <2>2 DEF Live
<1>3. CASE ~(part = "head" /\ j.id \notin Live)
  <2>0. job' = [job EXCEPT ![w] =
               IF Len(j.todo) > 1 THEN [j EXCEPT !.seen = seen, !.todo = Tail(@)]
               ELSE IF j.pc = "copy" THEN [j EXCEPT !.write = seen, !.id = None, !.pc = "number"]
               ELSE [j EXCEPT !.seen = seen, !.pc = "version"]]
    BY <1>3 DEF GetById
  <2> HIDE DEF seen
  <2>1. CASE Len(j.todo) > 1
    <3> DEFINE k == [j EXCEPT !.seen = seen, !.todo = Tail(@)]
    <3>1. k.pc = j.pc /\ k.id = j.id /\ k.alone = j.alone
      BY <1>0 DEF Shape
    <3>2. job' = [job EXCEPT ![w] = k]
      BY <2>0, <2>1
    <3> HIDE DEF k
    <3>3. QED
      BY <1>0, <1>1, <3>1, <3>2
  <2>2. CASE ~(Len(j.todo) > 1) /\ j.pc = "copy"
    <3> DEFINE k == [j EXCEPT !.write = seen, !.id = None, !.pc = "number"]
    <3>1. k.pc = "number" /\ k.id = 0 /\ k.alone = j.alone
      BY <1>0 DEF Shape, None
    <3>2. job' = [job EXCEPT ![w] = k]
      BY <2>0, <2>2
    <3> HIDE DEF k
    <3>3. QED
      BY <1>0, <1>1, <3>1, <3>2
  <2>3. CASE ~(Len(j.todo) > 1) /\ j.pc # "copy"
    <3> DEFINE k == [j EXCEPT !.seen = seen, !.pc = "version"]
    <3>1. k.pc = "version" /\ k.id = j.id /\ k.alone = j.alone
      BY <1>0 DEF Shape
    <3>2. job' = [job EXCEPT ![w] = k]
      BY <2>0, <2>3
    <3> HIDE DEF k
    <3>3. QED
      BY <1>1, <2>3, <3>1, <3>2
  <2>4. QED
    BY <2>1, <2>2, <2>3
<1>4. QED
  BY <1>2, <1>3

\* The steps that read or write no document.
LEMMA OtherAlone ==
    ASSUME BookInv, AloneInv, NEW w \in Workers,
           Quiet(w) \/ NextVersionNumber(w) \/ Record(w)
    PROVE  AloneInv'
<1> DEFINE j == job[w]
<1>0. /\ Shape(j) /\ j.pc \notin {"idle", "copy"} /\ DOMAIN job = Workers /\ UNCHANGED docs
      /\ j.kind \in Kinds
  BY DEF BookInv, JobsFit, Quiet, GenerateNumber, ReadStage, Advance, ListCascade, Respond,
         NextVersionNumber, Record, store, Shape
<1>1. client' \in Nat
  BY <1>0, StageType DEF AloneInv, Quiet, GenerateNumber, ReadStage, Advance, ListCascade, Respond,
                         NextVersionNumber, Record, store
<1>2. ASSUME NEW k, job' = [job EXCEPT ![w] = k], k.alone = j.alone, k.id = j.id,
             k.pc # "advance"
      PROVE  AloneInv'
  <2>1. job'[w] = k /\ \A v \in Workers \ {w} : job'[v] = job[v]
    BY <1>0, <1>2
  <2>2. QED
    BY <1>0, <1>1, <1>2, <2>1, SameDocument
<1>3. ASSUME NEW pc, pc # "advance", Goto(w, pc)
      PROVE  AloneInv'
  <2> DEFINE k == [j EXCEPT !.pc = pc]
  <2>1. job' = [job EXCEPT ![w] = k]
    BY <1>3 DEF Goto
  <2>2. k.alone = j.alone /\ k.id = j.id /\ k.pc = pc
    BY <1>0, GotoKeeps
  <2> HIDE DEF k
  <2>3. QED
    BY <1>2, <1>3, <2>1, <2>2
<1>4. CASE GenerateNumber(w)
  <2> DEFINE no == CountForDate(Service[j.kind].counts) + 1
             k == [j EXCEPT !.no = no, !.pc = "insert"]
  <2>1. job' = [job EXCEPT ![w] = k]
    BY <1>4 DEF GenerateNumber
  <2>2. k.alone = j.alone /\ k.id = j.id /\ k.pc = "insert"
    BY <1>0 DEF Shape
  <2> HIDE DEF k
  <2>3. QED
    BY <1>2, <2>1, <2>2
<1>5. CASE ListCascade(w)
  <2> DEFINE lists == IF j.id \in Live THEN [e \in FirstBranch(j.id) |-> Listed(e)]
                                       ELSE [e \in {} |-> {}]
             k == Put([j EXCEPT !.pc = "remove"], "lists", lists)
  <2>1. job' = [job EXCEPT ![w] = k]
    BY <1>5, <1>0 DEF ListCascade, Shape
  <2>2. k.alone = j.alone /\ k.id = j.id /\ k.pc = "remove"
    BY <1>0 DEF Shape, Put
  <2> HIDE DEF k
  <2>3. QED
    BY <1>2, <2>1, <2>2
<1>6. CASE NextVersionNumber(w)
  <2> DEFINE n == LatestVersion(j.id) + 1
             k == Put([j EXCEPT !.pc = "record"], "n", n)
  <2>1. job' = [job EXCEPT ![w] = k]
    BY <1>6, <1>0 DEF NextVersionNumber, Shape
  <2>2. k.alone = j.alone /\ k.id = j.id /\ k.pc = "record"
    BY <1>0 DEF Shape, Put
  <2> HIDE DEF k
  <2>3. QED
    BY <1>2, <2>1, <2>2
<1>7. CASE Record(w)
  BY <1>3, <1>7 DEF Record
<1>8. CASE ReadStage(w)
  <2>1. CASE ~Advances(j.kind, j.up)
    BY <1>3, <1>8, <2>1 DEF ReadStage
  <2>2. CASE Advances(j.kind, j.up)
    <3>1. Goto(w, "advance") /\ UNCHANGED client
      BY <1>8, <2>2 DEF ReadStage, store
    <3>2. /\ job'[w].id = j.id /\ job'[w].alone = j.alone /\ job'[w].kind = j.kind
          /\ job'[w].pc = "advance" /\ \A v \in Workers \ {w} : job'[v] = job[v]
      BY <1>0, <3>1, GotoKeeps DEF Goto
    <3>3. Undisturbed(j, docs, client)
      BY DEF AloneInv
    <3>4. j.kind # "quotation" => Service[j.kind].stage > client
      BY <2>2 DEF Advances
    <3>5. Undisturbed(job'[w], docs', client')
      BY <1>0, <3>1, <3>2, <3>3, <3>4 DEF Undisturbed
    <3>6. QED
      BY <1>0, <1>1, <3>2, <3>5, AloneStep
  <2>3. QED
    BY <2>1, <2>2
<1>9. CASE Advance(w)
  BY <1>3, <1>9 DEF Advance
<1>10. CASE Respond(w)
  <2>1. job'[w].pc = "idle" /\ \A v \in Workers \ {w} : job'[v] = job[v]
    BY <1>0, <1>10 DEF Respond, Idle
  <2>2. Undisturbed(job'[w], docs', client')
    BY <2>1 DEF Undisturbed
  <2>3. QED
    BY <1>0, <1>1, <2>1, <2>2, AloneStep
<1>11. QED
  BY <1>4, <1>5, <1>6, <1>7, <1>8, <1>9, <1>10 DEF Quiet

\* A request that is under way has a step of its own.
LEMMA WorkIsBusy ==
    ASSUME NEW w \in Workers, Work(w)
    PROVE  job[w].pc # "idle" /\ (job[w].pc = "copy" => GetById(w))
BY DEF Work, GenerateNumber, InsertHeader, UpdateHeader, ReplaceTable, GetById, NextVersionNumber,
       Record, ReadStage, Advance, ListCascade, Remove, Respond

\* Every step keeps what lone requests rely on.
LEMMA AloneInvStep == BookInv /\ AloneInv /\ [Next]_vars => AloneInv'
<1> SUFFICES ASSUME BookInv, AloneInv, [Next]_vars
             PROVE  AloneInv'
  OBVIOUS
<1>1. ASSUME NEW w \in Workers, Request(w)
      PROVE  AloneInv'
  BY <1>1, RequestAlone
<1>2. ASSUME NEW w \in Workers, Work(w)
      PROVE  AloneInv'
  BY <1>2, InsertHeaderAlone, EditAlone, GetByIdAlone, OtherAlone DEF Work, Quiet
<1>3. ASSUME NEW w \in Workers, NEW d \in Live, SetStatus(w, d)
      PROVE  AloneInv'
  <2>1. ASSUME NEW v \in Workers
        PROVE  job'[v].pc = "idle" \/ job'[v].alone = FALSE
    <3>1. CASE job[v].pc = "idle"
      BY <1>3, <3>1 DEF SetStatus, Idle
    <3>2. CASE job[v].pc # "idle"
      BY <1>3, <3>2 DEF SetStatus, BookInv, JobsFit, Shape
    <3>3. QED
      BY <3>1, <3>2
  <2>2. client' \in Nat
    BY <1>3 DEF SetStatus, AloneInv
  <2>3. QED
    BY <2>1, <2>2 DEF AloneInv, Undisturbed
<1>4. CASE Crash
  BY <1>4 DEF Crash, store, AloneInv, Undisturbed, Idle
<1>5. CASE UNCHANGED vars
  BY <1>5 DEF vars, store, AloneInv
<1>6. QED
  BY <1>1, <1>2, <1>3, <1>4, <1>5 DEF Next

\* What lone requests rely on holds throughout.
THEOREM AloneKept == Spec => []AloneInv
BY AloneInvInit, AloneInvStep, BookKept, PTL DEF Spec

\* No request that has its document to itself changes a confirmed one.
LEMMA LockStep ==
    ASSUME BookInv, AloneInv, [Next]_vars, NEW w \in Workers, NEW d \in Live,
           docs[d].confirmed, job[w].pc # "idle", job[w].id = d, job[w].alone
    PROVE  d \in DOMAIN docs' /\ docs'[d].part = docs[d].part
<1>1. job[w].pc = "copy" /\ \A v \in Workers \ {w} : job[v].pc = "idle"
  BY DEF AloneInv, Undisturbed, Live
<1>2. CASE UNCHANGED docs
  BY <1>2 DEF Live
<1>3. ASSUME NEW v \in Workers, Request(v)
      PROVE  UNCHANGED docs
  BY <1>3, RequestInv DEF store
<1>4. ASSUME NEW v \in Workers, Work(v)
      PROVE  UNCHANGED docs
  <2>1. v = w /\ GetById(w)
    BY <1>1, <1>4, WorkIsBusy
  <2>2. QED
    BY <2>1 DEF GetById, store
<1>5. ASSUME NEW v \in Workers, NEW e \in Live, SetStatus(v, e)
      PROVE  d \in DOMAIN docs' /\ docs'[d].part = docs[d].part
  BY <1>5, SetStatusRows DEF Live
<1>6. CASE Crash \/ UNCHANGED vars
  BY <1>2, <1>6 DEF Crash, vars, store
<1>7. QED
  BY <1>2, <1>3, <1>4, <1>5, <1>6 DEF Next

\* A confirmed proforma invoice is edited or deleted through its own service
\* only by a request the confirmation came in the middle of.
THEOREM ConfirmedIsLocked == Spec => LockHolds
<1>1. BookInv /\ AloneInv /\ [Next]_vars =>
        [\A w \in Workers, d \in Live :
            (docs[d].confirmed /\ job[w].pc # "idle" /\ job[w].id = d /\ job[w].alone) =>
                d \in DOMAIN docs' /\ docs'[d].part = docs[d].part]_vars
  BY LockStep
<1>2. QED
  BY <1>1, BookKept, AloneKept, PTL DEF Spec, LockHolds

\* The client's stage is walked back only by a request another came between:
\* alone, a save that advances it has just read it.
THEOREM LoneSavesAdvance == Spec => LoneAdvanceIsForward
<1>1. ASSUME BookInv, AloneInv, [Next]_vars, client' < client
      PROVE  \E w \in Workers : job[w].pc = "advance" /\ ~job[w].alone
  <2>1. client \in Nat /\ client' # client
    BY <1>1 DEF AloneInv
  <2>2. PICK w \in Workers : Advance(w)
    <3>1. ~Crash /\ ~UNCHANGED vars
      BY <2>1 DEF Crash, vars, store
    <3>2. ASSUME NEW v \in Workers, Request(v)
          PROVE  UNCHANGED client
      BY <1>1, <3>2, RequestInv DEF store
    <3>3. ASSUME NEW v \in Workers, NEW d \in Live, SetStatus(v, d)
          PROVE  UNCHANGED client
      BY <3>3 DEF SetStatus
    <3>4. ASSUME NEW v \in Workers, Work(v), ~Advance(v)
          PROVE  UNCHANGED client
      BY <3>4 DEF Work, GenerateNumber, InsertHeader, UpdateHeader, ReplaceTable, GetById,
                  NextVersionNumber, Record, ReadStage, ListCascade, Remove, Respond, store
    <3>5. QED
      BY <1>1, <2>1, <3>1, <3>2, <3>3, <3>4 DEF Next
  <2>3. job[w].pc = "advance" /\ job[w].kind # "quotation" /\ client' = Service[job[w].kind].stage
    BY <2>1, <2>2 DEF Advance
  <2>4. job[w].kind \in Kinds
    BY <1>1, <2>3 DEF BookInv, JobsFit, Shape
  <2>5. job[w].alone # TRUE
    <3>1. Undisturbed(job[w], docs, client) /\ Service[job[w].kind].stage \in Nat
      BY <1>1, <2>4, StageType DEF AloneInv
    <3>2. job[w].alone = TRUE => Service[job[w].kind].stage > client
      BY <2>3, <3>1 DEF Undisturbed
    <3>3. ~(client' > client)
      <4>1. client' \in Nat
        BY <2>3, <3>1
      <4>2. QED
        BY <1>1, <2>1, <4>1
    <3>4. QED
      BY <2>3, <3>2, <3>3
  <2>6. QED
    BY <2>3, <2>5
<1>2. QED
  BY <1>1, BookKept, AloneKept, PTL DEF Spec, LoneAdvanceIsForward

(***************************************************************************)
(* A request that no other comes between does what its handler promises: a *)
(* save leaves every table and the newest version with the rows of its     *)
(* form, a delete goes through, and a create finds its number free.        *)
(***************************************************************************)

-----------------------------------------------------------------------------
(* The kinds: their tables, their links and how they are numbered.         *)

\* Short lists.
LEMMA ShortLists ==
    ASSUME NEW S, NEW a \in S, NEW b \in S, NEW c \in S, NEW d \in S
    PROVE  /\ <<>> \in Seq(S) /\ <<a>> \in Seq(S) /\ <<a, b>> \in Seq(S)
           /\ <<a, b, c, d>> \in Seq(S)
OBVIOUS

\* A list with one more in front.
LEMMA InFront ==
    ASSUME NEW S, NEW x \in S, NEW t \in Seq(S)
    PROVE  /\ <<x>> \o t \in Seq(S) /\ Len(<<x>> \o t) = Len(t) + 1
           /\ (<<x>> \o t)[1] = x /\ \A i \in 1..Len(t) : (<<x>> \o t)[i + 1] = t[i]
<1> DEFINE h == <<x>>
<1>1. h \in Seq(S) /\ Len(h) = 1 /\ h[1] = x /\ Len(t) \in Nat
  OBVIOUS
<1> HIDE DEF h
<1>2. /\ h \o t \in Seq(S) /\ Len(h \o t) = Len(h) + Len(t)
      /\ \A i \in 1..Len(h) + Len(t) : (h \o t)[i] = IF i <= Len(h) THEN h[i] ELSE t[i - Len(h)]
  BY <1>1, ConcatProperties
<1>3. (h \o t)[1] = x
  BY <1>1, <1>2
<1>4. ASSUME NEW i \in 1..Len(t)
      PROVE  (h \o t)[i + 1] = t[i]
  BY <1>1, <1>2
<1>5. QED
  BY <1>1, <1>2, <1>3, <1>4 DEF h

Names == {"head", "items", "children", "containers", "products", "vehicles", "orderLinks",
          "jobWorkLinks"}

\* _replace_items and its like: every kind has a list of child tables.
LEMMA TablesType == \A kind \in Kinds : Tables(kind) \in Seq(Names)
<1>1. /\ <<>> \in Seq(Names) /\ <<"items">> \in Seq(Names) /\ <<"children">> \in Seq(Names)
      /\ <<"items", "containers">> \in Seq(Names) /\ <<"items", "products">> \in Seq(Names)
      /\ <<"items", "vehicles", "orderLinks", "jobWorkLinks">> \in Seq(Names)
  <2>1. /\ "items" \in Names /\ "children" \in Names /\ "containers" \in Names
        /\ "products" \in Names /\ "vehicles" \in Names /\ "orderLinks" \in Names
        /\ "jobWorkLinks" \in Names
    BY DEF Names
  <2> HIDE DEF Names
  <2>2. QED
    BY <2>1, ShortLists
<1> DEFINE Ok(t) == t \in Seq(Names)
<1>2. /\ Ok(QuotationRepository.tables) /\ Ok(ProformaInvoiceRepository.tables)
      /\ Ok(PurchaseOrderRepository.tables) /\ Ok(JobWorkRepository.tables)
      /\ Ok(PurchaseInvoiceRepository.tables) /\ Ok(JobOutRepository.tables)
      /\ Ok(JobInRepository.tables) /\ Ok(PackingListRepository.tables)
      /\ Ok(ExportInvoiceRepository.tables)
  BY <1>1 DEF QuotationRepository, ProformaInvoiceRepository,
         PurchaseOrderRepository, JobWorkRepository, PurchaseInvoiceRepository,
         JobOutRepository, JobInRepository, PackingListRepository, ExportInvoiceRepository
<1> HIDE DEF Ok
<1>3. \A kind \in Kinds : Ok(Tables(kind))
  BY <1>2 DEF Kinds, Tables, Repository
<1>4. QED
  BY <1>3 DEF Ok

\* The parts of a document are its header and its child tables.
LEMMA PartsAre ==
    ASSUME NEW kind \in Kinds
    PROVE  /\ "head" \in PartsOf(kind)
           /\ \A i \in DOMAIN Tables(kind) : Tables(kind)[i] \in PartsOf(kind)
           /\ \A p \in PartsOf(kind) : p = "head" \/ \E i \in DOMAIN Tables(kind) : Tables(kind)[i] = p
           /\ Tables(kind) \in Seq(PartsOf(kind))
           /\ Parts(kind) \in Seq(PartsOf(kind)) /\ Parts(kind) # <<>>
           /\ \A p \in PartsOf(kind) : \E i \in DOMAIN Parts(kind) : Parts(kind)[i] = p
<1> DEFINE T == Tables(kind)
           n == Len(T)
<1>1. T \in Seq(Names) /\ n \in Nat /\ DOMAIN T = 1..n
  BY TablesType
<1> HIDE DEF T
<1>2. /\ Parts(kind) \in Seq(Names) /\ Len(Parts(kind)) = n + 1 /\ DOMAIN Parts(kind) = 1..n + 1
      /\ Parts(kind)[1] = "head" /\ \A i \in 1..n : Parts(kind)[i + 1] = T[i]
  <2>1. "head" \in Names
    BY DEF Names
  <2>2. Parts(kind) = <<"head">> \o T
    BY DEF Parts, T
  <2> HIDE DEF Names
  <2>3. QED
    BY <1>1, <2>1, <2>2, InFront
<1>3. PartsOf(kind) = {Parts(kind)[i] : i \in 1..n + 1}
  BY <1>2 DEF PartsOf
<1>4. "head" \in PartsOf(kind)
  <2>1. 1 \in 1..n + 1
    BY <1>1
  <2>2. QED
    BY <2>1, <1>2, <1>3
<1>5. \A i \in DOMAIN T : T[i] \in PartsOf(kind)
  <2> TAKE i \in DOMAIN T
  <2>1. i + 1 \in 1..n + 1 /\ i \in 1..n
    BY <1>1
  <2>2. QED
    BY <2>1, <1>2, <1>3
<1>6. ASSUME NEW p \in PartsOf(kind)
      PROVE  p = "head" \/ \E i \in DOMAIN T : T[i] = p
  <2>1. PICK i \in 1..n + 1 : Parts(kind)[i] = p
    BY <1>3
  <2>2. CASE i = 1
    BY <2>1, <2>2, <1>2
  <2>3. CASE i # 1
    <3>1. i - 1 \in 1..n /\ (i - 1) + 1 = i
      BY <2>3, <1>1
    <3>2. T[i - 1] = p
      BY <2>1, <3>1, <1>2
    <3>3. QED
      BY <3>1, <3>2, <1>1
  <2>4. QED
    BY <2>2, <2>3
<1>7. T \in Seq(PartsOf(kind))
  BY <1>1, <1>5
<1>8. Parts(kind) \in Seq(PartsOf(kind)) /\ Parts(kind) # <<>>
  <2>1. \A i \in 1..n + 1 : Parts(kind)[i] \in PartsOf(kind)
    BY <1>3
  <2>2. QED
    BY <2>1, <1>1, <1>2
<1>9. QED
  BY <1>2, <1>3, <1>4, <1>5, <1>6, <1>7, <1>8 DEF T

\* count_for_date_prefix: the rows of a kind are among those counted for it.
LEMMA CountsItself ==
    \A kind \in Kinds : /\ kind \notin TypedKinds => kind \in Service[kind].counts
                        /\ kind \in TypedKinds => Service[kind].counts = {}
                        /\ Service[kind].counts \subseteq Kinds
BY DEF TypedKinds, Kinds, Repository, Service, QuotationService, ProformaInvoiceService,
       PurchaseOrderService, JobWorkService, PurchaseInvoiceService, JobOutService, JobInService,
       PackingListService, ExportInvoiceService

\* The cascade of a delete knows every kind that may refer to the document, but
\* for the job works, which stay without it.
LEMMA CascadeCovers ==
    ASSUME NEW kind \in Kinds, NEW up \in Service[kind].from
    PROVE  kind \in Repository[up].takes \union Repository[up].lists \union {"jobwork"}
<1> USE DEF Kinds, Repository, Service
<1>1. CASE kind = "quotation"
  BY <1>1 DEF QuotationService
<1>2. CASE kind = "proforma"
  BY <1>2 DEF ProformaInvoiceService, QuotationRepository
<1>3. CASE kind = "order"
  BY <1>3 DEF PurchaseOrderService, ProformaInvoiceRepository
<1>4. CASE kind = "jobwork"
  BY <1>4
<1>5. CASE kind = "invoice"
  BY <1>5 DEF PurchaseInvoiceService, PurchaseOrderRepository, JobWorkRepository
<1>6. CASE kind = "jobout"
  BY <1>6 DEF JobOutService, PurchaseInvoiceRepository
<1>7. CASE kind = "jobin"
  BY <1>7 DEF JobInService, JobOutRepository
<1>8. CASE kind = "packing"
  BY <1>8 DEF PackingListService, QuotationRepository, ProformaInvoiceRepository,
              PurchaseOrderRepository, JobWorkRepository, PurchaseInvoiceRepository
<1>9. CASE kind = "export"
  BY <1>9 DEF ExportInvoiceService
<1>10. QED
  BY <1>1, <1>2, <1>3, <1>4, <1>5, <1>6, <1>7, <1>8, <1>9

\* What a list still holds once its first is done.
InList(p, s) == \E i \in DOMAIN s : s[i] = p
LEMMA HeadDone ==
    ASSUME NEW P, NEW s \in Seq(P), s # <<>>
    PROVE  /\ Head(s) \in P /\ Len(s) \in Nat \ {0}
           /\ Len(s) # 1 => Tail(s) \in Seq(P) /\ Tail(s) # <<>>
           /\ \A p : InList(p, s) => p = Head(s) \/ (Len(s) # 1 /\ InList(p, Tail(s)))
<1>1. Len(s) \in Nat \ {0} /\ DOMAIN s = 1..Len(s) /\ Head(s) = s[1]
  OBVIOUS
<1>2. Head(s) \in P
  BY <1>1
<1>3. /\ Tail(s) \in Seq(P) /\ DOMAIN Tail(s) = 1..Len(s) - 1
      /\ \A i \in 1..Len(s) - 1 : Tail(s)[i] = s[i + 1]
      /\ Len(s) # 1 => Tail(s) # <<>>
  <2>1. /\ Tail(s) \in Seq(P) /\ Len(Tail(s)) = Len(s) - 1
        /\ \A i \in 1..Len(s) - 1 : Tail(s)[i] = s[i + 1]
    BY HeadTailProperties
  <2>2. Len(s) # 1 => Tail(s) # <<>>
    <3>1. Len(<<>>) = 0
      OBVIOUS
    <3>2. Len(s) # 1 => Len(Tail(s)) # 0
      BY <1>1, <2>1
    <3>3. QED
      BY <3>1, <3>2
  <2>3. DOMAIN Tail(s) = 1..Len(Tail(s))
    BY <2>1
  <2>4. QED
    BY <2>1, <2>2, <2>3
<1>4. ASSUME NEW p, InList(p, s), p # Head(s)
      PROVE  Len(s) # 1 /\ InList(p, Tail(s))
  <2>1. PICK i \in 1..Len(s) : s[i] = p
    BY <1>1, <1>4 DEF InList
  <2>2. i # 1 /\ i \in Nat /\ i <= Len(s) /\ i >= 1
    BY <2>1, <1>1, <1>4
  <2>3. i - 1 \in 1..Len(s) - 1 /\ Len(s) # 1
    BY <2>2, <1>1
  <2>4. Tail(s)[i - 1] = s[(i - 1) + 1] /\ (i - 1) + 1 = i
    BY <2>2, <2>3, <1>3
  <2>5. i - 1 \in DOMAIN Tail(s) /\ Tail(s)[i - 1] = p
    BY <2>1, <2>3, <2>4, <1>3
  <2>6. QED
    BY <2>3, <2>5 DEF InList
<1>5. QED
  BY <1>1, <1>2, <1>3, <1>4

-----------------------------------------------------------------------------
(* The tables: rows as typed, links to what is there, numbers unique, and  *)
(* those minted no more than the documents counted, unless one of them was *)
(* deleted.                                                                *)

CountIn(D, kinds) == Cardinality({d \in DOMAIN D : D[d].kind \in kinds})
Minted(kind, gone) == kind \notin TypedKinds /\ Service[kind].counts \intersect gone = {}
LinkOf(up, kind, D) == up = None \/ (up \in DOMAIN D /\ D[up].kind \in Service[kind].from)

TablesFit(D, next, gone) ==
    /\ next \in Nat \ {0} /\ DOMAIN D \subseteq 1..next - 1
    /\ \A d \in DOMAIN D : IsRow(D[d]) /\ LinkOf(D[d].up, D[d].kind, D)
    /\ \A d, e \in DOMAIN D : D[d].kind = D[e].kind /\ D[d].no = D[e].no => d = e
    /\ \A d \in DOMAIN D :
          Minted(D[d].kind, gone) => D[d].no <= CountIn(D, Service[D[d].kind].counts)

\* What the other requests see of a step: no id is used twice, kinds stay, and of
\* what is numbered by a count no less is counted.
Spreads(D, next, gone, D2, next2, gone2) ==
    /\ next2 \in Nat /\ next <= next2 /\ DOMAIN D2 \subseteq 1..next2 - 1 /\ gone \subseteq gone2
    /\ \A d \in 1..next - 1 : d \in DOMAIN D2 => d \in DOMAIN D /\ D2[d].kind = D[d].kind
    /\ \A kind \in Kinds : Minted(kind, gone2) =>
          CountIn(D, Service[kind].counts) <= CountIn(D2, Service[kind].counts)

\* A row of its table, field by field.
LEMMA RowIs ==
    ASSUME NEW row, IsRow(row)
    PROVE  /\ row = [kind |-> row.kind, no |-> row.no, by |-> row.by, up |-> row.up,
                     confirmed |-> row.confirmed, part |-> row.part]
           /\ row.kind \in Kinds /\ row.no \in Nat /\ row.by \in Workers /\ row.up \in Nat
           /\ row.confirmed \in BOOLEAN /\ row.part \in [PartsOf(row.kind) -> Nat]
<1> HIDE DEF Kinds
<1>1. QED
  BY DEF IsRow, RowOf
LEMMA IsARow ==
    ASSUME NEW kind \in Kinds, NEW no \in Nat, NEW by \in Workers, NEW up \in Nat,
           NEW confirmed \in BOOLEAN, NEW part \in [PartsOf(kind) -> Nat]
    PROVE  IsRow([kind |-> kind, no |-> no, by |-> by, up |-> up, confirmed |-> confirmed,
                  part |-> part])
<1> HIDE DEF Kinds
<1>1. QED
  BY DEF IsRow, RowOf

\* An UPDATE writes the link, the number and the header's columns.
LEMMA RowUpdated ==
    ASSUME NEW row, IsRow(row), NEW up, NEW no, NEW part
    PROVE  [[[row EXCEPT !.up = up] EXCEPT !.no = no] EXCEPT !.part = part]
              = [kind |-> row.kind, no |-> no, by |-> row.by, up |-> up,
                 confirmed |-> row.confirmed, part |-> part]
<1> DEFINE a == row.kind
           b == row.by
           c == row.confirmed
           n == row.no
           u == row.up
           p == row.part
<1>1. row = [kind |-> a, no |-> n, by |-> b, up |-> u, confirmed |-> c, part |-> p]
  BY RowIs
<1> HIDE DEF a, b, c, n, u, p
<1> DEFINE one == [row EXCEPT !.up = up]
           two == [one EXCEPT !.no = no]
           three == [two EXCEPT !.part = part]
<1>2. one = [kind |-> a, no |-> n, by |-> b, up |-> up, confirmed |-> c, part |-> p]
  BY <1>1
<1> HIDE DEF one
<1>3. two = [kind |-> a, no |-> no, by |-> b, up |-> up, confirmed |-> c, part |-> p]
  BY <1>2
<1> HIDE DEF two
<1>4. three = [kind |-> a, no |-> no, by |-> b, up |-> up, confirmed |-> c, part |-> part]
  BY <1>3
<1>5. QED
  BY <1>4 DEF one, two, a, b, c

\* The columns of a part of it are written.
LEMMA RowPart ==
    ASSUME NEW row, IsRow(row), NEW part
    PROVE  [row EXCEPT !.part = part]
              = [kind |-> row.kind, no |-> row.no, by |-> row.by, up |-> row.up,
                 confirmed |-> row.confirmed, part |-> part]
<1> DEFINE a == row.kind
           b == row.by
           c == row.confirmed
           n == row.no
           u == row.up
           p == row.part
<1>1. row = [kind |-> a, no |-> n, by |-> b, up |-> u, confirmed |-> c, part |-> p]
  BY RowIs
<1> HIDE DEF a, b, c, n, u, p
<1>2. [row EXCEPT !.part = part]
         = [kind |-> a, no |-> n, by |-> b, up |-> u, confirmed |-> c, part |-> part]
  BY <1>1
<1>3. QED
  BY <1>2 DEF a, b, c, n, u

\* The documents counted are finitely many.
LEMMA Countable ==
    ASSUME NEW D, NEW next \in Nat, DOMAIN D \subseteq 1..next - 1, NEW kinds
    PROVE  /\ IsFiniteSet({d \in DOMAIN D : D[d].kind \in kinds})
           /\ CountIn(D, kinds) \in Nat
<1> DEFINE S == {d \in DOMAIN D : D[d].kind \in kinds}
<1>1. S \subseteq 1..next - 1 /\ IsFiniteSet(1..next - 1)
  BY FS_Interval
<1>2. IsFiniteSet(S) /\ Cardinality(S) \in Nat
  BY <1>1, FS_Subset, FS_CardinalityType
<1>3. QED
  BY <1>2 DEF CountIn

\* A document is inserted, under a number that is free and no more than one past
\* the count.
LEMMA InsertFits ==
    ASSUME NEW D, NEW next, NEW gone, TablesFit(D, next, gone), NEW row, IsRow(row),
           LinkOf(row.up, row.kind, D),
           \A d \in DOMAIN D : D[d].kind = row.kind => D[d].no # row.no,
           Minted(row.kind, gone) => row.no <= CountIn(D, Service[row.kind].counts) + 1
    PROVE  /\ TablesFit(Put(D, next, row), next + 1, gone)
           /\ Spreads(D, next, gone, Put(D, next, row), next + 1, gone)
<1> DEFINE D2 == Put(D, next, row)
<1>1. /\ next \in Nat \ {0} /\ next \notin DOMAIN D /\ DOMAIN D2 = DOMAIN D \union {next}
      /\ D2[next] = row /\ \A d \in DOMAIN D : D2[d] = D[d]
  BY DEF TablesFit, Put
<1> HIDE DEF D2
<1>2. DOMAIN D2 \subseteq 1..(next + 1) - 1 /\ DOMAIN D \subseteq 1..next - 1
  BY <1>1 DEF TablesFit
<1>3. ASSUME NEW kinds
      PROVE  /\ CountIn(D, kinds) \in Nat /\ CountIn(D2, kinds) \in Nat
             /\ CountIn(D, kinds) <= CountIn(D2, kinds)
             /\ row.kind \in kinds => CountIn(D2, kinds) = CountIn(D, kinds) + 1
  <2> DEFINE S == {d \in DOMAIN D : D[d].kind \in kinds}
             S2 == {d \in DOMAIN D2 : D2[d].kind \in kinds}
  <2>1. IsFiniteSet(S) /\ Cardinality(S) \in Nat /\ next \notin S
    BY <1>1, <1>2, Countable DEF CountIn
  <2>2. CASE row.kind \in kinds
    <3>1. S2 = S \union {next}
      BY <1>1, <2>2
    <3>2. Cardinality(S2) = Cardinality(S) + 1
      BY <3>1, <2>1, FS_AddElement
    <3>3. QED
      BY <3>2, <2>1, <2>2 DEF CountIn
  <2>3. CASE row.kind \notin kinds
    <3>1. S2 = S
      BY <1>1, <2>3
    <3>2. CountIn(D2, kinds) = CountIn(D, kinds) /\ CountIn(D, kinds) = Cardinality(S)
      BY <3>1 DEF CountIn
    <3>3. QED
      BY <3>2, <2>1, <2>3
  <2>4. QED
    BY <2>2, <2>3
<1>4. \A d \in DOMAIN D2 : IsRow(D2[d])
  BY <1>1 DEF TablesFit
<1>5. \A up, kind : LinkOf(up, kind, D) => LinkOf(up, kind, D2)
  BY <1>1 DEF LinkOf
<1>6. \A d \in DOMAIN D2 : LinkOf(D2[d].up, D2[d].kind, D2)
  BY <1>1, <1>5 DEF TablesFit
<1>7. \A d, e \in DOMAIN D2 : D2[d].kind = D2[e].kind /\ D2[d].no = D2[e].no => d = e
  BY <1>1 DEF TablesFit
<1>8. ASSUME NEW d \in DOMAIN D2, Minted(D2[d].kind, gone)
      PROVE  D2[d].no <= CountIn(D2, Service[D2[d].kind].counts)
  <2>1. D2[d].kind \in Kinds /\ D2[d].no \in Nat
    BY <1>4, RowIs
  <2>2. CASE d = next
    <3>0. row.kind \in Kinds /\ row.kind \notin TypedKinds
      BY <1>1, <1>8, <2>1, <2>2 DEF Minted
    <3>1. row.kind \in Service[row.kind].counts
      BY <3>0, CountsItself
    <3> DEFINE kinds == Service[row.kind].counts
    <3>2. CountIn(D2, kinds) = CountIn(D, kinds) + 1
      BY <1>3, <3>1
    <3>3. row.no <= CountIn(D, kinds) + 1
      BY <1>1, <1>8, <2>2
    <3> HIDE DEF kinds
    <3>4. D2[d].no <= CountIn(D2, kinds)
      BY <1>1, <2>2, <3>2, <3>3
    <3>5. QED
      BY <1>1, <2>2, <3>4 DEF kinds
  <2>3. CASE d \in DOMAIN D
    <3> DEFINE kinds == Service[D[d].kind].counts
    <3>1. D[d].no <= CountIn(D, kinds)
      BY <1>1, <1>8, <2>3 DEF TablesFit
    <3>2. CountIn(D, kinds) \in Nat /\ CountIn(D2, kinds) \in Nat /\ CountIn(D, kinds) <= CountIn(D2, kinds)
      BY <1>3
    <3> HIDE DEF kinds
    <3>3. D[d].no <= CountIn(D2, kinds)
      BY <1>1, <2>1, <2>3, <3>1, <3>2
    <3>4. QED
      BY <1>1, <2>3, <3>3 DEF kinds
  <2>4. QED
    BY <1>1, <2>2, <2>3
<1>9. TablesFit(D2, next + 1, gone)
  BY <1>1, <1>2, <1>4, <1>6, <1>7, <1>8 DEF TablesFit
<1>10. Spreads(D, next, gone, D2, next + 1, gone)
  BY <1>1, <1>2, <1>3 DEF Spreads
<1>11. QED
  BY <1>9, <1>10 DEF D2

\* Rows are changed, their kinds and minted numbers apart.
LEMMA ChangeFits ==
    ASSUME NEW D, NEW next, NEW gone, TablesFit(D, next, gone), NEW D2, DOMAIN D2 = DOMAIN D,
           \A d \in DOMAIN D : /\ IsRow(D2[d]) /\ D2[d].kind = D[d].kind
                               /\ LinkOf(D2[d].up, D[d].kind, D)
                               /\ D[d].kind \notin TypedKinds => D2[d].no = D[d].no,
           \A d, e \in DOMAIN D : D[d].kind = D[e].kind /\ D2[d].no = D2[e].no => d = e
    PROVE  TablesFit(D2, next, gone) /\ Spreads(D, next, gone, D2, next, gone)
<1>1. ASSUME NEW kinds
      PROVE  CountIn(D2, kinds) = CountIn(D, kinds) /\ CountIn(D, kinds) \in Nat
  <2>1. {d \in DOMAIN D2 : D2[d].kind \in kinds} = {d \in DOMAIN D : D[d].kind \in kinds}
    OBVIOUS
  <2>2. QED
    BY <2>1, Countable DEF CountIn, TablesFit
<1>2. \A up, kind : LinkOf(up, kind, D) => LinkOf(up, kind, D2)
  BY DEF LinkOf
<1>3. ASSUME NEW d \in DOMAIN D2, Minted(D2[d].kind, gone)
      PROVE  D2[d].no <= CountIn(D2, Service[D2[d].kind].counts)
  <2>1. D2[d].no = D[d].no /\ D[d].no <= CountIn(D, Service[D[d].kind].counts)
    BY <1>3 DEF Minted, TablesFit
  <2>2. QED
    BY <1>1, <2>1
<1>4. TablesFit(D2, next, gone)
  BY <1>2, <1>3 DEF TablesFit
<1>5. Spreads(D, next, gone, D2, next, gone)
  BY <1>1 DEF Spreads, TablesFit
<1>6. QED
  BY <1>4, <1>5

\* Documents are removed, no link to them left.
LEMMA RemoveFits ==
    ASSUME NEW D, NEW next, NEW gone, TablesFit(D, next, gone), NEW D2, NEW gone2,
           DOMAIN D2 \subseteq DOMAIN D, gone \subseteq gone2,
           \A d \in DOMAIN D \ DOMAIN D2 : D[d].kind \in gone2,
           \A d \in DOMAIN D2 : /\ IsRow(D2[d]) /\ D2[d].kind = D[d].kind /\ D2[d].no = D[d].no
                                /\ D2[d].up = None \/ (D2[d].up = D[d].up /\ D[d].up \in DOMAIN D2)
    PROVE  TablesFit(D2, next, gone2) /\ Spreads(D, next, gone, D2, next, gone2)
<1>1. \A kind : Minted(kind, gone2) => Minted(kind, gone)
  BY DEF Minted
<1>2. ASSUME NEW kind, Minted(kind, gone2)
      PROVE  /\ CountIn(D2, Service[kind].counts) = CountIn(D, Service[kind].counts)
             /\ CountIn(D, Service[kind].counts) \in Nat
  <2> DEFINE kinds == Service[kind].counts
  <2>1. kinds \intersect gone2 = {}
    BY <1>2 DEF Minted
  <2> HIDE DEF kinds
  <2>2. {d \in DOMAIN D2 : D2[d].kind \in kinds} = {d \in DOMAIN D : D[d].kind \in kinds}
    BY <2>1
  <2>3. CountIn(D2, kinds) = CountIn(D, kinds) /\ CountIn(D, kinds) \in Nat
    BY <2>2, Countable DEF CountIn, TablesFit
  <2>4. QED
    BY <2>3 DEF kinds
<1>3. \A d \in DOMAIN D2 : LinkOf(D2[d].up, D2[d].kind, D2)
  BY DEF LinkOf, TablesFit
<1>4. ASSUME NEW d \in DOMAIN D2, Minted(D2[d].kind, gone2)
      PROVE  D2[d].no <= CountIn(D2, Service[D2[d].kind].counts)
  <2>1. D[d].no <= CountIn(D, Service[D[d].kind].counts)
    BY <1>1, <1>4 DEF TablesFit
  <2>2. QED
    BY <1>2, <1>4, <2>1
<1>5. TablesFit(D2, next, gone2)
  BY <1>3, <1>4 DEF TablesFit
<1>6. Spreads(D, next, gone, D2, next, gone2)
  BY <1>2 DEF Spreads, TablesFit
<1>7. QED
  BY <1>5, <1>6

\* What changes nothing spreads.
LEMMA StaysFit ==
    ASSUME NEW D, NEW next, NEW gone, TablesFit(D, next, gone)
    PROVE  Spreads(D, next, gone, D, next, gone)
<1>1. \A kinds : CountIn(D, kinds) \in Nat
  BY Countable DEF TablesFit
<1>2. QED
  BY <1>1 DEF Spreads, TablesFit

-----------------------------------------------------------------------------
(* The requests.                                                           *)

SavingSteps == {"copy", "number", "insert", "update", "tables", "read", "version", "record",
                "stage", "advance"}
SaveFields == {"op", "kind", "id", "up", "no", "write", "todo", "seen", "pc", "alone"}

\* What has been read of the document, and what is still to be.
Gathers(j) ==
    /\ DOMAIN j.seen \subseteq PartsOf(j.kind) /\ j.seen = [p \in DOMAIN j.seen |-> j.seen[p]]
    /\ \A p \in DOMAIN j.seen : j.seen[p] \in Nat
    /\ \A p \in PartsOf(j.kind) : p \in DOMAIN j.seen \/ InList(p, j.todo)

\* The locals a step is about to use have been assigned.
Formed(j) ==
    /\ j.pc \in Steps
    /\ j.pc # "idle" => {"op", "kind", "id", "alone"} \subseteq DOMAIN j /\ j.kind \in Kinds
    /\ j.pc \in SavingSteps => SaveFields \subseteq DOMAIN j /\ j.op # "delete"
    /\ j.pc \in SavingSteps \ {"copy"} => j.write \in [PartsOf(j.kind) -> Nat]
    /\ j.pc \in {"copy", "number"} => j.kind \notin TypedKinds
    /\ j.pc \in {"insert", "update"} => j.no \in Nat
    /\ j.pc \in {"copy", "tables", "read"} => j.todo \in Seq(PartsOf(j.kind)) /\ j.todo # <<>>
    /\ j.pc \in {"copy", "read"} => Gathers(j)
    /\ j.pc \in {"list", "remove"} => j.op = "delete"
    /\ j.pc = "remove" => "lists" \in DOMAIN j
    /\ j.pc = "advance" => j.kind = "quotation" \/ Service[j.kind].stage # 0

\* What any request knows of the documents: the kind of the one it works on and
\* of the one it links to, and that a number it counted is not too high.
Knows(j, D, next, gone) ==
    /\ j.pc \in {"copy", "number", "insert", "update"} =>
          j.up = None \/ (j.up \in 1..next - 1 /\ (j.up \in DOMAIN D => LinkOf(j.up, j.kind, D)))
    /\ j.pc \in {"copy", "update", "tables", "read"} =>
          j.id \in 1..next - 1 /\ (j.id \in DOMAIN D => D[j.id].kind = j.kind)
    /\ (j.pc = "insert" /\ Minted(j.kind, gone)) => j.no <= CountIn(D, Service[j.kind].counts) + 1

Free(D, kind, no, except) == \A d \in DOMAIN D \ {except} : D[d].kind = kind => D[d].no # no
ListIn(D, d) == {e \in DOMAIN D : D[e].up = d /\ D[e].kind \in Repository[D[d].kind].lists}
HoldsForm(j, D) == j.id \in DOMAIN D /\ D[j.id].part = j.write
VersionHolds(j, V) ==
    \E v \in VersionsIn(V, j.id) : v.n = Cardinality(VersionsIn(V, j.id)) /\ v.snap = j.write

\* What a request no other came between knows besides.
Promised(j, D, V, gone) ==
    /\ j.pc \in {"copy", "update", "tables", "list", "remove"} => j.id \in DOMAIN D
    /\ j.pc \in {"copy", "number", "insert", "update"} => j.up = None \/ j.up \in DOMAIN D
    /\ (j.pc = "insert" /\ j.kind \in TypedKinds) => Free(D, j.kind, j.no, None)
    /\ (j.pc = "insert" /\ j.kind \notin TypedKinds) =>
          j.no = CountIn(D, Service[j.kind].counts) + 1
    /\ j.pc = "update" => Free(D, j.kind, j.no, j.id)
    /\ j.pc = "tables" =>
          \A p \in PartsOf(j.kind) : D[j.id].part[p] = j.write[p] \/ InList(p, j.todo)
    /\ j.pc \in {"read", "version", "record", "stage", "advance"} => HoldsForm(j, D)
    /\ j.pc = "read" => \A p \in DOMAIN j.seen : j.seen[p] = j.write[p]
    /\ j.pc \in {"version", "record"} => j.seen = j.write
    /\ j.pc = "record" => j.n = Cardinality(VersionsIn(V, j.id)) + 1
    /\ j.pc \in {"stage", "advance"} => VersionHolds(j, V)
    /\ (j.pc = "done" /\ j.op # "delete") => HoldsForm(j, D) /\ VersionHolds(j, V)
    /\ j.pc = "remove" => \A e \in DOMAIN j.lists : j.lists[e] = ListIn(D, e)
    /\ (j.pc = "done" /\ j.op = "delete") => j.id \notin DOMAIN D
    /\ j.pc = "failed" => j.op # "delete" /\ Service[j.kind].counts \intersect gone # {}

Fine(j, D, V, next, gone) ==
    /\ Formed(j) /\ Knows(j, D, next, gone)
    /\ (j.pc # "idle" /\ j.alone = TRUE) => Promised(j, D, V, gone)

Settled ==
    /\ TablesFit(docs, nextId, withdrawn)
    /\ withdrawn \subseteq Kinds /\ served \in Nat
    /\ lead \in [status : {"follow_up", "in_client"}, converted : BOOLEAN] /\ client \in 1..5

LoneInv == Settled /\ \A w \in Workers : Fine(job[w], docs, versions, nextId, withdrawn)

\* A worker without a request.
LEMMA IdleFine ==
    ASSUME NEW D, NEW V, NEW next, NEW gone
    PROVE  Fine(Idle, D, V, next, gone)
BY DEF Fine, Formed, Knows, Idle, Steps, SavingSteps

\* What a request is, but for being alone, is in its other fields.
LEMMA SameFields ==
    ASSUME NEW j, NEW k, NEW D, NEW next, NEW gone, Formed(j), Knows(j, D, next, gone),
           "pc" \in DOMAIN j, DOMAIN j \subseteq DOMAIN k,
           \A f \in DOMAIN j \ {"alone"} : k[f] = j[f]
    PROVE  Formed(k) /\ Knows(k, D, next, gone)
<1>1. k.pc = j.pc
  OBVIOUS
<1>2. j.pc # "idle" => k.op = j.op /\ k.kind = j.kind /\ k.id = j.id
  BY DEF Formed
<1>3. j.pc \in SavingSteps => /\ k.up = j.up /\ k.no = j.no /\ k.write = j.write
                              /\ k.todo = j.todo /\ k.seen = j.seen
  BY DEF Formed, SaveFields
<1>4. Formed(k)
  BY <1>1, <1>2, <1>3 DEF Formed, SavingSteps, Gathers
<1>5. Knows(k, D, next, gone)
  BY <1>1, <1>2, <1>3 DEF Knows, SavingSteps
<1>6. QED
  BY <1>4, <1>5

\* What a request knows of the documents survives what the others do to them.
LEMMA KnowsSpreads ==
    ASSUME NEW j, NEW D, NEW next, NEW gone, NEW D2, NEW next2, NEW gone2,
           Formed(j), Knows(j, D, next, gone), TablesFit(D, next, gone),
           Spreads(D, next, gone, D2, next2, gone2)
    PROVE  Knows(j, D2, next2, gone2)
<1>1. \A d \in 1..next - 1 : d \in 1..next2 - 1
  BY DEF TablesFit, Spreads
<1>2. j.pc \in {"copy", "number", "insert", "update"} =>
         j.up = None \/ (j.up \in 1..next2 - 1 /\ (j.up \in DOMAIN D2 => LinkOf(j.up, j.kind, D2)))
  BY <1>1 DEF Knows, Spreads, LinkOf
<1>3. j.pc \in {"copy", "update", "tables", "read"} =>
         j.id \in 1..next2 - 1 /\ (j.id \in DOMAIN D2 => D2[j.id].kind = j.kind)
  BY <1>1 DEF Knows, Spreads
<1>4. ASSUME j.pc = "insert", Minted(j.kind, gone2)
      PROVE  j.no <= CountIn(D2, Service[j.kind].counts) + 1
  <2> DEFINE kinds == Service[j.kind].counts
  <2>1. Minted(j.kind, gone) /\ j.kind \in Kinds /\ j.no \in Nat
    BY <1>4 DEF Minted, Spreads, Formed
  <2>2. j.no <= CountIn(D, kinds) + 1 /\ CountIn(D, kinds) <= CountIn(D2, kinds)
    BY <1>4, <2>1 DEF Knows, Spreads
  <2>3. CountIn(D, kinds) \in Nat
    BY Countable DEF TablesFit
  <2>4. next2 \in Nat
    BY DEF Spreads
  <2>5. CountIn(D2, kinds) \in Nat
    BY <2>4, Countable DEF Spreads
  <2> HIDE DEF kinds
  <2>6. j.no <= CountIn(D2, kinds) + 1
    BY <2>1, <2>2, <2>3, <2>5
  <2>7. QED
    BY <2>6 DEF kinds
<1>5. QED
  BY <1>2, <1>3, <1>4 DEF Knows

\* A step of a request that is under way: what it writes spreads to the others,
\* which are idle or not alone.
LEMMA StepFine ==
    ASSUME AloneInv, LoneInv, NEW w \in Workers, job[w].pc # "idle",
           \A v \in Workers \ {w} : job'[v] = job[v],
           Settled', Fine(job'[w], docs', versions', nextId', withdrawn'),
           Spreads(docs, nextId, withdrawn, docs', nextId', withdrawn')
    PROVE  LoneInv'
<1>1. ASSUME NEW v \in Workers, v # w
      PROVE  Fine(job'[v], docs', versions', nextId', withdrawn')
  <2>1. job[v].pc = "idle" \/ job[v].alone # TRUE
    BY <1>1 DEF AloneInv
  <2>2. Formed(job[v]) /\ Knows(job[v], docs, nextId, withdrawn)
        /\ TablesFit(docs, nextId, withdrawn)
    BY DEF LoneInv, Fine, Settled
  <2>3. Knows(job[v], docs', nextId', withdrawn')
    BY <2>2, KnowsSpreads
  <2>4. QED
    BY <1>1, <2>1, <2>2, <2>3 DEF Fine
<1>2. QED
  BY <1>1 DEF LoneInv

\* One that writes nothing.
LEMMA QuietFine ==
    ASSUME AloneInv, LoneInv, NEW w \in Workers, job[w].pc # "idle",
           \A v \in Workers \ {w} : job'[v] = job[v],
           UNCHANGED <<docs, nextId, withdrawn, served, lead, client>>,
           Fine(job'[w], docs, versions', nextId, withdrawn)
    PROVE  LoneInv'
<1>1. Settled' /\ Spreads(docs, nextId, withdrawn, docs', nextId', withdrawn')
  BY StaysFit DEF LoneInv, Settled
<1>2. QED
  BY <1>1, StepFine

\* Requests begin; the others are alone no more.
LEMMA BeginFine ==
    ASSUME BookInv, LoneInv, NEW w \in Workers, NEW r, Begin(w, r),
           UNCHANGED <<store, withdrawn>>,
           LET k == Put(r, "alone", \A x \in Workers : job[x].pc = "idle") IN
           Formed(k) /\ Knows(k, docs, nextId, withdrawn) /\ Promised(k, docs, versions, withdrawn)
    PROVE  LoneInv'
<1> DEFINE k == Put(r, "alone", \A x \in Workers : job[x].pc = "idle")
<1>1. Settled'
  BY DEF Begin, LoneInv, Settled, store
<1>2. ASSUME NEW v \in Workers
      PROVE  Fine(job'[v], docs, versions, nextId, withdrawn)
  <2>1. CASE v = w
    <3>1. job'[v] = k
      BY <2>1 DEF Begin
    <3> HIDE DEF k
    <3>2. Formed(k) /\ Knows(k, docs, nextId, withdrawn) /\ Promised(k, docs, versions, withdrawn)
      BY DEF k
    <3>3. QED
      BY <3>1, <3>2 DEF Fine
  <2>2. CASE v # w /\ job[v].pc = "idle"
    BY <2>2, IdleFine DEF Begin
  <2>3. CASE v # w /\ job[v].pc # "idle"
    <3> DEFINE j == job[v]
               i == [j EXCEPT !.alone = FALSE]
    <3>1. job'[v] = i
      BY <2>3 DEF Begin
    <3>2. Formed(j) /\ Knows(j, docs, nextId, withdrawn) /\ "pc" \in DOMAIN j
      BY DEF LoneInv, Fine, BookInv, JobsFit, Shape
    <3>3. "alone" \in DOMAIN j
      BY <2>3, <3>2 DEF Formed
    <3> HIDE DEF j
    <3>4. DOMAIN i = DOMAIN j /\ i.alone = FALSE /\ \A f \in DOMAIN j \ {"alone"} : i[f] = j[f]
      BY <3>3
    <3> HIDE DEF i
    <3>5. Formed(i) /\ Knows(i, docs, nextId, withdrawn)
      BY <3>2, <3>4, SameFields
    <3>6. QED
      BY <3>1, <3>4, <3>5 DEF Fine
  <2>4. QED
    BY <2>1, <2>2, <2>3
<1>3. QED
  BY <1>1, <1>2 DEF LoneInv, store

-----------------------------------------------------------------------------
(* A request begins.                                                       *)

\* What a form holds is a token for each part.
LEMMA WrittenType ==
    ASSUME NEW kind \in Kinds, served \in Nat
    PROVE  Written(kind) \in [PartsOf(kind) -> Nat]
BY DEF Written, Form

\* A row that is there, and what it links to.
LEMMA LiveRow ==
    ASSUME LoneInv, NEW d \in Live
    PROVE  /\ IsRow(docs[d]) /\ docs[d].kind \in Kinds /\ docs[d].no \in Nat
           /\ docs[d].up \in Nat /\ LinkOf(docs[d].up, docs[d].kind, docs)
           /\ d \in 1..nextId - 1 /\ nextId \in Nat \ {0}
<1>1. IsRow(docs[d]) /\ LinkOf(docs[d].up, docs[d].kind, docs) /\ d \in 1..nextId - 1
      /\ nextId \in Nat \ {0}
  BY DEF LoneInv, Settled, TablesFit, Live
<1>2. docs[d].kind \in Kinds /\ docs[d].no \in Nat /\ docs[d].up \in Nat
  BY <1>1, RowIs
<1>3. QED
  BY <1>1, <1>2

\* A create.
LEMMA StartCreateFine ==
    ASSUME BookInv, LoneInv, NEW w \in Workers, NEW kind \in NewKinds, NEW up \in Parents(kind),
           NEW no \in TypedNumbers \union {None}, StartCreate(w, kind, up, no)
    PROVE  LoneInv'
<1> DEFINE r == [op |-> "create", kind |-> kind, id |-> None, up |-> up, no |-> no,
                 write |-> Written(kind), todo |-> <<>>, seen |-> Nothing,
                 pc |-> IF kind \in TypedKinds THEN "insert" ELSE "number"]
           b == \A x \in Workers : job[x].pc = "idle"
           k == Put(r, "alone", b)
<1>1. Begin(w, r) /\ UNCHANGED <<store, withdrawn>>
  BY DEF StartCreate
<1>2. kind \in TypedKinds => no \in Nat /\ ~Taken(kind, no, None)
  BY DEF StartCreate, TypedNumbers
<1>3. kind \in Kinds /\ Written(kind) \in [PartsOf(kind) -> Nat]
  BY KindsAssumption, WrittenType DEF LoneInv, Settled
<1>4. up = None \/ (up \in DOMAIN docs /\ up \in 1..nextId - 1 /\ LinkOf(up, kind, docs))
  BY DEF Parents, LoneInv, Settled, TablesFit, Live, LinkOf
<1> HIDE DEF b
<1>5. /\ SaveFields \subseteq DOMAIN k /\ k.op = "create" /\ k.kind = kind /\ k.up = up
      /\ k.no = no /\ k.write = Written(kind) /\ k.id = None
      /\ k.pc = IF kind \in TypedKinds THEN "insert" ELSE "number"
  BY DEF Put, SaveFields
<1> HIDE DEF k
<1>6. Formed(k)
  BY <1>2, <1>3, <1>5 DEF Formed, Steps, SavingSteps, SaveFields
<1>7. Knows(k, docs, nextId, withdrawn)
  BY <1>4, <1>5 DEF Knows, Minted
<1>8. Promised(k, docs, versions, withdrawn)
  BY <1>2, <1>4, <1>5 DEF Promised, Free, Taken, Live
<1>9. QED
  BY <1>1, <1>6, <1>7, <1>8, BeginFine DEF k, b

\* A duplicate.
LEMMA StartDuplicateFine ==
    ASSUME BookInv, LoneInv, NEW w \in Workers, NEW d \in Live, StartDuplicate(w, d)
    PROVE  LoneInv'
<1> DEFINE r == [op |-> "duplicate", kind |-> "quotation", id |-> d, up |-> None,
                 no |-> None, write |-> Nothing, todo |-> Parts("quotation"),
                 seen |-> Nothing, pc |-> "copy"]
           b == \A x \in Workers : job[x].pc = "idle"
           k == Put(r, "alone", b)
<1>1. Begin(w, r) /\ UNCHANGED <<store, withdrawn>> /\ docs[d].kind = "quotation"
  BY DEF StartDuplicate, HasKind
<1>2. "quotation" \in Kinds /\ "quotation" \notin TypedKinds
  BY DEF Kinds, Repository, TypedKinds, Service, QuotationService
<1>3. /\ Parts("quotation") \in Seq(PartsOf("quotation")) /\ Parts("quotation") # <<>>
      /\ \A p \in PartsOf("quotation") : InList(p, Parts("quotation"))
  BY <1>2, PartsAre DEF InList
<1> HIDE DEF b
<1>4. /\ SaveFields \subseteq DOMAIN k /\ k.op = "duplicate" /\ k.kind = "quotation" /\ k.up = None
      /\ k.todo = Parts("quotation") /\ k.seen = Nothing /\ k.id = d /\ k.pc = "copy"
  BY DEF Put, SaveFields
<1> HIDE DEF k
<1>5. DOMAIN k.seen = {} /\ k.seen = [p \in DOMAIN k.seen |-> k.seen[p]]
  BY <1>4 DEF Nothing
<1>6. Gathers(k)
  BY <1>3, <1>4, <1>5 DEF Gathers
<1>7. Formed(k)
  BY <1>2, <1>3, <1>4, <1>6 DEF Formed, Steps, SavingSteps, SaveFields
<1>8. Knows(k, docs, nextId, withdrawn)
  BY <1>1, <1>4, LiveRow DEF Knows
<1>9. Promised(k, docs, versions, withdrawn)
  BY <1>4 DEF Promised, Live
<1>10. QED
  BY <1>1, <1>7, <1>8, <1>9, BeginFine DEF k, b

\* An edit.
LEMMA StartUpdateFine ==
    ASSUME BookInv, LoneInv, NEW w \in Workers, NEW d \in Live,
           NEW no \in TypedNumbers \union {docs[d].no}, StartUpdate(w, d, no)
    PROVE  LoneInv'
<1> DEFINE r == [op |-> "update", kind |-> docs[d].kind, id |-> d, up |-> docs[d].up,
                 no |-> no, write |-> Written(docs[d].kind), todo |-> <<>>,
                 seen |-> Nothing, pc |-> "update"]
           b == \A x \in Workers : job[x].pc = "idle"
           k == Put(r, "alone", b)
<1>1. Begin(w, r) /\ UNCHANGED <<store, withdrawn>>
  BY DEF StartUpdate
<1>2. /\ docs[d].kind \in Kinds /\ docs[d].no \in Nat /\ LinkOf(docs[d].up, docs[d].kind, docs)
      /\ d \in 1..nextId - 1 /\ d \in DOMAIN docs
  BY LiveRow DEF Live
<1>3. no \in Nat
  BY <1>2 DEF TypedNumbers
<1>4. Written(docs[d].kind) \in [PartsOf(docs[d].kind) -> Nat]
  BY <1>2, WrittenType DEF LoneInv, Settled
<1>5. docs[d].up = None \/ (docs[d].up \in DOMAIN docs /\ docs[d].up \in 1..nextId - 1)
  BY <1>2 DEF LinkOf, LoneInv, Settled, TablesFit
<1>6. Free(docs, docs[d].kind, no, d)
  <2>1. CASE docs[d].kind \in TypedKinds
    BY <2>1 DEF StartUpdate, Taken, Free, Live
  <2>2. CASE docs[d].kind \notin TypedKinds
    BY <2>2 DEF StartUpdate, Free, LoneInv, Settled, TablesFit, Live
  <2>3. QED
    BY <2>1, <2>2
<1> HIDE DEF b
<1>7. /\ SaveFields \subseteq DOMAIN k /\ k.op = "update" /\ k.kind = docs[d].kind
      /\ k.up = docs[d].up /\ k.no = no /\ k.write = Written(docs[d].kind) /\ k.id = d
      /\ k.pc = "update"
  BY DEF Put, SaveFields
<1> HIDE DEF k
<1>8. Formed(k)
  BY <1>2, <1>3, <1>4, <1>7 DEF Formed, Steps, SavingSteps, SaveFields
<1>9. Knows(k, docs, nextId, withdrawn)
  BY <1>2, <1>5, <1>7 DEF Knows
<1>10. Promised(k, docs, versions, withdrawn)
  BY <1>2, <1>5, <1>6, <1>7 DEF Promised
<1>11. QED
  BY <1>1, <1>8, <1>9, <1>10, BeginFine DEF k, b

\* A delete.
LEMMA StartDeleteFine ==
    ASSUME BookInv, LoneInv, NEW w \in Workers, NEW d \in Live, StartDelete(w, d)
    PROVE  LoneInv'
<1> DEFINE r == [op |-> "delete", kind |-> docs[d].kind, id |-> d, pc |-> "list"]
           b == \A x \in Workers : job[x].pc = "idle"
           k == Put(r, "alone", b)
<1>1. Begin(w, r) /\ UNCHANGED <<store, withdrawn>>
  BY DEF StartDelete
<1> HIDE DEF b
<1>2. /\ {"op", "kind", "id", "alone"} \subseteq DOMAIN k /\ k.op = "delete"
      /\ k.kind = docs[d].kind /\ k.id = d /\ k.pc = "list"
  BY DEF Put
<1> HIDE DEF k
<1>3. Formed(k)
  BY <1>2, LiveRow DEF Formed, Steps, SavingSteps
<1>4. Knows(k, docs, nextId, withdrawn)
  BY <1>2 DEF Knows
<1>5. Promised(k, docs, versions, withdrawn)
  BY <1>2 DEF Promised, Live
<1>6. QED
  BY <1>1, <1>3, <1>4, <1>5, BeginFine DEF k, b

\* Every request begins as it should.
LEMMA RequestFine ==
    ASSUME BookInv, LoneInv, NEW w \in Workers, Request(w)
    PROVE  LoneInv'
BY StartCreateFine, StartDuplicateFine, StartUpdateFine, StartDeleteFine DEF Request

-----------------------------------------------------------------------------
(* Creating and editing, as far as the header.                             *)

KeptFields == {"op", "kind", "id", "up", "no", "write", "alone"}

\* A request that goes to another step.
LEMMA GotoIs ==
    ASSUME NEW j, NEW pc, "pc" \in DOMAIN j
    PROVE  LET k == [j EXCEPT !.pc = pc] IN
           DOMAIN k = DOMAIN j /\ k.pc = pc /\ \A f \in DOMAIN j \ {"pc"} : k[f] = j[f]
OBVIOUS

\* A request that ends.
LEMMA EndFine ==
    ASSUME NEW j, NEW pc \in {"done", "failed"}, NEW D, NEW V, NEW next, NEW gone,
           Formed(j), j.pc # "idle", "pc" \in DOMAIN j,
           j.alone = TRUE => Promised([j EXCEPT !.pc = pc], D, V, gone)
    PROVE  Fine([j EXCEPT !.pc = pc], D, V, next, gone)
<1> DEFINE k == [j EXCEPT !.pc = pc]
<1>1. {"op", "kind", "id", "alone"} \subseteq DOMAIN j /\ j.kind \in Kinds
  BY DEF Formed
<1>2. /\ DOMAIN k = DOMAIN j /\ k.pc = pc
      /\ k.op = j.op /\ k.kind = j.kind /\ k.id = j.id /\ k.alone = j.alone
  BY <1>1, GotoIs
<1>3. j.alone = TRUE => Promised(k, D, V, gone)
  OBVIOUS
<1> HIDE DEF k
<1>4. Formed(k)
  BY <1>1, <1>2 DEF Formed, Steps, SavingSteps
<1>5. Knows(k, D, next, gone)
  BY <1>2 DEF Knows
<1>6. QED
  BY <1>2, <1>3, <1>4, <1>5 DEF Fine, k

\* The child tables come next, or the read-back of a document without any.
LEMMA ToTablesIs ==
    ASSUME NEW j, SaveFields \subseteq DOMAIN j
    PROVE  LET k == ToTables(j) IN
           /\ SaveFields \subseteq DOMAIN k /\ \A f \in KeptFields : k[f] = j[f]
           /\ Tables(j.kind) = <<>> => /\ k.pc = "read" /\ k.todo = Parts(j.kind)
                                       /\ k.seen = Nothing
           /\ Tables(j.kind) # <<>> => k.pc = "tables" /\ k.todo = Tables(j.kind)
<1>1. CASE Tables(j.kind) = <<>>
  <2> DEFINE k == ToRead(j)
  <2>1. ToTables(j) = k
    BY <1>1 DEF ToTables
  <2>2. /\ DOMAIN k = DOMAIN j /\ k.pc = "read" /\ k.todo = Parts(j.kind) /\ k.seen = Nothing
        /\ \A f \in KeptFields : k[f] = j[f]
    BY DEF ToRead, SaveFields, KeptFields
  <2> HIDE DEF k
  <2>3. QED
    BY <1>1, <2>1, <2>2
<1>2. CASE Tables(j.kind) # <<>>
  <2> DEFINE k == [j EXCEPT !.pc = "tables", !.todo = Tables(j.kind)]
  <2>1. ToTables(j) = k
    BY <1>2 DEF ToTables
  <2>2. /\ DOMAIN k = DOMAIN j /\ k.pc = "tables" /\ k.todo = Tables(j.kind)
        /\ \A f \in KeptFields : k[f] = j[f]
    BY DEF SaveFields, KeptFields
  <2> HIDE DEF k
  <2>3. QED
    BY <1>2, <2>1, <2>2
<1>3. QED
  BY <1>1, <1>2

\* A save that has written the header.
LEMMA AfterHeader ==
    ASSUME NEW j, NEW D, NEW V, NEW next, NEW gone,
           SaveFields \subseteq DOMAIN j, j.op # "delete", j.kind \in Kinds,
           j.write \in [PartsOf(j.kind) -> Nat],
           j.id \in 1..next - 1, j.id \in DOMAIN D => D[j.id].kind = j.kind,
           j.alone = TRUE => /\ j.id \in DOMAIN D /\ D[j.id].part \in [PartsOf(j.kind) -> Nat]
                             /\ D[j.id].part["head"] = j.write["head"]
    PROVE  Fine(ToTables(j), D, V, next, gone)
<1> DEFINE k == ToTables(j)
<1>1. /\ SaveFields \subseteq DOMAIN k
      /\ k.op = j.op /\ k.kind = j.kind /\ k.id = j.id /\ k.write = j.write /\ k.alone = j.alone
      /\ Tables(j.kind) = <<>> => /\ k.pc = "read" /\ k.todo = Parts(j.kind) /\ k.seen = Nothing
      /\ Tables(j.kind) # <<>> => k.pc = "tables" /\ k.todo = Tables(j.kind)
  BY ToTablesIs DEF KeptFields
<1> HIDE DEF k
<1>2. /\ "head" \in PartsOf(j.kind)
      /\ \A p \in PartsOf(j.kind) : p = "head" \/ InList(p, Tables(j.kind))
      /\ Tables(j.kind) \in Seq(PartsOf(j.kind))
      /\ Parts(j.kind) \in Seq(PartsOf(j.kind)) /\ Parts(j.kind) # <<>>
      /\ \A p \in PartsOf(j.kind) : InList(p, Parts(j.kind))
  BY PartsAre DEF InList
<1>3. CASE Tables(j.kind) = <<>>
  <2>1. DOMAIN k.seen = {} /\ k.seen = [p \in DOMAIN k.seen |-> k.seen[p]]
    BY <1>1, <1>3 DEF Nothing
  <2>2. Gathers(k)
    BY <1>1, <1>2, <1>3, <2>1 DEF Gathers
  <2>3. Formed(k)
    BY <1>1, <1>2, <1>3, <2>2 DEF Formed, Steps, SavingSteps, SaveFields
  <2>4. Knows(k, D, next, gone)
    BY <1>1, <1>3 DEF Knows
  <2>5. k.alone = TRUE => HoldsForm(k, D)
    <3>1. \A p \in PartsOf(j.kind) : p = "head"
      BY <1>2, <1>3 DEF InList
    <3>2. QED
      BY <1>1, <3>1 DEF HoldsForm
  <2>6. k.alone = TRUE => Promised(k, D, V, gone)
    BY <1>1, <1>3, <2>1, <2>5 DEF Promised
  <2>7. QED
    BY <2>3, <2>4, <2>6 DEF Fine, k
<1>4. CASE Tables(j.kind) # <<>>
  <2>1. Formed(k)
    BY <1>1, <1>2, <1>4 DEF Formed, Steps, SavingSteps, SaveFields
  <2>2. Knows(k, D, next, gone)
    BY <1>1, <1>4 DEF Knows
  <2>3. k.alone = TRUE => Promised(k, D, V, gone)
    BY <1>1, <1>2, <1>4 DEF Promised
  <2>4. QED
    BY <2>1, <2>2, <2>3 DEF Fine, k
<1>5. QED
  BY <1>3, <1>4

\* What is known of a request that takes a step.
LEMMA WorkOf ==
    ASSUME BookInv, LoneInv, NEW w \in Workers, job[w].pc # "idle"
    PROVE  /\ DOMAIN job = Workers /\ "pc" \in DOMAIN job[w]
           /\ Formed(job[w]) /\ Knows(job[w], docs, nextId, withdrawn)
           /\ {"op", "kind", "id", "alone"} \subseteq DOMAIN job[w] /\ job[w].kind \in Kinds
           /\ job[w].alone = TRUE => Promised(job[w], docs, versions, withdrawn)
           /\ TablesFit(docs, nextId, withdrawn)
BY DEF BookInv, JobsFit, Shape, LoneInv, Fine, Formed, Settled

\* The number is counted.
LEMMA GenerateNumberFine ==
    ASSUME BookInv, AloneInv, LoneInv, NEW w \in Workers, GenerateNumber(w)
    PROVE  LoneInv'
<1> DEFINE j == job[w]
           n == CountForDate(Service[j.kind].counts) + 1
           k == [j EXCEPT !.no = n, !.pc = "insert"]
<1>1. /\ j.pc = "number" /\ DOMAIN job = Workers /\ Formed(j)
      /\ Knows(j, docs, nextId, withdrawn) /\ TablesFit(docs, nextId, withdrawn)
      /\ j.alone = TRUE => Promised(j, docs, versions, withdrawn)
  BY WorkOf DEF GenerateNumber
<1>2. n = CountIn(docs, Service[j.kind].counts) + 1 /\ n \in Nat
  <2>1. n = CountIn(docs, Service[j.kind].counts) + 1
    BY DEF CountForDate, CountIn, Live
  <2>2. CountIn(docs, Service[j.kind].counts) \in Nat
    BY <1>1, Countable DEF TablesFit
  <2>3. QED
    BY <2>1, <2>2
<1>3. job' = [job EXCEPT ![w] = k]
  BY <1>1 DEF GenerateNumber
<1>4. SaveFields \subseteq DOMAIN j /\ j.op # "delete" /\ j.kind \in Kinds /\ j.kind \notin TypedKinds
      /\ j.write \in [PartsOf(j.kind) -> Nat]
  BY <1>1 DEF Formed, SavingSteps
<1> HIDE DEF n
<1>5. /\ DOMAIN k = DOMAIN j /\ k.pc = "insert" /\ k.no = n /\ k.op = j.op /\ k.kind = j.kind
      /\ k.id = j.id /\ k.up = j.up /\ k.write = j.write /\ k.alone = j.alone
  BY <1>4 DEF SaveFields
<1>6. job'[w] = k /\ \A v \in Workers \ {w} : job'[v] = job[v]
  BY <1>1, <1>3
<1> HIDE DEF k
<1>7. Formed(k)
  BY <1>2, <1>4, <1>5 DEF Formed, Steps, SavingSteps, SaveFields
<1>8. Knows(k, docs, nextId, withdrawn)
  BY <1>1, <1>2, <1>5 DEF Knows
<1>9. k.alone = TRUE => Promised(k, docs, versions, withdrawn)
  BY <1>1, <1>2, <1>4, <1>5 DEF Promised
<1>10. Fine(k, docs, versions, nextId, withdrawn)
  BY <1>7, <1>8, <1>9 DEF Fine
<1>11. QED
  BY <1>1, <1>6, <1>10, QuietFine DEF GenerateNumber, store

\* A request that fails while others run, or, alone, for a number that a deleted
\* document had.
LEMMA FailFine ==
    ASSUME BookInv, AloneInv, LoneInv, NEW w \in Workers, job[w].pc # "idle", Goto(w, "failed"),
           UNCHANGED <<store, served, withdrawn>>,
           job[w].alone = TRUE =>
              job[w].op # "delete" /\ Service[job[w].kind].counts \intersect withdrawn # {}
    PROVE  LoneInv'
<1> DEFINE j == job[w]
           k == [j EXCEPT !.pc = "failed"]
<1>1. /\ DOMAIN job = Workers /\ "pc" \in DOMAIN j /\ Formed(j)
      /\ {"op", "kind", "id", "alone"} \subseteq DOMAIN j
  BY WorkOf
<1>2. job'[w] = k /\ \A v \in Workers \ {w} : job'[v] = job[v]
  BY <1>1 DEF Goto
<1>3. k.pc = "failed" /\ k.op = j.op /\ k.kind = j.kind
  BY <1>1, GotoIs
<1>4. j.alone = TRUE => Promised(k, docs, versions, withdrawn)
  <2> HIDE DEF k
  <2>1. QED
    BY <1>3 DEF Promised
<1>5. Fine(k, docs, versions, nextId, withdrawn)
  BY <1>1, <1>4, EndFine
<1> HIDE DEF k
<1>6. QED
  BY <1>2, <1>5, QuietFine DEF store

\* INSERT of the header.
LEMMA InsertHeaderFine ==
    ASSUME BookInv, AloneInv, LoneInv, NEW w \in Workers, InsertHeader(w)
    PROVE  LoneInv'
<1> DEFINE j == job[w]
<1>1. /\ j.pc = "insert" /\ DOMAIN job = Workers /\ Formed(j)
      /\ Knows(j, docs, nextId, withdrawn) /\ TablesFit(docs, nextId, withdrawn)
      /\ j.alone = TRUE => Promised(j, docs, versions, withdrawn)
      /\ UNCHANGED <<versions, lead, client, served, withdrawn>>
  BY WorkOf DEF InsertHeader
<1>2. /\ SaveFields \subseteq DOMAIN j /\ j.op # "delete" /\ j.kind \in Kinds /\ j.no \in Nat
      /\ j.write \in [PartsOf(j.kind) -> Nat]
  BY <1>1 DEF Formed, SavingSteps
<1>3. CASE Insertable(w)
  <2> DEFINE part == [p \in PartsOf(j.kind) |-> IF p = "head" THEN j.write[p] ELSE None]
             row == [kind |-> j.kind, no |-> j.no, by |-> w, up |-> j.up, confirmed |-> FALSE,
                     part |-> part]
             D2 == Put(docs, nextId, row)
             i == [j EXCEPT !.id = nextId]
  <2>1. /\ docs' = D2 /\ nextId' = nextId + 1 /\ job' = [job EXCEPT ![w] = ToTables(i)]
    BY <1>3 DEF InsertHeader
  <2>2. part \in [PartsOf(j.kind) -> Nat] /\ part["head"] = j.write["head"]
    BY <1>2, PartsAre DEF None
  <2>3. LinkOf(j.up, j.kind, docs) /\ j.up \in Nat
    BY <1>1, <1>3 DEF Insertable, Knows, Live, LinkOf, None, TablesFit
  <2>4. IsRow(row) /\ row.kind = j.kind /\ row.no = j.no /\ row.up = j.up /\ row.part = part
    <3> HIDE DEF part
    <3>1. QED
      BY <1>2, <2>2, <2>3, IsARow
  <2>5. /\ \A d \in DOMAIN docs : docs[d].kind = j.kind => docs[d].no # j.no
        /\ Minted(j.kind, withdrawn) => j.no <= CountIn(docs, Service[j.kind].counts) + 1
    BY <1>1, <1>3 DEF Insertable, Taken, Live, Knows, TablesFit, None
  <2> HIDE DEF row
  <2>6. TablesFit(D2, nextId + 1, withdrawn)
        /\ Spreads(docs, nextId, withdrawn, D2, nextId + 1, withdrawn)
    BY <1>1, <2>3, <2>4, <2>5, InsertFits
  <2>7. nextId \in DOMAIN D2 /\ D2[nextId] = row /\ nextId \in 1..(nextId + 1) - 1
    BY <1>1 DEF Put, TablesFit
  <2> HIDE DEF D2
  <2>8. /\ SaveFields \subseteq DOMAIN i /\ i.op = j.op /\ i.kind = j.kind /\ i.id = nextId
        /\ i.write = j.write /\ i.alone = j.alone
    BY <1>2 DEF SaveFields
  <2> HIDE DEF i, part
  <2>9. Fine(ToTables(i), D2, versions, nextId + 1, withdrawn)
    BY <1>2, <2>2, <2>4, <2>7, <2>8, AfterHeader
  <2>10. job'[w] = ToTables(i) /\ \A v \in Workers \ {w} : job'[v] = job[v]
    BY <1>1, <2>1
  <2>11. Settled'
    BY <1>1, <2>1, <2>6 DEF Settled, LoneInv
  <2>12. QED
    BY <1>1, <2>1, <2>6, <2>9, <2>10, <2>11, StepFine
<1>4. CASE ~Insertable(w)
  <2>1. Goto(w, "failed") /\ UNCHANGED <<store, served, withdrawn>>
    BY <1>1, <1>4 DEF InsertHeader, store
  <2>2. ASSUME j.alone = TRUE, Service[j.kind].counts \intersect withdrawn = {}
        PROVE  FALSE
    <3>1. PICK d \in DOMAIN docs : docs[d].kind = j.kind /\ docs[d].no = j.no
      BY <1>1, <1>4, <2>2 DEF Promised, Insertable, Taken, Live
    <3>2. d # None
      BY <1>1 DEF TablesFit, None
    <3>3. CASE j.kind \in TypedKinds
      BY <1>1, <2>2, <3>1, <3>2, <3>3 DEF Promised, Free
    <3>4. CASE j.kind \notin TypedKinds
      <4> DEFINE n == CountIn(docs, Service[j.kind].counts)
      <4>1. n \in Nat
        BY <1>1, Countable DEF TablesFit
      <4>2. j.no = n + 1
        BY <1>1, <2>2, <3>4 DEF Promised
      <4>3. docs[d].no <= n
        BY <1>1, <2>2, <3>1, <3>4 DEF TablesFit, Minted
      <4> HIDE DEF n
      <4>4. QED
        BY <3>1, <4>1, <4>2, <4>3
    <3>5. QED
      BY <3>3, <3>4
  <2>3. QED
    BY <1>1, <1>2, <2>1, <2>2, FailFine
<1>5. QED
  BY <1>3, <1>4

\* UPDATE of the header.
LEMMA UpdateHeaderFine ==
    ASSUME BookInv, AloneInv, LoneInv, NEW w \in Workers, UpdateHeader(w)
    PROVE  LoneInv'
<1> DEFINE j == job[w]
<1>1. /\ j.pc = "update" /\ DOMAIN job = Workers /\ Formed(j)
      /\ Knows(j, docs, nextId, withdrawn) /\ TablesFit(docs, nextId, withdrawn)
      /\ j.alone = TRUE => Promised(j, docs, versions, withdrawn)
      /\ UNCHANGED <<nextId, versions, lead, client, served, withdrawn>>
  BY WorkOf DEF UpdateHeader
<1>2. /\ SaveFields \subseteq DOMAIN j /\ j.op # "delete" /\ j.kind \in Kinds /\ j.no \in Nat
      /\ j.write \in [PartsOf(j.kind) -> Nat] /\ "head" \in PartsOf(j.kind)
      /\ j.id \in 1..nextId - 1 /\ (j.id \in DOMAIN docs => docs[j.id].kind = j.kind)
  BY <1>1, PartsAre DEF Formed, SavingSteps, Knows
<1>3. ASSUME j.id \notin Live, job' = [job EXCEPT ![w] = ToTables(@)], UNCHANGED docs
      PROVE  LoneInv'
  <2>1. j.alone # TRUE
    BY <1>1, <1>3 DEF Promised, Live
  <2>2. Fine(ToTables(j), docs, versions, nextId, withdrawn)
    BY <1>2, <2>1, AfterHeader
  <2>3. job'[w] = ToTables(j) /\ \A v \in Workers \ {w} : job'[v] = job[v]
    BY <1>1, <1>3
  <2>4. QED
    BY <1>1, <1>3, <2>2, <2>3, QuietFine
<1>4. ASSUME j.id \in Live, j.up \in Live \union {None}, ~Taken(j.kind, j.no, j.id),
             docs' = [docs EXCEPT ![j.id].up = j.up, ![j.id].no = j.no,
                                  ![j.id].part["head"] = j.write["head"]],
             job' = [job EXCEPT ![w] = ToTables(@)]
      PROVE  LoneInv'
  <2> DEFINE old == docs[j.id]
             part == [old.part EXCEPT !["head"] = j.write["head"]]
             row == [kind |-> old.kind, no |-> j.no, by |-> old.by, up |-> j.up,
                     confirmed |-> old.confirmed, part |-> part]
  <2>1. /\ IsRow(old) /\ old.kind = j.kind
        /\ old = [kind |-> old.kind, no |-> old.no, by |-> old.by, up |-> old.up,
                  confirmed |-> old.confirmed, part |-> old.part]
        /\ old.by \in Workers /\ old.confirmed \in BOOLEAN
        /\ old.part \in [PartsOf(j.kind) -> Nat]
    BY <1>1, <1>2, <1>4, RowIs DEF TablesFit, Live
  <2>2. docs' = [docs EXCEPT ![j.id] =
                    [[[old EXCEPT !.up = j.up] EXCEPT !.no = j.no] EXCEPT !.part = part]]
    BY <1>4 DEF Live
  <2>3. part \in [PartsOf(j.kind) -> Nat] /\ part["head"] = j.write["head"]
    BY <1>2, <2>1
  <2>4. [[[old EXCEPT !.up = j.up] EXCEPT !.no = j.no] EXCEPT !.part = part] = row
    <3> HIDE DEF part, old
    <3>1. IsRow(old)
      BY <2>1
    <3>2. \A up, no, p : [[[old EXCEPT !.up = up] EXCEPT !.no = no] EXCEPT !.part = p]
                            = [kind |-> old.kind, no |-> no, by |-> old.by, up |-> up,
                               confirmed |-> old.confirmed, part |-> p]
      BY ONLY <3>1, RowUpdated
    <3>3. QED
      BY ONLY <3>2
  <2>5. LinkOf(j.up, j.kind, docs) /\ j.up \in Nat
    BY <1>1, <1>4 DEF Knows, Live, LinkOf, None, TablesFit
  <2>6. IsRow(row) /\ row.kind = j.kind /\ row.no = j.no /\ row.up = j.up /\ row.part = part
    <3> HIDE DEF part, old
    <3>1. QED
      BY <1>2, <2>1, <2>3, <2>5, IsARow
  <2>7. /\ DOMAIN docs' = DOMAIN docs /\ docs'[j.id] = row
        /\ \A d \in DOMAIN docs : d # j.id => docs'[d] = docs[d]
    BY <1>4, <2>2, <2>4 DEF Live
  <2> HIDE DEF row, old, part
  <2>8. ASSUME NEW d \in DOMAIN docs
        PROVE  /\ IsRow(docs'[d]) /\ docs'[d].kind = docs[d].kind
               /\ LinkOf(docs'[d].up, docs[d].kind, docs)
               /\ docs[d].kind \notin TypedKinds => docs'[d].no = docs[d].no
    <3>1. CASE d = j.id
      <4>1. j.kind \notin TypedKinds => docs[d].no = j.no
        BY <1>1, <3>1 DEF BookInv, JobsFit, Fits
      <4>2. QED
        BY <1>2, <2>5, <2>6, <2>7, <3>1, <4>1
    <3>2. CASE d # j.id
      BY <1>1, <2>7, <3>2 DEF TablesFit
    <3>3. QED
      BY <3>1, <3>2
  <2>9. ASSUME NEW d \in DOMAIN docs, NEW e \in DOMAIN docs, docs[d].kind = docs[e].kind,
               docs'[d].no = docs'[e].no
        PROVE  d = e
    <3>1. \A f \in DOMAIN docs : f # j.id /\ docs[f].kind = j.kind => docs[f].no # j.no
      BY <1>4 DEF Taken, Live
    <3>2. QED
      BY <1>1, <1>2, <2>6, <2>7, <2>9, <3>1 DEF TablesFit
  <2>10. TablesFit(docs', nextId, withdrawn)
         /\ Spreads(docs, nextId, withdrawn, docs', nextId, withdrawn)
    BY <1>1, <2>7, <2>8, <2>9, ChangeFits
  <2>11. Fine(ToTables(j), docs', versions, nextId, withdrawn)
    BY <1>2, <1>4, <2>3, <2>6, <2>7, AfterHeader DEF Live
  <2>12. job'[w] = ToTables(j) /\ \A v \in Workers \ {w} : job'[v] = job[v]
    BY <1>1, <1>4
  <2>13. Settled'
    BY <1>1, <2>10 DEF Settled, LoneInv
  <2>14. QED
    BY <1>1, <2>10, <2>11, <2>12, <2>13, StepFine
<1>5. ASSUME j.id \in Live, j.up \notin Live \union {None} \/ Taken(j.kind, j.no, j.id),
             Goto(w, "failed"), UNCHANGED docs
      PROVE  LoneInv'
  <2>1. j.alone # TRUE
    BY <1>1, <1>5 DEF Promised, Free, Taken, Live
  <2>2. QED
    BY <1>1, <1>5, <2>1, FailFine DEF store
<1>6. QED
  BY <1>3, <1>4, <1>5 DEF UpdateHeader

-----------------------------------------------------------------------------
(* The child tables, the read-back and the version.                        *)

\* DELETE and INSERT of a child table's rows.
LEMMA ReplaceTableFine ==
    ASSUME BookInv, AloneInv, LoneInv, NEW w \in Workers, ReplaceTable(w)
    PROVE  LoneInv'
<1> DEFINE j == job[w]
           table == Head(j.todo)
<1>1. /\ j.pc = "tables" /\ DOMAIN job = Workers /\ Formed(j)
      /\ Knows(j, docs, nextId, withdrawn) /\ TablesFit(docs, nextId, withdrawn)
      /\ j.alone = TRUE => Promised(j, docs, versions, withdrawn)
      /\ UNCHANGED <<nextId, versions, lead, client, served, withdrawn>>
  BY WorkOf DEF ReplaceTable
<1>2. /\ SaveFields \subseteq DOMAIN j /\ j.op # "delete" /\ j.kind \in Kinds
      /\ j.write \in [PartsOf(j.kind) -> Nat]
      /\ j.todo \in Seq(PartsOf(j.kind)) /\ j.todo # <<>>
      /\ j.id \in 1..nextId - 1 /\ (j.id \in DOMAIN docs => docs[j.id].kind = j.kind)
  BY <1>1 DEF Formed, SavingSteps, Knows
<1>3. CASE j.id \in Live
  <2> DEFINE old == docs[j.id]
             part == [old.part EXCEPT ![table] = j.write[table]]
             row == [old EXCEPT !.part = part]
             k == IF Len(j.todo) = 1 THEN ToRead(j) ELSE [j EXCEPT !.todo = Tail(@)]
  <2>1. /\ docs' = [docs EXCEPT ![j.id].part[table] = j.write[table]]
        /\ job' = [job EXCEPT ![w] = k]
    BY <1>3 DEF ReplaceTable
  <2>2. /\ table \in PartsOf(j.kind)
        /\ Len(j.todo) # 1 => Tail(j.todo) \in Seq(PartsOf(j.kind)) /\ Tail(j.todo) # <<>>
        /\ \A p : InList(p, j.todo) => p = table \/ (Len(j.todo) # 1 /\ InList(p, Tail(j.todo)))
    BY <1>2, HeadDone
  <2>3. IsRow(old) /\ old.kind = j.kind /\ old.part \in [PartsOf(j.kind) -> Nat]
    BY <1>1, <1>2, <1>3, RowIs DEF TablesFit, Live
  <2>4. docs' = [docs EXCEPT ![j.id] = row]
    BY <2>1, <1>3 DEF Live
  <2>5. /\ part \in [PartsOf(j.kind) -> Nat] /\ part[table] = j.write[table]
        /\ \A p \in PartsOf(j.kind) : p # table => part[p] = old.part[p]
    BY <1>2, <2>2, <2>3
  <2> HIDE DEF part
  <2>6. IsRow(row) /\ row.kind = old.kind /\ row.no = old.no /\ row.up = old.up /\ row.part = part
    <3> HIDE DEF old
    <3>1. row = [kind |-> old.kind, no |-> old.no, by |-> old.by, up |-> old.up,
                 confirmed |-> old.confirmed, part |-> part]
      BY <2>3, RowPart
    <3> HIDE DEF row
    <3>2. /\ old.kind \in Kinds /\ old.no \in Nat /\ old.by \in Workers /\ old.up \in Nat
          /\ old.confirmed \in BOOLEAN
      BY <2>3, RowIs
    <3>3. IsRow(row)
      BY <2>3, <2>5, <3>1, <3>2, IsARow
    <3>4. QED
      BY <3>1, <3>3
  <2>7. /\ DOMAIN docs' = DOMAIN docs /\ docs'[j.id] = row
        /\ \A d \in DOMAIN docs : d # j.id => docs'[d] = docs[d]
    BY <1>3, <2>4 DEF Live
  <2> HIDE DEF row, k
  <2>8. \A d \in DOMAIN docs : /\ IsRow(docs'[d]) /\ docs'[d].kind = docs[d].kind
                               /\ docs'[d].no = docs[d].no /\ docs'[d].up = docs[d].up
    BY <1>1, <2>6, <2>7 DEF TablesFit
  <2>9. TablesFit(docs', nextId, withdrawn)
        /\ Spreads(docs, nextId, withdrawn, docs', nextId, withdrawn)
    <3>1. \A d \in DOMAIN docs : LinkOf(docs'[d].up, docs[d].kind, docs)
      BY <1>1, <2>8 DEF TablesFit
    <3>2. \A d, e \in DOMAIN docs : docs[d].kind = docs[e].kind /\ docs'[d].no = docs'[e].no => d = e
      BY <1>1, <2>8 DEF TablesFit
    <3>3. QED
      BY <1>1, <2>7, <2>8, <3>1, <3>2, ChangeFits
  <2>10. job'[w] = k /\ \A v \in Workers \ {w} : job'[v] = job[v]
    BY <1>1, <2>1
  <2>11. /\ SaveFields \subseteq DOMAIN k /\ k.op = j.op /\ k.kind = j.kind /\ k.id = j.id
         /\ k.write = j.write /\ k.alone = j.alone
         /\ Len(j.todo) = 1 => k.pc = "read" /\ k.todo = Parts(j.kind) /\ k.seen = Nothing
         /\ Len(j.todo) # 1 => k.pc = "tables" /\ k.todo = Tail(j.todo)
    <3>1. CASE Len(j.todo) = 1
      BY <1>2, <3>1 DEF k, ToRead, SaveFields
    <3>2. CASE Len(j.todo) # 1
      BY <1>1, <1>2, <3>2 DEF k, SaveFields
    <3>3. QED
      BY <3>1, <3>2
  <2>12. j.alone = TRUE => /\ j.id \in DOMAIN docs
                           /\ \A p \in PartsOf(j.kind) : \/ old.part[p] = j.write[p]
                                                         \/ InList(p, j.todo)
    BY <1>1 DEF Promised
  <2>13. j.alone = TRUE => \A p \in PartsOf(j.kind) :
            part[p] = j.write[p] \/ (Len(j.todo) # 1 /\ InList(p, Tail(j.todo)))
    BY <2>2, <2>5, <2>12
  <2>14. Fine(k, docs', versions, nextId, withdrawn)
    <3>1. CASE Len(j.todo) = 1
      <4>1. DOMAIN k.seen = {} /\ k.seen = [p \in DOMAIN k.seen |-> k.seen[p]]
        BY <2>11, <3>1 DEF Nothing
      <4>2. /\ Parts(j.kind) \in Seq(PartsOf(j.kind)) /\ Parts(j.kind) # <<>>
            /\ \A p \in PartsOf(j.kind) : InList(p, Parts(j.kind))
        BY <1>2, PartsAre DEF InList
      <4>3. Gathers(k)
        BY <2>11, <3>1, <4>1, <4>2 DEF Gathers
      <4>4. Formed(k)
        BY <1>2, <2>11, <3>1, <4>2, <4>3 DEF Formed, Steps, SavingSteps, SaveFields
      <4>5. Knows(k, docs', nextId, withdrawn)
        BY <1>2, <2>7, <2>8, <2>11, <3>1 DEF Knows
      <4>6. k.alone = TRUE => HoldsForm(k, docs')
        BY <1>2, <2>5, <2>6, <2>7, <2>11, <2>12, <2>13, <3>1 DEF HoldsForm
      <4>7. k.alone = TRUE => Promised(k, docs', versions, withdrawn)
        BY <2>11, <3>1, <4>1, <4>6 DEF Promised
      <4>8. QED
        BY <4>4, <4>5, <4>7 DEF Fine
    <3>2. CASE Len(j.todo) # 1
      <4>1. Formed(k)
        BY <1>2, <2>2, <2>11, <3>2 DEF Formed, Steps, SavingSteps, SaveFields
      <4>2. Knows(k, docs', nextId, withdrawn)
        BY <1>2, <2>7, <2>8, <2>11, <3>2 DEF Knows
      <4>3. k.alone = TRUE => Promised(k, docs', versions, withdrawn)
        BY <2>6, <2>7, <2>11, <2>12, <2>13, <3>2 DEF Promised
      <4>4. QED
        BY <4>1, <4>2, <4>3 DEF Fine
    <3>3. QED
      BY <3>1, <3>2
  <2>15. Settled'
    BY <1>1, <2>9 DEF Settled, LoneInv
  <2>16. QED
    BY <1>1, <2>9, <2>10, <2>14, <2>15, StepFine
<1>4. CASE j.id \notin Live
  <2>1. Goto(w, "failed") /\ UNCHANGED <<store, served, withdrawn>>
    BY <1>1, <1>4 DEF ReplaceTable, store
  <2>2. j.alone # TRUE
    BY <1>1, <1>4 DEF Promised, Live
  <2>3. QED
    BY <1>1, <2>1, <2>2, FailFine
<1>5. QED
  BY <1>3, <1>4

\* A read of the header, or of one child table.
LEMMA GetByIdFine ==
    ASSUME BookInv, AloneInv, LoneInv, NEW w \in Workers, GetById(w)
    PROVE  LoneInv'
<1> DEFINE j == job[w]
           part == Head(j.todo)
           rows == IF j.id \in Live THEN docs[j.id].part[part] ELSE None
           seen == Put(j.seen, part, rows)
<1>1. /\ j.pc \in {"copy", "read"} /\ DOMAIN job = Workers /\ Formed(j) /\ "pc" \in DOMAIN j
      /\ Knows(j, docs, nextId, withdrawn) /\ TablesFit(docs, nextId, withdrawn)
      /\ j.alone = TRUE => Promised(j, docs, versions, withdrawn)
      /\ UNCHANGED <<store, served, withdrawn>>
  BY WorkOf DEF GetById
<1>2. /\ SaveFields \subseteq DOMAIN j /\ j.op # "delete" /\ j.kind \in Kinds
      /\ j.pc = "read" => j.write \in [PartsOf(j.kind) -> Nat]
      /\ j.pc = "copy" => j.kind \notin TypedKinds
      /\ j.todo \in Seq(PartsOf(j.kind)) /\ j.todo # <<>> /\ Gathers(j)
      /\ j.id \in 1..nextId - 1 /\ (j.id \in DOMAIN docs => docs[j.id].kind = j.kind)
  BY <1>1 DEF Formed, SavingSteps, Knows
<1>3. /\ part \in PartsOf(j.kind) /\ Len(j.todo) \in Nat \ {0}
      /\ Len(j.todo) # 1 => Tail(j.todo) \in Seq(PartsOf(j.kind)) /\ Tail(j.todo) # <<>>
      /\ \A p : InList(p, j.todo) => p = part \/ (Len(j.todo) # 1 /\ InList(p, Tail(j.todo)))
  BY <1>2, HeadDone
<1>4. j.id \in Live => docs[j.id].part \in [PartsOf(j.kind) -> Nat]
  BY <1>1, <1>2, RowIs DEF TablesFit, Live
<1>5. rows \in Nat
  BY <1>3, <1>4 DEF None
<1>6. /\ DOMAIN seen = DOMAIN j.seen \union {part} /\ seen = [p \in DOMAIN seen |-> seen[p]]
      /\ seen[part] = rows /\ \A p \in DOMAIN j.seen : p # part => seen[p] = j.seen[p]
  <2> HIDE DEF rows, part
  <2>1. QED
    BY DEF Put
<1>7. j.alone = TRUE => j.id \in Live
  BY <1>1 DEF Promised, HoldsForm, Live
<1>8. j.alone = TRUE /\ j.pc = "read" =>
         HoldsForm(j, docs) /\ \A p \in DOMAIN seen : seen[p] = j.write[p]
  <2> SUFFICES ASSUME j.alone = TRUE, j.pc = "read"
               PROVE  HoldsForm(j, docs) /\ \A p \in DOMAIN seen : seen[p] = j.write[p]
    OBVIOUS
  <2>1. HoldsForm(j, docs) /\ \A p \in DOMAIN j.seen : j.seen[p] = j.write[p]
    BY <1>1 DEF Promised
  <2>2. rows = j.write[part]
    BY <1>7, <2>1 DEF HoldsForm
  <2>3. seen[part] = j.write[part] /\ \A p \in DOMAIN j.seen : p # part => seen[p] = j.write[p]
    <3> HIDE DEF seen, rows, part
    <3>1. QED
      BY <1>6, <2>1, <2>2
  <2>4. \A p \in DOMAIN seen : p = part \/ p \in DOMAIN j.seen
    <3> HIDE DEF seen, rows, part
    <3>1. QED
      BY <1>6
  <2> HIDE DEF seen, rows, part
  <2>5. QED
    BY <2>1, <2>3, <2>4
<1> HIDE DEF seen, rows
<1>9. CASE part = "head" /\ j.id \notin Live
  <2>1. Goto(w, "failed")
    BY <1>9 DEF GetById
  <2>2. QED
    BY <1>1, <1>7, <1>9, <2>1, FailFine
<1>10. CASE ~(part = "head" /\ j.id \notin Live)
  <2> DEFINE more == [j EXCEPT !.seen = seen, !.todo = Tail(@)]
             copy == [j EXCEPT !.write = seen, !.id = None, !.pc = "number"]
             kept == [j EXCEPT !.seen = seen, !.pc = "version"]
             k == IF Len(j.todo) > 1 THEN more ELSE IF j.pc = "copy" THEN copy ELSE kept
  <2>1. job' = [job EXCEPT ![w] = k]
    BY <1>10 DEF GetById, seen, rows
  <2>2. job'[w] = k /\ \A v \in Workers \ {w} : job'[v] = job[v]
    BY <1>1, <2>1
  <2>3. /\ DOMAIN seen \subseteq PartsOf(j.kind) /\ \A p \in DOMAIN seen : seen[p] \in Nat
        /\ \A p \in PartsOf(j.kind) :
              p \in DOMAIN seen \/ (Len(j.todo) # 1 /\ InList(p, Tail(j.todo)))
    BY <1>2, <1>3, <1>5, <1>6 DEF Gathers
  <2>4. ASSUME Len(j.todo) > 1
        PROVE  Fine(k, docs, versions, nextId, withdrawn)
    <3>1. /\ DOMAIN more = DOMAIN j /\ more.pc = j.pc /\ more.op = j.op /\ more.kind = j.kind
          /\ more.id = j.id /\ more.up = j.up /\ more.write = j.write /\ more.alone = j.alone
          /\ more.seen = seen /\ more.todo = Tail(j.todo)
      BY <1>1, <1>2 DEF SaveFields
    <3> HIDE DEF more
    <3>0. Len(j.todo) # 1
      <4> DEFINE n == Len(j.todo)
      <4>1. n \in Nat /\ n > 1
        BY <1>3, <2>4
      <4> HIDE DEF n
      <4>2. n # 1
        BY <4>1
      <4>3. QED
        BY <4>2 DEF n
    <3>2. Len(j.todo) # 1 /\ k = more
      <4> HIDE DEF copy, kept
      <4>1. QED
        BY <2>4, <3>0
    <3>3. Gathers(more)
      BY <1>6, <2>3, <3>1 DEF Gathers
    <3>4. Formed(more)
      BY <1>1, <1>2, <1>3, <3>1, <3>2, <3>3 DEF Formed, Steps, SavingSteps, SaveFields
    <3>5. Knows(more, docs, nextId, withdrawn)
      BY <1>1, <3>1 DEF Knows
    <3>6. more.alone = TRUE => Promised(more, docs, versions, withdrawn)
      BY <1>1, <1>7, <1>8, <3>1 DEF Promised, HoldsForm, Live
    <3>7. QED
      BY <3>2, <3>4, <3>5, <3>6 DEF Fine
  <2>5. ASSUME ~(Len(j.todo) > 1)
        PROVE  Fine(k, docs, versions, nextId, withdrawn)
    <3>1. Len(j.todo) = 1
      BY <1>3, <2>5
    <3>2. seen \in [PartsOf(j.kind) -> Nat]
      BY <1>6, <2>3, <3>1
    <3>3. CASE j.pc = "copy"
      <4>1. /\ DOMAIN copy = DOMAIN j /\ copy.pc = "number" /\ copy.op = j.op
            /\ copy.kind = j.kind /\ copy.up = j.up /\ copy.write = seen /\ copy.alone = j.alone
        BY <1>2 DEF SaveFields
      <4> HIDE DEF copy
      <4>2. k = copy
        BY <2>5, <3>3
      <4>3. Formed(copy)
        BY <1>2, <3>2, <3>3, <4>1 DEF Formed, Steps, SavingSteps, SaveFields
      <4>4. Knows(copy, docs, nextId, withdrawn)
        BY <1>1, <3>3, <4>1 DEF Knows
      <4>5. copy.alone = TRUE => Promised(copy, docs, versions, withdrawn)
        BY <1>1, <3>3, <4>1 DEF Promised
      <4>6. QED
        BY <4>2, <4>3, <4>4, <4>5 DEF Fine
    <3>4. CASE j.pc = "read"
      <4>1. /\ DOMAIN kept = DOMAIN j /\ kept.pc = "version" /\ kept.op = j.op
            /\ kept.kind = j.kind /\ kept.id = j.id /\ kept.write = j.write
            /\ kept.alone = j.alone /\ kept.seen = seen
        BY <1>2 DEF SaveFields
      <4> HIDE DEF kept
      <4>2. k = kept
        BY <2>5, <3>4
      <4>3. Formed(kept)
        BY <1>2, <3>4, <4>1 DEF Formed, Steps, SavingSteps, SaveFields
      <4>4. Knows(kept, docs, nextId, withdrawn)
        BY <4>1 DEF Knows
      <4>5. kept.alone = TRUE => HoldsForm(kept, docs) /\ seen = j.write
        BY <1>2, <1>8, <3>2, <3>4, <4>1 DEF HoldsForm
      <4>6. kept.alone = TRUE => Promised(kept, docs, versions, withdrawn)
        BY <4>1, <4>5 DEF Promised
      <4>7. QED
        BY <4>2, <4>3, <4>4, <4>6 DEF Fine
    <3>5. QED
      BY <1>1, <3>3, <3>4
  <2>6. Fine(k, docs, versions, nextId, withdrawn)
    BY <2>4, <2>5
  <2> HIDE DEF k
  <2>7. QED
    BY <1>1, <2>2, <2>6, QuietFine DEF store
<1>11. QED
  BY <1>9, <1>10

\* A document's versions are numbered, and their latest is their number.
LEMMA LatestOf ==
    ASSUME BookInv, NEW d \in 1..nextId - 1
    PROVE  /\ Numbered(VersionsIn(versions, d)) /\ VersionsOf(d) = VersionsIn(versions, d)
           /\ LatestVersion(d) = Cardinality(VersionsIn(versions, d))
<1>1. Numbered(VersionsIn(versions, d)) /\ VersionsOf(d) = VersionsIn(versions, d)
  BY DEF BookInv, Recorded, VersionsIn, VersionsOf
<1>2. QED
  BY <1>1, LatestIsCount

\* MAX + 1 is read.
LEMMA NextVersionNumberFine ==
    ASSUME BookInv, AloneInv, LoneInv, NEW w \in Workers, NextVersionNumber(w)
    PROVE  LoneInv'
<1> DEFINE j == job[w]
           n == LatestVersion(j.id) + 1
           to == [j EXCEPT !.pc = "record"]
           k == Put(to, "n", n)
<1>1. /\ j.pc = "version" /\ DOMAIN job = Workers /\ Formed(j) /\ "pc" \in DOMAIN j
      /\ j.alone = TRUE => Promised(j, docs, versions, withdrawn)
      /\ UNCHANGED <<store, served, withdrawn>>
  BY WorkOf DEF NextVersionNumber
<1>2. j.id \in 1..nextId - 1
  BY <1>1 DEF BookInv, JobsFit, Fits, Saving
<1>3. n = Cardinality(VersionsIn(versions, j.id)) + 1
  BY <1>2, LatestOf
<1>4. /\ SaveFields \subseteq DOMAIN j /\ j.op # "delete" /\ j.kind \in Kinds
      /\ j.write \in [PartsOf(j.kind) -> Nat]
  BY <1>1 DEF Formed, SavingSteps
<1>5. job' = [job EXCEPT ![w] = k]
  BY <1>1 DEF NextVersionNumber
<1> HIDE DEF n
<1>6. DOMAIN to = DOMAIN j /\ to.pc = "record" /\ \A f \in DOMAIN j \ {"pc"} : to[f] = j[f]
  BY <1>1, GotoIs
<1> HIDE DEF to
<1>7. /\ SaveFields \subseteq DOMAIN k /\ k.pc = "record" /\ k.n = n /\ k.op = j.op
      /\ k.kind = j.kind /\ k.id = j.id /\ k.write = j.write /\ k.seen = j.seen
      /\ k.alone = j.alone
  BY <1>4, <1>6 DEF Put, SaveFields
<1>8. job'[w] = k /\ \A v \in Workers \ {w} : job'[v] = job[v]
  BY <1>1, <1>5
<1> HIDE DEF k
<1>9. Formed(k)
  BY <1>4, <1>7 DEF Formed, Steps, SavingSteps, SaveFields
<1>10. Knows(k, docs, nextId, withdrawn)
  BY <1>7 DEF Knows
<1>11. k.alone = TRUE => Promised(k, docs, versions, withdrawn)
  BY <1>1, <1>3, <1>7 DEF Promised, HoldsForm
<1>12. Fine(k, docs, versions, nextId, withdrawn)
  BY <1>9, <1>10, <1>11 DEF Fine
<1>13. QED
  BY <1>1, <1>8, <1>12, QuietFine DEF store

\* The version is recorded.
LEMMA RecordFine ==
    ASSUME BookInv, AloneInv, LoneInv, NEW w \in Workers, Record(w)
    PROVE  LoneInv'
<1> DEFINE j == job[w]
           S == VersionsIn(versions, j.id)
           new == [id |-> j.id, n |-> j.n, snap |-> j.seen]
<1>1. /\ j.pc = "record" /\ DOMAIN job = Workers /\ Formed(j) /\ "pc" \in DOMAIN j
      /\ j.alone = TRUE => Promised(j, docs, versions, withdrawn)
      /\ UNCHANGED <<docs, nextId, lead, client, served, withdrawn>>
  BY WorkOf DEF Record
<1>2. j.id \in 1..nextId - 1
  BY <1>1 DEF BookInv, JobsFit, Fits, Saving
<1>3. Numbered(S) /\ VersionsOf(j.id) = S /\ Cardinality(S) \in Nat
  BY <1>2, LatestOf, FS_CardinalityType DEF Numbered
<1>4. /\ SaveFields \subseteq DOMAIN j /\ j.op # "delete" /\ j.kind \in Kinds
      /\ j.write \in [PartsOf(j.kind) -> Nat]
  BY <1>1 DEF Formed, SavingSteps
<1>5. j.alone = TRUE => /\ HoldsForm(j, docs) /\ j.seen = j.write
                        /\ j.n = Cardinality(S) + 1
  BY <1>1 DEF Promised
<1>6. CASE \E v \in VersionsOf(j.id) : v.n = j.n
  <2>1. Goto(w, "failed") /\ UNCHANGED versions
    BY <1>6 DEF Record
  <2>2. j.alone # TRUE
    <3>1. PICK v \in S : v.n = j.n
      BY <1>3, <1>6
    <3>2. v.n \in 1..Cardinality(S)
      BY <1>3, <3>1 DEF Numbered
    <3> HIDE DEF S
    <3>3. v.n # Cardinality(S) + 1
      BY <1>3, <3>2
    <3>4. QED
      BY <1>5, <3>1, <3>3
  <2>3. QED
    BY <1>1, <2>1, <2>2, FailFine DEF store
<1>7. CASE ~\E v \in VersionsOf(j.id) : v.n = j.n
  <2> DEFINE pc == IF j.op = "duplicate" THEN "done" ELSE "stage"
             k == [j EXCEPT !.pc = pc]
  <2>1. versions' = versions \union {new} /\ job' = [job EXCEPT ![w] = k]
    BY <1>1, <1>7 DEF Record, Goto
  <2>2. VersionsIn(versions', j.id) = S \union {new} /\ new.n = j.n /\ new.snap = j.seen
    BY <2>1 DEF VersionsIn
  <2> HIDE DEF S, new
  <2>3. j.alone = TRUE => /\ new \in VersionsIn(versions', j.id) /\ new.snap = j.write
                          /\ new.n = Cardinality(VersionsIn(versions', j.id))
    BY <1>3, <1>5, <2>2, NumberedAdd
  <2>4. pc \in {"done", "stage"}
    OBVIOUS
  <2> HIDE DEF pc
  <2>5. /\ DOMAIN k = DOMAIN j /\ k.pc = pc /\ k.op = j.op /\ k.kind = j.kind
        /\ k.id = j.id /\ k.write = j.write /\ k.alone = j.alone
    BY <1>1, <1>4, GotoIs DEF SaveFields
  <2>6. job'[w] = k /\ \A v \in Workers \ {w} : job'[v] = job[v]
    BY <1>1, <2>1
  <2> HIDE DEF k
  <2>7. Formed(k)
    BY <1>4, <2>4, <2>5 DEF Formed, Steps, SavingSteps, SaveFields
  <2>8. Knows(k, docs, nextId, withdrawn)
    BY <2>4, <2>5 DEF Knows
  <2>9. k.alone = TRUE => HoldsForm(k, docs) /\ VersionHolds(k, versions')
    BY <1>5, <2>3, <2>5 DEF HoldsForm, VersionHolds
  <2>10. k.alone = TRUE => Promised(k, docs, versions', withdrawn)
    BY <1>4, <2>4, <2>5, <2>9 DEF Promised
  <2>11. Fine(k, docs, versions', nextId, withdrawn)
    BY <2>7, <2>8, <2>10 DEF Fine
  <2>12. QED
    BY <1>1, <2>6, <2>11, QuietFine
<1>8. QED
  BY <1>6, <1>7

-----------------------------------------------------------------------------
(* The client's stage, and a response.                                     *)

\* CLIENT_STATUS_ADVANCE_ON: the stages are CLIENT_STATUSES' positions.
LEMMA StageBound == \A kind \in Kinds : Service[kind].stage \in 0..5
BY DEF Kinds, Repository, Service, QuotationService, ProformaInvoiceService, PurchaseOrderService,
       JobWorkService, PurchaseInvoiceService, JobOutService, JobInService, PackingListService,
       ExportInvoiceService

\* The stage is looked at, and written.
LEMMA StageFine ==
    ASSUME BookInv, AloneInv, LoneInv, NEW w \in Workers, ReadStage(w) \/ Advance(w)
    PROVE  LoneInv'
<1> DEFINE j == job[w]
<1>1. /\ j.pc \in {"stage", "advance"} /\ DOMAIN job = Workers /\ Formed(j) /\ "pc" \in DOMAIN j
      /\ j.alone = TRUE => Promised(j, docs, versions, withdrawn)
      /\ UNCHANGED <<docs, nextId, versions, served, withdrawn>>
  BY WorkOf DEF ReadStage, Advance, store
<1>2. /\ SaveFields \subseteq DOMAIN j /\ j.op # "delete" /\ j.kind \in Kinds
      /\ j.write \in [PartsOf(j.kind) -> Nat]
  BY <1>1 DEF Formed, SavingSteps
<1>3. PICK pc \in {"advance", "done"} :
         /\ job' = [job EXCEPT ![w] = [j EXCEPT !.pc = pc]]
         /\ pc = "advance" => ReadStage(w) /\ Advances(j.kind, j.up)
  BY <1>1 DEF ReadStage, Advance, Goto
<1> DEFINE k == [j EXCEPT !.pc = pc]
<1>4. /\ DOMAIN k = DOMAIN j /\ k.pc = pc /\ k.op = j.op /\ k.kind = j.kind
      /\ k.id = j.id /\ k.write = j.write /\ k.alone = j.alone
  BY <1>1, <1>2, GotoIs DEF SaveFields
<1>5. job'[w] = k /\ \A v \in Workers \ {w} : job'[v] = job[v]
  BY <1>1, <1>3
<1> HIDE DEF k
<1>6. pc = "advance" => j.kind = "quotation" \/ Service[j.kind].stage # 0
  <2> DEFINE stage == Service[j.kind].stage
  <2>1. pc = "advance" /\ j.kind # "quotation" => stage > client
    BY <1>3 DEF Advances
  <2>2. client \in 1..5
    BY DEF LoneInv, Settled
  <2> HIDE DEF stage
  <2>3. pc = "advance" /\ j.kind # "quotation" => stage # 0
    BY <2>1, <2>2
  <2>4. QED
    BY <2>3 DEF stage
<1>7. Formed(k)
  BY <1>2, <1>4, <1>6 DEF Formed, Steps, SavingSteps, SaveFields
<1>8. Knows(k, docs, nextId, withdrawn)
  BY <1>4 DEF Knows
<1>9. k.alone = TRUE => HoldsForm(k, docs) /\ VersionHolds(k, versions)
  BY <1>1, <1>4 DEF Promised, HoldsForm, VersionHolds
<1>10. k.alone = TRUE => Promised(k, docs, versions, withdrawn)
  BY <1>2, <1>4, <1>9 DEF Promised
<1>11. Fine(k, docs, versions, nextId, withdrawn)
  BY <1>7, <1>8, <1>10 DEF Fine
<1>12. Settled'
  <2>1. lead' \in [status : {"follow_up", "in_client"}, converted : BOOLEAN]
    BY DEF ReadStage, Advance, store, LoneInv, Settled
  <2>2. client' \in 1..5
    <3>1. CASE UNCHANGED client
      BY <3>1 DEF LoneInv, Settled
    <3>2. CASE Advance(w) /\ client' = Service[j.kind].stage /\ j.kind # "quotation"
      <4>1. Service[j.kind].stage \in 0..5
        BY <1>2, StageBound
      <4>2. Service[j.kind].stage # 0
        BY <1>1, <3>2 DEF Advance, Formed
      <4>3. QED
        BY <3>2, <4>1, <4>2
    <3>3. QED
      BY <3>1, <3>2 DEF ReadStage, Advance, store
  <2>3. QED
    BY <1>1, <2>1, <2>2 DEF LoneInv, Settled
<1>13. Spreads(docs, nextId, withdrawn, docs', nextId', withdrawn')
  BY <1>1, StaysFit DEF LoneInv, Settled
<1>14. QED
  BY <1>1, <1>5, <1>11, <1>12, <1>13, StepFine

\* The request is answered.
LEMMA RespondFine ==
    ASSUME BookInv, AloneInv, LoneInv, NEW w \in Workers, Respond(w)
    PROVE  LoneInv'
<1>1. /\ job[w].pc # "idle" /\ DOMAIN job = Workers
      /\ UNCHANGED <<store, served, withdrawn>> /\ job' = [job EXCEPT ![w] = Idle]
  BY WorkOf DEF Respond
<1>2. job'[w] = Idle /\ \A v \in Workers \ {w} : job'[v] = job[v]
  BY <1>1
<1>3. QED
  BY <1>1, <1>2, IdleFine, QuietFine DEF store

-----------------------------------------------------------------------------
(* A delete.                                                               *)

\* What a step of the cascade lists is listed at once.
LEMMA ListCascadeFine ==
    ASSUME BookInv, AloneInv, LoneInv, NEW w \in Workers, ListCascade(w)
    PROVE  LoneInv'
<1> DEFINE j == job[w]
           lists == IF j.id \in Live THEN [e \in FirstBranch(j.id) |-> Listed(e)] ELSE [e \in {} |-> {}]
           to == [j EXCEPT !.pc = "remove"]
           k == Put(to, "lists", lists)
<1>1. /\ j.pc = "list" /\ DOMAIN job = Workers /\ Formed(j) /\ "pc" \in DOMAIN j
      /\ {"op", "kind", "id", "alone"} \subseteq DOMAIN j /\ j.kind \in Kinds
      /\ j.alone = TRUE => Promised(j, docs, versions, withdrawn)
      /\ UNCHANGED <<store, served, withdrawn>>
  BY WorkOf DEF ListCascade
<1>2. \A e \in DOMAIN lists : lists[e] = ListIn(docs, e)
  BY DEF Listed, ListIn, Live
<1>3. job' = [job EXCEPT ![w] = k]
  BY <1>1 DEF ListCascade
<1> HIDE DEF lists
<1>4. DOMAIN to = DOMAIN j /\ to.pc = "remove" /\ \A f \in DOMAIN j \ {"pc"} : to[f] = j[f]
  BY <1>1, GotoIs
<1> HIDE DEF to
<1>5. /\ {"op", "kind", "id", "alone", "lists"} \subseteq DOMAIN k /\ k.pc = "remove"
      /\ k.op = j.op /\ k.kind = j.kind /\ k.id = j.id /\ k.alone = j.alone /\ k.lists = lists
  BY <1>1, <1>4 DEF Put
<1>6. job'[w] = k /\ \A v \in Workers \ {w} : job'[v] = job[v]
  BY <1>1, <1>3
<1> HIDE DEF k
<1>7. Formed(k)
  BY <1>1, <1>5 DEF Formed, Steps, SavingSteps
<1>8. Knows(k, docs, nextId, withdrawn)
  BY <1>5 DEF Knows
<1>9. k.alone = TRUE => Promised(k, docs, versions, withdrawn)
  BY <1>1, <1>2, <1>5 DEF Promised
<1>10. Fine(k, docs, versions, nextId, withdrawn)
  BY <1>7, <1>8, <1>9 DEF Fine
<1>11. QED
  BY <1>1, <1>6, <1>10, QuietFine DEF store

\* What is reached from d by links of F: the least set that holds d and every
\* member of F whose link is to one of the set.
LEMMA Reached ==
    ASSUME NEW L, NEW d, d \in L, NEW F, F \subseteq L, NEW up, \A e \in F : up[e] \in L
    PROVE  \E S : S \subseteq L /\ \A e \in L : e \in S <=> (e = d \/ (e \in F /\ up[e] \in S))
<1> DEFINE Closed(T) == d \in T /\ \A x \in F : up[x] \in T => x \in T
           S == {e \in L : \A T \in SUBSET L : Closed(T) => e \in T}
<1>1. Closed(S)
  OBVIOUS
<1>2. ASSUME NEW e \in S, e # d, ~(e \in F /\ up[e] \in S)
      PROVE  FALSE
  <2> DEFINE T == S \ {e}
  <2>1. Closed(T)
    BY <1>1, <1>2
  <2>2. T \in SUBSET L
    OBVIOUS
  <2>3. e \in T
    <3> HIDE DEF T
    <3>1. QED
      BY <2>1, <2>2
  <2>4. QED
    BY <2>3
<1>3. \A e \in L : e \in S <=> (e = d \/ (e \in F /\ up[e] \in S))
  BY <1>1, <1>2
<1>4. QED
  BY <1>3

\* The cascade takes the document and what it follows to one it takes.
LEMMA CascadeIs ==
    ASSUME NEW d \in Live, NEW lists
    PROVE  /\ Cascade(d, lists) \subseteq Live /\ d \in Cascade(d, lists)
           /\ \A e \in Live : Follows(e, lists) /\ docs[e].up \in Cascade(d, lists)
                                 => e \in Cascade(d, lists)
<1> DEFINE F == {e \in Live : Follows(e, lists)}
           up == [e \in Live |-> docs[e].up]
           Taken1(f) == f = [e \in Live |-> e = d \/ (Follows(e, lists) /\ f[docs[e].up])]
           taken == CHOOSE f : Taken1(f)
<1>1. PICK S : \A e \in Live : e \in S <=> (e = d \/ (Follows(e, lists) /\ docs[e].up \in S))
  <2>1. (\A e \in F : up[e] \in Live) /\ F \subseteq Live
    BY DEF Follows
  <2>2. d \in Live
    OBVIOUS
  <2> HIDE DEF F, up
  <2>3. PICK S : \A e \in Live : e \in S <=> (e = d \/ (e \in F /\ up[e] \in S))
    BY <2>1, <2>2, Reached
  <2>4. \A e \in Live : e \in F <=> Follows(e, lists)
    BY DEF F
  <2>5. \A e \in Live : up[e] = docs[e].up
    BY DEF up
  <2>6. \A e \in Live : e \in S <=> (e = d \/ (Follows(e, lists) /\ docs[e].up \in S))
    BY <2>3, <2>4, <2>5
  <2>7. QED
    BY <2>6
<1>2. Taken1([e \in Live |-> e \in S])
  <2> DEFINE f == [e \in Live |-> e \in S]
  <2>1. ASSUME NEW e \in Live
        PROVE  (e \in S) = (e = d \/ (Follows(e, lists) /\ f[docs[e].up]))
    <3>1. Follows(e, lists) => f[docs[e].up] = (docs[e].up \in S)
      BY DEF Follows
    <3>2. (e \in S) = (e = d \/ (Follows(e, lists) /\ docs[e].up \in S))
      BY <1>1
    <3> HIDE DEF f
    <3>3. QED
      BY <3>1, <3>2
  <2>2. QED
    BY <2>1
<1>3. Taken1(taken)
  BY <1>2
<1>4. Cascade(d, lists) = {e \in Live : taken[e]}
  BY DEF Cascade
<1> HIDE DEF taken
<1>5. \A e \in Live : taken[e] = (e = d \/ (Follows(e, lists) /\ taken[docs[e].up]))
  BY <1>3
<1>6. \A e \in Live : Follows(e, lists) => docs[e].up \in Live
  BY DEF Follows
<1>7. QED
  BY <1>4, <1>5, <1>6

\* Its link is dropped (ON DELETE SET NULL).
LEMMA RowUnlinked ==
    ASSUME NEW row, IsRow(row)
    PROVE  LET new == [row EXCEPT !.up = None] IN
           IsRow(new) /\ new.kind = row.kind /\ new.no = row.no /\ new.up = None
<1> DEFINE a == row.kind
           b == row.by
           c == row.confirmed
           n == row.no
           u == row.up
           p == row.part
           new == [row EXCEPT !.up = None]
<1>1. row = [kind |-> a, no |-> n, by |-> b, up |-> u, confirmed |-> c, part |-> p]
  BY RowIs
<1>2. /\ a \in Kinds /\ n \in Nat /\ b \in Workers /\ c \in BOOLEAN /\ p \in [PartsOf(a) -> Nat]
      /\ None \in Nat
  BY RowIs DEF None
<1> HIDE DEF a, b, c, n, u, p
<1>3. new = [kind |-> a, no |-> n, by |-> b, up |-> None, confirmed |-> c, part |-> p]
  BY <1>1
<1> HIDE DEF new
<1>4. IsRow(new)
  BY <1>2, <1>3, IsARow
<1>5. new.kind = a /\ new.no = n /\ new.up = None
  BY <1>3
<1>6. QED
  BY <1>4, <1>5 DEF new, a, n

\* Whatever is left of what refers to a document the cascade takes is a job
\* work, if the lists the cascade goes by are up to date.
LEMMA CascadeLeavesJobWorks ==
    ASSUME LoneInv, NEW d \in Live, NEW lists, \A e \in DOMAIN lists : lists[e] = ListIn(docs, e),
           NEW e \in Live \ Cascade(d, lists), docs[e].up \in Cascade(d, lists)
    PROVE  docs[e].kind = "jobwork"
<1> DEFINE up == docs[e].up
<1>1. up \in Live /\ docs[e].kind \in Kinds /\ docs[up].kind \in Kinds
  BY CascadeIs, LiveRow
<1>2. docs[up].kind \in Service[docs[e].kind].from
  <2>1. up # None /\ LinkOf(up, docs[e].kind, docs)
    BY <1>1, LiveRow DEF None
  <2>2. QED
    BY <2>1 DEF LinkOf
<1>3. docs[e].kind \in Repository[docs[up].kind].takes \union Repository[docs[up].kind].lists
                          \union {"jobwork"}
  BY <1>1, <1>2, CascadeCovers
<1>4. ~Follows(e, lists)
  BY CascadeIs
<1>5. docs[e].kind \notin Repository[docs[up].kind].takes
  BY <1>1, <1>4 DEF Follows
<1>6. docs[e].kind \notin Repository[docs[up].kind].lists
  <2>1. docs[e].kind \in Repository[docs[up].kind].lists => e \in ListIn(docs, up) /\ e \in Listed(up)
    BY DEF ListIn, Listed, Live
  <2>2. e \notin (IF up \in DOMAIN lists THEN lists[up] ELSE Listed(up))
    BY <1>1, <1>4 DEF Follows
  <2>3. QED
    BY <2>1, <2>2
<1>7. QED
  BY <1>3, <1>5, <1>6

\* What the cascade takes goes, what refers to it is unlinked or refuses it.
LEMMA RemoveFine ==
    ASSUME BookInv, AloneInv, LoneInv, NEW w \in Workers, Remove(w)
    PROVE  LoneInv'
<1> DEFINE j == job[w]
           gone == IF j.id \in Live THEN Cascade(j.id, j.lists) ELSE {}
           left == {e \in Live \ gone : docs[e].up \in gone}
           Pc(pc) == [j EXCEPT !.pc = pc]
<1>1. /\ j.pc = "remove" /\ DOMAIN job = Workers /\ Formed(j) /\ "pc" \in DOMAIN j
      /\ {"op", "kind", "id", "alone"} \subseteq DOMAIN j /\ j.kind \in Kinds
      /\ j.alone = TRUE => Promised(j, docs, versions, withdrawn)
      /\ UNCHANGED <<nextId, versions, lead, client, served>>
      /\ TablesFit(docs, nextId, withdrawn)
  BY WorkOf DEF Remove
<1>2. gone \subseteq Live /\ (j.id \in Live => j.id \in gone)
  BY CascadeIs
<1>3. j.alone = TRUE => j.id \in Live /\ \A e \in left : docs[e].kind = "jobwork"
  <2> SUFFICES ASSUME j.alone = TRUE
               PROVE  j.id \in Live /\ \A e \in left : docs[e].kind = "jobwork"
    OBVIOUS
  <2>1. j.id \in Live /\ \A e \in DOMAIN j.lists : j.lists[e] = ListIn(docs, e)
    BY <1>1 DEF Promised, Live
  <2>2. gone = Cascade(j.id, j.lists)
    BY <2>1
  <2>3. QED
    BY <2>1, <2>2, CascadeLeavesJobWorks
<1> HIDE DEF gone
<1>4. CASE \A e \in left : docs[e].kind = "jobwork"
  <2> DEFINE k == Pc("done")
  <2>1. /\ docs' = [e \in Live \ gone |->
                       IF e \in left THEN [docs[e] EXCEPT !.up = None] ELSE docs[e]]
        /\ withdrawn' = withdrawn \union {docs[e].kind : e \in gone}
        /\ job' = [job EXCEPT ![w] = k]
    BY <1>4 DEF Remove, Goto, gone
  <2>2. DOMAIN docs' = DOMAIN docs \ gone /\ withdrawn \subseteq withdrawn'
        /\ withdrawn' \subseteq Kinds
        /\ \A d \in DOMAIN docs \ DOMAIN docs' : docs[d].kind \in withdrawn'
    <3>1. \A e \in gone : docs[e].kind \in Kinds
      BY <1>2, LiveRow
    <3>2. QED
      BY <2>1, <3>1 DEF Live, LoneInv, Settled
  <2>3. ASSUME NEW d \in DOMAIN docs'
        PROVE  /\ IsRow(docs'[d]) /\ docs'[d].kind = docs[d].kind /\ docs'[d].no = docs[d].no
               /\ docs'[d].up = None \/ (docs'[d].up = docs[d].up /\ docs[d].up \in DOMAIN docs')
    <3>1. d \in Live \ gone /\ IsRow(docs[d]) /\ LinkOf(docs[d].up, docs[d].kind, docs)
      BY <2>2, LiveRow DEF Live
    <3>2. CASE d \in left
      <4>1. docs'[d] = [docs[d] EXCEPT !.up = None]
        BY <2>1, <3>1, <3>2
      <4>2. QED
        BY <3>1, <4>1, RowUnlinked
    <3>3. CASE d \notin left
      <4>1. docs'[d] = docs[d] /\ docs[d].up \notin gone
        BY <2>1, <3>1, <3>3
      <4>2. QED
        BY <2>2, <3>1, <4>1 DEF LinkOf
    <3>4. QED
      BY <3>2, <3>3
  <2>4. TablesFit(docs', nextId, withdrawn')
        /\ Spreads(docs, nextId, withdrawn, docs', nextId, withdrawn')
    <3>1. DOMAIN docs' \subseteq DOMAIN docs
      BY <2>2
    <3>2. QED
      BY <1>1, <2>2, <2>3, <3>1, RemoveFits
  <2>5. Settled'
    BY <1>1, <2>2, <2>4 DEF LoneInv, Settled
  <2>6. k.pc = "done" /\ k.op = j.op /\ k.id = j.id
    BY <1>1, GotoIs
  <2>7. j.op = "delete"
    BY <1>1 DEF Formed
  <2>8. j.alone = TRUE => j.id \notin DOMAIN docs'
    BY <1>2, <1>3, <2>2
  <2>9. j.alone = TRUE => Promised(k, docs', versions, withdrawn')
    <3> HIDE DEF k
    <3>1. QED
      BY <2>6, <2>7, <2>8 DEF Promised
  <2>10. Fine(k, docs', versions, nextId, withdrawn')
    BY <1>1, <2>9, EndFine
  <2>11. job'[w] = k /\ \A v \in Workers \ {w} : job'[v] = job[v]
    BY <1>1, <2>1
  <2> HIDE DEF k
  <2>12. QED
    BY <1>1, <2>4, <2>5, <2>10, <2>11, StepFine
<1>5. CASE ~\A e \in left : docs[e].kind = "jobwork"
  <2>1. Goto(w, "failed") /\ UNCHANGED <<docs, withdrawn>>
    BY <1>5 DEF Remove, gone
  <2>2. j.alone # TRUE
    BY <1>3, <1>5
  <2>3. QED
    BY <1>1, <2>1, <2>2, FailFine DEF store
<1>6. QED
  BY <1>4, <1>5

-----------------------------------------------------------------------------
(* The rest of the system, and the invariant.                              *)

\* Its flag is turned.
LEMMA RowConfirmed ==
    ASSUME NEW row, IsRow(row), NEW flag \in BOOLEAN
    PROVE  LET new == [row EXCEPT !.confirmed = flag] IN
           IsRow(new) /\ new.kind = row.kind /\ new.no = row.no /\ new.up = row.up
<1> DEFINE a == row.kind
           b == row.by
           c == row.confirmed
           n == row.no
           u == row.up
           p == row.part
           new == [row EXCEPT !.confirmed = flag]
<1>1. row = [kind |-> a, no |-> n, by |-> b, up |-> u, confirmed |-> c, part |-> p]
  BY RowIs
<1>2. a \in Kinds /\ n \in Nat /\ b \in Workers /\ u \in Nat /\ p \in [PartsOf(a) -> Nat]
  BY RowIs
<1> HIDE DEF a, b, c, n, u, p
<1>3. new = [kind |-> a, no |-> n, by |-> b, up |-> u, confirmed |-> flag, part |-> p]
  BY <1>1
<1> HIDE DEF new
<1>4. IsRow(new)
  BY <1>2, <1>3, IsARow
<1>5. new.kind = a /\ new.no = n /\ new.up = u
  BY <1>3
<1>6. QED
  BY <1>4, <1>5 DEF new, a, n, u

\* Confirming a proforma invoice comes between every request under way.
LEMMA SetStatusFine ==
    ASSUME BookInv, LoneInv, NEW w \in Workers, NEW d \in Live, SetStatus(w, d)
    PROVE  LoneInv'
<1> DEFINE flag == ~docs[d].confirmed
           new == [docs[d] EXCEPT !.confirmed = flag]
<1>1. /\ docs' = [docs EXCEPT ![d] = new]
      /\ job' = [v \in Workers |->
                    IF job[v].pc = "idle" THEN Idle ELSE [job[v] EXCEPT !.alone = FALSE]]
      /\ UNCHANGED <<nextId, versions, lead, client, served, withdrawn>>
      /\ TablesFit(docs, nextId, withdrawn)
  BY DEF SetStatus, LoneInv, Settled
<1>2. IsRow(docs[d]) /\ flag \in BOOLEAN
  BY LiveRow
<1> HIDE DEF flag
<1>3. IsRow(new) /\ new.kind = docs[d].kind /\ new.no = docs[d].no /\ new.up = docs[d].up
  BY <1>2, RowConfirmed
<1> HIDE DEF new
<1>4. DOMAIN docs' = DOMAIN docs /\ \A e \in DOMAIN docs : docs'[e] = IF e = d THEN new ELSE docs[e]
  BY <1>1
<1>5. \A e \in DOMAIN docs : /\ IsRow(docs'[e]) /\ docs'[e].kind = docs[e].kind
                             /\ docs'[e].no = docs[e].no /\ docs'[e].up = docs[e].up
  BY <1>1, <1>3, <1>4 DEF TablesFit
<1>6. TablesFit(docs', nextId, withdrawn)
      /\ Spreads(docs, nextId, withdrawn, docs', nextId, withdrawn)
  <2>1. \A e \in DOMAIN docs : LinkOf(docs'[e].up, docs[e].kind, docs)
    BY <1>1, <1>5 DEF TablesFit
  <2>2. \A e, f \in DOMAIN docs : docs[e].kind = docs[f].kind /\ docs'[e].no = docs'[f].no => e = f
    BY <1>1, <1>5 DEF TablesFit
  <2>3. QED
    BY <1>1, <1>4, <1>5, <2>1, <2>2, ChangeFits
<1>7. ASSUME NEW v \in Workers
      PROVE  Fine(job'[v], docs', versions, nextId, withdrawn)
  <2>1. CASE job[v].pc = "idle"
    BY <1>1, <2>1, IdleFine
  <2>2. CASE job[v].pc # "idle"
    <3> DEFINE j == job[v]
               i == [j EXCEPT !.alone = FALSE]
    <3>1. job'[v] = i
      BY <1>1, <2>2
    <3>2. /\ Formed(j) /\ Knows(j, docs, nextId, withdrawn) /\ "pc" \in DOMAIN j
          /\ "alone" \in DOMAIN j
      BY <2>2, WorkOf
    <3>3. Knows(j, docs', nextId, withdrawn)
      BY <1>1, <1>6, <3>2, KnowsSpreads
    <3> HIDE DEF j
    <3>4. DOMAIN i = DOMAIN j /\ i.alone = FALSE /\ \A f \in DOMAIN j \ {"alone"} : i[f] = j[f]
      BY <3>2
    <3> HIDE DEF i
    <3>5. Formed(i) /\ Knows(i, docs', nextId, withdrawn)
      BY <3>2, <3>3, <3>4, SameFields
    <3>6. QED
      BY <3>1, <3>4, <3>5 DEF Fine
  <2>3. QED
    BY <2>1, <2>2
<1>8. Settled'
  BY <1>1, <1>6 DEF LoneInv, Settled
<1>9. QED
  BY <1>1, <1>7, <1>8 DEF LoneInv

\* Every step keeps the invariant.
LEMMA LoneInvStep == BookInv /\ AloneInv /\ LoneInv /\ [Next]_vars => LoneInv'
<1> SUFFICES ASSUME BookInv, AloneInv, LoneInv, [Next]_vars
             PROVE  LoneInv'
  OBVIOUS
<1>1. ASSUME NEW w \in Workers, Request(w)
      PROVE  LoneInv'
  BY <1>1, RequestFine
<1>2. ASSUME NEW w \in Workers, Work(w)
      PROVE  LoneInv'
  BY <1>2, GenerateNumberFine, InsertHeaderFine, UpdateHeaderFine, ReplaceTableFine, GetByIdFine,
     NextVersionNumberFine, RecordFine, StageFine, ListCascadeFine, RemoveFine, RespondFine DEF Work
<1>3. ASSUME NEW w \in Workers, NEW d \in Live, SetStatus(w, d)
      PROVE  LoneInv'
  BY <1>3, SetStatusFine
<1>4. CASE Crash
  BY <1>4, IdleFine DEF Crash, store, LoneInv, Settled
<1>5. CASE UNCHANGED vars
  BY <1>5 DEF vars, store, LoneInv, Settled
<1>6. QED
  BY <1>1, <1>2, <1>3, <1>4, <1>5 DEF Next

\* The documents there are at the start satisfy the constraints of their tables.
LEMMA LoneInvInit == Init => LoneInv
<1> SUFFICES ASSUME Init
             PROVE  LoneInv
  OBVIOUS
<1> DEFINE c == Cardinality(DOMAIN docs)
<1>1. /\ DOMAIN docs = 1..c /\ c \in Nat /\ nextId = c + 1 /\ WellKept(docs)
      /\ \A d \in DOMAIN docs : IsRow(docs[d])
  BY BooksAssumption, FS_CardinalityType DEF Init, Live
<1> HIDE DEF c
<1>2. nextId \in Nat \ {0} /\ DOMAIN docs \subseteq 1..nextId - 1
  BY <1>1
<1>3. \A d \in DOMAIN docs : LinkOf(docs[d].up, docs[d].kind, docs)
  BY <1>1 DEF WellKept, LinkOf
<1>4. \A d, e \in DOMAIN docs : docs[d].kind = docs[e].kind /\ docs[d].no = docs[e].no => d = e
  BY <1>1 DEF WellKept
<1>5. \A d \in DOMAIN docs : Minted(docs[d].kind, withdrawn) =>
         docs[d].no <= CountIn(docs, Service[docs[d].kind].counts)
  BY <1>1 DEF WellKept, Minted, CountIn
<1>6. TablesFit(docs, nextId, withdrawn)
  BY <1>1, <1>2, <1>3, <1>4, <1>5 DEF TablesFit
<1>7. Settled
  BY <1>6 DEF Settled, Init
<1>8. QED
  BY <1>7, IdleFine DEF LoneInv, Init

\* The invariant holds throughout.
THEOREM LoneInvKept == Spec => []LoneInv
BY LoneInvInit, LoneInvStep, BookKept, AloneKept, PTL DEF Spec

\* What the invariant says of a request no other came between is what its
\* handler promises.
LEMMA LoneInvSuffices == BookInv /\ LoneInv => LoneRequestIsSound
<1> SUFFICES ASSUME BookInv, LoneInv
             PROVE  LoneRequestIsSound
  OBVIOUS
<1>1. TypeOK
  <2>1. \A d \in Live : d \in 1..nextId - 1 /\ IsRow(docs[d])
    BY LiveRow
  <2>2. ASSUME NEW v \in versions
        PROVE  IsVersion(v)
    <3> DEFINE S == VersionsIn(versions, v.id)
    <3>1. v.id \in 1..nextId - 1
      BY DEF BookInv, Recorded
    <3>2. Numbered(S) /\ v \in S
      BY <3>1 DEF BookInv, Recorded, VersionsIn
    <3>3. v.n \in 1..Cardinality(S) /\ Cardinality(S) \in Nat
      BY <3>2, FS_CardinalityType DEF Numbered
    <3> HIDE DEF S
    <3>4. v.n \in Nat \ {0}
      BY <3>3
    <3>5. QED
      BY <3>1, <3>4 DEF IsVersion
  <2>3. \A w \in Workers : job[w].pc \in Steps
    BY DEF LoneInv, Fine, Formed
  <2>4. QED
    BY <2>1, <2>2, <2>3 DEF TypeOK, LoneInv, Settled
<1>2. ASSUME NEW w \in Workers, job[w].pc # "idle", job[w].alone
      PROVE  Formed(job[w]) /\ (job[w].alone = TRUE => Promised(job[w], docs, versions, withdrawn))
  BY <1>2 DEF LoneInv, Fine
<1>3. LoneSaveIsWhole
  <2> SUFFICES ASSUME NEW w \in Workers, job[w].pc \in {"stage", "advance", "done"}, job[w].alone,
                      job[w].op # "delete"
               PROVE  /\ Whole(job[w].id, job[w].write)
                      /\ NewestSnapshot(job[w].id) = job[w].write
    BY DEF LoneSaveIsWhole
  <2> DEFINE j == job[w]
             S == VersionsIn(versions, j.id)
  <2>1. HoldsForm(j, docs) /\ VersionHolds(j, versions)
    BY <1>2 DEF Promised
  <2>2. Whole(j.id, j.write) /\ j.id \in Live
    BY <2>1 DEF HoldsForm, Whole, Live
  <2>3. Numbered(S) /\ VersionsOf(j.id) = S /\ LatestVersion(j.id) = Cardinality(S)
    BY <2>2, LiveRow, LatestOf
  <2>4. PICK v \in S : v.n = Cardinality(S) /\ v.snap = j.write
    BY <2>1 DEF VersionHolds
  <2> HIDE DEF S
  <2>5. (CHOOSE u \in S : u.n = v.n) = v
    BY <2>3, VersionAt
  <2>6. NewestSnapshot(j.id) = j.write
    BY <2>3, <2>4, <2>5 DEF NewestSnapshot
  <2>7. QED
    BY <2>2, <2>6
<1>4. LoneDeleteSucceeds
  BY <1>2 DEF LoneDeleteSucceeds, Promised, Live
<1>5. LoneCreateIsNumbered
  BY <1>2 DEF LoneCreateIsNumbered, Promised
<1>6. QED
  BY <1>1, <1>3, <1>4, <1>5 DEF LoneRequestIsSound

\* A request the others leave alone does what its handler promises: a save
\* leaves the rows of its form in every table, and a newest version that says the
\* same; a delete goes through and nothing is left of the document; a create is
\* refused only when a document counted was deleted.
THEOREM LoneRequestsAreSound == Spec => []LoneRequestIsSound
BY LoneInvSuffices, LoneInvKept, BookKept, PTL
=============================================================================
