------------------------------ MODULE Records_proofs ------------------------------
(***************************************************************************)
(* What holds of the records of Backup for every database, any number of   *)
(* requests and kills, backups and restores: rows refer to rows of the     *)
(* right kind that are there, what lies in a folder is in the product of   *)
(* the folder, and no drop list holds a name twice.                        *)
(***************************************************************************)
EXTENDS Backup_proofs, FiniteSetTheorems, NaturalsInduction, WellFoundedInduction

-----------------------------------------------------------------------------
(* A node and all under it.                                                *)

\* Nonempty sets of naturals have a least element, so that one may count up.
LEMMA LeastElement ==
    ASSUME NEW T, T \subseteq Nat, T # {}
    PROVE  \E x \in T : \A y \in T : x <= y
<1> DEFINE R == OpToRel(<, Nat)
<1>1. IsWellFoundedOn(R, Nat)
  BY NatLessThanWellFounded
<1>2. \A x, y \in Nat : x < y => <<x, y>> \in R
  BY DEF OpToRel
<1> HIDE DEF R
<1>3. \E x \in T : \A y \in T : ~(<<y, x>> \in R)
  BY <1>1, WFMin
<1>4. \A x, y \in Nat : ~(<<y, x>> \in R) => x <= y
  <2>1. \A x, y \in Nat : x <= y \/ y < x
    OBVIOUS
  <2>2. QED
    BY <1>2, <2>1
<1>5. QED
  BY <1>3, <1>4

\* What holds of 0, and of the next number below n, holds of n.
LEMMA CountingUp ==
    ASSUME NEW n \in Nat, NEW P, 0 \in P, \A i \in Nat : i < n /\ i \in P => i + 1 \in P
    PROVE  n \in P
<1> SUFFICES ASSUME n \notin P PROVE FALSE
  OBVIOUS
<1> DEFINE T == {i \in Nat : i \notin P}
<1>1. PICK x \in T : \A y \in T : x <= y
  <2>1. T \subseteq Nat /\ T # {}
    OBVIOUS
  <2> HIDE DEF T
  <2>2. QED
    BY <2>1, LeastElement
<1>2. x \in Nat /\ x # 0 /\ x <= n
  BY <1>1
<1>3. x - 1 \in Nat /\ x - 1 < n /\ (x - 1) + 1 = x
  BY <1>2
<1>4. x - 1 \in P
  <2>1. ~(x <= x - 1)
    BY <1>2
  <2>2. QED
    BY <1>1, <1>3, <2>1
<1>5. QED
  BY <1>1, <1>3, <1>4

\* What is right under a node or under one of S.
Next1(node, pairs, S) == {p[1] : p \in {q \in pairs : q[2] \in {node} \union S}}
\* The layers under a node.
Layers(node, pairs, n, g) == g = [m \in 0..n |-> IF m = 0 THEN {} ELSE Next1(node, pairs, g[m - 1])]

\* There are such layers, to any depth.
LEMMA LayersExist ==
    ASSUME NEW node, NEW pairs, NEW n \in Nat
    PROVE  \E g : Layers(node, pairs, n, g)
<1> DEFINE P == {i \in Nat : \E g : Layers(node, pairs, i, g)}
<1>1. 0 \in P
  <2> DEFINE g == [m \in 0..0 |-> {}]
  <2>1. Layers(node, pairs, 0, g)
    BY DEF Layers
  <2>2. QED
    BY <2>1
<1>2. ASSUME NEW i \in Nat, i \in P PROVE i + 1 \in P
  <2>1. PICK g : Layers(node, pairs, i, g)
    BY <1>2
  <2> DEFINE r(j) == IF j = 0 THEN {} ELSE Next1(node, pairs, g[j - 1])
             f == [j \in 0..(i + 1) |-> r(j)]
  <2>2. \A j \in 0..i : g[j] = r(j)
    BY <2>1 DEF Layers
  <2>3. \A j \in 0..i : f[j] = g[j]
    BY <2>2
  <2>4. \A j \in 0..(i + 1) : j # 0 => f[j - 1] = g[j - 1]
    <3>1. \A j \in 0..(i + 1) : j # 0 => j - 1 \in 0..i
      OBVIOUS
    <3>2. QED
      BY <2>3, <3>1
  <2>5. f = [j \in 0..(i + 1) |-> IF j = 0 THEN {} ELSE Next1(node, pairs, f[j - 1])]
    BY <2>4, Zenon
  <2>6. Layers(node, pairs, i + 1, f)
    BY <2>5 DEF Layers
  <2>7. QED
    BY <2>6
<1> HIDE DEF P
<1>3. n \in P
  BY <1>1, <1>2, CountingUp
<1>4. QED
  BY <1>3 DEF P

\* What each of them is.
LEMMA LayersAre ==
    ASSUME NEW node, NEW pairs, NEW n \in Nat, NEW g, Layers(node, pairs, n, g)
    PROVE  g[0] = {} /\ \A m \in 0..n : m # 0 => g[m] = Next1(node, pairs, g[m - 1])
<1>1. \A m \in 0..n : g[m] = IF m = 0 THEN {} ELSE Next1(node, pairs, g[m - 1])
  BY DEF Layers
<1>2. 0 \in 0..n
  OBVIOUS
<1>3. QED
  BY <1>1, <1>2

\* Below is the last of them, with the node.
LEMMA BelowIs ==
    ASSUME NEW node, NEW pairs, Cardinality(pairs) \in Nat
    PROVE  \E g : Layers(node, pairs, Cardinality(pairs), g)
                      /\ Below(node, pairs) = {node} \union g[Cardinality(pairs)]
<1> DEFINE g == CHOOSE h : Layers(node, pairs, Cardinality(pairs), h)
<1>1. Layers(node, pairs, Cardinality(pairs), g)
  BY LayersExist
<1>2. Below(node, pairs) = {node} \union g[Cardinality(pairs)]
  BY DEF Below, Layers, Next1
<1>3. QED
  BY <1>1, <1>2

\* Under a node is what is right under it or under something under it, and
\* nothing that some set with the node, closed in that way, leaves out.
LEMMA BelowCloses ==
    ASSUME NEW node, NEW pairs, IsFiniteSet(pairs)
    PROVE  /\ node \in Below(node, pairs)
           /\ \A p \in pairs : p[2] \in Below(node, pairs) => p[1] \in Below(node, pairs)
           /\ \A T : node \in T /\ (\A p \in pairs : p[2] \in T => p[1] \in T) => Below(node, pairs) \subseteq T
<1> DEFINE c == Cardinality(pairs)
           firsts == {p[1] : p \in pairs}
<1>1. c \in Nat
  BY FS_CardinalityType
<1>2. PICK g : Layers(node, pairs, c, g) /\ Below(node, pairs) = {node} \union g[c]
  BY <1>1, BelowIs
<1>3. g[0] = {} /\ \A m \in 0..c : m # 0 => g[m] = Next1(node, pairs, g[m - 1])
  BY <1>1, <1>2, LayersAre
<1>4. IsFiniteSet(firsts) /\ Cardinality(firsts) <= c /\ Cardinality(firsts) \in Nat
  <2> DEFINE s == [p \in pairs |-> p[1]]
  <2>1. s \in Surjection(pairs, firsts)
    BY DEF Surjection
  <2> HIDE DEF s, firsts
  <2>2. QED
    BY <2>1, FS_Surjection, FS_CardinalityType
<1>5. \A S : Next1(node, pairs, S) \subseteq firsts
  BY DEF Next1
<1> HIDE DEF firsts
<1>6. \A m \in 0..c : g[m] \subseteq firsts
  BY <1>3, <1>5
<1>7. \A m \in 0..c : m < c => g[m] \subseteq g[m + 1]
  <2> DEFINE P == {m \in Nat : m < c => g[m] \subseteq g[m + 1]}
  <2>1. 0 \in P
    BY <1>3
  <2>2. ASSUME NEW i \in Nat, i < c, i \in P PROVE i + 1 \in P
    <3>1. CASE i + 1 < c
      <4>1. g[i] \subseteq g[i + 1]
        BY <2>2
      <4>2. g[i + 1] = Next1(node, pairs, g[i]) /\ g[i + 2] = Next1(node, pairs, g[i + 1])
        <5>1. i + 1 \in 0..c /\ i + 2 \in 0..c /\ i + 1 # 0 /\ i + 2 # 0 /\ (i + 1) - 1 = i /\ (i + 2) - 1 = i + 1
          BY <1>1, <3>1
        <5>2. QED
          BY <1>3, <5>1
      <4>3. Next1(node, pairs, g[i]) \subseteq Next1(node, pairs, g[i + 1])
        BY <4>1 DEF Next1
      <4>4. (i + 1) + 1 = i + 2
        OBVIOUS
      <4>5. QED
        BY <4>2, <4>3, <4>4
    <3>2. QED
      BY <3>1
  <2> HIDE DEF P
  <2>3. ASSUME NEW m \in 0..c PROVE m \in P
    BY <1>1, <2>1, <2>2, CountingUp
  <2>4. QED
    BY <2>3 DEF P
<1>8. Next1(node, pairs, g[c]) = g[c]
  <2> DEFINE Stops(m) == m < c /\ g[m + 1] = g[m]
             P == {m \in Nat : m <= c => (\E k \in 0..c : k < m /\ Stops(k)) \/ Cardinality(g[m]) >= m}
  <2>1. \A m \in 0..c : IsFiniteSet(g[m]) /\ Cardinality(g[m]) \in Nat /\ Cardinality(g[m]) <= Cardinality(firsts)
                           /\ (Cardinality(g[m]) = Cardinality(firsts) => g[m] = firsts)
    BY <1>4, <1>6, FS_Subset, FS_CardinalityType
  <2>2. 0 \in P
    BY <1>1, <2>1
  <2>3. ASSUME NEW i \in Nat, i < c, i \in P PROVE i + 1 \in P
    <3>0. i \in 0..c /\ i + 1 \in 0..c
      BY <1>1, <2>3
    <3>1. CASE \E k \in 0..c : k < i /\ Stops(k)
      BY <3>1
    <3>2. CASE Stops(i)
      BY <3>2, <3>0
    <3>3. CASE Cardinality(g[i]) >= i /\ ~Stops(i)
      <4>1. g[i] \in SUBSET g[i + 1] /\ g[i] # g[i + 1]
        BY <1>7, <2>3, <3>0, <3>3
      <4>2. Cardinality(g[i]) <= Cardinality(g[i + 1]) /\ Cardinality(g[i]) # Cardinality(g[i + 1])
        <5>1. IsFiniteSet(g[i + 1])
          BY <2>1, <3>0
        <5>2. QED
          BY <4>1, <5>1, FS_Subset
      <4>3. Cardinality(g[i + 1]) >= i + 1
        BY <2>1, <3>0, <3>3, <4>2
      <4>4. QED
        BY <4>3
    <3>4. QED
      BY <2>3, <3>0, <3>1, <3>2, <3>3
  <2> HIDE DEF P
  <2>4. c \in P
    BY <1>1, <2>2, <2>3, CountingUp
  <2>5. CASE \E k \in 0..c : k < c /\ Stops(k)
    <3>1. PICK k \in 0..c : k < c /\ g[k + 1] = g[k]
      BY <2>5
    <3> DEFINE Q == {m \in Nat : k + m <= c => g[k + m] = g[k]}
    <3>2. 0 \in Q
      OBVIOUS
    <3>3. ASSUME NEW i \in Nat, i \in Q PROVE i + 1 \in Q
      <4>1. CASE k + (i + 1) <= c
        <5>1. k + i \in 0..c /\ k + (i + 1) \in 0..c /\ k + (i + 1) # 0 /\ (k + (i + 1)) - 1 = k + i
              /\ k + 1 \in 0..c /\ k + 1 # 0 /\ (k + 1) - 1 = k
          BY <1>1, <3>1, <4>1
        <5>2. g[k + i] = g[k]
          BY <3>3, <5>1
        <5>3. g[k + (i + 1)] = Next1(node, pairs, g[k + i]) /\ g[k + 1] = Next1(node, pairs, g[k])
          BY <1>3, <5>1
        <5>4. QED
          BY <3>1, <5>2, <5>3
      <4>2. QED
        BY <4>1
    <3> HIDE DEF Q
    <3>4. c - k \in Nat /\ k + (c - k) = c
      BY <1>1, <3>1
    <3>5. c - k \in Q
      BY <3>2, <3>3, <3>4, CountingUp
    <3>6. g[c] = g[k]
      BY <1>1, <3>4, <3>5 DEF Q
    <3>7. g[k + 1] = Next1(node, pairs, g[k])
      <4>1. k + 1 \in 0..c /\ k + 1 # 0 /\ (k + 1) - 1 = k
        BY <1>1, <3>1
      <4>2. QED
        BY <1>3, <4>1
    <3>8. QED
      BY <3>1, <3>6, <3>7
  <2>6. CASE Cardinality(g[c]) >= c
    <3>1. c \in 0..c
      BY <1>1
    <3>2. g[c] = firsts
      BY <1>1, <1>4, <2>1, <2>6, <3>1
    <3>3. CASE c = 0
      <4>1. pairs = {}
        BY <3>3, FS_EmptySet
      <4>2. QED
        BY <1>3, <3>3, <4>1 DEF Next1
    <3>4. CASE c # 0
      <4>1. c - 1 \in 0..c /\ c - 1 < c /\ (c - 1) + 1 = c
        BY <1>1, <3>4
      <4>2. g[c] = Next1(node, pairs, g[c - 1]) /\ g[c - 1] \subseteq g[c]
        BY <1>3, <1>7, <3>1, <3>4, <4>1
      <4>3. Next1(node, pairs, g[c - 1]) \subseteq Next1(node, pairs, g[c])
        BY <4>2 DEF Next1
      <4>4. QED
        BY <1>5, <3>2, <4>2, <4>3
    <3>5. QED
      BY <3>3, <3>4
  <2>7. QED
    BY <1>1, <2>4, <2>5, <2>6 DEF P
<1>9. \A p \in pairs : p[2] \in Below(node, pairs) => p[1] \in Below(node, pairs)
  <2>1. \A p \in pairs : p[2] \in {node} \union g[c] => p[1] \in Next1(node, pairs, g[c])
    BY DEF Next1
  <2>2. QED
    BY <1>2, <1>8, <2>1
<1>10. ASSUME NEW T, node \in T, \A p \in pairs : p[2] \in T => p[1] \in T
       PROVE  Below(node, pairs) \subseteq T
  <2> DEFINE P == {m \in Nat : m <= c => g[m] \subseteq T}
  <2>1. 0 \in P
    BY <1>3
  <2>2. ASSUME NEW i \in Nat, i < c, i \in P PROVE i + 1 \in P
    <3>1. i + 1 \in 0..c /\ i + 1 # 0 /\ (i + 1) - 1 = i /\ i <= c
      BY <1>1, <2>2
    <3>2. g[i + 1] = Next1(node, pairs, g[i]) /\ g[i] \subseteq T
      BY <1>3, <2>2, <3>1
    <3>3. Next1(node, pairs, g[i]) \subseteq T
      BY <1>10, <3>2 DEF Next1
    <3>4. QED
      BY <3>2, <3>3
  <2> HIDE DEF P
  <2>3. c \in P
    BY <1>1, <2>1, <2>2, CountingUp
  <2>4. g[c] \subseteq T
    BY <1>1, <2>3 DEF P
  <2>5. QED
    BY <1>2, <1>10, <2>4
<1>11. QED
  BY <1>2, <1>9, <1>10

-----------------------------------------------------------------------------
(* Rows as the schema and the services keep them.                          *)

\* The calls of a list.
CallsOf(s) == {s[p] : p \in DOMAIN s}

\* What was there when a request read it: no row has changed its kind, no folder
\* its product, and new rows have new ids.
Evolves(R, N, R2, N2) ==
    /\ N \in Nat /\ N2 \in Nat /\ N <= N2
    /\ \A i \in DOMAIN R2 :
          \/ i >= N
          \/ i \in DOMAIN R /\ R2[i].kind = R[i].kind /\ (R[i].kind = "folder" => R2[i].up = R[i].up)

\* What an ordinary request writes is right, as far as it could know.
Placed(row, R, N) ==
    /\ row.side \in 0..N - 1
    /\ row.side \in DOMAIN R => R[row.side].kind = "folder" /\ R[row.side].up = row.up
NewName(text, id, kind, R) ==
    \A i \in DOMAIN R \ {id} : R[i].kind = kind => Fold[R[i].text] # Fold[text]
InsertRight(j, c, R, N) ==
    /\ c.row.kind = j.kind /\ IsRecord(c.row)
    /\ j.crossed \/ Placed(c.row, R, N)
    /\ j.kind \in DropLists => c.row.text # "" /\ (j.alone => NewName(c.row.text, None, j.kind, R))
UpdateRight(j, c, R, N) ==
    /\ c.id = j.id
    /\ c.up # Same => j.kind = "product"
    /\ c.text # AsIs => /\ j.kind \in DropLists /\ c.text # ""
                        /\ j.alone => NewName(c.text, j.id, j.kind, R)
ReplaceRight(j, c) ==
    IF j.kind = "product" THEN c.part = 2 /\ c.text # AsIs /\ (c.with = None => c.text = "")
                          ELSE c.text = AsIs
CallRight(j, c, R, N) ==
    /\ c.do = "insert" => InsertRight(j, c, R, N)
    /\ c.do = "update" => UpdateRight(j, c, R, N)
    /\ c.do = "replace" => ReplaceRight(j, c)
    /\ c.do = "copy" => j.kind = "product"
RightCalls(j, R, N) ==
    /\ \A c \in CallsOf(j.todo) : CallRight(j, c, R, N)
    /\ j.kind \in DropLists => Len(j.todo) <= 1
RightJob(j, R, N) ==
    /\ j.op \in Ordinary => RightCalls(j, R, N)
    /\ \A c \in CallsOf(j.todo) : c.do = "send" => IsSound(c.rows, c.nextId)

SoundInv(R, N, Z, J) ==
    /\ IsSound(R, N) /\ IsSound(Z.rows, Z.nextId)
    /\ \A w \in Workers : J[w] # Idle => RightJob(J[w], R, N)
SInv == SoundInv(rows, nextId, zip, job)

\* The kinds of rows, told apart.
LEMMA KindsAre ==
    /\ "category" \notin DropLists /\ "product" \notin DropLists /\ "folder" \notin DropLists
    /\ "design" \notin DropLists /\ "company" \notin DropLists /\ "supplier" \notin DropLists
    /\ "transporter" \notin DropLists /\ "booking" \notin DropLists /\ "login" \notin DropLists
    /\ \A kind \in RemovesFirst : kind \notin DropLists /\ kind \notin {"product", "folder", "design", "category"}
    /\ \A kind : SideOf(kind) \subseteq {"folder"} /\ SideOf("product") = {}
    /\ \A kind \in DropLists : UpOf(kind) = {} /\ SideOf(kind) = {} /\ kind \notin RemovesFirst
BY DEF DropLists, MiscCurrency, MiscNatureOfContract, MiscPortOfLoading, MiscContainerType, MiscHsnCode,
       MiscCountry, MiscUnit, RemovesFirst, SideOf, UpOf

\* What a sound table is.
LEMMA SoundIs ==
    ASSUME NEW R, NEW N, IsSound(R, N)
    PROVE  /\ N \in Nat /\ N # 0 /\ IsFiniteSet(DOMAIN R) /\ R = [i \in DOMAIN R |-> R[i]] /\ Differ(R)
           /\ None \notin DOMAIN R /\ N \notin DOMAIN R
           /\ \A i \in DOMAIN R :
                 /\ i \in Nat /\ i # 0 /\ i < N /\ IsRecord(R[i])
                 /\ LeadsTo(R[i].up, UpOf(R[i].kind), R) /\ LeadsTo(R[i].side, SideOf(R[i].kind), R)
                 /\ R[i].odd \/ Belongs(R[i], R)
<1>1. N \in Nat /\ N # 0 /\ DOMAIN R \in SUBSET (1..N - 1)
  BY DEF IsSound
<1>2. IsFiniteSet(DOMAIN R)
  <2>1. IsFiniteSet(1..N - 1)
    BY <1>1, FS_Interval
  <2>2. QED
    BY <1>1, <2>1, FS_Subset
<1>3. \A i \in DOMAIN R : i \in Nat /\ i # 0 /\ i < N
  BY <1>1
<1>4. 0 \notin DOMAIN R /\ N \notin DOMAIN R
  BY <1>1, <1>3
<1>5. QED
  BY <1>1, <1>2, <1>3, <1>4 DEF IsSound, None

\* A record, field by field.
LEMMA RecordIs ==
    ASSUME NEW row, IsRecord(row), NEW row2, DOMAIN row2 = DOMAIN row,
           \A x \in DOMAIN row \ {"odd", "up", "side"} : row2[x] = row[x]
    PROVE  /\ row2.kind = row.kind /\ row2.files = row.files /\ row2.text = row.text /\ row2.parts = row.parts
           /\ IsRecord(row2)
<1>1. /\ row2.kind = row.kind /\ row2.files = row.files /\ row2.text = row.text /\ row2.parts = row.parts
      /\ DOMAIN row = {"kind", "up", "side", "files", "text", "odd", "parts"}
  BY DEF IsRecord
<1>2. QED
  BY <1>1 DEF IsRecord

\* What a cascade leaves is sound.
LEMMA Restricted ==
    ASSUME NEW R, NEW N, IsSound(R, N), NEW gone,
           \A i \in DOMAIN R : R[i].up \in gone \/ R[i].side \in gone => i \in gone,
           NEW R2, R2 = [i \in DOMAIN R \ gone |-> R[i]]
    PROVE  IsSound(R2, N) /\ Evolves(R, N, R2, N)
<1>1. DOMAIN R2 = DOMAIN R \ gone /\ \A i \in DOMAIN R2 : R2[i] = R[i] /\ i \in DOMAIN R
  OBVIOUS
<1>2. R2 = [i \in DOMAIN R2 |-> R2[i]]
  BY <1>1
<1>3. ASSUME NEW i \in DOMAIN R2
      PROVE  /\ i \in 1..N - 1 /\ IsRecord(R2[i])
             /\ LeadsTo(R2[i].up, UpOf(R2[i].kind), R2) /\ LeadsTo(R2[i].side, SideOf(R2[i].kind), R2)
             /\ R2[i].odd \/ Belongs(R2[i], R2)
  <2>1. /\ i \in 1..N - 1 /\ IsRecord(R[i])
        /\ LeadsTo(R[i].up, UpOf(R[i].kind), R) /\ LeadsTo(R[i].side, SideOf(R[i].kind), R)
        /\ R[i].odd \/ Belongs(R[i], R)
    BY <1>1 DEF IsSound
  <2>2. R[i].up \notin gone /\ R[i].side \notin gone
    BY <1>1
  <2>3. LeadsTo(R2[i].up, UpOf(R2[i].kind), R2) /\ LeadsTo(R2[i].side, SideOf(R2[i].kind), R2)
    BY <1>1, <2>1, <2>2 DEF LeadsTo
  <2>4. R2[i].odd \/ Belongs(R2[i], R2)
    BY <1>1, <2>1 DEF Belongs
  <2>5. QED
    BY <1>1, <2>1, <2>3, <2>4
<1>4. Differ(R2)
  <2>1. Differ(R)
    BY DEF IsSound
  <2>2. QED
    BY <1>1, <2>1 DEF Differ
<1>5. N \in Nat /\ N # 0
  BY DEF IsSound
<1>6. IsSound(R2, N)
  BY <1>2, <1>3, <1>4, <1>5 DEF IsSound
<1>7. Evolves(R, N, R2, N)
  BY <1>1, <1>5 DEF Evolves
<1>8. QED
  BY <1>6, <1>7

\* Marking rows odd leaves them sound.
Marked(R, R2) ==
    /\ DOMAIN R2 = DOMAIN R /\ R2 = [i \in DOMAIN R2 |-> R2[i]]
    /\ \A i \in DOMAIN R : /\ DOMAIN R2[i] = DOMAIN R[i] /\ (R[i].odd => R2[i].odd)
                           /\ \A x \in DOMAIN R[i] \ {"odd"} : R2[i][x] = R[i][x]
LEMMA MarkedSound ==
    ASSUME NEW R, NEW N, IsSound(R, N), NEW R2, Marked(R, R2)
    PROVE  IsSound(R2, N) /\ Evolves(R, N, R2, N)
<1>1. DOMAIN R2 = DOMAIN R /\ R2 = [i \in DOMAIN R2 |-> R2[i]]
  BY DEF Marked
<1>2. ASSUME NEW i \in DOMAIN R
      PROVE  /\ IsRecord(R2[i]) /\ R2[i].kind = R[i].kind /\ R2[i].up = R[i].up /\ R2[i].side = R[i].side
             /\ R2[i].text = R[i].text /\ (R[i].odd => R2[i].odd)
  <2>1. IsRecord(R[i]) /\ DOMAIN R[i] = {"kind", "up", "side", "files", "text", "odd", "parts"}
    BY DEF IsSound, IsRecord
  <2>2. /\ DOMAIN R2[i] = DOMAIN R[i] /\ (R[i].odd => R2[i].odd)
        /\ \A x \in DOMAIN R[i] \ {"odd"} : R2[i][x] = R[i][x]
    BY DEF Marked
  <2>3. R2[i].up = R[i].up /\ R2[i].side = R[i].side
    BY <2>1, <2>2
  <2>4. QED
    BY <2>1, <2>2, <2>3, RecordIs
<1>3. ASSUME NEW i \in DOMAIN R2
      PROVE  /\ i \in 1..N - 1 /\ IsRecord(R2[i])
             /\ LeadsTo(R2[i].up, UpOf(R2[i].kind), R2) /\ LeadsTo(R2[i].side, SideOf(R2[i].kind), R2)
             /\ R2[i].odd \/ Belongs(R2[i], R2)
  <2>1. /\ i \in 1..N - 1 /\ IsRecord(R[i])
        /\ LeadsTo(R[i].up, UpOf(R[i].kind), R) /\ LeadsTo(R[i].side, SideOf(R[i].kind), R)
        /\ R[i].odd \/ Belongs(R[i], R)
    BY <1>1 DEF IsSound
  <2>2. LeadsTo(R2[i].up, UpOf(R2[i].kind), R2) /\ LeadsTo(R2[i].side, SideOf(R2[i].kind), R2)
    BY <1>1, <1>2, <2>1 DEF LeadsTo
  <2>3. R2[i].odd \/ Belongs(R2[i], R2)
    BY <1>1, <1>2, <2>1 DEF Belongs
  <2>4. QED
    BY <1>1, <1>2, <2>1, <2>2, <2>3
<1>4. Differ(R2)
  <2>1. Differ(R)
    BY DEF IsSound
  <2>2. SUFFICES ASSUME NEW i \in DOMAIN R, NEW k \in DOMAIN R, i # k, R[i].kind \in DropLists,
                        R[i].kind = R[k].kind
                 PROVE  IF R2[i].odd \/ R2[k].odd THEN R2[i].text # R2[k].text
                                                  ELSE Fold[R2[i].text] # Fold[R2[k].text]
    BY <1>1, <1>2 DEF Differ
  <2>3. IF R[i].odd \/ R[k].odd THEN R[i].text # R[k].text ELSE Fold[R[i].text] # Fold[R[k].text]
    BY <2>1, <2>2 DEF Differ
  <2>4. R[i].text # R[k].text
    BY <2>3
  <2>5. QED
    BY <1>2, <2>3, <2>4
<1>5. N \in Nat /\ N # 0
  BY DEF IsSound
<1>6. IsSound(R2, N)
  BY <1>1, <1>3, <1>4, <1>5 DEF IsSound
<1>7. Evolves(R, N, R2, N)
  BY <1>1, <1>2, <1>5 DEF Evolves
<1>8. QED
  BY <1>6, <1>7

\* An entry of a drop list whose name the others do not have.
Distinct(row, a, R) ==
    row.kind \in DropLists =>
        \A i \in DOMAIN R \ {a} : R[i].kind = row.kind =>
            IF row.odd \/ R[i].odd THEN row.text # R[i].text ELSE Fold[row.text] # Fold[R[i].text]

\* A table with one more row, which may refer to the others.
LEMMA Added ==
    ASSUME NEW R, NEW N, IsSound(R, N), NEW row, IsRecord(row),
           LeadsTo(row.up, UpOf(row.kind), R), LeadsTo(row.side, SideOf(row.kind), R),
           row.odd \/ Belongs(row, R), Distinct(row, None, R),
           NEW R2, R2 = [i \in DOMAIN R \union {N} |-> IF i = N THEN row ELSE R[i]]
    PROVE  IsSound(R2, N + 1) /\ Evolves(R, N, R2, N + 1)
<1>1. /\ N \in Nat /\ N # 0 /\ Differ(R) /\ None \notin DOMAIN R /\ N \notin DOMAIN R /\ None # N
      /\ \A i \in DOMAIN R :
            /\ i \in Nat /\ i # 0 /\ i < N /\ IsRecord(R[i])
            /\ LeadsTo(R[i].up, UpOf(R[i].kind), R) /\ LeadsTo(R[i].side, SideOf(R[i].kind), R)
            /\ R[i].odd \/ Belongs(R[i], R)
  BY SoundIs DEF None
<1>2. /\ DOMAIN R2 = DOMAIN R \union {N} /\ R2[N] = row /\ (\A i \in DOMAIN R : R2[i] = R[i])
      /\ R2 = [i \in DOMAIN R2 |-> R2[i]]
  BY <1>1
<1>3. \A i, kinds : LeadsTo(i, kinds, R) => LeadsTo(i, kinds, R2) /\ i # N
  BY <1>1, <1>2 DEF LeadsTo
<1>4. ASSUME NEW i \in DOMAIN R2
      PROVE  /\ i \in 1..(N + 1) - 1 /\ IsRecord(R2[i])
             /\ LeadsTo(R2[i].up, UpOf(R2[i].kind), R2) /\ LeadsTo(R2[i].side, SideOf(R2[i].kind), R2)
             /\ R2[i].odd \/ Belongs(R2[i], R2)
  <2>1. CASE i = N
    <3>1. row.odd \/ Belongs(row, R2)
      BY <1>2, <1>3 DEF Belongs
    <3>2. R2[i] = row /\ i \in 1..(N + 1) - 1
      BY <1>1, <1>2, <2>1
    <3>3. LeadsTo(row.up, UpOf(row.kind), R2) /\ LeadsTo(row.side, SideOf(row.kind), R2)
      BY <1>3
    <3>4. QED
      BY <3>1, <3>2, <3>3
  <2>2. CASE i \in DOMAIN R
    <3>1. R[i].odd \/ Belongs(R[i], R2)
      BY <1>1, <1>2, <1>3, <2>2 DEF Belongs
    <3>2. R2[i] = R[i] /\ i \in DOMAIN R
      BY <1>2, <2>2
    <3>3. i \in 1..(N + 1) - 1 /\ IsRecord(R[i])
      BY <1>1, <3>2
    <3>4. LeadsTo(R[i].up, UpOf(R[i].kind), R2) /\ LeadsTo(R[i].side, SideOf(R[i].kind), R2)
      BY <1>1, <1>3, <3>2
    <3>5. QED
      BY <3>1, <3>2, <3>3, <3>4
  <2>3. QED
    BY <1>2, <2>1, <2>2
<1>5. Differ(R2)
  <2> SUFFICES ASSUME NEW i \in DOMAIN R2, NEW k \in DOMAIN R2, i # k, R2[i].kind \in DropLists,
                      R2[i].kind = R2[k].kind
               PROVE  IF R2[i].odd \/ R2[k].odd THEN R2[i].text # R2[k].text
                                                ELSE Fold[R2[i].text] # Fold[R2[k].text]
    BY DEF Differ
  <2>1. CASE i = N
    BY <1>1, <1>2, <2>1 DEF Distinct
  <2>2. CASE k = N
    BY <1>1, <1>2, <2>2 DEF Distinct
  <2>3. CASE i # N /\ k # N
    BY <1>1, <1>2, <2>3 DEF Differ
  <2>4. QED
    BY <2>1, <2>2, <2>3
<1>6. IsSound(R2, N + 1)
  <2>1. N + 1 \in Nat \ {0}
    BY <1>1
  <2>2. QED
    BY <1>2, <1>4, <1>5, <2>1 DEF IsSound
<1>7. Evolves(R, N, R2, N + 1)
  BY <1>1, <1>2 DEF Evolves
<1>8. QED
  BY <1>6, <1>7

\* A table with one row changed, where it is.
LEMMA Changed ==
    ASSUME NEW R, NEW N, IsSound(R, N), NEW a \in DOMAIN R, NEW row, IsRecord(row),
           row.kind = R[a].kind, row.side = R[a].side, R[a].odd => row.odd,
           LeadsTo(row.up, UpOf(row.kind), R), row.up = R[a].up \/ row.kind = "product",
           Distinct(row, a, R), NEW R2, R2 = [R EXCEPT ![a] = row]
    PROVE  IsSound(R2, N) /\ Evolves(R, N, R2, N)
<1>1. /\ N \in Nat /\ N # 0 /\ Differ(R) /\ None \notin DOMAIN R
      /\ \A i \in DOMAIN R :
            /\ i \in Nat /\ i # 0 /\ i < N /\ IsRecord(R[i])
            /\ LeadsTo(R[i].up, UpOf(R[i].kind), R) /\ LeadsTo(R[i].side, SideOf(R[i].kind), R)
            /\ R[i].odd \/ Belongs(R[i], R)
  BY SoundIs
<1>2. /\ DOMAIN R2 = DOMAIN R /\ R2[a] = row /\ (\A i \in DOMAIN R : i # a => R2[i] = R[i])
      /\ R2 = [i \in DOMAIN R2 |-> R2[i]]
  BY SoundIs
<1>3. \A i, kinds : LeadsTo(i, kinds, R) => LeadsTo(i, kinds, R2)
  BY <1>2 DEF LeadsTo
<1>4. ASSUME NEW i \in DOMAIN R, ~R[i].odd, R[i].side = a, R[i].side \in DOMAIN R
      PROVE  row.up = R[a].up
  <2>1. R[a].kind = "folder"
    <3>1. LeadsTo(R[i].side, SideOf(R[i].kind), R) /\ R[i].side # None
      BY <1>1, <1>4
    <3>2. R[a].kind \in SideOf(R[i].kind)
      BY <1>4, <3>1 DEF LeadsTo
    <3>3. QED
      BY <3>2, KindsAre
  <2>2. QED
    BY <2>1
<1>5. ASSUME NEW i \in DOMAIN R2
      PROVE  /\ i \in 1..N - 1 /\ IsRecord(R2[i])
             /\ LeadsTo(R2[i].up, UpOf(R2[i].kind), R2) /\ LeadsTo(R2[i].side, SideOf(R2[i].kind), R2)
             /\ R2[i].odd \/ Belongs(R2[i], R2)
  <2>1. CASE i = a
    <3>1. LeadsTo(row.side, SideOf(row.kind), R)
      BY <1>1
    <3>2. row.odd \/ Belongs(row, R2)
      <4>1. CASE ~row.odd /\ row.side \in DOMAIN R
        <5>1. ~R[a].odd /\ Belongs(R[a], R)
          BY <1>1, <4>1
        <5>2. R[row.side].up = R[a].up /\ row.side # None
          BY <1>1, <4>1, <5>1 DEF Belongs
        <5>3. row.up = R[a].up
          <6>1. row.kind # "product"
            <7>1. R[row.side].kind \in SideOf(row.kind)
              BY <3>1, <4>1, <5>2 DEF LeadsTo
            <7>2. QED
              BY <7>1, KindsAre
          <6>2. QED
            BY <6>1
        <5>4. R2[row.side].up = row.up
          BY <1>2, <4>1, <5>2, <5>3
        <5>5. QED
          BY <5>4 DEF Belongs
      <4>2. QED
        BY <1>2, <4>1 DEF Belongs
    <3>3. LeadsTo(row.up, UpOf(row.kind), R2) /\ LeadsTo(row.side, SideOf(row.kind), R2)
      BY <1>3, <3>1
    <3>4. i \in 1..N - 1 /\ R2[i] = row
      BY <1>1, <1>2, <2>1
    <3>5. QED
      BY <3>2, <3>3, <3>4
  <2>2. CASE i # a
    <3>1. R[i].odd \/ Belongs(R[i], R2)
      BY <1>1, <1>2, <1>4, <2>2 DEF Belongs
    <3>2. R2[i] = R[i] /\ i \in DOMAIN R
      BY <1>2, <2>2
    <3>3. i \in 1..N - 1 /\ IsRecord(R[i])
      BY <1>1, <3>2
    <3>4. LeadsTo(R[i].up, UpOf(R[i].kind), R2) /\ LeadsTo(R[i].side, SideOf(R[i].kind), R2)
      BY <1>1, <1>3, <3>2
    <3>5. QED
      BY <3>1, <3>2, <3>3, <3>4
  <2>3. QED
    BY <2>1, <2>2
<1>6. Differ(R2)
  <2> SUFFICES ASSUME NEW i \in DOMAIN R2, NEW k \in DOMAIN R2, i # k, R2[i].kind \in DropLists,
                      R2[i].kind = R2[k].kind
               PROVE  IF R2[i].odd \/ R2[k].odd THEN R2[i].text # R2[k].text
                                                ELSE Fold[R2[i].text] # Fold[R2[k].text]
    BY DEF Differ
  <2>1. CASE i = a
    BY <1>2, <2>1 DEF Distinct
  <2>2. CASE k = a
    BY <1>2, <2>2 DEF Distinct
  <2>3. CASE i # a /\ k # a
    BY <1>1, <1>2, <2>3 DEF Differ
  <2>4. QED
    BY <2>1, <2>2, <2>3
<1>7. IsSound(R2, N)
  BY <1>1, <1>2, <1>5, <1>6 DEF IsSound
<1>8. Evolves(R, N, R2, N)
  BY <1>1, <1>2 DEF Evolves
<1>9. QED
  BY <1>7, <1>8

\* A cascade takes what refers to what it takes.
CascadePairs(R) == {<<i, R[i].up>> : i \in DOMAIN R} \union {<<i, R[i].side>> : i \in DOMAIN R}
LEMMA PairsAreFinite ==
    ASSUME NEW R, IsFiniteSet(DOMAIN R)
    PROVE  IsFiniteSet(CascadePairs(R))
<1> DEFINE a == [i \in DOMAIN R |-> <<i, R[i].up>>]
           b == [i \in DOMAIN R |-> <<i, R[i].side>>]
           A == {<<i, R[i].up>> : i \in DOMAIN R}
           B == {<<i, R[i].side>> : i \in DOMAIN R}
<1>1. a \in Surjection(DOMAIN R, A) /\ b \in Surjection(DOMAIN R, B)
  BY DEF Surjection
<1> HIDE DEF a, b, A, B
<1>2. IsFiniteSet(A) /\ IsFiniteSet(B)
  BY <1>1, FS_Surjection
<1>3. IsFiniteSet(A \union B)
  BY <1>2, FS_Union
<1>4. QED
  BY <1>3 DEF A, B, CascadePairs
LEMMA CascadeIs ==
    ASSUME NEW R, IsFiniteSet(DOMAIN R), NEW id, NEW gone, gone = Below(id, CascadePairs(R))
    PROVE  /\ id \in gone
           /\ \A i \in DOMAIN R : R[i].up \in gone \/ R[i].side \in gone => i \in gone
           /\ \A T : id \in T /\ (\A i \in DOMAIN R : R[i].up \in T \/ R[i].side \in T => i \in T) => gone \subseteq T
<1>1. IsFiniteSet(CascadePairs(R))
  BY PairsAreFinite
<1>2. /\ id \in gone
      /\ \A p \in CascadePairs(R) : p[2] \in gone => p[1] \in gone
      /\ \A T : id \in T /\ (\A p \in CascadePairs(R) : p[2] \in T => p[1] \in T) => gone \subseteq T
  BY <1>1, BelowCloses
<1>3. \A i \in DOMAIN R : <<i, R[i].up>> \in CascadePairs(R) /\ <<i, R[i].side>> \in CascadePairs(R)
  BY DEF CascadePairs
<1>4. \A p \in CascadePairs(R) : \E i \in DOMAIN R : p[1] = i /\ p[2] \in {R[i].up, R[i].side}
  BY DEF CascadePairs
<1>5. \A i \in DOMAIN R : R[i].up \in gone \/ R[i].side \in gone => i \in gone
  BY <1>2, <1>3
<1>6. ASSUME NEW T, id \in T, \A i \in DOMAIN R : R[i].up \in T \/ R[i].side \in T => i \in T
      PROVE  gone \subseteq T
  BY <1>2, <1>4, <1>6
<1>7. QED
  BY <1>2, <1>5, <1>6

-----------------------------------------------------------------------------
(* What the calls of a request leave: the tables stay sound, and so does   *)
(* what the requests under way are about to write.                         *)

LEMMA CallsTail ==
    ASSUME NEW s, IsList(s), s # <<>>
    PROVE  CallsOf(Tail(s)) \subseteq CallsOf(s) /\ s[1] \in CallsOf(s)
<1>1. 1 \in DOMAIN s /\ \A p \in DOMAIN Tail(s) : p + 1 \in DOMAIN s /\ Tail(s)[p] = s[p + 1]
  BY ListTail
<1>2. QED
  BY <1>1 DEF CallsOf

LEMMA CallsJoined ==
    ASSUME NEW s, IsList(s), NEW t, IsList(t)
    PROVE  IsList(s \o t) /\ CallsOf(s \o t) = CallsOf(s) \union CallsOf(t)
<1> DEFINE u == s \o t
<1>1. /\ IsList(u) /\ \A p \in DOMAIN s : u[p] = s[p]
      /\ \A p \in DOMAIN t : u[Len(s) + p] = t[p]
      /\ \A p \in DOMAIN u : p \in DOMAIN s \/ \E q \in DOMAIN t : p = Len(s) + q
  BY ListConcat
<1>0. /\ \A p \in DOMAIN s : p \in DOMAIN u
      /\ \A p \in DOMAIN t : Len(s) + p \in DOMAIN u
  BY ListConcat
<1> HIDE DEF u
<1>2. CallsOf(s) \subseteq CallsOf(u) /\ CallsOf(t) \subseteq CallsOf(u)
  <2>1. \A p \in DOMAIN s : s[p] \in CallsOf(u)
    BY <1>0, <1>1, Zenon DEF CallsOf
  <2>2. \A p \in DOMAIN t : t[p] \in CallsOf(u)
    BY <1>0, <1>1, Zenon DEF CallsOf
  <2>3. QED
    BY <2>1, <2>2 DEF CallsOf
<1>3. ASSUME NEW p \in DOMAIN u PROVE u[p] \in CallsOf(s) \union CallsOf(t)
  <2>1. CASE p \in DOMAIN s
    BY <1>1, <2>1 DEF CallsOf
  <2>2. CASE \E q \in DOMAIN t : p = Len(s) + q
    BY <1>1, <2>2 DEF CallsOf
  <2>3. QED
    BY <1>1, <2>1, <2>2
<1>4. CallsOf(u) = CallsOf(s) \union CallsOf(t)
  BY <1>2, <1>3 DEF CallsOf
<1>5. QED
  BY <1>1, <1>4 DEF u

LEMMA CallsOfNone == CallsOf(<<>>) = {}
BY ListNone DEF CallsOf

LEMMA CallsOfOne ==
    ASSUME NEW a
    PROVE  IsList(<<a>>) /\ CallsOf(<<a>>) = {a}
BY ListOne DEF CallsOf

\* Nothing left to write is right.
LEMMA RightDone ==
    ASSUME NEW j, j.todo = <<>>, NEW R, NEW N
    PROVE  RightJob(j, R, N)
<1>1. CallsOf(j.todo) = {} /\ Len(j.todo) = 0
  BY CallsOfNone, ListNone
<1>2. QED
  BY <1>1 DEF RightJob, RightCalls

\* What a request that is not alone is about to write stays right.
LEMMA RightEvolves ==
    ASSUME NEW j, NEW R, NEW N, RightJob(j, R, N), ~j.alone, NEW R2, NEW N2,
           Evolves(R, N, R2, N2) \/ j.crossed
    PROVE  RightJob(j, R2, N2)
<1>1. ASSUME NEW c, CallRight(j, c, R, N)
      PROVE  CallRight(j, c, R2, N2)
  <2>1. c.do = "update" => UpdateRight(j, c, R2, N2)
    BY <1>1 DEF CallRight, UpdateRight
  <2>2. ASSUME c.do = "insert" PROVE InsertRight(j, c, R2, N2)
    <3>1. /\ c.row.kind = j.kind /\ IsRecord(c.row) /\ (j.crossed \/ Placed(c.row, R, N))
          /\ j.kind \in DropLists => c.row.text # ""
      BY <1>1, <2>2 DEF CallRight, InsertRight
    <3>2. ASSUME Placed(c.row, R, N), Evolves(R, N, R2, N2) PROVE Placed(c.row, R2, N2)
      <4>1. c.row.side \in 0..N2 - 1 /\ ~(c.row.side >= N)
        BY <3>2 DEF Placed, Evolves
      <4>2. QED
        BY <3>2, <4>1 DEF Placed, Evolves
    <3>3. QED
      BY <3>1, <3>2 DEF InsertRight
  <2>3. QED
    BY <1>1, <2>1, <2>2 DEF CallRight
<1>2. QED
  BY <1>1 DEF RightJob, RightCalls

\* What a request has left after a call of its own stays right.
LEMMA OwnRight ==
    ASSUME NEW j, NEW j2, NEW R, NEW N, NEW R2, NEW N2, RightJob(j, R, N), IsList(j.todo), j.todo # <<>>,
           j2.op = j.op, j2.kind = j.kind, j2.alone = j.alone, j2.crossed = j.crossed,
           \A c \in CallsOf(j2.todo) :
              \/ c \in CallsOf(Tail(j.todo))
              \/ CallRight(j2, c, R2, N2) /\ (c.do = "send" => IsSound(c.rows, c.nextId)),
           j.op \in Ordinary =>
              /\ Evolves(R, N, R2, N2)
              /\ j2.todo = Tail(j.todo) \/ j.kind \notin DropLists
              /\ j2.id = j.id \/ \A c \in CallsOf(Tail(j.todo)) : c.do \in {"replace", "copy"}
    PROVE  RightJob(j2, R2, N2)
<1>1. CallsOf(Tail(j.todo)) \subseteq CallsOf(j.todo)
  BY CallsTail
<1>2. \A c \in CallsOf(j2.todo) : c.do = "send" => IsSound(c.rows, c.nextId)
  BY <1>1 DEF RightJob
<1>3. ASSUME j.op \in Ordinary PROVE RightCalls(j2, R2, N2)
  <2>1. RightCalls(j, R, N) /\ Evolves(R, N, R2, N2)
    BY <1>3 DEF RightJob
  <2>2. CASE j.kind \in DropLists
    <3>1. Len(j.todo) <= 1 /\ j2.todo = Tail(j.todo)
      BY <1>3, <2>1, <2>2 DEF RightCalls
    <3>2. Len(Tail(j.todo)) = Len(j.todo) - 1 /\ Len(j.todo) \in Nat /\ Len(j.todo) # 0
          /\ IsList(Tail(j.todo))
      BY ListTail, ListIs
    <3> DEFINE n == Len(j.todo)
               t == Tail(j.todo)
    <3>0. n \in Nat /\ n # 0 /\ n <= 1 /\ Len(t) = n - 1 /\ j2.todo = t
      BY <3>1, <3>2
    <3> HIDE DEF n, t
    <3>3. Len(j2.todo) = 0
      <4>1. n = 1
        BY <3>0
      <4>2. QED
        BY <3>0, <4>1
    <3>4. j2.todo = <<>>
      BY <3>1, <3>2, <3>3, ListIs
    <3>5. CallsOf(j2.todo) = {} /\ Len(j2.todo) <= 1
      BY <3>3, <3>4, CallsOfNone
    <3>6. QED
      BY <3>5 DEF RightCalls
  <2>3. CASE j.kind \notin DropLists
    <3>1. ASSUME NEW c \in CallsOf(Tail(j.todo)) PROVE CallRight(j2, c, R2, N2)
      <4>1. CallRight(j, c, R, N) /\ (j2.id = j.id \/ c.do \in {"replace", "copy"})
        BY <1>1, <1>3, <2>1 DEF RightCalls
      <4>2. c.do = "update" => UpdateRight(j2, c, R2, N2)
        BY <2>3, <4>1 DEF CallRight, UpdateRight
      <4>3. ASSUME c.do = "insert" PROVE InsertRight(j2, c, R2, N2)
        <5>1. c.row.kind = j.kind /\ IsRecord(c.row) /\ (j.crossed \/ Placed(c.row, R, N))
          BY <4>1, <4>3 DEF CallRight, InsertRight
        <5>2. ASSUME Placed(c.row, R, N) PROVE Placed(c.row, R2, N2)
          <6>1. c.row.side \in 0..N2 - 1 /\ ~(c.row.side >= N)
            BY <2>1, <5>2 DEF Placed, Evolves
          <6>2. QED
            BY <2>1, <5>2, <6>1 DEF Placed, Evolves
        <5>3. QED
          BY <2>3, <5>1, <5>2 DEF InsertRight
      <4>4. c.do = "replace" => ReplaceRight(j2, c)
        BY <4>1 DEF CallRight, ReplaceRight
      <4>5. QED
        BY <4>1, <4>2, <4>3, <4>4 DEF CallRight
    <3>2. QED
      BY <2>3, <3>1 DEF RightCalls
  <2>4. QED
    BY <2>2, <2>3
<1>4. QED
  BY <1>2, <1>3 DEF RightJob

\* A call of one request, for all of them.
LEMMA SoundGoesOn ==
    ASSUME IInv, SInv, NEW w \in Workers, Serves(job[w]), NEW R2, NEW N2, NEW Z2, NEW j2,
           IsSound(R2, N2), IsSound(Z2.rows, Z2.nextId),
           Evolves(rows, nextId, R2, N2) \/ job[w].op = "restore",
           j2 # Idle => RightJob(j2, R2, N2)
    PROVE  SoundInv(R2, N2, Z2, [job EXCEPT ![w] = j2])
<1>1. job = [v \in Workers |-> job[v]] /\ PairInv(job)
  BY DEF IInv, Inv
<1> DEFINE J2 == [job EXCEPT ![w] = j2]
<1>2. J2[w] = j2 /\ \A v \in Workers : v # w => J2[v] = job[v]
  BY <1>1
<1> HIDE DEF J2
<1>3. ASSUME NEW v \in Workers, v # w, job[v] # Idle
      PROVE  RightJob(job[v], R2, N2)
  <2>1. RightJob(job[v], rows, nextId)
    BY <1>3 DEF SInv, SoundInv
  <2>2. CASE job[v].todo = <<>>
    BY <2>2, RightDone
  <2>3. CASE job[v].todo # <<>>
    <3>1. Serves(job[v]) /\ job[w] # Idle
      BY <1>3, <2>3 DEF Serves
    <3>2. ~job[v].alone /\ (job[w].op = "restore" => job[v].crossed)
      BY <1>1, <1>3, <3>1 DEF PairInv
    <3>3. QED
      BY <2>1, <3>2, RightEvolves
  <2>4. QED
    BY <2>2, <2>3
<1>4. \A v \in Workers : J2[v] # Idle => RightJob(J2[v], R2, N2)
  BY <1>2, <1>3
<1>5. QED
  BY <1>4 DEF SoundInv, J2

\* A call that goes on with a list of calls.
LEMMA SoundGo ==
    ASSUME IInv, SInv, NEW w \in Workers, NEW do, At(w, do), NEW t, IsList(t), Go(w, t),
           IsSound(rows', nextId'), IsSound(zip'.rows, zip'.nextId),
           \A c \in CallsOf(t) :
              \/ c \in CallsOf(Tail(job[w].todo))
              \/ /\ job[w].op \in Ordinary =>
                      \A j : j.op = job[w].op /\ j.kind = job[w].kind /\ j.id = job[w].id =>
                         CallRight(j, c, rows', nextId')
                 /\ c.do = "send" => IsSound(c.rows, c.nextId),
           Evolves(rows, nextId, rows', nextId') \/ job[w].op = "restore",
           job[w].op \in Ordinary => t = Tail(job[w].todo) \/ job[w].kind \notin DropLists
    PROVE  SInv'
<1> DEFINE j == job[w]
           j2 == After(job[w], t)
<1>1. Serves(j) /\ IsList(j.todo) /\ j.todo # <<>> /\ IsJob(j, served) /\ j # Idle
  BY Turn DEF Serves
<1>2. job' = [job EXCEPT ![w] = j2] /\ Continues(j, j2) /\ j2.todo = t /\ j2.id = j.id /\ j2 # Idle
  BY <1>1, Goes
<1>3. RightJob(j, rows, nextId)
  BY <1>1 DEF SInv, SoundInv
<1>4. j2.op = j.op /\ j2.kind = j.kind /\ j2.alone = j.alone /\ j2.crossed = j.crossed
  BY <1>2 DEF Continues
<1>5. RightJob(j2, rows', nextId')
  <2>1. CASE j.op \in Ordinary
    <3>1. "restore" \notin Ordinary
      BY DEF Ordinary
    <3>2. Evolves(rows, nextId, rows', nextId') /\ (t = Tail(j.todo) \/ j.kind \notin DropLists)
      BY <2>1, <3>1
    <3>3. \A c \in CallsOf(j2.todo) :
              \/ c \in CallsOf(Tail(j.todo))
              \/ CallRight(j2, c, rows', nextId') /\ (c.do = "send" => IsSound(c.rows, c.nextId))
      BY <1>2, <1>4, <2>1
    <3> HIDE DEF j, j2
    <3>4. QED
      BY <1>1, <1>2, <1>3, <1>4, <3>2, <3>3, OwnRight
  <2>2. CASE j.op \notin Ordinary
    <3>1. CallsOf(Tail(j.todo)) \subseteq CallsOf(j.todo)
      BY <1>1, CallsTail
    <3>2. \A c \in CallsOf(j2.todo) : c.do = "send" => IsSound(c.rows, c.nextId)
      BY <1>2, <1>3, <3>1 DEF RightJob
    <3>3. QED
      BY <1>4, <2>2, <3>2 DEF RightJob
  <2>3. QED
    BY <2>1, <2>2
<1>6. SoundInv(rows', nextId', zip', [job EXCEPT ![w] = j2])
  BY <1>1, <1>5, SoundGoesOn
<1>7. QED
  BY <1>2, <1>6 DEF SInv

\* A call that is not followed by others.
LEMMA SoundPop ==
    ASSUME IInv, SInv, NEW w \in Workers, NEW do, At(w, do), Pop(w),
           IsSound(rows', nextId'), IsSound(zip'.rows, zip'.nextId),
           Evolves(rows, nextId, rows', nextId') \/ job[w].op = "restore"
    PROVE  SInv'
<1>1. IsList(job[w].todo) /\ job[w].todo # <<>>
  BY Turn
<1>2. IsList(Tail(job[w].todo)) /\ Go(w, Tail(job[w].todo))
  BY <1>1, ListTail DEF Pop
<1>3. QED
  BY <1>2, SoundGo

\* A call that fails.
LEMMA SoundFail ==
    ASSUME IInv, SInv, NEW w \in Workers, NEW do, At(w, do), Fail(w),
           IsSound(rows', nextId'), UNCHANGED zip,
           Evolves(rows, nextId, rows', nextId') \/ job[w].op = "restore"
    PROVE  SInv'
<1>1. Serves(job[w])
  BY Turn
<1>2. job' = [job EXCEPT ![w] = Failed(job[w])] /\ Failed(job[w]).todo = <<>>
  BY <1>1, Fails
<1>3. RightJob(Failed(job[w]), rows', nextId')
  BY <1>2, RightDone
<1>4. IsSound(zip.rows, zip.nextId)
  BY DEF SInv, SoundInv
<1>5. SoundInv(rows', nextId', zip, [job EXCEPT ![w] = Failed(job[w])])
  BY <1>1, <1>3, <1>4, SoundGoesOn
<1>6. QED
  BY <1>2, <1>5 DEF SInv

\* Nothing at all evolves.
LEMMA StaysSound ==
    ASSUME SInv
    PROVE  /\ IsSound(rows, nextId) /\ IsSound(zip.rows, zip.nextId)
           /\ Evolves(rows, nextId, rows, nextId)
<1>1. IsSound(rows, nextId) /\ IsSound(zip.rows, zip.nextId)
  BY DEF SInv, SoundInv
<1>2. nextId \in Nat
  BY <1>1, SoundIs
<1>3. QED
  BY <1>1, <1>2 DEF Evolves

-----------------------------------------------------------------------------
(* Calls that write no row.                                                *)

\* Lists of calls that write nothing in a row.
EasyDos == {"delete", "open", "list", "count", "remove", "refuse", "store"}
Easy(X) == IsList(X) /\ \A c \in CallsOf(X) : c.do \in EasyDos

LEMMA EasyRight ==
    ASSUME NEW c, c.do \in EasyDos, NEW j, NEW R, NEW N
    PROVE  CallRight(j, c, R, N) /\ c.do # "send"
BY DEF EasyDos, CallRight

LEMMA EasyNone == Easy(<<>>)
BY ListNone, CallsOfNone DEF Easy

LEMMA EasyOne ==
    ASSUME NEW c, c.do \in EasyDos
    PROVE  Easy(<<c>>)
BY CallsOfOne DEF Easy

LEMMA EasyConcat ==
    ASSUME NEW X, NEW Y, Easy(X), Easy(Y)
    PROVE  Easy(X \o Y)
<1>1. IsList(X) /\ IsList(Y)
  BY DEF Easy
<1> DEFINE u == X \o Y
<1>2. IsList(u) /\ CallsOf(u) = CallsOf(X) \union CallsOf(Y)
  BY <1>1, CallsJoined
<1> HIDE DEF u
<1>3. Easy(u)
  BY <1>2 DEF Easy
<1>4. QED
  BY <1>3 DEF u

LEMMA EasyEach ==
    ASSUME NEW do \in {"count", "list", "open"}, NEW S
    PROVE  Easy(ForEach(do, S))
<1> DEFINE c == [do |-> do, each |-> S]
<1>1. c.do \in EasyDos
  BY DEF EasyDos
<1> HIDE DEF c
<1>2. Easy(<<>>) /\ Easy(<<c>>)
  BY <1>1, EasyNone, EasyOne
<1>3. QED
  BY <1>2 DEF ForEach, c

LEMMA EasyDeletion ==
    ASSUME NEW kind, NEW id
    PROVE  Easy(Deletion(kind, id))
<1> DEFINE c == [do |-> "delete", kind |-> kind, id |-> id]
<1>1. c.do \in EasyDos
  BY DEF EasyDos
<1> HIDE DEF c
<1>2. Easy(<<c>>)
  BY <1>1, EasyOne
<1>3. QED
  BY <1>2 DEF Deletion, c

LEMMA EasyRemoval ==
    ASSUME NEW f
    PROVE  Easy(Removal(f))
<1> DEFINE c == [do |-> "remove", file |-> f]
<1>1. c.do \in EasyDos
  BY DEF EasyDos
<1> HIDE DEF c
<1>2. Easy(<<>>) /\ Easy(<<c>>)
  BY <1>1, EasyNone, EasyOne
<1>3. QED
  BY <1>2 DEF Removal, c

LEMMA EasyStore ==
    ASSUME NEW tree, NEW slot, NEW chosen
    PROVE  Easy(Store(tree, slot, chosen))
<1> DEFINE c == [do |-> "store", file |-> Fresh(tree, slot)]
           d == [do |-> "refuse"]
<1>1. c.do \in EasyDos /\ d.do \in EasyDos
  BY DEF EasyDos
<1> HIDE DEF c, d
<1>2. Easy(<<>>) /\ Easy(<<c>>) /\ Easy(<<d>>)
  BY <1>1, EasyNone, EasyOne
<1>3. QED
  BY <1>2 DEF Store, c, d

\* A call that puts such calls in front of what is left.
LEMMA SoundFront ==
    ASSUME IInv, SInv, NEW w \in Workers, NEW do, At(w, do), UNCHANGED <<rows, nextId, zip>>,
           NEW X, Easy(X), Go(w, X \o Tail(job[w].todo)), job[w].kind \notin DropLists
    PROVE  SInv'
<1> DEFINE t == X \o Tail(job[w].todo)
<1>1. IsList(job[w].todo) /\ job[w].todo # <<>>
  BY Turn
<1>2. IsList(Tail(job[w].todo)) /\ IsList(X)
  BY <1>1, ListTail DEF Easy
<1>3. IsList(t) /\ CallsOf(t) = CallsOf(X) \union CallsOf(Tail(job[w].todo))
  BY <1>2, CallsJoined
<1>4. \A c \in CallsOf(X) : (\A j, R, N : CallRight(j, c, R, N)) /\ c.do # "send"
  BY EasyRight DEF Easy
<1>5. IsSound(rows', nextId') /\ IsSound(zip'.rows, zip'.nextId) /\ Evolves(rows, nextId, rows', nextId')
  BY StaysSound
<1>6. Go(w, t)
  OBVIOUS
<1> HIDE DEF t
<1>7. QED
  BY <1>3, <1>4, <1>5, <1>6, SoundGo

LEMMA CatalogueIsNoList ==
    ASSUME NEW kind \in CatalogueKinds
    PROVE  kind \notin DropLists
BY KindsAre DEF CatalogueKinds

LEMMA ListProductsSound ==
    ASSUME IInv, SInv, NEW w \in Workers, ListProducts(w), UNCHANGED <<zip, snapshot>>
    PROVE  SInv'
<1>1. At(w, "list") /\ UNCHANGED <<rows, nextId, zip>>
  BY DEF ListProducts
<1>2. job[w].kind \notin DropLists
  BY <1>1, CatalogueTurn, CatalogueIsNoList
<1>3. PICK c \in NextCall(w).each :
          Go(w, ForEach("open", {p \in Products : rows[p].up = c})
                    \o ForEach("list", NextCall(w).each \ {c}) \o Tail(job[w].todo))
  BY DEF ListProducts
<1> DEFINE A == {p \in Products : rows[p].up = c}
           X == ForEach("open", A) \o ForEach("list", NextCall(w).each \ {c})
<1>4. Easy(X)
  <2> HIDE DEF A
  <2>1. QED
    BY EasyEach, EasyConcat
<1>5. Go(w, X \o Tail(job[w].todo))
  BY <1>3
<1> HIDE DEF X
<1>6. QED
  BY <1>1, <1>2, <1>4, <1>5, SoundFront

LEMMA OpenProductSound ==
    ASSUME IInv, SInv, NEW w \in Workers, OpenProduct(w), UNCHANGED <<zip, snapshot>>
    PROVE  SInv'
<1>1. At(w, "open") /\ UNCHANGED <<rows, nextId, zip>>
  BY DEF OpenProduct
<1>2. job[w].kind \notin DropLists
  BY <1>1, CatalogueTurn, CatalogueIsNoList
<1>3. PICK p \in NextCall(w).each :
            IF p \notin Products THEN Fail(w)
            ELSE Go(w, Deletion("product", p) \o Unlinks(ImagesOf({d \in Designs : rows[d].up = p}))
                           \o ForEach("open", NextCall(w).each \ {p}) \o Tail(job[w].todo))
  BY DEF OpenProduct
<1>4. CASE p \notin Products
  <2>1. IsSound(rows', nextId') /\ Evolves(rows, nextId, rows', nextId')
    BY <1>1, StaysSound
  <2>2. QED
    BY <1>1, <1>3, <1>4, <2>1, SoundFail
<1>5. CASE p \in Products
  <2> DEFINE I == ImagesOf({d \in Designs : rows[d].up = p})
             X == Deletion("product", p) \o Unlinks(I) \o ForEach("open", NextCall(w).each \ {p})
  <2>1. Easy(X)
    <3> HIDE DEF I
    <3>1. Easy(Unlinks(I))
      BY EasyEach DEF Unlinks
    <3>2. QED
      BY <3>1, EasyEach, EasyConcat, EasyDeletion
  <2>2. Go(w, X \o Tail(job[w].todo))
    BY <1>3, <1>5
  <2> HIDE DEF X
  <2>3. QED
    BY <1>1, <1>2, <2>1, <2>2, SoundFront
<1>6. QED
  BY <1>4, <1>5

LEMMA CountSound ==
    ASSUME IInv, SInv, NEW w \in Workers, Count(w), UNCHANGED <<zip, snapshot>>
    PROVE  SInv'
<1>1. At(w, "count") /\ UNCHANGED <<rows, nextId, zip>>
  BY DEF Count
<1>2. job[w].kind \notin DropLists
  BY <1>1, CatalogueTurn, CatalogueIsNoList
<1>3. PICK file \in NextCall(w).each :
          Go(w, (IF References(file) = {} THEN Removal(file) ELSE <<>>)
                    \o ForEach("count", NextCall(w).each \ {file}) \o Tail(job[w].todo))
  BY DEF Count
<1> DEFINE A == IF References(file) = {} THEN Removal(file) ELSE <<>>
           X == A \o ForEach("count", NextCall(w).each \ {file})
<1>4. Easy(A)
  BY EasyRemoval, EasyNone
<1>5. Go(w, X \o Tail(job[w].todo))
  BY <1>3
<1> HIDE DEF A
<1>6. Easy(X)
  BY <1>4, EasyEach, EasyConcat
<1> HIDE DEF X
<1>7. QED
  BY <1>1, <1>2, <1>5, <1>6, SoundFront

\* The packing types of a product, as they are written.
LEMMA PalletsCall ==
    ASSUME NEW id, NEW with, NEW level
    PROVE  \E c : /\ Pallets(id, with, level) = <<c>> /\ c.do = "replace" /\ c.id = id /\ c.part = 2
                  /\ c.with = with /\ c.text = level
<1> DEFINE c == [do |-> "replace", id |-> id, part |-> 2, with |-> with, text |-> level]
<1>1. c.do = "replace" /\ c.id = id /\ c.part = 2 /\ c.with = with /\ c.text = level
  OBVIOUS
<1>2. Pallets(id, with, level) = <<c>>
  BY DEF Pallets
<1> HIDE DEF c
<1>3. QED
  BY <1>1, <1>2
LEMMA PalletsRight ==
    ASSUME NEW id, NEW with, NEW level, level # AsIs, with = None => level = "", NEW j, j.kind = "product",
           NEW R, NEW N
    PROVE  /\ IsList(Pallets(id, with, level))
           /\ \A c \in CallsOf(Pallets(id, with, level)) : CallRight(j, c, R, N) /\ c.do # "send"
<1> DEFINE c == [do |-> "replace", id |-> id, part |-> 2, with |-> with, text |-> level]
<1>1. /\ Pallets(id, with, level) = <<c>> /\ c.do = "replace" /\ c.id = id /\ c.part = 2
      /\ c.with = with /\ c.text = level
  BY DEF Pallets
<1> HIDE DEF c
<1>2. IsList(<<c>>) /\ CallsOf(<<c>>) = {c}
  BY CallsOfOne
<1>3. CallRight(j, c, R, N) /\ c.do # "send"
  BY <1>1 DEF CallRight, ReplaceRight
<1>4. QED
  BY <1>1, <1>2, <1>3

LEMMA CopyPalletsSound ==
    ASSUME IInv, SInv, NEW w \in Workers, CopyPallets(w), UNCHANGED <<zip, snapshot>>
    PROVE  SInv'
<1> DEFINE p == NextCall(w).product
           X == IF p \notin Products \/ rows[p].parts[2] = None THEN <<>>
                ELSE Pallets(None, rows[p].parts[2], rows[p].text)
           s == job[w].todo
           t == X \o Tail(s)
<1>1. At(w, "copy") /\ Go(w, t) /\ UNCHANGED <<rows, nextId, zip>>
  BY DEF CopyPallets
<1>2. IsList(s) /\ s # <<>> /\ NextCall(w) = s[1] /\ s[1].do = "copy" /\ Serves(job[w])
  BY <1>1, Turn
<1>3. job[w].op \in Ordinary
  <2>1. "copy" \in Dos \ {"refuse"}
    BY DEF Dos
  <2>2. QED
    BY <1>1, <2>1, OrdinaryTurn
<1>4. job[w].kind = "product"
  <2>1. s[1] \in CallsOf(s) /\ RightJob(job[w], rows, nextId)
    BY <1>2, CallsTail DEF SInv, SoundInv, Serves
  <2>2. QED
    BY <1>2, <1>3, <2>1 DEF RightJob, RightCalls, CallRight
<1>5. IsSound(rows', nextId') /\ IsSound(zip'.rows, zip'.nextId) /\ Evolves(rows, nextId, rows', nextId')
  BY <1>1, StaysSound
<1>6. IsList(X) /\ \A c \in CallsOf(X) : /\ \A j, R, N : j.kind = "product" => CallRight(j, c, R, N)
                                         /\ c.do # "send"
  <2>1. CASE p \notin Products \/ rows[p].parts[2] = None
    BY <2>1, ListNone, CallsOfNone
  <2>2. CASE ~(p \notin Products \/ rows[p].parts[2] = None)
    <3>1. p \in DOMAIN rows /\ rows[p].kind = "product" /\ rows[p].parts[2] # None
      BY <2>2 DEF Products, OfKind
    <3>2. rows[p].text # AsIs
      BY <3>1, StaysSound, SoundIs DEF IsRecord
    <3> DEFINE with == rows[p].parts[2]
               level == rows[p].text
    <3>3. X = Pallets(None, with, level)
      BY <2>2
    <3>4. with # None /\ level # AsIs
      BY <3>1, <3>2
    <3> HIDE DEF X, with, level
    <3>5. IsList(X)
      BY <3>3, PalletsCall, ListOne
    <3>6. ASSUME NEW c \in CallsOf(X), NEW j, j.kind = "product", NEW R, NEW N
          PROVE  CallRight(j, c, R, N) /\ c.do # "send"
      BY <3>3, <3>4, <3>6, PalletsRight
    <3>7. ASSUME NEW c \in CallsOf(X) PROVE c.do # "send"
      <4>1. job[w].kind = "product"
        BY <1>4
      <4>2. QED
        BY <3>6, <4>1
    <3>8. QED
      BY <3>5, <3>6, <3>7
  <2>3. QED
    BY <2>1, <2>2
<1> HIDE DEF X
<1>7. IsList(t) /\ CallsOf(t) = CallsOf(X) \union CallsOf(Tail(s))
  BY <1>2, <1>6, ListTail, CallsJoined
<1>8. job[w].kind \notin DropLists
  BY <1>4, KindsAre
<1> HIDE DEF t
<1>9. QED
  BY <1>1, <1>4, <1>5, <1>6, <1>7, <1>8, SoundGo

\* Calls that touch neither the database nor the backup.
LEMMA QuietSound ==
    ASSUME IInv, SInv, NEW w \in Workers, NEW do, At(w, do), Pop(w) \/ Fail(w), UNCHANGED <<rows, nextId, zip>>
    PROVE  SInv'
<1>1. /\ IsSound(rows', nextId') /\ IsSound(zip'.rows, zip'.nextId)
      /\ Evolves(rows, nextId, rows', nextId')
  BY StaysSound
<1>2. QED
  BY <1>1, SoundPop, SoundFail

LEMMA FileCallsSound ==
    ASSUME IInv, SInv, NEW w \in Workers, UNCHANGED zip,
           \/ Write(w) \/ Unlink(w) \/ Refuse(w) \/ Migrate(w) \/ KeepDatabase(w) \/ KeepTree(w)
    PROVE  SInv'
BY QuietSound DEF Write, Unlink, Refuse, Migrate, KeepDatabase, KeepTree

-----------------------------------------------------------------------------
(* Calls that write rows.                                                  *)

LEMMA MyCall ==
    ASSUME IInv, SInv, NEW w \in Workers, NEW do \in Dos \ {"refuse"}, At(w, do)
    PROVE  /\ job[w].op \in Ordinary /\ job[w].op # "restore" /\ Serves(job[w]) /\ IsJob(job[w], served)
           /\ IsList(job[w].todo) /\ job[w].todo # <<>> /\ 1 \in DOMAIN job[w].todo
           /\ ListOk(job[w], job[w].todo, rows, disk) /\ CallOk(job[w], NextCall(w))
           /\ NextCall(w) = job[w].todo[1] /\ NextCall(w).do = do
           /\ RightJob(job[w], rows, nextId) /\ RightCalls(job[w], rows, nextId)
           /\ CallRight(job[w], NextCall(w), rows, nextId)
<1>1. /\ Serves(job[w]) /\ IsJob(job[w], served) /\ IsList(job[w].todo) /\ job[w].todo # <<>>
      /\ NextCall(w) = job[w].todo[1] /\ job[w].todo[1].do = do /\ 1 \in DOMAIN job[w].todo
  BY Turn
<1>2. /\ job[w].op \in Ordinary /\ ListOk(job[w], job[w].todo, rows, disk)
      /\ CallOk(job[w], job[w].todo[1])
  BY OrdinaryTurn
<1>3. job[w].op # "restore"
  BY <1>2 DEF Ordinary
<1>4. RightJob(job[w], rows, nextId)
  BY <1>1 DEF SInv, SoundInv, Serves
<1>5. RightCalls(job[w], rows, nextId)
  BY <1>2, <1>4 DEF RightJob
<1>6. job[w].todo[1] \in CallsOf(job[w].todo)
  BY <1>1, CallsTail
<1>7. CallRight(job[w], NextCall(w), rows, nextId)
  BY <1>1, <1>5, <1>6 DEF RightCalls
<1>8. QED
  BY <1>1, <1>2, <1>3, <1>4, <1>5, <1>7

\* Two names that differ in no case differ.
LEMMA NamesDiffer ==
    ASSUME NEW a, NEW b, Fold[a] # Fold[b]
    PROVE  a # b
OBVIOUS

\* The row an INSERT makes.
LEMMA InsertedRow ==
    ASSUME IInv, SInv, NEW w \in Workers, At(w, "insert"), NEW row,
           row = [NextCall(w).row EXCEPT !.odd = @ \/ Stale(w)], Admissible(row, None)
    PROVE  /\ IsRecord(row) /\ (row.odd \/ Belongs(row, rows)) /\ Distinct(row, None, rows)
           /\ LeadsTo(row.up, UpOf(row.kind), rows) /\ LeadsTo(row.side, SideOf(row.kind), rows)
<1> DEFINE j == job[w]
           old == NextCall(w).row
           stale == Stale(w)
<1>1. "insert" \in Dos \ {"refuse"}
  BY DEF Dos
<1>2. /\ IsJob(j, served) /\ CallOk(j, NextCall(w)) /\ NextCall(w).do = "insert"
      /\ CallRight(j, NextCall(w), rows, nextId)
  BY <1>1, MyCall
<1>3. /\ IsRow(old) /\ old.kind = j.kind /\ IsRecord(old) /\ (j.crossed \/ Placed(old, rows, nextId))
      /\ j.kind \in DropLists => old.text # "" /\ (j.alone => NewName(old.text, None, j.kind, rows))
  BY <1>2 DEF CallOk, CallRight, InsertRight
<1>4. stale \in BOOLEAN /\ (j.crossed => stale) /\ (~j.alone /\ j.kind \in DropLists => stale)
  BY <1>2 DEF Stale, IsJob
<1>5. row = [old EXCEPT !.odd = @ \/ stale]
  OBVIOUS
<1> HIDE DEF stale, old
<1>6. row.odd = (old.odd \/ stale)
  BY <1>3, <1>4, <1>5, OddRow
<1>7. DOMAIN row = DOMAIN old /\ \A x \in DOMAIN old \ {"odd"} : row[x] = old[x]
  BY <1>5
<1>8. DOMAIN old = {"kind", "up", "side", "files", "text", "odd", "parts"}
  BY <1>3 DEF IsRecord
<1>9. row.up = old.up /\ row.side = old.side
  BY <1>7, <1>8
<1>10. IsRecord(row) /\ row.kind = old.kind /\ row.text = old.text
  BY <1>3, <1>7, <1>8, RecordIs
<1>11. /\ Referable(row.up, UpOf(row.kind)) /\ Referable(row.side, SideOf(row.kind))
       /\ \A i \in OfKind(row.kind) \ {None} : row.text = rows[i].text => row.text = "" \/ row.kind = "product"
  BY DEF Admissible
<1>12. LeadsTo(row.up, UpOf(row.kind), rows) /\ LeadsTo(row.side, SideOf(row.kind), rows)
  BY <1>11 DEF Referable, LeadsTo
<1>13. row.odd \/ Belongs(row, rows)
  BY <1>3, <1>4, <1>6, <1>9 DEF Placed, Belongs
<1>14. Distinct(row, None, rows)
  <2> SUFFICES ASSUME row.kind \in DropLists, NEW i \in DOMAIN rows \ {None}, rows[i].kind = row.kind
               PROVE  IF row.odd \/ rows[i].odd THEN row.text # rows[i].text
                                                ELSE Fold[row.text] # Fold[rows[i].text]
    BY DEF Distinct
  <2>1. row.text # rows[i].text
    <3>1. i \in OfKind(row.kind) \ {None}
      BY DEF OfKind
    <3>2. row.text # "" /\ row.kind # "product"
      BY <1>3, <1>10, KindsAre
    <3>3. QED
      BY <1>11, <3>1, <3>2
  <2>2. CASE j.alone
    <3>1. Fold[rows[i].text] # Fold[row.text]
      BY <1>3, <1>10, <2>2 DEF NewName
    <3>2. QED
      BY <2>1, <3>1
  <2>3. CASE ~j.alone
    <3>1. row.odd
      BY <1>3, <1>4, <1>6, <1>10, <2>3
    <3>2. QED
      BY <2>1, <3>1
  <2>4. QED
    BY <2>2, <2>3
<1>15. QED
  BY <1>10, <1>12, <1>13, <1>14

LEMMA InsertSound ==
    ASSUME IInv, SInv, NEW w \in Workers, Insert(w), UNCHANGED <<zip, snapshot>>
    PROVE  SInv'
<1> DEFINE j == job[w]
           s == job[w].todo
           row == [NextCall(w).row EXCEPT !.odd = @ \/ Stale(w)]
           R2 == [i \in DOMAIN rows \union {nextId} |-> IF i = nextId THEN row ELSE rows[i]]
           t == Tail(s)
           e == IF t = <<>> THEN "ok" ELSE "no"
           j2 == With(j, nextId, t, e)
<1>1. At(w, "insert") /\ UNCHANGED <<disk, served, zip, snapshot>>
  BY DEF Insert
<1>2. "insert" \in Dos \ {"refuse"}
  BY DEF Dos
<1>3. /\ j.op \in Ordinary /\ Serves(j) /\ IsJob(j, served) /\ IsList(s) /\ s # <<>> /\ 1 \in DOMAIN s
      /\ ListOk(j, s, rows, disk) /\ s[1].do = "insert" /\ RightJob(j, rows, nextId)
  BY <1>1, <1>2, MyCall
<1>4. /\ IsSound(rows, nextId) /\ IsSound(zip.rows, zip.nextId)
      /\ Evolves(rows, nextId, rows, nextId)
  BY StaysSound
<1>5. CASE ~Admissible(row, None)
  <2>1. Fail(w) /\ UNCHANGED <<rows, nextId, zip>>
    BY <1>5 DEF Insert
  <2>2. QED
    BY <1>1, <1>2, <2>1, QuietSound
<1>6. CASE Admissible(row, None)
  <2>1. /\ rows' = R2 /\ nextId' = nextId + 1
        /\ job' = [job EXCEPT ![w].id = nextId, ![w].todo = t, ![w].end = e]
    BY <1>6 DEF Insert
  <2>2. /\ IsRecord(row) /\ (row.odd \/ Belongs(row, rows)) /\ Distinct(row, None, rows)
        /\ LeadsTo(row.up, UpOf(row.kind), rows) /\ LeadsTo(row.side, SideOf(row.kind), rows)
    BY <1>1, <1>6, InsertedRow
  <2>3. IsSound(R2, nextId + 1) /\ Evolves(rows, nextId, R2, nextId + 1)
    <3> HIDE DEF row
    <3>1. QED
      BY <1>4, <2>2, Added
  <2> HIDE DEF row, R2
  <2>4. IsList(t) /\ \A c \in CallsOf(t) : c.do \in {"replace", "copy"}
    <3>1. IsList(t) /\ \A p \in DOMAIN t : p + 1 \in DOMAIN s /\ t[p] = s[p + 1]
      BY <1>3, ListTail
    <3>2. InsertOk(j, s, 1, disk)
      BY <1>3 DEF ListOk
    <3>3. \A p \in DOMAIN t : p + 1 > 1
      BY <3>1, ListPlaces
    <3>4. \A p \in DOMAIN t : t[p].do \in {"replace", "copy"}
      BY <3>1, <3>2, <3>3 DEF InsertOk
    <3>5. QED
      BY <3>1, <3>4 DEF CallsOf
  <2>5. /\ job' = [job EXCEPT ![w] = j2] /\ Continues(j, j2) /\ j2 # Idle /\ j2.todo = t
    <3>1. job = [v \in Workers |-> job[v]] /\ e \in {"no", "ok", "failed"} /\ (e = "no" <=> t # <<>>)
      BY DEF IInv, Inv
    <3>2. job' = Inserted(job, w, nextId, t, e)
      BY <2>1 DEF Inserted
    <3> HIDE DEF e, t
    <3>3. Inserted(job, w, nextId, t, e) = [job EXCEPT ![w] = With(job[w], nextId, t, e)]
      BY <3>1, GoIdIs
    <3>4. Continues(j, j2) /\ j2 # Idle /\ j2.todo = t
      BY <1>3, <2>4, <3>1, WithIs
    <3>5. QED
      BY <3>2, <3>3, <3>4
  <2> HIDE DEF j2
  <2>6. j2.op = j.op /\ j2.kind = j.kind /\ j2.alone = j.alone /\ j2.crossed = j.crossed
    BY <2>5 DEF Continues
  <2>7. RightJob(j2, R2, nextId + 1)
    <3>1. \A c \in CallsOf(j2.todo) : c \in CallsOf(Tail(j.todo))
      BY <2>5
    <3>2. \A c \in CallsOf(Tail(j.todo)) : c.do \in {"replace", "copy"}
      BY <2>4
    <3>3. j2.todo = Tail(j.todo)
      BY <2>5
    <3>4. RightJob(j, rows, nextId) /\ IsList(j.todo) /\ j.todo # <<>>
      BY <1>3
    <3> HIDE DEF j, t, s
    <3>5. QED
      BY <2>3, <2>6, <3>1, <3>2, <3>3, <3>4, OwnRight
  <2>8. SoundInv(R2, nextId + 1, zip, [job EXCEPT ![w] = j2])
    BY <1>3, <1>4, <2>3, <2>7, SoundGoesOn
  <2>9. QED
    BY <1>1, <2>1, <2>5, <2>8 DEF SInv
<1>7. QED
  BY <1>5, <1>6

\* A list with one entry written stays a list of its length.
LEMMA PartsAre ==
    ASSUME NEW n, NEW parts, parts = [k \in 1..n |-> parts[k]], NEW m, NEW x,
           NEW parts2, parts2 = [parts EXCEPT ![m] = x]
    PROVE  /\ parts2 = [k \in 1..n |-> parts2[k]] /\ \A k \in 1..n : k # m => parts2[k] = parts[k]
           /\ m \in 1..n => parts2[m] = x
<1>1. DOMAIN parts = 1..n
  OBVIOUS
<1>2. parts2 = [k \in 1..n |-> IF k = m THEN x ELSE parts[k]]
  BY <1>1
<1>3. QED
  BY <1>2

\* The row an UPDATE makes, column by column.
LEMMA UpdatedRecord ==
    ASSUME NEW row, IsRow(row), IsRecord(row), NEW c, NEW form, NEW stale \in BOOLEAN, CallFits(c, row.kind),
           row.kind = "product" => c.text = AsIs,
           NEW row2, row2 = Updated(row, c, form, stale)
    PROVE  /\ IsRecord(row2) /\ row2.kind = row.kind /\ row2.side = row.side /\ row2.odd = (row.odd \/ stale)
           /\ row2.up = (IF c.up = Same THEN row.up ELSE c.up)
           /\ row2.text = (IF c.text = AsIs THEN row.text ELSE c.text)
           /\ \A k \in DOMAIN row.parts : k # 1 => row2.parts[k] = row.parts[k]
           /\ row2.parts[1] = (IF c.head THEN form ELSE row.parts[1]) /\ DOMAIN row2.parts = DOMAIN row.parts
           /\ \A k \in DOMAIN row.files : row2.files[k] = IF c.files[k] = Keep THEN row.files[k] ELSE c.files[k]
           /\ DOMAIN row2.files = DOMAIN row.files
<1> DEFINE n == ListsOf(row.kind) + 1
           files2 == [k \in DOMAIN row.files |-> IF c.files[k] = Keep THEN row.files[k] ELSE c.files[k]]
           head == IF c.head THEN form ELSE row.parts[1]
           parts2 == [row.parts EXCEPT ![1] = head]
<1>1. /\ row = [field \in DOMAIN row |-> row[field]]
      /\ DOMAIN row = {"kind", "up", "side", "files", "text", "odd", "parts"}
      /\ row.odd \in BOOLEAN /\ row.parts = [k \in 1..n |-> row.parts[k]]
      /\ row.files = [k \in 1..Columns(row.kind) |-> row.files[k]]
      /\ row.kind = "product" => row.text # AsIs /\ (row.parts[2] = None => row.text = "")
  BY DEF IsRow, IsRecord
<1>2. 1 \in 1..n
  BY DEF ListsOf
<1> DEFINE r1 == [row EXCEPT !.up = IF c.up = Same THEN @ ELSE c.up]
           r2 == [r1 EXCEPT !.text = IF c.text = AsIs THEN @ ELSE c.text]
           r3 == [r2 EXCEPT !.files = [k \in DOMAIN @ |-> IF c.files[k] = Keep THEN @[k] ELSE c.files[k]]]
           r4 == [r3 EXCEPT !.parts[1] = IF c.head THEN form ELSE @]
           r5 == [r4 EXCEPT !.odd = @ \/ stale]
<1>3. row2 = r5
  BY DEF Updated
<1>4. /\ DOMAIN r1 = DOMAIN row /\ r1.up = (IF c.up = Same THEN row.up ELSE c.up)
      /\ r1.kind = row.kind /\ r1.side = row.side /\ r1.files = row.files /\ r1.text = row.text
      /\ r1.odd = row.odd /\ r1.parts = row.parts
  BY <1>1
<1> HIDE DEF r1
<1>5. /\ DOMAIN r2 = DOMAIN row /\ r2.text = (IF c.text = AsIs THEN row.text ELSE c.text)
      /\ r2.kind = row.kind /\ r2.side = row.side /\ r2.files = row.files /\ r2.up = r1.up
      /\ r2.odd = row.odd /\ r2.parts = row.parts
  BY <1>1, <1>4
<1> HIDE DEF r2
<1>6. /\ DOMAIN r3 = DOMAIN row /\ r3.files = files2
      /\ r3.kind = row.kind /\ r3.side = row.side /\ r3.text = r2.text /\ r3.up = r1.up
      /\ r3.odd = row.odd /\ r3.parts = row.parts
  BY <1>1, <1>5
<1> HIDE DEF r3, files2
<1>7. /\ DOMAIN r4 = DOMAIN row /\ r4.files = files2
      /\ r4.kind = row.kind /\ r4.side = row.side /\ r4.text = r2.text /\ r4.up = r1.up
      /\ r4.odd = row.odd
  BY <1>1, <1>6
<1>8. r4.parts = parts2
  BY <1>1, <1>6
<1> HIDE DEF r4, parts2, head
<1>9. /\ DOMAIN r5 = DOMAIN row /\ r5.files = files2 /\ r5.parts = parts2
      /\ r5.kind = row.kind /\ r5.side = row.side /\ r5.text = r2.text /\ r5.up = r1.up
  BY <1>1, <1>7, <1>8
<1>10. r5.odd = (r4.odd \/ stale)
  BY <1>1, <1>7
<1> HIDE DEF r5
<1>11. /\ parts2 = [k \in 1..n |-> parts2[k]] /\ \A k \in 1..n : k # 1 => parts2[k] = row.parts[k]
       /\ parts2[1] = head
  BY <1>1, <1>2, PartsAre DEF parts2
<1>12. DOMAIN parts2 = 1..n /\ DOMAIN row.parts = 1..n
  BY <1>1, <1>11
<1> HIDE DEF n
<1>13. files2 = [k \in 1..Columns(row.kind) |-> files2[k]] /\ DOMAIN files2 = DOMAIN row.files
       /\ \A k \in DOMAIN row.files : files2[k] = IF c.files[k] = Keep THEN row.files[k] ELSE c.files[k]
  <2>1. DOMAIN row.files = 1..Columns(row.kind)
    BY <1>1
  <2>2. QED
    BY <2>1 DEF files2
<1>14. r5.odd = (row.odd \/ stale)
  BY <1>1, <1>7, <1>10
<1>15. r5.text = (IF c.text = AsIs THEN row.text ELSE c.text) /\ r5.up = (IF c.up = Same THEN row.up ELSE c.up)
  BY <1>4, <1>5, <1>9
<1>16. ASSUME r5.kind = "product"
       PROVE  r5.text # AsIs /\ (r5.parts[2] = None => r5.text = "")
  <2>1. 2 \in 1..n
    BY <1>9, <1>16 DEF n, ListsOf
  <2>2. parts2[2] = row.parts[2]
    BY <1>11, <2>1 DEF n
  <2>3. QED
    BY <1>1, <1>9, <1>15, <1>16, <2>2
<1>17. r5.files = [k \in 1..Columns(r5.kind) |-> r5.files[k]]
  BY <1>9, <1>13
<1>18. r5.parts = [k \in 1..ListsOf(r5.kind) + 1 |-> r5.parts[k]]
  BY <1>9, <1>11 DEF n
<1>19. IsRecord(r5)
  BY <1>1, <1>9, <1>16, <1>17, <1>18 DEF IsRecord
<1>20. \A k \in DOMAIN row.parts : k # 1 => r5.parts[k] = row.parts[k]
  BY <1>9, <1>11, <1>12
<1>21. r5.parts[1] = (IF c.head THEN form ELSE row.parts[1])
  BY <1>9, <1>11 DEF head
<1>22. QED
  BY <1>3, <1>9, <1>12, <1>13, <1>14, <1>15, <1>19, <1>20, <1>21

\* The row an UPDATE finds.
LEMMA UpdateFinds ==
    ASSUME IInv, SInv, NEW w \in Workers, At(w, "update"), Found(w), NEW row,
           row = Updated(rows[About(w)], NextCall(w), job[w].form, Stale(w))
    PROVE  /\ About(w) = job[w].id /\ job[w].id \in DOMAIN rows /\ rows[job[w].id].kind = job[w].kind
           /\ CallFits(NextCall(w), job[w].kind) /\ IsRow(rows[job[w].id]) /\ IsRecord(rows[job[w].id])
           /\ Stale(w) \in BOOLEAN /\ (job[w].kind = "product" => NextCall(w).text = AsIs)
<1> DEFINE j == job[w]
           c == NextCall(w)
<1>1. "update" \in Dos \ {"refuse"}
  BY DEF Dos
<1>2. /\ IsJob(j, served) /\ CallOk(j, c) /\ c.do = "update" /\ c = j.todo[1] /\ CallRight(j, c, rows, nextId)
  BY <1>1, MyCall
<1>3. /\ About(w) = j.id /\ j.id \in DOMAIN rows /\ rows[j.id].kind = j.kind
  BY UpdateRowIs
<1>4. CallFits(c, j.kind)
  BY <1>2 DEF CallOk, CallFits
<1>5. IsRow(rows[j.id]) /\ IsRecord(rows[j.id])
  BY <1>3, AtFirst, StaysSound, SoundIs
<1>6. Stale(w) \in BOOLEAN
  BY <1>2 DEF Stale, IsJob
<1>7. j.kind = "product" => c.text = AsIs
  BY <1>2, KindsAre DEF CallRight, UpdateRight
<1>8. QED
  BY <1>3, <1>4, <1>5, <1>6, <1>7

LEMMA UpdatedSound ==
    ASSUME IInv, SInv, NEW w \in Workers, At(w, "update"), Found(w), NEW row,
           row = Updated(rows[About(w)], NextCall(w), job[w].form, Stale(w)), Admissible(row, About(w))
    PROVE  LET R2 == [rows EXCEPT ![About(w)] = row]
           IN  IsSound(R2, nextId) /\ Evolves(rows, nextId, R2, nextId)
<1> DEFINE j == job[w]
           c == NextCall(w)
           a == job[w].id
           old == rows[job[w].id]
           stale == Stale(w)
<1>1. /\ About(w) = a /\ a \in DOMAIN rows /\ old.kind = j.kind
      /\ CallFits(c, j.kind) /\ IsRow(old) /\ IsRecord(old)
      /\ stale \in BOOLEAN /\ (j.kind = "product" => c.text = AsIs)
  BY UpdateFinds
<1>2. "update" \in Dos \ {"refuse"}
  BY DEF Dos
<1>3. /\ IsJob(j, served) /\ UpdateRight(j, c, rows, nextId)
  <2>1. IsJob(j, served) /\ c.do = "update" /\ CallRight(j, c, rows, nextId)
    BY <1>2, MyCall
  <2>2. QED
    BY <2>1 DEF CallRight
<1>4. row = Updated(old, c, j.form, stale)
  BY <1>1
<1>5. ~j.alone /\ j.kind \in DropLists => stale
  BY DEF Stale
<1> HIDE DEF old, stale
<1>6. /\ IsRecord(row) /\ row.kind = old.kind /\ row.side = old.side /\ row.odd = (old.odd \/ stale)
      /\ row.up = (IF c.up = Same THEN old.up ELSE c.up)
      /\ row.text = (IF c.text = AsIs THEN old.text ELSE c.text)
  BY <1>1, <1>4, UpdatedRecord
<1>7. /\ Referable(row.up, UpOf(row.kind))
      /\ \A i \in OfKind(row.kind) \ {a} : row.text = rows[i].text => row.text = "" \/ row.kind = "product"
  BY <1>1 DEF Admissible
<1>8. LeadsTo(row.up, UpOf(row.kind), rows)
  BY <1>7 DEF Referable, LeadsTo
<1>9. row.up = old.up \/ row.kind = "product"
  BY <1>1, <1>3, <1>6 DEF UpdateRight
<1>10. IsSound(rows, nextId)
  BY StaysSound
<1>11. Distinct(row, a, rows)
  <2> SUFFICES ASSUME row.kind \in DropLists, NEW i \in DOMAIN rows \ {a}, rows[i].kind = row.kind
               PROVE  IF row.odd \/ rows[i].odd THEN row.text # rows[i].text
                                                ELSE Fold[row.text] # Fold[rows[i].text]
    BY DEF Distinct
  <2>1. CASE c.text = AsIs
    <3>1. IF old.odd \/ rows[i].odd THEN old.text # rows[i].text
                                    ELSE Fold[old.text] # Fold[rows[i].text]
      BY <1>1, <1>6, <1>10, SoundIs DEF Differ, old
    <3>2. old.text # rows[i].text /\ row.text = old.text
      BY <1>6, <2>1, <3>1
    <3>3. QED
      BY <1>6, <3>1, <3>2
  <2>2. CASE c.text # AsIs
    <3>1. row.text # "" /\ row.kind # "product" /\ row.text = c.text
      BY <1>3, <1>6, <2>2, KindsAre DEF UpdateRight
    <3>2. row.text # rows[i].text
      BY <1>7, <3>1 DEF OfKind
    <3>3. CASE j.alone
      <4>1. Fold[rows[i].text] # Fold[row.text]
        BY <1>1, <1>3, <1>6, <2>2, <3>1, <3>3 DEF UpdateRight, NewName
      <4>2. QED
        BY <3>2, <4>1
    <3>4. CASE ~j.alone
      <4>1. row.odd
        BY <1>1, <1>5, <1>6, <3>4
      <4>2. QED
        BY <3>2, <4>1
    <3>5. QED
      BY <3>3, <3>4
  <2>3. QED
    BY <2>1, <2>2
<1>12. /\ row.kind = rows[a].kind /\ row.side = rows[a].side /\ (rows[a].odd => row.odd)
       /\ row.up = rows[a].up \/ row.kind = "product"
  BY <1>6, <1>9 DEF old
<1> HIDE DEF a
<1>13. LET R2 == [rows EXCEPT ![a] = row]
       IN  IsSound(R2, nextId) /\ Evolves(rows, nextId, R2, nextId)
  BY <1>1, <1>6, <1>8, <1>10, <1>11, <1>12, Changed
<1>14. QED
  BY <1>1, <1>13

LEMMA UpdateSound ==
    ASSUME IInv, SInv, NEW w \in Workers, Update(w), UNCHANGED <<zip, snapshot>>
    PROVE  SInv'
<1> DEFINE row == Updated(rows[About(w)], NextCall(w), job[w].form, Stale(w))
           R2 == [rows EXCEPT ![About(w)] = row]
<1>1. At(w, "update") /\ UNCHANGED <<nextId, zip>>
  BY DEF Update
<1>2. CASE ~Found(w) \/ ~Admissible(row, About(w))
  <2>1. (Pop(w) \/ Fail(w)) /\ UNCHANGED rows
    BY <1>2 DEF Update
  <2>2. QED
    BY <1>1, <2>1, QuietSound
<1>3. CASE Found(w) /\ Admissible(row, About(w))
  <2>1. Pop(w) /\ rows' = R2
    BY <1>3 DEF Update
  <2>2. IsSound(R2, nextId) /\ Evolves(rows, nextId, R2, nextId)
    BY <1>1, <1>3, UpdatedSound
  <2> HIDE DEF R2
  <2>3. QED
    BY <1>1, <2>1, <2>2, SoundPop, StaysSound
<1>4. QED
  BY <1>2, <1>3

\* A row whose list is written again.
Replaced(row, c) ==
    [[row EXCEPT !.parts = [row.parts EXCEPT ![c.part] = c.with]]
         EXCEPT !.text = IF c.text = AsIs THEN @ ELSE c.text]
LEMMA ReplacedRecord ==
    ASSUME NEW row, IsRecord(row), NEW c, NEW j, j.kind = row.kind, ReplaceRight(j, c),
           NEW row2, row2 = Replaced(row, c)
    PROVE  /\ IsRecord(row2) /\ row2.kind = row.kind /\ row2.side = row.side /\ row2.odd = row.odd
           /\ row2.up = row.up /\ row2.files = row.files /\ row2.text = (IF c.text = AsIs THEN row.text ELSE c.text)
           /\ DOMAIN row2.parts = DOMAIN row.parts
           /\ \A k \in DOMAIN row.parts : row2.parts[k] = IF k = c.part THEN c.with ELSE row.parts[k]
<1> DEFINE n == ListsOf(row.kind) + 1
           m == c.part
           with == c.with
           text == c.text
           parts2 == [row.parts EXCEPT ![m] = with]
           row1 == [row EXCEPT !.parts = [row.parts EXCEPT ![m] = with]]
           row3 == [row1 EXCEPT !.text = IF text = AsIs THEN @ ELSE text]
<1>0. /\ row2 = row3
      /\ IF row.kind = "product" THEN m = 2 /\ text # AsIs /\ (with = None => text = "") ELSE text = AsIs
  BY DEF Replaced, ReplaceRight
<1> HIDE DEF m, with, text
<1>1. /\ DOMAIN row = {"kind", "up", "side", "files", "text", "odd", "parts"}
      /\ row.parts = [k \in 1..n |-> row.parts[k]]
      /\ row.files = [k \in 1..Columns(row.kind) |-> row.files[k]]
  BY DEF IsRecord
<1>2. /\ parts2 = [k \in 1..n |-> parts2[k]] /\ \A k \in 1..n : k # m => parts2[k] = row.parts[k]
      /\ m \in 1..n => parts2[m] = with
  BY <1>1, PartsAre
<1>3. DOMAIN parts2 = 1..n /\ DOMAIN row.parts = 1..n
  BY <1>1, <1>2
<1>4. row1 = [row EXCEPT !.parts = parts2]
  BY DEF parts2
<1> HIDE DEF parts2, n, row1
<1>5. /\ DOMAIN row1 = DOMAIN row /\ row1.parts = parts2 /\ row1.kind = row.kind /\ row1.up = row.up
      /\ row1.side = row.side /\ row1.files = row.files /\ row1.odd = row.odd /\ row1.text = row.text
  BY <1>1, <1>4
<1>6. /\ DOMAIN row3 = DOMAIN row /\ row3.parts = parts2 /\ row3.kind = row.kind /\ row3.up = row.up
      /\ row3.side = row.side /\ row3.files = row.files /\ row3.odd = row.odd
      /\ row3.text = (IF text = AsIs THEN row.text ELSE text)
  BY <1>1, <1>5
<1> HIDE DEF row3
<1>7. \A k \in DOMAIN row.parts : row3.parts[k] = IF k = m THEN with ELSE row.parts[k]
  BY <1>2, <1>3, <1>6
<1>8. ASSUME row3.kind = "product"
      PROVE  row3.text # AsIs /\ (row3.parts[2] = None => row3.text = "")
  <2>1. row.kind = "product" /\ m = 2 /\ text # AsIs /\ (with = None => text = "")
    BY <1>0, <1>6, <1>8
  <2>2. 2 \in DOMAIN row.parts
    <3>0. row.kind = "product" /\ ListsOf("product") = 1
      BY <2>1 DEF ListsOf
    <3>1. 2 \in 1..n
      BY <3>0 DEF n
    <3>2. QED
      BY <1>3, <3>1
  <2>3. row3.parts[2] = with /\ row3.text = text
    BY <1>6, <1>7, <2>1, <2>2
  <2>4. QED
    BY <2>1, <2>3
<1>9. row3.parts = [k \in 1..ListsOf(row3.kind) + 1 |-> row3.parts[k]]
  BY <1>2, <1>6 DEF n
<1>10. row3.files = [k \in 1..Columns(row3.kind) |-> row3.files[k]]
  BY <1>1, <1>6
<1>11. IsRecord(row3)
  BY <1>1, <1>6, <1>8, <1>9, <1>10 DEF IsRecord
<1>12. QED
  BY <1>0, <1>3, <1>6, <1>7, <1>11 DEF m, with, text

LEMMA ReplacedIs ==
    ASSUME NEW R, R = [i \in DOMAIN R |-> R[i]], NEW a \in DOMAIN R, NEW c
    PROVE  [R EXCEPT ![a].parts[c.part] = c.with, ![a].text = IF c.text = AsIs THEN @ ELSE c.text]
              = [R EXCEPT ![a] = Replaced(R[a], c)]
<1> DEFINE R2 == [R EXCEPT ![a].parts[c.part] = c.with, ![a].text = IF c.text = AsIs THEN @ ELSE c.text]
           row1 == [R[a] EXCEPT !.parts = [R[a].parts EXCEPT ![c.part] = c.with]]
           R1 == [R EXCEPT ![a].parts[c.part] = c.with]
           row2 == [row1 EXCEPT !.text = IF c.text = AsIs THEN @ ELSE c.text]
<1>1. R1 = [i \in DOMAIN R |-> IF i = a THEN row1 ELSE R[i]]
  OBVIOUS
<1>2. R2 = [R1 EXCEPT ![a].text = IF c.text = AsIs THEN @ ELSE c.text]
  OBVIOUS
<1> HIDE DEF R1, row1
<1>3. DOMAIN R1 = DOMAIN R /\ R1[a] = row1 /\ \A i \in DOMAIN R : i # a => R1[i] = R[i]
  BY <1>1
<1>4. R2 = [i \in DOMAIN R1 |-> IF i = a THEN [R1[a] EXCEPT !.text = IF c.text = AsIs THEN @ ELSE c.text]
                                         ELSE R1[i]]
  BY <1>2, <1>3
<1>5. R2 = [i \in DOMAIN R |-> IF i = a THEN row2 ELSE R[i]]
  BY <1>3, <1>4
<1>6. row2 = Replaced(R[a], c)
  BY DEF Replaced, row1
<1>7. QED
  BY <1>5, <1>6

LEMMA ReplaceSound ==
    ASSUME IInv, SInv, NEW w \in Workers, Replace(w), UNCHANGED <<zip, snapshot>>
    PROVE  SInv'
<1> DEFINE c == NextCall(w)
           a == About(w)
           row == Replaced(rows[a], c)
           R2 == [rows EXCEPT ![a] = row]
<1>1. At(w, "replace") /\ UNCHANGED <<nextId, zip>>
  BY DEF Replace
<1>2. CASE ~Found(w)
  <2>1. (Pop(w) \/ Fail(w)) /\ UNCHANGED rows
    BY <1>2 DEF Replace
  <2>2. QED
    BY <1>1, <2>1, QuietSound
<1>3. CASE Found(w)
  <2>1. Pop(w) /\ rows' = [rows EXCEPT ![a].parts[c.part] = c.with, ![a].text = IF c.text = AsIs THEN @ ELSE c.text]
    BY <1>3 DEF Replace
  <2>2. a \in DOMAIN rows /\ rows[a].kind = job[w].kind
    BY <1>3 DEF Found, OfKind
  <2>3. /\ IsSound(rows, nextId) /\ rows = [i \in DOMAIN rows |-> rows[i]] /\ IsRecord(rows[a]) /\ Differ(rows)
        /\ LeadsTo(rows[a].up, UpOf(rows[a].kind), rows)
    BY <2>2, StaysSound, SoundIs
  <2>4. ReplaceRight(job[w], c)
    <3>1. "replace" \in Dos \ {"refuse"}
      BY DEF Dos
    <3>2. CallRight(job[w], c, rows, nextId) /\ c.do = "replace"
      BY <1>1, <3>1, MyCall
    <3>3. QED
      BY <3>2 DEF CallRight
  <2>5. row = Replaced(rows[a], c)
    OBVIOUS
  <2> HIDE DEF a, c
  <2>6. rows' = R2
    BY <2>1, <2>2, <2>3, ReplacedIs
  <2> HIDE DEF row
  <2>7. /\ IsRecord(row) /\ row.kind = rows[a].kind /\ row.side = rows[a].side /\ row.odd = rows[a].odd
        /\ row.up = rows[a].up /\ row.text = (IF c.text = AsIs THEN rows[a].text ELSE c.text)
    BY <2>2, <2>3, <2>4, <2>5, ReplacedRecord
  <2>8. Distinct(row, a, rows)
    <3>1. row.kind \in DropLists => row.text = rows[a].text
      BY <2>2, <2>4, <2>7, KindsAre DEF ReplaceRight
    <3>2. QED
      BY <2>2, <2>3, <2>7, <3>1 DEF Distinct, Differ
  <2>9. IsSound(R2, nextId) /\ Evolves(rows, nextId, R2, nextId)
    BY <2>2, <2>3, <2>7, <2>8, Changed
  <2> HIDE DEF R2
  <2>10. QED
    BY <1>1, <2>1, <2>6, <2>9, SoundPop, StaysSound
<1>4. QED
  BY <1>2, <1>3

LEMMA DeleteSound ==
    ASSUME IInv, SInv, NEW w \in Workers, Delete(w), UNCHANGED <<zip, snapshot>>
    PROVE  SInv'
<1> DEFINE id == NextCall(w).id
           gone == IF id \in OfKind(NextCall(w).kind) THEN Cascade(id) ELSE {}
           R2 == [i \in DOMAIN rows \ gone |-> rows[i]]
<1>1. At(w, "delete") /\ UNCHANGED <<nextId, zip>> /\ Pop(w) /\ rows' = R2
  BY DEF Delete
<1>2. IsSound(rows, nextId) /\ IsFiniteSet(DOMAIN rows)
  BY StaysSound, SoundIs
<1>3. \A i \in DOMAIN rows : rows[i].up \in gone \/ rows[i].side \in gone => i \in gone
  <2>1. CASE id \in OfKind(NextCall(w).kind)
    <3>1. gone = Below(id, CascadePairs(rows))
      BY <2>1 DEF Cascade, CascadePairs
    <3> HIDE DEF gone, id
    <3>2. QED
      BY <1>2, <3>1, CascadeIs
  <2>2. CASE id \notin OfKind(NextCall(w).kind)
    BY <2>2
  <2>3. QED
    BY <2>1, <2>2
<1> HIDE DEF gone
<1>4. IsSound(R2, nextId) /\ Evolves(rows, nextId, R2, nextId)
  BY <1>2, <1>3, Restricted
<1> HIDE DEF R2
<1>5. QED
  BY <1>1, <1>4, SoundPop, StaysSound

\* Rows marked odd, whatever the reason.
LEMMA OddMarked ==
    ASSUME NEW Q, IsTable(Q), NEW b, NEW R2, R2 = [i \in DOMAIN Q |-> [Q[i] EXCEPT !.odd = @ \/ b[i]]],
           \A i \in DOMAIN Q : b[i] \in BOOLEAN
    PROVE  Marked(Q, R2)
<1>1. ASSUME NEW i \in DOMAIN Q
      PROVE  /\ DOMAIN R2[i] = DOMAIN Q[i] /\ (Q[i].odd => R2[i].odd)
             /\ \A x \in DOMAIN Q[i] \ {"odd"} : R2[i][x] = Q[i][x]
  <2>1. IsRow(Q[i]) /\ b[i] \in BOOLEAN /\ R2[i] = [Q[i] EXCEPT !.odd = @ \/ b[i]]
    BY DEF IsTable
  <2>2. R2[i].odd = (Q[i].odd \/ b[i])
    BY <2>1, OddRow
  <2>3. QED
    BY <2>1, <2>2
<1>2. QED
  BY <1>1 DEF Marked

LEMMA KillSound ==
    ASSUME IInv, SInv, NEW w \in Workers, Kill(w), UNCHANGED <<zip, snapshot>>
    PROVE  SInv'
<1> DEFINE b == [i \in DOMAIN rows |->
                    job[w].op = "restore" \/ (i = job[w].id /\ job[w].kind \in RemovesFirst)]
           R2 == [i \in DOMAIN rows |-> [rows[i] EXCEPT !.odd = @ \/ b[i]]]
<1>1. /\ Serving(w) /\ job' = [job EXCEPT ![w] = Idle] /\ UNCHANGED <<nextId, zip>>
      /\ rows' = [i \in DOMAIN rows |->
                   [rows[i] EXCEPT !.odd = @ \/ job[w].op = "restore"
                                             \/ (i = job[w].id /\ job[w].kind \in RemovesFirst)]]
  BY DEF Kill
<1>2. rows' = R2
  <2>1. ASSUME NEW i \in DOMAIN rows
        PROVE  [rows[i] EXCEPT !.odd = @ \/ job[w].op = "restore"
                                          \/ (i = job[w].id /\ job[w].kind \in RemovesFirst)]
                 = [rows[i] EXCEPT !.odd = @ \/ b[i]]
    <3>1. (rows[i].odd \/ job[w].op = "restore" \/ (i = job[w].id /\ job[w].kind \in RemovesFirst))
             = (rows[i].odd \/ b[i])
      OBVIOUS
    <3>2. QED
      BY <3>1
  <2>2. QED
    BY <1>1, <2>1
<1>3. IsTable(rows) /\ \A i \in DOMAIN rows : b[i] \in BOOLEAN
  BY AtFirst
<1> HIDE DEF b
<1>4. Marked(rows, R2)
  BY <1>3, OddMarked
<1>5. Serves(job[w])
  BY <1>1, ServesJob DEF IInv, Serving
<1>6. IsSound(R2, nextId) /\ Evolves(rows, nextId, R2, nextId) /\ IsSound(zip.rows, zip.nextId)
  BY <1>4, StaysSound, MarkedSound
<1> HIDE DEF R2
<1>7. SoundInv(R2, nextId, zip, [job EXCEPT ![w] = Idle])
  BY <1>5, <1>6, SoundGoesOn
<1>8. QED
  BY <1>1, <1>2, <1>7 DEF SInv

-----------------------------------------------------------------------------
(* A backup and a restore.                                                 *)

LEMMA CopyDatabaseSound ==
    ASSUME IInv, SInv, NEW w \in Workers, CopyDatabase(w), UNCHANGED <<zip, snapshot>>
    PROVE  SInv'
<1> DEFINE d == [do |-> "send", rows |-> rows, nextId |-> nextId, files |-> {}]
           X == Each("walk")
           t == X \o <<d>>
<1>1. At(w, "copy database") /\ Go(w, t) /\ UNCHANGED <<rows, nextId, zip>>
  BY DEF CopyDatabase
<1>2. d.rows = rows /\ d.nextId = nextId
  OBVIOUS
<1> HIDE DEF d
<1>3. IsList(X) /\ \A c \in CallsOf(X) : c.do = "walk"
  BY EachIs DEF CallsOf
<1> HIDE DEF X
<1>4. IsList(<<d>>) /\ CallsOf(<<d>>) = {d}
  BY CallsOfOne
<1>5. IsList(t) /\ CallsOf(t) = CallsOf(X) \union CallsOf(<<d>>)
  BY <1>3, <1>4, CallsJoined
<1>6. /\ IsSound(rows, nextId) /\ IsSound(zip.rows, zip.nextId)
      /\ Evolves(rows, nextId, rows, nextId)
  BY StaysSound
<1>7. job[w].op \notin Ordinary
  BY <1>1, BackupTurn
<1> HIDE DEF t
<1>8. \A c \in CallsOf(t) : c.do = "send" => IsSound(c.rows, c.nextId)
  BY <1>2, <1>3, <1>4, <1>5, <1>6
<1>9. QED
  BY <1>1, <1>5, <1>6, <1>7, <1>8, SoundGo

LEMMA WalkSound ==
    ASSUME IInv, SInv, NEW w \in Workers, Walk(w), UNCHANGED <<zip, snapshot>>
    PROVE  SInv'
<1> DEFINE s == job[w].todo
           r == Tail(s)
           m == Len(r)
           F == Of(NextCall(w).tree)
           t == [r EXCEPT ![m].files = @ \union F]
<1>1. At(w, "walk") /\ Go(w, t) /\ UNCHANGED <<rows, nextId, zip>>
  BY DEF Walk
<1>2. job[w].op \notin Ordinary /\ IsList(s) /\ s # <<>> /\ Serves(job[w]) /\ Len(s) \in 1..5 /\ Len(s) # 1
  BY <1>1, BackupTurn, Turn
<1>3. IsList(r) /\ m = Len(s) - 1 /\ CallsOf(r) \subseteq CallsOf(s)
  BY <1>2, ListTail, CallsTail
<1>4. \A c \in CallsOf(s) : c.do = "send" => IsSound(c.rows, c.nextId)
  BY <1>2 DEF SInv, SoundInv, Serves, RightJob
<1>5. DOMAIN r = 1..m /\ r = [p \in DOMAIN r |-> r[p]] /\ m \in Nat
  BY <1>3, ListIs
<1>6. IsSend(s[Len(s)])
  BY <1>1, BackupTurn
<1>7. m \in DOMAIN r /\ r[m] = s[Len(s)]
  <2> HIDE DEF m, s, r
  <2>1. m \in Nat /\ m # 0 /\ m + 1 = Len(s)
    BY <1>2, <1>3
  <2>2. m \in 1..m
    BY <2>1
  <2>3. m \in DOMAIN r
    BY <1>5, <2>2
  <2>4. r[m] = s[m + 1]
    BY <1>2, <2>3, ListTail DEF r
  <2>5. QED
    BY <2>1, <2>3, <2>4
<1> DEFINE a == r[m]
<1>8. IsSend(a) /\ a \in CallsOf(r)
  BY <1>6, <1>7 DEF CallsOf
<1> HIDE DEF r, m, F, s, a
<1>9. /\ DOMAIN t = DOMAIN r /\ t = [p \in DOMAIN t |-> t[p]]
      /\ t[m] = [a EXCEPT !.files = @ \union F] /\ \A p \in DOMAIN r : p # m => t[p] = r[p]
  BY <1>5, <1>7 DEF a
<1>10. IsList(t)
  BY <1>3, <1>7, <1>9, ListChange
<1>11. t[m].do = a.do /\ t[m].rows = a.rows /\ t[m].nextId = a.nextId
  <2>1. a = [do |-> "send", rows |-> a.rows, nextId |-> a.nextId, files |-> a.files]
    BY <1>8 DEF IsSend
  <2> DEFINE g == t[m]
             z == a.files \union F
  <2>2. g = [a EXCEPT !.files = z]
    BY <1>9
  <2> HIDE DEF g, z
  <2>3. g = [do |-> "send", rows |-> a.rows, nextId |-> a.nextId, files |-> z]
    BY <2>1, <2>2
  <2>4. g.do = "send" /\ g.rows = a.rows /\ g.nextId = a.nextId /\ a.do = "send"
    BY <1>8, <2>3, SendIs
  <2>5. QED
    BY <2>4 DEF g
<1>12. \A c \in CallsOf(t) : c.do = "send" => IsSound(c.rows, c.nextId)
  <2>1. ASSUME NEW p \in DOMAIN t, t[p].do = "send" PROVE IsSound(t[p].rows, t[p].nextId)
    <3>1. CASE p = m
      BY <1>3, <1>4, <1>8, <1>11, <2>1, <3>1, SendIs
    <3>2. CASE p # m
      <4>1. t[p] = r[p] /\ r[p] \in CallsOf(r)
        BY <1>9, <3>2 DEF CallsOf
      <4>2. QED
        BY <1>3, <1>4, <2>1, <4>1
    <3>3. QED
      BY <3>1, <3>2
  <2>2. QED
    BY <2>1 DEF CallsOf
<1>13. /\ IsSound(rows, nextId) /\ IsSound(zip.rows, zip.nextId)
       /\ Evolves(rows, nextId, rows, nextId)
  BY StaysSound
<1>14. Go(w, t)
  BY <1>1 DEF r, m, F, s
<1> HIDE DEF t
<1>15. QED
  BY <1>1, <1>2, <1>10, <1>12, <1>13, <1>14, SoundGo

LEMMA SendSound ==
    ASSUME IInv, SInv, NEW w \in Workers, Send(w), UNCHANGED snapshot
    PROVE  SInv'
<1> DEFINE c == NextCall(w)
<1>1. /\ At(w, "send") /\ Pop(w) /\ UNCHANGED <<rows, nextId>>
      /\ zip' = [rows |-> c.rows, nextId |-> c.nextId, files |-> c.files, whole |-> job[w].alone]
  BY DEF Send
<1>2. zip'.rows = c.rows /\ zip'.nextId = c.nextId
  <2> HIDE DEF c
  <2>1. QED
    BY <1>1
<1>3. Serves(job[w]) /\ IsList(job[w].todo) /\ job[w].todo # <<>> /\ c = job[w].todo[1] /\ c.do = "send"
  BY <1>1, Turn
<1>4. c \in CallsOf(job[w].todo)
  BY <1>3, CallsTail
<1>5. IsSound(c.rows, c.nextId)
  BY <1>3, <1>4 DEF SInv, SoundInv, Serves, RightJob
<1>6. QED
  BY <1>1, <1>2, <1>5, SoundPop, StaysSound

LEMMA SwapDatabaseSound ==
    ASSUME IInv, SInv, NEW w \in Workers, SwapDatabase(w), UNCHANGED <<zip, snapshot>>
    PROVE  SInv'
<1> DEFINE b == [i \in DOMAIN zip.rows |-> ~zip.whole \/ ~job[w].alone]
           R2 == [i \in DOMAIN zip.rows |-> [zip.rows[i] EXCEPT !.odd = @ \/ b[i]]]
<1>1. /\ At(w, "swap database") /\ Pop(w) /\ nextId' = zip.nextId /\ UNCHANGED zip
      /\ rows' = [i \in DOMAIN zip.rows |-> [zip.rows[i] EXCEPT !.odd = @ \/ ~zip.whole \/ ~job[w].alone]]
  BY DEF SwapDatabase
<1>2. rows' = R2
  <2>1. ASSUME NEW i \in DOMAIN zip.rows
        PROVE  [zip.rows[i] EXCEPT !.odd = @ \/ ~zip.whole \/ ~job[w].alone]
                 = [zip.rows[i] EXCEPT !.odd = @ \/ b[i]]
    <3>1. (zip.rows[i].odd \/ ~zip.whole \/ ~job[w].alone) = (zip.rows[i].odd \/ b[i])
      OBVIOUS
    <3>2. QED
      BY <3>1
  <2>2. QED
    BY <1>1, <2>1
<1>3. IsTable(zip.rows) /\ \A i \in DOMAIN zip.rows : b[i] \in BOOLEAN
  BY DEF IInv, Inv, DataInv
<1> HIDE DEF b
<1>4. Marked(zip.rows, R2)
  BY <1>3, OddMarked
<1>5. job[w].op = "restore"
  <2>1. "swap database" \in RestoreDos
    BY DEF RestoreDos
  <2>2. QED
    BY <1>1, <2>1, RestoreTurn
<1>6. IsSound(R2, zip.nextId) /\ IsSound(zip.rows, zip.nextId)
  BY <1>4, StaysSound, MarkedSound
<1> HIDE DEF R2
<1>7. QED
  BY <1>1, <1>2, <1>5, <1>6, SoundPop

LEMMA CopyInSound ==
    ASSUME IInv, SInv, NEW w \in Workers, CopyIn(w), UNCHANGED <<zip, snapshot>>
    PROVE  SInv'
<1> DEFINE f == (job'[w].end = "failed")
           b == [i \in DOMAIN rows |-> ~job[w].alone \/ f]
           R2 == [i \in DOMAIN rows |-> [rows[i] EXCEPT !.odd = @ \/ b[i]]]
<1>1. /\ At(w, "copy in") /\ (Pop(w) \/ Fail(w)) /\ UNCHANGED <<nextId, zip>>
      /\ rows' = [i \in DOMAIN rows |-> [rows[i] EXCEPT !.odd = @ \/ ~job[w].alone \/ f]]
  BY DEF CopyIn
<1>2. f \in BOOLEAN
  OBVIOUS
<1> HIDE DEF f
<1>3. rows' = R2
  <2>1. ASSUME NEW i \in DOMAIN rows
        PROVE  [rows[i] EXCEPT !.odd = @ \/ ~job[w].alone \/ f]
                 = [rows[i] EXCEPT !.odd = @ \/ b[i]]
    <3>1. (rows[i].odd \/ ~job[w].alone \/ f) = (rows[i].odd \/ b[i])
      OBVIOUS
    <3>2. QED
      BY <3>1
  <2>2. QED
    BY <1>1, <2>1
<1>4. IsTable(rows) /\ \A i \in DOMAIN rows : b[i] \in BOOLEAN
  BY AtFirst
<1> HIDE DEF b
<1>5. Marked(rows, R2)
  BY <1>4, OddMarked
<1>6. /\ IsSound(R2, nextId) /\ IsSound(zip.rows, zip.nextId)
      /\ Evolves(rows, nextId, R2, nextId)
  BY <1>5, StaysSound, MarkedSound
<1> HIDE DEF R2
<1>7. QED
  BY <1>1, <1>3, <1>6, SoundPop, SoundFail

LEMMA MoveAsideSound ==
    ASSUME IInv, SInv, NEW w \in Workers, MoveAside(w), UNCHANGED <<zip, snapshot>>
    PROVE  SInv'
<1> DEFINE s == job[w].todo
           n == Len(s)
           r == Tail(s)
           m == Len(r)
           F == Of(NextCall(w).tree)
           x == Noted(Head(r), F)
           q == Tail(r)
           t == <<x>> \o q
<1>1. At(w, "move aside") /\ Go(w, t) /\ UNCHANGED <<rows, nextId, zip>>
  BY DEF MoveAside, Noted
<1>2. "move aside" \in RestoreDos
  BY DEF RestoreDos
<1>3. /\ Serves(job[w]) /\ IsList(s) /\ s # <<>> /\ Follows(s) /\ n \in 1..15
      /\ Program[16 - n] = "move aside" /\ job[w].op = "restore" /\ job[w].op \notin Ordinary
  BY <1>1, <1>2, RestoreTurn
<1>4. \A c \in CallsOf(s) : c.do = "send" => IsSound(c.rows, c.nextId)
  BY <1>3 DEF SInv, SoundInv, Serves, RightJob
<1>5. IsList(r) /\ Follows(r) /\ CallsOf(r) \subseteq CallsOf(s) /\ m = n - 1 /\ m \in Nat
  BY <1>3, ListTail, TailFollows, CallsTail, ListIs
<1>6. PICK u \in 1..4 : n = 11 - 2 * u
  BY <1>3, StageAt
<1> HIDE DEF n, m
<1>7. m # 0 /\ 16 - m = 6 + 2 * u /\ 16 - m \in 1..15
  BY <1>5, <1>6
<1>8. r # <<>>
  BY <1>5, <1>7, ListNone DEF m
<1>9. /\ Head(r) = r[1] /\ IsList(q) /\ CallsOf(q) \subseteq CallsOf(r) /\ r[1] \in CallsOf(r)
  BY <1>5, <1>8, ListTail, CallsTail
<1>10. InProgram(r[1], 16 - m)
  BY <1>5, <1>8, NextIs DEF m
<1>11. Program[16 - m] = "copy in"
  <2>1. u \in {1, 2, 3, 4}
    OBVIOUS
  <2>2. 16 - m \in {8, 10, 12, 14}
    BY <1>7, <2>1
  <2>3. QED
    BY <2>2, ProgramIs
<1>12. r[1].do = "copy in" /\ IsCopyIn(r[1])
  BY <1>10, <1>11 DEF InProgram
<1>13. F \subseteq Files
  BY DEF Of, IInv, Inv, DataInv
<1>14. Go(w, t)
  BY <1>1
<1> HIDE DEF r, F, s, q
<1>15. x = Noted(r[1], F)
  BY <1>9
<1> HIDE DEF x
<1>16. x.do = "copy in"
  BY <1>12, <1>13, <1>15, AsideIs
<1>17. IsList(<<x>>) /\ CallsOf(<<x>>) = {x}
  BY CallsOfOne
<1>18. IsList(t) /\ CallsOf(t) = CallsOf(<<x>>) \union CallsOf(q)
  BY <1>9, <1>17, CallsJoined
<1> HIDE DEF t
<1>19. \A c \in CallsOf(t) : c.do = "send" => IsSound(c.rows, c.nextId)
  BY <1>4, <1>5, <1>9, <1>16, <1>17, <1>18
<1>20. /\ IsSound(rows, nextId) /\ IsSound(zip.rows, zip.nextId)
       /\ Evolves(rows, nextId, rows, nextId)
  BY StaysSound
<1>21. QED
  BY <1>1, <1>3, <1>18, <1>14, <1>19, <1>20, SoundGo

-----------------------------------------------------------------------------
(* Requests begin.                                                         *)

\* Calls that are right when a request on a record begins with them.
Right1(kind, id, c) ==
    /\ c.do # "send"
    /\ \A j : j.kind = kind /\ j.id = id => CallRight(j, c, rows, nextId)
Fine(kind, id, X) == IsList(X) /\ \A c \in CallsOf(X) : Right1(kind, id, c)

LEMMA FineEasy ==
    ASSUME NEW X, Easy(X), NEW kind, NEW id
    PROVE  Fine(kind, id, X)
<1>1. ASSUME NEW c \in CallsOf(X) PROVE Right1(kind, id, c)
  <2>1. c.do \in EasyDos
    BY DEF Easy
  <2>2. QED
    BY <2>1, EasyRight DEF Right1
<1>2. QED
  BY <1>1 DEF Fine, Easy

LEMMA FineNone ==
    ASSUME NEW kind, NEW id
    PROVE  Fine(kind, id, <<>>)
BY EasyNone, FineEasy

LEMMA FineOne ==
    ASSUME NEW kind, NEW id, NEW c, Right1(kind, id, c)
    PROVE  Fine(kind, id, <<c>>)
BY CallsOfOne DEF Fine

LEMMA FineConcat ==
    ASSUME NEW kind, NEW id, NEW X, Fine(kind, id, X), NEW Y, Fine(kind, id, Y)
    PROVE  Fine(kind, id, X \o Y)
<1>1. IsList(X) /\ IsList(Y)
  BY DEF Fine
<1> DEFINE Z == X \o Y
<1>2. IsList(Z) /\ CallsOf(Z) = CallsOf(X) \union CallsOf(Y)
  BY <1>1, CallsJoined
<1> HIDE DEF Z
<1>3. Fine(kind, id, Z)
  BY <1>2 DEF Fine
<1>4. QED
  BY <1>3 DEF Z

\* A row inserted.
LEMMA FineInsert ==
    ASSUME NEW kind, NEW id, NEW row, row.kind = kind, IsRecord(row), Placed(row, rows, nextId),
           kind \in DropLists => row.text # "" /\ NewName(row.text, None, kind, rows)
    PROVE  Fine(kind, id, <<[do |-> "insert", row |-> row]>>)
<1> DEFINE c == [do |-> "insert", row |-> row]
<1>1. c.do = "insert" /\ c.row = row
  OBVIOUS
<1> HIDE DEF c
<1>2. \A j : j.kind = kind => InsertRight(j, c, rows, nextId)
  BY <1>1 DEF InsertRight
<1>3. Right1(kind, id, c)
  BY <1>1, <1>2 DEF Right1, CallRight
<1>4. QED
  BY <1>3, FineOne DEF c

\* A row updated.
LEMMA FineUpdate ==
    ASSUME NEW kind, NEW id, NEW c, c.do = "update", c.id = id, c.up # Same => kind = "product",
           c.text # AsIs => kind \in DropLists /\ c.text # "" /\ NewName(c.text, id, kind, rows)
    PROVE  Fine(kind, id, <<c>>)
<1>1. \A j : j.kind = kind /\ j.id = id => UpdateRight(j, c, rows, nextId)
  BY DEF UpdateRight
<1>2. Right1(kind, id, c)
  BY <1>1 DEF Right1, CallRight
<1>3. QED
  BY <1>2, FineOne

LEMMA FineEdit ==
    ASSUME NEW kind, NEW id, NEW up, up # Same => kind = "product", NEW files, NEW text,
           text # AsIs => kind \in DropLists /\ text # "" /\ NewName(text, id, kind, rows)
    PROVE  Fine(kind, id, Edit(id, up, files, text))
<1> DEFINE c == [do |-> "update", id |-> id, up |-> up, files |-> files, text |-> text, head |-> TRUE]
<1>1. Edit(id, up, files, text) = <<c>> /\ c.do = "update" /\ c.id = id /\ c.up = up /\ c.text = text
  BY DEF Edit
<1> HIDE DEF c
<1>2. Fine(kind, id, <<c>>)
  BY <1>1, FineUpdate
<1>3. QED
  BY <1>1, <1>2

LEMMA FineUpdating ==
    ASSUME NEW kind, NEW id, NEW files, NEW head, NEW text,
           text # AsIs => kind \in DropLists /\ text # "" /\ NewName(text, id, kind, rows)
    PROVE  Fine(kind, id, UpdateRow(id, files, head, text))
<1> DEFINE c == [do |-> "update", id |-> id, up |-> Same, files |-> files, text |-> text, head |-> head]
<1>1. UpdateRow(id, files, head, text) = <<c>> /\ c.do = "update" /\ c.id = id /\ c.up = Same /\ c.text = text
  BY DEF UpdateRow
<1> HIDE DEF c
<1>2. Fine(kind, id, <<c>>)
  BY <1>1, FineUpdate
<1>3. QED
  BY <1>1, <1>2

\* The packing types of a product,
LEMMA FinePallets ==
    ASSUME NEW id, NEW m, NEW with, NEW level, level # AsIs, with = None => level = ""
    PROVE  Fine("product", id, Pallets(m, with, level))
<1> DEFINE X == Pallets(m, with, level)
<1>1. ASSUME NEW j, j.kind = "product"
      PROVE  IsList(X) /\ \A c \in CallsOf(X) : CallRight(j, c, rows, nextId) /\ c.do # "send"
  BY <1>1, PalletsRight
<1>2. \E j : j.kind = "product"
  <2> DEFINE j0 == [kind |-> "product"]
  <2>1. j0.kind = "product"
    OBVIOUS
  <2>2. QED
    BY <2>1
<1> HIDE DEF X
<1>3. \A c \in CallsOf(X) : Right1("product", id, c)
  BY <1>1, <1>2 DEF Right1
<1>4. Fine("product", id, X)
  BY <1>1, <1>2, <1>3 DEF Fine
<1>5. QED
  BY <1>4 DEF X

\* and the lists of another record.
LEMMA FineLists ==
    ASSUME NEW kind, kind # "product", NEW id, NEW s, s.lists \in Nat, NEW m
    PROVE  Fine(kind, id, ReplaceLists(s, m))
<1> DEFINE X == ReplaceLists(s, m) n == s.lists
           call(k) == [do |-> "replace", id |-> m, part |-> k + 1, with |-> served + 1, text |-> AsIs]
<1>1. n \in Nat
  OBVIOUS
<1>2. X = [k \in 1..n |-> call(k)]
  BY DEF ReplaceLists
<1>3. \A k : call(k).do = "replace" /\ call(k).text = AsIs
  OBVIOUS
<1> HIDE DEF call, X, n
<1>4. X = [k \in 1..n |-> X[k]] /\ \A k \in 1..n : X[k].do = "replace" /\ X[k].text = AsIs
  BY <1>2, <1>3
<1>5. IsList(X) /\ DOMAIN X = 1..n
  BY <1>1, <1>4, ListFun
<1>6. ASSUME NEW c \in CallsOf(X) PROVE Right1(kind, id, c)
  <2>1. c.do = "replace" /\ c.text = AsIs
    BY <1>4, <1>5 DEF CallsOf
  <2>2. \A j : j.kind = kind => ReplaceRight(j, c)
    BY <2>1 DEF ReplaceRight
  <2>3. QED
    BY <2>1, <2>2 DEF Right1, CallRight
<1>7. Fine(kind, id, X)
  BY <1>5, <1>6 DEF Fine
<1>8. QED
  BY <1>7 DEF X

\* A new row as a record.
IsFiles(files, kind) == files = [k \in 1..Columns(kind) |-> files[k]]
NewRow(row, kind, up, side, files, text) ==
    /\ IsRecord(row) /\ row.kind = kind /\ row.up = up /\ row.side = side /\ row.text = text
    /\ row.files = files /\ ~row.odd /\ row.parts[1] = served + 1
    /\ \A k \in DOMAIN row.parts : k = 1 \/ row.parts[k] = None
LEMMA RowRecord ==
    ASSUME NEW kind, NEW up, NEW side, NEW files, IsFiles(files, kind),
           NEW lists, lists = ListsOf(kind), NEW text, kind = "product" => text = "",
           NEW row, row = Row(kind, up, side, files, lists, text)
    PROVE  NewRow(row, kind, up, side, files, text)
<1>1. lists \in Nat
  BY DEF ListsOf
<1> DEFINE a == served + 1
           s == <<a>>
           t == [k \in 1..lists |-> None]
           parts == s \o t
           n == lists + 1
<1>2. IsList(s) /\ DOMAIN s = {1} /\ Len(s) = 1 /\ s[1] = a
  BY ListOne
<1>3. IsList(t) /\ DOMAIN t = 1..lists /\ Len(t) = lists /\ \A k \in DOMAIN t : t[k] = None
  BY <1>1, ListFun
<1> HIDE DEF s, t, a
<1>4. parts = s \o t
  OBVIOUS
<1> HIDE DEF parts
<1>5. Appended(s, t, parts)
  BY <1>2, <1>3, <1>4, ListAppended
<1>6. /\ IsList(parts) /\ Len(parts) = n /\ DOMAIN parts = 1..n
      /\ parts[1] = a /\ \A k \in 1..lists : parts[1 + k] = None
  <2>1. IsList(parts) /\ Len(parts) = 1 + lists /\ parts[1] = a
    BY <1>2, <1>3, <1>5 DEF Appended
  <2>2. \A k \in 1..lists : parts[1 + k] = None
    BY <1>2, <1>3, <1>5 DEF Appended
  <2>3. Len(parts) = n
    <3>1. 1 + lists = lists + 1
      BY ONLY <1>1
    <3>2. QED
      BY <2>1, <3>1
  <2>4. QED
    BY <2>1, <2>2, <2>3, ListIs
<1>9. \A k \in DOMAIN parts : k = 1 \/ parts[k] = None
  <2>1. ASSUME NEW k \in 1..n, k # 1 PROVE parts[k] = None
    <3>1. k - 1 \in 1..lists /\ 1 + (k - 1) = k
      BY ONLY <1>1, <2>1, k \in 1..n
    <3>2. QED
      BY <1>6, <3>1
  <2>2. QED
    BY <1>6, <2>1
<1>10. parts = [k \in 1..n |-> parts[k]]
  BY <1>6, ListIs
<1>11. row = [kind |-> kind, up |-> up, side |-> side, files |-> files, text |-> text, odd |-> FALSE,
              parts |-> parts]
  <2>1. Row(kind, up, side, files, lists, text)
          = [kind |-> kind, up |-> up, side |-> side, files |-> files, text |-> text, odd |-> FALSE,
             parts |-> parts]
    BY ONLY TRUE DEF Row, parts, s, t, a
  <2>2. QED
    BY <2>1
<1> HIDE DEF parts
<1>12. /\ DOMAIN row = {"kind", "up", "side", "files", "text", "odd", "parts"}
       /\ row.kind = kind /\ row.up = up /\ row.side = side /\ row.text = text
       /\ row.files = files /\ ~row.odd /\ row.parts = parts
  BY ONLY <1>11
<1>13. text = "" => text # AsIs
  BY DEF AsIs
<1>14. IsRecord(row)
  BY <1>10, <1>12, <1>13 DEF IsRecord, IsFiles
<1>15. QED
  BY <1>6, <1>9, <1>12, <1>14 DEF NewRow, a

\* A request that another joins has less to answer for.
LEMMA BesideRight ==
    ASSUME NEW j, NEW j2, NEW op, IsBeside(j, op, j2), NEW R, NEW N, RightJob(j, R, N)
    PROVE  RightJob(j2, R, N)
<1>1. /\ j2.op = j.op /\ j2.kind = j.kind /\ j2.id = j.id /\ j2.todo = j.todo /\ ~j2.alone
      /\ j.crossed => j2.crossed
  BY DEF IsBeside
<1>2. \A c \in CallsOf(j2.todo) : c.do = "send" => IsSound(c.rows, c.nextId)
  BY <1>1 DEF RightJob
<1>3. ASSUME j2.op \in Ordinary PROVE RightCalls(j2, R, N)
  <2>1. RightCalls(j, R, N)
    BY <1>1, <1>3 DEF RightJob
  <2>2. ASSUME NEW c \in CallsOf(j2.todo) PROVE CallRight(j2, c, R, N)
    <3>1. CallRight(j, c, R, N)
      BY <1>1, <2>1 DEF RightCalls
    <3>2. c.do = "insert" => InsertRight(j2, c, R, N)
      BY <1>1, <3>1 DEF CallRight, InsertRight
    <3>3. c.do = "update" => UpdateRight(j2, c, R, N)
      BY <1>1, <3>1 DEF CallRight, UpdateRight
    <3>4. c.do = "replace" => ReplaceRight(j2, c)
      BY <1>1, <3>1 DEF CallRight, ReplaceRight
    <3>5. c.do = "copy" => j2.kind = "product"
      BY <1>1, <3>1 DEF CallRight
    <3>6. QED
      BY <3>2, <3>3, <3>4, <3>5 DEF CallRight
  <2>3. j2.kind \in DropLists => Len(j2.todo) <= 1
    BY <1>1, <2>1 DEF RightCalls
  <2>4. QED
    BY <2>2, <2>3 DEF RightCalls
<1>4. QED
  BY <1>2, <1>3 DEF RightJob

\* A request begins with calls that are right.
LEMMA SoundBegin ==
    ASSUME IInv, SInv, NEW w \in Workers, NEW op, NEW kind, NEW id, NEW todo,
           Begin(w, op, kind, id, todo), UNCHANGED <<zip, snapshot>>,
           NEW j, j = Begun(w, op, kind, id, todo), RightJob(j, rows, nextId)
    PROVE  SInv'
<1>1. j.op = op /\ j.todo = todo /\ j.kind = kind /\ j.id = id
  BY BegunIs DEF Opened
<1>2. job' = Joined(job, w, j, Others(w))
  BY <1>1, Zenon DEF Begin, Joined, NewJob, Begun, Beside, Others
<1>3. UNCHANGED <<rows, nextId, zip>>
  BY DEF Begin
<1>4. Others(w) \subseteq Workers \ {w} /\ \A v \in Others(w) : Serves(job[v])
  BY ServesJob DEF IInv, Others, Serving
<1>5. /\ job'[w] = j
      /\ \A v \in Others(w) : job'[v] = Beside(job[v], op)
      /\ \A v \in Workers : v = w \/ v \in Others(w) \/ job'[v] = Idle
  BY <1>1, <1>2, <1>4, JoinedIs
<1>6. ASSUME NEW v \in Workers, job'[v] # Idle PROVE RightJob(job'[v], rows, nextId)
  <2>1. CASE v = w
    BY <1>5, <2>1
  <2>2. CASE v \in Others(w)
    <3>1. job[v] # Idle /\ IsJob(job[v], served)
      BY <1>4, <2>2, ServesJob DEF IInv
    <3>2. RightJob(job[v], rows, nextId)
      BY <3>1 DEF SInv, SoundInv
    <3>3. IsBeside(job[v], op, Beside(job[v], op))
      BY <3>1, BesideIs
    <3>4. QED
      BY <1>5, <2>2, <3>2, <3>3, BesideRight
  <2>3. QED
    BY <1>5, <1>6, <2>1, <2>2
<1>7. QED
  BY <1>3, <1>6 DEF SInv, SoundInv

\* A request on a record begins.
LEMMA SoundRequest ==
    ASSUME IInv, SInv, NEW w \in Workers, NEW op, NEW kind, NEW id, NEW todo,
           Begin(w, op, kind, id, todo), UNCHANGED <<zip, snapshot>>,
           Fine(kind, id, todo), kind \in DropLists => Len(todo) <= 1
    PROVE  SInv'
<1> DEFINE j == Begun(w, op, kind, id, todo)
<1>1. j = Begun(w, op, kind, id, todo)
  OBVIOUS
<1> HIDE DEF j
<1>2. j.op = op /\ j.todo = todo /\ j.kind = kind /\ j.id = id
  BY <1>1, BegunIs DEF Opened
<1>3. RightJob(j, rows, nextId)
  <2>1. \A c \in CallsOf(j.todo) : CallRight(j, c, rows, nextId) /\ c.do # "send"
    BY <1>2 DEF Fine, Right1
  <2>2. QED
    BY <1>2, <2>1 DEF RightJob, RightCalls
<1>4. QED
  BY <1>1, <1>3, SoundBegin

\* The row another refers to, in a folder of a product or in none.
LEMMA InFolder ==
    ASSUME SInv, NEW p, NEW f \in FoldersOf(p) \union {None}, NEW row, row.side = f, row.up = p
    PROVE  Placed(row, rows, nextId)
<1>1. IsSound(rows, nextId)
  BY DEF SInv, SoundInv
<1>2. nextId \in Nat /\ nextId # 0 /\ None \notin DOMAIN rows /\ \A i \in DOMAIN rows : i \in Nat /\ i < nextId
  BY <1>1, SoundIs
<1>3. CASE f = None
  BY <1>2, <1>3 DEF Placed, None
<1>4. CASE f \in FoldersOf(p)
  <2>1. f \in DOMAIN rows /\ rows[f].kind = "folder" /\ rows[f].up = p
    BY <1>4 DEF FoldersOf, Folders, OfKind
  <2>2. f \in 0..nextId - 1
    BY <1>2, <2>1
  <2>3. QED
    BY <2>1, <2>2 DEF Placed
<1>5. QED
  BY <1>3, <1>4

LEMMA InNone ==
    ASSUME SInv, NEW row, row.side = None
    PROVE  Placed(row, rows, nextId)
<1>1. IsSound(rows, nextId)
  BY DEF SInv, SoundInv
<1>2. nextId \in Nat /\ nextId # 0 /\ None \notin DOMAIN rows
  BY <1>1, SoundIs
<1>3. QED
  BY <1>2 DEF Placed, None

\* The lists beside a row, and the kinds that carry no file.
LEMMA ListsOfKinds ==
    /\ ListsOf("category") = 0 /\ ListsOf("product") = 1 /\ ListsOf("folder") = 0 /\ ListsOf("design") = 0
    /\ ListsOf("company") = 5 /\ \A kind \in RemovesFirst \union DropLists : ListsOf(kind) = 0
    /\ \A s \in Directories : s.lists = ListsOf(s.kind) /\ s.kind # "product" /\ s.kind \notin DropLists
<1>1. ListsOf("category") = 0
  BY DEF ListsOf
<1>2. ListsOf("product") = 1
  BY DEF ListsOf
<1>3. ListsOf("folder") = 0
  BY DEF ListsOf
<1>4. ListsOf("design") = 0
  BY DEF ListsOf
<1>5. ListsOf("company") = 5
  BY DEF ListsOf
<1>6. ASSUME NEW kind \in RemovesFirst PROVE ListsOf(kind) = 0
  BY DEF ListsOf, RemovesFirst
<1>7. ASSUME NEW kind \in DropLists PROVE ListsOf(kind) = 0
  BY DEF ListsOf, DropLists, MiscCurrency, MiscNatureOfContract, MiscPortOfLoading, MiscContainerType,
         MiscHsnCode, MiscCountry, MiscUnit
<1>8. ASSUME NEW s \in Directories PROVE s.lists = ListsOf(s.kind) /\ s.kind # "product" /\ s.kind \notin DropLists
  <2>1. CASE s = SupplierService
    BY <2>1, KindsAre DEF ListsOf, SupplierService
  <2>2. CASE s = TransporterService
    BY <2>2, KindsAre DEF ListsOf, TransporterService
  <2>3. CASE s = BookingDetailService
    BY <2>3, KindsAre DEF ListsOf, BookingDetailService
  <2>4. CASE s = PlatformLoginService
    BY <2>4, KindsAre DEF ListsOf, PlatformLoginService
  <2>5. QED
    BY <2>1, <2>2, <2>3, <2>4 DEF Directories
<1>9. QED
  BY <1>1, <1>2, <1>3, <1>4, <1>5, <1>6, <1>7, <1>8

\* The row of a record without files.
LEMMA BareRecord ==
    ASSUME NEW kind, Columns(kind) = 0, NEW up, NEW side, NEW lists, lists = ListsOf(kind),
           NEW text, kind = "product" => text = "", NEW row, row = Row(kind, up, side, <<>>, lists, text)
    PROVE  NewRow(row, kind, up, side, <<>>, text)
<1> DEFINE files == <<>>
<1>1. DOMAIN files = {} /\ 1..0 = {}
  BY ONLY ListNone
<1>2. files = [k \in 1..0 |-> files[k]]
  BY ONLY <1>1
<1> HIDE DEF files
<1>3. IsFiles(files, kind)
  BY <1>2 DEF IsFiles
<1>4. row = Row(kind, up, side, files, lists, text)
  BY DEF files
<1>5. NewRow(row, kind, up, side, files, text)
  BY <1>3, <1>4, RowRecord
<1>6. QED
  BY <1>5 DEF files

-----------------------------------------------------------------------------
(* The requests of the catalogue begin.                                    *)

\* A row that carries no file and is no entry of a drop list.
LEMMA FineBare ==
    ASSUME SInv, NEW kind, Columns(kind) = 0, kind \notin DropLists, NEW id, NEW up, NEW side,
           NEW lists, lists = ListsOf(kind), NEW row, row = Row(kind, up, side, <<>>, lists, ""),
           \A r : r.side = side /\ r.up = up => Placed(r, rows, nextId)
    PROVE  /\ Fine(kind, id, <<[do |-> "insert", row |-> row]>>)
           /\ NewRow(row, kind, up, side, <<>>, "")
<1> DEFINE text == ""
<1>1. text = ""
  OBVIOUS
<1> HIDE DEF text
<1>2. row = Row(kind, up, side, <<>>, lists, text)
  BY <1>1
<1>3. NewRow(row, kind, up, side, <<>>, text)
  BY <1>1, <1>2, BareRecord
<1>4. row.kind = kind /\ IsRecord(row) /\ Placed(row, rows, nextId)
  BY <1>3 DEF NewRow
<1>5. Fine(kind, id, <<[do |-> "insert", row |-> row]>>)
  BY <1>4, FineInsert
<1>6. QED
  BY <1>1, <1>3, <1>5

LEMMA BareColumns ==
    /\ Columns("category") = 0 /\ Columns("product") = 0 /\ Columns("folder") = 0
    /\ "category" \notin DropLists /\ "product" \notin DropLists /\ "folder" \notin DropLists
    /\ "design" \notin DropLists /\ "company" \notin DropLists
BY BareKinds, KindsAre

LEMMA CreateCategorySound ==
    ASSUME IInv, SInv, NEW w \in Workers, CreateCategory(w), UNCHANGED <<zip, snapshot>>
    PROVE  SInv'
<1>1. PICK parent \in Categories \union {None} :
         Begin(w, "create", "category", None,
               <<[do |-> "insert", row |-> Row("category", parent, None, <<>>, 0, "")]>>)
  BY DEF CreateCategory
<1> DEFINE row == Row("category", parent, None, <<>>, 0, "")
           todo == <<[do |-> "insert", row |-> row]>>
<1>2. Begin(w, "create", "category", None, todo)
  BY <1>1
<1>3. \A r : r.side = None /\ r.up = parent => Placed(r, rows, nextId)
  BY InNone
<1>4. row = Row("category", parent, None, <<>>, 0, "")
  OBVIOUS
<1> HIDE DEF row
<1>5. Fine("category", None, todo)
  <2>1. Columns("category") = 0 /\ "category" \notin DropLists /\ 0 = ListsOf("category")
    BY BareColumns, ListsOfKinds
  <2>2. QED
    BY ONLY SInv, <1>3, <1>4, <2>1, FineBare
<1> HIDE DEF todo
<1>6. QED
  BY <1>2, <1>5, BareColumns, SoundRequest

LEMMA CreateFolderSound ==
    ASSUME IInv, SInv, NEW w \in Workers, CreateFolder(w), UNCHANGED <<zip, snapshot>>
    PROVE  SInv'
<1>1. PICK p \in Products : \E parent \in FoldersOf(p) \union {None} :
        Begin(w, "create", "folder", None,
              <<[do |-> "insert", row |-> Row("folder", p, parent, <<>>, 0, "")]>>)
  BY DEF CreateFolder
<1>2. PICK parent \in FoldersOf(p) \union {None} :
        Begin(w, "create", "folder", None,
              <<[do |-> "insert", row |-> Row("folder", p, parent, <<>>, 0, "")]>>)
  BY <1>1
<1> DEFINE row == Row("folder", p, parent, <<>>, 0, "")
           todo == <<[do |-> "insert", row |-> row]>>
<1>3. Begin(w, "create", "folder", None, todo)
  BY <1>2
<1>4. \A r : r.side = parent /\ r.up = p => Placed(r, rows, nextId)
  BY InFolder
<1>5. row = Row("folder", p, parent, <<>>, 0, "")
  OBVIOUS
<1> HIDE DEF row
<1>6. Fine("folder", None, todo)
  <2>1. Columns("folder") = 0 /\ "folder" \notin DropLists /\ 0 = ListsOf("folder")
    BY BareColumns, ListsOfKinds
  <2>2. QED
    BY ONLY SInv, <1>4, <1>5, <2>1, FineBare
<1> HIDE DEF todo
<1>7. QED
  BY <1>3, <1>6, BareColumns, SoundRequest

LEMMA CreateProductSound ==
    ASSUME IInv, SInv, NEW w \in Workers, CreateProduct(w), UNCHANGED <<zip, snapshot>>
    PROVE  SInv'
<1>1. PICK c \in Categories \union {None} : \E level \in Levels \union {"none"} :
        Begin(w, "create", "product", None,
              <<[do |-> "insert", row |-> Row("product", c, None, <<>>, 1, "")]>>
                  \o IF level = "none" THEN <<>> ELSE Pallets(None, served + 1, level))
  BY DEF CreateProduct
<1>2. PICK level \in Levels \union {"none"} :
        Begin(w, "create", "product", None,
              <<[do |-> "insert", row |-> Row("product", c, None, <<>>, 1, "")]>>
                  \o IF level = "none" THEN <<>> ELSE Pallets(None, served + 1, level))
  BY <1>1
<1> DEFINE row == Row("product", c, None, <<>>, 1, "")
           X == <<[do |-> "insert", row |-> row]>>
           Y == IF level = "none" THEN <<>> ELSE Pallets(None, served + 1, level)
           todo == X \o Y
<1>3. Begin(w, "create", "product", None, todo)
  BY <1>2
<1>4. \A r : r.side = None /\ r.up = c => Placed(r, rows, nextId)
  BY InNone
<1>5. row = Row("product", c, None, <<>>, 1, "")
  OBVIOUS
<1> HIDE DEF row
<1>6. Fine("product", None, X)
  <2>1. Columns("product") = 0 /\ "product" \notin DropLists /\ 1 = ListsOf("product")
    BY BareColumns, ListsOfKinds
  <2>2. QED
    BY ONLY SInv, <1>4, <1>5, <2>1, FineBare
<1>7. Fine("product", None, Y)
  <2>1. CASE level = "none"
    BY <2>1, FineNone
  <2>2. CASE level # "none"
    <3> DEFINE Z == Pallets(None, served + 1, level)
    <3>1. level # AsIs
      BY <2>2, LevelsAssumption
    <3>2. served + 1 # None
      BY AtFirst DEF None
    <3>3. Fine("product", None, Z)
      BY <3>1, <3>2, FinePallets
    <3>4. QED
      BY <2>2, <3>3
  <2>3. QED
    BY <2>1, <2>2
<1> HIDE DEF X, Y
<1>8. Fine("product", None, todo)
  BY <1>6, <1>7, FineConcat
<1> HIDE DEF todo
<1>9. QED
  BY <1>3, <1>8, BareColumns, SoundRequest

LEMMA RenameSound ==
    ASSUME IInv, SInv, NEW w \in Workers, Rename(w), UNCHANGED <<zip, snapshot>>
    PROVE  SInv'
<1>1. PICK i \in Categories \union Folders : Begin(w, "update", rows[i].kind, i, Edit(i, Same, <<>>, AsIs))
  BY DEF Rename
<1> DEFINE kind == rows[i].kind
           todo == Edit(i, Same, <<>>, AsIs)
<1>2. Begin(w, "update", kind, i, todo) /\ kind \in {"category", "folder"}
  BY <1>1 DEF Categories, Folders, OfKind
<1> HIDE DEF kind
<1>3. Fine(kind, i, todo)
  BY FineEdit
<1> HIDE DEF todo
<1>4. QED
  BY <1>2, <1>3, BareColumns, SoundRequest

LEMMA UpdateProductSound ==
    ASSUME IInv, SInv, NEW w \in Workers, UpdateProduct(w), UNCHANGED <<zip, snapshot>>
    PROVE  SInv'
<1>1. PICK p, c, level :
        /\ p \in Products /\ c \in Categories \union {None}
        /\ level \in {Shown(rows[p].text)} \union IF rows[p].text = "" THEN {} ELSE Levels
        /\ Begin(w, "update", "product", p,
                 Edit(p, c, <<>>, AsIs) \o Pallets(p, IF level = "" THEN None ELSE served + 1, level))
  BY DEF UpdateProduct
<1> DEFINE with == IF level = "" THEN None ELSE served + 1
           X == Edit(p, c, <<>>, AsIs)
           Y == Pallets(p, with, level)
           todo == X \o Y
<1>2. Begin(w, "update", "product", p, todo)
  BY <1>1
<1>3. Fine("product", p, X)
  BY FineEdit
<1>4. level # AsIs
  <2>1. \A text : Shown(text) \in {"", "pallet"}
    BY DEF Shown
  <2>2. "" # AsIs /\ "pallet" # AsIs
    BY DEF AsIs
  <2>3. level \in Levels \/ level \in {"", "pallet"}
    BY <1>1, <2>1
  <2>4. QED
    BY <2>2, <2>3, LevelsAssumption
<1>5. with = None => level = ""
  <2>1. served + 1 # None
    BY AtFirst DEF None
  <2>2. QED
    BY <2>1
<1> HIDE DEF with, X
<1>6. Fine("product", p, Y)
  BY <1>4, <1>5, FinePallets
<1> HIDE DEF Y
<1>7. Fine("product", p, todo)
  BY <1>3, <1>6, FineConcat
<1> HIDE DEF todo
<1>8. QED
  BY <1>2, <1>7, BareColumns, SoundRequest

LEMMA DuplicateProductSound ==
    ASSUME IInv, SInv, NEW w \in Workers, DuplicateProduct(w), UNCHANGED <<zip, snapshot>>
    PROVE  SInv'
<1>1. PICK p \in Products :
         Begin(w, "duplicate", "product", None,
               <<[do |-> "insert", row |-> [Row("product", rows[p].up, None, <<>>, 1, "")
                                               EXCEPT !.parts[1] = rows[p].parts[1]]],
                 [do |-> "copy", product |-> p]>>)
  BY DEF DuplicateProduct
<1> DEFINE up == rows[p].up
           x == rows[p].parts[1]
           row0 == Row("product", up, None, <<>>, 1, "")
           row == [row0 EXCEPT !.parts[1] = x]
           c == [do |-> "insert", row |-> row]
           d == [do |-> "copy", product |-> p]
           todo == <<c>> \o <<d>>
<1>2. todo = <<c, d>>
  <2> HIDE DEF c, d
  <2>1. QED
    BY PairIs
<1>3. Begin(w, "duplicate", "product", None, todo)
  BY <1>1, <1>2
<1>4. row0 = Row("product", up, None, <<>>, 1, "")
  OBVIOUS
<1>5. d.do = "copy"
  OBVIOUS
<1> HIDE DEF row0, up, x, d
<1>6. \A r : r.side = None /\ r.up = up => Placed(r, rows, nextId)
  BY InNone
<1>7. NewRow(row0, "product", up, None, <<>>, "")
  BY <1>4, <1>6, BareColumns, ListsOfKinds, FineBare
<1>8. IsRecord(row) /\ row.kind = "product" /\ row.side = None
  <2> DEFINE parts == row0.parts
             parts2 == [parts EXCEPT ![1] = x]
             n == ListsOf("product") + 1
  <2>1. /\ IsRecord(row0) /\ row0.kind = "product" /\ row0.side = None /\ row0.text = ""
        /\ DOMAIN row0 = {"kind", "up", "side", "files", "text", "odd", "parts"}
        /\ row0.files = [k \in 1..Columns(row0.kind) |-> row0.files[k]]
        /\ parts = [k \in 1..n |-> parts[k]]
    BY <1>7 DEF NewRow, IsRecord
  <2>2. parts2 = [k \in 1..n |-> parts2[k]]
    <3> HIDE DEF parts, n
    <3>1. QED
      BY <2>1
  <2>3. row = [row0 EXCEPT !.parts = parts2]
    OBVIOUS
  <2> HIDE DEF parts2, row, n
  <2>4. /\ DOMAIN row = DOMAIN row0 /\ row.parts = parts2 /\ row.kind = row0.kind /\ row.side = row0.side
        /\ row.text = row0.text /\ row.files = row0.files
    BY <2>1, <2>3
  <2>5. row.text # AsIs
    BY <2>1, <2>4 DEF AsIs
  <2>6. IsRecord(row)
    BY <2>1, <2>2, <2>4, <2>5 DEF IsRecord, n
  <2>7. QED
    BY <2>1, <2>4, <2>6
<1> HIDE DEF row
<1>9. Placed(row, rows, nextId)
  BY <1>8, InNone
<1>10. Fine("product", None, <<c>>)
  BY <1>8, <1>9, BareColumns, FineInsert
<1>11. Right1("product", None, d)
  BY <1>5 DEF Right1, CallRight
<1>12. Fine("product", None, <<d>>)
  BY <1>11, FineOne
<1> HIDE DEF c
<1>13. Fine("product", None, todo)
  BY <1>10, <1>12, FineConcat
<1> HIDE DEF todo
<1>14. QED
  BY <1>3, <1>13, BareColumns, SoundRequest

LEMMA DeleteCategorySound ==
    ASSUME IInv, SInv, NEW w \in Workers, DeleteCategory(w), UNCHANGED <<zip, snapshot>>
    PROVE  SInv'
<1>1. PICK c \in Categories :
        Begin(w, "delete", "category", c, ForEach("list", Descendants(c)) \o Deletion("category", c))
  BY DEF DeleteCategory
<1> DEFINE X == ForEach("list", Descendants(c))
           Y == Deletion("category", c)
           todo == X \o Y
<1>2. Begin(w, "delete", "category", c, todo)
  BY <1>1
<1>3. Easy(X) /\ Easy(Y)
  BY EasyEach, EasyDeletion
<1> HIDE DEF X, Y
<1>4. Easy(todo)
  BY <1>3, EasyConcat
<1> HIDE DEF todo
<1>5. Fine("category", c, todo)
  BY <1>4, FineEasy
<1>6. QED
  BY <1>2, <1>5, BareColumns, SoundRequest

LEMMA DeleteProductSound ==
    ASSUME IInv, SInv, NEW w \in Workers, DeleteProduct(w), UNCHANGED <<zip, snapshot>>
    PROVE  SInv'
<1>1. PICK p \in Products : Begin(w, "delete", "product", p, ForEach("open", {p}))
  BY DEF DeleteProduct
<1> DEFINE todo == ForEach("open", {p})
<1>2. Begin(w, "delete", "product", p, todo)
  BY <1>1
<1>3. Easy(todo)
  BY EasyEach
<1> HIDE DEF todo
<1>4. Fine("product", p, todo)
  BY <1>3, FineEasy
<1>5. QED
  BY <1>2, <1>4, BareColumns, SoundRequest

LEMMA DropSound ==
    ASSUME IInv, SInv, NEW w \in Workers, NEW kind \in {"folder", "design"}, NEW id, NEW paths,
           Begin(w, "delete", kind, id, Deletion(kind, id) \o Unlinks(paths)), UNCHANGED <<zip, snapshot>>
    PROVE  SInv'
<1> DEFINE X == Deletion(kind, id)
           Y == Unlinks(paths)
           todo == X \o Y
<1>1. Begin(w, "delete", kind, id, todo)
  OBVIOUS
<1>2. Easy(X) /\ Easy(Y)
  BY EasyEach, EasyDeletion DEF Unlinks
<1> HIDE DEF X, Y
<1>3. Easy(todo)
  BY <1>2, EasyConcat
<1> HIDE DEF todo
<1>4. Fine(kind, id, todo)
  BY <1>3, FineEasy
<1>5. QED
  BY <1>1, <1>4, BareColumns, SoundRequest

LEMMA DeleteFolderSound ==
    ASSUME IInv, SInv, NEW w \in Workers, DeleteFolder(w), UNCHANGED <<zip, snapshot>>
    PROVE  SInv'
<1>1. PICK f \in Folders :
        Begin(w, "delete", "folder", f, Deletion("folder", f) \o Unlinks(FolderImagePaths(rows[f].up, f)))
  BY DEF DeleteFolder
<1>2. QED
  BY <1>1, DropSound

LEMMA DeleteDesignSound ==
    ASSUME IInv, SInv, NEW w \in Workers, DeleteDesign(w), UNCHANGED <<zip, snapshot>>
    PROVE  SInv'
<1>1. PICK d \in Designs :
        Begin(w, "delete", "design", d, Deletion("design", d) \o Unlinks(ImagesOf({d})))
  BY DEF DeleteDesign
<1>2. QED
  BY <1>1, DropSound

LEMMA CreateDesignSound ==
    ASSUME IInv, SInv, NEW w \in Workers, CreateDesign(w), UNCHANGED <<zip, snapshot>>
    PROVE  SInv'
<1>1. PICK p, f, chosen :
        /\ p \in Products /\ f \in FoldersOf(p) \union {None} /\ chosen \in Uploaded
        /\ Begin(w, "create", "design", None,
                 Images(chosen) \o
                 <<[do |-> "insert", row |-> Row("design", p, f, Paths(chosen, NoFile), 0, "")]>>)
  BY DEF CreateDesign
<1> DEFINE files == Paths(chosen, NoFile)
           row == Row("design", p, f, files, 0, "")
           S == Store("products", 1, chosen[1])
           T == Store("products", 2, chosen[2])
           X == Images(chosen)
           Y == <<[do |-> "insert", row |-> row]>>
           todo == X \o Y
<1>2. Begin(w, "create", "design", None, todo)
  BY <1>1
<1>3. Easy(S) /\ Easy(T)
  BY EasyStore
<1>4. X = S \o T
  BY DEF Images
<1> HIDE DEF S, T, X
<1>5. Easy(X)
  BY <1>3, <1>4, EasyConcat
<1>6. Fine("design", None, X)
  BY <1>5, FineEasy
<1>7. files = [k \in 1..2 |-> files[k]]
  BY DEF Paths
<1>8. row = Row("design", p, f, files, 0, "")
  OBVIOUS
<1> HIDE DEF files, row
<1>9. IsFiles(files, "design")
  BY <1>7, ColumnsAre DEF IsFiles
<1>10. NewRow(row, "design", p, f, files, "")
  <2>1. 0 = ListsOf("design")
    BY ListsOfKinds
  <2>2. QED
    BY ONLY <1>8, <1>9, <2>1, RowRecord
<1>11. row.kind = "design" /\ IsRecord(row) /\ row.side = f /\ row.up = p
  BY <1>10 DEF NewRow
<1>12. Placed(row, rows, nextId)
  BY <1>1, <1>11, InFolder
<1>13. Fine("design", None, Y)
  BY <1>11, <1>12, BareColumns, FineInsert
<1> HIDE DEF Y
<1>14. Fine("design", None, todo)
  BY <1>6, <1>13, FineConcat
<1> HIDE DEF todo
<1>15. QED
  BY <1>2, <1>14, BareColumns, SoundRequest

LEMMA UpdateDesignSound ==
    ASSUME IInv, SInv, NEW w \in Workers, UpdateDesign(w), UNCHANGED <<zip, snapshot>>
    PROVE  SInv'
<1>1. PICK d \in Designs, chosen \in Uploaded :
        Begin(w, "update", "design", d,
              Images(chosen) \o Edit(d, Same, Paths(chosen, Keep), AsIs)
                  \o Unlinks({rows[d].files[k] : k \in {n \in 1..2 : chosen[n] = "file"}}))
  BY DEF UpdateDesign
<1> DEFINE files == Paths(chosen, Keep)
           paths == {rows[d].files[k] : k \in {n \in 1..2 : chosen[n] = "file"}}
           S == Store("products", 1, chosen[1])
           T == Store("products", 2, chosen[2])
           X == Images(chosen)
           Y == Edit(d, Same, files, AsIs)
           Z == Unlinks(paths)
           V == X \o Y
           todo == V \o Z
<1>2. Begin(w, "update", "design", d, todo)
  BY <1>1
<1>3. Easy(S) /\ Easy(T)
  BY EasyStore
<1>4. X = S \o T
  BY DEF Images
<1> HIDE DEF S, T, X, paths
<1>5. Easy(X) /\ Easy(Z)
  BY <1>3, <1>4, EasyConcat, EasyEach DEF Unlinks
<1> HIDE DEF Z
<1>6. Fine("design", d, X) /\ Fine("design", d, Z)
  BY <1>5, FineEasy
<1> HIDE DEF files
<1>7. Fine("design", d, Y)
  BY FineEdit
<1> HIDE DEF Y
<1>8. Fine("design", d, V)
  BY <1>6, <1>7, FineConcat
<1> HIDE DEF V
<1>9. Fine("design", d, todo)
  BY <1>6, <1>8, FineConcat
<1> HIDE DEF todo
<1>10. QED
  BY <1>2, <1>9, BareColumns, SoundRequest

LEMMA DuplicateDesignSound ==
    ASSUME IInv, SInv, NEW w \in Workers, DuplicateDesign(w), UNCHANGED <<zip, snapshot>>
    PROVE  SInv'
<1>1. PICK d, p, f :
        /\ d \in Designs /\ p \in Products /\ f \in FoldersOf(p) \union {None}
        /\ Begin(w, "duplicate", "design", None,
                 <<[do |-> "insert", row |-> [rows[d] EXCEPT !.up = p, !.side = f]]>>)
  BY DEF DuplicateDesign
<1> DEFINE old == rows[d]
           row == [old EXCEPT !.up = p, !.side = f]
           todo == <<[do |-> "insert", row |-> row]>>
<1>2. Begin(w, "duplicate", "design", None, todo)
  BY <1>1
<1>3. IsRecord(old) /\ old.kind = "design"
  <2>1. d \in DOMAIN rows /\ rows[d].kind = "design"
    BY <1>1 DEF Designs, OfKind
  <2>2. IsSound(rows, nextId)
    BY DEF SInv, SoundInv
  <2>3. QED
    BY <2>1, <2>2, SoundIs
<1>4. DOMAIN old = {"kind", "up", "side", "files", "text", "odd", "parts"}
  BY <1>3 DEF IsRecord
<1> HIDE DEF old
<1>5. /\ DOMAIN row = DOMAIN old /\ row.up = p /\ row.side = f
      /\ \A x \in DOMAIN old \ {"odd", "up", "side"} : row[x] = old[x]
  BY <1>4
<1> HIDE DEF row
<1>6. row.kind = "design" /\ IsRecord(row)
  BY <1>3, <1>5, RecordIs
<1>7. Placed(row, rows, nextId)
  BY <1>1, <1>5, InFolder
<1>8. Fine("design", None, todo)
  BY <1>6, <1>7, BareColumns, FineInsert
<1> HIDE DEF todo
<1>9. QED
  BY <1>2, <1>8, BareColumns, SoundRequest

LEMMA CatalogueRequestSound ==
    ASSUME IInv, SInv, NEW w \in Workers, CatalogueRequest(w), UNCHANGED <<zip, snapshot>>
    PROVE  SInv'
BY CreateCategorySound, RenameSound, DeleteCategorySound, CreateProductSound, UpdateProductSound,
   DuplicateProductSound, DeleteProductSound, CreateFolderSound, DeleteFolderSound, CreateDesignSound,
   DuplicateDesignSound, UpdateDesignSound, DeleteDesignSound DEF CatalogueRequest

-----------------------------------------------------------------------------
(* The requests on the records around the documents begin.                 *)

LEMMA CreateRecordSound ==
    ASSUME IInv, SInv, NEW w \in Workers, CreateRecord(w), UNCHANGED <<zip, snapshot>>
    PROVE  SInv'
<1>1. PICK s \in Directories :
        Begin(w, "create", s.kind, None,
              <<[do |-> "insert", row |-> Row(s.kind, None, None, <<>>, s.lists, "")]>>
                  \o ReplaceLists(s, None))
  BY DEF CreateRecord
<1> DEFINE kind == s.kind
           lists == s.lists
           row == Row(kind, None, None, <<>>, lists, "")
           X == <<[do |-> "insert", row |-> row]>>
           Y == ReplaceLists(s, None)
           todo == X \o Y
<1>2. Begin(w, "create", kind, None, todo)
  BY <1>1
<1>3. Columns(kind) = 0 /\ kind \notin DropLists /\ lists = ListsOf(kind) /\ kind # "product" /\ lists \in Nat
  BY DirectoriesAre, ListsOfKinds
<1>4. Fine(kind, None, Y)
  BY <1>3, FineLists
<1>5. row = Row(kind, None, None, <<>>, lists, "")
  OBVIOUS
<1>6. \A r : r.side = None /\ r.up = None => Placed(r, rows, nextId)
  BY InNone
<1> HIDE DEF kind, lists, row, Y
<1>7. Fine(kind, None, X)
  BY ONLY SInv, <1>3, <1>5, <1>6, FineBare
<1> HIDE DEF X
<1>8. Fine(kind, None, todo)
  BY <1>4, <1>7, FineConcat
<1> HIDE DEF todo
<1>9. QED
  BY <1>2, <1>3, <1>8, SoundRequest

LEMMA UpdateRecordSound ==
    ASSUME IInv, SInv, NEW w \in Workers, UpdateRecord(w), UNCHANGED <<zip, snapshot>>
    PROVE  SInv'
<1>1. PICK s, r : /\ s \in Directories /\ r \in OfKind(s.kind)
                  /\ Begin(w, "update", s.kind, r, UpdateRow(r, <<>>, TRUE, AsIs) \o ReplaceLists(s, r))
  BY DEF UpdateRecord
<1> DEFINE kind == s.kind
           X == UpdateRow(r, <<>>, TRUE, AsIs)
           Y == ReplaceLists(s, r)
           todo == X \o Y
<1>2. Begin(w, "update", kind, r, todo)
  BY <1>1
<1>3. kind \notin DropLists /\ kind # "product" /\ s.lists \in Nat
  BY <1>1, DirectoriesAre, ListsOfKinds
<1>4. Fine(kind, r, Y)
  BY <1>3, FineLists
<1> HIDE DEF kind, Y
<1>5. Fine(kind, r, X)
  BY FineUpdating
<1> HIDE DEF X
<1>6. Fine(kind, r, todo)
  BY <1>4, <1>5, FineConcat
<1> HIDE DEF todo
<1>7. QED
  BY <1>2, <1>3, <1>6, SoundRequest

LEMMA PlainDeleteSound ==
    ASSUME IInv, SInv, NEW w \in Workers, NEW kind, NEW id, Begin(w, "delete", kind, id, Deletion(kind, id)),
           UNCHANGED <<zip, snapshot>>
    PROVE  SInv'
<1> DEFINE todo == Deletion(kind, id)
<1>1. Begin(w, "delete", kind, id, todo)
  OBVIOUS
<1>2. Easy(todo)
  BY EasyDeletion
<1>3. Len(todo) <= 1
  BY DEF Deletion
<1> HIDE DEF todo
<1>4. Fine(kind, id, todo)
  BY <1>2, FineEasy
<1>5. QED
  BY <1>1, <1>3, <1>4, SoundRequest

LEMMA DeleteRecordSound ==
    ASSUME IInv, SInv, NEW w \in Workers, DeleteRecord(w), UNCHANGED <<zip, snapshot>>
    PROVE  SInv'
<1>1. PICK s, r : s \in Directories /\ r \in OfKind(s.kind) /\ Begin(w, "delete", s.kind, r, Deletion(s.kind, r))
  BY DEF DeleteRecord
<1>2. QED
  BY <1>1, PlainDeleteSound

LEMMA SaveCompanySound ==
    ASSUME IInv, SInv, NEW w \in Workers, SaveCompany(w), UNCHANGED <<zip, snapshot>>
    PROVE  SInv'
<1>1. PICK r, logo :
        /\ r \in OfKind("company")
        /\ LET old == rows[r].files[1] IN
           Begin(w, "update", "company", r,
                 UpdateRow(r, <<Keep>>, TRUE, AsIs) \o ReplaceLists(CompanyService, r)
                 \o Store("products", Logo, logo)
                 \o CASE logo = "file" -> UpdateRow(r, <<Fresh("products", Logo)>>, FALSE, AsIs) \o Removal(old)
                      [] logo = "remove" /\ old # NoFile -> UpdateRow(r, <<NoFile>>, FALSE, AsIs) \o Removal(old)
                      [] OTHER -> <<>>)
  BY DEF SaveCompany
<1> DEFINE old == rows[r].files[1]
           kept == <<Keep>>
           one == <<Fresh("products", Logo)>>
           none == <<NoFile>>
           A == UpdateRow(r, kept, TRUE, AsIs)
           B == ReplaceLists(CompanyService, r)
           C == Store("products", Logo, logo)
           G == UpdateRow(r, one, FALSE, AsIs)
           H == UpdateRow(r, none, FALSE, AsIs)
           X == Removal(old)
           E == CASE logo = "file" -> G \o X [] logo = "remove" /\ old # NoFile -> H \o X [] OTHER -> <<>>
           AB == A \o B
           ABC == AB \o C
           todo == ABC \o E
<1>2. Begin(w, "update", "company", r, todo)
  BY <1>1
<1> HIDE DEF old, kept, one, none
<1>3. Fine("company", r, A) /\ Fine("company", r, G) /\ Fine("company", r, H)
  BY FineUpdating
<1>4. CompanyService.lists \in Nat /\ "company" # "product"
  BY DEF CompanyService
<1>5. Fine("company", r, B)
  BY <1>4, FineLists
<1>6. Easy(C) /\ Easy(X)
  BY EasyStore, EasyRemoval
<1> HIDE DEF A, B, C, G, H, X
<1>7. Fine("company", r, C) /\ Fine("company", r, X) /\ Fine("company", r, <<>>)
  BY <1>6, FineEasy, FineNone
<1>8. Fine("company", r, E)
  <2>1. Fine("company", r, G \o X) /\ Fine("company", r, H \o X)
    BY <1>3, <1>7, FineConcat
  <2> DEFINE GX == G \o X
             HX == H \o X
  <2>2. E = GX \/ E = HX \/ E = <<>>
    <3> HIDE DEF GX, HX
    <3>1. E = CASE logo = "file" -> GX [] logo = "remove" /\ old # NoFile -> HX [] OTHER -> <<>>
      BY DEF GX, HX
    <3> HIDE DEF E
    <3>2. QED
      BY <3>1
  <2> HIDE DEF E
  <2>3. QED
    BY <1>7, <2>1, <2>2
<1> HIDE DEF E
<1>9. Fine("company", r, AB)
  BY <1>3, <1>5, FineConcat
<1> HIDE DEF AB
<1>10. Fine("company", r, ABC)
  BY <1>7, <1>9, FineConcat
<1> HIDE DEF ABC
<1>11. Fine("company", r, todo)
  BY <1>8, <1>10, FineConcat
<1> HIDE DEF todo
<1>12. QED
  BY <1>2, <1>11, BareColumns, SoundRequest

\* The records that carry files are no entries of a drop list.
LEMMA CarriersCarry ==
    ASSUME NEW s \in Carriers
    PROVE  /\ s.kind \notin DropLists /\ s.kind # "product" /\ 0 = ListsOf(s.kind) /\ s.files = Columns(s.kind)
<1>1. s.kind \in RemovesFirst /\ s.files = Columns(s.kind)
  BY CarriersAre
<1>2. QED
  BY <1>1, KindsAre, ListsOfKinds

LEMMA CreateCarrierSound ==
    ASSUME IInv, SInv, NEW w \in Workers, CreateCarrier(w), UNCHANGED <<zip, snapshot>>
    PROVE  SInv'
<1>1. PICK s, chosen :
        /\ s \in Carriers /\ chosen \in {"none", "file", "wrong type"}
        /\ LET files == [k \in 1..s.files |-> IF k = 1 /\ chosen = "file" THEN Fresh(s.tree, 1) ELSE NoFile]
           IN  Begin(w, "create", s.kind, None,
                     Store(s.tree, 1, chosen)
                         \o <<[do |-> "insert", row |-> Row(s.kind, None, None, files, 0, "")]>>)
  BY DEF CreateCarrier
<1> DEFINE kind == s.kind
           files == [k \in 1..s.files |-> IF k = 1 /\ chosen = "file" THEN Fresh(s.tree, 1) ELSE NoFile]
           row == Row(kind, None, None, files, 0, "")
           X == Store(s.tree, 1, chosen)
           Y == <<[do |-> "insert", row |-> row]>>
           todo == X \o Y
<1>2. Begin(w, "create", kind, None, todo)
  BY <1>1
<1>3. kind \notin DropLists /\ kind # "product" /\ 0 = ListsOf(kind) /\ s.files = Columns(kind)
  BY <1>1, CarriersCarry
<1>4. files = [k \in 1..Columns(kind) |-> files[k]]
  BY <1>3
<1>5. row = Row(kind, None, None, files, 0, "")
  OBVIOUS
<1>6. Easy(X)
  BY EasyStore
<1> HIDE DEF kind, files, row, X
<1>7. Fine(kind, None, X)
  BY <1>6, FineEasy
<1>8. IsFiles(files, kind)
  BY <1>4 DEF IsFiles
<1>9. NewRow(row, kind, None, None, files, "")
  BY ONLY <1>3, <1>5, <1>8, RowRecord
<1>10. row.kind = kind /\ IsRecord(row) /\ row.side = None
  BY <1>9 DEF NewRow
<1>11. Placed(row, rows, nextId)
  BY <1>10, InNone
<1>12. Fine(kind, None, Y)
  BY <1>3, <1>10, <1>11, FineInsert
<1> HIDE DEF Y
<1>13. Fine(kind, None, todo)
  BY <1>7, <1>12, FineConcat
<1> HIDE DEF todo
<1>14. QED
  BY <1>2, <1>3, <1>13, SoundRequest

LEMMA UpdateCarrierSound ==
    ASSUME IInv, SInv, NEW w \in Workers, UpdateCarrier(w), UNCHANGED <<zip, snapshot>>
    PROVE  SInv'
<1>1. PICK s, r, slot, chosen :
        /\ s \in Carriers /\ r \in OfKind(s.kind)
        /\ LET old == rows[r].files[slot]
               new == CASE chosen = "file" -> Fresh(s.tree, slot) [] chosen = "remove" -> NoFile [] OTHER -> old
           IN  Begin(w, "update", s.kind, r,
                     Store(s.tree, slot, chosen)
                     \o (IF chosen \in {"file", "remove"} THEN Removal(old) ELSE <<>>)
                     \o UpdateRow(r, [k \in 1..s.files |-> IF k = slot THEN new ELSE Keep], TRUE, AsIs))
  <2> DEFINE P(s, r, slot, chosen) ==
               LET old == rows[r].files[slot]
                   new == CASE chosen = "file" -> Fresh(s.tree, slot) [] chosen = "remove" -> NoFile [] OTHER -> old
               IN  Begin(w, "update", s.kind, r,
                         Store(s.tree, slot, chosen)
                         \o (IF chosen \in {"file", "remove"} THEN Removal(old) ELSE <<>>)
                         \o UpdateRow(r, [k \in 1..s.files |-> IF k = slot THEN new ELSE Keep], TRUE, AsIs))
  <2>1. \E s \in Carriers : \E r \in OfKind(s.kind), slot \in 1..s.files,
                           chosen \in {"none", "file", "wrong type", "remove"} : P(s, r, slot, chosen)
    BY DEF UpdateCarrier
  <2> HIDE DEF P
  <2>2. \E s, r, slot, chosen : s \in Carriers /\ r \in OfKind(s.kind) /\ P(s, r, slot, chosen)
    BY <2>1
  <2>3. QED
    BY <2>2 DEF P
<1> DEFINE kind == s.kind
           old == rows[r].files[slot]
           new == CASE chosen = "file" -> Fresh(s.tree, slot) [] chosen = "remove" -> NoFile [] OTHER -> old
           files == [k \in 1..s.files |-> IF k = slot THEN new ELSE Keep]
           X == Store(s.tree, slot, chosen)
           R == Removal(old)
           Y == IF chosen \in {"file", "remove"} THEN R ELSE <<>>
           Z == UpdateRow(r, files, TRUE, AsIs)
           XY == X \o Y
           todo == XY \o Z
<1>2. Begin(w, "update", kind, r, todo)
  BY <1>1
<1>3. kind \notin DropLists
  BY <1>1, CarriersCarry
<1> HIDE DEF kind, old, files
<1>4. Easy(X) /\ Easy(R) /\ Easy(<<>>)
  BY EasyStore, EasyRemoval, EasyNone
<1> HIDE DEF X, R
<1>5. Easy(Y)
  <2>1. Y = R \/ Y = <<>>
    OBVIOUS
  <2> HIDE DEF Y
  <2>2. QED
    BY <1>4, <2>1
<1> HIDE DEF Y
<1>6. Fine(kind, r, X) /\ Fine(kind, r, Y)
  BY <1>4, <1>5, FineEasy
<1>7. Fine(kind, r, Z)
  BY FineUpdating
<1> HIDE DEF Z
<1>8. Fine(kind, r, XY)
  BY <1>6, FineConcat
<1> HIDE DEF XY
<1>9. Fine(kind, r, todo)
  BY <1>7, <1>8, FineConcat
<1> HIDE DEF todo
<1>10. QED
  BY <1>2, <1>3, <1>9, SoundRequest

LEMMA DeleteCarrierSound ==
    ASSUME IInv, SInv, NEW w \in Workers, DeleteCarrier(w), UNCHANGED <<zip, snapshot>>
    PROVE  SInv'
<1>1. PICK s, r : /\ s \in Carriers /\ r \in OfKind(s.kind)
                  /\ Begin(w, "delete", s.kind, r, Removal(rows[r].files[1]) \o Deletion(s.kind, r))
  BY DEF DeleteCarrier
<1> DEFINE kind == s.kind
           X == Removal(rows[r].files[1])
           Y == Deletion(kind, r)
           todo == X \o Y
<1>2. Begin(w, "delete", kind, r, todo)
  BY <1>1
<1>3. kind \notin DropLists
  BY <1>1, CarriersCarry
<1>4. Easy(X) /\ Easy(Y)
  BY EasyDeletion, EasyRemoval
<1> HIDE DEF X, Y, kind
<1>5. Easy(todo)
  BY <1>4, EasyConcat
<1> HIDE DEF todo
<1>6. Fine(kind, r, todo)
  BY <1>5, FineEasy
<1>7. QED
  BY <1>2, <1>3, <1>6, SoundRequest

\* A name is looked up before it is written.
LEMMA EntrySound ==
    ASSUME IInv, SInv, NEW w \in Workers, EntryRequest(w), UNCHANGED <<zip, snapshot>>
    PROVE  SInv'
<1>1. \A list \in Lists : /\ list \in DropLists /\ Columns(list) = 0 /\ 0 = ListsOf(list) /\ list # "product"
  BY ListsAssumption, BareKinds, ListsOfKinds, KindsAre
<1>2. CASE CreateEntry(w)
  <2>1. PICK list \in Lists, name \in Names :
           /\ FindByName(list, name) = {}
           /\ Begin(w, "create", list, None, <<[do |-> "insert", row |-> Row(list, None, None, <<>>, 0, name)]>>)
    BY <1>2 DEF CreateEntry
  <2> DEFINE row == Row(list, None, None, <<>>, 0, name)
             c == [do |-> "insert", row |-> row]
             todo == <<c>>
  <2>2. Begin(w, "create", list, None, todo) /\ Len(todo) <= 1
    BY <2>1
  <2>3. row = Row(list, None, None, <<>>, 0, name)
    OBVIOUS
  <2> HIDE DEF row
  <2>4. Columns(list) = 0 /\ 0 = ListsOf(list) /\ list # "product"
    BY <1>1
  <2>5. NewRow(row, list, None, None, <<>>, name)
    BY ONLY <2>3, <2>4, BareRecord
  <2>6. row.kind = list /\ IsRecord(row) /\ row.side = None /\ row.text = name
    BY <2>5 DEF NewRow
  <2>7. name # ""
    BY NamesAssumption
  <2>8. NewName(name, None, list, rows)
    BY <2>1 DEF FindByName, OfKind, NewName
  <2>9. Placed(row, rows, nextId)
    BY <2>6, InNone
  <2>10. Fine(list, None, todo)
    BY <2>6, <2>7, <2>8, <2>9, FineInsert
  <2> HIDE DEF todo
  <2>11. QED
    BY <2>2, <2>10, SoundRequest
<1>3. CASE UpdateEntry(w)
  <2>1. PICK list, e, name :
           /\ list \in Lists /\ e \in OfKind(list) /\ name \in Names /\ FindByName(list, name) \subseteq {e}
           /\ Begin(w, "update", list, e, UpdateRow(e, <<>>, TRUE, name))
    BY <1>3 DEF UpdateEntry
  <2> DEFINE todo == UpdateRow(e, <<>>, TRUE, name)
  <2>2. Begin(w, "update", list, e, todo) /\ Len(todo) <= 1
    BY <2>1 DEF UpdateRow
  <2>3. name # "" /\ list \in DropLists
    BY <1>1, <2>1, NamesAssumption
  <2>4. NewName(name, e, list, rows)
    BY <2>1 DEF FindByName, OfKind, NewName
  <2>5. Fine(list, e, todo)
    BY <2>3, <2>4, FineUpdating
  <2> HIDE DEF todo
  <2>6. QED
    BY <2>2, <2>5, SoundRequest
<1>4. CASE DeleteEntry(w)
  <2>1. PICK list, e : list \in Lists /\ e \in OfKind(list) /\ Begin(w, "delete", list, e, Deletion(list, e))
    BY <1>4 DEF DeleteEntry
  <2>2. QED
    BY <2>1, PlainDeleteSound
<1>5. QED
  BY <1>2, <1>3, <1>4 DEF EntryRequest

LEMMA MasterDataRequestSound ==
    ASSUME IInv, SInv, NEW w \in Workers, MasterDataRequest(w), UNCHANGED <<zip, snapshot>>
    PROVE  SInv'
BY CreateRecordSound, UpdateRecordSound, DeleteRecordSound, SaveCompanySound, CreateCarrierSound,
   UpdateCarrierSound, DeleteCarrierSound, EntrySound DEF MasterDataRequest

-----------------------------------------------------------------------------
(* What all steps keep.                                                    *)

LEMMA CreateBackupZipSound ==
    ASSUME IInv, SInv, NEW w \in Workers, CreateBackupZip(w), UNCHANGED <<zip, snapshot>>
    PROVE  SInv'
<1> DEFINE c == [do |-> "copy database"]
           todo == <<c>>
           j == Begun(w, "backup", "zip", None, todo)
<1>1. Begin(w, "backup", "zip", None, todo) /\ j = Begun(w, "backup", "zip", None, todo) /\ c.do = "copy database"
  BY DEF CreateBackupZip
<1>2. "backup" \notin Ordinary
  BY DEF Ordinary
<1> HIDE DEF c
<1>3. CallsOf(todo) = {c}
  BY CallsOfOne
<1> HIDE DEF todo, j
<1>4. j.op = "backup" /\ j.todo = todo
  BY ONLY <1>1 DEF Begun, NewJob
<1>5. RightJob(j, rows, nextId)
  BY <1>1, <1>2, <1>3, <1>4 DEF RightJob
<1>6. QED
  BY <1>1, <1>5, SoundBegin

\* Nothing a restore has to do is a download.
LEMMA RestorationSends == \A c \in CallsOf(Restoration) : c.do # "send"
<1>1. Len(Restoration) = 15 /\ Follows(Restoration) /\ DOMAIN Restoration = 1..15
  BY RestorationFollows, ListIs
<1>2. ASSUME NEW p \in 1..15 PROVE Restoration[p].do # "send"
  <2>1. p + 15 - 15 = p
    OBVIOUS
  <2>2. InProgram(Restoration[p], p)
    BY <1>1, <2>1 DEF Follows
  <2>3. QED
    BY <2>2, ProgramDos DEF InProgram
<1>3. QED
  BY <1>1, <1>2 DEF CallsOf

LEMMA RestoreFromZipSound ==
    ASSUME IInv, SInv, NEW w \in Workers, RestoreFromZip(w), UNCHANGED <<zip, snapshot>>
    PROVE  SInv'
<1>1. PICK chosen \in {"ours", "not ours", "newer"} :
        Begin(w, "restore", "zip", None,
              IF chosen # "ours" THEN <<[do |-> "refuse"]>>
              ELSE <<[do |-> "keep database"]>> \o Each("keep")
                       \o <<[do |-> "swap database"]>> \o SwapIn \o <<[do |-> "migrate"]>>)
  BY DEF RestoreFromZip
<1>2. Begin(w, "restore", "zip", None, IF chosen # "ours" THEN Refused ELSE Restoration)
  BY <1>1 DEF Refused, Restoration
<1> DEFINE todo == IF chosen # "ours" THEN Refused ELSE Restoration
           j == Begun(w, "restore", "zip", None, todo)
<1>3. Begin(w, "restore", "zip", None, todo) /\ j = Begun(w, "restore", "zip", None, todo)
  BY <1>2
<1>4. todo = Refused \/ todo = Restoration
  OBVIOUS
<1>5. \A c \in CallsOf(Refused) : c.do # "send"
  <2> DEFINE c == [do |-> "refuse"]
  <2>1. c.do = "refuse"
    OBVIOUS
  <2> HIDE DEF c
  <2>2. CallsOf(<<c>>) = {c}
    BY CallsOfOne
  <2>3. Refused = <<c>>
    BY DEF Refused, c
  <2>4. QED
    BY <2>1, <2>2, <2>3
<1> HIDE DEF todo, j
<1>6. \A c \in CallsOf(todo) : c.do # "send"
  BY <1>4, <1>5, RestorationSends
<1>7. "restore" \notin Ordinary
  BY DEF Ordinary
<1>8. j.op = "restore" /\ j.todo = todo
  BY ONLY <1>3 DEF Begun, NewJob
<1>9. RightJob(j, rows, nextId)
  BY <1>6, <1>7, <1>8 DEF RightJob
<1>10. QED
  BY <1>3, <1>9, SoundBegin

LEMMA SoundNext ==
    ASSUME IInv, SInv, [Next]_vars
    PROVE  SInv'
<1>1. CASE UNCHANGED vars
  BY <1>1 DEF vars, SInv, SoundInv
<1>2. CASE Next
  <2>1. PICK w \in Workers :
           \/ /\ \/ Request(w) \/ Call(w) \/ CatalogueCall(w) \/ Kill(w)
                 \/ CopyDatabase(w) \/ Walk(w) \/ SwapDatabase(w) \/ MoveAside(w) \/ CopyIn(w) \/ Migrate(w)
              /\ UNCHANGED <<zip, snapshot>>
           \/ Send(w) /\ UNCHANGED snapshot
           \/ (KeepDatabase(w) \/ KeepTree(w)) /\ UNCHANGED zip
    BY <1>2 DEF Next
  <2>2. CASE Request(w) /\ UNCHANGED <<zip, snapshot>>
    BY <2>2, CatalogueRequestSound, MasterDataRequestSound, CreateBackupZipSound, RestoreFromZipSound DEF Request
  <2>3. CASE Call(w) /\ UNCHANGED <<zip, snapshot>>
    BY <2>3, InsertSound, UpdateSound, ReplaceSound, DeleteSound, FileCallsSound DEF Call
  <2>4. CASE CatalogueCall(w) /\ UNCHANGED <<zip, snapshot>>
    BY <2>4, ListProductsSound, CopyPalletsSound, OpenProductSound, CountSound DEF CatalogueCall
  <2>5. CASE Kill(w) /\ UNCHANGED <<zip, snapshot>>
    BY <2>5, KillSound
  <2>6. CASE (CopyDatabase(w) \/ Walk(w)) /\ UNCHANGED <<zip, snapshot>>
    BY <2>6, CopyDatabaseSound, WalkSound
  <2>7. CASE (SwapDatabase(w) \/ MoveAside(w) \/ CopyIn(w)) /\ UNCHANGED <<zip, snapshot>>
    BY <2>7, SwapDatabaseSound, MoveAsideSound, CopyInSound
  <2>8. CASE Migrate(w) /\ UNCHANGED <<zip, snapshot>>
    BY <2>8, FileCallsSound
  <2>9. CASE Send(w) /\ UNCHANGED snapshot
    BY <2>9, SendSound
  <2>10. CASE (KeepDatabase(w) \/ KeepTree(w)) /\ UNCHANGED zip
    BY <2>10, FileCallsSound
  <2>11. QED
    BY <2>1, <2>2, <2>3, <2>4, <2>5, <2>6, <2>7, <2>8, <2>9, <2>10
<1>3. QED
  BY <1>1, <1>2

LEMMA SoundInit == Init => SInv
<1> SUFFICES ASSUME Init PROVE SInv
  OBVIOUS
<1>1. /\ rows = Stored /\ nextId = Cardinality(DOMAIN Stored) + 1 /\ zip = Earlier
      /\ \A w \in Workers : job[w] = Idle
  BY DEF Init
<1>2. IsSound(rows, nextId) /\ IsSound(zip.rows, zip.nextId)
  BY <1>1, SoundAssumption
<1>3. QED
  BY <1>1, <1>2 DEF SInv, SoundInv

\* Rows refer to rows of the right kind that are there, what lies in a folder is
\* in the product of the folder, no drop list holds a name twice, and what the
\* requests under way are about to write will keep it so, at all times.
THEOREM RecordsStaySound == Spec => []SInv
<1>1. Init => IInv /\ SInv
  BY InitInv, SoundInit
<1>2. (IInv /\ SInv) /\ [Next]_vars => (IInv /\ SInv)'
  BY NextInv, SoundNext
<1>3. QED
  BY <1>1, <1>2, PTL DEF Spec

-----------------------------------------------------------------------------
(* Types, and names that differ.                                           *)

\* Requests and kills are counted up to their bounds.
CountsHold == served \in 0..MaxRequests /\ kills \in 0..MaxKills

\* A request is counted as it begins, a kill as it happens; nothing else counts.
LEMMA CountsStay ==
    ASSUME CountsHold, [Next]_vars
    PROVE  CountsHold'
<1> USE BoundsAssumption
<1>1. CASE UNCHANGED <<served, kills>>
  BY <1>1 DEF CountsHold
<1>2. ASSUME NEW w \in Workers, Request(w)
      PROVE  served' = served + 1 /\ served < MaxRequests /\ UNCHANGED kills
  <2>1. ASSUME NEW op, NEW kind, NEW id, NEW todo, Begin(w, op, kind, id, todo)
        PROVE  served' = served + 1 /\ served < MaxRequests /\ UNCHANGED kills
    BY <2>1 DEF Begin
  <2>2. CASE CatalogueRequest(w)
    BY <2>1, <2>2 DEF CatalogueRequest, CreateCategory, Rename, DeleteCategory, CreateProduct,
       UpdateProduct, DuplicateProduct, DeleteProduct, CreateFolder, DeleteFolder, CreateDesign,
       DuplicateDesign, UpdateDesign, DeleteDesign
  <2>3. CASE MasterDataRequest(w)
    BY <2>1, <2>3 DEF MasterDataRequest, CreateRecord, UpdateRecord, DeleteRecord, SaveCompany,
       CreateCarrier, UpdateCarrier, DeleteCarrier, EntryRequest, CreateEntry, UpdateEntry, DeleteEntry
  <2>4. CASE CreateBackupZip(w) \/ RestoreFromZip(w)
    BY <2>1, <2>4 DEF CreateBackupZip, RestoreFromZip
  <2>5. QED
    BY <1>2, <2>2, <2>3, <2>4 DEF Request
<1>3. ASSUME NEW w \in Workers, Kill(w)
      PROVE  kills' = kills + 1 /\ kills < MaxKills /\ UNCHANGED served
  BY <1>3 DEF Kill
<1>4. CASE Next
  <2>1. PICK w \in Workers :
           \/ Request(w) \/ Kill(w)
           \/ Call(w) \/ CatalogueCall(w)
           \/ CopyDatabase(w) \/ Walk(w) \/ SwapDatabase(w) \/ MoveAside(w) \/ CopyIn(w) \/ Migrate(w)
           \/ Send(w) \/ KeepDatabase(w) \/ KeepTree(w)
    BY <1>4 DEF Next
  <2>2. CASE Request(w)
    BY <1>2, <2>2 DEF CountsHold
  <2>3. CASE Kill(w)
    BY <1>3, <2>3 DEF CountsHold
  <2>4. CASE Call(w)
    BY <1>1, <2>4 DEF Call, Insert, Update, Replace, Delete, Write, Unlink, Refuse
  <2>5. CASE CatalogueCall(w)
    BY <1>1, <2>5 DEF CatalogueCall, ListProducts, CopyPallets, OpenProduct, Count
  <2>6. CASE \/ CopyDatabase(w) \/ Walk(w) \/ SwapDatabase(w) \/ MoveAside(w) \/ CopyIn(w) \/ Migrate(w)
             \/ Send(w) \/ KeepDatabase(w) \/ KeepTree(w)
    BY <1>1, <2>6 DEF CopyDatabase, Walk, SwapDatabase, MoveAside, CopyIn, Migrate, Send, KeepDatabase, KeepTree
  <2>7. QED
    BY <2>1, <2>2, <2>3, <2>4, <2>5, <2>6
<1>5. QED
  BY <1>1, <1>4 DEF vars

\* What the invariants say of types.
LEMMA TypesFollow ==
    ASSUME IInv, SInv, CountsHold
    PROVE  TypeOK
<1>1. /\ IsTable(rows) /\ disk \subseteq Files /\ zip.files \subseteq Files
      /\ \A w \in Workers : job[w] = Idle \/ IsJob(job[w], served)
  BY DEF IInv, Inv, DataInv, JobInv
<1>2. IsSound(rows, nextId)
  BY DEF SInv, SoundInv
<1>3. \A f \in Files : f.tree \in Range(Trees)
  <2>1. \A f \in Files : f.tree \in TreeNames
    BY DEF Files
  <2>2. TreeNames = Range(Trees)
    BY DEF TreeNames, Range
  <2>3. QED
    BY <2>1, <2>2
<1>4. ASSUME NEW i \in DOMAIN rows
      PROVE  /\ i \in 1..nextId - 1
             /\ Referable(rows[i].up, UpOf(rows[i].kind)) /\ Referable(rows[i].side, SideOf(rows[i].kind))
  BY <1>2 DEF IsSound, LeadsTo, Referable
<1>5. ASSUME NEW i \in DOMAIN rows, NEW f \in Range(rows[i].files)
      PROVE  f = NoFile \/ f.tree \in Range(Trees)
  <2>1. PICK k \in DOMAIN rows[i].files : f = rows[i].files[k]
    BY DEF Range
  <2>2. IsRow(rows[i])
    BY <1>1 DEF IsTable
  <2>3. f = NoFile \/ f \in Files
    BY <2>1, <2>2, RowFiles, FitsFile
  <2>4. QED
    BY <1>3, <2>3
<1>6. \A w \in Workers : job[w] = Idle \/ (job[w].end = "no") = (job[w].todo # <<>>)
  BY <1>1 DEF IsJob
<1>7. \A f \in disk \union zip.files : f.tree \in Range(Trees)
  BY <1>1, <1>3
<1>8. QED
  BY <1>4, <1>5, <1>6, <1>7 DEF TypeOK, CountsHold

\* Rows refer to rows of the right kind, files lie in their folders, a worker
\* that is done has nothing left to do, and no bound is passed.
THEOREM RecordTypesHold == Spec => []TypeOK
<1>1. Init => IInv /\ SInv /\ CountsHold
  <2>1. Init => CountsHold
    BY BoundsAssumption DEF Init, CountsHold
  <2>2. QED
    BY <2>1, InitInv, SoundInit
<1>2. (IInv /\ SInv /\ CountsHold) /\ [Next]_vars => (IInv /\ SInv /\ CountsHold)'
  BY NextInv, SoundNext, CountsStay
<1>3. IInv /\ SInv /\ CountsHold => TypeOK
  BY TypesFollow
<1>4. QED
  BY <1>1, <1>2, <1>3, PTL DEF Spec

\* No drop list ever holds a name twice, in whatever case, unless two requests
\* wrote to it at once: then not in the same letters.
THEOREM EntriesStayDistinct == Spec => []EntriesDiffer
<1>1. SInv => EntriesDiffer
  BY DEF SInv, SoundInv, IsSound, EntriesDiffer
<1>2. QED
  BY <1>1, RecordsStaySound, PTL
=============================================================================
