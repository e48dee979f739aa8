-------------------------- MODULE SchemaMigration_proofs --------------------------
(***************************************************************************)
(* What holds of SchemaMigration for any number of workers, any version    *)
(* the database may arrive at, and workers killed and started again at any *)
(* statement: no row is lost, and the moves whose copy and DROP share a    *)
(* transaction are complete whenever a start is.                           *)
(*                                                                         *)
(* The program is a list of 108 statements.  Its first lemmas say which     *)
(* statement stands where; the invariant then says, of a worker that has   *)
(* come to a DROP, where the rows are that the table held.                 *)
(***************************************************************************)
EXTENDS SchemaMigration, SequenceTheorems, TLAPS

-----------------------------------------------------------------------------
(* Lists of statements, and a list as a stretch of a longer one.           *)

Block(b, n) == (\E S : b \in Seq(S)) /\ Len(b) = n
Reads(p, o, b) == \A j \in 1..Len(b) : p[o + j] = b[j]
If(cond, skip) == [op |-> "if", cond |-> cond, skip |-> skip]

\* A list of one statement.
LEMMA One ==
    ASSUME NEW s
    PROVE  /\ Block(<<s>>, 1)
           /\ \A p, o : Reads(p, o, <<s>>) => p[o + 1] = s
<1>1. s \in {s}
  OBVIOUS
<1>2. <<s>> \in Seq({s}) /\ Len(<<s>>) = 1 /\ <<s>>[1] = s
  BY <1>1
<1>3. 1 \in 1..1
  OBVIOUS
<1>4. QED
  BY <1>2, <1>3 DEF Block, Reads

\* One list after the other.
LEMMA Cat ==
    ASSUME NEW a, NEW b, NEW m \in Nat, NEW n \in Nat, Block(a, m), Block(b, n)
    PROVE  /\ Block(a \o b, m + n)
           /\ \A p, o : o \in Nat /\ Reads(p, o, a \o b) => Reads(p, o, a) /\ Reads(p, o + m, b)
<1>1. PICK S : a \in Seq(S)
  BY DEF Block
<1>2. PICK T : b \in Seq(T)
  BY DEF Block
<1>3. a \in Seq(S \union T) /\ b \in Seq(S \union T)
  <2>1. S \subseteq S \union T /\ T \subseteq S \union T
    OBVIOUS
  <2>2. QED
    BY <1>1, <1>2, <2>1, SeqMonotonic
<1>4. Len(a) = m /\ Len(b) = n
  BY DEF Block
<1>5. /\ a \o b \in Seq(S \union T) /\ Len(a \o b) = m + n
      /\ \A i \in 1..m + n : (a \o b)[i] = IF i <= m THEN a[i] ELSE b[i - m]
  BY <1>3, <1>4, ConcatProperties
<1>6. ASSUME NEW p, NEW o \in Nat, \A j \in 1..m + n : p[o + j] = (a \o b)[j]
      PROVE  /\ \A j \in 1..m : p[o + j] = a[j]
             /\ \A j \in 1..n : p[(o + m) + j] = b[j]
  <2>1. ASSUME NEW j \in 1..m PROVE p[o + j] = a[j]
    <3>1. j \in 1..m + n /\ j <= m
      OBVIOUS
    <3>2. QED
      BY <1>5, <1>6, <3>1
  <2>2. ASSUME NEW j \in 1..n PROVE p[(o + m) + j] = b[j]
    <3>1. m + j \in 1..m + n /\ ~(m + j <= m) /\ (m + j) - m = j /\ o + (m + j) = (o + m) + j
      OBVIOUS
    <3>2. (a \o b)[m + j] = b[j]
      BY <1>5, <3>1
    <3>3. p[o + (m + j)] = (a \o b)[m + j]
      BY <1>6, <3>1
    <3>4. QED
      BY <3>1, <3>2, <3>3
  <2>3. QED
    BY <2>1, <2>2
<1>7. Block(a \o b, m + n)
  BY <1>5 DEF Block
<1>8. ASSUME NEW p, NEW o \in Nat, Reads(p, o, a \o b)
      PROVE  Reads(p, o, a) /\ Reads(p, o + m, b)
  <2>1. \A j \in 1..m + n : p[o + j] = (a \o b)[j]
    BY <1>5, <1>8 DEF Reads
  <2>2. /\ \A j \in 1..m : p[o + j] = a[j]
        /\ \A j \in 1..n : p[(o + m) + j] = b[j]
    BY <1>6, <2>1
  <2>3. QED
    BY <1>4, <2>2 DEF Reads
<1>9. QED
  BY <1>7, <1>8

\* "if cond: body" is a test and the body.
LEMMA WhenIs ==
    ASSUME NEW cond, NEW body, NEW n \in Nat, Block(body, n)
    PROVE  /\ Block(When(cond, body), 1 + n)
           /\ \A p, o : o \in Nat /\ Reads(p, o, When(cond, body)) =>
                 p[o + 1] = If(cond, n) /\ Reads(p, o + 1, body)
<1>1. When(cond, body) = <<If(cond, n)>> \o body
  BY DEF When, If, Block
<1>2. Block(<<If(cond, n)>>, 1) /\ \A p, o : Reads(p, o, <<If(cond, n)>>) => p[o + 1] = If(cond, n)
  BY One
<1>3. /\ Block(<<If(cond, n)>> \o body, 1 + n)
      /\ \A p, o : o \in Nat /\ Reads(p, o, <<If(cond, n)>> \o body) =>
            Reads(p, o, <<If(cond, n)>>) /\ Reads(p, o + 1, body)
  BY <1>2, Cat
<1>4. QED
  BY <1>1, <1>2, <1>3

\* A list of two statements.
LEMMA Two ==
    ASSUME NEW a, NEW b
    PROVE  /\ Block(<<a, b>>, 2)
           /\ \A p, o : o \in Nat /\ Reads(p, o, <<a, b>>) =>
                 p[o + 1] = a /\ p[o + 2] = b
<1> DEFINE u == <<a, b>> S == {a, b}
<1>1. u \in Seq(S) /\ Len(u) = 2 /\ u[1] = a /\ u[2] = b
  <2>1. a \in S /\ b \in S
    OBVIOUS
  <2> HIDE DEF S
  <2>2. QED
    BY <2>1
<1> HIDE DEF u, S
<1>2. Block(u, 2)
  BY <1>1 DEF Block
<1>3. ASSUME NEW p, NEW o \in Nat, Reads(p, o, u)
      PROVE  p[o + 1] = a /\ p[o + 2] = b
  <2>1. 1 \in 1..2 /\ 2 \in 1..2
    OBVIOUS
  <2>2. QED
    BY <1>1, <1>3, <2>1 DEF Reads
<1>4. QED
  BY <1>2, <1>3 DEF u

\* A list of three statements.
LEMMA Three ==
    ASSUME NEW a, NEW b, NEW c
    PROVE  /\ Block(<<a, b, c>>, 3)
           /\ \A p, o : o \in Nat /\ Reads(p, o, <<a, b, c>>) =>
                 p[o + 1] = a /\ p[o + 2] = b /\ p[o + 3] = c
<1> DEFINE u == <<a, b, c>> S == {a, b, c}
<1>1. u \in Seq(S) /\ Len(u) = 3 /\ u[1] = a /\ u[2] = b /\ u[3] = c
  <2>1. a \in S /\ b \in S /\ c \in S
    OBVIOUS
  <2> HIDE DEF S
  <2>2. QED
    BY <2>1
<1> HIDE DEF u, S
<1>2. Block(u, 3)
  BY <1>1 DEF Block
<1>3. ASSUME NEW p, NEW o \in Nat, Reads(p, o, u)
      PROVE  p[o + 1] = a /\ p[o + 2] = b /\ p[o + 3] = c
  <2>1. 1 \in 1..3 /\ 2 \in 1..3 /\ 3 \in 1..3
    OBVIOUS
  <2>2. QED
    BY <1>1, <1>3, <2>1 DEF Reads
<1>4. QED
  BY <1>2, <1>3 DEF u

\* A list of four statements.
LEMMA Four ==
    ASSUME NEW a, NEW b, NEW c, NEW d
    PROVE  /\ Block(<<a, b, c, d>>, 4)
           /\ \A p, o : o \in Nat /\ Reads(p, o, <<a, b, c, d>>) =>
                 p[o + 1] = a /\ p[o + 2] = b /\ p[o + 3] = c /\ p[o + 4] = d
<1> DEFINE u == <<a, b, c, d>> S == {a, b, c, d}
<1>1. u \in Seq(S) /\ Len(u) = 4 /\ u[1] = a /\ u[2] = b /\ u[3] = c /\ u[4] = d
  <2>1. a \in S /\ b \in S /\ c \in S /\ d \in S
    OBVIOUS
  <2> HIDE DEF S
  <2>2. QED
    BY <2>1
<1> HIDE DEF u, S
<1>2. Block(u, 4)
  BY <1>1 DEF Block
<1>3. ASSUME NEW p, NEW o \in Nat, Reads(p, o, u)
      PROVE  p[o + 1] = a /\ p[o + 2] = b /\ p[o + 3] = c /\ p[o + 4] = d
  <2>1. 1 \in 1..4 /\ 2 \in 1..4 /\ 3 \in 1..4 /\ 4 \in 1..4
    OBVIOUS
  <2>2. QED
    BY <1>1, <1>3, <2>1 DEF Reads
<1>4. QED
  BY <1>2, <1>3 DEF u

\* A list of five statements.
LEMMA Five ==
    ASSUME NEW a, NEW b, NEW c, NEW d, NEW e
    PROVE  /\ Block(<<a, b, c, d, e>>, 5)
           /\ \A p, o : o \in Nat /\ Reads(p, o, <<a, b, c, d, e>>) =>
                 p[o + 1] = a /\ p[o + 2] = b /\ p[o + 3] = c /\ p[o + 4] = d /\ p[o + 5] = e
<1> DEFINE u == <<a, b, c, d, e>> S == {a, b, c, d, e}
<1>1. u \in Seq(S) /\ Len(u) = 5 /\ u[1] = a /\ u[2] = b /\ u[3] = c /\ u[4] = d /\ u[5] = e
  <2>1. a \in S /\ b \in S /\ c \in S /\ d \in S /\ e \in S
    OBVIOUS
  <2> HIDE DEF S
  <2>2. QED
    BY <2>1
<1> HIDE DEF u, S
<1>2. Block(u, 5)
  BY <1>1 DEF Block
<1>3. ASSUME NEW p, NEW o \in Nat, Reads(p, o, u)
      PROVE  p[o + 1] = a /\ p[o + 2] = b /\ p[o + 3] = c /\ p[o + 4] = d /\ p[o + 5] = e
  <2>1. 1 \in 1..5 /\ 2 \in 1..5 /\ 3 \in 1..5 /\ 4 \in 1..5 /\ 5 \in 1..5
    OBVIOUS
  <2>2. QED
    BY <1>1, <1>3, <2>1 DEF Reads
<1>4. QED
  BY <1>2, <1>3 DEF u

-----------------------------------------------------------------------------
(* The blocks, statement by statement.                                     *)

\* A column that is added where it is missing.
LEMMA AddColumnReads ==
    ASSUME NEW n, NEW t
    PROVE  /\ Block(AddColumn(n, t), 2)
           /\ \A p, o : o \in Nat /\ Reads(p, o, AddColumn(n, t)) =>
                 p[o + 1] = If(MissingFrom(n, t), 1) /\ p[o + 2] = Create(n)
<1> DEFINE body == <<Create(n)>>
<1>1. AddColumn(n, t) = When(MissingFrom(n, t), body)
  BY DEF AddColumn
<1>2. Block(body, 1) /\ \A p, o : Reads(p, o, body) => p[o + 1] = Create(n)
  BY One
<1> HIDE DEF body
<1>3. /\ Block(When(MissingFrom(n, t), body), 2)
      /\ \A p, o : o \in Nat /\ Reads(p, o, When(MissingFrom(n, t), body)) =>
            p[o + 1] = If(MissingFrom(n, t), 1) /\ Reads(p, o + 1, body)
  BY <1>2, WhenIs
<1>4. ASSUME NEW p, NEW o \in Nat, Reads(p, o, When(MissingFrom(n, t), body))
      PROVE  p[o + 1] = If(MissingFrom(n, t), 1) /\ p[o + 2] = Create(n)
  <2>1. p[o + 1] = If(MissingFrom(n, t), 1) /\ Reads(p, o + 1, body) /\ (o + 1) + 1 = o + 2
    BY <1>3, <1>4
  <2>2. QED
    BY <1>2, <2>1
<1>5. QED
  BY <1>1, <1>3, <1>4

\* A column that is copied where a row holds it.
LEMMA UpdateEachReads ==
    ASSUME NEW from, NEW to
    PROVE  /\ Block(UpdateEach(from, to), 2)
           /\ \A p, o : o \in Nat /\ Reads(p, o, UpdateEach(from, to)) =>
                 p[o + 1] = If(Filled(from), 1) /\ p[o + 2] = UpdateRows(from, to)
<1> DEFINE body == <<UpdateRows(from, to)>>
<1>1. UpdateEach(from, to) = When(Filled(from), body)
  BY DEF UpdateEach
<1>2. Block(body, 1) /\ \A p, o : Reads(p, o, body) => p[o + 1] = UpdateRows(from, to)
  BY One
<1> HIDE DEF body
<1>3. /\ Block(When(Filled(from), body), 2)
      /\ \A p, o : o \in Nat /\ Reads(p, o, When(Filled(from), body)) =>
            p[o + 1] = If(Filled(from), 1) /\ Reads(p, o + 1, body)
  BY <1>2, WhenIs
<1>4. ASSUME NEW p, NEW o \in Nat, Reads(p, o, When(Filled(from), body))
      PROVE  p[o + 1] = If(Filled(from), 1) /\ p[o + 2] = UpdateRows(from, to)
  <2>1. p[o + 1] = If(Filled(from), 1) /\ Reads(p, o + 1, body) /\ (o + 1) + 1 = o + 2
    BY <1>3, <1>4
  <2>2. QED
    BY <1>2, <2>1
<1>5. QED
  BY <1>1, <1>3, <1>4

\* A column that is dropped where it is there.
LEMMA DropColumnReads ==
    ASSUME NEW n
    PROVE  /\ Block(DropColumn(n), 2)
           /\ \A p, o : o \in Nat /\ Reads(p, o, DropColumn(n)) =>
                 p[o + 1] = If(Present(n), 1) /\ p[o + 2] = Drop(n)
<1> DEFINE body == <<Drop(n)>>
<1>1. DropColumn(n) = When(Present(n), body)
  BY DEF DropColumn
<1>2. Block(body, 1) /\ \A p, o : Reads(p, o, body) => p[o + 1] = Drop(n)
  BY One
<1> HIDE DEF body
<1>3. /\ Block(When(Present(n), body), 2)
      /\ \A p, o : o \in Nat /\ Reads(p, o, When(Present(n), body)) =>
            p[o + 1] = If(Present(n), 1) /\ Reads(p, o + 1, body)
  BY <1>2, WhenIs
<1>4. ASSUME NEW p, NEW o \in Nat, Reads(p, o, When(Present(n), body))
      PROVE  p[o + 1] = If(Present(n), 1) /\ p[o + 2] = Drop(n)
  <2>1. p[o + 1] = If(Present(n), 1) /\ Reads(p, o + 1, body) /\ (o + 1) + 1 = o + 2
    BY <1>3, <1>4
  <2>2. QED
    BY <1>2, <2>1
<1>5. QED
  BY <1>1, <1>3, <1>4

\* The statements of the block of v13.
LEMMA ClientSplitReads ==
    /\ Block(ClientSplit, 5)
    /\ \A p, o : o \in Nat /\ Reads(p, o, ClientSplit) =>
          /\ p[o + 1] = If(Present("clients"), 4)
          /\ p[o + 2] = Commit
          /\ p[o + 3] = Backup
          /\ p[o + 4] = Insert("clients", "buyers")
          /\ p[o + 5] = Insert("clients", "exporters")
<1> DEFINE a == <<Commit, Backup, Insert("clients", "buyers"), Insert("clients", "exporters")>>
           b == When(Present("clients"), a)
<1>1. ClientSplit = b
  BY DEF ClientSplit
<1> HIDE DEF a, b
<1>2. /\ Block(a, 4)
      /\ \A p, o : o \in Nat /\ Reads(p, o, a) =>
            p[o + 1] = Commit /\ p[o + 2] = Backup /\ p[o + 3] = Insert("clients", "buyers") /\ p[o + 4] = Insert("clients", "exporters")
  BY Four DEF a
<1>3. /\ Block(b, 5)
      /\ \A p, o : o \in Nat /\ Reads(p, o, b) =>
            p[o + 1] = If(Present("clients"), 4) /\ Reads(p, o + 1, a)
  BY <1>2, WhenIs DEF b
<1>4. ASSUME NEW p, NEW o \in Nat, Reads(p, o, b)
      PROVE  /\ p[o + 1] = If(Present("clients"), 4)
             /\ p[o + 2] = Commit
             /\ p[o + 3] = Backup
             /\ p[o + 4] = Insert("clients", "buyers")
             /\ p[o + 5] = Insert("clients", "exporters")
  <2>1. p[o + 1] = If(Present("clients"), 4) /\ Reads(p, o + 1, a)
    BY <1>4, <1>3
  <2>2. p[o + 2] = Commit /\ p[o + 3] = Backup /\ p[o + 4] = Insert("clients", "buyers") /\ p[o + 5] = Insert("clients", "exporters")
    BY <2>1, <1>2
  <2>3. QED
    BY <2>1, <2>2
<1>5. QED
  BY <1>1, <1>3, <1>4

\* The statements of the block of v24.
LEMMA PermitSupplierReads ==
    /\ Block(PermitSupplier, 2)
    /\ \A p, o : o \in Nat /\ Reads(p, o, PermitSupplier) =>
          /\ p[o + 1] = If(Present("permit_supplier"), 1)
          /\ p[o + 2] = Drop("permit_supplier")
<1> DEFINE a == DropColumn("permit_supplier")
<1>1. PermitSupplier = a
  BY DEF PermitSupplier
<1> HIDE DEF a
<1>2. /\ Block(a, 2)
      /\ \A p, o : o \in Nat /\ Reads(p, o, a) =>
            p[o + 1] = If(Present("permit_supplier"), 1) /\ p[o + 2] = Drop("permit_supplier")
  BY DropColumnReads DEF a
<1>3. QED
  BY <1>1, <1>2

\* The statements of the block of v26.
LEMMA BuyerOrdersReads ==
    /\ Block(BuyerOrders, 6)
    /\ \A p, o : o \in Nat /\ Reads(p, o, BuyerOrders) =>
          /\ p[o + 1] = If(MissingFrom("buyer_order_no", "export_invoices"), 1)
          /\ p[o + 2] = Create("buyer_order_no")
          /\ p[o + 3] = If(Present("buyer_orders"), 3)
          /\ p[o + 4] = If(Filled("buyer_orders"), 1)
          /\ p[o + 5] = UpdateRows("buyer_orders", "buyer_order_no")
          /\ p[o + 6] = Drop("buyer_orders")
<1> DEFINE a == AddColumn("buyer_order_no", "export_invoices")
           b == UpdateEach("buyer_orders", "buyer_order_no")
           c == <<Drop("buyer_orders")>>
           d == b \o c
           e == When(Present("buyer_orders"), d)
           f == a \o e
<1>1. BuyerOrders = f
  BY DEF BuyerOrders
<1> HIDE DEF a, b, c, d, e, f
<1>2. /\ Block(a, 2)
      /\ \A p, o : o \in Nat /\ Reads(p, o, a) =>
            p[o + 1] = If(MissingFrom("buyer_order_no", "export_invoices"), 1) /\ p[o + 2] = Create("buyer_order_no")
  BY AddColumnReads DEF a
<1>3. /\ Block(b, 2)
      /\ \A p, o : o \in Nat /\ Reads(p, o, b) =>
            p[o + 1] = If(Filled("buyer_orders"), 1) /\ p[o + 2] = UpdateRows("buyer_orders", "buyer_order_no")
  BY UpdateEachReads DEF b
<1>4. /\ Block(c, 1)
      /\ \A p, o : o \in Nat /\ Reads(p, o, c) =>
            p[o + 1] = Drop("buyer_orders")
  BY One DEF c
<1>5. /\ Block(d, 3)
      /\ \A p, o : o \in Nat /\ Reads(p, o, d) => Reads(p, o, b) /\ Reads(p, o + 2, c)
  BY <1>3, <1>4, Cat DEF d
<1>6. /\ Block(e, 4)
      /\ \A p, o : o \in Nat /\ Reads(p, o, e) =>
            p[o + 1] = If(Present("buyer_orders"), 3) /\ Reads(p, o + 1, d)
  BY <1>5, WhenIs DEF e
<1>7. /\ Block(f, 6)
      /\ \A p, o : o \in Nat /\ Reads(p, o, f) => Reads(p, o, a) /\ Reads(p, o + 2, e)
  BY <1>2, <1>6, Cat DEF f
<1>8. ASSUME NEW p, NEW o \in Nat, Reads(p, o, f)
      PROVE  /\ p[o + 1] = If(MissingFrom("buyer_order_no", "export_invoices"), 1)
             /\ p[o + 2] = Create("buyer_order_no")
             /\ p[o + 3] = If(Present("buyer_orders"), 3)
             /\ p[o + 4] = If(Filled("buyer_orders"), 1)
             /\ p[o + 5] = UpdateRows("buyer_orders", "buyer_order_no")
             /\ p[o + 6] = Drop("buyer_orders")
  <2>1. Reads(p, o, a) /\ Reads(p, o + 2, e)
    BY <1>8, <1>7
  <2>2. p[o + 1] = If(MissingFrom("buyer_order_no", "export_invoices"), 1) /\ p[o + 2] = Create("buyer_order_no")
    BY <2>1, <1>2
  <2>3. p[o + 3] = If(Present("buyer_orders"), 3) /\ Reads(p, o + 3, d)
    BY <2>1, <1>6
  <2>4. Reads(p, o + 3, b) /\ Reads(p, o + 5, c)
    BY <2>3, <1>5
  <2>5. p[o + 4] = If(Filled("buyer_orders"), 1) /\ p[o + 5] = UpdateRows("buyer_orders", "buyer_order_no")
    BY <2>4, <1>3
  <2>6. p[o + 6] = Drop("buyer_orders")
    BY <2>4, <1>4
  <2>7. QED
    BY <2>1, <2>2, <2>3, <2>4, <2>5, <2>6
<1>9. QED
  BY <1>1, <1>7, <1>8

\* The statements of the block of v27.
LEMMA TareTextReads ==
    /\ Block(TareText, 2)
    /\ \A p, o : o \in Nat /\ Reads(p, o, TareText) =>
          /\ p[o + 1] = If(MissingFrom("tare_weight", "export_invoices"), 1)
          /\ p[o + 2] = Create("tare_weight")
<1> DEFINE a == AddColumn("tare_weight", "export_invoices")
<1>1. TareText = a
  BY DEF TareText
<1> HIDE DEF a
<1>2. /\ Block(a, 2)
      /\ \A p, o : o \in Nat /\ Reads(p, o, a) =>
            p[o + 1] = If(MissingFrom("tare_weight", "export_invoices"), 1) /\ p[o + 2] = Create("tare_weight")
  BY AddColumnReads DEF a
<1>3. QED
  BY <1>1, <1>2

\* The statements of the block of v33.
LEMMA DeadFieldsReads ==
    /\ Block(DeadFields, 4)
    /\ \A p, o : o \in Nat /\ Reads(p, o, DeadFields) =>
          /\ p[o + 1] = If(Present("c_no"), 3)
          /\ p[o + 2] = Commit
          /\ p[o + 3] = Backup
          /\ p[o + 4] = Drop("c_no")
<1> DEFINE a == <<Commit, Backup, Drop("c_no")>>
           b == When(Present("c_no"), a)
<1>1. DeadFields = b
  BY DEF DeadFields
<1> HIDE DEF a, b
<1>2. /\ Block(a, 3)
      /\ \A p, o : o \in Nat /\ Reads(p, o, a) =>
            p[o + 1] = Commit /\ p[o + 2] = Backup /\ p[o + 3] = Drop("c_no")
  BY Three DEF a
<1>3. /\ Block(b, 4)
      /\ \A p, o : o \in Nat /\ Reads(p, o, b) =>
            p[o + 1] = If(Present("c_no"), 3) /\ Reads(p, o + 1, a)
  BY <1>2, WhenIs DEF b
<1>4. ASSUME NEW p, NEW o \in Nat, Reads(p, o, b)
      PROVE  /\ p[o + 1] = If(Present("c_no"), 3)
             /\ p[o + 2] = Commit
             /\ p[o + 3] = Backup
             /\ p[o + 4] = Drop("c_no")
  <2>1. p[o + 1] = If(Present("c_no"), 3) /\ Reads(p, o + 1, a)
    BY <1>4, <1>3
  <2>2. p[o + 2] = Commit /\ p[o + 3] = Backup /\ p[o + 4] = Drop("c_no")
    BY <2>1, <1>2
  <2>3. QED
    BY <2>1, <2>2
<1>5. QED
  BY <1>1, <1>3, <1>4

\* The statements of the block of v41.
LEMMA VesselVoyageReads ==
    /\ Block(VesselVoyage, 2)
    /\ \A p, o : o \in Nat /\ Reads(p, o, VesselVoyage) =>
          /\ p[o + 1] = If(MissingFrom("vessel_voyage_no", "export_invoices"), 1)
          /\ p[o + 2] = Create("vessel_voyage_no")
<1> DEFINE a == AddColumn("vessel_voyage_no", "export_invoices")
<1>1. VesselVoyage = a
  BY DEF VesselVoyage
<1> HIDE DEF a
<1>2. /\ Block(a, 2)
      /\ \A p, o : o \in Nat /\ Reads(p, o, a) =>
            p[o + 1] = If(MissingFrom("vessel_voyage_no", "export_invoices"), 1) /\ p[o + 2] = Create("vessel_voyage_no")
  BY AddColumnReads DEF a
<1>3. QED
  BY <1>1, <1>2

\* The statements of the block of v52.
LEMMA TareWeightReads ==
    /\ Block(TareWeight, 5)
    /\ \A p, o : o \in Nat /\ Reads(p, o, TareWeight) =>
          /\ p[o + 1] = If(MissingFrom("tare_weight_kg", "tare_weight"), 4)
          /\ p[o + 2] = Create("tare_weight_kg")
          /\ p[o + 3] = If(Filled("tare_weight"), 1)
          /\ p[o + 4] = UpdateRows("tare_weight", "tare_weight_kg")
          /\ p[o + 5] = Drop("tare_weight")
<1> DEFINE a == <<Create("tare_weight_kg")>>
           b == UpdateEach("tare_weight", "tare_weight_kg")
           c == a \o b
           d == <<Drop("tare_weight")>>
           e == c \o d
           f == When(MissingFrom("tare_weight_kg", "tare_weight"), e)
<1>1. TareWeight = f
  BY DEF TareWeight
<1> HIDE DEF a, b, c, d, e, f
<1>2. /\ Block(a, 1)
      /\ \A p, o : o \in Nat /\ Reads(p, o, a) =>
            p[o + 1] = Create("tare_weight_kg")
  BY One DEF a
<1>3. /\ Block(b, 2)
      /\ \A p, o : o \in Nat /\ Reads(p, o, b) =>
            p[o + 1] = If(Filled("tare_weight"), 1) /\ p[o + 2] = UpdateRows("tare_weight", "tare_weight_kg")
  BY UpdateEachReads DEF b
<1>4. /\ Block(c, 3)
      /\ \A p, o : o \in Nat /\ Reads(p, o, c) => Reads(p, o, a) /\ Reads(p, o + 1, b)
  BY <1>2, <1>3, Cat DEF c
<1>5. /\ Block(d, 1)
      /\ \A p, o : o \in Nat /\ Reads(p, o, d) =>
            p[o + 1] = Drop("tare_weight")
  BY One DEF d
<1>6. /\ Block(e, 4)
      /\ \A p, o : o \in Nat /\ Reads(p, o, e) => Reads(p, o, c) /\ Reads(p, o + 3, d)
  BY <1>4, <1>5, Cat DEF e
<1>7. /\ Block(f, 5)
      /\ \A p, o : o \in Nat /\ Reads(p, o, f) =>
            p[o + 1] = If(MissingFrom("tare_weight_kg", "tare_weight"), 4) /\ Reads(p, o + 1, e)
  BY <1>6, WhenIs DEF f
<1>8. ASSUME NEW p, NEW o \in Nat, Reads(p, o, f)
      PROVE  /\ p[o + 1] = If(MissingFrom("tare_weight_kg", "tare_weight"), 4)
             /\ p[o + 2] = Create("tare_weight_kg")
             /\ p[o + 3] = If(Filled("tare_weight"), 1)
             /\ p[o + 4] = UpdateRows("tare_weight", "tare_weight_kg")
             /\ p[o + 5] = Drop("tare_weight")
  <2>1. p[o + 1] = If(MissingFrom("tare_weight_kg", "tare_weight"), 4) /\ Reads(p, o + 1, e)
    BY <1>8, <1>7
  <2>2. Reads(p, o + 1, c) /\ Reads(p, o + 4, d)
    BY <2>1, <1>6
  <2>3. Reads(p, o + 1, a) /\ Reads(p, o + 2, b)
    BY <2>2, <1>4
  <2>4. p[o + 2] = Create("tare_weight_kg")
    BY <2>3, <1>2
  <2>5. p[o + 3] = If(Filled("tare_weight"), 1) /\ p[o + 4] = UpdateRows("tare_weight", "tare_weight_kg")
    BY <2>3, <1>3
  <2>6. p[o + 5] = Drop("tare_weight")
    BY <2>2, <1>5
  <2>7. QED
    BY <2>1, <2>2, <2>3, <2>4, <2>5, <2>6
<1>9. QED
  BY <1>1, <1>7, <1>8

\* The statements of the block of v55.
LEMMA DropExportersReads ==
    /\ Block(DropExporters, 5)
    /\ \A p, o : o \in Nat /\ Reads(p, o, DropExporters) =>
          /\ p[o + 1] = If(Present("exporters"), 4)
          /\ p[o + 2] = Commit
          /\ p[o + 3] = Backup
          /\ p[o + 4] = Delete("exporters")
          /\ p[o + 5] = Drop("exporters")
<1> DEFINE a == <<Commit, Backup, Delete("exporters"), Drop("exporters")>>
           b == When(Present("exporters"), a)
<1>1. DropExporters = b
  BY DEF DropExporters
<1> HIDE DEF a, b
<1>2. /\ Block(a, 4)
      /\ \A p, o : o \in Nat /\ Reads(p, o, a) =>
            p[o + 1] = Commit /\ p[o + 2] = Backup /\ p[o + 3] = Delete("exporters") /\ p[o + 4] = Drop("exporters")
  BY Four DEF a
<1>3. /\ Block(b, 5)
      /\ \A p, o : o \in Nat /\ Reads(p, o, b) =>
            p[o + 1] = If(Present("exporters"), 4) /\ Reads(p, o + 1, a)
  BY <1>2, WhenIs DEF b
<1>4. ASSUME NEW p, NEW o \in Nat, Reads(p, o, b)
      PROVE  /\ p[o + 1] = If(Present("exporters"), 4)
             /\ p[o + 2] = Commit
             /\ p[o + 3] = Backup
             /\ p[o + 4] = Delete("exporters")
             /\ p[o + 5] = Drop("exporters")
  <2>1. p[o + 1] = If(Present("exporters"), 4) /\ Reads(p, o + 1, a)
    BY <1>4, <1>3
  <2>2. p[o + 2] = Commit /\ p[o + 3] = Backup /\ p[o + 4] = Delete("exporters") /\ p[o + 5] = Drop("exporters")
    BY <2>1, <1>2
  <2>3. QED
    BY <2>1, <2>2
<1>5. QED
  BY <1>1, <1>3, <1>4

\* The statements of the block of v56.
LEMMA VesselNameReads ==
    /\ Block(VesselName, 5)
    /\ \A p, o : o \in Nat /\ Reads(p, o, VesselName) =>
          /\ p[o + 1] = If(MissingFrom("vessel_name", "vessel_voyage_no"), 4)
          /\ p[o + 2] = Create("vessel_name")
          /\ p[o + 3] = Create("voyage_no")
          /\ p[o + 4] = Update("vessel_voyage_no", "vessel_name")
          /\ p[o + 5] = Drop("vessel_voyage_no")
<1> DEFINE a == <<Create("vessel_name"), Create("voyage_no"), Update("vessel_voyage_no", "vessel_name"), Drop("vessel_voyage_no")>>
           b == When(MissingFrom("vessel_name", "vessel_voyage_no"), a)
<1>1. VesselName = b
  BY DEF VesselName
<1> HIDE DEF a, b
<1>2. /\ Block(a, 4)
      /\ \A p, o : o \in Nat /\ Reads(p, o, a) =>
            p[o + 1] = Create("vessel_name") /\ p[o + 2] = Create("voyage_no") /\ p[o + 3] = Update("vessel_voyage_no", "vessel_name") /\ p[o + 4] = Drop("vessel_voyage_no")
  BY Four DEF a
<1>3. /\ Block(b, 5)
      /\ \A p, o : o \in Nat /\ Reads(p, o, b) =>
            p[o + 1] = If(MissingFrom("vessel_name", "vessel_voyage_no"), 4) /\ Reads(p, o + 1, a)
  BY <1>2, WhenIs DEF b
<1>4. ASSUME NEW p, NEW o \in Nat, Reads(p, o, b)
      PROVE  /\ p[o + 1] = If(MissingFrom("vessel_name", "vessel_voyage_no"), 4)
             /\ p[o + 2] = Create("vessel_name")
             /\ p[o + 3] = Create("voyage_no")
             /\ p[o + 4] = Update("vessel_voyage_no", "vessel_name")
             /\ p[o + 5] = Drop("vessel_voyage_no")
  <2>1. p[o + 1] = If(MissingFrom("vessel_name", "vessel_voyage_no"), 4) /\ Reads(p, o + 1, a)
    BY <1>4, <1>3
  <2>2. p[o + 2] = Create("vessel_name") /\ p[o + 3] = Create("voyage_no") /\ p[o + 4] = Update("vessel_voyage_no", "vessel_name") /\ p[o + 5] = Drop("vessel_voyage_no")
    BY <2>1, <1>2
  <2>3. QED
    BY <2>1, <2>2
<1>5. QED
  BY <1>1, <1>3, <1>4

\* The statements of the block of v62.
LEMMA OrderLinksReads ==
    /\ Block(OrderLinks, 5)
    /\ \A p, o : o \in Nat /\ Reads(p, o, OrderLinks) =>
          /\ p[o + 1] = If(MissingFrom("pi_item_order", "purchase_invoices"), 2)
          /\ p[o + 2] = Create("pi_item_order")
          /\ p[o + 3] = Update("purchase_invoices", "pi_item_order")
          /\ p[o + 4] = If(Empty("pi_order_links"), 1)
          /\ p[o + 5] = Insert("purchase_invoices", "pi_order_links")
<1> DEFINE a == <<Create("pi_item_order"), Update("purchase_invoices", "pi_item_order")>>
           b == When(MissingFrom("pi_item_order", "purchase_invoices"), a)
           c == <<Insert("purchase_invoices", "pi_order_links")>>
           d == When(Empty("pi_order_links"), c)
           e == b \o d
<1>1. OrderLinks = e
  BY DEF OrderLinks
<1> HIDE DEF a, b, c, d, e
<1>2. /\ Block(a, 2)
      /\ \A p, o : o \in Nat /\ Reads(p, o, a) =>
            p[o + 1] = Create("pi_item_order") /\ p[o + 2] = Update("purchase_invoices", "pi_item_order")
  BY Two DEF a
<1>3. /\ Block(b, 3)
      /\ \A p, o : o \in Nat /\ Reads(p, o, b) =>
            p[o + 1] = If(MissingFrom("pi_item_order", "purchase_invoices"), 2) /\ Reads(p, o + 1, a)
  BY <1>2, WhenIs DEF b
<1>4. /\ Block(c, 1)
      /\ \A p, o : o \in Nat /\ Reads(p, o, c) =>
            p[o + 1] = Insert("purchase_invoices", "pi_order_links")
  BY One DEF c
<1>5. /\ Block(d, 2)
      /\ \A p, o : o \in Nat /\ Reads(p, o, d) =>
            p[o + 1] = If(Empty("pi_order_links"), 1) /\ Reads(p, o + 1, c)
  BY <1>4, WhenIs DEF d
<1>6. /\ Block(e, 5)
      /\ \A p, o : o \in Nat /\ Reads(p, o, e) => Reads(p, o, b) /\ Reads(p, o + 3, d)
  BY <1>3, <1>5, Cat DEF e
<1>7. ASSUME NEW p, NEW o \in Nat, Reads(p, o, e)
      PROVE  /\ p[o + 1] = If(MissingFrom("pi_item_order", "purchase_invoices"), 2)
             /\ p[o + 2] = Create("pi_item_order")
             /\ p[o + 3] = Update("purchase_invoices", "pi_item_order")
             /\ p[o + 4] = If(Empty("pi_order_links"), 1)
             /\ p[o + 5] = Insert("purchase_invoices", "pi_order_links")
  <2>1. Reads(p, o, b) /\ Reads(p, o + 3, d)
    BY <1>7, <1>6
  <2>2. p[o + 1] = If(MissingFrom("pi_item_order", "purchase_invoices"), 2) /\ Reads(p, o + 1, a)
    BY <2>1, <1>3
  <2>3. p[o + 2] = Create("pi_item_order") /\ p[o + 3] = Update("purchase_invoices", "pi_item_order")
    BY <2>2, <1>2
  <2>4. p[o + 4] = If(Empty("pi_order_links"), 1) /\ Reads(p, o + 4, c)
    BY <2>1, <1>5
  <2>5. p[o + 5] = Insert("purchase_invoices", "pi_order_links")
    BY <2>4, <1>4
  <2>6. QED
    BY <2>1, <2>2, <2>3, <2>4, <2>5
<1>8. QED
  BY <1>1, <1>6, <1>7

\* The statements of the block of v64 and v65.
LEMMA ContainersReads ==
    ASSUME NEW details, NEW containers
    PROVE
    /\ Block(Containers(details, containers), 4)
    /\ \A p, o : o \in Nat /\ Reads(p, o, Containers(details, containers)) =>
          /\ p[o + 1] = CreateIfMissing(containers)
          /\ p[o + 2] = If(Present(details), 2)
          /\ p[o + 3] = InsertUnkeyed(details, containers)
          /\ p[o + 4] = Drop(details)
<1> DEFINE a == <<CreateIfMissing(containers)>>
           b == <<InsertUnkeyed(details, containers), Drop(details)>>
           c == When(Present(details), b)
           d == a \o c
<1>1. Containers(details, containers) = d
  BY DEF Containers
<1> HIDE DEF a, b, c, d
<1>2. /\ Block(a, 1)
      /\ \A p, o : o \in Nat /\ Reads(p, o, a) =>
            p[o + 1] = CreateIfMissing(containers)
  BY One DEF a
<1>3. /\ Block(b, 2)
      /\ \A p, o : o \in Nat /\ Reads(p, o, b) =>
            p[o + 1] = InsertUnkeyed(details, containers) /\ p[o + 2] = Drop(details)
  BY Two DEF b
<1>4. /\ Block(c, 3)
      /\ \A p, o : o \in Nat /\ Reads(p, o, c) =>
            p[o + 1] = If(Present(details), 2) /\ Reads(p, o + 1, b)
  BY <1>3, WhenIs DEF c
<1>5. /\ Block(d, 4)
      /\ \A p, o : o \in Nat /\ Reads(p, o, d) => Reads(p, o, a) /\ Reads(p, o + 1, c)
  BY <1>2, <1>4, Cat DEF d
<1>6. ASSUME NEW p, NEW o \in Nat, Reads(p, o, d)
      PROVE  /\ p[o + 1] = CreateIfMissing(containers)
             /\ p[o + 2] = If(Present(details), 2)
             /\ p[o + 3] = InsertUnkeyed(details, containers)
             /\ p[o + 4] = Drop(details)
  <2>1. Reads(p, o, a) /\ Reads(p, o + 1, c)
    BY <1>6, <1>5
  <2>2. p[o + 1] = CreateIfMissing(containers)
    BY <2>1, <1>2
  <2>3. p[o + 2] = If(Present(details), 2) /\ Reads(p, o + 2, b)
    BY <2>1, <1>4
  <2>4. p[o + 3] = InsertUnkeyed(details, containers) /\ p[o + 4] = Drop(details)
    BY <2>3, <1>3
  <2>5. QED
    BY <2>1, <2>2, <2>3, <2>4
<1>7. QED
  BY <1>1, <1>5, <1>6

\* The statements of the block of v67.
LEMMA LeadIdsReads ==
    /\ Block(LeadIds, 2)
    /\ \A p, o : o \in Nat /\ Reads(p, o, LeadIds) =>
          /\ p[o + 1] = If(Present("lead_id"), 1)
          /\ p[o + 2] = Drop("lead_id")
<1> DEFINE a == DropColumn("lead_id")
<1>1. LeadIds = a
  BY DEF LeadIds
<1> HIDE DEF a
<1>2. /\ Block(a, 2)
      /\ \A p, o : o \in Nat /\ Reads(p, o, a) =>
            p[o + 1] = If(Present("lead_id"), 1) /\ p[o + 2] = Drop("lead_id")
  BY DropColumnReads DEF a
<1>3. QED
  BY <1>1, <1>2

\* The statements of the block of v72.
LEMMA PalletWeightReads ==
    /\ Block(PalletWeight, 2)
    /\ \A p, o : o \in Nat /\ Reads(p, o, PalletWeight) =>
          /\ p[o + 1] = If(MissingFrom("weight_kg", "product_pallet_types"), 1)
          /\ p[o + 2] = Create("weight_kg")
<1> DEFINE a == AddColumn("weight_kg", "product_pallet_types")
<1>1. PalletWeight = a
  BY DEF PalletWeight
<1> HIDE DEF a
<1>2. /\ Block(a, 2)
      /\ \A p, o : o \in Nat /\ Reads(p, o, a) =>
            p[o + 1] = If(MissingFrom("weight_kg", "product_pallet_types"), 1) /\ p[o + 2] = Create("weight_kg")
  BY AddColumnReads DEF a
<1>3. QED
  BY <1>1, <1>2

\* The statements of the block of v77 and v78.
LEMMA LineDesignsReads ==
    /\ Block(LineDesigns, 4)
    /\ \A p, o : o \in Nat /\ Reads(p, o, LineDesigns) =>
          /\ p[o + 1] = If(MissingFrom("line_design", "export_invoices"), 1)
          /\ p[o + 2] = Create("line_design")
          /\ p[o + 3] = If(Present("line_design"), 1)
          /\ p[o + 4] = Drop("line_design")
<1> DEFINE a == AddColumn("line_design", "export_invoices")
           b == DropColumn("line_design")
           c == a \o b
<1>1. LineDesigns = c
  BY DEF LineDesigns
<1> HIDE DEF a, b, c
<1>2. /\ Block(a, 2)
      /\ \A p, o : o \in Nat /\ Reads(p, o, a) =>
            p[o + 1] = If(MissingFrom("line_design", "export_invoices"), 1) /\ p[o + 2] = Create("line_design")
  BY AddColumnReads DEF a
<1>3. /\ Block(b, 2)
      /\ \A p, o : o \in Nat /\ Reads(p, o, b) =>
            p[o + 1] = If(Present("line_design"), 1) /\ p[o + 2] = Drop("line_design")
  BY DropColumnReads DEF b
<1>4. /\ Block(c, 4)
      /\ \A p, o : o \in Nat /\ Reads(p, o, c) => Reads(p, o, a) /\ Reads(p, o + 2, b)
  BY <1>2, <1>3, Cat DEF c
<1>5. ASSUME NEW p, NEW o \in Nat, Reads(p, o, c)
      PROVE  /\ p[o + 1] = If(MissingFrom("line_design", "export_invoices"), 1)
             /\ p[o + 2] = Create("line_design")
             /\ p[o + 3] = If(Present("line_design"), 1)
             /\ p[o + 4] = Drop("line_design")
  <2>1. Reads(p, o, a) /\ Reads(p, o + 2, b)
    BY <1>4, <1>5
  <2>2. p[o + 1] = If(MissingFrom("line_design", "export_invoices"), 1) /\ p[o + 2] = Create("line_design")
    BY <2>1, <1>2
  <2>3. p[o + 3] = If(Present("line_design"), 1) /\ p[o + 4] = Drop("line_design")
    BY <2>1, <1>3
  <2>4. QED
    BY <2>2, <2>3
<1>6. QED
  BY <1>1, <1>4, <1>5

\* The statements of the block of v78 and v79.
LEMMA DesignTablesReads ==
    /\ Block(DesignTables, 2)
    /\ \A p, o : o \in Nat /\ Reads(p, o, DesignTables) =>
          /\ p[o + 1] = CreateIfMissing("item_designs")
          /\ p[o + 2] = CreateIfMissing("designs_lists")
<1> DEFINE a == <<CreateIfMissing("item_designs"), CreateIfMissing("designs_lists")>>
<1>1. DesignTables = a
  BY DEF DesignTables
<1> HIDE DEF a
<1>2. /\ Block(a, 2)
      /\ \A p, o : o \in Nat /\ Reads(p, o, a) =>
            p[o + 1] = CreateIfMissing("item_designs") /\ p[o + 2] = CreateIfMissing("designs_lists")
  BY Two DEF a
<1>3. QED
  BY <1>1, <1>2

\* The statements of the block of v81, v85, v86 and v84.
LEMMA JobQuantitiesReads ==
    /\ Block(JobQuantities, 13)
    /\ \A p, o : o \in Nat /\ Reads(p, o, JobQuantities) =>
          /\ p[o + 1] = If(MissingFrom("jobed_unit", "job_work_items"), 1)
          /\ p[o + 2] = Create("jobed_unit")
          /\ p[o + 3] = If(PresentBelow("job_work_items", 85), 1)
          /\ p[o + 4] = Update("job_work_items", "job_work_items")
          /\ p[o + 5] = If(MissingFrom("source_quantity", "job_work_items"), 2)
          /\ p[o + 6] = Create("source_quantity")
          /\ p[o + 7] = Update("job_quantity", "source_quantity")
          /\ p[o + 8] = If(Present("jobed_quantity"), 1)
          /\ p[o + 9] = Drop("jobed_quantity")
          /\ p[o + 10] = If(Present("jobed_unit"), 1)
          /\ p[o + 11] = Drop("jobed_unit")
          /\ p[o + 12] = If(Present("quantity_boxes"), 1)
          /\ p[o + 13] = Drop("quantity_boxes")
<1> DEFINE a == AddColumn("jobed_unit", "job_work_items")
           b == <<Update("job_work_items", "job_work_items")>>
           c == When(PresentBelow("job_work_items", 85), b)
           d == a \o c
           e == <<Create("source_quantity"), Update("job_quantity", "source_quantity")>>
           f == When(MissingFrom("source_quantity", "job_work_items"), e)
           g == d \o f
           h == DropColumn("jobed_quantity")
           i == g \o h
           k == DropColumn("jobed_unit")
           l == i \o k
           m == DropColumn("quantity_boxes")
           n == l \o m
<1>1. JobQuantities = n
  BY DEF JobQuantities
<1> HIDE DEF a, b, c, d, e, f, g, h, i, k, l, m, n
<1>2. /\ Block(a, 2)
      /\ \A p, o : o \in Nat /\ Reads(p, o, a) =>
            p[o + 1] = If(MissingFrom("jobed_unit", "job_work_items"), 1) /\ p[o + 2] = Create("jobed_unit")
  BY AddColumnReads DEF a
<1>3. /\ Block(b, 1)
      /\ \A p, o : o \in Nat /\ Reads(p, o, b) =>
            p[o + 1] = Update("job_work_items", "job_work_items")
  BY One DEF b
<1>4. /\ Block(c, 2)
      /\ \A p, o : o \in Nat /\ Reads(p, o, c) =>
            p[o + 1] = If(PresentBelow("job_work_items", 85), 1) /\ Reads(p, o + 1, b)
  BY <1>3, WhenIs DEF c
<1>5. /\ Block(d, 4)
      /\ \A p, o : o \in Nat /\ Reads(p, o, d) => Reads(p, o, a) /\ Reads(p, o + 2, c)
  BY <1>2, <1>4, Cat DEF d
<1>6. /\ Block(e, 2)
      /\ \A p, o : o \in Nat /\ Reads(p, o, e) =>
            p[o + 1] = Create("source_quantity") /\ p[o + 2] = Update("job_quantity", "source_quantity")
  BY Two DEF e
<1>7. /\ Block(f, 3)
      /\ \A p, o : o \in Nat /\ Reads(p, o, f) =>
            p[o + 1] = If(MissingFrom("source_quantity", "job_work_items"), 2) /\ Reads(p, o + 1, e)
  BY <1>6, WhenIs DEF f
<1>8. /\ Block(g, 7)
      /\ \A p, o : o \in Nat /\ Reads(p, o, g) => Reads(p, o, d) /\ Reads(p, o + 4, f)
  BY <1>5, <1>7, Cat DEF g
<1>9. /\ Block(h, 2)
      /\ \A p, o : o \in Nat /\ Reads(p, o, h) =>
            p[o + 1] = If(Present("jobed_quantity"), 1) /\ p[o + 2] = Drop("jobed_quantity")
  BY DropColumnReads DEF h
<1>10. /\ Block(i, 9)
      /\ \A p, o : o \in Nat /\ Reads(p, o, i) => Reads(p, o, g) /\ Reads(p, o + 7, h)
  BY <1>8, <1>9, Cat DEF i
<1>11. /\ Block(k, 2)
      /\ \A p, o : o \in Nat /\ Reads(p, o, k) =>
            p[o + 1] = If(Present("jobed_unit"), 1) /\ p[o + 2] = Drop("jobed_unit")
  BY DropColumnReads DEF k
<1>12. /\ Block(l, 11)
      /\ \A p, o : o \in Nat /\ Reads(p, o, l) => Reads(p, o, i) /\ Reads(p, o + 9, k)
  BY <1>10, <1>11, Cat DEF l
<1>13. /\ Block(m, 2)
      /\ \A p, o : o \in Nat /\ Reads(p, o, m) =>
            p[o + 1] = If(Present("quantity_boxes"), 1) /\ p[o + 2] = Drop("quantity_boxes")
  BY DropColumnReads DEF m
<1>14. /\ Block(n, 13)
      /\ \A p, o : o \in Nat /\ Reads(p, o, n) => Reads(p, o, l) /\ Reads(p, o + 11, m)
  BY <1>12, <1>13, Cat DEF n
<1>15. ASSUME NEW p, NEW o \in Nat, Reads(p, o, n)
      PROVE  /\ p[o + 1] = If(MissingFrom("jobed_unit", "job_work_items"), 1)
             /\ p[o + 2] = Create("jobed_unit")
             /\ p[o + 3] = If(PresentBelow("job_work_items", 85), 1)
             /\ p[o + 4] = Update("job_work_items", "job_work_items")
             /\ p[o + 5] = If(MissingFrom("source_quantity", "job_work_items"), 2)
             /\ p[o + 6] = Create("source_quantity")
             /\ p[o + 7] = Update("job_quantity", "source_quantity")
             /\ p[o + 8] = If(Present("jobed_quantity"), 1)
             /\ p[o + 9] = Drop("jobed_quantity")
             /\ p[o + 10] = If(Present("jobed_unit"), 1)
             /\ p[o + 11] = Drop("jobed_unit")
             /\ p[o + 12] = If(Present("quantity_boxes"), 1)
             /\ p[o + 13] = Drop("quantity_boxes")
  <2>1. Reads(p, o, l) /\ Reads(p, o + 11, m)
    BY <1>15, <1>14
  <2>2. Reads(p, o, i) /\ Reads(p, o + 9, k)
    BY <2>1, <1>12
  <2>3. Reads(p, o, g) /\ Reads(p, o + 7, h)
    BY <2>2, <1>10
  <2>4. Reads(p, o, d) /\ Reads(p, o + 4, f)
    BY <2>3, <1>8
  <2>5. Reads(p, o, a) /\ Reads(p, o + 2, c)
    BY <2>4, <1>5
  <2>6. p[o + 1] = If(MissingFrom("jobed_unit", "job_work_items"), 1) /\ p[o + 2] = Create("jobed_unit")
    BY <2>5, <1>2
  <2>7. p[o + 3] = If(PresentBelow("job_work_items", 85), 1) /\ Reads(p, o + 3, b)
    BY <2>5, <1>4
  <2>8. p[o + 4] = Update("job_work_items", "job_work_items")
    BY <2>7, <1>3
  <2>9. p[o + 5] = If(MissingFrom("source_quantity", "job_work_items"), 2) /\ Reads(p, o + 5, e)
    BY <2>4, <1>7
  <2>10. p[o + 6] = Create("source_quantity") /\ p[o + 7] = Update("job_quantity", "source_quantity")
    BY <2>9, <1>6
  <2>11. p[o + 8] = If(Present("jobed_quantity"), 1) /\ p[o + 9] = Drop("jobed_quantity")
    BY <2>3, <1>9
  <2>12. p[o + 10] = If(Present("jobed_unit"), 1) /\ p[o + 11] = Drop("jobed_unit")
    BY <2>2, <1>11
  <2>13. p[o + 12] = If(Present("quantity_boxes"), 1) /\ p[o + 13] = Drop("quantity_boxes")
    BY <2>1, <1>13
  <2>14. QED
    BY <2>6, <2>7, <2>8, <2>9, <2>10, <2>11, <2>12, <2>13
<1>16. QED
  BY <1>1, <1>14, <1>15

\* The statements of the block of v87.
LEMMA JobWorkTaxReads ==
    /\ Block(JobWorkTax, 2)
    /\ \A p, o : o \in Nat /\ Reads(p, o, JobWorkTax) =>
          /\ p[o + 1] = If(MissingFrom("job_work_tax", "job_works"), 1)
          /\ p[o + 2] = Create("job_work_tax")
<1> DEFINE a == AddColumn("job_work_tax", "job_works")
<1>1. JobWorkTax = a
  BY DEF JobWorkTax
<1> HIDE DEF a
<1>2. /\ Block(a, 2)
      /\ \A p, o : o \in Nat /\ Reads(p, o, a) =>
            p[o + 1] = If(MissingFrom("job_work_tax", "job_works"), 1) /\ p[o + 2] = Create("job_work_tax")
  BY AddColumnReads DEF a
<1>3. QED
  BY <1>1, <1>2

\* The statements of the block of v94.
LEMMA UnitKindReads ==
    /\ Block(UnitKind, 3)
    /\ \A p, o : o \in Nat /\ Reads(p, o, UnitKind) =>
          /\ p[o + 1] = If(MissingFrom("unit_kind", "product_pallet_types"), 2)
          /\ p[o + 2] = Create("unit_kind")
          /\ p[o + 3] = Update("weight_kg", "unit_kind")
<1> DEFINE a == <<Create("unit_kind"), Update("weight_kg", "unit_kind")>>
           b == When(MissingFrom("unit_kind", "product_pallet_types"), a)
<1>1. UnitKind = b
  BY DEF UnitKind
<1> HIDE DEF a, b
<1>2. /\ Block(a, 2)
      /\ \A p, o : o \in Nat /\ Reads(p, o, a) =>
            p[o + 1] = Create("unit_kind") /\ p[o + 2] = Update("weight_kg", "unit_kind")
  BY Two DEF a
<1>3. /\ Block(b, 3)
      /\ \A p, o : o \in Nat /\ Reads(p, o, b) =>
            p[o + 1] = If(MissingFrom("unit_kind", "product_pallet_types"), 2) /\ Reads(p, o + 1, a)
  BY <1>2, WhenIs DEF b
<1>4. ASSUME NEW p, NEW o \in Nat, Reads(p, o, b)
      PROVE  /\ p[o + 1] = If(MissingFrom("unit_kind", "product_pallet_types"), 2)
             /\ p[o + 2] = Create("unit_kind")
             /\ p[o + 3] = Update("weight_kg", "unit_kind")
  <2>1. p[o + 1] = If(MissingFrom("unit_kind", "product_pallet_types"), 2) /\ Reads(p, o + 1, a)
    BY <1>4, <1>3
  <2>2. p[o + 2] = Create("unit_kind") /\ p[o + 3] = Update("weight_kg", "unit_kind")
    BY <2>1, <1>2
  <2>3. QED
    BY <2>1, <2>2
<1>5. QED
  BY <1>1, <1>3, <1>4

\* The statements of the block of v95.
LEMMA ProductionReads ==
    /\ Block(Production, 9)
    /\ \A p, o : o \in Nat /\ Reads(p, o, Production) =>
          /\ p[o + 1] = CreateIfMissing("production")
          /\ p[o + 2] = If(OldShape("production"), 5)
          /\ p[o + 3] = DropIfExists("production_index")
          /\ p[o + 4] = Rename("production", "production_old")
          /\ p[o + 5] = Create("production")
          /\ p[o + 6] = Insert("production_old", "production")
          /\ p[o + 7] = Drop("production_old")
          /\ p[o + 8] = DropIfExists("production_index")
          /\ p[o + 9] = Create("production_index")
<1> DEFINE a == <<CreateIfMissing("production")>>
           b == <<DropIfExists("production_index"), Rename("production", "production_old"), Create("production"), Insert("production_old", "production"), Drop("production_old")>>
           c == When(OldShape("production"), b)
           d == a \o c
           e == <<DropIfExists("production_index"), Create("production_index")>>
           f == d \o e
<1>1. Production = f
  BY DEF Production
<1> HIDE DEF a, b, c, d, e, f
<1>2. /\ Block(a, 1)
      /\ \A p, o : o \in Nat /\ Reads(p, o, a) =>
            p[o + 1] = CreateIfMissing("production")
  BY One DEF a
<1>3. /\ Block(b, 5)
      /\ \A p, o : o \in Nat /\ Reads(p, o, b) =>
            p[o + 1] = DropIfExists("production_index") /\ p[o + 2] = Rename("production", "production_old") /\ p[o + 3] = Create("production") /\ p[o + 4] = Insert("production_old", "production") /\ p[o + 5] = Drop("production_old")
  BY Five DEF b
<1>4. /\ Block(c, 6)
      /\ \A p, o : o \in Nat /\ Reads(p, o, c) =>
            p[o + 1] = If(OldShape("production"), 5) /\ Reads(p, o + 1, b)
  BY <1>3, WhenIs DEF c
<1>5. /\ Block(d, 7)
      /\ \A p, o : o \in Nat /\ Reads(p, o, d) => Reads(p, o, a) /\ Reads(p, o + 1, c)
  BY <1>2, <1>4, Cat DEF d
<1>6. /\ Block(e, 2)
      /\ \A p, o : o \in Nat /\ Reads(p, o, e) =>
            p[o + 1] = DropIfExists("production_index") /\ p[o + 2] = Create("production_index")
  BY Two DEF e
<1>7. /\ Block(f, 9)
      /\ \A p, o : o \in Nat /\ Reads(p, o, f) => Reads(p, o, d) /\ Reads(p, o + 7, e)
  BY <1>5, <1>6, Cat DEF f
<1>8. ASSUME NEW p, NEW o \in Nat, Reads(p, o, f)
      PROVE  /\ p[o + 1] = CreateIfMissing("production")
             /\ p[o + 2] = If(OldShape("production"), 5)
             /\ p[o + 3] = DropIfExists("production_index")
             /\ p[o + 4] = Rename("production", "production_old")
             /\ p[o + 5] = Create("production")
             /\ p[o + 6] = Insert("production_old", "production")
             /\ p[o + 7] = Drop("production_old")
             /\ p[o + 8] = DropIfExists("production_index")
             /\ p[o + 9] = Create("production_index")
  <2>1. Reads(p, o, d) /\ Reads(p, o + 7, e)
    BY <1>8, <1>7
  <2>2. Reads(p, o, a) /\ Reads(p, o + 1, c)
    BY <2>1, <1>5
  <2>3. p[o + 1] = CreateIfMissing("production")
    BY <2>2, <1>2
  <2>4. p[o + 2] = If(OldShape("production"), 5) /\ Reads(p, o + 2, b)
    BY <2>2, <1>4
  <2>5. p[o + 3] = DropIfExists("production_index") /\ p[o + 4] = Rename("production", "production_old") /\ p[o + 5] = Create("production") /\ p[o + 6] = Insert("production_old", "production") /\ p[o + 7] = Drop("production_old")
    BY <2>4, <1>3
  <2>6. p[o + 8] = DropIfExists("production_index") /\ p[o + 9] = Create("production_index")
    BY <2>1, <1>6
  <2>7. QED
    BY <2>1, <2>2, <2>3, <2>4, <2>5, <2>6
<1>9. QED
  BY <1>1, <1>7, <1>8

\* The statements of the block of v103 and v104.
LEMMA RetireDesignsReads ==
    /\ Block(RetireDesigns, 8)
    /\ \A p, o : o \in Nat /\ Reads(p, o, RetireDesigns) =>
          /\ p[o + 1] = If(Present("designs_lists"), 3)
          /\ p[o + 2] = Commit
          /\ p[o + 3] = Backup
          /\ p[o + 4] = Drop("designs_lists")
          /\ p[o + 5] = If(Present("item_designs"), 3)
          /\ p[o + 6] = Commit
          /\ p[o + 7] = Backup
          /\ p[o + 8] = Drop("item_designs")
<1> DEFINE a == <<Commit, Backup, Drop("designs_lists")>>
           b == When(Present("designs_lists"), a)
           c == <<Commit, Backup, Drop("item_designs")>>
           d == When(Present("item_designs"), c)
           e == b \o d
<1>1. RetireDesigns = e
  BY DEF RetireDesigns
<1> HIDE DEF a, b, c, d, e
<1>2. /\ Block(a, 3)
      /\ \A p, o : o \in Nat /\ Reads(p, o, a) =>
            p[o + 1] = Commit /\ p[o + 2] = Backup /\ p[o + 3] = Drop("designs_lists")
  BY Three DEF a
<1>3. /\ Block(b, 4)
      /\ \A p, o : o \in Nat /\ Reads(p, o, b) =>
            p[o + 1] = If(Present("designs_lists"), 3) /\ Reads(p, o + 1, a)
  BY <1>2, WhenIs DEF b
<1>4. /\ Block(c, 3)
      /\ \A p, o : o \in Nat /\ Reads(p, o, c) =>
            p[o + 1] = Commit /\ p[o + 2] = Backup /\ p[o + 3] = Drop("item_designs")
  BY Three DEF c
<1>5. /\ Block(d, 4)
      /\ \A p, o : o \in Nat /\ Reads(p, o, d) =>
            p[o + 1] = If(Present("item_designs"), 3) /\ Reads(p, o + 1, c)
  BY <1>4, WhenIs DEF d
<1>6. /\ Block(e, 8)
      /\ \A p, o : o \in Nat /\ Reads(p, o, e) => Reads(p, o, b) /\ Reads(p, o + 4, d)
  BY <1>3, <1>5, Cat DEF e
<1>7. ASSUME NEW p, NEW o \in Nat, Reads(p, o, e)
      PROVE  /\ p[o + 1] = If(Present("designs_lists"), 3)
             /\ p[o + 2] = Commit
             /\ p[o + 3] = Backup
             /\ p[o + 4] = Drop("designs_lists")
             /\ p[o + 5] = If(Present("item_designs"), 3)
             /\ p[o + 6] = Commit
             /\ p[o + 7] = Backup
             /\ p[o + 8] = Drop("item_designs")
  <2>1. Reads(p, o, b) /\ Reads(p, o + 4, d)
    BY <1>7, <1>6
  <2>2. p[o + 1] = If(Present("designs_lists"), 3) /\ Reads(p, o + 1, a)
    BY <2>1, <1>3
  <2>3. p[o + 2] = Commit /\ p[o + 3] = Backup /\ p[o + 4] = Drop("designs_lists")
    BY <2>2, <1>2
  <2>4. p[o + 5] = If(Present("item_designs"), 3) /\ Reads(p, o + 5, c)
    BY <2>1, <1>5
  <2>5. p[o + 6] = Commit /\ p[o + 7] = Backup /\ p[o + 8] = Drop("item_designs")
    BY <2>4, <1>4
  <2>6. QED
    BY <2>1, <2>2, <2>3, <2>4, <2>5
<1>8. QED
  BY <1>1, <1>6, <1>7

\* The statements of the rebuild of job_works.
LEMMA RebuildJobWorksReads ==
    /\ Block(RebuildJobWorks, 8)
    /\ \A p, o : o \in Nat /\ Reads(p, o, RebuildJobWorks) =>
          /\ p[o + 1] = Connect(FALSE)
          /\ p[o + 2] = If(OldShape("job_works"), 6)
          /\ p[o + 3] = Begin
          /\ p[o + 4] = Create("job_works_rebuilt")
          /\ p[o + 5] = InsertAs("job_works", "job_works", "job_works_rebuilt")
          /\ p[o + 6] = Drop("job_works")
          /\ p[o + 7] = Rename("job_works_rebuilt", "job_works")
          /\ p[o + 8] = Commit
<1> DEFINE a == <<Connect(FALSE)>>
           b == <<Begin, Create("job_works_rebuilt"), InsertAs("job_works", "job_works", "job_works_rebuilt"), Drop("job_works"), Rename("job_works_rebuilt", "job_works")>>
           c == <<Commit>>
           d == b \o c
           e == When(OldShape("job_works"), d)
           f == a \o e
<1>1. RebuildJobWorks = f
  BY DEF RebuildJobWorks, Rebuilding
<1> HIDE DEF a, b, c, d, e, f
<1>2. /\ Block(a, 1)
      /\ \A p, o : o \in Nat /\ Reads(p, o, a) =>
            p[o + 1] = Connect(FALSE)
  BY One DEF a
<1>3. /\ Block(b, 5)
      /\ \A p, o : o \in Nat /\ Reads(p, o, b) =>
            p[o + 1] = Begin /\ p[o + 2] = Create("job_works_rebuilt") /\ p[o + 3] = InsertAs("job_works", "job_works", "job_works_rebuilt") /\ p[o + 4] = Drop("job_works") /\ p[o + 5] = Rename("job_works_rebuilt", "job_works")
  BY Five DEF b
<1>4. /\ Block(c, 1)
      /\ \A p, o : o \in Nat /\ Reads(p, o, c) =>
            p[o + 1] = Commit
  BY One DEF c
<1>5. /\ Block(d, 6)
      /\ \A p, o : o \in Nat /\ Reads(p, o, d) => Reads(p, o, b) /\ Reads(p, o + 5, c)
  BY <1>3, <1>4, Cat DEF d
<1>6. /\ Block(e, 7)
      /\ \A p, o : o \in Nat /\ Reads(p, o, e) =>
            p[o + 1] = If(OldShape("job_works"), 6) /\ Reads(p, o + 1, d)
  BY <1>5, WhenIs DEF e
<1>7. /\ Block(f, 8)
      /\ \A p, o : o \in Nat /\ Reads(p, o, f) => Reads(p, o, a) /\ Reads(p, o + 1, e)
  BY <1>2, <1>6, Cat DEF f
<1>8. ASSUME NEW p, NEW o \in Nat, Reads(p, o, f)
      PROVE  /\ p[o + 1] = Connect(FALSE)
             /\ p[o + 2] = If(OldShape("job_works"), 6)
             /\ p[o + 3] = Begin
             /\ p[o + 4] = Create("job_works_rebuilt")
             /\ p[o + 5] = InsertAs("job_works", "job_works", "job_works_rebuilt")
             /\ p[o + 6] = Drop("job_works")
             /\ p[o + 7] = Rename("job_works_rebuilt", "job_works")
             /\ p[o + 8] = Commit
  <2>1. Reads(p, o, a) /\ Reads(p, o + 1, e)
    BY <1>8, <1>7
  <2>2. p[o + 1] = Connect(FALSE)
    BY <2>1, <1>2
  <2>3. p[o + 2] = If(OldShape("job_works"), 6) /\ Reads(p, o + 2, d)
    BY <2>1, <1>6
  <2>4. Reads(p, o + 2, b) /\ Reads(p, o + 7, c)
    BY <2>3, <1>5
  <2>5. p[o + 3] = Begin /\ p[o + 4] = Create("job_works_rebuilt") /\ p[o + 5] = InsertAs("job_works", "job_works", "job_works_rebuilt") /\ p[o + 6] = Drop("job_works") /\ p[o + 7] = Rename("job_works_rebuilt", "job_works")
    BY <2>4, <1>3
  <2>6. p[o + 8] = Commit
    BY <2>4, <1>4
  <2>7. QED
    BY <2>1, <2>2, <2>3, <2>4, <2>5, <2>6
<1>9. QED
  BY <1>1, <1>7, <1>8

\* Where each block starts: as many statements are ahead of it.
LEMMA ProgramReads ==
    /\ Len(Program) = 108 /\ Up = 109
    /\ Program[1] = Connect(TRUE) /\ Program[2] = Script /\ Program[3] = Connect(TRUE)
    /\ Reads(Program, 3, ClientSplit)
    /\ Reads(Program, 8, PermitSupplier)
    /\ Reads(Program, 10, BuyerOrders)
    /\ Reads(Program, 16, TareText)
    /\ Reads(Program, 18, DeadFields)
    /\ Reads(Program, 22, VesselVoyage)
    /\ Reads(Program, 24, TareWeight)
    /\ Reads(Program, 29, DropExporters)
    /\ Reads(Program, 34, VesselName)
    /\ Reads(Program, 39, OrderLinks)
    /\ Reads(Program, 44, Containers("quotation_details", "quotation_containers"))
    /\ Reads(Program, 48, Containers("proforma_details", "proforma_containers"))
    /\ Reads(Program, 52, LeadIds)
    /\ Reads(Program, 54, PalletWeight)
    /\ Reads(Program, 56, LineDesigns)
    /\ Reads(Program, 60, DesignTables)
    /\ Reads(Program, 62, JobQuantities)
    /\ Reads(Program, 75, JobWorkTax)
    /\ Reads(Program, 77, UnitKind)
    /\ Reads(Program, 80, Production)
    /\ Reads(Program, 89, RetireDesigns)
    /\ Program[98] = Commit
    /\ Reads(Program, 98, RebuildJobWorks)
    /\ Program[107] = Connect(TRUE) /\ Program[108] = Stamp
<1> DEFINE m1 == <<Connect(TRUE)>>
           m2 == m1 \o ClientSplit
           m3 == m2 \o PermitSupplier
           m4 == m3 \o BuyerOrders
           m5 == m4 \o TareText
           m6 == m5 \o DeadFields
           m7 == m6 \o VesselVoyage
           m8 == m7 \o TareWeight
           m9 == m8 \o DropExporters
           m10 == m9 \o VesselName
           m11 == m10 \o OrderLinks
           m12 == m11 \o Containers("quotation_details", "quotation_containers")
           m13 == m12 \o Containers("proforma_details", "proforma_containers")
           m14 == m13 \o LeadIds
           m15 == m14 \o PalletWeight
           m16 == m15 \o LineDesigns
           m17 == m16 \o DesignTables
           m18 == m17 \o JobQuantities
           m19 == m18 \o JobWorkTax
           m20 == m19 \o UnitKind
           m21 == m20 \o Production
           m22 == m21 \o RetireDesigns
           m23 == m22 \o <<Commit>>
           head == <<Connect(TRUE), Script>>
           tail == <<Connect(TRUE), Stamp>>
           i1 == head \o m23
           i2 == i1 \o RebuildJobWorks
           i3 == i2 \o tail
<1>1. Program = i3
  BY DEF Program, InitSchema, Migrate
<1> HIDE DEF m1, m2, m3, m4, m5, m6, m7, m8, m9, m10, m11, m12, m13, m14, m15, m16, m17, m18, m19, m20, m21, m22, m23, head, tail, i1, i2, i3
<1>2. /\ Block(m1, 1)
      /\ \A p, o : Reads(p, o, m1) => p[o + 1] = Connect(TRUE)
  BY One DEF m1
<1>3. /\ Block(m2, 6)
      /\ \A p, o : o \in Nat /\ Reads(p, o, m2) =>
            Reads(p, o, m1) /\ Reads(p, o + 1, ClientSplit)
  BY <1>2, ClientSplitReads, Cat DEF m2
<1>4. /\ Block(m3, 8)
      /\ \A p, o : o \in Nat /\ Reads(p, o, m3) =>
            Reads(p, o, m2) /\ Reads(p, o + 6, PermitSupplier)
  BY <1>3, PermitSupplierReads, Cat DEF m3
<1>5. /\ Block(m4, 14)
      /\ \A p, o : o \in Nat /\ Reads(p, o, m4) =>
            Reads(p, o, m3) /\ Reads(p, o + 8, BuyerOrders)
  BY <1>4, BuyerOrdersReads, Cat DEF m4
<1>6. /\ Block(m5, 16)
      /\ \A p, o : o \in Nat /\ Reads(p, o, m5) =>
            Reads(p, o, m4) /\ Reads(p, o + 14, TareText)
  BY <1>5, TareTextReads, Cat DEF m5
<1>7. /\ Block(m6, 20)
      /\ \A p, o : o \in Nat /\ Reads(p, o, m6) =>
            Reads(p, o, m5) /\ Reads(p, o + 16, DeadFields)
  BY <1>6, DeadFieldsReads, Cat DEF m6
<1>8. /\ Block(m7, 22)
      /\ \A p, o : o \in Nat /\ Reads(p, o, m7) =>
            Reads(p, o, m6) /\ Reads(p, o + 20, VesselVoyage)
  BY <1>7, VesselVoyageReads, Cat DEF m7
<1>9. /\ Block(m8, 27)
      /\ \A p, o : o \in Nat /\ Reads(p, o, m8) =>
            Reads(p, o, m7) /\ Reads(p, o + 22, TareWeight)
  BY <1>8, TareWeightReads, Cat DEF m8
<1>10. /\ Block(m9, 32)
      /\ \A p, o : o \in Nat /\ Reads(p, o, m9) =>
            Reads(p, o, m8) /\ Reads(p, o + 27, DropExporters)
  BY <1>9, DropExportersReads, Cat DEF m9
<1>11. /\ Block(m10, 37)
      /\ \A p, o : o \in Nat /\ Reads(p, o, m10) =>
            Reads(p, o, m9) /\ Reads(p, o + 32, VesselName)
  BY <1>10, VesselNameReads, Cat DEF m10
<1>12. /\ Block(m11, 42)
      /\ \A p, o : o \in Nat /\ Reads(p, o, m11) =>
            Reads(p, o, m10) /\ Reads(p, o + 37, OrderLinks)
  BY <1>11, OrderLinksReads, Cat DEF m11
<1>13. /\ Block(m12, 46)
      /\ \A p, o : o \in Nat /\ Reads(p, o, m12) =>
            Reads(p, o, m11) /\ Reads(p, o + 42, Containers("quotation_details", "quotation_containers"))
  BY <1>12, ContainersReads, Cat DEF m12
<1>14. /\ Block(m13, 50)
      /\ \A p, o : o \in Nat /\ Reads(p, o, m13) =>
            Reads(p, o, m12) /\ Reads(p, o + 46, Containers("proforma_details", "proforma_containers"))
  BY <1>13, ContainersReads, Cat DEF m13
<1>15. /\ Block(m14, 52)
      /\ \A p, o : o \in Nat /\ Reads(p, o, m14) =>
            Reads(p, o, m13) /\ Reads(p, o + 50, LeadIds)
  BY <1>14, LeadIdsReads, Cat DEF m14
<1>16. /\ Block(m15, 54)
      /\ \A p, o : o \in Nat /\ Reads(p, o, m15) =>
            Reads(p, o, m14) /\ Reads(p, o + 52, PalletWeight)
  BY <1>15, PalletWeightReads, Cat DEF m15
<1>17. /\ Block(m16, 58)
      /\ \A p, o : o \in Nat /\ Reads(p, o, m16) =>
            Reads(p, o, m15) /\ Reads(p, o + 54, LineDesigns)
  BY <1>16, LineDesignsReads, Cat DEF m16
<1>18. /\ Block(m17, 60)
      /\ \A p, o : o \in Nat /\ Reads(p, o, m17) =>
            Reads(p, o, m16) /\ Reads(p, o + 58, DesignTables)
  BY <1>17, DesignTablesReads, Cat DEF m17
<1>19. /\ Block(m18, 73)
      /\ \A p, o : o \in Nat /\ Reads(p, o, m18) =>
            Reads(p, o, m17) /\ Reads(p, o + 60, JobQuantities)
  BY <1>18, JobQuantitiesReads, Cat DEF m18
<1>20. /\ Block(m19, 75)
      /\ \A p, o : o \in Nat /\ Reads(p, o, m19) =>
            Reads(p, o, m18) /\ Reads(p, o + 73, JobWorkTax)
  BY <1>19, JobWorkTaxReads, Cat DEF m19
<1>21. /\ Block(m20, 78)
      /\ \A p, o : o \in Nat /\ Reads(p, o, m20) =>
            Reads(p, o, m19) /\ Reads(p, o + 75, UnitKind)
  BY <1>20, UnitKindReads, Cat DEF m20
<1>22. /\ Block(m21, 87)
      /\ \A p, o : o \in Nat /\ Reads(p, o, m21) =>
            Reads(p, o, m20) /\ Reads(p, o + 78, Production)
  BY <1>21, ProductionReads, Cat DEF m21
<1>23. /\ Block(m22, 95)
      /\ \A p, o : o \in Nat /\ Reads(p, o, m22) =>
            Reads(p, o, m21) /\ Reads(p, o + 87, RetireDesigns)
  BY <1>22, RetireDesignsReads, Cat DEF m22
<1>24. Block(<<Commit>>, 1) /\ \A p, o : Reads(p, o, <<Commit>>) => p[o + 1] = Commit
  BY One
<1>25. /\ Block(m23, 96)
      /\ \A p, o : o \in Nat /\ Reads(p, o, m23) =>
            Reads(p, o, m22) /\ Reads(p, o + 95, <<Commit>>)
  BY <1>23, <1>24, Cat DEF m23
<1>26. /\ Block(head, 2)
      /\ \A p, o : o \in Nat /\ Reads(p, o, head) => p[o + 1] = Connect(TRUE) /\ p[o + 2] = Script
  BY Two DEF head
<1>27. /\ Block(tail, 2)
      /\ \A p, o : o \in Nat /\ Reads(p, o, tail) => p[o + 1] = Connect(TRUE) /\ p[o + 2] = Stamp
  BY Two DEF tail
<1>28. /\ Block(i1, 98)
      /\ \A p, o : o \in Nat /\ Reads(p, o, i1) => Reads(p, o, head) /\ Reads(p, o + 2, m23)
  BY <1>26, <1>25, Cat DEF i1
<1>29. /\ Block(i2, 106)
      /\ \A p, o : o \in Nat /\ Reads(p, o, i2) => Reads(p, o, i1) /\ Reads(p, o + 98, RebuildJobWorks)
  BY <1>28, RebuildJobWorksReads, Cat DEF i2
<1>30. /\ Block(i3, 108)
      /\ \A p, o : o \in Nat /\ Reads(p, o, i3) => Reads(p, o, i2) /\ Reads(p, o + 106, tail)
  BY <1>29, <1>27, Cat DEF i3
<1>31. Reads(i3, 0, i3)
  <2>1. \A j \in 1..108 : 0 + j = j
    OBVIOUS
  <2>2. QED
    BY <1>30, <2>1 DEF Block, Reads
<1>32. Reads(i3, 0, i2) /\ Reads(i3, 106, tail)
  BY <1>30, <1>31
<1>33. Reads(i3, 0, i1) /\ Reads(i3, 98, RebuildJobWorks)
  BY <1>29, <1>32
<1>34. Reads(i3, 0, head) /\ Reads(i3, 2, m23)
  BY <1>28, <1>33
<1>35. Reads(i3, 2, m22) /\ Reads(i3, 97, <<Commit>>)
  BY <1>34, <1>25
<1>36. Reads(i3, 2, m21) /\ Reads(i3, 89, RetireDesigns)
  BY <1>35, <1>23
<1>37. Reads(i3, 2, m20) /\ Reads(i3, 80, Production)
  BY <1>36, <1>22
<1>38. Reads(i3, 2, m19) /\ Reads(i3, 77, UnitKind)
  BY <1>37, <1>21
<1>39. Reads(i3, 2, m18) /\ Reads(i3, 75, JobWorkTax)
  BY <1>38, <1>20
<1>40. Reads(i3, 2, m17) /\ Reads(i3, 62, JobQuantities)
  BY <1>39, <1>19
<1>41. Reads(i3, 2, m16) /\ Reads(i3, 60, DesignTables)
  BY <1>40, <1>18
<1>42. Reads(i3, 2, m15) /\ Reads(i3, 56, LineDesigns)
  BY <1>41, <1>17
<1>43. Reads(i3, 2, m14) /\ Reads(i3, 54, PalletWeight)
  BY <1>42, <1>16
<1>44. Reads(i3, 2, m13) /\ Reads(i3, 52, LeadIds)
  BY <1>43, <1>15
<1>45. Reads(i3, 2, m12) /\ Reads(i3, 48, Containers("proforma_details", "proforma_containers"))
  BY <1>44, <1>14
<1>46. Reads(i3, 2, m11) /\ Reads(i3, 44, Containers("quotation_details", "quotation_containers"))
  BY <1>45, <1>13
<1>47. Reads(i3, 2, m10) /\ Reads(i3, 39, OrderLinks)
  BY <1>46, <1>12
<1>48. Reads(i3, 2, m9) /\ Reads(i3, 34, VesselName)
  BY <1>47, <1>11
<1>49. Reads(i3, 2, m8) /\ Reads(i3, 29, DropExporters)
  BY <1>48, <1>10
<1>50. Reads(i3, 2, m7) /\ Reads(i3, 24, TareWeight)
  BY <1>49, <1>9
<1>51. Reads(i3, 2, m6) /\ Reads(i3, 22, VesselVoyage)
  BY <1>50, <1>8
<1>52. Reads(i3, 2, m5) /\ Reads(i3, 18, DeadFields)
  BY <1>51, <1>7
<1>53. Reads(i3, 2, m4) /\ Reads(i3, 16, TareText)
  BY <1>52, <1>6
<1>54. Reads(i3, 2, m3) /\ Reads(i3, 10, BuyerOrders)
  BY <1>53, <1>5
<1>55. Reads(i3, 2, m2) /\ Reads(i3, 8, PermitSupplier)
  BY <1>54, <1>4
<1>56. Reads(i3, 2, m1) /\ Reads(i3, 3, ClientSplit)
  BY <1>55, <1>3
<1>57. i3[1] = Connect(TRUE) /\ i3[2] = Script /\ i3[3] = Connect(TRUE)
  <2>1. i3[0 + 1] = Connect(TRUE) /\ i3[0 + 2] = Script
    BY <1>34, <1>26, Zenon
  <2>2. i3[2 + 1] = Connect(TRUE)
    BY <1>56, <1>2, Zenon
  <2>3. 0 + 1 = 1 /\ 0 + 2 = 2 /\ 2 + 1 = 3
    OBVIOUS
  <2>4. QED
    BY <2>1, <2>2, <2>3, Zenon
<1>58. i3[98] = Commit /\ i3[107] = Connect(TRUE) /\ i3[108] = Stamp
  <2>1. i3[97 + 1] = Commit
    BY <1>35, <1>24, Zenon
  <2>2. i3[106 + 1] = Connect(TRUE) /\ i3[106 + 2] = Stamp
    BY <1>32, <1>27, Zenon
  <2>3. 97 + 1 = 98 /\ 106 + 1 = 107 /\ 106 + 2 = 108
    OBVIOUS
  <2>4. QED
    BY <2>1, <2>2, <2>3, Zenon
<1>59. Len(i3) = 108
  BY <1>30 DEF Block
<1>60. Len(Program) = 108 /\ Up = 109
  BY <1>1, <1>59 DEF Up
<1>61. QED
  BY <1>1, <1>60, <1>57, <1>58, <1>33, <1>35, <1>36, <1>37, <1>38, <1>39, <1>40, <1>41, <1>42, <1>43, <1>44, <1>45, <1>46, <1>47, <1>48, <1>49, <1>50, <1>51, <1>52, <1>53, <1>54, <1>55, <1>56


-----------------------------------------------------------------------------
(* Names, rows, and the names that may hold a row.                         *)

\* The tables and columns, one by one.
LEMMA NamesAre ==
    Names = {"clients", "buyers", "exporters", "product_pallet_types",
             "purchase_invoices", "pi_item_order", "pi_order_links",
             "export_invoices", "buyer_orders", "buyer_order_no", "c_no",
             "vessel_voyage_no", "vessel_name", "voyage_no", "tare_weight",
             "tare_weight_kg", "quotation_details", "quotation_containers",
             "proforma_details", "proforma_containers", "item_designs",
             "permit_supplier", "lead_id", "line_design",
             "designs_lists", "job_works", "job_works_rebuilt", "job_work_tax",
             "job_work_items", "quantity_boxes", "jobed_quantity", "jobed_unit",
             "job_quantity",
             "source_quantity", "weight_kg", "unit_kind", "production",
             "production_old", "production_index"}
  BY DEF Names, Life

Moving == {"buyers", "buyer_order_no", "tare_weight_kg", "vessel_name",
           "pi_item_order", "pi_order_links", "quotation_containers",
           "proforma_containers", "source_quantity", "unit_kind"}

\* The rows that had another place before their home existed, and that place.
LEMMA FormerIs ==
    /\ DOMAIN Former = Moving
    /\ \A r \in Moving : Former[r] \in Names
    /\ \A r \in Moving : Former[r] = "buyer_orders" => r = "buyer_order_no"
    /\ \A r \in Moving : Former[r] = "tare_weight" => r = "tare_weight_kg"
    /\ \A r \in Moving : Former[r] = "vessel_voyage_no" => r = "vessel_name"
    /\ \A r \in Moving : Former[r] = "quotation_details" => r = "quotation_containers"
    /\ \A r \in Moving : Former[r] = "proforma_details" => r = "proforma_containers"
    /\ \A r \in Moving : Former[r] \notin Discarded
    /\ \A r \in Moving : Former[r] \notin
          {"c_no", "exporters", "designs_lists", "item_designs", "production",
           "production_old", "job_works", "job_works_rebuilt", "job_work_tax",
           "production_index", "job_work_items", "buyer_order_no",
           "quotation_containers", "proforma_containers"}
  BY NamesAre DEF Former, Moving, Discarded

\* The rows, one by one.
LEMMA RowsAre ==
    Rows = Moving \cup Retired \cup Discarded \cup {"job_works", "job_work_items", "production"}
  BY FormerIs DEF Rows

\* The rows a name may ever hold: its own, those it kept for a later home, and,
\* of a table under its name for the time of a rebuild, those of the table.
Homed(n) ==
    {r \in Rows : n = r \/ (r \in DOMAIN Former /\ n = Former[r])}
        \cup (IF n = "job_works_rebuilt" THEN {"job_works"} ELSE {})
        \cup (IF n = "production_old" THEN {"production"} ELSE {})

\* What the names may hold that some block drops or renames.
LEMMA HomedIs ==
    /\ \A n \in Names : Homed(n) \subseteq Rows
    /\ Homed("buyer_orders") \subseteq {"buyer_order_no"}
    /\ Homed("tare_weight") \subseteq {"tare_weight_kg"}
    /\ Homed("vessel_voyage_no") \subseteq {"vessel_name"}
    /\ Homed("quotation_details") \subseteq {"quotation_containers"}
    /\ Homed("proforma_details") \subseteq {"proforma_containers"}
    /\ Homed("c_no") = {"c_no"} /\ Homed("exporters") = {"exporters"}
    /\ Homed("designs_lists") = {"designs_lists"} /\ Homed("item_designs") = {"item_designs"}
    /\ Homed("production") = {"production"} /\ Homed("production_old") = {"production"}
    /\ Homed("job_works") = {"job_works"} /\ Homed("job_works_rebuilt") = {"job_works"}
    /\ Homed("job_work_tax") = {} /\ Homed("production_index") = {}
    /\ \A n \in Discarded : Homed(n) = {n}
  BY FormerIs, RowsAre DEF Homed, Moving, Retired, Discarded

\* The names that may hold a row whose move is atomic.
LEMMA HoldersAre ==
    ASSUME NEW n \in Names
    PROVE  /\ "buyer_order_no" \in Homed(n) => n \in {"buyer_order_no", "buyer_orders"}
           /\ "quotation_containers" \in Homed(n) => n \in {"quotation_containers", "quotation_details"}
           /\ "proforma_containers" \in Homed(n) => n \in {"proforma_containers", "proforma_details"}
           /\ "job_works" \in Homed(n) => n \in {"job_works", "job_works_rebuilt"}
           /\ "job_work_items" \in Homed(n) => n = "job_work_items"
           /\ \A r \in Retired : r \in Homed(n) => n = r
  BY FormerIs, RowsAre DEF Homed, Moving, Retired, Discarded, Former

\* A row may be at its own name.
LEMMA OwnHome ==
    ASSUME NEW r \in Rows PROVE r \in Homed(r)
  BY DEF Homed

-----------------------------------------------------------------------------
(* The program, statement by statement.                                    *)

\* How long it is.
LEMMA ProgramLength == Len(Program) = 108 /\ Up = 109
  BY ProgramReads

\* Which statement stands where.
LEMMA Listing ==
    /\ Program[1] = Connect(TRUE)
    /\ Program[2] = Script
    /\ Program[3] = Connect(TRUE)
    /\ Program[4] = If(Present("clients"), 4)
    /\ Program[5] = Commit
    /\ Program[6] = Backup
    /\ Program[7] = Insert("clients", "buyers")
    /\ Program[8] = Insert("clients", "exporters")
    /\ Program[9] = If(Present("permit_supplier"), 1)
    /\ Program[10] = Drop("permit_supplier")
    /\ Program[11] = If(MissingFrom("buyer_order_no", "export_invoices"), 1)
    /\ Program[12] = Create("buyer_order_no")
    /\ Program[13] = If(Present("buyer_orders"), 3)
    /\ Program[14] = If(Filled("buyer_orders"), 1)
    /\ Program[15] = UpdateRows("buyer_orders", "buyer_order_no")
    /\ Program[16] = Drop("buyer_orders")
    /\ Program[17] = If(MissingFrom("tare_weight", "export_invoices"), 1)
    /\ Program[18] = Create("tare_weight")
    /\ Program[19] = If(Present("c_no"), 3)
    /\ Program[20] = Commit
    /\ Program[21] = Backup
    /\ Program[22] = Drop("c_no")
    /\ Program[23] = If(MissingFrom("vessel_voyage_no", "export_invoices"), 1)
    /\ Program[24] = Create("vessel_voyage_no")
    /\ Program[25] = If(MissingFrom("tare_weight_kg", "tare_weight"), 4)
    /\ Program[26] = Create("tare_weight_kg")
    /\ Program[27] = If(Filled("tare_weight"), 1)
    /\ Program[28] = UpdateRows("tare_weight", "tare_weight_kg")
    /\ Program[29] = Drop("tare_weight")
    /\ Program[30] = If(Present("exporters"), 4)
    /\ Program[31] = Commit
    /\ Program[32] = Backup
    /\ Program[33] = Delete("exporters")
    /\ Program[34] = Drop("exporters")
    /\ Program[35] = If(MissingFrom("vessel_name", "vessel_voyage_no"), 4)
    /\ Program[36] = Create("vessel_name")
    /\ Program[37] = Create("voyage_no")
    /\ Program[38] = Update("vessel_voyage_no", "vessel_name")
    /\ Program[39] = Drop("vessel_voyage_no")
    /\ Program[40] = If(MissingFrom("pi_item_order", "purchase_invoices"), 2)
    /\ Program[41] = Create("pi_item_order")
    /\ Program[42] = Update("purchase_invoices", "pi_item_order")
    /\ Program[43] = If(Empty("pi_order_links"), 1)
    /\ Program[44] = Insert("purchase_invoices", "pi_order_links")
    /\ Program[45] = CreateIfMissing("quotation_containers")
    /\ Program[46] = If(Present("quotation_details"), 2)
    /\ Program[47] = InsertUnkeyed("quotation_details", "quotation_containers")
    /\ Program[48] = Drop("quotation_details")
    /\ Program[49] = CreateIfMissing("proforma_containers")
    /\ Program[50] = If(Present("proforma_details"), 2)
    /\ Program[51] = InsertUnkeyed("proforma_details", "proforma_containers")
    /\ Program[52] = Drop("proforma_details")
    /\ Program[53] = If(Present("lead_id"), 1)
    /\ Program[54] = Drop("lead_id")
    /\ Program[55] = If(MissingFrom("weight_kg", "product_pallet_types"), 1)
    /\ Program[56] = Create("weight_kg")
    /\ Program[57] = If(MissingFrom("line_design", "export_invoices"), 1)
    /\ Program[58] = Create("line_design")
    /\ Program[59] = If(Present("line_design"), 1)
    /\ Program[60] = Drop("line_design")
    /\ Program[61] = CreateIfMissing("item_designs")
    /\ Program[62] = CreateIfMissing("designs_lists")
    /\ Program[63] = If(MissingFrom("jobed_unit", "job_work_items"), 1)
    /\ Program[64] = Create("jobed_unit")
    /\ Program[65] = If(PresentBelow("job_work_items", 85), 1)
    /\ Program[66] = Update("job_work_items", "job_work_items")
    /\ Program[67] = If(MissingFrom("source_quantity", "job_work_items"), 2)
    /\ Program[68] = Create("source_quantity")
    /\ Program[69] = Update("job_quantity", "source_quantity")
    /\ Program[70] = If(Present("jobed_quantity"), 1)
    /\ Program[71] = Drop("jobed_quantity")
    /\ Program[72] = If(Present("jobed_unit"), 1)
    /\ Program[73] = Drop("jobed_unit")
    /\ Program[74] = If(Present("quantity_boxes"), 1)
    /\ Program[75] = Drop("quantity_boxes")
    /\ Program[76] = If(MissingFrom("job_work_tax", "job_works"), 1)
    /\ Program[77] = Create("job_work_tax")
    /\ Program[78] = If(MissingFrom("unit_kind", "product_pallet_types"), 2)
    /\ Program[79] = Create("unit_kind")
    /\ Program[80] = Update("weight_kg", "unit_kind")
    /\ Program[81] = CreateIfMissing("production")
    /\ Program[82] = If(OldShape("production"), 5)
    /\ Program[83] = DropIfExists("production_index")
    /\ Program[84] = Rename("production", "production_old")
    /\ Program[85] = Create("production")
    /\ Program[86] = Insert("production_old", "production")
    /\ Program[87] = Drop("production_old")
    /\ Program[88] = DropIfExists("production_index")
    /\ Program[89] = Create("production_index")
    /\ Program[90] = If(Present("designs_lists"), 3)
    /\ Program[91] = Commit
    /\ Program[92] = Backup
    /\ Program[93] = Drop("designs_lists")
    /\ Program[94] = If(Present("item_designs"), 3)
    /\ Program[95] = Commit
    /\ Program[96] = Backup
    /\ Program[97] = Drop("item_designs")
    /\ Program[98] = Commit
    /\ Program[99] = Connect(FALSE)
    /\ Program[100] = If(OldShape("job_works"), 6)
    /\ Program[101] = Begin
    /\ Program[102] = Create("job_works_rebuilt")
    /\ Program[103] = InsertAs("job_works", "job_works", "job_works_rebuilt")
    /\ Program[104] = Drop("job_works")
    /\ Program[105] = Rename("job_works_rebuilt", "job_works")
    /\ Program[106] = Commit
    /\ Program[107] = Connect(TRUE)
    /\ Program[108] = Stamp
<1>1. /\ Program[4] = If(Present("clients"), 4)
      /\ Program[5] = Commit
      /\ Program[6] = Backup
      /\ Program[7] = Insert("clients", "buyers")
      /\ Program[8] = Insert("clients", "exporters")
  <2>1. /\ Program[3 + 1] = If(Present("clients"), 4)
        /\ Program[3 + 2] = Commit
        /\ Program[3 + 3] = Backup
        /\ Program[3 + 4] = Insert("clients", "buyers")
        /\ Program[3 + 5] = Insert("clients", "exporters")
    <3>1. 3 \in Nat /\ Reads(Program, 3, ClientSplit)
      BY ProgramReads
    <3>2. QED
      BY <3>1, ClientSplitReads, Zenon
  <2>2. 3 + 1 = 4 /\ 3 + 2 = 5 /\ 3 + 3 = 6 /\ 3 + 4 = 7 /\ 3 + 5 = 8
    OBVIOUS
  <2>3. QED
    BY <2>1, <2>2, Zenon
<1>2. /\ Program[9] = If(Present("permit_supplier"), 1)
      /\ Program[10] = Drop("permit_supplier")
  <2>1. /\ Program[8 + 1] = If(Present("permit_supplier"), 1)
        /\ Program[8 + 2] = Drop("permit_supplier")
    <3>1. 8 \in Nat /\ Reads(Program, 8, PermitSupplier)
      BY ProgramReads
    <3>2. QED
      BY <3>1, PermitSupplierReads, Zenon
  <2>2. 8 + 1 = 9 /\ 8 + 2 = 10
    OBVIOUS
  <2>3. QED
    BY <2>1, <2>2, Zenon
<1>3. /\ Program[11] = If(MissingFrom("buyer_order_no", "export_invoices"), 1)
      /\ Program[12] = Create("buyer_order_no")
      /\ Program[13] = If(Present("buyer_orders"), 3)
      /\ Program[14] = If(Filled("buyer_orders"), 1)
      /\ Program[15] = UpdateRows("buyer_orders", "buyer_order_no")
      /\ Program[16] = Drop("buyer_orders")
  <2>1. /\ Program[10 + 1] = If(MissingFrom("buyer_order_no", "export_invoices"), 1)
        /\ Program[10 + 2] = Create("buyer_order_no")
        /\ Program[10 + 3] = If(Present("buyer_orders"), 3)
        /\ Program[10 + 4] = If(Filled("buyer_orders"), 1)
        /\ Program[10 + 5] = UpdateRows("buyer_orders", "buyer_order_no")
        /\ Program[10 + 6] = Drop("buyer_orders")
    <3>1. 10 \in Nat /\ Reads(Program, 10, BuyerOrders)
      BY ProgramReads
    <3>2. QED
      BY <3>1, BuyerOrdersReads, Zenon
  <2>2. 10 + 1 = 11 /\ 10 + 2 = 12 /\ 10 + 3 = 13 /\ 10 + 4 = 14 /\ 10 + 5 = 15 /\ 10 + 6 = 16
    OBVIOUS
  <2>3. QED
    BY <2>1, <2>2, Zenon
<1>4. /\ Program[17] = If(MissingFrom("tare_weight", "export_invoices"), 1)
      /\ Program[18] = Create("tare_weight")
  <2>1. /\ Program[16 + 1] = If(MissingFrom("tare_weight", "export_invoices"), 1)
        /\ Program[16 + 2] = Create("tare_weight")
    <3>1. 16 \in Nat /\ Reads(Program, 16, TareText)
      BY ProgramReads
    <3>2. QED
      BY <3>1, TareTextReads, Zenon
  <2>2. 16 + 1 = 17 /\ 16 + 2 = 18
    OBVIOUS
  <2>3. QED
    BY <2>1, <2>2, Zenon
<1>5. /\ Program[19] = If(Present("c_no"), 3)
      /\ Program[20] = Commit
      /\ Program[21] = Backup
      /\ Program[22] = Drop("c_no")
  <2>1. /\ Program[18 + 1] = If(Present("c_no"), 3)
        /\ Program[18 + 2] = Commit
        /\ Program[18 + 3] = Backup
        /\ Program[18 + 4] = Drop("c_no")
    <3>1. 18 \in Nat /\ Reads(Program, 18, DeadFields)
      BY ProgramReads
    <3>2. QED
      BY <3>1, DeadFieldsReads, Zenon
  <2>2. 18 + 1 = 19 /\ 18 + 2 = 20 /\ 18 + 3 = 21 /\ 18 + 4 = 22
    OBVIOUS
  <2>3. QED
    BY <2>1, <2>2, Zenon
<1>6. /\ Program[23] = If(MissingFrom("vessel_voyage_no", "export_invoices"), 1)
      /\ Program[24] = Create("vessel_voyage_no")
  <2>1. /\ Program[22 + 1] = If(MissingFrom("vessel_voyage_no", "export_invoices"), 1)
        /\ Program[22 + 2] = Create("vessel_voyage_no")
    <3>1. 22 \in Nat /\ Reads(Program, 22, VesselVoyage)
      BY ProgramReads
    <3>2. QED
      BY <3>1, VesselVoyageReads, Zenon
  <2>2. 22 + 1 = 23 /\ 22 + 2 = 24
    OBVIOUS
  <2>3. QED
    BY <2>1, <2>2, Zenon
<1>7. /\ Program[25] = If(MissingFrom("tare_weight_kg", "tare_weight"), 4)
      /\ Program[26] = Create("tare_weight_kg")
      /\ Program[27] = If(Filled("tare_weight"), 1)
      /\ Program[28] = UpdateRows("tare_weight", "tare_weight_kg")
      /\ Program[29] = Drop("tare_weight")
  <2>1. /\ Program[24 + 1] = If(MissingFrom("tare_weight_kg", "tare_weight"), 4)
        /\ Program[24 + 2] = Create("tare_weight_kg")
        /\ Program[24 + 3] = If(Filled("tare_weight"), 1)
        /\ Program[24 + 4] = UpdateRows("tare_weight", "tare_weight_kg")
        /\ Program[24 + 5] = Drop("tare_weight")
    <3>1. 24 \in Nat /\ Reads(Program, 24, TareWeight)
      BY ProgramReads
    <3>2. QED
      BY <3>1, TareWeightReads, Zenon
  <2>2. 24 + 1 = 25 /\ 24 + 2 = 26 /\ 24 + 3 = 27 /\ 24 + 4 = 28 /\ 24 + 5 = 29
    OBVIOUS
  <2>3. QED
    BY <2>1, <2>2, Zenon
<1>8. /\ Program[30] = If(Present("exporters"), 4)
      /\ Program[31] = Commit
      /\ Program[32] = Backup
      /\ Program[33] = Delete("exporters")
      /\ Program[34] = Drop("exporters")
  <2>1. /\ Program[29 + 1] = If(Present("exporters"), 4)
        /\ Program[29 + 2] = Commit
        /\ Program[29 + 3] = Backup
        /\ Program[29 + 4] = Delete("exporters")
        /\ Program[29 + 5] = Drop("exporters")
    <3>1. 29 \in Nat /\ Reads(Program, 29, DropExporters)
      BY ProgramReads
    <3>2. QED
      BY <3>1, DropExportersReads, Zenon
  <2>2. 29 + 1 = 30 /\ 29 + 2 = 31 /\ 29 + 3 = 32 /\ 29 + 4 = 33 /\ 29 + 5 = 34
    OBVIOUS
  <2>3. QED
    BY <2>1, <2>2, Zenon
<1>9. /\ Program[35] = If(MissingFrom("vessel_name", "vessel_voyage_no"), 4)
      /\ Program[36] = Create("vessel_name")
      /\ Program[37] = Create("voyage_no")
      /\ Program[38] = Update("vessel_voyage_no", "vessel_name")
      /\ Program[39] = Drop("vessel_voyage_no")
  <2>1. /\ Program[34 + 1] = If(MissingFrom("vessel_name", "vessel_voyage_no"), 4)
        /\ Program[34 + 2] = Create("vessel_name")
        /\ Program[34 + 3] = Create("voyage_no")
        /\ Program[34 + 4] = Update("vessel_voyage_no", "vessel_name")
        /\ Program[34 + 5] = Drop("vessel_voyage_no")
    <3>1. 34 \in Nat /\ Reads(Program, 34, VesselName)
      BY ProgramReads
    <3>2. QED
      BY <3>1, VesselNameReads, Zenon
  <2>2. 34 + 1 = 35 /\ 34 + 2 = 36 /\ 34 + 3 = 37 /\ 34 + 4 = 38 /\ 34 + 5 = 39
    OBVIOUS
  <2>3. QED
    BY <2>1, <2>2, Zenon
<1>10. /\ Program[40] = If(MissingFrom("pi_item_order", "purchase_invoices"), 2)
      /\ Program[41] = Create("pi_item_order")
      /\ Program[42] = Update("purchase_invoices", "pi_item_order")
      /\ Program[43] = If(Empty("pi_order_links"), 1)
      /\ Program[44] = Insert("purchase_invoices", "pi_order_links")
  <2>1. /\ Program[39 + 1] = If(MissingFrom("pi_item_order", "purchase_invoices"), 2)
        /\ Program[39 + 2] = Create("pi_item_order")
        /\ Program[39 + 3] = Update("purchase_invoices", "pi_item_order")
        /\ Program[39 + 4] = If(Empty("pi_order_links"), 1)
        /\ Program[39 + 5] = Insert("purchase_invoices", "pi_order_links")
    <3>1. 39 \in Nat /\ Reads(Program, 39, OrderLinks)
      BY ProgramReads
    <3>2. QED
      BY <3>1, OrderLinksReads, Zenon
  <2>2. 39 + 1 = 40 /\ 39 + 2 = 41 /\ 39 + 3 = 42 /\ 39 + 4 = 43 /\ 39 + 5 = 44
    OBVIOUS
  <2>3. QED
    BY <2>1, <2>2, Zenon
<1>11. /\ Program[45] = CreateIfMissing("quotation_containers")
      /\ Program[46] = If(Present("quotation_details"), 2)
      /\ Program[47] = InsertUnkeyed("quotation_details", "quotation_containers")
      /\ Program[48] = Drop("quotation_details")
  <2>1. /\ Program[44 + 1] = CreateIfMissing("quotation_containers")
        /\ Program[44 + 2] = If(Present("quotation_details"), 2)
        /\ Program[44 + 3] = InsertUnkeyed("quotation_details", "quotation_containers")
        /\ Program[44 + 4] = Drop("quotation_details")
    <3>1. 44 \in Nat /\ Reads(Program, 44, Containers("quotation_details", "quotation_containers"))
      BY ProgramReads
    <3>2. QED
      BY <3>1, ContainersReads
  <2>2. 44 + 1 = 45 /\ 44 + 2 = 46 /\ 44 + 3 = 47 /\ 44 + 4 = 48
    OBVIOUS
  <2>3. QED
    BY <2>1, <2>2, Zenon
<1>12. /\ Program[49] = CreateIfMissing("proforma_containers")
      /\ Program[50] = If(Present("proforma_details"), 2)
      /\ Program[51] = InsertUnkeyed("proforma_details", "proforma_containers")
      /\ Program[52] = Drop("proforma_details")
  <2>1. /\ Program[48 + 1] = CreateIfMissing("proforma_containers")
        /\ Program[48 + 2] = If(Present("proforma_details"), 2)
        /\ Program[48 + 3] = InsertUnkeyed("proforma_details", "proforma_containers")
        /\ Program[48 + 4] = Drop("proforma_details")
    <3>1. 48 \in Nat /\ Reads(Program, 48, Containers("proforma_details", "proforma_containers"))
      BY ProgramReads
    <3>2. QED
      BY <3>1, ContainersReads
  <2>2. 48 + 1 = 49 /\ 48 + 2 = 50 /\ 48 + 3 = 51 /\ 48 + 4 = 52
    OBVIOUS
  <2>3. QED
    BY <2>1, <2>2, Zenon
<1>13. /\ Program[53] = If(Present("lead_id"), 1)
      /\ Program[54] = Drop("lead_id")
  <2>1. /\ Program[52 + 1] = If(Present("lead_id"), 1)
        /\ Program[52 + 2] = Drop("lead_id")
    <3>1. 52 \in Nat /\ Reads(Program, 52, LeadIds)
      BY ProgramReads
    <3>2. QED
      BY <3>1, LeadIdsReads, Zenon
  <2>2. 52 + 1 = 53 /\ 52 + 2 = 54
    OBVIOUS
  <2>3. QED
    BY <2>1, <2>2, Zenon
<1>14. /\ Program[55] = If(MissingFrom("weight_kg", "product_pallet_types"), 1)
      /\ Program[56] = Create("weight_kg")
  <2>1. /\ Program[54 + 1] = If(MissingFrom("weight_kg", "product_pallet_types"), 1)
        /\ Program[54 + 2] = Create("weight_kg")
    <3>1. 54 \in Nat /\ Reads(Program, 54, PalletWeight)
      BY ProgramReads
    <3>2. QED
      BY <3>1, PalletWeightReads, Zenon
  <2>2. 54 + 1 = 55 /\ 54 + 2 = 56
    OBVIOUS
  <2>3. QED
    BY <2>1, <2>2, Zenon
<1>15. /\ Program[57] = If(MissingFrom("line_design", "export_invoices"), 1)
      /\ Program[58] = Create("line_design")
      /\ Program[59] = If(Present("line_design"), 1)
      /\ Program[60] = Drop("line_design")
  <2>1. /\ Program[56 + 1] = If(MissingFrom("line_design", "export_invoices"), 1)
        /\ Program[56 + 2] = Create("line_design")
        /\ Program[56 + 3] = If(Present("line_design"), 1)
        /\ Program[56 + 4] = Drop("line_design")
    <3>1. 56 \in Nat /\ Reads(Program, 56, LineDesigns)
      BY ProgramReads
    <3>2. QED
      BY <3>1, LineDesignsReads, Zenon
  <2>2. 56 + 1 = 57 /\ 56 + 2 = 58 /\ 56 + 3 = 59 /\ 56 + 4 = 60
    OBVIOUS
  <2>3. QED
    BY <2>1, <2>2, Zenon
<1>16. /\ Program[61] = CreateIfMissing("item_designs")
      /\ Program[62] = CreateIfMissing("designs_lists")
  <2>1. /\ Program[60 + 1] = CreateIfMissing("item_designs")
        /\ Program[60 + 2] = CreateIfMissing("designs_lists")
    <3>1. 60 \in Nat /\ Reads(Program, 60, DesignTables)
      BY ProgramReads
    <3>2. QED
      BY <3>1, DesignTablesReads, Zenon
  <2>2. 60 + 1 = 61 /\ 60 + 2 = 62
    OBVIOUS
  <2>3. QED
    BY <2>1, <2>2, Zenon
<1>17. /\ Program[63] = If(MissingFrom("jobed_unit", "job_work_items"), 1)
      /\ Program[64] = Create("jobed_unit")
      /\ Program[65] = If(PresentBelow("job_work_items", 85), 1)
      /\ Program[66] = Update("job_work_items", "job_work_items")
      /\ Program[67] = If(MissingFrom("source_quantity", "job_work_items"), 2)
      /\ Program[68] = Create("source_quantity")
      /\ Program[69] = Update("job_quantity", "source_quantity")
      /\ Program[70] = If(Present("jobed_quantity"), 1)
      /\ Program[71] = Drop("jobed_quantity")
      /\ Program[72] = If(Present("jobed_unit"), 1)
      /\ Program[73] = Drop("jobed_unit")
      /\ Program[74] = If(Present("quantity_boxes"), 1)
      /\ Program[75] = Drop("quantity_boxes")
  <2>1. /\ Program[62 + 1] = If(MissingFrom("jobed_unit", "job_work_items"), 1)
        /\ Program[62 + 2] = Create("jobed_unit")
        /\ Program[62 + 3] = If(PresentBelow("job_work_items", 85), 1)
        /\ Program[62 + 4] = Update("job_work_items", "job_work_items")
        /\ Program[62 + 5] = If(MissingFrom("source_quantity", "job_work_items"), 2)
        /\ Program[62 + 6] = Create("source_quantity")
        /\ Program[62 + 7] = Update("job_quantity", "source_quantity")
        /\ Program[62 + 8] = If(Present("jobed_quantity"), 1)
        /\ Program[62 + 9] = Drop("jobed_quantity")
        /\ Program[62 + 10] = If(Present("jobed_unit"), 1)
        /\ Program[62 + 11] = Drop("jobed_unit")
        /\ Program[62 + 12] = If(Present("quantity_boxes"), 1)
        /\ Program[62 + 13] = Drop("quantity_boxes")
    <3>1. 62 \in Nat /\ Reads(Program, 62, JobQuantities)
      BY ProgramReads
    <3>2. QED
      BY <3>1, JobQuantitiesReads, SMT
  <2>2. 62 + 1 = 63 /\ 62 + 2 = 64 /\ 62 + 3 = 65 /\ 62 + 4 = 66 /\ 62 + 5 = 67 /\ 62 + 6 = 68 /\ 62 + 7 = 69 /\ 62 + 8 = 70 /\ 62 + 9 = 71 /\ 62 + 10 = 72 /\ 62 + 11 = 73 /\ 62 + 12 = 74 /\ 62 + 13 = 75
    OBVIOUS
  <2>3. QED
    BY <2>1, <2>2, Zenon
<1>18. /\ Program[76] = If(MissingFrom("job_work_tax", "job_works"), 1)
      /\ Program[77] = Create("job_work_tax")
  <2>1. /\ Program[75 + 1] = If(MissingFrom("job_work_tax", "job_works"), 1)
        /\ Program[75 + 2] = Create("job_work_tax")
    <3>1. 75 \in Nat /\ Reads(Program, 75, JobWorkTax)
      BY ProgramReads
    <3>2. QED
      BY <3>1, JobWorkTaxReads, Zenon
  <2>2. 75 + 1 = 76 /\ 75 + 2 = 77
    OBVIOUS
  <2>3. QED
    BY <2>1, <2>2, Zenon
<1>19. /\ Program[78] = If(MissingFrom("unit_kind", "product_pallet_types"), 2)
      /\ Program[79] = Create("unit_kind")
      /\ Program[80] = Update("weight_kg", "unit_kind")
  <2>1. /\ Program[77 + 1] = If(MissingFrom("unit_kind", "product_pallet_types"), 2)
        /\ Program[77 + 2] = Create("unit_kind")
        /\ Program[77 + 3] = Update("weight_kg", "unit_kind")
    <3>1. 77 \in Nat /\ Reads(Program, 77, UnitKind)
      BY ProgramReads
    <3>2. QED
      BY <3>1, UnitKindReads, Zenon
  <2>2. 77 + 1 = 78 /\ 77 + 2 = 79 /\ 77 + 3 = 80
    OBVIOUS
  <2>3. QED
    BY <2>1, <2>2, Zenon
<1>20. /\ Program[81] = CreateIfMissing("production")
      /\ Program[82] = If(OldShape("production"), 5)
      /\ Program[83] = DropIfExists("production_index")
      /\ Program[84] = Rename("production", "production_old")
      /\ Program[85] = Create("production")
      /\ Program[86] = Insert("production_old", "production")
      /\ Program[87] = Drop("production_old")
      /\ Program[88] = DropIfExists("production_index")
      /\ Program[89] = Create("production_index")
  <2>1. /\ Program[80 + 1] = CreateIfMissing("production")
        /\ Program[80 + 2] = If(OldShape("production"), 5)
        /\ Program[80 + 3] = DropIfExists("production_index")
        /\ Program[80 + 4] = Rename("production", "production_old")
        /\ Program[80 + 5] = Create("production")
        /\ Program[80 + 6] = Insert("production_old", "production")
        /\ Program[80 + 7] = Drop("production_old")
        /\ Program[80 + 8] = DropIfExists("production_index")
        /\ Program[80 + 9] = Create("production_index")
    <3>1. 80 \in Nat /\ Reads(Program, 80, Production)
      BY ProgramReads
    <3>2. QED
      BY <3>1, ProductionReads, Zenon
  <2>2. 80 + 1 = 81 /\ 80 + 2 = 82 /\ 80 + 3 = 83 /\ 80 + 4 = 84 /\ 80 + 5 = 85 /\ 80 + 6 = 86 /\ 80 + 7 = 87 /\ 80 + 8 = 88 /\ 80 + 9 = 89
    OBVIOUS
  <2>3. QED
    BY <2>1, <2>2, Zenon
<1>21. /\ Program[90] = If(Present("designs_lists"), 3)
      /\ Program[91] = Commit
      /\ Program[92] = Backup
      /\ Program[93] = Drop("designs_lists")
      /\ Program[94] = If(Present("item_designs"), 3)
      /\ Program[95] = Commit
      /\ Program[96] = Backup
      /\ Program[97] = Drop("item_designs")
  <2>1. /\ Program[89 + 1] = If(Present("designs_lists"), 3)
        /\ Program[89 + 2] = Commit
        /\ Program[89 + 3] = Backup
        /\ Program[89 + 4] = Drop("designs_lists")
        /\ Program[89 + 5] = If(Present("item_designs"), 3)
        /\ Program[89 + 6] = Commit
        /\ Program[89 + 7] = Backup
        /\ Program[89 + 8] = Drop("item_designs")
    <3>1. 89 \in Nat /\ Reads(Program, 89, RetireDesigns)
      BY ProgramReads
    <3>2. QED
      BY <3>1, RetireDesignsReads, Zenon
  <2>2. 89 + 1 = 90 /\ 89 + 2 = 91 /\ 89 + 3 = 92 /\ 89 + 4 = 93 /\ 89 + 5 = 94 /\ 89 + 6 = 95 /\ 89 + 7 = 96 /\ 89 + 8 = 97
    OBVIOUS
  <2>3. QED
    BY <2>1, <2>2, Zenon
<1>22. /\ Program[99] = Connect(FALSE)
      /\ Program[100] = If(OldShape("job_works"), 6)
      /\ Program[101] = Begin
      /\ Program[102] = Create("job_works_rebuilt")
      /\ Program[103] = InsertAs("job_works", "job_works", "job_works_rebuilt")
      /\ Program[104] = Drop("job_works")
      /\ Program[105] = Rename("job_works_rebuilt", "job_works")
      /\ Program[106] = Commit
  <2>1. /\ Program[98 + 1] = Connect(FALSE)
        /\ Program[98 + 2] = If(OldShape("job_works"), 6)
        /\ Program[98 + 3] = Begin
        /\ Program[98 + 4] = Create("job_works_rebuilt")
        /\ Program[98 + 5] = InsertAs("job_works", "job_works", "job_works_rebuilt")
        /\ Program[98 + 6] = Drop("job_works")
        /\ Program[98 + 7] = Rename("job_works_rebuilt", "job_works")
        /\ Program[98 + 8] = Commit
    <3>1. 98 \in Nat /\ Reads(Program, 98, RebuildJobWorks)
      BY ProgramReads
    <3>2. QED
      BY <3>1, RebuildJobWorksReads, Zenon
  <2>2. 98 + 1 = 99 /\ 98 + 2 = 100 /\ 98 + 3 = 101 /\ 98 + 4 = 102 /\ 98 + 5 = 103 /\ 98 + 6 = 104 /\ 98 + 7 = 105 /\ 98 + 8 = 106
    OBVIOUS
  <2>3. QED
    BY <2>1, <2>2, Zenon
<1>23. QED
  BY ProgramReads, <1>1, <1>2, <1>3, <1>4, <1>5, <1>6, <1>7, <1>8, <1>9, <1>10, <1>11, <1>12, <1>13, <1>14, <1>15, <1>16, <1>17, <1>18, <1>19, <1>20, <1>21, <1>22, Zenon


-----------------------------------------------------------------------------
(* What a statement makes of a database.                                   *)

\* A name holds only rows that may be there, and one that is absent holds none.
Sound(d) == \A n \in Names : /\ d.rows[n] \subseteq Homed(n)
                             /\ d.shape[n] = "absent" => d.rows[n] = {}

\* Every one of the rows F that are not discarded is in d, or is retired and in one
\* of the backups B.
Kept(d, F, B) ==
    \A r \in F \ Discarded : (r \in Retired /\ \E b \in B : r \in b) \/ \E n \in Names : r \in d.rows[n]

\* The names that no statement adds a row to.
Sources == {"buyer_orders", "tare_weight", "quotation_details", "proforma_details"}
Shrunk(d, e) == \A n \in Sources : e.rows[n] \subseteq d.rows[n]

\* job_works is not being rebuilt.
Fresh(d) == d.shape["job_works_rebuilt"] = "absent"

\* A statement may turn the database d into e.
Safe(d, e, F, B) ==
    /\ e \in Databases /\ Sound(e) /\ Shrunk(d, e)
    /\ Kept(d, F, B) => Kept(e, F, B)

\* Put gives one name a shape and rows and leaves the others.
LEMMA PutIs ==
    ASSUME NEW d \in Databases, NEW n \in Names, NEW sh \in Shapes, NEW R \in SUBSET Rows
    PROVE  /\ Put(d, n, sh, R) \in Databases
           /\ Put(d, n, sh, R).shape[n] = sh /\ Put(d, n, sh, R).rows[n] = R
           /\ \A m \in Names : m # n => /\ Put(d, n, sh, R).shape[m] = d.shape[m]
                                        /\ Put(d, n, sh, R).rows[m] = d.rows[m]
  BY DEF Put, Databases

\* The same database is a safe outcome.
LEMMA SafeSame ==
    ASSUME NEW d \in Databases, Sound(d), NEW F, NEW B
    PROVE  Safe(d, d, F, B)
  BY DEF Safe, Shrunk

\* Where every name keeps its rows and none appears at a name without a table,
\* nothing is lost.
LEMMA SafeGrowth ==
    ASSUME NEW d \in Databases, Sound(d), NEW e \in Databases, NEW F, NEW B,
           \A n \in Names : /\ d.rows[n] \subseteq e.rows[n] /\ e.rows[n] \subseteq Homed(n)
                            /\ e.shape[n] = "absent" => e.rows[n] = {}
                            /\ n \in Sources => e.rows[n] = d.rows[n]
    PROVE  Safe(d, e, F, B)
<1>1. Sound(e)
  BY DEF Sound
<1>2. Shrunk(d, e)
  BY NamesAre DEF Shrunk, Sources
<1>3. Kept(d, F, B) => Kept(e, F, B)
  BY DEF Kept
<1>4. QED
  BY <1>1, <1>2, <1>3 DEF Safe

\* CREATE: a new name is empty.
LEMMA CreateStep ==
    ASSUME NEW d \in Databases, Sound(d), NEW n \in Names, NEW F, NEW B
    PROVE  LET e == IF Here(d, n) THEN d ELSE Put(d, n, "new", {})
           IN Safe(d, e, F, B) /\ (n # "job_works_rebuilt" /\ Fresh(d) => Fresh(e))
<1>1. CASE Here(d, n)
  BY <1>1, SafeSame
<1>2. CASE ~Here(d, n)
  <2> DEFINE e == Put(d, n, "new", {})
  <2>1. /\ e \in Databases /\ e.shape[n] = "new" /\ e.rows[n] = {}
        /\ \A m \in Names : m # n => e.shape[m] = d.shape[m] /\ e.rows[m] = d.rows[m]
    BY PutIs DEF Shapes
  <2> HIDE DEF e
  <2>2. d.rows[n] = {}
    BY <1>2 DEF Here, Sound
  <2>3. \A m \in Names : e.rows[m] = d.rows[m]
    BY <2>1, <2>2
  <2>4. \A m \in Names : e.shape[m] = "absent" => d.shape[m] = "absent"
    BY <2>1
  <2>5. Safe(d, e, F, B)
    BY <2>1, <2>3, <2>4, SafeGrowth DEF Sound
  <2>6. n # "job_works_rebuilt" /\ Fresh(d) => Fresh(e)
    BY <2>1, NamesAre DEF Fresh
  <2>7. QED
    BY <1>2, <2>5, <2>6 DEF e
<1>3. QED
  BY <1>1, <1>2

\* The tables that other names are columns of, job_works aside.
Wide == {"export_invoices", "purchase_invoices", "job_work_items", "product_pallet_types"}

\* DROP of any other name takes the name alone, and of job_works its tax columns.
LEMMA DroppedIs ==
    ASSUME NEW d \in Databases, NEW n \in Names, n \notin Wide
    PROVE  LET e == Dropped(d, n, FALSE)
           IN /\ e \in Databases /\ e.shape[n] = "absent" /\ e.rows[n] = {}
              /\ \A m \in Names : m # n /\ m # "job_work_tax" =>
                    e.shape[m] = d.shape[m] /\ e.rows[m] = d.rows[m]
              /\ \/ /\ e.shape["job_work_tax"] = "absent" /\ e.rows["job_work_tax"] = {}
                 \/ /\ e.shape["job_work_tax"] = d.shape["job_work_tax"]
                    /\ e.rows["job_work_tax"] = d.rows["job_work_tax"]
<1> DEFINE lost == {m \in Names : m = n \/ TableOf(m) = n}
           e == [d EXCEPT !.shape = [m \in Names |-> IF m \in lost THEN "absent" ELSE @[m]],
                          !.rows = [m \in Names |-> IF m \in lost THEN {} ELSE @[m]]]
<1>1. Dropped(d, n, FALSE) = e
  BY DEF Dropped
<1>2. n \in lost
  OBVIOUS
<1>3. ASSUME NEW m \in lost PROVE m = n \/ m = "job_work_tax"
  <2>1. TableOf(m) \in Wide \cup {"job_works", m} /\ (TableOf(m) = "job_works" => m \in {"job_work_tax", "job_works"})
    BY DEF TableOf, Wide
  <2>2. QED
    BY <2>1, <1>3
<1> HIDE DEF lost
<1>4. /\ e \in Databases
      /\ \A m \in Names : e.shape[m] = (IF m \in lost THEN "absent" ELSE d.shape[m])
      /\ \A m \in Names : e.rows[m] = (IF m \in lost THEN {} ELSE d.rows[m])
  BY DEF Databases, Shapes
<1> HIDE DEF e
<1>5. "job_work_tax" \in Names
  BY NamesAre
<1>6. QED
  BY <1>1, <1>2, <1>3, <1>4, <1>5

\* The rows that a name holds are discarded, elsewhere or in a backup.
Elsewhere(d, n, F, B) ==
    \A r \in d.rows[n] \ Discarded : \/ r \in F => r \in Retired /\ \E b \in B : r \in b
                         \/ \E m \in Names : m # n /\ r \in d.rows[m]

\* DROP is safe where the rows the name held are discarded, elsewhere or in a backup.
LEMMA DropStep ==
    ASSUME NEW d \in Databases, Sound(d), NEW n \in Names, n \notin Wide, NEW F, NEW B,
           Elsewhere(d, n, F, B)
    PROVE  LET e == Dropped(d, n, FALSE)
           IN /\ Safe(d, e, F, B) /\ (Fresh(d) => Fresh(e)) /\ e.rows[n] = {}
              /\ \A m \in Names : m # n => e.rows[m] = d.rows[m]
<1> DEFINE e == Dropped(d, n, FALSE)
<1>1. /\ e \in Databases /\ e.shape[n] = "absent" /\ e.rows[n] = {}
      /\ \A m \in Names : m # n /\ m # "job_work_tax" =>
            e.shape[m] = d.shape[m] /\ e.rows[m] = d.rows[m]
      /\ \/ /\ e.shape["job_work_tax"] = "absent" /\ e.rows["job_work_tax"] = {}
         \/ /\ e.shape["job_work_tax"] = d.shape["job_work_tax"]
            /\ e.rows["job_work_tax"] = d.rows["job_work_tax"]
  BY DroppedIs
<1> HIDE DEF e
<1>2. "job_work_tax" \in Names /\ d.rows["job_work_tax"] = {}
  BY NamesAre, HomedIs DEF Sound
<1>3. \A m \in Names : m # n => /\ e.rows[m] = d.rows[m]
                                /\ e.shape[m] = "absent" \/ e.shape[m] = d.shape[m]
  BY <1>1, <1>2
<1>4. Sound(e)
  BY <1>1, <1>2, <1>3 DEF Sound
<1>5. Shrunk(d, e)
  BY <1>1, <1>3, NamesAre DEF Shrunk, Sources
<1>6. ASSUME Kept(d, F, B), NEW r \in F \ Discarded, ~(r \in Retired /\ \E b \in B : r \in b)
      PROVE  \E m \in Names : r \in e.rows[m]
  <2>1. PICK m \in Names : r \in d.rows[m]
    BY <1>6 DEF Kept
  <2>2. PICK k \in Names : k # n /\ r \in d.rows[k]
    BY <1>6, <2>1 DEF Elsewhere
  <2>3. QED
    BY <1>3, <2>2
<1>7. Kept(d, F, B) => Kept(e, F, B)
  BY <1>6 DEF Kept
<1>8. Fresh(d) => Fresh(e)
  BY <1>1, <1>3, NamesAre DEF Fresh
<1>9. QED
  BY <1>1, <1>3, <1>4, <1>5, <1>7, <1>8 DEF Safe, e

\* RENAME to a name that may hold what the other held.
LEMMA RenameStep ==
    ASSUME NEW d \in Databases, Sound(d), NEW n \in Names, NEW m \in Names, NEW F, NEW B,
           m # n, ~Here(d, m), n \notin Sources, m \notin Sources, Homed(n) \subseteq Homed(m),
           Here(d, n)
    PROVE  LET e == Put(Put(d, m, d.shape[n], d.rows[n]), n, "absent", {})
           IN /\ Safe(d, e, F, B) /\ e.shape[n] = "absent"
              /\ \A k \in Names : k # n /\ k # m => e.shape[k] = d.shape[k]
<1> DEFINE c == Put(d, m, d.shape[n], d.rows[n])
           e == Put(c, n, "absent", {})
<1>1. d.shape[n] \in Shapes /\ d.rows[n] \in SUBSET Rows
  BY DEF Databases
<1>2. /\ c \in Databases /\ c.shape[m] = d.shape[n] /\ c.rows[m] = d.rows[n]
      /\ \A k \in Names : k # m => c.shape[k] = d.shape[k] /\ c.rows[k] = d.rows[k]
  BY <1>1, PutIs
<1> HIDE DEF c
<1>3. /\ e \in Databases /\ e.shape[n] = "absent" /\ e.rows[n] = {}
      /\ \A k \in Names : k # n => e.shape[k] = c.shape[k] /\ e.rows[k] = c.rows[k]
  BY <1>2, PutIs DEF Shapes
<1> HIDE DEF e
<1>4. e.shape[m] = d.shape[n] /\ e.rows[m] = d.rows[n]
  BY <1>2, <1>3
<1>5. \A k \in Names : k # n /\ k # m => e.shape[k] = d.shape[k] /\ e.rows[k] = d.rows[k]
  BY <1>2, <1>3
<1>6. d.rows[n] \subseteq Homed(n) /\ d.rows[m] = {}
  BY DEF Sound, Here
<1>7. Sound(e)
  BY <1>3, <1>4, <1>5, <1>6 DEF Sound, Here
<1>8. Shrunk(d, e)
  BY <1>5, NamesAre DEF Shrunk, Sources
<1>9. ASSUME NEW r, NEW k \in Names, r \in d.rows[k]
      PROVE  \E j \in Names : r \in e.rows[j]
  BY <1>9, <1>4, <1>5, <1>6
<1>10. Kept(d, F, B) => Kept(e, F, B)
  BY <1>9 DEF Kept
<1>11. QED
  BY <1>3, <1>5, <1>7, <1>8, <1>10 DEF Safe, c, e

\* INSERT and UPDATE: the row is added where it may be.
LEMMA CarryStep ==
    ASSUME NEW d \in Databases, Sound(d), NEW s, NEW F, NEW B,
           s.name \in Names, s.to \in Names, s.to \notin Sources,
           s.row \in Rows, s.row \in Homed(s.to), Here(d, s.to)
    PROVE  LET e == [d EXCEPT !.rows[s.to] = @ \cup Moved(s, d)]
           IN /\ Safe(d, e, F, B) /\ (Fresh(d) => Fresh(e))
              /\ e.shape = d.shape
              /\ d.rows[s.name] \subseteq {s.row} => e.rows[s.name] \subseteq e.rows[s.to]
<1> DEFINE R == Moved(s, d)
           e == [d EXCEPT !.rows[s.to] = @ \cup R]
<1>1. R \in SUBSET Rows /\ R \subseteq {s.row} /\ R \subseteq d.rows[s.name]
      /\ (d.rows[s.name] \subseteq {s.row} => R = d.rows[s.name])
  BY DEF Moved
<1> HIDE DEF R
<1>2. /\ e \in Databases /\ e.shape = d.shape
      /\ e.rows[s.to] = d.rows[s.to] \cup R
      /\ \A n \in Names : n # s.to => e.rows[n] = d.rows[n]
  BY <1>1 DEF Databases
<1> HIDE DEF e
<1>3. \A n \in Names : d.rows[n] \subseteq e.rows[n]
  BY <1>2
<1>4. \A n \in Names : e.rows[n] \subseteq Homed(n)
  BY <1>1, <1>2 DEF Sound
<1>5. \A n \in Names : e.shape[n] = "absent" => e.rows[n] = {}
  BY <1>2 DEF Sound, Here
<1>6. \A n \in Names : n \in Sources => e.rows[n] = d.rows[n]
  BY <1>2
<1>7. Safe(d, e, F, B)
  BY <1>2, <1>3, <1>4, <1>5, <1>6, SafeGrowth
<1>8. d.rows[s.name] \subseteq {s.row} => e.rows[s.name] \subseteq e.rows[s.to]
  BY <1>1, <1>2
<1>9. QED
  BY <1>2, <1>7, <1>8 DEF e, R, Fresh

\* DELETE of a table whose rows are in a backup.
LEMMA DeleteStep ==
    ASSUME NEW d \in Databases, Sound(d), NEW F, NEW B,
           "exporters" \in F => \E b \in B : "exporters" \in b
    PROVE  LET e == [d EXCEPT !.rows["exporters"] = {}]
           IN Safe(d, e, F, B) /\ (Fresh(d) => Fresh(e))
<1> DEFINE e == [d EXCEPT !.rows["exporters"] = {}]
<1>1. "exporters" \in Names /\ "exporters" \notin Sources /\ "exporters" \in Retired
  BY NamesAre DEF Sources, Retired
<1>2. /\ e \in Databases /\ e.shape = d.shape /\ e.rows["exporters"] = {}
      /\ \A n \in Names : n # "exporters" => e.rows[n] = d.rows[n]
  BY <1>1 DEF Databases
<1> HIDE DEF e
<1>3. Sound(e)
  BY <1>2 DEF Sound
<1>4. Shrunk(d, e)
  BY <1>1, <1>2, NamesAre DEF Shrunk, Sources
<1>5. ASSUME Kept(d, F, B), NEW r \in F \ Discarded, ~(r \in Retired /\ \E b \in B : r \in b)
      PROVE  \E m \in Names : r \in e.rows[m]
  <2>1. PICK m \in Names : r \in d.rows[m]
    BY <1>5 DEF Kept
  <2>2. r \in Homed(m)
    BY <2>1 DEF Sound
  <2>3. m # "exporters"
    BY <1>5, <2>2, <1>1, HomedIs
  <2>4. QED
    BY <1>2, <2>1, <2>3
<1>6. Kept(d, F, B) => Kept(e, F, B)
  BY <1>5 DEF Kept
<1>7. QED
  BY <1>2, <1>3, <1>4, <1>6 DEF Safe, e, Fresh

\* The script makes tables and columns, all empty, and none for a rebuild.
LEMMA ScriptStep ==
    ASSUME NEW d \in Databases, Sound(d), NEW F, NEW B
    PROVE  Safe(d, Scripted(d), F, B) /\ (Fresh(d) => Fresh(Scripted(d)))
<1> DEFINE e == Scripted(d)
<1>1. /\ e \in Databases /\ e.rows = d.rows
      /\ \A n \in Names : e.shape[n] = "absent" => d.shape[n] = "absent"
      /\ \A n \in Names : n \notin InSchema => e.shape[n] = d.shape[n]
  BY DEF Scripted, Databases, Shapes
<1>2. "job_works_rebuilt" \in Names /\ "job_works_rebuilt" \notin InSchema
  <2>1. Life["job_works_rebuilt"] = <<0, 0>> /\ "job_works_rebuilt" \in Names
    BY DEF Life, Names
  <2>2. Life["job_works_rebuilt"][2] = 0
    BY <2>1
  <2>3. QED
    BY <2>1, <2>2 DEF InSchema, Current, SchemaVersion
<1> HIDE DEF e
<1>3. \A n \in Names : d.rows[n] \subseteq e.rows[n] /\ e.rows[n] \subseteq Homed(n)
  BY <1>1 DEF Sound
<1>4. \A n \in Names : e.shape[n] = "absent" => e.rows[n] = {}
  BY <1>1 DEF Sound
<1>5. Safe(d, e, F, B)
  BY <1>1, <1>3, <1>4, SafeGrowth
<1>6. QED
  BY <1>1, <1>2, <1>5 DEF e, Fresh

\* The version number is no row.
LEMMA StampStep ==
    ASSUME NEW d \in Databases, Sound(d), NEW F, NEW B
    PROVE  LET e == [d EXCEPT !.version = SchemaVersion]
           IN Safe(d, e, F, B) /\ (Fresh(d) => Fresh(e))
<1> DEFINE e == [d EXCEPT !.version = SchemaVersion]
<1>1. e \in Databases /\ e.rows = d.rows /\ e.shape = d.shape
  <2>1. SchemaVersion \in 0..SchemaVersion
    BY DEF SchemaVersion
  <2>2. QED
    BY <2>1 DEF Databases
<1> HIDE DEF e
<1>2. Safe(d, e, F, B)
  BY <1>1, SafeGrowth DEF Sound
<1>3. QED
  BY <1>1, <1>2 DEF e, Fresh

-----------------------------------------------------------------------------
(* What is owed at a statement.  A worker that has come to a DROP owes it  *)
(* to the steps before that the rows of the table are elsewhere; one past  *)
(* it, that the table is empty.                                            *)

\* The statements that something is owed at, and those that something is owed
\* after.
Tight == {16, 22, 29, 33, 34, 39, 48, 52, 87, 93, 97} \cup 99..109
Lasting == {16, 22, 34, 48, 52, 93, 97}
\* From statement i to statement j no more is owed.
Quiet(i, j) == j \notin Tight /\ \A t \in Lasting : t < j => t < i

Marked == {15, 16, 21, 22, 28, 32, 33, 34, 38, 47, 48, 51, 52, 86, 92, 93, 96} \cup 97..108
Tests == {13, 14, 19, 27, 30, 46, 50, 90, 94, 100}

\* What statement i may be.
Fits(i, s) ==
    /\ s.op \in DdlOps \cup DmlOps \cup {"if", "begin", "commit", "connect", "backup"}
    /\ Quiet(i, i + 1) \/ i \in Marked
    /\ s.op = "if" =>
          /\ s.skip \in Nat /\ i + 1 + s.skip \in 1..109
          /\ i # 100 => Quiet(i, i + 1)
          /\ Quiet(i, i + 1 + s.skip) \/ i \in Tests
    /\ s.op \in {"create", "createIfMissing"} =>
          /\ s.name \in Names
          /\ (s.name # "job_works_rebuilt" /\ Quiet(i, i + 1)) \/ i = 102
    /\ s.op = "drop" =>
          \/ i \in {16, 22, 29, 34, 39, 48, 52, 87, 93, 97, 104}
          \/ s.name \in Discarded /\ Quiet(i, i + 1)
    /\ s.op = "dropIfExists" => s.name = "production_index" /\ Quiet(i, i + 1)
    /\ s.op = "rename" => i \in {84, 105}
    /\ s.op \in {"insert", "update"} =>
          /\ s.name \in Names /\ s.to \in Names /\ s.to \notin Sources
          /\ s.row \in Rows /\ (s.row = s.to \/ i = 103)
          /\ Quiet(i, i + 1) \/ i \in {15, 28, 38, 47, 51, 86, 103}
    /\ s.op = "delete" => i = 33
    /\ s.op = "script" => i = 2
    /\ s.op = "stamp" => i = 108
    /\ s.op = "begin" => i = 101
    /\ s.op = "commit" => i \in {5, 20, 31, 91, 95, 98, 106}
    /\ s.op = "backup" => i \in {6, 21, 32, 92, 96}
    /\ s.op = "connect" => i \in {1, 3, 99, 107} /\ s.fk \in BOOLEAN /\ (i = 99 => s.fk = FALSE)

\* Every statement of the program is what it may be.
LEMMA Fitting ==
    \A i \in 1..108 : Fits(i, Program[i])
<1> USE NamesAre, RowsAre DEF Moving, Retired, Discarded, Sources, Tight, Lasting, Quiet, Marked, Tests, DdlOps, DmlOps
<1>1. Fits(1, Connect(TRUE))
  BY DEF Fits, Connect
<1>2. Fits(2, Script)
  BY DEF Fits, Script
<1>3. Fits(3, Connect(TRUE))
  BY DEF Fits, Connect
<1>4. Fits(4, If(Present("clients"), 4))
  BY DEF Fits, If
<1>5. Fits(5, Commit)
  BY DEF Fits, Commit
<1>6. Fits(6, Backup)
  BY DEF Fits, Backup
<1>7. Fits(7, Insert("clients", "buyers"))
  BY DEF Fits, Insert, Carry
<1>8. Fits(8, Insert("clients", "exporters"))
  BY DEF Fits, Insert, Carry
<1>9. Fits(9, If(Present("permit_supplier"), 1))
  BY DEF Fits, If
<1>10. Fits(10, Drop("permit_supplier"))
  BY DEF Fits, Drop
<1>11. Fits(11, If(MissingFrom("buyer_order_no", "export_invoices"), 1))
  BY DEF Fits, If
<1>12. Fits(12, Create("buyer_order_no"))
  BY DEF Fits, Create
<1>13. Fits(13, If(Present("buyer_orders"), 3))
  BY DEF Fits, If
<1>14. Fits(14, If(Filled("buyer_orders"), 1))
  BY DEF Fits, If
<1>15. Fits(15, UpdateRows("buyer_orders", "buyer_order_no"))
  BY DEF Fits, UpdateRows, Carry
<1>16. Fits(16, Drop("buyer_orders"))
  BY DEF Fits, Drop
<1>17. Fits(17, If(MissingFrom("tare_weight", "export_invoices"), 1))
  BY DEF Fits, If
<1>18. Fits(18, Create("tare_weight"))
  BY DEF Fits, Create
<1>19. Fits(19, If(Present("c_no"), 3))
  BY DEF Fits, If
<1>20. Fits(20, Commit)
  BY DEF Fits, Commit
<1>21. Fits(21, Backup)
  BY DEF Fits, Backup
<1>22. Fits(22, Drop("c_no"))
  BY DEF Fits, Drop
<1>23. Fits(23, If(MissingFrom("vessel_voyage_no", "export_invoices"), 1))
  BY DEF Fits, If
<1>24. Fits(24, Create("vessel_voyage_no"))
  BY DEF Fits, Create
<1>25. Fits(25, If(MissingFrom("tare_weight_kg", "tare_weight"), 4))
  BY DEF Fits, If
<1>26. Fits(26, Create("tare_weight_kg"))
  BY DEF Fits, Create
<1>27. Fits(27, If(Filled("tare_weight"), 1))
  BY DEF Fits, If
<1>28. Fits(28, UpdateRows("tare_weight", "tare_weight_kg"))
  BY DEF Fits, UpdateRows, Carry
<1>29. Fits(29, Drop("tare_weight"))
  BY DEF Fits, Drop
<1>30. Fits(30, If(Present("exporters"), 4))
  BY DEF Fits, If
<1>31. Fits(31, Commit)
  BY DEF Fits, Commit
<1>32. Fits(32, Backup)
  BY DEF Fits, Backup
<1>33. Fits(33, Delete("exporters"))
  BY DEF Fits, Delete
<1>34. Fits(34, Drop("exporters"))
  BY DEF Fits, Drop
<1>35. Fits(35, If(MissingFrom("vessel_name", "vessel_voyage_no"), 4))
  BY DEF Fits, If
<1>36. Fits(36, Create("vessel_name"))
  BY DEF Fits, Create
<1>37. Fits(37, Create("voyage_no"))
  BY DEF Fits, Create
<1>38. Fits(38, Update("vessel_voyage_no", "vessel_name"))
  BY DEF Fits, Update, Carry
<1>39. Fits(39, Drop("vessel_voyage_no"))
  BY DEF Fits, Drop
<1>40. Fits(40, If(MissingFrom("pi_item_order", "purchase_invoices"), 2))
  BY DEF Fits, If
<1>41. Fits(41, Create("pi_item_order"))
  BY DEF Fits, Create
<1>42. Fits(42, Update("purchase_invoices", "pi_item_order"))
  BY DEF Fits, Update, Carry
<1>43. Fits(43, If(Empty("pi_order_links"), 1))
  BY DEF Fits, If
<1>44. Fits(44, Insert("purchase_invoices", "pi_order_links"))
  BY DEF Fits, Insert, Carry
<1>45. Fits(45, CreateIfMissing("quotation_containers"))
  BY DEF Fits, CreateIfMissing
<1>46. Fits(46, If(Present("quotation_details"), 2))
  BY DEF Fits, If
<1>47. Fits(47, InsertUnkeyed("quotation_details", "quotation_containers"))
  BY DEF Fits, InsertUnkeyed, Carry
<1>48. Fits(48, Drop("quotation_details"))
  BY DEF Fits, Drop
<1>49. Fits(49, CreateIfMissing("proforma_containers"))
  BY DEF Fits, CreateIfMissing
<1>50. Fits(50, If(Present("proforma_details"), 2))
  BY DEF Fits, If
<1>51. Fits(51, InsertUnkeyed("proforma_details", "proforma_containers"))
  BY DEF Fits, InsertUnkeyed, Carry
<1>52. Fits(52, Drop("proforma_details"))
  BY DEF Fits, Drop
<1>53. Fits(53, If(Present("lead_id"), 1))
  BY DEF Fits, If
<1>54. Fits(54, Drop("lead_id"))
  BY DEF Fits, Drop
<1>55. Fits(55, If(MissingFrom("weight_kg", "product_pallet_types"), 1))
  BY DEF Fits, If
<1>56. Fits(56, Create("weight_kg"))
  BY DEF Fits, Create
<1>57. Fits(57, If(MissingFrom("line_design", "export_invoices"), 1))
  BY DEF Fits, If
<1>58. Fits(58, Create("line_design"))
  BY DEF Fits, Create
<1>59. Fits(59, If(Present("line_design"), 1))
  BY DEF Fits, If
<1>60. Fits(60, Drop("line_design"))
  BY DEF Fits, Drop
<1>61. Fits(61, CreateIfMissing("item_designs"))
  BY DEF Fits, CreateIfMissing
<1>62. Fits(62, CreateIfMissing("designs_lists"))
  BY DEF Fits, CreateIfMissing
<1>63. Fits(63, If(MissingFrom("jobed_unit", "job_work_items"), 1))
  BY DEF Fits, If
<1>64. Fits(64, Create("jobed_unit"))
  BY DEF Fits, Create
<1>65. Fits(65, If(PresentBelow("job_work_items", 85), 1))
  BY DEF Fits, If
<1>66. Fits(66, Update("job_work_items", "job_work_items"))
  BY DEF Fits, Update, Carry
<1>67. Fits(67, If(MissingFrom("source_quantity", "job_work_items"), 2))
  BY DEF Fits, If
<1>68. Fits(68, Create("source_quantity"))
  BY DEF Fits, Create
<1>69. Fits(69, Update("job_quantity", "source_quantity"))
  BY DEF Fits, Update, Carry
<1>70. Fits(70, If(Present("jobed_quantity"), 1))
  BY DEF Fits, If
<1>71. Fits(71, Drop("jobed_quantity"))
  BY DEF Fits, Drop
<1>72. Fits(72, If(Present("jobed_unit"), 1))
  BY DEF Fits, If
<1>73. Fits(73, Drop("jobed_unit"))
  BY DEF Fits, Drop
<1>74. Fits(74, If(Present("quantity_boxes"), 1))
  BY DEF Fits, If
<1>75. Fits(75, Drop("quantity_boxes"))
  BY DEF Fits, Drop
<1>76. Fits(76, If(MissingFrom("job_work_tax", "job_works"), 1))
  BY DEF Fits, If
<1>77. Fits(77, Create("job_work_tax"))
  BY DEF Fits, Create
<1>78. Fits(78, If(MissingFrom("unit_kind", "product_pallet_types"), 2))
  BY DEF Fits, If
<1>79. Fits(79, Create("unit_kind"))
  BY DEF Fits, Create
<1>80. Fits(80, Update("weight_kg", "unit_kind"))
  BY DEF Fits, Update, Carry
<1>81. Fits(81, CreateIfMissing("production"))
  BY DEF Fits, CreateIfMissing
<1>82. Fits(82, If(OldShape("production"), 5))
  BY DEF Fits, If
<1>83. Fits(83, DropIfExists("production_index"))
  BY DEF Fits, DropIfExists
<1>84. Fits(84, Rename("production", "production_old"))
  BY DEF Fits, Rename
<1>85. Fits(85, Create("production"))
  BY DEF Fits, Create
<1>86. Fits(86, Insert("production_old", "production"))
  BY DEF Fits, Insert, Carry
<1>87. Fits(87, Drop("production_old"))
  BY DEF Fits, Drop
<1>88. Fits(88, DropIfExists("production_index"))
  BY DEF Fits, DropIfExists
<1>89. Fits(89, Create("production_index"))
  BY DEF Fits, Create
<1>90. Fits(90, If(Present("designs_lists"), 3))
  BY DEF Fits, If
<1>91. Fits(91, Commit)
  BY DEF Fits, Commit
<1>92. Fits(92, Backup)
  BY DEF Fits, Backup
<1>93. Fits(93, Drop("designs_lists"))
  BY DEF Fits, Drop
<1>94. Fits(94, If(Present("item_designs"), 3))
  BY DEF Fits, If
<1>95. Fits(95, Commit)
  BY DEF Fits, Commit
<1>96. Fits(96, Backup)
  BY DEF Fits, Backup
<1>97. Fits(97, Drop("item_designs"))
  BY DEF Fits, Drop
<1>98. Fits(98, Commit)
  BY DEF Fits, Commit
<1>99. Fits(99, Connect(FALSE))
  BY DEF Fits, Connect
<1>100. Fits(100, If(OldShape("job_works"), 6))
  BY DEF Fits, If
<1>101. Fits(101, Begin)
  BY DEF Fits, Begin
<1>102. Fits(102, Create("job_works_rebuilt"))
  BY DEF Fits, Create
<1>103. Fits(103, InsertAs("job_works", "job_works", "job_works_rebuilt"))
  BY DEF Fits, InsertAs, Carry
<1>104. Fits(104, Drop("job_works"))
  BY DEF Fits, Drop
<1>105. Fits(105, Rename("job_works_rebuilt", "job_works"))
  BY DEF Fits, Rename
<1>106. Fits(106, Commit)
  BY DEF Fits, Commit
<1>107. Fits(107, Connect(TRUE))
  BY DEF Fits, Connect
<1>108. Fits(108, Stamp)
  BY DEF Fits, Stamp
<1>109. \A i \in 1..12 : Fits(i, Program[i])
  <2>1. Fits(1, Program[1])
    BY ONLY <1>1, Listing
  <2>2. Fits(2, Program[2])
    BY ONLY <1>2, Listing
  <2>3. Fits(3, Program[3])
    BY ONLY <1>3, Listing
  <2>4. Fits(4, Program[4])
    BY ONLY <1>4, Listing
  <2>5. Fits(5, Program[5])
    BY ONLY <1>5, Listing
  <2>6. Fits(6, Program[6])
    BY ONLY <1>6, Listing
  <2>7. Fits(7, Program[7])
    BY ONLY <1>7, Listing
  <2>8. Fits(8, Program[8])
    BY ONLY <1>8, Listing
  <2>9. Fits(9, Program[9])
    BY ONLY <1>9, Listing
  <2>10. Fits(10, Program[10])
    BY ONLY <1>10, Listing
  <2>11. Fits(11, Program[11])
    BY ONLY <1>11, Listing
  <2>12. Fits(12, Program[12])
    BY ONLY <1>12, Listing
  <2>13. ASSUME NEW i \in 1..12 PROVE i = 1 \/ i = 2 \/ i = 3 \/ i = 4 \/ i = 5 \/ i = 6 \/ i = 7 \/ i = 8 \/ i = 9 \/ i = 10 \/ i = 11 \/ i = 12
    OBVIOUS
  <2>14. QED
    BY ONLY <2>1, <2>2, <2>3, <2>4, <2>5, <2>6, <2>7, <2>8, <2>9, <2>10, <2>11, <2>12, <2>13
<1>110. \A i \in 13..24 : Fits(i, Program[i])
  <2>1. Fits(13, Program[13])
    BY ONLY <1>13, Listing
  <2>2. Fits(14, Program[14])
    BY ONLY <1>14, Listing
  <2>3. Fits(15, Program[15])
    BY ONLY <1>15, Listing
  <2>4. Fits(16, Program[16])
    BY ONLY <1>16, Listing
  <2>5. Fits(17, Program[17])
    BY ONLY <1>17, Listing
  <2>6. Fits(18, Program[18])
    BY ONLY <1>18, Listing
  <2>7. Fits(19, Program[19])
    BY ONLY <1>19, Listing
  <2>8. Fits(20, Program[20])
    BY ONLY <1>20, Listing
  <2>9. Fits(21, Program[21])
    BY ONLY <1>21, Listing
  <2>10. Fits(22, Program[22])
    BY ONLY <1>22, Listing
  <2>11. Fits(23, Program[23])
    BY ONLY <1>23, Listing
  <2>12. Fits(24, Program[24])
    BY ONLY <1>24, Listing
  <2>13. ASSUME NEW i \in 13..24 PROVE i = 13 \/ i = 14 \/ i = 15 \/ i = 16 \/ i = 17 \/ i = 18 \/ i = 19 \/ i = 20 \/ i = 21 \/ i = 22 \/ i = 23 \/ i = 24
    OBVIOUS
  <2>14. QED
    BY ONLY <2>1, <2>2, <2>3, <2>4, <2>5, <2>6, <2>7, <2>8, <2>9, <2>10, <2>11, <2>12, <2>13
<1>111. \A i \in 25..36 : Fits(i, Program[i])
  <2>1. Fits(25, Program[25])
    BY ONLY <1>25, Listing
  <2>2. Fits(26, Program[26])
    BY ONLY <1>26, Listing
  <2>3. Fits(27, Program[27])
    BY ONLY <1>27, Listing
  <2>4. Fits(28, Program[28])
    BY ONLY <1>28, Listing
  <2>5. Fits(29, Program[29])
    BY ONLY <1>29, Listing
  <2>6. Fits(30, Program[30])
    BY ONLY <1>30, Listing
  <2>7. Fits(31, Program[31])
    BY ONLY <1>31, Listing
  <2>8. Fits(32, Program[32])
    BY ONLY <1>32, Listing
  <2>9. Fits(33, Program[33])
    BY ONLY <1>33, Listing
  <2>10. Fits(34, Program[34])
    BY ONLY <1>34, Listing
  <2>11. Fits(35, Program[35])
    BY ONLY <1>35, Listing
  <2>12. Fits(36, Program[36])
    BY ONLY <1>36, Listing
  <2>13. ASSUME NEW i \in 25..36 PROVE i = 25 \/ i = 26 \/ i = 27 \/ i = 28 \/ i = 29 \/ i = 30 \/ i = 31 \/ i = 32 \/ i = 33 \/ i = 34 \/ i = 35 \/ i = 36
    OBVIOUS
  <2>14. QED
    BY ONLY <2>1, <2>2, <2>3, <2>4, <2>5, <2>6, <2>7, <2>8, <2>9, <2>10, <2>11, <2>12, <2>13
<1>112. \A i \in 37..48 : Fits(i, Program[i])
  <2>1. Fits(37, Program[37])
    BY ONLY <1>37, Listing
  <2>2. Fits(38, Program[38])
    BY ONLY <1>38, Listing
  <2>3. Fits(39, Program[39])
    BY ONLY <1>39, Listing
  <2>4. Fits(40, Program[40])
    BY ONLY <1>40, Listing
  <2>5. Fits(41, Program[41])
    BY ONLY <1>41, Listing
  <2>6. Fits(42, Program[42])
    BY ONLY <1>42, Listing
  <2>7. Fits(43, Program[43])
    BY ONLY <1>43, Listing
  <2>8. Fits(44, Program[44])
    BY ONLY <1>44, Listing
  <2>9. Fits(45, Program[45])
    BY ONLY <1>45, Listing
  <2>10. Fits(46, Program[46])
    BY ONLY <1>46, Listing
  <2>11. Fits(47, Program[47])
    BY ONLY <1>47, Listing
  <2>12. Fits(48, Program[48])
    BY ONLY <1>48, Listing
  <2>13. ASSUME NEW i \in 37..48 PROVE i = 37 \/ i = 38 \/ i = 39 \/ i = 40 \/ i = 41 \/ i = 42 \/ i = 43 \/ i = 44 \/ i = 45 \/ i = 46 \/ i = 47 \/ i = 48
    OBVIOUS
  <2>14. QED
    BY ONLY <2>1, <2>2, <2>3, <2>4, <2>5, <2>6, <2>7, <2>8, <2>9, <2>10, <2>11, <2>12, <2>13
<1>113. \A i \in 49..60 : Fits(i, Program[i])
  <2>1. Fits(49, Program[49])
    BY ONLY <1>49, Listing
  <2>2. Fits(50, Program[50])
    BY ONLY <1>50, Listing
  <2>3. Fits(51, Program[51])
    BY ONLY <1>51, Listing
  <2>4. Fits(52, Program[52])
    BY ONLY <1>52, Listing
  <2>5. Fits(53, Program[53])
    BY ONLY <1>53, Listing
  <2>6. Fits(54, Program[54])
    BY ONLY <1>54, Listing
  <2>7. Fits(55, Program[55])
    BY ONLY <1>55, Listing
  <2>8. Fits(56, Program[56])
    BY ONLY <1>56, Listing
  <2>9. Fits(57, Program[57])
    BY ONLY <1>57, Listing
  <2>10. Fits(58, Program[58])
    BY ONLY <1>58, Listing
  <2>11. Fits(59, Program[59])
    BY ONLY <1>59, Listing
  <2>12. Fits(60, Program[60])
    BY ONLY <1>60, Listing
  <2>13. ASSUME NEW i \in 49..60 PROVE i = 49 \/ i = 50 \/ i = 51 \/ i = 52 \/ i = 53 \/ i = 54 \/ i = 55 \/ i = 56 \/ i = 57 \/ i = 58 \/ i = 59 \/ i = 60
    OBVIOUS
  <2>14. QED
    BY ONLY <2>1, <2>2, <2>3, <2>4, <2>5, <2>6, <2>7, <2>8, <2>9, <2>10, <2>11, <2>12, <2>13
<1>114. \A i \in 61..72 : Fits(i, Program[i])
  <2>1. Fits(61, Program[61])
    BY ONLY <1>61, Listing
  <2>2. Fits(62, Program[62])
    BY ONLY <1>62, Listing
  <2>3. Fits(63, Program[63])
    BY ONLY <1>63, Listing
  <2>4. Fits(64, Program[64])
    BY ONLY <1>64, Listing
  <2>5. Fits(65, Program[65])
    BY ONLY <1>65, Listing
  <2>6. Fits(66, Program[66])
    BY ONLY <1>66, Listing
  <2>7. Fits(67, Program[67])
    BY ONLY <1>67, Listing
  <2>8. Fits(68, Program[68])
    BY ONLY <1>68, Listing
  <2>9. Fits(69, Program[69])
    BY ONLY <1>69, Listing
  <2>10. Fits(70, Program[70])
    BY ONLY <1>70, Listing
  <2>11. Fits(71, Program[71])
    BY ONLY <1>71, Listing
  <2>12. Fits(72, Program[72])
    BY ONLY <1>72, Listing
  <2>13. ASSUME NEW i \in 61..72 PROVE i = 61 \/ i = 62 \/ i = 63 \/ i = 64 \/ i = 65 \/ i = 66 \/ i = 67 \/ i = 68 \/ i = 69 \/ i = 70 \/ i = 71 \/ i = 72
    OBVIOUS
  <2>14. QED
    BY ONLY <2>1, <2>2, <2>3, <2>4, <2>5, <2>6, <2>7, <2>8, <2>9, <2>10, <2>11, <2>12, <2>13
<1>115. \A i \in 73..84 : Fits(i, Program[i])
  <2>1. Fits(73, Program[73])
    BY ONLY <1>73, Listing
  <2>2. Fits(74, Program[74])
    BY ONLY <1>74, Listing
  <2>3. Fits(75, Program[75])
    BY ONLY <1>75, Listing
  <2>4. Fits(76, Program[76])
    BY ONLY <1>76, Listing
  <2>5. Fits(77, Program[77])
    BY ONLY <1>77, Listing
  <2>6. Fits(78, Program[78])
    BY ONLY <1>78, Listing
  <2>7. Fits(79, Program[79])
    BY ONLY <1>79, Listing
  <2>8. Fits(80, Program[80])
    BY ONLY <1>80, Listing
  <2>9. Fits(81, Program[81])
    BY ONLY <1>81, Listing
  <2>10. Fits(82, Program[82])
    BY ONLY <1>82, Listing
  <2>11. Fits(83, Program[83])
    BY ONLY <1>83, Listing
  <2>12. Fits(84, Program[84])
    BY ONLY <1>84, Listing
  <2>13. ASSUME NEW i \in 73..84 PROVE i = 73 \/ i = 74 \/ i = 75 \/ i = 76 \/ i = 77 \/ i = 78 \/ i = 79 \/ i = 80 \/ i = 81 \/ i = 82 \/ i = 83 \/ i = 84
    OBVIOUS
  <2>14. QED
    BY ONLY <2>1, <2>2, <2>3, <2>4, <2>5, <2>6, <2>7, <2>8, <2>9, <2>10, <2>11, <2>12, <2>13
<1>116. \A i \in 85..96 : Fits(i, Program[i])
  <2>1. Fits(85, Program[85])
    BY ONLY <1>85, Listing
  <2>2. Fits(86, Program[86])
    BY ONLY <1>86, Listing
  <2>3. Fits(87, Program[87])
    BY ONLY <1>87, Listing
  <2>4. Fits(88, Program[88])
    BY ONLY <1>88, Listing
  <2>5. Fits(89, Program[89])
    BY ONLY <1>89, Listing
  <2>6. Fits(90, Program[90])
    BY ONLY <1>90, Listing
  <2>7. Fits(91, Program[91])
    BY ONLY <1>91, Listing
  <2>8. Fits(92, Program[92])
    BY ONLY <1>92, Listing
  <2>9. Fits(93, Program[93])
    BY ONLY <1>93, Listing
  <2>10. Fits(94, Program[94])
    BY ONLY <1>94, Listing
  <2>11. Fits(95, Program[95])
    BY ONLY <1>95, Listing
  <2>12. Fits(96, Program[96])
    BY ONLY <1>96, Listing
  <2>13. ASSUME NEW i \in 85..96 PROVE i = 85 \/ i = 86 \/ i = 87 \/ i = 88 \/ i = 89 \/ i = 90 \/ i = 91 \/ i = 92 \/ i = 93 \/ i = 94 \/ i = 95 \/ i = 96
    OBVIOUS
  <2>14. QED
    BY ONLY <2>1, <2>2, <2>3, <2>4, <2>5, <2>6, <2>7, <2>8, <2>9, <2>10, <2>11, <2>12, <2>13
<1>117. \A i \in 97..108 : Fits(i, Program[i])
  <2>1. Fits(97, Program[97])
    BY ONLY <1>97, Listing
  <2>2. Fits(98, Program[98])
    BY ONLY <1>98, Listing
  <2>3. Fits(99, Program[99])
    BY ONLY <1>99, Listing
  <2>4. Fits(100, Program[100])
    BY ONLY <1>100, Listing
  <2>5. Fits(101, Program[101])
    BY ONLY <1>101, Listing
  <2>6. Fits(102, Program[102])
    BY ONLY <1>102, Listing
  <2>7. Fits(103, Program[103])
    BY ONLY <1>103, Listing
  <2>8. Fits(104, Program[104])
    BY ONLY <1>104, Listing
  <2>9. Fits(105, Program[105])
    BY ONLY <1>105, Listing
  <2>10. Fits(106, Program[106])
    BY ONLY <1>106, Listing
  <2>11. Fits(107, Program[107])
    BY ONLY <1>107, Listing
  <2>12. Fits(108, Program[108])
    BY ONLY <1>108, Listing
  <2>13. ASSUME NEW i \in 97..108 PROVE i = 97 \/ i = 98 \/ i = 99 \/ i = 100 \/ i = 101 \/ i = 102 \/ i = 103 \/ i = 104 \/ i = 105 \/ i = 106 \/ i = 107 \/ i = 108
    OBVIOUS
  <2>14. QED
    BY ONLY <2>1, <2>2, <2>3, <2>4, <2>5, <2>6, <2>7, <2>8, <2>9, <2>10, <2>11, <2>12, <2>13
<1>118. ASSUME NEW i \in 1..108 PROVE i \in 1..12 \/ i \in 13..24 \/ i \in 25..36 \/ i \in 37..48 \/ i \in 49..60 \/ i \in 61..72 \/ i \in 73..84 \/ i \in 85..96 \/ i \in 97..108
  OBVIOUS
<1>119. QED
  BY ONLY <1>109, <1>110, <1>111, <1>112, <1>113, <1>114, <1>115, <1>116, <1>117, <1>118


\* The rows of a table are in their home in the transaction of w, or gone.
Carried(w, o, d, from, to) == o = w /\ d.rows[from] \subseteq d.rows[to]
Spent(w, o, d, from, to) == IF o = w THEN d.rows[from] \subseteq d.rows[to]
                                     ELSE d.rows[from] = {}
Saved(r, F, B) == r \in F => \E b \in B : r \in b

\* What is owed to the worker w at statement i, where o has the transaction, d
\* is what w sees of the database, and f whether its keys are enforced.
Owed(i, w, o, d, f, F, B) ==
    /\ i \in {22, 33, 34, 93, 97} => \A r \in Retired : Saved(r, F, B)
    /\ i = 16 => Spent(w, o, d, "buyer_orders", "buyer_order_no")
    /\ i = 29 => Spent(w, o, d, "tare_weight", "tare_weight_kg")
    /\ i = 39 => Carried(w, o, d, "vessel_voyage_no", "vessel_name")
    /\ i = 48 => Carried(w, o, d, "quotation_details", "quotation_containers")
    /\ i = 52 => Carried(w, o, d, "proforma_details", "proforma_containers")
    /\ i = 87 => Carried(w, o, d, "production_old", "production")
    /\ i = 104 => Carried(w, o, d, "job_works", "job_works_rebuilt")
    /\ i \in 100..106 => f = FALSE
    /\ i \in 102..106 => o = w
    /\ i \in 99..101 \cup 107..109 => o # w

\* What stays true after statement i.
Lasts(i, d, F, B) ==
    /\ i > 16 => d.rows["buyer_orders"] = {}
    /\ i > 48 => d.rows["quotation_details"] = {}
    /\ i > 52 => d.rows["proforma_details"] = {}
    /\ i > 22 => Saved("c_no", F, B)
    /\ i > 34 => Saved("exporters", F, B)
    /\ i > 93 => Saved("designs_lists", F, B)
    /\ i > 97 => Saved("item_designs", F, B)

Duty(i, w, o, d, f, F, B) == Owed(i, w, o, d, f, F, B) /\ Lasts(i, d, F, B)

\* A quiet step owes nothing new.
LEMMA QuietStep ==
    ASSUME NEW i \in 0..109, NEW j \in 0..109, Quiet(i, j), NEW w, NEW o, NEW p, NEW d, NEW e,
           NEW f, NEW g, NEW F, NEW B, NEW C, Duty(i, w, o, d, f, F, B), Shrunk(d, e),
           B \subseteq C
    PROVE  Duty(j, w, p, e, g, F, C)
<1>1. Owed(j, w, p, e, g, F, C)
  BY DEF Quiet, Tight, Owed
<1>2. \A r : Saved(r, F, B) => Saved(r, F, C)
  BY DEF Saved
<1>3. \A n \in Sources : d.rows[n] = {} => e.rows[n] = {}
  BY DEF Shrunk
<1>4. \A t \in Lasting : j > t => i > t
  BY DEF Quiet, Lasting
<1>5. Lasts(i, d, F, B)
  BY DEF Duty
<1>6. Lasts(j, e, F, C)
  BY <1>2, <1>3, <1>4, <1>5 DEF Lasts, Lasting, Sources
<1>7. QED
  BY <1>1, <1>6 DEF Duty

\* The same of a statement that writes, and the one that follows it.
LEMMA QuietNext ==
    ASSUME NEW i \in 1..108, Quiet(i, i + 1), NEW w, NEW o, NEW p, NEW d, NEW e, NEW f,
           NEW F, NEW B, Duty(i, w, o, d, f, F, B), Shrunk(d, e)
    PROVE  Duty(i + 1, w, p, e, f, F, B)
<1>1. i \in 0..109 /\ i + 1 \in 0..109 /\ B \subseteq B
  OBVIOUS
<1>2. QED
  BY <1>1, QuietStep

\* What the other workers do takes nothing away that is owed to one.
LEMMA OthersStep ==
    ASSUME NEW i \in 0..109, NEW w, NEW o, NEW p, NEW d, NEW e, NEW f, NEW F, NEW B, NEW C,
           Duty(i, w, o, d, f, F, B), B \subseteq C, o = w <=> p = w, o = w => e = d,
           Shrunk(d, e)
    PROVE  Duty(i, w, p, e, f, F, C)
<1>1. \A r : Saved(r, F, B) => Saved(r, F, C)
  BY DEF Saved
<1>2. \A n \in Sources : d.rows[n] = {} => e.rows[n] = {}
  BY DEF Shrunk
<1>3. Owed(i, w, o, d, f, F, B) /\ Lasts(i, d, F, B)
  BY DEF Duty
<1>4. Lasts(i, e, F, C)
  BY <1>1, <1>2, <1>3 DEF Lasts, Sources
<1>5. Owed(i, w, p, e, f, F, C)
  <2>1. i = 16 => Spent(w, p, e, "buyer_orders", "buyer_order_no")
    BY <1>2, <1>3 DEF Owed, Spent, Sources
  <2>2. i = 29 => Spent(w, p, e, "tare_weight", "tare_weight_kg")
    BY <1>2, <1>3 DEF Owed, Spent, Sources
  <2>3. /\ i = 39 => Carried(w, p, e, "vessel_voyage_no", "vessel_name")
        /\ i = 48 => Carried(w, p, e, "quotation_details", "quotation_containers")
        /\ i = 52 => Carried(w, p, e, "proforma_details", "proforma_containers")
        /\ i = 87 => Carried(w, p, e, "production_old", "production")
        /\ i = 104 => Carried(w, p, e, "job_works", "job_works_rebuilt")
    BY <1>3 DEF Owed, Carried
  <2>4. QED
    BY <1>1, <1>3, <2>1, <2>2, <2>3 DEF Owed
<1>6. QED
  BY <1>4, <1>5 DEF Duty

\* A worker that is down is owed nothing.
LEMMA DownStep ==
    ASSUME NEW w, NEW o, NEW d, NEW f, NEW F, NEW B
    PROVE  Duty(0, w, o, d, f, F, B)
  BY DEF Duty, Owed, Lasts

\* What holds after a step from statement i to j, but for what was owed at i and is
\* not any more: the obligations that last.
LEMMA LastStep ==
    ASSUME NEW i \in 0..109, NEW j \in 0..109, NEW d, NEW e, NEW F, NEW B, NEW C,
           Lasts(i, d, F, B), Shrunk(d, e), B \subseteq C,
           i <= 16 /\ j > 16 => e.rows["buyer_orders"] = {},
           i <= 48 /\ j > 48 => e.rows["quotation_details"] = {},
           i <= 52 /\ j > 52 => e.rows["proforma_details"] = {},
           i <= 22 /\ j > 22 => Saved("c_no", F, C),
           i <= 34 /\ j > 34 => Saved("exporters", F, C),
           i <= 93 /\ j > 93 => Saved("designs_lists", F, C),
           i <= 97 /\ j > 97 => Saved("item_designs", F, C)
    PROVE  Lasts(j, e, F, C)
<1>1. \A r : Saved(r, F, B) => Saved(r, F, C)
  BY DEF Saved
<1>2. \A n \in Sources : d.rows[n] = {} => e.rows[n] = {}
  BY DEF Shrunk
<1>3. /\ i > 16 => d.rows["buyer_orders"] = {}
      /\ i > 48 => d.rows["quotation_details"] = {}
      /\ i > 52 => d.rows["proforma_details"] = {}
  BY DEF Lasts
<1>4. /\ j > 16 => e.rows["buyer_orders"] = {}
      /\ j > 48 => e.rows["quotation_details"] = {}
      /\ j > 52 => e.rows["proforma_details"] = {}
  BY <1>2, <1>3 DEF Sources
<1>5. /\ i > 22 => Saved("c_no", F, C)
      /\ i > 34 => Saved("exporters", F, C)
      /\ i > 93 => Saved("designs_lists", F, C)
      /\ i > 97 => Saved("item_designs", F, C)
  BY <1>1 DEF Lasts
<1>6. /\ j > 22 => Saved("c_no", F, C)
      /\ j > 34 => Saved("exporters", F, C)
      /\ j > 93 => Saved("designs_lists", F, C)
      /\ j > 97 => Saved("item_designs", F, C)
  BY <1>5
<1>7. QED
  BY <1>4, <1>6 DEF Lasts

\* The same for a statement and the one that follows it.
LEMMA LastNext ==
    ASSUME NEW i \in 1..108, NEW d, NEW e, NEW F, NEW B, Lasts(i, d, F, B), Shrunk(d, e),
           i \in {16, 22, 34, 48, 52, 93, 97} =>
              /\ i = 16 => e.rows["buyer_orders"] = {}
              /\ i = 48 => e.rows["quotation_details"] = {}
              /\ i = 52 => e.rows["proforma_details"] = {}
              /\ i = 22 => Saved("c_no", F, B)
              /\ i = 34 => Saved("exporters", F, B)
              /\ i = 93 => Saved("designs_lists", F, B)
              /\ i = 97 => Saved("item_designs", F, B)
    PROVE  Lasts(i + 1, e, F, B)
<1>1. i \in 0..109 /\ i + 1 \in 0..109 /\ B \subseteq B
  OBVIOUS
<1>2. \A t \in Nat : i <= t /\ i + 1 > t => i = t
  OBVIOUS
<1>3. /\ i <= 16 /\ i + 1 > 16 => e.rows["buyer_orders"] = {}
      /\ i <= 48 /\ i + 1 > 48 => e.rows["quotation_details"] = {}
      /\ i <= 52 /\ i + 1 > 52 => e.rows["proforma_details"] = {}
      /\ i <= 22 /\ i + 1 > 22 => Saved("c_no", F, B)
      /\ i <= 34 /\ i + 1 > 34 => Saved("exporters", F, B)
      /\ i <= 93 /\ i + 1 > 93 => Saved("designs_lists", F, B)
      /\ i <= 97 /\ i + 1 > 97 => Saved("item_designs", F, B)
  BY <1>2
<1>4. QED
  BY <1>1, <1>3, LastStep

\* What has come to last between statement i and statement j.
Due(i, j, d, F, B) ==
    /\ i <= 16 /\ j > 16 => d.rows["buyer_orders"] = {}
    /\ i <= 48 /\ j > 48 => d.rows["quotation_details"] = {}
    /\ i <= 52 /\ j > 52 => d.rows["proforma_details"] = {}
    /\ i <= 22 /\ j > 22 => Saved("c_no", F, B)
    /\ i <= 34 /\ j > 34 => Saved("exporters", F, B)
    /\ i <= 93 /\ j > 93 => Saved("designs_lists", F, B)
    /\ i <= 97 /\ j > 97 => Saved("item_designs", F, B)

\* The same for a test that skips statements: the database stays as it is.
LEMMA LastJump ==
    ASSUME NEW i \in 0..109, NEW j \in 0..109, NEW d, NEW F, NEW B,
           Lasts(i, d, F, B), Due(i, j, d, F, B)
    PROVE  Lasts(j, d, F, B)
<1>1. Shrunk(d, d) /\ B \subseteq B
  BY DEF Shrunk
<1>2. QED
  BY <1>1, LastStep DEF Due

-----------------------------------------------------------------------------
(* A statement that writes, by what it is.                                 *)

\* Where nothing is owed.
LEMMA NothingOwed ==
    ASSUME NEW j \in 0..109, j \notin Tight, NEW w, NEW o, NEW d, NEW f, NEW F, NEW B
    PROVE  Owed(j, w, o, d, f, F, B)
  BY DEF Tight, Owed

\* A statement may run: nothing is lost, and what is owed at the next one holds.
Right(i, w, o, p, d, e, f, F, B) ==
    /\ Safe(d, e, F, B) /\ Duty(i + 1, w, p, e, f, F, B)
    /\ Fresh(d) /\ i # 102 => Fresh(e)
    /\ i = 105 => Fresh(e)

\* CREATE, with and without IF NOT EXISTS.
LEMMA CreateRight ==
    ASSUME NEW i \in 1..108, NEW s, Fits(i, s), s.op \in {"create", "createIfMissing"},
           NEW d \in Databases, Sound(d), NEW w, NEW o, NEW f, NEW F, NEW B,
           Duty(i, w, o, d, f, F, B)
    PROVE  Right(i, w, o, o, d, Result(s, d, f), f, F, B)
<1> DEFINE e == IF Here(d, s.name) THEN d ELSE Put(d, s.name, "new", {})
<1>1. Result(s, d, f) = e
  BY DEF Result
<1> HIDE DEF e
<1>2. /\ s.name \in Names
      /\ (s.name # "job_works_rebuilt" /\ Quiet(i, i + 1)) \/ i = 102
  BY DEF Fits
<1>3. Safe(d, e, F, B) /\ (s.name # "job_works_rebuilt" /\ Fresh(d) => Fresh(e))
  BY <1>2, CreateStep DEF e
<1>4. Shrunk(d, e)
  BY <1>3 DEF Safe
<1>5. CASE i # 102
  <2>1. Quiet(i, i + 1) /\ s.name # "job_works_rebuilt"
    BY <1>2, <1>5
  <2>2. Duty(i + 1, w, o, e, f, F, B)
    BY <2>1, <1>4, QuietNext
  <2>3. i = 105 => Fresh(e)
    <3>1. ~Quiet(105, 105 + 1)
      BY DEF Quiet, Tight
    <3>2. QED
      BY <2>1, <3>1
  <2>4. QED
    BY <2>1, <2>2, <2>3, <1>1, <1>3 DEF Right
<1>6. CASE i = 102
  <2>1. Owed(i, w, o, d, f, F, B) /\ Lasts(i, d, F, B)
    BY <1>6 DEF Duty
  <2>2. Owed(i + 1, w, o, e, f, F, B)
    BY <1>6, <2>1 DEF Owed
  <2>3. Lasts(i + 1, e, F, B)
    BY <1>6, <2>1, <1>4, LastNext
  <2>4. QED
    BY <1>6, <2>2, <2>3, <1>1, <1>3 DEF Right, Duty
<1>7. QED
  BY <1>5, <1>6

\* INSERT and UPDATE.
LEMMA CarryRight ==
    ASSUME NEW i \in 1..108, NEW s, s = Program[i], s.op \in {"insert", "update"},
           NEW d \in Databases, Sound(d), NEW w, NEW o, NEW f, NEW F, NEW B,
           Duty(i, w, o, d, f, F, B), Legal(s, d)
    PROVE  Right(i, w, o, w, d, Result(s, d, f), f, F, B)
<1> DEFINE e == [d EXCEPT !.rows[s.to] = @ \cup Moved(s, d)]
<1>1. Result(s, d, f) = e
  BY DEF Result
<1> HIDE DEF e
<1>2. /\ s.name \in Names /\ s.to \in Names /\ s.to \notin Sources
      /\ s.row \in Rows /\ (s.row = s.to \/ i = 103)
      /\ Quiet(i, i + 1) \/ i \in {15, 28, 38, 47, 51, 86, 103}
  BY Fitting DEF Fits
<1>3. s.row \in Homed(s.to)
  <2>1. CASE s.row = s.to
    BY <1>2, <2>1, OwnHome
  <2>2. CASE i = 103
    <3>1. s.row = "job_works" /\ s.to = "job_works_rebuilt"
      BY <2>2, Listing DEF InsertAs, Carry
    <3>2. QED
      BY <3>1, HomedIs
  <2>3. QED
    BY <1>2, <2>1, <2>2
<1>4. Here(d, s.to)
  BY DEF Legal
<1>5. /\ Safe(d, e, F, B) /\ (Fresh(d) => Fresh(e))
      /\ d.rows[s.name] \subseteq {s.row} => e.rows[s.name] \subseteq e.rows[s.to]
  BY <1>2, <1>3, <1>4, CarryStep DEF e
<1>6. Shrunk(d, e)
  BY <1>5 DEF Safe
<1>7. ASSUME Quiet(i, i + 1) PROVE Duty(i + 1, w, w, e, f, F, B)
  BY <1>6, <1>7, QuietNext
<1>8. Owed(i, w, o, d, f, F, B) /\ Lasts(i, d, F, B)
  BY DEF Duty
<1>9. ASSUME i = 15 PROVE Duty(i + 1, w, w, e, f, F, B)
  <2>1. s.name = "buyer_orders" /\ s.to = "buyer_order_no" /\ s.row = "buyer_order_no"
    BY <1>9, Listing DEF UpdateRows, Carry
  <2>2. e.rows["buyer_orders"] \subseteq e.rows["buyer_order_no"]
    BY <2>1, <1>2, <1>5, HomedIs DEF Sound
  <2>3. Owed(i + 1, w, w, e, f, F, B)
    BY <2>2, <1>8, <1>9 DEF Owed, Spent
  <2>4. Lasts(i + 1, e, F, B)
    BY <1>6, <1>8, <1>9, LastNext
  <2>5. QED
    BY <2>3, <2>4, <1>9 DEF Duty
<1>10. ASSUME i = 28 PROVE Duty(i + 1, w, w, e, f, F, B)
  <2>1. s.name = "tare_weight" /\ s.to = "tare_weight_kg" /\ s.row = "tare_weight_kg"
    BY <1>10, Listing DEF UpdateRows, Carry
  <2>2. e.rows["tare_weight"] \subseteq e.rows["tare_weight_kg"]
    BY <2>1, <1>2, <1>5, HomedIs DEF Sound
  <2>3. Owed(i + 1, w, w, e, f, F, B)
    BY <2>2, <1>8, <1>10 DEF Owed, Spent
  <2>4. Lasts(i + 1, e, F, B)
    BY <1>6, <1>8, <1>10, LastNext
  <2>5. QED
    BY <2>3, <2>4, <1>10 DEF Duty
<1>11. ASSUME i = 38 PROVE Duty(i + 1, w, w, e, f, F, B)
  <2>1. s.name = "vessel_voyage_no" /\ s.to = "vessel_name" /\ s.row = "vessel_name"
    BY <1>11, Listing DEF Update, Carry
  <2>2. e.rows["vessel_voyage_no"] \subseteq e.rows["vessel_name"]
    BY <2>1, <1>2, <1>5, HomedIs DEF Sound
  <2>3. Owed(i + 1, w, w, e, f, F, B)
    BY <2>2, <1>8, <1>11 DEF Owed, Carried
  <2>4. Lasts(i + 1, e, F, B)
    BY <1>6, <1>8, <1>11, LastNext
  <2>5. QED
    BY <2>3, <2>4, <1>11 DEF Duty
<1>12. ASSUME i = 47 PROVE Duty(i + 1, w, w, e, f, F, B)
  <2>1. s.name = "quotation_details" /\ s.to = "quotation_containers" /\ s.row = "quotation_containers"
    BY <1>12, Listing DEF InsertUnkeyed, Carry
  <2>2. e.rows["quotation_details"] \subseteq e.rows["quotation_containers"]
    BY <2>1, <1>2, <1>5, HomedIs DEF Sound
  <2>3. Owed(i + 1, w, w, e, f, F, B)
    BY <2>2, <1>8, <1>12 DEF Owed, Carried
  <2>4. Lasts(i + 1, e, F, B)
    BY <1>6, <1>8, <1>12, LastNext
  <2>5. QED
    BY <2>3, <2>4, <1>12 DEF Duty
<1>13. ASSUME i = 51 PROVE Duty(i + 1, w, w, e, f, F, B)
  <2>1. s.name = "proforma_details" /\ s.to = "proforma_containers" /\ s.row = "proforma_containers"
    BY <1>13, Listing DEF InsertUnkeyed, Carry
  <2>2. e.rows["proforma_details"] \subseteq e.rows["proforma_containers"]
    BY <2>1, <1>2, <1>5, HomedIs DEF Sound
  <2>3. Owed(i + 1, w, w, e, f, F, B)
    BY <2>2, <1>8, <1>13 DEF Owed, Carried
  <2>4. Lasts(i + 1, e, F, B)
    BY <1>6, <1>8, <1>13, LastNext
  <2>5. QED
    BY <2>3, <2>4, <1>13 DEF Duty
<1>14. ASSUME i = 86 PROVE Duty(i + 1, w, w, e, f, F, B)
  <2>1. s.name = "production_old" /\ s.to = "production" /\ s.row = "production"
    BY <1>14, Listing DEF Insert, Carry
  <2>2. e.rows["production_old"] \subseteq e.rows["production"]
    BY <2>1, <1>2, <1>5, HomedIs DEF Sound
  <2>3. Owed(i + 1, w, w, e, f, F, B)
    BY <2>2, <1>8, <1>14 DEF Owed, Carried
  <2>4. Lasts(i + 1, e, F, B)
    BY <1>6, <1>8, <1>14, LastNext
  <2>5. QED
    BY <2>3, <2>4, <1>14 DEF Duty
<1>15. ASSUME i = 103 PROVE Duty(i + 1, w, w, e, f, F, B)
  <2>1. s.name = "job_works" /\ s.to = "job_works_rebuilt" /\ s.row = "job_works"
    BY <1>15, Listing DEF InsertAs, Carry
  <2>2. e.rows["job_works"] \subseteq e.rows["job_works_rebuilt"]
    BY <2>1, <1>2, <1>5, HomedIs DEF Sound
  <2>3. Owed(i + 1, w, w, e, f, F, B)
    BY <2>2, <1>8, <1>15 DEF Owed, Carried
  <2>4. Lasts(i + 1, e, F, B)
    BY <1>6, <1>8, <1>15, LastNext
  <2>5. QED
    BY <2>3, <2>4, <1>15 DEF Duty
<1>16. Duty(i + 1, w, w, e, f, F, B)
  BY <1>2, <1>7, <1>9, <1>10, <1>11, <1>12, <1>13, <1>14, <1>15
<1>17. i # 105
  BY Listing DEF Rename
<1>18. QED
  BY <1>1, <1>5, <1>16, <1>17 DEF Right

\* DROP of a table or column, by where its rows are.
LEMMA DropRight ==
    ASSUME NEW i \in 1..108, NEW s, s = Program[i], s.op \in {"drop", "dropIfExists"},
           NEW d \in Databases, Sound(d), NEW w, NEW o, NEW f, NEW F, NEW B,
           Duty(i, w, o, d, f, F, B)
    PROVE  Right(i, w, o, o, d, Result(s, d, f), f, F, B)
<1> DEFINE e == Dropped(d, s.name, FALSE)
<1>1. \/ i \in {16, 22, 29, 34, 39, 48, 52, 87, 93, 97, 104}
      \/ s.name \in Discarded \cup {"production_index"} /\ Quiet(i, i + 1)
  BY Fitting DEF Fits
<1>2. Owed(i, w, o, d, f, F, B) /\ Lasts(i, d, F, B)
  BY DEF Duty
<1>3. i # 102 /\ i # 105
  BY Listing DEF Create, Rename
<1>4. ASSUME s.name # "job_works" \/ f = FALSE PROVE Result(s, d, f) = e
  <2>1. Result(s, d, f) = Dropped(d, s.name, f)
    BY DEF Result
  <2>2. QED
    BY <1>4, <2>1 DEF Dropped
<1>5. ASSUME s.name \in Names, s.name \notin Wide,
             Elsewhere(d, s.name, F, B)
      PROVE  /\ Safe(d, e, F, B) /\ (Fresh(d) => Fresh(e)) /\ e.rows[s.name] = {}
             /\ \A m \in Names : m # s.name => e.rows[m] = d.rows[m]
  BY <1>5, DropStep DEF e
<1> HIDE DEF e
<1>6. ASSUME s.name # "job_works" \/ f = FALSE, Safe(d, e, F, B), Fresh(d) => Fresh(e),
             Duty(i + 1, w, o, e, f, F, B)
      PROVE  Right(i, w, o, o, d, Result(s, d, f), f, F, B)
  BY <1>3, <1>4, <1>6 DEF Right
<1>7. ASSUME Safe(d, e, F, B), Quiet(i, i + 1) PROVE Duty(i + 1, w, o, e, f, F, B)
  <2>1. Shrunk(d, e)
    BY <1>7 DEF Safe
  <2>2. QED
    BY <1>7, <2>1, QuietNext
<1>8. CASE s.name \in Discarded \cup {"production_index"} /\ Quiet(i, i + 1)
  <2>1. s.name \in Names /\ s.name \notin Wide /\ d.rows[s.name] \subseteq Discarded
    <3>1. s.name \in Names /\ s.name \notin Wide /\ s.name # "job_works"
      BY <1>8, NamesAre DEF Discarded, Wide
    <3>2. Homed(s.name) \subseteq Discarded
      BY <1>8, HomedIs
    <3>3. QED
      BY <3>1, <3>2 DEF Sound
  <2>2. Safe(d, e, F, B) /\ (Fresh(d) => Fresh(e))
    BY <2>1, <1>5 DEF Elsewhere
  <2>3. s.name # "job_works"
    BY <1>8 DEF Discarded
  <2>4. QED
    BY <1>8, <2>2, <2>3, <1>6, <1>7
<1>9. CASE i = 16
  <2>1. s.name = "buyer_orders" /\ s.name \in Names /\ s.name \notin Wide /\ "buyer_order_no" \in Names
    BY <1>9, Listing, NamesAre DEF Drop, Wide
  <2>2. d.rows["buyer_orders"] \subseteq d.rows["buyer_order_no"]
    BY <1>2, <1>9 DEF Owed, Spent
  <2>4. Elsewhere(d, s.name, F, B)
    BY <2>1, <2>2 DEF Elsewhere
  <2>5. Safe(d, e, F, B) /\ (Fresh(d) => Fresh(e)) /\ e.rows[s.name] = {}
    BY <2>1, <2>4, <1>5
  <2>6. Owed(i + 1, w, o, e, f, F, B)
    BY <1>9, NothingOwed DEF Tight
  <2>7. Lasts(i + 1, e, F, B)
    BY <1>2, <1>9, <2>1, <2>5, LastNext DEF Safe
  <2>8. Duty(i + 1, w, o, e, f, F, B)
    BY <1>9, <2>6, <2>7 DEF Duty
  <2>9. QED
    BY <2>1, <2>5, <2>8, <1>6
<1>10. CASE i = 22
  <2>1. s.name = "c_no" /\ s.name \in Names /\ s.name \notin Wide
    BY <1>10, Listing, NamesAre DEF Drop, Wide
  <2>2. "c_no" \in Retired /\ d.rows["c_no"] \subseteq {"c_no"}
    BY <2>1, HomedIs DEF Sound, Retired
  <2>3. Saved("c_no", F, B)
    BY <1>2, <1>10, <2>2 DEF Owed
  <2>4. Elsewhere(d, s.name, F, B)
    BY <2>1, <2>2, <2>3 DEF Saved, Elsewhere
  <2>5. Safe(d, e, F, B) /\ (Fresh(d) => Fresh(e)) /\ e.rows[s.name] = {}
    BY <2>1, <2>4, <1>5
  <2>6. Owed(i + 1, w, o, e, f, F, B)
    BY <1>10, NothingOwed DEF Tight
  <2>7. Lasts(i + 1, e, F, B)
    BY <1>2, <1>10, <2>1, <2>3, <2>5, LastNext DEF Safe
  <2>8. Duty(i + 1, w, o, e, f, F, B)
    BY <1>10, <2>6, <2>7 DEF Duty
  <2>9. QED
    BY <2>1, <2>5, <2>8, <1>6
<1>11. CASE i = 29
  <2>1. s.name = "tare_weight" /\ s.name \in Names /\ s.name \notin Wide /\ "tare_weight_kg" \in Names
    BY <1>11, Listing, NamesAre DEF Drop, Wide
  <2>2. d.rows["tare_weight"] \subseteq d.rows["tare_weight_kg"]
    BY <1>2, <1>11 DEF Owed, Spent
  <2>4. Elsewhere(d, s.name, F, B)
    BY <2>1, <2>2 DEF Elsewhere
  <2>5. Safe(d, e, F, B) /\ (Fresh(d) => Fresh(e)) /\ e.rows[s.name] = {}
    BY <2>1, <2>4, <1>5
  <2>6. Quiet(i, i + 1)
    BY <1>11 DEF Quiet, Tight, Lasting
  <2>7. QED
    BY <2>1, <2>5, <2>6, <1>6, <1>7
<1>12. CASE i = 34
  <2>1. s.name = "exporters" /\ s.name \in Names /\ s.name \notin Wide
    BY <1>12, Listing, NamesAre DEF Drop, Wide
  <2>2. "exporters" \in Retired /\ d.rows["exporters"] \subseteq {"exporters"}
    BY <2>1, HomedIs DEF Sound, Retired
  <2>3. Saved("exporters", F, B)
    BY <1>2, <1>12, <2>2 DEF Owed
  <2>4. Elsewhere(d, s.name, F, B)
    BY <2>1, <2>2, <2>3 DEF Saved, Elsewhere
  <2>5. Safe(d, e, F, B) /\ (Fresh(d) => Fresh(e)) /\ e.rows[s.name] = {}
    BY <2>1, <2>4, <1>5
  <2>6. Owed(i + 1, w, o, e, f, F, B)
    BY <1>12, NothingOwed DEF Tight
  <2>7. Lasts(i + 1, e, F, B)
    BY <1>2, <1>12, <2>1, <2>3, <2>5, LastNext DEF Safe
  <2>8. Duty(i + 1, w, o, e, f, F, B)
    BY <1>12, <2>6, <2>7 DEF Duty
  <2>9. QED
    BY <2>1, <2>5, <2>8, <1>6
<1>13. CASE i = 39
  <2>1. s.name = "vessel_voyage_no" /\ s.name \in Names /\ s.name \notin Wide /\ "vessel_name" \in Names
    BY <1>13, Listing, NamesAre DEF Drop, Wide
  <2>2. d.rows["vessel_voyage_no"] \subseteq d.rows["vessel_name"]
    BY <1>2, <1>13 DEF Owed, Carried
  <2>4. Elsewhere(d, s.name, F, B)
    BY <2>1, <2>2 DEF Elsewhere
  <2>5. Safe(d, e, F, B) /\ (Fresh(d) => Fresh(e)) /\ e.rows[s.name] = {}
    BY <2>1, <2>4, <1>5
  <2>6. Quiet(i, i + 1)
    BY <1>13 DEF Quiet, Tight, Lasting
  <2>7. QED
    BY <2>1, <2>5, <2>6, <1>6, <1>7
<1>14. CASE i = 48
  <2>1. s.name = "quotation_details" /\ s.name \in Names /\ s.name \notin Wide /\ "quotation_containers" \in Names
    BY <1>14, Listing, NamesAre DEF Drop, Wide
  <2>2. d.rows["quotation_details"] \subseteq d.rows["quotation_containers"]
    BY <1>2, <1>14 DEF Owed, Carried
  <2>4. Elsewhere(d, s.name, F, B)
    BY <2>1, <2>2 DEF Elsewhere
  <2>5. Safe(d, e, F, B) /\ (Fresh(d) => Fresh(e)) /\ e.rows[s.name] = {}
    BY <2>1, <2>4, <1>5
  <2>6. Owed(i + 1, w, o, e, f, F, B)
    BY <1>14, NothingOwed DEF Tight
  <2>7. Lasts(i + 1, e, F, B)
    BY <1>2, <1>14, <2>1, <2>5, LastNext DEF Safe
  <2>8. Duty(i + 1, w, o, e, f, F, B)
    BY <1>14, <2>6, <2>7 DEF Duty
  <2>9. QED
    BY <2>1, <2>5, <2>8, <1>6
<1>15. CASE i = 52
  <2>1. s.name = "proforma_details" /\ s.name \in Names /\ s.name \notin Wide /\ "proforma_containers" \in Names
    BY <1>15, Listing, NamesAre DEF Drop, Wide
  <2>2. d.rows["proforma_details"] \subseteq d.rows["proforma_containers"]
    BY <1>2, <1>15 DEF Owed, Carried
  <2>4. Elsewhere(d, s.name, F, B)
    BY <2>1, <2>2 DEF Elsewhere
  <2>5. Safe(d, e, F, B) /\ (Fresh(d) => Fresh(e)) /\ e.rows[s.name] = {}
    BY <2>1, <2>4, <1>5
  <2>6. Owed(i + 1, w, o, e, f, F, B)
    BY <1>15, NothingOwed DEF Tight
  <2>7. Lasts(i + 1, e, F, B)
    BY <1>2, <1>15, <2>1, <2>5, LastNext DEF Safe
  <2>8. Duty(i + 1, w, o, e, f, F, B)
    BY <1>15, <2>6, <2>7 DEF Duty
  <2>9. QED
    BY <2>1, <2>5, <2>8, <1>6
<1>16. CASE i = 87
  <2>1. s.name = "production_old" /\ s.name \in Names /\ s.name \notin Wide /\ "production" \in Names
    BY <1>16, Listing, NamesAre DEF Drop, Wide
  <2>2. d.rows["production_old"] \subseteq d.rows["production"]
    BY <1>2, <1>16 DEF Owed, Carried
  <2>4. Elsewhere(d, s.name, F, B)
    BY <2>1, <2>2 DEF Elsewhere
  <2>5. Safe(d, e, F, B) /\ (Fresh(d) => Fresh(e)) /\ e.rows[s.name] = {}
    BY <2>1, <2>4, <1>5
  <2>6. Quiet(i, i + 1)
    BY <1>16 DEF Quiet, Tight, Lasting
  <2>7. QED
    BY <2>1, <2>5, <2>6, <1>6, <1>7
<1>17. CASE i = 93
  <2>1. s.name = "designs_lists" /\ s.name \in Names /\ s.name \notin Wide
    BY <1>17, Listing, NamesAre DEF Drop, Wide
  <2>2. "designs_lists" \in Retired /\ d.rows["designs_lists"] \subseteq {"designs_lists"}
    BY <2>1, HomedIs DEF Sound, Retired
  <2>3. Saved("designs_lists", F, B)
    BY <1>2, <1>17, <2>2 DEF Owed
  <2>4. Elsewhere(d, s.name, F, B)
    BY <2>1, <2>2, <2>3 DEF Saved, Elsewhere
  <2>5. Safe(d, e, F, B) /\ (Fresh(d) => Fresh(e)) /\ e.rows[s.name] = {}
    BY <2>1, <2>4, <1>5
  <2>6. Owed(i + 1, w, o, e, f, F, B)
    BY <1>17, NothingOwed DEF Tight
  <2>7. Lasts(i + 1, e, F, B)
    BY <1>2, <1>17, <2>1, <2>3, <2>5, LastNext DEF Safe
  <2>8. Duty(i + 1, w, o, e, f, F, B)
    BY <1>17, <2>6, <2>7 DEF Duty
  <2>9. QED
    BY <2>1, <2>5, <2>8, <1>6
<1>18. CASE i = 97
  <2>1. s.name = "item_designs" /\ s.name \in Names /\ s.name \notin Wide
    BY <1>18, Listing, NamesAre DEF Drop, Wide
  <2>2. "item_designs" \in Retired /\ d.rows["item_designs"] \subseteq {"item_designs"}
    BY <2>1, HomedIs DEF Sound, Retired
  <2>3. Saved("item_designs", F, B)
    BY <1>2, <1>18, <2>2 DEF Owed
  <2>4. Elsewhere(d, s.name, F, B)
    BY <2>1, <2>2, <2>3 DEF Saved, Elsewhere
  <2>5. Safe(d, e, F, B) /\ (Fresh(d) => Fresh(e)) /\ e.rows[s.name] = {}
    BY <2>1, <2>4, <1>5
  <2>6. Owed(i + 1, w, o, e, f, F, B)
    BY <1>18, NothingOwed DEF Tight
  <2>7. Lasts(i + 1, e, F, B)
    BY <1>2, <1>18, <2>1, <2>3, <2>5, LastNext DEF Safe
  <2>8. Duty(i + 1, w, o, e, f, F, B)
    BY <1>18, <2>6, <2>7 DEF Duty
  <2>9. QED
    BY <2>1, <2>5, <2>8, <1>6
<1>19. CASE i = 104
  <2>1. s.name = "job_works" /\ s.name \in Names /\ s.name \notin Wide /\ "job_works_rebuilt" \in Names
    BY <1>19, Listing, NamesAre DEF Drop, Wide
  <2>2. d.rows["job_works"] \subseteq d.rows["job_works_rebuilt"]
    BY <1>2, <1>19 DEF Owed, Carried
  <2>4. Elsewhere(d, s.name, F, B)
    BY <2>1, <2>2 DEF Elsewhere
  <2>5. Safe(d, e, F, B) /\ (Fresh(d) => Fresh(e)) /\ e.rows[s.name] = {}
    BY <2>1, <2>4, <1>5
  <2>6. f = FALSE /\ o = w
    BY <1>2, <1>19 DEF Owed
  <2>7. Owed(i + 1, w, o, e, f, F, B)
    BY <1>19, <2>6 DEF Owed
  <2>8. Lasts(i + 1, e, F, B)
    BY <1>2, <1>19, <2>5, LastNext DEF Safe
  <2>9. Duty(i + 1, w, o, e, f, F, B)
    BY <1>19, <2>7, <2>8 DEF Duty
  <2>10. QED
    BY <2>5, <2>6, <2>9, <1>6
<1>20. QED
  BY <1>1, <1>8, <1>9, <1>10, <1>11, <1>12, <1>13, <1>14, <1>15, <1>16, <1>17, <1>18, <1>19

\* RENAME, of production out of the way and of the rebuilt job_works into its place.
LEMMA RenameRight ==
    ASSUME NEW i \in 1..108, NEW s, s = Program[i], s.op = "rename",
           NEW d \in Databases, Sound(d), NEW w, NEW o, NEW f, NEW F, NEW B,
           Duty(i, w, o, d, f, F, B), Legal(s, d)
    PROVE  Right(i, w, o, o, d, Result(s, d, f), f, F, B)
<1> DEFINE e == Put(Put(d, s.to, d.shape[s.name], d.rows[s.name]), s.name, "absent", {})
<1>1. Result(s, d, f) = e
  BY DEF Result
<1> HIDE DEF e
<1>2. Here(d, s.name) /\ ~Here(d, s.to)
  BY DEF Legal
<1>3. Owed(i, w, o, d, f, F, B) /\ Lasts(i, d, F, B)
  BY DEF Duty
<1>4. i \in {84, 105}
  BY Fitting DEF Fits
<1>5. CASE i = 84
  <2>1. s.name = "production" /\ s.to = "production_old"
    BY <1>5, Listing DEF Rename
  <2>2. /\ s.name \in Names /\ s.to \in Names /\ s.name \notin Sources /\ s.to \notin Sources
        /\ s.to # s.name /\ Homed(s.name) \subseteq Homed(s.to)
        /\ "job_works_rebuilt" \in Names
    BY <2>1, NamesAre, HomedIs DEF Sources
  <2>3. /\ Safe(d, e, F, B)
        /\ \A k \in Names : k # s.name /\ k # s.to => e.shape[k] = d.shape[k]
    <3>1. Safe(d, e, F, B)
      BY <1>2, <2>2, RenameStep DEF e
    <3>2. \A k \in Names : k # s.name /\ k # s.to => e.shape[k] = d.shape[k]
      BY ONLY <1>2, <2>2, RenameStep, d \in Databases, Sound(d) DEF e
    <3>3. QED
      BY <3>1, <3>2
  <2>4. Fresh(d) => Fresh(e)
    BY <2>1, <2>2, <2>3 DEF Fresh
  <2>5. Quiet(i, i + 1) /\ Shrunk(d, e)
    BY <1>5, <2>3 DEF Quiet, Tight, Lasting, Safe
  <2>6. Duty(i + 1, w, o, e, f, F, B)
    BY <1>5, <2>5, QuietNext
  <2>7. QED
    BY <1>1, <1>5, <2>3, <2>4, <2>6 DEF Right
<1>6. CASE i = 105
  <2>1. s.name = "job_works_rebuilt" /\ s.to = "job_works"
    BY <1>6, Listing DEF Rename
  <2>2. /\ s.name \in Names /\ s.to \in Names /\ s.name \notin Sources /\ s.to \notin Sources
        /\ s.to # s.name /\ Homed(s.name) \subseteq Homed(s.to)
    BY <2>1, NamesAre, HomedIs DEF Sources
  <2>3. Safe(d, e, F, B) /\ e.shape[s.name] = "absent"
    BY <1>2, <2>2, RenameStep, ZenonT(60) DEF e
  <2>4. Fresh(e)
    BY <2>1, <2>3 DEF Fresh
  <2>5. Owed(i + 1, w, o, e, f, F, B)
    BY <1>3, <1>6 DEF Owed
  <2>6. Lasts(i + 1, e, F, B)
    BY <1>3, <1>6, <2>3, LastNext DEF Safe
  <2>7. QED
    BY <1>1, <1>6, <2>3, <2>4, <2>5, <2>6 DEF Right, Duty
<1>7. QED
  BY <1>4, <1>5, <1>6

\* DELETE, of exporters.
LEMMA DeleteRight ==
    ASSUME NEW i \in 1..108, NEW s, s = Program[i], s.op = "delete",
           NEW d \in Databases, Sound(d), NEW w, NEW o, NEW f, NEW F, NEW B,
           Duty(i, w, o, d, f, F, B)
    PROVE  Right(i, w, o, w, d, Result(s, d, f), f, F, B)
<1> DEFINE e == [d EXCEPT !.rows["exporters"] = {}]
<1>1. i = 33
  BY Fitting DEF Fits
<1>2. s.name = "exporters"
  BY <1>1, Listing DEF Delete
<1>3. Result(s, d, f) = e
  BY <1>2 DEF Result
<1> HIDE DEF e
<1>4. (\A r \in Retired : Saved(r, F, B)) /\ Lasts(i, d, F, B)
  BY <1>1 DEF Duty, Owed
<1>5. Safe(d, e, F, B) /\ (Fresh(d) => Fresh(e))
  BY <1>4, DeleteStep DEF e, Saved, Retired
<1>6. Owed(i + 1, w, w, e, f, F, B)
  BY <1>1, <1>4 DEF Owed
<1>7. Lasts(i + 1, e, F, B)
  BY <1>1, <1>4, <1>5, LastNext DEF Safe
<1>8. QED
  BY <1>1, <1>3, <1>5, <1>6, <1>7 DEF Right, Duty

\* The schema script and the version stamp.
LEMMA SchemaRight ==
    ASSUME NEW i \in 1..108, NEW s, s = Program[i], s.op \in {"script", "stamp"},
           NEW d \in Databases, Sound(d), NEW w, NEW o, NEW f, NEW F, NEW B,
           Duty(i, w, o, d, f, F, B)
    PROVE  Right(i, w, o, o, d, Result(s, d, f), f, F, B)
<1> DEFINE e == Result(s, d, f)
<1>1. (s.op = "script" => i = 2) /\ (s.op = "stamp" => i = 108)
  BY Fitting DEF Fits
<1>2. Safe(d, e, F, B) /\ (Fresh(d) => Fresh(e))
  <2>1. CASE s.op = "script"
    <3>1. e = Scripted(d)
      BY <2>1 DEF Result
    <3>2. QED
      BY <3>1, ScriptStep
  <2>2. CASE s.op = "stamp"
    <3>1. e = [d EXCEPT !.version = SchemaVersion]
      BY <2>2 DEF Result
    <3>2. QED
      BY <3>1, StampStep
  <2>3. QED
    BY <2>1, <2>2
<1> HIDE DEF e
<1>3. Shrunk(d, e) /\ Owed(i, w, o, d, f, F, B) /\ Lasts(i, d, F, B)
  BY <1>2 DEF Safe, Duty
<1>4. CASE i = 2
  <2>1. Quiet(i, i + 1)
    BY <1>4 DEF Quiet, Tight, Lasting
  <2>2. Duty(i + 1, w, o, e, f, F, B)
    BY <1>3, <1>4, <2>1, QuietNext
  <2>3. QED
    BY <1>2, <1>4, <2>2 DEF Right, e
<1>5. CASE i = 108
  <2>1. Owed(i + 1, w, o, e, f, F, B)
    BY <1>3, <1>5 DEF Owed
  <2>2. Lasts(i + 1, e, F, B)
    BY <1>3, <1>5, LastNext
  <2>3. QED
    BY <1>2, <1>5, <2>1, <2>2 DEF Right, Duty, e
<1>6. QED
  BY <1>1, <1>4, <1>5

\* A statement that writes: one of the above.
LEMMA WriteRight ==
    ASSUME NEW i \in 1..108, NEW s, s = Program[i],
           NEW d \in Databases, Sound(d), NEW w, NEW o, NEW f, NEW F, NEW B,
           Duty(i, w, o, d, f, F, B), Legal(s, d)
    PROVE  /\ s.op \in DdlOps => Right(i, w, o, o, d, Result(s, d, f), f, F, B)
           /\ s.op \in DmlOps => Right(i, w, o, w, d, Result(s, d, f), f, F, B)
<1>1. Fits(i, s)
  BY Fitting
<1>2. s.op \in {"create", "createIfMissing"} => Right(i, w, o, o, d, Result(s, d, f), f, F, B)
  BY <1>1, CreateRight
<1>3. s.op \in {"drop", "dropIfExists"} => Right(i, w, o, o, d, Result(s, d, f), f, F, B)
  BY DropRight
<1>4. s.op = "rename" => Right(i, w, o, o, d, Result(s, d, f), f, F, B)
  BY RenameRight
<1>5. s.op \in {"script", "stamp"} => Right(i, w, o, o, d, Result(s, d, f), f, F, B)
  BY SchemaRight
<1>6. s.op \in {"insert", "update"} => Right(i, w, o, w, d, Result(s, d, f), f, F, B)
  BY CarryRight
<1>7. s.op = "delete" => Right(i, w, o, w, d, Result(s, d, f), f, F, B)
  BY DeleteRight
<1>8. QED
  BY <1>2, <1>3, <1>4, <1>5, <1>6, <1>7 DEF DdlOps, DmlOps

-----------------------------------------------------------------------------
(* The tests.                                                              *)

\* What the tests on one name ask.
LEMMA HoldsIs ==
    ASSUME db \in Databases, NEW n, NEW d
    PROVE  /\ Holds(Present(n), d) <=> Here(d, n)
           /\ Holds(Filled(n), d) <=> Here(d, n) /\ d.rows[n] # {}
<1>1. db.version < Current
  BY DEF Databases, Current, SchemaVersion
<1>2. QED
  BY <1>1 DEF Holds, Present, Filled, Always

\* A retired row whose table is gone is in a backup.
LEMMA GoneIsSaved ==
    ASSUME NEW d \in Databases, Sound(d), NEW F, NEW B, Kept(d, F, B),
           NEW r \in Retired, ~Here(d, r)
    PROVE  Saved(r, F, B)
<1>1. SUFFICES ASSUME r \in F, ~(\E b \in B : r \in b) PROVE FALSE
  BY DEF Saved
<1>2. PICK n \in Names : r \in d.rows[n]
  <2>1. r \notin Discarded
    BY DEF Retired, Discarded
  <2>2. QED
    BY <1>1, <2>1 DEF Kept
<1>3. r \in Homed(n)
  BY <1>2 DEF Sound
<1>4. n = r
  BY <1>3, HoldersAre
<1>5. QED
  BY <1>2, <1>4 DEF Here, Sound

\* After a test, taken or not.
LEMMA TestRight ==
    ASSUME db \in Databases, NEW i \in 1..108, NEW s, s = Program[i], s.op = "if",
           NEW d \in Databases, Sound(d), NEW w, NEW o, NEW f, NEW F, NEW B, Kept(d, F, B),
           Duty(i, w, o, d, f, F, B), NEW j, j = i + 1 + IF Holds(s.cond, d) THEN 0 ELSE s.skip
    PROVE  Duty(j, w, o, d, f, F, B) /\ j \in 0..109
<1>1. /\ s.skip \in Nat /\ i + 1 + s.skip \in 1..109
      /\ i # 100 => Quiet(i, i + 1)
      /\ Quiet(i, i + 1 + s.skip) \/ i \in Tests
  BY Fitting, ZenonT(40) DEF Fits
<1>2. j \in 0..109 /\ i \in 0..109
  BY <1>1
<1>3. Owed(i, w, o, d, f, F, B) /\ Lasts(i, d, F, B) /\ Shrunk(d, d) /\ B \subseteq B
  BY DEF Duty, Shrunk
<1>4. ASSUME Quiet(i, j) PROVE Duty(j, w, o, d, f, F, B)
  BY <1>2, <1>3, <1>4, QuietStep
<1>5. CASE Holds(s.cond, d)
  <2>1. j = i + 1
    BY <1>5
  <2>2. CASE i # 100
    BY <1>1, <1>2, <1>4, <2>1, <2>2
  <2>3. CASE i = 100
    <3>1. Owed(i + 1, w, o, d, f, F, B)
      BY <1>3, <2>3 DEF Owed
    <3>2. Lasts(i + 1, d, F, B)
      BY <1>3, <2>3, LastNext
    <3>3. QED
      BY <1>2, <2>1, <3>1, <3>2 DEF Duty
  <2>4. QED
    BY <2>2, <2>3
<1>6. CASE ~Holds(s.cond, d) /\ Quiet(i, i + 1 + s.skip)
  <2>1. j = i + 1 + s.skip
    BY <1>6
  <2>2. QED
    BY <1>2, <1>4, <1>6, <2>1
<1>7. CASE ~Holds(s.cond, d) /\ i = 13
  <2>1. j = 17 /\ s.cond = Present("buyer_orders")
    BY <1>7, Listing DEF If
  <2>2. d.rows["buyer_orders"] = {}
    BY <1>7, <2>1, HoldsIs, NamesAre DEF Here, Sound
  <2>3. Owed(j, w, o, d, f, F, B)
    BY <1>2, <2>1, NothingOwed DEF Tight
  <2>4. Lasts(j, d, F, B)
    <3>1. Due(i, j, d, F, B)
      BY <1>7, <2>1, <2>2 DEF Due
    <3>2. QED
      BY <1>2, <1>3, <3>1, LastJump
  <2>5. QED
    BY <1>2, <2>3, <2>4 DEF Duty
<1>8. CASE ~Holds(s.cond, d) /\ i = 14
  <2>1. j = 16 /\ s.cond = Filled("buyer_orders")
    BY <1>8, Listing DEF If
  <2>2. d.rows["buyer_orders"] = {}
    BY <1>8, <2>1, HoldsIs, NamesAre DEF Here, Sound
  <2>3. Owed(j, w, o, d, f, F, B)
    BY <2>1, <2>2 DEF Owed, Spent
  <2>4. Lasts(j, d, F, B)
    <3>1. Due(i, j, d, F, B)
      BY <1>8, <2>1, <2>2 DEF Due
    <3>2. QED
      BY <1>2, <1>3, <3>1, LastJump
  <2>5. QED
    BY <1>2, <2>3, <2>4 DEF Duty
<1>9. CASE ~Holds(s.cond, d) /\ i = 19
  <2>1. j = 23 /\ s.cond = Present("c_no")
    BY <1>9, Listing DEF If
  <2>2. Saved("c_no", F, B)
    BY <1>9, <2>1, HoldsIs, GoneIsSaved DEF Retired
  <2>3. Owed(j, w, o, d, f, F, B)
    BY <1>2, <2>1, NothingOwed DEF Tight
  <2>4. Lasts(j, d, F, B)
    <3>1. Due(i, j, d, F, B)
      BY <1>9, <2>1, <2>2 DEF Due
    <3>2. QED
      BY <1>2, <1>3, <3>1, LastJump
  <2>5. QED
    BY <1>2, <2>3, <2>4 DEF Duty
<1>10. CASE ~Holds(s.cond, d) /\ i = 27
  <2>1. j = 29 /\ s.cond = Filled("tare_weight")
    BY <1>10, Listing DEF If
  <2>2. d.rows["tare_weight"] = {}
    BY <1>10, <2>1, HoldsIs, NamesAre DEF Here, Sound
  <2>3. Owed(j, w, o, d, f, F, B)
    BY <2>1, <2>2 DEF Owed, Spent
  <2>4. Lasts(j, d, F, B)
    <3>1. Due(i, j, d, F, B)
      BY <1>10, <2>1, <2>2 DEF Due
    <3>2. QED
      BY <1>2, <1>3, <3>1, LastJump
  <2>5. QED
    BY <1>2, <2>3, <2>4 DEF Duty
<1>11. CASE ~Holds(s.cond, d) /\ i = 30
  <2>1. j = 35 /\ s.cond = Present("exporters")
    BY <1>11, Listing DEF If
  <2>2. Saved("exporters", F, B)
    BY <1>11, <2>1, HoldsIs, GoneIsSaved DEF Retired
  <2>3. Owed(j, w, o, d, f, F, B)
    BY <1>2, <2>1, NothingOwed DEF Tight
  <2>4. Lasts(j, d, F, B)
    <3>1. Due(i, j, d, F, B)
      BY <1>11, <2>1, <2>2 DEF Due
    <3>2. QED
      BY <1>2, <1>3, <3>1, LastJump
  <2>5. QED
    BY <1>2, <2>3, <2>4 DEF Duty
<1>12. CASE ~Holds(s.cond, d) /\ i = 46
  <2>1. j = 49 /\ s.cond = Present("quotation_details")
    BY <1>12, Listing DEF If
  <2>2. d.rows["quotation_details"] = {}
    BY <1>12, <2>1, HoldsIs, NamesAre DEF Here, Sound
  <2>3. Owed(j, w, o, d, f, F, B)
    BY <1>2, <2>1, NothingOwed DEF Tight
  <2>4. Lasts(j, d, F, B)
    <3>1. Due(i, j, d, F, B)
      BY <1>12, <2>1, <2>2 DEF Due
    <3>2. QED
      BY <1>2, <1>3, <3>1, LastJump
  <2>5. QED
    BY <1>2, <2>3, <2>4 DEF Duty
<1>13. CASE ~Holds(s.cond, d) /\ i = 50
  <2>1. j = 53 /\ s.cond = Present("proforma_details")
    BY <1>13, Listing DEF If
  <2>2. d.rows["proforma_details"] = {}
    BY <1>13, <2>1, HoldsIs, NamesAre DEF Here, Sound
  <2>3. Owed(j, w, o, d, f, F, B)
    BY <1>2, <2>1, NothingOwed DEF Tight
  <2>4. Lasts(j, d, F, B)
    <3>1. Due(i, j, d, F, B)
      BY <1>13, <2>1, <2>2 DEF Due
    <3>2. QED
      BY <1>2, <1>3, <3>1, LastJump
  <2>5. QED
    BY <1>2, <2>3, <2>4 DEF Duty
<1>14. CASE ~Holds(s.cond, d) /\ i = 90
  <2>1. j = 94 /\ s.cond = Present("designs_lists")
    BY <1>14, Listing DEF If
  <2>2. Saved("designs_lists", F, B)
    BY <1>14, <2>1, HoldsIs, GoneIsSaved DEF Retired
  <2>3. Owed(j, w, o, d, f, F, B)
    BY <1>2, <2>1, NothingOwed DEF Tight
  <2>4. Lasts(j, d, F, B)
    <3>1. Due(i, j, d, F, B)
      BY <1>14, <2>1, <2>2 DEF Due
    <3>2. QED
      BY <1>2, <1>3, <3>1, LastJump
  <2>5. QED
    BY <1>2, <2>3, <2>4 DEF Duty
<1>15. CASE ~Holds(s.cond, d) /\ i = 94
  <2>1. j = 98 /\ s.cond = Present("item_designs")
    BY <1>15, Listing DEF If
  <2>2. Saved("item_designs", F, B)
    BY <1>15, <2>1, HoldsIs, GoneIsSaved DEF Retired
  <2>3. Owed(j, w, o, d, f, F, B)
    BY <1>2, <2>1, NothingOwed DEF Tight
  <2>4. Lasts(j, d, F, B)
    <3>1. Due(i, j, d, F, B)
      BY <1>15, <2>1, <2>2 DEF Due
    <3>2. QED
      BY <1>2, <1>3, <3>1, LastJump
  <2>5. QED
    BY <1>2, <2>3, <2>4 DEF Duty
<1>16. CASE ~Holds(s.cond, d) /\ i = 100
  <2>1. j = 107
    BY <1>16, Listing DEF If
  <2>2. Owed(j, w, o, d, f, F, B)
    BY <1>3, <1>16, <2>1 DEF Owed
  <2>3. Lasts(j, d, F, B)
    <3>1. Due(i, j, d, F, B)
      BY <1>16, <2>1 DEF Due
    <3>2. QED
      BY <1>2, <1>3, <3>1, LastJump
  <2>4. QED
    BY <1>2, <2>2, <2>3 DEF Duty
<1>17. QED
  BY <1>1, <1>5, <1>6, <1>7, <1>8, <1>9, <1>10, <1>11, <1>12, <1>13, <1>14, <1>15, <1>16 DEF Tests

\* The same, of each outcome.
LEMMA TestBoth ==
    ASSUME db \in Databases, NEW i \in 1..108, NEW s, s = Program[i], s.op = "if",
           NEW d \in Databases, Sound(d), NEW w, NEW o, NEW f, NEW F, NEW B, Kept(d, F, B),
           Duty(i, w, o, d, f, F, B)
    PROVE  /\ i + 1 \in 0..109 /\ i + 1 + s.skip \in 0..109
           /\ Holds(s.cond, d) => Duty(i + 1, w, o, d, f, F, B)
           /\ ~Holds(s.cond, d) => Duty(i + 1 + s.skip, w, o, d, f, F, B)
<1>1. s.skip \in Nat /\ i + 1 + s.skip \in 1..109
  BY Fitting DEF Fits
<1>2. ASSUME Holds(s.cond, d) PROVE Duty(i + 1, w, o, d, f, F, B)
  <2>1. i + 1 = i + 1 + IF Holds(s.cond, d) THEN 0 ELSE s.skip
    BY <1>2
  <2>2. QED
    BY <2>1, TestRight
<1>3. ASSUME ~Holds(s.cond, d) PROVE Duty(i + 1 + s.skip, w, o, d, f, F, B)
  <2>1. i + 1 + s.skip = i + 1 + IF Holds(s.cond, d) THEN 0 ELSE s.skip
    BY <1>3
  <2>2. QED
    BY <2>1, TestRight
<1>4. QED
  BY <1>1, <1>2, <1>3

-----------------------------------------------------------------------------
(* The invariant.                                                          *)

\* The committed database, and an open transaction, are sound and keep every row;
\* and only the worker that rebuilds job_works sees it rebuilt.
DataInv ==
    /\ Sound(db) /\ Kept(db, facts, backups) /\ Fresh(db)
    /\ writer # None =>
          /\ Sound(pending) /\ Kept(pending, facts, backups) /\ Shrunk(db, pending)
          /\ Fresh(pending) \/ at[writer] \in 103..105

OwnDuty(w) == Duty(at[w], w, writer, View(w), fk[w], facts, backups)

IInv == TypeOK /\ DataInv /\ \A w \in Workers : OwnDuty(w)

\* TypeOK, as the steps below use it.
LEMMA TypeIs ==
    ASSUME TypeOK, NEW w \in Workers
    PROVE  /\ at[w] \in 0..109 /\ w # None /\ None \notin Workers
           /\ Len(Program) = 108 /\ Up = 109
           /\ (Starting(w) <=> at[w] \in 1..108)
  BY ConstantsOK, ProgramLength DEF TypeOK, Starting

\* What a worker sees is sound too.
LEMMA ViewIs ==
    ASSUME IInv, NEW w \in Workers
    PROVE  /\ View(w) \in Databases /\ Sound(View(w)) /\ Kept(View(w), facts, backups)
           /\ Shrunk(db, View(w))
           /\ Fresh(View(w)) \/ (writer = w /\ at[w] \in 103..105)
<1>1. w # None
  BY TypeIs DEF IInv
<1>2. CASE writer = w
  BY <1>1, <1>2 DEF IInv, TypeOK, DataInv, View
<1>3. CASE writer # w
  <2>1. View(w) = db
    BY <1>3 DEF View
  <2>2. QED
    BY <2>1 DEF IInv, TypeOK, DataInv, Shrunk
<1>4. QED
  BY <1>2, <1>3

\* A step of w keeps the invariant if it keeps the types and the data, gives w what it
\* is owed, and leaves the others their transaction.
LEMMA Lift ==
    ASSUME IInv, NEW w \in Workers, TypeOK', DataInv', OwnDuty(w)',
           facts' = facts, backups \subseteq backups', Shrunk(db, db'),
           \A v \in Workers : v # w =>
              /\ at'[v] = at[v] /\ fk'[v] = fk[v] /\ (writer = v <=> writer' = v)
              /\ writer = v => pending' = pending
    PROVE  IInv'
<1>1. ASSUME NEW v \in Workers, v # w PROVE OwnDuty(v)'
  <2>1. Duty(at[v], v, writer, View(v), fk[v], facts, backups)
    BY DEF IInv, OwnDuty
  <2>2. at[v] \in 0..109
    BY TypeIs DEF IInv
  <2>3. at'[v] = at[v] /\ fk'[v] = fk[v] /\ (writer = v <=> writer' = v)
    BY <1>1
  <2>4. writer = v => View(v)' = View(v)
    BY <1>1 DEF View
  <2>5. Shrunk(View(v), View(v)')
    BY <1>1 DEF View, Shrunk
  <2>6. Duty(at[v], v, writer', View(v)', fk[v], facts, backups')
    BY <2>1, <2>2, <2>3, <2>4, <2>5, OthersStep
  <2>7. QED
    BY <2>3, <2>6 DEF OwnDuty
<1>2. QED
  BY <1>1 DEF IInv

\* The next statement is in the program.
LEMMA AdvanceIs ==
    ASSUME TypeOK, NEW w \in Workers, Starting(w), Advance(w)
    PROVE  /\ at' \in [Workers -> 0..Up] /\ at'[w] = at[w] + 1 /\ at[w] \in 1..108
           /\ \A v \in Workers : v # w => at'[v] = at[v]
<1>1. at[w] \in 1..108 /\ Up = 109
  BY TypeIs
<1>2. at \in [Workers -> 0..109]
  BY <1>1 DEF TypeOK
<1>3. at' = [at EXCEPT ![w] = at[w] + 1]
  BY DEF Advance
<1>4. at[w] + 1 \in 0..109
  BY <1>1
<1>5. QED
  BY <1>1, <1>2, <1>3, <1>4

\* No test, commit, backup or connection in the middle of the rebuild.
LEMMA NotInRebuild ==
    ASSUME NEW i \in 1..108, Program[i].op \notin DdlOps \cup DmlOps
    PROVE  i \notin 102..105
  BY Listing DEF Create, InsertAs, Carry, Drop, Rename, DdlOps, DmlOps

\* A start.
LEMMA StartUpStep ==
    ASSUME IInv, NEW w \in Workers, StartUp(w)
    PROVE  IInv'
<1>1. /\ at[w] = 0 /\ at' = [at EXCEPT ![w] = 1]
      /\ db' = db /\ pending' = pending /\ writer' = writer /\ fk' = fk
      /\ backups' = backups /\ facts' = facts /\ failed' = failed
  BY DEF StartUp
<1>2. TypeOK /\ DataInv /\ OwnDuty(w) /\ at \in [Workers -> 0..109] /\ Up = 109
  BY TypeIs DEF IInv, TypeOK
<1>3. at'[w] = 1 /\ \A v \in Workers : v # w => at'[v] = at[v]
  BY <1>1, <1>2
<1>4. TypeOK'
  <2>1. at' \in [Workers -> 0..Up]
    BY <1>1, <1>2
  <2>2. QED
    BY <1>1, <1>2, <2>1 DEF TypeOK
<1>5. DataInv'
  <2>1. writer # None => writer \in Workers
    BY <1>2 DEF TypeOK
  <2>2. writer # None /\ at[writer] \in 103..105 => at'[writer] \in 103..105
    BY <1>1, <1>3, <2>1
  <2>3. QED
    BY <1>1, <1>2, <2>2 DEF DataInv
<1>6. OwnDuty(w)'
  <2>1. View(w)' = View(w)
    BY <1>1 DEF View
  <2>2. Duty(at[w], w, writer, View(w), fk[w], facts, backups)
    BY <1>2 DEF OwnDuty
  <2>3. at[w] \in 0..109 /\ 1 \in 0..109 /\ Quiet(at[w], 1)
    BY <1>1 DEF Quiet, Tight, Lasting
  <2>4. Shrunk(View(w), View(w)) /\ backups \subseteq backups
    BY DEF Shrunk
  <2>5. Duty(1, w, writer, View(w), fk[w], facts, backups)
    BY <2>2, <2>3, <2>4, QuietStep
  <2>6. QED
    BY <1>1, <1>3, <2>1, <2>5 DEF OwnDuty
<1>7. QED
  BY <1>1, <1>3, <1>4, <1>5, <1>6, Lift DEF Shrunk

\* A test.
LEMMA BranchStep ==
    ASSUME IInv, NEW w \in Workers, Branch(w)
    PROVE  IInv'
<1> DEFINE s == Statement(w)
           j == at[w] + 1 + IF Holds(s.cond, View(w)) THEN 0 ELSE s.skip
<1>1. /\ Starting(w) /\ s.op = "if" /\ at' = [at EXCEPT ![w] = j]
      /\ db' = db /\ pending' = pending /\ writer' = writer /\ fk' = fk
      /\ backups' = backups /\ facts' = facts /\ failed' = failed
  BY DEF Branch
<1>2. /\ TypeOK /\ DataInv /\ OwnDuty(w) /\ at \in [Workers -> 0..109] /\ Up = 109
      /\ at[w] \in 1..108 /\ db \in Databases
  BY <1>1, TypeIs DEF IInv, TypeOK
<1>3. s = Program[at[w]]
  BY DEF Statement
<1>4. Duty(j, w, writer, View(w), fk[w], facts, backups) /\ j \in 0..109
  <2>1. Duty(at[w], w, writer, View(w), fk[w], facts, backups)
    BY <1>2 DEF OwnDuty
  <2>2. View(w) \in Databases /\ Sound(View(w)) /\ Kept(View(w), facts, backups)
    BY ViewIs
  <2> HIDE DEF s
  <2>3. /\ at[w] + 1 \in 0..109 /\ at[w] + 1 + s.skip \in 0..109
        /\ Holds(s.cond, View(w)) => Duty(at[w] + 1, w, writer, View(w), fk[w], facts, backups)
        /\ ~Holds(s.cond, View(w)) =>
              Duty(at[w] + 1 + s.skip, w, writer, View(w), fk[w], facts, backups)
    BY <1>1, <1>2, <1>3, <2>1, <2>2, TestBoth
  <2>4. CASE Holds(s.cond, View(w))
    <3>1. j = at[w] + 1
      BY <1>2, <2>4
    <3>2. QED
      BY <2>3, <2>4, <3>1
  <2>5. CASE ~Holds(s.cond, View(w))
    <3>1. j = at[w] + 1 + s.skip
      BY <1>2, <2>5
    <3>2. QED
      BY <2>3, <2>5, <3>1
  <2>6. QED
    BY <2>4, <2>5
<1> HIDE DEF j
<1>5. at'[w] = j /\ \A v \in Workers : v # w => at'[v] = at[v]
  BY <1>1, <1>2
<1>6. TypeOK'
  <2>1. at' \in [Workers -> 0..Up]
    BY <1>1, <1>2, <1>4
  <2>2. QED
    BY <1>1, <1>2, <2>1 DEF TypeOK
<1>7. DataInv'
  <2>1. writer # None => writer \in Workers
    BY <1>2 DEF TypeOK
  <2>2. at[w] \notin 102..105
    BY <1>1, <1>2, <1>3, NotInRebuild DEF DdlOps, DmlOps
  <2>3. writer # None /\ at[writer] \in 103..105 => at'[writer] \in 103..105
    BY <1>5, <2>1, <2>2
  <2>4. QED
    BY <1>1, <1>2, <2>3 DEF DataInv
<1>8. OwnDuty(w)'
  <2>1. View(w)' = View(w)
    BY <1>1 DEF View
  <2>2. QED
    BY <1>1, <1>4, <1>5, <2>1 DEF OwnDuty
<1>9. QED
  BY <1>1, <1>5, <1>6, <1>7, <1>8, Lift DEF Shrunk

\* CREATE, ALTER, DROP, the script and the stamp: in the open transaction of the
\* worker, or committed at once.
LEMMA DdlStep ==
    ASSUME IInv, NEW w \in Workers, Ddl(w)
    PROVE  IInv'
<1> DEFINE s == Statement(w)
           d == View(w)
           e == Result(s, d, fk[w])
<1>1. /\ Starting(w) /\ s.op \in DdlOps /\ MayWrite(w) /\ Legal(s, d)
      /\ IF writer = w THEN pending' = e /\ db' = db ELSE db' = e /\ pending' = pending
      /\ Advance(w)
      /\ writer' = writer /\ fk' = fk /\ backups' = backups /\ facts' = facts /\ failed' = failed
  BY DEF Ddl
<1>2. /\ TypeOK /\ DataInv /\ OwnDuty(w) /\ at[w] \in 1..108 /\ w # None
  BY <1>1, TypeIs DEF IInv
<1>3. at' \in [Workers -> 0..Up] /\ at'[w] = at[w] + 1 /\ \A v \in Workers : v # w => at'[v] = at[v]
  BY <1>1, <1>2, AdvanceIs
<1>4. s = Program[at[w]]
  BY DEF Statement
<1>5. /\ d \in Databases /\ Sound(d) /\ Kept(d, facts, backups) /\ Shrunk(db, d)
      /\ Fresh(d) \/ (writer = w /\ at[w] \in 103..105)
  BY ViewIs
<1>6. Duty(at[w], w, writer, d, fk[w], facts, backups)
  BY <1>2 DEF OwnDuty
<1>7. Right(at[w], w, writer, writer, d, e, fk[w], facts, backups)
  BY <1>1, <1>2, <1>4, <1>5, <1>6, WriteRight
<1>8. writer = w => d = pending
  BY DEF View
<1>9. writer # w => d = db /\ writer = None
  BY <1>1 DEF View, MayWrite
<1>10. at[w] \in 102..106 => writer = w
  BY <1>6 DEF Duty, Owed
<1> HIDE DEF s, d, e
<1>11. /\ e \in Databases /\ Sound(e) /\ Shrunk(d, e) /\ Kept(e, facts, backups)
       /\ Duty(at[w] + 1, w, writer, e, fk[w], facts, backups)
       /\ Fresh(d) /\ at[w] # 102 => Fresh(e)
       /\ at[w] = 105 => Fresh(e)
  BY <1>5, <1>7 DEF Right, Safe
<1>12. Shrunk(db, e)
  BY <1>5, <1>11 DEF Shrunk
<1>13. CASE writer = w
  <2>1. pending' = e /\ db' = db /\ writer' = w
    BY <1>1, <1>13
  <2>2. TypeOK'
    BY <1>1, <1>2, <1>3, <1>11, <2>1 DEF TypeOK
  <2>3. Fresh(e) \/ at'[w] \in 103..105
    BY <1>2, <1>3, <1>5, <1>11
  <2>4. DataInv'
    BY <1>1, <1>2, <1>11, <1>12, <2>1, <2>3 DEF DataInv
  <2>5. View(w)' = e
    BY <2>1 DEF View
  <2>6. OwnDuty(w)'
    BY <1>1, <1>3, <1>11, <1>13, <2>1, <2>5 DEF OwnDuty
  <2>7. QED
    BY <1>1, <1>3, <1>13, <2>1, <2>2, <2>4, <2>6, Lift DEF Shrunk
<1>14. CASE writer # w
  <2>1. db' = e /\ pending' = pending /\ writer' = None /\ writer = None /\ d = db
    BY <1>1, <1>9, <1>14
  <2>2. TypeOK'
    BY <1>1, <1>2, <1>3, <1>11, <2>1 DEF TypeOK
  <2>3. Fresh(e)
    BY <1>5, <1>10, <1>11, <1>14
  <2>4. DataInv'
    BY <1>1, <1>11, <2>1, <2>3 DEF DataInv
  <2>5. View(w)' = e
    BY <1>2, <2>1 DEF View
  <2>6. OwnDuty(w)'
    BY <1>1, <1>3, <1>11, <2>1, <2>5 DEF OwnDuty
  <2>7. QED
    BY <1>1, <1>3, <1>12, <2>1, <2>2, <2>4, <2>6, Lift
<1>15. QED
  BY <1>13, <1>14

\* INSERT, UPDATE and DELETE: in a transaction, which they open.
LEMMA DmlStep ==
    ASSUME IInv, NEW w \in Workers, Dml(w)
    PROVE  IInv'
<1> DEFINE s == Statement(w)
           d == View(w)
           e == Result(s, d, fk[w])
<1>1. /\ Starting(w) /\ s.op \in DmlOps /\ MayWrite(w) /\ Legal(s, d)
      /\ writer' = w /\ pending' = e
      /\ Advance(w)
      /\ db' = db /\ fk' = fk /\ backups' = backups /\ facts' = facts /\ failed' = failed
  BY DEF Dml
<1>2. /\ TypeOK /\ DataInv /\ OwnDuty(w) /\ at[w] \in 1..108 /\ w # None
  BY <1>1, TypeIs DEF IInv
<1>3. at' \in [Workers -> 0..Up] /\ at'[w] = at[w] + 1 /\ \A v \in Workers : v # w => at'[v] = at[v]
  BY <1>1, <1>2, AdvanceIs
<1>4. s = Program[at[w]]
  BY DEF Statement
<1>5. /\ d \in Databases /\ Sound(d) /\ Kept(d, facts, backups) /\ Shrunk(db, d)
      /\ Fresh(d) \/ (writer = w /\ at[w] \in 103..105)
  BY ViewIs
<1>6. Duty(at[w], w, writer, d, fk[w], facts, backups)
  BY <1>2 DEF OwnDuty
<1>7. Right(at[w], w, writer, w, d, e, fk[w], facts, backups)
  BY <1>1, <1>2, <1>4, <1>5, <1>6, WriteRight
<1>8. writer \in {None, w}
  BY <1>1 DEF MayWrite
<1> HIDE DEF s, d, e
<1>9. /\ e \in Databases /\ Sound(e) /\ Shrunk(d, e) /\ Kept(e, facts, backups)
      /\ Duty(at[w] + 1, w, w, e, fk[w], facts, backups)
      /\ Fresh(d) /\ at[w] # 102 => Fresh(e)
      /\ at[w] = 105 => Fresh(e)
  BY <1>5, <1>7 DEF Right, Safe
<1>10. Shrunk(db, e)
  BY <1>5, <1>9 DEF Shrunk
<1>11. TypeOK'
  BY <1>1, <1>2, <1>3, <1>9 DEF TypeOK
<1>12. Fresh(e) \/ at'[w] \in 103..105
  BY <1>2, <1>3, <1>5, <1>9
<1>13. DataInv'
  BY <1>1, <1>2, <1>9, <1>10, <1>12 DEF DataInv
<1>14. OwnDuty(w)'
  <2>1. View(w)' = e
    BY <1>1 DEF View
  <2>2. QED
    BY <1>1, <1>3, <1>9, <2>1 DEF OwnDuty
<1>15. \A v \in Workers : v # w => (writer = v <=> writer' = v) /\ writer # v
  BY <1>1, <1>8, TypeIs, <1>2
<1>16. QED
  BY <1>1, <1>3, <1>11, <1>13, <1>14, <1>15, Lift DEF Shrunk

\* BEGIN, of the rebuild.
LEMMA BeginStep ==
    ASSUME IInv, NEW w \in Workers, BeginTransaction(w)
    PROVE  IInv'
<1>1. /\ Starting(w) /\ Statement(w).op = "begin" /\ writer = None
      /\ writer' = w /\ pending' = db /\ Advance(w)
      /\ db' = db /\ fk' = fk /\ backups' = backups /\ facts' = facts /\ failed' = failed
  BY DEF BeginTransaction
<1>2. /\ TypeOK /\ DataInv /\ OwnDuty(w) /\ at[w] \in 1..108 /\ w # None /\ None \notin Workers
  BY <1>1, TypeIs DEF IInv
<1>3. at' \in [Workers -> 0..Up] /\ at'[w] = at[w] + 1 /\ \A v \in Workers : v # w => at'[v] = at[v]
  BY <1>1, <1>2, AdvanceIs
<1>4. at[w] = 101
  BY <1>1, <1>2, Fitting DEF Fits, Statement
<1>5. View(w) = db /\ View(w)' = db
  BY <1>1, <1>2 DEF View
<1>6. TypeOK'
  BY <1>1, <1>2, <1>3 DEF TypeOK
<1>7. DataInv'
  BY <1>1, <1>2 DEF DataInv, Shrunk
<1>8. OwnDuty(w)'
  <2>1. Owed(at[w], w, writer, db, fk[w], facts, backups) /\ Lasts(at[w], db, facts, backups)
    BY <1>2, <1>5 DEF OwnDuty, Duty
  <2>2. Owed(at[w] + 1, w, w, db, fk[w], facts, backups)
    BY <1>4, <2>1 DEF Owed
  <2>3. Lasts(at[w] + 1, db, facts, backups)
    BY <1>2, <1>4, <2>1, LastNext DEF Shrunk
  <2>4. QED
    BY <1>1, <1>3, <1>5, <2>2, <2>3 DEF OwnDuty, Duty
<1>9. \A v \in Workers : v # w => (writer = v <=> writer' = v) /\ writer # v
  BY <1>1, <1>2
<1>10. QED
  BY <1>1, <1>3, <1>6, <1>7, <1>8, <1>9, Lift DEF Shrunk

\* More backups lose nothing.
LEMMA KeptMore ==
    ASSUME NEW d, NEW F, NEW B, NEW C, Kept(d, F, B), B \subseteq C
    PROVE  Kept(d, F, C)
  BY DEF Kept

\* COMMIT: what the worker sees is committed.
LEMMA CommitStep ==
    ASSUME IInv, NEW w \in Workers, CommitTransaction(w)
    PROVE  IInv'
<1> DEFINE s == Statement(w)
           d == View(w)
<1>1. /\ Starting(w) /\ s.op = "commit" /\ db' = d
      /\ IF writer = w THEN writer' = None /\ pending' = None
                       ELSE writer' = writer /\ pending' = pending
      /\ Advance(w)
      /\ fk' = fk /\ backups' = backups /\ facts' = facts /\ failed' = failed
  BY DEF CommitTransaction
<1>2. /\ TypeOK /\ DataInv /\ OwnDuty(w) /\ at[w] \in 1..108 /\ w # None
  BY <1>1, TypeIs DEF IInv
<1>3. at' \in [Workers -> 0..Up] /\ at'[w] = at[w] + 1 /\ \A v \in Workers : v # w => at'[v] = at[v]
  BY <1>1, <1>2, AdvanceIs
<1>4. s = Program[at[w]]
  BY DEF Statement
<1>5. /\ d \in Databases /\ Sound(d) /\ Kept(d, facts, backups) /\ Shrunk(db, d)
      /\ Fresh(d) \/ (writer = w /\ at[w] \in 103..105)
  BY ViewIs
<1>6. Duty(at[w], w, writer, d, fk[w], facts, backups)
  BY <1>2 DEF OwnDuty
<1>7. at[w] \in {5, 20, 31, 91, 95, 98, 106}
  <2>1. Fits(at[w], s)
    BY <1>2, <1>4, Fitting
  <2>2. QED
    BY <1>1, <2>1 DEF Fits
<1>8. writer # w => d = db
  BY DEF View
<1>9. writer' # w /\ View(w)' = d
  BY <1>1, <1>2 DEF View
<1> HIDE DEF s, d
<1>10. TypeOK'
  <2>1. IF writer' = None THEN pending' = None ELSE pending' \in Databases
    BY <1>1, <1>2 DEF TypeOK
  <2>2. writer' \in Workers \cup {None}
    BY <1>1, <1>2 DEF TypeOK
  <2>3. QED
    BY <1>1, <1>2, <1>3, <1>5, <2>1, <2>2 DEF TypeOK
<1>11. DataInv'
  <2>1. Fresh(d)
    BY <1>5, <1>7
  <2>2. writer' # None => writer' = writer /\ writer # w /\ writer # None /\ writer \in Workers
    BY <1>1, <1>2, <1>9 DEF TypeOK
  <2>3. writer' # None => pending' = pending /\ db' = db /\ at'[writer] = at[writer]
    BY <1>1, <1>3, <1>8, <2>2
  <2>4. QED
    BY <1>1, <1>2, <1>5, <2>1, <2>2, <2>3 DEF DataInv
<1>12. Duty(at[w] + 1, w, writer', d, fk[w], facts, backups)
  <2>1. Owed(at[w], w, writer, d, fk[w], facts, backups) /\ Lasts(at[w], d, facts, backups)
    BY <1>6 DEF Duty
  <2>2. Owed(at[w] + 1, w, writer', d, fk[w], facts, backups)
    <3>1. at[w] \in {98, 106} => at[w] + 1 \in {99, 107}
      OBVIOUS
    <3>2. at[w] \notin {98, 106} => at[w] + 1 \notin Tight /\ at[w] + 1 \in 0..109
      BY <1>7 DEF Tight
    <3>3. CASE at[w] \in {98, 106}
      BY <1>9, <3>1, <3>3 DEF Owed
    <3>4. CASE at[w] \notin {98, 106}
      BY <3>2, <3>4, NothingOwed
    <3>5. QED
      BY <3>3, <3>4
  <2>3. Lasts(at[w] + 1, d, facts, backups)
    <3>1. at[w] \notin {16, 22, 34, 48, 52, 93, 97} /\ Shrunk(d, d)
      BY <1>7 DEF Shrunk
    <3>2. QED
      BY <1>2, <2>1, <3>1, LastNext
  <2>4. QED
    BY <2>2, <2>3 DEF Duty
<1>13. OwnDuty(w)'
  BY <1>1, <1>3, <1>9, <1>12 DEF OwnDuty
<1>14. \A v \in Workers : v # w => (writer = v <=> writer' = v) /\ (writer = v => pending' = pending)
  BY <1>1, TypeIs, <1>2
<1>15. QED
  BY <1>1, <1>3, <1>5, <1>10, <1>11, <1>13, <1>14, Lift

\* Another connection: an open transaction is rolled back.
LEMMA OpenStep ==
    ASSUME IInv, NEW w \in Workers, OpenConnection(w)
    PROVE  IInv'
<1> DEFINE s == Statement(w)
<1>1. /\ Starting(w) /\ s.op = "connect" /\ db' = db
      /\ IF writer = w THEN writer' = None /\ pending' = None
                       ELSE writer' = writer /\ pending' = pending
      /\ Advance(w) /\ fk' = [fk EXCEPT ![w] = s.fk]
      /\ backups' = backups /\ facts' = facts /\ failed' = failed
  BY DEF OpenConnection
<1>2. /\ TypeOK /\ DataInv /\ OwnDuty(w) /\ at[w] \in 1..108 /\ w # None
  BY <1>1, TypeIs DEF IInv
<1>3. at' \in [Workers -> 0..Up] /\ at'[w] = at[w] + 1 /\ \A v \in Workers : v # w => at'[v] = at[v]
  BY <1>1, <1>2, AdvanceIs
<1>4. s = Program[at[w]]
  BY DEF Statement
<1>5. at[w] \in {1, 3, 99, 107} /\ s.fk \in BOOLEAN /\ (at[w] = 99 => s.fk = FALSE)
  <2>1. Fits(at[w], s)
    BY <1>2, <1>4, Fitting
  <2>2. QED
    BY <1>1, <2>1 DEF Fits
<1>6. Owed(at[w], w, writer, View(w), fk[w], facts, backups)
      /\ Lasts(at[w], View(w), facts, backups)
  BY <1>2 DEF OwnDuty, Duty
<1>7. writer' # w /\ View(w)' = db
  BY <1>1, <1>2 DEF View
<1>8. at[w] \in {99, 107} => writer # w /\ View(w) = db
  BY <1>6 DEF Owed, View
<1> HIDE DEF s
<1>9. /\ fk' \in [Workers -> BOOLEAN] /\ fk'[w] = s.fk
      /\ \A v \in Workers : v # w => fk'[v] = fk[v]
  BY <1>1, <1>2, <1>5 DEF TypeOK
<1>10. TypeOK'
  <2>1. IF writer' = None THEN pending' = None ELSE pending' \in Databases
    BY <1>1, <1>2 DEF TypeOK
  <2>2. writer' \in Workers \cup {None}
    BY <1>1, <1>2 DEF TypeOK
  <2>3. QED
    BY <1>1, <1>2, <1>3, <1>9, <2>1, <2>2 DEF TypeOK
<1>11. DataInv'
  <2>1. writer' # None => writer' = writer /\ writer # w /\ writer # None /\ writer \in Workers
    BY <1>1, <1>2, <1>7 DEF TypeOK
  <2>2. writer' # None => pending' = pending /\ at'[writer] = at[writer]
    BY <1>1, <1>3, <2>1
  <2>3. QED
    BY <1>1, <1>2, <2>1, <2>2 DEF DataInv
<1>12. Duty(at[w] + 1, w, writer', db, s.fk, facts, backups)
  <2>1. CASE at[w] \in {1, 3}
    <3>1. at[w] + 1 \in {2, 4}
      BY <2>1
    <3>2. QED
      BY <3>1 DEF Duty, Owed, Lasts
  <2>2. CASE at[w] \in {99, 107}
    <3>1. Lasts(at[w] + 1, db, facts, backups)
      <4>1. at[w] \notin {16, 22, 34, 48, 52, 93, 97} /\ Shrunk(db, db)
        BY <2>2 DEF Shrunk
      <4>2. QED
        BY <1>2, <1>6, <1>8, <2>2, <4>1, LastNext
    <3>2. at[w] + 1 \in {100, 108} /\ (at[w] + 1 = 100 => s.fk = FALSE)
      BY <1>5, <2>2
    <3>3. Owed(at[w] + 1, w, writer', db, s.fk, facts, backups)
      BY <1>7, <3>2 DEF Owed
    <3>4. QED
      BY <3>1, <3>3 DEF Duty
  <2>3. QED
    BY <1>5, <2>1, <2>2
<1>13. OwnDuty(w)'
  BY <1>1, <1>3, <1>7, <1>9, <1>12 DEF OwnDuty
<1>14. \A v \in Workers : v # w => (writer = v <=> writer' = v) /\ (writer = v => pending' = pending)
  BY <1>1, TypeIs, <1>2
<1>15. QED
  BY <1>1, <1>3, <1>9, <1>10, <1>11, <1>13, <1>14, Lift DEF Shrunk

\* A backup: every row that is committed is in it.
LEMMA BackupStep ==
    ASSUME IInv, NEW w \in Workers, BackupFile(w)
    PROVE  IInv'
<1> DEFINE s == Statement(w)
           copy == UNION {db.rows[n] : n \in Names}
<1>1. /\ Starting(w) /\ s.op = "backup" /\ backups' = backups \cup {copy} /\ Advance(w)
      /\ db' = db /\ pending' = pending /\ writer' = writer /\ fk' = fk
      /\ facts' = facts /\ failed' = failed
  BY DEF BackupFile
<1>2. /\ TypeOK /\ DataInv /\ OwnDuty(w) /\ at[w] \in 1..108 /\ w # None /\ db \in Databases
  BY <1>1, TypeIs DEF IInv, TypeOK
<1>3. at' \in [Workers -> 0..Up] /\ at'[w] = at[w] + 1 /\ \A v \in Workers : v # w => at'[v] = at[v]
  BY <1>1, <1>2, AdvanceIs
<1>4. s = Program[at[w]]
  BY DEF Statement
<1>5. at[w] \in {6, 21, 32, 92, 96}
  <2>1. Fits(at[w], s)
    BY <1>2, <1>4, Fitting
  <2>2. QED
    BY <1>1, <2>1 DEF Fits
<1>6. copy \subseteq Rows /\ \A n \in Names : db.rows[n] \subseteq copy
  BY <1>2 DEF Databases
<1> HIDE DEF s, copy
<1>7. TypeOK'
  <2>1. backups' \subseteq SUBSET Rows
    BY <1>1, <1>2, <1>6 DEF TypeOK
  <2>2. QED
    BY <1>1, <1>2, <1>3, <2>1 DEF TypeOK
<1>8. backups \subseteq backups'
  BY <1>1
<1>9. DataInv'
  <2>1. writer # None => writer \in Workers
    BY <1>2 DEF TypeOK
  <2>2. writer # None /\ at[writer] \in 103..105 => at'[writer] \in 103..105
    BY <1>3, <1>5, <2>1
  <2>3. Kept(db, facts, backups') /\ (writer # None => Kept(pending, facts, backups'))
    BY <1>2, <1>8, KeptMore DEF DataInv
  <2>4. QED
    BY <1>1, <1>2, <2>2, <2>3 DEF DataInv
<1>10. \A r \in Retired : Saved(r, facts, backups')
  <2>1. ASSUME NEW r \in Retired, r \in facts PROVE \E b \in backups' : r \in b
    <3>1. r \notin Discarded
      BY <2>1 DEF Retired, Discarded
    <3>2. QED
      BY <1>1, <1>2, <1>6, <2>1, <3>1 DEF DataInv, Kept
  <2>2. QED
    BY <2>1 DEF Saved
<1>11. View(w)' = View(w)
  BY <1>1 DEF View
<1>12. Duty(at[w] + 1, w, writer, View(w), fk[w], facts, backups')
  <2>1. Owed(at[w] + 1, w, writer, View(w), fk[w], facts, backups')
    BY <1>5, <1>10 DEF Owed
  <2>2. Lasts(at[w], View(w), facts, backups)
    BY <1>2 DEF OwnDuty, Duty
  <2>3. Lasts(at[w], View(w), facts, backups')
    BY <1>8, <2>2 DEF Lasts, Saved
  <2>4. at[w] \notin {16, 22, 34, 48, 52, 93, 97} /\ Shrunk(View(w), View(w))
    BY <1>5 DEF Shrunk
  <2>5. Lasts(at[w] + 1, View(w), facts, backups')
    BY <1>2, <2>3, <2>4, LastNext
  <2>6. QED
    BY <2>1, <2>5 DEF Duty
<1>13. OwnDuty(w)'
  BY <1>1, <1>3, <1>11, <1>12 DEF OwnDuty
<1>14. QED
  BY <1>1, <1>3, <1>7, <1>8, <1>9, <1>13, Lift DEF Shrunk

\* A worker goes down, whatever brings it down.
LEMMA FallStep ==
    ASSUME IInv, NEW w \in Workers, Fall(w), failed' \in BOOLEAN
    PROVE  IInv'
<1>1. /\ at' = [at EXCEPT ![w] = 0]
      /\ IF writer = w THEN writer' = None /\ pending' = None
                       ELSE writer' = writer /\ pending' = pending
      /\ db' = db /\ fk' = fk /\ backups' = backups /\ facts' = facts
  BY DEF Fall
<1>2. /\ TypeOK /\ DataInv /\ OwnDuty(w) /\ w # None /\ None \notin Workers
      /\ at \in [Workers -> 0..109] /\ Up = 109
  BY TypeIs DEF IInv, TypeOK
<1>3. at'[w] = 0 /\ \A v \in Workers : v # w => at'[v] = at[v]
  BY <1>1, <1>2
<1>4. TypeOK'
  <2>1. IF writer' = None THEN pending' = None ELSE pending' \in Databases
    BY <1>1, <1>2 DEF TypeOK
  <2>2. writer' \in Workers \cup {None}
    BY <1>1, <1>2 DEF TypeOK
  <2>3. at' \in [Workers -> 0..Up]
    BY <1>1, <1>2
  <2>4. QED
    BY <1>1, <1>2, <2>1, <2>2, <2>3 DEF TypeOK
<1>5. DataInv'
  <2>1. writer' # None => writer' = writer /\ writer # w /\ writer # None /\ writer \in Workers
    BY <1>1, <1>2 DEF TypeOK
  <2>2. writer' # None => pending' = pending /\ at'[writer] = at[writer]
    BY <1>1, <1>3, <2>1
  <2>3. QED
    BY <1>1, <1>2, <2>1, <2>2 DEF DataInv
<1>6. OwnDuty(w)'
  BY <1>3, DownStep DEF OwnDuty
<1>7. \A v \in Workers : v # w => (writer = v <=> writer' = v) /\ (writer = v => pending' = pending)
  BY <1>1, <1>2
<1>8. QED
  BY <1>1, <1>3, <1>4, <1>5, <1>6, <1>7, Lift DEF Shrunk

\* A database as it arrives, of whatever version and however full.
LEMMA Start ==
    ASSUME Init
    PROVE  IInv
<1>1. PICK v \in Vintages, firstCut \in BOOLEAN :
        /\ facts \in Fillings(v)
        /\ db = [ shape |-> [n \in Names |-> ShapeAt(n, v, firstCut)],
                  rows |-> [n \in Names |-> {r \in facts : n \in Places(r, v)}],
                  version |-> v ]
  BY DEF Init
<1>2. /\ pending = None /\ writer = None /\ at = [w \in Workers |-> 0]
      /\ fk = [w \in Workers |-> TRUE] /\ backups = {} /\ failed = FALSE
  BY DEF Init
<1>3. facts \subseteq Rows /\ \A r \in facts : Places(r, v) # {}
  BY <1>1 DEF Fillings
<1>4. ASSUME NEW n \in Names PROVE ShapeAt(n, v, firstCut) \in Shapes
  BY DEF ShapeAt, Shapes
<1>5. v \in 0..SchemaVersion
  BY ConstantsOK
<1>6. /\ db \in Databases
      /\ \A n \in Names : /\ db.shape[n] = ShapeAt(n, v, firstCut)
                          /\ db.rows[n] = {r \in facts : n \in Places(r, v)}
  <2> DEFINE sh == [n \in Names |-> ShapeAt(n, v, firstCut)]
             rw == [n \in Names |-> {r \in facts : n \in Places(r, v)}]
  <2>1. sh \in [Names -> Shapes]
    BY <1>4
  <2>2. rw \in [Names -> SUBSET Rows]
    BY <1>3
  <2>3. /\ \A n \in Names : sh[n] = ShapeAt(n, v, firstCut)
        /\ \A n \in Names : rw[n] = {r \in facts : n \in Places(r, v)}
    OBVIOUS
  <2>4. db = [shape |-> sh, rows |-> rw, version |-> v]
    BY <1>1
  <2> HIDE DEF sh, rw
  <2>5. db \in Databases
    BY <1>5, <2>1, <2>2, <2>4 DEF Databases
  <2>6. QED
    BY <2>3, <2>4, <2>5
<1>7. TypeOK
  <2>1. fk \in [Workers -> BOOLEAN]
    BY <1>2
  <2>2. at \in [Workers -> 0..Up]
    BY <1>2, ProgramLength
  <2>3. backups \subseteq SUBSET Rows /\ failed \in BOOLEAN
    BY <1>2
  <2>4. QED
    BY <1>2, <1>3, <1>6, <2>1, <2>2, <2>3 DEF TypeOK
<1>8. ASSUME NEW n \in Names, NEW r \in facts, n \in Places(r, v)
      PROVE  r \in Homed(n) /\ ShapeAt(n, v, firstCut) # "absent"
  <2>1. n = r \/ (r \in DOMAIN Former /\ n = Former[r])
    BY <1>8 DEF Places
  <2>2. r \in Homed(n)
    BY <1>3, <2>1 DEF Homed
  <2>3. Lived(n, v)
    BY <1>8 DEF Places
  <2>4. QED
    BY <2>2, <2>3 DEF ShapeAt
<1>9. Sound(db)
  BY <1>6, <1>8 DEF Sound
<1>10. Kept(db, facts, backups)
  <2>1. ASSUME NEW r \in facts PROVE \E n \in Names : r \in db.rows[n]
    <3>1. PICK n : n \in Places(r, v)
      BY <1>3
    <3>2. n \in Names
      <4>1. n = r \/ (r \in DOMAIN Former /\ n = Former[r])
        BY <3>1 DEF Places
      <4>2. Rows \subseteq Names
        BY RowsAre, NamesAre DEF Moving, Retired, Discarded
      <4>3. QED
        BY <1>3, <4>1, <4>2, FormerIs
    <3>3. QED
      BY <1>6, <3>1, <3>2
  <2>2. QED
    BY <2>1 DEF Kept
<1>11. Fresh(db)
  <2>1. Life["job_works_rebuilt"] = <<0, 0>> /\ "job_works_rebuilt" \in Names
    BY DEF Life, Names
  <2>2. Life["job_works_rebuilt"][1] = 0 /\ Life["job_works_rebuilt"][2] = 0
    BY <2>1
  <2>3. ~Lived("job_works_rebuilt", v)
    BY <1>5, <2>2 DEF Lived, SchemaVersion
  <2>4. QED
    BY <1>6, <2>1, <2>3 DEF Fresh, ShapeAt
<1>12. \A w \in Workers : OwnDuty(w)
  BY <1>2, DownStep DEF OwnDuty
<1>13. QED
  BY <1>2, <1>7, <1>9, <1>10, <1>11, <1>12 DEF IInv, DataInv

\* Every step keeps the invariant.
LEMMA Step ==
    ASSUME IInv, [Next]_vars
    PROVE  IInv'
<1>1. CASE UNCHANGED vars
  BY <1>1 DEF vars, IInv, TypeOK, DataInv, OwnDuty, View
<1>2. CASE Next
  <2>1. PICK w \in Workers :
          \/ StartUp(w) \/ Branch(w) \/ Ddl(w) \/ Dml(w)
          \/ BeginTransaction(w) \/ CommitTransaction(w) \/ OpenConnection(w)
          \/ BackupFile(w) \/ Raise(w) \/ Crash(w) \/ Stop(w)
    BY <1>2 DEF Next
  <2>2. failed \in BOOLEAN
    BY DEF IInv, TypeOK
  <2>3. Raise(w) => Fall(w) /\ failed' \in BOOLEAN
    BY DEF Raise
  <2>4. Crash(w) \/ Stop(w) => Fall(w) /\ failed' \in BOOLEAN
    BY <2>2 DEF Crash, Stop
  <2>5. QED
    BY <2>1, <2>3, <2>4, StartUpStep, BranchStep, DdlStep, DmlStep, BeginStep,
       CommitStep, OpenStep, BackupStep, FallStep
<1>3. QED
  BY <1>1, <1>2

\* The invariant holds in every state.
LEMMA Invariance == Spec => []IInv
<1>1. Init => IInv
  BY Start
<1>2. IInv /\ [Next]_vars => IInv'
  BY Step
<1>3. QED
  BY <1>1, <1>2, PTL DEF Spec

-----------------------------------------------------------------------------
(* What follows.                                                           *)

\* Every variable keeps its type, and a transaction is open when it has a writer.
THEOREM TypesHold == Spec => []TypeOK
<1>1. IInv => TypeOK
  BY DEF IInv
<1>2. QED
  BY <1>1, Invariance, PTL

\* Whatever a start does and wherever it stops, every row the database arrived with
\* is still committed somewhere or, retired, in a backup, but for those of the columns
\* that are discarded by design: for any number of workers that migrate side by side
\* and die at any statement.
THEOREM NoRowIsLost == Spec => []NothingLost
<1>1. IInv => NothingLost
  BY DEF IInv, DataInv, Kept, NothingLost, InBackup
<1>2. QED
  BY <1>1, Invariance, PTL

\* Whenever a start is complete, the rows whose copy and DROP share a transaction
\* are where the current code reads them, and the retired ones are in a backup.
THEOREM AtomicMovesAreHome == Spec => []AtomicMovesHome
<1>1. ASSUME IInv, NEW w \in Workers, at[w] = Up, NEW r \in facts \cap Atomic
      PROVE  AtHome(r)
  <2>1. TypeOK /\ Sound(db) /\ Kept(db, facts, backups) /\ Fresh(db) /\ at[w] = 109
    BY <1>1, ProgramLength DEF IInv, DataInv
  <2>2. Owed(109, w, writer, View(w), fk[w], facts, backups) /\ Lasts(109, View(w), facts, backups)
    BY <1>1, <2>1 DEF IInv, OwnDuty, Duty
  <2>3. View(w) = db
    BY <2>2 DEF Owed, View
  <2>4. /\ db.rows["buyer_orders"] = {} /\ db.rows["quotation_details"] = {}
        /\ db.rows["proforma_details"] = {} /\ db.rows["job_works_rebuilt"] = {}
    BY <2>1, <2>2, <2>3, NamesAre DEF Lasts, Sound, Fresh
  <2>5. \A q \in Retired : Saved(q, facts, backups)
    BY <2>2 DEF Lasts, Retired
  <2>6. CASE r \in Retired
    BY <1>1, <2>5, <2>6 DEF AtHome, InBackup, Saved
  <2>7. CASE r \notin Retired
    <3>1. r \notin Discarded
      BY <1>1, <2>7 DEF Atomic, Discarded
    <3>2. PICK n \in Names : r \in db.rows[n]
      BY <1>1, <2>1, <2>7, <3>1 DEF Kept
    <3>3. r \in Homed(n)
      BY <2>1, <3>2 DEF Sound
    <3>4. r \in {"buyer_order_no", "quotation_containers", "proforma_containers",
                 "job_works", "job_work_items"}
      BY <1>1, <2>7 DEF Atomic
    <3>5. n = r
      BY <2>4, <3>2, <3>3, <3>4, HoldersAre
    <3>6. QED
      BY <2>7, <3>2, <3>5 DEF AtHome
  <2>8. QED
    BY <2>6, <2>7
<1>2. IInv => AtomicMovesHome
  BY <1>1 DEF AtomicMovesHome, Serving
<1>3. QED
  BY <1>2, Invariance, PTL

=============================================================================
