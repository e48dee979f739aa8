-------------------------- MODULE LeadsAndOrders_proofs --------------------------
(***************************************************************************)
(* What holds of two parts that share no state.                            *)
(*                                                                         *)
(* LeadConversion, for every set of workers, rows and persons: under any   *)
(* interleaving, a converted lead names a client that exists and names the *)
(* lead; and when the requests on one lead do not overlap, a lead has no   *)
(* client but the one it names, a conversion copies its contacts as they   *)
(* are, no party has two primary contacts and none leaves contacts behind. *)
(*                                                                         *)
(* Orders, for every set of users, designs and lines: production stays     *)
(* with the product it was reported for, has one row per design, and       *)
(* outlives the edits of its order; a form offers what is left to order or *)
(* to invoice, and submitting it never exceeds what was asked for.         *)
(***************************************************************************)
EXTENDS LeadConversion, Orders, Counting, SequenceTheorems

-----------------------------------------------------------------------------
(* Typing.                                                                 *)

Deleting == {"readLeadId", "delete"}

\* The locals a step is about to use have been assigned.
Shaped(r) ==
    /\ r.pc \in {"readContacts", "convert", "seed"} => r.lead \in LeadIds
    /\ r.pc = "seed" => r.client \in SupplierIds
    /\ r.pc \in {"attach"} \union Deleting => r.client \in BuyerIds
    /\ r.pc \in {"cards", "addContact", "setPrimary"} => ParentOf(r) \in Parents
    /\ r.pc \in {"addContact", "setPrimary"} => r.person \in Persons
ReqShape == \A w \in Workers : Shaped(req[w])

TInv == LeadTypeOK /\ ReqShape

\* The idle request is one.
LEMMA IdleType == Idle \in Request /\ Shaped(Idle)
BY DEF Idle, Request, Steps, Shaped, Deleting

\* A worker that goes on as a well-shaped request keeps all requests well-shaped.
LEMMA BecomeType ==
    ASSUME LeadTypeOK, ReqShape, NEW w \in Workers, NEW r \in Request, Shaped(r), Become(w, r)
    PROVE  req' \in [Workers -> Request] /\ ReqShape'
BY DEF LeadTypeOK, ReqShape, Become

\* So does one that is done.
LEMMA FinishType ==
    ASSUME LeadTypeOK, ReqShape, NEW w \in Workers, Finish(w)
    PROVE  req' \in [Workers -> Request] /\ ReqShape'
BY IdleType, BecomeType DEF Finish

\* Contact rows made from contact cards are typed.
LEMMA RowsForType ==
    ASSUME NEW parent \in Parents, NEW cards \in SUBSET Card
    PROVE  RowsFor(parent, cards) \subseteq Contact
BY DEF RowsFor, Card, Contact

\* What list_for returns are contact cards.
LEMMA CardsOfType ==
    ASSUME LeadTypeOK, NEW parent
    PROVE  CardsOf(parent) \in SUBSET Card
BY DEF CardsOf, LeadTypeOK, Card, Contact

\* The steps that write no table.
LEMMA QuietTInv ==
    ASSUME TInv, NEW w \in Workers, NEW r \in Request, Shaped(r), Become(w, r), UNCHANGED db
    PROVE  TInv'
BY BecomeType DEF TInv, LeadTypeOK, db

\* Every step keeps the types and the shape of the requests.
LEMMA TInvStep == TInv /\ [LeadNext]_leadVars => TInv'
<1> SUFFICES ASSUME TInv, [LeadNext]_leadVars
             PROVE  TInv'
  OBVIOUS
<1>t. LeadTypeOK /\ ReqShape
  BY DEF TInv
<1>0. ASSUME NEW w \in Workers
      PROVE  req[w] \in Request /\ Shaped(req[w])
  BY <1>t DEF LeadTypeOK, ReqShape
<1>1. ASSUME NEW w \in Workers, Finish(w), UNCHANGED <<lead, client>>,
             contacts' \subseteq Contact, attached' \subseteq BuyerIds
      PROVE  TInv'
  BY <1>1, <1>t, FinishType DEF TInv, LeadTypeOK
<1>2. ASSUME NEW w \in Workers, StartLead(w) \/ StartBuyer(w)
      PROVE  TInv'
  <2>1. PICK cards \in Forms, step \in {"insertLead", "insertBuyer"} :
           Become(w, [Idle EXCEPT !.pc = step, !.cards = cards])
    BY <1>2 DEF StartLead, StartBuyer
  <2> DEFINE r == [Idle EXCEPT !.pc = step, !.cards = cards]
  <2>2. cards \in SUBSET Card
    BY DEF Forms
  <2>3. r \in Request /\ Shaped(r)
    BY <2>1, <2>2 DEF Idle, Request, Steps, Shaped, Deleting
  <2>4. QED
    BY <1>2, <2>1, <2>3, QuietTInv DEF StartLead, StartBuyer
<1>3. ASSUME NEW w \in Workers, InsertLead(w)
      PROVE  TInv'
  <2>1. PICK l \in LeadIds :
          /\ lead' = [lead EXCEPT ![l] = [state |-> "live", client |-> Null]]
          /\ Become(w, [req[w] EXCEPT !.pc = "cards", !.lead = l])
    BY <1>3 DEF InsertLead
  <2> DEFINE r == [req[w] EXCEPT !.pc = "cards", !.lead = l]
  <2>2. r \in Request /\ Shaped(r)
    BY <1>0 DEF Request, Steps, Shaped, Deleting, ParentOf, Parents
  <2>3. lead' \in [LeadIds -> Lead]
    BY <1>t, <2>1 DEF LeadTypeOK, Lead
  <2>4. QED
    BY <1>3, <1>t, <2>1, <2>2, <2>3, BecomeType DEF InsertLead, TInv, LeadTypeOK
<1>4. ASSUME NEW w \in Workers, InsertBuyer(w)
      PROVE  TInv'
  <2>1. PICK b \in BuyerIds :
          /\ client' = [client EXCEPT ![b] = [state |-> "live", lead |-> Null]]
          /\ Become(w, [req[w] EXCEPT !.pc = "cards", !.client = b])
    BY <1>4 DEF InsertBuyer
  <2> DEFINE r == [req[w] EXCEPT !.pc = "cards", !.client = b]
  <2>2. r \in Request /\ Shaped(r)
    BY <1>0, IdsAssumption DEF Request, Steps, Shaped, Deleting, ParentOf, Parents, ClientIds
  <2>3. client' \in [ClientIds -> Client]
    BY <1>t, <2>1 DEF LeadTypeOK, Client
  <2>4. QED
    BY <1>4, <1>t, <2>1, <2>2, <2>3, BecomeType DEF InsertBuyer, TInv, LeadTypeOK
<1>5. ASSUME NEW w \in Workers, AddCard(w)
      PROVE  TInv'
  <2>1. CASE req[w].cards = {}
    BY <1>1, <1>5, <1>t, <2>1 DEF AddCard, LeadTypeOK
  <2>2. CASE req[w].cards # {}
    <3>1. PICK k \in req[w].cards :
            /\ contacts' = contacts \union RowsFor(ParentOf(req[w]), {k})
            /\ Become(w, [req[w] EXCEPT !.cards = req[w].cards \ {k}])
      BY <1>5, <2>2 DEF AddCard
    <3> DEFINE r == [req[w] EXCEPT !.cards = req[w].cards \ {k}]
    <3>2. r \in Request /\ Shaped(r)
      BY <1>0 DEF Request, Steps, Shaped, Deleting, ParentOf
    <3>3. ParentOf(req[w]) \in Parents /\ k \in Card
      BY <1>5, <1>0 DEF AddCard, Shaped, Request
    <3>4. contacts' \subseteq Contact
      BY <1>t, <3>1, <3>3, RowsForType DEF LeadTypeOK
    <3>5. QED
      BY <1>5, <1>t, <3>1, <3>2, <3>4, BecomeType DEF AddCard, TInv, LeadTypeOK
  <2>3. QED
    BY <2>1, <2>2
<1>6. ASSUME NEW w \in Workers, NEW l \in LeadIds, StartConvert(w, l)
      PROVE  TInv'
  <2>1. PICK to \in {"Buyer", "Supplier"} :
           Become(w, [Idle EXCEPT !.pc = "readContacts", !.lead = l, !.to = to])
    BY <1>6 DEF StartConvert
  <2> DEFINE r == [Idle EXCEPT !.pc = "readContacts", !.lead = l, !.to = to]
  <2>2. r \in Request /\ Shaped(r)
    BY DEF Idle, Request, Steps, Shaped, Deleting
  <2>3. QED
    BY <1>6, <2>1, <2>2, QuietTInv DEF StartConvert
<1>7. ASSUME NEW w \in Workers, ReadContacts(w)
      PROVE  TInv'
  <2> DEFINE cards == CardsOf(req[w].lead)
             r == [req[w] EXCEPT !.pc = "convert", !.cards = cards]
  <2>1. cards \in SUBSET Card
    BY <1>t, CardsOfType
  <2>2. Become(w, r)
    BY <1>7 DEF ReadContacts
  <2> HIDE DEF cards
  <2>3. r \in Request /\ Shaped(r)
    BY <1>7, <1>0, <2>1 DEF ReadContacts, Request, Steps, Shaped, Deleting
  <2>4. QED
    BY <1>7, <2>2, <2>3, QuietTInv DEF ReadContacts
<1>8. ASSUME NEW w \in Workers, ConvertFromLead(w)
      PROVE  TInv'
  <2> DEFINE l == req[w].lead
  <2>1. PICK c \in ClientIds :
          /\ client' = [client EXCEPT ![c] = [state |-> "live", lead |-> l]]
          /\ lead' = [lead EXCEPT ![l] = [state |-> "live", client |-> c]]
          /\ \/ c \in BuyerIds /\ contacts' = contacts \union RowsFor(c, req[w].cards) /\ Finish(w)
             \/ /\ c \in SupplierIds
                /\ Become(w, [req[w] EXCEPT !.pc = "seed", !.client = c]) /\ UNCHANGED contacts
    BY <1>8 DEF ConvertFromLead, CopiedRows, ClientIds
  <2>2. l \in LeadIds /\ req[w].cards \in SUBSET Card
    BY <1>8, <1>0 DEF ConvertFromLead, Shaped, Request
  <2>3. lead' \in [LeadIds -> Lead] /\ client' \in [ClientIds -> Client]
    BY <1>t, <2>1, <2>2 DEF LeadTypeOK, Lead, Client
  <2>4. UNCHANGED attached
    BY <1>8 DEF ConvertFromLead
  <2>5. CASE contacts' = contacts \union RowsFor(c, req[w].cards) /\ Finish(w)
    <3>1. contacts' \subseteq Contact
      BY <1>t, <2>2, <2>5, RowsForType DEF LeadTypeOK, Parents
    <3>2. QED
      BY <1>t, <2>3, <2>4, <2>5, <3>1, FinishType DEF TInv, LeadTypeOK
  <2>6. CASE /\ c \in SupplierIds
             /\ Become(w, [req[w] EXCEPT !.pc = "seed", !.client = c]) /\ UNCHANGED contacts
    <3> DEFINE r == [req[w] EXCEPT !.pc = "seed", !.client = c]
    <3>1. r \in Request /\ Shaped(r)
      BY <1>0, <2>2, <2>6 DEF Request, Steps, Shaped, Deleting, ClientIds
    <3>2. QED
      BY <1>t, <2>3, <2>4, <2>6, <3>1, BecomeType DEF TInv, LeadTypeOK
  <2>7. QED
    BY <2>1, <2>5, <2>6
<1>9. ASSUME NEW w \in Workers, SeedSupplier(w)
      PROVE  TInv'
  <2>1. contacts' \subseteq Contact
    <3>1. CASE req[w].cards = {}
      BY <1>9, <1>t, <3>1 DEF SeedSupplier, LeadTypeOK
    <3>2. CASE req[w].cards # {}
      <4>1. PICK p \in SeededPersons(req[w].cards) :
              contacts' = {r \in contacts : r.parent # req[w].client}
                            \union RowsFor(req[w].client, {[person |-> p, primary |-> TRUE]})
        BY <1>9, <3>2 DEF SeedSupplier
      <4>2. req[w].client \in Parents /\ req[w].cards \subseteq Card
        BY <1>9, <1>0 DEF SeedSupplier, Shaped, Parents, ClientIds, Request
      <4>3. p \in Persons
        BY <4>1, <4>2 DEF SeededPersons, Card
      <4>4. {[person |-> p, primary |-> TRUE]} \in SUBSET Card
        BY <4>3 DEF Card
      <4>5. QED
        BY <1>t, <4>1, <4>2, <4>4, RowsForType DEF LeadTypeOK
    <3>3. QED
      BY <3>1, <3>2
  <2>2. QED
    BY <1>1, <1>9, <1>t, <2>1 DEF SeedSupplier, LeadTypeOK
<1>10. ASSUME NEW w \in Workers, NEW l \in LeadIds \union {Null}, NEW b \in BuyerIds \union {Null},
              StartAdd(w, l, b)
       PROVE  TInv'
  <2>0. ParentOf([Idle EXCEPT !.lead = l, !.client = b]) \in Parents
    BY <1>10 DEF StartAdd, ParentOf, Idle, LiveLead, Parents, ClientIds
  <2>1. ASSUME NEW p \in Persons,
               Become(w, [Idle EXCEPT !.pc = "addContact", !.lead = l, !.client = b, !.person = p])
        PROVE  TInv'
    <3> DEFINE r == [Idle EXCEPT !.pc = "addContact", !.lead = l, !.client = b, !.person = p]
    <3>2. r \in Request /\ Shaped(r)
      BY <2>0 DEF Idle, Request, Steps, Shaped, Deleting, ParentOf, ClientIds
    <3>3. QED
      BY <1>10, <2>1, <3>2, QuietTInv DEF StartAdd
  <2>2. CASE b # Null /\ Become(w, [Idle EXCEPT !.pc = "attach", !.lead = l, !.client = b])
    <3> DEFINE r == [Idle EXCEPT !.pc = "attach", !.lead = l, !.client = b]
    <3>1. r \in Request /\ Shaped(r)
      BY <2>2 DEF Idle, Request, Steps, Shaped, Deleting, ClientIds
    <3>2. QED
      BY <1>10, <2>2, <3>1, QuietTInv DEF StartAdd
  <2>3. QED
    BY <1>10, <2>1, <2>2 DEF StartAdd
<1>11. ASSUME NEW w \in Workers, AddContact(w)
       PROVE  TInv'
  <2>1. ParentOf(req[w]) \in Parents /\ req[w].person \in Persons
    BY <1>11, <1>0 DEF AddContact, Shaped
  <2> DEFINE row == [parent |-> ParentOf(req[w]), person |-> req[w].person, primary |-> FALSE]
  <2>2. row \in Contact
    BY <2>1 DEF Contact
  <2>3. contacts' = contacts \/ contacts' = contacts \union {row}
    BY <1>11 DEF AddContact
  <2> HIDE DEF row
  <2>4. contacts' \subseteq Contact
    BY <1>t, <2>2, <2>3 DEF LeadTypeOK
  <2>5. QED
    BY <1>1, <1>11, <1>t, <2>4 DEF AddContact, LeadTypeOK
<1>12. ASSUME NEW w \in Workers, Attach(w)
       PROVE  TInv'
  BY <1>1, <1>12, <1>t, <1>0 DEF Attach, Shaped, LeadTypeOK
<1>13. ASSUME NEW w \in Workers, NEW l \in LeadIds \union {Null}, NEW b \in BuyerIds \union {Null},
              StartSetPrimary(w, l, b)
       PROVE  TInv'
  <2>1. PICK k \in CardsOf(IF b = Null THEN l ELSE b) :
           Become(w, [Idle EXCEPT !.pc = "setPrimary", !.lead = l, !.client = b,
                                  !.person = k.person])
    BY <1>13 DEF StartSetPrimary
  <2>2. k.person \in Persons
    BY <1>t, <2>1, CardsOfType DEF Card
  <2>3. ParentOf([Idle EXCEPT !.lead = l, !.client = b]) \in Parents
    BY <1>13 DEF StartSetPrimary, ParentOf, Idle, LiveLead, Parents, ClientIds
  <2> DEFINE r == [Idle EXCEPT !.pc = "setPrimary", !.lead = l, !.client = b,
                               !.person = k.person]
  <2>4. r \in Request /\ Shaped(r)
    BY <2>2, <2>3 DEF Idle, Request, Steps, Shaped, Deleting, ParentOf, ClientIds
  <2>5. QED
    BY <1>13, <2>1, <2>4, QuietTInv DEF StartSetPrimary
<1>14. ASSUME NEW w \in Workers, SetPrimary(w)
       PROVE  TInv'
  <2>1. contacts' \subseteq Contact
    <3> SUFFICES ASSUME NEW r \in contacts, NEW q \in BOOLEAN
                 PROVE  [r EXCEPT !.primary = q] \in Contact
      BY <1>14, <1>t DEF SetPrimary, LeadTypeOK, Contact
    <3>1. QED
      BY <1>t DEF LeadTypeOK, Contact
  <2>2. QED
    BY <1>1, <1>14, <1>t, <2>1 DEF SetPrimary, LeadTypeOK
<1>15. ASSUME NEW w \in Workers, NEW b \in BuyerIds, StartDelete(w, b)
       PROVE  TInv'
  <2> DEFINE r == [Idle EXCEPT !.pc = "readLeadId", !.lead = client[b].lead, !.client = b]
  <2>1. client[b].lead \in LeadIds \union {Null}
    BY <1>t DEF LeadTypeOK, Client, ClientIds
  <2>2. r \in Request /\ Shaped(r)
    BY <2>1 DEF Idle, Request, Steps, Shaped, Deleting, ClientIds
  <2>3. QED
    BY <1>15, <2>2, QuietTInv DEF StartDelete
<1>16. ASSUME NEW w \in Workers, ReadLeadId(w)
       PROVE  TInv'
  <2> DEFINE l == IF LiveClient(req[w].client) THEN client[req[w].client].lead ELSE Null
             r == [req[w] EXCEPT !.pc = "delete", !.lead = l]
  <2>1. l \in LeadIds \union {Null}
    BY <1>t DEF LiveClient, LeadTypeOK, Client
  <2>2. Become(w, r)
    BY <1>16 DEF ReadLeadId
  <2> HIDE DEF l
  <2>3. r \in Request /\ Shaped(r)
    BY <1>16, <1>0, <2>1 DEF ReadLeadId, Request, Steps, Shaped, Deleting
  <2>4. QED
    BY <1>16, <2>2, <2>3, QuietTInv DEF ReadLeadId
<1>17. ASSUME NEW w \in Workers, DeleteParty(w)
       PROVE  TInv'
  <2>1. lead' \in [LeadIds -> Lead]
    BY <1>17, <1>t, <1>0 DEF DeleteParty, LeadTypeOK, Lead, Request
  <2>2. client' \in [ClientIds -> Client]
    BY <1>17, <1>t, <1>0 DEF DeleteParty, LeadTypeOK, Client
  <2>3. contacts' \subseteq Contact /\ attached' \subseteq BuyerIds
    BY <1>17, <1>t DEF DeleteParty, LeadTypeOK
  <2>4. QED
    BY <1>17, <1>t, <2>1, <2>2, <2>3, FinishType DEF DeleteParty, TInv, LeadTypeOK
<1>18. ASSUME NEW w \in Workers, Abort(w)
       PROVE  TInv'
  BY <1>1, <1>18, <1>t DEF Abort, LeadTypeOK, db
<1>19. CASE UNCHANGED leadVars
  BY <1>19, <1>t DEF leadVars, TInv, LeadTypeOK, ReqShape
<1>20. QED
  BY <1>2, <1>3, <1>4, <1>5, <1>6, <1>7, <1>8, <1>9, <1>10, <1>11, <1>12, <1>13, <1>14, <1>15,
     <1>16, <1>17, <1>18, <1>19 DEF LeadNext, Start, Insert, Convert, Touch, Delete

\* They hold of the empty tables.
LEMMA InitTInv == LeadInit => TInv
<1>1. LeadInit => req \in [Workers -> Request] /\ ReqShape
  BY IdleType DEF LeadInit, ReqShape
<1>2. LeadInit => lead \in [LeadIds -> Lead] /\ client \in [ClientIds -> Client]
  BY DEF LeadInit, Lead, Client
<1>3. QED
  BY <1>1, <1>2 DEF LeadInit, TInv, LeadTypeOK

\* The tables hold rows of their columns' types.
THEOREM LeadTypeCorrect == LeadSpec => []LeadTypeOK
<1>1. TInv => LeadTypeOK
  BY DEF TInv
<1>2. QED
  BY <1>1, InitTInv, TInvStep, PTL DEF LeadSpec

-----------------------------------------------------------------------------
(* The lead and its client, under any interleaving.                        *)

\* A request that deletes a buyer knows its lead, if the buyer is still there.
DeleteKnows ==
    \A w \in Workers : req[w].pc \in Deleting =>
        /\ client[req[w].client].state # "unused"
        /\ LiveClient(req[w].client) => client[req[w].client].lead = req[w].lead

LinkInv == TInv /\ ConvertedClientLives /\ DeleteKnows

\* What the steps that touch no client row keep of DeleteKnows.
LEMMA DeleteKnowsStep ==
    ASSUME TInv, DeleteKnows, NEW w \in Workers, NEW r, Become(w, r),
           r.pc \in Deleting =>
               /\ client'[r.client].state # "unused"
               /\ client'[r.client].state = "live" => client'[r.client].lead = r.lead,
           \A c \in ClientIds : client[c].state # "unused" =>
               /\ client'[c].state # "unused"
               /\ client'[c].state = "live" => client[c].state = "live" /\ client'[c].lead = client[c].lead
    PROVE  DeleteKnows'
<1> SUFFICES ASSUME NEW v \in Workers, req'[v].pc \in Deleting
             PROVE  /\ client'[req'[v].client].state # "unused"
                    /\ client'[req'[v].client].state = "live" =>
                           client'[req'[v].client].lead = req'[v].lead
  BY DEF DeleteKnows, LiveClient
<1>1. CASE v = w
  BY <1>1 DEF Become, TInv, LeadTypeOK
<1>2. CASE v # w
  <2>1. req'[v] = req[v]
    BY <1>2 DEF Become, TInv, LeadTypeOK
  <2>2. req[v].client \in ClientIds
    BY <2>1 DEF TInv, ReqShape, Shaped, Deleting, ClientIds
  <2>3. QED
    BY <2>1, <2>2 DEF DeleteKnows, LiveClient
<1>3. QED
  BY <1>1, <1>2

\* Every step keeps the links between leads and clients, and what a delete knows.
LEMMA LinkInvStep == LinkInv /\ [LeadNext]_leadVars => LinkInv'
<1> SUFFICES ASSUME LinkInv, [LeadNext]_leadVars
             PROVE  ConvertedClientLives' /\ DeleteKnows'
  BY TInvStep DEF LinkInv
<1>t. TInv /\ LeadTypeOK
  BY DEF LinkInv, TInv
<1>0. ASSUME NEW w \in Workers
      PROVE  req[w] \in Request /\ Shaped(req[w])
  BY <1>t DEF TInv, LeadTypeOK, ReqShape
<1>1. ASSUME NEW w \in Workers, NEW r, Become(w, r), r.pc \notin Deleting, UNCHANGED <<lead, client>>
      PROVE  ConvertedClientLives' /\ DeleteKnows'
  <2>1. ConvertedClientLives'
    BY <1>1 DEF LinkInv, ConvertedClientLives, LiveClient
  <2>2. QED
    BY <1>1, <1>t, <2>1, DeleteKnowsStep DEF LinkInv
<1>i. Idle.pc \notin Deleting
  BY DEF Idle, Deleting
<1>2. ASSUME NEW w \in Workers, Finish(w), UNCHANGED <<lead, client>>
      PROVE  ConvertedClientLives' /\ DeleteKnows'
  BY <1>1, <1>2, <1>i DEF Finish
<1>3. ASSUME NEW w \in Workers,
             \/ StartLead(w) \/ StartBuyer(w)
             \/ \E l \in LeadIds : StartConvert(w, l)
             \/ \E l \in LeadIds \union {Null}, b \in BuyerIds \union {Null} :
                  StartAdd(w, l, b) \/ StartSetPrimary(w, l, b)
      PROVE  ConvertedClientLives' /\ DeleteKnows'
  <2>1. UNCHANGED <<lead, client>>
    BY <1>3 DEF StartLead, StartBuyer, StartConvert, StartAdd, StartSetPrimary, db
  <2>2. ASSUME NEW cards, NEW step \in {"insertLead", "insertBuyer"},
               Become(w, [Idle EXCEPT !.pc = step, !.cards = cards])
        PROVE  ConvertedClientLives' /\ DeleteKnows'
    BY <1>1, <2>1, <2>2 DEF Idle, Deleting
  <2>3. ASSUME NEW l, NEW to, Become(w, [Idle EXCEPT !.pc = "readContacts", !.lead = l, !.to = to])
        PROVE  ConvertedClientLives' /\ DeleteKnows'
    BY <1>1, <2>1, <2>3 DEF Idle, Deleting
  <2>4. ASSUME NEW l, NEW b, NEW p, NEW step \in {"addContact", "setPrimary"},
               Become(w, [Idle EXCEPT !.pc = step, !.lead = l, !.client = b, !.person = p])
        PROVE  ConvertedClientLives' /\ DeleteKnows'
    BY <1>1, <2>1, <2>4 DEF Idle, Deleting
  <2>5. ASSUME NEW l, NEW b, Become(w, [Idle EXCEPT !.pc = "attach", !.lead = l, !.client = b])
        PROVE  ConvertedClientLives' /\ DeleteKnows'
    BY <1>1, <2>1, <2>5 DEF Idle, Deleting
  <2>6. QED
    BY <1>3, <2>2, <2>3, <2>4, <2>5
       DEF StartLead, StartBuyer, StartConvert, StartAdd, StartSetPrimary
<1>4. ASSUME NEW w \in Workers, InsertLead(w)
      PROVE  ConvertedClientLives' /\ DeleteKnows'
  <2>1. PICK l \in LeadIds :
          /\ lead' = [lead EXCEPT ![l] = [state |-> "live", client |-> Null]]
          /\ Become(w, [req[w] EXCEPT !.pc = "cards", !.lead = l])
    BY <1>4 DEF InsertLead
  <2>2. UNCHANGED client
    BY <1>4 DEF InsertLead
  <2>3. ConvertedClientLives'
    BY <1>t, <2>1, <2>2 DEF LeadTypeOK, LinkInv, ConvertedClientLives, LiveClient
  <2> DEFINE r == [req[w] EXCEPT !.pc = "cards", !.lead = l]
  <2>4. r.pc \notin Deleting
    BY <1>0 DEF Request, Deleting
  <2>5. DeleteKnows'
    BY <1>t, <2>1, <2>2, <2>4, DeleteKnowsStep DEF LinkInv
  <2>6. QED
    BY <2>3, <2>5
<1>5. ASSUME NEW w \in Workers, InsertBuyer(w)
      PROVE  ConvertedClientLives' /\ DeleteKnows'
  <2>1. PICK b \in BuyerIds :
          /\ client[b].state = "unused"
          /\ client' = [client EXCEPT ![b] = [state |-> "live", lead |-> Null]]
          /\ Become(w, [req[w] EXCEPT !.pc = "cards", !.client = b])
    BY <1>5 DEF InsertBuyer
  <2>2. UNCHANGED lead
    BY <1>5 DEF InsertBuyer
  <2>3. \A c \in ClientIds : c # b => client'[c] = client[c]
    BY <1>t, <2>1 DEF LeadTypeOK
  <2>4. ConvertedClientLives'
    BY <2>1, <2>2, <2>3 DEF LinkInv, ConvertedClientLives, LiveClient
  <2> DEFINE r == [req[w] EXCEPT !.pc = "cards", !.client = b]
  <2>5. r.pc \notin Deleting
    BY <1>0 DEF Request, Deleting
  <2>6. DeleteKnows'
    BY <1>t, <2>1, <2>3, <2>5, DeleteKnowsStep DEF LinkInv
  <2>7. QED
    BY <2>4, <2>6
<1>6. ASSUME NEW w \in Workers, AddCard(w)
      PROVE  ConvertedClientLives' /\ DeleteKnows'
  <2>1. UNCHANGED <<lead, client>>
    BY <1>6 DEF AddCard
  <2>2. CASE req[w].cards = {}
    BY <1>2, <1>6, <2>1, <2>2 DEF AddCard
  <2>3. CASE req[w].cards # {}
    <3>1. PICK k \in req[w].cards : Become(w, [req[w] EXCEPT !.cards = req[w].cards \ {k}])
      BY <1>6, <2>3 DEF AddCard
    <3> DEFINE r == [req[w] EXCEPT !.cards = req[w].cards \ {k}]
    <3>2. r.pc \notin Deleting
      BY <1>6, <1>0 DEF AddCard, Request, Deleting
    <3>3. QED
      BY <1>1, <2>1, <3>1, <3>2
  <2>4. QED
    BY <2>2, <2>3
<1>7. ASSUME NEW w \in Workers, ReadContacts(w)
      PROVE  ConvertedClientLives' /\ DeleteKnows'
  <2> DEFINE r == [req[w] EXCEPT !.pc = "convert", !.cards = CardsOf(req[w].lead)]
  <2>1. r.pc \notin Deleting
    BY <1>0 DEF Request, Deleting
  <2>2. QED
    BY <1>1, <1>7, <2>1 DEF ReadContacts, db
<1>8. ASSUME NEW w \in Workers, ConvertFromLead(w)
      PROVE  ConvertedClientLives' /\ DeleteKnows'
  <2> DEFINE l == req[w].lead
  <2>1. PICK c \in ClientIds :
          /\ client[c].state = "unused"
          /\ client' = [client EXCEPT ![c] = [state |-> "live", lead |-> l]]
          /\ lead' = [lead EXCEPT ![l] = [state |-> "live", client |-> c]]
          /\ Finish(w) \/ Become(w, [req[w] EXCEPT !.pc = "seed", !.client = c])
    BY <1>8 DEF ConvertFromLead, ClientIds
  <2>2. l \in LeadIds
    BY <1>8, <1>0 DEF ConvertFromLead, Shaped
  <2>3. \A d \in ClientIds : d # c => client'[d] = client[d]
    BY <1>t, <2>1 DEF LeadTypeOK
  <2>4. client'[c].state = "live" /\ client'[c].lead = l /\ lead'[l].client = c
    BY <1>t, <2>1, <2>2 DEF LeadTypeOK
  <2>5. \A k \in LeadIds : k # l => lead'[k] = lead[k]
    BY <1>t, <2>1 DEF LeadTypeOK
  <2>6. ConvertedClientLives'
    BY <2>1, <2>2, <2>3, <2>4, <2>5 DEF LinkInv, ConvertedClientLives, LiveClient
  <2>7. PICK r : Become(w, r) /\ r.pc \notin Deleting
    <3>1. CASE Finish(w)
      BY <3>1, <1>i DEF Finish
    <3>2. CASE Become(w, [req[w] EXCEPT !.pc = "seed", !.client = c])
      <4> DEFINE r == [req[w] EXCEPT !.pc = "seed", !.client = c]
      <4>1. Become(w, r) /\ r.pc \notin Deleting
        BY <3>2, <1>0 DEF Request, Deleting
      <4> HIDE DEF r
      <4>2. QED
        BY <4>1
    <3>3. QED
      BY <2>1, <3>1, <3>2
  <2>8. DeleteKnows'
    BY <1>t, <2>1, <2>3, <2>7, DeleteKnowsStep DEF LinkInv
  <2>9. QED
    BY <2>6, <2>8
<1>9. ASSUME NEW w \in Workers,
             SeedSupplier(w) \/ AddContact(w) \/ Attach(w) \/ SetPrimary(w) \/ Abort(w)
      PROVE  ConvertedClientLives' /\ DeleteKnows'
  BY <1>2, <1>9 DEF SeedSupplier, AddContact, Attach, SetPrimary, Abort, db
<1>10. ASSUME NEW w \in Workers, NEW b \in BuyerIds, StartDelete(w, b)
       PROVE  ConvertedClientLives' /\ DeleteKnows'
  <2> DEFINE r == [Idle EXCEPT !.pc = "readLeadId", !.lead = client[b].lead, !.client = b]
  <2>1. UNCHANGED <<lead, client>> /\ client[b].state = "live"
    BY <1>10 DEF StartDelete, LiveClient, db
  <2>2. Become(w, r) /\ r.client = b /\ r.lead = client[b].lead
    BY <1>10 DEF StartDelete, Idle
  <2> HIDE DEF r
  <2>3. DeleteKnows'
    BY <1>t, <2>1, <2>2, DeleteKnowsStep DEF LinkInv
  <2>4. QED
    BY <2>1, <2>3 DEF LinkInv, ConvertedClientLives, LiveClient
<1>11. ASSUME NEW w \in Workers, ReadLeadId(w)
       PROVE  ConvertedClientLives' /\ DeleteKnows'
  <2> DEFINE c == req[w].client
             l == IF LiveClient(c) THEN client[c].lead ELSE Null
             r == [req[w] EXCEPT !.pc = "delete", !.lead = l]
  <2>1. UNCHANGED <<lead, client>>
    BY <1>11 DEF ReadLeadId, db
  <2>2. Become(w, r) /\ r.client = c /\ r.lead = l
    BY <1>11, <1>0 DEF ReadLeadId, Request
  <2>3. client[c].state # "unused" /\ c \in ClientIds
    BY <1>11, <1>0 DEF ReadLeadId, LinkInv, DeleteKnows, Deleting, Shaped, ClientIds
  <2>4. client[c].state = "live" => client[c].lead = l
    BY <2>3 DEF LiveClient
  <2> HIDE DEF r, l
  <2>5. DeleteKnows'
    BY <1>t, <2>1, <2>2, <2>3, <2>4, DeleteKnowsStep DEF LinkInv
  <2>6. QED
    BY <2>1, <2>5 DEF LinkInv, ConvertedClientLives, LiveClient
<1>12. ASSUME NEW w \in Workers, DeleteParty(w)
       PROVE  ConvertedClientLives' /\ DeleteKnows'
  <2> DEFINE b == req[w].client
             l == req[w].lead
  <2>1. /\ client' = [client EXCEPT ![b] = [state |-> "deleted", lead |-> Null]]
        /\ lead' = IF l = Null THEN lead ELSE [lead EXCEPT ![l] = [state |-> "live", client |-> Null]]
        /\ Finish(w)
    BY <1>12 DEF DeleteParty
  <2>2. b \in ClientIds /\ l \in LeadIds \union {Null}
    BY <1>12, <1>0 DEF DeleteParty, Shaped, Deleting, ClientIds, Request
  <2>3. client'[b].state = "deleted" /\ \A c \in ClientIds : c # b => client'[c] = client[c]
    BY <1>t, <2>1, <2>2 DEF LeadTypeOK
  <2>4. client[b].state = "live" => client[b].lead = l
    BY <1>12, <2>2 DEF DeleteParty, LinkInv, DeleteKnows, Deleting, LiveClient
  <2>5. \A k \in LeadIds : lead'[k].client = lead[k].client \/ lead'[k].client = Null
    BY <1>t, <2>1, <2>2 DEF LeadTypeOK
  <2>6. ASSUME NEW k \in LeadIds, lead[k].client = b
        PROVE  lead'[k].client = Null
    <3>1. k = l
      BY <2>2, <2>4, <2>6, IdsAssumption DEF LinkInv, ConvertedClientLives, LiveClient, Parents
    <3>2. QED
      BY <1>t, <2>1, <3>1, IdsAssumption DEF LeadTypeOK, Parents
  <2>7. ConvertedClientLives'
    BY <2>3, <2>5, <2>6 DEF LinkInv, ConvertedClientLives, LiveClient
  <2>8. DeleteKnows'
    BY <1>t, <1>i, <2>1, <2>3, DeleteKnowsStep DEF LinkInv, Finish
  <2>9. QED
    BY <2>7, <2>8
<1>13. CASE UNCHANGED leadVars
  BY <1>13 DEF leadVars, LinkInv, ConvertedClientLives, DeleteKnows, LiveClient
<1>14. QED
  BY <1>3, <1>4, <1>5, <1>6, <1>7, <1>8, <1>9, <1>10, <1>11, <1>12, <1>13
     DEF LeadNext, Start, Insert, Convert, Touch, Delete

\* They hold of the empty tables.
LEMMA InitLinkInv == LeadInit => LinkInv
BY InitTInv DEF LeadInit, Idle, LinkInv, ConvertedClientLives, DeleteKnows, Deleting

\* The link from a converted lead to its client never dangles.
THEOREM ConvertedClientsLive == LeadSpec => []ConvertedClientLives
<1>1. LinkInv => ConvertedClientLives
  BY DEF LinkInv
<1>2. QED
  BY <1>1, InitLinkInv, LinkInvStep, PTL DEF LeadSpec

-----------------------------------------------------------------------------
(* One client per lead, when the requests on a lead do not overlap.        *)

\* A request is on rows that have been inserted, and no other request is.
Started ==
    \A w \in Workers :
        /\ req[w].lead # Null => lead[req[w].lead].state # "unused"
        /\ req[w].client # Null => client[req[w].client].state # "unused"
OneOwner ==
    \A v, w \in Workers : v # w =>
        /\ req[v].lead # Null => req[v].lead # req[w].lead
        /\ req[v].client # Null => req[v].client # req[w].client

\* What a request has checked still holds when it acts on it.
Checked(r, leads, clients) ==
    /\ r.pc \in {"readContacts", "convert"} => leads[r.lead].client = Null
    /\ r.pc = "delete" /\ r.lead # Null => clients[r.client].state = "live"
ChecksHold == \A w \in Workers : Checked(req[w], lead, client)

UnusedUnconverted == \A l \in LeadIds : lead[l].state = "unused" => lead[l].client = Null

SerialInv ==
    LinkInv /\ Started /\ OneOwner /\ ChecksHold /\ UnusedUnconverted /\ ClientsAreTheirLeads

\* A worker that goes on as r keeps to its rows, or takes ones nobody is on.
LEMMA OwnerStep ==
    ASSUME TInv, Started, OneOwner, NEW w \in Workers, NEW r, Become(w, r),
           \A l \in LeadIds : lead[l].state # "unused" => lead'[l].state # "unused",
           \A c \in ClientIds : client[c].state # "unused" => client'[c].state # "unused",
           \/ r.lead = Null \/ r.lead = req[w].lead
           \/ /\ lead'[r.lead].state # "unused"
              /\ \A v \in Workers : req[v].lead # r.lead,
           \/ r.client = Null \/ r.client = req[w].client
           \/ /\ client'[r.client].state # "unused"
              /\ \A v \in Workers : req[v].client # r.client
    PROVE  Started' /\ OneOwner'
<1>1. \A v \in Workers : req'[v] = IF v = w THEN r ELSE req[v]
  BY DEF Become, TInv, LeadTypeOK
<1>2. \A v \in Workers : /\ req[v].lead # Null => req[v].lead \in LeadIds
                         /\ req[v].client # Null => req[v].client \in ClientIds
  BY DEF TInv, LeadTypeOK, Request
<1>3. Started'
  BY <1>1, <1>2 DEF Started
<1>4. OneOwner'
  BY <1>1, <1>2 DEF OneOwner
<1>5. QED
  BY <1>3, <1>4

\* A step of w leaves the checks of the others true if it leaves their rows alone.
LEMMA ChecksStep ==
    ASSUME TInv, ChecksHold, NEW w \in Workers, NEW r, Become(w, r), Checked(r, lead', client'),
           \A v \in Workers \ {w} :
               /\ req[v].lead \in LeadIds => lead'[req[v].lead].client = lead[req[v].lead].client
               /\ req[v].client \in ClientIds =>
                      (client[req[v].client].state = "live" => client'[req[v].client].state = "live")
    PROVE  ChecksHold'
<1> SUFFICES ASSUME NEW v \in Workers
             PROVE  Checked(req'[v], lead', client')
  BY DEF ChecksHold
<1>1. CASE v = w
  BY <1>1 DEF Become, TInv, LeadTypeOK
<1>2. CASE v # w
  <2>1. req'[v] = req[v]
    BY <1>2 DEF Become, TInv, LeadTypeOK
  <2>2. Checked(req[v], lead, client) /\ Shaped(req[v])
    BY DEF ChecksHold, TInv, ReqShape
  <2>3. QED
    BY <1>2, <2>1, <2>2 DEF Checked, Shaped, Deleting, ClientIds
<1>3. QED
  BY <1>1, <1>2

\* Both, for the steps that write neither leads nor clients.
LEMMA QuietSerial ==
    ASSUME SerialInv, LinkInv', NEW w \in Workers, NEW r, Become(w, r),
           UNCHANGED <<lead, client>>, Checked(r, lead, client),
           \/ r.lead = Null \/ r.lead = req[w].lead
           \/ /\ lead[r.lead].state # "unused"
              /\ \A v \in Workers : req[v].lead # r.lead,
           \/ r.client = Null \/ r.client = req[w].client
           \/ /\ client[r.client].state # "unused"
              /\ \A v \in Workers : req[v].client # r.client
    PROVE  SerialInv'
<1>1. TInv
  BY DEF SerialInv, LinkInv
<1>2. Started' /\ OneOwner'
  BY <1>1, OwnerStep DEF SerialInv
<1>3. ChecksHold'
  BY <1>1, ChecksStep DEF SerialInv
<1>4. ClientsAreTheirLeads' /\ UnusedUnconverted'
  BY DEF SerialInv, ClientsAreTheirLeads, UnusedUnconverted, LiveClient
<1>5. QED
  BY <1>2, <1>3, <1>4 DEF SerialInv

\* When the requests on a lead do not overlap, every step keeps a check true until
\* its write, and with it the one client per lead.
LEMMA SerialInvStep == OneRequestPerLead /\ SerialInv /\ [LeadNext]_leadVars => SerialInv'
<1> SUFFICES ASSUME OneRequestPerLead, SerialInv, [LeadNext]_leadVars
             PROVE  SerialInv'
  OBVIOUS
<1>l. LinkInv'
  BY LinkInvStep DEF SerialInv
<1>t. TInv /\ LeadTypeOK
  BY DEF SerialInv, LinkInv, TInv
<1>0. ASSUME NEW w \in Workers
      PROVE  /\ req[w] \in Request /\ Shaped(req[w]) /\ Checked(req[w], lead, client)
             /\ req[w].lead # Null => req[w].lead \in LeadIds /\ lead[req[w].lead].state # "unused"
             /\ req[w].client # Null => req[w].client \in ClientIds /\ client[req[w].client].state # "unused"
             /\ \A v \in Workers \ {w} :
                  /\ req[w].lead # Null => req[v].lead # req[w].lead
                  /\ req[w].client # Null => req[v].client # req[w].client
  BY <1>t DEF SerialInv, ChecksHold, Started, OneOwner, TInv, ReqShape, LeadTypeOK, Request
<1>n. Null \notin LeadIds /\ Null \notin ClientIds
  BY IdsAssumption DEF Parents
<1>1. ASSUME NEW w \in Workers, Finish(w), UNCHANGED <<lead, client>>
      PROVE  SerialInv'
  BY <1>1, <1>l, QuietSerial DEF Finish, Idle, Checked
<1>2. ASSUME NEW w \in Workers, StartLead(w) \/ StartBuyer(w)
      PROVE  SerialInv'
  <2>1. PICK cards \in Forms, step \in {"insertLead", "insertBuyer"} :
           Become(w, [Idle EXCEPT !.pc = step, !.cards = cards])
    BY <1>2 DEF StartLead, StartBuyer
  <2> DEFINE r == [Idle EXCEPT !.pc = step, !.cards = cards]
  <2>2. r.lead = Null /\ r.client = Null /\ Checked(r, lead, client)
    BY DEF Idle, Checked
  <2>3. UNCHANGED <<lead, client>>
    BY <1>2 DEF StartLead, StartBuyer, db
  <2> HIDE DEF r
  <2>4. QED
    BY <1>l, <2>1, <2>2, <2>3, QuietSerial DEF r
<1>3. ASSUME NEW w \in Workers, InsertLead(w)
      PROVE  SerialInv'
  <2>1. PICK l \in LeadIds :
          /\ lead[l].state = "unused"
          /\ lead' = [lead EXCEPT ![l] = [state |-> "live", client |-> Null]]
          /\ Become(w, [req[w] EXCEPT !.pc = "cards", !.lead = l])
    BY <1>3 DEF InsertLead
  <2> DEFINE r == [req[w] EXCEPT !.pc = "cards", !.lead = l]
  <2>2. r.lead = l /\ r.client = req[w].client /\ Checked(r, lead', client')
    BY <1>0 DEF Request, Checked
  <2>3. \A k \in LeadIds : k # l => lead'[k] = lead[k]
    BY <1>t, <2>1 DEF LeadTypeOK
  <2>4. lead'[l].state = "live" /\ UNCHANGED client
    BY <1>3, <1>t, <2>1 DEF InsertLead, LeadTypeOK
  <2>5. \A v \in Workers : req[v].lead # l
    BY <1>0, <1>n, <2>1
  <2>6. lead[l].client = Null
    BY <1>3, <1>t, <2>1 DEF SerialInv, UnusedUnconverted
  <2> HIDE DEF r
  <2>7. Started' /\ OneOwner'
    BY <1>t, <2>1, <2>2, <2>3, <2>4, <2>5, OwnerStep DEF r, SerialInv
  <2>8. ChecksHold'
    BY <1>t, <2>1, <2>2, <2>3, <2>4, <2>5, ChecksStep DEF r, SerialInv
  <2>9. ClientsAreTheirLeads'
    BY <1>t, <2>1, <2>3, <2>4, <2>6, <1>n DEF SerialInv, ClientsAreTheirLeads, LiveClient, LeadTypeOK, Client
  <2>10. UnusedUnconverted'
    BY <2>3, <2>4 DEF SerialInv, UnusedUnconverted
  <2>11. QED
    BY <1>l, <2>7, <2>8, <2>9, <2>10 DEF SerialInv
<1>4. ASSUME NEW w \in Workers, InsertBuyer(w)
      PROVE  SerialInv'
  <2>1. PICK b \in BuyerIds :
          /\ client[b].state = "unused"
          /\ client' = [client EXCEPT ![b] = [state |-> "live", lead |-> Null]]
          /\ Become(w, [req[w] EXCEPT !.pc = "cards", !.client = b])
    BY <1>4 DEF InsertBuyer
  <2> DEFINE r == [req[w] EXCEPT !.pc = "cards", !.client = b]
  <2>2. r.client = b /\ r.lead = req[w].lead /\ Checked(r, lead', client')
    BY <1>0 DEF Request, Checked
  <2>3. b \in ClientIds /\ \A c \in ClientIds : c # b => client'[c] = client[c]
    BY <1>t, <2>1 DEF LeadTypeOK, ClientIds
  <2>4. client'[b].state = "live" /\ client'[b].lead = Null /\ UNCHANGED lead
    BY <1>4, <1>t, <2>1, <2>3 DEF InsertBuyer, LeadTypeOK
  <2>5. \A v \in Workers : req[v].client # b
    BY <1>0, <1>n, <2>1, <2>3
  <2> HIDE DEF r
  <2>6. Started' /\ OneOwner'
    BY <1>t, <2>1, <2>2, <2>3, <2>4, <2>5, OwnerStep DEF r, SerialInv
  <2>7. ChecksHold'
    BY <1>t, <2>1, <2>2, <2>3, <2>4, <2>5, ChecksStep DEF r, SerialInv
  <2>8. ClientsAreTheirLeads' /\ UnusedUnconverted'
    BY <2>3, <2>4 DEF SerialInv, ClientsAreTheirLeads, UnusedUnconverted, LiveClient
  <2>9. QED
    BY <1>l, <2>6, <2>7, <2>8 DEF SerialInv
<1>5. ASSUME NEW w \in Workers, AddCard(w)
      PROVE  SerialInv'
  <2>1. UNCHANGED <<lead, client>>
    BY <1>5 DEF AddCard
  <2>2. CASE req[w].cards = {}
    BY <1>1, <1>5, <2>1, <2>2 DEF AddCard
  <2>3. CASE req[w].cards # {}
    <3>1. PICK k \in req[w].cards : Become(w, [req[w] EXCEPT !.cards = req[w].cards \ {k}])
      BY <1>5, <2>3 DEF AddCard
    <3> DEFINE r == [req[w] EXCEPT !.cards = req[w].cards \ {k}]
    <3>2. r.lead = req[w].lead /\ r.client = req[w].client /\ Checked(r, lead, client)
      BY <1>5, <1>0 DEF AddCard, Request, Checked
    <3> HIDE DEF r
    <3>3. QED
      BY <1>l, <2>1, <3>1, <3>2, QuietSerial DEF r
  <2>4. QED
    BY <2>2, <2>3
<1>6. ASSUME NEW w \in Workers, NEW l \in LeadIds, StartConvert(w, l)
      PROVE  SerialInv'
  <2>1. PICK to \in {"Buyer", "Supplier"} :
           Become(w, [Idle EXCEPT !.pc = "readContacts", !.lead = l, !.to = to])
    BY <1>6 DEF StartConvert
  <2> DEFINE r == [Idle EXCEPT !.pc = "readContacts", !.lead = l, !.to = to]
  <2>2. r.lead = l /\ r.client = Null /\ Checked(r, lead, client)
    BY <1>6 DEF StartConvert, Idle, Checked
  <2>3. lead[l].state # "unused" /\ \A v \in Workers : req[v].lead # l
    BY <1>6, <1>n DEF StartConvert, LiveLead, MayStart
  <2>4. UNCHANGED <<lead, client>>
    BY <1>6 DEF StartConvert, db
  <2> HIDE DEF r
  <2>5. QED
    BY <1>l, <2>1, <2>2, <2>3, <2>4, QuietSerial DEF r
<1>7. ASSUME NEW w \in Workers, ReadContacts(w)
      PROVE  SerialInv'
  <2> DEFINE r == [req[w] EXCEPT !.pc = "convert", !.cards = CardsOf(req[w].lead)]
  <2>1. r.lead = req[w].lead /\ r.client = req[w].client /\ Checked(r, lead, client)
    BY <1>7, <1>0 DEF ReadContacts, Request, Checked
  <2>2. Become(w, r) /\ UNCHANGED <<lead, client>>
    BY <1>7 DEF ReadContacts, db
  <2> HIDE DEF r
  <2>3. QED
    BY <1>l, <2>1, <2>2, QuietSerial
<1>8. ASSUME NEW w \in Workers, ConvertFromLead(w)
      PROVE  SerialInv'
  <2> DEFINE l == req[w].lead
  <2>1. PICK c \in ClientIds :
          /\ client[c].state = "unused"
          /\ client' = [client EXCEPT ![c] = [state |-> "live", lead |-> l]]
          /\ lead' = [lead EXCEPT ![l] = [state |-> "live", client |-> c]]
          /\ Finish(w) \/ Become(w, [req[w] EXCEPT !.pc = "seed", !.client = c])
    BY <1>8 DEF ConvertFromLead, ClientIds
  <2>2. l \in LeadIds /\ lead[l].client = Null
    BY <1>8, <1>0 DEF ConvertFromLead, Shaped, Checked
  <2>3. \A d \in ClientIds : d # c => client'[d] = client[d]
    BY <1>t, <2>1 DEF LeadTypeOK
  <2>4. client'[c].state = "live" /\ client'[c].lead = l
        /\ lead'[l].client = c /\ lead'[l].state = "live"
    BY <1>t, <2>1, <2>2 DEF LeadTypeOK
  <2>5. \A k \in LeadIds : k # l => lead'[k] = lead[k]
    BY <1>t, <2>1 DEF LeadTypeOK
  <2>6. \A v \in Workers \ {w} : req[v].lead # l
    BY <1>0, <1>n, <2>2
  <2>7. \A v \in Workers : req[v].client # c
    BY <1>0, <1>n, <2>1
  <2>8. PICK r : /\ Become(w, r) /\ Checked(r, lead', client')
                 /\ r.lead = Null \/ r.lead = l
                 /\ r.client = Null \/ r.client = c
    <3>1. CASE Finish(w)
      BY <3>1 DEF Finish, Idle, Checked
    <3>2. CASE Become(w, [req[w] EXCEPT !.pc = "seed", !.client = c])
      <4> DEFINE r == [req[w] EXCEPT !.pc = "seed", !.client = c]
      <4>1. Become(w, r) /\ Checked(r, lead', client') /\ r.lead = l /\ r.client = c
        BY <3>2, <1>0 DEF Request, Checked
      <4> HIDE DEF r
      <4>2. QED
        BY <4>1
    <3>3. QED
      BY <2>1, <3>1, <3>2
  <2> HIDE DEF l
  <2>9. Started' /\ OneOwner'
    BY <1>t, <2>1, <2>3, <2>4, <2>5, <2>7, <2>8, OwnerStep DEF l, SerialInv
  <2>10. ChecksHold'
    BY <1>t, <2>1, <2>3, <2>5, <2>6, <2>8, ChecksStep DEF SerialInv
  <2>11. ClientsAreTheirLeads' /\ UnusedUnconverted'
    BY <2>1, <2>2, <2>3, <2>4, <2>5, <1>n
       DEF SerialInv, ClientsAreTheirLeads, UnusedUnconverted, LiveClient
  <2>12. QED
    BY <1>l, <2>9, <2>10, <2>11 DEF SerialInv
<1>9. ASSUME NEW w \in Workers,
             SeedSupplier(w) \/ AddContact(w) \/ Attach(w) \/ SetPrimary(w) \/ Abort(w)
      PROVE  SerialInv'
  BY <1>1, <1>9 DEF SeedSupplier, AddContact, Attach, SetPrimary, Abort, db
<1>10. ASSUME NEW w \in Workers, NEW l \in LeadIds \union {Null}, NEW b \in BuyerIds \union {Null},
              StartAdd(w, l, b) \/ StartSetPrimary(w, l, b)
       PROVE  SerialInv'
  <2>1. /\ UNCHANGED <<lead, client>>
        /\ IF b = Null THEN LiveLead(l) ELSE LiveClient(b) /\ client[b].lead = l
        /\ MayStart(l, b)
    BY <1>10 DEF StartAdd, StartSetPrimary, db
  <2>2. /\ b # Null => client[b].state # "unused" /\ \A v \in Workers : req[v].client # b
        /\ l # Null => \A v \in Workers : req[v].lead # l
    BY <2>1 DEF LiveClient, MayStart
  <2>3. l # Null => lead[l].state # "unused"
    <3>1. CASE b = Null
      BY <2>1, <3>1 DEF LiveLead
    <3>2. CASE b # Null /\ l # Null
      BY <2>1, <3>2, <1>n DEF SerialInv, ClientsAreTheirLeads, UnusedUnconverted, LiveClient
    <3>3. QED
      BY <3>1, <3>2
  <2>4. ASSUME NEW p, NEW step \in {"addContact", "setPrimary", "attach"},
               Become(w, [Idle EXCEPT !.pc = step, !.lead = l, !.client = b, !.person = p])
        PROVE  SerialInv'
    <3> DEFINE r == [Idle EXCEPT !.pc = step, !.lead = l, !.client = b, !.person = p]
    <3>1. r.lead = l /\ r.client = b /\ Checked(r, lead, client)
      BY DEF Idle, Checked
    <3> HIDE DEF r
    <3>2. QED
      BY <1>l, <2>1, <2>2, <2>3, <2>4, <3>1, QuietSerial DEF r
  <2>5. ASSUME Become(w, [Idle EXCEPT !.pc = "attach", !.lead = l, !.client = b])
        PROVE  SerialInv'
    <3> DEFINE r == [Idle EXCEPT !.pc = "attach", !.lead = l, !.client = b]
    <3>1. r.lead = l /\ r.client = b /\ Checked(r, lead, client)
      BY DEF Idle, Checked
    <3> HIDE DEF r
    <3>2. QED
      BY <1>l, <2>1, <2>2, <2>3, <2>5, <3>1, QuietSerial DEF r
  <2>6. QED
    BY <1>10, <2>4, <2>5 DEF StartAdd, StartSetPrimary
<1>11. ASSUME NEW w \in Workers, NEW b \in BuyerIds, StartDelete(w, b)
       PROVE  SerialInv'
  <2> DEFINE l == client[b].lead
             r == [Idle EXCEPT !.pc = "readLeadId", !.lead = l, !.client = b]
  <2>1. UNCHANGED <<lead, client>> /\ LiveClient(b) /\ MayStart(l, b) /\ Become(w, r)
    BY <1>11 DEF StartDelete, db
  <2>2. r.lead = l /\ r.client = b /\ Checked(r, lead, client)
    BY DEF Idle, Checked
  <2>3. b \in ClientIds /\ client[b].state # "unused" /\ \A v \in Workers : req[v].client # b
    BY <2>1, <1>n DEF LiveClient, MayStart
  <2>4. l # Null => lead[l].state # "unused" /\ \A v \in Workers : req[v].lead # l
    <3>1. l \in LeadIds \union {Null}
      BY <1>t, <2>3 DEF LeadTypeOK, Client
    <3>2. QED
      BY <2>1, <2>3, <3>1, <1>n
         DEF SerialInv, ClientsAreTheirLeads, UnusedUnconverted, LiveClient, MayStart
  <2> HIDE DEF r, l
  <2>5. QED
    BY <1>l, <2>1, <2>2, <2>3, <2>4, QuietSerial
<1>12. ASSUME NEW w \in Workers, ReadLeadId(w)
       PROVE  SerialInv'
  <2> DEFINE c == req[w].client
             l == IF LiveClient(c) THEN client[c].lead ELSE Null
             r == [req[w] EXCEPT !.pc = "delete", !.lead = l]
  <2>1. UNCHANGED <<lead, client>> /\ Become(w, r) /\ req[w].pc = "readLeadId"
    BY <1>12 DEF ReadLeadId, db
  <2>2. r.pc = "delete" /\ r.lead = l /\ r.client = c
    BY <1>0 DEF Request
  <2>3. l = Null \/ l = req[w].lead
    BY <2>1 DEF SerialInv, LinkInv, DeleteKnows, Deleting
  <2>4. l # Null => client[c].state = "live"
    BY DEF LiveClient
  <2> HIDE DEF r, l
  <2>5. Checked(r, lead, client)
    BY <2>2, <2>4 DEF Checked
  <2>6. QED
    BY <1>l, <2>1, <2>2, <2>3, <2>5, QuietSerial
<1>13. ASSUME NEW w \in Workers, DeleteParty(w)
       PROVE  SerialInv'
  <2> DEFINE b == req[w].client
             l == req[w].lead
  <2>1. /\ client' = [client EXCEPT ![b] = [state |-> "deleted", lead |-> Null]]
        /\ lead' = IF l = Null THEN lead ELSE [lead EXCEPT ![l] = [state |-> "live", client |-> Null]]
        /\ Become(w, Idle)
    BY <1>13 DEF DeleteParty, Finish
  <2>2. b \in ClientIds /\ l \in LeadIds \union {Null}
    BY <1>13, <1>0 DEF DeleteParty, Shaped, Deleting, ClientIds, Request
  <2>3. client'[b].state = "deleted" /\ \A c \in ClientIds : c # b => client'[c] = client[c]
    BY <1>t, <2>1, <2>2 DEF LeadTypeOK
  <2>4. \A k \in LeadIds : k # l => lead'[k] = lead[k]
    BY <1>t, <2>1, <2>2 DEF LeadTypeOK
  <2>5. l # Null => lead'[l].state = "live" /\ lead'[l].client = Null
    BY <1>t, <2>1, <2>2 DEF LeadTypeOK
  <2>6. l # Null => client[b].state = "live" /\ client[b].lead = l
    BY <1>13, <1>0, <2>2
       DEF DeleteParty, Checked, SerialInv, LinkInv, DeleteKnows, Deleting, LiveClient
  <2>7. \A v \in Workers \ {w} : req[v].client # b /\ (l # Null => req[v].lead # l)
    BY <1>0, <1>n, <2>2
  <2>8. Idle.lead = Null /\ Idle.client = Null /\ Checked(Idle, lead', client')
    BY DEF Idle, Checked
  <2> HIDE DEF b, l
  <2>9. Started' /\ OneOwner'
    BY <1>t, <1>n, <2>1, <2>2, <2>3, <2>4, <2>5, <2>8, OwnerStep DEF SerialInv
  <2>10. ChecksHold'
    BY <1>t, <1>n, <2>1, <2>2, <2>3, <2>4, <2>7, <2>8, ChecksStep DEF SerialInv
  <2>11. UnusedUnconverted'
    BY <2>4, <2>5, <1>n DEF SerialInv, UnusedUnconverted
  <2>12. ClientsAreTheirLeads'
    <3> SUFFICES ASSUME NEW c \in ClientIds, client'[c].state = "live", client'[c].lead # Null
                 PROVE  lead'[client'[c].lead].client = c
      BY DEF ClientsAreTheirLeads, LiveClient
    <3>1. c # b /\ client'[c] = client[c]
      BY <2>3
    <3>2. client[c].lead \in LeadIds /\ lead[client[c].lead].client = c
      BY <1>t, <3>1 DEF SerialInv, ClientsAreTheirLeads, LiveClient, LeadTypeOK, Client
    <3>3. client[c].lead # l
      BY <2>2, <2>6, <3>1, <3>2, <1>n DEF SerialInv, ClientsAreTheirLeads, LiveClient
    <3>4. QED
      BY <2>4, <3>1, <3>2, <3>3
  <2>13. QED
    BY <1>l, <2>9, <2>10, <2>11, <2>12 DEF SerialInv
<1>14. CASE UNCHANGED leadVars
  BY <1>14, <1>l DEF leadVars, SerialInv, Started, OneOwner, ChecksHold, Checked, UnusedUnconverted,
                   ClientsAreTheirLeads, LiveClient
<1>15. QED
  BY <1>2, <1>3, <1>4, <1>5, <1>6, <1>7, <1>8, <1>9, <1>10, <1>11, <1>12, <1>13, <1>14
     DEF LeadNext, Start, Insert, Convert, Touch, Delete

\* They hold of the empty tables.
LEMMA InitSerialInv == LeadInit => SerialInv
<1>1. LeadInit => LinkInv
  BY InitLinkInv
<1>2. LeadInit => Started /\ OneOwner /\ ChecksHold
  BY DEF LeadInit, Idle, Started, OneOwner, ChecksHold, Checked
<1>3. LeadInit => UnusedUnconverted /\ ClientsAreTheirLeads
  BY DEF LeadInit, UnusedUnconverted, ClientsAreTheirLeads, LiveClient
<1>4. QED
  BY <1>1, <1>2, <1>3 DEF SerialInv

\* As long as the requests on one lead do not overlap, a lead has no client but
\* the one it names, and none once it is put back to un-converted.
THEOREM OneClientPerLead == OneRequestPerLead => (LeadSpec => []ClientsAreTheirLeads)
<1> SUFFICES ASSUME OneRequestPerLead
             PROVE  LeadSpec => []ClientsAreTheirLeads
  OBVIOUS
<1>1. SerialInv /\ [LeadNext]_leadVars => SerialInv'
  BY SerialInvStep
<1>2. SerialInv => ClientsAreTheirLeads
  BY DEF SerialInv
<1>3. QED
  BY <1>1, <1>2, InitSerialInv, PTL DEF LeadSpec

-----------------------------------------------------------------------------
(* The contacts, when the requests on a lead do not overlap: a contact and *)
(* a row filed under a buyer have a parent, a parent has one primary, and  *)
(* a conversion copies the contacts the lead has at that moment.           *)

\* The client a request is on is there until the request itself deletes it.
ClientsHeld == \A w \in Workers : req[w].client # Null => LiveClient(req[w].client)

\* The contacts a request is still to add leave the parent one primary; those a
\* conversion has read are the ones the lead has among rows.
CardsFit(r, rows) ==
    /\ r.pc = "insertLead" => r.client = Null
    /\ r.pc \in {"insertLead", "insertBuyer", "cards"} =>
           \A j, k \in r.cards : j.primary /\ k.primary => j = k
    /\ r.pc = "cards" =>
           \A x \in rows, k \in r.cards : x.parent = ParentOf(r) /\ x.primary => ~k.primary
    /\ r.pc = "convert" =>
           r.cards = {[person |-> x.person, primary |-> x.primary] :
                         x \in {y \in rows : y.parent = r.lead}}
CardsAreFit == \A w \in Workers : CardsFit(req[w], contacts)

ContactInv == SerialInv /\ ClientsHeld /\ CardsAreFit /\ NothingLeftBehind /\ AtMostOnePrimary

\* The rows agree on every parent but p.
SameBut(p, rows, rows2) == \A x \in rows \union rows2 : x.parent # p => (x \in rows <=> x \in rows2)

\* A request that is not on p does not see a change of p's contacts.
LEMMA OtherRowsFit ==
    ASSUME NEW rows, NEW rows2, NEW p, SameBut(p, rows, rows2), NEW r,
           r.lead # p, ParentOf(r) # p, CardsFit(r, rows)
    PROVE  CardsFit(r, rows2)
<1>1. {y \in rows : y.parent = r.lead} = {y \in rows2 : y.parent = r.lead}
  BY DEF SameBut
<1>2. \A x \in rows2 : x.parent = ParentOf(r) => x \in rows
  BY DEF SameBut
<1>3. QED
  BY <1>1, <1>2 DEF CardsFit

\* A step of w that changes at most p's contacts leaves the cards of all fit, if
\* w's own are and no other request is on p.
LEMMA FitStep ==
    ASSUME TInv, CardsAreFit, NEW w \in Workers, NEW r, Become(w, r), CardsFit(r, contacts'),
           NEW p, SameBut(p, contacts, contacts'),
           contacts' # contacts => \A v \in Workers \ {w} : req[v].lead # p /\ ParentOf(req[v]) # p
    PROVE  CardsAreFit'
<1> SUFFICES ASSUME NEW v \in Workers
             PROVE  CardsFit(req'[v], contacts')
  BY DEF CardsAreFit
<1>1. CASE v = w
  BY <1>1 DEF Become, TInv, LeadTypeOK
<1>2. CASE v # w
  <2>1. req'[v] = req[v] /\ CardsFit(req[v], contacts)
    BY <1>2 DEF Become, TInv, LeadTypeOK, CardsAreFit
  <2>2. CASE contacts' = contacts
    BY <2>1, <2>2
  <2>3. CASE contacts' # contacts
    BY <1>2, <2>1, <2>3, OtherRowsFit
  <2>4. QED
    BY <2>2, <2>3
<1>3. QED
  BY <1>1, <1>2

\* A step of w leaves the clients of all in place if it keeps those of the others
\* and goes on with a live one, or none.
LEMMA HeldStep ==
    ASSUME TInv, ClientsHeld, NEW w \in Workers, NEW r, Become(w, r),
           r.client # Null => r.client \in ClientIds /\ client'[r.client].state = "live",
           \A c \in ClientIds : client[c].state = "live" =>
               client'[c].state = "live" \/ \A v \in Workers \ {w} : req[v].client # c
    PROVE  ClientsHeld'
<1> SUFFICES ASSUME NEW v \in Workers, req'[v].client # Null
             PROVE  req'[v].client \in ClientIds /\ client'[req'[v].client].state = "live"
  BY DEF ClientsHeld, LiveClient
<1>1. CASE v = w
  BY <1>1 DEF Become, TInv, LeadTypeOK
<1>2. CASE v # w
  BY <1>2 DEF Become, TInv, LeadTypeOK, ClientsHeld, LiveClient
<1>3. QED
  BY <1>1, <1>2

\* Requests on different rows have different parents.
LEMMA ApartParents ==
    ASSUME TInv, OneOwner, NEW v \in Workers, NEW w \in Workers, v # w, ParentOf(req[w]) \in Parents
    PROVE  req[v].lead # ParentOf(req[w]) /\ ParentOf(req[v]) # ParentOf(req[w])
<1>1. /\ req[v].lead \in LeadIds \union {Null} /\ req[v].client \in ClientIds \union {Null}
      /\ req[w].lead \in LeadIds \union {Null} /\ req[w].client \in ClientIds \union {Null}
  BY DEF TInv, LeadTypeOK, Request
<1>2. Null \notin Parents /\ LeadIds \intersect ClientIds = {}
  BY IdsAssumption
<1>3. /\ req[w].lead # Null => req[v].lead # req[w].lead
      /\ req[w].client # Null => req[v].client # req[w].client
  BY DEF OneOwner
<1>4. QED
  BY <1>1, <1>2, <1>3 DEF ParentOf, Parents

\* The parent a request adds to is there.
LEMMA ParentLives ==
    ASSUME TInv, Started, ClientsHeld, NEW w \in Workers, ParentOf(req[w]) \in Parents
    PROVE  LiveLead(ParentOf(req[w])) \/ LiveClient(ParentOf(req[w]))
<1>1. req[w].lead \in LeadIds \union {Null} /\ req[w].client \in ClientIds \union {Null}
  BY DEF TInv, LeadTypeOK, Request
<1>2. CASE req[w].client # Null
  BY <1>2 DEF ClientsHeld, ParentOf
<1>3. CASE req[w].client = Null
  <2>1. req[w].lead \in LeadIds
    BY <1>1, <1>3, IdsAssumption DEF ParentOf, Parents
  <2>2. lead[req[w].lead].state = "live"
    BY <2>1, IdsAssumption DEF Started, TInv, LeadTypeOK, Lead, Parents
  <2>3. QED
    BY <1>3, <2>1, <2>2 DEF ParentOf, LiveLead
<1>4. QED
  BY <1>2, <1>3

\* The steps that leave leads, clients, contacts and attached rows alone.
LEMMA QuietContacts ==
    ASSUME ContactInv, SerialInv', NEW w \in Workers, NEW r, Become(w, r), UNCHANGED db,
           r.client # Null => LiveClient(r.client), CardsFit(r, contacts)
    PROVE  ContactInv'
<1>t. TInv
  BY DEF ContactInv, SerialInv, LinkInv
<1>1. ClientsHeld'
  BY <1>t, HeldStep DEF ContactInv, LiveClient, db
<1>2. CardsAreFit'
  BY <1>t, FitStep DEF ContactInv, SameBut, db
<1>3. NothingLeftBehind' /\ AtMostOnePrimary'
  BY DEF ContactInv, NothingLeftBehind, AtMostOnePrimary, LiveLead, LiveClient, db
<1>4. QED
  BY <1>1, <1>2, <1>3 DEF ContactInv

\* The steps that finish a request on p and change nothing but p's contacts.
LEMMA ContactsOfOne ==
    ASSUME ContactInv, SerialInv', NEW w \in Workers, Finish(w),
           UNCHANGED <<lead, client, attached>>, ParentOf(req[w]) \in Parents,
           SameBut(ParentOf(req[w]), contacts, contacts'),
           \A r, s \in contacts' : r.parent = ParentOf(req[w]) /\ s.parent = ParentOf(req[w])
                                   /\ r.primary /\ s.primary => r = s
    PROVE  ContactInv'
<1>t. TInv /\ OneOwner /\ Started
  BY DEF ContactInv, SerialInv, LinkInv
<1> DEFINE p == ParentOf(req[w])
<1>1. \A v \in Workers \ {w} : req[v].lead # p /\ ParentOf(req[v]) # p
  BY <1>t, ApartParents
<1>2. Become(w, Idle) /\ CardsFit(Idle, contacts') /\ Idle.client = Null
  BY DEF Finish, Idle, CardsFit
<1>3. LiveLead(p) \/ LiveClient(p)
  BY <1>t, ParentLives DEF ContactInv
<1> HIDE DEF p
<1>4. ClientsHeld'
  BY <1>t, <1>2, HeldStep DEF ContactInv
<1>5. CardsAreFit'
  BY <1>t, <1>1, <1>2, FitStep DEF p, ContactInv
<1>6. NothingLeftBehind'
  BY <1>3 DEF p, ContactInv, NothingLeftBehind, LiveLead, LiveClient, SameBut
<1>7. AtMostOnePrimary'
  BY DEF ContactInv, AtMostOnePrimary, SameBut
<1>8. QED
  BY <1>4, <1>5, <1>6, <1>7 DEF ContactInv

\* What a conversion has read is what its lead has.
LEMMA ReadIsCurrent ==
    ASSUME ContactInv, NEW w \in Workers, req[w].pc = "convert"
    PROVE  req[w].cards = CardsOf(req[w].lead)
BY DEF ContactInv, CardsAreFit, CardsFit, CardsOf

\* When the requests on a lead do not overlap, every step keeps the contacts whole.
LEMMA ContactInvStep == OneRequestPerLead /\ ContactInv /\ [LeadNext]_leadVars => ContactInv'
<1> SUFFICES ASSUME OneRequestPerLead, ContactInv, [LeadNext]_leadVars
             PROVE  ContactInv'
  OBVIOUS
<1>s. SerialInv'
  BY SerialInvStep DEF ContactInv
<1>t. TInv /\ LeadTypeOK /\ Started /\ OneOwner
  BY DEF ContactInv, SerialInv, LinkInv, TInv
<1>n. Null \notin Parents /\ Null \notin LeadIds /\ Null \notin ClientIds
      /\ LeadIds \intersect ClientIds = {}
  BY IdsAssumption DEF Parents
<1>0. ASSUME NEW w \in Workers
      PROVE  /\ req[w] \in Request /\ Shaped(req[w]) /\ CardsFit(req[w], contacts)
             /\ req[w].client # Null => LiveClient(req[w].client)
  BY <1>t DEF ContactInv, ClientsHeld, CardsAreFit, TInv, ReqShape, LeadTypeOK
<1>1. ASSUME NEW w \in Workers, StartLead(w) \/ StartBuyer(w)
      PROVE  ContactInv'
  <2>1. PICK cards \in Forms, step \in {"insertLead", "insertBuyer"} :
           Become(w, [Idle EXCEPT !.pc = step, !.cards = cards])
    BY <1>1 DEF StartLead, StartBuyer
  <2> DEFINE r == [Idle EXCEPT !.pc = step, !.cards = cards]
  <2>2. r.client = Null /\ CardsFit(r, contacts)
    BY DEF Idle, CardsFit, Forms
  <2>3. UNCHANGED db
    BY <1>1 DEF StartLead, StartBuyer
  <2> HIDE DEF r
  <2>4. QED
    BY <1>s, <2>1, <2>2, <2>3, QuietContacts DEF r
<1>2. ASSUME NEW w \in Workers, InsertLead(w)
      PROVE  ContactInv'
  <2>1. PICK l \in LeadIds :
          /\ lead[l].state = "unused"
          /\ lead' = [lead EXCEPT ![l] = [state |-> "live", client |-> Null]]
          /\ Become(w, [req[w] EXCEPT !.pc = "cards", !.lead = l])
    BY <1>2 DEF InsertLead
  <2> DEFINE r == [req[w] EXCEPT !.pc = "cards", !.lead = l]
  <2>2. r.pc = "cards" /\ r.cards = req[w].cards /\ r.lead = l /\ r.client = req[w].client
    BY <1>0 DEF Request
  <2>3. UNCHANGED <<client, contacts, attached>> /\ req[w].pc = "insertLead"
    BY <1>2 DEF InsertLead
  <2>4. \A k \in LeadIds : LiveLead(k) => lead'[k].state = "live"
    BY <1>t, <2>1 DEF LeadTypeOK, LiveLead
  <2> HIDE DEF r
  <2>5. ClientsHeld'
    BY <1>t, <1>0, <2>1, <2>2, <2>3, HeldStep DEF r, ContactInv, LiveClient
  <2>6. \A x \in contacts : x.parent # ParentOf(r)
    <3>1. ParentOf(r) = l
      BY <1>0, <2>2, <2>3 DEF CardsFit, ParentOf
    <3>2. QED
      BY <1>n, <2>1, <3>1 DEF ContactInv, NothingLeftBehind, LiveLead, LiveClient
  <2>7. CardsFit(r, contacts)
    BY <1>0, <2>2, <2>3, <2>6 DEF CardsFit
  <2>8. CardsAreFit'
    BY <1>t, <2>1, <2>3, <2>7, FitStep DEF r, ContactInv, SameBut
  <2>9. NothingLeftBehind' /\ AtMostOnePrimary'
    BY <2>3, <2>4 DEF ContactInv, NothingLeftBehind, AtMostOnePrimary, LiveLead, LiveClient
  <2>10. QED
    BY <1>s, <2>5, <2>8, <2>9 DEF ContactInv

<1>3. ASSUME NEW w \in Workers, InsertBuyer(w)
      PROVE  ContactInv'
  <2>1. PICK b \in BuyerIds :
          /\ client[b].state = "unused"
          /\ client' = [client EXCEPT ![b] = [state |-> "live", lead |-> Null]]
          /\ Become(w, [req[w] EXCEPT !.pc = "cards", !.client = b])
    BY <1>3 DEF InsertBuyer
  <2> DEFINE r == [req[w] EXCEPT !.pc = "cards", !.client = b]
  <2>2. r.pc = "cards" /\ r.cards = req[w].cards /\ r.client = b
    BY <1>0 DEF Request
  <2>3. UNCHANGED <<lead, contacts, attached>> /\ req[w].pc = "insertBuyer"
    BY <1>3 DEF InsertBuyer
  <2>4. b \in ClientIds /\ client'[b].state = "live"
        /\ \A c \in ClientIds : client[c].state = "live" => client'[c].state = "live"
    BY <1>t, <2>1 DEF LeadTypeOK, ClientIds
  <2> HIDE DEF r
  <2>5. ClientsHeld'
    BY <1>t, <2>1, <2>2, <2>4, HeldStep DEF r, ContactInv
  <2>6. ParentOf(r) = b /\ \A x \in contacts : x.parent # b
    BY <1>n, <2>1, <2>2, <2>4 DEF ContactInv, NothingLeftBehind, LiveLead, LiveClient, ParentOf
  <2>7. CardsFit(r, contacts)
    BY <1>0, <2>2, <2>3, <2>6 DEF CardsFit
  <2>8. CardsAreFit'
    BY <1>t, <2>1, <2>3, <2>7, FitStep DEF r, ContactInv, SameBut
  <2>9. NothingLeftBehind' /\ AtMostOnePrimary'
    BY <2>3, <2>4 DEF ContactInv, NothingLeftBehind, AtMostOnePrimary, LiveLead, LiveClient
  <2>10. QED
    BY <1>s, <2>5, <2>8, <2>9 DEF ContactInv
<1>4. ASSUME NEW w \in Workers, AddCard(w)
      PROVE  ContactInv'
  <2>1. UNCHANGED <<lead, client, attached>> /\ req[w].pc = "cards"
    BY <1>4 DEF AddCard
  <2>2. CASE req[w].cards = {}
    <3>1. Finish(w) /\ UNCHANGED contacts
      BY <1>4, <2>2 DEF AddCard
    <3>2. Idle.client = Null /\ CardsFit(Idle, contacts)
      BY DEF Idle, CardsFit
    <3>3. QED
      BY <1>s, <2>1, <3>1, <3>2, QuietContacts DEF Finish, db
  <2>3. CASE req[w].cards # {}
    <3> DEFINE p == ParentOf(req[w])
    <3>1. PICK k \in req[w].cards :
            /\ contacts' = contacts \union RowsFor(p, {k})
            /\ Become(w, [req[w] EXCEPT !.cards = req[w].cards \ {k}])
      BY <1>4, <2>3 DEF AddCard
    <3> DEFINE r   == [req[w] EXCEPT !.cards = req[w].cards \ {k}]
               row == [parent |-> p, person |-> k.person, primary |-> k.primary]
    <3>2. r.pc = "cards" /\ r.cards = req[w].cards \ {k} /\ r.client = req[w].client
          /\ r.lead = req[w].lead
      BY <1>0, <2>1 DEF Request
    <3>3. contacts' = contacts \union {row} /\ row.parent = p /\ row.primary = k.primary
      BY <3>1 DEF RowsFor
    <3>4. ParentOf(r) = p /\ p \in Parents /\ p \in LeadIds \union ClientIds
      BY <1>0, <2>1, <3>2 DEF ParentOf, Shaped, Parents
    <3>5. LiveLead(p) \/ LiveClient(p)
      BY <1>t, <3>4, ParentLives DEF ContactInv
    <3>6. \A v \in Workers \ {w} : req[v].lead # p /\ ParentOf(req[v]) # p
      BY <1>t, <3>4, ApartParents
    <3>7. /\ \A j, c \in req[w].cards : j.primary /\ c.primary => j = c
          /\ \A x \in contacts, c \in req[w].cards : x.parent = p /\ x.primary => ~c.primary
      BY <1>0, <2>1 DEF CardsFit
    <3> HIDE DEF r, row, p
    <3>8. ClientsHeld'
      BY <1>t, <1>0, <2>1, <3>1, <3>2, HeldStep DEF r, ContactInv, LiveClient
    <3>9. CardsFit(r, contacts')
      BY <3>2, <3>3, <3>4, <3>7 DEF CardsFit
    <3>10. CardsAreFit'
      <4>1. SameBut(p, contacts, contacts')
        BY <3>3 DEF SameBut
      <4>2. Become(w, r) /\ CardsAreFit
        BY <3>1 DEF r, ContactInv
      <4>3. QED
        BY <1>t, <3>6, <3>9, <4>1, <4>2, FitStep
    <3>11. NothingLeftBehind'
      BY <2>1, <3>3, <3>5 DEF ContactInv, NothingLeftBehind, LiveLead, LiveClient
    <3>12. AtMostOnePrimary'
      BY <3>3, <3>7 DEF ContactInv, AtMostOnePrimary
    <3>13. QED
      BY <1>s, <3>8, <3>10, <3>11, <3>12 DEF ContactInv
  <2>4. QED
    BY <2>2, <2>3
<1>5. ASSUME NEW w \in Workers, NEW l \in LeadIds, StartConvert(w, l)
      PROVE  ContactInv'
  <2>1. PICK to \in {"Buyer", "Supplier"} :
           Become(w, [Idle EXCEPT !.pc = "readContacts", !.lead = l, !.to = to])
    BY <1>5 DEF StartConvert
  <2> DEFINE r == [Idle EXCEPT !.pc = "readContacts", !.lead = l, !.to = to]
  <2>2. r.client = Null /\ CardsFit(r, contacts)
    BY DEF Idle, CardsFit
  <2>3. UNCHANGED db
    BY <1>5 DEF StartConvert
  <2> HIDE DEF r
  <2>4. QED
    BY <1>s, <2>1, <2>2, <2>3, QuietContacts DEF r
<1>6. ASSUME NEW w \in Workers, ReadContacts(w)
      PROVE  ContactInv'
  <2> DEFINE cards == CardsOf(req[w].lead)
             r == [req[w] EXCEPT !.pc = "convert", !.cards = cards]
  <2>1. Become(w, r) /\ UNCHANGED db
    BY <1>6 DEF ReadContacts
  <2> HIDE DEF cards
  <2>2. r.pc = "convert" /\ r.cards = cards /\ r.lead = req[w].lead /\ r.client = req[w].client
    BY <1>0 DEF Request
  <2> HIDE DEF r
  <2>3. CardsFit(r, contacts)
    BY <2>2 DEF CardsFit, CardsOf, cards
  <2>4. QED
    BY <1>s, <1>0, <2>1, <2>2, <2>3, QuietContacts
<1>7. ASSUME NEW w \in Workers, ConvertFromLead(w)
      PROVE  ContactInv'
  <2> DEFINE l == req[w].lead
  <2>1. PICK c \in ClientIds :
          /\ client[c].state = "unused"
          /\ client' = [client EXCEPT ![c] = [state |-> "live", lead |-> l]]
          /\ lead' = [lead EXCEPT ![l] = [state |-> "live", client |-> c]]
          /\ \/ Finish(w) /\ contacts' = contacts \union RowsFor(c, req[w].cards)
             \/ Become(w, [req[w] EXCEPT !.pc = "seed", !.client = c]) /\ UNCHANGED contacts
    BY <1>7 DEF ConvertFromLead, ClientIds, CopiedRows
  <2>2. l \in LeadIds /\ req[w].cards = CardsOf(l) /\ UNCHANGED attached
    BY <1>7, <1>0, ReadIsCurrent DEF ConvertFromLead, Shaped
  <2>3. \A k \in LeadIds : lead[k].state = "live" => lead'[k].state = "live"
    BY <1>t, <2>1, <2>2 DEF LeadTypeOK
  <2>4. client'[c].state = "live"
        /\ \A d \in ClientIds : client[d].state = "live" => client'[d].state = "live"
    BY <1>t, <2>1 DEF LeadTypeOK
  <2>5. \A x \in contacts : x.parent # c
    BY <1>n, <2>1 DEF ContactInv, NothingLeftBehind, LiveLead, LiveClient
  <2>6. \A v \in Workers \ {w} : req[v].lead # c /\ ParentOf(req[v]) # c
    <3>1. ASSUME NEW v \in Workers \ {w}
          PROVE  req[v].lead \in LeadIds \union {Null} /\ req[v].client # c
      BY <1>0, <1>n, <2>1 DEF Request, LiveClient
    <3>2. QED
      BY <1>n, <3>1 DEF ParentOf
  <2>7. ASSUME NEW r, Become(w, r), r.client = Null \/ r.client = c, r.pc \in {"idle", "seed"},
               contacts' = contacts \/ contacts' = contacts \union RowsFor(c, req[w].cards)
        PROVE  ContactInv'
    <3>1. \A x \in RowsFor(c, req[w].cards) :
             x.parent = c /\ \E y \in contacts :
                y.parent = l /\ y.person = x.person /\ y.primary = x.primary
      BY <2>2 DEF RowsFor, CardsOf
    <3>2. SameBut(c, contacts, contacts')
      BY <2>7, <3>1 DEF SameBut
    <3>3. CardsFit(r, contacts')
      BY <2>7 DEF CardsFit
    <3>4. CardsAreFit'
      BY <1>t, <2>6, <2>7, <3>2, <3>3, FitStep DEF ContactInv
    <3>5. ClientsHeld'
      BY <1>t, <2>4, <2>7, HeldStep DEF ContactInv
    <3>6. NothingLeftBehind'
      BY <2>2, <2>3, <2>4, <2>7, <3>1 DEF ContactInv, NothingLeftBehind, LiveLead, LiveClient
    <3>7. AtMostOnePrimary'
      <4> SUFFICES ASSUME NEW r1 \in contacts', NEW s1 \in contacts',
                          r1.parent = s1.parent, r1.primary, s1.primary
                   PROVE  r1 = s1
        BY DEF AtMostOnePrimary
      <4>1. CASE r1 \in contacts /\ s1 \in contacts
        BY <4>1 DEF ContactInv, AtMostOnePrimary
      <4>2. CASE r1.parent = c
        <5>1. r1 \in RowsFor(c, req[w].cards) /\ s1 \in RowsFor(c, req[w].cards)
          BY <2>5, <2>7, <4>2
        <5>2. PICK j \in req[w].cards, k \in req[w].cards :
                 /\ r1 = [parent |-> c, person |-> j.person, primary |-> j.primary]
                 /\ s1 = [parent |-> c, person |-> k.person, primary |-> k.primary]
          BY <5>1 DEF RowsFor
        <5>3. PICK y \in contacts, z \in contacts :
                 /\ y.parent = l /\ y.person = r1.person /\ y.primary = r1.primary
                 /\ z.parent = l /\ z.person = s1.person /\ z.primary = s1.primary
          BY <3>1, <5>1
        <5>4. y = z
          BY <5>3 DEF ContactInv, AtMostOnePrimary
        <5>5. QED
          BY <5>2, <5>3, <5>4
      <4>3. CASE r1.parent # c
        BY <2>7, <3>1, <4>1, <4>3
      <4>4. QED
        BY <4>2, <4>3
    <3>8. QED
      BY <1>s, <3>4, <3>5, <3>6, <3>7 DEF ContactInv
  <2>8. CASE Finish(w) /\ contacts' = contacts \union RowsFor(c, req[w].cards)
    <3>1. Become(w, Idle) /\ Idle.client = Null /\ Idle.pc = "idle"
      BY <2>8 DEF Finish, Idle
    <3>2. QED
      BY <2>7, <2>8, <3>1
  <2>9. CASE Become(w, [req[w] EXCEPT !.pc = "seed", !.client = c]) /\ UNCHANGED contacts
    <3> DEFINE r == [req[w] EXCEPT !.pc = "seed", !.client = c]
    <3>1. r.pc = "seed" /\ r.client = c
      BY <1>0 DEF Request
    <3> HIDE DEF r
    <3>2. QED
      BY <2>7, <2>9, <3>1 DEF r
  <2>10. QED
    BY <2>1, <2>8, <2>9

<1>8. ASSUME NEW w \in Workers, SeedSupplier(w)
      PROVE  ContactInv'
  <2>1. UNCHANGED <<lead, client, attached>> /\ Finish(w)
    BY <1>8 DEF SeedSupplier
  <2>2. CASE req[w].cards = {}
    <3>1. Idle.client = Null /\ CardsFit(Idle, contacts)
      BY DEF Idle, CardsFit
    <3>2. QED
      BY <1>s, <1>8, <2>1, <2>2, <3>1, QuietContacts DEF SeedSupplier, Finish, db
  <2>3. CASE req[w].cards # {}
    <3>1. req[w].client \in SupplierIds
      BY <1>8, <1>0 DEF SeedSupplier, Shaped
    <3>2. ParentOf(req[w]) = req[w].client /\ ParentOf(req[w]) \in Parents
      BY <1>n, <3>1 DEF ParentOf, Parents, ClientIds
    <3>3. PICK p :
             contacts' = {r \in contacts : r.parent # req[w].client}
                           \union {[parent |-> req[w].client, person |-> p, primary |-> TRUE]}
      <4>1. PICK p \in SeededPersons(req[w].cards) :
              contacts' = {r \in contacts : r.parent # req[w].client}
                            \union RowsFor(req[w].client, {[person |-> p, primary |-> TRUE]})
        BY <1>8, <2>3 DEF SeedSupplier
      <4> DEFINE card == [person |-> p, primary |-> TRUE]
                 c    == req[w].client
      <4>2. card.person = p /\ card.primary = TRUE
        OBVIOUS
      <4> HIDE DEF card, c
      <4>3. RowsFor(c, {card}) = {[parent |-> c, person |-> card.person, primary |-> card.primary]}
        BY DEF RowsFor
      <4>4. QED
        BY <4>1, <4>2, <4>3 DEF card, c
    <3>4. SameBut(ParentOf(req[w]), contacts, contacts')
      BY <3>2, <3>3 DEF SameBut
    <3>5. QED
      BY <1>s, <2>1, <3>2, <3>3, <3>4, ContactsOfOne
  <2>4. QED
    BY <2>2, <2>3
<1>9. ASSUME NEW w \in Workers, NEW l \in LeadIds \union {Null}, NEW b \in BuyerIds \union {Null},
             StartAdd(w, l, b) \/ StartSetPrimary(w, l, b)
      PROVE  ContactInv'
  <2>1. UNCHANGED db /\ (b # Null => LiveClient(b))
    BY <1>9 DEF StartAdd, StartSetPrimary
  <2>2. ASSUME NEW p, NEW step \in {"addContact", "setPrimary"},
               Become(w, [Idle EXCEPT !.pc = step, !.lead = l, !.client = b, !.person = p])
        PROVE  ContactInv'
    <3> DEFINE r == [Idle EXCEPT !.pc = step, !.lead = l, !.client = b, !.person = p]
    <3>1. r.client = b /\ CardsFit(r, contacts)
      BY DEF Idle, CardsFit
    <3> HIDE DEF r
    <3>2. QED
      BY <1>s, <2>1, <2>2, <3>1, QuietContacts DEF r
  <2>3. ASSUME Become(w, [Idle EXCEPT !.pc = "attach", !.lead = l, !.client = b])
        PROVE  ContactInv'
    <3> DEFINE r == [Idle EXCEPT !.pc = "attach", !.lead = l, !.client = b]
    <3>1. r.client = b /\ CardsFit(r, contacts)
      BY DEF Idle, CardsFit
    <3> HIDE DEF r
    <3>2. QED
      BY <1>s, <2>1, <2>3, <3>1, QuietContacts DEF r
  <2>4. QED
    BY <1>9, <2>2, <2>3 DEF StartAdd, StartSetPrimary
<1>10. ASSUME NEW w \in Workers, AddContact(w)
       PROVE  ContactInv'
  <2> DEFINE p   == ParentOf(req[w])
             row == [parent |-> p, person |-> req[w].person, primary |-> FALSE]
  <2>1. p \in Parents
    BY <1>10, <1>0 DEF AddContact, Shaped
  <2>2. Finish(w) /\ UNCHANGED <<lead, client, attached>>
        /\ (contacts' = contacts \/ contacts' = contacts \union {row})
    BY <1>10 DEF AddContact
  <2>3. row.parent = p /\ row.primary = FALSE
    OBVIOUS
  <2> HIDE DEF row
  <2>4. SameBut(p, contacts, contacts')
    BY <2>2, <2>3 DEF SameBut
  <2>5. \A r, s \in contacts' : r.parent = s.parent /\ r.primary /\ s.primary => r = s
    BY <2>2, <2>3 DEF ContactInv, AtMostOnePrimary
  <2>6. QED
    BY <1>s, <2>1, <2>2, <2>4, <2>5, ContactsOfOne
<1>11. ASSUME NEW w \in Workers, Attach(w)
       PROVE  ContactInv'
  <2>1. Become(w, Idle) /\ Idle.client = Null /\ CardsFit(Idle, contacts)
    BY <1>11 DEF Attach, Finish, Idle, CardsFit
  <2>2. UNCHANGED <<lead, client, contacts>> /\ attached' = attached \union {req[w].client}
    BY <1>11 DEF Attach
  <2>3. LiveClient(req[w].client)
    BY <1>11, <1>0, <1>n DEF Attach, Shaped, ClientIds
  <2>4. ClientsHeld'
    BY <1>t, <2>1, <2>2, HeldStep DEF ContactInv
  <2>5. CardsAreFit'
    BY <1>t, <2>1, <2>2, FitStep DEF ContactInv, SameBut
  <2>6. NothingLeftBehind' /\ AtMostOnePrimary'
    BY <2>2, <2>3 DEF ContactInv, NothingLeftBehind, AtMostOnePrimary, LiveLead, LiveClient
  <2>7. QED
    BY <1>s, <2>4, <2>5, <2>6 DEF ContactInv
<1>12. ASSUME NEW w \in Workers, SetPrimary(w)
       PROVE  ContactInv'
  <2> DEFINE p == ParentOf(req[w])
  <2>1. /\ contacts' = {r \in contacts : r.parent # p} \union
             {[r EXCEPT !.primary = (r.person = req[w].person)] :
                 r \in {s \in contacts : s.parent = p}}
        /\ Finish(w) /\ UNCHANGED <<lead, client, attached>>
    BY <1>12 DEF SetPrimary
  <2>2. p \in Parents
    BY <1>12, <1>0 DEF SetPrimary, Shaped
  <2>3. \A r \in contacts : r \in Contact
    BY <1>t DEF LeadTypeOK
  <2> HIDE DEF p
  <2>4. \A x \in contacts' \ contacts : x.parent = p
    BY <2>1, <2>3 DEF Contact
  <2>5. SameBut(p, contacts, contacts')
    BY <2>1, <2>4 DEF SameBut
  <2>6. ASSUME NEW r \in contacts', r.parent = p, r.primary
        PROVE  r = [parent |-> p, person |-> req[w].person, primary |-> TRUE]
    <3>1. PICK y \in contacts : /\ y.parent = p
                                /\ r = [y EXCEPT !.primary = (y.person = req[w].person)]
      BY <2>1, <2>6
    <3>2. y \in [parent : Parents, person : Persons, primary : BOOLEAN]
      BY <2>3 DEF Contact
    <3>3. r = [parent |-> p, person |-> y.person, primary |-> (y.person = req[w].person)]
      BY <3>1, <3>2
    <3>4. y.person = req[w].person
      <4> SUFFICES ASSUME y.person # req[w].person
                   PROVE  r.primary = FALSE
        BY <2>6
      <4>1. (y.person = req[w].person) = FALSE
        OBVIOUS
      <4>2. r = [parent |-> p, person |-> y.person, primary |-> FALSE]
        BY <3>3, <4>1
      <4>3. QED
        BY <4>2
    <3>5. (y.person = req[w].person) = TRUE
      BY <3>4
    <3>6. QED
      BY <3>3, <3>4, <3>5
  <2>7. \A r, s \in contacts' : r.parent = p /\ s.parent = p /\ r.primary /\ s.primary => r = s
    BY <2>6
  <2>8. QED
    BY <1>s, <2>1, <2>2, <2>5, <2>7, ContactsOfOne DEF p
<1>13. ASSUME NEW w \in Workers, NEW b \in BuyerIds, StartDelete(w, b)
       PROVE  ContactInv'
  <2> DEFINE r == [Idle EXCEPT !.pc = "readLeadId", !.lead = client[b].lead, !.client = b]
  <2>1. UNCHANGED db /\ LiveClient(b) /\ Become(w, r)
    BY <1>13 DEF StartDelete
  <2>2. r.client = b /\ CardsFit(r, contacts)
    BY DEF Idle, CardsFit
  <2> HIDE DEF r
  <2>3. QED
    BY <1>s, <2>1, <2>2, QuietContacts
<1>14. ASSUME NEW w \in Workers, ReadLeadId(w)
       PROVE  ContactInv'
  <2> DEFINE l == IF LiveClient(req[w].client) THEN client[req[w].client].lead ELSE Null
             r == [req[w] EXCEPT !.pc = "delete", !.lead = l]
  <2>1. UNCHANGED db /\ Become(w, r)
    BY <1>14 DEF ReadLeadId
  <2> HIDE DEF l
  <2>2. r.pc = "delete" /\ r.client = req[w].client
    BY <1>0 DEF Request
  <2> HIDE DEF r
  <2>3. QED
    BY <1>s, <1>0, <2>1, <2>2, QuietContacts DEF CardsFit
<1>15. ASSUME NEW w \in Workers, DeleteParty(w)
       PROVE  ContactInv'
  <2> DEFINE b == req[w].client
             l == req[w].lead
  <2>1. /\ client' = [client EXCEPT ![b] = [state |-> "deleted", lead |-> Null]]
        /\ lead' = IF l = Null THEN lead ELSE [lead EXCEPT ![l] = [state |-> "live", client |-> Null]]
        /\ contacts' = {r \in contacts : r.parent # b}
        /\ attached' = attached \ {b}
        /\ Become(w, Idle)
    BY <1>15 DEF DeleteParty, Finish
  <2>2. b \in ClientIds /\ l \in LeadIds \union {Null} /\ ParentOf(req[w]) = b
    BY <1>15, <1>0, <1>n DEF DeleteParty, Shaped, Deleting, ClientIds, Request, ParentOf
  <2>3. \A c \in ClientIds : c # b => client'[c] = client[c]
    BY <1>t, <2>1, <2>2 DEF LeadTypeOK
  <2>4. \A k \in LeadIds : lead[k].state = "live" => lead'[k].state = "live"
    BY <1>t, <2>1, <2>2 DEF LeadTypeOK
  <2>5. \A v \in Workers \ {w} : req[v].client # b /\ req[v].lead # b /\ ParentOf(req[v]) # b
    <3>1. ASSUME NEW v \in Workers \ {w}
          PROVE  req[v].client # b /\ req[v].lead \in LeadIds \union {Null}
      BY <1>0, <1>n, <1>t, <2>2 DEF OneOwner, Request
    <3>2. QED
      BY <1>n, <2>2, <3>1 DEF ParentOf
  <2>6. Idle.client = Null /\ CardsFit(Idle, contacts')
    BY DEF Idle, CardsFit
  <2> HIDE DEF b, l
  <2>7. ClientsHeld'
    BY <1>t, <2>1, <2>3, <2>5, <2>6, HeldStep DEF ContactInv
  <2>8. SameBut(b, contacts, contacts')
    BY <2>1 DEF SameBut
  <2>9. CardsAreFit'
    BY <1>t, <2>1, <2>5, <2>6, <2>8, FitStep DEF ContactInv
  <2>10. NothingLeftBehind'
    BY <2>1, <2>3, <2>4 DEF ContactInv, NothingLeftBehind, LiveLead, LiveClient
  <2>11. AtMostOnePrimary'
    BY <2>1 DEF ContactInv, AtMostOnePrimary
  <2>12. QED
    BY <1>s, <2>7, <2>9, <2>10, <2>11 DEF ContactInv
<1>16. ASSUME NEW w \in Workers, Abort(w)
       PROVE  ContactInv'
  <2>1. Become(w, Idle) /\ Idle.client = Null /\ CardsFit(Idle, contacts)
    BY <1>16 DEF Abort, Finish, Idle, CardsFit
  <2>2. UNCHANGED db
    BY <1>16 DEF Abort
  <2>3. QED
    BY <1>s, <2>1, <2>2, QuietContacts
<1>17. CASE UNCHANGED leadVars
  BY <1>17, <1>s DEF leadVars, ContactInv, ClientsHeld, CardsAreFit, NothingLeftBehind, AtMostOnePrimary,
                   LiveLead, LiveClient
<1>18. QED
  BY <1>1, <1>2, <1>3, <1>4, <1>5, <1>6, <1>7, <1>8, <1>9, <1>10, <1>11, <1>12, <1>13, <1>14,
     <1>15, <1>16, <1>17 DEF LeadNext, Start, Insert, Convert, Touch, Delete

\* It holds of the empty tables.
LEMMA InitContactInv == LeadInit => ContactInv
<1>1. LeadInit => SerialInv
  BY InitSerialInv
<1>2. LeadInit => ClientsHeld /\ CardsAreFit /\ NothingLeftBehind /\ AtMostOnePrimary
  BY DEF LeadInit, Idle, ClientsHeld, CardsAreFit, CardsFit, NothingLeftBehind, AtMostOnePrimary
<1>3. QED
  BY <1>1, <1>2 DEF ContactInv

\* As long as the requests on one lead do not overlap, deleting a buyer leaves
\* no contact, communication, payment or document row without its parent
\* (SqlitePartyRepository.delete), whatever was being added meanwhile.
THEOREM DeletesLeaveNothing == OneRequestPerLead => (LeadSpec => []NothingLeftBehind)
<1> SUFFICES ASSUME OneRequestPerLead
             PROVE  LeadSpec => []NothingLeftBehind
  OBVIOUS
<1>1. ContactInv /\ [LeadNext]_leadVars => ContactInv'
  BY ContactInvStep
<1>2. ContactInv => NothingLeftBehind
  BY DEF ContactInv
<1>3. QED
  BY <1>1, <1>2, InitContactInv, PTL DEF LeadSpec

\* As long as the requests on one lead do not overlap, a lead, a buyer and a
\* supplier have at most one primary contact (ContactRepository.set_primary,
\* convert_from_lead, replace_contact_persons).
THEOREM PrimariesAreUnique == OneRequestPerLead => (LeadSpec => []AtMostOnePrimary)
<1> SUFFICES ASSUME OneRequestPerLead
             PROVE  LeadSpec => []AtMostOnePrimary
  OBVIOUS
<1>1. ContactInv /\ [LeadNext]_leadVars => ContactInv'
  BY ContactInvStep
<1>2. ContactInv => AtMostOnePrimary
  BY DEF ContactInv
<1>3. QED
  BY <1>1, <1>2, InitContactInv, PTL DEF LeadSpec

\* As long as the requests on one lead do not overlap, the buyer a conversion
\* inserts gets every contact its lead has at that moment, flags included, and
\* no other (convert_from_lead).
THEOREM ConversionCopiesAll == OneRequestPerLead => (LeadSpec => ContactsCopied)
<1> SUFFICES ASSUME OneRequestPerLead
             PROVE  LeadSpec => ContactsCopied
  OBVIOUS
<1>1. ContactInv /\ [LeadNext]_leadVars => ContactInv'
  BY ContactInvStep
<1> DEFINE Copied == \A w \in Workers, b \in BuyerIds :
        (ConvertFromLead(w) /\ client[b].state = "unused" /\ client'[b].state = "live") =>
            {r \in contacts' : r.parent = b} = RowsFor(b, CardsOf(req[w].lead))
<1>2. ContactInv /\ [LeadNext]_leadVars => [Copied]_leadVars
  <2> SUFFICES ASSUME ContactInv, NEW w \in Workers, NEW b \in BuyerIds,
                      ConvertFromLead(w), client[b].state = "unused", client'[b].state = "live"
               PROVE  {r \in contacts' : r.parent = b} = RowsFor(b, CardsOf(req[w].lead))
    OBVIOUS
  <2>1. LeadTypeOK /\ req[w] \in Request /\ b \in ClientIds
    BY DEF ContactInv, SerialInv, LinkInv, TInv, LeadTypeOK, ClientIds
  <2>2. PICK c \in IF req[w].to = "Buyer" THEN BuyerIds ELSE SupplierIds :
          /\ client' = [client EXCEPT ![c] = [state |-> "live", lead |-> req[w].lead]]
          /\ req[w].to = "Buyer" => contacts' = contacts \union RowsFor(c, req[w].cards)
    BY DEF ConvertFromLead, CopiedRows
  <2>3. c = b
    BY <2>1, <2>2 DEF LeadTypeOK
  <2>4. req[w].to = "Buyer"
    BY <2>2, <2>3, IdsAssumption
  <2>5. \A x \in contacts : x.parent # b
    BY <2>1, IdsAssumption DEF ContactInv, NothingLeftBehind, LiveLead, LiveClient
  <2>6. \A x \in RowsFor(b, req[w].cards) : x.parent = b
    BY DEF RowsFor
  <2>7. req[w].cards = CardsOf(req[w].lead)
    BY ReadIsCurrent DEF ConvertFromLead
  <2>8. QED
    BY <2>2, <2>3, <2>4, <2>5, <2>6, <2>7
<1>3. QED
  BY <1>1, <1>2, InitContactInv, PTL DEF LeadSpec, ContactsCopied

-----------------------------------------------------------------------------
(* The rows of a form.                                                     *)

IsRow(l) == {"product", "name", "unit", "n", "ref"} \subseteq DOMAIN l
IsForm(s) == s # <<>> /\ (\E X : s \in Seq(X)) /\ \A k \in DOMAIN s : IsRow(s[k])

\* The form of a new order: the lines of products that are pending.
LEMMA RemainingIsForm ==
    ASSUME proforma \in Seq(Lines), RemainingProducts # <<>>
    PROVE  IsForm(RemainingProducts)
<1> DEFINE places == {k \in DOMAIN proforma : PendingOf(proforma[k].product) # {}}
           offered == At(proforma, places)
           by(l) == proforma[Max(PendingOf(l.product))]
           rest == RemainingProducts
<1>1. rest = [i \in DOMAIN offered |->
                 CutDown(offered[i], by(offered[i]), Placed(by(offered[i]).product, by(offered[i]).unit))]
  BY DEF RemainingProducts
<1>2. places \in SUBSET DOMAIN proforma
  OBVIOUS
<1> HIDE DEF places
<1>3. PICK n \in Nat : DOMAIN offered = 1..n /\ \A i \in 1..n : offered[i] \in Lines
  <2>1. offered \in Seq(Lines)
    BY <1>2, AtPlaces
  <2>2. QED
    BY <2>1
<1> HIDE DEF offered, by, rest
<1>4. DOMAIN rest = 1..n /\ rest = [i \in 1..n |-> rest[i]]
  BY <1>1, <1>3
<1>5. ASSUME NEW i \in 1..n PROVE IsRow(rest[i])
  <2>1. DOMAIN rest[i] = DOMAIN offered[i] /\ offered[i] \in Lines
    BY <1>1, <1>3 DEF CutDown
  <2>2. QED
    BY <2>1 DEF Lines, IsRow
<1>6. rest \in Seq({rest[i] : i \in 1..n})
  BY <1>4
<1>7. IsForm(rest)
  BY <1>4, <1>5, <1>6 DEF IsForm, rest
<1>8. QED
  BY <1>7 DEF rest

\* What a user makes of the rows of a form is the rows of a form.
LEMMA RowsAreForms ==
    ASSUME NEW s, IsForm(s), NEW ls \in Rows(s)
    PROVE  IsForm(ls)
<1>1. PICK X : s \in Seq(X)
  BY DEF IsForm
<1>2. s # <<>> /\ \A k \in DOMAIN s : IsRow(s[k])
  BY DEF IsForm
<1>3. ls # <<>>
  BY DEF Rows
<1> DEFINE first == Head(s)
<1>4. first \in X /\ IsRow(first) /\ first = s[1] /\ DOMAIN s = 1..Len(s) /\ Len(s) \in Nat \ {0}
  BY <1>1, <1>2
<1> HIDE DEF first
<1>5. \A row \in Changed(first) : DOMAIN row = DOMAIN first
  BY DEF Changed
<1>6. \A row \in Changed(first) : IsRow(row)
  BY <1>4, <1>5 DEF IsRow
<1>7. Tail(s) \in Seq(X) /\ DOMAIN Tail(s) = 1..(Len(s) - 1)
      /\ \A k \in DOMAIN Tail(s) : Tail(s)[k] = s[k + 1]
  BY <1>1, <1>2, <1>4
<1>8. \A k \in DOMAIN Tail(s) : IsRow(Tail(s)[k])
  BY <1>2, <1>4, <1>7
<1>9. CASE ls = s
  BY <1>9
<1>10. CASE ls = Tail(s)
  BY <1>3, <1>7, <1>8, <1>10 DEF IsForm
<1>11. CASE ls = Append(Tail(s), first)
  <2>1. ls \in Seq(X) /\ \A k \in DOMAIN ls : (k \in DOMAIN Tail(s) /\ ls[k] = Tail(s)[k]) \/ ls[k] = first
    BY <1>4, <1>7, <1>11
  <2>2. QED
    BY <1>3, <1>4, <1>8, <2>1 DEF IsForm
<1>12. ASSUME NEW row \in Changed(first), ls = <<row>> \o Tail(s) PROVE IsForm(ls)
  <2> DEFINE Y == X \union {row}
  <2>1. <<row>> \in Seq(Y) /\ Tail(s) \in Seq(Y)
    BY <1>7
  <2>2. ls \in Seq(Y) /\ \A k \in DOMAIN ls : ls[k] = row \/ (k - 1 \in DOMAIN Tail(s) /\ ls[k] = Tail(s)[k - 1])
    BY <1>4, <1>7, <1>12, <2>1
  <2>3. QED
    BY <1>3, <1>6, <1>8, <2>2 DEF IsForm
<1>13. QED
  BY <1>9, <1>10, <1>11, <1>12 DEF Rows, first

\* Rows that are inserted get ids of their own, from id on.
LEMMA InsertedRows ==
    ASSUME NEW s, IsForm(s), NEW id \in Nat
    PROVE  /\ IsForm(Inserted(s, id)) /\ DOMAIN Inserted(s, id) = DOMAIN s
           /\ DOMAIN s = 1..Len(s) /\ Len(s) \in Nat
           /\ \A sr \in DOMAIN s : /\ Inserted(s, id)[sr].ref = id + sr
                                   /\ Inserted(s, id)[sr].product = s[sr].product
<1>1. PICK X : s \in Seq(X)
  BY DEF IsForm
<1>2. s # <<>> /\ (\A k \in DOMAIN s : IsRow(s[k])) /\ DOMAIN s = 1..Len(s) /\ Len(s) \in Nat \ {0}
  BY <1>1 DEF IsForm
<1> DEFINE t == Inserted(s, id)
<1>3. DOMAIN t = DOMAIN s /\ \A sr \in DOMAIN s : t[sr] = [s[sr] EXCEPT !.ref = id + sr]
  BY DEF Inserted
<1>4. ASSUME NEW sr \in DOMAIN s
      PROVE  IsRow(t[sr]) /\ t[sr].ref = id + sr /\ t[sr].product = s[sr].product
  <2>1. IsRow(s[sr]) /\ t[sr] = [s[sr] EXCEPT !.ref = id + sr]
    BY <1>2, <1>3
  <2> HIDE DEF t
  <2>2. QED
    BY <2>1 DEF IsRow
<1>5. t = [sr \in 1..Len(s) |-> t[sr]]
  BY <1>2 DEF Inserted
<1> HIDE DEF t
<1>6. t \in Seq({t[sr] : sr \in 1..Len(s)})
  BY <1>2, <1>5
<1>7. t # <<>>
  BY <1>2, <1>3
<1>8. IsForm(t)
  BY <1>3, <1>4, <1>6, <1>7 DEF IsForm
<1>9. QED
  BY <1>2, <1>3, <1>4, <1>8 DEF t

-----------------------------------------------------------------------------
(* Typing.                                                                 *)

OrderPages == {"order", "edit", "rewrite"}
BoardPages == {"board", "look", "insert", "update"}
Ats == OrderPages \union BoardPages \union {"closed", "invoice"}

\* A production row is a record of its columns; a line has one per design.
IsProd(r) ==
    /\ r = [item |-> r.item, design |-> r.design, of |-> r.of, status |-> r.status,
            batches |-> r.batches, by |-> r.by]
    /\ r.item \in Nat
OneEach(rows) == \A r, q \in rows : r.item = q.item /\ r.design = q.design => r = q
ProdShape(rows) == IsFiniteSet(rows) /\ OneEach(rows) /\ \A r \in rows : IsProd(r)

\* A page has the fields of what it shows.
PageShape(r) ==
    /\ "at" \in DOMAIN r /\ r.at \in Ats
    /\ r.at \in OrderPages => {"lines", "fresh"} \subseteq DOMAIN r /\ IsForm(r.lines)
    /\ r.at \in {"edit", "rewrite"} => "order" \in DOMAIN r
    /\ r.at = "rewrite" => "lifted" \in DOMAIN r /\ ProdShape(r.lifted)
    /\ r.at \in BoardPages => /\ {"item", "design", "of", "status", "batches"} \subseteq DOMAIN r
                              /\ r.item \in Nat

OrderShape(x) == {"kind", "lines"} \subseteq DOMAIN x /\ IsForm(x.lines)

\* The ids of the lines are issued before nextId, each to one line.
RefsIssued ==
    \A o \in DOMAIN orders : \A sr \in DOMAIN orders[o].lines :
        orders[o].lines[sr].ref \in Nat /\ orders[o].lines[sr].ref < nextId
RefsUnique ==
    \A o, q \in DOMAIN orders : \A sr \in DOMAIN orders[o].lines, tr \in DOMAIN orders[q].lines :
        orders[o].lines[sr].ref = orders[q].lines[tr].ref => o = q /\ sr = tr

\* A production row hangs on a line of a purchase order.
Hangs(r) ==
    \E o \in DOMAIN orders : /\ orders[o].kind = "order"
                             /\ \E sr \in DOMAIN orders[o].lines : orders[o].lines[sr].ref = r.item

\* The row of the production page is of a line that was, and of its product.
OfItsLine(r, next, os) ==
    r.at \in BoardPages =>
        /\ r.item < next
        /\ \A o \in DOMAIN os : \A sr \in DOMAIN os[o].lines :
              os[o].lines[sr].ref = r.item => os[o].kind = "order" /\ os[o].lines[sr].product = r.of

\* What is lifted to be put back is of a purchase order that was.
OfItsOrder(r, next, os) ==
    r.at = "rewrite" =>
        /\ r.order \in Nat /\ r.order < next
        /\ r.order \in DOMAIN os /\ r.lifted # {} => os[r.order].kind = "order"

OrdersInv ==
    /\ nextId \in Nat \ {0} /\ proforma \in Seq(Lines) /\ DOMAIN page = Users
    /\ \A o \in DOMAIN orders : o \in Nat /\ o < nextId /\ OrderShape(orders[o])
    /\ RefsIssued /\ RefsUnique
    /\ ProdShape(production) /\ \A r \in production : Hangs(r)
    /\ \A u \in Users : /\ PageShape(page[u]) /\ OfItsLine(page[u], nextId, orders)
                        /\ OfItsOrder(page[u], nextId, orders)

\* A closed page is no other.
LEMMA ClosedPage == PageShape(Closed) /\ Closed.at = "closed"
BY DEF Closed, PageShape, Ats, OrderPages, BoardPages

\* What a page of user v is after a step of another.
Passed(r, s) ==
    /\ PageShape(s) /\ s.at = r.at
    /\ r.at \in OrderPages => s.lines = r.lines /\ (s.fresh => r.fresh)
    /\ r.at \in {"edit", "rewrite"} => s.order = r.order
    /\ r.at = "rewrite" => s.lifted = r.lifted
    /\ r.at \in BoardPages => s.item = r.item /\ s.of = r.of

\* A page that is let be, and one another user leaves behind, is as it was.
LEMMA PassedBy ==
    ASSUME NEW r, PageShape(r)
    PROVE  /\ Passed(r, r)
           /\ Passed(r, [r EXCEPT !.fresh = FALSE])
           /\ r.at \in OrderPages => ~([r EXCEPT !.fresh = FALSE]).fresh
<1>1. Passed(r, r)
  BY DEF Passed
<1> DEFINE s == [r EXCEPT !.fresh = FALSE]
<1>2. DOMAIN s = DOMAIN r /\ (\A x \in DOMAIN r \ {"fresh"} : s[x] = r[x])
      /\ ("fresh" \in DOMAIN r => s.fresh = FALSE)
  OBVIOUS
<1> HIDE DEF s
<1>3. "at" \in DOMAIN r /\ s.at = r.at /\ r.at \in Ats
  BY <1>2 DEF PageShape
<1>4. r.at \in OrderPages => {"lines", "fresh"} \subseteq DOMAIN r /\ s.lines = r.lines /\ IsForm(r.lines)
  BY <1>2 DEF PageShape
<1>5. r.at \in {"edit", "rewrite"} => "order" \in DOMAIN r /\ s.order = r.order
  BY <1>2 DEF PageShape
<1>6. r.at = "rewrite" => "lifted" \in DOMAIN r /\ s.lifted = r.lifted /\ ProdShape(r.lifted)
  BY <1>2 DEF PageShape
<1>7. r.at \in BoardPages => /\ {"item", "design", "of", "status", "batches"} \subseteq DOMAIN r
                             /\ r.item \in Nat /\ s.item = r.item /\ s.of = r.of
  BY <1>2 DEF PageShape
<1>8. PageShape(s)
  BY <1>2, <1>3, <1>4, <1>5, <1>6, <1>7 DEF PageShape
<1>9. Passed(r, s)
  BY <1>2, <1>3, <1>4, <1>5, <1>6, <1>7, <1>8 DEF Passed
<1>10. QED
  BY <1>1, <1>2, <1>4, <1>9 DEF s

\* Leaving a page: the user's own is closed, those of the others are not fresh.
LEMMA LeaveStep ==
    ASSUME NEW u \in Users, NEW next, Leave(u, next), \A v \in Users : PageShape(page[v])
    PROVE  /\ DOMAIN page' = Users /\ page'[u] = next
           /\ \A v \in Users \ {u} : /\ Passed(page[v], page'[v])
                                     /\ page[v].at \in OrderPages => ~page'[v].fresh
<1>1. DOMAIN page' = Users /\ page'[u] = next
  BY DEF Leave
<1>2. ASSUME NEW v \in Users \ {u}
      PROVE  Passed(page[v], page'[v]) /\ (page[v].at \in OrderPages => ~page'[v].fresh)
  <2>1. page'[v] = IF "fresh" \in DOMAIN page[v] THEN [page[v] EXCEPT !.fresh = FALSE] ELSE page[v]
    BY DEF Leave
  <2>2. PageShape(page[v]) /\ (page[v].at \in OrderPages => "fresh" \in DOMAIN page[v])
    BY DEF PageShape
  <2>3. QED
    BY <2>1, <2>2, PassedBy
<1>3. QED
  BY <1>1, <1>2

\* A step on the user's own page leaves the others be.
LEMMA EditStep ==
    ASSUME NEW u \in Users, NEW next, page' = [page EXCEPT ![u] = next],
           DOMAIN page = Users, \A v \in Users : PageShape(page[v])
    PROVE  /\ DOMAIN page' = Users /\ page'[u] = next
           /\ \A v \in Users \ {u} : page'[v] = page[v] /\ Passed(page[v], page'[v])
<1>1. \A v \in Users \ {u} : page'[v] = page[v]
  OBVIOUS
<1>2. QED
  BY <1>1, PassedBy

\* A line's number is found by its id.
LEMMA NumberFound ==
    ASSUME NEW o \in DOMAIN orders, NEW sr \in DOMAIN orders[o].lines, RefsUnique
    PROVE  NumberOf(o, orders[o].lines[sr].ref) = sr
BY DEF NumberOf, RefsUnique

\* The values a function takes on a finite set are finitely many.
LEMMA FiniteImage ==
    ASSUME NEW S, IsFiniteSet(S), NEW f
    PROVE  IsFiniteSet({f[x] : x \in S})
<1> DEFINE T == {f[x] : x \in S}
           g == [x \in S |-> f[x]]
<1>1. g \in Surjection(S, T)
  BY DEF Surjection
<1>2. QED
  BY <1>1, FS_Surjection

\* What is lifted off the lines of an order: one row per number and design.
LEMMA LiftedRows ==
    ASSUME OrdersInv, NEW o \in DOMAIN orders
    PROVE  /\ ProdShape(Lifted(o))
           /\ \A l \in Lifted(o) : \E r \in OnOrder(production, o) :
                 l = [r EXCEPT !.item = NumberOf(o, r.item)]
           /\ \A r \in OnOrder(production, o) :
                 /\ NumberOf(o, r.item) \in DOMAIN orders[o].lines
                 /\ orders[o].lines[NumberOf(o, r.item)].ref = r.item
<1>1. OnOrder(production, o) \subseteq production /\ IsFiniteSet(OnOrder(production, o))
  <2>1. OnOrder(production, o) \in SUBSET production
    BY DEF OnOrder
  <2>2. QED
    BY <2>1, FS_Subset DEF OrdersInv, ProdShape
<1>2. ASSUME NEW r \in OnOrder(production, o)
      PROVE  /\ NumberOf(o, r.item) \in DOMAIN orders[o].lines
             /\ orders[o].lines[NumberOf(o, r.item)].ref = r.item
  <2>1. PICK sr \in DOMAIN orders[o].lines : orders[o].lines[sr].ref = r.item
    BY DEF OnOrder
  <2>2. NumberOf(o, r.item) = sr
    BY <2>1, NumberFound DEF OrdersInv
  <2>3. QED
    BY <2>1, <2>2
<1>3. DOMAIN orders[o].lines \subseteq Nat
  BY DEF OrdersInv, OrderShape, IsForm
<1> DEFINE lift(r) == [r EXCEPT !.item = NumberOf(o, r.item)]
<1>4. Lifted(o) = {lift(r) : r \in OnOrder(production, o)}
  BY DEF Lifted
<1>5. ASSUME NEW r \in OnOrder(production, o)
      PROVE  /\ IsProd(r) /\ lift(r).item = NumberOf(o, r.item) /\ lift(r).design = r.design
             /\ IsProd(lift(r))
  <2>1. IsProd(r)
    BY <1>1 DEF OrdersInv, ProdShape
  <2> DEFINE n == NumberOf(o, r.item)
  <2>2. n \in Nat
    BY <1>2, <1>3
  <2> HIDE DEF n
  <2>3. [r EXCEPT !.item = n] = [item |-> n, design |-> r.design, of |-> r.of, status |-> r.status,
                                 batches |-> r.batches, by |-> r.by]
    BY <2>1 DEF IsProd
  <2>4. /\ [r EXCEPT !.item = n].item = n /\ [r EXCEPT !.item = n].design = r.design
        /\ IsProd([r EXCEPT !.item = n])
    BY <2>2, <2>3 DEF IsProd
  <2>5. QED
    BY <2>1, <2>4 DEF n
<1> HIDE DEF lift
<1>6. OneEach(Lifted(o))
  <2>1. SUFFICES ASSUME NEW a \in OnOrder(production, o), NEW b \in OnOrder(production, o),
                        lift(a).item = lift(b).item, lift(a).design = lift(b).design
                 PROVE  a = b
    BY <1>4 DEF OneEach
  <2>2. a.item = b.item /\ a.design = b.design
    BY <1>2, <1>5, <2>1
  <2>3. QED
    BY <1>1, <2>2 DEF OrdersInv, ProdShape, OneEach
<1>7. IsFiniteSet(Lifted(o))
  <2> DEFINE f == [r \in OnOrder(production, o) |-> lift(r)]
  <2>1. Lifted(o) = {f[r] : r \in OnOrder(production, o)} /\ DOMAIN f = OnOrder(production, o)
    BY <1>4
  <2> HIDE DEF f
  <2>2. QED
    BY <1>1, <2>1, FiniteImage
<1>8. QED
  BY <1>2, <1>4, <1>5, <1>6, <1>7 DEF ProdShape, lift

-----------------------------------------------------------------------------
(* The kinds of steps there are, by what they do to orders and production.  *)

\* A user opens or closes a page, or goes on with a production row.
PageStep(u) ==
    \E next : /\ page' = [page EXCEPT ![u] = next] /\ UNCHANGED <<store, shuffled>>
              /\ PageShape(next) /\ next.at # "rewrite" /\ OfItsLine(next, nextId, orders)
\* A save of an order has read the production of its lines.
LiftStep(u) ==
    /\ page[u].at = "edit" /\ page[u].order \in DOMAIN orders
    /\ \E lines : /\ IsForm(lines)
                  /\ page' = [page EXCEPT ![u] = [at |-> "rewrite", order |-> page[u].order,
                                                  lines |-> lines, fresh |-> TRUE,
                                                  lifted |-> Lifted(page[u].order)]]
    /\ UNCHANGED <<store, shuffled>>
NewStep(u) ==
    /\ \E lines, kind : /\ IsForm(lines) /\ nextId' = nextId + Len(lines) + 1
                        /\ orders' = Put(orders, nextId, [kind |-> kind,
                                                          lines |-> Inserted(lines, nextId)])
    /\ Leave(u, Closed) /\ UNCHANGED <<proforma, production, shuffled>>
RewriteStep(u) == RewriteLines(u) /\ page[u].order \in DOMAIN orders
DropStep(u) ==
    /\ \E o \in DOMAIN orders : /\ orders' = Drop(orders, o)
                                /\ production' = production \ OnOrder(production, o)
    /\ Leave(u, Closed) /\ UNCHANGED <<proforma, nextId, shuffled>>
\* Invoices, the packing list, and a save that found its order gone.
AsideStep(u) ==
    /\ nextId' \in {nextId, nextId + 1}
    /\ Leave(u, Closed) /\ UNCHANGED <<proforma, orders, production, shuffled>>

\* What was there before a step is there after it, or gone; what is new is newer.
Aged ==
    /\ nextId' \in Nat /\ nextId <= nextId'
    /\ \A o \in DOMAIN orders' : o < nextId => o \in DOMAIN orders /\ orders'[o].kind = orders[o].kind
    /\ \A o \in DOMAIN orders' : \A sr \in DOMAIN orders'[o].lines :
          orders'[o].lines[sr].ref < nextId => o \in DOMAIN orders /\ orders'[o] = orders[o]

\* The pages after a step that left the others' open.
LEMMA PagesPassed ==
    ASSUME OrdersInv, Aged, NEW u \in Users, DOMAIN page' = Users,
           PageShape(page'[u]), OfItsLine(page'[u], nextId', orders'),
           OfItsOrder(page'[u], nextId', orders'),
           \A v \in Users \ {u} : Passed(page[v], page'[v])
    PROVE  \A v \in Users : /\ PageShape(page'[v]) /\ OfItsLine(page'[v], nextId', orders')
                            /\ OfItsOrder(page'[v], nextId', orders')
<1> SUFFICES ASSUME NEW v \in Users \ {u}
             PROVE  /\ PageShape(page'[v]) /\ OfItsLine(page'[v], nextId', orders')
                    /\ OfItsOrder(page'[v], nextId', orders')
  OBVIOUS
<1> DEFINE r == page[v]
           s == page'[v]
<1>1. /\ PageShape(r) /\ OfItsLine(r, nextId, orders) /\ OfItsOrder(r, nextId, orders)
      /\ Passed(r, s) /\ nextId \in Nat
  BY DEF OrdersInv
<1>2. /\ nextId' \in Nat /\ nextId <= nextId'
      /\ \A o \in DOMAIN orders' : o < nextId => o \in DOMAIN orders /\ orders'[o].kind = orders[o].kind
      /\ \A o \in DOMAIN orders' : \A sr \in DOMAIN orders'[o].lines :
            orders'[o].lines[sr].ref < nextId => o \in DOMAIN orders /\ orders'[o] = orders[o]
  BY DEF Aged
<1> HIDE DEF r, s
<1>3. PageShape(s) /\ s.at = r.at
  BY <1>1 DEF Passed
<1>4. OfItsLine(s, nextId', orders')
  <2>1. SUFFICES ASSUME s.at \in BoardPages
                 PROVE  /\ s.item < nextId'
                        /\ \A o \in DOMAIN orders' : \A sr \in DOMAIN orders'[o].lines :
                              orders'[o].lines[sr].ref = s.item =>
                                  orders'[o].kind = "order" /\ orders'[o].lines[sr].product = s.of
    BY DEF OfItsLine
  <2>2. s.item = r.item /\ s.of = r.of /\ r.item \in Nat /\ r.item < nextId
    BY <1>1, <1>3, <2>1 DEF Passed, PageShape, OfItsLine
  <2>3. \A o \in DOMAIN orders : \A sr \in DOMAIN orders[o].lines :
           orders[o].lines[sr].ref = r.item => orders[o].kind = "order" /\ orders[o].lines[sr].product = r.of
    BY <1>1, <1>3, <2>1 DEF OfItsLine
  <2>4. QED
    BY <1>1, <1>2, <2>2, <2>3
<1>5. OfItsOrder(s, nextId', orders')
  <2>1. SUFFICES ASSUME s.at = "rewrite"
                 PROVE  /\ s.order \in Nat /\ s.order < nextId'
                        /\ s.order \in DOMAIN orders' /\ s.lifted # {} => orders'[s.order].kind = "order"
    BY DEF OfItsOrder
  <2>2. s.order = r.order /\ s.lifted = r.lifted
    BY <1>1, <1>3, <2>1 DEF Passed
  <2>3. /\ r.order \in Nat /\ r.order < nextId
        /\ r.order \in DOMAIN orders /\ r.lifted # {} => orders[r.order].kind = "order"
    BY <1>1, <1>3, <2>1 DEF OfItsOrder
  <2>4. QED
    BY <1>1, <1>2, <2>2, <2>3
<1>6. QED
  BY <1>3, <1>4, <1>5 DEF r, s

\* The tables after lines of an order were inserted: they have ids of their own.
LEMMA LinesInserted ==
    ASSUME OrdersInv, NEW x \in Nat, x <= nextId, NEW lines, IsForm(lines),
           DOMAIN orders' = DOMAIN orders \union {x},
           \A o \in DOMAIN orders \ {x} : orders'[o] = orders[o],
           {"kind", "lines"} \subseteq DOMAIN orders'[x],
           x \in DOMAIN orders => orders'[x].kind = orders[x].kind, x \in DOMAIN orders \/ x = nextId,
           orders'[x].lines = Inserted(lines, nextId), nextId' = nextId + Len(lines) + 1
    PROVE  /\ Aged /\ nextId' \in Nat \ {0} /\ RefsIssued' /\ RefsUnique'
           /\ \A o \in DOMAIN orders' : o \in Nat /\ o < nextId' /\ OrderShape(orders'[o])
           /\ DOMAIN orders'[x].lines = DOMAIN lines /\ DOMAIN lines \subseteq Nat \ {0}
           /\ \A sr \in DOMAIN lines : /\ orders'[x].lines[sr].ref = nextId + sr
                                       /\ orders'[x].lines[sr].product = lines[sr].product
<1> DEFINE ls == orders'[x].lines
<1>1. nextId \in Nat \ {0}
  BY DEF OrdersInv
<1>2. /\ IsForm(ls) /\ DOMAIN ls = DOMAIN lines /\ DOMAIN lines = 1..Len(lines) /\ Len(lines) \in Nat
      /\ \A sr \in DOMAIN lines : ls[sr].ref = nextId + sr /\ ls[sr].product = lines[sr].product
  BY <1>1, InsertedRows
<1>3. /\ nextId' \in Nat \ {0} /\ nextId < nextId'
      /\ \A sr \in DOMAIN ls : ls[sr].ref \in Nat /\ ls[sr].ref > nextId /\ ls[sr].ref < nextId'
  BY <1>1, <1>2
<1>4. /\ \A o \in DOMAIN orders : o \in Nat /\ o < nextId /\ OrderShape(orders[o])
      /\ RefsIssued /\ RefsUnique
  BY DEF OrdersInv
<1>5. ASSUME NEW o \in DOMAIN orders', o # x
      PROVE  /\ o \in DOMAIN orders /\ orders'[o] = orders[o]
             /\ \A sr \in DOMAIN orders'[o].lines : /\ orders'[o].lines[sr].ref \in Nat
                                                    /\ orders'[o].lines[sr].ref < nextId
  BY <1>4, <1>5 DEF RefsIssued
<1> HIDE DEF ls
<1>6. \A o \in DOMAIN orders' : o \in Nat /\ o < nextId' /\ OrderShape(orders'[o])
  <2>1. OrderShape(orders'[x]) /\ x < nextId'
    BY <1>1, <1>2, <1>3 DEF OrderShape, ls
  <2>2. QED
    BY <1>1, <1>3, <1>4, <1>5, <2>1
<1>7. RefsIssued'
  BY <1>1, <1>3, <1>5 DEF RefsIssued, ls
<1>8. RefsUnique'
  <2>1. SUFFICES ASSUME NEW o \in DOMAIN orders', NEW q \in DOMAIN orders',
                        NEW sr \in DOMAIN orders'[o].lines, NEW tr \in DOMAIN orders'[q].lines,
                        orders'[o].lines[sr].ref = orders'[q].lines[tr].ref
                 PROVE  o = q /\ sr = tr
    BY DEF RefsUnique
  <2>2. CASE o = x /\ q = x
    BY <1>1, <1>2, <2>1, <2>2 DEF ls
  <2>3. CASE o # x /\ q # x
    BY <1>4, <1>5, <2>1, <2>3 DEF RefsUnique
  <2>4. CASE o = x /\ q # x
    BY <1>1, <1>3, <1>5, <2>1, <2>4 DEF ls
  <2>5. CASE o # x /\ q = x
    BY <1>1, <1>3, <1>5, <2>1, <2>5 DEF ls
  <2>6. QED
    BY <2>2, <2>3, <2>4, <2>5
<1>9. Aged
  <2>1. \A o \in DOMAIN orders' : o < nextId => o \in DOMAIN orders /\ orders'[o].kind = orders[o].kind
    BY <1>1, <1>5
  <2>2. \A sr \in DOMAIN ls : ~(ls[sr].ref < nextId)
    BY <1>1, <1>3
  <2>3. \A o \in DOMAIN orders' : \A sr \in DOMAIN orders'[o].lines :
           orders'[o].lines[sr].ref < nextId => o \in DOMAIN orders /\ orders'[o] = orders[o]
    BY <1>5, <2>2 DEF ls
  <2>4. QED
    BY <1>1, <1>3, <2>1, <2>3 DEF Aged
<1>10. QED
  BY <1>2, <1>3, <1>6, <1>7, <1>8, <1>9 DEF ls

-----------------------------------------------------------------------------
(* Every kind of step keeps the typing.                                    *)

\* A step that leaves what the lines say, and every page but one that shows none.
LEMMA AgedWhenKept ==
    ASSUME OrdersInv, UNCHANGED orders, nextId' \in Nat, nextId <= nextId'
    PROVE  /\ Aged /\ nextId' \in Nat \ {0} /\ RefsIssued' /\ RefsUnique'
           /\ \A o \in DOMAIN orders' : o \in Nat /\ o < nextId' /\ OrderShape(orders'[o])
<1>1. nextId \in Nat \ {0} /\ RefsIssued /\ RefsUnique
      /\ \A o \in DOMAIN orders : o \in Nat /\ o < nextId /\ OrderShape(orders[o])
  BY DEF OrdersInv
<1>2. RefsIssued'
  BY <1>1 DEF RefsIssued
<1>3. RefsUnique'
  BY <1>1 DEF RefsUnique
<1>4. Aged
  BY DEF Aged
<1>5. QED
  BY <1>1, <1>2, <1>3, <1>4

\* A closed page says nothing of a line or of an order.
LEMMA ClosedSaysNothing ==
    ASSUME NEW next, NEW os
    PROVE  /\ PageShape(Closed) /\ OfItsLine(Closed, next, os) /\ OfItsOrder(Closed, next, os)
BY ClosedPage DEF OfItsLine, OfItsOrder, BoardPages

\* The pages after a user has written and closed the page.
LEMMA PagesAfterLeave ==
    ASSUME OrdersInv, Aged, NEW u \in Users, Leave(u, Closed)
    PROVE  /\ DOMAIN page' = Users
           /\ \A v \in Users : /\ PageShape(page'[v]) /\ OfItsLine(page'[v], nextId', orders')
                               /\ OfItsOrder(page'[v], nextId', orders')
<1>1. \A v \in Users : PageShape(page[v])
  BY DEF OrdersInv
<1>2. DOMAIN page' = Users /\ page'[u] = Closed /\ \A v \in Users \ {u} : Passed(page[v], page'[v])
  BY <1>1, LeaveStep
<1>3. QED
  BY <1>2, ClosedSaysNothing, PagesPassed

LEMMA PageKeeps ==
    ASSUME OrdersInv, NEW u \in Users, PageStep(u)
    PROVE  OrdersInv'
<1>1. PICK next : /\ page' = [page EXCEPT ![u] = next] /\ UNCHANGED <<store, shuffled>>
                  /\ PageShape(next) /\ next.at # "rewrite" /\ OfItsLine(next, nextId, orders)
  BY DEF PageStep
<1>2. UNCHANGED <<proforma, orders, production, nextId>>
  BY <1>1 DEF store
<1>3. /\ nextId \in Nat \ {0} /\ proforma \in Seq(Lines) /\ DOMAIN page = Users
      /\ ProdShape(production) /\ (\A r \in production : Hangs(r))
      /\ \A v \in Users : PageShape(page[v])
  BY DEF OrdersInv
<1>4. DOMAIN page' = Users /\ page'[u] = next /\ \A v \in Users \ {u} : Passed(page[v], page'[v])
  BY <1>1, <1>3, EditStep
<1>5. OfItsOrder(next, nextId', orders')
  BY <1>1 DEF OfItsOrder
<1>6. /\ Aged /\ RefsIssued' /\ RefsUnique'
      /\ \A o \in DOMAIN orders' : o \in Nat /\ o < nextId' /\ OrderShape(orders'[o])
  BY <1>2, <1>3, AgedWhenKept
<1>7. \A v \in Users : /\ PageShape(page'[v]) /\ OfItsLine(page'[v], nextId', orders')
                       /\ OfItsOrder(page'[v], nextId', orders')
  BY <1>1, <1>2, <1>4, <1>5, <1>6, PagesPassed
<1>8. ProdShape(production') /\ \A r \in production' : Hangs(r)'
  BY <1>2, <1>3 DEF Hangs
<1>9. QED
  BY <1>2, <1>3, <1>4, <1>6, <1>7, <1>8 DEF OrdersInv

LEMMA LiftKeeps ==
    ASSUME OrdersInv, NEW u \in Users, LiftStep(u)
    PROVE  OrdersInv'
<1> DEFINE o == page[u].order
<1>1. PICK lines : /\ IsForm(lines)
                   /\ page' = [page EXCEPT ![u] = [at |-> "rewrite", order |-> o, lines |-> lines,
                                                  fresh |-> TRUE, lifted |-> Lifted(o)]]
  BY DEF LiftStep
<1>2. o \in DOMAIN orders /\ UNCHANGED <<proforma, orders, production, nextId>>
  BY DEF LiftStep, store
<1>3. /\ nextId \in Nat \ {0} /\ proforma \in Seq(Lines) /\ DOMAIN page = Users
      /\ ProdShape(production) /\ (\A r \in production : Hangs(r)) /\ RefsUnique
      /\ o \in Nat /\ o < nextId
      /\ \A v \in Users : PageShape(page[v])
  BY <1>2 DEF OrdersInv
<1> HIDE DEF o
<1> DEFINE next == [at |-> "rewrite", order |-> o, lines |-> lines, fresh |-> TRUE, lifted |-> Lifted(o)]
<1>4. /\ {"at", "order", "lines", "fresh", "lifted"} \subseteq DOMAIN next
      /\ next.at = "rewrite" /\ next.order = o /\ next.lines = lines /\ next.lifted = Lifted(o)
  OBVIOUS
<1>5. page' = [page EXCEPT ![u] = next]
  BY <1>1
<1> HIDE DEF next
<1>6. PageShape(next) /\ OfItsLine(next, nextId', orders')
  BY <1>1, <1>2, <1>4, LiftedRows
     DEF PageShape, OfItsLine, Ats, OrderPages, BoardPages
<1>7. OfItsOrder(next, nextId', orders')
  <2>1. ASSUME Lifted(o) # {} PROVE orders[o].kind = "order"
    <3>1. PICK r \in OnOrder(production, o) : TRUE
      BY <2>1 DEF Lifted
    <3>2. r \in production /\ \E sr \in DOMAIN orders[o].lines : orders[o].lines[sr].ref = r.item
      BY DEF OnOrder
    <3>3. PICK q \in DOMAIN orders : /\ orders[q].kind = "order"
                                     /\ \E sr \in DOMAIN orders[q].lines : orders[q].lines[sr].ref = r.item
      BY <1>3, <3>2 DEF Hangs
    <3>4. q = o
      BY <1>2, <1>3, <3>2, <3>3 DEF RefsUnique
    <3>5. QED
      BY <3>3, <3>4
  <2>2. QED
    BY <1>2, <1>3, <1>4, <2>1 DEF OfItsOrder
<1>8. DOMAIN page' = Users /\ page'[u] = next /\ \A v \in Users \ {u} : Passed(page[v], page'[v])
  BY <1>3, <1>5, EditStep
<1>9. /\ Aged /\ RefsIssued' /\ RefsUnique'
      /\ \A q \in DOMAIN orders' : q \in Nat /\ q < nextId' /\ OrderShape(orders'[q])
  BY <1>2, <1>3, AgedWhenKept
<1>10. \A v \in Users : /\ PageShape(page'[v]) /\ OfItsLine(page'[v], nextId', orders')
                        /\ OfItsOrder(page'[v], nextId', orders')
  BY <1>6, <1>7, <1>8, <1>9, PagesPassed
<1>11. ProdShape(production') /\ \A r \in production' : Hangs(r)'
  BY <1>2, <1>3 DEF Hangs
<1>12. QED
  BY <1>2, <1>3, <1>8, <1>9, <1>10, <1>11 DEF OrdersInv

LEMMA AsideKeeps ==
    ASSUME OrdersInv, NEW u \in Users, AsideStep(u)
    PROVE  OrdersInv'
<1>1. nextId' \in {nextId, nextId + 1} /\ Leave(u, Closed) /\ UNCHANGED <<proforma, orders, production>>
  BY DEF AsideStep
<1>2. /\ nextId \in Nat \ {0} /\ proforma \in Seq(Lines)
      /\ ProdShape(production) /\ (\A r \in production : Hangs(r))
  BY DEF OrdersInv
<1>3. nextId' \in Nat /\ nextId <= nextId'
  BY <1>1, <1>2
<1>4. /\ Aged /\ nextId' \in Nat \ {0} /\ RefsIssued' /\ RefsUnique'
      /\ \A o \in DOMAIN orders' : o \in Nat /\ o < nextId' /\ OrderShape(orders'[o])
  BY <1>1, <1>3, AgedWhenKept
<1>5. /\ DOMAIN page' = Users
      /\ \A v \in Users : /\ PageShape(page'[v]) /\ OfItsLine(page'[v], nextId', orders')
                          /\ OfItsOrder(page'[v], nextId', orders')
  BY <1>1, <1>4, PagesAfterLeave
<1>6. ProdShape(production') /\ \A r \in production' : Hangs(r)'
  BY <1>1, <1>2 DEF Hangs
<1>7. QED
  BY <1>1, <1>2, <1>4, <1>5, <1>6 DEF OrdersInv

LEMMA NewKeeps ==
    ASSUME OrdersInv, NEW u \in Users, NewStep(u)
    PROVE  OrdersInv'
<1>1. PICK lines, kind : /\ IsForm(lines) /\ nextId' = nextId + Len(lines) + 1
                         /\ orders' = Put(orders, nextId, [kind |-> kind,
                                                           lines |-> Inserted(lines, nextId)])
  BY DEF NewStep
<1>2. Leave(u, Closed) /\ UNCHANGED <<proforma, production>>
  BY DEF NewStep
<1>3. /\ nextId \in Nat \ {0} /\ proforma \in Seq(Lines)
      /\ ProdShape(production) /\ (\A r \in production : Hangs(r))
      /\ \A o \in DOMAIN orders : o \in Nat /\ o < nextId
  BY DEF OrdersInv
<1> DEFINE x == [kind |-> kind, lines |-> Inserted(lines, nextId)]
<1>4. {"kind", "lines"} \subseteq DOMAIN x /\ x.lines = Inserted(lines, nextId)
  OBVIOUS
<1>5. orders' = Put(orders, nextId, x)
  BY <1>1
<1> HIDE DEF x
<1>6. /\ DOMAIN orders' = DOMAIN orders \union {nextId} /\ orders'[nextId] = x
      /\ \A o \in DOMAIN orders \ {nextId} : orders'[o] = orders[o]
  BY <1>5 DEF Put
<1>7. nextId \notin DOMAIN orders
  BY <1>3
<1>8. /\ Aged /\ nextId' \in Nat \ {0} /\ RefsIssued' /\ RefsUnique'
      /\ \A o \in DOMAIN orders' : o \in Nat /\ o < nextId' /\ OrderShape(orders'[o])
  <2>1. /\ nextId \in Nat /\ nextId <= nextId /\ nextId \notin DOMAIN orders
        /\ {"kind", "lines"} \subseteq DOMAIN orders'[nextId]
        /\ orders'[nextId].lines = Inserted(lines, nextId)
    BY <1>3, <1>4, <1>6, <1>7
  <2>2. QED
    BY <1>1, <1>6, <2>1, LinesInserted
<1>9. /\ DOMAIN page' = Users
      /\ \A v \in Users : /\ PageShape(page'[v]) /\ OfItsLine(page'[v], nextId', orders')
                          /\ OfItsOrder(page'[v], nextId', orders')
  BY <1>2, <1>8, PagesAfterLeave
<1>10. ProdShape(production') /\ \A r \in production' : Hangs(r)'
  <2>1. ASSUME NEW r \in production PROVE Hangs(r)'
    <3>1. PICK o \in DOMAIN orders : /\ orders[o].kind = "order"
                                     /\ \E sr \in DOMAIN orders[o].lines : orders[o].lines[sr].ref = r.item
      BY <1>3, <2>1 DEF Hangs
    <3>2. o \in DOMAIN orders' /\ orders'[o] = orders[o]
      BY <1>6, <1>7
    <3>3. QED
      BY <3>1, <3>2 DEF Hangs
  <2>2. QED
    BY <1>2, <1>3, <2>1
<1>11. QED
  BY <1>2, <1>3, <1>8, <1>9, <1>10 DEF OrdersInv

LEMMA DropKeeps ==
    ASSUME OrdersInv, NEW u \in Users, DropStep(u)
    PROVE  OrdersInv'
<1>1. PICK o \in DOMAIN orders : /\ orders' = Drop(orders, o)
                                 /\ production' = production \ OnOrder(production, o)
  BY DEF DropStep
<1>2. Leave(u, Closed) /\ UNCHANGED <<proforma, nextId>>
  BY DEF DropStep
<1>3. /\ nextId \in Nat \ {0} /\ proforma \in Seq(Lines) /\ RefsIssued /\ RefsUnique
      /\ ProdShape(production) /\ (\A r \in production : Hangs(r))
      /\ \A q \in DOMAIN orders : q \in Nat /\ q < nextId /\ OrderShape(orders[q])
  BY DEF OrdersInv
<1>4. DOMAIN orders' = DOMAIN orders \ {o} /\ \A q \in DOMAIN orders' : orders'[q] = orders[q]
  BY <1>1 DEF Drop
<1>5. RefsIssued' /\ RefsUnique'
  BY <1>2, <1>3, <1>4 DEF RefsIssued, RefsUnique
<1>6. Aged
  BY <1>2, <1>3, <1>4 DEF Aged
<1>7. /\ DOMAIN page' = Users
      /\ \A v \in Users : /\ PageShape(page'[v]) /\ OfItsLine(page'[v], nextId', orders')
                          /\ OfItsOrder(page'[v], nextId', orders')
  BY <1>2, <1>6, PagesAfterLeave
<1>8. ProdShape(production')
  <2>1. production' \in SUBSET production
    BY <1>1
  <2>2. QED
    BY <1>3, <2>1, FS_Subset DEF ProdShape, OneEach
<1>9. \A r \in production' : Hangs(r)'
  BY <1>1, <1>3, <1>4 DEF Hangs, OnOrder
<1>10. QED
  BY <1>2, <1>3, <1>4, <1>5, <1>7, <1>8, <1>9 DEF OrdersInv

\* What is put back: a row per row that was lifted from a number still there.
LEMMA RepointedRows ==
    ASSUME NEW lifted, ProdShape(lifted), NEW lines, DOMAIN lines \subseteq Nat, NEW id \in Nat
    PROVE  /\ ProdShape(Repointed(lifted, lines, id))
           /\ \A q \in Repointed(lifted, lines, id) :
                 \E l \in lifted : /\ l.item \in DOMAIN lines /\ q.item = id + l.item
                                   /\ q.design = l.design /\ q.of = l.of
           /\ \A l \in lifted : l.item \in DOMAIN lines =>
                 [l EXCEPT !.item = id + l.item] \in Repointed(lifted, lines, id)
<1> DEFINE some == {r \in lifted : r.item \in DOMAIN lines}
           back(r) == [r EXCEPT !.item = id + r.item]
           rep == Repointed(lifted, lines, id)
<1>1. rep = {back(r) : r \in some}
  BY DEF Repointed
<1>2. ASSUME NEW r \in some
      PROVE  /\ IsProd(back(r)) /\ r \in lifted /\ IsProd(r) /\ r.item \in DOMAIN lines /\ r.item \in Nat
             /\ back(r).item = id + r.item /\ back(r).design = r.design /\ back(r).of = r.of
  <2>1. r \in lifted /\ IsProd(r) /\ r.item \in DOMAIN lines
    BY DEF ProdShape
  <2> DEFINE n == id + r.item
  <2>2. n \in Nat
    BY <2>1
  <2> HIDE DEF n
  <2>3. [r EXCEPT !.item = n] = [item |-> n, design |-> r.design, of |-> r.of, status |-> r.status,
                                 batches |-> r.batches, by |-> r.by]
    BY <2>1 DEF IsProd
  <2>4. /\ IsProd([r EXCEPT !.item = n]) /\ [r EXCEPT !.item = n].item = n
        /\ [r EXCEPT !.item = n].design = r.design /\ [r EXCEPT !.item = n].of = r.of
    BY <2>2, <2>3 DEF IsProd
  <2>5. QED
    BY <2>1, <2>4 DEF n
<1>3. IsFiniteSet(rep)
  <2>1. some \in SUBSET lifted
    OBVIOUS
  <2>2. IsFiniteSet(some)
    BY <2>1, FS_Subset DEF ProdShape
  <2> HIDE DEF some, back
  <2> DEFINE f == [r \in some |-> back(r)]
  <2>3. rep = {f[r] : r \in some}
    BY <1>1
  <2> HIDE DEF f
  <2>4. QED
    BY <2>2, <2>3, FiniteImage
<1>4. \A l \in lifted : l.item \in DOMAIN lines => l \in some
  OBVIOUS
<1>5. \A l \in lifted : l.item \in DOMAIN lines => [l EXCEPT !.item = id + l.item] \in rep
  BY <1>1, <1>4
<1> HIDE DEF some, back, rep
<1>6. OneEach(rep)
  <2>1. SUFFICES ASSUME NEW a \in some, NEW b \in some,
                        back(a).item = back(b).item, back(a).design = back(b).design
                 PROVE  a = b
    BY <1>1 DEF OneEach
  <2>2. a.item = b.item /\ a.design = b.design
    BY <1>2, <2>1
  <2>3. QED
    BY <1>2, <2>2 DEF ProdShape, OneEach
<1>7. QED
  BY <1>1, <1>2, <1>3, <1>5, <1>6 DEF ProdShape, rep

\* The tables after the lines of an order are rewritten.
LEMMA RewriteTables ==
    ASSUME OrdersInv, NEW u \in Users, RewriteStep(u), NEW o, o = page[u].order,
           NEW lines, lines = page[u].lines, NEW lifted, lifted = page[u].lifted
    PROVE  /\ Aged /\ nextId' \in Nat \ {0} /\ RefsIssued' /\ RefsUnique'
           /\ \A q \in DOMAIN orders' : q \in Nat /\ q < nextId' /\ OrderShape(orders'[q])
           /\ DOMAIN orders' = DOMAIN orders /\ o \in DOMAIN orders
           /\ \A q \in DOMAIN orders \ {o} : orders'[q] = orders[q]
           /\ orders'[o].kind = orders[o].kind
           /\ DOMAIN orders'[o].lines = DOMAIN lines /\ DOMAIN lines \subseteq Nat \ {0}
           /\ \A sr \in DOMAIN lines : /\ orders'[o].lines[sr].ref = nextId + sr
                                       /\ orders'[o].lines[sr].product = lines[sr].product
           /\ production' = (production \ OnOrder(production, o))
                                \union Repointed(lifted, lines, nextId)
           /\ Leave(u, Closed) /\ proforma' = proforma
           /\ ProdShape(lifted)
           /\ page[u].at = "rewrite"
<1>1. /\ page[u].at = "rewrite" /\ o \in DOMAIN orders /\ Leave(u, Closed) /\ proforma' = proforma
      /\ orders' = [orders EXCEPT ![o].lines = Inserted(lines, nextId)]
      /\ nextId' = nextId + Len(lines) + 1
      /\ production' = (production \ OnOrder(production, o))
                           \union Repointed(lifted, lines, nextId)
  BY DEF RewriteStep, RewriteLines
<1>2. /\ nextId \in Nat /\ PageShape(page[u]) /\ OrderShape(orders[o]) /\ o \in Nat /\ o <= nextId
  BY <1>1 DEF OrdersInv
<1>3. IsForm(lines) /\ ProdShape(lifted)
  BY <1>1, <1>2 DEF PageShape, OrderPages
<1>4. /\ DOMAIN orders' = DOMAIN orders
      /\ \A q \in DOMAIN orders \ {o} : orders'[q] = orders[q]
      /\ orders'[o] = [orders[o] EXCEPT !.lines = Inserted(lines, nextId)]
  BY <1>1
<1>5. /\ DOMAIN orders'[o] = DOMAIN orders[o] /\ orders'[o].kind = orders[o].kind
      /\ orders'[o].lines = Inserted(lines, nextId) /\ {"kind", "lines"} \subseteq DOMAIN orders'[o]
  BY <1>2, <1>4 DEF OrderShape
<1>6. DOMAIN orders' = DOMAIN orders \union {o}
  BY <1>1, <1>4
<1>7. /\ Aged /\ nextId' \in Nat \ {0} /\ RefsIssued' /\ RefsUnique'
      /\ \A q \in DOMAIN orders' : q \in Nat /\ q < nextId' /\ OrderShape(orders'[q])
      /\ DOMAIN orders'[o].lines = DOMAIN lines /\ DOMAIN lines \subseteq Nat \ {0}
      /\ \A sr \in DOMAIN lines : /\ orders'[o].lines[sr].ref = nextId + sr
                                  /\ orders'[o].lines[sr].product = lines[sr].product
  <2>1. /\ o \in Nat /\ o <= nextId /\ IsForm(lines) /\ DOMAIN orders' = DOMAIN orders \union {o}
        /\ \A q \in DOMAIN orders \ {o} : orders'[q] = orders[q]
        /\ {"kind", "lines"} \subseteq DOMAIN orders'[o] /\ orders'[o].kind = orders[o].kind
        /\ o \in DOMAIN orders /\ orders'[o].lines = Inserted(lines, nextId)
    BY <1>1, <1>2, <1>3, <1>4, <1>5, <1>6
  <2>2. nextId' = nextId + Len(lines) + 1
    BY <1>1
  <2>3. o \in DOMAIN orders => orders'[o].kind = orders[o].kind
    BY <2>1
  <2>4. o \in DOMAIN orders \/ o = nextId
    BY <2>1
  <2>5. QED
    BY <2>1, <2>2, <2>3, <2>4, LinesInserted
<1>8. QED
  BY <1>1, <1>3, <1>4, <1>5, <1>7

LEMMA RewriteKeeps ==
    ASSUME OrdersInv, NEW u \in Users, RewriteStep(u)
    PROVE  OrdersInv'
<1>0. PICK o, lines, lifted :
          o = page[u].order /\ lines = page[u].lines /\ lifted = page[u].lifted
  OBVIOUS
<1> DEFINE rep == Repointed(lifted, lines, nextId)
<1>1. /\ Aged /\ nextId' \in Nat \ {0} /\ RefsIssued' /\ RefsUnique'
      /\ \A q \in DOMAIN orders' : q \in Nat /\ q < nextId' /\ OrderShape(orders'[q])
      /\ DOMAIN orders' = DOMAIN orders /\ o \in DOMAIN orders
      /\ \A q \in DOMAIN orders \ {o} : orders'[q] = orders[q]
      /\ orders'[o].kind = orders[o].kind
      /\ DOMAIN orders'[o].lines = DOMAIN lines /\ DOMAIN lines \subseteq Nat \ {0}
      /\ \A sr \in DOMAIN lines : orders'[o].lines[sr].ref = nextId + sr
      /\ production' = (production \ OnOrder(production, o)) \union rep
      /\ Leave(u, Closed) /\ proforma' = proforma
      /\ ProdShape(lifted) /\ page[u].at = "rewrite"
  BY <1>0, RewriteTables
<1>2. /\ nextId \in Nat \ {0} /\ proforma \in Seq(Lines) /\ RefsIssued
      /\ ProdShape(production) /\ (\A r \in production : Hangs(r))
      /\ OfItsOrder(page[u], nextId, orders)
  BY DEF OrdersInv
<1>3. lifted # {} => orders[o].kind = "order"
  BY <1>0, <1>1, <1>2 DEF OfItsOrder
<1>4. DOMAIN lines \subseteq Nat
  BY <1>1
<1>5. /\ ProdShape(rep)
      /\ \A q \in rep : \E l \in lifted : l.item \in DOMAIN lines /\ q.item = nextId + l.item
  <2>1. nextId \in Nat /\ ProdShape(lifted)
    BY <1>1, <1>2
  <2>2. QED
    BY <1>4, <2>1, RepointedRows
<1> HIDE DEF rep
<1>6. \A r \in production : r.item \in Nat /\ r.item < nextId
  BY <1>2 DEF Hangs, RefsIssued, ProdShape, IsProd
<1>7. \A q \in rep : q.item \in Nat /\ q.item > nextId
  BY <1>1, <1>2, <1>5
<1>8. ProdShape(production')
  <2>1. IsFiniteSet(production \ OnOrder(production, o))
    BY <1>2, FS_Difference DEF ProdShape
  <2>2. IsFiniteSet(production')
    BY <1>1, <1>5, <2>1, FS_Union DEF ProdShape
  <2>3. OneEach(production')
    <3>1. SUFFICES ASSUME NEW r \in production', NEW q \in production',
                          r.item = q.item, r.design = q.design
                   PROVE  r = q
      BY DEF OneEach
    <3>2. (r \in production /\ q \in production) \/ (r \in rep /\ q \in rep)
      BY <1>1, <1>2, <1>6, <1>7, <3>1
    <3>3. QED
      BY <1>2, <1>5, <3>1, <3>2 DEF ProdShape, OneEach
  <2>4. \A r \in production' : IsProd(r)
    BY <1>1, <1>2, <1>5 DEF ProdShape
  <2>5. QED
    BY <2>2, <2>3, <2>4 DEF ProdShape
<1>9. ASSUME NEW r \in production' PROVE Hangs(r)'
  <2>1. CASE r \in rep
    <3>1. PICK l \in lifted : l.item \in DOMAIN lines /\ r.item = nextId + l.item
      BY <1>5, <2>1
    <3>2. orders'[o].kind = "order" /\ orders'[o].lines[l.item].ref = r.item
      BY <1>1, <1>3, <3>1
    <3>3. QED
      BY <1>1, <3>1, <3>2 DEF Hangs
  <2>2. CASE r \in production /\ r \notin OnOrder(production, o)
    <3>1. PICK q \in DOMAIN orders : /\ orders[q].kind = "order"
                                     /\ \E sr \in DOMAIN orders[q].lines : orders[q].lines[sr].ref = r.item
      BY <1>2, <2>2 DEF Hangs
    <3>2. q # o
      BY <2>2, <3>1 DEF OnOrder
    <3>3. QED
      BY <1>1, <3>1, <3>2 DEF Hangs
  <2>3. QED
    BY <1>1, <2>1, <2>2
<1>10. /\ DOMAIN page' = Users
       /\ \A v \in Users : /\ PageShape(page'[v]) /\ OfItsLine(page'[v], nextId', orders')
                           /\ OfItsOrder(page'[v], nextId', orders')
  BY <1>1, PagesAfterLeave
<1>11. QED
  BY <1>1, <1>2, <1>8, <1>9, <1>10 DEF OrdersInv

\* What a report of production leaves in the table.
LEMMA ReportTables ==
    ASSUME OrdersInv, NEW u \in Users, SaveProduction(u)
    PROVE  /\ Leave(u, Closed) /\ UNCHANGED <<proforma, orders, nextId, shuffled>>
           /\ \/ production' = production
              \/ \E row : /\ production' = (production \ RowOf(u)) \union {row}
                          /\ IsProd(row) /\ Hangs(row) /\ row.item = page[u].item
                          /\ row.design = page[u].design /\ row.of = page[u].of
           /\ page[u].at \in BoardPages
<1> DEFINE row == [item |-> page[u].item, design |-> page[u].design, of |-> page[u].of,
                   status |-> page[u].status, batches |-> page[u].batches, by |-> u]
<1>1. /\ Leave(u, Closed) /\ UNCHANGED <<proforma, orders, nextId, shuffled>>
      /\ page[u].at \in {"insert", "update"}
      /\ production' = CASE page[u].at = "insert" /\ MayInsert(u) -> production \union {row}
                         [] page[u].at = "update" /\ RowOf(u) # {} -> (production \ RowOf(u)) \union {row}
                         [] OTHER -> production
  BY DEF SaveProduction
<1>2. page[u].at \in BoardPages
  BY <1>1 DEF BoardPages
<1>3. /\ PageShape(page[u]) /\ OfItsLine(page[u], nextId, orders)
      /\ ProdShape(production) /\ \A r \in production : Hangs(r)
  BY DEF OrdersInv
<1>4. page[u].item \in Nat
  BY <1>2, <1>3 DEF PageShape
<1>5. /\ IsProd(row) /\ row.item = page[u].item /\ row.design = page[u].design /\ row.of = page[u].of
  BY <1>4 DEF IsProd
<1> HIDE DEF row
<1>6. CASE page[u].at = "insert" /\ MayInsert(u)
  <2>1. production' = production \union {row} /\ RowOf(u) = {}
    BY <1>1, <1>6 DEF MayInsert
  <2>2. PICK o \in DOMAIN orders : \E sr \in DOMAIN orders[o].lines :
             orders[o].lines[sr].ref = page[u].item
    BY <1>6 DEF MayInsert
  <2>3. orders[o].kind = "order"
    BY <1>2, <1>3, <2>2 DEF OfItsLine
  <2>4. Hangs(row)
    BY <1>5, <2>2, <2>3 DEF Hangs
  <2>5. production' = (production \ RowOf(u)) \union {row}
    BY <2>1
  <2>6. QED
    BY <1>1, <1>2, <1>5, <2>4, <2>5
<1>7. CASE page[u].at = "update" /\ RowOf(u) # {}
  <2>1. production' = (production \ RowOf(u)) \union {row}
    BY <1>1, <1>7
  <2>2. PICK r \in production : r.item = page[u].item
    BY <1>7 DEF RowOf
  <2>3. Hangs(row)
    BY <1>3, <1>5, <2>2 DEF Hangs
  <2>4. QED
    BY <1>1, <1>2, <1>5, <2>1, <2>3
<1>8. CASE ~(page[u].at = "insert" /\ MayInsert(u)) /\ ~(page[u].at = "update" /\ RowOf(u) # {})
  <2>1. production' = production
    BY <1>1, <1>8
  <2>2. QED
    BY <1>1, <1>2, <2>1
<1>9. QED
  BY <1>6, <1>7, <1>8

LEMMA ReportKeeps ==
    ASSUME OrdersInv, NEW u \in Users, SaveProduction(u)
    PROVE  OrdersInv'
<1>1. /\ Leave(u, Closed) /\ UNCHANGED <<proforma, orders, nextId>>
  BY ReportTables
<1>2. /\ nextId \in Nat \ {0} /\ proforma \in Seq(Lines)
      /\ ProdShape(production) /\ (\A r \in production : Hangs(r))
  BY DEF OrdersInv
<1>3. /\ Aged /\ nextId' \in Nat \ {0} /\ RefsIssued' /\ RefsUnique'
      /\ \A o \in DOMAIN orders' : o \in Nat /\ o < nextId' /\ OrderShape(orders'[o])
  BY <1>1, <1>2, AgedWhenKept
<1>4. /\ DOMAIN page' = Users
      /\ \A v \in Users : /\ PageShape(page'[v]) /\ OfItsLine(page'[v], nextId', orders')
                          /\ OfItsOrder(page'[v], nextId', orders')
  BY <1>1, <1>3, PagesAfterLeave
<1>5. \A r : Hangs(r) => Hangs(r)'
  BY <1>1 DEF Hangs
<1>6. ProdShape(production') /\ \A r \in production' : Hangs(r)'
  <2>1. CASE production' = production
    BY <1>2, <1>5, <2>1
  <2>2. CASE production' # production
    <3>1. PICK row : /\ production' = (production \ RowOf(u)) \union {row}
                     /\ IsProd(row) /\ Hangs(row) /\ row.item = page[u].item
                     /\ row.design = page[u].design
      BY <2>2, ReportTables
    <3>2. IsFiniteSet(production \ RowOf(u))
      BY <1>2, FS_Difference DEF ProdShape
    <3>3. IsFiniteSet(production')
      BY <3>1, <3>2, FS_AddElement
    <3>4. OneEach(production')
      BY <1>2, <3>1 DEF ProdShape, OneEach, RowOf
    <3>5. QED
      BY <1>2, <1>5, <3>1, <3>3, <3>4 DEF ProdShape
  <2>3. QED
    BY <2>1, <2>2
<1>7. QED
  BY <1>1, <1>2, <1>3, <1>4, <1>6 DEF OrdersInv

-----------------------------------------------------------------------------
(* Every step is of one of the kinds.                                      *)

Kind(u) ==
    \/ PageStep(u) \/ LiftStep(u) \/ NewStep(u) \/ RewriteStep(u) \/ DropStep(u)
    \/ SaveProduction(u) \/ AsideStep(u)

\* A page that shows no production row is opened.
LEMMA FillIsPage ==
    ASSUME NEW u \in Users, NEW c, Fill(u, c), PageShape(c), c.at # "rewrite",
           OfItsLine(c, nextId, orders)
    PROVE  Kind(u)
BY DEF Fill, PageStep, Kind

\* The pages of orders.
LEMMA OpenedOrders ==
    ASSUME OrdersInv, NEW u \in Users
    PROVE  /\ OpenOrder(u) => Kind(u)
           /\ \A o \in DOMAIN orders : OpenEdit(u, o) => Kind(u)
<1>1. ASSUME OpenOrder(u) PROVE Kind(u)
  <2> DEFINE c == [at |-> "order", lines |-> RemainingProducts, fresh |-> TRUE]
  <2>1. Fill(u, c) /\ IsForm(RemainingProducts)
    BY <1>1, RemainingIsForm DEF OpenOrder, OrdersInv
  <2>2. c.at = "order" /\ {"at", "lines", "fresh"} \subseteq DOMAIN c /\ c.lines = RemainingProducts
    OBVIOUS
  <2> HIDE DEF c
  <2>3. PageShape(c) /\ OfItsLine(c, nextId, orders)
    BY <2>1, <2>2 DEF PageShape, OfItsLine, Ats, OrderPages, BoardPages
  <2>4. QED
    BY <2>1, <2>2, <2>3, FillIsPage
<1>2. ASSUME NEW o \in DOMAIN orders, OpenEdit(u, o) PROVE Kind(u)
  <2> DEFINE c == [at |-> "edit", order |-> o, lines |-> orders[o].lines, fresh |-> TRUE]
  <2>1. Fill(u, c) /\ IsForm(orders[o].lines)
    BY <1>2 DEF OpenEdit, OrdersInv, OrderShape
  <2>2. /\ c.at = "edit" /\ {"at", "order", "lines", "fresh"} \subseteq DOMAIN c
        /\ c.lines = orders[o].lines
    OBVIOUS
  <2> HIDE DEF c
  <2>3. PageShape(c) /\ OfItsLine(c, nextId, orders)
    BY <2>1, <2>2 DEF PageShape, OfItsLine, Ats, OrderPages, BoardPages
  <2>4. QED
    BY <2>1, <2>2, <2>3, FillIsPage
<1>3. QED
  BY <1>1, <1>2

\* The pages of invoices.
LEMMA OpenedInvoices ==
    ASSUME OrdersInv, NEW u \in Users
    PROVE  /\ \A os : OpenInvoice(u, os) => Kind(u)
           /\ \A i : OpenInvoiceEdit(u, i) => Kind(u)
<1>1. ASSUME NEW c, Fill(u, c), "at" \in DOMAIN c, c.at = "invoice" PROVE Kind(u)
  <2>1. PageShape(c) /\ OfItsLine(c, nextId, orders)
    BY <1>1 DEF PageShape, OfItsLine, Ats, OrderPages, BoardPages
  <2>2. QED
    BY <1>1, <2>1, FillIsPage
<1>2. ASSUME NEW os, OpenInvoice(u, os) PROVE Kind(u)
  <2>1. PICK covers, lines : Fill(u, [at |-> "invoice", id |-> None, covers |-> covers,
                                      fresh |-> TRUE, lines |-> lines])
    BY <1>2 DEF OpenInvoice
  <2>2. QED
    BY <1>1, <2>1
<1>3. ASSUME NEW i, OpenInvoiceEdit(u, i) PROVE Kind(u)
  <2>1. PICK covers, lines : Fill(u, [at |-> "invoice", id |-> i, covers |-> covers,
                                      lines |-> lines, fresh |-> TRUE])
    BY <1>3 DEF OpenInvoiceEdit
  <2>2. QED
    BY <1>1, <2>1
<1>4. QED
  BY <1>2, <1>3

\* The production page, and a report on its way.
LEMMA OpenedBoards ==
    ASSUME OrdersInv, NEW u \in Users
    PROVE  /\ \A o \in DOMAIN orders : \A sr \in DOMAIN orders[o].lines : \A d :
                  OpenBoard(u, o, sr, d) => Kind(u)
           /\ CheckLine(u) \/ LookForRow(u) => Kind(u)
<1>0. PageShape(page[u]) /\ OfItsLine(page[u], nextId, orders)
  BY DEF OrdersInv
<1>1. ASSUME NEW o \in DOMAIN orders, NEW sr \in DOMAIN orders[o].lines, NEW d, OpenBoard(u, o, sr, d)
      PROVE  Kind(u)
  <2> DEFINE item == orders[o].lines[sr].ref
             of == orders[o].lines[sr].product
  <2>1. PICK status, batches : Fill(u, [at |-> "board", order |-> o, batches |-> batches,
                                        status |-> status, item |-> item, of |-> of, design |-> d])
    BY <1>1 DEF OpenBoard
  <2> DEFINE c == [at |-> "board", order |-> o, batches |-> batches, status |-> status,
                   item |-> item, of |-> of, design |-> d]
  <2>2. orders[o].kind = "order" /\ RefsUnique /\ item \in Nat /\ item < nextId
    BY <1>1 DEF OpenBoard, OrdersInv, RefsIssued
  <2>3. \A q \in DOMAIN orders : \A tr \in DOMAIN orders[q].lines :
           orders[q].lines[tr].ref = item => orders[q].kind = "order" /\ orders[q].lines[tr].product = of
    BY <2>2 DEF RefsUnique
  <2> HIDE DEF item, of
  <2>4. /\ {"at", "item", "design", "of", "status", "batches"} \subseteq DOMAIN c
        /\ c.at = "board" /\ c.item = item /\ c.of = of
    OBVIOUS
  <2>5. Fill(u, c)
    BY <2>1
  <2> HIDE DEF c
  <2>6. PageShape(c) /\ OfItsLine(c, nextId, orders)
    BY <2>2, <2>3, <2>4 DEF PageShape, OfItsLine, Ats, OrderPages, BoardPages
  <2>7. QED
    BY <2>4, <2>5, <2>6, FillIsPage
<1>2. ASSUME page[u].at \in BoardPages, NEW x \in BoardPages,
             page' = [page EXCEPT ![u] = [page[u] EXCEPT !.at = x]], UNCHANGED <<store, shuffled>>
      PROVE  Kind(u)
  <2> DEFINE r == page[u]
             s == [r EXCEPT !.at = x]
  <2>1. DOMAIN s = DOMAIN r /\ \A f \in DOMAIN r \ {"at"} : s[f] = r[f]
    OBVIOUS
  <2>2. /\ "at" \in DOMAIN r /\ {"item", "design", "of", "status", "batches"} \subseteq DOMAIN r
        /\ r.item \in Nat
    BY <1>0, <1>2 DEF PageShape
  <2>3. s.at = x
    BY <2>2
  <2> HIDE DEF r, s
  <2>4. s.item = r.item /\ s.of = r.of
    BY <2>1, <2>2
  <2>5. PageShape(s)
    BY <2>1, <2>2, <2>3, <2>4, <1>2 DEF PageShape, Ats, OrderPages, BoardPages
  <2>6. OfItsLine(s, nextId, orders)
    BY <1>0, <1>2, <2>3, <2>4 DEF OfItsLine, r
  <2>7. s.at # "rewrite"
    BY <2>3 DEF BoardPages
  <2>8. QED
    BY <1>2, <2>5, <2>6, <2>7 DEF PageStep, Kind, s, r
<1>3. ASSUME CheckLine(u) PROVE Kind(u)
  <2>1. /\ page[u].at = "board" /\ UNCHANGED <<store, shuffled>>
        /\ \/ page' = [page EXCEPT ![u] = [page[u] EXCEPT !.at = "look"]]
           \/ page' = [page EXCEPT ![u] = Closed]
    BY <1>3 DEF CheckLine
  <2>2. CASE page' = [page EXCEPT ![u] = [page[u] EXCEPT !.at = "look"]]
    BY <1>2, <2>1, <2>2 DEF BoardPages
  <2>3. CASE page' = [page EXCEPT ![u] = Closed]
    BY <2>1, <2>3, ClosedSaysNothing, ClosedPage DEF PageStep, Kind
  <2>4. QED
    BY <2>1, <2>2, <2>3
<1>4. ASSUME LookForRow(u) PROVE Kind(u)
  <2>1. /\ page[u].at = "look" /\ UNCHANGED <<store, shuffled>>
        /\ \E x \in {"insert", "update"} : page' = [page EXCEPT ![u] = [page[u] EXCEPT !.at = x]]
    BY <1>4 DEF LookForRow
  <2>2. QED
    BY <1>2, <2>1 DEF BoardPages
<1>5. QED
  BY <1>1, <1>3, <1>4

\* Placing, editing and deleting orders.
LEMMA SavedOrders ==
    ASSUME OrdersInv, NEW u \in Users
    PROVE  /\ PlaceOrder(u) \/ PlaceJobWork(u) \/ LiftProduction(u) \/ RewriteLines(u) => Kind(u)
           /\ \A o \in DOMAIN orders : DeleteOrder(u, o) => Kind(u)
<1>0. PageShape(page[u]) /\ nextId \in Nat
  BY DEF OrdersInv
<1>1. ASSUME PlaceOrder(u) PROVE Kind(u)
  <2>1. IsForm(page[u].lines)
    BY <1>0, <1>1 DEF PlaceOrder, PageShape, OrderPages
  <2>2. PICK lines \in Rows(page[u].lines) :
            /\ orders' = Put(orders, nextId, [kind |-> "order", lines |-> Inserted(lines, nextId)])
            /\ nextId' = nextId + Len(lines) + 1
    BY <1>1 DEF PlaceOrder
  <2>3. IsForm(lines)
    BY <2>1, RowsAreForms
  <2>4. Leave(u, Closed) /\ UNCHANGED <<proforma, production, shuffled>>
    BY <1>1 DEF PlaceOrder
  <2>5. NewStep(u)
    BY <2>2, <2>3, <2>4 DEF NewStep
  <2>6. QED
    BY <2>5 DEF Kind
<1>2. ASSUME PlaceJobWork(u) PROVE Kind(u)
  <2>1. PICK lines \in Cards :
            /\ orders' = Put(orders, nextId, [kind |-> "jobwork", lines |-> Inserted(lines, nextId)])
            /\ nextId' = nextId + Len(lines) + 1
    BY <1>2 DEF PlaceJobWork
  <2>2. lines \in Seq(Lines) /\ lines # <<>>
    BY FormsAssumption
  <2>3. IsForm(lines)
    <3>1. \A k \in DOMAIN lines : lines[k] \in Lines
      BY <2>2
    <3>2. \A l \in Lines : IsRow(l)
      BY DEF Lines, IsRow
    <3>3. QED
      BY <2>2, <3>1, <3>2 DEF IsForm
  <2>4. Leave(u, Closed) /\ UNCHANGED <<proforma, production, shuffled>>
    BY <1>2 DEF PlaceJobWork
  <2>5. NewStep(u)
    BY <2>1, <2>3, <2>4 DEF NewStep
  <2>6. QED
    BY <2>5 DEF Kind
<1>3. ASSUME LiftProduction(u) PROVE Kind(u)
  <2>1. page[u].at = "edit" /\ UNCHANGED <<store, shuffled>>
    BY <1>3 DEF LiftProduction
  <2>2. CASE page[u].order \notin DOMAIN orders
    <3>1. page' = [page EXCEPT ![u] = Closed]
      BY <1>3, <2>2 DEF LiftProduction
    <3>2. QED
      BY <2>1, <3>1, ClosedSaysNothing, ClosedPage DEF PageStep, Kind
  <2>3. CASE page[u].order \in DOMAIN orders
    <3>1. IsForm(page[u].lines)
      BY <1>0, <2>1 DEF PageShape, OrderPages
    <3>2. PICK lines \in Rows(page[u].lines) :
              page' = [page EXCEPT ![u] = [at |-> "rewrite", order |-> page[u].order, lines |-> lines,
                                           lifted |-> Lifted(page[u].order), fresh |-> TRUE]]
      BY <1>3, <2>3 DEF LiftProduction
    <3>3. IsForm(lines)
      BY <3>1, RowsAreForms
    <3>4. LiftStep(u)
      BY <2>1, <2>3, <3>2, <3>3 DEF LiftStep
    <3>5. QED
      BY <3>4 DEF Kind
  <2>4. QED
    BY <2>2, <2>3
<1>4. ASSUME RewriteLines(u) PROVE Kind(u)
  <2>1. CASE page[u].order \in DOMAIN orders
    BY <1>4, <2>1 DEF RewriteStep, Kind
  <2>2. CASE page[u].order \notin DOMAIN orders
    <3>1. UNCHANGED <<store, shuffled>> /\ Leave(u, Closed)
      BY <1>4, <2>2 DEF RewriteLines
    <3>2. AsideStep(u)
      BY <3>1 DEF AsideStep, store
    <3>3. QED
      BY <3>2 DEF Kind
  <2>3. QED
    BY <2>1, <2>2
<1>5. ASSUME NEW o \in DOMAIN orders, DeleteOrder(u, o) PROVE Kind(u)
  <2>1. /\ orders' = Drop(orders, o) /\ production' = production \ OnOrder(production, o)
        /\ Leave(u, Closed) /\ UNCHANGED <<proforma, nextId, shuffled>>
    BY <1>5 DEF DeleteOrder
  <2>2. DropStep(u)
    BY <2>1 DEF DropStep
  <2>3. QED
    BY <2>2 DEF Kind
<1>6. QED
  BY <1>1, <1>2, <1>3, <1>4, <1>5

LEMMA StepKinds ==
    ASSUME OrdersInv, Next
    PROVE  \E u \in Users : Kind(u)
<1>1. PICK u \in Users : Visit(u) \/ Act(u)
  BY DEF Next
<1>2. ASSUME SaveInvoice(u) PROVE AsideStep(u)
  BY <1>2 DEF SaveInvoice, AsideStep
<1>3. ASSUME NEW i, DeleteInvoice(u, i) PROVE AsideStep(u)
  BY <1>3 DEF DeleteInvoice, AsideStep
<1>4. ASSUME NEW p, NEW ds, Repack(u, p, ds) PROVE AsideStep(u)
  BY <1>4 DEF Repack, AsideStep
<1>5. CASE Act(u)
  BY <1>2, <1>5, SavedOrders, OpenedBoards DEF Act, Kind
<1>6. CASE Visit(u)
  <2>1. \/ OpenOrder(u) \/ PlaceJobWork(u)
        \/ \E o \in DOMAIN orders :
              \/ OpenEdit(u, o) \/ DeleteOrder(u, o)
              \/ \E sr \in DOMAIN orders[o].lines : \E d : OpenBoard(u, o, sr, d)
        \/ \E os : OpenInvoice(u, os)
        \/ \E i : OpenInvoiceEdit(u, i) \/ DeleteInvoice(u, i)
        \/ \E p, ds : Repack(u, p, ds)
    BY <1>6 DEF Visit
  <2>2. QED
    BY <1>3, <1>4, <2>1, SavedOrders, OpenedOrders, OpenedInvoices, OpenedBoards DEF Kind
<1>7. QED
  BY <1>1, <1>5, <1>6

LEMMA OrdersStart ==
    ASSUME Init
    PROVE  OrdersInv
<1>1. proforma \in Seq(Lines)
  BY FormsAssumption DEF Init
<1>2. nextId = 1 /\ DOMAIN orders = {} /\ production = {}
  BY DEF Init
<1>3. DOMAIN page = Users /\ \A u \in Users : page[u] = Closed
  BY DEF Init
<1>4. ProdShape(production)
  BY <1>2, FS_EmptySet DEF ProdShape, OneEach
<1>5. QED
  BY <1>1, <1>2, <1>3, <1>4, ClosedSaysNothing DEF OrdersInv, RefsIssued, RefsUnique

\* Lines keep ids of their own, production hangs on lines of purchase orders, one
\* row per line and design, whatever steps are taken.
LEMMA OrdersKept ==
    ASSUME OrdersInv, [Next]_vars
    PROVE  OrdersInv'
<1>1. CASE Next
  <2>1. PICK u \in Users : Kind(u)
    BY <1>1, StepKinds
  <2>2. QED
    BY <2>1, PageKeeps, LiftKeeps, NewKeeps, RewriteKeeps, DropKeeps, ReportKeeps, AsideKeeps DEF Kind
<1>2. CASE UNCHANGED vars
  <2>1. UNCHANGED <<proforma, orders, production, nextId, page>>
    BY <1>2 DEF vars, store
  <2>2. nextId \in Nat
    BY DEF OrdersInv
  <2>3. RefsIssued' /\ RefsUnique'
    BY <2>1, <2>2, AgedWhenKept
  <2>4. \A r \in production' : Hangs(r)'
    BY <2>1 DEF OrdersInv, Hangs
  <2>5. QED
    BY <2>1, <2>3, <2>4 DEF OrdersInv
<1>3. QED
  BY <1>1, <1>2

-----------------------------------------------------------------------------
(* Production is of the product on its line.                               *)

RowsOf(os, rows) ==
    \A o \in DOMAIN os : \A sr \in DOMAIN os[o].lines : \A r \in rows :
        r.item = os[o].lines[sr].ref => os[o].lines[sr].product = r.of
\* So are the rows that an edit has lifted and not put back.
LiftedOf(r, os) ==
    r.at = "rewrite" /\ r.order \in DOMAIN os =>
        \A l \in r.lifted : /\ l.item \in DOMAIN os[r.order].lines
                            /\ os[r.order].lines[l.item].product = l.of
ProductInv == ~shuffled => RowsOf(orders, production) /\ \A u \in Users : LiftedOf(page[u], orders)

\* The lines of an order that is still there have kept their products.
Steady ==
    \A o \in DOMAIN orders' : o < nextId =>
        /\ o \in DOMAIN orders
        /\ \A sr \in DOMAIN orders[o].lines :
              /\ sr \in DOMAIN orders'[o].lines
              /\ orders'[o].lines[sr].product = orders[o].lines[sr].product

LEMMA LiftedPassed ==
    ASSUME OrdersInv, NEW u \in Users, LiftedOf(page'[u], orders'), Steady,
           \A v \in Users \ {u} : Passed(page[v], page'[v]) /\ LiftedOf(page[v], orders)
    PROVE  \A v \in Users : LiftedOf(page'[v], orders')
<1> SUFFICES ASSUME NEW v \in Users \ {u}, page'[v].at = "rewrite", page'[v].order \in DOMAIN orders',
                    NEW l \in page'[v].lifted
             PROVE  /\ l.item \in DOMAIN orders'[page'[v].order].lines
                    /\ orders'[page'[v].order].lines[l.item].product = l.of
  BY DEF LiftedOf
<1> DEFINE o == page[v].order
<1>1. page[v].at = "rewrite" /\ page'[v].order = o /\ page'[v].lifted = page[v].lifted
  BY DEF Passed
<1>2. o < nextId
  BY <1>1 DEF OrdersInv, OfItsOrder
<1>3. o \in DOMAIN orders
  BY <1>1, <1>2 DEF Steady
<1>4. l.item \in DOMAIN orders[o].lines /\ orders[o].lines[l.item].product = l.of
  BY <1>1, <1>3 DEF LiftedOf
<1>5. QED
  BY <1>1, <1>2, <1>4 DEF Steady

LEMMA ClosedLiftsNothing == \A os : LiftedOf(Closed, os)
BY ClosedPage DEF LiftedOf

\* Steps that write no order.
LEMMA SteadyWhenKept ==
    ASSUME OrdersInv, UNCHANGED orders
    PROVE  Steady
BY DEF Steady

\* A row that is lifted is of the product of the number it was lifted from.
LEMMA LiftedAsStored ==
    ASSUME OrdersInv, RowsOf(orders, production), NEW o \in DOMAIN orders, NEW l \in Lifted(o)
    PROVE  l.item \in DOMAIN orders[o].lines /\ orders[o].lines[l.item].product = l.of
<1>1. PICK r \in OnOrder(production, o) : l = [r EXCEPT !.item = NumberOf(o, r.item)]
  BY LiftedRows
<1> DEFINE n == NumberOf(o, r.item)
<1>2. n \in DOMAIN orders[o].lines /\ orders[o].lines[n].ref = r.item
  BY LiftedRows
<1>3. r \in production /\ IsProd(r)
  BY DEF OnOrder, OrdersInv, ProdShape
<1> HIDE DEF n
<1>4. l = [r EXCEPT !.item = n]
  BY <1>1 DEF n
<1>5. l.item = n /\ l.of = r.of
  BY <1>3, <1>4 DEF IsProd
<1>6. orders[o].lines[n].product = r.of
  BY <1>2, <1>3 DEF RowsOf
<1>7. QED
  BY <1>2, <1>5, <1>6

LEMMA ProductsStart ==
    ASSUME Init
    PROVE  ProductInv
<1>1. production = {} /\ \A u \in Users : page[u] = Closed
  BY DEF Init
<1>2. QED
  BY <1>1, ClosedLiftsNothing DEF ProductInv, RowsOf

\* Pages that are opened, closed and gone on with.
LEMMA PageKeepsProducts ==
    ASSUME OrdersInv, ProductInv, NEW u \in Users, PageStep(u) \/ LiftStep(u)
    PROVE  ProductInv'
<1> SUFFICES ASSUME ~shuffled'
             PROVE  RowsOf(orders', production') /\ \A v \in Users : LiftedOf(page'[v], orders')
  BY DEF ProductInv
<1>1. UNCHANGED <<orders, production, shuffled>>
  BY DEF PageStep, LiftStep, store
<1>2. RowsOf(orders, production) /\ \A v \in Users : LiftedOf(page[v], orders)
  BY <1>1 DEF ProductInv
<1>3. Steady /\ DOMAIN page = Users /\ \A v \in Users : PageShape(page[v])
  BY <1>1, SteadyWhenKept DEF OrdersInv
<1>4. ASSUME NEW next, page' = [page EXCEPT ![u] = next], LiftedOf(next, orders)
      PROVE  \A v \in Users : LiftedOf(page'[v], orders')
  <2>1. page'[u] = next /\ \A v \in Users \ {u} : Passed(page[v], page'[v])
    BY <1>3, <1>4, EditStep
  <2>2. QED
    BY <1>1, <1>2, <1>3, <1>4, <2>1, LiftedPassed
<1>5. CASE PageStep(u)
  <2>1. PICK next : page' = [page EXCEPT ![u] = next] /\ next.at # "rewrite"
    BY <1>5 DEF PageStep
  <2>2. LiftedOf(next, orders)
    BY <2>1 DEF LiftedOf
  <2>3. QED
    BY <1>1, <1>2, <1>4, <2>1, <2>2
<1>6. CASE LiftStep(u)
  <2>1. PICK lines : page' = [page EXCEPT ![u] = [at |-> "rewrite", order |-> page[u].order,
                                                  lines |-> lines, fresh |-> TRUE,
                                                  lifted |-> Lifted(page[u].order)]]
    BY <1>6 DEF LiftStep
  <2>2. \A l \in Lifted(page[u].order) :
             /\ l.item \in DOMAIN orders[page[u].order].lines
             /\ orders[page[u].order].lines[l.item].product = l.of
    BY <1>2, <1>6, LiftedAsStored DEF LiftStep
  <2> DEFINE next == [at |-> "rewrite", order |-> page[u].order, lines |-> lines, fresh |-> TRUE,
                      lifted |-> Lifted(page[u].order)]
  <2>3. next.order = page[u].order /\ next.lifted = Lifted(page[u].order)
    OBVIOUS
  <2>4. page' = [page EXCEPT ![u] = next]
    BY <2>1
  <2> HIDE DEF next
  <2>5. LiftedOf(next, orders)
    BY <2>2, <2>3 DEF LiftedOf
  <2>6. QED
    BY <1>1, <1>2, <1>4, <2>4, <2>5
<1>7. QED
  BY <1>5, <1>6

LEMMA WriteKeepsProducts ==
    ASSUME OrdersInv, ProductInv, NEW u \in Users, Leave(u, Closed),
           ~shuffled' => ~shuffled /\ Steady /\ RowsOf(orders', production')
    PROVE  ProductInv'
<1> SUFFICES ASSUME ~shuffled'
             PROVE  RowsOf(orders', production') /\ \A v \in Users : LiftedOf(page'[v], orders')
  BY DEF ProductInv
<1>1. \A v \in Users : PageShape(page[v]) /\ LiftedOf(page[v], orders)
  BY DEF ProductInv, OrdersInv
<1>2. page'[u] = Closed /\ \A v \in Users \ {u} : Passed(page[v], page'[v])
  BY <1>1, LeaveStep
<1>3. LiftedOf(page'[u], orders')
  BY <1>2, ClosedLiftsNothing
<1>4. QED
  BY <1>1, <1>2, <1>3, LiftedPassed

\* Every row hangs on a line whose id was issued.
LEMMA RowsIssued ==
    ASSUME OrdersInv, NEW r \in production
    PROVE  r.item \in Nat /\ r.item < nextId
BY DEF OrdersInv, Hangs, RefsIssued, ProdShape, IsProd

LEMMA NewKeepsProducts ==
    ASSUME OrdersInv, ProductInv, NEW u \in Users, NewStep(u)
    PROVE  ProductInv'
<1>1. PICK lines, kind : /\ IsForm(lines) /\ nextId' = nextId + Len(lines) + 1
                         /\ orders' = Put(orders, nextId, [kind |-> kind,
                                                           lines |-> Inserted(lines, nextId)])
  BY DEF NewStep
<1>2. Leave(u, Closed) /\ UNCHANGED <<production, shuffled>>
  BY DEF NewStep
<1>3. nextId \in Nat /\ \A o \in DOMAIN orders : o \in Nat /\ o < nextId
  BY DEF OrdersInv
<1> DEFINE ls == Inserted(lines, nextId)
<1>4. DOMAIN orders' = DOMAIN orders \union {nextId} /\ orders'[nextId].lines = ls
      /\ \A o \in DOMAIN orders \ {nextId} : orders'[o] = orders[o]
  BY <1>1 DEF Put
<1>5. DOMAIN ls \subseteq Nat \ {0} /\ \A sr \in DOMAIN ls : ls[sr].ref = nextId + sr
  <2>1. IsForm(lines) /\ nextId \in Nat
    BY <1>1, <1>3
  <2>2. /\ DOMAIN ls = DOMAIN lines /\ DOMAIN lines = 1..Len(lines) /\ Len(lines) \in Nat
        /\ \A sr \in DOMAIN lines : ls[sr].ref = nextId + sr
    BY <2>1, InsertedRows
  <2> HIDE DEF ls
  <2>3. QED
    BY ONLY <2>2
<1> HIDE DEF ls
<1>6. nextId \notin DOMAIN orders
  BY <1>3
<1>7. Steady
  BY <1>3, <1>4, <1>6 DEF Steady
<1>8. ASSUME RowsOf(orders, production) PROVE RowsOf(orders', production')
  <2>1. SUFFICES ASSUME NEW o \in DOMAIN orders', NEW sr \in DOMAIN orders'[o].lines,
                        NEW r \in production, r.item = orders'[o].lines[sr].ref
                 PROVE  orders'[o].lines[sr].product = r.of
    BY <1>2 DEF RowsOf
  <2>2. r.item \in Nat /\ r.item < nextId
    BY RowsIssued
  <2>3. o # nextId
    BY <1>3, <1>4, <1>5, <2>1, <2>2
  <2>4. QED
    BY <1>4, <1>8, <2>1, <2>3 DEF RowsOf
<1>9. QED
  BY <1>2, <1>7, <1>8, WriteKeepsProducts DEF ProductInv

LEMMA DropKeepsProducts ==
    ASSUME OrdersInv, ProductInv, NEW u \in Users, DropStep(u)
    PROVE  ProductInv'
<1>1. PICK o \in DOMAIN orders : /\ orders' = Drop(orders, o)
                                 /\ production' = production \ OnOrder(production, o)
  BY DEF DropStep
<1>2. Leave(u, Closed) /\ UNCHANGED shuffled
  BY DEF DropStep
<1>3. DOMAIN orders' = DOMAIN orders \ {o} /\ \A q \in DOMAIN orders' : orders'[q] = orders[q]
  BY <1>1 DEF Drop
<1>4. Steady
  BY <1>3 DEF Steady
<1>5. RowsOf(orders, production) => RowsOf(orders', production')
  BY <1>1, <1>3 DEF RowsOf
<1>6. QED
  BY <1>2, <1>4, <1>5, WriteKeepsProducts DEF ProductInv

LEMMA ReportKeepsProducts ==
    ASSUME OrdersInv, ProductInv, NEW u \in Users, SaveProduction(u)
    PROVE  ProductInv'
<1>1. Leave(u, Closed) /\ UNCHANGED <<orders, shuffled>> /\ page[u].at \in BoardPages
  BY ReportTables
<1>2. Steady
  BY <1>1, SteadyWhenKept
<1>3. ASSUME RowsOf(orders, production) PROVE RowsOf(orders', production')
  <2>1. CASE production' = production
    BY <1>1, <1>3, <2>1
  <2>2. CASE production' # production
    <3>1. PICK row : /\ production' = (production \ RowOf(u)) \union {row}
                     /\ row.item = page[u].item /\ row.of = page[u].of
      BY <2>2, ReportTables
    <3>2. OfItsLine(page[u], nextId, orders)
      BY DEF OrdersInv
    <3>3. QED
      BY <1>1, <1>3, <3>1, <3>2 DEF RowsOf, OfItsLine
  <2>3. QED
    BY <2>1, <2>2
<1>4. QED
  BY <1>1, <1>2, <1>3, WriteKeepsProducts DEF ProductInv

LEMMA RewriteKeepsProducts ==
    ASSUME OrdersInv, ProductInv, NEW u \in Users, RewriteStep(u)
    PROVE  ProductInv'
<1>0. PICK o, lines, lifted :
          o = page[u].order /\ lines = page[u].lines /\ lifted = page[u].lifted
  OBVIOUS
<1> DEFINE rep == Repointed(lifted, lines, nextId)
<1>1. /\ RefsUnique' /\ DOMAIN orders' = DOMAIN orders /\ o \in DOMAIN orders
      /\ \A q \in DOMAIN orders \ {o} : orders'[q] = orders[q]
      /\ DOMAIN orders'[o].lines = DOMAIN lines /\ DOMAIN lines \subseteq Nat \ {0}
      /\ \A sr \in DOMAIN lines : /\ orders'[o].lines[sr].ref = nextId + sr
                                  /\ orders'[o].lines[sr].product = lines[sr].product
      /\ production' = (production \ OnOrder(production, o)) \union rep
      /\ Leave(u, Closed) /\ ProdShape(lifted) /\ page[u].at = "rewrite"
  BY <1>0, RewriteTables
<1>2. nextId \in Nat
  BY DEF OrdersInv
<1>3. \A q \in rep : \E l \in lifted : l.item \in DOMAIN lines /\ q.item = nextId + l.item /\ q.of = l.of
  <2>1. DOMAIN lines \subseteq Nat
    BY <1>1
  <2>2. ProdShape(lifted)
    BY <1>1
  <2>3. QED
    BY <1>2, <2>1, <2>2, RepointedRows
<1> HIDE DEF rep
<1>4. shuffled' = (shuffled \/ \E sr \in DOMAIN orders[o].lines :
                       sr \in DOMAIN lines => lines[sr].product # orders[o].lines[sr].product)
  BY <1>0 DEF RewriteStep, RewriteLines
<1>5. ASSUME ~shuffled' PROVE Steady /\ ~shuffled /\ RowsOf(orders', production')
  <2>1. \A sr \in DOMAIN orders[o].lines :
            sr \in DOMAIN lines /\ lines[sr].product = orders[o].lines[sr].product
    BY <1>4, <1>5
  <2>2. ~shuffled
    BY <1>4, <1>5
  <2>3. Steady
    BY <1>1, <2>1 DEF Steady
  <2>4. RowsOf(orders, production) /\ LiftedOf(page[u], orders)
    BY <2>2 DEF ProductInv
  <2>5. ASSUME NEW q \in DOMAIN orders', NEW sr \in DOMAIN orders'[q].lines, NEW r \in production',
               r.item = orders'[q].lines[sr].ref
        PROVE  orders'[q].lines[sr].product = r.of
    <3>1. CASE r \in rep
      <4>1. PICK l \in lifted : l.item \in DOMAIN lines /\ r.item = nextId + l.item /\ r.of = l.of
        BY <1>3, <3>1
      <4>2. o \in DOMAIN orders' /\ l.item \in DOMAIN orders'[o].lines
            /\ orders'[o].lines[l.item].ref = r.item
        BY <1>1, <4>1
      <4>3. q = o /\ sr = l.item
        BY <1>1, <2>5, <4>2 DEF RefsUnique
      <4>4. l.item \in DOMAIN orders[o].lines /\ orders[o].lines[l.item].product = l.of
        BY <1>0, <1>1, <2>4 DEF LiftedOf
      <4>5. QED
        BY <1>1, <2>1, <4>1, <4>3, <4>4
    <3>2. CASE r \in production /\ r \notin OnOrder(production, o)
      <4>1. r.item \in Nat /\ r.item < nextId
        BY <3>2, RowsIssued
      <4>2. q # o
        BY <1>1, <1>2, <2>5, <4>1
      <4>3. QED
        BY <1>1, <2>4, <2>5, <3>2, <4>2 DEF RowsOf
    <3>3. QED
      BY <1>1, <3>1, <3>2
  <2>6. QED
    BY <2>2, <2>3, <2>5 DEF RowsOf
<1>6. QED
  BY <1>1, <1>5, WriteKeepsProducts

LEMMA ProductsKept ==
    ASSUME OrdersInv, ProductInv, [Next]_vars
    PROVE  ProductInv'
<1>1. CASE Next
  <2>1. PICK u \in Users : Kind(u)
    BY <1>1, StepKinds
  <2>2. ASSUME AsideStep(u) PROVE ProductInv'
    <3>1. Leave(u, Closed) /\ UNCHANGED <<orders, production, shuffled>>
      BY <2>2 DEF AsideStep
    <3>2. ~shuffled' => ~shuffled /\ Steady /\ RowsOf(orders', production')
      BY <3>1, SteadyWhenKept DEF ProductInv
    <3>3. QED
      BY <3>1, <3>2, WriteKeepsProducts
  <2>3. QED
    BY <2>1, <2>2, PageKeepsProducts, NewKeepsProducts, RewriteKeepsProducts, DropKeepsProducts,
       ReportKeepsProducts DEF Kind
<1>2. CASE UNCHANGED vars
  BY <1>2 DEF vars, store, ProductInv
<1>3. QED
  BY <1>1, <1>2

-----------------------------------------------------------------------------
(* A save that nobody wrote behind puts back what is there.                *)

\* While nothing was written since, what was lifted is what there is.
FreshLift(r) == r.at = "rewrite" /\ r.fresh /\ r.order \in DOMAIN orders => r.lifted = Lifted(r.order)
FreshInv == \A u \in Users : FreshLift(page[u])

LEMMA LiftedSame ==
    ASSUME UNCHANGED <<orders, production>>, NEW o
    PROVE  Lifted(o)' = Lifted(o)
BY DEF Lifted, OnOrder, NumberOf

\* A write leaves no page fresh.
LEMMA WriteLeavesNoneFresh ==
    ASSUME OrdersInv, NEW u \in Users, Leave(u, Closed)
    PROVE  FreshInv'
<1>1. \A v \in Users : PageShape(page[v])
  BY DEF OrdersInv
<1>2. page'[u] = Closed /\ \A v \in Users \ {u} : /\ Passed(page[v], page'[v])
                                                  /\ page[v].at \in OrderPages => ~page'[v].fresh
  BY <1>1, LeaveStep
<1>3. \A v \in Users : page'[v].at = "rewrite" => ~page'[v].fresh
  BY <1>2, ClosedPage DEF Passed, OrderPages
<1>4. QED
  BY <1>3 DEF FreshInv, FreshLift

LEMMA FreshKept ==
    ASSUME OrdersInv, FreshInv, [Next]_vars
    PROVE  FreshInv'
<1>1. \A v \in Users : PageShape(page[v]) /\ FreshLift(page[v])
  BY DEF OrdersInv, FreshInv
<1>2. DOMAIN page = Users
  BY DEF OrdersInv
<1>3. ASSUME NEW u \in Users, NEW next, page' = [page EXCEPT ![u] = next],
             UNCHANGED <<orders, production>>,
             next.at = "rewrite" => next.lifted = Lifted(next.order)
      PROVE  FreshInv'
  <2>1. page'[u] = next /\ \A v \in Users \ {u} : page'[v] = page[v]
    BY <1>1, <1>2, <1>3, EditStep
  <2>2. ASSUME NEW v \in Users, page'[v].at = "rewrite", page'[v].fresh,
               page'[v].order \in DOMAIN orders'
        PROVE  page'[v].lifted = Lifted(page'[v].order)
    BY <1>1, <1>3, <2>1, <2>2 DEF FreshLift
  <2>3. \A o : Lifted(o)' = Lifted(o)
    BY <1>3, LiftedSame
  <2>4. QED
    BY <2>2, <2>3 DEF FreshInv, FreshLift
<1>4. CASE Next
  <2>1. PICK u \in Users : Kind(u)
    BY <1>4, StepKinds
  <2>2. CASE PageStep(u)
    <3>1. PICK next : page' = [page EXCEPT ![u] = next] /\ next.at # "rewrite"
      BY <2>2 DEF PageStep
    <3>2. UNCHANGED <<orders, production>>
      BY <2>2 DEF PageStep, store
    <3>3. QED
      BY <1>3, <3>1, <3>2
  <2>3. CASE LiftStep(u)
    <3>1. PICK lines : page' = [page EXCEPT ![u] = [at |-> "rewrite", order |-> page[u].order,
                                                    lines |-> lines, fresh |-> TRUE,
                                                    lifted |-> Lifted(page[u].order)]]
      BY <2>3 DEF LiftStep
    <3>2. UNCHANGED <<orders, production>>
      BY <2>3 DEF LiftStep, store
    <3> DEFINE next == [at |-> "rewrite", order |-> page[u].order, lines |-> lines, fresh |-> TRUE,
                        lifted |-> Lifted(page[u].order)]
    <3>3. next.lifted = Lifted(next.order) /\ page' = [page EXCEPT ![u] = next]
      BY <3>1
    <3> HIDE DEF next
    <3>4. QED
      BY <1>3, <3>2, <3>3
  <2>4. CASE Leave(u, Closed)
    BY <2>4, WriteLeavesNoneFresh
  <2>5. NewStep(u) \/ DropStep(u) \/ AsideStep(u) => Leave(u, Closed)
    BY DEF NewStep, DropStep, AsideStep
  <2>6. RewriteStep(u) \/ SaveProduction(u) => Leave(u, Closed)
    BY DEF RewriteStep, RewriteLines, SaveProduction
  <2>7. QED
    BY <2>1, <2>2, <2>3, <2>4, <2>5, <2>6 DEF Kind
<1>5. CASE UNCHANGED vars
  BY <1>5, LiftedSame DEF vars, store, FreshInv, FreshLift
<1>6. QED
  BY <1>4, <1>5

\* What such a save puts back: every row, under the new id of its number.
LEMMA FreshRewrite ==
    ASSUME OrdersInv, FreshInv, NEW u \in Users, RewriteLines(u), page[u].fresh,
           NEW o, o = page[u].order, o \in DOMAIN orders,
           NEW r \in OnOrder(production, o), NumberOf(o, r.item) \in DOMAIN page[u].lines
    PROVE  \E q \in production' : /\ q.item = orders'[o].lines[NumberOf(o, r.item)].ref
                                  /\ [q EXCEPT !.item = r.item] = r
<1>0. PICK lines, lifted, n :
          lines = page[u].lines /\ lifted = page[u].lifted /\ n = NumberOf(o, r.item)
  OBVIOUS
<1>1. RewriteStep(u)
  BY DEF RewriteStep
<1>2. /\ DOMAIN lines \subseteq Nat \ {0}
      /\ \A sr \in DOMAIN lines : orders'[o].lines[sr].ref = nextId + sr
      /\ production' = (production \ OnOrder(production, o)) \union Repointed(lifted, lines, nextId)
      /\ ProdShape(lifted) /\ page[u].at = "rewrite"
  BY <1>0, <1>1, RewriteTables
<1>3. lifted = Lifted(o)
  BY <1>0, <1>2 DEF FreshInv, FreshLift
<1>4. nextId \in Nat /\ r \in production /\ IsProd(r)
  BY DEF OrdersInv, OnOrder, ProdShape
<1> DEFINE l == [r EXCEPT !.item = n]
           q == [l EXCEPT !.item = nextId + n]
<1>5. l \in lifted
  BY <1>0, <1>3 DEF Lifted
<1>6. l.item = n /\ q.item = nextId + n /\ [q EXCEPT !.item = r.item] = r
  <2>1. l = [item |-> n, design |-> r.design, of |-> r.of, status |-> r.status,
             batches |-> r.batches, by |-> r.by]
    BY <1>4 DEF IsProd
  <2>2. q = [item |-> nextId + n, design |-> r.design, of |-> r.of, status |-> r.status,
             batches |-> r.batches, by |-> r.by]
    <3> HIDE DEF l
    <3>1. QED
      BY <2>1
  <2> HIDE DEF q, l
  <2>3. QED
    BY <1>4, <2>1, <2>2 DEF IsProd
<1>7. n \in DOMAIN lines
  BY <1>0
<1> HIDE DEF l
<1>8. [l EXCEPT !.item = nextId + l.item] \in Repointed(lifted, lines, nextId)
  <2>1. DOMAIN lines \subseteq Nat
    BY <1>2
  <2>2. QED
    BY <1>2, <1>4, <1>5, <1>6, <1>7, <2>1, RepointedRows
<1>9. q \in production'
  BY <1>2, <1>6, <1>8
<1> HIDE DEF q
<1>10. q.item = orders'[o].lines[n].ref
  BY <1>2, <1>6, <1>7
<1>11. QED
  BY <1>0, <1>6, <1>9, <1>10

-----------------------------------------------------------------------------
(* No more ready than in all.                                              *)

LEMMA ReadyFits ==
    ASSUME OrdersInv
    PROVE  ReadyWithinTotal
<1> SUFFICES ASSUME NEW o \in Purchases
             PROVE  Ready(o) <= Total(o)
  BY DEF ReadyWithinTotal
<1> DEFINE ls == orders[o].lines
           named == {row \in (DOMAIN ls) \X Designs : row[2] \in packing[ls[row[1]].product]}
           laidOut == IF named = {} THEN Len(ls) ELSE Cardinality(named)
           all == RowsOn(o)
           ready == {r \in all : r.status = "ready"}
<1>1. IsFiniteSet(all) /\ Cardinality(all) \in Nat
  <2>1. all \in SUBSET production
    BY DEF RowsOn, OnOrder
  <2>2. QED
    BY <2>1, FS_Subset, FS_CardinalityType DEF OrdersInv, ProdShape
<1>2. Cardinality(ready) \in Nat /\ Cardinality(ready) <= Cardinality(all)
  <2>1. ready \in SUBSET all
    OBVIOUS
  <2> HIDE DEF ready, all
  <2>2. QED
    BY <1>1, <2>1, FS_Subset, FS_CardinalityType
<1>3. laidOut \in Nat
  <2>1. IsForm(ls)
    BY DEF Purchases, OrdersInv, OrderShape
  <2>2. Len(ls) \in Nat /\ DOMAIN ls = 1..Len(ls)
    BY <2>1 DEF IsForm
  <2>3. IsFiniteSet(DOMAIN ls)
    BY <2>2, FS_Interval
  <2> HIDE DEF ls
  <2>4. IsFiniteSet((DOMAIN ls) \X Designs)
    BY <2>3, FS_Product, DesignsAssumption
  <2>5. named \in SUBSET ((DOMAIN ls) \X Designs)
    OBVIOUS
  <2> HIDE DEF named
  <2>6. Cardinality(named) \in Nat
    BY <2>4, <2>5, FS_Subset, FS_CardinalityType
  <2>7. QED
    BY <2>2, <2>6
<1>4. Total(o) = IF laidOut < Cardinality(all) THEN Cardinality(all) ELSE laidOut
  BY DEF Total
<1>5. Ready(o) = Cardinality(ready)
  BY DEF Ready
<1> HIDE DEF laidOut, ready, all
<1>6. QED
  BY <1>1, <1>2, <1>3, <1>4, <1>5

LEMMA SaysOneThing ==
    ASSUME OrdersInv, ProductInv
    PROVE  ProductionIsOfTheOrder
<1>1. OneStatusPerDesign
  BY DEF OneStatusPerDesign, OrdersInv, ProdShape, OneEach
<1>2. ProductionOfItsProduct
  <2>1. SUFFICES ASSUME ~shuffled, NEW o \in Purchases, NEW r \in OnOrder(production, o)
                 PROVE  orders[o].lines[NumberOf(o, r.item)].product = r.of
    BY DEF ProductionOfItsProduct
  <2>2. o \in DOMAIN orders /\ r \in production
    BY DEF Purchases, OnOrder
  <2>3. /\ NumberOf(o, r.item) \in DOMAIN orders[o].lines
        /\ orders[o].lines[NumberOf(o, r.item)].ref = r.item
    BY <2>2, LiftedRows
  <2>4. QED
    BY <2>1, <2>2, <2>3 DEF ProductInv, RowsOf
<1>3. QED
  BY <1>1, <1>2, ReadyFits DEF ProductionIsOfTheOrder

\* However orders are placed, edited, deleted and invoiced, and production is
\* reported meanwhile: the production rows of a purchase order are of the product
\* on their line, unless an edit took a product from its number; a line has one
\* row per design, and no more are shown ready than there are in all.
THEOREM ProductionStaysSound == Spec => []ProductionIsOfTheOrder
<1>1. Init => OrdersInv /\ ProductInv
  BY OrdersStart, ProductsStart
<1>2. OrdersInv /\ ProductInv /\ [Next]_vars => (OrdersInv /\ ProductInv)'
  BY OrdersKept, ProductsKept
<1>3. OrdersInv /\ ProductInv => ProductionIsOfTheOrder
  BY SaysOneThing
<1>4. QED
  BY <1>1, <1>2, <1>3, PTL DEF Spec

\* Saving an order keeps the production and the batches of every line number that
\* is still there, when nobody wrote between its own read and its own write.
THEOREM ResavesKeepProduction == Spec => LoneResaveKeepsProduction
<1> DEFINE Kept == \A u \in Users : RewriteLines(u) /\ page[u].fresh /\ page[u].order \in DOMAIN orders =>
          LET o == page[u].order IN
          \A r \in OnOrder(production, o) :
              NumberOf(o, r.item) \in DOMAIN page[u].lines =>
                  \E q \in production' : /\ q.item = orders'[o].lines[NumberOf(o, r.item)].ref
                                         /\ [q EXCEPT !.item = r.item] = r
<1>1. Init => OrdersInv /\ FreshInv
  <2>1. Init => FreshInv
    BY ClosedPage DEF Init, FreshInv, FreshLift
  <2>2. QED
    BY <2>1, OrdersStart
<1>2. OrdersInv /\ FreshInv /\ [Next]_vars => (OrdersInv /\ FreshInv)'
  BY OrdersKept, FreshKept
<1>3. OrdersInv /\ FreshInv /\ [Next]_vars => [Kept]_vars
  BY FreshRewrite
<1>4. QED
  BY <1>1, <1>2, <1>3, PTL DEF Spec, LoneResaveKeepsProduction

-----------------------------------------------------------------------------
(* What lines add up to.                                                   *)

\* A row of a form: a line that may have been lowered to nothing.
Row == [product : DOMAIN AltQuantity, name : Names, unit : {"box", "quantity"}, n : Nat, ref : Nat]

\* A line is a row.
LEMMA LinesAreRows == Lines \subseteq Row
BY DEF Lines, Row

\* A row of the same goods, of no more of them.
Within(r, q) == r.product = q.product /\ r.unit = q.unit /\ r.n <= q.n

\* What a row is worth is a natural, and grows with the row.
LEMMA WorthOfRows ==
    ASSUME NEW r \in Row, NEW p, NEW unit
    PROVE  /\ Worth(r, p, unit) \in Nat
           /\ r.product # p => Worth(r, p, unit) = 0
           /\ r.product = p /\ r.unit = unit => Worth(r, p, unit) = r.n
           /\ \A q \in Row : Within(r, q) => Worth(r, p, unit) <= Worth(q, p, unit)
<1>1. r.n \in Nat /\ AltQuantity[r.product] \in Nat
  BY AltQuantityAssumption DEF Row
<1>2. r.n * AltQuantity[r.product] \in Nat
  BY <1>1
<1>3. InUnit(unit, r) \in Nat
  BY <1>1, <1>2 DEF InUnit
<1>4. \A q \in Row : Within(r, q) => InUnit(unit, r) <= InUnit(unit, q)
  <2>1. SUFFICES ASSUME NEW q \in Row, Within(r, q) PROVE InUnit(unit, r) <= InUnit(unit, q)
    OBVIOUS
  <2>2. q.n \in Nat /\ r.n <= q.n /\ q.unit = r.unit /\ q.product = r.product
    BY <2>1 DEF Row, Within
  <2>3. r.n * AltQuantity[r.product] <= q.n * AltQuantity[r.product]
    BY <1>1, <2>2
  <2>4. QED
    BY <2>2, <2>3 DEF InUnit
<1>5. r.unit = unit => InUnit(unit, r) = r.n
  BY DEF InUnit
<1>6. QED
  BY <1>3, <1>4, <1>5 DEF Worth, Within

\* The sum of rows is a natural; those of a product it does not count add nothing.
LEMMA SumOfRows ==
    ASSUME NEW D, IsFiniteSet(D), NEW s \in [D -> Row], NEW p, NEW unit
    PROVE  /\ Sum(s, p, unit) \in Nat
           /\ (\A k \in D : s[k].product # p) => Sum(s, p, unit) = 0
           /\ \A k \in D : (\A j \in D \ {k} : s[j].product # p)
                              => Sum(s, p, unit) = Worth(s[k], p, unit)
<1> DEFINE f == [k \in D |-> Worth(s[k], p, unit)]
<1>1. \A k \in D : Worth(s[k], p, unit) \in Nat /\ (s[k].product # p => Worth(s[k], p, unit) = 0)
  BY WorthOfRows
<1>2. f \in [D -> Nat] /\ (\A k \in D : f[k] = Worth(s[k], p, unit)) /\ Sum(s, p, unit) = SumFunction(f)
  BY <1>1 DEF Sum
<1> HIDE DEF f
<1>3. Sum(s, p, unit) \in Nat
  BY <1>2, SumSplits
<1>4. ASSUME \A k \in D : s[k].product # p PROVE Sum(s, p, unit) = 0
  BY <1>1, <1>2, <1>4, SumOfZeros
<1>5. ASSUME NEW k \in D, \A j \in D \ {k} : s[j].product # p
      PROVE  Sum(s, p, unit) = Worth(s[k], p, unit)
  BY <1>1, <1>2, <1>5, SumOfOne
<1>6. QED
  BY <1>3, <1>4, <1>5

\* One row of the product counts for itself.
LEMMA SumOfOneRow ==
    ASSUME NEW D, IsFiniteSet(D), NEW s \in [D -> Row], NEW p, NEW unit, NEW k \in D,
           \A j \in D \ {k} : s[j].product # p
    PROVE  Sum(s, p, unit) = Worth(s[k], p, unit)
BY SumOfRows

\* Rows that are each within a row of their own add up to no more.
LEMMA SumOfWithin ==
    ASSUME NEW D, NEW E, IsFiniteSet(E), NEW s \in [D -> Row], NEW t \in [E -> Row],
           NEW h \in Injection(D, E), \A k \in D : Within(s[k], t[h[k]]),
           NEW p, NEW unit
    PROVE  IsFiniteSet(D) /\ Sum(s, p, unit) <= Sum(t, p, unit)
<1> DEFINE f == [k \in D |-> Worth(s[k], p, unit)]
           g == [k \in E |-> Worth(t[k], p, unit)]
<1>1. f \in [D -> Nat] /\ g \in [E -> Nat]
  BY WorthOfRows
<1>2. \A k \in D : f[k] <= g[h[k]]
  <2>1. SUFFICES ASSUME NEW k \in D PROVE Worth(s[k], p, unit) <= Worth(t[h[k]], p, unit)
    BY DEF Injection
  <2>2. h[k] \in E /\ s[k] \in Row /\ t[h[k]] \in Row
    BY DEF Injection
  <2>3. QED
    BY <2>2, WorthOfRows
<1>3. Sum(s, p, unit) = SumFunction(f) /\ Sum(t, p, unit) = SumFunction(g)
  BY DEF Sum
<1> HIDE DEF f, g
<1>4. QED
  BY <1>1, <1>2, <1>3, SumWithin

\* Rows that are the same goods add up to the same.
LEMMA SumOfSame ==
    ASSUME NEW s, NEW t, DOMAIN s = DOMAIN t, NEW p, NEW unit,
           \A k \in DOMAIN s : s[k].product = t[k].product /\ s[k].unit = t[k].unit /\ s[k].n = t[k].n
    PROVE  Sum(s, p, unit) = Sum(t, p, unit)
<1>1. \A k \in DOMAIN s : Worth(s[k], p, unit) = Worth(t[k], p, unit)
  BY DEF Worth, InUnit
<1>2. [k \in DOMAIN s |-> Worth(s[k], p, unit)] = [k \in DOMAIN t |-> Worth(t[k], p, unit)]
  BY <1>1
<1>3. QED
  BY <1>2 DEF Sum

\* A line cut down to the share another lacks: a row of the same goods.
LEMMA CutDownIsRow ==
    ASSUME NEW l \in Lines, NEW by \in Lines, NEW done \in Nat, Outstanding(by, done) > 0
    PROVE  /\ CutDown(l, by, done) \in Row /\ Within(CutDown(l, by, done), l)
           /\ CutDown(l, by, done).ref = l.ref
           /\ CutDown(by, by, done).n = by.n - done
<1>1. l.n \in Nat \ {0} /\ by.n \in Nat \ {0} /\ by.n - done \in Nat /\ by.n - done <= by.n
  BY DEF Lines, Outstanding
<1>2. /\ (l.n * (by.n - done)) \div by.n \in Nat /\ (l.n * (by.n - done)) \div by.n <= l.n
      /\ (by.n * (by.n - done)) \div by.n = by.n - done
  BY <1>1, SharesFit
<1>3. /\ CutDown(l, by, done) = [l EXCEPT !.n = (l.n * (by.n - done)) \div by.n]
      /\ CutDown(by, by, done) = [by EXCEPT !.n = (by.n * (by.n - done)) \div by.n]
  BY DEF CutDown, Outstanding
<1>4. QED
  BY <1>2, <1>3 DEF Lines, Row, Within

\* The rows a user leaves in a form are lines, each within a row of the form.
LEMMA RowsWithin ==
    ASSUME NEW s \in Seq(Row), s # <<>>, NEW ls \in Rows(s)
    PROVE  /\ ls \in Seq(Lines) /\ ls # <<>>
           /\ \E h \in Injection(DOMAIN ls, DOMAIN s) :
                 \A k \in DOMAIN ls : Within(ls[k], s[h[k]]) /\ ls[k].ref = s[h[k]].ref
<1> DEFINE first == Head(s)
           Comes(k, j) == Within(ls[k], s[j]) /\ ls[k].ref = s[j].ref
<1>1. /\ DOMAIN s = 1..Len(s) /\ Len(s) \in Nat \ {0} /\ first = s[1] /\ first \in Row
      /\ \A k \in 1..Len(s) : s[k] \in Row
  OBVIOUS
<1>2. /\ Tail(s) \in Seq(Row) /\ DOMAIN Tail(s) = 1..(Len(s) - 1)
      /\ \A k \in 1..(Len(s) - 1) : Tail(s)[k] = s[k + 1]
  BY <1>1
<1>3. ls # <<>> /\ \A k \in DOMAIN ls : ls[k].n > 0
  BY DEF Rows
<1> HIDE DEF first
<1>5. \A r \in Row : Within(r, r) /\ (r.n > 0 => r \in Lines)
  BY DEF Row, Lines, Within
<1>4. ASSUME NEW row \in Changed(first)
      PROVE  Within(row, first) /\ row.ref = first.ref /\ (row.n > 0 => row \in Lines)
  <2>1. CASE row = [first EXCEPT !.n = first.n - 1]
    <3>1. row = [product |-> first.product, name |-> first.name, unit |-> first.unit,
                 n |-> first.n - 1, ref |-> first.ref]
      BY <1>1, <2>1 DEF Row
    <3>2. QED
      BY <1>1, <3>1 DEF Row, Lines, Within
  <2>2. ASSUME NEW m \in Names, row = [first EXCEPT !.name = m]
        PROVE  Within(row, first) /\ row.ref = first.ref /\ (row.n > 0 => row \in Lines)
    <3>1. row = [product |-> first.product, name |-> m, unit |-> first.unit,
                 n |-> first.n, ref |-> first.ref]
      BY <1>1, <2>2 DEF Row
    <3>2. QED
      BY <1>1, <3>1 DEF Row, Lines, Within
  <2>3. QED
    BY <2>1, <2>2 DEF Changed
<1>8. PICK N \in Nat : DOMAIN ls = 1..N /\ ls = [k \in 1..N |-> ls[k]]
  <2>1. \/ ls \in {s, Tail(s), Append(Tail(s), first)}
        \/ \E row \in Changed(first) : ls = <<row>> \o Tail(s)
    BY DEF Rows, first
  <2>2. Append(Tail(s), first) \in Seq(Row)
    BY <1>1, <1>2
  <2>3. \A row : <<row>> \o Tail(s) \in Seq(Row \union {row})
    BY <1>2
  <2>4. \E X : ls \in Seq(X)
    BY <1>2, <2>1, <2>2, <2>3
  <2>5. PICK X : ls \in Seq(X)
    BY <2>4
  <2>6. QED
    BY <2>5
<1>9. ASSUME NEW h \in Injection(DOMAIN ls, DOMAIN s), \A k \in DOMAIN ls : Comes(k, h[k]),
             \A k \in DOMAIN ls : ls[k] \in Lines
      PROVE  /\ ls \in Seq(Lines)
             /\ \E g \in Injection(DOMAIN ls, DOMAIN s) : \A k \in DOMAIN ls : Comes(k, g[k])
  BY <1>8, <1>9
<1>10. CASE ls = s
  <2> DEFINE h == [k \in DOMAIN ls |-> k]
  <2>1. h \in Injection(DOMAIN ls, DOMAIN s)
    BY <1>10 DEF Injection, IsInjective
  <2>2. \A k \in DOMAIN ls : Comes(k, h[k]) /\ ls[k] \in Lines
    BY <1>1, <1>3, <1>5, <1>10
  <2> HIDE DEF h, Comes
  <2>3. QED
    BY <1>3, <1>9, <2>1, <2>2 DEF Comes
<1>11. CASE ls = Tail(s)
  <2> DEFINE h == [k \in DOMAIN ls |-> k + 1]
  <2>1. h \in Injection(DOMAIN ls, DOMAIN s)
    BY <1>1, <1>2, <1>11 DEF Injection, IsInjective
  <2>2. \A k \in DOMAIN ls : Comes(k, h[k]) /\ ls[k] \in Lines
    BY <1>1, <1>2, <1>3, <1>5, <1>11
  <2> HIDE DEF h, Comes
  <2>3. QED
    BY <1>3, <1>9, <2>1, <2>2 DEF Comes
<1>12. CASE ls = Append(Tail(s), first)
  <2> DEFINE h == [k \in DOMAIN ls |-> IF k = Len(s) THEN 1 ELSE k + 1]
  <2> DEFINE t == Tail(s)
             n == Len(s)
  <2>0. /\ t \in Seq(Row) /\ Len(t) = n - 1 /\ first \in Row /\ ls = Append(t, first) /\ n \in Nat \ {0}
        /\ \A k \in 1..(n - 1) : t[k] = s[k + 1]
    BY <1>1, <1>2, <1>12
  <2> HIDE DEF t, n
  <2>1. DOMAIN ls = 1..n /\ \A k \in 1..n : ls[k] = IF k = n THEN first ELSE s[k + 1]
    BY <2>0
  <2>2. h \in Injection(DOMAIN ls, DOMAIN s)
    <3>1. DOMAIN s = 1..n /\ DOMAIN h = 1..n /\ \A k \in 1..n : h[k] = IF k = n THEN 1 ELSE k + 1
      BY <1>1, <2>1 DEF n
    <3>2. h = [k \in 1..n |-> h[k]]
      BY <2>1 DEF n
    <3> HIDE DEF h
    <3>3. h \in [1..n -> 1..n]
      BY <2>0, <3>1, <3>2
    <3>4. \A a, b \in 1..n : h[a] = h[b] => a = b
      BY <2>0, <3>1
    <3>5. QED
      BY <2>1, <3>1, <3>3, <3>4 DEF Injection, IsInjective
  <2>3. \A k \in DOMAIN ls : Comes(k, h[k]) /\ ls[k] \in Lines
    <3>1. SUFFICES ASSUME NEW k \in 1..n PROVE Comes(k, h[k]) /\ ls[k] \in Lines
      BY <2>1
    <3>2. h[k] = (IF k = n THEN 1 ELSE k + 1) /\ h[k] \in 1..n
      BY <2>0, <2>1 DEF n
    <3>3. ls[k] = s[h[k]] /\ s[h[k]] \in Row /\ ls[k].n > 0
      BY <1>1, <1>3, <2>0, <2>1, <3>2 DEF n
    <3> HIDE DEF h
    <3>4. QED
      BY <1>5, <3>3
  <2> HIDE DEF h, Comes
  <2>4. QED
    BY <1>3, <1>9, <2>2, <2>3 DEF Comes
<1>13. ASSUME NEW row \in Changed(first), ls = <<row>> \o Tail(s)
       PROVE  /\ ls \in Seq(Lines)
              /\ \E g \in Injection(DOMAIN ls, DOMAIN s) : \A k \in DOMAIN ls : Comes(k, g[k])
  <2> DEFINE h == [k \in DOMAIN ls |-> k]
  <2>1. DOMAIN ls = 1..Len(s) /\ \A k \in 1..Len(s) : ls[k] = IF k = 1 THEN row ELSE s[k]
    BY <1>1, <1>2, <1>13
  <2>2. h \in Injection(DOMAIN ls, DOMAIN s)
    BY <1>1, <2>1 DEF Injection, IsInjective
  <2>3. \A k \in DOMAIN ls : Comes(k, h[k]) /\ ls[k] \in Lines
    BY <1>1, <1>3, <1>4, <1>5, <2>1
  <2> HIDE DEF h, Comes
  <2>4. QED
    BY <1>9, <2>2, <2>3
<1>14. QED
  BY <1>3, <1>10, <1>11, <1>12, <1>13 DEF Rows, first

\* So they add up to no more, all of them and those tagged with an order.
LEMMA RowsAddUp ==
    ASSUME NEW s \in Seq(Row), s # <<>>, NEW ls \in Rows(s), NEW o, NEW p, NEW unit
    PROVE  /\ Sum(ls, p, unit) <= Sum(s, p, unit)
           /\ Sum(Tagged(ls, o), p, unit) <= Sum(Tagged(s, o), p, unit)
<1>1. PICK h \in Injection(DOMAIN ls, DOMAIN s) :
         \A k \in DOMAIN ls : Within(ls[k], s[h[k]]) /\ ls[k].ref = s[h[k]].ref
  BY RowsWithin
<1>2. ls \in [DOMAIN ls -> Row] /\ s \in [DOMAIN s -> Row] /\ IsFiniteSet(DOMAIN s)
  <2>1. ls \in Seq(Row)
    BY RowsWithin, LinesAreRows
  <2>2. DOMAIN s = 1..Len(s) /\ Len(s) \in Nat
    OBVIOUS
  <2>3. ls \in [DOMAIN ls -> Row] /\ s \in [DOMAIN s -> Row]
    BY <2>1
  <2>4. IsFiniteSet(1..Len(s))
    BY <2>2, FS_Interval
  <2>5. QED
    BY <2>2, <2>3, <2>4
<1>3. Sum(ls, p, unit) <= Sum(s, p, unit)
  BY <1>1, <1>2, SumOfWithin
<1> DEFINE D == {k \in DOMAIN ls : ls[k].ref = o}
           E == {k \in DOMAIN s : s[k].ref = o}
           g == [k \in D |-> h[k]]
<1>4. /\ Tagged(ls, o) \in [D -> Row] /\ Tagged(s, o) \in [E -> Row] /\ IsFiniteSet(E)
      /\ (\A k \in D : Tagged(ls, o)[k] = ls[k]) /\ \A k \in E : Tagged(s, o)[k] = s[k]
  <2>1. IsFiniteSet(E)
    BY <1>2, FS_Subset
  <2>2. QED
    BY <1>2, <2>1 DEF Tagged
<1>5. g \in Injection(D, E)
  BY <1>1 DEF Injection, IsInjective
<1>6. \A k \in D : Within(Tagged(ls, o)[k], Tagged(s, o)[g[k]])
  BY <1>1, <1>4, <1>5 DEF Injection
<1> HIDE DEF D, E, g
<1>7. Sum(Tagged(ls, o), p, unit) <= Sum(Tagged(s, o), p, unit)
  BY <1>4, <1>5, <1>6, SumOfWithin
<1>8. QED
  BY <1>3, <1>7

\* A form whose rows are each within a line of their own of some lines: their
\* products are of those lines, and if one line is cut down by d, so is the sum.
Cut(form, s, h) ==
    /\ form \in Seq(Row) /\ h \in Injection(DOMAIN form, DOMAIN s)
    /\ \A i \in DOMAIN form : Within(form[i], s[h[i]])

\* Such rows are finitely many, each of the product of its own line.
LEMMA CutIsRows ==
    ASSUME NEW s \in Seq(Lines), NEW form, NEW h, Cut(form, s, h)
    PROVE  /\ s \in [DOMAIN s -> Row] /\ s \in Seq(Row) /\ IsFiniteSet(DOMAIN s)
           /\ form \in [DOMAIN form -> Row] /\ IsFiniteSet(DOMAIN form)
           /\ \A i \in DOMAIN form : h[i] \in DOMAIN s /\ form[i].product = s[h[i]].product
           /\ \A i, j \in DOMAIN form : h[i] = h[j] => i = j
<1>1. \A r \in Seq(Row) : r \in [DOMAIN r -> Row] /\ IsFiniteSet(DOMAIN r)
  <2>1. SUFFICES ASSUME NEW r \in Seq(Row) PROVE r \in [DOMAIN r -> Row] /\ IsFiniteSet(DOMAIN r)
    OBVIOUS
  <2>2. DOMAIN r = 1..Len(r) /\ Len(r) \in Nat
    OBVIOUS
  <2>3. r \in [DOMAIN r -> Row]
    OBVIOUS
  <2>4. IsFiniteSet(1..Len(r))
    BY <2>2, FS_Interval
  <2>5. QED
    BY <2>2, <2>3, <2>4
<1>2. s \in Seq(Row)
  BY LinesAreRows
<1>3. QED
  BY <1>1, <1>2 DEF Cut, Injection, IsInjective, Within

\* With a line cut down by d the rows add up to d less than the lines.
LEMMA CutSum ==
    ASSUME NEW s \in Seq(Lines), NEW form, NEW h, Cut(form, s, h),
           NEW m \in DOMAIN s, NEW d \in Nat, d <= s[m].n,
           \A i \in DOMAIN form : h[i] = m => form[i].n <= s[m].n - d
    PROVE  d + Sum(form, s[m].product, s[m].unit) <= Sum(s, s[m].product, s[m].unit)
<1> DEFINE p == s[m].product
           unit == s[m].unit
           low == [product |-> p, name |-> s[m].name, unit |-> unit, n |-> s[m].n - d, ref |-> s[m].ref]
           t == [k \in DOMAIN s |-> IF k = m THEN low ELSE s[k]]
           f == [k \in DOMAIN s |-> Worth(s[k], p, unit)]
           g == [k \in DOMAIN s |-> Worth(t[k], p, unit)]
           rest == SumFunction([k \in DOMAIN s \ {m} |-> f[k]])
<1>1. /\ s \in [DOMAIN s -> Row] /\ IsFiniteSet(DOMAIN s)
      /\ form \in [DOMAIN form -> Row] /\ IsFiniteSet(DOMAIN form)
      /\ \A i \in DOMAIN form : h[i] \in DOMAIN s
  BY CutIsRows
<1>2. s[m].n \in Nat /\ s[m].n - d \in Nat /\ s[m] \in Row /\ low \in Row
  BY <1>1 DEF Row
<1>3. t \in [DOMAIN s -> Row] /\ t[m] = low /\ \A k \in DOMAIN s \ {m} : t[k] = s[k]
  BY <1>1, <1>2
<1>4. Worth(low, p, unit) = s[m].n - d /\ Worth(s[m], p, unit) = s[m].n
  <2>1. low.product = p /\ low.unit = unit /\ low.n = s[m].n - d
    OBVIOUS
  <2> HIDE DEF low
  <2>2. QED
    BY <1>2, <2>1, WorthOfRows
<1>5. \A i \in DOMAIN form : Within(form[i], t[h[i]])
  <2>1. SUFFICES ASSUME NEW i \in DOMAIN form PROVE Within(form[i], t[h[i]])
    OBVIOUS
  <2>2. Within(form[i], s[h[i]])
    BY DEF Cut
  <2>3. CASE h[i] = m
    BY <1>3, <2>2, <2>3 DEF Within
  <2>4. CASE h[i] # m
    BY <1>1, <1>3, <2>2, <2>4
  <2>5. QED
    BY <2>3, <2>4
<1> HIDE DEF t, low
<1>6. Sum(form, p, unit) <= Sum(t, p, unit)
  BY <1>1, <1>3, <1>5, SumOfWithin DEF Cut
<1>7. f \in [DOMAIN s -> Nat] /\ g \in [DOMAIN s -> Nat]
  BY <1>1, <1>3, WorthOfRows
<1>8. Sum(s, p, unit) = SumFunction(f) /\ Sum(t, p, unit) = SumFunction(g)
  BY <1>3 DEF Sum
<1>9. f[m] = s[m].n /\ g[m] = s[m].n - d
  BY <1>3, <1>4
<1>10. [k \in DOMAIN s \ {m} |-> f[k]] = [k \in DOMAIN s \ {m} |-> g[k]]
  BY <1>3
<1> HIDE DEF f, g, p, unit
<1>11. SumFunction(f) = f[m] + rest /\ SumFunction(g) = g[m] + rest
  <2>1. SumFunction(f) = f[m] + SumFunction([k \in DOMAIN s \ {m} |-> f[k]])
    BY ONLY <1>1, <1>7, SumSplits, m \in DOMAIN s
  <2>2. SumFunction(g) = g[m] + SumFunction([k \in DOMAIN s \ {m} |-> g[k]])
    BY ONLY <1>1, <1>7, SumSplits, m \in DOMAIN s
  <2>3. QED
    BY <1>10, <2>1, <2>2
<1>12. rest \in Nat
  <2>1. IsFiniteSet(DOMAIN s \ {m}) /\ [k \in DOMAIN s \ {m} |-> f[k]] \in [DOMAIN s \ {m} -> Nat]
    BY <1>1, <1>7, FS_RemoveElement
  <2>2. QED
    BY <2>1, SumSplits
<1>13. Sum(form, p, unit) \in Nat
  BY <1>1, SumOfRows
<1> HIDE DEF rest
<1>14. QED
  BY <1>2, <1>6, <1>8, <1>9, <1>11, <1>12, <1>13 DEF p, unit

\* Of a product on one line the rows hold what that line is cut down to.
LEMMA CutSingle ==
    ASSUME NEW s \in Seq(Lines), NEW form, NEW h, Cut(form, s, h), NEW m \in DOMAIN s,
           \A k \in DOMAIN s \ {m} : s[k].product # s[m].product
    PROVE  /\ (\A i \in DOMAIN form : h[i] # m) => Sum(form, s[m].product, s[m].unit) = 0
           /\ \A i \in DOMAIN form : h[i] = m => Sum(form, s[m].product, s[m].unit) = form[i].n
<1>1. /\ form \in [DOMAIN form -> Row] /\ IsFiniteSet(DOMAIN form)
      /\ \A i \in DOMAIN form : h[i] \in DOMAIN s /\ form[i].product = s[h[i]].product
      /\ \A i, j \in DOMAIN form : h[i] = h[j] => i = j
  BY CutIsRows
<1>2. ASSUME \A i \in DOMAIN form : h[i] # m
      PROVE  Sum(form, s[m].product, s[m].unit) = 0
  <2>1. \A i \in DOMAIN form : form[i].product # s[m].product
    BY <1>1, <1>2
  <2>2. QED
    BY <1>1, <2>1, SumOfRows
<1>3. ASSUME NEW i \in DOMAIN form, h[i] = m
      PROVE  Sum(form, s[m].product, s[m].unit) = form[i].n
  <2>1. \A j \in DOMAIN form \ {i} : form[j].product # s[m].product
    BY <1>1, <1>3
  <2>2. Sum(form, s[m].product, s[m].unit) = Worth(form[i], s[m].product, s[m].unit)
    <3>1. PICK p, unit : p = s[m].product /\ unit = s[m].unit
      OBVIOUS
    <3>2. Sum(form, p, unit) = Worth(form[i], p, unit)
      <4>1. \A j \in DOMAIN form \ {i} : form[j].product # p
        BY <2>1, <3>1
      <4>2. QED
        BY <1>1, <4>1, SumOfOneRow
    <3>3. QED
      BY <3>1, <3>2
  <2>3. form[i].product = s[m].product /\ form[i].unit = s[m].unit /\ form[i] \in Row
    BY <1>1, <1>3 DEF Cut, Within
  <2>4. QED
    BY <2>2, <2>3, WorthOfRows
<1>4. QED
  BY <1>2, <1>3

-----------------------------------------------------------------------------
(* What a form is filled with.                                             *)

OrdersTyped ==
    /\ IsFiniteSet(DOMAIN orders)
    /\ \A o \in DOMAIN orders : /\ {"kind", "lines"} \subseteq DOMAIN orders[o]
                                /\ orders[o].kind \in {"order", "jobwork"}
                                /\ orders[o].lines \in Seq(Lines) /\ orders[o].lines # <<>>
InvoicesTyped ==
    /\ IsFiniteSet(DOMAIN invoices)
    /\ \A i \in DOMAIN invoices : invoices[i].lines \in Seq(Lines)

\* What lines add up to is a natural, of them all or of those tagged with an order.
LEMMA SumsOfLines ==
    ASSUME NEW s \in Seq(Row), NEW o, NEW p, NEW unit
    PROVE  /\ s \in [DOMAIN s -> Row] /\ IsFiniteSet(DOMAIN s)
           /\ Sum(s, p, unit) \in Nat /\ Sum(Tagged(s, o), p, unit) \in Nat
<1> DEFINE E == {k \in DOMAIN s : s[k].ref = o}
<1>1. s \in [DOMAIN s -> Row] /\ IsFiniteSet(DOMAIN s)
  <2>1. DOMAIN s = 1..Len(s) /\ Len(s) \in Nat
    OBVIOUS
  <2>2. s \in [DOMAIN s -> Row]
    OBVIOUS
  <2>3. IsFiniteSet(1..Len(s))
    BY <2>1, FS_Interval
  <2>4. QED
    BY <2>1, <2>2, <2>3
<1>2. Tagged(s, o) \in [E -> Row] /\ IsFiniteSet(E)
  <2>1. IsFiniteSet(E)
    BY <1>1, FS_Subset
  <2>2. QED
    BY <1>1, <2>1 DEF Tagged
<1> HIDE DEF E
<1>3. QED
  BY <1>1, <1>2, SumOfRows

\* Lines none of which is tagged with an order count nothing for it.
LEMMA NoTags ==
    ASSUME NEW s, NEW o, \A k \in DOMAIN s : s[k].ref # o, NEW p, NEW unit
    PROVE  Sum(Tagged(s, o), p, unit) = 0
<1> DEFINE t == Tagged(s, o)
<1>1. {k \in DOMAIN s : s[k].ref = o} = {}
  OBVIOUS
<1>2. DOMAIN t = {} /\ t \in [{} -> Row]
  BY <1>1 DEF Tagged
<1> HIDE DEF t
<1>3. PICK E : IsFiniteSet(E) /\ t \in [E -> Row] /\ \A k \in E : t[k].product # p
  BY <1>2, FS_EmptySet
<1>4. Sum(t, p, unit) = 0
  BY <1>3, SumOfRows
<1>5. QED
  BY <1>4 DEF t

\* Finitely many documents, each with rows.
DocsTyped(docs) ==
    /\ IsFiniteSet(DOMAIN docs)
    /\ \A d \in DOMAIN docs : IsFiniteSet(DOMAIN docs[d]) /\ docs[d] \in [DOMAIN docs[d] -> Row]

\* Those under one name add up to no more, and to all if there are no others.
LEMMA SumOfName ==
    ASSUME NEW D, IsFiniteSet(D), NEW s \in [D -> Row], NEW p, NEW m, NEW unit
    PROVE  /\ Sum(s, p, unit) \in Nat /\ SumAs(s, p, m, unit) \in Nat
           /\ SumAs(s, p, m, unit) <= Sum(s, p, unit)
           /\ (\A k \in D : s[k].product = p => s[k].name = m) => SumAs(s, p, m, unit) = Sum(s, p, unit)
<1> DEFINE f == [k \in D |-> IF s[k].name = m THEN Worth(s[k], p, unit) ELSE 0]
           g == [k \in D |-> Worth(s[k], p, unit)]
<1>1. \A k \in D : Worth(s[k], p, unit) \in Nat /\ (s[k].product # p => Worth(s[k], p, unit) = 0)
  BY WorthOfRows
<1>2. f \in [D -> Nat] /\ g \in [D -> Nat] /\ \A k \in D : f[k] <= g[k]
  BY <1>1
<1>3. SumAs(s, p, m, unit) = SumFunction(f) /\ Sum(s, p, unit) = SumFunction(g)
  BY DEF SumAs, Sum
<1>4. (\A k \in D : s[k].product = p => s[k].name = m) => f = g
  BY <1>1
<1> HIDE DEF f, g
<1>5. SumFunction(f) \in Nat /\ SumFunction(g) \in Nat
  BY <1>2, SumSplits
<1>6. SumFunction(f) <= SumFunction(g)
  BY <1>2, SumGrows
<1>7. QED
  BY <1>3, <1>4, <1>5, <1>6

\* What is recorded of a product is within what the lines come to, and it is all
\* of that if they bear one name.
LEMMA RecordedWithin ==
    ASSUME NEW docs, DocsTyped(docs), NEW p, NEW unit
    PROVE  /\ Recorded(docs, p, unit) \in Nat /\ InAll(docs, p, unit) \in Nat
           /\ Recorded(docs, p, unit) <= InAll(docs, p, unit)
           /\ OneName(docs, p) => Recorded(docs, p, unit) = InAll(docs, p, unit)
<1> DEFINE D == DOMAIN docs
           names == NamesOf(docs, p)
           m == Max(names)
           f == [d \in D |-> SumAs(docs[d], p, m, unit)]
           g == [d \in D |-> Sum(docs[d], p, unit)]
<1>1. IsFiniteSet(D) /\ \A d \in D : IsFiniteSet(DOMAIN docs[d]) /\ docs[d] \in [DOMAIN docs[d] -> Row]
  BY DEF DocsTyped
<1>2. \A d \in D : \A k \in DOMAIN docs[d] : docs[d][k].product = p => docs[d][k].name \in names
  <2>1. SUFFICES ASSUME NEW d \in D, NEW k \in DOMAIN docs[d], docs[d][k].product = p
                 PROVE  docs[d][k].name \in names
    OBVIOUS
  <2>2. docs[d][k].name \in Names
    BY <1>1 DEF Row
  <2>3. QED
    BY <2>1, <2>2 DEF NamesOf
<1>3. InAll(docs, p, unit) = SumFunction(g)
  BY DEF InAll
<1>4. Recorded(docs, p, unit) = IF names = {} THEN 0 ELSE SumFunction(f)
  BY DEF Recorded
<1>5. OneName(docs, p) /\ names # {} => \A x \in names : x = m
  <2>1. SUFFICES ASSUME OneName(docs, p), NEW x \in names PROVE x = m
    OBVIOUS
  <2>2. names = {x} /\ x \in Nat
    BY <2>1, AltQuantityAssumption DEF OneName, NamesOf
  <2>3. x >= x
    BY <2>2
  <2> HIDE DEF names
  <2>4. QED
    BY <2>2, <2>3 DEF Max
<1> HIDE DEF names, m
<1>6. \A d \in D : /\ Sum(docs[d], p, unit) \in Nat /\ SumAs(docs[d], p, m, unit) \in Nat
                   /\ SumAs(docs[d], p, m, unit) <= Sum(docs[d], p, unit)
  BY <1>1, SumOfName
<1>7. ASSUME OneName(docs, p), names # {} PROVE f = g
  <2>1. SUFFICES ASSUME NEW d \in D PROVE SumAs(docs[d], p, m, unit) = Sum(docs[d], p, unit)
    OBVIOUS
  <2>2. \A k \in DOMAIN docs[d] : docs[d][k].product = p => docs[d][k].name = m
    BY <1>2, <1>5, <1>7
  <2>3. QED
    BY <1>1, <2>2, SumOfName
<1>8. ASSUME names = {} PROVE \A d \in D : Sum(docs[d], p, unit) = 0
  <2>1. SUFFICES ASSUME NEW d \in D PROVE Sum(docs[d], p, unit) = 0
    OBVIOUS
  <2>2. \A k \in DOMAIN docs[d] : docs[d][k].product # p
    BY <1>2, <1>8
  <2>3. QED
    BY <1>1, <2>2, SumOfRows
<1>9. f \in [D -> Nat] /\ g \in [D -> Nat] /\ \A d \in D : f[d] <= g[d]
  BY <1>6
<1>10. names = {} => \A d \in D : g[d] = 0
  BY <1>8
<1> HIDE DEF f, g, D
<1>11. SumFunction(f) \in Nat /\ SumFunction(g) \in Nat
  BY <1>1, <1>9, SumSplits
<1>12. SumFunction(f) <= SumFunction(g)
  BY <1>1, <1>9, SumGrows
<1>13. names = {} => SumFunction(g) = 0
  BY <1>1, <1>9, <1>10, SumOfZeros
<1>14. QED
  BY <1>3, <1>4, <1>7, <1>11, <1>12, <1>13

\* The lines of the purchase orders, and those of invoices that are tagged.
LEMMA OrderedTyped ==
    ASSUME OrdersTyped
    PROVE  DocsTyped(OrderedLines)
<1>1. Purchases \in SUBSET DOMAIN orders
  BY DEF Purchases
<1>2. IsFiniteSet(Purchases)
  BY <1>1, FS_Subset DEF OrdersTyped
<1>3. \A o \in Purchases : IsFiniteSet(DOMAIN orders[o].lines) /\ orders[o].lines \in [DOMAIN orders[o].lines -> Row]
  <2>1. SUFFICES ASSUME NEW o \in Purchases
                 PROVE  IsFiniteSet(DOMAIN orders[o].lines) /\ orders[o].lines \in [DOMAIN orders[o].lines -> Row]
    OBVIOUS
  <2>2. orders[o].lines \in Seq(Row)
    BY <1>1, LinesAreRows DEF OrdersTyped
  <2>3. QED
    BY <2>2, SumsOfLines
<1>4. QED
  BY <1>2, <1>3 DEF DocsTyped, OrderedLines

LEMMA InvoicedTyped ==
    ASSUME InvoicesTyped, NEW o, NEW except
    PROVE  DocsTyped(InvoicedLines(o, except))
<1> DEFINE D == DOMAIN invoices \ {except}
<1>1. IsFiniteSet(D)
  BY FS_RemoveElement DEF InvoicesTyped
<1>2. ASSUME NEW i \in D
      PROVE  LET t == Tagged(invoices[i].lines, o) IN IsFiniteSet(DOMAIN t) /\ t \in [DOMAIN t -> Row]
  <2> DEFINE s == invoices[i].lines
             E == {k \in DOMAIN s : s[k].ref = o}
  <2>1. s \in Seq(Row)
    BY LinesAreRows DEF InvoicesTyped
  <2>2. s \in [DOMAIN s -> Row] /\ IsFiniteSet(DOMAIN s)
    BY <2>1, SumsOfLines
  <2>3. IsFiniteSet(E)
    BY <2>2, FS_Subset
  <2>4. QED
    BY <2>2, <2>3 DEF Tagged
<1>3. QED
  BY <1>1, <1>2 DEF DocsTyped, InvoicedLines

\* What is placed is a natural, and so is what is invoiced.
LEMMA PlacedIsNat ==
    ASSUME OrdersTyped, NEW p, NEW unit
    PROVE  Placed(p, unit) \in Nat
BY OrderedTyped, RecordedWithin DEF Placed

LEMMA InvoicedIsNat ==
    ASSUME InvoicesTyped, NEW o, NEW p, NEW unit, NEW except
    PROVE  Invoiced(o, p, unit, except) \in Nat
BY InvoicedTyped, RecordedWithin DEF Invoiced

\* Of what is recorded, a form that holds the rest offers the rest.
RestOf(l, form, done) == Sum(form, l.product, l.unit) = IF done < l.n THEN l.n - done ELSE 0
LEMMA RestIsOffered ==
    ASSUME NEW docs, DocsTyped(docs), NEW l \in Lines, NEW form,
           RestOf(l, form, Recorded(docs, l.product, l.unit))
    PROVE  OffersTheRest(l, form, docs)
<1> DEFINE done == Recorded(docs, l.product, l.unit)
           all == InAll(docs, l.product, l.unit)
<1>1. done \in Nat /\ all \in Nat /\ done <= all /\ (OneName(docs, l.product) => done = all)
  BY RecordedWithin
<1>2. l.n \in Nat /\ Sum(form, l.product, l.unit) = IF done < l.n THEN l.n - done ELSE 0
  BY DEF Lines, RestOf
<1> HIDE DEF done
<1>3. QED
  BY <1>1, <1>2 DEF OffersTheRest

\* The lines that are pending of a product, and the last of them.
LEMMA LastPending ==
    ASSUME proforma \in Seq(Lines), OrdersTyped, NEW p, PendingOf(p) # {}
    PROVE  LET m == Max(PendingOf(p)) IN
           /\ m \in DOMAIN proforma /\ proforma[m].product = p
           /\ Outstanding(proforma[m], Placed(p, proforma[m].unit)) > 0
<1>1. DOMAIN proforma = 1..Len(proforma) /\ Len(proforma) \in Nat
  OBVIOUS
<1>2. PendingOf(p) \in SUBSET DOMAIN proforma
  BY DEF PendingOf, Pending
<1>3. IsFiniteSet(PendingOf(p)) /\ PendingOf(p) \in SUBSET Int
  <2>1. IsFiniteSet(1..Len(proforma))
    BY <1>1, FS_Interval
  <2>2. QED
    BY <1>1, <1>2, <2>1, FS_Subset
<1>4. Max(PendingOf(p)) \in PendingOf(p)
  <2>1. \E x \in PendingOf(p) : \A y \in PendingOf(p) : x >= y
    BY <1>3, FiniteHasMax
  <2>2. QED
    BY <2>1 DEF Max
<1>5. QED
  BY <1>2, <1>4 DEF PendingOf, Pending

\* A new order's form: the lines of the products that are pending, each within its
\* line, the last pending one of its product cut down by all that is placed.
LEMMA OrderForm ==
    ASSUME proforma \in Seq(Lines), OrdersTyped
    PROVE  \E h : /\ Cut(RemainingProducts, proforma, h)
                  /\ \A i \in DOMAIN RemainingProducts :
                        LET p == proforma[h[i]].product
                            m == Max(PendingOf(p)) IN
                        /\ PendingOf(p) # {}
                        /\ h[i] = m => RemainingProducts[i].n
                                          = proforma[m].n - Placed(p, proforma[m].unit)
                  /\ \A k \in DOMAIN proforma : PendingOf(proforma[k].product) # {} =>
                        \E i \in DOMAIN RemainingProducts : h[i] = k
<1> DEFINE places == {k \in DOMAIN proforma : PendingOf(proforma[k].product) # {}}
           N == Cardinality(places)
           offered == At(proforma, places)
           by(l) == proforma[Max(PendingOf(l.product))]
           done(l) == Placed(by(l).product, by(l).unit)
           rest == RemainingProducts
<1>1. rest = [i \in DOMAIN offered |-> CutDown(offered[i], by(offered[i]), done(offered[i]))]
  BY DEF RemainingProducts
<1>2. places \in SUBSET DOMAIN proforma /\ \A k \in DOMAIN proforma :
         k \in places <=> PendingOf(proforma[k].product) # {}
  OBVIOUS
<1> HIDE DEF places
<1>3. N \in Nat /\ DOMAIN offered = 1..N /\ offered \in Seq(Lines)
  BY <1>2, AtPlaces
<1>4. PICK h \in Bijection(1..N, places) : \A i \in 1..N : offered[i] = proforma[h[i]]
  BY <1>2, AtPlaces
<1>5. /\ h \in [1..N -> places] /\ (\A i, j \in 1..N : h[i] = h[j] => i = j)
      /\ \A k \in places : \E i \in 1..N : h[i] = k
  BY <1>4 DEF Bijection, Injection, Surjection, IsInjective
<1> HIDE DEF offered, rest
<1>6. ASSUME NEW i \in 1..N
      PROVE  /\ rest[i] \in Row /\ Within(rest[i], proforma[h[i]])
             /\ PendingOf(proforma[h[i]].product) # {}
             /\ h[i] = Max(PendingOf(proforma[h[i]].product)) =>
                   rest[i].n = proforma[h[i]].n - Placed(proforma[h[i]].product, proforma[h[i]].unit)
  <2> DEFINE l == proforma[h[i]]
             m == Max(PendingOf(l.product))
             d == Placed(l.product, proforma[m].unit)
  <2>1. h[i] \in places /\ PendingOf(l.product) # {}
    BY <1>2, <1>5
  <2>2. /\ m \in DOMAIN proforma /\ proforma[m].product = l.product
        /\ Outstanding(proforma[m], d) > 0
    BY <2>1, LastPending
  <2>3. rest[i] = CutDown(l, proforma[m], d)
    BY <1>1, <1>3, <1>4, <2>2
  <2>4. d \in Nat
    BY PlacedIsNat
  <2>5. l \in Lines /\ proforma[m] \in Lines
    BY <1>2, <2>1, <2>2
  <2> HIDE DEF l, m, d
  <2>6. rest[i] \in Row /\ Within(rest[i], l) /\ CutDown(proforma[m], proforma[m], d).n = proforma[m].n - d
    BY <2>2, <2>3, <2>4, <2>5, CutDownIsRow
  <2>7. h[i] = m => rest[i].n = l.n - Placed(l.product, l.unit)
    BY <2>3, <2>6 DEF l, d
  <2>8. QED
    BY <2>1, <2>6, <2>7 DEF l, m
<1>7. DOMAIN rest = 1..N
  BY <1>1, <1>3
<1>8. rest \in Seq(Row)
  <2>1. rest = [i \in 1..N |-> rest[i]]
    BY <1>1, <1>3
  <2>2. QED
    BY <1>3, <1>6, <2>1
<1>9. Cut(rest, proforma, h)
  <2>1. h \in Injection(1..N, DOMAIN proforma)
    BY <1>2, <1>5 DEF Injection, IsInjective
  <2>2. QED
    BY <1>6, <1>7, <1>8, <2>1 DEF Cut
<1>10. \A k \in DOMAIN proforma : PendingOf(proforma[k].product) # {} => \E i \in 1..N : h[i] = k
  BY <1>2, <1>5
<1>11. QED
  BY <1>6, <1>7, <1>9, <1>10 DEF rest

\* A product that stands on one line only.
LEMMA OnOneLine ==
    ASSUME NEW s \in Seq(Lines), NEW k \in DOMAIN s, Single(s, s[k].product)
    PROVE  \A j \in DOMAIN s \ {k} : s[j].product # s[k].product
<1> DEFINE S == {j \in DOMAIN s : s[j].product = s[k].product}
<1>1. IsFiniteSet(S)
  <2>1. DOMAIN s = 1..Len(s) /\ Len(s) \in Nat
    OBVIOUS
  <2>2. IsFiniteSet(1..Len(s))
    BY <2>1, FS_Interval
  <2>3. QED
    BY <2>1, <2>2, FS_Subset
<1>2. k \in S /\ Cardinality(S) = 1
  BY DEF Single
<1>3. \E x : S = {x}
  <2> HIDE DEF S
  <2>1. QED
    BY <1>1, <1>2, FS_Singleton
<1>4. QED
  BY <1>2, <1>3

\* The form of a new order offers what is not placed yet of such a product, and of
\* a product in one unit no more than is not placed yet.
LEMMA OrderFormRests ==
    ASSUME proforma \in Seq(Lines), OrdersTyped, NEW k \in DOMAIN proforma, NEW l, l = proforma[k],
           Single(proforma, l.product)
    PROVE  RestOf(l, RemainingProducts, Placed(l.product, l.unit))
<1> DEFINE p == l.product
           done == Placed(p, l.unit)
           form == RemainingProducts
<1>1. PICK h : /\ Cut(form, proforma, h)
               /\ \A i \in DOMAIN form :
                     LET q == proforma[h[i]].product
                         m == Max(PendingOf(q)) IN
                     /\ PendingOf(q) # {}
                     /\ h[i] = m => form[i].n = proforma[m].n - Placed(q, proforma[m].unit)
               /\ \A j \in DOMAIN proforma : PendingOf(proforma[j].product) # {} =>
                     \E i \in DOMAIN form : h[i] = j
  BY OrderForm
<1> HIDE DEF form
<1>2. \A j \in DOMAIN proforma \ {k} : proforma[j].product # proforma[k].product
  BY OnOneLine
<1>3. done \in Nat /\ l.n \in Nat
  <2>1. done \in Nat
    BY PlacedIsNat
  <2>2. l \in Lines
    OBVIOUS
  <2>3. QED
    BY <2>1, <2>2 DEF Lines
<1>4. CASE done < l.n
  <2>1. k \in PendingOf(p)
    BY <1>3, <1>4 DEF PendingOf, Pending, Outstanding
  <2>2. Max(PendingOf(p)) = k
    <3>1. Max(PendingOf(p)) \in DOMAIN proforma /\ proforma[Max(PendingOf(p))].product = p
      BY <2>1, LastPending
    <3>2. QED
      BY <1>2, <3>1
  <2>3. PICK i \in DOMAIN form : h[i] = k
    BY <1>1, <2>1
  <2>4. form[i].n = l.n - done
    BY <1>1, <2>2, <2>3
  <2>5. Sum(form, p, l.unit) = form[i].n
    BY <1>1, <1>2, <2>3, CutSingle
  <2>6. QED
    BY <1>4, <2>4, <2>5 DEF RestOf, form
<1>5. CASE ~(done < l.n)
  <2>1. PendingOf(p) = {}
    <3>1. SUFFICES ASSUME NEW m \in PendingOf(p) PROVE FALSE
      OBVIOUS
    <3>2. m = k
      BY <1>2 DEF PendingOf, Pending
    <3>3. Outstanding(l, done) > 0
      BY <3>1, <3>2 DEF PendingOf, Pending
    <3>4. QED
      BY <1>3, <1>5, <3>3 DEF Outstanding
  <2>2. \A i \in DOMAIN form : h[i] # k
    BY <1>1, <2>1
  <2>3. Sum(form, p, l.unit) = 0
    BY <1>1, <1>2, <2>2, CutSingle
  <2>4. QED
    BY <1>5, <2>3 DEF RestOf, form
<1>6. QED
  BY <1>4, <1>5

\* With what is placed the form adds up to no more than the lines, or than is placed.
LEMMA OrderFormFits ==
    ASSUME proforma \in Seq(Lines), OrdersTyped, NEW k \in DOMAIN proforma, NEW l, l = proforma[k],
           OneUnit(proforma, l)
    PROVE  /\ Sum(RemainingProducts, l.product, l.unit) \in Nat
           /\ Placed(l.product, l.unit) + Sum(RemainingProducts, l.product, l.unit)
                 <= Greater(Placed(l.product, l.unit), Sum(proforma, l.product, l.unit))
<1> DEFINE p == l.product
           done == Placed(p, l.unit)
           form == RemainingProducts
           all == Sum(proforma, p, l.unit)
<1>1. PICK h : /\ Cut(form, proforma, h)
               /\ \A i \in DOMAIN form :
                     LET q == proforma[h[i]].product
                         m == Max(PendingOf(q)) IN
                     /\ PendingOf(q) # {}
                     /\ h[i] = m => form[i].n = proforma[m].n - Placed(q, proforma[m].unit)
  BY OrderForm
<1>2. form \in [DOMAIN form -> Row] /\ IsFiniteSet(DOMAIN form)
      /\ \A i \in DOMAIN form : h[i] \in DOMAIN proforma /\ form[i].product = proforma[h[i]].product
  BY <1>1, CutIsRows
<1> HIDE DEF form
<1>3. done \in Nat /\ all \in Nat /\ Sum(form, p, l.unit) \in Nat
  <2>1. proforma \in Seq(Row)
    BY LinesAreRows
  <2>2. QED
    BY <1>2, <2>1, PlacedIsNat, SumsOfLines, SumOfRows
<1>4. CASE PendingOf(p) = {}
  <2>1. \A i \in DOMAIN form : form[i].product # p
    BY <1>1, <1>2, <1>4
  <2>2. Sum(form, p, l.unit) = 0
    BY <1>2, <2>1, SumOfRows
  <2>3. QED
    BY <1>3, <2>2 DEF Greater, form
<1>5. CASE PendingOf(p) # {}
  <2> DEFINE m == Max(PendingOf(p))
  <2>1. /\ m \in DOMAIN proforma /\ proforma[m].product = p
        /\ Outstanding(proforma[m], Placed(p, proforma[m].unit)) > 0
    BY <1>5, LastPending
  <2>2. proforma[m].unit = l.unit
    BY <2>1 DEF OneUnit
  <2> HIDE DEF m
  <2>3. proforma[m].n \in Nat /\ done <= proforma[m].n
    <3>1. proforma[m] \in Lines
      BY <2>1
    <3>2. proforma[m].n \in Nat
      BY <3>1 DEF Lines
    <3>3. proforma[m].n - done > 0
      BY <2>1, <2>2 DEF Outstanding
    <3>4. QED
      BY <1>3, <3>2, <3>3
  <2>4. \A i \in DOMAIN form : h[i] = m => form[i].n <= proforma[m].n - done
    <3>1. SUFFICES ASSUME NEW i \in DOMAIN form, h[i] = m PROVE form[i].n <= proforma[m].n - done
      OBVIOUS
    <3>2. form[i].n = proforma[m].n - done
      BY <1>1, <2>1, <2>2, <3>1 DEF m
    <3>3. QED
      BY <1>3, <2>3, <3>2
  <2>5. done + Sum(form, proforma[m].product, proforma[m].unit)
            <= Sum(proforma, proforma[m].product, proforma[m].unit)
    BY <1>1, <1>3, <2>1, <2>3, <2>4, CutSum
  <2>6. done + Sum(form, p, l.unit) <= all
    BY <2>1, <2>2, <2>5
  <2>7. QED
    BY <1>3, <2>6 DEF Greater, form
<1>6. QED
  BY <1>3, <1>4, <1>5 DEF form

\* The rows of a form are the lines with anything left to invoice, each cut down to that.
ItemsCut(form, o, s, h) ==
    LET done(l) == Invoiced(o, l.product, l.unit, None) IN
    /\ Cut(form, s, h)
    /\ \A i \in DOMAIN form : LET l == s[h[i]] IN
          form[i].ref = o /\ Outstanding(l, done(l)) > 0 /\ form[i].n = l.n - done(l)
    /\ \A k \in DOMAIN s : Outstanding(s[k], done(s[k])) > 0 => \E i \in DOMAIN form : h[i] = k

\* An invoice's form for an order: the lines with anything left to invoice, each
\* cut down to that, tagged with the order.
LEMMA ItemsForm ==
    ASSUME OrdersTyped, InvoicesTyped, NEW o \in DOMAIN orders, o \in Nat, NEW s, s = orders[o].lines
    PROVE  \E h : ItemsCut(RemainingItems(o), o, s, h)
<1> DEFINE done(l) == Invoiced(o, l.product, l.unit, None)
           places == {k \in DOMAIN s : Outstanding(s[k], done(s[k])) > 0}
           N == Cardinality(places)
           left == At(s, places)
           form == RemainingItems(o)
<1>1. form = [i \in DOMAIN left |-> [CutDown(left[i], left[i], done(left[i])) EXCEPT !.ref = o]]
  BY DEF RemainingItems
<1>2. /\ s \in Seq(Lines) /\ places \in SUBSET DOMAIN s
      /\ \A k \in DOMAIN s : k \in places <=> Outstanding(s[k], done(s[k])) > 0
  BY DEF OrdersTyped
<1> HIDE DEF places
<1>3. N \in Nat /\ DOMAIN left = 1..N /\ left \in Seq(Lines)
  BY <1>2, AtPlaces
<1>4. PICK h \in Bijection(1..N, places) : \A i \in 1..N : left[i] = s[h[i]]
  BY <1>2, AtPlaces
<1>5. /\ h \in [1..N -> places] /\ (\A i, j \in 1..N : h[i] = h[j] => i = j)
      /\ \A k \in places : \E i \in 1..N : h[i] = k
  BY <1>4 DEF Bijection, Injection, Surjection, IsInjective
<1> HIDE DEF left, form
<1>6. ASSUME NEW i \in 1..N
      PROVE  /\ form[i] \in Row /\ Within(form[i], s[h[i]]) /\ form[i].ref = o
             /\ Outstanding(s[h[i]], done(s[h[i]])) > 0
             /\ form[i].n = s[h[i]].n - done(s[h[i]])
  <2> DEFINE l == s[h[i]]
             d == done(l)
             r == CutDown(l, l, d)
  <2>1. h[i] \in places /\ l \in Lines /\ Outstanding(l, d) > 0
    BY <1>2, <1>5
  <2>2. form[i] = [r EXCEPT !.ref = o]
    BY <1>1, <1>3, <1>4
  <2>3. d \in Nat
    BY InvoicedIsNat
  <2> HIDE DEF l, d
  <2>4. r \in Row /\ Within(r, l) /\ r.n = l.n - d
    BY <2>1, <2>3, CutDownIsRow
  <2> HIDE DEF r
  <2>5. form[i] \in Row /\ Within(form[i], l) /\ form[i].ref = o /\ form[i].n = l.n - d
    BY <2>2, <2>4 DEF Row, Within
  <2>6. QED
    BY <2>1, <2>5 DEF l, d
<1>7. DOMAIN form = 1..N
  BY <1>1, <1>3
<1>8. form \in Seq(Row)
  <2>1. form = [i \in 1..N |-> form[i]]
    BY <1>1, <1>3
  <2>2. QED
    BY <1>3, <1>6, <2>1
<1>9. Cut(form, s, h)
  <2>1. h \in Injection(1..N, DOMAIN s)
    BY <1>2, <1>5 DEF Injection, IsInjective
  <2>2. QED
    BY <1>6, <1>7, <1>8, <2>1 DEF Cut
<1>10. \A k \in DOMAIN s : Outstanding(s[k], done(s[k])) > 0 => \E i \in 1..N : h[i] = k
  BY <1>2, <1>5
<1>11. QED
  BY <1>6, <1>7, <1>9, <1>10 DEF form, ItemsCut

\* It offers what is not invoiced yet of a product on one line, and of a product in
\* one unit no more than is not invoiced yet.
LEMMA ItemsFormRests ==
    ASSUME OrdersTyped, InvoicesTyped, NEW o \in DOMAIN orders, o \in Nat,
           NEW k \in DOMAIN orders[o].lines, NEW l, l = orders[o].lines[k],
           Single(orders[o].lines, l.product)
    PROVE  RestOf(l, RemainingItems(o), Invoiced(o, l.product, l.unit, None))
<1> DEFINE p == l.product
           done == Invoiced(o, p, l.unit, None)
           form == RemainingItems(o)
<1>0. PICK s : s = orders[o].lines
  OBVIOUS
<1>1. PICK h : /\ Cut(form, s, h)
               /\ \A i \in DOMAIN form :
                     LET q == s[h[i]]
                         d == Invoiced(o, q.product, q.unit, None) IN
                     /\ form[i].ref = o
                     /\ Outstanding(q, d) > 0
                     /\ form[i].n = q.n - d
               /\ \A j \in DOMAIN s : Outstanding(s[j], Invoiced(o, s[j].product, s[j].unit, None)) > 0 =>
                     \E i \in DOMAIN form : h[i] = j
  <2>1. PICK h : ItemsCut(form, o, s, h)
    BY <1>0, ItemsForm
  <2>2. QED
    BY <2>1 DEF ItemsCut
<1> HIDE DEF form
<1>2. s \in Seq(Lines) /\ k \in DOMAIN s /\ l = s[k] /\ Single(s, s[k].product)
  BY <1>0 DEF OrdersTyped
<1>3. \A j \in DOMAIN s \ {k} : s[j].product # s[k].product
  BY <1>2, OnOneLine
<1>4. done \in Nat /\ l.n \in Nat
  <2>1. done \in Nat
    BY InvoicedIsNat
  <2>2. l \in Lines
    BY <1>2
  <2>3. QED
    BY <2>1, <2>2 DEF Lines
<1>5. CASE done < l.n
  <2>1. Outstanding(l, done) > 0
    BY <1>4, <1>5 DEF Outstanding
  <2>2. PICK i \in DOMAIN form : h[i] = k
    <3>1. Outstanding(s[k], Invoiced(o, s[k].product, s[k].unit, None)) > 0
      BY <1>2, <2>1
    <3>2. QED
      BY <1>1, <1>2, <3>1
  <2>3. form[i].n = l.n - done
    BY <1>1, <1>2, <2>2
  <2>4. Sum(form, p, l.unit) = form[i].n
    BY <1>1, <1>2, <1>3, <2>2, CutSingle
  <2>5. QED
    BY <1>5, <2>3, <2>4 DEF RestOf, form
<1>6. CASE ~(done < l.n)
  <2>1. ~(Outstanding(l, done) > 0)
    BY <1>4, <1>6 DEF Outstanding
  <2>2. \A i \in DOMAIN form : h[i] # k
    BY <1>1, <1>2, <2>1
  <2>3. Sum(form, p, l.unit) = 0
    BY <1>1, <1>2, <1>3, <2>2, CutSingle
  <2>4. QED
    BY <1>6, <2>3 DEF RestOf, form
<1>7. QED
  BY <1>5, <1>6

\* With what is invoiced it adds up to no more than the lines, or than is invoiced.
LEMMA ItemsFormFits ==
    ASSUME OrdersTyped, InvoicesTyped, NEW o \in DOMAIN orders, o \in Nat,
           NEW k \in DOMAIN orders[o].lines, NEW l, l = orders[o].lines[k],
           OneUnit(orders[o].lines, l)
    PROVE  /\ Sum(RemainingItems(o), l.product, l.unit) \in Nat
           /\ Invoiced(o, l.product, l.unit, None) + Sum(RemainingItems(o), l.product, l.unit)
                 <= Greater(Invoiced(o, l.product, l.unit, None), Sum(orders[o].lines, l.product, l.unit))
<1> DEFINE p == l.product
           done == Invoiced(o, p, l.unit, None)
           form == RemainingItems(o)
<1>0. PICK s : s = orders[o].lines
  OBVIOUS
<1> DEFINE all == Sum(s, p, l.unit)
<1>1. PICK h : /\ Cut(form, s, h)
               /\ \A i \in DOMAIN form :
                     LET q == s[h[i]]
                         d == Invoiced(o, q.product, q.unit, None) IN
                     Outstanding(q, d) > 0 /\ form[i].n = q.n - d
  <2>1. PICK h : ItemsCut(form, o, s, h)
    BY <1>0, ItemsForm
  <2>2. QED
    BY <2>1 DEF ItemsCut
<1> HIDE DEF form
<1>2. s \in Seq(Lines) /\ k \in DOMAIN s /\ l = s[k] /\ OneUnit(s, l)
  BY <1>0 DEF OrdersTyped
<1>3. form \in [DOMAIN form -> Row] /\ IsFiniteSet(DOMAIN form)
      /\ \A i \in DOMAIN form : h[i] \in DOMAIN s /\ form[i].product = s[h[i]].product
  BY <1>1, <1>2, CutIsRows
<1>4. done \in Nat /\ all \in Nat /\ Sum(form, p, l.unit) \in Nat
  <2>1. s \in Seq(Row)
    BY <1>2, LinesAreRows
  <2>2. QED
    BY <1>3, <2>1, InvoicedIsNat, SumsOfLines, SumOfRows
<1>5. CASE \A i \in DOMAIN form : form[i].product # p
  <2>1. Sum(form, p, l.unit) = 0
    BY <1>3, <1>5, SumOfRows
  <2>2. QED
    BY <1>0, <1>4, <2>1 DEF Greater, form
<1>6. ASSUME NEW i \in DOMAIN form, form[i].product = p
      PROVE  done + Sum(form, p, l.unit) <= Greater(done, all)
  <2> DEFINE m == h[i]
  <2>1. m \in DOMAIN s /\ s[m].product = p /\ s[m] \in Lines
    BY <1>2, <1>3, <1>6
  <2>2. s[m].unit = l.unit
    BY <1>2, <2>1 DEF OneUnit
  <2>3. s[m].n \in Nat /\ done <= s[m].n
    <3>1. s[m].n \in Nat
      BY <2>1 DEF Lines
    <3>2. s[m].n - done > 0
      BY <1>1, <2>1, <2>2 DEF Outstanding
    <3>3. QED
      BY <1>4, <3>1, <3>2
  <2> HIDE DEF m
  <2>4. \A j \in DOMAIN form : h[j] = m => form[j].n <= s[m].n - done
    <3>1. SUFFICES ASSUME NEW j \in DOMAIN form, h[j] = m PROVE form[j].n <= s[m].n - done
      OBVIOUS
    <3>2. form[j].n = s[m].n - done
      BY <1>1, <2>1, <2>2, <3>1
    <3>3. QED
      BY <1>4, <2>3, <3>2
  <2>5. done + Sum(form, s[m].product, s[m].unit) <= Sum(s, s[m].product, s[m].unit)
    BY <1>1, <1>2, <1>4, <2>1, <2>3, <2>4, CutSum
  <2>6. done + Sum(form, p, l.unit) <= all
    BY <2>1, <2>2, <2>5
  <2>7. QED
    BY <1>4, <2>6 DEF Greater
<1>7. QED
  BY <1>0, <1>4, <1>5, <1>6 DEF form

\* The new form of an invoice: what is left of each of the orders that were picked.
PickedForm(os) == FlattenSeq([k \in DOMAIN SetToSeq(os) |-> RemainingItems(SetToSeq(os)[k])])

\* What is left of an order are rows tagged with it, and there are some.
LEMMA ItemsAreRows ==
    ASSUME OrdersTyped, InvoicesTyped, NEW o \in DOMAIN orders, o \in Nat
    PROVE  /\ RemainingItems(o) \in Seq(Row)
           /\ \A i \in DOMAIN RemainingItems(o) : RemainingItems(o)[i].ref = o
           /\ HasOutstanding(o, None) => \E i \in DOMAIN RemainingItems(o) : TRUE
<1>0. PICK s : s = orders[o].lines
  OBVIOUS
<1> DEFINE form == RemainingItems(o)
<1>1. PICK h : /\ Cut(form, s, h)
               /\ \A i \in DOMAIN form :
                     LET q == s[h[i]]
                         d == Invoiced(o, q.product, q.unit, None) IN
                     /\ form[i].ref = o
                     /\ Outstanding(q, d) > 0
                     /\ form[i].n = q.n - d
               /\ \A j \in DOMAIN s : Outstanding(s[j], Invoiced(o, s[j].product, s[j].unit, None)) > 0 =>
                     \E i \in DOMAIN form : h[i] = j
  <2>1. PICK h : ItemsCut(form, o, s, h)
    BY <1>0, ItemsForm
  <2>2. QED
    BY <2>1 DEF ItemsCut
<1> HIDE DEF form
<1>2. form \in Seq(Row)
  BY <1>1 DEF Cut
<1>3. ASSUME HasOutstanding(o, None) PROVE \E i \in DOMAIN form : TRUE
  <2>1. PICK j \in DOMAIN s : Outstanding(s[j], Invoiced(o, s[j].product, s[j].unit, None)) > 0
    BY <1>0, <1>3 DEF HasOutstanding
  <2>2. QED
    BY <1>1, <2>1
<1>4. QED
  BY <1>1, <1>2, <1>3 DEF form

\* Its rows are tagged with the orders picked, and of each with what is left of it.
LEMMA PickedRows ==
    ASSUME OrdersTyped, InvoicesTyped, NEW os \in SUBSET DOMAIN orders, os # {}, os \subseteq Nat
    PROVE  /\ PickedForm(os) \in Seq(Row)
           /\ \A k \in DOMAIN PickedForm(os) : PickedForm(os)[k].ref \in os
           /\ \A o \in os : \A p, unit : Sum(Tagged(PickedForm(os), o), p, unit) = Sum(RemainingItems(o), p, unit)
           /\ (\A o \in os : HasOutstanding(o, None)) => PickedForm(os) # <<>>
<1> DEFINE picked == SetToSeq(os)
           n == Cardinality(os)
           seqs == [k \in DOMAIN picked |-> RemainingItems(picked[k])]
           flat == PickedForm(os)
<1>1. IsFiniteSet(os)
  BY FS_Subset DEF OrdersTyped
<1>2. /\ n \in Nat /\ DOMAIN picked = 1..n /\ \A i \in 1..n : picked[i] \in os
      /\ \A i, j \in 1..n : picked[i] = picked[j] => i = j
      /\ \A o \in os : \E i \in 1..n : picked[i] = o
  BY <1>1, SetInOrder
<1> HIDE DEF picked, n
<1>3. \A i \in 1..n : /\ seqs[i] = RemainingItems(picked[i]) /\ seqs[i] \in Seq(Row)
                      /\ \A q \in DOMAIN seqs[i] : seqs[i][q].ref = picked[i]
                      /\ HasOutstanding(picked[i], None) => \E q \in DOMAIN seqs[i] : TRUE
  <2>1. SUFFICES ASSUME NEW i \in 1..n
                 PROVE  LET s == RemainingItems(picked[i]) IN
                        /\ s \in Seq(Row) /\ \A q \in DOMAIN s : s[q].ref = picked[i]
                        /\ HasOutstanding(picked[i], None) => \E q \in DOMAIN s : TRUE
    BY <1>2
  <2>2. picked[i] \in DOMAIN orders /\ picked[i] \in Nat
    BY <1>2
  <2>3. QED
    BY <2>2, ItemsAreRows
<1>4. seqs = [k \in 1..n |-> seqs[k]]
  BY <1>2
<1>5. flat = FlattenSeq(seqs)
  BY DEF PickedForm, picked
<1> HIDE DEF seqs, flat
<1>6. seqs \in Seq(Seq(Row)) /\ Len(seqs) = n /\ n # 0
  <2>1. seqs \in [1..n -> Seq(Row)]
    BY <1>3, <1>4
  <2>2. n # 0
    BY <1>2
  <2>3. QED
    BY <1>2, <2>1, <2>2
<1>7. /\ flat \in Seq(Row) /\ Spans(flat, seqs, n)
      /\ \A m \in 1..n : \E off : Stands(flat, seqs, n, m, off)
  BY <1>5, <1>6, FlatParts
<1>8. DOMAIN flat = 1..Len(flat) /\ Len(flat) \in Nat
  BY <1>7
<1>9. ASSUME NEW k \in DOMAIN flat PROVE flat[k].ref \in os
  <2>1. PICK j \in 1..n : \E q \in DOMAIN seqs[j] : flat[k] = seqs[j][q]
    BY <1>7, <1>8 DEF Spans
  <2>2. QED
    BY <1>2, <1>3, <2>1
<1>10. ASSUME NEW o \in os, NEW p, NEW unit
       PROVE  Sum(Tagged(flat, o), p, unit) = Sum(RemainingItems(o), p, unit)
  <2>1. PICK m \in 1..n : picked[m] = o
    BY <1>2
  <2>2. PICK off : Stands(flat, seqs, n, m, off)
    BY <1>7
  <2>3. PICK s : s = seqs[m]
    OBVIOUS
  <2>4. /\ s \in Seq(Row) /\ s = RemainingItems(o) /\ \A q \in DOMAIN s : s[q].ref = o
        /\ DOMAIN s = 1..Len(s) /\ Len(s) \in Nat
    <3>1. s \in Seq(Row) /\ s = RemainingItems(o) /\ \A q \in DOMAIN s : s[q].ref = o
      BY <1>3, <2>1, <2>3
    <3>2. QED
      BY <3>1
  <2> DEFINE E == {k \in DOMAIN flat : flat[k].ref = o}
             I == (off + 1)..(off + Len(s))
  <2>5. off \in Nat /\ off + Len(s) <= Len(flat)
    BY <2>2, <2>3 DEF Stands
  <2>6. \A k \in 1..Len(flat) : k \in I => flat[k] = s[k - off] /\ k - off \in 1..Len(s)
    BY <2>2, <2>3, <2>4, <2>5 DEF Stands
  <2>7. \A k \in 1..Len(flat) : k \notin I => flat[k].ref # o
    <3>1. SUFFICES ASSUME NEW k \in 1..Len(flat), k \notin I PROVE flat[k].ref # o
      OBVIOUS
    <3>2. PICK j \in 1..n : j # m /\ \E q \in DOMAIN seqs[j] : flat[k] = seqs[j][q]
      BY <2>2, <2>3, <3>1 DEF Stands
    <3>3. flat[k].ref = picked[j]
      BY <1>3, <3>2
    <3>4. QED
      BY <1>2, <2>1, <3>2, <3>3
  <2>8. E = I
    <3>1. \A k \in I : k \in 1..Len(flat) /\ flat[k].ref = o
      BY <2>4, <2>5, <2>6
    <3>2. QED
      BY <1>8, <2>7, <3>1
  <2>9. IsFiniteSet(E) /\ IsFiniteSet(DOMAIN s)
    <3>1. IsFiniteSet(I) /\ IsFiniteSet(1..Len(s))
      BY <2>4, <2>5, FS_Interval
    <3>2. QED
      BY <2>4, <2>8, <3>1
  <2> DEFINE t == Tagged(flat, o)
             h == [k \in DOMAIN s |-> k + off]
             g == [k \in E |-> k - off]
  <2>10. t \in [E -> Row] /\ \A k \in E : t[k] = flat[k]
    BY <1>7 DEF Tagged
  <2>11. s \in [DOMAIN s -> Row]
    BY <2>4
  <2>12. h \in Injection(DOMAIN s, E) /\ g \in Injection(E, DOMAIN s)
    <3>1. \A k \in 1..Len(s) : k + off \in I
      BY <2>4, <2>5
    <3>2. \A k \in I : k - off \in 1..Len(s) /\ k \in Int
      BY <2>4, <2>5
    <3> HIDE DEF E, I
    <3>3. h \in [DOMAIN s -> E] /\ g \in [E -> DOMAIN s]
      BY <2>4, <2>8, <3>1, <3>2
    <3>4. \A a, b \in 1..Len(s) : a + off = b + off => a = b
      BY <2>5
    <3>5. \A a, b \in I : a - off = b - off => a = b
      BY <2>5, <3>2
    <3>6. QED
      BY <2>4, <2>8, <3>3, <3>4, <3>5 DEF Injection, IsInjective
  <2>13. \A r \in Row : Within(r, r)
    BY DEF Row, Within
  <2>14. \A k \in DOMAIN s : Within(s[k], t[h[k]])
    <3>1. SUFFICES ASSUME NEW k \in DOMAIN s PROVE Within(s[k], t[k + off])
      OBVIOUS
    <3>2. k + off \in I /\ k + off \in 1..Len(flat) /\ (k + off) - off = k
      BY <2>4, <2>5
    <3>3. t[k + off] = s[k]
      BY <2>6, <2>8, <2>10, <3>2
    <3>4. QED
      BY <2>11, <2>13, <3>3
  <2>15. \A k \in E : Within(t[k], s[g[k]])
    <3>1. SUFFICES ASSUME NEW k \in E PROVE Within(t[k], s[k - off])
      OBVIOUS
    <3>2. t[k] = s[k - off] /\ t[k] \in Row
      BY <1>8, <2>6, <2>8, <2>10
    <3>3. QED
      BY <2>13, <3>2
  <2> HIDE DEF E, I, t, h, g
  <2>16. Sum(s, p, unit) <= Sum(t, p, unit)
    BY ONLY <2>9, <2>10, <2>11, <2>12, <2>14, SumOfWithin
  <2>17. Sum(t, p, unit) <= Sum(s, p, unit)
    BY ONLY <2>9, <2>10, <2>11, <2>12, <2>15, SumOfWithin
  <2>18. Sum(s, p, unit) \in Nat /\ Sum(t, p, unit) \in Nat
    BY <2>9, <2>10, <2>11, SumOfRows
  <2>19. Sum(t, p, unit) = Sum(s, p, unit)
    BY <2>16, <2>17, <2>18
  <2>20. QED
    BY <2>4, <2>19 DEF t
<1>11. ASSUME \A o \in os : HasOutstanding(o, None) PROVE flat # <<>>
  <2>1. 1 \in 1..n
    BY <1>2, <1>6
  <2>2. HasOutstanding(picked[1], None)
    BY <1>2, <1>11, <2>1
  <2>3. PICK q \in DOMAIN seqs[1] : TRUE
    BY <1>3, <2>1, <2>2
  <2>4. PICK off : Stands(flat, seqs, n, 1, off)
    BY <1>7, <2>1
  <2>5. seqs[1] \in Seq(Row)
    BY <1>3, <2>1
  <2>6. q \in 1..Len(seqs[1]) /\ Len(seqs[1]) \in Nat
    BY <2>3, <2>5
  <2>7. off \in Nat /\ off + Len(seqs[1]) <= Len(flat)
    BY <2>4 DEF Stands
  <2>8. Len(flat) # 0
    BY <1>8, <2>6, <2>7
  <2>9. QED
    BY <2>8
<1>12. QED
  BY <1>7, <1>9, <1>10, <1>11 DEF flat

-----------------------------------------------------------------------------
(* What the tables and the forms hold.                                     *)

\* An invoice is linked to orders that are there, and tagged with those only.
InvoiceShape(x, os) ==
    /\ {"primary", "covers", "lines"} \subseteq DOMAIN x
    /\ x.primary \subseteq os /\ x.covers \subseteq os
    /\ \A k \in DOMAIN x.lines : x.lines[k].ref \in x.covers \union {None}
BookInv ==
    /\ OrdersTyped /\ None \notin DOMAIN orders /\ InvoicesTyped
    /\ \A i \in DOMAIN invoices : /\ i \in Nat \ {0} /\ i < nextId
                                  /\ InvoiceShape(invoices[i], DOMAIN orders)

\* A form has rows; those of an invoice are tagged with the orders it was opened for.
PageLines(r) ==
    /\ r.at \in {"order", "edit"} => r.lines \in Seq(Row) /\ r.lines # <<>>
    /\ r.at = "rewrite" => r.lines \in Seq(Lines) /\ r.lines # <<>>
    /\ r.at = "invoice" => /\ {"id", "covers", "lines", "fresh"} \subseteq DOMAIN r
                           /\ r.lines \in Seq(Row) /\ r.lines # <<>> /\ r.covers \in Seq(Nat \ {0})
                           /\ \A k \in DOMAIN r.lines : r.lines[k].ref \in Range(r.covers) \union {None}

\* A fresh form holds what the tables say is left.
FreshForm(r) ==
    /\ r.at = "order" /\ r.fresh => r.lines = RemainingProducts
    /\ r.at = "invoice" /\ r.fresh /\ r.id = None =>
          \E os \in SUBSET DOMAIN orders :
              os # {} /\ r.covers = SetToSeq(os) /\ r.lines = PickedForm(os)

FormsInv == BookInv /\ \A u \in Users : PageLines(page[u]) /\ FreshForm(page[u])

\* The forms of tables that are as they were.
LEMMA FormsSame ==
    ASSUME UNCHANGED <<proforma, orders, invoices>>
    PROVE  /\ RemainingProducts' = RemainingProducts
           /\ \A o : RemainingItems(o)' = RemainingItems(o)
           /\ \A os : PickedForm(os)' = PickedForm(os)
           /\ \A r : FreshForm(r)' <=> FreshForm(r)
<1>1. \A p, unit : Placed(p, unit)' = Placed(p, unit)
  BY DEF Placed, OrderedLines, Purchases
<1>2. \A o, p, unit, except : Invoiced(o, p, unit, except)' = Invoiced(o, p, unit, except)
  BY DEF Invoiced, InvoicedLines
<1>3. \A p : PendingOf(p)' = PendingOf(p)
  <2>1. Pending' = Pending
    BY <1>1 DEF Pending
  <2>2. QED
    BY <2>1 DEF PendingOf
<1>4. RemainingProducts' = RemainingProducts
  BY <1>1, <1>3 DEF RemainingProducts
<1>5. \A o : RemainingItems(o)' = RemainingItems(o)
  BY <1>2 DEF RemainingItems
<1>6. \A os : PickedForm(os)' = PickedForm(os)
  BY <1>5 DEF PickedForm
<1>7. \A r : FreshForm(r)' <=> FreshForm(r)
  BY <1>4, <1>6 DEF FreshForm
<1>8. QED
  BY <1>4, <1>5, <1>6, <1>7

\* A closed page has no form.
LEMMA ClosedForm == PageLines(Closed) /\ Closed.at = "closed" /\ FreshForm(Closed)
BY DEF Closed, PageLines, FreshForm

\* A page is opened, or goes on, and nothing is written.
LEMMA PageKeepsForms ==
    ASSUME OrdersInv, FormsInv, NEW u \in Users, NEW next, page' = [page EXCEPT ![u] = next],
           UNCHANGED <<proforma, orders, invoices, nextId>>, PageLines(next), FreshForm(next)
    PROVE  FormsInv'
<1>1. DOMAIN page = Users
  BY DEF OrdersInv
<1>2. \A v \in Users : PageLines(page'[v]) /\ FreshForm(page'[v])
  BY <1>1 DEF FormsInv
<1>3. \A v \in Users : FreshForm(page[v])'
  <2>1. SUFFICES ASSUME NEW v \in Users PROVE FreshForm(page[v])'
    OBVIOUS
  <2>2. PICK r : r = page'[v]
    OBVIOUS
  <2>3. FreshForm(r)'
    BY <1>2, <2>2, FormsSame
  <2>4. FreshForm(r)' <=> FreshForm(page[v])'
    BY <2>2 DEF FreshForm, RemainingProducts
  <2>5. QED
    BY <2>3, <2>4
<1>4. BookInv'
  BY DEF FormsInv, BookInv, OrdersTyped, InvoicesTyped
<1>5. QED
  BY <1>2, <1>3, <1>4 DEF FormsInv

\* A user writes: no form is fresh any more.
LEMMA WriteKeepsForms ==
    ASSUME OrdersInv, FormsInv, NEW u \in Users, Leave(u, Closed), BookInv'
    PROVE  FormsInv'
<1>1. ASSUME NEW v \in Users
      PROVE  /\ PageLines(page'[v])
             /\ page'[v].at \in {"order", "invoice"} => page'[v].fresh = FALSE
  <2>1. CASE v = u
    <3>1. page'[v] = Closed
      BY <2>1 DEF Leave
    <3>2. QED
      BY <3>1, ClosedForm
  <2>2. CASE v # u
    <3> DEFINE r == page[v]
               s == page'[v]
    <3>1. s = IF "fresh" \in DOMAIN r THEN [r EXCEPT !.fresh = FALSE] ELSE r
      BY <2>2 DEF Leave
    <3>2. PageLines(r) /\ PageShape(r)
      BY DEF FormsInv, OrdersInv
    <3> HIDE DEF r, s
    <3>3. "at" \in DOMAIN r /\ (r.at \in {"order", "edit", "rewrite", "invoice"} =>
                                    {"lines", "fresh"} \subseteq DOMAIN r)
      BY <3>2 DEF PageShape, PageLines, OrderPages
    <3>4. r.at = "invoice" => {"id", "covers"} \subseteq DOMAIN r
      BY <3>2 DEF PageLines
    <3>5. DOMAIN s = DOMAIN r /\ \A x \in DOMAIN r \ {"fresh"} : s[x] = r[x]
      BY <3>1
    <3>6. s.at = r.at /\ (r.at \in {"order", "edit", "rewrite", "invoice"} => s.lines = r.lines)
      BY <3>3, <3>5
    <3>7. r.at = "invoice" => s.covers = r.covers /\ s.id = r.id
      BY <3>4, <3>5
    <3>8. r.at \in {"order", "invoice"} => s.fresh = FALSE
      BY <3>1, <3>3
    <3>9. PageLines(s)
      BY <3>2, <3>3, <3>5, <3>6, <3>7 DEF PageLines
    <3>10. QED
      BY <3>6, <3>8, <3>9 DEF s
  <2>3. QED
    BY <2>1, <2>2
<1>2. \A v \in Users : FreshForm(page[v])'
  BY <1>1 DEF FreshForm
<1>3. QED
  BY <1>1, <1>2 DEF FormsInv

-----------------------------------------------------------------------------
(* The tables.                                                             *)

\* Rows inserted are lines.
LEMMA InsertedLines ==
    ASSUME NEW s \in Seq(Lines), s # <<>>, NEW id \in Nat
    PROVE  Inserted(s, id) \in Seq(Lines) /\ Inserted(s, id) # <<>>
<1>1. DOMAIN s = 1..Len(s) /\ Len(s) \in Nat \ {0} /\ \A k \in 1..Len(s) : s[k] \in Lines
  OBVIOUS
<1>2. \A k \in 1..Len(s) : [s[k] EXCEPT !.ref = id + k] \in Lines
  <2>1. SUFFICES ASSUME NEW k \in 1..Len(s) PROVE [s[k] EXCEPT !.ref = id + k] \in Lines
    OBVIOUS
  <2>2. id + k \in Nat /\ s[k] \in Lines
    BY <1>1
  <2>3. QED
    BY <2>2 DEF Lines
<1> DEFINE t == Inserted(s, id)
<1>3. t = [k \in 1..Len(s) |-> [s[k] EXCEPT !.ref = id + k]]
  BY <1>1 DEF Inserted
<1>4. t \in [1..Len(s) -> Lines]
  BY <1>2, <1>3
<1> HIDE DEF t
<1>5. t \in Seq(Lines) /\ Len(t) = Len(s)
  BY <1>1, <1>4
<1>6. QED
  BY <1>1, <1>5 DEF t

\* An order is added, with lines of its own.
LEMMA OrderAdded ==
    ASSUME OrdersInv, BookInv, NEW lines \in Seq(Lines), lines # <<>>, NEW kind \in {"order", "jobwork"},
           orders' = Put(orders, nextId, [kind |-> kind, lines |-> Inserted(lines, nextId)]),
           nextId' = nextId + Len(lines) + 1, UNCHANGED invoices
    PROVE  BookInv'
<1> DEFINE new == [kind |-> kind, lines |-> Inserted(lines, nextId)]
<1>1. nextId \in Nat \ {0} /\ Len(lines) \in Nat
  BY DEF OrdersInv
<1>2. Inserted(lines, nextId) \in Seq(Lines) /\ Inserted(lines, nextId) # <<>>
  BY <1>1, InsertedLines
<1>3. DOMAIN new = {"kind", "lines"} /\ new.kind = kind /\ new.lines = Inserted(lines, nextId)
  OBVIOUS
<1> HIDE DEF new
<1>4. DOMAIN orders' = DOMAIN orders \union {nextId} /\ orders'[nextId] = new
      /\ \A o \in DOMAIN orders \ {nextId} : orders'[o] = orders[o]
  BY DEF Put, new
<1>5. IsFiniteSet(DOMAIN orders')
  BY <1>4, FS_AddElement DEF BookInv, OrdersTyped
<1>6. OrdersTyped'
  BY <1>2, <1>3, <1>4, <1>5 DEF BookInv, OrdersTyped
<1>7. InvoicesTyped' /\ None \notin DOMAIN orders'
  BY <1>1, <1>4 DEF BookInv, InvoicesTyped, None
<1>8. \A i \in DOMAIN invoices' : i \in Nat \ {0} /\ i < nextId' /\ InvoiceShape(invoices'[i], DOMAIN orders')
  <2>1. SUFFICES ASSUME NEW i \in DOMAIN invoices
                 PROVE  i \in Nat \ {0} /\ i < nextId' /\ InvoiceShape(invoices[i], DOMAIN orders')
    OBVIOUS
  <2>2. i \in Nat \ {0} /\ i < nextId /\ InvoiceShape(invoices[i], DOMAIN orders)
    BY DEF BookInv
  <2>3. i < nextId'
    BY <1>1, <2>2
  <2>4. InvoiceShape(invoices[i], DOMAIN orders')
    BY <1>4, <2>2 DEF InvoiceShape
  <2>5. QED
    BY <2>2, <2>3, <2>4
<1>9. QED
  BY <1>6, <1>7, <1>8 DEF BookInv

\* The lines of an order are written anew.
LEMMA OrderRewritten ==
    ASSUME OrdersInv, BookInv, NEW lines \in Seq(Lines), lines # <<>>, NEW o \in DOMAIN orders,
           orders' = [orders EXCEPT ![o].lines = Inserted(lines, nextId)],
           nextId' = nextId + Len(lines) + 1, UNCHANGED invoices
    PROVE  BookInv'
<1>1. nextId \in Nat \ {0} /\ Len(lines) \in Nat
  BY DEF OrdersInv
<1>2. Inserted(lines, nextId) \in Seq(Lines) /\ Inserted(lines, nextId) # <<>>
  BY <1>1, InsertedLines
<1>3. PICK new : new = [orders[o] EXCEPT !.lines = Inserted(lines, nextId)]
  OBVIOUS
<1>4. {"kind", "lines"} \subseteq DOMAIN orders[o] /\ orders[o].kind \in {"order", "jobwork"}
  BY DEF BookInv, OrdersTyped
<1>5. DOMAIN new = DOMAIN orders[o] /\ new.kind = orders[o].kind /\ new.lines = Inserted(lines, nextId)
  BY <1>3, <1>4
<1>6. DOMAIN orders' = DOMAIN orders /\ orders'[o] = new
      /\ \A q \in DOMAIN orders \ {o} : orders'[q] = orders[q]
  BY <1>3
<1>7. OrdersTyped'
  BY <1>2, <1>4, <1>5, <1>6 DEF BookInv, OrdersTyped
<1>8. InvoicesTyped' /\ None \notin DOMAIN orders'
  BY <1>6 DEF BookInv, InvoicesTyped
<1>9. \A i \in DOMAIN invoices' : i \in Nat \ {0} /\ i < nextId' /\ InvoiceShape(invoices'[i], DOMAIN orders')
  <2>1. SUFFICES ASSUME NEW i \in DOMAIN invoices
                 PROVE  i \in Nat \ {0} /\ i < nextId' /\ InvoiceShape(invoices[i], DOMAIN orders')
    OBVIOUS
  <2>2. i \in Nat \ {0} /\ i < nextId /\ InvoiceShape(invoices[i], DOMAIN orders)
    BY DEF BookInv
  <2>3. i < nextId'
    BY <1>1, <2>2
  <2>4. QED
    BY <1>6, <2>2, <2>3
<1>10. QED
  BY <1>7, <1>8, <1>9 DEF BookInv

\* An order goes, with its invoices; the others lose its tags and its links.
LEMMA OrderGone ==
    ASSUME OrdersInv, BookInv, NEW u \in Users, NEW o \in DOMAIN orders, DeleteOrder(u, o)
    PROVE  BookInv'
<1> DEFINE kept == {i \in DOMAIN invoices : o \notin invoices[i].primary}
           untag(l) == IF l.ref = o THEN [l EXCEPT !.ref = None] ELSE l
           bare(s) == [k \in DOMAIN s |-> untag(s[k])]
           left(x) == [x EXCEPT !.lines = bare(x.lines), !.covers = x.covers \ {o}]
<1>1. invoices' = [i \in kept |-> left(invoices[i])] /\ orders' = Drop(orders, o) /\ nextId' = nextId
  BY DEF DeleteOrder
<1>2. DOMAIN orders' = DOMAIN orders \ {o} /\ \A q \in DOMAIN orders' : orders'[q] = orders[q]
  BY <1>1 DEF Drop
<1>3. IsFiniteSet(DOMAIN orders') /\ IsFiniteSet(kept)
  <2>1. IsFiniteSet(DOMAIN orders') /\ kept \subseteq DOMAIN invoices
    BY <1>2, FS_RemoveElement DEF BookInv, OrdersTyped
  <2>2. QED
    BY <2>1, FS_Subset DEF BookInv, InvoicesTyped
<1>4. OrdersTyped' /\ None \notin DOMAIN orders'
  BY <1>2, <1>3 DEF BookInv, OrdersTyped
<1>5. \A l \in Lines : /\ untag(l) \in Lines
                       /\ \A c : l.ref \in c \union {None} => untag(l).ref \in (c \ {o}) \union {None}
  BY DEF Lines, None
<1> HIDE DEF untag
<1>6. ASSUME NEW s \in Seq(Lines) PROVE bare(s) \in Seq(Lines) /\ DOMAIN bare(s) = DOMAIN s
  <2>1. DOMAIN s = 1..Len(s) /\ Len(s) \in Nat /\ \A k \in 1..Len(s) : s[k] \in Lines
    OBVIOUS
  <2>2. bare(s) \in [1..Len(s) -> Lines]
    BY <1>5, <2>1
  <2>3. QED
    BY <2>1, <2>2
<1>7. ASSUME NEW i \in kept
      PROVE  /\ i \in Nat \ {0} /\ i < nextId /\ invoices'[i].lines \in Seq(Lines)
             /\ InvoiceShape(invoices'[i], DOMAIN orders')
  <2> DEFINE x == invoices[i]
             y == invoices'[i]
  <2>1. y = left(x)
    BY <1>1
  <2>2. /\ i \in Nat \ {0} /\ i < nextId /\ InvoiceShape(x, DOMAIN orders) /\ x.lines \in Seq(Lines)
        /\ o \notin x.primary
    BY DEF BookInv, InvoicesTyped
  <2> HIDE DEF x, y
  <2>3. DOMAIN y = DOMAIN x /\ y.primary = x.primary /\ y.covers = x.covers \ {o} /\ y.lines = bare(x.lines)
    BY <2>1, <2>2 DEF InvoiceShape
  <2>4. y.lines \in Seq(Lines) /\ DOMAIN y.lines = DOMAIN x.lines
    BY <1>6, <2>2, <2>3
  <2>5. \A k \in DOMAIN y.lines : y.lines[k].ref \in y.covers \union {None}
    <3>1. SUFFICES ASSUME NEW k \in DOMAIN x.lines PROVE untag(x.lines[k]).ref \in y.covers \union {None}
      BY <2>3, <2>4
    <3>2. x.lines[k] \in Lines /\ x.lines[k].ref \in x.covers \union {None}
      BY <2>2 DEF InvoiceShape
    <3>3. QED
      BY <1>5, <2>3, <3>2
  <2>6. InvoiceShape(y, DOMAIN orders')
    BY <1>2, <2>2, <2>3, <2>5 DEF InvoiceShape
  <2>7. QED
    BY <2>2, <2>4, <2>6 DEF y
<1> HIDE DEF left, kept
<1>8. DOMAIN invoices' = kept
  BY <1>1
<1>9. InvoicesTyped'
  BY <1>3, <1>7, <1>8 DEF InvoicesTyped
<1>10. QED
  BY <1>1, <1>4, <1>7, <1>8, <1>9 DEF BookInv

\* What a save of an invoice writes.
LEMMA InvoiceWritten ==
    ASSUME OrdersInv, FormsInv, NEW u \in Users, page[u].at = "invoice",
           page[u].id \in DOMAIN invoices \union {None}, NEW lines \in Rows(page[u].lines)
    PROVE  InvoiceShape(Invoice(u, lines), DOMAIN orders) /\ Invoice(u, lines).lines \in Seq(Lines)
<1> DEFINE covers == page[u].covers
           places == {k \in DOMAIN covers : covers[k] \in DOMAIN orders}
           links == Linked(covers)
           before == IF page[u].id = None THEN [lines |-> <<>>, covers |-> {}] ELSE invoices[page[u].id]
           whole == \A k \in DOMAIN lines : lines[k].ref \in DOMAIN orders \union {None}
           x == Invoice(u, lines)
<1>1. PageLines(page[u]) /\ BookInv
  BY DEF FormsInv
<1>2. /\ page[u].lines \in Seq(Row) /\ page[u].lines # <<>> /\ covers \in Seq(Nat \ {0})
      /\ \A k \in DOMAIN page[u].lines : page[u].lines[k].ref \in Range(covers) \union {None}
  BY <1>1 DEF PageLines
<1>3. x = [primary |-> Firsts(links),
           covers |-> IF whole THEN Range(links) ELSE before.covers,
           lines |-> IF whole THEN lines ELSE before.lines]
  BY DEF Invoice
<1>4. lines \in Seq(Lines) /\ \A k \in DOMAIN lines : lines[k].ref \in Range(covers) \union {None}
  <2>1. /\ lines \in Seq(Lines)
        /\ \E h \in Injection(DOMAIN lines, DOMAIN page[u].lines) :
              \A k \in DOMAIN lines : Within(lines[k], page[u].lines[h[k]])
                                      /\ lines[k].ref = page[u].lines[h[k]].ref
    BY <1>2, RowsWithin
  <2>2. QED
    BY <1>2, <2>1 DEF Injection
<1>5. /\ before.lines \in Seq(Lines) /\ before.covers \subseteq DOMAIN orders
      /\ \A k \in DOMAIN before.lines : before.lines[k].ref \in before.covers \union {None}
  <2>1. CASE page[u].id = None
    BY <2>1
  <2>2. CASE page[u].id # None
    BY <1>1, <2>2 DEF BookInv, InvoicesTyped, InvoiceShape
  <2>3. QED
    BY <2>1, <2>2
<1> DEFINE N == Cardinality(places)
<1>6. places \in SUBSET DOMAIN covers /\ links = At(covers, places)
  BY DEF Linked
<1>10. \A k \in DOMAIN covers : k \in places <=> covers[k] \in DOMAIN orders
  OBVIOUS
<1> HIDE DEF places, links
<1>7. N \in Nat /\ DOMAIN links = 1..N /\ links \in Seq(Nat \ {0})
  BY <1>2, <1>6, AtPlaces
<1>8. PICK h \in Bijection(1..N, places) : \A i \in 1..N : links[i] = covers[h[i]]
  <2>1. \E h \in Bijection(1..N, places) : \A i \in 1..N : At(covers, places)[i] = covers[h[i]]
    BY <1>2, <1>6, AtPlaces
  <2>2. QED
    BY <1>6, <2>1
<1>9. h \in [1..N -> places] /\ \A k \in places : \E i \in 1..N : h[i] = k
  BY <1>8 DEF Bijection, Injection, Surjection
<1> HIDE DEF before, N, x
<1>11. \A i \in 1..N : links[i] \in DOMAIN orders
  BY <1>6, <1>8, <1>9, <1>10
<1>12. Range(links) \subseteq DOMAIN orders
  BY <1>7, <1>11 DEF Range
<1>13. \A c \in Range(covers) : c \in DOMAIN orders => c \in Range(links)
  <2>1. SUFFICES ASSUME NEW k \in DOMAIN covers, covers[k] \in DOMAIN orders
                 PROVE  covers[k] \in Range(links)
    BY DEF Range
  <2>2. PICK i \in 1..N : h[i] = k
    BY <1>9, <1>10, <2>1
  <2>3. links[i] = covers[k]
    BY <1>8, <2>2
  <2>4. QED
    BY <1>7, <2>3 DEF Range
<1>14. Firsts(links) \subseteq DOMAIN orders
  BY <1>7, <1>11 DEF Firsts
<1>15. x.primary \subseteq DOMAIN orders /\ DOMAIN x = {"primary", "covers", "lines"}
  BY <1>3, <1>14
<1>16. CASE whole
  <2>1. x.covers = Range(links) /\ x.lines = lines
    BY <1>3, <1>16
  <2>2. \A k \in DOMAIN lines : lines[k].ref \in Range(links) \union {None}
    BY <1>4, <1>13, <1>16
  <2>3. QED
    BY <1>4, <1>12, <1>15, <2>1, <2>2 DEF InvoiceShape, x
<1>17. CASE ~whole
  <2>1. x.covers = before.covers /\ x.lines = before.lines
    BY <1>3, <1>17
  <2>2. QED
    BY <1>5, <1>15, <2>1 DEF InvoiceShape, x
<1>18. QED
  BY <1>16, <1>17

-----------------------------------------------------------------------------
(* Every step.                                                             *)

\* Opening an order form.
LEMMA OpenOrderKeeps ==
    ASSUME OrdersInv, FormsInv, NEW u \in Users, OpenOrder(u)
    PROVE  FormsInv'
<1> DEFINE next == [at |-> "order", lines |-> RemainingProducts, fresh |-> TRUE]
<1>1. page' = [page EXCEPT ![u] = next] /\ UNCHANGED <<proforma, orders, invoices, nextId>>
      /\ RemainingProducts # <<>>
  BY DEF OpenOrder, Fill, store
<1>2. RemainingProducts \in Seq(Row)
  <2>1. proforma \in Seq(Lines) /\ OrdersTyped
    BY DEF OrdersInv, FormsInv, BookInv
  <2>2. QED
    BY <2>1, OrderForm DEF Cut
<1>3. next.at = "order" /\ next.lines = RemainingProducts
  OBVIOUS
<1> HIDE DEF next
<1>4. PageLines(next) /\ FreshForm(next)
  BY <1>1, <1>2, <1>3 DEF PageLines, FreshForm
<1>5. QED
  BY <1>1, <1>4, PageKeepsForms

\* Opening the edit page of an order.
LEMMA OpenEditKeeps ==
    ASSUME OrdersInv, FormsInv, NEW u \in Users, NEW o \in DOMAIN orders, OpenEdit(u, o)
    PROVE  FormsInv'
<1> DEFINE next == [at |-> "edit", order |-> o, lines |-> orders[o].lines, fresh |-> TRUE]
<1>1. page' = [page EXCEPT ![u] = next] /\ UNCHANGED <<proforma, orders, invoices, nextId>>
  BY DEF OpenEdit, Fill, store
<1>2. orders[o].lines \in Seq(Row) /\ orders[o].lines # <<>>
  BY LinesAreRows DEF FormsInv, BookInv, OrdersTyped
<1>3. next.at = "edit" /\ next.lines = orders[o].lines
  OBVIOUS
<1> HIDE DEF next
<1>4. PageLines(next) /\ FreshForm(next)
  BY <1>2, <1>3 DEF PageLines, FreshForm
<1>5. QED
  BY <1>1, <1>4, PageKeepsForms

\* The orders of a form stand in its covers.
LEMMA CoversOf ==
    ASSUME NEW os, IsFiniteSet(os), os \subseteq Nat \ {0}
    PROVE  SetToSeq(os) \in Seq(Nat \ {0}) /\ Range(SetToSeq(os)) = os
<1> DEFINE c == SetToSeq(os)
           n == Cardinality(os)
<1>1. c \in Seq(os) /\ n \in Nat /\ DOMAIN c = 1..n /\ \A x \in os : \E i \in 1..n : c[i] = x
  BY SetInOrder
<1> HIDE DEF c, n
<1>3. \A i \in 1..n : c[i] \in os
  BY <1>1
<1>2. c \in Seq(Nat \ {0})
  <2>1. c = [i \in 1..n |-> c[i]]
    BY <1>1
  <2>2. \A i \in 1..n : c[i] \in Nat \ {0}
    BY <1>3
  <2>3. QED
    BY <1>1, <2>1, <2>2
<1>4. QED
  BY <1>1, <1>2, <1>3 DEF Range, c

\* Opening the form of a new invoice.
LEMMA OpenInvoiceKeeps ==
    ASSUME OrdersInv, FormsInv, NEW u \in Users, NEW os \in SUBSET DOMAIN orders, OpenInvoice(u, os)
    PROVE  FormsInv'
<1> DEFINE next == [at |-> "invoice", id |-> None, covers |-> SetToSeq(os), fresh |-> TRUE,
                    lines |-> PickedForm(os)]
<1>1. page' = [page EXCEPT ![u] = next] /\ UNCHANGED <<proforma, orders, invoices, nextId>>
      /\ os # {} /\ \A o \in os : HasOutstanding(o, None)
  BY DEF OpenInvoice, Fill, store, PickedForm
<1>2. OrdersTyped /\ InvoicesTyped /\ IsFiniteSet(os) /\ os \subseteq Nat \ {0}
  <2>1. OrdersTyped /\ InvoicesTyped /\ None \notin DOMAIN orders /\ \A o \in DOMAIN orders : o \in Nat
    BY DEF FormsInv, BookInv, OrdersInv
  <2>2. IsFiniteSet(os)
    BY <2>1, FS_Subset DEF OrdersTyped
  <2>3. QED
    BY <2>1, <2>2 DEF None
<1>3. /\ PickedForm(os) \in Seq(Row) /\ PickedForm(os) # <<>>
      /\ \A k \in DOMAIN PickedForm(os) : PickedForm(os)[k].ref \in os
  BY <1>1, <1>2, PickedRows
<1>4. SetToSeq(os) \in Seq(Nat \ {0}) /\ Range(SetToSeq(os)) = os
  BY <1>2, CoversOf
<1>5. /\ DOMAIN next = {"at", "id", "covers", "fresh", "lines"} /\ next.at = "invoice"
      /\ next.lines = PickedForm(os) /\ next.covers = SetToSeq(os)
  OBVIOUS
<1> HIDE DEF next
<1>6. PageLines(next)
  BY <1>3, <1>4, <1>5 DEF PageLines
<1>7. FreshForm(next)
  BY <1>1, <1>5 DEF FreshForm
<1>8. QED
  BY <1>1, <1>6, <1>7, PageKeepsForms

\* Opening the edit page of an invoice.
LEMMA OpenInvoiceEditKeeps ==
    ASSUME OrdersInv, FormsInv, NEW u \in Users, NEW i \in DOMAIN invoices, OpenInvoiceEdit(u, i)
    PROVE  FormsInv'
<1> DEFINE os == invoices[i].covers
           next == [at |-> "invoice", id |-> i, covers |-> SetToSeq(os), lines |-> invoices[i].lines,
                    fresh |-> TRUE]
<1>1. page' = [page EXCEPT ![u] = next] /\ UNCHANGED <<proforma, orders, invoices, nextId>>
      /\ invoices[i].lines # <<>>
  BY DEF OpenInvoiceEdit, Fill, store
<1>2. /\ invoices[i].lines \in Seq(Row) /\ i # None /\ os \subseteq DOMAIN orders
      /\ \A k \in DOMAIN invoices[i].lines : invoices[i].lines[k].ref \in os \union {None}
  BY LinesAreRows DEF FormsInv, BookInv, InvoicesTyped, InvoiceShape, None
<1>3. IsFiniteSet(os) /\ os \subseteq Nat \ {0}
  <2>1. OrdersTyped /\ None \notin DOMAIN orders /\ \A o \in DOMAIN orders : o \in Nat
    BY DEF FormsInv, BookInv, OrdersInv
  <2>2. IsFiniteSet(os)
    BY <1>2, <2>1, FS_Subset DEF OrdersTyped
  <2>3. QED
    BY <1>2, <2>1, <2>2 DEF None
<1>4. SetToSeq(os) \in Seq(Nat \ {0}) /\ Range(SetToSeq(os)) = os
  BY <1>3, CoversOf
<1>5. /\ DOMAIN next = {"at", "id", "covers", "fresh", "lines"} /\ next.at = "invoice" /\ next.id = i
      /\ next.lines = invoices[i].lines /\ next.covers = SetToSeq(os)
  OBVIOUS
<1> HIDE DEF next, os
<1>6. PageLines(next)
  BY <1>1, <1>2, <1>4, <1>5 DEF PageLines
<1>7. FreshForm(next)
  BY <1>2, <1>5 DEF FreshForm
<1>8. QED
  BY <1>1, <1>6, <1>7, PageKeepsForms

\* The pages of production.
LEMMA BoardsKeep ==
    ASSUME OrdersInv, FormsInv, NEW u \in Users
    PROVE  /\ \A o, sr, d : OpenBoard(u, o, sr, d) => FormsInv'
           /\ CheckLine(u) \/ LookForRow(u) => FormsInv'
<1>1. \A r : r.at \in BoardPages \union {"closed"} => PageLines(r) /\ FreshForm(r)
  BY DEF BoardPages, PageLines, FreshForm
<1>2. ASSUME NEW o, NEW sr, NEW d, OpenBoard(u, o, sr, d) PROVE FormsInv'
  <2>1. PICK status, batches : Fill(u, [at |-> "board", order |-> o, batches |-> batches, status |-> status,
                   item |-> orders[o].lines[sr].ref, of |-> orders[o].lines[sr].product, design |-> d])
    BY <1>2 DEF OpenBoard
  <2> DEFINE next == [at |-> "board", order |-> o, batches |-> batches, status |-> status,
                      item |-> orders[o].lines[sr].ref, of |-> orders[o].lines[sr].product, design |-> d]
  <2>2. page' = [page EXCEPT ![u] = next] /\ UNCHANGED <<proforma, orders, invoices, nextId>>
    BY <2>1 DEF Fill, store
  <2>3. next.at = "board"
    OBVIOUS
  <2> HIDE DEF next
  <2>4. PageLines(next) /\ FreshForm(next)
    BY <1>1, <2>3 DEF BoardPages
  <2>5. QED
    BY <2>2, <2>4, PageKeepsForms
<1>3. ASSUME NEW next, page' = [page EXCEPT ![u] = next], UNCHANGED store,
             next.at \in BoardPages \union {"closed"}
      PROVE  FormsInv'
  <2>1. UNCHANGED <<proforma, orders, invoices, nextId>>
    BY <1>3 DEF store
  <2>2. QED
    BY <1>1, <1>3, <2>1, PageKeepsForms
<1>4. "at" \in DOMAIN page[u]
  BY DEF OrdersInv, PageShape
<1>5. ASSUME CheckLine(u) PROVE FormsInv'
  <2>1. PICK next : page' = [page EXCEPT ![u] = next] /\ next \in {[page[u] EXCEPT !.at = "look"], Closed}
    BY <1>5 DEF CheckLine
  <2>2. next.at \in BoardPages \union {"closed"}
    BY <1>4, <2>1, ClosedForm DEF BoardPages
  <2>3. UNCHANGED store
    BY <1>5 DEF CheckLine
  <2>4. QED
    BY <1>3, <2>1, <2>2, <2>3
<1>6. ASSUME LookForRow(u) PROVE FormsInv'
  <2>1. PICK at \in {"insert", "update"} : page' = [page EXCEPT ![u].at = at]
    BY <1>6 DEF LookForRow
  <2> DEFINE next == [page[u] EXCEPT !.at = at]
  <2>2. page' = [page EXCEPT ![u] = next]
    BY <2>1
  <2>3. next.at = at
    BY <1>4
  <2>4. UNCHANGED store
    BY <1>6 DEF LookForRow
  <2> HIDE DEF next
  <2>5. QED
    BY <1>3, <2>2, <2>3, <2>4 DEF BoardPages
<1>7. QED
  BY <1>2, <1>5, <1>6

\* A save of an order reads what hangs on its lines.
LEMMA LiftKeepsForms ==
    ASSUME OrdersInv, FormsInv, NEW u \in Users, LiftProduction(u)
    PROVE  FormsInv'
<1>1. UNCHANGED <<proforma, orders, invoices, nextId>> /\ page[u].at = "edit"
  BY DEF LiftProduction, store
<1>2. CASE page[u].order \notin DOMAIN orders
  <2>1. page' = [page EXCEPT ![u] = Closed]
    BY <1>2 DEF LiftProduction
  <2>2. QED
    BY <1>1, <2>1, ClosedForm, PageKeepsForms
<1>3. CASE page[u].order \in DOMAIN orders
  <2> DEFINE o == page[u].order
             next(lines) == [at |-> "rewrite", order |-> o, lines |-> lines, lifted |-> Lifted(o), fresh |-> TRUE]
  <2>1. PICK lines \in Rows(page[u].lines) : page' = [page EXCEPT ![u] = next(lines)]
    BY <1>3 DEF LiftProduction
  <2>2. next(lines).at = "rewrite" /\ next(lines).lines = lines
    OBVIOUS
  <2>3. page[u].lines \in Seq(Row) /\ page[u].lines # <<>>
    BY <1>1 DEF FormsInv, PageLines
  <2>4. lines \in Seq(Lines) /\ lines # <<>>
    BY <2>1, <2>3, RowsWithin
  <2> HIDE DEF next
  <2>5. PageLines(next(lines)) /\ FreshForm(next(lines))
    BY <2>2, <2>4 DEF PageLines, FreshForm
  <2>6. QED
    BY <1>1, <2>1, <2>5, PageKeepsForms
<1>4. QED
  BY <1>2, <1>3

\* An order is placed.
LEMMA PlaceKeepsForms ==
    ASSUME OrdersInv, FormsInv, NEW u \in Users, PlaceOrder(u) \/ PlaceJobWork(u)
    PROVE  FormsInv'
<1>1. Leave(u, Closed) /\ UNCHANGED invoices
  BY DEF PlaceOrder, PlaceJobWork
<1>2. \E lines, kind : /\ lines \in Seq(Lines) /\ lines # <<>> /\ kind \in {"order", "jobwork"}
                       /\ orders' = Put(orders, nextId, [kind |-> kind, lines |-> Inserted(lines, nextId)])
                       /\ nextId' = nextId + Len(lines) + 1
  <2>1. CASE PlaceOrder(u)
    <3>1. PICK lines \in Rows(page[u].lines) :
             /\ orders' = Put(orders, nextId, [kind |-> "order", lines |-> Inserted(lines, nextId)])
             /\ nextId' = nextId + Len(lines) + 1
      BY <2>1 DEF PlaceOrder
    <3>2. page[u].lines \in Seq(Row) /\ page[u].lines # <<>>
      BY <2>1 DEF PlaceOrder, FormsInv, PageLines
    <3>3. lines \in Seq(Lines) /\ lines # <<>>
      BY <3>1, <3>2, RowsWithin
    <3>4. QED
      BY <3>1, <3>3
  <2>2. CASE PlaceJobWork(u)
    <3>1. PICK lines \in Cards :
             /\ orders' = Put(orders, nextId, [kind |-> "jobwork", lines |-> Inserted(lines, nextId)])
             /\ nextId' = nextId + Len(lines) + 1
      BY <2>2 DEF PlaceJobWork
    <3>2. lines \in Seq(Lines) /\ lines # <<>>
      BY <3>1, FormsAssumption
    <3>3. QED
      BY <3>1, <3>2
  <2>3. QED
    BY <2>1, <2>2
<1>3. PICK lines, kind : /\ lines \in Seq(Lines) /\ lines # <<>> /\ kind \in {"order", "jobwork"}
                         /\ orders' = Put(orders, nextId, [kind |-> kind, lines |-> Inserted(lines, nextId)])
                         /\ nextId' = nextId + Len(lines) + 1
  BY <1>2
<1>4. BookInv
  BY DEF FormsInv
<1>5. BookInv'
  BY <1>1, <1>3, <1>4, OrderAdded
<1>6. QED
  BY <1>1, <1>5, WriteKeepsForms

\* A write that leaves the orders and the invoices be.
LEMMA BookAside ==
    ASSUME BookInv, UNCHANGED <<orders, invoices, nextId>>
    PROVE  BookInv'
BY DEF BookInv, OrdersTyped, InvoicesTyped

\* The lines of an order are replaced.
LEMMA RewriteKeepsForms ==
    ASSUME OrdersInv, FormsInv, NEW u \in Users, RewriteLines(u)
    PROVE  FormsInv'
<1>1. Leave(u, Closed) /\ page[u].at = "rewrite" /\ BookInv /\ PageLines(page[u])
  BY DEF RewriteLines, FormsInv
<1>2. CASE page[u].order \notin DOMAIN orders
  <2>1. UNCHANGED <<orders, invoices, nextId>>
    BY <1>2 DEF RewriteLines, store
  <2>2. QED
    BY <1>1, <2>1, BookAside, WriteKeepsForms
<1>3. CASE page[u].order \in DOMAIN orders
  <2> DEFINE o == page[u].order
             lines == page[u].lines
  <2>1. /\ orders' = [orders EXCEPT ![o].lines = Inserted(lines, nextId)]
        /\ nextId' = nextId + Len(lines) + 1 /\ UNCHANGED invoices
    BY <1>3 DEF RewriteLines
  <2>2. lines \in Seq(Lines) /\ lines # <<>> /\ o \in DOMAIN orders
    BY <1>1, <1>3 DEF PageLines
  <2> HIDE DEF o, lines
  <2>3. BookInv'
    BY <1>1, <2>1, <2>2, OrderRewritten
  <2>4. QED
    BY <1>1, <2>3, WriteKeepsForms
<1>4. QED
  BY <1>2, <1>3

\* An invoice is saved.
LEMMA SaveInvoiceKeeps ==
    ASSUME OrdersInv, FormsInv, NEW u \in Users, SaveInvoice(u)
    PROVE  FormsInv'
<1>1. Leave(u, Closed) /\ page[u].at = "invoice" /\ BookInv /\ UNCHANGED orders /\ nextId \in Nat \ {0}
  BY DEF SaveInvoice, FormsInv, OrdersInv
<1>2. CASE page[u].id \in DOMAIN invoices \union {None}
  <2> DEFINE id == IF page[u].id = None THEN nextId ELSE page[u].id
  <2>1. PICK lines \in Rows(page[u].lines) : invoices' = Put(invoices, id, Invoice(u, lines)) /\ nextId' = nextId + 1
    BY <1>2 DEF SaveInvoice
  <2>2. InvoiceShape(Invoice(u, lines), DOMAIN orders) /\ Invoice(u, lines).lines \in Seq(Lines)
    BY <1>1, <1>2, InvoiceWritten
  <2>3. id \in Nat \ {0} /\ id <= nextId
    BY <1>1, <1>2 DEF BookInv
  <2> HIDE DEF id
  <2>4. DOMAIN invoices' = DOMAIN invoices \union {id} /\ invoices'[id] = Invoice(u, lines)
        /\ \A i \in DOMAIN invoices \ {id} : invoices'[i] = invoices[i]
    BY <2>1 DEF Put
  <2>5. IsFiniteSet(DOMAIN invoices')
    BY <1>1, <2>4, FS_AddElement DEF BookInv, InvoicesTyped
  <2>6. InvoicesTyped'
    BY <1>1, <2>2, <2>4, <2>5 DEF BookInv, InvoicesTyped
  <2>7. \A i \in DOMAIN invoices' : i \in Nat \ {0} /\ i < nextId' /\ InvoiceShape(invoices'[i], DOMAIN orders')
    <3>1. SUFFICES ASSUME NEW i \in DOMAIN invoices'
                   PROVE  i \in Nat \ {0} /\ i < nextId' /\ InvoiceShape(invoices'[i], DOMAIN orders)
      BY <1>1
    <3>2. CASE i = id
      BY <1>1, <2>1, <2>2, <2>3, <2>4, <3>2
    <3>3. CASE i # id
      <4>1. i \in DOMAIN invoices /\ invoices'[i] = invoices[i]
        BY <2>4, <3>3
      <4>2. i \in Nat \ {0} /\ i < nextId /\ InvoiceShape(invoices[i], DOMAIN orders)
        BY <1>1, <4>1 DEF BookInv
      <4>3. QED
        BY <1>1, <2>1, <4>1, <4>2
    <3>4. QED
      BY <3>2, <3>3
  <2>8. OrdersTyped' /\ None \notin DOMAIN orders'
    BY <1>1 DEF BookInv, OrdersTyped
  <2>9. BookInv'
    BY <2>6, <2>7, <2>8 DEF BookInv
  <2>10. QED
    BY <1>1, <2>9, WriteKeepsForms
<1>3. CASE page[u].id \notin DOMAIN invoices \union {None}
  <2>1. UNCHANGED <<orders, invoices, nextId>>
    BY <1>1, <1>3 DEF SaveInvoice
  <2>2. QED
    BY <1>1, <2>1, BookAside, WriteKeepsForms
<1>4. QED
  BY <1>2, <1>3

\* An order or an invoice is deleted.
LEMMA DropsKeepForms ==
    ASSUME OrdersInv, FormsInv, NEW u \in Users
    PROVE  /\ \A o \in DOMAIN orders : DeleteOrder(u, o) => FormsInv'
           /\ \A i \in DOMAIN invoices : DeleteInvoice(u, i) => FormsInv'
<1>0. BookInv
  BY DEF FormsInv
<1>1. ASSUME NEW o \in DOMAIN orders, DeleteOrder(u, o) PROVE FormsInv'
  <2>1. BookInv' /\ Leave(u, Closed)
    BY <1>0, <1>1, OrderGone DEF DeleteOrder
  <2>2. QED
    BY <2>1, WriteKeepsForms
<1>2. ASSUME NEW i \in DOMAIN invoices, DeleteInvoice(u, i) PROVE FormsInv'
  <2>1. Leave(u, Closed) /\ UNCHANGED <<orders, nextId>> /\ invoices' = Drop(invoices, i)
    BY <1>2 DEF DeleteInvoice
  <2>2. DOMAIN invoices' = DOMAIN invoices \ {i} /\ \A j \in DOMAIN invoices' : invoices'[j] = invoices[j]
    BY <2>1 DEF Drop
  <2>3. IsFiniteSet(DOMAIN invoices')
    BY <1>0, <2>2, FS_RemoveElement DEF BookInv, InvoicesTyped
  <2>4. InvoicesTyped' /\ OrdersTyped' /\ None \notin DOMAIN orders'
    BY <1>0, <2>1, <2>2, <2>3 DEF BookInv, InvoicesTyped, OrdersTyped
  <2>5. \A j \in DOMAIN invoices' : j \in Nat \ {0} /\ j < nextId' /\ InvoiceShape(invoices'[j], DOMAIN orders')
    BY <1>0, <2>1, <2>2 DEF BookInv
  <2>6. BookInv'
    BY <2>4, <2>5 DEF BookInv
  <2>7. QED
    BY <2>1, <2>6, WriteKeepsForms
<1>3. QED
  BY <1>1, <1>2

\* Production and the packing list are written.
LEMMA AsideKeepsForms ==
    ASSUME OrdersInv, FormsInv, NEW u \in Users
    PROVE  /\ SaveProduction(u) => FormsInv'
           /\ \A p, ds : Repack(u, p, ds) => FormsInv'
<1>1. ASSUME UNCHANGED <<orders, invoices, nextId>>, Leave(u, Closed) PROVE FormsInv'
  <2>1. BookInv'
    BY <1>1, BookAside DEF FormsInv
  <2>2. QED
    BY <1>1, <2>1, WriteKeepsForms
<1>2. SaveProduction(u) => UNCHANGED <<orders, invoices, nextId>> /\ Leave(u, Closed)
  BY DEF SaveProduction
<1>3. \A p, ds : Repack(u, p, ds) => UNCHANGED <<orders, invoices, nextId>> /\ Leave(u, Closed)
  BY DEF Repack
<1>4. QED
  BY <1>1, <1>2, <1>3

\* There is nothing to begin with.
LEMMA FormsStart ==
    ASSUME Init
    PROVE  FormsInv
<1>1. DOMAIN orders = {} /\ DOMAIN invoices = {}
  BY DEF Init
<1>2. \A u \in Users : page[u] = Closed
  BY DEF Init
<1>3. BookInv
  BY <1>1, FS_EmptySet DEF BookInv, OrdersTyped, InvoicesTyped
<1>4. QED
  BY <1>2, <1>3, ClosedForm DEF FormsInv

\* The tables and the forms stay sound, whatever steps are taken.
LEMMA FormsKept ==
    ASSUME OrdersInv, FormsInv, [Next]_vars
    PROVE  FormsInv'
<1>1. CASE Next
  <2>1. PICK u \in Users : Visit(u) \/ Act(u)
    BY <1>1 DEF Next
  <2>2. CASE Act(u)
    <3>1. \/ PlaceOrder(u) \/ LiftProduction(u) \/ RewriteLines(u) \/ SaveInvoice(u)
          \/ (CheckLine(u) \/ LookForRow(u)) \/ SaveProduction(u)
      BY <2>2 DEF Act
    <3>2. QED
      BY <3>1, PlaceKeepsForms, LiftKeepsForms, RewriteKeepsForms, SaveInvoiceKeeps, BoardsKeep,
         AsideKeepsForms
  <2>3. CASE Visit(u)
    <3>1. \/ OpenOrder(u) \/ PlaceJobWork(u)
          \/ \E o \in DOMAIN orders :
                \/ OpenEdit(u, o) \/ DeleteOrder(u, o)
                \/ \E sr \in DOMAIN orders[o].lines : \E d : OpenBoard(u, o, sr, d)
          \/ \E os \in SUBSET DOMAIN orders : OpenInvoice(u, os)
          \/ \E i \in DOMAIN invoices : OpenInvoiceEdit(u, i) \/ DeleteInvoice(u, i)
          \/ \E p, ds : Repack(u, p, ds)
      BY <2>3 DEF Visit
    <3>2. ASSUME NEW o \in DOMAIN orders,
                 \/ OpenEdit(u, o) \/ DeleteOrder(u, o)
                 \/ \E sr \in DOMAIN orders[o].lines : \E d : OpenBoard(u, o, sr, d)
          PROVE  FormsInv'
      BY <3>2, OpenEditKeeps, DropsKeepForms, BoardsKeep
    <3>3. ASSUME NEW i \in DOMAIN invoices, OpenInvoiceEdit(u, i) \/ DeleteInvoice(u, i) PROVE FormsInv'
      BY <3>3, OpenInvoiceEditKeeps, DropsKeepForms
    <3>4. QED
      BY <3>1, <3>2, <3>3, OpenOrderKeeps, PlaceKeepsForms, OpenInvoiceKeeps, AsideKeepsForms
  <2>4. QED
    BY <2>1, <2>2, <2>3
<1>2. CASE UNCHANGED vars
  <2>1. UNCHANGED <<proforma, orders, invoices, nextId, page>>
    BY <1>2 DEF vars, store
  <2>2. BookInv'
    BY <2>1, BookAside DEF FormsInv
  <2>3. \A u \in Users : PageLines(page'[u])
    BY <2>1 DEF FormsInv
  <2>4. \A u \in Users : FreshForm(page[u])'
    <3>1. SUFFICES ASSUME NEW u \in Users PROVE FreshForm(page[u])'
      OBVIOUS
    <3>2. PICK r : r = page[u]
      OBVIOUS
    <3>3. FreshForm(r)'
      BY <2>1, <3>2, FormsSame DEF FormsInv
    <3>4. FreshForm(r)' <=> FreshForm(page[u])'
      BY <2>1, <3>2 DEF FreshForm
    <3>5. QED
      BY <3>3, <3>4
  <2>5. QED
    BY <2>2, <2>3, <2>4 DEF FormsInv
<1>3. QED
  BY <1>1, <1>2

-----------------------------------------------------------------------------
(* What the forms say.                                                     *)

\* The rows of the tables have their shape, and tags are of links.
LEMMA TablesAreTyped ==
    ASSUME OrdersInv, FormsInv
    PROVE  TypeOK /\ TagsAreLinked
<1>1. BookInv
  BY DEF FormsInv
<1>2. \A o \in DOMAIN orders : /\ orders[o].kind \in {"order", "jobwork"} /\ orders[o].lines # <<>>
                               /\ \A k \in DOMAIN orders[o].lines : orders[o].lines[k] \in Lines
  <2>1. SUFFICES ASSUME NEW o \in DOMAIN orders
                 PROVE  /\ orders[o].kind \in {"order", "jobwork"} /\ orders[o].lines # <<>>
                        /\ \A k \in DOMAIN orders[o].lines : orders[o].lines[k] \in Lines
    OBVIOUS
  <2>2. orders[o].kind \in {"order", "jobwork"} /\ orders[o].lines # <<>> /\ orders[o].lines \in Seq(Lines)
    BY <1>1 DEF BookInv, OrdersTyped
  <2>3. QED
    BY <2>2
<1>3. \A i \in DOMAIN invoices : /\ invoices[i].primary \subseteq DOMAIN orders
                                 /\ invoices[i].covers \subseteq DOMAIN orders
                                 /\ \A k \in DOMAIN invoices[i].lines : invoices[i].lines[k] \in Lines
  <2>1. SUFFICES ASSUME NEW i \in DOMAIN invoices
                 PROVE  /\ invoices[i].primary \subseteq DOMAIN orders
                        /\ invoices[i].covers \subseteq DOMAIN orders
                        /\ \A k \in DOMAIN invoices[i].lines : invoices[i].lines[k] \in Lines
    OBVIOUS
  <2>2. InvoiceShape(invoices[i], DOMAIN orders) /\ invoices[i].lines \in Seq(Lines)
    BY <1>1 DEF BookInv, InvoicesTyped
  <2>3. QED
    BY <2>2 DEF InvoiceShape
<1>4. \A r \in production : \E o \in Purchases : r \in OnOrder(production, o)
  <2>1. SUFFICES ASSUME NEW r \in production PROVE \E o \in Purchases : r \in OnOrder(production, o)
    OBVIOUS
  <2>2. Hangs(r)
    BY DEF OrdersInv
  <2>3. QED
    BY <2>2 DEF Hangs, Purchases, OnOrder
<1>5. TagsAreLinked
  BY <1>1 DEF BookInv, InvoiceShape, TagsAreLinked
<1>6. QED
  BY <1>2, <1>3, <1>4, <1>5 DEF TypeOK

\* What no other invoice covers is all outstanding to the page of this one.
LEMMA EditsOffer ==
    ASSUME FormsInv
    PROVE  EditOffersItsOrders
<1> SUFFICES ASSUME NEW i \in DOMAIN invoices, NEW o \in invoices[i].covers,
                    \A j \in DOMAIN invoices \ {i} : o \notin invoices[j].covers
             PROVE  HasOutstanding(o, i)
  BY DEF EditOffersItsOrders
<1>1. BookInv /\ o \in DOMAIN orders /\ o # None
  BY DEF FormsInv, BookInv, InvoiceShape
<1>2. ASSUME NEW p, NEW unit PROVE Invoiced(o, p, unit, i) = 0
  <2>1. ASSUME NEW j \in DOMAIN invoices \ {i} PROVE DOMAIN Tagged(invoices[j].lines, o) = {}
    <3>1. \A k \in DOMAIN invoices[j].lines : invoices[j].lines[k].ref # o
      BY <1>1 DEF BookInv, InvoiceShape
    <3>2. QED
      BY <3>1 DEF Tagged
  <2>2. NamesOf(InvoicedLines(o, i), p) = {}
    BY <2>1 DEF NamesOf, InvoicedLines
  <2>3. QED
    BY <2>2 DEF Invoiced, Recorded
<1>3. orders[o].lines \in Seq(Lines) /\ orders[o].lines # <<>>
  BY <1>1 DEF BookInv, OrdersTyped
<1>4. 1 \in DOMAIN orders[o].lines /\ orders[o].lines[1] \in Lines
  BY <1>3
<1> DEFINE l == orders[o].lines[1]
<1>5. l.n \in Nat \ {0} /\ Invoiced(o, l.product, l.unit, i) = 0
  BY <1>2, <1>4 DEF Lines
<1>6. Outstanding(l, Invoiced(o, l.product, l.unit, i)) > 0
  BY <1>5 DEF Outstanding
<1>7. QED
  BY <1>4, <1>6 DEF HasOutstanding

\* A fresh form offers the rest.
LEMMA FreshFormsHold ==
    ASSUME OrdersInv, FormsInv
    PROVE  FreshFormsHoldTheRest
<1>1. OrdersTyped /\ InvoicesTyped /\ proforma \in Seq(Lines) /\ \A o \in DOMAIN orders : o \in Nat \ {0}
  BY DEF FormsInv, BookInv, OrdersInv, None
<1>2. ASSUME NEW u \in Users, page[u].at = "order", page[u].fresh,
             NEW k \in DOMAIN proforma, NEW l, l = proforma[k], Single(proforma, l.product)
      PROVE  OffersTheRest(l, page[u].lines, OrderedLines)
  <2>1. page[u].lines = RemainingProducts
    BY <1>2 DEF FormsInv, FreshForm
  <2>2. RestOf(l, RemainingProducts, Placed(l.product, l.unit))
    BY <1>1, <1>2, OrderFormRests
  <2>3. RestOf(l, page[u].lines, Recorded(OrderedLines, l.product, l.unit)) /\ l \in Lines
    BY <1>1, <1>2, <2>1, <2>2 DEF Placed
  <2>4. QED
    BY <1>1, <2>3, OrderedTyped, RestIsOffered
<1>3. ASSUME NEW u \in Users, page[u].at = "invoice", page[u].fresh, page[u].id = None,
             NEW o \in Range(page[u].covers), NEW k \in DOMAIN orders[o].lines,
             NEW l, l = orders[o].lines[k], Single(orders[o].lines, l.product)
      PROVE  OffersTheRest(l, Tagged(page[u].lines, o), InvoicedLines(o, None))
  <2>1. PICK os \in SUBSET DOMAIN orders :
           os # {} /\ page[u].covers = SetToSeq(os) /\ page[u].lines = PickedForm(os)
    BY <1>3 DEF FormsInv, FreshForm
  <2>2. IsFiniteSet(os) /\ os \subseteq Nat \ {0} /\ os \subseteq Nat
    BY <1>1, FS_Subset DEF OrdersTyped
  <2>3. o \in os
    BY <1>3, <2>1, <2>2, CoversOf
  <2>4. Sum(Tagged(PickedForm(os), o), l.product, l.unit) = Sum(RemainingItems(o), l.product, l.unit)
    BY <1>1, <2>1, <2>2, <2>3, PickedRows
  <2>5. RestOf(l, RemainingItems(o), Invoiced(o, l.product, l.unit, None))
    BY <1>1, <1>3, <2>2, <2>3, ItemsFormRests
  <2>6. RestOf(l, Tagged(page[u].lines, o), Recorded(InvoicedLines(o, None), l.product, l.unit))
    BY <2>1, <2>4, <2>5 DEF RestOf, Invoiced
  <2>7. orders[o].lines \in Seq(Lines)
    BY <1>1, <2>3 DEF OrdersTyped
  <2>8. l \in Lines
    BY <1>3, <2>7
  <2>9. QED
    BY <1>1, <2>6, <2>8, InvoicedTyped, RestIsOffered
<1>4. QED
  BY <1>2, <1>3 DEF FreshFormsHoldTheRest

-----------------------------------------------------------------------------
(* Submitting a fresh form.                                                *)

\* A new purchase order adds what its lines add up to.
LEMMA OrderedGrows ==
    ASSUME OrdersTyped, NEW x, x \notin DOMAIN orders, x \in Nat, NEW ls \in Seq(Lines), ls # <<>>,
           orders' = Put(orders, x, [kind |-> "order", lines |-> Inserted(ls, x)]), NEW p, NEW unit
    PROVE  InAll(OrderedLines, p, unit)' = Sum(ls, p, unit) + InAll(OrderedLines, p, unit)
<1> DEFINE D == Purchases
           f == [o \in D \union {x} |-> Sum(orders'[o].lines, p, unit)]
           g == [o \in D |-> Sum(orders[o].lines, p, unit)]
<1>1. DOMAIN orders' = DOMAIN orders \union {x} /\ orders'[x] = [kind |-> "order", lines |-> Inserted(ls, x)]
      /\ \A o \in DOMAIN orders \ {x} : orders'[o] = orders[o]
  BY DEF Put
<1>2. orders'[x].kind = "order" /\ orders'[x].lines = Inserted(ls, x)
  BY <1>1
<1>3. Purchases' = D \union {x}
  BY <1>1, <1>2 DEF Purchases
<1>4. IsFiniteSet(D) /\ x \notin D /\ \A o \in D : o \in DOMAIN orders \ {x}
  <2>1. D \subseteq DOMAIN orders
    BY DEF Purchases
  <2>2. IsFiniteSet(D)
    BY <2>1, FS_Subset DEF OrdersTyped
  <2>3. QED
    BY <2>1, <2>2
<1>5. InAll(OrderedLines, p, unit)' = SumFunction(f) /\ InAll(OrderedLines, p, unit) = SumFunction(g)
  BY <1>3 DEF InAll, OrderedLines
<1>6. ASSUME NEW o \in D PROVE Sum(orders[o].lines, p, unit) \in Nat /\ orders'[o] = orders[o]
  <2>1. orders[o].lines \in Seq(Row)
    BY <1>4, LinesAreRows DEF OrdersTyped
  <2>2. QED
    BY <1>1, <1>4, <2>1, SumsOfLines
<1>7. Sum(Inserted(ls, x), p, unit) = Sum(ls, p, unit)
  <2>1. DOMAIN Inserted(ls, x) = DOMAIN ls
    BY DEF Inserted
  <2>2. \A k \in DOMAIN ls : /\ Inserted(ls, x)[k].product = ls[k].product
                             /\ Inserted(ls, x)[k].unit = ls[k].unit /\ Inserted(ls, x)[k].n = ls[k].n
    <3>1. SUFFICES ASSUME NEW k \in DOMAIN ls
                   PROVE  LET r == [ls[k] EXCEPT !.ref = x + k]
                          IN  r.product = ls[k].product /\ r.unit = ls[k].unit /\ r.n = ls[k].n
      BY DEF Inserted
    <3>2. ls[k] \in Lines
      OBVIOUS
    <3>3. QED
      BY <3>2 DEF Lines
  <2>3. QED
    BY <2>1, <2>2, SumOfSame
<1>8. Sum(ls, p, unit) \in Nat
  <2>1. ls \in Seq(Row)
    BY LinesAreRows
  <2>2. QED
    BY <2>1, SumsOfLines
<1>9. f \in [D \union {x} -> Nat] /\ g \in [D -> Nat] /\ f[x] = Sum(ls, p, unit) /\ \A o \in D : g[o] = f[o]
  <2>1. Sum(orders'[x].lines, p, unit) = Sum(ls, p, unit)
    BY <1>2, <1>7
  <2>2. \A o \in D : /\ Sum(orders[o].lines, p, unit) \in Nat
                     /\ Sum(orders'[o].lines, p, unit) = Sum(orders[o].lines, p, unit)
    BY <1>6
  <2> HIDE DEF D
  <2>3. QED
    BY <1>8, <2>1, <2>2
<1> HIDE DEF D, f, g
<1>10. SumFunction(f) = f[x] + SumFunction(g)
  <2>1. IsFiniteSet(D) /\ x \notin D
    BY <1>4
  <2>2. f \in [D \union {x} -> Nat] /\ g \in [D -> Nat] /\ \A o \in D : g[o] = f[o]
    BY <1>9
  <2>3. QED
    BY ONLY <2>1, <2>2, SumAdds
<1>11. QED
  BY <1>5, <1>9, <1>10

\* A fresh order form that is submitted.
LEMMA FreshOrderFits ==
    ASSUME OrdersInv, FormsInv, NEW u \in Users, PlaceOrder(u), page[u].fresh,
           NEW k \in DOMAIN proforma, NEW l, l = proforma[k], OneUnit(proforma, l),
           OneName(OrderedLines, l.product)
    PROVE  InAll(OrderedLines, l.product, l.unit)'
               <= Greater(InAll(OrderedLines, l.product, l.unit), Sum(proforma, l.product, l.unit))
<1>1. /\ OrdersTyped /\ proforma \in Seq(Lines) /\ nextId \in Nat /\ nextId \notin DOMAIN orders
      /\ page[u].at = "order" /\ page[u].lines = RemainingProducts
      /\ page[u].lines \in Seq(Row) /\ page[u].lines # <<>>
  <2>1. OrdersTyped /\ proforma \in Seq(Lines) /\ nextId \in Nat /\ \A o \in DOMAIN orders : o \in Nat /\ o < nextId
    BY DEF FormsInv, BookInv, OrdersInv
  <2>2. page[u].at = "order"
    BY DEF PlaceOrder
  <2>3. QED
    BY <2>1, <2>2 DEF FormsInv, FreshForm, PageLines
<1>2. PICK ls \in Rows(page[u].lines) :
         orders' = Put(orders, nextId, [kind |-> "order", lines |-> Inserted(ls, nextId)])
  BY DEF PlaceOrder
<1>3. ls \in Seq(Lines) /\ ls # <<>>
  BY <1>1, <1>2, RowsWithin
<1> DEFINE p == l.product
           unit == l.unit
<1>0. InAll(OrderedLines, p, unit) = Placed(p, unit)
  BY <1>1, OrderedTyped, RecordedWithin DEF Placed
<1>4. InAll(OrderedLines, p, unit)' = Sum(ls, p, unit) + Placed(p, unit)
  BY <1>0, <1>1, <1>2, <1>3, OrderedGrows
<1>5. Sum(ls, p, unit) <= Sum(RemainingProducts, p, unit)
  <2>1. Sum(ls, p, unit) <= Sum(page[u].lines, p, unit)
    BY <1>1, <1>2, RowsAddUp
  <2>2. QED
    BY <1>1, <2>1
<1>6. Sum(ls, p, unit) \in Nat /\ Placed(p, unit) \in Nat /\ Sum(proforma, p, unit) \in Nat
  <2>1. ls \in Seq(Row) /\ proforma \in Seq(Row)
    BY <1>1, <1>3, LinesAreRows
  <2>2. QED
    BY <1>1, <2>1, SumsOfLines, PlacedIsNat
<1>7. /\ Sum(RemainingProducts, p, unit) \in Nat
      /\ Placed(p, unit) + Sum(RemainingProducts, p, unit) <= Greater(Placed(p, unit), Sum(proforma, p, unit))
  BY <1>1, OrderFormFits
<1>8. Greater(Placed(p, unit), Sum(proforma, p, unit)) \in Nat
  BY <1>6 DEF Greater
<1> HIDE DEF p, unit
<1>9. InAll(OrderedLines, p, unit)' <= Greater(Placed(p, unit), Sum(proforma, p, unit))
  BY <1>4, <1>5, <1>6, <1>7, <1>8
<1>10. QED
  BY <1>0, <1>9 DEF p, unit

\* A new invoice adds what is tagged in its lines.
LEMMA InvoicedGrows ==
    ASSUME InvoicesTyped, NEW x, x \notin DOMAIN invoices, x # None, NEW new, new.lines \in Seq(Lines),
           invoices' = Put(invoices, x, new), NEW o, NEW p, NEW unit
    PROVE  /\ Sum(Tagged(new.lines, o), p, unit) \in Nat
           /\ InAll(InvoicedLines(o, None), p, unit)'
                 = Sum(Tagged(new.lines, o), p, unit) + InAll(InvoicedLines(o, None), p, unit)
<1> DEFINE D == DOMAIN invoices \ {None}
           f == [i \in D \union {x} |-> Sum(Tagged(invoices'[i].lines, o), p, unit)]
           g == [i \in D |-> Sum(Tagged(invoices[i].lines, o), p, unit)]
<1>1. DOMAIN invoices' = DOMAIN invoices \union {x} /\ invoices'[x] = new
      /\ \A i \in DOMAIN invoices \ {x} : invoices'[i] = invoices[i]
  BY DEF Put
<1>2. IsFiniteSet(D) /\ x \notin D /\ DOMAIN invoices' \ {None} = D \union {x}
  BY <1>1, FS_RemoveElement DEF InvoicesTyped
<1>3. InAll(InvoicedLines(o, None), p, unit)' = SumFunction(f) /\ InAll(InvoicedLines(o, None), p, unit) = SumFunction(g)
  BY <1>2 DEF InAll, InvoicedLines
<1>4. ASSUME NEW i \in D PROVE Sum(Tagged(invoices[i].lines, o), p, unit) \in Nat /\ invoices'[i] = invoices[i]
  <2>1. invoices[i].lines \in Seq(Row)
    BY LinesAreRows DEF InvoicesTyped
  <2>2. QED
    BY <1>1, <2>1, SumsOfLines
<1>5. Sum(Tagged(new.lines, o), p, unit) \in Nat
  <2>1. new.lines \in Seq(Row)
    BY LinesAreRows
  <2>2. QED
    BY <2>1, SumsOfLines
<1>6. /\ f \in [D \union {x} -> Nat] /\ g \in [D -> Nat]
      /\ f[x] = Sum(Tagged(new.lines, o), p, unit) /\ \A i \in D : g[i] = f[i]
  BY <1>1, <1>4, <1>5
<1> HIDE DEF D, f, g
<1>7. SumFunction(f) = f[x] + SumFunction(g)
  BY <1>2, <1>6, SumAdds
<1>8. QED
  BY <1>3, <1>5, <1>6, <1>7

\* A fresh invoice form that is submitted.
LEMMA FreshInvoiceFits ==
    ASSUME OrdersInv, FormsInv, NEW u \in Users, SaveInvoice(u), page[u].fresh, page[u].id = None,
           NEW o \in DOMAIN orders, NEW k \in DOMAIN orders[o].lines, NEW l, l = orders[o].lines[k],
           OneUnit(orders[o].lines, l), OneName(InvoicedLines(o, None), l.product)
    PROVE  InAll(InvoicedLines(o, None), l.product, l.unit)'
               <= Greater(InAll(InvoicedLines(o, None), l.product, l.unit), Sum(orders[o].lines, l.product, l.unit))
<1>1. /\ OrdersTyped /\ InvoicesTyped /\ o \in Nat /\ o # None
      /\ nextId # None /\ nextId \notin DOMAIN invoices
  <2>1. BookInv /\ nextId \in Nat \ {0} /\ o \in Nat /\ \A i \in DOMAIN invoices : i \in Nat /\ i < nextId
    BY DEF FormsInv, BookInv, OrdersInv
  <2>2. QED
    BY <2>1 DEF BookInv, None
<1>2. /\ page[u].at = "invoice" /\ page[u].lines \in Seq(Row) /\ page[u].lines # <<>>
      /\ page[u].id \in DOMAIN invoices \union {None}
  BY DEF SaveInvoice, FormsInv, PageLines
<1>3. PICK os \in SUBSET DOMAIN orders : os # {} /\ page[u].lines = PickedForm(os)
  BY <1>2 DEF FormsInv, FreshForm
<1>4. PICK ls \in Rows(page[u].lines) : invoices' = Put(invoices, nextId, Invoice(u, ls))
  BY <1>2 DEF SaveInvoice
<1> DEFINE new == Invoice(u, ls)
           p == l.product
           unit == l.unit
           s == orders[o].lines
           ours == InvoicedLines(o, None)
           most == Greater(Invoiced(o, p, unit, None), Sum(s, p, unit))
<1>5. new.lines \in Seq(Lines) /\ new.lines \in {ls, <<>>}
  <2>1. new.lines \in Seq(Lines)
    BY <1>2, <1>4, InvoiceWritten
  <2>2. new.lines \in {ls, <<>>}
    BY DEF Invoice
  <2>3. QED
    BY <2>1, <2>2
<1> HIDE DEF new
<1>0. InAll(ours, p, unit) = Invoiced(o, p, unit, None)
  BY <1>1, InvoicedTyped, RecordedWithin DEF Invoiced
<1>6. /\ Sum(Tagged(new.lines, o), p, unit) \in Nat
      /\ InAll(ours, p, unit)' = Sum(Tagged(new.lines, o), p, unit) + Invoiced(o, p, unit, None)
  BY <1>0, <1>1, <1>4, <1>5, InvoicedGrows DEF new
<1>7. Invoiced(o, p, unit, None) \in Nat /\ Sum(s, p, unit) \in Nat
  <2>1. s \in Seq(Row)
    BY <1>1, LinesAreRows DEF OrdersTyped
  <2>2. QED
    BY <1>1, <2>1, InvoicedIsNat, SumsOfLines
<1>8. /\ Sum(RemainingItems(o), p, unit) \in Nat
      /\ Invoiced(o, p, unit, None) + Sum(RemainingItems(o), p, unit) <= most
  BY <1>1, ItemsFormFits
<1>9. most \in Nat /\ Invoiced(o, p, unit, None) <= most
  BY <1>7 DEF Greater
<1>10. os \subseteq Nat
  BY DEF OrdersInv
<1>11. Sum(Tagged(new.lines, o), p, unit) = 0 \/ Sum(Tagged(new.lines, o), p, unit) <= Sum(RemainingItems(o), p, unit)
  <2>1. CASE new.lines = <<>>
    <3>1. \A j \in DOMAIN new.lines : new.lines[j].ref # o
      BY <2>1
    <3>2. QED
      BY <3>1, NoTags
  <2>2. CASE new.lines = ls /\ o \in os
    <3>1. Sum(Tagged(ls, o), p, unit) <= Sum(Tagged(page[u].lines, o), p, unit)
      BY <1>2, <1>4, RowsAddUp
    <3>2. Sum(Tagged(PickedForm(os), o), p, unit) = Sum(RemainingItems(o), p, unit)
      BY <1>1, <1>3, <1>10, <2>2, PickedRows
    <3>3. QED
      BY <1>3, <2>2, <3>1, <3>2
  <2>3. CASE new.lines = ls /\ o \notin os
    <3>1. \A j \in DOMAIN page[u].lines : page[u].lines[j].ref \in os
      BY <1>1, <1>3, <1>10, PickedRows
    <3>2. \A j \in DOMAIN ls : ls[j].ref \in os
      <4>1. PICK h \in Injection(DOMAIN ls, DOMAIN page[u].lines) :
               \A j \in DOMAIN ls : Within(ls[j], page[u].lines[h[j]]) /\ ls[j].ref = page[u].lines[h[j]].ref
        BY <1>2, <1>4, RowsWithin
      <4>2. QED
        BY <3>1, <4>1 DEF Injection
    <3>3. QED
      BY <2>3, <3>2, NoTags
  <2>4. QED
    BY <1>5, <2>1, <2>2, <2>3
<1> HIDE DEF most, p, unit, s, ours
<1>12. InAll(ours, p, unit)' <= most
  BY <1>6, <1>7, <1>8, <1>9, <1>11
<1>13. QED
  BY <1>0, <1>12 DEF most, p, unit, s, ours

-----------------------------------------------------------------------------
(* The theorems.                                                           *)

\* However orders are placed, split, edited, deleted and invoiced by users whose
\* pages overlap, no line of a purchase invoice is tagged with an order that the
\* invoice is not linked to: what counts as invoiced is what the links list.
THEOREM TagsStayLinked == Spec => []TagsAreLinked
<1>1. Init => OrdersInv /\ FormsInv
  BY OrdersStart, FormsStart
<1>2. OrdersInv /\ FormsInv /\ [Next]_vars => (OrdersInv /\ FormsInv)'
  BY OrdersKept, FormsKept
<1>3. OrdersInv /\ FormsInv => TagsAreLinked
  BY TablesAreTyped
<1>4. QED
  BY <1>1, <1>2, <1>3, PTL DEF Spec

\* The tables keep their shape; a form nothing was written behind offers of a
\* product on one line never less than what is not ordered or invoiced yet, and
\* exactly that if the lines that count bear one name for the product; and the page
\* of an invoice that alone covers an order offers that order again.
THEOREM FormsOfferWhatIsLeft == Spec => []PagesOfferTheRest
<1>1. Init => OrdersInv /\ FormsInv
  BY OrdersStart, FormsStart
<1>2. OrdersInv /\ FormsInv /\ [Next]_vars => (OrdersInv /\ FormsInv)'
  BY OrdersKept, FormsKept
<1>3. OrdersInv /\ FormsInv => PagesOfferTheRest
  BY TablesAreTyped, FreshFormsHold, EditsOffer DEF PagesOfferTheRest
<1>4. QED
  BY <1>1, <1>2, <1>3, PTL DEF Spec

\* Submitting such a form, whatever rows the user keeps of it, never orders more
\* than the proforma invoice asks for nor invoices more than was ordered, of any
\* product whose lines are counted in one unit and whose ordered, or invoiced, lines
\* bear one name.
THEOREM FreshFormsNeverExceed == Spec => FreshFormsFit
<1> DEFINE Fit == \A u \in Users :
          /\ PlaceOrder(u) /\ page[u].fresh =>
                 \A k \in DOMAIN proforma :
                     StaysWithin(proforma, proforma[k], OrderedLines, OrderedLines')
          /\ SaveInvoice(u) /\ page[u].fresh /\ page[u].id = None =>
                 \A o \in DOMAIN orders : \A k \in DOMAIN orders[o].lines :
                     StaysWithin(orders[o].lines, orders[o].lines[k],
                                 InvoicedLines(o, None), InvoicedLines(o, None)')
<1>1. Init => OrdersInv /\ FormsInv
  BY OrdersStart, FormsStart
<1>2. OrdersInv /\ FormsInv /\ [Next]_vars => (OrdersInv /\ FormsInv)'
  BY OrdersKept, FormsKept
<1>3. OrdersInv /\ FormsInv => Fit
  <2>1. ASSUME OrdersInv, FormsInv, NEW u \in Users, PlaceOrder(u), page[u].fresh,
               NEW k \in DOMAIN proforma
        PROVE  StaysWithin(proforma, proforma[k], OrderedLines, OrderedLines')
    <3>1. PICK l : l = proforma[k]
      OBVIOUS
    <3>2. ASSUME OneUnit(proforma, l), OneName(OrderedLines, l.product)
          PROVE  InAll(OrderedLines, l.product, l.unit)'
                     <= Greater(InAll(OrderedLines, l.product, l.unit), Sum(proforma, l.product, l.unit))
      BY <2>1, <3>1, <3>2, FreshOrderFits
    <3>3. InAll(OrderedLines', l.product, l.unit) = InAll(OrderedLines, l.product, l.unit)'
      BY DEF InAll, OrderedLines
    <3>4. QED
      BY <3>1, <3>2, <3>3 DEF StaysWithin
  <2>2. ASSUME OrdersInv, FormsInv, NEW u \in Users, SaveInvoice(u), page[u].fresh, page[u].id = None,
               NEW o \in DOMAIN orders, NEW k \in DOMAIN orders[o].lines
        PROVE  StaysWithin(orders[o].lines, orders[o].lines[k],
                           InvoicedLines(o, None), InvoicedLines(o, None)')
    <3>1. PICK l : l = orders[o].lines[k]
      OBVIOUS
    <3>2. ASSUME OneUnit(orders[o].lines, l), OneName(InvoicedLines(o, None), l.product)
          PROVE  InAll(InvoicedLines(o, None), l.product, l.unit)'
                     <= Greater(InAll(InvoicedLines(o, None), l.product, l.unit),
                                Sum(orders[o].lines, l.product, l.unit))
      BY <2>2, <3>1, <3>2, FreshInvoiceFits
    <3>3. InAll(InvoicedLines(o, None)', l.product, l.unit)
             = InAll(InvoicedLines(o, None), l.product, l.unit)'
      BY DEF InAll, InvoicedLines
    <3>4. QED
      BY <3>1, <3>2, <3>3 DEF StaysWithin
  <2>3. QED
    BY <2>1, <2>2
<1>4. QED
  BY <1>1, <1>2, <1>3, PTL DEF Spec, FreshFormsFit
=============================================================================
