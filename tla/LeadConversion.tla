---------------------------- MODULE LeadConversion ----------------------------
(***************************************************************************)
(* Leads and the clients they become: LeadService, PartyService (buyers)   *)
(* and SupplierService over leads, lead_contacts, buyers, party_contacts   *)
(* and suppliers.                                                          *)
(*                                                                         *)
(* A request of a worker is a sequence of database transactions and reads, *)
(* one action each.  Fields a form fills in (names, addresses, the status  *)
(* labels an operator picks) are left out; the rows, their links, the      *)
(* converted flag and the primary flags are kept.  leads.is_converted and  *)
(* leads.converted_client_id are always written together, so they are one  *)
(* field here, and the converted_client_type is the id space it is from.   *)
(***************************************************************************)
EXTENDS Integers, FiniteSets

CONSTANTS
    Workers,            \* worker processes, each serving one request at a time
    LeadIds,            \* row ids AUTOINCREMENT can hand out, a set per table
    BuyerIds,
    SupplierIds,
    Persons,            \* contact persons; one row each under one parent
    Null,               \* SQL NULL / no value
    OneRequestPerLead   \* TRUE: no two requests on one lead or its clients overlap

ClientIds == BuyerIds \union SupplierIds
Parents == LeadIds \union ClientIds

ASSUME IdsAssumption ==
    /\ LeadIds \intersect ClientIds = {} /\ BuyerIds \intersect SupplierIds = {}
    /\ Null \notin Parents \union Persons
    /\ OneRequestPerLead \in BOOLEAN

VARIABLES
    lead,       \* leads: the row's state and the client it was converted to
    client,     \* buyers and suppliers: the row's state and its lead_id
    contacts,   \* contact rows: (parent, person, primary)
    attached,   \* buyers with rows in communications, payment_history, documents
    req         \* what each worker is doing, with its local variables

db == <<lead, client, contacts, attached>>
leadVars == <<lead, client, contacts, attached, req>>

-----------------------------------------------------------------------------
(* Types.                                                                  *)

Contact == [parent : Parents, person : Persons, primary : BOOLEAN]
\* A contact as a form posts it or a read returns it.
Card == [person : Persons, primary : BOOLEAN]

Lead == [state : {"unused", "live"}, client : ClientIds \union {Null}]
Client == [state : {"unused", "live", "deleted"}, lead : LeadIds \union {Null}]

Steps == {"idle", "insertLead", "insertBuyer", "cards", "readContacts", "convert", "seed",
          "addContact", "attach", "setPrimary", "readLeadId", "delete"}

\* lead, client: the rows the request is about.  cards: contacts still to be
\* added, or contacts read.  person: the contact it is about.
Request == [pc : Steps, lead : LeadIds \union {Null}, client : ClientIds \union {Null},
            to : {"Buyer", "Supplier"}, cards : SUBSET Card, person : Persons \union {Null}]
Idle == [pc |-> "idle", lead |-> Null, client |-> Null, to |-> "Buyer", cards |-> {},
         person |-> Null]

LeadTypeOK ==
    /\ lead \in [LeadIds -> Lead]
    /\ client \in [ClientIds -> Client]
    /\ contacts \subseteq Contact
    /\ attached \subseteq BuyerIds
    /\ req \in [Workers -> Request]

-----------------------------------------------------------------------------
(* Helpers.                                                                *)

LiveLead(l) == l \in LeadIds /\ lead[l].state = "live"
LiveClient(c) == c \in ClientIds /\ client[c].state = "live"

\* ContactRepository.list_for.
CardsOf(parent) ==
    {[person |-> r.person, primary |-> r.primary] : r \in {s \in contacts : s.parent = parent}}
RowsFor(parent, cards) ==
    {[parent |-> parent, person |-> k.person, primary |-> k.primary] : k \in cards}

\* Deviation: the copies lose their flag.
CopiedRows_Unflagged(b, cards) ==
    {[parent |-> b, person |-> k.person, primary |-> FALSE] : k \in cards}

\* What convert_from_lead inserts into party_contacts.
CopiedRows(b, cards) == RowsFor(b, cards)

\* The parent of the contact a request is about: the buyer if there is one.
ParentOf(r) == IF r.client # Null THEN r.client ELSE r.lead

\* The one person SupplierService.convert_lead keeps: the primary, else the first.
SeededPersons(cards) ==
    LET primaries == {k.person : k \in {j \in cards : j.primary}}
    IN  IF primaries # {} THEN primaries ELSE {k.person : k \in cards}

\* Worker w goes on as r, or is done.
Become(w, r) == req' = [req EXCEPT ![w] = r]
Finish(w) == Become(w, Idle)

\* The environment's promise when OneRequestPerLead: no request starts on a lead,
\* or a client of it, that another request is on.
MayStart(l, c) ==
    OneRequestPerLead =>
        \A v \in Workers : /\ l # Null => req[v].lead # l
                           /\ c # Null => req[v].client # c

-----------------------------------------------------------------------------
LeadInit ==
    /\ lead = [l \in LeadIds |-> [state |-> "unused", client |-> Null]]
    /\ client = [c \in ClientIds |-> [state |-> "unused", lead |-> Null]]
    /\ contacts = {}
    /\ attached = {}
    /\ req = [w \in Workers |-> Idle]

(* Adding a lead, or a buyer without one: the row, then a transaction per  *)
(* contact person.                                                         *)

\* The contacts a form may post: at most one is marked primary.
Forms == {cards \in SUBSET Card :
            /\ \A j, k \in cards : j.person = k.person => j = k
            /\ \A j, k \in cards : j.primary /\ k.primary => j = k}

\* create_lead: at least one contact, exactly one of them primary.
StartLead(w) ==
    /\ req[w].pc = "idle"
    /\ \E cards \in Forms :
         /\ \E k \in cards : k.primary
         /\ Become(w, [Idle EXCEPT !.pc = "insertLead", !.cards = cards])
    /\ UNCHANGED db

InsertLead(w) ==
    /\ req[w].pc = "insertLead"
    /\ \E l \in LeadIds :
         /\ lead[l].state = "unused"
         /\ lead' = [lead EXCEPT ![l] = [state |-> "live", client |-> Null]]
         /\ Become(w, [req[w] EXCEPT !.pc = "cards", !.lead = l])
    /\ UNCHANGED <<client, contacts, attached>>

\* PartyService.create: any contacts, at most one of them primary.
StartBuyer(w) ==
    /\ req[w].pc = "idle"
    /\ \E cards \in Forms : Become(w, [Idle EXCEPT !.pc = "insertBuyer", !.cards = cards])
    /\ UNCHANGED db

InsertBuyer(w) ==
    /\ req[w].pc = "insertBuyer"
    /\ \E b \in BuyerIds :
         /\ client[b].state = "unused"
         /\ client' = [client EXCEPT ![b] = [state |-> "live", lead |-> Null]]
         /\ Become(w, [req[w] EXCEPT !.pc = "cards", !.client = b])
    /\ UNCHANGED <<lead, contacts, attached>>

AddCard(w) ==
    /\ req[w].pc = "cards"
    /\ IF req[w].cards = {}
       THEN Finish(w) /\ UNCHANGED contacts
       ELSE \E k \in req[w].cards :
              /\ contacts' = contacts \union RowsFor(ParentOf(req[w]), {k})
              /\ Become(w, [req[w] EXCEPT !.cards = @ \ {k}])
    /\ UNCHANGED <<lead, client, attached>>

(* Converting a lead.                                                      *)

\* Deviation: the lead is not looked at before the conversion.
StartConvert_Unchecked(w, l) ==
    /\ req[w].pc = "idle"
    /\ LiveLead(l) /\ MayStart(l, Null)
    /\ \E to \in {"Buyer", "Supplier"} :
         Become(w, [Idle EXCEPT !.pc = "readContacts", !.lead = l, !.to = to])
    /\ UNCHANGED db

\* convert_lead reads the lead's row and refuses a converted one.
StartConvert(w, l) ==
    /\ req[w].pc = "idle"
    /\ LiveLead(l) /\ MayStart(l, Null)
    /\ lead[l].client = Null
    /\ \E to \in {"Buyer", "Supplier"} :
         Become(w, [Idle EXCEPT !.pc = "readContacts", !.lead = l, !.to = to])
    /\ UNCHANGED db

ReadContacts(w) ==
    /\ req[w].pc = "readContacts"
    /\ Become(w, [req[w] EXCEPT !.pc = "convert", !.cards = CardsOf(req[w].lead)])
    /\ UNCHANGED db

\* convert_from_lead, one transaction: the client, a copy of the contacts (for a
\* buyer) and the mark on the lead.  A supplier's contacts follow on their own.
ConvertFromLead(w) ==
    LET l == req[w].lead
    IN  /\ req[w].pc = "convert"
        /\ \E c \in IF req[w].to = "Buyer" THEN BuyerIds ELSE SupplierIds :
             /\ client[c].state = "unused"
             /\ client' = [client EXCEPT ![c] = [state |-> "live", lead |-> l]]
             /\ lead' = [lead EXCEPT ![l] = [state |-> "live", client |-> c]]
             /\ IF req[w].to = "Buyer"
                THEN contacts' = contacts \union CopiedRows(c, req[w].cards) /\ Finish(w)
                ELSE Become(w, [req[w] EXCEPT !.pc = "seed", !.client = c]) /\ UNCHANGED contacts
        /\ UNCHANGED attached

\* replace_contact_persons, with the contacts read before the conversion, if any.
SeedSupplier(w) ==
    /\ req[w].pc = "seed"
    /\ IF req[w].cards = {}
       THEN UNCHANGED contacts
       ELSE \E p \in SeededPersons(req[w].cards) :
              contacts' = {r \in contacts : r.parent # req[w].client}
                            \union RowsFor(req[w].client, {[person |-> p, primary |-> TRUE]})
    /\ Finish(w)
    /\ UNCHANGED <<lead, client, attached>>

(* Adding to a lead or a buyer, and its primary contact: the row is read,  *)
(* then written to.                                                        *)

StartAdd(w, l, b) ==
    /\ req[w].pc = "idle"
    /\ IF b = Null THEN LiveLead(l) ELSE LiveClient(b) /\ client[b].lead = l
    /\ MayStart(l, b)
    /\ \/ \E p \in Persons :
            Become(w, [Idle EXCEPT !.pc = "addContact", !.lead = l, !.client = b, !.person = p])
       \/ b # Null /\ Become(w, [Idle EXCEPT !.pc = "attach", !.lead = l, !.client = b])
    /\ UNCHANGED db

\* add_contact: never primary.  (Two rows of one person would be one row here.)
AddContact(w) ==
    LET parent == ParentOf(req[w])
    IN  /\ req[w].pc = "addContact"
        /\ IF \E r \in contacts : r.parent = parent /\ r.person = req[w].person
           THEN UNCHANGED contacts
           ELSE contacts' = contacts \union
                              {[parent |-> parent, person |-> req[w].person, primary |-> FALSE]}
        /\ Finish(w)
        /\ UNCHANGED <<lead, client, attached>>

\* Deviation: filed under the lead's id.
Attach_ToLead(w) ==
    /\ req[w].pc = "attach"
    /\ attached' = attached \union {req[w].lead}
    /\ Finish(w)
    /\ UNCHANGED <<lead, client, contacts>>

\* add_communication, add_payment, add_document: rows without a foreign key.
Attach(w) ==
    /\ req[w].pc = "attach"
    /\ attached' = attached \union {req[w].client}
    /\ Finish(w)
    /\ UNCHANGED <<lead, client, contacts>>

StartSetPrimary(w, l, b) ==
    /\ req[w].pc = "idle"
    /\ IF b = Null THEN LiveLead(l) ELSE LiveClient(b) /\ client[b].lead = l
    /\ MayStart(l, b)
    /\ \E k \in CardsOf(IF b = Null THEN l ELSE b) :
         Become(w, [Idle EXCEPT !.pc = "setPrimary", !.lead = l, !.client = b, !.person = k.person])
    /\ UNCHANGED db

\* Deviation: the other contacts keep their flag.
SetPrimary_KeepsOthers(w) ==
    LET parent == ParentOf(req[w])
    IN  /\ req[w].pc = "setPrimary"
        /\ contacts' = {r \in contacts : ~(r.parent = parent /\ r.person = req[w].person)} \union
             {[r EXCEPT !.primary = TRUE] :
                 r \in {s \in contacts : s.parent = parent /\ s.person = req[w].person}}
        /\ Finish(w)
        /\ UNCHANGED <<lead, client, attached>>

\* set_primary, one transaction: un-mark all, mark one.
SetPrimary(w) ==
    LET parent == ParentOf(req[w])
    IN  /\ req[w].pc = "setPrimary"
        /\ contacts' = {r \in contacts : r.parent # parent} \union
             {[r EXCEPT !.primary = (r.person = req[w].person)] :
                 r \in {s \in contacts : s.parent = parent}}
        /\ Finish(w)
        /\ UNCHANGED <<lead, client, attached>>

(* Deleting a buyer.                                                       *)

StartDelete(w, b) ==
    /\ req[w].pc = "idle"
    /\ b \in BuyerIds /\ LiveClient(b) /\ MayStart(client[b].lead, b)
    /\ Become(w, [Idle EXCEPT !.pc = "readLeadId", !.lead = client[b].lead, !.client = b])
    /\ UNCHANGED db

\* delete selects the row's lead_id: sqlite3 opens the transaction only at the
\* first DELETE that follows.
ReadLeadId(w) ==
    /\ req[w].pc = "readLeadId"
    /\ Become(w, [req[w] EXCEPT
                    !.pc = "delete",
                    !.lead = IF LiveClient(req[w].client) THEN client[req[w].client].lead ELSE Null])
    /\ UNCHANGED db

\* Deviation: only the party's own row and its contacts go.
DeleteParty_KeepsRows(w) ==
    LET b == req[w].client
        l == req[w].lead
    IN  /\ req[w].pc = "delete"
        /\ client' = [client EXCEPT ![b] = [state |-> "deleted", lead |-> Null]]
        /\ contacts' = {r \in contacts : r.parent # b}
        /\ lead' = IF l = Null THEN lead
                   ELSE [lead EXCEPT ![l] = [state |-> "live", client |-> Null]]
        /\ Finish(w)
        /\ UNCHANGED attached

\* Deviation: the lead stays marked.
DeleteParty_LeadStays(w) ==
    LET b == req[w].client
    IN  /\ req[w].pc = "delete"
        /\ client' = [client EXCEPT ![b] = [state |-> "deleted", lead |-> Null]]
        /\ contacts' = {r \in contacts : r.parent # b}
        /\ attached' = attached \ {b}
        /\ Finish(w)
        /\ UNCHANGED lead

\* The rest, in one transaction: what hangs off the buyer, the buyer, and the
\* lead put back to un-converted.
DeleteParty(w) ==
    LET b == req[w].client
        l == req[w].lead
    IN  /\ req[w].pc = "delete"
        /\ client' = [client EXCEPT ![b] = [state |-> "deleted", lead |-> Null]]
        /\ contacts' = {r \in contacts : r.parent # b}
        /\ attached' = attached \ {b}
        /\ lead' = IF l = Null THEN lead
                   ELSE [lead EXCEPT ![l] = [state |-> "live", client |-> Null]]
        /\ Finish(w)

\* A worker killed or timed out, or an error: the rest never happens.
Abort(w) ==
    /\ req[w].pc # "idle"
    /\ Finish(w)
    /\ UNCHANGED db

Start(w) ==
    \/ StartLead(w) \/ StartBuyer(w)
    \/ \E l \in LeadIds : StartConvert(w, l)
    \/ \E b \in BuyerIds : StartDelete(w, b)
    \/ \E l \in LeadIds \union {Null}, b \in BuyerIds \union {Null} :
         StartAdd(w, l, b) \/ StartSetPrimary(w, l, b)
Insert(w) == InsertLead(w) \/ InsertBuyer(w) \/ AddCard(w)
Convert(w) == ReadContacts(w) \/ ConvertFromLead(w) \/ SeedSupplier(w)
Touch(w) == AddContact(w) \/ Attach(w) \/ SetPrimary(w)
Delete(w) == ReadLeadId(w) \/ DeleteParty(w)

LeadNext == \E w \in Workers : Start(w) \/ Insert(w) \/ Convert(w) \/ Touch(w) \/ Delete(w) \/ Abort(w)

LeadSpec == LeadInit /\ [][LeadNext]_leadVars
-----------------------------------------------------------------------------
(* Properties.                                                             *)

\* Whatever requests race, a lead marked as converted names a client that exists
\* and that names the lead: its "view client" link never dangles.
ConvertedClientLives ==
    \A l \in LeadIds : lead[l].client # Null =>
        LiveClient(lead[l].client) /\ client[lead[l].client].lead = l

\* A client that came from a lead is the one its lead was converted to: no lead
\* has two, and a lead put back to un-converted has none.
ClientsAreTheirLeads ==
    \A c \in ClientIds : LiveClient(c) /\ client[c].lead # Null =>
        lead[client[c].lead].client = c

\* Deleting a buyer leaves nothing hanging off it (SqlitePartyRepository.delete:
\* "so a half-deleted party can never be left behind").
NothingLeftBehind ==
    /\ \A r \in contacts : LiveLead(r.parent) \/ LiveClient(r.parent)
    /\ \A b \in attached : LiveClient(b)

\* ContactRepository.set_primary: "so there's always at most one primary".
AtMostOnePrimary ==
    \A r, s \in contacts : r.parent = s.parent /\ r.primary /\ s.primary => r = s

\* convert_from_lead "copies every lead contact person across": what it copies is
\* what the lead has at that moment, not what it had when it was read.
ContactsCopied ==
    [][\A w \in Workers, b \in BuyerIds :
        (ConvertFromLead(w) /\ client[b].state = "unused" /\ client'[b].state = "live") =>
            {r \in contacts' : r.parent = b} = RowsFor(b, CardsOf(req[w].lead))]_leadVars
=============================================================================
