---------------------------- MODULE MasterData ----------------------------
(***************************************************************************)
(* The records around the documents: our company, suppliers, hauliers,     *)
(* bookings, platform logins, permits, the drop lists; and the files that  *)
(* permits, purchase invoices and export invoices carry.  A record is a    *)
(* row and the rows of its lists, each rewritten in a transaction of its   *)
(* own; what differs from service to service is how many there are, in     *)
(* which folder its files lie, and when a replaced file is removed.        *)
(***************************************************************************)
EXTENDS Uploads

CONSTANTS
    Lists,      \* the drop lists in use, of DropLists
    Names,      \* names an entry of a drop list may have
    Fold        \* name -> the name as COLLATE NOCASE compares it
ASSUME ListsAssumption == Lists \subseteq DropLists
\* The services refuse an entry without a name.
ASSUME NamesAssumption == "" \notin Names

\* lists: the tables rewritten after the row.
CompanyService == [kind |-> "company", lists |-> 5]
SupplierService == [kind |-> "supplier", lists |-> 3, deletes |-> FALSE]
TransporterService == [kind |-> "transporter", lists |-> 1, deletes |-> TRUE]
BookingDetailService == [kind |-> "booking", lists |-> 2, deletes |-> TRUE]
PlatformLoginService == [kind |-> "login", lists |-> 0, deletes |-> TRUE]
Directories == {SupplierService, TransporterService, BookingDetailService, PlatformLoginService}

\* tree: where the files lie; files: the columns that name one; removed: those
\* whose file a delete of the record removes.
PermitService == [kind |-> "permit", tree |-> "permits", files |-> 1, removed |-> {1}]
PurchaseInvoiceFiles ==
    [kind |-> "purchase invoice", tree |-> "purchase_invoices", files |-> 1, removed |-> {1}]
\* The shipping bill, and the bill of lading of its packing list.
ExportInvoiceFiles ==
    [kind |-> "export invoice", tree |-> "export_invoices", files |-> 2, removed |-> {1}]
Carriers == {PermitService, PurchaseInvoiceFiles, ExportInvoiceFiles}

-----------------------------------------------------------------------------
(* Records of a row and its lists.                                         *)

UpdateRow(id, files, head, text) ==
    <<[do |-> "update", id |-> id, up |-> Same, files |-> files, text |-> text, head |-> head]>>
\* Deviation: the list added last is forgotten.
ReplaceLists_NotTheLast(s, id) ==
    [k \in 1..(IF s.lists < 2 THEN s.lists ELSE s.lists - 1) |->
        [do |-> "replace", id |-> id, part |-> k + 1, with |-> served + 1, text |-> AsIs]]
\* replace_*: every list is deleted and written again as the form has it.
ReplaceLists(s, id) ==
    [k \in 1..s.lists |->
        [do |-> "replace", id |-> id, part |-> k + 1, with |-> served + 1, text |-> AsIs]]

CreateRecord(w) ==
    \E s \in Directories :
        Begin(w, "create", s.kind, None,
              <<[do |-> "insert", row |-> Row(s.kind, None, None, <<>>, s.lists, "")]>>
                  \o ReplaceLists(s, None))
UpdateRecord(w) ==
    \E s \in Directories : \E r \in OfKind(s.kind) :
        Begin(w, "update", s.kind, r, UpdateRow(r, <<>>, TRUE, AsIs) \o ReplaceLists(s, r))
DeleteRecord(w) ==
    \E s \in Directories : \E r \in OfKind(s.kind) :
        s.deletes /\ Begin(w, "delete", s.kind, r, Deletion(s.kind, r))

\* Deviation: the old logo is removed before the row names the new one.
SaveCompany_RemoveFirst(w) ==
    \E r \in OfKind("company") :
        LET old == rows[r].files[1] IN
        Begin(w, "update", "company", r,
              UpdateRow(r, <<Keep>>, TRUE, AsIs) \o ReplaceLists(CompanyService, r)
              \o Removal(old) \o Store("products", Logo, "file")
              \o UpdateRow(r, <<Fresh("products", Logo)>>, FALSE, AsIs))
\* CompanyService.save: the row and its lists first, then the logo, whose old
\* file is removed when the row names the new one.  A logo of a wrong type is
\* refused only then.
SaveCompany(w) ==
    \E r \in OfKind("company"), logo \in {"none", "file", "wrong type", "remove"} :
        LET old == rows[r].files[1] IN
        Begin(w, "update", "company", r,
              UpdateRow(r, <<Keep>>, TRUE, AsIs) \o ReplaceLists(CompanyService, r)
              \o Store("products", Logo, logo)
              \o CASE logo = "file" -> UpdateRow(r, <<Fresh("products", Logo)>>, FALSE, AsIs) \o Removal(old)
                   [] logo = "remove" /\ old # NoFile -> UpdateRow(r, <<NoFile>>, FALSE, AsIs) \o Removal(old)
                   [] OTHER -> <<>>)

-----------------------------------------------------------------------------
(* Records that carry files: save, remove the old one, write the row.      *)

CreateCarrier(w) ==
    \E s \in Carriers, chosen \in {"none", "file", "wrong type"} :
        LET files == [k \in 1..s.files |->
                         IF k = 1 /\ chosen = "file" THEN Fresh(s.tree, 1) ELSE NoFile]
        IN  Begin(w, "create", s.kind, None,
                  Store(s.tree, 1, chosen)
                      \o <<[do |-> "insert", row |-> Row(s.kind, None, None, files, 0, "")]>>)

\* Deviation: the file that is replaced stays.
UpdateCarrier_Leaves(w) ==
    \E s \in Carriers : \E r \in OfKind(s.kind), slot \in 1..s.files :
        Begin(w, "update", s.kind, r,
              Store(s.tree, slot, "file")
              \o UpdateRow(r, [k \in 1..s.files |-> IF k = slot THEN Fresh(s.tree, slot) ELSE Keep], TRUE, AsIs))
\* update of the first file's form, update_packing_list_details of the second's:
\* a form that chooses no file writes back the path that was read.
UpdateCarrier(w) ==
    \E s \in Carriers : \E r \in OfKind(s.kind), slot \in 1..s.files,
                           chosen \in {"none", "file", "wrong type", "remove"} :
        LET old == rows[r].files[slot]
            new == CASE chosen = "file" -> Fresh(s.tree, slot) [] chosen = "remove" -> NoFile [] OTHER -> old
        IN  Begin(w, "update", s.kind, r,
                  Store(s.tree, slot, chosen)
                  \o (IF chosen \in {"file", "remove"} THEN Removal(old) ELSE <<>>)
                  \o UpdateRow(r, [k \in 1..s.files |-> IF k = slot THEN new ELSE Keep], TRUE, AsIs))

DeleteCarrier(w) ==
    \E s \in Carriers : \E r \in OfKind(s.kind) :
        Begin(w, "delete", s.kind, r,
              Removal(rows[r].files[1]) \o Deletion(s.kind, r))

-----------------------------------------------------------------------------
(* Drop lists: a name is looked up before it is written.                   *)

\* Deviation: names are compared letter by letter.
FindByName_Exact(kind, name) == {i \in OfKind(kind) : rows[i].text = name}
\* find_by_name ... COLLATE NOCASE; the table's UNIQUE compares exactly.
FindByName(kind, name) == {i \in OfKind(kind) : Fold[rows[i].text] = Fold[name]}

CreateEntry(w) ==
    \E list \in Lists, name \in Names :
        /\ FindByName(list, name) = {}
        /\ Begin(w, "create", list, None,
                 <<[do |-> "insert", row |-> Row(list, None, None, <<>>, 0, name)]>>)
UpdateEntry(w) ==
    \E list \in Lists : \E e \in OfKind(list), name \in Names :
        /\ FindByName(list, name) \subseteq {e}
        /\ Begin(w, "update", list, e, UpdateRow(e, <<>>, TRUE, name))
DeleteEntry(w) ==
    \E list \in Lists : \E e \in OfKind(list) :
        Begin(w, "delete", list, e, Deletion(list, e))
EntryRequest(w) == CreateEntry(w) \/ UpdateEntry(w) \/ DeleteEntry(w)

MasterDataRequest(w) ==
    \/ CreateRecord(w) \/ UpdateRecord(w) \/ DeleteRecord(w) \/ SaveCompany(w)
    \/ CreateCarrier(w) \/ UpdateCarrier(w) \/ DeleteCarrier(w)
    \/ EntryRequest(w)
=============================================================================
