------------------------------ MODULE MCBackup ------------------------------
(***************************************************************************)
(* A small company for TLC: a category in a category; a product with       *)
(* packing types of cartons, two folders in each other and a design with   *)
(* two images in the inner one; another product, with a copy of the        *)
(* design; and one record of each kind that carries files.                 *)
(***************************************************************************)
EXTENDS Backup, TLC

F(tree, k, slot) == [tree |-> tree, n |-> 0 - k, slot |-> slot]
Held(kind, up, side, files, lists, text) ==
    [kind |-> kind, up |-> up, side |-> side, files |-> files, text |-> text, odd |-> FALSE,
     parts |-> [k \in 1..lists + 1 |-> 9]]

MCStored ==
    <<Held("category", 0, 0, <<>>, 0, ""), Held("category", 1, 0, <<>>, 0, ""),
      Held("product", 2, 0, <<>>, 1, "carton"),
      Held("folder", 3, 0, <<>>, 0, ""), Held("folder", 3, 4, <<>>, 0, ""),
      Held("design", 3, 5, <<F("products", 1, 1), F("products", 2, 2)>>, 0, ""),
      Held("product", 0, 0, <<>>, 1, "pallet"),
      Held("design", 7, 0, <<F("products", 3, 1), F("products", 2, 2)>>, 0, ""),
      Held("company", 0, 0, <<F("products", 4, Logo)>>, 5, ""),
      Held("permit", 0, 0, <<F("permits", 1, 1)>>, 0, ""),
      Held("export invoice", 0, 0, <<F("export_invoices", 1, 1), F("export_invoices", 2, 2)>>, 0, ""),
      Held("transporter", 0, 0, <<>>, 1, ""),
      Held(MiscCurrency, 0, 0, <<>>, 0, "USD")>>

\* A backup of other days: two records less, other files.
MCEarlier ==
    [rows |-> [i \in {7, 8, 10} |->
                  CASE i = 7 -> Held("product", 0, 0, <<>>, 1, "pallet")
                    [] i = 8 -> Held("design", 7, 0, <<F("products", 5, 1), F("products", 2, 2)>>, 0, "")
                    [] i = 10 -> Held("permit", 0, 0, <<F("permits", 2, 1)>>, 0, "")],
     nextId |-> 12, whole |-> TRUE,
     files |-> {F("products", 2, 2), F("products", 5, 1), F("permits", 2, 1)}]

MCLists == {MiscCurrency}
MCNames == {"USD", "usd"}
MCFold == [n \in MCNames |-> "usd"]
Symmetry == Permutations(Workers)
=============================================================================
