----------------------------- MODULE Catalogue -----------------------------
(***************************************************************************)
(* ProductService: categories nested in one another, products in them, in  *)
(* a product folders nested in one another, and designs with up to two     *)
(* images.  A copied design names the images of its original, so an image  *)
(* is removed only when, after the row is gone, no design names it.        *)
(***************************************************************************)
EXTENDS Uploads

CONSTANTS
    Levels      \* what a packing type of a product may be: "pallet", "carton"
ASSUME LevelsAssumption == AsIs \notin Levels

Categories == OfKind("category")
Products == OfKind("product")
Folders == OfKind("folder")
Designs == OfKind("design")

\* What a form may come with: at most two images, in the order they are saved.
Uploaded == {<<"file", "none">>, <<"none", "file">>, <<"file", "wrong type">>, <<"none", "none">>}
Images(chosen) == Store("products", 1, chosen[1]) \o Store("products", 2, chosen[2])
Paths(chosen, otherwise) ==
    [k \in 1..2 |-> IF chosen[k] = "file" THEN Fresh("products", k) ELSE otherwise]

\* _delete_image_file of each path in turn: count, then remove.
Unlinks(paths) == ForEach("count", paths \ {NoFile})

ImagesOf(designs) == UNION {{rows[d].files[k] : k \in 1..2} : d \in designs}

Edit(id, up, files, text) ==
    <<[do |-> "update", id |-> id, up |-> up, files |-> files, text |-> text, head |-> TRUE]>>
Pallets(id, with, level) == <<[do |-> "replace", id |-> id, part |-> 2, with |-> with, text |-> level]>>

-----------------------------------------------------------------------------
(* Categories.                                                             *)

CreateCategory(w) ==
    \E parent \in Categories \union {None} :
        Begin(w, "create", "category", None,
              <<[do |-> "insert", row |-> Row("category", parent, None, <<>>, 0, "")]>>)

\* rename_category, rename_folder.
Rename(w) ==
    \E i \in Categories \union Folders :
        Begin(w, "update", rows[i].kind, i, Edit(i, Same, <<>>, AsIs))

\* The category and every category under it, at any depth.
Descendants(c) == Below(c, {<<i, rows[i].up>> : i \in Categories})

\* Each product in any of them is deleted as by itself, then the category.
DeleteCategory(w) ==
    \E c \in Categories :
        Begin(w, "delete", "category", c,
              ForEach("list", Descendants(c)) \o Deletion("category", c))

\* list_in_category: read when its turn comes.
ListProducts(w) ==
    /\ At(w, "list")
    /\ \E c \in NextCall(w).each :
          Go(w, ForEach("open", {p \in Products : rows[p].up = c})
                    \o ForEach("list", NextCall(w).each \ {c}) \o Tail(job[w].todo))
    /\ UNCHANGED <<rows, nextId, disk, served, kills>>

-----------------------------------------------------------------------------
(* Products.                                                               *)

CreateProduct(w) ==
    \E c \in Categories \union {None} : \E level \in Levels \union {"none"} :
        Begin(w, "create", "product", None,
              <<[do |-> "insert", row |-> Row("product", c, None, <<>>, 1, "")]>>
                  \o IF level = "none" THEN <<>> ELSE Pallets(None, served + 1, level))

\* The level the edit page shows a packing type to be of: it leaves the stored
\* one out of the rows it hands to the form, and the form shows "pallet".
Shown(level) == IF level = "" THEN "" ELSE "pallet"

\* A level the user does not touch is saved as it is shown.
UpdateProduct(w) ==
    \E p \in Products, c \in Categories \union {None} :
    \E level \in {Shown(rows[p].text)} \union IF rows[p].text = "" THEN {} ELSE Levels :
        Begin(w, "update", "product", p,
              Edit(p, c, <<>>, AsIs) \o Pallets(p, IF level = "" THEN None ELSE served + 1, level))

DuplicateProduct(w) ==
    \E p \in Products :
        Begin(w, "duplicate", "product", None,
              <<[do |-> "insert", row |-> [Row("product", rows[p].up, None, <<>>, 1, "")
                                              EXCEPT !.parts[1] = rows[p].parts[1]]],
                [do |-> "copy", product |-> p]>>)

\* Deviation: the packing types stay with the original.
CopyPallets_Not(w) ==
    /\ At(w, "copy")
    /\ Pop(w)
    /\ UNCHANGED <<rows, nextId, disk, served, kills>>
\* The packing types of the original, read once the copy is inserted.
CopyPallets(w) ==
    /\ At(w, "copy")
    /\ LET p == NextCall(w).product IN
       Go(w, (IF p \notin Products \/ rows[p].parts[2] = None THEN <<>>
              ELSE Pallets(None, rows[p].parts[2], rows[p].text)) \o Tail(job[w].todo))
    /\ UNCHANGED <<rows, nextId, disk, served, kills>>

DeleteProduct(w) ==
    \E p \in Products : Begin(w, "delete", "product", p, ForEach("open", {p}))

\* delete_product: it must still be there; then the images of all its designs
\* are noted, the row is deleted, and they are removed.
OpenProduct(w) ==
    /\ At(w, "open")
    /\ \E p \in NextCall(w).each :
          IF p \notin Products THEN Fail(w)
          ELSE Go(w, Deletion("product", p) \o Unlinks(ImagesOf({d \in Designs : rows[d].up = p}))
                         \o ForEach("open", NextCall(w).each \ {p}) \o Tail(job[w].todo))
    /\ UNCHANGED <<rows, nextId, disk, served, kills>>

-----------------------------------------------------------------------------
(* Folders.                                                                *)

\* The folders a page of the product offers.
FoldersOf(p) == {f \in Folders : rows[f].up = p}

CreateFolder(w) ==
    \E p \in Products : \E parent \in FoldersOf(p) \union {None} :
        Begin(w, "create", "folder", None,
              <<[do |-> "insert", row |-> Row("folder", p, parent, <<>>, 0, "")]>>)

\* Deviation: the folders in the folder are left out.
FolderImagePaths_TopOnly(p, f) ==
    ImagesOf({d \in Designs : rows[d].up = p /\ rows[d].side = f})
\* _folder_image_paths: down the folders of the product, each with its designs.
FolderImagePaths(p, f) ==
    LET folders == Below(f, {<<i, rows[i].side>> : i \in FoldersOf(p)})
    IN  ImagesOf({d \in Designs : rows[d].up = p /\ rows[d].side \in folders})

DeleteFolder(w) ==
    \E f \in Folders :
        Begin(w, "delete", "folder", f,
              Deletion("folder", f) \o Unlinks(FolderImagePaths(rows[f].up, f)))

-----------------------------------------------------------------------------
(* Designs.                                                                *)

CreateDesign(w) ==
    \E p \in Products : \E f \in FoldersOf(p) \union {None} : \E chosen \in Uploaded :
        Begin(w, "create", "design", None,
              Images(chosen) \o
              <<[do |-> "insert", row |-> Row("design", p, f, Paths(chosen, NoFile), 0, "")]>>)

\* Into any product of the company, with the images of the original.
DuplicateDesign(w) ==
    \E d \in Designs, p \in Products : \E f \in FoldersOf(p) \union {None} :
        Begin(w, "duplicate", "design", None,
              <<[do |-> "insert", row |-> [rows[d] EXCEPT !.up = p, !.side = f]]>>)

UpdateDesign(w) ==
    \E d \in Designs, chosen \in Uploaded :
        Begin(w, "update", "design", d,
              Images(chosen) \o Edit(d, Same, Paths(chosen, Keep), AsIs)
                  \o Unlinks({rows[d].files[k] : k \in {n \in 1..2 : chosen[n] = "file"}}))

\* Deviation: the images are counted while the row still names them.
DeleteDesign_UnlinkFirst(w) ==
    \E d \in Designs :
        Begin(w, "delete", "design", d, Unlinks(ImagesOf({d})) \o Deletion("design", d))
DeleteDesign(w) ==
    \E d \in Designs :
        Begin(w, "delete", "design", d, Deletion("design", d) \o Unlinks(ImagesOf({d})))

\* Deviation: only the column of the photograph is counted.
References_Photo(file) == {d \in Designs : rows[d].files[1] = file}
\* Deviation: an image is removed without a look at the other designs.
References_Uncounted(file) == {}
\* count_by_photo_path: over both columns of every design.
References(file) == {d \in Designs : \E k \in 1..2 : rows[d].files[k] = file}
Count(w) ==
    /\ At(w, "count")
    /\ \E file \in NextCall(w).each :
          Go(w, (IF References(file) = {} THEN Removal(file) ELSE <<>>)
                    \o ForEach("count", NextCall(w).each \ {file}) \o Tail(job[w].todo))
    /\ UNCHANGED <<rows, nextId, disk, served, kills>>

CatalogueRequest(w) ==
    \/ CreateCategory(w) \/ Rename(w) \/ DeleteCategory(w)
    \/ CreateProduct(w) \/ UpdateProduct(w) \/ DuplicateProduct(w) \/ DeleteProduct(w)
    \/ CreateFolder(w) \/ DeleteFolder(w)
    \/ CreateDesign(w) \/ DuplicateDesign(w) \/ UpdateDesign(w) \/ DeleteDesign(w)
CatalogueCall(w) == ListProducts(w) \/ CopyPallets(w) \/ OpenProduct(w) \/ Count(w)
=============================================================================
