----------------------------- MODULE DocumentBook -----------------------------
(***************************************************************************)
(* What the document services promise of the book of documents, whatever   *)
(* the requests do in parallel: a document is issued once, under a fresh   *)
(* id; a minted number stays with it until it is withdrawn; and its        *)
(* history only grows, one version at a time, each under the next number   *)
(* (DocumentVersionService: "editing a quotation/PI/packing list never     *)
(* mints a new document number, it just adds a version").                  *)
(***************************************************************************)
EXTENDS Integers, Sequences

CONSTANT TypedKinds     \* kinds whose number is typed, and may be typed anew

VARIABLES
    last,       \* the last id issued
    title,      \* id of a document in the book -> its kind and number
    history     \* id issued -> sequence of the snapshots recorded of it

bookVars == <<last, title, history>>

BookInit ==
    /\ last \in Nat
    /\ DOMAIN title \subseteq 1..last
    /\ DOMAIN history = 1..last

\* The entry of a new document; those of the others stay.
Issue ==
    /\ last' = last + 1
    /\ DOMAIN title' = DOMAIN title \union {last'}
    /\ \A d \in DOMAIN title : title'[d] = title[d]
    /\ history' = Append(history, <<>>)

Retitle(d) ==
    /\ title[d].kind \in TypedKinds
    /\ DOMAIN title' = DOMAIN title
    /\ title' = [title EXCEPT ![d].no = title'[d].no]
    /\ UNCHANGED <<last, history>>

\* A version may still be recorded of a document that has just been withdrawn.
Record(d) ==
    /\ Len(history'[d]) = Len(history[d]) + 1
    /\ history' = [history EXCEPT ![d] = Append(@, history'[d][Len(history'[d])])]
    /\ UNCHANGED <<last, title>>

Withdraw ==
    /\ DOMAIN title' \subseteq DOMAIN title
    /\ title' = [d \in DOMAIN title' |-> title[d]]
    /\ UNCHANGED <<last, history>>

BookNext ==
    \/ Issue
    \/ Withdraw
    \/ \E d \in DOMAIN title : Retitle(d)
    \/ \E d \in DOMAIN history : Record(d)

BookSpec == BookInit /\ [][BookNext]_bookVars
===============================================================================
