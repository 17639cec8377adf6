----------------------------- MODULE DepthFeed -----------------------------
(***************************************************************************)
(* What the order-book half of MarketDataEngine promises to those who read *)
(* its books and its published snapshots, whatever its tasks do: for each  *)
(* symbol a view that is either hidden or the exchange's book at some id,  *)
(* and a series of tops of the book, each of them that of the view at the  *)
(* moment it is handed on, at ever later ids.  BookSync implements it.     *)
(***************************************************************************)
EXTENDS Integers

CONSTANTS
    Symbols,
    Ids,       \* the update ids
    Market,    \* Market[s][i]: the exchange's book of s at id i
    Tops,      \* Tops[s][i]: the reduced snapshot of that book
    None

VARIABLES
    view,      \* the book that is shown, its id and its levels: one or none
    published, \* None, or the last snapshot handed on
    serving    \* whether the engine has not stopped

vars == <<view, published, serving>>

At(s, i) == [id |-> i, levels |-> Market[s][i]]

Init ==
    /\ view = [s \in Symbols |-> {}]
    /\ published = [s \in Symbols |-> None]
    /\ serving = TRUE

\* A book is shown at any id once it is synchronised, and then moves on.
Show(s) ==
    /\ \E i \in Ids :
         /\ \A shown \in view[s] : i > shown.id
         /\ view' = [view EXCEPT ![s] = {At(s, i)}]
    /\ UNCHANGED published

\* Books are hidden: a gap, a lost connection.
Hide ==
    /\ \E hidden \in SUBSET Symbols :
         view' = [s \in Symbols |-> IF s \in hidden THEN {} ELSE view[s]]
    /\ UNCHANGED published

\* The top of the view is handed on, once at most, and never after a later one.
Publish(s) ==
    /\ \E shown \in view[s] :
         /\ published[s] # None => published[s].lastId < shown.id
         /\ published' = [published EXCEPT ![s] = Tops[s][shown.id]]
    /\ UNCHANGED view

Serve == (Hide \/ \E s \in Symbols : Show(s) \/ Publish(s)) /\ UNCHANGED serving

Close == serving' = FALSE /\ UNCHANGED <<view, published>>

Next == serving /\ (Serve \/ Close)

Spec == Init /\ [][Next]_vars
=============================================================================
