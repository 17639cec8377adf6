----------------------------- MODULE BookSyncMC -----------------------------
(* Values of BookSync's constants for TLC. *)
EXTENDS BookSync

\* A tape for the first symbol: a bid level appears (1), becomes an ask
\* level (2), a quantity changes (3), an ask disappears (4), a bid returns (5).
Tape(side, price, i) ==
    CASE <<side, price>> = <<"bid", 1>> -> IF i < 3 THEN 1 ELSE 2
      [] <<side, price>> = <<"bid", 2>> -> IF i \in {1, 5} THEN 1 ELSE 0
      [] <<side, price>> = <<"ask", 2>> -> IF i \in {2, 3} THEN 1 ELSE 0
      [] <<side, price>> = <<"ask", 3>> -> 1
      [] OTHER -> 0

MCMarket == [s \in Symbols |-> [i \in Ids |-> [k \in Slots |-> Tape(k[1], k[2], i)]]]

\* REST replies with every level, or with the best of each side only.
MCListedAll == [s \in Symbols |-> [i \in Ids |-> Slots]]
MCListedBest ==
    [s \in Symbols |-> [i \in Ids |->
        {k \in Slots : \A q \in Prices : Better(k[1], q, k[2]) => Tape(k[1], q, i) = 0}]]
=============================================================================
