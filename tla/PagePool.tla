------------------------------ MODULE PagePool ------------------------------
(***************************************************************************)
(* What a page frame allocator promises its callers: a pool that is filled *)
(* once, out of which a holder is given pages nobody else has, and to      *)
(* which a holder returns what it was given.  Nothing is said of which     *)
(* pages are given, and a request may only be refused by doing nothing.    *)
(***************************************************************************)
CONSTANTS Holders, Pages

VARIABLES
    open,   \* has the pool been filled?
    free,   \* the pages of the pool nobody holds
    owned   \* owned[h] is the set of pages holder h has

vars == <<open, free, owned>>

TypeOK ==
    /\ open \in BOOLEAN
    /\ free \subseteq Pages
    /\ owned \in [Holders -> SUBSET Pages]

Init ==
    /\ open = FALSE
    /\ free = {}
    /\ owned = [h \in Holders |-> {}]

Fill(pages) ==
    /\ ~open
    /\ open' = TRUE
    /\ free' = pages
    /\ UNCHANGED owned

Take(h, pages) ==
    /\ open
    /\ owned[h] = {}
    /\ pages \subseteq free
    /\ free' = free \ pages
    /\ owned' = [owned EXCEPT ![h] = pages]
    /\ UNCHANGED open

Return(h) ==
    /\ open
    /\ free' = free \cup owned[h]
    /\ owned' = [owned EXCEPT ![h] = {}]
    /\ UNCHANGED open

Next ==
    \/ \E pages \in SUBSET Pages : Fill(pages)
    \/ \E h \in Holders, pages \in SUBSET Pages : Take(h, pages)
    \/ \E h \in Holders : Return(h)

Spec == Init /\ [][Next]_vars
=============================================================================
