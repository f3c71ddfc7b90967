------------------------------ MODULE Ownership ------------------------------
(***************************************************************************)
(* What the registry promises about top-level declarations, seen through   *)
(* the owner of each key alone (spec 7.2.2, 7.6).  A key is free until     *)
(* somebody claims it; a claimed key is never freed, changes hands only by *)
(* being superseded whole, and a sealed one never changes at all.          *)
(***************************************************************************)
CONSTANTS Keys, Owners, Free

VARIABLE owned

Holding == [owner : Owners, sealed : BOOLEAN]

Init == owned = [k \in Keys |-> Free]

\* Key k gets a new holder and every other key keeps its own.
Take(k) ==
    /\ owned'[k] \in Holding
    /\ owned' = [owned EXCEPT ![k] = owned'[k]]

Claim(k) == owned[k] = Free /\ Take(k)

Supersede(k) == owned[k] # Free /\ ~owned[k].sealed /\ Take(k)

Next == \E k \in Keys : Claim(k) \/ Supersede(k)

Spec == Init /\ [][Next]_owned
=============================================================================
