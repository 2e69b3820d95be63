---------------------------- MODULE SingleFlight ----------------------------
(***************************************************************************)
(* What the generation registry promises its callers, with no registry in  *)
(* sight: at any time a session has at most one request that may drive it, *)
(* a newer request takes the session over at once, and a request that lost *)
(* the session, however it lost it, never drives it again.                 *)
(***************************************************************************)
CONSTANTS Sessions, Requests, Nobody

VARIABLES owner,   \* the request that drives the session, or Nobody
          begun    \* the requests that have driven a session

vars == <<owner, begun>>

Init == /\ owner = [s \in Sessions |-> Nobody]
        /\ begun = {}

(* A request takes the session over, whoever drives it. *)
Begin(r, s) == /\ r \notin begun
               /\ owner' = [owner EXCEPT ![s] = r]
               /\ begun' = begun \cup {r}

(* The driver of the session is done, stopped, cut or gone. *)
End(s) == /\ owner[s] # Nobody
          /\ owner' = [owner EXCEPT ![s] = Nobody]
          /\ UNCHANGED begun

Next == \E s \in Sessions : \/ \E r \in Requests : Begin(r, s)
                            \/ End(s)

Spec == Init /\ [][Next]_vars
=============================================================================
