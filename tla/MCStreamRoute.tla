--------------------------- MODULE MCStreamRoute ---------------------------
(* One visitor's requests, all in one bucket unless the hour turns. *)
EXTENDS StreamRoute, TLC

CONSTANTS visitor, r1, r2, r3

MCRequests == {r1, r2, r3}
MCClients  == {visitor}
MCClientOf == [r \in MCRequests |-> visitor]

\* No action and no property tells one request of the visitor from another.
MCSymmetry == Permutations(MCRequests)
=============================================================================
