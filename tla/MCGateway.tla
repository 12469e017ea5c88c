------------------------------- MODULE MCGateway -------------------------------
(***************************************************************************)
(* Two requests, one VM and two vCenters.  The store begins with the VM    *)
(* mapped and dry-run off; two changes follow at any time, which is enough *)
(* to edit a vCenter and undo it, to switch dry-run on and move the        *)
(* mapping, or to delete one vCenter and create another around a request.  *)
(***************************************************************************)
EXTENDS Gateway, TLC

MCInit ==
  /\ Init
  /\ ~global /\ \A i \in Ids : ~dryRun[i]
  /\ \A u \in Uuids : mapping[u] # None

MCSpec == MCInit /\ [][Next]_vars

Symmetric ==
  Permutations(Ids) \cup Permutations(Endpoints) \cup Permutations(Requests) \cup Permutations(Clients)
=============================================================================
