------------------------------ MODULE MCVCSync ------------------------------
(***************************************************************************)
(* Instances of VCSync: two vCenters of one name, two requests.            *)
(***************************************************************************)
EXTENDS VCSync, TLC

\* Nothing tells one request, or one vCenter id, from another.
Interchangeable == Permutations(Reqs) \cup Permutations(Ids)
=============================================================================
