------------------------------- MODULE MCCaches -------------------------------
(***************************************************************************)
(* The seven parts of Caches on small instances:                           *)
(*   tokens     two requests with one bearer token                         *)
(*   clients    two requests, one per-client password and the shared one   *)
(*   lookup     two requests for one UUID, one VM                          *)
(*   activity   two emitters, two channels, a ring of three events,        *)
(*              two requests of the page under way                         *)
(*   download   three requests for one image of two chunks, one restart    *)
(*   probe      one diagnostic                                             *)
(*   store      two vCenters, one ConfigMap, one mapped VM                 *)
(***************************************************************************)
EXTENDS Caches, TLC

\* Requests are interchangeable.
Symmetric == Permutations(Requests)
=============================================================================
