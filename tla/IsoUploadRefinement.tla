------------------------ MODULE IsoUploadRefinement ------------------------
(***************************************************************************)
(* uploadISOIfNeeded implements a single-flight table keyed by the client  *)
(* and the datastore path.  A leader is listed from its registration under *)
(* uploadMu until the deferred delete, and decides when it closes done.    *)
(***************************************************************************)
EXTENDS IsoUpload

RoleOf(label) ==
  CASE label \in {"idle", "stat", "register"} -> "out"
    [] label \in Open -> "lead"
    [] label = "forget" -> "landed"
    [] label = "wait" -> "follow"
    [] label = "done" -> "done"
    [] label = "dead" -> "dead"

ResultOf(r) ==
  IF pc[r] \notin {"forget", "done"} THEN "none"
  ELSE CASE outcome[r] = "failed" -> "err"
         [] outcome[r] = "panicked" -> "broken"
         [] OTHER -> "ok"

KeyMap    == [r \in Reqs |-> Key(r)]
RoleMap   == [r \in Reqs |-> RoleOf(pc[r])]
ResultMap == [r \in Reqs |-> ResultOf(r)]

Table == INSTANCE SingleFlight WITH
           Callers <- Reqs, KeyOf <- KeyMap, Nobody <- NoReq,
           role <- RoleMap, leader <- waitsOn, result <- ResultMap

\* Every behaviour of the uploads is one of a single-flight table: one leader
\* per key, followers that return its error or success (success too if it
\* panicked), through cancellations, panics and restarts.
ImplementsSingleFlight == Table!Spec
=============================================================================
