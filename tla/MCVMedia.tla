------------------------------ MODULE MCVMedia ------------------------------
(***************************************************************************)
(* Instances of VMedia: which requests meet on the VM is up to the run.    *)
(***************************************************************************)
EXTENDS VMedia

CONSTANTS i1, i2, x, A, B

\* An insert of A; a retry of it or an insert of B; and an eject or another retry.
MediaOps      == {i1, i2, x}
MediaRequests == [o \in MediaOps |-> IF o = x THEN {"eject", "insert"} ELSE {"insert"}]
MediaSources  == [o \in MediaOps |-> IF o = i2 THEN {A, B} ELSE {A}]

\* An insert, an eject, and any power or boot request.
MixRequests == [o \in MediaOps |-> CASE o = i1 -> {"insert"}
                                      [] o = i2 -> {"eject"}
                                      [] o = x -> {"on", "off", "restart", "bootCD", "bootDisk"}]
MixSources  == [o \in MediaOps |-> {A}]
=============================================================================
