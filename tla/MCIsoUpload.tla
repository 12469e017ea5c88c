----------------------------- MODULE MCIsoUpload -----------------------------
(***************************************************************************)
(* Instances of IsoUpload: three requests, of which two stage the same     *)
(* file on one client; the third differs by the run.                       *)
(***************************************************************************)
EXTENDS IsoUploadRefinement, TLC

CONSTANTS r1, r2, r3, c1, c2, p1, p2

\* Three Ironic retries of one file, or two and a request for another one.
SamePath == [r \in {r1, r2, r3} |-> p1]
SameClient == [r \in {r1, r2, r3} |-> c1]
ThirdOnSecondPath == [r \in {r1, r2, r3} |-> IF r = r3 THEN p2 ELSE p1]

\* The two requests for one file are alike.
SamePathRetries == Permutations({r1, r2})
=============================================================================
