--------------------------------- MODULE Probe ---------------------------------
(***************************************************************************)
(* The diagnostics of internal/vsphere/probe.go that the UI asks for:      *)
(* RunConnectionTest ("test", a checklist), ProbeHealth ("health", lights) *)
(* and MappingStatus ("mapping", the light of one VM).  The first two make *)
(* a client of their own, log in and must log out again, whichever step    *)
(* fails; what failed is told from the text of ensure's error.             *)
(*                                                                         *)
(* Abstractions: every call of vSphere has any outcome; a text is the set  *)
(* of the words the code looks for; a Logout fails only if the request is  *)
(* cancelled (the session ends some day by vCenter's time-out).            *)
(***************************************************************************)
EXTENDS Naturals

VARIABLES
  kind,
  given,     \* which of datastore and folder are set
  words,     \* words that names or texts of vSphere bring into an error
  pc,
  got,       \* the outcome of each step
  checks,    \* test: the rows of the checklist
  light,     \* health: the connection's light; mapping: the VM's
  iso,       \* health: the ISO cache's light
  ok,        \* the overall verdict
  session,   \* a session is open
  cancelled  \* the request's context is done

vars == <<kind, given, words, pc, got, checks, light, iso, ok, session, cancelled>>

Kinds    == {"test", "health", "mapping"}
Rows     == {"endpoint", "login", "datacenter", "datastore", "folder", "iso"}
Steps    == {"endpoint", "login", "datacenter", "datastore", "folder", "file", "dir",
             "find", "info", "cdrom"}
Outcomes == {"none", "ok", "missing", "error"}
Lights   == {"red", "yellow", "green", "blue"}
Marks    == {"none", "ok", "failed", "skipped"}

TypeOK ==
  /\ kind \in Kinds
  /\ given \in SUBSET {"datastore", "folder"}
  /\ words \in SUBSET {"datacenter", "datastore"}
  /\ pc \in {"idle", "verdict", "close", "over"} \cup Steps
  /\ got \in [Steps -> Outcomes]
  /\ checks \in [Rows -> Marks]
  /\ light \in Lights /\ iso \in Lights
  /\ ok \in BOOLEAN /\ session \in BOOLEAN /\ cancelled \in BOOLEAN

Init ==
  /\ kind \in Kinds
  /\ given \in SUBSET {"datastore", "folder"}
  /\ words \in SUBSET {"datacenter", "datastore"}
  /\ pc = "idle"
  /\ got = [s \in Steps |-> "none"]
  /\ checks = [s \in Rows |-> "none"]
  /\ light = "red" /\ iso = "red"
  /\ ok = FALSE
  /\ session = FALSE
  /\ cancelled = FALSE

-----------------------------------------------------------------------------
\* The settings are complete, or the code answers at once: "Settings", red lights.
Begin ==
  /\ pc = "idle"
  /\ pc' = CASE kind = "test"    -> "endpoint"
             [] kind = "health"  -> "login"
             [] kind = "mapping" -> "find"
  /\ UNCHANGED <<kind, given, words, got, checks, light, iso, ok, session, cancelled>>

\* The step at pc ends; the request goes on at another.
Ends(outcome, next) ==
  /\ got' = [got EXCEPT ![pc] = outcome]
  /\ pc' = next
  /\ UNCHANGED <<kind, given, words, cancelled>>

Marked(row, mark) ==
  IF kind = "test" THEN [checks EXCEPT ![row] = mark] ELSE checks

\* probeEndpoint: the API answers without a login.
Endpoint ==
  /\ pc = "endpoint"
  /\ \/ Ends("ok", "login") /\ checks' = Marked("endpoint", "ok")
     \/ /\ Ends("error", "over")
        /\ checks' = [checks EXCEPT !["endpoint"] = "failed", !["login"] = "skipped"]
  /\ UNCHANGED <<light, iso, ok, session>>

\* Mutant: all that goes wrong in ensure is a failed login.
Blamed_LoginOnly(text) == [checks EXCEPT !["login"] = "failed"]

\* The rows for an error of ensure with the given words.
Blamed(text) ==
  IF "datacenter" \in text
  THEN [checks EXCEPT !["login"] = "ok", !["datacenter"] = "failed"]
  ELSE IF "datastore" \in text
  THEN [checks EXCEPT !["login"] = "ok", !["datacenter"] = "ok", !["datastore"] = "failed"]
  ELSE [checks EXCEPT !["login"] = "failed"]

LoggedOut == session /\ cancelled

\* Mutant: the session of a half-made client is forgotten.
EnsureFails_KeepsSession ==
  /\ Ends("error", "over")
  /\ checks' = IF kind = "test" THEN Blamed(words \cup {pc}) ELSE checks
  /\ light' = "yellow" /\ iso' = "yellow"
  /\ UNCHANGED <<ok, session>>

\* ensure logs out and names the step; every such text has a word that turns
\* both lights of the health probe yellow.
EnsureFails ==
  /\ Ends("error", "over")
  /\ session' = LoggedOut
  /\ checks' = IF kind = "test" THEN Blamed(words \cup {pc}) ELSE checks
  /\ light' = "yellow" /\ iso' = "yellow"
  /\ UNCHANGED ok

\* ensure logs in ...
Login ==
  /\ pc = "login"
  /\ \/ Ends("ok", "datacenter") /\ session' = TRUE /\ UNCHANGED <<checks, light, iso, ok>>
     \/ EnsureFails

\* ... finds the datacenter ...
FindDatacenter ==
  /\ pc = "datacenter"
  /\ \/ Ends("ok", "datastore") /\ UNCHANGED <<checks, light, iso, ok, session>>
     \/ EnsureFails

\* ... and the datastore, if one is set.
FindDatastore ==
  /\ pc = "datastore"
  /\ \/ /\ Ends(IF "datastore" \in given THEN "ok" ELSE "none", "folder")
        /\ checks' = IF kind = "test"
             THEN [checks EXCEPT !["login"] = "ok", !["datacenter"] = "ok",
                     !["datastore"] = IF "datastore" \in given THEN "ok" ELSE "skipped"]
             ELSE checks
        /\ light' = "green" /\ UNCHANGED <<iso, ok, session>>
     \/ "datastore" \in given /\ EnsureFails

\* Where the folder's check leads: the health probe looks for a file first.
AfterFolder ==
  IF "datastore" \notin given THEN "verdict" ELSE IF kind = "test" THEN "dir" ELSE "file"

\* Mutant: a folder that is not found passes.
CheckFolder_Lenient ==
  /\ pc = "folder"
  /\ \E o \in IF "folder" \in given THEN {"ok", "missing", "error"} ELSE {"none"} :
       /\ Ends(o, AfterFolder)
       /\ checks' = Marked("folder", CASE o = "none"  -> "skipped"
                                       [] o = "error" -> "failed"
                                       [] OTHER       -> "ok")
       /\ light' = IF o = "error" THEN "yellow" ELSE light
  /\ UNCHANGED <<iso, ok, session>>

\* verifyFolderExists.
CheckFolder ==
  /\ pc = "folder"
  /\ \E o \in IF "folder" \in given THEN {"ok", "missing", "error"} ELSE {"none"} :
       /\ Ends(o, AfterFolder)
       /\ checks' = Marked("folder", CASE o = "none" -> "skipped"
                                       [] o = "ok"   -> "ok"
                                       [] OTHER      -> "failed")
       /\ light' = IF o \in {"missing", "error"} THEN "yellow" ELSE light
  /\ UNCHANGED <<iso, ok, session>>

\* The ISO folder as a file of the datastore.
LookAtFile ==
  /\ pc = "file"
  /\ \E o \in {"ok", "missing", "error"} :
       /\ Ends(o, IF o = "error" THEN "verdict" ELSE "dir")
       /\ iso' = CASE o = "ok" -> "green" [] o = "missing" -> "yellow" [] o = "error" -> "red"
  /\ UNCHANGED <<checks, light, ok, session>>

\* probeISOFolder: a missing one will be created on upload.
LookAtDir ==
  /\ pc = "dir"
  /\ \E o \in {"ok", "missing", "error"} :
       /\ Ends(o, "verdict")
       /\ checks' = Marked("iso", IF o = "error" THEN "failed" ELSE "ok")
       /\ iso' = IF o = "ok" THEN "green" ELSE "yellow"
  /\ UNCHANGED <<light, ok, session>>

\* The overall verdict; what was never looked at is skipped, and a datastore that
\* is not set leaves a yellow ISO light.
Verdict ==
  /\ pc = "verdict"
  /\ checks' = [s \in Rows |-> IF kind = "test" /\ checks[s] = "none" THEN "skipped" ELSE checks[s]]
  /\ iso' = IF "datastore" \in given THEN iso ELSE "yellow"
  /\ ok' = IF kind = "test"
           THEN \A s \in Rows : checks[s] # "failed"
           ELSE light \in {"green", "yellow"} /\ iso' \in {"green", "yellow"}
  /\ pc' = "close"
  /\ UNCHANGED <<kind, given, words, got, light, session, cancelled>>

\* The deferred Close, with the request's context.
Close ==
  /\ pc = "close"
  /\ session' = LoggedOut
  /\ pc' = "over"
  /\ UNCHANGED <<kind, given, words, got, checks, light, iso, ok, cancelled>>

-----------------------------------------------------------------------------
\* MappingStatus: findByUUID on a client of the pool; outside the folder counts as
\* not found.
Find ==
  /\ pc = "find"
  /\ \/ Ends("ok", "info") /\ UNCHANGED light
     \/ Ends("missing", "over") /\ light' = "red"
     \/ Ends("error", "over") /\ light' = "yellow"
  /\ UNCHANGED <<checks, iso, ok, session>>

\* infoFromVM: the VM's power state gives the light.
Info ==
  /\ pc = "info"
  /\ \/ \E power \in {"green", "blue"} : Ends("ok", "cdrom") /\ light' = power
     \/ Ends("error", "over") /\ light' = "yellow"
  /\ UNCHANGED <<checks, iso, ok, session>>

\* cdromStatus, or its fall-back, finds an ISO, none, or fails; the light stays.
Cdrom ==
  /\ pc = "cdrom"
  /\ \E o \in {"ok", "missing", "error"} : Ends(o, "over")
  /\ UNCHANGED <<checks, light, iso, ok, session>>

-----------------------------------------------------------------------------
\* The caller goes away.
Cancel ==
  /\ pc \notin {"idle", "over"} /\ ~cancelled
  /\ cancelled' = TRUE
  /\ UNCHANGED <<kind, given, words, pc, got, checks, light, iso, ok, session>>

Over == pc = "over" /\ UNCHANGED vars

Next ==
  \/ Begin \/ Endpoint \/ Login \/ FindDatacenter \/ FindDatastore \/ CheckFolder
  \/ LookAtFile \/ LookAtDir \/ Verdict \/ Close
  \/ Find \/ Info \/ Cdrom
  \/ Cancel \/ Over

Spec == Init /\ [][Next]_vars
-----------------------------------------------------------------------------
(***************************************************************************)
(* Properties.                                                             *)
(***************************************************************************)
\* A probe leaves no session behind on vCenter, whichever step fails, unless its
\* request was cancelled: Logout runs in the request's own context.
NoSessionLeft == pc = "over" /\ session => cancelled

Found(s) == got[s] = "ok"

\* The checklist blames the step that failed, marks no step that was not taken,
\* and passes exactly if all that is set was found, the ISO folder excepted
\* ("missing folder is OK"): unless a name of the user's own brings in a word by
\* which the code tells the steps apart.
TestTellsTheTruth ==
  kind = "test" /\ pc = "over" /\ words = {} =>
    /\ \A s \in Rows \ {"iso"} :
         /\ checks[s] = "ok" <=> Found(s)
         /\ checks[s] = "failed" <=> got[s] \in {"missing", "error"}
    /\ checks["iso"] = "failed" <=> got["dir"] = "error"
    /\ ok <=> /\ \A s \in {"endpoint", "login", "datacenter"} \cup given : Found(s)
              /\ "datastore" \in given => got["dir"] \in {"ok", "missing"}

\* A green light promises that all behind it was found: the connection with its
\* folder, the ISO cache, or a VM that is on; and no step failed if the health
\* probe is wholly green.
GreenIsEarned ==
  /\ kind = "health" /\ pc = "over" /\ light = "green" =>
       \A s \in {"login", "datacenter"} \cup given : Found(s)
  /\ kind = "health" /\ pc = "over" /\ iso = "green" => Found("dir")
  /\ kind = "mapping" /\ light \in {"green", "blue"} => Found("find") /\ Found("info")
=============================================================================
