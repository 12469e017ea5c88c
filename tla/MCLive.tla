-------------------------------- MODULE MCLive --------------------------------
(***************************************************************************)
(* Termination of the three parts of the gateway whose requests wait for   *)
(* each other, each on an instance of its own.  The variable part says     *)
(* which one a behaviour is about; the others rest in an initial state.    *)
(*   upload   three requests for one file on one client                    *)
(*   vm       an insert, an eject and a restart or boot change on one VM   *)
(*   gateway  two requests, and the API (r3), on one mapped vCenter        *)
(***************************************************************************)
EXTENDS Naturals, FiniteSets

CONSTANTS r1, r2, r3, c1, c2, p, v, u, old, new, A, None

VARIABLES
  part,
  uploadPc, attempt, waitsOn, call, flight, serial, session, ds, canceled, outcome, faults,
  vmPc, power, cd, boot, guest, late, media, kind, image, result, wasOn, snap, tries, prior, alone,
  saved, unused, dryRun, global, mapping, pool, poolMu, client, req, adm, changes, down

Three == {r1, r2, r3}

Upload == INSTANCE IsoUpload WITH
  pc <- uploadPc, Reqs <- Three, Clients <- {c1}, Paths <- {p},
  ClientOf <- [r \in Three |-> c1], PathOf <- [r \in Three |-> p],
  MaxAttempts <- 2, MaxFaults <- 0, NoReq <- None

VM == INSTANCE VMedia WITH
  pc <- vmPc, Ops <- Three,
  Requests <- [r \in Three |-> CASE r = r1 -> {"insert"}
                                 [] r = r2 -> {"eject"}
                                 [] r = r3 -> {"restart", "bootCD"}],
  Images <- {A}, Sources <- [r \in Three |-> {A}], NoImage <- None, MaxLate <- 0

Gate == INSTANCE Gateway WITH
  Ids <- {v}, Uuids <- {u}, Endpoints <- {old, new}, Requests <- {r1, r2}, Admins <- {r3},
  Clients <- {c1, c2}, MaxChanges <- 1

uploadVars == <<uploadPc, attempt, waitsOn, call, flight, serial, session, ds, canceled, outcome, faults>>
vmVars     == <<vmPc, power, cd, boot, guest, late, media, kind, image, result, wasOn, snap, tries,
                prior, alone>>
gateVars   == <<saved, unused, dryRun, global, mapping, pool, poolMu, client, req, adm, changes, down>>
vars       == <<part, uploadVars, vmVars, gateVars>>

\* A vCenter to which the VM is mapped, dry-run off.
Mapped ==
  /\ saved = [i \in {v} |-> old]
  /\ mapping = [x \in {u} |-> v]
  /\ ~global /\ ~dryRun[v]

Init ==
  /\ Upload!Init /\ VM!Init /\ Gate!Init /\ Mapped
  /\ \/ part = "upload" /\ power = "off"
     \/ part = "vm" /\ ds[p] = "absent"
     \/ part = "gateway" /\ power = "off" /\ ds[p] = "absent"

Next ==
  /\ \/ part = "upload" /\ Upload!Next /\ UNCHANGED <<vmVars, gateVars>>
     \/ part = "vm" /\ VM!Next /\ UNCHANGED <<uploadVars, gateVars>>
     \/ part = "gateway" /\ Gate!Next /\ UNCHANGED <<uploadVars, vmVars>>
  /\ UNCHANGED part

\* Goroutines are scheduled, Go's mutexes are fair and every call of vSphere
\* returns or fails: what has begun goes on.
Goes(r) ==
  /\ \/ part = "upload" /\ Upload!Step(r) /\ UNCHANGED <<vmVars, gateVars>>
     \/ part = "vm" /\ VM!Step(r) /\ UNCHANGED <<uploadVars, gateVars>>
     \/ part = "gateway" /\ r # r3 /\ Gate!Step(r) /\ UNCHANGED <<uploadVars, vmVars>>
     \/ part = "gateway" /\ r = r3 /\ Gate!AdminStep(r) /\ UNCHANGED <<uploadVars, vmVars>>
  /\ UNCHANGED part

Spec == Init /\ [][Next]_vars /\ \A r \in Three : WF_vars(Goes(r))
-----------------------------------------------------------------------------
UnderWay(r) ==
  \/ part = "upload" /\ Upload!Active(r)
  \/ part = "vm" /\ VM!Active(r)
  \/ part = "gateway" /\ ~down /\ IF r = r3 THEN adm[r].pc # "idle" ELSE Gate!Active(r)

\* Everything that began ends, unless the gateway stops.  Uploads: whatever fails
\* or is cancelled, no waiter, no in-flight entry and no serial lock is left
\* behind.  Requests on a VM: the loops around a locked CD-ROM and a slow
\* power-off are bounded.  Gateway: however edits, deletes, logins and slow
\* closes overlap, nobody waits for ever for the pool's or a client's mutex.
EveryRequestReturns == \A r \in Three : UnderWay(r) ~> ~UnderWay(r)
=============================================================================
