------------------------------ MODULE IsoUpload ------------------------------
(***************************************************************************)
(* Staging of an ISO on a vSphere datastore: Client.uploadISOIfNeeded of   *)
(* internal/vsphere/iso.go, run concurrently by the goroutines of several  *)
(* InsertMedia requests.                                                   *)
(*                                                                         *)
(* A request is one call of uploadISOIfNeeded.  It looks at the datastore, *)
(* joins the upload already in flight for its (client, path) or registers  *)
(* itself as that upload's leader, and a leader then waits for the         *)
(* client's serial lock, looks again, and PUTs the file at most            *)
(* MaxAttempts times.  The in-flight table and the serial lock belong to a *)
(* vsphere.Client: ClientOf lets two clients (two vCenters of the store,   *)
(* or the one the pool replaced and its successor) write the same file.    *)
(*                                                                         *)
(* Abstractions: what a file holds is one of Contents; every vSphere call  *)
(* may fail, and does if the request's context is cancelled; the up to     *)
(* three host tickets of putISOViaHost are one host PUT.  A label stands   *)
(* for the code up to the next one, so a Close seen there may have come    *)
(* before or after its last use of the session: Break is a choice.         *)
(***************************************************************************)
EXTENDS Naturals, FiniteSets

CONSTANTS
  Reqs,         \* calls of uploadISOIfNeeded
  Clients,      \* vsphere.Client values
  Paths,        \* datastore paths, named after the content hash of the ISO
  ClientOf,     \* the client each request runs on
  PathOf,       \* the path each request stages
  MaxAttempts,  \* PUT attempts of one leader; 4 in the code
  MaxFaults,    \* restarts of the gateway and closes of a client the model allows
  NoReq         \* no request: a free table entry or a free lock

ASSUME IsoUploadAssumption ==
  /\ ClientOf \in [Reqs -> Clients]
  /\ PathOf \in [Reqs -> Paths]
  /\ MaxAttempts \in Nat \ {0}
  /\ MaxFaults \in Nat
  /\ NoReq \notin Reqs

VARIABLES
  pc,        \* where each request is
  attempt,   \* the PUT attempt a leader is at
  waitsOn,   \* the leader whose call a request waits for
  call,      \* the uploadCall each leader made: none, open, or closed ok / err
  flight,    \* uploadInFlight of each client
  serial,    \* holder of each client's uploadSerial
  session,   \* c.client and c.ds of each client: up, gone (nil), up again
  ds,        \* what the datastore holds under each path
  canceled,  \* requests whose context is done
  outcome,   \* what each request returned
  faults     \* restarts and closes so far

vars == <<pc, attempt, waitsOn, call, flight, serial, session, ds, canceled, outcome, faults>>

-----------------------------------------------------------------------------
(***************************************************************************)
(* Labels.  Section: between uploadSerial.Lock and its deferred Unlock.    *)
(* Leading: from the registration of the call to its removal.  Touches:    *)
(* where c.ds or c.client is used.                                         *)
(***************************************************************************)
PutLabels == {"hostPut", "hostBytes", "vcPut", "vcBytes"}
Section   == {"recheck", "prepare", "confirm", "backoff"} \cup PutLabels
Open      == {"lock", "land"} \cup Section
Leading   == Open \cup {"forget"}
Touches   == {"stat", "recheck", "prepare", "hostPut", "vcPut", "confirm"}
Ended     == {"done", "dead"}
Labels    == {"idle", "stat", "register", "wait"} \cup Leading \cup Ended

Contents == {"absent", "partial", "full"}
Outcomes == {"none", "uploaded", "present", "failed", "panicked"}
Sessions == {"up", "gone", "again"}
Keys     == Clients \X Paths
Key(r)   == <<ClientOf[r], PathOf[r]>>

Active(r) == pc[r] \notin Ended \cup {"idle"}

TypeOK ==
  /\ pc \in [Reqs -> Labels]
  /\ attempt \in [Reqs -> 0..MaxAttempts]
  /\ waitsOn \in [Reqs -> Reqs \cup {NoReq}]
  /\ call \in [Reqs -> {"none", "open", "ok", "err"}]
  /\ flight \in [Keys -> Reqs \cup {NoReq}]
  /\ serial \in [Clients -> Reqs \cup {NoReq}]
  /\ session \in [Clients -> Sessions]
  /\ ds \in [Paths -> Contents]
  /\ canceled \in [Reqs -> BOOLEAN]
  /\ outcome \in [Reqs -> Outcomes]
  /\ faults \in 0..MaxFaults

\* datastoreFileExists: a file of any size above zero counts.
Exists(p) == ds[p] # "absent"

Init ==
  /\ pc = [r \in Reqs |-> "idle"]
  /\ attempt = [r \in Reqs |-> 0]
  /\ waitsOn = [r \in Reqs |-> NoReq]
  /\ call = [r \in Reqs |-> "none"]
  /\ flight = [k \in Keys |-> NoReq]
  /\ serial = [c \in Clients |-> NoReq]
  /\ session = [c \in Clients |-> "up"]
  /\ ds \in [Paths -> {"absent", "full"}]
  /\ canceled = [r \in Reqs |-> FALSE]
  /\ outcome = [r \in Reqs |-> "none"]
  /\ faults = 0

Goto(r, label) == pc' = [pc EXCEPT ![r] = label]

\* ensure: a client whose session a Close took logs in again, outside the pool,
\* unless the login fails or the Close comes after it.
Ensure(c) ==
  \/ UNCHANGED session
  \/ session[c] = "gone" /\ session' = [session EXCEPT ![c] = "again"]

\* A request that leads no call returns.
Return(r, res) ==
  /\ Goto(r, "done")
  /\ outcome' = [outcome EXCEPT ![r] = res]

\* Mutant: an error path that forgets the deferred function.
Unwind_NoDefer(r, res) ==
  /\ Goto(r, IF res = "failed" THEN "done" ELSE "land")
  /\ outcome' = [outcome EXCEPT ![r] = res]
  /\ serial' = [serial EXCEPT ![ClientOf[r]] = NoReq]

\* Mutant: an error path that keeps the serial lock.
Unwind_KeepsLock(r, res) ==
  /\ Goto(r, "land")
  /\ outcome' = [outcome EXCEPT ![r] = res]
  /\ serial' = [serial EXCEPT ![ClientOf[r]] = IF res = "failed" THEN @ ELSE NoReq]

\* A leader returns: the deferred uploadSerial.Unlock runs first.
Unwind(r, res) ==
  /\ Goto(r, "land")
  /\ outcome' = [outcome EXCEPT ![r] = res]
  /\ serial' = [serial EXCEPT ![ClientOf[r]] = NoReq]

-----------------------------------------------------------------------------
\* InsertMedia has found the VM, over a session of the client, and calls
\* uploadISOIfNeeded.
Arrive(r) ==
  /\ pc[r] = "idle"
  /\ Goto(r, "stat")
  /\ Ensure(ClientOf[r])
  /\ UNCHANGED <<attempt, waitsOn, call, flight, serial, ds, canceled, outcome, faults>>

\* The look before the single-flight table: present, unreadable or absent.
Stat(r) ==
  /\ pc[r] = "stat"
  /\ \/ ~canceled[r] /\ Exists(PathOf[r]) /\ Return(r, "present")
     \/ ~canceled[r] /\ ~Exists(PathOf[r]) /\ Goto(r, "register") /\ UNCHANGED outcome
     \/ Return(r, "failed")
  /\ Ensure(ClientOf[r])
  /\ UNCHANGED <<attempt, waitsOn, call, flight, serial, ds, canceled, faults>>

\* Under uploadMu: another request leads this key, so wait for its call ...
Join(r) ==
  /\ pc[r] = "register"
  /\ flight[Key(r)] # NoReq
  /\ waitsOn' = [waitsOn EXCEPT ![r] = flight[Key(r)]]
  /\ Goto(r, "wait")
  /\ UNCHANGED <<attempt, call, flight, serial, session, ds, canceled, outcome, faults>>

\* ... or nobody does, so lead.
Lead(r) ==
  /\ pc[r] = "register"
  /\ flight[Key(r)] = NoReq
  /\ flight' = [flight EXCEPT ![Key(r)] = r]
  /\ call' = [call EXCEPT ![r] = "open"]
  /\ Goto(r, "lock")
  /\ UNCHANGED <<attempt, waitsOn, serial, session, ds, canceled, outcome, faults>>

\* Mutant: a waiter that takes a closed call for a successful one.
Await_IgnoresErr(r) ==
  /\ pc[r] = "wait"
  /\ \/ canceled[r] /\ Return(r, "failed")
     \/ call[waitsOn[r]] \in {"ok", "err"} /\ Return(r, "present")
  /\ UNCHANGED <<attempt, waitsOn, call, flight, serial, session, ds, canceled, faults>>

\* The select of a waiter: its leader's call closed, or its own context done.
Await(r) ==
  /\ pc[r] = "wait"
  /\ \/ canceled[r] /\ Return(r, "failed")
     \/ call[waitsOn[r]] = "err" /\ Return(r, "failed")
     \/ call[waitsOn[r]] = "ok" /\ Return(r, "present")
  /\ UNCHANGED <<attempt, waitsOn, call, flight, serial, session, ds, canceled, faults>>

\* Mutant: PUTs that are not serialised.
Acquire_Unserialised(r) ==
  /\ pc[r] = "lock"
  /\ serial' = [serial EXCEPT ![ClientOf[r]] = r]
  /\ Goto(r, "recheck")
  /\ UNCHANGED <<attempt, waitsOn, call, flight, session, ds, canceled, outcome, faults>>

\* uploadSerial.Lock, which no context interrupts.
Acquire(r) ==
  /\ pc[r] = "lock"
  /\ serial[ClientOf[r]] = NoReq
  /\ serial' = [serial EXCEPT ![ClientOf[r]] = r]
  /\ Goto(r, "recheck")
  /\ UNCHANGED <<attempt, waitsOn, call, flight, session, ds, canceled, outcome, faults>>

\* Mutant: no second look under the serial lock.
Recheck_Skipped(r) ==
  /\ pc[r] = "recheck"
  /\ Goto(r, "prepare")
  /\ UNCHANGED <<attempt, waitsOn, call, flight, serial, session, ds, canceled, outcome, faults>>

\* The second look, under the serial lock.
Recheck(r) ==
  /\ pc[r] = "recheck"
  /\ \/ ~canceled[r] /\ Exists(PathOf[r]) /\ Unwind(r, "present")
     \/ ~canceled[r] /\ ~Exists(PathOf[r]) /\ Goto(r, "prepare") /\ UNCHANGED <<serial, outcome>>
     \/ Unwind(r, "failed")
  /\ Ensure(ClientOf[r])
  /\ UNCHANGED <<attempt, waitsOn, call, flight, ds, canceled, faults>>

\* ensureISOFolder, the size of the local file, and the first attempt.
Prepare(r) ==
  /\ pc[r] = "prepare"
  /\ \/ /\ ~canceled[r]
        /\ attempt' = [attempt EXCEPT ![r] = 1]
        /\ Goto(r, "hostPut")
        /\ UNCHANGED <<serial, outcome>>
     \/ Unwind(r, "failed") /\ UNCHANGED attempt
  /\ Ensure(ClientOf[r])
  /\ UNCHANGED <<waitsOn, call, flight, ds, canceled, faults>>

\* The first bytes of a PUT: the file exists from here on, truncated.
PutBytes(r) ==
  /\ ~canceled[r]
  /\ \/ pc[r] = "hostPut" /\ Goto(r, "hostBytes")
     \/ pc[r] = "vcPut" /\ Goto(r, "vcBytes")
  /\ ds' = [ds EXCEPT ![PathOf[r]] = "partial"]
  /\ UNCHANGED <<attempt, waitsOn, call, flight, serial, session, canceled, outcome, faults>>

\* The last byte is written and acknowledged.
PutAcked(r) ==
  /\ pc[r] \in {"hostBytes", "vcBytes"}
  /\ ~canceled[r]
  /\ ds' = [ds EXCEPT ![PathOf[r]] = "full"]
  /\ Goto(r, "confirm")
  /\ UNCHANGED <<attempt, waitsOn, call, flight, serial, session, canceled, outcome, faults>>

\* What a PUT that is reported as failed leaves: what was there, or, once its
\* bytes flow, possibly the whole file with only the answer lost.
LeftBehind(r) ==
  \/ UNCHANGED ds
  \/ pc[r] \in {"hostBytes", "vcBytes"} /\ ds' = [ds EXCEPT ![PathOf[r]] = "full"]

\* The host PUT failed: putISO turns to the vCenter /folder/ PUT.
HostPutFails(r) ==
  /\ pc[r] \in {"hostPut", "hostBytes"}
  /\ LeftBehind(r)
  /\ Goto(r, "vcPut")
  /\ UNCHANGED <<attempt, waitsOn, call, flight, serial, session, canceled, outcome, faults>>

\* Mutant: the retry limit is off by one.
AttemptFails_OneMore(r) ==
  /\ pc[r] \in {"vcPut", "vcBytes"}
  /\ LeftBehind(r)
  /\ \/ attempt[r] <= MaxAttempts /\ Goto(r, "backoff") /\ UNCHANGED <<serial, outcome>>
     \/ Unwind(r, "failed")
  /\ UNCHANGED <<attempt, waitsOn, call, flight, session, canceled, faults>>

\* Mutant: the last attempt's error is dropped.
AttemptFails_Swallowed(r) ==
  /\ pc[r] \in {"vcPut", "vcBytes"}
  /\ LeftBehind(r)
  /\ \/ attempt[r] < MaxAttempts /\ Goto(r, "backoff") /\ UNCHANGED <<serial, outcome>>
     \/ attempt[r] = MaxAttempts /\ Unwind(r, "uploaded")
  /\ UNCHANGED <<attempt, waitsOn, call, flight, session, canceled, faults>>

\* Both PUTs failed: the attempt failed.  A retryable error backs off unless
\* this was the last attempt.
AttemptFails(r) ==
  /\ pc[r] \in {"vcPut", "vcBytes"}
  /\ LeftBehind(r)
  /\ \/ attempt[r] < MaxAttempts /\ Goto(r, "backoff") /\ UNCHANGED <<serial, outcome>>
     \/ Unwind(r, "failed")
  /\ UNCHANGED <<attempt, waitsOn, call, flight, session, canceled, faults>>

\* The file must show on the datastore once the PUT is acknowledged.
Confirm(r) ==
  /\ pc[r] = "confirm"
  /\ \/ ~canceled[r] /\ Exists(PathOf[r]) /\ Unwind(r, "uploaded")
     \/ Unwind(r, "failed")
  /\ Ensure(ClientOf[r])
  /\ UNCHANGED <<attempt, waitsOn, call, flight, ds, canceled, faults>>

\* The select of a backoff: the timer, or the context.
Backoff(r) ==
  /\ pc[r] = "backoff"
  /\ \/ /\ attempt' = [attempt EXCEPT ![r] = @ + 1]
        /\ Goto(r, "hostPut")
        /\ UNCHANGED <<serial, outcome>>
     \/ canceled[r] /\ Unwind(r, "failed") /\ UNCHANGED attempt
  /\ UNCHANGED <<waitsOn, call, flight, session, ds, canceled, faults>>

\* The session is gone where c.ds or c.client is used: a nil pointer.  The panic
\* ends the request (net/http recovers it), and a leader's deferred functions
\* run, with the named err still nil.
Break(r) ==
  /\ pc[r] \in Touches
  /\ session[ClientOf[r]] = "gone"
  /\ \/ pc[r] = "stat" /\ Return(r, "panicked") /\ UNCHANGED serial
     \/ pc[r] # "stat" /\ Unwind(r, "panicked")
  /\ UNCHANGED <<attempt, waitsOn, call, flight, session, ds, canceled, faults>>

\* Mutant: done is closed before the error is stored.
Land_ClosesFirst(r) ==
  /\ pc[r] = "land"
  /\ call' = [call EXCEPT ![r] = "ok"]
  /\ Goto(r, "forget")
  /\ UNCHANGED <<attempt, waitsOn, flight, serial, session, ds, canceled, outcome, faults>>

\* The deferred function of a leader: publish err, which only a return sets, and
\* close done ...
Land(r) ==
  /\ pc[r] = "land"
  /\ call' = [call EXCEPT ![r] = IF outcome[r] = "failed" THEN "err" ELSE "ok"]
  /\ Goto(r, "forget")
  /\ UNCHANGED <<attempt, waitsOn, flight, serial, session, ds, canceled, outcome, faults>>

\* ... then take the call out of the table.
Forget(r) ==
  /\ pc[r] = "forget"
  /\ flight' = [flight EXCEPT ![Key(r)] = NoReq]
  /\ Goto(r, "done")
  /\ UNCHANGED <<attempt, waitsOn, call, serial, session, ds, canceled, outcome, faults>>

-----------------------------------------------------------------------------
\* The caller of InsertMedia goes away: r.Context() is done.
Cancel(r) ==
  /\ Active(r)
  /\ ~canceled[r]
  /\ canceled' = [canceled EXCEPT ![r] = TRUE]
  /\ UNCHANGED <<pc, attempt, waitsOn, call, flight, serial, session, ds, outcome, faults>>

\* The pool drops the client: its vCenter was edited or deleted.
Close(c) ==
  /\ session[c] = "up"
  /\ faults < MaxFaults
  /\ faults' = faults + 1
  /\ session' = [session EXCEPT ![c] = "gone"]
  /\ UNCHANGED <<pc, attempt, waitsOn, call, flight, serial, ds, canceled, outcome>>

\* The gateway restarts: every goroutine, table and lock is gone, the clients
\* are new, the datastore keeps what was written.
Crash ==
  /\ faults < MaxFaults
  /\ faults' = faults + 1
  /\ pc' = [r \in Reqs |-> IF Active(r) THEN "dead" ELSE pc[r]]
  /\ flight' = [k \in Keys |-> NoReq]
  /\ serial' = [c \in Clients |-> NoReq]
  /\ session' = [c \in Clients |-> "up"]
  /\ UNCHANGED <<attempt, waitsOn, call, ds, canceled, outcome>>

Step(r) ==
  \/ Stat(r) \/ Join(r) \/ Lead(r) \/ Await(r)
  \/ Acquire(r) \/ Recheck(r) \/ Prepare(r)
  \/ PutBytes(r) \/ PutAcked(r) \/ HostPutFails(r) \/ AttemptFails(r)
  \/ Confirm(r) \/ Backoff(r) \/ Break(r) \/ Land(r) \/ Forget(r)

\* Every request is over: the only state the system may rest in.
AllReturned ==
  /\ \A r \in Reqs : pc[r] \in Ended
  /\ UNCHANGED vars

Next ==
  \/ \E r \in Reqs : Arrive(r) \/ Step(r) \/ Cancel(r)
  \/ \E c \in Clients : Close(c)
  \/ Crash
  \/ AllReturned

Spec == Init /\ [][Next]_vars
-----------------------------------------------------------------------------
(***************************************************************************)
(* Properties.                                                             *)
(***************************************************************************)

\* One PUT per client at a time: no two requests of a client are between
\* uploadSerial.Lock and Unlock together (iso.go: "Serialize PUTs").
OnePutPerClient ==
  \A r, s \in Reqs :
    pc[r] \in Section /\ pc[s] \in Section /\ ClientOf[r] = ClientOf[s] => r = s

\* Nobody waits for a call that will not be closed: an open call has a leader
\* on its way to the deferred close, and the table lists only such leaders.
NobodyStranded ==
  /\ \A r \in Reqs : pc[r] = "wait" =>
       /\ waitsOn[r] \in Reqs
       /\ call[waitsOn[r]] = "open" => pc[waitsOn[r]] \in Open
  /\ \A k \in Keys : flight[k] # NoReq => pc[flight[k]] \in Leading /\ Key(flight[k]) = k

\* One client is in charge of a path, as when no other vCenter entry names the
\* same datastore folder and the pool has not replaced the client meanwhile.
Exclusive(p) ==
  \A r, s \in Reqs : PathOf[r] = p /\ PathOf[s] = p => ClientOf[r] = ClientOf[s]

\* A leader's first PUT never lands on a file somebody else put there: between
\* the second look and the first byte the path stays free.
FirstPutFindsPathFree ==
  \A r \in Reqs :
    /\ Exclusive(PathOf[r])
    /\ pc[r] = "prepare" \/ (pc[r] = "hostPut" /\ attempt[r] = 1)
    => ~Exists(PathOf[r])

\* A file whose upload was reported done stays whole: no retry, later leader or
\* restarted gateway writes over it (a CD-ROM may be attached to it by now).
UploadedStaysWhole ==
  \A r \in Reqs :
    Exclusive(PathOf[r]) /\ outcome[r] = "uploaded" => ds[PathOf[r]] = "full"

Succeeded(r) == pc[r] = "done" /\ outcome[r] \in {"uploaded", "present"}

\* A request that succeeds has something to attach: a waiter does not take its
\* leader's failure for success, and no failure removes the file.  The waiters of
\* a leader that panicked are the exception: they were told that all is well.
SuccessMeansPresent ==
  \A r \in Reqs :
    Succeeded(r) =>
      \/ Exists(PathOf[r])
      \/ waitsOn[r] # NoReq /\ outcome[waitsOn[r]] = "panicked"

\* "Confirm the file landed (avoids "success" that never appears in the UI)": who
\* reports success has a file on the datastore, whoever uploaded it.
NoEmptySuccess == \A r \in Reqs : Succeeded(r) => Exists(PathOf[r])

\* "another host may have finished" (the look under the serial lock) and
\* "iso already on datastore": a request told so finds a finished file.
PresentMeansFinished ==
  \A r \in Reqs : pc[r] = "done" /\ outcome[r] = "present" => ds[PathOf[r]] = "full"
=============================================================================
