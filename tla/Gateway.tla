-------------------------------- MODULE Gateway --------------------------------
(***************************************************************************)
(* From an HTTP request to a vCenter: the dry-run gate and the handlers of *)
(* internal/redfish and internal/api, the mappings and vCenters of the     *)
(* store, the pool of clients (internal/vsphere/pool.go) and the session   *)
(* of a client (ensure and Close of client.go).  Requests take each of     *)
(* these in a critical section of its own, while the API edits and deletes *)
(* vCenters, moves mappings and switches dry-run.                          *)
(*                                                                         *)
(* The pool's mutex is held over the Close of a client, which waits for    *)
(* the client's mutex, which ensure holds over its login.                  *)
(*                                                                         *)
(* Abstractions: what a request does to its VM is one step (VMedia has the *)
(* detail) that may fail, as it does when vCenter has let the session      *)
(* expire, which ensure never notices; a Logout that fails leaves its      *)
(* session to vCenter's time-out; a store that cannot be written is in     *)
(* Store and what the API writes to ConfigMaps in VCSync.                  *)
(***************************************************************************)
EXTENDS Naturals

CONSTANTS
  Ids,         \* vCenter ids
  Uuids,       \* BIOS UUIDs of VMs
  Endpoints,   \* what sameEndpoint compares: URL, account, password, folder, ...
  Requests,
  Admins,      \* API requests that edit or delete a vCenter, and the shutdown
  Clients,     \* client objects
  None,
  MaxChanges   \* changes by the API the model allows

ASSUME GatewayAssumption ==
  /\ None \notin Ids \cup Uuids \cup Endpoints \cup Requests \cup Admins \cup Clients
  /\ Requests \cap Admins = {}
  /\ MaxChanges \in Nat

VARIABLES
  \* the store
  saved,    \* the endpoint of each vCenter; None if there is no such vCenter
  unused,   \* ids newID has not given out
  dryRun,   \* each vCenter's switch
  global,   \* the gateway's switch
  mapping,  \* UUID to vCenter
  \* the pool
  pool,     \* id to client object
  poolMu,   \* who holds Pool.mu
  client,   \* each client object
  req, adm,
  changes,
  down      \* the gateway has stopped

vars == <<saved, unused, dryRun, global, mapping, pool, poolMu, client, req, adm, changes, down>>

store == <<saved, unused, dryRun, global, mapping>>

Changing == {"mutate", "power"}
Ended    == {"idle", "over"}
Labels   == Ended \cup {"gate", "lookup", "fetch", "for", "replace", "ensure", "login", "act"}

\* busy: the request that holds the client's mutex for its login.  Histories:
\* shared, the client was closed while a request had it.
ClientObjects ==
  [of : Ids \cup {None}, ep : Endpoints \cup {None}, session : BOOLEAN,
   busy : Requests \cup {None}, shared : BOOLEAN]

\* Histories, from the request's arrival: ids and eps, the vCenters its UUID was
\* mapped to and the endpoints that were stored, until it took them from the
\* store; dry, the vCenters dry-run has covered all the time, for a change.
RequestRecords ==
  [pc : Labels, kind : Changing \cup {"read"}, uuid : Uuids \cup {None}, id : Ids \cup {None},
   ep : Endpoints \cup {None}, client : Clients \cup {None},
   ids : SUBSET (Ids \cup {None}), eps : SUBSET (Ids \X Endpoints), dry : SUBSET Ids]

AdminRecords ==
  [pc : {"idle", "invalidate", "drop", "closeAll"}, id : Ids \cup {None}]

TypeOK ==
  /\ saved \in [Ids -> Endpoints \cup {None}]
  /\ unused \in SUBSET Ids
  /\ dryRun \in [Ids -> BOOLEAN]
  /\ global \in BOOLEAN
  /\ mapping \in [Uuids -> Ids \cup {None}]
  /\ pool \in [Ids -> Clients \cup {None}]
  /\ poolMu \in Requests \cup Admins \cup {None}
  /\ client \in [Clients -> ClientObjects]
  /\ req \in [Requests -> RequestRecords]
  /\ adm \in [Admins -> AdminRecords]
  /\ changes \in 0 .. MaxChanges
  /\ down \in BOOLEAN
  \* what a step needs is there
  /\ \A r \in Requests :
       /\ req[r].pc \in {"gate", "lookup"} => req[r].uuid \in Uuids
       /\ req[r].pc \in {"fetch", "for", "replace"} => req[r].id \in Ids
       /\ req[r].pc \in {"for", "replace"} => req[r].ep \in Endpoints
       /\ req[r].pc = "replace" => pool[req[r].id] # None
       /\ req[r].pc \in {"ensure", "login", "act"} => req[r].client \in Clients
  /\ \A a \in Admins :
       /\ adm[a].pc \in {"invalidate", "drop"} => adm[a].id \in Ids
       /\ adm[a].pc = "drop" => pool[adm[a].id] # None

Idle == [pc |-> "idle", kind |-> "read", uuid |-> None, id |-> None, ep |-> None,
         client |-> None, ids |-> {}, eps |-> {}, dry |-> {}]

NewObject(id, ep) == [of |-> id, ep |-> ep, session |-> FALSE, busy |-> None, shared |-> FALSE]

\* A store as it was loaded, and an empty pool.
Init ==
  /\ saved \in [Ids -> Endpoints \cup {None}]
  /\ unused = {i \in Ids : saved[i] = None}
  /\ dryRun \in {d \in [Ids -> BOOLEAN] : \A i \in unused : ~d[i]}
  /\ global \in BOOLEAN
  /\ mapping \in [Uuids -> (Ids \ unused) \cup {None}]
  /\ pool = [i \in Ids |-> None]
  /\ poolMu = None
  /\ client = [c \in Clients |-> NewObject(None, None)]
  /\ req = [r \in Requests |-> Idle]
  /\ adm = [a \in Admins |-> [pc |-> "idle", id |-> None]]
  /\ changes = 0
  /\ down = FALSE

-----------------------------------------------------------------------------
Active(r) == req[r].pc \notin Ended

Stored == {<<i, saved[i]>> : i \in {j \in Ids : saved[j] # None}}

\* DryRunActive.
Covered == {i \in Ids : global \/ dryRun[i]}

\* The requests under way note a change of the store.
Witnessed ==
  req' = [r \in Requests |->
    LET asks == req[r].pc \in {"gate", "lookup"}
        ids == req[r].ids \cup IF asks THEN {mapping'[req[r].uuid]} ELSE {}
        eps == req[r].eps \cup IF asks \/ req[r].pc = "fetch" THEN Stored' ELSE {}
    IN [req[r] EXCEPT !.ids = ids, !.eps = eps, !.dry = @ \cap Covered']]

Goto(r, label) == req' = [req EXCEPT ![r].pc = label]
Ends(r)        == req' = [req EXCEPT ![r] = [Idle EXCEPT !.pc = "over"]]

-----------------------------------------------------------------------------
(***************************************************************************)
(* Requests.                                                               *)
(***************************************************************************)
Arrival(r, label, k, u, i) ==
  /\ ~down
  /\ req[r].pc = "idle"
  /\ req' = [req EXCEPT ![r] =
       [pc |-> label, kind |-> k, uuid |-> u, id |-> i, ep |-> None, client |-> None,
        ids |-> {IF u = None THEN i ELSE mapping[u]}, eps |-> Stored,
        dry |-> IF k \in Changing THEN Covered ELSE {}]]
  /\ UNCHANGED <<store, pool, poolMu, client, adm, changes, down>>

\* Reset, boot override, InsertMedia, EjectMedia and the UI's power button ask
\* the dry-run gate first; a read of a system or a mapping's status does not.
Arrive(r, u) ==
  \/ \E k \in Changing : Arrival(r, "gate", k, u, None)
  \/ Arrival(r, "lookup", "read", u, None)

\* The ISO inventory and the folder scan of a vCenter.
ArriveById(r, i) == Arrival(r, "fetch", "read", None, i)

\* Mutant: only the vCenter's own switch counts.
Gate_VCenterOnly(r) ==
  /\ req[r].pc = "gate"
  /\ LET i == mapping[req[r].uuid]
     IN IF i # None /\ dryRun[i] THEN Ends(r) ELSE Goto(r, "lookup")
  /\ UNCHANGED <<store, pool, poolMu, client, adm, changes, down>>

\* DryRunForUUID; a dry run is answered as if it had been done.
Gate(r) ==
  /\ req[r].pc = "gate"
  /\ LET i == mapping[req[r].uuid]
     IN IF global \/ (i # None /\ dryRun[i]) THEN Ends(r) ELSE Goto(r, "lookup")
  /\ UNCHANGED <<store, pool, poolMu, client, adm, changes, down>>

\* LookupUUID.
Lookup(r) ==
  /\ req[r].pc = "lookup"
  /\ LET i == mapping[req[r].uuid]
     IN IF i = None \/ saved[i] = None
        THEN Ends(r)
        ELSE req' = [req EXCEPT ![r].pc = "fetch", ![r].id = i]
  /\ UNCHANGED <<store, pool, poolMu, client, adm, changes, down>>

\* Mutant: a vCenter that is gone is used as it comes.
Fetch_Unchecked(r) ==
  /\ req[r].pc = "fetch"
  /\ req' = [req EXCEPT ![r].pc = "for", ![r].ep = saved[req[r].id]]
  /\ UNCHANGED <<store, pool, poolMu, client, adm, changes, down>>

\* GetVCenterSecret.
Fetch(r) ==
  /\ req[r].pc = "fetch"
  /\ IF saved[req[r].id] = None
     THEN Ends(r)
     ELSE req' = [req EXCEPT ![r].pc = "for", ![r].ep = saved[req[r].id]]
  /\ UNCHANGED <<store, pool, poolMu, client, adm, changes, down>>

-----------------------------------------------------------------------------
(***************************************************************************)
(* The pool.                                                               *)
(***************************************************************************)
\* The requests that have the client.
Holders(c) == {r \in Requests : Active(r) /\ req[r].client = c}

\* Objects no longer referenced and without a session are as good as new ones.
Spare == {c \in Clients : /\ \A i \in Ids : pool[i] # c
                          /\ Holders(c) = {}
                          /\ ~client[c].session}

\* Close logs out and drops the session.
Closed(c) == [client[c] EXCEPT !.session = FALSE, !.shared = @ \/ Holders(c) # {}]

\* NewClient makes a client, without a session, for the pool; it fails for a
\* vCenter without a password.
NewClient(r, objects) ==
  \/ \E c \in Spare :
       /\ client' = [objects EXCEPT ![c] = NewObject(req[r].id, req[r].ep)]
       /\ pool' = [pool EXCEPT ![req[r].id] = c]
       /\ req' = [req EXCEPT ![r].pc = "ensure", ![r].client = c]
  \/ /\ client' = objects
     /\ pool' = [pool EXCEPT ![req[r].id] = None]
     /\ Ends(r)

\* Mutant: the id is enough.
SameEndpoint_ById(a, b) == TRUE

SameEndpoint(a, b) == a = b

\* For, under Pool.mu: the client there is ...
For(r) ==
  /\ req[r].pc = "for"
  /\ poolMu = None
  /\ LET c == pool[req[r].id] IN
       IF c = None
       THEN NewClient(r, client) /\ UNCHANGED poolMu
       ELSE IF SameEndpoint(client[c].ep, req[r].ep)
       THEN /\ req' = [req EXCEPT ![r].pc = "ensure", ![r].client = c]
            /\ UNCHANGED <<pool, poolMu, client>>
       ELSE poolMu' = r /\ Goto(r, "replace") /\ UNCHANGED <<pool, client>>
  /\ UNCHANGED <<store, adm, changes, down>>

\* Mutant: the client of the old endpoint is dropped as it is.
Replace_NoClose(r) ==
  /\ req[r].pc = "replace"
  /\ client[pool[req[r].id]].busy = None
  /\ NewClient(r, client)
  /\ poolMu' = None
  /\ UNCHANGED <<store, adm, changes, down>>

\* For, still under Pool.mu, closes the client of an old endpoint, once nobody
\* logs in with it, and makes another.
Replace(r) ==
  /\ req[r].pc = "replace"
  /\ LET c == pool[req[r].id]
     IN client[c].busy = None /\ NewClient(r, [client EXCEPT ![c] = Closed(c)])
  /\ poolMu' = None
  /\ UNCHANGED <<store, adm, changes, down>>

-----------------------------------------------------------------------------
(***************************************************************************)
(* A client's session.                                                     *)
(***************************************************************************)
\* ensure, under the client's mutex: a session there is will do.
Ensure(r) ==
  /\ req[r].pc = "ensure"
  /\ client[req[r].client].busy = None
  /\ IF client[req[r].client].session
     THEN Goto(r, "act") /\ UNCHANGED client
     ELSE Goto(r, "login") /\ client' = [client EXCEPT ![req[r].client].busy = r]
  /\ UNCHANGED <<store, pool, poolMu, adm, changes, down>>

LoggedIn(r) ==
  /\ req[r].pc = "login"
  /\ client' = [client EXCEPT ![req[r].client].busy = None, ![req[r].client].session = TRUE]
  /\ Goto(r, "act")
  /\ UNCHANGED <<store, pool, poolMu, adm, changes, down>>

\* Mutant: no deferred unlock.
LoginFails_KeepsLock(r) ==
  /\ req[r].pc = "login"
  /\ Ends(r)
  /\ UNCHANGED <<store, pool, poolMu, client, adm, changes, down>>

\* The login, the datacenter or the datastore fails; a session is logged out.
LoginFails(r) ==
  /\ req[r].pc = "login"
  /\ client' = [client EXCEPT ![req[r].client].busy = None]
  /\ Ends(r)
  /\ UNCHANGED <<store, pool, poolMu, adm, changes, down>>

\* The operation itself: it fails for any reason, and always, in a panic of the
\* handler, when the client was closed meanwhile.  The power button then asks for the
\* mapping's status, which begins with ensure.
Act(r) ==
  /\ req[r].pc = "act"
  /\ \/ /\ client[req[r].client].session
        /\ IF req[r].kind = "power"
           THEN req' = [req EXCEPT ![r].pc = "ensure", ![r].kind = "read", ![r].dry = {}]
           ELSE Ends(r)
     \/ Ends(r)
  /\ UNCHANGED <<store, pool, poolMu, client, adm, changes, down>>

-----------------------------------------------------------------------------
(***************************************************************************)
(* The API, and the shutdown.                                              *)
(***************************************************************************)
Change ==
  /\ ~down
  /\ changes < MaxChanges /\ changes' = changes + 1
  /\ Witnessed
  /\ UNCHANGED <<pool, poolMu, client, down>>

\* POST of a vCenter, under an id nobody had.
CreateVCenter(i, e) ==
  /\ i \in unused
  /\ unused' = unused \ {i}
  /\ saved' = [saved EXCEPT ![i] = e]
  /\ UNCHANGED <<dryRun, global, mapping, adm>>
  /\ Change

\* PUT of a vCenter: UpsertVCenter keeps the switch; Invalidate follows.
EditVCenter(a, i, e) ==
  /\ adm[a].pc = "idle" /\ saved[i] # None
  /\ saved' = [saved EXCEPT ![i] = e]
  /\ adm' = [adm EXCEPT ![a] = [pc |-> "invalidate", id |-> i]]
  /\ UNCHANGED <<unused, dryRun, global, mapping>>
  /\ Change

\* DELETE of a vCenter takes its mappings with it; Invalidate follows.
DeleteVCenter(a, i) ==
  /\ adm[a].pc = "idle" /\ saved[i] # None
  /\ saved' = [saved EXCEPT ![i] = None]
  /\ dryRun' = [dryRun EXCEPT ![i] = FALSE]
  /\ mapping' = [u \in Uuids |-> IF mapping[u] = i THEN None ELSE mapping[u]]
  /\ adm' = [adm EXCEPT ![a] = [pc |-> "invalidate", id |-> i]]
  /\ UNCHANGED <<unused, global>>
  /\ Change

SwitchVCenter(i) ==
  /\ saved[i] # None
  /\ dryRun' = [dryRun EXCEPT ![i] = ~@]
  /\ UNCHANGED <<saved, unused, global, mapping, adm>>
  /\ Change

SwitchGlobal ==
  /\ global' = ~global
  /\ UNCHANGED <<saved, unused, dryRun, mapping, adm>>
  /\ Change

\* UpsertMapping, of a vCenter there is, and DeleteMapping.
Map(u, i) ==
  /\ mapping[u] # i
  /\ i # None => saved[i] # None
  /\ mapping' = [mapping EXCEPT ![u] = i]
  /\ UNCHANGED <<saved, unused, dryRun, global, adm>>
  /\ Change

\* Invalidate takes Pool.mu ...
Invalidate(a) ==
  /\ adm[a].pc = "invalidate"
  /\ poolMu = None
  /\ IF pool[adm[a].id] = None
     THEN adm' = [adm EXCEPT ![a].pc = "idle"] /\ UNCHANGED poolMu
     ELSE adm' = [adm EXCEPT ![a].pc = "drop"] /\ poolMu' = a
  /\ UNCHANGED <<store, pool, client, req, changes, down>>

\* ... and closes the client, once nobody logs in with it.
Drop(a) ==
  /\ adm[a].pc = "drop"
  /\ LET i == adm[a].id IN
       /\ client[pool[i]].busy = None
       /\ client' = [client EXCEPT ![pool[i]] = Closed(pool[i])]
       /\ pool' = [pool EXCEPT ![i] = None]
  /\ adm' = [adm EXCEPT ![a].pc = "idle"]
  /\ poolMu' = None
  /\ UNCHANGED <<store, req, changes, down>>

\* main, once the servers have stopped or their time was up, calls CloseAll ...
Stop(a) ==
  /\ ~down
  /\ adm[a].pc = "idle" /\ poolMu = None
  /\ adm' = [adm EXCEPT ![a].pc = "closeAll"]
  /\ poolMu' = a
  /\ UNCHANGED <<store, pool, client, req, changes, down>>

\* ... which closes one client after the other; then the process ends.
CloseAll(a) ==
  /\ adm[a].pc = "closeAll" /\ ~down
  /\ \/ \E i \in Ids :
          /\ pool[i] # None
          /\ client[pool[i]].busy = None
          /\ client' = [client EXCEPT ![pool[i]] = Closed(pool[i])]
          /\ pool' = [pool EXCEPT ![i] = None]
          /\ UNCHANGED down
     \/ /\ \A i \in Ids : pool[i] = None
        /\ down' = TRUE
        /\ UNCHANGED <<client, pool>>
  /\ UNCHANGED <<store, poolMu, req, adm, changes>>

-----------------------------------------------------------------------------
Step(r) ==
  /\ ~down
  /\ \/ Gate(r) \/ Lookup(r) \/ Fetch(r) \/ For(r) \/ Replace(r)
     \/ Ensure(r) \/ LoggedIn(r) \/ LoginFails(r) \/ Act(r)

AdminStep(a) == Invalidate(a) \/ Drop(a) \/ CloseAll(a)

\* Nothing more happens after the end of the process, or when all is done.
Rest ==
  /\ down \/ (/\ \A r \in Requests : ~Active(r)
              /\ \A a \in Admins : adm[a].pc = "idle")
  /\ UNCHANGED vars

Next ==
  \/ \E r \in Requests :
       \/ Step(r)
       \/ \E u \in Uuids : Arrive(r, u)
       \/ \E i \in Ids : ArriveById(r, i)
  \/ \E a \in Admins :
       \/ AdminStep(a) \/ Stop(a)
       \/ \E i \in Ids : DeleteVCenter(a, i) \/ \E e \in Endpoints : EditVCenter(a, i, e)
  \/ \E i \in Ids : SwitchVCenter(i) \/ \E e \in Endpoints : CreateVCenter(i, e)
  \/ \E u \in Uuids, i \in Ids \cup {None} : Map(u, i)
  \/ SwitchGlobal
  \/ Rest

Spec == Init /\ [][Next]_vars
-----------------------------------------------------------------------------
(***************************************************************************)
(* Properties.                                                             *)
(***************************************************************************)
\* A request drives a vCenter its UUID was mapped to, at an endpoint that was
\* stored for it, at some time since the request came: an edit that was
\* answered before is never undone by a client left in the pool, and the three
\* critical sections of ClientForUUID mix up nothing.
DrivesWhatIsStored ==
  \A r \in Requests :
    req[r].pc = "act" =>
      LET c == client[req[r].client]
      IN c.of \in req[r].ids /\ <<c.of, c.ep>> \in req[r].eps

\* "outbound mutations ... faked": a request that changes a VM never does so on
\* a vCenter that dry-run covered from before the request came, unless the
\* mapping of the UUID was changed after the gate looked.
DryRunHonoured ==
  \A r \in Requests :
    req[r].pc = "act" /\ req[r].kind \in Changing =>
      \/ client[req[r].client].of \notin req[r].dry
      \/ \E i, j \in req[r].ids : i # j

\* Every session with a vCenter belongs to a client of the pool, which will close
\* it, except one of a client that was closed while a request had it: the request
\* logs in again and nobody logs that session out.
SessionsAccountedFor ==
  \A c \in Clients :
    client[c].session => (\E i \in Ids : pool[i] = c) \/ client[c].shared

\* The mutexes cannot be waited for in a circle: who holds the pool's is at work
\* on a client, and who holds a client's is logging in, which needs neither; and
\* nobody does either without the mutex.
LocksAreOrdered ==
  /\ \A r \in Requests : poolMu = r <=> req[r].pc = "replace"
  /\ \A a \in Admins : poolMu = a <=> adm[a].pc \in {"drop", "closeAll"}
  /\ \A c \in Clients, r \in Requests :
       client[c].busy = r <=> req[r].pc = "login" /\ req[r].client = c
=============================================================================
