----------------------------- MODULE GatewayProofs -----------------------------
(***************************************************************************)
(* Proofs about Gateway, for any vCenters, UUIDs, requests, clients and    *)
(* number of changes.                                                      *)
(*                                                                         *)
(* The inductive invariant follows a request along its way.  What it has   *)
(* taken so far, the id, the endpoint, then the client, was right at some  *)
(* time since it came (Rightly) and, for a change, was not covered by      *)
(* dry-run all that time, or the mapping moved (Spares); a pool slot holds *)
(* a client of that vCenter (PoolInv), and the pool or a closing accounts  *)
(* for each client in use (Rightly) and each session (SessionInv).         *)
(*                                                                         *)
(* The step lemma does not go through the actions once per invariant: a    *)
(* step of a request is first shown to advance its record in one of nine   *)
(* ways (Advances), and every step to tend the clients and the pool in one *)
(* way (Tends); the invariants are kept by these.                          *)
(***************************************************************************)
EXTENDS Gateway, TLAPS

\* The labels at which a request has a client.
Having == {"ensure", "login", "act"}

\* A slot of the pool holds a client made for its vCenter.
PoolInv == \A i \in Ids : pool[i] # None => client[pool[i]].of = i

\* The pool will close the client, or it was closed under a request.
Kept(c) == (\E i \in Ids : pool[i] = c) \/ client[c].shared

\* What the request has taken was right at some time since it came.
Rightly(r) ==
  /\ req[r].pc \in {"gate", "lookup"} => mapping[req[r].uuid] \in req[r].ids
  /\ req[r].pc \in {"gate", "lookup", "fetch"} => Stored \subseteq req[r].eps
  /\ req[r].pc \in {"fetch", "for", "replace"} => req[r].id \in req[r].ids
  /\ req[r].pc \in {"for", "replace"} => <<req[r].id, req[r].ep>> \in req[r].eps
  /\ req[r].pc \in Having =>
       /\ client[req[r].client].of \in req[r].ids
       /\ <<client[req[r].client].of, client[req[r].client].ep>> \in req[r].eps
       /\ Kept(req[r].client)

\* Dry-run did not cover i all the time, or the UUID was mapped anew.
Misses(r, i) == i \notin req[r].dry \/ \E j, k \in req[r].ids : j # k

\* From the gate on, a change is not under way to a vCenter covered all the time.
Spares(r) ==
  /\ req[r].dry \subseteq Covered
  /\ req[r].kind \in Changing =>
       /\ req[r].pc = "lookup" => Misses(r, mapping[req[r].uuid])
       /\ req[r].pc \in {"fetch", "for", "replace"} => Misses(r, req[r].id)
       /\ req[r].pc \in Having => Misses(r, client[req[r].client].of)

SessionInv == \A c \in Clients : client[c].session => Kept(c)

IInv ==
  /\ TypeOK /\ LocksAreOrdered /\ PoolInv /\ SessionInv
  /\ \A r \in Requests : Rightly(r) /\ Spares(r)

-----------------------------------------------------------------------------
(***************************************************************************)
(* The ways a step advances the record of a request.                       *)
(***************************************************************************)
Arrived(r) ==
  /\ req[r].pc = "idle"
  /\ Stored \subseteq req'[r].eps /\ req'[r].dry \subseteq Covered
  /\ \/ req'[r].pc = "gate" /\ mapping[req'[r].uuid] \in req'[r].ids
     \/ req'[r].pc = "lookup" /\ mapping[req'[r].uuid] \in req'[r].ids /\ req'[r].kind = "read"
     \/ req'[r].pc = "fetch" /\ req'[r].id \in req'[r].ids /\ req'[r].kind = "read"

Left(r) == req'[r].pc = "over" /\ req'[r].kind = "read" /\ req'[r].dry = {}

Passed(r) ==
  /\ req[r].pc = "gate" /\ mapping[req[r].uuid] \notin Covered
  /\ req'[r] = [req[r] EXCEPT !.pc = "lookup"]

Found(r) ==
  /\ req[r].pc = "lookup"
  /\ req'[r] = [req[r] EXCEPT !.pc = "fetch", !.id = mapping[req[r].uuid]]

Fetched(r) ==
  /\ req[r].pc = "fetch" /\ saved[req[r].id] # None
  /\ req'[r] = [req[r] EXCEPT !.pc = "for", !.ep = saved[req[r].id]]

Swaps(r) == req[r].pc = "for" /\ req'[r] = [req[r] EXCEPT !.pc = "replace"]

Got(r) ==
  /\ req[r].pc \in {"for", "replace"}
  /\ \E c \in Clients :
       /\ req'[r] = [req[r] EXCEPT !.pc = "ensure", !.client = c]
       /\ client'[c].of = req[r].id /\ client'[c].ep = req[r].ep
       /\ \E i \in Ids : pool'[i] = c

Works(r) ==
  /\ req[r].pc \in Having
  /\ \E l \in Having : req'[r] = [req[r] EXCEPT !.pc = l]

Reads(r) ==
  /\ req[r].pc = "act"
  /\ req'[r] = [req[r] EXCEPT !.pc = "ensure", !.kind = "read", !.dry = {}]

Advances(r) ==
  /\ \A s \in Requests \ {r} : req'[s] = req[s]
  /\ \/ Arrived(r) \/ Left(r) \/ Passed(r) \/ Found(r) \/ Fetched(r)
     \/ Swaps(r) \/ Got(r) \/ Works(r) \/ Reads(r)

\* The request has the client.
Has(r, c) == req[r].pc \in Having /\ req[r].client = c

\* What a step does to the client objects and the pool.
Tends ==
  /\ PoolInv'
  /\ \A c \in Clients, r \in Requests :
       Has(r, c) =>
         /\ client'[c].of = client[c].of /\ client'[c].ep = client[c].ep
         /\ Kept(c) => Kept(c)'
  /\ \A c \in Clients :
       client'[c].session =>
         \/ client[c].session /\ (Kept(c) => Kept(c)')
         \/ Kept(c)'
         \/ \E r \in Requests : Has(r, c)

-----------------------------------------------------------------------------
(***************************************************************************)
(* What the operators do.                                                  *)
(***************************************************************************)
\* The histories a change adds to leave a request's way as it is.
LEMMA WitnessedKeeps ==
  ASSUME GatewayAssumption, TypeOK, Witnessed,
         mapping' \in [Uuids -> Ids \cup {None}],
         saved' \in [Ids -> Endpoints \cup {None}]
  PROVE  /\ req' \in [Requests -> RequestRecords]
         /\ \A r \in Requests :
              /\ req'[r].pc = req[r].pc /\ req'[r].kind = req[r].kind
              /\ req'[r].uuid = req[r].uuid /\ req'[r].id = req[r].id
              /\ req'[r].ep = req[r].ep /\ req'[r].client = req[r].client
<1> USE DEF TypeOK
<1>1. ASSUME NEW r \in Requests
      PROVE  /\ req'[r] \in RequestRecords
             /\ req'[r].pc = req[r].pc /\ req'[r].kind = req[r].kind
             /\ req'[r].uuid = req[r].uuid /\ req'[r].id = req[r].id
             /\ req'[r].ep = req[r].ep /\ req'[r].client = req[r].client
  <2>1. req[r] \in RequestRecords
    OBVIOUS
  <2>2. Stored' \in SUBSET (Ids \X Endpoints)
    BY DEF Stored
  <2>3. req[r].pc \in {"gate", "lookup"} => mapping'[req[r].uuid] \in Ids \cup {None}
    OBVIOUS
  <2> DEFINE asks == req[r].pc \in {"gate", "lookup"}
             ids  == req[r].ids \cup IF asks THEN {mapping'[req[r].uuid]} ELSE {}
             eps  == req[r].eps \cup IF asks \/ req[r].pc = "fetch" THEN Stored' ELSE {}
             dry  == req[r].dry \cap Covered'
  <2>4. req'[r] = [req[r] EXCEPT !.ids = ids, !.eps = eps, !.dry = dry]
    BY DEF Witnessed
  <2>5. ids \in SUBSET (Ids \cup {None}) /\ eps \in SUBSET (Ids \X Endpoints) /\ dry \in SUBSET Ids
    BY <2>1, <2>2, <2>3 DEF RequestRecords
  <2> HIDE DEF ids, eps, dry
  <2> QED
    BY <2>1, <2>4, <2>5, ZenonT(30) DEF RequestRecords
<1>2. DOMAIN req' = Requests /\ req' = [r \in Requests |-> req'[r]]
  BY DEF Witnessed
<1> QED
  BY <1>1, <1>2

\* A closed client is a client.
LEMMA ClosedType ==
  ASSUME TypeOK, NEW c \in Clients
  PROVE  Closed(c) \in ClientObjects
<1>1. client[c] \in ClientObjects
  BY DEF TypeOK
<1> QED
  BY <1>1 DEF Closed, ClientObjects

\* NewClient gives the request a client of the pool, or ends it.
LEMMA NewClientShape ==
  ASSUME GatewayAssumption, TypeOK, NEW r \in Requests, req[r].pc \in {"for", "replace"},
         NEW objects \in [Clients -> ClientObjects], NewClient(r, objects)
  PROVE  /\ client' \in [Clients -> ClientObjects]
         /\ pool' \in [Ids -> Clients \cup {None}]
         /\ req' \in [Requests -> RequestRecords]
         /\ \A s \in Requests \ {r} : req'[s] = req[s]
         /\ req'[r].pc \in {"ensure", "over"}
         /\ req'[r].pc = "ensure" => req'[r].client \in Clients
         /\ \A i \in Ids \ {req[r].id} : pool'[i] = pool[i]
<1>1. req[r] \in RequestRecords /\ req[r].id \in Ids /\ req[r].ep \in Endpoints
  BY DEF TypeOK
<1>2. CASE \E c \in Spare :
             /\ client' = [objects EXCEPT ![c] = NewObject(req[r].id, req[r].ep)]
             /\ pool' = [pool EXCEPT ![req[r].id] = c]
             /\ req' = [req EXCEPT ![r].pc = "ensure", ![r].client = c]
  <2>1. PICK c \in Spare : /\ client' = [objects EXCEPT ![c] = NewObject(req[r].id, req[r].ep)]
                           /\ pool' = [pool EXCEPT ![req[r].id] = c]
                           /\ req' = [req EXCEPT ![r].pc = "ensure", ![r].client = c]
    BY <1>2
  <2>2. c \in Clients
    BY DEF Spare
  <2>3. NewObject(req[r].id, req[r].ep) \in ClientObjects
    BY <1>1 DEF NewObject, ClientObjects
  <2>4. [req[r] EXCEPT !.pc = "ensure", !.client = c] \in RequestRecords
    BY <1>1, <2>2 DEF RequestRecords, Labels
  <2>5. req' = [req EXCEPT ![r] = [req[r] EXCEPT !.pc = "ensure", !.client = c]]
    BY <2>1 DEF TypeOK
  <2> QED
    BY <1>1, <2>1, <2>2, <2>3, <2>4, <2>5 DEF TypeOK, RequestRecords
<1>3. CASE /\ client' = objects
           /\ pool' = [pool EXCEPT ![req[r].id] = None]
           /\ Ends(r)
  <2>1. [Idle EXCEPT !.pc = "over"] \in RequestRecords
    BY DEF Idle, RequestRecords, Labels, Ended
  <2>2. [Idle EXCEPT !.pc = "over"].pc = "over"
    BY DEF Idle
  <2> QED
    BY <1>1, <1>3, <2>1, <2>2 DEF TypeOK, Ends
<1> QED
  BY <1>2, <1>3 DEF NewClient

\* A client made anew was not locked.
LEMMA NewClientBusy ==
  ASSUME GatewayAssumption, TypeOK, LocksAreOrdered,
         NEW r \in Requests, req[r].pc \in {"for", "replace"},
         NEW objects \in [Clients -> ClientObjects], NewClient(r, objects),
         \A d \in Clients : objects[d].busy = client[d].busy
  PROVE  \A d \in Clients : client'[d].busy = client[d].busy
<1>1. CASE client' = objects
  BY <1>1
<1>2. ASSUME NEW c \in Spare, client' = [objects EXCEPT ![c] = NewObject(req[r].id, req[r].ep)]
      PROVE  \A d \in Clients : client'[d].busy = client[d].busy
  <2>1. c \in Clients /\ \A s \in Requests : ~(req[s].pc = "login" /\ req[s].client = c)
    BY DEF Spare, Holders, Active, Ended
  <2>2. client[c].busy = None
    BY <2>1 DEF LocksAreOrdered, TypeOK, ClientObjects
  <2> QED
    BY <1>2, <2>1, <2>2 DEF NewObject
<1> QED
  BY <1>1, <1>2 DEF NewClient

\* One case per action, as in the lemma about the mutexes below.
LEMMA TypeStep ==
  ASSUME GatewayAssumption, TypeOK, LocksAreOrdered, [Next]_vars
  PROVE  TypeOK'
<1> USE DEF TypeOK
<1>1. ASSUME NEW r \in Requests, NEW u \in Uuids, Arrive(r, u) PROVE TypeOK'
  BY <1>1, SMTT(30)
     DEF Arrive, Arrival, RequestRecords, Labels, Ended, Changing, Stored, Covered, store
<1>2. ASSUME NEW r \in Requests, NEW i \in Ids, ArriveById(r, i) PROVE TypeOK'
  BY <1>2, SMTT(30)
     DEF ArriveById, Arrival, RequestRecords, Labels, Ended, Changing, Stored, Covered, store,
         GatewayAssumption
<1>3. ASSUME NEW r \in Requests, Gate(r) PROVE TypeOK'
  BY <1>3, SMTT(30) DEF Gate, Goto, Ends, Idle, RequestRecords, Labels, Ended, Changing, store
<1>4. ASSUME NEW r \in Requests, Lookup(r) PROVE TypeOK'
  BY <1>4, SMTT(30)
     DEF Lookup, Goto, Ends, Idle, RequestRecords, Labels, Ended, Changing, store
<1>5. ASSUME NEW r \in Requests, Fetch(r) PROVE TypeOK'
  BY <1>5, SMTT(30) DEF Fetch, Goto, Ends, Idle, RequestRecords, Labels, Ended, Changing, store
<1>6. ASSUME NEW r \in Requests, For(r) PROVE TypeOK'
  <2>1. r \in Requests /\ req[r] \in RequestRecords /\ req[r].id \in Ids /\ req[r].pc = "for"
    BY <1>6 DEF For
  <2>2. CASE pool[req[r].id] = None
    <3>1. NewClient(r, client) /\ UNCHANGED poolMu
      BY <1>6, <2>2 DEF For
    <3>2. client \in [Clients -> ClientObjects]
      OBVIOUS
    <3> QED
      BY <1>6, <2>1, <3>1, <3>2, NewClientShape DEF For, store
  <2>3. CASE /\ pool[req[r].id] # None
             /\ client[pool[req[r].id]].ep = req[r].ep
    BY <1>6, <2>1, <2>3 DEF For, SameEndpoint, RequestRecords, Labels, store
  <2>4. CASE /\ pool[req[r].id] # None
             /\ client[pool[req[r].id]].ep # req[r].ep
    <3>1. [req[r] EXCEPT !.pc = "replace"] \in RequestRecords
      BY <2>1 DEF RequestRecords, Labels
    <3>2. req' = [req EXCEPT ![r] = [req[r] EXCEPT !.pc = "replace"]] /\ poolMu' = r
      BY <1>6, <2>4 DEF For, SameEndpoint, Goto
    <3> QED
      BY <1>6, <2>1, <2>4, <3>1, <3>2 DEF For, SameEndpoint, RequestRecords, store
  <2> QED
    BY <2>2, <2>3, <2>4
<1>7. ASSUME NEW r \in Requests, Replace(r) PROVE TypeOK'
  <2> DEFINE c == pool[req[r].id]
             objects == [client EXCEPT ![c] = Closed(c)]
  <2>1. req[r].pc = "replace" /\ req[r].id \in Ids /\ c \in Clients
    BY <1>7 DEF Replace
  <2>2. objects \in [Clients -> ClientObjects]
    BY <2>1, ClosedType
  <2>3. NewClient(r, objects)
    BY <1>7 DEF Replace
  <2>4. \A s \in Requests \ {r} : req[s].pc # "replace"
    BY <2>1 DEF LocksAreOrdered
  <2>5. \A a \in Admins : adm[a].pc # "drop"
    BY <2>1 DEF LocksAreOrdered, GatewayAssumption
  <2> HIDE DEF objects
  <2> QED
    BY <1>7, <2>1, <2>2, <2>3, <2>4, <2>5, NewClientShape DEF Replace, store
<1>8. ASSUME NEW r \in Requests, Ensure(r) PROVE TypeOK'
  <2>1. req[r] \in RequestRecords /\ req[r].client \in Clients /\ client[req[r].client] \in ClientObjects
    BY <1>8 DEF Ensure
  <2>2. client' \in [Clients -> ClientObjects]
    BY <1>8, <2>1 DEF Ensure, ClientObjects
  <2>3. req' \in [Requests -> RequestRecords] /\ req'[r].pc \in {"act", "login"}
        /\ req'[r].client = req[r].client /\ \A s \in Requests \ {r} : req'[s] = req[s]
    BY <1>8, <2>1 DEF Ensure, Goto, RequestRecords, Labels
  <2> QED
    BY <1>8, <2>1, <2>2, <2>3 DEF Ensure, store
<1>9. ASSUME NEW r \in Requests, LoggedIn(r) PROVE TypeOK'
  <2>1. req[r] \in RequestRecords /\ req[r].client \in Clients /\ client[req[r].client] \in ClientObjects
    BY <1>9 DEF LoggedIn
  <2>2. client' \in [Clients -> ClientObjects]
    BY <1>9, <2>1 DEF LoggedIn, ClientObjects
  <2>3. req' \in [Requests -> RequestRecords] /\ req'[r].pc = "act"
        /\ req'[r].client = req[r].client /\ \A s \in Requests \ {r} : req'[s] = req[s]
    BY <1>9, <2>1 DEF LoggedIn, Goto, RequestRecords, Labels
  <2> QED
    BY <1>9, <2>1, <2>2, <2>3 DEF LoggedIn, store
<1>10. ASSUME NEW r \in Requests, LoginFails(r) PROVE TypeOK'
  BY <1>10, SMTT(30)
     DEF LoginFails, ClientObjects, NewObject, Closed, Spare, Goto, Ends, Idle, RequestRecords,
         Labels, Ended, Changing, store
<1>11. ASSUME NEW r \in Requests, Act(r) PROVE TypeOK'
  BY <1>11, SMTT(30) DEF Act, Goto, Ends, Idle, RequestRecords, Labels, Ended, Changing, store
<1>12. ASSUME NEW i \in Ids, NEW e \in Endpoints, CreateVCenter(i, e) PROVE TypeOK'
  BY <1>12, WitnessedKeeps DEF CreateVCenter, Change, AdminRecords
<1>13. ASSUME NEW a \in Admins, NEW i \in Ids, NEW e \in Endpoints, EditVCenter(a, i, e)
       PROVE  TypeOK'
  BY <1>13, WitnessedKeeps DEF EditVCenter, Change, AdminRecords
<1>14. ASSUME NEW a \in Admins, NEW i \in Ids, DeleteVCenter(a, i) PROVE TypeOK'
  BY <1>14, WitnessedKeeps DEF DeleteVCenter, Change, AdminRecords
<1>15. ASSUME NEW i \in Ids, SwitchVCenter(i) PROVE TypeOK'
  BY <1>15, WitnessedKeeps DEF SwitchVCenter, Change, AdminRecords
<1>16. ASSUME SwitchGlobal PROVE TypeOK'
  BY <1>16, WitnessedKeeps DEF SwitchGlobal, Change, AdminRecords
<1>17. ASSUME NEW u \in Uuids, NEW i \in Ids \cup {None}, Map(u, i) PROVE TypeOK'
  BY <1>17, WitnessedKeeps DEF Map, Change, AdminRecords
<1>18. ASSUME NEW a \in Admins, Invalidate(a) PROVE TypeOK'
  BY <1>18, SMTT(30) DEF Invalidate, AdminRecords, store
<1>19. ASSUME NEW a \in Admins, Drop(a) PROVE TypeOK'
  <2> DEFINE c == pool[adm[a].id]
  <2>1. adm[a].pc = "drop" /\ adm[a].id \in Ids /\ c \in Clients /\ poolMu = a
    BY <1>19 DEF Drop, LocksAreOrdered
  <2>2. client' \in [Clients -> ClientObjects] /\ pool' \in [Ids -> Clients \cup {None}]
    BY <1>19, <2>1, ClosedType DEF Drop
  <2>3. adm' \in [Admins -> AdminRecords] /\ adm'[a].pc = "idle"
        /\ \A b \in Admins \ {a} : adm'[b] = adm[b] /\ adm[b].pc # "drop"
    BY <1>19, <2>1 DEF Drop, AdminRecords, LocksAreOrdered
  <2>4. \A r \in Requests : req[r].pc # "replace"
    BY <2>1 DEF LocksAreOrdered, GatewayAssumption
  <2> QED
    BY <1>19, <2>1, <2>2, <2>3, <2>4 DEF Drop, store
<1>20. ASSUME NEW a \in Admins, Stop(a) PROVE TypeOK'
  BY <1>20, SMTT(30) DEF Stop, AdminRecords, store
<1>21. ASSUME NEW a \in Admins, CloseAll(a) PROVE TypeOK'
  <2>1. poolMu = a
    BY <1>21 DEF CloseAll, LocksAreOrdered
  <2>2. /\ \A r \in Requests : req[r].pc # "replace"
        /\ \A b \in Admins : adm[b].pc # "drop"
    BY <1>21, <2>1 DEF CloseAll, LocksAreOrdered, GatewayAssumption
  <2>3. client' \in [Clients -> ClientObjects] /\ pool' \in [Ids -> Clients \cup {None}]
    BY <1>21, ClosedType DEF CloseAll
  <2> QED
    BY <1>21, <2>2, <2>3 DEF CloseAll, store
<1>22. CASE UNCHANGED vars
  BY <1>22 DEF vars
<1> QED
  BY <1>1, <1>2, <1>3, <1>4, <1>5, <1>6, <1>7, <1>8, <1>9, <1>10, <1>11, <1>12, <1>13, <1>14,
     <1>15, <1>16, <1>17, <1>18, <1>19, <1>20, <1>21, <1>22
     DEF Next, Step, AdminStep, Rest

\* What a jump of a request changes.
LEMMA GotoShape ==
  ASSUME TypeOK, NEW r \in Requests, NEW label \in Labels, Goto(r, label)
  PROVE  /\ req'[r] = [req[r] EXCEPT !.pc = label]
         /\ req'[r].pc = label
         /\ req'[r].client = req[r].client
         /\ \A s \in Requests \ {r} : req'[s] = req[s]
<1>1. req[r] \in RequestRecords
  BY DEF TypeOK
<1> QED
  BY <1>1 DEF TypeOK, Goto, RequestRecords

\* What the end of a request changes.
LEMMA EndsShape ==
  ASSUME TypeOK, NEW r \in Requests, Ends(r)
  PROVE  /\ req'[r].pc = "over" /\ req'[r].client = None
         /\ req'[r].kind = "read" /\ req'[r].dry = {}
         /\ \A s \in Requests \ {r} : req'[s] = req[s]
  BY DEF TypeOK, Ends, Idle

\* Most steps leave the mutexes alone (a, d); the pool's is released in one
\* way (b), a client's in another (c).
LEMMA LocksStep ==
  ASSUME GatewayAssumption, TypeOK, LocksAreOrdered, [Next]_vars
  PROVE  LocksAreOrdered'
<1> DEFINE Quiet == {"idle", "over", "gate", "lookup", "fetch", "for", "ensure", "act"}
<1>a. ASSUME NEW r \in Requests, req[r].pc \in Quiet, req'[r].pc \in Quiet,
             \A s \in Requests \ {r} : req'[s] = req[s],
             UNCHANGED <<poolMu, client, adm>>
      PROVE  LocksAreOrdered'
  <2>1. \A s \in Requests : /\ req'[s].pc = "replace" <=> req[s].pc = "replace"
                            /\ req'[s].pc = "login" <=> req[s].pc = "login"
                            /\ req[s].pc = "login" => req'[s].client = req[s].client
    BY <1>a
  <2> QED
    BY <1>a, <2>1 DEF LocksAreOrdered
<1>b. ASSUME NEW b \in Requests \cup Admins, poolMu = b,
             \A s \in Requests : req'[s].pc # "replace",
             \A s \in Requests : /\ req'[s].pc = "login" <=> req[s].pc = "login"
                                 /\ req[s].pc = "login" => req'[s].client = req[s].client,
             \A a \in Admins : adm'[a].pc \notin {"drop", "closeAll"},
             \A c \in Clients : client'[c].busy = client[c].busy,
             poolMu' = None
      PROVE  LocksAreOrdered'
  <2>1. \A s \in Requests : poolMu' = s <=> req'[s].pc = "replace"
    BY <1>b DEF GatewayAssumption
  <2>2. \A a \in Admins : poolMu' = a <=> adm'[a].pc \in {"drop", "closeAll"}
    BY <1>b DEF GatewayAssumption
  <2>3. ASSUME NEW c \in Clients, NEW s \in Requests
        PROVE  client'[c].busy = s <=> req'[s].pc = "login" /\ req'[s].client = c
    <3>1. client[c].busy = s <=> req[s].pc = "login" /\ req[s].client = c
      BY DEF LocksAreOrdered
    <3>2. req'[s].pc = "login" <=> req[s].pc = "login"
      BY <1>b
    <3>3. req[s].pc = "login" => req'[s].client = req[s].client
      BY <1>b
    <3>4. client'[c].busy = client[c].busy
      BY <1>b
    <3> QED
      BY <3>1, <3>2, <3>3, <3>4
  <2> QED
    BY <2>1, <2>2, <2>3 DEF LocksAreOrdered
<1>1. ASSUME NEW r \in Requests, NEW u \in Uuids, Arrive(r, u) PROVE LocksAreOrdered'
  BY <1>1, <1>a DEF Arrive, Arrival, TypeOK
<1>2. ASSUME NEW r \in Requests, NEW i \in Ids, ArriveById(r, i) PROVE LocksAreOrdered'
  BY <1>2, <1>a DEF ArriveById, Arrival, TypeOK
<1>3. ASSUME NEW r \in Requests, Gate(r) PROVE LocksAreOrdered'
  <2>1. Ends(r) \/ Goto(r, "lookup")
    BY <1>3 DEF Gate
  <2> QED
    BY <1>3, <1>a, <2>1, GotoShape, EndsShape DEF Gate, Labels
<1>4. ASSUME NEW r \in Requests, Lookup(r) PROVE LocksAreOrdered'
  <2>1. req[r] \in RequestRecords
    BY DEF TypeOK
  <2>2. CASE Ends(r)
    BY <1>4, <1>a, <2>2, EndsShape DEF Lookup
  <2>3. CASE req' = [req EXCEPT ![r].pc = "fetch", ![r].id = mapping[req[r].uuid]]
    BY <1>4, <1>a, <2>1, <2>3 DEF Lookup, TypeOK, RequestRecords
  <2> QED
    BY <1>4, <2>2, <2>3 DEF Lookup
<1>5. ASSUME NEW r \in Requests, Fetch(r) PROVE LocksAreOrdered'
  <2>1. req[r] \in RequestRecords
    BY DEF TypeOK
  <2>2. CASE Ends(r)
    BY <1>5, <1>a, <2>2, EndsShape DEF Fetch
  <2>3. CASE req' = [req EXCEPT ![r].pc = "for", ![r].ep = saved[req[r].id]]
    BY <1>5, <1>a, <2>1, <2>3 DEF Fetch, TypeOK, RequestRecords
  <2> QED
    BY <1>5, <2>2, <2>3 DEF Fetch
<1>6. ASSUME NEW r \in Requests, For(r) PROVE LocksAreOrdered'
  <2>1. req[r] \in RequestRecords /\ req[r].pc = "for" /\ req[r].id \in Ids
    BY <1>6 DEF For, TypeOK
  <2>2. CASE pool[req[r].id] = None
    <3>1. NewClient(r, client) /\ UNCHANGED <<poolMu, adm>>
      BY <1>6, <2>2 DEF For
    <3>2. \A c \in Clients : client'[c].busy = client[c].busy
      BY <2>1, <3>1, NewClientBusy DEF TypeOK
    <3>3. /\ \A s \in Requests \ {r} : req'[s] = req[s]
          /\ req'[r].pc \in {"ensure", "over"}
      BY <2>1, <3>1, NewClientShape DEF TypeOK
    <3>4. \A s \in Requests : /\ req'[s].pc = "replace" <=> req[s].pc = "replace"
                              /\ req'[s].pc = "login" <=> req[s].pc = "login"
                              /\ req[s].pc = "login" => req'[s].client = req[s].client
      BY <2>1, <3>3
    <3> QED
      BY <3>1, <3>2, <3>4 DEF LocksAreOrdered
  <2>3. CASE /\ req' = [req EXCEPT ![r].pc = "ensure", ![r].client = pool[req[r].id]]
             /\ UNCHANGED <<poolMu, client, adm>>
    BY <1>a, <2>1, <2>3 DEF TypeOK, RequestRecords
  <2>4. CASE poolMu' = r /\ Goto(r, "replace") /\ UNCHANGED <<client, adm>>
    <3>1. poolMu = None
      BY <1>6 DEF For
    <3>2. \A s \in Requests \ {r} : req'[s] = req[s]
      BY <2>4, GotoShape DEF Labels
    <3>3. req'[r].pc = "replace"
      BY <2>4, GotoShape DEF Labels
    <3> QED
      BY <2>1, <2>4, <3>1, <3>2, <3>3 DEF LocksAreOrdered, GatewayAssumption
  <2> QED
    BY <1>6, <2>2, <2>3, <2>4 DEF For
<1>7. ASSUME NEW r \in Requests, Replace(r) PROVE LocksAreOrdered'
  <2> DEFINE c == pool[req[r].id]
             objects == [client EXCEPT ![c] = Closed(c)]
  <2>1. req[r].pc = "replace" /\ req[r].id \in Ids /\ c \in Clients
    BY <1>7 DEF Replace, TypeOK
  <2>2. objects \in [Clients -> ClientObjects] /\ \A d \in Clients : objects[d].busy = client[d].busy
    BY <2>1, ClosedType DEF Closed, TypeOK, ClientObjects
  <2>3. NewClient(r, objects) /\ poolMu' = None /\ UNCHANGED adm
    BY <1>7 DEF Replace
  <2> HIDE DEF objects
  <2>4. \A d \in Clients : client'[d].busy = client[d].busy
    BY <2>1, <2>2, <2>3, NewClientBusy
  <2>5. /\ \A s \in Requests \ {r} : req'[s] = req[s]
        /\ req'[r].pc \in {"ensure", "over"}
    BY <2>1, <2>2, <2>3, NewClientShape
  <2>6. poolMu = r
    BY <2>1 DEF LocksAreOrdered
  <2> QED
    BY <1>b, <2>1, <2>3, <2>4, <2>5, <2>6 DEF LocksAreOrdered, GatewayAssumption
<1>8. ASSUME NEW r \in Requests, Ensure(r) PROVE LocksAreOrdered'
  <2>1. req[r].pc = "ensure" /\ req[r].client \in Clients /\ client[req[r].client].busy = None
    BY <1>8 DEF Ensure, TypeOK
  <2>2. CASE Goto(r, "act") /\ UNCHANGED client
    BY <1>8, <1>a, <2>1, <2>2, GotoShape DEF Ensure, Labels
  <2>3. CASE Goto(r, "login") /\ client' = [client EXCEPT ![req[r].client].busy = r]
    <3>1. /\ \A s \in Requests \ {r} : req'[s] = req[s]
          /\ req'[r].pc = "login" /\ req'[r].client = req[r].client
      BY <2>3, GotoShape DEF Labels
    <3>2. /\ client'[req[r].client].busy = r
          /\ \A d \in Clients \ {req[r].client} : client'[d] = client[d]
      BY <2>1, <2>3 DEF TypeOK, ClientObjects
    <3>3. UNCHANGED <<poolMu, adm>>
      BY <1>8 DEF Ensure
    <3> QED
      BY <2>1, <3>1, <3>2, <3>3 DEF LocksAreOrdered, GatewayAssumption
  <2> QED
    BY <1>8, <2>2, <2>3 DEF Ensure
<1>c. ASSUME NEW r \in Requests, req[r].pc = "login", req'[r].pc \in {"act", "over"},
             \A s \in Requests \ {r} : req'[s] = req[s],
             client'[req[r].client].busy = None,
             \A d \in Clients \ {req[r].client} : client'[d] = client[d],
             UNCHANGED <<poolMu, adm>>
      PROVE  LocksAreOrdered'
  <2>1. req[r].client \in Clients /\ client[req[r].client].busy = r
    BY <1>c DEF LocksAreOrdered, TypeOK
  <2> QED
    BY <1>c, <2>1 DEF LocksAreOrdered, GatewayAssumption
<1>9. ASSUME NEW r \in Requests, LoggedIn(r) PROVE LocksAreOrdered'
  <2>1. req[r].pc = "login" /\ req[r].client \in Clients /\ Goto(r, "act") /\ UNCHANGED <<poolMu, adm>>
    BY <1>9 DEF LoggedIn, TypeOK
  <2>2. client[req[r].client] \in ClientObjects
    BY <2>1 DEF TypeOK
  <2>3. /\ client'[req[r].client].busy = None
        /\ \A d \in Clients \ {req[r].client} : client'[d] = client[d]
    BY <1>9, <2>1, <2>2 DEF LoggedIn, TypeOK, ClientObjects
  <2> QED
    BY <1>c, <2>1, <2>3, GotoShape DEF Labels
<1>10. ASSUME NEW r \in Requests, LoginFails(r) PROVE LocksAreOrdered'
  <2>1. req[r].pc = "login" /\ req[r].client \in Clients /\ Ends(r) /\ UNCHANGED <<poolMu, adm>>
    BY <1>10 DEF LoginFails, TypeOK
  <2>2. client[req[r].client] \in ClientObjects
    BY <2>1 DEF TypeOK
  <2>3. /\ client'[req[r].client].busy = None
        /\ \A d \in Clients \ {req[r].client} : client'[d] = client[d]
    BY <1>10, <2>1, <2>2 DEF LoginFails, TypeOK, ClientObjects
  <2> QED
    BY <1>c, <2>1, <2>3, EndsShape
<1>11. ASSUME NEW r \in Requests, Act(r) PROVE LocksAreOrdered'
  <2>1. req[r].pc = "act" /\ req[r] \in RequestRecords /\ UNCHANGED <<poolMu, client, adm>>
    BY <1>11 DEF Act, TypeOK
  <2>2. CASE Ends(r)
    BY <1>a, <2>1, <2>2, EndsShape
  <2>3. CASE req' = [req EXCEPT ![r].pc = "ensure", ![r].kind = "read", ![r].dry = {}]
    BY <1>a, <2>1, <2>3 DEF TypeOK, RequestRecords
  <2> QED
    BY <1>11, <2>2, <2>3 DEF Act
<1>d. ASSUME \A s \in Requests : req'[s].pc = req[s].pc /\ req'[s].client = req[s].client,
             \A a \in Admins : adm'[a].pc \in {"drop", "closeAll"} <=> adm[a].pc \in {"drop", "closeAll"},
             UNCHANGED <<poolMu, client>>
      PROVE  LocksAreOrdered'
  BY <1>d DEF LocksAreOrdered
<1>12. ASSUME NEW i \in Ids, NEW e \in Endpoints, CreateVCenter(i, e) PROVE LocksAreOrdered'
  BY <1>12, <1>d, WitnessedKeeps DEF CreateVCenter, Change, TypeOK
<1>13. ASSUME NEW a \in Admins, NEW i \in Ids, NEW e \in Endpoints, EditVCenter(a, i, e)
       PROVE  LocksAreOrdered'
  <2>1. \A s \in Requests : req'[s].pc = req[s].pc /\ req'[s].client = req[s].client
    BY <1>13, WitnessedKeeps DEF EditVCenter, Change, TypeOK
  <2>2. \A b \in Admins : adm'[b].pc \in {"drop", "closeAll"} <=> adm[b].pc \in {"drop", "closeAll"}
    BY <1>13 DEF EditVCenter, TypeOK
  <2> QED
    BY <1>13, <1>d, <2>1, <2>2 DEF EditVCenter, Change
<1>14. ASSUME NEW a \in Admins, NEW i \in Ids, DeleteVCenter(a, i) PROVE LocksAreOrdered'
  <2>1. \A s \in Requests : req'[s].pc = req[s].pc /\ req'[s].client = req[s].client
    BY <1>14, WitnessedKeeps DEF DeleteVCenter, Change, TypeOK
  <2>2. \A b \in Admins : adm'[b].pc \in {"drop", "closeAll"} <=> adm[b].pc \in {"drop", "closeAll"}
    BY <1>14 DEF DeleteVCenter, TypeOK
  <2> QED
    BY <1>14, <1>d, <2>1, <2>2 DEF DeleteVCenter, Change
<1>15. ASSUME NEW i \in Ids, SwitchVCenter(i) PROVE LocksAreOrdered'
  BY <1>15, <1>d, WitnessedKeeps DEF SwitchVCenter, Change, TypeOK
<1>16. ASSUME SwitchGlobal PROVE LocksAreOrdered'
  BY <1>16, <1>d, WitnessedKeeps DEF SwitchGlobal, Change, TypeOK
<1>17. ASSUME NEW u \in Uuids, NEW i \in Ids \cup {None}, Map(u, i) PROVE LocksAreOrdered'
  BY <1>17, <1>d, WitnessedKeeps DEF Map, Change, TypeOK
<1>18. ASSUME NEW a \in Admins, Invalidate(a) PROVE LocksAreOrdered'
  <2>1. adm[a] \in AdminRecords /\ adm[a].pc = "invalidate" /\ poolMu = None /\ UNCHANGED <<req, client>>
    BY <1>18 DEF Invalidate, TypeOK
  <2>2. CASE adm' = [adm EXCEPT ![a].pc = "idle"] /\ UNCHANGED poolMu
    <3>1. \A b \in Admins : adm'[b].pc \in {"drop", "closeAll"} <=> adm[b].pc \in {"drop", "closeAll"}
      BY <2>1, <2>2 DEF TypeOK, AdminRecords
    <3> QED
      BY <1>d, <2>1, <2>2, <3>1
  <2>3. CASE adm' = [adm EXCEPT ![a].pc = "drop"] /\ poolMu' = a
    <3>1. adm'[a].pc = "drop" /\ \A b \in Admins \ {a} : adm'[b] = adm[b]
      BY <2>1, <2>3 DEF TypeOK, AdminRecords
    <3> QED
      BY <2>1, <2>3, <3>1 DEF LocksAreOrdered, GatewayAssumption
  <2> QED
    BY <1>18, <2>2, <2>3 DEF Invalidate
<1>19. ASSUME NEW a \in Admins, Drop(a) PROVE LocksAreOrdered'
  <2> DEFINE c == pool[adm[a].id]
  <2>1. adm[a] \in AdminRecords /\ adm[a].pc = "drop" /\ c \in Clients /\ poolMu = a
    BY <1>19 DEF Drop, LocksAreOrdered, TypeOK
  <2>2. \A d \in Clients : client'[d].busy = client[d].busy
    BY <1>19, <2>1 DEF Drop, Closed, TypeOK, ClientObjects
  <2>3. \A b \in Admins : adm'[b].pc \notin {"drop", "closeAll"}
    BY <1>19, <2>1 DEF Drop, TypeOK, AdminRecords, LocksAreOrdered
  <2>4. \A s \in Requests : req'[s] = req[s] /\ req[s].pc # "replace"
    BY <1>19, <2>1 DEF Drop, LocksAreOrdered, GatewayAssumption
  <2>5. poolMu' = None
    BY <1>19 DEF Drop
  <2> QED
    BY <1>b, <2>1, <2>2, <2>3, <2>4, <2>5
<1>20. ASSUME NEW a \in Admins, Stop(a) PROVE LocksAreOrdered'
  <2>1. adm[a] \in AdminRecords /\ poolMu = None /\ poolMu' = a /\ UNCHANGED <<req, client>>
    BY <1>20 DEF Stop, TypeOK
  <2>2. adm'[a].pc = "closeAll" /\ \A b \in Admins \ {a} : adm'[b] = adm[b]
    BY <1>20, <2>1 DEF Stop, TypeOK, AdminRecords
  <2> QED
    BY <2>1, <2>2 DEF LocksAreOrdered, GatewayAssumption
<1>21. ASSUME NEW a \in Admins, CloseAll(a) PROVE LocksAreOrdered'
  <2>1. \A d \in Clients : client'[d].busy = client[d].busy
    <3>1. CASE UNCHANGED client
      BY <3>1
    <3>2. ASSUME NEW i \in Ids, pool[i] # None,
                 client' = [client EXCEPT ![pool[i]] = Closed(pool[i])]
          PROVE  \A d \in Clients : client'[d].busy = client[d].busy
      BY <3>2 DEF Closed, TypeOK, ClientObjects
    <3> QED
      BY <1>21, <3>1, <3>2 DEF CloseAll
  <2>2. UNCHANGED <<poolMu, req, adm>>
    BY <1>21 DEF CloseAll
  <2> QED
    BY <2>1, <2>2 DEF LocksAreOrdered
<1>22. CASE UNCHANGED vars
  BY <1>22 DEF vars, LocksAreOrdered
<1> QED
  BY <1>1, <1>2, <1>3, <1>4, <1>5, <1>6, <1>7, <1>8, <1>9, <1>10, <1>11, <1>12, <1>13, <1>14,
     <1>15, <1>16, <1>17, <1>18, <1>19, <1>20, <1>21, <1>22 DEF Next, Step, AdminStep, Rest

\* A request is a request record.
LEMMA ReqTyped ==
  ASSUME TypeOK, NEW r \in Requests
  PROVE  req[r] \in RequestRecords
  BY DEF TypeOK

\* NewClient advances a request by the client it made.
LEMMA NewClientGives ==
  ASSUME GatewayAssumption, TypeOK, NEW r \in Requests, req[r].pc \in {"for", "replace"},
         NEW objects \in [Clients -> ClientObjects], NewClient(r, objects)
  PROVE  Advances(r)
<1>1. req[r] \in RequestRecords /\ req[r].id \in Ids
  BY DEF TypeOK
<1>2. CASE Ends(r)
  BY <1>2, EndsShape DEF Advances, Left
<1>3. ASSUME NEW c \in Spare,
             client' = [objects EXCEPT ![c] = NewObject(req[r].id, req[r].ep)],
             pool' = [pool EXCEPT ![req[r].id] = c],
             req' = [req EXCEPT ![r].pc = "ensure", ![r].client = c]
      PROVE  Advances(r)
  <2>1. c \in Clients
    BY DEF Spare
  <2>2. client'[c] = NewObject(req[r].id, req[r].ep)
    BY <1>3, <2>1
  <2>3. pool'[req[r].id] = c
    BY <1>1, <1>3 DEF TypeOK
  <2>4. req'[r] = [req[r] EXCEPT !.pc = "ensure", !.client = c]
    BY <1>3 DEF TypeOK
  <2>5. Got(r)
    <3>1. client'[c].of = req[r].id /\ client'[c].ep = req[r].ep
      BY <2>2 DEF NewObject
    <3> QED
      BY <1>1, <2>1, <2>3, <2>4, <3>1 DEF Got
  <2>6. \A s \in Requests \ {r} : req'[s] = req[s]
    BY <1>3 DEF TypeOK
  <2> QED
    BY <2>5, <2>6 DEF Advances
<1> QED
  BY <1>2, <1>3 DEF NewClient

\* Each step of a request is one of the nine, and leaves the store alone.
LEMMA RequestStep ==
  ASSUME GatewayAssumption, TypeOK, LocksAreOrdered, PoolInv, NEW r \in Requests, Step(r)
  PROVE  Advances(r) /\ UNCHANGED <<store, adm, changes>>
<1>a. req[r] \in RequestRecords
  BY ReqTyped
<1>1. CASE Gate(r)
  <2>1. CASE Ends(r)
    BY <1>1, <2>1, EndsShape DEF Advances, Left, Gate
  <2>2. CASE ~Ends(r)
    <3>1. Goto(r, "lookup") /\ mapping[req[r].uuid] \notin Covered /\ req[r].pc = "gate"
      BY <1>1, <2>2 DEF Gate, Covered, GatewayAssumption
    <3>2. /\ req'[r] = [req[r] EXCEPT !.pc = "lookup"]
          /\ \A s \in Requests \ {r} : req'[s] = req[s]
      BY <3>1, GotoShape DEF Labels
    <3> QED
      BY <1>1, <3>1, <3>2 DEF Advances, Passed, Gate
  <2> QED
    BY <2>1, <2>2
<1>2. CASE Lookup(r)
  <2>1. CASE Ends(r)
    BY <1>2, <2>1, EndsShape DEF Advances, Left, Lookup
  <2>2. CASE req' = [req EXCEPT ![r].pc = "fetch", ![r].id = mapping[req[r].uuid]]
    <3>1. Found(r)
      BY <1>2, <2>2 DEF Found, Lookup, TypeOK
    <3> QED
      BY <1>2, <2>2, <3>1 DEF Advances, Lookup, TypeOK
  <2> QED
    BY <1>2, <2>1, <2>2 DEF Lookup
<1>3. CASE Fetch(r)
  <2>1. CASE Ends(r)
    BY <1>3, <2>1, EndsShape DEF Advances, Left, Fetch
  <2>2. CASE ~Ends(r)
    <3>1. Fetched(r)
      BY <1>3, <2>2 DEF Fetched, Fetch, TypeOK
    <3>2. \A s \in Requests \ {r} : req'[s] = req[s]
      BY <1>3, <2>2 DEF Fetch, TypeOK
    <3> QED
      BY <1>3, <3>1, <3>2 DEF Advances, Fetch
  <2> QED
    BY <2>1, <2>2
<1>4. CASE For(r)
  <2> DEFINE c == pool[req[r].id]
  <2>1. req[r].pc = "for" /\ req[r].id \in Ids /\ UNCHANGED <<store, adm, changes>>
    BY <1>4 DEF For, TypeOK
  <2>2. CASE c = None
    <3>1. NewClient(r, client)
      BY <1>4, <2>2 DEF For
    <3> QED
      BY <2>1, <3>1, NewClientGives DEF TypeOK
  <2>3. CASE /\ c # None /\ SameEndpoint(client[c].ep, req[r].ep)
             /\ req' = [req EXCEPT ![r].pc = "ensure", ![r].client = c]
             /\ UNCHANGED <<pool, client>>
    <3>1. c \in Clients
      BY <2>1, <2>3 DEF TypeOK
    <3>2. client'[c].of = req[r].id /\ client'[c].ep = req[r].ep /\ pool'[req[r].id] = c
      BY <2>1, <2>3 DEF PoolInv, SameEndpoint
    <3>3. /\ req'[r] = [req[r] EXCEPT !.pc = "ensure", !.client = c]
          /\ \A s \in Requests \ {r} : req'[s] = req[s]
      BY <2>3 DEF TypeOK
    <3>4. Got(r)
      BY <2>1, <3>1, <3>2, <3>3 DEF Got
    <3> QED
      BY <2>1, <3>3, <3>4 DEF Advances
  <2>4. CASE Goto(r, "replace")
    BY <2>1, <2>4, GotoShape DEF Advances, Swaps, Labels
  <2> QED
    BY <1>4, <2>2, <2>3, <2>4 DEF For
<1>5. CASE Replace(r)
  <2> DEFINE c == pool[req[r].id]
             objects == [client EXCEPT ![c] = Closed(c)]
  <2>1. req[r].pc = "replace" /\ req[r].id \in Ids /\ c \in Clients /\ UNCHANGED <<store, adm, changes>>
    BY <1>5 DEF Replace, TypeOK
  <2>2. objects \in [Clients -> ClientObjects]
    BY <2>1, ClosedType DEF TypeOK
  <2>3. NewClient(r, objects)
    BY <1>5 DEF Replace
  <2> HIDE DEF objects
  <2> QED
    BY <2>1, <2>2, <2>3, NewClientGives
<1>6. CASE Ensure(r) \/ LoggedIn(r)
  <2>1. PICK l \in {"act", "login"} : Goto(r, l)
    BY <1>6 DEF Ensure, LoggedIn
  <2>2. req[r].pc \in Having /\ UNCHANGED <<store, adm, changes>>
    BY <1>6 DEF Ensure, LoggedIn, Having
  <2>3. /\ req'[r] = [req[r] EXCEPT !.pc = l]
        /\ \A s \in Requests \ {r} : req'[s] = req[s]
    BY <2>1, GotoShape DEF Labels
  <2> QED
    BY <2>2, <2>3 DEF Advances, Works, Having
<1>7. CASE LoginFails(r)
  BY <1>7, EndsShape DEF Advances, Left, LoginFails
<1>8. CASE Act(r)
  <2>1. req[r].pc = "act" /\ UNCHANGED <<store, adm, changes>>
    BY <1>8 DEF Act
  <2>2. CASE Ends(r)
    BY <2>1, <2>2, EndsShape DEF Advances, Left
  <2>3. CASE req' = [req EXCEPT ![r].pc = "ensure", ![r].kind = "read", ![r].dry = {}]
    <3>1. /\ req'[r] = [req[r] EXCEPT !.pc = "ensure", !.kind = "read", !.dry = {}]
          /\ \A s \in Requests \ {r} : req'[s] = req[s]
      BY <2>3 DEF TypeOK
    <3> QED
      BY <2>1, <3>1 DEF Advances, Reads
  <2> QED
    BY <1>8, <2>2, <2>3 DEF Act
<1> QED
  BY <1>1, <1>2, <1>3, <1>4, <1>5, <1>6, <1>7, <1>8 DEF Step

\* A request begins with what is true of the store.
LEMMA ArriveStep ==
  ASSUME GatewayAssumption, TypeOK, NEW r \in Requests,
         NEW label \in Labels, NEW k, NEW u \in Uuids \cup {None}, NEW i \in Ids \cup {None},
         \/ label = "gate" /\ k \in Changing /\ u \in Uuids
         \/ label = "lookup" /\ k = "read" /\ u \in Uuids
         \/ label = "fetch" /\ k = "read" /\ u = None /\ i \in Ids,
         Arrival(r, label, k, u, i)
  PROVE  Advances(r) /\ UNCHANGED <<store, pool, client, adm, changes>>
<1>1. req'[r] = [pc |-> label, kind |-> k, uuid |-> u, id |-> i, ep |-> None, client |-> None,
                 ids |-> {IF u = None THEN i ELSE mapping[u]}, eps |-> Stored,
                 dry |-> IF k \in Changing THEN Covered ELSE {}]
  BY DEF Arrival, TypeOK
<1>2. \A s \in Requests \ {r} : req'[s] = req[s]
  BY DEF Arrival, TypeOK
<1>3. u # None => mapping[u] \in req'[r].ids
  BY <1>1
<1>4. u = None => i \in req'[r].ids
  BY <1>1
<1>5. req'[r].dry \subseteq Covered /\ Stored \subseteq req'[r].eps
  BY <1>1
<1>6. u \in Uuids => u # None
  BY DEF GatewayAssumption
<1>7. req'[r].pc = label /\ req'[r].kind = k /\ req'[r].uuid = u /\ req'[r].id = i
  BY <1>1
<1>8. req[r].pc = "idle" /\ UNCHANGED <<store, pool, client, adm, changes>>
  BY DEF Arrival
<1> QED
  BY <1>2, <1>3, <1>4, <1>5, <1>6, <1>7, <1>8 DEF Advances, Arrived

\* Whoever has a client holds it.
LEMMA HasHolds ==
  ASSUME NEW r \in Requests, NEW c \in Clients, Has(r, c)
  PROVE  r \in Holders(c)
  BY DEF Has, Holders, Active, Ended, Having

\* Close keeps the vCenter and the endpoint, ends the session and notes users.
LEMMA ClosedShape ==
  ASSUME TypeOK, NEW c \in Clients
  PROVE  /\ Closed(c).of = client[c].of /\ Closed(c).ep = client[c].ep
         /\ ~Closed(c).session
         /\ Closed(c).shared <=> client[c].shared \/ Holders(c) # {}
<1>1. client[c] \in ClientObjects
  BY DEF TypeOK
<1>2. Closed(c).shared = (client[c].shared \/ Holders(c) # {})
  BY <1>1 DEF Closed, ClientObjects
<1> QED
  BY <1>1, <1>2 DEF Closed, ClientObjects

\* For and Replace, with a client made anew or none.
LEMMA NewClientTends ==
  ASSUME GatewayAssumption, TypeOK, PoolInv, NEW r \in Requests,
         req[r].pc \in {"for", "replace"},
         \/ /\ pool[req[r].id] = None
            /\ NewClient(r, client)
         \/ /\ pool[req[r].id] # None
            /\ NewClient(r, [client EXCEPT ![pool[req[r].id]] = Closed(pool[req[r].id])])
  PROVE  Tends
<1> DEFINE old == pool[req[r].id]
           objects == IF old = None THEN client ELSE [client EXCEPT ![old] = Closed(old)]
<1>1. req[r].id \in Ids /\ old \in Clients \cup {None} /\ None \notin Clients
  BY DEF TypeOK, GatewayAssumption
<1>2. \A c \in Clients : /\ objects[c].of = client[c].of /\ objects[c].ep = client[c].ep
                         /\ c # old => objects[c] = client[c]
                         /\ client[c].shared => objects[c].shared
                         /\ c = old => ~objects[c].session
                         /\ c = old /\ Holders(c) # {} => objects[c].shared
  <2>1. CASE old = None
    BY <1>1, <2>1
  <2>2. CASE old # None
    <3>1. objects = [client EXCEPT ![old] = Closed(old)]
      BY <2>2
    <3>2. objects[old] = Closed(old) /\ \A c \in Clients \ {old} : objects[c] = client[c]
      BY <1>1, <2>2, <3>1 DEF TypeOK
    <3> HIDE DEF objects, old
    <3> QED
      BY <1>1, <2>2, <3>2, ClosedShape
  <2> QED
    BY <2>1, <2>2
<1>3. objects \in [Clients -> ClientObjects]
  BY <1>1, ClosedType DEF TypeOK
<1>4. NewClient(r, objects)
  OBVIOUS
<1>5. pool \in [Ids -> Clients \cup {None}]
  BY DEF TypeOK
<1> HIDE DEF objects
<1>6. CASE client' = objects /\ pool' = [pool EXCEPT ![req[r].id] = None]
  <2>1. PoolInv'
    BY <1>1, <1>2, <1>5, <1>6 DEF PoolInv
  <2>2. ASSUME NEW c \in Clients, Kept(c), c # old \/ Holders(c) # {}
        PROVE  Kept(c)'
    BY <1>1, <1>2, <1>5, <1>6, <2>2 DEF Kept
  <2>3. \A c \in Clients : client'[c].session => c # old /\ client[c].session
    BY <1>2, <1>6
  <2> QED
    BY <1>2, <1>6, <2>1, <2>2, <2>3, HasHolds DEF Tends
<1>7. ASSUME NEW n \in Spare,
             client' = [objects EXCEPT ![n] = NewObject(req[r].id, req[r].ep)],
             pool' = [pool EXCEPT ![req[r].id] = n]
      PROVE  Tends
  <2>1. n \in Clients /\ Holders(n) = {} /\ \A i \in Ids : pool[i] # n
    BY DEF Spare
  <2>2. /\ client'[n] = NewObject(req[r].id, req[r].ep)
        /\ \A c \in Clients \ {n} : client'[c] = objects[c]
    BY <1>3, <1>7, <2>1
  <2>3. client'[n].of = req[r].id /\ ~client'[n].session
    BY <2>2 DEF NewObject
  <2>4. PoolInv'
    BY <1>1, <1>2, <1>5, <1>7, <2>1, <2>2, <2>3 DEF PoolInv
  <2>5. ASSUME NEW c \in Clients \ {n}, Kept(c), c # old \/ Holders(c) # {}
        PROVE  Kept(c)'
    BY <1>1, <1>2, <1>5, <1>7, <2>2, <2>5 DEF Kept
  <2>6. \A c \in Clients : client'[c].session => c # n /\ c # old /\ client[c].session
    BY <1>2, <2>2, <2>3
  <2> QED
    BY <1>2, <2>1, <2>2, <2>4, <2>5, <2>6, HasHolds DEF Tends
<1> QED
  BY <1>4, <1>6, <1>7 DEF NewClient

\* Drop and CloseAll take a closed client out of its slot.
LEMMA ClosesTends ==
  ASSUME GatewayAssumption, TypeOK, PoolInv, NEW i \in Ids, pool[i] # None,
         client' = [client EXCEPT ![pool[i]] = Closed(pool[i])],
         pool' = [pool EXCEPT ![i] = None]
  PROVE  Tends
<1> DEFINE old == pool[i]
<1>1. old \in Clients /\ None \notin Clients /\ pool \in [Ids -> Clients \cup {None}]
  BY DEF TypeOK, GatewayAssumption
<1>2. \A c \in Clients : /\ client'[c].of = client[c].of /\ client'[c].ep = client[c].ep
                         /\ c # old => client'[c] = client[c]
                         /\ client[c].shared => client'[c].shared
                         /\ c = old => ~client'[c].session
                         /\ c = old /\ Holders(c) # {} => client'[c].shared
  <2>1. client'[old] = Closed(old) /\ \A c \in Clients \ {old} : client'[c] = client[c]
    BY <1>1 DEF TypeOK
  <2> HIDE DEF old
  <2> QED
    BY <1>1, <2>1, ClosedShape
<1>3. PoolInv'
  BY <1>1, <1>2 DEF PoolInv
<1>4. ASSUME NEW c \in Clients, Kept(c), c # old \/ Holders(c) # {}
      PROVE  Kept(c)'
  BY <1>1, <1>2, <1>4 DEF Kept
<1> QED
  BY <1>2, <1>3, <1>4, HasHolds DEF Tends

\* Steps that leave the pool alone.
LEMMA SameTends ==
  ASSUME TypeOK, PoolInv, UNCHANGED pool,
         \A c \in Clients :
           /\ client'[c].of = client[c].of /\ client'[c].ep = client[c].ep
           /\ client'[c].shared = client[c].shared
           /\ client'[c].session => client[c].session \/ \E r \in Requests : Has(r, c)
  PROVE  Tends
<1>1. PoolInv'
  BY DEF PoolInv, TypeOK
<1>2. \A c \in Clients : Kept(c) => Kept(c)'
  BY DEF Kept
<1> QED
  BY <1>1, <1>2 DEF Tends

\* The steps of a request.
LEMMA StepTends ==
  ASSUME GatewayAssumption, TypeOK, PoolInv, NEW r \in Requests, Step(r)
  PROVE  Tends
<1>1. CASE UNCHANGED <<pool, client>>
  BY <1>1, SameTends
<1>2. CASE For(r)
  <2>1. pool[req[r].id] # None => UNCHANGED <<pool, client>>
    BY <1>2 DEF For
  <2>2. pool[req[r].id] = None => NewClient(r, client)
    BY <1>2 DEF For
  <2> QED
    BY <1>1, <1>2, <2>1, <2>2, NewClientTends DEF For
<1>3. CASE Replace(r)
  BY <1>3, NewClientTends DEF Replace, TypeOK
<1>4. CASE Ensure(r) \/ LoggedIn(r) \/ LoginFails(r)
  <2>1. req[r].client \in Clients /\ Has(r, req[r].client) /\ UNCHANGED pool
    BY <1>4 DEF Ensure, LoggedIn, LoginFails, TypeOK, Has, Having
  <2>2. \A c \in Clients : client[c] \in ClientObjects
    BY DEF TypeOK
  <2>3. CASE client' = [client EXCEPT ![req[r].client].busy = r]
    BY <2>1, <2>2, <2>3, SameTends DEF TypeOK, ClientObjects
  <2>4. CASE client' = [client EXCEPT ![req[r].client].busy = None]
    BY <2>1, <2>2, <2>4, SameTends DEF TypeOK, ClientObjects
  <2>5. CASE client' = [client EXCEPT ![req[r].client].busy = None, ![req[r].client].session = TRUE]
    BY <2>1, <2>2, <2>5, SameTends DEF TypeOK, ClientObjects
  <2> QED
    BY <1>1, <1>4, <2>1, <2>3, <2>4, <2>5 DEF Ensure, LoggedIn, LoginFails
<1> QED
  BY <1>1, <1>2, <1>3, <1>4 DEF Step, Gate, Lookup, Fetch, Act

\* A request that does not move stays right.
LEMMA OthersRight ==
  ASSUME TypeOK, Tends, UNCHANGED store, NEW r \in Requests, req'[r] = req[r],
         Rightly(r), Spares(r)
  PROVE  Rightly(r)' /\ Spares(r)'
<1>1. req[r].pc \in Having =>
        /\ client'[req[r].client].of = client[req[r].client].of
        /\ client'[req[r].client].ep = client[req[r].client].ep
        /\ Kept(req[r].client)'
  BY DEF Tends, Has, Having, TypeOK, Rightly
<1>2. Stored' = Stored /\ Covered' = Covered
  BY DEF store, Stored, Covered
<1>3. mapping' = mapping
  BY DEF store
<1>4. Rightly(r)'
  BY <1>1, <1>2, <1>3 DEF Rightly, Kept
<1>5. Spares(r)'
  BY <1>1, <1>2, <1>3 DEF Spares, Misses
<1> QED
  BY <1>4, <1>5

\* A request that advances stays right.
LEMMA AdvancesRight ==
  ASSUME GatewayAssumption, TypeOK, Tends, UNCHANGED store, NEW r \in Requests, Advances(r),
         Rightly(r), Spares(r)
  PROVE  Rightly(r)' /\ Spares(r)'
<1>1. req[r] \in RequestRecords
  BY ReqTyped
<1>2. Stored' = Stored /\ Covered' = Covered /\ mapping' = mapping /\ saved' = saved
  BY DEF store, Stored, Covered
<1>3. CASE Arrived(r)
  <2>1. Rightly(r)'
    BY <1>2, <1>3 DEF Arrived, Rightly, Having
  <2>2. Spares(r)'
    BY <1>2, <1>3 DEF Arrived, Spares, Having, Changing
  <2> QED
    BY <2>1, <2>2
<1>4. CASE Left(r)
  BY <1>2, <1>4 DEF Left, Rightly, Spares, Having, Changing
<1>5. CASE Passed(r)
  <2>1. /\ req'[r].pc = "lookup" /\ req'[r].kind = req[r].kind /\ req'[r].uuid = req[r].uuid
        /\ req'[r].ids = req[r].ids /\ req'[r].eps = req[r].eps /\ req'[r].dry = req[r].dry
    BY <1>1, <1>5 DEF Passed, RequestRecords
  <2>2. Rightly(r)'
    BY <1>2, <1>5, <2>1 DEF Passed, Rightly, Having
  <2>3. mapping[req[r].uuid] \notin req[r].dry
    BY <1>5 DEF Passed, Spares
  <2>4. Spares(r)'
    BY <1>2, <2>1, <2>3 DEF Spares, Misses, Having
  <2> QED
    BY <2>2, <2>4
<1>6. CASE Found(r)
  <2>1. /\ req'[r].pc = "fetch" /\ req'[r].kind = req[r].kind
        /\ req'[r].id = mapping[req[r].uuid]
        /\ req'[r].ids = req[r].ids /\ req'[r].eps = req[r].eps /\ req'[r].dry = req[r].dry
    BY <1>1, <1>6 DEF Found, RequestRecords
  <2>2. Rightly(r)'
    BY <1>2, <1>6, <2>1 DEF Found, Rightly, Having
  <2>3. Spares(r)'
    BY <1>2, <1>6, <2>1 DEF Found, Spares, Misses, Having
  <2> QED
    BY <2>2, <2>3
<1>7. CASE Fetched(r)
  <2>1. /\ req'[r].pc = "for" /\ req'[r].kind = req[r].kind
        /\ req'[r].id = req[r].id /\ req'[r].ep = saved[req[r].id]
        /\ req'[r].ids = req[r].ids /\ req'[r].eps = req[r].eps /\ req'[r].dry = req[r].dry
    BY <1>1, <1>7 DEF Fetched, RequestRecords
  <2>2. <<req[r].id, saved[req[r].id]>> \in Stored
    BY <1>7 DEF Fetched, Stored, TypeOK
  <2>3. Rightly(r)'
    BY <1>2, <1>7, <2>1, <2>2 DEF Fetched, Rightly, Having
  <2>4. Spares(r)'
    BY <1>2, <1>7, <2>1 DEF Fetched, Spares, Misses, Having
  <2> QED
    BY <2>3, <2>4
<1>8. CASE Swaps(r)
  <2>1. /\ req'[r].pc = "replace" /\ req'[r].kind = req[r].kind
        /\ req'[r].id = req[r].id /\ req'[r].ep = req[r].ep
        /\ req'[r].ids = req[r].ids /\ req'[r].eps = req[r].eps /\ req'[r].dry = req[r].dry
    BY <1>1, <1>8 DEF Swaps, RequestRecords
  <2>2. Rightly(r)'
    BY <1>2, <1>8, <2>1 DEF Swaps, Rightly, Having
  <2>3. Spares(r)'
    BY <1>2, <1>8, <2>1 DEF Swaps, Spares, Misses, Having
  <2> QED
    BY <2>2, <2>3
<1>9. CASE Got(r)
  <2>1. PICK c \in Clients :
          /\ req'[r] = [req[r] EXCEPT !.pc = "ensure", !.client = c]
          /\ client'[c].of = req[r].id /\ client'[c].ep = req[r].ep
          /\ \E i \in Ids : pool'[i] = c
    BY <1>9 DEF Got
  <2>2. /\ req'[r].pc = "ensure" /\ req'[r].client = c /\ req'[r].kind = req[r].kind
        /\ req'[r].ids = req[r].ids /\ req'[r].eps = req[r].eps /\ req'[r].dry = req[r].dry
    BY <1>1, <2>1 DEF RequestRecords
  <2>4. Kept(c)'
    BY <2>1 DEF Kept
  <2>5. Rightly(r)'
    BY <1>9, <2>1, <2>2, <2>4 DEF Got, Rightly, Having, Kept
  <2>6. Spares(r)'
    BY <1>2, <1>9, <2>1, <2>2 DEF Got, Spares, Misses, Having
  <2> QED
    BY <2>5, <2>6
<1>10. CASE Works(r) \/ Reads(r)
  <2>1. /\ req[r].pc \in Having /\ req'[r].pc \in Having
        /\ req'[r].client = req[r].client
        /\ req'[r].ids = req[r].ids /\ req'[r].eps = req[r].eps
        /\ \/ req'[r].kind = req[r].kind /\ req'[r].dry = req[r].dry
           \/ req'[r].kind = "read" /\ req'[r].dry = {}
    BY <1>1, <1>10, ZenonT(30) DEF Works, Reads, Having, RequestRecords
  <2>2. /\ client'[req[r].client].of = client[req[r].client].of
        /\ client'[req[r].client].ep = client[req[r].client].ep
        /\ Kept(req[r].client)'
    BY <2>1 DEF Tends, Has, Having, TypeOK, Rightly
  <2>3. Rightly(r)'
    BY <2>1, <2>2 DEF Rightly, Having, Kept
  <2>4. Spares(r)'
    BY <1>2, <2>1, <2>2 DEF Spares, Misses, Having, Changing
  <2> QED
    BY <2>3, <2>4
<1> QED
  BY <1>3, <1>4, <1>5, <1>6, <1>7, <1>8, <1>9, <1>10 DEF Advances

\* A change of the store keeps every request right: the histories note it.
LEMMA ChangeRight ==
  ASSUME GatewayAssumption, TypeOK, TypeOK', Witnessed, UNCHANGED <<pool, client>>,
         NEW r \in Requests, Rightly(r), Spares(r)
  PROVE  Rightly(r)' /\ Spares(r)'
<1> DEFINE asks == req[r].pc \in {"gate", "lookup"}
           ids == req[r].ids \cup IF asks THEN {mapping'[req[r].uuid]} ELSE {}
           eps == req[r].eps \cup IF asks \/ req[r].pc = "fetch" THEN Stored' ELSE {}
<1>1. req[r] \in RequestRecords
  BY ReqTyped
<1>2. req'[r] = [req[r] EXCEPT !.ids = ids, !.eps = eps, !.dry = req[r].dry \cap Covered']
  BY DEF Witnessed
<1>3. /\ req'[r].pc = req[r].pc /\ req'[r].kind = req[r].kind /\ req'[r].uuid = req[r].uuid
      /\ req'[r].id = req[r].id /\ req'[r].ep = req[r].ep /\ req'[r].client = req[r].client
      /\ req'[r].ids = ids /\ req'[r].eps = eps /\ req'[r].dry = req[r].dry \cap Covered'
  BY <1>1, <1>2 DEF RequestRecords
<1>4. req[r].ids \subseteq req'[r].ids /\ req[r].eps \subseteq req'[r].eps
  BY <1>3
<1>5. asks => mapping'[req[r].uuid] \in req'[r].ids
  BY <1>3
<1>6. asks \/ req[r].pc = "fetch" => Stored' \subseteq req'[r].eps
  BY <1>3
<1>7. req'[r].dry \subseteq req[r].dry /\ req'[r].dry \subseteq Covered'
  BY <1>3
<1> HIDE DEF ids, eps
<1>8. Rightly(r)'
  BY <1>3, <1>4, <1>5, <1>6 DEF Rightly, Kept
<1>9. ASSUME NEW i, Misses(r, i)
      PROVE  i \notin req'[r].dry \/ \E j, k \in req'[r].ids : j # k
  BY <1>4, <1>7, <1>9 DEF Misses
<1>10. ASSUME req[r].pc = "lookup", Misses(r, mapping[req[r].uuid])
       PROVE  \/ mapping'[req[r].uuid] \notin req'[r].dry
              \/ \E j, k \in req'[r].ids : j # k
  <2>1. mapping[req[r].uuid] \in req'[r].ids /\ mapping'[req[r].uuid] \in req'[r].ids
    BY <1>4, <1>5, <1>10 DEF Rightly
  <2>2. CASE mapping'[req[r].uuid] = mapping[req[r].uuid]
    BY <1>9, <1>10, <2>2
  <2>3. CASE mapping'[req[r].uuid] # mapping[req[r].uuid]
    BY <2>1, <2>3
  <2> QED
    BY <2>2, <2>3
<1>11. ASSUME req[r].kind \in Changing
       PROVE  /\ req'[r].pc = "lookup" => Misses(r, mapping[req[r].uuid])'
              /\ req'[r].pc \in {"fetch", "for", "replace"} => Misses(r, req[r].id)'
              /\ req'[r].pc \in Having => Misses(r, client[req[r].client].of)'
  <2>1. req[r].pc = "lookup" => Misses(r, mapping[req[r].uuid])'
    BY <1>3, <1>10, <1>11 DEF Spares, Misses
  <2>2. req[r].pc \in {"fetch", "for", "replace"} => Misses(r, req[r].id)'
    BY <1>3, <1>9, <1>11 DEF Spares, Misses
  <2>3. req[r].pc \in Having => Misses(r, client[req[r].client].of)'
    BY <1>3, <1>9, <1>11 DEF Spares, Misses
  <2> QED
    BY <1>3, <2>1, <2>2, <2>3
<1>12. Spares(r)'
  BY <1>3, <1>7, <1>11 DEF Spares
<1> QED
  BY <1>8, <1>12

\* A session begins only in a client that is kept.
LEMMA TendsSessions ==
  ASSUME Tends, SessionInv, \A r \in Requests : Rightly(r)
  PROVE  SessionInv'
<1>1. SUFFICES ASSUME NEW c \in Clients, client'[c].session
               PROVE  Kept(c)'
  BY DEF SessionInv
<1>2. CASE client[c].session /\ (Kept(c) => Kept(c)')
  BY <1>2 DEF SessionInv
<1>3. ASSUME NEW r \in Requests, Has(r, c)
      PROVE  Kept(c)'
  BY <1>3 DEF Has, Rightly, Tends
<1> QED
  BY <1>1, <1>2, <1>3 DEF Tends

\* The initial states satisfy the inductive invariant.
LEMMA InitIInv == ASSUME GatewayAssumption, Init PROVE IInv
<1>1. /\ \A r \in Requests : req[r] = Idle
      /\ \A a \in Admins : adm[a] = [pc |-> "idle", id |-> None]
      /\ \A c \in Clients : client[c] = NewObject(None, None)
      /\ \A i \in Ids : pool[i] = None
  BY DEF Init
<1>2. Idle \in RequestRecords /\ Idle.pc = "idle" /\ Idle.kind = "read" /\ Idle.dry = {}
  BY DEF Idle, RequestRecords, Labels, Ended
<1>3. /\ NewObject(None, None) \in ClientObjects
      /\ ~NewObject(None, None).session /\ NewObject(None, None).busy = None
  BY DEF NewObject, ClientObjects
<1>4. req \in [Requests -> RequestRecords] /\ client \in [Clients -> ClientObjects]
  BY <1>2, <1>3 DEF Init
<1>5. adm \in [Admins -> AdminRecords] /\ \A a \in Admins : adm[a].pc = "idle"
  BY DEF Init, AdminRecords
<1>6. mapping \in [Uuids -> Ids \cup {None}] /\ dryRun \in [Ids -> BOOLEAN]
  BY DEF Init
<1>7. changes \in 0 .. MaxChanges
  BY DEF Init, GatewayAssumption
<1>8. TypeOK
  BY <1>1, <1>2, <1>4, <1>5, <1>6, <1>7 DEF Init, TypeOK
<1>9. LocksAreOrdered
  BY <1>1, <1>2, <1>3, <1>5 DEF Init, LocksAreOrdered, GatewayAssumption
<1>10. PoolInv /\ SessionInv
  BY <1>1, <1>3 DEF PoolInv, SessionInv
<1>11. \A r \in Requests : Rightly(r) /\ Spares(r)
  BY <1>1, <1>2 DEF Rightly, Spares, Having, Changing
<1> QED
  BY <1>8, <1>9, <1>10, <1>11 DEF IInv

\* Every step of Gateway preserves it.
LEMMA StepIInv == ASSUME GatewayAssumption, IInv, [Next]_vars PROVE IInv'
<1> USE DEF IInv
<1>1. TypeOK' /\ LocksAreOrdered'
  BY TypeStep, LocksStep
<1>a. ASSUME Tends, UNCHANGED store, NEW r \in Requests, Advances(r)
      PROVE  IInv'
  <2>1. ASSUME NEW s \in Requests PROVE Rightly(s)' /\ Spares(s)'
    <3>1. CASE s = r
      BY <1>a, <3>1, AdvancesRight
    <3>2. CASE s # r
      <4>1. req'[s] = req[s]
        BY <1>a, <3>2 DEF Advances
      <4> QED
        BY <1>a, <4>1, OthersRight
    <3> QED
      BY <3>1, <3>2
  <2>2. SessionInv'
    BY <1>a, TendsSessions
  <2> QED
    BY <1>1, <1>a, <2>1, <2>2 DEF Tends
<1>b. ASSUME Tends, UNCHANGED <<store, req>>
      PROVE  IInv'
  <2>1. \A s \in Requests : Rightly(s)' /\ Spares(s)'
    BY <1>b, OthersRight
  <2>2. SessionInv'
    BY <1>b, TendsSessions
  <2> QED
    BY <1>1, <1>b, <2>1, <2>2 DEF Tends
<1>c. ASSUME Change
      PROVE  IInv'
  <2>1. Witnessed /\ UNCHANGED <<pool, client>>
    BY <1>c DEF Change
  <2>2. \A s \in Requests : Rightly(s)' /\ Spares(s)'
    BY <1>1, <2>1, ChangeRight
  <2>3. PoolInv' /\ SessionInv'
    BY <2>1 DEF PoolInv, SessionInv, Kept
  <2> QED
    BY <1>1, <2>2, <2>3
<1>2. ASSUME NEW r \in Requests, Step(r)
      PROVE  IInv'
  BY <1>2, <1>a, RequestStep, StepTends
<1>3. ASSUME NEW r \in Requests, NEW u \in Uuids, Arrive(r, u)
      PROVE  IInv'
  <2>1. Advances(r) /\ UNCHANGED <<store, pool, client>>
    BY <1>3, ArriveStep DEF Arrive, Labels
  <2> QED
    BY <1>a, <2>1, SameTends
<1>4. ASSUME NEW r \in Requests, NEW i \in Ids, ArriveById(r, i)
      PROVE  IInv'
  <2>1. Advances(r) /\ UNCHANGED <<store, pool, client>>
    BY <1>4, ArriveStep DEF ArriveById, Labels
  <2> QED
    BY <1>a, <2>1, SameTends
<1>5. ASSUME NEW a \in Admins, Invalidate(a) \/ Stop(a)
      PROVE  IInv'
  BY <1>5, <1>b, SameTends DEF Invalidate, Stop
<1>6. ASSUME NEW a \in Admins, Drop(a)
      PROVE  IInv'
  BY <1>6, <1>b, ClosesTends DEF Drop, TypeOK
<1>7. ASSUME NEW a \in Admins, CloseAll(a)
      PROVE  IInv'
  <2>1. Tends
    BY <1>7, ClosesTends, SameTends DEF CloseAll
  <2> QED
    BY <1>7, <1>b, <2>1 DEF CloseAll
<1>8. ASSUME NEW a \in Admins, NEW i \in Ids,
             DeleteVCenter(a, i) \/ \E e \in Endpoints : EditVCenter(a, i, e)
      PROVE  IInv'
  BY <1>8, <1>c DEF DeleteVCenter, EditVCenter
<1>9. ASSUME NEW i \in Ids, SwitchVCenter(i) \/ \E e \in Endpoints : CreateVCenter(i, e)
      PROVE  IInv'
  BY <1>9, <1>c DEF SwitchVCenter, CreateVCenter
<1>10. ASSUME NEW u \in Uuids, NEW i \in Ids \cup {None}, Map(u, i)
       PROVE  IInv'
  BY <1>10, <1>c DEF Map
<1>11. ASSUME SwitchGlobal
       PROVE  IInv'
  BY <1>11, <1>c DEF SwitchGlobal
<1>12. CASE UNCHANGED vars
  BY <1>12, <1>b, SameTends DEF vars, store
<1> HIDE DEF IInv
<1> QED
  BY <1>2, <1>3, <1>4, <1>5, <1>6, <1>7, <1>8, <1>9, <1>10, <1>11, <1>12
     DEF Next, AdminStep, Rest

\* So it holds of every behaviour.
LEMMA AlwaysIInv == Spec => []IInv
<1>1. Init => IInv
  BY GatewayAssumption, InitIInv
<1>2. IInv /\ [Next]_vars => IInv'
  BY GatewayAssumption, StepIInv
<1> QED
  BY <1>1, <1>2, PTL DEF Spec

\* Every variable keeps its type, and what a step needs is there: an id for the
\* pool, a stored endpoint for a client, a client under who closes it.
THEOREM TypeCorrect == Spec => []TypeOK
<1>1. IInv => TypeOK
  BY DEF IInv
<1> QED
  BY <1>1, AlwaysIInv, PTL

\* The pool's mutex and the clients' are held by who is in their critical
\* sections and by nobody else, and never waited for in a circle (pool.go,
\* ensure and Close of client.go).
THEOREM MutexesInOrder == Spec => []LocksAreOrdered
<1>1. IInv => LocksAreOrdered
  BY DEF IInv
<1> QED
  BY <1>1, AlwaysIInv, PTL

\* A request drives a vCenter that its UUID was mapped to, at an endpoint that
\* was stored for it since the request came (ClientForUUID of pool.go).
THEOREM NoStaleEndpoint == Spec => []DrivesWhatIsStored
<1>1. IInv => DrivesWhatIsStored
  BY DEF IInv, Rightly, DrivesWhatIsStored, Having
<1> QED
  BY <1>1, AlwaysIInv, PTL

\* Gate and operation are two steps, yet a change never reaches a vCenter that
\* dry-run covered all the time since the request came, as long as the UUID stays
\* mapped as it was.  Not covered: dry-run switched on after the request came, and a
\* UUID mapped to another vCenter after the gate (DryRunForUUID of store.go,
\* dryRunGate of redfish/server.go).
THEOREM DryRunGate == Spec => []DryRunHonoured
<1>1. IInv => DryRunHonoured
  BY DEF IInv, Spares, Misses, DryRunHonoured, Having
<1> QED
  BY <1>1, AlwaysIInv, PTL

\* A session that no client of the pool can close is one of a client that was
\* closed while a request had it (For, Invalidate and CloseAll of pool.go).
THEOREM SessionsOfThePool == Spec => []SessionsAccountedFor
<1>1. IInv => SessionsAccountedFor
  BY DEF IInv, SessionInv, Kept, SessionsAccountedFor
<1> QED
  BY <1>1, AlwaysIInv, PTL
=============================================================================
