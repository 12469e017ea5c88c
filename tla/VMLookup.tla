------------------------------- MODULE VMLookup -------------------------------
(***************************************************************************)
(* How a client finds the VM of a BIOS UUID: findByUUID of                 *)
(* internal/vsphere/client.go with its cache, its folder gate and the walk *)
(* of folder_vms.go.  A request takes the VM found less than Ttl ago, or   *)
(* asks vSphere's search index and then where the VM lies, or, if the      *)
(* index fails it, lists the folder and reads the UUIDs.  No lock is held  *)
(* over these calls; meanwhile VMs are moved, removed and made again, and  *)
(* other requests look up the same UUID.                                   *)
(*                                                                         *)
(* Abstractions: one UUID, as lookups of different ones share only the     *)
(* flag searchDenied; the client names a folder and has a session; a       *)
(* lookup takes at most Slack ticks; no allow-list is set (nothing in the  *)
(* gateway sets one).                                                      *)
(***************************************************************************)
EXTENDS Expiry

CONSTANTS
  VMs,
  NoVM,
  Callers   \* requests

VARIABLES
  \* vSphere
  place,      \* where each VM lies: right in the folder, below it, or outside
  mine,       \* it has the UUID
  maySearch,  \* the account may use the search index
  mayPath,    \* the account may read where a VM lies
  insideUntil, mineUntil, \* history: the last time it lay inside, had the UUID, + 1
  \* the client
  cache,        \* uuidCache: the VM, when it was remembered; history: was it gated?
  searchDenied, \* searchIndexDenied
  call          \* each request

vars == <<now, place, mine, maySearch, mayPath, insideUntil, mineUntil, cache, searchDenied, call>>

Places  == {"top", "below", "outside"}
Labels  == {"idle", "search", "path", "list", "match", "remember", "found"}
Ended   == {"idle", "found"}
Entries == [vm : VMs \cup {NoVM}, at : Nat, gated : BOOLEAN]
Calls   == [pc : Labels, vm : VMs \cup {NoVM}, listed : SUBSET VMs, at : Nat, gated : BOOLEAN]

TypeOK ==
  /\ now \in Nat
  /\ place \in [VMs -> Places]
  /\ mine \in [VMs -> BOOLEAN]
  /\ maySearch \in BOOLEAN /\ mayPath \in BOOLEAN
  /\ insideUntil \in [VMs -> Nat]
  /\ mineUntil \in [VMs -> Nat]
  /\ cache \in Entries
  /\ searchDenied \in BOOLEAN
  /\ call \in [Callers -> Calls]

Fresh == [pc |-> "idle", vm |-> NoVM, listed |-> {}, at |-> 0, gated |-> FALSE]

Init ==
  /\ now = 0
  /\ place \in [VMs -> Places]
  /\ mine \in [VMs -> BOOLEAN]
  /\ maySearch \in BOOLEAN /\ mayPath \in BOOLEAN
  /\ insideUntil = [v \in VMs |-> 0]
  /\ mineUntil = [v \in VMs |-> 0]
  /\ cache = [vm |-> NoVM, at |-> 0, gated |-> FALSE]
  /\ searchDenied = FALSE
  /\ call = [r \in Callers |-> Fresh]

-----------------------------------------------------------------------------
vSphere == <<place, mine, maySearch, mayPath, insideUntil, mineUntil>>

Goto(r, label) == call' = [call EXCEPT ![r].pc = label]
Fails(r)       == call' = [call EXCEPT ![r] = Fresh]

\* cachedVM: an entry counts up to and including its last tick.
Hit == cache.vm # NoVM /\ now - cache.at <= Ttl

\* Mutant: a hit renews the entry.
Cached_Renews(r) ==
  /\ call[r].pc \in Ended
  /\ Hit
  /\ cache' = [cache EXCEPT !.at = now]
  /\ call' = [call EXCEPT ![r] = [Fresh EXCEPT !.pc = "found", !.vm = cache.vm, !.at = now,
                                               !.gated = cache.gated]]
  /\ UNCHANGED <<now, vSphere, searchDenied>>

\* findByUUID finds the VM in the cache ...
Cached(r) ==
  /\ call[r].pc \in Ended
  /\ Hit
  /\ call' = [call EXCEPT ![r] = [Fresh EXCEPT !.pc = "found", !.vm = cache.vm, !.at = now,
                                               !.gated = cache.gated]]
  /\ UNCHANGED <<now, vSphere, cache, searchDenied>>

\* ... or turns to the search index, unless that was denied before.
Missed(r) ==
  /\ call[r].pc \in Ended
  /\ ~Hit
  /\ call' = [call EXCEPT ![r] = [Fresh EXCEPT !.pc = IF searchDenied THEN "list" ELSE "search",
                                               !.at = now]]
  /\ UNCHANGED <<now, vSphere, cache, searchDenied>>

\* findByUUIDSearchIndex: a VM of the datacenter with the UUID, or, for any
\* failure, the folder; a denial is remembered.
Search(r) ==
  /\ call[r].pc = "search"
  /\ \/ /\ maySearch
        /\ \E v \in VMs : mine[v] /\ call' = [call EXCEPT ![r].pc = "path", ![r].vm = v]
        /\ UNCHANGED searchDenied
     \/ Goto(r, "list") /\ searchDenied' = (searchDenied \/ ~maySearch)
  /\ UNCHANGED <<now, vSphere, cache>>

\* checkFolder: the VM must lie in the folder or below it, unless the account
\* may not ask.
CheckFolder(r) ==
  /\ call[r].pc = "path"
  /\ \/ /\ mayPath /\ place[call[r].vm] # "outside"
        /\ call' = [call EXCEPT ![r].pc = "remember", ![r].gated = TRUE]
     \/ ~mayPath /\ Goto(r, "remember")
     \/ Fails(r)
  /\ UNCHANGED <<now, vSphere, cache, searchDenied>>

\* findVMsUnderFolder: the recursive pattern or the walk gives all VMs of the
\* folder; if the pattern fails and the flat one answers, those below are missing.
ListFolder(r) ==
  /\ call[r].pc = "list"
  /\ \/ \E depth \in {{"top", "below"}, {"top"}} :
          call' = [call EXCEPT ![r].pc = "match",
                               ![r].listed = {v \in VMs : place[v] \in depth}]
     \/ Fails(r)
  /\ UNCHANGED <<now, vSphere, cache, searchDenied>>

\* findByUUIDInFolder reads the UUIDs of the listed VMs; one that cannot be read
\* is passed over.
Match(r) ==
  /\ call[r].pc = "match"
  /\ \/ \E v \in call[r].listed :
          /\ mine[v]
          /\ call' = [call EXCEPT ![r] =
               [@ EXCEPT !.pc = "remember", !.vm = v, !.listed = {}, !.gated = TRUE]]
     \/ Fails(r)
  /\ UNCHANGED <<now, vSphere, cache, searchDenied>>

\* rememberUUID, stamped now.
Remember(r) ==
  /\ call[r].pc = "remember"
  /\ cache' = [vm |-> call[r].vm, at |-> now, gated |-> call[r].gated]
  /\ Goto(r, "found")
  /\ UNCHANGED <<now, vSphere, searchDenied>>

-----------------------------------------------------------------------------
\* A VM is moved, removed, cloned or made again.
Change(v) ==
  /\ place' \in {[place EXCEPT ![v] = p] : p \in Places}
  /\ mine' \in {[mine EXCEPT ![v] = b] : b \in BOOLEAN}
  /\ insideUntil' = [insideUntil EXCEPT ![v] = IF place[v] # "outside" THEN now + 1 ELSE @]
  /\ mineUntil' = [mineUntil EXCEPT ![v] = IF mine[v] THEN now + 1 ELSE @]
  /\ UNCHANGED <<now, maySearch, mayPath, cache, searchDenied, call>>

\* The account's rights change.
Grant ==
  /\ maySearch' \in BOOLEAN /\ mayPath' \in BOOLEAN
  /\ UNCHANGED <<now, place, mine, insideUntil, mineUntil, cache, searchDenied, call>>

Tick ==
  /\ TickUnlessDue({call[r].at : r \in {x \in Callers : call[x].pc \notin Ended}})
  /\ UNCHANGED <<vSphere, cache, searchDenied, call>>

Step(r) ==
  Cached(r) \/ Missed(r) \/ Search(r) \/ CheckFolder(r) \/ ListFolder(r) \/ Match(r) \/ Remember(r)

Next ==
  \/ \E r \in Callers : Step(r)
  \/ \E v \in VMs : Change(v)
  \/ Grant
  \/ Tick

Spec == Init /\ [][Next]_vars
-----------------------------------------------------------------------------
(***************************************************************************)
(* Properties.                                                             *)
(***************************************************************************)
MineSince(v, time)   == mine[v] \/ time < mineUntil[v]
InsideSince(v, time) == place[v] # "outside" \/ time < insideUntil[v]

\* The VM a request goes on with had the UUID, and lay in the vCenter's folder,
\* no longer than the cache time-out and one lookup before the request came:
\* a machine re-created or moved away is let go of.  The folder is not vouched
\* for when the account could not read the path ("skipping folder gate").
FoundVMWasInFolder ==
  \A r \in Callers :
    call[r].pc = "found" =>
      \E age \in 0 .. Ttl + Slack :
        /\ age <= call[r].at
        /\ MineSince(call[r].vm, call[r].at - age)
        /\ call[r].gated => InsideSince(call[r].vm, call[r].at - age)
=============================================================================
