-------------------------------- MODULE Store --------------------------------
(***************************************************************************)
(* The map of vCenters and UUID mappings, internal/store/store.go, in      *)
(* memory and in state.json.  Every operation that changes it holds s.mu,  *)
(* changes the memory, and then persists a snapshot: WriteFile of a        *)
(* temporary file and Rename over state.json.  Either may fail: the caller *)
(* gets an error and the memory keeps the change.  The process may die at  *)
(* any point; Open loads what the disk holds.                              *)
(*                                                                         *)
(* Abstractions: a vCenter's endpoint fields are its name; requests that   *)
(* are refused without a change (unknown id, missing field) are no steps;  *)
(* an id is one of Ids, and newID picks one that is free.                  *)
(***************************************************************************)
EXTENDS StoreState

VARIABLES
  mem,      \* the store in memory: vcs, maps, dry
  disk,     \* state.json
  tmp,      \* the temporary file of the operation that holds s.mu
  stage,    \* of main: down, opening, syncing (loads ConfigMaps), serving
  phase,    \* of the operation that holds s.mu: idle, write, rename, reply
  saved,    \* history: what a restart may load: the store as of the last
            \* operation that reported success, and of those begun since
  changes

vars == <<mem, disk, tmp, stage, phase, saved, changes>>

TypeOK ==
  /\ mem \in Stores
  /\ disk \in Stores \cup {Missing, Torn}
  /\ tmp \in Stores \cup {Missing, Torn}
  /\ stage \in {"down", "opening", "syncing", "serving"}
  /\ phase \in {"idle", "write", "rename", "reply"}
  /\ saved \subseteq Stores \cup {Missing}
  /\ changes \in 0..MaxChanges

\* Before the first start: an empty data directory.
Init ==
  /\ mem = Empty
  /\ disk = Missing
  /\ tmp = Missing
  /\ stage = "down"
  /\ phase = "idle"
  /\ saved = {Missing}
  /\ changes = 0

-----------------------------------------------------------------------------
(***************************************************************************)
(* Persisting, under s.mu.                                                 *)
(***************************************************************************)
\* An operation that got s.mu replaces the store by s and starts to persist.
Commit(s) ==
  /\ phase = "idle"
  /\ changes < MaxChanges
  /\ mem' = s
  /\ phase' = "write"
  /\ saved' = saved \cup {s}
  /\ changes' = changes + 1
  /\ UNCHANGED <<disk, tmp, stage>>

\* Mutant: state.json is written in place.
WriteTmp_InPlace ==
  /\ phase = "write" /\ tmp = Missing
  /\ tmp' = Torn
  /\ disk' = Torn
  /\ UNCHANGED <<mem, stage, phase, saved, changes>>

\* os.WriteFile creates the temporary file, empty ...
WriteTmp ==
  /\ phase = "write" /\ tmp = Missing
  /\ tmp' = Torn
  /\ UNCHANGED <<mem, disk, stage, phase, saved, changes>>

\* ... and has written the snapshot.
TmpWritten ==
  /\ phase = "write" /\ tmp = Torn
  /\ tmp' = mem
  /\ phase' = "rename"
  /\ UNCHANGED <<mem, disk, stage, saved, changes>>

Rename ==
  /\ phase = "rename"
  /\ disk' = tmp
  /\ tmp' = Missing
  /\ phase' = "reply"
  /\ UNCHANGED <<mem, stage, saved, changes>>

\* s.mu is released and the caller learns that its operation succeeded.
Reply ==
  /\ phase = "reply"
  /\ saved' = {mem}
  /\ phase' = "idle"
  /\ UNCHANGED <<mem, disk, tmp, stage, changes>>

\* WriteFile or Rename failed: the caller gets the error, the memory stays.
\* The next temporary file has another name: this one is never read.  While the
\* store is opened or seeded, main gives up instead: that is a Crash.
PersistFails ==
  /\ stage \in {"syncing", "serving"} /\ phase \in {"write", "rename"}
  /\ tmp' = Missing
  /\ phase' = "idle"
  /\ UNCHANGED <<mem, disk, stage, saved, changes>>

\* The process dies.  Nothing reads the temporary file it was writing.
Crash ==
  /\ stage # "down"
  /\ mem' = Empty
  /\ tmp' = Missing
  /\ stage' = "down"
  /\ phase' = "idle"
  /\ UNCHANGED <<disk, saved, changes>>

\* Open: a store is loaded, a missing file is written, empty; a torn one is an
\* error and the gateway does not start.
Open ==
  /\ stage = "down"
  /\ \/ disk \notin {Missing, Torn} /\ mem' = disk /\ UNCHANGED <<phase, saved>>
     \/ disk = Missing /\ mem' = Empty /\ phase' = "write" /\ saved' = saved \cup {Empty}
  /\ stage' = "opening"
  /\ UNCHANGED <<disk, tmp, changes>>

\* The store is open and seeded; then the ConfigMaps are loaded, or are not.
Advance ==
  /\ phase = "idle"
  /\ \/ stage = "opening" /\ stage' = "syncing"
     \/ stage = "syncing" /\ stage' = "serving"
  /\ UNCHANGED <<mem, disk, tmp, phase, saved, changes>>

-----------------------------------------------------------------------------
(***************************************************************************)
(* The operations.                                                         *)
(***************************************************************************)
SetVC(s, i, vc) == [s EXCEPT !.vcs[i] = vc]

\* SeedFromGOVC: one vCenter from the environment, into an empty store.
SeedFromGOVC(i, name, pw) ==
  /\ stage = "opening"
  /\ Known(mem.vcs) = {}
  /\ Commit(SetVC(mem, i, [name |-> name, pw |-> pw, src |-> "none", dry |-> FALSE,
                           cm |-> Nil, origin |-> "none"]))

\* UpsertVCenter without an id: a password is required, nothing backs it yet.
CreateVCenter(i, name, pw, dry) ==
  /\ ~Has(mem, i)
  /\ pw # Nil
  /\ Commit(SetVC(mem, i, [name |-> name, pw |-> pw, src |-> "manual", dry |-> dry,
                           cm |-> Nil, origin |-> "none"]))

\* Mutant: a blank password clears the one there is.
EditVCenter_BlankClears(i, name, pw) ==
  /\ Has(mem, i)
  /\ LET old == mem.vcs[i] IN
       Commit(SetVC(mem, i, [old EXCEPT !.name = name, !.pw = pw,
                                        !.src = IF pw = Nil THEN old.src ELSE "manual"]))

\* UpsertVCenter with an id: a blank password keeps the one there is.
EditVCenter(i, name, pw) ==
  /\ Has(mem, i)
  /\ LET old == mem.vcs[i] IN
       Commit(SetVC(mem, i, [old EXCEPT !.name = name,
                                        !.pw = IF pw = Nil THEN old.pw ELSE pw,
                                        !.src = IF pw = Nil THEN old.src ELSE "manual"]))

\* ApplyConfigVCenter: the secret's password wins, else the one there is stays.
ApplyConfig(id, name, cm, origin, dry, secret) ==
  \E i \in Targets(mem.vcs, id, cm, name, Ids \ Known(mem.vcs)) :
    LET found == Matches(mem.vcs, id, cm, name) # {}
        had   == IF found THEN mem.vcs[i].pw ELSE Nil
    IN Commit(SetVC(mem, i,
         [name |-> name, cm |-> cm, origin |-> origin,
          dry |-> DryAfter(dry, found /\ mem.vcs[i].dry),
          pw |-> IF secret # Nil THEN secret ELSE had,
          src |-> IF secret # Nil THEN "secret"
                  ELSE IF had = Nil THEN "none"
                  ELSE IF mem.vcs[i].src = "secret" THEN "manual" ELSE mem.vcs[i].src]))

\* SetVCenterConfigMap, after an export to a runtime ConfigMap.
SetVCenterConfigMap(i, cm) ==
  /\ Has(mem, i)
  /\ Commit([mem EXCEPT !.vcs[i].cm = cm, !.vcs[i].origin = "runtime"])

SetVCenterDryRun(i, on) ==
  /\ Has(mem, i)
  /\ Commit([mem EXCEPT !.vcs[i].dry = on])

SetGlobalDryRun(on) == Commit([mem EXCEPT !.dry = on])

\* Mutant: the mappings of a deleted vCenter stay.
DeleteVCenter_NoCascade(i) ==
  /\ Has(mem, i)
  /\ Commit([mem EXCEPT !.vcs[i] = Nil])

\* DeleteVCenter takes the mappings of the vCenter with it.
DeleteVCenter(i) ==
  /\ Has(mem, i)
  /\ Commit([mem EXCEPT !.vcs[i] = Nil,
                        !.maps = [u \in UUIDs |-> IF @[u] = i THEN Nil ELSE @[u]]])

\* UpsertMapping requires its vCenter.
UpsertMapping(u, i) ==
  /\ Has(mem, i)
  /\ Commit([mem EXCEPT !.maps[u] = i])

\* Mutant: a mapping is removed without s.mu.
DeleteMapping_Unlocked(u) ==
  /\ mem.maps[u] # Nil
  /\ stage = "serving" /\ changes < MaxChanges
  /\ mem' = [mem EXCEPT !.maps[u] = Nil]
  /\ changes' = changes + 1
  /\ UNCHANGED <<disk, tmp, stage, phase, saved>>

DeleteMapping(u) ==
  /\ mem.maps[u] # Nil
  /\ Commit([mem EXCEPT !.maps[u] = Nil])

\* What the listeners call.
Serve ==
  /\ stage = "serving"
  /\ \/ \E i \in Ids, n \in Names, pw \in Passwords \cup {Nil}, on \in BOOLEAN :
          CreateVCenter(i, n, pw, on) \/ EditVCenter(i, n, pw)
     \/ \E i \in Ids, on \in BOOLEAN : SetVCenterDryRun(i, on) \/ SetGlobalDryRun(on)
     \/ \E i \in Ids : DeleteVCenter(i)
     \/ \E u \in UUIDs, i \in Ids : UpsertMapping(u, i)
     \/ \E u \in UUIDs : DeleteMapping(u)

\* What loading and exporting ConfigMaps calls: the load at start only.
Sync ==
  \/ /\ stage = "syncing"
     /\ \E i \in Ids \cup {Nil}, n \in Names, c \in ConfigMaps, o \in {"runtime", "gitops"},
           d \in BOOLEAN \cup {Nil}, pw \in Passwords \cup {Nil} : ApplyConfig(i, n, c, o, d, pw)
  \/ /\ stage \in {"syncing", "serving"}
     /\ \E i \in Ids, c \in ConfigMaps : SetVCenterConfigMap(i, c)

Persist == WriteTmp \/ TmpWritten \/ Rename \/ Reply \/ PersistFails

Seed == \E i \in Ids, n \in Names, pw \in Passwords : SeedFromGOVC(i, n, pw)

Next == Open \/ Seed \/ Advance \/ Sync \/ Serve \/ Persist \/ Crash

Spec == Init /\ [][Next]_vars
-----------------------------------------------------------------------------
(***************************************************************************)
(* Properties.                                                             *)
(***************************************************************************)
MappingsPointAtVCenters(s) == \A u \in UUIDs : s.maps[u] # Nil => Has(s, s.maps[u])

\* A mapping always names a vCenter of the store, in memory and in whatever a
\* restart would load, whichever operation was cut short or failed (the code has
\* no check for a dangling mapping when it loads state.json).
ReferentialIntegrity ==
  /\ MappingsPointAtVCenters(mem)
  /\ disk \notin {Missing, Torn} => MappingsPointAtVCenters(disk)

\* A restart never finds a state.json it cannot parse, wherever the process died.
AlwaysLoadable == disk # Torn

\* A restart loads what the last successful caller was told was saved, or that
\* and the whole of an operation begun since: never an older store, never a part.
AckedIsDurable == disk \in saved

\* No step of a running gateway takes the password of a vCenter away and leaves
\* the vCenter, be it an edit with a blank password or the load of a ConfigMap
\* whose Secret is gone (store.go:320 "a password typed in the UI is kept").
PasswordsAreKept ==
  [][stage # "down" /\ stage' # "down" =>
       \A i \in Known(mem.vcs) : mem.vcs[i].pw # Nil /\ Has(mem', i)
                            => mem'.vcs[i].pw # Nil]_vars
=============================================================================
