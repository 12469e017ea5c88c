------------------------------ MODULE StoreProofs ------------------------------
(***************************************************************************)
(* Proofs about Store, for any vCenters, ConfigMaps, passwords, UUIDs and  *)
(* number of operations.                                                   *)
(*                                                                         *)
(* Each operation replaces the store by another one that is whole, whose   *)
(* mappings name vCenters and which takes no password away (Sound); what   *)
(* persisting does to the disk is the same for all of them.  The inductive *)
(* invariant ties the disk to the memory: the temporary file holds the     *)
(* memory when it is renamed, the disk does when the caller is told, and   *)
(* the memory counts as saved from the time an operation changed it.       *)
(***************************************************************************)
EXTENDS Store, TLAPS

Assumptions == StoreAssumption /\ FileAssumption

PersistInv ==
  /\ phase = "rename" => tmp = mem
  /\ phase = "reply" => disk = mem
  /\ phase # "idle" => mem \in saved
  /\ stage = "down" => phase = "idle"

IInv ==
  /\ TypeOK /\ PersistInv
  /\ ReferentialIntegrity /\ AlwaysLoadable /\ AckedIsDurable

Keeps(s) ==
  \A i \in Known(mem.vcs) : mem.vcs[i].pw # Nil /\ Has(s, i) => s.vcs[i].pw # Nil

\* What an operation makes of the store.
Sound(s) == s \in Stores /\ MappingsPointAtVCenters(s) /\ Keeps(s)

-----------------------------------------------------------------------------
\* A vCenter is added or changed.
LEMMA SetVCSound ==
  ASSUME Assumptions, mem \in Stores, MappingsPointAtVCenters(mem),
         NEW i \in Ids, NEW vc \in VCenter,
         Has(mem, i) /\ mem.vcs[i].pw # Nil => vc.pw # Nil
  PROVE  Sound(SetVC(mem, i, vc))
<1> DEFINE s == SetVC(mem, i, vc)
<1>1. mem.vcs \in [Ids -> VCenter \cup {Nil}] /\ mem.maps \in [UUIDs -> Ids \cup {Nil}]
  BY DEF Stores
<1>2. s \in Stores /\ s.vcs = [mem.vcs EXCEPT ![i] = vc] /\ s.maps = mem.maps
  BY <1>1 DEF SetVC, Stores
<1>3. vc # Nil
  BY DEF Assumptions, FileAssumption
<1>4. s.vcs[i] = vc /\ \A j \in Ids \ {i} : s.vcs[j] = mem.vcs[j]
  BY <1>1, <1>2
<1> HIDE DEF s
<1>5. MappingsPointAtVCenters(s)
  BY <1>2, <1>3, <1>4 DEF MappingsPointAtVCenters, Has, Known
<1>6. Keeps(s)
  BY <1>4 DEF Keeps, Has, Known
<1> QED
  BY <1>2, <1>5, <1>6 DEF Sound, s

\* A ConfigMap is loaded into one of its targets.
LEMMA ApplySound ==
  ASSUME Assumptions, mem \in Stores, MappingsPointAtVCenters(mem),
         NEW id \in Ids \cup {Nil}, NEW name \in Names, NEW cm \in ConfigMaps,
         NEW origin \in {"runtime", "gitops"}, NEW dry \in BOOLEAN \cup {Nil},
         NEW secret \in Passwords \cup {Nil}, ApplyConfig(id, name, cm, origin, dry, secret)
  PROVE  \E s : Sound(s) /\ Commit(s)
<1> DEFINE found == Matches(mem.vcs, id, cm, name) # {}
<1>1. PICK i \in Targets(mem.vcs, id, cm, name, Ids \ Known(mem.vcs)) :
        LET had == IF found THEN mem.vcs[i].pw ELSE Nil
        IN Commit(SetVC(mem, i,
             [name |-> name, cm |-> cm, origin |-> origin,
              dry |-> DryAfter(dry, found /\ mem.vcs[i].dry),
              pw |-> IF secret # Nil THEN secret ELSE had,
              src |-> IF secret # Nil THEN "secret"
                      ELSE IF had = Nil THEN "none"
                      ELSE IF mem.vcs[i].src = "secret" THEN "manual" ELSE mem.vcs[i].src]))
  BY DEF ApplyConfig
<1> DEFINE had == IF found THEN mem.vcs[i].pw ELSE Nil
           src == IF secret # Nil THEN "secret"
                  ELSE IF had = Nil THEN "none"
                  ELSE IF mem.vcs[i].src = "secret" THEN "manual" ELSE mem.vcs[i].src
           pw  == IF secret # Nil THEN secret ELSE had
           on  == DryAfter(dry, found /\ mem.vcs[i].dry)
           vc  == [name |-> name, cm |-> cm, origin |-> origin, dry |-> on, pw |-> pw, src |-> src]
<1>2. mem.vcs \in [Ids -> VCenter \cup {Nil}]
  BY DEF Stores
<1>3. Matches(mem.vcs, id, cm, name) \subseteq Known(mem.vcs)
  BY DEF Matches, Known
<1>4. i \in Ids /\ (found => i \in Known(mem.vcs))
  BY <1>3 DEF Targets, Known
<1>5. Has(mem, i) => found
  <2>1. ASSUME Has(mem, i), ~found
        PROVE  FALSE
    <3>1. i \in IF id # Nil THEN {id} ELSE Ids \ Known(mem.vcs)
      BY <2>1 DEF Targets
    <3>2. i = id /\ id \in Known(mem.vcs)
      BY <2>1, <3>1 DEF Has
    <3> QED
      BY <2>1, <3>2 DEF Matches
  <2> QED
    BY <2>1
<1>6. found => mem.vcs[i] \in VCenter
  BY <1>2, <1>4 DEF Known
<1>7. found => mem.vcs[i].pw \in Passwords \cup {Nil} /\ mem.vcs[i].dry \in BOOLEAN
               /\ mem.vcs[i].src \in {"none", "manual", "secret"}
  BY <1>6 DEF VCenter
<1>8. pw \in Passwords \cup {Nil}
  BY <1>7
<1>9. src \in {"none", "manual", "secret"}
  BY <1>7
<1>10. on \in BOOLEAN
  <2>1. (found /\ mem.vcs[i].dry) \in BOOLEAN
    BY <1>7
  <2> QED
    BY <2>1 DEF DryAfter
<1>11. Has(mem, i) /\ mem.vcs[i].pw # Nil => pw # Nil
  BY <1>5
<1> HIDE DEF src, pw, on
<1>12. vc \in VCenter /\ vc.pw = pw
  BY <1>8, <1>9, <1>10 DEF VCenter
<1>13. Commit(SetVC(mem, i, vc))
  BY <1>1 DEF src, pw, on
<1> HIDE DEF vc
<1>14. Sound(SetVC(mem, i, vc))
  BY <1>4, <1>11, <1>12, SetVCSound
<1> QED
  BY <1>13, <1>14

\* Every operation, be it of the start, the ConfigMaps or the listeners.
LEMMA OperationSound ==
  ASSUME Assumptions, mem \in Stores, MappingsPointAtVCenters(mem), Seed \/ Sync \/ Serve
  PROVE  \E s : Sound(s) /\ Commit(s)
<1>1. mem.vcs \in [Ids -> VCenter \cup {Nil}] /\ mem.maps \in [UUIDs -> Ids \cup {Nil}]
  BY DEF Stores
<1>2. Nil \notin Ids \cup Passwords
  BY DEF Assumptions, StoreAssumption
<1>3. ASSUME NEW i \in Ids, NEW name \in Names, NEW pw \in Passwords,
             SeedFromGOVC(i, name, pw)
      PROVE  \E s : Sound(s) /\ Commit(s)
  <2> DEFINE vc == [name |-> name, pw |-> pw, src |-> "none", dry |-> FALSE,
                    cm |-> Nil, origin |-> "none"]
  <2>1. vc \in VCenter /\ ~Has(mem, i)
    BY <1>3 DEF VCenter, SeedFromGOVC, Has
  <2> HIDE DEF vc
  <2>2. Sound(SetVC(mem, i, vc))
    BY <2>1, SetVCSound
  <2> QED
    BY <1>3, <2>2 DEF SeedFromGOVC, vc
<1>4. ASSUME NEW i \in Ids, NEW name \in Names, NEW pw \in Passwords \cup {Nil},
             NEW on \in BOOLEAN, CreateVCenter(i, name, pw, on)
      PROVE  \E s : Sound(s) /\ Commit(s)
  <2> DEFINE vc == [name |-> name, pw |-> pw, src |-> "manual", dry |-> on,
                    cm |-> Nil, origin |-> "none"]
  <2>1. vc \in VCenter /\ ~Has(mem, i)
    BY <1>4 DEF VCenter, CreateVCenter
  <2> HIDE DEF vc
  <2>2. Sound(SetVC(mem, i, vc))
    BY <2>1, SetVCSound
  <2> QED
    BY <1>4, <2>2 DEF CreateVCenter, vc
<1>5. ASSUME NEW i \in Ids, NEW name \in Names, NEW pw \in Passwords \cup {Nil},
             EditVCenter(i, name, pw)
      PROVE  \E s : Sound(s) /\ Commit(s)
  <2> DEFINE old == mem.vcs[i]
             vc  == [old EXCEPT !.name = name,
                                !.pw = IF pw = Nil THEN old.pw ELSE pw,
                                !.src = IF pw = Nil THEN old.src ELSE "manual"]
  <2>1. old \in VCenter
    BY <1>1, <1>5 DEF EditVCenter, Has, Known
  <2>2. vc \in VCenter /\ (old.pw # Nil => vc.pw # Nil)
    BY <2>1 DEF VCenter
  <2> HIDE DEF vc
  <2>3. Sound(SetVC(mem, i, vc))
    BY <2>2, SetVCSound
  <2> QED
    BY <1>5, <2>3 DEF EditVCenter, vc
<1>6. ASSUME NEW i \in Ids, NEW cm \in ConfigMaps, SetVCenterConfigMap(i, cm)
      PROVE  \E s : Sound(s) /\ Commit(s)
  <2> DEFINE vc == [mem.vcs[i] EXCEPT !.cm = cm, !.origin = "runtime"]
  <2>1. mem.vcs[i] \in VCenter
    BY <1>1, <1>6 DEF SetVCenterConfigMap, Has, Known
  <2>2. vc \in VCenter /\ vc.pw = mem.vcs[i].pw
    BY <2>1 DEF VCenter
  <2>3. [mem EXCEPT !.vcs[i].cm = cm, !.vcs[i].origin = "runtime"] = SetVC(mem, i, vc)
    BY <1>1, <2>1 DEF SetVC, Stores
  <2> HIDE DEF vc
  <2>4. Sound(SetVC(mem, i, vc))
    BY <2>2, SetVCSound
  <2> QED
    BY <1>6, <2>3, <2>4 DEF SetVCenterConfigMap
<1>7. ASSUME NEW i \in Ids, NEW on \in BOOLEAN, SetVCenterDryRun(i, on)
      PROVE  \E s : Sound(s) /\ Commit(s)
  <2> DEFINE vc == [mem.vcs[i] EXCEPT !.dry = on]
  <2>1. mem.vcs[i] \in VCenter
    BY <1>1, <1>7 DEF SetVCenterDryRun, Has, Known
  <2>2. vc \in VCenter /\ vc.pw = mem.vcs[i].pw
    BY <2>1 DEF VCenter
  <2>3. [mem EXCEPT !.vcs[i].dry = on] = SetVC(mem, i, vc)
    BY <1>1, <2>1 DEF SetVC, Stores
  <2> HIDE DEF vc
  <2>4. Sound(SetVC(mem, i, vc))
    BY <2>2, SetVCSound
  <2> QED
    BY <1>7, <2>3, <2>4 DEF SetVCenterDryRun
<1>8. ASSUME NEW on \in BOOLEAN, SetGlobalDryRun(on)
      PROVE  \E s : Sound(s) /\ Commit(s)
  <2> DEFINE s == [mem EXCEPT !.dry = on]
  <2>1. s \in Stores /\ s.vcs = mem.vcs /\ s.maps = mem.maps
    BY DEF Stores
  <2> HIDE DEF s
  <2>2. Sound(s)
    BY <2>1 DEF Sound, MappingsPointAtVCenters, Keeps, Has
  <2> QED
    BY <1>8, <2>2 DEF SetGlobalDryRun, s
<1>9. ASSUME NEW i \in Ids, DeleteVCenter(i)
      PROVE  \E s : Sound(s) /\ Commit(s)
  <2> DEFINE maps == [u \in UUIDs |-> IF mem.maps[u] = i THEN Nil ELSE mem.maps[u]]
             s == [mem EXCEPT !.vcs[i] = Nil, !.maps = maps]
  <2>1. /\ s \in Stores
        /\ s.vcs = [mem.vcs EXCEPT ![i] = Nil] /\ s.maps = maps
    BY <1>1 DEF Stores
  <2>2. s.vcs[i] = Nil /\ \A j \in Ids \ {i} : s.vcs[j] = mem.vcs[j]
    BY <1>1, <2>1
  <2>3. \A u \in UUIDs : s.maps[u] # Nil => s.maps[u] = mem.maps[u] /\ s.maps[u] # i
    BY <2>1
  <2> HIDE DEF s, maps
  <2>4. Sound(s)
    BY <1>1, <2>1, <2>2, <2>3 DEF Sound, MappingsPointAtVCenters, Keeps, Has, Known
  <2> QED
    BY <1>9, <2>4 DEF DeleteVCenter, s, maps
<1>10. ASSUME NEW u \in UUIDs, NEW i \in Ids, UpsertMapping(u, i)
       PROVE  \E s : Sound(s) /\ Commit(s)
  <2> DEFINE s == [mem EXCEPT !.maps[u] = i]
  <2>1. s \in Stores /\ s.vcs = mem.vcs /\ s.maps = [mem.maps EXCEPT ![u] = i]
    BY <1>1 DEF Stores
  <2> HIDE DEF s
  <2>2. \A v \in UUIDs : s.maps[v] = i \/ s.maps[v] = mem.maps[v]
    BY <1>1, <2>1
  <2>3. Sound(s)
    BY <1>10, <2>1, <2>2 DEF Sound, MappingsPointAtVCenters, Keeps, Has, UpsertMapping
  <2> QED
    BY <1>10, <2>3 DEF UpsertMapping, s
<1>11. ASSUME NEW u \in UUIDs, DeleteMapping(u)
       PROVE  \E s : Sound(s) /\ Commit(s)
  <2> DEFINE s == [mem EXCEPT !.maps[u] = Nil]
  <2>1. s \in Stores /\ s.vcs = mem.vcs /\ s.maps = [mem.maps EXCEPT ![u] = Nil]
    BY <1>1 DEF Stores
  <2> HIDE DEF s
  <2>2. \A v \in UUIDs : s.maps[v] = Nil \/ s.maps[v] = mem.maps[v]
    BY <1>1, <2>1
  <2>3. Sound(s)
    BY <2>1, <2>2 DEF Sound, MappingsPointAtVCenters, Keeps, Has
  <2> QED
    BY <1>11, <2>3 DEF DeleteMapping, s
<1> QED
  BY <1>3, <1>4, <1>5, <1>6, <1>7, <1>8, <1>9, <1>10, <1>11, ApplySound DEF Seed, Sync, Serve

-----------------------------------------------------------------------------
\* The empty store Open starts from is a store, and maps nothing.
LEMMA EmptyWhole ==
  ASSUME Assumptions
  PROVE  Empty \in Stores /\ MappingsPointAtVCenters(Empty)
<1>1. [u \in UUIDs |-> Nil] \in [UUIDs -> Ids \cup {Nil}]
  OBVIOUS
<1>2. [i \in Ids |-> Nil] \in [Ids -> VCenter \cup {Nil}]
  OBVIOUS
<1> QED
  BY <1>1, <1>2 DEF Empty, Stores, MappingsPointAtVCenters

\* The initial states satisfy the inductive invariant.
LEMMA InitIInv == ASSUME Assumptions, Init PROVE IInv
<1>1. Empty \in Stores /\ MappingsPointAtVCenters(Empty)
  BY EmptyWhole
<1>2. TypeOK
  BY <1>1 DEF Init, TypeOK, Assumptions, StoreAssumption
<1> QED
  BY <1>1, <1>2
     DEF Init, IInv, PersistInv, ReferentialIntegrity, AlwaysLoadable, AckedIsDurable,
         Assumptions, FileAssumption

\* An operation leaves the disk alone; persisting puts the memory there.
LEMMA StepIInv == ASSUME Assumptions, IInv, [Next]_vars PROVE IInv'
<1> USE DEF IInv, TypeOK, PersistInv, ReferentialIntegrity, AlwaysLoadable, AckedIsDurable
<1>1. Empty \in Stores /\ MappingsPointAtVCenters(Empty)
  BY EmptyWhole
<1>2. Missing \notin Stores /\ Torn \notin Stores /\ Missing # Torn /\ MaxChanges \in Nat
  BY DEF Assumptions, FileAssumption, StoreAssumption
<1>3. CASE Seed \/ Sync \/ Serve
  <2>1. PICK s : Sound(s) /\ Commit(s)
    BY <1>3, OperationSound
  <2>2. stage # "down"
    BY <1>3 DEF Seed, SeedFromGOVC, Sync, Serve
  <2> QED
    BY <1>2, <2>1, <2>2 DEF Sound, Commit
<1>4. CASE WriteTmp
  BY <1>2, <1>4 DEF WriteTmp
<1>5. CASE TmpWritten
  BY <1>2, <1>5 DEF TmpWritten
<1>6. CASE Rename
  BY <1>2, <1>6 DEF Rename
<1>7. CASE Reply
  BY <1>2, <1>7 DEF Reply
<1>8. CASE PersistFails
  BY <1>2, <1>8 DEF PersistFails
<1>9. CASE Crash
  BY <1>1, <1>2, <1>9 DEF Crash
<1>10. CASE Open
  BY <1>1, <1>2, <1>10 DEF Open
<1>11. CASE Advance
  BY <1>2, <1>11 DEF Advance
<1>12. CASE UNCHANGED vars
  BY <1>2, <1>12 DEF vars, MappingsPointAtVCenters, Has
<1> QED
  BY <1>3, <1>4, <1>5, <1>6, <1>7, <1>8, <1>9, <1>10, <1>11, <1>12 DEF Next, Persist

\* It holds of every behaviour.
LEMMA AlwaysIInv == Spec => []IInv
<1>1. Init => IInv
  BY StoreAssumption, FileAssumption, InitIInv DEF Assumptions
<1>2. IInv /\ [Next]_vars => IInv'
  BY StoreAssumption, FileAssumption, StepIInv DEF Assumptions
<1> QED
  BY <1>1, <1>2, PTL DEF Spec

\* The store in memory and every file of it are whole stores.
THEOREM TypeCorrect == Spec => []TypeOK
<1>1. IInv => TypeOK
  BY DEF IInv
<1> QED
  BY <1>1, AlwaysIInv, PTL

\* No operation, failure or crash leaves a mapping without its vCenter, in memory
\* or on the disk (DeleteVCenter and UpsertMapping of store.go).
THEOREM MappingsNeverDangle == Spec => []ReferentialIntegrity
<1>1. IInv => ReferentialIntegrity
  BY DEF IInv
<1> QED
  BY <1>1, AlwaysIInv, PTL

\* state.json is whole wherever the process dies (persistLocked of store.go).
THEOREM StateNeverTorn == Spec => []AlwaysLoadable
<1>1. IInv => AlwaysLoadable
  BY DEF IInv
<1> QED
  BY <1>1, AlwaysIInv, PTL

\* What a caller was told was saved is what a restart loads, or a whole operation
\* begun since.
THEOREM SavedSurvives == Spec => []AckedIsDurable
<1>1. IInv => AckedIsDurable
  BY DEF IInv
<1> QED
  BY <1>1, AlwaysIInv, PTL

\* No operation takes a password away and leaves its vCenter.
THEOREM PasswordsStay == Spec => PasswordsAreKept
<1> DEFINE A == stage # "down" /\ stage' # "down" =>
                  \A i \in Known(mem.vcs) : mem.vcs[i].pw # Nil /\ Has(mem', i)
                                       => mem'.vcs[i].pw # Nil
<1>1. IInv /\ [Next]_vars => [A]_vars
  <2> SUFFICES ASSUME IInv, Next, stage # "down", stage' # "down", mem' # mem
               PROVE  Keeps(mem')
    BY DEF Keeps, vars
  <2>1. Seed \/ Sync \/ Serve
    BY DEF Next, Open, Crash, Advance, Persist, WriteTmp, TmpWritten, Rename, Reply, PersistFails
  <2>2. PICK s : Sound(s) /\ Commit(s)
    BY <2>1, StoreAssumption, FileAssumption, OperationSound
       DEF Assumptions, IInv, TypeOK, ReferentialIntegrity
  <2> QED
    BY <2>2 DEF Sound, Commit
<1> QED
  BY <1>1, AlwaysIInv, PTL DEF Spec, PasswordsAreKept
=============================================================================
