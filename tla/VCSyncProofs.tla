---------------------------- MODULE VCSyncProofs ----------------------------
(***************************************************************************)
(* Proofs about VCSync, for any vCenters, names, requests, GitOps changes  *)
(* and restarts.  The inductive invariant says what a copy is worth: a     *)
(* request on its way to a ConfigMap has a copy of its vCenter, a fresh    *)
(* copy of a ConfigMap is of one that rf2vc owns, requests run only while  *)
(* the gateway serves, and rf2vc never wrote "dry-run off" anywhere.  Two   *)
(* more invariants rest on it: OwnInv says which vCenter a ConfigMap is    *)
(* held for, StartInv what a start has settled so far.                     *)
(***************************************************************************)
EXTENDS VCSync, TLAPS

Assumptions == VCSyncAssumption /\ RecordAssumption

\* A process with something in hand, and one that is to export it.
Exporting == {"base", "longer", "get", "write", "record"}
Working   == Exporting \cup {"fetch", "remove", "unmap", "saved"}

JobOK(p) ==
  /\ pc[p] \in Working => job[p] \in Job
  /\ pc[p] \in Exporting => job[p].vc \in VCenter /\ job[p].map \in Maps
  /\ pc[p] = "remove" /\ job[p].id \in Known(vcs) => job[p].vc \in VCenter
  /\ job[p] # Nil /\ job[p].seen # "none" => pc[p] \in {"write", "record"}
  /\ pc[p] \notin Working => job[p] = Nil

JobInv == \A p \in Procs : JobOK(p)

FreshInv ==
  \A p \in Procs : job[p] # Nil /\ job[p].seen = "fresh" => Runtime(job[p].map)

StageInv ==
  /\ stage # "serve" => \A r \in Reqs : pc[r] \in {"idle", "done"}
  /\ stage # "export" => pc[Boot] = "idle"
  /\ pc[Boot] \in Exporting \cup {"idle"}
  /\ stage \in {"load", "export"} => todo \subseteq Known(vcs)

DryInv ==
  \A c \in Maps :
    /\ cms[c] # Nil /\ cms[c].origin = "runtime" => cms[c].dry # FALSE
    /\ listed[c] # Nil /\ listed[c].origin = "runtime" => listed[c].dry # FALSE

IInv == TypeOK /\ JobInv /\ FreshInv /\ StageInv /\ DryInv
-----------------------------------------------------------------------------
(***************************************************************************)
(* Types.                                                                  *)
(***************************************************************************)
\* What a stale mark changes of a copy, and what not.
LEMMA MarkedShape ==
  ASSUME NEW jobs \in [Procs -> Job \cup {Nil}], NEW c, Assumptions
  PROVE  /\ Marked(jobs, c) \in [Procs -> Job \cup {Nil}]
         /\ \A p \in Procs :
              /\ Marked(jobs, c)[p] = Nil <=> jobs[p] = Nil
              /\ jobs[p] # Nil =>
                   LET m == Marked(jobs, c)[p] IN
                   /\ m.id = jobs[p].id /\ m.vc = jobs[p].vc /\ m.map = jobs[p].map
                   /\ m.seen = "fresh" => jobs[p].seen = "fresh" /\ m.map # c
                   /\ m.seen # "none" => jobs[p].seen # "none"
<1>1. ASSUME NEW p \in Procs
      PROVE  LET m == Marked(jobs, c)[p] IN
             /\ m \in Job \cup {Nil}
             /\ m = Nil <=> jobs[p] = Nil
             /\ jobs[p] # Nil =>
                  /\ m.id = jobs[p].id /\ m.vc = jobs[p].vc /\ m.map = jobs[p].map
                  /\ m.seen = "fresh" => jobs[p].seen = "fresh" /\ m.map # c
                  /\ m.seen # "none" => jobs[p].seen # "none"
  <2>1. CASE jobs[p] # Nil /\ jobs[p].map = c /\ jobs[p].seen = "fresh"
    <3>1. Marked(jobs, c)[p] = [jobs[p] EXCEPT !.seen = "stale"]
      BY <2>1 DEF Marked
    <3>2. jobs[p] \in Job
      BY <2>1
    <3>3. [jobs[p] EXCEPT !.seen = "stale"] \in Job
      BY <3>2 DEF Job
    <3>4. [jobs[p] EXCEPT !.seen = "stale"].seen = "stale"
      BY <3>2 DEF Job
    <3>5. LET m == [jobs[p] EXCEPT !.seen = "stale"]
          IN  m.id = jobs[p].id /\ m.vc = jobs[p].vc /\ m.map = jobs[p].map
      BY <3>2 DEF Job
    <3>6. Nil \notin Job
      BY DEF Assumptions
    <3> QED
      BY <2>1, <3>1, <3>3, <3>4, <3>5, <3>6
  <2>2. CASE ~(jobs[p] # Nil /\ jobs[p].map = c /\ jobs[p].seen = "fresh")
    BY <2>2 DEF Marked
  <2> QED
    BY <2>1, <2>2
<1>2. Marked(jobs, c) = [p \in Procs |-> Marked(jobs, c)[p]]
  BY DEF Marked
<1> QED
  BY <1>1, <1>2

\* What export takes up: a copy of the vCenter, and a name for its ConfigMap.
LEMMA ExportShape ==
  ASSUME TypeOK, Assumptions, NEW p \in Procs, NEW i \in Known(vcs), Export(p, i)
  PROVE  /\ \E j \in Job : /\ job' = [job EXCEPT ![p] = j]
                           /\ j.id = i /\ j.vc \in VCenter /\ j.map \in Maps /\ j.seen = "none"
         /\ \E label \in {"get", "base"} : pc' = [pc EXCEPT ![p] = label]
<1> DEFINE map == IF vcs[i].cm # Nil THEN vcs[i].cm ELSE Base(vcs[i].name)
           j   == [id |-> i, vc |-> vcs[i], seen |-> "none", map |-> map]
<1>1. i \in Ids /\ vcs[i] \in VCenter
  BY DEF Known, TypeOK
<1>2. vcs[i].name \in Names /\ vcs[i].cm \in Maps \cup {Nil}
  BY <1>1 DEF VCenter
<1>3. map \in Maps
  BY <1>2 DEF Maps
<1>4. job' = [job EXCEPT ![p] = j]
  BY DEF Export
<1> HIDE DEF map
<1>5. j \in Job
  BY <1>1, <1>3 DEF Job
<1>6. j.id = i /\ j.vc \in VCenter /\ j.map \in Maps /\ j.seen = "none"
  BY <1>1, <1>3
<1>7. \E label \in {"get", "base"} : pc' = [pc EXCEPT ![p] = label]
  BY DEF Export, Goto
<1> HIDE DEF j
<1> QED
  BY <1>4, <1>5, <1>6, <1>7

\* Load changes one vCenter, to one that the ConfigMap describes.
LEMMA LoadShape ==
  ASSUME TypeOK, Assumptions, NEW c \in Maps, Load(c)
  PROVE  \/ \E i \in Ids, vc \in VCenter :
              /\ vcs' = [vcs EXCEPT ![i] = vc] /\ todo' = todo \ {i}
              /\ vc.origin = listed[c].origin /\ vc.cm = c
              /\ listed[c].dry = FALSE \/ (i \in Known(vcs) /\ vcs[i].dry => vc.dry)
         \/ UNCHANGED <<vcs, todo>>
<1> DEFINE m == listed[c]
<1>1. m \in ConfigMap
  BY DEF Load, TypeOK
<1>2. m.id \in Ids \cup {Nil} /\ m.name \in Names /\ m.fields \in Fields
      /\ m.dry \in BOOLEAN \cup {Nil} /\ m.origin \in {"runtime", "gitops"}
  BY <1>1 DEF ConfigMap
<1>3. ASSUME NEW i \in Targets(vcs, m.id, c, m.name, Fresh),
             vcs' = [vcs EXCEPT ![i] =
                [name |-> m.name, fields |-> m.fields, cm |-> c, origin |-> m.origin,
                 dry |-> DryAfter(m.dry, vcs[i] # Nil /\ vcs[i].dry)]],
             todo' = todo \ {i}
      PROVE  \E j \in Ids, vc \in VCenter :
              /\ vcs' = [vcs EXCEPT ![j] = vc] /\ todo' = todo \ {j}
              /\ vc.origin = m.origin /\ vc.cm = c
              /\ m.dry = FALSE \/ (j \in Known(vcs) /\ vcs[j].dry => vc.dry)
  <2> DEFINE was == vcs[i] # Nil /\ vcs[i].dry
             on  == DryAfter(m.dry, was)
             vc  == [name |-> m.name, fields |-> m.fields, cm |-> c, origin |-> m.origin, dry |-> on]
  <2>1. i \in Ids
    BY <1>2, <1>3 DEF Targets, Matches, Known, Fresh
  <2>2. was \in BOOLEAN
    BY <2>1 DEF TypeOK, VCenter
  <2>3. on \in BOOLEAN
    BY <1>2, <2>2 DEF DryAfter
  <2>4. m.dry = FALSE \/ (was => on)
    BY <1>2, <2>2 DEF DryAfter, Assumptions, VCSyncAssumption
  <2>5. i \in Known(vcs) /\ vcs[i].dry => was
    BY DEF Known
  <2>6. vcs' = [vcs EXCEPT ![i] = vc]
    BY <1>3
  <2> HIDE DEF on
  <2>7. vc \in VCenter
    BY <1>2, <2>3 DEF VCenter
  <2>8. vc.origin = m.origin /\ vc.cm = c /\ vc.dry = on
    OBVIOUS
  <2> HIDE DEF vc, was
  <2> QED
    BY <1>3, <2>1, <2>4, <2>5, <2>6, <2>7, <2>8
<1> QED
  BY <1>3 DEF Load

\* Every step keeps the types.
LEMMA TypeStep ==
  ASSUME Assumptions, IInv, [Next]_vars PROVE TypeOK'
<1>0. TypeOK /\ Procs = Reqs \cup {Boot} /\ Boot \notin Reqs /\ MaxGit \in Nat /\ MaxCrashes \in Nat
  BY DEF IInv, Procs, Assumptions, VCSyncAssumption
<1>1. CASE Start
  BY <1>0, <1>1 DEF Start, TypeOK, Known
<1>2. CASE Loaded \/ Started
  BY <1>0, <1>2 DEF Loaded, Started, TypeOK
<1>3. ASSUME NEW c \in Maps, Load(c) PROVE TypeOK'
  <2>1. vcs' \in [Ids -> VCenter \cup {Nil}] /\ todo' \subseteq Ids
    BY <1>0, <1>3, LoadShape DEF TypeOK
  <2>2. listed' \in [Maps -> ConfigMap \cup {Nil}] /\ disturbed' \in BOOLEAN
    BY <1>0, <1>3 DEF Load, TypeOK
  <2> QED
    BY <1>0, <1>3, <2>1, <2>2 DEF Load, TypeOK
<1>4. ASSUME NEW i \in Ids, ExportNext(i) PROVE TypeOK'
  <2>1. i \in Known(vcs) /\ Export(Boot, i)
    BY <1>4 DEF ExportNext, IInv, StageInv
  <2>2. job' \in [Procs -> Job \cup {Nil}] /\ pc' \in [Procs -> Labels]
    BY <1>0, <2>1, ExportShape DEF TypeOK, Labels
  <2> QED
    BY <1>0, <1>4, <2>2 DEF ExportNext, TypeOK
<1>5. ASSUME NEW r \in Reqs, NEW i \in Ids, NEW label \in {"saved", "fetch"}, Arrives(r, i, label)
      PROVE  vcs' \in [Ids -> VCenter \cup {Nil}] => TypeOK'
  <2>1. [id |-> i, vc |-> Nil, map |-> Nil, seen |-> "none"] \in Job
    BY DEF Job
  <2> QED
    BY <1>0, <1>5, <2>1 DEF Arrives, Goto, TypeOK, Labels
<1>6. ASSUME NEW r \in Reqs, Begin(r) PROVE TypeOK'
  <2>1. ASSUME NEW i \in Ids, NEW n \in Names, NEW on \in BOOLEAN, Create(r, i, n, on)
        PROVE  TypeOK'
    <3>1. [name |-> n, fields |-> r, dry |-> on, cm |-> Nil, origin |-> "none"] \in VCenter
      BY DEF VCenter, Fields
    <3> QED
      BY <1>0, <1>5, <2>1, <3>1 DEF Create, TypeOK
  <2>2. ASSUME NEW i \in Ids, NEW n \in Names, Edit(r, i, n) PROVE TypeOK'
    <3>1. vcs[i] \in VCenter /\ r \in Fields
      BY <1>0, <2>2 DEF Edit, Known, TypeOK, Fields
    <3>2. [[vcs[i] EXCEPT !.name = n] EXCEPT !.fields = r] \in VCenter
      BY <3>1 DEF VCenter
    <3>3. vcs' = [vcs EXCEPT ![i] = [[vcs[i] EXCEPT !.name = n] EXCEPT !.fields = r]]
      BY <1>0, <2>2 DEF Edit, TypeOK
    <3> QED
      BY <1>0, <1>5, <2>2, <3>2, <3>3 DEF Edit, TypeOK
  <2>3. ASSUME NEW i \in Ids, NEW on \in BOOLEAN, SetDryRun(r, i, on) PROVE TypeOK'
    <3>1. vcs[i] \in VCenter
      BY <1>0, <2>3 DEF SetDryRun, Known, TypeOK
    <3>2. [vcs[i] EXCEPT !.dry = on] \in VCenter
      BY <3>1 DEF VCenter
    <3> QED
      BY <1>0, <1>5, <2>3, <3>2 DEF SetDryRun, TypeOK
  <2>4. ASSUME NEW i \in Ids, CheckDelete(r, i) PROVE TypeOK'
    BY <1>0, <1>5, <2>4 DEF CheckDelete, TypeOK
  <2> QED
    BY <1>6, <2>1, <2>2, <2>3, <2>4 DEF Begin
<1>7. ASSUME NEW r \in Reqs, Fetch(r) PROVE TypeOK'
  <2>1. job[r] \in Job
    BY <1>0, <1>7 DEF Fetch, IInv, JobInv, JobOK, Working
  <2>2. vcs[job[r].id] \in VCenter \cup {Nil}
    BY <1>0, <2>1 DEF TypeOK, Job
  <2>3. [job[r] EXCEPT !.vc = vcs[job[r].id]] \in Job
    BY <2>1, <2>2 DEF Job
  <2> QED
    BY <1>0, <1>7, <2>3 DEF Fetch, Goto, TypeOK, Labels
<1>8. ASSUME NEW r \in Reqs, Remove(r) PROVE TypeOK'
  <2>1. job[r] \in Job
    BY <1>0, <1>8 DEF Remove, IInv, JobInv, JobOK, Working
  <2>2. vcs' \in [Ids -> VCenter \cup {Nil}]
    BY <1>0, <1>8 DEF Remove, TypeOK
  <2>3. CASE job[r].id \in Known(vcs) /\ job[r].vc.origin = "runtime"
    <3>1. job[r].vc.cm \in Maps \cup {Nil}
      BY <1>0, <1>8, <2>3 DEF Remove, IInv, JobInv, JobOK, VCenter
    <3>2. [job[r] EXCEPT !.map = job[r].vc.cm] \in Job
      BY <2>1, <3>1 DEF Job
    <3> QED
      BY <1>0, <1>8, <2>2, <2>3, <3>2 DEF Remove, Goto, TypeOK, Labels
  <2>4. CASE ~(job[r].id \in Known(vcs) /\ job[r].vc.origin = "runtime")
    BY <1>0, <1>8, <2>2, <2>4 DEF Remove, Ends, Leave, Without, Goto, TypeOK, Labels
  <2> QED
    BY <2>3, <2>4
<1>9. ASSUME NEW r \in Reqs, Unmap(r) PROVE TypeOK'
  <2>1. Without(r) \in [Procs -> Job \cup {Nil}]
    BY <1>0 DEF Without, TypeOK
  <2>2. Marked(Without(r), job[r].map) \in [Procs -> Job \cup {Nil}]
    BY <2>1, MarkedShape
  <2>3. job' \in [Procs -> Job \cup {Nil}]
    BY <1>9, <2>1, <2>2 DEF Unmap
  <2> QED
    BY <1>0, <1>9, <2>3 DEF Unmap, Leave, Goto, TypeOK, Labels
<1>10. ASSUME NEW r \in Reqs, Saved(r) PROVE TypeOK'
  <2>1. CASE job[r].id \in Known(vcs) /\ vcs[job[r].id].origin # "gitops"
    <3>1. job' \in [Procs -> Job \cup {Nil}] /\ pc' \in [Procs -> Labels]
      BY <1>0, <1>10, <2>1, ExportShape DEF Saved, TypeOK, Labels
    <3> QED
      BY <1>0, <1>10, <3>1 DEF Saved, TypeOK
  <2>2. CASE ~(job[r].id \in Known(vcs) /\ vcs[job[r].id].origin # "gitops")
    BY <1>0, <1>10, <2>2 DEF Saved, Ends, Leave, Without, Goto, TypeOK, Labels
  <2> QED
    BY <2>1, <2>2
<1>11. ASSUME NEW p \in Procs, Fault(p)
       PROVE  pc' \in [Procs -> Labels] /\ job' \in [Procs -> Job \cup {Nil}]
  BY <1>0, <1>11 DEF Fault, Ends, Leave, Without, Goto, TypeOK, Labels
<1>12. ASSUME NEW p \in Procs, NEW copy \in {"none", "fresh"}, Take(p, copy), job[p] \in Job
       PROVE  pc' \in [Procs -> Labels] /\ job' \in [Procs -> Job \cup {Nil}]
  <2>1. [job[p] EXCEPT !.seen = copy] \in Job
    BY <1>12 DEF Job
  <2> QED
    BY <1>0, <1>12, <2>1 DEF Take, Goto, TypeOK, Labels
<1>13. ASSUME NEW p \in Procs, TryBase(p) \/ TryLonger(p) \/ Get(p) PROVE TypeOK'
  <2>1. job[p] \in Job /\ job[p].vc \in VCenter
    BY <1>13 DEF TryBase, TryLonger, Get, IInv, JobInv, JobOK, Exporting, Working
  <2>2. Longer(job[p].vc.name, job[p].id) \in Maps
    BY <2>1 DEF VCenter, Job, Maps
  <2>3. [job[p] EXCEPT !.map = Longer(job[p].vc.name, job[p].id)] \in Job
    BY <2>1, <2>2 DEF Job
  <2>4. pc' \in [Procs -> Labels] /\ job' \in [Procs -> Job \cup {Nil}]
    BY <1>0, <1>11, <1>12, <1>13, <2>1, <2>3 DEF TryBase, TryLonger, Get, Goto, TypeOK, Labels
  <2>5. disturbed' \in BOOLEAN
    BY <1>0, <1>13 DEF TryBase, TryLonger, Get, Fault, Take, TypeOK
  <2> QED
    BY <1>0, <1>13, <2>4, <2>5 DEF TryBase, TryLonger, Get, TypeOK
<1>14. ASSUME NEW p \in Procs, Write(p) PROVE TypeOK'
  <2>1. job[p] \in Job /\ job[p].vc \in VCenter
    BY <1>14 DEF Write, IInv, JobInv, JobOK, Exporting, Working
  <2>2. Render(p) \in ConfigMap
    BY <2>1 DEF Render, ConfigMap, VCenter, Job
  <2>3. cms' \in [Maps -> ConfigMap \cup {Nil}]
    BY <1>0, <1>14, <2>2 DEF Write, TypeOK
  <2>4. Without(p) \in [Procs -> Job \cup {Nil}] /\ job \in [Procs -> Job \cup {Nil}]
    BY <1>0 DEF Without, TypeOK
  <2>5. pc' \in [Procs -> Labels] /\ job' \in [Procs -> Job \cup {Nil}]
    <3>1. CASE Fault(p)
      BY <1>0, <1>11, <3>1
    <3>2. CASE Goto(p, "record") /\ job' = Marked(job, job[p].map)
      <4>1. job' \in [Procs -> Job \cup {Nil}]
        BY <1>0, <2>4, <3>2, MarkedShape
      <4> QED
        BY <1>0, <3>2, <4>1 DEF Goto, TypeOK, Labels
    <3>3. CASE Leave(p) /\ job' = Marked(Without(p), job[p].map)
      <4>1. job' \in [Procs -> Job \cup {Nil}]
        BY <1>0, <2>4, <3>3, MarkedShape
      <4> QED
        BY <1>0, <3>3, <4>1 DEF Leave, Goto, TypeOK, Labels
    <3> QED
      BY <1>14, <3>1, <3>2, <3>3 DEF Write
  <2>6. disturbed' \in BOOLEAN
    BY <1>0, <1>14 DEF Write, Fault, TypeOK
  <2> QED
    BY <1>0, <1>14, <2>3, <2>5, <2>6 DEF Write, TypeOK
<1>15. ASSUME NEW p \in Procs, Record(p) PROVE TypeOK'
  <2>1. job[p] \in Job /\ job[p].map \in Maps
    BY <1>15 DEF Record, IInv, JobInv, JobOK, Exporting, Working
  <2>2. vcs' \in [Ids -> VCenter \cup {Nil}]
    <3>1. CASE job[p].id \in Known(vcs)
      <4>1. vcs[job[p].id] \in VCenter
        BY <1>0, <3>1 DEF Known, TypeOK
      <4>2. [[vcs[job[p].id] EXCEPT !.cm = job[p].map] EXCEPT !.origin = "runtime"] \in VCenter
        BY <2>1, <4>1 DEF VCenter
      <4>3. vcs' = [vcs EXCEPT ![job[p].id] =
                      [[vcs[job[p].id] EXCEPT !.cm = job[p].map] EXCEPT !.origin = "runtime"]]
        BY <1>0, <1>15, <3>1 DEF Record, TypeOK, Known
      <4> QED
        BY <1>0, <4>2, <4>3 DEF TypeOK
    <3> QED
      BY <1>0, <1>15, <3>1 DEF Record, TypeOK
  <2> QED
    BY <1>0, <1>15, <2>2 DEF Record, Ends, Leave, Without, Goto, TypeOK, Labels
<1>16. ASSUME NEW c \in Maps, GitOps(c) PROVE TypeOK'
  <2>1. job' \in [Procs -> Job \cup {Nil}]
    BY <1>0, <1>16, MarkedShape DEF GitOps, TypeOK
  <2>2. git' \in 0..MaxGit
    BY <1>0, <1>16 DEF GitOps, TypeOK
  <2>3. ASSUME cms[c] # Nil, NEW d \in {Nil, FALSE},
               cms' = [cms EXCEPT ![c].fields = FromGit, ![c].dry = d, ![c].origin = "gitops"]
        PROVE  cms' \in [Maps -> ConfigMap \cup {Nil}]
    <3>1. cms[c] \in ConfigMap /\ FromGit \in Fields
      BY <1>0, <2>3 DEF TypeOK, Fields
    <3>2. [[[cms[c] EXCEPT !.fields = FromGit] EXCEPT !.dry = d] EXCEPT !.origin = "gitops"] \in ConfigMap
      BY <3>1 DEF ConfigMap
    <3>3. cms' = [cms EXCEPT ![c] =
            [[[cms[c] EXCEPT !.fields = FromGit] EXCEPT !.dry = d] EXCEPT !.origin = "gitops"]]
      BY <1>0, <2>3 DEF TypeOK
    <3> QED
      BY <1>0, <3>2, <3>3 DEF TypeOK
  <2>4. ASSUME NEW n \in Names, NEW d \in {Nil, TRUE},
               cms' = [cms EXCEPT ![c] = [id |-> Nil, name |-> n, fields |-> FromGit, dry |-> d,
                                          origin |-> "gitops"]]
        PROVE  cms' \in [Maps -> ConfigMap \cup {Nil}]
    <3>1. [id |-> Nil, name |-> n, fields |-> FromGit, dry |-> d, origin |-> "gitops"] \in ConfigMap
      BY DEF ConfigMap, Fields
    <3> QED
      BY <1>0, <2>4, <3>1 DEF TypeOK
  <2>5. cms' \in [Maps -> ConfigMap \cup {Nil}]
    BY <1>0, <1>16, <2>3, <2>4 DEF GitOps, TypeOK
  <2> QED
    BY <1>0, <1>16, <2>1, <2>2, <2>5 DEF GitOps, TypeOK
<1>17. CASE Crash
  BY <1>0, <1>17 DEF Crash, TypeOK, Labels
<1>18. CASE UNCHANGED vars
  BY <1>0, <1>18 DEF vars, TypeOK
<1> QED
  BY <1>1, <1>2, <1>3, <1>4, <1>6, <1>7, <1>8, <1>9, <1>10, <1>13, <1>14, <1>15, <1>16, <1>17, <1>18
  DEF Next, Startup, Step, Rest

-----------------------------------------------------------------------------
(***************************************************************************)
(* What the processes have in hand.                                        *)
(***************************************************************************)
\* A step of another process, or of none, leaves q's work as it is; a copy may
\* only grow stale, and no vCenter that q is about to remove comes back.
Still(q) ==
  /\ pc'[q] = pc[q]
  /\ job'[q] = Nil <=> job[q] = Nil
  /\ job[q] # Nil =>
       /\ job'[q].id = job[q].id /\ job'[q].vc = job[q].vc /\ job'[q].map = job[q].map
       /\ job'[q].seen # "none" => job[q].seen # "none"
  /\ pc[q] = "remove" /\ job[q].id \in Known(vcs') => job[q].id \in Known(vcs)

\* A process that Still(q) leaves alone keeps what its job says of the store.
LEMMA StillRight ==
  ASSUME Assumptions, TypeOK, TypeOK', NEW q \in Procs, JobOK(q), Still(q)
  PROVE  JobOK(q)'
<1>1. job[q] \in Job \cup {Nil} /\ job'[q] \in Job \cup {Nil} /\ Nil \notin Job
  BY DEF TypeOK, Assumptions, RecordAssumption
<1> QED
  BY <1>1 DEF JobOK, Still, Exporting, Working

\* A change of one vCenter that is known makes no other one known.
LEMMA KnownAfter ==
  ASSUME NEW i \in Known(vcs), \A j \in Ids \ {i} : vcs'[j] = vcs[j]
  PROVE  Known(vcs') \subseteq Known(vcs)
BY DEF Known

\* What p does is no concern of the others, if no vCenter becomes known by it.
OnlyMoves(p) ==
  \A q \in Procs \ {p} :
    /\ pc'[q] = pc[q]
    /\ job'[q] = job[q]

\* A step that moves p alone, and makes no vCenter known, leaves the others alone.
LEMMA OthersStill ==
  ASSUME NEW p \in Procs, OnlyMoves(p), Known(vcs') \subseteq Known(vcs)
  PROVE  \A q \in Procs \ {p} : Still(q)
BY DEF Still, OnlyMoves

\* So does one that marks the copies of a ConfigMap as stale.
LEMMA MarkedOthers ==
  ASSUME Assumptions, TypeOK, NEW p \in Procs, NEW c,
         job' = Marked(job, c) \/ job' = Marked(Without(p), c),
         \A q \in Procs \ {p} : pc'[q] = pc[q], UNCHANGED vcs
  PROVE  \A q \in Procs \ {p} : Still(q)
<1>1. CASE job' = Marked(job, c)
  BY <1>1, MarkedShape DEF Still, TypeOK
<1>2. CASE job' = Marked(Without(p), c)
  <2>1. Without(p) \in [Procs -> Job \cup {Nil}] /\ \A q \in Procs \ {p} : Without(p)[q] = job[q]
    BY DEF Without, TypeOK
  <2> QED
    BY <1>2, <2>1, MarkedShape DEF Still
<1> QED
  BY <1>1, <1>2

\* A process that is through has nothing in hand.
LEMMA EndsRight ==
  ASSUME Assumptions, TypeOK, NEW p \in Procs, Ends(p)
  PROVE  JobOK(p)' /\ OnlyMoves(p)
<1>1. pc'[p] \in {"idle", "done"} /\ job'[p] = Nil /\ OnlyMoves(p)
  BY DEF Ends, Leave, Without, Goto, TypeOK, OnlyMoves
<1> QED
  BY <1>1 DEF JobOK, Exporting, Working

\* A process that starts to export has what it needs.
LEMMA ExportRight ==
  ASSUME Assumptions, TypeOK, NEW p \in Procs, NEW i \in Known(vcs), Export(p, i)
  PROVE  JobOK(p)' /\ OnlyMoves(p)
<1>1. PICK j \in Job : /\ job' = [job EXCEPT ![p] = j]
                       /\ j.id = i /\ j.vc \in VCenter /\ j.map \in Maps /\ j.seen = "none"
  BY ExportShape
<1>2. pc'[p] \in {"get", "base"} /\ \A q \in Procs \ {p} : pc'[q] = pc[q]
  BY ExportShape DEF TypeOK
<1>3. job'[p] = j /\ \A q \in Procs \ {p} : job'[q] = job[q]
  BY <1>1 DEF TypeOK
<1> QED
  BY <1>1, <1>2, <1>3 DEF JobOK, OnlyMoves, Exporting, Working

\* A request that comes.
LEMMA ArrivesRight ==
  ASSUME Assumptions, TypeOK, NEW r \in Reqs, NEW i \in Ids, NEW label \in {"saved", "fetch"},
         Arrives(r, i, label)
  PROVE  JobOK(r)' /\ OnlyMoves(r)
<1> DEFINE j == [id |-> i, vc |-> Nil, map |-> Nil, seen |-> "none"]
<1>1. j \in Job /\ j.seen = "none" /\ r \in Procs
  BY DEF Job, Procs
<1>2. job'[r] = j /\ pc'[r] = label /\ OnlyMoves(r)
  BY <1>1 DEF Arrives, Goto, TypeOK, OnlyMoves
<1> HIDE DEF j
<1> QED
  BY <1>1, <1>2 DEF JobOK, Exporting, Working

\* The ConfigMap is p's to write.
LEMMA TakeRight ==
  ASSUME Assumptions, TypeOK, NEW p \in Procs, JobOK(p), pc[p] \in Exporting,
         NEW copy \in {"none", "fresh"}, Take(p, copy)
  PROVE  JobOK(p)' /\ OnlyMoves(p)
<1> DEFINE j == [job[p] EXCEPT !.seen = copy]
<1>1. job[p] \in Job /\ job[p].vc \in VCenter /\ job[p].map \in Maps
  BY DEF JobOK, Exporting, Working
<1>2. j \in Job /\ j.vc \in VCenter /\ j.map \in Maps
  BY <1>1 DEF Job
<1>3. job'[p] = j /\ pc'[p] = "write" /\ OnlyMoves(p)
  BY DEF Take, Goto, TypeOK, OnlyMoves
<1> HIDE DEF j
<1> QED
  BY <1>2, <1>3 DEF JobOK, Exporting, Working

\* Every step leaves each process with what it needs.
LEMMA JobStep ==
  ASSUME Assumptions, IInv, TypeOK', [Next]_vars PROVE JobInv'
<1>0. TypeOK /\ Procs = Reqs \cup {Boot} /\ Boot \notin Reqs /\ Nil \notin Job
  BY DEF IInv, Procs, Assumptions, VCSyncAssumption, RecordAssumption
<1>00. job \in [Procs -> Job \cup {Nil}]
  BY <1>0 DEF TypeOK
<1>1. \A p \in Procs : JobOK(p) /\ (pc[p] \in Working => job[p] \in Job)
  BY DEF IInv, JobInv, JobOK
<1>2. ASSUME \A q \in Procs : Still(q) PROVE JobInv'
  BY <1>0, <1>1, <1>2, StillRight DEF JobInv
<1>3. ASSUME NEW p \in Procs, JobOK(p)', \A q \in Procs \ {p} : Still(q) PROVE JobInv'
  BY <1>0, <1>1, <1>3, StillRight DEF JobInv
<1>4. ASSUME NEW p \in Procs, JobOK(p)', OnlyMoves(p), Known(vcs') \subseteq Known(vcs)
      PROVE  JobInv'
  BY <1>3, <1>4, OthersStill
<1>5. CASE Start \/ Loaded \/ Started \/ UNCHANGED vars
  BY <1>2, <1>5 DEF Start, Loaded, Started, vars, Still
<1>6. ASSUME NEW c \in Maps, Load(c) PROVE JobInv'
  <2>1. \A p \in Procs : pc[p] # "remove"
    BY <1>0, <1>6 DEF Load, IInv, StageInv, Exporting
  <2> QED
    BY <1>2, <1>6, <2>1 DEF Load, Still
<1>7. ASSUME NEW i \in Ids, ExportNext(i) PROVE JobInv'
  <2>1. i \in Known(vcs) /\ Export(Boot, i) /\ UNCHANGED vcs
    BY <1>7 DEF ExportNext, IInv, StageInv
  <2> QED
    BY <1>0, <1>4, <2>1, ExportRight
<1>8. ASSUME NEW r \in Reqs, Begin(r) PROVE JobInv'
  <2>1. PICK i \in Ids : \/ \E n \in Names, on \in BOOLEAN : Create(r, i, n, on)
                         \/ \E n \in Names : Edit(r, i, n)
                         \/ \E on \in BOOLEAN : SetDryRun(r, i, on)
                         \/ CheckDelete(r, i)
    BY <1>8 DEF Begin
  <2>2. Arrives(r, i, "saved") \/ Arrives(r, i, "fetch")
    BY <2>1 DEF Create, Edit, SetDryRun, CheckDelete
  <2>3. JobOK(r)' /\ OnlyMoves(r) /\ r \in Procs
    BY <1>0, <2>2, ArrivesRight
  <2>4. CASE \E n \in Names, on \in BOOLEAN : Create(r, i, n, on)
    <3>1. i \in Fresh /\ \A j \in Ids \ {i} : vcs'[j] = vcs[j]
      BY <1>0, <2>4 DEF Create, TypeOK
    <3>2. \A q \in Procs : pc[q] = "remove" => job[q].id # i /\ job[q].id \in Ids
      BY <1>0, <1>1, <3>1 DEF Fresh, Working, Job
    <3>3. \A q \in Procs \ {r} : Still(q)
      BY <2>3, <3>1, <3>2 DEF Still, OnlyMoves, Known
    <3> QED
      BY <1>3, <2>3, <3>3
  <2>5. CASE ~\E n \in Names, on \in BOOLEAN : Create(r, i, n, on)
    <3>1. i \in Known(vcs) /\ \A j \in Ids \ {i} : vcs'[j] = vcs[j]
      BY <1>0, <2>1, <2>5 DEF Edit, SetDryRun, CheckDelete, TypeOK
    <3> QED
      BY <1>4, <2>3, <3>1, KnownAfter
  <2> QED
    BY <2>4, <2>5
<1>9. ASSUME NEW r \in Reqs, Fetch(r) PROVE JobInv'
  <2> DEFINE j == [job[r] EXCEPT !.vc = vcs[job[r].id]]
  <2>1. pc[r] = "fetch" /\ job[r] \in Job /\ r \in Procs
    BY <1>0, <1>1, <1>9 DEF Fetch, Working
  <2>2. job'[r] = j /\ pc'[r] = "remove" /\ OnlyMoves(r) /\ UNCHANGED vcs
    BY <1>0, <1>9, <2>1 DEF Fetch, Goto, TypeOK, OnlyMoves
  <2>3. /\ j.id = job[r].id /\ j.vc = vcs[job[r].id] /\ j.seen = job[r].seen
        /\ job[r].id \in Ids
    BY <2>1 DEF Job
  <2>4. job[r].seen = "none"
    BY <1>0, <1>1, <2>1 DEF JobOK
  <2>5. job'[r] \in Job
    BY <1>0, <2>1, <2>2, <2>3 DEF TypeOK, Job
  <2> HIDE DEF j
  <2>6. JobOK(r)'
    BY <1>0, <2>2, <2>3, <2>4, <2>5 DEF JobOK, Exporting, Working, Known, TypeOK
  <2> QED
    BY <1>4, <2>1, <2>2, <2>6
<1>10. ASSUME NEW r \in Reqs, Remove(r) PROVE JobInv'
  <2>1. pc[r] = "remove" /\ job[r] \in Job /\ r \in Procs
    BY <1>0, <1>1, <1>10 DEF Remove, Working
  <2>2. Known(vcs') \subseteq Known(vcs)
    BY <1>0, <1>10 DEF Remove, Known, TypeOK
  <2>3. CASE job[r].id \in Known(vcs) /\ job[r].vc.origin = "runtime"
    <3> DEFINE j == [job[r] EXCEPT !.map = job[r].vc.cm]
    <3>1. job'[r] = j /\ pc'[r] = "unmap" /\ OnlyMoves(r)
      BY <1>0, <1>10, <2>1, <2>3 DEF Remove, Goto, TypeOK, OnlyMoves
    <3>2. job[r].vc.cm \in Maps \cup {Nil}
      BY <1>1, <2>1, <2>3 DEF JobOK, VCenter
    <3>3. j \in Job /\ j.seen = job[r].seen
      BY <2>1, <3>2 DEF Job
    <3>4. job[r].seen = "none"
      BY <1>0, <1>1, <2>1 DEF JobOK
    <3> HIDE DEF j
    <3>5. JobOK(r)'
      BY <3>1, <3>3, <3>4 DEF JobOK, Exporting, Working
    <3> QED
      BY <1>4, <2>1, <2>2, <3>1, <3>5
  <2>4. CASE ~(job[r].id \in Known(vcs) /\ job[r].vc.origin = "runtime")
    <3>1. Ends(r)
      BY <1>10, <2>4 DEF Remove
    <3> QED
      BY <1>0, <1>4, <2>1, <2>2, <3>1, EndsRight
  <2> QED
    BY <2>3, <2>4
<1>11. ASSUME NEW r \in Reqs, Unmap(r) PROVE JobInv'
  <2>1. /\ r \in Procs /\ UNCHANGED vcs /\ pc'[r] \in {"idle", "done"}
        /\ \A q \in Procs \ {r} : pc'[q] = pc[q]
    BY <1>0, <1>11 DEF Unmap, Leave, Goto, TypeOK
  <2>2. CASE job' = Marked(Without(r), job[r].map)
    <3>1. Without(r) \in [Procs -> Job \cup {Nil}] /\ Without(r)[r] = Nil
      BY <1>0, <2>1 DEF Without, TypeOK
    <3>2. job'[r] = Nil
      BY <2>1, <2>2, <3>1, MarkedShape
    <3>3. JobOK(r)'
      BY <2>1, <3>2 DEF JobOK, Exporting, Working
    <3>4. \A q \in Procs \ {r} : Still(q)
      BY <1>0, <2>1, <2>2, MarkedOthers
    <3> QED
      BY <1>3, <2>1, <3>3, <3>4
  <2>3. CASE job' = Without(r)
    <3>1. Ends(r)
      BY <1>11, <2>3 DEF Unmap, Ends
    <3> QED
      BY <1>0, <1>4, <2>1, <3>1, EndsRight
  <2> QED
    BY <1>11, <2>2, <2>3 DEF Unmap
<1>12. ASSUME NEW r \in Reqs, Saved(r) PROVE JobInv'
  <2>1. UNCHANGED vcs /\ r \in Procs
    BY <1>0, <1>12 DEF Saved
  <2>2. (job[r].id \in Known(vcs) /\ Export(r, job[r].id)) \/ Ends(r)
    BY <1>12 DEF Saved
  <2> QED
    BY <1>0, <1>4, <2>1, <2>2, ExportRight, EndsRight
<1>13. ASSUME NEW p \in Procs, TryBase(p) \/ TryLonger(p) \/ Get(p) PROVE JobInv'
  <2>1. pc[p] \in {"base", "longer", "get"} /\ UNCHANGED vcs /\ pc[p] \in Exporting
    BY <1>13 DEF TryBase, TryLonger, Get, Exporting
  <2>2. CASE Take(p, "none") \/ Take(p, "fresh")
    BY <1>0, <1>1, <1>4, <2>1, <2>2, TakeRight
  <2>3. CASE Fault(p)
    BY <1>0, <1>4, <2>1, <2>3, EndsRight DEF Fault
  <2>4. CASE /\ job' = [job EXCEPT ![p].map = Longer(job[p].vc.name, job[p].id)]
             /\ Goto(p, "longer")
    <3> DEFINE j == [job[p] EXCEPT !.map = Longer(job[p].vc.name, job[p].id)]
    <3>1. job[p] \in Job /\ job[p].vc \in VCenter /\ job[p].seen = "none"
      BY <1>0, <1>1, <2>1 DEF JobOK, Exporting, Working
    <3>2. Longer(job[p].vc.name, job[p].id) \in Maps
      BY <3>1 DEF VCenter, Job, Maps
    <3>3. j \in Job /\ j.vc = job[p].vc /\ j.map \in Maps /\ j.seen = "none"
      BY <3>1, <3>2 DEF Job
    <3>4. job'[p] = j /\ pc'[p] = "longer" /\ OnlyMoves(p)
      BY <1>0, <2>4 DEF Goto, TypeOK, OnlyMoves
    <3> HIDE DEF j
    <3>5. JobOK(p)'
      BY <3>1, <3>3, <3>4 DEF JobOK, Exporting, Working
    <3> QED
      BY <1>4, <2>1, <3>4, <3>5
  <2> QED
    BY <1>13, <2>2, <2>3, <2>4 DEF TryBase, TryLonger, Get
<1>14. ASSUME NEW p \in Procs, Write(p) PROVE JobInv'
  <2>1. UNCHANGED vcs /\ pc[p] = "write" /\ \A q \in Procs \ {p} : pc'[q] = pc[q]
    BY <1>0, <1>14 DEF Write, Fault, Ends, Leave, Goto, TypeOK
  <2>2. job[p] \in Job /\ job[p].vc \in VCenter /\ job[p].map \in Maps
    BY <1>1, <2>1 DEF JobOK, Exporting, Working
  <2>3. CASE Goto(p, "record") /\ job' = Marked(job, job[p].map)
    <3>1. job'[p] \in Job /\ job'[p].vc = job[p].vc /\ job'[p].map = job[p].map
      BY <1>0, <1>00, <2>2, <2>3, MarkedShape
    <3>2. pc'[p] = "record"
      BY <1>0, <2>3 DEF Goto, TypeOK
    <3>3. JobOK(p)'
      BY <2>2, <3>1, <3>2 DEF JobOK, Exporting, Working
    <3>4. \A q \in Procs \ {p} : Still(q)
      BY <1>0, <2>1, <2>3, MarkedOthers
    <3> QED
      BY <1>3, <3>3, <3>4
  <2>4. CASE Leave(p) /\ job' = Marked(Without(p), job[p].map)
    <3>1. Without(p) \in [Procs -> Job \cup {Nil}] /\ Without(p)[p] = Nil
      BY <1>0 DEF Without, TypeOK
    <3>2. job'[p] = Nil
      BY <2>4, <3>1, MarkedShape
    <3>3. pc'[p] \in {"idle", "done"}
      BY <1>0, <2>4 DEF Leave, Goto, TypeOK
    <3>4. JobOK(p)'
      BY <3>2, <3>3 DEF JobOK, Exporting, Working
    <3>5. \A q \in Procs \ {p} : Still(q)
      BY <1>0, <2>1, <2>4, MarkedOthers
    <3> QED
      BY <1>3, <3>4, <3>5
  <2>5. CASE Fault(p)
    BY <1>0, <1>4, <2>1, <2>5, EndsRight DEF Fault
  <2> QED
    BY <1>14, <2>3, <2>4, <2>5 DEF Write
<1>15. ASSUME NEW p \in Procs, Record(p) PROVE JobInv'
  <2>1. Ends(p)
    BY <1>15 DEF Record
  <2>2. Known(vcs') \subseteq Known(vcs)
    BY <1>0, <1>15 DEF Record, Known, TypeOK
  <2> QED
    BY <1>0, <1>4, <2>1, <2>2, EndsRight
<1>16. ASSUME NEW c \in Maps, GitOps(c) PROVE JobInv'
  <2>1. job' = Marked(job, c) /\ UNCHANGED <<vcs, pc>>
    BY <1>16 DEF GitOps
  <2>2. \A q \in Procs : Still(q)
    BY <1>00, <2>1, MarkedShape DEF Still
  <2> QED
    BY <1>2, <2>2
<1>17. CASE Crash
  BY <1>17 DEF Crash, JobInv, JobOK, Working, Exporting
<1> QED
  BY <1>5, <1>6, <1>7, <1>8, <1>9, <1>10, <1>11, <1>12, <1>13, <1>14, <1>15, <1>16, <1>17
  DEF Next, Startup, Step, Rest

-----------------------------------------------------------------------------
(***************************************************************************)
(* What a fresh copy of a ConfigMap is worth.                              *)
(***************************************************************************)
\* Copies that are fresh after a write of c were fresh before, and are not of c.
LEMMA MarkedFresh ==
  ASSUME Assumptions, NEW jobs \in [Procs -> Job \cup {Nil}], NEW c,
         \A q \in Procs : jobs[q] = Nil \/ jobs[q] = job[q], FreshInv,
         job' = Marked(jobs, c), \A d \in Maps \ {c} : cms'[d] = cms[d],
         \A q \in Procs : job[q] # Nil /\ job[q].seen = "fresh" => job[q].map \in Maps
  PROVE  FreshInv'
<1>1. ASSUME NEW q \in Procs, job'[q] # Nil, job'[q].seen = "fresh"
      PROVE  Runtime(job[q].map)'
  <2>1. jobs[q] # Nil /\ jobs[q] = job[q]
    BY <1>1, MarkedShape
  <2>2. job[q].seen = "fresh" /\ job'[q].map = job[q].map /\ job'[q].map # c
    BY <1>1, <2>1, MarkedShape
  <2>3. Runtime(job[q].map) /\ job[q].map \in Maps \ {c}
    BY <2>1, <2>2 DEF FreshInv
  <2> QED
    BY <2>2, <2>3 DEF Runtime
<1> QED
  BY <1>1 DEF FreshInv

\* Every step but a write of a ConfigMap leaves the ConfigMaps alone, and what it
\* takes for fresh is rf2vc's; a write makes the other copies stale.
LEMMA FreshStep ==
  ASSUME Assumptions, IInv, [Next]_vars PROVE FreshInv'
<1>0. TypeOK /\ Procs = Reqs \cup {Boot} /\ Nil \notin Job /\ FreshInv
  BY DEF IInv, Procs, Assumptions, RecordAssumption
<1>1. job \in [Procs -> Job \cup {Nil}]
  BY <1>0 DEF TypeOK
<1>2. \A q \in Procs : job[q] # Nil /\ job[q].seen = "fresh" => job[q].map \in Maps
  BY DEF IInv, JobInv, JobOK, Exporting
<1>3. ASSUME UNCHANGED cms, NEW p \in Procs,
             \A q \in Procs \ {p} : job'[q] = job[q],
             job'[p] # Nil /\ job'[p].seen = "fresh" => Runtime(job'[p].map)
      PROVE  FreshInv'
  BY <1>0, <1>3 DEF FreshInv, Runtime
<1>4. ASSUME NEW p \in Procs, Ends(p), UNCHANGED cms PROVE FreshInv'
  BY <1>1, <1>3, <1>4 DEF Ends, Without
<1>5. CASE Start \/ Loaded \/ Started \/ (\E c \in Maps : Load(c)) \/ UNCHANGED vars
  BY <1>0, <1>5 DEF Start, Loaded, Started, Load, vars, FreshInv, Runtime
<1>6. ASSUME NEW p \in Procs, NEW i \in Known(vcs), Export(p, i), UNCHANGED cms PROVE FreshInv'
  <2>1. PICK j \in Job : job' = [job EXCEPT ![p] = j] /\ j.seen = "none"
    BY <1>0, <1>6, ExportShape
  <2>2. job'[p] = j /\ \A q \in Procs \ {p} : job'[q] = job[q]
    BY <1>1, <2>1
  <2> QED
    BY <1>3, <1>6, <2>1, <2>2
<1>7. ASSUME NEW i \in Ids, ExportNext(i) PROVE FreshInv'
  BY <1>0, <1>6, <1>7 DEF ExportNext, IInv, StageInv
<1>8. ASSUME NEW r \in Reqs, Begin(r) PROVE FreshInv'
  <2>1. PICK i \in Ids : Arrives(r, i, "saved") \/ Arrives(r, i, "fetch")
    BY <1>8 DEF Begin, Create, Edit, SetDryRun, CheckDelete
  <2>2. /\ job'[r] = [id |-> i, vc |-> Nil, map |-> Nil, seen |-> "none"] /\ UNCHANGED cms
        /\ \A q \in Procs \ {r} : job'[q] = job[q]
    BY <1>0, <1>1, <2>1 DEF Arrives
  <2> QED
    BY <1>0, <1>3, <2>2
<1>9. ASSUME NEW r \in Reqs, Fetch(r) \/ Remove(r) PROVE FreshInv'
  <2>1. job[r] \in Job /\ job[r].seen = "none"
    BY <1>0, <1>9 DEF Fetch, Remove, IInv, JobInv, JobOK, Working
  <2>2. ASSUME NEW j, \/ j = [job[r] EXCEPT !.vc = vcs[job[r].id]]
                      \/ j = [job[r] EXCEPT !.map = job[r].vc.cm]
        PROVE  j.seen = "none"
    BY <2>1, <2>2 DEF Job
  <2>3. CASE Ends(r)
    BY <1>0, <1>4, <1>9, <2>3 DEF Fetch, Remove
  <2>4. CASE ~Ends(r)
    BY <1>0, <1>1, <1>3, <1>9, <2>2, <2>4 DEF Fetch, Remove
  <2> QED
    BY <2>3, <2>4
<1>10. ASSUME NEW r \in Reqs, Unmap(r) PROVE FreshInv'
  <2>1. CASE job' = Marked(Without(r), job[r].map) /\ cms' = [cms EXCEPT ![job[r].map] = Nil]
    <3>1. Without(r) \in [Procs -> Job \cup {Nil}]
      BY <1>1 DEF Without
    <3>2. \A q \in Procs : Without(r)[q] = Nil \/ Without(r)[q] = job[q]
      BY <1>1 DEF Without
    <3>3. \A d \in Maps \ {job[r].map} : cms'[d] = cms[d]
      BY <1>0, <2>1 DEF TypeOK
    <3> QED
      BY <1>0, <1>2, <2>1, <3>1, <3>2, <3>3, MarkedFresh
  <2>2. CASE job' = Without(r) /\ UNCHANGED cms
    BY <1>0, <1>4, <1>10, <2>2 DEF Unmap, Ends
  <2> QED
    BY <1>10, <2>1, <2>2 DEF Unmap
<1>11. ASSUME NEW r \in Reqs, Saved(r) PROVE FreshInv'
  BY <1>0, <1>4, <1>6, <1>11 DEF Saved
<1>12. ASSUME NEW p \in Procs, TryBase(p) \/ TryLonger(p) \/ Get(p) PROVE FreshInv'
  <2>1. job[p] \in Job /\ job[p].seen = "none" /\ UNCHANGED cms
    BY <1>0, <1>12 DEF TryBase, TryLonger, Get, IInv, JobInv, JobOK, Exporting, Working
  <2>2. CASE Fault(p)
    BY <1>4, <2>1, <2>2 DEF Fault
  <2>3. CASE Take(p, "none")
    <3>1. [job[p] EXCEPT !.seen = "none"].seen = "none"
      BY <2>1 DEF Job
    <3> QED
      BY <1>1, <1>3, <2>1, <2>3, <3>1 DEF Take
  <2>4. CASE Take(p, "fresh") /\ Runtime(job[p].map)
    <3>1. [job[p] EXCEPT !.seen = "fresh"].map = job[p].map
      BY <2>1 DEF Job
    <3> QED
      BY <1>1, <1>3, <2>1, <2>4, <3>1 DEF Take
  <2>5. CASE job' = [job EXCEPT ![p].map = Longer(job[p].vc.name, job[p].id)]
    <3>1. [job[p] EXCEPT !.map = Longer(job[p].vc.name, job[p].id)].seen = "none"
      BY <2>1 DEF Job
    <3> QED
      BY <1>1, <1>3, <2>1, <2>5, <3>1
  <2> QED
    BY <1>12, <2>2, <2>3, <2>4, <2>5 DEF TryBase, TryLonger, Get, Mine
<1>13. ASSUME NEW p \in Procs, Write(p) PROVE FreshInv'
  <2>1. CASE Fault(p) /\ UNCHANGED cms
    BY <1>4, <2>1 DEF Fault
  <2>2. CASE /\ cms' = [cms EXCEPT ![job[p].map] = Render(p)]
             /\ job' = Marked(job, job[p].map) \/ job' = Marked(Without(p), job[p].map)
    <3>1. Without(p) \in [Procs -> Job \cup {Nil}]
      BY <1>1 DEF Without
    <3>2. \A q \in Procs : Without(p)[q] = Nil \/ Without(p)[q] = job[q]
      BY <1>1 DEF Without
    <3>3. \A d \in Maps \ {job[p].map} : cms'[d] = cms[d]
      BY <1>0, <2>2 DEF TypeOK
    <3>4. CASE job' = Marked(job, job[p].map)
      BY <1>0, <1>1, <1>2, <3>3, <3>4, MarkedFresh
    <3>5. CASE job' = Marked(Without(p), job[p].map)
      BY <1>0, <1>2, <3>1, <3>2, <3>3, <3>5, MarkedFresh
    <3> QED
      BY <2>2, <3>4, <3>5
  <2> QED
    BY <1>13, <2>1, <2>2 DEF Write
<1>14. ASSUME NEW p \in Procs, Record(p) PROVE FreshInv'
  BY <1>4, <1>14 DEF Record
<1>15. ASSUME NEW c \in Maps, GitOps(c) PROVE FreshInv'
  <2>1. job' = Marked(job, c) /\ \A d \in Maps \ {c} : cms'[d] = cms[d]
    BY <1>0, <1>15 DEF GitOps, TypeOK
  <2> QED
    BY <1>0, <1>1, <1>2, <2>1, MarkedFresh
<1>16. CASE Crash
  BY <1>16 DEF Crash, FreshInv
<1> QED
  BY <1>5, <1>7, <1>8, <1>9, <1>10, <1>11, <1>12, <1>13, <1>14, <1>15, <1>16
  DEF Next, Startup, Step, Rest

-----------------------------------------------------------------------------
\* Requests run only while the gateway serves, and Boot only while it exports.
LEMMA StageStep ==
  ASSUME Assumptions, IInv, [Next]_vars PROVE StageInv'
<1>0. /\ Procs = Reqs \cup {Boot} /\ Boot \notin Reqs
      /\ pc \in [Procs -> Labels] /\ StageInv /\ JobInv /\ vcs \in [Ids -> VCenter \cup {Nil}]
  BY DEF IInv, TypeOK, Procs, Assumptions, VCSyncAssumption
<1> USE DEF StageInv, Exporting
<1>1. CASE Start \/ Loaded \/ Started \/ UNCHANGED vars
  BY <1>0, <1>1 DEF Start, Loaded, Started, vars, Known
<1>2. ASSUME NEW c \in Maps, Load(c) PROVE StageInv'
  <2>1. ASSUME NEW i \in Ids, NEW vc, vcs' = [vcs EXCEPT ![i] = vc], todo' = todo \ {i}
        PROVE  todo' \subseteq Known(vcs')
    BY <1>0, <1>2, <2>1 DEF Known, Load
  <2>2. todo' \subseteq Known(vcs')
    BY <1>0, <1>2, <2>1, LoadShape DEF IInv, Load
  <2> QED
    BY <1>0, <1>2, <2>2 DEF Load
<1>3. ASSUME NEW i \in Ids, ExportNext(i) PROVE StageInv'
  BY <1>0, <1>3 DEF ExportNext, Export, Goto
<1>4. ASSUME NEW r \in Reqs, Begin(r) PROVE StageInv'
  BY <1>0, <1>4 DEF Begin, Create, Edit, SetDryRun, CheckDelete, Arrives, Goto
<1>5. ASSUME NEW r \in Reqs, Fetch(r) \/ Remove(r) \/ Unmap(r) \/ Saved(r) PROVE StageInv'
  <2>1. stage = "serve" /\ stage' = stage
    BY <1>0, <1>5 DEF Fetch, Remove, Unmap, Saved
  <2>2. pc'[Boot] = pc[Boot]
    BY <1>0, <1>5 DEF Fetch, Remove, Unmap, Saved, Export, Ends, Leave, Goto
  <2> QED
    BY <1>0, <2>1, <2>2
<1>6. ASSUME NEW p \in Procs, Step(p) PROVE StageInv'
  <2>1. /\ UNCHANGED <<stage, todo>> /\ pc[p] \in Exporting
        /\ \A q \in Procs \ {p} : pc'[q] = pc[q]
    BY <1>0, <1>6 DEF Step, TryBase, TryLonger, Get, Write, Record, Take, Fault, Ends, Leave, Goto
  <2>2. pc'[p] \in Exporting \cup {IF p = Boot THEN "idle" ELSE "done"}
    BY <1>0, <1>6 DEF Step, TryBase, TryLonger, Get, Write, Record, Take, Fault, Ends, Leave, Goto
  <2>3. Known(vcs) \subseteq Known(vcs')
    <3>1. CASE Record(p)
      <4>1. CASE job[p].id \in Known(vcs)
        <5>1. vcs[job[p].id] \in VCenter /\ Nil \notin VCenter /\ job[p].map \in Maps
          BY <1>0, <3>1, <4>1 DEF Record, Known, JobInv, JobOK, Assumptions, RecordAssumption
        <5>2. [[vcs[job[p].id] EXCEPT !.cm = job[p].map] EXCEPT !.origin = "runtime"] \in VCenter
          BY <5>1 DEF VCenter
        <5>3. vcs' = [vcs EXCEPT ![job[p].id] =
                        [[vcs[job[p].id] EXCEPT !.cm = job[p].map] EXCEPT !.origin = "runtime"]]
          BY <1>0, <3>1, <4>1 DEF Record, Known
        <5> QED
          BY <1>0, <5>1, <5>2, <5>3 DEF Known
      <4> QED
        BY <3>1, <4>1 DEF Record
    <3> QED
      BY <1>6, <3>1 DEF Step, TryBase, TryLonger, Get, Write
  <2> QED
    BY <1>0, <2>1, <2>2, <2>3
<1>7. ASSUME NEW c \in Maps, GitOps(c) PROVE StageInv'
  BY <1>0, <1>7 DEF GitOps
<1>8. CASE Crash
  <2>1. pc[Boot] \in Exporting \cup {"idle"} /\ pc'[Boot] = "idle" /\ stage' = "down"
    BY <1>0, <1>8 DEF Crash
  <2>2. \A r \in Reqs : pc'[r] \in {"idle", "done"}
    BY <1>0, <1>8 DEF Crash
  <2> QED
    BY <2>1, <2>2
<1> QED
  BY <1>1, <1>2, <1>3, <1>4, <1>5, <1>6, <1>7, <1>8 DEF Next, Startup, Rest

\* rf2vc writes dry-run only when it is on.
LEMMA DryStep ==
  ASSUME Assumptions, IInv, [Next]_vars PROVE DryInv'
<1>0. /\ TypeOK /\ DryInv /\ Nil # FALSE
  BY DEF IInv, Assumptions, VCSyncAssumption
<1> USE DEF DryInv
<1>1. CASE UNCHANGED <<cms, listed>>
  BY <1>0, <1>1
<1>2. CASE Start \/ \E c \in Maps : Load(c)
  BY <1>0, <1>2 DEF Start, Load, TypeOK
<1>3. ASSUME NEW p \in Procs, Write(p) PROVE DryInv'
  <2>1. Render(p).dry # FALSE
    BY <1>0 DEF Render
  <2> QED
    BY <1>0, <1>3, <2>1 DEF Write, TypeOK
<1>4. ASSUME NEW r \in Reqs, Unmap(r) PROVE DryInv'
  BY <1>0, <1>4 DEF Unmap, TypeOK
<1>5. ASSUME NEW c \in Maps, GitOps(c) PROVE DryInv'
  <2>1. \A d \in Maps \ {c} : cms'[d] = cms[d]
    BY <1>0, <1>5 DEF GitOps, TypeOK
  <2>2. cms'[c] = Nil \/ cms'[c].origin = "gitops"
    <3>1. cms[c] # Nil => cms[c] \in ConfigMap
      BY <1>0 DEF TypeOK
    <3>2. ASSUME cms[c] # Nil, NEW d, cms' = [cms EXCEPT ![c].fields = FromGit, ![c].dry = d, ![c].origin = "gitops"]
          PROVE  cms'[c].origin = "gitops"
      BY <1>0, <3>1, <3>2 DEF TypeOK, ConfigMap
    <3>3. ASSUME NEW m, m.origin = "gitops" \/ m = Nil, cms' = [cms EXCEPT ![c] = m]
          PROVE  cms'[c] = Nil \/ cms'[c].origin = "gitops"
      BY <1>0, <3>3 DEF TypeOK
    <3> QED
      BY <1>5, <3>2, <3>3 DEF GitOps
  <2> QED
    BY <1>0, <1>5, <2>1, <2>2 DEF GitOps
<1>6. CASE Crash
  BY <1>0, <1>6 DEF Crash
<1>7. CASE \/ Loaded \/ Started \/ \E i \in Ids : ExportNext(i)
           \/ \E r \in Reqs : Begin(r) \/ Fetch(r) \/ Remove(r) \/ Saved(r)
           \/ \E p \in Procs : TryBase(p) \/ TryLonger(p) \/ Get(p) \/ Record(p)
  BY <1>1, <1>7, ZenonT(30)
     DEF Loaded, Started, ExportNext, Begin, Create, Edit, SetDryRun, CheckDelete, Arrives,
         Fetch, Remove, Saved, TryBase, TryLonger, Get, Record
<1> QED
  BY <1>1, <1>2, <1>3, <1>4, <1>5, <1>6, <1>7 DEF Next, Startup, Step, Rest, vars

-----------------------------------------------------------------------------
(***************************************************************************)
(* The theorems.                                                           *)
(***************************************************************************)
\* vCenters of an older gateway and nothing else satisfy the invariant.
LEMMA InitIInv == ASSUME Assumptions, Init PROVE IInv
<1>1. ASSUME NEW n \in Names
      PROVE  [name |-> n, fields |-> Given, dry |-> FALSE, cm |-> Nil, origin |-> "none"] \in VCenter
  BY DEF VCenter, Fields
<1>2. vcs \in [Ids -> VCenter \cup {Nil}]
  <2>1. {[name |-> n, fields |-> Given, dry |-> FALSE, cm |-> Nil, origin |-> "none"] : n \in Names}
        \subseteq VCenter
    BY <1>1
  <2> QED
    BY <2>1 DEF Init
<1>3. TypeOK
  <2>1. 0 \in 0..MaxGit /\ 0 \in 0..MaxCrashes
    BY DEF Assumptions, VCSyncAssumption
  <2>2. pc \in [Procs -> Labels] /\ job \in [Procs -> Job \cup {Nil}] /\ todo \subseteq Ids
    BY DEF Init, Labels
  <2>3. cms \in [Maps -> ConfigMap \cup {Nil}] /\ listed \in [Maps -> ConfigMap \cup {Nil}]
    BY DEF Init
  <2> QED
    BY <1>2, <2>1, <2>2, <2>3 DEF Init, TypeOK
<1>4. JobInv /\ FreshInv /\ StageInv /\ DryInv
  BY DEF Init, JobInv, JobOK, FreshInv, StageInv, DryInv, Working, Exporting, Procs
<1> QED
  BY <1>3, <1>4 DEF IInv

\* Every step preserves it.
LEMMA StepIInv == ASSUME Assumptions, IInv, [Next]_vars PROVE IInv'
<1>1. TypeOK'
  BY TypeStep
<1> QED
  BY <1>1, JobStep, FreshStep, StageStep, DryStep DEF IInv

\* The inductive invariant holds of every behaviour.
LEMMA AlwaysIInv == Spec => []IInv
<1>1. Assumptions
  BY VCSyncAssumption, RecordAssumption DEF Assumptions
<1>2. Init => IInv
  BY <1>1, InitIInv
<1>3. IInv /\ [Next]_vars => IInv'
  BY <1>1, StepIInv
<1> QED
  BY <1>2, <1>3, PTL DEF Spec

\* Stores, ConfigMaps and everything a request has in hand keep their types.
THEOREM TypeCorrect == Spec => []TypeOK
<1>1. IInv => TypeOK
  BY DEF IInv
<1> QED
  BY <1>1, AlwaysIInv, PTL

\* rf2vc writes no ConfigMap that GitOps owns (NeverWritesGitOps), though export
\* reads and writes in two steps: what it overwrites is a copy that is still
\* fresh, and that copy was of a ConfigMap of its own.
THEOREM GitOpsMapsUntouched == Spec => NeverWritesGitOps
<1> DEFINE Untouched ==
      \A c \in Maps :
        cms[c] # Nil /\ cms[c].origin = "gitops" /\ cms'[c] # cms[c]
        => cms'[c] = Nil \/ git' # git
<1>1. ASSUME IInv, Next PROVE Untouched
  <2>0. cms \in [Maps -> ConfigMap \cup {Nil}] /\ git \in Nat
    BY <1>1 DEF IInv, TypeOK
  <2>1. CASE UNCHANGED cms
    BY <2>1
  <2>2. ASSUME NEW r \in Reqs, Unmap(r) PROVE Untouched
    BY <2>0, <2>2 DEF Unmap
  <2>3. ASSUME NEW p \in Procs, Write(p) PROVE Untouched
    <3>1. CASE Accepts(p) /\ cms' = [cms EXCEPT ![job[p].map] = Render(p)]
      <4>1. job[p] # Nil /\ (cms[job[p].map] = Nil \/ Runtime(job[p].map))
        BY <1>1, <2>3, <3>1, RecordAssumption DEF IInv, JobInv, JobOK, FreshInv, Accepts, Write,
           Exporting, Working, RecordAssumption
      <4> QED
        BY <2>0, <3>1, <4>1 DEF Runtime
    <3> QED
      BY <2>1, <2>3, <3>1 DEF Write
  <2>4. ASSUME NEW c \in Maps, GitOps(c) PROVE Untouched
    BY <2>0, <2>4 DEF GitOps
  <2> QED
    BY <1>1, <2>1, <2>2, <2>3, <2>4
       DEF Next, Startup, Step, Start, Loaded, Started, Load, ExportNext,
       Begin, Create, Edit, SetDryRun, CheckDelete, Arrives, Fetch, Remove, Saved, TryBase, TryLonger,
       Get, Record, Crash, Rest, vars
<1>2. IInv /\ [Next]_vars => [Untouched]_vars
  BY <1>1
<1> QED
  BY <1>2, AlwaysIInv, PTL DEF Spec, NeverWritesGitOps

\* Dry-run that is on stays on until a request or GitOps switches it off
\* (DryRunStaysOn): no ConfigMap rf2vc wrote says "off", however old it is.
THEOREM DryRunIsKept == Spec => DryRunStaysOn
<1> DEFINE Kept(i) ==
      i \in Known(vcs) /\ vcs'[i] # Nil /\ vcs[i].dry /\ ~vcs'[i].dry
      => (\E r \in Reqs : SetDryRun(r, i, FALSE)) \/ vcs'[i].origin = "gitops"
<1>0. Assumptions
  BY VCSyncAssumption, RecordAssumption DEF Assumptions
<1>1. ASSUME IInv, Next, NEW i \in Ids PROVE Kept(i)
  <2>0. vcs \in [Ids -> VCenter \cup {Nil}] /\ (i \in Known(vcs) => vcs[i] \in VCenter)
    BY <1>1 DEF IInv, TypeOK, Known
  <2>1. CASE vcs'[i] = vcs[i]
    BY <2>1
  <2>2. ASSUME NEW c \in Maps, Load(c) PROVE Kept(i)
    <3>1. listed[c] # Nil /\ listed[c] \in ConfigMap
      BY <1>1, <2>2 DEF Load, IInv, TypeOK
    <3>2. listed[c].origin = "gitops" \/ listed[c].dry # FALSE
      BY <1>1, <3>1 DEF IInv, DryInv, ConfigMap
    <3>3. ASSUME NEW j \in Ids, NEW vc \in VCenter, vcs' = [vcs EXCEPT ![j] = vc],
                 vc.origin = listed[c].origin,
                 listed[c].dry = FALSE \/ (j \in Known(vcs) /\ vcs[j].dry => vc.dry)
          PROVE  Kept(i)
      BY <2>0, <3>2, <3>3
    <3> QED
      <4>1. \/ \E j \in Ids, vc \in VCenter :
                  /\ vcs' = [vcs EXCEPT ![j] = vc]
                  /\ vc.origin = listed[c].origin
                  /\ listed[c].dry = FALSE \/ (j \in Known(vcs) /\ vcs[j].dry => vc.dry)
            \/ UNCHANGED vcs
        BY <1>0, <1>1, <2>2, LoadShape DEF IInv
      <4> HIDE DEF Kept
      <4>2. UNCHANGED vcs => Kept(i)
        BY <2>1
      <4> QED
        BY <3>3, <4>1, <4>2
  <2>3. ASSUME NEW r \in Reqs, NEW j \in Ids, NEW n \in Names, NEW on \in BOOLEAN, Create(r, j, n, on)
        PROVE  Kept(i)
    BY <2>0, <2>3 DEF Create, Fresh, Known
  <2>4. ASSUME NEW r \in Reqs, NEW j \in Ids, NEW n \in Names, Edit(r, j, n) PROVE Kept(i)
    <3>1. j = i => vcs'[i].dry = vcs[i].dry
      BY <2>0, <2>4 DEF Edit, VCenter
    <3> QED
      BY <2>0, <2>4, <3>1 DEF Edit
  <2>5. ASSUME NEW r \in Reqs, NEW j \in Ids, NEW on \in BOOLEAN, SetDryRun(r, j, on) PROVE Kept(i)
    <3>1. j = i => vcs'[i].dry = on
      BY <2>0, <2>5 DEF SetDryRun, VCenter
    <3> QED
      BY <2>0, <2>5, <3>1 DEF SetDryRun
  <2>6. ASSUME NEW r \in Reqs, Remove(r) PROVE Kept(i)
    BY <2>0, <2>6 DEF Remove
  <2>7. ASSUME NEW p \in Procs, Record(p) PROVE Kept(i)
    <3>1. i \in Known(vcs) => vcs'[i].dry = vcs[i].dry
      BY <2>0, <2>7 DEF Record, VCenter
    <3> QED
      BY <3>1
  <2> QED
    BY <1>1, <2>1, <2>2, <2>3, <2>4, <2>5, <2>6, <2>7
       DEF Next, Startup, Step, Start, Loaded, Started,
       ExportNext, Begin, CheckDelete, Fetch, Unmap, Saved, TryBase, TryLonger, Get, Write, GitOps,
       Crash, Rest, vars
<1>2. IInv /\ [Next]_vars => [\A i \in Ids : Kept(i)]_vars
  BY <1>1
<1> QED
  BY <1>2, AlwaysIInv, PTL DEF Spec, DryRunStaysOn
-----------------------------------------------------------------------------
(***************************************************************************)
(* Which vCenter a ConfigMap belongs to.                                   *)
(***************************************************************************)
\* Process p acts for vCenter i on ConfigMap c: it may write it, or make it i's.
Claims(p, i, c) ==
  /\ job[p] # Nil /\ job[p].id = i
  /\ \/ pc[p] \in {"get", "record"} /\ job[p].map = c
     \/ pc[p] = "write" /\ job[p].seen = "fresh" /\ job[p].map = c
     \/ pc[p] = "remove" /\ job[p].vc.cm = c

\* It removed vCenter i, and is about to delete c.
Deletes(p, i, c) == pc[p] = "unmap" /\ job[p].id = i /\ job[p].map = c

\* C is backing i, or will be, or was and is about to go.
Holds(i, c) ==
  \/ i \in Known(vcs) /\ (vcs[i].cm = c \/ \E p \in Procs : Claims(p, i, c))
  \/ \E p \in Procs : Deletes(p, i, c)

\* A ConfigMap of vCenter i that the store has.
IsOf(i, c) == i \in Known(vcs) /\ cms[c] # Nil /\ cms[c].id = i

\* Two requests never remove the same vCenter, and it does not come back under one.
UnmapInv ==
  \A p \in Procs : pc[p] = "unmap" =>
    /\ job[p].id \notin Known(vcs)
    /\ \A q \in Procs : pc[q] = "unmap" /\ job[q].id = job[p].id => q = p

\* What the start listed is what there is, and of vCenters the store has.
ListedInv ==
  stage = "load" => \A c \in Maps : listed[c] # Nil => listed[c] = cms[c] /\ listed[c].id \in Known(vcs)

\* A ConfigMap that is held is there, held once, and of no other vCenter.
HoldInv ==
  \A i \in Ids, c \in Maps :
    Holds(i, c) =>
      /\ cms[c] # Nil
      /\ \A k \in Ids : Holds(k, c) \/ IsOf(k, c) => k = i

Undisputed == git = 0 /\ ~orphaned

OwnInv == UnmapInv /\ (Undisputed => ListedInv /\ HoldInv)

\* No process but p acts for more than before.
NoMore(q) == \A i \in Ids, c \in Maps : /\ Claims(q, i, c)' => Claims(q, i, c)
                                        /\ Deletes(q, i, c)' => Deletes(q, i, c)

\* A process that is as before acts for no more.
LEMMA SameNoMore ==
  ASSUME NEW q \in Procs, UNCHANGED <<pc[q], job[q]>> PROVE NoMore(q)
BY DEF NoMore, Claims, Deletes

\* Nor does one whose copy may have become stale.
LEMMA MarkedNoMore ==
  ASSUME Assumptions, NEW jobs \in [Procs -> Job \cup {Nil}], NEW c, job' = Marked(jobs, c),
         NEW q \in Procs, jobs[q] = job[q], pc'[q] = pc[q],
         pc[q] \in Working => job[q] # Nil
  PROVE  NoMore(q)
<1>1. /\ job'[q] # Nil => /\ job[q] # Nil
                          /\ job'[q].id = job[q].id /\ job'[q].vc = job[q].vc
                          /\ job'[q].map = job[q].map
                          /\ job'[q].seen = "fresh" => job[q].seen = "fresh"
      /\ pc[q] = "unmap" => job[q] # Nil /\ job'[q] # Nil
  BY MarkedShape DEF Working
<1> QED
  BY <1>1 DEF NoMore, Claims, Deletes

\* A process that is through acts for nothing.
LEMMA EndsNoMore ==
  ASSUME TypeOK, NEW p \in Procs, Leave(p), NEW i, NEW c PROVE ~Claims(p, i, c)' /\ ~Deletes(p, i, c)'
BY DEF Leave, Goto, TypeOK, Claims, Deletes

\* What can be held after a step of p: what was held, and what p acts for now.
LEMMA HoldsAfter ==
  ASSUME NEW p \in Procs, \A q \in Procs \ {p} : NoMore(q),
         \A i \in Known(vcs') : i \in Known(vcs) /\ \A c \in Maps : vcs'[i].cm = c => Holds(i, c),
         NEW i \in Ids, NEW c \in Maps, Holds(i, c)'
  PROVE  \/ Holds(i, c)
         \/ i \in Known(vcs') /\ Claims(p, i, c)'
         \/ Deletes(p, i, c)'
BY DEF Holds, NoMore

\* While no ConfigMap changes, it is enough that what is newly held says whose it is.
LEMMA SameMaps ==
  ASSUME HoldInv, UNCHANGED cms,
         \A i \in Ids, c \in Maps : Holds(i, c)' => Holds(i, c) \/ IsOf(i, c),
         \A i \in Ids, c \in Maps : IsOf(i, c)' => IsOf(i, c)
  PROVE  HoldInv'
<1>1. ASSUME NEW i \in Ids, NEW c \in Maps, Holds(i, c) \/ IsOf(i, c)
      PROVE  cms[c] # Nil /\ \A k \in Ids : Holds(k, c) \/ IsOf(k, c) => k = i
  BY <1>1 DEF HoldInv, IsOf
<1> QED
  BY <1>1 DEF HoldInv

\* Every step keeps them apart: a request removes only what the store has.
LEMMA UnmapStep ==
  ASSUME Assumptions, IInv, IInv', UnmapInv, [Next]_vars PROVE UnmapInv'
<1>0. TypeOK /\ Procs = Reqs \cup {Boot} /\ Boot \notin Reqs
  BY DEF IInv, Procs, Assumptions, VCSyncAssumption
<1>1. \A p \in Procs : pc[p] = "unmap" => job[p] \in Job /\ job[p].id \in Ids /\ stage = "serve" /\ p \in Reqs
  BY <1>0 DEF IInv, JobInv, JobOK, Working, Exporting, StageInv, Job
<1> DEFINE Left(p) == pc'[p] = "unmap" => pc[p] = "unmap" /\ job'[p].id = job[p].id
<1>2. ASSUME \A p \in Procs : Left(p), Known(vcs') \subseteq Known(vcs) PROVE UnmapInv'
  BY <1>2 DEF UnmapInv
<1>3. ASSUME NEW p \in Procs, pc'[p] # "unmap", Known(vcs') \subseteq Known(vcs),
             \A q \in Procs \ {p} : pc'[q] = pc[q] /\ job'[q] = job[q]
      PROVE  UnmapInv'
  BY <1>2, <1>3
<1>4. CASE Start \/ Loaded \/ Started \/ UNCHANGED vars
  BY <1>2, <1>4 DEF Start, Loaded, Started, vars
<1>5. ASSUME NEW c \in Maps, Load(c) PROVE UnmapInv'
  BY <1>1, <1>5 DEF Load, UnmapInv
<1>6. ASSUME NEW i \in Ids, ExportNext(i) PROVE UnmapInv'
  BY <1>0, <1>3, <1>6 DEF ExportNext, Export, Goto, TypeOK
<1>7. ASSUME NEW r \in Reqs, Begin(r) PROVE UnmapInv'
  <2>1. PICK i \in Ids : \/ \E n \in Names, on \in BOOLEAN : Create(r, i, n, on)
                         \/ \E n \in Names : Edit(r, i, n)
                         \/ \E on \in BOOLEAN : SetDryRun(r, i, on)
                         \/ CheckDelete(r, i)
    BY <1>7 DEF Begin
  <2>2. /\ pc'[r] # "unmap" /\ r \in Procs
        /\ \A q \in Procs \ {r} : pc'[q] = pc[q] /\ job'[q] = job[q]
    BY <1>0, <2>1 DEF Create, Edit, SetDryRun, CheckDelete, Arrives, Goto, TypeOK
  <2>3. CASE \E n \in Names, on \in BOOLEAN : Create(r, i, n, on)
    <3>1. i \in Fresh /\ \A j \in Ids \ {i} : vcs'[j] = vcs[j]
      BY <1>0, <2>3 DEF Create, TypeOK
    <3>2. \A q \in Procs : pc[q] = "unmap" => job[q].id # i
      BY <1>0, <1>1, <3>1 DEF Fresh, Assumptions, RecordAssumption
    <3> QED
      BY <1>1, <2>2, <3>1, <3>2 DEF UnmapInv, Known
  <2>4. CASE ~\E n \in Names, on \in BOOLEAN : Create(r, i, n, on)
    <3>1. i \in Known(vcs) /\ \A j \in Ids \ {i} : vcs'[j] = vcs[j]
      BY <1>0, <2>1, <2>4 DEF Edit, SetDryRun, CheckDelete, TypeOK
    <3> QED
      BY <1>3, <2>2, <3>1, KnownAfter
  <2> QED
    BY <2>3, <2>4
<1>8. ASSUME NEW r \in Reqs, Fetch(r) \/ Saved(r) PROVE UnmapInv'
  BY <1>0, <1>3, <1>8 DEF Fetch, Saved, Export, Ends, Leave, Without, Goto, TypeOK
<1>9. ASSUME NEW r \in Reqs, Remove(r) PROVE UnmapInv'
  <2>1. r \in Procs /\ job[r] \in Job /\ job[r].id \in Ids
    BY <1>0, <1>9 DEF Remove, IInv, JobInv, JobOK, Working, Job
  <2>2. Known(vcs') = Known(vcs) \ {job[r].id}
    BY <1>0, <1>9, <2>1 DEF Remove, Known, TypeOK
  <2>3. CASE job[r].id \in Known(vcs) /\ job[r].vc.origin = "runtime"
    <3>1. job' = [job EXCEPT ![r].map = job[r].vc.cm] /\ pc' = [pc EXCEPT ![r] = "unmap"]
      BY <1>9, <2>3 DEF Remove, Goto
    <3>2. job'[r].id = job[r].id
      BY <1>0, <2>1, <3>1 DEF TypeOK, Job
    <3>3. \A q \in Procs \ {r} : pc'[q] = pc[q] /\ job'[q] = job[q]
      BY <1>0, <3>1 DEF TypeOK
    <3> QED
      BY <2>2, <2>3, <3>2, <3>3 DEF UnmapInv
  <2>4. CASE ~(job[r].id \in Known(vcs) /\ job[r].vc.origin = "runtime")
    BY <1>0, <1>3, <1>9, <2>1, <2>2, <2>4 DEF Remove, Ends, Leave, Without, Goto, TypeOK
  <2> QED
    BY <2>3, <2>4
<1>10. ASSUME NEW p \in Procs, UNCHANGED vcs, pc'[p] # "unmap",
              \A q \in Procs \ {p} : pc'[q] = pc[q],
              job' = Marked(Without(p), job[p].map) \/ job' = Marked(job, job[p].map)
       PROVE  UnmapInv'
  <2>1. Without(p) \in [Procs -> Job \cup {Nil}] /\ job \in [Procs -> Job \cup {Nil}]
        /\ \A q \in Procs \ {p} : Without(p)[q] = job[q]
    BY <1>0 DEF Without, TypeOK
  <2>2. \A q \in Procs : pc[q] = "unmap" => job[q] # Nil
    BY <1>1 DEF Assumptions, RecordAssumption
  <2>3. \A q \in Procs \ {p} : pc[q] = "unmap" => job'[q].id = job[q].id
    BY <1>10, <2>1, <2>2, MarkedShape
  <2> QED
    BY <1>2, <1>10, <2>3
<1>11. ASSUME NEW p \in Procs, Step(p) \/ Unmap(p) PROVE UnmapInv'
  <2>1. pc'[p] # "unmap" /\ \A q \in Procs \ {p} : pc'[q] = pc[q]
    BY <1>0, <1>11 DEF Step, Unmap, TryBase, TryLonger, Get, Write, Record, Take, Fault, Ends, Leave, Goto, TypeOK
  <2>2. Known(vcs') \subseteq Known(vcs)
    BY <1>0, <1>11 DEF Step, Unmap, TryBase, TryLonger, Get, Write, Record, Known, TypeOK
  <2>3. CASE \A q \in Procs \ {p} : job'[q] = job[q]
    BY <1>3, <2>1, <2>2, <2>3
  <2>4. CASE (Write(p) /\ ~Fault(p)) \/ (Unmap(p) /\ job' # Without(p))
    BY <1>10, <2>1, <2>4 DEF Write, Unmap
  <2>5. CASE ~((Write(p) /\ ~Fault(p)) \/ (Unmap(p) /\ job' # Without(p)))
    <3>1. \A q \in Procs \ {p} : job'[q] = job[q]
      BY <1>0, <1>11, <2>5 DEF Step, Unmap, TryBase, TryLonger, Get, Record, Take, Fault, Ends, Without, TypeOK
    <3> QED
      BY <2>3, <3>1
  <2> QED
    BY <2>4, <2>5
<1>12. ASSUME NEW c \in Maps, GitOps(c) PROVE UnmapInv'
  <2>1. job \in [Procs -> Job \cup {Nil}] /\ job' = Marked(job, c) /\ UNCHANGED <<pc, vcs>>
    BY <1>0, <1>12 DEF GitOps, TypeOK
  <2>2. \A q \in Procs : pc[q] = "unmap" => job[q] # Nil
    BY <1>1 DEF Assumptions, RecordAssumption
  <2>3. \A q \in Procs : pc[q] = "unmap" => job'[q].id = job[q].id
    BY <2>1, <2>2, MarkedShape
  <2> QED
    BY <1>2, <2>1, <2>3
<1>13. CASE Crash
  BY <1>13 DEF Crash, UnmapInv
<1> QED
  BY <1>0, <1>4, <1>5, <1>6, <1>7, <1>8, <1>9, <1>11, <1>12, <1>13 DEF Next, Startup, Rest

\* While requests are idle nothing is held but what the store names.
LEMMA IdleHolds ==
  ASSUME IInv, stage # "serve", pc[Boot] = "idle" \/ stage # "export",
         NEW i, NEW c
  PROVE  \A p \in Procs : ~Claims(p, i, c) /\ ~Deletes(p, i, c)
BY DEF IInv, StageInv, Procs, Claims, Deletes

\* What is written is a ConfigMap.
LEMMA RenderType ==
  ASSUME IInv, NEW p \in Procs, pc[p] \in {"write", "record"} PROVE Render(p) \in ConfigMap
<1>1. job[p] \in Job /\ job[p].vc \in VCenter
  BY DEF IInv, JobInv, JobOK, Exporting, Working
<1> QED
  BY <1>1 DEF Render, ConfigMap, VCenter, Job

\* Every step that GitOps has no part in keeps the ConfigMaps apart.
LEMMA HoldStep ==
  ASSUME Assumptions, IInv, IInv', UnmapInv, Undisputed', Undisputed, ListedInv, HoldInv,
         [Next]_vars
  PROVE  HoldInv'
<1>0. TypeOK /\ Procs = Reqs \cup {Boot} /\ Boot \notin Reqs
      /\ Nil \notin Job /\ Nil \notin VCenter /\ Nil \notin Maps
  BY DEF IInv, Procs, Assumptions, VCSyncAssumption, RecordAssumption
<1>1. job \in [Procs -> Job \cup {Nil}] /\ vcs \in [Ids -> VCenter \cup {Nil}]
      /\ cms \in [Maps -> ConfigMap \cup {Nil}] /\ pc \in [Procs -> Labels]
  BY <1>0 DEF TypeOK
<1>2. \A p \in Procs : pc[p] \in Working => job[p] \in Job /\ job[p] # Nil /\ job[p].id \in Ids
  BY <1>0 DEF IInv, JobInv, JobOK, Job
<1>3. ASSUME UNCHANGED cms, NEW p \in Procs,
             \A q \in Procs \ {p} : NoMore(q),
             \A i \in Known(vcs') : i \in Known(vcs) /\ \A c \in Maps : vcs'[i].cm = c => Holds(i, c),
             \A i \in Ids, c \in Maps :
               (i \in Known(vcs') /\ Claims(p, i, c)') \/ Deletes(p, i, c)'
               => Holds(i, c) \/ IsOf(i, c)
      PROVE  HoldInv'
  <2>1. \A i \in Ids, c \in Maps : Holds(i, c)' => Holds(i, c) \/ IsOf(i, c)
    BY <1>3, HoldsAfter
  <2>2. \A i \in Ids, c \in Maps : IsOf(i, c)' => IsOf(i, c)
    BY <1>3 DEF IsOf
  <2> QED
    BY <1>3, <2>1, <2>2, SameMaps
<1>4. \A i \in Known(vcs), c \in Maps : vcs[i].cm = c => Holds(i, c)
  BY DEF Holds
<1>5. ASSUME UNCHANGED <<cms, vcs>>, NEW p \in Procs, OnlyMoves(p),
             \A i \in Ids, c \in Maps :
               (i \in Known(vcs) /\ Claims(p, i, c)') \/ Deletes(p, i, c)'
               => Holds(i, c) \/ IsOf(i, c)
      PROVE  HoldInv'
  <2>1. \A q \in Procs \ {p} : NoMore(q)
    BY <1>5, SameNoMore DEF OnlyMoves
  <2> QED
    BY <1>3, <1>4, <1>5, <2>1
<1>6. ASSUME NEW p \in Procs, Ends(p), UNCHANGED <<cms, vcs>> PROVE HoldInv'
  <2>1. OnlyMoves(p)
    BY <1>0, <1>6, EndsRight
  <2>2. \A i \in Ids, c \in Maps : ~Claims(p, i, c)' /\ ~Deletes(p, i, c)'
    BY <1>0, <1>6, EndsNoMore DEF Ends
  <2> QED
    BY <1>5, <1>6, <2>1, <2>2
<1>7. CASE Start \/ Loaded \/ Started \/ UNCHANGED vars
  <2>1. UNCHANGED <<cms, vcs, pc, job>>
    BY <1>7 DEF Start, Loaded, Started, vars
  <2> QED
    BY <2>1, SameMaps DEF Holds, Claims, Deletes, IsOf
<1>8. ASSUME NEW c \in Maps, Load(c) PROVE HoldInv'
  <2> DEFINE m == listed[c]
  <2>1. m = cms[c] /\ m # Nil /\ m.id \in Known(vcs) /\ stage = "load" /\ UNCHANGED <<cms, pc, job>>
    BY <1>8 DEF Load, ListedInv
  <2>2. IsOf(m.id, c) /\ m.id \in Ids
    BY <2>1 DEF IsOf, Known
  <2>3. \A i \in Ids \ {m.id} : vcs'[i] = vcs[i]
    <3>1. Targets(vcs, m.id, c, m.name, Fresh) = {m.id}
      BY <2>1 DEF Targets, Matches
    <3> QED
      BY <1>1, <1>8, <3>1 DEF Load
  <2>4. m.id \in Known(vcs') => vcs'[m.id].cm = c \/ vcs'[m.id] = vcs[m.id]
    <3>1. ASSUME NEW i \in Ids, NEW vc \in VCenter, vcs' = [vcs EXCEPT ![i] = vc], vc.cm = c
          PROVE  vcs'[m.id].cm = c \/ vcs'[m.id] = vcs[m.id]
      BY <1>1, <2>2, <3>1
    <3>2. \/ UNCHANGED vcs
          \/ \E i \in Ids, vc \in VCenter : vcs' = [vcs EXCEPT ![i] = vc] /\ vc.cm = c
      BY <1>0, <1>8, LoadShape
    <3> QED
      BY <3>1, <3>2
  <2>5. ASSUME NEW i \in Ids, NEW d \in Maps, Holds(i, d)' PROVE Holds(i, d) \/ IsOf(i, d)
    <3>1. \A p \in Procs : ~Claims(p, i, d)' /\ ~Deletes(p, i, d)'
      BY <2>1, IdleHolds DEF Claims, Deletes
    <3>2. i \in Known(vcs') /\ vcs'[i].cm = d
      BY <2>5, <3>1 DEF Holds
    <3>3. CASE i # m.id
      BY <2>3, <2>5, <3>2, <3>3 DEF Holds, Known
    <3>4. CASE i = m.id
      BY <2>1, <2>2, <2>4, <3>2, <3>4 DEF Holds
    <3> QED
      BY <3>3, <3>4
  <2>6. \A i \in Ids, d \in Maps : IsOf(i, d)' => IsOf(i, d)
    BY <2>1, <2>3 DEF IsOf, Known
  <2> QED
    BY <2>1, <2>5, <2>6, SameMaps
<1>9. ASSUME NEW p \in Procs, NEW i \in Known(vcs), Export(p, i), UNCHANGED <<cms, vcs>>
      PROVE  HoldInv'
  <2>1. OnlyMoves(p)
    BY <1>0, <1>9, ExportRight
  <2>2. /\ job'[p].id = i
        /\ \/ pc'[p] = "base"
           \/ pc'[p] = "get" /\ job'[p].map = vcs[i].cm
    BY <1>1, <1>9 DEF Export, Goto
  <2>3. ASSUME NEW k \in Ids, NEW c \in Maps, Claims(p, k, c)' \/ Deletes(p, k, c)' PROVE Holds(k, c)
    BY <1>9, <2>2, <2>3 DEF Claims, Deletes, Holds
  <2> QED
    BY <1>5, <1>9, <2>1, <2>3
<1>10. ASSUME NEW i \in Ids, ExportNext(i) PROVE HoldInv'
  <2>1. i \in Known(vcs) /\ Boot \in Procs
    BY <1>0, <1>10 DEF ExportNext, IInv, StageInv
  <2> QED
    BY <1>9, <1>10, <2>1 DEF ExportNext
<1>11. ASSUME NEW r \in Reqs, Begin(r) PROVE HoldInv'
  <2>1. PICK i \in Ids : \/ \E n \in Names, on \in BOOLEAN : Create(r, i, n, on)
                         \/ \E n \in Names : Edit(r, i, n)
                         \/ \E on \in BOOLEAN : SetDryRun(r, i, on)
                         \/ CheckDelete(r, i)
    BY <1>11 DEF Begin
  <2>2. Arrives(r, i, "saved") \/ Arrives(r, i, "fetch")
    BY <2>1 DEF Create, Edit, SetDryRun, CheckDelete
  <2>3. OnlyMoves(r) /\ r \in Procs /\ pc'[r] \in {"saved", "fetch"} /\ UNCHANGED cms
    BY <1>0, <1>1, <2>2 DEF Arrives, Goto, OnlyMoves
  <2>4. \A k \in Ids, c \in Maps : ~Claims(r, k, c)' /\ ~Deletes(r, k, c)'
    BY <2>3 DEF Claims, Deletes
  <2>5. CASE \E n \in Names, on \in BOOLEAN : Create(r, i, n, on)
    <3>1. i \in Fresh /\ (\A j \in Ids \ {i} : vcs'[j] = vcs[j]) /\ vcs'[i].cm = Nil
      BY <1>1, <2>5 DEF Create
    <3>2. \A q \in Procs \ {r}, c \in Maps : ~Claims(q, i, c)' /\ ~Deletes(q, i, c)'
      <4>1. \A q \in Procs \ {r} : pc'[q] = pc[q] /\ job'[q] = job[q]
        BY <2>3 DEF OnlyMoves
      <4>2. \A q \in Procs : pc[q] = "unmap" => job[q] # Nil
        BY <1>2 DEF Working
      <4> QED
        BY <3>1, <4>1, <4>2 DEF Fresh, Claims, Deletes
    <3>3. \A c \in Maps : ~Holds(i, c)' /\ ~IsOf(i, c)'
      <4>1. \A c \in Maps : vcs'[i].cm # c
        BY <1>0, <3>1
      <4> QED
        BY <2>3, <2>4, <3>1, <3>2, <4>1 DEF Holds, IsOf, Fresh
    <3>4. ASSUME NEW k \in Ids, NEW c \in Maps, Holds(k, c)' PROVE Holds(k, c)
      <4>1. k # i /\ (k \in Known(vcs') <=> k \in Known(vcs)) /\ vcs'[k] = vcs[k]
        BY <3>1, <3>3, <3>4 DEF Known
      <4>2. \A q \in Procs \ {r} : NoMore(q)
        BY <2>3, SameNoMore DEF OnlyMoves
      <4> QED
        BY <2>4, <3>4, <4>1, <4>2 DEF Holds, NoMore
    <3>5. \A k \in Ids, c \in Maps : IsOf(k, c)' => IsOf(k, c)
      BY <2>3, <3>1, <3>3 DEF IsOf, Known
    <3> QED
      BY <2>3, <3>4, <3>5, SameMaps
  <2>6. CASE ~\E n \in Names, on \in BOOLEAN : Create(r, i, n, on)
    <3>1. /\ i \in Known(vcs) /\ (\A j \in Ids \ {i} : vcs'[j] = vcs[j])
          /\ vcs'[i].cm = vcs[i].cm
      <4>1. i \in Known(vcs)
        BY <2>1, <2>6 DEF Edit, SetDryRun, CheckDelete
      <4>2. vcs[i] \in VCenter /\ i \in Ids
        BY <1>1, <4>1 DEF Known
      <4>3. ASSUME NEW n \in Names, Edit(r, i, n)
            PROVE  vcs'[i].cm = vcs[i].cm /\ \A j \in Ids \ {i} : vcs'[j] = vcs[j]
        BY <1>1, <4>2, <4>3 DEF Edit, VCenter
      <4>4. ASSUME NEW on \in BOOLEAN, SetDryRun(r, i, on)
            PROVE  vcs'[i].cm = vcs[i].cm /\ \A j \in Ids \ {i} : vcs'[j] = vcs[j]
        BY <1>1, <4>2, <4>4 DEF SetDryRun, VCenter
      <4> QED
        BY <2>1, <2>6, <4>1, <4>3, <4>4 DEF CheckDelete
    <3>2. \A j \in Known(vcs') : j \in Known(vcs) /\ vcs'[j].cm = vcs[j].cm
      BY <3>1 DEF Known
    <3>3. \A q \in Procs \ {r} : NoMore(q)
      BY <2>3, SameNoMore DEF OnlyMoves
    <3>4. \A j \in Known(vcs') : j \in Known(vcs) /\ \A c \in Maps : vcs'[j].cm = c => Holds(j, c)
      BY <1>4, <3>2
    <3> QED
      BY <1>3, <2>3, <2>4, <3>3, <3>4
  <2> QED
    BY <2>5, <2>6
<1>12. ASSUME NEW r \in Reqs, Fetch(r) PROVE HoldInv'
  <2>1. /\ r \in Procs /\ job[r] \in Job /\ job[r].id \in Ids
        /\ job' = [job EXCEPT ![r].vc = vcs[job[r].id]] /\ UNCHANGED <<cms, vcs>>
    BY <1>0, <1>2, <1>12 DEF Fetch, Working
  <2>2. /\ pc'[r] = "remove" /\ OnlyMoves(r)
        /\ job'[r].id = job[r].id /\ job'[r].vc = vcs[job[r].id]
    BY <1>1, <1>12, <2>1 DEF Fetch, Goto, OnlyMoves, Job
  <2>3. ASSUME NEW k \in Ids, NEW c \in Maps,
               (k \in Known(vcs) /\ Claims(r, k, c)') \/ Deletes(r, k, c)'
        PROVE  Holds(k, c)
    BY <2>1, <2>2, <2>3 DEF Claims, Deletes, Holds
  <2> QED
    BY <1>5, <2>1, <2>2, <2>3
<1>13. ASSUME NEW r \in Reqs, Remove(r) PROVE HoldInv'
  <2>1. r \in Procs /\ job[r] \in Job /\ job[r] # Nil /\ pc[r] = "remove" /\ UNCHANGED cms
    BY <1>0, <1>2, <1>13 DEF Remove, Working
  <2>2. \A i \in Known(vcs') : i \in Known(vcs) /\ \A c \in Maps : vcs'[i].cm = c => Holds(i, c)
    BY <1>1, <1>4, <1>13 DEF Remove, Known
  <2>3. CASE job[r].id \in Known(vcs) /\ job[r].vc.origin = "runtime"
    <3>1. /\ job' = [job EXCEPT ![r].map = job[r].vc.cm]
          /\ pc' = [pc EXCEPT ![r] = "unmap"]
      BY <1>13, <2>3 DEF Remove, Goto
    <3>2. job'[r].id = job[r].id /\ job'[r].map = job[r].vc.cm /\ pc'[r] = "unmap" /\ OnlyMoves(r)
      BY <1>1, <2>1, <3>1 DEF OnlyMoves, Job
    <3>3. \A q \in Procs \ {r} : NoMore(q)
      BY <3>2, SameNoMore DEF OnlyMoves
    <3>4. ASSUME NEW k \in Ids, NEW c \in Maps, Claims(r, k, c)' \/ Deletes(r, k, c)'
          PROVE  Holds(k, c)
      BY <2>1, <2>3, <3>2, <3>4 DEF Claims, Deletes, Holds
    <3> QED
      BY <1>3, <2>1, <2>2, <3>3, <3>4
  <2>4. CASE ~(job[r].id \in Known(vcs) /\ job[r].vc.origin = "runtime")
    <3>1. Ends(r)
      BY <1>13, <2>4 DEF Remove
    <3>2. OnlyMoves(r) /\ \A k \in Ids, c \in Maps : ~Claims(r, k, c)' /\ ~Deletes(r, k, c)'
      BY <1>0, <2>1, <3>1, EndsRight, EndsNoMore DEF Ends
    <3>3. \A q \in Procs \ {r} : NoMore(q)
      BY <3>2, SameNoMore DEF OnlyMoves
    <3> QED
      BY <1>3, <2>1, <2>2, <3>2, <3>3
  <2> QED
    BY <2>3, <2>4
<1>14. ASSUME NEW r \in Reqs, Unmap(r) PROVE HoldInv'
  <2>1. r \in Procs /\ pc[r] = "unmap" /\ job[r].id \in Ids /\ UNCHANGED vcs
        /\ (\A q \in Procs \ {r} : pc'[q] = pc[q])
    BY <1>0, <1>1, <1>2, <1>14 DEF Unmap, Working, Leave, Goto
  <2>2. CASE job' = Without(r) /\ UNCHANGED cms
    BY <1>6, <1>14, <2>1, <2>2 DEF Unmap, Ends
  <2>3. CASE job' = Marked(Without(r), job[r].map) /\ cms' = [cms EXCEPT ![job[r].map] = Nil]
    <3>1. Without(r) \in [Procs -> Job \cup {Nil}] /\ \A q \in Procs \ {r} : Without(r)[q] = job[q]
      BY <1>1 DEF Without
    <3>2. \A q \in Procs \ {r} : NoMore(q)
      BY <1>2, <2>1, <2>3, <3>1, MarkedNoMore
    <3>3. \A k \in Ids, c \in Maps : ~Claims(r, k, c)' /\ ~Deletes(r, k, c)'
      BY <1>0, <1>14, <2>1, EndsNoMore DEF Unmap
    <3>4. ASSUME NEW k \in Ids, NEW c \in Maps, Holds(k, c)' PROVE Holds(k, c) /\ c # job[r].map
      <4>1. Holds(k, c)
        BY <1>4, <2>1, <3>2, <3>3, <3>4, HoldsAfter
      <4>2. ASSUME c = job[r].map PROVE FALSE
        <5>1. Holds(job[r].id, c)
          BY <2>1, <4>2 DEF Holds, Deletes
        <5>2. k = job[r].id
          BY <2>1, <4>1, <5>1 DEF HoldInv
        <5>3. k \notin Known(vcs)
          BY <2>1, <5>2 DEF UnmapInv
        <5>4. PICK p \in Procs : Deletes(p, k, c)'
          BY <2>1, <3>4, <5>3 DEF Holds
        <5>5. p # r /\ Deletes(p, k, c)
          BY <3>2, <3>3, <5>4 DEF NoMore
        <5> QED
          BY <2>1, <5>2, <5>5 DEF UnmapInv, Deletes
      <4> QED
        BY <4>1, <4>2
    <3>5. \A c \in Maps : c # job[r].map => cms'[c] = cms[c]
      BY <1>1, <2>3
    <3>6. \A k \in Ids, c \in Maps : c # job[r].map /\ IsOf(k, c)' => IsOf(k, c)
      BY <2>1, <3>5 DEF IsOf
    <3> QED
      BY <3>4, <3>5, <3>6 DEF HoldInv
  <2> QED
    BY <1>14, <2>2, <2>3 DEF Unmap
<1>15. ASSUME NEW r \in Reqs, Saved(r) PROVE HoldInv'
  BY <1>0, <1>6, <1>9, <1>15 DEF Saved
<1>16. ASSUME NEW p \in Procs, TryBase(p) \/ TryLonger(p) \/ Get(p) PROVE HoldInv'
  <2>1. job[p] \in Job /\ job[p] # Nil /\ UNCHANGED <<cms, vcs>>
    BY <1>2, <1>16 DEF TryBase, TryLonger, Get, Working, Exporting
  <2>2. CASE Fault(p)
    BY <1>6, <2>1, <2>2 DEF Fault
  <2>3. ASSUME NEW copy \in {"none", "fresh"}, Take(p, copy),
               copy = "none" \/ IsOf(job[p].id, job[p].map) \/ pc[p] = "get"
                 \/ job[p].id \notin Known(vcs)
        PROVE  HoldInv'
    <3>1. /\ job'[p].id = job[p].id /\ job'[p].map = job[p].map /\ job'[p].seen = copy
          /\ pc'[p] = "write" /\ OnlyMoves(p)
      BY <1>1, <2>1, <2>3 DEF Take, Goto, OnlyMoves, Job
    <3>2. ASSUME NEW k \in Ids, NEW c \in Maps,
                 (k \in Known(vcs) /\ Claims(p, k, c)') \/ Deletes(p, k, c)'
          PROVE  Holds(k, c) \/ IsOf(k, c)
      BY <2>1, <2>3, <3>1, <3>2 DEF Claims, Deletes, Holds
    <3> QED
      BY <1>5, <2>1, <3>1, <3>2
  <2>4. CASE Take(p, "fresh") /\ (pc[p] = "get" \/ Mine(p))
    BY <2>3, <2>4 DEF Mine, Runtime, IsOf
  <2>5. CASE /\ job' = [job EXCEPT ![p].map = Longer(job[p].vc.name, job[p].id)]
             /\ Goto(p, "longer")
    <3>1. pc'[p] = "longer" /\ OnlyMoves(p)
      BY <1>1, <2>5 DEF Goto, OnlyMoves
    <3>2. \A k \in Ids, c \in Maps : ~Claims(p, k, c)' /\ ~Deletes(p, k, c)'
      BY <3>1 DEF Claims, Deletes
    <3> QED
      BY <1>5, <2>1, <3>1, <3>2
  <2>6. CASE Take(p, "none")
    BY <2>3, <2>6
  <2> QED
    BY <1>16, <2>2, <2>4, <2>5, <2>6 DEF TryBase, TryLonger, Get
<1>17. ASSUME NEW p \in Procs, Write(p) PROVE HoldInv'
  <2> DEFINE k0 == job[p].id
             c0 == job[p].map
  <2>1. /\ job[p] \in Job /\ job[p] # Nil /\ k0 \in Ids /\ c0 \in Maps /\ pc[p] = "write"
        /\ UNCHANGED vcs /\ \A q \in Procs \ {p} : pc'[q] = pc[q]
    BY <1>1, <1>2, <1>17 DEF Write, Fault, Ends, Leave, Goto, Working, Exporting, IInv, JobInv, JobOK
  <2>2. CASE Fault(p) /\ UNCHANGED cms
    BY <1>6, <2>1, <2>2 DEF Fault
  <2>3. CASE /\ Accepts(p) /\ cms' = [cms EXCEPT ![c0] = Render(p)]
             /\ \/ Goto(p, "record") /\ job' = Marked(job, c0)
                \/ Leave(p) /\ job' = Marked(Without(p), c0)
    <3>1. Without(p) \in [Procs -> Job \cup {Nil}] /\ \A q \in Procs \ {p} : Without(p)[q] = job[q]
      BY <1>1 DEF Without
    <3>2. \A q \in Procs \ {p} : NoMore(q)
      BY <1>1, <1>2, <2>1, <2>3, <3>1, MarkedNoMore
    <3>3. ASSUME NEW k \in Ids, NEW c \in Maps, Claims(p, k, c)' \/ Deletes(p, k, c)'
          PROVE  k = k0 /\ c = c0 /\ ~Deletes(p, k, c)'
      <4>1. CASE Leave(p)
        BY <1>0, <3>3, <4>1, EndsNoMore
      <4>2. CASE Goto(p, "record") /\ job' = Marked(job, c0)
        <5>1. job'[p].id = k0 /\ job'[p].map = c0 /\ pc'[p] = "record"
          BY <1>1, <2>1, <4>2, MarkedShape DEF Goto
        <5> QED
          BY <3>3, <5>1 DEF Claims, Deletes
      <4> QED
        BY <2>3, <4>1, <4>2
    <3>4. ASSUME NEW k \in Ids, NEW c \in Maps, Holds(k, c)'
          PROVE  Holds(k, c) \/ (k = k0 /\ c = c0 /\ k0 \in Known(vcs))
      BY <1>4, <2>1, <3>2, <3>3, <3>4, HoldsAfter
    <3>5. ASSUME NEW k \in Ids, Holds(k, c0), k0 \in Known(vcs) PROVE k = k0
      <4>1. cms[c0] # Nil
        BY <2>1, <3>5 DEF HoldInv
      <4>2. job[p].seen = "fresh"
        BY <2>3, <4>1 DEF Accepts
      <4>3. Holds(k0, c0)
        BY <2>1, <3>5, <4>2 DEF Holds, Claims
      <4> QED
        BY <2>1, <3>5, <4>3 DEF HoldInv
    <3>6. cms'[c0] # Nil /\ cms'[c0].id = k0 /\ \A c \in Maps \ {c0} : cms'[c] = cms[c]
      <4>1. Render(p) # Nil
        BY <2>1, RenderType DEF Assumptions, RecordAssumption
      <4> QED
        BY <1>1, <2>1, <2>3, <4>1 DEF Render
    <3>7. \A k \in Ids, c \in Maps : IsOf(k, c)' => (IsOf(k, c) /\ c # c0) \/ (k = k0 /\ c = c0 /\ k0 \in Known(vcs))
      BY <2>1, <3>6 DEF IsOf
    <3>8. ASSUME NEW i \in Ids, NEW c \in Maps, Holds(i, c)'
          PROVE  cms'[c] # Nil /\ \A k \in Ids : (Holds(k, c) \/ IsOf(k, c))' => k = i
      <4>1. CASE c = c0
        <5>1. ASSUME NEW k \in Ids, Holds(k, c0), NEW j \in Ids, Holds(j, c0) PROVE k = j
          BY <2>1, <5>1 DEF HoldInv
        <5>2. ASSUME NEW k \in Ids, (Holds(k, c) \/ IsOf(k, c))' PROVE k = i
          <6>1. CASE k0 \in Known(vcs)
            BY <3>4, <3>5, <3>7, <3>8, <4>1, <5>2, <6>1
          <6>2. CASE k0 \notin Known(vcs)
            <7>1. Holds(k, c) /\ Holds(i, c)
              BY <3>4, <3>7, <3>8, <4>1, <5>2, <6>2
            <7> QED
              BY <4>1, <5>1, <7>1
          <6> QED
            BY <6>1, <6>2
        <5> QED
          BY <3>6, <4>1, <5>2
      <4>2. CASE c # c0
        <5>1. Holds(i, c) /\ \A k \in Ids : (Holds(k, c) \/ IsOf(k, c))' => Holds(k, c) \/ IsOf(k, c)
          BY <3>4, <3>7, <3>8, <4>2
        <5>2. cms[c] # Nil /\ \A k \in Ids : Holds(k, c) \/ IsOf(k, c) => k = i
          BY <5>1 DEF HoldInv
        <5>3. cms'[c] = cms[c]
          BY <3>6, <4>2
        <5> QED
          BY <5>1, <5>2, <5>3
      <4> QED
        BY <4>1, <4>2
    <3> HIDE DEF k0, c0
    <3> QED
      BY <3>8 DEF HoldInv
  <2> QED
    BY <1>17, <2>2, <2>3 DEF Write
<1>18. ASSUME NEW p \in Procs, Record(p) PROVE HoldInv'
  <2>1. job[p] \in Job /\ job[p] # Nil /\ pc[p] = "record" /\ UNCHANGED cms /\ Ends(p)
    BY <1>2, <1>18 DEF Record, Working, Exporting
  <2>2. OnlyMoves(p) /\ \A k \in Ids, c \in Maps : ~Claims(p, k, c)' /\ ~Deletes(p, k, c)'
    BY <1>0, <2>1, EndsRight, EndsNoMore DEF Ends
  <2>3. \A q \in Procs \ {p} : NoMore(q)
    BY <2>2, SameNoMore DEF OnlyMoves
  <2>4. ASSUME NEW i \in Known(vcs')
        PROVE  i \in Known(vcs) /\ \A c \in Maps : vcs'[i].cm = c => Holds(i, c)
    <3>1. CASE i = job[p].id /\ i \in Known(vcs)
      <4>1. vcs[i] \in VCenter /\ i \in Ids
        BY <1>1, <3>1 DEF Known
      <4>2. vcs'[i].cm = job[p].map
        BY <1>1, <1>18, <3>1, <4>1 DEF Record, VCenter
      <4> QED
        BY <2>1, <3>1, <4>2 DEF Holds, Claims
    <3>2. CASE ~(i = job[p].id /\ i \in Known(vcs))
      <4>1. vcs'[i] = vcs[i] /\ i \in Ids
        BY <1>1, <1>18, <2>4, <3>2 DEF Record, Known
      <4> QED
        BY <1>4, <2>4, <4>1 DEF Known
    <3> QED
      BY <3>1, <3>2
  <2> QED
    BY <1>3, <2>1, <2>2, <2>3, <2>4
<1>19. CASE \E c \in Maps : GitOps(c)
  BY <1>0, <1>19 DEF GitOps, Undisputed, TypeOK
<1>20. CASE Crash
  <2>1. /\ UNCHANGED <<cms, vcs>> /\ \A p \in Procs : pc'[p] \in {"idle", "done"}
    BY <1>20 DEF Crash, IInv, StageInv
  <2>2. \A i \in Ids, c \in Maps : Holds(i, c)' => Holds(i, c)
    BY <2>1 DEF Holds, Claims, Deletes
  <2> QED
    BY <2>1, <2>2, SameMaps DEF IsOf
<1> QED
  BY <1>7, <1>8, <1>10, <1>11, <1>12, <1>13, <1>14, <1>15, <1>16, <1>17, <1>18, <1>19, <1>20
  DEF Next, Startup, Step, Rest

\* A start lists what there is.
LEMMA ListedStep ==
  ASSUME Assumptions, IInv, Undisputed', Undisputed, ListedInv, [Next]_vars PROVE ListedInv'
<1>0. TypeOK
  BY DEF IInv
<1>1. CASE Start
  BY <1>1 DEF Start, ListedInv, Undisputed
<1>2. ASSUME NEW c \in Maps, Load(c) PROVE ListedInv'
  <2>1. listed[c].id \in Known(vcs) /\ UNCHANGED cms /\ stage = "load"
    BY <1>2 DEF Load, ListedInv
  <2>2. Known(vcs) \subseteq Known(vcs')
    <3>1. ASSUME NEW i \in Ids, NEW vc \in VCenter, vcs' = [vcs EXCEPT ![i] = vc]
          PROVE  Known(vcs) \subseteq Known(vcs')
      BY <1>0, <3>1 DEF TypeOK, Known, Assumptions, RecordAssumption
    <3>2. UNCHANGED vcs \/ \E i \in Ids, vc \in VCenter : vcs' = [vcs EXCEPT ![i] = vc]
      BY <1>0, <1>2, LoadShape
    <3> QED
      BY <3>1, <3>2
  <2>3. listed' = [listed EXCEPT ![c] = Nil] /\ listed \in [Maps -> ConfigMap \cup {Nil}]
    BY <1>0, <1>2 DEF Load, TypeOK
  <2> QED
    BY <2>1, <2>2, <2>3 DEF ListedInv
<1>3. CASE Loaded \/ Started \/ Crash \/ UNCHANGED vars \/ \E i \in Ids : ExportNext(i)
  BY <1>3 DEF Loaded, Started, Crash, vars, ExportNext, ListedInv
<1>4. ASSUME NEW r \in Reqs, Begin(r) \/ Fetch(r) \/ Remove(r) \/ Unmap(r) \/ Saved(r)
      PROVE  ListedInv'
  <2>1. stage # "load"
    BY <1>4 DEF Begin, Create, Edit, SetDryRun, CheckDelete, Arrives, Fetch, Remove, Unmap, Saved,
       IInv, StageInv
  <2>2. stage' = stage
    BY <1>4 DEF Begin, Create, Edit, SetDryRun, CheckDelete, Arrives, Fetch, Remove, Unmap, Saved
  <2> QED
    BY <2>1, <2>2 DEF ListedInv
<1>5. ASSUME NEW p \in Procs, Step(p) PROVE ListedInv'
  <2>1. stage # "load" /\ stage' = stage
    BY <1>5 DEF Step, TryBase, TryLonger, Get, Write, Record, IInv, StageInv, Procs
  <2> QED
    BY <2>1 DEF ListedInv
<1>6. CASE \E c \in Maps : GitOps(c)
  BY <1>0, <1>6 DEF GitOps, Undisputed, TypeOK
<1> QED
  BY <1>1, <1>2, <1>3, <1>4, <1>5, <1>6 DEF Next, Startup, Rest

\* No two vCenters are backed by one ConfigMap (OneVCenterPerConfigMap), through any
\* requests and restarts, as long as GitOps keeps out and every ConfigMap a start
\* finds is of a vCenter the store has: freeName takes a name that is free or whose
\* ConfigMap carries the id, and who holds a ConfigMap keeps it from being free.
THEOREM ConfigMapsAreNotShared == Spec => []OneVCenterPerConfigMap
<1>1. Assumptions
  BY VCSyncAssumption, RecordAssumption DEF Assumptions
<1>2. Init => OwnInv
  BY <1>1 DEF Init, OwnInv, UnmapInv, ListedInv, HoldInv, Holds, Claims, Deletes, Known,
     Assumptions, RecordAssumption
<1>3. ASSUME IInv, IInv', OwnInv, [Next]_vars PROVE OwnInv'
  <2>1. UnmapInv'
    BY <1>1, <1>3, UnmapStep DEF OwnInv
  <2>2. Undisputed' => Undisputed
    <3>1. git \in Nat
      BY <1>3 DEF IInv, TypeOK
    <3>2. CASE UNCHANGED <<git, orphaned>>
      BY <3>2 DEF Undisputed
    <3>3. CASE Start
      BY <3>3 DEF Start, Undisputed
    <3>4. CASE \E c \in Maps : GitOps(c)
      BY <3>1, <3>4 DEF GitOps, Undisputed
    <3>5. CASE ~Start /\ ~\E c \in Maps : GitOps(c)
      <4>1. ASSUME NEW r \in Reqs, Begin(r) \/ Fetch(r) \/ Remove(r) \/ Unmap(r) \/ Saved(r)
            PROVE  UNCHANGED <<git, orphaned>>
        BY <4>1 DEF Begin, Create, Edit, SetDryRun, CheckDelete, Arrives, Fetch, Remove, Unmap, Saved
      <4>2. ASSUME NEW p \in Procs, Step(p) PROVE UNCHANGED <<git, orphaned>>
        BY <4>2 DEF Step, TryBase, TryLonger, Get, Write, Record
      <4>3. CASE Loaded \/ Started \/ Crash \/ Rest \/ UNCHANGED vars
        BY <3>2, <4>3 DEF Loaded, Started, Crash, Rest, vars
      <4>4. ASSUME NEW c \in Maps, Load(c) PROVE UNCHANGED <<git, orphaned>>
        BY <4>4 DEF Load
      <4>5. ASSUME NEW i \in Ids, ExportNext(i) PROVE UNCHANGED <<git, orphaned>>
        BY <4>5 DEF ExportNext
      <4> QED
        BY <1>3, <3>2, <3>5, <4>1, <4>2, <4>3, <4>4, <4>5 DEF Next, Startup
    <3> QED
      BY <3>3, <3>4, <3>5
  <2>3. Undisputed' => ListedInv' /\ HoldInv'
    BY <1>1, <1>3, <2>2, ListedStep, HoldStep DEF OwnInv
  <2> QED
    BY <2>1, <2>3 DEF OwnInv
<1>4. ASSUME IInv, OwnInv PROVE OneVCenterPerConfigMap
  <2>1. ASSUME Undisputed, NEW i \in Known(vcs), vcs[i].cm # Nil, NEW j \in Sharing(i) PROVE FALSE
    <3>1. i \in Ids /\ j \in Ids /\ j \in Known(vcs) /\ j # i /\ vcs[j].cm = vcs[i].cm
      BY <2>1 DEF Sharing, Known
    <3>2. vcs[i].cm \in Maps
      BY <1>4, <2>1, <3>1 DEF IInv, TypeOK, Known, VCenter
    <3>3. Holds(i, vcs[i].cm) /\ Holds(j, vcs[i].cm)
      BY <3>1 DEF Holds
    <3> QED
      BY <1>4, <2>1, <3>1, <3>2, <3>3 DEF OwnInv, HoldInv
  <2> QED
    BY <2>1 DEF OneVCenterPerConfigMap, Undisputed
<1> QED
  BY <1>2, <1>3, <1>4, AlwaysIInv, PTL DEF Spec

-----------------------------------------------------------------------------
(***************************************************************************)
(* What a start that nothing disturbs has done so far.                     *)
(***************************************************************************)
\* What is still listed is what there is; what is loaded needs no export.
LoadInv ==
  stage \in {"load", "export"} => \A c \in Maps :
    /\ listed[c] # Nil => stage = "load" /\ listed[c] = cms[c]
    /\ cms[c] # Nil /\ listed[c] = Nil => cms[c].id \notin todo

\* Vcenter i is as the start should leave it.
Settled(i) == InSync(i) \/ (vcs[i].cm # Nil /\ Sharing(i) # {})

\* A vCenter that is not to be exported, nor being exported, is settled.
SettledInv ==
  /\ stage = "load" => \A i \in Known(vcs) \ todo : InSync(i)
  /\ stage = "export" =>
       \A i \in Known(vcs) \ todo : (pc[Boot] # "idle" /\ i = job[Boot].id) \/ Settled(i)

\* Boot exports what the store says, to the ConfigMap the vCenter names or to one
\* that is not there.
BootInv ==
  stage = "export" /\ pc[Boot] # "idle" =>
    LET i == job[Boot].id
        c == job[Boot].map IN
    /\ i \in Known(vcs) \ todo /\ job[Boot].vc = vcs[i]
    /\ pc[Boot] \in {"base", "longer"} =>
         vcs[i].cm = Nil /\ \A d \in Maps : cms[d] # Nil => cms[d].id # i
    /\ pc[Boot] \in {"write", "record"} => vcs[i].cm \in {Nil, c}
    /\ pc[Boot] = "get" => vcs[i].cm = c
    /\ pc[Boot] = "write" /\ vcs[i].cm = Nil => cms[c] = Nil
    /\ pc[Boot] = "record" => cms[c] = Render(Boot)

StartInv == ~disturbed => LoadInv /\ SettledInv /\ BootInv

\* A step of Load.
LEMMA LoadSettles ==
  ASSUME Assumptions, IInv, LoadInv, SettledInv, NEW c \in Maps, Load(c), ~disturbed'
  PROVE  LoadInv' /\ SettledInv'
<1> DEFINE m == listed[c]
<1>1. /\ vcs \in [Ids -> VCenter \cup {Nil}] /\ listed \in [Maps -> ConfigMap \cup {Nil}]
      /\ Nil \notin Ids /\ Nil \notin VCenter
  BY DEF IInv, TypeOK, Assumptions, VCSyncAssumption, RecordAssumption
<1>2. /\ stage = "load" /\ UNCHANGED <<cms, stage>> /\ m # Nil /\ m = cms[c] /\ m \in ConfigMap
      /\ listed' = [listed EXCEPT ![c] = Nil]
  BY <1>1 DEF Load, LoadInv
<1>3. PICK t \in Targets(vcs, m.id, c, m.name, Fresh) :
        /\ vcs' = [vcs EXCEPT ![t] =
             [name |-> m.name, fields |-> m.fields, cm |-> c, origin |-> m.origin,
              dry |-> DryAfter(m.dry, vcs[t] # Nil /\ vcs[t].dry)]]
        /\ todo' = todo \ {t}
  BY DEF Load
<1>4. t \in Ids /\ (m.id \in Known(vcs) => t = m.id)
  <2>1. m.id \in Ids \cup {Nil}
    BY <1>2 DEF ConfigMap
  <2> QED
    BY <1>3, <2>1 DEF Targets, Matches, Known, Fresh
<1>5. /\ vcs'[t].name = m.name /\ vcs'[t].fields = m.fields /\ vcs'[t].cm = c
      /\ vcs'[t].origin = m.origin /\ m.dry \in {vcs'[t].dry, Nil}
  BY <1>1, <1>3, <1>4 DEF DryAfter
<1>6. \A i \in Ids \ {t} : vcs'[i] = vcs[i]
  BY <1>1, <1>3
<1>7. InSync(t)'
  <2>1. c # Nil
    BY DEF Assumptions, RecordAssumption
  <2> QED
    BY <1>2, <1>5, <2>1 DEF InSync
<1>8. ASSUME NEW i \in Known(vcs') \ todo' PROVE InSync(i)'
  <2>1. CASE i # t
    <3>1. i \in Known(vcs) \ todo /\ vcs'[i] = vcs[i]
      BY <1>3, <1>6, <1>8, <2>1 DEF Known
    <3> QED
      BY <1>2, <3>1 DEF InSync, SettledInv
  <2> QED
    BY <1>7, <2>1
<1>9. m.id \notin todo'
  <2>1. todo \subseteq Known(vcs)
    BY <1>2 DEF IInv, StageInv
  <2> QED
    BY <1>3, <1>4, <2>1
<1>10. LoadInv'
  BY <1>1, <1>2, <1>3, <1>9 DEF LoadInv
<1> QED
  BY <1>2, <1>8, <1>10 DEF SettledInv

\* A write of Boot settles no one else's matter, nor unsettles it.
LEMMA WriteSettles ==
  ASSUME Assumptions, IInv, LoadInv, SettledInv, BootInv, stage = "export",
         Write(Boot), ~disturbed'
  PROVE  LoadInv' /\ SettledInv' /\ BootInv'
<1> DEFINE i == job[Boot].id
           c == job[Boot].map
<1>0. Boot \in Procs
  BY DEF Procs
<1>1. /\ pc[Boot] = "write" /\ job[Boot] \in Job /\ job[Boot] # Nil /\ c \in Maps
      /\ cms \in [Maps -> ConfigMap \cup {Nil}] /\ job \in [Procs -> Job \cup {Nil}]
      /\ pc \in [Procs -> Labels] /\ Nil \notin Ids
  BY <1>0 DEF Write, IInv, JobInv, JobOK, Exporting, Working, TypeOK, Assumptions, RecordAssumption, VCSyncAssumption
<1>2. /\ cms' = [cms EXCEPT ![c] = Render(Boot)] /\ job' = Marked(job, c) /\ pc'[Boot] = "record"
      /\ UNCHANGED <<vcs, stage, listed, todo>>
  BY <1>0, <1>1 DEF Write, Fault, Goto
<1>3. job'[Boot].id = i /\ job'[Boot].map = c /\ job'[Boot].vc = job[Boot].vc
  BY <1>0, <1>1, <1>2, MarkedShape
<1>4. /\ cms'[c] = Render(Boot) /\ Render(Boot)' = Render(Boot) /\ Render(Boot).id = i
      /\ \A d \in Maps \ {c} : cms'[d] = cms[d]
  BY <1>1, <1>2, <1>3 DEF Render
<1>5. i \in Known(vcs) \ todo /\ vcs[i].cm \in {Nil, c} /\ (vcs[i].cm = Nil => cms[c] = Nil)
  BY <1>1 DEF BootInv
<1>6. ASSUME NEW k \in Known(vcs) \ todo, k # i PROVE Settled(k)'
  <2>1. Settled(k)
    BY <1>6 DEF SettledInv
  <2>2. Sharing(k)' = Sharing(k)
    BY <1>2 DEF Sharing
  <2>3. CASE InSync(k) /\ vcs[k].cm = c
    <3>1. vcs[i].cm = c /\ vcs[k].cm # Nil
      BY <1>5, <2>3 DEF InSync
    <3>2. i \in Sharing(k)
      BY <1>5, <1>6, <2>3, <3>1 DEF Sharing
    <3> QED
      BY <1>2, <2>2, <3>1, <3>2 DEF Settled
  <2>4. CASE InSync(k) /\ vcs[k].cm # c
    <3>1. vcs[k].cm \in Maps
      BY <1>6, <2>4 DEF IInv, TypeOK, Known, VCenter, InSync
    <3>2. cms'[vcs[k].cm] = cms[vcs[k].cm]
      BY <1>4, <2>4, <3>1
    <3> QED
      BY <1>2, <2>4, <3>2 DEF Settled, InSync
  <2>5. CASE ~InSync(k)
    BY <1>2, <2>1, <2>2, <2>5 DEF Settled
  <2> QED
    BY <2>3, <2>4, <2>5
<1>7. SettledInv'
  BY <1>2, <1>3, <1>6 DEF SettledInv
<1>8. LoadInv'
  BY <1>1, <1>2, <1>4, <1>5 DEF LoadInv
<1>9. BootInv'
  <2>1. job[Boot].vc = vcs[i]
    BY <1>1 DEF BootInv
  <2> QED
    BY <1>2, <1>3, <1>4, <1>5, <2>1 DEF BootInv
<1> QED
  BY <1>7, <1>8, <1>9

\* Boot records the ConfigMap: the vCenter is settled.
LEMMA RecordSettles ==
  ASSUME Assumptions, IInv, LoadInv, SettledInv, BootInv, stage = "export", Record(Boot)
  PROVE  LoadInv' /\ SettledInv' /\ BootInv'
<1> DEFINE i == job[Boot].id
           c == job[Boot].map
<1>0. Boot \in Procs
  BY DEF Procs
<1>1. /\ pc[Boot] = "record" /\ c \in Maps /\ pc'[Boot] = "idle" /\ Nil \notin VCenter /\ Nil \notin Maps
      /\ vcs \in [Ids -> VCenter \cup {Nil}] /\ Nil \notin ConfigMap
  BY <1>0 DEF Record, Ends, Leave, Goto, IInv, JobInv, JobOK, Exporting, Working, TypeOK, Assumptions, RecordAssumption
<1>2. /\ i \in Known(vcs) \ todo /\ job[Boot].vc = vcs[i] /\ vcs[i].cm \in {Nil, c}
      /\ cms[c] = Render(Boot)
  BY <1>1 DEF BootInv
<1>3. /\ UNCHANGED <<cms, stage, listed, todo>>
      /\ vcs' = [vcs EXCEPT ![i].cm = c, ![i].origin = "runtime"]
  BY <1>2 DEF Record
<1>4. i \in Ids /\ vcs[i] \in VCenter
  BY <1>1, <1>2 DEF Known
<1>5. /\ vcs'[i].name = vcs[i].name /\ vcs'[i].fields = vcs[i].fields /\ vcs'[i].dry = vcs[i].dry
      /\ vcs'[i].cm = c /\ vcs'[i].origin = "runtime" /\ vcs[i].dry \in BOOLEAN
      /\ \A k \in Ids \ {i} : vcs'[k] = vcs[k]
  BY <1>1, <1>3, <1>4 DEF VCenter
<1>6. Known(vcs') = Known(vcs)
  <2>1. vcs'[i] # Nil
    <3>1. [[vcs[i] EXCEPT !.cm = c] EXCEPT !.origin = "runtime"] \in VCenter
      BY <1>1, <1>4 DEF VCenter
    <3>2. vcs'[i] = [[vcs[i] EXCEPT !.cm = c] EXCEPT !.origin = "runtime"]
      BY <1>1, <1>3, <1>4
    <3> QED
      BY <1>1, <3>1, <3>2
  <2> QED
    BY <1>2, <1>5, <2>1 DEF Known
<1>7. ASSUME NEW k \in Known(vcs), k = i PROVE InSync(k)'
  <2>1. cms[c] # Nil
    BY <1>0, <1>1, <1>2, RenderType
  <2>2. /\ cms[c].name = vcs[i].name /\ cms[c].fields = vcs[i].fields /\ cms[c].origin = "runtime"
        /\ cms[c].dry = IF vcs[i].dry THEN TRUE ELSE Nil
    BY <1>2 DEF Render
  <2>3. cms[c].dry \in {vcs'[k].dry, Nil}
    BY <1>5, <1>7, <2>2
  <2>4. vcs'[k].cm = c /\ cms'[c] = cms[c] /\ c # Nil
    BY <1>1, <1>3, <1>5, <1>7
  <2>5. vcs'[k].name = cms[c].name /\ vcs'[k].fields = cms[c].fields /\ vcs'[k].origin = cms[c].origin
    BY <1>5, <1>7, <2>2
  <2> QED
    BY <2>1, <2>3, <2>4, <2>5 DEF InSync
<1>8. ASSUME NEW k \in Known(vcs) \ todo, k # i PROVE Settled(k)'
  <2>1. Settled(k) /\ k \in Ids /\ vcs'[k] = vcs[k]
    BY <1>5, <1>8 DEF SettledInv, Known
  <2>2. CASE InSync(k)
    BY <1>3, <2>1, <2>2 DEF InSync, Settled
  <2>3. CASE vcs[k].cm # Nil /\ Sharing(k) # {}
    <3>1. PICK j \in Known(vcs) \ {k} : vcs[j].cm = vcs[k].cm
      BY <2>3 DEF Sharing
    <3>2. vcs'[j].cm = vcs[j].cm
      BY <1>2, <1>5, <2>3, <3>1 DEF Known
    <3>3. j \in Sharing(k)'
      BY <1>6, <2>1, <3>1, <3>2 DEF Sharing
    <3> QED
      BY <2>1, <2>3, <3>3 DEF Settled
  <2> QED
    BY <2>1, <2>2, <2>3 DEF Settled
<1>9. SettledInv'
  <2>1. ASSUME NEW k \in Known(vcs') \ todo' PROVE Settled(k)'
    <3>1. k \in Known(vcs) \ todo
      BY <1>3, <1>6, <2>1
    <3> QED
      BY <1>7, <1>8, <3>1 DEF Settled
  <2> QED
    BY <1>3, <2>1 DEF SettledInv
<1>10. LoadInv' /\ BootInv'
  BY <1>1, <1>3 DEF LoadInv, BootInv
<1> QED
  BY <1>9, <1>10

\* Boot looks for a ConfigMap to write.
LEMMA SearchSettles ==
  ASSUME Assumptions, IInv, LoadInv, SettledInv, BootInv, stage = "export",
         TryBase(Boot) \/ TryLonger(Boot) \/ Get(Boot), ~disturbed'
  PROVE  LoadInv' /\ SettledInv' /\ BootInv'
<1> DEFINE i == job[Boot].id
           c == job[Boot].map
<1>0. Boot \in Procs
  BY DEF Procs
<1>1. /\ pc[Boot] \in {"base", "longer", "get"} /\ job[Boot] \in Job /\ c \in Maps
      /\ job \in [Procs -> Job \cup {Nil}] /\ pc \in [Procs -> Labels]
      /\ UNCHANGED <<vcs, cms, stage, listed, todo>> /\ Nil \notin Maps
  BY <1>0 DEF TryBase, TryLonger, Get, IInv, JobInv, JobOK, Exporting, Working, TypeOK,
     Assumptions, RecordAssumption
<1>2. i \in Known(vcs) \ todo /\ job[Boot].vc = vcs[i]
  BY <1>1 DEF BootInv
<1>3. ASSUME job'[Boot].id = i, pc'[Boot] # "idle", BootInv' PROVE LoadInv' /\ SettledInv' /\ BootInv'
  <2>1. LoadInv'
    BY <1>1 DEF LoadInv
  <2>2. \A k \in Known(vcs) : Settled(k) => Settled(k)'
    BY <1>1 DEF Settled, InSync, Sharing
  <2>3. SettledInv'
    BY <1>1, <1>3, <2>2 DEF SettledInv
  <2> QED
    BY <1>3, <2>1, <2>3
<1>4. ASSUME NEW copy, Take(Boot, copy), cms[c] = Nil \/ pc[Boot] = "get"
      PROVE  LoadInv' /\ SettledInv' /\ BootInv'
  <2>1. /\ job'[Boot].id = i /\ job'[Boot].map = c /\ job'[Boot].vc = job[Boot].vc
        /\ pc'[Boot] = "write"
    BY <1>0, <1>1, <1>4 DEF Take, Goto, Job
  <2>2. BootInv'
    BY <1>1, <1>2, <1>4, <2>1 DEF BootInv
  <2> QED
    BY <1>3, <2>1, <2>2
<1>5. CASE /\ job' = [job EXCEPT ![Boot].map = Longer(job[Boot].vc.name, job[Boot].id)]
           /\ Goto(Boot, "longer") /\ pc[Boot] = "base"
  <2>1. job'[Boot].id = i /\ job'[Boot].vc = job[Boot].vc /\ pc'[Boot] = "longer"
    BY <1>0, <1>1, <1>5 DEF Goto, Job
  <2>2. BootInv'
    BY <1>1, <1>2, <1>5, <2>1 DEF BootInv
  <2> QED
    BY <1>3, <2>1, <2>2
<1>6. pc[Boot] \in {"base", "longer"} => ~Mine(Boot)
  BY <1>1 DEF BootInv, Mine, Runtime
<1> QED
  BY <1>4, <1>5, <1>6 DEF TryBase, TryLonger, Get, Fault

\* Every step of the program and of its surroundings preserves the invariant.
LEMMA StartStep ==
  ASSUME Assumptions, IInv, IInv', StartInv, [Next]_vars PROVE StartInv'
<1>0. Boot \in Procs /\ Procs = Reqs \cup {Boot}
  BY DEF Procs
<1>1. ASSUME stage' \notin {"load", "export"} PROVE StartInv'
  BY <1>1 DEF StartInv, LoadInv, SettledInv, BootInv
<1>2. CASE Start
  <2>1. CASE stage' = "load"
    BY <1>2, <2>1 DEF Start, StartInv, LoadInv, SettledInv, BootInv
  <2> QED
    BY <1>1, <1>2, <2>1 DEF Start
<1>3. ASSUME NEW c \in Maps, Load(c) PROVE StartInv'
  <2>1. ~disturbed' => ~disturbed /\ stage' = "load"
    BY <1>3 DEF Load
  <2> QED
    BY <1>3, <2>1, LoadSettles DEF StartInv, BootInv
<1>4. CASE Loaded
  <2>1. UNCHANGED <<vcs, cms, listed, todo, pc, disturbed>> /\ stage = "load" /\ stage' = "export"
        /\ \A c \in Maps : listed[c] = Nil
    BY <1>4 DEF Loaded
  <2>2. pc[Boot] = "idle"
    BY <2>1 DEF IInv, StageInv
  <2>3. \A i \in Ids : InSync(i) => Settled(i)'
    BY <2>1 DEF InSync, Settled
  <2> QED
    BY <2>1, <2>2, <2>3 DEF StartInv, LoadInv, SettledInv, BootInv, Known
<1>5. ASSUME NEW i \in Ids, ExportNext(i) PROVE StartInv'
  <2>1. /\ UNCHANGED <<vcs, cms, stage, listed, disturbed>> /\ stage = "export" /\ pc[Boot] = "idle"
        /\ i \in todo /\ i \in Known(vcs) /\ todo' = todo \ {i} /\ Export(Boot, i)
    BY <1>5 DEF ExportNext, IInv, StageInv
  <2>2. /\ job'[Boot].id = i /\ job'[Boot].vc = vcs[i]
        /\ \/ pc'[Boot] = "get" /\ job'[Boot].map = vcs[i].cm
           \/ pc'[Boot] = "base" /\ vcs[i].cm = Nil
    BY <1>0, <2>1 DEF Export, Goto, IInv, TypeOK
  <2>3. \A k \in Known(vcs) : Settled(k) => Settled(k)'
    BY <2>1 DEF Settled, InSync, Sharing
  <2>4. ASSUME ~disturbed PROVE LoadInv' /\ SettledInv' /\ BootInv'
    <3>1. LoadInv'
      BY <2>1, <2>4 DEF StartInv, LoadInv
    <3>2. SettledInv'
      BY <2>1, <2>2, <2>3, <2>4 DEF StartInv, SettledInv
    <3>3. \A d \in Maps : cms[d] # Nil => cms[d].id # i
      BY <2>1, <2>4 DEF StartInv, LoadInv
    <3>4. BootInv'
      BY <2>1, <2>2, <3>3 DEF BootInv
    <3> QED
      BY <3>1, <3>2, <3>4
  <2> QED
    BY <2>1, <2>4 DEF StartInv
<1>6. CASE Started \/ Crash
  BY <1>1, <1>6 DEF Started, Crash
<1>7. ASSUME NEW r \in Reqs, Begin(r) \/ Fetch(r) \/ Remove(r) \/ Unmap(r) \/ Saved(r)
      PROVE  StartInv'
  <2>1. stage = "serve"
    BY <1>7 DEF Begin, Create, Edit, SetDryRun, CheckDelete, Arrives, Fetch, Remove, Unmap, Saved,
       IInv, StageInv
  <2>2. stage' = stage
    BY <1>7 DEF Begin, Create, Edit, SetDryRun, CheckDelete, Arrives, Fetch, Remove, Unmap, Saved
  <2> QED
    BY <1>1, <2>1, <2>2
<1>8. ASSUME NEW p \in Procs, Step(p) PROVE StartInv'
  <2>1. stage' = stage
    BY <1>8 DEF Step, TryBase, TryLonger, Get, Write, Record
  <2>2. pc[p] \in Exporting
    BY <1>8 DEF Step, TryBase, TryLonger, Get, Write, Record, Exporting
  <2>3. CASE p # Boot
    <3>1. stage = "serve"
      BY <1>0, <2>2, <2>3 DEF IInv, StageInv, Exporting
    <3> QED
      BY <1>1, <2>1, <3>1
  <2>4. CASE p = Boot
    <3>1. stage = "export"
      BY <2>2, <2>4 DEF IInv, StageInv, Exporting
    <3>2. ~disturbed' => ~disturbed
      BY <1>8, <2>4 DEF Step, TryBase, TryLonger, Get, Write, Record, Take, Fault
    <3> QED
      BY <1>8, <2>4, <3>1, <3>2, SearchSettles, WriteSettles, RecordSettles DEF Step, StartInv
  <2> QED
    BY <2>3, <2>4
<1>9. CASE \E c \in Maps : GitOps(c)
  BY <1>9 DEF GitOps, StartInv
<1>10. CASE UNCHANGED vars
  BY <1>10 DEF vars, StartInv, LoadInv, SettledInv, BootInv, Settled, InSync, Sharing, Render
<1> QED
  BY <1>2, <1>3, <1>4, <1>5, <1>6, <1>7, <1>8, <1>9, <1>10 DEF Next, Startup, Rest

\* A start that nothing disturbs leaves every vCenter and the ConfigMap it names, and
\* shares with no other, saying the same (StartReconciles), whatever the store and the
\* ConfigMaps held when it began.  Not covered: a second ConfigMap left over from a
\* vCenter that names another one by now; and a ConfigMap silent on dry-run agrees.
THEOREM StartLeavesInSync == Spec => StartReconciles
<1> DEFINE Reconciled ==
      stage = "export" /\ stage' = "serve" /\ ~disturbed
      => \A i \in Known(vcs) : Sharing(i) = {} => InSync(i)
<1>1. Assumptions
  BY VCSyncAssumption, RecordAssumption DEF Assumptions
<1>2. Init => StartInv
  BY DEF Init, StartInv, LoadInv, SettledInv, BootInv
<1>3. IInv /\ IInv' /\ StartInv /\ [Next]_vars => StartInv'
  BY <1>1, StartStep
<1>4. ASSUME IInv, StartInv, Next, stage = "export", stage' = "serve", ~disturbed
      PROVE  \A i \in Known(vcs) : Sharing(i) = {} => InSync(i)
  <2>1. Started
    <3>1. ASSUME NEW r \in Reqs, Begin(r) \/ Fetch(r) \/ Remove(r) \/ Unmap(r) \/ Saved(r)
          PROVE  stage' = stage
      BY <3>1 DEF Begin, Create, Edit, SetDryRun, CheckDelete, Arrives, Fetch, Remove, Unmap, Saved
    <3>2. ASSUME NEW p \in Procs, Step(p) PROVE stage' = stage
      BY <3>2 DEF Step, TryBase, TryLonger, Get, Write, Record
    <3>3. ASSUME NEW c \in Maps, Load(c) \/ GitOps(c) PROVE stage' = stage
      BY <3>3 DEF Load, GitOps
    <3>4. ASSUME NEW i \in Ids, ExportNext(i) PROVE stage' = stage
      BY <3>4 DEF ExportNext
    <3> QED
      BY <1>4, <3>1, <3>2, <3>3, <3>4 DEF Next, Startup, Start, Loaded, Crash, Rest, vars
  <2> QED
    BY <1>4, <2>1 DEF Started, StartInv, SettledInv, Settled
<1>5. IInv /\ StartInv /\ [Next]_vars => [Reconciled]_vars
  BY <1>4
<1> QED
  BY <1>2, <1>3, <1>5, AlwaysIInv, PTL DEF Spec, StartReconciles
=============================================================================
