------------------------------- MODULE VCSync -------------------------------
(***************************************************************************)
(* vCenters in the store and in ConfigMaps: internal/vcsync/vcsync.go and  *)
(* the API handlers that call it.  At start the gateway merges every       *)
(* ConfigMap into the store and writes one for each vCenter that has none; *)
(* an API request changes the store and then, with no lock, writes or      *)
(* deletes the ConfigMap.  Requests run concurrently; the owner of the     *)
(* namespace (GitOps) adopts, adds and removes ConfigMaps meanwhile.       *)
(*                                                                         *)
(* An operation of the store is one step and survives a restart: Store     *)
(* shows why.  A ConfigMap call may fail before or after it had its effect.*)
(*                                                                         *)
(* Abstractions: the fields a ConfigMap defines, but for the name and      *)
(* dry-run, are one value, the request that set them; a resourceVersion is *)
(* a mark that a copy is still fresh; Secrets are in Store.                *)
(***************************************************************************)
EXTENDS VCenterMatch, Naturals, FiniteSets

CONSTANTS
  Reqs,       \* API requests
  Boot,       \* the goroutine of main, which exports ConfigMaps at start
  Names,      \* names of vCenters; a name is its own slug
  GitMaps,    \* names of ConfigMaps that GitOps may add
  Given,      \* the fields of a vCenter before the first request
  FromGit,    \* the fields of a ConfigMap that GitOps wrote
  MaxGit,     \* GitOps changes the model allows
  MaxCrashes  \* restarts the model allows

ASSUME VCSyncAssumption ==
  /\ Boot \notin Reqs
  /\ Nil \notin Ids \cup Names \cup GitMaps \cup BOOLEAN
  /\ MaxGit \in Nat /\ MaxCrashes \in Nat

Procs  == Reqs \cup {Boot}
Fields == Reqs \cup {Given, FromGit}

\* freeName: rf2vc-vc-<name>, or that with the id.
Base(name)      == <<name>>
Longer(name, i) == <<name, i>>
Maps == GitMaps \cup {Base(n) : n \in Names} \cup {Longer(n, i) : n \in Names, i \in Ids}

VARIABLES
  vcs,     \* the store: a vCenter or Nil for each id
  cms,     \* the ConfigMaps of the namespace
  stage,   \* of the gateway: down, load, export, serve
  listed,  \* the ConfigMaps Startup listed and has not applied
  todo,    \* the vCenters it has to export
  pc,      \* where each request, and Boot, is
  job,     \* its local variables, Nil if it has none: the id and a copy of the
           \* vCenter, the name of the ConfigMap, and its copy of that: none
           \* (there is no such ConfigMap), fresh or stale
  git, crashes,
  orphaned,  \* history: a start found a ConfigMap of a vCenter the store had lost
  disturbed  \* since the gateway started, a ConfigMap or a call for one failed,
             \* or GitOps changed one

vars == <<vcs, cms, stage, listed, todo, pc, job, git, crashes, orphaned, disturbed>>

VCenter   == [name : Names, fields : Fields, dry : BOOLEAN, cm : Maps \cup {Nil},
              origin : {"none", "runtime", "gitops"}]
ConfigMap == [id : Ids \cup {Nil}, name : Names, fields : Fields, dry : BOOLEAN \cup {Nil},
              origin : {"runtime", "gitops"}]
Job       == [id : Ids, vc : VCenter \cup {Nil}, map : Maps \cup {Nil},
              seen : {"none", "fresh", "stale"}]

ASSUME RecordAssumption ==
  Nil \notin VCenter /\ Nil \notin ConfigMap /\ Nil \notin Job /\ Nil \notin Maps

Labels == {"idle", "fetch", "remove", "unmap", "saved", "base", "longer", "get",
           "write", "record", "done"}

TypeOK ==
  /\ vcs \in [Ids -> VCenter \cup {Nil}]
  /\ cms \in [Maps -> ConfigMap \cup {Nil}]
  /\ stage \in {"down", "load", "export", "serve"}
  /\ listed \in [Maps -> ConfigMap \cup {Nil}]
  /\ todo \subseteq Ids
  /\ pc \in [Procs -> Labels]
  /\ job \in [Procs -> Job \cup {Nil}]
  /\ git \in 0..MaxGit
  /\ crashes \in 0..MaxCrashes
  /\ orphaned \in BOOLEAN
  /\ disturbed \in BOOLEAN

\* vCenters of an older gateway that kept no ConfigMaps, or none.
Init ==
  /\ vcs \in [Ids -> {Nil} \cup {[name |-> n, fields |-> Given, dry |-> FALSE, cm |-> Nil,
                                  origin |-> "none"] : n \in Names}]
  /\ cms = [c \in Maps |-> Nil]
  /\ stage = "down"
  /\ listed = [c \in Maps |-> Nil]
  /\ todo = {}
  /\ pc = [p \in Procs |-> "idle"]
  /\ job = [p \in Procs |-> Nil]
  /\ git = 0
  /\ crashes = 0
  /\ orphaned = FALSE
  /\ disturbed = FALSE

-----------------------------------------------------------------------------
\* Ids that newID may draw: it never draws one twice.
Fresh == {i \in Ids \ Known(vcs) :
            /\ \A c \in Maps : cms[c] # Nil => cms[c].id # i
            /\ \A c \in Maps : listed[c] # Nil => listed[c].id # i
            /\ \A p \in Procs : job[p] # Nil => job[p].id # i}

Goto(p, label) == pc' = [pc EXCEPT ![p] = label]

\* Boot may have more to export; a request is over.
Leave(p)   == Goto(p, IF p = Boot THEN "idle" ELSE "done")
Without(p) == [job EXCEPT ![p] = Nil]
Ends(p)    == Leave(p) /\ job' = Without(p)

\* ConfigMap c was written or deleted: other copies of it are stale.
Marked(jobs, c) ==
  [p \in Procs |-> IF jobs[p] # Nil /\ jobs[p].map = c /\ jobs[p].seen = "fresh"
                   THEN [jobs[p] EXCEPT !.seen = "stale"] ELSE jobs[p]]

Runtime(c) == cms[c] # Nil /\ cms[c].origin = "runtime"

\* Mutant: dry-run is always written.
Render_DryAlways(p) ==
  [id |-> job[p].id, name |-> job[p].vc.name, fields |-> job[p].vc.fields,
   dry |-> job[p].vc.dry, origin |-> "runtime"]

\* Render: dry-run is written only when it is on.
Render(p) ==
  [id |-> job[p].id, name |-> job[p].vc.name, fields |-> job[p].vc.fields,
   dry |-> IF job[p].vc.dry THEN TRUE ELSE Nil, origin |-> "runtime"]

-----------------------------------------------------------------------------
(***************************************************************************)
(* The start.                                                              *)
(***************************************************************************)
\* ListConfigMaps; if it fails, the gateway serves what the store has.
Start ==
  /\ stage = "down"
  /\ \/ /\ stage' = "load" /\ listed' = cms /\ todo' = Known(vcs) /\ disturbed' = FALSE
        /\ orphaned' = (orphaned \/ \E c \in Maps : cms[c] # Nil /\ cms[c].id \notin Known(vcs))
     \/ stage' = "serve" /\ disturbed' = TRUE /\ UNCHANGED <<listed, todo, orphaned>>
  /\ UNCHANGED <<vcs, cms, pc, job, git, crashes>>

\* apply: ApplyConfigVCenter with the fields of the ConfigMap; one that GitOps
\* wrote may be refused (it has no vcenter.yaml, no url, ...).
Load(c) ==
  /\ stage = "load"
  /\ listed[c] # Nil
  /\ LET m == listed[c] IN
       \/ /\ \E i \in Targets(vcs, m.id, c, m.name, Fresh) :
               /\ vcs' = [vcs EXCEPT ![i] =
                    [name |-> m.name, fields |-> m.fields, cm |-> c, origin |-> m.origin,
                     dry |-> DryAfter(m.dry, vcs[i] # Nil /\ vcs[i].dry)]]
               /\ todo' = todo \ {i}
          /\ UNCHANGED disturbed
       \/ m.origin = "gitops" /\ disturbed' = TRUE /\ UNCHANGED <<vcs, todo>>
  /\ listed' = [listed EXCEPT ![c] = Nil]
  /\ UNCHANGED <<cms, stage, pc, job, git, crashes, orphaned>>

\* Mutant: a vCenter that names a ConfigMap counts as having it.
Loaded_TrustsName ==
  /\ stage = "load"
  /\ \A c \in Maps : listed[c] = Nil
  /\ stage' = "export"
  /\ todo' = {i \in todo : vcs[i].cm = Nil}
  /\ UNCHANGED <<vcs, cms, listed, pc, job, git, crashes, orphaned, disturbed>>

\* The ConfigMaps are applied; what none of them defines has to be exported.
Loaded ==
  /\ stage = "load"
  /\ \A c \in Maps : listed[c] = Nil
  /\ stage' = "export"
  /\ UNCHANGED <<vcs, cms, listed, todo, pc, job, git, crashes, orphaned, disturbed>>

\* export: to the ConfigMap the vCenter names, or to a free name.
Export(p, i) ==
  /\ job' = [job EXCEPT ![p] =
       [id |-> i, vc |-> vcs[i], seen |-> "none",
        map |-> IF vcs[i].cm # Nil THEN vcs[i].cm ELSE Base(vcs[i].name)]]
  /\ Goto(p, IF vcs[i].cm # Nil THEN "get" ELSE "base")

ExportNext(i) ==
  /\ stage = "export" /\ pc[Boot] = "idle"
  /\ i \in todo
  /\ todo' = todo \ {i}
  /\ Export(Boot, i)
  /\ UNCHANGED <<vcs, cms, stage, listed, git, crashes, orphaned, disturbed>>

\* Startup is over: the listeners start.
Started ==
  /\ stage = "export" /\ pc[Boot] = "idle" /\ todo = {}
  /\ stage' = "serve"
  /\ UNCHANGED <<vcs, cms, listed, todo, pc, job, git, crashes, orphaned, disturbed>>

-----------------------------------------------------------------------------
(***************************************************************************)
(* A request: the change of the store.                                     *)
(***************************************************************************)
Arrives(r, i, label) ==
  /\ stage = "serve" /\ pc[r] = "idle"
  /\ job' = [job EXCEPT ![r] = [id |-> i, vc |-> Nil, map |-> Nil, seen |-> "none"]]
  /\ Goto(r, label)
  /\ UNCHANGED <<cms, stage, listed, todo, git, crashes, orphaned, disturbed>>

Create(r, i, n, on) ==
  /\ i \in Fresh
  /\ vcs' = [vcs EXCEPT ![i] = [name |-> n, fields |-> r, dry |-> on, cm |-> Nil,
                                origin |-> "none"]]
  /\ Arrives(r, i, "saved")

Edit(r, i, n) ==
  /\ i \in Known(vcs)
  /\ vcs' = [vcs EXCEPT ![i].name = n, ![i].fields = r]
  /\ Arrives(r, i, "saved")

SetDryRun(r, i, on) ==
  /\ i \in Known(vcs)
  /\ vcs' = [vcs EXCEPT ![i].dry = on]
  /\ Arrives(r, i, "saved")

\* DELETE: CheckDelete refuses what GitOps owns ...
CheckDelete(r, i) ==
  /\ i \in Known(vcs)
  /\ vcs[i].origin # "gitops"
  /\ Arrives(r, i, "fetch")
  /\ UNCHANGED vcs

\* ... the handler keeps a copy ...
Fetch(r) ==
  /\ pc[r] = "fetch"
  /\ job' = [job EXCEPT ![r].vc = vcs[job[r].id]]
  /\ Goto(r, "remove")
  /\ UNCHANGED <<vcs, cms, stage, listed, todo, git, crashes, orphaned, disturbed>>

\* ... DeleteVCenter removes the record, or fails because it is gone ...
Remove(r) ==
  /\ pc[r] = "remove"
  /\ LET i == job[r].id IN
       /\ vcs' = [vcs EXCEPT ![i] = Nil]
       /\ IF i \in Known(vcs) /\ job[r].vc.origin = "runtime"
          THEN Goto(r, "unmap") /\ job' = [job EXCEPT ![r].map = job[r].vc.cm]
          ELSE Ends(r)
  /\ UNCHANGED <<cms, stage, listed, todo, git, crashes, orphaned, disturbed>>

\* ... and Deleted removes the ConfigMap that the copy names, if there is one.
Unmap(r) ==
  /\ pc[r] = "unmap"
  /\ Leave(r)
  /\ \/ /\ cms' = [cms EXCEPT ![job[r].map] = Nil]
        /\ job' = Marked(Without(r), job[r].map)
        /\ disturbed' \in {disturbed, TRUE}
     \/ disturbed' = TRUE /\ job' = Without(r) /\ UNCHANGED cms
  /\ UNCHANGED <<vcs, stage, listed, todo, git, crashes, orphaned>>

-----------------------------------------------------------------------------
(***************************************************************************)
(* A request, and Boot: the write of the ConfigMap.                        *)
(***************************************************************************)
\* Saved reads the vCenter again; GitOps-owned ones are left alone.
Saved(r) ==
  /\ pc[r] = "saved"
  /\ LET i == job[r].id IN
       IF i \in Known(vcs) /\ vcs[i].origin # "gitops" THEN Export(r, i) ELSE Ends(r)
  /\ UNCHANGED <<vcs, cms, stage, listed, todo, git, crashes, orphaned, disturbed>>

\* The call of p for its ConfigMap reports an error.
Fault(p) == Ends(p) /\ disturbed' = TRUE

\* The ConfigMap is p's to write: the next step writes, on top of the copy read.
Take(p, copy) ==
  /\ job' = [job EXCEPT ![p].seen = copy]
  /\ Goto(p, "write")
  /\ UNCHANGED disturbed

\* Mutant: freeName does not compare the id.
Mine_AnyId(p) == Runtime(job[p].map)

\* freeName: the name is taken, by p's vCenter.
Mine(p) == Runtime(job[p].map) /\ cms[job[p].map].id = job[p].id

\* freeName: the first name, if it is free or ours ...
TryBase(p) ==
  /\ pc[p] = "base"
  /\ LET c == job[p].map IN
       \/ cms[c] = Nil /\ Take(p, "none")
       \/ Mine(p) /\ Take(p, "fresh")
       \/ /\ cms[c] # Nil /\ ~Mine(p)
          /\ job' = [job EXCEPT ![p].map = Longer(job[p].vc.name, job[p].id)]
          /\ Goto(p, "longer")
          /\ UNCHANGED disturbed
       \/ Fault(p)
  /\ UNCHANGED <<vcs, cms, stage, listed, todo, git, crashes, orphaned>>

\* ... else the longer one.
TryLonger(p) ==
  /\ pc[p] = "longer"
  /\ LET c == job[p].map IN
       \/ cms[c] = Nil /\ Take(p, "none")
       \/ Mine(p) /\ Take(p, "fresh")
       \/ Fault(p)
  /\ UNCHANGED <<vcs, cms, stage, listed, todo, git, crashes, orphaned>>

\* export reads the ConfigMap the vCenter names; one that is not ours is left.
Get(p) ==
  /\ pc[p] = "get"
  /\ LET c == job[p].map IN
       \/ cms[c] = Nil /\ Take(p, "none")
       \/ Runtime(c) /\ Take(p, "fresh")
       \/ Fault(p)
  /\ UNCHANGED <<vcs, cms, stage, listed, todo, git, crashes, orphaned>>

\* Mutant: the update carries no resourceVersion.
Accepts_Unguarded(p) ==
  LET c == job[p].map IN IF job[p].seen = "none" THEN cms[c] = Nil ELSE cms[c] # Nil

\* Kubernetes creates what is not there, and updates what has not changed.
Accepts(p) ==
  IF job[p].seen = "none" THEN cms[job[p].map] = Nil ELSE job[p].seen = "fresh"

\* UpdateConfigMap with the resourceVersion read, or CreateConfigMap.
Write(p) ==
  /\ pc[p] = "write"
  /\ \/ /\ Accepts(p)
        /\ cms' = [cms EXCEPT ![job[p].map] = Render(p)]
        /\ \/ Goto(p, "record") /\ job' = Marked(job, job[p].map) /\ UNCHANGED disturbed
           \/ Leave(p) /\ job' = Marked(Without(p), job[p].map) /\ disturbed' = TRUE
     \/ Fault(p) /\ UNCHANGED cms
  /\ UNCHANGED <<vcs, stage, listed, todo, git, crashes, orphaned>>

\* SetVCenterConfigMap; an error, and no change, if the vCenter is gone.
Record(p) ==
  /\ pc[p] = "record"
  /\ LET i == job[p].id IN
       vcs' = IF i \in Known(vcs)
              THEN [vcs EXCEPT ![i].cm = job[p].map, ![i].origin = "runtime"] ELSE vcs
  /\ Ends(p)
  /\ UNCHANGED <<cms, stage, listed, todo, git, crashes, orphaned, disturbed>>

-----------------------------------------------------------------------------
\* GitOps adopts a runtime ConfigMap (as the note in it says) or edits one of
\* its own, adds one, or removes one.
GitOps(c) ==
  /\ git < MaxGit
  /\ git' = git + 1
  /\ disturbed' = TRUE
  /\ \/ /\ cms[c] # Nil
        /\ \E d \in {Nil, FALSE} :
             cms' = [cms EXCEPT ![c].fields = FromGit, ![c].dry = d, ![c].origin = "gitops"]
     \/ /\ cms[c] = Nil /\ c \in GitMaps
        /\ \E n \in Names, d \in {Nil, TRUE} :
             cms' = [cms EXCEPT ![c] = [id |-> Nil, name |-> n, fields |-> FromGit, dry |-> d,
                                        origin |-> "gitops"]]
     \/ cms[c] # Nil /\ cms[c].origin = "gitops" /\ cms' = [cms EXCEPT ![c] = Nil]
  /\ job' = Marked(job, c)
  /\ UNCHANGED <<vcs, stage, listed, todo, pc, crashes, orphaned>>

\* The gateway restarts; requests under way are lost.
Crash ==
  /\ stage # "down" /\ crashes < MaxCrashes
  /\ crashes' = crashes + 1
  /\ stage' = "down"
  /\ listed' = [c \in Maps |-> Nil]
  /\ todo' = {}
  /\ pc' = [p \in Procs |-> IF p = Boot \/ pc[p] = "idle" THEN "idle" ELSE "done"]
  /\ job' = [p \in Procs |-> Nil]
  /\ UNCHANGED <<vcs, cms, git, orphaned, disturbed>>

\* No request is under way.
Quiet == stage = "serve" /\ \A p \in Procs : pc[p] \in {"idle", "done"}

Rest == Quiet /\ UNCHANGED vars

Startup ==
  \/ Start \/ Loaded \/ Started
  \/ \E c \in Maps : Load(c)
  \/ \E i \in Ids : ExportNext(i)

Begin(r) ==
  \E i \in Ids :
    \/ \E n \in Names, on \in BOOLEAN : Create(r, i, n, on)
    \/ \E n \in Names : Edit(r, i, n)
    \/ \E on \in BOOLEAN : SetDryRun(r, i, on)
    \/ CheckDelete(r, i)

Step(p) == TryBase(p) \/ TryLonger(p) \/ Get(p) \/ Write(p) \/ Record(p)

Next ==
  \/ Startup
  \/ \E r \in Reqs : Begin(r) \/ Fetch(r) \/ Remove(r) \/ Unmap(r) \/ Saved(r)
  \/ \E p \in Procs : Step(p)
  \/ \E c \in Maps : GitOps(c)
  \/ Crash
  \/ Rest

Spec == Init /\ [][Next]_vars
-----------------------------------------------------------------------------
(***************************************************************************)
(* Properties.                                                             *)
(***************************************************************************)

\* Vcenter i has a ConfigMap that says what the store says.
InSync(i) ==
  /\ vcs[i].cm # Nil
  /\ cms[vcs[i].cm] # Nil
  /\ LET m == cms[vcs[i].cm] IN
       /\ m.name = vcs[i].name /\ m.fields = vcs[i].fields /\ m.origin = vcs[i].origin
       /\ m.dry \in {vcs[i].dry, Nil}

\* rf2vc never writes a ConfigMap that GitOps owns (vcsync.go:8-9), though the
\* owner may take it over between the read and the write.
NeverWritesGitOps ==
  [][\A c \in Maps :
       cms[c] # Nil /\ cms[c].origin = "gitops" /\ cms'[c] # cms[c]
       => cms'[c] = Nil \/ git' # git]_vars

\* The other vCenters that name the ConfigMap of vCenter i.
Sharing(i) == {j \in Known(vcs) \ {i} : vcs[j].cm = vcs[i].cm}

\* No two vCenters are backed by one ConfigMap, through any restarts, as long as
\* GitOps keeps out and no start found a ConfigMap whose vCenter was deleted: two
\* would overwrite each other's at every edit.  (Once GitOps has adopted and removed
\* a ConfigMap, freeName may hand out the name its vCenter keeps.  A ConfigMap left
\* behind finds its record by id, so it brings a deleted vCenter back, or goes to
\* another one of its name, and an export may have put it over a ConfigMap that
\* some vCenter has.)
OneVCenterPerConfigMap ==
  git = 0 /\ ~orphaned => \A i \in Known(vcs) : vcs[i].cm # Nil => Sharing(i) = {}

\* A start that nothing disturbs ends with a vCenter and the ConfigMap it names, and
\* shares with no other, saying the same, whatever was lost, half done or changed
\* before it.  (A ConfigMap that is silent on dry-run agrees with either.)
StartReconciles ==
  [][stage = "export" /\ stage' = "serve" /\ ~disturbed
     => \A i \in Known(vcs) : Sharing(i) = {} => InSync(i)]_vars

\* Dry-run that is on stays on through restarts, lost writes and late exports,
\* until a request or GitOps switches it off.
DryRunStaysOn ==
  [][\A i \in Ids :
       i \in Known(vcs) /\ vcs'[i] # Nil /\ vcs[i].dry /\ ~vcs'[i].dry
       => (\E r \in Reqs : SetDryRun(r, i, FALSE)) \/ vcs'[i].origin = "gitops"]_vars

\* "ResourceVersion guards against lost updates" (kube.go:119): while nothing
\* failed, and no request is under way, the ConfigMaps say what the store says.
QuietMeansInSync ==
  Quiet /\ ~disturbed => \A i \in Known(vcs) : InSync(i)

\* "rf2vc never writes or deletes those ConfigMaps" (vcsync.go:9).
NeverDeletesGitOps ==
  [][\A c \in Maps :
       cms[c] # Nil /\ cms[c].origin = "gitops" /\ cms'[c] = Nil => git' # git]_vars
=============================================================================
