---------------------------- MODULE VMediaProofs ----------------------------
(***************************************************************************)
(* Proofs about VMedia, for any requests, images and late tasks, along     *)
(* two inductive invariants.                                               *)
(*                                                                         *)
(* IInv: a request that has the VM to itself knows at each of its steps    *)
(* what vSphere has done so far; the invariant follows it from call to     *)
(* call.  The only task of its own that may outlive the wait for it is the *)
(* shutdown of a guest that the request powers off next.                   *)
(*                                                                         *)
(* RetryInv: of overlapping retries of one insert, whatever one undoes (it *)
(* powers the VM off, takes the tray out) is still ahead of it or of       *)
(* another one.                                                            *)
(***************************************************************************)
EXTENDS VMedia, FiniteSetTheorems, TLAPS

Insert(o) == kind[o] = "insert"
Eject(o)  == kind[o] = "eject"

\* A request that has had the VM to itself so far.
Solo(o) == alone[o] /\ Active(o)

\* Where a request of each kind can be, and how often it tried to free the CD-ROM.
LabelOK(o) ==
  /\ pc[o] = "idle" => ~wasOn[o] /\ tries[o] = 0
  /\ pc[o] \in {"stage", "look", "tray", "drop", "attach", "record"} => Insert(o)
  /\ pc[o] \in {"detach", "clear"} => Eject(o)
  /\ pc[o] \in {"state", "soft"} => Insert(o) \/ Eject(o)
  /\ pc[o] = "hard" => kind[o] \in {"insert", "eject", "restart", "off"}
  /\ pc[o] = "boot" => kind[o] \in {"insert", "eject", "bootCD", "bootDisk"}
  /\ pc[o] = "powerOn" => kind[o] \in {"insert", "eject", "restart", "on"}
  /\ pc[o] \in {"stage", "look", "state"} => ~wasOn[o] /\ tries[o] = 0
  /\ Insert(o) /\ pc[o] \in {"soft", "hard", "tray", "drop"} => tries[o] <= 1
  /\ Eject(o) /\ pc[o] \in {"soft", "hard", "detach"} => tries[o] <= 2
  /\ Insert(o) => image[o] \in Images

\* A task of a request that has the VM to itself, and that nobody waits for any
\* more, is the shutdown of a guest the request goes on to power off.
LateOK(o) ==
  /\ late \subseteq {<<o, Shutdown>>}
  /\ late # {} => pc[o] = "hard" /\ power = "on"

\* The VM is as the request found it, or was powered off to free the CD-ROM.
PowerKept(o) ==
  IF wasOn[o] THEN prior[o] = "on" /\ power = "off" ELSE power = prior[o]

\* How far an insert that has the VM to itself has come.
InsertOK(o) ==
  /\ pc[o] \in {"stage", "look", "state"} => power = prior[o]
  /\ pc[o] = "soft" => power = "on"
  /\ pc[o] \in {"soft", "hard"} => wasOn[o] /\ prior[o] = "on"
  /\ pc[o] \in {"tray", "drop", "attach", "boot"} => PowerKept(o)
  /\ pc[o] = "attach" => ~cd.connected
  /\ pc[o] \in {"boot", "powerOn"} => cd.file = image[o] /\ cd.start
  /\ pc[o] = "powerOn" => wasOn[o] /\ boot = "cd" /\ power = "off" /\ prior[o] = "on"
  /\ pc[o] = "record" => /\ cd.file = image[o] /\ (cd.connected \/ cd.start)
                         /\ power = prior[o]
                         /\ wasOn[o] => guest = image[o]

\* How far an eject that has it to itself has come.
EjectOK(o) ==
  /\ pc[o] \in {"boot", "clear", "powerOn"} => ~cd.connected /\ ~cd.start
  /\ pc[o] \in {"clear", "powerOn"} => boot = "disk"
  /\ pc[o] = "powerOn" => media = NoImage

SoloOK(o) ==
  /\ LateOK(o)
  /\ Insert(o) => InsertOK(o)
  /\ Eject(o) => EjectOK(o)

LateInv   == IsFiniteSet(late)
ResultInv == \A o \in Ops : result[o] # "none" => pc[o] = "done"
LabelInv == \A o \in Ops : LabelOK(o)
AloneInv == \A o \in Ops : Solo(o) => \A y \in Ops \ {o} : ~Active(y)
SoloInv  == \A o \in Ops : Solo(o) => SoloOK(o)

IInv == TypeOK /\ LateInv /\ ResultInv /\ LabelInv /\ AloneInv /\ SoloInv

-----------------------------------------------------------------------------
(***************************************************************************)
(* The environment.                                                        *)
(***************************************************************************)
VMTyped ==
  /\ power \in {"on", "off"}
  /\ cd \in CDRom
  /\ boot \in {"cd", "disk"}
  /\ guest \in Images \cup {"off", "disk"}

\* The tasks by name.
LEMMA DoneIs ==
  ASSUME NEW t, Done(t)
  PROVE  /\ t.task = "powerOn" => PoweredOn
         /\ t.task \in {"powerOff", "shutdown"} => PoweredOff
         /\ t.task = "edit" => Edited(t.file, t.connect)
         /\ t.task = "boot" => boot' = t.first /\ UNCHANGED <<power, cd, guest>>
BY Zenon DEF Done

\* Powering on leaves a VM a VM ...
LEMMA PoweredOnTypes == ASSUME VMTyped, PoweredOn PROVE VMTyped'
<1>1. BootsFrom \in Images \cup {"off", "disk"}
  BY DEF VMTyped, BootsFrom, CDRom
<1>2. [cd EXCEPT !.connected = cd.start] \in CDRom
  BY DEF VMTyped, CDRom
<1> QED
  BY <1>1, <1>2 DEF VMTyped, PoweredOn

\* ... powering off too ...
LEMMA PoweredOffTypes == ASSUME VMTyped, PoweredOff PROVE VMTyped'
<1>1. ASSUME NEW c \in {cd.connected, FALSE} PROVE [cd EXCEPT !.connected = c] \in CDRom
  BY DEF VMTyped, CDRom
<1> QED
  BY <1>1 DEF VMTyped, PoweredOff

\* ... and a change of its CD-ROM.
LEMMA EditedTypes ==
  ASSUME VMTyped, NEW file \in Images \cup {NoImage}, NEW connect \in BOOLEAN, Edited(file, connect)
  PROVE  VMTyped'
<1>1. ASSUME NEW c \in BOOLEAN
      PROVE  [file |-> IF cd.connected THEN cd.file ELSE file, connected |-> c, start |-> connect]
               \in CDRom
  BY DEF VMTyped, CDRom
<1>2. cd' \in CDRom
  BY <1>1 DEF Edited
<1> QED
  BY <1>2 DEF VMTyped, Edited

\* A task leaves a VM a VM.
LEMMA DoneTypes == ASSUME VMTyped, NEW t \in Task, Done(t) PROVE VMTyped'
<1>1. CASE t = Shutdown
  <2>1. t.task = "shutdown"
    BY <1>1 DEF Shutdown
  <2> QED
    BY <2>1, DoneIs, PoweredOffTypes
<1>2. CASE t \in PowerTask
  <2>1. t.task \in {"powerOn", "powerOff"}
    BY <1>2 DEF PowerTask
  <2> QED
    BY <2>1, DoneIs, PoweredOnTypes, PoweredOffTypes
<1>3. CASE t \in EditTask
  <2>1. t.task = "edit" /\ t.file \in Images \cup {NoImage} /\ t.connect \in BOOLEAN
    BY <1>3 DEF EditTask
  <2> QED
    BY <2>1, DoneIs, EditedTypes
<1>4. CASE t \in BootTask
  <2>1. t.task = "boot" /\ t.first \in {"cd", "disk"}
    BY <1>4 DEF BootTask
  <2> QED
    BY <2>1, DoneIs DEF VMTyped
<1> QED
  BY <1>1, <1>2, <1>3, <1>4 DEF Task

\* The tasks that outlive their requests stay few.
LateTyped == late \in SUBSET (Ops \X Task) /\ IsFiniteSet(late) /\ Cardinality(late) <= MaxLate

\* Fewer late tasks are few enough ...
LEMMA FewerLate ==
  ASSUME LateTyped, MaxLate \in Nat, late' \subseteq late
  PROVE  LateTyped'
<1>1. IsFiniteSet(late') /\ Cardinality(late') <= Cardinality(late)
  BY FS_Subset DEF LateTyped
<1>2. Cardinality(late) \in Nat /\ Cardinality(late') \in Nat
  BY <1>1, FS_CardinalityType DEF LateTyped
<1> QED
  BY <1>1, <1>2 DEF LateTyped

\* ... and one more is, short of the limit.
LEMMA OneMoreLate ==
  ASSUME LateTyped, MaxLate \in Nat, NEW l \in Ops \X Task, Cardinality(late) < MaxLate,
         late' = late \cup {l}
  PROVE  LateTyped'
<1>1. Cardinality(late) \in Nat
  BY FS_CardinalityType DEF LateTyped
<1>2. /\ IsFiniteSet(late')
      /\ \/ Cardinality(late') = Cardinality(late)
         \/ Cardinality(late') = Cardinality(late) + 1
  BY FS_AddElement DEF LateTyped
<1> QED
  BY <1>1, <1>2 DEF LateTyped

\* A finished task starts no other.
LEMMA PendingLess == Pending \subseteq late
BY DEF Pending

\* What a request's call to vSphere leaves, whether it succeeds or fails.
LEMMA CallTypes ==
  ASSUME VMTyped, LateTyped, MaxLate \in Nat, NEW o \in Ops, NEW t \in Task,
         Succeeds(o, t) \/ Fails(o, t)
  PROVE  VMTyped' /\ LateTyped'
<1>1. CASE Done(t) /\ late' = Pending
  BY <1>1, DoneTypes, PendingLess, FewerLate
<1>2. CASE UNCHANGED vm /\ late' = late
  BY <1>2 DEF vm, VMTyped, LateTyped
<1>3. CASE Cardinality(late) < MaxLate /\ late' = late \cup {<<o, t>>} /\ UNCHANGED vm
  BY <1>3, OneMoreLate DEF vm, VMTyped
<1> QED
  BY <1>1, <1>2, <1>3 DEF Succeeds, Fails

-----------------------------------------------------------------------------
(***************************************************************************)
(* The control of a request.                                               *)
(***************************************************************************)
Control ==
  /\ pc \in [Ops -> Labels]
  /\ kind \in [Ops -> Kinds \cup {"none"}]
  /\ image \in [Ops -> Images \cup {NoImage}]
  /\ result \in [Ops -> {"none", "ok", "err"}]
  /\ wasOn \in [Ops -> BOOLEAN]
  /\ snap \in [Ops -> Images \cup {NoImage}]
  /\ prior \in [Ops -> {"on", "off"}]
  /\ alone \in [Ops -> BOOLEAN]
  /\ media \in Images \cup {NoImage}

\* What a step of o may change of the requests: o's own locals, while it runs.
OnlyMoves(o) ==
  /\ Active(o)
  /\ UNCHANGED <<kind, image, prior, alone>>
  /\ pc'[o] # "idle"
  /\ pc'[o] # "done" => result'[o] = result[o]
  /\ \A y \in Ops \ {o} : /\ pc'[y] = pc[y] /\ result'[y] = result[y] /\ wasOn'[y] = wasOn[y]
                          /\ snap'[y] = snap[y] /\ tries'[y] = tries[y]

\* Once the VM is off.
LEMMA AfterPowerOffIs ==
  ASSUME NEW o, AfterPowerOff(o), kind[o] \in {"insert", "eject", "restart", "off"}
  PROVE  /\ Insert(o) => Goto(o, "tray")
         /\ Eject(o) => Goto(o, "detach")
         /\ kind[o] = "restart" => Goto(o, "powerOn")
         /\ kind[o] = "off" => Return(o, "ok")
BY Zenon DEF AfterPowerOff, Insert, Eject

\* The boot order a request asks for.
BootTaskOf(o) ==
  [task |-> "boot", first |-> IF kind[o] \in {"insert", "bootCD"} THEN "cd" ELSE "disk"]

\* Once the boot order is set.
LEMMA SetBootIs ==
  ASSUME NEW o, SetBoot(o)
  PROVE  \/ /\ Succeeds(o, BootTaskOf(o))
            /\ Insert(o) => Goto(o, IF wasOn[o] THEN "powerOn" ELSE "record")
            /\ Eject(o) => Goto(o, "clear")
            /\ kind[o] \in {"bootCD", "bootDisk"} => Return(o, "ok")
         \/ Fails(o, BootTaskOf(o)) /\ Return(o, "err")
BY Zenon DEF SetBoot, Insert, Eject, BootTaskOf

\* A request that goes on ...
LEMMA GotoShape ==
  ASSUME Control, NEW o \in Ops, NEW label \in Labels, Goto(o, label)
  PROVE  /\ pc' \in [Ops -> Labels] /\ result' = result
         /\ pc'[o] = label /\ \A y \in Ops \ {o} : pc'[y] = pc[y]
BY DEF Control, Goto

\* ... and one that returns.
LEMMA ReturnShape ==
  ASSUME Control, NEW o \in Ops, NEW res \in {"ok", "err"}, Return(o, res)
  PROVE  /\ pc' \in [Ops -> Labels] /\ result' \in [Ops -> {"none", "ok", "err"}]
         /\ pc'[o] = "done" /\ result'[o] = res
         /\ \A y \in Ops \ {o} : pc'[y] = pc[y] /\ result'[y] = result[y]
BY DEF Control, Return, Labels

\* Where each step of a request can lead.
Moves(o, labels) ==
  \/ \E label \in labels : Goto(o, label)
  \/ \E res \in {"ok", "err"} : Return(o, res)

Moved(o, labels) ==
  /\ pc' \in [Ops -> Labels] /\ result' \in [Ops -> {"none", "ok", "err"}]
  /\ pc'[o] \in labels \cup {"done"}
  /\ pc'[o] # "done" => result'[o] = result[o]
  /\ \A y \in Ops \ {o} : pc'[y] = pc[y] /\ result'[y] = result[y]

\* Either way only its own control moves.
LEMMA MovesShape ==
  ASSUME Control, NEW o \in Ops, NEW labels \in SUBSET Labels, Moves(o, labels)
  PROVE  Moved(o, labels)
<1>1. ASSUME NEW label \in labels, Goto(o, label) PROVE Moved(o, labels)
  BY <1>1, GotoShape DEF Moved, Control
<1>2. ASSUME NEW res \in {"ok", "err"}, Return(o, res) PROVE Moved(o, labels)
  BY <1>2, ReturnShape DEF Moved
<1> QED
  BY <1>1, <1>2 DEF Moves

\* The parts of the type invariant.
LEMMA ControlParts ==
  ASSUME TypeOK, LateInv
  PROVE  /\ VMTyped /\ LateTyped /\ Control /\ tries \in [Ops -> 0..3]
BY DEF TypeOK, LateInv, VMTyped, LateTyped, Control

\* A step of a request keeps the types if its calls and its locals do.
LEMMA StepTypes ==
  ASSUME TypeOK, LateInv, NEW o \in Ops, Moves(o, Labels), VMTyped', LateTyped',
         UNCHANGED <<kind, image, prior, alone>>,
         media' \in Images \cup {NoImage}, wasOn' \in [Ops -> BOOLEAN],
         snap' \in [Ops -> Images \cup {NoImage}], tries' \in [Ops -> 0..3]
  PROVE  TypeOK' /\ LateInv'
<1>1. Control
  BY ControlParts
<1>2. Moved(o, Labels)
  BY <1>1, MovesShape
<1> QED
  BY <1>1, <1>2 DEF Moved, Control, TypeOK, LateInv, VMTyped, LateTyped

\* What a step has to show of the request that takes it.
Progress(o) ==
  /\ TypeOK' /\ LateInv'
  /\ OnlyMoves(o)
  /\ LabelOK(o)'
  /\ Solo(o) /\ pc'[o] # "done" => SoloOK(o)'

\* The other requests run on as they were, none of them with the VM to itself.
LEMMA ProgressKeeps ==
  ASSUME IInv, NEW o \in Ops, Progress(o)
  PROVE  IInv'
<1>1. ASSUME NEW y \in Ops, y # o PROVE LabelOK(y)' /\ ~Solo(y)'
  <2>1. pc'[y] = pc[y] /\ wasOn'[y] = wasOn[y] /\ tries'[y] = tries[y]
    BY <1>1 DEF Progress, OnlyMoves
  <2>2. UNCHANGED <<kind, image, alone>> /\ Active(o)
    BY DEF Progress, OnlyMoves
  <2>3. LabelOK(y) /\ ~Solo(y)
    BY <1>1, <2>2 DEF IInv, LabelInv, AloneInv
  <2> QED
    BY <2>1, <2>2, <2>3 DEF LabelOK, Solo, Active, Insert, Eject
<1>2. LabelInv'
  BY <1>1 DEF LabelInv, Progress
<1>3. Solo(o)' => Solo(o) /\ pc'[o] # "done"
  BY DEF Progress, OnlyMoves, Solo, Active
<1>4. SoloInv'
  BY <1>1, <1>3 DEF SoloInv, Progress
<1>5. AloneInv'
  <2>1. Solo(o)' => \A y \in Ops \ {o} : ~Active(y)
    BY <1>3 DEF IInv, AloneInv
  <2>2. \A y \in Ops \ {o} : Active(y)' = Active(y)
    BY DEF Progress, OnlyMoves, Active
  <2> QED
    BY <1>1, <2>1, <2>2 DEF AloneInv
<1>6. ResultInv'
  <2>1. ASSUME NEW y \in Ops PROVE result'[y] # "none" => pc'[y] = "done"
    <3>1. result[y] # "none" => pc[y] = "done"
      BY DEF IInv, ResultInv
    <3>2. CASE y = o
      BY <3>1, <3>2 DEF Progress, OnlyMoves, Active
    <3>3. CASE y # o
      BY <3>1, <3>3 DEF Progress, OnlyMoves
    <3> QED
      BY <3>2, <3>3
  <2> QED
    BY <2>1 DEF ResultInv
<1> QED
  BY <1>2, <1>4, <1>5, <1>6 DEF IInv, Progress

\* Where IInv says o is.
LEMMA Here ==
  ASSUME IInv, NEW o \in Ops
  PROVE  /\ TypeOK /\ LateInv /\ LabelOK(o)
         /\ result[o] # "none" => pc[o] = "done"
         /\ Solo(o) => SoloOK(o)
         /\ VMTyped /\ LateTyped /\ Control /\ tries \in [Ops -> 0..3]
BY ControlParts DEF IInv, ResultInv, LabelInv, SoloInv

\* A step of o, with whatever it changes of o's locals.
LEMMA StepShape ==
  ASSUME IInv, NEW o \in Ops, Active(o), NEW labels \in SUBSET (Labels \ {"idle"}),
         Moves(o, labels), VMTyped', LateTyped', UNCHANGED <<kind, image, prior, alone>>,
         media' \in Images \cup {NoImage},
         wasOn' = wasOn \/ \E b \in BOOLEAN : wasOn' = [wasOn EXCEPT ![o] = b],
         snap' = snap \/ \E i \in Images \cup {NoImage} : snap' = [snap EXCEPT ![o] = i],
         tries' = tries \/ (tries[o] <= 2 /\ tries' = [tries EXCEPT ![o] = @ + 1])
  PROVE  TypeOK' /\ LateInv' /\ OnlyMoves(o) /\ pc'[o] \in labels \cup {"done"}
<1>1. TypeOK /\ LateInv /\ Control /\ tries \in [Ops -> 0..3]
  BY Here
<1>2. wasOn' \in [Ops -> BOOLEAN] /\ \A y \in Ops \ {o} : wasOn'[y] = wasOn[y]
  BY <1>1 DEF Control
<1>3. snap' \in [Ops -> Images \cup {NoImage}] /\ \A y \in Ops \ {o} : snap'[y] = snap[y]
  BY <1>1 DEF Control
<1>4. tries' \in [Ops -> 0..3] /\ \A y \in Ops \ {o} : tries'[y] = tries[y]
  BY <1>1
<1>5. Moves(o, Labels)
  BY DEF Moves
<1>6. TypeOK' /\ LateInv'
  BY <1>1, <1>2, <1>3, <1>4, <1>5, StepTypes
<1>7. Moved(o, labels)
  <2>1. labels \in SUBSET Labels
    OBVIOUS
  <2> QED
    BY <1>1, <2>1, MovesShape
<1> QED
  BY <1>2, <1>3, <1>4, <1>6, <1>7 DEF Moved, OnlyMoves

\* The VM as it was.
LEMMA VMStays ==
  ASSUME IInv, UNCHANGED <<power, cd, boot, guest, late>>
  PROVE  VMTyped' /\ LateTyped'
BY ControlParts DEF IInv, VMTyped, LateTyped

\* The steps that only look at the VM.
LEMMA StageProgress == ASSUME IInv, NEW o \in Ops, Stage(o) PROVE Progress(o)
<1>1. /\ pc[o] = "stage"
      /\ Goto(o, "look") \/ Return(o, "err")
      /\ UNCHANGED <<power, cd, boot, guest, late, wasOn, snap, tries>> /\ Quiet
  BY DEF Stage
<1>2. VMTyped' /\ LateTyped'
  BY <1>1, VMStays
<1>3. TypeOK' /\ LateInv' /\ OnlyMoves(o) /\ pc'[o] \in {"look"} \cup {"done"}
  <2>1. Active(o) /\ Moves(o, {"look"})
    BY <1>1 DEF Active, Moves
  <2>2. {"look"} \in SUBSET (Labels \ {"idle"})
    BY DEF Labels
  <2>3. UNCHANGED <<kind, image, prior, alone>> /\ media' \in Images \cup {NoImage}
    BY <1>1, Here DEF Quiet, Control
  <2> QED
    BY <1>1, <1>2, <2>1, <2>2, <2>3, StepShape
<1>4. LabelOK(o)'
  BY <1>1, <1>3, Here DEF LabelOK, Insert, Eject, Quiet
<1>5. Solo(o) /\ pc'[o] # "done" => SoloOK(o)'
  BY <1>1, <1>3, Here
     DEF SoloOK, LateOK, InsertOK, EjectOK, PowerKept, LabelOK, Insert, Eject, Quiet
<1> QED
  BY <1>3, <1>4, <1>5 DEF Progress

\* The CD-ROM that has the image already, connected, needs only the record.
LEMMA LookProgress == ASSUME IInv, NEW o \in Ops, Look(o) PROVE Progress(o)
<1>1. /\ pc[o] = "look"
      /\ UNCHANGED <<power, cd, boot, guest, late, wasOn, snap, tries>> /\ Quiet
  BY DEF Look
<1>2. \/ cd.connected /\ cd.file = image[o] /\ Goto(o, "record")
      \/ Goto(o, "state")
      \/ Return(o, "err")
  BY DEF Look
<1>3. VMTyped' /\ LateTyped'
  BY <1>1, VMStays
<1>4. TypeOK' /\ LateInv' /\ OnlyMoves(o)
  <2>1. Active(o) /\ Moves(o, {"record", "state"})
    BY <1>1, <1>2 DEF Active, Moves
  <2>2. {"record", "state"} \in SUBSET (Labels \ {"idle"})
    BY DEF Labels
  <2>3. UNCHANGED <<kind, image, prior, alone>> /\ media' \in Images \cup {NoImage}
    BY <1>1, Here DEF Quiet, Control
  <2> QED
    BY <1>1, <1>3, <2>1, <2>2, <2>3, StepShape
<1>5. \/ cd.connected /\ cd.file = image[o] /\ pc'[o] = "record"
      \/ pc'[o] \in {"state", "done"}
  BY <1>2, Here, GotoShape, ReturnShape DEF Labels
<1>6. LabelOK(o)'
  BY <1>1, <1>5, Here DEF LabelOK, Insert, Eject, Quiet
<1>7. Solo(o) /\ pc'[o] # "done" => SoloOK(o)'
  BY <1>1, <1>5, Here
     DEF SoloOK, LateOK, InsertOK, EjectOK, PowerKept, LabelOK, Insert, Eject, Quiet
<1> QED
  BY <1>4, <1>6, <1>7 DEF Progress

\* Nobody but this request turns the power while it has the VM to itself.
LEMMA ReadPowerProgress == ASSUME IInv, NEW o \in Ops, ReadPower(o) PROVE Progress(o)
<1>1. /\ pc[o] = "state"
      /\ UNCHANGED <<power, cd, boot, guest, late, snap, tries>> /\ Quiet
  BY DEF ReadPower
<1>2. PICK on \in {power = "on", FALSE} :
        /\ wasOn' = [wasOn EXCEPT ![o] = on]
        /\ Goto(o, IF kind[o] = "eject" THEN "detach" ELSE IF on THEN "soft" ELSE "tray")
  BY DEF ReadPower
<1>3. VMTyped' /\ LateTyped'
  BY <1>1, VMStays
<1>4. TypeOK' /\ LateInv' /\ OnlyMoves(o)
  <2>1. Active(o) /\ Moves(o, {"detach", "soft", "tray"})
    BY <1>1, <1>2 DEF Active, Moves
  <2>2. {"detach", "soft", "tray"} \in SUBSET (Labels \ {"idle"})
    BY DEF Labels
  <2>3. UNCHANGED <<kind, image, prior, alone>> /\ media' \in Images \cup {NoImage}
    BY <1>1, Here DEF Quiet, Control
  <2>4. on \in BOOLEAN
    OBVIOUS
  <2> QED
    BY <1>1, <1>2, <1>3, <2>1, <2>2, <2>3, <2>4, StepShape
<1>5. pc'[o] = IF kind[o] = "eject" THEN "detach" ELSE IF on THEN "soft" ELSE "tray"
  BY <1>2, Here, GotoShape DEF Labels
<1>6. wasOn'[o] = on
  BY <1>2, Here DEF Control
<1>7. LabelOK(o)'
  BY <1>1, <1>5, Here DEF LabelOK, Insert, Eject, Quiet
<1>8. Solo(o) /\ pc'[o] # "done" => SoloOK(o)'
  BY <1>1, <1>5, <1>6, Here
  DEF SoloOK, LateOK, InsertOK, EjectOK, PowerKept, LabelOK, Insert, Eject, Quiet
<1> QED
  BY <1>4, <1>7, <1>8 DEF Progress

\* A tray found disconnected and not to be connected is ready for the new backing.
LEMMA ReadTrayProgress == ASSUME IInv, NEW o \in Ops, ReadTray(o) PROVE Progress(o)
<1>1. /\ pc[o] = "tray"
      /\ UNCHANGED <<power, cd, boot, guest, late, wasOn, tries>> /\ Quiet
  BY DEF ReadTray
<1>2. \/ ~cd.connected /\ Goto(o, "attach") /\ UNCHANGED snap
      \/ snap' = [snap EXCEPT ![o] = cd.file] /\ Goto(o, "drop")
      \/ Return(o, "err") /\ UNCHANGED snap
  BY DEF ReadTray
<1>3. VMTyped' /\ LateTyped'
  BY <1>1, VMStays
<1>4. TypeOK' /\ LateInv' /\ OnlyMoves(o)
  <2>1. Active(o) /\ Moves(o, {"attach", "drop"})
    BY <1>1, <1>2 DEF Active, Moves
  <2>2. {"attach", "drop"} \in SUBSET (Labels \ {"idle"})
    BY DEF Labels
  <2>3. UNCHANGED <<kind, image, prior, alone>> /\ media' \in Images \cup {NoImage}
    BY <1>1, Here DEF Quiet, Control
  <2>4. cd.file \in Images \cup {NoImage}
    BY Here DEF VMTyped, CDRom
  <2> QED
    BY <1>1, <1>2, <1>3, <2>1, <2>2, <2>3, <2>4, StepShape
<1>5. \/ ~cd.connected /\ pc'[o] = "attach"
      \/ pc'[o] \in {"drop", "done"}
  BY <1>2, Here, GotoShape, ReturnShape DEF Labels
<1>6. LabelOK(o)'
  BY <1>1, <1>5, Here DEF LabelOK, Insert, Eject, Quiet
<1>7. Solo(o) /\ pc'[o] # "done" => SoloOK(o)'
  BY <1>1, <1>5, Here
     DEF SoloOK, LateOK, InsertOK, EjectOK, PowerKept, LabelOK, Insert, Eject, Quiet
<1> QED
  BY <1>4, <1>6, <1>7 DEF Progress

\* The record of what is inserted.
LEMMA RecordProgress == ASSUME IInv, NEW o \in Ops, Record(o) PROVE Progress(o)
<1>1. /\ pc[o] = "record" /\ media' = image[o] /\ Return(o, "ok")
      /\ UNCHANGED <<power, cd, boot, guest, late, wasOn, snap, tries, kind, image, prior, alone>>
  BY DEF Record
<1>2. VMTyped' /\ LateTyped'
  BY <1>1, VMStays
<1>3. TypeOK' /\ LateInv' /\ OnlyMoves(o) /\ pc'[o] \in {} \cup {"done"}
  <2>1. Active(o) /\ Moves(o, {})
    BY <1>1 DEF Active, Moves
  <2>2. media' \in Images \cup {NoImage}
    BY <1>1, Here DEF Control
  <2> QED
    BY <1>1, <1>2, <2>1, <2>2, StepShape
<1>4. LabelOK(o)'
  BY <1>1, <1>3, Here DEF LabelOK, Insert, Eject
<1> QED
  BY <1>3, <1>4 DEF Progress

\* The record of an eject.
LEMMA ClearProgress == ASSUME IInv, NEW o \in Ops, Clear(o) PROVE Progress(o)
<1>1. /\ pc[o] = "clear" /\ media' = NoImage
      /\ UNCHANGED <<power, cd, boot, guest, late, wasOn, snap, tries, kind, image, prior, alone>>
  BY DEF Clear
<1>2. Goto(o, "powerOn") \/ Return(o, "ok")
  BY DEF Clear
<1>3. VMTyped' /\ LateTyped'
  BY <1>1, VMStays
<1>4. TypeOK' /\ LateInv' /\ OnlyMoves(o) /\ pc'[o] \in {"powerOn"} \cup {"done"}
  <2>1. Active(o) /\ Moves(o, {"powerOn"})
    BY <1>1, <1>2 DEF Active, Moves
  <2>2. {"powerOn"} \in SUBSET (Labels \ {"idle"})
    BY DEF Labels
  <2> QED
    BY <1>1, <1>3, <2>1, <2>2, StepShape
<1>5. LabelOK(o)'
  BY <1>1, <1>4, Here DEF LabelOK, Insert, Eject
<1>6. Solo(o) /\ pc'[o] # "done" => SoloOK(o)'
  BY <1>1, <1>4, Here DEF SoloOK, LateOK, InsertOK, EjectOK, LabelOK, Insert, Eject
<1> QED
  BY <1>4, <1>5, <1>6 DEF Progress

\* Tasks that end with the VM off leave no shutdown under way.
LEMMA OffIs ==
  ASSUME NEW o, NEW t, t.task \in {"powerOff", "shutdown"}, Done(t), late' = Pending
  PROVE  power' = "off" /\ late' \subseteq late /\ \A l \in late' : l[2] # Shutdown
BY DoneIs DEF PoweredOff, Pending

\* Where AfterPowerOff leads.
LEMMA AfterPowerOffMoves ==
  ASSUME IInv, NEW o \in Ops, pc[o] \in {"soft", "hard"}, AfterPowerOff(o)
  PROVE  /\ Moves(o, {"tray", "detach", "powerOn"})
         /\ Insert(o) => pc'[o] = "tray"
         /\ Eject(o) => pc'[o] = "detach"
         /\ pc'[o] = "powerOn" => kind[o] = "restart"
         /\ pc'[o] # "hard" /\ pc'[o] # "soft"
         /\ pc'[o] \in {"tray", "detach", "powerOn", "done"}
         /\ pc'[o] = "tray" => Insert(o)
         /\ pc'[o] = "detach" => Eject(o)
<1>1. kind[o] \in {"insert", "eject", "restart", "off"}
  BY Here DEF LabelOK, Insert, Eject
<1>2. /\ Insert(o) => Goto(o, "tray")
      /\ Eject(o) => Goto(o, "detach")
      /\ kind[o] = "restart" => Goto(o, "powerOn")
      /\ kind[o] = "off" => Return(o, "ok")
  BY <1>1, AfterPowerOffIs
<1>3. /\ Insert(o) => pc'[o] = "tray"
      /\ Eject(o) => pc'[o] = "detach"
      /\ kind[o] = "restart" => pc'[o] = "powerOn"
      /\ kind[o] = "off" => pc'[o] = "done"
  BY <1>2, Here, GotoShape, ReturnShape DEF Labels
<1> QED
  BY <1>1, <1>2, <1>3 DEF Moves, Insert, Eject

\* A guest asked to shut down may do so later, while the request powers it off.
LEMMA SoftOffProgress == ASSUME IInv, VMediaAssumption, NEW o \in Ops, SoftOff(o) PROVE Progress(o)
<1>1. pc[o] = "soft" /\ UNCHANGED <<wasOn, snap, tries>> /\ Quiet
  BY DEF SoftOff
<1>2. \/ power = "off" /\ AfterPowerOff(o) /\ UNCHANGED <<power, cd, boot, guest, late>>
      \/ power = "on" /\ Succeeds(o, Shutdown) /\ AfterPowerOff(o)
      \/ power = "on" /\ Fails(o, Shutdown) /\ Goto(o, "hard")
  BY DEF SoftOff
<1>3. Shutdown \in Task /\ Shutdown.task = "shutdown"
  BY DEF Shutdown, Task
<1>4. VMTyped' /\ LateTyped'
  BY <1>2, <1>3, Here, VMStays, CallTypes DEF VMediaAssumption
<1>5. TypeOK' /\ LateInv' /\ OnlyMoves(o)
  <2>1. Active(o) /\ Moves(o, {"tray", "detach", "powerOn", "hard"})
    BY <1>1, <1>2, AfterPowerOffMoves DEF Active, Moves
  <2>2. {"tray", "detach", "powerOn", "hard"} \in SUBSET (Labels \ {"idle"})
    BY DEF Labels
  <2>3. UNCHANGED <<kind, image, prior, alone>> /\ media' \in Images \cup {NoImage}
    BY <1>1, Here DEF Quiet, Control
  <2> QED
    BY <1>1, <1>4, <2>1, <2>2, <2>3, StepShape
<1>6. Insert(o) \/ Eject(o)
  BY <1>1, Here DEF LabelOK
<1>7. LabelOK(o)'
  <2>1. (pc'[o] = "tray" /\ Insert(o)) \/ (pc'[o] = "detach" /\ Eject(o)) \/ pc'[o] = "hard"
    BY <1>1, <1>2, <1>6, AfterPowerOffMoves, Here, GotoShape DEF Labels
  <2> QED
    BY <1>1, <1>6, <2>1, Here DEF LabelOK, Insert, Eject, Quiet
<1>8. ASSUME Solo(o) PROVE SoloOK(o)'
  <2>1. late = {} /\ (Insert(o) => wasOn[o] /\ prior[o] = "on" /\ power = "on")
    BY <1>1, <1>8, Here DEF SoloOK, LateOK, InsertOK
  <2>2. UNCHANGED <<wasOn, prior, kind>>
    BY <1>1 DEF Quiet
  <2>3. CASE AfterPowerOff(o) /\ power' = "off" /\ late' = {}
    <3>1. (pc'[o] = "tray" /\ Insert(o)) \/ (pc'[o] = "detach" /\ Eject(o))
      BY <1>1, <1>6, <2>3, AfterPowerOffMoves
    <3> QED
      BY <2>1, <2>2, <2>3, <3>1 DEF SoloOK, LateOK, InsertOK, EjectOK, PowerKept, Insert, Eject
  <2>4. CASE power = "on" /\ Fails(o, Shutdown) /\ Goto(o, "hard")
    <3>1. pc'[o] = "hard"
      BY <2>4, Here, GotoShape DEF Labels
    <3>2. late' \subseteq {<<o, Shutdown>>} /\ (late' # {} => power' = "on")
      BY <2>1, <2>4, PendingLess DEF Fails, vm
    <3> QED
      BY <2>1, <2>2, <3>1, <3>2 DEF SoloOK, LateOK, InsertOK, EjectOK, Insert, Eject
  <2>5. CASE power = "on" /\ Succeeds(o, Shutdown) /\ AfterPowerOff(o)
    BY <1>3, <2>1, <2>3, <2>5, OffIs DEF Succeeds
  <2>6. CASE power = "off" /\ AfterPowerOff(o) /\ UNCHANGED <<power, cd, boot, guest, late>>
    BY <2>1, <2>3, <2>6
  <2> QED
    BY <1>2, <2>4, <2>5, <2>6
<1> QED
  BY <1>5, <1>7, <1>8 DEF Progress

\* A VM powered off hard ends the shutdown that was left.
LEMMA HardOffProgress == ASSUME IInv, VMediaAssumption, NEW o \in Ops, HardOff(o) PROVE Progress(o)
<1> DEFINE off == [task |-> "powerOff"]
<1>1. pc[o] = "hard" /\ UNCHANGED <<wasOn, snap, tries>> /\ Quiet
  BY DEF HardOff
<1>2. \/ power = "off" /\ AfterPowerOff(o) /\ UNCHANGED <<power, cd, boot, guest, late>>
      \/ Succeeds(o, off) /\ AfterPowerOff(o)
      \/ Fails(o, off) /\ Return(o, "err")
      \/ Return(o, "err") /\ UNCHANGED <<power, cd, boot, guest, late>>
  BY DEF HardOff
<1>3. off \in Task /\ off.task = "powerOff"
  BY DEF Task, PowerTask
<1> HIDE DEF off
<1>4. VMTyped' /\ LateTyped'
  BY <1>2, <1>3, Here, VMStays, CallTypes DEF VMediaAssumption
<1>5. TypeOK' /\ LateInv' /\ OnlyMoves(o)
  <2>1. Active(o) /\ Moves(o, {"tray", "detach", "powerOn"})
    BY <1>1, <1>2, AfterPowerOffMoves DEF Active, Moves
  <2>2. {"tray", "detach", "powerOn"} \in SUBSET (Labels \ {"idle"})
    BY DEF Labels
  <2>3. UNCHANGED <<kind, image, prior, alone>> /\ media' \in Images \cup {NoImage}
    BY <1>1, Here DEF Quiet, Control
  <2> QED
    BY <1>1, <1>4, <2>1, <2>2, <2>3, StepShape
<1>6. \/ (pc'[o] = "tray" /\ Insert(o)) \/ (pc'[o] = "detach" /\ Eject(o))
      \/ (pc'[o] = "powerOn" /\ kind[o] = "restart") \/ pc'[o] = "done"
  BY <1>1, <1>2, AfterPowerOffMoves, Here, ReturnShape
<1>7. LabelOK(o)'
  BY <1>1, <1>6, Here DEF LabelOK, Insert, Eject, Quiet
<1>8. ASSUME Solo(o), pc'[o] # "done" PROVE SoloOK(o)'
  <2>1. /\ late \subseteq {<<o, Shutdown>>} /\ (late # {} => power = "on")
        /\ Insert(o) => wasOn[o] /\ prior[o] = "on"
    BY <1>1, <1>8, Here DEF SoloOK, LateOK, InsertOK
  <2>2. UNCHANGED <<wasOn, prior, kind>>
    BY <1>1 DEF Quiet
  <2>3. power' = "off" /\ late' = {}
    <3>1. CASE Succeeds(o, off)
      <4>1. late' \subseteq late /\ (\A l \in late' : l[2] # Shutdown) /\ power' = "off"
        BY <1>3, <3>1, OffIs DEF Succeeds
      <4> QED
        BY <2>1, <4>1
    <3>2. CASE power = "off" /\ UNCHANGED <<power, cd, boot, guest, late>>
      BY <2>1, <3>2
    <3>3. ~Return(o, "err")
      BY <1>8, Here, ReturnShape
    <3> QED
      BY <1>2, <3>1, <3>2, <3>3
  <2> QED
    BY <1>6, <1>8, <2>1, <2>2, <2>3 DEF SoloOK, LateOK, InsertOK, EjectOK, PowerKept, Insert, Eject
<1> QED
  BY <1>5, <1>7, <1>8 DEF Progress

\* The fields of a CD-ROM.
LEMMA Fields ==
  ASSUME NEW d, NEW f, NEW c \in BOOLEAN, NEW s \in BOOLEAN,
         d = [file |-> f, connected |-> c, start |-> s]
  PROVE  d.file = f /\ d.connected = c /\ d.start = s
<1>1. d.file = f
  OBVIOUS
<1>2. d.connected = c
  OBVIOUS
<1>3. d.start = s
  OBVIOUS
<1> QED
  BY <1>1, <1>2, <1>3

\* What an edit of the CD-ROM leaves.
LEMMA EditIs ==
  ASSUME VMTyped, NEW file \in Images \cup {NoImage}, NEW connect \in BOOLEAN,
         Done([task |-> "edit", file |-> file, connect |-> connect])
  PROVE  /\ UNCHANGED <<power, boot, guest>>
         /\ cd'.start = connect
         /\ cd'.connected => connect
         /\ ~cd.connected => cd'.file = file
<1>1. Edited(file, connect)
  BY DoneIs
<1>2. PICK c \in IF power = "on" THEN {connect} ELSE {connect, FALSE} :
        cd' = [file |-> IF cd.connected THEN cd.file ELSE file, connected |-> c, start |-> connect]
  BY <1>1 DEF Edited
<1>3. c \in BOOLEAN /\ (c = connect \/ c = FALSE)
  OBVIOUS
<1>4. /\ cd'.file = IF cd.connected THEN cd.file ELSE file
      /\ cd'.connected = c /\ cd'.start = connect
  BY <1>2, <1>3, Fields
<1>5. ~cd.connected => cd'.file = file
  BY <1>4
<1> QED
  BY <1>1, <1>3, <1>4, <1>5 DEF Edited

\* Each edit of the CD-ROM is a task.
LEMMA EditIsTask ==
  ASSUME NEW file \in Images \cup {NoImage}, NEW connect \in BOOLEAN
  PROVE  [task |-> "edit", file |-> file, connect |-> connect] \in Task
BY DEF Task, EditTask

\* A tray disconnected, or a VM to be powered off for it, once.
LEMMA DropProgress == ASSUME IInv, VMediaAssumption, NEW o \in Ops, Drop(o) PROVE Progress(o)
<1> DEFINE edit == [task |-> "edit", file |-> snap[o], connect |-> FALSE]
<1>1. /\ pc[o] = "drop" /\ tries' = [tries EXCEPT ![o] = @ + 1]
      /\ UNCHANGED snap /\ Quiet
  BY DEF Drop
<1>2. \/ Succeeds(o, edit) /\ Goto(o, "attach") /\ UNCHANGED wasOn
      \/ /\ MayBeLocked /\ tries[o] = 0
         /\ wasOn' = [wasOn EXCEPT ![o] = TRUE]
         /\ Goto(o, "soft")
         /\ UNCHANGED <<power, cd, boot, guest, late>>
      \/ Fails(o, edit) /\ Return(o, "err") /\ UNCHANGED wasOn
  BY DEF Drop, DropEdit
<1>3. snap[o] \in Images \cup {NoImage}
  BY Here DEF Control
<1>4. edit \in Task
  BY <1>3, EditIsTask
<1>5. VMTyped' /\ LateTyped'
  <2> HIDE DEF edit
  <2> QED
    BY <1>2, <1>4, Here, VMStays, CallTypes DEF VMediaAssumption
<1>6. Insert(o) /\ tries[o] <= 1 /\ tries[o] \in Nat /\ image[o] \in Images
  BY <1>1, Here DEF LabelOK
<1>7. TypeOK' /\ LateInv' /\ OnlyMoves(o)
  <2>1. Active(o) /\ Moves(o, {"attach", "soft"})
    BY <1>1, <1>2 DEF Active, Moves
  <2>2. {"attach", "soft"} \in SUBSET (Labels \ {"idle"})
    BY DEF Labels
  <2>3. UNCHANGED <<kind, image, prior, alone>> /\ media' \in Images \cup {NoImage}
    BY <1>1, Here DEF Quiet, Control
  <2> QED
    <3>1. wasOn' = wasOn \/ \E b \in BOOLEAN : wasOn' = [wasOn EXCEPT ![o] = b]
      BY <1>2
    <3>2. tries[o] <= 2
      BY <1>6
    <3> QED
      BY <1>1, <1>5, <2>1, <2>2, <2>3, <3>1, <3>2, StepShape
<1>8. \/ Succeeds(o, edit) /\ pc'[o] = "attach" /\ UNCHANGED wasOn
      \/ /\ power = "on" /\ tries'[o] = 1 /\ wasOn'[o] /\ pc'[o] = "soft"
         /\ UNCHANGED <<power, cd, boot, guest, late>>
      \/ pc'[o] = "done"
  <2>1. tries[o] = 0 => tries'[o] = 1
    BY <1>1, Here
  <2> QED
    BY <1>2, <2>1, Here, GotoShape, ReturnShape DEF Labels, MayBeLocked, Control
<1>9. LabelOK(o)'
  BY <1>1, <1>6, <1>8 DEF LabelOK, Insert, Eject, Quiet
<1>10. ASSUME Solo(o), pc'[o] # "done" PROVE SoloOK(o)'
  <2>1. late = {} /\ PowerKept(o)
    BY <1>1, <1>6, <1>10, Here DEF SoloOK, LateOK, InsertOK
  <2>2. UNCHANGED <<prior, kind, image>>
    BY <1>1 DEF Quiet
  <2>3. CASE Succeeds(o, edit) /\ pc'[o] = "attach" /\ UNCHANGED wasOn
    <3>1. ~cd'.connected /\ power' = power
      BY <1>3, <2>3, Here, EditIs DEF Succeeds
    <3>2. late' = {}
      BY <2>1, <2>3, PendingLess DEF Succeeds
    <3> QED
      BY <1>6, <2>1, <2>2, <2>3, <3>1, <3>2 DEF SoloOK, LateOK, InsertOK, PowerKept, Insert, Eject
  <2>4. CASE /\ power = "on" /\ wasOn'[o] /\ pc'[o] = "soft"
             /\ UNCHANGED <<power, cd, boot, guest, late>>
    BY <1>6, <2>1, <2>2, <2>4 DEF SoloOK, LateOK, InsertOK, PowerKept, Insert, Eject
  <2> QED
    BY <1>8, <1>10, <2>3, <2>4
<1> QED
  BY <1>7, <1>9, <1>10 DEF Progress

\* The backing of a disconnected CD-ROM is replaced.
LEMMA AttachProgress == ASSUME IInv, VMediaAssumption, NEW o \in Ops, Attach(o) PROVE Progress(o)
<1> DEFINE edit == [task |-> "edit", file |-> image[o], connect |-> TRUE]
<1>1. pc[o] = "attach" /\ UNCHANGED <<wasOn, snap, tries>> /\ Quiet
  BY DEF Attach
<1>2. \/ Succeeds(o, edit) /\ Goto(o, "boot")
      \/ Fails(o, edit) /\ Return(o, "err")
  BY DEF Attach, AttachEdit
<1>3. Insert(o) /\ image[o] \in Images \cup {NoImage}
  BY <1>1, Here DEF LabelOK
<1>4. edit \in Task
  BY <1>3, EditIsTask
<1>5. VMTyped' /\ LateTyped'
  <2> HIDE DEF edit
  <2> QED
    BY <1>2, <1>4, Here, CallTypes DEF VMediaAssumption
<1>6. TypeOK' /\ LateInv' /\ OnlyMoves(o)
  <2>1. Active(o) /\ Moves(o, {"boot"})
    BY <1>1, <1>2 DEF Active, Moves
  <2>2. {"boot"} \in SUBSET (Labels \ {"idle"})
    BY DEF Labels
  <2>3. UNCHANGED <<kind, image, prior, alone>> /\ media' \in Images \cup {NoImage}
    BY <1>1, Here DEF Quiet, Control
  <2> QED
    BY <1>1, <1>5, <2>1, <2>2, <2>3, StepShape
<1>7. (Succeeds(o, edit) /\ pc'[o] = "boot") \/ pc'[o] = "done"
  BY <1>2, Here, GotoShape, ReturnShape DEF Labels
<1>8. LabelOK(o)'
  BY <1>1, <1>3, <1>7, Here DEF LabelOK, Insert, Eject, Quiet
<1>9. ASSUME Solo(o), pc'[o] # "done" PROVE SoloOK(o)'
  <2>1. late = {} /\ PowerKept(o) /\ ~cd.connected
    BY <1>1, <1>3, <1>9, Here DEF SoloOK, LateOK, InsertOK
  <2>2. UNCHANGED <<prior, kind, image, wasOn>>
    BY <1>1 DEF Quiet
  <2>3. cd'.file = image[o] /\ cd'.start /\ power' = power /\ late' = {}
    BY <1>3, <1>7, <1>9, <2>1, Here, EditIs, PendingLess DEF Succeeds
  <2> QED
    BY <1>3, <1>7, <1>9, <2>1, <2>2, <2>3 DEF SoloOK, LateOK, InsertOK, PowerKept, Insert, Eject
<1> QED
  BY <1>6, <1>8, <1>9 DEF Progress

\* The CD-ROM is emptied, or tried again, at most twice.
LEMMA DetachProgress == ASSUME IInv, VMediaAssumption, NEW o \in Ops, Detach(o) PROVE Progress(o)
<1> DEFINE edit == [task |-> "edit", file |-> NoImage, connect |-> FALSE]
<1>1. /\ pc[o] = "detach" /\ tries' = [tries EXCEPT ![o] = @ + 1]
      /\ UNCHANGED <<wasOn, snap>> /\ Quiet
  BY DEF Detach
<1>2. \/ Succeeds(o, edit) /\ Goto(o, "boot")
      \/ /\ tries[o] < 2
         /\ Goto(o, IF tries[o] = 0 THEN "detach" ELSE "soft")
         /\ UNCHANGED <<power, cd, boot, guest, late>>
      \/ Fails(o, edit) /\ Return(o, "err")
  BY DEF Detach, DetachEdit
<1>3. edit \in Task
  BY EditIsTask
<1>4. VMTyped' /\ LateTyped'
  <2> HIDE DEF edit
  <2> QED
    BY <1>2, <1>3, Here, VMStays, CallTypes DEF VMediaAssumption
<1>5. Eject(o) /\ tries[o] <= 2 /\ tries[o] \in Nat
  BY <1>1, Here DEF LabelOK
<1>6. TypeOK' /\ LateInv' /\ OnlyMoves(o)
  <2>1. Active(o) /\ Moves(o, {"boot", "detach", "soft"})
    BY <1>1, <1>2 DEF Active, Moves
  <2>2. {"boot", "detach", "soft"} \in SUBSET (Labels \ {"idle"})
    BY DEF Labels
  <2>3. UNCHANGED <<kind, image, prior, alone>> /\ media' \in Images \cup {NoImage}
    BY <1>1, Here DEF Quiet, Control
  <2> QED
    BY <1>1, <1>4, <1>5, <2>1, <2>2, <2>3, StepShape
<1>7. \/ Succeeds(o, edit) /\ pc'[o] = "boot"
      \/ /\ tries'[o] <= 2 /\ pc'[o] \in {"detach", "soft"}
         /\ UNCHANGED <<power, cd, boot, guest, late>>
      \/ pc'[o] = "done"
  <2>1. tries[o] < 2 => tries'[o] <= 2
    BY <1>1, <1>5, Here
  <2> QED
    BY <1>2, <2>1, Here, GotoShape, ReturnShape DEF Labels
<1>8. LabelOK(o)'
  BY <1>1, <1>5, <1>7 DEF LabelOK, Insert, Eject, Quiet
<1>9. ASSUME Solo(o), pc'[o] # "done" PROVE SoloOK(o)'
  <2>1. late = {}
    BY <1>1, <1>9, Here DEF SoloOK, LateOK
  <2>2. UNCHANGED kind
    BY <1>1 DEF Quiet
  <2>3. late' = {} /\ (pc'[o] = "boot" => ~cd'.connected /\ ~cd'.start)
    BY <1>7, <1>9, <2>1, Here, EditIs, PendingLess DEF Succeeds
  <2> QED
    BY <1>5, <1>7, <1>9, <2>2, <2>3 DEF SoloOK, LateOK, EjectOK, Insert, Eject
<1> QED
  BY <1>6, <1>8, <1>9 DEF Progress

\* The boot order, before the power or the record.
LEMMA SetBootProgress == ASSUME IInv, VMediaAssumption, NEW o \in Ops, SetBoot(o) PROVE Progress(o)
<1>1. pc[o] = "boot" /\ UNCHANGED <<wasOn, snap, tries>> /\ Quiet
  BY DEF SetBoot
<1>2. kind[o] \in {"insert", "eject", "bootCD", "bootDisk"}
  BY <1>1, Here DEF LabelOK
<1>3. BootTaskOf(o) \in Task /\ BootTaskOf(o).task = "boot"
      /\ BootTaskOf(o).first = IF kind[o] \in {"insert", "bootCD"} THEN "cd" ELSE "disk"
  BY DEF BootTaskOf, Task, BootTask
<1>4. Succeeds(o, BootTaskOf(o)) \/ Fails(o, BootTaskOf(o))
  BY SetBootIs
<1>5. VMTyped' /\ LateTyped'
  BY <1>3, <1>4, Here, CallTypes DEF VMediaAssumption
<1>6. TypeOK' /\ LateInv' /\ OnlyMoves(o)
  <2>1. Active(o) /\ Moves(o, {"powerOn", "record", "clear"})
    BY <1>1, <1>2, SetBootIs DEF Active, Moves, Insert, Eject
  <2>2. {"powerOn", "record", "clear"} \in SUBSET (Labels \ {"idle"})
    BY DEF Labels
  <2>3. UNCHANGED <<kind, image, prior, alone>> /\ media' \in Images \cup {NoImage}
    BY <1>1, Here DEF Quiet, Control
  <2> QED
    BY <1>1, <1>5, <2>1, <2>2, <2>3, StepShape
<1>7. \/ pc'[o] = "done"
      \/ /\ Succeeds(o, BootTaskOf(o))
         /\ \/ Insert(o) /\ pc'[o] = IF wasOn[o] THEN "powerOn" ELSE "record"
            \/ Eject(o) /\ pc'[o] = "clear"
  BY <1>2, SetBootIs, Here, GotoShape, ReturnShape DEF Labels, Insert, Eject
<1>8. LabelOK(o)'
  BY <1>1, <1>7, Here DEF LabelOK, Insert, Eject, Quiet
<1>9. ASSUME Solo(o), pc'[o] # "done" PROVE SoloOK(o)'
  <2>1. /\ late = {}
        /\ Insert(o) => PowerKept(o) /\ cd.file = image[o] /\ cd.start
        /\ Eject(o) => ~cd.connected /\ ~cd.start
    BY <1>1, <1>9, Here DEF SoloOK, LateOK, InsertOK, EjectOK
  <2>2. UNCHANGED <<prior, kind, image, wasOn>>
    BY <1>1 DEF Quiet
  <2>3. /\ late' = {} /\ UNCHANGED <<power, cd, guest>>
        /\ boot' = IF kind[o] \in {"insert", "bootCD"} THEN "cd" ELSE "disk"
    BY <1>3, <1>7, <1>9, <2>1, DoneIs, PendingLess DEF Succeeds
  <2> QED
    BY <1>7, <1>9, <2>1, <2>2, <2>3 DEF SoloOK, LateOK, InsertOK, EjectOK, PowerKept, Insert, Eject
<1> QED
  BY <1>6, <1>8, <1>9 DEF Progress

\* The VM that was powered off boots from the image.
LEMMA PowerOnProgress == ASSUME IInv, VMediaAssumption, NEW o \in Ops, PowerOn(o) PROVE Progress(o)
<1> DEFINE on == [task |-> "powerOn"]
<1>1. pc[o] = "powerOn" /\ UNCHANGED <<wasOn, snap, tries>> /\ Quiet
  BY DEF PowerOn
<1>2. \/ Succeeds(o, on) /\ (IF kind[o] = "insert" THEN Goto(o, "record") ELSE Return(o, "ok"))
      \/ Fails(o, on) /\ Return(o, "err")
      \/ Return(o, "err") /\ UNCHANGED <<power, cd, boot, guest, late>>
  BY DEF PowerOn
<1>3. on \in Task /\ on.task = "powerOn"
  BY DEF Task, PowerTask
<1> HIDE DEF on
<1>4. VMTyped' /\ LateTyped'
  BY <1>2, <1>3, Here, VMStays, CallTypes DEF VMediaAssumption
<1>5. TypeOK' /\ LateInv' /\ OnlyMoves(o)
  <2>1. Active(o) /\ Moves(o, {"record"})
    BY <1>1, <1>2 DEF Active, Moves
  <2>2. {"record"} \in SUBSET (Labels \ {"idle"})
    BY DEF Labels
  <2>3. UNCHANGED <<kind, image, prior, alone>> /\ media' \in Images \cup {NoImage}
    BY <1>1, Here DEF Quiet, Control
  <2> QED
    BY <1>1, <1>4, <2>1, <2>2, <2>3, StepShape
<1>6. (Succeeds(o, on) /\ Insert(o) /\ pc'[o] = "record") \/ pc'[o] = "done"
  BY <1>2, Here, GotoShape, ReturnShape DEF Labels, Insert
<1>7. LabelOK(o)'
  BY <1>1, <1>6, Here DEF LabelOK, Insert, Eject, Quiet
<1>8. ASSUME Solo(o), pc'[o] # "done" PROVE SoloOK(o)'
  <2>1. /\ late = {} /\ cd.file = image[o] /\ cd.start /\ image[o] \in Images
        /\ wasOn[o] /\ boot = "cd" /\ power = "off" /\ prior[o] = "on"
    BY <1>1, <1>6, <1>8, Here DEF SoloOK, LateOK, InsertOK, LabelOK
  <2>2. UNCHANGED <<prior, kind, image, wasOn>>
    BY <1>1 DEF Quiet
  <2>3. late' = {} /\ PoweredOn
    BY <1>3, <1>6, <1>8, <2>1, DoneIs, PendingLess DEF Succeeds
  <2>4. BootsFrom = image[o]
    BY <2>1 DEF BootsFrom, VMediaAssumption
  <2>5. power' = "on" /\ guest' = image[o] /\ cd' = [cd EXCEPT !.connected = cd.start]
    BY <2>1, <2>3, <2>4 DEF PoweredOn
  <2>6. cd'.file = image[o] /\ cd'.start
    BY <2>1, <2>5, Here DEF VMTyped, CDRom
  <2> QED
    BY <1>6, <1>8, <2>1, <2>2, <2>3, <2>5, <2>6 DEF SoloOK, LateOK, InsertOK, Insert, Eject
<1> QED
  BY <1>5, <1>7, <1>8 DEF Progress

\* A request that begins is alone if nobody else is under way, and from now on
\* nobody else is.
LEMMA BeginKeeps == ASSUME IInv, VMediaAssumption, NEW o \in Ops, Begin(o) PROVE IInv'
<1>1. /\ pc[o] = "idle"
      /\ prior' = [prior EXCEPT ![o] = power]
      /\ alone' = [z \in Ops |-> IF Active(z) THEN FALSE
                                 ELSE IF z = o THEN late = {} /\ ~\E y \in Ops : Active(y)
                                 ELSE alone[z]]
      /\ UNCHANGED <<power, cd, boot, guest, late, media, wasOn, snap, tries>>
  BY DEF Begin
<1>2. PICK k \in Requests[o] :
        /\ kind' = [kind EXCEPT ![o] = k]
        /\ \E i \in IF k = "insert" THEN Sources[o] ELSE {NoImage} :
             image' = [image EXCEPT ![o] = i]
        /\ Goto(o, FirstLabel[k]) \/ Return(o, "err")
  BY DEF Begin
<1>3. PICK i \in IF k = "insert" THEN Sources[o] ELSE {NoImage} : image' = [image EXCEPT ![o] = i]
  BY <1>2
<1>4. k \in Kinds /\ i \in Images \cup {NoImage} /\ (k = "insert" => i \in Images)
  BY <1>2, <1>3 DEF VMediaAssumption
<1>5. FirstLabel[k] \in Labels
  BY <1>4 DEF FirstLabel, Kinds, Labels
<1>6. VMTyped' /\ LateTyped'
  BY <1>1, VMStays
<1>7. /\ pc' \in [Ops -> Labels] /\ result' \in [Ops -> {"none", "ok", "err"}]
      /\ pc'[o] \in {FirstLabel[k], "done"}
      /\ pc'[o] # "done" => result'[o] = result[o]
      /\ \A y \in Ops \ {o} : pc'[y] = pc[y] /\ result'[y] = result[y]
  BY <1>2, <1>5, Here, GotoShape, ReturnShape DEF Control
<1>8. TypeOK' /\ LateInv'
  <2>1. /\ kind' \in [Ops -> Kinds \cup {"none"}]
        /\ image' \in [Ops -> Images \cup {NoImage}]
        /\ prior' \in [Ops -> {"on", "off"}]
    BY <1>1, <1>2, <1>3, <1>4, Here DEF Control, VMTyped
  <2>2. alone' \in [Ops -> BOOLEAN]
    BY <1>1, Here DEF Control
  <2> QED
    BY <1>1, <1>6, <1>7, <2>1, <2>2, Here DEF TypeOK, LateInv, VMTyped, LateTyped, Control
<1>9. kind'[o] = k /\ image'[o] = i /\ prior'[o] = power
      /\ (alone'[o] => late = {} /\ \A y \in Ops : ~Active(y))
  <2>1. ~Active(o)
    BY <1>1 DEF Active
  <2> QED
    BY <1>1, <1>2, <1>3, <2>1, Here DEF Control
<1>10. LabelOK(o)'
  BY <1>1, <1>4, <1>7, <1>9, Here DEF LabelOK, Insert, Eject, FirstLabel, Kinds
<1>11. Solo(o)' => SoloOK(o)'
  BY <1>1, <1>4, <1>7, <1>9 DEF Solo, Active, SoloOK, LateOK, InsertOK, EjectOK, Insert, Eject,
     FirstLabel, Kinds
<1>12. ASSUME NEW y \in Ops, y # o PROVE LabelOK(y)' /\ ~Solo(y)'
  <2>1. pc'[y] = pc[y] /\ kind'[y] = kind[y] /\ image'[y] = image[y]
    BY <1>2, <1>3, <1>7, <1>12, Here DEF Control
  <2>2. Active(y) => ~alone'[y]
    BY <1>1
  <2>3. LabelOK(y)
    BY Here
  <2> QED
    BY <1>1, <2>1, <2>2, <2>3 DEF LabelOK, Solo, Active, Insert, Eject
<1>13. Solo(o)' => \A y \in Ops \ {o} : ~Active(y)'
  BY <1>7, <1>9 DEF Solo, Active
<1>14. LabelInv' /\ SoloInv'
  BY <1>10, <1>11, <1>12 DEF LabelInv, SoloInv
<1>15. AloneInv'
  BY <1>12, <1>13 DEF AloneInv
<1>16. ResultInv'
  BY <1>1, <1>7, Here DEF ResultInv
<1> QED
  BY <1>8, <1>14, <1>15, <1>16 DEF IInv

\* A late task leaves no request the VM to itself but the one it belongs to, which
\* is about to power the VM off anyway.
LEMMA LateKeeps == ASSUME IInv, VMediaAssumption, Late PROVE IInv'
<1>1. PICK l \in late :
        /\ Done(l[2])
        /\ late' = Pending \ {l}
        /\ alone' = [o \in Ops |-> IF o = l[1] THEN alone[o] ELSE FALSE]
        /\ UNCHANGED <<media, kind, image, pc, result, wasOn, snap, tries, prior>>
  BY DEF Late
<1>2. TypeOK /\ LateInv /\ VMTyped /\ LateTyped /\ Control
  BY ControlParts DEF IInv
<1>3. l[2] \in Task
  BY <1>2 DEF LateTyped
<1>4. VMTyped' /\ LateTyped'
  <2>1. late' \subseteq late
    BY <1>1, PendingLess
  <2>2. VMTyped'
    BY <1>1, <1>2, <1>3, DoneTypes
  <2>3. LateTyped'
    BY <1>2, <2>1, FewerLate DEF VMediaAssumption
  <2> QED
    BY <2>2, <2>3
<1>5. alone' \in [Ops -> BOOLEAN] /\ \A o \in Ops : alone'[o] => alone[o] /\ o = l[1]
  BY <1>1, <1>2 DEF Control
<1>6. TypeOK' /\ LateInv'
  BY <1>1, <1>2, <1>4, <1>5 DEF TypeOK, LateInv, VMTyped, LateTyped, Control
<1>7. LabelInv'
  BY <1>1 DEF IInv, LabelInv, LabelOK, Insert, Eject
<1>8. ASSUME NEW o \in Ops, Solo(o)' PROVE Solo(o) /\ SoloOK(o)'
  <2>1. Solo(o)
    BY <1>1, <1>5, <1>8 DEF Solo, Active
  <2>2. SoloOK(o)
    BY <2>1 DEF IInv, SoloInv
  <2>3. l = <<o, Shutdown>> /\ pc[o] = "hard" /\ late \subseteq {<<o, Shutdown>>}
    BY <2>2 DEF SoloOK, LateOK
  <2>4. late' = {}
    BY <1>1, <2>3, PendingLess
  <2>5. pc'[o] = "hard" /\ UNCHANGED <<kind, wasOn, prior>>
    BY <1>1, <2>3
  <2> QED
    BY <2>1, <2>2, <2>3, <2>4, <2>5 DEF SoloOK, LateOK, InsertOK, EjectOK, Insert, Eject
<1>9. SoloInv' /\ AloneInv'
  BY <1>1, <1>8 DEF IInv, SoloInv, AloneInv, Active
<1>10. ResultInv'
  BY <1>1 DEF IInv, ResultInv
<1> QED
  BY <1>6, <1>7, <1>9, <1>10 DEF IInv

-----------------------------------------------------------------------------
(***************************************************************************)
(* The theorems.                                                           *)
(***************************************************************************)
\* The initial states satisfy IInv.
LEMMA InitIInv == VMediaAssumption /\ Init => IInv
<1> SUFFICES ASSUME VMediaAssumption, Init PROVE IInv
  OBVIOUS
<1>1. IsFiniteSet(late) /\ Cardinality(late) = 0 /\ late = {}
  BY FS_EmptySet DEF Init
<1>2. VMTyped /\ LateTyped
  BY <1>1 DEF Init, VMTyped, LateTyped, CDRom, VMediaAssumption
<1>3. /\ pc = [o \in Ops |-> "idle"] /\ kind = [o \in Ops |-> "none"]
      /\ wasOn = [o \in Ops |-> FALSE] /\ tries = [o \in Ops |-> 0]
  BY DEF Init
<1>4. TypeOK /\ LateInv
  BY <1>1, <1>2 DEF Init, TypeOK, LateInv, VMTyped, LateTyped, Labels
<1>5. ResultInv /\ LabelInv /\ AloneInv /\ SoloInv
  BY <1>3 DEF Init, ResultInv, LabelInv, LabelOK, AloneInv, SoloInv, Solo, Active, Insert, Eject
<1> QED
  BY <1>4, <1>5 DEF IInv

\* Every step of a request makes progress.
LEMMA StepProgress == ASSUME IInv, VMediaAssumption, NEW o \in Ops, Step(o) PROVE Progress(o)
BY StageProgress, LookProgress, ReadPowerProgress, SoftOffProgress, HardOffProgress,
   ReadTrayProgress, DropProgress, AttachProgress, DetachProgress, SetBootProgress,
   PowerOnProgress, RecordProgress, ClearProgress DEF Step

\* IInv is inductive.
LEMMA NextIInv == VMediaAssumption /\ IInv /\ [Next]_vars => IInv'
<1> SUFFICES ASSUME VMediaAssumption, IInv, [Next]_vars PROVE IInv'
  OBVIOUS
<1>1. CASE \E o \in Ops : Begin(o) \/ Step(o)
  BY <1>1, BeginKeeps, StepProgress, ProgressKeeps
<1>2. CASE Late
  BY <1>2, LateKeeps
<1>3. CASE AllReturned \/ UNCHANGED vars
  <2>1. UNCHANGED vars
    BY <1>3 DEF AllReturned
  <2> QED
    BY <2>1 DEF vars, IInv, TypeOK, LateInv, ResultInv, LabelInv, LabelOK, AloneInv, SoloInv,
       SoloOK, Solo, Active,
       LateOK, InsertOK, EjectOK, PowerKept, Insert, Eject
<1> QED
  BY <1>1, <1>2, <1>3 DEF Next

\* IInv is an invariant.
LEMMA AlwaysIInv == Spec => []IInv
BY InitIInv, NextIInv, VMediaAssumption, PTL DEF Spec

\* The VM, the tasks under way and all that a request has read keep their types: no
\* request tries more often than its handler allows to free a CD-ROM.
THEOREM TypeCorrect == Spec => []TypeOK
<1>1. IInv => TypeOK
  BY DEF IInv
<1> QED
  BY <1>1, AlwaysIInv, PTL

\* Where a request can report success.
LEMMA ErrIsNotOk == ASSUME IInv, NEW o \in Ops, Return(o, "err") PROVE result'[o] = "err"
BY Here, ReturnShape

\* A request that goes on is not over.
LEMMA GotoIsNotDone ==
  ASSUME IInv, NEW o \in Ops, NEW label \in Labels \ {"done"}, Goto(o, label)
  PROVE  pc'[o] # "done"
BY Here, GotoShape

\* A step of somebody else ends no request.
LEMMA OnlyItsOwnSteps ==
  ASSUME IInv, VMediaAssumption, NEW o \in Ops, NEW y \in Ops, Begin(y) \/ Step(y), Succeeded(o)
  PROVE  y = o
<1>1. pc' = [pc EXCEPT ![y] = pc'[y]]
  <2>1. Control
    BY Here
  <2>2. ASSUME NEW label, Goto(y, label) PROVE pc' = [pc EXCEPT ![y] = pc'[y]]
    BY <2>1, <2>2 DEF Goto, Control
  <2>3. ASSUME NEW res, Return(y, res) PROVE pc' = [pc EXCEPT ![y] = pc'[y]]
    BY <2>1, <2>3 DEF Return, Control
  <2>4. (\E label : Goto(y, label)) \/ (\E res : Return(y, res))
    <3>1. CASE Begin(y)
      BY <3>1 DEF Begin
    <3>2. CASE Stage(y) \/ Look(y) \/ ReadPower(y) \/ ReadTray(y) \/ Record(y) \/ Clear(y)
      BY <3>2 DEF Stage, Look, ReadPower, ReadTray, Record, Clear
    <3>3. CASE SoftOff(y) \/ HardOff(y)
      <4>1. pc[y] \in {"soft", "hard"} /\ (AfterPowerOff(y) \/ Goto(y, "hard") \/ Return(y, "err"))
        BY <3>3 DEF SoftOff, HardOff
      <4>2. AfterPowerOff(y) => Moves(y, {"tray", "detach", "powerOn"})
        BY <4>1, AfterPowerOffMoves
      <4> QED
        BY <4>1, <4>2 DEF Moves
    <3>4. CASE Drop(y) \/ Attach(y) \/ Detach(y) \/ PowerOn(y)
      BY <3>4 DEF Drop, Attach, Detach, PowerOn
    <3>5. CASE SetBoot(y)
      <4>1. kind[y] \in {"insert", "eject", "bootCD", "bootDisk"}
        BY <3>5, Here DEF SetBoot, LabelOK
      <4> QED
        BY <3>5, <4>1, SetBootIs DEF Insert, Eject
    <3> QED
      BY <3>1, <3>2, <3>3, <3>4, <3>5 DEF Step
  <2> QED
    BY <2>2, <2>3, <2>4
<1> QED
  BY <1>1, Here DEF Succeeded, Control

\* An insert reports success where it records the image; an eject where it forgets
\* it, or where it restores the power.
LEMMA SuccessIs ==
  ASSUME IInv, VMediaAssumption, NEW o \in Ops, Begin(o) \/ Step(o), Succeeded(o),
         Insert(o) \/ Eject(o)
  PROVE  \/ Insert(o) /\ Record(o)
         \/ Eject(o) /\ ((Clear(o) /\ ~wasOn[o]) \/ PowerOn(o))
<1>1. pc[o] # "done" /\ pc'[o] = "done" /\ result'[o] = "ok"
  BY DEF Succeeded
<1>2. ~Return(o, "err")
  BY <1>1, ErrIsNotOk
<1>3. \A label \in Labels \ {"done"} : ~Goto(o, label)
  BY <1>1, GotoIsNotDone
<1>4. ~Stage(o) /\ ~Look(o) /\ ~ReadPower(o) /\ ~ReadTray(o) /\ ~Drop(o) /\ ~Attach(o)
      /\ ~Detach(o)
  BY <1>2, <1>3 DEF Stage, Look, ReadPower, ReadTray, Drop, Attach, Detach, Labels
<1>5. ~Begin(o)
  <2>1. \A k \in Kinds : FirstLabel[k] \in Labels \ {"done"}
    BY DEF FirstLabel, Kinds, Labels
  <2>2. \A k \in Requests[o] : k \in Kinds
    BY DEF VMediaAssumption
  <2> QED
    BY <1>2, <1>3, <2>1, <2>2 DEF Begin
<1>6. ~SoftOff(o) /\ ~HardOff(o)
  <2>1. pc[o] \in {"soft", "hard"} => ~AfterPowerOff(o)
    BY <1>1, AfterPowerOffMoves
  <2> QED
    BY <1>2, <1>3, <2>1 DEF SoftOff, HardOff, Labels
<1>7. ~SetBoot(o)
  BY <1>2, <1>3, SetBootIs DEF Labels
<1>8. Insert(o) => ~PowerOn(o)
  BY <1>2, <1>3 DEF PowerOn, Labels, Insert
<1>9. (Clear(o) => Eject(o) /\ ~wasOn[o]) /\ (Record(o) => Insert(o))
  BY <1>3, Here DEF Clear, Record, LabelOK, Labels
<1>10. ~(Insert(o) /\ Eject(o))
  BY DEF Insert, Eject
<1> QED
  BY <1>4, <1>5, <1>6, <1>7, <1>8, <1>9, <1>10 DEF Step

\* Nor does a late task, or a stutter.
LEMMA OnlyStepsSucceed ==
  ASSUME IInv, VMediaAssumption, [Next]_vars, NEW o \in Ops, Succeeded(o)
  PROVE  Begin(o) \/ Step(o)
<1>1. pc' # pc
  BY DEF Succeeded
<1>2. ~Late /\ ~AllReturned /\ ~UNCHANGED vars
  BY <1>1 DEF Late, AllReturned, vars
<1>3. PICK y \in Ops : Begin(y) \/ Step(y)
  BY <1>2 DEF Next
<1> QED
  BY <1>3, OnlyItsOwnSteps

\* An InsertMedia that reports success with the VM to itself has replaced the CD,
\* recorded it and restored the power (SoloInsertDelivers), whatever the VM was doing,
\* whichever calls were locked out, and though its own shutdown may have come late.
THEOREM InsertDelivers == Spec => SoloInsertDelivers
<1> DEFINE Delivers(o) ==
      Succeeded(o) /\ alone[o] /\ kind[o] = "insert" =>
        /\ cd'.file = image[o]
        /\ cd'.connected \/ cd'.start
        /\ media' = image[o]
        /\ power' = prior[o]
        /\ wasOn[o] => guest' = image[o]
<1>1. ASSUME VMediaAssumption, IInv, [Next]_vars, NEW o \in Ops PROVE Delivers(o)
  <2> SUFFICES ASSUME Succeeded(o), alone[o], Insert(o)
               PROVE  /\ cd'.file = image[o]
                      /\ cd'.connected \/ cd'.start
                      /\ media' = image[o]
                      /\ power' = prior[o]
                      /\ wasOn[o] => guest' = image[o]
    BY DEF Insert
  <2>1. Record(o)
    BY <1>1, OnlyStepsSucceed, SuccessIs DEF Insert, Eject
  <2>2. SoloOK(o)
    BY <1>1, <2>1, Here DEF Record, Solo, Active
  <2> QED
    BY <2>1, <2>2 DEF Record, SoloOK, InsertOK
<1>2. VMediaAssumption /\ IInv /\ [Next]_vars => [\A o \in Ops : Delivers(o)]_vars
  BY <1>1
<1> QED
  BY <1>2, AlwaysIInv, VMediaAssumption, PTL DEF Spec, SoloInsertDelivers

\* An EjectMedia that reports success with the VM to itself undoes what the insert set
\* (SoloEjectUndoesInsert): the tray is neither connected nor connected at the next
\* start, the disk boots first, the record is gone, a VM seen running runs.  The tray
\* may keep the file behind it.
THEOREM EjectUndoes == Spec => SoloEjectUndoesInsert
<1> DEFINE Undoes(o) ==
      Succeeded(o) /\ alone[o] /\ kind[o] = "eject" =>
        /\ ~cd'.connected /\ ~cd'.start
        /\ boot' = "disk"
        /\ media' = NoImage
        /\ wasOn[o] => power' = "on"
<1>1. ASSUME VMediaAssumption, IInv, [Next]_vars, NEW o \in Ops PROVE Undoes(o)
  <2> SUFFICES ASSUME Succeeded(o), alone[o], Eject(o)
               PROVE  /\ ~cd'.connected /\ ~cd'.start
                      /\ boot' = "disk"
                      /\ media' = NoImage
                      /\ wasOn[o] => power' = "on"
    BY DEF Eject
  <2>1. (Clear(o) /\ ~wasOn[o]) \/ PowerOn(o)
    BY <1>1, OnlyStepsSucceed, SuccessIs DEF Insert, Eject
  <2>2. /\ ~cd.connected /\ ~cd.start /\ boot = "disk"
        /\ pc[o] = "powerOn" => media = NoImage
    BY <1>1, <2>1, Here DEF Clear, PowerOn, Solo, Active, SoloOK, EjectOK
  <2>3. CASE Clear(o) /\ ~wasOn[o]
    BY <2>2, <2>3 DEF Clear
  <2>4. CASE PowerOn(o)
    <3>1. pc[o] = "powerOn" /\ UNCHANGED media
      BY <2>4 DEF PowerOn, Quiet
    <3>2. Done([task |-> "powerOn"])
      <4>1. ~Return(o, "err")
        BY <1>1, ErrIsNotOk DEF Succeeded
      <4> QED
        BY <2>4, <4>1 DEF PowerOn, Succeeds
    <3>3. PoweredOn
      BY <3>2, DoneIs
    <3>4. /\ power' = "on" /\ boot' = boot
          /\ cd' = cd \/ cd' = [cd EXCEPT !.connected = cd.start]
      BY <3>3 DEF PoweredOn
    <3>5. ~cd'.connected /\ ~cd'.start
      BY <1>1, <2>2, <3>4, Here DEF VMTyped, CDRom
    <3> QED
      BY <2>2, <3>1, <3>4, <3>5
  <2> QED
    BY <2>1, <2>3, <2>4
<1>2. VMediaAssumption /\ IInv /\ [Next]_vars => [\A o \in Ops : Undoes(o)]_vars
  BY <1>1
<1> QED
  BY <1>2, AlwaysIInv, VMediaAssumption, PTL DEF Spec, SoloEjectUndoesInsert

-----------------------------------------------------------------------------
(***************************************************************************)
(* Overlapping retries of one insert.                                      *)
(***************************************************************************)
\* Every request so far inserts image i, and none has failed.
Retrying(i) ==
  \A o \in Ops : pc[o] = "idle" \/ (Insert(o) /\ image[o] = i /\ result[o] # "err")

\* A request that will attach its image, and one that will power the VM on.
Attaching(o) == pc[o] \in {"state", "soft", "hard", "tray", "drop", "attach"}
Restoring(o) ==
  wasOn[o] /\ pc[o] \in {"soft", "hard", "tray", "drop", "attach", "boot", "powerOn"}

Begun(o) == pc[o] # "idle"

\* What a retry knows of the VM, and of itself.
RetryOK(o, i) ==
  /\ pc[o] \in {"soft", "hard", "powerOn"} => wasOn[o]
  /\ wasOn[o] => \E y \in Ops : Begun(y) /\ prior[y] = "on"
  /\ pc[o] \in {"boot", "powerOn", "record", "done"} => cd.start \/ \E z \in Ops : Attaching(z)
  /\ pc[o] = "done" => media = i
  /\ Begun(o) /\ prior[o] = "on" => power = "on" \/ \E z \in Ops : Restoring(z)
  /\ Begun(o) /\ power = "on" => \E y \in Ops : Begun(y) /\ prior[y] = "on"

TrayOK(i) ==
  /\ cd.connected => cd.start
  /\ cd.start => cd.file = i

LateOffs == \A l \in late : l[2] = Shutdown /\ pc[l[1]] = "hard" /\ power = "on"

RetriesOK(i) == LateOffs /\ TrayOK(i) /\ \A o \in Ops : RetryOK(o, i)

\* While only retries of one insert run, and none has failed, the work that one of
\* them undoes is work that one of them still has ahead.
RetryInv ==
  \A i \in Images : Retrying(i) => RetriesOK(i)

\* What a step of a retry has to show.
RetryStep(o, i) ==
  /\ LateOffs' /\ TrayOK(i)'
  /\ pc'[o] \in {"soft", "hard", "powerOn"} => wasOn'[o]
  /\ wasOn'[o] => wasOn[o] \/ power = "on"
  /\ Attaching(o) \/ cd.start => cd'.start \/ Attaching(o)'
  /\ pc'[o] \in {"boot", "powerOn", "record", "done"} =>
       cd'.start \/ Attaching(o) \/ pc[o] \in {"boot", "powerOn", "record"}
  /\ media' \in {media, i} /\ (pc'[o] = "done" => media' = i)
  /\ power = "on" \/ Restoring(o) => power' = "on" \/ Restoring(o)'
  /\ power' = "on" => power = "on" \/ wasOn[o]

\* What such a step shows is enough for the other retries.
LEMMA RetryStepKeeps ==
  ASSUME NEW o \in Ops, OnlyMoves(o), NEW i, RetriesOK(i), RetryStep(o, i)
  PROVE  RetriesOK(i)'
<1>1. /\ Begun(o) /\ UNCHANGED prior
      /\ \A y \in Ops \ {o} : pc'[y] = pc[y] /\ wasOn'[y] = wasOn[y]
  BY DEF OnlyMoves, Active, Begun
<1>2. \A y \in Ops \ {o} : /\ Attaching(y)' = Attaching(y)
                           /\ Restoring(y)' = Restoring(y)
                           /\ Begun(y)' = Begun(y)
  BY <1>1 DEF Attaching, Restoring, Begun
<1>3. ASSUME NEW y \in Ops PROVE RetryOK(y, i)'
  <2>1. Begun(y)' => Begun(y)
    BY <1>1, <1>2
  <2>2. \A z \in Ops : Begun(z) /\ prior[z] = "on" => Begun(z)' /\ prior'[z] = "on"
    <3>1. Begun(o)'
      BY DEF OnlyMoves, Active, Begun, RetryStep
    <3> QED
      BY <1>1, <1>2, <3>1
  <2> QED
    BY <1>1, <1>2, <2>1, <2>2 DEF RetriesOK, RetryOK, RetryStep
<1> QED
  BY <1>3 DEF RetriesOK, RetryStep

\* A step of a retry that goes on, or succeeds.
LEMMA RetryHere ==
  ASSUME IInv, VMediaAssumption, NEW o \in Ops, Step(o), NEW i, Retrying(i)'
  PROVE  /\ OnlyMoves(o) /\ Retrying(i)
         /\ Insert(o) /\ image[o] = i /\ LabelOK(o) /\ ~Eject(o)
         /\ ~Return(o, "err")
<1>1. OnlyMoves(o)
  BY StepProgress DEF Progress
<1>2. Retrying(i)
  <2>1. ASSUME NEW y \in Ops \ {o}
        PROVE  pc[y] = "idle" \/ (Insert(y) /\ image[y] = i /\ result[y] # "err")
    BY <1>1 DEF Retrying, OnlyMoves, Insert
  <2>2. Insert(o) /\ image[o] = i
    BY <1>1 DEF Retrying, OnlyMoves, Insert
  <2>3. result[o] = "none"
    BY <1>1, Here DEF OnlyMoves, Active
  <2> QED
    BY <2>1, <2>2, <2>3 DEF Retrying
<1> QED
  BY <1>1, <1>2, Here, ReturnShape DEF Retrying, OnlyMoves, Active, Insert, Eject

\* Shutdowns that come late: those of others stay late while the power is as it was,
\* and none is left of a VM that is off.
LEMMA LateKept ==
  ASSUME IInv, LateOffs, NEW o \in Ops, OnlyMoves(o), pc[o] # "hard", late' \subseteq late,
         power' = power
  PROVE  LateOffs'
<1>1. \A l \in late : l[1] \in Ops
  BY ControlParts DEF IInv, LateTyped
<1> QED
  BY <1>1 DEF LateOffs, OnlyMoves

\* A VM that goes off takes the shutdowns along.
LEMMA LateGone ==
  ASSUME LateOffs, late' = Pending, power' = "off"
  PROVE  LateOffs'
BY DEF LateOffs, Pending

\* A VM that is off has none.
LEMMA LateNoneIfOff == ASSUME LateOffs, power = "off" PROVE late = {}
BY DEF LateOffs

\* The steps that only look at the VM.
LEMMA LookingRetry ==
  ASSUME IInv, VMediaAssumption, NEW o \in Ops, NEW i \in Images, Retrying(i)', RetriesOK(i),
         Stage(o) \/ Look(o) \/ ReadPower(o) \/ ReadTray(o) \/ Record(o)
  PROVE  RetryStep(o, i)
<1>1. /\ OnlyMoves(o) /\ Insert(o) /\ image[o] = i /\ LabelOK(o) /\ ~Eject(o)
      /\ ~Return(o, "err")
  BY RetryHere DEF Step
<1>2. UNCHANGED <<power, cd, late>>
  BY DEF Stage, Look, ReadPower, ReadTray, Record
<1>3. \/ pc[o] = "stage" /\ pc'[o] = "look" /\ UNCHANGED <<wasOn, media>>
      \/ pc[o] = "look" /\ pc'[o] = "record" /\ cd.connected /\ UNCHANGED <<wasOn, media>>
      \/ pc[o] = "look" /\ pc'[o] = "state" /\ UNCHANGED <<wasOn, media>>
      \/ pc[o] = "state" /\ pc'[o] = "soft" /\ wasOn'[o] /\ power = "on" /\ UNCHANGED media
      \/ pc[o] = "state" /\ pc'[o] = "tray" /\ ~wasOn'[o] /\ UNCHANGED media
      \/ pc[o] = "tray" /\ pc'[o] \in {"attach", "drop"} /\ UNCHANGED <<wasOn, media>>
      \/ pc[o] = "record" /\ pc'[o] = "done" /\ media' = i /\ UNCHANGED wasOn
  <2>1. ASSUME NEW label \in Labels, Goto(o, label) PROVE pc'[o] = label
    BY <2>1, Here, GotoShape
  <2>2. CASE Stage(o)
    BY <1>1, <2>1, <2>2 DEF Stage, Labels, Quiet
  <2>3. CASE Look(o)
    BY <1>1, <2>1, <2>3 DEF Look, Labels, Quiet
  <2>4. CASE ReadPower(o)
    <3>1. PICK on \in {power = "on", FALSE} :
            /\ wasOn' = [wasOn EXCEPT ![o] = on]
            /\ Goto(o, IF kind[o] = "eject" THEN "detach" ELSE IF on THEN "soft" ELSE "tray")
      BY <2>4 DEF ReadPower
    <3>2. wasOn'[o] = on
      BY <3>1, Here DEF Control
    <3>3. pc'[o] = IF on THEN "soft" ELSE "tray"
      BY <1>1, <2>1, <3>1 DEF Eject, Labels
    <3> QED
      BY <2>4, <3>1, <3>2, <3>3 DEF ReadPower, Quiet
  <2>5. CASE ReadTray(o)
    BY <1>1, <2>1, <2>5 DEF ReadTray, Labels, Quiet
  <2>6. CASE Record(o)
    BY <1>1, <2>6, Here, ReturnShape DEF Record
  <2> QED
    BY <2>2, <2>3, <2>4, <2>5, <2>6
<1>4. LateOffs'
  BY <1>1, <1>2, <1>3, LateKept DEF RetriesOK
<1>5. TrayOK(i)' /\ TrayOK(i)
  BY <1>2 DEF RetriesOK, TrayOK
<1> QED
  BY <1>1, <1>2, <1>3, <1>4, <1>5 DEF RetryStep, TrayOK, Attaching, Restoring, LabelOK

\* The steps that power the VM off: whoever takes them will power it on.
LEMMA PowerOffRetry ==
  ASSUME IInv, VMediaAssumption, NEW o \in Ops, NEW i \in Images, Retrying(i)', RetriesOK(i),
         SoftOff(o) \/ HardOff(o)
  PROVE  RetryStep(o, i)
<1>1. /\ OnlyMoves(o) /\ Insert(o) /\ image[o] = i /\ LabelOK(o) /\ ~Eject(o)
      /\ ~Return(o, "err")
  BY RetryHere DEF Step
<1>2. pc[o] \in {"soft", "hard"} /\ UNCHANGED <<wasOn, media>>
  BY DEF SoftOff, HardOff, Quiet
<1>3. wasOn[o]
  BY <1>2 DEF RetriesOK, RetryOK
<1>4. LateOffs /\ TrayOK(i)
  BY DEF RetriesOK
<1>5. CASE AfterPowerOff(o) /\ power' = "off" /\ LateOffs' /\ TrayOK(i)'
  <2>1. pc'[o] = "tray"
    BY <1>1, <1>2, <1>5, AfterPowerOffMoves
  <2> QED
    BY <1>2, <1>3, <1>5, <2>1 DEF RetryStep, Attaching, Restoring
<1>6. CASE /\ pc[o] = "soft" /\ pc'[o] = "hard" /\ power = "on" /\ Fails(o, Shutdown)
  <2>1. Done(Shutdown) /\ late' = Pending => LateOffs' /\ TrayOK(i)'
    <3> SUFFICES ASSUME Done(Shutdown), late' = Pending PROVE LateOffs' /\ TrayOK(i)'
      OBVIOUS
    <3>1. PoweredOff
      BY DoneIs DEF Shutdown
    <3>2. power' = "off" /\ \E c \in {cd.connected, FALSE} : cd' = [cd EXCEPT !.connected = c]
      BY <3>1 DEF PoweredOff
    <3>3. TrayOK(i)'
      BY <1>4, <3>2, Here DEF TrayOK, VMTyped, CDRom
    <3> QED
      BY <1>4, <3>2, <3>3, LateGone
  <2>2. UNCHANGED vm /\ late' \subseteq late \cup {<<o, Shutdown>>} => LateOffs' /\ TrayOK(i)'
    <3> SUFFICES ASSUME UNCHANGED vm, late' \subseteq late \cup {<<o, Shutdown>>}
                 PROVE  LateOffs' /\ TrayOK(i)'
      OBVIOUS
    <3>1. UNCHANGED <<power, cd>>
      BY DEF vm
    <3>2. \A l \in late : l[1] \in Ops
      BY Here DEF LateTyped
    <3>3. \A l \in late' : l[2] = Shutdown /\ pc'[l[1]] = "hard"
      BY <1>1, <1>4, <1>6, <3>2 DEF LateOffs, OnlyMoves
    <3> QED
      BY <1>4, <1>6, <3>1, <3>3 DEF LateOffs, TrayOK
  <2>3. LateOffs' /\ TrayOK(i)'
    BY <1>6, <2>1, <2>2 DEF Fails
  <2> QED
    BY <1>2, <1>3, <1>6, <2>3 DEF RetryStep, Attaching, Restoring
<1>7. ASSUME NEW t, t.task \in {"powerOff", "shutdown"}, Succeeds(o, t), AfterPowerOff(o)
      PROVE  RetryStep(o, i)
  <2>1. PoweredOff /\ late' = Pending
    BY <1>7, DoneIs DEF Succeeds
  <2>2. power' = "off" /\ \E c \in {cd.connected, FALSE} : cd' = [cd EXCEPT !.connected = c]
    BY <2>1 DEF PoweredOff
  <2>3. TrayOK(i)'
    BY <1>4, <2>2, Here DEF TrayOK, VMTyped, CDRom
  <2> QED
    BY <1>4, <1>5, <1>7, <2>1, <2>2, <2>3, LateGone
<1>8. CASE power = "off" /\ AfterPowerOff(o) /\ UNCHANGED <<power, cd, boot, guest, late>>
  <2>1. late' = {} /\ TrayOK(i)'
    BY <1>4, <1>8, LateNoneIfOff DEF TrayOK
  <2> QED
    BY <1>5, <1>8, <2>1 DEF LateOffs
<1>9. CASE SoftOff(o)
  <2>1. Shutdown.task = "shutdown"
    BY DEF Shutdown
  <2>2. Goto(o, "hard") => pc'[o] = "hard"
    BY Here, GotoShape DEF Labels
  <2> QED
    BY <1>6, <1>7, <1>8, <1>9, <2>1, <2>2 DEF SoftOff
<1>10. CASE HardOff(o)
  <2>1. [task |-> "powerOff"].task = "powerOff"
    OBVIOUS
  <2> QED
    BY <1>1, <1>7, <1>8, <1>10, <2>1 DEF HardOff
<1> QED
  BY <1>9, <1>10

\* The steps that change the CD-ROM and the boot order.
LEMMA EditRetry ==
  ASSUME IInv, VMediaAssumption, NEW o \in Ops, NEW i \in Images, Retrying(i)', RetriesOK(i),
         Drop(o) \/ Attach(o) \/ SetBoot(o)
  PROVE  RetryStep(o, i)
<1>1. /\ OnlyMoves(o) /\ Insert(o) /\ image[o] = i /\ LabelOK(o) /\ ~Eject(o)
      /\ ~Return(o, "err")
  BY RetryHere DEF Step
<1>2. pc[o] \in {"drop", "attach", "boot"} /\ UNCHANGED media
  BY DEF Drop, Attach, SetBoot, Quiet
<1>3. LateOffs /\ TrayOK(i)
  BY DEF RetriesOK
<1>4. ASSUME late' = Pending, UNCHANGED power PROVE LateOffs'
  BY <1>1, <1>2, <1>3, <1>4, PendingLess, LateKept
<1>5. CASE Drop(o)
  <2>1. snap[o] \in Images \cup {NoImage}
    BY Here DEF Control
  <2>2. CASE Succeeds(o, DropEdit(o)) /\ Goto(o, "attach") /\ UNCHANGED wasOn
    <3>1. UNCHANGED power /\ ~cd'.start /\ ~cd'.connected /\ late' = Pending
      BY <2>1, <2>2, Here, EditIs DEF Succeeds, DropEdit
    <3>2. pc'[o] = "attach"
      BY <2>2, Here, GotoShape DEF Labels
    <3> QED
      BY <1>2, <1>4, <1>5, <2>2, <3>1, <3>2
      DEF Drop, RetryStep, TrayOK, Attaching, Restoring
  <2>3. CASE /\ MayBeLocked /\ wasOn' = [wasOn EXCEPT ![o] = TRUE] /\ Goto(o, "soft")
             /\ UNCHANGED <<power, cd, boot, guest, late>>
    <3>1. pc'[o] = "soft" /\ wasOn'[o] /\ power = "on"
      BY <2>3, Here, GotoShape DEF Labels, Control, MayBeLocked
    <3>2. LateOffs' /\ TrayOK(i)'
      BY <1>1, <1>3, <1>5, <2>3, LateKept DEF Drop, TrayOK
    <3> QED
      BY <1>2, <2>3, <3>1, <3>2 DEF RetryStep, Attaching, Restoring
  <2> QED
    BY <1>1, <1>5, <2>2, <2>3 DEF Drop
<1>6. CASE Attach(o)
  <2>1. Succeeds(o, AttachEdit(o)) /\ Goto(o, "boot") /\ UNCHANGED wasOn
    BY <1>1, <1>6 DEF Attach
  <2>2. pc[o] = "attach" /\ pc'[o] = "boot"
    BY <1>6, <2>1, Here, GotoShape DEF Attach, Labels
  <2>3. Edited(i, TRUE) /\ late' = Pending
    <3>1. Done(AttachEdit(o)) /\ late' = Pending
      BY <2>1 DEF Succeeds
    <3>2. /\ AttachEdit(o).task = "edit" /\ AttachEdit(o).file = i
          /\ AttachEdit(o).connect = TRUE
      BY <1>1 DEF AttachEdit
    <3>3. Edited(AttachEdit(o).file, AttachEdit(o).connect)
      BY <3>1, <3>2, DoneIs
    <3> QED
      BY <3>1, <3>2, <3>3
  <2>4. UNCHANGED power /\ cd'.start
    BY <1>1, <2>1, Here, EditIs DEF Succeeds, AttachEdit
  <2>5. cd'.file = i
    <3>1. CASE cd.connected
      <4>1. cd.file = i
        BY <1>3, <3>1 DEF TrayOK
      <4>2. PICK c : cd' = [file |-> cd.file, connected |-> c, start |-> TRUE]
        BY <2>3, <3>1 DEF Edited
      <4> QED
        BY <4>1, <4>2
    <3>2. CASE ~cd.connected
      BY <1>1, <2>1, <3>2, Here, EditIs DEF Succeeds, AttachEdit
    <3> QED
      BY <3>1, <3>2
  <2> QED
    BY <1>2, <1>4, <2>1, <2>2, <2>3, <2>4, <2>5 DEF RetryStep, TrayOK, Attaching, Restoring
<1>7. CASE SetBoot(o)
  <2>1. Succeeds(o, BootTaskOf(o)) /\ Goto(o, IF wasOn[o] THEN "powerOn" ELSE "record")
    BY <1>1, <1>7, SetBootIs
  <2>2. pc[o] = "boot" /\ pc'[o] = (IF wasOn[o] THEN "powerOn" ELSE "record") /\ UNCHANGED wasOn
    BY <1>7, <2>1, Here, GotoShape DEF SetBoot, Labels
  <2>3. UNCHANGED <<power, cd>> /\ late' = Pending
    BY <2>1, DoneIs DEF Succeeds, BootTaskOf
  <2>4. LateOffs' /\ TrayOK(i)'
    BY <1>3, <1>4, <2>3 DEF TrayOK
  <2> QED
    BY <1>2, <2>2, <2>3, <2>4 DEF RetryStep, Attaching, Restoring
<1> QED
  BY <1>5, <1>6, <1>7

\* The step that powers the VM on again.
LEMMA PowerOnRetry ==
  ASSUME IInv, VMediaAssumption, NEW o \in Ops, NEW i \in Images, Retrying(i)', RetriesOK(i),
         PowerOn(o)
  PROVE  RetryStep(o, i)
<1>1. /\ OnlyMoves(o) /\ Insert(o) /\ image[o] = i /\ ~Return(o, "err")
  BY RetryHere DEF Step
<1>2. /\ pc[o] = "powerOn" /\ UNCHANGED <<wasOn, media>>
      /\ Succeeds(o, [task |-> "powerOn"]) /\ Goto(o, "record")
  BY <1>1 DEF PowerOn, Quiet, Insert
<1>3. LateOffs /\ TrayOK(i) /\ wasOn[o]
  BY <1>2 DEF RetriesOK, RetryOK
<1>4. pc'[o] = "record"
  BY <1>2, Here, GotoShape DEF Labels
<1>5. PoweredOn /\ late' = Pending
  BY <1>2, DoneIs DEF Succeeds
<1>6. power' = "on" /\ (cd' = cd \/ cd' = [cd EXCEPT !.connected = cd.start])
  BY <1>5 DEF PoweredOn
<1>7. TrayOK(i)' /\ (cd.start => cd'.start)
  BY <1>3, <1>6, Here DEF TrayOK, VMTyped, CDRom
<1>8. LateOffs'
  <2>1. CASE power = "on"
    BY <1>1, <1>2, <1>3, <1>5, <1>6, <2>1, PendingLess, LateKept
  <2>2. CASE power = "off"
    BY <1>3, <1>5, <2>2, PendingLess, LateNoneIfOff DEF LateOffs
  <2> QED
    BY <2>1, <2>2, Here DEF VMTyped
<1> QED
  BY <1>2, <1>3, <1>4, <1>6, <1>7, <1>8 DEF RetryStep, Attaching, Restoring

\* A step of a retry leaves the retries in order.
LEMMA StepRetry ==
  ASSUME IInv, VMediaAssumption, NEW o \in Ops, NEW i \in Images, Step(o), Retrying(i)',
         RetriesOK(i)
  PROVE  RetriesOK(i)'
<1>1. OnlyMoves(o) /\ LabelOK(o) /\ ~Eject(o)
  BY RetryHere
<1>2. ~Detach(o) /\ ~Clear(o)
  BY <1>1 DEF Detach, Clear, LabelOK
<1>3. RetryStep(o, i)
  BY <1>2, LookingRetry, PowerOffRetry, EditRetry, PowerOnRetry DEF Step
<1> QED
  BY <1>1, <1>3, RetryStepKeeps

\* One more retry begins.
LEMMA BeginRetry ==
  ASSUME IInv, VMediaAssumption, NEW o \in Ops, NEW i \in Images, Begin(o), Retrying(i)',
         RetriesOK(i)
  PROVE  RetriesOK(i)'
<1>1. /\ pc[o] = "idle" /\ ~wasOn[o]
      /\ prior' = [prior EXCEPT ![o] = power]
      /\ UNCHANGED <<power, cd, late, media, wasOn>>
  BY Here DEF Begin, LabelOK
<1>2. PICK k \in Requests[o] : /\ kind' = [kind EXCEPT ![o] = k]
                               /\ Goto(o, FirstLabel[k]) \/ Return(o, "err")
  BY DEF Begin
<1>3. k \in Kinds
  BY <1>2 DEF VMediaAssumption
<1>4. FirstLabel[k] \in Labels \ {"idle"}
  BY <1>3 DEF FirstLabel, Kinds, Labels
<1>5. ~Return(o, "err")
  BY Here, ReturnShape DEF Retrying
<1>6. pc'[o] = FirstLabel[k] /\ \A y \in Ops \ {o} : pc'[y] = pc[y]
  BY <1>2, <1>4, <1>5, Here, GotoShape
<1>7. k = "insert"
  BY <1>2, <1>4, <1>6, Here DEF Retrying, Control, Insert
<1>8. pc'[o] = "stage" /\ prior'[o] = power /\ \A y \in Ops \ {o} : prior'[y] = prior[y]
  BY <1>1, <1>6, <1>7, Here DEF FirstLabel, Control
<1>9. /\ Begun(o)' /\ ~Begun(o) /\ ~Attaching(o)
      /\ \A y \in Ops \ {o} : /\ Attaching(y)' = Attaching(y)
                              /\ Restoring(y)' = Restoring(y)
                              /\ Begun(y)' = Begun(y)
  BY <1>1, <1>6, <1>8 DEF Attaching, Restoring, Begun
<1>10. LateOffs' /\ TrayOK(i)'
  <2>1. \A l \in late : l[1] \in Ops
    BY Here DEF LateTyped
  <2> QED
    BY <1>1, <1>6, <2>1 DEF RetriesOK, LateOffs, TrayOK
<1>11. ~Restoring(o)
  BY <1>1 DEF Restoring
<1>12. ASSUME NEW y \in Ops PROVE RetryOK(y, i)'
  <2>1. CASE y = o
    BY <1>1, <1>8, <1>9, <2>1 DEF RetryOK, Begun
  <2>2. CASE y # o
    BY <1>1, <1>6, <1>8, <1>9, <1>11, <2>2 DEF RetriesOK, RetryOK
  <2> QED
    BY <2>1, <2>2
<1> QED
  BY <1>10, <1>12 DEF RetriesOK

\* A shutdown that comes late belongs to a retry that is about to power the VM off,
\* and on again.
LEMMA LateRetry ==
  ASSUME IInv, NEW i \in Images, Late, RetriesOK(i)
  PROVE  RetriesOK(i)'
<1>1. PICK l \in late :
        /\ Done(l[2])
        /\ late' = Pending \ {l}
        /\ UNCHANGED <<media, pc, wasOn, prior>>
  BY DEF Late
<1>2. LateOffs /\ TrayOK(i) /\ l[2] = Shutdown /\ pc[l[1]] = "hard" /\ power = "on"
  BY DEF RetriesOK, LateOffs
<1>3. l[1] \in Ops /\ VMTyped
  BY ControlParts DEF IInv, LateTyped
<1>4. PoweredOff
  BY <1>1, <1>2, DoneIs DEF Shutdown
<1>5. power' = "off" /\ \E c \in {cd.connected, FALSE} : cd' = [cd EXCEPT !.connected = c]
  BY <1>4 DEF PoweredOff
<1>6. TrayOK(i)' /\ cd'.start = cd.start
  BY <1>2, <1>3, <1>5 DEF TrayOK, VMTyped, CDRom
<1>7. LateOffs'
  BY <1>1, <1>2, <1>5 DEF LateOffs, Pending
<1>8. Restoring(l[1])
  BY <1>2, <1>3 DEF RetriesOK, RetryOK, Restoring
<1>9. \A y \in Ops : /\ Attaching(y)' = Attaching(y)
                    /\ Restoring(y)' = Restoring(y)
                    /\ Begun(y)' = Begun(y)
  BY <1>1 DEF Attaching, Restoring, Begun
<1>10. \A y \in Ops : RetryOK(y, i)'
  BY <1>1, <1>3, <1>5, <1>6, <1>8, <1>9 DEF RetriesOK, RetryOK
<1> QED
  BY <1>6, <1>7, <1>10 DEF RetriesOK

\* RetryInv is inductive, relative to IInv.
LEMMA NextRetryInv == VMediaAssumption /\ IInv /\ RetryInv /\ [Next]_vars => RetryInv'
<1> SUFFICES ASSUME VMediaAssumption, IInv, RetryInv, [Next]_vars,
                    NEW i \in Images, Retrying(i)'
             PROVE  RetriesOK(i)'
  BY DEF RetryInv
<1>1. CASE \E o \in Ops : Step(o)
  <2>1. PICK o \in Ops : Step(o)
    BY <1>1
  <2>2. Retrying(i)
    BY <2>1, RetryHere
  <2> QED
    BY <2>1, <2>2, StepRetry DEF RetryInv
<1>2. CASE \E o \in Ops : Begin(o)
  <2>1. PICK o \in Ops : Begin(o)
    BY <1>2
  <2>2. \A y \in Ops \ {o} : pc'[y] = pc[y] /\ result'[y] = result[y]
                             /\ kind'[y] = kind[y] /\ image'[y] = image[y]
    <3>1. \E k \in Kinds : /\ kind' = [kind EXCEPT ![o] = k]
                           /\ \E z : image' = [image EXCEPT ![o] = z]
                           /\ Goto(o, FirstLabel[k]) \/ Return(o, "err")
      BY <2>1 DEF Begin, VMediaAssumption
    <3>2. \A k \in Kinds : FirstLabel[k] \in Labels
      BY DEF FirstLabel, Kinds, Labels
    <3> QED
      BY <2>1, <3>1, <3>2, Here, GotoShape, ReturnShape DEF Control
  <2>3. Retrying(i)
    BY <2>1, <2>2 DEF Retrying, Insert, Begin
  <2> QED
    BY <2>1, <2>3, BeginRetry DEF RetryInv
<1>3. CASE Late
  <2>1. Retrying(i)
    BY <1>3 DEF Late, Retrying, Insert
  <2> QED
    BY <1>3, <2>1, LateRetry DEF RetryInv
<1>4. CASE AllReturned \/ UNCHANGED vars
  <2>1. UNCHANGED vars
    BY <1>4 DEF AllReturned
  <2> QED
    BY <2>1 DEF vars, RetryInv, Retrying, RetriesOK, LateOffs, TrayOK, RetryOK, Attaching,
       Restoring,
       Begun, Insert
<1> QED
  BY <1>1, <1>2, <1>3, <1>4 DEF Next

\* Any number of overlapping InsertMedia retries of one image that all succeed converge
\* (RetriesConverge): the image is in the drive, connected at the next start, and
\* recorded, and the VM runs if it ran.  The boot order is not part of it.
THEOREM OverlappingRetriesConverge == Spec => []RetriesConverge
<1>1. VMediaAssumption /\ Init => RetryInv
  BY DEF Init, RetryInv, RetriesOK, LateOffs, TrayOK, RetryOK, Begun
<1>2. IInv /\ RetryInv => RetriesConverge
  <2> SUFFICES ASSUME IInv, RetryInv,
                      \A o \in Ops : kind[o] = "insert" /\ result[o] = "ok",
                      NEW o \in Ops, \A y \in Ops : image[y] = image[o]
               PROVE  /\ cd.file = image[o] /\ cd.start
                      /\ media = image[o]
                      /\ power = "on" <=> \E y \in Ops : prior[y] = "on"
    BY DEF RetriesConverge
  <2>1. \A y \in Ops : pc[y] = "done"
    BY Here
  <2>2. Retrying(image[o]) /\ image[o] \in Images
    BY Here DEF Retrying, LabelOK, Insert
  <2>3. RetriesOK(image[o])
    BY <2>2 DEF RetryInv
  <2> QED
    BY <2>1, <2>3 DEF RetriesOK, RetryOK, TrayOK, Attaching, Restoring, Begun
<1> QED
  BY <1>1, <1>2, AlwaysIInv, NextRetryInv, VMediaAssumption, PTL DEF Spec
=============================================================================
