------------------------------- MODULE VMedia -------------------------------
(***************************************************************************)
(* The requests that change one VM: InsertMedia, EjectMedia, Reset,        *)
(* SetBootCDOnce and SetBootDiskFirst of internal/vsphere/client.go.  Each *)
(* runs on the goroutine of its HTTP request, with no lock on the VM, as a *)
(* sequence of vSphere calls; between two calls of one request any other   *)
(* request may take its own.                                               *)
(*                                                                         *)
(* vSphere is the environment.  A call may fail.  A task whose wait fails  *)
(* (waitTask returns on ctx.Done) may be dropped, may have been done, or   *)
(* may be done later, whatever the gateway does meanwhile: it is in late.  *)
(* A CD-ROM the running guest locks refuses to be disconnected.  A backing *)
(* edit of a connected CD-ROM is ignored (client.go, disconnectCDROM).     *)
(*                                                                         *)
(* Abstractions: a read of the power state and the task it leads to are    *)
(* one step; the questions a VM asks are answered; the VM has a CD-ROM;    *)
(* downloading and uploading the ISO is one step (IsoUpload has it).       *)
(***************************************************************************)
EXTENDS Naturals, FiniteSets

CONSTANTS
  Ops,      \* requests
  Requests, \* what each of them may ask for
  Images,   \* ISO files
  Sources,  \* the images each request may ask to insert
  NoImage,  \* a CD-ROM without an ISO backing, or no record of an inserted image
  MaxLate   \* tasks the model lets outlive their request

Kinds == {"insert", "eject", "on", "off", "restart", "bootCD", "bootDisk"}

ASSUME VMediaAssumption ==
  /\ Requests \in [Ops -> SUBSET Kinds]
  /\ Sources \in [Ops -> SUBSET Images]
  /\ NoImage \notin Images \cup {"off", "disk"}
  /\ MaxLate \in Nat

VARIABLES
  \* the VM
  power,   \* on or off
  cd,      \* the CD-ROM: backing file, connected now, connected at power-on
  boot,    \* the first device of the boot order: cd or disk
  guest,   \* what the VM runs: off, disk, or the image it booted
  late,    \* tasks nobody waits for any more
  \* the gateway
  media,   \* mediaISO of the VM
  kind, image, \* what a request asks for, once it began
  pc, result,
  wasOn,   \* the power state a request means to restore
  snap,    \* the backing a request read before it disconnects the CD-ROM
  tries,   \* attempts to free the CD-ROM
  \* history
  prior,   \* the power state when a request began
  alone    \* no other request, nor a late task, ran since it began

vm == <<power, cd, boot, guest>>
vars == <<power, cd, boot, guest, late, media, kind, image, pc, result, wasOn, snap, tries, prior,
          alone>>

Labels == {"idle", "stage", "look", "state", "soft", "hard", "tray", "drop", "detach",
           "attach", "boot", "record", "clear", "powerOn", "done"}

CDRom == [file : Images \cup {NoImage}, connected : BOOLEAN, start : BOOLEAN]

Shutdown    == [task |-> "shutdown"]
PowerTask   == [task : {"powerOn", "powerOff"}]
EditTask    == [task : {"edit"}, file : Images \cup {NoImage}, connect : BOOLEAN]
BootTask    == [task : {"boot"}, first : {"cd", "disk"}]
Task        == {Shutdown} \cup PowerTask \cup EditTask \cup BootTask

TypeOK ==
  /\ power \in {"on", "off"}
  /\ cd \in CDRom
  /\ boot \in {"cd", "disk"}
  /\ guest \in Images \cup {"off", "disk"}
  /\ late \in SUBSET (Ops \X Task) /\ Cardinality(late) <= MaxLate
  /\ media \in Images \cup {NoImage}
  /\ kind \in [Ops -> Kinds \cup {"none"}]
  /\ image \in [Ops -> Images \cup {NoImage}]
  /\ pc \in [Ops -> Labels]
  /\ result \in [Ops -> {"none", "ok", "err"}]
  /\ wasOn \in [Ops -> BOOLEAN]
  /\ snap \in [Ops -> Images \cup {NoImage}]
  /\ tries \in [Ops -> 0..3]
  /\ prior \in [Ops -> {"on", "off"}]
  /\ alone \in [Ops -> BOOLEAN]

Active(o) == pc[o] \notin {"idle", "done"}

\* A VM with an empty CD-ROM that boots its disk, on or off, and no record.
Init ==
  /\ power \in {"on", "off"}
  /\ guest = IF power = "on" THEN "disk" ELSE "off"
  /\ cd = [file |-> NoImage, connected |-> FALSE, start |-> FALSE]
  /\ boot = "disk"
  /\ late = {}
  /\ media = NoImage
  /\ kind = [o \in Ops |-> "none"]
  /\ image = [o \in Ops |-> NoImage]
  /\ pc = [o \in Ops |-> "idle"]
  /\ result = [o \in Ops |-> "none"]
  /\ wasOn = [o \in Ops |-> FALSE]
  /\ snap = [o \in Ops |-> NoImage]
  /\ tries = [o \in Ops |-> 0]
  /\ prior = [o \in Ops |-> "off"]
  /\ alone = [o \in Ops |-> FALSE]

-----------------------------------------------------------------------------
(***************************************************************************)
(* vSphere.                                                                *)
(***************************************************************************)
BootsFrom == IF boot = "cd" /\ cd.start /\ cd.file # NoImage THEN cd.file ELSE "disk"

PoweredOn ==
  /\ power' = "on"
  /\ guest' = IF power = "on" THEN guest ELSE BootsFrom
  /\ cd' = IF power = "on" THEN cd ELSE [cd EXCEPT !.connected = cd.start]
  /\ UNCHANGED boot

\* A VM that is off may or may not still report its CD-ROM as connected.
PoweredOff ==
  /\ power' = "off"
  /\ guest' = "off"
  /\ \E c \in {cd.connected, FALSE} : cd' = [cd EXCEPT !.connected = c]
  /\ UNCHANGED boot

\* Reconfigure the CD-ROM; a connected one keeps its backing.
Edited(file, connect) ==
  /\ \E c \in IF power = "on" THEN {connect} ELSE {connect, FALSE} :
       cd' = [file |-> IF cd.connected THEN cd.file ELSE file,
              connected |-> c, start |-> connect]
  /\ UNCHANGED <<power, boot, guest>>

Done(t) ==
  CASE t.task = "powerOn" -> PoweredOn
    [] t.task \in {"powerOff", "shutdown"} -> PoweredOff
    [] t.task = "edit" -> Edited(t.file, t.connect)
    [] t.task = "boot" -> boot' = t.first /\ UNCHANGED <<power, cd, guest>>

\* A guest that is powered off no longer shuts itself down.
Pending == IF power' = "off" THEN {l \in late : l[2] # Shutdown} ELSE late

\* The task succeeds and its request sees it.
Succeeds(o, t) == Done(t) /\ late' = Pending

\* Its request sees a failure: nothing was done, it was done, or it will be.
Fails(o, t) ==
  \/ UNCHANGED vm /\ late' = late
  \/ Done(t) /\ late' = Pending
  \/ /\ Cardinality(late) < MaxLate
     /\ late' = late \cup {<<o, t>>}
     /\ UNCHANGED vm

Late ==
  \E l \in late :
    /\ Done(l[2])
    /\ late' = Pending \ {l}
    /\ alone' = [o \in Ops |-> IF o = l[1] THEN alone[o] ELSE FALSE]
    /\ UNCHANGED <<media, kind, image, pc, result, wasOn, snap, tries, prior>>

\* The running guest holds the CD-ROM.
MayBeLocked == power = "on" /\ cd.connected

-----------------------------------------------------------------------------
(***************************************************************************)
(* A request's control.                                                    *)
(***************************************************************************)
\* The device changes of disconnectCDROM, attachCDROM and detachCDROM.
DropEdit(o)   == [task |-> "edit", file |-> snap[o], connect |-> FALSE]
AttachEdit(o) == [task |-> "edit", file |-> image[o], connect |-> TRUE]
DetachEdit    == [task |-> "edit", file |-> NoImage, connect |-> FALSE]

Goto(o, label) == pc' = [pc EXCEPT ![o] = label] /\ UNCHANGED result

Return(o, res) ==
  /\ pc' = [pc EXCEPT ![o] = "done"]
  /\ result' = [result EXCEPT ![o] = res]

\* Where a request goes once the VM is off.
AfterPowerOff(o) ==
  CASE kind[o] = "insert" -> Goto(o, "tray")
    [] kind[o] = "eject" -> Goto(o, "detach")
    [] kind[o] = "restart" -> Goto(o, "powerOn")
    [] kind[o] = "off" -> Return(o, "ok")

FirstLabel == [insert |-> "stage", eject |-> "state", on |-> "powerOn", off |-> "hard",
               restart |-> "hard", bootCD |-> "boot", bootDisk |-> "boot"]

\* The handler calls the client, which finds the VM (or does not).
Begin(o) ==
  /\ pc[o] = "idle"
  /\ \E k \in Requests[o] :
       /\ kind' = [kind EXCEPT ![o] = k]
       /\ \E i \in IF k = "insert" THEN Sources[o] ELSE {NoImage} : image' = [image EXCEPT ![o] = i]
       /\ Goto(o, FirstLabel[k]) \/ Return(o, "err")
  /\ prior' = [prior EXCEPT ![o] = power]
  /\ alone' = [z \in Ops |-> IF Active(z) THEN FALSE
                             ELSE IF z = o THEN late = {} /\ ~\E y \in Ops : Active(y)
                             ELSE alone[z]]
  /\ UNCHANGED <<power, cd, boot, guest, late, media, wasOn, snap, tries>>

Quiet == UNCHANGED <<media, kind, image, prior, alone>>

\* downloadISO, contentISOName, uploadISOIfNeeded.
Stage(o) ==
  /\ pc[o] = "stage"
  /\ Goto(o, "look") \/ Return(o, "err")
  /\ UNCHANGED <<power, cd, boot, guest, late, wasOn, snap, tries>> /\ Quiet

\* The CD-ROM already has the image connected: only record it.
Look(o) ==
  /\ pc[o] = "look"
  /\ \/ cd.connected /\ cd.file = image[o] /\ Goto(o, "record")
     \/ ~(cd.connected /\ cd.file = image[o]) /\ Goto(o, "state")
     \/ Return(o, "err")
  /\ UNCHANGED <<power, cd, boot, guest, late, wasOn, snap, tries>> /\ Quiet

\* PowerState: an error counts as off.
ReadPower(o) ==
  /\ pc[o] = "state"
  /\ \E on \in {power = "on", FALSE} :
       /\ wasOn' = [wasOn EXCEPT ![o] = on]
       /\ Goto(o, IF kind[o] = "eject" THEN "detach" ELSE IF on THEN "soft" ELSE "tray")
  /\ UNCHANGED <<power, cd, boot, guest, late, snap, tries>> /\ Quiet

\* softPowerOff; if it fails the guest may still shut down later.
SoftOff(o) ==
  /\ pc[o] = "soft"
  /\ \/ power = "off" /\ AfterPowerOff(o) /\ UNCHANGED <<power, cd, boot, guest, late>>
     \/ power = "on" /\ Succeeds(o, Shutdown) /\ AfterPowerOff(o)
     \/ power = "on" /\ Fails(o, Shutdown) /\ Goto(o, "hard")
  /\ UNCHANGED <<wasOn, snap, tries>> /\ Quiet

\* powerOff.
HardOff(o) ==
  /\ pc[o] = "hard"
  /\ LET off == [task |-> "powerOff"] IN
       \/ power = "off" /\ AfterPowerOff(o) /\ UNCHANGED <<power, cd, boot, guest, late>>
       \/ power = "on" /\ Succeeds(o, off) /\ AfterPowerOff(o)
       \/ power = "on" /\ Fails(o, off) /\ Return(o, "err")
       \/ power = "off" /\ Return(o, "err") /\ UNCHANGED <<power, cd, boot, guest, late>>
  /\ UNCHANGED <<wasOn, snap, tries>> /\ Quiet

\* Mutant: the new backing is written without disconnecting the tray first.
ReadTray_NoDrop(o) ==
  /\ pc[o] = "tray"
  /\ Goto(o, "attach") \/ Return(o, "err")
  /\ UNCHANGED <<power, cd, boot, guest, late, wasOn, snap, tries>> /\ Quiet

\* disconnectCDROM reads the devices: nothing to do if the tray is out.
ReadTray(o) ==
  /\ pc[o] = "tray"
  /\ \/ ~cd.connected /\ ~cd.start /\ Goto(o, "attach") /\ UNCHANGED snap
     \/ /\ cd.connected \/ cd.start
        /\ snap' = [snap EXCEPT ![o] = cd.file]
        /\ Goto(o, "drop")
     \/ Return(o, "err") /\ UNCHANGED snap
  /\ UNCHANGED <<power, cd, boot, guest, late, wasOn, tries>> /\ Quiet

\* Mutant: a VM powered off for a locked CD-ROM does not count as having been on.
Drop_ForgetsPower(o) ==
  /\ pc[o] = "drop"
  /\ tries' = [tries EXCEPT ![o] = @ + 1]
  /\ \/ Succeeds(o, DropEdit(o)) /\ Goto(o, "attach")
     \/ /\ MayBeLocked /\ tries[o] = 0
        /\ Goto(o, "soft")
        /\ UNCHANGED <<power, cd, boot, guest, late>>
     \/ Fails(o, DropEdit(o)) /\ Return(o, "err")
  /\ UNCHANGED <<wasOn, snap>> /\ Quiet

\* ... then writes back the backing it read, disconnected.  A locked CD-ROM
\* powers the VM off, once, and counts as having been on.
Drop(o) ==
  /\ pc[o] = "drop"
  /\ tries' = [tries EXCEPT ![o] = @ + 1]
  /\ \/ Succeeds(o, DropEdit(o)) /\ Goto(o, "attach") /\ UNCHANGED wasOn
     \/ /\ MayBeLocked /\ tries[o] = 0
        /\ wasOn' = [wasOn EXCEPT ![o] = TRUE]
        /\ Goto(o, "soft")
        /\ UNCHANGED <<power, cd, boot, guest, late>>
     \/ Fails(o, DropEdit(o)) /\ Return(o, "err") /\ UNCHANGED wasOn
  /\ UNCHANGED snap /\ Quiet

\* attachCDROM.
Attach(o) ==
  /\ pc[o] = "attach"
  /\ \/ Succeeds(o, AttachEdit(o)) /\ Goto(o, "boot")
     \/ Fails(o, AttachEdit(o)) /\ Return(o, "err")
  /\ UNCHANGED <<wasOn, snap, tries>> /\ Quiet

\* Mutant: the limit of the detach attempts is off by one.
Detach_OneMore(o) ==
  /\ pc[o] = "detach"
  /\ tries' = [tries EXCEPT ![o] = @ + 1]
  /\ \/ Succeeds(o, DetachEdit) /\ Goto(o, "boot")
     \/ /\ MayBeLocked /\ tries[o] <= 3
        /\ Goto(o, "detach")
        /\ UNCHANGED <<power, cd, boot, guest, late>>
     \/ Fails(o, DetachEdit) /\ Return(o, "err")
  /\ UNCHANGED <<wasOn, snap>> /\ Quiet

\* EjectMedia's detachCDROM: locked once, it answers the VM's questions and
\* retries; locked twice, it powers the VM off; then it must succeed.
Detach(o) ==
  /\ pc[o] = "detach"
  /\ tries' = [tries EXCEPT ![o] = @ + 1]
  /\ \/ Succeeds(o, DetachEdit) /\ Goto(o, "boot")
     \/ /\ MayBeLocked /\ tries[o] < 2
        /\ Goto(o, IF tries[o] = 0 THEN "detach" ELSE "soft")
        /\ UNCHANGED <<power, cd, boot, guest, late>>
     \/ Fails(o, DetachEdit) /\ Return(o, "err")
  /\ UNCHANGED <<wasOn, snap>> /\ Quiet

\* Mutant: an eject asks for the CD first, as an insert does.
SetBoot_AlwaysCD(o) ==
  /\ pc[o] = "boot"
  /\ LET order == [task |-> "boot", first |-> "cd"]
     IN \/ /\ Succeeds(o, order)
           /\ CASE kind[o] = "insert" -> Goto(o, IF wasOn[o] THEN "powerOn" ELSE "record")
                [] kind[o] = "eject" -> Goto(o, "clear")
                [] kind[o] \in {"bootCD", "bootDisk"} -> Return(o, "ok")
        \/ Fails(o, order) /\ Return(o, "err")
  /\ UNCHANGED <<wasOn, snap, tries>> /\ Quiet

\* setBootOrderVM: CD first for an insert, disk first for an eject.
SetBoot(o) ==
  /\ pc[o] = "boot"
  /\ LET first == IF kind[o] \in {"insert", "bootCD"} THEN "cd" ELSE "disk"
         order == [task |-> "boot", first |-> first]
     IN \/ /\ Succeeds(o, order)
           /\ CASE kind[o] = "insert" -> Goto(o, IF wasOn[o] THEN "powerOn" ELSE "record")
                [] kind[o] = "eject" -> Goto(o, "clear")
                [] kind[o] \in {"bootCD", "bootDisk"} -> Return(o, "ok")
        \/ Fails(o, order) /\ Return(o, "err")
  /\ UNCHANGED <<wasOn, snap, tries>> /\ Quiet

\* powerOn.
PowerOn(o) ==
  /\ pc[o] = "powerOn"
  /\ LET on == [task |-> "powerOn"] IN
       \/ Succeeds(o, on) /\ (IF kind[o] = "insert" THEN Goto(o, "record") ELSE Return(o, "ok"))
       \/ power = "off" /\ Fails(o, on) /\ Return(o, "err")
       \/ power = "on" /\ Return(o, "err") /\ UNCHANGED <<power, cd, boot, guest, late>>
  /\ UNCHANGED <<wasOn, snap, tries>> /\ Quiet

\* InsertMedia notes the image under c.mu and returns.
Record(o) ==
  /\ pc[o] = "record"
  /\ media' = image[o]
  /\ Return(o, "ok")
  /\ UNCHANGED <<power, cd, boot, guest, late, wasOn, snap, tries, kind, image, prior, alone>>

\* EjectMedia forgets the image under c.mu, then restores the power.
Clear(o) ==
  /\ pc[o] = "clear"
  /\ media' = NoImage
  /\ IF wasOn[o] THEN Goto(o, "powerOn") ELSE Return(o, "ok")
  /\ UNCHANGED <<power, cd, boot, guest, late, wasOn, snap, tries, kind, image, prior, alone>>

Step(o) ==
  \/ Stage(o) \/ Look(o) \/ ReadPower(o) \/ SoftOff(o) \/ HardOff(o)
  \/ ReadTray(o) \/ Drop(o) \/ Attach(o) \/ Detach(o) \/ SetBoot(o)
  \/ PowerOn(o) \/ Record(o) \/ Clear(o)

\* Every request is over and no task is left.
AllReturned ==
  /\ \A o \in Ops : pc[o] = "done"
  /\ late = {}
  /\ UNCHANGED vars

Next ==
  \/ \E o \in Ops : Begin(o) \/ Step(o)
  \/ Late
  \/ AllReturned

Spec == Init /\ [][Next]_vars
-----------------------------------------------------------------------------
(***************************************************************************)
(* Properties.                                                             *)
(***************************************************************************)
Succeeded(o) == pc[o] # "done" /\ pc'[o] = "done" /\ result'[o] = "ok"

\* An InsertMedia that succeeds with the VM to itself has replaced the CD: the
\* new image is the backing, whatever was connected before, it is recorded,
\* the power is what it was, and a VM that was power-cycled booted the image.
SoloInsertDelivers ==
  [][\A o \in Ops : Succeeded(o) /\ alone[o] /\ kind[o] = "insert" =>
       /\ cd'.file = image[o]
       /\ cd'.connected \/ cd'.start
       /\ media' = image[o]
       /\ power' = prior[o]
       /\ wasOn[o] => guest' = image[o]]_vars

\* An EjectMedia that succeeds with the VM to itself undoes the insert ("Always
\* undo SetBootCDOnce"): the tray is neither connected nor connected at the next
\* start (the file behind it may stay), the disk boots first, no record is left,
\* and a VM it saw running is running.
SoloEjectUndoesInsert ==
  [][\A o \in Ops : Succeeded(o) /\ alone[o] /\ kind[o] = "eject" =>
       /\ ~cd'.connected /\ ~cd'.start
       /\ boot' = "disk"
       /\ media' = NoImage
       /\ wasOn[o] => power' = "on"]_vars

\* Overlapping InsertMedia retries of one image that all succeed converge: the
\* image is in the drive, connected at the next start, and recorded, and a VM any
\* of them saw running runs.
RetriesConverge ==
  /\ \A o \in Ops : kind[o] = "insert" /\ result[o] = "ok"
  /\ late = {}
  => \A o \in Ops :
       (\A y \in Ops : image[y] = image[o]) =>
         /\ cd.file = image[o] /\ cd.start
         /\ media = image[o]
         /\ power = "on" <=> \E y \in Ops : prior[y] = "on"

\* EjectMedia: "Always restore prior power".
EjectRestoresPower ==
  [][\A o \in Ops : Succeeded(o) /\ alone[o] /\ kind[o] = "eject" =>
       power' = prior[o]]_vars
=============================================================================
