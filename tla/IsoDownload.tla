----------------------------- MODULE IsoDownload -----------------------------
(***************************************************************************)
(* The local ISO cache: Client.downloadISO of internal/vsphere/client.go,  *)
(* run by the goroutines of InsertMedia requests for one image URL, and    *)
(* contentISOName of iso.go, which names the datastore object after what   *)
(* the cached file holds.  The cache directory is shared by all clients    *)
(* and survives a restart of the gateway.                                  *)
(*                                                                         *)
(* A file is an inode: the chunks written to it.  A request keeps the one  *)
(* it created open, whatever becomes of its name; os.Create empties the    *)
(* inode that has the name already.  The image does not change.            *)
(***************************************************************************)
EXTENDS Naturals, FiniteSets

CONSTANTS
  Callers,     \* downloadISO calls for the URL
  Chunks,      \* length of the image
  NoFile,      \* a name without a file, a request without one
  MaxRestarts  \* gateway restarts the model allows

VARIABLES
  data,      \* what each inode holds: chunk numbers
  used,      \* inodes made so far
  tmp, dest, \* the inodes named <hash>.partial and <hash>
  pc,
  fd,        \* the inode a request writes
  offset,    \* chunks it has written
  object,    \* the content a request named its datastore object after
  overlap,   \* history: two requests have been downloading at a time
  restarts

vars == <<data, used, tmp, dest, pc, fd, offset, object, overlap, restarts>>

Inodes  == 1 .. Cardinality(Callers)
Image   == 1 .. Chunks
Loading == {"get", "create", "copy", "rename"}
Labels  == {"idle", "stat", "hash", "done", "failed"} \cup Loading

TypeOK ==
  /\ data \in [Inodes -> SUBSET Image]
  /\ used \in 0 .. Cardinality(Callers)
  /\ tmp \in Inodes \cup {NoFile} /\ dest \in Inodes \cup {NoFile}
  /\ pc \in [Callers -> Labels]
  /\ fd \in [Callers -> Inodes \cup {NoFile}]
  /\ offset \in [Callers -> 0 .. Chunks]
  /\ object \in [Callers -> SUBSET Image]
  /\ overlap \in BOOLEAN
  /\ restarts \in 0 .. MaxRestarts

Init ==
  /\ data = [i \in Inodes |-> {}]
  /\ used = 0
  /\ tmp = NoFile /\ dest = NoFile
  /\ pc = [r \in Callers |-> "idle"]
  /\ fd = [r \in Callers |-> NoFile]
  /\ offset = [r \in Callers |-> 0]
  /\ object = [r \in Callers |-> {}]
  /\ overlap = FALSE
  /\ restarts = 0

-----------------------------------------------------------------------------
Goto(r, label) == pc' = [pc EXCEPT ![r] = label]

Arrive(r) ==
  /\ pc[r] = "idle"
  /\ Goto(r, "stat")
  /\ UNCHANGED <<data, used, tmp, dest, fd, offset, object, overlap, restarts>>

\* A cached file of any size above zero is taken; else the image is fetched.
Stat(r) ==
  /\ pc[r] = "stat"
  /\ IF dest # NoFile /\ data[dest] # {}
     THEN Goto(r, "hash") /\ UNCHANGED overlap
     ELSE /\ Goto(r, "get")
          /\ overlap' = (overlap \/ \E s \in Callers : pc[s] \in Loading)
  /\ UNCHANGED <<data, used, tmp, dest, fd, offset, object, restarts>>

\* The GET is answered, or fails.
Get(r) ==
  /\ pc[r] = "get"
  /\ Goto(r, "create") \/ Goto(r, "failed")
  /\ UNCHANGED <<data, used, tmp, dest, fd, offset, object, overlap, restarts>>

\* os.Create of the .partial name: an existing file is emptied, not replaced.
Create(r) ==
  /\ pc[r] = "create"
  /\ IF tmp # NoFile
     THEN data' = [data EXCEPT ![tmp] = {}] /\ UNCHANGED <<used, tmp>>
     ELSE used' = used + 1 /\ tmp' = used + 1 /\ UNCHANGED data
  /\ fd' = [fd EXCEPT ![r] = tmp']
  /\ Goto(r, "copy")
  /\ UNCHANGED <<dest, offset, object, overlap, restarts>>

\* io.Copy writes the next chunk at its own offset ...
Write(r) ==
  /\ pc[r] = "copy" /\ offset[r] < Chunks
  /\ data' = [data EXCEPT ![fd[r]] = @ \cup {offset[r] + 1}]
  /\ offset' = [offset EXCEPT ![r] = @ + 1]
  /\ UNCHANGED <<used, tmp, dest, pc, fd, object, overlap, restarts>>

\* Mutant: the error of the copy is not looked at.
CopyFails_Ignored(r) ==
  /\ pc[r] = "copy"
  /\ Goto(r, "rename")
  /\ UNCHANGED <<data, used, tmp, dest, fd, offset, object, overlap, restarts>>

\* ... fails, and the name, whoever's it is, is removed ...
CopyFails(r) ==
  /\ pc[r] = "copy"
  /\ tmp' = NoFile
  /\ Goto(r, "failed")
  /\ UNCHANGED <<data, used, dest, fd, offset, object, overlap, restarts>>

\* ... or reaches the end; the file is closed, or that fails and leaves the name.
Close(r) ==
  /\ pc[r] = "copy" /\ offset[r] = Chunks
  /\ Goto(r, "rename") \/ Goto(r, "failed")
  /\ UNCHANGED <<data, used, tmp, dest, fd, offset, object, overlap, restarts>>

\* os.Rename gives the file of that name, whoever made it, the final name.
Rename(r) ==
  /\ pc[r] = "rename"
  /\ \/ tmp # NoFile /\ dest' = tmp /\ tmp' = NoFile /\ Goto(r, "hash")
     \/ Goto(r, "failed") /\ UNCHANGED <<tmp, dest>>
  /\ UNCHANGED <<data, used, fd, offset, object, overlap, restarts>>

\* contentISOName reads the cached file.
Hash(r) ==
  /\ pc[r] = "hash"
  /\ object' = [object EXCEPT ![r] = data[dest]]
  /\ Goto(r, "done")
  /\ UNCHANGED <<data, used, tmp, dest, fd, offset, overlap, restarts>>

\* The gateway restarts: the files stay.
Restart ==
  /\ restarts < MaxRestarts
  /\ restarts' = restarts + 1
  /\ pc' = [r \in Callers |-> IF pc[r] \in {"idle", "done"} THEN pc[r] ELSE "failed"]
  /\ UNCHANGED <<data, used, tmp, dest, fd, offset, object, overlap>>

Step(r) ==
  \/ Stat(r) \/ Get(r) \/ Create(r) \/ Write(r) \/ CopyFails(r) \/ Close(r) \/ Rename(r) \/ Hash(r)

\* Every request is over.
AllReturned ==
  /\ \A r \in Callers : pc[r] \in {"done", "failed"}
  /\ UNCHANGED vars

Next ==
  \/ \E r \in Callers : Arrive(r) \/ Step(r)
  \/ Restart
  \/ AllReturned

Spec == Init /\ [][Next]_vars
-----------------------------------------------------------------------------
(***************************************************************************)
(* Properties.                                                             *)
(***************************************************************************)
\* As long as no two downloads overlapped, nothing incomplete gets the final
\* name, whatever fails and whenever the gateway restarts, so every object is
\* named after the whole image.
CachedWhole ==
  ~overlap =>
    /\ dest # NoFile => data[dest] = Image
    /\ \A r \in Callers : pc[r] = "done" => object[r] = Image

\* "identical bytes still upload once": all requests for the image name one
\* datastore object.
OneObjectPerImage ==
  \A r, s \in Callers : pc[r] = "done" /\ pc[s] = "done" => object[r] = object[s]
=============================================================================
