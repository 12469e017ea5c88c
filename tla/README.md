# Verification of rf2vc

rf2vc lets a bare-metal installer (Ironic, OpenShift's assisted installer) drive
vSphere VMs as if they were Redfish machines: it answers Redfish, finds the vCenter a
BIOS UUID is mapped to, and turns *insert this ISO*, *power*, *boot from CD* into
vSphere calls. This directory holds TLA+ models of its logic, TLC runs over small
instances, and TLAPS proofs for every instance.

## The system

| Component | State | Operations | Called by / calls |
|---|---|---|---|
| Listeners, auth (`cmd/gateway`) | mounted credentials, last good set | basic, token and proxy auth | every request; `kubeauth` for tokens |
| Redfish (`internal/redfish`) | none | Reset, PATCH boot, Insert/EjectMedia, reads | pool, store (dry-run), client |
| REST API (`internal/api`) | none | vCenters, mappings, settings, power, tests and lights, activity | store, pool, vcsync, probes |
| Store (`internal/store`) | vCenters, mappings, settings, in memory and in `state.json` | upsert, delete, dry-run switches, merge of a ConfigMap | API, vcsync, start-up |
| vcsync + kube | ConfigMaps of the namespace | load at start, export after an edit, delete | API and start-up; Kubernetes |
| Pool (`vsphere/pool.go`) | one client per vCenter | ClientForUUID, For, Invalidate, CloseAll | Redfish, API, shutdown |
| Client (`vsphere/client.go`) | session, `mediaISO` | ensure, Close, Insert/EjectMedia, Reset, boot order | vSphere |
| VM lookup (`client.go`, `folder_vms.go`) | uuid cache, remembered denial of the search index | findByUUID, folder walk | every operation on a VM |
| ISO staging (`vsphere/iso.go`) | in-flight table, serial lock of a client; files of the datastore | `uploadISOIfNeeded` | InsertMedia; vSphere datastores |
| ISO download (`client.go`) | cache directory shared by all clients | `downloadISO`, `contentISOName` | InsertMedia |
| Probes (`vsphere/probe.go`) | a client of their own for one request | connection test, health, mapping status | REST API; vSphere |
| Activity bus | ring of events, last id | Emit, Since, Snapshot | everyone; polled by the web UI |
| kubeauth | cache of reviewed tokens | Review | tokenAuth; Kubernetes |
| Configuration, deployment, rest of the web UI | none | read once, or build-time | |

Each HTTP request runs on a goroutine of its own and its context is cancelled when the
caller hangs up. What makes the system hard:

* nothing locks a VM: the vSphere calls of two requests on it interleave freely, and a
  vSphere task goes on after the request that started it gave up;
* Ironic retries, so the same ISO is inserted several times at once, through a
  single-flight table and a lock that leaders must hand on whatever goes wrong, even when
  the pool takes their session and they panic;
* `state.json`, the memory and the ConfigMaps are three copies of one configuration,
  written one after the other, with failures and restarts in between;
* a request takes the dry-run switch, the mapping, the vCenter, the client and its session
  under one lock after the other, while the API changes each of them;
* three caches (uuid, token reviews, mounted credentials) are filled by calls that take any
  time, outside their lock or while the source changes;
* the page of the activity log polls, reloads, and handles the answers in whatever order
  they come.

`PROJECT.json` lists every such hazard with the line where it bites.

## Modules

| Module | Models | Notes |
|---|---|---|
| `IsoUpload` | `uploadISOIfNeeded` | one action per step between two points where another goroutine can interfere |
| `SingleFlight`, `IsoUploadRefinement` | what a single-flight table promises, and how the upload implements it | the abstract table knows no datastore |
| `IsoDownload` | `downloadISO`, `contentISOName` | files are inodes with names |
| `VMedia` | the operations on one VM | vSphere is the environment |
| `Gateway` | handlers, dry-run gate, mappings, pool, sessions | composes store, pool, clients and API changes |
| `StoreState`, `Store` | what the store holds; its operations, its file, and start-up | one operation at a time, step by step to the disk |
| `VCSync` | vCenters in the store and in ConfigMaps | Kubernetes and GitOps are the environment |
| `VCenterMatch` | how a ConfigMap finds its vCenter record | shared by `Store` and `VCSync` |
| `Expiry` | the clock behind the time-outs | shared by the next three |
| `TokenReview` | `kubeauth.Review` and `tokenAuth` | |
| `RedfishClients` | `basicAuth` and the reload of mounted credentials | |
| `VMLookup` | `findByUUID`, its cache and its folder gate | |
| `ActivityBus` | the ring, and a page that polls and reloads it | requests overlap |
| `Probe` | the diagnostics of `probe.go` | no parameters: TLC exhausts it |
| `Caches` | the seven of `IsoDownload`, `TokenReview`, `RedfishClients`, `VMLookup`, `ActivityBus`, `Probe`, `Store` side by side | they share no state; one run and one module of proofs for all |
| `*Proofs` | theorems about the module of that name | |
| `MC*` | the instances TLC checks | `MCLive` puts the uploads, a VM and the pool side by side, which share no state |

Definitions named `Action_Change` right before an action are variants of it with a
plausible bug, which the properties are tried on. No specification uses them.

**IsoUpload.** A request is one call. `pc` follows the function: `Stat` is the look
before the table, `Join`/`Lead` the critical section of `uploadMu`, `Await` a waiter's
`select`, `Acquire` the lock `uploadSerial`, `Recheck` the look under it, `Prepare` the
folder and local size, then per attempt a host PUT and, if it fails, a vCenter PUT
(`PutBytes` makes the file exist, `PutAcked` completes it, `HostPutFails` and
`AttemptFails` are the errors, after which the file may be untouched, partial, or whole
with only the answer lost), `Confirm` the look after the PUT, `Backoff` the pause.
`Unwind` is a leader's return: Go runs deferred calls last-in first-out, so
`uploadSerial` is unlocked first, then `Land` stores the error and closes `done`, then
`Forget` deletes the entry. `flight` and `serial` are indexed by client because the code
keeps them in `Client`. A file is absent, partial or full; `Exists` is true for the
last two, as in `datastoreFileExists`. Contexts are cancelled at any time and the gateway
may restart.
`Close` is the pool emptying the client (`c.client` and `c.ds` are nil: `session` is *gone*).
The next `ensure` logs in again (`Ensure`); a leader that uses the session before one does
panics (`Break`). Its deferred functions run with the named `err` still nil, so `Land`
closes the call as if all were well. `SingleFlight` says so too: a leader may break off
without a decision, and then its followers are told of a success. A label of `pc` stands for
the code up to the next one, so whether a `Close` met the leader before or after its last use
of the session there is a choice.

**IsoDownload.** `tmp` and `dest` are the two names of an image in the cache directory and
the inodes they stand for; a request writes the inode it opened (`fd`), whatever becomes of
the name. `Create` empties an inode that has the name, `CopyFails` removes the name,
`Rename` moves it. Files outlive a restart.

**VMedia.** `Begin` stands for the handler's call and the VM lookup, `Stage` for download
and upload (`IsoDownload`, `IsoUpload`); then each vSphere call of the operation is an
action. A call succeeds, or its request sees an error: nothing was done, it was done, or
(`late`) it will be done at some time, since `waitTask` returns on `ctx.Done()` while the
task runs on. vSphere's rules are those the code states: a connected CD-ROM ignores
a new backing, a running guest may lock its CD-ROM, a VM that starts connects what is
marked *start connected*. The read of the power state and the power task it leads to are
one step.

**Gateway.** A request's `pc` names the critical section it takes next: `Gate`
(`DryRunForUUID`), `Lookup` (`LookupUUID`), `Fetch` (`GetVCenterSecret`), `For` and
`Replace` (`Pool.For` under `Pool.mu`, the second half waiting for the mutex of the client
it closes), `Ensure`, `LoggedIn`, `LoginFails` (`ensure` under the client's mutex), `Act`
(the operation, one step here). The API edits, creates, deletes, maps and switches at any
time; `Invalidate` and `Drop` follow an edit or a delete, `Stop` and `CloseAll` are the
shutdown. `ids`, `eps` and `dry` are histories: what the store said since the request came.

**Store.** Every operation holds `s.mu` from its change of the memory to its return, so
one `phase` follows it: memory changed (`Commit`), temporary file being written
(`WriteTmp`, `TmpWritten`), renamed (`Rename`), caller told (`Reply`). `PersistFails`
leaves the memory changed, as the code does. `stage` follows `main`: open, seed, load
the ConfigMaps, serve; a failure of the first two ends the process (a `Crash`), of the
third it does not. Requests refused without a change are not steps.

**VCSync.** `stage` follows start-up: `Start` lists the ConfigMaps, `Load` applies one,
`ExportNext` takes up a vCenter none of them defines, `Started` lets the listeners go. An
API request changes the store (`Create`, `Edit`, `SetDryRun`; `CheckDelete`, `Fetch` and
`Remove` for a delete), then `Saved` reads the vCenter again and `export` runs:
`TryBase`/`TryLonger` are `freeName`, `Get` the read of a known ConfigMap, `Write` the
create or update, `Record` the note in the store; `Unmap` is `Deleted`. Between any two of
these another request, GitOps or a restart may step in, as no lock is held over them. The
goroutine of `main` runs the same steps as process `Boot`. A copy of a ConfigMap is
*fresh* until someone writes it, which is what its resourceVersion tells Kubernetes. Each
call may fail, before or after its effect (`Fault`, `disturbed`). An operation of the
store is one step here: `Store` is about its parts, and shows that what a caller was told
survives a restart. The gateway is assumed to run in a cluster.

**TokenReview, RedfishClients, VMLookup.** Each counts time in ticks. `TokenReview` reads
the clock and the cache (`Present`), asks Kubernetes twice without a lock (`WhoAmI`,
`Allowed`) and stores the answer; tokens are revoked meanwhile. `RedfishClients` reads the
mounted files one by one under the mutex (`CheckStale`, `ReadFile`, `Loaded`, `LoadFails`)
while the kubelet swaps them, and compares outside it. `VMLookup` follows one UUID through
cache, search index, folder gate, folder listing and the match of its VMs, while VMs move
and the account's rights change. Here a lookup and a reading take at most `Slack` ticks: they
stamp their result at the end, and without a limit nothing could be said of its age.

**ActivityBus.** `Draw` takes an id from the counter, `Put` the lock of the ring. `Ask`,
`Answer`, `Handle` and `Fail` are `refreshActivity` of `app.js` around its `await`: `after` is
read when the request is sent, the API answers with `Since` or `Snapshot`, and what came is
compared with the page's last id when it is handled; any number of requests, full or not, are
under way (`Slots`). An answer is the set of the places in the ring it takes, with their ids.
`overtaken` remembers the ids that came into the ring after a greater one, whether or not that
one is still there; `older` what a full answer cut off; `lost` what the page has let go of or
jumped over, see below.

**Probe.** One request of each kind; each call has any outcome. An error text is the set of
the words the code searches it for, and the names a user chose may bring in such words.

**Caches.** What the gateway keeps for a while or on disk, and the probes: `part` says which of
the seven a behaviour is about, the others rest. Those that need one have their own clock, and
the properties are stated in the module of the part.

## Runs

| Run | Shows | Instance |
|---|---|---|
| `upload` | one PUT per client at a time; nobody waits for a call without a leader; the look under the lock still holds at the first byte; a file reported uploaded is never overwritten; success means a file, unless a leader panicked; the in-flight table implements `SingleFlight` | three requests on one client, two for one file; two attempts; one restart or `Close`; the file may be there already |
| `upload_present` | **violated**: a request is told *present* on a partial file | as above |
| `upload_panic` | **violated**: a waiter returns success with no file on the datastore | three requests on one client for one file; two attempts; one `Close` |
| `download` | **violated**: one image gets two datastore objects | three requests for one image of two chunks, one restart |
| `vm` | an undisturbed insert replaces the CD, records it and restores the power; an undisturbed eject undoes an insert; retries of one image converge | two inserts of A or B, and an eject or a third insert; one late task |
| `vm_eject` | **violated**: an eject returns success with a VM it powered off left off | an insert, an eject and any power or boot request |
| `gateway` | a request drives what was stored for its UUID while it ran; dry-run from before it came is honoured; every session is the pool's to close, or its client was closed under a request; the mutexes are taken in one order | two requests, one VM, two vCenters, two endpoints, three clients; two changes by the API; a shutdown |
| `vcsync` | rf2vc never writes a ConfigMap GitOps owns, though it may change hands between read and write; no two vCenters share a ConfigMap as long as GitOps keeps out; dry-run that is on stays on; an undisturbed start ends with store and ConfigMaps in agreement, whatever came before | two ids, one name, two requests, two GitOps changes, one restart |
| `vcsync_lost` | **violated**: two overlapping requests leave the older fields in the ConfigMap | one id, two requests |
| `vcsync_delete` | **violated**: a delete removes a ConfigMap GitOps has adopted | one id, two requests, one GitOps change |
| `caches` | a revoked token, a rotated password and a VM that was moved or made again are let go of in time; a page misses no event but those `PollsMissNothing` names, and adds no line that is there already; downloads that do not overlap leave only whole files; a probe logs out and its checklist and lights say what happened; `state.json` is always loadable, never older than what a caller was told, never with a dangling mapping; passwords survive blank edits and vanished Secrets | `Ttl` 2, `Slack` 1, four ticks (`VMLookup`: 1, 1, 3); two requests each; a ring of three, four events, two requests of the page under way; three downloads, one restart; one probe; a store of two ids, one name, ConfigMap, password and UUID, three operations. 2 million states |
| `live` | every upload, every request on a VM and every request to the pool ends | three uploads of one file, without a restart or `Close`; an insert, an eject and a restart or boot change; two requests and an edit, delete or shutdown of one vCenter |

Why the bounds are enough. Three uploads give a leader, a waiter, and a third that comes while
the first one unwinds, or leads another file and competes for the lock. Two attempts give a
first, a last and one backoff; the code's four add no new kind of state. One restart separates
the work before it from the work after it; a `Close` needs no second one to be met by a leader,
by its waiters and by the request that logs in again. On a VM, a request can be disturbed by
one that is ahead and one that is behind; a second late task only adds another late choice. In
`gateway`, two changes make an edit and its reversal, a dry-run switch and a move of the
mapping, a delete and a new vCenter, at any two points of a request; the second request is the
one that logs in or closes under it. In the store, three operations make a vCenter, map a VM to
it and remove or change either, with death or a failed write at each step; a second id is what
a ConfigMap may match instead. In `vcsync`, two vCenters of one name want one ConfigMap, two
requests overlap, two GitOps changes can adopt or add a ConfigMap and then remove it, and the
restart separates what was half done from the start that repairs it; the start before the first
request is a third actor. With two names (renames, 8.6 million states) the properties hold too;
that instance is not kept because it takes minutes. In `caches`, a time-out of two ticks has an
inside and a boundary, and the clock runs past the time-out of what was stored last; a ring of
three with a limit of two answers long, short and empty, four events make it lose its first,
and two requests of the page are what can be out of order. The proofs hold for any number of
all of these. Ids, requests and retries are interchangeable where the `MC` module says so; runs
with symmetry check safety properties only.

Fairness. `MCLive!Spec` is weak fairness of each request's own steps (`Goes`): Go schedules
runnable goroutines, its mutexes hand over in the end, and every vSphere call returns or
fails (contexts and timeouts). Weak fairness of a step whose lock is taken promises nothing
by itself; no request starves in these instances since each one takes a lock a bounded
number of times. Arrivals, cancellations, API changes, shutdowns, restarts and late tasks
are not fair.

## What the violated runs mean

* `upload_panic`. Editing or deleting a vCenter closes its client under a running upload. The
  leader panics, and `call.err = err` in its deferred function stores nil, since only a return
  sets the named result. Every waiter returns success and goes on to attach an ISO that need
  not be there. `SuccessMeansPresent` in the run `upload` shows that this is the only way to it.
  An error set before the first step and cleared at a return would do.
* `upload_present`. `datastoreFileExists` takes any file above zero bytes for the ISO and
  is asked before the in-flight table. So a request that arrives during an upload is told
  the ISO is there, and a VM may boot a truncated image; a PUT that broke off leaves a
  file no later request will replace. Comparing the size with the local file would do.
* `download`. The `.partial` name depends on the URL alone. A second request empties the
  file the first is writing; whoever ends first gives it the final name while the other
  still writes it, and a third request that finds that name hashes an incomplete file.
  `CachedWhole` in the run `caches` shows that overlap is the only way to this. A name of its own
  for each download would do.
* `vm_eject`. `EjectMedia` drops the error of `PowerState` and goes on as if the VM were
  off. If the CD-ROM is then locked it powers the VM off, and returns success without
  powering it on, against its comment *Always restore prior power*.
* `vcsync_lost`. `Saved` reads the vCenter and `export` reads the ConfigMap after it, so
  the resourceVersion is fresh when the vCenter is not, and does not guard against lost
  updates. The older fields win at the next start. Reading the ConfigMap first would do.
* `vcsync_delete`. `Deleted` goes by the origin the store has recorded, which only a start
  refreshes, not by the label of the ConfigMap it deletes.

## What else the models reach

Nothing in the repository rules these out; the properties are stated so as to leave them
room, and say where.

* After an export overlapped the delete of its vCenter, its ConfigMap stays, and the next
  start makes a vCenter of it again.
* Once GitOps has adopted and removed a ConfigMap, its vCenter still names it while
  `freeName` may give the name to another one: `OneVCenterPerConfigMap` ends at the first
  GitOps change, and `StartReconciles` speaks of vCenters that share nothing.
* `OneVCenterPerConfigMap` also ends at the first start that finds a ConfigMap whose vCenter the
  store no longer has (`orphaned`). An export whose answer was lost leaves vCenter i of name n
  the ConfigMap `Longer(n, i)` beside `Base(n)`; the delete of i removes only the one it names,
  and a vCenter k of the same name takes `Base(n)`. An export of i that is still under way then
  gets `Base(n)`, without a look at its id, and writes i over it. The next start makes i again
  of `Longer(n, i)` and finds i, by id, for `Base(n)`, which k names as well.
* A request that took its vCenter before an edit or a delete may put a client for the old
  endpoint back into the pool after `Invalidate`. It stays, logged in, until the next request
  for that vCenter replaces it or, after a delete, until the shutdown. `DrivesWhatIsStored`
  shows that no later request uses it.
* A client that was closed under a request logs in again for it, outside the pool; nobody
  logs that session out (`shared` in `SessionsAccountedFor`). An operation that was past
  `ensure` finds no session and panics, which net/http turns into a failed request (`IsoUpload`
  has what that means for those who wait for it).
* `ensure` never renews a session vCenter has let expire: each operation on it fails until
  the client is closed.
* The client's `mediaISO` goes with the client when the pool replaces it.
* An insert that fails after its power-off leaves the VM off, and the retry, which reads it
  as off, does not power it on.
* A denied search index is remembered for the life of the client, whatever rights are granted
  later. An image that changes under one URL is never downloaded again.
* A full reload of the activity log replaces the lines and takes the last id of its answer,
  even if it is older than what polls have shown meanwhile. A poll that was sent before and
  answered after it then jumps over the events in between, which no later poll brings; and a
  full reload that fails or is empty takes all lines away (`lost` in `PollsMissNothing`). The
  events come back with the next full reload.
* The last event of an answer need not have the greatest id in it. When the last id falls back
  to such a smaller id, the next poll brings lines that are on the page, against *never render
  an id twice* (`NeverRenderedTwice` names the case); and an event that a greater one overtook
  on its way into the ring may never be shown.
* After a restart event ids begin again, and an open page that polls with a greater id sees
  nothing until they catch up.
* The health probe never shows a red light for a vCenter that is down: every error of
  `NewClient` begins with words it takes for a failed login, which is yellow. A folder that
  is missing fails the connection test and leaves the health verdict OK.

## What is proved

Each theorem holds for all values of the constants, from the assumptions its module names
(`IsoUploadAssumption`, `VMediaAssumption`, `CachesAssumption`, ...): limits are natural
numbers, tables are functions, API and Redfish requests are not the same, and a marker such as
`Nil` is none of the values it marks the absence of (`FileAssumption` and `RecordAssumption`
say it of whole records). The sets may be of any size. Few of the properties are inductive;
what each proof adds is below. One lemma per invariant shows that a step preserves it, with one
case per action; all inductive invariants were model-checked before they were proved.

**IsoUploadProofs**: `TypeOK` and the five safety invariants of the run `upload`. `IInv` adds

* `SerialInv`: who is in the section holds its client's lock (exclusion follows, since a
  lock has one holder);
* `FlightInv`: every leader, and only a leader, is listed under its own key. Without it a
  second leader might appear for a path, and neither `FirstPutFindsPathFree` nor
  `UploadedStaysWhole` would survive a step;
* `CallInv`: a call is open exactly while its leader is short of the deferred close;
* `WaitInv`: a waiter's leader has made a call, for the waiter's own key;
* `AttemptInv`: the counter is positive and within the limit from the first PUT on;
* `PresentInv`: a request that saw the file, or wrote it, is right, since nothing removes
  files; a closed call without an error means the same for its waiters, unless its leader
  panicked;
* `WriterInv`: while somebody can still write a path, nobody has reported it uploaded (on
  a path with one client). It makes `UploadedStaysWhole` inductive.

It also shows that `Spec` implements `SingleFlight!Spec` under the mapping of
`IsoUploadRefinement`. Beyond `IInv` that takes `ClosedInv`: a closed call says what its leader
returns, or *ok* if it panicked. Each action is a step of the table or leaves it as it is.

**VMediaProofs**: `TypeOK`, `SoloInsertDelivers`, `SoloEjectUndoesInsert`,
`RetriesConverge`. `IInv` says of a request that has the VM to itself what vSphere has done
for it at each label (`InsertOK`, `EjectOK`), and that the only task it may leave behind is
the shutdown of a guest it powers off next. `RetryInv` is about retries that overlap in any
number: whatever one has undone, the power or the tray, is still to be put back by it or by
another one, and a late shutdown is followed by a power-off.

**GatewayProofs**: `TypeOK`, `LocksAreOrdered`, `DrivesWhatIsStored`, `DryRunHonoured`,
`SessionsAccountedFor`. The invariant follows what a request has taken: id, endpoint and
client were each right at some time since it came (`Rightly`), and for a change dry-run did not
cover them all the time, or the mapping moved (`Spares`); a pool slot holds a client of its
vCenter (`PoolInv`); a client in use or with a session is in the pool or was closed under a
request (`SessionInv`).

**StoreProofs**: `TypeOK`, `ReferentialIntegrity`, `AlwaysLoadable`, `AckedIsDurable`,
`PasswordsAreKept`. Every operation makes a whole store without dangling mappings that loses
no password (`Sound`); `PersistInv` ties the temporary file, the disk and the memory to the
phase.

**CachesProofs**: the fourteen properties of the run `caches`. A step of `Caches` is
a step of one part, so each part may have an inductive invariant of its own:

* tokens and VMs (in **TokenReviewProofs** and **VMLookupProofs**, for those modules alone, and
  taken over): each kept answer has a time, `Ttl` before it expires or at most `Slack` before it
  was stamped, at or after which it was true; what was so at a time that is past stays so
  (`Since`);
* the store (in **StoreProofs**, for that module alone, and taken over);
* `SecretInv`, clients: every password in a buffer, in the set the gateway goes by or in the set
  a request was given was in its file at some time (`Saw`), which is within the reading under
  way, at most `Slack` before the stamp, and less than `Ttl + Slack` before the request; and the
  file has changed since then if it holds another one now. Only one request reads at a time, and
  a verdict is about the set the request was given, even when the gateway has gone on to another;
* `BusInv`, activity: the ids of drawn events and of those in the ring are all different, and an
  event behind one with a greater id is in `overtaken` (`OrderInv`). `AskedInv` says what an
  answer on its way may still be relied on for when it is handled: it is in the order of the ring,
  and what it leaves out of the ring's events after its `after` was cut off before it, was
  overtaken, or is later than all it brings (what a poll returns is a prefix of what matches).
  `PaneInv`: the last id is behind a line of the page only if it fell back to an overtaken one;
* `IsoInv`, downloads: a request that has not created a file has none open, so there is an inode
  for each (`FileInv`); while downloads do not overlap, the `.partial` name is the file of the
  only one, holds what it has written so far, and is not the cached file (`SoleInv`). Every
  failure, and a restart, lets go of the file or leaves it to be emptied by the next one;
* `ProbeInv`, probes: what is behind a probe was found, what is ahead of it was not looked at,
  and the rows of the checklist and the lights agree with that.

**VCSyncProofs**: `TypeOK`, `NeverWritesGitOps`, `DryRunStaysOn`, `OneVCenterPerConfigMap`,
`StartReconciles`. `JobInv` types the local copies by label, `FreshInv` says a fresh copy is of
a ConfigMap rf2vc owns, `StageInv` that requests run only while the gateway serves, `DryInv`
that no runtime ConfigMap, stored or listed, ever says dry-run off, so that no load can switch
it off.

* `OwnInv`, for `OneVCenterPerConfigMap`: a ConfigMap a vCenter names, or a request is about to
  write or record for it (`Holds`), is there, carries the id of no other vCenter, and is held by
  that one alone. So `freeName` finds no name free, or its own, that somebody else holds; a
  request that is about to delete holds its ConfigMap as well, until it has gone.
* `StartInv`, for `StartReconciles`: while nothing disturbs the start, what it listed and has not
  loaded yet is what there is, each vCenter is as its ConfigMap says, or shares it, or is still
  to be exported, or is being exported (`Settled`), and what `Boot` renders is what the store
  says (`BootInv`). A write for one vCenter unsettles no other one that shares nothing.

## What is only model-checked

`EveryRequestReturns`, as liveness under fairness is beyond the prover, and the six properties
that do not hold, which TLC refutes by a behaviour each. Every safety property of the other runs
is a theorem; TLC shows what the theorems cannot, that the states they speak of are reached and
that a bug planted in the code's place breaks each property.

## Not modelled

* The configuration, which is read once, the deployment files, and the web UI but for its poll of
  the activity log.
* Routing, parsing and rendering of Redfish and REST, normalisation of names and datastores,
  and reads that only render the store, a client (`ISOCacheStatus`) or a list of VMs
  (`ListFolderVMs`, whose walk is in `VMLookup`): they keep no state a property could relate.
* Wiring of the listeners; `proxyAuth`, the files written for oauth-proxy and the shared
  account outside Redfish paths, which decide on one request by values that never change.
* HTTP to Kubernetes: what its calls do and how they fail is in `VCSync` and `TokenReview`.
* Loss of power: `Store` stops at process death. There is no fsync, so a machine that loses
  power may lose writes, which needs a fault model of the file system.
