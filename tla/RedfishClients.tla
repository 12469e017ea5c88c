---------------------------- MODULE RedfishClients ----------------------------
(***************************************************************************)
(* Basic authentication of Redfish requests: basicAuth of                  *)
(* cmd/gateway/auth.go and credentials of cmd/gateway/redfishauth.go.      *)
(* Per-client passwords come from a mounted Secret, one file per client,   *)
(* read again once they are Ttl old.  A reading holds the mutex from its   *)
(* first file to its last and is stamped at the end; the kubelet may swap  *)
(* the Secret between two files.  A failed reading keeps the last good     *)
(* set, or none if it was the first.  The set a request was given is       *)
(* compared after the mutex is released.                                   *)
(*                                                                         *)
(* Abstractions: a reading takes at most Slack ticks; a file that cannot   *)
(* be read on its own is a client that is not mounted; a file named like   *)
(* the shared account is never read, so there is none.                     *)
(***************************************************************************)
EXTENDS Expiry

CONSTANTS
  Clients,        \* per-client names
  Shared,         \* the shared account
  SharedRedfish,  \* may it be used on Redfish paths?
  Passwords,
  SharedPassword, \* the shared account's
  NoPassword,     \* no file for a client
  Callers         \* requests

VARIABLES
  mounted,   \* the password in each client's file
  since,     \* history: when the file last changed
  heldUntil, \* history: when it last ceased to hold each password, + 1
  loaded,    \* the set the gateway goes by
  loadedAt,  \* when it was stamped, + 1; 0 before the first reading
  failed,    \* history: the last reading failed
  begun,     \* when the reading under way began
  todo,      \* the files it has still to read
  buffer,    \* what it has read
  call       \* each request: its credentials, the set it was given and when

vars == <<now, mounted, since, heldUntil, loaded, loadedAt, failed, begun, todo, buffer, call>>

Mount  == Passwords \cup {NoPassword}
NoSet  == [c \in Clients |-> NoPassword]
Labels == {"idle", "read", "compare", "accepted", "refused"}
Calls  == [pc : Labels, user : Clients \cup {Shared}, pass : Passwords, at : Nat,
           given : [Clients -> Mount], stale : BOOLEAN]

TypeOK ==
  /\ now \in Nat
  /\ mounted \in [Clients -> Mount]
  /\ since \in [Clients -> Nat]
  /\ heldUntil \in [Clients -> [Passwords -> Nat]]
  /\ loaded \in [Clients -> Mount]
  /\ loadedAt \in Nat
  /\ failed \in BOOLEAN
  /\ begun \in Nat
  /\ todo \in SUBSET Clients
  /\ buffer \in [Clients -> Mount]
  /\ call \in [Callers -> Calls]

Init ==
  /\ now = 0
  /\ mounted \in [Clients -> Mount]
  /\ since = [c \in Clients |-> 0]
  /\ heldUntil = [c \in Clients |-> [p \in Passwords |-> 0]]
  /\ loaded = NoSet
  /\ loadedAt = 0
  /\ failed = FALSE
  /\ begun = 0
  /\ todo = {}
  /\ buffer = NoSet
  /\ \E p \in Passwords :
       call = [r \in Callers |-> [pc |-> "idle", user |-> Shared, pass |-> p, at |-> 0,
                                  given |-> NoSet, stale |-> FALSE]]

-----------------------------------------------------------------------------
Reading == {r \in Callers : call[r].pc = "read"}

\* Under the mutex: the last reading is recent enough.
Fresh == loadedAt # 0 /\ now - (loadedAt - 1) < Ttl

\* A request with the given set leaves the mutex, if the last reading failed
\* with a set that may be old.
Given(r, set, old) ==
  call' = [call EXCEPT ![r].pc = "compare", ![r].given = set, ![r].stale = old]

\* Mutant: every look at the set counts as a reading.
CheckFresh_Sliding(r, u, p) ==
  /\ call[r].pc \notin {"read", "compare"} /\ Reading = {}
  /\ Fresh
  /\ loadedAt' = now + 1
  /\ call' = [call EXCEPT ![r] = [pc |-> "compare", user |-> u, pass |-> p, at |-> now,
                                  given |-> loaded, stale |-> failed]]
  /\ UNCHANGED <<now, mounted, since, heldUntil, loaded, failed, begun, todo, buffer>>

\* check and clientsNow, with the set in hand ...
CheckFresh(r, u, p) ==
  /\ call[r].pc \notin {"read", "compare"} /\ Reading = {}
  /\ Fresh
  /\ call' = [call EXCEPT ![r] = [pc |-> "compare", user |-> u, pass |-> p, at |-> now,
                                  given |-> loaded, stale |-> failed]]
  /\ UNCHANGED <<now, mounted, since, heldUntil, loaded, loadedAt, failed, begun, todo, buffer>>

\* ... or with one to read, under the mutex.
CheckStale(r, u, p) ==
  /\ call[r].pc \notin {"read", "compare"} /\ Reading = {}
  /\ ~Fresh
  /\ call' = [call EXCEPT ![r] = [pc |-> "read", user |-> u, pass |-> p, at |-> now,
                                  given |-> NoSet, stale |-> FALSE]]
  /\ begun' = now
  /\ todo' = Clients
  /\ buffer' = NoSet
  /\ UNCHANGED <<now, mounted, since, heldUntil, loaded, loadedAt, failed>>

\* readClientsDir reads one file.
ReadFile(r) ==
  /\ call[r].pc = "read"
  /\ \E c \in todo :
       /\ buffer' = [buffer EXCEPT ![c] = mounted[c]]
       /\ todo' = todo \ {c}
  /\ UNCHANGED <<now, mounted, since, heldUntil, loaded, loadedAt, failed, begun, call>>

\* The set is replaced and stamped.
Loaded(r) ==
  /\ call[r].pc = "read" /\ todo = {}
  /\ loaded' = buffer
  /\ loadedAt' = now + 1
  /\ failed' = FALSE
  /\ Given(r, buffer, FALSE)
  /\ UNCHANGED <<now, mounted, since, heldUntil, begun, todo, buffer>>

\* The directory cannot be read: the last set, stamped anew, goes on.
LoadFails(r) ==
  /\ call[r].pc = "read" /\ todo = Clients
  /\ loadedAt' = now + 1
  /\ failed' = TRUE
  /\ Given(r, loaded, TRUE)
  /\ UNCHANGED <<now, mounted, since, heldUntil, loaded, begun, todo, buffer>>

\* The verdict of check on a Redfish path.
Accepts(user, pass, set) ==
  IF user \in Clients /\ set[user] # NoPassword
  THEN pass = set[user]
  ELSE user = Shared /\ SharedRedfish /\ pass = SharedPassword

\* check compares with the set it was given.
Compare(r) ==
  /\ call[r].pc = "compare"
  /\ call' = [call EXCEPT ![r].pc =
       IF Accepts(call[r].user, call[r].pass, call[r].given) THEN "accepted" ELSE "refused"]
  /\ UNCHANGED <<now, mounted, since, heldUntil, loaded, loadedAt, failed, begun, todo, buffer>>

\* The Secret is changed and the kubelet swaps the files.
Swap(c) ==
  \E m \in Mount \ {mounted[c]} :
    /\ mounted' = [mounted EXCEPT ![c] = m]
    /\ since' = [since EXCEPT ![c] = now]
    /\ heldUntil' = [heldUntil EXCEPT ![c] =
         [p \in Passwords |-> IF p = mounted[c] THEN now + 1 ELSE @[p]]]
    /\ UNCHANGED <<now, loaded, loadedAt, failed, begun, todo, buffer, call>>

Tick ==
  /\ TickUnlessDue(IF Reading = {} THEN {} ELSE {begun})
  /\ UNCHANGED <<mounted, since, heldUntil, loaded, loadedAt, failed, begun, todo, buffer, call>>

Step(r) == ReadFile(r) \/ Loaded(r) \/ LoadFails(r) \/ Compare(r)

Next ==
  \/ \E r \in Callers :
       \/ Step(r)
       \/ \E u \in Clients \cup {Shared}, p \in Passwords : CheckFresh(r, u, p) \/ CheckStale(r, u, p)
  \/ \E c \in Clients : Swap(c)
  \/ Tick

Spec == Init /\ [][Next]_vars
-----------------------------------------------------------------------------
(***************************************************************************)
(* Properties.                                                             *)
(***************************************************************************)
\* The client's file held the password at the given time, or has since.
HeldSince(c, p, time) == mounted[c] = p \/ time < heldUntil[c][p]

\* The verdict on a client's password follows the Secret: unless the last
\* reading failed, an accepted password was mounted less than Ttl + Slack before
\* the request, or since, and a refused one has not been mounted all that time
\* ("rotated Secrets apply without a restart").
VerdictFollowsSecret ==
  \A r \in Callers :
    LET c == call[r].user IN
      c \in Clients /\ ~call[r].stale =>
        /\ call[r].pc = "accepted" =>
             \E age \in 0 .. Ttl + Slack - 1 :
               age <= call[r].at /\ HeldSince(c, call[r].pass, call[r].at - age)
        /\ call[r].pc = "refused" =>
             \/ mounted[c] # call[r].pass
             \/ call[r].at < since[c] + Ttl + Slack
=============================================================================
