---------------------------- MODULE SingleFlight ----------------------------
(***************************************************************************)
(* What a single-flight table promises, whatever is behind it: of the      *)
(* callers that ask for the same key at the same time one leads, and a     *)
(* caller that joined a leader returns that leader's result or gives up    *)
(* with an error of its own.  A caller may also settle without the table.  *)
(* Where the promise ends: a leader that breaks off without a decision     *)
(* leaves its followers with success.                                      *)
(* uploadISOIfNeeded of internal/vsphere/iso.go implements this.           *)
(***************************************************************************)
CONSTANTS
  Callers, KeyOf, Nobody

VARIABLES
  role,    \* out of the table, lead, landed (decided, still listed), follow, done, dead
  leader,  \* whom a caller joined
  result   \* none, ok, err or broken (off, without a decision)

Roles   == {"out", "lead", "landed", "follow", "done", "dead"}
Results == {"none", "ok", "err", "broken"}

Listed(k) == {c \in Callers : KeyOf[c] = k /\ role[c] \in {"lead", "landed"}}

Init ==
  /\ role = [c \in Callers |-> "out"]
  /\ leader = [c \in Callers |-> Nobody]
  /\ result = [c \in Callers |-> "none"]

Become(c, newRole) == role' = [role EXCEPT ![c] = newRole]
Decide(c, res) == result' = [result EXCEPT ![c] = res]

\* Nobody is listed for the key: lead it.
Fly(c) ==
  /\ role[c] = "out"
  /\ Listed(KeyOf[c]) = {}
  /\ Become(c, "lead")
  /\ UNCHANGED <<leader, result>>

\* The leader decides, for itself and for everyone who joined it, or breaks off.
Land(c) ==
  /\ role[c] = "lead"
  /\ Become(c, "landed")
  /\ \E res \in Results \ {"none"} : Decide(c, res)
  /\ UNCHANGED leader

\* The leader leaves the table.
Leave(c) ==
  /\ role[c] = "landed"
  /\ Become(c, "done")
  /\ UNCHANGED <<leader, result>>

\* Somebody is listed for the key: follow.
Join(c) ==
  /\ role[c] = "out"
  /\ \E l \in Listed(KeyOf[c]) : leader' = [leader EXCEPT ![c] = l]
  /\ Become(c, "follow")
  /\ UNCHANGED result

\* What the followers of a leader are told.
Told(res) == IF res = "broken" THEN "ok" ELSE res

\* A follower takes over its leader's decision, or gives up.
Adopt(c) ==
  /\ role[c] = "follow"
  /\ \/ result[leader[c]] # "none" /\ Decide(c, Told(result[leader[c]]))
     \/ Decide(c, "err")
  /\ Become(c, "done")
  /\ UNCHANGED leader

\* A caller that needs no flight, cannot tell or breaks off, settles on its own.
Settle(c) ==
  /\ role[c] = "out"
  /\ Become(c, "done")
  /\ \E res \in Results \ {"none"} : Decide(c, res)
  /\ UNCHANGED leader

\* The process dies: whoever was on the way never returns.
Die ==
  /\ \E gone \in SUBSET {c \in Callers : role[c] # "done"} :
       /\ {c \in Callers : role[c] \in {"lead", "landed", "follow"}} \subseteq gone
       /\ role' = [c \in Callers |-> IF c \in gone THEN "dead" ELSE role[c]]
       /\ result' = [c \in Callers |-> IF c \in gone THEN "none" ELSE result[c]]
  /\ UNCHANGED leader

Next ==
  \/ \E c \in Callers :
       Fly(c) \/ Land(c) \/ Leave(c) \/ Join(c) \/ Adopt(c) \/ Settle(c)
  \/ Die

Spec == Init /\ [][Next]_<<role, leader, result>>
=============================================================================
