-------------------------------- MODULE Expiry --------------------------------
(***************************************************************************)
(* The clock behind the three time-outs of the gateway: token reviews      *)
(* (30 s, kubeauth.go), mounted Redfish credentials (15 s, redfishauth.go) *)
(* and VMs found by BIOS UUID (2 min, client.go).  Time is counted in      *)
(* ticks; Ttl is the time-out in question.  Slack bounds how long a reader *)
(* that stamps its result only at the end takes.                           *)
(***************************************************************************)
EXTENDS Naturals

CONSTANTS
  Ttl,      \* the time-out, in ticks
  Slack,    \* the longest a bounded reading takes, in ticks
  MaxTime   \* where the model stops counting

ASSUME ExpiryAssumption ==
  /\ Ttl \in Nat \ {0}
  /\ Slack \in Nat
  /\ MaxTime \in Nat

VARIABLE now

\* A tick, unless a reading that began at one of the times `begun` is due.
TickUnlessDue(begun) ==
  /\ now < MaxTime
  /\ \A b \in begun : now < b + Slack
  /\ now' = now + 1
=============================================================================
