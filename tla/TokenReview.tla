----------------------------- MODULE TokenReview -----------------------------
(***************************************************************************)
(* Bearer tokens of the system-caller API: tokenAuth of                    *)
(* cmd/gateway/auth.go and Reviewer.Review of internal/kubeauth.  A token  *)
(* is accepted when Kubernetes says who it is and that it may get the      *)
(* rf2vc Service; the answer is kept for Ttl.  Requests run concurrently   *)
(* and the reviewer's mutex is not held over the two calls to Kubernetes,  *)
(* which take any time; meanwhile a token may be revoked.                  *)
(*                                                                         *)
(* Abstractions: requests without a token are refused at once and left     *)
(* out; a call that fails for any reason refuses the request; the v1 and   *)
(* v1beta1 forms of SelfSubjectReview are one call.                        *)
(***************************************************************************)
EXTENDS Expiry, FiniteSets

CONSTANTS
  Tokens,
  Callers,     \* requests
  CacheLimit   \* entries above which a review drops expired ones; 1024 in the code

VARIABLES
  standing,   \* what Kubernetes thinks of each token
  lastGood,   \* history: the last time a token that is not allowed now was, + 1
  cache,      \* when the kept answer for a token expires; 0 without an entry
  call        \* each request: where it is, its token, when Review began

vars == <<now, standing, lastGood, cache, call>>

Standings == {"allowed", "forbidden", "unknown"}
Labels    == {"idle", "whoami", "allowed", "store", "accepted", "refused"}

TypeOK ==
  /\ now \in Nat
  /\ standing \in [Tokens -> Standings]
  /\ lastGood \in [Tokens -> Nat]
  /\ cache \in [Tokens -> Nat]
  /\ call \in [Callers -> [pc : Labels, token : Tokens, began : Nat]]

Init ==
  /\ now = 0
  /\ standing \in [Tokens -> Standings]
  /\ lastGood = [t \in Tokens |-> 0]
  /\ cache = [t \in Tokens |-> 0]
  /\ call \in [Callers -> [pc : {"idle"}, token : Tokens, began : {0}]]

-----------------------------------------------------------------------------
Goto(r, label) == call' = [call EXCEPT ![r].pc = label]

\* tokenAuth hands the token to Review, which reads the clock and then, under
\* the mutex, the cache: an entry that has not expired answers at once.
Present(r, t) ==
  /\ call[r].pc \in {"idle", "accepted", "refused"}
  /\ call' = [call EXCEPT ![r] =
       [pc |-> IF cache[t] # 0 /\ now < cache[t] THEN "accepted" ELSE "whoami",
        token |-> t, began |-> now]]
  /\ UNCHANGED <<now, standing, lastGood, cache>>

\* SelfSubjectReview with the token itself: 401 for one Kubernetes does not know.
WhoAmI(r) ==
  /\ call[r].pc = "whoami"
  /\ \/ standing[call[r].token] # "unknown" /\ Goto(r, "allowed")
     \/ Goto(r, "refused")
  /\ UNCHANGED <<now, standing, lastGood, cache>>

\* SelfSubjectAccessReview: may the token get the Service?
Allowed(r) ==
  /\ call[r].pc = "allowed"
  /\ \/ standing[call[r].token] = "allowed" /\ Goto(r, "store")
     \/ Goto(r, "refused")
  /\ UNCHANGED <<now, standing, lastGood, cache>>

Kept == {t \in Tokens : cache[t] # 0}

\* A full cache drops what had expired when the review began.
Pruned(began) ==
  IF Cardinality(Kept) > CacheLimit
  THEN [t \in Tokens |-> IF began > cache[t] THEN 0 ELSE cache[t]]
  ELSE cache

\* Mutant: the answer is kept for Ttl from the end of the review.
StoreAnswer_FromEnd(r) ==
  /\ call[r].pc = "store"
  /\ cache' = [Pruned(call[r].began) EXCEPT ![call[r].token] = now + Ttl]
  /\ Goto(r, "accepted")
  /\ UNCHANGED <<now, standing, lastGood>>

\* The answer is kept for Ttl from the beginning of the review.
StoreAnswer(r) ==
  /\ call[r].pc = "store"
  /\ cache' = [Pruned(call[r].began) EXCEPT ![call[r].token] = call[r].began + Ttl]
  /\ Goto(r, "accepted")
  /\ UNCHANGED <<now, standing, lastGood>>

\* A token is revoked or its holder's rights change.
Revoke(t) ==
  \E s \in Standings :
    /\ standing' = [standing EXCEPT ![t] = s]
    /\ lastGood' = [lastGood EXCEPT ![t] = IF standing[t] = "allowed" THEN now + 1 ELSE @]
    /\ UNCHANGED <<now, cache, call>>

Tick ==
  /\ TickUnlessDue({})
  /\ UNCHANGED <<standing, lastGood, cache, call>>

Step(r) == WhoAmI(r) \/ Allowed(r) \/ StoreAnswer(r)

Next ==
  \/ \E r \in Callers : Step(r) \/ \E t \in Tokens : Present(r, t)
  \/ \E t \in Tokens : Revoke(t)
  \/ Tick

Spec == Init /\ [][Next]_vars
-----------------------------------------------------------------------------
(***************************************************************************)
(* Properties.                                                             *)
(***************************************************************************)
\* The token was allowed at the given time, or has been since.
AllowedSince(t, time) == standing[t] = "allowed" \/ time < lastGood[t]

\* Revocation takes hold within the time-out: a request is accepted only if
\* Kubernetes allowed its token less than Ttl before the request came, or since
\* then, however slow, concurrent or out of order the reviews are.
AcceptedWasAllowed ==
  \A r \in Callers :
    call[r].pc = "accepted" =>
      \E age \in 0 .. Ttl - 1 :
        age <= call[r].began /\ AllowedSince(call[r].token, call[r].began - age)
=============================================================================
