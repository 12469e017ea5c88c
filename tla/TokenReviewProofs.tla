--------------------------- MODULE TokenReviewProofs ---------------------------
(***************************************************************************)
(* Proofs about TokenReview, for any tokens, requests, cache limit and     *)
(* time-out.  The inductive invariant gives each kept answer the beginning *)
(* of its review, Ttl before it expires, at which or after which the token *)
(* was allowed; what was so at a time that is past stays so (Since).       *)
(***************************************************************************)
EXTENDS TokenReview, TLAPS

\* Times in the past.
CallInv ==
  \A r \in Callers :
    /\ call[r].began <= now
    /\ call[r].pc = "store" => AllowedSince(call[r].token, call[r].began)

CacheInv ==
  \A t \in Tokens :
    cache[t] # 0 => \E began \in 0 .. now : cache[t] = began + Ttl /\ AllowedSince(t, began)

IInv == TypeOK /\ CallInv /\ CacheInv /\ AcceptedWasAllowed

\* What was so at a time that is past stays so.
Since == \A t \in Tokens, time \in 0 .. now : AllowedSince(t, time) => AllowedSince(t, time)'

\* Time does not go back, and no step changes what was so before.
LEMMA AlwaysSince ==
  ASSUME TypeOK, [Next]_vars
  PROVE  Since /\ now' \in Nat /\ now <= now'
<1>1. CASE UNCHANGED <<now, standing, lastGood>>
  BY <1>1 DEF TypeOK, Since, AllowedSince
<1>2. ASSUME NEW t \in Tokens, Revoke(t)
      PROVE  Since /\ now' \in Nat /\ now <= now'
  BY <1>2 DEF Revoke, TypeOK, Since, AllowedSince
<1>3. CASE Tick
  BY <1>3 DEF Tick, TickUnlessDue, TypeOK, Since, AllowedSince
<1> QED
  BY <1>1, <1>2, <1>3 DEF Next, Step, Present, WhoAmI, Allowed, StoreAnswer, vars

\* A request whose record stays is still right, and so is a cache that stays.
LEMMA StillRight ==
  ASSUME ExpiryAssumption, IInv, [Next]_vars
  PROVE  /\ \A r \in Callers :
              call'[r] = call[r] =>
                /\ call'[r].began <= now'
                /\ call'[r].pc = "store" => AllowedSince(call[r].token, call[r].began)'
                /\ call'[r].pc = "accepted" =>
                     \E age \in 0 .. Ttl - 1 :
                       age <= call'[r].began /\ AllowedSince(call[r].token, call[r].began - age)'
         /\ \A t \in Tokens :
              cache'[t] = cache[t] /\ cache'[t] # 0 =>
                \E began \in 0 .. now' : cache'[t] = began + Ttl /\ AllowedSince(t, began)'
<1>1. Since /\ now' \in Nat /\ now <= now' /\ now \in Nat
  BY AlwaysSince DEF IInv, TypeOK
<1>2. ASSUME NEW r \in Callers, call'[r] = call[r]
      PROVE  /\ call'[r].began <= now'
             /\ call'[r].pc = "store" => AllowedSince(call[r].token, call[r].began)'
             /\ call'[r].pc = "accepted" =>
                  \E age \in 0 .. Ttl - 1 :
                    age <= call'[r].began /\ AllowedSince(call[r].token, call[r].began - age)'
  <2>1. call[r].began \in 0 .. now /\ call[r].token \in Tokens
    BY DEF IInv, TypeOK, CallInv
  <2>2. call[r].pc = "store" => AllowedSince(call[r].token, call[r].began)'
    BY <1>1, <1>2, <2>1 DEF IInv, CallInv, Since, AllowedSince
  <2>3. ASSUME call[r].pc = "accepted"
        PROVE  \E age \in 0 .. Ttl - 1 :
                 age <= call[r].began /\ AllowedSince(call[r].token, call[r].began - age)'
    <3>1. PICK age \in 0 .. Ttl - 1 :
            age <= call[r].began /\ AllowedSince(call[r].token, call[r].began - age)
      BY <2>3 DEF IInv, AcceptedWasAllowed
    <3>2. call[r].began - age \in 0 .. now
      BY <1>1, <2>1, <3>1 DEF ExpiryAssumption
    <3>3. AllowedSince(call[r].token, call[r].began - age)'
      BY <1>1, <1>2, <2>1, <3>1, <3>2 DEF Since, AllowedSince
    <3> QED
      BY <1>2, <3>1, <3>3
  <2> QED
    BY <1>1, <1>2, <2>1, <2>2, <2>3 DEF AllowedSince
<1>3. ASSUME NEW t \in Tokens, cache'[t] = cache[t], cache'[t] # 0
      PROVE  \E began \in 0 .. now' : cache'[t] = began + Ttl /\ AllowedSince(t, began)'
  BY <1>1, <1>3 DEF IInv, CacheInv, Since
<1> QED
  BY <1>2, <1>3

\* A caller that goes on keeps its token and the time it began.
LEMMA GotoShape ==
  ASSUME TypeOK, NEW r \in Callers, NEW label \in Labels, Goto(r, label)
  PROVE  /\ call' \in [Callers -> [pc : Labels, token : Tokens, began : Nat]]
         /\ call'[r].pc = label /\ call'[r].token = call[r].token
         /\ call'[r].began = call[r].began
         /\ \A s \in Callers \ {r} : call'[s] = call[s]
<1>1. call[r] \in [pc : Labels, token : Tokens, began : Nat]
  BY DEF TypeOK
<1>2. [call[r] EXCEPT !.pc = label] \in [pc : Labels, token : Tokens, began : Nat]
  BY <1>1
<1> QED
  BY <1>1, <1>2 DEF TypeOK, Goto

\* Every step keeps the types.
LEMMA TypeStep ==
  ASSUME ExpiryAssumption, TypeOK, [Next]_vars
  PROVE  TypeOK'
<1>1. ASSUME NEW r \in Callers, NEW t \in Tokens, Present(r, t)
      PROVE  TypeOK'
  BY <1>1 DEF Present, TypeOK, Labels
<1>2. ASSUME NEW r \in Callers, WhoAmI(r) \/ Allowed(r)
      PROVE  TypeOK'
  BY <1>2, GotoShape DEF WhoAmI, Allowed, TypeOK, Labels
<1>3. ASSUME NEW r \in Callers, StoreAnswer(r)
      PROVE  TypeOK'
  <2>1. Pruned(call[r].began) \in [Tokens -> Nat]
    BY DEF Pruned, TypeOK
  <2>2. call[r].began + Ttl \in Nat /\ call[r].token \in Tokens
    BY DEF TypeOK, ExpiryAssumption
  <2>3. cache' \in [Tokens -> Nat]
    BY <1>3, <2>1, <2>2 DEF StoreAnswer
  <2> QED
    BY <1>3, <2>3, GotoShape DEF StoreAnswer, TypeOK, Labels
<1>4. ASSUME NEW t \in Tokens, Revoke(t)
      PROVE  TypeOK'
  BY <1>4 DEF Revoke, TypeOK, Standings
<1>5. CASE Tick
  BY <1>5 DEF Tick, TickUnlessDue, TypeOK
<1>6. CASE UNCHANGED vars
  BY <1>6 DEF vars, TypeOK
<1> QED
  BY <1>1, <1>2, <1>3, <1>4, <1>5, <1>6 DEF Next, Step

\* Every step preserves the inductive invariant.
LEMMA StepIInv == ASSUME ExpiryAssumption, IInv, [Next]_vars PROVE IInv'
<1>1. TypeOK'
  BY TypeStep DEF IInv
<1>a. /\ Since /\ now' \in Nat /\ now <= now' /\ now \in Nat /\ Ttl \in Nat /\ Ttl > 0
      /\ 0 \in 0 .. Ttl - 1
  BY AlwaysSince DEF IInv, TypeOK, ExpiryAssumption
<1>b. \A r \in Callers : call[r].began \in 0 .. now /\ call[r].token \in Tokens
  BY DEF IInv, TypeOK, CallInv
<1>c. ASSUME NEW r \in Callers, \A s \in Callers \ {r} : call'[s] = call[s],
             call'[r].began \in 0 .. now',
             call'[r].pc = "store" => AllowedSince(call[r].token, call[r].began)',
             call'[r].pc = "accepted" =>
                \E age \in 0 .. Ttl - 1 :
                  age <= call'[r].began /\ AllowedSince(call[r].token, call[r].began - age)'
      PROVE  CallInv' /\ AcceptedWasAllowed'
  <2>1. ASSUME NEW s \in Callers
        PROVE  /\ call'[s].began <= now'
               /\ call'[s].pc = "store" => AllowedSince(call[s].token, call[s].began)'
               /\ call'[s].pc = "accepted" =>
                    \E age \in 0 .. Ttl - 1 :
                      age <= call'[s].began /\ AllowedSince(call[s].token, call[s].began - age)'
    BY <1>a, <1>c, StillRight
  <2> QED
    BY <2>1 DEF CallInv, AcceptedWasAllowed
<1>d. ASSUME UNCHANGED call
      PROVE  CallInv' /\ AcceptedWasAllowed'
  BY <1>d, StillRight DEF CallInv, AcceptedWasAllowed
<1>e. ASSUME UNCHANGED cache
      PROVE  CacheInv'
  BY <1>e, StillRight DEF CacheInv
<1>2. ASSUME NEW r \in Callers, NEW t \in Tokens, Present(r, t)
      PROVE  IInv'
  <2>1. /\ call'[r].token = t /\ call'[r].began = now
        /\ call'[r].pc = IF cache[t] # 0 /\ now < cache[t] THEN "accepted" ELSE "whoami"
        /\ \A s \in Callers \ {r} : call'[s] = call[s]
    BY <1>2 DEF Present, IInv, TypeOK
  <2>2. UNCHANGED <<now, standing, lastGood, cache>>
    BY <1>2 DEF Present
  <2>3. ASSUME cache[t] # 0, now < cache[t]
        PROVE  \E age \in 0 .. Ttl - 1 :
                 age <= now /\ AllowedSince(t, now - age)
    <3>1. PICK began \in 0 .. now : cache[t] = began + Ttl /\ AllowedSince(t, began)
      BY <2>3 DEF IInv, CacheInv
    <3>2. now - began \in 0 .. Ttl - 1 /\ now - began <= now /\ now - (now - began) = began
      BY <1>a, <2>3, <3>1
    <3> QED
      BY <3>1, <3>2
  <2>4. call'[r].pc = "accepted" =>
          \E age \in 0 .. Ttl - 1 :
            age <= call'[r].began /\ AllowedSince(call[r].token, call[r].began - age)'
    BY <2>1, <2>2, <2>3 DEF AllowedSince
  <2> QED
    BY <1>1, <1>a, <1>c, <1>e, <2>1, <2>2, <2>4 DEF IInv
<1>3. ASSUME NEW r \in Callers, WhoAmI(r) \/ Allowed(r)
      PROVE  IInv'
  <2>1. PICK label \in {"allowed", "store", "refused"} :
          Goto(r, label) /\ (label = "store" => standing[call[r].token] = "allowed")
    BY <1>3 DEF WhoAmI, Allowed
  <2>2. /\ call'[r].pc = label /\ call'[r].token = call[r].token
        /\ call'[r].began = call[r].began
        /\ \A s \in Callers \ {r} : call'[s] = call[s]
    BY <2>1, GotoShape DEF IInv, Labels
  <2>3. UNCHANGED <<now, standing, lastGood, cache>>
    BY <1>3 DEF WhoAmI, Allowed
  <2> QED
    BY <1>1, <1>b, <1>c, <1>e, <2>1, <2>2, <2>3 DEF IInv, AllowedSince
<1>4. ASSUME NEW r \in Callers, StoreAnswer(r)
      PROVE  IInv'
  <2>1. /\ call'[r].pc = "accepted" /\ call'[r].token = call[r].token
        /\ call'[r].began = call[r].began
        /\ \A s \in Callers \ {r} : call'[s] = call[s]
    BY <1>4, GotoShape DEF StoreAnswer, IInv, Labels
  <2>2. UNCHANGED <<now, standing, lastGood>> /\ AllowedSince(call[r].token, call[r].began)
    BY <1>4 DEF StoreAnswer, IInv, CallInv
  <2>3. call'[r].pc = "accepted" =>
          \E age \in 0 .. Ttl - 1 :
            age <= call'[r].began /\ AllowedSince(call[r].token, call[r].began - age)'
    BY <1>a, <1>b, <2>1, <2>2 DEF AllowedSince
  <2>4. CallInv' /\ AcceptedWasAllowed'
    BY <1>b, <1>c, <2>1, <2>2, <2>3
  <2>5. ASSUME NEW t \in Tokens, cache'[t] # 0
        PROVE  \E began \in 0 .. now' : cache'[t] = began + Ttl /\ AllowedSince(t, began)'
    <3>1. CASE t = call[r].token
      <4>1. cache'[t] = call[r].began + Ttl
        BY <1>4, <3>1 DEF StoreAnswer, Pruned, IInv, TypeOK
      <4> QED
        BY <1>b, <2>2, <3>1, <4>1 DEF AllowedSince
    <3>2. CASE t # call[r].token
      <4>1. cache'[t] = cache[t]
        BY <1>4, <2>5, <3>2 DEF StoreAnswer, Pruned, IInv, TypeOK
      <4> QED
        BY <2>5, <4>1, StillRight
    <3> QED
      BY <3>1, <3>2
  <2> QED
    BY <1>1, <2>4, <2>5 DEF IInv, CacheInv
<1>5. ASSUME NEW t \in Tokens, Revoke(t)
      PROVE  IInv'
  BY <1>1, <1>5, <1>d, <1>e DEF IInv, Revoke
<1>6. CASE Tick
  BY <1>1, <1>6, <1>d, <1>e DEF IInv, Tick
<1>7. CASE UNCHANGED vars
  BY <1>1, <1>7, <1>d, <1>e DEF IInv, vars
<1> QED
  BY <1>2, <1>3, <1>4, <1>5, <1>6, <1>7 DEF Next, Step

\* The initial states satisfy it.
LEMMA InitIInv == ASSUME Init PROVE IInv
<1>1. \A r \in Callers : call[r].pc = "idle" /\ call[r].began = 0
  BY DEF Init
<1>2. call \in [Callers -> [pc : Labels, token : Tokens, began : Nat]]
  BY DEF Init, Labels
<1> QED
  BY <1>1, <1>2 DEF Init, IInv, TypeOK, CallInv, CacheInv, AcceptedWasAllowed

\* So it holds of every behaviour.
LEMMA AlwaysIInv == Spec => []IInv
<1>1. Init => IInv
  BY InitIInv
<1>2. IInv /\ [Next]_vars => IInv'
  BY ExpiryAssumption, StepIInv
<1> QED
  BY <1>1, <1>2, PTL DEF Spec

\* Every variable keeps its type, however the clock runs.
THEOREM TypeCorrect == Spec => []TypeOK
<1>1. IInv => TypeOK
  BY DEF IInv
<1> QED
  BY <1>1, AlwaysIInv, PTL

\* A revoked token is accepted no longer than the time-out, however slow,
\* concurrent or out of order its reviews are (Review of kubeauth.go).
THEOREM RevocationTakesHold == Spec => []AcceptedWasAllowed
<1>1. IInv => AcceptedWasAllowed
  BY DEF IInv
<1> QED
  BY <1>1, AlwaysIInv, PTL
=============================================================================
