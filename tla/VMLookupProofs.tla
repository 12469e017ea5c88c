---------------------------- MODULE VMLookupProofs ----------------------------
(***************************************************************************)
(* Proofs about VMLookup, for any VMs, requests and times.  A lookup under *)
(* way knows what it has found out since it came, and came at most Slack   *)
(* ticks ago; the kept VM was right at some time at most Slack before it   *)
(* was stamped.  What was so at a time that is past stays so (Since).      *)
(***************************************************************************)
EXTENDS VMLookup, TLAPS

\* What a lookup has found out, since it came.
Rightly(r) ==
  /\ call[r].at <= now
  /\ call[r].pc \notin Ended => now <= call[r].at + Slack
  /\ call[r].pc \in {"search", "path"} => ~call[r].gated
  /\ call[r].pc \in {"path", "remember"} =>
       call[r].vm \in VMs /\ MineSince(call[r].vm, call[r].at)
  /\ call[r].pc = "remember" /\ call[r].gated => InsideSince(call[r].vm, call[r].at)
  /\ call[r].pc = "match" => \A v \in call[r].listed : InsideSince(v, call[r].at)
  /\ call[r].pc = "found" =>
       /\ call[r].vm \in VMs
       /\ \E age \in 0 .. Ttl + Slack :
            /\ age <= call[r].at
            /\ MineSince(call[r].vm, call[r].at - age)
            /\ call[r].gated => InsideSince(call[r].vm, call[r].at - age)

CacheInv ==
  cache.vm # NoVM =>
    \E time \in 0 .. now :
      /\ time <= cache.at /\ cache.at <= time + Slack /\ cache.at <= now
      /\ MineSince(cache.vm, time)
      /\ cache.gated => InsideSince(cache.vm, time)

IInv == TypeOK /\ CacheInv /\ \A r \in Callers : Rightly(r)

\* What was so at a time that is past stays so.
Since ==
  \A v \in VMs, time \in 0 .. now :
    /\ MineSince(v, time) => MineSince(v, time)'
    /\ InsideSince(v, time) => InsideSince(v, time)'

\* No step but a tick takes time.
LEMMA AlwaysSince ==
  ASSUME TypeOK, [Next]_vars
  PROVE  Since /\ now' \in Nat /\ now <= now' /\ (~Tick => now' = now)
<1>1. CASE UNCHANGED <<now, place, mine, insideUntil, mineUntil>>
  BY <1>1 DEF TypeOK, Since, MineSince, InsideSince
<1>2. ASSUME NEW v \in VMs, Change(v)
      PROVE  Since /\ now' \in Nat /\ now <= now' /\ now' = now
  <2>1. PICK p \in Places, b \in BOOLEAN : place' = [place EXCEPT ![v] = p] /\ mine' = [mine EXCEPT ![v] = b]
    BY <1>2 DEF Change
  <2>2. /\ mineUntil' = [mineUntil EXCEPT ![v] = IF mine[v] THEN now + 1 ELSE @]
        /\ insideUntil' = [insideUntil EXCEPT ![v] = IF place[v] # "outside" THEN now + 1 ELSE @]
        /\ now' = now
    BY <1>2 DEF Change
  <2>3. ASSUME NEW w \in VMs, NEW time \in 0 .. now
        PROVE  /\ MineSince(w, time) => MineSince(w, time)'
               /\ InsideSince(w, time) => InsideSince(w, time)'
    <3>1. CASE w = v
      <4>1. mine[v] => time < mineUntil'[v]
        BY <2>2 DEF TypeOK
      <4>2. ~mine[v] => mineUntil'[v] = mineUntil[v]
        BY <2>2 DEF TypeOK
      <4>3. place[v] # "outside" => time < insideUntil'[v]
        BY <2>2 DEF TypeOK
      <4>4. place[v] = "outside" => insideUntil'[v] = insideUntil[v]
        BY <2>2 DEF TypeOK
      <4> QED
        BY <3>1, <4>1, <4>2, <4>3, <4>4 DEF MineSince, InsideSince
    <3>2. CASE w # v
      <4>1. /\ mine'[w] = mine[w] /\ place'[w] = place[w]
            /\ mineUntil'[w] = mineUntil[w] /\ insideUntil'[w] = insideUntil[w]
        BY <2>1, <2>2, <3>2 DEF TypeOK
      <4> QED
        BY <4>1 DEF MineSince, InsideSince
    <3> QED
      BY <3>1, <3>2
  <2> QED
    BY <2>2, <2>3 DEF Since, TypeOK
<1>3. CASE Tick
  BY <1>3 DEF Tick, TickUnlessDue, vSphere, TypeOK, Since, MineSince, InsideSince
<1> QED
  BY <1>1, <1>2, <1>3
     DEF Next, Step, Cached, Missed, Search, CheckFolder, ListFolder, Match, Remember, Grant,
         vSphere, vars

\* A request that does not move stays right, unless its time is up.
LEMMA StillRight ==
  ASSUME ExpiryAssumption, IInv, [Next]_vars, NEW r \in Callers, call'[r] = call[r],
         call[r].pc \notin Ended => now' <= call[r].at + Slack
  PROVE  Rightly(r)'
<1> DEFINE q == call[r]
<1>1. Since /\ now' \in Nat /\ now <= now' /\ now \in Nat
  BY AlwaysSince DEF IInv, TypeOK
<1>2. q \in Calls /\ q.at \in 0 .. now /\ Rightly(r)
  BY DEF IInv, TypeOK, Rightly, Calls
<1>3. q.pc \in {"path", "remember"} => q.vm \in VMs /\ MineSince(q.vm, q.at)'
  BY <1>1, <1>2 DEF Since, Rightly, MineSince
<1>4. q.pc = "remember" /\ q.gated => InsideSince(q.vm, q.at)'
  BY <1>1, <1>2 DEF Since, Rightly, InsideSince
<1>5. q.pc = "match" => \A v \in q.listed : InsideSince(v, q.at)'
  BY <1>1, <1>2 DEF Since, Rightly, InsideSince, Calls
<1>6. ASSUME q.pc = "found"
      PROVE  /\ q.vm \in VMs
             /\ \E age \in 0 .. Ttl + Slack :
                  /\ age <= q.at
                  /\ MineSince(q.vm, q.at - age)'
                  /\ q.gated => InsideSince(q.vm, q.at - age)'
  <2>1. PICK age \in 0 .. Ttl + Slack :
          /\ age <= q.at
          /\ MineSince(q.vm, q.at - age)
          /\ q.gated => InsideSince(q.vm, q.at - age)
    BY <1>2, <1>6 DEF Rightly
  <2>2. q.at - age \in 0 .. now /\ q.vm \in VMs
    BY <1>1, <1>2, <1>6, <2>1 DEF ExpiryAssumption, Rightly
  <2>3. MineSince(q.vm, q.at - age)' /\ (q.gated => InsideSince(q.vm, q.at - age)')
    BY <1>1, <2>1, <2>2 DEF Since, MineSince, InsideSince
  <2> QED
    BY <2>1, <2>2, <2>3
<1>7. /\ q.at <= now' /\ (q.pc \notin Ended => now' <= q.at + Slack)
      /\ q.pc \in {"search", "path"} => ~q.gated
  BY <1>1, <1>2 DEF Rightly
<1> QED
  BY <1>3, <1>4, <1>5, <1>6, <1>7 DEF Rightly, MineSince, InsideSince

\* An entry of the cache that is not touched stays right as time goes on.
LEMMA CacheStays ==
  ASSUME IInv, [Next]_vars, UNCHANGED cache
  PROVE  CacheInv'
<1>1. Since /\ now' \in Nat /\ now <= now' /\ now \in Nat /\ cache.at \in Nat
      /\ cache.vm \in VMs \cup {NoVM}
  BY AlwaysSince DEF IInv, TypeOK, Entries
<1>2. SUFFICES ASSUME cache.vm # NoVM
               PROVE  \E time \in 0 .. now' :
                        /\ time <= cache.at /\ cache.at <= time + Slack /\ cache.at <= now'
                        /\ MineSince(cache.vm, time)'
                        /\ cache.gated => InsideSince(cache.vm, time)'
  BY DEF CacheInv, MineSince, InsideSince
<1>3. PICK time \in 0 .. now :
        /\ time <= cache.at /\ cache.at <= time + Slack /\ cache.at <= now
        /\ MineSince(cache.vm, time)
        /\ cache.gated => InsideSince(cache.vm, time)
  BY <1>2 DEF IInv, CacheInv
<1>4. MineSince(cache.vm, time)' /\ (cache.gated => InsideSince(cache.vm, time)')
  BY <1>1, <1>2, <1>3 DEF Since, MineSince, InsideSince
<1> QED
  BY <1>1, <1>3, <1>4

\* A step of one request that takes no time.
LEMMA OneMoves ==
  ASSUME ExpiryAssumption, IInv, [Next]_vars, NEW r \in Callers, now' = now,
         \A s \in Callers \ {r} : call'[s] = call[s], Rightly(r)'
  PROVE  \A s \in Callers : Rightly(s)'
<1>1. ASSUME NEW s \in Callers \ {r} PROVE Rightly(s)'
  <2>1. call[s].pc \notin Ended => now <= call[s].at + Slack
    BY DEF IInv, Rightly
  <2> QED
    BY <2>1, StillRight
<1> QED
  BY <1>1

\* A request that gives up, or has not begun, has found out nothing.
LEMMA FreshRight ==
  ASSUME NEW r \in Callers, IInv, now' = now, call'[r] = Fresh
  PROVE  Rightly(r)'
  BY DEF Rightly, Fresh, Ended, IInv, TypeOK

\* Every step keeps the types.
LEMMA TypeStep ==
  ASSUME ExpiryAssumption, IInv, [Next]_vars
  PROVE  TypeOK'
<1> USE DEF IInv, TypeOK
<1>1. now' \in Nat
  BY AlwaysSince
<1>2. ASSUME NEW r \in Callers, Step(r)
      PROVE  call' \in [Callers -> Calls] /\ cache' \in Entries /\ searchDenied' \in BOOLEAN
             /\ UNCHANGED vSphere
  <2>1. call[r] \in Calls /\ Fresh \in Calls
    BY DEF Calls, Labels, Fresh
  <2>2. CASE Cached(r)
    BY <2>1, <2>2 DEF Cached, Entries, Calls, Labels, Fresh
  <2>3. CASE Missed(r)
    BY <2>1, <2>3 DEF Missed, Calls, Labels, Fresh
  <2>4. CASE Search(r)
    <3>a. (searchDenied \/ ~maySearch) \in BOOLEAN
      OBVIOUS
    <3>1. ASSUME NEW v \in VMs, call' = [call EXCEPT ![r].pc = "path", ![r].vm = v]
          PROVE  call' \in [Callers -> Calls]
      BY <2>1, <3>1 DEF Calls, Labels
    <3>2. CASE Goto(r, "list") /\ searchDenied' = (searchDenied \/ ~maySearch)
      BY <2>1, <2>4, <3>2 DEF Search, Goto, Calls, Labels
    <3> QED
      BY <2>4, <3>a, <3>1, <3>2 DEF Search
  <2>5. CASE CheckFolder(r)
    BY <2>1, <2>5 DEF CheckFolder, Goto, Fails, Calls, Labels
  <2>6. CASE ListFolder(r)
    <3>1. CASE Fails(r)
      BY <2>1, <2>6, <3>1 DEF ListFolder, Fails
    <3>2. ASSUME NEW depth, call' = [call EXCEPT ![r].pc = "match",
                                        ![r].listed = {v \in VMs : place[v] \in depth}]
          PROVE  call' \in [Callers -> Calls]
      BY <2>1, <3>2 DEF Calls, Labels
    <3> QED
      BY <2>6, <3>1, <3>2 DEF ListFolder
  <2>7. CASE Match(r)
    <3>1. CASE Fails(r)
      BY <2>1, <2>7, <3>1 DEF Match, Fails
    <3>2. ASSUME NEW v \in call[r].listed,
                 call' = [call EXCEPT ![r] =
                   [@ EXCEPT !.pc = "remember", !.vm = v, !.listed = {}, !.gated = TRUE]]
          PROVE  call' \in [Callers -> Calls]
      BY <2>1, <3>2 DEF Calls, Labels
    <3> QED
      BY <2>7, <3>1, <3>2 DEF Match
  <2>8. CASE Remember(r)
    BY <2>1, <2>8 DEF Remember, Goto, Calls, Labels, Entries
  <2> QED
    BY <1>2, <2>2, <2>3, <2>4, <2>5, <2>6, <2>7, <2>8 DEF Step
<1>3. ASSUME NEW v \in VMs, Change(v)
      PROVE  TypeOK'
  <2>1. insideUntil' \in [VMs -> Nat] /\ mineUntil' \in [VMs -> Nat]
    BY <1>3 DEF Change
  <2>2. place' \in [VMs -> Places] /\ mine' \in [VMs -> BOOLEAN]
    BY <1>3 DEF Change
  <2> QED
    BY <1>1, <1>3, <2>1, <2>2 DEF Change
<1>4. CASE Grant
  BY <1>1, <1>4 DEF Grant
<1>5. CASE Tick
  BY <1>1, <1>5 DEF Tick, vSphere
<1>6. CASE UNCHANGED vars
  BY <1>6 DEF vars
<1> QED
  BY <1>1, <1>2, <1>3, <1>4, <1>5, <1>6 DEF Next, vSphere

\* What a step of a lookup finds out is so now.
LEMMA LookupStep ==
  ASSUME ExpiryAssumption, IInv, [Next]_vars, NEW r \in Callers, Step(r)
  PROVE  CacheInv' /\ \A s \in Callers : Rightly(s)'
<1> DEFINE q == call[r]
<1>1. /\ q \in Calls /\ q.at \in 0 .. now /\ now \in Nat /\ Rightly(r)
      /\ q.pc \notin Ended => now <= q.at + Slack
      /\ Ttl \in Nat /\ Slack \in Nat
  BY DEF IInv, TypeOK, Rightly, Calls, ExpiryAssumption
<1>2. now' = now /\ UNCHANGED vSphere /\ \A s \in Callers \ {r} : call'[s] = call[s]
  BY DEF Step, Cached, Missed, Search, CheckFolder, ListFolder, Match, Remember, Goto, Fails,
         IInv, TypeOK
<1>4. CASE Cached(r)
  <2>1. call'[r] = [Fresh EXCEPT !.pc = "found", !.vm = cache.vm, !.at = now, !.gated = cache.gated]
    BY <1>4 DEF Cached, IInv, TypeOK
  <2>2. /\ call'[r].pc = "found" /\ call'[r].vm = cache.vm
        /\ call'[r].at = now /\ call'[r].gated = cache.gated
    BY <2>1 DEF Fresh
  <2>3. cache.vm \in VMs /\ cache.at \in Nat /\ cache.vm # NoVM /\ now - cache.at <= Ttl
    BY <1>4 DEF Cached, Hit, IInv, TypeOK, Entries
  <2>4. PICK time \in 0 .. now :
          /\ time <= cache.at /\ cache.at <= time + Slack /\ cache.at <= now
          /\ MineSince(cache.vm, time)
          /\ cache.gated => InsideSince(cache.vm, time)
    BY <2>3 DEF IInv, CacheInv
  <2>5. PICK age \in 0 .. Ttl + Slack :
          /\ age <= now
          /\ MineSince(cache.vm, now - age)
          /\ cache.gated => InsideSince(cache.vm, now - age)
    <3>1. now - time \in 0 .. Ttl + Slack /\ now - time <= now /\ now - (now - time) = time
      BY <1>1, <2>3, <2>4
    <3> QED
      BY <2>4, <3>1
  <2>6. /\ age <= call'[r].at
        /\ MineSince(call[r].vm, call[r].at - age)'
        /\ call'[r].gated => InsideSince(call[r].vm, call[r].at - age)'
    BY <1>2, <2>2, <2>5 DEF vSphere, MineSince, InsideSince
  <2>7. \E a \in 0 .. Ttl + Slack :
          /\ a <= call'[r].at
          /\ MineSince(call[r].vm, call[r].at - a)'
          /\ call'[r].gated => InsideSince(call[r].vm, call[r].at - a)'
    BY <2>6
  <2>8. Rightly(r)'
    BY <1>1, <1>2, <2>2, <2>3, <2>7 DEF Rightly, Ended
  <2> QED
    BY <1>2, <1>4, <2>8, OneMoves, CacheStays DEF Cached
<1>5. CASE Missed(r)
  <2>1. call'[r] = [Fresh EXCEPT !.pc = IF searchDenied THEN "list" ELSE "search", !.at = now]
    BY <1>5 DEF Missed, IInv, TypeOK
  <2>2. call'[r].pc \in {"list", "search"} /\ call'[r].at = now /\ ~call'[r].gated
    BY <2>1 DEF Fresh
  <2>3. Rightly(r)'
    BY <1>1, <1>2, <2>2 DEF Rightly, Ended
  <2> QED
    BY <1>2, <1>5, <2>3, OneMoves, CacheStays DEF Missed
<1>6. CASE Search(r)
  <2>1. CASE Goto(r, "list")
    <3>1. call'[r].pc = "list" /\ call'[r].at = q.at
      BY <1>1, <2>1 DEF Goto, IInv, TypeOK, Calls
    <3>2. Rightly(r)'
      BY <1>1, <1>2, <1>6, <3>1 DEF Rightly, Ended, Search
    <3> QED
      BY <1>2, <1>6, <3>2, OneMoves, CacheStays DEF Search
  <2>2. ASSUME NEW v \in VMs, mine[v], call' = [call EXCEPT ![r].pc = "path", ![r].vm = v]
        PROVE  CacheInv' /\ \A s \in Callers : Rightly(s)'
    <3>1. call'[r].pc = "path" /\ call'[r].at = q.at /\ call'[r].vm = v /\ ~call'[r].gated
      BY <1>1, <1>6, <2>2 DEF IInv, TypeOK, Calls, Search, Rightly
    <3>2. MineSince(v, call[r].at)'
      BY <1>2, <2>2 DEF vSphere, MineSince
    <3>3. Rightly(r)'
      BY <1>1, <1>2, <1>6, <3>1, <3>2 DEF Rightly, Ended, Search, MineSince
    <3> QED
      BY <1>2, <1>6, <3>3, OneMoves, CacheStays DEF Search
  <2> QED
    BY <1>6, <2>1, <2>2 DEF Search
<1>7. CASE CheckFolder(r)
  <2>1. CASE Fails(r)
    <3>1. call'[r] = Fresh
      BY <2>1 DEF Fails, IInv, TypeOK
    <3> QED
      BY <1>2, <1>7, <3>1, FreshRight, OneMoves, CacheStays DEF CheckFolder
  <2>2. CASE ~Fails(r)
    <3>1. q.vm \in VMs /\ MineSince(q.vm, q.at) /\ q.pc = "path" /\ ~q.gated
      BY <1>1, <1>7 DEF CheckFolder, Rightly
    <3>2. /\ call'[r].pc = "remember" /\ call'[r].at = q.at /\ call'[r].vm = q.vm
          /\ call'[r].gated => place[q.vm] # "outside"
      BY <1>1, <1>7, <2>2, <3>1 DEF CheckFolder, Goto, IInv, TypeOK, Calls
    <3>3. MineSince(call[r].vm, call[r].at)' /\ (call'[r].gated => place'[q.vm] # "outside")
      BY <1>2, <3>1, <3>2 DEF vSphere, MineSince
    <3>4. Rightly(r)'
      BY <1>1, <1>2, <3>1, <3>2, <3>3 DEF Rightly, Ended, MineSince, InsideSince
    <3> QED
      BY <1>2, <1>7, <3>4, OneMoves, CacheStays DEF CheckFolder
  <2> QED
    BY <2>1, <2>2
<1>8. CASE ListFolder(r)
  <2>1. CASE Fails(r)
    <3>1. call'[r] = Fresh
      BY <2>1 DEF Fails, IInv, TypeOK
    <3> QED
      BY <1>2, <1>8, <3>1, FreshRight, OneMoves, CacheStays DEF ListFolder
  <2>2. ASSUME NEW depth \in {{"top", "below"}, {"top"}},
               call' = [call EXCEPT ![r].pc = "match",
                                    ![r].listed = {v \in VMs : place[v] \in depth}]
        PROVE  CacheInv' /\ \A s \in Callers : Rightly(s)'
    <3>1. /\ call'[r].pc = "match" /\ call'[r].at = q.at
          /\ call'[r].listed = {v \in VMs : place[v] \in depth}
      BY <1>1, <2>2 DEF IInv, TypeOK, Calls
    <3>2. \A v \in call'[r].listed : place'[v] # "outside"
      BY <1>2, <3>1 DEF vSphere
    <3>3. Rightly(r)'
      BY <1>1, <1>2, <1>8, <3>1, <3>2 DEF Rightly, Ended, ListFolder, InsideSince
    <3> QED
      BY <1>2, <1>8, <3>3, OneMoves, CacheStays DEF ListFolder
  <2> QED
    BY <1>8, <2>1, <2>2 DEF ListFolder
<1>9. CASE Match(r)
  <2>1. CASE Fails(r)
    <3>1. call'[r] = Fresh
      BY <2>1 DEF Fails, IInv, TypeOK
    <3> QED
      BY <1>2, <1>9, <3>1, FreshRight, OneMoves, CacheStays DEF Match
  <2>2. ASSUME NEW v \in q.listed, mine[v],
               call' = [call EXCEPT ![r] =
                 [@ EXCEPT !.pc = "remember", !.vm = v, !.listed = {}, !.gated = TRUE]]
        PROVE  CacheInv' /\ \A s \in Callers : Rightly(s)'
    <3>1. call'[r].pc = "remember" /\ call'[r].at = q.at /\ call'[r].vm = v
      BY <1>1, <2>2 DEF IInv, TypeOK, Calls
    <3>2. v \in VMs /\ InsideSince(v, q.at) /\ q.pc = "match"
      BY <1>1, <1>9, <2>2 DEF Match, Rightly, Calls
    <3>3. MineSince(v, call[r].at)' /\ InsideSince(v, call[r].at)'
      BY <1>2, <2>2, <3>2 DEF vSphere, MineSince, InsideSince
    <3>4. Rightly(r)'
      BY <1>1, <1>2, <3>1, <3>2, <3>3 DEF Rightly, Ended, MineSince, InsideSince
    <3> QED
      BY <1>2, <1>9, <3>4, OneMoves, CacheStays DEF Match
  <2> QED
    BY <1>9, <2>1, <2>2 DEF Match
<1>10. CASE Remember(r)
  <2>1. /\ q.pc = "remember" /\ q.vm \in VMs /\ MineSince(q.vm, q.at)
        /\ q.gated => InsideSince(q.vm, q.at)
        /\ now <= q.at + Slack
    BY <1>1, <1>10 DEF Remember, Rightly, Ended
  <2>2. /\ call'[r].pc = "found" /\ call'[r].at = q.at
        /\ call'[r].vm = q.vm /\ call'[r].gated = q.gated
    BY <1>1, <1>10 DEF Remember, Goto, IInv, TypeOK, Calls
  <2>3. cache'.vm = q.vm /\ cache'.at = now /\ cache'.gated = q.gated
    BY <1>10 DEF Remember
  <2>4. /\ MineSince(call[r].vm, call[r].at)'
        /\ call'[r].gated => InsideSince(call[r].vm, call[r].at)'
    BY <1>2, <2>1, <2>2 DEF vSphere, MineSince, InsideSince
  <2>5. CacheInv'
    BY <1>1, <1>2, <2>1, <2>2, <2>3, <2>4 DEF CacheInv, MineSince, InsideSince
  <2>6. 0 \in 0 .. Ttl + Slack /\ 0 <= q.at /\ q.at - 0 = q.at
    BY <1>1
  <2>7. \E age \in 0 .. Ttl + Slack :
          /\ age <= call'[r].at
          /\ MineSince(call[r].vm, call[r].at - age)'
          /\ call'[r].gated => InsideSince(call[r].vm, call[r].at - age)'
    <3>1. /\ MineSince(call[r].vm, call[r].at - 0)'
          /\ call'[r].gated => InsideSince(call[r].vm, call[r].at - 0)'
      BY <2>2, <2>4, <2>6 DEF MineSince, InsideSince
    <3> QED
      BY <2>2, <2>6, <3>1
  <2>8. Rightly(r)'
    BY <1>1, <1>2, <2>1, <2>2, <2>7 DEF Rightly, Ended
  <2> QED
    BY <1>2, <2>5, <2>8, OneMoves
<1> QED
  BY <1>4, <1>5, <1>6, <1>7, <1>8, <1>9, <1>10 DEF Step

\* The initial states satisfy the inductive invariant.
LEMMA InitIInv == ASSUME Init PROVE IInv
<1>1. Fresh \in Calls /\ Fresh.pc = "idle" /\ Fresh.at = 0
  BY DEF Fresh, Calls, Labels
<1>2. \A r \in Callers : call[r] = Fresh
  BY DEF Init
<1>3. TypeOK
  BY <1>1 DEF Init, TypeOK, Entries
<1> QED
  BY <1>1, <1>2, <1>3 DEF Init, IInv, CacheInv, Rightly, Ended

\* Every step preserves it.
LEMMA StepIInv == ASSUME ExpiryAssumption, IInv, [Next]_vars PROVE IInv'
<1>1. TypeOK'
  BY TypeStep
<1>2. ASSUME NEW r \in Callers, Step(r)
      PROVE  IInv'
  BY <1>1, <1>2, LookupStep DEF IInv
<1>3. CASE UNCHANGED <<cache, call, now>>
  <2>1. \A r \in Callers : call[r].pc \notin Ended => now' <= call[r].at + Slack
    BY <1>3 DEF IInv, Rightly
  <2> QED
    BY <1>1, <1>3, <2>1, StillRight, CacheStays DEF IInv
<1>4. CASE Tick
  <2>1. \A r \in Callers : call[r].pc \notin Ended => now' <= call[r].at + Slack
    BY <1>4 DEF Tick, TickUnlessDue, IInv, TypeOK, Calls, ExpiryAssumption
  <2>2. UNCHANGED <<cache, call>>
    BY <1>4 DEF Tick
  <2> QED
    BY <1>1, <2>1, <2>2, StillRight, CacheStays DEF IInv
<1> QED
  BY <1>2, <1>3, <1>4 DEF Next, Change, Grant, vars

\* So it holds of every behaviour.
LEMMA AlwaysIInv == Spec => []IInv
<1>1. Init => IInv
  BY InitIInv
<1>2. IInv /\ [Next]_vars => IInv'
  BY ExpiryAssumption, StepIInv
<1> QED
  BY <1>1, <1>2, PTL DEF Spec

\* Every variable keeps its type.
THEOREM TypeCorrect == Spec => []TypeOK
<1>1. IInv => TypeOK
  BY DEF IInv
<1> QED
  BY <1>1, AlwaysIInv, PTL

\* A VM that lost the UUID or left the folder is let go of within the time-out
\* and one lookup, whoever else looks it up meanwhile (findByUUID of client.go).
THEOREM MovedVMsAreLetGo == Spec => []FoundVMWasInFolder
<1>1. IInv => FoundVMWasInFolder
  BY DEF IInv, Rightly, FoundVMWasInFolder
<1> QED
  BY <1>1, AlwaysIInv, PTL
=============================================================================
