----------------------------- MODULE CachesProofs -----------------------------
(***************************************************************************)
(* Proofs about Caches.  A step of the whole is a step of one part and     *)
(* leaves the others as they are, so a behaviour of the whole is one of    *)
(* every part, and each part has an inductive invariant of its own:        *)
(*   - activity: an event behind one with a greater id was overtaken;      *)
(*   - clients: each password in hand was read from its file at a time     *)
(*     that is not long past;                                              *)
(*   - downloads: while they do not overlap, the .partial name is the file *)
(*     of the only download, and holds what it has written;                *)
(*   - probes: what is behind a probe was found, what is ahead was not     *)
(*     looked at.                                                          *)
(* Tokens, VMs and the store have theirs in TokenReviewProofs,             *)
(* VMLookupProofs and StoreProofs.                                         *)
(***************************************************************************)
EXTENDS Caches, Sequences, TLAPS, FiniteSetTheorems

ReviewProofs == INSTANCE TokenReviewProofs WITH Callers <- Requests, cache <- tokens, call <- review

LookupProofs == INSTANCE VMLookupProofs WITH
  Ttl <- LookupTtl, MaxTime <- LookupTime, now <- lookupNow, NoVM <- None,
  Callers <- Requests, cache <- uuids, call <- lookup

StateProofs == INSTANCE StoreProofs WITH tmp <- storeTmp

-----------------------------------------------------------------------------
(***************************************************************************)
(* A behaviour of the whole is one of each part.                           *)
(***************************************************************************)
LEMMA ReviewPart == Spec => Review!Spec
<1>1. Init => Review!Init
  BY DEF Init
<1>2. [Next]_vars => [Review!Next]_Review!vars
  BY DEF Next, vars, reviewVars, Review!vars
<1> QED
  BY <1>1, <1>2, PTL DEF Spec, Review!Spec

LEMMA LookupPart == Spec => Lookup!Spec
<1>1. Init => Lookup!Init
  BY DEF Init
<1>2. [Next]_vars => [Lookup!Next]_Lookup!vars
  BY DEF Next, vars, lookupVars, Lookup!vars
<1> QED
  BY <1>1, <1>2, PTL DEF Spec, Lookup!Spec

LEMMA BusPart == Spec => Bus!Spec
<1>1. Init => Bus!Init
  BY DEF Init
<1>2. [Next]_vars => [Bus!Next]_Bus!vars
  BY DEF Next, vars, busVars, Bus!vars, Bus!busVars, Bus!pageVars
<1> QED
  BY <1>1, <1>2, PTL DEF Spec, Bus!Spec

LEMMA SecretPart == Spec => Secret!Spec
<1>1. Init => Secret!Init
  BY DEF Init
<1>2. [Next]_vars => [Secret!Next]_Secret!vars
  BY DEF Next, vars, secretVars, Secret!vars
<1> QED
  BY <1>1, <1>2, PTL DEF Spec, Secret!Spec

LEMMA IsoPart == Spec => Iso!Spec
<1>1. Init => Iso!Init
  BY DEF Init
<1>2. [Next]_vars => [Iso!Next]_Iso!vars
  BY DEF Next, vars, isoVars, Iso!vars
<1> QED
  BY <1>1, <1>2, PTL DEF Spec, Iso!Spec

LEMMA StorePart == Spec => State!Spec
<1>1. Init => State!Init
  BY DEF Init
<1>2. [Next]_vars => [State!Next]_State!vars
  BY DEF Next, vars, storeVars, State!vars
<1> QED
  BY <1>1, <1>2, PTL DEF Spec, State!Spec

LEMMA LightPart == Spec => Light!Spec
<1>1. Init => Light!Init
  BY DEF Init
<1>2. [Next]_vars => [Light!Next]_Light!vars
  BY DEF Next, vars, probeVars, Light!vars
<1> QED
  BY <1>1, <1>2, PTL DEF Spec, Light!Spec

-----------------------------------------------------------------------------
(***************************************************************************)
(* Activity: ids drawn and in the ring are different, and an event that    *)
(* follows one with a greater id was overtaken.                            *)
(***************************************************************************)
Drawn == {g \in Emitters : drawn[g] # Bus!NoEvent}

IdInv ==
  /\ greatest <= seq
  /\ \A g \in Drawn : drawn[g].id <= seq /\ drawn[g].id # greatest
  /\ \A g, h \in Drawn : drawn[g].id = drawn[h].id => g = h
  /\ \A j \in DOMAIN ring : ring[j].id <= greatest
  /\ \A g \in Drawn, j \in DOMAIN ring : drawn[g].id # ring[j].id
  /\ \A j, k \in DOMAIN ring : ring[j].id = ring[k].id => j = k

OrderInv ==
  \A j, k \in DOMAIN ring : j < k /\ ring[k].id < ring[j].id => ring[k].id \in overtaken

\* What an answer on its way may be relied on for: it was taken from the ring, in
\* its order, and leaves out no event after r.after but what the limit cut off
\* before it, what was overtaken, and what is later than all it brings.
Complete(r) ==
  /\ r.full => r.after = 0
  /\ \A j \in DOMAIN r.ids : r.ids[j] <= greatest
  /\ \A j, k \in DOMAIN r.ids : j < k /\ r.ids[k] < r.ids[j] => r.ids[k] \in overtaken
  /\ \A i \in DOMAIN ring : ring[i].ch = Watched /\ ring[i].id > r.after =>
       \/ ring[i].id \in r.older \cup overtaken
       \/ \E j \in DOMAIN r.ids : r.ids[j] = ring[i].id
       \/ \A j \in DOMAIN r.ids : r.ids[j] < ring[i].id

AskedInv == \A q \in Slots : Complete(asked[q])

\* lastId falls behind what the page shows only to an id that was overtaken.
PaneInv == \A id \in pane : id > lastId => \E o \in overtaken \cap pane : o < id

BusInv ==
  /\ Bus!TypeOK /\ IdInv /\ OrderInv /\ lastId <= greatest
  /\ AskedInv /\ PaneInv /\ PollsMissNothing

\* What the types say of ids.
LEMMA BusTypes ==
  ASSUME Bus!TypeOK
  PROVE  /\ seq \in Nat /\ greatest \in Nat /\ lastId \in Nat
         /\ ring \in Seq(Bus!Events) /\ Len(ring) \in Nat /\ DOMAIN ring = 1 .. Len(ring)
         /\ \A j \in DOMAIN ring : ring[j].id \in 1 .. MaxEvents /\ ring[j].id \in Nat
         /\ \A g \in Drawn : drawn[g].id \in 1 .. MaxEvents /\ drawn[g].id \in Nat
<1>1. seq \in Nat /\ greatest \in Nat /\ lastId \in Nat
  BY DEF Bus!TypeOK
<1>2. ring \in Seq(Bus!Events) /\ Len(ring) \in Nat /\ DOMAIN ring = 1 .. Len(ring)
  BY DEF Bus!TypeOK
<1>3. \A j \in DOMAIN ring : ring[j] \in Bus!Events
  BY <1>2
<1>4. \A g \in Drawn : drawn[g] \in Bus!Events
  BY DEF Bus!TypeOK, Drawn
<1> QED
  BY <1>1, <1>2, <1>3, <1>4 DEF Bus!Events, Bus!IdSet

\* The ring after a Put: one more at the end, perhaps one less in front.
LEMMA PutShape ==
  ASSUME CachesAssumption, Bus!TypeOK, NEW g \in Emitters, Bus!Put(g)
  PROVE  /\ drawn[g] \in Bus!Events
         /\ ring' \in Seq(Bus!Events) /\ Len(ring') <= Cap
         /\ \E k \in {0, 1} :
              /\ Len(ring') = Len(ring) - k + 1
              /\ \A j \in 1 .. Len(ring') - 1 : j + k \in DOMAIN ring /\ ring'[j] = ring[j + k]
              /\ ring'[Len(ring')] = drawn[g]
<1>1. drawn[g] \in Bus!Events
  BY DEF Bus!Put, Bus!TypeOK
<1>2. ring \in Seq(Bus!Events) /\ Len(ring) <= Cap /\ Cap \in Nat \ {0} /\ Len(ring) \in Nat
      /\ DOMAIN ring = 1 .. Len(ring)
  BY DEF Bus!TypeOK, CachesAssumption
<1>3. CASE Len(ring) >= Cap
  <2>1. ring' = Append(Tail(ring), drawn[g])
    BY <1>3 DEF Bus!Put
  <2>2. Tail(ring) \in Seq(Bus!Events) /\ Len(Tail(ring)) = Len(ring) - 1
        /\ \A j \in 1 .. Len(ring) - 1 : Tail(ring)[j] = ring[j + 1]
    BY <1>2, <1>3
  <2>3. Len(ring') = Len(ring) /\ ring' \in Seq(Bus!Events) /\ ring'[Len(ring)] = drawn[g]
    BY <1>1, <1>2, <1>3, <2>1, <2>2
  <2>4. \A j \in 1 .. Len(ring) - 1 : j + 1 \in DOMAIN ring /\ ring'[j] = ring[j + 1]
    BY <1>1, <1>2, <2>1, <2>2
  <2>5. Len(ring') = Len(ring) - 1 + 1 /\ Len(ring') - 1 = Len(ring) - 1 /\ 1 \in {0, 1}
    BY <1>2, <2>3
  <2> QED
    BY <1>1, <1>2, <1>3, <2>3, <2>4, <2>5
<1>4. CASE ~(Len(ring) >= Cap)
  <2>1. ring' = Append(ring, drawn[g])
    BY <1>4 DEF Bus!Put
  <2>2. Len(ring') = Len(ring) + 1 /\ ring' \in Seq(Bus!Events) /\ ring'[Len(ring) + 1] = drawn[g]
        /\ \A j \in 1 .. Len(ring) : ring'[j] = ring[j]
    BY <1>1, <1>2, <2>1
  <2> QED
    BY <1>1, <1>2, <1>4, <2>2
<1> QED
  BY <1>3, <1>4

\* An answer to a poll has every matching event in front of one that it has.
LEMMA SinceIsPrefix ==
  ASSUME CachesAssumption, Bus!TypeOK, NEW after,
         NEW j \in Bus!Since(after, PollLimit), NEW k \in Bus!Matching(after), k <= j
  PROVE  k \in Bus!Since(after, PollLimit)
<1> DEFINE M    == Bus!Matching(after)
           A(i) == {x \in M : x <= i}
<1>1. M \subseteq 1 .. Len(ring) /\ Len(ring) \in Nat
  BY DEF Bus!Matching, Bus!TypeOK
<1>2. \A S : Bus!Cardinality(S) = Cardinality(S)
  BY DEF Bus!Cardinality, Cardinality
<1>3. Cardinality(A(j)) <= PollLimit /\ j \in M
  BY <1>2 DEF Bus!Since, Bus!Oldest
<1>4. IsFiniteSet(A(j))
  <2>1. A(j) \in SUBSET (1 .. Len(ring)) /\ IsFiniteSet(1 .. Len(ring))
    BY <1>1, FS_Interval
  <2> QED
    BY <2>1, FS_Subset
<1>5. A(k) \in SUBSET A(j)
  BY <1>1, <1>3
<1>6. /\ Cardinality(A(k)) <= Cardinality(A(j)) /\ Cardinality(A(k)) \in Nat
      /\ Cardinality(A(j)) \in Nat
  BY <1>4, <1>5, FS_Subset, FS_CardinalityType
<1>7. Cardinality(A(k)) <= PollLimit
  BY <1>3, <1>6 DEF CachesAssumption
<1> QED
  BY <1>2, <1>7 DEF Bus!Since, Bus!Oldest

\* Places of an answer are places of the ring.
LEMMA AnswerPlaces ==
  ASSUME Bus!TypeOK, NEW after
  PROVE  /\ Bus!Snapshot(PollLimit) \subseteq Bus!Matching(0)
         /\ Bus!Since(after, PollLimit) \subseteq Bus!Matching(after)
         /\ Bus!Matching(after) \subseteq DOMAIN ring
         /\ Bus!Matching(0) \subseteq DOMAIN ring
         /\ DOMAIN ring \subseteq 1 .. Cap
<1>1. ring \in Seq(Bus!Events) /\ Len(ring) <= Cap
  BY DEF Bus!TypeOK
<1>2. DOMAIN ring \subseteq 1 .. Cap
  BY <1>1, CachesAssumption DEF CachesAssumption
<1> QED
  BY <1>2 DEF Bus!Snapshot, Bus!Since, Bus!Newest, Bus!Oldest, Bus!Matching

\* What the types say of a request and of what the page would render.
LEMMA AskTypes ==
  ASSUME Bus!TypeOK, NEW q \in Slots
  PROVE  /\ asked[q] \in Bus!Asks
         /\ DOMAIN asked[q].ids \subseteq 1 .. Cap
         /\ \A j \in DOMAIN asked[q].ids : asked[q].ids[j] \in Bus!IdSet /\ asked[q].ids[j] \in Nat
         /\ asked[q].after \in 0 .. MaxEvents /\ asked[q].after \in Nat
         /\ asked[q].older \in SUBSET Bus!IdSet
         /\ Bus!Fresh(q) \subseteq DOMAIN asked[q].ids
         /\ Bus!FreshIds(q) \subseteq Bus!IdSet
<1>1. asked[q] \in Bus!Asks
  BY DEF Bus!TypeOK
<1>2. PICK places \in SUBSET (1 .. Cap) : asked[q].ids \in [places -> Bus!IdSet]
  BY <1>1 DEF Bus!Asks
<1>3. /\ DOMAIN asked[q].ids \subseteq 1 .. Cap
      /\ \A j \in DOMAIN asked[q].ids : asked[q].ids[j] \in Bus!IdSet /\ asked[q].ids[j] \in Nat
  <2>1. DOMAIN asked[q].ids = places /\ \A j \in places : asked[q].ids[j] \in Bus!IdSet
    BY <1>2
  <2>2. \A id \in Bus!IdSet : id \in Nat
    BY DEF Bus!IdSet
  <2> QED
    BY <1>2, <2>1, <2>2
<1>4. /\ asked[q].after \in 0 .. MaxEvents /\ asked[q].after \in Nat
      /\ asked[q].older \in SUBSET Bus!IdSet
  BY <1>1 DEF Bus!Asks
<1>5. Bus!Fresh(q) \subseteq DOMAIN asked[q].ids
  BY DEF Bus!Fresh
<1>6. Bus!FreshIds(q) \subseteq Bus!IdSet
  BY <1>3, <1>5 DEF Bus!FreshIds
<1> QED
  BY <1>1, <1>3, <1>4, <1>5, <1>6

\* A slot without a request.
LEMMA IdleIsAsk == Bus!Idle \in Bus!Asks /\ DOMAIN Bus!Idle.ids = {} /\ ~Bus!Idle.full
<1>1. [j \in {} |-> 0] \in [{} -> Bus!IdSet] /\ {} \in SUBSET (1 .. Cap)
  OBVIOUS
<1>2. [j \in {} |-> 0] \in UNION {[places -> Bus!IdSet] : places \in SUBSET (1 .. Cap)}
  BY <1>1
<1>3. 0 \in 0 .. MaxEvents
  BY CachesAssumption DEF CachesAssumption
<1> QED
  BY <1>2, <1>3 DEF Bus!Idle, Bus!Asks

\* Every step keeps the types.
LEMMA BusTypeStep ==
  ASSUME CachesAssumption, BusInv, [Bus!Next]_Bus!vars
  PROVE  Bus!TypeOK'
<1>0. Bus!TypeOK
  BY DEF BusInv
<1> USE DEF Bus!TypeOK
<1>1. ASSUME NEW g \in Emitters, Bus!Draw(g)
      PROVE  Bus!TypeOK'
  BY <1>0, <1>1 DEF Bus!Draw, Bus!Events, Bus!IdSet, Bus!pageVars, CachesAssumption
<1>2. ASSUME NEW g \in Emitters, Bus!Put(g)
      PROVE  Bus!TypeOK'
  <2>1. drawn[g] \in Bus!Events /\ ring' \in Seq(Bus!Events) /\ Len(ring') <= Cap
    BY <1>0, <1>2, PutShape
  <2>2. greatest' \in 0 .. MaxEvents /\ overtaken' \in SUBSET Bus!IdSet
    <3>1. drawn[g].id \in 1 .. MaxEvents
      BY <2>1 DEF Bus!Events, Bus!IdSet
    <3>2. /\ greatest' = IF drawn[g].id < greatest THEN greatest ELSE drawn[g].id
          /\ overtaken' = IF drawn[g].id < greatest THEN overtaken \cup {drawn[g].id} ELSE overtaken
      BY <1>2 DEF Bus!Put, Bus!Latest
    <3>3. greatest \in 0 .. MaxEvents /\ overtaken \in SUBSET (1 .. MaxEvents)
      BY <1>0 DEF Bus!IdSet
    <3>4. greatest' \in 0 .. MaxEvents
      BY <3>1, <3>2, <3>3 DEF CachesAssumption
    <3>5. overtaken' \in SUBSET Bus!IdSet
      BY <3>1, <3>2, <3>3 DEF Bus!IdSet
    <3> QED
      BY <3>4, <3>5
  <2>3. drawn' \in [Emitters -> Bus!Events \cup {Bus!NoEvent}]
    BY <1>0, <1>2 DEF Bus!Put
  <2> QED
    BY <1>0, <1>2, <2>1, <2>2, <2>3 DEF Bus!Put, Bus!pageVars
<1>3. ASSUME NEW q \in Slots, NEW r \in Bus!Asks, asked' = [asked EXCEPT ![q] = r],
             UNCHANGED <<Bus!busVars, Bus!pageVars>>
      PROVE  Bus!TypeOK'
  BY <1>0, <1>3 DEF Bus!busVars, Bus!pageVars
<1>4. ASSUME NEW q \in Slots, NEW full \in BOOLEAN, Bus!Ask(q, full)
      PROVE  Bus!TypeOK'
  <2> DEFINE r == [Bus!Idle EXCEPT !.at = "sent", !.full = full,
                                   !.after = IF full THEN 0 ELSE lastId]
  <2>1. (IF full THEN 0 ELSE lastId) \in 0 .. MaxEvents
    BY <1>0, CachesAssumption DEF CachesAssumption
  <2>2. r \in Bus!Asks
    BY <2>1, IdleIsAsk DEF Bus!Asks
  <2> QED
    BY <1>3, <1>4, <2>2 DEF Bus!Ask
<1>5. ASSUME NEW q \in Slots, Bus!Answer(q)
      PROVE  Bus!TypeOK'
  <2> DEFINE newest == asked[q].after = 0
             places == IF newest THEN Bus!Snapshot(PollLimit)
                       ELSE Bus!Since(asked[q].after, PollLimit)
             ids    == [j \in places |-> ring[j].id]
             older_ == IF newest THEN {ring[j].id : j \in Bus!Matching(0) \ places} ELSE {}
             r      == [asked[q] EXCEPT !.at = "answered", !.ids = ids, !.older = older_]
  <2>1. places \subseteq DOMAIN ring /\ places \in SUBSET (1 .. Cap)
        /\ Bus!Matching(0) \subseteq DOMAIN ring
    BY <1>0, AnswerPlaces
  <2>2. \A j \in DOMAIN ring : ring[j].id \in Bus!IdSet
    BY <1>0, BusTypes DEF Bus!IdSet
  <2>3. ids \in [places -> Bus!IdSet] /\ older_ \in SUBSET Bus!IdSet
    BY <2>1, <2>2
  <2>4. ids \in UNION {[S -> Bus!IdSet] : S \in SUBSET (1 .. Cap)}
    BY <2>1, <2>3
  <2>5. asked[q] \in Bus!Asks
    BY <1>0
  <2> HIDE DEF ids, older_, places
  <2>6. r \in Bus!Asks
    BY <2>3, <2>4, <2>5 DEF Bus!Asks
  <2>7. asked' = [asked EXCEPT ![q] = r]
    BY <1>0, <1>5 DEF Bus!Answer, ids, older_, places
  <2> QED
    BY <1>3, <1>5, <2>6, <2>7 DEF Bus!Answer
<1>6. ASSUME NEW q \in Slots, Bus!Handle(q) \/ Bus!Fail(q)
      PROVE  Bus!TypeOK'
  <2>1. asked' = [asked EXCEPT ![q] = Bus!Idle] /\ UNCHANGED Bus!busVars
    BY <1>6 DEF Bus!Handle, Bus!Fail
  <2>2. Bus!Idle \in Bus!Asks
    BY IdleIsAsk
  <2>3. asked' \in [Slots -> Bus!Asks]
    BY <1>0, <2>1, <2>2
  <2>4. /\ lastId' \in 0 .. MaxEvents
        /\ pane' \in SUBSET Bus!IdSet /\ older' \in SUBSET Bus!IdSet /\ lost' \in SUBSET Bus!IdSet
    <3>1. CASE UNCHANGED Bus!pageVars
      BY <1>0, <3>1 DEF Bus!pageVars
    <3>2. CASE Bus!Wipe
      BY <1>0, <3>2 DEF Bus!Wipe
    <3>3. CASE Bus!Show(q)
      <4>1. lastId' \in Bus!IdSet
        BY <1>0, <3>3, AskTypes DEF Bus!Show
      <4>2. lastId + 1 .. asked[q].after \in SUBSET Bus!IdSet
        BY <1>0, AskTypes DEF Bus!IdSet
      <4>3. pane' \in SUBSET Bus!IdSet /\ older' \in SUBSET Bus!IdSet /\ lost' \in SUBSET Bus!IdSet
        BY <1>0, <3>3, <4>2, AskTypes DEF Bus!Show
      <4> QED
        BY <4>1, <4>3, CachesAssumption DEF Bus!IdSet, CachesAssumption
    <3> QED
      BY <1>6, <3>1, <3>2, <3>3 DEF Bus!Handle, Bus!Fail
  <2> QED
    BY <1>0, <2>1, <2>3, <2>4 DEF Bus!busVars
<1>7. CASE UNCHANGED Bus!vars
  BY <1>0, <1>7 DEF Bus!vars, Bus!busVars, Bus!pageVars
<1> QED
  BY <1>1, <1>2, <1>4, <1>5, <1>6, <1>7 DEF Bus!Next

\* What is put in is new, and is overtaken unless it has the greatest id so far.
LEMMA PutStep ==
  ASSUME CachesAssumption, BusInv, NEW g \in Emitters, Bus!Put(g)
  PROVE  /\ IdInv' /\ OrderInv' /\ lastId' <= greatest'
         /\ AskedInv' /\ PaneInv' /\ PollsMissNothing'
<1> DEFINE d == drawn[g]
           n == Len(ring')
<1>0. IdInv
  BY DEF BusInv
<1>1. PICK k \in {0, 1} :
        /\ n = Len(ring) - k + 1
        /\ \A j \in 1 .. n - 1 : j + k \in DOMAIN ring /\ ring'[j] = ring[j + k]
        /\ ring'[n] = d
  BY PutShape DEF BusInv
<1>2. /\ d \in Bus!Events /\ d.id \in Nat /\ g \in Drawn /\ greatest \in Nat /\ lastId \in Nat
      /\ n \in Nat /\ DOMAIN ring' = 1 .. n /\ DOMAIN ring = 1 .. Len(ring) /\ Len(ring) \in Nat
      /\ \A j \in DOMAIN ring : ring[j].id \in Nat
  <2>1. g \in Drawn
    BY DEF Bus!Put, Drawn
  <2>2. d \in Bus!Events /\ ring' \in Seq(Bus!Events)
    BY PutShape DEF BusInv
  <2> QED
    BY <2>1, <2>2, BusTypes DEF BusInv
<1> HIDE DEF n
<1>3. /\ UNCHANGED <<seq, lastId, pane, asked, older, lost>>
      /\ greatest' = IF d.id < greatest THEN greatest ELSE d.id
      /\ overtaken' = IF d.id < greatest THEN overtaken \cup {d.id} ELSE overtaken
      /\ Drawn' = Drawn \ {g}
      /\ \A h \in Drawn \ {g} : drawn'[h] = drawn[h]
  BY DEF Bus!Put, Bus!Latest, Drawn, BusInv, Bus!TypeOK, Bus!pageVars
<1>4. /\ d.id # greatest /\ greatest <= greatest' /\ greatest' \in Nat /\ d.id <= greatest'
      /\ overtaken \subseteq overtaken' /\ d.id <= seq
      /\ \A j \in DOMAIN ring : ring[j].id <= greatest /\ ring[j].id # d.id
  BY <1>2, <1>3 DEF BusInv, IdInv
<1>5. \A j \in DOMAIN ring' : j = n \/ (j \in 1 .. n - 1 /\ j + k \in DOMAIN ring)
  BY <1>1, <1>2
<1>6. IdInv'
  <2>1. greatest' <= seq'
    BY <1>3, <1>4 DEF BusInv, IdInv
  <2>2. \A h \in Drawn' : drawn'[h].id <= seq' /\ drawn'[h].id # greatest'
    BY <1>2, <1>3 DEF BusInv, IdInv
  <2>3. \A h, i \in Drawn' : drawn'[h].id = drawn'[i].id => h = i
    BY <1>3 DEF BusInv, IdInv
  <2>4. \A j \in DOMAIN ring' : ring'[j].id <= greatest'
    BY <1>1, <1>2, <1>4, <1>5
  <2>5. \A h \in Drawn', j \in DOMAIN ring' : drawn'[h].id # ring'[j].id
    <3> SUFFICES ASSUME NEW h \in Drawn \ {g}, NEW j \in DOMAIN ring'
                 PROVE  drawn[h].id # ring'[j].id
      BY <1>3
    <3>1. CASE j = n
      BY <1>0, <1>1, <1>2, <3>1 DEF IdInv
    <3>2. CASE j # n
      BY <1>0, <1>1, <1>5, <3>2 DEF IdInv
    <3> QED
      BY <3>1, <3>2
  <2>6. ASSUME NEW i \in 1 .. n, NEW j \in 1 .. n, ring'[i].id = ring'[j].id
        PROVE  i = j
    <3>1. \A m \in 1 .. n - 1 : m + k \in DOMAIN ring /\ ring'[m] = ring[m + k] /\ ring'[m].id # d.id
      BY <1>1, <1>4
    <3>2. \A m \in 1 .. n : m = n \/ m \in 1 .. n - 1
      BY <1>2
    <3>4. ring'[n].id = d.id
      BY <1>1
    <3>3. CASE i \in 1 .. n - 1 /\ j \in 1 .. n - 1
      <4>1. i + k = j + k
        BY <2>6, <3>1, <3>3 DEF BusInv, IdInv
      <4> QED
        BY <4>1
    <3> HIDE DEF d
    <3> QED
      BY <2>6, <3>1, <3>2, <3>3, <3>4
  <2> QED
    BY <1>2, <2>1, <2>2, <2>3, <2>4, <2>5, <2>6 DEF IdInv
<1>7. OrderInv'
  <2>1. ASSUME NEW i \in 1 .. n, NEW j \in 1 .. n, i < j, ring'[j].id < ring'[i].id
        PROVE  ring'[j].id \in overtaken'
    <3>1. i \in 1 .. n - 1 /\ i + k \in DOMAIN ring /\ ring'[i] = ring[i + k]
      <4>1. i \in 1 .. n - 1
        BY <1>2, <2>1
      <4> QED
        BY <1>1, <4>1
    <3>2. CASE j = n
      <4>1. ring'[j] = d /\ ring[i + k].id \in Nat /\ ring[i + k].id <= greatest
        BY <1>1, <1>2, <1>4, <3>1, <3>2
      <4>2. d.id < greatest
        <5> HIDE DEF d
        <5> QED
          BY <1>2, <2>1, <3>1, <4>1
      <4> QED
        BY <1>3, <4>1, <4>2
    <3>3. CASE j # n
      <4>1. j \in 1 .. n - 1 /\ i + k < j + k
        BY <1>2, <2>1, <3>3
      <4>2. j + k \in DOMAIN ring /\ ring'[j] = ring[j + k]
        BY <1>1, <4>1
      <4> QED
        BY <1>4, <2>1, <3>1, <4>1, <4>2 DEF BusInv, OrderInv
    <3> QED
      BY <3>2, <3>3
  <2> QED
    BY <1>2, <2>1 DEF OrderInv
<1>8. PollsMissNothing'
  <2>1. ASSUME NEW j \in DOMAIN ring', ring'[j].ch = Watched, ring'[j].id <= lastId
        PROVE  ring'[j].id \in pane \cup older \cup overtaken' \cup lost
    <3>1. CASE j = n
      BY <1>1, <1>2, <1>3, <1>4, <2>1, <3>1 DEF BusInv
    <3>2. CASE j # n
      BY <1>1, <1>4, <1>5, <2>1, <3>2 DEF BusInv, PollsMissNothing, Bus!PollsMissNothing
    <3> QED
      BY <3>1, <3>2
  <2> QED
    BY <1>3, <2>1 DEF PollsMissNothing, Bus!PollsMissNothing
<1>9. AskedInv'
  <2> SUFFICES ASSUME NEW q \in Slots
               PROVE  Complete(asked[q])'
    BY DEF AskedInv
  <2> DEFINE r == asked[q]
  <2>1. Complete(r) /\ r' = r /\ \A j \in DOMAIN r.ids : r.ids[j] \in Nat
    BY <1>3, AskTypes DEF BusInv, AskedInv
  <2>2. \A j \in DOMAIN r.ids : r.ids[j] <= greatest'
    BY <1>2, <1>4, <2>1 DEF Complete
  <2>3. \A j, i \in DOMAIN r.ids : j < i /\ r.ids[i] < r.ids[j] => r.ids[i] \in overtaken'
    BY <1>4, <2>1 DEF Complete
  <2>4. ASSUME NEW i \in DOMAIN ring', ring'[i].ch = Watched, ring'[i].id > r.after
        PROVE  \/ ring'[i].id \in r.older \cup overtaken'
               \/ \E j \in DOMAIN r.ids : r.ids[j] = ring'[i].id
               \/ \A j \in DOMAIN r.ids : r.ids[j] < ring'[i].id
    <3>1. CASE i = n
      <4>1. CASE d.id < greatest
        BY <1>1, <1>3, <3>1, <4>1
      <4>2. CASE ~(d.id < greatest)
        <5>1. greatest < d.id
          BY <1>2, <1>4, <4>2
        <5>2. \A j \in DOMAIN r.ids : r.ids[j] < d.id
          BY <1>2, <2>1, <5>1 DEF Complete
        <5> QED
          BY <1>1, <3>1, <5>2
      <4> QED
        BY <4>1, <4>2
    <3>2. CASE i # n
      <4>1. i + k \in DOMAIN ring /\ ring'[i] = ring[i + k]
        BY <1>1, <1>5, <2>4, <3>2
      <4> QED
        BY <1>4, <2>1, <2>4, <4>1 DEF Complete
    <3> QED
      BY <3>1, <3>2
  <2>5. r.full => r.after = 0
    BY <2>1 DEF Complete
  <2> HIDE DEF r
  <2> QED
    BY <2>1, <2>2, <2>3, <2>4, <2>5 DEF Complete, r
<1>10. PaneInv'
  BY <1>3, <1>4 DEF BusInv, PaneInv
<1> QED
  BY <1>2, <1>3, <1>4, <1>6, <1>7, <1>8, <1>9, <1>10 DEF BusInv

\* Who only reads the ring keeps what is said of it and of every request but q.
LEMMA PageStep ==
  ASSUME BusInv, NEW q \in Slots, NEW r, asked' = [asked EXCEPT ![q] = r], UNCHANGED Bus!busVars
  PROVE  /\ IdInv' /\ OrderInv'
         /\ Complete(r)' => AskedInv'
<1>1. UNCHANGED <<seq, drawn, ring, greatest, overtaken>>
  BY DEF Bus!busVars
<1>2. IdInv' /\ OrderInv'
  BY <1>1 DEF BusInv, IdInv, OrderInv, Drawn
<1>3. \A p \in Slots : asked'[p] = IF p = q THEN r ELSE asked[p]
  BY DEF BusInv, Bus!TypeOK
<1>4. ASSUME Complete(r)', NEW p \in Slots
      PROVE  Complete(asked[p])'
  <2>1. CASE p = q
    <3>1. asked'[p] = r
      BY <1>3, <2>1
    <3> QED
      BY <1>1, <1>4, <3>1 DEF Complete
  <2>2. CASE p # q
    <3>1. asked'[p] = asked[p] /\ Complete(asked[p])
      BY <1>3, <2>2 DEF BusInv, AskedInv
    <3> QED
      BY <1>1, <3>1 DEF Complete
  <2> QED
    BY <2>1, <2>2
<1> QED
  BY <1>2, <1>4 DEF AskedInv

\* An answer leaves out no event up to its last id that comes before it, and what
\* comes after it was overtaken.
LEMMA AnswerStep ==
  ASSUME CachesAssumption, BusInv, NEW q \in Slots, Bus!Answer(q)
  PROVE  BusInv'
<1> DEFINE newest == asked[q].after = 0
           places == IF newest THEN Bus!Snapshot(PollLimit)
                     ELSE Bus!Since(asked[q].after, PollLimit)
           ids    == [j \in places |-> ring[j].id]
           passed == IF newest THEN {ring[j].id : j \in Bus!Matching(0) \ places} ELSE {}
<1>0. PICK r : r = [asked[q] EXCEPT !.at = "answered", !.ids = ids, !.older = passed]
  OBVIOUS
<1>1. Bus!TypeOK /\ Bus!TypeOK'
  BY BusTypeStep DEF BusInv, Bus!Next
<1>2. /\ asked' = [asked EXCEPT ![q] = r]
      /\ UNCHANGED <<seq, drawn, ring, greatest, overtaken>>
      /\ UNCHANGED <<lastId, pane, older, lost>>
      /\ UNCHANGED Bus!busVars
  BY <1>0, <1>1 DEF Bus!Answer, Bus!TypeOK, Bus!busVars, Bus!pageVars
<1>3. asked[q] \in Bus!Asks /\ asked[q].after \in Nat /\ (asked[q].full => newest)
  BY <1>1, AskTypes DEF BusInv, AskedInv, Complete
<1>4. /\ places \subseteq Bus!Matching(asked[q].after) /\ places \subseteq DOMAIN ring
  BY <1>1, AnswerPlaces
<1>5. /\ DOMAIN ring = 1 .. Len(ring) /\ Len(ring) \in Nat
      /\ \A j \in DOMAIN ring : ring[j].id \in Nat
  BY <1>1, BusTypes
<1>6. r.full = asked[q].full /\ r.after = asked[q].after /\ r.ids = ids /\ r.older = passed
  BY <1>0, <1>3 DEF Bus!Asks
<1>7. ASSUME NEW i \in DOMAIN ring, ring[i].ch = Watched, ring[i].id > asked[q].after,
             i \notin places, ring[i].id \notin passed, NEW j \in places
      PROVE  ring[i].id \in overtaken \/ ring[j].id < ring[i].id
  <2>1. i \in Bus!Matching(asked[q].after)
    BY <1>7 DEF Bus!Matching
  <2>2. ~newest
    BY <1>7, <2>1
  <2>3. ~(i <= j)
    BY <1>1, <1>7, <2>1, <2>2, SinceIsPrefix
  <2>4. j < i /\ j \in DOMAIN ring
    BY <1>4, <1>5, <1>7, <2>3
  <2>5. ring[i].id # ring[j].id
    BY <1>5, <1>7, <2>4 DEF BusInv, IdInv
  <2> QED
    BY <1>5, <1>7, <2>4, <2>5 DEF BusInv, OrderInv
<1>8. \A j, k \in places : j < k /\ ring[k].id < ring[j].id => ring[k].id \in overtaken
  BY <1>4 DEF BusInv, OrderInv
<1>9. \A j \in places : ring[j].id <= greatest
  BY <1>4 DEF BusInv, IdInv
<1>10. \A j \in places : ids[j] = ring[j].id
  OBVIOUS
<1>11. DOMAIN ids = places
  OBVIOUS
<1> HIDE DEF ids, passed, places, newest
<1>12. Complete(r)'
  <2>1. \A j \in DOMAIN ids : ids[j] <= greatest
    BY <1>9, <1>10, <1>11
  <2>2. \A j, k \in DOMAIN ids : j < k /\ ids[k] < ids[j] => ids[k] \in overtaken
    BY <1>8, <1>10, <1>11
  <2>3. ASSUME NEW i \in DOMAIN ring, ring[i].ch = Watched, ring[i].id > asked[q].after
        PROVE  \/ ring[i].id \in passed \cup overtaken
               \/ \E j \in DOMAIN ids : ids[j] = ring[i].id
               \/ \A j \in DOMAIN ids : ids[j] < ring[i].id
    <3>1. CASE i \in places
      BY <1>10, <1>11, <3>1
    <3>2. CASE i \notin places
      BY <1>7, <1>10, <1>11, <2>3, <3>2
    <3> QED
      BY <3>1, <3>2
  <2>4. asked[q].full => asked[q].after = 0
    BY <1>3 DEF newest
  <2> QED
    BY <1>2, <1>6, <2>1, <2>2, <2>3, <2>4 DEF Complete
<1>13. IdInv' /\ OrderInv' /\ AskedInv'
  BY <1>2, <1>12, PageStep
<1>14. PaneInv' /\ PollsMissNothing' /\ lastId' <= greatest'
  BY <1>2 DEF BusInv, PaneInv, PollsMissNothing, Bus!PollsMissNothing
<1> QED
  BY <1>1, <1>13, <1>14 DEF BusInv

\* What the page makes of an answer: it renders all it has not seen, up to lastId.
LEMMA ShowStep ==
  ASSUME CachesAssumption, BusInv, NEW q \in Slots, Bus!Show(q), UNCHANGED Bus!busVars
  PROVE  lastId' <= greatest' /\ PaneInv' /\ PollsMissNothing'
<1> DEFINE r == asked[q]
<1>1. Bus!TypeOK /\ UNCHANGED <<ring, greatest, overtaken>>
  BY DEF BusInv, Bus!busVars
<1>2. PICK l \in Bus!Fresh(q) : (\A k \in Bus!Fresh(q) : k <= l) /\ lastId' = r.ids[l]
  BY DEF Bus!Show
<1>3. /\ l \in DOMAIN r.ids /\ Bus!Fresh(q) \subseteq DOMAIN r.ids
      /\ \A j \in DOMAIN r.ids : r.ids[j] \in Nat
      /\ DOMAIN r.ids \subseteq 1 .. Cap /\ Cap \in Nat
      /\ r.after \in Nat /\ lastId \in Nat /\ greatest \in Nat
      /\ \A j \in DOMAIN ring : ring[j].id \in Nat /\ ring[j].id > 0
      /\ \A id \in pane : id \in Nat
  BY <1>1, <1>2, AskTypes, BusTypes, CachesAssumption
     DEF CachesAssumption, Bus!TypeOK, Bus!IdSet
<1>4. Complete(r)
  BY DEF BusInv, AskedInv
<1>5. r.ids[l] <= greatest /\ lastId' = r.ids[l] /\ r.ids[l] \in Nat /\ r.ids[l] \in Bus!FreshIds(q)
  BY <1>2, <1>3, <1>4 DEF Complete, Bus!FreshIds
<1>6. \A id \in Bus!FreshIds(q) : id > r.ids[l] => r.ids[l] \in overtaken
  <2> SUFFICES ASSUME NEW j \in Bus!Fresh(q), r.ids[j] > r.ids[l]
               PROVE  r.ids[l] \in overtaken
    BY DEF Bus!FreshIds
  <2>1. j < l /\ r.ids[l] < r.ids[j]
    BY <1>2, <1>3
  <2> QED
    BY <1>3, <1>4, <2>1 DEF Complete
<1>7. CASE r.full
  <2>1. pane' = Bus!FreshIds(q) /\ older' = r.older /\ Bus!Fresh(q) = DOMAIN r.ids /\ r.after = 0
    BY <1>4, <1>7 DEF Bus!Show, Bus!Fresh, Complete
  <2>2. PaneInv'
    BY <1>1, <1>3, <1>5, <1>6, <2>1 DEF PaneInv
  <2>3. ASSUME NEW i \in DOMAIN ring, ring[i].ch = Watched, ring[i].id <= r.ids[l]
        PROVE  ring[i].id \in pane' \cup older' \cup overtaken
    <3>1. ring[i].id > r.after
      BY <1>3, <2>1, <2>3
    <3>2. ~(\A j \in DOMAIN r.ids : r.ids[j] < ring[i].id)
      BY <1>3, <2>3
    <3>3. \A j \in DOMAIN r.ids : r.ids[j] \in pane'
      BY <2>1 DEF Bus!FreshIds
    <3> QED
      BY <1>4, <2>1, <2>3, <3>1, <3>2, <3>3 DEF Complete
  <2> QED
    BY <1>1, <1>5, <2>2, <2>3 DEF PollsMissNothing, Bus!PollsMissNothing
<1>8. CASE ~r.full
  <2>1. /\ pane' = pane \cup Bus!FreshIds(q) /\ older' = older \cup r.older
        /\ lost' = lost \cup (lastId + 1 .. r.after)
        /\ Bus!Fresh(q) = {j \in DOMAIN r.ids : r.ids[j] > lastId}
    BY <1>8 DEF Bus!Show, Bus!Fresh
  <2>2. r.ids[l] > lastId
    BY <1>2, <2>1
  <2>3. PaneInv'
    <3> SUFFICES ASSUME NEW id \in pane', id > r.ids[l]
                 PROVE  \E o \in overtaken \cap pane' : o < id
      BY <1>1, <1>5 DEF PaneInv
    <3>1. CASE id \in Bus!FreshIds(q)
      BY <1>5, <1>6, <2>1, <3>1
    <3>2. CASE id \in pane
      <4>1. id > lastId
        BY <1>3, <2>2, <3>2
      <4> QED
        BY <2>1, <3>2, <4>1 DEF BusInv, PaneInv
    <3> QED
      BY <2>1, <3>1, <3>2
  <2>4. ASSUME NEW i \in DOMAIN ring, ring[i].ch = Watched, ring[i].id <= r.ids[l]
        PROVE  ring[i].id \in pane' \cup older' \cup overtaken \cup lost'
    <3>1. CASE ring[i].id <= lastId
      BY <2>1, <2>4, <3>1 DEF BusInv, PollsMissNothing, Bus!PollsMissNothing
    <3>2. CASE ring[i].id > lastId /\ ring[i].id <= r.after
      <4>1. ring[i].id \in lastId + 1 .. r.after
        BY <1>3, <3>2
      <4> QED
        BY <2>1, <4>1
    <3>3. CASE ring[i].id > lastId /\ ring[i].id > r.after
      <4>1. ~(\A j \in DOMAIN r.ids : r.ids[j] < ring[i].id)
        BY <1>3, <2>4
      <4>2. \A j \in DOMAIN r.ids : r.ids[j] = ring[i].id => ring[i].id \in pane'
        BY <2>1, <3>3 DEF Bus!FreshIds
      <4> QED
        BY <1>4, <2>1, <2>4, <3>3, <4>1, <4>2 DEF Complete
    <3> QED
      BY <1>3, <3>1, <3>2, <3>3
  <2> QED
    BY <1>1, <1>5, <2>3, <2>4 DEF PollsMissNothing, Bus!PollsMissNothing
<1> QED
  BY <1>1, <1>5, <1>7, <1>8

\* Every step preserves the invariant.
LEMMA BusStep ==
  ASSUME CachesAssumption, BusInv, [Bus!Next]_Bus!vars
  PROVE  BusInv'
<1>1. Bus!TypeOK /\ Bus!TypeOK'
  BY BusTypeStep DEF BusInv
<1>2. ASSUME NEW g \in Emitters, Bus!Draw(g)
      PROVE  BusInv'
  <2>1. /\ seq' = seq + 1 /\ UNCHANGED <<ring, greatest, overtaken>>
        /\ UNCHANGED <<lastId, pane, older, lost, asked>>
        /\ drawn'[g].id = seq + 1 /\ \A h \in Emitters \ {g} : drawn'[h] = drawn[h]
        /\ Drawn' = Drawn \cup {g}
    BY <1>1, <1>2 DEF Bus!Draw, Bus!TypeOK, Drawn, Bus!NoEvent, Bus!pageVars
  <2>2. /\ seq \in Nat /\ greatest \in Nat /\ \A h \in Drawn : drawn[h].id \in Nat
        /\ \A j \in DOMAIN ring : ring[j].id \in Nat
    BY <1>1, BusTypes
  <2>3. IdInv'
    <3>1. \A h \in Drawn' :
            \/ h = g /\ drawn'[h].id = seq + 1
            \/ h \in Drawn /\ h # g /\ drawn'[h] = drawn[h]
      BY <2>1 DEF Drawn
    <3>2. \A j \in DOMAIN ring : ring[j].id <= seq
      BY <2>2 DEF BusInv, IdInv
    <3>3. \A h, i \in Drawn' : drawn'[h].id = drawn'[i].id => h = i
      BY <2>2, <3>1 DEF BusInv, IdInv
    <3>4. \A h \in Drawn' : drawn'[h].id <= seq' /\ drawn'[h].id # greatest'
      BY <2>1, <2>2, <3>1 DEF BusInv, IdInv
    <3>5. \A h \in Drawn', j \in DOMAIN ring : drawn'[h].id # ring[j].id
      BY <2>2, <3>1, <3>2 DEF BusInv, IdInv
    <3> QED
      BY <2>1, <2>2, <3>3, <3>4, <3>5 DEF BusInv, IdInv
  <2>4. OrderInv' /\ AskedInv' /\ PaneInv' /\ PollsMissNothing' /\ lastId' <= greatest'
    BY <2>1 DEF BusInv, OrderInv, AskedInv, Complete, PaneInv,
                PollsMissNothing, Bus!PollsMissNothing
  <2> QED
    BY <1>1, <2>3, <2>4 DEF BusInv
<1>3. ASSUME NEW g \in Emitters, Bus!Put(g)
      PROVE  BusInv'
  BY <1>1, <1>3, PutStep DEF BusInv
<1>4. ASSUME NEW q \in Slots, NEW full \in BOOLEAN, Bus!Ask(q, full)
      PROVE  BusInv'
  <2>0. PICK r : r = [Bus!Idle EXCEPT !.at = "sent", !.full = full,
                                      !.after = IF full THEN 0 ELSE lastId]
    OBVIOUS
  <2>1. /\ asked' = [asked EXCEPT ![q] = r] /\ UNCHANGED Bus!busVars
        /\ UNCHANGED <<ring, greatest, overtaken>> /\ UNCHANGED <<lastId, pane, older, lost>>
    BY <1>4, <2>0 DEF Bus!Ask, Bus!busVars, Bus!pageVars
  <2>2. DOMAIN r.ids = {} /\ (r.full => r.after = 0)
    BY <2>0, IdleIsAsk DEF Bus!Asks
  <2>3. Complete(r)'
    BY <2>2 DEF Complete
  <2>4. IdInv' /\ OrderInv' /\ AskedInv'
    BY <2>1, <2>3, PageStep
  <2>5. PaneInv' /\ PollsMissNothing' /\ lastId' <= greatest'
    BY <2>1 DEF BusInv, PaneInv, PollsMissNothing, Bus!PollsMissNothing
  <2> QED
    BY <1>1, <2>4, <2>5 DEF BusInv
<1>5. ASSUME NEW q \in Slots, Bus!Answer(q)
      PROVE  BusInv'
  BY <1>5, AnswerStep
<1>6. ASSUME NEW q \in Slots, Bus!Handle(q) \/ Bus!Fail(q)
      PROVE  BusInv'
  <2>1. asked' = [asked EXCEPT ![q] = Bus!Idle] /\ UNCHANGED Bus!busVars
    BY <1>6 DEF Bus!Handle, Bus!Fail
  <2>2. DOMAIN Bus!Idle.ids = {} /\ ~Bus!Idle.full
    BY IdleIsAsk
  <2>3. Complete(Bus!Idle)'
    BY <2>2 DEF Complete
  <2>4. IdInv' /\ OrderInv' /\ AskedInv'
    BY <2>1, <2>3, PageStep
  <2>5. UNCHANGED <<ring, greatest, overtaken>>
    BY <2>1 DEF Bus!busVars
  <2>6. lastId' <= greatest' /\ PaneInv' /\ PollsMissNothing'
    <3>1. CASE Bus!Show(q)
      BY <2>1, <3>1, ShowStep
    <3>2. CASE Bus!Wipe
      <4>1. pane' = {} /\ lost' = lost \cup pane /\ UNCHANGED <<lastId, older>>
        BY <3>2 DEF Bus!Wipe
      <4> QED
        BY <2>5, <4>1 DEF BusInv, PaneInv, PollsMissNothing, Bus!PollsMissNothing
    <3>3. CASE UNCHANGED Bus!pageVars
      <4>1. UNCHANGED <<lastId, pane, older, lost>>
        BY <3>3 DEF Bus!pageVars
      <4> QED
        BY <2>5, <4>1 DEF BusInv, PaneInv, PollsMissNothing, Bus!PollsMissNothing
    <3> QED
      BY <1>6, <3>1, <3>2, <3>3 DEF Bus!Handle, Bus!Fail
  <2> QED
    BY <1>1, <2>4, <2>6 DEF BusInv
<1>7. CASE UNCHANGED Bus!vars
  <2>1. /\ UNCHANGED <<seq, drawn, ring, greatest, overtaken>>
        /\ UNCHANGED <<lastId, pane, older, lost, asked>>
    BY <1>7 DEF Bus!vars, Bus!busVars, Bus!pageVars
  <2>2. IdInv' /\ OrderInv'
    BY <2>1 DEF BusInv, IdInv, OrderInv, Drawn
  <2> QED
    BY <1>1, <2>1, <2>2 DEF BusInv, AskedInv, Complete, PaneInv,
                            PollsMissNothing, Bus!PollsMissNothing
<1> QED
  BY <1>2, <1>3, <1>4, <1>5, <1>6, <1>7 DEF Bus!Next

\* So it holds in every state.
LEMMA AlwaysBusInv == Spec => []BusInv
<1>1. Bus!Init => BusInv
  <2> SUFFICES ASSUME Bus!Init
               PROVE  BusInv
    OBVIOUS
  <2>1. /\ ring = <<>> /\ lastId = 0 /\ greatest = 0 /\ seq = 0 /\ Drawn = {}
        /\ pane = {} /\ older = {} /\ lost = {} /\ overtaken = {}
        /\ \A q \in Slots : asked[q] = Bus!Idle
    BY DEF Bus!Init, Drawn
  <2>2. Bus!TypeOK
    BY IdleIsAsk, CachesAssumption DEF Bus!Init, Bus!TypeOK, CachesAssumption
  <2>3. AskedInv
    BY <2>1, IdleIsAsk DEF AskedInv, Complete
  <2> QED
    BY <2>1, <2>2, <2>3 DEF BusInv, IdInv, OrderInv, PaneInv, PollsMissNothing, Bus!PollsMissNothing
<1>2. BusInv /\ [Bus!Next]_Bus!vars => BusInv'
  BY CachesAssumption, BusStep
<1> QED
  BY <1>1, <1>2, BusPart, PTL DEF Bus!Spec

\* PollsMissNothing: an event of the page's channel that is still in the ring, with an
\* id no later poll will ask for, is on the page, unless it was older than what the page
\* opened with, was overtaken, or was lost to a full reload that failed or met a poll.
THEOREM EventsReachThePage == Spec => []PollsMissNothing
<1> QED
  BY AlwaysBusInv, PTL DEF BusInv

\* NeverRenderedTwice: however polls overlap, what one of them would add to the page is
\* not there yet, unless a smaller id on the page was overtaken on its way into the ring.
THEOREM NoLineTwice == Spec => []NeverRenderedTwice
<1>1. BusInv => NeverRenderedTwice
  <2> SUFFICES ASSUME BusInv, NEW q \in Slots, NEW j \in Bus!Fresh(q),
                      ~asked[q].full, asked[q].ids[j] \in pane
               PROVE  \E o \in overtaken \cap pane : o < asked[q].ids[j]
    BY DEF NeverRenderedTwice, Bus!NeverRenderedTwice, Bus!FreshIds
  <2>1. asked[q].ids[j] > lastId
    BY DEF Bus!Fresh
  <2> QED
    BY <2>1 DEF BusInv, PaneInv
<1> QED
  BY <1>1, AlwaysBusInv, PTL

-----------------------------------------------------------------------------
(***************************************************************************)
(* Clients: each password in hand was read from its file at some time.     *)
(***************************************************************************)
\* The file of client c held m at the time, or has since; if it holds another
\* password now, it has changed since.
Saw(c, m, time) ==
  /\ m \in Passwords => Secret!HeldSince(c, m, time)
  /\ mounted[c] # m => time <= since[c]

\* One request reads, and not for long.
ReadingInv ==
  /\ \A r, s \in Requests : login[r].pc = "read" /\ login[s].pc = "read" => r = s
  /\ \A r \in Requests : login[r].pc = "read" =>
       /\ login[r].at = begun /\ begun <= secretNow /\ secretNow <= begun + Slack
       /\ \A c \in Clients \ todo : \E time \in begun .. secretNow : Saw(c, buffer[c], time)

\* The set was read shortly before its stamp.
LoadedInv ==
  /\ loadedAt <= secretNow + 1
  /\ loadedAt # 0 /\ ~failed =>
       \A c \in Clients : \E time \in 0 .. secretNow :
         time < loadedAt /\ loadedAt <= time + Slack + 1 /\ Saw(c, loaded[c], time)

\* So was the set a request goes by, and its verdict is about that set.
Compared == {"compare", "accepted", "refused"}

GivenOK(r) ==
  /\ login[r].at <= secretNow
  /\ login[r].pc \in Compared /\ ~login[r].stale =>
       \A c \in Clients : \E time \in 0 .. secretNow :
         login[r].at < time + Ttl + Slack /\ Saw(c, login[r].given[c], time)
  /\ login[r].pc \in {"accepted", "refused"} =>
       (login[r].pc = "accepted" <=>
          Secret!Accepts(login[r].user, login[r].pass, login[r].given))

SecretInv ==
  Secret!TypeOK /\ ReadingInv /\ LoadedInv /\ \A r \in Requests : GivenOK(r)

\* What a file was at a time that is past stays so.
StillSeen ==
  \A c \in Clients, m \in Secret!Mount, time \in 0 .. secretNow : Saw(c, m, time) => Saw(c, m, time)'

\* No step forgets it, and only a tick takes time.
LEMMA AlwaysSeen ==
  ASSUME Secret!TypeOK, [Secret!Next]_Secret!vars
  PROVE  StillSeen /\ (Secret!Tick \/ secretNow' = secretNow)
<1> USE DEF Secret!TypeOK
<1>1. ASSUME UNCHANGED <<secretNow, mounted, since, heldUntil>>
      PROVE  StillSeen /\ secretNow' = secretNow
  BY <1>1 DEF StillSeen, Saw, Secret!HeldSince
<1>2. ASSUME NEW d \in Clients, Secret!Swap(d)
      PROVE  StillSeen /\ secretNow' = secretNow
  <2>1. PICK n \in Secret!Mount \ {mounted[d]} :
          /\ mounted' = [mounted EXCEPT ![d] = n]
          /\ since' = [since EXCEPT ![d] = secretNow]
          /\ heldUntil' = [heldUntil EXCEPT ![d] =
               [p \in Passwords |-> IF p = mounted[d] THEN secretNow + 1 ELSE heldUntil[d][p]]]
          /\ secretNow' = secretNow
    BY <1>2 DEF Secret!Swap
  <2>2. ASSUME NEW c \in Clients, NEW m \in Secret!Mount, NEW time \in 0 .. secretNow, Saw(c, m, time)
        PROVE  Saw(c, m, time)'
    <3>1. CASE c = d
      <4>1. since'[c] = secretNow /\ time <= secretNow
        BY <2>1, <3>1
      <4>2. ASSUME m \in Passwords
            PROVE  Secret!HeldSince(c, m, time)'
        <5>1. heldUntil'[c][m] = IF m = mounted[d] THEN secretNow + 1 ELSE heldUntil[d][m]
          BY <2>1, <3>1, <4>2
        <5>2. mounted[d] = m \/ time < heldUntil[d][m]
          BY <2>2, <3>1, <4>2 DEF Saw, Secret!HeldSince
        <5> QED
          BY <4>1, <5>1, <5>2 DEF Secret!HeldSince
      <4> QED
        BY <4>1, <4>2 DEF Saw
    <3>2. CASE c # d
      BY <2>1, <2>2, <3>2 DEF Saw, Secret!HeldSince
    <3> QED
      BY <3>1, <3>2
  <2> QED
    BY <2>1, <2>2 DEF StillSeen
<1>3. CASE Secret!Tick
  <2>1. UNCHANGED <<mounted, since, heldUntil>> /\ secretNow' = secretNow + 1
    BY <1>3 DEF Secret!Tick, Secret!TickUnlessDue
  <2> QED
    BY <1>3, <2>1 DEF StillSeen, Saw, Secret!HeldSince
<1>4. ASSUME NEW r \in Requests, Secret!Step(r)
      PROVE  UNCHANGED <<secretNow, mounted, since, heldUntil>>
  BY <1>4 DEF Secret!Step, Secret!ReadFile, Secret!Loaded, Secret!LoadFails, Secret!Compare
<1>5. ASSUME NEW r \in Requests, NEW u \in Clients \cup {Admin}, NEW p \in Passwords,
             Secret!CheckFresh(r, u, p) \/ Secret!CheckStale(r, u, p)
      PROVE  UNCHANGED <<secretNow, mounted, since, heldUntil>>
  BY <1>5 DEF Secret!CheckFresh, Secret!CheckStale
<1>6. CASE UNCHANGED Secret!vars
  BY <1>1, <1>6 DEF Secret!vars
<1>7. CASE Secret!Next
  <2>1. CASE \E c \in Clients : Secret!Swap(c)
    BY <1>2, <2>1
  <2>2. CASE \E r \in Requests :
               \/ Secret!Step(r)
               \/ \E u \in Clients \cup {Admin}, p \in Passwords :
                    Secret!CheckFresh(r, u, p) \/ Secret!CheckStale(r, u, p)
    BY <1>1, <1>4, <1>5, <2>2
  <2> QED
    BY <1>3, <1>7, <2>1, <2>2 DEF Secret!Next
<1> QED
  BY <1>6, <1>7

\* What a file holds now is what it has been seen to hold.
LEMMA SeenNow ==
  ASSUME NEW c \in Clients
  PROVE  Saw(c, mounted[c], secretNow)
BY DEF Saw, Secret!HeldSince

\* Every step keeps the types.
LEMMA SecretTypeStep ==
  ASSUME Secret!TypeOK, [Secret!Next]_Secret!vars
  PROVE  Secret!TypeOK'
<1> USE DEF Secret!TypeOK
<1>1. ASSUME NEW r \in Requests, NEW u \in Clients \cup {Admin}, NEW p \in Passwords,
             Secret!CheckFresh(r, u, p) \/ Secret!CheckStale(r, u, p)
      PROVE  Secret!TypeOK'
  <2>1. Secret!NoSet \in [Clients -> Secret!Mount]
    BY DEF Secret!NoSet, Secret!Mount
  <2>2. ASSUME NEW label \in {"compare", "read"}, NEW set \in [Clients -> Secret!Mount],
               NEW old \in BOOLEAN
        PROVE  [pc |-> label, user |-> u, pass |-> p, at |-> secretNow, given |-> set,
                stale |-> old] \in Secret!Calls
    BY DEF Secret!Calls, Secret!Labels
  <2>3. login' \in [Requests -> Secret!Calls]
    BY <1>1, <2>1, <2>2 DEF Secret!CheckFresh, Secret!CheckStale
  <2> QED
    BY <1>1, <2>1, <2>3 DEF Secret!CheckFresh, Secret!CheckStale
<1>2. ASSUME NEW r \in Requests, Secret!ReadFile(r)
      PROVE  Secret!TypeOK'
  BY <1>2 DEF Secret!ReadFile
<1>3. ASSUME NEW r \in Requests, NEW set \in [Clients -> Secret!Mount], NEW old \in BOOLEAN,
             Secret!Given(r, set, old)
      PROVE  login' \in [Requests -> Secret!Calls]
  <2>1. [[[login[r] EXCEPT !.pc = "compare"] EXCEPT !.given = set] EXCEPT !.stale = old] \in Secret!Calls
    BY DEF Secret!Calls, Secret!Labels
  <2>2. login' = [login EXCEPT ![r] =
          [[[login[r] EXCEPT !.pc = "compare"] EXCEPT !.given = set] EXCEPT !.stale = old]]
    BY <1>3 DEF Secret!Given
  <2> QED
    BY <2>1, <2>2
<1>4. ASSUME NEW r \in Requests, Secret!Loaded(r)
      PROVE  Secret!TypeOK'
  <2>1. login' \in [Requests -> Secret!Calls]
    BY <1>3, <1>4 DEF Secret!Loaded
  <2>2. failed' \in BOOLEAN
    BY <1>4 DEF Secret!Loaded
  <2>3. loaded' \in [Clients -> Secret!Mount] /\ loadedAt' \in Nat
    BY <1>4 DEF Secret!Loaded
  <2>4. UNCHANGED <<secretNow, mounted, since, heldUntil, begun, todo, buffer>>
    BY <1>4 DEF Secret!Loaded
  <2> QED
    BY <2>1, <2>2, <2>3, <2>4
<1>9. ASSUME NEW r \in Requests, Secret!LoadFails(r)
      PROVE  Secret!TypeOK'
  <2>1. login' \in [Requests -> Secret!Calls]
    BY <1>3, <1>9 DEF Secret!LoadFails
  <2> QED
    BY <1>9, <2>1 DEF Secret!LoadFails
<1>5. ASSUME NEW r \in Requests, Secret!Compare(r)
      PROVE  Secret!TypeOK'
  <2>1. [login[r] EXCEPT !.pc = "accepted"] \in Secret!Calls
        /\ [login[r] EXCEPT !.pc = "refused"] \in Secret!Calls
    BY DEF Secret!Calls, Secret!Labels
  <2> QED
    BY <1>5, <2>1 DEF Secret!Compare
<1>6. ASSUME NEW c \in Clients, Secret!Swap(c)
      PROVE  Secret!TypeOK'
  BY <1>6 DEF Secret!Swap
<1>7. CASE Secret!Tick
  BY <1>7 DEF Secret!Tick, Secret!TickUnlessDue
<1>8. CASE UNCHANGED Secret!vars
  BY <1>8 DEF Secret!vars
<1> QED
  BY <1>1, <1>2, <1>4, <1>5, <1>6, <1>7, <1>8, <1>9 DEF Secret!Next, Secret!Step

\* The reading under way.
LEMMA ReadingStep ==
  ASSUME SecretInv, [Secret!Next]_Secret!vars, StillSeen
  PROVE  ReadingInv'
<1> USE DEF SecretInv, Secret!TypeOK
<1>1. ASSUME UNCHANGED <<begun, todo, buffer>>, secretNow' \in Nat, secretNow <= secretNow',
             \A r \in Requests : login'[r].pc = "read" =>
               /\ login[r].pc = "read" /\ login'[r].at = login[r].at
               /\ secretNow' <= begun + Slack
      PROVE  ReadingInv'
  <2>1. \A r, s \in Requests : login'[r].pc = "read" /\ login'[s].pc = "read" => r = s
    BY <1>1 DEF ReadingInv
  <2>2. ASSUME NEW r \in Requests, login'[r].pc = "read"
        PROVE  /\ login'[r].at = begun' /\ begun' <= secretNow' /\ secretNow' <= begun' + Slack
               /\ \A c \in Clients \ todo' : \E time \in begun' .. secretNow' : Saw(c, buffer[c], time)'
    <3>1. /\ login[r].pc = "read" /\ login[r].at = begun /\ begun <= secretNow
          /\ login'[r].at = login[r].at /\ secretNow' <= begun + Slack
          /\ begun' = begun /\ todo' = todo /\ buffer' = buffer
      BY <1>1, <2>2 DEF ReadingInv
    <3>2. ASSUME NEW c \in Clients \ todo
          PROVE  \E time \in begun .. secretNow' : Saw(c, buffer[c], time)'
      <4>1. PICK time \in begun .. secretNow : Saw(c, buffer[c], time)
        BY <3>1 DEF ReadingInv
      <4>2. time \in 0 .. secretNow /\ time \in begun .. secretNow'
        BY <1>1
      <4>3. buffer[c] \in Secret!Mount
        OBVIOUS
      <4>4. Saw(c, buffer[c], time)'
        BY <3>1, <4>1, <4>2, <4>3 DEF StillSeen, Saw, Secret!HeldSince
      <4> QED
        BY <4>2, <4>4
    <3> QED
      BY <1>1, <3>1, <3>2
  <2> QED
    BY <2>1, <2>2 DEF ReadingInv
<1>2. ASSUME NEW r \in Requests, NEW u \in Clients \cup {Admin}, NEW p \in Passwords,
             Secret!CheckFresh(r, u, p)
      PROVE  ReadingInv'
  <2>1. /\ UNCHANGED <<begun, todo, buffer, secretNow>>
        /\ \A s \in Requests : login'[s].pc = "read" => login'[s] = login[s]
    BY <1>2 DEF Secret!CheckFresh
  <2> QED
    BY <1>1, <2>1 DEF ReadingInv
<1>3. ASSUME NEW r \in Requests, NEW u \in Clients \cup {Admin}, NEW p \in Passwords,
             Secret!CheckStale(r, u, p)
      PROVE  ReadingInv'
  <2>1. /\ \A s \in Requests : login'[s].pc = "read" => s = r
        /\ login'[r].at = secretNow /\ begun' = secretNow /\ secretNow' = secretNow
        /\ todo' = Clients
    BY <1>3 DEF Secret!CheckStale, Secret!Reading
  <2> QED
    BY <2>1, ExpiryAssumption DEF ReadingInv
<1>4. ASSUME NEW r \in Requests, Secret!ReadFile(r)
      PROVE  ReadingInv'
  <2>1. PICK c \in todo : buffer' = [buffer EXCEPT ![c] = mounted[c]] /\ todo' = todo \ {c}
    BY <1>4 DEF Secret!ReadFile
  <2>2. /\ login[r].pc = "read"
        /\ UNCHANGED <<secretNow, mounted, since, heldUntil, begun, login>>
    BY <1>4 DEF Secret!ReadFile
  <2>3. ASSUME NEW d \in Clients \ todo'
        PROVE  \E time \in begun' .. secretNow' : Saw(d, buffer[d], time)'
    <3>1. CASE d = c
      <4>1. buffer'[d] = mounted[d] /\ secretNow \in begun' .. secretNow'
        BY <2>1, <2>2, <3>1 DEF ReadingInv
      <4>2. Saw(d, mounted[d], secretNow)
        BY SeenNow
      <4> QED
        BY <2>2, <4>1, <4>2 DEF Saw, Secret!HeldSince
    <3>2. CASE d # c
      <4>1. buffer'[d] = buffer[d] /\ d \in Clients \ todo
        BY <2>1, <3>2
      <4> QED
        BY <2>2, <4>1 DEF ReadingInv, Saw, Secret!HeldSince
    <3> QED
      BY <3>1, <3>2
  <2> QED
    BY <2>2, <2>3 DEF ReadingInv
<1>5. ASSUME NEW r \in Requests, NEW set \in [Clients -> Secret!Mount], NEW old \in BOOLEAN,
             Secret!Given(r, set, old), UNCHANGED <<begun, todo, buffer, secretNow>>
      PROVE  ReadingInv'
  <2>1. \A s \in Requests : login'[s].pc = "read" => login'[s] = login[s]
    BY <1>5 DEF Secret!Given
  <2> QED
    BY <1>1, <1>5, <2>1 DEF ReadingInv
<1>6. ASSUME NEW r \in Requests, Secret!Loaded(r)
      PROVE  ReadingInv'
  BY <1>5, <1>6 DEF Secret!Loaded
<1>7. ASSUME NEW r \in Requests, Secret!LoadFails(r)
      PROVE  ReadingInv'
  BY <1>5, <1>7 DEF Secret!LoadFails
<1>8. ASSUME NEW r \in Requests, Secret!Compare(r)
      PROVE  ReadingInv'
  <2>1. /\ UNCHANGED <<begun, todo, buffer, secretNow>>
        /\ \A s \in Requests : login'[s].pc = "read" => login'[s] = login[s]
    BY <1>8 DEF Secret!Compare
  <2> QED
    BY <1>1, <2>1 DEF ReadingInv
<1>9. ASSUME NEW c \in Clients, Secret!Swap(c)
      PROVE  ReadingInv'
  <2>1. UNCHANGED <<begun, todo, buffer, secretNow, login>>
    BY <1>9 DEF Secret!Swap
  <2> QED
    BY <1>1, <2>1 DEF ReadingInv
<1>10. CASE Secret!Tick
  <2>1. /\ UNCHANGED <<begun, todo, buffer, login>> /\ secretNow' = secretNow + 1
        /\ \A r \in Requests : login[r].pc = "read" => secretNow < begun + Slack
    BY <1>10 DEF Secret!Tick, Secret!TickUnlessDue, Secret!Reading
  <2>2. \A r \in Requests : login[r].pc = "read" => secretNow' <= begun + Slack
    BY <2>1, ExpiryAssumption
  <2> QED
    BY <1>1, <2>1, <2>2
<1>11. CASE UNCHANGED Secret!vars
  BY <1>1, <1>11 DEF Secret!vars, ReadingInv
<1> QED
  BY <1>2, <1>3, <1>4, <1>6, <1>7, <1>8, <1>9, <1>10, <1>11 DEF Secret!Next, Secret!Step

\* The set the gateway goes by.
LEMMA LoadedStep ==
  ASSUME SecretInv, [Secret!Next]_Secret!vars, StillSeen, Secret!Tick \/ secretNow' = secretNow
  PROVE  LoadedInv'
<1> USE DEF SecretInv, Secret!TypeOK
<1>1. secretNow' \in Nat /\ secretNow <= secretNow'
  BY DEF Secret!Tick, Secret!TickUnlessDue
<1>2. ASSUME UNCHANGED <<loaded, loadedAt, failed>>
      PROVE  LoadedInv'
  <2>1. loadedAt' <= secretNow' + 1
    <3>1. loadedAt <= secretNow + 1
      BY DEF LoadedInv
    <3>2. \A a, b, d \in Nat : a <= b + 1 /\ b <= d => a <= d + 1
      OBVIOUS
    <3> QED
      BY <1>1, <1>2, <3>1, <3>2
  <2>2. ASSUME loadedAt # 0, ~failed, NEW c \in Clients
        PROVE  \E time \in 0 .. secretNow' :
                 time < loadedAt /\ loadedAt <= time + Slack + 1 /\ Saw(c, loaded[c], time)'
    <3>1. PICK time \in 0 .. secretNow :
            time < loadedAt /\ loadedAt <= time + Slack + 1 /\ Saw(c, loaded[c], time)
      BY <2>2 DEF LoadedInv
    <3>2. time \in 0 .. secretNow' /\ loaded[c] \in Secret!Mount
      BY <1>1
    <3>3. Saw(c, loaded[c], time)'
      BY <1>2, <3>1, <3>2 DEF StillSeen, Saw, Secret!HeldSince
    <3> QED
      BY <3>1, <3>2, <3>3
  <2> QED
    BY <1>2, <2>1, <2>2 DEF LoadedInv
<1>3. ASSUME NEW r \in Requests, Secret!Loaded(r)
      PROVE  LoadedInv'
  <2>1. /\ login[r].pc = "read" /\ todo = {}
        /\ loaded' = buffer /\ loadedAt' = secretNow + 1
        /\ UNCHANGED <<secretNow, mounted, since, heldUntil>>
    BY <1>3 DEF Secret!Loaded
  <2>2. begun <= secretNow /\ secretNow <= begun + Slack
    BY <2>1 DEF ReadingInv
  <2>3. ASSUME NEW c \in Clients
        PROVE  \E time \in 0 .. secretNow :
                 time < secretNow + 1 /\ secretNow + 1 <= time + Slack + 1 /\ Saw(c, buffer[c], time)
    <3>1. PICK time \in begun .. secretNow : Saw(c, buffer[c], time)
      BY <2>1 DEF ReadingInv
    <3> QED
      BY <2>2, <3>1, ExpiryAssumption
  <2> QED
    BY <2>1, <2>3 DEF LoadedInv, Saw, Secret!HeldSince
<1>4. ASSUME NEW r \in Requests, Secret!LoadFails(r)
      PROVE  LoadedInv'
  BY <1>1, <1>4 DEF Secret!LoadFails, LoadedInv
<1>5. ASSUME NEW r \in Requests, Secret!ReadFile(r) \/ Secret!Compare(r)
      PROVE  LoadedInv'
  BY <1>2, <1>5 DEF Secret!ReadFile, Secret!Compare
<1>6. ASSUME NEW r \in Requests, NEW u \in Clients \cup {Admin}, NEW p \in Passwords,
             Secret!CheckFresh(r, u, p) \/ Secret!CheckStale(r, u, p)
      PROVE  LoadedInv'
  BY <1>2, <1>6 DEF Secret!CheckFresh, Secret!CheckStale
<1>7. ASSUME NEW c \in Clients, Secret!Swap(c)
      PROVE  LoadedInv'
  BY <1>2, <1>7 DEF Secret!Swap
<1>8. CASE Secret!Tick
  BY <1>2, <1>8 DEF Secret!Tick
<1>9. CASE UNCHANGED Secret!vars
  BY <1>2, <1>9 DEF Secret!vars
<1> QED
  BY <1>3, <1>4, <1>5, <1>6, <1>7, <1>8, <1>9 DEF Secret!Next, Secret!Step

\* The sets that requests were given.
LEMMA GivenStep ==
  ASSUME SecretInv, [Secret!Next]_Secret!vars, StillSeen, Secret!Tick \/ secretNow' = secretNow,
         NEW s \in Requests
  PROVE  GivenOK(s)'
<1> USE DEF SecretInv, Secret!TypeOK
<1>1. secretNow' \in Nat /\ secretNow <= secretNow'
  BY DEF Secret!Tick, Secret!TickUnlessDue
<1>2. ASSUME login'[s].at = login[s].at, login'[s].given = login[s].given,
             login'[s].stale = login[s].stale, login'[s].pc \in Compared => login[s].pc \in Compared,
             login'[s].pc \in {"accepted", "refused"} =>
               (login'[s].pc = "accepted" <=>
                  Secret!Accepts(login'[s].user, login'[s].pass, login'[s].given))
      PROVE  GivenOK(s)'
  <2>1. login'[s].at <= secretNow'
    <3>1. login[s].at \in Nat
      BY DEF Secret!Calls
    <3>2. login[s].at <= secretNow
      BY DEF GivenOK
    <3> QED
      BY <1>1, <1>2, <3>1, <3>2
  <2>2. ASSUME login'[s].pc \in Compared, ~login'[s].stale, NEW c \in Clients
        PROVE  \E time \in 0 .. secretNow' :
                 login'[s].at < time + Ttl + Slack /\ Saw(c, login[s].given[c], time)'
    <3>1. PICK time \in 0 .. secretNow :
            login[s].at < time + Ttl + Slack /\ Saw(c, login[s].given[c], time)
      BY <1>2, <2>2 DEF GivenOK
    <3>2. time \in 0 .. secretNow' /\ login[s].given[c] \in Secret!Mount
      BY <1>1 DEF Secret!Calls
    <3>3. login'[s].given[c] = login[s].given[c]
      BY <1>2
    <3>4. Saw(c, login[s].given[c], time)'
      BY <3>1, <3>2, <3>3 DEF StillSeen, Saw, Secret!HeldSince
    <3> QED
      BY <1>2, <3>1, <3>2, <3>4
  <2>3. ASSUME login'[s].pc \in Compared, ~login'[s].stale, NEW c \in Clients
        PROVE  \E time \in 0 .. secretNow' :
                 login'[s].at < time + Ttl + Slack /\ Saw(c, login[s].given[c], time)'
    BY <2>2, <2>3
  <2> QED
    BY <1>2, <2>1, <2>3 DEF GivenOK, Secret!Accepts
<1>3. ASSUME login'[s] = login[s]
      PROVE  GivenOK(s)'
  BY <1>2, <1>3 DEF GivenOK
<1>4. ASSUME NEW r \in Requests, NEW u \in Clients \cup {Admin}, NEW p \in Passwords,
             Secret!CheckFresh(r, u, p)
      PROVE  GivenOK(s)'
  <2>1. CASE s # r
    BY <1>3, <1>4, <2>1 DEF Secret!CheckFresh
  <2>2. CASE s = r
    <3>1. /\ Secret!Fresh
          /\ login'[s].pc = "compare" /\ login'[s].at = secretNow
          /\ login'[s].given = loaded /\ login'[s].stale = failed
          /\ UNCHANGED <<secretNow, mounted, since, heldUntil>>
      BY <1>4, <2>2 DEF Secret!CheckFresh
    <3>2. ASSUME ~failed, NEW c \in Clients
          PROVE  \E time \in 0 .. secretNow : secretNow < time + Ttl + Slack /\ Saw(c, loaded[c], time)
      <4>1. PICK time \in 0 .. secretNow :
              time < loadedAt /\ loadedAt <= time + Slack + 1 /\ Saw(c, loaded[c], time)
        BY <3>1, <3>2 DEF LoadedInv, Secret!Fresh
      <4>2. secretNow < time + Ttl + Slack
        BY <3>1, <4>1, ExpiryAssumption DEF Secret!Fresh
      <4> QED
        BY <4>1, <4>2
    <3> QED
      BY <3>1, <3>2 DEF GivenOK, Saw, Secret!HeldSince
  <2> QED
    BY <2>1, <2>2
<1>5. ASSUME NEW r \in Requests, NEW u \in Clients \cup {Admin}, NEW p \in Passwords,
             Secret!CheckStale(r, u, p)
      PROVE  GivenOK(s)'
  <2>1. CASE s # r
    BY <1>3, <1>5, <2>1 DEF Secret!CheckStale
  <2>2. CASE s = r
    BY <1>5, <2>2 DEF Secret!CheckStale, GivenOK, Compared
  <2> QED
    BY <2>1, <2>2
<1>6. ASSUME NEW r \in Requests, Secret!Loaded(r)
      PROVE  GivenOK(s)'
  <2>1. CASE s # r
    BY <1>3, <1>6, <2>1 DEF Secret!Loaded, Secret!Given
  <2>2. CASE s = r
    <3>1. /\ login[s].pc = "read" /\ todo = {}
          /\ UNCHANGED <<secretNow, mounted, since, heldUntil>>
      BY <1>6, <2>2 DEF Secret!Loaded
    <3>2. /\ login'[s].pc = "compare" /\ login'[s].at = login[s].at /\ login'[s].given = buffer
      BY <1>6, <2>2 DEF Secret!Loaded, Secret!Given, Secret!Calls
    <3>3. login[s].at = begun /\ begun <= secretNow
      BY <3>1 DEF ReadingInv
    <3>4. ASSUME NEW c \in Clients
          PROVE  \E time \in 0 .. secretNow : begun < time + Ttl + Slack /\ Saw(c, buffer[c], time)
      <4>1. PICK time \in begun .. secretNow : Saw(c, buffer[c], time)
        BY <3>1 DEF ReadingInv
      <4> QED
        BY <4>1, ExpiryAssumption
    <3> QED
      BY <3>1, <3>2, <3>3, <3>4 DEF GivenOK, Saw, Secret!HeldSince
  <2> QED
    BY <2>1, <2>2
<1>7. ASSUME NEW r \in Requests, Secret!LoadFails(r)
      PROVE  GivenOK(s)'
  <2>1. CASE s # r
    BY <1>3, <1>7, <2>1 DEF Secret!LoadFails, Secret!Given
  <2>2. CASE s = r
    <3>1. /\ login'[s].pc = "compare" /\ login'[s].at = login[s].at /\ login'[s].stale
          /\ secretNow' = secretNow
      BY <1>7, <2>2 DEF Secret!LoadFails, Secret!Given, Secret!Calls
    <3>2. login[s].at <= secretNow
      BY DEF GivenOK
    <3> QED
      BY <3>1, <3>2 DEF GivenOK
  <2> QED
    BY <2>1, <2>2
<1>8. ASSUME NEW r \in Requests, Secret!Compare(r)
      PROVE  GivenOK(s)'
  <2>1. CASE s # r
    BY <1>3, <1>8, <2>1 DEF Secret!Compare
  <2>2. CASE s = r
    <3>1. /\ login[s].pc = "compare"
          /\ login'[s] = [login[s] EXCEPT !.pc =
               IF Secret!Accepts(login[s].user, login[s].pass, login[s].given)
               THEN "accepted" ELSE "refused"]
      BY <1>8, <2>2 DEF Secret!Compare
    <3>2. /\ login'[s].at = login[s].at /\ login'[s].given = login[s].given
          /\ login'[s].stale = login[s].stale /\ login'[s].user = login[s].user
          /\ login'[s].pass = login[s].pass
          /\ login'[s].pc = IF Secret!Accepts(login[s].user, login[s].pass, login[s].given)
               THEN "accepted" ELSE "refused"
      BY <3>1 DEF Secret!Calls
    <3> QED
      BY <1>2, <3>1, <3>2 DEF Compared
  <2> QED
    BY <2>1, <2>2
<1>9. ASSUME NEW r \in Requests, Secret!ReadFile(r)
      PROVE  GivenOK(s)'
  BY <1>3, <1>9 DEF Secret!ReadFile
<1>10. ASSUME NEW c \in Clients, Secret!Swap(c)
       PROVE  GivenOK(s)'
  BY <1>3, <1>10 DEF Secret!Swap
<1>11. CASE Secret!Tick
  BY <1>3, <1>11 DEF Secret!Tick
<1>12. CASE UNCHANGED Secret!vars
  BY <1>3, <1>12 DEF Secret!vars
<1> QED
  BY <1>4, <1>5, <1>6, <1>7, <1>8, <1>9, <1>10, <1>11, <1>12 DEF Secret!Next, Secret!Step

\* So it holds in every state.
LEMMA AlwaysSecretInv == Spec => []SecretInv
<1>1. Secret!Init => SecretInv
  <2> SUFFICES ASSUME Secret!Init
               PROVE  SecretInv
    OBVIOUS
  <2>1. PICK p \in Passwords :
          login = [r \in Requests |-> [pc |-> "idle", user |-> Admin, pass |-> p, at |-> 0,
                                       given |-> Secret!NoSet, stale |-> FALSE]]
    BY DEF Secret!Init
  <2>2. Secret!NoSet \in [Clients -> Secret!Mount]
    BY DEF Secret!NoSet, Secret!Mount
  <2>3. [pc |-> "idle", user |-> Admin, pass |-> p, at |-> 0, given |-> Secret!NoSet,
         stale |-> FALSE] \in Secret!Calls
    BY <2>2 DEF Secret!Calls, Secret!Labels
  <2>4. login \in [Requests -> Secret!Calls]
    BY <2>1, <2>3
  <2>5. Secret!TypeOK
    BY <2>2, <2>4 DEF Secret!Init, Secret!TypeOK
  <2>6. ReadingInv
    BY <2>1 DEF ReadingInv
  <2>7. LoadedInv
    BY DEF Secret!Init, LoadedInv
  <2>8. ASSUME NEW r \in Requests
        PROVE  GivenOK(r)
    BY <2>1 DEF Secret!Init, GivenOK, Compared
  <2> QED
    BY <2>5, <2>6, <2>7, <2>8 DEF SecretInv
<1>2. SecretInv /\ [Secret!Next]_Secret!vars => SecretInv'
  <2> SUFFICES ASSUME SecretInv, [Secret!Next]_Secret!vars
               PROVE  SecretInv'
    OBVIOUS
  <2>1. Secret!TypeOK
    BY DEF SecretInv
  <2>2. StillSeen /\ (Secret!Tick \/ secretNow' = secretNow)
    BY <2>1, AlwaysSeen
  <2> QED
    BY <2>1, <2>2, SecretTypeStep, ReadingStep, LoadedStep, GivenStep DEF SecretInv
<1> QED
  BY <1>1, <1>2, SecretPart, PTL DEF Secret!Spec

\* VerdictFollowsSecret: unless the last reading failed, a client's password is accepted
\* only if it was in its file less than Ttl + Slack before the request, or since, and
\* refused only if it has not been there all that time.
THEOREM RotationTakesHold == Spec => []VerdictFollowsSecret
<1>1. SecretInv => VerdictFollowsSecret
  <2> SUFFICES ASSUME SecretInv, NEW r \in Requests, login[r].user \in Clients, ~login[r].stale
               PROVE  /\ login[r].pc = "accepted" =>
                           \E age \in 0 .. Ttl + Slack - 1 :
                             /\ age <= login[r].at
                             /\ Secret!HeldSince(login[r].user, login[r].pass, login[r].at - age)
                      /\ login[r].pc = "refused" =>
                           \/ mounted[login[r].user] # login[r].pass
                           \/ login[r].at < since[login[r].user] + Ttl + Slack
    BY DEF VerdictFollowsSecret, Secret!VerdictFollowsSecret
  <2> USE DEF SecretInv, Secret!TypeOK
  <2> DEFINE c == login[r].user
             m == login[r].given[c]
             p == login[r].pass
             at == login[r].at
  <2>1. at \in Nat /\ m \in Secret!Mount /\ p \in Passwords /\ c # Admin
    BY CachesAssumption DEF Secret!Calls
  <2>2. ASSUME login[r].pc \in Compared
        PROVE  \E time \in 0 .. secretNow : at < time + Ttl + Slack /\ Saw(c, m, time)
    BY <2>2 DEF GivenOK
  <2>3. ASSUME login[r].pc = "accepted"
        PROVE  \E age \in 0 .. Ttl + Slack - 1 : age <= at /\ Secret!HeldSince(c, p, at - age)
    <3>1. Secret!Accepts(c, p, login[r].given)
      BY <2>3 DEF GivenOK
    <3>2. p = m
      BY <2>1, <3>1 DEF Secret!Accepts
    <3>3. PICK time \in 0 .. secretNow : at < time + Ttl + Slack /\ Secret!HeldSince(c, p, time)
      BY <2>1, <2>2, <2>3, <3>2 DEF Compared, Saw
    <3>4. CASE time <= at
      <4>1. at - time \in 0 .. Ttl + Slack - 1 /\ at - time <= at /\ at - (at - time) = time
        BY <2>1, <3>3, <3>4, ExpiryAssumption
      <4> QED
        BY <3>3, <4>1
    <3>5. CASE at < time
      <4>1. 0 \in 0 .. Ttl + Slack - 1 /\ 0 <= at /\ at - 0 = at
        BY <2>1, ExpiryAssumption
      <4>2. Secret!HeldSince(c, p, at)
        BY <2>1, <3>3, <3>5 DEF Secret!HeldSince
      <4> QED
        BY <4>1, <4>2
    <3> QED
      BY <2>1, <3>4, <3>5
  <2>4. ASSUME login[r].pc = "refused", mounted[c] = p
        PROVE  at < since[c] + Ttl + Slack
    <3>1. ~Secret!Accepts(c, p, login[r].given)
      BY <2>4 DEF GivenOK
    <3>2. mounted[c] # m
      BY <2>1, <2>4, <3>1, CachesAssumption DEF Secret!Accepts
    <3>3. PICK time \in 0 .. secretNow : at < time + Ttl + Slack /\ time <= since[c]
      BY <2>2, <2>4, <3>2 DEF Compared, Saw
    <3> QED
      BY <2>1, <3>3, ExpiryAssumption
  <2> QED
    BY <2>3, <2>4
<1> QED
  BY <1>1, AlwaysSecretInv, PTL

-----------------------------------------------------------------------------
(***************************************************************************)
(* Downloads: one at a time writes the file of the .partial name, from its *)
(* beginning, and no other file.                                           *)
(***************************************************************************)
Opened == {r \in Downloads : fd[r] # None}

FileInv ==
  /\ \A r \in Downloads :
       /\ loadPc[r] \in {"idle", "stat", "get", "create"} => fd[r] = None /\ offset[r] = 0
       /\ loadPc[r] \in {"copy", "rename"} => fd[r] # None
       /\ loadPc[r] = "hash" => dest # None
  /\ used <= Cardinality(Opened)
  /\ tmp # None => tmp <= used
  /\ dest # None => dest <= used

SoleInv ==
  ~overlap =>
    /\ \A r, s \in Downloads : loadPc[r] \in Iso!Loading /\ loadPc[s] \in Iso!Loading => r = s
    /\ tmp # None => tmp # dest
    /\ \A r \in Downloads :
         /\ loadPc[r] \in {"copy", "rename"} => fd[r] = tmp /\ data[tmp] = 1 .. offset[r]
         /\ loadPc[r] = "rename" => offset[r] = Chunks
    /\ \A i \in Iso!Inodes : used < i => data[i] = {}

IsoInv == Iso!TypeOK /\ FileInv /\ SoleInv /\ CachedWhole

\* A file more has been made only by a request that has it open.
LEMMA RoomForAFile ==
  ASSUME Iso!TypeOK, FileInv
  PROVE  /\ Iso!Cardinality(Downloads) = Cardinality(Downloads)
         /\ Cardinality(Downloads) \in Nat
         /\ \A r \in Downloads \ Opened :
              /\ used + 1 <= Cardinality(Opened \cup {r})
              /\ used + 1 <= Cardinality(Downloads)
<1>1. Iso!Cardinality(Downloads) = Cardinality(Downloads)
  BY DEF Iso!Cardinality, Cardinality
<1>2. Cardinality(Downloads) \in Nat
  BY CachesAssumption, FS_CardinalityType
<1>3. ASSUME NEW r \in Downloads \ Opened
      PROVE  used + 1 <= Cardinality(Opened \cup {r}) /\ used + 1 <= Cardinality(Downloads)
  <2>1. Opened \subseteq Downloads
    BY DEF Opened
  <2>2. IsFiniteSet(Opened) /\ Cardinality(Opened) \in Nat
    BY <2>1, CachesAssumption, FS_Subset, FS_CardinalityType
  <2>3. IsFiniteSet(Opened \cup {r}) /\ Cardinality(Opened \cup {r}) = Cardinality(Opened) + 1
    BY <1>3, <2>2, FS_AddElement
  <2>4. Opened \cup {r} \subseteq Downloads
    BY <2>1
  <2>5. Cardinality(Opened \cup {r}) <= Cardinality(Downloads)
    BY <2>4, CachesAssumption, FS_Subset
  <2>6. used <= Cardinality(Opened) /\ used \in Nat
    BY <1>1, <1>2 DEF FileInv, Iso!TypeOK
  <2> QED
    BY <1>2, <2>2, <2>3, <2>5, <2>6
<1> QED
  BY <1>1, <1>2, <1>3

\* The types, and what each request holds.
LEMMA FileStep ==
  ASSUME Iso!TypeOK, FileInv, [Iso!Next]_Iso!vars
  PROVE  Iso!TypeOK' /\ FileInv'
<1> DEFINE N == Cardinality(Downloads)
<1>1. Iso!Inodes = 1 .. N /\ Iso!Cardinality(Downloads) = N /\ N \in Nat
  BY RoomForAFile DEF Iso!Inodes
<1>2. None \notin Iso!Inodes
  BY <1>1, CachesAssumption
<1>3. ASSUME UNCHANGED <<data, used, tmp, dest, fd, offset>>, loadPc' \in [Downloads -> Iso!Labels],
             object' \in [Downloads -> SUBSET Iso!Image], overlap' \in BOOLEAN,
             restarts' \in 0 .. MaxRestarts,
             \A r \in Downloads :
               /\ loadPc'[r] \in {"idle", "stat", "get", "create"} =>
                    loadPc[r] \in {"idle", "stat", "get", "create"}
               /\ loadPc'[r] \in {"copy", "rename"} => loadPc[r] \in {"copy", "rename"}
               /\ loadPc'[r] = "hash" => dest # None
      PROVE  Iso!TypeOK' /\ FileInv'
  <2>1. Iso!TypeOK'
    BY <1>3 DEF Iso!TypeOK
  <2>2. FileInv'
    BY <1>3 DEF FileInv, Opened
  <2> QED
    BY <2>1, <2>2
<1>4. ASSUME NEW r \in Downloads, Iso!Arrive(r) \/ Iso!Stat(r) \/ Iso!Get(r) \/ Iso!Close(r)
      PROVE  Iso!TypeOK' /\ FileInv'
  <2>1. /\ UNCHANGED <<data, used, tmp, dest, fd, offset, object, restarts>>
        /\ overlap' \in BOOLEAN
    BY <1>4 DEF Iso!TypeOK, Iso!Arrive, Iso!Stat, Iso!Get, Iso!Close
  <2>2. loadPc' \in [Downloads -> Iso!Labels]
    BY <1>4 DEF Iso!TypeOK, Iso!Arrive, Iso!Stat, Iso!Get, Iso!Close, Iso!Goto, Iso!Labels,
               Iso!Loading
  <2>3. \A s \in Downloads :
          /\ loadPc'[s] \in {"idle", "stat", "get", "create"} =>
               loadPc[s] \in {"idle", "stat", "get", "create"}
          /\ loadPc'[s] \in {"copy", "rename"} => loadPc[s] \in {"copy", "rename"}
          /\ loadPc'[s] = "hash" => dest # None
    BY <1>4 DEF Iso!TypeOK, Iso!Arrive, Iso!Stat, Iso!Get, Iso!Close, Iso!Goto, FileInv
  <2> QED
    BY <1>3, <2>1, <2>2, <2>3 DEF Iso!TypeOK
<1>5. ASSUME NEW r \in Downloads, Iso!Create(r)
      PROVE  Iso!TypeOK' /\ FileInv'
  <2>1. /\ loadPc[r] = "create" /\ fd[r] = None
        /\ fd' = [fd EXCEPT ![r] = tmp'] /\ loadPc' = [loadPc EXCEPT ![r] = "copy"]
        /\ UNCHANGED <<dest, offset, object, overlap, restarts>>
    BY <1>5 DEF Iso!Create, Iso!Goto, FileInv
  <2>2. used + 1 <= N /\ used + 1 <= Cardinality(Opened \cup {r})
    BY <2>1, RoomForAFile DEF Opened
  <2>3. /\ used' \in 0 .. N /\ used <= used' /\ used' <= used + 1
        /\ tmp' \in Iso!Inodes /\ tmp' <= used'
        /\ data' \in [Iso!Inodes -> SUBSET Iso!Image]
    <3>1. CASE tmp # None
      BY <1>1, <1>5, <3>1 DEF Iso!Create, Iso!TypeOK, FileInv
    <3>2. CASE tmp = None
      BY <1>1, <1>5, <2>2, <3>2 DEF Iso!Create, Iso!TypeOK
    <3> QED
      BY <3>1, <3>2
  <2>4. Iso!TypeOK'
    <3>1. loadPc' \in [Downloads -> Iso!Labels] /\ fd' \in [Downloads -> Iso!Inodes \cup {None}]
      BY <2>1, <2>3 DEF Iso!TypeOK, Iso!Labels, Iso!Loading
    <3> QED
      BY <1>1, <2>1, <2>3, <3>1 DEF Iso!TypeOK
  <2>5. Opened' = Opened \cup {r}
    BY <1>2, <2>1, <2>3 DEF Opened, Iso!TypeOK
  <2>6. used' <= Cardinality(Opened')
    <3>1. Cardinality(Opened \cup {r}) \in Nat
      <4>1. Opened \cup {r} \subseteq Downloads
        BY DEF Opened
      <4> QED
        BY <4>1, CachesAssumption, FS_Subset, FS_CardinalityType
    <3> QED
      BY <1>1, <2>2, <2>3, <2>5, <3>1 DEF Iso!TypeOK
  <2>7. dest' # None => dest' <= used'
    BY <1>1, <2>1, <2>3 DEF FileInv, Iso!TypeOK
  <2>8. \A s \in Downloads :
          /\ loadPc'[s] \in {"idle", "stat", "get", "create"} => fd'[s] = None /\ offset'[s] = 0
          /\ loadPc'[s] \in {"copy", "rename"} => fd'[s] # None
          /\ loadPc'[s] = "hash" => dest' # None
    BY <1>2, <2>1, <2>3 DEF FileInv, Iso!TypeOK
  <2> QED
    BY <2>3, <2>4, <2>6, <2>7, <2>8 DEF FileInv
<1>6. ASSUME NEW r \in Downloads, Iso!Write(r)
      PROVE  Iso!TypeOK' /\ FileInv'
  <2>1. /\ loadPc[r] = "copy"
        /\ data' = [data EXCEPT ![fd[r]] = @ \cup {offset[r] + 1}]
        /\ offset' = [offset EXCEPT ![r] = @ + 1]
        /\ UNCHANGED <<used, tmp, dest, loadPc, fd, object, overlap, restarts>>
    BY <1>6 DEF Iso!Write
  <2>2. offset[r] + 1 \in Iso!Image /\ offset[r] + 1 \in 0 .. Chunks
    BY <1>6, CachesAssumption DEF Iso!Write, Iso!Image, Iso!TypeOK
  <2>3. Iso!TypeOK'
    BY <2>1, <2>2 DEF Iso!TypeOK
  <2>4. FileInv'
    BY <2>1 DEF FileInv, Opened, Iso!TypeOK
  <2> QED
    BY <2>3, <2>4
<1>7. ASSUME NEW r \in Downloads, Iso!CopyFails(r)
      PROVE  Iso!TypeOK' /\ FileInv'
  <2>1. /\ loadPc' = [loadPc EXCEPT ![r] = "failed"] /\ tmp' = None
        /\ UNCHANGED <<data, used, dest, fd, offset, object, overlap, restarts>>
    BY <1>7 DEF Iso!CopyFails, Iso!Goto
  <2>2. Iso!TypeOK'
    BY <2>1 DEF Iso!TypeOK, Iso!Labels
  <2>3. FileInv'
    BY <2>1 DEF FileInv, Opened, Iso!TypeOK
  <2> QED
    BY <2>2, <2>3
<1>8. ASSUME NEW r \in Downloads, Iso!Rename(r)
      PROVE  Iso!TypeOK' /\ FileInv'
  <2>1. CASE UNCHANGED <<tmp, dest>>
    <3>1. /\ UNCHANGED <<data, used, tmp, dest, fd, offset, object, overlap, restarts>>
          /\ \E label \in {"hash", "failed"} : loadPc' = [loadPc EXCEPT ![r] = label]
          /\ loadPc'[r] = "hash" => dest # None
      BY <1>8, <2>1, <1>2 DEF Iso!Rename, Iso!Goto, Iso!TypeOK
    <3>2. loadPc' \in [Downloads -> Iso!Labels]
      BY <3>1 DEF Iso!TypeOK, Iso!Labels
    <3>3. \A s \in Downloads :
            /\ loadPc'[s] \in {"idle", "stat", "get", "create"} =>
                 loadPc[s] \in {"idle", "stat", "get", "create"}
            /\ loadPc'[s] \in {"copy", "rename"} => loadPc[s] \in {"copy", "rename"}
            /\ loadPc'[s] = "hash" => dest # None
      BY <3>1 DEF FileInv, Iso!TypeOK
    <3> QED
      BY <1>3, <3>1, <3>2, <3>3 DEF Iso!TypeOK
  <2>2. CASE /\ tmp # None /\ dest' = tmp /\ tmp' = None
             /\ loadPc' = [loadPc EXCEPT ![r] = "hash"]
    <3>1. UNCHANGED <<data, used, fd, offset, object, overlap, restarts>>
      BY <1>8 DEF Iso!Rename
    <3>2. Iso!TypeOK'
      BY <2>2, <3>1 DEF Iso!TypeOK, Iso!Labels
    <3>3. FileInv'
      BY <2>2, <3>1 DEF FileInv, Opened, Iso!TypeOK
    <3> QED
      BY <3>2, <3>3
  <2> QED
    BY <1>8, <2>1, <2>2 DEF Iso!Rename, Iso!Goto
<1>9. ASSUME NEW r \in Downloads, Iso!Hash(r)
      PROVE  Iso!TypeOK' /\ FileInv'
  <2>1. /\ loadPc[r] = "hash" /\ loadPc' = [loadPc EXCEPT ![r] = "done"]
        /\ object' = [object EXCEPT ![r] = data[dest]]
        /\ UNCHANGED <<data, used, tmp, dest, fd, offset, overlap, restarts>>
    BY <1>9 DEF Iso!Hash, Iso!Goto
  <2>2. data[dest] \in SUBSET Iso!Image
    BY <2>1 DEF FileInv, Iso!TypeOK
  <2>3. /\ loadPc' \in [Downloads -> Iso!Labels]
        /\ object' \in [Downloads -> SUBSET Iso!Image]
    BY <2>1, <2>2 DEF Iso!TypeOK, Iso!Labels
  <2>4. \A s \in Downloads : loadPc'[s] = loadPc[s] \/ loadPc'[s] = "done"
    BY <2>1 DEF Iso!TypeOK
  <2> QED
    BY <1>3, <2>1, <2>3, <2>4 DEF FileInv, Iso!TypeOK
<1>10. CASE Iso!Restart
  <2>1. /\ loadPc' = [r \in Downloads |->
             IF loadPc[r] \in {"idle", "done"} THEN loadPc[r] ELSE "failed"]
        /\ restarts' \in 0 .. MaxRestarts
        /\ UNCHANGED <<data, used, tmp, dest, fd, offset, object, overlap>>
    BY <1>10, CachesAssumption DEF Iso!Restart, Iso!TypeOK
  <2>2. loadPc' \in [Downloads -> Iso!Labels]
    BY <2>1 DEF Iso!TypeOK, Iso!Labels
  <2>3. \A s \in Downloads : loadPc'[s] = loadPc[s] \/ loadPc'[s] = "failed"
    BY <2>1
  <2> QED
    BY <1>3, <2>1, <2>2, <2>3 DEF FileInv, Iso!TypeOK
<1>11. CASE UNCHANGED Iso!vars
  BY <1>11 DEF Iso!vars, Iso!TypeOK, FileInv, Opened
<1> QED
  BY <1>4, <1>5, <1>6, <1>7, <1>8, <1>9, <1>10, <1>11 DEF Iso!Next, Iso!Step, Iso!AllReturned

\* As long as no two downloads overlap.
LEMMA SoleStep ==
  ASSUME IsoInv, [Iso!Next]_Iso!vars
  PROVE  SoleInv' /\ CachedWhole'
<1>0. /\ \A r \in Downloads \ Opened : used + 1 <= Cardinality(Downloads)
      /\ Iso!Cardinality(Downloads) = Cardinality(Downloads)
  BY RoomForAFile DEF IsoInv
<1> USE DEF IsoInv, Iso!TypeOK
<1>1. None \notin Iso!Inodes /\ Cardinality(Downloads) \in Nat /\ Chunks \in Nat
      /\ Iso!Inodes = 1 .. Cardinality(Downloads)
  BY RoomForAFile, CachesAssumption DEF Iso!Inodes
<1>2. ASSUME UNCHANGED <<data, used, tmp, dest, fd, offset, object>>, overlap => overlap',
             \A r, s \in Downloads :
               ~overlap' /\ loadPc'[r] \in Iso!Loading /\ loadPc'[s] \in Iso!Loading => r = s,
             \A r \in Downloads :
               /\ loadPc'[r] \in {"copy", "rename"} => loadPc[r] \in {"copy", "rename"}
               /\ loadPc'[r] = "rename" => offset[r] = Chunks \/ loadPc[r] = "rename"
               /\ loadPc'[r] = "done" => loadPc[r] = "done"
      PROVE  SoleInv' /\ CachedWhole'
  <2>1. SoleInv'
    BY <1>2 DEF SoleInv
  <2>2. CachedWhole'
    BY <1>2 DEF CachedWhole, Iso!CachedWhole
  <2> QED
    BY <2>1, <2>2
<1>3. ASSUME NEW r \in Downloads, Iso!Arrive(r) \/ Iso!Get(r) \/ Iso!Close(r)
      PROVE  SoleInv' /\ CachedWhole'
  <2>1. UNCHANGED <<data, used, tmp, dest, fd, offset, object, overlap>>
    BY <1>3 DEF Iso!Arrive, Iso!Get, Iso!Close
  <2>2. PICK label \in {"stat", "create", "rename", "failed"} :
          loadPc' = [loadPc EXCEPT ![r] = label]
    BY <1>3 DEF Iso!Arrive, Iso!Get, Iso!Close, Iso!Goto
  <2>3. /\ label \in {"create", "rename"} => loadPc[r] \in Iso!Loading
        /\ label = "rename" => loadPc[r] = "copy" /\ offset[r] = Chunks
    BY <1>3, <2>2 DEF Iso!Arrive, Iso!Get, Iso!Close, Iso!Goto, Iso!Loading
  <2>4. \A s \in Downloads :
          /\ loadPc'[s] \in Iso!Loading => loadPc[s] \in Iso!Loading
          /\ loadPc'[s] \in {"copy", "rename"} => loadPc[s] \in {"copy", "rename"}
          /\ loadPc'[s] = "rename" => offset[s] = Chunks \/ loadPc[s] = "rename"
          /\ loadPc'[s] = "done" => loadPc[s] = "done"
    BY <2>2, <2>3 DEF Iso!Loading
  <2>5. \A p, q \in Downloads :
          ~overlap' /\ loadPc'[p] \in Iso!Loading /\ loadPc'[q] \in Iso!Loading => p = q
    BY <2>1, <2>4 DEF SoleInv
  <2> QED
    BY <1>2, <2>1, <2>4, <2>5
<1>4. ASSUME NEW r \in Downloads, Iso!Stat(r)
      PROVE  SoleInv' /\ CachedWhole'
  <2>1. UNCHANGED <<data, used, tmp, dest, fd, offset, object>> /\ (overlap => overlap')
    BY <1>4 DEF Iso!Stat
  <2>2. CASE loadPc' = [loadPc EXCEPT ![r] = "hash"] /\ overlap' = overlap
    <3>1. \A p, q \in Downloads :
            ~overlap' /\ loadPc'[p] \in Iso!Loading /\ loadPc'[q] \in Iso!Loading => p = q
      BY <2>2 DEF SoleInv, Iso!Loading
    <3> QED
      BY <1>2, <2>1, <2>2, <3>1
  <2>3. CASE /\ loadPc' = [loadPc EXCEPT ![r] = "get"]
             /\ overlap' = (overlap \/ \E s \in Downloads : loadPc[s] \in Iso!Loading)
    <3>1. \A p, q \in Downloads :
            ~overlap' /\ loadPc'[p] \in Iso!Loading /\ loadPc'[q] \in Iso!Loading => p = q
      BY <2>3
    <3> QED
      BY <1>2, <2>1, <2>3, <3>1
  <2> QED
    BY <1>4, <2>2, <2>3 DEF Iso!Stat, Iso!Goto
<1>5. ASSUME NEW r \in Downloads, Iso!Create(r), ~overlap'
      PROVE  SoleInv' /\ CachedWhole'
  <2>1. /\ loadPc[r] = "create" /\ offset[r] = 0
        /\ fd' = [fd EXCEPT ![r] = tmp'] /\ loadPc' = [loadPc EXCEPT ![r] = "copy"]
        /\ UNCHANGED <<dest, offset, object>> /\ ~overlap
    BY <1>5 DEF Iso!Create, Iso!Goto, FileInv
  <2>2. used + 1 \in Iso!Inodes
    <3>1. r \in Downloads \ Opened
      BY <2>1 DEF Opened, FileInv
    <3>2. used + 1 <= Cardinality(Downloads)
      BY <1>0, <3>1
    <3>3. used \in Nat
      BY <1>0, <1>1
    <3> QED
      BY <1>1, <3>2, <3>3
  <2>3. /\ tmp' # None => tmp' # dest
        /\ tmp' \in Iso!Inodes /\ data'[tmp'] = {}
        /\ \A i \in Iso!Inodes : i # tmp' => data'[i] = data[i]
        /\ \A i \in Iso!Inodes : used' < i => data'[i] = {}
    <3>1. CASE tmp # None
      <4>1. data' = [data EXCEPT ![tmp] = {}] /\ used' = used /\ tmp' = tmp
        BY <1>5, <3>1 DEF Iso!Create
      <4> QED
        BY <2>1, <3>1, <4>1 DEF SoleInv
    <3>2. CASE tmp = None
      <4>1. data' = data /\ used' = used + 1 /\ tmp' = used + 1
        BY <1>5, <3>2 DEF Iso!Create
      <4>2. tmp' # None => tmp' # dest
        BY <1>1, <4>1 DEF FileInv
      <4>3. data[used + 1] = {} /\ \A i \in Iso!Inodes : used + 1 < i => data[i] = {}
        BY <1>1, <2>1, <2>2 DEF SoleInv
      <4> QED
        BY <2>2, <4>1, <4>2, <4>3
    <3> QED
      BY <3>1, <3>2
  <2>4. {} = 1 .. 0
    OBVIOUS
  <2>5. \A p, q \in Downloads : loadPc'[p] \in Iso!Loading /\ loadPc'[q] \in Iso!Loading => p = q
    BY <2>1 DEF SoleInv, Iso!Loading
  <2>6. \A s \in Downloads :
          /\ loadPc'[s] \in {"copy", "rename"} => fd'[s] = tmp' /\ data'[tmp'] = 1 .. offset'[s]
          /\ loadPc'[s] = "rename" => offset'[s] = Chunks
    <3> SUFFICES ASSUME NEW s \in Downloads, loadPc'[s] \in {"copy", "rename"}
                 PROVE  /\ fd'[s] = tmp' /\ data'[tmp'] = 1 .. offset'[s]
                        /\ loadPc'[s] # "rename"
      OBVIOUS
    <3>1. s = r
      BY <2>1, <2>5 DEF Iso!Loading
    <3> QED
      BY <2>1, <2>3, <2>4, <3>1
  <2>7. SoleInv'
    BY <2>1, <2>3, <2>5, <2>6 DEF SoleInv
  <2>8. CachedWhole'
    BY <1>1, <2>1, <2>3 DEF CachedWhole, Iso!CachedWhole
  <2> QED
    BY <2>7, <2>8
<1>6. ASSUME NEW r \in Downloads, Iso!Write(r), ~overlap'
      PROVE  SoleInv' /\ CachedWhole'
  <2>1. /\ loadPc[r] = "copy" /\ offset[r] < Chunks
        /\ data' = [data EXCEPT ![fd[r]] = data[fd[r]] \cup {offset[r] + 1}]
        /\ offset' = [offset EXCEPT ![r] = offset[r] + 1]
        /\ UNCHANGED <<used, tmp, dest, loadPc, fd, object>> /\ ~overlap
    BY <1>6 DEF Iso!Write
  <2>2. fd[r] = tmp /\ tmp # None /\ data[tmp] = 1 .. offset[r] /\ tmp # dest /\ tmp <= used
    BY <2>1 DEF SoleInv, FileInv
  <2>3. 1 .. (offset[r] + 1) = (1 .. offset[r]) \cup {offset[r] + 1}
    OBVIOUS
  <2>4. data'[tmp] = 1 .. offset'[r] /\ \A i \in Iso!Inodes : i # tmp => data'[i] = data[i]
    BY <2>1, <2>2, <2>3
  <2>5. \A s \in Downloads :
          /\ loadPc'[s] \in {"copy", "rename"} => fd'[s] = tmp' /\ data'[tmp'] = 1 .. offset'[s]
          /\ loadPc'[s] = "rename" => offset'[s] = Chunks
    <3> SUFFICES ASSUME NEW s \in Downloads, loadPc'[s] \in {"copy", "rename"}
                 PROVE  /\ fd'[s] = tmp' /\ data'[tmp'] = 1 .. offset'[s]
                        /\ loadPc'[s] # "rename"
      OBVIOUS
    <3>1. s = r
      BY <2>1 DEF SoleInv, Iso!Loading
    <3> QED
      BY <2>1, <2>2, <2>4, <3>1
  <2>6. \A i \in Iso!Inodes : used' < i => data'[i] = {}
    BY <1>1, <2>1, <2>2, <2>4 DEF SoleInv
  <2>7. SoleInv'
    BY <2>1, <2>5, <2>6 DEF SoleInv
  <2>8. CachedWhole'
    BY <1>1, <2>1, <2>2, <2>4 DEF CachedWhole, Iso!CachedWhole
  <2> QED
    BY <2>7, <2>8
<1>7. ASSUME NEW r \in Downloads, Iso!CopyFails(r), ~overlap'
      PROVE  SoleInv' /\ CachedWhole'
  <2>1. /\ loadPc[r] = "copy" /\ tmp' = None /\ loadPc' = [loadPc EXCEPT ![r] = "failed"]
        /\ UNCHANGED <<data, used, dest, fd, offset, object>> /\ ~overlap
    BY <1>7 DEF Iso!CopyFails, Iso!Goto
  <2>2. \A s \in Downloads : loadPc'[s] \notin Iso!Loading
    BY <2>1 DEF SoleInv, Iso!Loading
  <2>3. SoleInv'
    BY <2>1, <2>2 DEF SoleInv, Iso!Loading
  <2>4. CachedWhole'
    BY <2>1 DEF CachedWhole, Iso!CachedWhole
  <2> QED
    BY <2>3, <2>4
<1>8. ASSUME NEW r \in Downloads, Iso!Rename(r), ~overlap'
      PROVE  SoleInv' /\ CachedWhole'
  <2>1. loadPc[r] = "rename" /\ UNCHANGED <<data, used, fd, offset, object>> /\ ~overlap
    BY <1>8 DEF Iso!Rename
  <2>2. \A s \in Downloads : loadPc'[s] \notin Iso!Loading
    BY <1>8, <2>1 DEF Iso!Rename, Iso!Goto, SoleInv, Iso!Loading
  <2>3. \A s \in Downloads : loadPc'[s] = "done" => loadPc[s] = "done"
    BY <1>8 DEF Iso!Rename, Iso!Goto
  <2>4. /\ tmp' # None => tmp' # dest'
        /\ dest' # None => data[dest'] = Iso!Image
    <3>1. CASE UNCHANGED <<tmp, dest>>
      BY <2>1, <3>1 DEF SoleInv, CachedWhole, Iso!CachedWhole
    <3>2. CASE dest' = tmp /\ tmp' = None
      BY <2>1, <3>2 DEF SoleInv, Iso!Image
    <3> QED
      BY <1>8, <3>1, <3>2 DEF Iso!Rename
  <2>5. SoleInv'
    BY <2>1, <2>2, <2>4 DEF SoleInv, Iso!Loading
  <2>6. CachedWhole'
    BY <2>1, <2>3, <2>4 DEF CachedWhole, Iso!CachedWhole
  <2> QED
    BY <2>5, <2>6
<1>9. ASSUME NEW r \in Downloads, Iso!Hash(r)
      PROVE  SoleInv' /\ CachedWhole'
  <2>1. /\ loadPc[r] = "hash" /\ loadPc' = [loadPc EXCEPT ![r] = "done"]
        /\ object' = [object EXCEPT ![r] = data[dest]]
        /\ UNCHANGED <<data, used, tmp, dest, fd, offset, overlap>>
    BY <1>9 DEF Iso!Hash, Iso!Goto
  <2>2. dest # None
    BY <2>1 DEF FileInv
  <2>3. \A s \in Downloads : loadPc'[s] = loadPc[s] \/ (s = r /\ loadPc'[s] = "done")
    BY <2>1
  <2>4. SoleInv'
    BY <2>1, <2>3 DEF SoleInv, Iso!Loading
  <2>5. CachedWhole'
    BY <2>1, <2>2, <2>3 DEF CachedWhole, Iso!CachedWhole
  <2> QED
    BY <2>4, <2>5
<1>10. CASE Iso!Restart
  <2>1. /\ loadPc' = [r \in Downloads |->
             IF loadPc[r] \in {"idle", "done"} THEN loadPc[r] ELSE "failed"]
        /\ UNCHANGED <<data, used, tmp, dest, fd, offset, object, overlap>>
    BY <1>10 DEF Iso!Restart
  <2>2. \A s \in Downloads : /\ loadPc'[s] \notin Iso!Loading
                             /\ loadPc'[s] = "done" => loadPc[s] = "done"
    BY <2>1 DEF Iso!Loading
  <2> QED
    BY <1>2, <2>1, <2>2 DEF Iso!Loading
<1>11. CASE UNCHANGED Iso!vars
  <2>1. UNCHANGED <<data, used, tmp, dest, loadPc, fd, offset, object, overlap>>
    BY <1>11 DEF Iso!vars
  <2> QED
    BY <2>1 DEF SoleInv, CachedWhole, Iso!CachedWhole
<1>12. CASE overlap'
  BY <1>12 DEF SoleInv, CachedWhole, Iso!CachedWhole
<1> QED
  BY <1>3, <1>4, <1>5, <1>6, <1>7, <1>8, <1>9, <1>10, <1>11, <1>12
     DEF Iso!Next, Iso!Step, Iso!AllReturned

\* So it holds in every state.
LEMMA AlwaysIsoInv == Spec => []IsoInv
<1>1. Iso!Init => IsoInv
  <2> SUFFICES ASSUME Iso!Init
               PROVE  IsoInv
    OBVIOUS
  <2>1. Iso!TypeOK
    <3>1. Iso!Cardinality(Downloads) \in Nat
      BY CachesAssumption, FS_CardinalityType DEF Iso!Cardinality, Cardinality
    <3>2. /\ data \in [Iso!Inodes -> SUBSET Iso!Image] /\ object \in [Downloads -> SUBSET Iso!Image]
          /\ tmp \in Iso!Inodes \cup {None} /\ dest \in Iso!Inodes \cup {None}
          /\ fd \in [Downloads -> Iso!Inodes \cup {None}]
      BY DEF Iso!Init
    <3>3. loadPc \in [Downloads -> Iso!Labels] /\ overlap \in BOOLEAN
      BY DEF Iso!Init, Iso!Labels
    <3>4. /\ offset \in [Downloads -> 0 .. Chunks] /\ restarts \in 0 .. MaxRestarts
          /\ used \in 0 .. Iso!Cardinality(Downloads)
      BY <3>1, CachesAssumption DEF Iso!Init
    <3> QED
      BY <3>2, <3>3, <3>4 DEF Iso!TypeOK
  <2>2. FileInv
    <3>1. Cardinality(Opened) \in Nat
      <4>1. Opened \subseteq Downloads
        BY DEF Opened
      <4> QED
        BY <4>1, CachesAssumption, FS_Subset, FS_CardinalityType
    <3> QED
      BY <3>1 DEF Iso!Init, FileInv
  <2>3. SoleInv /\ CachedWhole
    BY DEF Iso!Init, SoleInv, CachedWhole, Iso!CachedWhole, Iso!Loading
  <2> QED
    BY <2>1, <2>2, <2>3 DEF IsoInv
<1>2. IsoInv /\ [Iso!Next]_Iso!vars => IsoInv'
  BY FileStep, SoleStep DEF IsoInv
<1> QED
  BY <1>1, <1>2, IsoPart, PTL DEF Iso!Spec

\* CachedWhole: as long as no two downloads overlap, whatever fails and whenever the
\* gateway restarts, what has the final name is the whole image, and so is what an
\* object was named after.
THEOREM NothingPartialIsCached == Spec => []CachedWhole
<1> QED
  BY AlwaysIsoInv, PTL DEF IsoInv

-----------------------------------------------------------------------------
(***************************************************************************)
(* Probes: what has been found, shown and opened when a probe is at a step.*)
(***************************************************************************)
\* The steps of ensure, and those on a client that is made.
Ensuring == {"login", "datacenter", "datastore"}
Made     == {"folder", "file", "dir", "verdict", "close"}

\* Which probe takes the step; a session is open only after the login.
SessionInv ==
  /\ probePc \in {"find", "info", "cdrom"} => probe = "mapping"
  /\ probePc = "endpoint" => probe = "test"
  /\ probePc = "file" => probe = "health"
  /\ probePc \in Ensuring \cup Made => probe # "mapping"
  /\ probePc \in {"idle", "endpoint", "login", "find", "info", "cdrom"} => ~session
  /\ NoSessionLeft

\* What is behind a probe was found.
FoundInv ==
  /\ probe = "test" /\ probePc \in Ensuring \cup Made => got["endpoint"] = "ok"
  /\ probePc \in {"datacenter", "datastore"} \cup Made => got["login"] = "ok"
  /\ probePc \in {"datastore"} \cup Made => got["datacenter"] = "ok"
  /\ probePc \in Made => got["datastore"] = IF "datastore" \in given THEN "ok" ELSE "none"
  /\ probePc \in {"file", "dir"} => "datastore" \in given
  /\ probePc \in Made \ {"folder"} => (got["folder"] = "none" <=> "folder" \notin given)
  /\ probePc \in {"verdict", "close"} /\ probe = "test" =>
       (got["dir"] = "none" <=> "datastore" \notin given)
  /\ probePc = "info" => got["find"] = "ok"

\* What is ahead of a test was not looked at.
AheadInv ==
  probe = "test" =>
    /\ probePc \in {"idle", "endpoint"} => got["endpoint"] = "none"
    /\ probePc \in {"idle", "endpoint", "login"} => got["login"] = "none"
    /\ probePc \in {"idle", "endpoint", "login", "datacenter"} => got["datacenter"] = "none"
    /\ probePc \in {"idle", "endpoint"} \cup Ensuring =>
         got["datastore"] = "none" /\ checks["datastore"] = "none"
    /\ probePc \in {"idle", "endpoint", "folder"} \cup Ensuring =>
         got["folder"] = "none" /\ checks["folder"] = "none"
    /\ probePc \in {"idle", "endpoint", "folder", "dir"} \cup Ensuring => got["dir"] = "none"
    /\ probePc \in {"idle", "endpoint"} => checks["endpoint"] = "none"
    /\ probePc \in {"idle", "endpoint"} \cup Ensuring =>
         checks["login"] = "none" /\ checks["datacenter"] = "none"

Agreed(s) ==
  /\ checks[s] = "ok" <=> got[s] = "ok"
  /\ checks[s] = "failed" <=> got[s] \in {"missing", "error"}

\* The checklist agrees with what was found; the rows of ensure are filled in at
\* its end.
RowsInv ==
  probe = "test" /\ words = {} =>
    /\ Agreed("endpoint") /\ Agreed("datastore") /\ Agreed("folder")
    /\ probePc \notin {"datacenter", "datastore"} => Agreed("login") /\ Agreed("datacenter")
    /\ checks["iso"] = "failed" <=> got["dir"] = "error"
    /\ probePc \notin {"close", "over"} => ~ok
    /\ probePc \in {"close", "over"} =>
         (ok <=> /\ \A s \in {"endpoint", "login", "datacenter"} \cup given : got[s] = "ok"
                 /\ "datastore" \in given => got["dir"] \in {"ok", "missing"})

\* A light is green for what is behind the probe.
LightInv ==
  /\ probe = "health" /\ probePc \in Made \ {"folder"} /\ light = "green" /\ "folder" \in given =>
       got["folder"] = "ok"
  /\ probe = "health" /\ probePc \in {"idle", "folder", "file"} \cup Ensuring => iso = "red"
  /\ probe = "health" /\ probePc \in {"verdict", "close"} /\ iso = "green" => got["dir"] = "ok"
  /\ probe = "mapping" /\ probePc \in {"idle", "find", "info"} => light = "red"
  /\ GreenIsEarned

ProbeInv == Light!TypeOK /\ SessionInv /\ FoundInv /\ AheadInv /\ RowsInv /\ LightInv

\* What a step of a probe writes down.
LEMMA Ended ==
  ASSUME Light!TypeOK, NEW o \in Light!Outcomes, NEW next, Light!Ends(o, next)
  PROVE  /\ got' \in [Light!Steps -> Light!Outcomes]
         /\ \A s \in Light!Steps : got'[s] = IF s = probePc THEN o ELSE got[s]
         /\ probePc' = next /\ UNCHANGED <<probe, given, words, cancelled>>
BY DEF Light!TypeOK, Light!Ends

\* A row of the checklist that is marked.
LEMMA RowMarked ==
  ASSUME Light!TypeOK, NEW row \in Light!Rows, NEW mark \in Light!Marks
  PROVE  /\ Light!Marked(row, mark) \in [Light!Rows -> Light!Marks]
         /\ \A s \in Light!Rows :
              Light!Marked(row, mark)[s] = IF probe = "test" /\ s = row THEN mark ELSE checks[s]
BY DEF Light!TypeOK, Light!Marked

\* The rows that a failed ensure marks.
LEMMA RowsBlamed ==
  ASSUME Light!TypeOK, NEW text
  PROVE  /\ Light!Blamed(text) \in [Light!Rows -> Light!Marks]
         /\ \A s \in {"endpoint", "folder", "iso"} : Light!Blamed(text)[s] = checks[s]
         /\ text = {"login"} => /\ Light!Blamed(text)["login"] = "failed"
                                /\ Light!Blamed(text)["datacenter"] = checks["datacenter"]
                                /\ Light!Blamed(text)["datastore"] = checks["datastore"]
         /\ text = {"datacenter"} => /\ Light!Blamed(text)["login"] = "ok"
                                     /\ Light!Blamed(text)["datacenter"] = "failed"
                                     /\ Light!Blamed(text)["datastore"] = checks["datastore"]
         /\ text = {"datastore"} => /\ Light!Blamed(text)["login"] = "ok"
                                    /\ Light!Blamed(text)["datacenter"] = "ok"
                                    /\ Light!Blamed(text)["datastore"] = "failed"
BY DEF Light!TypeOK, Light!Blamed, Light!Rows, Light!Marks

\* A step of ensure fails.
LEMMA EnsureFailsStep ==
  ASSUME ProbeInv, probePc \in Ensuring, probePc = "datastore" => "datastore" \in given,
         Light!EnsureFails
  PROVE  ProbeInv'
<1> USE DEF ProbeInv, Ensuring, Made
<1>1. /\ got' \in [Light!Steps -> Light!Outcomes]
      /\ \A s \in Light!Steps : got'[s] = IF s = probePc THEN "error" ELSE got[s]
      /\ probePc' = "over" /\ UNCHANGED <<probe, given, words, cancelled>>
  <2>1. "error" \in Light!Outcomes /\ Light!Ends("error", "over")
    BY DEF Light!EnsureFails, Light!Outcomes
  <2> QED
    BY <2>1, Ended
<1>2. /\ session' = (session /\ cancelled) /\ light' = "yellow" /\ iso' = "yellow" /\ ok' = ok
      /\ checks' = IF probe = "test" THEN Light!Blamed(words \cup {probePc}) ELSE checks
  BY DEF Light!EnsureFails, Light!LoggedOut
<1>3. Light!TypeOK'
  BY <1>1, <1>2, RowsBlamed DEF Light!TypeOK, Light!Lights
<1>4. SessionInv' /\ FoundInv' /\ AheadInv'
  BY <1>1, <1>2 DEF SessionInv, NoSessionLeft, Light!NoSessionLeft, FoundInv, AheadInv
<1>5. LightInv'
  BY <1>1, <1>2 DEF LightInv, GreenIsEarned, Light!GreenIsEarned, SessionInv
<1>6. RowsInv'
  <2> SUFFICES ASSUME probe = "test", words = {}
               PROVE  RowsInv'
    BY <1>1 DEF RowsInv
  <2>1. words \cup {probePc} = {probePc}
    OBVIOUS
  <2>2. /\ checks'["endpoint"] = checks["endpoint"] /\ checks'["folder"] = checks["folder"]
        /\ checks'["iso"] = checks["iso"]
        /\ probePc = "login" => /\ checks'["login"] = "failed"
                                /\ checks'["datacenter"] = checks["datacenter"]
                                /\ checks'["datastore"] = checks["datastore"]
        /\ probePc = "datacenter" => /\ checks'["login"] = "ok" /\ checks'["datacenter"] = "failed"
                                     /\ checks'["datastore"] = checks["datastore"]
        /\ probePc = "datastore" => /\ checks'["login"] = "ok" /\ checks'["datacenter"] = "ok"
                                    /\ checks'["datastore"] = "failed"
    BY <1>2, <2>1, RowsBlamed
  <2>3. \A s \in {"endpoint", "login", "datacenter", "datastore", "folder", "dir"} :
          got'[s] = IF s = probePc THEN "error" ELSE got[s]
    BY <1>1 DEF Light!Steps
  <2>4. Agreed("endpoint")' /\ Agreed("folder")'
    BY <2>2, <2>3 DEF RowsInv, Agreed
  <2>5. Agreed("login")' /\ Agreed("datacenter")' /\ Agreed("datastore")'
    BY <2>2, <2>3 DEF RowsInv, Agreed, AheadInv, FoundInv
  <2>6. ~ok' /\ (checks'["iso"] = "failed" <=> got'["dir"] = "error")
    BY <1>2, <2>2, <2>3 DEF RowsInv
  <2>7. \E s \in {"endpoint", "login", "datacenter"} \cup given : got'[s] # "ok"
    <3>1. got'[probePc] = "error"
      BY <2>3
    <3>2. probePc \in {"endpoint", "login", "datacenter"} \cup given
      OBVIOUS
    <3> QED
      BY <3>1, <3>2
  <2> QED
    BY <1>1, <2>4, <2>5, <2>6, <2>7 DEF RowsInv
<1> QED
  BY <1>3, <1>4, <1>5, <1>6

\* Every other step of a probe.
LEMMA ProbeStep ==
  ASSUME ProbeInv, [Light!Next]_Light!vars
  PROVE  ProbeInv'
<1> USE DEF ProbeInv, Ensuring, Made
<1>1. CASE Light!Begin
  <2>1. /\ probePc = "idle"
        /\ UNCHANGED <<probe, given, words, got, checks, light, iso, ok, session, cancelled>>
        /\ probePc' = CASE probe = "test" -> "endpoint" [] probe = "health" -> "login"
                        [] probe = "mapping" -> "find"
    BY <1>1 DEF Light!Begin
  <2>2. /\ probe = "test" => probePc' = "endpoint"
        /\ probe = "health" => probePc' = "login"
        /\ probe = "mapping" => probePc' = "find"
        /\ probe \in {"test", "health", "mapping"}
    BY <2>1 DEF Light!TypeOK, Light!Kinds
  <2>3. Light!TypeOK' /\ SessionInv' /\ FoundInv'
    BY <2>1, <2>2
       DEF Light!TypeOK, Light!Steps, SessionInv, NoSessionLeft, Light!NoSessionLeft, FoundInv
  <2>4. AheadInv' /\ RowsInv' /\ LightInv'
    BY <2>1, <2>2
       DEF AheadInv, RowsInv, Agreed, LightInv, GreenIsEarned, Light!GreenIsEarned, Light!Found
  <2> QED
    BY <2>3, <2>4
<1>2. CASE Light!Endpoint
  <2>1. PICK o \in {"ok", "error"} :
          /\ Light!Ends(o, IF o = "ok" THEN "login" ELSE "over")
          /\ checks' = IF o = "ok" THEN Light!Marked("endpoint", "ok")
                       ELSE [checks EXCEPT !["endpoint"] = "failed", !["login"] = "skipped"]
    BY <1>2 DEF Light!Endpoint
  <2>2. probePc = "endpoint" /\ probe = "test" /\ ~session /\ UNCHANGED <<light, iso, ok, session>>
    BY <1>2 DEF Light!Endpoint, SessionInv
  <2>3. /\ got' \in [Light!Steps -> Light!Outcomes]
        /\ \A s \in Light!Steps : got'[s] = IF s = "endpoint" THEN o ELSE got[s]
        /\ probePc' = (IF o = "ok" THEN "login" ELSE "over")
        /\ UNCHANGED <<probe, given, words, cancelled>>
    BY <2>1, <2>2, Ended DEF Light!Outcomes
  <2>4. /\ checks' \in [Light!Rows -> Light!Marks]
        /\ checks'["endpoint"] = IF o = "ok" THEN "ok" ELSE "failed"
        /\ checks'["login"] = IF o = "ok" THEN checks["login"] ELSE "skipped"
        /\ \A s \in {"datacenter", "datastore", "folder", "iso"} : checks'[s] = checks[s]
    BY <2>1, <2>2 DEF Light!TypeOK, Light!Rows, Light!Marks, Light!Marked
  <2>5. Light!TypeOK'
    BY <2>2, <2>3, <2>4 DEF Light!TypeOK, Light!Steps
  <2>6. \A s \in {"endpoint", "login", "datacenter", "datastore", "folder", "dir"} :
          got'[s] = IF s = "endpoint" THEN o ELSE got[s]
    BY <2>3 DEF Light!Steps
  <2>7. SessionInv' /\ FoundInv' /\ AheadInv'
    BY <2>1, <2>2, <2>3, <2>4, <2>6
       DEF SessionInv, NoSessionLeft, Light!NoSessionLeft, FoundInv, AheadInv
  <2>8. RowsInv'
    BY <2>1, <2>2, <2>3, <2>4, <2>6 DEF RowsInv, Agreed, AheadInv
  <2>9. LightInv'
    BY <2>1, <2>2, <2>3 DEF LightInv, GreenIsEarned, Light!GreenIsEarned
  <2> QED
    BY <2>5, <2>7, <2>8, <2>9
<1>3. CASE Light!Login
  <2>1. CASE Light!EnsureFails
    BY <1>3, <2>1, EnsureFailsStep DEF Light!Login
  <2>2. CASE /\ Light!Ends("ok", "datacenter") /\ session' = TRUE
             /\ UNCHANGED <<checks, light, iso, ok>>
    <3>1. probePc = "login"
      BY <1>3 DEF Light!Login
    <3>2. /\ got' \in [Light!Steps -> Light!Outcomes]
          /\ \A s \in Light!Steps : got'[s] = IF s = "login" THEN "ok" ELSE got[s]
          /\ probePc' = "datacenter" /\ UNCHANGED <<probe, given, words, cancelled>>
      BY <2>2, <3>1, Ended DEF Light!Outcomes
    <3>3. Light!TypeOK'
      BY <2>2, <3>2 DEF Light!TypeOK, Light!Steps
    <3>4. \A s \in {"endpoint", "login", "datacenter", "datastore", "folder", "dir"} :
            got'[s] = IF s = "login" THEN "ok" ELSE got[s]
      BY <3>2 DEF Light!Steps
    <3>5. SessionInv' /\ FoundInv' /\ AheadInv'
      BY <2>2, <3>1, <3>2, <3>4
         DEF SessionInv, NoSessionLeft, Light!NoSessionLeft, FoundInv, AheadInv
    <3>6. RowsInv' /\ LightInv'
      BY <2>2, <3>1, <3>2, <3>4, <3>5
         DEF RowsInv, Agreed, LightInv, GreenIsEarned, Light!GreenIsEarned, SessionInv
    <3> QED
      BY <3>3, <3>5, <3>6
  <2> QED
    BY <1>3, <2>1, <2>2 DEF Light!Login
<1>4. CASE Light!FindDatacenter
  <2>1. CASE Light!EnsureFails
    BY <1>4, <2>1, EnsureFailsStep DEF Light!FindDatacenter
  <2>2. CASE /\ Light!Ends("ok", "datastore")
             /\ UNCHANGED <<checks, light, iso, ok, session>>
    <3>1. probePc = "datacenter"
      BY <1>4 DEF Light!FindDatacenter
    <3>2. /\ got' \in [Light!Steps -> Light!Outcomes]
          /\ \A s \in Light!Steps : got'[s] = IF s = "datacenter" THEN "ok" ELSE got[s]
          /\ probePc' = "datastore" /\ UNCHANGED <<probe, given, words, cancelled>>
      BY <2>2, <3>1, Ended DEF Light!Outcomes
    <3>3. Light!TypeOK'
      BY <2>2, <3>2 DEF Light!TypeOK, Light!Steps
    <3>4. \A s \in {"endpoint", "login", "datacenter", "datastore", "folder", "dir"} :
            got'[s] = IF s = "datacenter" THEN "ok" ELSE got[s]
      BY <3>2 DEF Light!Steps
    <3>5. SessionInv' /\ FoundInv' /\ AheadInv'
      BY <2>2, <3>1, <3>2, <3>4
         DEF SessionInv, NoSessionLeft, Light!NoSessionLeft, FoundInv, AheadInv
    <3>6. RowsInv' /\ LightInv'
      BY <2>2, <3>1, <3>2, <3>4, <3>5
         DEF RowsInv, Agreed, LightInv, GreenIsEarned, Light!GreenIsEarned, SessionInv
    <3> QED
      BY <3>3, <3>5, <3>6
  <2> QED
    BY <1>4, <2>1, <2>2 DEF Light!FindDatacenter
<1>5. CASE Light!FindDatastore
  <2>1. CASE "datastore" \in given /\ Light!EnsureFails
    BY <1>5, <2>1, EnsureFailsStep DEF Light!FindDatastore
  <2>2. CASE /\ Light!Ends(IF "datastore" \in given THEN "ok" ELSE "none", "folder")
             /\ checks' = IF probe = "test"
                  THEN [checks EXCEPT !["login"] = "ok", !["datacenter"] = "ok",
                          !["datastore"] = IF "datastore" \in given THEN "ok" ELSE "skipped"]
                  ELSE checks
             /\ light' = "green" /\ UNCHANGED <<iso, ok, session>>
    <3>1. probePc = "datastore"
      BY <1>5 DEF Light!FindDatastore
    <3> DEFINE o == IF "datastore" \in given THEN "ok" ELSE "none"
    <3>2. /\ got' \in [Light!Steps -> Light!Outcomes]
          /\ \A s \in Light!Steps : got'[s] = IF s = "datastore" THEN o ELSE got[s]
          /\ probePc' = "folder" /\ UNCHANGED <<probe, given, words, cancelled>>
      <4>1. o \in Light!Outcomes
        BY DEF Light!Outcomes
      <4> QED
        BY <2>2, <3>1, <4>1, Ended
    <3>3. /\ checks' \in [Light!Rows -> Light!Marks]
          /\ \A s \in {"endpoint", "folder", "iso"} : checks'[s] = checks[s]
          /\ probe = "test" =>
               /\ checks'["login"] = "ok" /\ checks'["datacenter"] = "ok"
               /\ checks'["datastore"] = IF "datastore" \in given THEN "ok" ELSE "skipped"
      BY <2>2 DEF Light!TypeOK, Light!Rows, Light!Marks
    <3>4. Light!TypeOK'
      BY <2>2, <3>2, <3>3 DEF Light!TypeOK, Light!Steps, Light!Lights
    <3>5. \A s \in {"endpoint", "login", "datacenter", "datastore", "folder", "dir"} :
            got'[s] = IF s = "datastore" THEN o ELSE got[s]
      BY <3>2 DEF Light!Steps
    <3>6. SessionInv' /\ FoundInv' /\ AheadInv'
      BY <2>2, <3>1, <3>2, <3>3, <3>5
         DEF SessionInv, NoSessionLeft, Light!NoSessionLeft, FoundInv, AheadInv
    <3>7. RowsInv'
      BY <2>2, <3>1, <3>2, <3>3, <3>5 DEF RowsInv, Agreed, FoundInv
    <3>8. LightInv'
      BY <2>2, <3>1, <3>2, <3>5 DEF LightInv, GreenIsEarned, Light!GreenIsEarned, SessionInv
    <3> QED
      BY <3>4, <3>6, <3>7, <3>8
  <2> QED
    BY <1>5, <2>1, <2>2 DEF Light!FindDatastore
<1>6. CASE Light!CheckFolder
  <2>1. PICK o \in IF "folder" \in given THEN {"ok", "missing", "error"} ELSE {"none"} :
          /\ Light!Ends(o, Light!AfterFolder)
          /\ checks' = Light!Marked("folder", CASE o = "none" -> "skipped"
                                                [] o = "ok"   -> "ok"
                                                [] OTHER      -> "failed")
          /\ light' = IF o \in {"missing", "error"} THEN "yellow" ELSE light
    BY <1>6 DEF Light!CheckFolder
  <2>2. probePc = "folder" /\ UNCHANGED <<iso, ok, session>>
    BY <1>6 DEF Light!CheckFolder
  <2>3. /\ got' \in [Light!Steps -> Light!Outcomes]
        /\ \A s \in Light!Steps : got'[s] = IF s = "folder" THEN o ELSE got[s]
        /\ probePc' = Light!AfterFolder /\ UNCHANGED <<probe, given, words, cancelled>>
    BY <2>1, <2>2, Ended DEF Light!Outcomes
  <2>4. /\ checks' \in [Light!Rows -> Light!Marks]
        /\ \A s \in {"endpoint", "login", "datacenter", "datastore", "iso"} : checks'[s] = checks[s]
        /\ probe = "test" => /\ checks'["folder"] = "ok" <=> o = "ok"
                             /\ checks'["folder"] = "failed" <=> o \in {"missing", "error"}
    BY <2>1, RowMarked DEF Light!Rows, Light!Marks
  <2>5. /\ probePc' = "verdict" <=> "datastore" \notin given
        /\ probePc' = "dir" <=> probe = "test" /\ "datastore" \in given
        /\ probePc' \in {"verdict", "dir", "file"} /\ (probePc' = "file" => probe = "health")
    <3>1. probe = "test" \/ probe = "health"
      BY <2>2 DEF SessionInv, Light!TypeOK, Light!Kinds
    <3>2. probePc' = IF "datastore" \notin given THEN "verdict"
                    ELSE IF probe = "test" THEN "dir" ELSE "file"
      BY <2>3 DEF Light!AfterFolder
    <3> QED
      BY <3>1, <3>2
  <2>6. Light!TypeOK'
    BY <2>1, <2>2, <2>3, <2>4, <2>5 DEF Light!TypeOK, Light!Steps, Light!Lights
  <2>7. \A s \in {"endpoint", "login", "datacenter", "datastore", "folder", "dir"} :
          got'[s] = IF s = "folder" THEN o ELSE got[s]
    BY <2>3 DEF Light!Steps
  <2>8. SessionInv' /\ FoundInv' /\ AheadInv'
    BY <2>1, <2>2, <2>3, <2>4, <2>5, <2>7
       DEF SessionInv, NoSessionLeft, Light!NoSessionLeft, FoundInv, AheadInv
  <2>9. RowsInv'
    BY <2>1, <2>2, <2>3, <2>4, <2>5, <2>7 DEF RowsInv, Agreed
  <2>10. LightInv'
    BY <2>1, <2>2, <2>3, <2>5, <2>7 DEF LightInv, GreenIsEarned, Light!GreenIsEarned, SessionInv
  <2> QED
    BY <2>6, <2>8, <2>9, <2>10
<1>7. CASE Light!LookAtFile
  <2>1. PICK o \in {"ok", "missing", "error"} :
          /\ Light!Ends(o, IF o = "error" THEN "verdict" ELSE "dir")
          /\ iso' = CASE o = "ok" -> "green" [] o = "missing" -> "yellow" [] o = "error" -> "red"
    BY <1>7 DEF Light!LookAtFile
  <2>2. probePc = "file" /\ UNCHANGED <<checks, light, ok, session>> /\ probe = "health"
    BY <1>7 DEF Light!LookAtFile, SessionInv
  <2>3. /\ got' \in [Light!Steps -> Light!Outcomes]
        /\ \A s \in Light!Steps : got'[s] = IF s = "file" THEN o ELSE got[s]
        /\ probePc' = (IF o = "error" THEN "verdict" ELSE "dir")
        /\ UNCHANGED <<probe, given, words, cancelled>>
    BY <2>1, <2>2, Ended DEF Light!Outcomes
  <2>4. Light!TypeOK' /\ (o = "error" => iso' = "red")
    BY <2>1, <2>2, <2>3 DEF Light!TypeOK, Light!Steps, Light!Lights
  <2>5. \A s \in {"endpoint", "login", "datacenter", "datastore", "folder", "dir"} : got'[s] = got[s]
    BY <2>3 DEF Light!Steps
  <2>6. SessionInv' /\ FoundInv' /\ AheadInv' /\ RowsInv'
    BY <2>2, <2>3, <2>5
       DEF SessionInv, NoSessionLeft, Light!NoSessionLeft, FoundInv, AheadInv, RowsInv
  <2>7. LightInv'
    BY <2>2, <2>3, <2>4, <2>5 DEF LightInv, GreenIsEarned, Light!GreenIsEarned
  <2> QED
    BY <2>4, <2>6, <2>7
<1>8. CASE Light!LookAtDir
  <2>1. PICK o \in {"ok", "missing", "error"} :
          /\ Light!Ends(o, "verdict")
          /\ checks' = Light!Marked("iso", IF o = "error" THEN "failed" ELSE "ok")
          /\ iso' = IF o = "ok" THEN "green" ELSE "yellow"
    BY <1>8 DEF Light!LookAtDir
  <2>2. probePc = "dir" /\ UNCHANGED <<light, ok, session>>
    BY <1>8 DEF Light!LookAtDir
  <2>3. /\ got' \in [Light!Steps -> Light!Outcomes]
        /\ \A s \in Light!Steps : got'[s] = IF s = "dir" THEN o ELSE got[s]
        /\ probePc' = "verdict" /\ UNCHANGED <<probe, given, words, cancelled>>
    BY <2>1, <2>2, Ended DEF Light!Outcomes
  <2>4. /\ checks' \in [Light!Rows -> Light!Marks]
        /\ \A s \in {"endpoint", "login", "datacenter", "datastore", "folder"} : checks'[s] = checks[s]
        /\ probe = "test" => (checks'["iso"] = "failed" <=> o = "error")
    BY <2>1, RowMarked DEF Light!Rows, Light!Marks
  <2>5. Light!TypeOK'
    BY <2>1, <2>2, <2>3, <2>4 DEF Light!TypeOK, Light!Steps, Light!Lights
  <2>6. \A s \in {"endpoint", "login", "datacenter", "datastore", "folder", "dir"} :
          got'[s] = IF s = "dir" THEN o ELSE got[s]
    BY <2>3 DEF Light!Steps
  <2>7. SessionInv' /\ FoundInv' /\ AheadInv'
    BY <2>1, <2>2, <2>3, <2>4, <2>6
       DEF SessionInv, NoSessionLeft, Light!NoSessionLeft, FoundInv, AheadInv
  <2>8. RowsInv'
    BY <2>1, <2>2, <2>3, <2>4, <2>6 DEF RowsInv, Agreed
  <2>9. LightInv'
    BY <2>1, <2>2, <2>3, <2>6 DEF LightInv, GreenIsEarned, Light!GreenIsEarned, SessionInv
  <2> QED
    BY <2>5, <2>7, <2>8, <2>9
<1>9. CASE Light!Verdict
  <2>1. /\ probePc = "verdict" /\ probePc' = "close"
        /\ UNCHANGED <<probe, given, words, got, light, session, cancelled>>
        /\ iso' = IF "datastore" \in given THEN iso ELSE "yellow"
        /\ checks' = [s \in Light!Rows |->
             IF probe = "test" /\ checks[s] = "none" THEN "skipped" ELSE checks[s]]
        /\ ok' = IF probe = "test"
             THEN \A s \in Light!Rows : checks'[s] # "failed"
             ELSE light \in {"green", "yellow"} /\ iso' \in {"green", "yellow"}
    BY <1>9 DEF Light!Verdict
  <2>2. Light!TypeOK'
    BY <2>1 DEF Light!TypeOK, Light!Lights, Light!Marks
  <2>3. SessionInv' /\ FoundInv' /\ AheadInv' /\ LightInv'
    BY <2>1 DEF SessionInv, NoSessionLeft, Light!NoSessionLeft, FoundInv, AheadInv, LightInv,
                GreenIsEarned, Light!GreenIsEarned
  <2>4. RowsInv'
    <3> SUFFICES ASSUME probe = "test", words = {}
                 PROVE  RowsInv'
      BY <2>1 DEF RowsInv
    <3>1. \A s \in Light!Rows : /\ checks'[s] = "ok" <=> checks[s] = "ok"
                                /\ checks'[s] = "failed" <=> checks[s] = "failed"
      BY <2>1
    <3>2. \A s \in {"endpoint", "login", "datacenter", "datastore", "folder"} : Agreed(s)
      BY <2>1 DEF RowsInv
    <3>3. \A s \in {"endpoint", "login", "datacenter", "datastore", "folder"} : Agreed(s)'
      BY <2>1, <3>1, <3>2 DEF Agreed, Light!Rows
    <3>4. checks'["iso"] = "failed" <=> got'["dir"] = "error"
      BY <2>1, <3>1 DEF RowsInv, Light!Rows
    <3>5. ok' <=> /\ got["folder"] \notin {"missing", "error"}
                  /\ got["dir"] # "error"
      BY <2>1, <3>3, <3>4 DEF Agreed, Light!Rows, FoundInv
    <3>6. ok' <=> /\ \A s \in {"endpoint", "login", "datacenter"} \cup given : got[s] = "ok"
                  /\ "datastore" \in given => got["dir"] \in {"ok", "missing"}
      <4>1. /\ given \subseteq {"datastore", "folder"}
            /\ got["folder"] \in {"none", "ok", "missing", "error"}
            /\ got["dir"] \in {"none", "ok", "missing", "error"}
        BY DEF Light!TypeOK, Light!Steps, Light!Outcomes
      <4>2. /\ \A s \in {"endpoint", "login", "datacenter"} : got[s] = "ok"
            /\ "datastore" \in given => got["datastore"] = "ok"
            /\ got["folder"] = "none" <=> "folder" \notin given
            /\ got["dir"] = "none" <=> "datastore" \notin given
        BY <2>1 DEF FoundInv
      <4> QED
        BY <3>5, <4>1, <4>2
    <3> QED
      BY <2>1, <3>3, <3>4, <3>6 DEF RowsInv
  <2> QED
    BY <2>2, <2>3, <2>4
<1>10. CASE Light!Close
  <2>1. /\ probePc = "close" /\ probePc' = "over" /\ session' = (session /\ cancelled)
        /\ UNCHANGED <<probe, given, words, got, checks, light, iso, ok, cancelled>>
    BY <1>10 DEF Light!Close, Light!LoggedOut
  <2>2. Light!TypeOK'
    BY <2>1 DEF Light!TypeOK
  <2>3. SessionInv' /\ FoundInv' /\ AheadInv' /\ RowsInv'
    BY <2>1 DEF SessionInv, NoSessionLeft, Light!NoSessionLeft, FoundInv, AheadInv, RowsInv, Agreed
  <2>4. LightInv'
    <3>1. given \subseteq {"datastore", "folder"}
      BY DEF Light!TypeOK
    <3> QED
      BY <2>1, <3>1 DEF LightInv, GreenIsEarned, Light!GreenIsEarned, Light!Found, FoundInv, SessionInv
  <2> QED
    BY <2>2, <2>3, <2>4
<1>11. CASE Light!Find \/ Light!Info \/ Light!Cdrom
  <2>1. /\ probePc \in {"find", "info", "cdrom"} /\ probe = "mapping"
        /\ UNCHANGED <<checks, iso, ok, session>>
    BY <1>11 DEF Light!Find, Light!Info, Light!Cdrom, SessionInv
  <2>2. PICK o \in {"ok", "missing", "error"}, next \in {"info", "cdrom", "over"} :
          /\ Light!Ends(o, next) /\ light' \in Light!Lights
          /\ next = "info" => probePc = "find" /\ o = "ok" /\ light' = light
          /\ next = "cdrom" => probePc = "info" /\ o = "ok"
          /\ next = "over" => (probePc = "cdrom" /\ light' = light) \/ light' \in {"red", "yellow"}
    BY <1>11 DEF Light!Find, Light!Info, Light!Cdrom, Light!Lights, Light!TypeOK
  <2>3. /\ got' \in [Light!Steps -> Light!Outcomes]
        /\ \A s \in Light!Steps : got'[s] = IF s = probePc THEN o ELSE got[s]
        /\ probePc' = next /\ UNCHANGED <<probe, given, words, cancelled>>
    BY <2>2, Ended DEF Light!Outcomes
  <2>4. Light!TypeOK'
    BY <2>1, <2>2, <2>3 DEF Light!TypeOK, Light!Steps
  <2>5. SessionInv' /\ AheadInv' /\ RowsInv'
    BY <2>1, <2>2, <2>3 DEF SessionInv, NoSessionLeft, Light!NoSessionLeft, AheadInv, RowsInv
  <2>6. \A s \in {"find", "info"} : got'[s] = IF s = probePc THEN o ELSE got[s]
    BY <2>3 DEF Light!Steps
  <2>7. FoundInv'
    BY <2>1, <2>2, <2>3, <2>6 DEF FoundInv
  <2>8. LightInv'
    BY <2>1, <2>2, <2>3, <2>6 DEF LightInv, GreenIsEarned, Light!GreenIsEarned, Light!Found, FoundInv
  <2> QED
    BY <2>4, <2>5, <2>7, <2>8
<1>12. CASE Light!Cancel
  <2>1. /\ cancelled' = TRUE
        /\ UNCHANGED <<probe, given, words, probePc, got, checks, light, iso, ok, session>>
    BY <1>12 DEF Light!Cancel
  <2>2. Light!TypeOK' /\ SessionInv' /\ FoundInv'
    BY <2>1 DEF Light!TypeOK, SessionInv, NoSessionLeft, Light!NoSessionLeft, FoundInv
  <2>3. AheadInv' /\ RowsInv' /\ LightInv'
    BY <2>1 DEF AheadInv, RowsInv, Agreed, LightInv, GreenIsEarned, Light!GreenIsEarned, Light!Found
  <2> QED
    BY <2>2, <2>3
<1>13. CASE UNCHANGED Light!vars
  <2>1. UNCHANGED <<probe, given, words, probePc, got, checks, light, iso, ok, session, cancelled>>
    BY <1>13 DEF Light!vars
  <2>2. Light!TypeOK' /\ SessionInv' /\ FoundInv'
    BY <2>1 DEF Light!TypeOK, SessionInv, NoSessionLeft, Light!NoSessionLeft, FoundInv
  <2>3. AheadInv' /\ RowsInv' /\ LightInv'
    BY <2>1 DEF AheadInv, RowsInv, Agreed, LightInv, GreenIsEarned, Light!GreenIsEarned, Light!Found
  <2> QED
    BY <2>2, <2>3
<1> HIDE DEF ProbeInv
<1> QED
  BY <1>1, <1>2, <1>3, <1>4, <1>5, <1>6, <1>7, <1>8, <1>9, <1>10, <1>11, <1>12, <1>13
     DEF Light!Next, Light!Over

\* So it holds in every state.
LEMMA AlwaysProbeInv == Spec => []ProbeInv
<1>1. Light!Init => ProbeInv
  <2> SUFFICES ASSUME Light!Init
               PROVE  ProbeInv
    OBVIOUS
  <2>1. Light!TypeOK
    BY DEF Light!Init, Light!TypeOK, Light!Kinds, Light!Outcomes, Light!Lights, Light!Marks
  <2>2. \A s \in {"endpoint", "login", "datacenter", "datastore", "folder", "dir"} : got[s] = "none"
    BY DEF Light!Init, Light!Steps
  <2>3. \A s \in {"endpoint", "login", "datacenter", "datastore", "folder", "iso"} : checks[s] = "none"
    BY DEF Light!Init, Light!Rows
  <2>4. SessionInv /\ FoundInv
    BY DEF Light!Init, SessionInv, NoSessionLeft, Light!NoSessionLeft, FoundInv, Ensuring, Made
  <2>5. AheadInv /\ RowsInv
    BY <2>2, <2>3 DEF Light!Init, AheadInv, RowsInv, Agreed
  <2>6. LightInv
    BY DEF Light!Init, LightInv, GreenIsEarned, Light!GreenIsEarned, Made
  <2> QED
    BY <2>1, <2>4, <2>5, <2>6 DEF ProbeInv
<1> QED
  BY <1>1, ProbeStep, LightPart, PTL DEF Light!Spec

\* NoSessionLeft: whichever step fails, a probe whose request was not cancelled has logged out.
THEOREM ProbesLogOut == Spec => []NoSessionLeft
<1> QED
  BY AlwaysProbeInv, PTL DEF ProbeInv, SessionInv

\* TestTellsTheTruth: the checklist of a connection test blames the step that failed
\* and passes exactly if all that is set was found.
THEOREM ChecklistIsTrue == Spec => []TestTellsTheTruth
<1>1. ProbeInv => TestTellsTheTruth
  BY DEF ProbeInv, RowsInv, Agreed, TestTellsTheTruth, Light!TestTellsTheTruth, Light!Found, Light!Rows
<1> QED
  BY <1>1, AlwaysProbeInv, PTL

\* GreenIsEarned: a green light promises that all behind it was found.
THEOREM GreenLightsAreEarned == Spec => []GreenIsEarned
<1> QED
  BY AlwaysProbeInv, PTL DEF ProbeInv, LightInv

-----------------------------------------------------------------------------
(***************************************************************************)
(* What modules of their own prove of tokens, VMs and the store:           *)
(* its steps are those of the part.                                        *)
(***************************************************************************)
LEMMA ReviewsAsProved == Spec => ReviewProofs!Spec
<1>1. Review!Init => ReviewProofs!Init
  BY DEF Review!Init, ReviewProofs!Init, Review!Standings, ReviewProofs!Standings
<1>2. ASSUME NEW r \in Requests
      PROVE  Review!Step(r) => ReviewProofs!Step(r)
  <2>1. Review!WhoAmI(r) => ReviewProofs!WhoAmI(r)
    BY DEF Review!WhoAmI, Review!Goto, ReviewProofs!WhoAmI, ReviewProofs!Goto
  <2>2. Review!Allowed(r) => ReviewProofs!Allowed(r)
    BY DEF Review!Allowed, Review!Goto, ReviewProofs!Allowed, ReviewProofs!Goto
  <2>3. Review!StoreAnswer(r) => ReviewProofs!StoreAnswer(r)
    BY DEF Review!StoreAnswer, Review!Goto, Review!Pruned, Review!Kept, Review!Cardinality,
           ReviewProofs!StoreAnswer, ReviewProofs!Goto, ReviewProofs!Pruned, ReviewProofs!Kept,
           ReviewProofs!Cardinality
  <2> QED
    BY <2>1, <2>2, <2>3 DEF Review!Step, ReviewProofs!Step
<1>3. ASSUME NEW r \in Requests, NEW t \in Tokens
      PROVE  Review!Present(r, t) => ReviewProofs!Present(r, t)
  BY DEF Review!Present, ReviewProofs!Present
<1>4. ASSUME NEW t \in Tokens
      PROVE  Review!Revoke(t) => ReviewProofs!Revoke(t)
  BY DEF Review!Revoke, Review!Standings, ReviewProofs!Revoke, ReviewProofs!Standings
<1>5. Review!Tick => ReviewProofs!Tick
  BY DEF Review!Tick, Review!TickUnlessDue, ReviewProofs!Tick, ReviewProofs!TickUnlessDue
<1>6. [Review!Next]_Review!vars => [ReviewProofs!Next]_ReviewProofs!vars
  BY <1>2, <1>3, <1>4, <1>5 DEF Review!vars, Review!Next, ReviewProofs!vars, ReviewProofs!Next
<1> QED
  BY <1>1, <1>6, ReviewPart, PTL DEF Review!Spec, ReviewProofs!Spec

LEMMA LookupsAsProved == Spec => LookupProofs!Spec
<1>1. Lookup!Init => LookupProofs!Init
  BY DEF Lookup!Init, LookupProofs!Init, Lookup!Places, LookupProofs!Places, Lookup!Fresh,
         LookupProofs!Fresh
<1>2. ASSUME NEW r \in Requests
      PROVE  Lookup!Step(r) => LookupProofs!Step(r)
  <2> USE DEF Lookup!vSphere, LookupProofs!vSphere, Lookup!Goto, LookupProofs!Goto,
              Lookup!Fails, LookupProofs!Fails, Lookup!Fresh, LookupProofs!Fresh,
              Lookup!Ended, LookupProofs!Ended, Lookup!Hit, LookupProofs!Hit
  <2>1. Lookup!Cached(r) => LookupProofs!Cached(r)
    BY DEF Lookup!Cached, LookupProofs!Cached
  <2>2. Lookup!Missed(r) => LookupProofs!Missed(r)
    BY DEF Lookup!Missed, LookupProofs!Missed
  <2>3. Lookup!Search(r) => LookupProofs!Search(r)
    BY DEF Lookup!Search, LookupProofs!Search
  <2>4. Lookup!CheckFolder(r) => LookupProofs!CheckFolder(r)
    BY DEF Lookup!CheckFolder, LookupProofs!CheckFolder
  <2>5. Lookup!ListFolder(r) => LookupProofs!ListFolder(r)
    BY DEF Lookup!ListFolder, LookupProofs!ListFolder
  <2>6. Lookup!Match(r) => LookupProofs!Match(r)
    BY DEF Lookup!Match, LookupProofs!Match
  <2>7. Lookup!Remember(r) => LookupProofs!Remember(r)
    BY DEF Lookup!Remember, LookupProofs!Remember
  <2> QED
    BY <2>1, <2>2, <2>3, <2>4, <2>5, <2>6, <2>7 DEF Lookup!Step, LookupProofs!Step
<1>3. ASSUME NEW v \in VMs
      PROVE  Lookup!Change(v) => LookupProofs!Change(v)
  BY DEF Lookup!Change, Lookup!Places, LookupProofs!Change, LookupProofs!Places
<1>4. Lookup!Grant => LookupProofs!Grant
  BY DEF Lookup!Grant, LookupProofs!Grant
<1>5. Lookup!Tick => LookupProofs!Tick
  BY DEF Lookup!Tick, Lookup!TickUnlessDue, Lookup!Ended, Lookup!vSphere,
         LookupProofs!Tick, LookupProofs!TickUnlessDue, LookupProofs!Ended, LookupProofs!vSphere
<1>6. [Lookup!Next]_Lookup!vars => [LookupProofs!Next]_LookupProofs!vars
  BY <1>2, <1>3, <1>4, <1>5 DEF Lookup!vars, Lookup!Next, LookupProofs!vars, LookupProofs!Next
<1> QED
  BY <1>1, <1>6, LookupPart, PTL DEF Lookup!Spec, LookupProofs!Spec

LEMMA StoreAsProved == Spec => StateProofs!Spec
<1> USE DEF State!Commit, StateProofs!Commit, State!Has, StateProofs!Has,
            State!Known, StateProofs!Known, State!SetVC, StateProofs!SetVC,
            State!Empty, StateProofs!Empty
<1>1. State!Init => StateProofs!Init
  BY DEF State!Init, StateProofs!Init
<1>2. State!Persist => StateProofs!Persist
  BY DEF State!Persist, State!WriteTmp, State!TmpWritten, State!Rename, State!Reply,
         State!PersistFails, StateProofs!Persist, StateProofs!WriteTmp, StateProofs!TmpWritten,
         StateProofs!Rename, StateProofs!Reply, StateProofs!PersistFails
<1>3. State!Open \/ State!Advance \/ State!Crash
        => StateProofs!Open \/ StateProofs!Advance \/ StateProofs!Crash
  BY DEF State!Open, State!Advance, State!Crash, StateProofs!Open, StateProofs!Advance,
         StateProofs!Crash
<1>4. State!Seed => StateProofs!Seed
  BY DEF State!Seed, State!SeedFromGOVC, StateProofs!Seed, StateProofs!SeedFromGOVC
<1>5. State!Sync => StateProofs!Sync
  <2>1. ASSUME NEW i \in Ids \cup {Nil}, NEW n \in Names, NEW c \in ConfigMaps,
               NEW o \in {"runtime", "gitops"}, NEW d \in BOOLEAN \cup {Nil},
               NEW pw \in Passwords \cup {Nil}
        PROVE  State!ApplyConfig(i, n, c, o, d, pw) => StateProofs!ApplyConfig(i, n, c, o, d, pw)
    BY DEF State!ApplyConfig, State!Targets, State!Matches, State!DryAfter,
           StateProofs!ApplyConfig, StateProofs!Targets, StateProofs!Matches, StateProofs!DryAfter
  <2>2. ASSUME NEW i \in Ids, NEW c \in ConfigMaps
        PROVE  State!SetVCenterConfigMap(i, c) => StateProofs!SetVCenterConfigMap(i, c)
    BY DEF State!SetVCenterConfigMap, StateProofs!SetVCenterConfigMap
  <2>3. ASSUME stage = "syncing",
               NEW i \in Ids \cup {Nil}, NEW n \in Names, NEW c \in ConfigMaps,
               NEW o \in {"runtime", "gitops"}, NEW d \in BOOLEAN \cup {Nil},
               NEW pw \in Passwords \cup {Nil}, State!ApplyConfig(i, n, c, o, d, pw)
        PROVE  StateProofs!Sync
    <3>1. StateProofs!ApplyConfig(i, n, c, o, d, pw)
      BY <2>1, <2>3
    <3> HIDE DEF StateProofs!ApplyConfig
    <3> QED
      BY <2>3, <3>1 DEF StateProofs!Sync
  <2>4. ASSUME stage \in {"syncing", "serving"}, NEW i \in Ids, NEW c \in ConfigMaps,
               State!SetVCenterConfigMap(i, c)
        PROVE  StateProofs!Sync
    BY <2>2, <2>4 DEF StateProofs!Sync
  <2> QED
    BY <2>3, <2>4 DEF State!Sync
<1>6. State!Serve => StateProofs!Serve
  <2>1. ASSUME NEW i \in Ids, NEW n \in Names, NEW pw \in Passwords \cup {Nil}, NEW on \in BOOLEAN
        PROVE  State!CreateVCenter(i, n, pw, on) \/ State!EditVCenter(i, n, pw)
                 => StateProofs!CreateVCenter(i, n, pw, on) \/ StateProofs!EditVCenter(i, n, pw)
    BY DEF State!CreateVCenter, State!EditVCenter, StateProofs!CreateVCenter,
           StateProofs!EditVCenter
  <2>2. ASSUME NEW i \in Ids, NEW on \in BOOLEAN
        PROVE  State!SetVCenterDryRun(i, on) \/ State!SetGlobalDryRun(on)
                 => StateProofs!SetVCenterDryRun(i, on) \/ StateProofs!SetGlobalDryRun(on)
    BY DEF State!SetVCenterDryRun, State!SetGlobalDryRun, StateProofs!SetVCenterDryRun,
           StateProofs!SetGlobalDryRun
  <2>3. ASSUME NEW u \in UUIDs, NEW i \in Ids
        PROVE  /\ State!DeleteVCenter(i) => StateProofs!DeleteVCenter(i)
               /\ State!UpsertMapping(u, i) => StateProofs!UpsertMapping(u, i)
    BY DEF State!DeleteVCenter, State!UpsertMapping, StateProofs!DeleteVCenter,
           StateProofs!UpsertMapping
  <2>4. ASSUME NEW i \in Ids
        PROVE  State!DeleteVCenter(i) => StateProofs!DeleteVCenter(i)
    BY DEF State!DeleteVCenter, StateProofs!DeleteVCenter
  <2>5. ASSUME NEW u \in UUIDs
        PROVE  State!DeleteMapping(u) => StateProofs!DeleteMapping(u)
    BY DEF State!DeleteMapping, StateProofs!DeleteMapping
  <2> HIDE DEF State!Commit, StateProofs!Commit
  <2> QED
    BY <2>1, <2>2, <2>3, <2>4, <2>5 DEF State!Serve, StateProofs!Serve
<1>7. [State!Next]_State!vars => [StateProofs!Next]_StateProofs!vars
  BY <1>2, <1>3, <1>4, <1>5, <1>6 DEF State!Next, State!vars, StateProofs!Next, StateProofs!vars
<1> QED
  BY <1>1, <1>7, StorePart, PTL DEF State!Spec, StateProofs!Spec

\* AcceptedWasAllowed: a bearer token is let through only if Kubernetes allowed it less
\* than Ttl before the request came, or since then.
THEOREM RevocationTakesHold == Spec => []AcceptedWasAllowed
<1>1. ReviewProofs!Spec => []ReviewProofs!AcceptedWasAllowed
  BY ExpiryAssumption, ReviewProofs!RevocationTakesHold
<1>2. ReviewProofs!AcceptedWasAllowed => AcceptedWasAllowed
  BY DEF ReviewProofs!AcceptedWasAllowed, ReviewProofs!AllowedSince,
         AcceptedWasAllowed, Review!AcceptedWasAllowed, Review!AllowedSince
<1> QED
  BY <1>1, <1>2, ReviewsAsProved, PTL

\* FoundVMWasInFolder: a VM found by UUID had it, and lay in the vCenter's folder, no
\* longer ago than the cache keeps it and one lookup takes.
THEOREM MovedVMsAreLetGo == Spec => []FoundVMWasInFolder
<1>1. LookupProofs!Spec => []LookupProofs!FoundVMWasInFolder
  BY ExpiryAssumption, CachesAssumption, LookupProofs!MovedVMsAreLetGo
<1>2. LookupProofs!FoundVMWasInFolder => FoundVMWasInFolder
  BY DEF LookupProofs!FoundVMWasInFolder, LookupProofs!MineSince, LookupProofs!InsideSince,
         FoundVMWasInFolder, Lookup!FoundVMWasInFolder, Lookup!MineSince, Lookup!InsideSince
<1> QED
  BY <1>1, <1>2, LookupsAsProved, PTL

\* ReferentialIntegrity: no operation, failure or crash leaves a mapping without its
\* vCenter, in memory or on the disk (DeleteVCenter and UpsertMapping of store.go).
THEOREM MappingsNeverDangle == Spec => []ReferentialIntegrity
<1>1. StateProofs!Spec => []StateProofs!ReferentialIntegrity
  BY StoreAssumption, FileAssumption, StateProofs!MappingsNeverDangle
     DEF VCenter, Stores, StateProofs!VCenter, StateProofs!Stores
<1>2. StateProofs!ReferentialIntegrity => ReferentialIntegrity
  BY DEF ReferentialIntegrity, State!ReferentialIntegrity, State!MappingsPointAtVCenters,
         State!Has, State!Known, StateProofs!ReferentialIntegrity,
         StateProofs!MappingsPointAtVCenters, StateProofs!Has, StateProofs!Known
<1> QED
  BY <1>1, <1>2, StoreAsProved, PTL

\* AlwaysLoadable: wherever the process dies, a restart can load state.json.
THEOREM StateNeverTorn == Spec => []AlwaysLoadable
<1>1. StateProofs!Spec => []StateProofs!AlwaysLoadable
  BY StoreAssumption, FileAssumption, StateProofs!StateNeverTorn
     DEF VCenter, Stores, StateProofs!VCenter, StateProofs!Stores
<1>2. StateProofs!AlwaysLoadable => AlwaysLoadable
  BY DEF AlwaysLoadable, State!AlwaysLoadable, StateProofs!AlwaysLoadable
<1> QED
  BY <1>1, <1>2, StoreAsProved, PTL

\* AckedIsDurable: a restart loads what the last successful caller was told was saved,
\* or that and the whole of an operation begun since.
THEOREM SavedSurvives == Spec => []AckedIsDurable
<1>1. StateProofs!Spec => []StateProofs!AckedIsDurable
  BY StoreAssumption, FileAssumption, StateProofs!SavedSurvives
     DEF VCenter, Stores, StateProofs!VCenter, StateProofs!Stores
<1>2. StateProofs!AckedIsDurable => AckedIsDurable
  BY DEF AckedIsDurable, State!AckedIsDurable, StateProofs!AckedIsDurable
<1> QED
  BY <1>1, <1>2, StoreAsProved, PTL

\* PasswordsAreKept: no step of a running gateway takes a password away and leaves
\* its vCenter.
THEOREM PasswordsStay == Spec => PasswordsAreKept
<1>1. StateProofs!Spec => StateProofs!PasswordsAreKept
  BY StoreAssumption, FileAssumption, StateProofs!PasswordsStay
     DEF VCenter, Stores, StateProofs!VCenter, StateProofs!Stores
<1>2. StateProofs!PasswordsAreKept => PasswordsAreKept
  BY DEF PasswordsAreKept, State!PasswordsAreKept, State!Known, State!Has, State!vars,
         StateProofs!PasswordsAreKept, StateProofs!Known, StateProofs!Has, StateProofs!vars
<1> QED
  BY <1>1, <1>2, StoreAsProved

-----------------------------------------------------------------------------
\* TypesOK: every part's variables keep their types.
THEOREM TypesCorrect == Spec => []TypesOK
<1>1. ReviewProofs!Spec => []ReviewProofs!TypeOK
  BY ExpiryAssumption, ReviewProofs!TypeCorrect
<1>2. LookupProofs!Spec => []LookupProofs!TypeOK
  BY ExpiryAssumption, CachesAssumption, LookupProofs!TypeCorrect
<1>3. ReviewProofs!TypeOK => Review!TypeOK
  BY DEF ReviewProofs!TypeOK, Review!TypeOK, ReviewProofs!Standings, Review!Standings,
         ReviewProofs!Labels, Review!Labels
<1>4. LookupProofs!TypeOK => Lookup!TypeOK
  BY DEF LookupProofs!TypeOK, Lookup!TypeOK, LookupProofs!Places, Lookup!Places,
         LookupProofs!Entries, Lookup!Entries, LookupProofs!Calls, Lookup!Calls,
         LookupProofs!Labels, Lookup!Labels, LookupProofs!Ended, Lookup!Ended
<1>5. StateProofs!Spec => []StateProofs!TypeOK
  BY StoreAssumption, FileAssumption, StateProofs!TypeCorrect
     DEF VCenter, Stores, StateProofs!VCenter, StateProofs!Stores
<1>6. StateProofs!TypeOK => State!TypeOK
  BY DEF StateProofs!TypeOK, State!TypeOK, StateProofs!Stores, State!Stores,
         StateProofs!VCenter, State!VCenter
<1>7. /\ Review!TypeOK /\ Lookup!TypeOK /\ BusInv /\ SecretInv /\ IsoInv /\ ProbeInv
      /\ State!TypeOK
   => TypesOK
  BY DEF BusInv, SecretInv, IsoInv, ProbeInv, TypesOK
<1> QED
  BY <1>1, <1>2, <1>3, <1>4, <1>5, <1>6, <1>7, ReviewsAsProved, LookupsAsProved, StoreAsProved,
     AlwaysBusInv, AlwaysSecretInv, AlwaysIsoInv, AlwaysProbeInv, PTL
=============================================================================
