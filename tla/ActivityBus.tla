----------------------------- MODULE ActivityBus -----------------------------
(***************************************************************************)
(* The activity ring of internal/activity/bus.go and a page of the UI that *)
(* follows one channel of it.  Goroutines emit events: an event draws its  *)
(* id from an atomic counter and is put into the ring under a lock, in two *)
(* steps, so the ring need not be sorted by id.  The page asks for the     *)
(* newest events (a full reload) or polls for those after the last id it   *)
(* has handled; requests overlap, and answers are handled in any order.    *)
(*                                                                         *)
(* Abstractions: an event is its id and channel; a line of the pane is the *)
(* id it shows; the gateway does not restart (the ids would begin again).  *)
(***************************************************************************)
EXTENDS Naturals, Sequences, FiniteSets

CONSTANTS
  Emitters,   \* goroutines
  Channels,
  Watched,    \* the channel the page follows
  Cap,        \* size of the ring; 500 in the code, at least 4
  PollLimit,  \* the page's limit for one answer; 200 for a full one, else 100
  Slots,      \* requests the page may have under way
  MaxEvents   \* where the model stops emitting

VARIABLES
  seq,      \* the id counter
  drawn,    \* the event each emitter has not put into the ring yet; id 0 for none
  ring,
  lastId,   \* the page: activityLastId of the channel
  pane,     \* the page: the ids it shows
  asked,    \* the page's requests: after is read when one is sent; ids, by place
            \* in the ring, and older, the ids the limit cut off, when it is answered
  greatest, \* history: the greatest id put into the ring so far
  overtaken,\* history: ids put into the ring after a greater one
  older,    \* history: ids older than what the page opened with
  lost      \* history: ids that went from the page, or that it jumped over,
            \* because a full reload failed, was empty, or met a poll under way

busVars  == <<seq, drawn, ring, greatest, overtaken>>
pageVars == <<lastId, pane, older, lost>>
vars     == <<busVars, pageVars, asked>>

IdSet   == 1 .. MaxEvents
Events  == [id : IdSet, ch : Channels]
NoEvent == [id |-> 0, ch |-> Watched]

Asks == [at : {"idle", "sent", "answered"}, full : BOOLEAN, after : 0 .. MaxEvents,
         ids : UNION {[places -> IdSet] : places \in SUBSET (1 .. Cap)},
         older : SUBSET IdSet]
Idle == [at |-> "idle", full |-> FALSE, after |-> 0, ids |-> [j \in {} |-> 0], older |-> {}]

TypeOK ==
  /\ seq \in 0 .. MaxEvents
  /\ drawn \in [Emitters -> Events \cup {NoEvent}]
  /\ ring \in Seq(Events) /\ Len(ring) <= Cap
  /\ lastId \in 0 .. MaxEvents
  /\ asked \in [Slots -> Asks]
  /\ pane \in SUBSET IdSet /\ older \in SUBSET IdSet /\ lost \in SUBSET IdSet
  /\ greatest \in 0 .. MaxEvents
  /\ overtaken \in SUBSET IdSet

Init ==
  /\ seq = 0
  /\ drawn = [g \in Emitters |-> NoEvent]
  /\ ring = <<>>
  /\ lastId = 0
  /\ asked = [q \in Slots |-> Idle]
  /\ pane = {} /\ older = {} /\ lost = {}
  /\ greatest = 0
  /\ overtaken = {}

-----------------------------------------------------------------------------
\* Emit draws the id ...
Draw(g) ==
  /\ drawn[g] = NoEvent
  /\ seq < MaxEvents
  /\ seq' = seq + 1
  /\ \E ch \in Channels : drawn' = [drawn EXCEPT ![g] = [id |-> seq + 1, ch |-> ch]]
  /\ UNCHANGED <<ring, greatest, overtaken, pageVars, asked>>

\* The event an emitter has drawn is the latest in the ring.
Latest(e) ==
  /\ greatest' = IF e.id < greatest THEN greatest ELSE e.id
  /\ overtaken' = IF e.id < greatest THEN overtaken \cup {e.id} ELSE overtaken

\* Mutant: a full ring goes on growing.
Put_Grows(g) ==
  /\ drawn[g] # NoEvent
  /\ ring' = Append(ring, drawn[g])
  /\ Latest(drawn[g])
  /\ drawn' = [drawn EXCEPT ![g] = NoEvent]
  /\ UNCHANGED <<seq, pageVars, asked>>

\* ... and puts the event at the end of the ring, whose oldest one falls out.
Put(g) ==
  /\ drawn[g] # NoEvent
  /\ ring' = Append(IF Len(ring) >= Cap THEN Tail(ring) ELSE ring, drawn[g])
  /\ Latest(drawn[g])
  /\ drawn' = [drawn EXCEPT ![g] = NoEvent]
  /\ UNCHANGED <<seq, pageVars, asked>>

\* Answers are sets of places in the ring: those of the page's channel after an
\* id, of which the oldest or the newest fit in.
Matching(after)   == {j \in DOMAIN ring : ring[j].id > after /\ ring[j].ch = Watched}
Oldest(n, places) == {j \in places : Cardinality({k \in places : k <= j}) <= n}
Newest(n, places) == {j \in places : Cardinality({k \in places : k >= j}) <= n}

\* Mutant: the newest events of a long answer, instead of the oldest.
Since_Newest(after, limit) == Newest(limit, Matching(after))

\* Since: in the order of the ring, cut off at the limit.
Since(after, limit) == Oldest(limit, Matching(after))

\* Snapshot: the newest of the channel.
Snapshot(limit) == Newest(limit, Matching(0))

-----------------------------------------------------------------------------
\* refreshActivity sends a request: for the newest events, or for those after lastId.
Ask(q, full) ==
  /\ asked[q].at = "idle"
  /\ asked' = [asked EXCEPT ![q] =
       [Idle EXCEPT !.at = "sent", !.full = full, !.after = IF full THEN 0 ELSE lastId]]
  /\ UNCHANGED <<busVars, pageVars>>

\* The API answers: with the newest events also when nothing was handled yet.
Answer(q) ==
  /\ asked[q].at = "sent"
  /\ LET newest == asked[q].after = 0
         places == IF newest THEN Snapshot(PollLimit) ELSE Since(asked[q].after, PollLimit)
     IN  asked' = [asked EXCEPT
           ![q].at    = "answered",
           ![q].ids   = [j \in places |-> ring[j].id],
           ![q].older = IF newest THEN {ring[j].id : j \in Matching(0) \ places} ELSE {}]
  /\ UNCHANGED <<busVars, pageVars>>

\* Mutant: an answer is rendered as it came.
Fresh_All(q) == DOMAIN asked[q].ids

\* What of an answer is rendered: of a poll's, what lies after lastId by now.
Fresh(q) == {j \in DOMAIN asked[q].ids : asked[q].full \/ asked[q].ids[j] > lastId}

FreshIds(q) == {asked[q].ids[j] : j \in Fresh(q)}

\* A full reload that brings nothing, or fails, empties the pane.
Wipe ==
  /\ pane' = {}
  /\ lost' = lost \cup pane
  /\ UNCHANGED <<lastId, older>>

\* A full reload replaces the pane, a poll adds to it; the page goes on from the
\* last event.  A poll was sent from its after: what lies before it does not come.
Show(q) ==
  /\ \E j \in Fresh(q) : (\A k \in Fresh(q) : k <= j) /\ lastId' = asked[q].ids[j]
  /\ IF asked[q].full
     THEN pane' = FreshIds(q) /\ older' = asked[q].older /\ lost' = {}
     ELSE /\ pane' = pane \cup FreshIds(q)
          /\ older' = older \cup asked[q].older
          /\ lost' = lost \cup (lastId + 1 .. asked[q].after)

Handle(q) ==
  /\ asked[q].at = "answered"
  /\ \/ Fresh(q) # {} /\ Show(q)
     \/ Fresh(q) = {} /\ asked[q].full /\ Wipe
     \/ Fresh(q) = {} /\ ~asked[q].full /\ UNCHANGED pageVars
  /\ asked' = [asked EXCEPT ![q] = Idle]
  /\ UNCHANGED busVars

\* A request fails, before or after the API answered it.
Fail(q) ==
  /\ asked[q].at # "idle"
  /\ IF asked[q].full THEN Wipe ELSE UNCHANGED pageVars
  /\ asked' = [asked EXCEPT ![q] = Idle]
  /\ UNCHANGED busVars

Next ==
  \/ \E g \in Emitters : Draw(g) \/ Put(g)
  \/ \E q \in Slots :
       \/ \E full \in BOOLEAN : Ask(q, full)
       \/ Answer(q) \/ Handle(q) \/ Fail(q)

Spec == Init /\ [][Next]_vars
-----------------------------------------------------------------------------
(***************************************************************************)
(* Properties.                                                             *)
(***************************************************************************)
\* However many events come between two polls, and however requests overlap, an
\* event of the channel that is still in the ring and that no later poll asks
\* for is on the page, with three exceptions the code has: it was older than
\* what the page opened with; a greater id overtook it on its way into the ring;
\* or a full reload failed, or was handled between a poll's request and answer.
PollsMissNothing ==
  \A j \in DOMAIN ring :
    ring[j].ch = Watched /\ ring[j].id <= lastId => ring[j].id \in pane \cup older \cup overtaken \cup lost

\* "never render an id twice" (app.js:239): what an answer on its way would add to
\* the pane is not there yet, whichever requests overlapped, unless a smaller id
\* on the page was overtaken on its way into the ring: then lastId fell back to it.
NeverRenderedTwice ==
  \A q \in Slots : \A id \in FreshIds(q) :
    ~asked[q].full /\ id \in pane => \E o \in overtaken \cap pane : o < id
=============================================================================
