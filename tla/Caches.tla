-------------------------------- MODULE Caches --------------------------------
(***************************************************************************)
(* What the gateway keeps, for a while or on disk, and what it only asks:  *)
(* seven parts that share no state, each an instance of its own.  part     *)
(* says which one a behaviour is about; the others rest in one initial     *)
(* state.  So a property of one part is one of the whole, and TLC's states *)
(* are those of the parts one after the other.                             *)
(***************************************************************************)
EXTENDS Expiry, StoreState

CONSTANTS
  Requests, None,
  Tokens, CacheLimit,
  Clients, Admin, SharedRedfish, SharedPassword,
  VMs, LookupTtl, LookupTime,
  Emitters, Channels, Watched, Cap, PollLimit, Slots, MaxEvents,
  Downloads, Chunks, MaxRestarts

\* The shared account has no file of its own (readClientsDir passes it over).
ASSUME CachesAssumption ==
  /\ None \notin Passwords
  /\ Admin \notin Clients
  /\ LookupTtl \in Nat \ {0} /\ LookupTime \in Nat
  /\ Cap \in Nat \ {0} /\ PollLimit \in Nat \ {0} /\ MaxEvents \in Nat
  /\ IsFiniteSet(Downloads) /\ None \notin 1 .. Cardinality(Downloads)
  /\ Chunks \in Nat /\ MaxRestarts \in Nat

VARIABLES
  part,
  standing, lastGood, tokens, review,
  secretNow, mounted, since, heldUntil, loaded, loadedAt, failed, begun, todo, buffer, login,
  lookupNow, place, mine, maySearch, mayPath, insideUntil, mineUntil, uuids, searchDenied, lookup,
  seq, drawn, ring, lastId, pane, asked, greatest, overtaken, older, lost,
  data, used, tmp, dest, loadPc, fd, offset, object, overlap, restarts,
  probe, given, words, probePc, got, checks, light, iso, ok, session, cancelled,
  mem, disk, storeTmp, stage, phase, saved, changes

Review == INSTANCE TokenReview WITH Callers <- Requests, cache <- tokens, call <- review

Secret == INSTANCE RedfishClients WITH
  now <- secretNow, Shared <- Admin, NoPassword <- None, Callers <- Requests, call <- login

Lookup == INSTANCE VMLookup WITH
  Ttl <- LookupTtl, MaxTime <- LookupTime, now <- lookupNow, NoVM <- None,
  Callers <- Requests, cache <- uuids, call <- lookup

Bus == INSTANCE ActivityBus

Iso == INSTANCE IsoDownload WITH Callers <- Downloads, NoFile <- None, pc <- loadPc

Light == INSTANCE Probe WITH kind <- probe, pc <- probePc

State == INSTANCE Store WITH tmp <- storeTmp

reviewVars == <<now, standing, lastGood, tokens, review>>
secretVars == <<secretNow, mounted, since, heldUntil, loaded, loadedAt, failed, begun, todo,
                buffer, login>>
lookupVars == <<lookupNow, place, mine, maySearch, mayPath, insideUntil, mineUntil, uuids,
                searchDenied, lookup>>
busVars    == <<seq, drawn, ring, lastId, pane, asked, greatest, overtaken, older, lost>>
isoVars    == <<data, used, tmp, dest, loadPc, fd, offset, object, overlap, restarts>>
probeVars  == <<probe, given, words, probePc, got, checks, light, iso, ok, session, cancelled>>
storeVars  == <<mem, disk, storeTmp, stage, phase, saved, changes>>
vars       == <<part, reviewVars, secretVars, lookupVars, busVars, isoVars, probeVars, storeVars>>

\* A part with a choice of initial states takes this one while it rests.
Init ==
  /\ part \in {"tokens", "clients", "lookup", "activity", "download", "probe", "store"}
  /\ Review!Init /\ Secret!Init /\ Lookup!Init /\ Bus!Init /\ Iso!Init /\ Light!Init
  /\ State!Init
  /\ part # "tokens"  => standing = [t \in Tokens |-> "unknown"]
  /\ part # "clients" => mounted = [c \in Clients |-> None]
  /\ part # "lookup"  => /\ place = [v \in VMs |-> "top"] /\ mine = [v \in VMs |-> TRUE]
                         /\ maySearch /\ mayPath
  /\ part # "probe"   => probe = "test" /\ given = {} /\ words = {}

Next ==
  /\ \/ /\ part = "tokens" /\ Review!Next
        /\ UNCHANGED <<secretVars, lookupVars, busVars, isoVars, probeVars, storeVars>>
     \/ /\ part = "clients" /\ Secret!Next
        /\ UNCHANGED <<reviewVars, lookupVars, busVars, isoVars, probeVars, storeVars>>
     \/ /\ part = "lookup" /\ Lookup!Next
        /\ UNCHANGED <<reviewVars, secretVars, busVars, isoVars, probeVars, storeVars>>
     \/ /\ part = "activity" /\ Bus!Next
        /\ UNCHANGED <<reviewVars, secretVars, lookupVars, isoVars, probeVars, storeVars>>
     \/ /\ part = "download" /\ Iso!Next
        /\ UNCHANGED <<reviewVars, secretVars, lookupVars, busVars, probeVars, storeVars>>
     \/ /\ part = "probe" /\ Light!Next
        /\ UNCHANGED <<reviewVars, secretVars, lookupVars, busVars, isoVars, storeVars>>
     \/ /\ part = "store" /\ State!Next
        /\ UNCHANGED <<reviewVars, secretVars, lookupVars, busVars, isoVars, probeVars>>
  /\ UNCHANGED part

Spec == Init /\ [][Next]_vars
-----------------------------------------------------------------------------
(***************************************************************************)
(* Properties.                                                             *)
(***************************************************************************)
\* Every part's variables have their types.
TypesOK ==
  /\ Review!TypeOK /\ Secret!TypeOK /\ Lookup!TypeOK
  /\ Bus!TypeOK /\ Iso!TypeOK /\ Light!TypeOK /\ State!TypeOK

\* The parts' properties, stated there.
AcceptedWasAllowed   == Review!AcceptedWasAllowed
VerdictFollowsSecret == Secret!VerdictFollowsSecret
FoundVMWasInFolder   == Lookup!FoundVMWasInFolder
PollsMissNothing     == Bus!PollsMissNothing
NeverRenderedTwice   == Bus!NeverRenderedTwice
CachedWhole          == Iso!CachedWhole
NoSessionLeft        == Light!NoSessionLeft
TestTellsTheTruth    == Light!TestTellsTheTruth
GreenIsEarned        == Light!GreenIsEarned
ReferentialIntegrity == State!ReferentialIntegrity
AlwaysLoadable       == State!AlwaysLoadable
AckedIsDurable       == State!AckedIsDurable
PasswordsAreKept     == State!PasswordsAreKept
=============================================================================
