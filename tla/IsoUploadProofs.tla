-------------------------- MODULE IsoUploadProofs --------------------------
(***************************************************************************)
(* Proofs about IsoUpload, for any requests, clients, paths and bounds.    *)
(* The inductive invariant says who owns what: a request in the serial     *)
(* section holds its client's lock, a leading request is the one listed,   *)
(* an open call has a leader on its way to close it, and while a request   *)
(* is between its second look and its return nobody else writes or         *)
(* reports a path its client alone is in charge of.                        *)
(* With what a closed call says, it also carries the refinement of         *)
(* SingleFlight.                                                           *)
(***************************************************************************)
EXTENDS IsoUploadRefinement, TLAPS

\* From the second look that found the path free to the return.
Writing == {"prepare", "confirm", "backoff"} \cup PutLabels

SerialInv == \A r \in Reqs : pc[r] \in Section => serial[ClientOf[r]] = r

FlightInv ==
  /\ \A r \in Reqs : pc[r] \in Leading => flight[Key(r)] = r
  /\ \A k \in Keys : flight[k] # NoReq => pc[flight[k]] \in Leading /\ Key(flight[k]) = k

CallInv ==
  \A r \in Reqs :
    /\ pc[r] \in Open => call[r] = "open"
    /\ call[r] = "open" => pc[r] \in Open \cup {"dead"}

WaitInv ==
  \A r \in Reqs : pc[r] = "wait" =>
    /\ waitsOn[r] \in Reqs
    /\ PathOf[waitsOn[r]] = PathOf[r]
    /\ pc[waitsOn[r]] # "dead"

AttemptInv ==
  \A r \in Reqs :
    /\ pc[r] \in Writing \ {"prepare"} => attempt[r] >= 1
    /\ pc[r] = "backoff" => attempt[r] < MaxAttempts

\* A leader never waits: who waited was told by a leader that panicked.
Misled(r) == pc[r] = "done" /\ waitsOn[r] # NoReq /\ outcome[waitsOn[r]] = "panicked"

\* What a request that has returned, or is about to, found or left.
PresentInv ==
  \A r \in Reqs :
    /\ pc[r] \in {"land", "forget", "done"} =>
         outcome[r] \in {"failed", "panicked"} \/ Exists(PathOf[r]) \/ Misled(r)
    /\ call[r] = "ok" => Exists(PathOf[r]) \/ outcome[r] = "panicked"
    /\ outcome[r] # "none" => pc[r] \in {"land", "forget", "done", "dead"}

WriterInv ==
  \A r \in Reqs : Exclusive(PathOf[r]) =>
    /\ pc[r] \in Writing =>
         \A s \in Reqs : PathOf[s] = PathOf[r] => outcome[s] # "uploaded"
    /\ pc[r] = "confirm" => ds[PathOf[r]] = "full"

IInv ==
  /\ TypeOK /\ SerialInv /\ FlightInv /\ CallInv /\ WaitInv /\ AttemptInv
  /\ PresentInv /\ FirstPutFindsPathFree /\ WriterInv /\ UploadedStaysWhole

\* Every step keeps the types; the retry limit is what keeps attempt in range.
LEMMA TypeStep ==
  TypeOK /\ AttemptInv /\ [Next]_vars => TypeOK'
<1> SUFFICES ASSUME TypeOK /\ AttemptInv, [Next]_vars PROVE TypeOK'
  OBVIOUS
<1> USE IsoUploadAssumption DEF TypeOK, AttemptInv, Writing, Labels, Leading, Open, Section,
      PutLabels, Ended, Contents, Outcomes, Sessions, Keys, Key
<1>1. ASSUME NEW r \in Reqs, Arrive(r) PROVE TypeOK'
  BY <1>1 DEF Arrive, Ensure, Goto
<1>2. ASSUME NEW r \in Reqs, Stat(r) PROVE TypeOK'
  BY <1>2 DEF Stat, Ensure, Return, Goto
<1>3. ASSUME NEW r \in Reqs, Join(r) PROVE TypeOK'
  BY <1>3 DEF Join, Goto
<1>4. ASSUME NEW r \in Reqs, Lead(r) PROVE TypeOK'
  BY <1>4 DEF Lead, Goto
<1>5. ASSUME NEW r \in Reqs, Await(r) PROVE TypeOK'
  BY <1>5 DEF Await, Return, Goto
<1>6. ASSUME NEW r \in Reqs, Acquire(r) PROVE TypeOK'
  BY <1>6 DEF Acquire, Goto
<1>7. ASSUME NEW r \in Reqs, Recheck(r) PROVE TypeOK'
  BY <1>7 DEF Recheck, Ensure, Unwind, Goto
<1>8. ASSUME NEW r \in Reqs, Prepare(r) PROVE TypeOK'
  BY <1>8 DEF Prepare, Ensure, Unwind, Goto
<1>9. ASSUME NEW r \in Reqs, PutBytes(r) PROVE TypeOK'
  BY <1>9 DEF PutBytes, Goto
<1>10. ASSUME NEW r \in Reqs, PutAcked(r) PROVE TypeOK'
  BY <1>10 DEF PutAcked, Goto
<1>11. ASSUME NEW r \in Reqs, HostPutFails(r) PROVE TypeOK'
  BY <1>11 DEF HostPutFails, LeftBehind, Goto
<1>12. ASSUME NEW r \in Reqs, AttemptFails(r) PROVE TypeOK'
  BY <1>12 DEF AttemptFails, LeftBehind, Unwind, Goto
<1>13. ASSUME NEW r \in Reqs, Confirm(r) PROVE TypeOK'
  BY <1>13 DEF Confirm, Ensure, Unwind, Goto
<1>14. ASSUME NEW r \in Reqs, Backoff(r) PROVE TypeOK'
  <2>1. attempt[r] + 1 \in 0..MaxAttempts
    BY <1>14 DEF Backoff
  <2>2. attempt' \in [Reqs -> 0..MaxAttempts]
    BY <1>14, <2>1 DEF Backoff
  <2>3. pc' \in [Reqs -> Labels] /\ serial' \in [Clients -> Reqs \cup {NoReq}]
        /\ outcome' \in [Reqs -> Outcomes]
    BY <1>14 DEF Backoff, Unwind, Goto
  <2> QED
    BY <1>14, <2>2, <2>3 DEF Backoff
<1>15. ASSUME NEW r \in Reqs, Land(r) PROVE TypeOK'
  BY <1>15 DEF Land, Goto
<1>16. ASSUME NEW r \in Reqs, Forget(r) PROVE TypeOK'
  BY <1>16 DEF Forget, Goto
<1>17. ASSUME NEW r \in Reqs, Cancel(r) PROVE TypeOK'
  BY <1>17 DEF Active, Cancel
<1>18. CASE Crash
  BY <1>18 DEF Active, Crash
<1>19. CASE UNCHANGED vars
  BY <1>19 DEF vars
<1>20. ASSUME NEW r \in Reqs, Break(r) PROVE TypeOK'
  BY <1>20 DEF Break, Touches, Return, Unwind, Goto
<1>21. ASSUME NEW c \in Clients, Close(c) PROVE TypeOK'
  BY <1>21 DEF Close
<1> QED
  BY <1>1, <1>2, <1>3, <1>4, <1>5, <1>6, <1>7, <1>8, <1>9, <1>10, <1>11, <1>12, <1>13, <1>14,
     <1>15, <1>16, <1>17, <1>18, <1>19, <1>20, <1>21 DEF Next, Step, AllReturned

\* Attempts count from one, and a backoff is never past the limit.
LEMMA AttemptStep ==
  TypeOK /\ AttemptInv /\ [Next]_vars => AttemptInv'
<1> SUFFICES ASSUME TypeOK /\ AttemptInv, [Next]_vars PROVE AttemptInv'
  OBVIOUS
<1> USE IsoUploadAssumption DEF TypeOK, AttemptInv, Writing, Labels, Leading, Open, Section,
      PutLabels, Ended, Contents, Outcomes, Keys, Key
<1>1. ASSUME NEW r \in Reqs, Arrive(r) PROVE AttemptInv'
  BY <1>1 DEF Arrive, Goto
<1>2. ASSUME NEW r \in Reqs, Stat(r) PROVE AttemptInv'
  BY <1>2 DEF Stat, Return, Goto
<1>3. ASSUME NEW r \in Reqs, Join(r) PROVE AttemptInv'
  BY <1>3 DEF Join, Goto
<1>4. ASSUME NEW r \in Reqs, Lead(r) PROVE AttemptInv'
  BY <1>4 DEF Lead, Goto
<1>5. ASSUME NEW r \in Reqs, Await(r) PROVE AttemptInv'
  BY <1>5 DEF Await, Return, Goto
<1>6. ASSUME NEW r \in Reqs, Acquire(r) PROVE AttemptInv'
  BY <1>6 DEF Acquire, Goto
<1>7. ASSUME NEW r \in Reqs, Recheck(r) PROVE AttemptInv'
  BY <1>7 DEF Recheck, Unwind, Goto
<1>8. ASSUME NEW r \in Reqs, Prepare(r) PROVE AttemptInv'
  BY <1>8 DEF Prepare, Unwind, Goto
<1>9. ASSUME NEW r \in Reqs, PutBytes(r) PROVE AttemptInv'
  BY <1>9 DEF PutBytes, Goto
<1>10. ASSUME NEW r \in Reqs, PutAcked(r) PROVE AttemptInv'
  BY <1>10 DEF PutAcked, Goto
<1>11. ASSUME NEW r \in Reqs, HostPutFails(r) PROVE AttemptInv'
  BY <1>11 DEF HostPutFails, LeftBehind, Goto
<1>12. ASSUME NEW r \in Reqs, AttemptFails(r) PROVE AttemptInv'
  BY <1>12 DEF AttemptFails, LeftBehind, Unwind, Goto
<1>13. ASSUME NEW r \in Reqs, Confirm(r) PROVE AttemptInv'
  BY <1>13 DEF Confirm, Unwind, Goto
<1>14. ASSUME NEW r \in Reqs, Backoff(r) PROVE AttemptInv'
  BY <1>14 DEF Backoff, Unwind, Goto
<1>15. ASSUME NEW r \in Reqs, Land(r) PROVE AttemptInv'
  BY <1>15 DEF Land, Goto
<1>16. ASSUME NEW r \in Reqs, Forget(r) PROVE AttemptInv'
  BY <1>16 DEF Forget, Goto
<1>17. ASSUME NEW r \in Reqs, Cancel(r) PROVE AttemptInv'
  BY <1>17 DEF Active, Cancel
<1>18. CASE Crash
  BY <1>18 DEF Active, Crash
<1>19. CASE UNCHANGED vars
  BY <1>19 DEF vars
<1>20. ASSUME NEW r \in Reqs, Break(r) PROVE AttemptInv'
  BY <1>20 DEF Break, Touches, Return, Unwind, Goto
<1>21. ASSUME NEW c \in Clients, Close(c) PROVE AttemptInv'
  BY <1>21 DEF Close
<1> QED
  BY <1>1, <1>2, <1>3, <1>4, <1>5, <1>6, <1>7, <1>8, <1>9, <1>10, <1>11, <1>12, <1>13, <1>14,
     <1>15, <1>16, <1>17, <1>18, <1>19, <1>20, <1>21 DEF Next, Step, AllReturned

\* Whoever is in the serial section holds the lock of its client.
LEMMA SerialStep ==
  TypeOK /\ SerialInv /\ [Next]_vars => SerialInv'
<1> SUFFICES ASSUME TypeOK /\ SerialInv, [Next]_vars PROVE SerialInv'
  OBVIOUS
<1> USE IsoUploadAssumption DEF TypeOK, SerialInv, Labels, Leading, Open, Section, PutLabels,
      Ended, Contents, Outcomes, Keys, Key
<1>1. ASSUME NEW r \in Reqs, Arrive(r) PROVE SerialInv'
  BY <1>1 DEF Arrive, Goto
<1>2. ASSUME NEW r \in Reqs, Stat(r) PROVE SerialInv'
  BY <1>2 DEF Stat, Return, Goto
<1>3. ASSUME NEW r \in Reqs, Join(r) PROVE SerialInv'
  BY <1>3 DEF Join, Goto
<1>4. ASSUME NEW r \in Reqs, Lead(r) PROVE SerialInv'
  BY <1>4 DEF Lead, Goto
<1>5. ASSUME NEW r \in Reqs, Await(r) PROVE SerialInv'
  BY <1>5 DEF Await, Return, Goto
<1>6. ASSUME NEW r \in Reqs, Acquire(r) PROVE SerialInv'
  BY <1>6 DEF Acquire, Goto
<1>7. ASSUME NEW r \in Reqs, Recheck(r) PROVE SerialInv'
  BY <1>7 DEF Recheck, Unwind, Goto
<1>8. ASSUME NEW r \in Reqs, Prepare(r) PROVE SerialInv'
  BY <1>8 DEF Prepare, Unwind, Goto
<1>9. ASSUME NEW r \in Reqs, PutBytes(r) PROVE SerialInv'
  BY <1>9 DEF PutBytes, Goto
<1>10. ASSUME NEW r \in Reqs, PutAcked(r) PROVE SerialInv'
  BY <1>10 DEF PutAcked, Goto
<1>11. ASSUME NEW r \in Reqs, HostPutFails(r) PROVE SerialInv'
  BY <1>11 DEF HostPutFails, LeftBehind, Goto
<1>12. ASSUME NEW r \in Reqs, AttemptFails(r) PROVE SerialInv'
  BY <1>12 DEF AttemptFails, LeftBehind, Unwind, Goto
<1>13. ASSUME NEW r \in Reqs, Confirm(r) PROVE SerialInv'
  BY <1>13 DEF Confirm, Unwind, Goto
<1>14. ASSUME NEW r \in Reqs, Backoff(r) PROVE SerialInv'
  BY <1>14 DEF Backoff, Unwind, Goto
<1>15. ASSUME NEW r \in Reqs, Land(r) PROVE SerialInv'
  BY <1>15 DEF Land, Goto
<1>16. ASSUME NEW r \in Reqs, Forget(r) PROVE SerialInv'
  BY <1>16 DEF Forget, Goto
<1>17. ASSUME NEW r \in Reqs, Cancel(r) PROVE SerialInv'
  BY <1>17 DEF Active, Cancel
<1>18. CASE Crash
  BY <1>18 DEF Active, Crash
<1>19. CASE UNCHANGED vars
  BY <1>19 DEF vars
<1>20. ASSUME NEW r \in Reqs, Break(r) PROVE SerialInv'
  BY <1>20 DEF Break, Touches, Return, Unwind, Goto
<1>21. ASSUME NEW c \in Clients, Close(c) PROVE SerialInv'
  BY <1>21 DEF Close
<1> QED
  BY <1>1, <1>2, <1>3, <1>4, <1>5, <1>6, <1>7, <1>8, <1>9, <1>10, <1>11, <1>12, <1>13, <1>14,
     <1>15, <1>16, <1>17, <1>18, <1>19, <1>20, <1>21 DEF Next, Step, AllReturned

\* Whoever leads is the one the table lists under its key, and conversely.
LEMMA FlightStep ==
  TypeOK /\ FlightInv /\ [Next]_vars => FlightInv'
<1> SUFFICES ASSUME TypeOK /\ FlightInv, [Next]_vars PROVE FlightInv'
  OBVIOUS
<1> USE IsoUploadAssumption DEF TypeOK, FlightInv, Labels, Leading, Open, Section, PutLabels,
      Ended, Contents, Outcomes, Keys, Key
<1>1. ASSUME NEW r \in Reqs, Arrive(r) PROVE FlightInv'
  BY <1>1 DEF Arrive, Goto
<1>2. ASSUME NEW r \in Reqs, Stat(r) PROVE FlightInv'
  BY <1>2 DEF Stat, Return, Goto
<1>3. ASSUME NEW r \in Reqs, Join(r) PROVE FlightInv'
  BY <1>3 DEF Join, Goto
<1>4. ASSUME NEW r \in Reqs, Lead(r) PROVE FlightInv'
  BY <1>4 DEF Lead, Goto
<1>5. ASSUME NEW r \in Reqs, Await(r) PROVE FlightInv'
  <2>1. pc[r] \notin Leading /\ pc' = [pc EXCEPT ![r] = "done"] /\ flight' = flight
    BY <1>5 DEF Await, Return, Goto
  <2>2. \A s \in Reqs : pc'[s] \in Leading => flight[Key(s)] = s
    BY <2>1
  <2>3. \A k \in Keys : flight[k] # NoReq => pc'[flight[k]] \in Leading /\ Key(flight[k]) = k
    BY <2>1
  <2> QED
    BY <2>1, <2>2, <2>3
<1>6. ASSUME NEW r \in Reqs, Acquire(r) PROVE FlightInv'
  BY <1>6 DEF Acquire, Goto
<1>7. ASSUME NEW r \in Reqs, Recheck(r) PROVE FlightInv'
  <2>1. pc[r] \in Leading /\ flight' = flight /\ \E label \in Leading : pc' = [pc EXCEPT ![r] = label]
    BY <1>7 DEF Recheck, Unwind, Goto
  <2> QED
    BY <2>1
<1>8. ASSUME NEW r \in Reqs, Prepare(r) PROVE FlightInv'
  BY <1>8 DEF Prepare, Unwind, Goto
<1>9. ASSUME NEW r \in Reqs, PutBytes(r) PROVE FlightInv'
  BY <1>9 DEF PutBytes, Goto
<1>10. ASSUME NEW r \in Reqs, PutAcked(r) PROVE FlightInv'
  BY <1>10 DEF PutAcked, Goto
<1>11. ASSUME NEW r \in Reqs, HostPutFails(r) PROVE FlightInv'
  BY <1>11 DEF HostPutFails, LeftBehind, Goto
<1>12. ASSUME NEW r \in Reqs, AttemptFails(r) PROVE FlightInv'
  BY <1>12, SMTT(30) DEF AttemptFails, LeftBehind, Unwind, Goto
<1>13. ASSUME NEW r \in Reqs, Confirm(r) PROVE FlightInv'
  BY <1>13 DEF Confirm, Unwind, Goto
<1>14. ASSUME NEW r \in Reqs, Backoff(r) PROVE FlightInv'
  BY <1>14 DEF Backoff, Unwind, Goto
<1>15. ASSUME NEW r \in Reqs, Land(r) PROVE FlightInv'
  BY <1>15 DEF Land, Goto
<1>16. ASSUME NEW r \in Reqs, Forget(r) PROVE FlightInv'
  BY <1>16 DEF Forget, Goto
<1>17. ASSUME NEW r \in Reqs, Cancel(r) PROVE FlightInv'
  BY <1>17 DEF Active, Cancel
<1>18. CASE Crash
  BY <1>18 DEF Active, Crash
<1>19. CASE UNCHANGED vars
  BY <1>19 DEF vars
<1>20. ASSUME NEW r \in Reqs, Break(r) PROVE FlightInv'
  <2>1. CASE pc[r] = "stat"
    <3>1. pc' = [pc EXCEPT ![r] = "done"] /\ flight' = flight
      BY <1>20, <2>1 DEF Break, Return, Goto
    <3> QED
      BY <2>1, <3>1
  <2>2. CASE pc[r] # "stat"
    <3>1. pc[r] \in Leading /\ pc' = [pc EXCEPT ![r] = "land"] /\ flight' = flight
      BY <1>20, <2>2 DEF Break, Touches, Unwind, Goto
    <3> QED
      BY <3>1
  <2> QED
    BY <2>1, <2>2
<1>21. ASSUME NEW c \in Clients, Close(c) PROVE FlightInv'
  BY <1>21 DEF Close
<1> QED
  BY <1>1, <1>2, <1>3, <1>4, <1>5, <1>6, <1>7, <1>8, <1>9, <1>10, <1>11, <1>12, <1>13, <1>14,
     <1>15, <1>16, <1>17, <1>18, <1>19, <1>20, <1>21 DEF Next, Step, AllReturned

\* A call is open exactly while its leader is before the close.
LEMMA CallStep ==
  TypeOK /\ CallInv /\ [Next]_vars => CallInv'
<1> SUFFICES ASSUME TypeOK /\ CallInv, [Next]_vars PROVE CallInv'
  OBVIOUS
<1> USE IsoUploadAssumption DEF TypeOK, CallInv, Labels, Leading, Open, Section, PutLabels,
      Ended, Contents, Outcomes, Keys, Key
<1>1. ASSUME NEW r \in Reqs, Arrive(r) PROVE CallInv'
  BY <1>1 DEF Arrive, Goto
<1>2. ASSUME NEW r \in Reqs, Stat(r) PROVE CallInv'
  <2>1. pc[r] = "stat" /\ UNCHANGED call
    BY <1>2 DEF Stat
  <2>2. \E label \in {"register", "done"} : pc' = [pc EXCEPT ![r] = label]
    BY <1>2 DEF Stat, Return, Goto
  <2> QED
    BY <2>1, <2>2
<1>3. ASSUME NEW r \in Reqs, Join(r) PROVE CallInv'
  BY <1>3 DEF Join, Goto
<1>4. ASSUME NEW r \in Reqs, Lead(r) PROVE CallInv'
  BY <1>4 DEF Lead, Goto
<1>5. ASSUME NEW r \in Reqs, Await(r) PROVE CallInv'
  <2>1. pc[r] = "wait" /\ pc' = [pc EXCEPT ![r] = "done"] /\ UNCHANGED call
    BY <1>5 DEF Await, Return, Goto
  <2> QED
    BY <2>1
<1>6. ASSUME NEW r \in Reqs, Acquire(r) PROVE CallInv'
  BY <1>6 DEF Acquire, Goto
<1>7. ASSUME NEW r \in Reqs, Recheck(r) PROVE CallInv'
  BY <1>7 DEF Recheck, Unwind, Goto
<1>8. ASSUME NEW r \in Reqs, Prepare(r) PROVE CallInv'
  BY <1>8 DEF Prepare, Unwind, Goto
<1>9. ASSUME NEW r \in Reqs, PutBytes(r) PROVE CallInv'
  BY <1>9 DEF PutBytes, Goto
<1>10. ASSUME NEW r \in Reqs, PutAcked(r) PROVE CallInv'
  BY <1>10 DEF PutAcked, Goto
<1>11. ASSUME NEW r \in Reqs, HostPutFails(r) PROVE CallInv'
  BY <1>11 DEF HostPutFails, LeftBehind, Goto
<1>12. ASSUME NEW r \in Reqs, AttemptFails(r) PROVE CallInv'
  BY <1>12 DEF AttemptFails, LeftBehind, Unwind, Goto
<1>13. ASSUME NEW r \in Reqs, Confirm(r) PROVE CallInv'
  BY <1>13 DEF Confirm, Unwind, Goto
<1>14. ASSUME NEW r \in Reqs, Backoff(r) PROVE CallInv'
  BY <1>14 DEF Backoff, Unwind, Goto
<1>15. ASSUME NEW r \in Reqs, Land(r) PROVE CallInv'
  BY <1>15 DEF Land, Goto
<1>16. ASSUME NEW r \in Reqs, Forget(r) PROVE CallInv'
  BY <1>16 DEF Forget, Goto
<1>17. ASSUME NEW r \in Reqs, Cancel(r) PROVE CallInv'
  BY <1>17 DEF Active, Cancel
<1>18. CASE Crash
  BY <1>18 DEF Active, Crash
<1>19. CASE UNCHANGED vars
  BY <1>19 DEF vars
<1>20. ASSUME NEW r \in Reqs, Break(r) PROVE CallInv'
  BY <1>20 DEF Break, Touches, Return, Unwind, Goto
<1>21. ASSUME NEW c \in Clients, Close(c) PROVE CallInv'
  BY <1>21 DEF Close
<1> QED
  BY <1>1, <1>2, <1>3, <1>4, <1>5, <1>6, <1>7, <1>8, <1>9, <1>10, <1>11, <1>12, <1>13, <1>14,
     <1>15, <1>16, <1>17, <1>18, <1>19, <1>20, <1>21 DEF Next, Step, AllReturned

\* A waiter waits for a live call of its own path.
LEMMA WaitStep ==
  TypeOK /\ FlightInv /\ WaitInv /\ [Next]_vars => WaitInv'
<1> SUFFICES ASSUME TypeOK /\ FlightInv /\ WaitInv, [Next]_vars PROVE WaitInv'
  OBVIOUS
<1> USE IsoUploadAssumption DEF TypeOK, FlightInv, WaitInv, Labels, Leading, Open, Section,
      PutLabels, Ended, Contents, Outcomes, Keys, Key
<1>1. ASSUME NEW r \in Reqs, Arrive(r) PROVE WaitInv'
  BY <1>1 DEF Arrive, Goto
<1>2. ASSUME NEW r \in Reqs, Stat(r) PROVE WaitInv'
  BY <1>2 DEF Stat, Return, Goto
<1>3. ASSUME NEW r \in Reqs, Join(r) PROVE WaitInv'
  BY <1>3, SMTT(30) DEF Join, Goto
<1>4. ASSUME NEW r \in Reqs, Lead(r) PROVE WaitInv'
  BY <1>4 DEF Lead, Goto
<1>5. ASSUME NEW r \in Reqs, Await(r) PROVE WaitInv'
  BY <1>5 DEF Await, Return, Goto
<1>6. ASSUME NEW r \in Reqs, Acquire(r) PROVE WaitInv'
  BY <1>6 DEF Acquire, Goto
<1>7. ASSUME NEW r \in Reqs, Recheck(r) PROVE WaitInv'
  BY <1>7 DEF Recheck, Unwind, Goto
<1>8. ASSUME NEW r \in Reqs, Prepare(r) PROVE WaitInv'
  BY <1>8 DEF Prepare, Unwind, Goto
<1>9. ASSUME NEW r \in Reqs, PutBytes(r) PROVE WaitInv'
  BY <1>9 DEF PutBytes, Goto
<1>10. ASSUME NEW r \in Reqs, PutAcked(r) PROVE WaitInv'
  BY <1>10 DEF PutAcked, Goto
<1>11. ASSUME NEW r \in Reqs, HostPutFails(r) PROVE WaitInv'
  BY <1>11 DEF HostPutFails, LeftBehind, Goto
<1>12. ASSUME NEW r \in Reqs, AttemptFails(r) PROVE WaitInv'
  BY <1>12 DEF AttemptFails, LeftBehind, Unwind, Goto
<1>13. ASSUME NEW r \in Reqs, Confirm(r) PROVE WaitInv'
  BY <1>13 DEF Confirm, Unwind, Goto
<1>14. ASSUME NEW r \in Reqs, Backoff(r) PROVE WaitInv'
  BY <1>14 DEF Backoff, Unwind, Goto
<1>15. ASSUME NEW r \in Reqs, Land(r) PROVE WaitInv'
  BY <1>15 DEF Land, Goto
<1>16. ASSUME NEW r \in Reqs, Forget(r) PROVE WaitInv'
  BY <1>16 DEF Forget, Goto
<1>17. ASSUME NEW r \in Reqs, Cancel(r) PROVE WaitInv'
  BY <1>17 DEF Active, Cancel
<1>18. CASE Crash
  BY <1>18 DEF Active, Crash
<1>19. CASE UNCHANGED vars
  BY <1>19 DEF vars
<1>20. ASSUME NEW r \in Reqs, Break(r) PROVE WaitInv'
  BY <1>20 DEF Break, Touches, Return, Unwind, Goto
<1>21. ASSUME NEW c \in Clients, Close(c) PROVE WaitInv'
  BY <1>21 DEF Close
<1> QED
  BY <1>1, <1>2, <1>3, <1>4, <1>5, <1>6, <1>7, <1>8, <1>9, <1>10, <1>11, <1>12, <1>13, <1>14,
     <1>15, <1>16, <1>17, <1>18, <1>19, <1>20, <1>21 DEF Next, Step, AllReturned

\* No success, own or adopted, without a file.
LEMMA PresentStep ==
  TypeOK /\ WaitInv /\ PresentInv /\ [Next]_vars => PresentInv'
<1> SUFFICES ASSUME TypeOK /\ WaitInv /\ PresentInv, [Next]_vars PROVE PresentInv'
  OBVIOUS
<1> USE IsoUploadAssumption DEF TypeOK, WaitInv, PresentInv, Misled, Exists, Labels, Leading, Open,
      Section, PutLabels, Ended, Contents, Outcomes, Keys, Key
<1>1. ASSUME NEW r \in Reqs, Arrive(r) PROVE PresentInv'
  BY <1>1 DEF Arrive, Goto
<1>2. ASSUME NEW r \in Reqs, Stat(r) PROVE PresentInv'
  BY <1>2 DEF Stat, Return, Goto
<1>3. ASSUME NEW r \in Reqs, Join(r) PROVE PresentInv'
  BY <1>3 DEF Join, Goto
<1>4. ASSUME NEW r \in Reqs, Lead(r) PROVE PresentInv'
  BY <1>4 DEF Lead, Goto
<1>5. ASSUME NEW r \in Reqs, Await(r) PROVE PresentInv'
  BY <1>5 DEF Await, Return, Goto
<1>6. ASSUME NEW r \in Reqs, Acquire(r) PROVE PresentInv'
  BY <1>6 DEF Acquire, Goto
<1>7. ASSUME NEW r \in Reqs, Recheck(r) PROVE PresentInv'
  <2>1. /\ ds' = ds /\ call' = call /\ waitsOn' = waitsOn
        /\ pc[r] = "recheck" /\ outcome[r] = "none"
    BY <1>7 DEF Recheck
  <2>2. CASE Exists(PathOf[r]) /\ Unwind(r, "present")
    BY <2>1, <2>2 DEF Unwind, Goto
  <2>3. CASE Goto(r, "prepare") /\ UNCHANGED <<serial, outcome>>
    BY <2>1, <2>3 DEF Goto
  <2>4. CASE Unwind(r, "failed")
    BY <2>1, <2>4 DEF Unwind, Goto
  <2> QED
    BY <1>7, <2>2, <2>3, <2>4 DEF Recheck
<1>8. ASSUME NEW r \in Reqs, Prepare(r) PROVE PresentInv'
  BY <1>8 DEF Prepare, Unwind, Goto
<1>9. ASSUME NEW r \in Reqs, PutBytes(r) PROVE PresentInv'
  BY <1>9 DEF PutBytes, Goto
<1>10. ASSUME NEW r \in Reqs, PutAcked(r) PROVE PresentInv'
  BY <1>10 DEF PutAcked, Goto
<1>11. ASSUME NEW r \in Reqs, HostPutFails(r) PROVE PresentInv'
  BY <1>11 DEF HostPutFails, LeftBehind, Goto
<1>12. ASSUME NEW r \in Reqs, AttemptFails(r) PROVE PresentInv'
  BY <1>12 DEF AttemptFails, LeftBehind, Unwind, Goto
<1>13. ASSUME NEW r \in Reqs, Confirm(r) PROVE PresentInv'
  BY <1>13 DEF Confirm, Unwind, Goto
<1>14. ASSUME NEW r \in Reqs, Backoff(r) PROVE PresentInv'
  BY <1>14 DEF Backoff, Unwind, Goto
<1>15. ASSUME NEW r \in Reqs, Land(r) PROVE PresentInv'
  BY <1>15 DEF Land, Goto
<1>16. ASSUME NEW r \in Reqs, Forget(r) PROVE PresentInv'
  BY <1>16 DEF Forget, Goto
<1>17. ASSUME NEW r \in Reqs, Cancel(r) PROVE PresentInv'
  BY <1>17 DEF Active, Cancel
<1>18. CASE Crash
  BY <1>18 DEF Active, Crash
<1>19. CASE UNCHANGED vars
  BY <1>19 DEF vars
<1>20. ASSUME NEW r \in Reqs, Break(r) PROVE PresentInv'
  BY <1>20 DEF Break, Touches, Return, Unwind, Goto
<1>21. ASSUME NEW c \in Clients, Close(c) PROVE PresentInv'
  BY <1>21 DEF Close
<1> QED
  BY <1>1, <1>2, <1>3, <1>4, <1>5, <1>6, <1>7, <1>8, <1>9, <1>10, <1>11, <1>12, <1>13, <1>14,
     <1>15, <1>16, <1>17, <1>18, <1>19, <1>20, <1>21 DEF Next, Step, AllReturned

\* Nobody writes a path between its leader's second look and first byte.
LEMMA FreeStep ==
  TypeOK /\ AttemptInv /\ SerialInv /\ FirstPutFindsPathFree /\ [Next]_vars => FirstPutFindsPathFree'
<1> SUFFICES ASSUME TypeOK /\ AttemptInv /\ SerialInv /\ FirstPutFindsPathFree, [Next]_vars
             PROVE  FirstPutFindsPathFree'
  OBVIOUS
<1> USE IsoUploadAssumption DEF TypeOK, AttemptInv, Writing, SerialInv, FirstPutFindsPathFree,
      Exclusive, Exists, Labels, Leading, Open, Section, PutLabels, Ended, Contents, Outcomes,
      Keys, Key
<1>1. ASSUME NEW r \in Reqs, Arrive(r) PROVE FirstPutFindsPathFree'
  BY <1>1 DEF Arrive, Goto
<1>2. ASSUME NEW r \in Reqs, Stat(r) PROVE FirstPutFindsPathFree'
  BY <1>2 DEF Stat, Return, Goto
<1>3. ASSUME NEW r \in Reqs, Join(r) PROVE FirstPutFindsPathFree'
  BY <1>3 DEF Join, Goto
<1>4. ASSUME NEW r \in Reqs, Lead(r) PROVE FirstPutFindsPathFree'
  BY <1>4 DEF Lead, Goto
<1>5. ASSUME NEW r \in Reqs, Await(r) PROVE FirstPutFindsPathFree'
  BY <1>5 DEF Await, Return, Goto
<1>6. ASSUME NEW r \in Reqs, Acquire(r) PROVE FirstPutFindsPathFree'
  BY <1>6 DEF Acquire, Goto
<1>7. ASSUME NEW r \in Reqs, Recheck(r) PROVE FirstPutFindsPathFree'
  BY <1>7 DEF Recheck, Unwind, Goto
<1>8. ASSUME NEW r \in Reqs, Prepare(r) PROVE FirstPutFindsPathFree'
  BY <1>8 DEF Prepare, Unwind, Goto
<1>9. ASSUME NEW r \in Reqs, PutBytes(r) PROVE FirstPutFindsPathFree'
  BY <1>9 DEF PutBytes, Goto
<1>10. ASSUME NEW r \in Reqs, PutAcked(r) PROVE FirstPutFindsPathFree'
  BY <1>10 DEF PutAcked, Goto
<1>11. ASSUME NEW r \in Reqs, HostPutFails(r) PROVE FirstPutFindsPathFree'
  BY <1>11 DEF HostPutFails, LeftBehind, Goto
<1>12. ASSUME NEW r \in Reqs, AttemptFails(r) PROVE FirstPutFindsPathFree'
  BY <1>12 DEF AttemptFails, LeftBehind, Unwind, Goto
<1>13. ASSUME NEW r \in Reqs, Confirm(r) PROVE FirstPutFindsPathFree'
  BY <1>13 DEF Confirm, Unwind, Goto
<1>14. ASSUME NEW r \in Reqs, Backoff(r) PROVE FirstPutFindsPathFree'
  BY <1>14 DEF Backoff, Unwind, Goto
<1>15. ASSUME NEW r \in Reqs, Land(r) PROVE FirstPutFindsPathFree'
  BY <1>15 DEF Land, Goto
<1>16. ASSUME NEW r \in Reqs, Forget(r) PROVE FirstPutFindsPathFree'
  BY <1>16 DEF Forget, Goto
<1>17. ASSUME NEW r \in Reqs, Cancel(r) PROVE FirstPutFindsPathFree'
  BY <1>17 DEF Active, Cancel
<1>18. CASE Crash
  BY <1>18 DEF Active, Crash
<1>19. CASE UNCHANGED vars
  BY <1>19 DEF vars
<1>20. ASSUME NEW r \in Reqs, Break(r) PROVE FirstPutFindsPathFree'
  BY <1>20 DEF Break, Touches, Return, Unwind, Goto
<1>21. ASSUME NEW c \in Clients, Close(c) PROVE FirstPutFindsPathFree'
  BY <1>21 DEF Close
<1> QED
  BY <1>1, <1>2, <1>3, <1>4, <1>5, <1>6, <1>7, <1>8, <1>9, <1>10, <1>11, <1>12, <1>13, <1>14,
     <1>15, <1>16, <1>17, <1>18, <1>19, <1>20, <1>21 DEF Next, Step, AllReturned

\* While a leader writes a path, nobody has reported it uploaded.
LEMMA WriterStep ==
  TypeOK /\ SerialInv /\ WriterInv /\ UploadedStaysWhole /\ [Next]_vars => (WriterInv /\ UploadedStaysWhole)'
<1> SUFFICES ASSUME TypeOK /\ SerialInv /\ WriterInv /\ UploadedStaysWhole, [Next]_vars
             PROVE  (WriterInv /\ UploadedStaysWhole)'
  OBVIOUS
<1> USE IsoUploadAssumption DEF TypeOK, SerialInv, WriterInv, UploadedStaysWhole, Writing,
      Exclusive, Exists, Labels, Leading, Open, Section, PutLabels, Ended, Contents, Outcomes,
      Keys, Key
<1>1. ASSUME NEW r \in Reqs, Arrive(r) PROVE (WriterInv /\ UploadedStaysWhole)'
  BY <1>1 DEF Arrive, Goto
<1>2. ASSUME NEW r \in Reqs, Stat(r) PROVE (WriterInv /\ UploadedStaysWhole)'
  <2>1. /\ ds' = ds /\ pc[r] = "stat"
        /\ \E label \in {"register", "done"} : pc' = [pc EXCEPT ![r] = label]
        /\ \E res \in Outcomes \ {"uploaded"} :
             outcome' = outcome \/ outcome' = [outcome EXCEPT ![r] = res]
    BY <1>2 DEF Stat, Return, Goto
  <2> QED
    BY <2>1
<1>3. ASSUME NEW r \in Reqs, Join(r) PROVE (WriterInv /\ UploadedStaysWhole)'
  BY <1>3 DEF Join, Goto
<1>4. ASSUME NEW r \in Reqs, Lead(r) PROVE (WriterInv /\ UploadedStaysWhole)'
  BY <1>4 DEF Lead, Goto
<1>5. ASSUME NEW r \in Reqs, Await(r) PROVE (WriterInv /\ UploadedStaysWhole)'
  <2>1. /\ ds' = ds /\ pc[r] = "wait" /\ pc' = [pc EXCEPT ![r] = "done"]
        /\ \E res \in Outcomes \ {"uploaded"} : outcome' = [outcome EXCEPT ![r] = res]
    BY <1>5 DEF Await, Return, Goto
  <2> QED
    BY <2>1
<1>6. ASSUME NEW r \in Reqs, Acquire(r) PROVE (WriterInv /\ UploadedStaysWhole)'
  BY <1>6 DEF Acquire, Goto
<1>7. ASSUME NEW r \in Reqs, Recheck(r) PROVE (WriterInv /\ UploadedStaysWhole)'
  <2>1. ds' = ds
    BY <1>7 DEF Recheck
  <2>2. CASE Unwind(r, "present")
    BY <2>1, <2>2 DEF Unwind, Goto
  <2>3. CASE ~Exists(PathOf[r]) /\ Goto(r, "prepare") /\ UNCHANGED <<serial, outcome>>
    <3>1. UploadedStaysWhole'
      BY <2>1, <2>3
    <3>2. Exclusive(PathOf[r]) =>
            \A s \in Reqs : PathOf[s] = PathOf[r] => outcome[s] # "uploaded"
      BY <2>3
    <3>3. WriterInv'
      BY <2>1, <2>3, <3>2 DEF Goto
    <3> QED
      BY <3>1, <3>3
  <2>4. CASE Unwind(r, "failed")
    BY <2>1, <2>4 DEF Unwind, Goto
  <2> QED
    BY <1>7, <2>2, <2>3, <2>4 DEF Recheck
<1>8. ASSUME NEW r \in Reqs, Prepare(r) PROVE (WriterInv /\ UploadedStaysWhole)'
  BY <1>8 DEF Prepare, Unwind, Goto
<1>9. ASSUME NEW r \in Reqs, PutBytes(r) PROVE (WriterInv /\ UploadedStaysWhole)'
  BY <1>9 DEF PutBytes, Goto
<1>10. ASSUME NEW r \in Reqs, PutAcked(r) PROVE (WriterInv /\ UploadedStaysWhole)'
  BY <1>10 DEF PutAcked, Goto
<1>11. ASSUME NEW r \in Reqs, HostPutFails(r) PROVE (WriterInv /\ UploadedStaysWhole)'
  BY <1>11 DEF HostPutFails, LeftBehind, Goto
<1>12. ASSUME NEW r \in Reqs, AttemptFails(r) PROVE (WriterInv /\ UploadedStaysWhole)'
  BY <1>12 DEF AttemptFails, LeftBehind, Unwind, Goto
<1>13. ASSUME NEW r \in Reqs, Confirm(r) PROVE (WriterInv /\ UploadedStaysWhole)'
  BY <1>13 DEF Confirm, Unwind, Goto
<1>14. ASSUME NEW r \in Reqs, Backoff(r) PROVE (WriterInv /\ UploadedStaysWhole)'
  <2>1. /\ ds' = ds /\ pc[r] = "backoff"
        /\ \E label \in {"hostPut", "land"} : pc' = [pc EXCEPT ![r] = label]
        /\ outcome' = outcome \/ outcome' = [outcome EXCEPT ![r] = "failed"]
    BY <1>14 DEF Backoff, Unwind, Goto
  <2>2. UploadedStaysWhole'
    BY <2>1
  <2>3. CASE outcome' = outcome
    BY <2>1, <2>2, <2>3
  <2>4. CASE outcome' = [outcome EXCEPT ![r] = "failed"]
    BY <2>1, <2>2, <2>4
  <2> QED
    BY <2>1, <2>3, <2>4
<1>15. ASSUME NEW r \in Reqs, Land(r) PROVE (WriterInv /\ UploadedStaysWhole)'
  BY <1>15 DEF Land, Goto
<1>16. ASSUME NEW r \in Reqs, Forget(r) PROVE (WriterInv /\ UploadedStaysWhole)'
  BY <1>16 DEF Forget, Goto
<1>17. ASSUME NEW r \in Reqs, Cancel(r) PROVE (WriterInv /\ UploadedStaysWhole)'
  BY <1>17 DEF Active, Cancel
<1>18. CASE Crash
  BY <1>18 DEF Active, Crash
<1>19. CASE UNCHANGED vars
  BY <1>19 DEF vars
<1>20. ASSUME NEW r \in Reqs, Break(r) PROVE (WriterInv /\ UploadedStaysWhole)'
  <2>1. /\ ds' = ds /\ outcome' = [outcome EXCEPT ![r] = "panicked"]
        /\ \E label \in {"done", "land"} : pc' = [pc EXCEPT ![r] = label]
    BY <1>20 DEF Break, Return, Unwind, Goto
  <2> QED
    BY <2>1
<1>21. ASSUME NEW c \in Clients, Close(c) PROVE (WriterInv /\ UploadedStaysWhole)'
  BY <1>21 DEF Close
<1> QED
  BY <1>1, <1>2, <1>3, <1>4, <1>5, <1>6, <1>7, <1>8, <1>9, <1>10, <1>11, <1>12, <1>13, <1>14,
     <1>15, <1>16, <1>17, <1>18, <1>19, <1>20, <1>21 DEF Next, Step, AllReturned

-----------------------------------------------------------------------------
\* The initial states satisfy the inductive invariant.
LEMMA InitIInv == Init => IInv
<1> SUFFICES ASSUME Init PROVE IInv
  OBVIOUS
<1> USE IsoUploadAssumption
    DEF Init, Labels, Leading, Open, Section, PutLabels, Ended, Contents, Outcomes, Sessions, Keys, Key
<1>1. TypeOK
  BY DEF TypeOK
<1>2. SerialInv /\ FlightInv /\ CallInv /\ WaitInv /\ AttemptInv
  BY DEF SerialInv, FlightInv, CallInv, WaitInv, AttemptInv, Writing
<1>3. PresentInv /\ FirstPutFindsPathFree /\ WriterInv /\ UploadedStaysWhole
  BY DEF PresentInv, Misled, FirstPutFindsPathFree, WriterInv, UploadedStaysWhole, Writing
<1> QED
  BY <1>1, <1>2, <1>3 DEF IInv

\* Every step of IsoUpload preserves it: one lemma per part, put together.
LEMMA StepIInv == IInv /\ [Next]_vars => IInv'
BY TypeStep, AttemptStep, SerialStep, FlightStep, CallStep, WaitStep,
   PresentStep, FreeStep, WriterStep DEF IInv

\* So it holds of every behaviour.
LEMMA AlwaysIInv == Spec => []IInv
<1>1. Init => IInv
  BY InitIInv
<1>2. IInv /\ [Next]_vars => IInv'
  BY StepIInv
<1> QED
  BY <1>1, <1>2, PTL DEF Spec

\* The variables keep their types, for every MaxAttempts: attempt stops at it.
THEOREM TypeCorrect == Spec => []TypeOK
<1>1. IInv => TypeOK
  BY DEF IInv
<1> QED
  BY <1>1, AlwaysIInv, PTL

\* Mutual exclusion of the serial section of a client.
THEOREM SerialExclusion == Spec => []OnePutPerClient
<1>1. IInv => OnePutPerClient
  BY DEF IInv, SerialInv, OnePutPerClient
<1> QED
  BY <1>1, AlwaysIInv, PTL

\* No waiter is left behind and no table entry outlives its leader, whatever
\* fails, is cancelled or restarts.
THEOREM NoStrandedWaiter == Spec => []NobodyStranded
<1>1. IInv => NobodyStranded
  BY DEF IInv, FlightInv, CallInv, WaitInv, NobodyStranded
<1> QED
  BY <1>1, AlwaysIInv, PTL

\* A leader's first PUT goes to a free path.
THEOREM FirstPutOnFreePath == Spec => []FirstPutFindsPathFree
<1>1. IInv => FirstPutFindsPathFree
  BY DEF IInv
<1> QED
  BY <1>1, AlwaysIInv, PTL

\* An uploaded file is never written again by its client.
THEOREM UploadedNeverOverwritten == Spec => []UploadedStaysWhole
<1>1. IInv => UploadedStaysWhole
  BY DEF IInv
<1> QED
  BY <1>1, AlwaysIInv, PTL

\* A request that succeeded finds a file on the datastore, for good, unless it
\* waited for a leader that panicked.
THEOREM SuccessHasFile == Spec => []SuccessMeansPresent
<1>1. IInv => SuccessMeansPresent
  BY DEF IInv, PresentInv, Misled, SuccessMeansPresent, Succeeded
<1> QED
  BY <1>1, AlwaysIInv, PTL

-----------------------------------------------------------------------------
(***************************************************************************)
(* IsoUpload implements SingleFlight.  What the invariant lacks for it is  *)
(* that a closed call says what its leader returns.                        *)
(***************************************************************************)
ClosedInv ==
  \A r \in Reqs : call[r] \in {"ok", "err"} =>
    /\ pc[r] \in {"forget", "done", "dead"}
    /\ call[r] = "err" <=> outcome[r] = "failed"

RInv == IInv /\ ClosedInv

\* Only the deferred function closes a call, and its leader's outcome is
\* settled by then.
LEMMA ClosedStep == ASSUME TypeOK, ClosedInv, [Next]_vars PROVE ClosedInv'
<1> USE DEF ClosedInv, TypeOK, Section, PutLabels, Outcomes, Goto
<1>1. CASE \E r \in Reqs : Arrive(r) \/ Acquire(r) \/ PutBytes(r) \/ PutAcked(r)
                          \/ HostPutFails(r) \/ Forget(r) \/ Cancel(r) \/ Join(r)
  BY <1>1 DEF Arrive, Acquire, PutBytes, PutAcked, HostPutFails, Forget, Cancel, Join
<1>2. CASE \E r \in Reqs : Stat(r) \/ Await(r)
  BY <1>2 DEF Stat, Await, Return
<1>3. CASE \E r \in Reqs : Lead(r) \/ Land(r)
  BY <1>3 DEF Lead, Land
<1>4. CASE \E r \in Reqs : Recheck(r) \/ Prepare(r) \/ AttemptFails(r)
                          \/ Confirm(r) \/ Backoff(r) \/ Break(r)
  BY <1>4 DEF Recheck, Prepare, AttemptFails, Confirm, Backoff, Break, Touches, Return, Unwind
<1>5. CASE Crash
  BY <1>5 DEF Crash
<1>6. CASE UNCHANGED vars
  BY <1>6 DEF vars
<1>7. CASE \E c \in Clients : Close(c)
  BY <1>7 DEF Close
<1> QED
  BY <1>1, <1>2, <1>3, <1>4, <1>5, <1>6, <1>7 DEF Next, Step, AllReturned

-----------------------------------------------------------------------------
(***************************************************************************)
(* How a step of one request shows in the table.                           *)
(***************************************************************************)
OnlyMoves(r) ==
  \A s \in Reqs \ {r} : pc'[s] = pc[s] /\ outcome'[s] = outcome[s]

\* A step that moves one request changes that request's role and result.
LEMMA OneMoves ==
  ASSUME NEW r \in Reqs, OnlyMoves(r)
  PROVE /\ RoleMap' = [RoleMap EXCEPT ![r] = RoleOf(pc'[r])]
        /\ ResultMap' = [ResultMap EXCEPT ![r] = ResultOf(r)']
<1>1. \A s \in Reqs \ {r} : RoleOf(pc'[s]) = RoleOf(pc[s]) /\ ResultOf(s)' = ResultOf(s)
  BY DEF OnlyMoves, ResultOf
<1>2. RoleMap' = [s \in Reqs |-> RoleOf(pc'[s])] /\ ResultMap' = [s \in Reqs |-> ResultOf(s)']
  BY DEF RoleMap, ResultMap
<1> QED
  BY <1>1, <1>2 DEF RoleMap, ResultMap

\* A move that changes neither is a stutter of the table.
LEMMA Stutter ==
  ASSUME NEW r \in Reqs, OnlyMoves(r), UNCHANGED waitsOn,
         RoleOf(pc'[r]) = RoleOf(pc[r]), ResultOf(r)' = ResultOf(r)
  PROVE UNCHANGED <<RoleMap, waitsOn, ResultMap>>
BY OneMoves DEF RoleMap, ResultMap

\* Work before the table, and the work of a leader up to the deferred close, its
\* panic included, leave the table alone.
LEMMA WorkStutters ==
  ASSUME TypeOK, NEW r \in Reqs,
         \/ Arrive(r) \/ Acquire(r) \/ Recheck(r) \/ Prepare(r) \/ PutBytes(r)
         \/ PutAcked(r) \/ HostPutFails(r) \/ AttemptFails(r) \/ Confirm(r) \/ Backoff(r)
         \/ (Break(r) /\ pc[r] # "stat")
  PROVE UNCHANGED <<RoleMap, waitsOn, ResultMap>>
<1> USE DEF TypeOK, Goto, Unwind
<1>1. UNCHANGED waitsOn /\ OnlyMoves(r)
  BY DEF OnlyMoves, Arrive, Acquire, Recheck, Prepare, PutBytes, PutAcked, HostPutFails,
     AttemptFails, Confirm, Backoff, Break
<1>2. \/ pc[r] = "idle" /\ pc'[r] = "stat"
      \/ pc[r] \in Open /\ pc'[r] \in Open
  BY DEF Arrive, Acquire, Recheck, Prepare, PutBytes, PutAcked, HostPutFails,
     AttemptFails, Confirm, Backoff, Break, Touches, Open, Section, PutLabels
<1>3. RoleOf(pc'[r]) = RoleOf(pc[r]) /\ ResultOf(r)' = ResultOf(r)
  BY <1>2 DEF RoleOf, ResultOf, Open, Section, PutLabels
<1> QED
  BY <1>1, <1>3, Stutter

\* The look at the datastore settles a request, or sends it to the table, or
\* breaks it off.
LEMMA StatMaps ==
  ASSUME TypeOK, NEW r \in Reqs, Stat(r) \/ (Break(r) /\ pc[r] = "stat")
  PROVE Table!Settle(r) \/ UNCHANGED <<RoleMap, waitsOn, ResultMap>>
<1>1. /\ OnlyMoves(r) /\ UNCHANGED waitsOn /\ pc[r] = "stat"
      /\ pc'[r] = "register" \/ pc'[r] = "done"
  BY DEF OnlyMoves, TypeOK, Stat, Break, Return, Goto
<1>2. CASE pc'[r] = "register"
  <2>1. RoleOf(pc'[r]) = RoleOf(pc[r]) /\ ResultOf(r)' = ResultOf(r)
    BY <1>1, <1>2 DEF RoleOf, ResultOf, Open, Section, PutLabels
  <2> QED
    BY <1>1, <2>1, Stutter
<1>3. CASE pc'[r] = "done"
  <2>1. RoleOf(pc'[r]) = "done" /\ RoleMap[r] = "out"
    BY <1>1, <1>3 DEF RoleOf, RoleMap, Open, Section, PutLabels
  <2>2. ResultOf(r)' \in Table!Results \ {"none"}
    BY <1>3 DEF ResultOf, Table!Results
  <2> QED
    BY <1>1, <2>1, <2>2, OneMoves DEF Table!Settle, Table!Become, Table!Decide
<1> QED
  BY <1>1, <1>2, <1>3

\* Only the request listed in the in-flight table leads or lands.
LEMMA ListedIs ==
  ASSUME TypeOK, FlightInv, NEW r \in Reqs
  PROVE Table!Listed(KeyMap[r]) = {s \in Reqs : flight[Key(r)] = s}
<1> USE DEF Table!Listed, KeyMap, RoleMap
<1>1. ASSUME NEW s \in Reqs
      PROVE RoleOf(pc[s]) \in {"lead", "landed"} <=> pc[s] \in Leading
  BY DEF TypeOK, RoleOf, Labels, Leading, Open, Section, PutLabels, Ended
<1>2. Key(r) \in Keys
  BY IsoUploadAssumption DEF Key, Keys
<1>3. ASSUME NEW s \in Reqs
      PROVE Key(s) = Key(r) /\ pc[s] \in Leading <=> flight[Key(r)] = s
  BY <1>2, IsoUploadAssumption DEF FlightInv
<1> QED
  BY <1>1, <1>3

\* To join and to lead are what the table says they are.
LEMMA JoinLeadMaps ==
  ASSUME TypeOK, FlightInv, NEW r \in Reqs, Join(r) \/ Lead(r)
  PROVE Table!Join(r) \/ Table!Fly(r)
<1>1. OnlyMoves(r) /\ pc[r] = "register" /\ pc'[r] \in {"wait", "lock"}
  BY DEF OnlyMoves, Join, Lead, Goto, TypeOK
<1>2. RoleMap[r] = "out" /\ ResultOf(r)' = ResultMap[r]
  BY <1>1 DEF RoleMap, RoleOf, ResultMap, ResultOf, Open, Section, PutLabels
<1>3. UNCHANGED ResultMap /\ RoleMap' = [RoleMap EXCEPT ![r] = RoleOf(pc'[r])]
  BY <1>1, <1>2, OneMoves DEF ResultMap
<1>4. Key(r) \in Keys
  BY IsoUploadAssumption DEF Key, Keys
<1>5. CASE Join(r)
  <2>1. flight[Key(r)] \in Table!Listed(KeyMap[r])
    BY <1>4, <1>5, ListedIs DEF Join, TypeOK
  <2>2. RoleOf(pc'[r]) = "follow"
    BY <1>5 DEF Join, Goto, TypeOK, RoleOf, Open, Section, PutLabels
  <2> QED
    BY <1>2, <1>3, <1>5, <2>1, <2>2 DEF Join, Table!Join, Table!Become
<1>6. CASE Lead(r)
  <2>1. Table!Listed(KeyMap[r]) = {}
    BY <1>6, ListedIs, IsoUploadAssumption DEF Lead
  <2>2. RoleOf(pc'[r]) = "lead"
    BY <1>6 DEF Lead, Goto, TypeOK, RoleOf, Open, Section, PutLabels
  <2> QED
    BY <1>2, <1>3, <1>6, <2>1, <2>2 DEF Lead, Table!Fly, Table!Become
<1> QED
  BY <1>5, <1>6

\* The deferred function decides, and then takes the leader off the table.
LEMMA LandForgetMaps ==
  ASSUME TypeOK, NEW r \in Reqs, Land(r) \/ Forget(r)
  PROVE Table!Land(r) \/ Table!Leave(r)
<1>1. OnlyMoves(r) /\ UNCHANGED <<waitsOn, outcome>>
  BY DEF OnlyMoves, Land, Forget, Goto, TypeOK
<1>2. CASE Land(r)
  <2>1. pc[r] = "land" /\ pc'[r] = "forget"
    BY <1>2 DEF Land, Goto, TypeOK
  <2>2. RoleMap[r] = "lead" /\ RoleOf(pc'[r]) = "landed" /\ ResultOf(r)' \in Table!Results \ {"none"}
    BY <2>1 DEF RoleMap, RoleOf, ResultOf, Table!Results, Open, Section, PutLabels
  <2> QED
    BY <1>1, <2>2, OneMoves DEF Table!Land, Table!Become, Table!Decide
<1>3. CASE Forget(r)
  <2>1. pc[r] = "forget" /\ pc'[r] = "done"
    BY <1>3 DEF Forget, Goto, TypeOK
  <2>2. RoleMap[r] = "landed" /\ RoleOf(pc'[r]) = "done" /\ ResultOf(r)' = ResultMap[r]
    BY <1>1, <2>1 DEF RoleMap, RoleOf, ResultMap, ResultOf, Open, Section, PutLabels
  <2>3. UNCHANGED ResultMap
    BY <1>1, <2>2, OneMoves DEF ResultMap
  <2> QED
    BY <1>1, <2>2, <2>3, OneMoves DEF Table!Leave, Table!Become
<1> QED
  BY <1>2, <1>3

\* A waiter returns what its leader's closed call says (success, if the leader
\* panicked), or gives up.
LEMMA AwaitMaps ==
  ASSUME TypeOK, WaitInv, ClosedInv, NEW r \in Reqs, Await(r)
  PROVE Table!Adopt(r)
<1>1. /\ OnlyMoves(r) /\ UNCHANGED waitsOn /\ pc[r] = "wait" /\ pc'[r] = "done"
      /\ outcome'[r] \in {"failed", "present"}
  BY DEF OnlyMoves, Await, Return, Goto, TypeOK
<1>2. RoleMap[r] = "follow" /\ RoleOf(pc'[r]) = "done"
  BY <1>1 DEF RoleMap, RoleOf, Open, Section, PutLabels
<1>3. ResultOf(r)' = IF outcome'[r] = "failed" THEN "err" ELSE "ok"
  BY <1>1 DEF ResultOf
<1>4. CASE outcome'[r] = "failed"
  BY <1>1, <1>2, <1>3, <1>4, OneMoves DEF Table!Adopt, Table!Become, Table!Decide
<1>5. CASE outcome'[r] # "failed"
  <2>1. call[waitsOn[r]] = "ok"
    BY <1>5 DEF Await, Return, TypeOK
  <2>2. waitsOn[r] \in Reqs /\ pc[waitsOn[r]] \in {"forget", "done"}
        /\ outcome[waitsOn[r]] # "failed"
    BY <1>1, <2>1 DEF WaitInv, ClosedInv
  <2>3. ResultMap[waitsOn[r]] \in {"ok", "broken"}
    BY <2>2 DEF ResultMap, ResultOf
  <2>4. ResultMap[waitsOn[r]] # "none" /\ Table!Told(ResultMap[waitsOn[r]]) = "ok"
    BY <2>3 DEF Table!Told
  <2> QED
    BY <1>1, <1>2, <1>3, <1>5, <2>4, OneMoves DEF Table!Adopt, Table!Become, Table!Decide
<1> QED
  BY <1>4, <1>5

\* A restart ends every request under way, leaders and followers included.
LEMMA CrashMaps == ASSUME TypeOK, Crash PROVE Table!Die
<1> DEFINE Gone == {r \in Reqs : Active(r)}
<1>1. \A r \in Reqs : RoleMap'[r] = IF r \in Gone THEN "dead" ELSE RoleMap[r]
  BY DEF Crash, Active, Ended, RoleMap, RoleOf, Open, Section, PutLabels
<1>2. \A r \in Reqs : ResultMap'[r] = IF r \in Gone THEN "none" ELSE ResultMap[r]
  BY DEF Crash, ResultMap, ResultOf, Active, Ended
<1>3. Gone \in SUBSET {r \in Reqs : RoleMap[r] # "done"}
  BY DEF TypeOK, RoleMap, RoleOf, Active, Ended, Labels, Leading, Open, Section, PutLabels
<1>4. {r \in Reqs : RoleMap[r] \in {"lead", "landed", "follow"}} \subseteq Gone
  BY DEF RoleMap, RoleOf, Active, Ended, Open, Section, PutLabels
<1>5. /\ RoleMap' = [r \in Reqs |-> IF r \in Gone THEN "dead" ELSE RoleMap[r]]
      /\ ResultMap' = [r \in Reqs |-> IF r \in Gone THEN "none" ELSE ResultMap[r]]
  BY <1>1, <1>2 DEF RoleMap, ResultMap
<1> HIDE DEF Gone
<1> QED
  BY <1>3, <1>4, <1>5 DEF Crash, Table!Die

\* Every step of the uploads is a step of the table, or none.
LEMMA StepMaps ==
  ASSUME RInv, [Next]_vars PROVE [Table!Next]_<<RoleMap, waitsOn, ResultMap>>
<1> USE DEF RInv, IInv
<1>1. CASE UNCHANGED vars
  BY <1>1 DEF vars, RoleMap, ResultMap, ResultOf
<1>2. CASE Crash
  BY <1>2, CrashMaps DEF Table!Next
<1>3. ASSUME NEW r \in Reqs, Cancel(r) PROVE UNCHANGED <<RoleMap, waitsOn, ResultMap>>
  BY <1>3 DEF Cancel, RoleMap, ResultMap, ResultOf
<1>4. ASSUME NEW r \in Reqs, Arrive(r) \/ Step(r)
      PROVE [Table!Next]_<<RoleMap, waitsOn, ResultMap>>
  BY <1>4, WorkStutters, StatMaps, JoinLeadMaps, LandForgetMaps, AwaitMaps DEF Step, Table!Next
<1>5. ASSUME NEW c \in Clients, Close(c) PROVE UNCHANGED <<RoleMap, waitsOn, ResultMap>>
  BY <1>5 DEF Close, RoleMap, ResultMap, ResultOf
<1> QED
  BY <1>1, <1>2, <1>3, <1>4, <1>5 DEF Next, AllReturned

\* The uploads implement a single-flight table (IsoUploadRefinement): one leader
\* per client and path, and waiters that return their leader's error or success,
\* or success if it panicked.
THEOREM UploadsAreSingleFlight == Spec => ImplementsSingleFlight
<1>1. Init => Table!Init
  BY DEF Init, Table!Init, RoleMap, RoleOf, ResultMap, ResultOf, Open, Section, PutLabels
<1>2. Init => ClosedInv
  BY DEF Init, ClosedInv
<1>3. Spec => []ClosedInv
  <2>1. IInv /\ ClosedInv /\ [Next]_vars => ClosedInv'
    BY ClosedStep DEF IInv
  <2> QED
    BY <1>2, <2>1, AlwaysIInv, PTL DEF Spec
<1>4. RInv /\ [Next]_vars => [Table!Next]_<<RoleMap, waitsOn, ResultMap>>
  BY StepMaps
<1> QED
  BY <1>1, <1>3, <1>4, AlwaysIInv, PTL DEF Spec, RInv, ImplementsSingleFlight, Table!Spec
=============================================================================
