-------------------------- MODULE IdempotencyProofs --------------------------
(***************************************************************************)
(* What Idempotency keeps, for every number of callers, keys, requests and *)
(* retries: retries are quiet, answers are honest, and - while one process *)
(* at most runs the retention sweep - a key's work is done once a window.  *)
(***************************************************************************)
EXTENDS Idempotency, TLAPS

Holding == {"looking", "working", "stored"}
Missing == {"working", "stored"}

(* An open call has been given everything it needs.                        *)
OpenCalls ==
  \A c \in Callers :
    call[c].at \in Open =>
      /\ call[c].try \in 1 .. MaxTries
      /\ call[c].name \in Names
      /\ call[c].request \in Requests

(* Past the lock, a call is the key's holder.                              *)
LockIsHeld ==
  \A c \in Callers : call[c].at \in Holding => holder[LockOf(call[c].name)] = c

(* And what it did not find is still not there.                            *)
StillMissing ==
  \A c \in Callers : call[c].at \in Missing => record[call[c].name] = Nobody

Inv == TypeOK /\ OpenCalls /\ LockIsHeld /\ StillMissing

-----------------------------------------------------------------------------
LEMMA LocksAreKeys ==
  ASSUME NEW n \in Names
  PROVE  LockOf(n) \in Keys
BY DEF Names, LockOf

LEMMA InitInv == Init => Inv
<1> SUFFICES ASSUME Init PROVE Inv
  OBVIOUS
<1> USE IdempotencyAssumption
<1>1. NoCall \in Calls
  BY DEF NoCall, Outside, Calls, Ended
<1>2. TypeOK
  BY <1>1 DEF Init, TypeOK
<1>3. \A c \in Callers : call[c].at = "none"
  BY DEF Init, NoCall, Outside
<1> QED  BY <1>2, <1>3 DEF Inv, OpenCalls, LockIsHeld, StillMissing, Open, Holding, Missing

(* What an open call may become, and what it may store.                    *)
LEMMA OpenTyped ==
  ASSUME Inv, NEW c \in Callers, call[c].at \in Open
  PROVE  /\ call[c] \in Calls
         /\ Answer(c) \in Works
         /\ RecordOf(c) \in Records
         /\ RecordOf(c) # Nobody
         /\ WorkOf(c) \in [work : Works, name : Names, request : Requests,
                           began : 0 .. MaxTime, looked : 0 .. MaxTime]
         /\ \A answer \in Works : Told(c, answer) \in Calls
         /\ \A how \in Ended : Ending(c, how) \in Calls
<1>1. /\ call[c] \in Calls
      /\ call[c].try \in 1 .. MaxTries
      /\ call[c].name \in Names
      /\ call[c].request \in Requests
  BY DEF Inv, TypeOK, OpenCalls
<1>2. call[c].began \in 0 .. MaxTime /\ call[c].looked \in 0 .. MaxTime
  BY <1>1 DEF Calls
<1>3. Answer(c) \in Works
  BY <1>1 DEF Answer, Works
<1>4. RecordOf(c) \in Records
  BY <1>1, <1>2, <1>3 DEF RecordOf, Records
<1>5. RecordOf(c) # Nobody
  BY <1>4, IdempotencyAssumption
<1>6. call[c].try \in 0 .. MaxTries /\ 0 \in 0 .. MaxTime
  BY <1>1, IdempotencyAssumption
<1>7. \A how \in Ended : Ending(c, how) \in Calls
  BY <1>6 DEF Ending, Outside, Calls
<1>8. \A answer \in Works : Told(c, answer) \in Calls
  BY <1>1, <1>6 DEF Told, Outside, Calls, Ended
<1> QED  BY <1>1, <1>2, <1>3, <1>4, <1>5, <1>7, <1>8 DEF WorkOf

LEMMA ReleaseType ==
  ASSUME TypeOK, NEW c \in Callers, Release(c)
  PROVE  holder' \in [Keys -> Callers \cup {Nobody}]
BY DEF TypeOK, Release

(* A call that ends disturbs nobody else's.                                *)
LEMMA EndingKeepsOthers ==
  ASSUME Inv, NEW c \in Callers, NEW ended \in Calls, ended.at \in Ended,
         call' = [call EXCEPT ![c] = ended], Release(c), UNCHANGED record
  PROVE  OpenCalls' /\ LockIsHeld' /\ StillMissing'
<1>1. call \in [Callers -> Calls]
  BY DEF Inv, TypeOK
<1>2. call'[c].at \notin Open \cup Holding \cup Missing
  BY <1>1 DEF Ended, Open, Holding, Missing
<1>3. \A d \in Callers \ {c} : call'[d] = call[d]
  BY <1>1
<1>4. OpenCalls'
  BY <1>2, <1>3 DEF OpenCalls, Inv
<1>5. ASSUME NEW d \in Callers, call'[d].at \in Holding
      PROVE  holder'[LockOf(call'[d].name)] = d
  <2>1. d # c /\ call'[d] = call[d]
    BY <1>2, <1>3, <1>5
  <2>2. call[d].at \in Open
    BY <1>5, <2>1 DEF Holding, Open
  <2>3. LockOf(call[d].name) \in Keys
    BY <2>2, LocksAreKeys DEF Inv, OpenCalls
  <2>4. holder[LockOf(call[d].name)] = d
    BY <1>5, <2>1 DEF Inv, LockIsHeld
  <2> QED  BY <2>1, <2>3, <2>4 DEF Release
<1>6. StillMissing'
  BY <1>2, <1>3 DEF Inv, StillMissing
<1> QED  BY <1>4, <1>5, <1>6 DEF LockIsHeld

(* A call that moves on without ending, holding what it held.              *)
LEMMA MovingKeepsOthers ==
  ASSUME Inv, NEW c \in Callers, NEW to \in Open,
         call[c].at \in Holding, to \in Missing => record[call[c].name] = Nobody,
         NEW looked \in 0 .. MaxTime,
         call' = [call EXCEPT ![c].at = to, ![c].looked = looked],
         UNCHANGED <<record, holder>>
  PROVE  /\ call' \in [Callers -> Calls]
         /\ OpenCalls' /\ LockIsHeld' /\ StillMissing'
<1>1. call \in [Callers -> Calls]
  BY DEF Inv, TypeOK
<1>2. call[c].at \in Open
  BY DEF Holding, Open
<1>3. \A d \in Callers \ {c} : call'[d] = call[d]
  BY <1>1
<1>4. /\ call'[c].at = to /\ call'[c].looked = looked
      /\ call'[c].try = call[c].try /\ call'[c].name = call[c].name
      /\ call'[c].request = call[c].request
  BY <1>1 DEF Calls
<1>5. call' \in [Callers -> Calls]
  <2>1. [call[c] EXCEPT !.at = to, !.looked = looked] \in Calls
    BY <1>1 DEF Calls, Open
  <2>2. call' = [call EXCEPT ![c] = [call[c] EXCEPT !.at = to, !.looked = looked]]
    BY <1>1
  <2> QED  BY <1>1, <2>1, <2>2
<1>6. OpenCalls'
  BY <1>2, <1>3, <1>4 DEF Inv, OpenCalls
<1>7. LockIsHeld'
  <2> SUFFICES ASSUME NEW d \in Callers, call'[d].at \in Holding
               PROVE  holder[LockOf(call'[d].name)] = d
    BY DEF LockIsHeld
  <2>1. call[d].at \in Holding /\ call'[d].name = call[d].name
    BY <1>3, <1>4
  <2> QED  BY <2>1 DEF Inv, LockIsHeld
<1>8. StillMissing'
  <2> SUFFICES ASSUME NEW d \in Callers, call'[d].at \in Missing
               PROVE  record[call'[d].name] = Nobody
    BY DEF StillMissing
  <2>1. CASE d = c
    BY <1>4, <2>1
  <2>2. CASE d # c
    BY <1>3, <2>2 DEF Inv, StillMissing
  <2> QED  BY <2>1, <2>2
<1> QED  BY <1>5, <1>6, <1>7, <1>8

LEMMA BeginInv ==
  ASSUME Inv, NEW c \in Callers, Begin(c)
  PROVE  Inv'
<1>1. PICK n \in Names, r \in Requests :
        call' = [call EXCEPT ![c] = [at |-> "waiting", try |-> @.try + 1, name |-> n,
                                     request |-> r, began |-> now, looked |-> 0,
                                     answer |-> Nobody]]
  BY DEF Begin
<1>2. call \in [Callers -> Calls] /\ now \in 0 .. MaxTime
  BY DEF Inv, TypeOK
<1>3. call[c].try + 1 \in 1 .. MaxTries
  <2>1. call[c].try \in 0 .. MaxTries /\ call[c].try < MaxTries
    BY <1>2 DEF Calls, Begin
  <2> QED  BY <2>1, IdempotencyAssumption
<1>4. /\ call'[c].at = "waiting" /\ call'[c].try = call[c].try + 1
      /\ call'[c].name = n /\ call'[c].request = r
  BY <1>1, <1>2
<1>5. \A d \in Callers \ {c} : call'[d] = call[d]
  BY <1>1, <1>2
<1>6. call' \in [Callers -> Calls]
  <2>1. 0 \in 0 .. MaxTime /\ call[c].try + 1 \in 0 .. MaxTries
    BY <1>3, IdempotencyAssumption
  <2> QED  BY <1>1, <1>2, <2>1 DEF Calls, Open
<1>7. TypeOK'
  BY <1>6 DEF Inv, TypeOK, Begin
<1>8. OpenCalls'
  BY <1>3, <1>4, <1>5 DEF Inv, OpenCalls
<1>9. LockIsHeld'
  BY <1>4, <1>5 DEF Inv, LockIsHeld, Begin, Holding
<1>10. StillMissing'
  BY <1>4, <1>5 DEF Inv, StillMissing, Begin, Missing
<1> QED  BY <1>7, <1>8, <1>9, <1>10 DEF Inv

LEMMA LockInv ==
  ASSUME Inv, NEW c \in Callers, Lock(c)
  PROVE  Inv'
<1> DEFINE k == LockOf(call[c].name)
<1>1. call \in [Callers -> Calls] /\ holder \in [Keys -> Callers \cup {Nobody}]
  BY DEF Inv, TypeOK
<1>2. call[c].at \in Open /\ k \in Keys
  BY LocksAreKeys DEF Lock, Inv, OpenCalls, Open
<1>3. \A d \in Callers \ {c} : call'[d] = call[d]
  BY <1>1 DEF Lock
<1>4. /\ call'[c].at = "looking" /\ call'[c].try = call[c].try
      /\ call'[c].name = call[c].name /\ call'[c].request = call[c].request
  BY <1>1 DEF Lock, Calls
<1>5. TypeOK'
  <2>1. call' \in [Callers -> Calls]
    BY <1>1 DEF Lock, Calls, Open
  <2>2. holder' \in [Keys -> Callers \cup {Nobody}]
    BY <1>1 DEF Lock
  <2> QED  BY <2>1, <2>2 DEF Inv, TypeOK, Lock
<1>6. OpenCalls'
  BY <1>2, <1>3, <1>4 DEF Inv, OpenCalls
<1>7. ASSUME NEW d \in Callers, call'[d].at \in Holding
      PROVE  holder'[LockOf(call'[d].name)] = d
  <2>1. CASE d = c
    BY <1>1, <1>2, <1>4, <2>1 DEF Lock
  <2>2. CASE d # c
    <3>1. holder[LockOf(call[d].name)] = d
      BY <1>3, <1>7, <2>2 DEF Inv, LockIsHeld
    <3>2. LockOf(call[d].name) # k
      BY <3>1, IdempotencyAssumption DEF Lock
    <3> QED  BY <1>1, <1>3, <2>2, <3>1, <3>2 DEF Lock
  <2> QED  BY <2>1, <2>2
<1>8. StillMissing'
  BY <1>3, <1>4 DEF Inv, StillMissing, Lock, Missing
<1> QED  BY <1>5, <1>6, <1>7, <1>8 DEF Inv, LockIsHeld

LEMMA MissInv ==
  ASSUME Inv, NEW c \in Callers, Miss(c)
  PROVE  Inv'
<1>1. now \in 0 .. MaxTime /\ call[c].at \in Holding
  BY DEF Inv, TypeOK, Miss, Holding
<1>2. /\ call' \in [Callers -> Calls]
      /\ OpenCalls' /\ LockIsHeld' /\ StillMissing'
  <2>1. "working" \in Open
    BY DEF Open
  <2> QED  BY <1>1, <2>1, MovingKeepsOthers DEF Miss
<1> QED  BY <1>2 DEF Inv, TypeOK, Miss

LEMMA ReplayInv ==
  ASSUME Inv, NEW c \in Callers, Replay(c)
  PROVE  Inv'
<1> DEFINE found == record[call[c].name]
<1>1. call[c].at \in Open /\ call[c].name \in Names
  BY DEF Replay, Open, Inv, OpenCalls
<1>2. found \in Records
  BY <1>1 DEF Inv, TypeOK, Replay
<1>3. PICK ended \in Calls :
        ended.at \in Ended /\ call' = [call EXCEPT ![c] = ended]
  <2>1. CASE SameRequest(found, c)
    <3>1. Told(c, found.answer) \in Calls
      BY <1>1, <1>2, OpenTyped DEF Records
    <3>2. Told(c, found.answer).at \in Ended
      BY DEF Told, Outside, Ended
    <3>3. call' = [call EXCEPT ![c] = Told(c, found.answer)]
      BY <2>1 DEF Replay
    <3> QED  BY <3>1, <3>2, <3>3
  <2>2. CASE ~SameRequest(found, c)
    <3>1. "conflict" \in Ended
      BY DEF Ended
    <3>2. Ending(c, "conflict") \in Calls /\ Ending(c, "conflict").at \in Ended
      BY <1>1, <3>1, OpenTyped DEF Ending, Outside
    <3>3. call' = [call EXCEPT ![c] = Ending(c, "conflict")]
      BY <2>2 DEF Replay, Roll
    <3> QED  BY <3>2, <3>3
  <2> QED  BY <2>1, <2>2
<1>4. Release(c)
  BY DEF Replay, Roll
<1>5. OpenCalls' /\ LockIsHeld' /\ StillMissing'
  BY <1>3, <1>4, EndingKeepsOthers DEF Replay
<1>6. holder' \in [Keys -> Callers \cup {Nobody}]
  BY <1>4, ReleaseType DEF Inv
<1>7. call' \in [Callers -> Calls]
  BY <1>3 DEF Inv, TypeOK
<1> QED  BY <1>5, <1>6, <1>7 DEF Inv, TypeOK, Replay

(* A transaction that is rolled back leaves its caller outside, and nothing*)
(* else changed but the lock.                                              *)
LEMMA RollInv ==
  ASSUME Inv, NEW c \in Callers, NEW how \in Ended, call[c].at \in Open,
         Roll(c, how), UNCHANGED <<now, record, done, doomed>>
  PROVE  Inv'
<1>1. Ending(c, how) \in Calls /\ Ending(c, how).at \in Ended
  BY OpenTyped DEF Ending, Outside
<1>2. OpenCalls' /\ LockIsHeld' /\ StillMissing'
  BY <1>1, EndingKeepsOthers DEF Roll
<1>3. holder' \in [Keys -> Callers \cup {Nobody}]
  BY ReleaseType DEF Inv, Roll
<1>4. call' \in [Callers -> Calls]
  BY <1>1 DEF Inv, TypeOK, Roll
<1> QED  BY <1>2, <1>3, <1>4 DEF Inv, TypeOK

LEMMA StoreInv ==
  ASSUME Inv, NEW c \in Callers, Store(c)
  PROVE  /\ Inv'
         /\ call' = [call EXCEPT ![c].at = "stored"]
         /\ UNCHANGED <<now, record, holder, done, doomed>>
<1>1. call[c].at \in Holding /\ call[c].at \in Missing
  BY DEF Store, Holding, Missing
<1>2. record[call[c].name] = Nobody
  BY <1>1 DEF Inv, StillMissing
<1>3. call' = [call EXCEPT ![c].at = "stored"] /\ UNCHANGED <<now, record, holder, done, doomed>>
  BY <1>2 DEF Store
<1>4. call[c].looked \in 0 .. MaxTime /\ "stored" \in Open
  BY DEF Inv, TypeOK, Calls, Open
<1>5. call' = [call EXCEPT ![c].at = "stored", ![c].looked = call[c].looked]
  BY <1>3 DEF Inv, TypeOK, Calls
<1>6. /\ call' \in [Callers -> Calls]
      /\ OpenCalls' /\ LockIsHeld' /\ StillMissing'
  BY <1>1, <1>2, <1>3, <1>4, <1>5, MovingKeepsOthers
<1> QED  BY <1>3, <1>6 DEF Inv, TypeOK

(* Two calls past the lock under one name are one call.                    *)
LEMMA OnePerName ==
  ASSUME Inv, NEW c \in Callers, NEW d \in Callers,
         call[c].at \in Holding, call[d].at \in Holding, call[c].name = call[d].name
  PROVE  c = d
BY DEF Inv, LockIsHeld

LEMMA CommitInv ==
  ASSUME Inv, NEW c \in Callers, Commit(c)
  PROVE  Inv'
<1> DEFINE n == call[c].name
<1>1. call[c].at \in Open /\ call[c].at \in Holding /\ n \in Names
  BY DEF Commit, Open, Holding, Inv, OpenCalls
<1>2. /\ RecordOf(c) \in Records /\ Answer(c) \in Works
      /\ WorkOf(c) \in [work : Works, name : Names, request : Requests,
                        began : 0 .. MaxTime, looked : 0 .. MaxTime]
  BY <1>1, OpenTyped
<1>3. Told(c, Answer(c)) \in Calls
  BY <1>1, <1>2, OpenTyped
<1>4. Told(c, Answer(c)).at = "answered"
  BY DEF Told, Outside
<1>5. call \in [Callers -> Calls] /\ record \in [Names -> Records \cup {Nobody}]
  BY DEF Inv, TypeOK
<1>6. TypeOK'
  <2>1. call' \in [Callers -> Calls]
    BY <1>3, <1>5 DEF Commit
  <2>2. record' \in [Names -> Records \cup {Nobody}]
    BY <1>2, <1>5 DEF Commit
  <2>3. holder' \in [Keys -> Callers \cup {Nobody}]
    BY ReleaseType DEF Inv, Commit
  <2>4. done' \subseteq [work : Works, name : Names, request : Requests,
                         began : 0 .. MaxTime, looked : 0 .. MaxTime]
    BY <1>2 DEF Inv, TypeOK, Commit
  <2> QED  BY <2>1, <2>2, <2>3, <2>4 DEF Inv, TypeOK, Commit
<1>7. call'[c].at \notin Open \cup Holding \cup Missing
  BY <1>4, <1>5 DEF Commit, Open, Holding, Missing
<1>8. \A d \in Callers \ {c} : call'[d] = call[d]
  BY <1>5 DEF Commit
<1>9. OpenCalls'
  BY <1>7, <1>8 DEF Inv, OpenCalls
<1>10. ASSUME NEW d \in Callers, call'[d].at \in Holding
       PROVE  holder'[LockOf(call'[d].name)] = d
  <2>1. d # c /\ call'[d] = call[d]
    BY <1>7, <1>8, <1>10
  <2>2. LockOf(call[d].name) \in Keys
    BY <1>10, <2>1, LocksAreKeys DEF Inv, OpenCalls, Holding, Open
  <2>3. holder[LockOf(call[d].name)] = d
    BY <1>10, <2>1 DEF Inv, LockIsHeld
  <2> QED  BY <2>1, <2>2, <2>3 DEF Commit, Release
<1>11. ASSUME NEW d \in Callers, call'[d].at \in Missing
       PROVE  record'[call'[d].name] = Nobody
  <2>1. d # c /\ call'[d] = call[d]
    BY <1>7, <1>8, <1>11
  <2>2. call[d].at \in Holding /\ call[d].name \in Names
    BY <1>11, <2>1 DEF Missing, Holding, Open, Inv, OpenCalls
  <2>3. call[d].name # n
    BY <1>1, <2>1, <2>2, OnePerName
  <2>4. record[call[d].name] = Nobody
    BY <1>11, <2>1 DEF Inv, StillMissing
  <2> QED  BY <1>5, <2>1, <2>2, <2>3, <2>4 DEF Commit
<1> QED  BY <1>6, <1>9, <1>10, <1>11 DEF Inv, LockIsHeld, StillMissing

LEMMA SweepInv ==
  ASSUME Inv, NEW s \in Sweepers, SweepStep(s)
  PROVE  Inv'
<1>1. UNCHANGED <<now, holder, call, done>>
  BY DEF SweepStep, SweepRead, SweepDelete, SweepFail
<1>2. /\ record' \in [Names -> Records \cup {Nobody}]
      /\ \A n \in Names : record[n] = Nobody => record'[n] = Nobody
  BY DEF SweepStep, SweepRead, SweepDelete, SweepFail, Inv, TypeOK
<1>3. doomed' \in [Sweepers -> SUBSET Names]
  BY DEF SweepStep, SweepRead, SweepDelete, SweepFail, Stale, Inv, TypeOK
<1>4. StillMissing'
  BY <1>1, <1>2 DEF Inv, StillMissing, OpenCalls, Missing, Open
<1> QED  BY <1>1, <1>2, <1>3, <1>4 DEF Inv, TypeOK, OpenCalls, LockIsHeld

LEMMA TickInv ==
  ASSUME Inv, Tick
  PROVE  Inv' /\ now' > now
BY IdempotencyAssumption DEF Tick, Inv, TypeOK, OpenCalls, LockIsHeld, StillMissing

LEMMA NextInv ==
  ASSUME Inv, [Next]_vars
  PROVE  Inv'
<1>1. ASSUME NEW c \in Callers, Begin(c)  PROVE Inv'
  BY <1>1, BeginInv
<1>2. ASSUME NEW c \in Callers, Lock(c)  PROVE Inv'
  BY <1>2, LockInv
<1>3. ASSUME NEW c \in Callers, Miss(c)  PROVE Inv'
  BY <1>3, MissInv
<1>4. ASSUME NEW c \in Callers, Replay(c)  PROVE Inv'
  BY <1>4, ReplayInv
<1>5. ASSUME NEW c \in Callers, Store(c)  PROVE Inv'
  BY <1>5, StoreInv
<1>6. ASSUME NEW c \in Callers, Commit(c)  PROVE Inv'
  BY <1>6, CommitInv
<1>7. ASSUME NEW c \in Callers, Fail(c)  PROVE Inv'
  <2>1. "failed" \in Ended
    BY DEF Ended
  <2> QED  BY <1>7, <2>1, RollInv DEF Fail
<1>8. ASSUME NEW s \in Sweepers, SweepStep(s)  PROVE Inv'
  BY <1>8, SweepInv
<1>9. CASE Tick
  BY <1>9, TickInv
<1>10. CASE UNCHANGED vars
  BY <1>10 DEF vars, Inv, TypeOK, OpenCalls, LockIsHeld, StillMissing
<1> QED  BY <1>1, <1>2, <1>3, <1>4, <1>5, <1>6, <1>7, <1>8, <1>9, <1>10 DEF Next, CallStep

(* The model is well typed, whatever its constants.                        *)
THEOREM IdempotencyTypeCorrect == Spec => []TypeOK
<1>1. Inv => TypeOK
  BY DEF Inv
<1> QED  BY <1>1, InitInv, NextInv, PTL DEF Spec

-----------------------------------------------------------------------------
(* Nobody collides: the only way to is to store over a record that was not *)
(* there when the holder of the key looked.                                *)
LEMMA NextQuiet ==
  ASSUME Inv, RetriesAreQuiet, [Next]_vars
  PROVE  RetriesAreQuiet'
<1>1. call \in [Callers -> Calls]
  BY DEF Inv, TypeOK
<1>2. ASSUME NEW c \in Callers, Begin(c) \/ Lock(c) \/ Miss(c)
      PROVE  RetriesAreQuiet'
  <2>1. CASE Begin(c)
    BY <1>1, <2>1 DEF Begin, RetriesAreQuiet
  <2>2. CASE Lock(c)
    BY <1>1, <2>2 DEF Lock, RetriesAreQuiet
  <2>3. CASE Miss(c)
    BY <1>1, <2>3 DEF Miss, RetriesAreQuiet
  <2> QED  BY <1>2, <2>1, <2>2, <2>3
<1>3. ASSUME NEW c \in Callers, Replay(c)
      PROVE  RetriesAreQuiet'
  BY <1>1, <1>3 DEF Replay, Roll, Told, Ending, Outside, RetriesAreQuiet
<1>4. ASSUME NEW c \in Callers, Store(c)
      PROVE  RetriesAreQuiet'
  <2>1. call' = [call EXCEPT ![c].at = "stored"]
    BY <1>4, StoreInv
  <2> QED  BY <1>1, <2>1 DEF RetriesAreQuiet
<1>5. ASSUME NEW c \in Callers, Commit(c)
      PROVE  RetriesAreQuiet'
  BY <1>1, <1>5 DEF Commit, Told, Outside, RetriesAreQuiet
<1>6. ASSUME NEW c \in Callers, Fail(c)
      PROVE  RetriesAreQuiet'
  BY <1>1, <1>6 DEF Fail, Roll, Ending, Outside, RetriesAreQuiet
<1>7. CASE UNCHANGED call
  BY <1>7 DEF RetriesAreQuiet
<1> QED  BY <1>2, <1>3, <1>4, <1>5, <1>6, <1>7
         DEF Next, CallStep, SweepStep, SweepRead, SweepDelete, SweepFail, Tick, vars

(* RetriesAreQuiet, for any number of callers and of sweepers: the lock and*)
(* the lookup inside it turn every race into a replay or a refusal.        *)
THEOREM EveryRetryIsQuiet == Spec => []RetriesAreQuiet
<1>1. Init => RetriesAreQuiet
  BY DEF Init, NoCall, Outside, RetriesAreQuiet
<1> QED  BY <1>1, InitInv, NextInv, NextQuiet, PTL DEF Spec

-----------------------------------------------------------------------------
(* What a step may do to the answers: a committed record answers for the   *)
(* work committed with it, and a replay hands on what a record says.       *)
LEMMA NextHonest ==
  ASSUME Inv, RecordsStandForWork, AnswersAreHonest, [Next]_vars
  PROVE  RecordsStandForWork' /\ AnswersAreHonest'
<1>1. /\ call \in [Callers -> Calls]
      /\ record \in [Names -> Records \cup {Nobody}]
  BY DEF Inv, TypeOK
<1>2. ASSUME UNCHANGED <<record, done>>
      PROVE  RecordsStandForWork'
  BY <1>2 DEF RecordsStandForWork
<1>3. ASSUME NEW c \in Callers, NEW to \in Calls, to.at # "answered",
             call' = [call EXCEPT ![c] = to], UNCHANGED done
      PROVE  AnswersAreHonest'
  <2>1. \A d \in Callers : call'[d].at = "answered" => call'[d] = call[d]
    BY <1>1, <1>3
  <2> QED  BY <1>3, <2>1 DEF AnswersAreHonest
<1>4. ASSUME NEW c \in Callers, Begin(c) \/ Lock(c) \/ Miss(c) \/ Store(c) \/ Fail(c)
      PROVE  RecordsStandForWork' /\ AnswersAreHonest'
  <2>1. call' \in [Callers -> Calls]
    BY <1>4, NextInv DEF Inv, TypeOK, Next, CallStep
  <2>2. call'[c] \in Calls /\ call'[c].at # "answered"
    <3>1. CASE Begin(c)
      BY <1>1, <2>1, <3>1 DEF Begin
    <3>2. CASE Lock(c)
      BY <1>1, <2>1, <3>2 DEF Lock
    <3>3. CASE Miss(c)
      BY <1>1, <2>1, <3>3 DEF Miss
    <3>4. CASE Store(c)
      <4>1. call' = [call EXCEPT ![c].at = "stored"]
        BY <3>4, StoreInv
      <4> QED  BY <1>1, <2>1, <4>1
    <3>5. CASE Fail(c)
      BY <1>1, <2>1, <3>5 DEF Fail, Roll, Ending, Outside
    <3> QED  BY <1>4, <3>1, <3>2, <3>3, <3>4, <3>5
  <2>3. call' = [call EXCEPT ![c] = call'[c]]
    <3>1. \A d \in Callers \ {c} : call'[d] = call[d]
      <4>1. CASE Begin(c)
        BY <1>1, <4>1 DEF Begin
      <4>2. CASE Lock(c)
        BY <1>1, <4>2 DEF Lock
      <4>3. CASE Miss(c)
        BY <1>1, <4>3 DEF Miss
      <4>4. CASE Store(c)
        BY <1>1, <4>4, StoreInv
      <4>5. CASE Fail(c)
        BY <1>1, <4>5 DEF Fail, Roll
      <4> QED  BY <1>4, <4>1, <4>2, <4>3, <4>4, <4>5
    <3> QED  BY <1>1, <2>1, <3>1
  <2>4. UNCHANGED <<record, done>>
    BY <1>4 DEF Begin, Lock, Miss, Store, Fail
  <2> QED  BY <1>2, <1>3, <2>2, <2>3, <2>4
<1>5. ASSUME NEW c \in Callers, Replay(c)
      PROVE  RecordsStandForWork' /\ AnswersAreHonest'
  <2> DEFINE n == call[c].name
  <2>1. UNCHANGED <<record, done>>
    BY <1>5 DEF Replay
  <2>2. CASE SameRequest(record[n], c)
    <3>1. call' = [call EXCEPT ![c] = Told(c, record[n].answer)]
      BY <1>5, <2>2 DEF Replay
    <3>2. n \in Names /\ record[n] # Nobody
      BY <1>5 DEF Replay, Open, Inv, OpenCalls
    <3>3. PICK w \in done : /\ w.name = n /\ w.work = record[n].answer
                            /\ w.request = record[n].request
      BY <3>2 DEF RecordsStandForWork
    <3>4. w.request = call[c].request
      BY <2>2, <3>3 DEF SameRequest
    <3>5. /\ call'[c].name = n /\ call'[c].answer = record[n].answer
          /\ call'[c].request = call[c].request
      BY <1>1, <3>1 DEF Told, Outside
    <3>6. \A d \in Callers \ {c} : call'[d] = call[d]
      BY <1>1, <3>1
    <3>7. AnswersAreHonest'
      BY <2>1, <3>3, <3>4, <3>5, <3>6 DEF AnswersAreHonest
    <3> QED  BY <1>2, <2>1, <3>7
  <2>3. CASE ~SameRequest(record[n], c)
    <3>1. call' = [call EXCEPT ![c] = Ending(c, "conflict")]
      BY <1>5, <2>3 DEF Replay, Roll
    <3>2. Ending(c, "conflict") \in Calls
      BY <1>5, OpenTyped DEF Replay, Open, Ended
    <3>3. Ending(c, "conflict").at # "answered"
      BY DEF Ending, Outside
    <3> QED  BY <1>2, <1>3, <2>1, <3>1, <3>2, <3>3
  <2> QED  BY <2>2, <2>3
<1>6. ASSUME NEW c \in Callers, Commit(c)
      PROVE  RecordsStandForWork' /\ AnswersAreHonest'
  <2> DEFINE n == call[c].name
  <2>1. WorkOf(c) \in done' /\ done \subseteq done'
    BY <1>6 DEF Commit
  <2>2. /\ WorkOf(c).name = n /\ WorkOf(c).request = call[c].request
        /\ WorkOf(c).work = Answer(c) /\ WorkOf(c).began = call[c].began
    BY DEF WorkOf
  <2>3. /\ call'[c].name = n /\ call'[c].answer = Answer(c)
        /\ call'[c].request = call[c].request
    BY <1>1, <1>6 DEF Commit, Told, Outside
  <2>4. \A d \in Callers \ {c} : call'[d] = call[d]
    BY <1>1, <1>6 DEF Commit
  <2>5. AnswersAreHonest'
    BY <2>1, <2>2, <2>3, <2>4 DEF AnswersAreHonest
  <2>6. n \in Names
    BY <1>6 DEF Commit, Open, Inv, OpenCalls
  <2>7. /\ record'[n].answer = Answer(c) /\ record'[n].at = call[c].began
        /\ record'[n].request = call[c].request
    BY <1>1, <1>6, <2>6 DEF Commit, RecordOf
  <2>8. \A m \in Names \ {n} : record'[m] = record[m]
    BY <1>1, <1>6 DEF Commit
  <2>9. RecordsStandForWork'
    BY <2>1, <2>2, <2>7, <2>8 DEF RecordsStandForWork
  <2> QED  BY <2>5, <2>9
<1>7. ASSUME NEW s \in Sweepers, SweepStep(s)
      PROVE  RecordsStandForWork' /\ AnswersAreHonest'
  <2>1. UNCHANGED <<call, done>>
    BY <1>7 DEF SweepStep, SweepRead, SweepDelete, SweepFail
  <2>2. \A n \in Names : record'[n] \in {record[n], Nobody}
    BY <1>7 DEF SweepStep, SweepRead, SweepDelete, SweepFail
  <2> QED  BY <2>1, <2>2 DEF RecordsStandForWork, AnswersAreHonest
<1>8. CASE Tick \/ UNCHANGED vars
  BY <1>8 DEF Tick, vars, RecordsStandForWork, AnswersAreHonest
<1> QED  BY <1>4, <1>5, <1>6, <1>7, <1>8 DEF Next, CallStep

LEMMA InitHonest == Init => RecordsStandForWork /\ AnswersAreHonest
BY DEF Init, NoCall, Outside, RecordsStandForWork, AnswersAreHonest

(* RecordsStandForWork: no record outlives a rollback of its work, with any*)
(* number of sweepers.                                                     *)
THEOREM NoRecordWithoutWork == Spec => []RecordsStandForWork
<1>1. Inv /\ (RecordsStandForWork /\ AnswersAreHonest) /\ [Next]_vars
        => (RecordsStandForWork /\ AnswersAreHonest)'
  BY NextHonest
<1> QED  BY <1>1, InitInv, NextInv, InitHonest, PTL DEF Spec

(* AnswersAreHonest: whoever is answered, is answered about work that was  *)
(* committed for the request it sent.                                      *)
THEOREM EveryAnswerIsHonest == Spec => []AnswersAreHonest
<1>1. Inv /\ (RecordsStandForWork /\ AnswersAreHonest) /\ [Next]_vars
        => (RecordsStandForWork /\ AnswersAreHonest)'
  BY NextHonest
<1> QED  BY <1>1, InitInv, NextInv, InitHonest, PTL DEF Spec

-----------------------------------------------------------------------------
(* The window.  What a sweeper has read and not yet deleted is still what  *)
(* it read, as long as nobody else deletes; so what is missing when a call *)
(* looks has outlived the window, and so has the work it stood for.        *)
OneSweeper == Retention = 0 \/ \A s, t \in Sweepers : s = t

DoomedAreStale ==
  \A s \in Sweepers : \A n \in doomed[s] :
    Retention > 0 /\ record[n] # Nobody /\ Outlived(record[n])

Past(w, time) == Retention > 0 /\ time - w.began > Retention
WorkIsRemembered ==
  \A w \in done :
    \/ record[w.name] # Nobody /\ record[w.name].at = w.began
    \/ Past(w, now)

LookedAfter ==
  \A c \in Callers :
    call[c].at \in Missing =>
      \A w \in done : w.name = call[c].name => Past(w, call[c].looked)

Window == DoomedAreStale /\ WorkIsRemembered /\ LookedAfter /\ OncePerWindow

LEMMA InitWindow == Init => Window
BY DEF Init, Window, DoomedAreStale, WorkIsRemembered, LookedAfter, OncePerWindow

(* Steps that neither commit, delete nor move the clock, of callers that   *)
(* do not come to have missed anything by them.                            *)
LEMMA WindowKept ==
  ASSUME Window, UNCHANGED <<now, record, done, doomed>>,
         \A c \in Callers :
           call'[c].at \in Missing =>
             /\ call[c].at \in Missing
             /\ call'[c].name = call[c].name /\ call'[c].looked = call[c].looked
  PROVE  Window'
<1>1. DoomedAreStale' /\ WorkIsRemembered' /\ OncePerWindow'
  BY DEF Window, DoomedAreStale, WorkIsRemembered, OncePerWindow, Outlived, Past
<1>2. LookedAfter'
  BY DEF Window, LookedAfter, Past
<1> QED  BY <1>1, <1>2 DEF Window

LEMMA QuietWindow ==
  ASSUME Inv, Window, NEW c \in Callers,
         Begin(c) \/ Lock(c) \/ Replay(c) \/ Store(c) \/ Fail(c)
  PROVE  Window'
<1>1. call \in [Callers -> Calls]
  BY DEF Inv, TypeOK
<1>2. UNCHANGED <<now, record, done, doomed>>
  BY DEF Begin, Lock, Replay, Store, Fail
<1>3. CASE Begin(c)
  BY <1>1, <1>2, <1>3, WindowKept DEF Begin, Missing
<1>4. CASE Lock(c)
  BY <1>1, <1>2, <1>4, WindowKept DEF Lock, Missing
<1>5. CASE Replay(c)
  BY <1>1, <1>2, <1>5, WindowKept DEF Replay, Roll, Told, Ending, Outside, Missing
<1>6. CASE Store(c)
  <2>1. call' = [call EXCEPT ![c].at = "stored"] /\ call[c].at \in Missing
    BY <1>6, StoreInv DEF Store, Missing
  <2> QED  BY <1>1, <1>2, <2>1, WindowKept DEF Calls
<1>7. CASE Fail(c)
  BY <1>1, <1>2, <1>7, WindowKept DEF Fail, Roll, Ending, Outside, Missing
<1> QED  BY <1>3, <1>4, <1>5, <1>6, <1>7

(* What is not there when a call looks was swept, or never was.            *)
LEMMA MissWindow ==
  ASSUME Inv, Window, NEW c \in Callers, Miss(c)
  PROVE  Window'
<1>1. call \in [Callers -> Calls]
  BY DEF Inv, TypeOK
<1>2. DoomedAreStale' /\ WorkIsRemembered' /\ OncePerWindow'
  BY DEF Miss, Window, DoomedAreStale, WorkIsRemembered, OncePerWindow, Outlived, Past
<1>3. \A w \in done : w.name = call[c].name => Past(w, now)
  BY DEF Miss, Window, WorkIsRemembered
<1>4. call'[c].looked = now /\ call'[c].name = call[c].name
  BY <1>1 DEF Miss, Calls
<1>5. \A d \in Callers \ {c} : call'[d] = call[d]
  BY <1>1 DEF Miss
<1>6. UNCHANGED done
  BY DEF Miss
<1>7. LookedAfter'
  BY <1>3, <1>4, <1>5, <1>6 DEF Window, LookedAfter, Past
<1> QED  BY <1>2, <1>7 DEF Window

LEMMA CommitWindow ==
  ASSUME Inv, Window, NEW c \in Callers, Commit(c)
  PROVE  Window'
<1> DEFINE n == call[c].name
           w == WorkOf(c)
<1>1. /\ call \in [Callers -> Calls]
      /\ record \in [Names -> Records \cup {Nobody}]
      /\ done \subseteq [work : Works, name : Names, request : Requests,
                         began : 0 .. MaxTime, looked : 0 .. MaxTime]
  BY DEF Inv, TypeOK
<1>2. call[c].at \in Open /\ call[c].at \in Holding /\ call[c].at \in Missing
  BY DEF Commit, Open, Holding, Missing
<1>3. n \in Names /\ record[n] = Nobody
  BY <1>2 DEF Inv, OpenCalls, StillMissing
<1>4. w.name = n /\ w.began = call[c].began /\ w.looked = call[c].looked
  BY DEF WorkOf
<1>5. done' = done \cup {w} /\ now' = now /\ doomed' = doomed
  BY DEF Commit
<1>6. \A m \in Names \ {n} : record'[m] = record[m]
  BY <1>1 DEF Commit
<1>7. record'[n] # Nobody /\ record'[n].at = w.began
  BY <1>1, <1>2, <1>3, <1>4, OpenTyped DEF Commit, RecordOf
<1>8. \A v \in done : v.name = n => Past(v, w.looked)
  BY <1>2, <1>4 DEF Window, LookedAfter
<1>9. DoomedAreStale'
  <2>1. \A s \in Sweepers : n \notin doomed[s] /\ doomed[s] \subseteq Names
    BY <1>3 DEF Window, DoomedAreStale, Inv, TypeOK
  <2> QED  BY <1>5, <1>6, <2>1 DEF Window, DoomedAreStale, Outlived
<1>10. ASSUME NEW v \in done
       PROVE  \/ record'[v.name] # Nobody /\ record'[v.name].at = v.began
              \/ Past(v, now)
  <2>1. CASE v.name = n
    BY <1>3, <2>1 DEF Window, WorkIsRemembered
  <2>2. CASE v.name # n
    BY <1>1, <1>6, <2>2 DEF Window, WorkIsRemembered
  <2> QED  BY <2>1, <2>2
<1>11. WorkIsRemembered'
  BY <1>4, <1>5, <1>7, <1>10 DEF WorkIsRemembered, Past
<1>12. ASSUME NEW d \in Callers, call'[d].at \in Missing
       PROVE  d # c /\ call'[d] = call[d] /\ call[d].name # n
  <2>1. d # c
    BY <1>1, <1>12 DEF Commit, Told, Outside, Missing
  <2>2. call'[d] = call[d]
    BY <1>1, <2>1 DEF Commit
  <2>3. call[d].at \in Holding
    BY <1>12, <2>2 DEF Missing, Holding
  <2> QED  BY <1>2, <2>1, <2>2, <2>3, OnePerName
<1>13. LookedAfter'
  BY <1>4, <1>5, <1>12 DEF Window, LookedAfter, Past
<1>14. OncePerWindow'
  <2>1. ASSUME NEW u \in done', NEW v \in done', u # v, u.name = v.name
        PROVE  Retention > 0 /\ (v.looked - u.began > Retention \/ u.looked - v.began > Retention)
    <3>1. CASE u \in done /\ v \in done
      BY <2>1, <3>1 DEF Window, OncePerWindow
    <3>2. CASE u = w /\ v \in done
      BY <1>4, <1>8, <2>1, <3>2 DEF Past
    <3>3. CASE v = w /\ u \in done
      BY <1>4, <1>8, <2>1, <3>3 DEF Past
    <3> QED  BY <1>5, <2>1, <3>1, <3>2, <3>3
  <2> QED  BY <2>1 DEF OncePerWindow
<1> QED  BY <1>9, <1>11, <1>13, <1>14 DEF Window

LEMMA SweepWindow ==
  ASSUME OneSweeper, Inv, Window, NEW s \in Sweepers, SweepStep(s)
  PROVE  Window'
<1>1. UNCHANGED <<now, call, done>>
  BY DEF SweepStep, SweepRead, SweepDelete, SweepFail
<1>2. LookedAfter' /\ OncePerWindow'
  BY <1>1 DEF Window, LookedAfter, OncePerWindow, Past
<1>3. doomed \in [Sweepers -> SUBSET Names]
  BY DEF Inv, TypeOK
<1>4. CASE SweepRead(s)
  <2>1. Retention > 0 /\ UNCHANGED record
    BY <1>4 DEF SweepRead
  <2>2. doomed'[s] \subseteq Stale /\ \A t \in Sweepers \ {s} : doomed'[t] = doomed[t]
    BY <1>3, <1>4 DEF SweepRead
  <2>3. DoomedAreStale'
    BY <1>1, <2>1, <2>2 DEF Window, DoomedAreStale, Stale, Outlived
  <2>4. WorkIsRemembered'
    BY <1>1, <2>1 DEF Window, WorkIsRemembered, Past
  <2> QED  BY <1>2, <2>3, <2>4 DEF Window
<1>5. CASE SweepDelete(s)
  <2>1. Retention > 0
    BY <1>3, <1>5 DEF SweepDelete, Window, DoomedAreStale
  <2>2. \A t \in Sweepers : doomed'[t] = {}
    BY <1>3, <1>5, <2>1, IdempotencyAssumption DEF SweepDelete, OneSweeper
  <2>3. DoomedAreStale'
    BY <2>2 DEF DoomedAreStale
  <2>4. ASSUME NEW w \in done
        PROVE  \/ record'[w.name] # Nobody /\ record'[w.name].at = w.began
               \/ Past(w, now)
    <3>1. w.name \in Names
      BY DEF Inv, TypeOK
    <3>2. CASE w.name \in doomed[s]
      BY <3>2 DEF Window, WorkIsRemembered, DoomedAreStale, Outlived, Past
    <3>3. CASE w.name \notin doomed[s]
      BY <1>5, <3>1, <3>3 DEF SweepDelete, Window, WorkIsRemembered
    <3> QED  BY <3>2, <3>3
  <2>5. WorkIsRemembered'
    BY <1>1, <2>4 DEF WorkIsRemembered, Past
  <2> QED  BY <1>2, <2>3, <2>5 DEF Window
<1>6. CASE SweepFail(s)
  <2>1. UNCHANGED record /\ \A t \in Sweepers : doomed'[t] \subseteq doomed[t]
    BY <1>3, <1>6 DEF SweepFail
  <2>2. DoomedAreStale' /\ WorkIsRemembered'
    BY <1>1, <2>1 DEF Window, DoomedAreStale, WorkIsRemembered, Outlived, Past
  <2> QED  BY <1>2, <2>2 DEF Window
<1> QED  BY <1>4, <1>5, <1>6 DEF SweepStep

(* Time only takes records and work further out of the window.             *)
LEMMA TickWindow ==
  ASSUME Inv, Window, Tick
  PROVE  Window'
<1>1. now \in Nat /\ now' = now + 1 /\ UNCHANGED <<record, call, done, doomed>>
  BY DEF Inv, TypeOK, Tick
<1>2. \A w \in done : w.began \in Int
  BY DEF Inv, TypeOK
<1>3. \A n \in Names : record[n] # Nobody => record[n].at \in Int
  BY DEF Inv, TypeOK, Records
<1>4. DoomedAreStale'
  <2>1. \A s \in Sweepers : doomed[s] \subseteq Names
    BY DEF Inv, TypeOK
  <2> QED  BY <1>1, <1>3, <2>1, IdempotencyAssumption DEF Window, DoomedAreStale, Outlived
<1>5. WorkIsRemembered'
  BY <1>1, <1>2, IdempotencyAssumption DEF Window, WorkIsRemembered, Past
<1>6. LookedAfter' /\ OncePerWindow'
  BY <1>1 DEF Window, LookedAfter, OncePerWindow, Past
<1> QED  BY <1>4, <1>5, <1>6 DEF Window

LEMMA NextWindow ==
  ASSUME OneSweeper, Inv, Window, [Next]_vars
  PROVE  Window'
<1>1. CASE UNCHANGED vars
  <2>1. UNCHANGED <<now, record, call, done, doomed>>
    BY <1>1 DEF vars
  <2> QED  BY <2>1, WindowKept
<1> QED  BY <1>1, QuietWindow, MissWindow, CommitWindow, SweepWindow, TickWindow
         DEF Next, CallStep

(* OncePerWindow: while at most one process sweeps, or nothing is swept, a *)
(* key's work is not repeated within its window, whatever fails and however*)
(* often it is retried.                                                    *)
THEOREM WorkIsDoneOncePerWindow ==
  ASSUME OneSweeper
  PROVE  Spec => []OncePerWindow
<1>1. Inv /\ Window /\ [Next]_vars => Window'
  BY NextWindow
<1>2. Window => OncePerWindow
  BY DEF Window
<1> QED  BY <1>1, <1>2, InitInv, NextInv, InitWindow, PTL DEF Spec

(* NothingElseIsSwept, under the same condition.                           *)
THEOREM OnlyTheOutlivedAreSwept ==
  ASSUME OneSweeper
  PROVE  Spec => NothingElseIsSwept
<1>1. Inv /\ Window /\ [Next]_vars => Window'
  BY NextWindow
<1>2. ASSUME Inv, Window, [Next]_vars, NEW n \in Names,
             record[n] # Nobody, record'[n] = Nobody
      PROVE  now - record[n].at > Retention
  <2>1. ASSUME NEW c \in Callers, CallStep(c)  PROVE FALSE
    <3>1. CASE Commit(c)
      <4>1. RecordOf(c) # Nobody
        BY <1>2, <3>1, OpenTyped DEF Commit, Open
      <4>2. record'[n] \in {record[n], RecordOf(c)}
        <5>1. record \in [Names -> Records \cup {Nobody}]
          BY <1>2 DEF Inv, TypeOK
        <5>2. record' = [record EXCEPT ![call[c].name] = RecordOf(c)]
          BY <3>1 DEF Commit
        <5> QED  BY <5>1, <5>2
      <4> QED  BY <1>2, <4>1, <4>2
    <3>2. CASE ~Commit(c)
      BY <1>2, <2>1, <3>2 DEF CallStep, Begin, Lock, Miss, Replay, Store, Fail
    <3> QED  BY <3>1, <3>2
  <2>2. PICK s \in Sweepers : SweepStep(s)
    BY <1>2, <2>1 DEF Next, Tick, vars
  <2>3. n \in doomed[s]
    BY <1>2, <2>2 DEF SweepStep, SweepRead, SweepDelete, SweepFail
  <2> QED  BY <1>2, <2>3 DEF Window, DoomedAreStale, Outlived
<1>3. Inv /\ Window /\ [Next]_vars
        => [\A n \in Names :
              record[n] # Nobody /\ record'[n] = Nobody => now - record[n].at > Retention]_vars
  BY <1>2
<1> QED  BY <1>1, <1>3, InitInv, NextInv, InitWindow, PTL DEF Spec, NothingElseIsSwept
=============================================================================
