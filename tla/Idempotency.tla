----------------------------- MODULE Idempotency -----------------------------
(***************************************************************************)
(* The record that makes a retried write replay.  A call holds its key's   *)
(* advisory lock for one transaction in which it looks the key up, does    *)
(* the work and stores the answer; sweepers delete the records that have   *)
(* outlived the retention window.                                          *)
(***************************************************************************)
EXTENDS Integers, FiniteSets

CONSTANTS Callers,    \* clients and their connections
          Keys,       \* what one lock guards: a user, an operation, a key
          Doors,      \* where a call comes in: the service, or MCP's wrapper
          Requests,   \* what a key is sent with, as far as its hash can tell
          Sweepers,   \* processes that run the retention sweep
          Nobody,     \* no caller, and no record
          Retention,  \* IDEMPOTENCY_RETENTION_HOURS; 0 keeps records forever
          BatchSize,  \* IDEMPOTENCY_SWEEP_BATCH
          MaxTries,   \* bound: the calls of one caller
          MaxTime     \* bound: the clock

(* A record's primary key: MCP prefixes the operation, the lock does not.  *)
Names == Keys \X Doors
LockOf(name) == name[1]

(* The answer stands for the work it answers: whose try it was.            *)
Works == Callers \X (1 .. MaxTries)
Records == [request : Requests, answer : Works, at : 0 .. MaxTime]

ASSUME IdempotencyAssumption ==
  /\ Nobody \notin Callers \cup Records
  /\ Retention \in Nat /\ BatchSize \in Nat \ {0}
  /\ MaxTries \in Nat /\ MaxTime \in Nat
  /\ IsFiniteSet(Keys) /\ IsFiniteSet(Doors)

VARIABLES now,
          record,  \* record[n]: the committed record under a name
          holder,  \* holder[k]: who has the key's advisory lock
          call,    \* call[c]: the caller's transaction, or how its last ended
          done,    \* the work that was ever committed
          doomed   \* doomed[s]: the names the sweeper has read and not deleted
vars == <<now, record, holder, call, done, doomed>>

Ended == {"none", "answered", "conflict", "failed", "collided"}
Open == {"waiting", "looking", "working", "stored"}

Calls == [at : Ended \cup Open, try : 0 .. MaxTries, name : Names \cup {Nobody},
          request : Requests \cup {Nobody}, began : 0 .. MaxTime, looked : 0 .. MaxTime,
          answer : Works \cup {Nobody}]

(* Outside a transaction a caller has only how its last one ended and, when*)
(* that was an answer, what it is the answer to.                           *)
Outside(how, try, name, request, answer) ==
  [at |-> how, try |-> try, name |-> name, request |-> request,
   began |-> 0, looked |-> 0, answer |-> answer]
NoCall == Outside("none", 0, Nobody, Nobody, Nobody)

TypeOK ==
  /\ now \in 0 .. MaxTime
  /\ record \in [Names -> Records \cup {Nobody}]
  /\ holder \in [Keys -> Callers \cup {Nobody}]
  /\ call \in [Callers -> Calls]
  /\ done \subseteq [work : Works, name : Names, request : Requests,
                     began : 0 .. MaxTime, looked : 0 .. MaxTime]
  /\ doomed \in [Sweepers -> SUBSET Names]

Init ==
  /\ now = 0
  /\ record = [n \in Names |-> Nobody]
  /\ holder = [k \in Keys |-> Nobody]
  /\ call = [c \in Callers |-> NoCall]
  /\ done = {}
  /\ doomed = [s \in Sweepers |-> {}]

-----------------------------------------------------------------------------
(* A call.                                                                 *)

(* A retry is a call like any other: nothing is kept of the one before.    *)
Begin(c) ==
  /\ call[c].at \in Ended
  /\ call[c].try < MaxTries
  /\ \E n \in Names, r \in Requests :
       call' = [call EXCEPT ![c] = [at |-> "waiting", try |-> @.try + 1, name |-> n,
                                    request |-> r, began |-> now, looked |-> 0,
                                    answer |-> Nobody]]
  /\ UNCHANGED <<now, record, holder, done, doomed>>

(* Mutant: no lock before the lookup.                                      *)
LockNone(c) ==
  /\ call[c].at = "waiting"
  /\ call' = [call EXCEPT ![c].at = "looking"]
  /\ UNCHANGED <<now, record, holder, done, doomed>>

Lock(c) ==
  /\ call[c].at = "waiting"
  /\ holder[LockOf(call[c].name)] = Nobody
  /\ holder' = [holder EXCEPT ![LockOf(call[c].name)] = c]
  /\ call' = [call EXCEPT ![c].at = "looking"]
  /\ UNCHANGED <<now, record, done, doomed>>

(* The lock goes with the transaction, however it ends.                    *)
Release(c) == holder' = [k \in Keys |-> IF holder[k] = c THEN Nobody ELSE holder[k]]
Ending(c, how) == Outside(how, call[c].try, Nobody, Nobody, Nobody)
Roll(c, how) == call' = [call EXCEPT ![c] = Ending(c, how)] /\ Release(c)
Told(c, answer) ==
  Outside("answered", call[c].try, call[c].name, call[c].request, answer)

(* Mutant: the hash of the request is not compared.                        *)
SameKey(found, c) == TRUE
SameRequest(found, c) == found.request = call[c].request

(* Nothing stored: the work is this call's.                                *)
Miss(c) ==
  /\ call[c].at = "looking"
  /\ record[call[c].name] = Nobody
  /\ call' = [call EXCEPT ![c].at = "working", ![c].looked = now]
  /\ UNCHANGED <<now, record, holder, done, doomed>>

(* The stored answer, unchanged; or a refusal when the key was another     *)
(* request's.                                                              *)
Replay(c) ==
  LET found == record[call[c].name]
  IN  /\ call[c].at = "looking"
      /\ found # Nobody
      /\ IF SameRequest(found, c)
         THEN call' = [call EXCEPT ![c] = Told(c, found.answer)] /\ Release(c)
         ELSE Roll(c, "conflict")
      /\ UNCHANGED <<now, record, done, doomed>>

(* The work and then the insert of its record, both still uncommitted.  An *)
(* insert under a name another transaction has inserted waits for it; one  *)
(* under a committed name is a unique violation.                           *)
Store(c) ==
  LET n == call[c].name
  IN  /\ call[c].at = "working"
      /\ \A d \in Callers : ~(call[d].at = "stored" /\ call[d].name = n)
      /\ IF record[n] = Nobody
         THEN call' = [call EXCEPT ![c].at = "stored"] /\ UNCHANGED holder
         ELSE Roll(c, "collided")
      /\ UNCHANGED <<now, record, done, doomed>>

Answer(c) == <<c, call[c].try>>
WorkOf(c) == [work |-> Answer(c), name |-> call[c].name, request |-> call[c].request,
              began |-> call[c].began, looked |-> call[c].looked]

(* created_at is now() of PostgreSQL: when the transaction began.          *)
RecordOf(c) == [request |-> call[c].request, answer |-> Answer(c), at |-> call[c].began]

Commit(c) ==
  /\ call[c].at = "stored"
  /\ record' = [record EXCEPT ![call[c].name] = RecordOf(c)]
  /\ done' = done \cup {WorkOf(c)}
  /\ call' = [call EXCEPT ![c] = Told(c, Answer(c))]
  /\ Release(c)
  /\ UNCHANGED <<now, doomed>>

(* Mutant: a lock that only a commit gives back.                           *)
FailLocked(c) ==
  /\ call[c].at \in Open
  /\ call' = [call EXCEPT ![c] = Ending(c, "failed")]
  /\ UNCHANGED <<now, record, holder, done, doomed>>

(* Mutant: the record written on a connection of its own.                  *)
FailRemembered(c) ==
  /\ call[c].at \in Open
  /\ record' = IF call[c].at = "stored"
               THEN [record EXCEPT ![call[c].name] = RecordOf(c)] ELSE record
  /\ Roll(c, "failed")
  /\ UNCHANGED <<now, done, doomed>>

(* The service refused, or the connection was lost: all of it rolls back.  *)
Fail(c) ==
  /\ call[c].at \in Open
  /\ Roll(c, "failed")
  /\ UNCHANGED <<now, record, done, doomed>>

-----------------------------------------------------------------------------
(* The retention sweep.                                                    *)

(* Mutant: the window left out of the cutoff.                              *)
OlderThanNow(r) == r.at < now
Outlived(r) == now - r.at > Retention
Stale == {n \in Names : record[n] # Nobody /\ Outlived(record[n])}

(* The page's names are read first, by age.                                *)
SweepRead(s) ==
  /\ Retention > 0
  /\ doomed[s] = {}
  /\ \E page \in SUBSET Stale :
       /\ page # {}
       /\ page = Stale \/ Cardinality(page) = BatchSize
       /\ Cardinality(page) <= BatchSize
       /\ doomed' = [doomed EXCEPT ![s] = page]
  /\ UNCHANGED <<now, record, holder, call, done>>

(* And deleted by name, whatever is stored under it by then.               *)
SweepDelete(s) ==
  /\ doomed[s] # {}
  /\ record' = [n \in Names |-> IF n \in doomed[s] THEN Nobody ELSE record[n]]
  /\ doomed' = [doomed EXCEPT ![s] = {}]
  /\ UNCHANGED <<now, holder, call, done>>

(* The database refused the delete, or the process stopped before it.      *)
SweepFail(s) ==
  /\ doomed[s] # {}
  /\ doomed' = [doomed EXCEPT ![s] = {}]
  /\ UNCHANGED <<now, record, holder, call, done>>

Tick ==
  /\ now < MaxTime
  /\ now' = now + 1
  /\ UNCHANGED <<record, holder, call, done, doomed>>

CallStep(c) ==
  \/ Begin(c) \/ Lock(c) \/ Miss(c) \/ Replay(c)
  \/ Store(c) \/ Commit(c) \/ Fail(c)
SweepStep(s) == SweepRead(s) \/ SweepDelete(s) \/ SweepFail(s)
Next ==
  \/ \E c \in Callers : CallStep(c)
  \/ \E s \in Sweepers : SweepStep(s)
  \/ Tick

(* PostgreSQL queues the waiters of a lock, so one that keeps coming free  *)
(* is had; a statement that can run is run.                                *)
Fairness ==
  \A c \in Callers : /\ SF_vars(Lock(c))
                     /\ WF_vars(Miss(c) \/ Replay(c) \/ Store(c) \/ Commit(c))

Spec == Init /\ [][Next]_vars
FairSpec == Spec /\ Fairness

-----------------------------------------------------------------------------
(* Within its window a key's work is done once: two pieces of work under   *)
(* one name are further apart, from the first one's created_at to the      *)
(* second one's lookup, than the retention; with no window there is one.   *)
OncePerWindow ==
  \A v, w \in done :
    v # w /\ v.name = w.name =>
      /\ Retention > 0
      /\ \/ w.looked - v.began > Retention
         \/ v.looked - w.began > Retention

(* A record is never there without its work: the answer it replays is of   *)
(* work committed under that name for that request, begun when it says.    *)
RecordsStandForWork ==
  \A n \in Names :
    record[n] # Nobody =>
      \E w \in done : /\ w.name = n /\ w.work = record[n].answer
                      /\ w.request = record[n].request /\ w.began = record[n].at

(* What a caller is told was done, was done, for the request it sent:      *)
(* nobody is answered with the result of somebody else's request.          *)
AnswersAreHonest ==
  \A c \in Callers :
    call[c].at = "answered" =>
      \E w \in done : /\ w.name = call[c].name /\ w.work = call[c].answer
                      /\ w.request = call[c].request

(* A retry is quiet: calls that race under one key are replayed or refused *)
(* for their request, and never meet the table's primary key.              *)
RetriesAreQuiet == \A c \in Callers : call[c].at # "collided"

(* Every call ends: no key is left locked by a call that failed.           *)
EveryCallEnds == \A c \in Callers : call[c].at \in Open ~> call[c].at \in Ended

(* A sweep deletes what is older than the window and nothing else.         *)
NothingElseIsSwept ==
  [][\A n \in Names :
       record[n] # Nobody /\ record'[n] = Nobody => now - record[n].at > Retention]_vars
=============================================================================
