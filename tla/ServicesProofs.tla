---------------------------- MODULE ServicesProofs ----------------------------
(***************************************************************************)
(* Proofs about five services that share no state: the staging queue, the  *)
(* places of a plan, the ledger files, the categories and the budget       *)
(* report, each in a part of its own with its invariant first and its      *)
(* theorems last; then that, side by side with the schedules, each behaves *)
(* as it does alone.                                                       *)
(***************************************************************************)
EXTENDS MCServices, ScheduleProofs, FunctionTheorems

-------------------------------------------------------------------------------
(***************************************************************************)
(* What StagingQueue keeps, for every number of rows, accounts, requests   *)
(* and edits: a selection is posted whole and once, as it was shown, and   *)
(* on no account that was archived or deleted meanwhile.                   *)
(***************************************************************************)
Versions == 0 .. EditLimit + 2
Stages == [status : {"none", "staged", "deleted", "committed"}, version : Versions,
           names : Drafts]
(* What is known of some of the rows.                                      *)
KnownOfRows(S) == UNION {[rows -> S] : rows \in SUBSET Rows}

Asked == [at : {"sent", "reading", "posting", "done"}, rows : SUBSET Rows,
          expected : KnownOfRows(Versions), read : KnownOfRows(Stages) \cup {<<>>},
          locks : SUBSET QueueAccounts]

QueueTyped ==
  /\ queue \in [Rows -> Stages]
  /\ account \in [QueueAccounts -> {"open", "frozen", "archived", "gone"}]
  /\ closing \in [QueueAccounts -> {"no", "archived", "gone"}]
  /\ request \in [Requests -> {NotAsked} \cup Asked]
  /\ answered \subseteq Requests

(* A row was edited EditLimit times at most when it leaves the queue.      *)
VersionsFit ==
  \A r \in Rows : /\ queue[r].status = "none" => queue[r].version = 0
                  /\ queue[r].status = "staged" => queue[r].version \in 1 .. EditLimit + 1

(* Between its read and its commit a request knows each of its rows as it  *)
(* was staged then; and whoever changes a row gives it a later version.    *)
Follows(x, r) ==
  LET read == x.read[r]
  IN  /\ read \in Stages
      /\ read.status = "staged"
      /\ read.version \in 1 .. queue[r].version
      /\ queue[r].version = read.version /\ queue[r].status = "staged"
           => queue[r].names = read.names

ReadsFollow ==
  \A q \in Requests : request[q].at \in {"reading", "posting"} =>
    /\ q \notin answered
    /\ \A r \in request[q].rows : Follows(request[q], r)

(* What is about to be posted is what was shown, on accounts that are      *)
(* locked, that were open under that lock, and that nobody is closing.     *)
Safe(x) ==
  /\ \A r \in x.rows : x.read[r].version = x.expected[r] /\ x.read[r].names \in x.locks
  /\ \A a \in x.locks : closing[a] = "no" /\ account[a] \in {"open", "frozen"}

PostingIsSafe == \A q \in Requests : request[q].at = "posting" => Safe(request[q])

(* An entry stands for a committed row of an answered request, ...         *)
EntriesStand ==
  \A e \in entries :
    /\ e.row \in Rows /\ e.by \in answered
    /\ queue[e.row].status = "committed" /\ queue[e.row].names = e.names
    /\ request[e.by] # NotAsked
    /\ e.row \in request[e.by].rows /\ e.version = request[e.by].expected[e.row]

(* ... one for each of them, ...                                           *)
OneEntryEach == \A e, f \in entries : e.row = f.row => e = f

(* ... and none is missing.                                                *)
NoneMissing ==
  /\ \A r \in Rows : queue[r].status = "committed" => \E e \in entries : e.row = r
  /\ \A q \in answered :
       /\ request[q] # NotAsked
       /\ \A r \in request[q].rows : \E e \in entries : e.row = r /\ e.by = q

QueueInv == /\ QueueTyped /\ VersionsFit /\ ReadsFollow /\ PostingIsSafe
       /\ EntriesStand /\ OneEntryEach /\ NoneMissing
-----------------------------------------------------------------------------
LEMMA QueueInitInv == QueueInit => QueueInv
<1> SUFFICES ASSUME QueueInit PROVE QueueInv
  OBVIOUS
<1> USE QueueAssumption
<1>1. NoStage \in Stages
  BY DEF NoStage, Stages, Versions, Drafts
<1>2. QueueTyped
  BY <1>1 DEF QueueInit, QueueTyped
<1>3. VersionsFit
  BY DEF QueueInit, VersionsFit, NoStage
<1>4. \A q \in Requests : request[q].at = "unsent"
  BY DEF QueueInit, NotAsked
<1>5. ReadsFollow /\ PostingIsSafe
  BY <1>4 DEF ReadsFollow, PostingIsSafe
<1>6. EntriesStand /\ OneEntryEach /\ NoneMissing
  BY DEF QueueInit, EntriesStand, OneEntryEach, NoneMissing, NoStage
<1> QED  BY <1>2, <1>3, <1>5, <1>6 DEF QueueInv

LEMMA RequestShape ==
  ASSUME QueueInv, NEW q \in Requests
  PROVE  /\ request[q] \in {NotAsked} \cup Asked
         /\ request[q] = NotAsked <=> request[q].at = "unsent"
         /\ request[q] # NotAsked => request[q] \in Asked /\ request[q].rows \subseteq Rows
BY DEF QueueInv, QueueTyped, NotAsked, Asked

(* A later version of a row is never mistaken for the one that was read.   *)
LEMMA StillFollows ==
  ASSUME QueueInv, queue' \in [Rows -> Stages],
         \A r \in Rows : queue'[r] = queue[r] \/ queue'[r].version > queue[r].version,
         NEW x, NEW r \in Rows, Follows(x, r)
  PROVE  Follows(x, r)'
<1>1. queue[r].version \in Nat /\ queue'[r].version \in Nat
  BY QueueAssumption DEF QueueInv, QueueTyped, Stages, Versions
<1>2. x.read[r].version \in Nat
  BY <1>1 DEF Follows
<1>3. CASE queue'[r] = queue[r]
  BY <1>3 DEF Follows
<1>4. CASE queue'[r].version > queue[r].version
  BY <1>1, <1>2, <1>4 DEF Follows
<1> QED  BY <1>3, <1>4

LEMMA ReadsStillFollow ==
  ASSUME QueueInv, queue' \in [Rows -> Stages],
         \A r \in Rows : queue'[r] = queue[r] \/ queue'[r].version > queue[r].version,
         UNCHANGED <<request, answered>>
  PROVE  ReadsFollow'
<1> SUFFICES ASSUME NEW q \in Requests, request[q].at \in {"reading", "posting"},
                    NEW r \in request[q].rows
             PROVE  Follows(request[q], r)'
  BY DEF ReadsFollow, QueueInv
<1>1. r \in Rows /\ Follows(request[q], r)
  BY RequestShape DEF NotAsked, QueueInv, ReadsFollow
<1> QED  BY <1>1, StillFollows

(* Who posts nothing leaves the books and what they stand for alone.       *)
LEMMA BooksUndisturbed ==
  ASSUME QueueInv, UNCHANGED <<entries, answered>>,
         \A r \in Rows : \/ queue'[r] = queue[r]
                         \/ queue[r].status # "committed" /\ queue'[r].status # "committed",
         \A q \in answered : /\ request'[q] # NotAsked
                             /\ request'[q].rows = request[q].rows
                             /\ request'[q].expected = request[q].expected
  PROVE  EntriesStand' /\ OneEntryEach' /\ NoneMissing'
<1>1. EntriesStand /\ OneEntryEach /\ NoneMissing
  BY DEF QueueInv
<1>2. EntriesStand'
  BY <1>1 DEF EntriesStand
<1>3. OneEntryEach'
  BY <1>1 DEF OneEntryEach
<1>4. NoneMissing'
  BY <1>1 DEF NoneMissing
<1> QED  BY <1>2, <1>3, <1>4

LEMMA AnsweredWereAsked ==
  ASSUME QueueInv, NEW q \in answered
  PROVE  q \in Requests /\ request[q] # NotAsked /\ request[q] \in Asked
BY RequestShape DEF QueueInv, NoneMissing, QueueTyped

(* One step of the queue, when nobody posts.                               *)
LEMMA QueueMoves ==
  ASSUME QueueInv, queue' \in [Rows -> Stages],
         \A r \in Rows :
           \/ queue'[r] = queue[r]
           \/ /\ queue'[r].version > queue[r].version
              /\ queue[r].status # "committed" /\ queue'[r].status \in {"staged", "deleted"}
              /\ queue'[r].status = "staged" => queue'[r].version \in 1 .. EditLimit + 1,
         UNCHANGED <<account, closing, request, entries, answered>>
  PROVE  QueueInv'
<1>1. QueueTyped'
  BY DEF QueueInv, QueueTyped
<1>2. VersionsFit'
  BY DEF QueueInv, VersionsFit
<1>3. ReadsFollow'
  BY ReadsStillFollow
<1>4. PostingIsSafe'
  BY DEF QueueInv, PostingIsSafe, Safe
<1>5. EntriesStand' /\ OneEntryEach' /\ NoneMissing'
  BY BooksUndisturbed, AnsweredWereAsked
<1> QED  BY <1>1, <1>2, <1>3, <1>4, <1>5 DEF QueueInv

(* What an edit and a delete make of a row.                                *)
Edited(x, draft) == [x EXCEPT !.names = draft, !.version = @ + 1]
Gone(x) == [x EXCEPT !.status = "deleted", !.version = @ + 1]

LEMMA EditedStage ==
  ASSUME NEW x \in Stages, x.version \in 1 .. EditLimit, NEW draft \in Drafts
  PROVE  /\ Edited(x, draft) \in Stages
         /\ Edited(x, draft).status = x.status
         /\ Edited(x, draft).version > x.version
         /\ Edited(x, draft).version \in 1 .. EditLimit + 1
<1>1. x.version + 1 \in Versions
  BY QueueAssumption DEF Versions
<1>2. Edited(x, draft) \in Stages
  BY <1>1 DEF Stages, Edited
<1>3. Edited(x, draft).status = x.status /\ Edited(x, draft).version = x.version + 1
  BY DEF Stages, Edited
<1> QED  BY <1>2, <1>3, QueueAssumption

LEMMA GoneStage ==
  ASSUME NEW x \in Stages, x.version \in 1 .. EditLimit + 1
  PROVE  Gone(x) \in Stages /\ Gone(x).status = "deleted" /\ Gone(x).version > x.version
<1>1. x.version + 1 \in Versions
  BY QueueAssumption DEF Versions
<1>2. Gone(x) \in Stages
  BY <1>1 DEF Stages, Gone
<1>3. Gone(x).status = "deleted" /\ Gone(x).version = x.version + 1
  BY DEF Stages, Gone
<1> QED  BY <1>2, <1>3, QueueAssumption

LEMMA CreateStageInv ==
  ASSUME QueueInv, NEW r \in Rows, NEW draft \in Drafts, CreateStage(r, draft)
  PROVE  QueueInv'
<1>1. queue \in [Rows -> Stages] /\ queue[r].status = "none" /\ queue[r].version = 0
  BY DEF QueueInv, QueueTyped, VersionsFit, CreateStage
<1> DEFINE new == [status |-> "staged", version |-> 1, names |-> draft]
<1>2. queue' = [queue EXCEPT ![r] = new]
  BY DEF CreateStage
<1>3. new \in Stages /\ 1 \in 1 .. EditLimit + 1
  BY QueueAssumption DEF Stages, Versions
<1>4. queue' \in [Rows -> Stages]
  BY <1>1, <1>2, <1>3
<1>5. queue'[r] = new /\ \A s \in Rows \ {r} : queue'[s] = queue[s]
  BY <1>1, <1>2
<1>6. UNCHANGED <<account, closing, request, entries, answered>>
  BY DEF CreateStage
<1> QED  BY <1>1, <1>3, <1>4, <1>5, <1>6, QueueMoves

LEMMA EditStagesInv ==
  ASSUME QueueInv, NEW rows \in SUBSET Rows, NEW draft \in Drafts, EditStages(rows, draft)
  PROVE  QueueInv'
<1>1. queue \in [Rows -> Stages]
  BY DEF QueueInv, QueueTyped
<1>2. ASSUME NEW r \in rows
      PROVE  queue[r].status = "staged" /\ queue[r].version \in 1 .. EditLimit
  <2>1. rows \subseteq Waiting /\ \A s \in rows : queue[s].version <= EditLimit
    BY DEF EditStages
  <2>2. VersionsFit
    BY DEF QueueInv
  <2> QED  BY <2>1, <2>2, QueueAssumption DEF VersionsFit, Waiting
<1>3. ASSUME NEW r \in rows
      PROVE  /\ Edited(queue[r], draft) \in Stages
             /\ Edited(queue[r], draft).status = "staged"
             /\ Edited(queue[r], draft).version > queue[r].version
             /\ Edited(queue[r], draft).version \in 1 .. EditLimit + 1
  BY <1>1, <1>2, EditedStage
<1>4. queue' = [r \in Rows |-> IF r \in rows /\ queue[r].names # draft
                               THEN Edited(queue[r], draft) ELSE queue[r]]
  BY DEF EditStages, Edited
<1>5. queue' \in [Rows -> Stages]
  BY <1>1, <1>3, <1>4
<1>6. UNCHANGED <<account, closing, request, entries, answered>>
  BY DEF EditStages
<1> QED  BY <1>2, <1>3, <1>4, <1>5, <1>6, QueueMoves

LEMMA DeleteStagesInv ==
  ASSUME QueueInv, NEW rows \in SUBSET Rows, DeleteStages(rows)
  PROVE  QueueInv'
<1>1. queue \in [Rows -> Stages]
  BY DEF QueueInv, QueueTyped
<1>2. \A r \in rows : queue[r].status = "staged" /\ queue[r].version \in 1 .. EditLimit + 1
  BY DEF QueueInv, VersionsFit, DeleteStages, Waiting
<1>3. \A r \in rows : /\ Gone(queue[r]) \in Stages /\ Gone(queue[r]).status = "deleted"
                      /\ Gone(queue[r]).version > queue[r].version
  BY <1>1, <1>2, GoneStage
<1>4. queue' = [r \in Rows |-> IF r \in rows THEN Gone(queue[r]) ELSE queue[r]]
  BY DEF DeleteStages, Gone
<1>5. queue' \in [Rows -> Stages]
  BY <1>1, <1>3, <1>4
<1>6. UNCHANGED <<account, closing, request, entries, answered>>
  BY DEF DeleteStages
<1> QED  BY <1>2, <1>3, <1>4, <1>5, <1>6, QueueMoves
-----------------------------------------------------------------------------
(* One step of one request, when it does not post.                         *)
LEMMA RequestMoves ==
  ASSUME QueueInv, NEW q \in Requests, NEW to \in Asked,
         request' = [request EXCEPT ![q] = to],
         to.at \in {"reading", "posting"} =>
           q \notin answered /\ \A r \in to.rows : Follows(to, r),
         to.at = "posting" => Safe(to),
         q \in answered => to.rows = request[q].rows /\ to.expected = request[q].expected,
         UNCHANGED <<queue, account, closing, entries, answered>>
  PROVE  QueueInv'
<1>1. request \in [Requests -> {NotAsked} \cup Asked]
  BY DEF QueueInv, QueueTyped
<1>2. to # NotAsked
  BY DEF Asked, NotAsked
<1>3. request'[q] = to /\ \A p \in Requests \ {q} : request'[p] = request[p]
  BY <1>1
<1>4. QueueTyped'
  BY <1>1 DEF QueueInv, QueueTyped
<1>5. VersionsFit'
  BY DEF QueueInv, VersionsFit
<1>6. ASSUME NEW x, NEW r, Follows(x, r)
      PROVE  Follows(x, r)'
  BY <1>6 DEF Follows
<1>7. ReadsFollow'
  <2> SUFFICES ASSUME NEW p \in Requests, request'[p].at \in {"reading", "posting"}
               PROVE  p \notin answered' /\ \A r \in request'[p].rows : Follows(request[p], r)'
    BY DEF ReadsFollow
  <2>1. CASE p = q
    BY <1>3, <1>6, <2>1 DEF Follows
  <2>2. CASE p # q
    <3>1. p \notin answered /\ \A r \in request[p].rows : Follows(request[p], r)
      BY <1>3, <2>2 DEF QueueInv, ReadsFollow
    <3> QED  BY <1>3, <2>2, <3>1 DEF Follows
  <2> QED  BY <2>1, <2>2
<1>8. PostingIsSafe'
  <2> SUFFICES ASSUME NEW p \in Requests, request'[p].at = "posting"
               PROVE  Safe(request[p])'
    BY DEF PostingIsSafe
  <2>1. CASE p = q
    BY <1>3, <2>1 DEF Safe
  <2>2. CASE p # q
    BY <1>3, <2>2 DEF QueueInv, PostingIsSafe, Safe
  <2> QED  BY <2>1, <2>2
<1>9. EntriesStand' /\ OneEntryEach' /\ NoneMissing'
  BY <1>2, <1>3, BooksUndisturbed, AnsweredWereAsked
<1> QED  BY <1>4, <1>5, <1>7, <1>8, <1>9 DEF QueueInv

LEMMA KnownOf ==
  ASSUME NEW S, NEW rows \in SUBSET Rows, NEW f \in [rows -> S]
  PROVE  f \in KnownOfRows(S)
BY DEF KnownOfRows

LEMMA AsksInv ==
  ASSUME QueueInv, NEW q \in Requests, NEW rows \in SUBSET Rows, Asks(q, rows)
  PROVE  QueueInv'
<1> DEFINE shown == [r \in rows |-> queue[r].version]
           to == [at |-> "sent", rows |-> rows, expected |-> shown, read |-> <<>>, locks |-> {}]
<1>1. queue \in [Rows -> Stages]
  BY DEF QueueInv, QueueTyped
<1>2. shown \in [rows -> Versions]
  BY <1>1 DEF Stages
<1>3. shown \in KnownOfRows(Versions)
  BY <1>2, KnownOf
<1>4. to \in Asked /\ to.at = "sent"
  <2> HIDE DEF shown
  <2> QED  BY <1>3 DEF Asked
<1>5. request' = [request EXCEPT ![q] = to]
  BY DEF Asks
<1>6. request[q].at = "unsent" /\ UNCHANGED <<queue, account, closing, entries, answered>>
  BY DEF Asks
<1>7. q \notin answered
  BY <1>6, AnsweredWereAsked DEF Asked
<1> HIDE DEF to
<1> QED  BY <1>4, <1>5, <1>6, <1>7, RequestMoves

LEMMA ReplaysInv ==
  ASSUME QueueInv, NEW q \in Requests, Replays(q)
  PROVE  QueueInv'
<1> DEFINE to == [request[q] EXCEPT !.at = "done"]
<1>1. request[q] \in Asked
  BY RequestShape DEF Replays
<1>2. to \in Asked /\ to.at = "done" /\ to.rows = request[q].rows
      /\ to.expected = request[q].expected
  BY <1>1 DEF Asked
<1>3. request' = [request EXCEPT ![q] = to]
  BY DEF Replays
<1>4. UNCHANGED <<queue, account, closing, entries, answered>>
  BY DEF Replays
<1> HIDE DEF to
<1> QED  BY <1>2, <1>3, <1>4, RequestMoves

LEMMA RefusesInv ==
  ASSUME QueueInv, NEW q \in Requests, request[q].at \in {"reading", "posting", "done"}, Refuses(q)
  PROVE  QueueInv'
<1> DEFINE to == [request[q] EXCEPT !.at = "sent", !.read = <<>>, !.locks = {}]
<1>1. request[q] \in Asked
  BY RequestShape
<1>2. to \in Asked /\ to.at = "sent" /\ to.rows = request[q].rows
      /\ to.expected = request[q].expected
  BY <1>1 DEF Asked
<1>3. request' = [request EXCEPT ![q] = to]
  BY DEF Refuses
<1>4. UNCHANGED <<queue, account, closing, entries, answered>>
  BY DEF Refuses
<1> HIDE DEF to
<1> QED  BY <1>2, <1>3, <1>4, RequestMoves
LEMMA CommitReadsInv ==
  ASSUME QueueInv, NEW q \in Requests, CommitReads(q)
  PROVE  QueueInv'
<1> DEFINE rows == request[q].rows
           known == [r \in rows |-> queue[r]]
           to == [request[q] EXCEPT !.at = "reading", !.read = known]
<1>1. request[q] \in Asked /\ rows \subseteq Rows /\ rows \subseteq Waiting /\ q \notin answered
  BY RequestShape DEF CommitReads
<1>2. queue \in [Rows -> Stages]
  BY DEF QueueInv, QueueTyped
<1>3. known \in KnownOfRows(Stages)
  BY <1>1, <1>2, KnownOf
<1>4. to \in Asked /\ to.at = "reading" /\ to.rows = rows /\ to.read = known
      /\ to.expected = request[q].expected
  <2> HIDE DEF known
  <2> QED  BY <1>1, <1>3 DEF Asked
<1>5. ASSUME NEW r \in rows
      PROVE  Follows(to, r)
  <2>1. queue[r] \in Stages /\ queue[r].status = "staged"
    BY <1>1, <1>2 DEF Waiting
  <2>2. queue[r].version \in 1 .. queue[r].version
    BY <1>1, <2>1, QueueAssumption DEF QueueInv, VersionsFit
  <2>3. to.read[r] = queue[r]
    BY <1>4
  <2> QED  BY <2>1, <2>2, <2>3 DEF Follows
<1>6. request' = [request EXCEPT ![q] = to]
  BY DEF CommitReads
<1>7. UNCHANGED <<queue, account, closing, entries, answered>>
  BY DEF CommitReads
<1> HIDE DEF to
<1> QED  BY <1>1, <1>4, <1>5, <1>6, <1>7, RequestMoves

LEMMA CommitLocksInv ==
  ASSUME QueueInv, NEW q \in Requests, CommitLocks(q)
  PROVE  QueueInv'
<1> DEFINE rows == request[q].rows
           read == request[q].read
           drafts == {read[r].names : r \in rows}
           to == [request[q] EXCEPT !.at = "posting", !.locks = drafts \cap QueueAccounts]
<1>1. request[q] \in Asked /\ request[q].at = "reading"
  BY RequestShape DEF CommitLocks
<1>2. q \notin answered /\ \A r \in rows : Follows(request[q], r)
  BY <1>1 DEF QueueInv, ReadsFollow
<1>3. \A r \in rows : read[r].names \in Drafts
  BY <1>2 DEF Follows, Stages
<1>4. drafts \subseteq QueueAccounts
  BY <1>3 DEF CommitLocks, Drafts
<1>5. /\ to \in Asked /\ to.at = "posting" /\ to.rows = rows /\ to.read = read
      /\ to.expected = request[q].expected
      /\ to.locks = drafts
  <2> HIDE DEF drafts
  <2> QED  BY <1>1, <1>4 DEF Asked
<1>6. \A r \in rows : Follows(to, r)
  BY <1>2, <1>5 DEF Follows
<1>7. Safe(to)
  <2>1. \A a \in drafts : closing[a] = "no" /\ account[a] = "open"
    BY <1>4 DEF CommitLocks, Lockable, LockStagedDraftReferences
  <2>2. \A r \in rows : read[r].version = request[q].expected[r] /\ read[r].names \in drafts
    BY DEF CommitLocks
  <2> QED  BY <1>5, <2>1, <2>2 DEF Safe
<1>8. request' = [request EXCEPT ![q] = to]
  BY DEF CommitLocks, LockStagedDraftReferences
<1>9. UNCHANGED <<queue, account, closing, entries, answered>>
  BY DEF CommitLocks
<1> HIDE DEF to
<1> QED  BY <1>2, <1>5, <1>6, <1>7, <1>8, <1>9, RequestMoves

-----------------------------------------------------------------------------
(* One step of the accounts.                                               *)
LEMMA AccountsMove ==
  ASSUME QueueInv,
         account' \in [QueueAccounts -> {"open", "frozen", "archived", "gone"}],
         closing' \in [QueueAccounts -> {"no", "archived", "gone"}],
         \A q \in Requests : request[q].at = "posting" =>
           \A a \in request[q].locks : closing'[a] = "no" /\ account'[a] \in {"open", "frozen"},
         UNCHANGED <<queue, request, entries, answered>>
  PROVE  QueueInv'
<1>1. QueueTyped'
  BY DEF QueueInv, QueueTyped
<1>2. VersionsFit'
  BY DEF QueueInv, VersionsFit
<1>3. ReadsFollow'
  BY DEF QueueInv, ReadsFollow, Follows
<1>4. PostingIsSafe'
  BY DEF QueueInv, PostingIsSafe, Safe
<1>5. EntriesStand' /\ OneEntryEach' /\ NoneMissing'
  BY BooksUndisturbed, AnsweredWereAsked
<1> QED  BY <1>1, <1>2, <1>3, <1>4, <1>5 DEF QueueInv

LEMMA LocksAreAccounts ==
  ASSUME QueueInv, NEW q \in Requests, request[q].at = "posting"
  PROVE  /\ request[q].locks \subseteq QueueAccounts
         /\ \A a \in request[q].locks : closing[a] = "no" /\ account[a] \in {"open", "frozen"}
<1>1. request[q] \in Asked
  BY RequestShape
<1> QED  BY <1>1 DEF Asked, QueueInv, PostingIsSafe, Safe

LEMMA AccountsInv ==
  ASSUME QueueInv, NEW a \in QueueAccounts,
         \/ Freezes(a, "open", "frozen") \/ Freezes(a, "frozen", "open")
         \/ \E ending \in {"archived", "gone"} : Counts(a, ending)
         \/ PutsAway(a) \/ BringsBack(a)
  PROVE  QueueInv'
<1>1. account \in [QueueAccounts -> {"open", "frozen", "archived", "gone"}]
      /\ closing \in [QueueAccounts -> {"no", "archived", "gone"}]
  BY DEF QueueInv, QueueTyped
<1>2. CASE Freezes(a, "open", "frozen") \/ Freezes(a, "frozen", "open")
  BY <1>1, <1>2, AccountsMove, LocksAreAccounts DEF Freezes
<1>3. ASSUME NEW ending \in {"archived", "gone"}, Counts(a, ending)
      PROVE  QueueInv'
  BY <1>1, <1>3, AccountsMove, LocksAreAccounts DEF Counts
<1>4. CASE PutsAway(a)
  <2>1. \A q \in Requests : request[q].at = "posting" => a \notin request[q].locks
    BY <1>4, LocksAreAccounts DEF PutsAway
  <2>2. account' \in {account, [account EXCEPT ![a] = closing[a]]}
        /\ closing' = [closing EXCEPT ![a] = "no"] /\ closing[a] # "no"
    BY <1>4 DEF PutsAway
  <2>3. account' \in [QueueAccounts -> {"open", "frozen", "archived", "gone"}]
        /\ closing' \in [QueueAccounts -> {"no", "archived", "gone"}]
        /\ \A b \in QueueAccounts \ {a} : account'[b] = account[b] /\ closing'[b] = closing[b]
    BY <1>1, <2>2
  <2>4. UNCHANGED <<queue, request, entries, answered>>
    BY <1>4 DEF PutsAway
  <2> QED  BY <2>1, <2>3, <2>4, AccountsMove, LocksAreAccounts
<1>5. CASE BringsBack(a)
  BY <1>1, <1>5, AccountsMove, LocksAreAccounts DEF BringsBack
<1> QED  BY <1>2, <1>3, <1>4, <1>5
-----------------------------------------------------------------------------
(* The commit itself.                                                      *)
PostedFrom(q, r) ==
  [row |-> r, nth |-> CountOf(r) + 1, names |-> request[q].read[r].names,
   version |-> request[q].read[r].version, by |-> q]

LEMMA CommitPostsInv ==
  ASSUME QueueInv, NEW q \in Requests, CommitPosts(q)
  PROVE  QueueInv'
<1> DEFINE rows == request[q].rows
           read == request[q].read
           to == [request[q] EXCEPT !.at = "done", !.read = <<>>, !.locks = {}]
           made(r) == [status |-> "committed", version |-> read[r].version + 1,
                       names |-> read[r].names]
           new == {PostedFrom(q, r) : r \in rows}
<1>1. /\ queue \in [Rows -> Stages]
      /\ request \in [Requests -> {NotAsked} \cup Asked]
      /\ request[q] \in Asked /\ request[q].at = "posting" /\ rows \subseteq Rows
  BY RequestShape DEF CommitPosts, QueueInv, QueueTyped
<1>2. q \notin answered /\ \A r \in rows : Follows(request[q], r)
  BY <1>1 DEF QueueInv, ReadsFollow
<1>3. \A r \in rows : read[r].version = request[q].expected[r]
  BY <1>1 DEF QueueInv, PostingIsSafe, Safe
<1>4. ASSUME NEW r \in rows
      PROVE  /\ queue[r].status = "staged" /\ queue[r].version = read[r].version
             /\ queue[r].names = read[r].names
             /\ made(r) \in Stages /\ made(r).version > queue[r].version
  <2>1. queue[r].status = "staged" /\ queue[r].version = read[r].version
    BY DEF CommitPosts, StillAsRead
  <2>2. queue[r].names = read[r].names /\ read[r].names \in Drafts
    BY <1>2, <2>1 DEF Follows, Stages
  <2>3. queue[r].version \in 1 .. EditLimit + 1
    BY <1>1, <2>1 DEF QueueInv, VersionsFit
  <2>4. read[r].version + 1 \in Versions /\ read[r].version + 1 > queue[r].version
    BY <2>1, <2>3, QueueAssumption DEF Versions
  <2> QED  BY <2>1, <2>2, <2>4 DEF Stages
<1>5. /\ entries' = entries \cup new
      /\ queue' = [r \in Rows |-> IF r \in rows THEN made(r) ELSE queue[r]]
      /\ answered' = answered \cup {q}
      /\ request' = [request EXCEPT ![q] = to]
      /\ UNCHANGED <<account, closing>>
  BY DEF CommitPosts, PostedFrom
<1>6. to \in Asked /\ to.at = "done" /\ to.rows = rows /\ to.expected = request[q].expected
      /\ to # NotAsked
  BY <1>1 DEF Asked, NotAsked
<1>7. \A r \in rows : PostedFrom(q, r).row = r /\ PostedFrom(q, r).by = q
                      /\ PostedFrom(q, r).names = read[r].names
                      /\ PostedFrom(q, r).version = read[r].version
  BY DEF PostedFrom
<1>8. \A r \in rows : made(r).status = "committed" /\ made(r).names = read[r].names
  OBVIOUS
<1> HIDE DEF to, made
<1>9. queue' \in [Rows -> Stages] /\ \A r \in rows : queue'[r] = made(r)
  BY <1>1, <1>4, <1>5
<1>10. \A r \in Rows : r \in rows \/ queue'[r] = queue[r]
  BY <1>5
<1>11. request'[q] = to /\ \A p \in Requests \ {q} : request'[p] = request[p]
  BY <1>1, <1>5
<1>12. QueueTyped'
  BY <1>5, <1>6, <1>9 DEF QueueInv, QueueTyped
<1>13. VersionsFit'
  <2> SUFFICES ASSUME NEW r \in Rows
               PROVE  /\ queue'[r].status = "none" => queue'[r].version = 0
                      /\ queue'[r].status = "staged" => queue'[r].version \in 1 .. EditLimit + 1
    BY DEF VersionsFit
  <2>1. CASE r \in rows
    BY <1>8, <1>9, <2>1
  <2>2. CASE r \notin rows
    <3>1. queue'[r] = queue[r]
      BY <1>10, <2>2
    <3>2. /\ queue[r].status = "none" => queue[r].version = 0
          /\ queue[r].status = "staged" => queue[r].version \in 1 .. EditLimit + 1
      BY DEF QueueInv, VersionsFit
    <3> QED  BY <3>1, <3>2
  <2> QED  BY <2>1, <2>2
<1>14. ReadsFollow'
  <2> SUFFICES ASSUME NEW p \in Requests, request'[p].at \in {"reading", "posting"}
               PROVE  p \notin answered' /\ \A r \in request'[p].rows : Follows(request[p], r)'
    BY DEF ReadsFollow
  <2>1. p # q /\ request'[p] = request[p]
    BY <1>6, <1>11
  <2>2. p \notin answered'
    BY <1>5, <2>1 DEF QueueInv, ReadsFollow
  <2>3. \A r \in Rows : queue'[r] = queue[r] \/ queue'[r].version > queue[r].version
    <3>1. ASSUME NEW r \in rows
          PROVE  queue'[r].version > queue[r].version
      BY <1>4, <1>9
    <3>2. ASSUME NEW r \in Rows, r \notin rows
          PROVE  queue'[r] = queue[r]
      BY <1>10, <3>2
    <3> QED  BY <3>1, <3>2
  <2>4. ASSUME NEW r \in request[p].rows
        PROVE  Follows(request[p], r)'
    <3>1. r \in Rows /\ Follows(request[p], r)
      BY <2>1, RequestShape DEF NotAsked, QueueInv, ReadsFollow
    <3> DEFINE x == request[p]
    <3>2. Follows(x, r)
      BY <3>1
    <3>3. queue[r].version \in Nat /\ queue'[r].version \in Nat
      BY <1>1, <1>9, <3>1, QueueAssumption DEF Stages, Versions
    <3>4. x.read[r].version \in Nat
      BY <3>2, <3>3 DEF Follows
    <3>5. request'[p].read[r] = x.read[r]
      BY <2>1
    <3>6. CASE queue'[r] = queue[r]
      BY <3>2, <3>5, <3>6 DEF Follows
    <3>7. CASE queue'[r].version > queue[r].version
      BY <3>2, <3>3, <3>4, <3>5, <3>7 DEF Follows
    <3> QED  BY <2>3, <3>1, <3>6, <3>7
  <2> QED  BY <2>1, <2>2, <2>4
<1>15. PostingIsSafe'
  <2> SUFFICES ASSUME NEW p \in Requests, request'[p].at = "posting"
               PROVE  Safe(request[p])'
    BY DEF PostingIsSafe
  <2>1. p # q /\ request'[p] = request[p]
    BY <1>6, <1>11
  <2> QED  BY <1>5, <2>1 DEF QueueInv, PostingIsSafe, Safe
<1>16. EntriesStand'
  <2>1. ASSUME NEW e \in entries
        PROVE  /\ e.row \in Rows /\ e.by \in answered'
               /\ queue'[e.row].status = "committed" /\ queue'[e.row].names = e.names
               /\ request'[e.by] # NotAsked
               /\ e.row \in request'[e.by].rows /\ e.version = request'[e.by].expected[e.row]
    <3>1. /\ e.row \in Rows /\ e.by \in answered
          /\ queue[e.row].status = "committed" /\ queue[e.row].names = e.names
          /\ request[e.by] # NotAsked
          /\ e.row \in request[e.by].rows /\ e.version = request[e.by].expected[e.row]
      BY DEF QueueInv, EntriesStand
    <3>2. e.row \notin rows
      BY <1>4, <3>1
    <3>3. e.by \in Requests \ {q}
      BY <1>2, <3>1 DEF QueueInv, QueueTyped
    <3> QED  BY <1>5, <1>9, <1>11, <3>1, <3>2, <3>3
  <2>2. ASSUME NEW e \in new
        PROVE  /\ e.row \in Rows /\ e.by \in answered'
               /\ queue'[e.row].status = "committed" /\ queue'[e.row].names = e.names
               /\ request'[e.by] # NotAsked
               /\ e.row \in request'[e.by].rows /\ e.version = request'[e.by].expected[e.row]
    <3>1. PICK r \in rows : e = PostedFrom(q, r)
      OBVIOUS
    <3>2. e.row = r /\ e.by = q /\ e.names = read[r].names /\ e.version = read[r].version
      BY <1>7, <3>1
    <3>3. queue'[r].status = "committed" /\ queue'[r].names = read[r].names /\ r \in Rows
      BY <1>1, <1>8, <1>9
    <3> QED  BY <1>3, <1>5, <1>6, <1>11, <3>2, <3>3
  <2> QED  BY <1>5, <2>1, <2>2 DEF EntriesStand
<1>17. OneEntryEach'
  <2> SUFFICES ASSUME NEW e \in entries', NEW f \in entries', e.row = f.row
               PROVE  e = f
    BY DEF OneEntryEach
  <2>1. \A g \in entries : g.row \notin rows
    BY <1>4 DEF QueueInv, EntriesStand
  <2>2. \A g \in new : g.row \in rows /\ g = PostedFrom(q, g.row)
    BY <1>7
  <2>3. CASE e \in entries /\ f \in entries
    BY <2>3 DEF QueueInv, OneEntryEach
  <2>4. CASE e \in new /\ f \in new
    BY <2>2, <2>4
  <2> QED  BY <1>5, <2>1, <2>2, <2>3, <2>4
<1>18. NoneMissing'
  <2>1. ASSUME NEW r \in rows
        PROVE  PostedFrom(q, r) \in entries' /\ PostedFrom(q, r).row = r /\ PostedFrom(q, r).by = q
    BY <1>5, <1>7
  <2>2. ASSUME NEW r \in Rows, queue'[r].status = "committed"
        PROVE  \E e \in entries' : e.row = r
    <3>1. CASE r \in rows
      BY <2>1, <3>1
    <3>2. CASE r \notin rows
      BY <1>5, <1>9, <2>2, <3>2 DEF QueueInv, NoneMissing
    <3> QED  BY <3>1, <3>2
  <2>3. ASSUME NEW p \in answered'
        PROVE  /\ request'[p] # NotAsked
               /\ \A r \in request'[p].rows : \E e \in entries' : e.row = r /\ e.by = p
    <3>1. CASE p = q
      BY <1>6, <1>11, <2>1, <3>1
    <3>2. CASE p # q
      <4>1. p \in answered /\ request'[p] = request[p]
        BY <1>5, <1>11, <3>2 DEF QueueInv, QueueTyped
      <4> QED  BY <1>5, <4>1 DEF QueueInv, NoneMissing
    <3> QED  BY <3>1, <3>2
  <2> QED  BY <2>2, <2>3 DEF NoneMissing
<1> QED  BY <1>12, <1>13, <1>14, <1>15, <1>16, <1>17, <1>18 DEF QueueInv

-----------------------------------------------------------------------------
LEMMA QueueNextInv ==
  ASSUME QueueInv, [QueueNext]_queueVars
  PROVE  QueueInv'
<1>1. CASE \E r \in Rows, draft \in Drafts : CreateStage(r, draft)
  BY <1>1, CreateStageInv
<1>2. CASE \E rows \in SUBSET Rows, draft \in Drafts : EditStages(rows, draft)
  BY <1>2, EditStagesInv
<1>3. CASE \E rows \in SUBSET Rows : DeleteStages(rows)
  BY <1>3, DeleteStagesInv
<1>4. ASSUME NEW q \in Requests,
             \/ \E rows \in SUBSET Rows : Asks(q, rows)
             \/ Replays(q) \/ CommitReads(q) \/ CommitLocks(q) \/ CommitPosts(q)
             \/ CommitRollsBack(q) \/ AnswerLost(q)
      PROVE  QueueInv'
  <2>1. CASE CommitRollsBack(q) \/ AnswerLost(q)
    BY <2>1, RefusesInv DEF CommitRollsBack, AnswerLost
  <2> QED  BY <1>4, <2>1, AsksInv, ReplaysInv, CommitReadsInv, CommitLocksInv, CommitPostsInv
<1>5. ASSUME NEW a \in QueueAccounts,
             \/ Freezes(a, "open", "frozen") \/ Freezes(a, "frozen", "open")
             \/ \E ending \in {"archived", "gone"} : Counts(a, ending)
             \/ PutsAway(a) \/ BringsBack(a)
      PROVE  QueueInv'
  BY <1>5, AccountsInv
<1>6. CASE UNCHANGED queueVars
  BY <1>6 DEF queueVars, QueueInv, QueueTyped, VersionsFit, ReadsFollow, Follows, PostingIsSafe, Safe,
              EntriesStand, OneEntryEach, NoneMissing
<1> QED  BY <1>1, <1>2, <1>3, <1>4, <1>5, <1>6 DEF QueueNext

LEMMA QueueInvHolds == QueueSpec => []QueueInv
BY QueueInitInv, QueueNextInv, PTL DEF QueueSpec

(* Every variable of the queue keeps its type, whatever is proposed,       *)
(* edited, sent and put away; and where a commit posts, nobody is putting  *)
(* the account away (lockStagedDraftReferences, staging.ts).               *)
THEOREM QueueTypeCorrect == QueueSpec => []QueueTypeOK
<1>1. ASSUME QueueInv PROVE QueueTypeOK
  <2>1. \A r \in Rows : queue[r] \in Stages
    BY <1>1 DEF QueueInv, QueueTyped
  <2>2. ASSUME NEW q \in Requests
        PROVE  /\ request[q].at \in {"unsent", "sent", "reading", "posting", "done"}
               /\ request[q] # NotAsked => request[q].rows \subseteq Rows
    BY <1>1, RequestShape DEF Asked, NotAsked
  <2>3. ASSUME NEW q \in Requests, request[q].at = "posting", NEW r \in request[q].rows
        PROVE  closing[request[q].read[r].names] = "no"
    BY <1>1, <2>3 DEF QueueInv, PostingIsSafe, Safe
  <2> QED  BY <1>1, <2>1, <2>2, <2>3 DEF QueueTypeOK, QueueInv, QueueTyped, Stages, Versions
<1> QED  BY <1>1, QueueInvHolds, PTL

(* commitStages posts a selection whole, once and as it was shown, or not  *)
(* at all, however commits, edits, deletes and repeated requests overlap.  *)
THEOREM CommitsAreWhole == QueueSpec => []SelectionAllOrNothing
<1>1. ASSUME QueueInv PROVE SelectionAllOrNothing
  <2>1. EntriesStand /\ OneEntryEach /\ NoneMissing /\ answered \subseteq Requests
    BY <1>1 DEF QueueInv, QueueTyped
  <2>2. ASSUME NEW r \in Rows
        PROVE  LET posted == {e \in entries : e.row = r}
               IN  IF queue[r].status = "committed"
                   THEN \E e \in entries : posted = {e} /\ e.names = queue[r].names
                   ELSE posted = {}
    <3>1. CASE queue[r].status = "committed"
      <4>1. PICK e \in entries : e.row = r
        BY <2>1, <3>1 DEF NoneMissing
      <4>2. {f \in entries : f.row = r} = {e} /\ e.names = queue[r].names
        BY <2>1, <4>1 DEF OneEntryEach, EntriesStand
      <4> QED  BY <3>1, <4>2
    <3>2. CASE queue[r].status # "committed"
      BY <2>1, <3>2 DEF EntriesStand
    <3> QED  BY <3>1, <3>2
  <2>3. ASSUME NEW q \in Requests
        PROVE  LET posted == {e \in entries : e.by = q}
               IN  /\ {e.row : e \in posted} = IF q \in answered THEN request[q].rows ELSE {}
                   /\ \A e \in posted : e.version = request[q].expected[e.row]
    <3>1. \A e \in entries : e.by = q => /\ q \in answered
                                         /\ e.row \in request[q].rows
                                         /\ e.version = request[q].expected[e.row]
      BY <2>1 DEF EntriesStand
    <3>2. q \in answered => \A r \in request[q].rows : \E e \in entries : e.row = r /\ e.by = q
      BY <2>1 DEF NoneMissing
    <3> QED  BY <3>1, <3>2
  <2> QED  BY <2>2, <2>3 DEF SelectionAllOrNothing
<1> QED  BY <1>1, QueueInvHolds, PTL

(* Nothing is posted on an account that was archived or deleted while the  *)
(* rows waited or the commit was under way: the commit looks at its        *)
(* accounts under their locks, which an archive and a delete take too.     *)
THEOREM NothingOnAClosedAccount == QueueSpec => NothingOnClosedAccount
<1> DEFINE A == \A e \in entries' \ entries : account[e.names] \in {"open", "frozen"}
<1>1. ASSUME QueueInv, [QueueNext]_queueVars PROVE A
  <2>1. ASSUME NEW q \in Requests, CommitPosts(q) PROVE A
    <3>1. request[q].at = "posting"
      BY <2>1 DEF CommitPosts
    <3>2. \A r \in request[q].rows : account[request[q].read[r].names] \in {"open", "frozen"}
      BY <1>1, <3>1 DEF QueueInv, PostingIsSafe, Safe
    <3>3. entries' = entries \cup {PostedFrom(q, r) : r \in request[q].rows}
      BY <2>1 DEF CommitPosts, PostedFrom
    <3>4. \A r \in request[q].rows : PostedFrom(q, r).names = request[q].read[r].names
      BY DEF PostedFrom
    <3> QED  BY <3>2, <3>3, <3>4
  <2>2. CASE entries' = entries
    BY <2>2
  <2>3. entries' = entries \/ \E q \in Requests : CommitPosts(q)
    BY <1>1 DEF QueueNext, queueVars, CreateStage, EditStages, DeleteStages, Asks, Replays,
       CommitReads, CommitLocks, CommitRollsBack, AnswerLost, Refuses, Freezes, Counts,
       PutsAway, BringsBack
  <2> QED  BY <2>1, <2>2, <2>3
<1> HIDE DEF A
<1>2. QueueSpec => [][A]_queueVars
  BY <1>1, QueueInvHolds, PTL DEF QueueSpec
<1> QED  BY <1>2 DEF NothingOnClosedAccount, A

-------------------------------------------------------------------------------
(***************************************************************************)
(* What AccountPlaces keeps, for every number of accounts, every limit and *)
(* every plan: an account in use under a limit stays in use, and none is   *)
(* frozen behind the person's back.                                        *)
(*                                                                         *)
(* The argument is about the accounts that are live and marked.  While the *)
(* live accounts fit the limit all of them are marked (AllMarked), so what *)
(* is in use is marked whatever the plan (UsedAreMarked); more than fit    *)
(* are marked, under a limit, only while a choice is owed (ChoiceOwed);    *)
(* and an operation decides under the lock it writes under, so what it has *)
(* seen of the accounts is still so, and what it has seen of the plan is   *)
(* still so or a choice is owed (Decided).                                 *)
(***************************************************************************)
Marked(h, marked) == {a \in LiveAccounts(h) : marked[a]}
LiveNow == LiveAccounts(status)
MarkedLive == Marked(status, active)
InPlan(S) == Cardinality(S) <= MaxFree

Tasks == {NoTask}
  \cup [op : {"create"}, account : Accounts, archived : BOOLEAN]
  \cup [op : {"archive", "restore", "delete"}, account : Accounts]
  \cup [op : {"choose"}, wanted : SUBSET Accounts]

PlacesTyped ==
  /\ status \in [Accounts -> {"unopened", "live", "archived", "deleted"}]
  /\ active \in [Accounts -> BOOLEAN]
  /\ standing \in Standings
  /\ task \in Tasks
  /\ owed \in BOOLEAN
  /\ usedFree \subseteq Accounts

(* Accounts are opened in their order.                                     *)
OpenedInOrder ==
  \A a, b \in Accounts : a < b /\ status[b] # "unopened" => status[a] # "unopened"

AllMarked == InPlan(LiveNow) => LiveNow \subseteq MarkedLive
UsedAreMarked == usedFree \cap LiveNow \subseteq MarkedLive
ChoiceOwed == Limited /\ ~InPlan(MarkedLive) => owed

(* There is a place, as far as the limit was ever in force.                *)
PlaceLeft == Limited /\ ~owed => Cardinality(InUse(TRUE, status, active)) < MaxFree

Decided ==
  /\ task.op = "create" =>
       /\ \A b \in Accounts : status[b] # "unopened" <=> b < task.account
       /\ task.archived \/ PlaceLeft
  /\ task.op \in {"archive", "delete"} => status[task.account] = "live"
  /\ task.op = "restore" => status[task.account] = "archived" /\ PlaceLeft
  /\ task.op = "choose" =>
       /\ task.wanted \subseteq LiveNow
       /\ \/ task.wanted = MarkedLive
          \/ /\ ~InPlan(LiveNow) /\ InPlan(task.wanted)
             /\ ~InPlan(MarkedLive) \/ InUse(TRUE, status, active) \subseteq task.wanted

PlacesInv == /\ PlacesTyped /\ OpenedInOrder /\ AllMarked /\ UsedAreMarked
             /\ ChoiceOwed /\ Decided
-----------------------------------------------------------------------------
(* Sets of accounts, and the oldest of them.                               *)

LEMMA AccountsAreFinite ==
  ASSUME NEW S \in SUBSET Accounts
  PROVE  IsFiniteSet(S) /\ Cardinality(S) \in Nat
<1>1. IsFiniteSet(Accounts)
  BY FS_Interval, PlacesAssumption DEF Accounts
<1> QED  BY <1>1, FS_Subset, FS_CardinalityType

LEMMA FewerFit ==
  ASSUME NEW S \in SUBSET Accounts, NEW T \in SUBSET S, InPlan(S)
  PROVE  InPlan(T)
<1>1. Cardinality(T) <= Cardinality(S)
  BY AccountsAreFinite, FS_Subset
<1>2. Cardinality(T) \in Nat /\ Cardinality(S) \in Nat
  BY AccountsAreFinite
<1> QED  BY <1>1, <1>2, PlacesAssumption DEF InPlan

LEMMA SmallestAccount ==
  ASSUME NEW S \in SUBSET Accounts, S # {}
  PROVE  \E x \in S : \A y \in S : x <= y
<1>1. S \subseteq Nat
  BY PlacesAssumption DEF Accounts
<1> QED  BY <1>1, LeastNatural

Before(S, a) == {b \in S : b < a}

LEMMA OldestOfFitting ==
  ASSUME NEW S \in SUBSET Accounts, InPlan(S)
  PROVE  Oldest(S, MaxFree) = S
<1> SUFFICES ASSUME NEW a \in S PROVE Cardinality(Before(S, a)) < MaxFree
  BY DEF Oldest, Before
<1>1. Before(S, a) \in SUBSET S /\ Before(S, a) # S
  BY DEF Before, Accounts
<1>2. /\ Cardinality(Before(S, a)) <= Cardinality(S)
      /\ Cardinality(Before(S, a)) # Cardinality(S)
  BY <1>1, AccountsAreFinite, FS_Subset
<1>3. Cardinality(Before(S, a)) \in Nat /\ Cardinality(S) \in Nat
  BY <1>1, AccountsAreFinite
<1> QED  BY <1>2, <1>3, PlacesAssumption DEF InPlan

(* Fewer than allowed are the oldest only where there are no others.       *)
LEMMA OldestWhenShort ==
  ASSUME NEW S \in SUBSET Accounts, Cardinality(Oldest(S, MaxFree)) < MaxFree
  PROVE  Oldest(S, MaxFree) = S
<1> DEFINE O == Oldest(S, MaxFree)
           left == S \ O
<1>1. O \subseteq S
  BY DEF Oldest
<1> SUFFICES ASSUME left # {} PROVE FALSE
  BY <1>1
<1>2. PICK x \in left : \A y \in left : x <= y
  BY SmallestAccount
<1>3. Before(S, x) \in SUBSET O
  <2> SUFFICES ASSUME NEW b \in S, b < x, b \in left PROVE FALSE
    BY DEF Before
  <2>1. x <= b
    BY <1>2
  <2>2. x \in Int /\ b \in Int
    BY DEF Accounts
  <2> QED  BY <2>1, <2>2
<1>4. Cardinality(Before(S, x)) <= Cardinality(O)
  BY <1>1, <1>3, AccountsAreFinite, FS_Subset
<1>5. Cardinality(Before(S, x)) \in Nat /\ Cardinality(O) \in Nat
  BY <1>1, <1>3, AccountsAreFinite
<1>6. Cardinality(Before(S, x)) < MaxFree
  BY <1>4, <1>5, PlacesAssumption
<1> QED  BY <1>6 DEF Oldest, Before

(* Who is among the oldest of a set is so in any with fewer before it.     *)
LEMMA OldestOfFewer ==
  ASSUME NEW S \in SUBSET Accounts, NEW T \in SUBSET Accounts, NEW a \in T,
         a \in Oldest(S, MaxFree), Before(T, a) \subseteq Before(S, a)
  PROVE  a \in Oldest(T, MaxFree)
<1>1. Before(S, a) \in SUBSET Accounts /\ Before(T, a) \in SUBSET Before(S, a)
  BY DEF Before
<1>2. Cardinality(Before(T, a)) <= Cardinality(Before(S, a))
  BY <1>1, AccountsAreFinite, FS_Subset
<1>3. Cardinality(Before(T, a)) \in Nat /\ Cardinality(Before(S, a)) \in Nat
  BY <1>1, AccountsAreFinite
<1>4. Cardinality(Before(S, a)) < MaxFree
  BY DEF Oldest, Before
<1>5. Cardinality(Before(T, a)) < MaxFree
  BY <1>2, <1>3, <1>4, PlacesAssumption
<1> QED  BY <1>5 DEF Oldest, Before

LEMMA LiveAreAccounts ==
  ASSUME NEW h, NEW marked
  PROVE  Marked(h, marked) \subseteq LiveAccounts(h) /\ LiveAccounts(h) \subseteq Accounts
BY DEF Marked, LiveAccounts

(* What is in use under a limit.                                           *)
LEMMA InUseUnderLimit ==
  ASSUME NEW h, NEW marked
  PROVE  InUse(TRUE, h, marked) =
           IF InPlan(LiveAccounts(h)) THEN LiveAccounts(h) ELSE Oldest(Marked(h, marked), MaxFree)
<1>1. Oldest(Marked(h, marked), MaxFree) \subseteq LiveAccounts(h)
  BY LiveAreAccounts DEF Oldest
<1> QED  BY <1>1 DEF InUse, FrozenAccountIds, InPlan, Marked

(* ... is marked, where the accounts that fit are.                         *)
LEMMA InUseIsMarked ==
  ASSUME NEW h, NEW marked,
         InPlan(LiveAccounts(h)) => LiveAccounts(h) \subseteq Marked(h, marked)
  PROVE  InUse(TRUE, h, marked) \subseteq Marked(h, marked)
BY InUseUnderLimit DEF Oldest

(* What the accounts that fit are marked with.                             *)
LEMMA MarkFitting ==
  ASSUME NEW h, NEW limited, NEW marked \in [Accounts -> BOOLEAN]
  PROVE  LET after == MarkFittingAccountsActive(limited, h, marked)
         IN  /\ after \in [Accounts -> BOOLEAN]
             /\ \A a \in Accounts :
                  after[a] <=> marked[a] \/ (InPlan(LiveAccounts(h)) /\ a \in LiveAccounts(h))
BY DEF MarkFittingAccountsActive, InPlan
(* A place there is, with the accounts that fit marked, is there without.  *)
LEMMA HasPlaceMeans ==
  ASSUME NEW limited \in BOOLEAN, limited, NEW h, NEW marked \in [Accounts -> BOOLEAN],
         HasPlace(limited, h, MarkFittingAccountsActive(limited, h, marked))
  PROVE  Cardinality(InUse(TRUE, h, marked)) < MaxFree
<1> DEFINE after == MarkFittingAccountsActive(limited, h, marked)
<1>1. limited = TRUE
  OBVIOUS
<1>2. Cardinality(InUse(TRUE, h, after)) < MaxFree
  BY <1>1 DEF HasPlace, CountActiveAccounts
<1>3. ~InPlan(LiveAccounts(h)) => after = marked
  BY DEF MarkFittingAccountsActive, InPlan
<1>4. InUse(TRUE, h, after) = InUse(TRUE, h, marked)
  <2> HIDE DEF after
  <2> QED  BY <1>3, InUseUnderLimit
<1> QED  BY <1>2, <1>4

LEMMA RoomFound ==
  ASSUME PlacesInv, HasPlace(Limited, status, MarkFittingAccountsActive(Limited, status, active))
  PROVE  PlaceLeft
<1>1. Limited \in BOOLEAN
  BY DEF Limited, Limits
<1>2. active \in [Accounts -> BOOLEAN]
  BY DEF PlacesInv, PlacesTyped
<1> HIDE DEF Limited
<1> QED  BY <1>1, <1>2, HasPlaceMeans DEF PlaceLeft

LEMMA FirstSoMany ==
  ASSUME NEW n \in Nat
  PROVE  Cardinality(1 .. n) = n
<1>1. 1 \in Int /\ n \in Int
  OBVIOUS
<1>2. Cardinality(1 .. n) = IF 1 > n THEN 0 ELSE n - 1 + 1
  BY <1>1, FS_Interval
<1> QED  BY <1>2

LEMMA NewestIsNext ==
  ASSUME PlacesInv, Newest \in Accounts
  PROVE  \A b \in Accounts : status[b] # "unopened" <=> b < Newest
<1> DEFINE opened == {a \in Accounts : status[a] # "unopened"}
           left == Accounts \ opened
<1>1. left # {}
  <2> SUFFICES ASSUME left = {} PROVE FALSE
    OBVIOUS
  <2>1. opened = 1 .. Opened
    BY DEF Accounts
  <2>2. Cardinality(opened) = Opened
    <3> HIDE DEF opened
    <3> QED  BY <2>1, FirstSoMany, PlacesAssumption
  <2> QED  BY <2>2, PlacesAssumption DEF Newest, Accounts
<1>2. PICK c \in left : \A y \in left : c <= y
  BY <1>1, SmallestAccount
<1>3. c \in Nat \ {0} /\ c \in Accounts /\ status[c] = "unopened"
  BY <1>2, PlacesAssumption DEF Accounts
<1>4. \A b \in Accounts : status[b] # "unopened" <=> b < c
  <2> SUFFICES ASSUME NEW b \in Accounts
               PROVE  status[b] # "unopened" <=> b < c
    OBVIOUS
  <2>1. b \in Nat
    BY PlacesAssumption DEF Accounts
  <2>2. CASE b \in left
    BY <1>2, <1>3, <2>1, <2>2
  <2>3. CASE b \notin left
    BY <1>3, <2>1, <2>3 DEF PlacesInv, OpenedInOrder
  <2> QED  BY <2>2, <2>3
<1>5. opened = 1 .. (c - 1)
  BY <1>3, <1>4, PlacesAssumption DEF Accounts
<1>6. Cardinality(opened) = c - 1
  <2>1. c - 1 \in Nat
    BY <1>3
  <2> HIDE DEF opened
  <2> QED  BY <1>5, <2>1, FirstSoMany
<1>7. Newest = c
  BY <1>3, <1>6 DEF Newest
<1> QED  BY <1>4, <1>7

-----------------------------------------------------------------------------
LEMMA PlacesInitInv == PlacesInit => PlacesInv
<1> SUFFICES ASSUME PlacesInit PROVE PlacesInv
  OBVIOUS
<1>1. PlacesTyped
  BY DEF PlacesInit, PlacesTyped, Tasks
<1>2. LiveNow = {} /\ MarkedLive = {}
  BY DEF PlacesInit, LiveNow, LiveAccounts, MarkedLive, Marked
<1>3. InPlan({})
  BY FS_EmptySet, PlacesAssumption DEF InPlan
<1>4. OpenedInOrder
  BY DEF PlacesInit, OpenedInOrder
<1>5. AllMarked /\ UsedAreMarked /\ ChoiceOwed
  BY <1>2, <1>3 DEF AllMarked, UsedAreMarked, ChoiceOwed
<1>6. Decided
  BY DEF PlacesInit, NoTask, Decided
<1> QED  BY <1>1, <1>4, <1>5, <1>6 DEF PlacesInv

(* What holds of the accounts holds when only the task has changed.        *)
LEMMA TaskMoves ==
  ASSUME PlacesInv, UNCHANGED <<status, active, standing, owed, usedFree>>,
         task' \in Tasks, Decided'
  PROVE  PlacesInv'
BY DEF PlacesInv, PlacesTyped, OpenedInOrder, AllMarked, UsedAreMarked, ChoiceOwed, InPlan,
       LiveNow, MarkedLive, Marked, LiveAccounts, Limited

LEMMA CreatesInv ==
  ASSUME PlacesInv, NEW archived \in BOOLEAN, Creates(archived)
  PROVE  PlacesInv'
<1>1. task' = [op |-> "create", account |-> Newest, archived |-> archived]
      /\ UNCHANGED <<status, active, standing, owed, usedFree>> /\ Newest \in Accounts
  BY DEF Creates, Decides
<1>2. task' \in Tasks
  BY <1>1 DEF Tasks
<1>3. \A b \in Accounts : status[b] # "unopened" <=> b < Newest
  BY <1>1, NewestIsNext
<1>4. archived \/ PlaceLeft
  BY RoomFound DEF Creates
<1>5. Decided'
  BY <1>1, <1>3, <1>4 DEF Decided, PlaceLeft, Limited
<1> QED  BY <1>1, <1>2, <1>5, TaskMoves

LEMMA PutsAwayInv ==
  ASSUME PlacesInv, NEW a \in Accounts, Archives(a) \/ Deletes(a)
  PROVE  PlacesInv'
<1>1. PICK op \in {"archive", "delete"} : task' = [op |-> op, account |-> a]
  BY DEF Archives, Deletes, Decides
<1>2. UNCHANGED <<status, active, standing, owed, usedFree>> /\ status[a] = "live"
  BY DEF Archives, Deletes, Decides
<1>3. task' \in Tasks
  BY <1>1 DEF Tasks
<1>4. Decided'
  BY <1>1, <1>2 DEF Decided
<1> QED  BY <1>2, <1>3, <1>4, TaskMoves

LEMMA RestoresInv ==
  ASSUME PlacesInv, NEW a \in Accounts, Restores(a)
  PROVE  PlacesInv'
<1>1. task' = [op |-> "restore", account |-> a] /\ status[a] = "archived"
      /\ UNCHANGED <<status, active, standing, owed, usedFree>>
  BY DEF Restores, Decides
<1>2. task' \in Tasks
  BY <1>1 DEF Tasks
<1>3. PlaceLeft
  BY RoomFound DEF Restores, RestoreAllowance
<1>4. Decided'
  BY <1>1, <1>3 DEF Decided, PlaceLeft, Limited
<1> QED  BY <1>1, <1>2, <1>4, TaskMoves

LEMMA ChoosesInv ==
  ASSUME PlacesInv, NEW wanted \in SUBSET LiveAccounts(status), Chooses(wanted)
  PROVE  PlacesInv'
<1>1. task' = [op |-> "choose", wanted |-> wanted]
      /\ UNCHANGED <<status, active, standing, owed, usedFree>>
  BY DEF Chooses, Decides
<1>2. task' \in Tasks
  BY <1>1 DEF Tasks, LiveAccounts
<1>3. \/ wanted = MarkedLive
      \/ /\ ~InPlan(LiveNow) /\ InPlan(wanted)
         /\ ~InPlan(MarkedLive) \/ InUse(TRUE, status, active) \subseteq wanted
  <2>1. ActiveAccountChange(Limited, status, active, wanted)
    BY DEF Chooses
  <2>2. CASE ~Limited \/ Cardinality(LiveNow) <= MaxFree
    BY <2>1, <2>2 DEF ActiveAccountChange, MarkedLive, Marked, LiveNow
  <2>3. CASE Limited /\ ~(Cardinality(LiveNow) <= MaxFree)
    <3>1. Limited = TRUE
      BY <2>3 DEF Limited, Limits
    <3>2. /\ Cardinality(wanted) <= MaxFree
          /\ ActiveChoicePending(TRUE, status, active) \/ InUse(TRUE, status, active) \subseteq wanted
      BY <2>1, <2>3, <3>1 DEF ActiveAccountChange, LiveNow
    <3>3. ActiveChoicePending(TRUE, status, active) => ~InPlan(MarkedLive)
      <4>1. Cardinality(MarkedLive) \in Nat
        BY LiveAreAccounts, AccountsAreFinite DEF MarkedLive
      <4> QED  BY <4>1, PlacesAssumption DEF ActiveChoicePending, InPlan, MarkedLive, Marked
    <3> QED  BY <2>3, <3>2, <3>3 DEF InPlan
  <2> QED  BY <2>2, <2>3
<1>4. Decided'
  BY <1>1, <1>3 DEF Decided, LiveNow, MarkedLive, InPlan, Marked, LiveAccounts
<1> QED  BY <1>1, <1>2, <1>4, TaskMoves

LEMMA RolledBackInv ==
  ASSUME PlacesInv, RolledBack
  PROVE  PlacesInv'
<1>1. task' = NoTask /\ UNCHANGED <<status, active, standing, owed, usedFree>>
  BY DEF RolledBack
<1>2. task' \in Tasks /\ Decided'
  BY <1>1 DEF Tasks, Decided, NoTask
<1> QED  BY <1>1, <1>2, TaskMoves

(* A limit that comes into force is a choice owed.                         *)
LEMMA PlanChangesInv ==
  ASSUME PlacesInv, PlanChanges
  PROVE  PlacesInv'
<1>1. /\ UNCHANGED <<status, active, task>> /\ standing' \in Standings
      /\ owed' = (owed \/ (~Limited /\ Limited'))
      /\ usedFree' = usedFree \cup Uses(status, active, standing')
  BY DEF PlanChanges
<1>2. Uses(status, active, standing') \subseteq MarkedLive
  BY InUseIsMarked DEF Uses, MarkedLive, LiveNow, PlacesInv, AllMarked
<1>3. MarkedLive \subseteq Accounts
  BY LiveAreAccounts DEF MarkedLive
<1>4. PlacesTyped'
  <2>1. owed' \in BOOLEAN
    BY <1>1
  <2>2. usedFree' \subseteq Accounts
    BY <1>1, <1>2, <1>3 DEF PlacesInv, PlacesTyped
  <2> QED  BY <1>1, <2>1, <2>2 DEF PlacesInv, PlacesTyped
<1>5. LiveNow' = LiveNow /\ MarkedLive' = MarkedLive
  BY <1>1 DEF LiveNow, MarkedLive, Marked, LiveAccounts
<1>6. OpenedInOrder'
  BY <1>1 DEF PlacesInv, OpenedInOrder
<1>7. AllMarked'
  BY <1>5 DEF PlacesInv, AllMarked, InPlan
<1>8. UsedAreMarked'
  BY <1>1, <1>2, <1>5 DEF PlacesInv, UsedAreMarked
<1>9. Limited' /\ ~owed' => Limited /\ ~owed
  BY <1>1 DEF PlacesInv, PlacesTyped
<1>10. ChoiceOwed'
  BY <1>5, <1>9 DEF PlacesInv, ChoiceOwed, InPlan
<1>11. PlaceLeft => PlaceLeft'
  BY <1>1, <1>9 DEF PlaceLeft
<1>12. Decided'
  BY <1>1, <1>5, <1>11 DEF PlacesInv, Decided, InPlan
<1> QED  BY <1>4, <1>6, <1>7, <1>8, <1>10, <1>12 DEF PlacesInv
-----------------------------------------------------------------------------
(* What a commit does to the live and the marked accounts.                 *)

LEMMA MarkedAlready ==
  ASSUME PlacesInv, NEW limited
  PROVE  MarkFittingAccountsActive(limited, status, active) = active
<1>1. active \in [Accounts -> BOOLEAN]
  BY DEF PlacesInv, PlacesTyped
<1>2. CASE ~InPlan(LiveNow)
  BY <1>2 DEF MarkFittingAccountsActive, InPlan, LiveNow
<1>3. CASE InPlan(LiveNow)
  <2>1. \A a \in Accounts : active[a] \/ a \in LiveNow <=> active[a]
    BY <1>3 DEF PlacesInv, AllMarked, MarkedLive, Marked, LiveNow
  <2>2. MarkFittingAccountsActive(limited, status, active)
          = [a \in Accounts |-> active[a] \/ a \in LiveNow]
    BY <1>3 DEF MarkFittingAccountsActive, InPlan, LiveNow
  <2>3. \A a \in Accounts : (active[a] \/ a \in LiveNow) = active[a]
    BY <1>1, <2>1
  <2> QED  BY <1>1, <2>2, <2>3
<1> QED  BY <1>2, <1>3

LEMMA TaskShape ==
  ASSUME PlacesInv
  PROVE  /\ task.op = "create" => task.account \in Accounts /\ task.archived \in BOOLEAN
         /\ task.op \in {"archive", "restore", "delete"} => task.account \in Accounts
         /\ task.op = "choose" => task.wanted \in SUBSET Accounts
BY DEF PlacesInv, PlacesTyped, Tasks, NoTask

LEMMA LiveAfter ==
  ASSUME PlacesInv, NEW c \in Accounts
  PROVE  /\ [status EXCEPT ![c] = "live"]
              \in [Accounts -> {"unopened", "live", "archived", "deleted"}]
         /\ LiveAccounts([status EXCEPT ![c] = "live"]) = LiveNow \cup {c}
         /\ \A s \in {"archived", "deleted"} :
              /\ [status EXCEPT ![c] = s]
                   \in [Accounts -> {"unopened", "live", "archived", "deleted"}]
              /\ LiveAccounts([status EXCEPT ![c] = s]) = LiveNow \ {c}
<1>1. status \in [Accounts -> {"unopened", "live", "archived", "deleted"}]
  BY DEF PlacesInv, PlacesTyped
<1> QED  BY <1>1 DEF LiveAccounts, LiveNow

(* A commit that has its parts in order leaves them so.                    *)
LEMMA CommitsKeep ==
  ASSUME PlacesInv, NEW h, NEW marked, NEW out, Commits(h, marked, out),
         h \in [Accounts -> {"unopened", "live", "archived", "deleted"}],
         marked \in [Accounts -> BOOLEAN], owed' \in BOOLEAN,
         OpenedInOrder', AllMarked', ChoiceOwed',
         (usedFree \ out) \cap LiveNow' \subseteq MarkedLive'
  PROVE  PlacesInv'
<1>1. /\ status' = h /\ active' = marked /\ task' = NoTask /\ standing' = standing
      /\ usedFree' = (usedFree \ out) \cup Uses(h, marked, standing)
  BY DEF Commits
<1>2. LiveNow' = LiveAccounts(h) /\ MarkedLive' = Marked(h, marked)
  BY <1>1 DEF LiveNow, MarkedLive, Marked, LiveAccounts
<1>3. Uses(h, marked, standing) \subseteq Marked(h, marked)
  BY <1>2, InUseIsMarked DEF Uses, AllMarked, InPlan
<1>4. UsedAreMarked'
  BY <1>1, <1>2, <1>3 DEF UsedAreMarked
<1>5. PlacesTyped'
  <2>1. usedFree' \subseteq Accounts
    BY <1>1, <1>3, LiveAreAccounts DEF PlacesInv, PlacesTyped
  <2> QED  BY <1>1, <2>1 DEF PlacesInv, PlacesTyped, Tasks
<1>6. Decided'
  BY <1>1 DEF Decided, NoTask
<1> QED  BY <1>4, <1>5, <1>6 DEF PlacesInv

(* Under a limit with no choice owed, a place means what it says.          *)
LEMMA PlaceLeftMeans ==
  ASSUME PlacesInv, PlaceLeft, Limited, ~owed
  PROVE  \A c \in Accounts : InPlan(MarkedLive \cup {c})
<1>1. Cardinality(InUse(TRUE, status, active)) < MaxFree
  BY DEF PlaceLeft
<1>2. InUse(TRUE, status, active) = MarkedLive
  <2>1. CASE InPlan(LiveNow)
    BY <2>1, InUseUnderLimit, LiveAreAccounts DEF PlacesInv, AllMarked, LiveNow, MarkedLive
  <2>2. CASE ~InPlan(LiveNow)
    <3>1. InUse(TRUE, status, active) = Oldest(MarkedLive, MaxFree)
      BY <2>2, InUseUnderLimit DEF LiveNow, MarkedLive
    <3>2. MarkedLive \in SUBSET Accounts
      BY LiveAreAccounts DEF MarkedLive
    <3> QED  BY <1>1, <3>1, <3>2, OldestWhenShort
  <2> QED  BY <2>1, <2>2
<1>3. MarkedLive \in SUBSET Accounts
  BY LiveAreAccounts DEF MarkedLive
<1> SUFFICES ASSUME NEW c \in Accounts PROVE InPlan(MarkedLive \cup {c})
  OBVIOUS
<1>4. IsFiniteSet(MarkedLive) /\ Cardinality(MarkedLive) \in Nat
  BY <1>3, AccountsAreFinite
<1>5. Cardinality(MarkedLive \cup {c}) =
        IF c \in MarkedLive THEN Cardinality(MarkedLive) ELSE Cardinality(MarkedLive) + 1
  BY <1>4, FS_AddElement
<1>6. Cardinality(MarkedLive) < MaxFree
  BY <1>1, <1>2
<1>7. Cardinality(MarkedLive \cup {c}) <= MaxFree
  BY <1>4, <1>5, <1>6, PlacesAssumption
<1> QED  BY <1>7 DEF InPlan

(* One more live account, marked: opened, or restored.                     *)
LEMMA OneMoreMarked ==
  ASSUME PlacesInv, NEW c \in Accounts, PlaceLeft, UNCHANGED <<standing, owed>>,
         LiveNow' = LiveNow \cup {c}, MarkedLive' = MarkedLive \cup {c}
  PROVE  AllMarked' /\ ChoiceOwed' /\ usedFree \cap LiveNow' \subseteq MarkedLive'
<1>1. MarkedLive \subseteq LiveNow /\ LiveNow \subseteq Accounts
  BY LiveAreAccounts DEF MarkedLive, LiveNow
<1>2. AllMarked'
  <2> SUFFICES ASSUME InPlan(LiveNow \cup {c}) PROVE LiveNow \cup {c} \subseteq MarkedLive \cup {c}
    BY DEF AllMarked, InPlan
  <2>1. LiveNow \in SUBSET (LiveNow \cup {c}) /\ LiveNow \cup {c} \in SUBSET Accounts
    BY <1>1
  <2>2. InPlan(LiveNow)
    BY <2>1, FewerFit
  <2> QED  BY <2>2 DEF PlacesInv, AllMarked
<1>3. ChoiceOwed'
  <2>1. Limited' = Limited
    BY DEF Limited
  <2>2. Limited /\ ~owed => InPlan(MarkedLive \cup {c})
    BY PlaceLeftMeans
  <2> QED  BY <2>1, <2>2 DEF ChoiceOwed, InPlan
<1>4. usedFree \cap LiveNow' \subseteq MarkedLive'
  BY DEF PlacesInv, UsedAreMarked
<1> QED  BY <1>2, <1>3, <1>4
(* Created, or restored, live and marked.                                  *)
LEMMA LiveAndMarked ==
  ASSUME PlacesInv, NEW c \in Accounts,
         status' = [status EXCEPT ![c] = "live"], active' = [active EXCEPT ![c] = TRUE]
  PROVE  LiveNow' = LiveNow \cup {c} /\ MarkedLive' = MarkedLive \cup {c}
<1>1. active \in [Accounts -> BOOLEAN]
  BY DEF PlacesInv, PlacesTyped
<1>2. LiveAccounts(status') = LiveNow \cup {c}
  BY LiveAfter
<1>3. LiveNow' = LiveNow \cup {c}
  BY <1>2 DEF LiveNow
<1>4. MarkedLive' = {a \in LiveNow' : active'[a]}
  BY DEF MarkedLive, Marked, LiveNow
<1>5. LiveNow \subseteq Accounts
  BY LiveAreAccounts DEF LiveNow
<1> QED  BY <1>1, <1>3, <1>4, <1>5 DEF MarkedLive, Marked, LiveNow

LEMMA CreatedInv ==
  ASSUME PlacesInv, Created
  PROVE  PlacesInv'
<1> DEFINE c == task.account
           h == [status EXCEPT ![c] = IF task.archived THEN "archived" ELSE "live"]
           marked == [active EXCEPT ![c] = TRUE]
<1>1. task.op = "create" /\ c \in Accounts /\ task.archived \in BOOLEAN /\ UNCHANGED owed
  BY TaskShape DEF Created
<1>2. \A b \in Accounts : status[b] # "unopened" <=> b < c
  BY <1>1 DEF PlacesInv, Decided
<1>3. /\ status \in [Accounts -> {"unopened", "live", "archived", "deleted"}]
      /\ active \in [Accounts -> BOOLEAN] /\ marked \in [Accounts -> BOOLEAN]
      /\ h \in [Accounts -> {"unopened", "live", "archived", "deleted"}]
  BY <1>1 DEF PlacesInv, PlacesTyped
<1>4. Commits(h, IF task.archived THEN MarkFittingAccountsActive(Limited, h, marked)
                 ELSE marked, {})
  BY MarkedAlready DEF Created
<1>5. status' = h /\ UNCHANGED standing
  BY <1>4 DEF Commits
<1>6. OpenedInOrder'
  BY <1>1, <1>2, <1>3, <1>5 DEF OpenedInOrder, Accounts
<1>7. owed' \in BOOLEAN
  BY <1>1 DEF PlacesInv, PlacesTyped
<1>8. CASE ~task.archived
  <2>1. Commits(h, marked, {})
    BY <1>4, <1>8
  <2>2. LiveNow' = LiveNow \cup {c} /\ MarkedLive' = MarkedLive \cup {c}
    BY <1>1, <1>8, <2>1, LiveAndMarked DEF Commits
  <2>3. PlaceLeft
    BY <1>1, <1>8 DEF PlacesInv, Decided
  <2>4. AllMarked' /\ ChoiceOwed' /\ usedFree \cap LiveNow' \subseteq MarkedLive'
    BY <1>1, <1>5, <2>2, <2>3, OneMoreMarked
  <2> HIDE DEF h, marked
  <2> QED  BY <1>3, <1>6, <1>7, <2>1, <2>4, CommitsKeep
<1>9. CASE task.archived
  <2> DEFINE after == MarkFittingAccountsActive(Limited, h, marked)
  <2>1. Commits(h, after, {}) /\ h = [status EXCEPT ![c] = "archived"]
    BY <1>4, <1>9
  <2>2. c \notin LiveNow
    BY <1>1, <1>2 DEF LiveNow, LiveAccounts, Accounts
  <2>3. LiveAccounts(h) = LiveNow
    <3>1. \A s \in {"archived", "deleted"} :
            LiveAccounts([status EXCEPT ![c] = s]) = LiveNow \ {c}
      BY <1>1, LiveAfter
    <3>2. LiveAccounts([status EXCEPT ![c] = "archived"]) = LiveNow \ {c}
      BY <3>1
    <3> HIDE DEF h
    <3> QED  BY <2>1, <2>2, <3>2
  <2>4. LiveNow' = LiveNow
    BY <1>5, <2>3 DEF LiveNow
  <2>5. LiveNow \subseteq Accounts
    BY LiveAreAccounts DEF LiveNow
  <2>6. after \in [Accounts -> BOOLEAN]
        /\ \A a \in Accounts : after[a] <=> marked[a] \/ (InPlan(LiveNow) /\ a \in LiveNow)
    <3> HIDE DEF h, marked
    <3> QED  BY <1>3, <2>3, MarkFitting
  <2>7. \A a \in LiveNow : after[a] <=> active[a]
    BY <1>1, <1>3, <2>2, <2>5, <2>6 DEF PlacesInv, AllMarked, MarkedLive, Marked, LiveNow
  <2>8. active' = after
    BY <2>1 DEF Commits
  <2>9. MarkedLive' = MarkedLive
    <3> HIDE DEF after
    <3> QED  BY <1>5, <2>3, <2>7, <2>8 DEF MarkedLive, Marked, LiveNow
  <2>10. Limited' = Limited
    BY <1>5 DEF Limited
  <2>11. AllMarked' /\ ChoiceOwed' /\ (usedFree \ {}) \cap LiveNow' \subseteq MarkedLive'
    BY <1>1, <2>4, <2>9, <2>10 DEF PlacesInv, AllMarked, ChoiceOwed, UsedAreMarked, InPlan
  <2> HIDE DEF h, after
  <2> QED  BY <1>3, <1>6, <1>7, <2>1, <2>6, <2>11, CommitsKeep
<1> QED  BY <1>8, <1>9
LEMMA RestoredInv ==
  ASSUME PlacesInv, Restored
  PROVE  PlacesInv'
<1> DEFINE c == task.account
           h == [status EXCEPT ![c] = "live"]
           marked == [active EXCEPT ![c] = TRUE]
<1>1. task.op = "restore" /\ c \in Accounts /\ UNCHANGED owed
  BY TaskShape DEF Restored
<1>2. Commits(h, marked, {})
  BY MarkedAlready DEF Restored
<1>3. PlaceLeft /\ status[c] = "archived"
  BY <1>1 DEF PlacesInv, Decided
<1>4. /\ status \in [Accounts -> {"unopened", "live", "archived", "deleted"}]
      /\ active \in [Accounts -> BOOLEAN] /\ marked \in [Accounts -> BOOLEAN]
      /\ h \in [Accounts -> {"unopened", "live", "archived", "deleted"}]
      /\ owed' \in BOOLEAN
  BY <1>1 DEF PlacesInv, PlacesTyped
<1>5. status' = h /\ active' = marked /\ UNCHANGED standing
  BY <1>2 DEF Commits
<1>6. OpenedInOrder'
  BY <1>1, <1>3, <1>4, <1>5 DEF PlacesInv, OpenedInOrder
<1>7. LiveNow' = LiveNow \cup {c} /\ MarkedLive' = MarkedLive \cup {c}
  BY <1>1, <1>5, LiveAndMarked
<1>8. AllMarked' /\ ChoiceOwed' /\ usedFree \cap LiveNow' \subseteq MarkedLive'
  BY <1>1, <1>3, <1>5, <1>7, OneMoreMarked
<1> HIDE DEF h, marked
<1> QED  BY <1>2, <1>4, <1>6, <1>8, CommitsKeep

(* One live account fewer: archived, or deleted.                           *)
LEMMA OneLess ==
  ASSUME PlacesInv, NEW c \in Accounts, NEW s \in {"archived", "deleted"},
         status[c] = "live", status' = [status EXCEPT ![c] = s],
         active' = MarkFittingAccountsActive(Limited, status', active)
  PROVE  /\ LiveNow' = LiveNow \ {c}
         /\ MarkedLive' = IF InPlan(LiveNow') THEN LiveNow' ELSE MarkedLive \ {c}
         /\ active' \in [Accounts -> BOOLEAN]
<1> DEFINE h == status'
<1>1. active \in [Accounts -> BOOLEAN]
  BY DEF PlacesInv, PlacesTyped
<1>2. LiveAccounts(h) = LiveNow \ {c}
  <2>1. LiveAccounts([status EXCEPT ![c] = s]) = LiveNow \ {c}
    BY LiveAfter
  <2> QED  BY <2>1
<1>3. LiveNow' = LiveNow \ {c}
  BY <1>2 DEF LiveNow
<1>4. active' \in [Accounts -> BOOLEAN]
      /\ \A a \in Accounts : active'[a] <=> active[a] \/ (InPlan(LiveNow') /\ a \in LiveNow')
  <2> DEFINE after == MarkFittingAccountsActive(Limited, h, active)
  <2>1. LiveAccounts(h) = LiveNow' /\ active' = after
    BY <1>2, <1>3
  <2>2. after \in [Accounts -> BOOLEAN]
        /\ \A a \in Accounts : after[a] <=> active[a] \/ (InPlan(LiveAccounts(h)) /\ a \in LiveAccounts(h))
    <3> HIDE DEF h
    <3> QED  BY <1>1, MarkFitting
  <2> HIDE DEF after, h
  <2> QED  BY <2>1, <2>2
<1>5. LiveNow' \subseteq Accounts /\ MarkedLive' = {a \in LiveNow' : active'[a]}
  BY <1>3, LiveAreAccounts DEF LiveNow, MarkedLive, Marked
<1>6. MarkedLive = {a \in LiveNow : active[a]}
  BY DEF MarkedLive, Marked, LiveNow
<1>7. MarkedLive' = IF InPlan(LiveNow') THEN LiveNow' ELSE MarkedLive \ {c}
  <2> HIDE DEF h
  <2>1. CASE InPlan(LiveNow')
    BY <1>4, <1>5, <2>1
  <2>2. CASE ~InPlan(LiveNow')
    BY <1>3, <1>4, <1>5, <1>6, <2>2
  <2> QED  BY <2>1, <2>2
<1> QED  BY <1>3, <1>4, <1>7

LEMMA LeavesInv ==
  ASSUME PlacesInv, Archived \/ Deleted
  PROVE  PlacesInv'
<1> DEFINE c == task.account
<1>1. PICK s \in {"archived", "deleted"} :
        LET h == [status EXCEPT ![c] = s]
        IN  Commits(h, MarkFittingAccountsActive(Limited, h, active), {c})
  BY DEF Archived, Deleted
<1>2. task.op \in {"archive", "delete"} /\ c \in Accounts /\ UNCHANGED owed
  BY TaskShape DEF Archived, Deleted
<1>3. status[c] = "live"
  BY <1>2 DEF PlacesInv, Decided
<1>4. /\ status' = [status EXCEPT ![c] = s] /\ UNCHANGED standing
      /\ active' = MarkFittingAccountsActive(Limited, status', active)
      /\ Commits(status', active', {c})
  BY <1>1 DEF Commits
<1>5. /\ LiveNow' = LiveNow \ {c}
      /\ MarkedLive' = IF InPlan(LiveNow') THEN LiveNow' ELSE MarkedLive \ {c}
      /\ active' \in [Accounts -> BOOLEAN]
  BY <1>2, <1>3, <1>4, OneLess
<1>6. status' \in [Accounts -> {"unopened", "live", "archived", "deleted"}]
      /\ owed' \in BOOLEAN
  BY <1>2, <1>4 DEF PlacesInv, PlacesTyped
<1>7. OpenedInOrder'
  BY <1>2, <1>3, <1>4, <1>6 DEF PlacesInv, PlacesTyped, OpenedInOrder
<1>8. AllMarked'
  BY <1>5 DEF AllMarked, InPlan
<1>9. ChoiceOwed'
  <2> SUFFICES ASSUME Limited, ~InPlan(MarkedLive)', ~owed PROVE FALSE
    BY <1>2, <1>4 DEF ChoiceOwed, Limited
  <2>1. ~InPlan(MarkedLive')
    BY DEF InPlan
  <2>2. MarkedLive' = MarkedLive \ {c} /\ InPlan(MarkedLive)
    BY <1>5, <2>1 DEF PlacesInv, ChoiceOwed
  <2>3. MarkedLive \in SUBSET Accounts
    BY LiveAreAccounts DEF MarkedLive
  <2>4. InPlan(MarkedLive \ {c})
    BY <2>2, <2>3, FewerFit
  <2> QED  BY <2>1, <2>2, <2>4
<1>10. (usedFree \ {c}) \cap LiveNow' \subseteq MarkedLive'
  BY <1>5 DEF PlacesInv, UsedAreMarked
<1> QED  BY <1>4, <1>5, <1>6, <1>7, <1>8, <1>9, <1>10, CommitsKeep

(* The choice: of what is live, it is what is marked from now on.          *)
LEMMA ChosenEffect ==
  ASSUME PlacesInv, Chosen
  PROVE  /\ task.op = "choose" /\ task.wanted \subseteq LiveNow
         /\ Commits(status, active', LiveNow \ task.wanted)
         /\ LiveNow' = LiveNow /\ MarkedLive' = task.wanted
         /\ active' \in [Accounts -> BOOLEAN] /\ owed' = (owed /\ active' = active)
         /\ task.wanted = MarkedLive => active' = active
<1> DEFINE wanted == task.wanted
<1>1. task.op = "choose" /\ wanted \subseteq LiveNow /\ owed' = (owed /\ active' = active)
  BY DEF Chosen, PlacesInv, Decided
<1>2. active \in [Accounts -> BOOLEAN]
  BY DEF PlacesInv, PlacesTyped
<1>3. /\ Commits(status, active', LiveNow \ wanted) /\ status' = status
      /\ active' = [a \in Accounts |-> IF a \in LiveNow THEN a \in wanted ELSE active[a]]
  BY DEF Chosen, Commits, LiveNow
<1>4. LiveNow' = LiveNow /\ LiveNow \subseteq Accounts
  BY <1>3, LiveAreAccounts DEF LiveNow
<1>5. active' \in [Accounts -> BOOLEAN]
  <2>1. \A a \in Accounts : (IF a \in LiveNow THEN a \in wanted ELSE active[a]) \in BOOLEAN
    <3> SUFFICES ASSUME NEW a \in Accounts
                 PROVE  (IF a \in LiveNow THEN a \in wanted ELSE active[a]) \in BOOLEAN
      OBVIOUS
    <3>1. active[a] \in BOOLEAN
      BY <1>2
    <3>2. (a \in wanted) \in BOOLEAN
      OBVIOUS
    <3> QED  BY <3>1, <3>2
  <2> QED  BY <1>3, <2>1, Zenon
<1>6. MarkedLive' = {a \in LiveNow' : active'[a]}
  BY DEF MarkedLive, Marked, LiveNow
<1>7. MarkedLive' = wanted
  BY <1>1, <1>3, <1>4, <1>6
<1>8. ASSUME wanted = MarkedLive PROVE active' = active
  <2>1. \A a \in LiveNow : a \in wanted <=> active[a]
    BY <1>8 DEF MarkedLive, Marked, LiveNow
  <2>2. \A a \in LiveNow : (a \in wanted) = active[a]
    BY <1>2, <1>4, <2>1
  <2>3. \A a \in Accounts : (IF a \in LiveNow THEN a \in wanted ELSE active[a]) = active[a]
    BY <2>2
  <2> QED  BY <1>2, <1>3, <2>3
<1> QED  BY <1>1, <1>3, <1>4, <1>5, <1>7, <1>8

LEMMA ChosenInv ==
  ASSUME PlacesInv, Chosen
  PROVE  PlacesInv'
<1> DEFINE wanted == task.wanted
<1>1. /\ task.op = "choose" /\ wanted \subseteq LiveNow
      /\ Commits(status, active', LiveNow \ wanted)
      /\ LiveNow' = LiveNow /\ MarkedLive' = wanted
      /\ active' \in [Accounts -> BOOLEAN] /\ owed' = (owed /\ active' = active)
      /\ wanted = MarkedLive => active' = active
  BY ChosenEffect
<1>2. wanted = MarkedLive \/ (~InPlan(LiveNow) /\ InPlan(wanted))
  BY <1>1 DEF PlacesInv, Decided
<1>3. status' = status /\ standing' = standing
  BY <1>1 DEF Commits
<1>4. status \in [Accounts -> {"unopened", "live", "archived", "deleted"}] /\ owed' \in BOOLEAN
  BY <1>1 DEF PlacesInv, PlacesTyped
<1>5. OpenedInOrder'
  BY <1>3 DEF PlacesInv, OpenedInOrder
<1>6. AllMarked'
  BY <1>1, <1>2 DEF PlacesInv, AllMarked, InPlan
<1>7. Limited' = Limited
  BY <1>3 DEF Limited
<1>8. ChoiceOwed'
  <2>1. CASE wanted = MarkedLive
    BY <1>1, <1>7, <2>1 DEF PlacesInv, ChoiceOwed, InPlan
  <2>2. CASE InPlan(wanted)
    BY <1>1, <2>2 DEF ChoiceOwed, InPlan
  <2> QED  BY <1>2, <2>1, <2>2
<1>9. (usedFree \ (LiveNow \ wanted)) \cap LiveNow' \subseteq MarkedLive'
  BY <1>1
<1> QED  BY <1>1, <1>4, <1>5, <1>6, <1>8, <1>9, CommitsKeep

-----------------------------------------------------------------------------
LEMMA PlacesNextInv ==
  ASSUME PlacesInv, [PlacesNext]_placesVars
  PROVE  PlacesInv'
<1>1. CASE UNCHANGED placesVars
  BY <1>1, TaskMoves DEF placesVars, PlacesInv, PlacesTyped, Decided, PlaceLeft, Limited,
                         LiveNow, MarkedLive, Marked, LiveAccounts, InPlan
<1>2. CASE PlacesNext
  BY <1>2, CreatesInv, CreatedInv, PutsAwayInv, RestoresInv, LeavesInv, RestoredInv,
     ChoosesInv, ChosenInv, RolledBackInv, PlanChangesInv DEF PlacesNext
<1> QED  BY <1>1, <1>2
LEMMA PlacesInvHolds == PlacesSpec => []PlacesInv
BY PlacesInitInv, PlacesNextInv, PTL DEF PlacesSpec

-----------------------------------------------------------------------------
(* What is in use, from one step to the next.                              *)

InUseOf(live, marked) == IF InPlan(live) THEN live ELSE Oldest(marked, MaxFree)
InUseNow == InUseOf(LiveNow, MarkedLive)

LEMMA InUseIsNow ==
  /\ InUse(TRUE, status, active) = InUseNow
  /\ InUse(TRUE, status', active') = InUseNow'
<1>1. InUse(TRUE, status, active) = InUseNow
  BY InUseUnderLimit DEF InUseNow, InUseOf, LiveNow, MarkedLive
<1>2. InUse(TRUE, status', active') =
        IF InPlan(LiveAccounts(status')) THEN LiveAccounts(status')
        ELSE Oldest(Marked(status', active'), MaxFree)
  BY InUseUnderLimit
<1>3. InUseNow' = IF InPlan(LiveNow') THEN LiveNow' ELSE Oldest(MarkedLive', MaxFree)
  BY DEF InUseNow, InUseOf, InPlan, Oldest
<1>4. LiveNow' = LiveAccounts(status') /\ MarkedLive' = Marked(status', active')
  BY DEF LiveNow, MarkedLive, LiveAccounts, Marked
<1>5. InUse(TRUE, status', active') = InUseNow'
  BY <1>2, <1>3, <1>4
<1> QED  BY <1>1, <1>5

(* An account that is in use is live and marked, and is among the oldest   *)
(* of those, even where all of them fit.                                   *)
LEMMA UsedIsOldest ==
  ASSUME PlacesInv, NEW a \in InUseNow
  PROVE  a \in LiveNow /\ a \in MarkedLive /\ a \in Oldest(MarkedLive, MaxFree)
<1>1. MarkedLive \in SUBSET Accounts /\ MarkedLive \subseteq LiveNow
  BY LiveAreAccounts DEF MarkedLive, LiveNow
<1>2. CASE InPlan(LiveNow)
  <2>1. LiveNow = MarkedLive
    BY <1>1, <1>2 DEF PlacesInv, AllMarked
  <2>2. Oldest(MarkedLive, MaxFree) = MarkedLive
    BY <1>1, <1>2, <2>1, OldestOfFitting
  <2> QED  BY <1>2, <2>1, <2>2 DEF InUseNow, InUseOf
<1>3. CASE ~InPlan(LiveNow)
  BY <1>1, <1>3 DEF InUseNow, InUseOf, Oldest
<1> QED  BY <1>2, <1>3

(* It stays in use where no account older than it is added.                *)
LEMMA StaysInUse ==
  ASSUME PlacesInv, NEW a \in InUseNow,
         ~InPlan(LiveNow') => a \in MarkedLive' /\ Before(MarkedLive', a) \subseteq Before(MarkedLive, a),
         a \in LiveNow'
  PROVE  a \in InUseNow'
<1>1. MarkedLive \in SUBSET Accounts /\ a \in Oldest(MarkedLive, MaxFree)
  BY UsedIsOldest, LiveAreAccounts DEF MarkedLive
<1>2. MarkedLive' \in SUBSET Accounts
  BY DEF MarkedLive, Marked, LiveAccounts
<1>3. CASE ~InPlan(LiveNow')
  <2>1. a \in Oldest(MarkedLive', MaxFree)
    BY <1>1, <1>2, <1>3, OldestOfFewer
  <2> QED  BY <1>3, <2>1 DEF InUseNow, InUseOf, InPlan, Oldest
<1>4. CASE InPlan(LiveNow')
  BY <1>4 DEF InUseNow, InUseOf, InPlan
<1> QED  BY <1>3, <1>4

(* ... or where all that are marked fit.                                   *)
LEMMA StaysInUseFitting ==
  ASSUME PlacesInv, NEW a, a \in MarkedLive', InPlan(MarkedLive')
  PROVE  a \in InUseNow'
<1>1. MarkedLive' \in SUBSET Accounts /\ MarkedLive' \subseteq LiveNow'
  BY DEF MarkedLive, Marked, LiveAccounts, LiveNow
<1>2. Oldest(MarkedLive', MaxFree) = MarkedLive'
  BY <1>1, OldestOfFitting
<1> QED  BY <1>1, <1>2 DEF InUseNow, InUseOf, InPlan, Oldest

(* More are marked than fit: the person is asked.                          *)
LEMMA PendingIsTooMany ==
  /\ ActiveChoicePending(TRUE, status, active) <=> ~InPlan(MarkedLive)
  /\ ActiveChoicePending(TRUE, status', active') <=> ~InPlan(MarkedLive')
<1>1. ASSUME NEW h, NEW marked
      PROVE  ActiveChoicePending(TRUE, h, marked) <=> ~InPlan(Marked(h, marked))
  <2>1. Marked(h, marked) \in SUBSET Accounts
    BY LiveAreAccounts
  <2>2. Cardinality(Marked(h, marked)) \in Nat
    BY <2>1, AccountsAreFinite
  <2>3. Cardinality(Marked(h, marked)) > MaxFree <=> ~(Cardinality(Marked(h, marked)) <= MaxFree)
    BY <2>2, PlacesAssumption
  <2> QED  BY <2>3 DEF ActiveChoicePending, InPlan, Marked
<1>2. MarkedLive' = Marked(status', active')
  BY DEF MarkedLive, Marked, LiveAccounts
<1>3. ActiveChoicePending(TRUE, status', active') <=> ~InPlan(Marked(status', active'))
  BY <1>1
<1>4. ActiveChoicePending(TRUE, status, active) <=> ~InPlan(MarkedLive)
  BY <1>1 DEF MarkedLive
<1> QED  BY <1>2, <1>3, <1>4

(* What InUseStaysInUse allows.                                            *)
KeptInUse(a) ==
  \/ a \in InUseNow'
  \/ status'[a] # "live"
  \/ owed /\ (owed' => ~InPlan(MarkedLive'))

LEMMA AccountsUnchanged ==
  ASSUME PlacesInv, UNCHANGED <<status, active>>, NEW a \in InUseNow
  PROVE  KeptInUse(a)
BY DEF KeptInUse, InUseNow, LiveNow, MarkedLive, Marked, LiveAccounts

LEMMA CreatedKeeps ==
  ASSUME PlacesInv, Created, NEW a \in InUseNow
  PROVE  a \in InUseNow'
<1> DEFINE c == task.account
<1>1. task.op = "create" /\ c \in Accounts /\ task.archived \in BOOLEAN
      /\ \A b \in Accounts : status[b] # "unopened" <=> b < c
  BY TaskShape DEF Created, PlacesInv, Decided
<1>2. a \in LiveNow /\ a \in MarkedLive /\ LiveNow \subseteq Accounts
  BY UsedIsOldest, LiveAreAccounts DEF LiveNow
<1>3. ~ (c < a) /\ c \notin LiveNow
  BY <1>1, <1>2 DEF LiveNow, LiveAccounts, Accounts
<1>4. CASE ~task.archived
  <2>1. status' = [status EXCEPT ![c] = "live"] /\ active' = [active EXCEPT ![c] = TRUE]
    BY <1>4, MarkedAlready DEF Created, Commits
  <2>2. LiveNow' = LiveNow \cup {c} /\ MarkedLive' = MarkedLive \cup {c}
    BY <1>1, <2>1, LiveAndMarked
  <2>3. Before(MarkedLive \cup {c}, a) \subseteq Before(MarkedLive, a)
    BY <1>3 DEF Before
  <2> QED  BY <1>2, <2>2, <2>3, StaysInUse
<1>5. CASE task.archived
  <2> DEFINE marked == [active EXCEPT ![c] = TRUE]
  <2>1. status' = [status EXCEPT ![c] = "archived"]
        /\ active' = MarkFittingAccountsActive(Limited, status', marked)
    BY <1>5, MarkedAlready DEF Created, Commits
  <2>2. LiveNow' = LiveNow
    <3>1. \A s \in {"archived", "deleted"} :
            LiveAccounts([status EXCEPT ![c] = s]) = LiveNow \ {c}
      BY <1>1, LiveAfter
    <3>2. LiveAccounts([status EXCEPT ![c] = "archived"]) = LiveNow \ {c}
      BY <3>1
    <3> QED  BY <1>3, <2>1, <3>2 DEF LiveNow
  <2>3. ~InPlan(LiveNow') => active' = marked
    BY <2>1 DEF MarkFittingAccountsActive, InPlan, LiveNow
  <2>4. marked \in [Accounts -> BOOLEAN] /\ \A b \in Accounts : b # c => marked[b] = active[b]
    BY DEF PlacesInv, PlacesTyped
  <2>5. ~InPlan(LiveNow') => MarkedLive' = MarkedLive
    <3> HIDE DEF marked
    <3>1. MarkedLive' = {b \in LiveNow' : active'[b]} /\ MarkedLive = {b \in LiveNow : active[b]}
      BY DEF MarkedLive, Marked, LiveNow
    <3> QED  BY <1>2, <1>3, <2>2, <2>3, <2>4, <3>1
  <2> QED  BY <1>2, <2>2, <2>5, StaysInUse
<1> QED  BY <1>1, <1>4, <1>5

LEMMA RestoredKeeps ==
  ASSUME PlacesInv, Restored, Limited, NEW a \in InUseNow
  PROVE  KeptInUse(a)
<1> DEFINE c == task.account
<1>1. task.op = "restore" /\ c \in Accounts /\ UNCHANGED owed
  BY TaskShape DEF Restored
<1>2. PlaceLeft
  BY <1>1 DEF PlacesInv, Decided
<1>3. status' = [status EXCEPT ![c] = "live"] /\ active' = [active EXCEPT ![c] = TRUE]
  BY MarkedAlready DEF Restored, Commits
<1>4. MarkedLive' = MarkedLive \cup {c}
  BY <1>1, <1>3, LiveAndMarked
<1>5. CASE InPlan(MarkedLive')
  <2>1. a \in MarkedLive'
    BY <1>4, UsedIsOldest
  <2> QED  BY <1>5, <2>1, StaysInUseFitting DEF KeptInUse
<1>6. CASE ~InPlan(MarkedLive')
  <2>1. owed
    BY <1>1, <1>2, <1>4, <1>6, PlaceLeftMeans
  <2> QED  BY <1>6, <2>1 DEF KeptInUse
<1> QED  BY <1>5, <1>6

LEMMA LeavesKeeps ==
  ASSUME PlacesInv, Archived \/ Deleted, NEW a \in InUseNow
  PROVE  KeptInUse(a)
<1> DEFINE c == task.account
<1>1. task.op \in {"archive", "delete"} /\ c \in Accounts
  BY TaskShape DEF Archived, Deleted
<1>2. status[c] = "live"
  BY <1>1 DEF PlacesInv, Decided
<1>3. PICK s \in {"archived", "deleted"} : status' = [status EXCEPT ![c] = s]
  BY DEF Archived, Deleted, Commits
<1>4. active' = MarkFittingAccountsActive(Limited, status', active)
  BY DEF Archived, Deleted, Commits
<1>5. LiveNow' = LiveNow \ {c} /\ MarkedLive' = IF InPlan(LiveNow') THEN LiveNow' ELSE MarkedLive \ {c}
  BY <1>1, <1>2, <1>3, <1>4, OneLess
<1>6. a \in LiveNow /\ a \in MarkedLive
  BY UsedIsOldest
<1>7. CASE a = c
  BY <1>1, <1>3, <1>7 DEF KeptInUse, PlacesInv, PlacesTyped
<1>8. CASE a # c
  <2>1. Before(MarkedLive \ {c}, a) \subseteq Before(MarkedLive, a)
    BY DEF Before
  <2>2. a \in InUseNow'
    BY <1>5, <1>6, <1>8, <2>1, StaysInUse
  <2> QED  BY <2>2 DEF KeptInUse
<1> QED  BY <1>7, <1>8

LEMMA ChosenKeeps ==
  ASSUME PlacesInv, Chosen, Limited, NEW a \in InUseNow
  PROVE  KeptInUse(a)
<1> DEFINE wanted == task.wanted
<1>1. /\ task.op = "choose" /\ LiveNow' = LiveNow /\ MarkedLive' = wanted
      /\ owed' = (owed /\ active' = active)
      /\ wanted = MarkedLive => active' = active
  BY ChosenEffect
<1>2. \/ wanted = MarkedLive
      \/ /\ ~InPlan(LiveNow) /\ InPlan(wanted)
         /\ ~InPlan(MarkedLive) \/ InUseNow \subseteq wanted
  BY <1>1, InUseIsNow DEF PlacesInv, Decided
<1>3. CASE wanted = MarkedLive
  BY <1>1, <1>3 DEF KeptInUse, InUseNow, InUseOf, InPlan, Oldest
<1>4. CASE InPlan(wanted) /\ InUseNow \subseteq wanted
  BY <1>1, <1>4, StaysInUseFitting DEF KeptInUse
<1>5. CASE wanted # MarkedLive /\ ~InPlan(MarkedLive)
  <2>1. owed
    BY <1>5 DEF PlacesInv, ChoiceOwed
  <2>2. ~owed'
    <3> SUFFICES ASSUME active' = active PROVE FALSE
      BY <1>1
    <3>1. status' = status
      BY ChosenEffect DEF Commits
    <3>2. MarkedLive' = MarkedLive
      BY <3>1 DEF MarkedLive, Marked, LiveAccounts
    <3> QED  BY <1>1, <1>5, <3>2
  <2> QED  BY <2>1, <2>2 DEF KeptInUse
<1> QED  BY <1>2, <1>3, <1>4, <1>5

-----------------------------------------------------------------------------
(* Every variable of the places has its type (accounts.ts).                *)
THEOREM PlacesTypeCorrect == PlacesSpec => []PlacesTypeOK
<1>1. PlacesInv => PlacesTypeOK
  BY DEF PlacesInv, PlacesTyped, PlacesTypeOK, Tasks, NoTask
<1> QED  BY <1>1, PlacesInvHolds, PTL

(* A spell on the paid plan freezes nothing behind the person's back       *)
(* (markFittingAccountsActive): what was in use under a limit, and was     *)
(* neither left out of a choice nor archived since, is frozen only while   *)
(* the person is asked.                                                    *)
THEOREM NobodyIsFrozenSilently == PlacesSpec => []NoSilentFreeze
<1>1. ASSUME PlacesInv PROVE NoSilentFreeze
  <2> SUFFICES ASSUME Limited, ~ActiveChoicePending(TRUE, status, active),
                      NEW a \in FrozenAccountIds(TRUE, status, active), a \in usedFree
               PROVE  FALSE
    BY DEF NoSilentFreeze
  <2>1. InPlan(MarkedLive) /\ MarkedLive \in SUBSET Accounts
    BY PendingIsTooMany, LiveAreAccounts DEF MarkedLive
  <2>2. a \in LiveNow /\ a \notin Oldest(MarkedLive, MaxFree)
    BY DEF FrozenAccountIds, LiveNow, MarkedLive, Marked
  <2>3. a \in MarkedLive
    BY <1>1, <2>2 DEF PlacesInv, UsedAreMarked
  <2> QED  BY <2>1, <2>2, <2>3, OldestOfFitting
<1> QED  BY <1>1, PlacesInvHolds, PTL

(* While a limited plan is in force an account in use stays in use until   *)
(* it is archived or deleted, or until the one choice owed leaves it out:  *)
(* no create, no restore and no second choice swaps it for another, even   *)
(* if the plan changes between their check and their commit                *)
(* (accountAllowance, restoreAllowance, activeAccountChange).              *)
THEOREM InUseAlwaysStays == PlacesSpec => InUseStaysInUse
<1> DEFINE A == Limited /\ Limited' =>
                  \A a \in InUse(TRUE, status, active) :
                    \/ a \in InUse(TRUE, status, active)'
                    \/ status'[a] # "live"
                    \/ owed /\ (owed' => ActiveChoicePending(TRUE, status, active)')
<1>1. ASSUME PlacesInv, [PlacesNext]_placesVars PROVE A
  <2> SUFFICES ASSUME Limited, NEW a \in InUseNow
               PROVE  KeptInUse(a)
    <3>1. InUse(TRUE, status, active)' = InUseNow' /\ InUse(TRUE, status, active) = InUseNow
      BY InUseIsNow
    <3>2. ActiveChoicePending(TRUE, status, active)' <=> ~InPlan(MarkedLive')
      BY PendingIsTooMany
    <3> QED  BY <3>1, <3>2 DEF KeptInUse
  <2>1. CASE Created
    BY <1>1, <2>1, CreatedKeeps DEF KeptInUse
  <2>2. CASE Restored
    BY <1>1, <2>2, RestoredKeeps
  <2>3. CASE Archived \/ Deleted
    BY <1>1, <2>3, LeavesKeeps
  <2>4. CASE Chosen
    BY <1>1, <2>4, ChosenKeeps
  <2>5. CASE UNCHANGED <<status, active>>
    BY <1>1, <2>5, AccountsUnchanged
  <2>6. UNCHANGED <<status, active>> \/ Created \/ Restored \/ Archived \/ Deleted \/ Chosen
    BY <1>1 DEF PlacesNext, placesVars, Creates, Archives, Restores, Deletes, Chooses,
       Decides, RolledBack, PlanChanges
  <2> QED  BY <2>1, <2>2, <2>3, <2>4, <2>5, <2>6
<1> HIDE DEF A
<1>2. PlacesSpec => [][A]_placesVars
  BY <1>1, PlacesInvHolds, PTL DEF PlacesSpec
<1> QED  BY <1>2 DEF InUseStaysInUse, A

-------------------------------------------------------------------------------
(***************************************************************************)
(* What LedgerFiles keeps, for every number of ledgers, files and ids: a   *)
(* ledger holds each entry once, and a move goes through.                  *)
(*                                                                         *)
(* The argument is that an export calls whatever it names by its fact, the *)
(* id under which it was first written down (NamedByFact), though the code *)
(* never stores one: an origin is such an id, an entry without an origin   *)
(* is its own or was committed from a row that is (CommittedTo), and a     *)
(* file holds nothing else (FilesNameFacts).  So what findImportOrigins    *)
(* finds is what the ledger holds, and findWaitingOrigins what only waits. *)
(***************************************************************************)
Held == Booked \cup {"waiting"}
Things == [is : {"nothing", "entry", "deleted", "waiting", "committed", "discarded"},
           of : Ledgers \cup {NoOne}, origin : Ids \cup {NoOne},
           became : Ids \cup {NoOne}, fact : Ids \cup {NoOne}]

(* The facts, and what a file may hold when they are G.                    *)
Known == {g \in 1 .. issued : thing[g].fact = g}
ByFact(g) == [id |-> g, fact |-> g]
Called(G) == {ByFact(g) : g \in G}
Exports(G) == [live : SUBSET Called(G), deleted : SUBSET Called(G),
               staged : SUBSET Called(G), recurs : BOOLEAN]

Moves == [Ledgers -> [brought : SUBSET Ids, goesOn : BOOLEAN]]

FilesTyped ==
  /\ issued \in 0 .. MaxId
  /\ thing \in [Ids -> Things]
  /\ recurring \subseteq Ledgers
  /\ move \in Moves
  /\ room \in Bounds

(* Ids are given out in order, and a fact is the id of its first record.   *)
GivenOut ==
  /\ \A i \in Ids : i > issued => thing[i] = Nowhere
  /\ \A i \in 1 .. issued : /\ thing[i].of \in Ledgers
                            /\ thing[i].fact \in 1 .. issued
                            /\ thing[thing[i].fact].fact = thing[i].fact

(* r is the staged row that i was committed from.                          *)
CameFrom(things, i, r) ==
  /\ things[r].is = "committed" /\ things[r].became = i
  /\ things[r].of = things[i].of /\ things[r].origin = NoOne

(* What is without an origin is its own fact, or was committed from a row  *)
(* of the same ledger that is.                                             *)
NamedByFact ==
  \A i \in 1 .. issued :
    /\ thing[i].origin # NoOne => thing[i].origin = thing[i].fact
    /\ thing[i].origin = NoOne =>
         \/ thing[i].fact = i
         \/ thing[i].is \in Booked /\ CameFrom(thing, i, thing[i].fact)

(* A committed row became an entry of its ledger and of its fact.          *)
CommittedTo ==
  \A r \in 1 .. issued : thing[r].is = "committed" =>
    /\ thing[r].became \in 1 .. issued
    /\ thing[thing[r].became].is \in Booked
    /\ thing[thing[r].became].of = thing[r].of
    /\ thing[thing[r].became].origin = thing[r].origin
    /\ thing[thing[r].became].fact = thing[r].fact

FilesNameFacts == file \in Seq(Exports(Known))

(* Nothing has proposed a row behind the back of a move that goes on.      *)
MovesAreAlone == \A l \in Ledgers : move[l].goesOn => l \notin recurring

FilesInv == /\ FilesTyped /\ GivenOut /\ NamedByFact /\ CommittedTo /\ FilesNameFacts
            /\ MovesAreAlone /\ HeldOnce /\ MovesGoThrough

(* The part of it that is about the records, and the facts in the books of *)
(* a ledger.                                                               *)
Records == /\ issued \in 0 .. MaxId /\ thing \in [Ids -> Things]
           /\ GivenOut /\ NamedByFact /\ CommittedTo /\ HeldOnce
InTheBooks(l) == {thing[i].fact : i \in In(l, Booked)}

-----------------------------------------------------------------------------
(* Ids for a set of items, and what an export calls a thing.               *)

LEMMA CalledIsFinite == ASSUME NEW G, IsFiniteSet(G) PROVE IsFiniteSet(Called(G))
<1> DEFINE f == [g \in G |-> ByFact(g)]
<1>1. f \in Surjection(G, Called(G))
  BY DEF Surjection, Called, ByFact
<1> QED  BY <1>1, FS_Surjection

(* Numbered gives each of a finite set of items an id of its own, and      *)
(* leaves none of the next ids out.                                        *)
LEMMA NumberedIsOneToOne ==
  ASSUME NEW items, IsFiniteSet(items), issued \in Nat
  PROVE  LET n == Cardinality(items)
             spot == Numbered(items)
         IN  /\ n \in Nat
             /\ spot \in [items -> (issued + 1) .. (issued + n)]
             /\ \A x, y \in items : x # y => spot[x] # spot[y]
             /\ \A i \in (issued + 1) .. (issued + n) : \E x \in items : spot[x] = i
<1> DEFINE n == Cardinality(items)
           T == (issued + 1) .. (issued + n)
           spot == Numbered(items)
<1>1. n \in Nat /\ ExistsBijection(1 .. n, items)
  BY FS_CardinalityType
<1>2. PICK b \in Bijection(1 .. n, items) : TRUE
  BY <1>1, Fun_ExistsBij
<1>3. \E a \in [items -> T] : \A x, y \in items : x # y => a[x] # a[y]
  <2> DEFINE place(x) == CHOOSE i \in 1 .. n : b[i] = x
             a == [x \in items |-> issued + place(x)]
  <2>1. \A x \in items : place(x) \in 1 .. n /\ b[place(x)] = x
    BY <1>2 DEF Bijection, Injection, Surjection
  <2> HIDE DEF place
  <2>2. a \in [items -> T]
    BY <1>1, <2>1
  <2>3. \A x, y \in items : x # y => a[x] # a[y]
    BY <1>1, <2>1
  <2> QED  BY <2>2, <2>3
<1>4. spot \in [items -> T] /\ \A x, y \in items : x # y => spot[x] # spot[y]
  BY <1>3 DEF Numbered
<1>5. IsFiniteSet(T) /\ Cardinality(T) = n
  <2> HIDE DEF n, spot
  <2>1. issued + 1 \in Int /\ issued + n \in Int /\ n \in Nat /\ issued \in Nat
    BY <1>1
  <2>2. Cardinality(T) = IF issued + 1 > issued + n THEN 0 ELSE (issued + n) - (issued + 1) + 1
    BY <2>1, FS_Interval
  <2> QED  BY <2>1, <2>2, FS_Interval
<1> HIDE DEF spot
<1>6. ASSUME NEW i \in T, \A x \in items : spot[x] # i PROVE FALSE
  <2>1. spot \in [items -> T \ {i}]
    BY <1>4, <1>6
  <2>2. IsFiniteSet(T \ {i}) /\ Cardinality(T \ {i}) = n - 1
    <3> HIDE DEF T, n
    <3> QED  BY <1>5, <1>6, FS_RemoveElement
  <2>3. Cardinality(T \ {i}) < Cardinality(items)
    BY <1>1, <2>2
  <2>4. \E x, y \in items : x # y /\ spot[x] = spot[y]
    BY <2>1, <2>2, <2>3, FS_PigeonHole
  <2> QED  BY <1>4, <2>4
<1> QED  BY <1>1, <1>4, <1>6 DEF spot

(* CommittedFrom finds the row an entry of no origin came from, and Origin *)
(* is the fact: what readCommittedFrom and the export make of it.          *)
LEMMA OriginIsFact ==
  ASSUME FilesInv, NEW i \in 1 .. issued, thing[i].is \in Held
  PROVE  Origin(i) = thing[i].fact
<1> USE FilesAssumption
<1>0. i \in Ids
  BY DEF FilesInv, FilesTyped, Ids
<1>1. CASE thing[i].origin # NoOne
  BY <1>1 DEF FilesInv, NamedByFact, Origin
<1>2. CASE thing[i].origin = NoOne
  <2>1. ASSUME NEW r \in CommittedFrom(i) PROVE r = thing[i].fact /\ thing[i].is \in Booked
    <3>1. /\ r \in 1 .. issued /\ thing[r].is = "committed" /\ thing[r].became = i
          /\ thing[r].origin = NoOne
      <4>1. r \in Ids /\ thing[r].is = "committed"
        BY <2>1 DEF CommittedFrom, In
      <4>2. thing[r] # Nowhere
        BY <4>1 DEF Nowhere
      <4> QED  BY <2>1, <4>1, <4>2 DEF CommittedFrom, In, FilesInv, FilesTyped, GivenOut, Ids
    <3>2. thing[r].fact = thing[i].fact /\ thing[i].is \in Booked
      BY <3>1 DEF FilesInv, CommittedTo
    <3>3. thing[r].fact = r
      BY <3>1 DEF FilesInv, NamedByFact, Booked
    <3> QED  BY <3>2, <3>3
  <2>2. CASE thing[i].fact = i
    <3>1. CommittedFrom(i) # {} => Origin(i) = thing[i].fact
      BY <1>2, <2>1 DEF Origin
    <3>2. CommittedFrom(i) = {} => Origin(i) = i
      BY <1>2 DEF Origin
    <3> QED  BY <2>2, <3>1, <3>2
  <2>3. CASE thing[i].is \in Booked /\ CameFrom(thing, i, thing[i].fact)
    <3>1. thing[i].fact \in CommittedFrom(i)
      BY <1>0, <2>3 DEF CommittedFrom, CameFrom, In, FilesInv, GivenOut, FilesTyped, Ids
    <3> QED  BY <1>2, <2>1, <2>3, <3>1 DEF Origin
  <2> QED  BY <1>2, <2>2, <2>3 DEF FilesInv, NamedByFact
<1> QED  BY <1>1, <1>2

(* findImportOrigins finds every fact a ledger holds.                      *)
LEMMA WhatIsHeldIsFound ==
  ASSUME FilesInv, NEW l \in Ledgers, NEW i \in In(l, Held)
  PROVE  thing[i].fact \in FindImportOrigins(l)
<1> USE FilesAssumption
<1>1. i \in 1 .. issued /\ i \in Ids /\ thing[i].of = l /\ thing[i].is \in Held
  <2>1. thing[i].is # "nothing"
    BY DEF In, Held, Booked
  <2>2. thing[i] # Nowhere
    BY <2>1 DEF Nowhere
  <2> QED  BY <2>2 DEF In, FilesInv, FilesTyped, GivenOut, Ids
<1>2. CASE thing[i].origin # NoOne
  <2>1. thing[i].fact = thing[i].origin
    BY <1>1, <1>2 DEF FilesInv, NamedByFact
  <2> QED  BY <1>1, <2>1 DEF FindImportOrigins, In, Held
<1>3. CASE thing[i].origin = NoOne /\ thing[i].fact = i
  BY <1>1, <1>3 DEF FindImportOrigins, In, Held
<1>4. CASE thing[i].is \in Booked /\ CameFrom(thing, i, thing[i].fact)
  <2>1. thing[i].fact \in Ids
    BY <1>1 DEF FilesInv, GivenOut, FilesTyped, Ids
  <2> QED  BY <1>1, <1>4, <2>1 DEF FindImportOrigins, In, CameFrom
<1> QED  BY <1>1, <1>2, <1>3, <1>4 DEF FilesInv, NamedByFact

(* What findImportOrigins finds, and findWaitingOrigins does not say only  *)
(* waits, is in the books.                                                 *)
LEMMA WhatIsFoundIsInTheBooks ==
  ASSUME FilesInv, NEW l \in Ledgers, NEW g \in 1 .. issued, thing[g].fact = g,
         g \in FindImportOrigins(l), g \notin FindWaitingOrigins(l)
  PROVE  \E i \in In(l, Booked) : thing[i].fact = g
<1> USE FilesAssumption
<1>0. g \in Ids /\ g # NoOne
  BY DEF FilesInv, FilesTyped, Ids
<1>a. ASSUME NEW i \in Ids, thing[i].is # "nothing" PROVE i \in 1 .. issued
  <2>1. thing[i] # Nowhere
    BY <1>a DEF Nowhere
  <2> QED  BY <2>1 DEF FilesInv, FilesTyped, GivenOut, Ids
<1>1. CASE g \in In(l, Booked) \cup {thing[i].origin : i \in In(l, Booked)}
  <2>1. CASE g \in In(l, Booked)
    BY <2>1
  <2>2. ASSUME NEW i \in In(l, Booked), g = thing[i].origin
        PROVE \E e \in In(l, Booked) : thing[e].fact = g
    <3>1. i \in 1 .. issued
      BY <1>a DEF In, Booked
    <3>2. thing[i].fact = g
      BY <1>0, <2>2, <3>1 DEF FilesInv, NamedByFact
    <3> QED  BY <3>2
  <2> QED  BY <1>1, <2>1, <2>2
<1>2. CASE g \in {r \in In(l, {"committed"}) : thing[r].origin = NoOne}
  <2>1. g \in Ids /\ thing[g].is = "committed" /\ thing[g].of = l
    BY <1>2 DEF In
  <2> DEFINE e == thing[g].became
  <2>2. e \in 1 .. issued /\ thing[e].is \in Booked /\ thing[e].of = l /\ thing[e].fact = g
    BY <2>1 DEF FilesInv, CommittedTo
  <2>3. e \in Ids
    BY <2>2 DEF FilesInv, FilesTyped, Ids
  <2> QED  BY <2>2, <2>3 DEF In
<1> QED  BY <1>1, <1>2 DEF FindImportOrigins, FindWaitingOrigins

-----------------------------------------------------------------------------
(* Steps that only add records to one ledger.                              *)

(* Something written down for the first time, or something a file calls by *)
(* a fact that is not held here.                                           *)
Fresh(i, l) ==
  /\ thing'[i].of = l /\ thing'[i].is \in Held
  /\ \/ thing'[i].origin = NoOne /\ thing'[i].fact = i
     \/ /\ thing'[i].fact \in 1 .. issued
        /\ thing'[i].origin = thing'[i].fact
        /\ thing[thing'[i].fact].fact = thing'[i].fact
        /\ thing'[i].fact \notin FindImportOrigins(l)

Grows(l) ==
  /\ issued' \in issued .. MaxId
  /\ thing' \in [Ids -> Things]
  /\ \A i \in 1 .. issued : thing'[i] = thing[i]
  /\ \A i \in Ids : i > issued' => thing'[i] = Nowhere
  /\ \A i \in (issued + 1) .. issued' : Fresh(i, l)
  /\ \A i, j \in (issued + 1) .. issued' : thing'[i].fact = thing'[j].fact => i = j

LEMMA OnlyGivenOut ==
  ASSUME FilesInv, NEW i \in Ids, thing[i].is # "nothing"
  PROVE  i \in 1 .. issued
<1>1. thing[i] # Nowhere
  BY DEF Nowhere
<1> QED  BY <1>1, FilesAssumption DEF FilesInv, FilesTyped, GivenOut, Ids

LEMMA GrowthKeepsRecords ==
  ASSUME FilesInv, NEW l \in Ledgers, Grows(l)
  PROVE  Records'
<1> USE FilesAssumption
<1> DEFINE Old == 1 .. issued
           Recent == (issued + 1) .. issued'
<1>1. /\ issued \in Nat /\ issued' \in Nat /\ issued <= issued' /\ issued' <= MaxId
      /\ 1 .. issued' = Old \cup Recent /\ 1 .. issued' \subseteq Ids
      /\ Old \cap Recent = {}
  BY DEF Grows, FilesInv, FilesTyped, Ids
<1>2. \A i \in Old : thing'[i] = thing[i]
  BY DEF Grows
<1>3. \A i \in Recent : Fresh(i, l)
  BY DEF Grows
<1>4. \A i \in Old : thing[i].fact \in Old /\ thing[thing[i].fact].fact = thing[i].fact
                     /\ thing[i].of \in Ledgers
  BY DEF FilesInv, GivenOut
<1>5. GivenOut'
  <2>1. ASSUME NEW i \in Old
        PROVE  /\ thing'[i].of \in Ledgers /\ thing'[i].fact \in Old
               /\ thing'[thing'[i].fact].fact = thing'[i].fact
    BY <1>2, <1>4
  <2>2. ASSUME NEW i \in Recent
        PROVE  /\ thing'[i].of \in Ledgers /\ thing'[i].fact \in Old \cup {i}
               /\ thing'[thing'[i].fact].fact = thing'[i].fact
    BY <1>2, <1>3 DEF Fresh
  <2>3. \A i \in Ids : i > issued' => thing'[i] = Nowhere
    BY DEF Grows
  <2> QED  BY <1>1, <2>1, <2>2, <2>3 DEF GivenOut
<1>6. NamedByFact'
  <2>1. ASSUME NEW i \in Old
        PROVE  /\ thing'[i].origin # NoOne => thing'[i].origin = thing'[i].fact
               /\ thing'[i].origin = NoOne =>
                    \/ thing'[i].fact = i
                    \/ thing'[i].is \in Booked /\ CameFrom(thing', i, thing'[i].fact)
    <3>1. CASE thing[i].is \in Booked /\ CameFrom(thing, i, thing[i].fact)
      BY <1>2, <1>4, <3>1 DEF CameFrom, FilesInv, NamedByFact
    <3>2. CASE ~(thing[i].is \in Booked /\ CameFrom(thing, i, thing[i].fact))
      BY <1>2, <3>2 DEF FilesInv, NamedByFact
    <3> QED  BY <3>1, <3>2
  <2>2. ASSUME NEW i \in Recent
        PROVE  /\ thing'[i].origin # NoOne => thing'[i].origin = thing'[i].fact
               /\ thing'[i].origin = NoOne => thing'[i].fact = i
    BY <1>1, <1>3 DEF Fresh, Ids
  <2> QED  BY <1>1, <2>1, <2>2 DEF NamedByFact
<1>7. CommittedTo'
  <2>1. \A r \in Recent : thing'[r].is # "committed"
    BY <1>3 DEF Fresh, Held, Booked
  <2>2. ASSUME NEW r \in Old, thing'[r].is = "committed"
        PROVE  /\ thing'[r].became \in Old
               /\ thing'[thing'[r].became].is \in Booked
               /\ thing'[thing'[r].became].of = thing'[r].of
               /\ thing'[thing'[r].became].origin = thing'[r].origin
               /\ thing'[thing'[r].became].fact = thing'[r].fact
    BY <1>2, <2>2 DEF FilesInv, CommittedTo
  <2> QED  BY <1>1, <2>1, <2>2 DEF CommittedTo
<1>8. HeldOnce'
  <2> SUFFICES ASSUME NEW led \in Ledgers, NEW i \in In(led, Held)', NEW j \in In(led, Held)',
                      thing'[i].fact = thing'[j].fact
               PROVE  i = j
    BY DEF HeldOnce, Held
  <2>1. ASSUME NEW k \in In(led, Held)'
        PROVE  /\ thing'[k].of = led /\ thing'[k].is \in Held
               /\ k \in Recent => led = l
               /\ k \in Old \cup Recent
               /\ k \in Old => k \in In(led, Held)
    <3>1. k \in Ids /\ thing'[k].of = led /\ thing'[k].is \in Held
      BY <2>1 DEF In
    <3>2. k <= issued'
      <4>1. thing'[k] # Nowhere
        BY <3>1 DEF Nowhere, Held, Booked
      <4> QED  BY <1>1, <3>1, <4>1 DEF Grows, Ids
    <3>3. k \in Old \cup Recent
      BY <1>1, <3>1, <3>2 DEF Ids
    <3>4. k \in Recent => led = l
      BY <1>3, <3>1 DEF Fresh
    <3>5. k \in Old => k \in In(led, Held)
      BY <1>2, <3>1 DEF In
    <3> QED  BY <3>1, <3>3, <3>4, <3>5
  <2>2. ASSUME NEW k \in Old, NEW m \in Recent, k \in In(l, Held), thing'[m].fact = thing[k].fact
        PROVE  FALSE
    <3>1. thing[k].fact \in FindImportOrigins(l) /\ thing[k].fact \in Old
      BY <1>4, <2>2, WhatIsHeldIsFound
    <3> QED  BY <1>1, <1>3, <2>2, <3>1 DEF Fresh
  <2>3. CASE i \in Old /\ j \in Old
    <3>1. i \in In(led, Held) /\ j \in In(led, Held) /\ thing[i].fact = thing[j].fact
      BY <1>2, <2>1, <2>3
    <3> QED  BY <3>1 DEF FilesInv, HeldOnce, Held
  <2>4. CASE i \in Recent /\ j \in Recent
    BY <2>4 DEF Grows
  <2>5. CASE i \in Old /\ j \in Recent
    BY <1>2, <2>1, <2>2, <2>5
  <2>6. CASE i \in Recent /\ j \in Old
    BY <1>2, <2>1, <2>2, <2>6
  <2> QED  BY <2>1, <2>3, <2>4, <2>5, <2>6
<1>9. issued' \in 0 .. MaxId /\ thing' \in [Ids -> Things]
  BY <1>1 DEF Grows
<1> QED  BY <1>5, <1>6, <1>7, <1>8, <1>9 DEF Records

(* Nothing leaves the books, and no other ledger has more in it.           *)
LEMMA GrowthKeepsBooks ==
  ASSUME FilesInv, NEW l \in Ledgers, Grows(l), NEW led \in Ledgers
  PROVE  /\ InTheBooks(led) \subseteq InTheBooks(led)'
         /\ led # l => (MoveBlocked(led)' => MoveBlocked(led))
<1> USE FilesAssumption
<1>1. ASSUME NEW i \in In(led, Booked) PROVE i \in In(led, Booked)' /\ thing'[i].fact = thing[i].fact
  <2>1. i \in 1 .. issued
    BY <1>1, OnlyGivenOut DEF In, Booked
  <2>2. thing'[i] = thing[i]
    BY <2>1 DEF Grows
  <2> QED  BY <1>1, <2>2 DEF In
<1>2. ASSUME led # l, NEW i \in In(led, Held)', thing'[i].origin = NoOne
      PROVE  i \in In(led, Held) /\ thing[i].origin = NoOne
  <2>1. i \in Ids /\ thing'[i].of = led /\ thing'[i].is \in Held
    BY <1>2 DEF In
  <2>2. thing'[i] # Nowhere
    BY <2>1 DEF Nowhere, Held, Booked
  <2>3. i <= issued' /\ issued \in Nat /\ issued' \in Nat /\ i \in Nat /\ i >= 1
    BY <2>1, <2>2 DEF Grows, FilesInv, FilesTyped, Ids
  <2>4. i \notin (issued + 1) .. issued'
    BY <1>2, <2>1 DEF Grows, Fresh
  <2>5. thing'[i] = thing[i]
    BY <2>3, <2>4 DEF Grows
  <2> QED  BY <1>2, <2>1, <2>5 DEF In
<1>3. InTheBooks(led) \subseteq InTheBooks(led)'
  BY <1>1 DEF InTheBooks
<1>4. led # l => (MoveBlocked(led)' => MoveBlocked(led))
  BY <1>2 DEF MoveBlocked, Held
<1> QED  BY <1>3, <1>4

-----------------------------------------------------------------------------
(* Each way of growing.                                                    *)

(* Files name facts, and a fact stays one.                                 *)
LEMMA FilesStandStill ==
  ASSUME FilesInv, Known \subseteq Known', file' = file
  PROVE  FilesNameFacts'
<1>1. Called(Known) \subseteq Called(Known)'
  BY DEF Called
<1>2. Exports(Known) \subseteq Exports(Known)'
  BY <1>1 DEF Exports
<1> HIDE DEF Exports
<1> QED  BY <1>2 DEF FilesInv, FilesNameFacts

LEMMA GrowthKeepsFacts ==
  ASSUME FilesInv, NEW l \in Ledgers, Grows(l)
  PROVE  Known \subseteq Known'
BY FilesAssumption DEF Grows, Known, FilesInv, FilesTyped

LEMMA OneMoreGrows ==
  ASSUME FilesInv, NEW l \in Ledgers, NEW is \in {"entry", "waiting"}, issued < room.ids,
         thing' = [thing EXCEPT ![issued + 1] = New(is, l, NoOne, issued + 1)],
         issued' = issued + 1
  PROVE  Grows(l)
<1> USE FilesAssumption
<1>1. issued \in Nat /\ issued + 1 \in Ids /\ issued + 1 \in 1 .. MaxId
  BY DEF FilesInv, FilesTyped, Ids
<1>2. New(is, l, NoOne, issued + 1) \in Things
  BY <1>1 DEF New, Things
<1>3. thing' \in [Ids -> Things]
  BY <1>1, <1>2 DEF FilesInv, FilesTyped
<1>4. thing'[issued + 1] = New(is, l, NoOne, issued + 1)
  BY <1>1 DEF FilesInv, FilesTyped
<1>5. \A i \in Ids : i # issued + 1 => thing'[i] = thing[i]
  BY <1>1 DEF FilesInv, FilesTyped
<1>6. Fresh(issued + 1, l)
  BY <1>4 DEF Fresh, New, Held, Booked
<1>7. \A i \in (issued + 1) .. issued' : i = issued + 1
  BY <1>1
<1>8. \A i \in 1 .. issued : i \in Ids /\ i # issued + 1
  BY <1>1 DEF Ids
<1>9. \A i \in Ids : i > issued' => i > issued /\ i # issued + 1
  BY <1>1 DEF Ids
<1>10. \A i \in Ids : i > issued' => thing'[i] = Nowhere
  BY <1>5, <1>9 DEF FilesInv, GivenOut
<1> QED  BY <1>1, <1>3, <1>5, <1>6, <1>7, <1>8, <1>10 DEF Grows

(* A file's items that are not held here come as records that stand for    *)
(* one of them each (addLedgerFile, moveLedgerFile).                       *)
LEMMA BringGrows ==
  ASSUME FilesInv, NEW l \in Ledgers,
         NEW booked \in SUBSET Called(Known), NEW voided \in SUBSET Called(Known),
         NEW rows \in SUBSET Called(Known),
         \A x \in booked \cup voided \cup rows : x.id \notin FindImportOrigins(l),
         Bring(l, booked, voided, rows)
  PROVE  /\ Grows(l)
         /\ \A i \in (issued + 1) .. issued' : thing'[i].origin # NoOne
         /\ \A x \in booked \cup voided : x.fact \in InTheBooks(l)'
<1> USE FilesAssumption
<1> DEFINE items == booked \cup voided \cup rows
           n == Cardinality(items)
           spot == Numbered(items)
           is(x) == IF x \in booked THEN "entry" ELSE IF x \in voided THEN "deleted" ELSE "waiting"
           Recent == (issued + 1) .. issued'
<1>1. \A x \in items : /\ x.id = x.fact /\ x = ByFact(x.fact) /\ x.fact \in 1 .. issued
                       /\ thing[x.fact].fact = x.fact
  BY DEF Called, ByFact, Known
<1>2. IsFiniteSet(items)
  <2>1. IsFiniteSet(1 .. issued)
    BY FS_Interval DEF FilesInv, FilesTyped
  <2>2. IsFiniteSet(Known)
    BY <2>1, FS_Subset DEF Known
  <2>3. IsFiniteSet(Called(Known)) /\ items \in SUBSET Called(Known)
    BY <2>2, CalledIsFinite
  <2> HIDE DEF items
  <2> QED  BY <2>3, FS_Subset
<1>3. issued \in Nat /\ n \in Nat
  <2>1. issued \in Nat
    BY DEF FilesInv, FilesTyped
  <2> HIDE DEF items
  <2> QED  BY <1>2, <2>1, NumberedIsOneToOne
<1>4. /\ spot \in [items -> (issued + 1) .. (issued + n)]
      /\ \A x, y \in items : x # y => spot[x] # spot[y]
      /\ \A i \in (issued + 1) .. (issued + n) : \E x \in items : spot[x] = i
  <2> HIDE DEF items
  <2> QED  BY <1>2, <1>3, NumberedIsOneToOne
<1>5. /\ issued + n <= room.ids /\ issued' = issued + n
      /\ thing' = [i \in Ids |->
                    IF \E x \in items : spot[x] = i
                    THEN LET x == CHOOSE y \in items : spot[y] = i IN New(is(x), l, x.id, x.fact)
                    ELSE thing[i]]
  BY DEF Bring
<1> HIDE DEF items, spot, n
<1>6. issued' \in issued .. MaxId /\ issued' \in Nat
  BY <1>3, <1>5 DEF FilesInv, FilesTyped
<1>7. ASSUME NEW x \in items
      PROVE  /\ spot[x] \in Recent /\ spot[x] \in Ids
             /\ thing'[spot[x]] = New(is(x), l, x.fact, x.fact)
             /\ thing'[spot[x]].fact = x.fact
  <2>1. spot[x] \in Recent /\ spot[x] \in Ids
    BY <1>3, <1>4, <1>5, <1>6 DEF Ids
  <2>2. (CHOOSE y \in items : spot[y] = spot[x]) = x
    BY <1>4
  <2> HIDE DEF is
  <2>3. thing'[spot[x]] = New(is(x), l, x.id, x.fact)
    BY <1>5, <2>1, <2>2
  <2> QED  BY <1>1, <2>1, <2>3 DEF New
<1>8. \A i \in Recent : \E x \in items : spot[x] = i
  BY <1>4, <1>5
<1>9. \A i \in Ids : i \notin Recent => thing'[i] = thing[i]
  BY <1>4, <1>5
<1>10. \A x \in items : is(x) \in Held /\ is(x) \in {"entry", "deleted", "waiting"}
  BY DEF Held, Booked
<1>11. ASSUME NEW i \in Recent
       PROVE  Fresh(i, l) /\ thing'[i].origin # NoOne /\ thing'[i] \in Things
  <2>1. PICK x \in items : spot[x] = i
    BY <1>8
  <2>2. thing'[i] = New(is(x), l, x.fact, x.fact) /\ x.fact \notin FindImportOrigins(l)
    BY <1>1, <1>7, <2>1 DEF items
  <2>3. x.fact \in 1 .. issued /\ x.fact \in Ids /\ thing[x.fact].fact = x.fact
    BY <1>1, <1>3, <1>6 DEF Ids
  <2>4. is(x) \in Held /\ is(x) \in {"entry", "deleted", "waiting"}
    BY <1>10
  <2> HIDE DEF is
  <2>5. Fresh(i, l)
    BY <2>2, <2>3, <2>4 DEF Fresh, New
  <2> QED  BY <2>2, <2>3, <2>4, <2>5 DEF New, Things, Ids
<1>12. ASSUME NEW i \in Recent, NEW j \in Recent, thing'[i].fact = thing'[j].fact PROVE i = j
  <2>1. PICK x \in items, y \in items : spot[x] = i /\ spot[y] = j
    BY <1>8
  <2>2. x.fact = y.fact
    BY <1>7, <1>12, <2>1
  <2> QED  BY <1>1, <2>1, <2>2
<1>13. thing' \in [Ids -> Things]
  <2>1. \A i \in Ids : thing'[i] \in Things
    BY <1>9, <1>11 DEF FilesInv, FilesTyped
  <2>2. thing' = [i \in Ids |-> thing'[i]]
    BY <1>5
  <2> QED  BY <2>1, <2>2
<1>14. Grows(l)
  <2>1. \A i \in 1 .. issued : i \in Ids /\ i \notin Recent
    BY <1>3, <1>6 DEF Ids
  <2>2. \A i \in Ids : i > issued' => i \notin Recent /\ i > issued
    BY <1>3, <1>6 DEF Ids
  <2>3. \A i \in Ids : i > issued' => thing'[i] = Nowhere
    BY <1>9, <2>2 DEF FilesInv, GivenOut
  <2> QED  BY <1>6, <1>9, <1>11, <1>12, <1>13, <2>1, <2>3 DEF Grows
<1>15. ASSUME NEW x \in booked \cup voided PROVE x.fact \in InTheBooks(l)'
  <2>1. x \in items /\ is(x) \in Booked
    BY DEF items, Booked
  <2>2. thing'[spot[x]] = New(is(x), l, x.fact, x.fact) /\ spot[x] \in Ids
    BY <1>7, <2>1
  <2> HIDE DEF is
  <2> QED  BY <2>1, <2>2 DEF InTheBooks, In, New
<1> QED  BY <1>11, <1>14, <1>15

-----------------------------------------------------------------------------
(* The initial states, and every step.                                     *)

LEMMA FilesInitInv == FilesInit => FilesInv
<1> SUFFICES ASSUME FilesInit PROVE FilesInv
  OBVIOUS
<1> USE FilesAssumption
<1>1. issued = 0 /\ 1 .. issued = {} /\ \A i \in Ids : thing[i] = Nowhere
  BY DEF FilesInit
<1>2. \A l \in Ledgers : In(l, Held) = {} /\ In(l, Booked) = {}
  BY <1>1 DEF In, Nowhere
<1>3. FilesTyped
  BY DEF FilesInit, FilesTyped, Moves, Things, Nowhere
<1>4. GivenOut /\ NamedByFact /\ CommittedTo
  BY <1>1 DEF GivenOut, NamedByFact, CommittedTo
<1>5. FilesNameFacts /\ MovesAreAlone
  BY DEF FilesInit, FilesNameFacts, MovesAreAlone
<1>6. HeldOnce
  BY <1>2 DEF HeldOnce, Held
<1>7. MovesGoThrough
  BY DEF FilesInit, MovesGoThrough
<1> QED  BY <1>3, <1>4, <1>5, <1>6, <1>7 DEF FilesInv

(* An entry typed or a row staged ends the promise to a move.              *)
LEMMA WriteInv ==
  ASSUME FilesInv, NEW l \in Ledgers, NEW is \in {"entry", "waiting"}, Write(l, is)
  PROVE  FilesInv'
<1>1. Grows(l)
  BY OneMoreGrows DEF Write
<1>2. Records' /\ FilesNameFacts'
  BY <1>1, GrowthKeepsRecords, GrowthKeepsFacts, FilesStandStill DEF Write
<1>3. FilesTyped' /\ MovesAreAlone'
  BY <1>2 DEF Write, Interrupt, Records, FilesInv, FilesTyped, Moves, MovesAreAlone
<1>4. MovesGoThrough'
  <2> SUFFICES ASSUME NEW led \in Ledgers
               PROVE  /\ move'[led].brought \subseteq InTheBooks(led)'
                      /\ move'[led].goesOn => ~MoveBlocked(led)'
    BY DEF MovesGoThrough, InTheBooks
  <2>1. move'[led].brought = move[led].brought
    BY DEF Write, Interrupt, FilesInv, FilesTyped, Moves
  <2>2. move'[led].goesOn => led # l /\ move[led].goesOn
    BY DEF Write, Interrupt, FilesInv, FilesTyped, Moves
  <2> QED  BY <1>1, <2>1, <2>2, GrowthKeepsBooks DEF FilesInv, MovesGoThrough, InTheBooks
<1> QED  BY <1>2, <1>3, <1>4 DEF Records, FilesInv

(* The scheduler proposes nothing where a move goes on: no recurrence is   *)
(* there yet.                                                              *)
LEMMA ProposeRowInv ==
  ASSUME FilesInv, NEW l \in Ledgers, ProposeRow(l)
  PROVE  FilesInv'
<1>1. Grows(l)
  BY OneMoreGrows DEF ProposeRow
<1>2. Records' /\ FilesNameFacts'
  BY <1>1, GrowthKeepsRecords, GrowthKeepsFacts, FilesStandStill DEF ProposeRow
<1>3. FilesTyped' /\ MovesAreAlone'
  BY <1>2 DEF ProposeRow, Records, FilesInv, FilesTyped, Moves, MovesAreAlone
<1>4. MovesGoThrough'
  <2> SUFFICES ASSUME NEW led \in Ledgers
               PROVE  /\ move[led].brought \subseteq InTheBooks(led)'
                      /\ move[led].goesOn => ~MoveBlocked(led)'
    BY DEF MovesGoThrough, InTheBooks, ProposeRow
  <2>1. move[led].goesOn => led # l
    BY DEF ProposeRow, FilesInv, MovesAreAlone
  <2> QED  BY <1>1, <2>1, GrowthKeepsBooks DEF FilesInv, MovesGoThrough, InTheBooks
<1> QED  BY <1>2, <1>3, <1>4 DEF Records, FilesInv

LEMMA CreateRecurrenceInv ==
  ASSUME FilesInv, NEW l \in Ledgers, CreateRecurrence(l)
  PROVE  FilesInv'
<1>1. FilesTyped' /\ MovesAreAlone'
  BY DEF CreateRecurrence, Interrupt, FilesInv, FilesTyped, Moves, MovesAreAlone
<1>2. UNCHANGED <<thing, issued, file>>
  BY DEF CreateRecurrence
<1>3. GivenOut' /\ NamedByFact' /\ CommittedTo' /\ FilesNameFacts' /\ HeldOnce'
  BY <1>2 DEF FilesInv, GivenOut, NamedByFact, CameFrom, CommittedTo, FilesNameFacts, Known,
              HeldOnce, In
<1>4. \A led \in Ledgers : /\ move'[led].brought = move[led].brought
                           /\ move'[led].goesOn => move[led].goesOn
  BY DEF CreateRecurrence, Interrupt, FilesInv, FilesTyped, Moves
<1>5. MovesGoThrough'
  BY <1>2, <1>4 DEF FilesInv, MovesGoThrough, In, MoveBlocked
<1> QED  BY <1>1, <1>3, <1>5 DEF FilesInv

(* A file brought to the queue: only what findImportOrigins does not find. *)
LEMMA AddLedgerFileInv ==
  ASSUME FilesInv, NEW l \in Ledgers, NEW f \in DOMAIN file, AddLedgerFile(l, f)
  PROVE  FilesInv'
<1> DEFINE rows == NotFound(l, file[f].live \cup file[f].staged)
<1>1. rows \in SUBSET Called(Known) /\ \A x \in rows : x.id \notin FindImportOrigins(l)
  <2>1. file[f] \in Exports(Known)
    BY DEF FilesInv, FilesNameFacts
  <2> QED  BY <2>1 DEF NotFound, Exports
<1>2. Bring(l, {}, {}, rows)
  BY DEF AddLedgerFile
<1> HIDE DEF rows
<1>3. Grows(l)
  BY <1>1, <1>2, BringGrows
<1>4. Records' /\ FilesNameFacts'
  BY <1>3, GrowthKeepsRecords, GrowthKeepsFacts, FilesStandStill DEF AddLedgerFile
<1>5. FilesTyped' /\ MovesAreAlone'
  BY <1>4 DEF AddLedgerFile, Interrupt, Records, FilesInv, FilesTyped, Moves, MovesAreAlone
<1>6. MovesGoThrough'
  <2> SUFFICES ASSUME NEW led \in Ledgers
               PROVE  /\ move'[led].brought \subseteq InTheBooks(led)'
                      /\ move'[led].goesOn => ~MoveBlocked(led)'
    BY DEF MovesGoThrough, InTheBooks
  <2>1. move'[led].brought = move[led].brought
    BY DEF AddLedgerFile, Interrupt, FilesInv, FilesTyped, Moves
  <2>2. move'[led].goesOn => led # l /\ move[led].goesOn
    BY DEF AddLedgerFile, Interrupt, FilesInv, FilesTyped, Moves
  <2> QED  BY <1>3, <2>1, <2>2, GrowthKeepsBooks DEF FilesInv, MovesGoThrough, InTheBooks
<1> QED  BY <1>4, <1>5, <1>6 DEF Records, FilesInv

Advanced(m, l, b, g) == [m EXCEPT ![l].brought = b, ![l].goesOn = g]

LEMMA MoveAdvances ==
  ASSUME NEW m \in Moves, NEW l \in Ledgers, NEW b \in SUBSET Ids, NEW g \in BOOLEAN
  PROVE  /\ Advanced(m, l, b, g) \in Moves
         /\ \A k \in Ledgers : k # l => Advanced(m, l, b, g)[k] = m[k]
         /\ Advanced(m, l, b, g)[l].brought = b /\ Advanced(m, l, b, g)[l].goesOn = g
<1> DEFINE n == Advanced(m, l, b, g)
<1>1. m[l] \in [brought : SUBSET Ids, goesOn : BOOLEAN]
  BY DEF Moves
<1>2. n[l] = [brought |-> b, goesOn |-> g]
  BY <1>1 DEF Advanced, Moves
<1>3. \A k \in Ledgers : k # l => n[k] = m[k]
  BY DEF Advanced, Moves
<1>4. \A k \in Ledgers : n[k] \in [brought : SUBSET Ids, goesOn : BOOLEAN]
  BY <1>2, <1>3 DEF Moves
<1>5. n = [k \in Ledgers |-> n[k]]
  BY DEF Advanced, Moves
<1> HIDE DEF n
<1>6. n \in Moves
  BY <1>4, <1>5 DEF Moves
<1>7. n[l].brought = b /\ n[l].goesOn = g
  BY <1>2
<1> QED  BY <1>3, <1>6, <1>7 DEF n

(* A part of a move: what it names is in the books afterwards, brought now *)
(* or found there, and everything here has come from a file.               *)
LEMMA MoveLedgerFileInv ==
  ASSUME FilesInv, NEW l \in Ledgers, NEW f \in DOMAIN file,
         NEW chunk \in SUBSET (file[f].live \cup file[f].deleted),
         NEW carried \in SUBSET file[f].staged, NEW last \in BOOLEAN,
         MoveLedgerFile(l, f, chunk, carried, last)
  PROVE  FilesInv'
<1> USE FilesAssumption
<1> DEFINE booked == NotFound(l, chunk \cap file[f].live)
           voided == NotFound(l, chunk \cap file[f].deleted)
           rows == NotFound(l, carried)
<1>1. file[f] \in Exports(Known)
  BY DEF FilesInv, FilesNameFacts
<1>2. /\ booked \in SUBSET Called(Known) /\ voided \in SUBSET Called(Known)
      /\ rows \in SUBSET Called(Known)
      /\ \A x \in booked \cup voided \cup rows : x.id \notin FindImportOrigins(l)
  BY <1>1 DEF NotFound, Exports
<1>3. \A x \in chunk : x \in Called(Known)
                      /\ (x \in booked \cup voided \/ x.id \in FindImportOrigins(l))
  BY <1>1 DEF NotFound, Exports
<1>4. /\ Bring(l, booked, voided, rows) /\ ~MoveBlocked(l)
      /\ \A x \in chunk : x.id \notin FindWaitingOrigins(l)
  BY DEF MoveLedgerFile, MoveQualifies
<1> HIDE DEF booked, voided, rows
<1>5. /\ Grows(l)
      /\ \A i \in (issued + 1) .. issued' : thing'[i].origin # NoOne
      /\ \A x \in booked \cup voided : x.fact \in InTheBooks(l)'
  BY <1>2, <1>4, BringGrows
<1>6. Records' /\ FilesNameFacts'
  BY <1>5, GrowthKeepsRecords, GrowthKeepsFacts, FilesStandStill DEF MoveLedgerFile
<1>7. \A x \in chunk : x.fact \in InTheBooks(l)' /\ x.fact \in Ids
  <2> SUFFICES ASSUME NEW x \in chunk PROVE x.fact \in InTheBooks(l)' /\ x.fact \in Ids
    OBVIOUS
  <2>1. x.id = x.fact /\ x.fact \in 1 .. issued /\ thing[x.fact].fact = x.fact
    BY <1>3 DEF Called, ByFact, Known
  <2>2. CASE x \in booked \cup voided
    BY <1>5, <2>1, <2>2 DEF FilesInv, FilesTyped, Ids
  <2>3. CASE x.id \in FindImportOrigins(l)
    <3>1. x.fact \in InTheBooks(l)
      BY <1>4, <2>1, <2>3, WhatIsFoundIsInTheBooks DEF InTheBooks
    <3> QED  BY <1>5, <2>1, <3>1, GrowthKeepsBooks DEF FilesInv, FilesTyped, Ids
  <2> QED  BY <1>3, <2>2, <2>3
<1>8. ~MoveBlocked(l)'
  <2> SUFFICES ASSUME NEW i \in In(l, Held)', thing'[i].origin = NoOne PROVE FALSE
    BY DEF MoveBlocked, Held
  <2>1. i \in Ids /\ thing'[i].of = l /\ thing'[i].is \in Held
    BY DEF In
  <2>2. thing'[i] # Nowhere
    BY <2>1 DEF Nowhere, Held, Booked
  <2>3. i \in 1 .. issued
    BY <1>5, <2>1, <2>2 DEF Grows, FilesInv, FilesTyped, Ids
  <2>4. thing'[i] = thing[i]
    BY <1>5, <2>3 DEF Grows
  <2> QED  BY <1>4, <2>1, <2>4 DEF MoveBlocked, In, Held
<1>9. /\ move' \in Moves
      /\ \A led \in Ledgers : led # l => move'[led] = move[led]
      /\ move'[l].brought = move[l].brought \cup {x.fact : x \in chunk}
      /\ move'[l].goesOn = (~last /\ l \notin recurring)
  <2> DEFINE b == move[l].brought \cup {x.fact : x \in chunk}
             g == ~last /\ l \notin recurring
  <2>1. b \in SUBSET Ids /\ g \in BOOLEAN /\ move \in Moves
    BY <1>7 DEF FilesInv, FilesTyped, Moves
  <2>2. move' = Advanced(move, l, b, g)
    BY DEF MoveLedgerFile, Advanced
  <2> HIDE DEF b, g
  <2>3. /\ move' \in Moves
        /\ \A led \in Ledgers : led # l => move'[led] = move[led]
        /\ move'[l].brought = b /\ move'[l].goesOn = g
    <3>1. /\ Advanced(move, l, b, g) \in Moves
          /\ \A led \in Ledgers : led # l => Advanced(move, l, b, g)[led] = move[led]
          /\ Advanced(move, l, b, g)[l].brought = b /\ Advanced(move, l, b, g)[l].goesOn = g
      BY <2>1, MoveAdvances
    <3> QED  BY <2>2, <3>1
  <2> QED  BY <2>3 DEF b, g
<1>10. recurring' \subseteq Ledgers /\ recurring' \subseteq recurring \cup {l}
       /\ (~last => recurring' = recurring)
  BY DEF MoveLedgerFile, FilesInv, FilesTyped
<1>11. FilesTyped'
  BY <1>6, <1>9, <1>10 DEF Records, FilesInv, FilesTyped, MoveLedgerFile
<1>12. MovesAreAlone'
  BY <1>9, <1>10 DEF FilesInv, MovesAreAlone
<1>13. MovesGoThrough'
  <2> SUFFICES ASSUME NEW led \in Ledgers
               PROVE  /\ move'[led].brought \subseteq InTheBooks(led)'
                      /\ move'[led].goesOn => ~MoveBlocked(led)'
    BY DEF MovesGoThrough, InTheBooks
  <2>1. move[led].brought \subseteq InTheBooks(led) /\ (move[led].goesOn => ~MoveBlocked(led))
    BY DEF FilesInv, MovesGoThrough, InTheBooks
  <2>2. InTheBooks(led) \subseteq InTheBooks(led)'
        /\ (led # l => (MoveBlocked(led)' => MoveBlocked(led)))
    BY <1>5, GrowthKeepsBooks
  <2>3. CASE led = l
    BY <1>7, <1>8, <1>9, <2>1, <2>2, <2>3
  <2>4. CASE led # l
    BY <1>9, <2>1, <2>2, <2>4
  <2> QED  BY <2>3, <2>4
<1> QED  BY <1>6, <1>11, <1>12, <1>13 DEF Records, FilesInv

(* A committed row leaves the queue as its entry enters the books under    *)
(* the same fact.                                                          *)
LEMMA CommitRowInv ==
  ASSUME FilesInv, NEW i \in Ids, CommitRow(i)
  PROVE  FilesInv'
<1> USE FilesAssumption
<1> DEFINE e == issued + 1
           l == thing[i].of
           record == [thing[i] EXCEPT !.is = "committed", !.became = e]
           entry == New("entry", l, thing[i].origin, thing[i].fact)
<1>1. /\ i \in 1 .. issued /\ e \in Ids /\ e \notin 1 .. issued /\ issued \in Nat
      /\ issued' = e /\ 1 .. issued' = 1 .. issued \cup {e} /\ issued' <= MaxId
      /\ 1 .. issued \subseteq Ids
  <2>1. i \in 1 .. issued
    BY OnlyGivenOut DEF CommitRow
  <2> QED  BY <2>1 DEF CommitRow, FilesInv, FilesTyped, Ids
<1>2. thing[i] \in Things /\ thing[i].is = "waiting" /\ l \in Ledgers
      /\ thing[i].fact \in 1 .. issued
  BY <1>1 DEF CommitRow, FilesInv, FilesTyped, GivenOut
<1>3. thing' = [thing EXCEPT ![i].is = "committed", ![i].became = e, ![e] = entry]
  BY DEF CommitRow
<1>4. i # e
  BY <1>1
<1>5. thing'[e] = entry
  BY <1>1, <1>3, <1>4 DEF FilesInv, FilesTyped
<1>6. thing'[i] = record
  BY <1>1, <1>3, <1>4 DEF FilesInv, FilesTyped
<1>7. \A j \in Ids : j # i /\ j # e => thing'[j] = thing[j]
  BY <1>1, <1>3 DEF FilesInv, FilesTyped
<1>8. /\ record.is = "committed" /\ record.became = e /\ record.of = l
      /\ record.origin = thing[i].origin /\ record.fact = thing[i].fact /\ record \in Things
  BY <1>1, <1>2 DEF Things, Ids
<1>9. /\ entry.is = "entry" /\ entry.of = l /\ entry.origin = thing[i].origin
      /\ entry.fact = thing[i].fact /\ entry \in Things
  BY <1>1, <1>2 DEF Things, New
<1>10. thing' \in [Ids -> Things]
  <2>1. thing' = [j \in Ids |-> thing'[j]]
    BY <1>3 DEF FilesInv, FilesTyped
  <2>2. \A j \in Ids : thing'[j] \in Things
    BY <1>5, <1>6, <1>7, <1>8, <1>9 DEF FilesInv, FilesTyped
  <2> QED  BY <2>1, <2>2
<1> HIDE DEF e, record, entry, l
<1>11. \A j \in 1 .. issued : thing'[j].fact = thing[j].fact /\ thing'[j].of = thing[j].of
                              /\ thing'[j].origin = thing[j].origin
  BY <1>1, <1>6, <1>7, <1>8 DEF l
<1>12. GivenOut'
  <2>1. ASSUME NEW j \in 1 .. issued
        PROVE  /\ thing'[j].of \in Ledgers /\ thing'[j].fact \in 1 .. issued
               /\ thing'[thing'[j].fact].fact = thing'[j].fact
    BY <1>11 DEF FilesInv, GivenOut
  <2>2. /\ thing'[e].of \in Ledgers /\ thing'[e].fact \in 1 .. issued
        /\ thing'[thing'[e].fact].fact = thing'[e].fact
    BY <1>1, <1>2, <1>5, <1>9, <1>11 DEF FilesInv, GivenOut
  <2>3. \A j \in Ids : j > issued' => j # i /\ j # e /\ j > issued
    BY <1>1 DEF Ids, e
  <2>4. \A j \in Ids : j > issued' => thing'[j] = Nowhere
    BY <1>7, <2>3 DEF FilesInv, GivenOut
  <2> QED  BY <1>1, <2>1, <2>2, <2>4 DEF GivenOut
<1>13. NamedByFact'
  <2>1. ASSUME NEW j \in 1 .. issued
        PROVE  /\ thing'[j].origin # NoOne => thing'[j].origin = thing'[j].fact
               /\ thing'[j].origin = NoOne =>
                    \/ thing'[j].fact = j
                    \/ thing'[j].is \in Booked /\ CameFrom(thing', j, thing'[j].fact)
    <3>1. CASE thing[j].origin = NoOne /\ thing[j].fact # j
      <4> DEFINE r == thing[j].fact
      <4>1. thing[j].is \in Booked /\ CameFrom(thing, j, r) /\ r \in 1 .. issued
        BY <3>1 DEF FilesInv, NamedByFact, GivenOut
      <4>2. j # i /\ r # i /\ r # e /\ j # e
        BY <1>1, <1>2, <4>1 DEF CameFrom, Booked
      <4>3. thing'[j] = thing[j] /\ thing'[r] = thing[r]
        BY <1>1, <1>7, <4>1, <4>2
      <4> QED  BY <1>1, <3>1, <4>1, <4>3 DEF CameFrom
    <3>2. CASE ~(thing[j].origin = NoOne /\ thing[j].fact # j)
      BY <1>11, <3>2 DEF FilesInv, NamedByFact
    <3> QED  BY <3>1, <3>2
  <2>2. /\ thing'[e].origin # NoOne => thing'[e].origin = thing'[e].fact
        /\ thing'[e].origin = NoOne => thing'[e].is \in Booked /\ CameFrom(thing', e, thing'[e].fact)
    <3>1. CASE thing[i].origin # NoOne
      BY <1>1, <1>5, <1>9, <3>1 DEF FilesInv, NamedByFact
    <3>2. CASE thing[i].origin = NoOne
      <4>1. thing[i].fact = i
        BY <1>1, <1>2, <3>2 DEF FilesInv, NamedByFact, Booked
      <4> QED  BY <1>5, <1>6, <1>8, <1>9, <3>2, <4>1 DEF CameFrom, Booked
    <3> QED  BY <3>1, <3>2
  <2>3. ASSUME NEW j \in 1 .. issued'
        PROVE  /\ thing'[j].origin # NoOne => thing'[j].origin = thing'[j].fact
               /\ thing'[j].origin = NoOne =>
                    \/ thing'[j].fact = j
                    \/ thing'[j].is \in Booked /\ CameFrom(thing', j, thing'[j].fact)
    <3>1. CASE j \in 1 .. issued
      BY <2>1, <3>1
    <3>2. CASE j = e
      BY <2>2, <3>2
    <3> QED  BY <1>1, <3>1, <3>2
  <2> QED  BY <2>3 DEF NamedByFact
<1>14. CommittedTo'
  <2>1. ASSUME NEW r \in 1 .. issued, r # i, thing'[r].is = "committed"
        PROVE  /\ thing'[r].became \in 1 .. issued'
               /\ thing'[thing'[r].became].is \in Booked
               /\ thing'[thing'[r].became].of = thing'[r].of
               /\ thing'[thing'[r].became].origin = thing'[r].origin
               /\ thing'[thing'[r].became].fact = thing'[r].fact
    <3>1. thing'[r] = thing[r]
      BY <1>1, <1>7, <2>1
    <3> DEFINE b == thing[r].became
    <3>2. /\ b \in 1 .. issued /\ thing[b].is \in Booked /\ thing[b].of = thing[r].of
          /\ thing[b].origin = thing[r].origin /\ thing[b].fact = thing[r].fact
      BY <2>1, <3>1 DEF FilesInv, CommittedTo
    <3>3. b # i /\ b # e
      BY <1>1, <1>2, <3>2 DEF Booked
    <3>4. thing'[b] = thing[b]
      BY <1>1, <1>7, <3>2, <3>3
    <3> QED  BY <1>1, <3>1, <3>2, <3>4
  <2>2. /\ thing'[i].became = e /\ thing'[e].is \in Booked
        /\ thing'[e].of = thing'[i].of /\ thing'[e].origin = thing'[i].origin
        /\ thing'[e].fact = thing'[i].fact
    BY <1>5, <1>6, <1>8, <1>9 DEF Booked
  <2>3. thing'[e].is # "committed"
    BY <1>5, <1>9
  <2> QED  BY <1>1, <2>1, <2>2, <2>3 DEF CommittedTo
<1>15. ASSUME NEW led \in Ledgers, NEW j \in In(led, Held)'
       PROVE  \/ j = e /\ led = l
              \/ j # e /\ j # i /\ j \in In(led, Held) /\ thing'[j] = thing[j]
  <2>1. j # i
    BY <1>6, <1>8, <1>15 DEF In, Held, Booked
  <2>2. CASE j = e
    BY <1>5, <1>9, <1>15, <2>2 DEF In
  <2>3. CASE j # e
    <3>1. thing'[j] = thing[j] /\ j \in Ids
      BY <1>7, <1>15, <2>1, <2>3 DEF In
    <3> QED  BY <1>15, <2>1, <2>3, <3>1 DEF In
  <2> QED  BY <2>2, <2>3
<1>16. HeldOnce'
  <2> SUFFICES ASSUME NEW led \in Ledgers, NEW j \in In(led, Held)', NEW k \in In(led, Held)',
                      thing'[j].fact = thing'[k].fact
               PROVE  j = k
    BY DEF HeldOnce, Held
  <2>1. i \in In(l, Held)
    BY <1>2 DEF In, Held, l
  <2>2. \A m \in In(l, Held) : thing[m].fact = thing[i].fact => m = i
    BY <1>2, <2>1 DEF FilesInv, HeldOnce, Held
  <2>3. \A m, o \in In(led, Held) : thing[m].fact = thing[o].fact => m = o
    BY DEF FilesInv, HeldOnce, Held
  <2>4. thing'[e].fact = thing[i].fact
    BY <1>5, <1>9
  <2> QED  BY <1>15, <2>2, <2>3, <2>4
<1>17. FilesNameFacts'
  <2>1. Known \subseteq Known'
    BY <1>1, <1>11 DEF Known
  <2> QED  BY <2>1, FilesStandStill DEF CommitRow
<1>18. FilesTyped' /\ MovesAreAlone'
  BY <1>1, <1>10 DEF CommitRow, FilesInv, FilesTyped, Moves, MovesAreAlone
<1>19. MovesGoThrough'
  <2> SUFFICES ASSUME NEW led \in Ledgers
               PROVE  /\ move[led].brought \subseteq InTheBooks(led)'
                      /\ move[led].goesOn => ~MoveBlocked(led)'
    BY DEF MovesGoThrough, InTheBooks, CommitRow
  <2>1. ASSUME NEW j \in In(led, Booked) PROVE j \in In(led, Booked)' /\ thing'[j] = thing[j]
    <3>1. j \in 1 .. issued /\ j \in Ids /\ j # i
      BY <1>2, <2>1, OnlyGivenOut DEF In, Booked
    <3>2. thing'[j] = thing[j]
      BY <1>1, <1>7, <3>1
    <3> QED  BY <2>1, <3>2 DEF In
  <2>2. InTheBooks(led) \subseteq InTheBooks(led)'
    BY <2>1 DEF InTheBooks
  <2>3. MoveBlocked(led)' => MoveBlocked(led)
    <3>1. ASSUME NEW j \in In(led, Held)', thing'[j].origin = NoOne
          PROVE  \E k \in In(led, Held) : thing[k].origin = NoOne
      <4>1. i \in In(l, Held)
        BY <1>2 DEF In, Held, l
      <4> QED  BY <1>5, <1>9, <1>15, <3>1, <4>1
    <3> QED  BY <3>1 DEF MoveBlocked, Held
  <2> QED  BY <2>2, <2>3 DEF FilesInv, MovesGoThrough, InTheBooks
<1> QED  BY <1>12, <1>13, <1>14, <1>16, <1>17, <1>18, <1>19 DEF FilesInv

(* A row that is discarded holds its fact no more; it was nobody's entry.  *)
LEMMA DiscardRowInv ==
  ASSUME FilesInv, NEW i \in Ids, DiscardRow(i)
  PROVE  FilesInv'
<1> USE FilesAssumption
<1>1. /\ thing' = [thing EXCEPT ![i].is = "discarded"] /\ thing[i].is = "waiting"
      /\ UNCHANGED <<issued, file, recurring, move, room>> /\ thing \in [Ids -> Things]
      /\ i \in 1 .. issued /\ issued \in Nat
  BY OnlyGivenOut DEF DiscardRow, FilesInv, FilesTyped
<1>2. /\ thing' \in [Ids -> Things] /\ thing'[i].is = "discarded"
      /\ \A j \in Ids : /\ j # i => thing'[j] = thing[j]
                        /\ thing'[j].fact = thing[j].fact /\ thing'[j].of = thing[j].of
                        /\ thing'[j].origin = thing[j].origin
                        /\ thing'[j].became = thing[j].became
  BY <1>1 DEF Things
<1>3. 1 .. issued \subseteq Ids
  BY DEF FilesInv, FilesTyped, Ids
<1>4. GivenOut'
  <2>1. \A j \in 1 .. issued : thing[j].fact \in Ids
    BY <1>3 DEF FilesInv, GivenOut
  <2>2. \A j \in 1 .. issued : /\ thing'[j].of \in Ledgers /\ thing'[j].fact \in 1 .. issued
                               /\ thing'[thing'[j].fact].fact = thing'[j].fact
    BY <1>2, <1>3, <2>1 DEF FilesInv, GivenOut
  <2>3. \A j \in Ids : j > issued => j # i
    BY <1>1 DEF Ids
  <2>4. \A j \in Ids : j > issued => thing'[j] = Nowhere
    BY <1>2, <2>3 DEF FilesInv, GivenOut
  <2> QED  BY <1>1, <2>2, <2>4 DEF GivenOut
<1>5. NamedByFact'
  <2>1. ASSUME NEW j \in 1 .. issued, thing[j].is \in Booked, CameFrom(thing, j, thing[j].fact)
        PROVE  thing'[j].is \in Booked /\ CameFrom(thing', j, thing'[j].fact)
    <3>1. j # i /\ thing[j].fact # i /\ thing[j].fact \in Ids /\ j \in Ids
      BY <1>1, <1>3, <2>1 DEF CameFrom, Booked, FilesInv, GivenOut
    <3> QED  BY <1>2, <2>1, <3>1, ZenonT(40) DEF CameFrom
  <2>2. \A j \in 1 .. issued : thing'[j].origin = thing[j].origin /\ thing'[j].fact = thing[j].fact
    BY <1>2, <1>3
  <2> SUFFICES ASSUME NEW j \in 1 .. issued
               PROVE  /\ thing'[j].origin # NoOne => thing'[j].origin = thing'[j].fact
                      /\ thing'[j].origin = NoOne =>
                           \/ thing'[j].fact = j
                           \/ thing'[j].is \in Booked /\ CameFrom(thing', j, thing'[j].fact)
    BY <1>1 DEF NamedByFact
  <2>3. /\ thing[j].origin # NoOne => thing[j].origin = thing[j].fact
        /\ thing[j].origin = NoOne =>
             \/ thing[j].fact = j
             \/ thing[j].is \in Booked /\ CameFrom(thing, j, thing[j].fact)
    BY DEF FilesInv, NamedByFact
  <2> QED  BY <2>1, <2>2, <2>3
<1>6. CommittedTo'
  <2> SUFFICES ASSUME NEW r \in 1 .. issued, thing'[r].is = "committed"
               PROVE  /\ thing'[r].became \in 1 .. issued
                      /\ thing'[thing'[r].became].is \in Booked
                      /\ thing'[thing'[r].became].of = thing'[r].of
                      /\ thing'[thing'[r].became].origin = thing'[r].origin
                      /\ thing'[thing'[r].became].fact = thing'[r].fact
    BY <1>1 DEF CommittedTo
  <2>1. r \in Ids /\ thing'[r] = thing[r]
    BY <1>2, <1>3
  <2>2. /\ thing[r].became \in 1 .. issued /\ thing[thing[r].became].is \in Booked
        /\ thing[thing[r].became].of = thing[r].of
        /\ thing[thing[r].became].origin = thing[r].origin
        /\ thing[thing[r].became].fact = thing[r].fact
    BY <2>1 DEF FilesInv, CommittedTo
  <2>3. thing[r].became # i
    BY <1>1, <2>2 DEF Booked
  <2> QED  BY <1>2, <1>3, <2>1, <2>2, <2>3
<1>7. \A l \in Ledgers : /\ In(l, Held)' \subseteq In(l, Held)
                         /\ In(l, Booked) \subseteq In(l, Booked)'
  BY <1>1, <1>2 DEF In, Held, Booked
<1>8. HeldOnce'
  BY <1>2, <1>7 DEF FilesInv, HeldOnce, Held, In
<1>9. FilesNameFacts'
  <2>1. Known \subseteq Known'
    BY <1>1, <1>2, <1>3 DEF Known
  <2> QED  BY <1>1, <2>1, FilesStandStill
<1>10. MovesGoThrough'
  <2>1. \A l \in Ledgers : MoveBlocked(l)' => MoveBlocked(l)
    BY <1>2, <1>7 DEF MoveBlocked, Held, In
  <2>2. \A l \in Ledgers : InTheBooks(l) \subseteq InTheBooks(l)'
    BY <1>2, <1>7 DEF InTheBooks, In
  <2> QED  BY <1>1, <2>1, <2>2 DEF FilesInv, MovesGoThrough, InTheBooks
<1>11. FilesTyped' /\ MovesAreAlone'
  BY <1>1, <1>2 DEF FilesInv, FilesTyped, Moves, MovesAreAlone
<1> QED  BY <1>4, <1>5, <1>6, <1>8, <1>9, <1>10, <1>11 DEF FilesInv

(* An entry that is deleted or restored is called what it was called.      *)
LEMMA SetDeletedInv ==
  ASSUME FilesInv, NEW i \in Ids, SetDeleted(i)
  PROVE  FilesInv'
<1> USE FilesAssumption
<1> DEFINE flipped == IF thing[i].is = "entry" THEN "deleted" ELSE "entry"
<1>1. /\ thing[i].is \in Booked /\ flipped \in Booked
      /\ thing' = [thing EXCEPT ![i].is = flipped]
      /\ UNCHANGED <<issued, file, recurring, move, room>>
      /\ thing \in [Ids -> Things] /\ i \in 1 .. issued /\ issued \in Nat
  <2>1. thing[i].is \in Booked
    BY DEF SetDeleted
  <2>2. i \in 1 .. issued
    BY <2>1, OnlyGivenOut DEF Booked
  <2> QED  BY <2>1, <2>2 DEF SetDeleted, Booked, FilesInv, FilesTyped
<1> HIDE DEF flipped
<1>2. /\ thing' \in [Ids -> Things]
      /\ \A j \in Ids : /\ j # i => thing'[j] = thing[j]
                        /\ thing'[j].fact = thing[j].fact /\ thing'[j].of = thing[j].of
                        /\ thing'[j].origin = thing[j].origin
                        /\ thing'[j].became = thing[j].became
      /\ thing'[i].is \in Booked
  BY <1>1 DEF Things, Booked
<1>3. 1 .. issued \subseteq Ids
  BY DEF FilesInv, FilesTyped, Ids
<1>4. \A j \in Ids : /\ thing'[j].is \in Booked <=> thing[j].is \in Booked
                     /\ thing'[j].is = "committed" <=> thing[j].is = "committed"
                     /\ thing'[j].is \in Held <=> thing[j].is \in Held
  BY <1>1, <1>2 DEF Booked, Held
<1>5. GivenOut'
  <2>1. \A j \in 1 .. issued : thing[j].fact \in Ids
    BY <1>3 DEF FilesInv, GivenOut
  <2>2. \A j \in 1 .. issued : /\ thing'[j].of \in Ledgers /\ thing'[j].fact \in 1 .. issued
                               /\ thing'[thing'[j].fact].fact = thing'[j].fact
    BY <1>2, <1>3, <2>1 DEF FilesInv, GivenOut
  <2>3. \A j \in Ids : j > issued => j # i
    BY <1>1 DEF Ids
  <2>4. \A j \in Ids : j > issued => thing'[j] = Nowhere
    BY <1>2, <2>3 DEF FilesInv, GivenOut
  <2> QED  BY <1>1, <2>2, <2>4 DEF GivenOut
<1>6. NamedByFact'
  <2>1. ASSUME NEW j \in 1 .. issued, thing[j].is \in Booked, CameFrom(thing, j, thing[j].fact)
        PROVE  thing'[j].is \in Booked /\ CameFrom(thing', j, thing'[j].fact)
    <3>1. thing[j].fact \in Ids /\ j \in Ids
      BY <1>3 DEF FilesInv, GivenOut
    <3> QED  BY <1>2, <1>4, <2>1, <3>1, ZenonT(40) DEF CameFrom
  <2>2. \A j \in 1 .. issued : thing'[j].origin = thing[j].origin /\ thing'[j].fact = thing[j].fact
    BY <1>2, <1>3
  <2> QED  BY <1>1, <2>1, <2>2 DEF FilesInv, NamedByFact
<1>7. CommittedTo'
  <2> SUFFICES ASSUME NEW r \in 1 .. issued, thing'[r].is = "committed"
               PROVE  /\ thing'[r].became \in 1 .. issued
                      /\ thing'[thing'[r].became].is \in Booked
                      /\ thing'[thing'[r].became].of = thing'[r].of
                      /\ thing'[thing'[r].became].origin = thing'[r].origin
                      /\ thing'[thing'[r].became].fact = thing'[r].fact
    BY <1>1 DEF CommittedTo
  <2>1. r \in Ids /\ thing[r].is = "committed" /\ thing'[r].became = thing[r].became
    BY <1>2, <1>3, <1>4
  <2>2. /\ thing[r].became \in 1 .. issued /\ thing[thing[r].became].is \in Booked
        /\ thing[thing[r].became].of = thing[r].of
        /\ thing[thing[r].became].origin = thing[r].origin
        /\ thing[thing[r].became].fact = thing[r].fact
    BY <2>1 DEF FilesInv, CommittedTo
  <2> QED  BY <1>2, <1>3, <1>4, <2>1, <2>2
<1>8. \A l \in Ledgers : In(l, Held)' = In(l, Held) /\ In(l, Booked)' = In(l, Booked)
  BY <1>2, <1>4 DEF In
<1>9. HeldOnce'
  BY <1>2, <1>8 DEF FilesInv, HeldOnce, Held, In
<1>10. FilesNameFacts'
  <2>1. Known \subseteq Known'
    BY <1>1, <1>2, <1>3 DEF Known
  <2> QED  BY <1>1, <2>1, FilesStandStill
<1>11. MovesGoThrough'
  <2>1. \A l \in Ledgers : MoveBlocked(l)' => MoveBlocked(l)
    BY <1>2, <1>8 DEF MoveBlocked, Held, In
  <2>2. \A l \in Ledgers : InTheBooks(l) \subseteq InTheBooks(l)'
    BY <1>2, <1>8 DEF InTheBooks, In
  <2> QED  BY <1>1, <2>1, <2>2 DEF FilesInv, MovesGoThrough, InTheBooks
<1>12. FilesTyped' /\ MovesAreAlone'
  BY <1>1, <1>2 DEF FilesInv, FilesTyped, Moves, MovesAreAlone
<1> QED  BY <1>5, <1>6, <1>7, <1>9, <1>10, <1>11, <1>12 DEF FilesInv

(* A file calls everything by its fact.                                    *)
LEMMA ExportInv ==
  ASSUME FilesInv, NEW l \in Ledgers, Export(l)
  PROVE  FilesInv'
<1> DEFINE Exported(kinds) == {[id |-> Origin(i), fact |-> thing[i].fact] : i \in In(l, kinds)}
           snapshot == [live |-> Exported({"entry"}), deleted |-> Exported({"deleted"}),
                        staged |-> Exported({"waiting"}), recurs |-> l \in recurring]
<1>1. UNCHANGED <<thing, issued, recurring, move, room>> /\ file' = Append(file, snapshot)
  BY DEF Export
<1>2. ASSUME NEW kinds \in SUBSET Held PROVE Exported(kinds) \in SUBSET Called(Known)
  <2> SUFFICES ASSUME NEW i \in In(l, kinds)
               PROVE  [id |-> Origin(i), fact |-> thing[i].fact] \in Called(Known)
    OBVIOUS
  <2>1. thing[i].is \in Held /\ i \in Ids
    BY DEF In
  <2>2. i \in 1 .. issued
    BY <2>1, OnlyGivenOut DEF Held, Booked
  <2>3. Origin(i) = thing[i].fact /\ thing[i].fact \in Known
    BY <2>1, <2>2, OriginIsFact DEF FilesInv, GivenOut, Known
  <2> QED  BY <2>3 DEF Called, ByFact
<1>3. snapshot \in Exports(Known)
  <2>1. {"entry"} \in SUBSET Held /\ {"deleted"} \in SUBSET Held /\ {"waiting"} \in SUBSET Held
    BY DEF Held, Booked
  <2>2. /\ Exported({"entry"}) \in SUBSET Called(Known)
        /\ Exported({"deleted"}) \in SUBSET Called(Known)
        /\ Exported({"waiting"}) \in SUBSET Called(Known)
    BY <1>2, <2>1
  <2> HIDE DEF Exported
  <2> QED  BY <2>2 DEF Exports
<1> HIDE DEF snapshot
<1>4. FilesNameFacts'
  <2>1. Known' = Known
    BY <1>1 DEF Known
  <2>2. Exports(Known)' = Exports(Known)
    BY <2>1 DEF Exports, Called
  <2> HIDE DEF Exports
  <2> QED  BY <1>1, <1>3, <2>2 DEF FilesInv, FilesNameFacts
<1>5. FilesTyped' /\ MovesAreAlone' /\ GivenOut' /\ NamedByFact' /\ CommittedTo'
  BY <1>1 DEF FilesInv, FilesTyped, Moves, MovesAreAlone, GivenOut, NamedByFact, CameFrom, CommittedTo
<1>6. HeldOnce' /\ MovesGoThrough'
  BY <1>1 DEF FilesInv, HeldOnce, MovesGoThrough, MoveBlocked, In
<1> QED  BY <1>4, <1>5, <1>6 DEF FilesInv

LEMMA FilesNextInv == FilesInv /\ [FilesNext]_fileVars => FilesInv'
<1> SUFFICES ASSUME FilesInv, [FilesNext]_fileVars PROVE FilesInv'
  OBVIOUS
<1>1. ASSUME NEW l \in Ledgers, NEW is \in {"entry", "waiting"}, Write(l, is) PROVE FilesInv'
  BY <1>1, WriteInv
<1>2. ASSUME NEW l \in Ledgers, CreateRecurrence(l) PROVE FilesInv'
  BY <1>2, CreateRecurrenceInv
<1>3. ASSUME NEW l \in Ledgers, ProposeRow(l) PROVE FilesInv'
  BY <1>3, ProposeRowInv
<1>4. ASSUME NEW l \in Ledgers, Export(l) PROVE FilesInv'
  BY <1>4, ExportInv
<1>5. ASSUME NEW l \in Ledgers, NEW f \in DOMAIN file, AddLedgerFile(l, f) PROVE FilesInv'
  BY <1>5, AddLedgerFileInv
<1>6. ASSUME NEW l \in Ledgers, NEW f \in DOMAIN file,
             NEW chunk \in SUBSET (file[f].live \cup file[f].deleted),
             NEW carried \in SUBSET file[f].staged, NEW last \in BOOLEAN,
             MoveLedgerFile(l, f, chunk, carried, last)
      PROVE  FilesInv'
  BY <1>6, MoveLedgerFileInv
<1>7. ASSUME NEW i \in Ids, CommitRow(i) \/ DiscardRow(i) \/ SetDeleted(i) PROVE FilesInv'
  BY <1>7, CommitRowInv, DiscardRowInv, SetDeletedInv
<1>8. CASE UNCHANGED fileVars
  BY <1>8 DEF fileVars, FilesInv, FilesTyped, Moves, MovesAreAlone, GivenOut, NamedByFact, CameFrom,
              CommittedTo, FilesNameFacts, Known, HeldOnce, MovesGoThrough, MoveBlocked, In
<1> QED  BY <1>1, <1>2, <1>3, <1>4, <1>5, <1>6, <1>7, <1>8 DEF FilesNext

LEMMA FilesInvHolds == FilesSpec => []FilesInv
BY FilesInitInv, FilesNextInv, PTL DEF FilesSpec

-----------------------------------------------------------------------------
(* Every variable has its type; an id is given out once and in order.      *)
THEOREM FilesTypeCorrect == FilesSpec => []FilesTypeOK
<1>1. ASSUME FilesInv PROVE FilesTypeOK
  <2>1. \A i \in 1 .. issued : thing[i] # Nowhere
    BY <1>1, FilesAssumption DEF FilesInv, GivenOut, Nowhere
  <2>2. \A i \in Ids : thing[i] = Nowhere <=> i > issued
    BY <1>1, <2>1, FilesAssumption DEF FilesInv, FilesTyped, GivenOut, Ids
  <2> QED  BY <1>1, <2>2 DEF FilesTypeOK, FilesInv, FilesTyped, Things
<1> QED  BY <1>1, FilesInvHolds, PTL

(* However often an entry goes round in files, a ledger holds it once      *)
(* (findImportOrigins, readCommittedFrom, ledger-file.ts).                 *)
THEOREM EachEntryIsHeldOnce == FilesSpec => []HeldOnce
<1>1. FilesInv => HeldOnce
  BY DEF FilesInv
<1> QED  BY <1>1, FilesInvHolds, PTL

(* What a move brought is in the books, and a move nobody interrupts is    *)
(* not shut out by what it brought (moveLedgerFile, findWaitingOrigins).   *)
THEOREM EveryMoveGoesThrough == FilesSpec => []MovesGoThrough
<1>1. FilesInv => MovesGoThrough
  BY DEF FilesInv
<1> QED  BY <1>1, FilesInvHolds, PTL


-------------------------------------------------------------------------------
(***************************************************************************)
(* What Categories keeps, for every number of categories, groups, budgets  *)
(* and overrides, and every draft: a category that goes leaves no name and *)
(* takes no budget that nobody meant, and what is budgeted for a period is *)
(* said in one way.                                                        *)
(***************************************************************************)
Saves == [thing : Holders, draft : CategoryDrafts, named : SUBSET Categories,
          prunes : BOOLEAN, locks : BOOLEAN]

CategoriesTyped ==
  /\ CategoriesTypeOK
  /\ save \in {NoSave} \cup Saves
  /\ casting \in CategoryCasts

(* What is filed names what is there, and could be filed again.  A staged  *)
(* row is what nobody has looked at.                                       *)
FiledIsThere ==
  \A h \in Holders \ {"staged"} : /\ Named(filed[h]) \subseteq Existing(category)
                                  /\ Fits(filed[h])

(* A save that names a category has locked them all, and what it checked   *)
(* is still so.                                                            *)
SaveIsGood ==
  save # NoSave =>
    /\ Named(save.draft) # {} => save.locks
    /\ save.named \subseteq Named(save.draft)
    /\ save.thing # "staged" =>
         /\ Fits(save.draft)
         /\ Named(save.draft)
              \subseteq Existing(ResolveByName(category, save.named, save.draft.type))
    /\ save.thing # "entry" => save.named = {}
    /\ save.prunes => save.thing \in {"entry", "staged"}

NamesInv == CategoriesTyped /\ FiledIsThere /\ SaveIsGood

(* An amount set for one period is for one period.                         *)
OverridesAreShort == \A o \in Overrides : override[o].from = override[o].to

BudgetsInv == OverridesAreShort /\ OneBudgetAPeriod

-------------------------------------------------------------------------------
(* The operators the model is built from.                                  *)

LEMMA NamedAreCategories ==
  ASSUME NEW d \in CategoryDrafts
  PROVE  Named(d) \subseteq Categories
BY CategoriesAssumption DEF Named, CategoryDrafts

LEMMA NoDraftNames ==
  NoDraft \in CategoryDrafts /\ Named(NoDraft) = {} /\ Fits(NoDraft)
BY DEF NoDraft, CategoryDrafts, Named, Fits

(* A name that is resolved is there, and nothing that was there goes.      *)
LEMMA Resolved ==
  ASSUME NEW known \in [Categories -> CategoryRows], NEW S, NEW type
  PROVE  /\ ResolveByName(known, S, type) \in [Categories -> CategoryRows]
         /\ Existing(known) \subseteq Existing(ResolveByName(known, S, type))
         /\ S = {} => ResolveByName(known, S, type) = known
<1> DEFINE r == ResolveByName(known, S, type)
<1>1. \A c \in Categories : /\ r[c] \in CategoryRows
                            /\ known[c].is \in {"live", "archived"}
                                 => r[c].is \in {"live", "archived"}
                            /\ S = {} => r[c] = known[c]
  BY DEF ResolveByName, CategoryRows, KindFor, Kinds
<1>2. r = [c \in Categories |-> r[c]]
  BY DEF ResolveByName
<1> HIDE DEF r
<1> QED
  BY <1>1, <1>2 DEF Existing, r

LEMMA Removed ==
  ASSUME NEW known \in [Categories -> CategoryRows], NEW S
  PROVE  /\ Remove(known, S) \in [Categories -> CategoryRows]
         /\ Existing(Remove(known, S)) = Existing(known) \ S
BY DEF Remove, Existing, CategoryRows, Kinds

LEMMA DroppedBudgets ==
  ASSUME NEW B, NEW budgets \in [B -> Budgets], NEW S \in SUBSET Targets
  PROVE  /\ WithoutBudgets(budgets, S) \in [B -> Budgets]
         /\ \A b \in B : WithoutBudgets(budgets, S)[b] \in {budgets[b], NoBudget}
         /\ \A b \in B : WithoutBudgets(budgets, S)[b].of \notin S
         /\ (\A b \in B : budgets[b].of \notin S) => WithoutBudgets(budgets, S) = budgets
<1>1. NoBudget \in Budgets /\ NoBudget.of \notin S
  BY CategoriesAssumption DEF NoBudget, Budgets, Running, Targets
<1> QED
  BY <1>1 DEF WithoutBudgets

LEMMA MovedOver ==
  ASSUME NEW B, NEW budgets \in [B -> Budgets], NEW S, NEW t \in Targets
  PROVE  /\ MovedBudgets(budgets, S, t) \in [B -> Budgets]
         /\ \A b \in B : /\ MovedBudgets(budgets, S, t)[b].from = budgets[b].from
                         /\ MovedBudgets(budgets, S, t)[b].to = budgets[b].to
                         /\ MovedBudgets(budgets, S, t)[b].of
                              = IF budgets[b].of \in S THEN t ELSE budgets[b].of
BY DEF MovedBudgets, Budgets

LEMMA Relabelled ==
  ASSUME NEW d \in CategoryDrafts, NEW S \in SUBSET Categories, NEW t \in Categories, t \notin S
  PROVE  /\ Relabel(d, S, t) \in CategoryDrafts
         /\ Named(Relabel(d, S, t)) \subseteq (Named(d) \ S) \cup {t}
         /\ Named(d) \cap S # {} \/ Named(Relabel(d, S, t)) \subseteq Named(d)
         /\ Fits(d) => Fits(Relabel(d, S, t))
         /\ RelabelDraft(d, S, t) \in CategoryDrafts
         /\ Fits(d) => RelabelDraft(d, S, t) = Relabel(d, S, t)
         /\ Named(RelabelDraft(d, S, t)) \cap S # {} => ~ Fits(RelabelDraft(d, S, t))
<1>1. NoCategory \notin S /\ t # NoCategory
  BY CategoriesAssumption DEF Targets
<1> DEFINE legs == {IF c \in S THEN t ELSE c : c \in d.legs}
<1>2. /\ Relabel(d, S, t) = [[d EXCEPT !.column = IF @ \in S THEN t ELSE @] EXCEPT !.legs = legs]
      /\ legs \in SUBSET Categories
  <2>1. \A c \in d.legs : c \in Categories
    BY DEF CategoryDrafts
  <2> QED
    BY <2>1 DEF Relabel, CategoryDrafts
<1>3. d.column \in S => RelabelDraft(d, S, t) = [column |-> t, legs |-> d.legs, type |-> d.type]
  BY DEF RelabelDraft, CategoryDrafts
<1>4. d.column \notin S => RelabelDraft(d, S, t) = Relabel(d, S, t)
  BY DEF RelabelDraft
<1>5. Relabel(d, S, t) \in CategoryDrafts
  BY <1>2 DEF CategoryDrafts
<1>6. Named(Relabel(d, S, t)) \subseteq (Named(d) \ S) \cup {t}
  BY <1>1, <1>2 DEF Named
<1>7. Named(d) \cap S # {} \/ Named(Relabel(d, S, t)) \subseteq Named(d)
  BY <1>1, <1>2 DEF Named
<1>8. Fits(d) => Fits(Relabel(d, S, t))
  BY <1>1, <1>2 DEF Fits
<1>9. RelabelDraft(d, S, t) \in CategoryDrafts
  BY <1>3, <1>4, <1>5 DEF CategoryDrafts
<1>10. Fits(d) => RelabelDraft(d, S, t) = Relabel(d, S, t)
  <2>1. CASE d.column \in S /\ d.legs = {}
    <3>1. legs = {}
      BY <2>1
    <3>2. d = [column |-> d.column, legs |-> {}, type |-> d.type]
      BY <2>1 DEF CategoryDrafts
    <3>3. Relabel(d, S, t) = [column |-> t, legs |-> {}, type |-> d.type]
      BY <1>2, <2>1, <3>1, <3>2
    <3> QED
      BY <1>3, <2>1, <3>3
  <2> QED
    BY <1>1, <1>4, <2>1 DEF Fits
<1>11. Named(RelabelDraft(d, S, t)) \cap S # {} => ~ Fits(RelabelDraft(d, S, t))
  <2>1. CASE d.column \in S
    BY <1>1, <1>3, <2>1 DEF Named, Fits
  <2>2. CASE d.column \notin S
    BY <1>4, <1>6, <2>2
  <2> QED
    BY <2>1, <2>2
<1> QED
  BY <1>5, <1>6, <1>7, <1>8, <1>9, <1>10, <1>11

-------------------------------------------------------------------------------
(* Names.  A step keeps what is known of them, leaves none behind, and     *)
(* takes no budget with it that nobody meant.                              *)

Clean == NamesInv' /\ NothingDangles /\ BudgetsKept

LEMMA CategoriesInitInv == CategoriesInit => NamesInv /\ BudgetsInv
<1> SUFFICES ASSUME CategoriesInit PROVE NamesInv /\ BudgetsInv
  OBVIOUS
<1>1. LastPeriod \in Nat /\ NoCategory \notin Targets
  BY CategoriesAssumption
<1>2. NoBudget \in Budgets
  BY <1>1 DEF NoBudget, Budgets, Running
<1>3. CategoriesTyped
  BY <1>2, NoDraftNames DEF CategoriesInit, CategoriesTyped, CategoriesTypeOK, CategoryRows,
                            Kinds, Holders
<1>4. FiledIsThere /\ SaveIsGood
  BY NoDraftNames DEF CategoriesInit, FiledIsThere, SaveIsGood, Holders
<1>5. \A p \in Plans : plan[p].of = NoCategory
  BY DEF CategoriesInit, NoBudget
<1>6. \A o \in Overrides : override[o].of = NoCategory
  BY DEF CategoriesInit, NoBudget
<1>7. OverridesAreShort
  BY DEF CategoriesInit, NoBudget, OverridesAreShort
<1>8. DOMAIN plan = Plans /\ DOMAIN override = Overrides
  BY DEF CategoriesInit
<1>9. OneBudgetAPeriod
  BY <1>1, <1>5, <1>6, <1>8 DEF OneBudgetAPeriod, Apart, HoldsBudget, PlansOf, OverridesOf,
                                Targets
<1> QED
  BY <1>3, <1>4, <1>7, <1>9 DEF NamesInv, BudgetsInv

(* What a save has checked does not move while it holds the lock; without  *)
(* the lock it names nothing.                                              *)
LEMMA SaveStaysGood ==
  ASSUME NamesInv, save' = save, NamespaceFree \/ category' = category
  PROVE  SaveIsGood'
<1>1. CASE category' = category
  BY <1>1 DEF NamesInv, SaveIsGood
<1>2. CASE NamespaceFree
  <2>1. save # NoSave => Named(save.draft) = {} /\ save.named = {}
    BY <1>2 DEF NamesInv, SaveIsGood, NamespaceFree
  <2> QED
    BY <2>1 DEF NamesInv, SaveIsGood
<1> QED
  BY <1>1, <1>2

(* Nothing is filed, and no category goes.                                 *)
LEMMA NothingGoes ==
  ASSUME NamesInv, CategoriesTyped', filed' = filed, save' = save,
         Existing(category) \subseteq Existing(category'),
         NamespaceFree \/ category' = category
  PROVE  Clean
<1>1. SaveIsGood'
  BY SaveStaysGood
<1>2. FiledIsThere'
  BY DEF NamesInv, FiledIsThere
<1>3. NothingDangles
  BY <1>2 DEF NothingDangles, FiledIsThere
<1>4. BudgetsKept
  BY DEF BudgetsKept
<1> QED
  BY <1>1, <1>2, <1>3, <1>4 DEF Clean, NamesInv

LEMMA BeginSaveClean ==
  ASSUME NamesInv, NEW h \in Holders, NEW d \in casting.drafts, NEW prunes \in BOOLEAN,
         NEW named \in SUBSET Named(d), BeginSave(h, d, named, prunes)
  PROVE  Clean
<1>1. /\ CategoriesTyped /\ FiledIsThere /\ save = NoSave
      /\ MayBeSaved(h, d, named)
      /\ prunes => h \in {"entry", "staged"}
      /\ save' = [thing |-> h, draft |-> d, named |-> named, prunes |-> prunes,
                  locks |-> SaveLocksNamespace(h, d)]
      /\ UNCHANGED <<category, policy, filed, plan, override, casting>>
  BY DEF NamesInv, BeginSave
<1>2. d \in CategoryDrafts /\ named \subseteq Categories
  <2>1. d \in CategoryDrafts
    BY <1>1, CategoriesAssumption DEF CategoriesTyped
  <2> QED
    BY <2>1, NamedAreCategories
<1>3. SaveLocksNamespace(h, d) \in BOOLEAN
  BY DEF SaveLocksNamespace
<1>4. save' \in Saves
  BY <1>1, <1>2, <1>3 DEF Saves
<1>5. CategoriesTyped'
  BY <1>1, <1>4 DEF CategoriesTyped, CategoriesTypeOK
<1>6. h # "staged" => /\ Fits(d)
                      /\ Named(d) \subseteq Existing(ResolveByName(category, named, d.type))
  <2>1. CASE h = "entry"
    <3>1. MayBePosted(ResolveByName(category, named, d.type), d, Named(filed[h]))
      BY <1>1, <2>1 DEF MayBeSaved
    <3>2. Named(d) \subseteq Categories
      BY <1>2, NamedAreCategories
    <3> QED
      BY <3>1, <3>2 DEF MayBePosted, Existing
  <2>2. CASE h \in {"recurrence", "template"}
    <3>1. named = {} /\ Fits(d) /\ Named(d) \subseteq Existing(category)
      BY <1>1, <2>2 DEF MayBeSaved
    <3>2. ResolveByName(category, named, d.type) = category
      BY <1>1, <3>1, Resolved DEF CategoriesTyped, CategoriesTypeOK
    <3> QED
      BY <3>1, <3>2
  <2> QED
    BY <2>1, <2>2 DEF Holders
<1>7. h # "entry" => named = {}
  BY <1>1 DEF MayBeSaved, Holders
<1>8. SaveIsGood'
  <2>1. Named(d) # {} => SaveLocksNamespace(h, d)
    BY DEF SaveLocksNamespace
  <2> QED
    BY <1>1, <1>6, <1>7, <2>1 DEF SaveIsGood
<1>9. FiledIsThere'
  BY <1>1 DEF FiledIsThere
<1>10. NothingDangles /\ BudgetsKept
  BY <1>1, <1>9 DEF NothingDangles, BudgetsKept, FiledIsThere
<1> QED
  BY <1>5, <1>8, <1>9, <1>10 DEF Clean, NamesInv

(* What is pruned is what nobody names any more, and what no budget is     *)
(* about.                                                                  *)
LEMMA CommitSaveClean ==
  ASSUME NamesInv, CommitSave
  PROVE  Clean
<1> DEFINE renamed == [filed EXCEPT ![save.thing] = save.draft]
           left == Named(filed[save.thing]) \ Named(save.draft)
           known == ResolveByName(category, save.named, save.draft.type)
           gone == IF save.prunes THEN PruneOrphans(left \cap Existing(known), renamed) ELSE {}
<1>1. /\ save # NoSave /\ save' = NoSave
      /\ filed' = renamed
      /\ category' = Remove(known, gone)
      /\ plan' = WithoutBudgets(plan, gone)
      /\ override' = WithoutBudgets(override, gone)
      /\ UNCHANGED <<policy, casting>>
  BY DEF CommitSave
<1>2. CategoriesTyped /\ FiledIsThere /\ SaveIsGood /\ save \in Saves
  BY <1>1 DEF NamesInv, CategoriesTyped
<1>3. /\ save.thing \in Holders /\ save.draft \in CategoryDrafts
      /\ renamed \in [Holders -> CategoryDrafts]
      /\ renamed[save.thing] = save.draft
      /\ \A h \in Holders : h # save.thing => renamed[h] = filed[h]
  BY <1>2 DEF CategoriesTyped, CategoriesTypeOK, Saves
<1>4. /\ known \in [Categories -> CategoryRows]
      /\ Existing(category) \subseteq Existing(known)
  BY <1>2, Resolved DEF CategoriesTyped, CategoriesTypeOK
<1>5. \A c \in gone : /\ c \in Existing(known)
                      /\ \A h \in Holders : c \notin Named(renamed[h])
                      /\ \A p \in Plans : plan[p].of # c
                      /\ \A o \in Overrides : override[o].of # c
  BY DEF PruneOrphans, UnusedAndUnbudgeted, Unused, Using, PlansOf, OverridesOf
<1>6. gone \in SUBSET Targets /\ gone \subseteq Categories
  BY <1>5 DEF Existing, Targets
<1> HIDE DEF renamed, known, gone
<1>7. /\ category' \in [Categories -> CategoryRows]
      /\ Existing(category') = Existing(known) \ gone
  BY <1>1, <1>4, Removed
<1>8. plan' = plan
  <2>1. plan \in [Plans -> Budgets]
    BY <1>2 DEF CategoriesTyped, CategoriesTypeOK
  <2>2. \A p \in Plans : plan[p].of \notin gone
    BY <1>5
  <2> QED
    BY <1>1, <1>6, <2>1, <2>2, DroppedBudgets
<1>9. override' = override
  <2>1. override \in [Overrides -> Budgets]
    BY <1>2 DEF CategoriesTyped, CategoriesTypeOK
  <2>2. \A o \in Overrides : override[o].of \notin gone
    BY <1>5
  <2> QED
    BY <1>1, <1>6, <2>1, <2>2, DroppedBudgets
<1>10. CategoriesTyped'
  BY <1>1, <1>2, <1>3, <1>7, <1>8, <1>9 DEF CategoriesTyped, CategoriesTypeOK
<1>11. SaveIsGood'
  BY <1>1 DEF SaveIsGood
<1>12. FiledIsThere'
  <2> SUFFICES ASSUME NEW h \in Holders \ {"staged"}
               PROVE  Named(renamed[h]) \subseteq Existing(category') /\ Fits(renamed[h])
    BY <1>1 DEF FiledIsThere
  <2>1. Named(renamed[h]) \subseteq Existing(known) /\ Fits(renamed[h])
    <3>1. CASE h = save.thing
      BY <1>1, <1>2, <1>3, <3>1 DEF SaveIsGood, known
    <3>2. CASE h # save.thing
      BY <1>2, <1>3, <1>4, <3>2 DEF FiledIsThere
    <3> QED
      BY <3>1, <3>2
  <2> QED
    BY <1>5, <1>7, <2>1
<1>13. NothingDangles
  <2>1. "staged" \in Holders
    BY DEF Holders
  <2>2. \A c \in Existing(category) \ Existing(category') : c \notin Named(filed'["staged"])
    BY <1>1, <1>4, <1>5, <1>7, <2>1
  <2> QED
    BY <1>12, <2>2 DEF NothingDangles, FiledIsThere
<1>14. BudgetsKept
  BY <1>8, <1>9 DEF BudgetsKept
<1> QED
  BY <1>10, <1>11, <1>12, <1>13, <1>14 DEF Clean, NamesInv

(* A staged row becomes an entry, and what it named by name a category.    *)
LEMMA CommitStageClean ==
  ASSUME NamesInv, NEW c \in Categories \cup {NoCategory}, CommitStage(c)
  PROVE  Clean
<1> DEFINE d == filed["staged"]
           byName == IF Named(d) = {} THEN {c} \ {NoCategory} ELSE {}
           settled == IF byName = {} THEN d ELSE [d EXCEPT !.column = c]
           known == ResolveByName(category, byName, d.type)
<1>1. /\ NamespaceFree \/ Named(settled) = {}
      /\ save.thing \notin {"staged", "entry"}
      /\ MayBePosted(known, settled, {})
      /\ category' = known
      /\ filed' = [filed EXCEPT !["entry"] = settled, !["staged"] = NoDraft]
      /\ UNCHANGED <<policy, plan, override, save, casting>>
  BY DEF CommitStage
<1>2. CategoriesTyped /\ FiledIsThere /\ d \in CategoryDrafts
  BY DEF NamesInv, CategoriesTyped, CategoriesTypeOK, Holders
<1>3. /\ known \in [Categories -> CategoryRows]
      /\ Existing(category) \subseteq Existing(known)
      /\ byName = {} => known = category
  BY <1>2, Resolved DEF CategoriesTyped, CategoriesTypeOK
<1>4. byName # {} => settled.column = c /\ c # NoCategory
  BY <1>2 DEF CategoryDrafts
<1>5. settled \in CategoryDrafts
  BY <1>2 DEF CategoryDrafts
<1>6. NamespaceFree \/ category' = category
  BY <1>1, <1>3, <1>4 DEF Named
<1>7. SaveIsGood'
  BY <1>1, <1>6, SaveStaysGood
<1>8. Named(settled) \subseteq Existing(known) /\ Fits(settled)
  BY <1>1, <1>5, NamedAreCategories DEF MayBePosted, Existing
<1> HIDE DEF known, settled
<1>9. /\ filed' \in [Holders -> CategoryDrafts]
      /\ filed'["entry"] = settled /\ filed'["staged"] = NoDraft
      /\ \A h \in Holders \ {"entry", "staged"} : filed'[h] = filed[h]
  BY <1>1, <1>2, <1>5, NoDraftNames DEF CategoriesTyped, CategoriesTypeOK, Holders
<1>10. CategoriesTyped'
  BY <1>1, <1>2, <1>3, <1>9 DEF CategoriesTyped, CategoriesTypeOK
<1>11. FiledIsThere'
  BY <1>1, <1>2, <1>3, <1>8, <1>9 DEF FiledIsThere
<1>12. NothingDangles
  BY <1>1, <1>3, <1>11 DEF NothingDangles, FiledIsThere
<1>13. BudgetsKept
  BY <1>1 DEF BudgetsKept
<1> QED
  BY <1>7, <1>10, <1>11, <1>12, <1>13 DEF Clean, NamesInv

LEMMA ProposeStagedClean ==
  ASSUME NamesInv, ProposeStaged
  PROVE  Clean
<1>1. /\ filed' = [filed EXCEPT !["staged"] = filed["recurrence"]]
      /\ UNCHANGED <<category, policy, plan, override, save, casting>>
  BY DEF ProposeStaged
<1>2. CategoriesTyped /\ FiledIsThere
  BY DEF NamesInv
<1>3. /\ filed' \in [Holders -> CategoryDrafts]
      /\ \A h \in Holders \ {"staged"} : filed'[h] = filed[h]
  BY <1>1, <1>2 DEF CategoriesTyped, CategoriesTypeOK, Holders
<1>4. CategoriesTyped'
  BY <1>1, <1>2, <1>3 DEF CategoriesTyped, CategoriesTypeOK
<1>5. FiledIsThere'
  BY <1>1, <1>2, <1>3 DEF FiledIsThere
<1>6. NothingDangles /\ BudgetsKept
  BY <1>1, <1>5 DEF NothingDangles, BudgetsKept, FiledIsThere
<1> QED
  BY <1>1, <1>4, <1>5, <1>6, SaveStaysGood DEF Clean, NamesInv

LEMMA DiscardClean ==
  ASSUME NamesInv, NEW h \in Holders, Discard(h)
  PROVE  Clean
<1>1. /\ filed' = [filed EXCEPT ![h] = NoDraft]
      /\ UNCHANGED <<category, policy, plan, override, save, casting>>
  BY DEF Discard
<1>2. CategoriesTyped /\ FiledIsThere
  BY DEF NamesInv
<1>3. /\ filed' \in [Holders -> CategoryDrafts]
      /\ \A other \in Holders : filed'[other] \in {filed[other], NoDraft}
  BY <1>1, <1>2, NoDraftNames DEF CategoriesTyped, CategoriesTypeOK, Holders
<1>4. CategoriesTyped'
  BY <1>1, <1>2, <1>3 DEF CategoriesTyped, CategoriesTypeOK
<1>5. FiledIsThere'
  <2> SUFFICES ASSUME NEW other \in Holders \ {"staged"}
               PROVE  Named(filed'[other]) \subseteq Existing(category) /\ Fits(filed'[other])
    BY <1>1 DEF FiledIsThere
  <2>1. CASE filed'[other] = filed[other]
    BY <1>2, <2>1 DEF FiledIsThere
  <2>2. CASE filed'[other] = NoDraft
    BY <2>2, NoDraftNames
  <2> QED
    BY <1>3, <2>1, <2>2
<1>6. NothingDangles /\ BudgetsKept
  BY <1>1, <1>5 DEF NothingDangles, BudgetsKept, FiledIsThere
<1> QED
  BY <1>1, <1>4, <1>5, <1>6, SaveStaysGood DEF Clean, NamesInv

(* The edits of a category that keep it.                                   *)
LEMMA CategoryStays ==
  ASSUME NamesInv, NamespaceFree, category' \in [Categories -> CategoryRows],
         Existing(category) \subseteq Existing(category'),
         UNCHANGED <<policy, filed, plan, override, save, casting>>
  PROVE  Clean
<1>1. CategoriesTyped'
  BY DEF NamesInv, CategoriesTyped, CategoriesTypeOK
<1> QED
  BY <1>1, NothingGoes

LEMMA EditCategoryClean ==
  ASSUME NamesInv, NEW c \in Categories, NEW g \in Groups \cup {NoCategory},
         NEW kind \in casting.kinds, CreateCategory(c, kind, g) \/ UpdateCategory(c, kind, g)
  PROVE  Clean
<1>1. category \in [Categories -> CategoryRows] /\ kind \in Kinds
  <2>1. CategoriesTyped /\ category \in [Categories -> CategoryRows]
    BY DEF NamesInv, CategoriesTyped, CategoriesTypeOK
  <2> QED
    BY <2>1, CategoriesAssumption DEF CategoriesTyped
<1>2. CASE CreateCategory(c, kind, g)
  <2>1. category' = [category EXCEPT ![c] = [is |-> "live", kind |-> kind, group |-> g]]
    BY <1>2 DEF CreateCategory
  <2>2. [is |-> "live", kind |-> kind, group |-> g] \in CategoryRows
    BY <1>1 DEF CategoryRows
  <2>3. /\ category' \in [Categories -> CategoryRows]
        /\ Existing(category) \subseteq Existing(category')
    BY <1>1, <2>1, <2>2 DEF Existing
  <2> QED
    BY <1>2, <2>3, CategoryStays DEF CreateCategory
<1>3. CASE UpdateCategory(c, kind, g)
  <2>1. category' = [category EXCEPT ![c].kind = kind, ![c].group = g]
    BY <1>3 DEF UpdateCategory
  <2>2. \A k \in Categories : category'[k].is = category[k].is
    BY <1>1, <2>1 DEF CategoryRows
  <2>3. category' \in [Categories -> CategoryRows]
    BY <1>1, <2>1 DEF CategoryRows
  <2> QED
    BY <1>3, <2>2, <2>3, CategoryStays DEF UpdateCategory, Existing
<1> QED
  BY <1>2, <1>3

LEMMA ArchivedClean ==
  ASSUME NamesInv, NEW c \in Categories, NEW archived \in BOOLEAN, SetCategoryArchived(c, archived)
  PROVE  Clean
<1>1. category \in [Categories -> CategoryRows]
  BY DEF NamesInv, CategoriesTyped, CategoriesTypeOK
<1>2. /\ category[c].is = IF archived THEN "live" ELSE "archived"
      /\ category' = [category EXCEPT ![c].is = IF archived THEN "archived" ELSE "live"]
  BY DEF SetCategoryArchived
<1>3. category' \in [Categories -> CategoryRows]
  BY <1>1, <1>2 DEF CategoryRows
<1>4. \A k \in Categories \ {c} : category'[k] = category[k]
  BY <1>1, <1>2
<1>5. category'[c].is \in {"live", "archived"}
  BY <1>1, <1>2 DEF CategoryRows
<1>6. Existing(category) \subseteq Existing(category')
  BY <1>3, <1>4, <1>5 DEF Existing
<1> QED
  BY <1>3, <1>6, CategoryStays DEF SetCategoryArchived

LEMMA DeleteCategoryClean ==
  ASSUME NamesInv, NEW c \in Categories, DeleteCategory(c)
  PROVE  Clean
<1>1. /\ NamespaceFree /\ Unused(filed, c)
      /\ category' = Remove(category, {c})
      /\ plan' = WithoutBudgets(plan, {c}) /\ override' = WithoutBudgets(override, {c})
      /\ UNCHANGED <<policy, filed, save, casting>>
  BY DEF DeleteCategory
<1>2. CategoriesTyped /\ FiledIsThere
  BY DEF NamesInv
<1>3. /\ category' \in [Categories -> CategoryRows]
      /\ Existing(category') = Existing(category) \ {c}
  BY <1>1, <1>2, Removed DEF CategoriesTyped, CategoriesTypeOK
<1>4. {c} \in SUBSET Targets
  BY DEF Targets
<1>5. plan' \in [Plans -> Budgets] /\ override' \in [Overrides -> Budgets]
  BY <1>1, <1>2, <1>4, DroppedBudgets DEF CategoriesTyped, CategoriesTypeOK
<1>6. CategoriesTyped'
  BY <1>1, <1>2, <1>3, <1>5 DEF CategoriesTyped, CategoriesTypeOK
<1>7. \A h \in Holders : c \notin Named(filed[h])
  BY <1>1 DEF Unused, Using
<1>8. FiledIsThere'
  BY <1>1, <1>2, <1>3, <1>7 DEF FiledIsThere
<1>9. NothingDangles
  <2>1. "staged" \in Holders
    BY DEF Holders
  <2> QED
    BY <1>1, <1>3, <1>7, <1>8, <2>1 DEF NothingDangles, FiledIsThere
<1>10. BudgetsKept
  BY <1>1 DEF BudgetsKept
<1> QED
  BY <1>1, <1>6, <1>8, <1>9, <1>10, SaveStaysGood DEF Clean, NamesInv

(* The groups, and the budgets, leave the categories where they are.       *)
LEMMA CreateGroupClean ==
  ASSUME NamesInv, NEW g \in Groups, NEW how \in {"standalone", "sum_of_children"},
         CreateCategoryGroup(g, how) \/ UpdateCategoryGroup(g, how)
  PROVE  Clean
<1>1. /\ policy' = [policy EXCEPT ![g] = how]
      /\ UNCHANGED <<category, filed, plan, override, save, casting>>
  BY DEF CreateCategoryGroup, UpdateCategoryGroup
<1>2. CategoriesTyped
  BY DEF NamesInv
<1>3. CategoriesTyped'
  BY <1>1, <1>2 DEF CategoriesTyped, CategoriesTypeOK
<1> QED
  BY <1>1, <1>3, NothingGoes

LEMMA DeleteGroupClean ==
  ASSUME NamesInv, NEW g \in Groups, DeleteCategoryGroup(g)
  PROVE  Clean
<1>1. /\ NamespaceFree
      /\ policy' = [policy EXCEPT ![g] = "gone"]
      /\ category' = [c \in Categories |->
                       IF category[c].group = g THEN [category[c] EXCEPT !.group = NoCategory]
                       ELSE category[c]]
      /\ plan' = WithoutBudgets(plan, {g}) /\ override' = WithoutBudgets(override, {g})
      /\ UNCHANGED <<filed, save, casting>>
  BY DEF DeleteCategoryGroup
<1>2. CategoriesTyped
  BY DEF NamesInv
<1>3. \A c \in Categories : category'[c] \in CategoryRows /\ category'[c].is = category[c].is
  BY <1>1, <1>2 DEF CategoriesTyped, CategoriesTypeOK, CategoryRows
<1>4. category' \in [Categories -> CategoryRows]
  BY <1>1, <1>3
<1>5. {g} \in SUBSET Targets
  BY DEF Targets
<1>6. plan' \in [Plans -> Budgets] /\ override' \in [Overrides -> Budgets]
  BY <1>1, <1>2, <1>5, DroppedBudgets DEF CategoriesTyped, CategoriesTypeOK
<1>7. CategoriesTyped'
  BY <1>1, <1>2, <1>4, <1>6 DEF CategoriesTyped, CategoriesTypeOK
<1>8. Existing(category) \subseteq Existing(category')
  BY <1>3 DEF Existing
<1> QED
  BY <1>1, <1>7, <1>8, NothingGoes

LEMMA SetBudgetsClean ==
  ASSUME NamesInv, NEW b \in Budgets \cup {NoBudget},
         \/ \E p \in Plans : plan' = [plan EXCEPT ![p] = b] /\ override' = override
         \/ \E o \in Overrides : override' = [override EXCEPT ![o] = b] /\ plan' = plan,
         UNCHANGED <<category, policy, filed, save, casting>>
  PROVE  Clean
<1>1. b \in Budgets
  <2>1. LastPeriod \in Nat
    BY CategoriesAssumption
  <2> QED
    BY <2>1 DEF NoBudget, Budgets, Running
<1>2. CategoriesTyped
  BY DEF NamesInv
<1>3. plan' \in [Plans -> Budgets] /\ override' \in [Overrides -> Budgets]
  BY <1>1, <1>2 DEF CategoriesTyped, CategoriesTypeOK
<1>4. CategoriesTyped'
  BY <1>2, <1>3 DEF CategoriesTyped, CategoriesTypeOK
<1> QED
  BY <1>4, NothingGoes

LEMMA SavePlanClean ==
  ASSUME NamesInv, NEW p \in Plans, NEW t \in Targets, NEW from \in 1 .. LastPeriod,
         NEW to \in 1 .. Running, SavePlan(p, t, from, to)
  PROVE  Clean
<1>1. LastPeriod \in Nat
  BY CategoriesAssumption
<1>2. [of |-> t, from |-> from, to |-> to] \in Budgets
  BY <1>1 DEF Budgets
<1> QED
  BY <1>2, SetBudgetsClean DEF SavePlan

LEMMA SetBudgetEntryClean ==
  ASSUME NamesInv, NEW o \in Overrides, NEW t \in Targets, NEW period \in 1 .. LastPeriod,
         SetBudgetEntry(o, t, period)
  PROVE  Clean
<1>1. LastPeriod \in Nat
  BY CategoriesAssumption
<1>2. [of |-> t, from |-> period, to |-> period] \in Budgets
  BY <1>1 DEF Budgets, Running
<1> QED
  BY <1>2, SetBudgetsClean DEF SetBudgetEntry

LEMMA DeleteBudgetClean ==
  ASSUME NamesInv, DeleteBudget
  PROVE  Clean
BY SetBudgetsClean DEF DeleteBudget

(* What a merge leaves of a source is in a row nobody could commit.        *)
LEMMA MergeClean ==
  ASSUME NamesInv, NEW target \in Categories, NEW sources \in SUBSET Categories,
         MergeCategories(target, sources)
  PROVE  Clean
<1>1. /\ NamespaceFree /\ target \notin sources
      /\ sources \cup {target} \subseteq Existing(category)
      /\ filed' = [h \in Holders |->
                    IF h = "entry" THEN Relabel(filed[h], sources, target)
                    ELSE RelabelDraft(filed[h], sources, target)]
      /\ plan' = WithoutBudgets(MovedBudgets(plan, sources, target), sources)
      /\ override' = WithoutBudgets(MovedBudgets(override, sources, target), sources)
      /\ category' = [Remove(category, sources) EXCEPT
                        ![target].kind = MergedKind(sources \cup {target})]
      /\ UNCHANGED <<policy, save, casting>>
  BY DEF MergeCategories
<1>2. /\ CategoriesTyped /\ FiledIsThere
      /\ category \in [Categories -> CategoryRows]
      /\ filed \in [Holders -> CategoryDrafts]
      /\ plan \in [Plans -> Budgets] /\ override \in [Overrides -> Budgets]
  BY DEF NamesInv, CategoriesTyped, CategoriesTypeOK
<1>3. MergedKind(sources \cup {target}) \in Kinds
  <2> DEFINE kinds == {category[c].kind : c \in sources \cup {target}}
  <2>1. kinds \subseteq Kinds /\ category[target].kind \in kinds
    BY <1>2 DEF CategoryRows
  <2> HIDE DEF kinds
  <2>2. (CHOOSE kind \in kinds : TRUE) \in kinds
    BY <2>1
  <2>3. MergedKind(sources \cup {target})
          = IF Cardinality(kinds) = 1 THEN CHOOSE kind \in kinds : TRUE ELSE "both"
    BY DEF MergedKind, kinds
  <2> QED
    BY <2>1, <2>2, <2>3 DEF Kinds
<1>4. /\ Remove(category, sources) \in [Categories -> CategoryRows]
      /\ Existing(Remove(category, sources)) = Existing(category) \ sources
  BY <1>2, Removed
<1>5. /\ category' \in [Categories -> CategoryRows]
      /\ Existing(category') = Existing(category) \ sources
  <2> DEFINE left == Remove(category, sources)
  <2> HIDE DEF left
  <2>1. /\ left \in [Categories -> CategoryRows]
        /\ category' = [left EXCEPT ![target].kind = MergedKind(sources \cup {target})]
        /\ Existing(left) = Existing(category) \ sources
    BY <1>1, <1>4 DEF left
  <2>2. category' \in [Categories -> CategoryRows]
    BY <1>3, <2>1 DEF CategoryRows
  <2>3. \A c \in Categories : category'[c].is = left[c].is
    BY <1>3, <2>1 DEF CategoryRows
  <2> QED
    BY <2>1, <2>2, <2>3 DEF Existing
<1>6. \A h \in Holders :
        LET d == filed[h]
        IN  /\ Relabel(d, sources, target) \in CategoryDrafts
            /\ Named(Relabel(d, sources, target)) \subseteq (Named(d) \ sources) \cup {target}
            /\ Fits(d) => Fits(Relabel(d, sources, target))
            /\ RelabelDraft(d, sources, target) \in CategoryDrafts
            /\ Fits(d) => RelabelDraft(d, sources, target) = Relabel(d, sources, target)
            /\ Named(RelabelDraft(d, sources, target)) \cap sources # {}
                 => ~ Fits(RelabelDraft(d, sources, target))
  BY <1>1, <1>2, Relabelled
<1>7. filed' \in [Holders -> CategoryDrafts]
  BY <1>1, <1>6
<1>8. sources \in SUBSET Targets /\ target \in Targets
  BY DEF Targets
<1>9. plan' \in [Plans -> Budgets] /\ override' \in [Overrides -> Budgets]
  <2>1. /\ MovedBudgets(plan, sources, target) \in [Plans -> Budgets]
        /\ MovedBudgets(override, sources, target) \in [Overrides -> Budgets]
    BY <1>2, <1>8, MovedOver
  <2> QED
    BY <1>1, <1>8, <2>1, DroppedBudgets
<1>10. CategoriesTyped'
  BY <1>1, <1>2, <1>5, <1>7, <1>9 DEF CategoriesTyped, CategoriesTypeOK
<1>11. FiledIsThere'
  <2> SUFFICES ASSUME NEW h \in Holders \ {"staged"}
               PROVE  Named(filed'[h]) \subseteq Existing(category') /\ Fits(filed'[h])
    BY DEF FiledIsThere
  <2>1. Fits(filed[h]) /\ Named(filed[h]) \subseteq Existing(category)
    BY <1>2 DEF FiledIsThere
  <2>2. filed'[h] = Relabel(filed[h], sources, target)
    BY <1>1, <1>6, <2>1
  <2> QED
    BY <1>1, <1>5, <1>6, <2>1, <2>2
<1>12. NothingDangles
  <2>1. \A c \in Existing(category) \ Existing(category') :
          c \in Named(filed'["staged"]) => ~ Fits(filed'["staged"])
    <3>1. filed'["staged"] = RelabelDraft(filed["staged"], sources, target)
      BY <1>1 DEF Holders
    <3>2. Named(filed'["staged"]) \cap sources # {} => ~ Fits(filed'["staged"])
      BY <1>6, <3>1 DEF Holders
    <3> QED
      BY <1>5, <3>2
  <2> QED
    BY <1>11, <2>1 DEF NothingDangles, FiledIsThere
<1>13. ASSUME NEW B, NEW budgets \in [B -> Budgets], NEW b \in B, budgets[b] # NoBudget
       PROVE  WithoutBudgets(MovedBudgets(budgets, sources, target), sources)[b] # NoBudget
  <2> DEFINE moved == MovedBudgets(budgets, sources, target)
  <2>1. /\ moved[b].of \notin sources
        /\ budgets[b].of \in sources => moved[b].of = target
        /\ budgets[b].of \notin sources => moved[b] = budgets[b]
    BY <1>1, <1>8, MovedOver DEF MovedBudgets
  <2>2. DOMAIN moved = B
    BY DEF MovedBudgets
  <2>3. WithoutBudgets(moved, sources)[b] = moved[b]
    BY <2>1, <2>2 DEF WithoutBudgets
  <2>4. target # NoBudget.of
    BY <1>8, CategoriesAssumption DEF NoBudget
  <2> HIDE DEF moved
  <2>5. moved[b] # NoBudget
    BY <1>13, <2>1, <2>4
  <2> QED
    BY <2>3, <2>5 DEF moved
<1>14. BudgetsKept
  <2>1. \A p \in Plans : plan[p] # NoBudget => plan'[p] # NoBudget
    BY <1>1, <1>2, <1>13
  <2>2. \A o \in Overrides : override[o] # NoBudget => override'[o] # NoBudget
    BY <1>1, <1>2, <1>13
  <2> QED
    BY <2>1, <2>2 DEF BudgetsKept
<1> QED
  BY <1>1, <1>10, <1>11, <1>12, <1>14, SaveStaysGood DEF Clean, NamesInv

LEMMA NextIsClean ==
  ASSUME NamesInv, [CategoriesNext]_categoryVars
  PROVE  NamesInv' /\ [NothingDangles /\ BudgetsKept]_categoryVars
<1>1. CASE UNCHANGED categoryVars
  BY <1>1 DEF categoryVars, NamesInv, CategoriesTyped, CategoriesTypeOK, FiledIsThere, SaveIsGood
<1>2. ASSUME CategoriesNext PROVE Clean
  <2>1. CASE \E h \in Holders, d \in casting.drafts, prunes \in BOOLEAN :
               \E named \in SUBSET Named(d) : BeginSave(h, d, named, prunes)
    BY <2>1, BeginSaveClean
  <2>2. CASE CommitSave
    BY <2>2, CommitSaveClean
  <2>3. CASE \E c \in Categories \cup {NoCategory} : CommitStage(c)
    BY <2>3, CommitStageClean
  <2>4. CASE ProposeStaged
    BY <2>4, ProposeStagedClean
  <2>5. CASE \E h \in Holders : Discard(h)
    BY <2>5, DiscardClean
  <2>6. CASE \E c \in Categories, g \in Groups \cup {NoCategory} :
               \E kind \in casting.kinds : CreateCategory(c, kind, g) \/ UpdateCategory(c, kind, g)
    BY <2>6, EditCategoryClean
  <2>7. CASE \E c \in Categories, archived \in BOOLEAN : SetCategoryArchived(c, archived)
    BY <2>7, ArchivedClean
  <2>8. CASE \E c \in Categories : DeleteCategory(c)
    BY <2>8, DeleteCategoryClean
  <2>9. CASE \E target \in Categories, sources \in SUBSET Categories :
               MergeCategories(target, sources)
    BY <2>9, MergeClean
  <2>10. CASE \E g \in Groups, how \in {"standalone", "sum_of_children"} :
                CreateCategoryGroup(g, how) \/ UpdateCategoryGroup(g, how)
    BY <2>10, CreateGroupClean
  <2>11. CASE \E g \in Groups : DeleteCategoryGroup(g)
    BY <2>11, DeleteGroupClean
  <2>12. CASE \E p \in Plans, t \in Targets, from \in 1 .. LastPeriod, to \in 1 .. Running :
                SavePlan(p, t, from, to)
    BY <2>12, SavePlanClean
  <2>13. CASE \E o \in Overrides, t \in Targets, period \in 1 .. LastPeriod :
                SetBudgetEntry(o, t, period)
    BY <2>13, SetBudgetEntryClean
  <2>14. CASE DeleteBudget
    BY <2>14, DeleteBudgetClean
  <2> QED
    BY <1>2, <2>1, <2>2, <2>3, <2>4, <2>5, <2>6, <2>7, <2>8, <2>9, <2>10, <2>11, <2>12,
       <2>13, <2>14 DEF CategoriesNext
<1> QED
  BY <1>1, <1>2 DEF Clean

-------------------------------------------------------------------------------
(* Budgets.  What is apart stays apart when budgets end, and when one is   *)
(* moved or added where it fits.                                           *)

AllApart(B, budgets) ==
  \A t \in Targets : \A b1, b2 \in B :
    b1 # b2 /\ budgets[b1].of = t /\ budgets[b2].of = t => ~ Overlap(budgets[b1], budgets[b2])

SumsStandAlone == \A g \in Groups : HoldsBudget(g) => policy[g] = "standalone"

LEMMA OneBudgetMeans ==
  ASSUME CategoriesTyped
  PROVE  OneBudgetAPeriod
           <=> AllApart(Plans, plan) /\ AllApart(Overrides, override) /\ SumsStandAlone
BY DEF OneBudgetAPeriod, AllApart, Apart, SumsStandAlone, CategoriesTyped, CategoriesTypeOK

LEMMA OneBudgetMeansThen ==
  ASSUME CategoriesTyped'
  PROVE  OneBudgetAPeriod'
           <=> AllApart(Plans, plan') /\ AllApart(Overrides, override') /\ SumsStandAlone'
BY DEF OneBudgetAPeriod, AllApart, Apart, SumsStandAlone, CategoriesTyped, CategoriesTypeOK

(* No budget is added or moved.                                            *)
LEMMA FewerBudgets ==
  ASSUME CategoriesTyped, CategoriesTyped', BudgetsInv,
         \A p \in Plans : plan'[p] \in {plan[p], NoBudget},
         \A o \in Overrides : override'[o] \in {override[o], NoBudget},
         \A g \in Groups :
           policy'[g] = policy[g] \/ policy'[g] = "standalone" \/ ~ HoldsBudget(g)'
  PROVE  BudgetsInv'
<1>1. NoBudget.of \notin Targets
  BY CategoriesAssumption DEF NoBudget
<1>2. AllApart(Plans, plan) /\ AllApart(Overrides, override) /\ SumsStandAlone
  BY OneBudgetMeans DEF BudgetsInv
<1>3. AllApart(Plans, plan') /\ AllApart(Overrides, override')
  BY <1>1, <1>2 DEF AllApart
<1>4. \A g \in Groups : HoldsBudget(g)' => HoldsBudget(g)
  BY <1>1 DEF HoldsBudget, PlansOf, OverridesOf, Targets
<1>5. SumsStandAlone'
  BY <1>2, <1>4 DEF SumsStandAlone
<1>6. OverridesAreShort'
  BY DEF BudgetsInv, OverridesAreShort, NoBudget
<1>7. OneBudgetAPeriod'
  BY <1>3, <1>5, OneBudgetMeansThen
<1> QED
  BY <1>6, <1>7 DEF BudgetsInv

LEMMA OverlapIsMutual ==
  ASSUME NEW b1 \in Budgets, NEW b2 \in Budgets
  PROVE  Overlap(b1, b2) <=> Overlap(b2, b1)
BY DEF Overlap

(* A merge compares whatever the target will end up with, each with each.  *)
LEMMA MergedStayApart ==
  ASSUME NEW B, NEW budgets \in [B -> Budgets], AllApart(B, budgets),
         NEW target \in Categories, NEW sources \in SUBSET Categories, target \notin sources,
         MergeFits(budgets, sources, target)
  PROVE  LET renamed == WithoutBudgets(MovedBudgets(budgets, sources, target), sources)
         IN  /\ AllApart(B, renamed)
             /\ \A b \in B : renamed[b].from = budgets[b].from /\ renamed[b].to = budgets[b].to
             /\ \A b \in B, g \in Groups : renamed[b].of = g => budgets[b].of = g
<1> DEFINE moved == MovedBudgets(budgets, sources, target)
<1>1. target \in Targets
  BY DEF Targets
<1>2. /\ moved \in [B -> Budgets]
      /\ \A b \in B : /\ moved[b].from = budgets[b].from /\ moved[b].to = budgets[b].to
                      /\ moved[b].of = IF budgets[b].of \in sources THEN target ELSE budgets[b].of
  BY <1>1, MovedOver
<1>3. \A b \in B : moved[b].of \notin sources
  BY <1>2
<1>4. WithoutBudgets(moved, sources) = moved
  BY <1>2, <1>3 DEF WithoutBudgets
<1> HIDE DEF moved
<1>5. AllApart(B, moved)
  <2> SUFFICES ASSUME NEW t \in Targets, NEW b1 \in B, NEW b2 \in B, b1 # b2,
                      moved[b1].of = t, moved[b2].of = t
               PROVE  ~ Overlap(moved[b1], moved[b2])
    BY DEF AllApart
  <2>1. ~ Overlap(budgets[b1], budgets[b2])
    <3>1. CASE t = target
      <4>1. {budgets[b1].of, budgets[b2].of} \subseteq sources \cup {target}
        BY <1>2, <3>1
      <4> QED
        BY <4>1 DEF MergeFits
    <3>2. CASE t # target
      BY <1>2, <3>2 DEF AllApart
    <3> QED
      BY <3>1, <3>2
  <2> QED
    BY <1>2, <2>1 DEF Overlap
<1>6. \A b \in B, g \in Groups : moved[b].of = g => budgets[b].of = g
  BY <1>2, CategoriesAssumption
<1> QED
  BY <1>2, <1>4, <1>5, <1>6 DEF moved

LEMMA MergeBudgetsInv ==
  ASSUME CategoriesTyped, CategoriesTyped', BudgetsInv,
         NEW target \in Categories, NEW sources \in SUBSET Categories,
         MergeCategories(target, sources)
  PROVE  BudgetsInv'
<1>1. /\ target \notin sources
      /\ MergeFits(plan, sources, target) /\ MergeFits(override, sources, target)
      /\ plan' = WithoutBudgets(MovedBudgets(plan, sources, target), sources)
      /\ override' = WithoutBudgets(MovedBudgets(override, sources, target), sources)
      /\ policy' = policy
  BY DEF MergeCategories
<1>2. AllApart(Plans, plan) /\ AllApart(Overrides, override) /\ SumsStandAlone
  BY OneBudgetMeans DEF BudgetsInv
<1>3. plan \in [Plans -> Budgets] /\ override \in [Overrides -> Budgets]
  BY DEF CategoriesTyped, CategoriesTypeOK
<1>4. /\ AllApart(Plans, plan')
      /\ \A p \in Plans, g \in Groups : plan'[p].of = g => plan[p].of = g
  BY <1>1, <1>2, <1>3, MergedStayApart
<1>5. /\ AllApart(Overrides, override')
      /\ \A o \in Overrides : override'[o].from = override[o].from
                              /\ override'[o].to = override[o].to
      /\ \A o \in Overrides, g \in Groups : override'[o].of = g => override[o].of = g
  BY <1>1, <1>2, <1>3, MergedStayApart
<1>6. SumsStandAlone'
  BY <1>1, <1>2, <1>4, <1>5 DEF SumsStandAlone, HoldsBudget, PlansOf, OverridesOf
<1>7. OverridesAreShort'
  BY <1>5 DEF BudgetsInv, OverridesAreShort
<1>8. OneBudgetAPeriod'
  BY <1>4, <1>5, <1>6, OneBudgetMeansThen
<1> QED
  BY <1>7, <1>8 DEF BudgetsInv

(* One budget is written where it overlaps none of its target.             *)
LEMMA AddedStaysApart ==
  ASSUME NEW B, NEW budgets \in [B -> Budgets], AllApart(B, budgets),
         NEW b \in B, NEW new \in Budgets,
         \A other \in B \ {b} : budgets[other].of = new.of => ~ Overlap(new, budgets[other])
  PROVE  AllApart(B, [budgets EXCEPT ![b] = new])
<1> DEFINE renamed == [budgets EXCEPT ![b] = new]
<1>1. renamed[b] = new /\ \A other \in B \ {b} : renamed[other] = budgets[other]
  OBVIOUS
<1> HIDE DEF renamed
<1> SUFFICES ASSUME NEW t \in Targets, NEW b1 \in B, NEW b2 \in B, b1 # b2,
                    renamed[b1].of = t, renamed[b2].of = t
             PROVE  ~ Overlap(renamed[b1], renamed[b2])
  BY DEF AllApart, renamed
<1>2. CASE b1 = b
  BY <1>1, <1>2
<1>3. CASE b2 = b
  <2>1. ~ Overlap(new, budgets[b1])
    BY <1>1, <1>3
  <2>2. ~ Overlap(budgets[b1], new)
    BY <2>1, OverlapIsMutual
  <2> QED
    BY <1>1, <1>3, <2>2
<1>4. CASE b1 # b /\ b2 # b
  BY <1>1, <1>4 DEF AllApart
<1> QED
  BY <1>2, <1>3, <1>4

LEMMA SavePlanInv ==
  ASSUME CategoriesTyped, CategoriesTyped', BudgetsInv,
         NEW p \in Plans, NEW t \in Targets, NEW from \in 1 .. LastPeriod,
         NEW to \in 1 .. Running, SavePlan(p, t, from, to)
  PROVE  BudgetsInv'
<1> DEFINE new == [of |-> t, from |-> from, to |-> to]
<1>1. /\ Budgetable(t) /\ NoOverlap(p, t, from, to)
      /\ plan' = [plan EXCEPT ![p] = new]
      /\ UNCHANGED <<policy, override>>
  BY DEF SavePlan
<1>2. AllApart(Plans, plan) /\ AllApart(Overrides, override) /\ SumsStandAlone
  BY OneBudgetMeans DEF BudgetsInv
<1>3. plan \in [Plans -> Budgets]
  BY DEF CategoriesTyped, CategoriesTypeOK
<1>4. LastPeriod \in Nat
  BY CategoriesAssumption
<1>5. new \in Budgets
  BY <1>4 DEF Budgets
<1>6. \A q \in Plans \ {p} : plan[q].of = new.of => ~ Overlap(new, plan[q])
  <2> SUFFICES ASSUME NEW q \in Plans \ {p}, plan[q].of = t PROVE ~ Overlap(new, plan[q])
    OBVIOUS
  <2>1. ~ Overlap([from |-> from, to |-> to], plan[q])
    BY <1>1 DEF NoOverlap, PlansOf
  <2> QED
    BY <2>1 DEF Overlap
<1> HIDE DEF new
<1>7. AllApart(Plans, plan')
  BY <1>1, <1>2, <1>3, <1>5, <1>6, AddedStaysApart
<1>8. SumsStandAlone'
  <2> SUFFICES ASSUME NEW g \in Groups, HoldsBudget(g)' PROVE policy[g] = "standalone"
    BY <1>1 DEF SumsStandAlone
  <2>1. CASE g = t
    BY <1>1, <2>1 DEF Budgetable
  <2>2. CASE g # t
    <3>1. HoldsBudget(g)
      BY <1>1, <1>3, <2>2 DEF HoldsBudget, PlansOf, OverridesOf, new
    <3> QED
      BY <1>2, <3>1 DEF SumsStandAlone
  <2> QED
    BY <2>1, <2>2
<1>9. OverridesAreShort'
  BY <1>1 DEF BudgetsInv, OverridesAreShort
<1>10. OneBudgetAPeriod'
  BY <1>1, <1>2, <1>7, <1>8, OneBudgetMeansThen
<1> QED
  BY <1>9, <1>10 DEF BudgetsInv

LEMMA SetBudgetEntryInv ==
  ASSUME CategoriesTyped, CategoriesTyped', BudgetsInv,
         NEW o \in Overrides, NEW t \in Targets, NEW period \in 1 .. LastPeriod,
         SetBudgetEntry(o, t, period)
  PROVE  BudgetsInv'
<1> DEFINE new == [of |-> t, from |-> period, to |-> period]
<1>1. /\ Budgetable(t)
      /\ \A other \in OverridesOf(t) : override[other].from # period
      /\ override' = [override EXCEPT ![o] = new]
      /\ UNCHANGED <<policy, plan>>
  BY DEF SetBudgetEntry
<1>2. AllApart(Plans, plan) /\ AllApart(Overrides, override) /\ SumsStandAlone
  BY OneBudgetMeans DEF BudgetsInv
<1>3. override \in [Overrides -> Budgets]
  BY DEF CategoriesTyped, CategoriesTypeOK
<1>4. LastPeriod \in Nat
  BY CategoriesAssumption
<1>5. new \in Budgets
  BY <1>4 DEF Budgets, Running
<1>6. \A other \in Overrides \ {o} : override[other].of = new.of => ~ Overlap(new, override[other])
  <2> SUFFICES ASSUME NEW other \in Overrides \ {o}, override[other].of = t
               PROVE  ~ Overlap(new, override[other])
    OBVIOUS
  <2>1. override[other].from # period /\ override[other].from = override[other].to
    BY <1>1 DEF OverridesOf, BudgetsInv, OverridesAreShort
  <2>2. override[other].from \in Int
    BY <1>3, <1>4 DEF Budgets
  <2> QED
    BY <2>1, <2>2 DEF Overlap
<1> HIDE DEF new
<1>7. AllApart(Overrides, override')
  BY <1>1, <1>2, <1>3, <1>5, <1>6, AddedStaysApart
<1>8. SumsStandAlone'
  <2> SUFFICES ASSUME NEW g \in Groups, HoldsBudget(g)' PROVE policy[g] = "standalone"
    BY <1>1 DEF SumsStandAlone
  <2>1. CASE g = t
    BY <1>1, <2>1 DEF Budgetable
  <2>2. CASE g # t
    <3>1. HoldsBudget(g)
      BY <1>1, <1>3, <2>2 DEF HoldsBudget, PlansOf, OverridesOf, new
    <3> QED
      BY <1>2, <3>1 DEF SumsStandAlone
  <2> QED
    BY <2>1, <2>2
<1>9. OverridesAreShort'
  BY <1>1, <1>3 DEF BudgetsInv, OverridesAreShort, new
<1>10. OneBudgetAPeriod'
  BY <1>1, <1>2, <1>7, <1>8, OneBudgetMeansThen
<1> QED
  BY <1>9, <1>10 DEF BudgetsInv

(* Every other step ends budgets at most.                                  *)
LEMMA DroppedInv ==
  ASSUME CategoriesTyped, CategoriesTyped', BudgetsInv, NEW S \in SUBSET Targets,
         plan' = WithoutBudgets(plan, S), override' = WithoutBudgets(override, S),
         \A g \in Groups : policy'[g] = policy[g] \/ g \in S
  PROVE  BudgetsInv'
<1>1. plan \in [Plans -> Budgets] /\ override \in [Overrides -> Budgets]
  BY DEF CategoriesTyped, CategoriesTypeOK
<1>2. /\ \A p \in Plans : plan'[p] \in {plan[p], NoBudget} /\ plan'[p].of \notin S
      /\ \A o \in Overrides : override'[o] \in {override[o], NoBudget} /\ override'[o].of \notin S
  BY <1>1, DroppedBudgets
<1>3. \A g \in Groups : policy'[g] = policy[g] \/ ~ HoldsBudget(g)'
  BY <1>2 DEF HoldsBudget, PlansOf, OverridesOf
<1> QED
  BY <1>2, <1>3, FewerBudgets

LEMMA GroupBudgetsInv ==
  ASSUME CategoriesTyped, CategoriesTyped', BudgetsInv, NEW g \in Groups,
         NEW how \in {"standalone", "sum_of_children"},
         CreateCategoryGroup(g, how) \/ UpdateCategoryGroup(g, how)
  PROVE  BudgetsInv'
<1>1. /\ policy' = [policy EXCEPT ![g] = how]
      /\ UNCHANGED <<plan, override>>
      /\ policy \in [Groups -> {"unused", "standalone", "sum_of_children", "gone"}]
  BY DEF CreateCategoryGroup, UpdateCategoryGroup, CategoriesTyped, CategoriesTypeOK
<1>2. how = "standalone" \/ ~ HoldsBudget(g)
  <2>1. policy[g] = "unused" => ~ HoldsBudget(g)
    BY DEF BudgetsInv, OneBudgetAPeriod
  <2> QED
    BY <2>1 DEF CreateCategoryGroup, UpdateCategoryGroup
<1>3. HoldsBudget(g)' <=> HoldsBudget(g)
  BY <1>1 DEF HoldsBudget, PlansOf, OverridesOf
<1>4. \A other \in Groups :
        policy'[other] = policy[other] \/ policy'[other] = "standalone" \/ ~ HoldsBudget(other)'
  BY <1>1, <1>2, <1>3
<1> QED
  BY <1>1, <1>4, FewerBudgets

LEMMA NextBudgetsInv ==
  ASSUME CategoriesTyped, CategoriesTyped', SaveIsGood, BudgetsInv,
         [CategoriesNext]_categoryVars
  PROVE  BudgetsInv'
<1>1. CASE UNCHANGED <<policy, plan, override>>
  BY <1>1, FewerBudgets
<1>2. CASE CommitSave
  <2>1. PICK gone \in SUBSET Targets : /\ plan' = WithoutBudgets(plan, gone)
                                       /\ override' = WithoutBudgets(override, gone)
    <3> DEFINE known == ResolveByName(category, save.named, save.draft.type)
               left == Named(filed[save.thing]) \ Named(save.draft)
               gone == IF save.prunes
                       THEN PruneOrphans(left \cap Existing(known),
                                         [filed EXCEPT ![save.thing] = save.draft])
                       ELSE {}
    <3>1. gone \in SUBSET Targets
      BY DEF PruneOrphans, Existing, Targets
    <3>2. plan' = WithoutBudgets(plan, gone) /\ override' = WithoutBudgets(override, gone)
      BY <1>2 DEF CommitSave
    <3> QED
      BY <3>1, <3>2
  <2>2. policy' = policy
    BY <1>2 DEF CommitSave
  <2> QED
    BY <2>1, <2>2, DroppedInv
<1>3. CASE \E c \in Categories : DeleteCategory(c)
  <2>1. PICK c \in Categories : DeleteCategory(c)
    BY <1>3
  <2>2. {c} \in SUBSET Targets
    BY DEF Targets
  <2> QED
    BY <2>1, <2>2, DroppedInv DEF DeleteCategory
<1>4. CASE \E target \in Categories, sources \in SUBSET Categories :
             MergeCategories(target, sources)
  BY <1>4, MergeBudgetsInv
<1>5. CASE \E g \in Groups, how \in {"standalone", "sum_of_children"} :
             CreateCategoryGroup(g, how) \/ UpdateCategoryGroup(g, how)
  BY <1>5, GroupBudgetsInv
<1>6. CASE \E g \in Groups : DeleteCategoryGroup(g)
  <2>1. PICK g \in Groups : DeleteCategoryGroup(g)
    BY <1>6
  <2>2. {g} \in SUBSET Targets
    BY DEF Targets
  <2>3. \A other \in Groups : policy'[other] = policy[other] \/ other \in {g}
    BY <2>1 DEF DeleteCategoryGroup, CategoriesTyped, CategoriesTypeOK
  <2> QED
    BY <2>1, <2>2, <2>3, DroppedInv DEF DeleteCategoryGroup
<1>7. CASE \E p \in Plans, t \in Targets, from \in 1 .. LastPeriod, to \in 1 .. Running :
             SavePlan(p, t, from, to)
  BY <1>7, SavePlanInv
<1>8. CASE \E o \in Overrides, t \in Targets, period \in 1 .. LastPeriod :
             SetBudgetEntry(o, t, period)
  BY <1>8, SetBudgetEntryInv
<1>9. CASE DeleteBudget
  <2>1. /\ policy' = policy
        /\ \A p \in Plans : plan'[p] \in {plan[p], NoBudget}
        /\ \A o \in Overrides : override'[o] \in {override[o], NoBudget}
    BY <1>9 DEF DeleteBudget, CategoriesTyped, CategoriesTypeOK
  <2> QED
    BY <2>1, FewerBudgets
<1>10. \/ UNCHANGED <<policy, plan, override>>
       \/ CommitSave
       \/ \E c \in Categories : DeleteCategory(c)
       \/ \E target \in Categories, sources \in SUBSET Categories : MergeCategories(target, sources)
       \/ \E g \in Groups, how \in {"standalone", "sum_of_children"} :
            CreateCategoryGroup(g, how) \/ UpdateCategoryGroup(g, how)
       \/ \E g \in Groups : DeleteCategoryGroup(g)
       \/ \E p \in Plans, t \in Targets, from \in 1 .. LastPeriod, to \in 1 .. Running :
            SavePlan(p, t, from, to)
       \/ \E o \in Overrides, t \in Targets, period \in 1 .. LastPeriod :
            SetBudgetEntry(o, t, period)
       \/ DeleteBudget
  <2>1. \A h, d, named, prunes : BeginSave(h, d, named, prunes)
                                   => UNCHANGED <<policy, plan, override>>
    BY DEF BeginSave
  <2>2. \A c : CommitStage(c) \/ Discard(c) \/ ProposeStaged => UNCHANGED <<policy, plan, override>>
    BY DEF CommitStage, Discard, ProposeStaged
  <2>3. \A c, kind, g : CreateCategory(c, kind, g) \/ UpdateCategory(c, kind, g)
                          => UNCHANGED <<policy, plan, override>>
    BY DEF CreateCategory, UpdateCategory
  <2>4. \A c, archived : SetCategoryArchived(c, archived) => UNCHANGED <<policy, plan, override>>
    BY DEF SetCategoryArchived
  <2>5. UNCHANGED categoryVars => UNCHANGED <<policy, plan, override>>
    BY DEF categoryVars
  <2> QED
    BY <2>1, <2>2, <2>3, <2>4, <2>5 DEF CategoriesNext
<1> QED
  BY <1>1, <1>2, <1>3, <1>4, <1>5, <1>6, <1>7, <1>8, <1>9, <1>10

-------------------------------------------------------------------------------
LEMMA NamesInvHolds == CategoriesSpec => [](NamesInv /\ BudgetsInv)
<1>1. NamesInv /\ BudgetsInv /\ [CategoriesNext]_categoryVars => NamesInv' /\ BudgetsInv'
  <2> SUFFICES ASSUME NamesInv, BudgetsInv, [CategoriesNext]_categoryVars
               PROVE  NamesInv' /\ BudgetsInv'
    OBVIOUS
  <2>1. NamesInv'
    BY NextIsClean
  <2>2. CategoriesTyped /\ CategoriesTyped' /\ SaveIsGood
    BY <2>1 DEF NamesInv
  <2> QED
    BY <2>1, <2>2, NextBudgetsInv
<1> QED
  BY <1>1, CategoriesInitInv, PTL DEF CategoriesSpec

(* Every reachable state of the categories is well typed.                  *)
THEOREM CategoriesTypeCorrect == CategoriesSpec => []CategoriesTypeOK
<1>1. NamesInv => CategoriesTypeOK
  BY DEF NamesInv, CategoriesTyped
<1> QED
  BY <1>1, NamesInvHolds, PTL

(* What is budgeted for a period can be said in one way, whatever is       *)
(* merged, regrouped, deleted or budgeted again: merges compare the        *)
(* windows they bring together, and a group that is its categories added   *)
(* up holds no budget of its own.                                          *)
THEOREM BudgetedOneWay == CategoriesSpec => []OneBudgetAPeriod
<1>1. BudgetsInv => OneBudgetAPeriod
  BY DEF BudgetsInv
<1> QED
  BY <1>1, NamesInvHolds, PTL

(* A category that is deleted, pruned or merged away leaves no name of it  *)
(* in an entry, a recurrence or a template, nor in a staged row that could *)
(* be committed; and no step that files or merges ends a budget.           *)
THEOREM CategoriesAlwaysGoCleanly == CategoriesSpec => CategoriesGoCleanly
<1>1. NamesInv /\ [CategoriesNext]_categoryVars => [NothingDangles /\ BudgetsKept]_categoryVars
  BY NextIsClean
<1> QED
  BY <1>1, NamesInvHolds, PTL DEF CategoriesSpec, CategoriesGoCleanly

-------------------------------------------------------------------------------
(***************************************************************************)
(* What BudgetReports says of its figures, for every household, every plan *)
(* and every payment.  The fold over the periods is a recursive function;  *)
(* what is needed of it is that its turns follow one another.              *)
(***************************************************************************)
(* g holds, for every period up to n, the turns up to that period.         *)
Unwinds(g, book, t, first, n) ==
  g = [p \in (first - 1) .. n |-> IF p < first THEN << >> ELSE OneMore(book, t, p, g[p - 1])]

LEMMA SomethingUnwinds ==
  ASSUME NEW book, NEW t, NEW first \in Int, NEW m \in Nat
  PROVE  \E g : Unwinds(g, book, t, first, first - 1 + m)
<1> DEFINE Bad == {k \in Nat : ~ \E g : Unwinds(g, book, t, first, first - 1 + k)}
<1> SUFFICES ASSUME Bad # {} PROVE FALSE
  OBVIOUS
<1>1. PICK k \in Bad : \A j \in Bad : k <= j
  <2> HIDE DEF Bad
  <2>1. Bad \subseteq Nat
    BY DEF Bad
  <2> QED  BY <2>1, LeastNatural
<1>2. CASE k = 0
  <2> DEFINE g == [p \in (first - 1) .. (first - 1 + k) |-> << >>]
  <2>1. Unwinds(g, book, t, first, first - 1 + k)
    BY <1>2 DEF Unwinds
  <2> QED  BY <1>1, <2>1
<1>3. CASE k # 0
  <2>1. k - 1 \in Nat /\ k - 1 \notin Bad
    BY <1>1, <1>3
  <2>2. PICK h : Unwinds(h, book, t, first, first - 1 + (k - 1))
    BY <2>1
  <2> DEFINE last == first - 1 + k
  <2> DEFINE g == [p \in (first - 1) .. last |->
                     IF p < first THEN << >> ELSE OneMore(book, t, p, h[p - 1])]
  <2>3. \A p \in (first - 1) .. (last - 1) :
           h[p] = IF p < first THEN << >> ELSE OneMore(book, t, p, h[p - 1])
    BY <2>2, <1>3 DEF Unwinds
  <2>4. \A p \in (first - 1) .. (last - 1) : g[p] = h[p]
    BY <2>3
  <2>5. \A p \in (first - 1) .. last : ~ (p < first) => g[p - 1] = h[p - 1]
    <3> SUFFICES ASSUME NEW p \in (first - 1) .. last, ~ (p < first)
                 PROVE  g[p - 1] = h[p - 1]
      OBVIOUS
    <3>1. p - 1 \in (first - 1) .. (last - 1)
      OBVIOUS
    <3> HIDE DEF g
    <3> QED  BY <2>4, <3>1
  <2>6. Unwinds(g, book, t, first, last)
    BY <2>5 DEF Unwinds
  <2> QED  BY <1>1, <2>6
<1> QED  BY <1>2, <1>3

(* The turns of one target, by period.                                     *)
TurnsOf(book, t, first) ==
  [p \in first .. nowIn |-> Chain(book, t, first)[p - first + 1]]

LEMMA TurnsFollow ==
  ASSUME NEW book, NEW t, NEW first \in Int, nowIn \in Int, first <= nowIn
  PROVE  \A p \in first .. nowIn :
           TurnsOf(book, t, first)[p] =
             Turn(book, t, p, IF p = first THEN Begun ELSE TurnsOf(book, t, first)[p - 1])
<1> DEFINE f == CHOOSE g : Unwinds(g, book, t, first, nowIn)
<1> DEFINE Prior(p) == IF f[p - 1] = << >> THEN Begun ELSE f[p - 1][Len(f[p - 1])]
<1> DEFINE turn == [p \in first .. nowIn |-> Turn(book, t, p, Prior(p))]
<1> DEFINE Ts == {turn[p] : p \in first .. nowIn}
<1>1. Chain(book, t, first) = f[nowIn]
  BY DEF Chain, Unwinds
<1>2. Unwinds(f, book, t, first, nowIn)
  <2> DEFINE m == nowIn - first + 1
  <2>1. m \in Nat /\ first - 1 + m = nowIn
    OBVIOUS
  <2>2. \E g : Unwinds(g, book, t, first, first - 1 + m)
    <3> HIDE DEF m
    <3> QED  BY <2>1, SomethingUnwinds
  <2>3. \E g : Unwinds(g, book, t, first, nowIn)
    BY <2>1, <2>2
  <2> QED  BY <2>3
<1> HIDE DEF f
<1>3. f[first - 1] = << >>
  BY <1>2 DEF Unwinds
<1>4. \A p \in first .. nowIn : f[p] = Append(f[p - 1], turn[p])
  <2> TAKE p \in first .. nowIn
  <2>1. f[p] = OneMore(book, t, p, f[p - 1])
    BY <1>2 DEF Unwinds
  <2> QED  BY <2>1 DEF OneMore
<1> HIDE DEF turn
(* As many turns as periods, each in its place.                            *)
<1> DEFINE InPlace(p) == /\ f[p] \in Seq(Ts) /\ Len(f[p]) = p - first + 1
                      /\ \A q \in first .. p : f[p][q - first + 1] = turn[q]
<1>5. ASSUME NEW p \in first .. nowIn, InPlace(p - 1) PROVE InPlace(p)
  <2>1. turn[p] \in Ts
    OBVIOUS
  <2> HIDE DEF Ts
  <2>2. f[p] = Append(f[p - 1], turn[p])
    BY <1>4
  <2>3. f[p] \in Seq(Ts) /\ Len(f[p]) = p - first + 1
    <3>1. f[p - 1] \in Seq(Ts) /\ Len(f[p - 1]) = (p - 1) - first + 1
      BY <1>5
    <3>2. f[p] \in Seq(Ts) /\ Len(f[p]) = Len(f[p - 1]) + 1
      BY <2>1, <2>2, <3>1
    <3> QED  BY <3>1, <3>2
  <2>4. ASSUME NEW q \in first .. p PROVE f[p][q - first + 1] = turn[q]
    <3>1. CASE q = p
      BY <1>5, <2>1, <2>2, <3>1
    <3>2. CASE q # p
      <4>1. q \in first .. (p - 1) /\ q - first + 1 \in 1 .. Len(f[p - 1])
        BY <3>2, <1>5
      <4>2. f[p][q - first + 1] = f[p - 1][q - first + 1]
        BY <4>1, <2>1, <2>2, <1>5
      <4> QED  BY <4>1, <4>2, <1>5
    <3> QED  BY <3>1, <3>2
  <2> QED  BY <2>3, <2>4
<1>6. InPlace(first - 1)
  <2>1. << >> \in Seq(Ts) /\ Len(<< >>) = 0
    OBVIOUS
  <2>2. (first - 1) - first + 1 = 0 /\ first .. (first - 1) = {}
    OBVIOUS
  <2> HIDE DEF Ts
  <2> QED  BY <1>3, <2>1, <2>2
<1>7. \A p \in first .. nowIn : InPlace(p)
  <2> DEFINE Bad == {k \in Nat : k <= nowIn - first /\ ~ InPlace(first + k)}
  <2> SUFFICES ASSUME Bad # {} PROVE FALSE
    <3> TAKE p \in first .. nowIn
    <3> HIDE DEF InPlace
    <3>1. p - first \in Nat /\ p - first <= nowIn - first /\ first + (p - first) = p
      OBVIOUS
    <3>2. p - first \notin Bad
      OBVIOUS
    <3> QED  BY <3>1, <3>2
  <2>1. PICK k \in Bad : \A j \in Bad : k <= j
    <3>1. Bad \subseteq Nat
      OBVIOUS
    <3> HIDE DEF Bad
    <3> QED  BY <3>1, LeastNatural
  <2>2. first + k \in first .. nowIn /\ first + k - 1 = first + (k - 1) /\ k \in Nat
    OBVIOUS
  <2>3. InPlace(first + k - 1)
    <3>1. CASE k = 0
      <4>1. first + k - 1 = first - 1
        BY <3>1
      <4> HIDE DEF InPlace
      <4> QED  BY <4>1, <1>6
    <3>2. CASE k # 0
      <4> HIDE DEF InPlace
      <4>1. k - 1 \in Nat /\ k - 1 <= nowIn - first /\ k - 1 \notin Bad
        BY <3>2, <2>1
      <4> QED  BY <4>1, <2>2
    <3> QED  BY <3>1, <3>2
  <2> HIDE DEF InPlace
  <2> QED  BY <1>5, <2>1, <2>2, <2>3
<1>8. ASSUME NEW p \in first .. nowIn PROVE TurnsOf(book, t, first)[p] = turn[p]
  <2>1. nowIn \in first .. nowIn
    OBVIOUS
  <2>2. InPlace(nowIn)
    BY <1>7, <2>1
  <2>3. f[nowIn][p - first + 1] = turn[p]
    BY <2>2
  <2> QED  BY <1>1, <2>3 DEF TurnsOf
<1>9. ASSUME NEW p \in first .. nowIn
      PROVE  Prior(p) = IF p = first THEN Begun ELSE turn[p - 1]
  <2>1. CASE p = first
    BY <1>3, <2>1
  <2>2. CASE p # first
    <3>0. p - 1 \in first .. nowIn
      BY <2>2
    <3>1. InPlace(p - 1)
      <4> HIDE DEF InPlace
      <4> QED  BY <1>7, <3>0
    <3>2. Len(f[p - 1]) = p - first /\ p - first # 0 /\ p - first = (p - 1) - first + 1
      BY <3>1, <2>2
    <3>3. f[p - 1] # << >>
      BY <3>2
    <3>4. f[p - 1][p - first] = turn[p - 1]
      <4>1. p - 1 \in first .. (p - 1)
        BY <3>0
      <4> QED  BY <3>1, <3>2, <4>1
    <3> QED  BY <3>2, <3>3, <3>4, <2>2
  <2> QED  BY <2>1, <2>2
<1>10. \A p \in first .. nowIn : turn[p] = Turn(book, t, p, Prior(p))
  BY DEF turn
<1> HIDE DEF Prior
<1>11. ASSUME NEW p \in first .. nowIn
       PROVE  TurnsOf(book, t, first)[p] =
                Turn(book, t, p, IF p = first THEN Begun ELSE TurnsOf(book, t, first)[p - 1])
  <2>1. p # first => TurnsOf(book, t, first)[p - 1] = turn[p - 1]
    BY <1>8
  <2> QED  BY <1>8, <1>9, <1>10, <2>1
<1> QED  BY <1>11

(***************************************************************************)
(* The type invariant, and that every plan is one that was offered.        *)
(***************************************************************************)
ReportsInv ==
  /\ BudgetsTypeOK /\ household \in DOMAIN Households
  /\ plans \subseteq Home.offers /\ \A b \in plans : MayBudget(b.of) /\ Acceptable(b)

LEMMA ReportsBegin == BudgetsInit => ReportsInv
<1> SUFFICES ASSUME BudgetsInit PROVE ReportsInv
  OBVIOUS
<1>1. spent \in [CategoriesFiled -> [Periods -> Int]]
  BY DEF BudgetsInit
<1>2. income \in [0 .. EndOfTime -> Int] /\ entered \in [BudgetTargets -> [Periods -> Nat \cup {NoAmount}]]
  BY DEF BudgetsInit
<1>3. nowIn \in Periods /\ effort \in Nat
  BY BudgetsAssumption DEF BudgetsInit, Periods, Home
<1> QED  BY <1>1, <1>2, <1>3 DEF BudgetsInit, ReportsInv, BudgetsTypeOK

LEMMA ReportsStep == ReportsInv /\ [BudgetsNext]_budgetVars => ReportsInv'
<1> SUFFICES ASSUME ReportsInv, [BudgetsNext]_budgetVars PROVE ReportsInv'
  OBVIOUS
<1> USE DEF ReportsInv, BudgetsTypeOK, MayBudget
<1>1. CASE UNCHANGED budgetVars
  BY <1>1 DEF budgetVars, Home, Summing
<1>2. household' = household => Home' = Home /\ Summing' = Summing
  BY DEF Home, Summing
(* A plan that is written is kept apart from the others.                   *)
<1>3. ASSUME NEW b \in Home.offers, NEW others \in SUBSET plans, Writes(b, others)
      PROVE  ReportsInv'
  <2>1. \A c, d \in plans' : c = d \/ KeptApart(c, d)
    <3> SUFFICES ASSUME NEW c \in plans', NEW d \in plans', c # d PROVE KeptApart(c, d)
      OBVIOUS
    <3>1. plans' = others \cup {b} /\ \A e \in others : KeptApart(b, e)
      BY <1>3 DEF Writes
    <3>2. \A e : KeptApart(b, e) => KeptApart(e, b)
      BY DEF KeptApart
    <3> QED  BY <3>1, <3>2
  <2>2. effort' \in Nat
    BY <1>3 DEF Writes, Happens
  <2> QED  BY <1>2, <1>3, <2>1, <2>2 DEF Writes
<1>4. ASSUME NEW b \in Home.offers, CreateBudgetPlan(b) PROVE ReportsInv'
  BY <1>3, <1>4 DEF CreateBudgetPlan
<1>5. ASSUME NEW d \in plans, NEW b \in Home.offers, UpdateBudgetPlan(d, b) PROVE ReportsInv'
  <2>1. plans \ {d} \in SUBSET plans
    OBVIOUS
  <2> QED  BY <1>3, <1>5, <2>1 DEF UpdateBudgetPlan
<1>6. ASSUME NEW d \in plans, DeleteBudgetPlan(d) PROVE ReportsInv'
  BY <1>2, <1>6 DEF DeleteBudgetPlan, Happens
<1>7. ASSUME NEW t \in Home.watched, NEW p \in Periods, NEW amount \in Home.amounts,
             TypeAmount(t, p, amount)
      PROVE  ReportsInv'
  <2>1. amount \in Nat
    BY BudgetsAssumption DEF Home
  <2>2. entered' \in [BudgetTargets -> [Periods -> Nat \cup {NoAmount}]]
    BY <1>7, <2>1 DEF TypeAmount
  <2> QED  BY <1>2, <1>7, <2>2 DEF TypeAmount, Happens
<1>8. ASSUME NEW t \in Home.watched, NEW p \in Periods, UntypeAmount(t, p) PROVE ReportsInv'
  <2>1. entered' \in [BudgetTargets -> [Periods -> Nat \cup {NoAmount}]]
    BY <1>8 DEF UntypeAmount
  <2> QED  BY <1>2, <1>8, <2>1 DEF UntypeAmount, Happens
<1>9. ASSUME NEW c \in Moved, NEW p \in Periods, NEW amount \in Home.money, Spend(c, p, amount)
      PROVE  ReportsInv'
  <2>1. amount \in Int
    BY BudgetsAssumption DEF Home
  <2>2. spent' \in [CategoriesFiled -> [Periods -> Int]]
    <3>1. p \in Periods /\ spent' = [spent EXCEPT ![c] = [spent[c] EXCEPT ![p] = spent[c][p] + amount]]
      BY <1>9 DEF Spend
    <3>2. c \in CategoriesFiled => [spent[c] EXCEPT ![p] = spent[c][p] + amount] \in [Periods -> Int]
      BY <2>1
    <3> QED  BY <3>1, <3>2
  <2> QED  BY <1>2, <1>9, <2>2 DEF Spend, Happens
<1>10. ASSUME NEW p \in 0 .. EndOfTime, NEW amount \in Home.pay, Earn(p, amount)
       PROVE  ReportsInv'
  <2>1. amount \in Int
    BY BudgetsAssumption DEF Home
  <2>2. income' \in [0 .. EndOfTime -> Int]
    BY <1>10, <2>1 DEF Earn
  <2> QED  BY <1>2, <1>10, <2>2 DEF Earn, Happens
<1>11. ASSUME PeriodEnds PROVE ReportsInv'
  BY <1>2, <1>11, BudgetsAssumption DEF PeriodEnds, Periods
<1> QED  BY <1>1, <1>4, <1>5, <1>6, <1>7, <1>8, <1>9, <1>10, <1>11 DEF BudgetsNext

(* Every variable of the report keeps its type, and no two plans of one    *)
(* target ever cover the same period.                                      *)
THEOREM ReportsTypeCorrect == BudgetsSpec => []BudgetsTypeOK
<1>1. ReportsInv => BudgetsTypeOK
  BY DEF ReportsInv
<1> QED  BY ReportsBegin, ReportsStep, <1>1, PTL DEF BudgetsSpec

(***************************************************************************)
(* The first period folded is the least of those that count, so one there  *)
(* is and not after the first that is asked for.                           *)
(***************************************************************************)
LEMMA FoldFromIsLeast ==
  ASSUME NEW book, \A b \in book.plans : b.from \in Periods, NEW start \in Periods
  PROVE  /\ FoldFrom(book, start) \in Nat \ {0} /\ FoldFrom(book, start) <= start
         /\ FoldFrom(book, start) \in {b.from : b \in Carrying(book)} \cup {start}
         /\ \A b \in Carrying(book) : FoldFrom(book, start) <= b.from
<1> DEFINE S == {b.from : b \in Carrying(book)} \cup {start}
<1>1. S \subseteq Nat \ {0} /\ start \in S /\ \A b \in Carrying(book) : b.from \in S
  BY BudgetsAssumption DEF Carrying, Periods
<1>2. FoldFrom(book, start) = CHOOSE m \in S : \A y \in S : m <= y
  BY DEF FoldFrom, Min
<1> HIDE DEF S
<1>3. PICK x \in S : \A y \in S : x <= y
  <2>1. S \subseteq Nat /\ S # {}
    BY <1>1
  <2> QED  BY <2>1, LeastNatural
<1>4. FoldFrom(book, start) \in S /\ \A y \in S : FoldFrom(book, start) <= y
  BY <1>2, <1>3
<1> QED  BY <1>1, <1>4 DEF S

LEMMA FirstFolded ==
  ASSUME NEW book, \A b \in book.plans : b.from \in Periods, NEW start \in Periods
  PROVE  First(book, start) \in 1 .. start
<1>1. start \in Nat /\ FoldFrom(book, start) \in 1 .. start
  BY FoldFromIsLeast DEF Periods
<1> QED  BY <1>1, BudgetsAssumption DEF First, Clipped

(***************************************************************************)
(* What a turn reads of the book: the plans and amounts of its target, the *)
(* money spent in its own period and the income of the period before.  Its *)
(* limit does not depend on what its own period spends.                    *)
(***************************************************************************)
SameSpending(k, l, q) == \A c \in CategoriesFiled : k.spent[c][q] = l.spent[c][q]
SamePlans(k, l) == k.plans = l.plans /\ k.entered = l.entered

LEMMA SameActual ==
  ASSUME NEW k, NEW l, NEW q, SameSpending(k, l, q), NEW t \in BudgetTargets
  PROVE  Actual(k, t, q) = Actual(l, t, q)
<1>1. [c \in CategoriesFiled |-> k.spent[c][q]] = [c \in CategoriesFiled |-> l.spent[c][q]]
  BY DEF SameSpending
<1>2. t \notin Bundles => k.spent[t][q] = l.spent[t][q]
  BY DEF SameSpending, BudgetTargets
<1> QED  BY <1>1, <1>2 DEF Actual

LEMMA SameBudgeted ==
  ASSUME NEW k, NEW l, NEW q, SamePlans(k, l), NEW t
  PROVE  /\ Budgeted(k, t, q) = Budgeted(l, t, q) /\ Typed(k, t, q) = Typed(l, t, q)
         /\ Carrying(k) = Carrying(l)
<1>1. k.plans = l.plans /\ k.entered = l.entered
  BY DEF SamePlans
<1> QED  BY <1>1 DEF Budgeted, Typed, Carrying

LEMMA SameLimits ==
  ASSUME NEW k, NEW l, NEW q, SamePlans(k, l), NEW b, NEW before,
         k.income[q - 1] = l.income[q - 1]
  PROVE  Limit(k, b, q, before) = Limit(l, b, q, before)
<1>1. /\ Typed(k, b.of, q) = Typed(l, b.of, q)
      /\ Budgeted(k, b.of, q) = Budgeted(l, b.of, q)
  BY SameBudgeted
<1>2. TrailingAverage(k, b, before.history, q) = TrailingAverage(l, b, before.history, q)
  BY DEF TrailingAverage
<1>3. DerivedAmount(k, b, q, before) = DerivedAmount(l, b, q, before)
  BY <1>2 DEF DerivedAmount
<1> QED  BY <1>1, <1>3 DEF Limit

LEMMA SameTurn ==
  ASSUME NEW k, NEW l, NEW q, SamePlans(k, l), SameSpending(k, l, q),
         k.income[q - 1] = l.income[q - 1], NEW t \in BudgetTargets, NEW before
  PROVE  Turn(k, t, q, before) = Turn(l, t, q, before)
<1>1. Carrying(k) = Carrying(l) /\ Budgeted(k, t, q) = Budgeted(l, t, q)
  BY SameBudgeted
<1>2. Actual(k, t, q) = Actual(l, t, q)
  BY SameActual
<1>3. PlainRow(k, t, q) = PlainRow(l, t, q)
  BY <1>1, <1>2 DEF PlainRow
<1>4. ASSUME NEW b \in Over(Carrying(k), t, q)
      PROVE  TurnUnder(k, b, q, before) = TurnUnder(l, b, q, before)
  <2>1. b.of = t
    BY DEF Over
  <2>2. Limit(k, b, q, before) = Limit(l, b, q, before)
    BY SameLimits
  <2> QED  BY <2>1, <2>2, <1>2 DEF TurnUnder
<1> QED  BY <1>1, <1>3, <1>4 DEF Turn

Allows(turn) == turn.row.limit

LEMMA SameTurnLimit ==
  ASSUME NEW k, NEW l, NEW q, NEW t, NEW before,
         SamePlans(k, l), k.income[q - 1] = l.income[q - 1]
  PROVE  Allows(Turn(k, t, q, before)) = Allows(Turn(l, t, q, before))
<1> USE DEF Allows
<1>1. Carrying(k) = Carrying(l) /\ Budgeted(k, t, q) = Budgeted(l, t, q)
  BY SameBudgeted
<1>2. CASE Over(Carrying(k), t, q) = {}
  BY <1>1, <1>2 DEF Turn, NewChain, PlainRow
<1>3. CASE Over(Carrying(k), t, q) # {}
  <2> DEFINE b == CHOOSE b \in Over(Carrying(k), t, q) : TRUE
  <2>1. Limit(k, b, q, before) = Limit(l, b, q, before)
    BY SameLimits
  <2>2. /\ Turn(k, t, q, before) = TurnUnder(k, b, q, before)
        /\ Turn(l, t, q, before) = TurnUnder(l, b, q, before)
    BY <1>1, <1>3 DEF Turn
  <2>3. /\ TurnUnder(k, b, q, before).row.limit = Limit(k, b, q, before)
        /\ TurnUnder(l, b, q, before).row.limit = Limit(l, b, q, before)
    BY DEF TurnUnder, CarryOn
  <2> QED  BY <2>1, <2>2, <2>3
<1> QED  BY <1>2, <1>3

(***************************************************************************)
(* Two books that agree on what happened before p tell of the periods      *)
(* before p alike, and of what p may spend.                                *)
(***************************************************************************)
AgreeBefore(k, l, p) ==
  /\ SamePlans(k, l)
  /\ \A q \in 1 .. (p - 1) : SameSpending(k, l, q)
  /\ \A q \in 0 .. (p - 1) : k.income[q] = l.income[q]

LEMMA SameTurnsBefore ==
  ASSUME NEW k, NEW l, NEW p \in Int, AgreeBefore(k, l, p), NEW t \in BudgetTargets,
         NEW first \in Nat \ {0}, nowIn \in Int, first <= nowIn
  PROVE  /\ \A q \in first .. nowIn : q < p =>
              TurnsOf(k, t, first)[q] = TurnsOf(l, t, first)[q]
         /\ p \in first .. nowIn =>
              TurnsOf(k, t, first)[p].row.limit = TurnsOf(l, t, first)[p].row.limit
<1> DEFINE f == TurnsOf(k, t, first)
<1> DEFINE g == TurnsOf(l, t, first)
<1> DEFINE Early(q) == q \in first .. nowIn /\ q < p
<1>1. \A q \in first .. nowIn :
         /\ f[q] = Turn(k, t, q, IF q = first THEN Begun ELSE f[q - 1])
         /\ g[q] = Turn(l, t, q, IF q = first THEN Begun ELSE g[q - 1])
  BY TurnsFollow
<1> HIDE DEF f, g
<1>2. ASSUME NEW q \in first .. nowIn, q <= p, q = first \/ f[q - 1] = g[q - 1]
      PROVE  /\ q < p => f[q] = g[q]
             /\ q = p => f[q].row.limit = g[q].row.limit
  <2> DEFINE before == IF q = first THEN Begun ELSE f[q - 1]
  <2>1. f[q] = Turn(k, t, q, before) /\ g[q] = Turn(l, t, q, before)
    BY <1>1, <1>2
  <2> HIDE DEF before
  <2>2. SamePlans(k, l) /\ k.income[q - 1] = l.income[q - 1]
    BY <1>2 DEF AgreeBefore
  <2>3. q < p => SameSpending(k, l, q)
    BY <1>2 DEF AgreeBefore
  <2>4. q < p => Turn(k, t, q, before) = Turn(l, t, q, before)
    BY <2>2, <2>3, SameTurn
  <2>5. Allows(Turn(k, t, q, before)) = Allows(Turn(l, t, q, before))
    <3>1. SamePlans(k, l)
      BY <2>2
    <3>2. k.income[q - 1] = l.income[q - 1]
      BY <2>2
    <3> QED  BY <3>1, <3>2, SameTurnLimit
  <2> QED  BY <2>1, <2>4, <2>5 DEF Allows
<1>3. \A q \in first .. nowIn : q < p => f[q] = g[q]
  <2> DEFINE Bad == {q \in Nat : q \in first .. nowIn /\ q < p /\ f[q] # g[q]}
  <2> SUFFICES ASSUME Bad # {} PROVE FALSE
    OBVIOUS
  <2>1. PICK q \in Bad : \A j \in Bad : q <= j
    <3>1. Bad \subseteq Nat
      OBVIOUS
    <3> HIDE DEF Bad
    <3> QED  BY <3>1, LeastNatural
  <2>2. q = first \/ f[q - 1] = g[q - 1]
    <3> SUFFICES ASSUME q # first PROVE f[q - 1] = g[q - 1]
      OBVIOUS
    <3>1. q - 1 \in first .. nowIn /\ q - 1 < p /\ q - 1 \in Nat /\ ~ (q <= q - 1)
      OBVIOUS
    <3> QED  BY <2>1, <3>1
  <2> QED  BY <1>2, <2>2
<1>4. p \in first .. nowIn => f[p].row.limit = g[p].row.limit
  <2> SUFFICES ASSUME p \in first .. nowIn PROVE f[p].row.limit = g[p].row.limit
    OBVIOUS
  <2>1. p = first \/ f[p - 1] = g[p - 1]
    <3>1. p # first => p - 1 \in first .. nowIn /\ p - 1 < p
      OBVIOUS
    <3> QED  BY <1>3, <3>1
  <2> QED  BY <1>2, <2>1
<1> QED  BY <1>3, <1>4 DEF f, g

(* A row of a report is the row of a turn.                                 *)
LEMMA RowsAreTurns ==
  ASSUME NEW book, NEW start \in Int, NEW first \in Int, first <= start,
         nowIn \in Int, NEW t \in BudgetTargets, NEW p \in start .. nowIn
  PROVE  RowsFrom(book, start, first)[t][p] = TurnsOf(book, t, first)[p].row
BY DEF RowsFrom, TurnsOf

LEMMA StandsBefore ==
  ASSUME ReportsInv, NEW l, NEW p \in 1 .. nowIn, AgreeBefore(Book, l, p)
  PROVE  Stands(Folded(Book, 1), Folded(l, 1), p)
<1>1. 1 \in Periods /\ nowIn \in Periods /\ nowIn \in Nat /\ 1 <= nowIn /\ p \in Int
  BY BudgetsAssumption DEF ReportsInv, BudgetsTypeOK, Periods
<1>2. \A b \in Book.plans : b.from \in Periods
  BY BudgetsAssumption DEF ReportsInv, Home, Book, Periods, PlanFits
<1>3. l.plans = Book.plans
  BY DEF AgreeBefore, SamePlans
<1>4. First(Book, 1) = 1 /\ First(l, 1) = 1
  <2>1. First(Book, 1) \in 1 .. 1 /\ First(l, 1) \in 1 .. 1
    BY <1>1, <1>2, <1>3, FirstFolded
  <2> QED  BY <2>1
<1>5. ASSUME NEW t \in BudgetTargets, NEW q \in 1 .. nowIn
      PROVE  /\ Folded(Book, 1)[t][q] = TurnsOf(Book, t, 1)[q].row
             /\ Folded(l, 1)[t][q] = TurnsOf(l, t, 1)[q].row
  BY <1>1, <1>4, RowsAreTurns DEF Folded
<1>6. ASSUME NEW t \in BudgetTargets
      PROVE  /\ \A q \in 1 .. nowIn : q < p => TurnsOf(Book, t, 1)[q] = TurnsOf(l, t, 1)[q]
             /\ TurnsOf(Book, t, 1)[p].row.limit = TurnsOf(l, t, 1)[p].row.limit
  BY <1>1, SameTurnsBefore
<1>7. \A q \in 1 .. p - 1 : q \in 1 .. nowIn /\ q < p
  BY <1>1
<1> QED  BY <1>5, <1>6, <1>7 DEF Stands

LEMMA PaymentsComeLate ==
  ASSUME ReportsInv, NEW p \in 1 .. nowIn
  PROVE  /\ \A c, amount : AgreeBefore(Book, Spending(c, p, amount), p)
         /\ \A amount : AgreeBefore(Book, Earning(p, amount), p)
<1>1. nowIn \in Nat /\ EndOfTime \in Nat /\ nowIn <= EndOfTime /\ p \in Nat /\ p <= nowIn
  BY BudgetsAssumption DEF ReportsInv, BudgetsTypeOK, Periods
<1>2. /\ spent \in [CategoriesFiled -> [Periods -> Int]]
      /\ income \in [0 .. EndOfTime -> Int]
  BY DEF ReportsInv, BudgetsTypeOK
<1>3. ASSUME NEW c, NEW amount PROVE AgreeBefore(Book, Spending(c, p, amount), p)
  <2> DEFINE l == Spending(c, p, amount)
  <2>1. l.plans = plans /\ l.entered = entered /\ l.income = income
        /\ l.spent = [spent EXCEPT ![c][p] = @ + amount]
    BY DEF Spending, Book
  <2> HIDE DEF l
  <2>2. ASSUME NEW d \in CategoriesFiled, NEW q \in 1 .. (p - 1)
        PROVE  l.spent[d][q] = spent[d][q]
    <3>1. q # p /\ q \in Periods
      BY <1>1 DEF Periods
    <3>2. l.spent = [spent EXCEPT ![c] = [spent[c] EXCEPT ![p] = spent[c][p] + amount]]
      BY <2>1
    <3>3. spent[d] \in [Periods -> Int]
      BY <1>2
    <3> QED  BY <3>1, <3>2, <3>3, <1>2
  <2> QED  BY <2>1, <2>2 DEF l, AgreeBefore, SamePlans, SameSpending, Book
<1>4. ASSUME NEW amount PROVE AgreeBefore(Book, Earning(p, amount), p)
  <2> DEFINE l == Earning(p, amount)
  <2>1. l.plans = plans /\ l.entered = entered /\ l.spent = spent
        /\ l.income = [income EXCEPT ![p] = @ + amount]
    BY DEF Earning, Book
  <2> HIDE DEF l
  <2>2. ASSUME NEW q \in 0 .. (p - 1) PROVE l.income[q] = income[q]
    <3>1. q # p /\ q \in 0 .. EndOfTime
      BY <1>1 DEF Periods
    <3> QED  BY <2>1, <3>1, <1>2
  <2> QED  BY <2>1, <2>2 DEF l, AgreeBefore, SamePlans, SameSpending, Book
<1> QED  BY <1>3, <1>4

(***************************************************************************)
(* Money that moves in a period, late or not, leaves every figure of the   *)
(* periods before it and every limit of its own as they were.              *)
(***************************************************************************)
THEOREM ThePastStands == BudgetsSpec => []EarlierPeriodsStand
<1>1. ReportsInv => EarlierPeriodsStand
  <2> SUFFICES ASSUME ReportsInv PROVE EarlierPeriodsStand
    OBVIOUS
  <2>1. ASSUME NEW p \in 1 .. nowIn
        PROVE  /\ \A c, amount : Stands(Folded(Book, 1), Folded(Spending(c, p, amount), 1), p)
               /\ \A amount : Stands(Folded(Book, 1), Folded(Earning(p, amount), 1), p)
    BY <2>1, PaymentsComeLate, StandsBefore
  <2> QED  BY <2>1 DEF EarlierPeriodsStand
<1> QED  BY ReportsBegin, ReportsStep, <1>1, PTL DEF BudgetsSpec

(***************************************************************************)
(* The fold is about whole numbers, however it rounds: what a turn hands   *)
(* on is a carry, a history and a limit, or no limit; and no limit is less *)
(* than nothing.                                                           *)
(***************************************************************************)
BookFits(k) ==
  /\ k.spent \in [CategoriesFiled -> [Periods -> Int]]
  /\ k.income \in [0 .. EndOfTime -> Int]
  /\ k.entered \in [BudgetTargets -> [Periods -> Nat \cup {NoAmount}]]
  /\ \A b \in k.plans : PlanFits(b)

HandsOn(turn) ==
  /\ turn.carry \in Int /\ turn.history \in Seq(Int) /\ turn.limit \in Int \cup {NoAmount}

LEMMA ActualIsWhole ==
  ASSUME NEW k, BookFits(k), NEW t \in BudgetTargets, NEW q \in Periods
  PROVE  Actual(k, t, q) \in Int
<1>1. \A c \in CategoriesFiled : k.spent[c][q] \in Int
  BY DEF BookFits
<1>2. CASE t \in Bundles
  <2> DEFINE f == [c \in CategoriesFiled |-> k.spent[c][q]]
  <2>1. IsFiniteSet(Members(t)) /\ Members(t) \subseteq CategoriesFiled
    BY BudgetsAssumption, FS_Subset DEF Members, CategoriesFiled
  <2>2. \A c \in Members(t) : f[c] \in Int
    BY <1>1, <2>1
  <2> HIDE DEF f
  <2>3. SumFunctionOnSet(f, Members(t)) \in Int
    BY <2>1, <2>2, SumType
  <2> QED  BY <1>2, <2>3 DEF Actual, Total, f
<1>3. CASE t \notin Bundles
  BY <1>1, <1>3 DEF Actual, BudgetTargets
<1> QED  BY <1>2, <1>3

LEMMA RoundedIsWhole ==
  ASSUME NEW n \in Int, NEW d \in Nat \ {0}
  PROVE  Rounded(n, d) \in Int /\ (n >= 0 => Rounded(n, d) \in Nat)
<1>1. 2 * n + d \in Int /\ 2 * d \in Nat \ {0} /\ (n >= 0 => 2 * n + d >= 0)
  OBVIOUS
<1>2. \A x \in Int, y \in Nat \ {0} : x \div y \in Int /\ (x >= 0 => x \div y \in Nat)
  OBVIOUS
<1> QED  BY <1>1, <1>2 DEF Rounded

LEMMA AverageIsWhole ==
  ASSUME NEW k, NEW b, PlanFits(b), b.rule = "trailing_average", NEW history \in Seq(Int), NEW q
  PROVE  TrailingAverage(k, b, history, q) \in Nat
<1> DEFINE from == AtLeast(1, Len(history) - b.lookback + 1)
<1> DEFINE recent == SubSeq(history, from, Len(history))
<1>1. b.amount \in Nat /\ b.lookback \in Nat
  BY DEF PlanFits
<1>2. from \in Nat \ {0} /\ Len(history) \in Nat
  BY <1>1 DEF AtLeast
<1> HIDE DEF from
<1>3. recent \in Seq(Int)
  BY <1>2
<1> HIDE DEF recent
<1>4. Len(recent) \in Nat /\ (recent # << >> => Len(recent) # 0)
  BY <1>3
<1>5. SumFunction(recent) \in Int
  <2>1. DOMAIN recent = 1 .. Len(recent) /\ \A i \in DOMAIN recent : recent[i] \in Int
    BY <1>3
  <2>2. IsFiniteSet(DOMAIN recent)
    BY <2>1, <1>4, FS_Interval
  <2>3. SumFunctionOnSet(recent, DOMAIN recent) \in Int
    BY <2>1, <2>2, SumType
  <2> QED  BY <2>3 DEF SumFunction
<1>6. AtLeast(0, SumFunction(recent)) \in Nat
  BY <1>5 DEF AtLeast
<1>7. recent # << >> => Rounded(AtLeast(0, SumFunction(recent)), Len(recent)) \in Nat
  BY <1>4, <1>6, RoundedIsWhole
<1>8. TrailingAverage(k, b, history, q) =
        IF recent = << >> THEN b.amount
        ELSE Rounded(AtLeast(0, SumFunction(recent)), Len(recent))
  BY DEF TrailingAverage, recent, from
<1> QED  BY <1>1, <1>7, <1>8

LEMMA DerivedIsWhole ==
  ASSUME NEW k, BookFits(k), NEW b \in k.plans, b.rule # "fixed", NEW q \in Periods,
         NEW before, HandsOn(before)
  PROVE  DerivedAmount(k, b, q, before) \in Nat
<1>1. PlanFits(b) /\ before.carry \in Int /\ before.history \in Seq(Int)
      /\ before.limit \in Int \cup {NoAmount}
  BY DEF BookFits, HandsOn
<1>2. \A n \in Int : AtLeast(0, n) \in Nat
  BY DEF AtLeast
<1>3. CASE b.rule = "sinking_fund"
  <2>1. b.goal \in Int /\ b.date \in Int /\ q \in Int
    BY <1>1, <1>3 DEF PlanFits, Periods
  <2>2. b.date - q + 1 \in Int /\ b.goal - before.carry \in Int
    BY <1>1, <2>1
  <2>3. b.date - q + 1 > 0 /\ b.goal - before.carry > 0
          => Rounded(b.goal - before.carry, b.date - q + 1) \in Nat
    BY <2>2, RoundedIsWhole
  <2>4. SinkingFund(b, q, before.carry) \in Nat
    BY <2>2, <2>3 DEF SinkingFund
  <2> QED  BY <1>3, <2>4 DEF DerivedAmount
<1>4. CASE b.rule = "trailing_average"
  <2>1. TrailingAverage(k, b, before.history, q) \in Nat
    BY <1>1, <1>4, AverageIsWhole
  <2> QED  BY <1>4, <2>1 DEF DerivedAmount
<1>5. CASE b.rule = "incremental"
  <2>1. b.amount \in Nat /\ b.percent \in Int
    BY <1>1, <1>5 DEF PlanFits
  <2>2. ASSUME before.limit # NoAmount
        PROVE  Rounded(AtLeast(0, before.limit * (100 + b.percent)), 100) \in Nat
    <3>1. before.limit * (100 + b.percent) \in Int
      BY <1>1, <2>1, <2>2
    <3>2. AtLeast(0, before.limit * (100 + b.percent)) \in Nat
      BY <1>2, <3>1
    <3> QED  BY <3>2, RoundedIsWhole
  <2> QED  BY <1>5, <2>1, <2>2 DEF DerivedAmount
<1>6. CASE b.rule = "percent_of_income"
  <2>1. b.percent \in Int /\ k.income[q - 1] \in Int
    BY <1>1, <1>6, BudgetsAssumption DEF PlanFits, BookFits, Periods
  <2>2. k.income[q - 1] * b.percent \in Int
    BY <2>1
  <2>3. AtLeast(0, k.income[q - 1] * b.percent) \in Nat
    BY <1>2, <2>2
  <2>4. Rounded(AtLeast(0, k.income[q - 1] * b.percent), 100) \in Nat
    BY <2>3, RoundedIsWhole
  <2> QED  BY <1>6, <2>4 DEF DerivedAmount
<1> QED  BY <1>1, <1>3, <1>4, <1>5, <1>6 DEF PlanFits

LEMMA LimitIsWhole ==
  ASSUME NEW k, BookFits(k), NEW t \in BudgetTargets, NEW q \in Periods,
         NEW b \in Over(Carrying(k), t, q), NEW before, HandsOn(before)
  PROVE  Limit(k, b, q, before) \in Nat
<1>1. b \in k.plans /\ b.of = t /\ b \in Over(k.plans, t, q)
  BY DEF Over, Carrying
<1>2. k.entered[t][q] \in Nat \cup {NoAmount}
  BY DEF BookFits
<1>3. Budgeted(k, t, q) \in Nat
  <2> DEFINE d == CHOOSE d \in Over(k.plans, t, q) : TRUE
  <2>1. d \in k.plans
    BY <1>1 DEF Over
  <2>2. d.amount \in Nat
    BY <2>1 DEF BookFits, PlanFits
  <2>3. Typed(k, t, q) => k.entered[t][q] \in Nat
    BY <1>2 DEF Typed
  <2> QED  BY <1>1, <2>2, <2>3 DEF Budgeted
<1>4. b.rule # "fixed" => DerivedAmount(k, b, q, before) \in Nat
  BY <1>1, DerivedIsWhole
<1> QED  BY <1>1, <1>3, <1>4 DEF Limit

LEMMA TurnHandsOn ==
  ASSUME NEW k, BookFits(k), NEW t \in BudgetTargets, NEW q \in Periods,
         NEW before, HandsOn(before)
  PROVE  HandsOn(Turn(k, t, q, before))
<1>1. CASE Over(Carrying(k), t, q) = {}
  <2>1. \A record : HandsOn(NewChain(record))
    BY DEF HandsOn, NewChain
  <2> QED  BY <1>1, <2>1 DEF Turn
<1>2. CASE Over(Carrying(k), t, q) # {}
  <2> DEFINE b == CHOOSE b \in Over(Carrying(k), t, q) : TRUE
  <2> DEFINE limit == Limit(k, b, q, before)
  <2> DEFINE actual == Actual(k, b.of, q)
  <2>1. b \in Over(Carrying(k), t, q) /\ b.of = t /\ PlanFits(b)
    BY <1>2 DEF Over, Carrying, BookFits
  <2>2. limit \in Int
    BY <2>1, LimitIsWhole
  <2>3. actual \in Int
    BY <2>1, ActualIsWhole
  <2>4. Turn(k, t, q, before) = CarryOn(b, before, limit, actual)
    BY <1>2 DEF Turn, TurnUnder
  <2> HIDE DEF b, limit, actual
  <2>5. before.carry \in Int /\ before.history \in Seq(Int)
    BY DEF HandsOn
  <2>6. \A n \in Int : ApplyCap(b, n) \in Int
    BY <2>1 DEF ApplyCap, AtLeast, PlanFits
  <2> DEFINE available == IF b.rollover THEN limit + before.carry ELSE limit
  <2>7. available \in Int
    BY <2>2, <2>5
  <2>8. ApplyCap(b, available - actual) \in Int
    <3>1. available - actual \in Int
      BY <2>3, <2>7
    <3> HIDE DEF available
    <3> QED  BY <2>6, <3>1
  <2>9. Append(before.history, actual) \in Seq(Int)
    BY <2>3, <2>5
  <2> QED  BY <2>2, <2>4, <2>8, <2>9 DEF CarryOn, HandsOn
<1> QED  BY <1>1, <1>2

LEMMA TurnsHandOn ==
  ASSUME NEW k, BookFits(k), NEW t \in BudgetTargets, NEW first \in Nat \ {0},
         nowIn \in Periods, first <= nowIn
  PROVE  \A q \in first .. nowIn : HandsOn(TurnsOf(k, t, first)[q])
<1> DEFINE f == TurnsOf(k, t, first)
<1>1. nowIn \in Nat /\ \A q \in first .. nowIn : q \in Periods
  BY BudgetsAssumption DEF Periods
<1>2. \A q \in first .. nowIn : f[q] = Turn(k, t, q, IF q = first THEN Begun ELSE f[q - 1])
  BY <1>1, TurnsFollow
<1> HIDE DEF f
<1> DEFINE Bad == {q \in Nat : q \in first .. nowIn /\ ~ HandsOn(f[q])}
<1> SUFFICES ASSUME Bad # {} PROVE FALSE
  BY DEF f
<1>3. PICK q \in Bad : \A j \in Bad : q <= j
  <2>1. Bad \subseteq Nat
    OBVIOUS
  <2> HIDE DEF Bad
  <2> QED  BY <2>1, LeastNatural
<1>4. HandsOn(IF q = first THEN Begun ELSE f[q - 1])
  <2>1. HandsOn(Begun)
    BY DEF HandsOn, Begun, NewChain
  <2>2. CASE q # first
    <3>1. q - 1 \in first .. nowIn /\ q - 1 \in Nat /\ ~ (q <= q - 1)
      BY <1>1, <2>2
    <3> QED  BY <1>3, <2>2, <3>1
  <2> QED  BY <2>1, <2>2
<1> QED  BY <1>1, <1>2, <1>3, <1>4, TurnHandsOn

(***************************************************************************)
(* The row of an envelope: in two books with the same plans, income and    *)
(* past it holds the same before anything is spent, and that is what       *)
(* remains but for the spending of its own period.                         *)
(***************************************************************************)
Holds(rk, ak, rl, al) ==
  \E n \in Int : rk.remaining = n - ak /\ rl.remaining = n - al

LEMMA EnvelopeTurns ==
  ASSUME NEW k, NEW l, BookFits(k), SamePlans(k, l), NEW t \in BudgetTargets,
         NEW q \in Periods, k.income[q - 1] = l.income[q - 1], NEW before, HandsOn(before)
  PROVE  LET rk == Turn(k, t, q, before).row
             rl == Turn(l, t, q, before).row
         IN  /\ rl.carriedIn = rk.carriedIn
             /\ rk.carriedIn # NoAmount => Holds(rk, Actual(k, t, q), rl, Actual(l, t, q))
<1>1. Carrying(l) = Carrying(k)
  BY SameBudgeted
<1>2. CASE Over(Carrying(k), t, q) = {}
  BY <1>1, <1>2 DEF Turn, NewChain, PlainRow
<1>3. CASE Over(Carrying(k), t, q) # {}
  <2> DEFINE b == CHOOSE b \in Over(Carrying(k), t, q) : TRUE
  <2> DEFINE limit == Limit(k, b, q, before)
  <2>1. b \in Over(Carrying(k), t, q) /\ b.of = t
    BY <1>3 DEF Over
  <2>2. limit = Limit(l, b, q, before)
    BY SameLimits
  <2>3. limit \in Int /\ before.carry \in Int
    BY <2>1, LimitIsWhole DEF HandsOn
  <2>4. /\ Turn(k, t, q, before) = CarryOn(b, before, limit, Actual(k, t, q))
        /\ Turn(l, t, q, before) = CarryOn(b, before, limit, Actual(l, t, q))
    BY <1>1, <1>3, <2>1, <2>2 DEF Turn, TurnUnder
  <2> HIDE DEF b, limit
  <2>5. \A a : /\ CarryOn(b, before, limit, a).row.carriedIn =
                    IF b.rollover THEN before.carry ELSE NoAmount
               /\ b.rollover => CarryOn(b, before, limit, a).row.remaining = (limit + before.carry) - a
    BY DEF CarryOn
  <2>6. CASE b.rollover
    <3>1. limit + before.carry \in Int
      BY <2>3
    <3> QED  BY <2>4, <2>5, <2>6, <3>1 DEF Holds
  <2>7. CASE ~ b.rollover
    BY <2>4, <2>5, <2>7
  <2> QED  BY <2>6, <2>7
<1> QED  BY <1>2, <1>3

(* The groups that are their categories added up have no envelope, so what *)
(* a report says of an envelope is what the fold says of it.               *)
LEMMA FiguresOfEnvelopes ==
  ASSUME ReportsInv, NEW k, k.plans = plans, NEW p \in 1 .. nowIn, NEW t \in BudgetTargets
  PROVE  LET record == TurnsOf(k, t, First(k, p))[p].row
             figure == Figures(k, p)[t][p]
         IN  /\ figure.carriedIn = record.carriedIn
             /\ record.carriedIn # NoAmount => figure.remaining = record.remaining
<1> DEFINE record == TurnsOf(k, t, First(k, p))[p].row
<1>1. nowIn \in Nat /\ p \in Nat /\ p \in Periods /\ p \in p .. nowIn
  BY BudgetsAssumption DEF ReportsInv, BudgetsTypeOK, Periods
<1>2. First(k, p) \in 1 .. p
  BY <1>1, FirstFolded, BudgetsAssumption DEF ReportsInv, Home, PlanFits, Periods
<1>3. Folded(k, p)[t][p] = record
  BY <1>1, <1>2, RowsAreTurns DEF Folded
<1>4. Figures(k, p)[t][p] = IF t \in Bundles THEN GroupRow(k, Folded(k, p), t, p) ELSE record
  BY <1>1, <1>3 DEF Figures, WithGroups
<1>5. CASE t \notin Bundles \/ t \notin Summing
  BY <1>3, <1>4, <1>5 DEF GroupRow
<1>6. CASE t \in Bundles /\ t \in Summing
  <2>1. Over(Carrying(k), t, p) = {}
    BY <1>6, BudgetsAssumption DEF ReportsInv, MayBudget, Over, Carrying, CategoriesFiled
  <2>2. PICK before : TurnsOf(k, t, First(k, p))[p] = Turn(k, t, p, before)
    <3>1. First(k, p) \in Int /\ First(k, p) <= nowIn /\ p \in First(k, p) .. nowIn
      BY <1>1, <1>2
    <3> QED  BY <1>1, <3>1, TurnsFollow
  <2>3. record = PlainRow(k, t, p)
    BY <2>1, <2>2 DEF Turn, NewChain
  <2>4. record.carriedIn = NoAmount
    BY <2>3 DEF PlainRow
  <2>5. DOMAIN record = {"limit", "available", "priority", "carriedIn", "carriedOut", "remaining"}
    BY <2>3 DEF PlainRow
  <2> HIDE DEF record
  <2>6. \A a, b, c :
          [record EXCEPT !.limit = a, !.available = b, !.remaining = c].carriedIn = record.carriedIn
    BY <2>5
  <2>7. GroupRow(k, Folded(k, p), t, p).carriedIn = record.carriedIn
    BY <1>3, <2>6 DEF GroupRow
  <2> QED  BY <1>4, <1>6, <2>4, <2>7 DEF record
<1> QED  BY <1>5, <1>6

(***************************************************************************)
(* What one more payment of a category changes: what the category and its  *)
(* group spent in that period, and what the accounts hold.                 *)
(***************************************************************************)
Paid(c, t, amount) == IF t \in {c, Home.membership[c]} THEN amount ELSE 0

LEMMA BookIsFit ==
  ASSUME ReportsInv, NEW c \in CategoriesFiled, NEW p \in 1 .. nowIn, NEW amount \in Int
  PROVE  /\ BookFits(Book) /\ p \in Periods
         /\ LET l == Spending(c, p, amount)
            IN  /\ SamePlans(Book, l) /\ l.income = income /\ l.plans = plans
                /\ BookFits(l)
                /\ l.spent[c][p] = spent[c][p] + amount
                /\ \A d \in CategoriesFiled, q \in Periods :
                     d # c \/ q # p => l.spent[d][q] = spent[d][q]
<1> DEFINE l == Spending(c, p, amount)
<1>1. p \in Periods
  BY BudgetsAssumption DEF ReportsInv, BudgetsTypeOK, Periods
<1>2. BookFits(Book)
  BY BudgetsAssumption DEF ReportsInv, BudgetsTypeOK, BookFits, Book, Home
<1>3. /\ l.plans = plans /\ l.entered = entered /\ l.income = income
      /\ l.spent = [spent EXCEPT ![c] = [spent[c] EXCEPT ![p] = spent[c][p] + amount]]
  BY DEF Spending, Book
<1> HIDE DEF l
<1>4. spent \in [CategoriesFiled -> [Periods -> Int]]
  BY DEF ReportsInv, BudgetsTypeOK
<1>5. [spent[c] EXCEPT ![p] = spent[c][p] + amount] \in [Periods -> Int]
  BY <1>1, <1>4
<1>6. l.spent \in [CategoriesFiled -> [Periods -> Int]]
  BY <1>3, <1>4, <1>5
<1>7. BookFits(l)
  BY <1>2, <1>3, <1>6 DEF BookFits, Book
<1>8. l.spent[c][p] = spent[c][p] + amount
  BY <1>1, <1>3, <1>4
<1>9. ASSUME NEW d \in CategoriesFiled, NEW q \in Periods, d # c \/ q # p
      PROVE  l.spent[d][q] = spent[d][q]
  <2>1. CASE d # c
    BY <1>3, <1>4, <2>1
  <2>2. CASE d = c
    BY <1>3, <1>4, <1>9, <2>2
  <2> QED  BY <2>1, <2>2
<1> QED  BY <1>1, <1>2, <1>3, <1>7, <1>8, <1>9 DEF SamePlans, Book, l

LEMMA ActualAfter ==
  ASSUME ReportsInv, NEW c \in CategoriesFiled, NEW p \in 1 .. nowIn, NEW amount \in Int,
         NEW t \in BudgetTargets
  PROVE  /\ Actual(Book, t, p) \in Int
         /\ Actual(Spending(c, p, amount), t, p) = Actual(Book, t, p) + Paid(c, t, amount)
<1> DEFINE l == Spending(c, p, amount)
<1>1. /\ BookFits(Book) /\ p \in Periods /\ l.spent[c][p] = spent[c][p] + amount
      /\ \A d \in CategoriesFiled : d # c => l.spent[d][p] = spent[d][p]
  BY BookIsFit
<1> HIDE DEF l
<1>2. Actual(Book, t, p) \in Int
  BY <1>1, ActualIsWhole
<1>3. c \notin Bundles /\ Home.membership[c] \notin CategoriesFiled
  BY BudgetsAssumption DEF CategoriesFiled, ReportsInv, Home
<1>4. \A d \in CategoriesFiled : spent[d][p] \in Int
  BY <1>1 DEF BookFits, Book
<1>5. CASE t \notin Bundles
  <2>1. t \in CategoriesFiled /\ Book.spent = spent
    BY <1>5 DEF BudgetTargets, Book
  <2>2. Actual(Book, t, p) = spent[t][p] /\ Actual(l, t, p) = l.spent[t][p]
    BY <1>5, <2>1 DEF Actual
  <2>3. Paid(c, t, amount) = IF t = c THEN amount ELSE 0
    BY <1>3, <2>1 DEF Paid
  <2> QED  BY <1>1, <1>2, <1>4, <2>1, <2>2, <2>3 DEF l
<1>6. CASE t \in Bundles
  <2> DEFINE f == [d \in CategoriesFiled |-> spent[d][p]]
  <2> DEFINE g == [d \in CategoriesFiled |-> l.spent[d][p]]
  <2>1. Actual(Book, t, p) = SumFunctionOnSet(f, Members(t))
    BY <1>6 DEF Actual, Total, Book
  <2>2. Actual(l, t, p) = SumFunctionOnSet(g, Members(t))
    BY <1>6 DEF Actual, Total
  <2>3. IsFiniteSet(Members(t)) /\ Members(t) \subseteq CategoriesFiled
    BY BudgetsAssumption, FS_Subset DEF Members, CategoriesFiled
  <2>4. \A d \in Members(t) : f[d] \in Int
    BY <1>4, <2>3
  <2>5. \A d \in Members(t) : d # c => g[d] = f[d]
    BY <1>1, <2>3
  <2>6. CASE Home.membership[c] = t
    <3>1. c \in Members(t) /\ g[c] = f[c] + amount
      BY <1>1, <2>6 DEF Members
    <3> HIDE DEF f, g
    <3>2. SumFunctionOnSet(g, Members(t)) = SumFunctionOnSet(f, Members(t)) + amount
      BY <2>3, <2>4, <2>5, <3>1, SumChangedAt
    <3> QED  BY <1>2, <2>1, <2>2, <2>6, <3>2 DEF Paid, l
  <2>7. CASE Home.membership[c] # t
    <3>1. c \notin Members(t) /\ c # t
      BY <1>3, <1>6, <2>7 DEF Members
    <3> HIDE DEF f, g
    <3>2. SumFunctionOnSet(g, Members(t)) = SumFunctionOnSet(f, Members(t))
      BY <2>3, <2>5, <3>1, SumEqual
    <3>3. Paid(c, t, amount) = 0
      BY <2>7, <3>1 DEF Paid
    <3> QED  BY <1>2, <2>1, <2>2, <3>2, <3>3 DEF l
  <2> QED  BY <2>6, <2>7
<1> QED  BY <1>2, <1>5, <1>6

LEMMA PerimeterAfter ==
  ASSUME ReportsInv, NEW c \in CategoriesFiled, NEW p \in 1 .. nowIn, NEW amount \in Int
  PROVE  /\ Perimeter(Book, p) \in Int
         /\ Perimeter(Spending(c, p, amount), p) = Perimeter(Book, p) - amount
<1> DEFINE l == Spending(c, p, amount)
<1>1. /\ BookFits(Book) /\ p \in Periods /\ l.spent[c][p] = spent[c][p] + amount
      /\ l.income = income
      /\ \A d \in CategoriesFiled, q \in Periods : d # c \/ q # p => l.spent[d][q] = spent[d][q]
  BY BookIsFit
<1> HIDE DEF l
<1>2. /\ p \in Nat /\ \A q \in 1 .. p : q \in Periods
      /\ \A q \in 0 .. p : q \in 0 .. EndOfTime
  BY <1>1, BudgetsAssumption DEF Periods
<1>3. IsFiniteSet(CategoriesFiled) /\ IsFiniteSet(1 .. p) /\ IsFiniteSet(0 .. p)
  BY <1>2, BudgetsAssumption, FS_Interval DEF CategoriesFiled
<1>4. ASSUME NEW q \in 1 .. p
      PROVE  /\ SpentIn(Book, q) \in Int
             /\ SpentIn(l, q) = SpentIn(Book, q) + (IF q = p THEN amount ELSE 0)
  <2> DEFINE f == [d \in CategoriesFiled |-> spent[d][q]]
  <2> DEFINE g == [d \in CategoriesFiled |-> l.spent[d][q]]
  <2>1. SpentIn(Book, q) = SumFunctionOnSet(f, CategoriesFiled)
    BY DEF SpentIn, Total, Book
  <2>2. SpentIn(l, q) = SumFunctionOnSet(g, CategoriesFiled)
    BY DEF SpentIn, Total
  <2>3. \A d \in CategoriesFiled : f[d] \in Int
    BY <1>1, <1>2 DEF BookFits, Book
  <2>4. \A d \in CategoriesFiled : d # c \/ q # p => g[d] = f[d]
    BY <1>1, <1>2
  <2>5. q = p => g[c] = f[c] + amount
    BY <1>1
  <2> HIDE DEF f, g
  <2>6. SumFunctionOnSet(f, CategoriesFiled) \in Int
    BY <1>3, <2>3, SumType
  <2>7. q = p => SumFunctionOnSet(g, CategoriesFiled) = SumFunctionOnSet(f, CategoriesFiled) + amount
    BY <1>3, <2>3, <2>4, <2>5, SumChangedAt
  <2>8. q # p => SumFunctionOnSet(g, CategoriesFiled) = SumFunctionOnSet(f, CategoriesFiled)
    BY <1>3, <2>4, SumEqual
  <2> QED  BY <2>1, <2>2, <2>6, <2>7, <2>8
<1> DEFINE f == [q \in 1 .. p |-> SpentIn(Book, q)]
<1> DEFINE g == [q \in 1 .. p |-> SpentIn(l, q)]
<1>5. /\ p \in 1 .. p /\ (\A q \in 1 .. p : f[q] \in Int) /\ g[p] = f[p] + amount
      /\ \A q \in (1 .. p) \ {p} : g[q] = f[q]
  BY <1>2, <1>4 DEF Periods
<1>6. SumFunctionOnSet(g, 1 .. p) = SumFunctionOnSet(f, 1 .. p) + amount
  <2> HIDE DEF f, g
  <2> QED  BY <1>3, <1>5, SumChangedAt
<1>7. SumFunctionOnSet(f, 1 .. p) \in Int
  <2> HIDE DEF f
  <2> QED  BY <1>3, <1>5, SumType
<1>8. SumFunctionOnSet(income, 0 .. p) \in Int
  <2>1. \A q \in 0 .. p : income[q] \in Int
    BY <1>2 DEF ReportsInv, BudgetsTypeOK
  <2> QED  BY <1>3, <2>1, SumType
<1>9. Perimeter(Book, p) = SumFunctionOnSet(income, 0 .. p) - SumFunctionOnSet(f, 1 .. p)
  BY DEF Perimeter, Total, Book
<1>10. Perimeter(l, p) = SumFunctionOnSet(income, 0 .. p) - SumFunctionOnSet(g, 1 .. p)
  BY <1>1 DEF Perimeter, Total
<1> HIDE DEF f, g
<1> QED  BY <1>6, <1>7, <1>8, <1>9, <1>10 DEF l

(***************************************************************************)
(* What the envelopes claim goes down by what was paid out of one of them, *)
(* also where the group of that category has an envelope of its own: both  *)
(* hold less, and what the group claims beyond its categories is the same. *)
(***************************************************************************)
PaysOut(R, S, p, c, amount) ==
  /\ Envelope(R[c][p])
  /\ \A t \in BudgetTargets : S[t][p].carriedIn = R[t][p].carriedIn
  /\ \A t \in BudgetTargets : Envelope(R[t][p]) =>
        /\ R[t][p].remaining \in Int
        /\ S[t][p].remaining = R[t][p].remaining - Paid(c, t, amount)
  /\ \A t \in BudgetTargets \cap {c, Home.membership[c]} : Envelope(R[t][p]) =>
        R[t][p].remaining >= 0 /\ S[t][p].remaining >= 0

LEMMA ClaimedAfter ==
  ASSUME NEW R, NEW S, NEW p, NEW c \in CategoriesFiled, NEW amount \in Int,
         household \in DOMAIN Households, PaysOut(R, S, p, c, amount)
  PROVE  Claimed(R, p) \in Int /\ Claimed(S, p) = Claimed(R, p) - amount
<1> DEFINE E == {t \in BudgetTargets : Envelope(R[t][p])}
<1> DEFINE f == [t \in E |-> Positive(R[t][p])]
<1> DEFINE g == [t \in E |-> Positive(S[t][p])]
<1>1. {t \in BudgetTargets : Envelope(S[t][p])} = E
  BY DEF Envelope, PaysOut
<1>2. c \in E /\ c \notin Bundles /\ E \subseteq BudgetTargets
  BY BudgetsAssumption DEF BudgetTargets, CategoriesFiled, PaysOut
<1>3. \A d \in CategoriesFiled : Home.membership[d] \notin CategoriesFiled
  BY BudgetsAssumption DEF Home, CategoriesFiled
<1>4. IsFiniteSet(E \ Bundles) /\ IsFiniteSet(E \cap Bundles) /\ E \ Bundles \subseteq CategoriesFiled
  BY BudgetsAssumption, FS_Subset DEF BudgetTargets, CategoriesFiled
<1>5. \A t \in E : f[t] \in Int /\ g[t] = f[t] - Paid(c, t, amount)
  <2> TAKE t \in E
  <2>1. R[t][p].remaining \in Int /\ S[t][p].remaining = R[t][p].remaining - Paid(c, t, amount)
    BY DEF PaysOut
  <2>2. f[t] = AtLeast(0, R[t][p].remaining) /\ g[t] = AtLeast(0, S[t][p].remaining)
    BY DEF Positive
  <2>3. CASE t \in {c, Home.membership[c]}
    <3>1. R[t][p].remaining >= 0 /\ S[t][p].remaining >= 0
      BY <1>2, <2>3 DEF PaysOut
    <3>2. Paid(c, t, amount) = amount
      BY <2>3 DEF Paid
    <3> HIDE DEF f, g
    <3> QED  BY <2>1, <2>2, <3>1, <3>2 DEF AtLeast
  <2>4. CASE t \notin {c, Home.membership[c]}
    <3>1. Paid(c, t, amount) = 0
      BY <2>4 DEF Paid
    <3> HIDE DEF f, g
    <3> QED  BY <2>1, <2>2, <3>1 DEF AtLeast
  <2> QED  BY <2>3, <2>4
<1> DEFINE Extra(h, t) == AtLeast(0, h[t] - Total(h, Members(t) \cap E))
<1> DEFINE x == [t \in E \cap Bundles |-> Extra(f, t)]
<1> DEFINE y == [t \in E \cap Bundles |-> Extra(g, t)]
<1>6. Claimed(R, p) = SumFunctionOnSet(f, E \ Bundles) + SumFunctionOnSet(x, E \cap Bundles)
  BY DEF Claimed, Total
<1>7. Claimed(S, p) = SumFunctionOnSet(g, E \ Bundles) + SumFunctionOnSet(y, E \cap Bundles)
  BY <1>1 DEF Claimed, Total
<1> HIDE DEF E, f, g
(* The categories.                                                         *)
<1>8. SumFunctionOnSet(g, E \ Bundles) = SumFunctionOnSet(f, E \ Bundles) + (-amount)
  <2>1. c \in E \ Bundles
    BY <1>2
  <2>2. Paid(c, c, amount) = amount /\ \A d \in (E \ Bundles) \ {c} : Paid(c, d, amount) = 0
    BY <1>3, <1>4 DEF Paid
  <2>3. g[c] = f[c] + (-amount) /\ \A d \in (E \ Bundles) \ {c} : g[d] = f[d]
    BY <1>2, <1>5, <2>2
  <2>4. -amount \in Int /\ \A d \in E \ Bundles : f[d] \in Int
    BY <1>5
  <2>5. IsFiniteSet(E \ Bundles)
    BY <1>4
  <2> DEFINE A == E \ Bundles
  <2> HIDE DEF A
  <2>6. SumFunctionOnSet(g, A) = SumFunctionOnSet(f, A) + (-amount)
    <3>1. c \in A /\ IsFiniteSet(A) /\ -amount \in Int /\ g[c] = f[c] + (-amount)
      BY <2>1, <2>3, <2>4, <2>5 DEF A
    <3>2. (\A d \in A : f[d] \in Int) /\ \A d \in A \ {c} : g[d] = f[d]
      BY <2>3, <2>4 DEF A
    <3> QED  BY <3>1, <3>2, SumChangedAt
  <2> QED  BY <2>6 DEF A
(* The groups, each beyond its categories.                                 *)
<1>9. ASSUME NEW t \in E \cap Bundles PROVE x[t] \in Int /\ y[t] = x[t]
  <2> DEFINE M == Members(t) \cap E
  <2>1. IsFiniteSet(M) /\ M \subseteq CategoriesFiled
    BY BudgetsAssumption, FS_Subset DEF Members, CategoriesFiled
  <2>2. \A d \in M : f[d] \in Int
    BY <1>5
  <2>3. SumFunctionOnSet(f, M) \in Int /\ f[t] \in Int
    BY <1>5, <2>1, <2>2, SumType
  <2>4. \A d \in M : g[d] = IF d = c THEN f[d] + (-amount) ELSE f[d]
    <3>1. \A d \in M : Paid(c, d, amount) = IF d = c THEN amount ELSE 0
      BY <1>3, <2>1 DEF Paid
    <3> QED  BY <1>5, <2>2, <3>1
  <2>5. CASE Home.membership[c] = t
    <3>1. c \in M
      BY <1>2, <2>5 DEF Members
    <3>2. SumFunctionOnSet(g, M) = SumFunctionOnSet(f, M) + (-amount)
      <4> HIDE DEF M
      <4>1. -amount \in Int
        OBVIOUS
      <4>2. g[c] = f[c] + (-amount) /\ \A d \in M \ {c} : g[d] = f[d]
        BY <2>4, <3>1
      <4> QED  BY <2>1, <2>2, <3>1, <4>1, <4>2, SumChangedAt
    <3>3. g[t] = f[t] - amount
      BY <1>5, <2>5 DEF Paid
    <3>4. g[t] - SumFunctionOnSet(g, M) = f[t] - SumFunctionOnSet(f, M)
      <4> HIDE DEF M
      <4> QED  BY <2>3, <3>2, <3>3
    <3> QED  BY <2>3, <3>4 DEF Total, AtLeast
  <2>6. CASE Home.membership[c] # t
    <3>1. c \notin M /\ c # t
      BY <1>2, <2>6 DEF Members
    <3>2. SumFunctionOnSet(g, M) = SumFunctionOnSet(f, M)
      <4> HIDE DEF M
      <4> QED  BY <2>1, <2>4, <3>1, SumEqual
    <3>3. g[t] = f[t]
      BY <1>5, <2>3, <2>6, <3>1 DEF Paid
    <3> QED  BY <2>3, <3>2, <3>3 DEF Total, AtLeast
  <2> QED  BY <2>5, <2>6
<1> HIDE DEF x, y
<1>10. SumFunctionOnSet(x, E \cap Bundles) = SumFunctionOnSet(y, E \cap Bundles)
  BY <1>4, <1>9, SumEqual
<1>11. /\ SumFunctionOnSet(x, E \cap Bundles) \in Int
       /\ SumFunctionOnSet(f, E \ Bundles) \in Int
  BY <1>4, <1>5, <1>9, SumType
<1> QED  BY <1>6, <1>7, <1>8, <1>10, <1>11

LEMMA EnvelopePays ==
  ASSUME ReportsInv, NEW c \in Moved, NEW amount \in Home.money, NEW p \in 1 .. nowIn
  PROVE  LET l == Spending(c, p, amount)
         IN  PaysItsOwnWay(c, p, Figures(Book, p), l, Figures(l, p))
<1> DEFINE l == Spending(c, p, amount)
<1> DEFINE R == Figures(Book, p)
<1> DEFINE S == Figures(l, p)
<1> DEFINE payers == {t \in {c, Home.membership[c]} \cap BudgetTargets : Envelope(R[t][p])}
<1>1. c \in CategoriesFiled /\ amount \in Int /\ household \in DOMAIN Households
  BY BudgetsAssumption DEF ReportsInv, Moved, Home, CategoriesFiled
<1>2. /\ BookFits(Book) /\ p \in Periods /\ SamePlans(Book, l)
      /\ l.income = income /\ l.plans = plans
  BY <1>1, BookIsFit
<1>3. AgreeBefore(Book, l, p)
  BY PaymentsComeLate
<1> HIDE DEF l
<1> DEFINE first == First(Book, p)
<1>4. First(l, p) = first
  BY <1>2 DEF SamePlans, First, Clipped, FoldFrom, Carrying
<1>5. /\ nowIn \in Nat /\ nowIn \in Periods /\ p \in Nat /\ first \in Nat \ {0} /\ first <= p
      /\ p \in first .. nowIn /\ first <= nowIn
  <2>1. first \in 1 .. p
    BY <1>2, FirstFolded, BudgetsAssumption DEF BookFits, PlanFits, Periods
  <2>2. nowIn \in Periods /\ nowIn \in Nat
    BY BudgetsAssumption DEF ReportsInv, BudgetsTypeOK, Periods
  <2> HIDE DEF first
  <2> QED  BY <2>1, <2>2
<1> HIDE DEF first
<1>6. ASSUME NEW t \in BudgetTargets
      PROVE  /\ S[t][p].carriedIn = R[t][p].carriedIn
             /\ Envelope(R[t][p]) =>
                  /\ R[t][p].remaining \in Int
                  /\ S[t][p].remaining = R[t][p].remaining - Paid(c, t, amount)
  <2> DEFINE before == IF p = first THEN Begun ELSE TurnsOf(Book, t, first)[p - 1]
  <2>1. TurnsOf(Book, t, first)[p] = Turn(Book, t, p, before)
    BY <1>5, TurnsFollow
  <2>2. TurnsOf(l, t, first)[p] = Turn(l, t, p, before)
    <3>1. TurnsOf(l, t, first)[p] =
            Turn(l, t, p, IF p = first THEN Begun ELSE TurnsOf(l, t, first)[p - 1])
      BY <1>5, TurnsFollow
    <3>2. p # first => TurnsOf(Book, t, first)[p - 1] = TurnsOf(l, t, first)[p - 1]
      <4>1. p # first => p - 1 \in first .. nowIn /\ p - 1 < p
        BY <1>5
      <4> QED  BY <1>3, <1>5, <4>1, SameTurnsBefore
    <3> QED  BY <3>1, <3>2
  <2>3. HandsOn(before)
    <3>1. HandsOn(Begun)
      BY DEF HandsOn, Begun, NewChain
    <3>2. p # first => p - 1 \in first .. nowIn
      BY <1>5
    <3>3. p # first => HandsOn(TurnsOf(Book, t, first)[p - 1])
      BY <1>2, <1>5, <3>2, TurnsHandOn
    <3> QED  BY <3>1, <3>3
  <2> HIDE DEF before
  <2> DEFINE rk == Turn(Book, t, p, before).row
  <2> DEFINE rl == Turn(l, t, p, before).row
  <2>4. /\ rl.carriedIn = rk.carriedIn
        /\ rk.carriedIn # NoAmount => Holds(rk, Actual(Book, t, p), rl, Actual(l, t, p))
    <3>1. Book.income[p - 1] = l.income[p - 1]
      BY <1>2 DEF Book
    <3> QED  BY <1>2, <2>3, <3>1, EnvelopeTurns
  <2>5. /\ R[t][p].carriedIn = rk.carriedIn
        /\ rk.carriedIn # NoAmount => R[t][p].remaining = rk.remaining
    <3>1. Book.plans = plans
      BY DEF Book
    <3> QED  BY <2>1, <3>1, FiguresOfEnvelopes DEF first
  <2>6. /\ S[t][p].carriedIn = rl.carriedIn
        /\ rl.carriedIn # NoAmount => S[t][p].remaining = rl.remaining
    BY <1>2, <1>4, <2>2, FiguresOfEnvelopes
  <2>7. Actual(Book, t, p) \in Int /\ Actual(l, t, p) = Actual(Book, t, p) + Paid(c, t, amount)
    BY <1>1, ActualAfter DEF l
  <2>8. Paid(c, t, amount) \in Int
    BY <1>1 DEF Paid
  <2> HIDE DEF rk, rl, R, S
  <2> QED  BY <2>4, <2>5, <2>6, <2>7, <2>8 DEF Envelope, Holds
<1> HIDE DEF R, S
<1>7. /\ Perimeter(Book, p) \in Int /\ Perimeter(l, p) = Perimeter(Book, p) - amount
  BY <1>1, PerimeterAfter DEF l
<1> SUFFICES ASSUME c \in payers,
                    \A t \in payers : R[t][p].remaining >= 0 /\ S[t][p].remaining >= 0
             PROVE  ToAssign(l, S, p) = ToAssign(Book, R, p)
  BY DEF PaysItsOwnWay, R, S, l
<1>8. Claimed(R, p) \in Int /\ Claimed(S, p) = Claimed(R, p) - amount
  <2>1. Envelope(R[c][p])
    OBVIOUS
  <2>2. \A t \in BudgetTargets \cap {c, Home.membership[c]} : Envelope(R[t][p]) =>
            R[t][p].remaining >= 0 /\ S[t][p].remaining >= 0
    OBVIOUS
  <2>3. \A t \in BudgetTargets : S[t][p].carriedIn = R[t][p].carriedIn
    BY <1>6
  <2>4. \A t \in BudgetTargets : Envelope(R[t][p]) =>
            /\ R[t][p].remaining \in Int
            /\ S[t][p].remaining = R[t][p].remaining - Paid(c, t, amount)
    BY <1>6
  <2> HIDE DEF payers
  <2>5. PaysOut(R, S, p, c, amount)
    BY <2>1, <2>2, <2>3, <2>4 DEF PaysOut
  <2> QED  BY <1>1, <2>5, ClaimedAfter
<1> QED  BY <1>1, <1>7, <1>8 DEF ToAssign

(***************************************************************************)
(* Money spent out of an envelope that holds it is not money that still    *)
(* can be assigned, before or after: the accounts and the claim of the     *)
(* envelope go down together.                                              *)
(***************************************************************************)
THEOREM EnvelopesPay == BudgetsSpec => []EnvelopesPayTheirOwnWay
<1>1. ReportsInv => EnvelopesPayTheirOwnWay
  BY EnvelopePays DEF EnvelopesPayTheirOwnWay
<1> QED  BY ReportsBegin, ReportsStep, <1>1, PTL DEF BudgetsSpec

(***************************************************************************)
(* A report that starts earlier folds periods that no plan carries through *)
(* or the very same ones, so it comes to the same figures.                 *)
(***************************************************************************)
LEMMA TurnReads ==
  ASSUME NEW k, NEW t, NEW q, NEW x, NEW y,
         x.carry = y.carry, x.history = y.history, x.limit = y.limit
  PROVE  Turn(k, t, q, x) = Turn(k, t, q, y)
<1>1. ASSUME NEW b PROVE TurnUnder(k, b, q, x) = TurnUnder(k, b, q, y)
  <2>1. DerivedAmount(k, b, q, x) = DerivedAmount(k, b, q, y)
    BY DEF DerivedAmount
  <2>2. Limit(k, b, q, x) = Limit(k, b, q, y)
    BY <2>1 DEF Limit
  <2>3. \A limit, actual : CarryOn(b, x, limit, actual) = CarryOn(b, y, limit, actual)
    BY DEF CarryOn
  <2> QED  BY <2>2, <2>3 DEF TurnUnder
<1> QED  BY <1>1 DEF Turn

LEMMA SameTail ==
  ASSUME NEW k, NEW t, NEW early \in Nat, NEW late \in Nat, nowIn \in Nat,
         early <= late, late <= nowIn,
         \A q \in early .. (late - 1) : Over(Carrying(k), t, q) = {}
  PROVE  \A q \in late .. nowIn : TurnsOf(k, t, early)[q] = TurnsOf(k, t, late)[q]
<1> SUFFICES ASSUME early < late
             PROVE  \A q \in late .. nowIn : TurnsOf(k, t, early)[q] = TurnsOf(k, t, late)[q]
  OBVIOUS
<1> DEFINE f == TurnsOf(k, t, early)
<1> DEFINE g == TurnsOf(k, t, late)
<1>1. \A q \in early .. nowIn : f[q] = Turn(k, t, q, IF q = early THEN Begun ELSE f[q - 1])
  BY TurnsFollow
<1>2. \A q \in late .. nowIn : g[q] = Turn(k, t, q, IF q = late THEN Begun ELSE g[q - 1])
  BY TurnsFollow
<1> HIDE DEF f, g
<1>3. f[late] = g[late]
  <2>1. late - 1 \in early .. nowIn /\ late - 1 \in early .. (late - 1)
        /\ late \in early .. nowIn /\ late \in late .. nowIn
    OBVIOUS
  <2>2. f[late - 1] = NewChain(PlainRow(k, t, late - 1))
    BY <1>1, <2>1 DEF Turn
  <2>3. /\ f[late - 1].carry = Begun.carry /\ f[late - 1].history = Begun.history
        /\ f[late - 1].limit = Begun.limit
    BY <2>2 DEF Begun, NewChain
  <2>4. f[late] = Turn(k, t, late, f[late - 1]) /\ g[late] = Turn(k, t, late, Begun)
    BY <1>1, <1>2, <2>1
  <2> QED  BY <2>3, <2>4, TurnReads
<1> DEFINE Bad == {q \in Nat : q \in late .. nowIn /\ f[q] # g[q]}
<1> SUFFICES ASSUME Bad # {} PROVE FALSE
  BY DEF f, g
<1>4. PICK q \in Bad : \A j \in Bad : q <= j
  <2>1. Bad \subseteq Nat
    OBVIOUS
  <2> HIDE DEF Bad
  <2> QED  BY <2>1, LeastNatural
<1>5. q # late
  BY <1>3
<1>6. q - 1 \in late .. nowIn /\ q - 1 \in Nat /\ ~ (q <= q - 1) /\ q \in early .. nowIn /\ q # early
  BY <1>5
<1>7. f[q - 1] = g[q - 1]
  BY <1>4, <1>6
<1> QED  BY <1>1, <1>2, <1>5, <1>6, <1>7

LEMMA FoldsAgree ==
  ASSUME ReportsInv, NEW s \in 1 .. nowIn, NEW r \in 1 .. nowIn, s < r, ~ Clipped(Book, r),
         NEW t \in BudgetTargets, NEW p \in r .. nowIn
  PROVE  Folded(Book, s)[t][p] = Folded(Book, r)[t][p]
<1> DEFINE early == First(Book, s)
<1> DEFINE late == First(Book, r)
<1>1. nowIn \in Nat /\ s \in Nat /\ r \in Nat /\ s \in Periods /\ r \in Periods
  BY BudgetsAssumption DEF ReportsInv, BudgetsTypeOK, Periods
<1>2. \A b \in Book.plans : b.from \in Periods
  BY BudgetsAssumption DEF ReportsInv, Home, Book, PlanFits, Periods
<1>3. \A u \in {s, r} : /\ FoldFrom(Book, u) \in Nat
                        /\ FoldFrom(Book, u) \in {b.from : b \in Carrying(Book)} \cup {u}
                        /\ FoldFrom(Book, u) <= u
                        /\ \A b \in Carrying(Book) : FoldFrom(Book, u) <= b.from
  BY <1>1, <1>2, FoldFromIsLeast
<1>4. late = FoldFrom(Book, r) /\ r - FoldFrom(Book, r) <= MaxRollover
  BY <1>1, <1>3, BudgetsAssumption DEF First, Clipped
<1>5. early = FoldFrom(Book, s) /\ early <= late
  <2>1. FoldFrom(Book, s) <= FoldFrom(Book, r)
    BY <1>1, <1>3
  <2>2. s - FoldFrom(Book, s) <= MaxRollover
    <3>1. FoldFrom(Book, s) = s \/ FoldFrom(Book, r) <= FoldFrom(Book, s)
      BY <1>3
    <3> QED  BY <1>1, <1>3, <1>4, <2>1, <3>1, BudgetsAssumption
  <2> QED  BY <1>1, <1>3, <1>4, <2>1, <2>2, BudgetsAssumption DEF First, Clipped
<1>6. early \in Nat /\ late \in Nat /\ early <= s /\ late <= r
  BY <1>3, <1>4, <1>5
<1>7. \A q \in early .. (late - 1) : Over(Carrying(Book), t, q) = {}
  <2>1. \A b \in Carrying(Book) : late <= b.from /\ b.from \in Nat
    BY <1>2, <1>3, <1>4 DEF Carrying, Periods
  <2> QED  BY <1>6, <2>1 DEF Over, Covers
<1> HIDE DEF early, late
<1>8. p \in late .. nowIn /\ p \in s .. nowIn /\ late <= nowIn
  BY <1>1, <1>6
<1>9. TurnsOf(Book, t, early)[p] = TurnsOf(Book, t, late)[p]
  BY <1>1, <1>5, <1>6, <1>7, <1>8, SameTail
<1>10. Folded(Book, s)[t][p] = TurnsOf(Book, t, early)[p].row
  BY <1>1, <1>6, <1>8, RowsAreTurns DEF Folded, early
<1>11. Folded(Book, r)[t][p] = TurnsOf(Book, t, late)[p].row
  BY <1>1, <1>6, RowsAreTurns DEF Folded, late
<1> QED  BY <1>9, <1>10, <1>11

LEMMA GroupsAgree ==
  ASSUME NEW k, NEW R, NEW S, NEW p, NEW g \in Bundles,
         \A t \in BudgetTargets : R[t][p] = S[t][p]
  PROVE  GroupRow(k, R, g, p) = GroupRow(k, S, g, p)
<1>1. Members(g) \subseteq BudgetTargets /\ g \in BudgetTargets
  BY DEF Members, BudgetTargets
<1> DEFINE B(rows) == {c \in Members(g) : rows[c][p].limit # NoAmount}
<1> DEFINE Sums(rows, figure) == Total([c \in B(rows) |-> rows[c][p][figure]], B(rows))
<1>2. B(R) = B(S)
  BY <1>1
<1>3. ASSUME NEW figure PROVE Sums(R, figure) = Sums(S, figure)
  <2>1. [c \in B(R) |-> R[c][p][figure]] = [c \in B(S) |-> S[c][p][figure]]
    BY <1>1, <1>2
  <2> HIDE DEF B
  <2> QED  BY <1>2, <2>1
<1>4. \A rows : GroupRow(k, rows, g, p) =
        IF g \notin Summing \/ B(rows) = {} THEN rows[g][p]
        ELSE [rows[g][p] EXCEPT
               !.limit = Sums(rows, "limit"), !.available = Sums(rows, "available"),
               !.remaining = Sums(rows, "available") - Actual(k, g, p)]
  BY DEF GroupRow
<1>5. R[g][p] = S[g][p]
  BY <1>1
<1>6. /\ Sums(R, "limit") = Sums(S, "limit")
      /\ Sums(R, "available") = Sums(S, "available")
  BY <1>3
<1> HIDE DEF B, Sums
<1>7. CASE g \notin Summing \/ B(R) = {}
  <2>1. GroupRow(k, R, g, p) = R[g][p]
    BY <1>4, <1>7
  <2>2. GroupRow(k, S, g, p) = S[g][p]
    BY <1>2, <1>4, <1>7
  <2> QED  BY <1>5, <2>1, <2>2
<1>8. CASE ~ (g \notin Summing \/ B(R) = {})
  <2>1. GroupRow(k, R, g, p) =
          [R[g][p] EXCEPT !.limit = Sums(R, "limit"), !.available = Sums(R, "available"),
                          !.remaining = Sums(R, "available") - Actual(k, g, p)]
    BY <1>4, <1>8
  <2>2. GroupRow(k, S, g, p) =
          [S[g][p] EXCEPT !.limit = Sums(S, "limit"), !.available = Sums(S, "available"),
                          !.remaining = Sums(S, "available") - Actual(k, g, p)]
    BY <1>2, <1>4, <1>8
  <2> QED  BY <1>5, <1>6, <2>1, <2>2
<1> QED  BY <1>7, <1>8

LEMMA EveryRangeAgrees == ASSUME ReportsInv PROVE ReportsAgree
<1> SUFFICES ASSUME NEW s \in 1 .. nowIn, NEW r \in 1 .. nowIn, s < r, ~ Clipped(Book, r),
                    NEW t \in BudgetTargets, NEW p \in r .. nowIn
             PROVE  Figures(Book, s)[t][p] = Figures(Book, r)[t][p]
  BY DEF ReportsAgree, Agree
<1>1. nowIn \in Nat /\ p \in s .. nowIn
  BY BudgetsAssumption DEF ReportsInv, BudgetsTypeOK, Periods
<1>2. \A u \in BudgetTargets : Folded(Book, s)[u][p] = Folded(Book, r)[u][p]
  BY FoldsAgree
<1>3. \A u \in Bundles : GroupRow(Book, Folded(Book, s), u, p) = GroupRow(Book, Folded(Book, r), u, p)
  BY <1>2, GroupsAgree
<1> QED  BY <1>1, <1>2, <1>3 DEF Figures, WithGroups

(***************************************************************************)
(* What a fund asks for is a quotient, to the nearest: it stays between    *)
(* the same two neighbours for as long as nothing is drawn from it.        *)
(***************************************************************************)
Share(n, d) == IF n <= 0 THEN 0 ELSE Rounded(n, d)

LEMMA QuotientBounds ==
  ASSUME NEW n \in Int, NEW d \in Nat \ {0}
  PROVE  n \div d \in Int /\ d * (n \div d) <= n /\ n < d * (n \div d) + d
OBVIOUS

LEMMA TimesMonotonic ==
  ASSUME NEW a \in Int, NEW b \in Int, NEW d \in Nat, a <= b
  PROVE  d * a <= d * b
OBVIOUS

LEMMA Distributes ==
  ASSUME NEW m \in Int, NEW d \in Int
  PROVE  /\ (m + 1) * d = m * d + d /\ m * (d - 1) = m * d - m /\ d * m = m * d
         /\ (m + 1) * (d - 1) = m * d + d - m - 1
         /\ (2 * d) * m = 2 * (m * d) /\ (2 * d) * (m + 1) = 2 * (m * d) + 2 * d
         /\ (2 * d) * (m + 2) = 2 * (m * d) + 4 * d /\ (2 * d) * (m - 1) = 2 * (m * d) - 2 * d
OBVIOUS

LEMMA EvenShare ==
  ASSUME NEW n \in Int, NEW d \in Nat \ {0}, NEW m \in Nat, m * d <= n, n <= (m + 1) * d
  PROVE  /\ Share(n, d) \in {m, m + 1}
         /\ m * (d - 1) <= n - Share(n, d) /\ n - Share(n, d) <= (m + 1) * (d - 1)
<1> DEFINE a == Share(n, d)
<1>1. /\ (m + 1) * d = m * d + d /\ m * (d - 1) = m * d - m /\ m * d = d * m
      /\ (m + 1) * (d - 1) = m * d + d - m - 1 /\ m * d \in Int
  BY Distributes
<1>2. CASE n <= 0
  <2>1. d * 0 <= d * m /\ d * 0 = 0
    BY TimesMonotonic
  <2>2. m * d = 0 /\ n = 0
    BY <1>1, <1>2, <2>1
  <2>3. m = 0
    <3> SUFFICES ASSUME 1 <= m PROVE FALSE
      OBVIOUS
    <3>1. d * 1 <= d * m /\ d * 1 = d
      BY TimesMonotonic
    <3> QED  BY <1>1, <2>2, <3>1
  <2> QED  BY <1>1, <1>2, <2>2, <2>3 DEF Share
<1>3. CASE n > 0
  <2>1. a \in Int /\ (2 * d) * a <= 2 * n + d /\ 2 * n + d < (2 * d) * a + 2 * d
    <3>1. 2 * d \in Nat \ {0} /\ 2 * n + d \in Int
      OBVIOUS
    <3>2. a = (2 * n + d) \div (2 * d)
      BY <1>3 DEF Share, Rounded
    <3> HIDE DEF a
    <3> QED  BY <3>1, <3>2, QuotientBounds
  <2> HIDE DEF a
  <2>2. a < m + 2
    <3> SUFFICES ASSUME m + 2 <= a PROVE FALSE
      BY <2>1
    <3>1. (2 * d) * (m + 2) <= (2 * d) * a
      <4>1. 2 * d \in Nat /\ m + 2 \in Int
        OBVIOUS
      <4> QED  BY <2>1, <4>1, TimesMonotonic
    <3>2. (2 * d) * (m + 2) = 2 * (m * d) + 4 * d
      BY Distributes
    <3> QED  BY <1>1, <2>1, <3>1, <3>2
  <2>3. m <= a
    <3> SUFFICES ASSUME a <= m - 1 PROVE FALSE
      BY <2>1
    <3>1. (2 * d) * a <= (2 * d) * (m - 1)
      <4>1. 2 * d \in Nat /\ m - 1 \in Int
        OBVIOUS
      <4> QED  BY <2>1, <4>1, TimesMonotonic
    <3>2. (2 * d) * (m - 1) = 2 * (m * d) - 2 * d
      BY Distributes
    <3> QED  BY <1>1, <2>1, <3>1, <3>2
  <2>4. CASE a = m
    <3>1. 2 * n + d < 2 * (m * d) + 2 * d
      <4>1. (2 * d) * m = 2 * (m * d)
        BY Distributes
      <4> QED  BY <2>1, <2>4, <4>1
    <3>2. m * d - m <= n - m /\ n - m <= m * d + d - m - 1
      BY <1>1, <3>1
    <3> QED  BY <1>1, <2>4, <3>2 DEF a
  <2>5. CASE a = m + 1
    <3>1. 2 * (m * d) + 2 * d <= 2 * n + d
      <4>1. (2 * d) * (m + 1) = 2 * (m * d) + 2 * d
        BY Distributes
      <4> QED  BY <2>1, <2>5, <4>1
    <3>2. m * d - m <= n - (m + 1) /\ n - (m + 1) <= m * d + d - m - 1
      BY <1>1, <3>1
    <3> QED  BY <1>1, <2>5, <3>2 DEF a
  <2>6. a = m \/ a = m + 1
    BY <2>1, <2>2, <2>3
  <2> QED  BY <2>4, <2>5, <2>6
<1> QED  BY <1>2, <1>3

(* No other plan that carries covers a period of this one.                 *)
LEMMA FundTurn ==
  ASSUME ReportsInv, NEW b \in plans, b.rule = "sinking_fund", NEW q \in b.from .. b.to,
         q <= b.date, ~ Typed(Book, b.of, q), Actual(Book, b.of, q) = 0,
         NEW before, before.carry \in Int
  PROVE  LET turn == Turn(Book, b.of, q, before)
         IN  /\ turn.row.limit = Share(b.goal - before.carry, b.date - q + 1)
             /\ turn.row.carriedIn = before.carry
             /\ turn.carry = ApplyCap(b, turn.row.limit + before.carry)
<1>1. /\ PlanFits(b) /\ b.rollover /\ Book.plans = plans /\ b.date \in Nat /\ b.goal \in Nat
      /\ \A d \in plans : b = d \/ KeptApart(b, d)
  BY BudgetsAssumption DEF ReportsInv, BudgetsTypeOK, Acceptable, PlanFits, Book, Home
<1>2. b \in Over(Carrying(Book), b.of, q)
  BY <1>1 DEF Over, Carrying, Covers
<1>3. ASSUME NEW d \in Over(Carrying(Book), b.of, q) PROVE d = b
  <2>1. d \in plans /\ d.of = b.of /\ d.from <= q /\ q <= d.to
    BY <1>1 DEF Over, Carrying, Covers
  <2>2. PlanFits(d)
    BY <2>1, BudgetsAssumption DEF ReportsInv, Home
  <2>3. {b.from, b.to, d.from, d.to} \subseteq Int
    BY <1>1, <2>2 DEF PlanFits
  <2>4. ~ KeptApart(b, d)
    BY <2>1, <2>3 DEF KeptApart
  <2> QED  BY <1>1, <2>1, <2>4
<1>4. (CHOOSE d \in Over(Carrying(Book), b.of, q) : TRUE) = b
  BY <1>2, <1>3
<1> DEFINE limit == Share(b.goal - before.carry, b.date - q + 1)
<1>5. Limit(Book, b, q, before) = limit
  <2>1. q \in Int
    BY <1>1 DEF PlanFits
  <2>2. SinkingFund(b, q, before.carry) = limit
    BY <1>1, <2>1 DEF SinkingFund, Share
  <2>3. DerivedAmount(Book, b, q, before) = SinkingFund(b, q, before.carry)
    BY DEF DerivedAmount
  <2>4. Limit(Book, b, q, before) = DerivedAmount(Book, b, q, before)
    BY DEF Limit
  <2> QED  BY <2>2, <2>3, <2>4
<1>6. limit \in Int
  <2>1. b.goal - before.carry \in Int /\ b.date - q + 1 \in Nat \ {0}
    BY <1>1 DEF PlanFits
  <2> QED  BY <2>1, RoundedIsWhole DEF Share
<1> HIDE DEF limit
<1>7. Turn(Book, b.of, q, before) = CarryOn(b, before, limit, 0)
  BY <1>2, <1>4, <1>5 DEF Turn, TurnUnder
<1>8. (limit + before.carry) - 0 = limit + before.carry
  BY <1>6
<1> QED  BY <1>1, <1>7, <1>8 DEF CarryOn, limit

(* What a fund keeps between the same two neighbours, m and m + 1: what it *)
(* needs for what is left of its periods, once it needs anything.          *)
OnCourse(b, k, carry, m) ==
  /\ carry \in Int
  /\ b.cap = NoAmount \/ -b.cap <= carry
  /\ \/ m = 0 /\ b.goal <= carry
     \/ /\ m * (b.date - k + 1) <= b.goal - carry
        /\ b.goal - carry <= (m + 1) * (b.date - k + 1)

LEMMA FundKeepsCourse ==
  ASSUME NEW b, PlanFits(b), b.rule = "sinking_fund", Acceptable(b), NEW k \in Nat,
         k <= b.date, NEW carry, NEW m \in Nat, OnCourse(b, k, carry, m)
  PROVE  LET limit == Share(b.goal - carry, b.date - k + 1)
         IN  /\ limit \in {m, m + 1}
             /\ OnCourse(b, k + 1, ApplyCap(b, limit + carry), m)
<1> DEFINE n == b.goal - carry
<1> DEFINE d == b.date - k + 1
<1> DEFINE limit == Share(n, d)
<1>1. /\ b.goal \in Nat /\ b.date \in Nat /\ carry \in Int
      /\ b.cap \in Nat \cup {NoAmount} /\ (b.cap # NoAmount => b.goal <= b.cap)
      /\ b.cap = NoAmount \/ -b.cap <= carry
  BY DEF PlanFits, Acceptable, BudgetPlanRefusal, OnCourse
<1>2. n \in Int /\ d \in Nat \ {0} /\ b.date - (k + 1) + 1 = d - 1
  BY <1>1
<1>3. CASE m = 0 /\ b.goal <= carry
  <2>1. limit = 0 /\ limit + carry = carry
    BY <1>1, <1>3 DEF Share
  <2>2. b.goal <= ApplyCap(b, carry) /\ ApplyCap(b, carry) \in Int
    BY <1>1, <1>3 DEF ApplyCap, AtLeast
  <2> HIDE DEF limit
  <2>3. OnCourse(b, k + 1, ApplyCap(b, carry), m)
    BY <1>1, <1>3, <2>2 DEF OnCourse
  <2> QED  BY <1>3, <2>1, <2>3 DEF limit
<1>4. CASE m * d <= n /\ n <= (m + 1) * d
  <2> HIDE DEF n, d
  <2>1. /\ limit \in {m, m + 1} /\ m * (d - 1) <= n - limit
        /\ n - limit <= (m + 1) * (d - 1)
    BY <1>2, <1>4, EvenShare
  <2> HIDE DEF limit
  <2>2. 0 <= m * (d - 1)
    <3>1. (d - 1) * 0 <= (d - 1) * m
      BY <1>2, TimesMonotonic
    <3> QED  BY <1>2, <3>1
  <2>3. limit \in Nat /\ b.goal - (limit + carry) = n - limit
    BY <1>1, <2>1 DEF n
  <2>4. limit + carry <= b.goal /\ carry <= limit + carry /\ limit + carry \in Int
    BY <1>1, <1>2, <2>1, <2>2, <2>3
  <2>5. ApplyCap(b, limit + carry) = limit + carry
    BY <1>1, <2>4 DEF ApplyCap, AtLeast
  <2>6. b.cap = NoAmount \/ -b.cap <= limit + carry
    BY <1>1, <2>4
  <2>7. OnCourse(b, k + 1, limit + carry, m)
    BY <1>2, <2>1, <2>3, <2>4, <2>6 DEF OnCourse
  <2> QED  BY <2>1, <2>5, <2>7 DEF limit, n, d
<1> QED  BY <1>3, <1>4 DEF OnCourse

LEMMA SetsCourse ==
  ASSUME NEW b, PlanFits(b), b.rule = "sinking_fund", NEW k \in Nat, k <= b.date,
         NEW carry \in Int, b.cap = NoAmount \/ -b.cap <= carry
  PROVE  \E m \in Nat : OnCourse(b, k, carry, m)
<1> DEFINE n == b.goal - carry
<1> DEFINE d == b.date - k + 1
<1>1. n \in Int /\ d \in Nat \ {0} /\ (n <= 0 <=> b.goal <= carry)
  BY DEF PlanFits
<1>2. CASE n <= 0
  BY <1>1, <1>2 DEF OnCourse
<1>3. CASE n > 0
  <2> HIDE DEF n, d
  <2> DEFINE m == n \div d
  <2>1. m \in Int /\ d * m <= n /\ n < d * m + d
    BY <1>1, QuotientBounds
  <2> HIDE DEF m
  <2>2. m * d = d * m /\ (m + 1) * d = m * d + d /\ m * d \in Int
    BY <1>1, <2>1, Distributes
  <2>3. 0 <= m
    <3> SUFFICES ASSUME m <= -1 PROVE FALSE
      BY <2>1
    <3>1. d * m <= d * (-1) /\ d * (-1) = -d
      BY <1>1, <2>1, TimesMonotonic
    <3> QED  BY <1>1, <1>3, <2>1, <3>1
  <2>4. m * d <= n /\ n <= (m + 1) * d
    BY <1>1, <2>1, <2>2
  <2> QED  BY <2>1, <2>3, <2>4 DEF OnCourse, n, d
<1> QED  BY <1>1, <1>2, <1>3

LEMMA FundSavesEvenly ==
  ASSUME ReportsInv, NEW b \in plans, b.rule = "sinking_fund"
  PROVE  SavesEvenly(b, Folded(Book, 1)[b.of])
<1> DEFINE f == TurnsOf(Book, b.of, 1)
<1> DEFINE prior(k) == IF k = 1 THEN Begun ELSE f[k - 1]
<1> DEFINE last == Min({b.to, b.date, nowIn})
<1> DEFINE quiet(k) == ~ Typed(Book, b.of, k) /\ Actual(Book, b.of, k) = 0
<1>1. /\ nowIn \in Nat /\ nowIn \in Periods /\ 1 <= nowIn /\ 1 \in Periods
      /\ PlanFits(b) /\ Acceptable(b) /\ b.of \in BudgetTargets
  BY BudgetsAssumption
     DEF ReportsInv, BudgetsTypeOK, Home, Periods, MayBudget, BudgetTargets
<1>2. b.from \in Nat \ {0} /\ b.to \in Nat /\ b.date \in Nat
  BY <1>1, BudgetsAssumption DEF PlanFits
<1>3. last \in Nat /\ last <= b.to /\ last <= b.date /\ last <= nowIn
  <2> DEFINE S == {b.to, b.date, nowIn}
  <2>1. S \subseteq Nat /\ S # {}
    BY <1>1, <1>2
  <2>2. last = CHOOSE x \in S : \A y \in S : x <= y
    BY DEF Min
  <2> HIDE DEF S, last
  <2>3. last \in S /\ \A y \in S : last <= y
    BY <2>1, <2>2, LeastNatural
  <2> QED  BY <2>1, <2>3 DEF S
<1>4. First(Book, 1) = 1
  <2>1. \A d \in Book.plans : d.from \in Periods
    BY BudgetsAssumption DEF ReportsInv, Home, Book, Periods, PlanFits
  <2>2. First(Book, 1) \in 1 .. 1
    BY <1>1, <2>1, FirstFolded
  <2> QED  BY <2>2
<1>5. \A k \in 1 .. nowIn : Folded(Book, 1)[b.of][k] = f[k].row
  BY <1>1, <1>4, RowsAreTurns DEF Folded
<1>6. \A k \in 1 .. nowIn : f[k] = Turn(Book, b.of, k, prior(k))
  BY <1>1, TurnsFollow
<1>7. \A k \in 1 .. nowIn : prior(k).carry \in Int
  <2>1. \A k \in 1 .. nowIn : HandsOn(f[k])
    <3>1. BookFits(Book)
      BY BudgetsAssumption DEF ReportsInv, BudgetsTypeOK, BookFits, Book, Home
    <3> QED  BY <1>1, <3>1, TurnsHandOn
  <2>2. HandsOn(Begun)
    BY DEF HandsOn, Begun, NewChain
  <2>3. \A k \in 1 .. nowIn : k # 1 => k - 1 \in 1 .. nowIn
    BY <1>1
  <2> QED  BY <2>1, <2>2, <2>3 DEF HandsOn
<1> HIDE DEF f, last, quiet
<1> SUFFICES ASSUME NEW p \in b.from .. last, NEW q \in b.from .. last, p < q,
                    \A k \in p .. q : quiet(k),
                    b.cap = NoAmount \/ -b.cap <= Folded(Book, 1)[b.of][p].carriedIn
             PROVE  Folded(Book, 1)[b.of][q].limit - Folded(Book, 1)[b.of][p].limit \in -1 .. 1
  BY DEF SavesEvenly, last, quiet
<1>8. p \in Nat /\ q \in Nat
  BY <1>2, <1>3
<1>9. ASSUME NEW k \in p .. q
      PROVE  /\ k \in 1 .. nowIn /\ k \in Nat /\ k <= b.date
             /\ f[k].row.limit = Share(b.goal - prior(k).carry, b.date - k + 1)
             /\ f[k].row.carriedIn = prior(k).carry
             /\ f[k].carry = ApplyCap(b, f[k].row.limit + prior(k).carry)
  <2>1. k \in 1 .. nowIn /\ k \in Nat /\ k <= b.date /\ k \in b.from .. b.to
    BY <1>1, <1>2, <1>3, <1>8
  <2>2. prior(k).carry \in Int /\ f[k] = Turn(Book, b.of, k, prior(k))
    BY <1>6, <1>7, <2>1
  <2> HIDE DEF prior
  <2>3. ~ Typed(Book, b.of, k) /\ Actual(Book, b.of, k) = 0
    BY DEF quiet
  <2> QED  BY <2>1, <2>2, <2>3, FundTurn
<1>10. prior(p).carry \in Int /\ (b.cap = NoAmount \/ -b.cap <= prior(p).carry)
       /\ p <= b.date
  <2>1. p \in p .. q
    BY <1>8
  <2>2. p \in 1 .. nowIn /\ f[p].row.carriedIn = prior(p).carry /\ p <= b.date
    BY <1>9, <2>1
  <2> QED  BY <1>5, <1>7, <2>2
<1>11. PICK m \in Nat : OnCourse(b, p, prior(p).carry, m)
  BY <1>1, <1>8, <1>10, SetsCourse
<1> DEFINE Off == {k \in Nat : k \in p .. q /\ ~ OnCourse(b, k, prior(k).carry, m)}
<1>12. Off = {}
  <2> SUFFICES ASSUME Off # {} PROVE FALSE
    OBVIOUS
  <2>1. PICK k \in Off : \A j \in Off : k <= j
    <3>1. Off \subseteq Nat
      OBVIOUS
    <3> HIDE DEF Off
    <3> QED  BY <3>1, LeastNatural
  <2>2. k # p
    BY <1>11, <2>1
  <2>3. k - 1 \in p .. q /\ k - 1 \in Nat /\ ~ (k <= k - 1) /\ k # 1 /\ k = (k - 1) + 1
    BY <1>2, <1>8, <2>1, <2>2
  <2>4. OnCourse(b, k - 1, prior(k - 1).carry, m)
    BY <2>1, <2>3
  <2>5. prior(k) = f[k - 1]
    BY <2>3
  <2>6. /\ k - 1 <= b.date
        /\ f[k - 1].row.limit = Share(b.goal - prior(k - 1).carry, b.date - (k - 1) + 1)
        /\ f[k - 1].carry = ApplyCap(b, f[k - 1].row.limit + prior(k - 1).carry)
    BY <1>9, <2>3
  <2>7. ~ OnCourse(b, k, prior(k).carry, m)
    BY <2>1
  <2> HIDE DEF Off, prior
  <2>8. OnCourse(b, (k - 1) + 1, f[k - 1].carry, m)
    BY <1>1, <2>3, <2>4, <2>6, FundKeepsCourse
  <2> QED  BY <2>3, <2>5, <2>7, <2>8
<1>13. ASSUME NEW k \in p .. q PROVE f[k].row.limit \in {m, m + 1}
  <2>0. k \in Nat
    BY <1>8
  <2>1. k \in Nat /\ OnCourse(b, k, prior(k).carry, m)
    <3> HIDE DEF prior
    <3> QED  BY <1>12, <2>0
  <2>2. k <= b.date /\ f[k].row.limit = Share(b.goal - prior(k).carry, b.date - k + 1)
    BY <1>9
  <2> HIDE DEF prior, Off
  <2> QED  BY <1>1, <2>1, <2>2, FundKeepsCourse
<1>14. p \in p .. q /\ q \in p .. q
  BY <1>8
<1>15. /\ Folded(Book, 1)[b.of][q].limit \in {m, m + 1}
       /\ Folded(Book, 1)[b.of][p].limit \in {m, m + 1}
  BY <1>5, <1>9, <1>13, <1>14
<1> QED  BY <1>15

LEMMA EveryFundSaves == ASSUME ReportsInv PROVE FundsSaveEvenly
BY FundSavesEvenly DEF FundsSaveEvenly

(***************************************************************************)
(* What a category asks for, and where it stands in the queue: those that  *)
(* come sooner are fewer for each one before it, so there is exactly one   *)
(* at every place.                                                         *)
(***************************************************************************)
AsksFor(record) == record.limit \in Nat \cup {NoAmount} /\ record.priority \in 0 .. MaxRank

LEMMA TurnAsks ==
  ASSUME NEW k, BookFits(k), NEW t \in BudgetTargets, NEW q \in Periods,
         NEW before, HandsOn(before)
  PROVE  AsksFor(Turn(k, t, q, before).row)
<1>1. CASE Over(Carrying(k), t, q) = {}
  <2> DEFINE d == CHOOSE d \in Over(k.plans, t, q) : TRUE
  <2>1. Over(k.plans, t, q) # {} => d.amount \in Nat
    BY DEF BookFits, PlanFits, Over
  <2>2. k.entered[t][q] \in Nat \cup {NoAmount}
    BY DEF BookFits
  <2>3. Budgeted(k, t, q) \in Nat \cup {NoAmount}
    BY <2>1, <2>2 DEF Budgeted
  <2>4. Turn(k, t, q, before).row = PlainRow(k, t, q)
    BY <1>1 DEF Turn, NewChain
  <2>5. PlainRow(k, t, q).limit = Budgeted(k, t, q) /\ PlainRow(k, t, q).priority = 0
    BY DEF PlainRow
  <2> QED  BY <2>3, <2>4, <2>5, BudgetsAssumption DEF AsksFor
<1>2. CASE Over(Carrying(k), t, q) # {}
  <2> DEFINE b == CHOOSE b \in Over(Carrying(k), t, q) : TRUE
  <2> DEFINE limit == Limit(k, b, q, before)
  <2>1. b \in Over(Carrying(k), t, q) /\ PlanFits(b)
    BY <1>2 DEF Over, Carrying, BookFits
  <2>2. limit \in Nat
    BY <2>1, LimitIsWhole
  <2>3. Turn(k, t, q, before) = CarryOn(b, before, limit, Actual(k, b.of, q))
    BY <1>2 DEF Turn, TurnUnder
  <2> HIDE DEF b, limit
  <2>4. \A a : /\ CarryOn(b, before, limit, a).row.limit = limit
               /\ CarryOn(b, before, limit, a).row.priority = b.priority
    BY DEF CarryOn
  <2> QED  BY <2>1, <2>2, <2>3, <2>4 DEF AsksFor, PlanFits
<1> QED  BY <1>1, <1>2

LEMMA EveryRowAsks ==
  ASSUME ReportsInv, NEW p \in 1 .. nowIn, NEW t \in BudgetTargets
  PROVE  AsksFor(Folded(Book, p)[t][p])
<1> DEFINE first == First(Book, p)
<1> DEFINE f == TurnsOf(Book, t, first)
<1>1. nowIn \in Nat /\ nowIn \in Periods /\ p \in Nat /\ p \in Periods
  BY BudgetsAssumption DEF ReportsInv, BudgetsTypeOK, Periods
<1>2. first \in 1 .. p
  <2>1. \A b \in Book.plans : b.from \in Periods
    BY BudgetsAssumption DEF ReportsInv, Home, Book, Periods, PlanFits
  <2> QED  BY <1>1, <2>1, FirstFolded
<1>3. first \in Nat \ {0} /\ first <= nowIn /\ p \in first .. nowIn /\ first <= p
  BY <1>1, <1>2
<1>4. Folded(Book, p)[t][p] = f[p].row
  BY <1>1, <1>3, RowsAreTurns DEF Folded
<1> HIDE DEF first
<1>5. BookFits(Book)
  BY BudgetsAssumption DEF ReportsInv, BudgetsTypeOK, BookFits, Book, Home
<1>6. \A q \in first .. nowIn : HandsOn(f[q])
  BY <1>1, <1>3, <1>5, TurnsHandOn
<1>7. f[p] = Turn(Book, t, p, IF p = first THEN Begun ELSE f[p - 1])
  BY <1>1, <1>3, TurnsFollow
<1>8. HandsOn(IF p = first THEN Begun ELSE f[p - 1])
  <2>1. HandsOn(Begun)
    BY DEF HandsOn, Begun, NewChain
  <2>2. p # first => p - 1 \in first .. nowIn
    BY <1>1, <1>3
  <2> HIDE DEF f
  <2> QED  BY <1>6, <2>1, <2>2
<1> HIDE DEF f
<1> QED  BY <1>1, <1>4, <1>5, <1>7, <1>8, TurnAsks

LEMMA PlacesDiffer ==
  \A c, d \in CategoriesFiled : Place(c) \in Int /\ (Place(c) = Place(d) => c = d)
<1>1. \A c \in CategoriesFiled : Place(c) \in DOMAIN Filing /\ Filing[Place(c)] = c
  BY DEF CategoriesFiled, Range, Place
<1>2. DOMAIN Filing \subseteq Int
  BY BudgetsAssumption
<1> QED  BY <1>1, <1>2

LEMMA QueueRanks ==
  ASSUME NEW rows, NEW p, \A c \in CategoriesFiled : rows[c][p].priority \in 0 .. MaxRank
  PROVE  LET N == Cardinality(Wanting(rows, p))
             line == Queue(rows, p)
         IN  /\ N \in Nat /\ \A n \in 1 .. N : line[n] \in Wanting(rows, p)
             /\ \A m, n \in 1 .. N :
                  Rank(rows, line[m], p) < Rank(rows, line[n], p) => m < n
<1> DEFINE W == Wanting(rows, p)
<1> DEFINE N == Cardinality(W)
<1> DEFINE Soon(c) == {d \in W : Sooner(rows, p, d, c)}
<1> DEFINE spot == [c \in W |-> Cardinality(Soon(c))]
<1>1. W \subseteq CategoriesFiled /\ IsFiniteSet(W) /\ N \in Nat
  BY BudgetsAssumption, FS_Subset, FS_CardinalityType DEF Wanting, CategoriesFiled
<1>2. \A c \in W : Rank(rows, c, p) \in Int /\ Place(c) \in Int
  BY <1>1, PlacesDiffer, BudgetsAssumption DEF Rank
<1>3. /\ \A c \in W : ~ Sooner(rows, p, c, c)
      /\ \A c, d \in W : c = d \/ Sooner(rows, p, c, d) \/ Sooner(rows, p, d, c)
      /\ \A c, d, e \in W : Sooner(rows, p, c, d) /\ Sooner(rows, p, d, e) => Sooner(rows, p, c, e)
  BY <1>1, <1>2, PlacesDiffer DEF Sooner
<1> HIDE DEF W
<1>4. \A c \in W : IsFiniteSet(Soon(c)) /\ Cardinality(Soon(c)) \in Nat
  BY <1>1, FS_Subset, FS_CardinalityType
<1>5. ASSUME NEW c \in W, NEW d \in W, Sooner(rows, p, c, d) PROVE spot[c] < spot[d]
  <2>1. Soon(c) \subseteq Soon(d) /\ c \in Soon(d) /\ c \notin Soon(c)
    BY <1>3, <1>5
  <2> HIDE DEF Soon
  <2>2. Cardinality(Soon(c)) <= Cardinality(Soon(d)) /\ Cardinality(Soon(c)) # Cardinality(Soon(d))
    BY <1>4, <2>1, FS_Subset
  <2> QED  BY <1>4, <2>2
<1>6. spot \in [W -> 0 .. (N - 1)]
  <2> SUFFICES ASSUME NEW c \in W PROVE Cardinality(Soon(c)) \in 0 .. (N - 1)
    OBVIOUS
  <2>1. Soon(c) \in SUBSET W /\ Soon(c) # W
    BY <1>3
  <2>2. Cardinality(Soon(c)) \in Nat
    BY <1>4
  <2> HIDE DEF Soon
  <2>3. Cardinality(Soon(c)) <= N /\ Cardinality(Soon(c)) # N
    BY <1>1, <2>1, FS_Subset
  <2> QED  BY <1>1, <2>2, <2>3
<1>7. spot \in Surjection(W, 0 .. (N - 1))
  <2>1. \A c, d \in W : spot[c] = spot[d] => c = d
    <3> SUFFICES ASSUME NEW c \in W, NEW d \in W, c # d PROVE spot[c] # spot[d]
      OBVIOUS
    <3>1. spot[c] \in Int /\ spot[d] \in Int
      BY <1>4
    <3>2. spot[c] < spot[d] \/ spot[d] < spot[c]
      BY <1>3, <1>5
    <3> HIDE DEF spot
    <3> QED  BY <3>1, <3>2
  <2> HIDE DEF spot
  <2>2. spot \in Injection(W, 0 .. (N - 1))
    BY <1>6, <2>1 DEF Injection, IsInjective
  <2>3. IsFiniteSet(0 .. (N - 1)) /\ Cardinality(0 .. (N - 1)) = N
    <3>1. 0 \in Int /\ N - 1 \in Int /\ (0 > N - 1 => N = 0) /\ (N - 1) - 0 + 1 = N
      BY <1>1
    <3> QED  BY <3>1, FS_Interval
  <2> QED  BY <2>2, <2>3, FS_Injection
<1>8. Queue(rows, p) = [n \in 1 .. N |-> CHOOSE c \in W : Cardinality(Soon(c)) = n - 1]
  BY DEF Queue, W
<1> DEFINE line == Queue(rows, p)
<1>9. ASSUME NEW n \in 1 .. N PROVE line[n] \in W /\ spot[line[n]] = n - 1
  <2>1. n - 1 \in 0 .. (N - 1)
    BY <1>1
  <2>2. \E c \in W : spot[c] = n - 1
    BY <1>7, <2>1 DEF Surjection
  <2>3. \E c \in W : Cardinality(Soon(c)) = n - 1
    BY <2>2
  <2>4. line[n] = CHOOSE c \in W : Cardinality(Soon(c)) = n - 1
    BY <1>8
  <2> HIDE DEF Soon, line
  <2> QED  BY <2>3, <2>4
<1> HIDE DEF spot, line, Soon
<1>10. ASSUME NEW m \in 1 .. N, NEW n \in 1 .. N, Rank(rows, line[m], p) < Rank(rows, line[n], p)
       PROVE  m < n
  <2>1. line[m] \in W /\ line[n] \in W /\ spot[line[m]] = m - 1 /\ spot[line[n]] = n - 1
    BY <1>9
  <2>2. Sooner(rows, p, line[m], line[n])
    BY <1>10 DEF Sooner
  <2>3. m - 1 < n - 1
    BY <1>5, <2>1, <2>2
  <2> QED  BY <1>1, <2>3
<1> QED  BY <1>1, <1>9, <1>10 DEF line, W

(***************************************************************************)
(* What is given along a queue adds up to what is asked or to what there   *)
(* is, whichever is less, and whoever goes short is the last to be given   *)
(* anything.                                                               *)
(***************************************************************************)
LEMMA SumsUpTo ==
  ASSUME NEW N \in Nat, NEW f, \A i \in 1 .. N : f[i] \in Int
  PROVE  /\ SumFunctionOnSet(f, 1 .. 0) = 0
         /\ \A i \in 1 .. N :
              /\ SumFunctionOnSet(f, 1 .. i) \in Int
              /\ SumFunctionOnSet(f, 1 .. i) = SumFunctionOnSet(f, 1 .. (i - 1)) + f[i]
<1>1. 1 .. 0 = {}
  OBVIOUS
<1>2. SumFunctionOnSet(f, 1 .. 0) = 0
  BY <1>1, FS_EmptySet, SumChoose
<1>3. ASSUME NEW i \in 1 .. N
      PROVE  /\ SumFunctionOnSet(f, 1 .. i) \in Int
             /\ SumFunctionOnSet(f, 1 .. i) = SumFunctionOnSet(f, 1 .. (i - 1)) + f[i]
  <2> DEFINE S == 1 .. i
  <2>1. IsFiniteSet(S) /\ i \in S /\ S \ {i} = 1 .. (i - 1) /\ \A j \in S : f[j] \in Int
    BY FS_Interval
  <2>2. IsFiniteSet(S \ {i}) /\ \A j \in S \ {i} : f[j] \in Int
    BY <2>1, FS_RemoveElement
  <2> HIDE DEF S
  <2>3. SumFunctionOnSet(f, S) = f[i] + SumFunctionOnSet(f, S \ {i})
    BY <2>1, SumRemove
  <2>4. SumFunctionOnSet(f, S) \in Int /\ SumFunctionOnSet(f, S \ {i}) \in Int /\ f[i] \in Int
    BY <2>1, <2>2, SumType
  <2>5. SumFunctionOnSet(f, S) = SumFunctionOnSet(f, S \ {i}) + f[i]
    BY <2>3, <2>4
  <2> QED  BY <2>1, <2>4, <2>5 DEF S
<1> QED  BY <1>2, <1>3

GrantsAlong(f, asked, pool, N) ==
  /\ asked \in [1 .. N -> Nat] /\ f[0] = [pool |-> pool, given |-> << >>]
  /\ \A i \in 1 .. N : f[i] = Grant(f[i - 1], asked[i])

GivenWell(given, asked, pool, N) ==
  /\ SumFunction(given) = Min({SumFunction(asked), AtLeast(0, pool)})
  /\ \A i, j \in 1 .. N : i < j /\ given[j] > 0 => given[i] = asked[i]

LEMMA FundsGoAlong ==
  ASSUME NEW N \in Nat, NEW asked, NEW pool \in Int, NEW f, GrantsAlong(f, asked, pool, N)
  PROVE  GivenWell(f[N].given, asked, pool, N)
<1> DEFINE G == [i \in 1 .. N |->
                   IF f[i - 1].pool >= asked[i] THEN asked[i] ELSE AtLeast(0, f[i - 1].pool)]
<1> DEFINE SG(i) == SumFunctionOnSet(G, 1 .. i)
<1> DEFINE SA(i) == SumFunctionOnSet(asked, 1 .. i)
<1> DEFINE P == AtLeast(0, pool)
<1>0. /\ asked \in [1 .. N -> Nat] /\ f[0] = [pool |-> pool, given |-> << >>]
      /\ \A i \in 1 .. N : f[i] = Grant(f[i - 1], asked[i])
  BY DEF GrantsAlong
<1>1. \A i \in 1 .. N : /\ f[i].pool = f[i - 1].pool - G[i]
                        /\ f[i].given = Append(f[i - 1].given, G[i])
  <2> TAKE i \in 1 .. N
  <2>1. f[i] = Grant(f[i - 1], asked[i])
    BY <1>0
  <2>2. \A so, wanted :
          Grant(so, wanted) =
            [pool |-> so.pool - (IF so.pool >= wanted THEN wanted ELSE AtLeast(0, so.pool)),
             given |-> Append(so.given, IF so.pool >= wanted THEN wanted ELSE AtLeast(0, so.pool))]
    BY DEF Grant
  <2>3. G[i] = IF f[i - 1].pool >= asked[i] THEN asked[i] ELSE AtLeast(0, f[i - 1].pool)
    OBVIOUS
  <2> HIDE DEF G
  <2>4. f[i] = [pool |-> f[i - 1].pool - G[i], given |-> Append(f[i - 1].given, G[i])]
    BY <2>1, <2>2, <2>3
  <2> QED  BY <2>4
<1>2. \A i \in 1 .. N :
        G[i] = IF f[i - 1].pool >= asked[i] THEN asked[i] ELSE AtLeast(0, f[i - 1].pool)
  OBVIOUS
<1>3. DOMAIN G = 1 .. N
  OBVIOUS
<1>4. G = [i \in 1 .. N |-> G[i]]
  OBVIOUS
<1> HIDE DEF G
<1>5. P \in Nat /\ (pool >= 0 => P = pool) /\ (pool < 0 => P = 0)
  BY DEF AtLeast
<1> HIDE DEF P
<1>6. SA(0) = 0 /\ \A i \in 1 .. N : SA(i) \in Int /\ SA(i) = SA(i - 1) + asked[i]
  <2>1. \A i \in 1 .. N : asked[i] \in Int
    BY <1>0
  <2> QED  BY <2>1, SumsUpTo
<1> HIDE DEF SA
<1> DEFINE Given(i) == /\ f[i].given \in Seq(Nat) /\ Len(f[i].given) = i
                       /\ \A j \in 1 .. i : f[i].given[j] = G[j] /\ G[j] \in Nat
<1> DEFINE Left(i) == /\ SA(i) \in Nat /\ f[i].pool \in Int
                      /\ f[i].pool = pool - (IF SA(i) <= P THEN SA(i) ELSE P)
<1>7. Given(0) /\ Left(0)
  <2>1. 1 .. 0 = {} /\ << >> \in Seq(Nat) /\ Len(<< >>) = 0
    OBVIOUS
  <2> QED  BY <1>0, <1>5, <1>6, <2>1
<1>8. ASSUME NEW i \in 1 .. N, Left(i - 1) PROVE Left(i) /\ G[i] \in Nat
  <2>1. /\ f[i].pool = f[i - 1].pool - G[i]
        /\ G[i] = IF f[i - 1].pool >= asked[i] THEN asked[i]
                  ELSE IF f[i - 1].pool < 0 THEN 0 ELSE f[i - 1].pool
    BY <1>1, <1>2 DEF AtLeast
  <2>2. SA(i) = SA(i - 1) + asked[i] /\ asked[i] \in Nat
    BY <1>0, <1>6
  <2>3. /\ SA(i - 1) \in Nat /\ f[i - 1].pool \in Int
        /\ f[i - 1].pool = pool - (IF SA(i - 1) <= P THEN SA(i - 1) ELSE P)
    BY <1>8
  <2> HIDE DEF Left
  <2>4. CASE SA(i - 1) <= P /\ f[i - 1].pool >= asked[i]
    <3>1. /\ G[i] = asked[i] /\ f[i].pool = pool - SA(i - 1) - asked[i]
          /\ f[i].pool = pool - SA(i) /\ SA(i) <= P /\ SA(i) \in Nat /\ f[i].pool \in Int
      BY <1>5, <2>1, <2>2, <2>3, <2>4
    <3> QED  BY <2>2, <3>1 DEF Left
  <2>5. CASE SA(i - 1) <= P /\ ~ (f[i - 1].pool >= asked[i])
    <3>1. f[i - 1].pool = pool - SA(i - 1) /\ SA(i) >= P /\ SA(i) \in Nat
      BY <1>5, <2>2, <2>3, <2>5
    <3>2. G[i] \in Nat /\ f[i].pool = pool - P /\ f[i].pool \in Int
      BY <1>5, <2>1, <2>2, <2>3, <2>5, <3>1
    <3> QED  BY <1>5, <3>1, <3>2 DEF Left
  <2>6. CASE ~ (SA(i - 1) <= P)
    <3>1. f[i - 1].pool = pool - P /\ SA(i) > P /\ SA(i) \in Nat
      BY <1>5, <2>2, <2>3, <2>6
    <3>2. G[i] = 0 /\ f[i].pool = pool - P /\ f[i].pool \in Int
      BY <1>5, <2>1, <2>2, <2>3, <3>1
    <3> QED  BY <1>5, <3>1, <3>2 DEF Left
  <2> QED  BY <2>4, <2>5, <2>6
<1>9. ASSUME NEW i \in 1 .. N, Given(i - 1), G[i] \in Nat PROVE Given(i)
  <2>1. f[i].given = Append(f[i - 1].given, G[i])
    BY <1>1
  <2>2. f[i].given \in Seq(Nat) /\ Len(f[i].given) = i
    BY <1>9, <2>1
  <2>3. ASSUME NEW j \in 1 .. i PROVE f[i].given[j] = G[j] /\ G[j] \in Nat
    <3>1. CASE j = i
      BY <1>9, <2>1, <3>1
    <3>2. CASE j # i
      <4>1. j \in 1 .. (i - 1) /\ j \in 1 .. Len(f[i - 1].given)
        BY <1>9, <3>2
      <4>2. f[i].given[j] = f[i - 1].given[j]
        BY <1>9, <2>1, <4>1
      <4> QED  BY <1>9, <4>1, <4>2
    <3> QED  BY <3>1, <3>2
  <2> QED  BY <2>2, <2>3
<1> HIDE DEF Given, Left
<1>10. \A i \in 0 .. N : Given(i) /\ Left(i)
  <2> DEFINE Bad == {i \in Nat : i <= N /\ ~ (Given(i) /\ Left(i))}
  <2> SUFFICES ASSUME Bad # {} PROVE FALSE
    OBVIOUS
  <2>1. PICK i \in Bad : \A j \in Bad : i <= j
    <3>1. Bad \subseteq Nat
      OBVIOUS
    <3> HIDE DEF Bad
    <3> QED  BY <3>1, LeastNatural
  <2>2. i # 0
    BY <1>7, <2>1
  <2>3. i \in 1 .. N /\ i - 1 \in Nat /\ i - 1 <= N /\ ~ (i <= i - 1)
    BY <2>1, <2>2
  <2>4. Given(i - 1) /\ Left(i - 1)
    BY <2>1, <2>3
  <2> QED  BY <1>8, <1>9, <2>1, <2>3, <2>4
<1>11. \A i \in 1 .. N : G[i] \in Nat
  BY <1>10 DEF Given
<1>12. f[N].given = G
  <2>1. /\ f[N].given \in Seq(Nat) /\ Len(f[N].given) = N
        /\ \A j \in 1 .. N : f[N].given[j] = G[j]
    BY <1>10 DEF Given
  <2>2. f[N].given \in [1 .. N -> Nat]
    BY <2>1
  <2> QED  BY <1>4, <2>1, <2>2
<1>13. \A i \in 0 .. N : /\ SA(i) \in Nat /\ f[i].pool \in Int
                         /\ f[i].pool = pool - (IF SA(i) <= P THEN SA(i) ELSE P)
  BY <1>10 DEF Left
<1>14. SG(0) = 0 /\ \A i \in 1 .. N : SG(i) \in Int /\ SG(i) = SG(i - 1) + G[i]
  <2>1. \A i \in 1 .. N : G[i] \in Int
    BY <1>11
  <2> QED  BY <2>1, SumsUpTo
<1> HIDE DEF SG
<1>15. SG(N) = IF SA(N) <= P THEN SA(N) ELSE P
  <2> DEFINE Bad == {i \in Nat : i <= N /\ f[i].pool # pool - SG(i)}
  <2>1. Bad = {}
    <3> SUFFICES ASSUME Bad # {} PROVE FALSE
      OBVIOUS
    <3>1. PICK i \in Bad : \A j \in Bad : i <= j
      <4>1. Bad \subseteq Nat
        OBVIOUS
      <4> HIDE DEF Bad
      <4> QED  BY <4>1, LeastNatural
    <3>2. i # 0
      BY <1>0, <1>14, <3>1
    <3>3. i \in 1 .. N /\ i - 1 \in Nat /\ i - 1 <= N /\ ~ (i <= i - 1) /\ i - 1 \in 0 .. N
      BY <3>1, <3>2
    <3>4. f[i - 1].pool = pool - SG(i - 1)
      BY <3>1, <3>3
    <3>5. f[i].pool = f[i - 1].pool - G[i] /\ SG(i) = SG(i - 1) + G[i] /\ G[i] \in Nat
          /\ SG(i) \in Int
      BY <1>1, <1>11, <1>14, <3>3
    <3>6. SG(i - 1) \in Int
      <4>1. i - 1 = 0 \/ i - 1 \in 1 .. N
        BY <3>3
      <4> QED  BY <1>14, <4>1
    <3> QED  BY <3>1, <3>4, <3>5, <3>6
  <2>2. f[N].pool = pool - SG(N)
    BY <2>1
  <2>3. SG(N) \in Int
    <3>1. N = 0 \/ N \in 1 .. N
      OBVIOUS
    <3> QED  BY <1>14, <3>1
  <2> QED  BY <1>5, <1>13, <2>2, <2>3
<1>16. SumFunction(G) = SG(N) /\ SumFunction(asked) = SA(N)
  BY <1>0, <1>3 DEF SumFunction, SG, SA
<1>17. SumFunction(G) = Min({SumFunction(asked), P})
  <2>1. SA(N) \in Nat
    BY <1>13
  <2>2. Min({SA(N), P}) = IF SA(N) <= P THEN SA(N) ELSE P
    <3> DEFINE least == IF SA(N) <= P THEN SA(N) ELSE P
    <3>1. least \in {SA(N), P} /\ \A y \in {SA(N), P} : least <= y
      BY <1>5, <2>1
    <3>2. \A x \in {SA(N), P} : (\A y \in {SA(N), P} : x <= y) => x = least
      BY <1>5, <2>1
    <3> HIDE DEF least
    <3>3. (CHOOSE x \in {SA(N), P} : \A y \in {SA(N), P} : x <= y) = least
      BY <3>1, <3>2
    <3> QED  BY <3>3 DEF Min, least
  <2> QED  BY <1>15, <1>16, <2>2
(* Once somebody goes short there is nothing left for the others.          *)
<1>18. ASSUME NEW i \in 1 .. N, NEW j \in 1 .. N, i < j, G[j] > 0 PROVE G[i] = asked[i]
  <2> SUFFICES ASSUME G[i] # asked[i] PROVE FALSE
    OBVIOUS
  <2>1. \A n \in i .. N : f[n].pool <= 0
    <3> DEFINE Bad == {n \in i .. N : ~ (f[n].pool <= 0)}
    <3> SUFFICES ASSUME Bad # {} PROVE FALSE
      OBVIOUS
    <3>1. PICK n \in Bad : \A m \in Bad : n <= m
      <4>1. Bad \subseteq Nat
        OBVIOUS
      <4> HIDE DEF Bad
      <4> QED  BY <4>1, LeastNatural
    <3>2. n \in i .. N /\ ~ (f[n].pool <= 0)
      BY <3>1
    <3>3. n # i => f[n - 1].pool <= 0
      <4>1. n # i => n - 1 \in i .. N /\ ~ (n <= n - 1)
        BY <3>2
      <4> QED  BY <3>1, <4>1
    <3> HIDE DEF Bad
    <3>4. n \in 1 .. N /\ n \in 0 .. N /\ n - 1 \in 0 .. N
      BY <3>2
    <3>5. /\ f[n].pool = f[n - 1].pool - G[n] /\ G[n] \in Nat /\ f[n - 1].pool \in Int
          /\ f[n].pool \in Int
      BY <1>1, <1>11, <1>13, <3>4
    <3>6. n = i => G[n] = IF f[n - 1].pool < 0 THEN 0 ELSE f[n - 1].pool
      BY <1>2 DEF AtLeast
    <3> QED  BY <3>2, <3>3, <3>5, <3>6
  <2>2. j - 1 \in 0 .. N /\ j - 1 \in i .. N
    BY <1>18
  <2>3. f[j - 1].pool <= 0 /\ f[j - 1].pool \in Int
    BY <1>13, <2>1, <2>2
  <2>4. G[j] = IF f[j - 1].pool >= asked[j] THEN asked[j]
               ELSE IF f[j - 1].pool < 0 THEN 0 ELSE f[j - 1].pool
    BY <1>2 DEF AtLeast
  <2>5. asked[j] \in Nat
    BY <1>0
  <2> QED  BY <1>18, <2>3, <2>4, <2>5
<1> QED  BY <1>12, <1>17, <1>18 DEF P, GivenWell

(* f holds, for every place up to n, what is left and given up to it.      *)
Hands(f, line, rows, p, pool, n) ==
  f = [i \in 0 .. n |-> IF i = 0 THEN [pool |-> pool, given |-> << >>]
                        ELSE Grant(f[i - 1], rows[line[i]][p].limit)]

LEMMA SomethingHands ==
  ASSUME NEW line, NEW rows, NEW p, NEW pool, NEW n \in Nat
  PROVE  \E f : Hands(f, line, rows, p, pool, n)
<1> DEFINE Bad == {k \in Nat : ~ \E f : Hands(f, line, rows, p, pool, k)}
<1> SUFFICES ASSUME Bad # {} PROVE FALSE
  OBVIOUS
<1>1. PICK k \in Bad : \A j \in Bad : k <= j
  <2>1. Bad \subseteq Nat
    OBVIOUS
  <2> HIDE DEF Bad
  <2> QED  BY <2>1, LeastNatural
<1> DEFINE start == [pool |-> pool, given |-> << >>]
<1>2. CASE k = 0
  <2> DEFINE f == [i \in 0 .. k |-> start]
  <2>1. Hands(f, line, rows, p, pool, k)
    BY <1>2 DEF Hands
  <2> QED  BY <1>1, <2>1
<1>3. CASE k # 0
  <2>1. k - 1 \in Nat /\ k - 1 \notin Bad
    BY <1>1, <1>3
  <2>2. PICK h : Hands(h, line, rows, p, pool, k - 1)
    BY <2>1
  <2> DEFINE f == [i \in 0 .. k |-> IF i = 0 THEN start
                                    ELSE Grant(h[i - 1], rows[line[i]][p].limit)]
  <2>3. \A i \in 0 .. (k - 1) : h[i] = IF i = 0 THEN start ELSE Grant(h[i - 1], rows[line[i]][p].limit)
    BY <2>2 DEF Hands
  <2>4. \A i \in 0 .. (k - 1) : f[i] = h[i]
    <3> TAKE i \in 0 .. (k - 1)
    <3>1. i \in 0 .. k
      BY <1>1
    <3>2. f[i] = IF i = 0 THEN start ELSE Grant(h[i - 1], rows[line[i]][p].limit)
      BY <3>1
    <3> HIDE DEF f
    <3> QED  BY <2>3, <3>2
  <2>5. \A i \in 0 .. k : i # 0 => f[i - 1] = h[i - 1]
    <3> SUFFICES ASSUME NEW i \in 0 .. k, i # 0 PROVE f[i - 1] = h[i - 1]
      OBVIOUS
    <3>1. i - 1 \in 0 .. (k - 1)
      OBVIOUS
    <3> HIDE DEF f
    <3> QED  BY <2>4, <3>1
  <2>6. Hands(f, line, rows, p, pool, k)
    BY <2>5 DEF Hands
  <2> QED  BY <1>1, <2>6
<1> QED  BY <1>2, <1>3

LEMMA GivenFollows ==
  ASSUME NEW line, Len(line) \in Nat, NEW rows, NEW p, NEW pool
  PROVE  \E f : /\ GivenAlong(line, rows, p, pool) = f[Len(line)].given
                /\ f[0] = [pool |-> pool, given |-> << >>]
                /\ \A i \in 1 .. Len(line) : f[i] = Grant(f[i - 1], rows[line[i]][p].limit)
<1> DEFINE f == CHOOSE f : Hands(f, line, rows, p, pool, Len(line))
<1>1. GivenAlong(line, rows, p, pool) = f[Len(line)].given
  BY DEF GivenAlong, Hands
<1>2. Hands(f, line, rows, p, pool, Len(line))
  BY SomethingHands
<1> HIDE DEF f
<1>3. \A i \in 0 .. Len(line) : f[i] = IF i = 0 THEN [pool |-> pool, given |-> << >>]
                                       ELSE Grant(f[i - 1], rows[line[i]][p].limit)
  BY <1>2 DEF Hands
<1> QED  BY <1>1, <1>3

LEMMA EveryoneIsFundedInOrder == ASSUME ReportsInv PROVE FundedInOrder
<1> SUFFICES ASSUME NEW b \in plans, NEW p \in b.from .. nowIn
             PROVE  LET rows == Folded(Book, p)
                    IN  GivenInOrder(rows, p, Queue(rows, p), Funded(Book, rows, p))
  BY DEF FundedInOrder
<1> DEFINE rows == Folded(Book, p)
<1> DEFINE line == Queue(rows, p)
<1> DEFINE N == Cardinality(Wanting(rows, p))
<1> DEFINE given == Funded(Book, rows, p)
<1> DEFINE asked == [i \in DOMAIN line |-> rows[line[i]][p].limit]
<1>1. p \in 1 .. nowIn /\ income[p] \in Int /\ Book.income = income
  <2>1. b.from \in Nat \ {0}
    BY BudgetsAssumption DEF ReportsInv, Home, PlanFits
  <2>2. nowIn \in 1 .. EndOfTime /\ income \in [0 .. EndOfTime -> Int]
    BY DEF ReportsInv, BudgetsTypeOK, Periods
  <2>3. p \in 1 .. nowIn /\ p \in 0 .. EndOfTime
    BY <2>1, <2>2, BudgetsAssumption
  <2> QED  BY <2>2, <2>3 DEF Book
<1>2. \A c \in CategoriesFiled : AsksFor(rows[c][p])
  BY <1>1, EveryRowAsks DEF BudgetTargets
<1> HIDE DEF rows
<1>3. /\ N \in Nat /\ \A n \in 1 .. N : line[n] \in Wanting(rows, p)
      /\ \A m, n \in 1 .. N : Rank(rows, line[m], p) < Rank(rows, line[n], p) => m < n
  <2>1. \A c \in CategoriesFiled : rows[c][p].priority \in 0 .. MaxRank
    BY <1>2 DEF AsksFor
  <2> QED  BY <2>1, QueueRanks
<1>4. DOMAIN line = 1 .. N
  BY DEF Queue
<1>5. Len(line) = N
  BY <1>3, <1>4
<1>6. \A n \in 1 .. N : line[n] \in CategoriesFiled /\ rows[line[n]][p].limit \in Nat
  BY <1>2, <1>3 DEF Wanting, AsksFor
<1> HIDE DEF line
<1>7. asked \in [1 .. N -> Nat]
  BY <1>4, <1>6
<1> DEFINE pool == income[p]
<1> HIDE DEF N, pool
<1>8. PICK f : /\ GivenAlong(line, rows, p, pool) = f[N].given
               /\ f[0] = [pool |-> pool, given |-> << >>]
               /\ \A i \in 1 .. N : f[i] = Grant(f[i - 1], rows[line[i]][p].limit)
  <2>1. Len(line) \in Nat
    BY <1>3, <1>5
  <2> QED  BY <1>5, <2>1, GivenFollows
<1>9. given = f[N].given
  BY <1>1, <1>8 DEF Funded, line, pool
<1>10. \A i \in 1 .. N : f[i] = Grant(f[i - 1], asked[i])
  BY <1>4, <1>8
<1> HIDE DEF asked, given
<1>11. GivenWell(given, asked, pool, N)
  <2>1. N \in Nat /\ pool \in Int
    BY <1>1, <1>3 DEF pool
  <2>2. GrantsAlong(f, asked, pool, N)
    BY <1>7, <1>8, <1>10 DEF GrantsAlong
  <2> QED  BY <1>9, <2>1, <2>2, FundsGoAlong
<1>12. ASSUME NEW i \in 1 .. N, NEW j \in 1 .. N,
              rows[line[i]][p].priority # 0, rows[line[j]][p].priority = 0
       PROVE  i < j
  <2>1. rows[line[i]][p].priority \in 0 .. MaxRank
    BY <1>2, <1>6 DEF AsksFor
  <2>2. Rank(rows, line[i], p) < Rank(rows, line[j], p)
    BY <1>12, <2>1, BudgetsAssumption DEF Rank
  <2> QED  BY <1>3, <2>2
<1>13. GivenInOrder(rows, p, line, given)
  BY <1>4, <1>11, <1>12 DEF GivenInOrder, GivenWell, asked, pool
<1> QED  BY <1>13 DEF rows, line, given

(***************************************************************************)
(* What a report says adds up, for every household, every range and every  *)
(* plan: a period reads the same from wherever it is folded, a fund that   *)
(* nobody draws on asks for the same every period but for the last unit of *)
(* a quotient, and money that came in is given out once and in order.      *)
(***************************************************************************)
THEOREM FiguresAlwaysAddUp == BudgetsSpec => []FiguresAddUp
<1>1. ReportsInv => FiguresAddUp
  BY EveryRangeAgrees, EveryFundSaves, EveryoneIsFundedInOrder DEF FiguresAddUp
<1> QED  BY ReportsBegin, ReportsStep, <1>1, PTL DEF BudgetsSpec

-------------------------------------------------------------------------------
(***************************************************************************)
(* Side by side.  A step of MCServices is a step of one service and leaves *)
(* the variables of the others alone.                                      *)
(***************************************************************************)
LEMMA BeginSideBySide ==
  ServicesInit => /\ Init /\ RemindersInit /\ PlacesInit /\ QueueInit
                  /\ CategoriesInit /\ FilesInit /\ BudgetsInit
BY DEF ServicesInit

LEMMA StepSideBySide ==
  ASSUME [ServicesNext]_allVars
  PROVE  /\ [Next]_vars
         /\ [RemindersNext]_reminderVars /\ [PlacesNext]_placesVars /\ [QueueNext]_queueVars
         /\ [CategoriesNext]_categoryVars /\ [FilesNext]_fileVars /\ [BudgetsNext]_budgetVars
<1>1. CASE ServicesNext
  BY <1>1 DEF ServicesNext
<1>2. CASE UNCHANGED allVars
  BY <1>2 DEF allVars
<1> QED  BY <1>1, <1>2

(***************************************************************************)
(* In a behaviour of MCServices each service behaves as it does alone, so  *)
(* what is proved of it alone holds in the run that checks them together.  *)
(***************************************************************************)
THEOREM ServicesBehave ==
  ServicesSpec => /\ Spec /\ RemindersSpec /\ PlacesSpec /\ QueueSpec
                  /\ CategoriesSpec /\ FilesSpec /\ BudgetsSpec
<1>1. ServicesSpec => ServicesInit /\ [][ServicesNext]_allVars
  BY PTL DEF ServicesSpec
<1> QED
  BY <1>1, BeginSideBySide, StepSideBySide, PTL
     DEF Spec, RemindersSpec, PlacesSpec, QueueSpec, CategoriesSpec, FilesSpec, BudgetsSpec

(* The variables of every service keep their types throughout.             *)
THEOREM ServicesTypeCorrect == ServicesSpec => []ServicesTypeOK
<1>1. /\ RemindersTypeOK /\ PlacesTypeOK /\ QueueTypeOK
      /\ CategoriesTypeOK /\ FilesTypeOK /\ BudgetsTypeOK
      => ServicesTypeOK
  BY DEF ServicesTypeOK
<1> QED
  BY <1>1, ServicesBehave, RemindersTypeCorrect, PlacesTypeCorrect, QueueTypeCorrect,
     CategoriesTypeCorrect, FilesTypeCorrect, ReportsTypeCorrect, PTL
===============================================================================
