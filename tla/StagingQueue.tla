---------------------------- MODULE StagingQueue -----------------------------
(***************************************************************************)
(* The review queue and its commit (src/server/services/staging.ts): rows  *)
(* are proposed, edited and deleted while requests to commit a selection   *)
(* of them are under way, and while the accounts they name are frozen,     *)
(* archived, restored or deleted.                                          *)
(*                                                                         *)
(* A create and an edit hold the payee namespace lock and the locks of     *)
(* the accounts they name from their first relevant read to their commit,  *)
(* so each is one step.  A delete locks its rows only, and is one step.    *)
(* A commit is three: it reads its rows with no lock, then takes the locks *)
(* and validates what it read, then posts and marks the rows.              *)
(***************************************************************************)
EXTENDS Integers, FiniteSets

CONSTANTS Rows,            \* staged rows that may ever be proposed
          QueueAccounts,   \* the person's accounts
          Requests,        \* requests to commit, each with a key of its own
          Blank,           \* what the draft of an incomplete row names
          EditLimit        \* how often a row may be edited

ASSUME QueueAssumption == EditLimit \in Nat

VARIABLES queue,     \* queue[r]: staged_transaction
          account,   \* account[a]: open, frozen, archived or gone
          closing,   \* closing[a]: what an archive or a delete that holds the
                     \* account's lock, and has counted what names it, writes
          request,   \* request[q]: how far its transaction is, what it read
          entries,   \* entries posted from rows
          answered   \* the requests whose answer is stored under their key
queueVars == <<queue, account, closing, request, entries, answered>>

NoStage == [status |-> "none", version |-> 0, names |-> Blank]
Drafts == QueueAccounts \cup {Blank}
Waiting == {r \in Rows : queue[r].status = "staged"}

(* What a transaction of the queue locks besides the payee namespace: the  *)
(* accounts its drafts name.  (Mutant: the namespace alone.)               *)
LocksNothing(drafts) == {}

LockStagedDraftReferences(drafts) == drafts \cap QueueAccounts

(* A commit holds its locks while it is at "posting".                      *)
Lockable(drafts) ==
  /\ \A q \in Requests : request[q].at # "posting"
  /\ \A a \in LockStagedDraftReferences(drafts) : closing[a] = "no"

-----------------------------------------------------------------------------
(* The queue.                                                              *)

CreateStage(r, draft) ==
  /\ Lockable({draft})
  /\ queue[r].status = "none"
  /\ queue' = [queue EXCEPT ![r] = [status |-> "staged", version |-> 1, names |-> draft]]
  /\ UNCHANGED <<account, closing, request, entries, answered>>

(* updateStage of one row, bulkEditStages of several: all the selected     *)
(* rows are as the caller read them, or the request is stale.  A row the   *)
(* edit leaves as it was is not written.                                   *)
EditStages(rows, draft) ==
  /\ rows \subseteq Waiting
  /\ Lockable({draft} \cup {queue[r].names : r \in rows})
  /\ \A r \in rows : queue[r].version <= EditLimit
  /\ \E r \in rows : queue[r].names # draft
  /\ queue' = [r \in Rows |-> IF r \in rows /\ queue[r].names # draft
                              THEN [queue[r] EXCEPT !.names = draft, !.version = @ + 1]
                              ELSE queue[r]]
  /\ UNCHANGED <<account, closing, request, entries, answered>>

DeleteStages(rows) ==
  /\ rows \subseteq Waiting
  /\ rows # {}
  /\ queue' = [r \in Rows |-> IF r \in rows
                              THEN [queue[r] EXCEPT !.status = "deleted", !.version = @ + 1]
                              ELSE queue[r]]
  /\ UNCHANGED <<account, closing, request, entries, answered>>

-----------------------------------------------------------------------------
(* commitStages.                                                           *)

NotAsked == [at |-> "unsent"]

(* Somebody selects staged rows and sends them with the versions shown.    *)
Asks(q, rows) ==
  /\ request[q].at = "unsent"
  /\ rows \subseteq Waiting
  /\ rows # {}
  /\ request' = [request EXCEPT ![q] =
       [at |-> "sent", rows |-> rows, expected |-> [r \in rows |-> queue[r].version],
        read |-> <<>>, locks |-> {}]]
  /\ UNCHANGED <<queue, account, closing, entries, answered>>

(* A key that is answered replays the answer.                              *)
Replays(q) ==
  /\ request[q].at = "sent"
  /\ q \in answered
  /\ request' = [request EXCEPT ![q].at = "done"]
  /\ UNCHANGED <<queue, account, closing, entries, answered>>

Refuses(q) == /\ request' = [request EXCEPT ![q].at = "sent", ![q].read = <<>>, ![q].locks = {}]
              /\ UNCHANGED <<queue, account, closing, entries, answered>>

(* The rows are read, without a lock; one that is not staged refuses all.  *)
CommitReads(q) ==
  /\ request[q].at = "sent"
  /\ q \notin answered
  /\ request[q].rows \subseteq Waiting
  /\ request' = [request EXCEPT ![q].at = "reading",
                                ![q].read = [r \in request[q].rows |-> queue[r]]]
  /\ UNCHANGED <<queue, account, closing, entries, answered>>

(* Then the locks are taken and every row that was read is validated: it   *)
(* has the version that was shown and names an account open to changes.    *)
CommitLocks(q) ==
  LET read == request[q].read
      drafts == {read[r].names : r \in request[q].rows}
  IN  /\ request[q].at = "reading"
      /\ Lockable(drafts)
      /\ \A r \in request[q].rows : read[r].version = request[q].expected[r]
      /\ Blank \notin drafts
      /\ \A a \in drafts : account[a] = "open"
      /\ request' = [request EXCEPT ![q].at = "posting",
                                    ![q].locks = LockStagedDraftReferences(drafts)]
      /\ UNCHANGED <<queue, account, closing, entries, answered>>

(* The row is written only while it is still what was read.  (Mutant: it   *)
(* is written by its id alone.)                                            *)
MarkedById(r, read) == TRUE

StillAsRead(r, read) == queue[r].status = "staged" /\ queue[r].version = read.version

CountOf(r) == Cardinality({e \in entries : e.row = r})

(* Every row is posted and marked, and the answer stored, or nothing is.   *)
CommitPosts(q) ==
  LET read == request[q].read
  IN  /\ request[q].at = "posting"
      /\ \A r \in request[q].rows : StillAsRead(r, read[r])
      /\ entries' = entries \cup {[row |-> r, nth |-> CountOf(r) + 1, names |-> read[r].names,
                                   version |-> read[r].version, by |-> q] : r \in request[q].rows}
      /\ queue' = [r \in Rows |-> IF r \in request[q].rows
                                  THEN [status |-> "committed", version |-> read[r].version + 1,
                                        names |-> read[r].names]
                                  ELSE queue[r]]
      /\ answered' = answered \cup {q}
      /\ request' = [request EXCEPT ![q].at = "done", ![q].read = <<>>, ![q].locks = {}]
      /\ UNCHANGED <<account, closing>>

(* A refusal, or a connection that breaks, rolls back; the person may send *)
(* the same request again.                                                 *)
CommitRollsBack(q) == request[q].at \in {"reading", "posting"} /\ Refuses(q)

(* The answer is lost and the person sends the request again.              *)
AnswerLost(q) == request[q].at = "done" /\ Refuses(q)

-----------------------------------------------------------------------------
(* What accounts.ts does meanwhile.                                        *)

(* The plan or the choice of accounts changes: no lock a commit holds      *)
(* stands in the way.                                                      *)
Freezes(a, from, to) ==
  /\ account[a] = from
  /\ account' = [account EXCEPT ![a] = to]
  /\ UNCHANGED <<queue, closing, request, entries, answered>>

(* An archive or a delete takes the account's lock, and is refused when a  *)
(* staged row names it; a delete is refused when an entry does, too.       *)
Counts(a, standing) ==
  /\ account[a] \in {"open", "frozen"}
  /\ closing[a] = "no"
  /\ \A q \in Requests : request[q].at = "posting" => a \notin request[q].locks
  /\ \A r \in Waiting : queue[r].names # a
  /\ standing = "gone" => \A e \in entries : e.names # a
  /\ closing' = [closing EXCEPT ![a] = standing]
  /\ UNCHANGED <<queue, account, request, entries, answered>>

(* It writes, or breaks off.                                               *)
PutsAway(a) ==
  /\ closing[a] # "no"
  /\ closing' = [closing EXCEPT ![a] = "no"]
  /\ account' \in {account, [account EXCEPT ![a] = closing[a]]}
  /\ UNCHANGED <<queue, request, entries, answered>>

BringsBack(a) ==
  /\ account[a] = "archived"
  /\ \A q \in Requests : request[q].at = "posting" => a \notin request[q].locks
  /\ account' = [account EXCEPT ![a] = "open"]
  /\ UNCHANGED <<queue, closing, request, entries, answered>>

QueueInit ==
  /\ queue = [r \in Rows |-> NoStage]
  /\ account = [a \in QueueAccounts |-> "open"]
  /\ closing = [a \in QueueAccounts |-> "no"]
  /\ request = [q \in Requests |-> NotAsked]
  /\ entries = {}
  /\ answered = {}

QueueNext ==
  \/ \E r \in Rows, draft \in Drafts : CreateStage(r, draft)
  \/ \E rows \in SUBSET Rows, draft \in Drafts : EditStages(rows, draft)
  \/ \E rows \in SUBSET Rows : DeleteStages(rows)
  \/ \E q \in Requests : \/ \E rows \in SUBSET Rows : Asks(q, rows)
                         \/ Replays(q) \/ CommitReads(q) \/ CommitLocks(q) \/ CommitPosts(q)
                         \/ CommitRollsBack(q) \/ AnswerLost(q)
  \/ \E a \in QueueAccounts : \/ Freezes(a, "open", "frozen") \/ Freezes(a, "frozen", "open")
                              \/ \E standing \in {"archived", "gone"} : Counts(a, standing)
                              \/ PutsAway(a) \/ BringsBack(a)

QueueSpec == QueueInit /\ [][QueueNext]_queueVars
-----------------------------------------------------------------------------
(* Properties.                                                             *)

(* Every variable has its type, and an account that is being put away is   *)
(* not one that a commit is posting on: the two take the same lock.        *)
QueueTypeOK ==
  /\ \A r \in Rows : /\ queue[r].status \in {"none", "staged", "deleted", "committed"}
                     /\ queue[r].version \in 0 .. EditLimit + 2
                     /\ queue[r].names \in Drafts
  /\ account \in [QueueAccounts -> {"open", "frozen", "archived", "gone"}]
  /\ closing \in [QueueAccounts -> {"no", "archived", "gone"}]
  /\ \A q \in Requests : /\ request[q].at \in {"unsent", "sent", "reading", "posting", "done"}
                         /\ request[q] # NotAsked => request[q].rows \subseteq Rows
  /\ answered \subseteq Requests
  /\ \A q \in Requests : request[q].at = "posting" =>
       \A r \in request[q].rows : closing[request[q].read[r].names] = "no"

(* A commit posts the whole of its selection or nothing of it: a row in    *)
(* the books was posted once, as it was shown to whoever selected it, and  *)
(* with the rest of that selection; a row that was edited since, deleted   *)
(* or committed by somebody else takes the whole selection with it; and a  *)
(* request sent again posts nothing again.                                 *)
SelectionAllOrNothing ==
  /\ \A r \in Rows :
       LET posted == {e \in entries : e.row = r}
       IN  IF queue[r].status = "committed"
           THEN \E e \in entries : posted = {e} /\ e.names = queue[r].names
           ELSE posted = {}
  /\ \A q \in Requests :
       LET posted == {e \in entries : e.by = q}
       IN  /\ {e.row : e \in posted} = IF q \in answered THEN request[q].rows ELSE {}
           /\ \A e \in posted : e.version = request[q].expected[e.row]

(* Nothing is posted on an account that was archived or deleted while the  *)
(* rows naming it waited or the commit was under way.  (An account frozen  *)
(* after the commit has read which are frozen may still be posted on.)     *)
NothingOnClosedAccount ==
  [][\A e \in entries' \ entries : account[e.names] \in {"open", "frozen"}]_queueVars
=============================================================================
