------------------------------ MODULE LedgerFiles ------------------------------
(***************************************************************************)
(* Simple Balance files between ledgers                                    *)
(* (src/server/services/ledger-file.ts): a file is a ledger as it was; it  *)
(* is added to a ledger, its entries to the queue, or moved into one, part *)
(* by part and straight into the books.                                    *)
(*                                                                         *)
(* An entry keeps no name of its own on its way through queues, files and  *)
(* ledgers, only an origin, which differs with where it has been.  That a  *)
(* ledger is not given the same entry twice rests on every file calling it *)
(* the same.  Here each entry and row also has a `fact', which no code     *)
(* sees: what was once typed, staged or proposed.  An add and a part of a  *)
(* move hold every lock an entry and a row are written under, so each is   *)
(* one step; an export reads one snapshot.                                 *)
(***************************************************************************)
EXTENDS Integers, Sequences, FiniteSets

CONSTANTS Ledgers,
          MaxId,      \* ids are 1 .. MaxId, given out in order
          NoOne,      \* no ledger, no origin
          Bounds      \* how much there may be, and where people write

ASSUME FilesAssumption ==
  /\ MaxId \in Nat
  /\ NoOne \notin Ledgers \cup (1 .. MaxId)
  /\ \A b \in Bounds : b.ids \in 0 .. MaxId

VARIABLES thing,      \* thing[i]: the entry or the staged row with the id i
          issued,     \* the ids given out so far
          file,       \* the files there are, in the order of their export
          recurring,  \* the ledgers that hold a recurrence
          move,       \* move[l]: what was moved in, and whether it goes on
          room
fileVars == <<thing, issued, file, recurring, move, room>>

Ids == 1 .. MaxId
Nowhere == [is |-> "nothing", of |-> NoOne, origin |-> NoOne, became |-> NoOne, fact |-> NoOne]
Booked == {"entry", "deleted"}

In(l, kinds) == {i \in Ids : thing[i].of = l /\ thing[i].is \in kinds}
Facts == {thing[i].fact : i \in Ids} \ {NoOne}

New(is, l, origin, fact) ==
  [is |-> is, of |-> l, origin |-> origin, became |-> NoOne, fact |-> fact]

FilesInit ==
  /\ thing = [i \in Ids |-> Nowhere]
  /\ issued = 0
  /\ file = <<>>
  /\ recurring = {}
  /\ move = [l \in Ledgers |-> [brought |-> {}, goesOn |-> FALSE]]
  /\ room \in Bounds

-----------------------------------------------------------------------------
(* The ledger's own life.  What a person or an agent writes in it ends the *)
(* promise that a move of theirs goes on.                                  *)

Interrupt(l) == move' = [move EXCEPT ![l].goesOn = FALSE]

(* An entry typed, and a row staged: by a CSV, in the queue.               *)
Write(l, is) ==
  /\ l \in room.home
  /\ issued < room.ids /\ Cardinality(Facts) < room.facts
  /\ thing' = [thing EXCEPT ![issued + 1] = New(is, l, NoOne, issued + 1)]
  /\ issued' = issued + 1
  /\ Interrupt(l)
  /\ UNCHANGED <<file, recurring, room>>

CreateRecurrence(l) ==
  /\ l \in room.home \ recurring
  /\ recurring' = recurring \cup {l}
  /\ Interrupt(l)
  /\ UNCHANGED <<thing, issued, file, room>>

(* The scheduler's row is nobody's writing and interrupts nothing.         *)
ProposeRow(l) ==
  /\ l \in recurring
  /\ issued < room.ids /\ Cardinality(Facts) < room.facts
  /\ thing' = [thing EXCEPT ![issued + 1] = New("waiting", l, NoOne, issued + 1)]
  /\ issued' = issued + 1
  /\ UNCHANGED <<file, recurring, move, room>>

(* The unique index over the origins of entries.                           *)
OriginFree(l, origin) ==
  origin = NoOne \/ \A e \in In(l, Booked) : thing[e].origin # origin

CommitRow(i) ==
  /\ thing[i].is = "waiting" /\ issued < room.ids
  /\ OriginFree(thing[i].of, thing[i].origin)
  /\ thing' = [thing EXCEPT
                 ![i].is = "committed", ![i].became = issued + 1,
                 ![issued + 1] = New("entry", thing[i].of, thing[i].origin, thing[i].fact)]
  /\ issued' = issued + 1
  /\ UNCHANGED <<file, recurring, move, room>>

DiscardRow(i) ==
  /\ thing[i].is = "waiting"
  /\ thing' = [thing EXCEPT ![i].is = "discarded"]
  /\ UNCHANGED <<issued, file, recurring, move, room>>

SetDeleted(i) ==
  /\ thing[i].is \in Booked
  /\ thing' = [thing EXCEPT ![i].is = IF @ = "entry" THEN "deleted" ELSE "entry"]
  /\ UNCHANGED <<issued, file, recurring, move, room>>

-----------------------------------------------------------------------------
(* Export.                                                                 *)

(* readCommittedFrom: the row an entry without an origin was committed     *)
(* from, which earlier files name.                                         *)
CommittedFrom(i) ==
  {r \in In(thing[i].of, {"committed"}) : thing[r].became = i /\ thing[r].origin = NoOne}

(* (Mutant: an entry is exported under its own id.)                        *)
OriginStored(i) == IF thing[i].origin # NoOne THEN thing[i].origin ELSE i

Origin(i) ==
  IF thing[i].origin # NoOne THEN thing[i].origin
  ELSE IF thing[i].is \in Booked /\ CommittedFrom(i) # {}
       THEN CHOOSE r \in CommittedFrom(i) : TRUE
  ELSE i

Export(l) ==
  /\ Len(file) < room.files
  /\ LET Named(kinds) == {[id |-> Origin(i), fact |-> thing[i].fact] : i \in In(l, kinds)}
         snapshot == [live |-> Named({"entry"}), deleted |-> Named({"deleted"}),
                      staged |-> Named({"waiting"}), recurs |-> l \in recurring]
     IN /\ \A f \in DOMAIN file : file[f] # snapshot
        /\ file' = Append(file, snapshot)
  /\ UNCHANGED <<thing, issued, recurring, move, room>>

-----------------------------------------------------------------------------
(* Import.                                                                 *)

(* findImportOrigins, branch by branch.                                    *)
FindImportOrigins(l) ==
  In(l, Booked) \cup {thing[i].origin : i \in In(l, Booked)}
  \cup In(l, {"waiting"}) \cup {thing[i].origin : i \in In(l, {"waiting"})}
  \cup {r \in In(l, {"committed"}) : thing[r].origin = NoOne}

(* findWaitingOrigins                                                      *)
FindWaitingOrigins(l) ==
  (In(l, {"waiting"}) \cup {thing[i].origin : i \in In(l, {"waiting"})})
    \ (In(l, Booked) \cup {thing[i].origin : i \in In(l, Booked)})

(* moveBlocked: something here came from no file.                          *)
MoveBlocked(l) == \E i \in In(l, Booked \cup {"waiting"}) : thing[i].origin = NoOne

(* The next ids, given out to a set of items in any fixed order.           *)
Numbered(items) ==
  CHOOSE at \in [items -> (issued + 1) .. (issued + Cardinality(items))] :
    \A x, y \in items : x # y => at[x] # at[y]

(* The records that stand for three sets of items, with their origins.     *)
Bring(l, entries, voided, rows) ==
  LET items == entries \cup voided \cup rows
      at == Numbered(items)
      is(x) == IF x \in entries THEN "entry" ELSE IF x \in voided THEN "deleted" ELSE "waiting"
  IN /\ issued + Cardinality(items) <= room.ids
     /\ thing' = [i \in Ids |->
                   IF \E x \in items : at[x] = i
                   THEN LET x == CHOOSE y \in items : at[y] = i
                        IN New(is(x), l, x.id, x.fact)
                   ELSE thing[i]]
     /\ issued' = issued + Cardinality(items)

NotFound(l, items) == {x \in items : x.id \notin FindImportOrigins(l)}

(* Entries go to the queue; deleted ones are not brought.                  *)
AddLedgerFile(l, f) ==
  /\ Bring(l, {}, {}, NotFound(l, file[f].live \cup file[f].staged))
  /\ recurring' = IF file[f].recurs THEN recurring \cup {l} ELSE recurring
  /\ Interrupt(l)
  /\ UNCHANGED <<file, room>>

(* (Mutant: a move refuses only over what came from no file.)              *)
MoveUnblocked(l, part) == ~MoveBlocked(l)

MoveQualifies(l, part) ==
  /\ ~MoveBlocked(l)
  /\ \A x \in part : x.id \notin FindWaitingOrigins(l)

(* A part carries any of the file's entries and of its own staged rows,    *)
(* which stage again; the recurrences come with the last part.             *)
MoveLedgerFile(l, f, part, rows, last) ==
  /\ part \cup rows # {} \/ last
  /\ MoveQualifies(l, part)
  /\ Bring(l, NotFound(l, part \cap file[f].live), NotFound(l, part \cap file[f].deleted),
           NotFound(l, rows))
  /\ recurring' = IF last /\ file[f].recurs THEN recurring \cup {l} ELSE recurring
  /\ move' = [move EXCEPT ![l].brought = @ \cup {x.fact : x \in part},
                          ![l].goesOn = ~last /\ l \notin recurring]
  /\ UNCHANGED <<file, room>>

-----------------------------------------------------------------------------
FilesNext ==
  \/ \E l \in Ledgers :
       \/ \E is \in {"entry", "waiting"} : Write(l, is)
       \/ CreateRecurrence(l) \/ ProposeRow(l) \/ Export(l)
       \/ \E f \in DOMAIN file :
            \/ AddLedgerFile(l, f)
            \/ \E part \in SUBSET (file[f].live \cup file[f].deleted),
                  rows \in SUBSET file[f].staged, last \in BOOLEAN :
                 MoveLedgerFile(l, f, part, rows, last)
  \/ \E i \in Ids : CommitRow(i) \/ DiscardRow(i) \/ SetDeleted(i)

FilesSpec == FilesInit /\ [][FilesNext]_fileVars

-----------------------------------------------------------------------------
FilesTypeOK ==
  /\ issued \in 0 .. MaxId
  /\ thing \in [Ids -> [is : {"nothing", "entry", "deleted", "waiting", "committed", "discarded"},
                        of : Ledgers \cup {NoOne}, origin : Ids \cup {NoOne},
                        became : Ids \cup {NoOne}, fact : Ids \cup {NoOne}]]
  /\ \A i \in Ids : thing[i] = Nowhere <=> i > issued
  /\ recurring \subseteq Ledgers

(* A ledger holds each entry once, in its books or in its queue, however   *)
(* often it went round in files: added again, exported before and after it *)
(* was committed, deleted here and live there (readCommittedFrom and       *)
(* findImportOrigins, which have to agree on what an entry is called).     *)
HeldOnce ==
  \A l \in Ledgers : \A i, j \in In(l, Booked \cup {"waiting"}) :
    thing[i].fact = thing[j].fact => i = j

(* What was moved is in the books and not in the queue, and a move that    *)
(* nobody interrupts is never shut out by what it brought itself           *)
(* (findWaitingOrigins, and the recurrences that moveLedgerFile leaves to  *)
(* the last part).                                                         *)
MovesGoThrough ==
  \A l \in Ledgers :
    /\ move[l].brought \subseteq {thing[i].fact : i \in In(l, Booked)}
    /\ move[l].goesOn => ~MoveBlocked(l)
=============================================================================
