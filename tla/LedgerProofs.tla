---------------------------- MODULE LedgerProofs ----------------------------
(***************************************************************************)
(* Proofs about Ledger, for every number of accounts, entries, currencies  *)
(* and days, and every set of drafts, openings and patches.                *)
(***************************************************************************)
EXTENDS Ledger, SumTheorems

Slot == [Slots -> Int]

-----------------------------------------------------------------------------
(* What the helpers return.                                                *)

(* Two postings are whole amounts on the two slots they name.              *)
LEMMA PairIs ==
  ASSUME NEW x \in LedgerAccounts, NEW y \in LedgerAccounts, x # y, NEW day \in Days, NEW n \in Int
  PROVE  /\ Pair(x, y, day, n) \in Slot
         /\ \A la \in LedgerAccounts, d \in Days :
              d # day \/ (la # x /\ la # y) => Pair(x, y, day, n)[<<la, d>>] = 0
         /\ Pair(x, y, day, n)[<<x, day>>] = n
         /\ Pair(x, y, day, n)[<<y, day>>] = -n
BY DEF Pair, Slot, Slots

(* A day's rows sum to a whole amount, and so do any days'.                *)
LEMMA SourcesFinite ==
  /\ IsFiniteSet(Sources)
  /\ IsFiniteSet(NotClosing)
  /\ IsFiniteSet(Days)
  /\ IsFiniteSet(LedgerAccounts)
  /\ IsFiniteSet({"closing"} \X Accounts)
<1>1. \A x : IsFiniteSet({x})
  BY FS_Singleton
<1>2. \A S, T : IsFiniteSet(S) /\ IsFiniteSet(T) => IsFiniteSet(S \cup T) /\ IsFiniteSet(S \X T)
  BY FS_Union, FS_Product
<1>3. /\ {"opening", "closing"} = {"opening"} \cup {"closing"}
      /\ CounterKinds = ({"income"} \cup {"expense"}) \cup ({"exchange"} \cup {"equity"})
  BY DEF CounterKinds
<1>4. IsFiniteSet({"opening", "closing"}) /\ IsFiniteSet(CounterKinds)
  <2>1. IsFiniteSet({"opening"} \cup {"closing"})
    BY <1>1, <1>2
  <2>2. IsFiniteSet({"income"} \cup {"expense"}) /\ IsFiniteSet({"exchange"} \cup {"equity"})
    BY <1>1, <1>2
  <2>3. QED
    BY <2>1, <2>2, <1>2, <1>3
<1>5. IsFiniteSet(Accounts) /\ IsFiniteSet(Entries) /\ IsFiniteSet(Currencies) /\ LastDay \in Nat
  BY LedgerAssumption
<1>6. IsFiniteSet({"entry"} \X Entries) /\ IsFiniteSet({"opening", "closing"} \X Accounts)
      /\ IsFiniteSet({"closing"} \X Accounts) /\ IsFiniteSet(Counters)
  BY <1>1, <1>2, <1>4, <1>5 DEF Counters
<1>7. IsFiniteSet(Sources) /\ IsFiniteSet(LedgerAccounts)
  BY <1>2, <1>5, <1>6 DEF Sources, LedgerAccounts
<1>8. IsFiniteSet(NotClosing)
  <2>1. NotClosing \subseteq Sources
    BY DEF NotClosing
  <2>2. QED
    BY <2>1, <1>7, FS_Subset
<1>9. IsFiniteSet(Days)
  <2>1. \A a, b \in Int : IsFiniteSet(a .. b)
    BY FS_Interval
  <2>2. QED
    BY <2>1, <1>5 DEF Days
<1>10. QED
  BY <1>6, <1>7, <1>8, <1>9

Postings == [Sources -> Slot]

(* What a draft posts: whole amounts, on its own accounts and day only.    *)
LEMMA PostingsAre ==
  ASSUME NEW d, WellFormed(d), NEW accts, \A a \in Accounts : accts[a].currency \in Currencies
  PROVE  /\ PostingsOf(d, accts) \in Slot
         /\ \A a \in Accounts, day \in Days :
              a \notin Sides(d) \/ day # d.day => PostingsOf(d, accts)[<<a, day>>] = 0
         /\ \A a \in Sides(d) : a \in Accounts /\ PostingsOf(d, accts)[<<a, d.day>>] # 0
         /\ (d.type = "transfer" /\ accts[d.from].currency = accts[d.to].currency
               => d.sent = d.received)
              => \A a \in Accounts : PostingsOf(d, accts)[<<a, d.day>>] = Effect(d, a)
<1> DEFINE c(side) == accts[side].currency
<1>0. d.day \in Days /\ d.sent \in Nat \ {0} /\ d.received \in Nat \ {0} /\ d.from # d.to
  BY DEF WellFormed
<1>1. Nobody \notin Accounts
  BY LedgerAssumption
<1>2. \A k \in CounterKinds, side \in Accounts :
        /\ <<k, c(side)>> \in LedgerAccounts
        /\ \A a \in Accounts : a # <<k, c(side)>> /\ a \in LedgerAccounts
  BY CountersApart DEF Counters, LedgerAccounts
<1>3. CounterKind(d) \in CounterKinds /\ "exchange" \in CounterKinds
  BY DEF CounterKind, CounterKinds
<1>4. CASE d.type = "deposit"
  <2> DEFINE counter == <<CounterKind(d), c(d.to)>>
  <2>1. d.from = Nobody /\ d.to \in Accounts /\ d.sent = d.received
    BY <1>4 DEF WellFormed
  <2>2. PostingsOf(d, accts) = Pair(d.to, counter, d.day, d.sent)
    BY <1>4 DEF PostingsOf
  <2>3. /\ d.to \in LedgerAccounts /\ counter \in LedgerAccounts /\ d.sent \in Int
        /\ \A a \in Accounts : a \in LedgerAccounts /\ a # counter
    BY <1>0, <1>2, <1>3, <2>1
  <2> HIDE DEF counter
  <2>4. /\ PostingsOf(d, accts) \in Slot
        /\ \A la \in LedgerAccounts, day \in Days :
             day # d.day \/ (la # d.to /\ la # counter) => PostingsOf(d, accts)[<<la, day>>] = 0
        /\ PostingsOf(d, accts)[<<d.to, d.day>>] = d.sent
    BY <1>0, <2>1, <2>2, <2>3 DEF Pair, Slot, Slots
  <2> QED
    BY <1>0, <1>1, <2>1, <2>3, <2>4, <1>4 DEF Sides, Effect
<1>5. CASE d.type = "withdrawal"
  <2> DEFINE counter == <<CounterKind(d), c(d.from)>>
  <2>1. d.to = Nobody /\ d.from \in Accounts /\ d.sent = d.received
    BY <1>5 DEF WellFormed
  <2>2. PostingsOf(d, accts) = Pair(d.from, counter, d.day, -d.sent)
    BY <1>5 DEF PostingsOf
  <2>3. /\ d.from \in LedgerAccounts /\ counter \in LedgerAccounts /\ -d.sent \in Int
        /\ \A a \in Accounts : a \in LedgerAccounts /\ a # counter
    BY <1>0, <1>2, <1>3, <2>1
  <2> HIDE DEF counter
  <2>4. /\ PostingsOf(d, accts) \in Slot
        /\ \A la \in LedgerAccounts, day \in Days :
             day # d.day \/ (la # d.from /\ la # counter) => PostingsOf(d, accts)[<<la, day>>] = 0
        /\ PostingsOf(d, accts)[<<d.from, d.day>>] = -d.sent
    BY <1>0, <2>1, <2>2, <2>3 DEF Pair, Slot, Slots
  <2> QED
    BY <1>0, <1>1, <2>1, <2>3, <2>4, <1>5 DEF Sides, Effect
<1>6. CASE d.type = "transfer" /\ c(d.from) = c(d.to)
  <2>1. d.to \in Accounts /\ d.from \in Accounts
    BY <1>6 DEF WellFormed
  <2>2. PostingsOf(d, accts) = Pair(d.from, d.to, d.day, -d.sent)
    BY <1>6 DEF PostingsOf
  <2>3. d.from \in LedgerAccounts /\ d.to \in LedgerAccounts /\ -d.sent \in Int
    BY <1>0, <2>1 DEF LedgerAccounts
  <2>4. /\ PostingsOf(d, accts) \in Slot
        /\ \A la \in LedgerAccounts, day \in Days :
             day # d.day \/ (la # d.from /\ la # d.to) => PostingsOf(d, accts)[<<la, day>>] = 0
        /\ PostingsOf(d, accts)[<<d.from, d.day>>] = -d.sent
        /\ PostingsOf(d, accts)[<<d.to, d.day>>] = d.sent
    BY <1>0, <1>6, <2>2, <2>3 DEF Pair, Slot, Slots
  <2> QED
    BY <1>0, <1>1, <2>1, <2>4, <1>6 DEF Sides, Effect, LedgerAccounts
<1>7. CASE d.type = "transfer" /\ c(d.from) # c(d.to)
  <2> DEFINE out == Pair(d.from, <<"exchange", c(d.from)>>, d.day, -d.sent)
  <2> DEFINE in == Pair(d.to, <<"exchange", c(d.to)>>, d.day, d.received)
  <2>1. d.to \in Accounts /\ d.from \in Accounts
    BY <1>7 DEF WellFormed
  <2>2. PostingsOf(d, accts) = [slot \in Slots |-> out[slot] + in[slot]]
    BY <1>7 DEF PostingsOf
  <2>a. /\ d.from \in LedgerAccounts /\ d.to \in LedgerAccounts
        /\ <<"exchange", c(d.from)>> \in LedgerAccounts /\ d.from # <<"exchange", c(d.from)>>
        /\ <<"exchange", c(d.to)>> \in LedgerAccounts /\ d.to # <<"exchange", c(d.to)>>
        /\ -d.sent \in Int /\ d.received \in Int
    BY <1>0, <1>2, <1>3, <2>1
  <2>3. /\ out \in Slot
        /\ \A la \in LedgerAccounts, day \in Days :
             day # d.day \/ (la # d.from /\ la # <<"exchange", c(d.from)>>) => out[<<la, day>>] = 0
        /\ out[<<d.from, d.day>>] = -d.sent
    BY <1>0, <2>a DEF Pair, Slot, Slots
  <2>4. /\ in \in Slot
        /\ \A la \in LedgerAccounts, day \in Days :
             day # d.day \/ (la # d.to /\ la # <<"exchange", c(d.to)>>) => in[<<la, day>>] = 0
        /\ in[<<d.to, d.day>>] = d.received
    BY <1>0, <2>a DEF Pair, Slot, Slots
  <2> HIDE DEF out, in
  <2>5. PostingsOf(d, accts) \in Slot
    BY <2>2, <2>3, <2>4 DEF Slot
  <2>6. \A a \in Accounts, day \in Days :
          PostingsOf(d, accts)[<<a, day>>] = out[<<a, day>>] + in[<<a, day>>]
    BY <1>2, <1>3, <2>2 DEF Slots, LedgerAccounts
  <2>7. /\ Sides(d) = {d.from, d.to}
        /\ \A a \in Accounts : /\ a \in LedgerAccounts
                              /\ a # <<"exchange", c(d.from)>> /\ a # <<"exchange", c(d.to)>>
    BY <1>1, <1>2, <1>3, <2>1 DEF Sides
  <2> HIDE DEF c
  <2>8. \A a \in Accounts, day \in Days :
          a \notin Sides(d) \/ day # d.day => PostingsOf(d, accts)[<<a, day>>] = 0
    BY <2>3, <2>4, <2>6, <2>7
  <2>9. \A a \in Accounts : PostingsOf(d, accts)[<<a, d.day>>] = Effect(d, a)
    BY <1>0, <2>1, <2>3, <2>4, <2>6, <2>7 DEF Effect
  <2>10. \A a \in Sides(d) : a \in Accounts /\ PostingsOf(d, accts)[<<a, d.day>>] # 0
    BY <1>0, <2>1, <2>7, <2>9 DEF Effect
  <2> QED
    BY <2>5, <2>8, <2>9, <2>10
<1>8. d.type \in EntryTypes
  BY DEF WellFormed
<1>9. QED
  BY <1>4, <1>5, <1>6, <1>7, <1>8 DEF EntryTypes

(* Appending the difference leaves exactly what was wanted.                *)
LEMMA PostedIs ==
  ASSUME NEW p \in Postings, NEW wants, \A src \in DOMAIN wants : wants[src] \in Slot
  PROVE  PostedAfter(p, wants)
           = [src \in Sources |-> IF src \in DOMAIN wants THEN wants[src] ELSE p[src]]
<1>1. \A src \in Sources : src \in DOMAIN wants =>
        Added(p[src], Difference(p[src], wants[src])) = wants[src]
  <2> SUFFICES ASSUME NEW src \in Sources, src \in DOMAIN wants
               PROVE  Added(p[src], Difference(p[src], wants[src])) = wants[src]
    OBVIOUS
  <2>1. p[src] \in Slot /\ wants[src] \in Slot
    BY DEF Postings
  <2>2. \A slot \in Slots : p[src][slot] + (wants[src][slot] - p[src][slot]) = wants[src][slot]
    BY <2>1 DEF Slot
  <2>3. wants[src] = [slot \in Slots |-> wants[src][slot]]
    BY <2>1 DEF Slot
  <2> QED
    BY <2>2, <2>3 DEF Added, Difference
<1> QED
  BY <1>1 DEF PostedAfter

(* The sums a closing is measured from are whole, and read nothing but the *)
(* rows of openings and entries on the account itself.                     *)
LEMMA NetType ==
  ASSUME NEW p \in Postings, NEW a \in Accounts
  PROVE  /\ \A day \in Days : NetOn(p, a, day) \in Int
         /\ \A days \in SUBSET Days : NetOver(p, a, days) \in Int
<1>1. \A day \in Days : NetOn(p, a, day) \in Int
  <2> TAKE day \in Days
  <2>1. \A src \in NotClosing : [s \in NotClosing |-> p[s][<<a, day>>]][src] \in Int
    BY DEF Postings, Slot, Slots, NotClosing, LedgerAccounts
  <2> QED
    BY <2>1, SumType, SourcesFinite DEF NetOn
<1>2. \A days \in SUBSET Days : NetOver(p, a, days) \in Int
  <2> TAKE days \in SUBSET Days
  <2>1. \A day \in days : [d \in Days |-> NetOn(p, a, d)][day] \in Int
    BY <1>1
  <2>2. IsFiniteSet(days)
    BY SourcesFinite, FS_Subset
  <2> QED
    BY <2>1, <2>2, SumType DEF NetOver
<1> QED
  BY <1>1, <1>2

LEMMA NetSame ==
  ASSUME NEW p \in Postings, NEW q \in Postings, NEW a \in Accounts,
         \A src \in NotClosing, day \in Days : p[src][<<a, day>>] = q[src][<<a, day>>]
  PROVE  /\ \A day \in Days : NetOn(p, a, day) = NetOn(q, a, day)
         /\ \A days \in SUBSET Days : NetOver(p, a, days) = NetOver(q, a, days)
<1>1. \A day \in Days : NetOn(p, a, day) = NetOn(q, a, day)
  <2> TAKE day \in Days
  <2>1. \A src \in NotClosing : [s \in NotClosing |-> p[s][<<a, day>>]][src]
                                  = [s \in NotClosing |-> q[s][<<a, day>>]][src]
    OBVIOUS
  <2> QED
    BY <2>1, SumEqual, SourcesFinite DEF NetOn
<1>2. \A days \in SUBSET Days : NetOver(p, a, days) = NetOver(q, a, days)
  <2> TAKE days \in SUBSET Days
  <2>1. \A day \in days : [d \in Days |-> NetOn(p, a, d)][day] = [d \in Days |-> NetOn(q, a, d)][day]
    BY <1>1
  <2>2. IsFiniteSet(days)
    BY SourcesFinite, FS_Subset
  <2> QED
    BY <2>1, <2>2, SumEqual DEF NetOver
<1> QED
  BY <1>1, <1>2

(* The days up to a day are days.                                          *)
LEMMA DayPrefix == \A day \in Days : 1 .. day \in SUBSET Days
<1>1. LastDay \in Nat
  BY LedgerAssumption
<1> QED
  BY <1>1 DEF Days

(* A row a closing can be made from.                                       *)
Closable(row) ==
  /\ row.currency \in Currencies
  /\ row.status = "archived" => CalendarDay(row.archivedAt, zone) \in Days

(***************************************************************************)
(* A closing moves whole amounts between its account and the equity        *)
(* account of that account's currency, and nothing when it is in use.      *)
(***************************************************************************)
LEMMA ClosingIs ==
  ASSUME NEW p \in Postings, NEW a \in Accounts, NEW row, Closable(row)
  PROVE  LET c == ClosingWanted(p, a, row)
             eq == <<"equity", row.currency>>
         IN  /\ c \in Slot
             /\ eq \in LedgerAccounts /\ eq \notin Accounts
             /\ \A day \in Days : c[<<eq, day>>] = -c[<<a, day>>]
             /\ \A day \in Days, la \in LedgerAccounts \ {a, eq} : c[<<la, day>>] = 0
             /\ row.status = "archived" =>
                  \A day \in Days : c[<<a, day>>]
                    = -Measured(p, a, CalendarDay(row.archivedAt, zone), day)
<1> DEFINE anchor == CalendarDay(row.archivedAt, zone)
<1> DEFINE eq == <<"equity", row.currency>>
<1>1. eq \in LedgerAccounts /\ eq \notin Accounts /\ a \in LedgerAccounts /\ a # eq
  BY CountersApart DEF Closable, LedgerAccounts, Counters, CounterKinds
<1> HIDE DEF eq
<1>2. CASE row.status = "archived"
  <2>1. \A day \in Days : Measured(p, a, anchor, day) \in Int
    <3>1. anchor \in Days /\ Days \subseteq Nat
      BY <1>2 DEF Closable, Days
    <3>2. 1 .. anchor \in SUBSET Days
      BY <3>1, DayPrefix
    <3>3. \A day \in Days : NetOn(p, a, day) \in Int
      BY NetType
    <3>4. NetOver(p, a, 1 .. anchor) \in Int
      BY <3>2, NetType
    <3> HIDE DEF anchor
    <3> QED
      BY <3>1, <3>3, <3>4 DEF Measured
  <2>2. ClosingWanted(p, a, row) = ClosingOf(p, a, anchor, row.currency)
    BY <1>2 DEF ClosingWanted
  <2>3. ClosingWanted(p, a, row)
          = [slot \in Slots |-> CASE slot[1] = a -> -Measured(p, a, anchor, slot[2])
                                  [] slot[1] = eq -> Measured(p, a, anchor, slot[2])
                                  [] OTHER -> 0]
    BY <2>2 DEF ClosingOf, eq
  <2> DEFINE m(day) == Measured(p, a, anchor, day)
  <2>4. \A day \in Days : m(day) \in Int
    BY <2>1
  <2>5. ClosingWanted(p, a, row)
          = [slot \in Slots |-> CASE slot[1] = a -> -m(slot[2])
                                  [] slot[1] = eq -> m(slot[2])
                                  [] OTHER -> 0]
    BY <2>3
  <2> HIDE DEF m
  <2>6. /\ ClosingWanted(p, a, row) \in Slot
        /\ \A day \in Days : /\ ClosingWanted(p, a, row)[<<a, day>>] = -m(day)
                             /\ ClosingWanted(p, a, row)[<<eq, day>>] = m(day)
        /\ \A day \in Days, la \in LedgerAccounts \ {a, eq} : ClosingWanted(p, a, row)[<<la, day>>] = 0
    BY <1>1, <2>4, <2>5 DEF Slot, Slots
  <2>7. \A day \in Days : ClosingWanted(p, a, row)[<<eq, day>>] = -ClosingWanted(p, a, row)[<<a, day>>]
    BY <2>4, <2>6
  <2> QED
    BY <1>1, <2>6, <2>7 DEF m, eq
<1>3. CASE row.status # "archived"
  <2>1. ClosingWanted(p, a, row) = [slot \in Slots |-> 0]
    BY <1>3 DEF ClosingWanted, Nothing
  <2>2. /\ ClosingWanted(p, a, row) \in Slot
        /\ \A la \in LedgerAccounts, day \in Days : ClosingWanted(p, a, row)[<<la, day>>] = 0
    BY <2>1 DEF Slot, Slots
  <2> QED
    BY <1>1, <1>3, <2>2 DEF eq
<1> QED
  BY <1>2, <1>3

(* A closing reads nothing of p but what openings and entries gave it.     *)
LEMMA ClosingSame ==
  ASSUME NEW p \in Postings, NEW q \in Postings, NEW a \in Accounts, NEW row, Closable(row),
         \A src \in NotClosing, day \in Days : p[src][<<a, day>>] = q[src][<<a, day>>]
  PROVE  ClosingWanted(p, a, row) = ClosingWanted(q, a, row)
<1> DEFINE anchor == CalendarDay(row.archivedAt, zone)
<1>1. CASE row.status = "archived"
  <2>1. anchor \in Days /\ 1 .. anchor \in SUBSET Days
    BY <1>1, DayPrefix DEF Closable
  <2>2. NetOver(p, a, 1 .. anchor) = NetOver(q, a, 1 .. anchor)
    BY <2>1, NetSame
  <2>3. \A day \in Days : NetOn(p, a, day) = NetOn(q, a, day)
    BY NetSame
  <2> HIDE DEF anchor
  <2>4. \A day \in Days : Measured(p, a, anchor, day) = Measured(q, a, anchor, day)
    BY <2>2, <2>3 DEF Measured
  <2>5. ClosingOf(p, a, anchor, row.currency) = ClosingOf(q, a, anchor, row.currency)
    BY <2>4 DEF ClosingOf, Slots
  <2> QED
    BY <1>1, <2>5 DEF ClosingWanted, anchor
<1>2. CASE row.status # "archived"
  BY <1>2 DEF ClosingWanted
<1> QED
  BY <1>1, <1>2

-----------------------------------------------------------------------------
(* What a settlement leaves: wants where it was asked for, the closings it *)
(* was asked to redo, and the accounts any row was written on.             *)

Remembered ==
  /\ written' \in [Sources -> SUBSET Accounts]
  /\ \A src \in Sources, a \in Accounts :
       /\ a \in written[src] => a \in written'[src]
       /\ a \in written'[src] /\ a \notin written[src]
            => \E day \in Days : posted'[src][<<a, day>>] # posted[src][<<a, day>>]
       /\ \A day \in Days : posted'[src][<<a, day>>] # posted[src][<<a, day>>] => a \in written'[src]

SettledTo(wants, closing, rows) ==
  /\ posted' \in Postings
  /\ \A src \in NotClosing : posted'[src] = IF src \in DOMAIN wants THEN wants[src] ELSE posted[src]
  /\ \A a \in Accounts : posted'[<<"closing", a>>] = IF a \in closing
                                                    THEN ClosingWanted(posted', a, rows[a])
                                                    ELSE posted[<<"closing", a>>]
  /\ Remembered

(* Rows go where the sums change.                                          *)
LEMMA WrittenIs ==
  ASSUME NEW p \in Postings, NEW w \in [Sources -> SUBSET Accounts], NEW wants,
         \A src \in DOMAIN wants : wants[src] \in Slot
  PROVE  LET q == PostedAfter(p, wants)
             v == WrittenAfter(w, p, wants)
         IN  /\ v \in [Sources -> SUBSET Accounts]
             /\ \A src \in Sources, a \in Accounts :
                  a \in v[src] <=> \/ a \in w[src]
                                   \/ \E day \in Days : q[src][<<a, day>>] # p[src][<<a, day>>]
<1> DEFINE q == PostedAfter(p, wants)
<1> DEFINE v == WrittenAfter(w, p, wants)
<1>1. q = [src \in Sources |-> IF src \in DOMAIN wants THEN wants[src] ELSE p[src]]
  BY PostedIs
<1>2. \A src \in Sources : v[src] = IF src \in DOMAIN wants THEN w[src] \cup RowsOn(p[src], wants[src])
                                    ELSE w[src]
  BY DEF WrittenAfter
<1>3. v \in [Sources -> SUBSET Accounts]
  BY DEF WrittenAfter, RowsOn
<1>4. \A a \in Accounts, day \in Days : <<a, day>> \in Slots
  BY DEF Slots, LedgerAccounts
<1>5. \A src \in Sources, a \in Accounts : src \in DOMAIN wants =>
        (a \in RowsOn(p[src], wants[src]) <=> \E day \in Days : wants[src][<<a, day>>] # p[src][<<a, day>>])
  <2> SUFFICES ASSUME NEW src \in Sources, NEW a \in Accounts, src \in DOMAIN wants
               PROVE  a \in RowsOn(p[src], wants[src])
                        <=> \E day \in Days : wants[src][<<a, day>>] # p[src][<<a, day>>]
    OBVIOUS
  <2>2. \A day \in Days : Difference(p[src], wants[src])[<<a, day>>] # 0
                            <=> wants[src][<<a, day>>] # p[src][<<a, day>>]
    <3> TAKE day \in Days
    <3>1. wants[src][<<a, day>>] \in Int /\ p[src][<<a, day>>] \in Int
      BY <1>4 DEF Postings, Slot
    <3>2. Difference(p[src], wants[src])[<<a, day>>] = wants[src][<<a, day>>] - p[src][<<a, day>>]
      BY <1>4 DEF Difference
    <3>3. \A m, n \in Int : m - n # 0 <=> m # n
      OBVIOUS
    <3> QED
      BY <3>1, <3>2, <3>3
  <2>3. a \in RowsOn(p[src], wants[src])
          <=> \E day \in Days : Difference(p[src], wants[src])[<<a, day>>] # 0
    BY DEF RowsOn
  <2> QED
    BY <2>2, <2>3
<1> HIDE DEF q, v
<1>6. \A src \in Sources, a \in Accounts :
        a \in v[src] <=> a \in w[src] \/ \E day \in Days : q[src][<<a, day>>] # p[src][<<a, day>>]
  BY <1>1, <1>2, <1>5
<1> QED
  BY <1>3, <1>6 DEF q, v

LEMMA SettleIs ==
  ASSUME TypeOK, NEW wants, DOMAIN wants \subseteq NotClosing,
         \A src \in DOMAIN wants : wants[src] \in Slot,
         NEW closing \in SUBSET Accounts, NEW rows, \A a \in closing : Closable(rows[a]),
         Settle(wants, closing, rows)
  PROVE  SettledTo(wants, closing, rows)
<1> DEFINE p == PostedAfter(posted, wants)
<1> DEFINE cls == Close(p, closing, rows)
<1>0. posted \in Postings /\ written \in [Sources -> SUBSET Accounts]
  BY DEF TypeOK, Postings, Slot
<1>1. p = [src \in Sources |-> IF src \in DOMAIN wants THEN wants[src] ELSE posted[src]]
  BY <1>0, PostedIs
<1>2. p \in Postings
  BY <1>0, <1>1 DEF Postings
<1>3. /\ posted' = PostedAfter(p, cls)
      /\ written' = WrittenAfter(WrittenAfter(written, posted, wants), p, cls)
  BY DEF Settle
<1> HIDE DEF p
<1>4. /\ DOMAIN cls = {"closing"} \X closing
      /\ \A a \in closing : cls[<<"closing", a>>] = ClosingWanted(p, a, rows[a])
  BY DEF Close
<1> HIDE DEF cls
<1>5. \A src \in DOMAIN cls : cls[src] \in Slot
  <2>1. \A a \in closing : cls[<<"closing", a>>] \in Slot
    <3> TAKE a \in closing
    <3>1. a \in Accounts /\ Closable(rows[a])
      OBVIOUS
    <3>2. ClosingWanted(p, a, rows[a]) \in Slot
      BY <1>2, <3>1, ClosingIs
    <3> QED
      BY <1>4, <3>2
  <2>2. \A src \in DOMAIN cls : \E a \in closing : src = <<"closing", a>>
    BY <1>4
  <2> QED
    BY <2>1, <2>2
<1>6. posted' = [src \in Sources |-> IF src \in DOMAIN cls THEN cls[src] ELSE p[src]]
  BY <1>2, <1>3, <1>5, PostedIs
<1>7. posted' \in Postings
  BY <1>2, <1>5, <1>6 DEF Postings
<1>8. \A src \in NotClosing : src \in Sources /\ src \notin DOMAIN cls
  BY <1>4 DEF NotClosing
<1>9. \A src \in NotClosing : posted'[src] = p[src]
  BY <1>6, <1>8
<1>10. \A src \in NotClosing : posted'[src] = IF src \in DOMAIN wants THEN wants[src] ELSE posted[src]
  BY <1>1, <1>8, <1>9
<1>11. \A a \in Accounts : <<"closing", a>> \in Sources /\ <<"closing", a>> \notin NotClosing
  BY DEF Sources, NotClosing
<1>12. \A a \in Accounts : posted'[<<"closing", a>>] = IF a \in closing
                                                      THEN ClosingWanted(posted', a, rows[a])
                                                      ELSE posted[<<"closing", a>>]
  <2> TAKE a \in Accounts
  <2>1. CASE a \in closing
    <3>1. posted'[<<"closing", a>>] = ClosingWanted(p, a, rows[a])
      BY <1>4, <1>6, <1>11, <2>1
    <3>2. ClosingWanted(p, a, rows[a]) = ClosingWanted(posted', a, rows[a])
      BY <1>2, <1>7, <1>9, <2>1, ClosingSame
    <3> QED
      BY <2>1, <3>1, <3>2
  <2>2. CASE a \notin closing
    BY <1>1, <1>4, <1>6, <1>11, <2>2
  <2> QED
    BY <2>1, <2>2
<1>13. Remembered
  <2> DEFINE v == WrittenAfter(written, posted, wants)
  <2>1. /\ v \in [Sources -> SUBSET Accounts]
        /\ \A src \in Sources, a \in Accounts :
             a \in v[src] <=> a \in written[src] \/ \E day \in Days : p[src][<<a, day>>] # posted[src][<<a, day>>]
    BY <1>0, WrittenIs DEF p
  <2> HIDE DEF v
  <2>2. /\ written' \in [Sources -> SUBSET Accounts]
        /\ \A src \in Sources, a \in Accounts :
             a \in written'[src] <=> a \in v[src] \/ \E day \in Days : posted'[src][<<a, day>>] # p[src][<<a, day>>]
    BY <1>2, <1>3, <1>5, <2>1, WrittenIs, SMTT(30) DEF v
  <2>3. \A src \in Sources : posted'[src] = p[src] \/ p[src] = posted[src]
    BY <1>1, <1>6, <1>8
  <2>4. \A src \in Sources, a \in Accounts :
          a \in written'[src] <=> \/ a \in written[src]
                                \/ \E day \in Days : posted'[src][<<a, day>>] # posted[src][<<a, day>>]
    <3> SUFFICES ASSUME NEW src \in Sources, NEW a \in Accounts
                 PROVE  a \in written'[src] <=>
                          \/ a \in written[src]
                          \/ \E day \in Days : posted'[src][<<a, day>>] # posted[src][<<a, day>>]
      OBVIOUS
    <3>1. CASE posted'[src] = p[src]
      BY <2>1, <2>2, <3>1
    <3>2. CASE p[src] = posted[src]
      BY <2>1, <2>2, <3>2, ZenonT(40)
    <3> QED
      BY <2>3, <3>1, <3>2
  <2> QED
    BY <2>2, <2>4 DEF Remembered
<1> QED
  BY <1>7, <1>10, <1>12, <1>13 DEF SettledTo

-----------------------------------------------------------------------------
(* A step on entries: the rows of es say what their new shapes say, and    *)
(* every archived account any of those rows moved is closed again.         *)

EntryRows == [Entries -> [status : {"none", "live", "deleted"},
                          draft : [type : EntryTypes, from : Accounts \cup {Nobody},
                                   to : Accounts \cup {Nobody}, sent : Nat \ {0},
                                   received : Nat \ {0}, day : Days, refund : BOOLEAN],
                          fromCurrency : Currencies \cup {Nobody},
                          toCurrency : Currencies \cup {Nobody}]]

Says(row, accts) == IF row.status = "live" THEN PostingsOf(row.draft, accts) ELSE Nothing

EntryWrite(es, closing) ==
  /\ account' = account /\ zone' = zone /\ now' = now
  /\ entry' \in EntryRows
  /\ \A e \in Entries : WellFormed(entry'[e].draft)
  /\ EntriesPlaced'
  /\ \A e \in Entries \ es : entry'[e] = entry[e]
  /\ closing \subseteq {a \in Accounts : Archived(a)}
  /\ \A a \in Accounts \ closing, e \in es, day \in Days :
       Archived(a) => posted'[<<"entry", e>>][<<a, day>>] = posted[<<"entry", e>>][<<a, day>>]
  /\ SettledTo([src \in {"entry"} \X es |-> Says(entry'[src[2]], account)], closing, account)

LEMMA SourcesAre ==
  /\ \A e \in Entries : <<"entry", e>> \in NotClosing /\ <<"entry", e>> \in Sources
  /\ \A a \in Accounts : /\ <<"opening", a>> \in NotClosing /\ <<"opening", a>> \in Sources
                         /\ <<"closing", a>> \in Sources /\ <<"closing", a>> \notin NotClosing
  /\ \A src \in NotClosing : \/ \E e \in Entries : src = <<"entry", e>>
                             \/ \E a \in Accounts : src = <<"opening", a>>
  /\ \A src \in Sources : src \in NotClosing \/ \E a \in Accounts : src = <<"closing", a>>
  /\ NotClosing \subseteq Sources
BY DEF Sources, NotClosing

LEMMA SlotsAre ==
  /\ \A a \in Accounts : a \in LedgerAccounts /\ a # Nobody
  /\ \A la \in LedgerAccounts, day \in Days : <<la, day>> \in Slots
  /\ \A slot \in Slots : \E la \in LedgerAccounts, day \in Days : slot = <<la, day>>
<1>1. Nobody \notin Accounts
  BY LedgerAssumption
<1> QED
  BY <1>1 DEF Slots, LedgerAccounts

(* What a row says is whole amounts, on its own accounts and day only.     *)
LEMMA SaysIs ==
  ASSUME NEW row, WellFormed(row.draft), NEW accts, \A a \in Accounts : accts[a].currency \in Currencies
  PROVE  /\ Says(row, accts) \in Slot
         /\ \A a \in Accounts, day \in Days :
              Says(row, accts)[<<a, day>>] # 0 => row.status = "live" /\ a \in Sides(row.draft)
         /\ \A a \in Sides(row.draft) :
              row.status = "live" => a \in Accounts /\ Says(row, accts)[<<a, row.draft.day>>] # 0
<1>1. Nothing \in Slot /\ \A a \in Accounts, day \in Days : Nothing[<<a, day>>] = 0
  BY SlotsAre DEF Nothing, Slot
<1>2. CASE row.status = "live"
  <2>1. Says(row, accts) = PostingsOf(row.draft, accts)
    BY <1>2 DEF Says
  <2> QED
    BY <1>2, <2>1, PostingsAre
<1>3. CASE row.status # "live"
  <2>1. Says(row, accts) = Nothing
    BY <1>3 DEF Says
  <2> QED
    BY <1>1, <1>3, <2>1
<1> QED
  BY <1>2, <1>3

(* Rows are remembered in every settled step.                              *)
LEMMA RecordedKept ==
  ASSUME TypeOK, Recorded, Remembered
  PROVE  Recorded'
<1> SUFFICES ASSUME NEW src \in Sources, NEW a \in Accounts, NEW day \in Days,
                    posted'[src][<<a, day>>] # 0
             PROVE  a \in written'[src]
  BY DEF Recorded
<1>1. CASE posted'[src][<<a, day>>] = posted[src][<<a, day>>]
  BY <1>1 DEF Recorded, Remembered
<1>2. CASE posted'[src][<<a, day>>] # posted[src][<<a, day>>]
  BY <1>2 DEF Remembered
<1> QED
  BY <1>1, <1>2

LEMMA ClosableRows ==
  ASSUME TypeOK
  PROVE  \A a \in Accounts : Closable(account[a]) /\ account[a].currency \in Currencies
BY DEF TypeOK, Closable, Archived, Instants, CalendarDay

(* After a closing is redone it is paired, and a row of it can only have   *)
(* been written on its own account.                                        *)
LEMMA ClosingsKeptPaired ==
  ASSUME TypeOK, ClosingsPaired, OwnRowsOnly, NEW closing \in SUBSET Accounts,
         posted' \in Postings, Remembered,
         \A a \in closing : Closable(account'[a]),
         \A a \in Accounts \ closing : account'[a].currency = account[a].currency,
         \A a \in Accounts : posted'[<<"closing", a>>] = IF a \in closing
                                                        THEN ClosingWanted(posted', a, account'[a])
                                                        ELSE posted[<<"closing", a>>]
  PROVE  ClosingsPaired' /\ \A a \in Accounts : written'[<<"closing", a>>] \subseteq {a}
<1>1. \A a \in Accounts, day \in Days :
        /\ posted'[<<"closing", a>>][<<<<"equity", account'[a].currency>>, day>>]
             = -posted'[<<"closing", a>>][<<a, day>>]
        /\ \A la \in LedgerAccounts \ {a, <<"equity", account'[a].currency>>} :
             posted'[<<"closing", a>>][<<la, day>>] = 0
  <2> TAKE a \in Accounts, day \in Days
  <2>1. CASE a \in closing
    <3>1. Closable(account'[a])
      BY <2>1
    <3>2. posted'[<<"closing", a>>] = ClosingWanted(posted', a, account'[a])
      BY <2>1
    <3> QED
      BY <3>1, <3>2, ClosingIs
  <2>2. CASE a \notin closing
    BY <2>2 DEF ClosingsPaired, Own
  <2> QED
    BY <2>1, <2>2
<1>2. ClosingsPaired'
  BY <1>1 DEF ClosingsPaired, Own
<1>3. ASSUME NEW a \in Accounts, NEW b \in Accounts, b # a, NEW day \in Days
      PROVE  posted'[<<"closing", a>>][<<b, day>>] = 0 /\ posted[<<"closing", a>>][<<b, day>>] = 0
  <2>1. /\ b \in LedgerAccounts \ {a, <<"equity", account'[a].currency>>}
        /\ b \in LedgerAccounts \ {a, <<"equity", account[a].currency>>}
    <3>1. account[a].currency \in Currencies /\ account'[a].currency \in Currencies
      BY ClosableRows DEF Closable
    <3>2. b \in LedgerAccounts /\ b \notin Counters
      BY CountersApart DEF LedgerAccounts
    <3> QED
      BY <1>3, <3>1, <3>2 DEF Counters, CounterKinds
  <2> QED
    BY <1>1, <2>1 DEF ClosingsPaired, Own
<1>4. ASSUME NEW a \in Accounts, NEW b \in written'[<<"closing", a>>], b # a
      PROVE  FALSE
  <2>1. b \in Accounts /\ <<"closing", a>> \in Sources
    BY SourcesAre DEF Remembered
  <2>2. b \notin written[<<"closing", a>>]
    BY <1>4 DEF OwnRowsOnly
  <2>3. \A day \in Days : posted'[<<"closing", a>>][<<b, day>>] = posted[<<"closing", a>>][<<b, day>>]
    BY <1>3, <1>4, <2>1
  <2>4. \E day \in Days : posted'[<<"closing", a>>][<<b, day>>] # posted[<<"closing", a>>][<<b, day>>]
    BY <2>1, <2>2 DEF Remembered
  <2> QED
    BY <2>3, <2>4
<1> QED
  BY <1>2, <1>4

LEMMA ClosingsPrimed ==
  ASSUME zone' = zone,
         \A a \in Accounts : posted'[<<"closing", a>>] = ClosingWanted(posted', a, account'[a])
  PROVE  ClosingsSettled'
BY DEF ClosingsSettled, ClosingWanted

(* A step on entries keeps the books.                                      *)
LEMMA EntryWriteKeeps ==
  ASSUME Books, NEW es \in SUBSET Entries, NEW closing, EntryWrite(es, closing)
  PROVE  Books' /\ (ClosingsSettled => ClosingsSettled')
<1> DEFINE wants == [src \in {"entry"} \X es |-> Says(entry'[src[2]], account)]
<1>0. /\ TypeOK /\ EntriesSettled /\ OpeningsSettled /\ ClosingsPaired
      /\ EntriesPlaced /\ Recorded /\ OwnRowsOnly /\ NoOrphanPostings
  BY DEF Books
<1>1. SettledTo(wants, closing, account) /\ account' = account /\ zone' = zone /\ now' = now
  BY DEF EntryWrite
<1>2. posted' \in Postings /\ Remembered
  BY <1>1 DEF SettledTo
<1>3. closing \in SUBSET Accounts /\ \A a \in closing : Archived(a)
  BY DEF EntryWrite
<1>4. \A e \in Entries : posted'[<<"entry", e>>] = Says(entry'[e], account)
  <2> TAKE e \in Entries
  <2>1. CASE e \in es
    <3>1. <<"entry", e>> \in DOMAIN wants /\ wants[<<"entry", e>>] = Says(entry'[e], account)
      BY <2>1
    <3> QED
      BY <1>1, <3>1, SourcesAre DEF SettledTo
  <2>2. CASE e \notin es
    <3>1. <<"entry", e>> \notin DOMAIN wants
      BY <2>2
    <3>2. posted'[<<"entry", e>>] = posted[<<"entry", e>>]
      BY <1>1, <3>1, SourcesAre DEF SettledTo
    <3>3. entry'[e] = entry[e]
      BY <2>2 DEF EntryWrite
    <3> QED
      BY <1>0, <3>2, <3>3 DEF EntriesSettled, Says
  <2> QED
    BY <2>1, <2>2
<1>5. \A a \in Accounts : posted'[<<"opening", a>>] = posted[<<"opening", a>>]
  <2> TAKE a \in Accounts
  <2>1. <<"opening", a>> \notin DOMAIN wants
    OBVIOUS
  <2> QED
    BY <1>1, <2>1, SourcesAre DEF SettledTo
<1>6. \A a \in Accounts : posted'[<<"closing", a>>] = IF a \in closing
                                                     THEN ClosingWanted(posted', a, account'[a])
                                                     ELSE posted[<<"closing", a>>]
  BY <1>1 DEF SettledTo
<1> HIDE DEF wants
<1>7. TypeOK'
  <2>1. posted' \in [Sources -> [Slots -> Int]] /\ written' \in [Sources -> SUBSET Accounts]
    BY <1>2 DEF Postings, Slot, Remembered
  <2> QED
    BY <1>0, <1>1, <2>1 DEF TypeOK, EntryWrite, EntryRows, Archived
<1>8. EntriesSettled'
  BY <1>1, <1>4 DEF EntriesSettled, Says
<1>9. OpeningsSettled'
  BY <1>0, <1>1, <1>5 DEF OpeningsSettled
<1>10. ClosingsPaired' /\ \A a \in Accounts : written'[<<"closing", a>>] \subseteq {a}
  <2>1. \A a \in closing : Closable(account'[a])
    BY <1>0, <1>1, <1>3, ClosableRows
  <2>2. \A a \in Accounts \ closing : account'[a].currency = account[a].currency
    BY <1>1
  <2> QED
    BY <1>0, <1>2, <1>3, <1>6, <2>1, <2>2, ClosingsKeptPaired
<1>11. \A a \in Accounts : written'[<<"opening", a>>] = written[<<"opening", a>>]
  <2> TAKE a \in Accounts
  <2>1. /\ written'[<<"opening", a>>] \subseteq Accounts /\ written[<<"opening", a>>] \subseteq Accounts
        /\ <<"opening", a>> \in Sources
    BY <1>0, <1>2, SourcesAre DEF TypeOK, Remembered
  <2> QED
    BY <1>2, <1>5, <2>1 DEF Remembered
<1>12. OwnRowsOnly'
  BY <1>0, <1>10, <1>11 DEF OwnRowsOnly
<1>13. NoOrphanPostings'
  <2>1. \A a \in Accounts : Kept(a)' <=> Kept(a)
    BY <1>1 DEF Kept
  <2>2. ASSUME NEW e \in Entries, NEW a \in written'[<<"entry", e>>] PROVE Kept(a)
    <3>1. a \in Accounts /\ <<"entry", e>> \in Sources
      BY <1>2, SourcesAre DEF Remembered
    <3>2. CASE a \in written[<<"entry", e>>]
      BY <1>0, <3>1, <3>2 DEF NoOrphanPostings
    <3>3. CASE a \notin written[<<"entry", e>>]
      <4>1. PICK day \in Days : posted'[<<"entry", e>>][<<a, day>>] # posted[<<"entry", e>>][<<a, day>>]
        BY <1>2, <2>2, <3>1, <3>3 DEF Remembered
      <4>2. posted[<<"entry", e>>] = Says(entry[e], account)
        BY <1>0 DEF EntriesSettled, Says
      <4>3. \/ Says(entry[e], account)[<<a, day>>] # 0
            \/ Says(entry'[e], account)[<<a, day>>] # 0
        BY <1>4, <4>1, <4>2
      <4>4. \A b \in Accounts : account[b].currency \in Currencies
        BY <1>0, ClosableRows
      <4>5. WellFormed(entry[e].draft) /\ WellFormed(entry'[e].draft)
        BY <1>0 DEF TypeOK, EntryWrite
      <4>6. \/ entry[e].status = "live" /\ a \in Sides(entry[e].draft)
            \/ entry'[e].status = "live" /\ a \in Sides(entry'[e].draft)
        BY <3>1, <4>3, <4>4, <4>5, SaysIs
      <4> QED
        BY <1>0, <2>1, <3>1, <4>6 DEF EntriesPlaced, EntryWrite, Stored
    <3> QED
      BY <3>2, <3>3
  <2>3. ASSUME NEW b \in Accounts, NEW a \in written'[<<"opening", b>>] PROVE Kept(a)
    BY <1>0, <1>11, <2>3, SourcesAre DEF NoOrphanPostings
  <2>4. ASSUME NEW b \in Accounts, NEW a \in written'[<<"closing", b>>] PROVE Kept(a)
    <3>1. a = b /\ <<"closing", b>> \in Sources
      BY <1>10, SourcesAre
    <3>2. CASE a \in closing
      BY <1>3, <3>2 DEF Archived, Kept
    <3>3. CASE a \notin closing
      <4>1. posted'[<<"closing", b>>] = posted[<<"closing", b>>]
        BY <1>6, <3>1, <3>3
      <4>2. a \in written[<<"closing", b>>]
        BY <1>2, <2>4, <3>1, <4>1 DEF Remembered
      <4> QED
        BY <1>0, <3>1, <4>2 DEF NoOrphanPostings
    <3> QED
      BY <3>2, <3>3
  <2>5. \A src \in Sources : \A a \in written'[src] : Kept(a)
    BY <2>2, <2>3, <2>4, SourcesAre
  <2>6. \A src \in Sources : written'[src] \subseteq Accounts
    BY <1>2 DEF Remembered
  <2> QED
    BY <2>1, <2>5, <2>6 DEF NoOrphanPostings
<1>14. ClosingsSettled => ClosingsSettled'
  <2> SUFFICES ASSUME ClosingsSettled, NEW a \in Accounts
               PROVE  posted'[<<"closing", a>>] = ClosingWanted(posted', a, account'[a])
    BY <1>1, ClosingsPrimed
  <2>1. CASE a \in closing
    BY <1>6, <2>1
  <2>2. CASE a \notin closing /\ ~ Archived(a)
    BY <1>1, <1>6, <2>2 DEF ClosingsSettled, ClosingWanted, Archived
  <2>3. CASE a \notin closing /\ Archived(a)
    <3>1. \A src \in NotClosing, day \in Days : posted'[src][<<a, day>>] = posted[src][<<a, day>>]
      <4>1. ASSUME NEW e \in Entries, NEW day \in Days
            PROVE  posted'[<<"entry", e>>][<<a, day>>] = posted[<<"entry", e>>][<<a, day>>]
        <5>1. CASE e \in es
          BY <2>3, <5>1 DEF EntryWrite
        <5>2. CASE e \notin es
          BY <1>0, <1>4, <5>2 DEF EntryWrite, EntriesSettled, Says
        <5> QED
          BY <5>1, <5>2
      <4> QED
        BY <1>5, <4>1, SourcesAre
    <3>2. Closable(account[a]) /\ posted \in Postings
      BY <1>0, ClosableRows DEF TypeOK, Postings, Slot
    <3>3. ClosingWanted(posted', a, account[a]) = ClosingWanted(posted, a, account[a])
      BY <1>2, <3>1, <3>2, ClosingSame
    <3> QED
      BY <1>1, <1>6, <2>3, <3>3 DEF ClosingsSettled
  <2> QED
    BY <2>1, <2>2, <2>3
<1>15. Recorded'
  BY <1>0, <1>2, RecordedKept
<1> QED
  BY <1>7, <1>8, <1>9, <1>10, <1>12, <1>13, <1>14, <1>15 DEF Books, EntryWrite

-----------------------------------------------------------------------------
(* A step on one account: its row is replaced, its opening pair says what  *)
(* the new row says, and its closing is redone.                            *)

AccountRows == [status : {"none", "live", "archived"}, currency : Currencies,
                opening : Int, openingDay : Days, archivedAt : Nat]

AccountWrite(a, row) ==
  /\ entry' = entry /\ zone' = zone /\ now' = now
  /\ account' = [account EXCEPT ![a] = row]
  /\ row \in AccountRows /\ row.status # "none"
  /\ row.status = "archived" => row.archivedAt \in Instants
  /\ Kept(a) /\ HasPostings(a) => row.currency = account[a].currency
  /\ posted' \in Postings /\ Remembered
  /\ posted'[<<"opening", a>>] = OpeningOf(a, row)
  /\ \A src \in NotClosing \ {<<"opening", a>>} : posted'[src] = posted[src]
  /\ \A b \in Accounts : posted'[<<"closing", b>>] = IF b = a
                                                    THEN ClosingWanted(posted', b, account'[b])
                                                    ELSE posted[<<"closing", b>>]

(* A draft's postings look at the currencies of its own accounts only.     *)
LEMMA PostingsLocal ==
  ASSUME NEW d, WellFormed(d), NEW f, NEW g, \A a \in Sides(d) : f[a].currency = g[a].currency
  PROVE  PostingsOf(d, f) = PostingsOf(d, g)
<1>1. Nobody \notin Accounts
  BY LedgerAssumption
<1>2. CASE d.type = "deposit"
  <2>1. d.to \in Sides(d)
    BY <1>1, <1>2 DEF WellFormed, Sides
  <2> QED
    BY <1>2, <2>1 DEF PostingsOf
<1>3. CASE d.type = "withdrawal"
  <2>1. d.from \in Sides(d)
    BY <1>1, <1>3 DEF WellFormed, Sides
  <2> QED
    BY <1>3, <2>1 DEF PostingsOf
<1>4. CASE d.type = "transfer"
  <2>1. d.from \in Sides(d) /\ d.to \in Sides(d)
    BY <1>1, <1>4 DEF WellFormed, Sides
  <2>2. f[d.from].currency = g[d.from].currency /\ f[d.to].currency = g[d.to].currency
    BY <2>1
  <2> QED
    BY <1>4, <2>2 DEF PostingsOf
<1>5. d.type \in EntryTypes
  BY DEF WellFormed
<1> QED
  BY <1>2, <1>3, <1>4, <1>5 DEF EntryTypes

(* An opening pair posts on its own account and equity only.               *)
LEMMA OpeningIs ==
  ASSUME NEW a \in Accounts, NEW row \in AccountRows
  PROVE  LET eq == <<"equity", row.currency>>
         IN  /\ OpeningOf(a, row) \in Slot
             /\ eq \in LedgerAccounts /\ eq \notin Accounts
             /\ OpeningOf(a, row)[<<a, row.openingDay>>] = row.opening
             /\ \A day \in Days : day # row.openingDay => OpeningOf(a, row)[<<a, day>>] = 0
             /\ \A day \in Days : OpeningOf(a, row)[<<eq, day>>] = -OpeningOf(a, row)[<<a, day>>]
             /\ \A la \in LedgerAccounts \ {a, eq}, day \in Days : OpeningOf(a, row)[<<la, day>>] = 0
<1> DEFINE eq == <<"equity", row.currency>>
<1>1. /\ eq \in LedgerAccounts /\ eq \notin Accounts /\ a \in LedgerAccounts /\ a # eq
      /\ row.openingDay \in Days /\ row.opening \in Int
  BY CountersApart DEF AccountRows, LedgerAccounts, Counters, CounterKinds
<1>2. OpeningOf(a, row) = Pair(a, eq, row.openingDay, row.opening)
  BY DEF OpeningOf
<1> HIDE DEF eq
<1>3. /\ OpeningOf(a, row) \in Slot
      /\ OpeningOf(a, row)[<<a, row.openingDay>>] = row.opening
      /\ OpeningOf(a, row)[<<eq, row.openingDay>>] = -row.opening
      /\ \A la \in LedgerAccounts, day \in Days :
           day # row.openingDay \/ (la # a /\ la # eq) => OpeningOf(a, row)[<<la, day>>] = 0
  BY <1>1, <1>2 DEF Pair, Slot, Slots
<1>4. \A day \in Days : OpeningOf(a, row)[<<eq, day>>] = -OpeningOf(a, row)[<<a, day>>]
  BY <1>1, <1>3
<1> QED
  BY <1>1, <1>3, <1>4 DEF eq

LEMMA AccountWriteKeeps ==
  ASSUME Books, NEW a \in Accounts, NEW row, AccountWrite(a, row)
  PROVE  Books' /\ (ClosingsSettled => ClosingsSettled')
<1>0. /\ TypeOK /\ EntriesSettled /\ OpeningsSettled /\ ClosingsPaired
      /\ EntriesPlaced /\ Recorded /\ OwnRowsOnly /\ NoOrphanPostings
  BY DEF Books
<1>1. /\ entry' = entry /\ zone' = zone /\ now' = now
      /\ posted' \in Postings /\ Remembered
      /\ row \in AccountRows /\ row.status # "none"
      /\ posted'[<<"opening", a>>] = OpeningOf(a, row)
      /\ \A src \in NotClosing \ {<<"opening", a>>} : posted'[src] = posted[src]
  BY DEF AccountWrite
<1>2. /\ account \in [Accounts -> AccountRows] /\ account' \in [Accounts -> AccountRows]
      /\ account'[a] = row /\ \A b \in Accounts \ {a} : account'[b] = account[b]
  <2>1. account \in [Accounts -> AccountRows]
    BY <1>0 DEF TypeOK, AccountRows
  <2>2. account' = [account EXCEPT ![a] = row]
    BY DEF AccountWrite
  <2> QED
    BY <1>1, <2>1, <2>2
<1>3. \A b \in Accounts : posted'[<<"closing", b>>] = IF b \in {a}
                                                     THEN ClosingWanted(posted', b, account'[b])
                                                     ELSE posted[<<"closing", b>>]
  BY DEF AccountWrite
<1>4. TypeOK'
  <2>1. posted' \in [Sources -> [Slots -> Int]] /\ written' \in [Sources -> SUBSET Accounts]
    BY <1>1 DEF Postings, Slot, Remembered
  <2>2. \A b \in Accounts : Archived(b)' => (account'[b].archivedAt \in Instants)
    BY <1>0, <1>2 DEF TypeOK, Archived, AccountWrite
  <2>3. /\ entry' \in EntryRows /\ (\A e \in Entries : WellFormed(entry'[e].draft))
        /\ now' \in Instants /\ zone' \in Zones
    BY <1>0, <1>1 DEF TypeOK, EntryRows
  <2> QED
    BY <1>2, <2>1, <2>2, <2>3 DEF TypeOK, AccountRows, EntryRows
<1>5. \A e \in Entries : posted'[<<"entry", e>>] = posted[<<"entry", e>>]
  BY <1>1, SourcesAre
<1>6. ASSUME NEW e \in Entries, entry[e].status = "live", NEW b \in Sides(entry[e].draft)
      PROVE  b \in Accounts /\ account'[b].currency = account[b].currency
  <2> DEFINE d == entry[e].draft
  <2>1. WellFormed(d) /\ d.day \in Days
    BY <1>0 DEF TypeOK, WellFormed
  <2>2. \A x \in Accounts : account[x].currency \in Currencies
    BY <1>0, ClosableRows
  <2>3. b \in Accounts /\ PostingsOf(d, account)[<<b, d.day>>] # 0
    BY <1>6, <2>1, <2>2, PostingsAre
  <2>4. posted[<<"entry", e>>] = PostingsOf(d, account)
    BY <1>0, <1>6 DEF EntriesSettled
  <2>5. b \in written[<<"entry", e>>]
    BY <1>0, <2>1, <2>3, <2>4, SourcesAre DEF Recorded
  <2>6. HasPostings(b) /\ Kept(b)
    BY <1>0, <1>6, <2>5, SourcesAre DEF HasPostings, EntriesPlaced, Stored
  <2> QED
    BY <1>2, <2>3, <2>6 DEF AccountWrite
<1>7. EntriesSettled'
  <2> SUFFICES ASSUME NEW e \in Entries
               PROVE  posted'[<<"entry", e>>] = IF entry'[e].status = "live"
                                                THEN PostingsOf(entry'[e].draft, account')
                                                ELSE Nothing
    BY DEF EntriesSettled
  <2>1. CASE entry[e].status = "live"
    <3>1. WellFormed(entry[e].draft)
      BY <1>0 DEF TypeOK
    <3>2. \A b \in Sides(entry[e].draft) : account'[b].currency = account[b].currency
      BY <1>6, <2>1
    <3>3. PostingsOf(entry[e].draft, account') = PostingsOf(entry[e].draft, account)
      BY <3>1, <3>2, PostingsLocal
    <3> QED
      BY <1>0, <1>1, <1>5, <2>1, <3>3 DEF EntriesSettled
  <2>2. CASE entry[e].status # "live"
    BY <1>0, <1>1, <1>5, <2>2 DEF EntriesSettled
  <2> QED
    BY <2>1, <2>2
<1>8. OpeningsSettled'
  <2> SUFFICES ASSUME NEW b \in Accounts
               PROVE  posted'[<<"opening", b>>] = OpeningOf(b, account'[b])
    BY DEF OpeningsSettled
  <2>1. CASE b = a
    BY <1>1, <1>2, <2>1
  <2>2. CASE b # a
    <3>1. <<"opening", b>> \in NotClosing \ {<<"opening", a>>}
      BY <2>2, SourcesAre
    <3> QED
      BY <1>0, <1>1, <1>2, <2>2, <3>1 DEF OpeningsSettled
  <2> QED
    BY <2>1, <2>2
<1>9. ClosingsPaired' /\ \A b \in Accounts : written'[<<"closing", b>>] \subseteq {b}
  <2>1. \A b \in {a} : Closable(account'[b])
    BY <1>1, <1>2 DEF AccountWrite, AccountRows, Closable, Instants, CalendarDay, TypeOK, Books
  <2>2. \A b \in Accounts \ {a} : account'[b].currency = account[b].currency
    BY <1>2
  <2> QED
    BY <1>0, <1>1, <1>3, <2>1, <2>2, ClosingsKeptPaired
<1>10. ASSUME NEW b \in Accounts \ {a}, NEW src \in NotClosing, NEW day \in Days
       PROVE  posted'[src][<<b, day>>] = posted[src][<<b, day>>]
  <2>1. CASE src = <<"opening", a>>
    <3>1. posted[src] = OpeningOf(a, account[a]) /\ posted'[src] = OpeningOf(a, row)
      BY <1>0, <1>1, <2>1 DEF OpeningsSettled
    <3>2. account[a] \in AccountRows
      BY <1>2
    <3>3. \A c \in Currencies : b # <<"equity", c>> /\ b \in LedgerAccounts
      BY CountersApart DEF LedgerAccounts, Counters, CounterKinds
    <3>4. b \in LedgerAccounts \ {a, <<"equity", account[a].currency>>}
          /\ b \in LedgerAccounts \ {a, <<"equity", row.currency>>}
      BY <1>1, <3>2, <3>3 DEF AccountRows
    <3>5. OpeningOf(a, account[a])[<<b, day>>] = 0
      <4>1. \A la \in LedgerAccounts \ {a, <<"equity", account[a].currency>>}, d \in Days :
              OpeningOf(a, account[a])[<<la, d>>] = 0
        BY <3>2, OpeningIs
      <4> QED  BY <3>4, <4>1
    <3>6. OpeningOf(a, row)[<<b, day>>] = 0
      <4>1. \A la \in LedgerAccounts \ {a, <<"equity", row.currency>>}, d \in Days :
              OpeningOf(a, row)[<<la, d>>] = 0
        BY <1>1, OpeningIs
      <4> QED  BY <3>4, <4>1
    <3> QED
      BY <3>1, <3>5, <3>6
  <2>2. CASE src # <<"opening", a>>
    BY <1>1, <2>2
  <2> QED
    BY <2>1, <2>2
<1>11. ASSUME NEW b \in Accounts, NEW x \in written'[<<"opening", b>>]
       PROVE  x = b /\ (x \in written[<<"opening", b>>] \/ b = a)
  <2>1. x \in Accounts /\ <<"opening", b>> \in Sources
    BY <1>1, <1>11, SourcesAre DEF Remembered
  <2>2. CASE x \in written[<<"opening", b>>]
    BY <1>0, <2>2 DEF OwnRowsOnly
  <2>3. CASE x \notin written[<<"opening", b>>]
    <3>1. PICK day \in Days : posted'[<<"opening", b>>][<<x, day>>] # posted[<<"opening", b>>][<<x, day>>]
      BY <1>1, <1>11, <2>1, <2>3 DEF Remembered
    <3>2. x = a
      BY <1>10, <2>1, <3>1, SourcesAre
    <3>3. posted'[<<"opening", b>>] # posted[<<"opening", b>>]
      BY <3>1
    <3>4. <<"opening", b>> = <<"opening", a>>
      BY <1>1, <3>3, SourcesAre
    <3> QED
      BY <3>2, <3>4
  <2> QED
    BY <2>2, <2>3
<1>12. OwnRowsOnly'
  BY <1>9, <1>11 DEF OwnRowsOnly
<1>13. \A b \in Accounts : (Kept(b) => Kept(b)') /\ Kept(a)'
  BY <1>1, <1>2 DEF Kept
<1>14. NoOrphanPostings'
  <2>1. ASSUME NEW src \in Sources, NEW b \in written'[src], b \in written[src] PROVE Kept(b)'
    <3>1. b \in Accounts
      BY <1>1, <2>1 DEF Remembered
    <3> QED
      BY <1>0, <1>13, <2>1, <3>1 DEF NoOrphanPostings
  <2>2. ASSUME NEW src \in Sources, NEW b \in written'[src], b \notin written[src] PROVE Kept(b)'
    <3>1. b \in Accounts
      BY <1>1, <2>2 DEF Remembered
    <3>2. PICK day \in Days : posted'[src][<<b, day>>] # posted[src][<<b, day>>]
      BY <1>1, <2>2, <3>1 DEF Remembered
    <3>3. CASE src \in NotClosing
      BY <1>10, <1>13, <3>1, <3>2, <3>3
    <3>4. CASE \E x \in Accounts : src = <<"closing", x>>
      <4>1. PICK x \in Accounts : src = <<"closing", x>>
        BY <3>4
      <4>2. b = x /\ posted'[<<"closing", x>>] # posted[<<"closing", x>>]
        BY <1>9, <2>2, <3>2, <4>1
      <4> QED
        BY <1>3, <1>13, <4>2
    <3> QED
      BY <3>3, <3>4, SourcesAre
  <2> QED
    BY <2>1, <2>2 DEF NoOrphanPostings
<1>15. EntriesPlaced'
  <2> SUFFICES ASSUME NEW e \in Entries
               PROVE  /\ Stored(e) => \A b \in Sides(entry[e].draft) : Kept(b)'
                      /\ entry[e].status = "live" => Even(entry[e].draft)'
    BY <1>1 DEF EntriesPlaced, Stored
  <2>1. WellFormed(entry[e].draft) /\ Sides(entry[e].draft) \subseteq Accounts
    BY <1>0 DEF TypeOK, WellFormed, Sides
  <2>2. Stored(e) => \A b \in Sides(entry[e].draft) : Kept(b)'
    BY <1>0, <1>13, <2>1 DEF EntriesPlaced
  <2>3. ASSUME entry[e].status = "live", entry[e].draft.type = "transfer" PROVE Even(entry[e].draft)'
    <3>1. entry[e].draft.from \in Sides(entry[e].draft) /\ entry[e].draft.to \in Sides(entry[e].draft)
      BY <2>1, <2>3, LedgerAssumption DEF WellFormed, Sides
    <3>2. Even(entry[e].draft)
      BY <1>0, <2>3 DEF EntriesPlaced
    <3> QED
      BY <1>1, <1>6, <2>3, <3>1, <3>2 DEF Even
  <2>4. entry[e].draft.type # "transfer" => Even(entry[e].draft)'
    BY <1>1 DEF Even
  <2> QED
    BY <2>2, <2>3, <2>4
<1>16. ClosingsSettled => ClosingsSettled'
  <2> SUFFICES ASSUME ClosingsSettled, NEW b \in Accounts
               PROVE  posted'[<<"closing", b>>] = ClosingWanted(posted', b, account'[b])
    BY <1>1, ClosingsPrimed
  <2>1. CASE b = a
    BY <1>3, <2>1
  <2>2. CASE b # a
    <3>1. Closable(account[b]) /\ posted \in Postings
      BY <1>0, ClosableRows DEF TypeOK, Postings, Slot
    <3>2. ClosingWanted(posted', b, account[b]) = ClosingWanted(posted, b, account[b])
      BY <1>1, <1>10, <2>2, <3>1, ClosingSame
    <3> QED
      BY <1>2, <1>3, <2>2, <3>2 DEF ClosingsSettled
  <2> QED
    BY <2>1, <2>2
<1>17. Recorded'
  BY <1>0, <1>1, RecordedKept
<1> QED
  BY <1>4, <1>7, <1>8, <1>9, <1>12, <1>14, <1>15, <1>16, <1>17 DEF Books

-----------------------------------------------------------------------------
(* Every action of the specification is one of those steps.                *)

LEMMA UnopenedRow ==
  /\ Unopened \in AccountRows
  /\ \A a \in Accounts : OpeningOf(a, Unopened) = Nothing
<1>1. (CHOOSE c \in Currencies : TRUE) \in Currencies
  BY LedgerAssumption
<1>2. 1 \in Days
  <2>1. Days # {} /\ LastDay \in Nat
    BY LedgerAssumption DEF Instants
  <2> QED
    BY <2>1 DEF Days
<1>3. Unopened \in AccountRows
  BY <1>1, <1>2 DEF Unopened, AccountRows
<1>4. ASSUME NEW a \in Accounts PROVE OpeningOf(a, Unopened) = Nothing
  <2> DEFINE eq == <<"equity", Unopened.currency>>
  <2> DEFINE o == OpeningOf(a, Unopened)
  <2>1. Unopened.opening = 0
    BY DEF Unopened
  <2>2. /\ o \in Slot /\ eq \in LedgerAccounts /\ a \in LedgerAccounts
        /\ o[<<a, Unopened.openingDay>>] = 0
        /\ \A day \in Days : day # Unopened.openingDay => o[<<a, day>>] = 0
        /\ \A day \in Days : o[<<eq, day>>] = -o[<<a, day>>]
        /\ \A la \in LedgerAccounts \ {a, eq}, day \in Days : o[<<la, day>>] = 0
    BY <1>3, <2>1, OpeningIs, SlotsAre
  <2> HIDE DEF o, eq
  <2>3. \A day \in Days : o[<<a, day>>] = 0 /\ o[<<eq, day>>] = 0
    BY <2>2
  <2>4. ASSUME NEW slot \in Slots PROVE o[slot] = 0
    <3>1. PICK la \in LedgerAccounts, day \in Days : slot = <<la, day>>
      BY SlotsAre
    <3> QED
      BY <2>2, <2>3, <3>1
  <2>5. o = [slot \in Slots |-> o[slot]]
    BY <2>2 DEF Slot
  <2> QED
    BY <2>4, <2>5 DEF Nothing, o
<1> QED
  BY <1>3, <1>4

LEMMA NothingIs ==
  /\ Nothing \in Slot
  /\ \A la \in LedgerAccounts, day \in Days : Nothing[<<la, day>>] = 0
  /\ \A p : \A a \in Accounts : ClosingWanted(p, a, Unopened) = Nothing
BY SlotsAre DEF Nothing, Slot, ClosingWanted, Unopened

LEMMA DeleteAccountKeeps ==
  ASSUME Books, NEW a \in Accounts, DeleteAccount(a)
  PROVE  Books' /\ (ClosingsSettled => ClosingsSettled')
<1>0. /\ TypeOK /\ EntriesSettled /\ OpeningsSettled /\ ClosingsPaired
      /\ EntriesPlaced /\ Recorded /\ OwnRowsOnly /\ NoOrphanPostings
  BY DEF Books
<1>1. /\ entry' = entry /\ zone' = zone /\ now' = now
      /\ account' = [account EXCEPT ![a] = Unopened]
      /\ posted' = [posted EXCEPT ![<<"opening", a>>] = Nothing, ![<<"closing", a>>] = Nothing]
      /\ written' = [written EXCEPT ![<<"opening", a>>] = {}, ![<<"closing", a>>] = {}]
      /\ EntriesOn(a) = {} /\ \A e \in Entries : a \notin written[<<"entry", e>>]
  BY DEF DeleteAccount
<1>2. /\ account \in [Accounts -> AccountRows] /\ account' \in [Accounts -> AccountRows]
      /\ account'[a] = Unopened /\ \A b \in Accounts \ {a} : account'[b] = account[b]
  <2>1. account \in [Accounts -> AccountRows]
    BY <1>0 DEF TypeOK, AccountRows
  <2> QED
    BY <1>1, <2>1, UnopenedRow
<1>3. posted \in Postings /\ written \in [Sources -> SUBSET Accounts]
  BY <1>0 DEF TypeOK, Postings, Slot
<1>4. /\ posted' \in Postings /\ written' \in [Sources -> SUBSET Accounts]
      /\ posted'[<<"opening", a>>] = Nothing /\ posted'[<<"closing", a>>] = Nothing
      /\ written'[<<"opening", a>>] = {} /\ written'[<<"closing", a>>] = {}
      /\ \A src \in Sources \ {<<"opening", a>>, <<"closing", a>>} :
           posted'[src] = posted[src] /\ written'[src] = written[src]
  <2>1. <<"opening", a>> # <<"closing", a>>
    OBVIOUS
  <2> QED
    BY <1>1, <1>3, <2>1, SourcesAre, NothingIs DEF Postings
<1>5. /\ \A e \in Entries : /\ posted'[<<"entry", e>>] = posted[<<"entry", e>>]
                            /\ written'[<<"entry", e>>] = written[<<"entry", e>>]
      /\ \A b \in Accounts \ {a}, k \in {"opening", "closing"} :
           /\ posted'[<<k, b>>] = posted[<<k, b>>] /\ written'[<<k, b>>] = written[<<k, b>>]
  BY <1>4, SourcesAre
<1>6. TypeOK'
  <2>1. posted' \in [Sources -> [Slots -> Int]] /\ written' \in [Sources -> SUBSET Accounts]
    BY <1>4 DEF Postings, Slot
  <2>2. \A b \in Accounts : Archived(b)' => (account'[b].archivedAt \in Instants)
    BY <1>0, <1>2 DEF TypeOK, Archived, Unopened
  <2>3. /\ entry' \in EntryRows /\ (\A e \in Entries : WellFormed(entry'[e].draft))
        /\ now' \in Instants /\ zone' \in Zones
    BY <1>0, <1>1 DEF TypeOK, EntryRows
  <2> QED
    BY <1>2, <2>1, <2>2, <2>3 DEF TypeOK, AccountRows, EntryRows
<1>7. ASSUME NEW e \in Entries, Stored(e) PROVE a \notin Sides(entry[e].draft)
  BY <1>1, <1>7 DEF EntriesOn
<1>8. \A e \in Entries : WellFormed(entry[e].draft) /\ Sides(entry[e].draft) \subseteq Accounts
  BY <1>0 DEF TypeOK, WellFormed, Sides
<1>9. EntriesSettled'
  <2> SUFFICES ASSUME NEW e \in Entries
               PROVE  posted'[<<"entry", e>>] = IF entry'[e].status = "live"
                                                THEN PostingsOf(entry'[e].draft, account')
                                                ELSE Nothing
    BY DEF EntriesSettled
  <2>1. CASE entry[e].status = "live"
    <3>1. \A b \in Sides(entry[e].draft) : account'[b].currency = account[b].currency
      BY <1>2, <1>7, <1>8, <2>1 DEF Stored
    <3>2. PostingsOf(entry[e].draft, account') = PostingsOf(entry[e].draft, account)
      BY <1>8, <3>1, PostingsLocal
    <3> QED
      BY <1>0, <1>1, <1>5, <2>1, <3>2 DEF EntriesSettled
  <2>2. CASE entry[e].status # "live"
    BY <1>0, <1>1, <1>5, <2>2 DEF EntriesSettled
  <2> QED
    BY <2>1, <2>2
<1>10. OpeningsSettled'
  <2> SUFFICES ASSUME NEW b \in Accounts
               PROVE  posted'[<<"opening", b>>] = OpeningOf(b, account'[b])
    BY DEF OpeningsSettled
  <2> QED
    BY <1>0, <1>2, <1>4, <1>5, UnopenedRow DEF OpeningsSettled
<1>11. ClosingsPaired'
  <2> SUFFICES ASSUME NEW b \in Accounts, NEW day \in Days
               PROVE  LET eq == <<"equity", account'[b].currency>> IN
                      /\ posted'[<<"closing", b>>][<<eq, day>>] = -posted'[<<"closing", b>>][<<b, day>>]
                      /\ \A la \in LedgerAccounts \ {b, eq} : posted'[<<"closing", b>>][<<la, day>>] = 0
    BY DEF ClosingsPaired, Own
  <2>1. CASE b = a
    <3>1. <<"equity", account'[b].currency>> \in LedgerAccounts /\ b \in LedgerAccounts
      BY <1>2, SlotsAre DEF AccountRows, LedgerAccounts, Counters, CounterKinds
    <3> QED
      BY <1>4, <2>1, <3>1, NothingIs
  <2>2. CASE b # a
    <3>1. account'[b] = account[b] /\ posted'[<<"closing", b>>] = posted[<<"closing", b>>]
      BY <1>2, <1>5, <2>2
    <3> QED
      BY <1>0, <3>1 DEF ClosingsPaired, Own
  <2> QED
    BY <2>1, <2>2
<1>12. EntriesPlaced'
  <2> SUFFICES ASSUME NEW e \in Entries
               PROVE  /\ Stored(e) => \A b \in Sides(entry[e].draft) : Kept(b)'
                      /\ entry[e].status = "live" => Even(entry[e].draft)'
    BY <1>1 DEF EntriesPlaced, Stored
  <2>1. Stored(e) => \A b \in Sides(entry[e].draft) : Kept(b)'
    BY <1>0, <1>2, <1>7, <1>8 DEF EntriesPlaced, Kept
  <2>2. ASSUME entry[e].status = "live", entry[e].draft.type = "transfer" PROVE Even(entry[e].draft)'
    <3>1. entry[e].draft.from \in Sides(entry[e].draft) /\ entry[e].draft.to \in Sides(entry[e].draft)
      BY <1>8, <2>2, LedgerAssumption DEF WellFormed, Sides
    <3>2. Even(entry[e].draft) /\ Stored(e)
      BY <1>0, <2>2 DEF EntriesPlaced, Stored
    <3> QED
      BY <1>1, <1>2, <1>7, <1>8, <2>2, <3>1, <3>2 DEF Even
  <2>3. entry[e].draft.type # "transfer" => Even(entry[e].draft)'
    BY <1>1 DEF Even
  <2> QED
    BY <2>1, <2>2, <2>3
<1>13. Recorded'
  <2> SUFFICES ASSUME NEW src \in Sources, NEW b \in Accounts, NEW day \in Days,
                      posted'[src][<<b, day>>] # 0
               PROVE  b \in written'[src]
    BY DEF Recorded
  <2>1. src # <<"opening", a>> /\ src # <<"closing", a>>
    BY <1>4, NothingIs, SlotsAre
  <2> QED
    BY <1>0, <1>4, <2>1 DEF Recorded
<1>14. OwnRowsOnly'
  BY <1>0, <1>4, <1>5 DEF OwnRowsOnly
<1>15. NoOrphanPostings'
  <2> SUFFICES ASSUME NEW src \in Sources, NEW b \in written'[src]
               PROVE  Kept(b)'
    BY DEF NoOrphanPostings
  <2>1. b \in written[src] /\ src # <<"opening", a>> /\ src # <<"closing", a>> /\ b \in Accounts
    BY <1>4
  <2>2. b # a
    <3> SUFFICES ASSUME b = a PROVE FALSE
      OBVIOUS
    <3>1. CASE \E e \in Entries : src = <<"entry", e>>
      BY <1>1, <2>1, <3>1
    <3>2. CASE \E x \in Accounts, k \in {"opening", "closing"} : src = <<k, x>>
      <4>1. PICK x \in Accounts, k \in {"opening", "closing"} : src = <<k, x>>
        BY <3>2
      <4>2. x = a
        BY <1>0, <2>1, <4>1 DEF OwnRowsOnly
      <4> QED
        BY <2>1, <4>1, <4>2
    <3> QED
      BY <3>1, <3>2 DEF Sources
  <2> QED
    BY <1>0, <1>2, <2>1, <2>2 DEF NoOrphanPostings, Kept
<1>16. ClosingsSettled => ClosingsSettled'
  <2> SUFFICES ASSUME ClosingsSettled, NEW b \in Accounts
               PROVE  posted'[<<"closing", b>>] = ClosingWanted(posted', b, account'[b])
    BY <1>1, ClosingsPrimed
  <2>1. CASE b = a
    BY <1>2, <1>4, <2>1, NothingIs
  <2>2. CASE b # a
    <3>1. Closable(account[b])
      BY <1>0, ClosableRows
    <3>2. \A src \in NotClosing, day \in Days : posted'[src][<<b, day>>] = posted[src][<<b, day>>]
      <4> TAKE src \in NotClosing, day \in Days
      <4>1. CASE src = <<"opening", a>>
        <5>1. posted'[src][<<b, day>>] = 0
          BY <1>4, <4>1, NothingIs, SlotsAre
        <5>2. account[a] \in AccountRows /\ posted[src] = OpeningOf(a, account[a])
          BY <1>0, <1>2, <4>1 DEF OpeningsSettled
        <5>3. b \in LedgerAccounts \ {a, <<"equity", account[a].currency>>}
          BY <2>2, <5>2, CountersApart DEF LedgerAccounts, Counters, CounterKinds, AccountRows
        <5>4. OpeningOf(a, account[a])[<<b, day>>] = 0
          BY <5>2, <5>3, OpeningIs
        <5> QED
          BY <5>1, <5>2, <5>4
      <4>2. CASE src # <<"opening", a>>
        BY <1>4, <4>2, SourcesAre
      <4> QED
        BY <4>1, <4>2
    <3>3. ClosingWanted(posted', b, account[b]) = ClosingWanted(posted, b, account[b])
      BY <1>3, <1>4, <3>1, <3>2, ClosingSame
    <3> QED
      BY <1>2, <1>5, <2>2, <3>3 DEF ClosingsSettled
  <2> QED
    BY <2>1, <2>2
<1> QED
  BY <1>6, <1>9, <1>10, <1>11, <1>12, <1>13, <1>14, <1>15, <1>16 DEF Books

(* What a request does that reposts the entries es and closes closing.     *)
Wanted(es) == [src \in {"entry"} \X es |-> Says(entry'[src[2]], account)]
Reposting(es, closing) ==
  /\ account' = account /\ zone' = zone /\ now' = now
  /\ entry' \in EntryRows
  /\ \A e \in Entries : WellFormed(entry'[e].draft)
  /\ EntriesPlaced'
  /\ \A e \in Entries \ es : entry'[e] = entry[e]
  /\ closing \subseteq {a \in Accounts : Archived(a)}
  /\ \A a \in Accounts, e \in es :
       Archived(a) /\ a \in RowsOn(posted[<<"entry", e>>], Says(entry'[e], account)) => a \in closing
  /\ Settle(Wanted(es), closing, account)

(* Reposting closes again every archived account a row was written on.     *)
LEMMA RepostKeeps ==
  ASSUME Books, NEW es \in SUBSET Entries, NEW closing, Reposting(es, closing)
  PROVE  Books' /\ (ClosingsSettled => ClosingsSettled')
<1> DEFINE wants == Wanted(es)
<1>0. TypeOK /\ \A a \in Accounts : Closable(account[a]) /\ account[a].currency \in Currencies
  BY ClosableRows DEF Books
<1>1. \A e \in es : /\ <<"entry", e>> \in DOMAIN wants
                    /\ wants[<<"entry", e>>] = Says(entry'[e], account)
                    /\ wants[<<"entry", e>>] \in Slot
  BY <1>0, SaysIs DEF Wanted, Reposting
<1>2. /\ DOMAIN wants = {"entry"} \X es
      /\ \A src \in DOMAIN wants : \E e \in es : src = <<"entry", e>>
  BY DEF Wanted
<1> HIDE DEF wants
<1>3. \A src \in DOMAIN wants : src \in NotClosing /\ wants[src] \in Slot
  <2> TAKE src \in DOMAIN wants
  <2>1. PICK e \in es : src = <<"entry", e>>
    BY <1>2
  <2> QED
    BY <1>1, <2>1, SourcesAre
<1>4. SettledTo(wants, closing, account)
  <2>1. closing \in SUBSET Accounts /\ Settle(wants, closing, account)
    BY DEF Reposting, wants
  <2>2. DOMAIN wants \subseteq NotClosing
    BY <1>3
  <2> QED
    BY <1>0, <1>3, <2>1, <2>2, SettleIs
<1>5. ASSUME NEW a \in Accounts \ closing, NEW e \in es, NEW day \in Days, Archived(a)
      PROVE  posted'[<<"entry", e>>][<<a, day>>] = posted[<<"entry", e>>][<<a, day>>]
  <2> DEFINE src == <<"entry", e>>
  <2>1. src \in NotClosing /\ src \in Sources /\ <<a, day>> \in Slots
    BY SourcesAre, SlotsAre
  <2>2. a \notin RowsOn(posted[src], wants[src])
    BY <1>1, <1>5 DEF Reposting
  <2>3. Difference(posted[src], wants[src])[<<a, day>>] = 0
    <3> HIDE DEF src
    <3>1. a \in Accounts /\ day \in Days
      OBVIOUS
    <3> QED
      BY <2>2, <3>1 DEF RowsOn
  <2>4. posted[src][<<a, day>>] \in Int /\ wants[src][<<a, day>>] \in Int
    <3>1. posted[src] \in Slot /\ wants[src] \in Slot
      BY <1>0, <1>1, <2>1 DEF TypeOK, Slot
    <3> HIDE DEF src
    <3> QED
      BY <2>1, <3>1 DEF Slot
  <2>5. wants[src][<<a, day>>] - posted[src][<<a, day>>] = 0
    BY <2>1, <2>3 DEF Difference
  <2>6. \A m, n \in Int : m - n = 0 => m = n
    OBVIOUS
  <2>7. wants[src][<<a, day>>] = posted[src][<<a, day>>]
    BY <2>4, <2>5, <2>6
  <2>8. posted'[src] = wants[src]
    BY <1>1, <1>4, <2>1 DEF SettledTo
  <2> QED
    BY <2>7, <2>8
<1>6. EntryWrite(es, closing)
  BY <1>4, <1>5 DEF EntryWrite, Reposting, wants, Wanted
<1> QED
  BY <1>6, EntryWriteKeeps

(* The accounts RepostEntries closes are the archived ones it wrote on.    *)
LEMMA RepostEntriesKeeps ==
  ASSUME Books, account' = account, zone' = zone, now' = now,
         entry' \in EntryRows, \A e \in Entries : WellFormed(entry'[e].draft), EntriesPlaced',
         NEW es \in SUBSET Entries, \A e \in Entries \ es : entry'[e] = entry[e],
         NEW wants, DOMAIN wants = {"entry"} \X es,
         wants = [src \in {"entry"} \X es |-> wants[src]],
         \A e \in es : wants[<<"entry", e>>] = Says(entry'[e], account),
         Settle(wants, {a \in UNION {RowsOn(posted[src], wants[src]) : src \in {"entry"} \X es} :
                          Archived(a)}, account)
  PROVE  Books' /\ (ClosingsSettled => ClosingsSettled')
<1> DEFINE touched == UNION {RowsOn(posted[src], wants[src]) : src \in {"entry"} \X es}
<1> DEFINE closing == {a \in touched : Archived(a)}
<1>1. wants = Wanted(es)
  <2>1. \A src \in {"entry"} \X es : wants[src] = Says(entry'[src[2]], account)
    <3> TAKE src \in {"entry"} \X es
    <3>1. src[2] \in es /\ src = <<"entry", src[2]>>
      OBVIOUS
    <3> QED
      BY <3>1
  <2> QED
    BY <2>1 DEF Wanted
<1>2. closing \subseteq {a \in Accounts : Archived(a)}
  BY DEF RowsOn
<1>3. ASSUME NEW a \in Accounts, NEW e \in es, Archived(a),
             a \in RowsOn(posted[<<"entry", e>>], Says(entry'[e], account))
      PROVE  a \in closing
  <2>1. <<"entry", e>> \in {"entry"} \X es /\ a \in RowsOn(posted[<<"entry", e>>], wants[<<"entry", e>>])
    BY <1>3
  <2>2. a \in touched
    BY <2>1
  <2> QED
    BY <1>3, <2>2
<1>4. Settle(Wanted(es), closing, account)
  BY <1>1
<1> HIDE DEF closing
<1>5. Reposting(es, closing)
  BY <1>2, <1>3, <1>4 DEF Reposting
<1> QED
  BY <1>5, RepostKeeps

(* Rows stay placed when each was prepared, deleted or left alone.         *)
LEMMA PlacedKept ==
  ASSUME EntriesPlaced, account' = account,
         \A e \in Entries :
           \/ entry'[e] = entry[e]
           \/ entry'[e].draft = entry[e].draft /\ entry'[e].status = "deleted" /\ Stored(e)
           \/ \E S : Preparable(entry'[e].draft, S)
  PROVE  EntriesPlaced'
<1> SUFFICES ASSUME NEW e \in Entries
             PROVE  /\ entry'[e].status # "none" => \A a \in Sides(entry'[e].draft) : Kept(a)
                    /\ entry'[e].status = "live" => Even(entry'[e].draft)
  BY DEF EntriesPlaced, Stored, Kept, Even
<1>1. CASE entry'[e] = entry[e]
  BY <1>1 DEF EntriesPlaced, Stored
<1>2. CASE entry'[e].draft = entry[e].draft /\ entry'[e].status = "deleted" /\ Stored(e)
  BY <1>2 DEF EntriesPlaced, Stored
<1>3. CASE \E S : Preparable(entry'[e].draft, S)
  BY <1>3 DEF Preparable
<1> QED
  BY <1>1, <1>2, <1>3

LEMMA RowIs ==
  ASSUME TypeOK, NEW status \in {"live", "deleted"}, NEW d, WellFormed(d)
  PROVE  /\ Row(status, d) \in [status : {"none", "live", "deleted"},
                                draft : [type : EntryTypes, from : Accounts \cup {Nobody},
                                         to : Accounts \cup {Nobody}, sent : Nat \ {0},
                                         received : Nat \ {0}, day : Days, refund : BOOLEAN],
                                fromCurrency : Currencies \cup {Nobody},
                                toCurrency : Currencies \cup {Nobody}]
         /\ Row(status, d).draft = d /\ Row(status, d).status = status
<1>1. d.from \in Accounts \cup {Nobody} /\ d.to \in Accounts \cup {Nobody}
  BY DEF WellFormed
<1>2. \A side \in Accounts \cup {Nobody} : CurrencyOn(side) \in Currencies \cup {Nobody}
  BY ClosableRows DEF CurrencyOn
<1> QED
  BY <1>1, <1>2 DEF Row, WellFormed

LEMMA CreateEntryKeeps ==
  ASSUME Books, NEW e \in Entries, NEW d \in Drafts, CreateEntry(e, d)
  PROVE  Books' /\ (ClosingsSettled => ClosingsSettled')
<1>0. TypeOK /\ EntriesPlaced /\ EntriesSettled /\ WellFormed(d)
  BY LedgerAssumption DEF Books
<1>1. /\ account' = account /\ zone' = zone /\ now' = now
      /\ entry' = [entry EXCEPT ![e] = Row("live", d)]
      /\ Preparable(d, {}) /\ entry[e].status = "none"
      /\ Settle([src \in {<<"entry", e>>} |-> PostingsOf(d, account)], {}, account)
  BY DEF CreateEntry, Stored
<1>2. entry \in EntryRows /\ \A x \in Entries : WellFormed(entry[x].draft)
  BY <1>0 DEF TypeOK, EntryRows
<1>3. Row("live", d).draft = d /\ Row("live", d).status = "live"
  BY DEF Row
<1>4. /\ entry' \in EntryRows /\ entry'[e].draft = d /\ entry'[e].status = "live"
      /\ \A x \in Entries \ {e} : entry'[x] = entry[x]
  BY <1>0, <1>1, <1>2, <1>3, RowIs DEF EntryRows
<1>5. \A x \in Entries : WellFormed(entry'[x].draft)
  BY <1>0, <1>2, <1>4
<1>6. EntriesPlaced'
  BY <1>0, <1>1, <1>4, PlacedKept
<1>7. Wanted({e}) = [src \in {<<"entry", e>>} |-> PostingsOf(d, account)]
  <2>1. {"entry"} \X {e} = {<<"entry", e>>}
    OBVIOUS
  <2>2. \A src \in {<<"entry", e>>} : Says(entry'[src[2]], account) = PostingsOf(d, account)
    BY <1>4 DEF Says
  <2> QED
    BY <2>1, <2>2 DEF Wanted
<1>8. ASSUME NEW a \in Accounts, NEW x \in {e}, Archived(a),
             a \in RowsOn(posted[<<"entry", x>>], Says(entry'[x], account))
      PROVE  FALSE
  <2> DEFINE src == <<"entry", e>>
  <2> DEFINE want == PostingsOf(d, account)
  <2>1. x = e /\ Says(entry'[x], account) = want
    BY <1>4 DEF Says
  <2>2. a \notin Sides(d)
    BY <1>1, <1>8 DEF Preparable
  <2>3. \A y \in Accounts : account[y].currency \in Currencies
    BY <1>0, ClosableRows
  <2>4. \A day \in Days : want[<<a, day>>] = 0
    BY <1>0, <2>2, <2>3, PostingsAre
  <2>5. \A day \in Days : posted[src][<<a, day>>] = 0
    BY <1>0, <1>1, <2>1, NothingIs, SlotsAre DEF EntriesSettled
  <2> HIDE DEF want, src
  <2>6. \A day \in Days : Difference(posted[src], want)[<<a, day>>] = 0
    BY <2>4, <2>5, SlotsAre DEF Difference
  <2>7. a \in RowsOn(posted[src], want)
    BY <1>8, <2>1 DEF src
  <2> QED
    BY <2>7, <2>6 DEF RowsOn
<1>9. Settle(Wanted({e}), {}, account)
  BY <1>1, <1>7
<1>10. Reposting({e}, {})
  BY <1>1, <1>4, <1>5, <1>6, <1>8, <1>9 DEF Reposting
<1> QED
  BY <1>10, RepostKeeps

LEMMA UpdateEntryKeeps ==
  ASSUME Books, NEW e \in Entries, NEW d \in Drafts, UpdateEntry(e, d)
  PROVE  Books' /\ (ClosingsSettled => ClosingsSettled')
<1> DEFINE row == Row(entry[e].status, d)
<1> DEFINE wants == [src \in {"entry"} \X {e} |-> IF entry[src[2]].status = "deleted" THEN Nothing
                                                ELSE PostingsOf(d, account)]
<1>0. TypeOK /\ EntriesPlaced /\ EntriesSettled /\ WellFormed(d)
  BY LedgerAssumption DEF Books
<1>1. /\ account' = account /\ zone' = zone /\ now' = now
      /\ entry' = [entry EXCEPT ![e] = row]
      /\ Preparable(d, Sides(entry[e].draft)) /\ entry[e].status # "none"
  BY DEF UpdateEntry, Stored
<1>2. entry \in EntryRows /\ \A x \in Entries : WellFormed(entry[x].draft)
  BY <1>0 DEF TypeOK, EntryRows
<1>3. row.draft = d /\ row.status = entry[e].status /\ entry[e].status \in {"live", "deleted"}
  BY <1>1, <1>2 DEF Row, EntryRows
<1>4. /\ entry' \in EntryRows /\ entry'[e].draft = d /\ entry'[e].status = entry[e].status
      /\ \A x \in Entries \ {e} : entry'[x] = entry[x]
  BY <1>0, <1>1, <1>2, <1>3, RowIs DEF EntryRows
<1>5. \A x \in Entries : WellFormed(entry'[x].draft)
  BY <1>0, <1>2, <1>4
<1>6. EntriesPlaced'
  BY <1>0, <1>1, <1>4, PlacedKept
<1>7. \A x \in {e} : wants[<<"entry", x>>] = Says(entry'[x], account)
  BY <1>3, <1>4 DEF Says
<1>8. Settle(wants, {a \in UNION {RowsOn(posted[src], wants[src]) : src \in {"entry"} \X {e}} :
                       Archived(a)}, account)
  BY DEF UpdateEntry, RepostEntries
<1>9. DOMAIN wants = {"entry"} \X {e} /\ wants = [src \in {"entry"} \X {e} |-> wants[src]]
  OBVIOUS
<1> HIDE DEF wants
<1>10. {e} \in SUBSET Entries
  OBVIOUS
<1> QED
  BY <1>0, <1>1, <1>4, <1>5, <1>6, <1>7, <1>8, <1>9, <1>10, RepostEntriesKeeps

LEMMA DeleteEntriesKeeps ==
  ASSUME Books, NEW selected \in SUBSET Entries, DeleteEntries(selected)
  PROVE  Books' /\ (ClosingsSettled => ClosingsSettled')
<1> DEFINE es == {e \in selected : entry[e].status = "live"}
<1> DEFINE wants == [src \in {"entry"} \X es |-> Nothing]
<1>0. TypeOK /\ EntriesPlaced
  BY DEF Books
<1>1. /\ account' = account /\ zone' = zone /\ now' = now
      /\ entry' = [e \in Entries |-> IF e \in es THEN [entry[e] EXCEPT !.status = "deleted"]
                                     ELSE entry[e]]
  BY DEF DeleteEntries
<1>2. entry \in EntryRows /\ \A x \in Entries : WellFormed(entry[x].draft)
  BY <1>0 DEF TypeOK, EntryRows
<1>3. \A x \in Entries : entry[x] \in [status : {"none", "live", "deleted"},
                draft : [type : EntryTypes, from : Accounts \cup {Nobody}, to : Accounts \cup {Nobody},
                         sent : Nat \ {0}, received : Nat \ {0}, day : Days, refund : BOOLEAN],
                fromCurrency : Currencies \cup {Nobody}, toCurrency : Currencies \cup {Nobody}]
  BY <1>2 DEF EntryRows
<1>4. \A x \in Entries : /\ entry'[x].draft = entry[x].draft
                         /\ x \in es => entry'[x].status = "deleted" /\ entry[x].status = "live"
                         /\ x \notin es => entry'[x] = entry[x]
  BY <1>1, <1>3
<1>5. entry' \in EntryRows
  BY <1>1, <1>3 DEF EntryRows
<1>6. EntriesPlaced'
  BY <1>0, <1>1, <1>4, PlacedKept DEF Stored
<1>7. \A x \in es : wants[<<"entry", x>>] = Says(entry'[x], account)
  BY <1>4 DEF Says
<1>8. Settle(wants, {a \in UNION {RowsOn(posted[src], wants[src]) : src \in {"entry"} \X es} :
                       Archived(a)}, account)
  BY DEF DeleteEntries, RepostEntries
<1>9. /\ DOMAIN wants = {"entry"} \X es /\ wants = [src \in {"entry"} \X es |-> wants[src]]
      /\ es \in SUBSET Entries
  OBVIOUS
<1> HIDE DEF wants, es
<1> QED
  BY <1>0, <1>1, <1>2, <1>4, <1>5, <1>6, <1>7, <1>8, <1>9, RepostEntriesKeeps

LEMMA RestoreEntryKeeps ==
  ASSUME Books, NEW e \in Entries, RestoreEntry(e)
  PROVE  Books' /\ (ClosingsSettled => ClosingsSettled')
<1> DEFINE wants == [src \in {"entry"} \X {e} |-> PostingsOf(entry[src[2]].draft, account)]
<1>0. TypeOK /\ EntriesPlaced
  BY DEF Books
<1>1. /\ account' = account /\ zone' = zone /\ now' = now
      /\ entry' = [entry EXCEPT ![e].status = "live"]
      /\ Preparable(entry[e].draft, Sides(entry[e].draft)) /\ entry[e].status = "deleted"
  BY DEF RestoreEntry
<1>2. entry \in EntryRows /\ \A x \in Entries : WellFormed(entry[x].draft)
  BY <1>0 DEF TypeOK, EntryRows
<1>3. /\ entry' \in EntryRows /\ entry'[e].draft = entry[e].draft /\ entry'[e].status = "live"
      /\ \A x \in Entries \ {e} : entry'[x] = entry[x]
  BY <1>1, <1>2 DEF EntryRows
<1>4. \A x \in Entries : WellFormed(entry'[x].draft)
  BY <1>2, <1>3
<1>5. EntriesPlaced'
  BY <1>0, <1>1, <1>3, PlacedKept
<1>6. \A x \in {e} : wants[<<"entry", x>>] = Says(entry'[x], account)
  BY <1>3 DEF Says
<1>7. Settle(wants, {a \in UNION {RowsOn(posted[src], wants[src]) : src \in {"entry"} \X {e}} :
                       Archived(a)}, account)
  BY DEF RestoreEntry, RepostEntries
<1>8. DOMAIN wants = {"entry"} \X {e} /\ wants = [src \in {"entry"} \X {e} |-> wants[src]]
  OBVIOUS
<1> HIDE DEF wants
<1>9. {e} \in SUBSET Entries
  OBVIOUS
<1> QED
  BY <1>0, <1>1, <1>3, <1>4, <1>5, <1>6, <1>7, <1>8, <1>9, RepostEntriesKeeps

(* What a mass edit makes of a draft is well formed again.                 *)
LEMMA PatchedIs ==
  ASSUME TypeOK, NEW e \in Entries, NEW patch \in Patches
  PROVE  WellFormed(Patched(entry[e].draft, patch))
<1> DEFINE d == entry[e].draft
<1> DEFINE next == Patched(d, patch)
<1>1. WellFormed(d)
  BY DEF TypeOK
<1>2. /\ patch.day \in Days \cup {0} /\ patch.account \in Accounts \cup {Nobody}
      /\ patch.type \in {"deposit", "withdrawal", ""} /\ Nobody \notin Accounts
  BY LedgerAssumption
<1> HIDE DEF d
<1>3. CASE d.type = "transfer"
  <2> DEFINE day == IF patch.day = 0 THEN d.day ELSE patch.day
  <2>1. day \in Days
    BY <1>1, <1>2 DEF WellFormed
  <2>2. next = [d EXCEPT !.day = day]
    BY <1>3 DEF Patched
  <2> HIDE DEF day, next
  <2>3. /\ next \in [type : EntryTypes, from : Accounts \cup {Nobody}, to : Accounts \cup {Nobody},
                     sent : Nat \ {0}, received : Nat \ {0}, day : Days, refund : BOOLEAN]
        /\ next.type = d.type /\ next.from = d.from /\ next.to = d.to
    BY <1>1, <2>1, <2>2 DEF WellFormed
  <2>4. WellFormed(next)
    BY <1>1, <1>3, <2>3 DEF WellFormed
  <2> QED
    BY <2>4 DEF next, d
<1>4. CASE d.type # "transfer"
  <2> DEFINE type == IF patch.type = "" THEN d.type ELSE patch.type
  <2> DEFINE side == IF patch.account # Nobody THEN patch.account
                     ELSE IF d.type = "deposit" THEN d.to ELSE d.from
  <2> DEFINE day == IF patch.day = 0 THEN d.day ELSE patch.day
  <2>1. type \in {"deposit", "withdrawal"} /\ side \in Accounts /\ day \in Days
    BY <1>1, <1>2, <1>4 DEF WellFormed, EntryTypes
  <2>2. next = [d EXCEPT !.type = type, !.day = day,
                         !.from = IF type = "deposit" THEN Nobody ELSE side,
                         !.to = IF type = "deposit" THEN side ELSE Nobody,
                         !.refund = IF type = d.type THEN d.refund ELSE FALSE]
    BY <1>4 DEF Patched
  <2>3. d.sent = d.received
    BY <1>1, <1>4 DEF WellFormed
  <2> HIDE DEF type, side, day, next
  <2>4. /\ next.type = type /\ next.day = day /\ next.sent = d.sent /\ next.received = d.received
        /\ next.from = (IF type = "deposit" THEN Nobody ELSE side)
        /\ next.to = (IF type = "deposit" THEN side ELSE Nobody)
        /\ next \in [type : EntryTypes, from : Accounts \cup {Nobody}, to : Accounts \cup {Nobody},
                     sent : Nat \ {0}, received : Nat \ {0}, day : Days, refund : BOOLEAN]
    BY <1>1, <2>1, <2>2 DEF WellFormed, EntryTypes
  <2>5. next.from # next.to
    BY <1>2, <2>1, <2>4
  <2>6. WellFormed(next)
    BY <1>2, <2>1, <2>3, <2>4, <2>5 DEF WellFormed
  <2> QED
    BY <2>6 DEF next, d
<1> QED
  BY <1>3, <1>4 DEF d

LEMMA EditEntriesKeeps ==
  ASSUME Books, NEW selected \in SUBSET Entries, NEW patch \in Patches, EditEntries(selected, patch)
  PROVE  Books' /\ (ClosingsSettled => ClosingsSettled')
<1> DEFINE edited(e) == Row(entry[e].status, Patched(entry[e].draft, patch))
<1> DEFINE es == {e \in selected : edited(e) # entry[e]}
<1> DEFINE wants == [src \in {"entry"} \X es |-> IF entry[src[2]].status = "deleted" THEN Nothing
                                               ELSE PostingsOf(edited(src[2]).draft, account)]
<1>0. TypeOK /\ EntriesPlaced
  BY DEF Books
<1>1. /\ account' = account /\ zone' = zone /\ now' = now
      /\ entry' = [e \in Entries |-> IF e \in es THEN edited(e) ELSE entry[e]]
      /\ \A e \in selected : Patchable(e, patch)
  BY DEF EditEntries
<1>2. entry \in EntryRows /\ \A x \in Entries : WellFormed(entry[x].draft)
  BY <1>0 DEF TypeOK, EntryRows
<1>3. \A x \in Entries : /\ x \in es => entry'[x] = edited(x)
                         /\ x \notin es => entry'[x] = entry[x]
  BY <1>1
<1>4. ASSUME NEW x \in es
      PROVE  /\ entry[x].status \in {"live", "deleted"}
             /\ WellFormed(Patched(entry[x].draft, patch))
             /\ Preparable(Patched(entry[x].draft, patch), Sides(entry[x].draft))
             /\ edited(x).draft = Patched(entry[x].draft, patch)
             /\ edited(x).status = entry[x].status
             /\ edited(x) \in [status : {"none", "live", "deleted"},
                  draft : [type : EntryTypes, from : Accounts \cup {Nobody}, to : Accounts \cup {Nobody},
                           sent : Nat \ {0}, received : Nat \ {0}, day : Days, refund : BOOLEAN],
                  fromCurrency : Currencies \cup {Nobody}, toCurrency : Currencies \cup {Nobody}]
  <2>1. x \in Entries /\ Patchable(x, patch)
    BY <1>1
  <2>2. entry[x].status \in {"live", "deleted"}
    BY <1>2, <2>1 DEF EntryRows, Patchable, Stored
  <2>3. WellFormed(Patched(entry[x].draft, patch))
    BY <1>0, <2>1, PatchedIs
  <2>4. Preparable(Patched(entry[x].draft, patch), Sides(entry[x].draft))
    BY <2>1 DEF Patchable
  <2> QED
    BY <1>0, <2>2, <2>3, <2>4, RowIs
<1>5. entry' \in EntryRows
  <2>1. \A x \in Entries : entry'[x] \in [status : {"none", "live", "deleted"},
                  draft : [type : EntryTypes, from : Accounts \cup {Nobody}, to : Accounts \cup {Nobody},
                           sent : Nat \ {0}, received : Nat \ {0}, day : Days, refund : BOOLEAN],
                  fromCurrency : Currencies \cup {Nobody}, toCurrency : Currencies \cup {Nobody}]
    BY <1>2, <1>3, <1>4 DEF EntryRows
  <2>2. entry' = [x \in Entries |-> entry'[x]]
    BY <1>1
  <2> QED
    BY <2>1, <2>2 DEF EntryRows
<1>6. \A x \in Entries : WellFormed(entry'[x].draft)
  BY <1>2, <1>3, <1>4
<1>7. EntriesPlaced'
  BY <1>0, <1>1, <1>3, <1>4, PlacedKept
<1>8. \A x \in es : wants[<<"entry", x>>] = Says(entry'[x], account)
  BY <1>3, <1>4 DEF Says
<1>9. Settle(wants, {a \in UNION {RowsOn(posted[src], wants[src]) : src \in {"entry"} \X es} :
                       Archived(a)}, account)
  BY DEF EditEntries, RepostEntries
<1>10. /\ DOMAIN wants = {"entry"} \X es /\ wants = [src \in {"entry"} \X es |-> wants[src]]
       /\ es \in SUBSET Entries
  OBVIOUS
<1> HIDE DEF wants, es
<1> QED
  BY <1>0, <1>1, <1>3, <1>5, <1>6, <1>7, <1>8, <1>9, <1>10, RepostEntriesKeeps

-----------------------------------------------------------------------------
(* Accounts: each of their requests writes one row and settles it.         *)

(* Opening pair and closing pair are brought in line with the new row.     *)
LEMMA OpenAndCloseKeeps ==
  ASSUME Books, NEW a \in Accounts, NEW row \in AccountRows, row.status # "none",
         row.status = "archived" => row.archivedAt \in Instants,
         Kept(a) /\ HasPostings(a) => row.currency = account[a].currency,
         UNCHANGED <<entry, now, zone>>, OpenAndClose(a, row)
  PROVE  Books' /\ (ClosingsSettled => ClosingsSettled')
<1> DEFINE rows == [account EXCEPT ![a] = row]
<1> DEFINE wants == [src \in {<<"opening", a>>} |-> OpeningOf(a, row)]
<1>0. TypeOK /\ zone \in Zones
  BY DEF Books, TypeOK
<1>1. account' = rows /\ Settle(wants, {a}, rows)
  BY DEF OpenAndClose
<1>2. rows[a] = row
  BY <1>0 DEF TypeOK
<1>3. Closable(row)
  BY <1>0 DEF Closable, AccountRows, Instants, CalendarDay
<1>4. /\ DOMAIN wants = {<<"opening", a>>} /\ DOMAIN wants \subseteq NotClosing
      /\ wants[<<"opening", a>>] = OpeningOf(a, row) /\ OpeningOf(a, row) \in Slot
  BY OpeningIs, SourcesAre
<1> HIDE DEF wants
<1>5. SettledTo(wants, {a}, rows)
  <2>1. \A src \in DOMAIN wants : wants[src] \in Slot
    BY <1>4
  <2>2. {a} \in SUBSET Accounts /\ \A b \in {a} : Closable(rows[b])
    BY <1>2, <1>3
  <2> QED
    BY <1>0, <1>1, <1>4, <2>1, <2>2, SettleIs
<1>6. AccountWrite(a, row)
  BY <1>1, <1>4, <1>5, SourcesAre DEF AccountWrite, SettledTo
<1> QED
  BY <1>6, AccountWriteKeeps

(* A closing is redone without touching the opening it mirrors.            *)
LEMMA CloseAgainKeeps ==
  ASSUME Books, NEW a \in Accounts, NEW row \in AccountRows, row.status # "none",
         row.status = "archived" => row.archivedAt \in Instants,
         row.currency = account[a].currency, row.opening = account[a].opening,
         row.openingDay = account[a].openingDay,
         UNCHANGED <<entry, now, zone>>, account' = [account EXCEPT ![a] = row],
         Settle(NoWants, {a}, account')
  PROVE  Books' /\ (ClosingsSettled => ClosingsSettled')
<1>0. TypeOK /\ zone \in Zones /\ OpeningsSettled
  BY DEF Books, TypeOK
<1>1. account'[a] = row
  BY <1>0 DEF TypeOK
<1>2. Closable(row)
  BY <1>0 DEF Closable, AccountRows, Instants, CalendarDay
<1>3. DOMAIN NoWants = {}
  BY DEF NoWants
<1>4. SettledTo(NoWants, {a}, account')
  <2>1. \A src \in DOMAIN NoWants : NoWants[src] \in Slot
    BY <1>3
  <2>2. {a} \in SUBSET Accounts /\ \A b \in {a} : Closable(account'[b])
    BY <1>1, <1>2
  <2>3. DOMAIN NoWants \subseteq NotClosing
    BY <1>3
  <2> QED
    BY <1>0, <2>1, <2>2, <2>3, SettleIs
<1>5. OpeningOf(a, row) = OpeningOf(a, account[a])
  BY DEF OpeningOf
<1>6. posted'[<<"opening", a>>] = OpeningOf(a, row)
  BY <1>0, <1>3, <1>4, <1>5, SourcesAre DEF SettledTo, OpeningsSettled
<1>7. AccountWrite(a, row)
  BY <1>3, <1>4, <1>6, SourcesAre DEF AccountWrite, SettledTo
<1> QED
  BY <1>7, AccountWriteKeeps

LEMMA AccountStepKeeps ==
  ASSUME Books, AccountStep
  PROVE  Books' /\ (ClosingsSettled => ClosingsSettled')
<1> DEFINE Goal == Books' /\ (ClosingsSettled => ClosingsSettled')
<1>0. /\ TypeOK /\ now \in Instants /\ now \in Nat
      /\ \A a \in Accounts : account[a] \in AccountRows
      /\ \A a \in Accounts : Archived(a) => account[a].archivedAt \in Instants
  BY DEF Books, TypeOK, AccountRows, Instants, Days
<1> HIDE DEF Goal
<1>1. PICK a \in Accounts :
        \/ \E c \in Currencies, o \in Openings, day \in Days, s \in {"live", "archived"} :
             CreateAccount(a, c, o, day, s)
        \/ \E c \in Currencies, o \in Openings, day \in Days : UpdateAccount(a, c, o, day)
        \/ \E s \in {"live", "archived"} : SetAccountArchived(a, s)
        \/ DeleteAccount(a)
        \/ ReconcileArchived(a)
  BY DEF AccountStep
<1>2. ASSUME NEW c \in Currencies, NEW o \in Openings, NEW day \in Days,
             NEW s \in {"live", "archived"}, CreateAccount(a, c, o, day, s)
      PROVE  Goal
  <2> DEFINE row == [status |-> s, currency |-> c, opening |-> o, openingDay |-> day,
                     archivedAt |-> IF s = "archived" THEN now ELSE 0]
  <2>1. row \in AccountRows /\ row.status # "none"
        /\ (row.status = "archived" => row.archivedAt \in Instants)
    BY <1>0, LedgerAssumption DEF AccountRows
  <2>2. ~ Kept(a) /\ OpenAndClose(a, row) /\ UNCHANGED <<entry, now, zone>>
    BY <1>2 DEF CreateAccount
  <2> HIDE DEF row
  <2> QED
    BY <2>1, <2>2, OpenAndCloseKeeps DEF Goal
<1>3. ASSUME NEW c \in Currencies, NEW o \in Openings, NEW day \in Days, UpdateAccount(a, c, o, day)
      PROVE  Goal
  <2> DEFINE row == [account[a] EXCEPT !.currency = c, !.opening = o, !.openingDay = day]
  <2>1. Kept(a) /\ OpenAndClose(a, row) /\ UNCHANGED <<entry, now, zone>>
        /\ (c # account[a].currency => ~ HasPostings(a))
    BY <1>3 DEF UpdateAccount
  <2>2. o \in Int /\ account[a] \in AccountRows
    BY <1>0, LedgerAssumption
  <2>3. /\ row \in AccountRows /\ row.status = account[a].status /\ row.currency = c
        /\ row.archivedAt = account[a].archivedAt
    BY <2>2 DEF AccountRows
  <2>4. row.status # "none" /\ (row.status = "archived" => row.archivedAt \in Instants)
    BY <1>0, <2>1, <2>3 DEF Kept, Archived
  <2> HIDE DEF row
  <2> QED
    BY <2>1, <2>3, <2>4, OpenAndCloseKeeps DEF Goal
<1>4. ASSUME NEW s \in {"live", "archived"}, SetAccountArchived(a, s)
      PROVE  Goal
  <2> DEFINE row == [account[a] EXCEPT !.status = s,
                                       !.archivedAt = IF s = "archived" THEN now ELSE 0]
  <2>1. /\ account' = [account EXCEPT ![a] = row] /\ UNCHANGED <<entry, now, zone>>
        /\ Settle(NoWants, {a}, [account EXCEPT ![a] = row])
    BY <1>4 DEF SetAccountArchived
  <2>2. /\ row \in AccountRows /\ row.status = s /\ row.currency = account[a].currency
        /\ row.opening = account[a].opening /\ row.openingDay = account[a].openingDay
        /\ row.archivedAt = (IF s = "archived" THEN now ELSE 0)
    BY <1>0 DEF AccountRows
  <2>3. row.status # "none" /\ (row.status = "archived" => row.archivedAt \in Instants)
    BY <1>0, <2>2
  <2> HIDE DEF row
  <2> QED
    BY <2>1, <2>2, <2>3, CloseAgainKeeps DEF Goal
<1>5. ASSUME DeleteAccount(a)
      PROVE  Goal
  BY <1>5, DeleteAccountKeeps DEF Goal
<1>6. ASSUME ReconcileArchived(a)
      PROVE  Goal
  <2> DEFINE row == account[a]
  <2>1. /\ account' = account /\ UNCHANGED <<entry, now, zone>> /\ Settle(NoWants, {a}, account)
        /\ Archived(a)
    BY <1>6 DEF ReconcileArchived
  <2>2. account' = [account EXCEPT ![a] = row]
    BY <1>0, <2>1 DEF TypeOK
  <2>3. /\ row \in AccountRows /\ row.status # "none"
        /\ (row.status = "archived" => row.archivedAt \in Instants)
    BY <1>0, <2>1 DEF Archived
  <2>4. Settle(NoWants, {a}, account')
    BY <2>1
  <2> QED
    BY <2>1, <2>2, <2>3, <2>4, CloseAgainKeeps DEF Goal
<1> QED
  BY <1>1, <1>2, <1>3, <1>4, <1>5, <1>6 DEF Goal

-----------------------------------------------------------------------------
(* The books, kept by every step.                                          *)

LEMMA EntryStepKeeps ==
  ASSUME Books, EntryStep
  PROVE  Books' /\ (ClosingsSettled => ClosingsSettled')
<1>1. CASE \E e \in Entries, d \in Drafts : CreateEntry(e, d)
  BY <1>1, CreateEntryKeeps
<1>2. CASE \E e \in Entries, d \in Drafts : UpdateEntry(e, d)
  BY <1>2, UpdateEntryKeeps
<1>3. CASE \E selected \in SUBSET Entries : DeleteEntries(selected)
  BY <1>3, DeleteEntriesKeeps
<1>4. CASE \E e \in Entries : RestoreEntry(e)
  BY <1>4, RestoreEntryKeeps
<1>5. CASE \E selected \in SUBSET Entries, patch \in Patches : EditEntries(selected, patch)
  BY <1>5, EditEntriesKeeps
<1> QED
  BY <1>1, <1>2, <1>3, <1>4, <1>5 DEF EntryStep

(* Nothing the books say looks at the clock or at the timezone.            *)
LEMMA ClockKeeps ==
  ASSUME Books, UNCHANGED <<account, entry, posted, written>>, now' \in Instants, zone' \in Zones
  PROVE  Books' /\ (zone' = zone /\ ClosingsSettled => ClosingsSettled')
<1>1. TypeOK'
  BY DEF Books, TypeOK, Archived
<1>2. EntriesSettled' /\ OpeningsSettled' /\ ClosingsPaired'
  BY DEF Books, EntriesSettled, OpeningsSettled, ClosingsPaired, Own, OpeningOf
<1>3. EntriesPlaced'
  BY DEF Books, EntriesPlaced, Stored, Kept, Even
<1>4. Recorded' /\ OwnRowsOnly' /\ NoOrphanPostings'
  BY DEF Books, Recorded, OwnRowsOnly, NoOrphanPostings, Kept
<1>5. ASSUME zone' = zone, ClosingsSettled PROVE ClosingsSettled'
  <2>1. \A a \in Accounts : ClosingWanted(posted, a, account[a]) = ClosingWanted(posted', a, account'[a])
    OBVIOUS
  <2> QED
    BY <1>5, <2>1, ClosingsPrimed DEF ClosingsSettled
<1> QED
  BY <1>1, <1>2, <1>3, <1>4, <1>5 DEF Books

(* The clock starts on a day that is a day in every timezone.              *)
LEMMA FirstInstant == 1 \in Instants
<1>1. PICK t \in Instants : TRUE
  BY LedgerAssumption
<1>2. LastDay \in Nat /\ t \in Nat /\ 1 <= t /\ t <= LastDay /\ Zones \subseteq Nat
  <2>1. LastDay \in Nat /\ Zones \subseteq Nat
    BY LedgerAssumption
  <2> QED
    BY <1>1, <2>1 DEF Instants, Days
<1>3. \A z \in Zones : z \in Nat /\ t + z <= LastDay
  BY <1>1, <1>2 DEF Instants, Days
<1>4. \A z \in Zones : 1 + z \in 1 .. LastDay
  <2> TAKE z \in Zones
  <2>1. z \in Nat /\ t + z <= LastDay
    BY <1>3
  <2> QED
    BY <1>2, <2>1
<1>5. 1 \in 1 .. LastDay
  BY <1>2
<1> QED
  BY <1>4, <1>5 DEF Instants, Days

LEMMA InitBooks ==
  ASSUME Init
  PROVE  Books /\ ClosingsSettled
<1>1. Unopened \in AccountRows /\ \A a \in Accounts : OpeningOf(a, Unopened) = Nothing
  BY UnopenedRow
<1>2. \A a \in Accounts : account[a] = Unopened /\ account[a].status = "none"
  BY DEF Init, Unopened
<1>3. (CHOOSE d \in Drafts : TRUE) \in Drafts
  BY LedgerAssumption
<1>4. WellFormed(NoEntry.draft) /\ NoEntry.status = "none"
  BY <1>3, LedgerAssumption DEF NoEntry
<1>5. entry \in EntryRows /\ \A e \in Entries : entry[e] = NoEntry
  BY <1>4 DEF Init, NoEntry, EntryRows, WellFormed
<1>6. posted \in [Sources -> Slot] /\ \A src \in Sources : posted[src] = Nothing
  BY NothingIs DEF Init
<1>7. \A src \in Sources : written[src] = {}
  BY DEF Init
<1>8. now \in Instants
  BY FirstInstant DEF Init
<1>9. TypeOK
  <2>1. account \in [Accounts -> AccountRows]
    BY <1>1 DEF Init
  <2> QED
    BY <1>2, <1>4, <1>5, <1>6, <1>8, <2>1 DEF Init, TypeOK, Archived, AccountRows, EntryRows, Slot
<1>10. EntriesSettled /\ OpeningsSettled
  BY <1>1, <1>2, <1>4, <1>5, <1>6, SourcesAre DEF EntriesSettled, OpeningsSettled
<1>11. ClosingsPaired
  <2>1. \A a \in Accounts : <<"equity", account[a].currency>> \in LedgerAccounts
    BY <1>1, <1>2 DEF AccountRows, LedgerAccounts, Counters, CounterKinds
  <2> SUFFICES ASSUME NEW a \in Accounts, NEW day \in Days
               PROVE  /\ posted[<<"closing", a>>][<<<<"equity", account[a].currency>>, day>>]
                           = -posted[<<"closing", a>>][<<a, day>>]
                      /\ \A la \in LedgerAccounts \ Own(a) : posted[<<"closing", a>>][<<la, day>>] = 0
    BY DEF ClosingsPaired
  <2>2. posted[<<"closing", a>>] = Nothing /\ a \in LedgerAccounts
    BY <1>6, SourcesAre, SlotsAre
  <2>3. \A la \in LedgerAccounts : Nothing[<<la, day>>] = 0
    BY NothingIs
  <2> QED
    BY <2>1, <2>2, <2>3
<1>12. ClosingsSettled
  BY <1>2, <1>6, NothingIs, SourcesAre DEF ClosingsSettled
<1>13. EntriesPlaced
  BY <1>4, <1>5 DEF EntriesPlaced, Stored
<1>14. Recorded /\ OwnRowsOnly /\ NoOrphanPostings
  BY <1>6, <1>7, NothingIs, SourcesAre, SlotsAre DEF Recorded, OwnRowsOnly, NoOrphanPostings
<1> QED
  BY <1>9, <1>10, <1>11, <1>12, <1>13, <1>14 DEF Books

LEMMA NextKeeps ==
  ASSUME Books, [Next]_vars
  PROVE  Books' /\ (zone' = zone /\ ClosingsSettled => ClosingsSettled')
<1>0. now \in Instants /\ zone \in Zones
  BY DEF Books, TypeOK
<1>1. CASE EntryStep
  BY <1>1, EntryStepKeeps
<1>2. CASE AccountStep
  BY <1>2, AccountStepKeeps
<1>3. CASE Advance
  BY <1>0, <1>3, ClockKeeps DEF Advance
<1>4. CASE \E z \in Zones : SetTimezone(z)
  BY <1>0, <1>4, ClockKeeps DEF SetTimezone
<1>5. CASE UNCHANGED vars
  BY <1>0, <1>5, ClockKeeps DEF vars
<1> QED
  BY <1>1, <1>2, <1>3, <1>4, <1>5 DEF Next

(***************************************************************************)
(* The books hold in every reachable state: every row has its type, every  *)
(* source's postings say what its row says, and rows outlive no account.   *)
(***************************************************************************)
THEOREM BooksHold == Spec => []Books
<1>1. Init => Books
  BY InitBooks
<1>2. Books /\ [Next]_vars => Books'
  BY NextKeeps
<1> QED
  BY <1>1, <1>2, PTL DEF Spec

(* Rows are well formed and postings are whole amounts on known slots.     *)
THEOREM TypeCorrect == Spec => []TypeOK
<1>1. Books => TypeOK
  BY DEF Books
<1> QED
  BY <1>1, BooksHold, PTL

(* No request can leave an entry's postings behind its row, or a deleted   *)
(* entry posted: transactions.ts writes both or neither.                   *)
THEOREM EntriesAlwaysSettled == Spec => []EntriesSettled
<1>1. Books => EntriesSettled
  BY DEF Books
<1> QED
  BY <1>1, BooksHold, PTL

(* Deleting an account never leaves a posting row that names it.           *)
THEOREM NoPostingOutlivesItsAccount == Spec => []NoOrphanPostings
<1>1. Books => NoOrphanPostings
  BY DEF Books
<1> QED
  BY <1>1, BooksHold, PTL

-----------------------------------------------------------------------------
(* What the invariant of the books says of the sums a person is shown:     *)
(* double entry in every currency, and archived accounts that read zero    *)
(* while the timezone stands still.                                        *)

-----------------------------------------------------------------------------
(* Double entry.                                                           *)

(* Two opposite amounts and nothing else sum to nothing.                   *)
LEMMA OppositePair ==
  ASSUME NEW S, IsFiniteSet(S), NEW f, NEW x \in S, NEW y \in S, x # y,
         \A z \in S : f[z] \in Int, f[y] = -f[x], \A z \in S \ {x, y} : f[z] = 0
  PROVE  SumFunctionOnSet(f, S) = 0
<1>1. SumFunctionOnSet(f, S) = SumFunctionOnSet(f, {x, y})
  <2>1. {x, y} \in SUBSET S /\ \A z \in S \ {x, y} : f[z] = 0
    OBVIOUS
  <2> QED
    BY <2>1, SumSupport
<1>2. SumFunctionOnSet(f, {x, y}) = f[x] + SumFunctionOnSet(f, {y})
  <2>1. IsFiniteSet({x, y}) /\ x \in {x, y} /\ \A z \in {x, y} : f[z] \in Int
    BY FS_Subset
  <2>2. {x, y} \ {x} = {y}
    OBVIOUS
  <2>3. SumFunctionOnSet(f, {x, y}) = f[x] + SumFunctionOnSet(f, {x, y} \ {x})
    BY <2>1, SumRemove
  <2> QED
    BY <2>2, <2>3
<1>3. SumFunctionOnSet(f, {y}) = f[y] /\ f[x] \in Int /\ f[y] \in Int
  BY SumSingleton
<1> QED
  BY <1>1, <1>2, <1>3

SumIn(c, rows, day) == SumFunctionOnSet([la \in LedgerAccounts |-> rows[<<la, day>>]], InCurrency(c))

LEMMA InCurrencyIs ==
  ASSUME TypeOK, NEW c \in Currencies
  PROVE  /\ InCurrency(c) \subseteq LedgerAccounts /\ IsFiniteSet(InCurrency(c))
         /\ \A a \in Accounts : a \in InCurrency(c) <=> account[a].currency = c
         /\ \A k \in CounterKinds, x \in Currencies : <<k, x>> \in InCurrency(c) <=> x = c
<1>1. InCurrency(c) \subseteq LedgerAccounts
  BY DEF InCurrency, LedgerAccounts, Counters
<1>2. IsFiniteSet(InCurrency(c))
  BY <1>1, SourcesFinite, FS_Subset
<1>3. \A a \in Accounts : a \in InCurrency(c) <=> account[a].currency = c
  BY CountersApart DEF InCurrency, Counters
<1>4. \A k \in CounterKinds, x \in Currencies : <<k, x>> \in InCurrency(c) <=> x = c
  BY CountersApart DEF InCurrency, Counters
<1> QED
  BY <1>1, <1>2, <1>3, <1>4

(* Rows that move money between two accounts of one currency balance.      *)
LEMMA MovesBalance ==
  ASSUME TypeOK, NEW rows \in Slot, NEW day \in Days, NEW c \in Currencies,
         NEW x \in LedgerAccounts, NEW y \in LedgerAccounts, x # y,
         x \in InCurrency(c) <=> y \in InCurrency(c),
         rows[<<y, day>>] = -rows[<<x, day>>],
         \A la \in LedgerAccounts \ {x, y} : rows[<<la, day>>] = 0
  PROVE  SumIn(c, rows, day) = 0
<1> DEFINE f == [la \in LedgerAccounts |-> rows[<<la, day>>]]
<1>1. InCurrency(c) \subseteq LedgerAccounts /\ IsFiniteSet(InCurrency(c))
  BY InCurrencyIs
<1>2. \A la \in LedgerAccounts : f[la] = rows[<<la, day>>] /\ f[la] \in Int
  <2> TAKE la \in LedgerAccounts
  <2>1. <<la, day>> \in Slots
    BY SlotsAre
  <2> QED
    BY <2>1 DEF Slot
<1>3. SumIn(c, rows, day) = SumFunctionOnSet(f, InCurrency(c))
  BY DEF SumIn
<1> HIDE DEF f
<1>4. CASE x \in InCurrency(c)
  <2>1. /\ y \in InCurrency(c) /\ f[y] = -f[x]
        /\ \A z \in InCurrency(c) : f[z] \in Int
        /\ \A z \in InCurrency(c) \ {x, y} : f[z] = 0
    BY <1>1, <1>2, <1>4
  <2> QED
    BY <1>1, <1>3, <1>4, <2>1, OppositePair
<1>5. CASE x \notin InCurrency(c)
  <2>1. \A z \in InCurrency(c) : f[z] = 0
    BY <1>1, <1>2, <1>5
  <2> QED
    BY <1>1, <1>3, <2>1, SumZero
<1> QED
  BY <1>4, <1>5

LEMMA PairBalances ==
  ASSUME TypeOK, NEW x \in LedgerAccounts, NEW y \in LedgerAccounts, x # y,
         NEW on \in Days, NEW n \in Int, NEW day \in Days, NEW c \in Currencies,
         x \in InCurrency(c) <=> y \in InCurrency(c)
  PROVE  SumIn(c, Pair(x, y, on, n), day) = 0
<1> DEFINE rows == Pair(x, y, on, n)
<1>1. /\ rows \in Slot
      /\ \A la \in LedgerAccounts, d \in Days : d # on \/ (la # x /\ la # y) => rows[<<la, d>>] = 0
      /\ rows[<<x, on>>] = n /\ rows[<<y, on>>] = -n
  BY PairIs
<1> HIDE DEF rows
<1>2. rows[<<y, day>>] = -rows[<<x, day>>]
  <2>1. CASE day = on
    BY <1>1, <2>1
  <2>2. CASE day # on
    <3>1. \A la \in LedgerAccounts : rows[<<la, day>>] = 0
      BY <1>1, <2>2
    <3> QED
      BY <3>1
  <2> QED
    BY <2>1, <2>2
<1>3. \A la \in LedgerAccounts \ {x, y} : rows[<<la, day>>] = 0
  BY <1>1
<1>4. SumIn(c, rows, day) = 0
  BY <1>1, <1>2, <1>3, MovesBalance
<1> QED
  BY <1>4 DEF rows

(* Every draft's postings balance in every currency on every day.          *)
LEMMA PostingsBalance ==
  ASSUME TypeOK, NEW d, WellFormed(d), NEW day \in Days, NEW c \in Currencies
  PROVE  SumIn(c, PostingsOf(d, account), day) = 0
<1> DEFINE cur(side) == account[side].currency
<1>0. /\ d.day \in Days /\ d.sent \in Int /\ d.received \in Int /\ -d.sent \in Int /\ d.from # d.to
      /\ d.type \in EntryTypes
  BY DEF WellFormed
<1>1. \A a \in Accounts : cur(a) \in Currencies
  BY ClosableRows
<1>2. \A k \in CounterKinds, a \in Accounts :
        /\ <<k, cur(a)>> \in LedgerAccounts /\ a \in LedgerAccounts /\ a # <<k, cur(a)>>
        /\ a \in InCurrency(c) <=> <<k, cur(a)>> \in InCurrency(c)
  BY <1>1, CountersApart, InCurrencyIs DEF LedgerAccounts, Counters
<1>3. CounterKind(d) \in CounterKinds /\ "exchange" \in CounterKinds
  BY DEF CounterKind, CounterKinds
<1> HIDE DEF cur
<1>4. CASE d.type = "deposit"
  <2>1. d.to \in Accounts
    BY <1>4 DEF WellFormed
  <2>2. PostingsOf(d, account) = Pair(d.to, <<CounterKind(d), cur(d.to)>>, d.day, d.sent)
    BY <1>4 DEF PostingsOf, cur
  <2> QED
    BY <1>0, <1>2, <1>3, <2>1, <2>2, PairBalances
<1>5. CASE d.type = "withdrawal"
  <2>1. d.from \in Accounts
    BY <1>5 DEF WellFormed
  <2>2. PostingsOf(d, account) = Pair(d.from, <<CounterKind(d), cur(d.from)>>, d.day, -d.sent)
    BY <1>5 DEF PostingsOf, cur
  <2> QED
    BY <1>0, <1>2, <1>3, <2>1, <2>2, PairBalances
<1>6. CASE d.type = "transfer"
  <2>1. d.from \in Accounts /\ d.to \in Accounts /\ d.from \in LedgerAccounts /\ d.to \in LedgerAccounts
    BY <1>6, SlotsAre DEF WellFormed
  <2>2. CASE cur(d.from) = cur(d.to)
    <3>1. PostingsOf(d, account) = Pair(d.from, d.to, d.day, -d.sent)
      BY <1>6, <2>2 DEF PostingsOf, cur
    <3>2. d.from \in InCurrency(c) <=> d.to \in InCurrency(c)
      BY <2>1, <2>2, InCurrencyIs DEF cur
    <3> QED
      BY <1>0, <2>1, <3>1, <3>2, PairBalances
  <2>3. CASE cur(d.from) # cur(d.to)
    <3> DEFINE out == Pair(d.from, <<"exchange", cur(d.from)>>, d.day, -d.sent)
    <3> DEFINE in == Pair(d.to, <<"exchange", cur(d.to)>>, d.day, d.received)
    <3> DEFINE sum == [slot \in Slots |-> out[slot] + in[slot]]
    <3>1. PostingsOf(d, account) = sum
      BY <1>6, <2>3 DEF PostingsOf, cur
    <3>2. SumIn(c, out, day) = 0 /\ SumIn(c, in, day) = 0
      BY <1>0, <1>2, <1>3, <2>1, PairBalances
    <3>3. out \in Slot /\ in \in Slot
      BY <1>0, <1>2, <1>3, <2>1, PairIs
    <3> HIDE DEF out, in
    <3> DEFINE fo == [la \in LedgerAccounts |-> out[<<la, day>>]]
    <3> DEFINE fi == [la \in LedgerAccounts |-> in[<<la, day>>]]
    <3> DEFINE fs == [la \in LedgerAccounts |-> sum[<<la, day>>]]
    <3>4. \A la \in LedgerAccounts : fo[la] \in Int /\ fi[la] \in Int /\ fs[la] = fo[la] + fi[la]
      <4> TAKE la \in LedgerAccounts
      <4>1. <<la, day>> \in Slots
        BY SlotsAre
      <4> QED
        BY <3>3, <4>1 DEF Slot
    <3>5. InCurrency(c) \subseteq LedgerAccounts /\ IsFiniteSet(InCurrency(c))
      BY InCurrencyIs
    <3>6. /\ SumFunctionOnSet(fo, InCurrency(c)) = 0
          /\ SumFunctionOnSet(fi, InCurrency(c)) = 0
          /\ SumIn(c, sum, day) = SumFunctionOnSet(fs, InCurrency(c))
      BY <3>2 DEF SumIn
    <3> HIDE DEF fo, fi, fs, sum
    <3>7. SumFunctionOnSet(fs, InCurrency(c))
            = SumFunctionOnSet(fo, InCurrency(c)) + SumFunctionOnSet(fi, InCurrency(c))
      BY <3>4, <3>5, SumLinear
    <3> QED
      BY <3>1, <3>6, <3>7
  <2> QED
    BY <2>2, <2>3
<1> QED
  BY <1>0, <1>4, <1>5, <1>6 DEF EntryTypes

LEMMA BooksBalance ==
  ASSUME Books
  PROVE  ZeroSum
<1>0. TypeOK /\ EntriesSettled /\ OpeningsSettled /\ ClosingsPaired
  BY DEF Books
<1> SUFFICES ASSUME NEW src \in Sources, NEW day \in Days, NEW c \in Currencies
             PROVE  SumIn(c, posted[src], day) = 0
  BY DEF ZeroSum, SumIn
<1>1. posted[src] \in Slot
  BY <1>0 DEF TypeOK, Slot
<1>2. \A a \in Accounts : /\ <<"equity", account[a].currency>> \in LedgerAccounts
                          /\ a \in LedgerAccounts /\ a # <<"equity", account[a].currency>>
                          /\ a \in InCurrency(c) <=> <<"equity", account[a].currency>> \in InCurrency(c)
  BY <1>0, ClosableRows, CountersApart, InCurrencyIs DEF LedgerAccounts, Counters, CounterKinds
<1>3. CASE \E e \in Entries : src = <<"entry", e>>
  <2>1. PICK e \in Entries : src = <<"entry", e>>
    BY <1>3
  <2>2. CASE entry[e].status = "live"
    <3>1. posted[src] = PostingsOf(entry[e].draft, account) /\ WellFormed(entry[e].draft)
      BY <1>0, <2>1, <2>2 DEF EntriesSettled, TypeOK
    <3> QED
      BY <1>0, <3>1, PostingsBalance
  <2>3. CASE entry[e].status # "live"
    <3>1. posted[src] = Nothing
      BY <1>0, <2>1, <2>3 DEF EntriesSettled
    <3>2. /\ \A la \in InCurrency(c) : [x \in LedgerAccounts |-> Nothing[<<x, day>>]][la] = 0
          /\ IsFiniteSet(InCurrency(c))
      BY <1>0, InCurrencyIs, NothingIs
    <3>3. SumIn(c, Nothing, day) = 0
      BY <3>2, SumZero DEF SumIn
    <3> QED
      BY <3>1, <3>3
  <2> QED
    BY <2>2, <2>3
<1>4. CASE \E a \in Accounts : src = <<"opening", a>>
  <2>1. PICK a \in Accounts : src = <<"opening", a>>
    BY <1>4
  <2>2. account[a].openingDay \in Days /\ account[a].opening \in Int
    BY <1>0 DEF TypeOK
  <2>3. posted[src] = Pair(a, <<"equity", account[a].currency>>, account[a].openingDay, account[a].opening)
    BY <1>0, <2>1 DEF OpeningsSettled, OpeningOf
  <2> QED
    BY <1>0, <1>2, <2>2, <2>3, PairBalances
<1>5. CASE \E a \in Accounts : src = <<"closing", a>>
  <2>1. PICK a \in Accounts : src = <<"closing", a>>
    BY <1>5
  <2> DEFINE eq == <<"equity", account[a].currency>>
  <2>2. posted[src][<<eq, day>>] = -posted[src][<<a, day>>]
    BY <1>0, <2>1 DEF ClosingsPaired
  <2>3. \A la \in LedgerAccounts \ {a, eq} : posted[src][<<la, day>>] = 0
    BY <1>0, <2>1 DEF ClosingsPaired, Own
  <2>4. /\ eq \in LedgerAccounts /\ a \in LedgerAccounts /\ a # eq
        /\ a \in InCurrency(c) <=> eq \in InCurrency(c)
    BY <1>2
  <2> HIDE DEF eq
  <2> QED
    BY <1>0, <1>1, <2>2, <2>3, <2>4, MovesBalance
<1> QED
  BY <1>3, <1>4, <1>5, SourcesAre

(***************************************************************************)
(* Double entry always holds: in every source of postings, on every day    *)
(* and in every currency as the accounts hold it now, what is taken from   *)
(* one account is given to another.                                        *)
(***************************************************************************)
THEOREM DoubleEntry == Spec => []ZeroSum
<1>1. Books => ZeroSum
  BY BooksBalance
<1> QED
  BY <1>1, BooksHold, PTL

-----------------------------------------------------------------------------
(* Archived accounts.                                                      *)

(* What closings say of an account on a day is what its own closing says.  *)
LEMMA OwnClosing ==
  ASSUME Books, NEW a \in Accounts, NEW day \in Days
  PROVE  SumFunctionOnSet([src \in {"closing"} \X Accounts |-> posted[src][<<a, day>>]],
                          {"closing"} \X Accounts) = posted[<<"closing", a>>][<<a, day>>]
<1> DEFINE S == {"closing"} \X Accounts
<1> DEFINE f == [src \in S |-> posted[src][<<a, day>>]]
<1> DEFINE own == <<"closing", a>>
<1>0. TypeOK /\ ClosingsPaired
  BY DEF Books
<1>1. \A src \in S : \E b \in Accounts : src = <<"closing", b>>
  OBVIOUS
<1>2. \A b \in Accounts : <<"closing", b>> \in S /\ f[<<"closing", b>>] = posted[<<"closing", b>>][<<a, day>>]
  OBVIOUS
<1>3. \A b \in Accounts : posted[<<"closing", b>>][<<a, day>>] \in Int
  <2> TAKE b \in Accounts
  <2>1. <<"closing", b>> \in Sources /\ <<a, day>> \in Slots
    BY SourcesAre, SlotsAre
  <2>2. posted[<<"closing", b>>] \in Slot
    BY <1>0, <2>1 DEF TypeOK, Slot
  <2> QED
    BY <2>1, <2>2 DEF Slot
<1>4. \A b \in Accounts : b # a => posted[<<"closing", b>>][<<a, day>>] = 0
  <2> SUFFICES ASSUME NEW b \in Accounts, b # a PROVE posted[<<"closing", b>>][<<a, day>>] = 0
    OBVIOUS
  <2>1. a \in LedgerAccounts \ Own(b)
    BY <1>0, ClosableRows, CountersApart DEF Own, LedgerAccounts, Counters, CounterKinds
  <2> QED
    BY <1>0, <2>1 DEF ClosingsPaired
<1>5. IsFiniteSet(S) /\ own \in S /\ f[own] = posted[own][<<a, day>>] /\ f[own] \in Int
  BY <1>2, <1>3, SourcesFinite
<1> HIDE DEF f, S
<1>6. (\A src \in S : f[src] \in Int) /\ (\A src \in S \ {own} : f[src] = 0)
  BY <1>1, <1>2, <1>3, <1>4
<1>7. SumFunctionOnSet(f, S) = SumFunctionOnSet(f, {own})
  <2>1. {own} \in SUBSET S
    BY <1>5
  <2> QED
    BY <1>5, <1>6, <2>1, SumSupport
<1>8. SumFunctionOnSet(f, {own}) = f[own]
  BY <1>5, SumSingleton
<1> QED
  BY <1>5, <1>7, <1>8 DEF f, S

(* From the archive day on, the mirrors add up to all that was given.      *)
LEMMA MirrorsAddUp ==
  ASSUME NEW p \in Postings, NEW a \in Accounts, NEW anchor \in Days, NEW day \in Days, anchor <= day
  PROVE  SumFunctionOnSet([d \in Days |-> Measured(p, a, anchor, d)], 1 .. day) = NetOver(p, a, 1 .. day)
<1> DEFINE M == [d \in Days |-> Measured(p, a, anchor, d)]
<1> DEFINE N == [d \in Days |-> NetOn(p, a, d)]
<1> DEFINE early == 1 .. anchor
<1> DEFINE late == (anchor + 1) .. day
<1>0. LastDay \in Nat
  BY LedgerAssumption
<1>1. anchor \in Nat /\ day \in Nat /\ 1 <= anchor /\ day <= LastDay
  BY <1>0 DEF Days
<1>2. /\ 1 .. day = early \cup late /\ early \cap late = {}
      /\ early \subseteq Days /\ late \subseteq Days /\ anchor \in early
  BY <1>0, <1>1 DEF Days
<1>3. IsFiniteSet(early) /\ IsFiniteSet(late)
  BY <1>2, SourcesFinite, FS_Subset
<1>4. \A d \in Days : NetOn(p, a, d) \in Int /\ NetOver(p, a, early) \in Int
  BY <1>2, NetType
<1>5. /\ \A d \in Days : N[d] = NetOn(p, a, d) /\ N[d] \in Int
      /\ \A d \in early \ {anchor} : M[d] = 0
      /\ M[anchor] = NetOver(p, a, early)
      /\ \A d \in late : M[d] = N[d]
  <2>1. \A d \in early \ {anchor} : d < anchor
    BY <1>1
  <2>2. \A d \in late : d > anchor /\ d # anchor
    BY <1>1
  <2>3. \A d \in Days : M[d] = Measured(p, a, anchor, d)
    OBVIOUS
  <2>4. \A d \in early \ {anchor} : Measured(p, a, anchor, d) = 0
    BY <2>1 DEF Measured
  <2>5. Measured(p, a, anchor, anchor) = NetOver(p, a, early)
    BY <1>1 DEF Measured
  <2>6. \A d \in late : Measured(p, a, anchor, d) = NetOn(p, a, d)
    <3> TAKE d \in late
    <3>1. ~ (d < anchor) /\ d # anchor
      BY <1>1, <2>2
    <3> QED
      BY <3>1 DEF Measured
  <2> HIDE DEF M, early, late
  <2> QED
    BY <1>2, <1>4, <2>3, <2>4, <2>5, <2>6
<1>6. NetOver(p, a, 1 .. day) = SumFunctionOnSet(N, 1 .. day) /\ NetOver(p, a, early) = SumFunctionOnSet(N, early)
  BY DEF NetOver
<1> HIDE DEF M, N, early, late
<1>7. \A d \in early \cup late : M[d] \in Int
  BY <1>2, <1>4, <1>5
<1>8. SumFunctionOnSet(M, early \cup late) = SumFunctionOnSet(M, early) + SumFunctionOnSet(M, late)
  BY <1>2, <1>3, <1>7, SumUnion
<1>9. SumFunctionOnSet(N, early \cup late) = SumFunctionOnSet(N, early) + SumFunctionOnSet(N, late)
  <2>1. \A d \in early \cup late : N[d] \in Int
    BY <1>2, <1>5
  <2> QED
    BY <1>2, <1>3, <2>1, SumUnion
<1>10. SumFunctionOnSet(M, early) = SumFunctionOnSet(N, early)
  <2>1. {anchor} \in SUBSET early /\ \A d \in early : M[d] \in Int
    BY <1>2, <1>7
  <2>2. SumFunctionOnSet(M, early) = SumFunctionOnSet(M, {anchor})
    BY <1>3, <1>5, <2>1, SumSupport
  <2>3. SumFunctionOnSet(M, {anchor}) = M[anchor]
    BY <1>2, <1>7, SumSingleton
  <2> QED
    BY <1>5, <1>6, <2>2, <2>3
<1>11. SumFunctionOnSet(M, late) = SumFunctionOnSet(N, late)
  BY <1>3, <1>5, SumEqual
<1>12. SumFunctionOnSet(M, 1 .. day) = SumFunctionOnSet(N, 1 .. day)
  BY <1>2, <1>8, <1>9, <1>10, <1>11
<1> QED
  BY <1>6, <1>12 DEF M

LEMMA SettledReadsZero ==
  ASSUME Books, ClosingsSettled
  PROVE  ArchivedReadsZero
<1> SUFFICES ASSUME NEW a \in Accounts, NEW day \in Days, Archived(a), day >= ArchiveDay(a)
             PROVE  Balance(a, day) = 0
  BY DEF ArchivedReadsZero
<1> DEFINE anchor == ArchiveDay(a)
<1> DEFINE M == [d \in Days |-> Measured(posted, a, anchor, d)]
<1> DEFINE C == [d \in Days |->
                   SumFunctionOnSet([src \in {"closing"} \X Accounts |-> posted[src][<<a, d>>]],
                                    {"closing"} \X Accounts)]
<1>0. TypeOK /\ posted \in Postings /\ Closable(account[a])
  BY ClosableRows DEF Books, TypeOK, Postings, Slot
<1>1. anchor \in Days
  BY <1>0 DEF Closable, ArchiveDay, Archived
<1>2. \A d \in Days : posted[<<"closing", a>>][<<a, d>>] = -Measured(posted, a, anchor, d)
  <2>1. posted[<<"closing", a>>] = ClosingWanted(posted, a, account[a])
    BY DEF ClosingsSettled
  <2>2. account[a].status = "archived" /\ anchor = CalendarDay(account[a].archivedAt, zone)
    BY DEF Archived, ArchiveDay
  <2>3. \A d \in Days : ClosingWanted(posted, a, account[a])[<<a, d>>]
                          = -Measured(posted, a, CalendarDay(account[a].archivedAt, zone), d)
    <3> DEFINE row == account[a]
    <3>1. Closable(row) /\ row.status = "archived"
      BY <1>0, <2>2
    <3> HIDE DEF row
    <3>2. \A d \in Days : ClosingWanted(posted, a, row)[<<a, d>>]
                           = -Measured(posted, a, CalendarDay(row.archivedAt, zone), d)
      BY <1>0, <3>1, ClosingIs, ZenonT(40)
    <3> QED
      BY <3>2 DEF row
  <2> QED
    BY <2>1, <2>2, <2>3
<1>3. \A d \in Days : Measured(posted, a, anchor, d) \in Int
  <2>1. \A d \in Days : NetOn(posted, a, d) \in Int
    BY <1>0, NetType
  <2>2. NetOver(posted, a, 1 .. anchor) \in Int
    BY <1>0, <1>1, NetType, DayPrefix
  <2> QED
    BY <2>1, <2>2 DEF Measured
<1>4. \A d \in Days : C[d] = posted[<<"closing", a>>][<<a, d>>]
  BY OwnClosing
<1>5. \A d \in Days : M[d] = Measured(posted, a, anchor, d)
  OBVIOUS
<1>6. Balance(a, day) = NetOver(posted, a, 1 .. day) + SumFunctionOnSet(C, 1 .. day)
  BY DEF Balance
<1>7. 1 .. day \in SUBSET Days /\ IsFiniteSet(1 .. day)
  BY DayPrefix, SourcesFinite, FS_Subset
<1>8. day >= anchor
  OBVIOUS
<1>9. anchor <= day
  <2>1. LastDay \in Nat
    BY LedgerAssumption
  <2> HIDE DEF anchor
  <2> QED
    BY <1>1, <1>8, <2>1 DEF Days
<1>10. SumFunctionOnSet(M, 1 .. day) = NetOver(posted, a, 1 .. day)
  <2> HIDE DEF anchor
  <2> QED
    BY <1>0, <1>1, <1>9, MirrorsAddUp
<1> HIDE DEF M, C, anchor
<1>11. SumFunctionOnSet(C, 1 .. day) = -SumFunctionOnSet(M, 1 .. day)
  <2>1. \A d \in 1 .. day : M[d] \in Int /\ C[d] = -M[d]
    BY <1>2, <1>3, <1>4, <1>5, <1>7
  <2> QED
    BY <1>7, <2>1, SumNegate
<1>12. NetOver(posted, a, 1 .. day) \in Int
  BY <1>0, <1>7, NetType
<1> QED
  BY <1>6, <1>10, <1>11, <1>12

(***************************************************************************)
(* Balances.                                                               *)

(* What a source gave an account up to a day, when all it gave is n on one *)
(* day, or nothing.                                                        *)
LEMMA GivenUpTo ==
  ASSUME NEW f, NEW day \in Days, NEW on \in Days, NEW n \in Int,
         \A d \in Days : f[d] = IF d = on THEN n ELSE 0
  PROVE  SumFunctionOnSet(f, 1 .. day) = IF on <= day THEN n ELSE 0
<1>1. 1 .. day \in SUBSET Days /\ IsFiniteSet(1 .. day)
  BY DayPrefix, SourcesFinite, FS_Subset
<1>2. CASE on <= day
  <2>1. on \in 1 .. day
    <3>1. LastDay \in Nat
      BY LedgerAssumption
    <3> QED
      BY <1>2, <3>1 DEF Days
  <2>2. {on} \in SUBSET (1 .. day) /\ (\A d \in 1 .. day : f[d] \in Int)
        /\ \A d \in (1 .. day) \ {on} : f[d] = 0
    BY <1>1, <2>1
  <2>3. SumFunctionOnSet(f, 1 .. day) = SumFunctionOnSet(f, {on})
    BY <1>1, <2>2, SumSupport
  <2>4. f[on] = n
    OBVIOUS
  <2>5. SumFunctionOnSet(f, {on}) = f[on]
    BY <2>4, SumSingleton
  <2> QED
    BY <1>2, <2>3, <2>4, <2>5
<1>3. CASE ~ (on <= day)
  <2>1. \A d \in 1 .. day : f[d] = 0
    <3>1. on \notin 1 .. day
      BY <1>3 DEF Days
    <3> QED
      BY <1>1, <3>1
  <2> QED
    BY <1>1, <1>3, <2>1, SumZero
<1> QED
  BY <1>2, <1>3

(* An entry gives its effect on its day while it is live, ...              *)
LEMMA EntryGives ==
  ASSUME Books, NEW a \in Accounts, NEW e \in Entries, NEW day \in Days,
         NEW f, \A d \in Days : f[d] = posted[<<"entry", e>>][<<a, d>>]
  PROVE  /\ Effect(entry[e].draft, a) \in Int
         /\ SumFunctionOnSet(f, 1 .. day) = IF Weighs(e, day) THEN Effect(entry[e].draft, a) ELSE 0
<1> DEFINE draft == entry[e].draft
<1> DEFINE n == IF entry[e].status = "live" THEN Effect(draft, a) ELSE 0
<1>1. /\ TypeOK /\ WellFormed(draft) /\ draft.day \in Days
      /\ \A b \in Accounts : account[b].currency \in Currencies
  BY ClosableRows DEF Books, TypeOK, WellFormed
<1>2. Effect(draft, a) \in Int
  BY <1>1 DEF Effect, WellFormed
<1>3. CASE entry[e].status = "live"
  <2>1. posted[<<"entry", e>>] = PostingsOf(draft, account)
    BY <1>3 DEF Books, EntriesSettled
  <2>2. Even(draft)
    BY <1>3 DEF Books, EntriesPlaced
  <2>3. PostingsOf(draft, account)[<<a, draft.day>>] = Effect(draft, a)
    <3> HIDE DEF draft
    <3> QED
      BY <1>1, <2>2, PostingsAre DEF Even
  <2>4. \A d \in Days : d # draft.day => PostingsOf(draft, account)[<<a, d>>] = 0
    <3> HIDE DEF draft
    <3> QED
      BY <1>1, PostingsAre
  <2>5. \A d \in Days : f[d] = IF d = draft.day THEN n ELSE 0
    BY <1>3, <2>1, <2>3, <2>4
  <2>6. n \in Int /\ (Weighs(e, day) <=> draft.day <= day)
    BY <1>2, <1>3 DEF Weighs
  <2> HIDE DEF n, draft
  <2>7. SumFunctionOnSet(f, 1 .. day) = IF draft.day <= day THEN n ELSE 0
    BY <1>1, <2>5, <2>6, GivenUpTo
  <2> QED
    BY <1>2, <1>3, <2>6, <2>7 DEF n, draft
<1>4. CASE entry[e].status # "live"
  <2>1. \A d \in Days : f[d] = 0
    <3>1. posted[<<"entry", e>>] = Nothing
      BY <1>4 DEF Books, EntriesSettled
    <3>2. \A d \in Days : Nothing[<<a, d>>] = 0
      BY NothingIs, SlotsAre
    <3> QED  BY <3>1, <3>2
  <2>2. 1 .. day \in SUBSET Days /\ IsFiniteSet(1 .. day)
    BY DayPrefix, SourcesFinite, FS_Subset
  <2>3. SumFunctionOnSet(f, 1 .. day) = 0
    BY <2>1, <2>2, SumZero
  <2> QED
    BY <1>2, <1>4, <2>3 DEF Weighs
<1> QED
  BY <1>3, <1>4

(* ... an opening its amount, to its own account.                          *)
LEMMA OpeningGives ==
  ASSUME Books, NEW a \in Accounts, NEW b \in Accounts, NEW day \in Days,
         NEW f, \A d \in Days : f[d] = posted[<<"opening", b>>][<<a, d>>]
  PROVE  SumFunctionOnSet(f, 1 .. day)
           = IF b = a /\ account[a].openingDay <= day THEN account[a].opening ELSE 0
<1> DEFINE n == IF b = a THEN account[a].opening ELSE 0
<1>1. account[a] \in AccountRows /\ account[b] \in AccountRows
  BY DEF Books, TypeOK, AccountRows
<1>2. /\ account[a].opening \in Int /\ account[b].openingDay \in Days /\ n \in Int
      /\ posted[<<"opening", b>>] = OpeningOf(b, account[b])
  BY <1>1 DEF AccountRows, Books, OpeningsSettled
<1>3. \A d \in Days : f[d] = IF d = account[b].openingDay THEN n ELSE 0
  <2> DEFINE row == account[b]
  <2> DEFINE eq == <<"equity", row.currency>>
  <2>1. row \in AccountRows
    BY <1>1
  <2> HIDE DEF row
  <2>2. /\ OpeningOf(b, row)[<<b, row.openingDay>>] = row.opening
        /\ eq \notin Accounts
        /\ \A d \in Days : d # row.openingDay => OpeningOf(b, row)[<<b, d>>] = 0
        /\ \A la \in LedgerAccounts \ {b, eq}, d \in Days : OpeningOf(b, row)[<<la, d>>] = 0
    BY <2>1, OpeningIs
  <2>3. a # b => a \in LedgerAccounts \ {b, eq}
    BY <2>2, SlotsAre
  <2>4. \A d \in Days : f[d] = OpeningOf(b, row)[<<a, d>>]
    BY <1>2 DEF row
  <2> HIDE DEF eq
  <2>5. a = b => row.opening = n
    BY DEF row
  <2>6. CASE a = b
    BY <2>2, <2>4, <2>5, <2>6 DEF row
  <2>7. CASE a # b
    <3>1. n = 0 /\ \A d \in Days : f[d] = 0
      BY <2>2, <2>3, <2>4, <2>7
    <3> QED
      BY <3>1
  <2> QED
    BY <2>6, <2>7 DEF row
<1>4. SumFunctionOnSet(f, 1 .. day) = IF account[b].openingDay <= day THEN n ELSE 0
  <2> HIDE DEF n
  <2> QED
    BY <1>2, <1>3, GivenUpTo
<1> QED
  BY <1>2, <1>4

(* All that an account was given up to a day is what the books say of it.  *)
LEMMA GivenIsSaid ==
  ASSUME Books, NEW a \in Accounts, NEW day \in Days
  PROVE  NetOver(posted, a, 1 .. day) = BooksSay(a, day)
<1> DEFINE days == 1 .. day
           f == [src \in NotClosing |-> [d \in Days |-> posted[src][<<a, d>>]]]
           h == [d \in Days |-> [src \in NotClosing |-> posted[src][<<a, d>>]]]
           gave == SumsOf(f, NotClosing, days)
           said == [e \in Entries |-> IF Weighs(e, day) THEN Effect(entry[e].draft, a) ELSE 0]
           opened == IF account[a].openingDay <= day THEN account[a].opening ELSE 0
<1>0. TypeOK /\ posted \in Postings
  BY DEF Books, TypeOK, Postings, Slot
<1>1. days \in SUBSET Days /\ IsFiniteSet(days) /\ IsFiniteSet(NotClosing)
  BY DayPrefix, SourcesFinite, FS_Subset
<1>2. \A src \in NotClosing, d \in days :
        f[src][d] = posted[src][<<a, d>>] /\ h[d][src] = posted[src][<<a, d>>]
  BY <1>1
<1>3. NetOver(posted, a, days) = SumFunctionOnSet(gave, NotClosing)
  <2> DEFINE on == [d \in Days |-> NetOn(posted, a, d)]
  <2>1. \A src \in NotClosing, d \in days : f[src][d] \in Int /\ h[d][src] = f[src][d]
    <3> TAKE src \in NotClosing, d \in days
    <3>1. posted[src][<<a, d>>] \in Int
      BY <1>0, <1>1, SourcesAre, SlotsAre DEF Postings, Slot
    <3> QED
      BY <1>2, <3>1
  <2>2. \A d \in days : on[d] = SumsOf(h, days, NotClosing)[d]
    BY <1>1 DEF NetOn, SumsOf
  <2>3. NetOver(posted, a, days) = SumFunctionOnSet(on, days)
    BY DEF NetOver
  <2> HIDE DEF f, h, on, days
  <2>4. SumFunctionOnSet(on, days) = SumFunctionOnSet(SumsOf(h, days, NotClosing), days)
    BY <1>1, <2>2, SumEqual
  <2>5. SumFunctionOnSet(gave, NotClosing) = SumFunctionOnSet(SumsOf(h, days, NotClosing), days)
    BY <1>1, <2>1, SumSwap
  <2> QED
    BY <2>3, <2>4, <2>5
<1>4. /\ \A e \in Entries : said[e] \in Int /\ gave[<<"entry", e>>] = said[e]
      /\ \A b \in Accounts : gave[<<"opening", b>>] = IF b = a THEN opened ELSE 0
      /\ opened \in Int
  <2>1. \A src \in NotClosing : /\ gave[src] = SumFunctionOnSet(f[src], days)
                                 /\ \A d \in Days : f[src][d] = posted[src][<<a, d>>]
    BY DEF SumsOf
  <2>2. \A e \in Entries : said[e] = IF Weighs(e, day) THEN Effect(entry[e].draft, a) ELSE 0
    OBVIOUS
  <2>3. opened \in Int
    BY <1>0 DEF TypeOK
  <2> HIDE DEF gave, said, f
  <2>4. ASSUME NEW e \in Entries PROVE said[e] \in Int /\ gave[<<"entry", e>>] = said[e]
    <3>1. <<"entry", e>> \in NotClosing
      BY SourcesAre
    <3>2. gave[<<"entry", e>>] = SumFunctionOnSet(f[<<"entry", e>>], days)
      BY <2>1, <3>1
    <3>3. \A d \in Days : f[<<"entry", e>>][d] = posted[<<"entry", e>>][<<a, d>>]
      BY <2>1, <3>1
    <3>4. /\ Effect(entry[e].draft, a) \in Int
          /\ SumFunctionOnSet(f[<<"entry", e>>], days)
               = IF Weighs(e, day) THEN Effect(entry[e].draft, a) ELSE 0
      BY <3>3, EntryGives
    <3> QED
      BY <2>2, <3>2, <3>4
  <2>5. ASSUME NEW b \in Accounts PROVE gave[<<"opening", b>>] = IF b = a THEN opened ELSE 0
    <3>1. <<"opening", b>> \in NotClosing
      BY SourcesAre
    <3>2. gave[<<"opening", b>>] = SumFunctionOnSet(f[<<"opening", b>>], days)
      BY <2>1, <3>1
    <3>3. \A d \in Days : f[<<"opening", b>>][d] = posted[<<"opening", b>>][<<a, d>>]
      BY <2>1, <3>1
    <3>4. SumFunctionOnSet(f[<<"opening", b>>], days)
            = IF b = a /\ account[a].openingDay <= day THEN account[a].opening ELSE 0
      BY <3>3, OpeningGives
    <3> QED
      BY <3>2, <3>4
  <2> QED
    BY <2>3, <2>4, <2>5
<1> DEFINE entryWrites == Tagged("entry", Entries)
           openings == Tagged("opening", Accounts)
<1>5. NotClosing = entryWrites \cup openings /\ entryWrites \cap openings = {}
  BY DEF NotClosing, Sources, Tagged
<1>6. IsFiniteSet(entryWrites) /\ IsFiniteSet(openings)
  BY <1>1, <1>5, FS_Subset
<1>7. /\ <<"opening", a>> \in openings
      /\ \A src \in openings : \E b \in Accounts : src = <<"opening", b>>
      /\ \A src \in entryWrites : \E e \in Entries : src = <<"entry", e>>
  BY DEF Tagged
<1> HIDE DEF gave, said, opened, days, f, h, openings
<1>8. SumFunctionOnSet(gave, entryWrites) = SumFunctionOnSet(said, Entries)
  BY <1>4, LedgerAssumption, SumTagged
<1> HIDE DEF entryWrites
<1>9. SumFunctionOnSet(gave, openings) = opened
  <2>1. /\ \A src \in openings : gave[src] \in Int
        /\ \A src \in openings \ {<<"opening", a>>} : gave[src] = 0
        /\ gave[<<"opening", a>>] = opened
    BY <1>4, <1>7
  <2>2. SumFunctionOnSet(gave, openings) = SumFunctionOnSet(gave, {<<"opening", a>>})
    <3>1. {<<"opening", a>>} \in SUBSET openings
      BY <1>7
    <3> QED
      BY <1>6, <2>1, <3>1, SumSupport
  <2>3. SumFunctionOnSet(gave, {<<"opening", a>>}) = gave[<<"opening", a>>]
    BY <1>4, <2>1, SumSingleton
  <2> QED
    BY <2>1, <2>2, <2>3
<1>10. SumFunctionOnSet(gave, NotClosing) = SumFunctionOnSet(said, Entries) + opened
  <2>1. \A src \in entryWrites \cup openings : gave[src] \in Int
    BY <1>4, <1>7
  <2>2. SumFunctionOnSet(gave, entryWrites \cup openings)
          = SumFunctionOnSet(gave, entryWrites) + SumFunctionOnSet(gave, openings)
    BY <1>5, <1>6, <2>1, SumUnion
  <2> QED
    BY <1>5, <1>8, <1>9, <2>2
<1>11. SumFunctionOnSet(said, Entries) \in Int
  BY <1>4, LedgerAssumption, SumType
<1>12. BooksSay(a, day) = opened + SumFunctionOnSet(said, Entries)
  BY DEF BooksSay, opened, said
<1> QED
  BY <1>3, <1>4, <1>10, <1>11, <1>12 DEF days

(* In use, or before the archive day, no closing is in the way.            *)
LEMMA SettledBalances ==
  ASSUME Books, ClosingsSettled
  PROVE  BalanceIsTheBooks
<1> SUFFICES ASSUME NEW a \in Accounts, NEW day \in Days, ~ (Archived(a) /\ day >= ArchiveDay(a))
             PROVE  Balance(a, day) = BooksSay(a, day)
  BY DEF BalanceIsTheBooks
<1> DEFINE C == [d \in Days |->
                   SumFunctionOnSet([src \in {"closing"} \X Accounts |-> posted[src][<<a, d>>]],
                                    {"closing"} \X Accounts)]
<1>0. TypeOK /\ posted \in Postings /\ Closable(account[a])
  BY ClosableRows DEF Books, TypeOK, Postings, Slot
<1>1. 1 .. day \in SUBSET Days /\ IsFiniteSet(1 .. day)
  BY DayPrefix, SourcesFinite, FS_Subset
<1>2. \A d \in 1 .. day : posted[<<"closing", a>>][<<a, d>>] = 0
  <2> SUFFICES ASSUME NEW d \in 1 .. day PROVE posted[<<"closing", a>>][<<a, d>>] = 0
    OBVIOUS
  <2> DEFINE row == account[a]
  <2>0. d \in Days /\ posted[<<"closing", a>>] = ClosingWanted(posted, a, row)
    BY <1>1 DEF ClosingsSettled
  <2>1. CASE Archived(a)
    <3> DEFINE anchor == CalendarDay(row.archivedAt, zone)
    <3>1. row.status = "archived" /\ Closable(row) /\ ~(day >= anchor)
      BY <1>0, <2>1 DEF Archived, ArchiveDay
    <3>2. anchor \in Days
      BY <3>1 DEF Closable
    <3>3. d < anchor
      <4>1. LastDay \in Nat
        BY LedgerAssumption
      <4> HIDE DEF anchor
      <4> QED
        BY <3>1, <3>2, <4>1 DEF Days
    <3> HIDE DEF row
    <3>4. ClosingWanted(posted, a, row)[<<a, d>>] = -Measured(posted, a, anchor, d)
      BY <1>0, <2>0, <3>1, ClosingIs, ZenonT(40)
    <3>5. Measured(posted, a, anchor, d) = 0
      BY <3>3 DEF Measured
    <3>6. posted[<<"closing", a>>][<<a, d>>] = ClosingWanted(posted, a, row)[<<a, d>>]
      BY <2>0
    <3>7. Measured(posted, a, anchor, d) \in Int
      BY <3>5
    <3>8. \A x \in Int : -x = 0 - x
      OBVIOUS
    <3>9. -Measured(posted, a, anchor, d) = 0 - Measured(posted, a, anchor, d)
      BY <3>7, <3>8
    <3> QED
      BY <3>4, <3>5, <3>6, <3>9
  <2>2. CASE ~ Archived(a)
    <3>1. posted[<<"closing", a>>] = Nothing
      BY <2>0, <2>2 DEF Archived, ClosingWanted
    <3>2. a \in LedgerAccounts
      BY SlotsAre
    <3> QED
      BY <2>0, <3>1, <3>2, NothingIs
  <2> QED
    BY <2>1, <2>2
<1>3. \A d \in 1 .. day : C[d] = 0
  BY <1>1, <1>2, OwnClosing
<1>4. Balance(a, day) = NetOver(posted, a, 1 .. day) + SumFunctionOnSet(C, 1 .. day)
  BY DEF Balance
<1> HIDE DEF C
<1>5. SumFunctionOnSet(C, 1 .. day) = 0
  BY <1>1, <1>3, SumZero
<1>6. NetOver(posted, a, 1 .. day) \in Int
  BY <1>0, <1>1, NetType
<1> QED
  BY <1>4, <1>5, <1>6, GivenIsSaid

(***************************************************************************)
(* The timezone is stored again only while nothing is archived: one that   *)
(* changes under an archived account moves its archive day and leaves its  *)
(* closing where it was, which is what the run timezone shows.             *)
(***************************************************************************)
NoArchiveDayMoves == zone' # zone => \A a \in Accounts : ~ Archived(a)

LEMMA ClosingsStaySettled ==
  ASSUME Books, ClosingsSettled, [Next]_vars, NoArchiveDayMoves
  PROVE  Books' /\ ClosingsSettled'
<1>1. Books' /\ (zone' = zone => ClosingsSettled')
  BY NextKeeps
<1>2. ASSUME zone' # zone PROVE ClosingsSettled'
  <2>1. UNCHANGED <<account, posted>>
    <3>1. ~ EntryStep /\ ~ AccountStep /\ ~ Advance
      BY <1>2 DEF EntryStep, AccountStep, Advance, CreateEntry, UpdateEntry, DeleteEntries,
                  RestoreEntry, EditEntries, CreateAccount, UpdateAccount, SetAccountArchived,
                  DeleteAccount, ReconcileArchived
    <3> QED
      BY <1>2, <3>1 DEF Next, SetTimezone, vars
  <2>2. \A a \in Accounts : /\ posted[<<"closing", a>>] = Nothing
                            /\ account'[a].status # "archived"
    BY <1>2, <2>1 DEF NoArchiveDayMoves, Archived, ClosingsSettled, ClosingWanted
  <2>3. \A a \in Accounts : posted'[<<"closing", a>>] = Nothing
    BY <2>1, <2>2
  <2> QED
    BY <2>2, <2>3 DEF ClosingsSettled, ClosingWanted, Nothing
<1> QED
  BY <1>1, <1>2

LEMMA ClosingsAlwaysSettled ==
  Spec /\ [][NoArchiveDayMoves]_vars => [](Books /\ ClosingsSettled)
<1>1. Init => Books /\ ClosingsSettled
  BY InitBooks
<1>2. Books /\ ClosingsSettled /\ [Next]_vars /\ [NoArchiveDayMoves]_vars
        => Books' /\ ClosingsSettled'
  <2>1. UNCHANGED vars => NoArchiveDayMoves
    BY DEF vars, NoArchiveDayMoves
  <2> QED
    BY <2>1, ClosingsStaySettled
<1> QED
  BY <1>1, <1>2, PTL DEF Spec

(* An archived account always reads zero from its archive day on, while    *)
(* the timezone stands still.                                              *)
THEOREM ArchivedAlwaysReadsZero ==
  Spec /\ [][NoArchiveDayMoves]_vars => []ArchivedReadsZero
<1>1. Books /\ ClosingsSettled => ArchivedReadsZero
  BY SettledReadsZero
<1> QED
  BY <1>1, ClosingsAlwaysSettled, PTL

(* And any other balance a person is shown is what their live entries and  *)
(* the opening say, on every day, whatever was archived, reopened, moved   *)
(* or deleted before.                                                      *)
THEOREM BalancesAreTheBooks ==
  Spec /\ [][NoArchiveDayMoves]_vars => []BalanceIsTheBooks
<1>1. Books /\ ClosingsSettled => BalanceIsTheBooks
  BY SettledBalances
<1> QED
  BY <1>1, ClosingsAlwaysSettled, PTL
=============================================================================
