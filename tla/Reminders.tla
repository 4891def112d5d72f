----------------------------- MODULE Reminders ------------------------------
(***************************************************************************)
(* The reminder of one template: who saves it                              *)
(* (src/server/services/transaction-templates.ts, writeNotification) and   *)
(* the scheduler's pass that mails it (notifications.ts), on several       *)
(* replicas at once.                                                       *)
(*                                                                         *)
(* A pass reads the list, then claims the row in a transaction of its own, *)
(* then sends: three steps, between which anything may happen.  A save     *)
(* locks the row and replaces it: two steps.  Time is a day and an hour of *)
(* the person's own clock.                                                 *)
(***************************************************************************)
EXTENDS RecurrenceDates, FiniteSets

CONSTANTS Wishes,         \* what one template may be asked for: sets of [rule, at]
          Replicas,       \* passes under way at once
          ClockDays,      \* the days on which something happens
          LastHour,
          CatchUpLimit,   \* occurrences one claim may move past
          Lookahead,      \* occurrences looked at before it gives up
          SaveLimit       \* how often the template is saved

ASSUME RemindersAssumption ==
  /\ CatchUpLimit \in Nat \ {0} /\ Lookahead \in Nat \ {0} /\ SaveLimit \in Nat
  /\ ClockDays \subseteq Nat /\ ClockDays # {}
  /\ \A ask \in UNION Wishes :
       RuleFits(ask.rule) /\ ask.rule.frequency \in Frequencies \cup {"once"}

VARIABLES reminder,   \* the template_notification row
          saving,     \* a save that holds the row's lock, and what it read
          pass,       \* pass[w]: where a replica's pass is
          clock,      \* what the person's clock says
          mailOn,     \* a mail server is configured
          wishes,     \* what is asked for in this behaviour
          saves,      \* how often the template has been saved
          reminded    \* the last occurrence claimed of the schedule asked for
reminderVars == <<reminder, saving, pass, clock, mailOn, wishes, saves, reminded>>

(* The row is replaced whole, so it gets another id.                       *)
NoReminder == [id |-> 0]
Resting == [at |-> "idle", id |-> 0]
NotSaving == [at |-> "idle"]

-----------------------------------------------------------------------------
(* The next reminder a rule owes after the last one, nextNotificationAfter.*)

Nothing == [occurrence |-> NoDate, posted |-> NoDate]

After(rule, cursor) == IF cursor = NoDate THEN rule.anchor - 1 ELSE cursor

(* From index n on, the first that no policy passes over.                  *)
FirstPosted(rule, n) ==
  LET posted == {k \in n .. n + Lookahead - 1 : OccurrenceAt(rule, k).posted # NoDate}
  IN  IF posted = {} THEN Nothing
      ELSE OccurrenceAt(rule, CHOOSE k \in posted : \A other \in posted : k <= other)

Reminds(rule, cursor) ==
  IF rule.frequency # "once" THEN FirstPosted(rule, FirstIndexAfter(rule, After(rule, cursor)))
  ELSE IF cursor = NoDate THEN [occurrence |-> rule.anchor, posted |-> rule.anchor]
  ELSE Nothing

(* notificationIsDue: on the person's clock, at the hour asked for.        *)
Due(day, at) == day < clock.day \/ (day = clock.day /\ clock.hour >= at)

(* A backlog collapses to its most recent occurrence.                      *)
Caught(so, following, at) ==
  IF following # Nothing /\ Due(following.posted, at) THEN following ELSE so

Backlog(r) ==
  LET take[n \in 0 .. CatchUpLimit] ==
        IF n = 0 THEN [occurrence |-> r.last, posted |-> NoDate]
        ELSE Caught(take[n - 1], Reminds(r.ask.rule, take[n - 1].occurrence), r.ask.at)
  IN  take[CatchUpLimit]

-----------------------------------------------------------------------------
(* Saving the template, and deleting it or its reminder.                   *)

(* (Mutant: the row is read, and not locked.)                              *)
SaveReads(ask) ==
  /\ saving.at = "idle" /\ saves < SaveLimit
  /\ saving' = [at |-> "read", ask |-> ask, read |-> reminder]
  /\ saves' = saves + 1
  /\ UNCHANGED <<reminder, pass, clock, mailOn, wishes, reminded>>

(* The row is locked, not merely read.                                     *)
SaveLocks(ask) ==
  /\ saving.at = "idle" /\ saves < SaveLimit
  /\ saving' = [at |-> "locked", ask |-> ask, read |-> reminder]
  /\ saves' = saves + 1
  /\ UNCHANGED <<reminder, pass, clock, mailOn, wishes, reminded>>

(* A save that changes nothing about the schedule keeps its watermark; a   *)
(* schedule that did change starts afresh.                                 *)
SaveWrites ==
  LET unchanged == saving.read.id # 0 /\ saving.read.ask = saving.ask IN
  /\ saving # NotSaving
  /\ reminder' =
       [id |-> saves, ask |-> saving.ask,
        last |-> IF unchanged THEN saving.read.last ELSE NoDate,
        next |-> IF unchanged THEN saving.read.next ELSE Reminds(saving.ask.rule, NoDate).posted]
  /\ saving' = NotSaving
  /\ reminded' = IF unchanged THEN reminded ELSE NoDate
  /\ UNCHANGED <<pass, clock, mailOn, wishes, saves>>

RemoveNotification ==
  /\ saving.at = "idle" /\ reminder.id # 0
  /\ reminder' = NoReminder
  /\ reminded' = NoDate
  /\ UNCHANGED <<saving, pass, clock, mailOn, wishes, saves>>

-----------------------------------------------------------------------------
(* One pass of the scheduler, on one replica.                              *)

(* runDueNotifications: nothing is looked at where nothing can be sent.    *)
ReadDueReminders(w) ==
  /\ pass[w].at = "idle" /\ mailOn
  /\ reminder # NoReminder /\ reminder.next # NoDate /\ Due(reminder.next, reminder.ask.at)
  /\ pass' = [pass EXCEPT ![w] = [at |-> "listed", id |-> reminder.id]]
  /\ UNCHANGED <<reminder, saving, clock, mailOn, wishes, saves, reminded>>

(* claimDueNotification: the watermark moves before anything is sent, ...  *)
TakesUp(w, owed) ==
  /\ owed.posted # NoDate
  /\ reminder' = [reminder EXCEPT !.last = owed.occurrence,
                                  !.next = Reminds(reminder.ask.rule, owed.occurrence).posted]
  /\ reminded' = owed.occurrence
  /\ pass' = [pass EXCEPT ![w] = [at |-> "claimed", id |-> 0]]

(* ... and a row somebody holds is passed over, and one replaced since is  *)
(* not found.                                                              *)
ClaimReminder(w) ==
  /\ pass[w].at = "listed"
  /\ saving.at # "locked" /\ reminder.id = pass[w].id
  /\ TakesUp(w, Backlog(reminder))
  /\ UNCHANGED <<saving, clock, mailOn, wishes, saves>>

(* deliver: it goes, or the relay refuses it, or the process dies first;   *)
(* or there was nothing to claim.                                          *)
PassEnds(w) ==
  /\ pass[w].at # "idle"
  /\ pass' = [pass EXCEPT ![w] = Resting]
  /\ UNCHANGED <<reminder, saving, clock, mailOn, wishes, saves, reminded>>

TimePasses ==
  /\ \/ clock.hour < LastHour /\ clock' = [clock EXCEPT !.hour = @ + 1]
     \/ \E day \in ClockDays :
          /\ day > clock.day
          /\ \A other \in ClockDays : other <= clock.day \/ day <= other
          /\ clock' = [day |-> day, hour |-> 0]
  /\ UNCHANGED <<reminder, saving, pass, mailOn, wishes, saves, reminded>>

(* The server is restarted with a mail server, or without one.             *)
Reconfigure ==
  /\ mailOn' = ~mailOn
  /\ pass' = [w \in Replicas |-> Resting]
  /\ UNCHANGED <<reminder, saving, clock, wishes, saves, reminded>>

-----------------------------------------------------------------------------
RemindersInit ==
  /\ reminder = NoReminder
  /\ saving = NotSaving
  /\ pass = [w \in Replicas |-> Resting]
  /\ clock = [day |-> CHOOSE day \in ClockDays : \A other \in ClockDays : day <= other, hour |-> 0]
  /\ mailOn = TRUE
  /\ wishes \in Wishes
  /\ saves = 0
  /\ reminded = NoDate

RemindersNext ==
  \/ \E ask \in wishes : SaveLocks(ask)
  \/ SaveWrites \/ RemoveNotification
  \/ \E w \in Replicas : ReadDueReminders(w) \/ ClaimReminder(w) \/ PassEnds(w)
  \/ TimePasses
  \/ Reconfigure

RemindersSpec == RemindersInit /\ [][RemindersNext]_reminderVars
-----------------------------------------------------------------------------
(* Properties.                                                             *)

(* The days a reminder asked for like this is owed.                        *)
IsOwed(rule, day) ==
  IF rule.frequency = "once" THEN day = rule.anchor
  ELSE day >= rule.anchor /\ Names(rule, day) /\ ~PassedBy(rule, day)

(* The days a rule names since the last it owed before this one.           *)
PassedSince(rule, day) ==
  {passed \in rule.anchor .. day - 1 :
     Names(rule, passed) /\ \A between \in passed .. day - 1 : ~IsOwed(rule, between)}

(* MAX_SKIPPED_LOOKAHEAD is no less than what a policy passes over before  *)
(* it lets one go: beyond it "there is no schedule left to speak of".      *)
ASSUME LookaheadAssumption ==
  \A ask \in UNION Wishes, today \in ClockDays :
    \A day \in ask.rule.anchor .. today + 2 :
      ask.rule.frequency # "once" /\ IsOwed(ask.rule, day)
        => Cardinality(PassedSince(ask.rule, day)) < Lookahead

(* Every variable has its type: a stored row has an id a save gave it, and *)
(* a pass is at one of its steps.                                          *)
RemindersTypeOK ==
  /\ \A w \in Replicas : pass[w].at \in {"idle", "listed", "claimed"}
  /\ reminder # NoReminder => reminder.id \in 1 .. saves /\ reminder.next >= NoDate
  /\ saves \in 0 .. SaveLimit

(* What goes on the day a reminder is owed.                                *)
SentOn(rule, day) ==
  IF rule.frequency = "once" THEN day ELSE PostedDateFor(rule, [date |-> day, clamped |-> FALSE])

(* A reminder is claimed once for each day it is owed, whoever sweeps and  *)
(* whatever is saved meanwhile: a claim is of a day the schedule names,    *)
(* that has come round, later than any claimed before; and it leaves no    *)
(* later one that has come round, unless it had too many to move past.     *)
ClaimedOnce ==
  [][\A w \in Replicas : pass[w].at = "listed" /\ pass'[w].at = "claimed" =>
       LET rule == reminder.ask.rule
           round == {day \in reminded + 1 .. clock.day + 2 :
                       IsOwed(rule, day) /\ Due(SentOn(rule, day), reminder.ask.at)}
           left == {day \in round : day > reminded'}
       IN  /\ reminded' \in round
           /\ left # {} => Cardinality(round \ left) >= CatchUpLimit]_reminderVars

(* The day the row is looked for is the day the first reminder after its   *)
(* watermark goes: no day the schedule names is left out between the two,  *)
(* however the dates are computed; and a row that is looked for no more    *)
(* owes nothing that could have come round.                                *)
NextIsFirstOwed ==
  reminder.id # 0 =>
    LET rule == reminder.ask.rule
        from == IF reminder.last = NoDate THEN rule.anchor - 1 ELSE reminder.last
        owed == {day \in from + 1 .. reminder.next + 2 : IsOwed(rule, day)}
    IN  IF reminder.next = NoDate
        THEN /\ rule.frequency = "once" => reminder.last # NoDate
             /\ \A day \in from + 1 .. clock.day + 2 : ~IsOwed(rule, day)
        ELSE \E first \in owed :
               reminder.next = SentOn(rule, first) /\ \A day \in owed : first <= day
=============================================================================
