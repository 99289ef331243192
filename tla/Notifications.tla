---------------------------- MODULE Notifications ----------------------------
(***************************************************************************)
(* E-mails about appointments (services/notifications.py, the notification *)
(* part of database/database.py, scripts/retry_failed_notifications.py and *)
(* scripts/send_reminders.py) for one business.  A note is one row of      *)
(* notification_log: one type of e-mail of one appointment.                *)
(*                                                                         *)
(* Three kinds of process send: the web thread that has just booked, the   *)
(* daily reminders and the retry script, started by timers.  Each send is  *)
(* claim, read of the retry count, SMTP, record: four transactions with    *)
(* nothing held in between.  Time is counted in units of fifteen minutes,  *)
(* as the age of the last attempt, up to where it is stale, and the time   *)
(* left until the next one.  Of the rows whose time has come only the      *)
(* order is kept: they go back one place when others become due.           *)
(***************************************************************************)
EXTENDS Integers, FiniteSets

CONSTANTS
  Note,        \* rows of notification_log
  NoNote,
  Web,         \* web threads, each with the notes of its booking
  Dispatched,  \* those notes: [Web -> SUBSET Note]
  Retry,       \* runs of the retry script that may coincide
  Remind,      \* runs of the reminder script
  Reminders,   \* the notes that are reminders
  MaxRetries,  \* MAX_NOTIFICATION_RETRIES
  Stale,       \* stale_after_seconds
  BaseDelay, MaxDelay,  \* RETRY_BASE_DELAY_SECONDS, RETRY_MAX_DELAY_SECONDS
  Limit,       \* --limit of the retry script
  MaxCrashes   \* bound: crashes in an execution

Sender == Web \cup Retry \cup Remind

ASSUME NotificationsAssumption ==
  /\ IsFiniteSet(Note) /\ NoNote \notin Note
  /\ IsFiniteSet(Sender)
  /\ Web \cap (Retry \cup Remind) = {} /\ Retry \cap Remind = {}
  /\ Dispatched \in [Web -> SUBSET Note] /\ Reminders \subseteq Note
  /\ MaxRetries \in Nat /\ Stale \in Nat /\ MaxCrashes \in Nat
  /\ BaseDelay \in Nat /\ MaxDelay \in Nat /\ Limit \in Nat \ {0}

\* retry_delay_seconds: exponential, bounded.
Delay(n) == IF BaseDelay * 2^n < MaxDelay THEN BaseDelay * 2^n ELSE MaxDelay

LogStatus == {"absent", "processing", "sent", "failed"}

VARIABLES
  log,      \* notification_log: status, retries, age of the last attempt, time left
  live,     \* notes whose appointment is confirmed
  enabled,  \* notifications_enabled of the business
  pc,       \* the step each process runs next
  todo,     \* notes of its batch it has not come to
  note,     \* the note it sends
  count,    \* retry_count as it read it after its claim
  mails,    \* history: e-mails that reached the recipient's server
  unsure,   \* history: claims taken from a sender, SMTP answers lost
  contested,\* history: senders whose sending overlaps another's after a takeover
  crashes

table == <<log, live, enabled>>
history == <<mails, unsure, contested>>
vars == <<log, live, enabled, pc, todo, note, count, history, crashes>>

Init ==
  /\ log = [n \in Note |-> [status |-> "absent", retries |-> 0, age |-> 0, left |-> 0]]
  /\ live = Note
  /\ enabled = TRUE
  /\ pc = [s \in Sender |-> "idle"]
  /\ todo = [s \in Sender |-> {}]
  /\ note = [s \in Sender |-> NoNote]
  /\ count = [s \in Sender |-> 0]
  /\ mails = [n \in Note |-> 0]
  /\ unsure = [n \in Note |-> 0]
  /\ contested = {}
  /\ crashes = 0

-----------------------------------------------------------------------------
(* The processes and their batches.                                        *)

\* A process begins to work through a set of notes.
Take(s, batch) ==
  /\ pc[s] = "idle" /\ pc' = [pc EXCEPT ![s] = "next"]
  /\ todo' = [todo EXCEPT ![s] = batch]
  /\ UNCHANGED <<table, note, count, history, crashes>>

\* The confirmation to the client and the notice to the business.
Dispatch(s) == s \in Web /\ Take(s, Dispatched[s])

\* list_reminder_candidates_scoped: confirmed appointments of the day, sent or not.
Candidates == Reminders \cap live

StartReminders(s) == s \in Remind /\ enabled /\ Take(s, Candidates)

\* Mutant: the last retry is never listed.
DueOffByOne == {n \in Note : /\ log[n].status = "failed"
                             /\ log[n].retries + 1 < MaxRetries
                             /\ log[n].left <= 0
                             /\ enabled}

\* list_failed_notifications_scoped without its LIMIT.
Due == {n \in Note : /\ log[n].status = "failed"
                     /\ log[n].retries < MaxRetries
                     /\ log[n].left <= 0
                     /\ enabled}

\* The first Limit rows in the order they became due.
Batches == {b \in SUBSET Due :
              /\ \A m \in b, n \in Due \ b : log[m].left <= log[n].left
              /\ Cardinality(b) = IF Cardinality(Due) < Limit THEN Cardinality(Due)
                                                              ELSE Limit}

StartRetry(s) == s \in Retry /\ Due # {} /\ \E b \in Batches : Take(s, b)

\* send_appointment_notification: notifications are on; the retry script has
\* looked at the appointment first.
Sendable(s, n) == enabled /\ (s \in Retry => n \in live)

\* Before the claim the settings are read, and by the retry script the
\* appointment; a note that may not be sent is left as it is.
Pick(s) ==
  /\ pc[s] = "next"
  /\ \E n \in todo[s] :
       /\ todo' = [todo EXCEPT ![s] = @ \ {n}]
       /\ IF Sendable(s, n)
            THEN /\ pc' = [pc EXCEPT ![s] = "claim"]
                 /\ note' = [note EXCEPT ![s] = n]
            ELSE UNCHANGED <<pc, note>>
  /\ UNCHANGED <<table, count, history, crashes>>

\* A web thread sends once; the timers start the scripts again.
Home(s) == IF s \in Web THEN "end" ELSE "idle"

Leave(s) ==
  /\ pc' = [pc EXCEPT ![s] = Home(s)]
  /\ todo' = [todo EXCEPT ![s] = {}]
  /\ note' = [note EXCEPT ![s] = NoNote]
  /\ count' = [count EXCEPT ![s] = 0]

Return(s) ==
  /\ pc[s] = "next" /\ todo[s] = {}
  /\ Leave(s)
  /\ UNCHANGED <<table, history, crashes>>

-----------------------------------------------------------------------------
(* _send_and_log_notification                                              *)

Old(n) == log[n].status = "processing" /\ log[n].age > Stale

\* Mutant: a claim is taken over however young it is.
ClaimableAnyAge(n) ==
  \/ log[n].status = "absent"
  \/ log[n].status = "failed" /\ log[n].retries < MaxRetries /\ log[n].left <= 0
  \/ log[n].status = "processing" /\ log[n].retries < MaxRetries

\* Mutant: an abandoned claim is taken over without end.
ClaimableForEver(n) ==
  \/ log[n].status = "absent"
  \/ log[n].status = "failed" /\ log[n].retries < MaxRetries /\ log[n].left <= 0
  \/ Old(n)

\* The WHERE of the claim, or no row yet.
Claimable(n) ==
  \/ log[n].status = "absent"
  \/ log[n].status = "failed" /\ log[n].retries < MaxRetries /\ log[n].left <= 0
  \/ Old(n) /\ log[n].retries < MaxRetries

\* Who believes to hold the claim of a note.
Sending(n) == {s \in Sender : note[s] = n /\ pc[s] \in {"count", "smtp", "success", "failure"}}

\* A claim is taken over while its sender is still sending, or made while those
\* of such a takeover are.
Overlaps(n) == Sending(n) # {} /\ (Old(n) \/ Sending(n) \cap contested # {})

\* claim_notification_scoped: one transaction decides who sends.  An abandoned
\* claim without retries left is closed as failed.
Claim(s) ==
  LET n   == note[s]
      row == log[n]
  IN
  /\ pc[s] = "claim"
  /\ IF Claimable(n)
       THEN /\ log' = [log EXCEPT ![n] =
                 [status |-> "processing", age |-> 0, left |-> 0,
                  retries |-> IF row.status = "absent" THEN 0 ELSE row.retries + 1]]
            /\ unsure' = IF Old(n) THEN [unsure EXCEPT ![n] = @ + 1] ELSE unsure
            /\ contested' = IF Overlaps(n) THEN contested \cup Sending(n) \cup {s} ELSE contested
            /\ pc' = [pc EXCEPT ![s] = "count"]
       ELSE /\ log' = IF Old(n) THEN [log EXCEPT ![n].status = "failed", ![n].left = 0]
                                ELSE log
            /\ pc' = [pc EXCEPT ![s] = "next"]
            /\ UNCHANGED <<unsure, contested>>
  /\ UNCHANGED <<live, enabled, todo, note, count, mails, crashes>>

\* get_notification_state_scoped
ReadCount(s) ==
  /\ pc[s] = "count"
  /\ pc' = [pc EXCEPT ![s] = "smtp"]
  /\ count' = [count EXCEPT ![s] = log[note[s]].retries]
  /\ UNCHANGED <<table, todo, note, history, crashes>>

\* _send_email: sent, refused, or sent with an answer that never came.
Smtp(s) ==
  LET n == note[s] IN
  /\ pc[s] = "smtp"
  /\ \/ /\ pc' = [pc EXCEPT ![s] = "success"]
        /\ mails' = [mails EXCEPT ![n] = @ + 1]
        /\ UNCHANGED unsure
     \/ /\ pc' = [pc EXCEPT ![s] = "failure"]
        /\ UNCHANGED <<mails, unsure>>
     \/ /\ pc' = [pc EXCEPT ![s] = "failure"]
        /\ mails' = [mails EXCEPT ![n] = @ + 1]
        /\ unsure' = [unsure EXCEPT ![n] = @ + 1]
  /\ UNCHANGED <<table, todo, note, count, contested, crashes>>

\* Mutant: recording a failure starts the count again.
RecordResets(s) ==
  LET n == note[s] IN
  /\ pc[s] \in {"success", "failure"}
  /\ log' = [log EXCEPT ![n] =
       IF pc[s] = "success"
         THEN [@ EXCEPT !.status = "sent", !.age = 0, !.left = 0]
         ELSE [@ EXCEPT !.status = "failed", !.retries = 0, !.age = 0, !.left = Delay(count[s])]]
  /\ pc' = [pc EXCEPT ![s] = "next"]
  /\ contested' = contested \ {s}
  /\ UNCHANGED <<live, enabled, todo, note, count, mails, unsure, crashes>>

\* upsert_notification_log_scoped: whatever the row says by now.
Record(s) ==
  LET n == note[s] IN
  /\ pc[s] \in {"success", "failure"}
  /\ log' = [log EXCEPT ![n] =
       IF pc[s] = "success"
         THEN [@ EXCEPT !.status = "sent", !.age = 0, !.left = 0]
         ELSE [@ EXCEPT !.status = "failed", !.age = 0, !.left = Delay(count[s])]]
  /\ pc' = [pc EXCEPT ![s] = "next"]
  /\ contested' = contested \ {s}
  /\ UNCHANGED <<live, enabled, todo, note, count, mails, unsure, crashes>>

-----------------------------------------------------------------------------
(* The world around.                                                       *)

\* A process dies: what it had claimed stays "processing".
Crash(s) ==
  /\ pc[s] \notin {"idle", "end"} /\ crashes < MaxCrashes
  /\ crashes' = crashes + 1
  /\ Leave(s)
  /\ contested' = contested \ {s}
  /\ UNCHANGED <<table, mails, unsure>>

\* cancel_appointment, or another status in the panel.
CancelAppointment(n) ==
  /\ n \in live
  /\ live' = live \ {n}
  /\ UNCHANGED <<log, enabled, pc, todo, note, count, history, crashes>>

\* The panel confirms a completed appointment again.
Reconfirm(n) ==
  /\ n \notin live
  /\ live' = live \cup {n}
  /\ UNCHANGED <<log, enabled, pc, todo, note, count, history, crashes>>

\* set_notifications_enabled_scoped
Toggle ==
  /\ enabled' = ~enabled
  /\ UNCHANGED <<log, live, pc, todo, note, count, history, crashes>>

\* A failed row becomes due with the next unit of time.
Matures == \E n \in Note : log[n].status = "failed" /\ log[n].left = 1

Tick ==
  /\ log' = [n \in Note |->
       [log[n] EXCEPT !.age = IF log[n].status = "processing" /\ @ <= Stale THEN @ + 1 ELSE @,
                      !.left = IF log[n].status = "failed" /\ (@ > 0 \/ Matures) THEN @ - 1 ELSE @]]
  /\ UNCHANGED <<live, enabled, pc, todo, note, count, history, crashes>>

Start(s) == Dispatch(s) \/ StartReminders(s) \/ StartRetry(s)

Run(s) == Pick(s) \/ Return(s) \/ Claim(s) \/ ReadCount(s) \/ Smtp(s) \/ Record(s)

Next == \/ \E s \in Sender : Start(s) \/ Run(s) \/ Crash(s)
        \/ \E n \in Note : CancelAppointment(n) \/ Reconfirm(n)
        \/ Toggle
        \/ Tick

Spec == Init /\ [][Next]_vars

\* Time passes, a process that started goes on, and the timer starts the retry
\* script every fifteen minutes.
FairSpec == /\ Spec
            /\ WF_vars(Tick)
            /\ \A s \in Sender : WF_vars(Run(s))
            /\ \A s \in Retry : WF_vars(StartRetry(s))

-----------------------------------------------------------------------------
(* Properties.                                                             *)

LogRow == [status : LogStatus, retries : 0 .. MaxRetries, age : 0 .. Stale + 1, left : Int]

\* Every variable stays in its domain.
TypeOK ==
  /\ log \in [Note -> LogRow]
  /\ live \subseteq Note /\ enabled \in BOOLEAN
  /\ pc \in [Sender -> {"idle", "next", "claim", "count", "smtp", "success", "failure", "end"}]
  /\ todo \in [Sender -> SUBSET Note]
  /\ note \in [Sender -> Note \cup {NoNote}]
  /\ \A s \in Sender : pc[s] \notin {"idle", "next", "end"} => note[s] \in Note
  /\ count \in [Sender -> 0 .. MaxRetries]
  /\ mails \in [Note -> Nat] /\ unsure \in [Note -> Nat]
  /\ contested \subseteq Sender
  /\ crashes \in 0 .. MaxCrashes

\* Every e-mail beyond the first is explained by a claim taken from a sender
\* that had not recorded its result, or by an SMTP answer that was lost: the
\* claim of claim_notification_scoped makes concurrent senders send once.
DuplicatesExplained == \A n \in Note : mails[n] <= 1 + unsure[n]

\* Nobody gets the same e-mail more than once per attempt the policy allows,
\* whoever crashes, is taken over or records late.
AttemptsBounded == \A n \in Note : mails[n] <= MaxRetries + 1

\* A row is taken back from 'sent' only by the failed attempt of a sender that
\* shared the note with another after a stale claim was taken over: nobody else
\* ever comes to claim or to record a note that was sent.
SentReopenedOnlyAfterTakeover ==
  [][\A n \in Note : log[n].status = "sent" /\ log'[n].status # "sent" =>
       \E s \in contested : note[s] = n /\ pc[s] = "failure" /\ pc'[s] = "next"]_vars

Retried(n, k) == log[n].retries > k \/ log[n].status = "sent"
Dropped(n) == n \notin live \/ ~enabled

\* Claim of scripts/retry_failed_notifications.py:3, "re-despacha las filas
\* `failed`": a failed note with retries left is tried again, unless its
\* appointment or the business's notifications go away.
EveryFailureRetried ==
  \A n \in Note : \A k \in 0 .. MaxRetries - 1 :
    (log[n].status = "failed" /\ log[n].retries = k) ~> (Retried(n, k) \/ Dropped(n))

\* The claim holds while all notes fit in a batch of the retry script, whoever
\* else claims the note, crashes with it or gives it up meanwhile.
FailuresRetried == Cardinality(Note) <= Limit => EveryFailureRetried
=============================================================================
