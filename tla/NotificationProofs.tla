-------------------------- MODULE NotificationProofs -------------------------
(***************************************************************************)
(* How many e-mails a note can send, and who takes a sent one back, for any *)
(* number of senders, crashes and takeovers.  The bounds are accounts of   *)
(* credit: a claim moves the right to send from the row to the sender, SMTP *)
(* spends it.                                                              *)
(***************************************************************************)
EXTENDS Notifications, FiniteSetTheorems, TLAPS

-----------------------------------------------------------------------------
(* Type correctness.                                                       *)

\* The constants are numbers and the reminders are notifications.
LEMMA Bounds ==
  /\ MaxRetries \in Nat /\ Stale \in Nat /\ MaxCrashes \in Nat
  /\ Dispatched \in [Web -> SUBSET Note] /\ Reminders \subseteq Note
  /\ 0 \in 0 .. Stale + 1 /\ 0 \in 0 .. MaxRetries /\ 0 \in Int
  BY NotificationsAssumption

\* The states of notification_log.
LEMMA Statuses == {"absent", "processing", "sent", "failed"} = LogStatus
  BY DEF LogStatus

\* The wait before a retry is a number.
LEMMA DelayIsInteger == \A n \in 0 .. MaxRetries : Delay(n) \in Int
  BY NotificationsAssumption, SMT DEF Delay

\* What an UPDATE of a row of notification_log may set.
LEMMA RowUpdate ==
  ASSUME NEW row \in LogRow, NEW st \in LogStatus, NEW a \in 0 .. Stale + 1, NEW l \in Int
  PROVE  /\ [row EXCEPT !.status = st, !.age = a, !.left = l] \in LogRow
         /\ [row EXCEPT !.status = st, !.left = l] \in LogRow
  BY DEF LogRow

\* Time passing keeps a row a row.
LEMMA RowAged ==
  ASSUME NEW row \in LogRow, NEW a \in 0 .. Stale + 1, NEW l \in Int
  PROVE  [row EXCEPT !.age = a, !.left = l] \in LogRow
  BY DEF LogRow

\* Every variable starts in its domain,
LEMMA TypeInit == Init => TypeOK
  BY Bounds, NotificationsAssumption DEF Init, TypeOK, LogRow, LogStatus, Sender

\* and no step takes it out.
LEMMA TypeNext == TypeOK /\ [Next]_vars => TypeOK'
<1> SUFFICES ASSUME TypeOK, [Next]_vars PROVE TypeOK'
  OBVIOUS
<1> USE DEF TypeOK
<1>1. ASSUME NEW s \in Sender, NEW b \in SUBSET Note, Take(s, b) PROVE TypeOK'
  BY Bounds, <1>1 DEF Take, table, history
<1>2. ASSUME NEW s \in Sender, Start(s) PROVE TypeOK'
  <2>1. CASE Dispatch(s)
    BY Bounds, <2>1, <1>1 DEF Dispatch
  <2>2. CASE StartReminders(s)
    BY Bounds, <2>2, <1>1 DEF StartReminders, Candidates
  <2>3. CASE StartRetry(s)
    <3>1. PICK b \in Batches : Take(s, b)
      BY <2>3 DEF StartRetry
    <3>2. b \in SUBSET Note
      BY DEF Batches, Due
    <3> QED
      BY <3>1, <3>2, <1>1
  <2> QED
    BY <1>2, <2>1, <2>2, <2>3 DEF Start
<1>3. ASSUME NEW s \in Sender, Pick(s) PROVE TypeOK'
  BY <1>3 DEF Pick, Sendable, table, history
<1>4. ASSUME NEW s \in Sender, Return(s) PROVE TypeOK'
  BY Bounds, <1>4 DEF Return, Leave, Home, table, history
<1>5. ASSUME NEW s \in Sender, Claim(s) PROVE TypeOK'
  <2> DEFINE n == note[s]
  <2>1. n \in Note /\ log[n] \in LogRow
    BY <1>5 DEF Claim
  <2> DEFINE taken == [status |-> "processing", age |-> 0, left |-> 0,
                       retries |-> IF log[n].status = "absent" THEN 0 ELSE log[n].retries + 1]
             closed == [log[n] EXCEPT !.status = "failed", !.left = 0]
  <2>2. closed \in LogRow
    BY <2>1, RowUpdate, Bounds, Statuses
  <2>3. Claimable(n) => taken \in LogRow
    BY Bounds, <2>1 DEF Claimable, Old, LogRow, LogStatus
  <2>4. CASE Claimable(n)
    <3>1. log' = [log EXCEPT ![n] = taken]
      BY <1>5, <2>4 DEF Claim
    <3>2. log' \in [Note -> LogRow]
      BY <3>1, <2>3, <2>4
    <3>3. Sending(n) \subseteq Sender
      BY DEF Sending
    <3>4. contested' \subseteq Sender
      BY <1>5, <2>4, <3>3 DEF Claim
    <3> QED
      BY <1>5, <2>1, <2>4, <3>2, <3>4 DEF Claim
  <2>5. CASE ~Claimable(n)
    <3>1. log' = log \/ log' = [log EXCEPT ![n] = closed]
      BY <1>5, <2>5 DEF Claim
    <3>2. log' \in [Note -> LogRow]
      BY <3>1, <2>2
    <3> QED
      BY <1>5, <2>1, <2>5, <3>2 DEF Claim
  <2> QED
    BY <2>4, <2>5
<1>6. ASSUME NEW s \in Sender, ReadCount(s) PROVE TypeOK'
  <2>1. note[s] \in Note
    BY <1>6 DEF ReadCount
  <2>2. log[note[s]].retries \in 0 .. MaxRetries
    BY <2>1 DEF LogRow
  <2> QED
    BY <1>6, <2>1, <2>2 DEF ReadCount, table, history
<1>7. ASSUME NEW s \in Sender, Smtp(s) PROVE TypeOK'
  <2>1. note[s] \in Note
    BY <1>7 DEF Smtp
  <2>2. mails' \in [Note -> Nat] /\ unsure' \in [Note -> Nat]
    BY <1>7, <2>1 DEF Smtp
  <2> QED
    BY <1>7, <2>1, <2>2 DEF Smtp, table
<1>8. ASSUME NEW s \in Sender, Record(s) PROVE TypeOK'
  <2> DEFINE n == note[s]
             won == [log[n] EXCEPT !.status = "sent", !.age = 0, !.left = 0]
             lost == [log[n] EXCEPT !.status = "failed", !.age = 0, !.left = Delay(count[s])]
  <2>1. n \in Note /\ count[s] \in 0 .. MaxRetries
    BY <1>8 DEF Record
  <2>2. log[n] \in LogRow /\ Delay(count[s]) \in Int
    BY <2>1, DelayIsInteger
  <2>3. won \in LogRow /\ lost \in LogRow
    BY <2>2, RowUpdate, Bounds, Statuses
  <2>4. log' = [log EXCEPT ![n] = IF pc[s] = "success" THEN won ELSE lost]
    BY <1>8 DEF Record
  <2>5. log' \in [Note -> LogRow]
    BY <2>3, <2>4
  <2> QED
    BY <1>8, <2>1, <2>5 DEF Record, history
<1>9. ASSUME NEW s \in Sender, Crash(s) PROVE TypeOK'
  BY Bounds, <1>9 DEF Crash, Leave, Home, table, history
<1>10. ASSUME NEW n \in Note, CancelAppointment(n) \/ Reconfirm(n) PROVE TypeOK'
  BY <1>10 DEF CancelAppointment, Reconfirm, history
<1>11. ASSUME Toggle PROVE TypeOK'
  BY <1>11 DEF Toggle, history
<1>12. ASSUME Tick PROVE TypeOK'
  <2> DEFINE aged(n) ==
        [log[n] EXCEPT
           !.age = IF log[n].status = "processing" /\ @ <= Stale THEN @ + 1 ELSE @,
           !.left = IF log[n].status = "failed" /\ (@ > 0 \/ Matures) THEN @ - 1 ELSE @]
  <2>1. ASSUME NEW n \in Note PROVE aged(n) \in LogRow
    <3>1. log[n] \in LogRow /\ log[n].age \in 0 .. Stale + 1 /\ log[n].left \in Int
      BY DEF LogRow
    <3> DEFINE a == IF log[n].status = "processing" /\ log[n].age <= Stale
                      THEN log[n].age + 1 ELSE log[n].age
               l == IF log[n].status = "failed" /\ (log[n].left > 0 \/ Matures)
                      THEN log[n].left - 1 ELSE log[n].left
    <3>2. a \in 0 .. Stale + 1 /\ l \in Int
      BY <3>1, Bounds
    <3>3. aged(n) = [log[n] EXCEPT !.age = a, !.left = l]
      OBVIOUS
    <3> HIDE DEF a, l
    <3>4. [log[n] EXCEPT !.age = a, !.left = l] \in LogRow
      BY <3>1, <3>2, RowAged
    <3> QED
      BY <3>3, <3>4
  <2>2. log' = [n \in Note |-> aged(n)]
    BY <1>12 DEF Tick
  <2>3. log' \in [Note -> LogRow]
    BY <2>1, <2>2
  <2> QED
    BY <1>12, <2>3 DEF Tick, history
<1>13. ASSUME UNCHANGED vars PROVE TypeOK'
  BY <1>13 DEF vars, table, history
<1> QED
  BY <1>2, <1>3, <1>4, <1>5, <1>6, <1>7, <1>8, <1>9, <1>10, <1>11, <1>12, <1>13
  DEF Next, Run

\* Every variable stays in its domain, the retry count of a row within
\* MAX_NOTIFICATION_RETRIES among them.
THEOREM NotificationTyping == Spec => []TypeOK
<1>1. Init => TypeOK
  BY TypeInit
<1>2. TypeOK /\ [Next]_vars => TypeOK'
  BY TypeNext
<1> QED
  BY <1>1, <1>2, PTL DEF Spec

-----------------------------------------------------------------------------
(* Who may still send a note, and what its row still allows.               *)

In(s, P, n) == IF note[s] = n /\ pc[s] \in P THEN 1 ELSE 0

Holders(P, n) == {s \in Sender : note[s] = n /\ pc[s] \in P}

\* Claims granted so far: the retry count starts at the second.
Attempts(n) == IF log[n].status = "absent" THEN 0 ELSE log[n].retries + 1

\* A first claim or a retry that nobody has taken.
Open(n) == IF \/ log[n].status = "absent"
              \/ log[n].status = "failed" /\ log[n].retries < MaxRetries
             THEN 1 ELSE 0

Before == {"count", "smtp"}
Owing == {"count", "smtp", "failure"}

\* A sender that has been granted a claim and has not used it counts as an
\* e-mail; so does, until it records, one that failed, since its record lets
\* the note be claimed again.
Credit(n) ==
  /\ mails[n] + Cardinality(Holders(Before, n)) <= Attempts(n)
  /\ mails[n] + Cardinality(Holders(Owing, n)) + Open(n) <= 1 + unsure[n]
  /\ log[n].status = "sent" => mails[n] > 0

CreditInv ==
  /\ TypeOK
  /\ \A n \in Note : Credit(n)
  /\ \A s \in Sender : pc[s] = "success" => mails[note[s]] > 0

\* When one sender moves, only its own membership changes.
LEMMA Counted ==
  ASSUME NEW s \in Sender, NEW n, NEW P,
         \A t \in Sender \ {s} : note'[t] = note[t] /\ pc'[t] = pc[t]
  PROVE  /\ Cardinality(Holders(P, n)) \in Nat
         /\ Cardinality(Holders(P, n)') \in Nat
         /\ Cardinality(Holders(P, n)') + In(s, P, n) = Cardinality(Holders(P, n)) + In(s, P, n)'
<1> DEFINE H == Holders(P, n)
           J == Holders(P, n)'
           Rest == H \ {s}
<1>1. IsFiniteSet(H) /\ IsFiniteSet(J) /\ IsFiniteSet(Rest)
  BY NotificationsAssumption, FS_Subset DEF Holders
<1>2. s \notin Rest
  OBVIOUS
<1>3. H = IF note[s] = n /\ pc[s] \in P THEN Rest \cup {s} ELSE Rest
  BY DEF Holders
<1>4. J = IF note'[s] = n /\ pc'[s] \in P THEN Rest \cup {s} ELSE Rest
  BY DEF Holders
<1>5. Cardinality(Rest) \in Nat /\ Cardinality(Rest \cup {s}) = Cardinality(Rest) + 1
  BY <1>1, <1>2, FS_CardinalityType, FS_AddElement
<1> HIDE DEF H, J, Rest
<1>6. Cardinality(H) = Cardinality(Rest) + In(s, P, n)
  BY <1>3, <1>5 DEF In
<1>7. Cardinality(J) = Cardinality(Rest) + In(s, P, n)'
  BY <1>4, <1>5 DEF In
<1>8. In(s, P, n) \in Nat /\ In(s, P, n)' \in Nat
  BY DEF In
<1>9. Cardinality(H) \in Nat /\ Cardinality(J) \in Nat
        /\ Cardinality(J) + In(s, P, n) = Cardinality(H) + In(s, P, n)'
  BY <1>5, <1>6, <1>7, <1>8
<1> QED
  BY <1>9 DEF H, J

\* Senders that do not hold a claim before or after a step leave the rows and
\* the mails to the same accounts.
LEMMA Bystander ==
  ASSUME CreditInv, TypeOK', NEW s \in Sender,
         \A t \in Sender \ {s} : note'[t] = note[t] /\ pc'[t] = pc[t],
         \A n \in Note : In(s, Before, n)' <= In(s, Before, n) /\ In(s, Owing, n)' <= In(s, Owing, n),
         pc'[s] = "success" => FALSE,
         UNCHANGED <<log, mails, unsure>>
  PROVE  CreditInv'
<1>1. ASSUME NEW n \in Note PROVE Credit(n)'
  <2> DEFINE B == Cardinality(Holders(Before, n))
             O == Cardinality(Holders(Owing, n))
  <2>1. /\ B \in Nat /\ B' \in Nat /\ B' + In(s, Before, n) = B + In(s, Before, n)'
        /\ O \in Nat /\ O' \in Nat /\ O' + In(s, Owing, n) = O + In(s, Owing, n)'
    BY Counted
  <2>2. /\ In(s, Before, n) \in {0, 1} /\ In(s, Before, n)' \in {0, 1}
        /\ In(s, Owing, n) \in {0, 1} /\ In(s, Owing, n)' \in {0, 1}
    BY DEF In
  <2>3. B' <= B /\ O' <= O
    BY <2>1, <2>2
  <2>4. Attempts(n)' = Attempts(n) /\ Open(n)' = Open(n)
    BY DEF Attempts, Open
  <2>5. Attempts(n) \in Nat /\ Open(n) \in Nat /\ mails[n] \in Nat /\ unsure[n] \in Nat
    BY NotificationsAssumption DEF CreditInv, TypeOK, LogRow, Attempts, Open
  <2>6. Credit(n)
    BY DEF CreditInv
  <2> QED
    BY <2>1, <2>3, <2>4, <2>5, <2>6 DEF Credit
<1>2. ASSUME NEW t \in Sender, pc'[t] = "success" PROVE mails'[note'[t]] > 0
  BY <1>2 DEF CreditInv
<1> QED
  BY <1>1, <1>2 DEF CreditInv

\* No message has been sent, or is owed, at first.
LEMMA CreditInit == Init => CreditInv
<1> SUFFICES ASSUME Init PROVE CreditInv
  OBVIOUS
<1>1. ASSUME NEW P, NEW n \in Note PROVE Cardinality(Holders(P, n)) = 0
  <2>1. Holders(P, n) = {}
    BY NotificationsAssumption DEF Init, Holders
  <2> QED
    BY <2>1, FS_EmptySet
<1>2. ASSUME NEW n \in Note PROVE Credit(n)
  BY <1>1 DEF Credit, Init, Attempts, Open
<1> QED
  BY <1>2, TypeInit DEF CreditInv, Init

\* The claim moves the credit of the row, or of the sender whose claim is
\* abandoned, to the one that claims.
LEMMA ClaimKeepsCredit ==
  ASSUME CreditInv, TypeOK', NEW s \in Sender, NEW m \in Note, m = note[s], Claim(s)
  PROVE  CreditInv'
<1>1. m \in Note /\ log[m] \in LogRow
  BY DEF CreditInv, TypeOK
<1>2. \A t \in Sender \ {s} : note'[t] = note[t] /\ pc'[t] = pc[t]
  BY DEF CreditInv, TypeOK, Claim
<1>3. /\ note' = note /\ mails' = mails /\ pc[s] = "claim"
      /\ pc'[s] = IF Claimable(m) THEN "count" ELSE "next"
  BY DEF CreditInv, TypeOK, Claim
<1>4. ASSUME NEW n \in Note PROVE Credit(n)'
  <2> DEFINE B == Cardinality(Holders(Before, n))
             O == Cardinality(Holders(Owing, n))
             one == IF n = m /\ Claimable(m) THEN 1 ELSE 0
  <2>1. /\ B \in Nat /\ B' \in Nat /\ B' + In(s, Before, n) = B + In(s, Before, n)'
        /\ O \in Nat /\ O' \in Nat /\ O' + In(s, Owing, n) = O + In(s, Owing, n)'
    BY <1>2, Counted
  <2>2. /\ In(s, Before, n) = 0 /\ In(s, Before, n)' = one
        /\ In(s, Owing, n) = 0 /\ In(s, Owing, n)' = one
    BY <1>3 DEF In, Before, Owing
  <2>3. B' = B + one /\ O' = O + one
    BY <2>1, <2>2
  <2>4. /\ mails[n] \in Nat /\ unsure[n] \in Nat /\ log[n] \in LogRow
        /\ log[n].retries \in Nat /\ log[n].status \in LogStatus
    BY NotificationsAssumption DEF CreditInv, TypeOK, LogRow
  <2>5. Credit(n)
    BY DEF CreditInv
  <2>6. Attempts(n) \in Nat /\ Open(n) \in {0, 1}
    BY <2>4 DEF Attempts, Open
  <2> HIDE DEF B, O, one
  <2>7. CASE n # m
    <3>1. log'[n] = log[n] /\ unsure'[n] = unsure[n]
      BY <2>7, <1>1 DEF CreditInv, TypeOK, Claim
    <3>2. one = 0 /\ mails'[n] = mails[n] /\ Attempts(n)' = Attempts(n) /\ Open(n)' = Open(n)
      BY <1>3, <2>7, <3>1 DEF one, Attempts, Open
    <3> QED
      BY <2>1, <2>3, <2>4, <2>5, <2>6, <3>1, <3>2 DEF Credit, B, O
  <2>8. CASE n = m /\ Claimable(m)
    <3>1. /\ log'[m].status = "processing"
          /\ log'[m].retries = IF log[m].status = "absent" THEN 0 ELSE log[m].retries + 1
          /\ unsure'[m] = IF Old(m) THEN unsure[m] + 1 ELSE unsure[m]
      BY <2>8, <1>1 DEF CreditInv, TypeOK, Claim
    <3>2. Attempts(m)' = Attempts(m) + 1 /\ Open(m)' = 0
      BY <2>4, <2>8, <3>1 DEF Attempts, Open
    <3>3. Old(m) \/ Open(m) = 1
      BY <2>8 DEF Claimable, Open
    <3>4. one = 1 /\ mails'[n] = mails[n]
      BY <1>3, <2>8 DEF one
    <3>5. mails'[n] + B' <= Attempts(n)'
      BY <2>1, <2>3, <2>4, <2>5, <2>6, <2>8, <3>2, <3>4 DEF Credit, B, O
    <3>6. mails'[n] + O' + Open(n)' <= 1 + unsure'[n]
      BY <2>1, <2>3, <2>4, <2>5, <2>6, <2>8, <3>1, <3>2, <3>3, <3>4 DEF Credit, B, O
    <3> QED
      BY <2>8, <3>1, <3>5, <3>6 DEF Credit, B, O
  <2>9. CASE n = m /\ ~Claimable(m)
    <3>1. /\ unsure' = unsure
          /\ \/ log' = log
             \/ Old(m) /\ log' = [log EXCEPT ![m].status = "failed", ![m].left = 0]
      BY <2>9 DEF Claim
    <3>2. Attempts(m)' = Attempts(m) /\ Open(m)' = Open(m)
      <4>1. CASE log' = log
        BY <4>1 DEF Attempts, Open
      <4>2. CASE Old(m) /\ log' = [log EXCEPT ![m].status = "failed", ![m].left = 0]
        <5>1. log'[m] = [log[m] EXCEPT !.status = "failed", !.left = 0]
          BY <4>2, <1>1 DEF CreditInv, TypeOK
        <5>2. log'[m].status = "failed" /\ log'[m].retries = log[m].retries
          BY <5>1, <1>1 DEF LogRow
        <5>3. log[m].status = "processing" /\ ~(log[m].retries < MaxRetries)
          BY <4>2, <2>9 DEF Claimable, Old
        <5> QED
          BY <5>2, <5>3 DEF Attempts, Open
      <4> QED
        BY <3>1, <4>1, <4>2
    <3>3. log'[m].status = "sent" => log[m].status = "sent"
      BY <3>1, <1>1 DEF CreditInv, TypeOK, LogRow
    <3>4. one = 0 /\ mails'[n] = mails[n]
      BY <1>3, <2>9 DEF one
    <3> QED
      BY <2>1, <2>3, <2>4, <2>5, <2>6, <2>9, <3>1, <3>2, <3>3, <3>4 DEF Credit, B, O
  <2> QED
    BY <2>7, <2>8, <2>9
<1>5. ASSUME NEW t \in Sender, pc'[t] = "success" PROVE mails'[note'[t]] > 0
  BY <1>2, <1>3, <1>5 DEF CreditInv
<1> QED
  BY <1>4, <1>5 DEF CreditInv

\* SMTP spends the credit or keeps it for the retry; an answer that is lost
\* does both, and is counted.
LEMMA SmtpKeepsCredit ==
  ASSUME CreditInv, TypeOK', NEW s \in Sender, NEW m \in Note, m = note[s], Smtp(s)
  PROVE  CreditInv'
<1>1. \A t \in Sender \ {s} : note'[t] = note[t] /\ pc'[t] = pc[t]
  BY DEF CreditInv, TypeOK, Smtp
<1>2. note' = note /\ log' = log /\ pc[s] = "smtp" /\ pc'[s] \in {"success", "failure"}
  BY DEF CreditInv, TypeOK, Smtp, table
<1>3. \/ pc'[s] = "success" /\ mails'[m] = mails[m] + 1 /\ unsure'[m] = unsure[m]
      \/ pc'[s] = "failure" /\ mails'[m] = mails[m] /\ unsure'[m] = unsure[m]
      \/ pc'[s] = "failure" /\ mails'[m] = mails[m] + 1 /\ unsure'[m] = unsure[m] + 1
  BY DEF CreditInv, TypeOK, Smtp
<1>4. \A n \in Note \ {m} : mails'[n] = mails[n] /\ unsure'[n] = unsure[n]
  BY DEF CreditInv, TypeOK, Smtp
<1>5. \A n \in Note : mails[n] \in Nat /\ mails'[n] \in Nat /\ mails'[n] >= mails[n]
  BY <1>3, <1>4 DEF CreditInv, TypeOK
<1>6. ASSUME NEW n \in Note PROVE Credit(n)'
  <2> DEFINE B == Cardinality(Holders(Before, n))
             O == Cardinality(Holders(Owing, n))
  <2>1. /\ B \in Nat /\ B' \in Nat /\ B' + In(s, Before, n) = B + In(s, Before, n)'
        /\ O \in Nat /\ O' \in Nat /\ O' + In(s, Owing, n) = O + In(s, Owing, n)'
    BY <1>1, Counted
  <2>2. /\ In(s, Before, n) = IF n = m THEN 1 ELSE 0
        /\ In(s, Owing, n) = IF n = m THEN 1 ELSE 0
        /\ In(s, Before, n)' = 0
        /\ In(s, Owing, n)' = IF n = m /\ pc'[s] = "failure" THEN 1 ELSE 0
    BY <1>2 DEF In, Before, Owing
  <2>3. Attempts(n)' = Attempts(n) /\ Open(n)' = Open(n)
    BY <1>2 DEF Attempts, Open
  <2>4. /\ Attempts(n) \in Nat /\ Open(n) \in {0, 1}
        /\ mails[n] \in Nat /\ unsure[n] \in Nat
    BY NotificationsAssumption DEF CreditInv, TypeOK, LogRow, Attempts, Open
  <2>5. Credit(n)
    BY DEF CreditInv
  <2> HIDE DEF B, O
  <2>6. mails'[n] + B' <= Attempts(n)'
    BY <1>3, <1>4, <2>1, <2>2, <2>3, <2>4, <2>5 DEF Credit, B, O
  <2>7. mails'[n] + O' + Open(n)' <= 1 + unsure'[n]
    BY <1>3, <1>4, <2>1, <2>2, <2>3, <2>4, <2>5 DEF Credit, B, O
  <2>8. log'[n].status = "sent" => mails'[n] > 0
    BY <1>2, <1>5, <2>5 DEF Credit
  <2> QED
    BY <2>6, <2>7, <2>8 DEF Credit, B, O
<1>7. ASSUME NEW t \in Sender, pc'[t] = "success" PROVE mails'[note'[t]] > 0
  <2>1. CASE t = s
    BY <1>2, <1>3, <1>5, <1>7, <2>1
  <2>2. CASE t # s
    <3>1. pc[t] = "success" /\ mails[note[t]] > 0 /\ note[t] \in Note
      BY <1>1, <1>7, <2>2 DEF CreditInv, TypeOK
    <3> QED
      BY <1>2, <1>5, <3>1
  <2> QED
    BY <2>1, <2>2
<1> QED
  BY <1>6, <1>7 DEF CreditInv

\* The record of a failure gives the credit back to the row, whatever the row
\* has become.
LEMMA RecordKeepsCredit ==
  ASSUME CreditInv, TypeOK', NEW s \in Sender, NEW m \in Note, m = note[s], Record(s)
  PROVE  CreditInv'
<1>1. \A t \in Sender \ {s} : note'[t] = note[t] /\ pc'[t] = pc[t]
  BY DEF CreditInv, TypeOK, Record
<1>2. /\ note' = note /\ mails' = mails /\ unsure' = unsure
      /\ pc[s] \in {"success", "failure"} /\ pc'[s] = "next"
  BY DEF CreditInv, TypeOK, Record, history
<1>3. /\ \A n \in Note \ {m} : log'[n] = log[n]
      /\ log'[m].status = IF pc[s] = "success" THEN "sent" ELSE "failed"
      /\ log'[m].retries = log[m].retries
  BY DEF CreditInv, TypeOK, LogRow, Record
<1>4. ASSUME NEW n \in Note PROVE Credit(n)'
  <2> DEFINE B == Cardinality(Holders(Before, n))
             O == Cardinality(Holders(Owing, n))
  <2>1. /\ B \in Nat /\ B' \in Nat /\ B' + In(s, Before, n) = B + In(s, Before, n)'
        /\ O \in Nat /\ O' \in Nat /\ O' + In(s, Owing, n) = O + In(s, Owing, n)'
    BY <1>1, Counted
  <2>2. /\ In(s, Before, n) = 0 /\ In(s, Before, n)' = 0 /\ In(s, Owing, n)' = 0
        /\ In(s, Owing, n) = IF n = m /\ pc[s] = "failure" THEN 1 ELSE 0
    BY <1>2 DEF In, Before, Owing
  <2>3. /\ log[n].retries \in Nat
        /\ mails[n] \in Nat /\ unsure[n] \in Nat
    BY NotificationsAssumption DEF CreditInv, TypeOK, LogRow
  <2>4. Credit(n)
    BY DEF CreditInv
  <2>5. /\ Attempts(n) \in Nat /\ Attempts(n)' \in Nat /\ Attempts(n)' >= Attempts(n)
        /\ Open(n) \in {0, 1} /\ Open(n)' \in {0, 1}
        /\ n # m \/ pc[s] = "success" => Open(n)' <= Open(n)
    BY <1>3, <2>3 DEF Attempts, Open
  <2> HIDE DEF B, O
  <2>6. mails'[n] + B' <= Attempts(n)'
    BY <1>2, <2>1, <2>2, <2>3, <2>4, <2>5 DEF Credit, B, O
  <2>7. mails'[n] + O' + Open(n)' <= 1 + unsure'[n]
    BY <1>2, <2>1, <2>2, <2>3, <2>4, <2>5 DEF Credit, B, O
  <2>8. log'[n].status = "sent" => mails'[n] > 0
    BY <1>2, <1>3, <2>4 DEF Credit, CreditInv
  <2> QED
    BY <2>6, <2>7, <2>8 DEF Credit, B, O
<1>5. ASSUME NEW t \in Sender, pc'[t] = "success" PROVE mails'[note'[t]] > 0
  BY <1>1, <1>2, <1>5 DEF CreditInv
<1> QED
  BY <1>4, <1>5 DEF CreditInv

\* Every step keeps the count of the attempts.
LEMMA CreditNext == CreditInv /\ [Next]_vars => CreditInv'
<1> SUFFICES ASSUME CreditInv, [Next]_vars PROVE CreditInv'
  OBVIOUS
<1>0. TypeOK /\ TypeOK'
  BY TypeNext DEF CreditInv
<1>1. ASSUME NEW s \in Sender, NEW b, Take(s, b) PROVE CreditInv'
  <2>1. /\ \A t \in Sender \ {s} : note'[t] = note[t] /\ pc'[t] = pc[t]
        /\ pc'[s] = "next" /\ UNCHANGED <<log, mails, unsure>>
    BY <1>0, <1>1 DEF TypeOK, Take, table, history
  <2>2. \A n \in Note : In(s, Before, n)' = 0 /\ In(s, Owing, n)' = 0
    BY <2>1 DEF In, Before, Owing
  <2> QED
    BY <1>0, <2>1, <2>2, Bystander DEF In
<1>2. ASSUME NEW s \in Sender, Start(s) PROVE CreditInv'
  BY <1>1, <1>2 DEF Start, Dispatch, StartReminders, Candidates, StartRetry
<1>3. ASSUME NEW s \in Sender, Pick(s) PROVE CreditInv'
  <2>1. /\ \A t \in Sender \ {s} : note'[t] = note[t] /\ pc'[t] = pc[t]
        /\ pc'[s] \in {"next", "claim"} /\ UNCHANGED <<log, mails, unsure>>
    BY <1>0, <1>3 DEF TypeOK, Pick, Sendable, table, history
  <2>2. \A n \in Note : In(s, Before, n)' = 0 /\ In(s, Owing, n)' = 0
    BY <2>1 DEF In, Before, Owing
  <2> QED
    BY <1>0, <2>1, <2>2, Bystander DEF In
<1>4. ASSUME NEW s \in Sender, Return(s) \/ Crash(s) PROVE CreditInv'
  <2>1. /\ \A t \in Sender \ {s} : note'[t] = note[t] /\ pc'[t] = pc[t]
        /\ pc'[s] \in {"idle", "end"} /\ UNCHANGED <<log, mails, unsure>>
    BY <1>0, <1>4 DEF TypeOK, Return, Crash, Leave, Home, table, history
  <2>2. \A n \in Note : In(s, Before, n)' = 0 /\ In(s, Owing, n)' = 0
    BY <2>1 DEF In, Before, Owing
  <2> QED
    BY <1>0, <2>1, <2>2, Bystander DEF In
<1>5. ASSUME NEW s \in Sender, ReadCount(s) PROVE CreditInv'
  <2>1. /\ \A t \in Sender \ {s} : note'[t] = note[t] /\ pc'[t] = pc[t]
        /\ pc[s] = "count" /\ pc'[s] = "smtp" /\ note' = note
        /\ UNCHANGED <<log, mails, unsure>>
    BY <1>0, <1>5 DEF TypeOK, ReadCount, table, history
  <2>2. \A n \in Note : /\ In(s, Before, n)' = In(s, Before, n)
                        /\ In(s, Owing, n)' = In(s, Owing, n)
    BY <2>1 DEF In, Before, Owing
  <2> QED
    BY <1>0, <2>1, <2>2, Bystander DEF In
<1>6. ASSUME NEW s \in Sender, Claim(s) PROVE CreditInv'
  <2>1. note[s] \in Note
    BY <1>0, <1>6 DEF TypeOK, Claim
  <2> QED
    BY <1>0, <1>6, <2>1, ClaimKeepsCredit
<1>7. ASSUME NEW s \in Sender, Smtp(s) PROVE CreditInv'
  <2>1. note[s] \in Note
    BY <1>0, <1>7 DEF TypeOK, Smtp
  <2> QED
    BY <1>0, <1>7, <2>1, SmtpKeepsCredit
<1>8. ASSUME NEW s \in Sender, Record(s) PROVE CreditInv'
  <2>1. note[s] \in Note
    BY <1>0, <1>8 DEF TypeOK, Record
  <2> QED
    BY <1>0, <1>8, <2>1, RecordKeepsCredit
<1>9. ASSUME UNCHANGED <<pc, note, mails, unsure>>,
             \A n \in Note : log'[n].status = log[n].status /\ log'[n].retries = log[n].retries
      PROVE  CreditInv'
  <2>1. ASSUME NEW n \in Note PROVE Credit(n)'
    <3>1. Attempts(n)' = Attempts(n) /\ Open(n)' = Open(n)
      BY <1>9 DEF Attempts, Open
    <3>2. Holders(Before, n)' = Holders(Before, n) /\ Holders(Owing, n)' = Holders(Owing, n)
      BY <1>9 DEF Holders
    <3> QED
      BY <1>9, <3>1, <3>2 DEF CreditInv, Credit
  <2> QED
    BY <1>0, <1>9, <2>1 DEF CreditInv
<1>10. ASSUME NEW n \in Note, CancelAppointment(n) \/ Reconfirm(n) PROVE CreditInv'
  BY <1>9, <1>10 DEF CancelAppointment, Reconfirm, history
<1>11. ASSUME Toggle PROVE CreditInv'
  BY <1>9, <1>11 DEF Toggle, history
<1>12. ASSUME Tick PROVE CreditInv'
  <2>1. \A n \in Note : log'[n].status = log[n].status /\ log'[n].retries = log[n].retries
    BY <1>0, <1>12 DEF TypeOK, LogRow, Tick
  <2> QED
    BY <1>9, <1>12, <2>1 DEF Tick, history
<1>13. ASSUME UNCHANGED vars PROVE CreditInv'
  BY <1>9, <1>13 DEF vars, table, history
<1> QED
  BY <1>2, <1>3, <1>4, <1>5, <1>6, <1>7, <1>8, <1>10, <1>11, <1>12, <1>13 DEF Next, Run

\* The count of the attempts holds for ever.
LEMMA CreditAlways == Spec => []CreditInv
<1>1. Init => CreditInv
  BY CreditInit
<1>2. CreditInv /\ [Next]_vars => CreditInv'
  BY CreditNext
<1> QED
  BY <1>1, <1>2, PTL DEF Spec

-----------------------------------------------------------------------------
(* What follows.                                                           *)

\* What the count adds are numbers.
LEMMA CreditNumbers ==
  ASSUME CreditInv, NEW n \in Note
  PROVE  /\ mails[n] \in Nat /\ unsure[n] \in Nat /\ Open(n) \in {0, 1}
         /\ Cardinality(Holders(Before, n)) \in Nat
         /\ Cardinality(Holders(Owing, n)) \in Nat
         /\ Attempts(n) \in 0 .. MaxRetries + 1
<1>1. IsFiniteSet(Holders(Before, n)) /\ IsFiniteSet(Holders(Owing, n))
  BY NotificationsAssumption, FS_Subset DEF Holders
<1>2. /\ Cardinality(Holders(Before, n)) \in Nat
      /\ Cardinality(Holders(Owing, n)) \in Nat
  BY <1>1, FS_CardinalityType
<1>3. log[n].retries \in 0 .. MaxRetries
  BY DEF CreditInv, TypeOK, LogRow
<1> QED
  BY <1>2, <1>3, NotificationsAssumption DEF CreditInv, TypeOK, Open, Attempts

\* Nobody gets the same e-mail more than MAX_NOTIFICATION_RETRIES + 1 times,
\* whoever crashes, is taken over or records late: retry_count only grows, and
\* every sender's claim has raised it.
THEOREM AtMostOnePerAttempt == Spec => []AttemptsBounded
<1>1. ASSUME CreditInv, NEW n \in Note PROVE mails[n] <= MaxRetries + 1
  <2>1. mails[n] + Cardinality(Holders(Before, n)) <= Attempts(n)
    BY <1>1 DEF CreditInv, Credit
  <2> QED
    BY <1>1, <2>1, CreditNumbers, Bounds
<1>2. CreditInv => AttemptsBounded
  BY <1>1 DEF AttemptsBounded
<1> QED
  BY <1>2, CreditAlways, PTL

\* Every e-mail beyond the first has its own excuse, a claim that was taken from
\* a sender or an SMTP answer that was lost: the claim of
\* claim_notification_scoped lets concurrent senders send once.
THEOREM NoUnexplainedDuplicate == Spec => []DuplicatesExplained
<1>1. CreditInv => DuplicatesExplained
  BY CreditNumbers DEF CreditInv, Credit, DuplicatesExplained
<1> QED
  BY <1>1, CreditAlways, PTL

-----------------------------------------------------------------------------
(* Who shares a note.                                                      *)

\* Senders that hold the same claim are contested, all of them, and so is
\* whoever still sends a note that was sent or that may be claimed again.
Share(n) ==
  /\ \A s, t \in Sending(n) : s # t => s \in contested
  /\ log[n].status = "absent" => Sending(n) = {}
  /\ \/ log[n].status = "sent"
     \/ log[n].status = "failed" /\ log[n].retries < MaxRetries
     => Sending(n) \subseteq contested

ShareInv == TypeOK /\ \A n \in Note : Share(n)

\* Nobody sends at first.
LEMMA ShareInit == Init => ShareInv
<1> SUFFICES ASSUME Init PROVE ShareInv
  OBVIOUS
<1>1. \A n \in Note : Sending(n) = {} /\ log[n].status = "absent"
  BY DEF Init, Sending
<1> QED
  BY <1>1, TypeInit DEF ShareInv, Share

\* A step that grants no claim and records nothing leaves every note shared as
\* it was.
LEMMA NobodyJoins ==
  ASSUME ShareInv, TypeOK',
         \A n \in Note : /\ Sending(n)' \subseteq Sending(n)
                         /\ Sending(n)' \cap contested \subseteq contested'
                         /\ log'[n].status = log[n].status
                         /\ log'[n].retries = log[n].retries
  PROVE  ShareInv'
<1>1. ASSUME NEW n \in Note PROVE Share(n)'
  BY DEF ShareInv, Share
<1> QED
  BY <1>1 DEF ShareInv

\* A step of one sender that does not hold a claim after it is such a step.
LEMMA NotSending ==
  ASSUME ShareInv, TypeOK', NEW s \in Sender,
         \A t \in Sender \ {s} : note'[t] = note[t] /\ pc'[t] = pc[t],
         pc'[s] \notin {"count", "smtp", "success", "failure"},
         log' = log, contested \ {s} \subseteq contested'
  PROVE  ShareInv'
<1>1. ASSUME NEW n \in Note, NEW t \in Sending(n)' PROVE t \in Sending(n) /\ t # s
  BY DEF Sending
<1> QED
  BY <1>1, NobodyJoins

\* The claim of a note that somebody still sends makes them all contested.
LEMMA ClaimShares ==
  ASSUME ShareInv, TypeOK', NEW s \in Sender, NEW m \in Note, m = note[s], Claim(s)
  PROVE  ShareInv'
<1>1. /\ m \in Note /\ note' = note /\ pc[s] = "claim" /\ log[m] \in LogRow
      /\ pc \in [Sender -> {"idle", "next", "claim", "count", "smtp", "success", "failure", "end"}]
      /\ log \in [Note -> LogRow] /\ note \in [Sender -> Note \cup {NoNote}]
  BY DEF ShareInv, TypeOK, Claim
<1>2. CASE ~Claimable(m)
  <2>1. /\ \A t \in Sender \ {s} : note'[t] = note[t] /\ pc'[t] = pc[t]
        /\ pc'[s] = "next" /\ contested' = contested
        /\ \/ log' = log
           \/ Old(m) /\ log' = [log EXCEPT ![m].status = "failed", ![m].left = 0]
    BY <1>1, <1>2 DEF Claim
  <2>2. CASE log' = log
    BY <2>1, <2>2, NotSending
  <2>3. CASE Old(m) /\ log' = [log EXCEPT ![m].status = "failed", ![m].left = 0]
    <3>1. /\ log'[m] = [log[m] EXCEPT !.status = "failed", !.left = 0]
          /\ \A n \in Note \ {m} : log'[n] = log[n]
      BY <2>3, <1>1
    <3>2. log'[m].status = "failed" /\ ~(log'[m].retries < MaxRetries)
      BY <3>1, <2>3, <1>1, <1>2 DEF Claimable, Old, LogRow
    <3>3. \A n \in Note : Sending(n)' = Sending(n)
      BY <1>1, <2>1 DEF Sending
    <3>4. Share(m)'
      BY <2>1, <3>2, <3>3 DEF ShareInv, Share
    <3>5. ASSUME NEW n \in Note \ {m} PROVE Share(n)'
      BY <2>1, <3>1, <3>3 DEF ShareInv, Share
    <3> QED
      BY <3>4, <3>5 DEF ShareInv
  <2> QED
    BY <2>1, <2>2, <2>3
<1>3. CASE Claimable(m)
  <2>1. /\ pc' = [pc EXCEPT ![s] = "count"]
        /\ contested' = IF Overlaps(m) THEN contested \cup Sending(m) \cup {s} ELSE contested
        /\ log'[m].status = "processing"
        /\ \A n \in Note \ {m} : log'[n] = log[n]
    BY <1>1, <1>3 DEF Claim
  <2>2. /\ Sending(m)' = Sending(m) \cup {s}
        /\ \A n \in Note \ {m} : Sending(n)' = Sending(n)
    BY <1>1, <2>1 DEF Sending
  <2>3. Sending(m) # {} => Overlaps(m)
    BY <1>1, <1>3 DEF ShareInv, Share, Overlaps, Claimable, LogRow, LogStatus
  <2>4. Share(m)'
    BY <2>1, <2>2, <2>3 DEF Share
  <2>5. ASSUME NEW n \in Note \ {m} PROVE Share(n)'
    <3>1. contested \subseteq contested'
      BY <2>1
    <3> QED
      BY <2>1, <2>2, <3>1 DEF ShareInv, Share
  <2> QED
    BY <2>4, <2>5 DEF ShareInv
<1> QED
  BY <1>2, <1>3

\* Whoever still sends a note that another records was contested with it.
LEMMA RecordShares ==
  ASSUME ShareInv, TypeOK', NEW s \in Sender, NEW m \in Note, m = note[s], Record(s)
  PROVE  ShareInv'
<1>1. /\ m \in Note /\ note' = note /\ pc[s] \in {"success", "failure"}
      /\ pc' = [pc EXCEPT ![s] = "next"] /\ contested' = contested \ {s}
      /\ pc \in [Sender -> {"idle", "next", "claim", "count", "smtp", "success", "failure", "end"}]
  BY DEF ShareInv, TypeOK, Record
<1>2. \A n \in Note \ {m} : log'[n] = log[n]
  BY DEF ShareInv, TypeOK, Record
<1>3. log'[m].status \in {"sent", "failed"}
  BY <1>1 DEF ShareInv, TypeOK, LogRow, Record
<1>4. /\ s \in Sending(m) /\ Sending(m)' = Sending(m) \ {s}
      /\ \A n \in Note \ {m} : Sending(n)' = Sending(n) /\ s \notin Sending(n)
  BY <1>1 DEF Sending
<1>5. Sending(m) \ {s} \subseteq contested'
  BY <1>1, <1>4 DEF ShareInv, Share
<1>6. Share(m)'
  BY <1>3, <1>4, <1>5 DEF Share
<1>7. ASSUME NEW n \in Note \ {m} PROVE Share(n)'
  BY <1>1, <1>2, <1>4 DEF ShareInv, Share
<1> QED
  BY <1>6, <1>7 DEF ShareInv

\* Every step keeps the shares.
LEMMA ShareNext == ShareInv /\ [Next]_vars => ShareInv'
<1> SUFFICES ASSUME ShareInv, [Next]_vars PROVE ShareInv'
  OBVIOUS
<1>0. TypeOK /\ TypeOK'
  BY TypeNext DEF ShareInv
<1>1. ASSUME NEW s \in Sender, NEW b, Take(s, b) PROVE ShareInv'
  <2>1. /\ \A t \in Sender \ {s} : note'[t] = note[t] /\ pc'[t] = pc[t]
        /\ pc'[s] = "next" /\ log' = log /\ contested' = contested
    BY <1>0, <1>1 DEF TypeOK, Take, table, history
  <2> QED
    BY <1>0, <2>1, NotSending
<1>2. ASSUME NEW s \in Sender, Start(s) PROVE ShareInv'
  BY <1>1, <1>2 DEF Start, Dispatch, StartReminders, Candidates, StartRetry
<1>3. ASSUME NEW s \in Sender, Pick(s) PROVE ShareInv'
  <2>1. /\ \A t \in Sender \ {s} : note'[t] = note[t] /\ pc'[t] = pc[t]
        /\ pc'[s] \in {"next", "claim"} /\ log' = log /\ contested' = contested
    BY <1>0, <1>3 DEF TypeOK, Pick, Sendable, table, history
  <2> QED
    BY <1>0, <2>1, NotSending
<1>4. ASSUME NEW s \in Sender, Return(s) \/ Crash(s) PROVE ShareInv'
  <2>1. /\ \A t \in Sender \ {s} : note'[t] = note[t] /\ pc'[t] = pc[t]
        /\ pc'[s] \in {"idle", "end"} /\ log' = log /\ contested \ {s} \subseteq contested'
    BY <1>0, <1>4 DEF TypeOK, Return, Crash, Leave, Home, table, history
  <2> QED
    BY <1>0, <2>1, NotSending
<1>5. ASSUME NEW s \in Sender, ReadCount(s) \/ Smtp(s) PROVE ShareInv'
  <2>1. /\ pc[s] \in {"count", "smtp"} /\ pc'[s] \in {"smtp", "success", "failure"}
        /\ \A t \in Sender \ {s} : pc'[t] = pc[t]
        /\ note' = note /\ log' = log /\ contested' = contested
    BY <1>0, <1>5 DEF TypeOK, ReadCount, Smtp, table, history
  <2>2. \A n \in Note : Sending(n)' = Sending(n)
    BY <2>1 DEF Sending
  <2> QED
    BY <1>0, <2>1, <2>2, NobodyJoins
<1>6. ASSUME NEW s \in Sender, Claim(s) \/ Record(s) PROVE ShareInv'
  <2>1. note[s] \in Note
    BY <1>0, <1>6 DEF TypeOK, Claim, Record
  <2> QED
    BY <1>0, <1>6, <2>1, ClaimShares, RecordShares
<1>7. ASSUME UNCHANGED <<pc, note, contested>>,
             \A n \in Note : log'[n].status = log[n].status /\ log'[n].retries = log[n].retries
      PROVE  ShareInv'
  <2>1. \A n \in Note : Sending(n)' = Sending(n)
    BY <1>7 DEF Sending
  <2> QED
    BY <1>0, <1>7, <2>1, NobodyJoins
<1>8. ASSUME NEW n \in Note, CancelAppointment(n) \/ Reconfirm(n) PROVE ShareInv'
  BY <1>7, <1>8 DEF CancelAppointment, Reconfirm, history
<1>9. ASSUME Toggle PROVE ShareInv'
  BY <1>7, <1>9 DEF Toggle, history
<1>10. ASSUME Tick PROVE ShareInv'
  <2>1. \A n \in Note : log'[n].status = log[n].status /\ log'[n].retries = log[n].retries
    BY <1>0, <1>10 DEF TypeOK, LogRow, Tick
  <2> QED
    BY <1>7, <1>10, <2>1 DEF Tick, history
<1>11. ASSUME UNCHANGED vars PROVE ShareInv'
  BY <1>7, <1>11 DEF vars, table, history
<1> QED
  BY <1>2, <1>3, <1>4, <1>5, <1>6, <1>8, <1>9, <1>10, <1>11 DEF Next, Run

\* A row is taken back from 'sent' only by the failed attempt of a sender that
\* shared the note with another after a takeover: who records a failure holds a
\* claim, and whoever holds one of a note that was sent is contested.
THEOREM SentStays == Spec => SentReopenedOnlyAfterTakeover
<1>1. ASSUME ShareInv, [Next]_vars, NEW n \in Note,
             log[n].status = "sent", log'[n].status # "sent"
      PROVE  \E s \in contested : note[s] = n /\ pc[s] = "failure" /\ pc'[s] = "next"
  <2>1. TypeOK /\ log \in [Note -> LogRow]
    BY <1>1 DEF ShareInv, TypeOK
  <2>2. ASSUME NEW s \in Sender, Claim(s) PROVE FALSE
    BY <1>1, <2>1, <2>2 DEF Claim, Claimable, Old, TypeOK
  <2>3. ASSUME NEW s \in Sender, Record(s)
        PROVE  \E t \in contested : note[t] = n /\ pc[t] = "failure" /\ pc'[t] = "next"
    <3>1. note[s] = n /\ pc[s] = "failure" /\ pc'[s] = "next"
      BY <1>1, <2>1, <2>3 DEF Record, TypeOK, LogRow
    <3>2. s \in Sending(n)
      BY <3>1 DEF Sending
    <3>3. s \in contested
      BY <1>1, <3>2 DEF ShareInv, Share
    <3> QED
      BY <3>1, <3>3
  <2>4. ASSUME Tick PROVE FALSE
    BY <1>1, <2>1, <2>4 DEF Tick, LogRow
  <2>5. ASSUME log' = log PROVE FALSE
    BY <1>1, <2>5
  <2> QED
    BY <1>1, <2>2, <2>3, <2>4, <2>5
    DEF Next, Start, Run, Dispatch, StartReminders, Candidates, StartRetry, Take, Pick,
        Sendable, Return, ReadCount,
        Smtp, Crash, CancelAppointment, Reconfirm, Toggle, table, history, vars
<1>2. ShareInv /\ [Next]_vars
        => [\A n \in Note : log[n].status = "sent" /\ log'[n].status # "sent" =>
              \E s \in contested : note[s] = n /\ pc[s] = "failure" /\ pc'[s] = "next"]_vars
  BY <1>1
<1> QED
  BY <1>2, ShareInit, ShareNext, PTL DEF Spec, SentReopenedOnlyAfterTakeover
==============================================================================
