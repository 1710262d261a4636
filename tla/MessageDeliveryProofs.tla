----------------------- MODULE MessageDeliveryProofs -----------------------
(***************************************************************************)
(* MessageDelivery for every set of messages, copies, job instances and    *)
(* handlers, whatever the faults and the budgets: type correctness, and    *)
(* that whatever a row shows has a reason; with one callback or one job    *)
(* at a time, that no callback takes back a delivery and no sweep exceeds  *)
(* the budget of a message; and that all of it implements MessageLife.     *)
(***************************************************************************)
EXTENDS MessageDelivery, TLAPS

\* The initial and final states of the tasks are states of tasks.
LEMMA TaskStates ==
    /\ IdleSender \in SenderState
    /\ DoneSender \in SenderState
    /\ IdleSweep \in SweepState
    /\ IdleCallback \in CallbackState
BY DEF IdleSender, DoneSender, IdleSweep, IdleCallback,
       SenderState, SweepState, CallbackState, Id, Status

\* The writes to a row keep its types.
LEMMA UpdateTypes ==
    ASSUME TypeOK, NEW m \in Message
    PROVE  /\ \A st \in Status, d \in BOOLEAN : UpdateStatus(m, st, d) =>
                /\ status' \in [Message -> Status \cup {NoRow}]
                /\ sentAt' \in [Message -> BOOLEAN]
           /\ \A wb \in Id, wa \in Id : UpdateIds(m, wb, wa) =>
                /\ whatsboxId' \in [Message -> Id]
                /\ wamid' \in [Message -> Id]
           /\ \A st \in Status : AppendTimeline(m, st) =>
                timeline' \in [Message -> SUBSET Status]
           /\ \A k \in Copy : Accept(m, k) => fate' \in [Message -> [Copy -> Fate]]
<1>1. \A st \in Status, d \in BOOLEAN : UpdateStatus(m, st, d) =>
                /\ status' \in [Message -> Status \cup {NoRow}]
                /\ sentAt' \in [Message -> BOOLEAN]
  BY DEF TypeOK, UpdateStatus
<1>2. \A wb \in Id, wa \in Id : UpdateIds(m, wb, wa) =>
                /\ whatsboxId' \in [Message -> Id]
                /\ wamid' \in [Message -> Id]
  BY DEF TypeOK, UpdateIds
<1>3. \A st \in Status : AppendTimeline(m, st) =>
                timeline' \in [Message -> SUBSET Status]
  BY DEF TypeOK, AppendTimeline
<1>4. \A k \in Copy : Accept(m, k) => fate' \in [Message -> [Copy -> Fate]]
  BY DEF TypeOK, Accept, Fate
<1>5. QED
  BY <1>1, <1>2, <1>3, <1>4

\* So does the conditional write of recordMessageStatus.
LEMMA RecordTypes ==
    ASSUME TypeOK, NEW m \in Message, NEW st \in Status, NEW seen, RecordWrite(m, seen, st)
    PROVE  /\ status' \in [Message -> Status \cup {NoRow}]
           /\ sentAt' \in [Message -> BOOLEAN]
           /\ UNCHANGED <<retryCount, whatsboxId, wamid>>
<1>1. CASE MovesRow(seen, st)
  <2>1. UpdateStatus(m, st, FALSE)
    BY <1>1 DEF RecordWrite
  <2>2. QED
    BY <2>1, UpdateTypes DEF UpdateStatus
<1>2. CASE ~MovesRow(seen, st)
  <2>1. UNCHANGED row
    BY <1>2 DEF RecordWrite
  <2>2. QED
    BY <2>1 DEF TypeOK, row
<1>3. QED
  BY <1>1, <1>2

\* Every step of a send request preserves the types.
LEMMA SenderTypes ==
    ASSUME TypeOK, NEW m \in Message, SenderStep(m)
    PROVE  TypeOK'
<1> USE DEF TypeOK, OthersOfSender, row, made
<1>s. sender[m] \in SenderState /\ sender[m].id \in Id /\ sender[m].st \in Status
  BY DEF SenderState, Status
<1>a. AfterOutcome(m) \in {"confirm", "done"}
  BY DEF AfterOutcome
<1>1. CASE Save(m)
  <2>1. sender' \in [Message -> SenderState]
    <3>1. [sender[m] EXCEPT !.pc = "send"] \in SenderState
      BY <1>s DEF SenderState
    <3>2. QED
      BY <1>1, <3>1, TaskStates DEF Save
  <2>2. status' \in [Message -> Status \cup {NoRow}]
    BY <1>1 DEF Save, Status
  <2>3. QED
    BY <1>1, <2>1, <2>2 DEF Save
<1>2. CASE SendError(m)
  <2>1. sender' \in [Message -> SenderState]
    BY <1>2 DEF SendError, SenderState
  <2>2. QED
    BY <1>2, <2>1 DEF SendError
<1>3. CASE SenderStoreIds(m)
  <2>1. sender' \in [Message -> SenderState]
    BY <1>3 DEF SenderStoreIds, SenderState, Id
  <2>2. PICK wb \in Id, wa \in Id : UpdateIds(m, wb, wa)
    BY <1>3, <1>s DEF SenderStoreIds, Id
  <2>3. QED
    BY <1>3, <2>1, <2>2, UpdateTypes DEF SenderStoreIds, UpdateIds
<1>4. CASE SenderRead(m)
  <2>1. sender' \in [Message -> SenderState]
    BY <1>4 DEF SenderRead, SenderState
  <2>2. QED
    BY <1>4, <1>s, <2>1, UpdateTypes DEF SenderRead
<1>5. CASE SenderWrite(m)
  <2>1. PICK p \in {"mark", "confirm", "done"} :
          sender' = [sender EXCEPT ![m] = [@ EXCEPT !.seen = NoRow, !.pc = p]]
    BY <1>5, <1>a DEF SenderWrite
  <2>2. sender' \in [Message -> SenderState]
    BY <2>1 DEF SenderState
  <2>3. RecordWrite(m, sender[m].seen, sender[m].st)
    BY <1>5 DEF SenderWrite
  <2>4. QED
    BY <1>5, <1>s, <2>2, <2>3, RecordTypes DEF SenderWrite
<1>6. CASE SenderMarkSent(m)
  <2>1. sender' \in [Message -> SenderState]
    BY <1>6, <1>a DEF SenderMarkSent, SenderState
  <2>2. UpdateStatus(m, "SENT", TRUE) /\ "SENT" \in Status
    BY <1>6 DEF SenderMarkSent, Status
  <2>3. QED
    BY <1>6, <2>1, <2>2, UpdateTypes DEF SenderMarkSent, UpdateStatus
<1>7. CASE Confirm(m)
  <2>1. sender' \in [Message -> SenderState]
    BY <1>7, TaskStates DEF Confirm
  <2>2. confirmed' \in [Message -> BOOLEAN]
    BY <1>7 DEF Confirm
  <2>3. QED
    BY <1>7, <2>1, <2>2 DEF Confirm
<1>8. CASE SenderDbError(m)
  <2>1. [IdleSender EXCEPT !.pc = "read", !.st = "FAILED"] \in SenderState
    BY TaskStates DEF SenderState
  <2>2. sender' \in [Message -> SenderState]
    BY <1>8, <2>1, TaskStates DEF SenderDbError
  <2>3. QED
    BY <1>8, <2>2 DEF SenderDbError
<1>9. ASSUME NEW k \in Copy, SendLost(m, k) PROVE TypeOK'
  BY <1>9, UpdateTypes DEF SendLost
<1>10. ASSUME NEW k \in Copy, NEW id \in Id, SendOk(m, k, id) PROVE TypeOK'
  <2>1. sender' \in [Message -> SenderState]
    BY <1>10 DEF SendOk, SenderState
  <2>2. QED
    BY <1>10, <2>1, UpdateTypes DEF SendOk
<1>11. QED
  BY <1>1, <1>2, <1>3, <1>4, <1>5, <1>6, <1>7, <1>8, <1>9, <1>10 DEF SenderStep, Id

\* Every step of a sweep preserves the types.
LEMMA SweepTypes ==
    ASSUME TypeOK, NEW j \in Sweeper, SweepStep(j)
    PROVE  TypeOK'
<1> USE DEF TypeOK, OthersOfSweep, row, made
<1>s. sweep[j] \in SweepState /\ sweep[j].id \in Id
  BY DEF SweepState
<1>f. \A m \in Message : FailedAs(j, m) \in Status /\ Attempt(j, m) \in Nat
  BY <1>s DEF FailedAs, Attempt, SweepState, Status
<1>n. ASSUME NEW m \in Message, NextMessage(j, m)
      PROVE  sweep' \in [Sweeper -> SweepState]
  <2>1. [sweep[j] EXCEPT !.pc = "send", !.todo = @ \ {m}, !.id = NoId] \in SweepState
    BY <1>s DEF SweepState, Id
  <2>2. QED
    BY <1>n, <2>1, TaskStates DEF NextMessage
<1>1. CASE Scan(j)
  <2>1. PICK recent : sweep' = [sweep EXCEPT ![j] =
                [pc |-> "send", todo |-> Batch(MaxRetries[j], recent), id |-> NoId,
                 snap |-> [m \in Message |-> IF m \in Batch(MaxRetries[j], recent)
                                             THEN retryCount[m] ELSE 0]]]
    BY <1>1 DEF Scan
  <2>2. Batch(MaxRetries[j], recent) \in SUBSET Message
    BY DEF Batch, Retriable
  <2>3. [pc |-> "send", todo |-> Batch(MaxRetries[j], recent), id |-> NoId,
         snap |-> [m \in Message |-> IF m \in Batch(MaxRetries[j], recent)
                                     THEN retryCount[m] ELSE 0]] \in SweepState
    BY <2>2 DEF SweepState, Id
  <2>4. sweep' \in [Sweeper -> SweepState]
    BY <2>1, <2>3
  <2>5. QED
    BY <1>1, <2>4 DEF Scan
<1>2. CASE SweepDbError(j)
  <2>1. [sweep[j] EXCEPT !.pc = "fail", !.id = NoId] \in SweepState
    BY <1>s DEF SweepState, Id
  <2>2. sweep' \in [Sweeper -> SweepState]
    BY <1>2, <2>1, TaskStates DEF SweepDbError
  <2>3. QED
    BY <1>2, <2>2 DEF SweepDbError
<1>3. ASSUME NEW m \in Message, RetryError(j, m) PROVE TypeOK'
  <2>1. sweep' \in [Sweeper -> SweepState]
    BY <1>3 DEF RetryError, SweepState
  <2>2. QED
    BY <1>3, <2>1 DEF RetryError
<1>4. ASSUME NEW m \in Message, RetryStoreIds(j, m) PROVE TypeOK'
  <2>1. sweep' \in [Sweeper -> SweepState]
    BY <1>4 DEF RetryStoreIds, SweepState, Id
  <2>2. PICK wb \in Id, wa \in Id : UpdateIds(m, wb, wa)
    BY <1>4, <1>s DEF RetryStoreIds, Id
  <2>3. QED
    BY <1>4, <2>1, <2>2, UpdateTypes DEF RetryStoreIds, UpdateIds
<1>5. ASSUME NEW m \in Message, RetryAudit(j, m) PROVE TypeOK'
  <2>1. sweep' \in [Sweeper -> SweepState]
    BY <1>5 DEF RetryAudit, SweepState
  <2>2. AppendTimeline(m, "SENT") /\ "SENT" \in Status
    BY <1>5 DEF RetryAudit, Status
  <2>3. QED
    BY <1>5, <2>1, <2>2, UpdateTypes DEF RetryAudit
<1>6. ASSUME NEW m \in Message, RetryMarkSent(j, m) PROVE TypeOK'
  <2>1. sweep' \in [Sweeper -> SweepState]
    BY <1>6, <1>n DEF RetryMarkSent
  <2>2. UpdateStatus(m, "SENT", TRUE) /\ "SENT" \in Status
    BY <1>6 DEF RetryMarkSent, Status
  <2>3. QED
    BY <1>6, <2>1, <2>2, UpdateTypes DEF RetryMarkSent, UpdateStatus
<1>7. ASSUME NEW m \in Message, RetryFail(j, m) PROVE TypeOK'
  <2>1. sweep' \in [Sweeper -> SweepState]
    BY <1>7 DEF RetryFail, SweepState
  <2>2. /\ retryCount' \in [Message -> Nat]
        /\ status' \in [Message -> Status \cup {NoRow}]
    BY <1>7, <1>f DEF RetryFail
  <2>3. QED
    BY <1>7, <2>1, <2>2 DEF RetryFail
<1>8. ASSUME NEW m \in Message, RetryFailAudit(j, m) PROVE TypeOK'
  <2>1. sweep' \in [Sweeper -> SweepState]
    BY <1>8, <1>n DEF RetryFailAudit
  <2>2. QED
    BY <1>8, <1>f, <2>1, UpdateTypes DEF RetryFailAudit
<1>9. ASSUME NEW m \in Message, NEW k \in Copy, RetryLost(j, m, k) PROVE TypeOK'
  BY <1>9, UpdateTypes DEF RetryLost
<1>10. ASSUME NEW m \in Message, NEW k \in Copy, NEW id \in Id, RetryOk(j, m, k, id)
       PROVE TypeOK'
  <2>1. sweep' \in [Sweeper -> SweepState]
    BY <1>10 DEF RetryOk, SweepState
  <2>2. QED
    BY <1>10, <2>1, UpdateTypes DEF RetryOk
<1>11. QED
  BY <1>1, <1>2, <1>3, <1>4, <1>5, <1>6, <1>7, <1>8, <1>9, <1>10
     DEF SweepStep, SweepProgress, Id

\* The words a callback reports are statuses of the enum.
LEMMA CanonicalIsStatus ==
    ASSUME NEW f \in Fate, NEW word \in Reported(f)
    PROVE  Canonical(word) \in Status
BY DEF Reported, Canonical, Status, Fate

\* Every step of a callback preserves the types.
LEMMA CallbackTypes ==
    ASSUME TypeOK, NEW h \in Handler, CallbackStep(h)
    PROVE  TypeOK'
<1> USE DEF TypeOK, OthersOfCallback, row, made
<1>1. CASE Reject(h)
  <2>1. callback' \in [Handler -> CallbackState]
    BY <1>1, TaskStates DEF Reject
  <2>2. QED
    BY <1>1, <2>1 DEF Reject
<1>2. CASE CallbackDbError(h)
  <2>1. callback' \in [Handler -> CallbackState]
    BY <1>2, TaskStates DEF CallbackDbError
  <2>2. QED
    BY <1>2, <2>1 DEF CallbackDbError
<1>3. ASSUME NEW m \in Message, CallbackRead(h, m) PROVE TypeOK'
  <2>1. callback' \in [Handler -> CallbackState]
    BY <1>3 DEF CallbackRead, CallbackState
  <2>2. callback[h].st \in Status
    BY DEF CallbackState
  <2>3. QED
    BY <1>3, <2>1, <2>2, UpdateTypes DEF CallbackRead
<1>4. ASSUME NEW m \in Message, CallbackWrite(h, m) PROVE TypeOK'
  <2>1. callback' \in [Handler -> CallbackState]
    BY <1>4, TaskStates DEF CallbackWrite
  <2>2. callback[h].st \in Status /\ RecordWrite(m, callback[h].seen, callback[h].st)
    BY <1>4 DEF CallbackWrite, CallbackState
  <2>3. QED
    BY <1>4, <2>1, <2>2, RecordTypes DEF CallbackWrite
<1>5. ASSUME NEW m \in Message, NEW k \in Copy, Lookup(h, m, k) PROVE TypeOK'
  <2>1. PICK word \in Reported(fate[m][k]) :
          callback' = [callback EXCEPT ![h] =
              [pc   |-> IF whatsboxId[m] = k THEN "read" ELSE "threw",
               msg  |-> m, id |-> k, st |-> Canonical(word), seen |-> NoRow]]
    BY <1>5 DEF Lookup
  <2>2. Canonical(word) \in Status
    BY <2>1, CanonicalIsStatus
  <2>3. callback' \in [Handler -> CallbackState]
    BY <2>1, <2>2 DEF CallbackState, Id
  <2>4. QED
    BY <1>5, <2>3 DEF Lookup
<1>6. QED
  BY <1>1, <1>2, <1>3, <1>4, <1>5 DEF CallbackStep

\* The provider and a kill preserve the types.
LEMMA OtherTypes ==
    ASSUME TypeOK,
           \/ \E m \in Message, k \in Copy : Advance(m, k)
           \/ Crash
           \/ UNCHANGED vars
    PROVE  TypeOK'
<1> USE DEF TypeOK, row, made
<1>1. ASSUME NEW m \in Message, NEW k \in Copy, Advance(m, k) PROVE TypeOK'
  <2>1. fate' \in [Message -> [Copy -> Fate]]
    BY <1>1 DEF Advance
  <2>2. QED
    BY <1>1, <2>1 DEF Advance
<1>2. CASE Crash
  <2>1. crashes' \in 0..MaxCrashes
    BY <1>2, CrashAssumption DEF Crash
  <2>2. /\ sender' \in [Message -> SenderState]
        /\ sweep' \in [Sweeper -> SweepState]
        /\ callback' \in [Handler -> CallbackState]
    BY <1>2, TaskStates DEF Crash
  <2>3. QED
    BY <1>2, <2>1, <2>2 DEF Crash
<1>3. CASE UNCHANGED vars
  BY <1>3 DEF vars
<1>4. QED
  BY <1>1, <1>2, <1>3

\* Every reachable state of the message rows and of the tasks that work on them is
\* well typed: no path of conversation.service.js, of the job or of the handlers
\* leaves a status outside the enum or a retryCount that is not a count.
THEOREM TypeCorrect == Spec => []TypeOK
<1>1. Init => TypeOK
  <2> SUFFICES ASSUME Init PROVE TypeOK
    OBVIOUS
  <2>1. /\ sender \in [Message -> SenderState]
        /\ sweep \in [Sweeper -> SweepState]
        /\ callback \in [Handler -> CallbackState]
    BY TaskStates DEF Init
  <2>2. fate \in [Message -> [Copy -> Fate]]
    BY DEF Init, Fate
  <2>3. /\ whatsboxId \in [Message -> Id]
        /\ wamid \in [Message -> Id]
        /\ timeline \in [Message -> SUBSET Status]
    BY DEF Init, Id
  <2>4. crashes \in 0..MaxCrashes
    BY CrashAssumption DEF Init
  <2>5. QED
    BY <2>1, <2>2, <2>3, <2>4 DEF Init, TypeOK
<1>2. TypeOK /\ [Next]_vars => TypeOK'
  BY SenderTypes, SweepTypes, CallbackTypes, OtherTypes DEF Next
<1>3. QED
  BY <1>1, <1>2, PTL DEF Spec

-----------------------------------------------------------------------------
(***************************************************************************)
(* What a row shows is what happened: the safety of MessageDelivery, for   *)
(* every number of messages, copies, job instances and handlers.           *)
(*                                                                         *)
(* A writer decides what to write from what it learnt some awaits ago, so  *)
(* the invariants are not inductive by themselves.  Evidence says what each *)
(* task in flight has learnt; it survives the steps of the others because  *)
(* the provider never takes back what it reported and history rows are     *)
(* only appended.                                                          *)
(***************************************************************************)

\* Nothing the provider reported is taken back ...
FateForward ==
    \A m \in Message, k \in Copy :
        /\ fate[m][k] # "none" => fate'[m][k] # "none"
        /\ fate[m][k] \in {"delivered", "read"} => fate'[m][k] \in {"delivered", "read"}
        /\ fate[m][k] = "read" => fate'[m][k] = "read"

\* ... and no history row is removed.
Forward == FateForward /\ \A m \in Message : timeline[m] \subseteq timeline'[m]

\* Taking one more copy, or moving one on, goes forward.
LEMMA FateEffects ==
    ASSUME TypeOK, NEW m \in Message, NEW l \in Copy,
           UNCHANGED fate \/ Accept(m, l) \/ Advance(m, l)
    PROVE  FateForward
<1>1. CASE UNCHANGED fate
  BY <1>1 DEF FateForward
<1>2. CASE Accept(m, l)
  BY <1>2 DEF TypeOK, Accept, FateForward
<1>3. CASE Advance(m, l)
  <2>1. PICK f \in Fate :
          /\ \/ fate[m][l] = "accepted"  /\ f \in {"delivered", "failed"}
             \/ fate[m][l] = "delivered" /\ f = "read"
          /\ fate' = [fate EXCEPT ![m][l] = f]
    BY <1>3 DEF Advance
  <2>2. QED
    BY <2>1 DEF TypeOK, FateForward
<1>4. QED
  BY <1>1, <1>2, <1>3

\* So does leaving the provider alone.
LEMMA NoEffect == ASSUME UNCHANGED fate PROVE FateForward
BY DEF FateForward

\* Appending to the history, or leaving it alone, removes nothing from it.
LEMMA TimelineEffects ==
    ASSUME TypeOK, NEW m \in Message, NEW st, UNCHANGED timeline \/ AppendTimeline(m, st)
    PROVE  \A n \in Message : timeline[n] \subseteq timeline'[n]
BY DEF TypeOK, AppendTimeline

\* What vouches for a status keeps vouching for it.
LEMMA ShownForward ==
    ASSUME FateForward, NEW m \in Message, NEW st, Shown(m, st)
    PROVE  /\ st \in {"SENT", "DELIVERED", "READ"} => Accepted(m)'
           /\ st = "DELIVERED" => \E k \in Copy : fate'[m][k] \in {"delivered", "read"}
           /\ st = "READ"      => \E k \in Copy : fate'[m][k] = "read"
BY DEF FateForward, Shown, Accepted

LEMMA AcceptedForward ==
    ASSUME FateForward, NEW m \in Message, Accepted(m)
    PROVE  Accepted(m)'
BY DEF FateForward, Accepted

\* The parts of Evidence survive the steps of the others.
LEMMA RowKept ==
    ASSUME TypeOK, RowEvidence, Forward, UNCHANGED status
    PROVE  RowEvidence'
BY DEF TypeOK, RowEvidence, Forward, FateForward, Shown, Accepted

LEMMA SenderKept ==
    ASSUME TypeOK, SenderEvidence, Forward, UNCHANGED <<sender, confirmed>>
    PROVE  SenderEvidence'
BY AcceptedForward DEF SenderEvidence, SenderKnows, Forward

LEMMA SweepKept ==
    ASSUME TypeOK, SweepEvidence, Forward, UNCHANGED sweep
    PROVE  SweepEvidence'
BY AcceptedForward DEF SweepEvidence, SweepKnows, Forward, Current

LEMMA CallbackKept ==
    ASSUME TypeOK, CallbackEvidence, Forward, UNCHANGED callback
    PROVE  CallbackEvidence'
BY ShownForward DEF CallbackEvidence, CallbackKnows, Forward, Shown

\* Only one message is the current one of a sweep.
LEMMA OneCurrent ==
    ASSUME TypeOK, NEW j \in Sweeper, NEW m \in Message, NEW n \in Message,
           Current(j, m), Current(j, n)
    PROVE  m = n
BY MessageAssumption DEF Current

\* A row may be moved to a status that is vouched for and recorded.
LEMMA RowMoved ==
    ASSUME TypeOK, RowEvidence, Forward, NEW m \in Message, NEW st \in Status,
           status' = [status EXCEPT ![m] = st],
           Shown(m, st), st \in {"SENT", "DELIVERED", "READ"} => st \in timeline[m]
    PROVE  RowEvidence'
<1> SUFFICES ASSUME NEW n \in Message
             PROVE  /\ Shown(n, status[n])'
                    /\ status'[n] \in {"SENT", "DELIVERED", "READ"} => status'[n] \in timeline'[n]
  BY DEF RowEvidence
<1>1. CASE n = m
  BY <1>1, ShownForward DEF TypeOK, Forward, Shown
<1>2. CASE n # m
  <2>1. status'[n] = status[n]
    BY <1>2 DEF TypeOK
  <2>2. QED
    BY <2>1, ShownForward DEF RowEvidence, Forward, Shown
<1>3. QED
  BY <1>1, <1>2

\* recordMessageStatus moves it to such a status, or leaves it.
LEMMA RowRecorded ==
    ASSUME TypeOK, RowEvidence, Forward, NEW m \in Message, NEW st \in Status, NEW seen,
           RecordWrite(m, seen, st),
           Shown(m, st), st \in timeline[m]
    PROVE  RowEvidence'
<1>1. CASE MovesRow(seen, st)
  BY <1>1, RowMoved DEF RecordWrite, UpdateStatus
<1>2. CASE ~MovesRow(seen, st)
  BY <1>2, RowKept DEF RecordWrite, row
<1>3. QED
  BY <1>1, <1>2

\* One request moves; the others know what they knew.
LEMMA SenderMoved ==
    ASSUME TypeOK, SenderEvidence, Forward, NEW m \in Message,
           \A n \in Message \ {m} : sender'[n] = sender[n] /\ confirmed'[n] = confirmed[n],
           SenderKnows(m)'
    PROVE  SenderEvidence'
<1> SUFFICES ASSUME NEW n \in Message PROVE SenderKnows(n)'
  BY DEF SenderEvidence
<1>1. CASE n = m
  BY <1>1
<1>2. CASE n # m
  BY <1>2, AcceptedForward DEF SenderEvidence, SenderKnows, Forward
<1>3. QED
  BY <1>1, <1>2

\* One sweep moves, and knows enough of its current message.
LEMMA SweepMoved ==
    ASSUME TypeOK, SweepEvidence, Forward, NEW j \in Sweeper,
           \A i \in Sweeper \ {j} : sweep'[i] = sweep[i],
           \A m \in Message : SweepKnows(j, m)'
    PROVE  SweepEvidence'
<1> SUFFICES ASSUME NEW i \in Sweeper, NEW m \in Message PROVE SweepKnows(i, m)'
  BY DEF SweepEvidence
<1>1. CASE i = j
  BY <1>1
<1>2. CASE i # j
  BY <1>2, AcceptedForward DEF SweepEvidence, SweepKnows, Forward, Current
<1>3. QED
  BY <1>1, <1>2

\* One callback moves.
LEMMA CallbackMoved ==
    ASSUME TypeOK, CallbackEvidence, Forward, NEW h \in Handler,
           \A i \in Handler \ {h} : callback'[i] = callback[i],
           CallbackKnows(h)'
    PROVE  CallbackEvidence'
<1> SUFFICES ASSUME NEW i \in Handler PROVE CallbackKnows(i)'
  BY DEF CallbackEvidence
<1>1. CASE i = h
  BY <1>1
<1>2. CASE i # h
  <2>1. callback'[i] = callback[i] /\ CallbackKnows(i) /\ FateForward
    BY <1>2 DEF CallbackEvidence, Forward
  <2>2. CASE callback[i].pc \in {"read", "write"}
    <3>1. callback[i].msg \in Message /\ Shown(callback[i].msg, callback[i].st)
      BY <2>1, <2>2 DEF CallbackKnows
    <3>2. Shown(callback[i].msg, callback[i].st)'
      BY <2>1, <3>1, ShownForward DEF Shown
    <3>3. QED
      BY <2>1, <3>1, <3>2 DEF CallbackKnows, Forward
  <2>3. CASE callback[i].pc \notin {"read", "write"}
    BY <2>1, <2>3 DEF CallbackKnows
  <2>4. QED
    BY <2>2, <2>3
<1>3. QED
  BY <1>1, <1>2

\* A step of a request keeps Evidence.
LEMMA SenderEvident ==
    ASSUME TypeOK, Evidence, NEW m \in Message, SenderStep(m)
    PROVE  Evidence'
<1> DEFINE Frame ==
      \A n \in Message \ {m} : sender'[n] = sender[n] /\ confirmed'[n] = confirmed[n]
<1> USE DEF Evidence
<1> SUFFICES Forward /\ RowEvidence' /\ Frame /\ SenderKnows(m)'
  <2>1. UNCHANGED <<sweep, callback>>
    BY DEF SenderStep, Save, SendError, SenderStoreIds, SenderRead, SenderWrite, SenderMarkSent,
           Confirm, SenderDbError, SendLost, SendOk, OthersOfSender
  <2>2. QED
    BY <2>1, SenderMoved, SweepKept, CallbackKept
<1>1. CASE Save(m)
  <2>1. Forward
    BY <1>1, NoEffect DEF Forward, Save
  <2>2. RowEvidence'
    <3>1. status' = [status EXCEPT ![m] = "PENDING"] /\ Shown(m, "PENDING")
      BY <1>1 DEF Save, Shown
    <3>2. QED
      BY <2>1, <3>1, RowMoved DEF Status
  <2>3. Frame
    BY <1>1 DEF TypeOK, Save
  <2>4. SenderKnows(m)'
    <3>1. sender'[m].pc \in {"send", "done"}
      BY <1>1 DEF TypeOK, SenderState, Save, DoneSender, IdleSender
    <3>2. QED
      BY <1>1, <3>1 DEF SenderEvidence, SenderKnows, Save
  <2>5. QED
    BY <2>1, <2>2, <2>3, <2>4
<1>2. CASE SendError(m)
  <2>1. Forward
    BY <1>2, NoEffect, TimelineEffects DEF Forward, SendError
  <2>2. RowEvidence'
    BY <1>2, <2>1, RowKept DEF SendError, row
  <2>3. Frame
    BY <1>2 DEF TypeOK, Accept, SendError
  <2>4. SenderKnows(m)'
    BY <1>2, <2>1, AcceptedForward DEF TypeOK, Forward, SenderState, SenderEvidence, SenderKnows, SendError
  <2>5. QED
    BY <2>1, <2>2, <2>3, <2>4
<1>3. CASE SenderStoreIds(m)
  <2>1. Forward
    BY <1>3, NoEffect, TimelineEffects DEF Forward, SenderStoreIds
  <2>2. RowEvidence'
    BY <1>3, <2>1, RowKept DEF SenderStoreIds, UpdateIds
  <2>3. Frame
    BY <1>3 DEF TypeOK, Accept, SenderStoreIds
  <2>4. SenderKnows(m)'
    BY <1>3, <2>1, AcceptedForward DEF TypeOK, Forward, SenderState, SenderEvidence, SenderKnows, SenderStoreIds
  <2>5. QED
    BY <2>1, <2>2, <2>3, <2>4
<1>4. CASE SenderRead(m)
  <2>1. Forward
    BY <1>4, NoEffect, TimelineEffects DEF Forward, SenderRead
  <2>2. RowEvidence'
    BY <1>4, <2>1, RowKept DEF SenderRead, row
  <2>3. Frame
    BY <1>4 DEF TypeOK, Accept, SenderRead
  <2>4. SenderKnows(m)'
    BY <1>4, <2>1, AcceptedForward DEF TypeOK, Forward, SenderState, SenderEvidence, SenderKnows, SenderRead, AppendTimeline
  <2>5. QED
    BY <2>1, <2>2, <2>3, <2>4
<1>5. CASE SenderWrite(m)
  <2>1. Forward
    BY <1>5, NoEffect DEF Forward, SenderWrite
  <2>2. RowEvidence'
    <3>1. sender[m].st \in {"SENT", "FAILED"} /\ sender[m].st \in timeline[m]
      BY <1>5 DEF TypeOK, SenderState, SenderEvidence, SenderKnows, SenderWrite
    <3>2. Shown(m, sender[m].st)
      BY <1>5, <3>1 DEF SenderEvidence, SenderKnows, SenderWrite, Shown
    <3>3. QED
      BY <1>5, <2>1, <3>1, <3>2, RowRecorded DEF SenderWrite, Status
  <2>3. Frame
    BY <1>5 DEF TypeOK, SenderWrite
  <2>4. SenderKnows(m)'
    BY <1>5, <2>1, AcceptedForward
       DEF TypeOK, Forward, SenderState, SenderEvidence, SenderKnows, SenderWrite, AfterOutcome
  <2>5. QED
    BY <2>1, <2>2, <2>3, <2>4
<1>6. CASE SenderMarkSent(m)
  <2>1. Forward
    BY <1>6, NoEffect DEF Forward, SenderMarkSent
  <2>2. RowEvidence'
    <3>1. Shown(m, "SENT") /\ "SENT" \in timeline[m]
      BY <1>6 DEF SenderEvidence, SenderKnows, SenderMarkSent, Shown
    <3>2. QED
      BY <1>6, <2>1, <3>1, RowMoved DEF SenderMarkSent, UpdateStatus, Status
  <2>3. Frame
    BY <1>6 DEF TypeOK, SenderMarkSent
  <2>4. SenderKnows(m)'
    BY <1>6, <2>1, AcceptedForward
       DEF TypeOK, Forward, SenderState, SenderEvidence, SenderKnows, SenderMarkSent, AfterOutcome
  <2>5. QED
    BY <2>1, <2>2, <2>3, <2>4
<1>7. CASE Confirm(m)
  <2>1. Forward
    BY <1>7, NoEffect, TimelineEffects DEF Forward, Confirm
  <2>2. RowEvidence'
    BY <1>7, <2>1, RowKept DEF Confirm, row
  <2>3. Frame
    BY <1>7 DEF TypeOK, Accept, Confirm
  <2>4. SenderKnows(m)'
    BY <1>7, <2>1, AcceptedForward DEF TypeOK, Forward, SenderState, SenderEvidence, SenderKnows, Confirm, DoneSender, IdleSender
  <2>5. QED
    BY <2>1, <2>2, <2>3, <2>4
<1>8. CASE SenderDbError(m)
  <2>1. Forward
    BY <1>8, NoEffect, TimelineEffects DEF Forward, SenderDbError
  <2>2. RowEvidence'
    BY <1>8, <2>1, RowKept DEF SenderDbError, row
  <2>3. Frame
    BY <1>8 DEF TypeOK, Accept, SenderDbError
  <2>4. SenderKnows(m)'
    BY <1>8, <2>1, AcceptedForward DEF TypeOK, Forward, SenderState, SenderEvidence, SenderKnows, SenderDbError, DoneSender, IdleSender
  <2>5. QED
    BY <2>1, <2>2, <2>3, <2>4
<1>9. ASSUME NEW k \in Copy, SendLost(m, k)
      PROVE  Forward /\ RowEvidence' /\ Frame /\ SenderKnows(m)'
  <2>1. Forward
    BY <1>9, FateEffects DEF Forward, SendLost
  <2>2. RowEvidence'
    BY <1>9, <2>1, RowKept DEF SendLost, row
  <2>3. SenderKnows(m)'
    BY <1>9, <2>1, AcceptedForward DEF SendLost, SenderEvidence, SenderKnows
  <2>4. QED
    BY <1>9, <2>1, <2>2, <2>3 DEF SendLost
<1>10. ASSUME NEW k \in Copy, NEW id \in Id, SendOk(m, k, id)
       PROVE  Forward /\ RowEvidence' /\ Frame /\ SenderKnows(m)'
  <2>1. Forward
    BY <1>10, FateEffects DEF Forward, SendOk
  <2>2. RowEvidence'
    BY <1>10, <2>1, RowKept DEF SendOk, row
  <2>3. Frame
    BY <1>10 DEF TypeOK, SendOk
  <2>4. Accepted(m)'
    BY <1>10 DEF TypeOK, SendOk, Accept, Accepted
  <2>5. sender'[m].pc = "ids"
    BY <1>10 DEF TypeOK, SenderState, SendOk
  <2>6. SenderKnows(m)'
    BY <1>10, <2>4, <2>5 DEF SenderEvidence, SenderKnows, SendOk
  <2>7. QED
    BY <2>1, <2>2, <2>3, <2>6
<1>11. QED
  BY <1>1, <1>2, <1>3, <1>4, <1>5, <1>6, <1>7, <1>8, <1>9, <1>10 DEF SenderStep, Id

\* A sweep that goes to its next message, or ends, knows nothing yet.
LEMMA NextKnows ==
    ASSUME TypeOK, NEW j \in Sweeper, NEW m \in Message, NextMessage(j, m)
    PROVE  /\ \A i \in Sweeper \ {j} : sweep'[i] = sweep[i]
           /\ \A n \in Message : SweepKnows(j, n)'
<1>1. sweep'[j].pc \in {"idle", "send"} /\ \A i \in Sweeper \ {j} : sweep'[i] = sweep[i]
  BY DEF TypeOK, SweepState, NextMessage, IdleSweep
<1>2. QED
  BY <1>1 DEF SweepKnows

\* A step of a sweep keeps Evidence.
LEMMA SweepEvident ==
    ASSUME TypeOK, Evidence, NEW j \in Sweeper, SweepStep(j)
    PROVE  Evidence'
<1> DEFINE Goal == /\ Forward /\ RowEvidence'
                   /\ \A i \in Sweeper \ {j} : sweep'[i] = sweep[i]
                   /\ \A n \in Message : SweepKnows(j, n)'
<1> USE DEF Evidence
<1> SUFFICES Goal
  <2>1. UNCHANGED <<sender, confirmed, callback>>
    BY DEF SweepStep, SweepProgress, SweepDbError, Scan, RetryOk, RetryLost, RetryError,
           RetryStoreIds, RetryAudit, RetryMarkSent, RetryFail, RetryFailAudit, OthersOfSweep
  <2>2. QED
    BY <2>1, SenderKept, SweepMoved, CallbackKept
<1>1. CASE Scan(j)
  <2>1. Forward
    BY <1>1, NoEffect DEF Forward, Scan
  <2>2. RowEvidence'
    BY <1>1, <2>1, RowKept DEF Scan, row
  <2>3. PICK s : s.pc = "send" /\ sweep' = [sweep EXCEPT ![j] = s]
    BY <1>1 DEF Scan
  <2>4. QED
    BY <2>1, <2>2, <2>3 DEF TypeOK, SweepKnows
<1>2. CASE SweepDbError(j)
  <2>1. Forward
    BY <1>2, NoEffect DEF Forward, SweepDbError
  <2>2. RowEvidence'
    BY <1>2, <2>1, RowKept DEF SweepDbError, row
  <2>3. sweep'[j].pc \in {"fail", "idle"} /\ \A i \in Sweeper \ {j} : sweep'[i] = sweep[i]
    <3>1. CASE sweep' = [sweep EXCEPT ![j] = [@ EXCEPT !.pc = "fail", !.id = NoId]]
      BY <3>1 DEF TypeOK, SweepState
    <3>2. CASE sweep' = [sweep EXCEPT ![j] = IdleSweep]
      BY <3>2 DEF TypeOK, IdleSweep
    <3>3. QED
      BY <1>2, <3>1, <3>2 DEF SweepDbError
  <2>4. QED
    BY <2>1, <2>2, <2>3 DEF SweepKnows
<1>3. ASSUME NEW m \in Message, RetryError(j, m) PROVE Goal
  <2>1. Forward
    BY <1>3, NoEffect DEF Forward, RetryError
  <2>2. RowEvidence'
    BY <1>3, <2>1, RowKept DEF RetryError, row
  <2>3. sweep'[j].pc = "fail" /\ \A i \in Sweeper \ {j} : sweep'[i] = sweep[i]
    BY <1>3 DEF TypeOK, SweepState, RetryError
  <2>4. QED
    BY <2>1, <2>2, <2>3 DEF SweepKnows
<1>4. ASSUME NEW m \in Message, RetryStoreIds(j, m) PROVE Goal
  <2>1. Forward
    BY <1>4, NoEffect DEF Forward, RetryStoreIds
  <2>2. RowEvidence'
    BY <1>4, <2>1, RowKept DEF RetryStoreIds, UpdateIds
  <2>3. /\ sweep'[j].pc = "audit" /\ sweep'[j].todo = sweep[j].todo
        /\ \A i \in Sweeper \ {j} : sweep'[i] = sweep[i]
    BY <1>4 DEF TypeOK, SweepState, RetryStoreIds
  <2>4. Accepted(m)'
    BY <1>4, <2>1, AcceptedForward DEF SweepEvidence, SweepKnows, RetryStoreIds, Forward
  <2>5. \A n \in Message : Current(j, n)' => n = m
    BY <1>4, <2>3, OneCurrent DEF Current, RetryStoreIds
  <2>6. QED
    BY <2>1, <2>2, <2>3, <2>4, <2>5 DEF SweepKnows
<1>5. ASSUME NEW m \in Message, RetryAudit(j, m) PROVE Goal
  <2>1. Forward
    BY <1>5, NoEffect, TimelineEffects DEF Forward, RetryAudit
  <2>2. RowEvidence'
    BY <1>5, <2>1, RowKept DEF RetryAudit, row
  <2>3. /\ sweep'[j].pc = "mark" /\ sweep'[j].todo = sweep[j].todo
        /\ \A i \in Sweeper \ {j} : sweep'[i] = sweep[i]
    BY <1>5 DEF TypeOK, SweepState, RetryAudit
  <2>4. Accepted(m)' /\ "SENT" \in timeline'[m]
    BY <1>5, <2>1, AcceptedForward
       DEF TypeOK, SweepEvidence, SweepKnows, RetryAudit, AppendTimeline, Forward
  <2>5. \A n \in Message : Current(j, n)' => n = m
    BY <1>5, <2>3, OneCurrent DEF Current, RetryAudit
  <2>6. QED
    BY <2>1, <2>2, <2>3, <2>4, <2>5 DEF SweepKnows
<1>6. ASSUME NEW m \in Message, RetryMarkSent(j, m) PROVE Goal
  <2>1. Forward
    BY <1>6, NoEffect DEF Forward, RetryMarkSent
  <2>2. Shown(m, "SENT") /\ "SENT" \in timeline[m]
    BY <1>6 DEF SweepEvidence, SweepKnows, RetryMarkSent, Shown
  <2>3. RowEvidence'
    BY <1>6, <2>1, <2>2, RowMoved DEF RetryMarkSent, UpdateStatus, Status
  <2>4. QED
    BY <1>6, <2>1, <2>3, NextKnows DEF RetryMarkSent
<1>7. ASSUME NEW m \in Message, RetryFail(j, m) PROVE Goal
  <2>1. Forward
    BY <1>7, NoEffect DEF Forward, RetryFail
  <2>2. FailedAs(j, m) \in {"PENDING", "FAILED"}
    BY DEF FailedAs
  <2>3. RowEvidence'
    <3>1. status' = [status EXCEPT ![m] = FailedAs(j, m)] /\ Shown(m, FailedAs(j, m))
      BY <1>7, <2>2 DEF RetryFail, Shown
    <3>2. QED
      BY <2>1, <2>2, <3>1, RowMoved DEF Status
  <2>4. sweep'[j].pc = "auditFail" /\ \A i \in Sweeper \ {j} : sweep'[i] = sweep[i]
    BY <1>7 DEF TypeOK, SweepState, RetryFail
  <2>5. QED
    BY <2>1, <2>3, <2>4 DEF SweepKnows
<1>8. ASSUME NEW m \in Message, RetryFailAudit(j, m) PROVE Goal
  <2>1. Forward
    BY <1>8, NoEffect, TimelineEffects DEF Forward, RetryFailAudit
  <2>2. RowEvidence'
    BY <1>8, <2>1, RowKept DEF RetryFailAudit, row
  <2>3. QED
    BY <1>8, <2>1, <2>2, NextKnows DEF RetryFailAudit
<1>9. ASSUME NEW m \in Message, NEW k \in Copy, RetryLost(j, m, k) PROVE Goal
  <2>1. Forward
    BY <1>9, FateEffects DEF Forward, RetryLost
  <2>2. RowEvidence'
    BY <1>9, <2>1, RowKept DEF RetryLost, row
  <2>3. SweepEvidence'
    BY <1>9, <2>1, SweepKept DEF RetryLost
  <2>4. QED
    BY <1>9, <2>1, <2>2, <2>3 DEF RetryLost, SweepEvidence
<1>10. ASSUME NEW m \in Message, NEW k \in Copy, NEW id \in Id, RetryOk(j, m, k, id) PROVE Goal
  <2>1. Forward
    BY <1>10, FateEffects DEF Forward, RetryOk
  <2>2. RowEvidence'
    BY <1>10, <2>1, RowKept DEF RetryOk, row
  <2>3. /\ sweep'[j].pc = "ids" /\ sweep'[j].todo = sweep[j].todo
        /\ \A i \in Sweeper \ {j} : sweep'[i] = sweep[i]
    BY <1>10 DEF TypeOK, SweepState, RetryOk
  <2>4. Accepted(m)'
    BY <1>10 DEF TypeOK, RetryOk, Accept, Accepted
  <2>5. \A n \in Message : Current(j, n)' => n = m
    BY <1>10, <2>3, OneCurrent DEF Current, RetryOk
  <2>6. QED
    BY <2>1, <2>2, <2>3, <2>4, <2>5 DEF SweepKnows
<1>11. QED
  BY <1>1, <1>2, <1>3, <1>4, <1>5, <1>6, <1>7, <1>8, <1>9, <1>10 DEF SweepStep, SweepProgress, Id

\* A word the provider may report of a copy is vouched for by that copy.
LEMMA ReportedIsShown ==
    ASSUME TypeOK, NEW m \in Message, NEW k \in Copy, NEW word \in Reported(fate[m][k])
    PROVE  Shown(m, Canonical(word))
<1>1. fate[m][k] \in Fate
  BY DEF TypeOK
<1>2. word \in {"queued", "accepted", "delivered", "read", "failed"} /\ fate[m][k] # "none"
  BY <1>1 DEF Reported, Fate
<1>3. Accepted(m)
  BY <1>2 DEF Accepted
<1>4. Canonical(word) = "DELIVERED" => fate[m][k] \in {"delivered", "read"}
  BY <1>1, <1>2 DEF Reported, Canonical, Fate
<1>5. Canonical(word) = "READ" => fate[m][k] = "read"
  BY <1>1, <1>2 DEF Reported, Canonical, Fate
<1>6. QED
  BY <1>3, <1>4, <1>5 DEF Shown

\* A step of a callback keeps Evidence.
LEMMA CallbackEvident ==
    ASSUME TypeOK, Evidence, NEW h \in Handler, CallbackStep(h)
    PROVE  Evidence'
<1> DEFINE Goal == /\ Forward /\ RowEvidence'
                   /\ \A i \in Handler \ {h} : callback'[i] = callback[i]
                   /\ CallbackKnows(h)'
<1> USE DEF Evidence
<1> SUFFICES Goal
  <2>1. UNCHANGED <<sender, confirmed, sweep>>
    BY DEF CallbackStep, Reject, CallbackDbError, CallbackRead, CallbackWrite, Lookup, OthersOfCallback
  <2>2. QED
    BY <2>1, SenderKept, SweepKept, CallbackMoved
<1>1. CASE Reject(h) \/ CallbackDbError(h)
  <2>1. Forward
    BY <1>1, NoEffect DEF Forward, Reject, CallbackDbError, OthersOfCallback
  <2>2. RowEvidence'
    BY <1>1, <2>1, RowKept DEF Reject, CallbackDbError, row
  <2>3. QED
    BY <1>1, <2>1, <2>2 DEF TypeOK, CallbackKnows, Reject, CallbackDbError, IdleCallback
<1>2. ASSUME NEW m \in Message, CallbackRead(h, m) PROVE Goal
  <2>1. Forward
    BY <1>2, NoEffect, TimelineEffects DEF Forward, CallbackRead, OthersOfCallback
  <2>2. RowEvidence'
    BY <1>2, <2>1, RowKept DEF CallbackRead, row
  <2>3. /\ callback'[h].msg = m /\ callback'[h].st = callback[h].st
        /\ \A i \in Handler \ {h} : callback'[i] = callback[i]
    BY <1>2 DEF TypeOK, CallbackState, CallbackRead
  <2>4. Shown(m, callback[h].st)'
    BY <1>2, <2>1, <2>3, ShownForward
       DEF CallbackEvidence, CallbackKnows, CallbackRead, Forward, Shown
  <2>5. callback[h].st \in timeline'[m]
    BY <1>2 DEF TypeOK, CallbackRead, AppendTimeline
  <2>6. QED
    BY <2>1, <2>2, <2>3, <2>4, <2>5 DEF CallbackKnows
<1>3. ASSUME NEW m \in Message, CallbackWrite(h, m) PROVE Goal
  <2>1. Forward
    BY <1>3, NoEffect DEF Forward, CallbackWrite, OthersOfCallback
  <2>2. /\ callback[h].st \in Status /\ Shown(m, callback[h].st)
        /\ callback[h].st \in timeline[m]
    BY <1>3 DEF TypeOK, CallbackState, CallbackEvidence, CallbackKnows, CallbackWrite
  <2>3. RowEvidence'
    BY <1>3, <2>1, <2>2, RowRecorded DEF CallbackWrite
  <2>4. QED
    BY <1>3, <2>1, <2>3 DEF TypeOK, CallbackKnows, CallbackWrite, IdleCallback
<1>4. ASSUME NEW m \in Message, NEW k \in Copy, Lookup(h, m, k) PROVE Goal
  <2>1. Forward
    BY <1>4, NoEffect DEF Forward, Lookup, OthersOfCallback
  <2>2. RowEvidence'
    BY <1>4, <2>1, RowKept DEF Lookup, row
  <2>3. PICK word \in Reported(fate[m][k]) :
          callback' = [callback EXCEPT ![h] =
              [pc   |-> IF whatsboxId[m] = k THEN "read" ELSE "threw",
               msg  |-> m, id |-> k, st |-> Canonical(word), seen |-> NoRow]]
    BY <1>4 DEF Lookup
  <2>4. /\ callback'[h].pc \in {"read", "threw"} /\ callback'[h].msg = m
        /\ callback'[h].st = Canonical(word)
        /\ \A i \in Handler \ {h} : callback'[i] = callback[i]
    BY <2>3 DEF TypeOK
  <2>5. Shown(m, Canonical(word))'
    BY <2>1, ReportedIsShown, ShownForward DEF Forward, Shown
  <2>6. QED
    BY <2>1, <2>2, <2>4, <2>5 DEF CallbackKnows, Shown
<1>5. QED
  BY <1>1, <1>2, <1>3, <1>4 DEF CallbackStep

\* So do the provider, a kill of the process and stuttering.
LEMMA OtherEvident ==
    ASSUME TypeOK, Evidence,
           (\E m \in Message, k \in Copy : Advance(m, k)) \/ Crash \/ UNCHANGED vars
    PROVE  Evidence'
<1> USE DEF Evidence
<1>1. ASSUME NEW m \in Message, NEW k \in Copy, Advance(m, k) PROVE Evidence'
  <2>1. Forward
    BY <1>1, FateEffects DEF Forward, Advance
  <2>2. QED
    BY <1>1, <2>1, RowKept, SenderKept, SweepKept, CallbackKept DEF Advance, row
<1>2. CASE Crash
  <2>1. Forward
    BY <1>2, NoEffect DEF Forward, Crash
  <2>2. RowEvidence'
    BY <1>2, <2>1, RowKept DEF Crash, row
  <2>3. SenderEvidence'
    <3> SUFFICES ASSUME NEW m \in Message PROVE SenderKnows(m)'
      BY DEF SenderEvidence
    <3>1. sender'[m].pc \in {"idle", "done"}
      BY <1>2 DEF Crash, DoneSender, IdleSender
    <3>2. confirmed' = confirmed /\ timeline' = timeline
      BY <1>2 DEF Crash
    <3>3. QED
      BY <3>1, <3>2 DEF SenderEvidence, SenderKnows
  <2>4. SweepEvidence'
    BY <1>2 DEF Crash, SweepEvidence, SweepKnows, IdleSweep
  <2>5. CallbackEvidence'
    BY <1>2 DEF Crash, CallbackEvidence, CallbackKnows, IdleCallback
  <2>6. QED
    BY <2>2, <2>3, <2>4, <2>5
<1>3. CASE UNCHANGED vars
  <2>1. Forward
    BY <1>3, NoEffect DEF Forward, vars
  <2>2. QED
    BY <1>3, <2>1, RowKept, SenderKept, SweepKept, CallbackKept DEF vars, row
<1>4. QED
  BY <1>1, <1>2, <1>3

-----------------------------------------------------------------------------
\* Nobody ever holds a success the provider did not report.
THEOREM EvidenceHolds == Spec => []Evidence
<1>1. Init => Evidence
  BY DEF Init, Evidence, RowEvidence, SenderEvidence, SenderKnows, SweepEvidence, SweepKnows,
         CallbackEvidence, CallbackKnows, Shown, NoRow, IdleSender, IdleSweep, IdleCallback
<1>2. TypeOK /\ Evidence /\ [Next]_vars => Evidence'
  BY SenderEvident, SweepEvident, CallbackEvident, OtherEvident DEF Next
<1>3. QED
  BY <1>1, <1>2, TypeCorrect, PTL DEF Spec

\* A row that shows SENT, DELIVERED or READ belongs to a message the provider took,
\* whatever requests, sweeps, callbacks, errors and kills interleave
\* (outgoingMessage.service.js, retryOutgoingMessages.job.js, conversation.service.js).
THEOREM SentIsAccepted == Spec => []SentMeansAccepted
<1>1. Evidence => SentMeansAccepted
  BY DEF Evidence, RowEvidence, Shown, SentMeansAccepted
<1>2. QED
  BY <1>1, EvidenceHolds, PTL

\* A row that shows DELIVERED or READ belongs to a message with a copy that got there
\* (messageStatus.handler.js).
THEOREM DeliveredIsDelivered == Spec => []DeliveredMeansDelivered
<1>1. Evidence => DeliveredMeansDelivered
  BY DEF Evidence, RowEvidence, Shown, DeliveredMeansDelivered
<1>2. QED
  BY <1>1, EvidenceHolds, PTL

\* A row never shows a success that its history does not record
\* (messageStatus.repository.js).
THEOREM SuccessRecorded == Spec => []SuccessIsRecorded
<1>1. Evidence => SuccessIsRecorded
  BY DEF Evidence, RowEvidence, SuccessIsRecorded
<1>2. QED
  BY <1>1, EvidenceHolds, PTL

\* A reply is confirmed to Bitrix24 only after the outcome of a send attempt is in
\* its history (operatorMessage.handler.js).
THEOREM ConfirmedAfterOutcome == Spec => []ConfirmedHasOutcome
<1>1. Evidence => ConfirmedHasOutcome
  BY DEF Evidence, SenderEvidence, SenderKnows, ConfirmedHasOutcome
<1>2. QED
  BY <1>1, EvidenceHolds, PTL

-----------------------------------------------------------------------------
(***************************************************************************)
(* The two action properties need their actor to be alone: a second        *)
(* callback may write over what it has not seen, and a second job instance *)
(* re-sends a message whose budget the first one has used up since.        *)
(***************************************************************************)

\* Status callbacks are handled one at a time.
OneHandler == \A g, h \in Handler : g = h

\* What the callback read of a row that is delivered by now is what the row shows: the
\* requests and the sweeps only ever write SENT, PENDING or FAILED.
ReadIsCurrent(h) ==
    LET m == callback[h].msg IN
    (callback[h].pc = "write" /\ status[m] \in {"DELIVERED", "READ"})
        => callback[h].seen = status[m]

ReadsCurrent == \A h \in Handler : ReadIsCurrent(h)

\* No row becomes delivered or read in this step.
NoneArrives ==
    \A m \in Message : status'[m] \in {"DELIVERED", "READ"} => status'[m] = status[m]

\* A callback that does not move keeps its reading, if no row becomes delivered.
LEMMA ReadingKept ==
    ASSUME TypeOK, Evidence, ReadsCurrent, NoneArrives, NEW h \in Handler,
           callback'[h] = callback[h]
    PROVE  ReadIsCurrent(h)'
<1> SUFFICES ASSUME callback[h].pc = "write" PROVE ReadIsCurrent(h)'
  BY DEF ReadIsCurrent
<1>1. callback[h].msg \in Message
  BY DEF Evidence, CallbackEvidence, CallbackKnows
<1>2. QED
  BY <1>1 DEF ReadsCurrent, ReadIsCurrent, NoneArrives

\* Neither a request nor a sweep makes a row delivered.
LEMMA SenderDelivers ==
    ASSUME TypeOK, NEW m \in Message, SenderStep(m)
    PROVE  NoneArrives /\ UNCHANGED callback
<1>1. UNCHANGED callback
  BY DEF SenderStep, Save, SendOk, SendLost, SendError, SenderStoreIds, SenderRead, SenderWrite,
         SenderMarkSent, Confirm, SenderDbError, OthersOfSender
<1>2. CASE UNCHANGED status
  BY <1>1, <1>2 DEF NoneArrives
<1>3. CASE Save(m) \/ SenderMarkSent(m)
  <2>1. \E st \in {"PENDING", "SENT"} : status' = [status EXCEPT ![m] = st]
    BY <1>3 DEF Save, SenderMarkSent, UpdateStatus
  <2>2. QED
    BY <1>1, <2>1 DEF TypeOK, NoneArrives
<1>4. CASE SenderWrite(m)
  <2>1. sender[m].st \in {"SENT", "FAILED"}
    BY DEF TypeOK, SenderState
  <2>2. UNCHANGED status \/ status' = [status EXCEPT ![m] = sender[m].st]
    BY <1>4 DEF SenderWrite, RecordWrite, UpdateStatus, row
  <2>3. QED
    BY <1>1, <2>1, <2>2 DEF TypeOK, NoneArrives
<1>5. QED
  BY <1>2, <1>3, <1>4
     DEF SenderStep, SendOk, SendLost, SendError, SenderStoreIds, SenderRead, Confirm,
         SenderDbError, UpdateIds, row

LEMMA SweepDelivers ==
    ASSUME TypeOK, NEW j \in Sweeper, SweepStep(j)
    PROVE  NoneArrives /\ UNCHANGED callback
<1>1. UNCHANGED callback
  BY DEF SweepStep, SweepProgress, SweepDbError, Scan, RetryOk, RetryLost, RetryError,
         RetryStoreIds, RetryAudit, RetryMarkSent, RetryFail, RetryFailAudit, OthersOfSweep
<1>2. CASE UNCHANGED status
  BY <1>1, <1>2 DEF NoneArrives
<1>3. ASSUME NEW m \in Message, RetryMarkSent(j, m) \/ RetryFail(j, m) PROVE NoneArrives
  <2>1. \E st \in {"PENDING", "SENT", "FAILED"} : status' = [status EXCEPT ![m] = st]
    BY <1>3 DEF RetryMarkSent, RetryFail, FailedAs, UpdateStatus
  <2>2. QED
    BY <2>1 DEF TypeOK, NoneArrives
<1>4. QED
  BY <1>1, <1>2, <1>3
     DEF SweepStep, SweepProgress, SweepDbError, Scan, RetryOk, RetryLost, RetryError,
         RetryStoreIds, RetryAudit, RetryFailAudit, UpdateIds, row

\* The only callback reads the row as it is, and is done when it has written it.
LEMMA CallbackReads ==
    ASSUME OneHandler, TypeOK, NEW h \in Handler, CallbackStep(h)
    PROVE  ReadsCurrent'
<1> SUFFICES ReadIsCurrent(h)'
  BY DEF OneHandler, ReadsCurrent
<1>1. CASE Reject(h) \/ CallbackDbError(h) \/ \E m \in Message : CallbackWrite(h, m)
  <2>1. callback'[h].pc = "idle"
    BY <1>1 DEF TypeOK, Reject, CallbackDbError, CallbackWrite, IdleCallback
  <2>2. QED
    BY <2>1 DEF ReadIsCurrent
<1>2. ASSUME NEW m \in Message, CallbackRead(h, m) PROVE ReadIsCurrent(h)'
  <2>1. callback'[h].msg = m /\ callback'[h].seen = status[m] /\ UNCHANGED status
    BY <1>2 DEF TypeOK, CallbackState, CallbackRead, row
  <2>2. QED
    BY <2>1 DEF ReadIsCurrent
<1>3. ASSUME NEW m \in Message, NEW k \in Copy, Lookup(h, m, k) PROVE ReadIsCurrent(h)'
  <2>1. callback'[h].pc # "write"
    BY <1>3 DEF TypeOK, Lookup
  <2>2. QED
    BY <2>1 DEF ReadIsCurrent
<1>4. QED
  BY <1>1, <1>2, <1>3 DEF CallbackStep

\* Every step keeps what the callback read current.
LEMMA ReadsStep ==
    ASSUME OneHandler, TypeOK, Evidence, ReadsCurrent, [Next]_vars
    PROVE  ReadsCurrent'
<1>k. ASSUME NoneArrives, UNCHANGED callback PROVE ReadsCurrent'
  BY <1>k, ReadingKept DEF ReadsCurrent
<1>1. ASSUME NEW m \in Message, SenderStep(m) PROVE ReadsCurrent'
  BY <1>1, <1>k, SenderDelivers
<1>2. ASSUME NEW j \in Sweeper, SweepStep(j) PROVE ReadsCurrent'
  BY <1>2, <1>k, SweepDelivers
<1>3. ASSUME NEW h \in Handler, CallbackStep(h) PROVE ReadsCurrent'
  BY <1>3, CallbackReads
<1>4. CASE (\E m \in Message, k \in Copy : Advance(m, k)) \/ UNCHANGED vars
  BY <1>4, <1>k DEF Advance, vars, row, NoneArrives
<1>5. CASE Crash
  BY <1>5 DEF Crash, IdleCallback, ReadsCurrent, ReadIsCurrent
<1>6. QED
  BY <1>1, <1>2, <1>3, <1>4, <1>5 DEF Next

\* A write that is judged by the status of the row never lowers a delivered row.
LEMMA WriteRaises ==
    ASSUME TypeOK, NEW m \in Message, NEW st \in Status,
           RecordWrite(m, status[m], st), status[m] \in {"DELIVERED", "READ"}
    PROVE  Rank(status'[m]) >= Rank(status[m])
<1>1. CASE MovesRow(status[m], st)
  <2>1. status'[m] = st
    BY <1>1 DEF TypeOK, RecordWrite, UpdateStatus
  <2>2. ~(Rank(status[m]) <= Rank("SENT"))
    BY DEF Rank
  <2>3. st # "FAILED" /\ Rank(st) > Rank(status[m])
    BY <1>1, <2>2 DEF MovesRow
  <2>4. Rank(st) \in Int /\ Rank(status[m]) \in Int
    BY DEF Rank
  <2>5. QED
    BY <2>1, <2>3, <2>4
<1>2. CASE ~MovesRow(status[m], st)
  BY <1>2 DEF RecordWrite, row, Rank
<1>3. QED
  BY <1>1, <1>2

\* When callbacks are handled one at a time, none takes DELIVERED or READ back, whatever
\* requests and sweeps write meanwhile (conversation.service.js recordMessageStatus).
THEOREM OneCallbackKeepsDelivered == OneHandler => (Spec => CallbackKeepsDelivered)
<1> SUFFICES ASSUME OneHandler PROVE Spec => CallbackKeepsDelivered
  OBVIOUS
<1> DEFINE Kept == callback' # callback =>
               \A m \in Message : status[m] \in {"DELIVERED", "READ"} =>
                   Rank(status'[m]) >= Rank(status[m])
<1>1. Init => ReadsCurrent
  BY DEF Init, IdleCallback, ReadsCurrent, ReadIsCurrent
<1>2. TypeOK /\ Evidence /\ ReadsCurrent /\ [Next]_vars => ReadsCurrent'
  BY ReadsStep
<1>3. TypeOK /\ Evidence /\ ReadsCurrent /\ [Next]_vars => [Kept]_vars
  <2> SUFFICES ASSUME TypeOK, Evidence, ReadsCurrent, [Next]_vars, callback' # callback,
                      NEW m \in Message, status[m] \in {"DELIVERED", "READ"}
               PROVE  Rank(status'[m]) >= Rank(status[m])
    OBVIOUS
  <2>1. CASE UNCHANGED status
    BY <2>1 DEF Rank
  <2>2. ASSUME NEW h \in Handler, NEW n \in Message, CallbackWrite(h, n)
        PROVE  Rank(status'[m]) >= Rank(status[m])
    <3>1. CASE n = m
      <4>1. callback[h].seen = status[m] /\ callback[h].st \in Status
        BY <2>2, <3>1 DEF TypeOK, CallbackState, CallbackWrite, ReadsCurrent, ReadIsCurrent
      <4>2. QED
        BY <2>2, <3>1, <4>1, WriteRaises DEF CallbackWrite
    <3>2. CASE n # m
      <4>1. status'[m] = status[m]
        BY <2>2, <3>2 DEF TypeOK, CallbackWrite, RecordWrite, UpdateStatus, row
      <4>2. QED
        BY <4>1 DEF Rank
    <3>3. QED
      BY <3>1, <3>2
  <2>3. ASSUME NEW h \in Handler, CallbackStep(h) PROVE Rank(status'[m]) >= Rank(status[m])
    BY <2>1, <2>2, <2>3 DEF CallbackStep, Reject, CallbackDbError, CallbackRead, Lookup, row
  <2>4. \A n \in Message : ~SenderStep(n)
    BY SenderDelivers
  <2>5. \A j \in Sweeper : ~SweepStep(j)
    BY SweepDelivers
  <2>6. QED
    BY <2>1, <2>3, <2>4, <2>5 DEF Next, Advance, Crash, vars, row
<1>4. QED
  BY <1>1, <1>2, <1>3, TypeCorrect, EvidenceHolds, PTL DEF Spec, CallbackKeepsDelivered

-----------------------------------------------------------------------------
\* One instance of the retry job runs.
OneSweeper == \A i, j \in Sweeper : i = j

\* The budget of whatever sweep j still has before it is not used up; the message whose
\* last failed attempt it just counted is no longer before it.
WithinBudget(j) ==
    \A m \in sweep[j].todo :
        (sweep[j].pc = "auditFail" /\ Current(j, m)) \/ retryCount[m] < MaxRetries[j]

BudgetsLeft == \A j \in Sweeper : WithinBudget(j)

\* A sweep that is done with its message has the others before it.
LEMMA NextWithin ==
    ASSUME TypeOK, BudgetsLeft, NEW j \in Sweeper, NEW m \in Message,
           Current(j, m), NextMessage(j, m), UNCHANGED retryCount
    PROVE  WithinBudget(j)'
<1>1. sweep'[j].todo \subseteq sweep[j].todo \ {m}
  BY DEF TypeOK, SweepState, NextMessage, IdleSweep
<1>2. \A n \in sweep[j].todo \ {m} : ~Current(j, n)
  BY OneCurrent DEF TypeOK, SweepState
<1>3. QED
  BY <1>1, <1>2 DEF BudgetsLeft, WithinBudget

\* A sweep that stays with its messages, before the failure is counted.
LEMMA SameWithin ==
    ASSUME BudgetsLeft, NEW j \in Sweeper, sweep[j].pc # "auditFail",
           sweep'[j].todo = sweep[j].todo, UNCHANGED retryCount
    PROVE  WithinBudget(j)'
BY DEF BudgetsLeft, WithinBudget

\* The only sweep keeps within its budget.
LEMMA SweepWithin ==
    ASSUME OneSweeper, TypeOK, BudgetsLeft, NEW j \in Sweeper, SweepStep(j)
    PROVE  BudgetsLeft'
<1> SUFFICES WithinBudget(j)'
  BY DEF OneSweeper, BudgetsLeft
<1> USE DEF row
<1>1. CASE Scan(j)
  <2>1. PICK recent : /\ sweep'[j].todo = Batch(MaxRetries[j], recent)
                      /\ UNCHANGED retryCount
    BY <1>1 DEF TypeOK, Scan
  <2>2. \A m \in sweep'[j].todo : retryCount[m] < MaxRetries[j]
    BY <2>1 DEF Batch, Retriable
  <2>3. QED
    BY <2>1, <2>2 DEF WithinBudget
<1>2. CASE SweepDbError(j)
  <2>1. UNCHANGED retryCount
    BY <1>2 DEF SweepDbError
  <2>2. CASE sweep[j].pc \in {"ids", "audit", "mark"} /\ sweep'[j].todo = sweep[j].todo
    BY <2>1, <2>2, SameWithin
  <2>3. CASE sweep'[j] = IdleSweep
    BY <2>3 DEF WithinBudget, IdleSweep
  <2>4. QED
    BY <1>2, <2>2, <2>3 DEF TypeOK, SweepState, SweepDbError
<1>3. ASSUME NEW m \in Message,
             RetryError(j, m) \/ RetryStoreIds(j, m) \/ RetryAudit(j, m)
      PROVE  WithinBudget(j)'
  <2>1. sweep[j].pc # "auditFail" /\ UNCHANGED retryCount
    BY <1>3 DEF RetryError, RetryStoreIds, RetryAudit, UpdateIds
  <2>2. RetryError(j, m) => sweep'[j].todo = sweep[j].todo
    BY DEF TypeOK, SweepState, RetryError
  <2>3. RetryStoreIds(j, m) => sweep'[j].todo = sweep[j].todo
    BY DEF TypeOK, SweepState, RetryStoreIds
  <2>4. RetryAudit(j, m) => sweep'[j].todo = sweep[j].todo
    BY DEF TypeOK, SweepState, RetryAudit
  <2>5. QED
    BY <1>3, <2>1, <2>2, <2>3, <2>4, SameWithin
<1>4. ASSUME NEW m \in Message, RetryMarkSent(j, m) \/ RetryFailAudit(j, m)
      PROVE  WithinBudget(j)'
  <2>1. Current(j, m) /\ NextMessage(j, m) /\ UNCHANGED retryCount
    BY <1>4 DEF RetryMarkSent, RetryFailAudit, UpdateStatus
  <2>2. QED
    BY <2>1, NextWithin
<1>5. ASSUME NEW m \in Message, RetryFail(j, m) PROVE WithinBudget(j)'
  <2>1. /\ sweep'[j].pc = "auditFail" /\ sweep'[j].todo = sweep[j].todo
        /\ sweep[j].pc = "fail" /\ Current(j, m)'
        /\ \A n \in Message \ {m} : retryCount'[n] = retryCount[n]
    BY <1>5 DEF TypeOK, SweepState, RetryFail, Current
  <2>2. sweep[j].todo \subseteq Message
    BY DEF TypeOK, SweepState
  <2>3. QED
    BY <2>1, <2>2 DEF BudgetsLeft, WithinBudget
<1>6. ASSUME NEW m \in Message, NEW k \in Copy, NEW id \in Id,
             RetryLost(j, m, k) \/ RetryOk(j, m, k, id)
      PROVE  WithinBudget(j)'
  <2>1. /\ sweep[j].pc # "auditFail" /\ sweep'[j].todo = sweep[j].todo
        /\ UNCHANGED retryCount
    BY <1>6 DEF TypeOK, SweepState, RetryLost, RetryOk
  <2>2. QED
    BY <2>1, SameWithin
<1>7. QED
  BY <1>1, <1>2, <1>3, <1>4, <1>5, <1>6 DEF SweepStep, SweepProgress, Id

\* The others leave the sweeps and the counts alone; a kill ends the sweeps.
LEMMA OthersWithin ==
    ASSUME BudgetsLeft,
           \/ \E m \in Message : SenderStep(m) \/ \E k \in Copy : Advance(m, k)
           \/ \E h \in Handler : CallbackStep(h)
           \/ Crash
           \/ UNCHANGED vars
    PROVE  BudgetsLeft'
<1> USE DEF row
<1>1. CASE UNCHANGED <<sweep, retryCount>>
  BY <1>1 DEF BudgetsLeft, WithinBudget, Current
<1>2. CASE Crash
  BY <1>2 DEF Crash, BudgetsLeft, WithinBudget, IdleSweep
<1>3. ASSUME NEW m \in Message, SenderStep(m) PROVE UNCHANGED <<sweep, retryCount>>
  BY <1>3 DEF SenderStep, Save, SendOk, SendLost, SendError, SenderStoreIds, SenderRead,
              SenderWrite, SenderMarkSent, Confirm, SenderDbError, OthersOfSender,
              RecordWrite, UpdateStatus, UpdateIds
<1>4. ASSUME NEW h \in Handler, CallbackStep(h) PROVE UNCHANGED <<sweep, retryCount>>
  BY <1>4 DEF CallbackStep, Reject, CallbackDbError, CallbackRead, CallbackWrite, Lookup,
              OthersOfCallback, RecordWrite, UpdateStatus
<1>5. QED
  BY <1>1, <1>2, <1>3, <1>4 DEF Advance, vars

\* When one instance of the job runs it never posts a message again whose budget is used
\* up, however often it fails and the process is killed
\* ("instead of hammering the provider", retryOutgoingMessages.job.js).
THEOREM OneJobStopsAtBudget == OneSweeper => (Spec => ExhaustedNotResent)
<1> SUFFICES ASSUME OneSweeper PROVE Spec => ExhaustedNotResent
  OBVIOUS
<1> DEFINE Stops == \A j \in Sweeper, m \in Message :
                        Resent(j, m) => retryCount[m] < MaxRetries[j]
<1>1. Init => BudgetsLeft
  BY DEF Init, IdleSweep, BudgetsLeft, WithinBudget
<1>2. TypeOK /\ BudgetsLeft /\ [Next]_vars => BudgetsLeft'
  BY SweepWithin, OthersWithin DEF Next
<1>3. BudgetsLeft => [Stops]_vars
  BY DEF BudgetsLeft, WithinBudget, Resent, Current
<1>4. QED
  BY <1>1, <1>2, <1>3, TypeCorrect, PTL DEF Spec, ExhaustedNotResent

-----------------------------------------------------------------------------
(***************************************************************************)
(* MessageDelivery implements MessageLife.  Evidence has most of the       *)
(* reasons; what it lacks is that every task works on a row that is there. *)
(***************************************************************************)

\* A row is there once its request has begun, and stays; a copy left only of a stored
\* message, and a reply is confirmed at the end of its request.
RowFirst(m) ==
    /\ sender[m].pc = "idle" <=> status[m] = NoRow
    /\ confirmed[m] => sender[m].pc = "done"
    /\ Accepted(m) => status[m] # NoRow

\* A sweep and a callback work on rows that are there.
SweepsRows(j) == \A m \in sweep[j].todo : status[m] # NoRow
CallsRow(h) ==
    callback[h].pc \in {"read", "write"} =>
        callback[h].msg \in Message /\ status[callback[h].msg] # NoRow

RowsFirst ==
    /\ \A m \in Message : RowFirst(m)
    /\ \A j \in Sweeper : SweepsRows(j)
    /\ \A h \in Handler : CallsRow(h)

\* No row goes.
RowsStay == \A m \in Message : status[m] # NoRow => status'[m] # NoRow

LEMMA WritesStay ==
    ASSUME TypeOK, NEW m \in Message
    PROVE  /\ UNCHANGED status => RowsStay
           /\ \A st \in Status : status' = [status EXCEPT ![m] = st] =>
                 RowsStay /\ \A n \in Message \ {m} : status'[n] = status[n]
           /\ NoRow \notin Status
BY DEF TypeOK, RowsStay, Status, NoRow

\* The tasks that do not move keep their rows.
LEMMA SweepsStay ==
    ASSUME TypeOK, RowsFirst, RowsStay, NEW j \in Sweeper, sweep'[j].todo \subseteq sweep[j].todo
    PROVE  SweepsRows(j)'
<1>1. sweep[j].todo \subseteq Message
  BY DEF TypeOK, SweepState
<1>2. QED
  BY <1>1 DEF RowsFirst, SweepsRows, RowsStay

LEMMA CallsStay ==
    ASSUME RowsFirst, RowsStay, NEW h \in Handler, callback'[h] = callback[h]
    PROVE  CallsRow(h)'
BY DEF RowsFirst, CallsRow, RowsStay

\* What a request does to its row, and to no other.
LEMMA SenderRows ==
    ASSUME TypeOK, RowsFirst, NEW m \in Message, SenderStep(m)
    PROVE  /\ RowsStay /\ status'[m] # NoRow /\ sender'[m].pc # "idle"
           /\ confirmed'[m] => sender'[m].pc = "done"
           /\ \A n \in Message \ {m} :
                 /\ sender'[n] = sender[n] /\ status'[n] = status[n]
                 /\ confirmed'[n] = confirmed[n] /\ fate'[n] = fate[n]
           /\ UNCHANGED <<sweep, callback>>
<1> DEFINE Goal == /\ RowsStay /\ status'[m] # NoRow /\ sender'[m].pc # "idle"
                   /\ confirmed'[m] => sender'[m].pc = "done"
                   /\ \A n \in Message \ {m} :
                         /\ sender'[n] = sender[n] /\ status'[n] = status[n]
                         /\ confirmed'[n] = confirmed[n] /\ fate'[n] = fate[n]
                   /\ UNCHANGED <<sweep, callback>>
<1>1. sender[m] \in SenderState /\ RowFirst(m) /\ AfterOutcome(m) \in {"confirm", "done"}
  BY DEF TypeOK, RowsFirst, AfterOutcome
<1>2. UNCHANGED <<sweep, callback>>
  BY DEF SenderStep, Save, SendError, SenderStoreIds, SenderRead, SenderWrite, SenderMarkSent,
         Confirm, SenderDbError, SendOk, SendLost, OthersOfSender
<1>3. CASE Save(m)
  <2>1. status' = [status EXCEPT ![m] = "PENDING"] /\ UNCHANGED <<confirmed, fate>>
    BY <1>3 DEF Save
  <2>2. /\ sender'[m].pc \in {"send", "done"} /\ sender[m].pc = "idle"
        /\ \A n \in Message \ {m} : sender'[n] = sender[n]
    BY <1>1, <1>3 DEF Save, TypeOK, SenderState, DoneSender, IdleSender
  <2>3. QED
    BY <1>1, <1>2, <2>1, <2>2, WritesStay DEF TypeOK, Status, RowFirst, NoRow
<1>4. CASE SendError(m) \/ SenderRead(m) \/ SenderDbError(m) \/ SenderStoreIds(m)
  <2>1. UNCHANGED <<status, confirmed, fate>>
    BY <1>4 DEF SendError, SenderRead, SenderDbError, SenderStoreIds, UpdateIds, row
  <2>2. /\ sender[m].pc \notin {"idle", "done"} /\ sender'[m].pc # "idle"
        /\ \A n \in Message \ {m} : sender'[n] = sender[n]
    <3>1. CASE SendError(m)
      BY <1>1, <3>1 DEF SendError, TypeOK, SenderState
    <3>2. CASE SenderRead(m)
      BY <1>1, <3>2 DEF SenderRead, TypeOK, SenderState
    <3>3. CASE SenderDbError(m)
      BY <1>1, <3>3 DEF SenderDbError, TypeOK, SenderState, IdleSender, DoneSender
    <3>4. CASE SenderStoreIds(m)
      BY <1>1, <3>4 DEF SenderStoreIds, TypeOK, SenderState
    <3>5. QED
      BY <1>4, <3>1, <3>2, <3>3, <3>4
  <2>3. QED
    BY <1>1, <1>2, <2>1, <2>2, WritesStay DEF RowFirst
<1>5. CASE SenderWrite(m) \/ SenderMarkSent(m)
  <2>1. \/ UNCHANGED status
        \/ \E st \in Status : status' = [status EXCEPT ![m] = st]
    BY <1>1, <1>5 DEF SenderWrite, SenderMarkSent, RecordWrite, UpdateStatus, row, SenderState,
                      Status
  <2>2. UNCHANGED <<confirmed, fate>>
    BY <1>5 DEF SenderWrite, SenderMarkSent
  <2>3. /\ sender[m].pc \notin {"idle", "done"} /\ sender'[m].pc # "idle"
        /\ \A n \in Message \ {m} : sender'[n] = sender[n]
    <3>1. CASE SenderWrite(m)
      BY <1>1, <3>1 DEF SenderWrite, TypeOK, SenderState
    <3>2. CASE SenderMarkSent(m)
      BY <1>1, <3>2 DEF SenderMarkSent, TypeOK, SenderState
    <3>3. QED
      BY <1>5, <3>1, <3>2
  <2>4. QED
    BY <1>1, <1>2, <2>1, <2>2, <2>3, WritesStay DEF RowFirst, RowsStay
<1>6. CASE Confirm(m)
  <2>1. UNCHANGED <<status, fate>> /\ \E ok \in BOOLEAN : confirmed' = [confirmed EXCEPT ![m] = ok]
    BY <1>6 DEF Confirm, row
  <2>2. /\ sender[m].pc = "confirm" /\ sender'[m].pc = "done"
        /\ \A n \in Message \ {m} : sender'[n] = sender[n]
    BY <1>1, <1>6 DEF Confirm, TypeOK, SenderState, IdleSender, DoneSender
  <2>3. \A n \in Message \ {m} : confirmed'[n] = confirmed[n]
    BY <2>1 DEF TypeOK
  <2>4. QED
    BY <1>1, <1>2, <2>1, <2>2, <2>3, WritesStay DEF RowFirst
<1>7. ASSUME NEW k \in Copy, SendLost(m, k) \/ SendOk(m, k, k) \/ SendOk(m, k, NoId) PROVE Goal
  <2>1. UNCHANGED <<status, confirmed>> /\ Accept(m, k)
    BY <1>7 DEF SendLost, SendOk, row
  <2>2. /\ sender[m].pc = "send" /\ sender'[m].pc # "idle"
        /\ \A n \in Message \ {m} : sender'[n] = sender[n]
    BY <1>1, <1>7 DEF SendLost, SendOk, TypeOK, SenderState
  <2>3. \A n \in Message \ {m} : fate'[n] = fate[n]
    BY <2>1 DEF Accept, TypeOK
  <2>4. QED
    BY <1>1, <1>2, <2>1, <2>2, <2>3, WritesStay DEF RowFirst
<1>8. QED
  BY <1>3, <1>4, <1>5, <1>6, <1>7 DEF SenderStep

\* A sweep takes up rows that are there, and sends nothing of another.
LEMMA SweepRows ==
    ASSUME TypeOK, RowsFirst, NEW j \in Sweeper, SweepStep(j)
    PROVE  /\ \A m \in Message : status'[m] = NoRow <=> status[m] = NoRow
           /\ \A i \in Sweeper \ {j} : sweep'[i] = sweep[i]
           /\ \A m \in sweep'[j].todo : m \in Message /\ status[m] # NoRow
           /\ \A m \in Message : fate'[m] # fate[m] => status[m] # NoRow
           /\ UNCHANGED <<sender, confirmed, callback>>
<1> DEFINE Goal == /\ \A m \in Message : status'[m] = NoRow <=> status[m] = NoRow
                   /\ \A i \in Sweeper \ {j} : sweep'[i] = sweep[i]
                   /\ \A m \in sweep'[j].todo : m \in Message /\ status[m] # NoRow
                   /\ \A m \in Message : fate'[m] # fate[m] => status[m] # NoRow
                   /\ UNCHANGED <<sender, confirmed, callback>>
<1>1. /\ sweep[j] \in SweepState /\ sweep[j].todo \subseteq Message
      /\ \A m \in sweep[j].todo : status[m] # NoRow
  BY DEF TypeOK, SweepState, RowsFirst, SweepsRows
<1>2. UNCHANGED <<sender, confirmed, callback>>
  BY DEF SweepStep, SweepProgress, SweepDbError, Scan, RetryError, RetryStoreIds, RetryAudit,
         RetryMarkSent, RetryFail, RetryFailAudit, RetryLost, RetryOk, OthersOfSweep
<1>3. CASE Scan(j)
  <2>1. UNCHANGED <<status, fate>>
    BY <1>3 DEF Scan, row
  <2>2. PICK recent : sweep'= [sweep EXCEPT ![j] =
                [pc |-> "send", todo |-> Batch(MaxRetries[j], recent), id |-> NoId,
                 snap |-> [m \in Message |-> IF m \in Batch(MaxRetries[j], recent)
                                             THEN retryCount[m] ELSE 0]]]
    BY <1>3 DEF Scan
  <2>3. sweep'[j].todo = Batch(MaxRetries[j], recent)
    BY <2>2 DEF TypeOK
  <2>4. \A m \in sweep'[j].todo : m \in Message /\ status[m] # NoRow
    BY <2>3 DEF Batch, Retriable, NoRow
  <2>5. \A i \in Sweeper \ {j} : sweep'[i] = sweep[i]
    BY <2>2 DEF TypeOK
  <2>6. QED
    BY <1>2, <2>1, <2>4, <2>5
<1>4. CASE SweepDbError(j)
  <2>1. UNCHANGED <<status, fate>>
    BY <1>4 DEF SweepDbError, row
  <2>2. PICK W : /\ W = [sweep[j] EXCEPT !.pc = "fail", !.id = NoId] \/ W = IdleSweep
                 /\ sweep' = [sweep EXCEPT ![j] = W]
    BY <1>4 DEF SweepDbError
  <2>3. W.todo \subseteq sweep[j].todo
    <3>1. CASE W = IdleSweep
      BY <3>1 DEF IdleSweep
    <3>2. CASE W = [sweep[j] EXCEPT !.pc = "fail", !.id = NoId]
      BY <1>1, <3>2 DEF SweepState
    <3>3. QED
      BY <2>2, <3>1, <3>2
  <2>4. sweep'[j].todo \subseteq sweep[j].todo /\ \A i \in Sweeper \ {j} : sweep'[i] = sweep[i]
    BY <2>2, <2>3 DEF TypeOK
  <2>5. QED
    BY <1>1, <1>2, <2>1, <2>4
<1>5. ASSUME NEW m \in Message,
             \/ RetryError(j, m) \/ RetryStoreIds(j, m) \/ RetryAudit(j, m)
             \/ RetryMarkSent(j, m) \/ RetryFail(j, m) \/ RetryFailAudit(j, m)
      PROVE  Goal
  <2>1. Current(j, m) /\ UNCHANGED fate
    BY <1>5 DEF RetryError, RetryStoreIds, RetryAudit, RetryMarkSent, RetryFail, RetryFailAudit
  <2>2. status[m] # NoRow
    BY <1>1, <2>1 DEF Current
  <2>3. UNCHANGED status \/ \E st \in Status : status' = [status EXCEPT ![m] = st]
    BY <1>5 DEF RetryError, RetryStoreIds, RetryAudit, RetryMarkSent, RetryFail, RetryFailAudit,
                UpdateIds, UpdateStatus, FailedAs, Status, row
  <2>4. \A n \in Message : status'[n] = NoRow <=> status[n] = NoRow
    BY <2>2, <2>3, WritesStay DEF RowsStay
  <2>5. PICK W : W.todo \subseteq sweep[j].todo /\ sweep' = [sweep EXCEPT ![j] = W]
    <3>1. CASE RetryError(j, m) \/ RetryFail(j, m) \/ RetryAudit(j, m)
      <4>1. \E pc : sweep' = [sweep EXCEPT ![j] = [sweep[j] EXCEPT !.pc = pc]]
        BY <3>1 DEF RetryError, RetryFail, RetryAudit
      <4>2. QED
        BY <1>1, <4>1 DEF SweepState
    <3>2. CASE RetryStoreIds(j, m)
      <4>1. sweep' = [sweep EXCEPT ![j] = [sweep[j] EXCEPT !.pc = "audit", !.id = NoId]]
        BY <3>2 DEF RetryStoreIds
      <4>2. QED
        BY <1>1, <4>1 DEF SweepState
    <3>3. CASE RetryMarkSent(j, m) \/ RetryFailAudit(j, m)
      <4>1. PICK W : /\ W = IdleSweep \/
                        W = [sweep[j] EXCEPT !.pc = "send", !.todo = @ \ {m}, !.id = NoId]
                     /\ sweep' = [sweep EXCEPT ![j] = W]
        BY <3>3 DEF RetryMarkSent, RetryFailAudit, NextMessage
      <4>2. QED
        BY <1>1, <4>1 DEF SweepState, IdleSweep
    <3>4. QED
      BY <1>5, <3>1, <3>2, <3>3
  <2>6. sweep'[j].todo \subseteq sweep[j].todo /\ \A i \in Sweeper \ {j} : sweep'[i] = sweep[i]
    BY <2>5 DEF TypeOK
  <2>7. QED
    BY <1>1, <1>2, <2>1, <2>4, <2>6
<1>6. ASSUME NEW m \in Message, NEW k \in Copy,
             RetryLost(j, m, k) \/ RetryOk(j, m, k, k) \/ RetryOk(j, m, k, NoId)
      PROVE  Goal
  <2>1. Current(j, m) /\ Accept(m, k) /\ UNCHANGED status
    BY <1>6 DEF RetryLost, RetryOk, row
  <2>2. sweep'[j].todo = sweep[j].todo /\ \A i \in Sweeper \ {j} : sweep'[i] = sweep[i]
    <3>1. CASE RetryLost(j, m, k)
      BY <3>1 DEF RetryLost
    <3>2. CASE RetryOk(j, m, k, k) \/ RetryOk(j, m, k, NoId)
      <4>1. PICK id : sweep' = [sweep EXCEPT ![j] = [sweep[j] EXCEPT !.pc = "ids", !.id = id]]
        BY <3>2 DEF RetryOk
      <4>2. QED
        BY <1>1, <4>1 DEF TypeOK, SweepState
    <3>3. QED
      BY <1>6, <3>1, <3>2
  <2>3. \A n \in Message : fate'[n] # fate[n] => status[n] # NoRow
    BY <1>1, <2>1 DEF Current, Accept, TypeOK
  <2>4. QED
    BY <1>1, <1>2, <2>1, <2>2, <2>3
<1>7. QED
  BY <1>3, <1>4, <1>5, <1>6 DEF SweepStep, SweepProgress

\* A callback is about a row that is there.
LEMMA CallbackRows ==
    ASSUME TypeOK, RowsFirst, NEW h \in Handler, CallbackStep(h)
    PROVE  /\ \A m \in Message : status'[m] = NoRow <=> status[m] = NoRow
           /\ CallsRow(h)' /\ \A g \in Handler \ {h} : callback'[g] = callback[g]
           /\ UNCHANGED <<sender, confirmed, fate, sweep>>
<1> DEFINE Goal == /\ \A m \in Message : status'[m] = NoRow <=> status[m] = NoRow
                   /\ CallsRow(h)' /\ \A g \in Handler \ {h} : callback'[g] = callback[g]
                   /\ UNCHANGED <<sender, confirmed, fate, sweep>>
<1>1. callback[h] \in CallbackState /\ CallsRow(h)
  BY DEF TypeOK, RowsFirst
<1>2. CASE Reject(h) \/ CallbackDbError(h)
  <2>1. callback' = [callback EXCEPT ![h] = IdleCallback] /\ UNCHANGED status
    BY <1>2 DEF Reject, CallbackDbError, row
  <2>2. UNCHANGED <<sender, confirmed, fate, sweep>>
    BY <1>2 DEF Reject, CallbackDbError, OthersOfCallback
  <2>3. QED
    BY <2>1, <2>2 DEF TypeOK, CallsRow, IdleCallback
<1>3. ASSUME NEW m \in Message, CallbackRead(h, m) PROVE Goal
  <2>1. /\ callback[h].pc = "read" /\ callback[h].msg = m
        /\ callback' = [callback EXCEPT ![h] = [@ EXCEPT !.pc = "write", !.seen = status[m]]]
        /\ UNCHANGED <<status, sender, confirmed, fate, sweep>>
    BY <1>3 DEF CallbackRead, OthersOfCallback, row
  <2>2. callback'[h].msg = m /\ \A g \in Handler \ {h} : callback'[g] = callback[g]
    BY <1>1, <2>1 DEF TypeOK, CallbackState
  <2>3. QED
    BY <1>1, <2>1, <2>2 DEF CallsRow
<1>4. ASSUME NEW m \in Message, CallbackWrite(h, m) PROVE Goal
  <2>1. /\ callback[h].pc = "write" /\ callback[h].msg = m
        /\ callback' = [callback EXCEPT ![h] = IdleCallback]
        /\ UNCHANGED <<sender, confirmed, fate, sweep>>
    BY <1>4 DEF CallbackWrite, OthersOfCallback
  <2>2. UNCHANGED status \/ \E st \in Status : status' = [status EXCEPT ![m] = st]
    BY <1>1, <1>4 DEF CallbackWrite, CallbackState, RecordWrite, UpdateStatus, row
  <2>3. \A n \in Message : status'[n] = NoRow <=> status[n] = NoRow
    BY <1>1, <2>1, <2>2, WritesStay DEF CallsRow, RowsStay
  <2>4. QED
    BY <2>1, <2>3 DEF TypeOK, CallsRow, IdleCallback
<1>5. ASSUME NEW m \in Message, NEW k \in Copy, Lookup(h, m, k) PROVE Goal
  <2>1. status[m] # NoRow /\ UNCHANGED <<status, sender, confirmed, fate, sweep>>
    BY <1>5 DEF Lookup, OthersOfCallback, row
  <2>2. callback'[h].msg = m /\ \A g \in Handler \ {h} : callback'[g] = callback[g]
    BY <1>5 DEF Lookup, TypeOK
  <2>3. QED
    BY <2>1, <2>2 DEF CallsRow
<1>6. QED
  BY <1>2, <1>3, <1>4, <1>5 DEF CallbackStep

\* Every step keeps that rows come first.
LEMMA RowsFirstStep == TypeOK /\ RowsFirst /\ [Next]_vars => RowsFirst'
<1> SUFFICES ASSUME TypeOK, RowsFirst, [Next]_vars PROVE RowsFirst'
  OBVIOUS
<1>1. ASSUME NEW m \in Message, SenderStep(m) PROVE RowsFirst'
  <2>1. /\ RowsStay /\ status'[m] # NoRow /\ sender'[m].pc # "idle"
        /\ confirmed'[m] => sender'[m].pc = "done"
        /\ \A n \in Message \ {m} :
              /\ sender'[n] = sender[n] /\ status'[n] = status[n]
              /\ confirmed'[n] = confirmed[n] /\ fate'[n] = fate[n]
        /\ UNCHANGED <<sweep, callback>>
    BY <1>1, SenderRows
  <2>2. \A n \in Message : RowFirst(n)'
    BY <2>1 DEF RowsFirst, RowFirst, Accepted
  <2>3. QED
    BY <2>1, <2>2, SweepsStay, CallsStay DEF RowsFirst
<1>2. ASSUME NEW j \in Sweeper, SweepStep(j) PROVE RowsFirst'
  <2>1. /\ \A m \in Message : status'[m] = NoRow <=> status[m] = NoRow
        /\ \A i \in Sweeper \ {j} : sweep'[i] = sweep[i]
        /\ \A m \in sweep'[j].todo : m \in Message /\ status[m] # NoRow
        /\ \A m \in Message : fate'[m] # fate[m] => status[m] # NoRow
        /\ UNCHANGED <<sender, confirmed, callback>>
    BY <1>2, SweepRows
  <2>2. RowsStay
    BY <2>1 DEF RowsStay
  <2>3. \A n \in Message : RowFirst(n)'
    BY <2>1 DEF RowsFirst, RowFirst, Accepted
  <2>4. SweepsRows(j)'
    BY <2>1 DEF SweepsRows
  <2>5. QED
    BY <2>1, <2>2, <2>3, <2>4, SweepsStay, CallsStay DEF RowsFirst
<1>3. ASSUME NEW h \in Handler, CallbackStep(h) PROVE RowsFirst'
  <2>1. /\ \A m \in Message : status'[m] = NoRow <=> status[m] = NoRow
        /\ CallsRow(h)' /\ \A g \in Handler \ {h} : callback'[g] = callback[g]
        /\ UNCHANGED <<sender, confirmed, fate, sweep>>
    BY <1>3, CallbackRows
  <2>2. RowsStay
    BY <2>1 DEF RowsStay
  <2>3. \A n \in Message : RowFirst(n)'
    BY <2>1 DEF RowsFirst, RowFirst, Accepted
  <2>4. QED
    BY <2>1, <2>2, <2>3, SweepsStay, CallsStay DEF RowsFirst
<1>4. ASSUME NEW m \in Message, NEW k \in Copy, Advance(m, k) PROVE RowsFirst'
  <2>1. /\ UNCHANGED <<status, sender, confirmed, sweep, callback>>
        /\ fate[m][k] # "none" /\ \A n \in Message \ {m} : fate'[n] = fate[n]
    BY <1>4 DEF Advance, row, TypeOK
  <2>2. RowsStay
    BY <2>1 DEF RowsStay
  <2>3. \A n \in Message : RowFirst(n)'
    BY <2>1 DEF RowsFirst, RowFirst, Accepted
  <2>4. QED
    BY <2>1, <2>2, <2>3, SweepsStay, CallsStay DEF RowsFirst
<1>5. CASE Crash
  <2>1. UNCHANGED <<status, confirmed, fate>>
    BY <1>5 DEF Crash, row
  <2>2. \A n \in Message : /\ sender'[n].pc = "idle" <=> sender[n].pc = "idle"
                           /\ sender[n].pc = "done" => sender'[n].pc = "done"
    BY <1>5 DEF Crash, DoneSender, IdleSender
  <2>3. \A n \in Message : RowFirst(n)'
    BY <2>1, <2>2 DEF RowsFirst, RowFirst, Accepted
  <2>4. /\ \A j \in Sweeper : sweep'[j].todo = {}
        /\ \A h \in Handler : callback'[h].pc = "idle"
    BY <1>5 DEF Crash, IdleSweep, IdleCallback
  <2>5. QED
    BY <2>3, <2>4 DEF RowsFirst, SweepsRows, CallsRow
<1>6. CASE UNCHANGED vars
  BY <1>6 DEF vars, row, RowsFirst, RowFirst, SweepsRows, CallsRow, Accepted
<1>7. QED
  BY <1>1, <1>2, <1>3, <1>4, <1>5, <1>6 DEF Next

LEMMA RowsComeFirst == Spec => []RowsFirst
<1>1. Init => RowsFirst
  BY DEF Init, RowsFirst, RowFirst, SweepsRows, CallsRow, Accepted, IdleSender, IdleSweep,
         IdleCallback, NoRow
<1>2. QED
  BY <1>1, RowsFirstStep, TypeCorrect, PTL DEF Spec

\* A status that Shown vouches for may be claimed.
LEMMA ShownIsBacked ==
    ASSUME TypeOK, NEW m \in Message, NEW st, Shown(m, st)
    PROVE  Life!Backed(m, st)
<1>1. \A k \in Copy : fate[m][k] \in Fate
  BY DEF TypeOK
<1>2. CASE st = "SENT"
  BY <1>1, <1>2 DEF Life!Backed, Life!Success, Life!Reached, Shown, Accepted, Fate
<1>3. CASE st = "DELIVERED"
  BY <1>3 DEF Life!Backed, Life!Success, Life!Reached, Shown
<1>4. CASE st = "READ"
  BY <1>4 DEF Life!Backed, Life!Success, Life!Reached, Shown
<1>5. CASE st \notin Life!Success
  BY <1>5 DEF Life!Backed
<1>6. QED
  BY <1>2, <1>3, <1>4, <1>5 DEF Life!Success

\* The writes of the tasks are the steps of MessageLife.
LEMMA WriteSimulates ==
    ASSUME TypeOK, NEW m \in Message, status[m] # NoRow, NEW st \in Status, Shown(m, st)
    PROVE  /\ AppendTimeline(m, st) /\ UNCHANGED <<status, fate, confirmed>> =>
                 [Life!Next]_(Life!lifeVars)
           /\ /\ status' = [status EXCEPT ![m] = st] /\ UNCHANGED <<timeline, fate, confirmed>>
              /\ st \in {"SENT", "DELIVERED", "READ"} => st \in timeline[m]
              => [Life!Next]_(Life!lifeVars)
<1>1. Life!Stored(m) /\ Life!Backed(m, st) /\ st \in Life!Claim
  BY ShownIsBacked DEF Life!Stored, NoRow, Life!Claim, Life!Success, Status
<1>2. AppendTimeline(m, st) /\ UNCHANGED <<status, fate, confirmed>> => Life!Record(m, st)
  BY <1>1 DEF Life!Record, AppendTimeline
<1>3. /\ status' = [status EXCEPT ![m] = st] /\ UNCHANGED <<timeline, fate, confirmed>>
      /\ st \in {"SENT", "DELIVERED", "READ"} => st \in timeline[m]
      => Life!Show(m, st)
  BY <1>1 DEF Life!Show, Life!Success
<1>4. Life!Record(m, st) \/ Life!Show(m, st) => [Life!Next]_(Life!lifeVars)
  BY <1>1 DEF Life!Next
<1>5. QED
  BY <1>2, <1>3, <1>4

LEMMA TakeSimulates ==
    ASSUME TypeOK, NEW m \in Message, status[m] # NoRow, NEW k \in Copy,
           Accept(m, k) \/ Advance(m, k), UNCHANGED <<status, timeline, confirmed>>
    PROVE  [Life!Next]_(Life!lifeVars)
<1>1. \E f \in Life!Further(fate[m][k]) : fate' = [fate EXCEPT ![m][k] = f]
  BY DEF Accept, Advance, Life!Further
<1>2. Life!Take(m)
  BY <1>1 DEF Life!Take, Life!Stored, NoRow
<1>3. QED
  BY <1>2 DEF Life!Next

LEMMA NothingSimulates ==
    ASSUME UNCHANGED <<status, timeline, fate, confirmed>>
    PROVE  [Life!Next]_(Life!lifeVars)
BY DEF Life!lifeVars

\* recordMessageStatus writes the status it was given, or nothing.
LEMMA RecordSimulates ==
    ASSUME TypeOK, NEW m \in Message, status[m] # NoRow, NEW seen, NEW st \in Status,
           Shown(m, st), st \in timeline[m], RecordWrite(m, seen, st),
           UNCHANGED <<timeline, fate, confirmed>>
    PROVE  [Life!Next]_(Life!lifeVars)
<1>1. UNCHANGED status \/ status' = [status EXCEPT ![m] = st]
  BY DEF RecordWrite, UpdateStatus, row
<1>2. QED
  BY <1>1, WriteSimulates, NothingSimulates

LEMMA SenderSimulates ==
    ASSUME TypeOK, Evidence, RowsFirst, NEW m \in Message, SenderStep(m)
    PROVE  [Life!Next]_(Life!lifeVars)
<1>1. sender[m] \in SenderState /\ SenderKnows(m) /\ RowFirst(m)
  BY DEF TypeOK, Evidence, SenderEvidence, RowsFirst
<1>2. CASE Save(m)
  <2>1. Life!Store(m)
    BY <1>1, <1>2 DEF Save, Life!Store, Life!Stored, RowFirst, NoRow
  <2>2. QED
    BY <2>1 DEF Life!Next
<1>3. sender[m].pc # "idle" => status[m] # NoRow
  BY <1>1 DEF RowFirst
<1>4. CASE SendError(m) \/ SenderStoreIds(m) \/ SenderDbError(m)
  BY <1>4, NothingSimulates DEF SendError, SenderStoreIds, SenderDbError, UpdateIds, row
<1>5. CASE SenderRead(m)
  <2>1. sender[m].st \in Status /\ Shown(m, sender[m].st)
    BY <1>1, <1>5 DEF SenderRead, SenderState, SenderKnows, Shown, Status
  <2>2. AppendTimeline(m, sender[m].st) /\ UNCHANGED <<status, fate, confirmed>>
    BY <1>5 DEF SenderRead, row
  <2>3. status[m] # NoRow
    BY <1>3, <1>5 DEF SenderRead
  <2>4. QED
    BY <2>1, <2>2, <2>3, WriteSimulates
<1>6. CASE SenderWrite(m)
  <2>1. /\ sender[m].st \in Status /\ Shown(m, sender[m].st)
        /\ sender[m].st \in timeline[m] /\ status[m] # NoRow
    BY <1>1, <1>3, <1>6 DEF SenderWrite, SenderState, SenderKnows, Shown, Status
  <2>2. RecordWrite(m, sender[m].seen, sender[m].st) /\ UNCHANGED <<timeline, fate, confirmed>>
    BY <1>6 DEF SenderWrite
  <2>3. QED
    BY <2>1, <2>2, RecordSimulates
<1>7. CASE SenderMarkSent(m)
  <2>1. Shown(m, "SENT") /\ "SENT" \in timeline[m] /\ status[m] # NoRow /\ "SENT" \in Status
    BY <1>1, <1>3, <1>7 DEF SenderMarkSent, SenderKnows, Shown, Status
  <2>2. status' = [status EXCEPT ![m] = "SENT"] /\ UNCHANGED <<timeline, fate, confirmed>>
    BY <1>7 DEF SenderMarkSent, UpdateStatus
  <2>3. QED
    BY <2>1, <2>2, WriteSimulates
<1>8. CASE Confirm(m)
  <2>1. ~confirmed[m] /\ timeline[m] \cap {"SENT", "FAILED"} # {}
    BY <1>1, <1>8 DEF Confirm, RowFirst, SenderKnows, TypeOK
  <2>2. /\ UNCHANGED <<status, timeline, fate>>
        /\ \E ok \in BOOLEAN : confirmed' = [confirmed EXCEPT ![m] = ok]
    BY <1>8 DEF Confirm, row
  <2>3. UNCHANGED confirmed \/ confirmed' = [confirmed EXCEPT ![m] = TRUE]
    BY <2>1, <2>2 DEF TypeOK
  <2>4. CASE UNCHANGED confirmed
    BY <2>2, <2>4, NothingSimulates
  <2>5. CASE confirmed' = [confirmed EXCEPT ![m] = TRUE]
    <3>1. Life!Tell(m)
      BY <2>1, <2>2, <2>5 DEF Life!Tell
    <3>2. QED
      BY <3>1 DEF Life!Next
  <2>6. QED
    BY <2>3, <2>4, <2>5
<1>9. ASSUME NEW k \in Copy, SendLost(m, k) \/ SendOk(m, k, k) \/ SendOk(m, k, NoId)
      PROVE  [Life!Next]_(Life!lifeVars)
  <2>1. Accept(m, k) /\ UNCHANGED <<status, timeline, confirmed>> /\ status[m] # NoRow
    BY <1>3, <1>9 DEF SendLost, SendOk, row
  <2>2. QED
    BY <2>1, TakeSimulates
<1>10. QED
  BY <1>2, <1>4, <1>5, <1>6, <1>7, <1>8, <1>9 DEF SenderStep

LEMMA SweepSimulates ==
    ASSUME TypeOK, Evidence, RowsFirst, NEW j \in Sweeper, SweepStep(j)
    PROVE  [Life!Next]_(Life!lifeVars)
<1>1. ASSUME NEW m \in Message, Current(j, m)
      PROVE  status[m] # NoRow /\ SweepKnows(j, m)
  BY <1>1 DEF Evidence, SweepEvidence, RowsFirst, SweepsRows, Current
<1>2. \A m : Shown(m, "FAILED") /\ Shown(m, "PENDING")
  BY DEF Shown
<1>3. \A m : FailedAs(j, m) \in {"FAILED", "PENDING"}
  BY DEF FailedAs
<1>4. CASE Scan(j) \/ SweepDbError(j)
  BY <1>4, NothingSimulates DEF Scan, SweepDbError, row, OthersOfSweep
<1>5. ASSUME NEW m \in Message, RetryError(j, m) \/ RetryStoreIds(j, m)
      PROVE  [Life!Next]_(Life!lifeVars)
  BY <1>5, NothingSimulates DEF RetryError, RetryStoreIds, UpdateIds, row, OthersOfSweep
<1>6. ASSUME NEW m \in Message, RetryAudit(j, m) PROVE [Life!Next]_(Life!lifeVars)
  <2>1. Shown(m, "SENT") /\ status[m] # NoRow /\ "SENT" \in Status
    BY <1>1, <1>6 DEF RetryAudit, SweepKnows, Shown, Status
  <2>2. AppendTimeline(m, "SENT") /\ UNCHANGED <<status, fate, confirmed>>
    BY <1>6 DEF RetryAudit, row, OthersOfSweep
  <2>3. QED
    BY <2>1, <2>2, WriteSimulates
<1>7. ASSUME NEW m \in Message, RetryMarkSent(j, m) PROVE [Life!Next]_(Life!lifeVars)
  <2>1. Shown(m, "SENT") /\ "SENT" \in timeline[m] /\ status[m] # NoRow /\ "SENT" \in Status
    BY <1>1, <1>7 DEF RetryMarkSent, SweepKnows, Shown, Status
  <2>2. status' = [status EXCEPT ![m] = "SENT"] /\ UNCHANGED <<timeline, fate, confirmed>>
    BY <1>7 DEF RetryMarkSent, UpdateStatus, OthersOfSweep
  <2>3. QED
    BY <2>1, <2>2, WriteSimulates
<1>8. ASSUME NEW m \in Message, RetryFail(j, m) PROVE [Life!Next]_(Life!lifeVars)
  <2>1. PICK st \in {"FAILED", "PENDING"} : st = FailedAs(j, m)
    BY <1>3
  <2>2. /\ st \in Status /\ Shown(m, st) /\ st \notin {"SENT", "DELIVERED", "READ"}
        /\ status[m] # NoRow
    BY <1>1, <1>2, <1>8, <2>1 DEF RetryFail, Status
  <2>3. status' = [status EXCEPT ![m] = st] /\ UNCHANGED <<timeline, fate, confirmed>>
    BY <1>8, <2>1 DEF RetryFail, OthersOfSweep
  <2>4. QED
    BY <2>2, <2>3, WriteSimulates
<1>9. ASSUME NEW m \in Message, RetryFailAudit(j, m) PROVE [Life!Next]_(Life!lifeVars)
  <2>1. PICK st \in {"FAILED", "PENDING"} : st = FailedAs(j, m)
    BY <1>3
  <2>2. st \in Status /\ Shown(m, st) /\ status[m] # NoRow
    BY <1>1, <1>2, <1>9, <2>1 DEF RetryFailAudit, Status
  <2>3. AppendTimeline(m, st) /\ UNCHANGED <<status, fate, confirmed>>
    BY <1>9, <2>1 DEF RetryFailAudit, row, OthersOfSweep
  <2>4. QED
    BY <2>2, <2>3, WriteSimulates
<1>10. ASSUME NEW m \in Message, NEW k \in Copy,
              RetryLost(j, m, k) \/ RetryOk(j, m, k, k) \/ RetryOk(j, m, k, NoId)
       PROVE  [Life!Next]_(Life!lifeVars)
  <2>1. Accept(m, k) /\ UNCHANGED <<status, timeline, confirmed>> /\ status[m] # NoRow
    BY <1>1, <1>10 DEF RetryLost, RetryOk, row, OthersOfSweep
  <2>2. QED
    BY <2>1, TakeSimulates
<1>11. QED
  BY <1>4, <1>5, <1>6, <1>7, <1>8, <1>9, <1>10 DEF SweepStep, SweepProgress

LEMMA CallbackSimulates ==
    ASSUME TypeOK, Evidence, RowsFirst, NEW h \in Handler, CallbackStep(h)
    PROVE  [Life!Next]_(Life!lifeVars)
<1>1. callback[h] \in CallbackState /\ CallbackKnows(h) /\ CallsRow(h)
  BY DEF TypeOK, Evidence, CallbackEvidence, RowsFirst
<1>2. CASE Reject(h) \/ CallbackDbError(h)
  BY <1>2, NothingSimulates DEF Reject, CallbackDbError, row, OthersOfCallback
<1>3. ASSUME NEW m \in Message, NEW k \in Copy, Lookup(h, m, k)
      PROVE  [Life!Next]_(Life!lifeVars)
  BY <1>3, NothingSimulates DEF Lookup, row, OthersOfCallback
<1>4. ASSUME NEW m \in Message, CallbackRead(h, m) PROVE [Life!Next]_(Life!lifeVars)
  <2>1. /\ callback[h].st \in Status /\ Shown(m, callback[h].st) /\ status[m] # NoRow
        /\ AppendTimeline(m, callback[h].st) /\ UNCHANGED <<status, fate, confirmed>>
    BY <1>1, <1>4 DEF CallbackRead, CallbackState, CallbackKnows, CallsRow, row, OthersOfCallback
  <2>2. QED
    BY <2>1, WriteSimulates
<1>5. ASSUME NEW m \in Message, CallbackWrite(h, m) PROVE [Life!Next]_(Life!lifeVars)
  <2>1. /\ callback[h].st \in Status /\ Shown(m, callback[h].st) /\ status[m] # NoRow
        /\ callback[h].st \in timeline[m]
        /\ RecordWrite(m, callback[h].seen, callback[h].st)
        /\ UNCHANGED <<timeline, fate, confirmed>>
    BY <1>1, <1>5 DEF CallbackWrite, CallbackState, CallbackKnows, CallsRow, OthersOfCallback
  <2>2. QED
    BY <2>1, RecordSimulates
<1>6. QED
  BY <1>2, <1>3, <1>4, <1>5 DEF CallbackStep

\* MessageDelivery implements MessageLife: requests, sweeps, callbacks, errors and kills
\* together do nothing to a message that the tables could not account for
\* (outgoingMessage.service.js, retryOutgoingMessages.job.js, messageStatus.handler.js).
THEOREM DeliveryImplementsLife == Spec => ImplementsMessageLife
<1>1. Init => Life!Init
  BY DEF Init, Life!Init, NoRow
<1>2. ASSUME TypeOK, Evidence, RowsFirst, [Next]_vars
      PROVE  [Life!Next]_(Life!lifeVars)
  <2>1. ASSUME NEW m \in Message, NEW k \in Copy, Advance(m, k)
        PROVE  [Life!Next]_(Life!lifeVars)
    <3>1. UNCHANGED <<status, timeline, confirmed>> /\ Accepted(m)
      BY <2>1 DEF Advance, Accepted, row
    <3>2. status[m] # NoRow
      BY <1>2, <3>1 DEF RowsFirst, RowFirst
    <3>3. QED
      BY <1>2, <2>1, <3>1, <3>2, TakeSimulates
  <2>2. CASE Crash \/ UNCHANGED vars
    BY <2>2, NothingSimulates DEF Crash, vars, row
  <2>3. QED
    BY <1>2, <2>1, <2>2, SenderSimulates, SweepSimulates, CallbackSimulates DEF Next
<1>3. QED
  BY <1>1, <1>2, TypeCorrect, EvidenceHolds, RowsComeFirst, PTL
     DEF Spec, ImplementsMessageLife, Life!Spec
=============================================================================
