--------------------------- MODULE MessageDelivery ---------------------------
(***************************************************************************)
(* The life of an outgoing WhatsApp message: the row of table "messages"   *)
(* that src/src/services/outgoingMessage.service.js (API sends) and        *)
(* src/src/webhooks/bitrix24/handlers/operatorMessage.handler.js (operator *)
(* replies) create, the sweeps of src/src/jobs/retryOutgoingMessages.job.js *)
(* that re-send it, and the provider's status callbacks that               *)
(* src/src/webhooks/whatsbox/handlers/messageStatus.handler.js applies.    *)
(*                                                                         *)
(* One Node.js process runs all of them; they interleave wherever the code *)
(* awaits, so one action here is the code between two awaits.  A database  *)
(* row outlives the process, the position of a task in its code does not.  *)
(***************************************************************************)
EXTENDS Integers, FiniteSets

CONSTANTS
    Message,     \* ids of the outgoing rows (autoincrement, in creation order)
    Copy,        \* provider ids; one per copy the provider accepts of a message
    NoId,        \* the null of an id column
    Origins,     \* who sends: subset of {"api", "operator"}
    Providers,   \* provider of the conversation: subset of {"WHATSBOX", "META"}
    Sweeper,     \* instances of RetryOutgoingMessagesJob
    MaxRetries,  \* maxRetries each instance runs with
    Limit,       \* "take" of findPendingOutgoing
    Handler,     \* status callbacks handled at the same time
    Faults,      \* subset of {"lostAnswer", "dbError"}: what may go wrong
    MaxCrashes   \* bound: how often the process is killed

ASSUME MessageAssumption  == Message \subseteq Nat \ {0}
ASSUME NoIdAssumption     == NoId \notin Copy
ASSUME OriginAssumption   == Origins \subseteq {"api", "operator"}
ASSUME ProviderAssumption == Providers \subseteq {"WHATSBOX", "META"}
ASSUME RetryAssumption    == MaxRetries \in [Sweeper -> Nat \ {0}]
ASSUME LimitAssumption    == Limit \in Nat \ {0}
ASSUME CrashAssumption    == MaxCrashes \in Nat

VARIABLES
    status,      \* MessageState of the row, or NoRow while it does not exist
    retryCount,  \* the row's retryCount
    sentAt,      \* whether the row's sentAt is set
    whatsboxId,  \* the row's whatsboxMessageId
    wamid,       \* the row's wamid
    timeline,    \* statuses in the MessageStatus history of the row
    origin,      \* who created the row
    provider,    \* provider of the row's conversation
    confirmed,   \* delivery of the reply was confirmed to Bitrix24
    fate,        \* what became of each copy at the provider
    sender,      \* the request that created the row and sends it
    sweep,       \* each retry job instance
    callback,    \* each status callback being handled
    crashes      \* how often the process was killed

row      == <<status, retryCount, sentAt, whatsboxId, wamid>>
made     == <<origin, provider>>
vars     == <<row, timeline, made, confirmed, fate, sender, sweep, callback, crashes>>

NoRow     == "NONE"
NoMessage == 0
Status    == {"PENDING", "SENT", "DELIVERED", "READ", "FAILED"}
Fate      == {"none", "accepted", "delivered", "read", "failed"}
Id        == Copy \cup {NoId}

SenderState ==
    [pc   : {"idle", "send", "ids", "read", "write", "mark", "confirm", "done"},
     id   : Id, st : {"SENT", "FAILED"}, seen : Status \cup {NoRow}]
SweepState ==
    [pc   : {"idle", "send", "ids", "audit", "mark", "fail", "auditFail"},
     todo : SUBSET Message, snap : [Message -> Nat], id : Id]
CallbackState ==
    [pc   : {"idle", "threw", "read", "write"}, msg : Message \cup {NoMessage},
     id   : Id, st : Status, seen : Status \cup {NoRow}]

IdleSender   == [pc |-> "idle", id |-> NoId, st |-> "SENT", seen |-> NoRow]
DoneSender   == [IdleSender EXCEPT !.pc = "done"]
IdleSweep    == [pc |-> "idle", todo |-> {}, snap |-> [m \in Message |-> 0], id |-> NoId]
IdleCallback == [pc |-> "idle", msg |-> NoMessage, id |-> NoId, st |-> "SENT", seen |-> NoRow]

Init ==
    /\ status     = [m \in Message |-> NoRow]
    /\ retryCount = [m \in Message |-> 0]
    /\ sentAt     = [m \in Message |-> FALSE]
    /\ whatsboxId = [m \in Message |-> NoId]
    /\ wamid      = [m \in Message |-> NoId]
    /\ timeline   = [m \in Message |-> {}]
    /\ origin     \in [Message -> Origins]
    /\ provider   \in [Message -> Providers]
    /\ confirmed  = [m \in Message |-> FALSE]
    /\ fate       = [m \in Message |-> [k \in Copy |-> "none"]]
    /\ sender     = [m \in Message |-> IdleSender]
    /\ sweep      = [j \in Sweeper |-> IdleSweep]
    /\ callback   = [h \in Handler |-> IdleCallback]
    /\ crashes    = 0

-----------------------------------------------------------------------------
(* The provider (external).                                                *)

\* Some copy of m reached the provider.
Accepted(m) == \E k \in Copy : fate[m][k] # "none"

\* What a callback about a copy may say: every stage the copy went through.
\* Callbacks are delayed, repeated, reordered and lost freely, so one may arrive
\* at any time after the copy got there.
Reported(f) ==
    (IF f = "none" THEN {} ELSE {"queued", "accepted"})
    \cup (IF f \in {"delivered", "read"} THEN {"delivered"} ELSE {})
    \cup (IF f \in {"read", "failed"} THEN {f} ELSE {})

\* Bug: STATUS_MAP takes the provider's "accepted" for a delivery.
Canonical_AcceptedIsDelivered(word) ==
    CASE word = "queued" -> "PENDING" [] word \in {"accepted", "delivered"} -> "DELIVERED"
      [] word = "read" -> "READ"      [] word = "failed" -> "FAILED"

\* STATUS_MAP of the normalizer ("pending" and "sent" map as "queued", "accepted").
Canonical(word) ==
    CASE word = "queued" -> "PENDING"      [] word = "accepted" -> "SENT"
      [] word = "delivered" -> "DELIVERED" [] word = "read" -> "READ"
      [] word = "failed" -> "FAILED"

\* The provider takes one more copy of m under a new id k.
Accept(m, k) ==
    /\ fate[m][k] = "none"
    /\ fate' = [fate EXCEPT ![m][k] = "accepted"]

\* A copy moves on at the provider.
Advance(m, k) ==
    /\ \E f \in Fate :
          /\ \/ fate[m][k] = "accepted"  /\ f \in {"delivered", "failed"}
             \/ fate[m][k] = "delivered" /\ f = "read"
          /\ fate' = [fate EXCEPT ![m][k] = f]
    /\ UNCHANGED <<row, timeline, made, confirmed, sender, sweep, callback, crashes>>

-----------------------------------------------------------------------------
(* Row updates, as message.repository.js writes them.                      *)

\* STATUS_ORDER; FAILED is not in it and ranks -1.
Rank(s) == CASE s = "PENDING" -> 0 [] s = "SENT" -> 1
             [] s = "DELIVERED" -> 2 [] s = "READ" -> 3 [] OTHER -> -1

\* Bug: FAILED replaces any state, a delivered one too.
MovesRow_FailedReplacesAny(seen, st) == st = "FAILED" \/ Rank(st) > Rank(seen)

\* recordMessageStatus writes st over a row it has seen in state seen.
MovesRow(seen, st) ==
    \/ st = "FAILED" /\ Rank(seen) <= Rank("SENT")
    \/ st # "FAILED" /\ Rank(st) > Rank(seen)

\* updateStatus: sentAt becomes null unless the caller passes one.
UpdateStatus(m, st, dated) ==
    /\ status' = [status EXCEPT ![m] = st]
    /\ sentAt' = [sentAt EXCEPT ![m] = dated]
    /\ UNCHANGED <<retryCount, whatsboxId, wamid>>

\* updateOutgoingMessageId: both id columns are written, one of them to null.
UpdateIds(m, wb, wa) ==
    /\ whatsboxId' = [whatsboxId EXCEPT ![m] = wb]
    /\ wamid'      = [wamid EXCEPT ![m] = wa]
    /\ UNCHANGED <<status, retryCount, sentAt>>

\* messageStatusRepo.create.
AppendTimeline(m, st) == timeline' = [timeline EXCEPT ![m] = @ \cup {st}]

\* The write of recordMessageStatus, decided on the status it read before.
RecordWrite(m, seen, st) ==
    IF MovesRow(seen, st) THEN UpdateStatus(m, st, FALSE) ELSE UNCHANGED row

-----------------------------------------------------------------------------
(* A send request: sendText / sendMedia, or the operator reply handler.    *)

OthersOfSender == <<made, sweep, callback, crashes>>

\* Where the request goes once the outcome is on the row: the operator handler
\* confirms to Bitrix24 whatever the outcome, an API request answers.
AfterOutcome(m) == IF origin[m] = "operator" THEN "confirm" ELSE "done"

\* API sends always use WhatsBox; operator replies the conversation's provider.
SentOverMeta(m) == origin[m] = "operator" /\ provider[m] = "META"

\* Bug: the request sends although the insert has failed.
Save_Unstored(m) ==
    /\ sender[m].pc = "idle"
    /\ \A n \in Message : n < m => status[n] # NoRow
    /\ \/ status' = [status EXCEPT ![m] = "PENDING"]
       \/ "dbError" \in Faults /\ UNCHANGED status
    /\ sender' = [sender EXCEPT ![m] = [@ EXCEPT !.pc = "send"]]
    /\ UNCHANGED <<retryCount, sentAt, whatsboxId, wamid, timeline, confirmed, fate, OthersOfSender>>

\* saveMessage; touching the conversation or the contact may fail after the
\* insert, and the request ends with the row stored and nothing sent.
Save(m) ==
    /\ sender[m].pc = "idle"
    /\ \A n \in Message : n < m => status[n] # NoRow
    /\ status' = [status EXCEPT ![m] = "PENDING"]
    /\ \/ sender' = [sender EXCEPT ![m] = [@ EXCEPT !.pc = "send"]]
       \/ "dbError" \in Faults /\ sender' = [sender EXCEPT ![m] = DoneSender]
    /\ UNCHANGED <<retryCount, sentAt, whatsboxId, wamid, timeline, confirmed, fate, OthersOfSender>>

\* The provider answers; its answer may lack an id ("|| null").
SendOk(m, k, id) ==
    /\ sender[m].pc = "send"
    /\ Accept(m, k)
    /\ sender' = [sender EXCEPT ![m] = [@ EXCEPT !.pc = "ids", !.id = id]]
    /\ UNCHANGED <<row, timeline, confirmed, OthersOfSender>>

\* The provider takes a copy and its answer is lost: a transient error, which
\* the HTTP client retries by posting again.
SendLost(m, k) ==
    /\ "lostAnswer" \in Faults
    /\ sender[m].pc = "send"
    /\ Accept(m, k)
    /\ UNCHANGED <<row, timeline, confirmed, sender, OthersOfSender>>

\* Bug: the error of the provider is swallowed and the row marked SENT.
SendError_Swallowed(m) ==
    /\ sender[m].pc = "send"
    /\ sender' = [sender EXCEPT ![m] = [@ EXCEPT !.pc = "read"]]
    /\ UNCHANGED <<row, timeline, confirmed, fate, OthersOfSender>>

\* The provider call ends in an error (or nothing could be sent at all).
SendError(m) ==
    /\ sender[m].pc = "send"
    /\ sender' = [sender EXCEPT ![m] = [@ EXCEPT !.pc = "read", !.st = "FAILED"]]
    /\ UNCHANGED <<row, timeline, confirmed, fate, OthersOfSender>>

\* updateOutgoingMessageId after a send that succeeded.
SenderStoreIds(m) ==
    /\ sender[m].pc = "ids"
    /\ IF SentOverMeta(m) THEN UpdateIds(m, NoId, sender[m].id)
                          ELSE UpdateIds(m, sender[m].id, NoId)
    /\ sender' = [sender EXCEPT ![m] = [@ EXCEPT !.pc = "read", !.id = NoId]]
    /\ UNCHANGED <<timeline, confirmed, fate, OthersOfSender>>

\* recordMessageStatus: read the row, append the history row ...
SenderRead(m) ==
    /\ sender[m].pc = "read"
    /\ AppendTimeline(m, sender[m].st)
    /\ sender' = [sender EXCEPT ![m] = [@ EXCEPT !.pc = "write", !.seen = status[m]]]
    /\ UNCHANGED <<row, confirmed, fate, OthersOfSender>>

\* ... and move the row, judging by what was read.
SenderWrite(m) ==
    /\ sender[m].pc = "write"
    /\ RecordWrite(m, sender[m].seen, sender[m].st)
    /\ sender' = [sender EXCEPT ![m] = [@ EXCEPT !.seen = NoRow,
          !.pc = IF sender[m].st = "SENT" THEN "mark" ELSE AfterOutcome(m)]]
    /\ UNCHANGED <<timeline, confirmed, fate, OthersOfSender>>

\* updateStatus(SENT, { sentAt }), whatever the row says by now.
SenderMarkSent(m) ==
    /\ sender[m].pc = "mark"
    /\ UpdateStatus(m, "SENT", TRUE)
    /\ sender' = [sender EXCEPT ![m] = [@ EXCEPT !.pc = AfterOutcome(m)]]
    /\ UNCHANGED <<timeline, confirmed, fate, OthersOfSender>>

\* _confirmDelivery: best effort, the Bitrix24 call may fail.
Confirm(m) ==
    /\ sender[m].pc = "confirm"
    /\ \E ok \in BOOLEAN : confirmed' = [confirmed EXCEPT ![m] = ok]
    /\ sender' = [sender EXCEPT ![m] = DoneSender]
    /\ UNCHANGED <<row, timeline, fate, OthersOfSender>>

\* A database call of the request throws.  An API send that had succeeded goes
\* to _markFailed; in every other case the request ends there.
SenderDbError(m) ==
    /\ "dbError" \in Faults
    /\ sender[m].pc \in {"ids", "read", "write", "mark"}
    /\ sender' = IF origin[m] = "api" /\ sender[m].st = "SENT"
                 THEN [sender EXCEPT ![m] = [IdleSender EXCEPT !.pc = "read", !.st = "FAILED"]]
                 ELSE [sender EXCEPT ![m] = DoneSender]
    /\ UNCHANGED <<row, timeline, confirmed, fate, OthersOfSender>>

SenderStep(m) ==
    \/ Save(m) \/ SendError(m) \/ SenderStoreIds(m) \/ SenderRead(m)
    \/ SenderWrite(m) \/ SenderMarkSent(m) \/ Confirm(m) \/ SenderDbError(m)
    \/ \E k \in Copy : SendLost(m, k) \/ SendOk(m, k, k) \/ SendOk(m, k, NoId)

-----------------------------------------------------------------------------
(* A sweep of RetryOutgoingMessagesJob.                                    *)

OthersOfSweep == <<made, confirmed, sender, callback, crashes>>

\* Bug: the budget is compared with <=.
Retriable_OneTooMany(max, recent) ==
    {m \in Message : /\ status[m] \in {"PENDING", "FAILED"}
                     /\ retryCount[m] <= max
                     /\ sentAt[m] => m \notin recent}

\* Bug: only PENDING rows are fetched.
Retriable_PendingOnly(max, recent) ==
    {m \in Message : /\ status[m] = "PENDING"
                     /\ retryCount[m] < max
                     /\ sentAt[m] => m \notin recent}

\* findPendingOutgoing.  recent is the set of rows the age filter rejects: only a
\* row whose sentAt is set can be, for "sentAt: null" alone satisfies the OR.
Retriable(max, recent) ==
    {m \in Message : /\ status[m] \in {"PENDING", "FAILED"}
                     /\ retryCount[m] < max
                     /\ sentAt[m] => m \notin recent}

\* The oldest Limit of them.
Batch(max, recent) ==
    {m \in Retriable(max, recent) :
        Cardinality({n \in Retriable(max, recent) : n < m}) < Limit}

\* run(): nothing while this instance is running; the backlog, retryCount
\* included, is read once for the whole sweep.
Scan(j) ==
    /\ sweep[j].pc = "idle"
    /\ \E recent \in SUBSET {m \in Message : sentAt[m]} :
          LET batch == Batch(MaxRetries[j], recent) IN
          /\ batch # {}
          /\ sweep' = [sweep EXCEPT ![j] =
                [pc |-> "send", todo |-> batch, id |-> NoId,
                 snap |-> [m \in Message |-> IF m \in batch THEN retryCount[m] ELSE 0]]]
    /\ UNCHANGED <<row, timeline, fate, OthersOfSweep>>

\* m is the message of the sweep's current _retryOne.
Current(j, m) == m \in sweep[j].todo /\ \A n \in sweep[j].todo : m <= n

\* Bug: the sweep does not move on to the next message.
NextMessage_Stays(j, m) ==
    sweep' = [sweep EXCEPT ![j] = [sweep[j] EXCEPT !.pc = "send", !.id = NoId]]

\* The sweep is done with m.
NextMessage(j, m) ==
    sweep' = [sweep EXCEPT ![j] =
        IF sweep[j].todo = {m} THEN IdleSweep
        ELSE [sweep[j] EXCEPT !.pc = "send", !.todo = @ \ {m}, !.id = NoId]]

RetryOk(j, m, k, id) ==
    /\ sweep[j].pc = "send"
    /\ Current(j, m)
    /\ Accept(m, k)
    /\ sweep' = [sweep EXCEPT ![j] = [@ EXCEPT !.pc = "ids", !.id = id]]
    /\ UNCHANGED <<row, timeline, OthersOfSweep>>

RetryLost(j, m, k) ==
    /\ "lostAnswer" \in Faults
    /\ sweep[j].pc = "send"
    /\ Current(j, m)
    /\ Accept(m, k)
    /\ UNCHANGED <<row, timeline, sweep, OthersOfSweep>>

\* _send throws: a provider error, or a message that cannot be re-sent.
RetryError(j, m) ==
    /\ sweep[j].pc = "send"
    /\ Current(j, m)
    /\ sweep' = [sweep EXCEPT ![j] = [@ EXCEPT !.pc = "fail"]]
    /\ UNCHANGED <<row, timeline, fate, OthersOfSweep>>

\* Bug: the history row of a successful retry is left out.
RetryStoreIds_SkipsAudit(j, m) ==
    /\ sweep[j].pc = "ids"
    /\ Current(j, m)
    /\ IF provider[m] = "META" THEN UpdateIds(m, NoId, sweep[j].id)
                               ELSE UpdateIds(m, sweep[j].id, NoId)
    /\ sweep' = [sweep EXCEPT ![j] = [@ EXCEPT !.pc = "mark", !.id = NoId]]
    /\ UNCHANGED <<timeline, fate, OthersOfSweep>>

\* _backfillProviderId.
RetryStoreIds(j, m) ==
    /\ sweep[j].pc = "ids"
    /\ Current(j, m)
    /\ IF provider[m] = "META" THEN UpdateIds(m, NoId, sweep[j].id)
                               ELSE UpdateIds(m, sweep[j].id, NoId)
    /\ sweep' = [sweep EXCEPT ![j] = [@ EXCEPT !.pc = "audit", !.id = NoId]]
    /\ UNCHANGED <<timeline, fate, OthersOfSweep>>

\* _recordAttempt(SENT), then updateStatus(SENT, { sentAt }).
RetryAudit(j, m) ==
    /\ sweep[j].pc = "audit"
    /\ Current(j, m)
    /\ AppendTimeline(m, "SENT")
    /\ sweep' = [sweep EXCEPT ![j] = [@ EXCEPT !.pc = "mark"]]
    /\ UNCHANGED <<row, fate, OthersOfSweep>>

RetryMarkSent(j, m) ==
    /\ sweep[j].pc = "mark"
    /\ Current(j, m)
    /\ UpdateStatus(m, "SENT", TRUE)
    /\ NextMessage(j, m)
    /\ UNCHANGED <<timeline, fate, OthersOfSweep>>

\* Bug: the failed attempt is counted backwards.
Attempt_Down(j, m) == sweep[j].snap[m] - 1

\* The catch of _retryOne counts from the snapshot.
Attempt(j, m)   == sweep[j].snap[m] + 1
FailedAs(j, m)  == IF Attempt(j, m) >= MaxRetries[j] THEN "FAILED" ELSE "PENDING"

RetryFail(j, m) ==
    /\ sweep[j].pc = "fail"
    /\ Current(j, m)
    /\ retryCount' = [retryCount EXCEPT ![m] = Attempt(j, m)]
    /\ status'     = [status EXCEPT ![m] = FailedAs(j, m)]
    /\ sweep'      = [sweep EXCEPT ![j] = [@ EXCEPT !.pc = "auditFail"]]
    /\ UNCHANGED <<sentAt, whatsboxId, wamid, timeline, fate, OthersOfSweep>>

RetryFailAudit(j, m) ==
    /\ sweep[j].pc = "auditFail"
    /\ Current(j, m)
    /\ AppendTimeline(m, FailedAs(j, m))
    /\ NextMessage(j, m)
    /\ UNCHANGED <<row, fate, OthersOfSweep>>

\* A database call throws: inside the try it ends in the catch of _retryOne; inside
\* that catch it ends the sweep, and "finally" clears running.
SweepDbError(j) ==
    /\ "dbError" \in Faults
    /\ \/ /\ sweep[j].pc \in {"ids", "audit", "mark"}
          /\ sweep' = [sweep EXCEPT ![j] = [@ EXCEPT !.pc = "fail", !.id = NoId]]
       \/ /\ sweep[j].pc \in {"fail", "auditFail"}
          /\ sweep' = [sweep EXCEPT ![j] = IdleSweep]
    /\ UNCHANGED <<row, timeline, fate, OthersOfSweep>>

\* What a sweep does next when the database answers.
SweepProgress(j) ==
    \/ Scan(j)
    \/ \E m \in Message :
          \/ RetryError(j, m) \/ RetryStoreIds(j, m) \/ RetryAudit(j, m)
          \/ RetryMarkSent(j, m) \/ RetryFail(j, m) \/ RetryFailAudit(j, m)
          \/ \E k \in Copy : RetryLost(j, m, k) \/ RetryOk(j, m, k, k) \/ RetryOk(j, m, k, NoId)

SweepStep(j) == SweepProgress(j) \/ SweepDbError(j)

-----------------------------------------------------------------------------
(* A status callback: MessageStatusHandler.handle.                         *)

OthersOfCallback == <<made, confirmed, fate, sender, sweep, crashes>>

\* _findMessage: the whatsboxMessageId column finds the row.  Otherwise
\* findByWamid runs findUnique on a column that is not unique, which Prisma
\* rejects: the handler throws and the event is acknowledged all the same.
Lookup(h, m, k) ==
    /\ callback[h].pc = "idle"
    /\ status[m] # NoRow
    /\ \E word \in Reported(fate[m][k]) :
          callback' = [callback EXCEPT ![h] =
              [pc   |-> IF whatsboxId[m] = k THEN "read" ELSE "threw",
               msg  |-> m, id |-> k, st |-> Canonical(word), seen |-> NoRow]]
    /\ UNCHANGED <<row, timeline, OthersOfCallback>>

\* The webhook controller logs the failed event and answers 200.
Reject(h) ==
    /\ callback[h].pc = "threw"
    /\ callback' = [callback EXCEPT ![h] = IdleCallback]
    /\ UNCHANGED <<row, timeline, OthersOfCallback>>

\* recordMessageStatus: read the row, append the history row ...
CallbackRead(h, m) ==
    /\ callback[h].pc = "read"
    /\ callback[h].msg = m
    /\ AppendTimeline(m, callback[h].st)
    /\ callback' = [callback EXCEPT ![h] = [@ EXCEPT !.pc = "write", !.seen = status[m]]]
    /\ UNCHANGED <<row, OthersOfCallback>>

\* ... and move the row, judging by what was read.
CallbackWrite(h, m) ==
    /\ callback[h].pc = "write"
    /\ callback[h].msg = m
    /\ RecordWrite(m, callback[h].seen, callback[h].st)
    /\ callback' = [callback EXCEPT ![h] = IdleCallback]
    /\ UNCHANGED <<timeline, OthersOfCallback>>

\* A database call throws: the event is logged as failed and acknowledged.
CallbackDbError(h) ==
    /\ "dbError" \in Faults
    /\ callback[h].pc \in {"read", "write"}
    /\ callback' = [callback EXCEPT ![h] = IdleCallback]
    /\ UNCHANGED <<row, timeline, OthersOfCallback>>

CallbackStep(h) ==
    \/ Reject(h) \/ CallbackDbError(h)
    \/ \E m \in Message : \/ CallbackRead(h, m) \/ CallbackWrite(h, m)
                          \/ \E k \in Copy : Lookup(h, m, k)

-----------------------------------------------------------------------------

\* The process is killed and restarted: every task is forgotten, rows stay.
Crash ==
    /\ crashes < MaxCrashes
    /\ crashes'  = crashes + 1
    /\ sender'   = [m \in Message |-> IF sender[m].pc = "idle" THEN sender[m] ELSE DoneSender]
    /\ sweep'    = [j \in Sweeper |-> IdleSweep]
    /\ callback' = [h \in Handler |-> IdleCallback]
    /\ UNCHANGED <<row, timeline, made, confirmed, fate>>

Next ==
    \/ \E m \in Message : SenderStep(m) \/ \E k \in Copy : Advance(m, k)
    \/ \E j \in Sweeper : SweepStep(j)
    \/ \E h \in Handler : CallbackStep(h)
    \/ Crash

Spec == Init /\ [][Next]_vars

\* setInterval starts sweeps for ever, and an awaited call returns or throws.
Fairness == \A j \in Sweeper : WF_vars(SweepProgress(j))
FairSpec == Spec /\ Fairness
-----------------------------------------------------------------------------
(* What holds.                                                             *)

\* Every variable has its type.
TypeOK ==
    /\ status     \in [Message -> Status \cup {NoRow}]
    /\ retryCount \in [Message -> Nat]
    /\ sentAt     \in [Message -> BOOLEAN]
    /\ whatsboxId \in [Message -> Id]
    /\ wamid      \in [Message -> Id]
    /\ timeline   \in [Message -> SUBSET Status]
    /\ origin     \in [Message -> Origins]
    /\ provider   \in [Message -> Providers]
    /\ confirmed  \in [Message -> BOOLEAN]
    /\ fate       \in [Message -> [Copy -> Fate]]
    /\ sender     \in [Message -> SenderState]
    /\ sweep      \in [Sweeper -> SweepState]
    /\ callback   \in [Handler -> CallbackState]
    /\ crashes    \in 0..MaxCrashes

\* A row that shows SENT, DELIVERED or READ belongs to a message the provider took:
\* no interleaving of requests, sweeps, callbacks, errors and kills reports a
\* message as sent that never left (outgoingMessage.service.js _markSent,
\* retryOutgoingMessages.job.js _retryOne, conversation.service.js
\* recordMessageStatus).
SentMeansAccepted ==
    \A m \in Message : status[m] \in {"SENT", "DELIVERED", "READ"} => Accepted(m)

\* A row that shows DELIVERED or READ belongs to a message of which the provider
\* delivered, respectively showed, some copy (messageStatus.handler.js).
DeliveredMeansDelivered ==
    \A m \in Message :
        /\ status[m] = "DELIVERED" => \E k \in Copy : fate[m][k] \in {"delivered", "read"}
        /\ status[m] = "READ"      => \E k \in Copy : fate[m][k] = "read"

\* A row never shows a success that its history does not record, not even when the
\* process is killed between the two writes (messageStatus.repository.js: "Each
\* provider status update writes a new row so we keep the full timeline").
SuccessIsRecorded ==
    \A m \in Message :
        status[m] \in {"SENT", "DELIVERED", "READ"} => status[m] \in timeline[m]

\* Bitrix24 is told that a reply was delivered only after the outcome of a send
\* attempt is in the reply's history (operatorMessage.handler.js: persist, deliver,
\* advance, confirm).
ConfirmedHasOutcome ==
    \A m \in Message : confirmed[m] => timeline[m] \cap {"SENT", "FAILED"} # {}

\* What the tables tell of a message, whatever its tasks do: it is stored before it leaves
\* (outgoingMessage.service.js saves before it sends), each task writes one thing at a
\* time, shows no success but what happened and the history has, and confirms a reply
\* once (operatorMessage.handler.js).
Life == INSTANCE MessageLife
ImplementsMessageLife == Life!Spec

\* A callback step never takes DELIVERED or READ back ("a message that was already
\* delivered or read is terminal", conversation.service.js recordMessageStatus).
CallbackKeepsDelivered ==
    [][callback' # callback =>
        \A m \in Message :
            status[m] \in {"DELIVERED", "READ"} => Rank(status'[m]) >= Rank(status[m])]_vars

\* m is re-sent by a sweep in this step.
Resent(j, m) == Current(j, m) /\ sweep[j].pc = "send" /\ sweep'[j].pc = "ids"

\* Once the budget is exhausted a sweep does not post the message again
\* ("instead of hammering the provider", retryOutgoingMessages.job.js).
ExhaustedNotResent ==
    [][\A j \in Sweeper, m \in Message :
        Resent(j, m) => retryCount[m] < MaxRetries[j]]_vars

\* Every stored message is taken by the provider in the end, or some job has used
\* up its budget on it: no row is left behind by an error, a kill or a failed send.
StoredMessageSettles ==
    \A m \in Message :
        status[m] # NoRow ~> (Accepted(m) \/ \E j \in Sweeper : retryCount[m] >= MaxRetries[j])

\* A sweep ends, so "running" never blocks the sweeps to come.
SweepReleases == \A j \in Sweeper : sweep[j].pc # "idle" ~> sweep[j].pc = "idle"

-----------------------------------------------------------------------------
(* Why the invariants hold: what every task in flight knows.               *)

\* The provider and the history of m vouch for status st.
Shown(m, st) ==
    /\ st \in {"SENT", "DELIVERED", "READ"} => Accepted(m)
    /\ st = "DELIVERED" => \E k \in Copy : fate[m][k] \in {"delivered", "read"}
    /\ st = "READ"      => \E k \in Copy : fate[m][k] = "read"

RowEvidence ==
    \A m \in Message :
        /\ Shown(m, status[m])
        /\ status[m] \in {"SENT", "DELIVERED", "READ"} => status[m] \in timeline[m]

\* What the request that sends m knows, wherever it stands.
SenderKnows(m) ==
    /\ sender[m].pc \in {"ids", "mark"} => Accepted(m)
    /\ sender[m].pc \in {"read", "write"} /\ sender[m].st = "SENT" => Accepted(m)
    /\ sender[m].pc = "write" => sender[m].st \in timeline[m]
    /\ sender[m].pc = "mark" => "SENT" \in timeline[m]
    /\ sender[m].pc = "confirm" \/ confirmed[m] =>
          timeline[m] \cap {"SENT", "FAILED"} # {}

\* What sweep j knows of m.
SweepKnows(j, m) == Current(j, m) =>
    /\ sweep[j].pc \in {"ids", "audit", "mark"} => Accepted(m)
    /\ sweep[j].pc = "mark" => "SENT" \in timeline[m]

\* What the callback that h handles knows.
CallbackKnows(h) == callback[h].pc \in {"read", "write"} =>
    /\ callback[h].msg \in Message
    /\ Shown(callback[h].msg, callback[h].st)
    /\ callback[h].pc = "write" => callback[h].st \in timeline[callback[h].msg]

SenderEvidence   == \A m \in Message : SenderKnows(m)
SweepEvidence    == \A j \in Sweeper, m \in Message : SweepKnows(j, m)
CallbackEvidence == \A h \in Handler : CallbackKnows(h)

\* The inductive invariant: nobody holds a success the provider did not report.
Evidence ==
    RowEvidence /\ SenderEvidence /\ SweepEvidence /\ CallbackEvidence

-----------------------------------------------------------------------------
(* What the comments promise and the code does not keep.                   *)

\* "State transitions are monotonic [...] do not move the message backwards"
\* (conversation.service.js recordMessageStatus), of every writer of the row.
DeliveredIsKept ==
    [][\A m \in Message :
        status[m] \in {"DELIVERED", "READ"} => Rank(status'[m]) >= Rank(status[m])]_vars

\* "The handler resolves it to a local message" by whatsboxMessageId or wamid
\* (messageStatus.handler.js).
KnownIdIsResolved ==
    \A h \in Handler :
        callback[h].pc = "threw" => wamid[callback[h].msg] # callback[h].id
=============================================================================
