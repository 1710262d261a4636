---------------------------- MODULE WebhookIntake ----------------------------
(***************************************************************************)
(* What the three webhook controllers do with a notice: normalise it into   *)
(* events, and for each event write a row to webhook_logs, hand the event to *)
(* its handler, settle the row; then acknowledge the notice, so that the    *)
(* provider does not send it again.  (src/src/webhooks/whatsbox, meta and   *)
(* bitrix24: webhook.controller.js and normalizers.js.)                     *)
(*                                                                         *)
(* What a handler does with an event is MessageDelivery (status callbacks), *)
(* ConversationHandling and CustomerResolution (messages and replies); here *)
(* it returns or it throws.  The provider is external: it repeats a notice  *)
(* that was not acknowledged, also while an earlier delivery of it is still *)
(* being handled.                                                           *)
(***************************************************************************)
EXTENDS Naturals, FiniteSets, SequencesExt

CONSTANTS
    Event,          \* the messages, statuses and replies that notices carry
    Bad,            \* an element that the normalizer cannot read
    Bodies,         \* what a notice may contain
    Notice,         \* the notices of the providers
    Delivery,       \* deliveries handled at the same time
    MaxDeliveries,  \* bound: how often a provider sends one notice
    RefusedWrites   \* subset of {"create", "update"}: writes the database may refuse

\* A body has a source, a shape, and elements in changes.  Shapes: text that is no JSON;
\* JSON that names no event; entry/changes lists; such lists with a null entry; WhatsBox's
\* flat envelope.  Bitrix24 sends one MESSAGES list, or an event of another kind, which is
\* an element as well; the middleware before the controller has parsed it, and there is no
\* element its normalizer cannot read.
Shape == {"notJson", "nothing", "changes", "nullEntry", "flat"}

ASSUME BodiesAssumption ==
    /\ Bad \notin Event
    /\ \A b \in Bodies :
          /\ b.source \in {"WHATSBOX", "META", "BITRIX24"} /\ b.shape \in Shape
          /\ b.changes \in Seq(Seq(Event \cup {Bad}))
          /\ b.shape = "flat" => b.changes # <<>> /\ b.changes[1] # <<>>
          /\ b.source = "BITRIX24" =>
                /\ b.shape \in {"nothing", "changes"}
                /\ \A i \in DOMAIN b.changes : Bad \notin Range(b.changes[i])
ASSUME NoticeAssumption == Notice # {}
ASSUME DeliveriesAssumption == MaxDeliveries \in Nat /\ IsFiniteSet(Delivery)

VARIABLES
    body,      \* the content of each notice
    notice,    \* what the provider knows of it, and how often it was delivered
    work,      \* each delivery being handled
    audit,     \* rows of webhook_logs about each event, by status
    rejects,   \* its "parse_error" rows
    handled,   \* history: how often a handler returned for the event
    unlogged,  \* history: events whose row the database refused to create
    abandoned  \* history: rows nobody is going to settle any more

intakeVars == <<body, notice, work, audit, rejects, handled, unlogged, abandoned>>
history    == <<handled, unlogged, abandoned>>

NoWork == [pc |-> "idle", of |-> CHOOSE n \in Notice : TRUE, rest |-> <<>>]

IntakeInit ==
    /\ body      \in [Notice -> Bodies]
    /\ notice    = [n \in Notice |-> [state |-> "waiting", deliveries |-> 0]]
    /\ work      = [d \in Delivery |-> NoWork]
    /\ audit     = [e \in Event |-> [RECEIVED |-> 0, PROCESSED |-> 0, FAILED |-> 0]]
    /\ rejects   = 0
    /\ handled   = [e \in Event |-> 0]
    /\ unlogged  = {}
    /\ abandoned = [e \in Event |-> 0]

-----------------------------------------------------------------------------
(* The normalizers.                                                        *)

\* normalizeMetaValue of WhatsBox: the events of a change are handed over when all are
\* built, so that an unreadable element loses the whole change.
Whole(change) == IF Contains(change, Bad) THEN <<>> ELSE change

\* Meta's normalizer hands over each event as it is built, up to the unreadable element.
UpToBad(change) ==
    IF Contains(change, Bad)
    THEN SubSeq(change, 1, SelectInSeq(change, LAMBDA x : x = Bad) - 1)
    ELSE change

\* Bug: one try around all changes of the notice.
WhatsBoxEvents_OneTry(b) ==
    IF b.shape = "changes" THEN Whole(FlattenSeq(b.changes)) ELSE <<>>

\* normalizeWebhook of WhatsBox: of a flat envelope it takes the first element.
WhatsBoxEvents(b) ==
    CASE b.shape = "changes" -> FlattenSeq([i \in DOMAIN b.changes |-> Whole(b.changes[i])])
      [] b.shape = "flat"    -> Whole(SubSeq(b.changes[1], 1, 1))
      [] OTHER               -> <<>>

\* Meta's takes none of it.
MetaEvents(b) ==
    IF b.shape = "changes"
    THEN FlattenSeq([i \in DOMAIN b.changes |-> UpToBad(b.changes[i])])
    ELSE <<>>

Bitrix24Events(b) == IF b.shape = "changes" THEN FlattenSeq(b.changes) ELSE <<>>

Events(b) ==
    CASE b.source = "WHATSBOX" -> WhatsBoxEvents(b)
      [] b.source = "META"     -> MetaEvents(b)
      [] b.source = "BITRIX24" -> Bitrix24Events(b)

-----------------------------------------------------------------------------
(* A delivery.                                                             *)

Doing(d, pc) == work[d].pc = pc
Current(d)   == Head(work[d].rest)

\* The delivery moves on; it answers once all its events are through.
Ready(rest)   == IF rest = <<>> THEN "answer" ELSE "create"
Step(d, pc)   == work' = [work EXCEPT ![d].pc = pc]
NextEvent(d)  ==
    work' = [work EXCEPT ![d].rest = Tail(@), ![d].pc = Ready(Tail(work[d].rest))]

\* The provider delivers a notice that was not acknowledged.  A null entry throws in the
\* normalizer, outside any try: the answer is a 500.
Arrive(d, n) ==
    /\ Doing(d, "idle")
    /\ notice[n].state = "waiting"
    /\ notice[n].deliveries < MaxDeliveries
    /\ notice' = [notice EXCEPT ![n].deliveries = @ + 1]
    /\ work' = [work EXCEPT ![d] =
          [of |-> n, rest |-> Events(body[n]),
           pc |-> CASE body[n].shape = "notJson"   -> "reject"
                    [] body[n].shape = "nullEntry" -> "throw"
                    [] OTHER -> Ready(Events(body[n]))]]
    /\ UNCHANGED <<body, audit, rejects, history>>

\* The answer to the delivery; the provider gives up on a notice that was answered 400.
Finish(d, state) ==
    /\ work'   = [work EXCEPT ![d] = NoWork]
    /\ notice' = [notice EXCEPT ![work[d].of].state = IF @ = "waiting" THEN state ELSE @]

\* "Invalid JSON body": logged, if the database lets it, and answered 400.
Reject(d) ==
    /\ Doing(d, "reject")
    /\ \/ rejects' = rejects + 1
       \/ "create" \in RefusedWrites /\ UNCHANGED rejects
    /\ Finish(d, "refused")
    /\ UNCHANGED <<body, audit, history>>

Throw(d) ==
    /\ Doing(d, "throw")
    /\ Finish(d, "waiting")
    /\ UNCHANGED <<body, audit, rejects, history>>

\* Bug: the event is handled although its row was not written.
Create_Skipped(d) ==
    /\ Doing(d, "create")
    /\ Step(d, "dispatch")
    /\ UNCHANGED <<body, notice, audit, rejects, history>>

\* The row, written before the event is handled.
Create(d) ==
    /\ Doing(d, "create")
    /\ audit' = [audit EXCEPT ![Current(d)].RECEIVED = @ + 1]
    /\ Step(d, "dispatch")
    /\ UNCHANGED <<body, notice, rejects, history>>

\* Without its row an event is not handled: continue.
CreateError(d) ==
    /\ "create" \in RefusedWrites /\ Doing(d, "create")
    /\ unlogged' = unlogged \cup {Current(d)}
    /\ NextEvent(d)
    /\ UNCHANGED <<body, notice, audit, rejects, handled, abandoned>>

\* The handler returns ...
Dispatch(d) ==
    /\ Doing(d, "dispatch")
    /\ handled' = [handled EXCEPT ![Current(d)] = @ + 1]
    /\ Step(d, "processed")
    /\ UNCHANGED <<body, notice, audit, rejects, unlogged, abandoned>>

\* Bug: the error of a handler is swallowed.
DispatchError_Swallowed(d) ==
    /\ Doing(d, "dispatch")
    /\ Step(d, "processed")
    /\ UNCHANGED <<body, notice, audit, rejects, history>>

\* ... or throws.
DispatchError(d) ==
    /\ Doing(d, "dispatch")
    /\ Step(d, "failed")
    /\ UNCHANGED <<body, notice, audit, rejects, history>>

Settle(d, status) ==
    /\ audit' = [audit EXCEPT ![Current(d)].RECEIVED = @ - 1, ![Current(d)][status] = @ + 1]
    /\ NextEvent(d)
    /\ UNCHANGED <<body, notice, rejects, history>>

MarkProcessed(d) == Doing(d, "processed") /\ Settle(d, "PROCESSED")

\* The update is inside the try of the handler: the event is then marked as failed.
MarkProcessedError(d) ==
    /\ "update" \in RefusedWrites /\ Doing(d, "processed")
    /\ Step(d, "failed")
    /\ UNCHANGED <<body, notice, audit, rejects, history>>

MarkFailed(d) == Doing(d, "failed") /\ Settle(d, "FAILED")

\* The row stays RECEIVED.
MarkFailedError(d) ==
    /\ "update" \in RefusedWrites /\ Doing(d, "failed")
    /\ abandoned' = [abandoned EXCEPT ![Current(d)] = @ + 1]
    /\ NextEvent(d)
    /\ UNCHANGED <<body, notice, audit, rejects, handled, unlogged>>

\* 200, whatever became of the events.
Acknowledge(d) ==
    /\ Doing(d, "answer")
    /\ Finish(d, "acked")
    /\ UNCHANGED <<body, audit, rejects, history>>

DeliveryStep(d) ==
    \/ Reject(d) \/ Throw(d) \/ Create(d) \/ CreateError(d)
    \/ Dispatch(d) \/ DispatchError(d) \/ MarkProcessed(d) \/ MarkProcessedError(d)
    \/ MarkFailed(d) \/ MarkFailedError(d) \/ Acknowledge(d)

\* A row of e that a delivery is to settle.
HoldsRow(d, e) == work[d].pc \in {"dispatch", "processed", "failed"} /\ Current(d) = e
Holders(e)     == {d \in Delivery : HoldsRow(d, e)}

\* The process ends: the provider gets no answer, and the rows in hand stay as they are.
CutDeliveries ==
    /\ work' = [d \in Delivery |-> NoWork]
    /\ abandoned' = [e \in Event |-> abandoned[e] + Cardinality(Holders(e))]
    /\ UNCHANGED <<body, notice, audit, rejects, handled, unlogged>>

NewDelivery == \E d \in Delivery, n \in Notice : Arrive(d, n)
IntakeStep  == \E d \in Delivery : DeliveryStep(d)
IntakeNext  == NewDelivery \/ IntakeStep \/ CutDeliveries

IntakeSpec  == IntakeInit /\ [][IntakeNext]_intakeVars

-----------------------------------------------------------------------------

IntakeTypeOK ==
    /\ body \in [Notice -> Bodies]
    /\ notice \in [Notice -> [state : {"waiting", "acked", "refused"},
                              deliveries : 0..MaxDeliveries]]
    /\ work \in [Delivery ->
          [pc : {"idle", "reject", "throw", "create", "dispatch", "processed", "failed",
                 "answer"}, of : Notice, rest : Seq(Event)]]
    /\ audit \in [Event -> [RECEIVED : Nat, PROCESSED : Nat, FAILED : Nat]]
    /\ rejects \in Nat /\ handled \in [Event -> Nat] /\ unlogged \subseteq Event
    /\ abandoned \in [Event -> Nat]

\* What the normalizers are to find, said without them: an element of a change that can be
\* read, together with all of its change (WhatsBox) or all that comes before it (Meta).
Readable(b, e) ==
    \/ /\ b.shape = "changes"
       /\ \E i \in DOMAIN b.changes : \E j \in DOMAIN b.changes[i] :
             /\ b.changes[i][j] = e
             /\ \A k \in DOMAIN b.changes[i] :
                   b.changes[i][k] = Bad => b.source = "META" /\ k > j
    \/ b.shape = "flat" /\ b.source = "WHATSBOX" /\ b.changes[1][1] = e

Settled(e) == audit[e].PROCESSED + audit[e].FAILED > 0

\* A notice is acknowledged whatever happened, so nobody sends its events again: each one
\* that the normalizer is to find has a settled row ("written BEFORE processing, updated
\* after", webhookLog.repository.js), unless the database refused to create or to update
\* it or the process was killed over it.
AckedIsAudited ==
    \A n \in Notice, e \in Event : notice[n].state = "acked" /\ Readable(body[n], e) =>
        Settled(e) \/ e \in unlogged \/ abandoned[e] > 0

\* The audit rows are true, through failing handlers and writes, overlapping deliveries and
\* kills: a PROCESSED row stands for a handler that returned (a FAILED one may too: the
\* update to PROCESSED is inside the handler's try), and a row that still says RECEIVED is
\* in the hands of a delivery, or abandoned for the reasons above.
AuditIsTrue ==
    \A e \in Event :
        /\ audit[e].PROCESSED <= handled[e]
        /\ audit[e].RECEIVED = Cardinality(Holders(e)) + abandoned[e]
=============================================================================
