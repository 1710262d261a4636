------------------------ MODULE ConversationHandling ------------------------
(***************************************************************************)
(* What happens to a conversation: customer messages come in, get routed to *)
(* an operator, forwarded to the open line and answered automatically       *)
(* (incomingMessage.handler.js, routing.service.js, autoReply.service.js);  *)
(* operators answer and thereby take the conversation over                  *)
(* (operatorMessage.handler.js, up to the row of the reply); and the API     *)
(* assigns and unassigns it (conversation.controller.js).                   *)
(*                                                                          *)
(* Who owns a conversation is stored twice, as a column of the conversation *)
(* and as an active assignment row, by writes with an await between them.   *)
(* Whether something was done before is looked up some awaits before it is   *)
(* done.  Only for incoming messages does a unique column have the last word. *)
(***************************************************************************)
EXTENDS Integers, FiniteSets, FiniteSetsExt

CONSTANTS
    Conversation, Contact, Agent, Message, Reply,
    NoId,        \* null
    contactOf,   \* the contact of a conversation
    sentTo,      \* the conversation an incoming message belongs to
    answers,     \* the conversation an operator reply belongs to
    author,      \* the agent, known by the Bitrix24 user id, who wrote a reply
    Roster,      \* the rows of agents at the start
    Supervisor,  \* agents with isSupervisor
    MaxActive,   \* ROUTING_MAX_ACTIVE_PER_AGENT
    Task,        \* requests handled at the same time
    Faults,      \* subset of {"dbError", "crmError"}
    MaxRequests, \* bound: how many requests there are
    MaxCrashes   \* bound: how often the process is killed

ASSUME NullAssumption == NoId \notin Conversation \cup Agent \cup Message \cup Reply
ASSUME EventAssumption ==
    /\ contactOf \in [Conversation -> Contact]
    /\ sentTo    \in [Message -> Conversation]
    /\ answers   \in [Reply -> Conversation]
    /\ author    \in [Reply -> Agent]
AgentRow == {"none", "active", "inactive"}
ASSUME RosterAssumption == Roster \in [Agent -> AgentRow]
ASSUME LimitsAssumption == {MaxActive, MaxRequests, MaxCrashes} \subseteq Nat

VARIABLES
    mirror,    \* the row of an agent: "none", "active" or "inactive"
    owner,     \* assignedAgentId of a conversation
    rows,      \* its active assignment rows, counted by agent
    chatId,    \* conversations whose bitrix24ExternalChatId is stored
    stored,    \* incoming messages that have a row
    saved,     \* how many rows an operator reply has
    logged,    \* contacts with a row in auto_reply_logs
    forwards,  \* external: how often the open line was given a message
    replies,   \* external: how many automatic replies a contact was sent
    task,      \* each request
    unsettled, \* history: conversations whose last assignment was raced or cut short
    rivalled,  \* history: replies of which two deliveries were handled at once
    unsure,    \* history: contacts whose log misses a reply or was read twice at once
    begun,     \* how many requests there were, for the bound
    crashes    \* how often the process was killed

agents      == mirror
assignments == <<owner, rows>>
messages    == <<chatId, stored, saved, forwards>>
autoReplies == <<logged, replies>>
history     == <<unsettled, rivalled, unsure>>
bounds      == <<begun, crashes>>
vars == <<agents, assignments, messages, autoReplies, task, history, bounds>>

\* Bound: what happened twice happened too often, and is not told from thrice.
Many    == 2
More(n) == IF n < Many THEN n + 1 ELSE n

TaskPc ==
    {"idle", "resolve", "chat", "reuse", "list", "stats", "check", "own", "close", "open",
     "store", "forward", "answer", "send", "log",
     "find", "agent", "enrich", "save", "user", "clear", "disown"}
TaskState ==
    [pc : TaskPc,
     kind : {"message", "reply", "assign", "unassign"},
     item : Message \cup Reply \cup {NoId},  \* the event it handles
     conversation : Conversation \cup {NoId},
     owner  : Agent \cup {NoId},  \* assignedAgentId of the conversation in memory
     chat   : BOOLEAN,            \* whether that has an external chat id
     agent  : Agent \cup {NoId},  \* the agent to assign
     listed : SUBSET Agent]       \* the active agents that were read
Request(pc, kind, item, c, a) ==
    [pc |-> pc, kind |-> kind, item |-> item, conversation |-> c,
     owner |-> NoId, chat |-> FALSE, agent |-> a, listed |-> {}]
IdleTask == Request("idle", "unassign", NoId, NoId, NoId)

NoRows == [a \in Agent |-> 0]

Init ==
    /\ mirror    = Roster
    /\ owner     = [c \in Conversation |-> NoId]
    /\ rows      = [c \in Conversation |-> NoRows]
    /\ chatId    = {}
    /\ stored    = {}
    /\ saved     = [r \in Reply |-> 0]
    /\ logged    = {}
    /\ forwards  = [m \in Message |-> 0]
    /\ replies   = [k \in Contact |-> 0]
    /\ task      = [t \in Task |-> IdleTask]
    /\ unsettled = {}
    /\ rivalled  = {}
    /\ unsure    = {}
    /\ begun     = 0
    /\ crashes   = 0

-----------------------------------------------------------------------------

At(t, pc)    == task[t].pc = pc
Its(t)       == task[t].conversation
Goto(t, pc)  == task' = [task EXCEPT ![t] = [@ EXCEPT !.pc = pc]]
Choose(t, a) == task' = [task EXCEPT ![t] = [@ EXCEPT !.pc = "check", !.agent = a]]
Finish(t)    == task' = [task EXCEPT ![t] = IdleTask]

Begin(t, request) ==
    /\ At(t, "idle")
    /\ begun < MaxRequests
    /\ begun' = begun + 1
    /\ task'  = [task EXCEPT ![t] = request]

\* The spans between a look-up, or a first write, and the write that completes it.
Assigning(t, c) == Its(t) = c /\ task[t].pc \in {"close", "open", "disown"}
Saving(t, r)    == task[t].pc # "idle" /\ task[t].kind = "reply" /\ task[t].item = r
Answering(t, k) == task[t].pc \in {"send", "log"} /\ contactOf[Its(t)] = k

\* An assignment that nobody else is in the middle of settles the conversation.
EnterAssignment(t, c) ==
    unsettled' = IF \E u \in Task \ {t} : Assigning(u, c)
                 THEN unsettled \cup {c} ELSE unsettled \ {c}

-----------------------------------------------------------------------------
(* A customer message.                                                     *)

\* A message is delivered, for the first time or again, and looked up.
ReceiveMessage(t, m) ==
    /\ m \notin stored
    /\ Begin(t, Request("resolve", "message", m, sentTo[m], NoId))
    /\ UNCHANGED <<agents, assignments, messages, autoReplies, history, crashes>>

\* resolveCustomerAndLead returns the conversation as it was when it was read.
Resolve(t) ==
    /\ At(t, "resolve")
    /\ task' = [task EXCEPT ![t] = [@ EXCEPT !.pc = "chat", !.owner = owner[Its(t)],
                                             !.chat = Its(t) \in chatId]]
    /\ UNCHANGED <<agents, assignments, messages, autoReplies, history, bounds>>

ResolveError(t) ==
    /\ "dbError" \in Faults
    /\ At(t, "resolve")
    /\ Finish(t)
    /\ UNCHANGED <<agents, assignments, messages, autoReplies, history, bounds>>

\* _ensureExternalChatId, and what _ensureAssigned does first.
AfterChat(t)  == IF task[t].owner = NoId THEN "reuse" ELSE "store"
EnsureChat(t) ==
    /\ At(t, "chat")
    /\ task' = [task EXCEPT ![t] = [@ EXCEPT !.pc = AfterChat(t), !.chat = TRUE]]
    /\ chatId' = IF task[t].chat THEN chatId ELSE chatId \cup {Its(t)}
    /\ UNCHANGED <<agents, assignments, stored, saved, forwards, autoReplies, history, bounds>>

\* Bug: the id is used although it could not be stored.
ChatError_Used(t) ==
    /\ "dbError" \in Faults
    /\ At(t, "chat") /\ ~task[t].chat
    /\ task' = [task EXCEPT ![t] = [@ EXCEPT !.pc = AfterChat(t), !.chat = TRUE]]
    /\ UNCHANGED <<agents, assignments, messages, autoReplies, history, bounds>>

\* The id is not stored: the message will not be forwarded.
ChatError(t) ==
    /\ "dbError" \in Faults
    /\ At(t, "chat") /\ ~task[t].chat
    /\ Goto(t, AfterChat(t))
    /\ UNCHANGED <<agents, assignments, messages, autoReplies, history, bounds>>

-----------------------------------------------------------------------------
(* Routing it: assignIfNeeded.                                             *)

\* The operator of an active assignment of the same contact is kept if active.
Colleagues(c) ==
    {a \in Agent : \E d \in Conversation : contactOf[d] = contactOf[c] /\ rows[d][a] > 0}
Reuse(t) ==
    /\ At(t, "reuse")
    /\ \/ \E a \in Colleagues(Its(t)) : mirror[a] = "active" /\ Choose(t, a)
       \/ /\ Colleagues(Its(t)) = {} \/ \E a \in Colleagues(Its(t)) : mirror[a] # "active"
          /\ Goto(t, "list")
    /\ UNCHANGED <<agents, assignments, messages, autoReplies, history, bounds>>

\* listActive.
List(t) ==
    /\ At(t, "list")
    /\ LET active == {a \in Agent : mirror[a] = "active"}
           next   == IF active = {} THEN "store" ELSE "stats"
       IN task' = [task EXCEPT ![t] = [@ EXCEPT !.pc = next, !.listed = active]]
    /\ UNCHANGED <<agents, assignments, messages, autoReplies, history, bounds>>

\* loadAndRecencyByAgent, and pickAgent: an agent below the limit if there is one,
\* and among those one with the least load.
Load(a) == MapThenSumSet(LAMBDA c : rows[c][a], Conversation)
Candidates(listed, load) ==
    LET free  == listed \ Supervisor
        below == {a \in free : load[a] < MaxActive}
    IN IF below = {} THEN free ELSE below
Picked(listed, load) ==
    {a \in Candidates(listed, load) : \A b \in Candidates(listed, load) : load[a] <= load[b]}
PickFrom(t, load) ==
    \/ \E a \in Picked(task[t].listed, load) : Choose(t, a)
    \/ Picked(task[t].listed, load) = {} /\ Goto(t, "store")
Pick(t) ==
    /\ At(t, "stats")
    /\ PickFrom(t, [a \in Agent |-> Load(a)])
    /\ UNCHANGED <<agents, assignments, messages, autoReplies, history, bounds>>

\* A read that throws counts as empty.
RoutingReadError(t) ==
    /\ "dbError" \in Faults
    /\ \/ At(t, "reuse") /\ Goto(t, "list")
       \/ At(t, "list") /\ Goto(t, "store")
       \/ At(t, "stats") /\ PickFrom(t, NoRows)
    /\ UNCHANGED <<agents, assignments, messages, autoReplies, history, bounds>>

-----------------------------------------------------------------------------
(* Assigning: assign of the routing service and of the assignment repository. *)

\* What a request does after it has assigned, and after that has failed: routing must
\* never drop a message, nor the audit row an operator's reply.
Continue(t, a) ==
    \/ /\ task[t].kind = "message"
       /\ task' = [task EXCEPT ![t] = [@ EXCEPT !.pc = "store", !.owner = a]]
    \/ task[t].kind = "reply" /\ Goto(t, "save")
    \/ task[t].kind = "assign" /\ Finish(t)

Check(t) ==
    /\ At(t, "check")
    /\ IF mirror[task[t].agent] = "active" THEN Goto(t, "own") ELSE Continue(t, NoId)
    /\ UNCHANGED <<agents, assignments, messages, autoReplies, history, bounds>>

\* conversationRepo.update.
Own(t) ==
    /\ At(t, "own")
    /\ owner' = [owner EXCEPT ![Its(t)] = task[t].agent]
    /\ EnterAssignment(t, Its(t))
    /\ Goto(t, "close")
    /\ UNCHANGED <<agents, rows, messages, autoReplies, rivalled, unsure, bounds>>

\* Bug: only the row of the agent who takes over is closed.
Close_Own(t) ==
    /\ At(t, "close")
    /\ rows' = [rows EXCEPT ![Its(t)][task[t].agent] = 0]
    /\ Goto(t, "open")
    /\ UNCHANGED <<agents, owner, messages, autoReplies, history, bounds>>

\* assignmentRepo.assign: updateMany, then create.
Close(t) ==
    /\ At(t, "close")
    /\ rows' = [rows EXCEPT ![Its(t)] = NoRows]
    /\ Goto(t, "open")
    /\ UNCHANGED <<agents, owner, messages, autoReplies, history, bounds>>
Open(t) ==
    /\ At(t, "open")
    /\ rows' = [rows EXCEPT ![Its(t)][task[t].agent] = @ + 1]
    /\ Continue(t, task[t].agent)
    /\ UNCHANGED <<agents, owner, messages, autoReplies, history, bounds>>

\* A write throws: a reply is lost with the first one, and goes on without the others.
AssignError(t) ==
    /\ "dbError" \in Faults
    /\ \/ /\ At(t, "own")
          /\ IF task[t].kind = "reply" THEN Finish(t) ELSE Continue(t, NoId)
          /\ UNCHANGED unsettled
       \/ /\ At(t, "close") \/ At(t, "open")
          /\ Continue(t, NoId)
          /\ unsettled' = unsettled \cup {Its(t)}
    /\ UNCHANGED <<agents, assignments, messages, autoReplies, rivalled, unsure, bounds>>

\* POST assign: assignByUser.
BeginAssign(t, c, a) ==
    /\ Begin(t, Request("user", "assign", NoId, c, a))
    /\ UNCHANGED <<agents, assignments, messages, autoReplies, history, crashes>>
FindUser(t) ==
    /\ At(t, "user")
    /\ IF mirror[task[t].agent] = "none" THEN Finish(t) ELSE Goto(t, "check")
    /\ UNCHANGED <<agents, assignments, messages, autoReplies, history, bounds>>

\* POST unassign: the rows are closed first, then the column is cleared.
BeginUnassign(t, c) ==
    /\ Begin(t, Request("clear", "unassign", NoId, c, NoId))
    /\ UNCHANGED <<agents, assignments, messages, autoReplies, history, crashes>>
Clear(t) ==
    /\ At(t, "clear")
    /\ rows' = [rows EXCEPT ![Its(t)] = NoRows]
    /\ EnterAssignment(t, Its(t))
    /\ Goto(t, "disown")
    /\ UNCHANGED <<agents, owner, messages, autoReplies, rivalled, unsure, bounds>>
Disown(t) ==
    /\ At(t, "disown")
    /\ owner' = [owner EXCEPT ![Its(t)] = NoId]
    /\ Finish(t)
    /\ UNCHANGED <<agents, rows, messages, autoReplies, history, bounds>>

\* A database call of the API throws.
ApiError(t) ==
    /\ "dbError" \in Faults
    /\ task[t].pc \in {"user", "clear", "disown"}
    /\ Finish(t)
    /\ unsettled' = IF At(t, "disown") THEN unsettled \cup {Its(t)} ELSE unsettled
    /\ UNCHANGED <<agents, assignments, messages, autoReplies, rivalled, unsure, bounds>>

-----------------------------------------------------------------------------
(* The rest of a customer message.                                         *)

\* Bug: a refused row counts as stored, and the message goes on.
Store_GoOn(t) ==
    /\ At(t, "store")
    /\ Goto(t, "forward")
    /\ stored' = stored \cup {task[t].item}
    /\ UNCHANGED <<agents, assignments, chatId, saved, forwards, autoReplies, history, bounds>>

\* saveMessage: the unique provider id refuses a second row, which ends the request.
Store(t) ==
    /\ At(t, "store")
    /\ IF task[t].item \in stored THEN Finish(t) ELSE Goto(t, "forward")
    /\ stored' = stored \cup {task[t].item}
    /\ UNCHANGED <<agents, assignments, chatId, saved, forwards, autoReplies, history, bounds>>
StoreError(t) ==
    /\ "dbError" \in Faults
    /\ At(t, "store")
    /\ Finish(t)
    /\ stored' \in {stored, stored \cup {task[t].item}}
    /\ UNCHANGED <<agents, assignments, chatId, saved, forwards, autoReplies, history, bounds>>

\* _forwardToOpenLine; the timeline comment and the notification follow.
Forward(t) ==
    /\ At(t, "forward")
    /\ forwards' = IF task[t].chat
                   THEN [forwards EXCEPT ![task[t].item] = More(@)] ELSE forwards
    /\ Goto(t, "answer")
    /\ UNCHANGED <<agents, assignments, chatId, stored, saved, autoReplies, history, bounds>>
ForwardError(t) ==
    /\ "crmError" \in Faults
    /\ At(t, "forward") /\ task[t].chat
    /\ Goto(t, "answer")
    /\ UNCHANGED <<agents, assignments, messages, autoReplies, history, bounds>>

\* Bug: the log is not looked at.
Answer_Again(t) ==
    /\ At(t, "answer")
    /\ task[t].owner = NoId
    /\ Goto(t, "send")
    /\ unsure' = IF \E u \in Task \ {t} : Answering(u, contactOf[Its(t)])
                 THEN unsure \cup {contactOf[Its(t)]} ELSE unsure
    /\ UNCHANGED <<agents, assignments, messages, autoReplies, unsettled, rivalled, bounds>>

\* maybeReply: answer when nobody owns the conversation and the contact was never
\* answered, and the settings provide a text.
Customer(t) == contactOf[Its(t)]
Answer(t) ==
    /\ At(t, "answer")
    /\ task[t].owner = NoId
    /\ Customer(t) \notin logged
    /\ Goto(t, "send")
    /\ unsure' = IF \E u \in Task \ {t} : Answering(u, Customer(t))
                 THEN unsure \cup {Customer(t)} ELSE unsure
    /\ UNCHANGED <<agents, assignments, messages, autoReplies, unsettled, rivalled, bounds>>
DoNotAnswer(t) ==
    /\ At(t, "answer")
    /\ Finish(t)
    /\ UNCHANGED <<agents, assignments, messages, autoReplies, history, bounds>>

\* sendText stores and sends the reply, then the log row is written.
Send(t) ==
    /\ At(t, "send")
    /\ replies' = [replies EXCEPT ![Customer(t)] = More(@)]
    /\ Goto(t, "log")
    /\ UNCHANGED <<agents, assignments, messages, logged, history, bounds>>
Log(t) ==
    /\ At(t, "log")
    /\ logged' = logged \cup {Customer(t)}
    /\ Finish(t)
    /\ UNCHANGED <<agents, assignments, messages, replies, history, bounds>>

\* sendText throws before it has stored the reply, or after; or the log row is refused.
AnswerError(t) ==
    /\ "dbError" \in Faults
    /\ \/ At(t, "send") /\ UNCHANGED <<replies, unsure>>
       \/ /\ At(t, "send")
          /\ replies' = [replies EXCEPT ![Customer(t)] = More(@)]
          /\ unsure'  = unsure \cup {Customer(t)}
       \/ /\ At(t, "log")
          /\ unsure' = unsure \cup {Customer(t)}
          /\ UNCHANGED replies
    /\ Finish(t)
    /\ UNCHANGED <<agents, assignments, messages, logged, unsettled, rivalled, bounds>>

-----------------------------------------------------------------------------
(* An operator reply.                                                      *)

\* Bug: a delivery is not looked up.
ReceiveReply_Again(t, r) ==
    /\ \E m \in Message : sentTo[m] = answers[r] /\ forwards[m] > 0
    /\ Begin(t, Request("find", "reply", r, answers[r], author[r]))
    /\ rivalled' = IF \E u \in Task \ {t} : Saving(u, r)
                   THEN rivalled \cup {r} ELSE rivalled
    /\ UNCHANGED <<agents, assignments, messages, autoReplies, unsettled, unsure, crashes>>

\* An operator can answer what the open line has been given.  The event is delivered,
\* for the first time or again, and looked up by its id in the payload of the rows.
InOpenLine(c) == \E m \in Message : sentTo[m] = c /\ forwards[m] > 0
ReceiveReply(t, r) ==
    /\ InOpenLine(answers[r])
    /\ saved[r] = 0
    /\ Begin(t, Request("find", "reply", r, answers[r], author[r]))
    /\ rivalled' = IF \E u \in Task \ {t} : Saving(u, r)
                   THEN rivalled \cup {r} ELSE rivalled
    /\ UNCHANGED <<agents, assignments, messages, autoReplies, unsettled, unsure, crashes>>

\* findByExternalChatId; a reply in an unknown chat is dropped.
FindConversation(t) ==
    /\ At(t, "find")
    /\ IF Its(t) \in chatId
       THEN task' = [task EXCEPT ![t] = [@ EXCEPT !.pc = "agent", !.owner = owner[Its(t)]]]
       ELSE Finish(t)
    /\ UNCHANGED <<agents, assignments, messages, autoReplies, history, bounds>>

\* _ensureAgent, and the comparison of the owner that was read with the author.
AfterAgent(t) == IF task[t].owner = task[t].agent THEN "save" ELSE "own"
FindAgent(t) ==
    /\ At(t, "agent")
    /\ Goto(t, IF mirror[task[t].agent] = "none" THEN "enrich" ELSE AfterAgent(t))
    /\ UNCHANGED <<agents, assignments, messages, autoReplies, history, bounds>>
\* Bug: the row is given what user.get says of the user.
Enrich_Raw(t) ==
    /\ At(t, "enrich")
    /\ mirror' = [mirror EXCEPT ![task[t].agent] = "Y"]
    /\ Goto(t, AfterAgent(t))
    /\ UNCHANGED <<assignments, messages, autoReplies, history, bounds>>

\* user.get, and the row that is made of its answer or without one.
Enrich(t) ==
    /\ At(t, "enrich")
    /\ mirror' = [mirror EXCEPT ![task[t].agent] = "active"]
    /\ Goto(t, AfterAgent(t))
    /\ UNCHANGED <<assignments, messages, autoReplies, history, bounds>>

\* saveMessage: nothing refuses a second row.
SaveReply(t) ==
    /\ At(t, "save")
    /\ saved' = [saved EXCEPT ![task[t].item] = More(@)]
    /\ Finish(t)
    /\ UNCHANGED <<agents, assignments, chatId, stored, forwards, autoReplies, history, bounds>>

\* A database call throws; saveMessage may have made the row before.
ReplyError(t) ==
    /\ "dbError" \in Faults
    /\ \/ task[t].pc \in {"find", "agent", "enrich", "save"} /\ UNCHANGED saved
       \/ At(t, "save") /\ saved' = [saved EXCEPT ![task[t].item] = More(@)]
    /\ Finish(t)
    /\ UNCHANGED <<agents, assignments, chatId, stored, forwards, autoReplies, history, bounds>>

-----------------------------------------------------------------------------

MessageStep(t) ==
    \/ \E m \in Message : ReceiveMessage(t, m)
    \/ Resolve(t) \/ ResolveError(t) \/ EnsureChat(t) \/ ChatError(t)
    \/ Reuse(t) \/ List(t) \/ Pick(t) \/ RoutingReadError(t)
    \/ Store(t) \/ StoreError(t) \/ Forward(t) \/ ForwardError(t)
    \/ Answer(t) \/ DoNotAnswer(t) \/ Send(t) \/ Log(t) \/ AnswerError(t)
AssignStep(t) ==
    \/ \E c \in Conversation, a \in Agent : BeginAssign(t, c, a)
    \/ FindUser(t) \/ Check(t) \/ Own(t) \/ Close(t) \/ Open(t) \/ AssignError(t)
    \/ \E c \in Conversation : BeginUnassign(t, c)
    \/ Clear(t) \/ Disown(t) \/ ApiError(t)
ReplyStep(t) ==
    \/ \E r \in Reply : ReceiveReply(t, r)
    \/ FindConversation(t) \/ FindAgent(t) \/ Enrich(t) \/ SaveReply(t) \/ ReplyError(t)

\* The process is killed and restarted: every request is forgotten, rows stay.
Crash ==
    /\ crashes < MaxCrashes
    /\ crashes'   = crashes + 1
    /\ task'      = [t \in Task |-> IdleTask]
    /\ unsettled' = unsettled \cup {c \in Conversation : \E t \in Task : Assigning(t, c)}
    /\ unsure'    = unsure \cup {k \in Contact : \E t \in Task : Answering(t, k) /\ At(t, "log")}
    /\ UNCHANGED <<agents, assignments, messages, autoReplies, rivalled, begun>>

Next ==
    \/ \E t \in Task : MessageStep(t) \/ AssignStep(t) \/ ReplyStep(t)
    \/ Crash

Spec == Init /\ [][Next]_vars

-----------------------------------------------------------------------------
(* What holds.                                                             *)

\* Every variable has its type.
TypeOK ==
    /\ mirror    \in [Agent -> AgentRow]
    /\ owner     \in [Conversation -> Agent \cup {NoId}]
    /\ rows      \in [Conversation -> [Agent -> Nat]]
    /\ chatId    \in SUBSET Conversation
    /\ stored    \in SUBSET Message
    /\ saved     \in [Reply -> 0..Many]
    /\ logged    \in SUBSET Contact
    /\ forwards  \in [Message -> 0..Many]
    /\ replies   \in [Contact -> 0..Many]
    /\ task      \in [Task -> TaskState]
    /\ unsettled \in SUBSET Conversation
    /\ rivalled  \in SUBSET Reply
    /\ unsure    \in SUBSET Contact
    /\ begun     \in 0..MaxRequests
    /\ crashes   \in 0..MaxCrashes

\* "isActive marks the current owner" (conversationAssignment.repository.js): one
\* assignment that nobody interferes with makes the column and the one active row
\* agree, whatever races and failures left behind before it.
OwnerHasTheRow ==
    \A c \in Conversation \ unsettled :
        (\A t \in Task : ~Assigning(t, c)) =>
            rows[c] = [a \in Agent |-> IF a = owner[c] THEN 1 ELSE 0]

\* However often a message is delivered and at whatever time, the open line is given
\* it once, and not before its row is there (the unique id decides in saveMessage).
ForwardedOnce ==
    \A m \in Message : forwards[m] > 0 => m \in stored /\ forwards[m] = 1

\* What operators see they can answer: the chat id was stored before the first forward
\* ("must be stable before the first forward", incomingMessage.handler.js), whichever
\* write has failed.
ForwardedIsAnswerable ==
    \A m \in Message : forwards[m] > 0 => sentTo[m] \in chatId

\* An operator reply is stored, and so sent, once, if no two deliveries of it were
\* handled at the same time.
ReplyStoredOnce == \A r \in Reply \ rivalled : saved[r] <= 1

\* "default true - never spam" (AUTO_REPLY_ONCE_PER_CONTACT): a contact is answered
\* automatically once over all conversations, unless two messages looked at the log
\* together or a log row was lost.
AnsweredOnce == \A k \in Contact \ unsure : replies[k] <= 1
=============================================================================
