--------------------- MODULE ConversationHandlingProofs ---------------------
(***************************************************************************)
(* What ConversationHandling keeps, for every number of conversations,      *)
(* agents, messages, replies and requests at once, and whatever fails.       *)
(***************************************************************************)
EXTENDS ConversationHandling, TLAPS

MessagePc == {"resolve", "chat", "reuse", "list", "stats", "store", "forward", "answer",
              "send", "log"}
ReplyPc   == {"find", "agent", "enrich", "save"}
AssignPc  == {"check", "own", "close", "open", "user"}

\* A request that is under way has a conversation and the event it handles, and knows
\* the agent when it assigns one.
TaskOK(T) ==
    /\ T.pc # "idle" => T.conversation \in Conversation
    /\ T.pc \in MessagePc => T.kind = "message"
    /\ T.pc \in ReplyPc => T.kind = "reply"
    /\ T.pc \in AssignPc => T.agent \in Agent /\ T.kind # "unassign"
    /\ T.pc # "idle" /\ T.kind = "message" =>
          T.item \in Message /\ T.conversation = sentTo[T.item]
    /\ T.pc # "idle" /\ T.kind = "reply" => T.item \in Reply /\ T.agent \in Agent

TasksOK ==
    /\ task \in [Task -> TaskState]
    /\ \A t \in Task : TaskOK(task[t])
RowsOK ==
    /\ mirror \in [Agent -> AgentRow]
    /\ owner  \in [Conversation -> Agent \cup {NoId}]
    /\ rows   \in [Conversation -> [Agent -> Nat]]
    /\ chatId \in SUBSET Conversation
    /\ stored \in SUBSET Message
    /\ saved  \in [Reply -> 0..Many]
    /\ logged \in SUBSET Contact
OthersOK ==
    /\ forwards  \in [Message -> 0..Many]
    /\ replies   \in [Contact -> 0..Many]
    /\ unsettled \in SUBSET Conversation
    /\ rivalled  \in SUBSET Reply
    /\ unsure    \in SUBSET Contact
    /\ begun     \in 0..MaxRequests
    /\ crashes   \in 0..MaxCrashes
TypeInv == TasksOK /\ RowsOK /\ OthersOK

-----------------------------------------------------------------------------
(* What a request can become.                                              *)

\* The idle request is well-formed.
LEMMA IdleTypes ==
    /\ IdleTask \in TaskState /\ TaskOK(IdleTask)
    /\ IdleTask.pc = "idle" /\ IdleTask.chat = FALSE
BY DEF IdleTask, Request, TaskState, TaskPc, TaskOK, MessagePc, ReplyPc, AssignPc

\* What a request that was updated is.
LEMMA Updated ==
    ASSUME NEW R \in TaskState, NEW pc \in TaskPc, NEW o \in Agent \cup {NoId},
           NEW b \in BOOLEAN, NEW l \in SUBSET Agent
    PROVE  /\ [R EXCEPT !.pc = pc, !.owner = o, !.chat = b] \in TaskState
           /\ [R EXCEPT !.pc = pc, !.chat = b] \in TaskState
           /\ [R EXCEPT !.pc = pc, !.listed = l] \in TaskState
<1>1. [R EXCEPT !.pc = pc, !.owner = o, !.chat = b] \in TaskState
  BY DEF TaskState
<1>2. [R EXCEPT !.pc = pc, !.chat = b] \in TaskState
  BY DEF TaskState
<1>3. [R EXCEPT !.pc = pc, !.listed = l] \in TaskState
  BY DEF TaskState
<1>4. QED
  BY <1>1, <1>2, <1>3

\* A well-formed request may take any place.
LEMMA Put ==
    ASSUME TasksOK, NEW t \in Task, NEW T \in TaskState, TaskOK(T),
           task' = [task EXCEPT ![t] = T]
    PROVE  TasksOK'
BY DEF TasksOK

\* So does a request that ends.
LEMMA Finishing ==
    ASSUME TasksOK, NEW t \in Task, Finish(t)
    PROVE  TasksOK'
BY IdleTypes, Put DEF Finish

\* A request that is under way moves on, with the agent it needs.
LEMMA Going ==
    ASSUME TasksOK, NEW t \in Task, NEW pc \in TaskPc, Goto(t, pc), task[t].pc # "idle",
           pc \in MessagePc => task[t].kind = "message",
           pc \in ReplyPc => task[t].kind = "reply",
           pc \in AssignPc => task[t].agent \in Agent /\ task[t].kind # "unassign"
    PROVE  TasksOK'
<1> DEFINE T == [task[t] EXCEPT !.pc = pc]
<1>1. T \in TaskState
  BY DEF TasksOK, TaskState
<1>2. TaskOK(T)
  BY DEF TasksOK, TaskOK, TaskState
<1>3. QED
  BY <1>1, <1>2, Put DEF Goto

\* Routing has chosen an agent.
LEMMA Choosing ==
    ASSUME TasksOK, NEW t \in Task, NEW a \in Agent, Choose(t, a),
           task[t].pc # "idle", task[t].kind = "message"
    PROVE  TasksOK'
<1> DEFINE T == [task[t] EXCEPT !.pc = "check", !.agent = a]
<1>1. T \in TaskState
  BY DEF TasksOK, TaskState, TaskPc
<1>2. TaskOK(T)
  BY DEF TasksOK, TaskOK, TaskState, MessagePc, ReplyPc, AssignPc
<1>3. QED
  BY <1>1, <1>2, Put DEF Choose

\* An assignment is over, for a message, a reply or the API.
LEMMA Continuing ==
    ASSUME TasksOK, NEW t \in Task, NEW a \in Agent \cup {NoId}, Continue(t, a),
           task[t].pc # "idle"
    PROVE  TasksOK'
<1>1. CASE task[t].kind = "message" /\ task' = [task EXCEPT ![t] = [@ EXCEPT !.pc = "store", !.owner = a]]
  <2> DEFINE T == [task[t] EXCEPT !.pc = "store", !.owner = a]
  <2>1. T \in TaskState
    BY DEF TasksOK, TaskState, TaskPc
  <2>2. TaskOK(T)
    BY <1>1 DEF TasksOK, TaskOK, TaskState, MessagePc, ReplyPc, AssignPc
  <2>3. QED
    BY <1>1, <2>1, <2>2, Put
<1>2. CASE task[t].kind = "reply" /\ Goto(t, "save")
  BY <1>2, Going DEF TaskPc, MessagePc, ReplyPc, AssignPc
<1>3. CASE task[t].kind = "assign" /\ Finish(t)
  BY <1>3, Finishing
<1>4. QED
  BY <1>1, <1>2, <1>3 DEF Continue

\* What a request at some place is.
LEMMA Standing ==
    ASSUME TasksOK, NEW t \in Task
    PROVE  /\ task[t] \in TaskState
           /\ task[t].pc # "idle" => Its(t) \in Conversation
           /\ task[t].pc \in MessagePc =>
                 task[t].kind = "message" /\ task[t].item \in Message
           /\ task[t].pc \in ReplyPc =>
                 /\ task[t].kind = "reply" /\ task[t].item \in Reply
                 /\ task[t].agent \in Agent
           /\ task[t].pc \in AssignPc => task[t].agent \in Agent /\ task[t].kind # "unassign"
BY DEF TasksOK, TaskOK, Its, MessagePc, ReplyPc, AssignPc

\* Routing chooses among the agents it has read, or nobody.
LEMMA Picking ==
    ASSUME TasksOK, NEW t \in Task, NEW load, PickFrom(t, load),
           task[t].pc = "stats"
    PROVE  TasksOK'
<1>1. task[t].kind = "message" /\ task[t].listed \subseteq Agent
  BY Standing DEF MessagePc, TaskState
<1>2. Picked(task[t].listed, load) \subseteq Agent
  BY <1>1 DEF Picked, Candidates
<1>3. QED
  BY <1>1, <1>2, Choosing, Going DEF PickFrom, TaskPc, MessagePc, ReplyPc, AssignPc

\* Every step of a customer message preserves the types.
LEMMA MessageTypes ==
    ASSUME TypeInv, NEW t \in Task, MessageStep(t)
    PROVE  TypeInv'
<1> USE DEF TypeInv, At, agents, assignments, messages, autoReplies, history, bounds, TaskPc, MessagePc, ReplyPc, AssignPc
<1>1. ASSUME NEW m \in Message, ReceiveMessage(t, m) PROVE TypeInv'
  <2>1. TasksOK'
    <3> DEFINE T == Request("resolve", "message", m, sentTo[m], NoId)
    <3>1. T \in TaskState /\ TaskOK(T)
      BY EventAssumption DEF Request, TaskState, TaskOK
    <3>2. QED
      BY <1>1, <3>1, Put DEF ReceiveMessage, Begin
  <2>2. RowsOK' /\ OthersOK'
    BY <1>1, Standing, LimitsAssumption DEF ReceiveMessage, Begin, RowsOK, OthersOK
  <2>3. QED
    BY <2>1, <2>2
<1>2. CASE Resolve(t)
  <2>1. TasksOK'
    <3> DEFINE T == [task[t] EXCEPT !.pc = "chat", !.owner = owner[Its(t)], !.chat = Its(t) \in chatId]
    <3>1. T \in TaskState
      <4> /\ task[t] \in TaskState /\ owner[Its(t)] \in Agent \cup {NoId}
          /\ (Its(t) \in chatId) \in BOOLEAN /\ "chat" \in TaskPc
        BY <1>2, Standing DEF Resolve, RowsOK
      <4> QED
        BY Updated
    <3>2. TaskOK(T)
      BY <1>2, Standing DEF Resolve, TaskState, TasksOK, TaskOK
    <3>3. QED
      BY <1>2, <3>1, <3>2, Put DEF Resolve
  <2>2. RowsOK' /\ OthersOK'
    BY <1>2, Standing DEF Resolve, RowsOK, OthersOK
  <2>3. QED
    BY <2>1, <2>2
<1>3. CASE ResolveError(t)
  <2>1. TasksOK'
    BY <1>3, Standing, Finishing DEF ResolveError
  <2>2. RowsOK' /\ OthersOK'
    BY <1>3, Standing DEF ResolveError, RowsOK, OthersOK
  <2>3. QED
    BY <2>1, <2>2
<1>4. CASE EnsureChat(t)
  <2>1. TasksOK'
    <3> DEFINE T == [task[t] EXCEPT !.pc = AfterChat(t), !.chat = TRUE]
    <3>1. T \in TaskState
      <4> task[t] \in TaskState /\ AfterChat(t) \in TaskPc
        BY Standing DEF AfterChat
      <4> QED
        BY Updated
    <3>2. TaskOK(T)
      BY <1>4, Standing DEF EnsureChat, TaskState, TasksOK, TaskOK, AfterChat
    <3>3. QED
      BY <1>4, <3>1, <3>2, Put DEF EnsureChat
  <2>2. RowsOK' /\ OthersOK'
    BY <1>4, Standing DEF EnsureChat, RowsOK, OthersOK
  <2>3. QED
    BY <2>1, <2>2
<1>5. CASE ChatError(t)
  <2>1. TasksOK'
    BY <1>5, Standing, Going DEF ChatError, AfterChat
  <2>2. RowsOK' /\ OthersOK'
    BY <1>5, Standing DEF ChatError, RowsOK, OthersOK
  <2>3. QED
    BY <2>1, <2>2
<1>6. CASE Reuse(t)
  <2>1. TasksOK'
    BY <1>6, Standing, Choosing, Going DEF Reuse, Colleagues
  <2>2. RowsOK' /\ OthersOK'
    BY <1>6, Standing DEF Reuse, RowsOK, OthersOK
  <2>3. QED
    BY <2>1, <2>2
<1>7. CASE List(t)
  <2>1. TasksOK'
    <3> DEFINE T == [task[t] EXCEPT !.pc = IF {a \in Agent : mirror[a] = "active"} = {} THEN "store" ELSE "stats",
                      !.listed = {a \in Agent : mirror[a] = "active"}]
    <3>1. T \in TaskState
      <4> HIDE DEF TaskPc
      <4> DEFINE active == {a \in Agent : mirror[a] = "active"}
                 next   == IF active = {} THEN "store" ELSE "stats"
      <4>1. task[t] \in TaskState /\ active \in SUBSET Agent /\ next \in TaskPc
        BY Standing DEF TaskPc
      <4> HIDE DEF active, next
      <4>2. [task[t] EXCEPT !.pc = next, !.listed = active] \in TaskState
        BY <4>1, Updated
      <4>3. QED
        BY <4>2 DEF active, next
    <3>2. TaskOK(T)
      BY <1>7, Standing DEF List, TaskState, TasksOK, TaskOK
    <3>3. QED
      BY <1>7, <3>1, <3>2, Put DEF List
  <2>2. RowsOK' /\ OthersOK'
    BY <1>7, Standing DEF List, RowsOK, OthersOK
  <2>3. QED
    BY <2>1, <2>2
<1>8. CASE Pick(t)
  <2>1. TasksOK'
    BY <1>8, Standing, Picking DEF Pick
  <2>2. RowsOK' /\ OthersOK'
    BY <1>8, Standing DEF Pick, RowsOK, OthersOK
  <2>3. QED
    BY <2>1, <2>2
<1>9. CASE RoutingReadError(t)
  <2>1. TasksOK'
    BY <1>9, Standing, Picking, Going DEF RoutingReadError
  <2>2. RowsOK' /\ OthersOK'
    BY <1>9, Standing DEF RoutingReadError, RowsOK, OthersOK
  <2>3. QED
    BY <2>1, <2>2
<1>10. CASE Store(t)
  <2>1. TasksOK'
    BY <1>10, Standing, Going, Finishing DEF Store
  <2>2. RowsOK' /\ OthersOK'
    BY <1>10, Standing DEF Store, RowsOK, OthersOK
  <2>3. QED
    BY <2>1, <2>2
<1>11. CASE StoreError(t)
  <2>1. TasksOK'
    BY <1>11, Standing, Finishing DEF StoreError
  <2>2. RowsOK' /\ OthersOK'
    BY <1>11, Standing DEF StoreError, RowsOK, OthersOK
  <2>3. QED
    BY <2>1, <2>2
<1>12. CASE Forward(t)
  <2>1. TasksOK'
    BY <1>12, Standing, Going DEF Forward
  <2>2. RowsOK' /\ OthersOK'
    BY <1>12, Standing DEF Forward, More, Many, RowsOK, OthersOK
  <2>3. QED
    BY <2>1, <2>2
<1>13. CASE ForwardError(t)
  <2>1. TasksOK'
    BY <1>13, Standing, Going DEF ForwardError
  <2>2. RowsOK' /\ OthersOK'
    BY <1>13, Standing DEF ForwardError, RowsOK, OthersOK
  <2>3. QED
    BY <2>1, <2>2
<1>14. CASE Answer(t)
  <2>1. TasksOK'
    BY <1>14, Standing, Going DEF Answer
  <2>2. RowsOK' /\ OthersOK'
    BY <1>14, Standing, EventAssumption DEF Answer, Customer, RowsOK, OthersOK
  <2>3. QED
    BY <2>1, <2>2
<1>15. CASE DoNotAnswer(t)
  <2>1. TasksOK'
    BY <1>15, Standing, Finishing DEF DoNotAnswer
  <2>2. RowsOK' /\ OthersOK'
    BY <1>15, Standing DEF DoNotAnswer, RowsOK, OthersOK
  <2>3. QED
    BY <2>1, <2>2
<1>16. CASE Send(t)
  <2>1. TasksOK'
    BY <1>16, Standing, Going DEF Send
  <2>2. RowsOK' /\ OthersOK'
    BY <1>16, Standing, EventAssumption DEF Send, Customer, More, Many, Its, RowsOK, OthersOK
  <2>3. QED
    BY <2>1, <2>2
<1>17. CASE Log(t)
  <2>1. TasksOK'
    BY <1>17, Standing, Finishing DEF Log
  <2>2. RowsOK' /\ OthersOK'
    BY <1>17, Standing, EventAssumption DEF Log, Customer, RowsOK, OthersOK
  <2>3. QED
    BY <2>1, <2>2
<1>18. CASE AnswerError(t)
  <2>1. TasksOK'
    BY <1>18, Standing, Finishing DEF AnswerError
  <2>2. RowsOK' /\ OthersOK'
    <3>1. Customer(t) \in Contact
      BY <1>18, Standing, EventAssumption DEF AnswerError, Customer
    <3>2. replies' \in [Contact -> 0..Many] /\ unsure' \in SUBSET Contact
      <4>1. CASE At(t, "send") /\ UNCHANGED <<replies, unsure>>
        BY <4>1 DEF OthersOK
      <4>2. CASE /\ replies' = [replies EXCEPT ![Customer(t)] = More(@)]
                 /\ unsure'  = unsure \cup {Customer(t)}
        BY <4>2, <3>1 DEF OthersOK, More, Many
      <4>3. CASE unsure' = unsure \cup {Customer(t)} /\ UNCHANGED replies
        BY <4>3, <3>1 DEF OthersOK
      <4>4. QED
        BY <1>18, <4>1, <4>2, <4>3 DEF AnswerError
    <3>3. QED
      BY <1>18, <3>2 DEF AnswerError, RowsOK, OthersOK
  <2>3. QED
    BY <2>1, <2>2
<1>q. QED
  BY <1>1, <1>2, <1>3, <1>4, <1>5, <1>6, <1>7, <1>8, <1>9, <1>10, <1>11, <1>12, <1>13, <1>14, <1>15, <1>16, <1>17, <1>18 DEF MessageStep

\* Every step of an assignment preserves the types.
LEMMA AssignTypes ==
    ASSUME TypeInv, NEW t \in Task, AssignStep(t)
    PROVE  TypeInv'
<1> USE DEF TypeInv, At, agents, assignments, messages, autoReplies, history, bounds, TaskPc, MessagePc, ReplyPc, AssignPc
<1>1. ASSUME NEW c \in Conversation, NEW a \in Agent, BeginAssign(t, c, a) PROVE TypeInv'
  <2>1. TasksOK'
    <3> DEFINE T == Request("user", "assign", NoId, c, a)
    <3>1. T \in TaskState /\ TaskOK(T)
      BY EventAssumption DEF Request, TaskState, TaskOK
    <3>2. QED
      BY <1>1, <3>1, Put DEF BeginAssign, Begin
  <2>2. RowsOK' /\ OthersOK'
    BY <1>1, Standing, LimitsAssumption DEF BeginAssign, Begin, RowsOK, OthersOK
  <2>3. QED
    BY <2>1, <2>2
<1>2. CASE FindUser(t)
  <2>1. TasksOK'
    BY <1>2, Standing, Going, Finishing DEF FindUser
  <2>2. RowsOK' /\ OthersOK'
    BY <1>2, Standing DEF FindUser, RowsOK, OthersOK
  <2>3. QED
    BY <2>1, <2>2
<1>3. CASE Check(t)
  <2>1. TasksOK'
    BY <1>3, Standing, Going, Continuing DEF Check
  <2>2. RowsOK' /\ OthersOK'
    BY <1>3, Standing DEF Check, RowsOK, OthersOK
  <2>3. QED
    BY <2>1, <2>2
<1>4. CASE Own(t)
  <2>1. TasksOK'
    BY <1>4, Standing, Going DEF Own
  <2>2. RowsOK' /\ OthersOK'
    BY <1>4, Standing DEF Own, EnterAssignment, RowsOK, OthersOK
  <2>3. QED
    BY <2>1, <2>2
<1>5. CASE Close(t)
  <2>1. TasksOK'
    BY <1>5, Standing, Going DEF Close
  <2>2. RowsOK' /\ OthersOK'
    BY <1>5, Standing DEF Close, NoRows, RowsOK, OthersOK
  <2>3. QED
    BY <2>1, <2>2
<1>6. CASE Open(t)
  <2>1. TasksOK'
    BY <1>6, Standing, Continuing DEF Open
  <2>2. RowsOK' /\ OthersOK'
    BY <1>6, Standing DEF Open, RowsOK, OthersOK
  <2>3. QED
    BY <2>1, <2>2
<1>7. CASE AssignError(t)
  <2>1. TasksOK'
    BY <1>7, Standing, Finishing, Continuing DEF AssignError
  <2>2. RowsOK' /\ OthersOK'
    BY <1>7, Standing DEF AssignError, RowsOK, OthersOK
  <2>3. QED
    BY <2>1, <2>2
<1>8. ASSUME NEW c \in Conversation, BeginUnassign(t, c) PROVE TypeInv'
  <2>1. TasksOK'
    <3> DEFINE T == Request("clear", "unassign", NoId, c, NoId)
    <3>1. T \in TaskState /\ TaskOK(T)
      BY EventAssumption DEF Request, TaskState, TaskOK
    <3>2. QED
      BY <1>8, <3>1, Put DEF BeginUnassign, Begin
  <2>2. RowsOK' /\ OthersOK'
    BY <1>8, Standing, LimitsAssumption DEF BeginUnassign, Begin, RowsOK, OthersOK
  <2>3. QED
    BY <2>1, <2>2
<1>9. CASE Clear(t)
  <2>1. TasksOK'
    BY <1>9, Standing, Going DEF Clear
  <2>2. RowsOK' /\ OthersOK'
    BY <1>9, Standing DEF Clear, EnterAssignment, NoRows, RowsOK, OthersOK
  <2>3. QED
    BY <2>1, <2>2
<1>10. CASE Disown(t)
  <2>1. TasksOK'
    BY <1>10, Standing, Finishing DEF Disown
  <2>2. RowsOK' /\ OthersOK'
    BY <1>10, Standing DEF Disown, RowsOK, OthersOK
  <2>3. QED
    BY <2>1, <2>2
<1>11. CASE ApiError(t)
  <2>1. TasksOK'
    BY <1>11, Standing, Finishing DEF ApiError
  <2>2. RowsOK' /\ OthersOK'
    BY <1>11, Standing DEF ApiError, RowsOK, OthersOK
  <2>3. QED
    BY <2>1, <2>2
<1>q. QED
  BY <1>1, <1>2, <1>3, <1>4, <1>5, <1>6, <1>7, <1>8, <1>9, <1>10, <1>11 DEF AssignStep

\* Every step of an operator reply preserves the types.
LEMMA ReplyTypes ==
    ASSUME TypeInv, NEW t \in Task, ReplyStep(t)
    PROVE  TypeInv'
<1> USE DEF TypeInv, At, agents, assignments, messages, autoReplies, history, bounds, TaskPc, MessagePc, ReplyPc, AssignPc
<1>1. ASSUME NEW r \in Reply, ReceiveReply(t, r) PROVE TypeInv'
  <2>1. TasksOK'
    <3> DEFINE T == Request("find", "reply", r, answers[r], author[r])
    <3>1. T \in TaskState /\ TaskOK(T)
      BY EventAssumption DEF Request, TaskState, TaskOK
    <3>2. QED
      BY <1>1, <3>1, Put DEF ReceiveReply, Begin
  <2>2. RowsOK' /\ OthersOK'
    BY <1>1, Standing, LimitsAssumption DEF ReceiveReply, Begin, RowsOK, OthersOK
  <2>3. QED
    BY <2>1, <2>2
<1>2. CASE FindConversation(t)
  <2>1. TasksOK'
    <3>1. CASE Its(t) \in chatId
      <4> DEFINE T == [task[t] EXCEPT !.pc = "agent", !.owner = owner[Its(t)]]
      <4>1. T \in TaskState
        BY <1>2, <3>1, Standing DEF FindConversation, TaskState, RowsOK
      <4>2. TaskOK(T)
        BY <1>2, <3>1, Standing DEF FindConversation, TaskState, TasksOK, TaskOK
      <4>3. QED
        BY <1>2, <3>1, <4>1, <4>2, Put DEF FindConversation
    <3>2. CASE Its(t) \notin chatId
      BY <1>2, <3>2, Finishing DEF FindConversation
    <3>3. QED
      BY <3>1, <3>2
  <2>2. RowsOK' /\ OthersOK'
    BY <1>2, Standing DEF FindConversation, RowsOK, OthersOK
  <2>3. QED
    BY <2>1, <2>2
<1>3. CASE FindAgent(t)
  <2>1. TasksOK'
    BY <1>3, Standing, Going DEF FindAgent, AfterAgent
  <2>2. RowsOK' /\ OthersOK'
    BY <1>3, Standing DEF FindAgent, RowsOK, OthersOK
  <2>3. QED
    BY <2>1, <2>2
<1>4. CASE Enrich(t)
  <2>1. TasksOK'
    BY <1>4, Standing, Going DEF Enrich, AfterAgent
  <2>2. RowsOK' /\ OthersOK'
    BY <1>4, Standing DEF Enrich, AgentRow, RowsOK, OthersOK
  <2>3. QED
    BY <2>1, <2>2
<1>5. CASE SaveReply(t)
  <2>1. TasksOK'
    BY <1>5, Standing, Finishing DEF SaveReply
  <2>2. RowsOK' /\ OthersOK'
    BY <1>5, Standing DEF SaveReply, More, Many, RowsOK, OthersOK
  <2>3. QED
    BY <2>1, <2>2
<1>6. CASE ReplyError(t)
  <2>1. TasksOK'
    BY <1>6, Standing, Finishing DEF ReplyError
  <2>2. RowsOK' /\ OthersOK'
    BY <1>6, Standing DEF ReplyError, More, Many, RowsOK, OthersOK
  <2>3. QED
    BY <2>1, <2>2
<1>q. QED
  BY <1>1, <1>2, <1>3, <1>4, <1>5, <1>6 DEF ReplyStep

\* At the start the types are right.
LEMMA TypeInit == Init => TypeInv
<1> SUFFICES ASSUME Init PROVE TypeInv
  OBVIOUS
<1>1. TasksOK
  BY IdleTypes DEF Init, TasksOK
<1>2. RowsOK
  BY RosterAssumption DEF Init, RowsOK, NoRows, Many
<1>3. OthersOK
  BY LimitsAssumption DEF Init, OthersOK, Many
<1>4. QED
  BY <1>1, <1>2, <1>3 DEF TypeInv

\* A step preserves the types.
LEMMA TypeStep == TypeInv /\ [Next]_vars => TypeInv'
<1> SUFFICES ASSUME TypeInv, [Next]_vars PROVE TypeInv'
  OBVIOUS
<1> USE DEF agents, assignments, messages, autoReplies, history, bounds
<1>1. CASE \E t \in Task : MessageStep(t) \/ AssignStep(t) \/ ReplyStep(t)
  BY <1>1, MessageTypes, AssignTypes, ReplyTypes
<1>2. CASE Crash
  <2>1. TasksOK'
    BY <1>2, IdleTypes DEF Crash, TasksOK
  <2>2. RowsOK'
    BY <1>2 DEF Crash, TypeInv, RowsOK
  <2>3. OthersOK'
    BY <1>2, LimitsAssumption DEF Crash, TypeInv, OthersOK
  <2>4. QED
    BY <2>1, <2>2, <2>3 DEF TypeInv
<1>3. CASE UNCHANGED vars
  BY <1>3 DEF vars, TypeInv, TasksOK, RowsOK, OthersOK
<1>4. QED
  BY <1>1, <1>2, <1>3 DEF Next

\* Every variable has its type, for every number of conversations, agents and requests.
THEOREM TypeCorrect == Spec => []TypeOK
<1>1. Spec => []TypeInv
  BY TypeInit, TypeStep, PTL DEF Spec
<1>2. TypeInv => TypeOK
  BY DEF TypeInv, TypeOK, TasksOK, RowsOK, OthersOK
<1>3. QED
  BY <1>1, <1>2, PTL

-----------------------------------------------------------------------------
(* The column and the rows.                                                *)

RowOf(x) == [a \in Agent |-> IF a = x THEN 1 ELSE 0]
Inside   == {"close", "open", "disown"}

\* Between the first and the last write of an assignment that nobody interferes with,
\* the rows lag behind the column, or the column behind the rows, by a known step.
RowAt(c) ==
    /\ \A t, u \in Task : Assigning(t, c) /\ Assigning(u, c) => t = u
    /\ (\A t \in Task : ~Assigning(t, c)) => rows[c] = RowOf(owner[c])
    /\ \A t \in Task : Assigning(t, c) =>
          /\ At(t, "close") => owner[c] = task[t].agent
          /\ At(t, "open") => owner[c] = task[t].agent /\ rows[c] = NoRows
          /\ At(t, "disown") => rows[c] = NoRows
RowInv == \A c \in Conversation \ unsettled : RowAt(c)

\* A step of one request leaves the others alone.
Only(t) == \A u \in Task \ {t} : task'[u] = task[u]

\* A step that assigns nothing here keeps what was known of the conversation.
LEMMA Elsewhere ==
    ASSUME NEW c \in Conversation, RowAt(c), NEW t \in Task, Only(t),
           ~Assigning(t, c), ~Assigning(t, c)', owner'[c] = owner[c], rows'[c] = rows[c]
    PROVE  RowAt(c)'
<1>1. \A u \in Task : Assigning(u, c)' <=> u # t /\ Assigning(u, c)
  BY DEF Only, Assigning, Its
<1>2. \A u \in Task : u # t => task'[u] = task[u]
  BY DEF Only
<1>3. QED
  BY <1>1, <1>2 DEF RowAt, At

\* The ways a request moves.
LEMMA Moves ==
    ASSUME TypeInv, NEW t \in Task
    PROVE  /\ Finish(t) => Only(t) /\ task'[t] = IdleTask
           /\ \A pc \in TaskPc : Goto(t, pc) =>
                 /\ Only(t) /\ task'[t].pc = pc
                 /\ task'[t].conversation = Its(t) /\ task'[t].agent = task[t].agent
           /\ \A a \in Agent : Choose(t, a) => Only(t) /\ task'[t].pc = "check"
           /\ \A a \in Agent \cup {NoId} : Continue(t, a) =>
                 Only(t) /\ task'[t].pc \in {"store", "save", "idle"}
<1> USE DEF TypeInv, TasksOK, Only
<1>1. Finish(t) => Only(t) /\ task'[t] = IdleTask
  BY DEF Finish
<1>2. ASSUME NEW pc \in TaskPc, Goto(t, pc)
      PROVE  /\ Only(t) /\ task'[t].pc = pc
             /\ task'[t].conversation = Its(t) /\ task'[t].agent = task[t].agent
  <2> DEFINE T == [task[t] EXCEPT !.pc = pc]
  <2>1. T.pc = pc /\ T.conversation = task[t].conversation /\ T.agent = task[t].agent
    BY DEF TaskState
  <2>2. task' = [task EXCEPT ![t] = T]
    BY <1>2 DEF Goto
  <2> HIDE DEF T
  <2>3. QED
    BY <2>1, <2>2 DEF Its
<1>3. ASSUME NEW a \in Agent, Choose(t, a) PROVE Only(t) /\ task'[t].pc = "check"
  <2> DEFINE T == [task[t] EXCEPT !.pc = "check", !.agent = a]
  <2>1. T.pc = "check"
    BY DEF TaskState
  <2>2. task' = [task EXCEPT ![t] = T]
    BY <1>3 DEF Choose
  <2> HIDE DEF T
  <2>3. QED
    BY <2>1, <2>2
<1>4. ASSUME NEW a \in Agent \cup {NoId}, Continue(t, a)
      PROVE  Only(t) /\ task'[t].pc \in {"store", "save", "idle"}
  <2>1. CASE task' = [task EXCEPT ![t] = [@ EXCEPT !.pc = "store", !.owner = a]]
    <3> DEFINE T == [task[t] EXCEPT !.pc = "store", !.owner = a]
    <3>1. T.pc = "store"
      BY DEF TaskState
    <3>2. task' = [task EXCEPT ![t] = T]
      BY <2>1
    <3> HIDE DEF T
    <3>3. QED
      BY <3>1, <3>2
  <2>2. CASE Goto(t, "save")
    BY <2>2, <1>2 DEF TaskPc
  <2>3. CASE Finish(t)
    BY <2>3, <1>1, IdleTypes
  <2>4. QED
    BY <1>4, <2>1, <2>2, <2>3 DEF Continue
<1>5. QED
  BY <1>1, <1>2, <1>3, <1>4

\* Nothing is assigned by a step between two writes of others.
Aside(t) ==
    /\ Only(t)
    /\ task[t].pc \notin Inside /\ task'[t].pc \notin Inside
    /\ UNCHANGED <<owner, rows, unsettled>>

\* A request that is replaced is the only one to change.
LEMMA Placed ==
    ASSUME TypeInv, NEW t \in Task, NEW T, task' = [task EXCEPT ![t] = T]
    PROVE  Only(t) /\ task'[t] = T
BY DEF TypeInv, TasksOK, Only

\* So is a request that begins.
LEMMA Beginning ==
    ASSUME TypeInv, NEW t \in Task, NEW request, Begin(t, request)
    PROVE  Only(t) /\ task'[t] = request /\ task[t].pc = "idle"
BY Placed DEF Begin, At

\* Routing goes to the check of an agent, or to the row of the message.
LEMMA Picks ==
    ASSUME TypeInv, NEW t \in Task, NEW load, PickFrom(t, load), At(t, "stats")
    PROVE  Only(t) /\ task'[t].pc \in {"check", "store"}
<1>1. task[t].listed \subseteq Agent
  BY Standing DEF TypeInv, TaskState
<1>2. Picked(task[t].listed, load) \subseteq Agent
  BY <1>1 DEF Picked, Candidates
<1>3. QED
  BY <1>2, Moves DEF PickFrom, TaskPc

\* A customer message assigns nothing before it has chosen an agent, nor after.
LEMMA MessageAside ==
    ASSUME TypeInv, NEW t \in Task, MessageStep(t)
    PROVE  Aside(t)
<1> USE DEF Aside, Inside, At, agents, assignments, messages, autoReplies, history, bounds, TaskPc
<1>1. ASSUME NEW m \in Message, ReceiveMessage(t, m) PROVE Aside(t)
  <2> DEFINE T == Request("resolve", "message", m, sentTo[m], NoId)
  <2>1. Only(t) /\ task'[t] = T /\ task[t].pc = "idle"
    BY <1>1, Beginning DEF ReceiveMessage
  <2>2. T.pc = "resolve"
    BY DEF Request
  <2> HIDE DEF T
  <2>3. QED
    BY <1>1, <2>1, <2>2 DEF ReceiveMessage
<1>2. CASE Resolve(t)
  <2> DEFINE T == [task[t] EXCEPT !.pc = "chat", !.owner = owner[Its(t)], !.chat = Its(t) \in chatId]
  <2>1. T.pc \notin Inside
    BY Standing DEF TaskState
  <2>2. task' = [task EXCEPT ![t] = T]
    BY <1>2 DEF Resolve
  <2> HIDE DEF T
  <2>3. QED
    BY <1>2, <2>1, <2>2, Placed DEF Resolve
<1>3. CASE ResolveError(t)
  BY <1>3, Moves, IdleTypes DEF ResolveError
<1>4. CASE EnsureChat(t)
  <2> DEFINE T == [task[t] EXCEPT !.pc = AfterChat(t), !.chat = TRUE]
  <2>1. T.pc \notin Inside
    BY Standing DEF TaskState, AfterChat
  <2>2. task' = [task EXCEPT ![t] = T]
    BY <1>4 DEF EnsureChat
  <2> HIDE DEF T
  <2>3. QED
    BY <1>4, <2>1, <2>2, Placed DEF EnsureChat
<1>5. CASE ChatError(t)
  BY <1>5, Moves DEF ChatError, AfterChat
<1>6. CASE Reuse(t)
  BY <1>6, Moves DEF Reuse, Colleagues
<1>7. CASE List(t)
  <2> DEFINE T == [task[t] EXCEPT !.pc = IF {a \in Agent : mirror[a] = "active"} = {} THEN "store" ELSE "stats",
                        !.listed = {a \in Agent : mirror[a] = "active"}]
  <2>1. T.pc \notin Inside
    BY Standing DEF TaskState
  <2>2. task' = [task EXCEPT ![t] = T]
    BY <1>7 DEF List
  <2> HIDE DEF T
  <2>3. QED
    BY <1>7, <2>1, <2>2, Placed DEF List
<1>8. CASE Pick(t)
  BY <1>8, Picks DEF Pick
<1>9. CASE RoutingReadError(t)
  BY <1>9, Moves, Picks DEF RoutingReadError
<1>10. CASE Store(t)
  BY <1>10, Moves, IdleTypes DEF Store
<1>11. CASE StoreError(t)
  BY <1>11, Moves, IdleTypes DEF StoreError
<1>12. CASE Forward(t)
  BY <1>12, Moves DEF Forward
<1>13. CASE ForwardError(t)
  BY <1>13, Moves DEF ForwardError
<1>14. CASE Answer(t)
  BY <1>14, Moves DEF Answer
<1>15. CASE DoNotAnswer(t)
  BY <1>15, Moves, IdleTypes DEF DoNotAnswer
<1>16. CASE Send(t)
  BY <1>16, Moves DEF Send
<1>17. CASE Log(t)
  BY <1>17, Moves, IdleTypes DEF Log
<1>18. CASE AnswerError(t)
  BY <1>18, Moves, IdleTypes DEF AnswerError
<1>q. QED
  BY <1>1, <1>2, <1>3, <1>4, <1>5, <1>6, <1>7, <1>8, <1>9, <1>10, <1>11, <1>12, <1>13, <1>14, <1>15, <1>16, <1>17, <1>18 DEF MessageStep

\* An operator reply assigns nothing before it has found the agent, nor after.
LEMMA ReplyAside ==
    ASSUME TypeInv, NEW t \in Task, ReplyStep(t)
    PROVE  Aside(t)
<1> USE DEF Aside, Inside, At, agents, assignments, messages, autoReplies, history, bounds, TaskPc
<1>1. ASSUME NEW r \in Reply, ReceiveReply(t, r) PROVE Aside(t)
  <2> DEFINE T == Request("find", "reply", r, answers[r], author[r])
  <2>1. Only(t) /\ task'[t] = T /\ task[t].pc = "idle"
    BY <1>1, Beginning DEF ReceiveReply
  <2>2. T.pc = "find"
    BY DEF Request
  <2> HIDE DEF T
  <2>3. QED
    BY <1>1, <2>1, <2>2 DEF ReceiveReply
<1>2. CASE FindConversation(t)
  <2>1. CASE Its(t) \in chatId
    <3> DEFINE T == [task[t] EXCEPT !.pc = "agent", !.owner = owner[Its(t)]]
    <3>1. T.pc \notin Inside
      BY Standing DEF TaskState
    <3>2. task' = [task EXCEPT ![t] = T]
      BY <1>2, <2>1 DEF FindConversation
    <3> HIDE DEF T
    <3>3. QED
      BY <1>2, <3>1, <3>2, Placed DEF FindConversation
  <2>2. CASE Its(t) \notin chatId
    BY <1>2, <2>2, Moves, IdleTypes DEF FindConversation
  <2>3. QED
    BY <2>1, <2>2
<1>3. CASE FindAgent(t)
  BY <1>3, Moves DEF FindAgent, AfterAgent
<1>4. CASE Enrich(t)
  BY <1>4, Moves DEF Enrich, AfterAgent
<1>5. CASE SaveReply(t)
  BY <1>5, Moves, IdleTypes DEF SaveReply
<1>6. CASE ReplyError(t)
  BY <1>6, Moves, IdleTypes DEF ReplyError
<1>q. QED
  BY <1>1, <1>2, <1>3, <1>4, <1>5, <1>6 DEF ReplyStep

\* What is known of a conversation outlasts the steps that assign nothing.
LEMMA AsideKeeps ==
    ASSUME RowInv, NEW t \in Task, Aside(t)
    PROVE  RowInv'
<1> SUFFICES ASSUME NEW c \in Conversation \ unsettled PROVE RowAt(c)'
  BY DEF RowInv, Aside
<1>1. RowAt(c) /\ ~Assigning(t, c) /\ ~Assigning(t, c)'
  BY DEF RowInv, Aside, Inside, Assigning
<1>2. QED
  BY <1>1, Elsewhere DEF Aside

\* Steps of an assignment touch no other conversation.
LEMMA OtherRows ==
    ASSUME TypeInv, NEW t \in Task, AssignStep(t), NEW c \in Conversation, Its(t) # c,
           RowAt(c)
    PROVE  RowAt(c)'
<1> USE DEF At, Inside, agents, assignments, messages, autoReplies, history, bounds, TaskPc, Assigning
<1>0. NoId \notin Conversation /\ IdleTask.conversation = NoId /\ IdleTask.pc = "idle"
  BY NullAssumption, IdleTypes DEF IdleTask, Request
<1>1. ASSUME NEW d \in Conversation, NEW a \in Agent, BeginAssign(t, d, a) PROVE RowAt(c)'
  <2> DEFINE T == Request("user", "assign", NoId, d, a)
  <2>1. Only(t) /\ task'[t] = T /\ task[t].pc = "idle"
    BY <1>1, Beginning DEF BeginAssign
  <2>2. T.pc = "user"
    BY DEF Request
  <2> HIDE DEF T
  <2>3. ~Assigning(t, c) /\ ~Assigning(t, c)' /\ owner'[c] = owner[c] /\ rows'[c] = rows[c]
    BY <1>1, <2>1, <2>2 DEF BeginAssign
  <2>4. QED
    BY <2>1, <2>3, Elsewhere
<1>2. ASSUME NEW d \in Conversation, BeginUnassign(t, d) PROVE RowAt(c)'
  <2> DEFINE T == Request("clear", "unassign", NoId, d, NoId)
  <2>1. Only(t) /\ task'[t] = T /\ task[t].pc = "idle"
    BY <1>2, Beginning DEF BeginUnassign
  <2>2. T.pc = "clear"
    BY DEF Request
  <2> HIDE DEF T
  <2>3. ~Assigning(t, c) /\ ~Assigning(t, c)' /\ owner'[c] = owner[c] /\ rows'[c] = rows[c]
    BY <1>2, <2>1, <2>2 DEF BeginUnassign
  <2>4. QED
    BY <2>1, <2>3, Elsewhere
<1>3. ASSUME \/ FindUser(t) \/ Check(t) \/ Own(t) \/ Close(t) \/ Open(t) \/ AssignError(t)
             \/ Clear(t) \/ Disown(t) \/ ApiError(t)
      PROVE  RowAt(c)'
  <2>1. Only(t) /\ (Its(t)' = Its(t) \/ task'[t].pc \in {"store", "save", "idle"})
    <3>1. \A a \in Agent \cup {NoId} : Continue(t, a) =>
            Only(t) /\ task'[t].pc \in {"store", "save", "idle"}
      BY Moves
    <3>2. \A pc \in TaskPc : Goto(t, pc) => Only(t) /\ Its(t)' = Its(t)
      BY Moves DEF Its
    <3>3. Finish(t) => Only(t) /\ task'[t].pc \in {"store", "save", "idle"}
      BY Moves, <1>0
    <3>4. NoId \in Agent \cup {NoId} /\ (At(t, "open") => task[t].agent \in Agent)
      BY Standing DEF TypeInv, AssignPc
    <3>5. QED
      BY <1>3, <3>1, <3>2, <3>3, <3>4
         DEF FindUser, Check, Own, Close, Open, AssignError, Clear, Disown, ApiError
  <2>2. owner'[c] = owner[c] /\ rows'[c] = rows[c]
    BY <1>3 DEF TypeInv, RowsOK, FindUser, Check, Own, Close, Open, AssignError, Clear, Disown, ApiError
  <2>3. ~Assigning(t, c) /\ ~Assigning(t, c)'
    BY <2>1 DEF Its
  <2>4. QED
    BY <2>1, <2>2, <2>3, Elsewhere
<1>4. QED
  BY <1>1, <1>2, <1>3 DEF AssignStep

\* Nor do the steps before the first write, whatever becomes of them.
LEMMA AssignAside ==
    ASSUME TypeInv, NEW t \in Task,
           \/ \E c \in Conversation, a \in Agent : BeginAssign(t, c, a)
           \/ \E c \in Conversation : BeginUnassign(t, c)
           \/ FindUser(t) \/ Check(t)
           \/ AssignError(t) /\ At(t, "own")
           \/ ApiError(t) /\ ~At(t, "disown")
    PROVE  Aside(t)
<1> USE DEF Aside, Inside, At, agents, assignments, messages, autoReplies, history, bounds, TaskPc
<1>0. IdleTask.pc = "idle" /\ NoId \in Agent \cup {NoId}
  BY IdleTypes
<1>1. ASSUME NEW c \in Conversation, NEW a \in Agent, BeginAssign(t, c, a) PROVE Aside(t)
  <2> DEFINE T == Request("user", "assign", NoId, c, a)
  <2>1. Only(t) /\ task'[t] = T /\ task[t].pc = "idle"
    BY <1>1, Beginning DEF BeginAssign
  <2>2. T.pc = "user"
    BY DEF Request
  <2> HIDE DEF T
  <2>3. QED
    BY <1>1, <2>1, <2>2 DEF BeginAssign
<1>2. ASSUME NEW c \in Conversation, BeginUnassign(t, c) PROVE Aside(t)
  <2> DEFINE T == Request("clear", "unassign", NoId, c, NoId)
  <2>1. Only(t) /\ task'[t] = T /\ task[t].pc = "idle"
    BY <1>2, Beginning DEF BeginUnassign
  <2>2. T.pc = "clear"
    BY DEF Request
  <2> HIDE DEF T
  <2>3. QED
    BY <1>2, <2>1, <2>2 DEF BeginUnassign
<1>3. CASE FindUser(t)
  BY <1>3, <1>0, Moves DEF FindUser
<1>4. CASE Check(t)
  BY <1>4, <1>0, Moves DEF Check
<1>5. CASE AssignError(t) /\ At(t, "own")
  BY <1>5, <1>0, Moves DEF AssignError
<1>6. CASE ApiError(t) /\ ~At(t, "disown")
  BY <1>6, <1>0, Moves DEF ApiError
<1>7. QED
  BY <1>1, <1>2, <1>3, <1>4, <1>5, <1>6

\* The steps between the first write and the last keep what was known of their own
\* conversation, unless they leave it unsettled.
LEMMA ThisRow ==
    ASSUME TypeInv, RowInv, NEW t \in Task, NEW c \in Conversation, c = Its(t),
           c \notin unsettled',
           Own(t) \/ Close(t) \/ Open(t) \/ Clear(t) \/ Disown(t)
    PROVE  RowAt(c)'
<1> USE DEF At, agents, assignments, messages, autoReplies, history, bounds
<1>0. /\ \A pc \in TaskPc : Goto(t, pc) =>
            Only(t) /\ task'[t].pc = pc /\ Its(t)' = c /\ task'[t].agent = task[t].agent
      /\ Finish(t) => Only(t) /\ task'[t].pc = "idle"
      /\ \A a \in Agent : Continue(t, a) => Only(t) /\ task'[t].pc \in {"store", "save", "idle"}
  BY Moves, IdleTypes DEF Its
<1>1. ASSUME Own(t) PROVE RowAt(c)'
  <2>1. /\ Only(t) /\ task'[t].pc = "close" /\ Its(t)' = c /\ task'[t].agent = task[t].agent
        /\ owner'[c] = task[t].agent
    BY <1>0, <1>1 DEF Own, TaskPc, TypeInv, RowsOK
  <2>2. \A u \in Task : u # t => ~Assigning(u, c)'
    <3>1. \A u \in Task \ {t} : ~Assigning(u, c)
      BY <1>1 DEF Own, EnterAssignment
    <3>2. QED
      BY <2>1, <3>1 DEF Only, Assigning, Its
  <2>3. Assigning(t, c)'
    BY <2>1 DEF Assigning
  <2>4. QED
    BY <2>1, <2>2, <2>3 DEF RowAt
<1>2. ASSUME Close(t) PROVE RowAt(c)'
  <2>1. RowAt(c) /\ Assigning(t, c)
    BY <1>2 DEF Close, RowInv, Assigning
  <2>2. /\ Only(t) /\ task'[t].pc = "open" /\ Its(t)' = c /\ task'[t].agent = task[t].agent
        /\ owner' = owner /\ owner[c] = task[t].agent /\ rows'[c] = NoRows
    BY <1>0, <1>2, <2>1 DEF Close, TaskPc, TypeInv, RowsOK, RowAt
  <2>3. \A u \in Task : u # t => ~Assigning(u, c)'
    BY <2>1, <2>2 DEF RowAt, Only, Assigning, Its
  <2>4. NoRows' = NoRows /\ Assigning(t, c)'
    BY <2>2 DEF NoRows, Assigning
  <2>5. QED
    BY <2>2, <2>3, <2>4 DEF RowAt
<1>3. ASSUME Open(t) PROVE RowAt(c)'
  <2>1. RowAt(c) /\ Assigning(t, c) /\ task[t].agent \in Agent
    BY <1>3, Standing DEF Open, RowInv, Assigning, TypeInv, AssignPc
  <2>2. /\ Only(t) /\ task'[t].pc \in {"store", "save", "idle"}
        /\ owner' = owner /\ owner[c] = task[t].agent /\ rows[c] = NoRows
    BY <1>0, <1>3, <2>1 DEF Open, RowAt
  <2>3. rows'[c] = RowOf(owner'[c])
    <3>1. rows'[c] = [NoRows EXCEPT ![task[t].agent] = @ + 1]
      BY <1>3, <2>2 DEF Open, TypeInv, RowsOK
    <3>2. QED
      BY <2>1, <2>2, <3>1 DEF NoRows, RowOf
  <2>4. \A u \in Task : ~Assigning(u, c)'
    BY <2>1, <2>2 DEF RowAt, Only, Assigning, Its
  <2>5. QED
    BY <2>3, <2>4 DEF RowAt, RowOf
<1>4. ASSUME Clear(t) PROVE RowAt(c)'
  <2>1. /\ Only(t) /\ task'[t].pc = "disown" /\ Its(t)' = c /\ rows'[c] = NoRows
    BY <1>0, <1>4 DEF Clear, TaskPc, TypeInv, RowsOK
  <2>2. \A u \in Task : u # t => ~Assigning(u, c)'
    <3>1. \A u \in Task \ {t} : ~Assigning(u, c)
      BY <1>4 DEF Clear, EnterAssignment
    <3>2. QED
      BY <2>1, <3>1 DEF Only, Assigning, Its
  <2>3. NoRows' = NoRows /\ Assigning(t, c)'
    BY <2>1 DEF NoRows, Assigning
  <2>4. QED
    BY <2>1, <2>2, <2>3 DEF RowAt
<1>5. ASSUME Disown(t) PROVE RowAt(c)'
  <2>1. RowAt(c) /\ Assigning(t, c)
    BY <1>5 DEF Disown, RowInv, Assigning
  <2>2. /\ Only(t) /\ task'[t].pc = "idle"
        /\ rows' = rows /\ rows[c] = NoRows /\ owner'[c] = NoId
    BY <1>0, <1>5, <2>1 DEF Disown, RowAt, TypeInv, RowsOK
  <2>3. rows'[c] = RowOf(owner'[c])
    BY <2>2, NullAssumption DEF NoRows, RowOf
  <2>4. \A u \in Task : ~Assigning(u, c)'
    BY <2>1, <2>2 DEF RowAt, Only, Assigning, Its
  <2>5. QED
    BY <2>3, <2>4 DEF RowAt, RowOf
<1>6. QED
  BY <1>1, <1>2, <1>3, <1>4, <1>5

\* Steps of an assignment keep what is known of every conversation they leave settled.
LEMMA AssignKeeps ==
    ASSUME TypeInv, RowInv, NEW t \in Task, AssignStep(t)
    PROVE  RowInv'
<1> DEFINE Inner == Own(t) \/ Close(t) \/ Open(t) \/ Clear(t) \/ Disown(t)
           Broken == \/ AssignError(t) /\ ~At(t, "own")
                     \/ ApiError(t) /\ At(t, "disown")
<1>1. CASE Inner \/ Broken
  <2>1. /\ unsettled \ {Its(t)} \subseteq unsettled'
        /\ Broken => Its(t) \in unsettled'
    BY <1>1 DEF Own, Close, Open, Clear, Disown, AssignError, ApiError, EnterAssignment, history
  <2>2. SUFFICES ASSUME NEW c \in Conversation \ unsettled' PROVE RowAt(c)'
    BY DEF RowInv
  <2>3. CASE c = Its(t)
    BY <1>1, <2>1, <2>3, ThisRow
  <2>4. CASE c # Its(t)
    BY <2>1, <2>4, OtherRows DEF RowInv
  <2>5. QED
    BY <2>3, <2>4
<1>2. CASE ~(Inner \/ Broken)
  BY <1>2, AssignAside, AsideKeeps DEF AssignStep
<1>3. QED
  BY <1>1, <1>2

\* A step keeps the column and the rows together.
LEMMA RowStep == TypeInv /\ RowInv /\ [Next]_vars => RowInv'
<1> SUFFICES ASSUME TypeInv, RowInv, [Next]_vars PROVE RowInv'
  OBVIOUS
<1>1. CASE \E t \in Task : MessageStep(t) \/ AssignStep(t) \/ ReplyStep(t)
  BY <1>1, MessageAside, ReplyAside, AsideKeeps, AssignKeeps
<1>2. CASE Crash
  <2>1. SUFFICES ASSUME NEW c \in Conversation \ unsettled' PROVE RowAt(c)'
    BY DEF RowInv
  <2>2. RowAt(c) /\ \A t \in Task : ~Assigning(t, c)
    BY <1>2 DEF Crash, RowInv
  <2>3. \A t \in Task : ~Assigning(t, c)'
    BY <1>2, IdleTypes DEF Crash, Assigning
  <2>4. owner' = owner /\ rows' = rows
    BY <1>2 DEF Crash, assignments
  <2>5. QED
    BY <2>2, <2>3, <2>4 DEF RowAt, RowOf
<1>3. CASE UNCHANGED vars
  BY <1>3 DEF vars, assignments, history, RowInv, RowAt, Assigning, At, Its, RowOf, NoRows
<1>4. QED
  BY <1>1, <1>2, <1>3 DEF Next

\* The column and the rows agree whenever nobody is assigning the conversation, unless
\* its last assignment was raced or cut short: for every number of requests at once.
THEOREM OwnerHasItsRow == Spec => []OwnerHasTheRow
<1>1. Init => RowInv
  <2> SUFFICES ASSUME Init PROVE RowInv
    OBVIOUS
  <2>1. \A c \in Conversation, t \in Task : ~Assigning(t, c)
    BY IdleTypes DEF Init, Assigning
  <2>2. \A c \in Conversation : rows[c] = RowOf(owner[c])
    BY NullAssumption DEF Init, NoRows, RowOf
  <2>3. QED
    BY <2>1, <2>2 DEF RowInv, RowAt
<1>2. RowInv => OwnerHasTheRow
  BY DEF RowInv, RowAt, RowOf, OwnerHasTheRow
<1>3. QED
  BY <1>1, <1>2, TypeInit, TypeStep, RowStep, PTL DEF Spec

-----------------------------------------------------------------------------
(* The open line.                                                          *)

\* What a request holds for a stored chat id is one; a message that is about to be
\* forwarded is stored and was not forwarded, and no two requests are about to
\* forward the same; what was forwarded was forwarded once, under a stored chat id.
ChatKnown == \A t \in Task : task[t].chat => Its(t) \in chatId
Forwarding ==
    /\ \A t \in Task : At(t, "forward") =>
          task[t].item \in stored /\ forwards[task[t].item] = 0
    /\ \A t, u \in Task : At(t, "forward") /\ At(u, "forward") /\ task[t].item = task[u].item
          => t = u
Forwarded ==
    \A m \in Message : forwards[m] > 0 =>
        m \in stored /\ forwards[m] = 1 /\ sentTo[m] \in chatId
ForwardInv == ChatKnown /\ Forwarding /\ Forwarded

\* Most steps forward nothing, are not about to, and learn of no chat id but a stored one.
Quiet(t) ==
    /\ Only(t)
    /\ task'[t].pc # "forward"
    /\ task'[t].chat => task'[t].conversation \in chatId'
    /\ stored \subseteq stored' /\ chatId \subseteq chatId' /\ UNCHANGED forwards

\* Such steps keep what is known.
LEMMA QuietKeeps ==
    ASSUME ForwardInv, NEW t \in Task, Quiet(t)
    PROVE  ForwardInv'
<1>1. \A u \in Task : u # t => task'[u] = task[u]
  BY DEF Quiet, Only
<1>2. ChatKnown'
  BY <1>1 DEF Quiet, ForwardInv, ChatKnown, Its
<1>3. Forwarding'
  BY <1>1 DEF Quiet, ForwardInv, Forwarding, At
<1>4. Forwarded'
  BY DEF Quiet, ForwardInv, Forwarded
<1>5. QED
  BY <1>2, <1>3, <1>4 DEF ForwardInv

\* A request that moves remembers the chat id of its conversation, if anything.
Recalls(t) == task'[t].chat => task[t].chat /\ task'[t].conversation = task[t].conversation
LEMMA Recalling ==
    ASSUME TypeInv, NEW t \in Task
    PROVE  /\ Finish(t) => Recalls(t)
           /\ \A pc \in TaskPc : Goto(t, pc) => Recalls(t) /\ task'[t].item = task[t].item
           /\ \A a \in Agent : Choose(t, a) => Recalls(t)
           /\ \A a \in Agent \cup {NoId} : Continue(t, a) => Recalls(t)
<1> USE DEF TypeInv, TasksOK, Recalls
<1>1. Finish(t) => Recalls(t)
  BY IdleTypes DEF Finish
<1>2. ASSUME NEW pc \in TaskPc, Goto(t, pc) PROVE Recalls(t) /\ task'[t].item = task[t].item
  <2> DEFINE T == [task[t] EXCEPT !.pc = pc]
  <2>1. /\ T.chat = task[t].chat /\ T.conversation = task[t].conversation
        /\ T.item = task[t].item
    BY DEF TaskState
  <2>2. task' = [task EXCEPT ![t] = T]
    BY <1>2 DEF Goto
  <2> HIDE DEF T
  <2>3. QED
    BY <2>1, <2>2
<1>3. ASSUME NEW a \in Agent, Choose(t, a) PROVE Recalls(t)
  <2> DEFINE T == [task[t] EXCEPT !.pc = "check", !.agent = a]
  <2>1. T.chat = task[t].chat /\ T.conversation = task[t].conversation
    BY DEF TaskState
  <2>2. task' = [task EXCEPT ![t] = T]
    BY <1>3 DEF Choose
  <2> HIDE DEF T
  <2>3. QED
    BY <2>1, <2>2
<1>4. ASSUME NEW a \in Agent \cup {NoId}, Continue(t, a) PROVE Recalls(t)
  <2>1. CASE task' = [task EXCEPT ![t] = [@ EXCEPT !.pc = "store", !.owner = a]]
    <3> DEFINE T == [task[t] EXCEPT !.pc = "store", !.owner = a]
    <3>1. T.chat = task[t].chat /\ T.conversation = task[t].conversation
      BY DEF TaskState
    <3>2. task' = [task EXCEPT ![t] = T]
      BY <2>1
    <3> HIDE DEF T
    <3>3. QED
      BY <3>1, <3>2
  <2>2. CASE Goto(t, "save")
    BY <2>2, <1>2 DEF TaskPc
  <2>3. CASE Finish(t)
    BY <2>3, <1>1
  <2>4. QED
    BY <1>4, <2>1, <2>2, <2>3 DEF Continue
<1>5. QED
  BY <1>1, <1>2, <1>3, <1>4

\* In a request that only moves, nothing new is known of a chat.
LEMMA MovingQuietly ==
    ASSUME ForwardInv, NEW t \in Task, Only(t), Recalls(t), task'[t].pc # "forward",
           stored \subseteq stored', UNCHANGED <<chatId, forwards>>
    PROVE  ForwardInv'
<1>1. Quiet(t)
  BY DEF Quiet, Recalls, ForwardInv, ChatKnown, Its
<1>2. QED
  BY <1>1, QuietKeeps

\* Picking an agent is such a move.
LEMMA PickRecalls ==
    ASSUME TypeInv, NEW t \in Task, NEW load, PickFrom(t, load), At(t, "stats")
    PROVE  Recalls(t)
<1>1. task[t].listed \subseteq Agent
  BY Standing DEF TypeInv, TaskState
<1>2. Picked(task[t].listed, load) \subseteq Agent
  BY <1>1 DEF Picked, Candidates
<1>3. QED
  BY <1>2, Recalling DEF PickFrom, TaskPc

\* A customer message keeps what is known of forwarded messages.
LEMMA MessageForwards ==
    ASSUME TypeInv, ForwardInv, NEW t \in Task, MessageStep(t)
    PROVE  ForwardInv'
<1> USE DEF agents, assignments, messages, autoReplies, history, bounds
<1>1. ASSUME NEW m \in Message, ReceiveMessage(t, m) PROVE ForwardInv'
  <2> DEFINE T == Request("resolve", "message", m, sentTo[m], NoId)
  <2>1. Only(t) /\ task'[t] = T
    BY <1>1, Beginning DEF ReceiveMessage
  <2>2. T.pc = "resolve" /\ T.chat = FALSE
    BY DEF Request
  <2> HIDE DEF T
  <2>3. QED
    BY <1>1, <2>1, <2>2, MovingQuietly DEF ReceiveMessage, Recalls
<1>2. CASE Resolve(t)
  <2> DEFINE T == [task[t] EXCEPT !.pc = "chat", !.owner = owner[Its(t)], !.chat = Its(t) \in chatId]
  <2>1. T.pc = "chat" /\ T.conversation = Its(t) /\ (T.chat => Its(t) \in chatId)
    <3>1. T.pc = "chat" /\ T.conversation = Its(t)
      BY Standing DEF TaskState, Its, TypeInv
    <3>2. CASE Its(t) \in chatId
      BY <3>1, <3>2
    <3>3. CASE Its(t) \notin chatId
      <4>1. (Its(t) \in chatId) = FALSE
        BY <3>3
      <4>2. T = [task[t] EXCEPT !.pc = "chat", !.owner = owner[Its(t)], !.chat = FALSE]
        BY <4>1, Zenon
      <4>3. [task[t] EXCEPT !.pc = "chat", !.owner = owner[Its(t)], !.chat = FALSE].chat = FALSE
        BY Standing DEF TaskState, TypeInv
      <4>4. QED
        BY <3>1, <4>2, <4>3, Zenon
    <3>4. QED
      BY <3>2, <3>3
  <2>2. task' = [task EXCEPT ![t] = T]
    BY <1>2 DEF Resolve
  <2> HIDE DEF T
  <2>3. Quiet(t)
    BY <1>2, <2>1, <2>2, Placed DEF Resolve, Quiet
  <2>4. QED
    BY <2>3, QuietKeeps
<1>3. CASE EnsureChat(t)
  <2> DEFINE T == [task[t] EXCEPT !.pc = AfterChat(t), !.chat = TRUE]
  <2>1. T.pc # "forward" /\ T.conversation = Its(t)
    BY Standing DEF TaskState, Its, AfterChat
  <2>2. task' = [task EXCEPT ![t] = T]
    BY <1>3 DEF EnsureChat
  <2> HIDE DEF T
  <2>3. Its(t) \in chatId' /\ chatId \subseteq chatId'
    BY <1>3 DEF EnsureChat, ForwardInv, ChatKnown
  <2>4. Quiet(t)
    BY <1>3, <2>1, <2>2, <2>3, Placed DEF EnsureChat, Quiet
  <2>5. QED
    BY <2>4, QuietKeeps
<1>4. CASE List(t)
  <2> DEFINE T == [task[t] EXCEPT
                      !.pc = IF {a \in Agent : mirror[a] = "active"} = {} THEN "store" ELSE "stats",
                      !.listed = {a \in Agent : mirror[a] = "active"}]
  <2>1. T.pc # "forward" /\ T.conversation = task[t].conversation /\ T.chat = task[t].chat
    BY Standing DEF TaskState
  <2>2. task' = [task EXCEPT ![t] = T]
    BY <1>4 DEF List
  <2> HIDE DEF T
  <2>3. QED
    BY <1>4, <2>1, <2>2, Placed, MovingQuietly DEF List, Recalls
<1>5. CASE Store(t)
  <2>1. task[t].item \in Message
    BY <1>5, Standing DEF Store, At, TypeInv, MessagePc
  <2>2. CASE task[t].item \in stored
    <3>1. Only(t) /\ Recalls(t) /\ task'[t].pc # "forward"
      BY <1>5, <2>2, Moves, Recalling, IdleTypes DEF Store
    <3>2. QED
      BY <1>5, <3>1, MovingQuietly DEF Store
  <2>3. CASE task[t].item \notin stored
    <3>1. /\ Only(t) /\ Recalls(t) /\ task'[t].item = task[t].item
          /\ stored' = stored \cup {task[t].item} /\ UNCHANGED <<chatId, forwards>>
      BY <1>5, <2>3, Moves, Recalling DEF Store, TaskPc
    <3>2. \A u \in Task : u # t => task'[u] = task[u]
      BY <3>1 DEF Only
    <3>3. ChatKnown'
      BY <3>1, <3>2 DEF Recalls, ForwardInv, ChatKnown, Its
    <3>4. forwards[task[t].item] = 0
      BY <2>1, <2>3 DEF ForwardInv, Forwarded, TypeInv, OthersOK, Many
    <3>5. Forwarding'
      BY <2>3, <3>1, <3>2, <3>4 DEF ForwardInv, Forwarding, At
    <3>6. Forwarded'
      BY <3>1 DEF ForwardInv, Forwarded
    <3>7. QED
      BY <3>3, <3>5, <3>6 DEF ForwardInv
  <2>4. QED
    BY <2>2, <2>3
<1>6. CASE Forward(t)
  <2>1. /\ task[t].item \in Message /\ Its(t) = sentTo[task[t].item]
        /\ task[t].item \in stored /\ forwards[task[t].item] = 0
    BY <1>6 DEF Forward, At, Its, TypeInv, TasksOK, TaskOK, MessagePc, ForwardInv, Forwarding
  <2>2. /\ Only(t) /\ Recalls(t) /\ task'[t].pc = "answer"
        /\ UNCHANGED <<stored, chatId>>
    BY <1>6, Moves, Recalling DEF Forward, TaskPc
  <2>3. CASE ~task[t].chat
    BY <1>6, <2>2, <2>3, MovingQuietly DEF Forward
  <2>4. CASE task[t].chat
    <3>1. forwards' = [forwards EXCEPT ![task[t].item] = 1]
      BY <1>6, <2>1, <2>4 DEF Forward, More, Many
    <3>2. \A u \in Task : u # t => task'[u] = task[u]
      BY <2>2 DEF Only
    <3>3. ChatKnown'
      BY <2>2, <3>2 DEF Recalls, ForwardInv, ChatKnown, Its
    <3>4. Forwarding'
      <4>1. \A u \in Task : At(u, "forward")' =>
                u # t /\ At(u, "forward") /\ task[u].item # task[t].item
        BY <1>6, <2>2, <3>2 DEF At, Forward, ForwardInv, Forwarding
      <4>2. \A u \in Task : At(u, "forward")' => forwards'[task[u].item] = forwards[task[u].item]
        BY <2>1, <3>1, <4>1 DEF TypeInv, OthersOK
      <4>3. QED
        BY <2>2, <3>2, <4>1, <4>2 DEF At, ForwardInv, Forwarding
    <3>5. sentTo[task[t].item] \in chatId
      BY <2>1, <2>4 DEF ForwardInv, ChatKnown
    <3>6. Forwarded'
      BY <2>1, <2>2, <3>1, <3>5 DEF ForwardInv, Forwarded, TypeInv, OthersOK
    <3>7. QED
      BY <3>3, <3>4, <3>6 DEF ForwardInv
  <2>5. QED
    BY <2>3, <2>4
<1>7. CASE ResolveError(t)
  <2>1. Only(t) /\ Recalls(t) /\ task'[t].pc # "forward"
    BY <1>7, Moves, Recalling, IdleTypes DEF ResolveError, TaskPc, At
  <2>2. stored \subseteq stored' /\ UNCHANGED <<chatId, forwards>>
    BY <1>7 DEF ResolveError
  <2>3. QED
    BY <2>1, <2>2, MovingQuietly
<1>8. CASE ChatError(t)
  <2>1. Only(t) /\ Recalls(t) /\ task'[t].pc # "forward"
    BY <1>8, Moves, Recalling, IdleTypes DEF ChatError, TaskPc, At, AfterChat
  <2>2. stored \subseteq stored' /\ UNCHANGED <<chatId, forwards>>
    BY <1>8 DEF ChatError
  <2>3. QED
    BY <2>1, <2>2, MovingQuietly
<1>9. CASE Reuse(t)
  <2>1. Only(t) /\ Recalls(t) /\ task'[t].pc # "forward"
    BY <1>9, Moves, Recalling, IdleTypes DEF Reuse, TaskPc, At, Colleagues
  <2>2. stored \subseteq stored' /\ UNCHANGED <<chatId, forwards>>
    BY <1>9 DEF Reuse
  <2>3. QED
    BY <2>1, <2>2, MovingQuietly
<1>10. CASE Pick(t)
  <2>1. Only(t) /\ Recalls(t) /\ task'[t].pc # "forward"
    BY <1>10, Moves, Recalling, IdleTypes, Picks, PickRecalls DEF Pick, TaskPc, At
  <2>2. stored \subseteq stored' /\ UNCHANGED <<chatId, forwards>>
    BY <1>10 DEF Pick
  <2>3. QED
    BY <2>1, <2>2, MovingQuietly
<1>11. CASE RoutingReadError(t)
  <2>1. Only(t) /\ Recalls(t) /\ task'[t].pc # "forward"
    BY <1>11, Moves, Recalling, IdleTypes, Picks, PickRecalls DEF RoutingReadError, TaskPc, At
  <2>2. stored \subseteq stored' /\ UNCHANGED <<chatId, forwards>>
    BY <1>11 DEF RoutingReadError
  <2>3. QED
    BY <2>1, <2>2, MovingQuietly
<1>12. CASE StoreError(t)
  <2>1. Only(t) /\ Recalls(t) /\ task'[t].pc # "forward"
    BY <1>12, Moves, Recalling, IdleTypes DEF StoreError, TaskPc, At
  <2>2. stored \subseteq stored' /\ UNCHANGED <<chatId, forwards>>
    BY <1>12 DEF StoreError
  <2>3. QED
    BY <2>1, <2>2, MovingQuietly
<1>13. CASE ForwardError(t)
  <2>1. Only(t) /\ Recalls(t) /\ task'[t].pc # "forward"
    BY <1>13, Moves, Recalling, IdleTypes DEF ForwardError, TaskPc, At
  <2>2. stored \subseteq stored' /\ UNCHANGED <<chatId, forwards>>
    BY <1>13 DEF ForwardError
  <2>3. QED
    BY <2>1, <2>2, MovingQuietly
<1>14. CASE Answer(t)
  <2>1. Only(t) /\ Recalls(t) /\ task'[t].pc # "forward"
    BY <1>14, Moves, Recalling, IdleTypes DEF Answer, TaskPc, At
  <2>2. stored \subseteq stored' /\ UNCHANGED <<chatId, forwards>>
    BY <1>14 DEF Answer
  <2>3. QED
    BY <2>1, <2>2, MovingQuietly
<1>15. CASE DoNotAnswer(t)
  <2>1. Only(t) /\ Recalls(t) /\ task'[t].pc # "forward"
    BY <1>15, Moves, Recalling, IdleTypes DEF DoNotAnswer, TaskPc, At
  <2>2. stored \subseteq stored' /\ UNCHANGED <<chatId, forwards>>
    BY <1>15 DEF DoNotAnswer
  <2>3. QED
    BY <2>1, <2>2, MovingQuietly
<1>16. CASE Send(t)
  <2>1. Only(t) /\ Recalls(t) /\ task'[t].pc # "forward"
    BY <1>16, Moves, Recalling, IdleTypes DEF Send, TaskPc, At
  <2>2. stored \subseteq stored' /\ UNCHANGED <<chatId, forwards>>
    BY <1>16 DEF Send
  <2>3. QED
    BY <2>1, <2>2, MovingQuietly
<1>17. CASE Log(t)
  <2>1. Only(t) /\ Recalls(t) /\ task'[t].pc # "forward"
    BY <1>17, Moves, Recalling, IdleTypes DEF Log, TaskPc, At
  <2>2. stored \subseteq stored' /\ UNCHANGED <<chatId, forwards>>
    BY <1>17 DEF Log
  <2>3. QED
    BY <2>1, <2>2, MovingQuietly
<1>18. CASE AnswerError(t)
  <2>1. Only(t) /\ Recalls(t) /\ task'[t].pc # "forward"
    BY <1>18, Moves, Recalling, IdleTypes DEF AnswerError, TaskPc, At
  <2>2. stored \subseteq stored' /\ UNCHANGED <<chatId, forwards>>
    BY <1>18 DEF AnswerError
  <2>3. QED
    BY <2>1, <2>2, MovingQuietly
<1>q. QED
  BY <1>1, <1>2, <1>3, <1>4, <1>5, <1>6, <1>7, <1>8, <1>9, <1>10, <1>11, <1>12, <1>13, <1>14, <1>15, <1>16, <1>17, <1>18 DEF MessageStep

\* So do assignments and operator replies.
LEMMA OthersForward ==
    ASSUME TypeInv, ForwardInv, NEW t \in Task, AssignStep(t) \/ ReplyStep(t)
    PROVE  ForwardInv'
<1> USE DEF agents, assignments, messages, autoReplies, history, bounds
<1>1. ASSUME NEW c \in Conversation, NEW a \in Agent, BeginAssign(t, c, a) PROVE ForwardInv'
  <2> DEFINE T == Request("user", "assign", NoId, c, a)
  <2>1. Only(t) /\ task'[t] = T
    BY <1>1, Beginning DEF BeginAssign
  <2>2. T.pc = "user" /\ T.chat = FALSE
    BY DEF Request
  <2> HIDE DEF T
  <2>3. QED
    BY <1>1, <2>1, <2>2, MovingQuietly DEF BeginAssign, Recalls
<1>2. ASSUME NEW c \in Conversation, BeginUnassign(t, c) PROVE ForwardInv'
  <2> DEFINE T == Request("clear", "unassign", NoId, c, NoId)
  <2>1. Only(t) /\ task'[t] = T
    BY <1>2, Beginning DEF BeginUnassign
  <2>2. T.pc = "clear" /\ T.chat = FALSE
    BY DEF Request
  <2> HIDE DEF T
  <2>3. QED
    BY <1>2, <2>1, <2>2, MovingQuietly DEF BeginUnassign, Recalls
<1>3. ASSUME NEW r \in Reply, ReceiveReply(t, r) PROVE ForwardInv'
  <2> DEFINE T == Request("find", "reply", r, answers[r], author[r])
  <2>1. Only(t) /\ task'[t] = T
    BY <1>3, Beginning DEF ReceiveReply
  <2>2. T.pc = "find" /\ T.chat = FALSE
    BY DEF Request
  <2> HIDE DEF T
  <2>3. QED
    BY <1>3, <2>1, <2>2, MovingQuietly DEF ReceiveReply, Recalls
<1>4. CASE FindConversation(t)
  <2>1. CASE Its(t) \in chatId
    <3> DEFINE T == [task[t] EXCEPT !.pc = "agent", !.owner = owner[Its(t)]]
    <3>1. T.pc # "forward" /\ T.conversation = task[t].conversation /\ T.chat = task[t].chat
      BY Standing DEF TaskState
    <3>2. task' = [task EXCEPT ![t] = T]
      BY <1>4, <2>1 DEF FindConversation
    <3> HIDE DEF T
    <3>3. QED
      BY <1>4, <3>1, <3>2, Placed, MovingQuietly DEF FindConversation, Recalls
  <2>2. CASE Its(t) \notin chatId
    BY <1>4, <2>2, Moves, Recalling, IdleTypes, MovingQuietly DEF FindConversation
  <2>3. QED
    BY <2>1, <2>2
<1>o. /\ NoId \in Agent \cup {NoId}
      /\ At(t, "open") => task[t].agent \in Agent \cup {NoId}
  BY Standing DEF TypeInv, At, AssignPc
<1>5. CASE FindUser(t)
  <2>1. Only(t) /\ Recalls(t) /\ task'[t].pc # "forward"
    BY <1>5, Moves, Recalling, IdleTypes DEF FindUser, TaskPc, At
  <2>2. stored \subseteq stored' /\ UNCHANGED <<chatId, forwards>>
    BY <1>5 DEF FindUser
  <2>3. QED
    BY <2>1, <2>2, MovingQuietly
<1>6. CASE Check(t)
  <2>1. Only(t) /\ Recalls(t) /\ task'[t].pc # "forward"
    BY <1>6, <1>o, Moves, Recalling, IdleTypes DEF Check, TaskPc, At
  <2>2. stored \subseteq stored' /\ UNCHANGED <<chatId, forwards>>
    BY <1>6 DEF Check
  <2>3. QED
    BY <2>1, <2>2, MovingQuietly
<1>7. CASE Own(t)
  <2>1. Only(t) /\ Recalls(t) /\ task'[t].pc # "forward"
    BY <1>7, Moves, Recalling, IdleTypes DEF Own, TaskPc, At
  <2>2. stored \subseteq stored' /\ UNCHANGED <<chatId, forwards>>
    BY <1>7 DEF Own
  <2>3. QED
    BY <2>1, <2>2, MovingQuietly
<1>8. CASE Close(t)
  <2>1. Only(t) /\ Recalls(t) /\ task'[t].pc # "forward"
    BY <1>8, Moves, Recalling, IdleTypes DEF Close, TaskPc, At
  <2>2. stored \subseteq stored' /\ UNCHANGED <<chatId, forwards>>
    BY <1>8 DEF Close
  <2>3. QED
    BY <2>1, <2>2, MovingQuietly
<1>9. CASE Open(t)
  <2>1. Only(t) /\ Recalls(t) /\ task'[t].pc # "forward"
    BY <1>9, <1>o, Moves, Recalling, IdleTypes DEF Open, TaskPc, At
  <2>2. stored \subseteq stored' /\ UNCHANGED <<chatId, forwards>>
    BY <1>9 DEF Open
  <2>3. QED
    BY <2>1, <2>2, MovingQuietly
<1>10. CASE AssignError(t)
  <2>1. Only(t) /\ Recalls(t) /\ task'[t].pc # "forward"
    BY <1>10, <1>o, Moves, Recalling, IdleTypes DEF AssignError, TaskPc, At
  <2>2. stored \subseteq stored' /\ UNCHANGED <<chatId, forwards>>
    BY <1>10 DEF AssignError
  <2>3. QED
    BY <2>1, <2>2, MovingQuietly
<1>11. CASE Clear(t)
  <2>1. Only(t) /\ Recalls(t) /\ task'[t].pc # "forward"
    BY <1>11, Moves, Recalling, IdleTypes DEF Clear, TaskPc, At
  <2>2. stored \subseteq stored' /\ UNCHANGED <<chatId, forwards>>
    BY <1>11 DEF Clear
  <2>3. QED
    BY <2>1, <2>2, MovingQuietly
<1>12. CASE Disown(t)
  <2>1. Only(t) /\ Recalls(t) /\ task'[t].pc # "forward"
    BY <1>12, Moves, Recalling, IdleTypes DEF Disown, TaskPc, At
  <2>2. stored \subseteq stored' /\ UNCHANGED <<chatId, forwards>>
    BY <1>12 DEF Disown
  <2>3. QED
    BY <2>1, <2>2, MovingQuietly
<1>13. CASE ApiError(t)
  <2>1. Only(t) /\ Recalls(t) /\ task'[t].pc # "forward"
    BY <1>13, Moves, Recalling, IdleTypes DEF ApiError, TaskPc, At
  <2>2. stored \subseteq stored' /\ UNCHANGED <<chatId, forwards>>
    BY <1>13 DEF ApiError
  <2>3. QED
    BY <2>1, <2>2, MovingQuietly
<1>14. CASE FindAgent(t)
  <2>1. Only(t) /\ Recalls(t) /\ task'[t].pc # "forward"
    BY <1>14, Moves, Recalling, IdleTypes DEF FindAgent, TaskPc, At, AfterAgent
  <2>2. stored \subseteq stored' /\ UNCHANGED <<chatId, forwards>>
    BY <1>14 DEF FindAgent
  <2>3. QED
    BY <2>1, <2>2, MovingQuietly
<1>15. CASE Enrich(t)
  <2>1. Only(t) /\ Recalls(t) /\ task'[t].pc # "forward"
    BY <1>15, Moves, Recalling, IdleTypes DEF Enrich, TaskPc, At, AfterAgent
  <2>2. stored \subseteq stored' /\ UNCHANGED <<chatId, forwards>>
    BY <1>15 DEF Enrich
  <2>3. QED
    BY <2>1, <2>2, MovingQuietly
<1>16. CASE SaveReply(t)
  <2>1. Only(t) /\ Recalls(t) /\ task'[t].pc # "forward"
    BY <1>16, Moves, Recalling, IdleTypes DEF SaveReply, TaskPc, At
  <2>2. stored \subseteq stored' /\ UNCHANGED <<chatId, forwards>>
    BY <1>16 DEF SaveReply
  <2>3. QED
    BY <2>1, <2>2, MovingQuietly
<1>17. CASE ReplyError(t)
  <2>1. Only(t) /\ Recalls(t) /\ task'[t].pc # "forward"
    BY <1>17, Moves, Recalling, IdleTypes DEF ReplyError, TaskPc, At
  <2>2. stored \subseteq stored' /\ UNCHANGED <<chatId, forwards>>
    BY <1>17 DEF ReplyError
  <2>3. QED
    BY <2>1, <2>2, MovingQuietly
<1>q. QED
  BY <1>1, <1>2, <1>3, <1>4, <1>5, <1>6, <1>7, <1>8, <1>9, <1>10, <1>11, <1>12, <1>13, <1>14, <1>15, <1>16, <1>17 DEF AssignStep, ReplyStep

\* Every step keeps what is known of forwarded messages.
LEMMA ForwardStep == TypeInv /\ ForwardInv /\ [Next]_vars => ForwardInv'
<1> SUFFICES ASSUME TypeInv, ForwardInv, [Next]_vars PROVE ForwardInv'
  OBVIOUS
<1>1. CASE \E t \in Task : MessageStep(t) \/ AssignStep(t) \/ ReplyStep(t)
  BY <1>1, MessageForwards, OthersForward
<1>2. CASE Crash
  BY <1>2, IdleTypes
     DEF Crash, messages, ForwardInv, ChatKnown, Forwarding, Forwarded, At
<1>3. CASE UNCHANGED vars
  BY <1>3 DEF vars, messages, ForwardInv, ChatKnown, Forwarding, Forwarded, At, Its
<1>4. QED
  BY <1>1, <1>2, <1>3 DEF Next

\* What is known of forwarded messages holds in every reachable state.
LEMMA ForwardHolds == Spec => []ForwardInv
<1>1. Init => ForwardInv
  BY IdleTypes DEF Init, ForwardInv, ChatKnown, Forwarding, Forwarded, At
<1>2. QED
  BY <1>1, TypeInit, TypeStep, ForwardStep, PTL DEF Spec

\* The open line is given a message once, when its row is there, for any number of
\* deliveries handled at once.
THEOREM MessagesForwardedOnce == Spec => []ForwardedOnce
<1>1. ForwardInv => ForwardedOnce
  BY DEF ForwardInv, Forwarded, ForwardedOnce
<1>2. QED
  BY <1>1, ForwardHolds, PTL

\* The chat id of what was forwarded is stored, whichever write has failed.
THEOREM ForwardsAreAnswerable == Spec => []ForwardedIsAnswerable
<1>1. ForwardInv => ForwardedIsAnswerable
  BY DEF ForwardInv, Forwarded, ForwardedIsAnswerable
<1>2. QED
  BY <1>1, ForwardHolds, PTL

-----------------------------------------------------------------------------
(* What is done once.                                                      *)

\* A reply that no two deliveries handled at once is stored once, and not before the
\* one delivery that handles it is at its end; there are no two of those.
ReplyInv ==
    \A r \in Reply \ rivalled :
        /\ saved[r] <= 1
        /\ \A t \in Task : Saving(t, r) => saved[r] = 0
        /\ \A t, u \in Task : Saving(t, r) /\ Saving(u, r) => t = u

\* A contact about whom the log can be trusted was answered once at most: the answer is
\* in the log, or in the hands of the one request that is about to log it.
AnswerInv ==
    \A k \in Contact \ unsure :
        /\ replies[k] <= 1
        /\ \A t \in Task : Answering(t, k) =>
              k \notin logged /\ (replies[k] = 0 <=> At(t, "send"))
        /\ \A t, u \in Task : Answering(t, k) /\ Answering(u, k) => t = u
        /\ replies[k] = 1 => k \in logged \/ \E t \in Task : Answering(t, k)

\* A step that begins no reply and stores none, and one that has no part in an answer.
Unsaving(t) ==
    /\ Only(t)
    /\ \A r \in Reply : Saving(t, r)' => Saving(t, r)
    /\ UNCHANGED <<saved, rivalled>>
Unanswering(t) ==
    /\ Only(t)
    /\ task[t].pc \notin {"send", "log"} /\ task'[t].pc \notin {"send", "log"}
    /\ UNCHANGED <<replies, logged, unsure>>

\* The first keeps what is known of replies, and the second what is known of answers.
LEMMA UnsavingKeeps ==
    ASSUME ReplyInv, NEW t \in Task, Unsaving(t)
    PROVE  ReplyInv'
<1>1. \A u \in Task, r \in Reply : Saving(u, r)' => Saving(u, r)
  <2> SUFFICES ASSUME NEW u \in Task, NEW r \in Reply, Saving(u, r)' PROVE Saving(u, r)
    OBVIOUS
  <2>1. CASE u = t
    BY <2>1 DEF Unsaving
  <2>2. CASE u # t
    BY <2>2 DEF Unsaving, Only, Saving
  <2>3. QED
    BY <2>1, <2>2
<1>2. saved' = saved /\ rivalled' = rivalled
  BY DEF Unsaving
<1>3. QED
  BY <1>1, <1>2 DEF ReplyInv
LEMMA UnansweringKeeps ==
    ASSUME AnswerInv, NEW t \in Task, Unanswering(t)
    PROVE  AnswerInv'
<1>1. \A u \in Task, k \in Contact : Answering(u, k)' <=> Answering(u, k)
  <2> SUFFICES ASSUME NEW u \in Task, NEW k \in Contact PROVE Answering(u, k)' <=> Answering(u, k)
    OBVIOUS
  <2>1. CASE u = t
    BY <2>1 DEF Unanswering, Answering
  <2>2. CASE u # t
    BY <2>2 DEF Unanswering, Only, Answering, Its
  <2>3. QED
    BY <2>1, <2>2
<1>2. replies' = replies /\ logged' = logged /\ unsure' = unsure
  BY DEF Unanswering
<1>3. \A u \in Task : At(u, "send")' <=> At(u, "send")
  <2> SUFFICES ASSUME NEW u \in Task PROVE At(u, "send")' <=> At(u, "send")
    OBVIOUS
  <2>1. CASE u = t
    BY <2>1 DEF Unanswering, At
  <2>2. CASE u # t
    BY <2>2 DEF Unanswering, Only, At
  <2>3. QED
    BY <2>1, <2>2
<1>4. QED
  BY <1>1, <1>2, <1>3 DEF AnswerInv

\* A request that moves handles what it handled.
Keeps(t) == \A r \in Reply : Saving(t, r)' => Saving(t, r)
LEMMA Keeping ==
    ASSUME TypeInv, NEW t \in Task
    PROVE  /\ Finish(t) => Keeps(t)
           /\ task[t].pc # "idle" => \A pc \in TaskPc : Goto(t, pc) => Keeps(t)
           /\ task[t].pc # "idle" => \A a \in Agent : Choose(t, a) => Keeps(t)
           /\ task[t].pc # "idle" => \A a \in Agent \cup {NoId} : Continue(t, a) => Keeps(t)
<1> USE DEF TypeInv, TasksOK, Keeps
<1>1. Finish(t) => Keeps(t)
  BY IdleTypes DEF Finish, Saving
<1>2. ASSUME NEW pc \in TaskPc, Goto(t, pc), task[t].pc # "idle" PROVE Keeps(t)
  <2> DEFINE T == [task[t] EXCEPT !.pc = pc]
  <2>1. T.kind = task[t].kind /\ T.item = task[t].item
    BY DEF TaskState
  <2>2. task' = [task EXCEPT ![t] = T]
    BY <1>2 DEF Goto
  <2> HIDE DEF T
  <2>3. QED
    BY <1>2, <2>1, <2>2 DEF Saving
<1>3. ASSUME NEW a \in Agent, Choose(t, a), task[t].pc # "idle" PROVE Keeps(t)
  <2> DEFINE T == [task[t] EXCEPT !.pc = "check", !.agent = a]
  <2>1. T.kind = task[t].kind /\ T.item = task[t].item
    BY DEF TaskState
  <2>2. task' = [task EXCEPT ![t] = T]
    BY <1>3 DEF Choose
  <2> HIDE DEF T
  <2>3. QED
    BY <1>3, <2>1, <2>2 DEF Saving
<1>4. ASSUME NEW a \in Agent \cup {NoId}, Continue(t, a), task[t].pc # "idle" PROVE Keeps(t)
  <2>1. CASE task' = [task EXCEPT ![t] = [@ EXCEPT !.pc = "store", !.owner = a]]
    <3> DEFINE T == [task[t] EXCEPT !.pc = "store", !.owner = a]
    <3>1. T.kind = task[t].kind /\ T.item = task[t].item
      BY DEF TaskState
    <3>2. task' = [task EXCEPT ![t] = T]
      BY <2>1
    <3> HIDE DEF T
    <3>3. QED
      BY <1>4, <3>1, <3>2 DEF Saving
  <2>2. CASE Goto(t, "save")
    BY <2>2, <1>2, <1>4 DEF TaskPc
  <2>3. CASE Finish(t)
    BY <2>3, <1>1
  <2>4. QED
    BY <1>4, <2>1, <2>2, <2>3 DEF Continue
<1>5. QED
  BY <1>1, <1>2, <1>3, <1>4

\* Picking an agent is such a move.
LEMMA PickKeeps ==
    ASSUME TypeInv, NEW t \in Task, NEW load, PickFrom(t, load), At(t, "stats")
    PROVE  Keeps(t)
<1>1. task[t].listed \subseteq Agent
  BY Standing DEF TypeInv, TaskState
<1>2. Picked(task[t].listed, load) \subseteq Agent
  BY <1>1 DEF Picked, Candidates
<1>3. QED
  BY <1>2, Keeping DEF PickFrom, TaskPc, At

\* A customer message stores no reply of an operator, and up to the row of the message it
\* answers nobody.
LEMMA MessageSaves ==
    ASSUME TypeInv, NEW t \in Task, MessageStep(t)
    PROVE  \/ Unsaving(t) /\ Unanswering(t)
           \/ Unsaving(t) /\ (Answer(t) \/ Send(t) \/ Log(t) \/ AnswerError(t))
<1> USE DEF agents, assignments, messages, autoReplies, history, bounds
<1>1. ASSUME NEW m \in Message, ReceiveMessage(t, m) PROVE Unsaving(t) /\ Unanswering(t)
  <2> DEFINE T == Request("resolve", "message", m, sentTo[m], NoId)
  <2>1. Only(t) /\ task'[t] = T /\ task[t].pc = "idle"
    BY <1>1, Beginning DEF ReceiveMessage
  <2>2. T.pc = "resolve" /\ T.kind # "reply"
    BY DEF Request
  <2> HIDE DEF T
  <2>3. QED
    BY <1>1, <2>1, <2>2 DEF ReceiveMessage, Unsaving, Unanswering, Saving
<1>2. CASE Resolve(t)
  <2> DEFINE T == [task[t] EXCEPT !.pc = "chat", !.owner = owner[Its(t)], !.chat = Its(t) \in chatId]
  <2>1. T.pc \notin {"send", "log"} /\ T.kind = task[t].kind /\ T.item = task[t].item
    BY Standing DEF TaskState
  <2>2. task' = [task EXCEPT ![t] = T]
    BY <1>2 DEF Resolve
  <2> HIDE DEF T
  <2>3. QED
    BY <1>2, <2>1, <2>2, Placed DEF Resolve, At, Unsaving, Unanswering, Saving
<1>3. CASE ResolveError(t)
  <2>1. Only(t) /\ Keeps(t) /\ task'[t].pc \notin {"send", "log"}
    BY <1>3, Moves, Keeping, IdleTypes DEF ResolveError, TaskPc, At
  <2>2. UNCHANGED <<saved, rivalled, replies, logged, unsure>> /\ task[t].pc \notin {"send", "log"}
    BY <1>3 DEF ResolveError, At
  <2>3. QED
    BY <2>1, <2>2 DEF Unsaving, Unanswering, Keeps
<1>4. CASE EnsureChat(t)
  <2> DEFINE T == [task[t] EXCEPT !.pc = AfterChat(t), !.chat = TRUE]
  <2>1. T.pc \notin {"send", "log"} /\ T.kind = task[t].kind /\ T.item = task[t].item
    BY Standing DEF TaskState, AfterChat
  <2>2. task' = [task EXCEPT ![t] = T]
    BY <1>4 DEF EnsureChat
  <2> HIDE DEF T
  <2>3. QED
    BY <1>4, <2>1, <2>2, Placed DEF EnsureChat, At, Unsaving, Unanswering, Saving
<1>5. CASE ChatError(t)
  <2>1. Only(t) /\ Keeps(t) /\ task'[t].pc \notin {"send", "log"}
    BY <1>5, Moves, Keeping, IdleTypes DEF ChatError, TaskPc, At, AfterChat
  <2>2. UNCHANGED <<saved, rivalled, replies, logged, unsure>> /\ task[t].pc \notin {"send", "log"}
    BY <1>5 DEF ChatError, At
  <2>3. QED
    BY <2>1, <2>2 DEF Unsaving, Unanswering, Keeps
<1>6. CASE Reuse(t)
  <2>1. Only(t) /\ Keeps(t) /\ task'[t].pc \notin {"send", "log"}
    BY <1>6, Moves, Keeping, IdleTypes DEF Reuse, TaskPc, At, Colleagues
  <2>2. UNCHANGED <<saved, rivalled, replies, logged, unsure>> /\ task[t].pc \notin {"send", "log"}
    BY <1>6 DEF Reuse, At
  <2>3. QED
    BY <2>1, <2>2 DEF Unsaving, Unanswering, Keeps
<1>7. CASE List(t)
  <2> DEFINE T == [task[t] EXCEPT
                      !.pc = IF {a \in Agent : mirror[a] = "active"} = {} THEN "store" ELSE "stats",
                      !.listed = {a \in Agent : mirror[a] = "active"}]
  <2>1. T.pc \notin {"send", "log"} /\ T.kind = task[t].kind /\ T.item = task[t].item
    BY Standing DEF TaskState
  <2>2. task' = [task EXCEPT ![t] = T]
    BY <1>7 DEF List
  <2> HIDE DEF T
  <2>3. QED
    BY <1>7, <2>1, <2>2, Placed DEF List, At, Unsaving, Unanswering, Saving
<1>8. CASE Pick(t)
  <2>1. Only(t) /\ Keeps(t) /\ task'[t].pc \notin {"send", "log"}
    BY <1>8, Picks, PickKeeps, Moves, Keeping, IdleTypes DEF Pick, TaskPc, At
  <2>2. UNCHANGED <<saved, rivalled, replies, logged, unsure>> /\ task[t].pc \notin {"send", "log"}
    BY <1>8 DEF Pick, At
  <2>3. QED
    BY <2>1, <2>2 DEF Unsaving, Unanswering, Keeps
<1>9. CASE RoutingReadError(t)
  <2>1. Only(t) /\ Keeps(t) /\ task'[t].pc \notin {"send", "log"}
    BY <1>9, Picks, PickKeeps, Moves, Keeping, IdleTypes DEF RoutingReadError, TaskPc, At
  <2>2. UNCHANGED <<saved, rivalled, replies, logged, unsure>> /\ task[t].pc \notin {"send", "log"}
    BY <1>9 DEF RoutingReadError, At
  <2>3. QED
    BY <2>1, <2>2 DEF Unsaving, Unanswering, Keeps
<1>10. CASE Store(t)
  <2>1. Only(t) /\ Keeps(t) /\ task'[t].pc \notin {"send", "log"}
    BY <1>10, Moves, Keeping, IdleTypes DEF Store, TaskPc, At
  <2>2. UNCHANGED <<saved, rivalled, replies, logged, unsure>> /\ task[t].pc \notin {"send", "log"}
    BY <1>10 DEF Store, At
  <2>3. QED
    BY <2>1, <2>2 DEF Unsaving, Unanswering, Keeps
<1>11. CASE StoreError(t)
  <2>1. Only(t) /\ Keeps(t) /\ task'[t].pc \notin {"send", "log"}
    BY <1>11, Moves, Keeping, IdleTypes DEF StoreError, TaskPc, At
  <2>2. UNCHANGED <<saved, rivalled, replies, logged, unsure>> /\ task[t].pc \notin {"send", "log"}
    BY <1>11 DEF StoreError, At
  <2>3. QED
    BY <2>1, <2>2 DEF Unsaving, Unanswering, Keeps
<1>12. CASE Forward(t)
  <2>1. Only(t) /\ Keeps(t) /\ task'[t].pc \notin {"send", "log"}
    BY <1>12, Moves, Keeping, IdleTypes DEF Forward, TaskPc, At
  <2>2. UNCHANGED <<saved, rivalled, replies, logged, unsure>> /\ task[t].pc \notin {"send", "log"}
    BY <1>12 DEF Forward, At
  <2>3. QED
    BY <2>1, <2>2 DEF Unsaving, Unanswering, Keeps
<1>13. CASE ForwardError(t)
  <2>1. Only(t) /\ Keeps(t) /\ task'[t].pc \notin {"send", "log"}
    BY <1>13, Moves, Keeping, IdleTypes DEF ForwardError, TaskPc, At
  <2>2. UNCHANGED <<saved, rivalled, replies, logged, unsure>> /\ task[t].pc \notin {"send", "log"}
    BY <1>13 DEF ForwardError, At
  <2>3. QED
    BY <2>1, <2>2 DEF Unsaving, Unanswering, Keeps
<1>14. CASE DoNotAnswer(t)
  <2>1. Only(t) /\ Keeps(t) /\ task'[t].pc \notin {"send", "log"}
    BY <1>14, Moves, Keeping, IdleTypes DEF DoNotAnswer, TaskPc, At
  <2>2. UNCHANGED <<saved, rivalled, replies, logged, unsure>> /\ task[t].pc \notin {"send", "log"}
    BY <1>14 DEF DoNotAnswer, At
  <2>3. QED
    BY <2>1, <2>2 DEF Unsaving, Unanswering, Keeps
<1>15. CASE Answer(t) \/ Send(t) \/ Log(t) \/ AnswerError(t)
  <2>1. Only(t) /\ Keeps(t)
    BY <1>15, Moves, Keeping DEF Answer, Send, Log, AnswerError, TaskPc, At
  <2>2. UNCHANGED <<saved, rivalled>>
    BY <1>15 DEF Answer, Send, Log, AnswerError
  <2>3. QED
    BY <1>15, <2>1, <2>2 DEF Unsaving, Keeps
<1>q. QED
  BY <1>1, <1>2, <1>3, <1>4, <1>5, <1>6, <1>7, <1>8, <1>9, <1>10, <1>11, <1>12, <1>13, <1>14, <1>15 DEF MessageStep

\* An assignment stores no reply, and answers nobody.
LEMMA AssignSaves ==
    ASSUME TypeInv, NEW t \in Task, AssignStep(t)
    PROVE  Unsaving(t) /\ Unanswering(t)
<1> USE DEF agents, assignments, messages, autoReplies, history, bounds
<1>o. /\ NoId \in Agent \cup {NoId}
      /\ At(t, "open") => task[t].agent \in Agent \cup {NoId}
  BY Standing DEF TypeInv, At, AssignPc
<1>1. ASSUME NEW c \in Conversation, NEW a \in Agent, BeginAssign(t, c, a) PROVE Unsaving(t) /\ Unanswering(t)
  <2> DEFINE T == Request("user", "assign", NoId, c, a)
  <2>1. Only(t) /\ task'[t] = T /\ task[t].pc = "idle"
    BY <1>1, Beginning DEF BeginAssign
  <2>2. T.pc = "user" /\ T.kind # "reply"
    BY DEF Request
  <2> HIDE DEF T
  <2>3. QED
    BY <1>1, <2>1, <2>2 DEF BeginAssign, Unsaving, Unanswering, Saving
<1>2. ASSUME NEW c \in Conversation, BeginUnassign(t, c) PROVE Unsaving(t) /\ Unanswering(t)
  <2> DEFINE T == Request("clear", "unassign", NoId, c, NoId)
  <2>1. Only(t) /\ task'[t] = T /\ task[t].pc = "idle"
    BY <1>2, Beginning DEF BeginUnassign
  <2>2. T.pc = "clear" /\ T.kind # "reply"
    BY DEF Request
  <2> HIDE DEF T
  <2>3. QED
    BY <1>2, <2>1, <2>2 DEF BeginUnassign, Unsaving, Unanswering, Saving
<1>3. CASE FindUser(t)
  <2>1. Only(t) /\ Keeps(t) /\ task'[t].pc \notin {"send", "log"}
    BY <1>3, <1>o, Moves, Keeping, IdleTypes DEF FindUser, TaskPc, At
  <2>2. UNCHANGED <<saved, rivalled, replies, logged, unsure>> /\ task[t].pc \notin {"send", "log"}
    BY <1>3 DEF FindUser, At
  <2>3. QED
    BY <2>1, <2>2 DEF Unsaving, Unanswering, Keeps
<1>4. CASE Check(t)
  <2>1. Only(t) /\ Keeps(t) /\ task'[t].pc \notin {"send", "log"}
    BY <1>4, <1>o, Moves, Keeping, IdleTypes DEF Check, TaskPc, At
  <2>2. UNCHANGED <<saved, rivalled, replies, logged, unsure>> /\ task[t].pc \notin {"send", "log"}
    BY <1>4 DEF Check, At
  <2>3. QED
    BY <2>1, <2>2 DEF Unsaving, Unanswering, Keeps
<1>5. CASE Own(t)
  <2>1. Only(t) /\ Keeps(t) /\ task'[t].pc \notin {"send", "log"}
    BY <1>5, <1>o, Moves, Keeping, IdleTypes DEF Own, TaskPc, At
  <2>2. UNCHANGED <<saved, rivalled, replies, logged, unsure>> /\ task[t].pc \notin {"send", "log"}
    BY <1>5 DEF Own, At
  <2>3. QED
    BY <2>1, <2>2 DEF Unsaving, Unanswering, Keeps
<1>6. CASE Close(t)
  <2>1. Only(t) /\ Keeps(t) /\ task'[t].pc \notin {"send", "log"}
    BY <1>6, <1>o, Moves, Keeping, IdleTypes DEF Close, TaskPc, At
  <2>2. UNCHANGED <<saved, rivalled, replies, logged, unsure>> /\ task[t].pc \notin {"send", "log"}
    BY <1>6 DEF Close, At
  <2>3. QED
    BY <2>1, <2>2 DEF Unsaving, Unanswering, Keeps
<1>7. CASE Open(t)
  <2>1. Only(t) /\ Keeps(t) /\ task'[t].pc \notin {"send", "log"}
    BY <1>7, <1>o, Moves, Keeping, IdleTypes DEF Open, TaskPc, At
  <2>2. UNCHANGED <<saved, rivalled, replies, logged, unsure>> /\ task[t].pc \notin {"send", "log"}
    BY <1>7 DEF Open, At
  <2>3. QED
    BY <2>1, <2>2 DEF Unsaving, Unanswering, Keeps
<1>8. CASE AssignError(t)
  <2>1. Only(t) /\ Keeps(t) /\ task'[t].pc \notin {"send", "log"}
    BY <1>8, <1>o, Moves, Keeping, IdleTypes DEF AssignError, TaskPc, At
  <2>2. UNCHANGED <<saved, rivalled, replies, logged, unsure>> /\ task[t].pc \notin {"send", "log"}
    BY <1>8 DEF AssignError, At
  <2>3. QED
    BY <2>1, <2>2 DEF Unsaving, Unanswering, Keeps
<1>9. CASE Clear(t)
  <2>1. Only(t) /\ Keeps(t) /\ task'[t].pc \notin {"send", "log"}
    BY <1>9, <1>o, Moves, Keeping, IdleTypes DEF Clear, TaskPc, At
  <2>2. UNCHANGED <<saved, rivalled, replies, logged, unsure>> /\ task[t].pc \notin {"send", "log"}
    BY <1>9 DEF Clear, At
  <2>3. QED
    BY <2>1, <2>2 DEF Unsaving, Unanswering, Keeps
<1>10. CASE Disown(t)
  <2>1. Only(t) /\ Keeps(t) /\ task'[t].pc \notin {"send", "log"}
    BY <1>10, <1>o, Moves, Keeping, IdleTypes DEF Disown, TaskPc, At
  <2>2. UNCHANGED <<saved, rivalled, replies, logged, unsure>> /\ task[t].pc \notin {"send", "log"}
    BY <1>10 DEF Disown, At
  <2>3. QED
    BY <2>1, <2>2 DEF Unsaving, Unanswering, Keeps
<1>11. CASE ApiError(t)
  <2>1. Only(t) /\ Keeps(t) /\ task'[t].pc \notin {"send", "log"}
    BY <1>11, <1>o, Moves, Keeping, IdleTypes DEF ApiError, TaskPc, At
  <2>2. UNCHANGED <<saved, rivalled, replies, logged, unsure>> /\ task[t].pc \notin {"send", "log"}
    BY <1>11 DEF ApiError, At
  <2>3. QED
    BY <2>1, <2>2 DEF Unsaving, Unanswering, Keeps
<1>q. QED
  BY <1>1, <1>2, <1>3, <1>4, <1>5, <1>6, <1>7, <1>8, <1>9, <1>10, <1>11 DEF AssignStep

\* A delivery of a reply answers nobody automatically, and up to the row it stores nothing.
LEMMA ReplySaves ==
    ASSUME TypeInv, NEW t \in Task, ReplyStep(t)
    PROVE  \/ Unsaving(t) /\ Unanswering(t)
           \/ /\ Unanswering(t)
              /\ (\E r \in Reply : ReceiveReply(t, r)) \/ SaveReply(t) \/ ReplyError(t)
<1> USE DEF agents, assignments, messages, autoReplies, history, bounds
<1>1. ASSUME NEW r \in Reply, ReceiveReply(t, r) PROVE Unanswering(t)
  <2> DEFINE T == Request("find", "reply", r, answers[r], author[r])
  <2>1. Only(t) /\ task'[t] = T /\ task[t].pc = "idle"
    BY <1>1, Beginning DEF ReceiveReply
  <2>2. T.pc = "find"
    BY DEF Request
  <2> HIDE DEF T
  <2>3. QED
    BY <1>1, <2>1, <2>2 DEF ReceiveReply, Unanswering
<1>2. CASE FindConversation(t)
  <2>1. CASE Its(t) \in chatId
    <3> DEFINE T == [task[t] EXCEPT !.pc = "agent", !.owner = owner[Its(t)]]
    <3>1. T.pc \notin {"send", "log"} /\ T.kind = task[t].kind /\ T.item = task[t].item
      BY Standing DEF TaskState
    <3>2. task' = [task EXCEPT ![t] = T]
      BY <1>2, <2>1 DEF FindConversation
    <3> HIDE DEF T
    <3>3. QED
      BY <1>2, <3>1, <3>2, Placed DEF FindConversation, At, Unsaving, Unanswering, Saving
  <2>2. CASE Its(t) \notin chatId
    BY <1>2, <2>2, Moves, Keeping, IdleTypes DEF FindConversation, At, Unsaving, Unanswering, Keeps
  <2>3. QED
    BY <2>1, <2>2
<1>3. CASE FindAgent(t)
  <2>1. Only(t) /\ Keeps(t) /\ task'[t].pc \notin {"send", "log"}
    BY <1>3, Moves, Keeping, IdleTypes DEF FindAgent, TaskPc, At, AfterAgent
  <2>2. UNCHANGED <<saved, rivalled, replies, logged, unsure>> /\ task[t].pc \notin {"send", "log"}
    BY <1>3 DEF FindAgent, At
  <2>3. QED
    BY <2>1, <2>2 DEF Unsaving, Unanswering, Keeps
<1>4. CASE Enrich(t)
  <2>1. Only(t) /\ Keeps(t) /\ task'[t].pc \notin {"send", "log"}
    BY <1>4, Moves, Keeping, IdleTypes DEF Enrich, TaskPc, At, AfterAgent
  <2>2. UNCHANGED <<saved, rivalled, replies, logged, unsure>> /\ task[t].pc \notin {"send", "log"}
    BY <1>4 DEF Enrich, At
  <2>3. QED
    BY <2>1, <2>2 DEF Unsaving, Unanswering, Keeps
<1>5. ASSUME SaveReply(t) \/ ReplyError(t) PROVE Unanswering(t)
  BY <1>5, Moves, IdleTypes DEF SaveReply, ReplyError, At, Unanswering
<1>q. QED
  BY <1>1, <1>2, <1>3, <1>4, <1>5 DEF ReplyStep

\* A delivery stores its reply if nobody has, and is alone with it or tells.
LEMMA ReplyRows ==
    ASSUME TypeInv, ReplyInv, NEW t \in Task,
           (\E r \in Reply : ReceiveReply(t, r)) \/ SaveReply(t) \/ ReplyError(t)
    PROVE  ReplyInv'
<1> USE DEF agents, assignments, messages, autoReplies, history, bounds
<1>1. ASSUME NEW r \in Reply, ReceiveReply(t, r) PROVE ReplyInv'
  <2> DEFINE T == Request("find", "reply", r, answers[r], author[r])
  <2>1. Only(t) /\ task'[t] = T
    BY <1>1, Beginning DEF ReceiveReply
  <2>2. T.item = r
    BY DEF Request
  <2> HIDE DEF T
  <2>3. SUFFICES ASSUME NEW q \in Reply, q \notin rivalled'
                 PROVE  /\ saved'[q] <= 1
                        /\ \A u \in Task : Saving(u, q)' => saved'[q] = 0
                        /\ \A u, v \in Task : Saving(u, q)' /\ Saving(v, q)' => u = v
    BY DEF ReplyInv
  <2>4. q \notin rivalled /\ saved' = saved
    BY <1>1, <2>3 DEF ReceiveReply
  <2>5. CASE q = r
    <3>1. saved[q] = 0 /\ \A u \in Task \ {t} : ~Saving(u, q)
      BY <1>1, <2>3, <2>5 DEF ReceiveReply
    <3>2. \A u \in Task \ {t} : ~Saving(u, q)'
      BY <2>1, <3>1 DEF Only, Saving
    <3>3. QED
      BY <2>4, <3>1, <3>2
  <2>6. CASE q # r
    <3>1. \A u \in Task : Saving(u, q)' => Saving(u, q)
      BY <2>1, <2>2, <2>6 DEF Only, Saving
    <3>2. QED
      BY <2>4, <3>1 DEF ReplyInv
  <2>7. QED
    BY <2>5, <2>6
<1>2. CASE SaveReply(t) \/ ReplyError(t)
  <2>1. Only(t) /\ task'[t].pc = "idle" /\ UNCHANGED rivalled
    BY <1>2, Moves, IdleTypes DEF SaveReply, ReplyError
  <2>2. \A u \in Task, q \in Reply : Saving(u, q)' => u # t /\ Saving(u, q)
    <3> SUFFICES ASSUME NEW u \in Task, NEW q \in Reply, Saving(u, q)'
                 PROVE  u # t /\ Saving(u, q)
      OBVIOUS
    <3>1. u # t
      BY <2>1 DEF Saving
    <3>2. QED
      BY <2>1, <3>1 DEF Only, Saving
  <2>3. CASE UNCHANGED saved
    BY <2>1, <2>2, <2>3 DEF ReplyInv
  <2>4. CASE At(t, "save") /\ saved' = [saved EXCEPT ![task[t].item] = More(@)]
    <3> DEFINE r == task[t].item
    <3>1. r \in Reply /\ Saving(t, r)
      BY <2>4, Standing DEF TypeInv, At, ReplyPc, Saving
    <3> HIDE DEF r
    <3>2. saved' = [saved EXCEPT ![r] = More(saved[r])]
      BY <2>4 DEF r
    <3>3. \A q \in Reply : saved'[q] = IF q = r THEN More(saved[r]) ELSE saved[q]
      BY <3>1, <3>2 DEF TypeInv, RowsOK
    <3>4. SUFFICES ASSUME NEW q \in Reply, q \notin rivalled
                   PROVE  /\ saved'[q] <= 1
                          /\ \A u \in Task : Saving(u, q)' => saved'[q] = 0
                          /\ \A u, v \in Task : Saving(u, q)' /\ Saving(v, q)' => u = v
      BY <2>1 DEF ReplyInv
    <3>5. CASE q = r
      <4>1. saved[q] = 0 /\ \A u \in Task : ~Saving(u, q)'
        BY <2>2, <3>1, <3>4, <3>5 DEF ReplyInv
      <4>2. saved'[q] = 1
        BY <3>3, <3>5, <4>1 DEF More, Many
      <4>3. QED
        BY <4>1, <4>2
    <3>6. CASE q # r
      BY <2>2, <3>3, <3>4, <3>6 DEF ReplyInv
    <3>7. QED
      BY <3>5, <3>6
  <2>5. QED
    BY <1>2, <2>3, <2>4 DEF SaveReply, ReplyError
<1>3. QED
  BY <1>1, <1>2

\* A request that answers a contact is alone with it or tells, and what it leaves
\* unlogged it tells too.
LEMMA AnswerRows ==
    ASSUME TypeInv, AnswerInv, NEW t \in Task,
           Answer(t) \/ Send(t) \/ Log(t) \/ AnswerError(t)
    PROVE  AnswerInv'
<1> DEFINE c == Customer(t)
<1> USE DEF agents, assignments, messages, autoReplies, history, bounds
<1>1. /\ c \in Contact /\ Only(t)
      /\ unsure \subseteq unsure'
      /\ \A k \in Contact : k # c => (k \in unsure' <=> k \in unsure)
                                   /\ (k \in logged' <=> k \in logged) /\ replies'[k] = replies[k]
  <2>1. c \in Contact
    BY Standing, EventAssumption
       DEF Customer, Answer, Send, Log, AnswerError, At, TypeInv
  <2>2. Only(t)
    BY Moves DEF Answer, Send, Log, AnswerError, TaskPc
  <2> HIDE DEF c
  <2>3. replies' = replies \/ replies' = [replies EXCEPT ![c] = More(@)]
    BY DEF Answer, Send, Log, AnswerError, c
  <2>4. unsure' = unsure \/ unsure' = unsure \cup {c}
    BY DEF Answer, Send, Log, AnswerError, c, Customer
  <2>5. logged' = logged \/ logged' = logged \cup {c}
    BY DEF Answer, Send, Log, AnswerError, c
  <2>6. \A k \in Contact : k # c => replies'[k] = replies[k]
    BY <2>1, <2>3 DEF TypeInv, OthersOK
  <2>7. QED
    BY <2>1, <2>2, <2>4, <2>5, <2>6
<1>2. /\ task'[t].pc # "idle" => Its(t)' = Its(t)
      /\ task'[t].pc = IF Answer(t) THEN "send" ELSE IF Send(t) THEN "log" ELSE "idle"
  <2>1. ~(Answer(t) /\ (Send(t) \/ Log(t) \/ AnswerError(t))) /\ ~(Send(t) /\ Log(t))
    BY DEF Answer, Send, Log, AnswerError, At
  <2>2. Answer(t) => task'[t].pc = "send" /\ Its(t)' = Its(t)
    BY Moves DEF Answer, TaskPc, Its
  <2>3. Send(t) => task'[t].pc = "log" /\ Its(t)' = Its(t)
    BY Moves DEF Send, TaskPc, Its
  <2>4. Log(t) \/ AnswerError(t) => task'[t].pc = "idle"
    BY Moves, IdleTypes DEF Log, AnswerError
  <2>5. QED
    BY <2>1, <2>2, <2>3, <2>4
<1>3. \A k \in Contact : c # k => ~Answering(t, k) /\ ~Answering(t, k)'
  BY <1>2 DEF Answering, Customer
<1>4. \A u \in Task \ {t} : /\ \A k \in Contact : Answering(u, k)' <=> Answering(u, k)
                            /\ At(u, "send")' <=> At(u, "send")
  BY <1>1 DEF Only, Answering, At, Its
<1> DEFINE Known(k) ==
        /\ replies[k] <= 1
        /\ \A u \in Task : Answering(u, k) =>
              k \notin logged /\ (replies[k] = 0 <=> At(u, "send"))
        /\ \A u, v \in Task : Answering(u, k) /\ Answering(v, k) => u = v
        /\ replies[k] = 1 => k \in logged \/ \E u \in Task : Answering(u, k)
<1>5. SUFFICES ASSUME NEW k \in Contact, k \notin unsure' PROVE Known(k)'
  BY DEF AnswerInv
<1>6. k \notin unsure /\ Known(k)
  BY <1>1, <1>5 DEF AnswerInv
<1>7. CASE k # c
  <2>1. /\ \A u \in Task : Answering(u, k)' <=> Answering(u, k)
        /\ \A u \in Task : Answering(u, k) => (At(u, "send")' <=> At(u, "send"))
    <3> SUFFICES ASSUME NEW u \in Task
                 PROVE  /\ Answering(u, k)' <=> Answering(u, k)
                        /\ Answering(u, k) => (At(u, "send")' <=> At(u, "send"))
      OBVIOUS
    <3>1. CASE u = t
      BY <1>3, <1>7, <3>1
    <3>2. CASE u # t
      BY <1>4, <3>2
    <3>3. QED
      BY <3>1, <3>2
  <2>2. (k \in logged' <=> k \in logged) /\ replies'[k] = replies[k]
    BY <1>1, <1>7
  <2>3. QED
    BY <1>6, <2>1, <2>2
<1>8. CASE k = c
  <2>0. replies[k] \in 0..Many
    BY <1>1 DEF TypeInv, OthersOK
  <2>1. ASSUME Answer(t) PROVE Known(k)'
    <3>1. k \notin logged /\ \A u \in Task \ {t} : ~Answering(u, k)
      BY <1>5, <1>8, <2>1 DEF Answer, Customer
    <3>2. ~Answering(t, k)
      BY <2>1 DEF Answer, At, Answering
    <3>3. replies[k] = 0
      BY <1>6, <1>8, <2>0, <3>1, <3>2 DEF Many
    <3>4. At(t, "send")' /\ replies' = replies /\ logged' = logged
      BY <1>2, <2>1 DEF Answer, At
    <3>5. \A u \in Task \ {t} : ~Answering(u, k)'
      BY <1>1, <1>4, <3>1
    <3>6. QED
      BY <1>8, <3>1, <3>3, <3>4, <3>5
  <2>2. ASSUME ~Answer(t) PROVE Known(k)'
    <3>1. Answering(t, k)
      BY <1>8, <2>2 DEF Send, Log, AnswerError, At, Answering, Customer
    <3>2. \A u \in Task \ {t} : ~Answering(u, k)
      BY <1>6, <1>8, <3>1
    <3>3. \A u \in Task \ {t} : ~Answering(u, k)'
      BY <1>1, <1>4, <3>2
    <3>4. k \notin logged /\ (replies[k] = 0 <=> At(t, "send"))
      BY <1>6, <1>8, <3>1
    <3>5. CASE Send(t)
      <4>1. replies'[k] = 1 /\ logged' = logged
        BY <1>1, <1>8, <3>4, <3>5 DEF Send, More, Many, TypeInv, OthersOK
      <4>2. Answering(t, k)' /\ ~At(t, "send")'
        BY <1>2, <1>8, <2>2, <3>5 DEF Answering, At, Customer
      <4>3. QED
        BY <1>8, <3>3, <3>4, <4>1, <4>2
    <3>6. CASE Log(t)
      <4>1. k \in logged' /\ replies' = replies
        BY <1>8, <3>6 DEF Log
      <4>2. ~Answering(t, k)'
        BY <1>2, <2>2, <3>6 DEF Answering, Log, Send, At
      <4>3. QED
        BY <1>6, <1>8, <3>3, <4>1, <4>2
    <3>7. CASE AnswerError(t)
      <4>1. At(t, "send") /\ replies' = replies /\ logged' = logged
        BY <1>5, <1>8, <3>7 DEF AnswerError
      <4>2. task'[t].pc = "idle"
        BY Moves, IdleTypes, <3>7 DEF AnswerError
      <4>3. ~Answering(t, k)'
        BY <4>2 DEF Answering
      <4>4. QED
        BY <1>8, <3>3, <3>4, <4>1, <4>3
    <3>8. QED
      BY <2>2, <3>5, <3>6, <3>7
  <2>3. QED
    BY <2>1, <2>2
<1>9. QED
  BY <1>7, <1>8

\* Every step keeps what is known of replies and of answers.
LEMMA OnceStep == TypeInv /\ ReplyInv /\ AnswerInv /\ [Next]_vars => ReplyInv' /\ AnswerInv'
<1> SUFFICES ASSUME TypeInv, ReplyInv, AnswerInv, [Next]_vars PROVE ReplyInv' /\ AnswerInv'
  OBVIOUS
<1>1. ASSUME NEW t \in Task, MessageStep(t) PROVE ReplyInv' /\ AnswerInv'
  BY <1>1, MessageSaves, UnsavingKeeps, UnansweringKeeps, AnswerRows
<1>2. ASSUME NEW t \in Task, AssignStep(t) PROVE ReplyInv' /\ AnswerInv'
  BY <1>2, AssignSaves, UnsavingKeeps, UnansweringKeeps
<1>3. ASSUME NEW t \in Task, ReplyStep(t) PROVE ReplyInv' /\ AnswerInv'
  BY <1>3, ReplySaves, UnsavingKeeps, UnansweringKeeps, ReplyRows
<1>4. CASE Crash
  <2>1. \A t \in Task : task'[t].pc = "idle"
    BY <1>4, IdleTypes DEF Crash
  <2>2. \A t \in Task : (\A r \in Reply : ~Saving(t, r)') /\ (\A k \in Contact : ~Answering(t, k)')
    BY <2>1 DEF Saving, Answering
  <2>3. UNCHANGED <<saved, rivalled, replies, logged>>
    BY <1>4 DEF Crash, messages, autoReplies
  <2>4. ReplyInv'
    BY <2>2, <2>3 DEF ReplyInv
  <2>5. ASSUME NEW k \in Contact, k \notin unsure'
        PROVE  k \notin unsure /\ \A t \in Task : Answering(t, k) => At(t, "send")
    BY <1>4, <2>5 DEF Crash, Answering, At
  <2>6. ASSUME NEW k \in Contact, k \notin unsure' PROVE replies[k] = 1 => k \in logged
    BY <2>5, <2>6 DEF AnswerInv
  <2>7. AnswerInv'
    BY <2>2, <2>3, <2>5, <2>6 DEF AnswerInv
  <2>8. QED
    BY <2>4, <2>7
<1>5. CASE UNCHANGED vars
  <2>1. UNCHANGED <<task, saved, rivalled, replies, logged, unsure>>
    BY <1>5 DEF vars, messages, autoReplies, history
  <2>2. QED
    BY <2>1 DEF ReplyInv, AnswerInv, Saving, Answering, At, Its
<1>6. QED
  BY <1>1, <1>2, <1>3, <1>4, <1>5 DEF Next

\* What is known of replies and of answers holds in every reachable state.
LEMMA OnceHolds == Spec => [](ReplyInv /\ AnswerInv)
<1>1. Init => ReplyInv /\ AnswerInv
  BY IdleTypes DEF Init, ReplyInv, AnswerInv, Saving, Answering
<1>2. QED
  BY <1>1, TypeInit, TypeStep, OnceStep, PTL DEF Spec

\* A reply of which no two deliveries were handled at once has one row at most, however
\* often it is delivered and whatever fails.
THEOREM RepliesStoredOnce == Spec => []ReplyStoredOnce
<1>1. ReplyInv => ReplyStoredOnce
  BY DEF ReplyInv, ReplyStoredOnce
<1>2. QED
  BY <1>1, OnceHolds, PTL

\* A contact is answered automatically once at most, over all its conversations and
\* messages, unless two messages looked at the log together or a log row was lost.
THEOREM ContactsAnsweredOnce == Spec => []AnsweredOnce
<1>1. AnswerInv => AnsweredOnce
  BY DEF AnswerInv, AnsweredOnce
<1>2. QED
  BY <1>1, OnceHolds, PTL

=============================================================================
