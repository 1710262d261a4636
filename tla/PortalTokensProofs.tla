------------------------- MODULE PortalTokensProofs -------------------------
(***************************************************************************)
(* Type correctness of PortalTokens for every set of portals, requests and  *)
(* client objects, whatever the faults; and, when requests are handled one  *)
(* at a time, that no call leaves its portal and no token leaves its row,   *)
(* and that no portal that works is disabled or loses its tokens.           *)
(***************************************************************************)
EXTENDS PortalTokens, TLAPS

\* What the requests of each kind call.
LEMMA CallsTypes ==
    ASSUME NEW k \in Kind
    PROVE  /\ Len(Calls[k]) \in 0..4
           /\ \A n \in 1..Len(Calls[k]) :
                 Calls[k][n].svc \in Service /\ Calls[k][n].to \in {"own", "pinned"}
<1>1. CASE k \in {"event", "open"}
  <2>1. Calls[k] = <<Call("install", "own"), Call("install", "own"),
                     Call("provision", "pinned"), Call("provision", "own")>>
    BY <1>1 DEF Calls, Kind
  <2>2. QED
    BY <2>1 DEF Call, Service
<1>2. CASE k = "placement"
  <2>1. Calls[k] = <<Call("placement", "pinned"), Call("placement", "pinned"),
                     Call("placement", "pinned"), Call("placement", "own")>>
    BY <1>2 DEF Calls, Kind
  <2>2. QED
    BY <2>1 DEF Call, Service
<1>3. CASE k = "reply"
  <2>1. Calls[k] = <<Call("operator", "pinned"), Call("operator", "pinned")>>
    BY <1>3 DEF Calls, Kind
  <2>2. QED
    BY <2>1 DEF Call, Service
<1>4. CASE k = "uninstall"
  <2>1. Calls[k] = <<>>
    BY <1>4 DEF Calls, Kind
  <2>2. QED
    BY <2>1
<1>5. QED
  BY <1>1, <1>2, <1>3, <1>4 DEF Kind

RefreshPc == {"read", "grant", "save", "disable"}
RestPc    == {"resolve", "ensure", "post", "store"} \cup RefreshPc

\* A request that is under way has a portal, one that calls is at one of its calls, and
\* what it resolved and the object it calls with are there when they are used.
TaskOK(T) ==
    /\ T.pc # "idle" => T.portal \in Portal
    /\ T.pc \in RestPc => T.call \in 1..Len(Calls[T.kind])
    /\ T.pc \in RefreshPc \cup {"ensure"} => T.target \in Portal
    /\ T.pc \in {"post", "store"} \/ (T.pc \in RefreshPc /\ T.back = "retry") =>
          T.obj \in Client

\* An object that somebody refers to has a portal.
HeapOK ==
    /\ \A s \in Service : cached[s] # NoId => heap[cached[s]].portal \in Portal
    /\ \A t \in Task : task[t].obj # NoId => heap[task[t].obj].portal \in Portal

TypeInv ==
    /\ TypeOK
    /\ \A t \in Task : TaskOK(task[t])
    /\ HeapOK

\* A request takes a new state.
LEMMA TaskTypes ==
    ASSUME TypeInv, NEW t \in Task, NEW T \in TaskState, TaskOK(T),
           task' = [task EXCEPT ![t] = T]
    PROVE  task' \in [Task -> TaskState] /\ \A u \in Task : TaskOK(task'[u])
BY DEF TypeInv, TypeOK

LEMMA StartTypes ==
    ASSUME TypeInv, NEW t \in Task, ~At(t, "idle"), NEW n \in 1..5, Start(t, n)
    PROVE  /\ task' \in [Task -> TaskState]
           /\ \A u \in Task : TaskOK(task'[u])
           /\ task'[t].obj = NoId
           /\ \A u \in Task \ {t} : task'[u] = task[u]
<1> DEFINE T == task[t]
           calls == Calls[T.kind]
           R(pc, p) == Request(pc, T.kind, T.portal, NoId, n, p)
<1>1. T \in TaskState /\ T.kind \in Kind /\ T.portal \in Portal
  BY DEF TypeInv, TypeOK, TaskState, TaskOK, At
<1>2. Len(calls) \in Nat /\ Len(calls) <= 4 /\ n \in Nat /\ 1 <= n
  BY <1>1, CallsTypes
<1>3. IdleTask \in TaskState /\ TaskOK(IdleTask) /\ IdleTask.obj = NoId
  BY DEF IdleTask, Request, TaskState, TaskPc, TokenId, Kind, TaskOK, RestPc, RefreshPc
<1>4. ASSUME n <= Len(calls), NEW pc \in {"ensure", "resolve"},
             NEW p \in Portal \cup {NoId}, pc = "ensure" => p \in Portal
      PROVE  R(pc, p) \in TaskState /\ TaskOK(R(pc, p)) /\ R(pc, p).obj = NoId
  <2>1. R(pc, p) \in TaskState /\ R(pc, p).obj = NoId
    <3>1. n \in 0..4
      BY <1>2, <1>4
    <3>2. pc \in TaskPc /\ NoId \in TokenId
      BY <1>4 DEF TaskPc, TokenId
    <3>3. QED
      BY <3>1, <3>2, <1>1, <1>4 DEF Request, TaskState
  <2>2. n \in 1..Len(calls)
    BY <1>2, <1>4
  <2>3. /\ R(pc, p).kind = T.kind /\ R(pc, p).call = n /\ R(pc, p).pc = pc
        /\ R(pc, p).portal = T.portal /\ R(pc, p).target = p
    BY DEF Request
  <2>4. TaskOK(R(pc, p))
    BY <2>2, <2>3, <1>1, <1>4 DEF TaskOK, RestPc, RefreshPc
  <2>5. QED
    BY <2>1, <2>4
<1>5. AtCall(T, n) \in TaskState /\ TaskOK(AtCall(T, n)) /\ AtCall(T, n).obj = NoId
  <2>1. CASE n > Len(calls)
    BY <2>1, <1>3 DEF AtCall
  <2>2. CASE n <= Len(calls) /\ calls[n].to = "own"
    <3>1. AtCall(T, n) = R("ensure", T.portal)
      BY <2>2, <1>2 DEF AtCall
    <3>2. R("ensure", T.portal) \in TaskState /\ TaskOK(R("ensure", T.portal))
          /\ R("ensure", T.portal).obj = NoId
      BY <2>2, <1>1, <1>4
    <3>3. QED
      BY <3>1, <3>2
  <2>3. CASE n <= Len(calls) /\ calls[n].to # "own"
    <3>1. AtCall(T, n) = R("resolve", NoId)
      BY <2>3, <1>2 DEF AtCall
    <3>2. R("resolve", NoId) \in TaskState /\ TaskOK(R("resolve", NoId))
          /\ R("resolve", NoId).obj = NoId
      BY <2>3, <1>1, <1>4
    <3>3. QED
      BY <3>1, <3>2
  <2>4. QED
    BY <2>1, <2>2, <2>3, <1>2
<1>6. task' = [task EXCEPT ![t] = AtCall(T, n)]
  BY DEF Start
<1>7. QED
  BY <1>5, <1>6, TaskTypes DEF TypeInv, TypeOK

\* A request goes to another place that it has what it needs for.
LEMMA GotoTypes ==
    ASSUME TypeInv, NEW t \in Task, ~At(t, "idle"), NEW pc \in TaskPc, Goto(t, pc),
           pc \in RestPc => task[t].pc \in RestPc,
           pc \in RefreshPc \cup {"ensure"} => task[t].target \in Portal,
           pc \in {"post", "store"} \/ (pc \in RefreshPc /\ task[t].back = "retry") =>
              task[t].obj \in Client
    PROVE  /\ task' \in [Task -> TaskState]
           /\ \A u \in Task : TaskOK(task'[u])
           /\ \A u \in Task : task'[u].obj = task[u].obj
<1> DEFINE T == [task[t] EXCEPT !.pc = pc]
<1>1. task[t] \in TaskState /\ TaskOK(task[t]) /\ task[t].pc # "idle"
  BY DEF TypeInv, TypeOK, At
<1>2. T \in TaskState
  BY <1>1 DEF TaskState
<1>3. /\ T.pc = pc /\ T.portal = task[t].portal /\ T.call = task[t].call
      /\ T.kind = task[t].kind /\ T.target = task[t].target /\ T.obj = task[t].obj
      /\ T.back = task[t].back
  BY <1>1 DEF TaskState
<1>4. TaskOK(T)
  <2> HIDE DEF T
  <2> QED
    BY <1>1, <1>3 DEF TaskOK
<1>5. task' = [task EXCEPT ![t] = T]
  BY <1>1 DEF Goto, TypeInv, TypeOK, TaskState
<1>6. \A u \in Task : task'[u].obj = task[u].obj
  BY <1>3, <1>5 DEF TypeInv, TypeOK
<1>7. QED
  BY <1>2, <1>4, <1>5, <1>6, TaskTypes

\* The services stay, and so do the objects of the requests.
LEMMA HeapKept ==
    ASSUME TypeInv, UNCHANGED services,
           \A u \in Task : task'[u].obj \in {NoId, task[u].obj}
    PROVE  HeapOK'
BY DEF TypeInv, HeapOK, services

\* A token that Bitrix24 issues for a portal is a token.
LEMMA IssueTypes ==
    ASSUME TypeInv, NEW p \in Portal
    PROVE  /\ CanIssue(p) => Fresh(p) \in Token
           /\ IssueAccess(p) => issued' \in [Portal -> 0..MaxIssued] /\ live' \subseteq Token
           /\ IssuePair(p) => grants' \subseteq Token
<1>1. CanIssue(p) => issued[p] + 1 \in 1..MaxIssued
  BY IssuedAssumption DEF TypeInv, TypeOK, CanIssue
<1>2. CanIssue(p) => Fresh(p) \in Token
  BY <1>1 DEF Fresh, Token
<1>3. IssueAccess(p) => issued' \in [Portal -> 0..MaxIssued]
  BY <1>1, IssuedAssumption DEF TypeInv, TypeOK, IssueAccess
<1>4. IssueAccess(p) => live' \subseteq Token
  BY <1>2 DEF TypeInv, TypeOK, IssueAccess
<1>5. IssuePair(p) => grants' \subseteq Token
  BY <1>2 DEF TypeInv, TypeOK, IssuePair, IssueAccess, Of
<1>6. QED
  BY <1>2, <1>3, <1>4, <1>5

\* A write of a row keeps the types.
LEMMA WriteRowTypes ==
    ASSUME TypeInv, NEW p \in Portal, NEW r \in Row, WriteRow(p, r)
    PROVE  row' \in [Portal -> Row] /\ newer' \subseteq Portal \X Portal
<1>1. row' \in [Portal -> Row]
  BY DEF TypeInv, TypeOK, WriteRow
<1>2. newer' \subseteq Portal \X Portal
  BY DEF TypeInv, TypeOK, WriteRow, Touch
<1>3. QED
  BY <1>1, <1>2

\* A service is pinned to a portal, or to none.
LEMMA PinTypes ==
    ASSUME TypeInv, NEW s \in Service, NEW p \in Portal \cup {NoId}, Pin(s, p),
           \A u \in Task : task'[u].obj \in {NoId, task[u].obj}
    PROVE  /\ pinned' \in [Service -> Portal \cup {NoId}]
           /\ cached' \in [Service -> Client \cup {NoId}]
           /\ heap' \in [Client -> Object]
           /\ HeapOK'
BY DEF TypeInv, TypeOK, Pin, HeapOK

\* A request begins.
LEMMA BeginTypes ==
    ASSUME TypeInv, NEW t \in Task, Begin(t)
    PROVE  TypeInv'
<1> USE DEF table, services
<1>1. PICK p \in Portal : (\E k \in Kind : BeginInstall(t, k, p)) \/ BeginReply(t, p)
                            \/ BeginUninstall(t, p)
  BY DEF Begin
<1>2. ASSUME NEW k \in Kind, NEW x \in TokenId, Arrive(t, k, p, x)
      PROVE  /\ task' \in [Task -> TaskState]
             /\ \A u \in Task : TaskOK(task'[u])
             /\ \A u \in Task : task'[u].obj \in {NoId, task[u].obj}
  <2> DEFINE pc == IF k \in {"reply", "uninstall"} THEN "verify" ELSE "upsert"
             T == Request(pc, k, p, x, 0, NoId)
  <2>1. pc \in TaskPc /\ pc \notin RestPc /\ NoId \in TokenId
    BY DEF TaskPc, RestPc, RefreshPc, TokenId
  <2>2. T \in TaskState /\ T.obj = NoId /\ T.pc = pc /\ T.portal = p
    <3> HIDE DEF pc
    <3> QED
      BY <2>1 DEF Request, TaskState
  <2>3. TaskOK(T)
    <3> HIDE DEF pc, T
    <3> QED
      BY <2>1, <2>2 DEF TaskOK, RestPc, RefreshPc
  <2>4. task' = [task EXCEPT ![t] = T]
    BY <1>2 DEF Arrive
  <2>5. QED
    <3> HIDE DEF T
    <3> QED
      BY <2>2, <2>3, <2>4, TaskTypes DEF TypeInv, TypeOK
<1>3. CASE \E k \in Kind : BeginInstall(t, k, p)
  <2>1. PICK k \in Kind : BeginInstall(t, k, p)
    BY <1>3
  <2>2. Fresh(p) \in TokenId
    BY <2>1, IssueTypes DEF BeginInstall, IssuePair, IssueAccess, TokenId
  <2>3. /\ issued' \in [Portal -> 0..MaxIssued] /\ live' \subseteq Token
        /\ grants' \subseteq Token /\ present' \subseteq Portal
    BY <2>1, IssueTypes DEF BeginInstall, IssuePair, TypeInv, TypeOK
  <2>4. HeapOK'
    BY <2>1, <2>2, <1>2, HeapKept DEF BeginInstall
  <2>5. QED
    BY <2>1, <2>2, <2>3, <2>4, <1>2 DEF BeginInstall, TypeInv, TypeOK
<1>4. CASE BeginReply(t, p)
  <2>1. Fresh(p) \in TokenId /\ "reply" \in Kind
    BY <1>4, IssueTypes DEF BeginReply, IssueAccess, TokenId, Kind
  <2>2. issued' \in [Portal -> 0..MaxIssued] /\ live' \subseteq Token
    BY <1>4, IssueTypes DEF BeginReply
  <2>3. HeapOK'
    BY <1>4, <2>1, <1>2, HeapKept DEF BeginReply
  <2>4. QED
    BY <1>4, <2>1, <2>2, <2>3, <1>2 DEF BeginReply, TypeInv, TypeOK
<1>5. CASE BeginUninstall(t, p)
  <2>1. NoId \in TokenId /\ "uninstall" \in Kind
    BY DEF TokenId, Kind
  <2>2. HeapOK'
    BY <1>5, <2>1, <1>2, HeapKept DEF BeginUninstall
  <2>3. QED
    BY <1>5, <2>1, <2>2, <1>2 DEF BeginUninstall, TypeInv, TypeOK, Of
<1>6. QED
  BY <1>1, <1>3, <1>4, <1>5

\* Every step before the calls keeps the types.
LEMMA PrepareTypes ==
    ASSUME TypeInv, NEW t \in Task, Prepare(t)
    PROVE  TypeInv'
<1> USE DEF table, bitrix24
<1> DEFINE T == task[t]
<1>t. T \in TaskState /\ TaskOK(T)
  BY DEF TypeInv, TypeOK
<1>p. ~At(t, "idle") => T.portal \in Portal /\ row[T.portal] \in Row
  BY <1>t DEF At, TaskOK, TypeInv, TypeOK
<1>s. T.tok \in TokenId /\ NoId \in TokenId
  BY <1>t DEF TaskState, TokenId
<1>i. ~At(t, "idle") /\ task' = [task EXCEPT ![t] = IdleTask] =>
        /\ task' \in [Task -> TaskState] /\ \A u \in Task : TaskOK(task'[u])
        /\ \A u \in Task : task'[u].obj \in {NoId, task[u].obj}
  <2>1. IdleTask \in TaskState /\ TaskOK(IdleTask) /\ IdleTask.obj = NoId
    BY DEF IdleTask, Request, TaskState, TaskPc, TokenId, Kind, TaskOK, RestPc, RefreshPc
  <2>2. QED
    BY <2>1, TaskTypes DEF TypeInv, TypeOK
<1>g. \A pc \in TaskPc \ (RestPc \cup RefreshPc) : ~At(t, "idle") /\ Goto(t, pc) =>
        /\ task' \in [Task -> TaskState] /\ \A u \in Task : TaskOK(task'[u])
        /\ \A u \in Task : task'[u].obj \in {NoId, task[u].obj}
  BY GotoTypes DEF RestPc, RefreshPc
<1>n. \A n \in {1, 2} : ~At(t, "idle") /\ Start(t, n) =>
        /\ task' \in [Task -> TaskState] /\ \A u \in Task : TaskOK(task'[u])
        /\ \A u \in Task : task'[u].obj \in {NoId, task[u].obj}
  <2>1. \A n \in {1, 2} : n \in 1..5
    OBVIOUS
  <2>2. QED
    BY <2>1, StartTypes
<1>k. {"activate", "refused", "remove", "rotate", "unpin"} \subseteq
         TaskPc \ (RestPc \cup RefreshPc)
  BY DEF TaskPc, RestPc, RefreshPc
<1>1. CASE Upsert(t)
  <2> DEFINE r == [status |-> "INSTALLED", access |-> T.tok, refresh |-> T.tok,
                   app |-> T.kind = "event"]
  <2>1. ~At(t, "idle")
    BY <1>1 DEF Upsert, At
  <2>2. r \in Row /\ WriteRow(T.portal, r)
    BY <1>1, <1>s DEF Upsert, Row, Status
  <2>3. row' \in [Portal -> Row] /\ newer' \subseteq Portal \X Portal
    BY <2>1, <2>2, <1>p, WriteRowTypes
  <2>4. /\ task' \in [Task -> TaskState] /\ \A u \in Task : TaskOK(task'[u])
        /\ \A u \in Task : task'[u].obj \in {NoId, task[u].obj}
    BY <1>1, <2>1, <1>g, <1>n, <1>k DEF Upsert
  <2>5. HeapOK'
    BY <1>1, <2>4, HeapKept DEF Upsert
  <2>6. QED
    BY <1>1, <2>3, <2>4, <2>5, <1>p DEF Upsert, TypeInv, TypeOK, services
<1>2. CASE Verify(t)
  <2>1. ~At(t, "idle")
    BY <1>2 DEF Verify, At
  <2>2. /\ task' \in [Task -> TaskState] /\ \A u \in Task : TaskOK(task'[u])
        /\ \A u \in Task : task'[u].obj \in {NoId, task[u].obj}
    BY <1>2, <2>1, <1>g, <1>i, <1>k DEF Verify
  <2>3. HeapOK'
    BY <1>2, <2>2, HeapKept DEF Verify
  <2>4. QED
    BY <1>2, <2>2, <2>3 DEF Verify, TypeInv, TypeOK, services
<1>3. CASE Leave(t)
  <2>1. ~At(t, "idle")
    BY <1>3 DEF Leave, At
  <2>2. /\ task' \in [Task -> TaskState] /\ \A u \in Task : TaskOK(task'[u])
        /\ \A u \in Task : task'[u].obj \in {NoId, task[u].obj}
    BY <1>3, <2>1, <1>i DEF Leave
  <2>3. HeapOK'
    BY <1>3, <2>2, HeapKept DEF Leave
  <2>4. QED
    BY <1>3, <2>2, <2>3 DEF Leave, TypeInv, TypeOK, services
<1>4. CASE Activate(t)
  <2>1. ~At(t, "idle")
    BY <1>4 DEF Activate, At
  <2>2. /\ task' \in [Task -> TaskState] /\ \A u \in Task : TaskOK(task'[u])
        /\ \A u \in Task : task'[u].obj \in {NoId, task[u].obj}
    BY <1>4, <2>1, <1>g, <1>n, <1>k DEF Activate
  <2>3. \E s \in Service : Pin(s, T.portal)
    BY <1>4 DEF Activate, Service
  <2>4. /\ pinned' \in [Service -> Portal \cup {NoId}]
        /\ cached' \in [Service -> Client \cup {NoId}]
        /\ heap' \in [Client -> Object] /\ HeapOK'
    BY <2>1, <2>2, <2>3, <1>p, PinTypes
  <2>5. QED
    BY <1>4, <2>2, <2>4 DEF Activate, TypeInv, TypeOK
<1>5. CASE Rotate(t)
  <2> DEFINE r == [row[T.portal] EXCEPT !.access = T.tok]
  <2>1. ~At(t, "idle")
    BY <1>5 DEF Rotate, At
  <2>2. r \in Row /\ WriteRow(T.portal, r)
    BY <1>5, <2>1, <1>s, <1>p DEF Rotate, Row
  <2>3. row' \in [Portal -> Row] /\ newer' \subseteq Portal \X Portal
    BY <2>1, <2>2, <1>p, WriteRowTypes
  <2>4. /\ task' \in [Task -> TaskState] /\ \A u \in Task : TaskOK(task'[u])
        /\ \A u \in Task : task'[u].obj \in {NoId, task[u].obj}
    BY <1>5, <2>1, <1>n DEF Rotate
  <2>5. HeapOK'
    BY <1>5, <2>4, HeapKept DEF Rotate
  <2>6. QED
    BY <1>5, <2>3, <2>4, <2>5 DEF Rotate, TypeInv, TypeOK, services
<1>6. CASE Remove(t)
  <2> DEFINE r == [row[T.portal] EXCEPT !.status = "UNINSTALLED"]
  <2>1. ~At(t, "idle")
    BY <1>6 DEF Remove, At
  <2>2. r \in Row /\ WriteRow(T.portal, r)
    BY <1>6, <2>1, <1>p DEF Remove, Row, Status
  <2>3. row' \in [Portal -> Row] /\ newer' \subseteq Portal \X Portal
    BY <2>1, <2>2, <1>p, WriteRowTypes
  <2>4. /\ task' \in [Task -> TaskState] /\ \A u \in Task : TaskOK(task'[u])
        /\ \A u \in Task : task'[u].obj \in {NoId, task[u].obj}
    BY <1>6, <2>1, <1>g, <1>k DEF Remove
  <2>5. HeapOK'
    BY <1>6, <2>4, HeapKept DEF Remove
  <2>6. QED
    BY <1>6, <2>3, <2>4, <2>5 DEF Remove, TypeInv, TypeOK, services
<1>7. CASE Unpin(t)
  <2>1. ~At(t, "idle")
    BY <1>7 DEF Unpin, At
  <2>2. /\ task' \in [Task -> TaskState] /\ \A u \in Task : TaskOK(task'[u])
        /\ \A u \in Task : task'[u].obj \in {NoId, task[u].obj}
    BY <1>7, <2>1, <1>i DEF Unpin
  <2>3. /\ pinned' \in [Service -> Portal \cup {NoId}]
        /\ cached' \in [Service -> Client \cup {NoId}]
        /\ heap' \in [Client -> Object] /\ HeapOK'
    <3>1. CASE Pin("install", NoId)
      BY <3>1, <2>2, PinTypes DEF Service
    <3>2. CASE UNCHANGED services
      BY <3>2, <2>2, HeapKept DEF services, TypeInv, TypeOK
    <3>3. QED
      BY <1>7, <3>1, <3>2 DEF Unpin
  <2>4. QED
    BY <1>7, <2>2, <2>3 DEF Unpin, TypeInv, TypeOK
<1>8. QED
  BY <1>1, <1>2, <1>3, <1>4, <1>5, <1>6, <1>7 DEF Prepare

\* What a request has while it calls.
LEMMA CallTypes ==
    ASSUME TypeInv, NEW t \in Task, task[t].pc \in RestPc
    PROVE  /\ ~At(t, "idle") /\ Svc(t) \in Service
           /\ task[t].portal \in Portal
           /\ task[t].call \in 1..4 /\ task[t].call + 1 \in 1..5
           /\ task[t].tok \in TokenId /\ task[t].got \in TokenId
<1>1. task[t] \in TaskState /\ TaskOK(task[t]) /\ task[t].pc # "idle"
  BY DEF TypeInv, TypeOK, RestPc, RefreshPc
<1>2. task[t].kind \in Kind /\ task[t].call \in 1..Len(Calls[task[t].kind])
  BY <1>1 DEF TaskState, TaskOK
<1>3. Len(Calls[task[t].kind]) \in Nat /\ Len(Calls[task[t].kind]) <= 4
  BY <1>2, CallsTypes
<1>4. task[t].call \in 1..4 /\ task[t].call + 1 \in 1..5
  BY <1>2, <1>3
<1>5. Svc(t) \in Service
  BY <1>2, CallsTypes DEF Svc, This
<1>6. QED
  BY <1>1, <1>4, <1>5 DEF At, TaskState, TaskOK

LEMMA FailedTypes ==
    ASSUME TypeInv, NEW t \in Task, task[t].pc \in RestPc, Failed(t)
    PROVE  /\ task' \in [Task -> TaskState]
           /\ \A u \in Task : TaskOK(task'[u])
           /\ task'[t].obj = NoId
           /\ \A u \in Task \ {t} : task'[u] = task[u]
<1>1. ~At(t, "idle") /\ task[t].call + 1 \in 1..5 /\ 5 \in 1..5
  BY CallTypes
<1>2. \E n \in 1..5 : Start(t, n)
  BY <1>1 DEF Failed
<1>3. QED
  BY <1>1, <1>2, StartTypes

\* A request posts with an object.
LEMMA SendTypes ==
    ASSUME TypeInv, NEW t \in Task, task[t].pc \in RestPc, NEW c \in Client, Send(t, c)
    PROVE  /\ task' \in [Task -> TaskState]
           /\ \A u \in Task : TaskOK(task'[u])
           /\ task'[t].obj = c
           /\ \A u \in Task \ {t} : task'[u] = task[u]
<1>1. task[t] \in TaskState /\ TaskOK(task[t]) /\ NoId \in TokenId
  BY DEF TypeInv, TypeOK, TokenId
<1>2. task' \in [Task -> TaskState]
  BY <1>1 DEF TypeInv, TypeOK, Send, TaskState, TaskPc
<1>3. /\ task'[t].pc = "post" /\ task'[t].obj = c /\ task'[t].kind = task[t].kind
      /\ task'[t].call = task[t].call /\ task'[t].portal = task[t].portal
      /\ \A u \in Task \ {t} : task'[u] = task[u]
  BY <1>1 DEF TypeInv, TypeOK, Send, TaskState
<1>4. TaskOK(task'[t])
  BY <1>1, <1>3 DEF TaskOK, RestPc, RefreshPc
<1>5. QED
  BY <1>2, <1>3, <1>4 DEF TypeInv

\* A new client takes a place that nobody refers to.
LEMMA BuildTypes ==
    ASSUME TypeInv, NEW t \in Task, task[t].pc \in RestPc, NEW c \in Client,
           NEW p \in Portal, NEW x \in TokenId, Build(t, c, p, x)
    PROVE  /\ task' \in [Task -> TaskState]
           /\ \A u \in Task : TaskOK(task'[u])
           /\ pinned' \in [Service -> Portal \cup {NoId}]
           /\ cached' \in [Service -> Client \cup {NoId}]
           /\ heap' \in [Client -> Object]
           /\ HeapOK'
<1>1. Svc(t) \in Service
  BY CallTypes
<1>2. /\ task' \in [Task -> TaskState] /\ \A u \in Task : TaskOK(task'[u])
      /\ task'[t].obj = c /\ \A u \in Task \ {t} : task'[u] = task[u]
  BY SendTypes DEF Build
<1>3. /\ pinned' \in [Service -> Portal \cup {NoId}]
      /\ cached' \in [Service -> Client \cup {NoId}]
  BY <1>1 DEF Build, TypeInv, TypeOK
<1>4. \A o \in Client : heap'[o] \in Object
  <2>1. [svc |-> Svc(t), portal |-> p, access |-> x] \in Object
    BY <1>1 DEF Object
  <2>2. NoObject \in Object
    BY DEF NoObject, Object, Service, TokenId
  <2>3. QED
    BY <2>1, <2>2 DEF Build, TypeInv, TypeOK
<1>5. heap' \in [Client -> Object]
  BY <1>4 DEF Build
<1>6. heap'[c].portal = p /\ \A o \in (Referred \cap Client) : heap'[o] = heap[o]
  BY DEF Build
<1>7. HeapOK'
  <2>1. \A s \in Service : cached'[s] # NoId => heap'[cached'[s]].portal \in Portal
    BY <1>1, <1>6 DEF Build, TypeInv, TypeOK, HeapOK, Referred
  <2>2. \A u \in Task : task'[u].obj # NoId => heap'[task'[u].obj].portal \in Portal
    BY <1>2, <1>6 DEF TypeInv, TypeOK, TaskState, HeapOK, Referred
  <2>3. QED
    BY <2>1, <2>2 DEF HeapOK
<1>8. QED
  BY <1>2, <1>3, <1>5, <1>7

\* Every step of a REST call keeps the types.
LEMMA RestTypes ==
    ASSUME TypeInv, NEW t \in Task, Rest(t)
    PROVE  TypeInv'
<1> USE DEF table, bitrix24
<1> DEFINE T == task[t]
<1>t. T \in TaskState /\ TaskOK(T) /\ NoId \in TokenId
  BY DEF TypeInv, TypeOK, TokenId
<1>r. T.pc \in RestPc =>
        /\ ~At(t, "idle") /\ Svc(t) \in Service /\ T.portal \in Portal
        /\ T.call + 1 \in 1..5
  BY CallTypes
<1>f. T.pc \in RestPc /\ Failed(t) =>
        /\ task' \in [Task -> TaskState] /\ \A u \in Task : TaskOK(task'[u])
        /\ \A u \in Task : task'[u].obj \in {NoId, task[u].obj}
  BY FailedTypes
<1>n. \A n \in 1..5 : T.pc \in RestPc /\ Start(t, n) =>
        /\ task' \in [Task -> TaskState] /\ \A u \in Task : TaskOK(task'[u])
        /\ \A u \in Task : task'[u].obj \in {NoId, task[u].obj}
  BY <1>r, StartTypes
<1>1. CASE Resolve(t)
  <2>1. T.pc \in RestPc
    BY <1>1 DEF Resolve, At, RestPc
  <2>2. /\ task' \in [Task -> TaskState] /\ \A u \in Task : TaskOK(task'[u])
        /\ \A u \in Task : task'[u].obj \in {NoId, task[u].obj}
    <3>1. CASE Failed(t)
      BY <2>1, <3>1, <1>f
    <3>2. ASSUME NEW p \in Portal,
                 task' = [task EXCEPT ![t].target = p, ![t].pc = "ensure"]
          PROVE  /\ task' \in [Task -> TaskState] /\ \A u \in Task : TaskOK(task'[u])
                 /\ \A u \in Task : task'[u].obj = task[u].obj
      <4>1. /\ task' \in [Task -> TaskState]
            /\ \A u \in Task : task'[u].obj = task[u].obj
            /\ \A u \in Task \ {t} : task'[u] = task[u]
        BY <3>2, <1>t DEF TypeInv, TypeOK, TaskState, TaskPc
      <4>2. /\ task'[t].pc = "ensure" /\ task'[t].target = p /\ task'[t].kind = T.kind
            /\ task'[t].call = T.call /\ task'[t].portal = T.portal
        BY <3>2, <1>t DEF TypeInv, TypeOK, TaskState
      <4>3. TaskOK(task'[t])
        BY <4>2, <2>1, <1>t DEF TaskOK, RestPc, RefreshPc
      <4>4. QED
        BY <4>1, <4>3 DEF TypeInv
    <3>3. Failed(t) \/ \E p \in Portal :
                          task' = [task EXCEPT ![t].target = p, ![t].pc = "ensure"]
      BY <1>1, <2>1, <1>r DEF Resolve, MostRecent, Installed, TypeInv, TypeOK
    <3>4. QED
      BY <3>1, <3>2, <3>3
  <2>3. HeapOK'
    BY <1>1, <2>2, HeapKept DEF Resolve
  <2>4. QED
    BY <1>1, <2>2, <2>3 DEF Resolve, TypeInv, TypeOK, services
<1>2. CASE Reuse(t)
  <2>1. T.pc \in RestPc
    BY <1>2 DEF Reuse, At, RestPc
  <2>2. cached[Svc(t)] \in Client /\ Svc(t) \in Service
    BY <1>2, <2>1, <1>r DEF Reuse, TypeInv, TypeOK
  <2>3. /\ task' \in [Task -> TaskState] /\ \A u \in Task : TaskOK(task'[u])
        /\ task'[t].obj = cached[Svc(t)] /\ \A u \in Task \ {t} : task'[u] = task[u]
    BY <1>2, <2>1, <2>2, SendTypes DEF Reuse
  <2>4. HeapOK'
    BY <1>2, <2>2, <2>3 DEF Reuse, TypeInv, HeapOK, services
  <2>5. QED
    BY <1>2, <2>3, <2>4 DEF Reuse, TypeInv, TypeOK, services
<1>3. CASE NotInstalled(t)
  <2>1. T.pc \in RestPc
    BY <1>3 DEF NotInstalled, At, RestPc
  <2>2. /\ task' \in [Task -> TaskState] /\ \A u \in Task : TaskOK(task'[u])
        /\ \A u \in Task : task'[u].obj \in {NoId, task[u].obj}
    BY <1>3, <2>1, <1>f DEF NotInstalled
  <2>3. cached' \in [Service -> Client \cup {NoId}] /\ HeapOK'
    BY <1>3, <2>2, <2>1, <1>r DEF NotInstalled, TypeInv, TypeOK, HeapOK
  <2>4. QED
    BY <1>3, <2>2, <2>3 DEF NotInstalled, TypeInv, TypeOK
<1>4. CASE Expiring(t)
  <2>1. T.pc \in RestPc
    BY <1>4 DEF Expiring, At, RestPc
  <2>2. /\ task' \in [Task -> TaskState]
        /\ \A u \in Task : task'[u].obj = task[u].obj
        /\ \A u \in Task \ {t} : task'[u] = task[u]
    BY <1>4, <1>t DEF Expiring, TypeInv, TypeOK, TaskState, TaskPc
  <2>3. /\ task'[t].pc = "read" /\ task'[t].back = "build" /\ task'[t].target = T.target
        /\ task'[t].call = T.call /\ task'[t].portal = T.portal /\ task'[t].kind = T.kind
    BY <1>4, <1>t DEF Expiring, TypeInv, TypeOK, TaskState
  <2>4. TaskOK(task'[t])
    BY <1>4, <2>3, <2>1, <1>t DEF Expiring, At, TaskOK, RestPc, RefreshPc
  <2>5. HeapOK'
    BY <1>4, <2>2, HeapKept DEF Expiring
  <2>6. QED
    BY <1>4, <2>2, <2>4, <2>5 DEF Expiring, TypeInv, TypeOK, services
<1>5. ASSUME NEW c \in Client, Load(t, c)
      PROVE  TypeInv'
  <2>1. T.pc \in RestPc /\ T.target \in Portal
    BY <1>5, <1>t DEF Load, At, RestPc, TaskOK
  <2>2. row[T.target].access \in TokenId
    BY <2>1 DEF TypeInv, TypeOK, Row
  <2>3. /\ task' \in [Task -> TaskState] /\ \A u \in Task : TaskOK(task'[u])
        /\ pinned' \in [Service -> Portal \cup {NoId}]
        /\ cached' \in [Service -> Client \cup {NoId}]
        /\ heap' \in [Client -> Object] /\ HeapOK'
    BY <1>5, <2>1, <2>2, BuildTypes DEF Load
  <2>4. QED
    BY <1>5, <2>3 DEF Load, TypeInv, TypeOK
<1>6. ASSUME NEW c \in Client, SaveAndBuild(t, c)
      PROVE  TypeInv'
  <2> DEFINE r == [row[T.target] EXCEPT !.access = T.got, !.refresh = T.tok]
  <2>1. T.pc \in RestPc /\ T.target \in Portal
    BY <1>6, <1>t DEF SaveAndBuild, At, RestPc, RefreshPc, TaskOK
  <2>2. T.got \in TokenId /\ T.tok \in TokenId
    BY <2>1, CallTypes
  <2>3. r \in Row /\ WriteRow(T.target, r)
    BY <1>6, <2>1, <2>2 DEF SaveAndBuild, SaveRow, TypeInv, TypeOK, Row
  <2>4. row' \in [Portal -> Row] /\ newer' \subseteq Portal \X Portal
    BY <2>1, <2>3, WriteRowTypes
  <2>5. /\ task' \in [Task -> TaskState] /\ \A u \in Task : TaskOK(task'[u])
        /\ pinned' \in [Service -> Portal \cup {NoId}]
        /\ cached' \in [Service -> Client \cup {NoId}]
        /\ heap' \in [Client -> Object] /\ HeapOK'
    BY <1>6, <2>1, <2>2, BuildTypes DEF SaveAndBuild
  <2>6. QED
    BY <1>6, <2>4, <2>5 DEF SaveAndBuild, TypeInv, TypeOK
<1>7. CASE PostOk(t)
  <2>1. T.pc \in RestPc /\ T.obj \in Client
    BY <1>7, <1>t DEF PostOk, At, RestPc, TaskOK
  <2>2. /\ task' \in [Task -> TaskState] /\ \A u \in Task : TaskOK(task'[u])
        /\ \A u \in Task : task'[u].obj \in {NoId, task[u].obj}
    <3>1. CASE Goto(t, "store")
      <4>1. "store" \in TaskPc /\ "store" \notin RefreshPc \cup {"ensure"}
        BY DEF TaskPc, RefreshPc
      <4>2. QED
        BY <3>1, <4>1, <2>1, <1>r, GotoTypes
    <3>2. CASE Start(t, T.call + 1)
      BY <3>2, <2>1, <1>r, <1>n
    <3>3. QED
      BY <1>7, <3>1, <3>2 DEF PostOk
  <2>3. HeapOK'
    BY <1>7, <2>2, HeapKept DEF PostOk
  <2>4. QED
    BY <1>7, <2>2, <2>3 DEF PostOk, TypeInv, TypeOK, services
<1>8. CASE PostRejected(t)
  <2>1. T.pc \in RestPc /\ T.obj \in Client
    BY <1>8, <1>t DEF PostRejected, At, RestPc, TaskOK
  <2>2. heap[T.obj].portal \in Portal
    BY <2>1, NullAssumption DEF TypeInv, HeapOK
  <2>3. CASE Failed(t)
    <3>1. /\ task' \in [Task -> TaskState] /\ \A u \in Task : TaskOK(task'[u])
          /\ \A u \in Task : task'[u].obj \in {NoId, task[u].obj}
      BY <2>1, <2>3, <1>f
    <3>2. HeapOK'
      BY <1>8, <3>1, HeapKept DEF PostRejected
    <3>3. QED
      BY <1>8, <3>1, <3>2 DEF PostRejected, TypeInv, TypeOK, services
  <2>4. CASE task' = [task EXCEPT ![t].pc = "read", ![t].back = "retry", ![t].again = TRUE,
                                  ![t].target = heap[task[t].obj].portal]
    <3>1. /\ task' \in [Task -> TaskState]
          /\ \A u \in Task : task'[u].obj = task[u].obj
          /\ \A u \in Task \ {t} : task'[u] = task[u]
      BY <2>2, <2>4, <1>t DEF TypeInv, TypeOK, TaskState, TaskPc
    <3>2. /\ task'[t].pc = "read" /\ task'[t].target = heap[T.obj].portal
          /\ task'[t].call = T.call /\ task'[t].portal = T.portal
          /\ task'[t].kind = T.kind /\ task'[t].obj = T.obj
      BY <2>4, <1>t DEF TypeInv, TypeOK, TaskState
    <3>3. TaskOK(task'[t])
      BY <2>1, <2>2, <3>2, <1>t DEF TaskOK, RestPc, RefreshPc
    <3>4. HeapOK'
      BY <1>8, <3>1, HeapKept DEF PostRejected
    <3>5. QED
      BY <1>8, <3>1, <3>3, <3>4 DEF PostRejected, TypeInv, TypeOK, services
  <2>5. QED
    BY <1>8, <2>3, <2>4 DEF PostRejected
<1>9. CASE NetError(t)
  <2>1. T.pc \in RestPc
    BY <1>9 DEF NetError, At, RestPc, RefreshPc
  <2>2. /\ task' \in [Task -> TaskState] /\ \A u \in Task : TaskOK(task'[u])
        /\ \A u \in Task : task'[u].obj \in {NoId, task[u].obj}
    BY <1>9, <2>1, <1>f DEF NetError
  <2>3. HeapOK'
    BY <1>9, <2>2, HeapKept DEF NetError
  <2>4. QED
    BY <1>9, <2>2, <2>3 DEF NetError, TypeInv, TypeOK, services
<1>10. CASE Store(t)
  <2> DEFINE r == [row[T.portal] EXCEPT !.access = heap[T.obj].access]
  <2>1. T.pc \in RestPc /\ T.obj \in Client
    BY <1>10, <1>t DEF Store, At, RestPc, TaskOK
  <2>2. heap[T.obj].access \in TokenId
    BY <2>1 DEF TypeInv, TypeOK, Object
  <2>3. r \in Row /\ WriteRow(T.portal, r)
    BY <1>10, <2>1, <2>2, <1>r DEF Store, TypeInv, TypeOK, Row
  <2>4. row' \in [Portal -> Row] /\ newer' \subseteq Portal \X Portal
    BY <2>1, <2>3, <1>r, WriteRowTypes
  <2>5. 2 \in 1..5
    OBVIOUS
  <2>6. /\ task' \in [Task -> TaskState] /\ \A u \in Task : TaskOK(task'[u])
        /\ \A u \in Task : task'[u].obj \in {NoId, task[u].obj}
    BY <1>10, <2>1, <2>5, <1>n DEF Store
  <2>7. HeapOK'
    BY <1>10, <2>6, HeapKept DEF Store
  <2>8. QED
    BY <1>10, <2>4, <2>6, <2>7 DEF Store, TypeInv, TypeOK, services
<1>11. QED
  BY <1>1, <1>2, <1>3, <1>4, <1>5, <1>6, <1>7, <1>8, <1>9, <1>10 DEF Rest

\* Every step of a refresh keeps the types.
LEMMA RefreshTypes ==
    ASSUME TypeInv, NEW t \in Task, Refresh(t)
    PROVE  TypeInv'
<1> USE DEF table, bitrix24
<1> DEFINE T == task[t]
<1>t. T \in TaskState /\ TaskOK(T) /\ NoId \in TokenId
  BY DEF TypeInv, TypeOK, TokenId
<1>r. T.pc \in RefreshPc
  BY DEF Refresh, ReadGrant, Granted, GrantLost, GrantRefused, SaveAndRetry, Disable, At,
         RefreshPc
<1>c. /\ T.pc \in RestPc /\ T.target \in Portal /\ T.portal \in Portal
      /\ ~At(t, "idle") /\ Svc(t) \in Service
      /\ T.tok \in TokenId /\ T.got \in TokenId /\ row[T.target] \in Row
  <2>1. T.pc \in RestPc /\ T.target \in Portal
    BY <1>r, <1>t DEF RestPc, TaskOK
  <2>2. QED
    BY <2>1, CallTypes DEF TypeInv, TypeOK
<1>f. Failed(t) =>
        /\ task' \in [Task -> TaskState] /\ \A u \in Task : TaskOK(task'[u])
        /\ \A u \in Task : task'[u].obj \in {NoId, task[u].obj}
  BY <1>c, FailedTypes
\* Steps within the refresh keep what the request has.
<1>m. ASSUME task' \in [Task -> TaskState], \A u \in Task \ {t} : task'[u] = task[u],
             task'[t].pc \in RefreshPc, task'[t].portal = T.portal,
             task'[t].kind = T.kind, task'[t].call = T.call, task'[t].target = T.target,
             task'[t].obj = T.obj, task'[t].back = T.back
      PROVE  /\ \A u \in Task : TaskOK(task'[u])
             /\ \A u \in Task : task'[u].obj \in {NoId, task[u].obj}
  <2>1. TaskOK(task'[t])
    BY <1>m, <1>r, <1>c, <1>t DEF TaskOK, RefreshPc
  <2>2. QED
    BY <1>m, <2>1 DEF TypeInv
<1>1. CASE ReadGrant(t)
  <2>1. row[T.target].refresh \in TokenId
    BY <1>c DEF Row
  <2>2. /\ task' \in [Task -> TaskState] /\ \A u \in Task \ {t} : task'[u] = task[u]
        /\ task'[t].pc = "grant" /\ task'[t].portal = T.portal
        /\ task'[t].kind = T.kind /\ task'[t].call = T.call
        /\ task'[t].target = T.target /\ task'[t].obj = T.obj /\ task'[t].back = T.back
    BY <1>1, <2>1, <1>t DEF ReadGrant, TypeInv, TypeOK, TaskState, TaskPc
  <2>3. /\ \A u \in Task : TaskOK(task'[u])
        /\ \A u \in Task : task'[u].obj \in {NoId, task[u].obj}
    BY <2>2, <1>m DEF RefreshPc
  <2>4. HeapOK'
    BY <1>1, <2>3, HeapKept DEF ReadGrant
  <2>5. QED
    BY <1>1, <2>2, <2>3, <2>4 DEF ReadGrant, TypeInv, TypeOK, services
<1>2. CASE Granted(t)
  <2> DEFINE p == T.target
  <2>1. IssueAccess(p) /\ Fresh(p) \in TokenId
    BY <1>2, <1>c, IssueTypes DEF Granted, IssuePair, IssueAccess, TokenId
  <2>2. /\ issued' \in [Portal -> 0..MaxIssued] /\ live' \subseteq Token
        /\ grants' \subseteq Token
    BY <1>2, <2>1, <1>c, IssueTypes DEF Granted, TypeInv, TypeOK
  <2>3. \E x \in TokenId :
           task' = [task EXCEPT ![t].tok = x, ![t].got = Fresh(p), ![t].pc = "save"]
    <3>1. CASE task' = [task EXCEPT ![t].tok = Fresh(p), ![t].got = Fresh(p), ![t].pc = "save"]
      BY <3>1, <2>1
    <3>2. CASE task' = [task EXCEPT ![t].got = Fresh(p), ![t].pc = "save"]
      <4>1. task' = [task EXCEPT ![t].tok = T.tok, ![t].got = Fresh(p), ![t].pc = "save"]
        BY <3>2, <1>t DEF TypeInv, TypeOK, TaskState
      <4>2. QED
        BY <4>1, <1>c
    <3>3. QED
      BY <1>2, <3>1, <3>2 DEF Granted
  <2>4. /\ task' \in [Task -> TaskState] /\ \A u \in Task \ {t} : task'[u] = task[u]
        /\ task'[t].pc = "save" /\ task'[t].portal = T.portal
        /\ task'[t].kind = T.kind /\ task'[t].call = T.call
        /\ task'[t].target = T.target /\ task'[t].obj = T.obj /\ task'[t].back = T.back
    <3>1. PICK x \in TokenId, y \in TokenId :
             task' = [task EXCEPT ![t].tok = x, ![t].got = y, ![t].pc = "save"]
      BY <2>1, <2>3
    <3>2. "save" \in TaskPc
      BY DEF TaskPc
    <3>3. QED
      BY <3>1, <3>2, <1>t DEF TypeInv, TypeOK, TaskState
  <2>5. /\ \A u \in Task : TaskOK(task'[u])
        /\ \A u \in Task : task'[u].obj \in {NoId, task[u].obj}
    BY <2>4, <1>m DEF RefreshPc
  <2>6. HeapOK'
    BY <1>2, <2>5, HeapKept DEF Granted
  <2>7. QED
    BY <1>2, <2>2, <2>4, <2>5, <2>6 DEF Granted, TypeInv, TypeOK, services
<1>3. CASE GrantLost(t)
  <2>1. /\ issued' \in [Portal -> 0..MaxIssued] /\ live' \subseteq Token
        /\ grants' \subseteq Token
    BY <1>3, <1>c, IssueTypes DEF GrantLost, IssuePair
  <2>2. /\ task' \in [Task -> TaskState] /\ \A u \in Task : TaskOK(task'[u])
        /\ \A u \in Task : task'[u].obj \in {NoId, task[u].obj}
    BY <1>3, <1>f DEF GrantLost
  <2>3. HeapOK'
    BY <1>3, <2>2, HeapKept DEF GrantLost
  <2>4. QED
    BY <1>3, <2>1, <2>2, <2>3, <1>c DEF GrantLost, TypeInv, TypeOK, services
<1>4. CASE GrantRefused(t)
  <2>1. /\ task' \in [Task -> TaskState] /\ \A u \in Task \ {t} : task'[u] = task[u]
        /\ task'[t].pc = "disable" /\ task'[t].portal = T.portal
        /\ task'[t].kind = T.kind /\ task'[t].call = T.call
        /\ task'[t].target = T.target /\ task'[t].obj = T.obj /\ task'[t].back = T.back
    BY <1>4, <1>t DEF GrantRefused, Goto, TypeInv, TypeOK, TaskState, TaskPc
  <2>2. /\ \A u \in Task : TaskOK(task'[u])
        /\ \A u \in Task : task'[u].obj \in {NoId, task[u].obj}
    BY <2>1, <1>m DEF RefreshPc
  <2>3. HeapOK'
    BY <1>4, <2>2, HeapKept DEF GrantRefused
  <2>4. QED
    BY <1>4, <2>1, <2>2, <2>3 DEF GrantRefused, TypeInv, TypeOK, services
<1>5. CASE SaveAndRetry(t)
  <2> DEFINE r == [row[T.target] EXCEPT !.access = T.got, !.refresh = T.tok]
  <2>1. T.obj \in Client
    BY <1>5, <1>t, <1>r DEF SaveAndRetry, TaskOK
  <2>2. r \in Row /\ WriteRow(T.target, r)
    BY <1>5, <1>c DEF SaveAndRetry, SaveRow, Row
  <2>3. row' \in [Portal -> Row] /\ newer' \subseteq Portal \X Portal
    BY <2>2, <1>c, WriteRowTypes
  <2>4. /\ heap[T.obj] \in Object /\ heap' \in [Client -> Object]
        /\ \A c \in Client : heap'[c].portal = heap[c].portal
    BY <1>5, <2>1, <1>c DEF SaveAndRetry, TypeInv, TypeOK, Object
  <2>5. pinned' \in [Service -> Portal \cup {NoId}]
    BY <1>5, <2>4, <1>c DEF SaveAndRetry, TypeInv, TypeOK, Object
  <2>6. /\ task' \in [Task -> TaskState] /\ \A u \in Task : TaskOK(task'[u])
        /\ task'[t].obj = T.obj /\ \A u \in Task \ {t} : task'[u] = task[u]
    BY <1>5, <2>1, <1>c, SendTypes DEF SaveAndRetry
  <2>7. HeapOK'
    BY <1>5, <2>1, <2>4, <2>6 DEF SaveAndRetry, TypeInv, TypeOK, TaskState, HeapOK
  <2>8. QED
    BY <1>5, <2>3, <2>4, <2>5, <2>6, <2>7 DEF SaveAndRetry, TypeInv, TypeOK
<1>6. CASE Disable(t)
  <2> DEFINE r == [row[T.target] EXCEPT !.status = "DISABLED"]
  <2>1. r \in Row /\ WriteRow(T.target, r)
    BY <1>6, <1>c DEF Disable, Row, Status
  <2>2. row' \in [Portal -> Row] /\ newer' \subseteq Portal \X Portal
    BY <2>1, <1>c, WriteRowTypes
  <2>3. /\ task' \in [Task -> TaskState] /\ \A u \in Task : TaskOK(task'[u])
        /\ \A u \in Task : task'[u].obj \in {NoId, task[u].obj}
    BY <1>6, <1>f DEF Disable
  <2>4. HeapOK'
    BY <1>6, <2>3, HeapKept DEF Disable
  <2>5. QED
    BY <1>6, <2>2, <2>3, <2>4 DEF Disable, TypeInv, TypeOK, services
<1>7. QED
  BY <1>1, <1>2, <1>3, <1>4, <1>5, <1>6 DEF Refresh

LEMMA TypeInit == Init => TypeInv
<1> SUFFICES ASSUME Init PROVE TypeInv
  OBVIOUS
<1>1. IdleTask \in TaskState /\ TaskOK(IdleTask) /\ IdleTask.obj = NoId
  BY DEF IdleTask, Request, TaskState, TaskPc, TokenId, Kind, TaskOK, RestPc, RefreshPc
<1>2. NoRow \in Row /\ NoObject \in Object
  BY DEF NoRow, Row, Status, NoObject, Object, Service, TokenId
<1>3. TypeOK
  BY <1>1, <1>2, IssuedAssumption DEF Init, TypeOK
<1>4. HeapOK
  BY <1>1 DEF Init, HeapOK
<1>5. QED
  BY <1>1, <1>3, <1>4 DEF Init, TypeInv

LEMMA TypeStep == TypeInv /\ [Next]_vars => TypeInv'
<1> SUFFICES ASSUME TypeInv, [Next]_vars PROVE TypeInv'
  OBVIOUS
<1>1. ASSUME NEW t \in Task, Begin(t) \/ Prepare(t) \/ Rest(t) \/ Refresh(t)
      PROVE  TypeInv'
  BY <1>1, BeginTypes, PrepareTypes, RestTypes, RefreshTypes
<1>2. ASSUME NEW x \in Token, Expire(x)
      PROVE  TypeInv'
  <2>1. HeapOK'
    BY <1>2, HeapKept DEF Expire
  <2>2. QED
    BY <1>2, <2>1 DEF Expire, TypeInv, TypeOK, table, services
<1>3. CASE Restart
  <2>1. IdleTask \in TaskState /\ TaskOK(IdleTask) /\ IdleTask.obj = NoId
    BY DEF IdleTask, Request, TaskState, TaskPc, TokenId, Kind, TaskOK, RestPc, RefreshPc
  <2>2. NoObject \in Object
    BY DEF NoObject, Object, Service, TokenId
  <2>3. lost' \subseteq Portal
    BY <1>3 DEF Restart, At, TypeInv, TypeOK, TaskOK, RefreshPc
  <2>4. HeapOK'
    BY <1>3, <2>1 DEF Restart, HeapOK
  <2>5. QED
    BY <1>3, <2>1, <2>2, <2>3, <2>4 DEF Restart, TypeInv, TypeOK, table, bitrix24
<1>4. CASE UNCHANGED vars
  BY <1>4 DEF vars, table, services, bitrix24, TypeInv, TypeOK, HeapOK
<1>5. QED
  BY <1>1, <1>2, <1>3, <1>4 DEF Next

\* The variables keep their types (TypeOK): in every state of every portal's install, the
\* rows, the services' clients and the requests are what the code takes them for.
THEOREM TypeCorrect == Spec => []TypeOK
<1>1. Spec => []TypeInv
  BY TypeInit, TypeStep, PTL DEF Spec
<1>2. TypeInv => TypeOK
  BY DEF TypeInv
<1>3. QED
  BY <1>1, <1>2, PTL

-----------------------------------------------------------------------------
(***************************************************************************)
(* When requests are handled one at a time, no call of PortalTokens leaves  *)
(* the portal it is meant for and no token leaves the row and the client of *)
(* its portal, for every number of portals and of tokens they were issued.  *)
(***************************************************************************)

OneRequest == \A t, u \in Task : t = u

\* A client that a service keeps is its own, of the portal it is pinned to, with a token
\* of that portal.
ClientHome(s) ==
    cached[s] # NoId =>
        /\ heap[cached[s]].svc = s /\ heap[cached[s]].portal = pinned[s]
        /\ heap[cached[s]].access # NoId /\ heap[cached[s]].access[1] = pinned[s]

\* A row has a token of its portal, an installed one for certain.
RowHome(p) ==
    /\ row[p].access # NoId => row[p].access[1] = p
    /\ row[p].status = "INSTALLED" => row[p].access # NoId

\* The token that a request came with, or that a refresh returned, is of its portal.
TokenHome(T) ==
    /\ T.pc = "rotate" => T.kind = "reply"
    /\ T.pc = "upsert" \/ (T.kind = "reply" /\ T.pc \in {"verify", "activate", "rotate"}) =>
          T.tok # NoId /\ T.tok[1] = T.portal
    /\ T.pc = "save" => T.got # NoId /\ T.got[1] = T.target

\* A request calls with the client that its service keeps, and refreshes it for its
\* portal.
Calling(T)   == T.pc \in {"post", "store"} \/ (T.pc \in RefreshPc /\ T.back = "retry")
CallHome(T) ==
    Calling(T) => /\ cached[Calls[T.kind][T.call].svc] = T.obj
                  /\ T.pc \in RefreshPc => heap[T.obj].portal = T.target

\* A call that is given its portal, or that comes after its activation, is for it.
Aimed(T) == Calls[T.kind][T.call].to = "own" \/ T.kind = "reply"
AimHome(T) ==
    /\ T.kind = "reply" /\ T.pc \in RestPc \cup {"rotate"} => pinned["operator"] = T.portal
    /\ T.pc = "store" => Aimed(T)
    /\ T.pc = "resolve" => Calls[T.kind][T.call].to # "own"
    /\ T.pc \in RefreshPc \cup {"ensure"} /\ Aimed(T) => T.target = T.portal
    /\ T.pc \in {"post", "store"} /\ Aimed(T) => heap[T.obj].portal = T.portal

HomeInv ==
    /\ TypeInv
    /\ \A s \in Service : ClientHome(s)
    /\ \A p \in Portal : RowHome(p)
    /\ \A t \in Task : TokenHome(task[t]) /\ CallHome(task[t]) /\ AimHome(task[t])

\* All that holds of the request.
TaskHome(t) == TokenHome(task[t]) /\ CallHome(task[t]) /\ AimHome(task[t])

\* Calls of the kinds that the argument tells apart.
LEMMA CallsAim ==
    /\ \A n \in 1..Len(Calls["reply"]) : Calls["reply"][n].svc = "operator"
    /\ \A k \in {"event", "open"} : Calls[k][1].to = "own"
<1>1. Calls["reply"] = <<Call("operator", "pinned"), Call("operator", "pinned")>>
  BY DEF Calls, Kind
<1>2. \A k \in {"event", "open"} :
         Calls[k] = <<Call("install", "own"), Call("install", "own"),
                      Call("provision", "pinned"), Call("provision", "own")>>
  BY DEF Calls, Kind
<1>3. QED
  BY <1>1, <1>2 DEF Call

\* The only request stands for all.
LEMMA Assemble ==
    ASSUME OneRequest, NEW t \in Task, TypeInv',
           \A s \in Service : ClientHome(s)', \A p \in Portal : RowHome(p)', TaskHome(t)'
    PROVE  HomeInv'
BY DEF OneRequest, HomeInv, TaskHome

\* The services stay, and the row that is written has a token of its portal.
LEMMA ClientsKept ==
    ASSUME HomeInv, UNCHANGED services
    PROVE  \A s \in Service : ClientHome(s)'
BY DEF HomeInv, ClientHome, services

LEMMA RowsKept ==
    ASSUME HomeInv, UNCHANGED row
    PROVE  \A p \in Portal : RowHome(p)'
BY DEF HomeInv, RowHome

LEMMA RowWritten ==
    ASSUME HomeInv, NEW p \in Portal, NEW r \in Row, WriteRow(p, r),
           r.access # NoId => r.access[1] = p,
           r.status = "INSTALLED" => r.access # NoId
    PROVE  \A q \in Portal : RowHome(q)'
BY DEF HomeInv, TypeInv, TypeOK, RowHome, WriteRow

\* A request goes on to its next call, for its portal.
LEMMA StartHome ==
    ASSUME HomeInv, NEW t \in Task, ~At(t, "idle"), NEW n \in 1..5, Start(t, n),
           task[t].kind = "reply" => pinned'["operator"] = task[t].portal
    PROVE  TaskHome(t)'
<1>1. task'[t] = AtCall(task[t], n)
  BY DEF Start, HomeInv, TypeInv, TypeOK
<1>2. \/ task'[t].pc = "idle"
      \/ /\ task'[t].kind = task[t].kind /\ task'[t].portal = task[t].portal
         /\ \/ task'[t].pc = "ensure" /\ task'[t].target = task[t].portal
            \/ /\ task'[t].pc = "resolve" /\ task'[t].call = n
               /\ Calls[task[t].kind][n].to # "own"
  <2>1. CASE n > Len(Calls[task[t].kind])
    <3>1. task'[t] = IdleTask
      BY <2>1, <1>1 DEF AtCall
    <3>2. QED
      BY <3>1 DEF IdleTask, Request
  <2>2. CASE ~(n > Len(Calls[task[t].kind])) /\ Calls[task[t].kind][n].to = "own"
    <3>1. task'[t] = Request("ensure", task[t].kind, task[t].portal, NoId, n, task[t].portal)
      BY <2>2, <1>1 DEF AtCall
    <3>2. QED
      BY <3>1 DEF Request
  <2>3. CASE ~(n > Len(Calls[task[t].kind])) /\ Calls[task[t].kind][n].to # "own"
    <3>1. task'[t] = Request("resolve", task[t].kind, task[t].portal, NoId, n, NoId)
      BY <2>3, <1>1 DEF AtCall
    <3>2. /\ task'[t].pc = "resolve" /\ task'[t].call = n
          /\ task'[t].kind = task[t].kind /\ task'[t].portal = task[t].portal
      BY <3>1 DEF Request
    <3>3. QED
      BY <3>2, <2>3
  <2>4. QED
    BY <2>1, <2>2, <2>3
<1>3. QED
  BY <1>2 DEF TaskHome, TokenHome, CallHome, Calling, AimHome, RestPc, RefreshPc

\* After a call that failed.
LEMMA FailedHome ==
    ASSUME HomeInv, NEW t \in Task, task[t].pc \in RestPc, Failed(t), UNCHANGED pinned
    PROVE  TaskHome(t)'
<1>1. ~At(t, "idle") /\ task[t].call + 1 \in 1..5 /\ 5 \in 1..5
  BY CallTypes DEF HomeInv
<1>2. \E n \in 1..5 : Start(t, n)
  BY <1>1 DEF Failed
<1>3. task[t].kind = "reply" => pinned'["operator"] = task[t].portal
  BY DEF HomeInv, AimHome
<1>4. QED
  BY <1>1, <1>2, <1>3, StartHome

\* The end of a request.
LEMMA EndHome ==
    ASSUME HomeInv, NEW t \in Task, task' = [task EXCEPT ![t] = IdleTask]
    PROVE  TaskHome(t)'
<1>1. task'[t] = IdleTask
  BY DEF HomeInv, TypeInv, TypeOK
<1>2. QED
  BY <1>1 DEF IdleTask, Request, TaskHome, TokenHome, CallHome, Calling, AimHome, RestPc,
              RefreshPc

\* What stays of a request that goes to another place.
LEMMA GotoShape ==
    ASSUME HomeInv, NEW t \in Task, NEW pc, Goto(t, pc)
    PROVE  /\ task'[t].pc = pc /\ task'[t].kind = task[t].kind
           /\ task'[t].portal = task[t].portal /\ task'[t].tok = task[t].tok
           /\ task'[t].got = task[t].got /\ task'[t].call = task[t].call
           /\ task'[t].target = task[t].target /\ task'[t].obj = task[t].obj
           /\ task'[t].back = task[t].back
<1>1. task[t] \in TaskState
  BY DEF HomeInv, TypeInv, TypeOK
<1>2. task'[t] = [task[t] EXCEPT !.pc = pc]
  BY <1>1 DEF Goto, HomeInv, TypeInv, TypeOK
<1>3. QED
  BY <1>1, <1>2 DEF TaskState

LEMMA BeginHome ==
    ASSUME HomeInv, OneRequest, NEW t \in Task, Begin(t)
    PROVE  HomeInv'
<1>1. PICK p \in Portal : (\E k \in Kind : BeginInstall(t, k, p)) \/ BeginReply(t, p)
                            \/ BeginUninstall(t, p)
  BY DEF Begin
<1>2. Fresh(p) # NoId /\ Fresh(p)[1] = p
  BY NullAssumption, IssuedAssumption DEF Fresh, HomeInv, TypeInv, TypeOK
<1>3. ASSUME NEW k \in Kind, NEW x, Arrive(t, k, p, x),
             k # "uninstall" => x # NoId /\ x[1] = p
      PROVE  TaskHome(t)'
  <2>1. task'[t] = Request(IF k \in {"reply", "uninstall"} THEN "verify" ELSE "upsert",
                           k, p, x, 0, NoId)
    BY <1>3 DEF Arrive, HomeInv, TypeInv, TypeOK
  <2>2. /\ task'[t].kind = k /\ task'[t].portal = p /\ task'[t].tok = x
        /\ task'[t].pc = IF k \in {"reply", "uninstall"} THEN "verify" ELSE "upsert"
    BY <2>1 DEF Request
  <2>3. QED
    BY <2>2, <1>3 DEF TaskHome, TokenHome, CallHome, Calling, AimHome, RestPc, RefreshPc
<1>4. TaskHome(t)'
  <2>1. CASE \E k \in Kind : BeginInstall(t, k, p)
    BY <2>1, <1>2, <1>3 DEF BeginInstall
  <2>2. CASE BeginReply(t, p)
    BY <2>2, <1>2, <1>3 DEF BeginReply, Kind
  <2>3. CASE BeginUninstall(t, p)
    BY <2>3, <1>3 DEF BeginUninstall, Kind
  <2>4. QED
    BY <1>1, <2>1, <2>2, <2>3
<1>5. UNCHANGED services /\ UNCHANGED row
  BY <1>1 DEF BeginInstall, BeginReply, BeginUninstall, table
<1>6. QED
  BY <1>4, <1>5, BeginTypes, ClientsKept, RowsKept, Assemble DEF HomeInv

\* A service forgets its client.
LEMMA PinHome ==
    ASSUME HomeInv, NEW s \in Service, NEW p, Pin(s, p)
    PROVE  /\ \A o \in Service : ClientHome(o)'
           /\ pinned'[s] = p
BY DEF HomeInv, TypeInv, TypeOK, Pin, ClientHome

LEMMA PrepareHome ==
    ASSUME HomeInv, OneRequest, NEW t \in Task, Prepare(t)
    PROVE  HomeInv'
<1> USE DEF table
<1> DEFINE T == task[t]
<1>t. T \in TaskState /\ TaskOK(T) /\ TokenHome(T) /\ AimHome(T) /\ CallHome(T)
  BY DEF HomeInv, TypeInv, TypeOK
<1>y. TypeInv'
  BY PrepareTypes DEF HomeInv
<1>p. ~At(t, "idle") => T.portal \in Portal /\ row[T.portal] \in Row
  BY <1>t DEF At, TaskOK, HomeInv, TypeInv, TypeOK
<1>g. ASSUME NEW pc \in {"activate", "refused", "remove", "rotate", "unpin"}, Goto(t, pc),
             pc = "activate" => T.pc \in {"upsert", "verify"},
             pc = "rotate" => /\ T.kind = "reply" /\ T.pc = "activate"
                              /\ pinned'["operator"] = T.portal
      PROVE  TaskHome(t)'
  <2>1. /\ task'[t].pc = pc /\ task'[t].kind = T.kind /\ task'[t].portal = T.portal
        /\ task'[t].tok = T.tok
    BY <1>g, GotoShape
  <2>2. TokenHome(task[t])'
    BY <2>1, <1>g, <1>t DEF TokenHome
  <2>3. CallHome(task[t])' /\ AimHome(task[t])'
    BY <2>1, <1>g DEF CallHome, Calling, AimHome, RestPc, RefreshPc
  <2>4. QED
    BY <2>2, <2>3 DEF TaskHome
<1>1. CASE Upsert(t)
  <2> DEFINE r == [status |-> "INSTALLED", access |-> T.tok, refresh |-> T.tok,
                   app |-> T.kind = "event"]
  <2>1. ~At(t, "idle") /\ T.tok # NoId /\ T.tok[1] = T.portal /\ UNCHANGED services
    BY <1>1, <1>t DEF Upsert, At, TokenHome
  <2>2. r \in Row /\ WriteRow(T.portal, r) /\ r.access = T.tok /\ r.status = "INSTALLED"
    BY <1>1, <1>t DEF Upsert, Row, Status, TaskState
  <2>3. \A p \in Portal : RowHome(p)'
    <3> HIDE DEF r
    <3> QED
      BY <2>1, <2>2, <1>p, RowWritten
  <2>4. TaskHome(t)'
    <3>1. CASE T.kind = "placement" /\ Start(t, 1)
      <4>1. 1 \in 1..5 /\ T.kind # "reply"
        BY <3>1
      <4>2. QED
        BY <3>1, <4>1, <2>1, StartHome
    <3>2. CASE Goto(t, "activate")
      BY <1>1, <3>2, <1>g, <1>t DEF Upsert, At
    <3>3. QED
      BY <1>1, <3>1, <3>2 DEF Upsert
  <2>5. QED
    BY <2>1, <2>3, <2>4, <1>y, ClientsKept, Assemble
<1>2. CASE Verify(t)
  <2>1. TaskHome(t)'
    <3>1. CASE T.kind = "reply" /\ Goto(t, "activate")
      BY <1>2, <3>1, <1>g, <1>t DEF Verify, At
    <3>2. CASE Goto(t, "remove") \/ Goto(t, "refused")
      BY <3>2, <1>g
    <3>3. CASE task' = [task EXCEPT ![t] = IdleTask]
      BY <3>3, EndHome
    <3>4. QED
      BY <1>2, <3>1, <3>2, <3>3 DEF Verify
  <2>2. QED
    BY <1>2, <2>1, <1>y, ClientsKept, RowsKept, Assemble DEF Verify
<1>3. CASE Leave(t)
  BY <1>3, <1>y, EndHome, ClientsKept, RowsKept, Assemble DEF Leave
<1>4. CASE Activate(t)
  <2>1. ~At(t, "idle") /\ UNCHANGED row
    BY <1>4 DEF Activate, At
  <2>2. CASE T.kind = "reply"
    <3>1. Pin("operator", T.portal) /\ Goto(t, "rotate") /\ T.pc = "activate"
      BY <1>4, <2>2 DEF Activate, At
    <3>2. (\A s \in Service : ClientHome(s)') /\ pinned'["operator"] = T.portal
      BY <3>1, PinHome DEF Service
    <3>3. TaskHome(t)'
      BY <3>1, <3>2, <2>2, <1>g
    <3>4. QED
      BY <2>1, <3>2, <3>3, <1>y, RowsKept, Assemble
  <2>3. CASE T.kind # "reply"
    <3>1. Pin("install", T.portal) /\ Start(t, 1) /\ 1 \in 1..5
      BY <1>4, <2>3 DEF Activate
    <3>2. \A s \in Service : ClientHome(s)'
      BY <3>1, PinHome DEF Service
    <3>3. TaskHome(t)'
      BY <3>1, <2>1, <2>3, StartHome
    <3>4. QED
      BY <2>1, <3>2, <3>3, <1>y, RowsKept, Assemble
  <2>4. QED
    BY <2>2, <2>3
<1>5. CASE Rotate(t)
  <2> DEFINE r == [row[T.portal] EXCEPT !.access = T.tok]
  <2>1. /\ ~At(t, "idle") /\ T.kind = "reply" /\ T.tok # NoId /\ T.tok[1] = T.portal
        /\ UNCHANGED services /\ pinned["operator"] = T.portal
    BY <1>5, <1>t DEF Rotate, At, TokenHome, AimHome
  <2>2. r \in Row /\ WriteRow(T.portal, r) /\ r.access = T.tok
    BY <1>5, <2>1, <1>p, <1>t DEF Rotate, Row, TaskState
  <2>3. \A p \in Portal : RowHome(p)'
    <3> HIDE DEF r
    <3> QED
      BY <2>1, <2>2, <1>p, RowWritten
  <2>4. TaskHome(t)'
    <3>1. PICK n \in {1, 2} : Start(t, n)
      BY <1>5 DEF Rotate
    <3>2. n \in 1..5 /\ pinned'["operator"] = T.portal
      BY <3>1, <2>1 DEF services
    <3>3. QED
      BY <3>1, <3>2, <2>1, StartHome
  <2>5. QED
    BY <2>1, <2>3, <2>4, <1>y, ClientsKept, Assemble
<1>6. CASE Remove(t)
  <2> DEFINE r == [row[T.portal] EXCEPT !.status = "UNINSTALLED"]
  <2>1. ~At(t, "idle") /\ UNCHANGED services
    BY <1>6 DEF Remove, At
  <2>2. /\ r \in Row /\ WriteRow(T.portal, r) /\ r.access = row[T.portal].access
        /\ r.status # "INSTALLED"
    BY <1>6, <2>1, <1>p DEF Remove, Row, Status
  <2>3. \A p \in Portal : RowHome(p)'
    <3> HIDE DEF r
    <3> QED
      BY <2>1, <2>2, <1>p, RowWritten DEF HomeInv, RowHome
  <2>4. TaskHome(t)'
    BY <1>6, <1>g DEF Remove
  <2>5. QED
    BY <2>1, <2>3, <2>4, <1>y, ClientsKept, Assemble
<1>7. CASE Unpin(t)
  <2>1. \A s \in Service : ClientHome(s)'
    BY <1>7, PinHome, ClientsKept DEF Unpin, Service
  <2>2. QED
    BY <1>7, <2>1, <1>y, EndHome, RowsKept, Assemble DEF Unpin
<1>8. QED
  BY <1>1, <1>2, <1>3, <1>4, <1>5, <1>6, <1>7 DEF Prepare

\* What the request has while it calls.
LEMMA CallFacts ==
    ASSUME HomeInv, NEW t \in Task, task[t].pc \in RestPc
    PROVE  /\ task[t] \in TaskState /\ TaskOK(task[t]) /\ TaskHome(t)
           /\ Svc(t) = Calls[task[t].kind][task[t].call].svc /\ Svc(t) \in Service
           /\ task[t].kind = "reply" =>
                 Svc(t) = "operator" /\ pinned["operator"] = task[t].portal
           /\ Calling(task[t]) =>
                 /\ cached[Svc(t)] = task[t].obj /\ task[t].obj \in Client
                 /\ heap[task[t].obj] \in Object /\ heap[task[t].obj].svc = Svc(t)
                 /\ heap[task[t].obj].portal = pinned[Svc(t)]
                 /\ heap[task[t].obj].access # NoId
                 /\ heap[task[t].obj].access[1] = pinned[Svc(t)]
<1>1. task[t] \in TaskState /\ TaskOK(task[t]) /\ TaskHome(t)
  BY DEF HomeInv, TypeInv, TypeOK, TaskHome
<1>2. Svc(t) = Calls[task[t].kind][task[t].call].svc /\ Svc(t) \in Service
  BY CallTypes DEF HomeInv, Svc, This
<1>3. task[t].kind = "reply" => Svc(t) = "operator" /\ pinned["operator"] = task[t].portal
  BY <1>1, <1>2, CallsAim DEF TaskOK, TaskHome, AimHome
<1>4. ASSUME Calling(task[t])
      PROVE  /\ cached[Svc(t)] = task[t].obj /\ task[t].obj \in Client
             /\ heap[task[t].obj] \in Object /\ heap[task[t].obj].svc = Svc(t)
             /\ heap[task[t].obj].portal = pinned[Svc(t)]
             /\ heap[task[t].obj].access # NoId
             /\ heap[task[t].obj].access[1] = pinned[Svc(t)]
  <2>1. cached[Svc(t)] = task[t].obj /\ task[t].obj \in Client
    BY <1>1, <1>2, <1>4 DEF Calling, TaskOK, TaskHome, CallHome
  <2>2. cached[Svc(t)] # NoId
    BY <2>1, NullAssumption
  <2>3. QED
    BY <2>1, <2>2, <1>2 DEF HomeInv, ClientHome, TypeInv, TypeOK
<1>5. QED
  BY <1>1, <1>2, <1>3, <1>4

\* What stays of a request that posts.
LEMMA SendShape ==
    ASSUME HomeInv, NEW t \in Task, NEW c \in Client, Send(t, c)
    PROVE  /\ task'[t].pc = "post" /\ task'[t].obj = c /\ task'[t].kind = task[t].kind
           /\ task'[t].call = task[t].call /\ task'[t].portal = task[t].portal
BY DEF HomeInv, TypeInv, TypeOK, Send, TaskState

\* A request posts with the client of its service, which is of the portal it is meant for.
LEMMA SendHome ==
    ASSUME HomeInv, NEW t \in Task, task[t].pc \in RestPc, NEW c \in Client, Send(t, c),
           cached'[Svc(t)] = c, heap'[c].portal = pinned'[Svc(t)],
           task[t].kind = "reply" \/ Aimed(task[t]) => pinned'[Svc(t)] = task[t].portal
    PROVE  TaskHome(t)'
<1>1. /\ task'[t].pc = "post" /\ task'[t].obj = c /\ task'[t].kind = task[t].kind
      /\ task'[t].call = task[t].call /\ task'[t].portal = task[t].portal
  BY SendShape
<1>2. Svc(t) = Calls[task[t].kind][task[t].call].svc
      /\ (task[t].kind = "reply" => Svc(t) = "operator")
  BY CallFacts
<1>3. TokenHome(task[t])'
  BY <1>1 DEF TokenHome
<1>4. CallHome(task[t])'
  BY <1>1, <1>2 DEF CallHome, RefreshPc
<1>5. AimHome(task[t])'
  BY <1>1, <1>2 DEF AimHome, Aimed, RefreshPc
<1>6. QED
  BY <1>3, <1>4, <1>5 DEF TaskHome

\* A client that is built for the portal the request has resolved.
LEMMA BuildHome ==
    ASSUME HomeInv, NEW t \in Task, task[t].pc \in {"ensure", "save"}, NEW c \in Client,
           NEW x, x # NoId, x[1] = task[t].target, Build(t, c, task[t].target, x)
    PROVE  (\A s \in Service : ClientHome(s)') /\ TaskHome(t)'
<1> DEFINE p == task[t].target
<1>1. task[t].pc \in RestPc /\ task[t].pc \in RefreshPc \cup {"ensure"}
  BY DEF RestPc, RefreshPc
<1>2. Svc(t) \in Service /\ TaskHome(t)
  BY <1>1, CallFacts
<1>3. /\ cached' = [cached EXCEPT ![Svc(t)] = c] /\ pinned' = [pinned EXCEPT ![Svc(t)] = p]
      /\ heap'[c] = [svc |-> Svc(t), portal |-> p, access |-> x]
      /\ \A o \in Referred \cap Client : heap'[o] = heap[o]
      /\ c \notin Referred
  BY DEF Build
<1>4. ASSUME NEW s \in Service, s = Svc(t)
      PROVE  ClientHome(s)'
  <2>1. cached'[s] = c /\ pinned'[s] = p
    BY <1>3, <1>4 DEF HomeInv, TypeInv, TypeOK
  <2>2. heap'[c].svc = s /\ heap'[c].portal = p /\ heap'[c].access = x
    BY <1>3, <1>4
  <2>3. QED
    BY <2>1, <2>2 DEF ClientHome
<1>5. ASSUME NEW s \in Service, s # Svc(t)
      PROVE  ClientHome(s)'
  <2>1. cached'[s] = cached[s] /\ pinned'[s] = pinned[s]
    BY <1>2, <1>3, <1>5 DEF HomeInv, TypeInv, TypeOK
  <2>2. cached[s] # NoId => heap'[cached[s]] = heap[cached[s]]
    BY <1>3 DEF Referred, HomeInv, TypeInv, TypeOK
  <2>3. QED
    BY <2>1, <2>2 DEF ClientHome, HomeInv
<1>6. TaskHome(t)'
  <2>1. /\ Send(t, c) /\ cached'[Svc(t)] = c /\ heap'[c].portal = p
        /\ pinned'[Svc(t)] = p
    BY <1>2, <1>3 DEF Build, HomeInv, TypeInv, TypeOK
  <2>2. task[t].kind = "reply" \/ Aimed(task[t]) => p = task[t].portal
    BY <1>1, <1>2 DEF TaskHome, AimHome, Aimed
  <2>3. QED
    BY <1>1, <2>1, <2>2, SendHome
<1>7. QED
  BY <1>4, <1>5, <1>6

LEMMA RestHome ==
    ASSUME HomeInv, OneRequest, NEW t \in Task, Rest(t)
    PROVE  HomeInv'
<1> USE DEF table
<1> DEFINE T == task[t]
<1>y. TypeInv'
  BY RestTypes DEF HomeInv
<1>r. T.pc \in RestPc
  BY DEF Rest, Resolve, Reuse, NotInstalled, Expiring, Load, SaveAndBuild, PostOk,
         PostRejected, NetError, Store, At, RestPc, RefreshPc
<1>c. /\ T \in TaskState /\ TaskOK(T) /\ TaskHome(t)
      /\ Svc(t) = Calls[T.kind][T.call].svc /\ Svc(t) \in Service
      /\ T.kind = "reply" => Svc(t) = "operator" /\ pinned["operator"] = T.portal
      /\ Calling(T) =>
            /\ cached[Svc(t)] = T.obj /\ T.obj \in Client
            /\ heap[T.obj] \in Object /\ heap[T.obj].svc = Svc(t)
            /\ heap[T.obj].portal = pinned[Svc(t)]
            /\ heap[T.obj].access # NoId /\ heap[T.obj].access[1] = pinned[Svc(t)]
  BY <1>r, CallFacts
<1>i. ~At(t, "idle") /\ T.portal \in Portal /\ T.call + 1 \in 1..5
  BY <1>r, CallTypes DEF HomeInv
<1>u. UNCHANGED services /\ UNCHANGED row /\ TaskHome(t)' => HomeInv'
  BY <1>y, ClientsKept, RowsKept, Assemble
<1>f. Failed(t) /\ UNCHANGED pinned => TaskHome(t)'
  BY <1>r, FailedHome
<1>1. CASE Resolve(t)
  <2>1. CASE Failed(t)
    BY <1>1, <2>1, <1>f, <1>u DEF Resolve, services
  <2>2. ASSUME NEW p \in Portal, T.kind = "reply" => p = T.portal,
               task' = [task EXCEPT ![t].target = p, ![t].pc = "ensure"]
        PROVE  TaskHome(t)'
    <3>1. /\ task'[t].pc = "ensure" /\ task'[t].target = p /\ task'[t].kind = T.kind
          /\ task'[t].call = T.call /\ task'[t].portal = T.portal
      BY <2>2, <1>c DEF HomeInv, TypeInv, TypeOK, TaskState
    <3>2. TokenHome(task[t])' /\ CallHome(task[t])'
      BY <3>1 DEF TokenHome, CallHome, Calling, RefreshPc
    <3>3. Aimed(T) => T.kind = "reply"
      BY <1>1, <1>c DEF Resolve, At, TaskHome, AimHome, Aimed
    <3>4. AimHome(task[t])'
      BY <1>1, <2>2, <3>1, <3>3, <1>c DEF Resolve, services, AimHome, Aimed, RefreshPc
    <3>5. QED
      BY <3>2, <3>4 DEF TaskHome
  <2>3. CASE \E p \in IF pinned[Svc(t)] # NoId THEN {pinned[Svc(t)]} ELSE MostRecent :
                task' = [task EXCEPT ![t].target = p, ![t].pc = "ensure"]
    <3>1. PICK p \in IF pinned[Svc(t)] # NoId THEN {pinned[Svc(t)]} ELSE MostRecent :
                  task' = [task EXCEPT ![t].target = p, ![t].pc = "ensure"]
      BY <2>3
    <3>2. p \in Portal
      BY <1>c DEF HomeInv, TypeInv, TypeOK, MostRecent, Installed
    <3>3. T.kind = "reply" => p = T.portal
      BY <1>c, <1>i, NullAssumption
    <3>4. QED
      BY <1>1, <3>1, <3>2, <3>3, <2>2, <1>u DEF Resolve
  <2>4. QED
    BY <1>1, <2>1, <2>3 DEF Resolve
<1>2. CASE Reuse(t)
  <2> DEFINE c == cached[Svc(t)]
  <2>1. c \in Client /\ c # NoId /\ pinned[Svc(t)] = T.target /\ T.pc = "ensure"
    BY <1>2, <1>c DEF Reuse, At, HomeInv, TypeInv, TypeOK
  <2>2. heap[c].portal = pinned[Svc(t)]
    BY <2>1, <1>c DEF HomeInv, ClientHome
  <2>3. T.kind = "reply" \/ Aimed(T) => T.target = T.portal
    BY <2>1, <1>c DEF TaskHome, AimHome, Aimed
  <2>4. cached'[Svc(t)] = c /\ heap'[c].portal = pinned'[Svc(t)] /\ pinned'[Svc(t)] = T.target
    BY <1>2, <2>1, <2>2 DEF Reuse, services
  <2>5. TaskHome(t)'
    BY <1>2, <2>1, <2>3, <2>4, <1>r, SendHome DEF Reuse
  <2>6. QED
    BY <1>2, <2>5, <1>u DEF Reuse
<1>3. CASE NotInstalled(t)
  <2>1. /\ cached' = [cached EXCEPT ![Svc(t)] = NoId] /\ UNCHANGED <<pinned, heap, row>>
        /\ Failed(t)
    BY <1>3 DEF NotInstalled
  <2>2. \A s \in Service : ClientHome(s)'
    BY <2>1 DEF HomeInv, ClientHome, TypeInv, TypeOK
  <2>3. QED
    BY <2>1, <2>2, <1>f, <1>y, RowsKept, Assemble
<1>4. CASE Expiring(t)
  <2>1. /\ task'[t].pc = "read" /\ task'[t].back = "build" /\ task'[t].target = T.target
        /\ task'[t].call = T.call /\ task'[t].portal = T.portal /\ task'[t].kind = T.kind
    BY <1>4, <1>c DEF Expiring, HomeInv, TypeInv, TypeOK, TaskState
  <2>2. TokenHome(task[t])' /\ CallHome(task[t])'
    BY <2>1 DEF TokenHome, CallHome, Calling, RefreshPc
  <2>3. AimHome(task[t])'
    BY <1>4, <2>1, <1>c, <1>r DEF Expiring, At, services, TaskHome, AimHome, Aimed, RefreshPc
  <2>4. QED
    BY <1>4, <2>2, <2>3, <1>u DEF Expiring, TaskHome
<1>5. ASSUME NEW c \in Client, Load(t, c)
      PROVE  HomeInv'
  <2>1. T.pc = "ensure" /\ T.target \in Portal
    BY <1>5, <1>c DEF Load, At, TaskOK
  <2>2. row[T.target].access # NoId /\ row[T.target].access[1] = T.target
    BY <1>5, <2>1 DEF Load, HomeInv, RowHome
  <2>3. (\A s \in Service : ClientHome(s)') /\ TaskHome(t)'
    BY <1>5, <2>1, <2>2, BuildHome DEF Load
  <2>4. QED
    BY <1>5, <2>3, <1>y, RowsKept, Assemble DEF Load
<1>6. ASSUME NEW c \in Client, SaveAndBuild(t, c)
      PROVE  HomeInv'
  <2> DEFINE r == [row[T.target] EXCEPT !.access = T.got, !.refresh = T.tok]
  <2>1. T.pc = "save" /\ T.target \in Portal /\ T.got # NoId /\ T.got[1] = T.target
    BY <1>6, <1>c DEF SaveAndBuild, At, TaskOK, RefreshPc, TaskHome, TokenHome
  <2>2. r \in Row /\ WriteRow(T.target, r) /\ r.access = T.got
    BY <1>6, <2>1, <1>c DEF SaveAndBuild, SaveRow, HomeInv, TypeInv, TypeOK, Row, TaskState
  <2>3. \A p \in Portal : RowHome(p)'
    <3> HIDE DEF r
    <3> QED
      BY <2>1, <2>2, RowWritten
  <2>4. (\A s \in Service : ClientHome(s)') /\ TaskHome(t)'
    BY <1>6, <2>1, BuildHome DEF SaveAndBuild
  <2>5. QED
    BY <2>3, <2>4, <1>y, Assemble
<1>7. CASE PostOk(t)
  <2>1. T.pc = "post" /\ UNCHANGED services
    BY <1>7 DEF PostOk, At
  <2>2. CASE T.kind \in {"event", "open"} /\ T.call = 1 /\ Goto(t, "store")
    <3>1. /\ task'[t].pc = "store" /\ task'[t].kind = T.kind /\ task'[t].portal = T.portal
          /\ task'[t].call = T.call /\ task'[t].obj = T.obj
      BY <2>2, GotoShape
    <3>2. Aimed(T)
      BY <2>2, CallsAim DEF Aimed
    <3>3. TokenHome(task[t])'
      BY <3>1 DEF TokenHome
    <3>4. CallHome(task[t])'
      BY <2>1, <3>1, <1>c DEF services, TaskHome, CallHome, Calling, RefreshPc
    <3>5. AimHome(task[t])'
      BY <2>1, <2>2, <3>1, <3>2, <1>c DEF services, TaskHome, AimHome, Aimed, RefreshPc
    <3>6. QED
      BY <1>7, <3>3, <3>4, <3>5, <1>u DEF PostOk, TaskHome
  <2>3. CASE Start(t, T.call + 1)
    <3>1. T.kind = "reply" => pinned'["operator"] = T.portal
      BY <2>1, <1>c DEF services
    <3>2. QED
      BY <1>7, <2>3, <3>1, <1>i, <1>u, StartHome DEF PostOk
  <2>4. QED
    BY <1>7, <2>2, <2>3 DEF PostOk
<1>8. CASE PostRejected(t)
  <2>1. T.pc = "post" /\ Calling(T) /\ UNCHANGED services /\ UNCHANGED row
    BY <1>8 DEF PostRejected, At, Calling
  <2>2. CASE Failed(t)
    BY <2>1, <2>2, <1>f, <1>u DEF services
  <2>3. CASE task' = [task EXCEPT ![t].pc = "read", ![t].back = "retry", ![t].again = TRUE,
                                  ![t].target = heap[task[t].obj].portal]
    <3>1. /\ task'[t].pc = "read" /\ task'[t].target = heap[T.obj].portal
          /\ task'[t].call = T.call /\ task'[t].portal = T.portal
          /\ task'[t].kind = T.kind /\ task'[t].obj = T.obj
      BY <2>3, <1>c DEF HomeInv, TypeInv, TypeOK, TaskState
    <3>2. TokenHome(task[t])'
      BY <3>1 DEF TokenHome
    <3>3. CallHome(task[t])'
      BY <2>1, <3>1, <1>c DEF services, CallHome
    <3>4. AimHome(task[t])'
      BY <2>1, <3>1, <1>c, <1>r DEF services, TaskHome, AimHome, Aimed, RefreshPc
    <3>5. QED
      BY <2>1, <3>2, <3>3, <3>4, <1>u DEF TaskHome
  <2>4. QED
    BY <1>8, <2>2, <2>3 DEF PostRejected
<1>9. CASE NetError(t)
  BY <1>9, <1>f, <1>u DEF NetError, services
<1>10. CASE Store(t)
  <2> DEFINE r == [row[T.portal] EXCEPT !.access = heap[T.obj].access]
  <2>1. T.pc = "store" /\ Calling(T) /\ UNCHANGED services
    BY <1>10 DEF Store, At, Calling
  <2>2. heap[T.obj].access # NoId /\ heap[T.obj].access[1] = T.portal
    BY <2>1, <1>c DEF TaskHome, AimHome
  <2>3. r \in Row /\ WriteRow(T.portal, r) /\ r.access = heap[T.obj].access
    BY <1>10, <2>1, <1>c, <1>i DEF Store, HomeInv, TypeInv, TypeOK, Row, Object
  <2>4. \A p \in Portal : RowHome(p)'
    <3> HIDE DEF r
    <3> QED
      BY <2>2, <2>3, <1>i, RowWritten
  <2>5. TaskHome(t)'
    <3>1. (T.kind = "reply" => pinned'["operator"] = T.portal) /\ Start(t, 2) /\ 2 \in 1..5
      BY <1>10, <2>1, <1>c DEF Store, services
    <3>2. QED
      BY <3>1, <1>i, StartHome
  <2>6. QED
    BY <2>1, <2>4, <2>5, <1>y, ClientsKept, Assemble
<1>11. QED
  BY <1>1, <1>2, <1>3, <1>4, <1>5, <1>6, <1>7, <1>8, <1>9, <1>10 DEF Rest

LEMMA RefreshHome ==
    ASSUME HomeInv, OneRequest, NEW t \in Task, Refresh(t)
    PROVE  HomeInv'
<1> USE DEF table
<1> DEFINE T == task[t]
<1>y. TypeInv'
  BY RefreshTypes DEF HomeInv
<1>r. T.pc \in RefreshPc /\ T.pc \in RestPc
  BY DEF Refresh, ReadGrant, Granted, GrantLost, GrantRefused, SaveAndRetry, Disable, At,
         RestPc, RefreshPc
<1>c. /\ T \in TaskState /\ TaskOK(T) /\ TaskHome(t)
      /\ Svc(t) = Calls[T.kind][T.call].svc /\ Svc(t) \in Service
      /\ T.kind = "reply" => Svc(t) = "operator" /\ pinned["operator"] = T.portal
      /\ Calling(T) =>
            /\ cached[Svc(t)] = T.obj /\ T.obj \in Client
            /\ heap[T.obj] \in Object /\ heap[T.obj].svc = Svc(t)
            /\ heap[T.obj].portal = pinned[Svc(t)]
            /\ heap[T.obj].access # NoId /\ heap[T.obj].access[1] = pinned[Svc(t)]
  BY <1>r, CallFacts
<1>p. T.target \in Portal /\ row[T.target] \in Row
  BY <1>r, <1>c DEF TaskOK, HomeInv, TypeInv, TypeOK
<1>u. UNCHANGED services /\ UNCHANGED row /\ TaskHome(t)' => HomeInv'
  BY <1>y, ClientsKept, RowsKept, Assemble
<1>f. Failed(t) /\ UNCHANGED services => TaskHome(t)'
  BY <1>r, FailedHome DEF services
\* Steps within the refresh keep the portal and the client.
<1>m. ASSUME UNCHANGED services, task'[t].pc \in RefreshPc,
             task'[t].portal = T.portal, task'[t].kind = T.kind, task'[t].call = T.call,
             task'[t].target = T.target, task'[t].obj = T.obj, task'[t].back = T.back,
             task'[t].pc = "save" => task'[t].got # NoId /\ task'[t].got[1] = T.target
      PROVE  TaskHome(t)'
  <2>1. TokenHome(task[t])'
    BY <1>m DEF TokenHome, RefreshPc
  <2>2. CallHome(task[t])'
    BY <1>m, <1>r, <1>c DEF services, TaskHome, CallHome, Calling, RefreshPc
  <2>3. AimHome(task[t])'
    BY <1>m, <1>r, <1>c DEF services, TaskHome, AimHome, Aimed, RefreshPc
  <2>4. QED
    BY <2>1, <2>2, <2>3 DEF TaskHome
<1>1. CASE ReadGrant(t)
  <2>1. /\ task'[t].pc = "grant" /\ task'[t].portal = T.portal
        /\ task'[t].kind = T.kind /\ task'[t].call = T.call
        /\ task'[t].target = T.target /\ task'[t].obj = T.obj /\ task'[t].back = T.back
    BY <1>1, <1>c DEF ReadGrant, HomeInv, TypeInv, TypeOK, TaskState
  <2>2. QED
    BY <1>1, <2>1, <1>m, <1>u DEF ReadGrant, RefreshPc
<1>2. CASE Granted(t)
  <2> DEFINE p == T.target
  <2>1. Fresh(p) # NoId /\ Fresh(p)[1] = p
    BY <1>p, NullAssumption, IssuedAssumption DEF Fresh, HomeInv, TypeInv, TypeOK
  <2>2. /\ task'[t].pc = "save" /\ task'[t].portal = T.portal
        /\ task'[t].kind = T.kind /\ task'[t].call = T.call
        /\ task'[t].target = T.target /\ task'[t].obj = T.obj /\ task'[t].back = T.back
        /\ task'[t].got = Fresh(p)
    BY <1>2, <1>c DEF Granted, HomeInv, TypeInv, TypeOK, TaskState
  <2>3. QED
    BY <1>2, <2>1, <2>2, <1>m, <1>u DEF Granted, RefreshPc
<1>3. CASE GrantLost(t)
  BY <1>3, <1>f, <1>u DEF GrantLost
<1>4. CASE GrantRefused(t)
  <2>1. /\ task'[t].pc = "disable" /\ task'[t].portal = T.portal
        /\ task'[t].kind = T.kind /\ task'[t].call = T.call
        /\ task'[t].target = T.target /\ task'[t].obj = T.obj /\ task'[t].back = T.back
    BY <1>4, GotoShape DEF GrantRefused
  <2>2. QED
    BY <1>4, <2>1, <1>m, <1>u DEF GrantRefused, RefreshPc
<1>5. CASE SaveAndRetry(t)
  <2> DEFINE r == [row[T.target] EXCEPT !.access = T.got, !.refresh = T.tok]
  <2>1. /\ T.pc = "save" /\ Calling(T) /\ T.got # NoId /\ T.got[1] = T.target
        /\ heap[T.obj].portal = T.target
    BY <1>5, <1>c, <1>r DEF SaveAndRetry, At, Calling, TaskHome, TokenHome, CallHome
  <2>2. r \in Row /\ WriteRow(T.target, r) /\ r.access = T.got
    BY <1>5, <1>p, <1>c DEF SaveAndRetry, SaveRow, Row, TaskState
  <2>3. \A p \in Portal : RowHome(p)'
    <3> HIDE DEF r
    <3> QED
      BY <2>1, <2>2, <1>p, RowWritten
  <2>4. /\ \A s \in Service : pinned'[s] = pinned[s]
        /\ \A s \in Service : cached'[s] = cached[s]
        /\ heap'[T.obj].svc = Svc(t) /\ heap'[T.obj].portal = T.target
        /\ heap'[T.obj].access = T.got
        /\ \A o \in Client \ {T.obj} : heap'[o] = heap[o]
    BY <1>5, <2>1, <1>c DEF SaveAndRetry, HomeInv, TypeInv, TypeOK, Object
  <2>5. ASSUME NEW s \in Service
        PROVE  ClientHome(s)'
    <3>1. CASE cached[s] = T.obj
      BY <3>1, <2>1, <2>4, <1>c DEF HomeInv, ClientHome
    <3>2. CASE cached[s] # T.obj
      BY <3>2, <2>4 DEF HomeInv, ClientHome, TypeInv, TypeOK
    <3>3. QED
      BY <3>1, <3>2
  <2>6. TaskHome(t)'
    <3>1. T.kind = "reply" \/ Aimed(T) => T.target = T.portal
      BY <1>r, <1>c DEF TaskHome, AimHome, Aimed
    <3>2. /\ Send(t, T.obj) /\ cached'[Svc(t)] = T.obj
          /\ pinned'[Svc(t)] = T.target /\ heap'[T.obj].portal = pinned'[Svc(t)]
      BY <1>5, <2>1, <2>4, <1>c DEF SaveAndRetry
    <3>3. QED
      BY <3>1, <3>2, <2>1, <1>r, <1>c, SendHome
  <2>7. QED
    BY <2>3, <2>5, <2>6, <1>y, Assemble
<1>6. CASE Disable(t)
  <2> DEFINE r == [row[T.target] EXCEPT !.status = "DISABLED"]
  <2>1. /\ r \in Row /\ WriteRow(T.target, r) /\ r.access = row[T.target].access
        /\ r.status # "INSTALLED"
    BY <1>6, <1>p DEF Disable, Row, Status
  <2>2. \A p \in Portal : RowHome(p)'
    <3> HIDE DEF r
    <3> QED
      BY <2>1, <1>p, RowWritten DEF HomeInv, RowHome
  <2>3. QED
    BY <1>6, <2>2, <1>f, <1>y, ClientsKept, Assemble DEF Disable
<1>7. QED
  BY <1>1, <1>2, <1>3, <1>4, <1>5, <1>6 DEF Refresh

LEMMA HomeInit == Init => HomeInv
<1> SUFFICES ASSUME Init PROVE HomeInv
  OBVIOUS
<1>1. \A s \in Service : ClientHome(s)
  BY DEF Init, ClientHome
<1>2. \A p \in Portal : RowHome(p)
  BY DEF Init, NoRow, RowHome
<1>3. \A t \in Task : TokenHome(task[t]) /\ CallHome(task[t]) /\ AimHome(task[t])
  BY DEF Init, IdleTask, Request, TokenHome, CallHome, Calling, AimHome, RestPc, RefreshPc
<1>4. QED
  BY <1>1, <1>2, <1>3, TypeInit DEF HomeInv

LEMMA HomeStep == OneRequest /\ HomeInv /\ [Next]_vars => HomeInv'
<1> SUFFICES ASSUME OneRequest, HomeInv, [Next]_vars PROVE HomeInv'
  OBVIOUS
<1>y. TypeInv'
  BY TypeStep DEF HomeInv
<1>1. ASSUME NEW t \in Task, Begin(t) \/ Prepare(t) \/ Rest(t) \/ Refresh(t)
      PROVE  HomeInv'
  BY <1>1, BeginHome, PrepareHome, RestHome, RefreshHome
<1>2. CASE UNCHANGED <<row, services, task>>
  BY <1>2, <1>y DEF services, HomeInv, ClientHome, RowHome, TokenHome, CallHome, AimHome
<1>3. CASE Restart
  <2>1. \A s \in Service : ClientHome(s)'
    BY <1>3 DEF Restart, ClientHome
  <2>2. \A p \in Portal : RowHome(p)'
    BY <1>3, RowsKept DEF Restart, table
  <2>3. \A t \in Task : (TokenHome(task[t]) /\ CallHome(task[t]) /\ AimHome(task[t]))'
    BY <1>3 DEF Restart, IdleTask, Request, TokenHome, CallHome, Calling, AimHome, RestPc,
                RefreshPc
  <2>4. QED
    BY <2>1, <2>2, <2>3, <1>y DEF HomeInv
<1>4. QED
  BY <1>1, <1>2, <1>3 DEF Next, Expire, table, vars

\* With one request at a time every call that is given its portal, and every call of a
\* reply, goes to that portal (PinnedCallsStay): activate, _resolveMemberId,
\* _ensureOAuthClient and the retry of a rejected call agree on it.
THEOREM OneRequestIsPinned == OneRequest => (Spec => []PinnedCallsStay)
<1> SUFFICES ASSUME OneRequest PROVE Spec => []PinnedCallsStay
  OBVIOUS
<1>1. HomeInv => PinnedCallsStay
  BY DEF HomeInv, PinnedCallsStay, AimHome, Aimed, At, This
<1>2. HomeInv /\ [Next]_vars => HomeInv'
  BY HomeStep
<1>3. QED
  BY <1>1, <1>2, HomeInit, PTL DEF Spec

\* With one request at a time the tokens of a portal are in its row and in clients for it,
\* and a service's client is of the portal that it is pinned to (TokensStayHome).
THEOREM OneRequestKeepsTokensHome == OneRequest => (Spec => []TokensStayHome)
<1> SUFFICES ASSUME OneRequest PROVE Spec => []TokensStayHome
  OBVIOUS
<1>1. HomeInv => TokensStayHome
  BY DEF HomeInv, TokensStayHome, ClientHome, RowHome
<1>2. HomeInv /\ [Next]_vars => HomeInv'
  BY HomeStep
<1>3. QED
  BY <1>1, <1>2, HomeInit, PTL DEF Spec

-----------------------------------------------------------------------------
(***************************************************************************)
(* When requests are handled one at a time, no portal loses the use of its  *)
(* app by what the middleware does with its tokens: a refresh token that    *)
(* serves is neither replaced by one that does not nor given up, and an     *)
(* access token is not replaced by an older one.                            *)
(***************************************************************************)

\* Tokens that are stored, or still accepted, were issued.
RowKnown(p) ==
    /\ row[p].access # NoId => row[p].access[2] <= issued[p]
    /\ row[p].refresh # NoId => row[p].refresh[1] = p /\ row[p].refresh[2] <= issued[p]
GrantsKnown == \A x \in grants : x[2] <= issued[x[1]]

\* A request is about to store the pair that it came with, or that it was granted.
Bringing(t, p) ==
    \/ At(t, "upsert") /\ task[t].portal = p
    \/ At(t, "save") /\ task[t].target = p

\* The refresh token of a disabled install is refused, and that of an installed one is
\* accepted, unless its successor is on its way or was lost.
RowKept(p) ==
    /\ row[p].status = "DISABLED" => row[p].refresh \notin grants
    /\ row[p].status = "INSTALLED" /\ p \in present \ lost =>
          row[p].refresh \in grants \/ \E t \in Task : Bringing(t, p)

\* What a request is about to store is the newest of its portal, and what it has read of
\* a row is still there.
Holding(T) ==
    /\ T.pc = "upsert" \/ (T.kind = "reply" /\ T.pc \in {"verify", "activate", "rotate"}) =>
          T.tok[2] = issued[T.portal]
    /\ T.pc = "upsert" => T.tok \in grants
    /\ T.pc \in {"grant", "disable"} => T.tok = row[T.target].refresh
    /\ T.pc = "disable" => T.tok \notin grants
    /\ T.pc = "save" => /\ T.got[2] = issued[T.target]
                        /\ T.tok \in grants /\ T.tok[1] = T.target
                        /\ row[T.target].status # "DISABLED"

\* The client whose token confirmInstall writes back has the token of the row.
Confirming(T) == T.kind \in {"event", "open"} /\ T.call = 1 /\ T.pc \in RestPc
ConfirmOK(T) ==
    /\ T.pc = "store" => Confirming(T)
    /\ Confirming(T) =>
          /\ ~Calling(T) => cached["install"] = NoId
          /\ Calling(T) => heap[T.obj].access = row[T.portal].access

RowsOK == GrantsKnown /\ \A p \in Portal : RowKnown(p) /\ RowKept(p)
TaskKeeps(t) == Holding(task[t]) /\ ConfirmOK(task[t])
KeepInv == HomeInv /\ RowsOK /\ \A t \in Task : TaskKeeps(t)

\* The facts about one request at a time.
LEMMA OnlyOne ==
    ASSUME OneRequest, NEW t \in Task, TaskKeeps(t)'
    PROVE  \A u \in Task : TaskKeeps(u)'
BY DEF OneRequest

\* A token that is accepted is one, and is not null; a stored one neither.
LEMMA TokenFacts ==
    ASSUME TypeInv
    PROVE  /\ NoId \notin Token /\ NoId \notin grants
           /\ \A x \in Token : x[1] \in Portal /\ x[2] \in Nat
           /\ \A p \in Portal : /\ row[p] \in Row /\ row[p].access \in TokenId
                                /\ row[p].refresh \in TokenId /\ issued[p] \in Nat
<1>1. NoId \notin Token
  BY NullAssumption, IssuedAssumption DEF Token
<1>2. \A x \in Token : x[1] \in Portal /\ x[2] \in Nat
  BY IssuedAssumption DEF Token
<1>3. \A p \in Portal : /\ row[p] \in Row /\ row[p].access \in TokenId
                        /\ row[p].refresh \in TokenId /\ issued[p] \in Nat
  BY IssuedAssumption DEF TypeInv, TypeOK, Row
<1>4. QED
  BY <1>1, <1>2, <1>3 DEF TypeInv, TypeOK

\* Steps that write no row, and change nothing at Bitrix24, keep what is known of rows,
\* when no pair is on its way.
LEMMA RowsSame ==
    ASSUME RowsOK, NEW t \in Task, OneRequest, task[t].pc \notin {"upsert", "save"},
           UNCHANGED row, UNCHANGED <<present, issued, grants, lost>>
    PROVE  RowsOK'
<1>1. \A u \in Task, p \in Portal : ~Bringing(u, p)
  BY DEF OneRequest, Bringing, At
<1>2. \A p \in Portal : RowKnown(p)'
  BY DEF RowsOK, RowKnown
<1>3. GrantsKnown'
  BY DEF RowsOK, GrantsKnown
<1>4. \A p \in Portal : RowKept(p)'
  BY <1>1 DEF RowsOK, RowKept
<1>5. QED
  BY <1>2, <1>3, <1>4 DEF RowsOK

\* A row is written by the request that has its tokens.
LEMMA RowsWritten ==
    ASSUME TypeInv, RowsOK, NEW t \in Task, OneRequest, NEW p \in Portal, NEW r \in Row,
           WriteRow(p, r), UNCHANGED <<present, issued, grants>>, lost \ {p} \subseteq lost',
           task[t].pc = "upsert" => task[t].portal = p,
           task[t].pc = "save" => task[t].target = p,
           r.access # NoId => r.access[2] <= issued[p],
           r.refresh # NoId => r.refresh[1] = p /\ r.refresh[2] <= issued[p],
           r.status = "DISABLED" => r.refresh \notin grants,
           r.status = "INSTALLED" /\ p \in present \ lost' => r.refresh \in grants
    PROVE  RowsOK'
<1>1. row'[p] = r /\ \A q \in Portal : q # p => row'[q] = row[q]
  BY DEF WriteRow, TypeInv, TypeOK
<1>2. \A u \in Task, q \in Portal : q # p => ~Bringing(u, q)
  BY DEF OneRequest, Bringing, At
<1>3. GrantsKnown'
  BY DEF RowsOK, GrantsKnown
<1>4. ASSUME NEW q \in Portal PROVE RowKnown(q)' /\ RowKept(q)'
  <2>1. CASE q = p
    <3>1. RowKnown(q)'
      BY <1>1, <2>1 DEF RowKnown
    <3>2. RowKept(q)'
      BY <1>1, <2>1 DEF RowKept
    <3>3. QED
      BY <3>1, <3>2
  <2>2. CASE q # p
    <3>1. RowKnown(q) /\ RowKept(q)
      BY DEF RowsOK
    <3>2. RowKnown(q)'
      BY <1>1, <2>2, <3>1 DEF RowKnown
    <3>3. RowKept(q)'
      BY <1>1, <1>2, <2>2, <3>1 DEF RowKept
    <3>4. QED
      BY <3>2, <3>3
  <2>3. QED
    BY <2>1, <2>2
<1>5. QED
  BY <1>3, <1>4 DEF RowsOK

\* What a new token of p changes: nothing for the others, and it is no stored one.
LEMMA IssuedAnew ==
    ASSUME TypeInv, RowsOK, NEW p \in Portal, UNCHANGED row,
           IssuePair(p) \/ (IssueAccess(p) /\ UNCHANGED grants)
    PROVE  /\ GrantsKnown' /\ \A q \in Portal : RowKnown(q)'
           /\ \A q \in Portal : row[q].status = "DISABLED" => row[q].refresh \notin grants'
           /\ \A q \in Portal : q # p /\ row[q].refresh \in grants => row[q].refresh \in grants'
           /\ issued'[p] = issued[p] + 1 /\ Fresh(p)[1] = p /\ Fresh(p)[2] = issued'[p]
           /\ IssuePair(p) => Fresh(p) \in grants'
<1>1. /\ issued'[p] = issued[p] + 1 /\ issued[p] \in Nat
      /\ \A q \in Portal : q # p => issued'[q] = issued[q]
      /\ \A q \in Portal : issued[q] \in Nat
  BY TokenFacts DEF IssuePair, IssueAccess, TypeInv, TypeOK
<1>2. \A q \in Portal : issued'[q] >= issued[q] /\ issued'[q] \in Nat
  BY <1>1
<1>3. Fresh(p)[1] = p /\ Fresh(p)[2] = issued'[p]
  BY <1>1 DEF Fresh
<1>4. grants' = grants \/ grants' = (grants \ Of(p, grants)) \cup {Fresh(p)}
  BY DEF IssuePair
<1>5. GrantsKnown'
  <2> SUFFICES ASSUME NEW x \in grants' PROVE x[2] <= issued'[x[1]]
    BY DEF GrantsKnown
  <2>1. CASE x \in grants
    <3>1. x[1] \in Portal /\ x[2] \in Nat /\ x[2] <= issued[x[1]]
      BY <2>1, TokenFacts DEF TypeInv, TypeOK, RowsOK, GrantsKnown
    <3>2. QED
      BY <3>1, <1>1, <1>2
  <2>2. CASE x = Fresh(p)
    BY <2>2, <1>1, <1>3
  <2>3. QED
    BY <1>4, <2>1, <2>2
<1>6. ASSUME NEW q \in Portal PROVE RowKnown(q)'
  <2>1. RowKnown(q) /\ row[q].access \in TokenId /\ row[q].refresh \in TokenId
    BY TokenFacts DEF RowsOK
  <2>2. \A x \in TokenId : x # NoId => x[2] \in Nat
    BY TokenFacts DEF TokenId
  <2>3. QED
    BY <2>1, <2>2, <1>1, <1>2 DEF RowKnown
<1>7. ASSUME NEW q \in Portal PROVE row[q].refresh # Fresh(p)
  <2>1. CASE row[q].refresh = NoId
    <3>1. Fresh(p) # NoId
      BY <1>1, NullAssumption DEF Fresh
    <3>2. QED
      BY <2>1, <3>1
  <2>2. CASE row[q].refresh # NoId
    <3>1. row[q].refresh[1] = q /\ row[q].refresh[2] <= issued[q] /\ row[q].refresh[2] \in Nat
      BY <2>2, TokenFacts DEF RowsOK, RowKnown, TokenId
    <3>2. QED
      BY <3>1, <1>1, <1>3
  <2>3. QED
    BY <2>1, <2>2
<1>8. \A q \in Portal : row[q].status = "DISABLED" => row[q].refresh \notin grants'
  BY <1>4, <1>7 DEF RowsOK, RowKept, Of
<1>9. ASSUME NEW q \in Portal, q # p, row[q].refresh \in grants PROVE row[q].refresh \in grants'
  <2>1. row[q].refresh # NoId /\ row[q].refresh[1] = q
    BY <1>9, TokenFacts DEF RowsOK, RowKnown
  <2>2. QED
    BY <1>4, <1>9, <2>1 DEF Of
<1>10. QED
  BY <1>1, <1>3, <1>5, <1>6, <1>8, <1>9 DEF IssuePair

\* A request that has begun, or ended, or goes on to a later call, holds nothing.
LEMMA StartShape ==
    ASSUME TypeInv, NEW t \in Task, NEW n \in 1..5, Start(t, n)
    PROVE  \/ task'[t].pc = "idle"
           \/ task'[t].pc \in {"ensure", "resolve"} /\ task'[t].kind = task[t].kind
              /\ task'[t].call = n
<1>1. task'[t] = AtCall(task[t], n)
  BY DEF Start, TypeInv, TypeOK
<1>2. CASE n > Len(Calls[task[t].kind])
  <2>1. task'[t] = IdleTask
    BY <1>2, <1>1 DEF AtCall
  <2>2. QED
    BY <2>1 DEF IdleTask, Request
<1>3. CASE ~(n > Len(Calls[task[t].kind])) /\ Calls[task[t].kind][n].to = "own"
  <2>1. task'[t] = Request("ensure", task[t].kind, task[t].portal, NoId, n, task[t].portal)
    BY <1>3, <1>1 DEF AtCall
  <2>2. QED
    BY <2>1 DEF Request
<1>4. CASE ~(n > Len(Calls[task[t].kind])) /\ Calls[task[t].kind][n].to # "own"
  <2>1. task'[t] = Request("resolve", task[t].kind, task[t].portal, NoId, n, NoId)
    BY <1>4, <1>1 DEF AtCall
  <2>2. QED
    BY <2>1 DEF Request
<1>5. QED
  BY <1>2, <1>3, <1>4

LEMMA StartKeeps ==
    ASSUME TypeInv, NEW t \in Task, NEW n \in 1..5, Start(t, n),
           n # 1 \/ task[t].kind \notin {"event", "open"} \/ cached'["install"] = NoId
    PROVE  TaskKeeps(t)'
<1>1. \/ task'[t].pc = "idle"
      \/ task'[t].pc \in {"ensure", "resolve"} /\ task'[t].kind = task[t].kind
         /\ task'[t].call = n
  BY StartShape
<1>2. Holding(task[t])'
  BY <1>1 DEF Holding
<1>3. ConfirmOK(task[t])'
  BY <1>1 DEF ConfirmOK, Confirming, Calling, RestPc, RefreshPc
<1>4. QED
  BY <1>2, <1>3 DEF TaskKeeps

LEMMA FailedKeeps ==
    ASSUME TypeInv, NEW t \in Task, task[t].pc \in RestPc, Failed(t)
    PROVE  TaskKeeps(t)'
<1>1. task[t].call + 1 \in 1..5 /\ task[t].call + 1 # 1 /\ 5 \in 1..5
  BY CallTypes
<1>2. \E n \in 1..5 : Start(t, n) /\ n # 1
  BY <1>1 DEF Failed
<1>3. QED
  BY <1>2, StartKeeps

LEMMA EndKeeps ==
    ASSUME TypeInv, NEW t \in Task, task' = [task EXCEPT ![t] = IdleTask]
    PROVE  TaskKeeps(t)'
<1>1. task'[t] = IdleTask
  BY DEF TypeInv, TypeOK
<1>2. QED
  BY <1>1 DEF IdleTask, Request, TaskKeeps, Holding, ConfirmOK, Confirming, RestPc, RefreshPc

\* The first call of an install is app.info, of its own service for its own portal.
LEMMA ConfirmAims ==
    \A k \in {"event", "open"} : Calls[k][1].svc = "install" /\ Calls[k][1].to = "own"
<1>1. \A k \in {"event", "open"} :
         Calls[k] = <<Call("install", "own"), Call("install", "own"),
                      Call("provision", "pinned"), Call("provision", "own")>>
  BY DEF Calls, Kind
<1>2. QED
  BY <1>1 DEF Call

\* A request of an install, an operator or an uninstall.
LEMMA BeginKeeps ==
    ASSUME KeepInv, OneRequest, NEW t \in Task, Begin(t)
    PROVE  RowsOK' /\ TaskKeeps(t)'
<1>1. PICK p \in Portal : (\E k \in Kind : BeginInstall(t, k, p)) \/ BeginReply(t, p)
                            \/ BeginUninstall(t, p)
  BY DEF Begin
<1>t. TypeInv /\ RowsOK
  BY DEF KeepInv, HomeInv
<1>2. UNCHANGED <<row, lost>> /\ task[t].pc = "idle"
  BY <1>1 DEF BeginInstall, BeginReply, BeginUninstall, table, At
<1>3. \A u \in Task, q \in Portal : ~Bringing(u, q)
  BY <1>2 DEF OneRequest, Bringing, At
<1>4. ASSUME NEW k \in Kind, NEW x, Arrive(t, k, p, x),
             k # "uninstall" => x[2] = issued'[p],
             k \notin {"reply", "uninstall"} => x \in grants'
      PROVE  TaskKeeps(t)' /\ (k \notin {"reply", "uninstall"} => Bringing(t, p)')
  <2>1. task'[t] = Request(IF k \in {"reply", "uninstall"} THEN "verify" ELSE "upsert",
                           k, p, x, 0, NoId)
    BY <1>4, <1>t DEF Arrive, TypeInv, TypeOK
  <2>2. /\ task'[t].kind = k /\ task'[t].portal = p /\ task'[t].tok = x
        /\ task'[t].pc = IF k \in {"reply", "uninstall"} THEN "verify" ELSE "upsert"
    BY <2>1 DEF Request
  <2>3. Holding(task[t])'
    BY <2>2, <1>4 DEF Holding
  <2>4. ConfirmOK(task[t])'
    BY <2>2 DEF ConfirmOK, Confirming, RestPc, RefreshPc
  <2>5. QED
    BY <2>2, <2>3, <2>4 DEF TaskKeeps, Bringing, At
<1>5. ASSUME NEW k \in Kind, BeginInstall(t, k, p) PROVE RowsOK' /\ TaskKeeps(t)'
  <2>1. /\ GrantsKnown' /\ \A q \in Portal : RowKnown(q)'
        /\ \A q \in Portal : row[q].status = "DISABLED" => row[q].refresh \notin grants'
        /\ \A q \in Portal : q # p /\ row[q].refresh \in grants => row[q].refresh \in grants'
        /\ Fresh(p)[2] = issued'[p] /\ Fresh(p) \in grants'
    BY <1>2, <1>5, <1>t, IssuedAnew DEF BeginInstall
  <2>2. TaskKeeps(t)' /\ Bringing(t, p)'
    BY <1>5, <2>1, <1>4 DEF BeginInstall
  <2>3. \A q \in Portal : RowKept(q)'
    BY <1>2, <1>3, <1>5, <1>t, <2>1, <2>2 DEF BeginInstall, RowsOK, RowKept
  <2>4. QED
    BY <2>1, <2>2, <2>3 DEF RowsOK
<1>6. CASE BeginReply(t, p)
  <2>1. /\ GrantsKnown' /\ (\A q \in Portal : RowKnown(q)') /\ Fresh(p)[2] = issued'[p]
    BY <1>2, <1>6, <1>t, IssuedAnew DEF BeginReply
  <2>2. TaskKeeps(t)'
    BY <1>6, <2>1, <1>4 DEF BeginReply, Kind
  <2>3. \A q \in Portal : RowKept(q)'
    BY <1>2, <1>3, <1>6, <1>t DEF BeginReply, RowsOK, RowKept
  <2>4. QED
    BY <2>1, <2>2, <2>3 DEF RowsOK
<1>7. CASE BeginUninstall(t, p)
  <2>1. TaskKeeps(t)'
    BY <1>7, <1>4 DEF BeginUninstall, Kind
  <2>2. grants' = grants \ Of(p, grants) /\ present' = present \ {p} /\ issued' = issued
    BY <1>7 DEF BeginUninstall
  <2>3. GrantsKnown' /\ \A q \in Portal : RowKnown(q)'
    BY <2>2, <1>2, <1>t DEF RowsOK, GrantsKnown, RowKnown
  <2>4. ASSUME NEW q \in Portal PROVE RowKept(q)'
    <3>1. RowKept(q) /\ RowKnown(q)
      BY <1>t DEF RowsOK
    <3>2. q # p /\ row[q].refresh \in grants => row[q].refresh \in grants'
      BY <2>2, <3>1, <1>t, TokenFacts DEF RowKnown, Of
    <3>3. QED
      BY <1>2, <1>3, <2>2, <3>1, <3>2 DEF RowKept
  <2>5. QED
    BY <2>1, <2>3, <2>4 DEF RowsOK
<1>8. QED
  BY <1>1, <1>5, <1>6, <1>7

\* Before its calls a request stores the tokens it came with, or removes the install.
LEMMA PrepareKeeps ==
    ASSUME KeepInv, OneRequest, NEW t \in Task, Prepare(t)
    PROVE  RowsOK' /\ TaskKeeps(t)'
<1> USE DEF table, bitrix24
<1> DEFINE T == task[t]
<1>t. TypeInv /\ HomeInv /\ RowsOK /\ TaskKeeps(t)
  BY DEF KeepInv, HomeInv
<1>k. T \in TaskState /\ TaskOK(T) /\ TokenHome(T)
  BY <1>t DEF TypeInv, TypeOK, HomeInv
<1>p. ~At(t, "idle") =>
         /\ T.portal \in Portal /\ row[T.portal] \in Row
         /\ RowKnown(T.portal) /\ RowKept(T.portal) /\ issued[T.portal] \in Nat
  BY <1>t, <1>k, TokenFacts DEF At, TaskOK, RowsOK
<1>w. T.pc # "save"
  BY DEF Prepare, Upsert, Verify, Leave, Activate, Rotate, Remove, Unpin, At
<1>b. T.pc # "upsert" => \A u \in Task, q \in Portal : ~Bringing(u, q)
  BY <1>w DEF OneRequest, Bringing, At
<1>g. ASSUME NEW pc \in {"activate", "refused", "remove", "rotate", "unpin"}, Goto(t, pc),
             UNCHANGED bitrix24,
             pc \in {"activate", "rotate"} /\ T.kind = "reply" => T.tok[2] = issued[T.portal]
      PROVE  TaskKeeps(t)'
  <2>1. /\ task'[t].pc = pc /\ task'[t].kind = T.kind /\ task'[t].portal = T.portal
        /\ task'[t].tok = T.tok
    BY <1>g, <1>t, GotoShape
  <2>2. Holding(task[t])'
    BY <2>1, <1>g DEF Holding
  <2>3. ConfirmOK(task[t])'
    BY <2>1, <1>g DEF ConfirmOK, Confirming, RestPc, RefreshPc
  <2>4. QED
    BY <2>2, <2>3 DEF TaskKeeps
<1>1. CASE Upsert(t)
  <2> DEFINE r == [status |-> "INSTALLED", access |-> T.tok, refresh |-> T.tok,
                   app |-> T.kind = "event"]
  <2>1. /\ T.pc = "upsert" /\ ~At(t, "idle") /\ T.tok # NoId /\ T.tok[1] = T.portal
        /\ T.tok[2] = issued[T.portal] /\ T.tok \in grants
    BY <1>1, <1>k, <1>t DEF Upsert, At, TokenHome, TaskKeeps, Holding
  <2>2. /\ r \in Row /\ WriteRow(T.portal, r) /\ r.access = T.tok /\ r.refresh = T.tok
        /\ r.status = "INSTALLED" /\ lost' = lost \ {T.portal}
    BY <1>1, <1>k DEF Upsert, Row, Status, TaskState
  <2>3. RowsOK'
    <3>1. UNCHANGED <<present, issued, grants>>
      BY <1>1 DEF Upsert
    <3> HIDE DEF r
    <3>2. QED
      BY <3>1, <2>1, <2>2, <1>p, <1>t, RowsWritten
  <2>4. TaskKeeps(t)'
    <3>1. CASE T.kind = "placement" /\ Start(t, 1)
      <4>1. 1 \in 1..5 /\ T.kind \notin {"event", "open"}
        BY <3>1
      <4>2. QED
        BY <3>1, <4>1, <1>t, StartKeeps
    <3>2. CASE Goto(t, "activate")
      BY <1>1, <3>2, <2>1, <1>g DEF Upsert
    <3>3. QED
      BY <1>1, <3>1, <3>2 DEF Upsert
  <2>5. QED
    BY <2>3, <2>4
<1>2. CASE Verify(t)
  <2>1. T.pc = "verify" /\ UNCHANGED <<row, bitrix24, lost>>
    BY <1>2 DEF Verify, At
  <2>2. RowsOK'
    BY <2>1, <1>t, RowsSame
  <2>3. CASE T.kind = "reply" /\ Goto(t, "activate")
    BY <2>1, <2>2, <2>3, <1>g, <1>t DEF TaskKeeps, Holding
  <2>4. CASE Goto(t, "remove") \/ Goto(t, "refused")
    BY <2>1, <2>2, <2>4, <1>g
  <2>5. CASE task' = [task EXCEPT ![t] = IdleTask]
    BY <2>2, <2>5, <1>t, EndKeeps
  <2>6. QED
    BY <1>2, <2>3, <2>4, <2>5 DEF Verify
<1>3. CASE Leave(t)
  <2>1. T.pc \notin {"upsert", "save"} /\ UNCHANGED <<row, bitrix24, lost>>
    BY <1>3 DEF Leave, At
  <2>2. RowsOK'
    BY <2>1, <1>t, RowsSame
  <2>3. QED
    BY <1>3, <2>2, <1>t, EndKeeps DEF Leave
<1>4. CASE Activate(t)
  <2>1. T.pc = "activate" /\ UNCHANGED <<row, bitrix24, lost>>
    BY <1>4 DEF Activate, At
  <2>2. RowsOK'
    BY <2>1, <1>t, RowsSame
  <2>3. CASE T.kind = "reply"
    <3>1. Goto(t, "rotate")
      BY <1>4, <2>3 DEF Activate
    <3>2. QED
      BY <2>1, <2>2, <2>3, <3>1, <1>g, <1>t DEF TaskKeeps, Holding
  <2>4. CASE T.kind # "reply"
    <3>1. Pin("install", T.portal) /\ Start(t, 1) /\ 1 \in 1..5
      BY <1>4, <2>4 DEF Activate
    <3>2. cached'["install"] = NoId
      BY <3>1, <1>t DEF Pin, TypeInv, TypeOK, Service
    <3>3. QED
      BY <2>2, <3>1, <3>2, <1>t, StartKeeps
  <2>5. QED
    BY <2>3, <2>4
<1>5. CASE Rotate(t)
  <2> DEFINE r == [row[T.portal] EXCEPT !.access = T.tok]
  <2>1. /\ T.pc = "rotate" /\ ~At(t, "idle") /\ T.kind = "reply" /\ T.tok # NoId
        /\ T.tok[2] = issued[T.portal]
    BY <1>5, <1>k, <1>t DEF Rotate, At, TokenHome, TaskKeeps, Holding
  <2>2. /\ r \in Row /\ WriteRow(T.portal, r) /\ r.access = T.tok
        /\ r.refresh = row[T.portal].refresh /\ r.status = row[T.portal].status
    BY <1>5, <2>1, <1>p, <1>k DEF Rotate, Row, TaskState
  <2>3. RowsOK'
    <3>1. UNCHANGED <<present, issued, grants, lost>>
      BY <1>5 DEF Rotate
    <3> HIDE DEF r
    <3>2. QED
      BY <3>1, <2>1, <2>2, <1>b, <1>p, <1>t, RowsWritten DEF RowKnown, RowKept
  <2>4. TaskKeeps(t)'
    <3>1. \E n \in 1..5 : Start(t, n)
      BY <1>5 DEF Rotate
    <3>2. QED
      BY <3>1, <2>1, <1>t, StartKeeps
  <2>5. QED
    BY <2>3, <2>4
<1>6. CASE Remove(t)
  <2> DEFINE r == [row[T.portal] EXCEPT !.status = "UNINSTALLED"]
  <2>1. T.pc = "remove" /\ ~At(t, "idle")
    BY <1>6 DEF Remove, At
  <2>2. /\ r \in Row /\ WriteRow(T.portal, r) /\ r.access = row[T.portal].access
        /\ r.refresh = row[T.portal].refresh /\ r.status = "UNINSTALLED"
    BY <1>6, <2>1, <1>p DEF Remove, Row, Status
  <2>3. RowsOK'
    <3>1. UNCHANGED <<present, issued, grants, lost>>
      BY <1>6 DEF Remove
    <3> HIDE DEF r
    <3>2. QED
      BY <3>1, <2>1, <2>2, <1>p, <1>t, RowsWritten DEF RowKnown
  <2>4. QED
    BY <1>6, <2>3, <1>g DEF Remove
<1>7. CASE Unpin(t)
  <2>1. T.pc = "unpin" /\ UNCHANGED <<row, bitrix24, lost>>
    BY <1>7 DEF Unpin, At
  <2>2. RowsOK'
    BY <2>1, <1>t, RowsSame
  <2>3. QED
    BY <1>7, <2>2, <1>t, EndKeeps DEF Unpin
<1>8. QED
  BY <1>1, <1>2, <1>3, <1>4, <1>5, <1>6, <1>7 DEF Prepare

\* A request that posts holds nothing; what an install posts with, to be confirmed, has
\* the token of the row.
LEMMA SendKeeps ==
    ASSUME HomeInv, NEW t \in Task, NEW c \in Client, Send(t, c),
           task[t].kind \in {"event", "open"} /\ task[t].call = 1 =>
              heap'[c].access = row'[task[t].portal].access
    PROVE  TaskKeeps(t)'
<1>1. /\ task'[t].pc = "post" /\ task'[t].obj = c /\ task'[t].kind = task[t].kind
      /\ task'[t].call = task[t].call /\ task'[t].portal = task[t].portal
  BY SendShape
<1>2. QED
  BY <1>1 DEF TaskKeeps, Holding, ConfirmOK, Confirming, Calling

\* What is known of a request that is within a call.
LEMMA KeepFacts ==
    ASSUME KeepInv, NEW t \in Task, task[t].pc \in RestPc
    PROVE  /\ TypeInv /\ HomeInv /\ RowsOK /\ TaskKeeps(t)
           /\ task[t] \in TaskState /\ TaskOK(task[t])
           /\ task[t].portal \in Portal
           /\ task[t].pc \in RefreshPc \cup {"ensure"} =>
                 /\ task[t].target \in Portal /\ row[task[t].target] \in Row
                 /\ RowKnown(task[t].target) /\ RowKept(task[t].target)
                 /\ issued[task[t].target] \in Nat
           /\ task[t].kind \in {"event", "open"} /\ task[t].call = 1 =>
                 /\ Svc(t) = "install" /\ task[t].pc # "resolve"
                 /\ task[t].pc \in RefreshPc \cup {"ensure"} => task[t].target = task[t].portal
<1>1. TypeInv /\ HomeInv /\ RowsOK /\ TaskKeeps(t)
  BY DEF KeepInv, HomeInv
<1>2. task[t] \in TaskState /\ TaskOK(task[t]) /\ task[t].portal \in Portal
  BY <1>1, CallTypes DEF TypeInv, TypeOK
<1>3. task[t].pc \in RefreshPc \cup {"ensure"} =>
         /\ task[t].target \in Portal /\ row[task[t].target] \in Row
         /\ RowKnown(task[t].target) /\ RowKept(task[t].target)
         /\ issued[task[t].target] \in Nat
  BY <1>1, <1>2, TokenFacts DEF TaskOK, RowsOK
<1>4. ASSUME task[t].kind \in {"event", "open"}, task[t].call = 1
      PROVE  /\ Svc(t) = "install" /\ task[t].pc # "resolve"
             /\ task[t].pc \in RefreshPc \cup {"ensure"} => task[t].target = task[t].portal
  <2>1. AimHome(task[t])
    BY <1>1 DEF HomeInv
  <2>2. Calls[task[t].kind][task[t].call].svc = "install"
        /\ Calls[task[t].kind][task[t].call].to = "own"
    BY <1>4, ConfirmAims
  <2>3. QED
    BY <2>1, <2>2 DEF Svc, This, AimHome, Aimed
<1>5. QED
  BY <1>1, <1>2, <1>3, <1>4

\* A call, up to the refresh of its token and after it.
LEMMA RestKeeps ==
    ASSUME KeepInv, OneRequest, NEW t \in Task, Rest(t)
    PROVE  RowsOK' /\ TaskKeeps(t)'
<1> USE DEF table, bitrix24
<1> DEFINE T == task[t]
           first == T.kind \in {"event", "open"} /\ T.call = 1
<1>r. T.pc \in RestPc
  BY DEF Rest, Resolve, Reuse, NotInstalled, Expiring, Load, SaveAndBuild, PostOk,
         PostRejected, NetError, Store, At, RestPc, RefreshPc
<1>c. /\ TypeInv /\ HomeInv /\ RowsOK /\ TaskKeeps(t)
      /\ T \in TaskState /\ TaskOK(T) /\ T.portal \in Portal
      /\ T.pc \in RefreshPc \cup {"ensure"} =>
            /\ T.target \in Portal /\ row[T.target] \in Row
            /\ RowKnown(T.target) /\ RowKept(T.target) /\ issued[T.target] \in Nat
      /\ first => /\ Svc(t) = "install" /\ T.pc # "resolve"
                  /\ T.pc \in RefreshPc \cup {"ensure"} => T.target = T.portal
  BY <1>r, KeepFacts
<1>f. Failed(t) => TaskKeeps(t)'
  BY <1>r, <1>c, FailedKeeps
<1>s. T.pc # "save" /\ UNCHANGED <<row, bitrix24, lost>> => RowsOK'
  BY <1>r, <1>c, RowsSame DEF RestPc, RefreshPc
<1>m. first => /\ ~Calling(T) => cached["install"] = NoId
               /\ Calling(T) => heap[T.obj].access = row[T.portal].access
  BY <1>r, <1>c DEF TaskKeeps, ConfirmOK, Confirming
<1>1. CASE Resolve(t)
  <2>1. T.pc = "resolve" /\ UNCHANGED <<row, bitrix24, lost>>
    BY <1>1 DEF Resolve, At
  <2>2. CASE Failed(t)
    BY <2>1, <2>2, <1>f, <1>s
  <2>3. ASSUME NEW p, task' = [task EXCEPT ![t].target = p, ![t].pc = "ensure"]
        PROVE  TaskKeeps(t)'
    <3>1. task'[t].pc = "ensure" /\ task'[t].kind = T.kind /\ task'[t].call = T.call
      BY <2>3, <1>c DEF TypeInv, TypeOK, TaskState
    <3>2. QED
      BY <3>1, <2>1, <1>c DEF TaskKeeps, Holding, ConfirmOK, Confirming
  <2>4. QED
    BY <1>1, <2>1, <2>2, <2>3, <1>s DEF Resolve
<1>2. CASE Reuse(t)
  <2>1. T.pc = "ensure" /\ UNCHANGED <<row, bitrix24, lost>> /\ cached[Svc(t)] # NoId
    BY <1>2 DEF Reuse, At
  <2>2. ~first
    BY <2>1, <1>c, <1>m DEF Calling, RefreshPc
  <2>3. cached[Svc(t)] \in Client
    BY <2>1, <1>c, <1>r, CallTypes DEF TypeInv, TypeOK
  <2>4. QED
    BY <1>2, <2>1, <2>2, <2>3, <1>c, <1>s, SendKeeps DEF Reuse
<1>3. CASE NotInstalled(t)
  <2>1. T.pc # "save" /\ UNCHANGED <<row, bitrix24, lost>>
    BY <1>3 DEF NotInstalled, At
  <2>2. QED
    BY <1>3, <2>1, <1>f, <1>s DEF NotInstalled
<1>4. CASE Expiring(t)
  <2>1. T.pc = "ensure" /\ UNCHANGED <<row, bitrix24, lost, cached>>
    BY <1>4 DEF Expiring, At, services
  <2>2. /\ task'[t].pc = "read" /\ task'[t].back = "build" /\ task'[t].kind = T.kind
        /\ task'[t].call = T.call
    BY <1>4, <1>c DEF Expiring, TypeInv, TypeOK, TaskState
  <2>3. TaskKeeps(t)'
    BY <2>1, <2>2, <1>m DEF TaskKeeps, Holding, ConfirmOK, Confirming, Calling, RefreshPc
  <2>4. QED
    BY <2>1, <2>3, <1>s
<1>5. ASSUME NEW c \in Client, Load(t, c)
      PROVE  RowsOK' /\ TaskKeeps(t)'
  <2>1. /\ T.pc = "ensure" /\ UNCHANGED <<row, bitrix24, lost>> /\ Send(t, c)
        /\ heap'[c].access = row[T.target].access
    BY <1>5 DEF Load, Build, At
  <2>2. QED
    BY <2>1, <1>c, <1>s, SendKeeps
<1>6. ASSUME NEW c \in Client, SaveAndBuild(t, c)
      PROVE  RowsOK' /\ TaskKeeps(t)'
  <2> DEFINE r == [row[T.target] EXCEPT !.access = T.got, !.refresh = T.tok]
  <2>1. /\ T.pc = "save" /\ T.target \in Portal /\ row[T.target] \in Row
        /\ Send(t, c) /\ heap'[c].access = T.got
    BY <1>6, <1>c DEF SaveAndBuild, Build, At, RefreshPc
  <2>2. /\ r \in Row /\ WriteRow(T.target, r) /\ r.access = T.got /\ r.refresh = T.tok
        /\ r.status = row[T.target].status
    BY <1>6, <2>1, <1>c DEF SaveAndBuild, SaveRow, Row, TaskState
  <2>3. /\ T.got[2] = issued[T.target] /\ T.tok \in grants /\ T.tok[1] = T.target
        /\ r.status # "DISABLED" /\ T.tok[2] <= issued[T.target]
    BY <2>1, <2>2, <1>c DEF TaskKeeps, Holding, RowsOK, GrantsKnown
  <2>4. UNCHANGED <<present, issued, grants, lost>>
    BY <1>6 DEF SaveAndBuild
  <2>5. issued[T.target] \in Nat
    BY <2>1, <1>c DEF RefreshPc
  <2>6. row'[T.target].access = T.got
    BY <2>1, <2>2, <1>c DEF WriteRow, TypeInv, TypeOK
  <2>7. RowsOK'
    <3> HIDE DEF r
    <3> QED
      BY <2>1, <2>2, <2>3, <2>4, <2>5, <1>c, RowsWritten
  <2>8. TaskKeeps(t)'
    BY <2>1, <2>6, <1>c, SendKeeps DEF RefreshPc
  <2>9. QED
    BY <2>7, <2>8
<1>7. CASE PostOk(t)
  <2>1. T.pc = "post" /\ UNCHANGED <<row, bitrix24, lost>> /\ UNCHANGED services
    BY <1>7 DEF PostOk, At
  <2>2. CASE first /\ Goto(t, "store")
    <3>1. /\ task'[t].pc = "store" /\ task'[t].kind = T.kind /\ task'[t].portal = T.portal
          /\ task'[t].call = T.call /\ task'[t].obj = T.obj
      BY <2>2, <1>c, GotoShape
    <3>2. heap[T.obj].access = row[T.portal].access
      BY <2>1, <2>2, <1>m DEF Calling
    <3>3. TaskKeeps(t)'
      BY <2>1, <2>2, <3>1, <3>2
         DEF services, TaskKeeps, Holding, ConfirmOK, Confirming, Calling, RestPc
    <3>4. QED
      BY <2>1, <3>3, <1>s
  <2>3. CASE Start(t, T.call + 1)
    <3>1. T.call + 1 \in 1..5 /\ T.call + 1 # 1
      BY <1>r, <1>c, CallTypes
    <3>2. QED
      BY <2>1, <2>3, <3>1, <1>c, <1>s, StartKeeps
  <2>4. QED
    BY <1>7, <2>2, <2>3 DEF PostOk
<1>8. CASE PostRejected(t)
  <2>1. T.pc = "post" /\ UNCHANGED <<row, bitrix24, lost>> /\ UNCHANGED services
    BY <1>8 DEF PostRejected, At
  <2>2. CASE Failed(t)
    BY <2>1, <2>2, <1>f, <1>s
  <2>3. CASE task' = [task EXCEPT ![t].pc = "read", ![t].back = "retry", ![t].again = TRUE,
                                  ![t].target = heap[task[t].obj].portal]
    <3>1. /\ task'[t].pc = "read" /\ task'[t].back = "retry" /\ task'[t].call = T.call
          /\ task'[t].portal = T.portal /\ task'[t].kind = T.kind /\ task'[t].obj = T.obj
      BY <2>3, <1>c DEF TypeInv, TypeOK, TaskState
    <3>2. TaskKeeps(t)'
      BY <2>1, <3>1, <1>m
         DEF services, TaskKeeps, Holding, ConfirmOK, Confirming, Calling, RefreshPc
    <3>3. QED
      BY <2>1, <3>2, <1>s
  <2>4. QED
    BY <1>8, <2>2, <2>3 DEF PostRejected
<1>9. CASE NetError(t)
  <2>1. T.pc # "save" /\ UNCHANGED <<row, bitrix24, lost>>
    BY <1>9 DEF NetError, At
  <2>2. QED
    BY <1>9, <2>1, <1>f, <1>s DEF NetError
<1>10. CASE Store(t)
  <2> DEFINE r == [row[T.portal] EXCEPT !.access = heap[T.obj].access]
  <2>1. T.pc = "store" /\ UNCHANGED <<present, issued, grants, lost>> /\ row[T.portal] \in Row
    BY <1>10, <1>c, TokenFacts DEF Store, At
  <2>2. RowKnown(T.portal) /\ RowKept(T.portal) /\ ~(\E u \in Task : Bringing(u, T.portal))
    BY <2>1, <1>c DEF RowsOK, OneRequest, Bringing, At
  <2>3. heap[T.obj] \in Object
    BY <2>1, <1>c DEF TaskOK, TypeInv, TypeOK
  <2>4. /\ r \in Row /\ WriteRow(T.portal, r) /\ r.access = heap[T.obj].access
        /\ r.refresh = row[T.portal].refresh /\ r.status = row[T.portal].status
    BY <1>10, <2>1, <2>3, <1>c DEF Store, Row, Object
  <2>5. r.access # NoId => r.access[2] <= issued[T.portal]
    <3>1. first
      BY <2>1, <1>c DEF TaskKeeps, ConfirmOK, Confirming
    <3>2. heap[T.obj].access = row[T.portal].access
      BY <2>1, <3>1, <1>m DEF Calling
    <3>3. QED
      BY <2>2, <2>4, <3>2 DEF RowKnown
  <2>6. RowsOK'
    <3> HIDE DEF r
    <3> QED
      BY <2>1, <2>2, <2>4, <2>5, <1>c, RowsWritten DEF RowKnown, RowKept
  <2>7. TaskKeeps(t)'
    <3>1. Start(t, 2) /\ 2 \in 1..5
      BY <1>10 DEF Store
    <3>2. QED
      BY <3>1, <1>c, StartKeeps
  <2>8. QED
    BY <2>6, <2>7
<1>11. QED
  BY <1>1, <1>2, <1>3, <1>4, <1>5, <1>6, <1>7, <1>8, <1>9, <1>10 DEF Rest

\* A refresh: the pair that is granted reaches the row, and only a refusal disables it.
LEMMA RefreshKeeps ==
    ASSUME KeepInv, OneRequest, NEW t \in Task, Refresh(t)
    PROVE  RowsOK' /\ TaskKeeps(t)'
<1> USE DEF table, bitrix24
<1> DEFINE T == task[t]
           p == T.target
           first == T.kind \in {"event", "open"} /\ T.call = 1
<1>r. T.pc \in RefreshPc /\ T.pc \in RestPc
  BY DEF Refresh, ReadGrant, Granted, GrantLost, GrantRefused, SaveAndRetry, Disable, At,
         RestPc, RefreshPc
<1>c. /\ TypeInv /\ HomeInv /\ RowsOK /\ TaskKeeps(t)
      /\ T \in TaskState /\ TaskOK(T) /\ T.portal \in Portal
      /\ p \in Portal /\ row[p] \in Row /\ RowKnown(p) /\ RowKept(p) /\ issued[p] \in Nat
      /\ first => p = T.portal
  BY <1>r, KeepFacts
<1>f. Failed(t) => TaskKeeps(t)'
  BY <1>r, <1>c, FailedKeeps
<1>s. T.pc # "save" /\ UNCHANGED <<row, bitrix24, lost>> => RowsOK'
  BY <1>r, <1>c, RowsSame DEF RefreshPc
<1>m. first => /\ ~Calling(T) => cached["install"] = NoId
               /\ Calling(T) => heap[T.obj].access = row[T.portal].access
  BY <1>r, <1>c DEF TaskKeeps, ConfirmOK, Confirming
\* Steps within the refresh keep what the confirmation needs.
<1>k. ASSUME UNCHANGED <<row, cached, heap>>, task'[t].pc \in RefreshPc,
             task'[t].portal = T.portal, task'[t].kind = T.kind, task'[t].call = T.call,
             task'[t].obj = T.obj, task'[t].back = T.back
      PROVE  ConfirmOK(task[t])'
  BY <1>k, <1>m, <1>r DEF ConfirmOK, Confirming, Calling, RefreshPc
<1>b. T.pc # "save" => \A u \in Task, q \in Portal : ~Bringing(u, q)
  BY <1>r DEF OneRequest, Bringing, At, RefreshPc
<1>1. CASE ReadGrant(t)
  <2>1. T.pc = "read" /\ UNCHANGED <<row, bitrix24, lost>> /\ UNCHANGED services
    BY <1>1 DEF ReadGrant, At
  <2>2. /\ task'[t].pc = "grant" /\ task'[t].portal = T.portal /\ task'[t].target = p
        /\ task'[t].kind = T.kind /\ task'[t].call = T.call
        /\ task'[t].obj = T.obj /\ task'[t].back = T.back /\ task'[t].tok = row[p].refresh
    BY <1>1, <1>c DEF ReadGrant, TypeInv, TypeOK, TaskState
  <2>3. Holding(task[t])'
    BY <2>1, <2>2 DEF Holding
  <2>4. ConfirmOK(task[t])'
    BY <2>1, <2>2, <1>k DEF RefreshPc, services
  <2>5. QED
    BY <2>1, <2>3, <2>4, <1>s DEF TaskKeeps
<1>2. CASE Granted(t)
  <2>1. /\ T.pc = "grant" /\ T.tok \in grants /\ T.tok = row[p].refresh
        /\ UNCHANGED <<row, present, lost>> /\ UNCHANGED services
        /\ IssuePair(p) \/ (IssueAccess(p) /\ UNCHANGED grants)
    BY <1>2, <1>c DEF Granted, At, TaskKeeps, Holding
  <2>2. /\ GrantsKnown' /\ \A q \in Portal : RowKnown(q)'
        /\ \A q \in Portal : row[q].status = "DISABLED" => row[q].refresh \notin grants'
        /\ \A q \in Portal : q # p /\ row[q].refresh \in grants => row[q].refresh \in grants'
        /\ Fresh(p)[1] = p /\ Fresh(p)[2] = issued'[p]
        /\ IssuePair(p) => Fresh(p) \in grants'
    BY <2>1, <1>c, IssuedAnew
  <2>3. T.tok # NoId /\ T.tok[1] = p /\ row[p].status # "DISABLED"
    BY <2>1, <1>c, TokenFacts DEF RowKnown, RowKept
  <2>4. /\ task'[t].pc = "save" /\ task'[t].portal = T.portal /\ task'[t].target = p
        /\ task'[t].kind = T.kind /\ task'[t].call = T.call
        /\ task'[t].obj = T.obj /\ task'[t].back = T.back /\ task'[t].got = Fresh(p)
        /\ \/ IssuePair(p) /\ task'[t].tok = Fresh(p)
           \/ UNCHANGED grants /\ task'[t].tok = T.tok
    BY <1>2, <1>c DEF Granted, TypeInv, TypeOK, TaskState
  <2>5. Holding(task[t])'
    BY <2>1, <2>2, <2>3, <2>4 DEF Holding
  <2>6. ConfirmOK(task[t])'
    BY <2>1, <2>4, <1>k DEF RefreshPc, services
  <2>7. ASSUME NEW q \in Portal PROVE RowKept(q)'
    <3>1. CASE q = p
      <4>1. Bringing(t, q)'
        BY <2>4, <3>1 DEF Bringing, At
      <4>2. QED
        BY <2>1, <2>2, <4>1 DEF RowKept
    <3>2. CASE q # p
      <4>1. RowKept(q) /\ \A u \in Task : ~Bringing(u, q)
        BY <2>1, <1>b, <1>c DEF RowsOK
      <4>2. QED
        BY <2>1, <2>2, <3>2, <4>1 DEF RowKept
    <3>3. QED
      BY <3>1, <3>2
  <2>8. QED
    BY <2>2, <2>5, <2>6, <2>7 DEF RowsOK, TaskKeeps
<1>3. CASE GrantLost(t)
  <2>1. /\ T.pc = "grant" /\ UNCHANGED <<row, present>> /\ IssuePair(p)
        /\ lost' = lost \cup {p} /\ Failed(t)
    BY <1>3 DEF GrantLost, At
  <2>2. /\ GrantsKnown' /\ \A q \in Portal : RowKnown(q)'
        /\ \A q \in Portal : row[q].status = "DISABLED" => row[q].refresh \notin grants'
        /\ \A q \in Portal : q # p /\ row[q].refresh \in grants => row[q].refresh \in grants'
    BY <2>1, <1>c, IssuedAnew
  <2>3. ASSUME NEW q \in Portal PROVE RowKept(q)'
    <3>1. RowKept(q) /\ \A u \in Task : ~Bringing(u, q)
      BY <2>1, <1>b, <1>c DEF RowsOK
    <3>2. QED
      BY <2>1, <2>2, <3>1 DEF RowKept
  <2>4. QED
    BY <2>1, <2>2, <2>3, <1>f DEF RowsOK
<1>4. CASE GrantRefused(t)
  <2>1. /\ T.pc = "grant" /\ T.tok \notin grants /\ T.tok = row[p].refresh
        /\ UNCHANGED <<row, bitrix24, lost>> /\ UNCHANGED services
    BY <1>4, <1>c DEF GrantRefused, At, TaskKeeps, Holding
  <2>2. /\ task'[t].pc = "disable" /\ task'[t].portal = T.portal /\ task'[t].target = p
        /\ task'[t].kind = T.kind /\ task'[t].call = T.call
        /\ task'[t].obj = T.obj /\ task'[t].back = T.back /\ task'[t].tok = T.tok
    BY <1>4, <1>c, GotoShape DEF GrantRefused
  <2>3. Holding(task[t])'
    BY <2>1, <2>2 DEF Holding
  <2>4. ConfirmOK(task[t])'
    BY <2>1, <2>2, <1>k DEF RefreshPc, services
  <2>5. QED
    BY <2>1, <2>3, <2>4, <1>s DEF TaskKeeps
<1>5. CASE SaveAndRetry(t)
  <2> DEFINE r == [row[p] EXCEPT !.access = T.got, !.refresh = T.tok]
  <2>1. T.pc = "save" /\ T.back = "retry" /\ T.obj \in Client
    BY <1>5, <1>c DEF SaveAndRetry, At, TaskOK, RefreshPc
  <2>2. /\ r \in Row /\ WriteRow(p, r) /\ r.access = T.got /\ r.refresh = T.tok
        /\ r.status = row[p].status
    BY <1>5, <1>c DEF SaveAndRetry, SaveRow, Row, TaskState
  <2>3. /\ T.got[2] = issued[p] /\ T.tok \in grants /\ T.tok[1] = p
        /\ r.status # "DISABLED" /\ T.tok[2] <= issued[p]
    BY <2>1, <2>2, <1>c DEF TaskKeeps, Holding, RowsOK, GrantsKnown
  <2>4. UNCHANGED <<present, issued, grants, lost>>
    BY <1>5 DEF SaveAndRetry
  <2>5. RowsOK'
    <3> HIDE DEF r
    <3> QED
      BY <2>1, <2>2, <2>3, <2>4, <1>c, RowsWritten
  <2>6. row'[p].access = T.got
    BY <2>2, <1>c DEF WriteRow, TypeInv, TypeOK
  <2>7. Send(t, T.obj) /\ heap'[T.obj].access = T.got
    BY <1>5, <2>1, <1>c DEF SaveAndRetry, TypeInv, TypeOK, Object
  <2>8. TaskKeeps(t)'
    BY <2>1, <2>6, <2>7, <1>c, SendKeeps
  <2>9. QED
    BY <2>5, <2>8
<1>6. CASE Disable(t)
  <2> DEFINE r == [row[p] EXCEPT !.status = "DISABLED"]
  <2>1. /\ T.pc = "disable" /\ row[p].refresh \notin grants
        /\ UNCHANGED <<present, issued, grants, lost>> /\ Failed(t)
    BY <1>6, <1>c DEF Disable, At, TaskKeeps, Holding
  <2>2. /\ r \in Row /\ WriteRow(p, r) /\ r.access = row[p].access
        /\ r.refresh = row[p].refresh /\ r.status = "DISABLED"
    BY <1>6, <1>c DEF Disable, Row, Status
  <2>3. RowsOK'
    <3> HIDE DEF r
    <3> QED
      BY <2>1, <2>2, <1>c, RowsWritten DEF RowKnown
  <2>4. QED
    BY <2>1, <2>3, <1>f
<1>7. QED
  BY <1>1, <1>2, <1>3, <1>4, <1>5, <1>6 DEF Refresh

\* A restart loses the pairs that are on their way, and tells.
LEMMA RestartKeeps ==
    ASSUME KeepInv, Restart
    PROVE  RowsOK' /\ \A t \in Task : TaskKeeps(t)'
<1>1. \A t \in Task : task'[t] = IdleTask
  BY DEF Restart
<1>2. \A t \in Task : TaskKeeps(t)'
  BY <1>1 DEF IdleTask, Request, TaskKeeps, Holding, ConfirmOK, Confirming, RestPc, RefreshPc
<1>3. UNCHANGED <<row, present, issued, grants>> /\ lost \subseteq lost'
  BY DEF Restart, table, bitrix24
<1>4. \A t \in Task, p \in Portal : Bringing(t, p) => p \in lost'
  BY DEF Restart, Bringing
<1>5. GrantsKnown' /\ (\A p \in Portal : RowKnown(p)') /\ \A p \in Portal : RowKept(p)'
  BY <1>3, <1>4 DEF KeepInv, RowsOK, GrantsKnown, RowKnown, RowKept
<1>6. QED
  BY <1>2, <1>5 DEF RowsOK

\* At the start there is no install and no token.
LEMMA KeepInit == Init => KeepInv
<1> SUFFICES ASSUME Init PROVE KeepInv
  OBVIOUS
<1>1. RowsOK
  BY DEF Init, NoRow, RowsOK, GrantsKnown, RowKnown, RowKept
<1>2. \A t \in Task : TaskKeeps(t)
  BY DEF Init, IdleTask, Request, TaskKeeps, Holding, ConfirmOK, Confirming, RestPc, RefreshPc
<1>3. QED
  BY <1>1, <1>2, HomeInit DEF KeepInv

\* Every step keeps the tokens in use.
LEMMA KeepStep == OneRequest /\ KeepInv /\ [Next]_vars => KeepInv'
<1> SUFFICES ASSUME OneRequest, KeepInv, [Next]_vars PROVE KeepInv'
  OBVIOUS
<1>h. HomeInv'
  BY HomeStep DEF KeepInv
<1>1. ASSUME NEW t \in Task, Begin(t) \/ Prepare(t) \/ Rest(t) \/ Refresh(t)
      PROVE  KeepInv'
  <2>1. RowsOK' /\ TaskKeeps(t)'
    BY <1>1, BeginKeeps, PrepareKeeps, RestKeeps, RefreshKeeps
  <2>2. QED
    BY <2>1, <1>h, OnlyOne DEF KeepInv
<1>2. CASE UNCHANGED <<row, services, task, present, issued, grants, lost>>
  BY <1>2, <1>h
     DEF services, KeepInv, RowsOK, GrantsKnown, RowKnown, RowKept, Bringing, At, TaskKeeps,
         Holding, ConfirmOK, Confirming, Calling
<1>3. CASE Restart
  BY <1>3, <1>h, RestartKeeps DEF KeepInv
<1>4. QED
  BY <1>1, <1>2, <1>3 DEF Next, Expire, table, bitrix24, vars

\* With one request at a time an install is disabled only when Bitrix24 refuses the
\* refresh token in its row, and that stays refused (DisabledIsRefused).
THEOREM OneRequestDisablesRefused == OneRequest => (Spec => []DisabledIsRefused)
<1> SUFFICES ASSUME OneRequest PROVE Spec => []DisabledIsRefused
  OBVIOUS
<1>1. KeepInv => DisabledIsRefused
  BY DEF KeepInv, RowsOK, RowKept, DisabledIsRefused
<1>2. KeepInv /\ [Next]_vars => KeepInv'
  BY KeepStep
<1>3. QED
  BY <1>1, <1>2, KeepInit, PTL DEF Spec

\* With one request at a time every installed portal that has the app can be refreshed
\* between requests, unless its newest tokens were lost on their way (RefreshIsKept).
THEOREM OneRequestKeepsRefresh == OneRequest => (Spec => []RefreshIsKept)
<1> SUFFICES ASSUME OneRequest PROVE Spec => []RefreshIsKept
  OBVIOUS
<1>1. KeepInv => RefreshIsKept
  BY DEF KeepInv, RowsOK, RowKept, Bringing, At, RefreshIsKept, Installed
<1>2. KeepInv /\ [Next]_vars => KeepInv'
  BY KeepStep
<1>3. QED
  BY <1>1, <1>2, KeepInit, PTL DEF Spec

-----------------------------------------------------------------------------
(* The age of access tokens.                                               *)

\* The access tokens that a step leaves are not older than the ones it finds.
NotOlder ==
    \A p \in Portal : row[p].access # NoId /\ row'[p].access # NoId =>
        row'[p].access[2] >= row[p].access[2]

\* So it is when no row is written, and when a row is written with one that is not older.
LEMMA SameAge ==
    ASSUME TypeInv, UNCHANGED row
    PROVE  NotOlder
<1>1. \A p \in Portal : row[p].access # NoId => row[p].access[2] \in Nat
  BY TokenFacts DEF TokenId
<1>2. QED
  BY <1>1 DEF NotOlder

LEMMA WrittenAge ==
    ASSUME TypeInv, NEW p \in Portal, NEW r \in Row, WriteRow(p, r),
           \/ r.access = row[p].access
           \/ RowKnown(p) /\ r.access[2] = issued[p]
    PROVE  NotOlder
<1>1. \A q \in Portal : row[q].access # NoId => row[q].access[2] \in Nat
  BY TokenFacts DEF TokenId
<1>2. row'[p] = r /\ \A q \in Portal : q # p => row'[q] = row[q]
  BY DEF WriteRow, TypeInv, TypeOK
<1>3. row[p].access # NoId => r.access[2] >= row[p].access[2]
  BY <1>1, TokenFacts DEF RowKnown
<1>4. QED
  BY <1>1, <1>2, <1>3 DEF NotOlder

\* No step stores an older one.
LEMMA AgeStep ==
    ASSUME KeepInv, [Next]_vars
    PROVE  NotOlder
<1> USE DEF table
<1>t. TypeInv /\ HomeInv /\ RowsOK
  BY DEF KeepInv, HomeInv
<1>1. CASE UNCHANGED row
  BY <1>1, <1>t, SameAge
<1>2. ASSUME NEW t \in Task,
             Upsert(t) \/ Rotate(t) \/ Remove(t)
      PROVE  NotOlder
  <2> DEFINE T == task[t] p == T.portal
  <2>1. /\ T \in TaskState /\ p \in Portal /\ row[p] \in Row /\ RowKnown(p)
        /\ T.tok \in TokenId /\ TaskKeeps(t) /\ TokenHome(T)
    BY <1>2, <1>t, TokenFacts
       DEF KeepInv, HomeInv, TypeInv, TypeOK, TaskOK, TaskState, RowsOK, Upsert, Rotate, Remove, At
  <2>2. CASE Upsert(t)
    <3> DEFINE r == [status |-> "INSTALLED", access |-> T.tok, refresh |-> T.tok,
                     app |-> T.kind = "event"]
    <3>1. r \in Row /\ r.access = T.tok /\ WriteRow(p, r)
      BY <2>1, <2>2 DEF Upsert, Row, Status
    <3>2. T.tok[2] = issued[p]
      BY <2>1, <2>2 DEF Upsert, At, TaskKeeps, Holding
    <3> HIDE DEF r
    <3>3. QED
      BY <2>1, <3>1, <3>2, <1>t, WrittenAge
  <2>3. CASE Rotate(t)
    <3> DEFINE r == [row[p] EXCEPT !.access = T.tok]
    <3>1. r \in Row /\ r.access = T.tok /\ WriteRow(p, r)
      BY <2>1, <2>3 DEF Rotate, Row
    <3>2. T.tok[2] = issued[p]
      BY <2>1, <2>3 DEF Rotate, At, TaskKeeps, Holding, TokenHome
    <3> HIDE DEF r
    <3>3. QED
      BY <2>1, <3>1, <3>2, <1>t, WrittenAge
  <2>4. CASE Remove(t)
    <3> DEFINE r == [row[p] EXCEPT !.status = "UNINSTALLED"]
    <3>1. r \in Row /\ r.access = row[p].access /\ WriteRow(p, r)
      BY <2>1, <2>4 DEF Remove, Row, Status
    <3> HIDE DEF r
    <3>2. QED
      BY <2>1, <3>1, <1>t, WrittenAge
  <2>5. QED
    BY <1>2, <2>2, <2>3, <2>4
<1>3. ASSUME NEW t \in Task, Store(t)
      PROVE  NotOlder
  <2> DEFINE T == task[t] p == T.portal
             r == [row[p] EXCEPT !.access = heap[T.obj].access]
  <2>1. T.pc = "store" /\ T.pc \in RestPc
    BY <1>3 DEF Store, At, RestPc
  <2>2. p \in Portal /\ row[p] \in Row /\ T.obj \in Client /\ TaskKeeps(t)
    BY <2>1, KeepFacts, TokenFacts DEF TaskOK
  <2>3. heap[T.obj].access = row[p].access
    BY <2>1, <2>2 DEF TaskKeeps, ConfirmOK, Calling
  <2>4. r \in Row /\ r.access = row[p].access /\ WriteRow(p, r)
    BY <1>3, <2>2, <2>3 DEF Store, Row
  <2> HIDE DEF r
  <2>5. QED
    BY <2>2, <2>4, <1>t, WrittenAge
<1>4. ASSUME NEW t \in Task, (\E c \in Client : SaveAndBuild(t, c)) \/ SaveAndRetry(t)
      PROVE  NotOlder
  <2> DEFINE T == task[t] p == T.target
             r == [row[p] EXCEPT !.access = T.got, !.refresh = T.tok]
  <2>1. T.pc = "save" /\ T.pc \in RestPc /\ WriteRow(p, r)
    BY <1>4 DEF SaveAndBuild, SaveAndRetry, SaveRow, At, RestPc, RefreshPc
  <2>2. /\ T \in TaskState /\ p \in Portal /\ row[p] \in Row /\ RowKnown(p) /\ TaskKeeps(t)
    BY <2>1, KeepFacts DEF RefreshPc
  <2>3. r \in Row /\ r.access = T.got /\ T.got[2] = issued[p]
    BY <2>1, <2>2 DEF Row, TaskState, TaskKeeps, Holding
  <2> HIDE DEF r
  <2>4. QED
    BY <2>1, <2>2, <2>3, <1>t, WrittenAge
<1>5. ASSUME NEW t \in Task, Disable(t)
      PROVE  NotOlder
  <2> DEFINE T == task[t] p == T.target
             r == [row[p] EXCEPT !.status = "DISABLED"]
  <2>1. T.pc = "disable" /\ T.pc \in RestPc /\ WriteRow(p, r)
    BY <1>5 DEF Disable, At, RestPc, RefreshPc
  <2>2. p \in Portal /\ row[p] \in Row
    BY <2>1, KeepFacts DEF RefreshPc
  <2>3. r \in Row /\ r.access = row[p].access
    BY <2>2 DEF Row, Status
  <2> HIDE DEF r
  <2>4. QED
    BY <2>1, <2>2, <2>3, <1>t, WrittenAge
<1>6. ASSUME NEW t \in Task, Begin(t) \/ Verify(t) \/ Leave(t) \/ Activate(t) \/ Unpin(t)
      PROVE  NotOlder
  <2>1. UNCHANGED row
    BY <1>6 DEF Begin, BeginInstall, BeginReply, BeginUninstall, Verify, Leave, Activate, Unpin
  <2>2. QED
    BY <2>1, <1>1
<1>7. ASSUME NEW t \in Task,
             \/ Resolve(t) \/ Reuse(t) \/ NotInstalled(t) \/ Expiring(t)
             \/ \E c \in Client : Load(t, c)
             \/ PostOk(t) \/ PostRejected(t) \/ NetError(t)
             \/ ReadGrant(t) \/ Granted(t) \/ GrantLost(t) \/ GrantRefused(t)
      PROVE  NotOlder
  <2>1. UNCHANGED row
    BY <1>7 DEF Resolve, Reuse, NotInstalled, Expiring, Load, PostOk, PostRejected, NetError,
                ReadGrant, Granted, GrantLost, GrantRefused
  <2>2. QED
    BY <2>1, <1>1
<1>8. CASE Restart \/ (\E x \in Token : Expire(x)) \/ UNCHANGED vars
  BY <1>8, <1>1 DEF Restart, Expire, vars
<1>9. ASSUME NEW t \in Task, Begin(t) \/ Prepare(t) \/ Rest(t) \/ Refresh(t)
      PROVE  NotOlder
  BY <1>2, <1>3, <1>4, <1>5, <1>6, <1>7, <1>9 DEF Prepare, Rest, Refresh
<1>10. QED
  BY <1>8, <1>9 DEF Next

\* With one request at a time a stored access token is not replaced by an older one
\* (AccessIsNotOlder): not by the token of a reply's event, nor by what an install
\* writes back when it confirms.
THEOREM OneRequestStoresNewer == OneRequest => (Spec => AccessIsNotOlder)
<1> SUFFICES ASSUME OneRequest PROVE Spec => AccessIsNotOlder
  OBVIOUS
<1>1. KeepInv /\ [Next]_vars =>
         [\A p \in Portal : row[p].access # NoId /\ row'[p].access # NoId =>
              row'[p].access[2] >= row[p].access[2]]_vars
  BY AgeStep DEF NotOlder
<1>2. KeepInv /\ [Next]_vars => KeepInv'
  BY KeepStep
<1>3. QED
  BY <1>1, <1>2, KeepInit, PTL DEF Spec, AccessIsNotOlder
=============================================================================
