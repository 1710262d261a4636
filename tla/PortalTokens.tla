---------------------------- MODULE PortalTokens ----------------------------
(***************************************************************************)
(* One row per Bitrix24 portal holds the tokens the middleware acts with:   *)
(* install, refresh, uninstall (oauth.js, install.repository.js,            *)
(* install.controller.js, connector.controller.js), and the calls made with *)
(* them (bitrix24.service.js, client.js).                                   *)
(*                                                                          *)
(* Every user of Bitrix24 has a Bitrix24Service of its own, shared by all   *)
(* requests that it handles.  It remembers a portal (oauthCtx) and a client *)
(* object with an access token; the two are read and replaced between       *)
(* awaits, so what a request has pinned may not be what it calls.           *)
(***************************************************************************)
EXTENDS Naturals, FiniteSets, Sequences

CONSTANTS
    Portal,     \* Bitrix24 portals, by memberId
    Kinds,      \* the kinds of request that come
    Task,       \* requests handled at the same time
    Client,     \* identities of client objects, numbers
    MaxIssued,  \* bound: tokens Bitrix24 issues per portal
    Faults,     \* subset of {"netError", "lostAnswer"}
    NoId        \* null

VARIABLES
    row,     \* bitrix24_installs
    newer,   \* <<p, q>>: the row of p was updated after the row of q
    pinned,  \* oauthCtx.memberId of each service
    cached,  \* client of each service
    heap,    \* the client objects
    task,    \* each request
    present, \* Bitrix24: portals that have the app
    issued,  \* Bitrix24: how many tokens each portal was given
    live,    \* Bitrix24: access tokens that are accepted
    grants,  \* Bitrix24: refresh tokens that are accepted
    lost     \* history: portals whose newest tokens were lost before they were stored

bitrix24 == <<present, issued, live, grants>>
table    == <<row, newer>>
services == <<pinned, cached, heap>>
vars     == <<table, services, task, bitrix24, lost>>

Kind == {"event", "open", "placement", "reply", "uninstall"}

\* install and operator are the services of InstallController and
\* OperatorMessageHandler, provision and placement those of the connector services of
\* InstallController and ConnectorController.
Service == {"install", "provision", "placement", "operator"}

ASSUME KindsAssumption  == Kinds \subseteq Kind
ASSUME IssuedAssumption == MaxIssued \in Nat
ASSUME ClientAssumption == Client \subseteq Nat
ASSUME NullAssumption   == NoId \notin Portal \cup Client \cup (Portal \X Nat)

\* A token is <<portal, number>>; the two tokens of one answer share the number.
Token   == Portal \X (1..MaxIssued)
TokenId == Token \cup {NoId}

Status == {"NONE", "INSTALLED", "UNINSTALLED", "DISABLED"}
Row == [status : Status, access : TokenId, refresh : TokenId,
        app    : BOOLEAN]  \* it has an applicationToken
NoRow == [status |-> "NONE", access |-> NoId, refresh |-> NoId, app |-> FALSE]

Object == [svc : Service, portal : Portal \cup {NoId}, access : TokenId]
NoObject == [svc |-> "install", portal |-> NoId, access |-> NoId]

\* The REST calls of a kind of request, in order: the service that makes them, and
\* whether it is given the portal ("own") or resolves it ("pinned").
Call(svc, to) == [svc |-> svc, to |-> to]
Calls == [k \in Kind |->
    CASE k \in {"event", "open"} ->  \* app.info, event.bind, register, event.bind
            <<Call("install", "own"), Call("install", "own"),
              Call("provision", "pinned"), Call("provision", "own")>>
      [] k = "placement" ->          \* register, activate, data.set, event.bind
            <<Call("placement", "pinned"), Call("placement", "pinned"),
              Call("placement", "pinned"), Call("placement", "own")>>
      [] k = "reply" ->              \* user.get, status.delivery
            <<Call("operator", "pinned"), Call("operator", "pinned")>>
      [] k = "uninstall" -> <<>>]

TaskPc ==
    {"idle", "upsert", "verify", "refused", "activate", "rotate", "remove", "unpin",
     "resolve", "ensure", "post", "read", "grant", "save", "disable", "store"}
TaskState ==
    [pc : TaskPc, kind : Kind,
     portal : Portal \cup {NoId},   \* portal the request is about
     tok    : TokenId,              \* token it came with, then the refresh token it read
     got    : TokenId,              \* access token a refresh has returned
     call   : 0..4,                 \* which of its calls it is at
     target : Portal \cup {NoId},   \* portal the service has resolved
     obj    : Client \cup {NoId},   \* client object it calls with
     back   : {"build", "retry"},   \* what a refresh is for
     again  : BOOLEAN]              \* authRetried
Request(pc, k, p, x, n, to) ==
    [pc |-> pc, kind |-> k, portal |-> p, tok |-> x, call |-> n, target |-> to,
     got |-> NoId, obj |-> NoId, back |-> "build", again |-> FALSE]
IdleTask == Request("idle", "event", NoId, NoId, 0, NoId)

Init ==
    /\ row     = [p \in Portal |-> NoRow]
    /\ newer   = {}
    /\ pinned  = [s \in Service |-> NoId]
    /\ cached  = [s \in Service |-> NoId]
    /\ heap    = [c \in Client |-> NoObject]
    /\ task    = [t \in Task |-> IdleTask]
    /\ present = {}
    /\ issued  = [p \in Portal |-> 0]
    /\ live    = {}
    /\ grants  = {}
    /\ lost    = {}

-----------------------------------------------------------------------------
(* Bitrix24 (external).                                                    *)

Of(p, S)  == {x \in S : x[1] = p}
Fresh(p)  == <<p, issued[p] + 1>>
CanIssue(p) == issued[p] < MaxIssued

\* A new access token for p; with it a refresh token, in place of the one it had.
IssueAccess(p) ==
    /\ CanIssue(p)
    /\ issued' = [issued EXCEPT ![p] = @ + 1]
    /\ live'   = live \cup {Fresh(p)}
IssuePair(p) ==
    /\ IssueAccess(p)
    /\ grants' = (grants \ Of(p, grants)) \cup {Fresh(p)}

\* An access token ends.
Expire(x) ==
    /\ x \in live
    /\ live' = live \ {x}
    /\ UNCHANGED <<table, services, task, present, issued, grants, lost>>

-----------------------------------------------------------------------------
(* Rows and services.                                                      *)

\* Any update makes the row of p the most recent one.
Touch(p) == newer' = {e \in newer : e[2] # p} \cup ({p} \X (Portal \ {p}))

WriteRow(p, r) == row' = [row EXCEPT ![p] = r] /\ Touch(p)

\* findActiveMostRecent.
Installed  == {p \in Portal : row[p].status = "INSTALLED"}
MostRecent == {p \in Installed : \A q \in Installed : <<q, p>> \notin newer}

\* Objects nobody refers to are gone.
Referred == {cached[s] : s \in Service} \cup {task[t].obj : t \in Task}

\* Bug: the client of the portal that was pinned before is kept.
Pin_KeepsClient(s, p) ==
    /\ pinned' = [pinned EXCEPT ![s] = p]
    /\ UNCHANGED <<cached, heap>>

\* activate: forget the client, remember the portal.
Pin(s, p) ==
    /\ pinned' = [pinned EXCEPT ![s] = p]
    /\ cached' = [cached EXCEPT ![s] = NoId]
    /\ UNCHANGED heap

-----------------------------------------------------------------------------
(* Requests: what comes before the calls.                                  *)

At(t, pc) == task[t].pc = pc
This(t)   == Calls[task[t].kind][task[t].call]
Svc(t)    == This(t).svc
Goto(t, pc) == task' = [task EXCEPT ![t].pc = pc]

\* Call number n, with the portal of the request or the one its service resolves; or
\* the end of the request.
AtCall(T, n) ==
    LET calls == Calls[T.kind] IN
    IF n > Len(calls) THEN IdleTask
    ELSE IF calls[n].to = "own" THEN Request("ensure", T.kind, T.portal, NoId, n, T.portal)
    ELSE Request("resolve", T.kind, T.portal, NoId, n, NoId)

Start(t, n) == task' = [task EXCEPT ![t] = AtCall(task[t], n)]

\* A portal installs the app or opens a page of it, and its tokens come with the
\* request; an operator of it replies, with a fresh access token; it removes the app.
Arrive(t, k, p, x) ==
    task' = [task EXCEPT ![t] =
        Request(IF k \in {"reply", "uninstall"} THEN "verify" ELSE "upsert", k, p, x, 0, NoId)]

BeginInstall(t, k, p) ==
    /\ At(t, "idle")
    /\ k \in Kinds \cap {"event", "open", "placement"}
    /\ k # "event" => p \in present
    /\ IssuePair(p)
    /\ present' = present \cup {p}
    /\ Arrive(t, k, p, Fresh(p))
    /\ UNCHANGED <<table, services, lost>>

BeginReply(t, p) ==
    /\ At(t, "idle")
    /\ "reply" \in Kinds
    /\ p \in present
    /\ IssueAccess(p)
    /\ Arrive(t, "reply", p, Fresh(p))
    /\ UNCHANGED <<table, services, present, grants, lost>>

BeginUninstall(t, p) ==
    /\ At(t, "idle")
    /\ "uninstall" \in Kinds
    /\ p \in present
    /\ present' = present \ {p}
    /\ live'    = live \ Of(p, live)
    /\ grants'  = grants \ Of(p, grants)
    /\ Arrive(t, "uninstall", p, NoId)
    /\ UNCHANGED <<table, services, issued, lost>>

\* installFromEvent and installFromParams; only the event carries an application
\* token, and the upsert replaces every column.
Upsert(t) ==
    LET T == task[t] IN
    /\ At(t, "upsert")
    /\ WriteRow(T.portal, [status |-> "INSTALLED", access |-> T.tok, refresh |-> T.tok,
                           app |-> T.kind = "event"])
    /\ IF T.kind = "placement" THEN Start(t, 1) ELSE Goto(t, "activate")
    /\ lost' = lost \ {T.portal}
    /\ UNCHANGED <<services, bitrix24>>

\* The webhook middleware and the uninstall handler read the row and compare the
\* application token.
Verify(t) ==
    LET T == task[t] r == row[T.portal] IN
    /\ At(t, "verify")
    /\ IF r.app THEN Goto(t, IF T.kind = "reply" THEN "activate" ELSE "remove")
       ELSE IF r.status = "NONE" /\ T.kind = "uninstall"
            THEN task' = [task EXCEPT ![t] = IdleTask]
            ELSE Goto(t, "refused")
    /\ UNCHANGED <<table, services, bitrix24, lost>>

\* The request is answered with an error, and is over.  A reply may also be a
\* duplicate, or of an unknown chat.
Leave(t) ==
    /\ \/ At(t, "refused")
       \/ At(t, "activate") /\ task[t].kind = "reply"
    /\ task' = [task EXCEPT ![t] = IdleTask]
    /\ UNCHANGED <<table, services, bitrix24, lost>>

\* Bug: the reply handler relies on whatever portal is pinned.
Activate_NoPin(t) ==
    /\ At(t, "activate")
    /\ IF task[t].kind = "reply"
       THEN Goto(t, "rotate") /\ UNCHANGED services
       ELSE Pin("install", task[t].portal) /\ Start(t, 1)
    /\ UNCHANGED <<table, bitrix24, lost>>

\* Bug: a portal that is pinned already is not pinned again.
Activate_Once(t) ==
    LET s == IF task[t].kind = "reply" THEN "operator" ELSE "install" IN
    /\ At(t, "activate")
    /\ IF pinned[s] = task[t].portal THEN UNCHANGED services ELSE Pin(s, task[t].portal)
    /\ IF task[t].kind = "reply" THEN Goto(t, "rotate") ELSE Start(t, 1)
    /\ UNCHANGED <<table, bitrix24, lost>>

Activate(t) ==
    /\ At(t, "activate")
    /\ IF task[t].kind = "reply"
       THEN Pin("operator", task[t].portal) /\ Goto(t, "rotate")
       ELSE Pin("install", task[t].portal) /\ Start(t, 1)
    /\ UNCHANGED <<table, bitrix24, lost>>

\* _rotateTokens; then user.get, unless the agent is known.
Rotate(t) ==
    LET T == task[t] IN
    /\ At(t, "rotate")
    /\ WriteRow(T.portal, [row[T.portal] EXCEPT !.access = T.tok])
    /\ \E n \in {1, 2} : Start(t, n)
    /\ UNCHANGED <<services, bitrix24, lost>>

\* Bug: a status the other code does not know.
Remove_Unknown(t) ==
    LET p == task[t].portal IN
    /\ At(t, "remove")
    /\ WriteRow(p, [row[p] EXCEPT !.status = "REMOVED"])
    /\ Goto(t, "unpin")
    /\ UNCHANGED <<services, bitrix24, lost>>

Remove(t) ==
    LET p == task[t].portal IN
    /\ At(t, "remove")
    /\ WriteRow(p, [row[p] EXCEPT !.status = "UNINSTALLED"])
    /\ Goto(t, "unpin")
    /\ UNCHANGED <<services, bitrix24, lost>>

\* The uninstall handler clears its own service only.
Unpin(t) ==
    /\ At(t, "unpin")
    /\ IF pinned["install"] = task[t].portal THEN Pin("install", NoId)
       ELSE UNCHANGED services
    /\ task' = [task EXCEPT ![t] = IdleTask]
    /\ UNCHANGED <<table, bitrix24, lost>>

-----------------------------------------------------------------------------
(* A REST call.                                                            *)

\* What a request does after a call that failed: register and the bindings of an
\* install are best effort, an error of the line's activation ends the placement.
Failed(t) ==
    Start(t, IF task[t].kind = "placement" /\ task[t].call \in {2, 3} THEN 5
             ELSE task[t].call + 1)

\* _resolveMemberId.
Resolve(t) ==
    /\ At(t, "resolve")
    /\ LET found == IF pinned[Svc(t)] # NoId THEN {pinned[Svc(t)]} ELSE MostRecent IN
       \/ found = {} /\ Failed(t)
       \/ \E p \in found :
             task' = [task EXCEPT ![t].target = p, ![t].pc = "ensure"]
    /\ UNCHANGED <<table, services, bitrix24, lost>>

\* The request posts with object c.
Send(t, c) ==
    task' = [task EXCEPT ![t].obj = c, ![t].pc = "post", ![t].tok = NoId, ![t].got = NoId]

\* A client for portal p that uses token x, kept by the service; its identity is the
\* first that is free.
Build(t, c, p, x) ==
    /\ c \notin Referred
    /\ \A o \in Client \ Referred : c <= o
    /\ heap'   = [o \in Client |->
                    CASE o = c -> [svc |-> Svc(t), portal |-> p, access |-> x]
                      [] o \in Referred -> heap[o]
                      [] OTHER -> NoObject]
    /\ cached' = [cached EXCEPT ![Svc(t)] = c]
    /\ pinned' = [pinned EXCEPT ![Svc(t)] = p]
    /\ Send(t, c)

\* _ensureOAuthClient: the service's client serves, while its token is not about to
\* expire ...
Reuse(t) ==
    /\ At(t, "ensure")
    /\ cached[Svc(t)] # NoId
    /\ pinned[Svc(t)] = task[t].target
    /\ Send(t, cached[Svc(t)])
    /\ UNCHANGED <<table, services, bitrix24, lost>>

\* ... or the row is read: the app is not installed, or the token serves, or it is
\* about to expire.
NotInstalled(t) ==
    /\ At(t, "ensure")
    /\ row[task[t].target].status # "INSTALLED"
    /\ cached' = [cached EXCEPT ![Svc(t)] = NoId]
    /\ Failed(t)
    /\ UNCHANGED <<table, pinned, heap, bitrix24, lost>>

Load(t, c) ==
    LET p == task[t].target IN
    /\ At(t, "ensure")
    /\ row[p].status = "INSTALLED"
    /\ Build(t, c, p, row[p].access)
    /\ UNCHANGED <<table, bitrix24, lost>>

Expiring(t) ==
    /\ At(t, "ensure")
    /\ row[task[t].target].status = "INSTALLED"
    /\ task' = [task EXCEPT ![t].pc = "read", ![t].back = "build"]
    /\ UNCHANGED <<table, services, bitrix24, lost>>

\* The client posts with the token it has now.
Accepted(c) == heap[c].access \in live /\ heap[c].access[1] = heap[c].portal

\* app.info is followed by a write of the row, other calls by the next one.
PostOk(t) ==
    /\ At(t, "post")
    /\ Accepted(task[t].obj)
    /\ IF task[t].kind \in {"event", "open"} /\ task[t].call = 1 THEN Goto(t, "store")
       ELSE Start(t, task[t].call + 1)
    /\ UNCHANGED <<table, services, bitrix24, lost>>

\* An auth error: the token is refreshed once, for the portal of the client.
PostRejected(t) ==
    /\ At(t, "post")
    /\ ~Accepted(task[t].obj)
    /\ IF task[t].again THEN Failed(t)
       ELSE task' = [task EXCEPT ![t].pc = "read", ![t].back = "retry", ![t].again = TRUE,
                                 ![t].target = heap[task[t].obj].portal]
    /\ UNCHANGED <<table, services, bitrix24, lost>>

\* Bug: an authorization server that does not answer counts as a refusal.
NetError_Disables(t) ==
    /\ "netError" \in Faults
    /\ \/ At(t, "post") /\ Failed(t)
       \/ At(t, "grant") /\ Goto(t, "disable")
    /\ UNCHANGED <<table, services, bitrix24, lost>>

\* Any other error, of a REST call or of the authorization server.
NetError(t) ==
    /\ "netError" \in Faults
    /\ At(t, "post") \/ At(t, "grant")
    /\ Failed(t)
    /\ UNCHANGED <<table, services, bitrix24, lost>>

\* confirmInstall writes back the token of its client.
Store(t) ==
    LET T == task[t] IN
    /\ At(t, "store")
    /\ WriteRow(T.portal, [row[T.portal] EXCEPT !.access = heap[T.obj].access])
    /\ Start(t, 2)
    /\ UNCHANGED <<services, bitrix24, lost>>

-----------------------------------------------------------------------------
(* refreshTokens.                                                          *)

ReadGrant(t) ==
    /\ At(t, "read")
    /\ task' = [task EXCEPT ![t].tok = row[task[t].target].refresh, ![t].pc = "grant"]
    /\ UNCHANGED <<table, services, bitrix24, lost>>

\* The server answers with a pair, or with an access token only; then the refresh
\* token that was read is kept.
Granted(t) ==
    LET T == task[t] p == T.target IN
    /\ At(t, "grant")
    /\ T.tok \in grants
    /\ \/ /\ IssuePair(p)
          /\ task' = [task EXCEPT ![t].tok = Fresh(p), ![t].got = Fresh(p), ![t].pc = "save"]
       \/ /\ IssueAccess(p)
          /\ task' = [task EXCEPT ![t].got = Fresh(p), ![t].pc = "save"]
          /\ UNCHANGED grants
    /\ UNCHANGED <<table, services, present, lost>>

GrantLost(t) ==
    LET T == task[t] IN
    /\ "lostAnswer" \in Faults
    /\ At(t, "grant")
    /\ T.tok \in grants
    /\ IssuePair(T.target)
    /\ lost' = lost \cup {T.target}
    /\ Failed(t)
    /\ UNCHANGED <<table, services, present>>

\* invalid_grant.
GrantRefused(t) ==
    /\ At(t, "grant")
    /\ task[t].tok \notin grants
    /\ Goto(t, "disable")
    /\ UNCHANGED <<table, services, bitrix24, lost>>

\* Bug: the refresh token that came with the answer is not stored.
SaveRow_AccessOnly(t) ==
    LET T == task[t] IN
    WriteRow(T.target, [row[T.target] EXCEPT !.access = T.got])

SaveRow(t) ==
    LET T == task[t] IN
    WriteRow(T.target, [row[T.target] EXCEPT !.access = T.got, !.refresh = T.tok])

\* updateTokens; then the new client is built, or the one that was refused gets the new
\* token and the service is pinned to its portal.
SaveAndBuild(t, c) ==
    /\ At(t, "save") /\ task[t].back = "build"
    /\ SaveRow(t)
    /\ Build(t, c, task[t].target, task[t].got)
    /\ UNCHANGED <<bitrix24, lost>>

SaveAndRetry(t) ==
    LET T == task[t] IN
    /\ At(t, "save") /\ T.back = "retry"
    /\ SaveRow(t)
    /\ heap'   = [heap EXCEPT ![T.obj].access = T.got]
    /\ pinned' = [pinned EXCEPT ![heap[T.obj].svc] = T.target]
    /\ Send(t, T.obj)
    /\ UNCHANGED <<cached, bitrix24, lost>>

Disable(t) ==
    LET p == task[t].target IN
    /\ At(t, "disable")
    /\ WriteRow(p, [row[p] EXCEPT !.status = "DISABLED"])
    /\ Failed(t)
    /\ UNCHANGED <<services, bitrix24, lost>>

-----------------------------------------------------------------------------

\* The process restarts: the rows stay, tokens that are not stored yet are lost.
Restart ==
    /\ lost' = lost \cup {task[t].portal : t \in {u \in Task : At(u, "upsert")}}
                   \cup {task[t].target : t \in {u \in Task : At(u, "save")}}
    /\ pinned' = [s \in Service |-> NoId]
    /\ cached' = [s \in Service |-> NoId]
    /\ heap'   = [c \in Client |-> NoObject]
    /\ task'   = [t \in Task |-> IdleTask]
    /\ UNCHANGED <<table, bitrix24>>

Begin(t) ==
    \E p \in Portal :
       \/ \E k \in Kind : BeginInstall(t, k, p)
       \/ BeginReply(t, p) \/ BeginUninstall(t, p)

Prepare(t) ==
    Upsert(t) \/ Verify(t) \/ Leave(t) \/ Activate(t) \/ Rotate(t) \/ Remove(t) \/ Unpin(t)

Rest(t) ==
    \/ Resolve(t) \/ Reuse(t) \/ NotInstalled(t) \/ Expiring(t)
    \/ \E c \in Client : Load(t, c) \/ SaveAndBuild(t, c)
    \/ PostOk(t) \/ PostRejected(t) \/ NetError(t) \/ Store(t)

Refresh(t) ==
    ReadGrant(t) \/ Granted(t) \/ GrantLost(t) \/ GrantRefused(t) \/ SaveAndRetry(t) \/ Disable(t)

Next ==
    \/ \E t \in Task : Begin(t) \/ Prepare(t) \/ Rest(t) \/ Refresh(t)
    \/ \E x \in Token : Expire(x)
    \/ Restart

Spec == Init /\ [][Next]_vars

-----------------------------------------------------------------------------
(* Properties.                                                             *)

\* The types of the variables.
TypeOK ==
    /\ row \in [Portal -> Row] /\ newer \subseteq Portal \X Portal
    /\ pinned \in [Service -> Portal \cup {NoId}]
    /\ cached \in [Service -> Client \cup {NoId}]
    /\ heap \in [Client -> Object]
    /\ task \in [Task -> TaskState]
    /\ present \subseteq Portal /\ issued \in [Portal -> 0..MaxIssued]
    /\ live \subseteq Token /\ grants \subseteq Token /\ lost \subseteq Portal

\* Calls that are given their portal, and the calls of a reply, whose handler has
\* activated its portal ("Pin every subsequent REST call to this portal",
\* operatorMessage.handler.js), go to that portal.
PinnedCallsStay ==
    \A t \in Task :
        At(t, "post") /\ (This(t).to = "own" \/ task[t].kind = "reply") =>
            heap[task[t].obj].portal = task[t].portal

\* The tokens of a portal are stored in its row and sent to it, and nowhere else: no
\* service mixes the portal it is pinned to with the client of another
\* (_ensureOAuthClient, confirmInstall).
TokensStayHome ==
    /\ \A p \in Portal : row[p].access # NoId => row[p].access[1] = p
    /\ \A s \in Service : cached[s] # NoId =>
          /\ heap[cached[s]].access[1] = heap[cached[s]].portal
          /\ heap[cached[s]].portal = pinned[s]

\* An install is disabled only when its refresh token is of no more use
\* (refreshTokens).
DisabledIsRefused ==
    \A p \in Portal : row[p].status = "DISABLED" => row[p].refresh \notin grants

\* The portal's refresh token is not given away: between requests an installed row has
\* one that is accepted, unless the one that replaces it was lost on its way.
RefreshIsKept ==
    (\A t \in Task : At(t, "idle")) =>
        \A p \in (Installed \cap present) \ lost : row[p].refresh \in grants

\* A stored access token is not replaced by an older one (confirmInstall,
\* _rotateTokens, refreshTokens).
AccessIsNotOlder ==
    [][\A p \in Portal : row[p].access # NoId /\ row'[p].access # NoId =>
          row'[p].access[2] >= row[p].access[2]]_vars

-----------------------------------------------------------------------------
(* What the comments promise and the code does not keep.                   *)

\* "Registers the custom connector on the portal" (connector.service.js register): the
\* portal whose install or placement is handled.
RegistersOwnPortal ==
    \A t \in Task :
        At(t, "post") /\ task[t].kind \in {"event", "open", "placement"} =>
            heap[task[t].obj].portal = task[t].portal

\* The application token verifies the events of the portal, as "the only credential
\* still valid" after an uninstall (install.repository.js): once there is one it stays.
ApplicationTokenIsKept ==
    [][\A p \in Portal : row[p].app => row'[p].app]_vars
=============================================================================
