------------------------- MODULE CustomerResolution -------------------------
(***************************************************************************)
(* Who is this customer?  Every inbound message and every API send resolves *)
(* a phone number to a local contact, a conversation and an open CRM deal,  *)
(* creating what is missing (customerResolver.service.js and                *)
(* conversation.service.js); the job of resyncContacts.job.js pushes to     *)
(* Bitrix24 the contacts that were created while it was out of reach.       *)
(*                                                                          *)
(* Each lookup and the write that follows from it are separated by an await. *)
(* Only the unique columns of the database arbitrate between two requests;  *)
(* Bitrix24 arbitrates nothing.                                             *)
(***************************************************************************)
EXTENDS Integers, FiniteSets

CONSTANTS
    Phone,       \* normalized WhatsApp numbers of customers
    Channel,     \* numbers the business is reached at
    CrmContact,  \* ids of contacts in Bitrix24
    Deal,        \* ids of deals in Bitrix24, in creation order
    NoId,        \* null
    Book,        \* the phones each Bitrix24 contact has at the start
    Task,        \* requests handled at the same time
    Job,         \* instances of ResyncContactsJob: one, or none
    Faults,      \* subset of {"crmError", "searchError", "lostAnswer", "dbError"}
    MaxCrashes   \* bound: how often the process is killed

ASSUME NullAssumption  == NoId \notin Phone \cup Channel \cup CrmContact
ASSUME DealAssumption  == Deal \subseteq Nat \ {0}
ASSUME BookAssumption  == Book \in [CrmContact -> SUBSET Phone]
ASSUME KillsAssumption == MaxCrashes \in Nat

VARIABLES
    sync,     \* syncStatus of the contact of a phone, or NoRow without one
    link,     \* its bitrix24ContactId
    chats,    \* conversations that exist, as <<phone, channel>>
    chatDeal, \* dealId of a conversation
    known,    \* Bitrix24: the phones of a contact, none before it is created
    owner,    \* Bitrix24: the contact of a deal, NoId before it is created
    open,     \* Bitrix24: the deals that are not closed
    task,     \* each request
    resync,   \* each instance of the job
    crashes   \* how often the process was killed

database == <<sync, link, chats, chatDeal>>
crm      == <<known, owner, open>>
vars     == <<database, crm, task, resync, crashes>>

NoRow  == "NONE"
NoDeal == 0
Sync   == {"PENDING", "SYNCED", "FAILED"}
CrmId  == CrmContact \cup {NoId}
Chat   == Phone \X Channel

TaskPc ==
    {"idle", "threw", "find", "search", "adopt", "create", "push", "mark", "reload", "unmark",
     "chat", "newChat", "deal", "searchDeal", "linkDeal", "newDeal", "linkNew"}
TaskState ==
    [pc : TaskPc, phone : Phone \cup {NoId}, channel : Channel \cup {NoId},
     id    : CrmId,               \* Bitrix24 contact the request has learnt of
     deal  : Deal \cup {NoDeal}]   \* deal it has learnt of
ResyncPc == {"idle", "search", "create", "mark", "fail"}
ResyncState ==
    [pc : ResyncPc, todo : SUBSET Phone, phone : Phone \cup {NoId}, id : CrmId]

IdleTask   == [pc |-> "idle", phone |-> NoId, channel |-> NoId, id |-> NoId, deal |-> NoDeal]
IdleResync == [pc |-> "idle", todo |-> {}, phone |-> NoId, id |-> NoId]

Init ==
    /\ sync     = [p \in Phone |-> NoRow]
    /\ link     = [p \in Phone |-> NoId]
    /\ chats    = {}
    /\ chatDeal = [c \in Chat |-> NoDeal]
    /\ known    = Book
    /\ owner    = [d \in Deal |-> NoId]
    /\ open     = {}
    /\ task     = [t \in Task |-> IdleTask]
    /\ resync   = [j \in Job |-> IdleResync]
    /\ crashes  = 0

-----------------------------------------------------------------------------
(* Bitrix24 (external).                                                    *)

\* searchContactByPhone finds one of the contacts that have the phone.
Matches(p) == {k \in CrmContact : p \in known[k]}

\* searchDealByContact: the newest open deal of the contact, if there is one.
OpenDeals(k) == {d \in open : owner[d] = k}
Newest(k)    == {d \in OpenDeals(k) : \A e \in OpenDeals(k) : e <= d}

\* createContact under a new id, createDeal under the next one.
AddContact(p, k) ==
    /\ known[k] = {}
    /\ known' = [known EXCEPT ![k] = {p}]
    /\ UNCHANGED <<owner, open>>
AddDeal(k, d) ==
    /\ owner[d] = NoId
    /\ \A e \in Deal : e < d => owner[e] # NoId
    /\ owner' = [owner EXCEPT ![d] = k]
    /\ open'  = open \cup {d}
    /\ UNCHANGED known

\* An agent closes a deal.
CloseDeal(d) ==
    /\ d \in open
    /\ open' = open \ {d}
    /\ UNCHANGED <<database, known, owner, task, resync, crashes>>

-----------------------------------------------------------------------------
(* Rows of contacts.                                                       *)

\* The unique columns: one row per phone, and one per Bitrix24 contact.
Taken(p)        == sync[p] # NoRow
LinkTaken(p, k) == \E q \in Phone \ {p} : link[q] = k

WriteContact(p, st, k) ==
    /\ sync' = [sync EXCEPT ![p] = st]
    /\ link' = [link EXCEPT ![p] = k]
    /\ UNCHANGED <<chats, chatDeal>>

-----------------------------------------------------------------------------
(* A request: resolveCustomerAndLead.                                      *)

OthersOfTask == <<resync, crashes>>

At(t, pc) == task[t].pc = pc
ChatOf(t) == <<task[t].phone, task[t].channel>>

Goto(t, pc)         == task' = [task EXCEPT ![t] = [@ EXCEPT !.pc = pc]]
GotoWith(t, pc, k)  == task' = [task EXCEPT ![t] = [@ EXCEPT !.pc = pc, !.id = k]]
GotoDeal(t, pc, d)  == task' = [task EXCEPT ![t] = [@ EXCEPT !.pc = pc, !.deal = d]]
Finish(t)           == task' = [task EXCEPT ![t] = IdleTask]

\* Bug: a message that names no channel is filed under none.
Begin_NoChannel(t, p, c) ==
    /\ At(t, "idle")
    /\ task' = [task EXCEPT ![t] = [IdleTask EXCEPT !.pc = "find", !.phone = p]]
    /\ UNCHANGED <<database, crm, OthersOfTask>>

\* A message of customer p arrives at, or is to be sent from, channel c.
Begin(t, p, c) ==
    /\ At(t, "idle")
    /\ task' = [task EXCEPT ![t] = [IdleTask EXCEPT !.pc = "find", !.phone = p, !.channel = c]]
    /\ UNCHANGED <<database, crm, OthersOfTask>>

\* ensureContact: a contact that exists is used as it is.
FindContact(t) ==
    /\ At(t, "find")
    /\ IF Taken(task[t].phone) THEN GotoWith(t, "chat", link[task[t].phone])
                               ELSE Goto(t, "search")
    /\ UNCHANGED <<database, crm, OthersOfTask>>

\* The search of the CRM; an error counts as "not found".
SearchContact(t) ==
    /\ At(t, "search")
    /\ \/ \E k \in Matches(task[t].phone) : GotoWith(t, "adopt", k)
       \/ Matches(task[t].phone) = {} /\ Goto(t, "create")
       \/ "crmError" \in Faults /\ Goto(t, "create")
    /\ UNCHANGED <<database, crm, OthersOfTask>>

\* The contact is mirrored from the CRM; a unique column may refuse it.  The
\* touch that follows may fail with the row in place.
Adopt(t) ==
    /\ At(t, "adopt")
    /\ IF Taken(task[t].phone) \/ LinkTaken(task[t].phone, task[t].id)
       THEN Goto(t, "threw") /\ UNCHANGED database
       ELSE /\ WriteContact(task[t].phone, "SYNCED", task[t].id)
            /\ \/ Goto(t, "chat")
               \/ "dbError" \in Faults /\ Goto(t, "threw")
    /\ UNCHANGED <<crm, OthersOfTask>>

\* Bug: a row that is there already is taken for the one inserted.
Create_Joined(t) ==
    /\ At(t, "create")
    /\ IF Taken(task[t].phone) THEN UNCHANGED database
                               ELSE WriteContact(task[t].phone, "PENDING", NoId)
    /\ \/ Goto(t, "push")
       \/ "dbError" \in Faults /\ Goto(t, "threw")
    /\ UNCHANGED <<crm, OthersOfTask>>

\* The contact is created locally, before the CRM hears of it.
Create(t) ==
    /\ At(t, "create")
    /\ IF Taken(task[t].phone)
       THEN Goto(t, "threw") /\ UNCHANGED database
       ELSE /\ WriteContact(task[t].phone, "PENDING", NoId)
            /\ \/ Goto(t, "push")
               \/ "dbError" \in Faults /\ Goto(t, "threw")
    /\ UNCHANGED <<crm, OthersOfTask>>

\* ... and then in the CRM.
Push(t, k) ==
    /\ At(t, "push")
    /\ AddContact(task[t].phone, k)
    /\ GotoWith(t, "mark", k)
    /\ UNCHANGED <<database, OthersOfTask>>

\* The answer is lost, and the REST client posts again.
PushLost(t, k) ==
    /\ "lostAnswer" \in Faults
    /\ At(t, "push")
    /\ AddContact(task[t].phone, k)
    /\ UNCHANGED <<database, task, OthersOfTask>>

PushError(t) ==
    /\ "crmError" \in Faults
    /\ At(t, "push")
    /\ Goto(t, "unmark")
    /\ UNCHANGED <<database, crm, OthersOfTask>>

\* markSynced, which the unique link may refuse, ...
Mark(t) ==
    /\ At(t, "mark")
    /\ IF LinkTaken(task[t].phone, task[t].id)
       THEN Goto(t, "unmark") /\ UNCHANGED database
       ELSE WriteContact(task[t].phone, "SYNCED", task[t].id) /\ Goto(t, "reload")
    /\ UNCHANGED <<crm, OthersOfTask>>

\* ... and the row is read again.
Reload(t) ==
    /\ At(t, "reload")
    /\ GotoWith(t, "chat", link[task[t].phone])
    /\ UNCHANGED <<database, crm, OthersOfTask>>

\* Bug: markSyncFailed also clears the link.
Unmark_Unlinks(t) ==
    /\ At(t, "unmark")
    /\ WriteContact(task[t].phone, "FAILED", NoId)
    /\ GotoWith(t, "chat", NoId)
    /\ UNCHANGED <<crm, OthersOfTask>>

\* markSyncFailed; the request goes on with the row it inserted, unlinked.
Unmark(t) ==
    /\ At(t, "unmark")
    /\ sync' = [sync EXCEPT ![task[t].phone] = "FAILED"]
    /\ GotoWith(t, "chat", NoId)
    /\ UNCHANGED <<link, chats, chatDeal, crm, OthersOfTask>>

\* ensureConversation.
FindChat(t) ==
    /\ At(t, "chat")
    /\ IF ChatOf(t) \in chats THEN GotoDeal(t, "deal", chatDeal[ChatOf(t)])
                              ELSE Goto(t, "newChat")
    /\ UNCHANGED <<database, crm, OthersOfTask>>

\* The unique pair of contact and channel may refuse it.
CreateChat(t) ==
    /\ At(t, "newChat")
    /\ IF ChatOf(t) \in chats THEN Goto(t, "threw") ELSE GotoDeal(t, "deal", NoDeal)
    /\ chats' = chats \cup {ChatOf(t)}
    /\ UNCHANGED <<sync, link, chatDeal, crm, OthersOfTask>>

\* ensureOpenDeal: the linked deal is used while it is open; an error of getDeal
\* counts as "missing".  A contact the CRM does not know gets no deal.
CheckDeal(t) ==
    /\ At(t, "deal")
    /\ \/ task[t].deal \in open /\ Finish(t)
       \/ /\ task[t].deal \notin open \/ "crmError" \in Faults
          /\ IF task[t].id = NoId THEN Finish(t) ELSE Goto(t, "searchDeal")
    /\ UNCHANGED <<database, crm, OthersOfTask>>

\* Bug: the search also returns closed deals of any contact.
SearchDeal_AnyContact(t) ==
    /\ At(t, "searchDeal")
    /\ \/ \E d \in open : GotoDeal(t, "linkDeal", d)
       \/ open = {} /\ Goto(t, "newDeal")
    /\ UNCHANGED <<database, crm, OthersOfTask>>

\* Bug: without a linked deal a new one is created, whatever the CRM has.
SearchDeal_Skipped(t) ==
    /\ At(t, "searchDeal")
    /\ Goto(t, "newDeal")
    /\ UNCHANGED <<database, crm, OthersOfTask>>

\* Another open deal of the contact; an error counts as "none".
SearchDeal(t) ==
    /\ At(t, "searchDeal")
    /\ \/ \E d \in Newest(task[t].id) :
             IF d = task[t].deal THEN Finish(t) ELSE GotoDeal(t, "linkDeal", d)
       \/ OpenDeals(task[t].id) = {} /\ Goto(t, "newDeal")
       \/ "searchError" \in Faults /\ Goto(t, "newDeal")
    /\ UNCHANGED <<database, crm, OthersOfTask>>

CreateDeal(t, d) ==
    /\ At(t, "newDeal")
    /\ AddDeal(task[t].id, d)
    /\ GotoDeal(t, "linkNew", d)
    /\ UNCHANGED <<database, OthersOfTask>>

CreateDealLost(t, d) ==
    /\ "lostAnswer" \in Faults
    /\ At(t, "newDeal")
    /\ AddDeal(task[t].id, d)
    /\ UNCHANGED <<database, task, OthersOfTask>>

\* The message is stored all the same.
CreateDealError(t) ==
    /\ "crmError" \in Faults
    /\ At(t, "newDeal")
    /\ Finish(t)
    /\ UNCHANGED <<database, crm, OthersOfTask>>

\* The conversation is linked to the deal that was found or created.
LinkDeal(t) ==
    /\ At(t, "linkDeal") \/ At(t, "linkNew")
    /\ chatDeal' = [chatDeal EXCEPT ![ChatOf(t)] = task[t].deal]
    /\ Finish(t)
    /\ UNCHANGED <<sync, link, chats, crm, OthersOfTask>>

\* A database call throws.  Pushing a contact and creating a deal catch it, ...
TaskDbError(t) ==
    /\ "dbError" \in Faults
    /\ \/ (At(t, "mark") \/ At(t, "reload")) /\ Goto(t, "unmark")
       \/ (At(t, "newDeal") \/ At(t, "linkNew")) /\ Finish(t)
       \/ /\ \E pc \in {"find", "adopt", "create", "unmark", "chat", "newChat", "linkDeal"} : At(t, pc)
          /\ Goto(t, "threw")
    /\ UNCHANGED <<database, crm, OthersOfTask>>

\* ... everywhere else the event is logged as failed and acknowledged.
Reject(t) ==
    /\ At(t, "threw")
    /\ Finish(t)
    /\ UNCHANGED <<database, crm, OthersOfTask>>

TaskStep(t) ==
    \/ \E p \in Phone, c \in Channel : Begin(t, p, c)
    \/ FindContact(t) \/ SearchContact(t) \/ Adopt(t) \/ Create(t) \/ PushError(t)
    \/ \E k \in CrmContact : Push(t, k) \/ PushLost(t, k)
    \/ Mark(t) \/ Reload(t) \/ Unmark(t) \/ FindChat(t) \/ CreateChat(t)
    \/ CheckDeal(t) \/ SearchDeal(t) \/ CreateDealError(t) \/ LinkDeal(t)
    \/ \E d \in Deal : CreateDeal(t, d) \/ CreateDealLost(t, d)
    \/ TaskDbError(t) \/ Reject(t)

-----------------------------------------------------------------------------
(* The job: ResyncContactsJob.                                             *)

OthersOfResync == <<task, crashes>>

\* Bug: contacts whose push has never been tried are not fetched.
Unsynced_FailedOnly == {p \in Phone : sync[p] = "FAILED"}

\* findUnsynced.
Unsynced == {p \in Phone : sync[p] \in {"PENDING", "FAILED"}}

\* The job turns to one of the contacts in todo, or the sweep is over.
NextContact(j, todo) ==
    \/ \E p \in todo : resync' = [resync EXCEPT ![j] =
          [pc |-> "search", todo |-> todo \ {p}, phone |-> p, id |-> NoId]]
    \/ todo = {} /\ resync' = [resync EXCEPT ![j] = IdleResync]

ResyncGoto(j, pc, k) == resync' = [resync EXCEPT ![j] = [@ EXCEPT !.pc = pc, !.id = k]]

ResyncScan(j) ==
    /\ resync[j].pc = "idle"
    /\ Unsynced # {}
    /\ NextContact(j, Unsynced)
    /\ UNCHANGED <<database, crm, OthersOfResync>>

\* _syncOne: search first; unlike in ensureContact an error is one.
ResyncSearch(j) ==
    /\ resync[j].pc = "search"
    /\ \/ \E k \in Matches(resync[j].phone) : ResyncGoto(j, "mark", k)
       \/ Matches(resync[j].phone) = {} /\ ResyncGoto(j, "create", NoId)
    /\ UNCHANGED <<database, crm, OthersOfResync>>

ResyncCreate(j, k) ==
    /\ resync[j].pc = "create"
    /\ AddContact(resync[j].phone, k)
    /\ ResyncGoto(j, "mark", k)
    /\ UNCHANGED <<database, OthersOfResync>>

ResyncCreateLost(j, k) ==
    /\ "lostAnswer" \in Faults
    /\ resync[j].pc = "create"
    /\ AddContact(resync[j].phone, k)
    /\ UNCHANGED <<database, resync, OthersOfResync>>

ResyncCrmError(j) ==
    /\ "crmError" \in Faults
    /\ resync[j].pc \in {"search", "create"}
    /\ ResyncGoto(j, "fail", NoId)
    /\ UNCHANGED <<database, crm, OthersOfResync>>

\* Bug: the id found for the previous contact is stored.
ResyncMark_AnyLink(j) ==
    /\ resync[j].pc = "mark"
    /\ \E k \in CrmContact : known[k] # {} /\ WriteContact(resync[j].phone, "SYNCED", k)
    /\ NextContact(j, resync[j].todo)
    /\ UNCHANGED <<crm, OthersOfResync>>

\* markSynced, which the unique link may refuse.
ResyncMark(j) ==
    /\ resync[j].pc = "mark"
    /\ IF LinkTaken(resync[j].phone, resync[j].id)
       THEN ResyncGoto(j, "fail", NoId) /\ UNCHANGED database
       ELSE /\ WriteContact(resync[j].phone, "SYNCED", resync[j].id)
            /\ NextContact(j, resync[j].todo)
    /\ UNCHANGED <<crm, OthersOfResync>>

\* markSyncFailed.
ResyncFail(j) ==
    /\ resync[j].pc = "fail"
    /\ sync' = [sync EXCEPT ![resync[j].phone] = "FAILED"]
    /\ NextContact(j, resync[j].todo)
    /\ UNCHANGED <<link, chats, chatDeal, crm, OthersOfResync>>

\* A database call throws: in the catch it ends the sweep.
ResyncDbError(j) ==
    /\ "dbError" \in Faults
    /\ \/ resync[j].pc = "mark" /\ ResyncGoto(j, "fail", NoId)
       \/ resync[j].pc = "fail" /\ resync' = [resync EXCEPT ![j] = IdleResync]
    /\ UNCHANGED <<database, crm, OthersOfResync>>

\* What the job does next when the database and the CRM answer.
ResyncProgress(j) ==
    \/ ResyncScan(j) \/ ResyncSearch(j) \/ ResyncMark(j) \/ ResyncFail(j)
    \/ \E k \in CrmContact : ResyncCreate(j, k)

ResyncStep(j) ==
    \/ ResyncProgress(j) \/ ResyncCrmError(j) \/ ResyncDbError(j)
    \/ \E k \in CrmContact : ResyncCreateLost(j, k)

-----------------------------------------------------------------------------

\* The process is killed and restarted: every request is forgotten, rows stay.
Crash ==
    /\ crashes < MaxCrashes
    /\ crashes' = crashes + 1
    /\ task'    = [t \in Task |-> IdleTask]
    /\ resync'  = [j \in Job |-> IdleResync]
    /\ UNCHANGED <<database, crm>>

Next ==
    \/ \E t \in Task : TaskStep(t)
    \/ \E j \in Job : ResyncStep(j)
    \/ \E d \in Deal : CloseDeal(d)
    \/ Crash

Spec == Init /\ [][Next]_vars

\* setInterval starts sweeps for ever and an awaited call returns or throws; of the
\* calls to Bitrix24 that are made for a phone again and again, some succeed.
Fairness ==
    \A j \in Job :
        /\ WF_vars(ResyncProgress(j))
        /\ \A p \in Phone :
               /\ SF_vars(resync[j].phone = p /\ ResyncSearch(j))
               /\ SF_vars(resync[j].phone = p /\ \E k \in CrmContact : ResyncCreate(j, k))
FairSpec == Spec /\ Fairness

-----------------------------------------------------------------------------
(* What holds.                                                             *)

\* Every variable has its type.
TypeOK ==
    /\ sync     \in [Phone -> Sync \cup {NoRow}]
    /\ link     \in [Phone -> CrmId]
    /\ chats    \in SUBSET Chat
    /\ chatDeal \in [Chat -> Deal \cup {NoDeal}]
    /\ known    \in [CrmContact -> SUBSET Phone]
    /\ owner    \in [Deal -> CrmId]
    /\ open     \in SUBSET Deal
    /\ task     \in [Task -> TaskState]
    /\ resync   \in [Job -> ResyncState]
    /\ crashes  \in 0..MaxCrashes

\* A contact is linked to a Bitrix24 contact that has its phone, and is linked once
\* it counts as synced: no interleaving of requests and the job stores an id that was
\* learnt for somebody else (ensureContact, _syncOne).
LinkIsCustomers ==
    \A p \in Phone :
        /\ link[p] # NoId => p \in known[link[p]]
        /\ sync[p] = "SYNCED" => link[p] # NoId

\* The deal a conversation is linked to belongs to a Bitrix24 contact that has the
\* customer's phone, so no timeline shows another customer's messages (ensureOpenDeal).
DealIsCustomers ==
    \A c \in chats : chatDeal[c] # NoDeal =>
        LET k == owner[chatDeal[c]] IN k # NoId /\ c[1] \in known[k]

\* Every contact that was stored is synced in the end, whatever was killed when.
ContactIsSynced == \A p \in Phone : sync[p] # NoRow ~> sync[p] = "SYNCED"

-----------------------------------------------------------------------------
(* What the comments promise and the code does not keep.                   *)

\* "the message must never be dropped" (conversation.service.js ensureContact): no
\* request fails while the database and the CRM answer.
NeverDropped == \A t \in Task : task[t].pc # "threw"
=============================================================================
