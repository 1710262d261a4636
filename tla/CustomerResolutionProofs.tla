---------------------- MODULE CustomerResolutionProofs ----------------------
(***************************************************************************)
(* CustomerResolution for every set of phones, Bitrix24 contacts, deals,    *)
(* requests and job instances, whatever the faults: type correctness, and   *)
(* that no link and no deal of one customer ends at another.                *)
(***************************************************************************)
EXTENDS CustomerResolution, TLAPS

\* A step of a request from one place to another keeps the types of requests.
LEMMA GotoTypes ==
    ASSUME TypeOK, NEW t \in Task
    PROVE  /\ \A pc \in TaskPc : Goto(t, pc) => task' \in [Task -> TaskState]
           /\ \A pc \in TaskPc, k \in CrmId : GotoWith(t, pc, k) => task' \in [Task -> TaskState]
           /\ \A pc \in TaskPc, d \in Deal \cup {NoDeal} :
                 GotoDeal(t, pc, d) => task' \in [Task -> TaskState]
           /\ Finish(t) => task' \in [Task -> TaskState]
<1>1. task[t] \in TaskState
  BY DEF TypeOK
<1>2. \A pc \in TaskPc : Goto(t, pc) => task' \in [Task -> TaskState]
  <2>1. \A pc \in TaskPc : [task[t] EXCEPT !.pc = pc] \in TaskState
    BY <1>1 DEF TaskState
  <2>2. QED
    BY <2>1 DEF Goto, TypeOK
<1>3. \A pc \in TaskPc, k \in CrmId : GotoWith(t, pc, k) => task' \in [Task -> TaskState]
  <2>1. \A pc \in TaskPc, k \in CrmId : [task[t] EXCEPT !.pc = pc, !.id = k] \in TaskState
    BY <1>1 DEF TaskState
  <2>2. QED
    BY <2>1 DEF GotoWith, TypeOK
<1>4. \A pc \in TaskPc, d \in Deal \cup {NoDeal} :
                 GotoDeal(t, pc, d) => task' \in [Task -> TaskState]
  <2>1. \A pc \in TaskPc, d \in Deal \cup {NoDeal} :
           [task[t] EXCEPT !.pc = pc, !.deal = d] \in TaskState
    BY <1>1 DEF TaskState
  <2>2. QED
    BY <2>1 DEF GotoDeal, TypeOK
<1>5. Finish(t) => task' \in [Task -> TaskState]
  <2>1. IdleTask \in TaskState
    BY DEF IdleTask, TaskState, TaskPc, CrmId
  <2>2. QED
    BY <2>1 DEF Finish, TypeOK
<1>6. QED
  BY <1>2, <1>3, <1>4, <1>5

\* The same of the job.
LEMMA ResyncGotoTypes ==
    ASSUME TypeOK, NEW j \in Job
    PROVE  /\ \A pc \in ResyncPc, k \in CrmId :
                 ResyncGoto(j, pc, k) => resync' \in [Job -> ResyncState]
           /\ \A todo \in SUBSET Phone :
                 NextContact(j, todo) => resync' \in [Job -> ResyncState]
<1>1. resync[j] \in ResyncState
  BY DEF TypeOK
<1>2. ASSUME NEW pc \in ResyncPc, NEW k \in CrmId, ResyncGoto(j, pc, k)
      PROVE  resync' \in [Job -> ResyncState]
  <2>1. [resync[j] EXCEPT !.pc = pc, !.id = k] \in ResyncState
    BY <1>1 DEF ResyncState
  <2>2. QED
    BY <1>2, <2>1 DEF ResyncGoto, TypeOK
<1>3. ASSUME NEW todo \in SUBSET Phone, NextContact(j, todo)
      PROVE  resync' \in [Job -> ResyncState]
  <2>1. IdleResync \in ResyncState
    BY DEF IdleResync, ResyncState, ResyncPc, CrmId
  <2>2. \A p \in todo :
           [pc |-> "search", todo |-> todo \ {p}, phone |-> p, id |-> NoId] \in ResyncState
    BY DEF ResyncState, ResyncPc, CrmId
  <2>3. QED
    BY <1>3, <2>1, <2>2 DEF NextContact, TypeOK
<1>4. QED
  BY <1>2, <1>3

\* Writes to rows and to the CRM keep the types.
LEMMA WriteTypes ==
    ASSUME TypeOK
    PROVE  /\ \A p \in Phone, st \in Sync, k \in CrmId : WriteContact(p, st, k) =>
                 /\ sync' \in [Phone -> Sync \cup {NoRow}]
                 /\ link' \in [Phone -> CrmId]
           /\ \A p \in Phone, k \in CrmContact : AddContact(p, k) =>
                 known' \in [CrmContact -> SUBSET Phone]
           /\ \A k \in CrmId, d \in Deal : AddDeal(k, d) =>
                 /\ owner' \in [Deal -> CrmId]
                 /\ open' \in SUBSET Deal
BY DEF TypeOK, WriteContact, AddContact, AddDeal

\* A request that is under way has a phone and a channel.
TaskIsFor(t) ==
    task[t].pc # "idle" => task[t].phone \in Phone /\ task[t].channel \in Channel
ResyncIsFor(j) ==
    resync[j].pc # "idle" => resync[j].phone \in Phone

TypeInv ==
    /\ TypeOK
    /\ \A t \in Task : TaskIsFor(t)
    /\ \A j \in Job : ResyncIsFor(j)

\* Whoever goes on keeps its phone.
LEMMA GotoIsFor ==
    ASSUME TypeInv, NEW t \in Task, ~At(t, "idle"),
           \/ \E pc : Goto(t, pc)
           \/ \E pc, k : GotoWith(t, pc, k)
           \/ \E pc, d : GotoDeal(t, pc, d)
           \/ Finish(t)
    PROVE  \A u \in Task : TaskIsFor(u)'
<1> USE DEF TypeInv, TypeOK, TaskIsFor, At
<1>1. CASE \E pc : Goto(t, pc)
  BY <1>1 DEF Goto, TaskState
<1>2. CASE \E pc, k : GotoWith(t, pc, k)
  BY <1>2 DEF GotoWith, TaskState
<1>3. CASE \E pc, d : GotoDeal(t, pc, d)
  BY <1>3 DEF GotoDeal, TaskState
<1>4. CASE Finish(t)
  BY <1>4 DEF Finish, IdleTask
<1>5. QED
  BY <1>1, <1>2, <1>3, <1>4

\* Every step of a request preserves the types.
LEMMA TaskTypes ==
    ASSUME TypeInv, NEW t \in Task, TaskStep(t)
    PROVE  TypeInv'
<1> USE DEF OthersOfTask, database, crm
<1>t. TypeOK
  BY DEF TypeInv
<1>p. At(t, "idle") \/ (task[t].phone \in Phone /\ task[t].channel \in Channel)
  BY DEF TypeInv, TaskIsFor, At
<1>i. task[t].id \in CrmId /\ task[t].deal \in Deal \cup {NoDeal}
  BY <1>t DEF TypeOK, TaskState
<1>c. At(t, "idle") \/ ChatOf(t) \in Chat
  BY <1>p DEF ChatOf, Chat
<1>a. ASSUME ~At(t, "idle"),
             task' \in [Task -> TaskState],
             \/ \E pc : Goto(t, pc)
             \/ \E pc, k : GotoWith(t, pc, k)
             \/ \E pc, d : GotoDeal(t, pc, d)
             \/ Finish(t),
             sync' \in [Phone -> Sync \cup {NoRow}], link' \in [Phone -> CrmId],
             chats' \in SUBSET Chat, chatDeal' \in [Chat -> Deal \cup {NoDeal}],
             known' \in [CrmContact -> SUBSET Phone],
             owner' \in [Deal -> CrmId], open' \in SUBSET Deal,
             UNCHANGED OthersOfTask
      PROVE  TypeInv'
  <2>1. TypeOK'
    BY <1>a, <1>t DEF TypeOK
  <2>2. \A u \in Task : TaskIsFor(u)'
    BY <1>a, GotoIsFor
  <2>3. \A j \in Job : ResyncIsFor(j)'
    BY <1>a DEF TypeInv, ResyncIsFor
  <2>4. QED
    BY <2>1, <2>2, <2>3 DEF TypeInv
<1>w. /\ sync \in [Phone -> Sync \cup {NoRow}] /\ link \in [Phone -> CrmId]
      /\ chats \in SUBSET Chat /\ chatDeal \in [Chat -> Deal \cup {NoDeal}]
      /\ known \in [CrmContact -> SUBSET Phone]
      /\ owner \in [Deal -> CrmId] /\ open \in SUBSET Deal
  BY <1>t DEF TypeOK
<1>1. ASSUME NEW p \in Phone, NEW c \in Channel, Begin(t, p, c) PROVE TypeInv'
  <2>1. [IdleTask EXCEPT !.pc = "find", !.phone = p, !.channel = c] \in TaskState
    BY DEF IdleTask, TaskState, TaskPc, CrmId
  <2>2. TypeOK'
    BY <1>1, <1>t, <2>1 DEF Begin, TypeOK
  <2>3. \A u \in Task : TaskIsFor(u)'
    BY <1>1, <1>t DEF Begin, TypeInv, TypeOK, TaskIsFor, IdleTask
  <2>4. QED
    BY <1>1, <2>2, <2>3 DEF Begin, TypeInv, ResyncIsFor
<1>2. CASE FindContact(t)
  <2>1. link[task[t].phone] \in CrmId
    BY <1>2, <1>p, <1>w DEF FindContact, At
  <2>2. GotoWith(t, "chat", link[task[t].phone]) \/ Goto(t, "search")
    BY <1>2 DEF FindContact
  <2>3. task' \in [Task -> TaskState]
    BY <1>t, <2>1, <2>2, GotoTypes DEF TaskPc
  <2>4. QED
    BY <1>2, <1>a, <1>w, <2>2, <2>3 DEF FindContact, At
<1>3. CASE SearchContact(t)
  <2>1. (\E k \in CrmId : GotoWith(t, "adopt", k)) \/ Goto(t, "create")
    BY <1>3 DEF SearchContact, Matches, CrmId
  <2>2. task' \in [Task -> TaskState]
    BY <1>t, <2>1, GotoTypes DEF TaskPc
  <2>3. QED
    BY <1>3, <1>a, <1>w, <2>1, <2>2 DEF SearchContact, At
<1>4. CASE Adopt(t)
  <2>1. Goto(t, "threw") \/ Goto(t, "chat")
    BY <1>4 DEF Adopt
  <2>2. task' \in [Task -> TaskState]
    BY <1>t, <2>1, GotoTypes DEF TaskPc
  <2>3. UNCHANGED <<sync, link, chats, chatDeal>> \/ WriteContact(task[t].phone, "SYNCED", task[t].id)
    BY <1>4 DEF Adopt
  <2>4. /\ sync' \in [Phone -> Sync \cup {NoRow}]
        /\ link' \in [Phone -> CrmId]
    BY <1>4, <1>t, <1>w, <1>p, <1>i, <2>3, WriteTypes DEF Adopt, At, Sync
  <2>5. QED
    BY <1>4, <1>a, <1>w, <2>1, <2>2, <2>3, <2>4 DEF Adopt, At, WriteContact
<1>5. CASE Create(t)
  <2>1. Goto(t, "threw") \/ Goto(t, "push")
    BY <1>5 DEF Create
  <2>2. task' \in [Task -> TaskState]
    BY <1>t, <2>1, GotoTypes DEF TaskPc
  <2>3. UNCHANGED <<sync, link, chats, chatDeal>> \/ WriteContact(task[t].phone, "PENDING", NoId)
    BY <1>5 DEF Create
  <2>4. /\ sync' \in [Phone -> Sync \cup {NoRow}]
        /\ link' \in [Phone -> CrmId]
    BY <1>5, <1>t, <1>w, <1>p, <2>3, WriteTypes DEF Create, At, Sync, CrmId
  <2>5. QED
    BY <1>5, <1>a, <1>w, <2>1, <2>2, <2>3, <2>4 DEF Create, At, WriteContact
<1>6. CASE PushError(t)
  <2>1. task' \in [Task -> TaskState]
    BY <1>6, <1>t, GotoTypes DEF PushError, TaskPc
  <2>2. QED
    BY <1>6, <1>a, <1>w, <2>1 DEF PushError, At
<1>7. ASSUME NEW k \in CrmContact, Push(t, k) PROVE TypeInv'
  <2>1. k \in CrmId /\ task[t].phone \in Phone
    BY <1>7, <1>p DEF CrmId, Push, At
  <2>2. task' \in [Task -> TaskState]
    BY <1>7, <1>t, <2>1, GotoTypes DEF Push, TaskPc
  <2>3. known' \in [CrmContact -> SUBSET Phone]
    BY <1>7, <1>t, <2>1, WriteTypes DEF Push
  <2>4. QED
    BY <1>7, <1>a, <1>w, <2>2, <2>3 DEF Push, At, AddContact
<1>8. ASSUME NEW k \in CrmContact, PushLost(t, k) PROVE TypeInv'
  <2>1. task[t].phone \in Phone
    BY <1>8, <1>p DEF PushLost, At
  <2>2. known' \in [CrmContact -> SUBSET Phone]
    BY <1>8, <1>t, <2>1, WriteTypes DEF PushLost
  <2>3. QED
    BY <1>8, <1>t, <2>2 DEF PushLost, AddContact, TypeInv, TypeOK, TaskIsFor, ResyncIsFor
<1>9. CASE Mark(t)
  <2>1. Goto(t, "unmark") \/ Goto(t, "reload")
    BY <1>9 DEF Mark
  <2>2. task' \in [Task -> TaskState]
    BY <1>t, <2>1, GotoTypes DEF TaskPc
  <2>3. UNCHANGED <<sync, link, chats, chatDeal>> \/ WriteContact(task[t].phone, "SYNCED", task[t].id)
    BY <1>9 DEF Mark
  <2>4. /\ sync' \in [Phone -> Sync \cup {NoRow}]
        /\ link' \in [Phone -> CrmId]
    BY <1>9, <1>t, <1>w, <1>p, <1>i, <2>3, WriteTypes DEF Mark, At, Sync
  <2>5. QED
    BY <1>9, <1>a, <1>w, <2>1, <2>2, <2>3, <2>4 DEF Mark, At, WriteContact
<1>10. CASE Reload(t)
  <2>1. link[task[t].phone] \in CrmId
    BY <1>10, <1>p, <1>w DEF Reload, At
  <2>2. task' \in [Task -> TaskState]
    BY <1>10, <1>t, <2>1, GotoTypes DEF Reload, TaskPc
  <2>3. QED
    BY <1>10, <1>a, <1>w, <2>2 DEF Reload, At
<1>11. CASE Unmark(t)
  <2>1. task' \in [Task -> TaskState]
    BY <1>11, <1>t, GotoTypes DEF Unmark, TaskPc, CrmId
  <2>2. sync' \in [Phone -> Sync \cup {NoRow}]
    BY <1>11, <1>w DEF Unmark, Sync
  <2>3. QED
    BY <1>11, <1>a, <1>w, <2>1, <2>2 DEF Unmark, At
<1>12. CASE FindChat(t)
  <2>1. chatDeal[ChatOf(t)] \in Deal \cup {NoDeal}
    BY <1>12, <1>c, <1>w DEF FindChat, At
  <2>2. GotoDeal(t, "deal", chatDeal[ChatOf(t)]) \/ Goto(t, "newChat")
    BY <1>12 DEF FindChat
  <2>3. task' \in [Task -> TaskState]
    BY <1>t, <2>1, <2>2, GotoTypes DEF TaskPc
  <2>4. QED
    BY <1>12, <1>a, <1>w, <2>2, <2>3 DEF FindChat, At
<1>13. CASE CreateChat(t)
  <2>1. Goto(t, "threw") \/ GotoDeal(t, "deal", NoDeal)
    BY <1>13 DEF CreateChat
  <2>2. task' \in [Task -> TaskState]
    BY <1>t, <2>1, GotoTypes DEF TaskPc
  <2>3. chats' \in SUBSET Chat
    BY <1>13, <1>c, <1>w DEF CreateChat, At
  <2>4. QED
    BY <1>13, <1>a, <1>w, <2>1, <2>2, <2>3 DEF CreateChat, At
<1>14. CASE CheckDeal(t)
  <2>1. Finish(t) \/ Goto(t, "searchDeal")
    BY <1>14 DEF CheckDeal
  <2>2. task' \in [Task -> TaskState]
    BY <1>t, <2>1, GotoTypes DEF TaskPc
  <2>3. QED
    BY <1>14, <1>a, <1>w, <2>1, <2>2 DEF CheckDeal, At
<1>15. CASE SearchDeal(t)
  <2>1. Finish(t) \/ (\E d \in Deal \cup {NoDeal} : GotoDeal(t, "linkDeal", d)) \/ Goto(t, "newDeal")
    BY <1>15, <1>w DEF SearchDeal, Newest, OpenDeals
  <2>2. task' \in [Task -> TaskState]
    BY <1>t, <2>1, GotoTypes DEF TaskPc
  <2>3. QED
    BY <1>15, <1>a, <1>w, <2>1, <2>2 DEF SearchDeal, At
<1>16. CASE CreateDealError(t)
  <2>1. task' \in [Task -> TaskState]
    BY <1>16, <1>t, GotoTypes DEF CreateDealError
  <2>2. QED
    BY <1>16, <1>a, <1>w, <2>1 DEF CreateDealError, At
<1>17. CASE LinkDeal(t)
  <2>1. task' \in [Task -> TaskState]
    BY <1>17, <1>t, GotoTypes DEF LinkDeal
  <2>2. chatDeal' \in [Chat -> Deal \cup {NoDeal}]
    BY <1>17, <1>i, <1>w DEF LinkDeal
  <2>3. QED
    BY <1>17, <1>a, <1>w, <2>1, <2>2 DEF LinkDeal, At
<1>18. ASSUME NEW d \in Deal, CreateDeal(t, d) PROVE TypeInv'
  <2>1. task' \in [Task -> TaskState]
    BY <1>18, <1>t, GotoTypes DEF CreateDeal, TaskPc
  <2>2. owner' \in [Deal -> CrmId] /\ open' \in SUBSET Deal
    BY <1>18, <1>t, <1>i, WriteTypes DEF CreateDeal
  <2>3. QED
    BY <1>18, <1>a, <1>w, <2>1, <2>2 DEF CreateDeal, At, AddDeal
<1>19. ASSUME NEW d \in Deal, CreateDealLost(t, d) PROVE TypeInv'
  <2>1. owner' \in [Deal -> CrmId] /\ open' \in SUBSET Deal
    BY <1>19, <1>t, <1>i, WriteTypes DEF CreateDealLost
  <2>2. QED
    BY <1>19, <1>t, <2>1 DEF CreateDealLost, AddDeal, TypeInv, TypeOK, TaskIsFor, ResyncIsFor
<1>20. CASE TaskDbError(t)
  <2>1. Goto(t, "unmark") \/ Finish(t) \/ Goto(t, "threw")
    BY <1>20 DEF TaskDbError
  <2>2. task' \in [Task -> TaskState]
    BY <1>t, <2>1, GotoTypes DEF TaskPc
  <2>3. QED
    BY <1>20, <1>a, <1>w, <2>1, <2>2 DEF TaskDbError, At
<1>21. CASE Reject(t)
  <2>1. task' \in [Task -> TaskState]
    BY <1>21, <1>t, GotoTypes DEF Reject
  <2>2. QED
    BY <1>21, <1>a, <1>w, <2>1 DEF Reject, At
<1>22. QED
  BY <1>1, <1>2, <1>3, <1>4, <1>5, <1>6, <1>7, <1>8, <1>9, <1>10, <1>11, <1>12, <1>13, <1>14,
     <1>15, <1>16, <1>17, <1>18, <1>19, <1>20, <1>21 DEF TaskStep

\* The job turns to contacts of its backlog only.
LEMMA ResyncGotoIsFor ==
    ASSUME TypeInv, NEW j \in Job,
           \/ resync[j].pc # "idle" /\ \E pc, k : ResyncGoto(j, pc, k)
           \/ \E todo \in SUBSET Phone : NextContact(j, todo)
    PROVE  \A i \in Job : ResyncIsFor(i)'
<1> USE DEF TypeInv, TypeOK, ResyncIsFor
<1>1. CASE resync[j].pc # "idle" /\ \E pc, k : ResyncGoto(j, pc, k)
  BY <1>1 DEF ResyncGoto, ResyncState
<1>2. CASE \E todo \in SUBSET Phone : NextContact(j, todo)
  BY <1>2 DEF NextContact, IdleResync
<1>3. QED
  BY <1>1, <1>2

\* Every step of the job preserves the types.
LEMMA ResyncTypes ==
    ASSUME TypeInv, NEW j \in Job, ResyncStep(j)
    PROVE  TypeInv'
<1> USE DEF OthersOfResync, database, crm
<1>t. TypeOK
  BY DEF TypeInv
<1>p. resync[j].pc # "idle" => resync[j].phone \in Phone
  BY DEF TypeInv, ResyncIsFor
<1>i. resync[j].id \in CrmId /\ resync[j].todo \in SUBSET Phone
  BY <1>t DEF TypeOK, ResyncState
<1>w. /\ sync \in [Phone -> Sync \cup {NoRow}] /\ link \in [Phone -> CrmId]
      /\ known \in [CrmContact -> SUBSET Phone]
  BY <1>t DEF TypeOK
<1>a. ASSUME \/ /\ resync[j].pc # "idle"
                /\ \E pc \in ResyncPc, k \in CrmId : ResyncGoto(j, pc, k)
             \/ \E todo \in SUBSET Phone : NextContact(j, todo),
             sync' \in [Phone -> Sync \cup {NoRow}], link' \in [Phone -> CrmId],
             known' \in [CrmContact -> SUBSET Phone],
             UNCHANGED <<chats, chatDeal, owner, open, task, crashes>>
      PROVE  TypeInv'
  <2>1. resync' \in [Job -> ResyncState]
    BY <1>a, <1>t, ResyncGotoTypes
  <2>2. TypeOK'
    BY <1>a, <1>t, <2>1 DEF TypeOK
  <2>3. \A i \in Job : ResyncIsFor(i)'
    BY <1>a, ResyncGotoIsFor
  <2>4. \A u \in Task : TaskIsFor(u)'
    BY <1>a DEF TypeInv, TaskIsFor
  <2>5. QED
    BY <2>2, <2>3, <2>4 DEF TypeInv
<1>1. CASE ResyncScan(j)
  <2>1. Unsynced \in SUBSET Phone
    BY DEF Unsynced
  <2>2. QED
    BY <1>1, <1>a, <1>w, <2>1 DEF ResyncScan
<1>2. CASE ResyncSearch(j)
  <2>1. \E pc \in ResyncPc, k \in CrmId : ResyncGoto(j, pc, k)
    BY <1>2 DEF ResyncSearch, ResyncPc, CrmId, Matches
  <2>2. QED
    BY <1>2, <1>a, <1>w, <2>1 DEF ResyncSearch
<1>3. CASE ResyncMark(j)
  <2>1. CASE LinkTaken(resync[j].phone, resync[j].id)
    <3>1. ResyncGoto(j, "fail", NoId) /\ "fail" \in ResyncPc /\ NoId \in CrmId
      BY <1>3, <2>1 DEF ResyncMark, ResyncPc, CrmId
    <3>2. QED
      BY <1>3, <1>a, <1>w, <2>1, <3>1 DEF ResyncMark
  <2>2. CASE ~LinkTaken(resync[j].phone, resync[j].id)
    <3>1. WriteContact(resync[j].phone, "SYNCED", resync[j].id) /\ NextContact(j, resync[j].todo)
      BY <1>3, <2>2 DEF ResyncMark
    <3>2. sync' \in [Phone -> Sync \cup {NoRow}] /\ link' \in [Phone -> CrmId]
      BY <1>3, <1>t, <1>p, <1>i, <3>1, WriteTypes DEF ResyncMark, Sync
    <3>3. QED
      BY <1>3, <1>a, <1>i, <1>w, <3>1, <3>2 DEF ResyncMark, WriteContact
  <2>3. QED
    BY <2>1, <2>2
<1>4. CASE ResyncFail(j)
  <2>1. sync' \in [Phone -> Sync \cup {NoRow}]
    BY <1>4, <1>w DEF ResyncFail, Sync
  <2>2. QED
    BY <1>4, <1>a, <1>i, <1>w, <2>1 DEF ResyncFail
<1>5. ASSUME NEW k \in CrmContact, ResyncCreate(j, k) PROVE TypeInv'
  <2>1. known' \in [CrmContact -> SUBSET Phone]
    BY <1>5, <1>t, <1>p, WriteTypes DEF ResyncCreate
  <2>2. ResyncGoto(j, "mark", k) /\ "mark" \in ResyncPc /\ k \in CrmId
    BY <1>5 DEF ResyncCreate, ResyncPc, CrmId
  <2>3. QED
    BY <1>5, <1>a, <1>w, <2>1, <2>2 DEF ResyncCreate, AddContact
<1>6. ASSUME NEW k \in CrmContact, ResyncCreateLost(j, k) PROVE TypeInv'
  <2>1. known' \in [CrmContact -> SUBSET Phone]
    BY <1>6, <1>t, <1>p, WriteTypes DEF ResyncCreateLost
  <2>2. QED
    BY <1>6, <1>t, <2>1 DEF ResyncCreateLost, AddContact, TypeInv, TypeOK, TaskIsFor, ResyncIsFor
<1>7. CASE ResyncCrmError(j)
  <2>1. ResyncGoto(j, "fail", NoId) /\ "fail" \in ResyncPc /\ NoId \in CrmId
    BY <1>7 DEF ResyncCrmError, ResyncPc, CrmId
  <2>2. QED
    BY <1>7, <1>a, <1>w, <2>1 DEF ResyncCrmError
<1>8. CASE ResyncDbError(j)
  <2>1. CASE ResyncGoto(j, "fail", NoId)
    <3>1. "fail" \in ResyncPc /\ NoId \in CrmId
      BY DEF ResyncPc, CrmId
    <3>2. resync[j].pc # "idle"
      BY <1>8 DEF ResyncDbError
    <3>3. QED
      BY <1>8, <1>a, <1>w, <2>1, <3>1, <3>2 DEF ResyncDbError
  <2>2. CASE resync' = [resync EXCEPT ![j] = IdleResync]
    <3>1. NextContact(j, {})
      BY <2>2 DEF NextContact
    <3>2. QED
      BY <1>8, <1>a, <1>w, <3>1 DEF ResyncDbError
  <2>3. QED
    BY <1>8, <2>1, <2>2 DEF ResyncDbError
<1>9. QED
  BY <1>1, <1>2, <1>3, <1>4, <1>5, <1>6, <1>7, <1>8 DEF ResyncStep, ResyncProgress

LEMMA InitTypes == Init => TypeInv
<1> SUFFICES ASSUME Init PROVE TypeInv
  OBVIOUS
<1> USE DEF Init
<1>1. IdleTask \in TaskState /\ IdleResync \in ResyncState
  BY DEF IdleTask, TaskState, TaskPc, IdleResync, ResyncState, ResyncPc, CrmId
<1>2. TypeOK
  BY <1>1, BookAssumption, KillsAssumption DEF TypeOK, CrmId
<1>3. QED
  BY <1>2 DEF TypeInv, TaskIsFor, ResyncIsFor, IdleTask, IdleResync

LEMMA NextTypes == TypeInv /\ [Next]_vars => TypeInv'
<1> SUFFICES ASSUME TypeInv, [Next]_vars PROVE TypeInv'
  OBVIOUS
<1>1. ASSUME NEW t \in Task, TaskStep(t) PROVE TypeInv'
  BY <1>1, TaskTypes
<1>2. ASSUME NEW j \in Job, ResyncStep(j) PROVE TypeInv'
  BY <1>2, ResyncTypes
<1>3. ASSUME NEW d \in Deal, CloseDeal(d) PROVE TypeInv'
  BY <1>3 DEF CloseDeal, database, TypeInv, TypeOK, TaskIsFor, ResyncIsFor
<1>4. CASE Crash
  <2>1. IdleTask \in TaskState /\ IdleResync \in ResyncState
    BY DEF IdleTask, TaskState, TaskPc, IdleResync, ResyncState, ResyncPc, CrmId
  <2>2. crashes' \in 0..MaxCrashes
    BY <1>4, KillsAssumption DEF Crash, TypeInv, TypeOK
  <2>3. TypeOK'
    BY <1>4, <2>1, <2>2 DEF Crash, database, crm, TypeInv, TypeOK
  <2>4. QED
    BY <1>4, <2>3 DEF Crash, TypeInv, TaskIsFor, ResyncIsFor, IdleTask, IdleResync
<1>5. CASE UNCHANGED vars
  BY <1>5 DEF vars, database, crm, TypeInv, TypeOK, TaskIsFor, ResyncIsFor
<1>6. QED
  BY <1>1, <1>2, <1>3, <1>4, <1>5 DEF Next

\* Every variable keeps its type, and a request or sweep under way has its phone.
THEOREM TypesHold == Spec => []TypeInv
BY InitTypes, NextTypes, PTL DEF Spec

\* Every variable keeps its type.
THEOREM TypeCorrect == Spec => []TypeOK
<1>1. TypeInv => TypeOK
  BY DEF TypeInv
<1>2. QED
  BY <1>1, TypesHold, PTL

-----------------------------------------------------------------------------
(***************************************************************************)
(* Links.  Whatever requests and the job interleave, the Bitrix24 contact   *)
(* and the deals stored for a customer are the customer's.                  *)
(*                                                                          *)
(* A task stores an id it learnt some awaits ago, so the invariant says what *)
(* every task knows of the ids it holds.  It stays true because Bitrix24    *)
(* takes nothing back (CrmGrows).                                           *)
(***************************************************************************)

\* The deal belongs to a Bitrix24 contact that has the phone.
IsDealOf(d, p) == owner[d] # NoId /\ p \in known[owner[d]]

\* So it does after the step.
StaysDealOf(d, p) == owner'[d] # NoId /\ p \in known'[owner'[d]]

\* A request holds ids of its own customer only, and has one where it needs it.
TaskKnows(t) ==
    /\ task[t].id # NoId => task[t].phone \in known[task[t].id]
    /\ task[t].deal # NoDeal => IsDealOf(task[t].deal, task[t].phone)
    /\ task[t].pc \in {"adopt", "mark", "searchDeal", "newDeal"} => task[t].id # NoId

\* So does the job.
ResyncKnows(j) ==
    resync[j].pc = "mark" =>
        resync[j].id # NoId /\ resync[j].phone \in known[resync[j].id]

\* What DealIsCustomers says, of conversations that are yet to come too.
DealsKnown == \A c \in Chat : chatDeal[c] # NoDeal => IsDealOf(chatDeal[c], c[1])

LinksKnown ==
    /\ LinkIsCustomers
    /\ DealsKnown
    /\ \A t \in Task : TaskKnows(t)
    /\ \A j \in Job : ResyncKnows(j)

LinkInv == TypeInv /\ LinksKnown

\* Bitrix24 neither takes a phone from a contact nor gives a deal to another one.
CrmGrows ==
    /\ \A k \in CrmContact : known[k] \subseteq known'[k]
    /\ \A d \in Deal : owner[d] # NoId => owner'[d] = owner[d]

LEMMA StepsGrow ==
    ASSUME TypeOK
    PROVE  /\ UNCHANGED <<known, owner>> => CrmGrows
           /\ \A p \in Phone, k \in CrmContact : AddContact(p, k) => CrmGrows
           /\ \A k \in CrmId, d \in Deal : AddDeal(k, d) => CrmGrows
BY DEF TypeOK, CrmGrows, AddContact, AddDeal

\* What is known of a deal or an id stays known.
LEMMA DealKept ==
    ASSUME TypeOK, CrmGrows, NEW d \in Deal, NEW p, IsDealOf(d, p)
    PROVE  IsDealOf(d, p)'
BY DEF TypeOK, CrmGrows, IsDealOf, CrmId

LEMMA RowsKept ==
    ASSUME TypeOK, CrmGrows
    PROVE  /\ LinkIsCustomers /\ UNCHANGED <<sync, link>> => LinkIsCustomers'
           /\ DealsKnown /\ UNCHANGED chatDeal => DealsKnown'
<1>1. LinkIsCustomers /\ UNCHANGED <<sync, link>> => LinkIsCustomers'
  BY DEF TypeOK, CrmGrows, LinkIsCustomers, CrmId
<1>2. ASSUME DealsKnown, UNCHANGED chatDeal PROVE DealsKnown'
  <2> SUFFICES ASSUME NEW c \in Chat, chatDeal[c] # NoDeal PROVE IsDealOf(chatDeal[c], c[1])'
    BY <1>2 DEF DealsKnown
  <2>1. chatDeal[c] \in Deal /\ IsDealOf(chatDeal[c], c[1])
    BY <1>2 DEF DealsKnown, TypeOK
  <2>2. QED
    BY <1>2, <2>1 DEF TypeOK, CrmGrows, IsDealOf, CrmId
<1>3. QED
  BY <1>1, <1>2

\* A row written with an id of its customer, or not yet synced, is in order.
LEMMA WriteKept ==
    ASSUME TypeOK, LinkIsCustomers, CrmGrows, NEW p \in Phone, NEW st, NEW k \in CrmId,
           WriteContact(p, st, k),
           k # NoId => p \in known[k],
           st = "SYNCED" => k # NoId
    PROVE  LinkIsCustomers'
BY DEF TypeOK, LinkIsCustomers, CrmGrows, WriteContact, CrmId

\* A task that does not move keeps what it knows.
LEMMA TaskKept ==
    ASSUME TypeOK, CrmGrows, NEW u \in Task, TaskKnows(u), task'[u] = task[u]
    PROVE  TaskKnows(u)'
<1>1. task[u].id \in CrmId /\ task[u].deal \in Deal \cup {NoDeal}
  BY DEF TypeOK, TaskState
<1>2. QED
  BY <1>1 DEF TypeOK, CrmGrows, TaskKnows, IsDealOf, CrmId

LEMMA ResyncKept ==
    ASSUME TypeOK, CrmGrows, NEW i \in Job, ResyncKnows(i), resync'[i] = resync[i]
    PROVE  ResyncKnows(i)'
<1>1. resync[i].id \in CrmId
  BY DEF TypeOK, ResyncState
<1>2. QED
  BY <1>1 DEF CrmGrows, ResyncKnows, CrmId

\* A request goes on with what it knew, or with an id or a deal of its customer.
LEMMA MoveKept ==
    ASSUME TypeOK, CrmGrows, NEW t \in Task, \A u \in Task : TaskKnows(u),
           \/ \E pc : Goto(t, pc)
                /\ (pc \in {"adopt", "mark", "searchDeal", "newDeal"} => task[t].id # NoId)
           \/ \E pc : \E k \in CrmId : GotoWith(t, pc, k)
                /\ (k # NoId => task[t].phone \in known'[k])
                /\ (pc \in {"adopt", "mark", "searchDeal", "newDeal"} => k # NoId)
           \/ \E pc : \E d \in Deal \cup {NoDeal} : GotoDeal(t, pc, d)
                /\ (d # NoDeal => StaysDealOf(d, task[t].phone))
                /\ pc \notin {"adopt", "mark", "searchDeal", "newDeal"}
           \/ Finish(t)
    PROVE  \A u \in Task : TaskKnows(u)'
<1>1. \A u \in Task \ {t} : task'[u] = task[u]
  BY DEF Goto, GotoWith, GotoDeal, Finish, TypeOK
<1>2. \A u \in Task \ {t} : TaskKnows(u)'
  BY <1>1, TaskKept
<1>s. task[t] \in TaskState /\ task[t].id \in CrmId /\ task[t].deal \in Deal \cup {NoDeal}
  BY DEF TypeOK, TaskState
<1>k. task[t].id # NoId => task[t].phone \in known'[task[t].id]
  BY <1>s DEF TaskKnows, CrmGrows, CrmId
<1>d. task[t].deal # NoDeal => StaysDealOf(task[t].deal, task[t].phone)
  BY <1>s DEF TaskKnows, IsDealOf, StaysDealOf, CrmGrows, TypeOK, CrmId
<1>3. ASSUME NEW pc, Goto(t, pc),
             pc \in {"adopt", "mark", "searchDeal", "newDeal"} => task[t].id # NoId
      PROVE  TaskKnows(t)'
  <2>1. /\ task'[t].pc = pc /\ task'[t].id = task[t].id
        /\ task'[t].deal = task[t].deal /\ task'[t].phone = task[t].phone
    BY <1>3, <1>s DEF Goto, TypeOK, TaskState
  <2>2. QED
    BY <1>3, <1>k, <1>d, <2>1 DEF TaskKnows, IsDealOf, StaysDealOf
<1>4. ASSUME NEW pc, NEW k \in CrmId, GotoWith(t, pc, k),
             k # NoId => task[t].phone \in known'[k],
             pc \in {"adopt", "mark", "searchDeal", "newDeal"} => k # NoId
      PROVE  TaskKnows(t)'
  <2>1. /\ task'[t].pc = pc /\ task'[t].id = k
        /\ task'[t].deal = task[t].deal /\ task'[t].phone = task[t].phone
    BY <1>4, <1>s DEF GotoWith, TypeOK, TaskState
  <2>2. QED
    BY <1>4, <1>d, <2>1 DEF TaskKnows, IsDealOf, StaysDealOf
<1>5. ASSUME NEW pc, NEW d \in Deal \cup {NoDeal}, GotoDeal(t, pc, d),
             d # NoDeal => StaysDealOf(d, task[t].phone),
             pc \notin {"adopt", "mark", "searchDeal", "newDeal"}
      PROVE  TaskKnows(t)'
  <2>1. /\ task'[t].pc = pc /\ task'[t].id = task[t].id
        /\ task'[t].deal = d /\ task'[t].phone = task[t].phone
    BY <1>5, <1>s DEF GotoDeal, TypeOK, TaskState
  <2>2. QED
    BY <1>5, <1>k, <2>1 DEF TaskKnows, IsDealOf, StaysDealOf
<1>6. ASSUME Finish(t) PROVE TaskKnows(t)'
  <2>1. task'[t] = IdleTask
    BY <1>6 DEF Finish, TypeOK
  <2>2. task'[t].pc = "idle" /\ task'[t].id = NoId /\ task'[t].deal = NoDeal
    BY <2>1 DEF IdleTask
  <2>3. QED
    BY <2>2 DEF TaskKnows, IsDealOf
<1>7. TaskKnows(t)'
  BY <1>3, <1>4, <1>5, <1>6
<1>8. QED
  BY <1>2, <1>7

\* The job goes on with an id of its contact, or with none.
LEMMA ResyncMoveKept ==
    ASSUME TypeOK, CrmGrows, NEW j \in Job, \A i \in Job : ResyncKnows(i),
           \/ \E pc : \E k \in CrmId : ResyncGoto(j, pc, k)
                /\ (pc = "mark" => k # NoId /\ resync[j].phone \in known'[k])
           \/ \E todo \in SUBSET Phone : NextContact(j, todo)
    PROVE  \A i \in Job : ResyncKnows(i)'
<1>1. \A i \in Job \ {j} : resync'[i] = resync[i]
  BY DEF ResyncGoto, NextContact, TypeOK
<1>2. \A i \in Job \ {j} : ResyncKnows(i)'
  BY <1>1, ResyncKept
<1>3. ASSUME NEW pc, NEW k \in CrmId, ResyncGoto(j, pc, k),
             pc = "mark" => k # NoId /\ resync[j].phone \in known'[k]
      PROVE  ResyncKnows(j)'
  <2>1. resync[j] \in ResyncState
    BY DEF TypeOK
  <2>2. resync'[j].pc = pc /\ resync'[j].id = k /\ resync'[j].phone = resync[j].phone
    BY <1>3, <2>1 DEF ResyncGoto, TypeOK, ResyncState
  <2>3. QED
    BY <1>3, <2>2 DEF ResyncKnows
<1>4. ASSUME NEW todo \in SUBSET Phone, NextContact(j, todo)
      PROVE  ResyncKnows(j)'
  BY <1>4 DEF NextContact, IdleResync, ResyncKnows, TypeOK
<1>5. ResyncKnows(j)'
  BY <1>3, <1>4
<1>6. QED
  BY <1>2, <1>5

\* A step of a request preserves what is known.
LEMMA TaskLinks ==
    ASSUME LinkInv, NEW t \in Task, TaskStep(t)
    PROVE  LinksKnown'
<1> USE DEF OthersOfTask, database, crm
<1>t. TypeOK /\ LinkIsCustomers /\ DealsKnown /\ (\A u \in Task : TaskKnows(u))
  BY DEF LinkInv, LinksKnown, TypeInv
<1>k. TaskKnows(t)
  BY <1>t
<1>p. At(t, "idle") \/ (task[t].phone \in Phone /\ task[t].channel \in Channel)
  BY DEF LinkInv, TypeInv, TaskIsFor, At
<1>i. task[t].id \in CrmId /\ task[t].deal \in Deal \cup {NoDeal}
  BY <1>t DEF TypeOK, TaskState
<1>n. NoId \in CrmId /\ CrmContact \subseteq CrmId
  BY DEF CrmId
<1>r. ASSUME CrmGrows, UNCHANGED resync PROVE \A j \in Job : ResyncKnows(j)'
  BY <1>r, <1>t, ResyncKept DEF LinkInv, LinksKnown
\* Steps that write no row.
<1>q. ASSUME UNCHANGED <<sync, link, chatDeal, known, owner, resync>>,
             \A u \in Task : TaskKnows(u)'
      PROVE  LinksKnown'
  <2>1. CrmGrows
    BY <1>q, <1>t, StepsGrow
  <2>2. QED
    BY <1>q, <1>r, <1>t, <2>1, RowsKept DEF LinksKnown
<1>g. UNCHANGED <<known, owner>> => CrmGrows
  BY <1>t, StepsGrow
<1>1. ASSUME NEW p \in Phone, NEW c \in Channel, Begin(t, p, c)
      PROVE  LinksKnown'
  <2>1. \A u \in Task \ {t} : task'[u] = task[u]
    BY <1>1, <1>t DEF Begin, TypeOK
  <2>2. task'[t].pc = "find" /\ task'[t].id = NoId /\ task'[t].deal = NoDeal
    BY <1>1, <1>t DEF Begin, TypeOK, IdleTask
  <2>3. \A u \in Task : TaskKnows(u)'
    BY <1>1, <1>t, <1>g, <2>1, <2>2, TaskKept DEF Begin, TaskKnows
  <2>4. QED
    BY <1>1, <1>q, <2>3 DEF Begin
<1>2. CASE FindContact(t)
  <2>1. CASE GotoWith(t, "chat", link[task[t].phone])
    <3>1. link[task[t].phone] \in CrmId /\ known' = known
      BY <1>2, <1>p, <1>t DEF FindContact, At, TypeOK
    <3>2. link[task[t].phone] # NoId => task[t].phone \in known'[link[task[t].phone]]
      BY <1>2, <1>p, <1>t, <3>1 DEF FindContact, At, LinkIsCustomers
    <3>3. \A u \in Task : TaskKnows(u)'
      BY <1>2, <1>t, <1>g, <2>1, <3>1, <3>2, MoveKept DEF FindContact
    <3>4. QED
      BY <1>2, <1>q, <3>3 DEF FindContact
  <2>2. CASE Goto(t, "search")
    <3>1. \A u \in Task : TaskKnows(u)'
      BY <1>2, <1>t, <1>g, <2>2, MoveKept DEF FindContact
    <3>2. QED
      BY <1>2, <1>q, <3>1 DEF FindContact
  <2>3. QED
    BY <1>2, <2>1, <2>2 DEF FindContact
<1>3. CASE SearchContact(t)
  <2>1. ASSUME NEW k \in Matches(task[t].phone), GotoWith(t, "adopt", k) PROVE LinksKnown'
    <3>1. k \in CrmId /\ k # NoId /\ task[t].phone \in known'[k]
      BY <1>3, <1>n, NullAssumption DEF SearchContact, Matches
    <3>2. \A u \in Task : TaskKnows(u)'
      BY <1>3, <1>t, <1>g, <2>1, <3>1, MoveKept DEF SearchContact
    <3>3. QED
      BY <1>3, <1>q, <3>2 DEF SearchContact
  <2>2. CASE Goto(t, "create")
    <3>1. \A u \in Task : TaskKnows(u)'
      BY <1>3, <1>t, <1>g, <2>2, MoveKept DEF SearchContact
    <3>2. QED
      BY <1>3, <1>q, <3>1 DEF SearchContact
  <2>3. QED
    BY <1>3, <2>1, <2>2 DEF SearchContact
<1>4. CASE Adopt(t)
  <2>1. (Goto(t, "threw") \/ Goto(t, "chat")) /\ CrmGrows
    BY <1>4, <1>g DEF Adopt
  <2>2. \A u \in Task : TaskKnows(u)'
    BY <1>t, <2>1, MoveKept
  <2>3. task[t].phone \in Phone /\ task[t].id # NoId /\ task[t].phone \in known[task[t].id]
    BY <1>4, <1>p, <1>k DEF Adopt, At, TaskKnows
  <2>4. CASE WriteContact(task[t].phone, "SYNCED", task[t].id)
    <3>1. LinkIsCustomers'
      BY <1>t, <1>i, <2>1, <2>3, <2>4, WriteKept
    <3>2. QED
      BY <1>4, <1>r, <1>t, <2>1, <2>2, <2>4, <3>1, RowsKept DEF Adopt, LinksKnown, WriteContact
  <2>5. CASE UNCHANGED <<sync, link, chats, chatDeal>>
    BY <1>4, <1>q, <2>2, <2>5 DEF Adopt
  <2>6. QED
    BY <1>4, <2>4, <2>5 DEF Adopt
<1>5. CASE Create(t)
  <2>1. (Goto(t, "threw") \/ Goto(t, "push")) /\ CrmGrows
    BY <1>5, <1>g DEF Create
  <2>2. \A u \in Task : TaskKnows(u)'
    BY <1>t, <2>1, MoveKept
  <2>3. task[t].phone \in Phone
    BY <1>5, <1>p DEF Create, At
  <2>4. CASE WriteContact(task[t].phone, "PENDING", NoId)
    <3>1. LinkIsCustomers'
      BY <1>t, <1>n, <2>1, <2>3, <2>4, WriteKept
    <3>2. QED
      BY <1>5, <1>r, <1>t, <2>1, <2>2, <2>4, <3>1, RowsKept DEF Create, LinksKnown, WriteContact
  <2>5. CASE UNCHANGED <<sync, link, chats, chatDeal>>
    BY <1>5, <1>q, <2>2, <2>5 DEF Create
  <2>6. QED
    BY <1>5, <2>4, <2>5 DEF Create
<1>6. CASE PushError(t)
  <2>1. \A u \in Task : TaskKnows(u)'
    BY <1>6, <1>t, <1>g, MoveKept DEF PushError
  <2>2. QED
    BY <1>6, <1>q, <2>1 DEF PushError
<1>7. ASSUME NEW k \in CrmContact, Push(t, k) PROVE LinksKnown'
  <2>1. AddContact(task[t].phone, k) /\ task[t].phone \in Phone
    BY <1>7, <1>p DEF Push, At
  <2>2. CrmGrows
    BY <1>t, <2>1, StepsGrow
  <2>3. GotoWith(t, "mark", k) /\ k # NoId /\ task[t].phone \in known'[k]
    BY <1>7, <1>t, <2>1, NullAssumption DEF Push, AddContact, TypeOK
  <2>4. \A u \in Task : TaskKnows(u)'
    BY <1>n, <1>t, <2>2, <2>3, MoveKept
  <2>5. QED
    BY <1>7, <1>r, <1>t, <2>2, <2>4, RowsKept DEF Push, LinksKnown
<1>8. ASSUME NEW k \in CrmContact, PushLost(t, k) PROVE LinksKnown'
  <2>1. AddContact(task[t].phone, k) /\ task[t].phone \in Phone
    BY <1>8, <1>p DEF PushLost, At
  <2>2. CrmGrows
    BY <1>t, <2>1, StepsGrow
  <2>3. \A u \in Task : TaskKnows(u)'
    BY <1>8, <1>t, <2>2, TaskKept DEF PushLost
  <2>4. QED
    BY <1>8, <1>r, <1>t, <2>2, <2>3, RowsKept DEF PushLost, LinksKnown
<1>9. CASE Mark(t)
  <2>1. (Goto(t, "unmark") \/ Goto(t, "reload")) /\ CrmGrows
    BY <1>9, <1>g DEF Mark
  <2>2. \A u \in Task : TaskKnows(u)'
    BY <1>t, <2>1, MoveKept
  <2>3. task[t].phone \in Phone /\ task[t].id # NoId /\ task[t].phone \in known[task[t].id]
    BY <1>9, <1>p, <1>k DEF Mark, At, TaskKnows
  <2>4. CASE WriteContact(task[t].phone, "SYNCED", task[t].id)
    <3>1. LinkIsCustomers'
      BY <1>t, <1>i, <2>1, <2>3, <2>4, WriteKept
    <3>2. QED
      BY <1>9, <1>r, <1>t, <2>1, <2>2, <2>4, <3>1, RowsKept DEF Mark, LinksKnown, WriteContact
  <2>5. CASE UNCHANGED <<sync, link, chats, chatDeal>>
    BY <1>9, <1>q, <2>2, <2>5 DEF Mark
  <2>6. QED
    BY <1>9, <2>4, <2>5 DEF Mark
<1>10. CASE Reload(t)
  <2>1. link[task[t].phone] \in CrmId /\ known' = known
    BY <1>10, <1>p, <1>t DEF Reload, At, TypeOK
  <2>2. link[task[t].phone] # NoId => task[t].phone \in known'[link[task[t].phone]]
    BY <1>10, <1>p, <1>t, <2>1 DEF Reload, At, LinkIsCustomers
  <2>3. \A u \in Task : TaskKnows(u)'
    BY <1>10, <1>t, <1>g, <2>1, <2>2, MoveKept DEF Reload
  <2>4. QED
    BY <1>10, <1>q, <2>3 DEF Reload
<1>11. CASE Unmark(t)
  <2>1. \A u \in Task : TaskKnows(u)'
    BY <1>11, <1>t, <1>n, <1>g, MoveKept DEF Unmark
  <2>2. LinkIsCustomers'
    BY <1>11, <1>t DEF Unmark, LinkIsCustomers, TypeOK
  <2>3. QED
    BY <1>11, <1>g, <1>r, <1>t, <2>1, <2>2, RowsKept DEF Unmark, LinksKnown
<1>12. CASE FindChat(t)
  <2>1. CASE GotoDeal(t, "deal", chatDeal[ChatOf(t)])
    <3>1. ChatOf(t) \in Chat /\ ChatOf(t)[1] = task[t].phone
      BY <1>12, <1>p DEF FindChat, At, ChatOf, Chat
    <3>2. chatDeal[ChatOf(t)] \in Deal \cup {NoDeal}
      BY <1>t, <3>1 DEF TypeOK
    <3>3. chatDeal[ChatOf(t)] # NoDeal => StaysDealOf(chatDeal[ChatOf(t)], task[t].phone)
      BY <1>12, <1>t, <3>1 DEF FindChat, DealsKnown, IsDealOf, StaysDealOf
    <3>4. \A u \in Task : TaskKnows(u)'
      BY <1>12, <1>t, <1>g, <2>1, <3>2, <3>3, MoveKept DEF FindChat
    <3>5. QED
      BY <1>12, <1>q, <3>4 DEF FindChat
  <2>2. CASE Goto(t, "newChat")
    <3>1. \A u \in Task : TaskKnows(u)'
      BY <1>12, <1>t, <1>g, <2>2, MoveKept DEF FindChat
    <3>2. QED
      BY <1>12, <1>q, <3>1 DEF FindChat
  <2>3. QED
    BY <1>12, <2>1, <2>2 DEF FindChat
<1>13. CASE CreateChat(t)
  <2>1. Goto(t, "threw") \/ GotoDeal(t, "deal", NoDeal)
    BY <1>13 DEF CreateChat
  <2>2. \A u \in Task : TaskKnows(u)'
    BY <1>13, <1>t, <1>g, <2>1, MoveKept DEF CreateChat
  <2>3. QED
    BY <1>13, <1>q, <2>2 DEF CreateChat
<1>14. CASE CheckDeal(t)
  <2>1. Finish(t) \/ (Goto(t, "searchDeal") /\ task[t].id # NoId)
    BY <1>14 DEF CheckDeal
  <2>2. \A u \in Task : TaskKnows(u)'
    BY <1>14, <1>t, <1>g, <2>1, MoveKept DEF CheckDeal
  <2>3. QED
    BY <1>14, <1>q, <2>2 DEF CheckDeal
<1>15. CASE SearchDeal(t)
  <2>k. task[t].id # NoId /\ task[t].phone \in known[task[t].id]
    BY <1>15, <1>k DEF SearchDeal, At, TaskKnows
  <2>1. ASSUME NEW d \in Newest(task[t].id), GotoDeal(t, "linkDeal", d) PROVE LinksKnown'
    <3>1. d \in Deal /\ owner[d] = task[t].id
      BY <1>t DEF Newest, OpenDeals, TypeOK
    <3>2. StaysDealOf(d, task[t].phone)
      BY <1>15, <2>k, <3>1 DEF SearchDeal, StaysDealOf
    <3>3. \A u \in Task : TaskKnows(u)'
      BY <1>15, <1>t, <1>g, <2>1, <3>1, <3>2, MoveKept DEF SearchDeal
    <3>4. QED
      BY <1>15, <1>q, <3>3 DEF SearchDeal
  <2>2. CASE Finish(t) \/ Goto(t, "newDeal")
    <3>1. \A u \in Task : TaskKnows(u)'
      BY <1>15, <1>t, <1>g, <2>2, <2>k, MoveKept DEF SearchDeal
    <3>2. QED
      BY <1>15, <1>q, <3>1 DEF SearchDeal
  <2>3. QED
    BY <1>15, <2>1, <2>2 DEF SearchDeal
<1>16. CASE CreateDealError(t)
  <2>1. \A u \in Task : TaskKnows(u)'
    BY <1>16, <1>t, <1>g, MoveKept DEF CreateDealError
  <2>2. QED
    BY <1>16, <1>q, <2>1 DEF CreateDealError
<1>17. CASE LinkDeal(t)
  <2>1. \A u \in Task : TaskKnows(u)'
    BY <1>17, <1>t, <1>g, MoveKept DEF LinkDeal
  <2>2. DealsKnown'
    <3> SUFFICES ASSUME NEW c \in Chat, chatDeal'[c] # NoDeal
                 PROVE  IsDealOf(chatDeal[c], c[1])'
      BY DEF DealsKnown
    <3>1. CASE c = ChatOf(t)
      <4>1. chatDeal'[c] = task[t].deal /\ c[1] = task[t].phone
        BY <1>17, <1>t, <3>1 DEF LinkDeal, TypeOK, ChatOf
      <4>2. QED
        BY <1>17, <1>k, <4>1 DEF LinkDeal, TaskKnows, IsDealOf
    <3>2. CASE c # ChatOf(t)
      <4>1. chatDeal'[c] = chatDeal[c]
        BY <1>17, <1>t, <3>2 DEF LinkDeal, TypeOK
      <4>2. QED
        BY <1>17, <1>t, <4>1 DEF LinkDeal, DealsKnown, IsDealOf
    <3>3. QED
      BY <3>1, <3>2
  <2>3. QED
    BY <1>17, <1>g, <1>r, <1>t, <2>1, <2>2, RowsKept DEF LinkDeal, LinksKnown
<1>18. ASSUME NEW d \in Deal, CreateDeal(t, d) PROVE LinksKnown'
  <2>1. AddDeal(task[t].id, d) /\ task[t].id # NoId /\ task[t].phone \in known[task[t].id]
    BY <1>18, <1>k DEF CreateDeal, At, TaskKnows
  <2>2. CrmGrows
    BY <1>t, <1>i, <2>1, StepsGrow
  <2>3. StaysDealOf(d, task[t].phone)
    BY <1>t, <2>1 DEF AddDeal, StaysDealOf, TypeOK
  <2>4. \A u \in Task : TaskKnows(u)'
    BY <1>18, <1>t, <2>2, <2>3, MoveKept DEF CreateDeal
  <2>5. QED
    BY <1>18, <1>r, <1>t, <2>2, <2>4, RowsKept DEF CreateDeal, LinksKnown
<1>19. ASSUME NEW d \in Deal, CreateDealLost(t, d) PROVE LinksKnown'
  <2>1. CrmGrows
    BY <1>19, <1>t, <1>i, StepsGrow DEF CreateDealLost
  <2>2. \A u \in Task : TaskKnows(u)'
    BY <1>19, <1>t, <2>1, TaskKept DEF CreateDealLost
  <2>3. QED
    BY <1>19, <1>r, <1>t, <2>1, <2>2, RowsKept DEF CreateDealLost, LinksKnown
<1>20. CASE TaskDbError(t)
  <2>1. Goto(t, "unmark") \/ Finish(t) \/ Goto(t, "threw")
    BY <1>20 DEF TaskDbError
  <2>2. \A u \in Task : TaskKnows(u)'
    BY <1>20, <1>t, <1>g, <2>1, MoveKept DEF TaskDbError
  <2>3. QED
    BY <1>20, <1>q, <2>2 DEF TaskDbError
<1>21. CASE Reject(t)
  <2>1. \A u \in Task : TaskKnows(u)'
    BY <1>21, <1>t, <1>g, MoveKept DEF Reject
  <2>2. QED
    BY <1>21, <1>q, <2>1 DEF Reject
<1>22. QED
  BY <1>1, <1>2, <1>3, <1>4, <1>5, <1>6, <1>7, <1>8, <1>9, <1>10, <1>11, <1>12, <1>13, <1>14,
     <1>15, <1>16, <1>17, <1>18, <1>19, <1>20, <1>21 DEF TaskStep

\* So does a step of the job.
LEMMA ResyncLinks ==
    ASSUME LinkInv, NEW j \in Job, ResyncStep(j)
    PROVE  LinksKnown'
<1> USE DEF OthersOfResync, database, crm
<1>t. TypeOK /\ LinkIsCustomers /\ DealsKnown /\ (\A i \in Job : ResyncKnows(i))
  BY DEF LinkInv, LinksKnown, TypeInv
<1>k. ResyncKnows(j)
  BY <1>t
<1>p. resync[j].pc # "idle" => resync[j].phone \in Phone
  BY DEF LinkInv, TypeInv, ResyncIsFor
<1>i. resync[j].id \in CrmId /\ resync[j].todo \in SUBSET Phone
  BY <1>t DEF TypeOK, ResyncState
<1>n. NoId \in CrmId /\ CrmContact \subseteq CrmId
  BY DEF CrmId
<1>r. ASSUME CrmGrows, UNCHANGED task PROVE \A t \in Task : TaskKnows(t)'
  BY <1>r, <1>t, TaskKept DEF LinkInv, LinksKnown
<1>g. UNCHANGED <<known, owner>> => CrmGrows
  BY <1>t, StepsGrow
\* Steps that write no row.
<1>q. ASSUME UNCHANGED <<sync, link, chatDeal, known, owner, task>>,
             \A i \in Job : ResyncKnows(i)'
      PROVE  LinksKnown'
  BY <1>q, <1>g, <1>r, <1>t, RowsKept DEF LinksKnown
<1>1. CASE ResyncScan(j)
  <2>1. Unsynced \in SUBSET Phone
    BY DEF Unsynced
  <2>2. \A i \in Job : ResyncKnows(i)'
    BY <1>1, <1>t, <1>g, <2>1, ResyncMoveKept DEF ResyncScan
  <2>3. QED
    BY <1>1, <1>q, <2>2 DEF ResyncScan
<1>2. CASE ResyncSearch(j)
  <2>1. ASSUME NEW k \in Matches(resync[j].phone), ResyncGoto(j, "mark", k) PROVE LinksKnown'
    <3>1. k \in CrmId /\ k # NoId /\ resync[j].phone \in known'[k]
      BY <1>2, <1>n, NullAssumption DEF ResyncSearch, Matches
    <3>2. \A i \in Job : ResyncKnows(i)'
      BY <1>2, <1>t, <1>g, <2>1, <3>1, ResyncMoveKept DEF ResyncSearch
    <3>3. QED
      BY <1>2, <1>q, <3>2 DEF ResyncSearch
  <2>2. CASE ResyncGoto(j, "create", NoId)
    <3>1. \A i \in Job : ResyncKnows(i)'
      BY <1>2, <1>t, <1>n, <1>g, <2>2, ResyncMoveKept DEF ResyncSearch
    <3>2. QED
      BY <1>2, <1>q, <3>1 DEF ResyncSearch
  <2>3. QED
    BY <1>2, <2>1, <2>2 DEF ResyncSearch
<1>3. CASE ResyncMark(j)
  <2>1. CASE LinkTaken(resync[j].phone, resync[j].id)
    <3>1. ResyncGoto(j, "fail", NoId)
      BY <1>3, <2>1 DEF ResyncMark
    <3>2. \A i \in Job : ResyncKnows(i)'
      BY <1>3, <1>t, <1>n, <1>g, <2>1, <3>1, ResyncMoveKept DEF ResyncMark
    <3>3. QED
      BY <1>3, <1>q, <2>1, <3>2 DEF ResyncMark
  <2>2. CASE ~LinkTaken(resync[j].phone, resync[j].id)
    <3>1. WriteContact(resync[j].phone, "SYNCED", resync[j].id) /\ NextContact(j, resync[j].todo)
      BY <1>3, <2>2 DEF ResyncMark
    <3>2. CrmGrows
      BY <1>3, <1>g DEF ResyncMark
    <3>3. \A i \in Job : ResyncKnows(i)'
      BY <1>t, <1>i, <3>1, <3>2, ResyncMoveKept
    <3>4. LinkIsCustomers'
      BY <1>3, <1>t, <1>k, <1>p, <1>i, <3>1, <3>2, WriteKept DEF ResyncMark, ResyncKnows
    <3>5. QED
      BY <1>3, <1>r, <1>t, <3>1, <3>2, <3>3, <3>4, RowsKept DEF ResyncMark, LinksKnown, WriteContact
  <2>3. QED
    BY <2>1, <2>2
<1>4. CASE ResyncFail(j)
  <2>1. \A i \in Job : ResyncKnows(i)'
    BY <1>4, <1>t, <1>i, <1>g, ResyncMoveKept DEF ResyncFail
  <2>2. LinkIsCustomers'
    BY <1>4, <1>t DEF ResyncFail, LinkIsCustomers, TypeOK
  <2>3. QED
    BY <1>4, <1>g, <1>r, <1>t, <2>1, <2>2, RowsKept DEF ResyncFail, LinksKnown
<1>5. ASSUME NEW k \in CrmContact, ResyncCreate(j, k) PROVE LinksKnown'
  <2>1. AddContact(resync[j].phone, k) /\ resync[j].phone \in Phone
    BY <1>5, <1>p DEF ResyncCreate
  <2>2. CrmGrows
    BY <1>t, <2>1, StepsGrow
  <2>3. ResyncGoto(j, "mark", k) /\ k # NoId /\ resync[j].phone \in known'[k]
    BY <1>5, <1>t, <2>1, NullAssumption DEF ResyncCreate, AddContact, TypeOK
  <2>4. \A i \in Job : ResyncKnows(i)'
    BY <1>n, <1>t, <2>2, <2>3, ResyncMoveKept
  <2>5. QED
    BY <1>5, <1>r, <1>t, <2>2, <2>4, RowsKept DEF ResyncCreate, LinksKnown
<1>6. ASSUME NEW k \in CrmContact, ResyncCreateLost(j, k) PROVE LinksKnown'
  <2>1. CrmGrows
    BY <1>6, <1>t, <1>p, StepsGrow DEF ResyncCreateLost
  <2>2. \A i \in Job : ResyncKnows(i)'
    BY <1>6, <1>t, <2>1, ResyncKept DEF ResyncCreateLost
  <2>3. QED
    BY <1>6, <1>r, <1>t, <2>1, <2>2, RowsKept DEF ResyncCreateLost, LinksKnown
<1>7. CASE ResyncCrmError(j)
  <2>1. \A i \in Job : ResyncKnows(i)'
    BY <1>7, <1>t, <1>n, <1>g, ResyncMoveKept DEF ResyncCrmError
  <2>2. QED
    BY <1>7, <1>q, <2>1 DEF ResyncCrmError
<1>8. CASE ResyncDbError(j)
  <2>1. ResyncGoto(j, "fail", NoId) \/ NextContact(j, {})
    BY <1>8 DEF ResyncDbError, NextContact
  <2>2. \A i \in Job : ResyncKnows(i)'
    BY <1>8, <1>t, <1>n, <1>g, <2>1, ResyncMoveKept DEF ResyncDbError
  <2>3. QED
    BY <1>8, <1>q, <2>2 DEF ResyncDbError
<1>9. QED
  BY <1>1, <1>2, <1>3, <1>4, <1>5, <1>6, <1>7, <1>8 DEF ResyncStep, ResyncProgress

LEMMA InitLinks == Init => LinkInv
<1> SUFFICES ASSUME Init PROVE LinkInv
  OBVIOUS
<1>1. TypeInv
  BY InitTypes
<1>2. LinksKnown
  BY DEF Init, LinksKnown, LinkIsCustomers, DealsKnown, TaskKnows, ResyncKnows, IdleTask, IdleResync,
         NoRow, Chat
<1>3. QED
  BY <1>1, <1>2 DEF LinkInv

LEMMA NextLinks == LinkInv /\ [Next]_vars => LinkInv'
<1> SUFFICES ASSUME LinkInv, [Next]_vars PROVE LinkInv'
  OBVIOUS
<1>1. TypeInv'
  BY NextTypes DEF LinkInv
<1>t. TypeOK /\ LinkIsCustomers /\ DealsKnown
  BY DEF LinkInv, LinksKnown, TypeInv
<1>q. ASSUME UNCHANGED <<sync, link, chatDeal, known, owner, task, resync>> PROVE LinksKnown'
  <2>1. CrmGrows
    BY <1>q, <1>t, StepsGrow
  <2>2. (\A t \in Task : TaskKnows(t)') /\ (\A j \in Job : ResyncKnows(j)')
    BY <1>q, <1>t, <2>1, TaskKept, ResyncKept DEF LinkInv, LinksKnown
  <2>3. QED
    BY <1>q, <1>t, <2>1, <2>2, RowsKept DEF LinksKnown
<1>2. ASSUME NEW t \in Task, TaskStep(t) PROVE LinksKnown'
  BY <1>2, TaskLinks
<1>3. ASSUME NEW j \in Job, ResyncStep(j) PROVE LinksKnown'
  BY <1>3, ResyncLinks
<1>4. ASSUME NEW d \in Deal, CloseDeal(d) PROVE LinksKnown'
  BY <1>4, <1>q DEF CloseDeal, database
<1>5. ASSUME Crash PROVE LinksKnown'
  <2>1. CrmGrows
    BY <1>5, <1>t, StepsGrow DEF Crash, crm
  <2>2. (\A t \in Task : TaskKnows(t)') /\ (\A j \in Job : ResyncKnows(j)')
    BY <1>5 DEF Crash, TaskKnows, ResyncKnows, IdleTask, IdleResync, IsDealOf
  <2>3. QED
    BY <1>5, <1>t, <2>1, <2>2, RowsKept DEF Crash, database, LinksKnown
<1>6. ASSUME UNCHANGED vars PROVE LinksKnown'
  BY <1>6, <1>q DEF vars, database, crm
<1>7. LinksKnown'
  BY <1>2, <1>3, <1>4, <1>5, <1>6 DEF Next
<1>8. QED
  BY <1>1, <1>7 DEF LinkInv

THEOREM LinksHold == Spec => []LinkInv
BY InitLinks, NextLinks, PTL DEF Spec

\* A contact is linked to a Bitrix24 contact that has its phone, and is linked when it
\* counts as synced.
THEOREM LinksAreCustomers == Spec => []LinkIsCustomers
<1>1. LinkInv => LinkIsCustomers
  BY DEF LinkInv, LinksKnown
<1>2. QED
  BY <1>1, LinksHold, PTL

\* The deal of a conversation is one of a Bitrix24 contact that has the customer's phone.
THEOREM DealsAreCustomers == Spec => []DealIsCustomers
<1>1. LinkInv => DealIsCustomers
  BY DEF LinkInv, LinksKnown, TypeInv, TypeOK, DealsKnown, IsDealOf, DealIsCustomers
<1>2. QED
  BY <1>1, LinksHold, PTL
=============================================================================
