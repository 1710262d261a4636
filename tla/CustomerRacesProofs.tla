------------------------ MODULE CustomerRacesProofs ------------------------
(***************************************************************************)
(* What arbitrates between the tasks that resolve a customer.  The unique    *)
(* phone lets one request insert the row, and every task looks before it     *)
(* creates; so Bitrix24 has two contacts of a phone, or two open deals of a  *)
(* contact, only after two tasks were about to create one together.          *)
(***************************************************************************)
EXTENDS CustomerRaces, CustomerResolutionProofs, FiniteSetTheorems

\* The request that inserted the row of its phone, until it goes on with it.
Inserted(t) == task[t].pc \in {"push", "mark", "reload", "unmark"}

\* The job is at a contact, or will be.
InBacklog(j, p) == p \in resync[j].todo \/ (resync[j].pc # "idle" /\ resync[j].phone = p)

NoRowNoLink == \A p \in Phone : ~Taken(p) => link[p] = NoId

RowInv ==
    /\ NoRowNoLink
    /\ \A t \in Task : Inserted(t) => Taken(task[t].phone)
    /\ \A j \in Job, p \in Phone : InBacklog(j, p) => Taken(p)
    /\ \A t, u \in Task :
          At(t, "push") /\ At(u, "push") /\ task[t].phone = task[u].phone => t = u

\* Whoever is about to create a contact found none, and none has come since.
FirstContact(p) ==
    /\ ~TwoCreate(p)
    /\ ~Taken(p) => Matches(p) = {}
    /\ \A t \in Task : PushesFor(t, p) => Matches(p) = {}
    /\ \A j \in Job : CreatesFor(j, p) => Matches(p) = {}
    /\ \A k, l \in Matches(p) : k = l

\* So it is with deals.
FirstDeal(k) ==
    /\ ~TwoOpen(k)
    /\ \A t \in Task : Opens(t, k) => OpenDeals(k) = {}
    /\ \A d, e \in OpenDeals(k) : d = e

ContactInv == \A p \in Phone \ contested : Fresh(p) => FirstContact(p)
DealInv    == \A k \in CrmContact \ rushed : FirstDeal(k)

RaceInv == LinkInv /\ RowInv /\ ContactInv /\ DealInv

\* Rows are neither deleted nor linked to a Bitrix24 contact without the phone.
RowsGrow ==
    \A p \in Phone :
        /\ Taken(p) => Taken(p)'
        /\ link'[p] # link[p] =>
              Taken(p)' /\ (Taken(p) => link'[p] # NoId /\ p \in known[link'[p]])

LEMMA GotoPc ==
    ASSUME TypeOK, NEW t \in Task
    PROVE  /\ \A pc : Goto(t, pc) => task'[t] = [task[t] EXCEPT !.pc = pc]
           /\ \A pc, k : GotoWith(t, pc, k) => task'[t] = [task[t] EXCEPT !.pc = pc, !.id = k]
           /\ \A pc, d : GotoDeal(t, pc, d) => task'[t] = [task[t] EXCEPT !.pc = pc, !.deal = d]
           /\ Finish(t) => task'[t] = IdleTask
           /\ \/ \E pc : Goto(t, pc)
              \/ \E pc, k : GotoWith(t, pc, k)
              \/ \E pc, d : GotoDeal(t, pc, d)
              \/ Finish(t)
              => \A u \in Task \ {t} : task'[u] = task[u]
BY DEF TypeOK, Goto, GotoWith, GotoDeal, Finish

\* Of a step of a request to another place only the place matters here.
TaskGoes(t, places) ==
    /\ task'[t].pc \in places
    /\ task'[t].phone = task[t].phone \/ task'[t].pc = "idle"
    /\ \A u \in Task \ {t} : task'[u] = task[u]

LEMMA GotoGoes ==
    ASSUME TypeOK, NEW t \in Task, NEW places,
           \/ \E pc \in places : Goto(t, pc)
           \/ \E pc \in places : \E k : GotoWith(t, pc, k)
           \/ \E pc \in places : \E d : GotoDeal(t, pc, d)
           \/ Finish(t) /\ "idle" \in places
    PROVE  TaskGoes(t, places)
<1>1. task[t] \in TaskState
  BY DEF TypeOK
<1>2. \/ \E pc \in places : Goto(t, pc)
      \/ \E pc \in places : \E k : GotoWith(t, pc, k)
      \/ \E pc \in places : \E d : GotoDeal(t, pc, d)
      => task'[t].pc \in places /\ task'[t].phone = task[t].phone
  <2>1. \A pc : Goto(t, pc) => task'[t].pc = pc /\ task'[t].phone = task[t].phone
    BY <1>1 DEF TypeOK, TaskState, Goto
  <2>2. \A pc, k : GotoWith(t, pc, k) => task'[t].pc = pc /\ task'[t].phone = task[t].phone
    BY <1>1 DEF TypeOK, TaskState, GotoWith
  <2>3. \A pc, d : GotoDeal(t, pc, d) => task'[t].pc = pc /\ task'[t].phone = task[t].phone
    BY <1>1 DEF TypeOK, TaskState, GotoDeal
  <2>4. QED
    BY <2>1, <2>2, <2>3
<1>3. Finish(t) => task'[t].pc = "idle"
  BY DEF TypeOK, Finish, IdleTask
<1>4. QED
  BY <1>2, <1>3, GotoPc DEF TaskGoes

\* What a step of a request does to rows and to Bitrix24.
Harmless == TaskPc \ {"push", "mark", "reload", "unmark", "newDeal"}
Later    == Harmless \cup {"reload", "unmark"}

TaskEffect(t) ==
    /\ RowsGrow
    /\ \A u \in Task \ {t} : task'[u] = task[u]
    /\ Inserted(t)' => /\ task'[t].phone = task[t].phone
                       /\ Inserted(t) \/ At(t, "push")'
    /\ At(t, "push")' => ~Taken(task[t].phone) /\ Taken(task[t].phone)'
    /\ At(t, "newDeal")' => task'[t].id = task[t].id /\ OpenDeals(task[t].id) = {}
    /\ \/ UNCHANGED known
       \/ /\ At(t, "push") /\ ~At(t, "push")' /\ UNCHANGED sync
          /\ \E k \in CrmContact : AddContact(task[t].phone, k)
    /\ \/ UNCHANGED <<owner, open>>
       \/ /\ At(t, "newDeal") /\ ~At(t, "newDeal")'
          /\ \E d \in Deal : AddDeal(task[t].id, d)
    /\ UNCHANGED resync

\* A step that leaves rows of contacts and Bitrix24 alone and goes nowhere special.
LEMMA HarmlessEffect ==
    ASSUME TypeOK, NEW t \in Task, UNCHANGED <<known, owner, open, resync>>, RowsGrow,
           TaskGoes(t, Later),
           task'[t].pc \in {"reload", "unmark"} =>
              task'[t].phone = task[t].phone /\ Inserted(t)
    PROVE  TaskEffect(t)
BY DEF TaskEffect, TaskGoes, Harmless, Later, Inserted, At

LEMMA RowsSame ==
    ASSUME UNCHANGED <<sync, link>>
    PROVE  RowsGrow
BY DEF RowsGrow, Taken

LEMMA RowsWritten ==
    ASSUME TypeOK, NEW p \in Phone, NEW st \in Sync, NEW k \in CrmId, WriteContact(p, st, k),
           Taken(p) => k # NoId /\ p \in known[k]
    PROVE  RowsGrow /\ Taken(p)'
BY DEF TypeOK, WriteContact, RowsGrow, Taken, NoRow, Sync

LEMMA TaskEffects ==
    ASSUME LinkInv, NEW t \in Task, TaskStep(t),
           "lostAnswer" \notin Faults, "searchError" \notin Faults
    PROVE  TaskEffect(t)
<1> USE DEF OthersOfTask, database, crm
<1>t. TypeOK /\ task[t] \in TaskState
  BY DEF LinkInv, TypeInv, TypeOK
<1>p. ~At(t, "idle") => task[t].phone \in Phone
  BY DEF LinkInv, TypeInv, TaskIsFor, At
<1>k. TaskKnows(t)
  BY DEF LinkInv, LinksKnown
<1>1. ASSUME NEW p \in Phone, NEW c \in Channel, Begin(t, p, c) PROVE TaskEffect(t)
  <2>1. task'[t].pc = "find" /\ \A u \in Task \ {t} : task'[u] = task[u]
    BY <1>1, <1>t DEF Begin, IdleTask, TypeOK
  <2>2. RowsGrow
    BY <1>1, RowsSame DEF Begin
  <2>3. QED
    BY <1>1, <2>1, <2>2 DEF Begin, TaskEffect, Inserted, At
<1>2. ASSUME FindContact(t) \/ SearchContact(t) \/ PushError(t) \/ Reload(t) \/ FindChat(t)
             \/ CreateChat(t) \/ CheckDeal(t) \/ CreateDealError(t)
             \/ LinkDeal(t) \/ TaskDbError(t) \/ Reject(t)
      PROVE  TaskEffect(t)
  <2>1. UNCHANGED <<sync, link, known, owner, open, resync>>
    BY <1>2 DEF FindContact, SearchContact, PushError, Reload, FindChat, CreateChat, CheckDeal,
                CreateDealError, LinkDeal, TaskDbError, Reject
  <2>2. CASE \/ \E pc \in Harmless : Goto(t, pc)
             \/ \E pc \in Harmless : \E k : GotoWith(t, pc, k)
             \/ \E pc \in Harmless : \E d : GotoDeal(t, pc, d)
             \/ Finish(t)
    <3>1. TaskGoes(t, Harmless)
      BY <1>t, <2>2, GotoGoes DEF Harmless, TaskPc
    <3>2. QED
      BY <1>t, <2>1, <3>1, HarmlessEffect, RowsSame DEF TaskGoes, Harmless, Later
  <2>3. CASE Inserted(t) /\ Goto(t, "unmark")
    <3>0. \E pc \in {"unmark"} : Goto(t, pc)
      BY <2>3
    <3>1. TaskGoes(t, {"unmark"})
      BY <1>t, <3>0, GotoGoes
    <3>2. task'[t].pc = "unmark" /\ task'[t].phone = task[t].phone
      BY <3>1 DEF TaskGoes
    <3>3. QED
      BY <1>t, <2>1, <2>3, <3>1, <3>2, HarmlessEffect, RowsSame DEF TaskGoes, Later
  <2>4. QED
    BY <1>2, <2>2, <2>3 DEF FindContact, SearchContact, PushError, Reload, FindChat, CreateChat, CheckDeal,
                CreateDealError, LinkDeal, TaskDbError, Reject, Harmless, TaskPc, Inserted, At
<1>3. CASE Adopt(t)
  <2>1. \E pc \in Harmless : Goto(t, pc)
    BY <1>3 DEF Adopt, Harmless, TaskPc
  <2>2. TaskGoes(t, Harmless)
    BY <1>t, <2>1, GotoGoes
  <2>3. \/ UNCHANGED <<sync, link>>
        \/ ~Taken(task[t].phone) /\ WriteContact(task[t].phone, "SYNCED", task[t].id)
    BY <1>3 DEF Adopt
  <2>4. RowsGrow
    BY <1>3, <1>t, <1>p, <2>3, RowsSame, RowsWritten DEF Adopt, At, Sync, TaskState
  <2>5. QED
    BY <1>3, <1>t, <2>2, <2>4, HarmlessEffect DEF Adopt, TaskGoes, Harmless, Later
<1>4. CASE Create(t)
  <2>1. task[t].phone \in Phone /\ NoId \in CrmId /\ "PENDING" \in Sync
    BY <1>4, <1>p DEF Create, At, CrmId, Sync
  <2>2. CASE Goto(t, "threw")
    <3>1. TaskGoes(t, {"threw"})
      BY <1>t, <2>2, GotoGoes
    <3>2. RowsGrow
      BY <1>4, <1>t, <2>1, RowsSame, RowsWritten DEF Create
    <3>3. QED
      BY <1>4, <1>t, <3>1, <3>2, HarmlessEffect DEF Create, TaskGoes, Harmless, Later, TaskPc
  <2>3. CASE /\ Goto(t, "push") /\ ~Taken(task[t].phone)
             /\ WriteContact(task[t].phone, "PENDING", NoId)
    <3>1. TaskGoes(t, {"push"})
      BY <1>t, <2>3, GotoGoes
    <3>2. RowsGrow /\ Taken(task[t].phone)'
      <4>1. RowsGrow /\ sync'[task[t].phone] = "PENDING"
        BY <1>t, <2>1, <2>3, RowsWritten DEF WriteContact, TypeOK
      <4>2. task'[t].phone = task[t].phone
        BY <3>1 DEF TaskGoes
      <4>3. QED
        BY <4>1, <4>2 DEF Taken, NoRow
    <3>3. QED
      BY <1>4, <2>3, <3>1, <3>2 DEF Create, TaskEffect, TaskGoes, Inserted, At
  <2>4. QED
    BY <1>4, <2>2, <2>3 DEF Create
<1>5. ASSUME NEW k \in CrmContact, Push(t, k) PROVE TaskEffect(t)
  <2>1. TaskGoes(t, {"mark"})
    BY <1>5, <1>t, GotoGoes DEF Push
  <2>2. RowsGrow /\ UNCHANGED <<sync, link, owner, open, resync>> /\ At(t, "push")
    BY <1>5, RowsSame DEF Push, AddContact
  <2>3. AddContact(task[t].phone, k)
    BY <1>5 DEF Push
  <2>4. QED
    BY <2>1, <2>2, <2>3 DEF TaskEffect, TaskGoes, Inserted, At
<1>6. CASE Mark(t)
  <2>1. At(t, "mark") /\ task[t].phone \in Phone /\ task[t].id # NoId /\ task[t].id \in CrmId
        /\ task[t].phone \in known[task[t].id]
    BY <1>6, <1>t, <1>p, <1>k DEF Mark, At, TaskKnows, TaskState
  <2>2. TaskGoes(t, {"reload", "unmark"})
    BY <1>6, <1>t, GotoGoes DEF Mark
  <2>3. UNCHANGED <<sync, link>> \/ WriteContact(task[t].phone, "SYNCED", task[t].id)
    BY <1>6 DEF Mark
  <2>4. RowsGrow
    BY <1>t, <2>1, <2>3, RowsSame, RowsWritten DEF Sync
  <2>5. QED
    BY <1>6, <1>t, <2>1, <2>2, <2>4, HarmlessEffect DEF Mark, TaskGoes, Later, Inserted, At
<1>7. CASE Unmark(t)
  <2>1. TaskGoes(t, {"chat"})
    BY <1>7, <1>t, GotoGoes DEF Unmark
  <2>2. RowsGrow
    BY <1>7, <1>t DEF Unmark, RowsGrow, Taken, TypeOK, NoRow
  <2>3. QED
    BY <1>7, <1>t, <2>1, <2>2, HarmlessEffect DEF Unmark, TaskGoes, Harmless, Later, TaskPc
<1>8. CASE SearchDeal(t)
  <2>1. UNCHANGED <<sync, link, known, owner, open, resync>> /\ RowsGrow
    BY <1>8, RowsSame DEF SearchDeal
  <2>2. CASE (\E d : GotoDeal(t, "linkDeal", d)) \/ Finish(t)
    <3>1. TaskGoes(t, {"linkDeal", "idle"})
      BY <1>t, <2>2, GotoGoes
    <3>2. QED
      BY <1>t, <2>1, <3>1, HarmlessEffect DEF TaskGoes, Harmless, Later, TaskPc
  <2>3. CASE Goto(t, "newDeal") /\ OpenDeals(task[t].id) = {}
    <3>1. TaskGoes(t, {"newDeal"})
      BY <1>t, <2>3, GotoGoes
    <3>2. task'[t].id = task[t].id
      BY <1>t, <2>3 DEF Goto, TypeOK, TaskState
    <3>3. QED
      BY <2>1, <2>3, <3>1, <3>2 DEF TaskEffect, TaskGoes, Inserted, At
  <2>4. QED
    BY <1>8, <2>2, <2>3 DEF SearchDeal
<1>9. ASSUME NEW d \in Deal, CreateDeal(t, d) PROVE TaskEffect(t)
  <2>1. TaskGoes(t, {"linkNew"})
    BY <1>9, <1>t, GotoGoes DEF CreateDeal
  <2>2. RowsGrow /\ UNCHANGED <<known, resync>> /\ At(t, "newDeal") /\ AddDeal(task[t].id, d)
    BY <1>9, RowsSame DEF CreateDeal, AddDeal
  <2>3. QED
    BY <2>1, <2>2 DEF TaskEffect, TaskGoes, Inserted, At
<1>10. ASSUME NEW k \in CrmContact, PushLost(t, k) PROVE FALSE
  BY <1>10 DEF PushLost
<1>11. ASSUME NEW d \in Deal, CreateDealLost(t, d) PROVE FALSE
  BY <1>11 DEF CreateDealLost
<1>12. QED
  BY <1>1, <1>2, <1>3, <1>4, <1>5, <1>6, <1>7, <1>8, <1>9, <1>10, <1>11 DEF TaskStep

\* What a step of the job does.
ResyncEffect(j) ==
    /\ RowsGrow
    /\ \A i \in Job \ {j} : resync'[i] = resync[i]
    /\ \A p \in Phone : InBacklog(j, p)' => InBacklog(j, p) \/ Taken(p)
    /\ \A p \in Phone : CreatesFor(j, p)' => Matches(p) = {}
    /\ \/ UNCHANGED known
       \/ /\ resync[j].pc = "create" /\ resync'[j].pc # "create" /\ UNCHANGED sync
          /\ \E k \in CrmContact : AddContact(resync[j].phone, k)
    /\ UNCHANGED <<task, owner, open>>

LEMMA ResyncGoes ==
    ASSUME TypeOK, NEW j \in Job
    PROVE  /\ \A pc, k : ResyncGoto(j, pc, k) =>
                 /\ resync'[j].pc = pc
                 /\ resync'[j].phone = resync[j].phone
                 /\ resync'[j].todo = resync[j].todo
                 /\ \A i \in Job \ {j} : resync'[i] = resync[i]
           /\ \A todo \in SUBSET Phone : NextContact(j, todo) =>
                 /\ resync'[j].pc \in {"idle", "search"}
                 /\ \A p : InBacklog(j, p)' => p \in todo
                 /\ \A i \in Job \ {j} : resync'[i] = resync[i]
<1>1. resync[j] \in ResyncState
  BY DEF TypeOK
<1>2. ASSUME NEW pc, NEW k, ResyncGoto(j, pc, k)
      PROVE  /\ resync'[j].pc = pc
             /\ resync'[j].phone = resync[j].phone
             /\ resync'[j].todo = resync[j].todo
             /\ \A i \in Job \ {j} : resync'[i] = resync[i]
  BY <1>1, <1>2 DEF TypeOK, ResyncState, ResyncGoto
<1>3. ASSUME NEW todo \in SUBSET Phone, NextContact(j, todo)
      PROVE  /\ resync'[j].pc \in {"idle", "search"}
             /\ \A p : InBacklog(j, p)' => p \in todo
             /\ \A i \in Job \ {j} : resync'[i] = resync[i]
  BY <1>1, <1>3 DEF TypeOK, NextContact, InBacklog, IdleResync
<1>4. QED
  BY <1>2, <1>3

LEMMA ResyncEffects ==
    ASSUME LinkInv, NEW j \in Job, ResyncStep(j), "lostAnswer" \notin Faults
    PROVE  ResyncEffect(j)
<1> USE DEF OthersOfResync, database, crm
<1>t. TypeOK /\ resync[j] \in ResyncState
  BY DEF LinkInv, TypeInv, TypeOK
<1>p. resync[j].pc # "idle" => resync[j].phone \in Phone
  BY DEF LinkInv, TypeInv, ResyncIsFor
<1>k. ResyncKnows(j)
  BY DEF LinkInv, LinksKnown
<1>d. resync[j].todo \in SUBSET Phone
  BY <1>t DEF ResyncState
\* The sweep goes on with the rest of its backlog, or with what it has fetched.
<1>n. ASSUME NEW todo \in SUBSET Phone, NextContact(j, todo), RowsGrow,
             \A p \in todo : InBacklog(j, p) \/ Taken(p),
             UNCHANGED <<known, task, owner, open>>
      PROVE  ResyncEffect(j)
  <2>1. /\ resync'[j].pc \in {"idle", "search"}
        /\ \A p : InBacklog(j, p)' => p \in todo
        /\ \A i \in Job \ {j} : resync'[i] = resync[i]
    BY <1>n, <1>t, ResyncGoes
  <2>2. QED
    BY <1>n, <2>1 DEF ResyncEffect, CreatesFor
\* It stays at its contact.
<1>g. ASSUME NEW pc, NEW k, ResyncGoto(j, pc, k), resync[j].pc # "idle", RowsGrow,
             pc = "create" => Matches(resync[j].phone) = {},
             UNCHANGED <<known, task, owner, open>>
      PROVE  ResyncEffect(j)
  <2>1. /\ resync'[j].pc = pc
        /\ resync'[j].phone = resync[j].phone
        /\ resync'[j].todo = resync[j].todo
        /\ \A i \in Job \ {j} : resync'[i] = resync[i]
    BY <1>g, <1>t, ResyncGoes
  <2>2. QED
    BY <1>g, <2>1 DEF ResyncEffect, CreatesFor, InBacklog
<1>1. CASE ResyncScan(j)
  <2>1. Unsynced \in SUBSET Phone /\ \A p \in Unsynced : Taken(p)
    BY DEF Unsynced, Taken, NoRow
  <2>2. QED
    BY <1>1, <1>n, <2>1, RowsSame DEF ResyncScan
<1>2. CASE ResyncSearch(j)
  BY <1>2, <1>g, RowsSame DEF ResyncSearch
<1>3. CASE ResyncMark(j)
  <2>1. CASE ResyncGoto(j, "fail", NoId) /\ UNCHANGED database
    BY <1>3, <1>g, <2>1, RowsSame DEF ResyncMark
  <2>2. CASE /\ WriteContact(resync[j].phone, "SYNCED", resync[j].id)
             /\ NextContact(j, resync[j].todo)
    <3>1. /\ resync[j].phone \in Phone /\ resync[j].id \in CrmId /\ resync[j].id # NoId
          /\ resync[j].phone \in known[resync[j].id]
      BY <1>3, <1>t, <1>p, <1>k DEF ResyncMark, ResyncKnows, ResyncState
    <3>2. RowsGrow
      BY <1>t, <2>2, <3>1, RowsWritten DEF Sync
    <3>3. QED
      BY <1>3, <1>d, <1>n, <2>2, <3>2 DEF ResyncMark, InBacklog
  <2>3. QED
    BY <1>3, <2>1, <2>2 DEF ResyncMark
<1>4. CASE ResyncFail(j)
  <2>1. RowsGrow
    BY <1>4, <1>t DEF ResyncFail, RowsGrow, Taken, TypeOK, NoRow
  <2>2. QED
    BY <1>4, <1>d, <1>n, <2>1 DEF ResyncFail, InBacklog
<1>5. ASSUME NEW k \in CrmContact, ResyncCreate(j, k) PROVE ResyncEffect(j)
  <2>1. /\ resync'[j].pc = "mark"
        /\ resync'[j].phone = resync[j].phone
        /\ resync'[j].todo = resync[j].todo
        /\ \A i \in Job \ {j} : resync'[i] = resync[i]
    BY <1>5, <1>t, ResyncGoes DEF ResyncCreate
  <2>2. RowsGrow
    BY <1>5, RowsSame DEF ResyncCreate
  <2>3. QED
    BY <1>5, <2>1, <2>2 DEF ResyncCreate, ResyncEffect, CreatesFor, InBacklog, AddContact
<1>6. CASE ResyncCrmError(j)
  BY <1>6, <1>g, RowsSame DEF ResyncCrmError
<1>7. CASE ResyncDbError(j)
  <2>1. CASE ResyncGoto(j, "fail", NoId)
    BY <1>7, <1>g, <2>1, RowsSame DEF ResyncDbError
  <2>2. CASE resync' = [resync EXCEPT ![j] = IdleResync]
    <3>1. NextContact(j, {})
      BY <2>2 DEF NextContact
    <3>2. QED
      BY <1>7, <1>n, <3>1, RowsSame DEF ResyncDbError
  <2>3. QED
    BY <1>7, <2>1, <2>2 DEF ResyncDbError
<1>8. ASSUME NEW k \in CrmContact, ResyncCreateLost(j, k) PROVE FALSE
  BY <1>8 DEF ResyncCreateLost
<1>9. QED
  BY <1>1, <1>2, <1>3, <1>4, <1>5, <1>6, <1>7, <1>8 DEF ResyncStep, ResyncProgress

\* What the history variables say after a step.
Watched ==
    /\ contested \subseteq contested' /\ rushed \subseteq rushed'
    /\ \A p \in Phone \ contested' : Fresh(p) => ~TwoCreate(p)'
    /\ \A k \in CrmContact \ rushed' : ~TwoOpen(k)'

\* A deal is closed, tasks are forgotten, or nothing happens.
QuietEffect ==
    /\ UNCHANGED <<sync, link, known, owner>>
    /\ open' \subseteq open
    /\ \A t \in Task : task'[t] = task[t] \/ task'[t] = IdleTask
    /\ \A j \in Job : resync'[j] = resync[j] \/ resync'[j] = IdleResync

LEMMA Effects ==
    ASSUME LinkInv, [Next]_vars, "lostAnswer" \notin Faults, "searchError" \notin Faults
    PROVE  \/ \E t \in Task : TaskEffect(t)
           \/ \E j \in Job : ResyncEffect(j)
           \/ QuietEffect
<1>1. ASSUME NEW t \in Task, TaskStep(t) PROVE TaskEffect(t)
  BY <1>1, TaskEffects
<1>2. ASSUME NEW j \in Job, ResyncStep(j) PROVE ResyncEffect(j)
  BY <1>2, ResyncEffects
<1>3. ASSUME NEW d \in Deal, CloseDeal(d) PROVE QuietEffect
  BY <1>3 DEF CloseDeal, database, QuietEffect
<1>4. CASE Crash
  BY <1>4 DEF Crash, database, crm, QuietEffect
<1>5. CASE UNCHANGED vars
  BY <1>5 DEF vars, database, crm, QuietEffect
<1>6. QED
  BY <1>1, <1>2, <1>3, <1>4, <1>5 DEF Next

\* The unique phone: a request that inserts finds nobody else between insert and push.
LEMMA TaskRows ==
    ASSUME RowInv, LinkInv, LinkInv', NEW t \in Task, TaskEffect(t)
    PROVE  RowInv'
<1>p. \A u \in Task : (Inserted(u) => task[u].phone \in Phone)
                      /\ (Inserted(u)' => task'[u].phone \in Phone)
  BY DEF LinkInv, TypeInv, TaskIsFor, Inserted
<1>o. \A u \in Task \ {t} : task'[u] = task[u]
  BY DEF TaskEffect
<1>1. NoRowNoLink'
  BY DEF TaskEffect, RowsGrow, RowInv, NoRowNoLink
<1>2. ASSUME NEW u \in Task, Inserted(u)' PROVE Taken(task[u].phone)'
  <2>1. CASE u = t
    <3>1. task'[t].phone = task[t].phone /\ task[t].phone \in Phone
      BY <1>2, <1>p, <2>1 DEF TaskEffect
    <3>2. CASE Inserted(t)
      <4>1. Taken(task[t].phone)
        BY <3>2 DEF RowInv
      <4>2. QED
        BY <2>1, <3>1, <4>1 DEF TaskEffect, RowsGrow, Taken
    <3>3. CASE At(t, "push")'
      BY <2>1, <3>3 DEF TaskEffect
    <3>4. QED
      BY <1>2, <2>1, <3>2, <3>3 DEF TaskEffect
  <2>2. CASE u # t
    <3>1. task'[u] = task[u] /\ Inserted(u) /\ task[u].phone \in Phone
      BY <1>2, <1>o, <1>p, <2>2 DEF Inserted
    <3>2. Taken(task[u].phone)
      BY <3>1 DEF RowInv
    <3>3. QED
      BY <3>1, <3>2 DEF TaskEffect, RowsGrow, Taken
  <2>3. QED
    BY <2>1, <2>2
<1>3. \A j \in Job, p \in Phone : InBacklog(j, p)' => Taken(p)'
  BY DEF RowInv, TaskEffect, RowsGrow, InBacklog
<1>4. ASSUME NEW u \in Task, NEW v \in Task, At(u, "push")', At(v, "push")',
             task'[u].phone = task'[v].phone
      PROVE  u = v
  <2>1. ASSUME NEW w \in Task \ {t}, At(w, "push")', At(t, "push")',
               task'[w].phone = task'[t].phone
        PROVE  FALSE
    <3>1. task'[w] = task[w] /\ Inserted(w)
      BY <1>o, <2>1 DEF Inserted, At
    <3>2. Taken(task[w].phone) /\ ~Taken(task[t].phone) /\ task'[t].phone = task[t].phone
      BY <2>1, <3>1 DEF RowInv, TaskEffect, Inserted, At
    <3>3. QED
      BY <2>1, <3>1, <3>2
  <2>2. CASE u # t /\ v # t
    BY <1>4, <1>o, <2>2 DEF RowInv, At
  <2>3. QED
    BY <1>4, <2>1, <2>2
<1>5. QED
  BY <1>1, <1>2, <1>3, <1>4 DEF RowInv

LEMMA OtherRows ==
    ASSUME RowInv, LinkInv, QuietEffect \/ \E j \in Job : ResyncEffect(j)
    PROVE  RowInv'
<1>1. CASE QuietEffect
  <2>1. \A p : Taken(p)' <=> Taken(p)
    BY <1>1 DEF QuietEffect, Taken
  <2>2. \A u \in Task : Inserted(u)' => task'[u] = task[u] /\ Inserted(u)
    BY <1>1 DEF QuietEffect, Inserted, IdleTask
  <2>3. \A i \in Job, p \in Phone : InBacklog(i, p)' => InBacklog(i, p)
    BY <1>1 DEF QuietEffect, InBacklog, IdleResync
  <2>4. \A u \in Task : Inserted(u)' => Taken(task[u].phone)'
    BY <2>1, <2>2 DEF RowInv, Taken
  <2>5. \A i \in Job, p \in Phone : InBacklog(i, p)' => Taken(p)'
    BY <2>1, <2>3 DEF RowInv
  <2>6. NoRowNoLink'
    BY <1>1, <2>1 DEF QuietEffect, RowInv, NoRowNoLink
  <2>7. \A u, v \in Task :
          At(u, "push")' /\ At(v, "push")' /\ task'[u].phone = task'[v].phone => u = v
    BY <2>2 DEF RowInv, Inserted, At
  <2>8. QED
    BY <2>4, <2>5, <2>6, <2>7 DEF RowInv
<1>2. ASSUME NEW j \in Job, ResyncEffect(j) PROVE RowInv'
  <2>1. \A u \in Task : Inserted(u) => task[u].phone \in Phone
    BY DEF LinkInv, TypeInv, TaskIsFor, Inserted
  <2>2. task' = task /\ RowsGrow
    BY <1>2 DEF ResyncEffect
  <2>3. NoRowNoLink'
    BY <2>2 DEF RowsGrow, RowInv, NoRowNoLink
  <2>4. \A u \in Task : Inserted(u)' => Taken(task[u].phone)'
    BY <2>1, <2>2 DEF RowInv, RowsGrow, Inserted, Taken
  <2>5. ASSUME NEW i \in Job, NEW p \in Phone, InBacklog(i, p)' PROVE Taken(p)'
    <3>1. InBacklog(i, p) \/ Taken(p)
      BY <1>2, <2>5 DEF ResyncEffect, InBacklog
    <3>2. QED
      BY <2>2, <3>1 DEF RowInv, RowsGrow
  <2>6. \A u, v \in Task :
          At(u, "push")' /\ At(v, "push")' /\ task'[u].phone = task'[v].phone => u = v
    BY <2>2 DEF RowInv, At
  <2>7. QED
    BY <2>3, <2>4, <2>5, <2>6 DEF RowInv
<1>3. QED
  BY <1>1, <1>2

\* A phone stays without a second contact when nobody adds one and whoever is new among
\* those about to create it found none, ...
LEMMA FirstKept ==
    ASSUME NEW p \in Phone, FirstContact(p), ~TwoCreate(p)', Matches(p)' = Matches(p),
           Taken(p) => Taken(p)',
           \A t \in Task : PushesFor(t, p)' => PushesFor(t, p) \/ Matches(p) = {},
           \A j \in Job : CreatesFor(j, p)' => CreatesFor(j, p) \/ Matches(p) = {}
    PROVE  FirstContact(p)'
BY DEF FirstContact

\* ... and when the one who adds it was alone.
LEMMA FirstAdded ==
    ASSUME TypeOK, NEW p \in Phone, NEW k \in CrmContact, AddContact(p, k), ~TwoCreate(p)',
           Matches(p) = {}, Taken(p)',
           \A t \in Task : ~PushesFor(t, p)',
           \A j \in Job : ~CreatesFor(j, p)'
    PROVE  FirstContact(p)'
<1>1. Matches(p)' = {k}
  BY DEF TypeOK, Matches, AddContact
<1>2. QED
  BY <1>1 DEF FirstContact

LEMMA OthersMatch ==
    ASSUME TypeOK, NEW p \in Phone, NEW q \in Phone \ {p}, NEW k \in CrmContact, AddContact(q, k)
    PROVE  Matches(p)' = Matches(p)
BY DEF TypeOK, Matches, AddContact

LEMMA ContactStep ==
    ASSUME RaceInv, Watched,
           \/ \E t \in Task : TaskEffect(t)
           \/ \E j \in Job : ResyncEffect(j)
           \/ QuietEffect
    PROVE  ContactInv'
<1> SUFFICES ASSUME NEW p \in Phone, p \notin contested', Fresh(p) PROVE FirstContact(p)'
  BY DEF ContactInv, Fresh
<1>t. TypeOK
  BY DEF RaceInv, LinkInv, TypeInv
<1>f. FirstContact(p) /\ ~TwoCreate(p)'
  BY DEF RaceInv, ContactInv, Watched
<1>1. ASSUME NEW t \in Task, TaskEffect(t) PROVE FirstContact(p)'
  <2>1. (\A u \in Task \ {t} : task'[u] = task[u]) /\ UNCHANGED resync /\ (Taken(p) => Taken(p)')
    BY <1>1 DEF TaskEffect, RowsGrow
  <2>2. \A j \in Job : CreatesFor(j, p)' => CreatesFor(j, p)
    BY <2>1 DEF CreatesFor
  <2>3. PushesFor(t, p)' => Matches(p) = {}
    <3>1. PushesFor(t, p)' => ~Taken(p)
      BY <1>1 DEF TaskEffect, PushesFor, Inserted, At
    <3>2. QED
      BY <1>f, <3>1 DEF FirstContact
  <2>4. \A u \in Task : PushesFor(u, p)' => PushesFor(u, p) \/ Matches(p) = {}
    BY <2>1, <2>3 DEF PushesFor, At
  <2>5. CASE UNCHANGED known
    <3>1. Matches(p)' = Matches(p)
      BY <2>5 DEF Matches
    <3>2. QED
      BY <1>f, <2>1, <2>2, <2>4, <3>1, FirstKept
  <2>6. ASSUME NEW k \in CrmContact, AddContact(task[t].phone, k), At(t, "push"),
               ~At(t, "push")', UNCHANGED sync
        PROVE  FirstContact(p)'
    <3>1. task[t].phone \in Phone
      BY <2>6 DEF RaceInv, LinkInv, TypeInv, TaskIsFor, At
    <3>2. CASE p # task[t].phone
      <4>1. Matches(p)' = Matches(p)
        BY <1>t, <2>6, <3>1, <3>2, OthersMatch
      <4>2. QED
        BY <1>f, <2>1, <2>2, <2>4, <4>1, FirstKept
    <3>3. CASE p = task[t].phone
      <4>1. PushesFor(t, p) /\ Matches(p) = {} /\ Taken(p)
        BY <1>f, <2>6, <3>3 DEF PushesFor, FirstContact, RaceInv, RowInv, Inserted, At
      <4>2. \A u \in Task : ~PushesFor(u, p)'
        BY <2>1, <2>6, <3>3, <4>1 DEF PushesFor, RaceInv, RowInv, At
      <4>3. \A j \in Job : ~CreatesFor(j, p)'
        BY <1>f, <2>2, <4>1 DEF FirstContact, TwoCreate
      <4>4. QED
        BY <1>f, <1>t, <2>1, <2>6, <3>3, <4>1, <4>2, <4>3, FirstAdded
    <3>4. QED
      BY <3>2, <3>3
  <2>7. QED
    BY <1>1, <2>5, <2>6 DEF TaskEffect
<1>2. ASSUME NEW j \in Job, ResyncEffect(j) PROVE FirstContact(p)'
  <2>1. (\A i \in Job \ {j} : resync'[i] = resync[i]) /\ UNCHANGED task /\ (Taken(p) => Taken(p)')
    BY <1>2 DEF ResyncEffect, RowsGrow
  <2>2. \A u \in Task : PushesFor(u, p)' => PushesFor(u, p)
    BY <2>1 DEF PushesFor, At
  <2>3. \A i \in Job : CreatesFor(i, p)' => CreatesFor(i, p) \/ Matches(p) = {}
    BY <1>2, <2>1 DEF CreatesFor, ResyncEffect
  <2>4. CASE UNCHANGED known
    <3>1. Matches(p)' = Matches(p)
      BY <2>4 DEF Matches
    <3>2. QED
      BY <1>f, <2>1, <2>2, <2>3, <3>1, FirstKept
  <2>5. ASSUME NEW k \in CrmContact, AddContact(resync[j].phone, k), resync[j].pc = "create",
               resync'[j].pc # "create", UNCHANGED sync
        PROVE  FirstContact(p)'
    <3>1. resync[j].phone \in Phone
      BY <2>5 DEF RaceInv, LinkInv, TypeInv, ResyncIsFor
    <3>2. CASE p # resync[j].phone
      <4>1. Matches(p)' = Matches(p)
        BY <1>t, <2>5, <3>1, <3>2, OthersMatch
      <4>2. QED
        BY <1>f, <2>1, <2>2, <2>3, <4>1, FirstKept
    <3>3. CASE p = resync[j].phone
      <4>1. CreatesFor(j, p) /\ Matches(p) = {} /\ Taken(p)
        BY <1>f, <2>5, <3>3 DEF CreatesFor, FirstContact, RaceInv, RowInv, InBacklog
      <4>2. \A u \in Task : ~PushesFor(u, p)'
        BY <1>f, <2>2, <4>1 DEF FirstContact, TwoCreate
      <4>3. \A i \in Job : ~CreatesFor(i, p)'
        BY <1>f, <2>1, <2>5, <4>1 DEF CreatesFor, FirstContact, TwoCreate
      <4>4. QED
        BY <1>f, <1>t, <2>1, <2>5, <3>3, <4>1, <4>2, <4>3, FirstAdded
    <3>4. QED
      BY <3>2, <3>3
  <2>6. QED
    BY <1>2, <2>4, <2>5 DEF ResyncEffect
<1>3. CASE QuietEffect
  <2>1. Matches(p)' = Matches(p) /\ (Taken(p) => Taken(p)')
    BY <1>3 DEF QuietEffect, Matches, Taken
  <2>2. \A u \in Task : PushesFor(u, p)' => PushesFor(u, p)
    BY <1>3 DEF QuietEffect, PushesFor, At, IdleTask
  <2>3. \A i \in Job : CreatesFor(i, p)' => CreatesFor(i, p)
    BY <1>3 DEF QuietEffect, CreatesFor, IdleResync
  <2>4. QED
    BY <1>f, <2>1, <2>2, <2>3, FirstKept
<1>4. QED
  BY <1>1, <1>2, <1>3

LEMMA DealStep ==
    ASSUME RaceInv, Watched,
           \/ \E t \in Task : TaskEffect(t)
           \/ \E j \in Job : ResyncEffect(j)
           \/ QuietEffect
    PROVE  DealInv'
<1> SUFFICES ASSUME NEW k \in CrmContact, k \notin rushed' PROVE FirstDeal(k)'
  BY DEF DealInv
<1>t. TypeOK
  BY DEF RaceInv, LinkInv, TypeInv
<1>f. FirstDeal(k) /\ ~TwoOpen(k)'
  BY DEF RaceInv, DealInv, Watched
\* Nobody opens a deal, and whoever is new among those about to open one found none.
<1>q. ASSUME OpenDeals(k)' \subseteq OpenDeals(k),
             \A u \in Task : Opens(u, k)' => Opens(u, k) \/ OpenDeals(k) = {}
      PROVE  FirstDeal(k)'
  BY <1>f, <1>q DEF FirstDeal
<1>1. ASSUME NEW t \in Task, TaskEffect(t) PROVE FirstDeal(k)'
  <2>1. \A u \in Task \ {t} : task'[u] = task[u]
    BY <1>1 DEF TaskEffect
  <2>2. \A u \in Task : Opens(u, k)' => Opens(u, k) \/ OpenDeals(k) = {}
    BY <1>1, <2>1 DEF TaskEffect, Opens, At
  <2>3. CASE UNCHANGED <<owner, open>>
    BY <1>q, <2>2, <2>3 DEF OpenDeals
  <2>4. ASSUME NEW d \in Deal, AddDeal(task[t].id, d), At(t, "newDeal"), ~At(t, "newDeal")'
        PROVE  FirstDeal(k)'
    <3>1. CASE task[t].id # k
      <4>1. OpenDeals(k)' \subseteq OpenDeals(k)
        BY <1>t, <2>4, <3>1 DEF OpenDeals, AddDeal, TypeOK
      <4>2. QED
        BY <1>q, <2>2, <4>1
    <3>2. CASE task[t].id = k
      <4>1. Opens(t, k) /\ OpenDeals(k) = {}
        BY <1>f, <2>4, <3>2 DEF Opens, FirstDeal
      <4>2. OpenDeals(k)' \subseteq {d}
        BY <1>t, <2>4, <4>1 DEF OpenDeals, AddDeal, TypeOK
      <4>3. \A u \in Task : ~Opens(u, k)'
        BY <1>f, <2>1, <2>4, <4>1 DEF Opens, FirstDeal, TwoOpen, At
      <4>4. QED
        BY <1>f, <4>2, <4>3 DEF FirstDeal
    <3>3. QED
      BY <3>1, <3>2
  <2>5. QED
    BY <1>1, <2>3, <2>4 DEF TaskEffect
<1>2. ASSUME NEW j \in Job, ResyncEffect(j) PROVE FirstDeal(k)'
  BY <1>2, <1>q DEF ResyncEffect, OpenDeals, Opens, At
<1>3. CASE QuietEffect
  BY <1>3, <1>q DEF QuietEffect, OpenDeals, Opens, At, IdleTask
<1>4. QED
  BY <1>1, <1>2, <1>3

LEMMA RaceInitially == RaceInit => RaceInv
<1> SUFFICES ASSUME RaceInit PROVE RaceInv
  OBVIOUS
<1>1. LinkInv
  BY InitLinks DEF RaceInit
<1>2. RowInv
  BY DEF RaceInit, Init, RowInv, NoRowNoLink, Inserted, InBacklog, At, IdleTask, IdleResync
<1>3. ContactInv
  BY DEF RaceInit, Init, ContactInv, FirstContact, Fresh, TwoCreate, PushesFor, CreatesFor, At,
         Matches, IdleTask, IdleResync
<1>4. DealInv
  BY DEF RaceInit, Init, DealInv, FirstDeal, TwoOpen, Opens, OpenDeals, At, IdleTask
<1>5. QED
  BY <1>1, <1>2, <1>3, <1>4 DEF RaceInv

LEMMA RaceStep ==
    ASSUME "lostAnswer" \notin Faults, "searchError" \notin Faults, RaceInv, [RaceNext]_raceVars
    PROVE  /\ RaceInv'
           /\ \A p \in Phone \ contested' :
                 Fresh(p) /\ link[p] # NoId => link'[p] = link[p]
<1>1. [Next]_vars
  BY DEF RaceNext, raceVars
<1>2. Watched
  <2>1. CASE UNCHANGED raceVars
    <3>1. \A p \in Phone : TwoCreate(p)' <=> TwoCreate(p)
      BY <2>1 DEF raceVars, vars, TwoCreate, PushesFor, CreatesFor, At
    <3>2. \A k \in CrmContact : TwoOpen(k)' <=> TwoOpen(k)
      BY <2>1 DEF raceVars, vars, TwoOpen, Opens, At
    <3>3. QED
      BY <2>1, <3>1, <3>2 DEF raceVars, Watched, RaceInv, ContactInv, DealInv, FirstContact, FirstDeal
  <2>2. CASE Watch
    BY <2>2 DEF Watch, Watched
  <2>3. QED
    BY <2>1, <2>2 DEF RaceNext
<1>3. LinkInv'
  BY <1>1, NextLinks DEF RaceInv
<1>4. \/ \E t \in Task : TaskEffect(t)
      \/ \E j \in Job : ResyncEffect(j)
      \/ QuietEffect
  BY <1>1, Effects DEF RaceInv
<1>5. RowInv'
  BY <1>3, <1>4, TaskRows, OtherRows DEF RaceInv
<1>6. ContactInv' /\ DealInv'
  BY <1>2, <1>4, ContactStep, DealStep
<1>7. ASSUME NEW p \in Phone \ contested', Fresh(p), link[p] # NoId, link'[p] # link[p]
      PROVE  FALSE
  <2>1. RowsGrow
    BY <1>4, RowsSame DEF TaskEffect, ResyncEffect, QuietEffect
  <2>2. Taken(p)
    BY <1>7 DEF RaceInv, RowInv, NoRowNoLink
  <2>3. link'[p] \in CrmContact /\ link[p] \in CrmContact
    BY <1>3, <1>7, <2>1, <2>2 DEF RowsGrow, RaceInv, LinkInv, TypeInv, TypeOK, CrmId
  <2>4. link'[p] \in Matches(p) /\ link[p] \in Matches(p)
    BY <1>7, <2>1, <2>2, <2>3 DEF RowsGrow, RaceInv, LinkInv, LinksKnown, LinkIsCustomers, Matches
  <2>5. FirstContact(p)
    BY <1>2, <1>7 DEF Watched, RaceInv, ContactInv
  <2>6. QED
    BY <1>7, <2>4, <2>5 DEF FirstContact
<1>8. QED
  BY <1>3, <1>5, <1>6, <1>7 DEF RaceInv

LEMMA AtMostOne ==
    ASSUME NEW S, \A x, y \in S : x = y
    PROVE  Cardinality(S) <= 1
<1>1. CASE S = {}
  BY <1>1, FS_EmptySet
<1>2. CASE S # {}
  <2>1. PICK x \in S : S = {x}
    BY <1>2
  <2>2. QED
    BY <2>1, FS_Singleton
<1>3. QED
  BY <1>1, <1>2

LEMMA RacesHold ==
    ASSUME "lostAnswer" \notin Faults, "searchError" \notin Faults
    PROVE  RaceSpec => []RaceInv
<1>1. RaceInit => RaceInv
  BY RaceInitially
<1>2. RaceInv /\ [RaceNext]_raceVars => RaceInv'
  BY RaceStep
<1>3. QED
  BY <1>1, <1>2, PTL DEF RaceSpec

\* While no answer of Bitrix24 is lost, a phone it did not have gets one contact there, for
\* any number of requests, jobs and kills, unless the job and another task were both about
\* to create it.
THEOREM OneContactPerPhone ==
    ASSUME "lostAnswer" \notin Faults, "searchError" \notin Faults
    PROVE  RaceSpec => []OneCrmContact
<1>1. RaceInv => OneCrmContact
  BY AtMostOne DEF RaceInv, ContactInv, FirstContact, OneCrmContact
<1>2. QED
  BY <1>1, RacesHold, PTL

\* Nor is its row linked to another one, or to none, again.
THEOREM LinksAreKept ==
    ASSUME "lostAnswer" \notin Faults, "searchError" \notin Faults
    PROVE  RaceSpec => LinkIsKept
<1>1. RaceInv /\ [RaceNext]_raceVars =>
         [\A p \in Phone \ contested' : Fresh(p) /\ link[p] # NoId => link'[p] = link[p]]_raceVars
  BY RaceStep
<1>2. QED
  BY <1>1, RacesHold, PTL DEF RaceSpec, LinkIsKept

\* A Bitrix24 contact has two open deals only after two requests were both about to open one.
THEOREM OneDealPerContact ==
    ASSUME "lostAnswer" \notin Faults, "searchError" \notin Faults
    PROVE  RaceSpec => []OneOpenDeal
<1>1. RaceInv => OneOpenDeal
  BY AtMostOne DEF RaceInv, DealInv, FirstDeal, OneOpenDeal
<1>2. QED
  BY <1>1, RacesHold, PTL
=============================================================================
