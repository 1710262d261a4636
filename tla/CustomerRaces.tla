---------------------------- MODULE CustomerRaces ----------------------------
(***************************************************************************)
(* CustomerResolution with a memory of the races nothing arbitrates.        *)
(*                                                                          *)
(* Bitrix24 refuses no second contact of a phone and no second deal of a    *)
(* contact, so what the code makes sure of is that it creates one unless two *)
(* tasks are about to create it at the same time.  Two history variables    *)
(* record exactly those moments; they change nothing else.                  *)
(***************************************************************************)
EXTENDS CustomerResolution

VARIABLES
    contested, \* phones whose contact the job was about to create beside another task
    rushed     \* Bitrix24 contacts for which two requests were about to open a deal

raceVars == <<vars, contested, rushed>>

\* About to create the contact of p in Bitrix24, having found none.
PushesFor(t, p)  == At(t, "push") /\ task[t].phone = p
CreatesFor(j, p) == resync[j].pc = "create" /\ resync[j].phone = p

\* The job beside a request, or beside another instance of the job.  Two requests do
\* not appear here: the unique phone lets one of them through.
TwoCreate(p) ==
    \/ \E t \in Task, j \in Job : PushesFor(t, p) /\ CreatesFor(j, p)
    \/ \E i, j \in Job : i # j /\ CreatesFor(i, p) /\ CreatesFor(j, p)

\* About to open a deal of k, having found none.
Opens(t, k) == At(t, "newDeal") /\ task[t].id = k
TwoOpen(k)  == \E t, u \in Task : t # u /\ Opens(t, k) /\ Opens(u, k)

Watch ==
    /\ contested' = contested \cup {p \in Phone : TwoCreate(p)'}
    /\ rushed'    = rushed \cup {k \in CrmContact : TwoOpen(k)'}

RaceInit == Init /\ contested = {} /\ rushed = {}
RaceNext == Next /\ Watch
RaceSpec == RaceInit /\ [][RaceNext]_raceVars

FairRaceSpec == RaceSpec /\ Fairness

-----------------------------------------------------------------------------

\* A phone that Bitrix24 did not have at the start.
Fresh(p) == \A k \in CrmContact : p \notin Book[k]

\* The row is inserted before the contact is pushed, so its unique phone arbitrates
\* between first messages that arrive together, and the job searches before it creates
\* ("Searches first so an existing contact is linked instead of duplicated",
\* resyncContacts.job.js): one Bitrix24 contact per phone, whatever fails or is killed
\* in between, unless the job and another task were both about to create it.
OneCrmContact ==
    \A p \in Phone \ contested : Fresh(p) => Cardinality(Matches(p)) <= 1

\* Nobody moves a contact from one Bitrix24 contact to another or clears its link,
\* although markSynced and markSyncFailed are awaits away from what they follow from.
LinkIsKept ==
    [][\A p \in Phone \ contested' :
          Fresh(p) /\ link[p] # NoId => link'[p] = link[p]]_raceVars

\* A Bitrix24 contact has one open deal ("contact has an open deal -> link + reuse",
\* ensureOpenDeal), also when the process is killed between creating the deal and
\* linking it, or an agent closes one meanwhile, unless two requests were both about to
\* open one.
OneOpenDeal == \A k \in CrmContact \ rushed : Cardinality(OpenDeals(k)) <= 1
=============================================================================
