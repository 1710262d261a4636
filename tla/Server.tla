------------------------------- MODULE Server -------------------------------
(***************************************************************************)
(* The process of src/src/server.js around what it runs: requests arrive     *)
(* while it is up, a signal lets those under way finish, and an exit or a    *)
(* kill ends everything that is in memory.                                  *)
(*                                                                         *)
(* The calls of RestClient, the deliveries of WebhookIntake and the requests *)
(* of Templates share nothing but that process, so a behaviour has one of    *)
(* the three: their product would add interleavings and no meeting.         *)
(***************************************************************************)
EXTENDS RestClient, WebhookIntake, Templates

VARIABLES
    process,   \* up, draining after a signal, stopped by itself or killed
    unattended, \* what no open connection waits for: the calls of a background job, and
               \* requests whose client does not wait for the answer
    workload   \* what this behaviour is about

serverVars == <<process, unattended, workload, callVars, intakeVars, templateVars>>

ServerInit ==
    /\ workload \in {"calls", "webhooks", "templates"}
    /\ ClientInit /\ IntakeInit /\ TemplatesInit
    /\ unattended \in SUBSET (CASE workload = "calls" -> Call
                                [] workload = "webhooks" -> Delivery
                                [] OTHER -> Editor)
    /\ process = "up"
    \* The other two have nothing to choose.
    /\ workload # "calls" => plan = CHOOSE p \in [Call -> Plan] : TRUE
    /\ workload # "webhooks" => body = CHOOSE b \in [Notice -> Bodies] : TRUE

Running == process \in {"up", "draining"}

\* No request arrives once the server listens no more.
Incoming ==
    /\ process = "up"
    /\ \/ /\ workload = "webhooks" /\ NewDelivery
          /\ UNCHANGED <<callVars, templateVars>>
       \/ /\ workload = "templates" /\ \E x \in Editor : NewRequest(x)
          /\ UNCHANGED <<callVars, intakeVars>>
    /\ UNCHANGED <<process, unattended, workload>>

\* What is under way, a sweep that stopJobs has left to itself too, still makes calls.
CallBegins(c) ==
    /\ Running /\ workload = "calls" /\ NewCall(c)
    /\ UNCHANGED <<process, unattended, workload, intakeVars, templateVars>>

CallGoesOn(c) ==
    /\ Running /\ CallStep(c)
    /\ UNCHANGED <<process, unattended, workload, intakeVars, templateVars>>

DeliveryGoesOn(d) ==
    /\ Running /\ DeliveryStep(d)
    /\ UNCHANGED <<process, unattended, workload, callVars, templateVars>>

RequestGoesOn(x) ==
    /\ Running /\ EditorStep(x)
    /\ UNCHANGED <<process, unattended, workload, callVars, intakeVars>>

Signal ==
    /\ process = "up" /\ process' = "draining"
    /\ UNCHANGED <<unattended, workload, callVars, intakeVars, templateVars>>

\* Everything in memory is gone.
EndProcess(as) ==
    /\ process' = as
    /\ CutCalls /\ CutDeliveries /\ CutRequests
    /\ UNCHANGED <<unattended, workload>>

\* No connection is open: every request has its answer, or its client has hung up.
NoRequest ==
    /\ \A c \in Call \ unattended : call[c].pc \notin InLoop
    /\ \A d \in Delivery \ unattended : work[d].pc = "idle"
    /\ \A x \in Editor \ unattended : editor[x].pc \in {"idle", "silent"}

\* Bug: the process exits when it has closed the listening socket.
StopCleanly_AtOnce == process = "draining" /\ EndProcess("stopped")

\* server.close() waits for connections: not for a sweep, nor for the handling of a
\* request whose client has closed its own.
StopCleanly == process = "draining" /\ NoRequest /\ EndProcess("stopped")

\* SIGKILL, a crash, or the forced exit 10 s after the signal, which is sooner than the
\* backoffs of a call are over.
Kill == Running /\ EndProcess("killed")

StartAgain ==
    /\ ~Running /\ process' = "up"
    /\ UNCHANGED <<unattended, workload, callVars, intakeVars, templateVars>>

ServerNext ==
    \/ Incoming
    \/ \E c \in Call : CallBegins(c) \/ CallGoesOn(c)
    \/ \E d \in Delivery : DeliveryGoesOn(d)
    \/ \E x \in Editor : RequestGoesOn(x)
    \/ Signal \/ StopCleanly \/ Kill \/ StartAgain

ServerSpec == ServerInit /\ [][ServerNext]_serverVars

\* Axios answers or times out, timers fire and the event loop goes on.
FairServerSpec == ServerSpec /\ \A c \in Call : WF_serverVars(CallGoesOn(c))

ServerTypeOK ==
    /\ ClientTypeOK /\ IntakeTypeOK /\ TemplatesTypeOK
    /\ process \in {"up", "draining", "stopped", "killed"}
    /\ unattended \subseteq Call \cup Delivery \cup Editor
    /\ workload \in {"calls", "webhooks", "templates"}

\* "Graceful shutdown: stop accepting requests, close DB, then exit" (server.js): a clean
\* exit abandons no row of webhook_logs, leaves no template uncounted, no default cleared
\* and no call cut, except in what nobody waits for.
CleanStopLosesNothing ==
    [][process' = "stopped" /\ process # "stopped" =>
          /\ \A e \in Event : Holders(e) \cap unattended = {} => abandoned'[e] = abandoned[e]
          /\ \A i \in Template : Uncounted(i) \cap unattended = {} => missed'[i] = missed[i]
          /\ (\A x \in Editor \cap unattended : ~Setting(x)) => promised' = promised
          /\ \A c \in Call \ unattended : call'[c] = call[c]]_serverVars
=============================================================================
