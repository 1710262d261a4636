----------------------------- MODULE RemoteCall -----------------------------
(***************************************************************************)
(* What a caller may assume of a call to WhatsBox, Meta or Bitrix24: while  *)
(* it is open the provider may carry it out several times, up to a limit;   *)
(* if it returns, the provider carried it out at least once; if it throws,  *)
(* nothing is known of that.  It does end, if only with the process.        *)
(*                                                                         *)
(* This is the call as MessageDelivery (SendLost, SendOk, SendError) and    *)
(* CustomerResolution (PushLost, Push, PushError) have it.  RestClient is   *)
(* the code that makes it, and implements this.                             *)
(***************************************************************************)
EXTENDS Naturals

CONSTANT Call

VARIABLES
    phase,   \* where each call is
    copies,  \* how often the provider carried it out
    limit    \* how often it may

remoteVars == <<phase, copies, limit>>

Ended == {"returned", "threw", "cut"}

Init ==
    /\ phase  = [c \in Call |-> "idle"]
    /\ copies = [c \in Call |-> 0]
    /\ limit  \in [Call -> Nat]

Move(c, from, to) ==
    /\ phase[c] = from
    /\ phase' = [phase EXCEPT ![c] = to]
    /\ UNCHANGED <<copies, limit>>

Start(c)  == Move(c, "idle", "open")
Refuse(c) == Move(c, "idle", "threw")
Return(c) == copies[c] > 0 /\ Move(c, "open", "returned")
Throw(c)  == Move(c, "open", "threw")

Take(c) ==
    /\ phase[c] = "open"
    /\ copies[c] < limit[c]
    /\ copies' = [copies EXCEPT ![c] = @ + 1]
    /\ UNCHANGED <<phase, limit>>

\* The process ends, and with it every call it has open.
Cut ==
    /\ phase' = [c \in Call |-> IF phase[c] = "open" THEN "cut" ELSE phase[c]]
    /\ UNCHANGED <<copies, limit>>

Next ==
    \/ \E c \in Call : Start(c) \/ Refuse(c) \/ Take(c) \/ Return(c) \/ Throw(c)
    \/ Cut

Spec == Init /\ [][Next]_remoteVars

\* An open call does not stay open.
Ends == \A c \in Call : (phase[c] = "open") ~> (phase[c] \in Ended)
=============================================================================
