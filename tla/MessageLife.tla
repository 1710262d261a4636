---------------------------- MODULE MessageLife ----------------------------
(***************************************************************************)
(* What the tables tell of an outgoing message, whoever writes them: a      *)
(* message is stored before anything of it leaves; its history gets an entry, *)
(* and its row a status, one at a time, and a success only when some copy of *)
(* it went that far and the history has it; and Bitrix24 is told of a reply  *)
(* once at most, when an outcome is in its history.                          *)
(*                                                                         *)
(* There is no request, job, callback or crash here.  MessageDelivery has    *)
(* those, and implements this.                                             *)
(***************************************************************************)
CONSTANTS Message, Copy

VARIABLES
    status,    \* the row's status, or "NONE" while there is no row
    timeline,  \* the statuses in its message_statuses
    fate,      \* how far each copy came at the provider
    confirmed  \* Bitrix24 was told

lifeVars == <<status, timeline, fate, confirmed>>

Stored(m) == status[m] # "NONE"

Success == {"SENT", "DELIVERED", "READ"}
Claim   == Success \cup {"PENDING", "FAILED"}

\* Where a copy is that has got as far as a success says.
Reached(st) ==
    CASE st = "SENT"      -> {"accepted", "delivered", "read", "failed"}
      [] st = "DELIVERED" -> {"delivered", "read"}
      [] st = "READ"      -> {"read"}

Backed(m, st) == st \in Success => \E k \in Copy : fate[m][k] \in Reached(st)

\* Where a copy gets to from f.
Further(f) ==
    CASE f = "none"      -> {"accepted"}
      [] f = "accepted"  -> {"delivered", "failed"}
      [] f = "delivered" -> {"read"}
      [] OTHER           -> {}

Init ==
    /\ status    = [m \in Message |-> "NONE"]
    /\ timeline  = [m \in Message |-> {}]
    /\ fate      = [m \in Message |-> [k \in Copy |-> "none"]]
    /\ confirmed = [m \in Message |-> FALSE]

Store(m) ==
    /\ ~Stored(m)
    /\ status' = [status EXCEPT ![m] = "PENDING"]
    /\ UNCHANGED <<timeline, fate, confirmed>>

\* The provider takes a copy, or gets further with one.
Take(m) ==
    /\ Stored(m)
    /\ \E k \in Copy : \E f \in Further(fate[m][k]) : fate' = [fate EXCEPT ![m][k] = f]
    /\ UNCHANGED <<status, timeline, confirmed>>

Record(m, st) ==
    /\ Stored(m) /\ Backed(m, st)
    /\ timeline' = [timeline EXCEPT ![m] = @ \cup {st}]
    /\ UNCHANGED <<status, fate, confirmed>>

Show(m, st) ==
    /\ Stored(m) /\ Backed(m, st)
    /\ st \in Success => st \in timeline[m]
    /\ status' = [status EXCEPT ![m] = st]
    /\ UNCHANGED <<timeline, fate, confirmed>>

Tell(m) ==
    /\ timeline[m] \cap {"SENT", "FAILED"} # {}
    /\ ~confirmed[m] /\ confirmed' = [confirmed EXCEPT ![m] = TRUE]
    /\ UNCHANGED <<status, timeline, fate>>

\* One message changes in one respect.
Next ==
    /\ lifeVars' # lifeVars
    /\ \E m \in Message :
          \/ Store(m) \/ Take(m) \/ Tell(m)
          \/ \E st \in Claim : Record(m, st) \/ Show(m, st)

Spec == Init /\ [][Next]_lifeVars
=============================================================================
