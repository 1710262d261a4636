----------------------- MODULE MCConversationHandling -----------------------
(* Values for the constants of ConversationHandling under TLC.             *)
EXTENDS ConversationHandling, TLC

CONSTANTS c1, c2, k1, a1, a2, a3, m1, m2, r1

\* One contact with two conversations, a message in each, one answered by a1.
ContactOf == [c \in Conversation |-> k1]
SentTo    == [m \in Message |-> IF m = m1 \/ c2 \notin Conversation THEN c1 ELSE c2]
Answers   == [r \in Reply |-> c1]
Author    == [r \in Reply |-> a1]

\* The operator a1 has not been seen yet, a2 is active, a3 is not.
FirstRoster ==
    [a \in Agent |-> IF a = a1 THEN "none" ELSE IF a = a2 THEN "active" ELSE "inactive"]

\* Requests are alike.
TaskSymmetry == Permutations(Task)
=============================================================================
