----------------------------- MODULE RestClient -----------------------------
(***************************************************************************)
(* A call of a provider's REST API: the retry loops of                      *)
(* src/src/services/whatsbox/client.js, src/src/services/meta/client.js and *)
(* src/src/services/bitrix24/client.js, with what each takes for transient, *)
(* and the one token refresh that the Bitrix24 client adds to its loop.     *)
(*                                                                         *)
(* An action is the code between two awaits: the post, its answer, the end  *)
(* of the backoff, the answer to the refresh.  What the refresh does to the *)
(* tokens is PortalTokens; what a caller makes of the outcome is            *)
(* MessageDelivery, CustomerResolution and ConversationHandling.            *)
(***************************************************************************)
EXTENDS Naturals

CONSTANTS
    Call,       \* the calls that are made
    Providers,  \* whom: subset of {"WHATSBOX", "META", "BITRIX24"}
    Retries     \* the retry budgets they are made with (3 by default, 0 for a probe)

ASSUME ProvidersAssumption == Providers \subseteq {"WHATSBOX", "META", "BITRIX24"}
ASSUME RetriesAssumption   == Retries \subseteq Nat

VARIABLES
    plan,    \* each call's provider, budget, and whether its client has OAuth tokens
    call,    \* where it is in the loop
    posts,   \* how often it was posted
    carried  \* how often the provider carried it out

callVars == <<plan, call, posts, carried>>

\* How a post can end: an answer that is neither of the rest ("rejected": a 4xx, an error
\* code in a 200, success: false); HTTP 429; Bitrix24's query limit; Meta's code 131056;
\* a 5xx without and with an error code in its body; the connection reset, no answer
\* within axios' timeout, no connection at all, a request axios could not even build; an
\* access token that has expired.
Answer ==
    {"ok", "rejected", "tooMany", "limited", "blocked", "serverError", "serverFault",
     "reset", "timeout", "unreachable", "unsent", "expired"}

\* The ones that say nothing about whether the provider did what it was asked to.
Doubtful == {"serverError", "serverFault", "reset", "timeout"}

Plan  == {p \in [provider : Providers, retries : Retries, oauth : BOOLEAN] :
             p.oauth => p.provider = "BITRIX24"}
Place == [pc : {"idle", "post", "await", "refresh", "sleep", "returned", "threw", "cut"},
          attempt : Nat, authRetried : BOOLEAN, last : Answer, taken : BOOLEAN]

IdleCall == [pc |-> "idle", attempt |-> 0, authRetried |-> FALSE, last |-> "ok",
             taken |-> FALSE]

ClientInit ==
    /\ plan    \in [Call -> Plan]
    /\ call    = [c \in Call |-> IdleCall]
    /\ posts   = [c \in Call |-> 0]
    /\ carried = [c \in Call |-> 0]

-----------------------------------------------------------------------------

\* What each mapAxiosError tells apart: an error of a kind the others have no name for
\* reaches its caller as "rejected".
WhatsBoxErrors == Answer \ {"ok", "limited", "blocked", "expired"}
MetaErrors     == Answer \ {"ok", "limited", "expired"}
Bitrix24Errors == Answer \ {"ok", "blocked"}

\* isTransient of each client.  A 429, any 5xx, no answer (mapped to a 502) ...
WhatsBoxTransient == Doubtful \cup {"tooMany", "unreachable", "unsent"}

\* ... and Meta's "temporarily blocked".
MetaTransient == WhatsBoxTransient \cup {"blocked"}

\* Bitrix24's goes by code and text: the query limit, a 5xx without a code of its own, a
\* reset.  A timeout of its own arrives as ECONNABORTED, which the text does not match.
Bitrix24Transient == {"limited", "serverError", "reset"}

Errors(p) == CASE p = "WHATSBOX" -> WhatsBoxErrors [] p = "META" -> MetaErrors
               [] OTHER -> Bitrix24Errors

Transient(p) == CASE p = "WHATSBOX" -> WhatsBoxTransient [] p = "META" -> MetaTransient
                  [] OTHER -> Bitrix24Transient

Advances(c, from, T) ==
    /\ call[c].pc = from
    /\ call' = [call EXCEPT ![c] = T]
    /\ UNCHANGED plan

\* A caller starts the loop ...
BeginCall(c) ==
    /\ Advances(c, "idle", [call[c] EXCEPT !.pc = "post"])
    /\ UNCHANGED <<posts, carried>>

\* ... unless the arguments are refused, or the provider is not configured.
RefuseCall(c) ==
    /\ Advances(c, "idle", [call[c] EXCEPT !.pc = "threw", !.last = "rejected"])
    /\ UNCHANGED <<posts, carried>>

\* http.post.  The provider carries it out, or not.
PostCall(c, taken) ==
    /\ Advances(c, "post", [call[c] EXCEPT !.pc = "await", !.taken = taken])
    /\ posts'   = [posts EXCEPT ![c] = @ + 1]
    /\ carried' = [carried EXCEPT ![c] = IF taken THEN @ + 1 ELSE @]

\* The answers to a post that was carried out, and to one that was not.
Tells(taken, a) == IF taken THEN a \in Doubtful \cup {"ok"} ELSE a # "ok"

\* The post of c ends in an error.
Fails(c, a) == Tells(call[c].taken, a) /\ a \in Errors(plan[c].provider)

AnswerOk(c) ==
    /\ Tells(call[c].taken, "ok")
    /\ Advances(c, "await", [call[c] EXCEPT !.pc = "returned"])
    /\ UNCHANGED <<posts, carried>>

\* Bug: a client asks for a new token whenever the old one is refused.
Refreshes_EveryTime(c, a) == a = "expired" /\ plan[c].oauth

\* isAuthError, of a client with tokens, the first time in this call.
Refreshes(c, a) == a = "expired" /\ plan[c].oauth /\ ~call[c].authRetried

AnswerExpired(c) ==
    /\ Fails(c, "expired")
    /\ Refreshes(c, "expired")
    /\ Advances(c, "await", [call[c] EXCEPT !.pc = "refresh", !.authRetried = TRUE,
                                            !.last = "expired", !.taken = FALSE])
    /\ UNCHANGED <<posts, carried>>

\* Bug: the last retry is not used.
Exhausted_OneLess(c) == call[c].attempt + 1 >= plan[c].retries

Exhausted(c) == call[c].attempt >= plan[c].retries

AnswerFinal(c, a) ==
    /\ Fails(c, a) /\ ~Refreshes(c, a)
    /\ Exhausted(c) \/ a \notin Transient(plan[c].provider)
    /\ Advances(c, "await", [call[c] EXCEPT !.pc = "threw", !.last = a, !.taken = FALSE])
    /\ UNCHANGED <<posts, carried>>

AnswerTransient(c, a) ==
    /\ Fails(c, a) /\ ~Refreshes(c, a)
    /\ ~Exhausted(c) /\ a \in Transient(plan[c].provider)
    /\ Advances(c, "await", [call[c] EXCEPT !.pc = "sleep", !.last = a, !.taken = FALSE,
                                            !.attempt = @ + 1])
    /\ UNCHANGED <<posts, carried>>

\* onAuthFailure returned a token: the same attempt is made again.
Refreshed(c) ==
    /\ Advances(c, "refresh", [call[c] EXCEPT !.pc = "post"])
    /\ UNCHANGED <<posts, carried>>

RefreshFailed(c) ==
    /\ Advances(c, "refresh", [call[c] EXCEPT !.pc = "threw"])
    /\ UNCHANGED <<posts, carried>>

\* Bug: the loop stops before the last retry, and nothing is thrown after it.
WakeUp_FallsThrough(c) ==
    /\ Advances(c, "sleep", [call[c] EXCEPT
          !.pc = IF call[c].attempt < plan[c].retries THEN "post" ELSE "returned"])
    /\ UNCHANGED <<posts, carried>>

\* Bug: the promise of the last backoff is never resolved.
WakeUp_NotTheLast(c) ==
    /\ call[c].attempt < plan[c].retries
    /\ Advances(c, "sleep", [call[c] EXCEPT !.pc = "post"])
    /\ UNCHANGED <<posts, carried>>

\* The backoff is over: the loop tests its condition, and throws lastError when done.
WakeUp(c) ==
    /\ Advances(c, "sleep", [call[c] EXCEPT
          !.pc = IF call[c].attempt <= plan[c].retries THEN "post" ELSE "threw"])
    /\ UNCHANGED <<posts, carried>>

CallStep(c) ==
    \/ PostCall(c, TRUE) \/ PostCall(c, FALSE)
    \/ AnswerOk(c) \/ AnswerExpired(c)
    \/ \E a \in Answer : AnswerFinal(c, a) \/ AnswerTransient(c, a)
    \/ Refreshed(c) \/ RefreshFailed(c) \/ WakeUp(c)

NewCall(c) == BeginCall(c) \/ RefuseCall(c)

InLoop == {"post", "await", "refresh", "sleep"}

\* The process ends: nobody waits for an answer any more.
CutCalls ==
    /\ call' = [c \in Call |-> IF call[c].pc \in InLoop
                               THEN [call[c] EXCEPT !.pc = "cut", !.taken = FALSE]
                               ELSE call[c]]
    /\ UNCHANGED <<plan, posts, carried>>

ClientNext == CutCalls \/ \E c \in Call : NewCall(c) \/ CallStep(c)

ClientSpec == ClientInit /\ [][ClientNext]_callVars

-----------------------------------------------------------------------------

ClientTypeOK ==
    /\ plan \in [Call -> Plan]
    /\ call \in [Call -> Place]
    /\ posts \in [Call -> Nat] /\ carried \in [Call -> Nat]

\* One more post, if the token was refreshed on the way.
Extra(c) == IF call[c].authRetried THEN 1 ELSE 0

\* A call is posted once and then at most `retries` times more, and once more if its
\* token was refreshed: the refresh ("called once to rotate the token, then the call is
\* retried", bitrix24/client.js) takes no attempt, and a rate limit before or after it,
\* or at the last attempt, gives none back.
PostsAreBounded == \A c \in Call : posts[c] <= plan[c].retries + 1 + Extra(c)

\* The loop does not give up early: an error that is transient is thrown after the last
\* retry only, and an expired token after a refresh.
NotGivenUpEarly ==
    \A c \in Call : call[c].pc = "threw" /\ posts[c] > 0 =>
        /\ call[c].last \in Transient(plan[c].provider) =>
              posts[c] = plan[c].retries + 1 + Extra(c)
        /\ call[c].last = "expired" /\ plan[c].oauth => call[c].authRetried

\* The call that the rest of the program sees.
Phase(c) ==
    CASE call[c].pc = "idle" -> "idle"
      [] call[c].pc \in InLoop -> "open"
      [] OTHER -> call[c].pc

Remote == INSTANCE RemoteCall
          WITH phase <- [c \in Call |-> Phase(c)], copies <- carried,
               limit <- [c \in Call |-> plan[c].retries + 1]

\* The clients implement RemoteCall: what they return was carried out, and no more copies
\* are made than the budget allows.  So the post that a refresh adds is never a copy.
ImplementsRemoteCall == Remote!Spec

\* A call ends, whatever the provider answers: the loop terminates, and so does the
\* wait for each answer.
CallEnds == \A c \in Call : (call[c].pc = "post") ~> (call[c].pc \in Remote!Ended)
=============================================================================
