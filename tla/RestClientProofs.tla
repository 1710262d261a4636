-------------------------- MODULE RestClientProofs --------------------------
(***************************************************************************)
(* The retry loops of RestClient, for every set of calls and every budget:  *)
(* how often a call is posted and carried out, that it is not given up      *)
(* early, and that it implements RemoteCall.                                *)
(*                                                                         *)
(* The bounds alone are not inductive: what a post may still add depends on *)
(* where the call is in its loop.  Loop says how attempts, posts and copies *)
(* are related at each place.                                               *)
(***************************************************************************)
EXTENDS RestClient, TLAPS

\* At the places between two posts every post so far has an attempt, or the refresh; while
\* one is awaited it is one ahead.  A post that is not the last was carried out only if an
\* attempt was counted for it.
Loop(c) ==
    LET C == call[c] IN
    /\ C.attempt <= plan[c].retries
    /\ C.pc = "idle" => C.attempt = 0 /\ ~C.authRetried /\ posts[c] = 0 /\ carried[c] = 0
    /\ C.pc \in {"post", "refresh", "sleep"} =>
          posts[c] = C.attempt + Extra(c) /\ carried[c] <= C.attempt
    /\ C.pc = "refresh" => C.authRetried /\ C.last = "expired"
    /\ C.pc = "await" =>
          /\ posts[c] = C.attempt + Extra(c) + 1
          /\ IF C.taken THEN carried[c] > 0 /\ carried[c] <= C.attempt + 1
                        ELSE carried[c] <= C.attempt
    /\ C.pc \in {"returned", "threw", "cut"} =>
          posts[c] <= C.attempt + Extra(c) + 1 /\ carried[c] <= C.attempt + 1

\* How the loop gives up.
GivenUp(c) ==
    call[c].pc = "threw" /\ posts[c] > 0 =>
        /\ call[c].last \in Transient(plan[c].provider) =>
              posts[c] = plan[c].retries + 1 + Extra(c)
        /\ call[c].last = "expired" /\ plan[c].oauth => call[c].authRetried

ClientInv == ClientTypeOK /\ \A c \in Call : Loop(c) /\ GivenUp(c)

LEMMA IdleIsPlace == IdleCall \in Place
BY DEF IdleCall, Place, Answer

LEMMA ExtraType ==
    ASSUME ClientTypeOK, NEW c \in Call PROVE Extra(c) \in 0..1
BY DEF ClientTypeOK, Extra

\* No client takes an expired token for transient.
LEMMA ExpiredIsFinal ==
    ASSUME NEW p PROVE "expired" \notin Transient(p)
BY DEF Transient, WhatsBoxTransient, MetaTransient, Bitrix24Transient, Doubtful

THEOREM ClientInitInv == ClientInit => ClientInv
<1> SUFFICES ASSUME ClientInit PROVE ClientInv
  OBVIOUS
<1>1. ClientTypeOK
  BY IdleIsPlace, RetriesAssumption DEF ClientInit, ClientTypeOK
<1>2. ASSUME NEW c \in Call PROVE Loop(c) /\ GivenUp(c)
  <2>1. plan[c].retries \in Nat
    BY <1>1, RetriesAssumption DEF ClientTypeOK, Plan
  <2>2. QED
    BY <2>1 DEF ClientInit, Loop, GivenUp, IdleCall
<1>3. QED
  BY <1>1, <1>2 DEF ClientInv

\* The step of a call keeps the types ...
LEMMA StepTypes ==
    ASSUME ClientTypeOK, NEW c \in Call, NewCall(c) \/ CallStep(c)
    PROVE  ClientTypeOK'
<1>1. call[c] \in Place /\ posts[c] \in Nat /\ carried[c] \in Nat /\ plan[c].retries \in Nat
  BY RetriesAssumption DEF ClientTypeOK, Plan
<1> USE DEF ClientTypeOK, Advances
<1>2. CASE BeginCall(c)
  BY <1>1, <1>2 DEF BeginCall, Place
<1>3. CASE RefuseCall(c)
  BY <1>1, <1>3 DEF RefuseCall, Place, Answer
<1>4. ASSUME NEW taken \in BOOLEAN, PostCall(c, taken) PROVE ClientTypeOK'
  <2>1. (IF taken THEN carried[c] + 1 ELSE carried[c]) \in Nat /\ posts[c] + 1 \in Nat
    BY <1>1
  <2>2. [call[c] EXCEPT !.pc = "await", !.taken = taken] \in Place
    BY <1>1 DEF Place
  <2>3. call' \in [Call -> Place] /\ plan' \in [Call -> Plan]
    BY <1>4, <2>2 DEF PostCall
  <2>4. posts' \in [Call -> Nat] /\ carried' \in [Call -> Nat]
    BY <1>4, <2>1 DEF PostCall
  <2>5. QED
    BY <2>3, <2>4
<1>5. CASE AnswerOk(c)
  BY <1>1, <1>5 DEF AnswerOk, Place
<1>6. CASE AnswerExpired(c)
  BY <1>1, <1>6 DEF AnswerExpired, Place, Answer
<1>7. ASSUME NEW a \in Answer, AnswerFinal(c, a) PROVE ClientTypeOK'
  BY <1>1, <1>7 DEF AnswerFinal, Place
<1>8. ASSUME NEW a \in Answer, AnswerTransient(c, a) PROVE ClientTypeOK'
  <2>1. call[c].attempt + 1 \in Nat
    BY <1>1 DEF Place
  <2>2. [call[c] EXCEPT !.pc = "sleep", !.last = a, !.taken = FALSE,
                        !.attempt = call[c].attempt + 1] \in Place
    BY <1>1, <2>1 DEF Place
  <2>3. call' = [call EXCEPT ![c] = [call[c] EXCEPT !.pc = "sleep", !.last = a,
                              !.taken = FALSE, !.attempt = call[c].attempt + 1]]
    BY <1>8 DEF AnswerTransient
  <2>4. call' \in [Call -> Place]
    BY <2>2, <2>3
  <2>5. QED
    BY <1>8, <2>4 DEF AnswerTransient
<1>9. CASE Refreshed(c)
  BY <1>1, <1>9 DEF Refreshed, Place
<1>10. CASE RefreshFailed(c)
  BY <1>1, <1>10 DEF RefreshFailed, Place
<1>11. CASE WakeUp(c)
  BY <1>1, <1>11 DEF WakeUp, Place
<1>12. QED
  BY <1>2, <1>3, <1>4, <1>5, <1>6, <1>7, <1>8, <1>9, <1>10, <1>11 DEF NewCall, CallStep

\* ... and disturbs no other call.
LEMMA OthersKeep ==
    ASSUME ClientInv, NEW c \in Call, NewCall(c) \/ CallStep(c), NEW d \in Call, d # c
    PROVE  (Loop(d) /\ GivenUp(d))'
<1>1. call'[d] = call[d] /\ posts'[d] = posts[d] /\ carried'[d] = carried[d] /\ plan' = plan
  BY DEF ClientInv, ClientTypeOK, NewCall, CallStep, Advances, BeginCall, RefuseCall,
         PostCall, AnswerOk, AnswerExpired, AnswerFinal, AnswerTransient, Refreshed,
         RefreshFailed, WakeUp
<1>2. QED
  BY <1>1 DEF ClientInv, Loop, GivenUp, Extra

\* Its own loop stays sound.
LEMMA OwnStep ==
    ASSUME ClientInv, NEW c \in Call, NewCall(c) \/ CallStep(c)
    PROVE  (Loop(c) /\ GivenUp(c))'
<1>1. /\ call[c] \in Place /\ posts[c] \in Nat /\ carried[c] \in Nat
      /\ plan[c].retries \in Nat /\ Loop(c) /\ GivenUp(c)
  BY RetriesAssumption DEF ClientInv, ClientTypeOK, Plan
<1>2. call[c].attempt \in Nat /\ call[c].authRetried \in BOOLEAN /\ call[c].taken \in BOOLEAN
  BY <1>1 DEF Place
<1>3. plan' = plan
  BY DEF NewCall, CallStep, Advances, BeginCall, RefuseCall, PostCall, AnswerOk,
         AnswerExpired, AnswerFinal, AnswerTransient, Refreshed, RefreshFailed, WakeUp
<1>4. \A T : Advances(c, call[c].pc, T) => call'[c] = T
  BY DEF Advances, ClientInv, ClientTypeOK
<1>5. \A n : posts' = [posts EXCEPT ![c] = n] => posts'[c] = n
  BY DEF ClientInv, ClientTypeOK
<1>6. \A n : carried' = [carried EXCEPT ![c] = n] => carried'[c] = n
  BY DEF ClientInv, ClientTypeOK
<1> USE DEF Loop, GivenUp, Extra
<1>7. CASE BeginCall(c)
  <2>1. /\ call[c].pc = "idle" /\ call'[c] = [call[c] EXCEPT !.pc = "post"]
        /\ posts' = posts /\ carried' = carried
    BY <1>4, <1>7 DEF BeginCall, Advances
  <2>2. QED
    BY <1>1, <1>2, <1>3, <2>1 DEF Place
<1>8. CASE RefuseCall(c)
  <2>1. /\ call[c].pc = "idle"
        /\ call'[c] = [call[c] EXCEPT !.pc = "threw", !.last = "rejected"]
        /\ posts' = posts /\ carried' = carried
    BY <1>4, <1>8 DEF RefuseCall, Advances
  <2>2. /\ call'[c].pc = "threw" /\ call'[c].attempt = call[c].attempt
        /\ call'[c].authRetried = call[c].authRetried
    BY <1>1, <2>1 DEF Place
  <2>3. QED
    BY <1>1, <1>2, <1>3, <2>1, <2>2
<1>9. ASSUME NEW taken \in BOOLEAN, PostCall(c, taken) PROVE (Loop(c) /\ GivenUp(c))'
  <2>1. /\ call[c].pc = "post" /\ call'[c] = [call[c] EXCEPT !.pc = "await", !.taken = taken]
        /\ posts'[c] = posts[c] + 1
        /\ carried'[c] = IF taken THEN carried[c] + 1 ELSE carried[c]
    BY <1>4, <1>5, <1>6, <1>9 DEF PostCall, Advances
  <2>2. /\ call'[c].pc = "await" /\ call'[c].taken = taken
        /\ call'[c].attempt = call[c].attempt /\ call'[c].authRetried = call[c].authRetried
    BY <1>1, <2>1 DEF Place
  <2>3. CASE taken
    BY <1>1, <1>2, <1>3, <2>1, <2>2, <2>3
  <2>4. CASE ~taken
    BY <1>1, <1>2, <1>3, <2>1, <2>2, <2>4
  <2>5. QED
    BY <2>3, <2>4
<1>10. CASE AnswerOk(c)
  <2>1. /\ call[c].pc = "await" /\ call'[c] = [call[c] EXCEPT !.pc = "returned"]
        /\ posts' = posts /\ carried' = carried
    BY <1>4, <1>10 DEF AnswerOk, Advances
  <2>2. call'[c].pc = "returned" /\ call'[c].attempt = call[c].attempt /\ call'[c].authRetried = call[c].authRetried
    BY <1>1, <2>1 DEF Place
  <2>3. QED
    BY <1>1, <1>2, <1>3, <2>1, <2>2
<1>11. CASE AnswerExpired(c)
  <2>1. /\ call[c].pc = "await"
        /\ call'[c] = [call[c] EXCEPT !.pc = "refresh", !.authRetried = TRUE,
                                      !.last = "expired", !.taken = FALSE]
        /\ posts' = posts /\ carried' = carried
    BY <1>4, <1>11 DEF AnswerExpired, Advances
  <2>2. /\ call'[c].pc = "refresh" /\ call'[c].last = "expired" /\ call'[c].authRetried
        /\ call'[c].attempt = call[c].attempt
    BY <1>1, <2>1 DEF Place
  <2>3. ~call[c].authRetried /\ ~call[c].taken
    BY <1>11 DEF AnswerExpired, Refreshes, Fails, Tells, Doubtful
  <2>4. QED
    BY <1>1, <1>2, <1>3, <2>1, <2>2, <2>3
<1>12. ASSUME NEW a \in Answer, AnswerFinal(c, a) PROVE (Loop(c) /\ GivenUp(c))'
  <2>1. /\ call[c].pc = "await" /\ call'[c] = [call[c] EXCEPT !.pc = "threw", !.last = a, !.taken = FALSE]
        /\ posts' = posts /\ carried' = carried
    BY <1>4, <1>12 DEF AnswerFinal, Advances
  <2>2. call'[c].pc = "threw" /\ call'[c].last = a /\ call'[c].attempt = call[c].attempt /\ call'[c].authRetried = call[c].authRetried
    BY <1>1, <2>1 DEF Place
  <2>3. /\ a = "expired" /\ plan[c].oauth => call[c].authRetried
        /\ a \in Transient(plan[c].provider) => call[c].attempt >= plan[c].retries
    BY <1>2, <1>12 DEF AnswerFinal, Refreshes, Exhausted
  <2>4. QED
    BY <1>1, <1>2, <1>3, <2>1, <2>2, <2>3
<1>13. ASSUME NEW a \in Answer, AnswerTransient(c, a) PROVE (Loop(c) /\ GivenUp(c))'
  <2>1. /\ call[c].pc = "await" /\ call'[c] = [call[c] EXCEPT !.pc = "sleep", !.last = a, !.taken = FALSE, !.attempt = @ + 1]
        /\ posts' = posts /\ carried' = carried
    BY <1>4, <1>13 DEF AnswerTransient, Advances
  <2>2. call'[c].pc = "sleep" /\ call'[c].attempt = call[c].attempt + 1
        /\ call'[c].authRetried = call[c].authRetried
    BY <1>1, <2>1 DEF Place
  <2>3. call[c].attempt < plan[c].retries
    BY <1>1, <1>2, <1>13 DEF AnswerTransient, Exhausted
  <2>4. QED
    BY <1>1, <1>2, <1>3, <2>1, <2>2, <2>3
<1>14. CASE Refreshed(c)
  <2>1. /\ call[c].pc = "refresh" /\ call'[c] = [call[c] EXCEPT !.pc = "post"]
        /\ posts' = posts /\ carried' = carried
    BY <1>4, <1>14 DEF Refreshed, Advances
  <2>2. QED
    BY <1>1, <1>2, <1>3, <2>1 DEF Place
<1>15. CASE RefreshFailed(c)
  <2>1. /\ call[c].pc = "refresh" /\ call'[c] = [call[c] EXCEPT !.pc = "threw"]
        /\ posts' = posts /\ carried' = carried
    BY <1>4, <1>15 DEF RefreshFailed, Advances
  <2>2. call'[c].pc = "threw" /\ call'[c].last = call[c].last /\ call'[c].attempt = call[c].attempt /\ call'[c].authRetried = call[c].authRetried
    BY <1>1, <2>1 DEF Place
  <2>3. QED
    BY <1>1, <1>2, <1>3, <2>1, <2>2, ExpiredIsFinal
<1>16. CASE WakeUp(c)
  <2>1. /\ call[c].pc = "sleep" /\ call'[c] = [call[c] EXCEPT !.pc = "post"]
        /\ posts' = posts /\ carried' = carried
    BY <1>1, <1>4, <1>16 DEF WakeUp, Advances
  <2>2. QED
    BY <1>1, <1>2, <1>3, <2>1 DEF Place
<1>17. QED
  BY <1>7, <1>8, <1>9, <1>10, <1>11, <1>12, <1>13, <1>14, <1>15, <1>16 DEF NewCall, CallStep

\* The end of the process keeps what every call has reached.
LEMMA CutKeeps ==
    ASSUME ClientInv, CutCalls
    PROVE  ClientInv'
<1>1. ASSUME NEW c \in Call
      PROVE  /\ call[c] \in Place /\ call'[c] \in Place
             /\ call'[c] = call[c] \/ (call[c].pc \in InLoop /\ call'[c].pc = "cut")
             /\ call'[c].attempt = call[c].attempt
             /\ call'[c].authRetried = call[c].authRetried
  BY DEF ClientInv, ClientTypeOK, CutCalls, Place
<1>2. ClientTypeOK'
  BY <1>1 DEF ClientInv, ClientTypeOK, CutCalls
<1>3. ASSUME NEW c \in Call PROVE (Loop(c) /\ GivenUp(c))'
  <2>1. /\ call[c].attempt \in Nat /\ posts[c] \in Nat /\ carried[c] \in Nat
        /\ Extra(c) \in 0..1 /\ Loop(c) /\ GivenUp(c) /\ plan[c].retries \in Nat
    BY <1>1, ExtraType, RetriesAssumption DEF ClientInv, ClientTypeOK, Place, Plan
  <2>2. Extra(c)' = Extra(c) /\ plan' = plan /\ posts' = posts /\ carried' = carried
    BY <1>1 DEF Extra, CutCalls
  <2>3. CASE call'[c] = call[c]
    BY <2>1, <2>2, <2>3 DEF Loop, GivenUp
  <2>4. CASE call[c].pc \in InLoop /\ call'[c].pc = "cut"
    BY <1>1, <2>1, <2>2, <2>4 DEF Loop, GivenUp, InLoop
  <2>5. QED
    BY <1>1, <2>3, <2>4
<1>4. QED
  BY <1>2, <1>3 DEF ClientInv

LEMMA ClientStutter ==
    ASSUME ClientInv, UNCHANGED callVars
    PROVE  ClientInv'
BY DEF ClientInv, ClientTypeOK, Loop, GivenUp, Extra, callVars

THEOREM ClientInvariant == ClientSpec => []ClientInv
<1>1. ASSUME ClientInv, [ClientNext]_callVars PROVE ClientInv'
  <2>1. CASE CutCalls
    BY <1>1, <2>1, CutKeeps
  <2>2. ASSUME NEW c \in Call, NewCall(c) \/ CallStep(c) PROVE ClientInv'
    <3>1. ClientTypeOK'
      BY <1>1, <2>2, StepTypes DEF ClientInv
    <3>2. ASSUME NEW d \in Call PROVE (Loop(d) /\ GivenUp(d))'
      BY <1>1, <2>2, OwnStep, OthersKeep
    <3>3. QED
      BY <3>1, <3>2 DEF ClientInv
  <2>3. CASE UNCHANGED callVars
    BY <1>1, <2>3, ClientStutter
  <2>4. QED
    BY <1>1, <2>1, <2>2, <2>3 DEF ClientNext
<1>2. QED
  BY <1>1, ClientInitInv, PTL DEF ClientSpec

LEMMA InvBounds ==
    ASSUME ClientInv
    PROVE  ClientTypeOK /\ PostsAreBounded /\ NotGivenUpEarly
<1>1. ASSUME NEW c \in Call
      PROVE  posts[c] <= plan[c].retries + 1 + Extra(c)
  <2>1. /\ call[c].attempt \in Nat /\ posts[c] \in Nat
        /\ Extra(c) \in 0..1 /\ plan[c].retries \in Nat /\ Loop(c)
        /\ call[c].pc \in {"idle", "post", "await", "refresh", "sleep", "returned", "threw", "cut"}
        /\ call[c].taken \in BOOLEAN
    BY ExtraType, RetriesAssumption DEF ClientInv, ClientTypeOK, Place, Plan
  <2>2. posts[c] <= call[c].attempt + Extra(c) + 1
    BY <2>1 DEF Loop
  <2>3. call[c].attempt <= plan[c].retries
    BY <2>1 DEF Loop
  <2>4. QED
    BY <2>1, <2>2, <2>3
<1>2. QED
  BY <1>1 DEF ClientInv, PostsAreBounded, NotGivenUpEarly, GivenUp

\* A call is posted at most once per attempt, and once more for a refreshed token.
THEOREM CallPostsAreBounded == ClientSpec => []PostsAreBounded
BY ClientInvariant, InvBounds, PTL

\* A call that is given up was tried as often as its budget allows, if it could help.
THEOREM CallNotGivenUpEarly == ClientSpec => []NotGivenUpEarly
BY ClientInvariant, InvBounds, PTL

-----------------------------------------------------------------------------
(***************************************************************************)
(* The refinement.  The whole loop is one open call; a post that is carried *)
(* out is a Take, and everything else between two ends of the loop a        *)
(* stutter.                                                                 *)
(***************************************************************************)

phaseBar == [c \in Call |-> Phase(c)]

limitBar == [c \in Call |-> plan[c].retries + 1]

\* A step of call c changes what it shows, and no budget.
LEMMA StepFrame ==
    ASSUME ClientInv, NEW c \in Call, NewCall(c) \/ CallStep(c)
    PROVE  phaseBar' = [phaseBar EXCEPT ![c] = Phase(c)'] /\ limitBar' = limitBar
<1>1. \A d \in Call : d # c => call'[d] = call[d]
  BY DEF ClientInv, ClientTypeOK, NewCall, CallStep, Advances, BeginCall, RefuseCall,
         PostCall, AnswerOk, AnswerExpired, AnswerFinal, AnswerTransient, Refreshed,
         RefreshFailed, WakeUp
<1>2. \A d \in Call : d # c => Phase(d)' = Phase(d)
  BY <1>1 DEF Phase
<1>3. plan' = plan
  BY DEF NewCall, CallStep, Advances, BeginCall, RefuseCall, PostCall, AnswerOk,
         AnswerExpired, AnswerFinal, AnswerTransient, Refreshed, RefreshFailed, WakeUp
<1>4. phaseBar' = [d \in Call |-> Phase(d)']
  BY DEF phaseBar
<1>5. [phaseBar EXCEPT ![c] = Phase(c)'] = [d \in Call |-> Phase(d)']
  BY <1>2 DEF phaseBar
<1>6. QED
  BY <1>3, <1>4, <1>5 DEF limitBar

\* A step that carries nothing out and stays in the loop shows nothing.
LEMMA InsideIsStutter ==
    ASSUME ClientInv, NEW c \in Call, NewCall(c) \/ CallStep(c),
           call[c].pc \in InLoop, call'[c].pc \in InLoop, carried' = carried
    PROVE  UNCHANGED <<phaseBar, carried, limitBar>>
<1>1. Phase(c) = "open" /\ Phase(c)' = "open"
  BY DEF Phase, InLoop
<1>2. phaseBar[c] = "open"
  BY <1>1 DEF phaseBar
<1>3. phaseBar' = phaseBar
  BY <1>1, <1>2, StepFrame DEF phaseBar
<1>4. QED
  BY <1>3, StepFrame

\* The step of a call is a step of the abstract call, or shows nothing.
LEMMA StepSimulates ==
    ASSUME ClientInv, NEW c \in Call, NewCall(c) \/ CallStep(c)
    PROVE  Remote!Next \/ UNCHANGED <<phaseBar, carried, limitBar>>
<1>1. /\ call[c] \in Place /\ posts[c] \in Nat /\ carried[c] \in Nat
      /\ plan[c].retries \in Nat /\ Loop(c) /\ carried \in [Call -> Nat]
  BY RetriesAssumption DEF ClientInv, ClientTypeOK, Plan
<1>2. \A T : Advances(c, call[c].pc, T) => call'[c] = T
  BY DEF Advances, ClientInv, ClientTypeOK
<1>3. phaseBar' = [phaseBar EXCEPT ![c] = Phase(c)'] /\ limitBar' = limitBar
  BY StepFrame
<1>4. phaseBar[c] = Phase(c) /\ limitBar[c] = plan[c].retries + 1
  BY DEF phaseBar, limitBar
<1>5. ASSUME NEW from, NEW to, Phase(c) = from, Phase(c)' = to, carried' = carried
      PROVE  Remote!Move(c, from, to)
  BY <1>3, <1>4, <1>5 DEF Remote!Move, phaseBar, limitBar
<1>6. CASE BeginCall(c)
  <2>1. call[c].pc = "idle" /\ carried' = carried /\ call'[c] = [call[c] EXCEPT !.pc = "post"]
    BY <1>2, <1>6 DEF BeginCall, Advances
  <2>2. call'[c].pc = "post"
    BY <1>1, <2>1 DEF Place
  <2>3. Remote!Start(c)
    BY <1>5, <2>1, <2>2 DEF Phase, InLoop, Remote!Start
  <2>4. QED
    BY <2>3 DEF Remote!Next
<1>7. CASE RefuseCall(c)
  <2>1. /\ call[c].pc = "idle" /\ carried' = carried
        /\ call'[c] = [call[c] EXCEPT !.pc = "threw", !.last = "rejected"]
    BY <1>2, <1>7 DEF RefuseCall, Advances
  <2>2. call'[c].pc = "threw"
    BY <1>1, <2>1 DEF Place
  <2>3. Remote!Refuse(c)
    BY <1>5, <2>1, <2>2 DEF Phase, InLoop, Remote!Refuse
  <2>4. QED
    BY <2>3 DEF Remote!Next
<1>8. CASE PostCall(c, TRUE)
  <2>1. /\ call[c].pc = "post" /\ carried' = [carried EXCEPT ![c] = @ + 1]
        /\ call'[c] = [call[c] EXCEPT !.pc = "await", !.taken = TRUE]
    BY <1>2, <1>8 DEF PostCall, Advances
  <2>2. call'[c].pc = "await"
    BY <1>1, <2>1 DEF Place
  <2>3. Phase(c) = "open" /\ Phase(c)' = "open"
    BY <2>1, <2>2 DEF Phase, InLoop
  <2>4. phaseBar' = phaseBar
    BY <1>3, <1>4, <2>3 DEF phaseBar
  <2>5. carried[c] < limitBar[c]
    BY <1>1, <1>4, <2>1 DEF Loop, Place
  <2>6. Remote!Take(c)
    BY <1>3, <1>4, <2>1, <2>3, <2>4, <2>5 DEF Remote!Take, phaseBar, limitBar
  <2>7. QED
    BY <2>6 DEF Remote!Next
<1>9. CASE PostCall(c, FALSE)
  <2>1. /\ call[c].pc = "post" /\ carried' = [carried EXCEPT ![c] = carried[c]]
        /\ call'[c] = [call[c] EXCEPT !.pc = "await", !.taken = FALSE]
    BY <1>2, <1>9 DEF PostCall, Advances
  <2>2. call'[c].pc = "await" /\ carried' = carried
    BY <1>1, <2>1 DEF Place
  <2>3. QED
    BY <2>1, <2>2, InsideIsStutter DEF InLoop
<1>10. CASE AnswerOk(c)
  <2>1. /\ call[c].pc = "await" /\ carried' = carried /\ call[c].taken
        /\ call'[c] = [call[c] EXCEPT !.pc = "returned"]
    BY <1>2, <1>10 DEF AnswerOk, Advances, Tells
  <2>2. call'[c].pc = "returned" /\ carried[c] > 0
    BY <1>1, <2>1 DEF Place, Loop
  <2>3. Remote!Return(c)
    BY <1>5, <2>1, <2>2 DEF Phase, InLoop, Remote!Return
  <2>4. QED
    BY <2>3 DEF Remote!Next
<1>11. CASE AnswerExpired(c)
  <2>1. /\ call[c].pc = "await" /\ carried' = carried
        /\ call'[c] = [call[c] EXCEPT !.pc = "refresh", !.authRetried = TRUE,
                                      !.last = "expired", !.taken = FALSE]
    BY <1>2, <1>11 DEF AnswerExpired, Advances
  <2>2. call'[c].pc = "refresh"
    BY <1>1, <2>1 DEF Place
  <2>3. QED
    BY <2>1, <2>2, InsideIsStutter DEF InLoop
<1>12. ASSUME NEW a \in Answer, AnswerFinal(c, a)
       PROVE  Remote!Next \/ UNCHANGED <<phaseBar, carried, limitBar>>
  <2>1. /\ call[c].pc = "await" /\ carried' = carried
        /\ call'[c] = [call[c] EXCEPT !.pc = "threw", !.last = a, !.taken = FALSE]
    BY <1>2, <1>12 DEF AnswerFinal, Advances
  <2>2. call'[c].pc = "threw"
    BY <1>1, <2>1 DEF Place
  <2>3. Remote!Throw(c)
    BY <1>5, <2>1, <2>2 DEF Phase, InLoop, Remote!Throw
  <2>4. QED
    BY <2>3 DEF Remote!Next
<1>13. ASSUME NEW a \in Answer, AnswerTransient(c, a)
       PROVE  Remote!Next \/ UNCHANGED <<phaseBar, carried, limitBar>>
  <2>1. /\ call[c].pc = "await" /\ carried' = carried
        /\ call'[c] = [call[c] EXCEPT !.pc = "sleep", !.last = a, !.taken = FALSE,
                                      !.attempt = @ + 1]
    BY <1>2, <1>13 DEF AnswerTransient, Advances
  <2>2. call'[c].pc = "sleep"
    BY <1>1, <2>1 DEF Place
  <2>3. QED
    BY <2>1, <2>2, InsideIsStutter DEF InLoop
<1>14. CASE Refreshed(c)
  <2>1. /\ call[c].pc = "refresh" /\ carried' = carried
        /\ call'[c] = [call[c] EXCEPT !.pc = "post"]
    BY <1>2, <1>14 DEF Refreshed, Advances
  <2>2. call'[c].pc = "post"
    BY <1>1, <2>1 DEF Place
  <2>3. QED
    BY <2>1, <2>2, InsideIsStutter DEF InLoop
<1>15. CASE RefreshFailed(c)
  <2>1. /\ call[c].pc = "refresh" /\ carried' = carried
        /\ call'[c] = [call[c] EXCEPT !.pc = "threw"]
    BY <1>2, <1>15 DEF RefreshFailed, Advances
  <2>2. call'[c].pc = "threw"
    BY <1>1, <2>1 DEF Place
  <2>3. Remote!Throw(c)
    BY <1>5, <2>1, <2>2 DEF Phase, InLoop, Remote!Throw
  <2>4. QED
    BY <2>3 DEF Remote!Next
<1>16. CASE WakeUp(c)
  <2>1. /\ call[c].pc = "sleep" /\ carried' = carried
        /\ call'[c] = [call[c] EXCEPT !.pc = "post"]
    BY <1>1, <1>2, <1>16 DEF WakeUp, Advances, Loop
  <2>2. call'[c].pc = "post"
    BY <1>1, <2>1 DEF Place
  <2>3. QED
    BY <2>1, <2>2, InsideIsStutter DEF InLoop
<1>17. QED
  BY <1>6, <1>7, <1>8, <1>9, <1>10, <1>11, <1>12, <1>13, <1>14, <1>15, <1>16
  DEF NewCall, CallStep

\* The end of the process cuts every open call.
LEMMA CutSimulates ==
    ASSUME ClientInv, CutCalls
    PROVE  Remote!Cut
<1>1. ASSUME NEW c \in Call
      PROVE  Phase(c)' = IF Phase(c) = "open" THEN "cut" ELSE Phase(c)
  <2>1. call[c] \in Place
    BY DEF ClientInv, ClientTypeOK
  <2>2. CASE call[c].pc \in InLoop
    <3>1. call'[c].pc = "cut"
      BY <2>1, <2>2 DEF CutCalls, Place
    <3>2. QED
      BY <2>2, <3>1 DEF Phase, InLoop
  <2>3. CASE call[c].pc \notin InLoop
    <3>1. call'[c] = call[c]
      BY <2>3 DEF CutCalls
    <3>2. QED
      BY <2>1, <2>3, <3>1 DEF Phase, InLoop, Place
  <2>4. QED
    BY <2>2, <2>3
<1>2. phaseBar' = [c \in Call |-> IF phaseBar[c] = "open" THEN "cut" ELSE phaseBar[c]]
  BY <1>1 DEF phaseBar
<1>3. limitBar' = limitBar /\ carried' = carried
  BY DEF CutCalls, limitBar
<1>4. QED
  BY <1>2, <1>3 DEF Remote!Cut, phaseBar, limitBar

\* The three clients implement the call that the rest of the program relies on: it returns
\* only what was carried out, and is carried out no oftener than its budget allows.
THEOREM ClientsImplementRemoteCall == ClientSpec => ImplementsRemoteCall
<1>1. ClientInit => Remote!Init
  <2> SUFFICES ASSUME ClientInit PROVE Remote!Init
    OBVIOUS
  <2>1. \A c \in Call : Phase(c) = "idle"
    BY DEF ClientInit, IdleCall, Phase, InLoop
  <2>2. ASSUME NEW c \in Call PROVE plan[c].retries + 1 \in Nat
    <3>1. plan[c] \in Plan
      BY DEF ClientInit
    <3>2. plan[c].retries \in Nat
      BY <3>1, RetriesAssumption DEF Plan
    <3>3. QED
      BY <3>2
  <2>3. QED
    BY <2>1, <2>2 DEF ClientInit, Remote!Init
<1>2. ASSUME ClientInv, [ClientNext]_callVars
      PROVE  [Remote!Next]_(Remote!remoteVars)
  <2>1. CASE CutCalls
    BY <1>2, <2>1, CutSimulates DEF Remote!Next
  <2>2. ASSUME NEW c \in Call, NewCall(c) \/ CallStep(c)
        PROVE  [Remote!Next]_(Remote!remoteVars)
    BY <1>2, <2>2, StepSimulates DEF Remote!remoteVars, phaseBar, limitBar
  <2>3. CASE UNCHANGED callVars
    BY <2>3 DEF callVars, Remote!remoteVars, Phase
  <2>4. QED
    BY <1>2, <2>1, <2>2, <2>3 DEF ClientNext
<1>3. QED
  BY <1>1, <1>2, ClientInvariant, PTL DEF ClientSpec, ImplementsRemoteCall, Remote!Spec
=============================================================================
