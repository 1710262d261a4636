---------------------------- MODULE ServerProofs ----------------------------
(***************************************************************************)
(* The process of Server, for every set of calls, notices, deliveries and    *)
(* requests: each part of it behaves as its own specification says, whatever *)
(* the others and the signals do; no row of webhook_logs is lost count of;   *)
(* what was acknowledged was found and audited; and a clean stop loses      *)
(* nothing that somebody waits for.                                         *)
(*                                                                         *)
(* That a row which says RECEIVED is in hand, and that one which says        *)
(* PROCESSED had its handler return, follow from a ledger: of each event, the *)
(* rows and the deliveries that are going to settle them are counted together. *)
(* That an acknowledged notice has a row for each event follows from another:  *)
(* what the normalizers found and has no row is still ahead of the delivery.  *)
(* What they find in a body, of any length, is proved with FlattenSeq.       *)
(***************************************************************************)
EXTENDS Server, RestClientProofs, TemplatesProofs, SequenceTheorems, WellFoundedInduction

\* A handler has returned for e, and its row does not say so yet.
Owed(e) == {d \in Delivery : work[d].pc = "processed" /\ Current(d) = e}

InHand == {"dispatch", "processed", "failed"}

\* What a delivery of the ledger looks like.
Delivering ==
    work = [d \in Delivery |-> [pc |-> work[d].pc, of |-> work[d].of, rest |-> work[d].rest]]

LedgerTypes ==
    /\ Delivering
    /\ audit \in [Event -> [RECEIVED : Int, PROCESSED : Nat, FAILED : Nat]]
    /\ handled \in [Event -> Nat] /\ abandoned \in [Event -> Nat]

Ledger ==
    /\ LedgerTypes
    /\ \A e \in Event :
          /\ audit[e].RECEIVED = Cardinality(Holders(e)) + abandoned[e]
          /\ audit[e].PROCESSED + Cardinality(Owed(e)) <= handled[e]

-----------------------------------------------------------------------------
(* The deliveries of an event, counted.                                    *)

LEMMA OneMore ==
    ASSUME NEW S, S \subseteq Delivery, NEW d \in Delivery
    PROVE  /\ Cardinality(S) \in Nat
           /\ d \notin S => Cardinality(S \cup {d}) = Cardinality(S) + 1
           /\ d \in S => Cardinality(S \ {d}) = Cardinality(S) - 1 /\ Cardinality(S) > 0
<1>1. IsFiniteSet(S)
  BY DeliveriesAssumption, FS_Subset
<1>2. Cardinality(S) \in Nat
  BY <1>1, FS_CardinalityType
<1>3. d \notin S => Cardinality(S \cup {d}) = Cardinality(S) + 1
  BY <1>1, FS_AddElement
<1>4. d \in S => Cardinality(S \ {d}) = Cardinality(S) - 1
  BY <1>1, FS_RemoveElement
<1>5. d \in S => Cardinality(S) # 0
  BY <1>1, FS_EmptySet
<1>6. QED
  BY <1>2, <1>3, <1>4, <1>5

LEMMA OwnersAreDeliveries == \A e : Holders(e) \subseteq Delivery /\ Owed(e) \subseteq Delivery
BY DEF Holders, Owed

\* Where a delivery goes, it is counted.
LEMMA Moved ==
    ASSUME Delivering, NEW d \in Delivery, NEW W,
           W = [pc |-> W.pc, of |-> W.of, rest |-> W.rest],
           work' = [work EXCEPT ![d] = W]
    PROVE  /\ Delivering'
           /\ \A e : Holders(e)' = IF W.pc \in InHand /\ Head(W.rest) = e
                                   THEN Holders(e) \cup {d} ELSE Holders(e) \ {d}
           /\ \A e : Owed(e)' = IF W.pc = "processed" /\ Head(W.rest) = e
                                THEN Owed(e) \cup {d} ELSE Owed(e) \ {d}
<1>1. work'[d] = W /\ \A y \in Delivery : y # d => work'[y] = work[y]
  BY DEF Delivering
<1>2. Delivering'
  BY DEF Delivering
<1>3. ASSUME NEW e
      PROVE  Holders(e)' = IF W.pc \in InHand /\ Head(W.rest) = e
                           THEN Holders(e) \cup {d} ELSE Holders(e) \ {d}
  BY <1>1 DEF Holders, HoldsRow, InHand, Current
<1>4. ASSUME NEW e
      PROVE  Owed(e)' = IF W.pc = "processed" /\ Head(W.rest) = e
                        THEN Owed(e) \cup {d} ELSE Owed(e) \ {d}
  BY <1>1 DEF Owed, Current
<1>5. QED
  BY <1>2, <1>3, <1>4

\* The moves of WebhookIntake are such moves.
LEMMA DeliveryMoves ==
    ASSUME Delivering, NEW d \in Delivery
    PROVE  /\ \A pc : Step(d, pc) =>
                 work' = [work EXCEPT ![d] = [pc |-> pc, of |-> work[d].of,
                                              rest |-> work[d].rest]]
           /\ NextEvent(d) =>
                 \E pc \in {"answer", "create"} : \E rest :
                    work' = [work EXCEPT ![d] = [pc |-> pc, of |-> work[d].of,
                                                 rest |-> rest]]
<1>1. work[d] = [pc |-> work[d].pc, of |-> work[d].of, rest |-> work[d].rest]
  BY DEF Delivering
<1>2. ASSUME NEW pc, Step(d, pc)
      PROVE  work' = [work EXCEPT ![d] = [pc |-> pc, of |-> work[d].of, rest |-> work[d].rest]]
  <2>1. work' = [work EXCEPT ![d] = [work[d] EXCEPT !.pc = pc]]
    BY <1>2 DEF Step, Delivering
  <2>2. [work[d] EXCEPT !.pc = pc] = [pc |-> pc, of |-> work[d].of, rest |-> work[d].rest]
    BY <1>1
  <2>3. QED
    BY <2>1, <2>2
<1>3. ASSUME NextEvent(d)
      PROVE  \E pc \in {"answer", "create"} : \E rest :
                work' = [work EXCEPT ![d] = [pc |-> pc, of |-> work[d].of, rest |-> rest]]
  <2>1. Ready(Tail(work[d].rest)) \in {"answer", "create"}
    BY DEF Ready
  <2> DEFINE rest == Tail(work[d].rest)
             pc   == Ready(rest)
  <2>2. work' = [work EXCEPT ![d] = [work[d] EXCEPT !.rest = rest, !.pc = pc]]
    BY <1>3 DEF NextEvent, Delivering
  <2> HIDE DEF rest, pc
  <2>3. [work[d] EXCEPT !.rest = rest, !.pc = pc]
           = [pc |-> pc, of |-> work[d].of, rest |-> rest]
    <3>1. work[d] \in [pc : {work[d].pc}, of : {work[d].of}, rest : {work[d].rest}]
      BY <1>1
    <3>2. ASSUME NEW v, v = [work[d] EXCEPT !.rest = rest, !.pc = pc]
          PROVE  v = [pc |-> pc, of |-> work[d].of, rest |-> rest]
      BY <3>1, <3>2
    <3>3. QED
      BY <3>2
  <2>4. work' = [work EXCEPT ![d] = [pc |-> pc, of |-> work[d].of, rest |-> rest]]
    BY <2>2, <2>3
  <2>5. pc \in {"answer", "create"}
    BY <2>1 DEF pc, rest
  <2>6. WITNESS pc \in {"answer", "create"}
  <2>7. WITNESS rest
  <2>8. QED
    BY <2>4
<1>4. QED
  BY <1>2, <1>3

\* A delivery that stays at its event.
LEMMA Stepped ==
    ASSUME LedgerTypes, NEW d \in Delivery, NEW pc, Step(d, pc), NEW u, u = Current(d)
    PROVE  /\ Delivering'
           /\ pc \in InHand => /\ Holders(u)' = Holders(u) \cup {d}
                               /\ \A e : e # u => Holders(e)' = Holders(e) \ {d}
           /\ pc \notin InHand => \A e : Holders(e)' = Holders(e) \ {d}
           /\ pc = "processed" => /\ Owed(u)' = Owed(u) \cup {d}
                                  /\ \A e : e # u => Owed(e)' = Owed(e) \ {d}
           /\ pc # "processed" => \A e : Owed(e)' = Owed(e) \ {d}
<1>1. Delivering
  BY DEF LedgerTypes
<1>2. PICK W : W = [pc |-> pc, of |-> work[d].of, rest |-> work[d].rest]
  OBVIOUS
<1>3. W.pc = pc /\ W = [pc |-> W.pc, of |-> W.of, rest |-> W.rest] /\ Head(W.rest) = u
  BY <1>2 DEF Current
<1>4. work' = [work EXCEPT ![d] = W]
  BY <1>1, <1>2, DeliveryMoves
<1>5. /\ Delivering'
      /\ \A e : Holders(e)' = IF W.pc \in InHand /\ Head(W.rest) = e
                              THEN Holders(e) \cup {d} ELSE Holders(e) \ {d}
      /\ \A e : Owed(e)' = IF W.pc = "processed" /\ Head(W.rest) = e
                           THEN Owed(e) \cup {d} ELSE Owed(e) \ {d}
  BY <1>1, <1>3, <1>4, Moved
<1>6. QED
  BY <1>3, <1>5

\* A delivery that goes on to the next event.
LEMMA WentOn ==
    ASSUME LedgerTypes, NEW d \in Delivery, NextEvent(d)
    PROVE  Delivering' /\ \A e : Holders(e)' = Holders(e) \ {d} /\ Owed(e)' = Owed(e) \ {d}
<1>1. Delivering
  BY DEF LedgerTypes
<1>p. PICK pc \in {"answer", "create"} : \E rest :
          work' = [work EXCEPT ![d] = [pc |-> pc, of |-> work[d].of, rest |-> rest]]
  BY <1>1, DeliveryMoves
<1>2. PICK rest, W : /\ W = [pc |-> pc, of |-> work[d].of, rest |-> rest]
                     /\ work' = [work EXCEPT ![d] = W]
  BY <1>p
<1>3. /\ W = [pc |-> W.pc, of |-> W.of, rest |-> W.rest]
      /\ W.pc \notin InHand /\ W.pc # "processed"
  BY <1>2 DEF InHand
<1>4. /\ Delivering'
      /\ \A e : Holders(e)' = IF W.pc \in InHand /\ Head(W.rest) = e
                              THEN Holders(e) \cup {d} ELSE Holders(e) \ {d}
      /\ \A e : Owed(e)' = IF W.pc = "processed" /\ Head(W.rest) = e
                           THEN Owed(e) \cup {d} ELSE Owed(e) \ {d}
  BY <1>1, <1>2, <1>3, Moved
<1>5. QED
  BY <1>3, <1>4

-----------------------------------------------------------------------------
(* The ledger.                                                             *)

\* What a step does to the rows of an event that its delivery is not at: nothing.
LEMMA OthersUncounted ==
    ASSUME Ledger, NEW d \in Delivery, NEW e \in Event,
           Holders(e)' = Holders(e), Owed(e)' = Owed(e),
           audit'[e] = audit[e], abandoned'[e] = abandoned[e], handled'[e] = handled[e]
    PROVE  /\ audit'[e].RECEIVED = Cardinality(Holders(e)') + abandoned'[e]
           /\ audit'[e].PROCESSED + Cardinality(Owed(e)') <= handled'[e]
BY DEF Ledger

\* Whoever is not at a row before or after is not counted.
LEMMA RowlessKeeps ==
    ASSUME Ledger, NEW d \in Delivery, NEW pc, NEW of, NEW rest,
           work' = [work EXCEPT ![d] = [pc |-> pc, of |-> of, rest |-> rest]],
           work[d].pc \notin InHand, pc \notin InHand,
           UNCHANGED <<audit, handled, abandoned>>
    PROVE  Ledger'
<1>1. PICK W : W = [pc |-> pc, of |-> of, rest |-> rest]
  OBVIOUS
<1>2. /\ W = [pc |-> W.pc, of |-> W.of, rest |-> W.rest] /\ W.pc \notin InHand
      /\ W.pc # "processed" /\ work' = [work EXCEPT ![d] = W]
  BY <1>1 DEF InHand
<1>3. Delivering' /\ \A e : Holders(e)' = Holders(e) \ {d} /\ Owed(e)' = Owed(e) \ {d}
  BY <1>2, Moved DEF Ledger, LedgerTypes
<1>4. \A e : Holders(e)' = Holders(e) /\ Owed(e)' = Owed(e)
  BY <1>3 DEF Holders, Owed, HoldsRow, InHand
<1>5. LedgerTypes'
  BY <1>3 DEF Ledger, LedgerTypes
<1>6. QED
  BY <1>4, <1>5, OthersUncounted DEF Ledger

LEMMA ArriveKeeps ==
    ASSUME Ledger, NEW d \in Delivery, NEW n, Arrive(d, n)
    PROVE  Ledger'
<1>1. Ready(Events(body[n])) \in {"answer", "create"}
  BY DEF Ready
<1>2. PICK pc \in {"reject", "throw", "answer", "create"} :
          work' = [work EXCEPT ![d] = [of |-> n, rest |-> Events(body[n]), pc |-> pc]]
  BY <1>1 DEF Arrive
<1>3. work' = [work EXCEPT ![d] = [pc |-> pc, of |-> n, rest |-> Events(body[n])]]
  BY <1>2
<1>4. work[d].pc \notin InHand /\ UNCHANGED <<audit, handled, abandoned>>
  BY DEF Arrive, Doing, InHand, history
<1>5. QED
  BY <1>3, <1>4, RowlessKeeps DEF InHand

\* The answer to a delivery.
LEMMA FinishKeeps ==
    ASSUME Ledger, NEW d \in Delivery, Reject(d) \/ Throw(d) \/ Acknowledge(d)
    PROVE  Ledger'
<1>1. PICK outcome : Finish(d, outcome)
  BY DEF Reject, Throw, Acknowledge
<1>2. /\ work[d].pc \in {"reject", "throw", "answer"}
      /\ UNCHANGED <<audit, handled, abandoned>>
  BY DEF Reject, Throw, Acknowledge, Doing, history
<1>3. work' = [work EXCEPT ![d] = [pc |-> "idle", of |-> NoWork.of, rest |-> NoWork.rest]]
  BY <1>1 DEF Finish, NoWork
<1>4. work[d].pc \notin InHand /\ "idle" \notin InHand
  BY <1>2 DEF InHand
<1>5. QED
  BY <1>2, <1>3, <1>4, RowlessKeeps

\* The row is created, and the delivery is at it.
LEMMA CreateKeeps ==
    ASSUME Ledger, NEW d \in Delivery, Create(d)
    PROVE  Ledger'
<1>u. PICK u : u = Current(d)
  OBVIOUS
<1>1. /\ work[d].pc = "create" /\ UNCHANGED <<handled, abandoned>>
      /\ audit' = [audit EXCEPT ![u].RECEIVED = @ + 1]
  BY <1>u DEF Create, Doing, history
<1>2. /\ Delivering'
      /\ Holders(u)' = Holders(u) \cup {d}
      /\ \A e : e # u => Holders(e)' = Holders(e) \ {d}
      /\ \A e : Owed(e)' = Owed(e) \ {d}
  BY <1>u, Stepped DEF Create, Ledger, InHand
<1>3. \A e : d \notin Holders(e) /\ d \notin Owed(e)
  BY <1>1 DEF Holders, Owed, HoldsRow, InHand
<1>4. LedgerTypes'
  <2>1. audit' \in [Event -> [RECEIVED : Int, PROCESSED : Nat, FAILED : Nat]]
    <3>1. audit \in [Event -> [RECEIVED : Int, PROCESSED : Nat, FAILED : Nat]]
      BY DEF Ledger, LedgerTypes
    <3>2. CASE u \in Event
      BY <1>1, <3>1, <3>2
    <3>3. CASE u \notin Event
      BY <1>1, <3>1, <3>3
    <3>4. QED
      BY <3>2, <3>3
  <2>2. QED
    BY <1>1, <1>2, <2>1 DEF Ledger, LedgerTypes
<1>5. ASSUME NEW e \in Event
      PROVE  /\ audit'[e].RECEIVED = Cardinality(Holders(e)') + abandoned'[e]
             /\ audit'[e].PROCESSED + Cardinality(Owed(e)') <= handled'[e]
  <2>1. Owed(e)' = Owed(e)
    BY <1>2, <1>3
  <2>2. CASE e = u
    <3>1. /\ audit'[e].RECEIVED = audit[e].RECEIVED + 1
          /\ audit'[e].PROCESSED = audit[e].PROCESSED
      BY <1>1, <2>2 DEF Ledger, LedgerTypes
    <3>2. Cardinality(Holders(e)') = Cardinality(Holders(e)) + 1
      BY <1>2, <1>3, <2>2, OneMore, OwnersAreDeliveries
    <3>3. Cardinality(Holders(e)) \in Nat /\ abandoned[e] \in Nat
      BY OneMore, OwnersAreDeliveries DEF Ledger, LedgerTypes
    <3>4. QED
      BY <1>1, <2>1, <3>1, <3>2, <3>3 DEF Ledger
  <2>3. CASE e # u
    <3>1. Holders(e)' = Holders(e)
      BY <1>2, <1>3, <2>3
    <3>2. audit'[e] = audit[e]
      BY <1>1, <2>3 DEF Ledger, LedgerTypes
    <3>3. QED
      BY <1>1, <2>1, <3>1, <3>2, OthersUncounted
  <2>4. QED
    BY <2>2, <2>3
<1>6. QED
  BY <1>4, <1>5 DEF Ledger

\* Without a row the event is not handled.
LEMMA CreateErrorKeeps ==
    ASSUME Ledger, NEW d \in Delivery, CreateError(d)
    PROVE  Ledger'
<1>1. work[d].pc \notin InHand /\ UNCHANGED <<audit, handled, abandoned>>
  BY DEF CreateError, Doing, InHand
<1>2. PICK pc \in {"answer", "create"} : \E rest :
          work' = [work EXCEPT ![d] = [pc |-> pc, of |-> work[d].of, rest |-> rest]]
  BY DeliveryMoves DEF CreateError, Ledger, LedgerTypes
<1>3. QED
  BY <1>1, <1>2, RowlessKeeps DEF InHand

\* The handler returns.
LEMMA DispatchKeeps ==
    ASSUME Ledger, NEW d \in Delivery, Dispatch(d)
    PROVE  Ledger'
<1>u. PICK u : u = Current(d)
  OBVIOUS
<1>1. /\ work[d].pc = "dispatch" /\ UNCHANGED <<audit, abandoned>>
      /\ handled' = [handled EXCEPT ![u] = @ + 1]
  BY <1>u DEF Dispatch, Doing
<1>2. /\ Delivering'
      /\ Holders(u)' = Holders(u) \cup {d}
      /\ \A e : e # u => Holders(e)' = Holders(e) \ {d}
      /\ Owed(u)' = Owed(u) \cup {d}
      /\ \A e : e # u => Owed(e)' = Owed(e) \ {d}
  BY <1>u, Stepped DEF Dispatch, Ledger, InHand
<1>3. \A e : (d \in Holders(e) <=> u = e) /\ d \notin Owed(e)
  BY <1>1, <1>u DEF Holders, Owed, HoldsRow
<1>4. LedgerTypes'
  <2>1. handled' \in [Event -> Nat]
    <3>1. handled \in [Event -> Nat]
      BY DEF Ledger, LedgerTypes
    <3>2. CASE u \in Event
      BY <1>1, <3>1, <3>2
    <3>3. CASE u \notin Event
      BY <1>1, <3>1, <3>3
    <3>4. QED
      BY <3>2, <3>3
  <2>2. QED
    BY <1>1, <1>2, <2>1 DEF Ledger, LedgerTypes
<1>5. ASSUME NEW e \in Event
      PROVE  /\ audit'[e].RECEIVED = Cardinality(Holders(e)') + abandoned'[e]
             /\ audit'[e].PROCESSED + Cardinality(Owed(e)') <= handled'[e]
  <2>1. Holders(e)' = Holders(e)
    <3>1. CASE e = u
      BY <1>2, <1>3, <3>1
    <3>2. CASE e # u
      BY <1>2, <1>3, <3>2
    <3>3. QED
      BY <3>1, <3>2
  <2>2. CASE e = u
    <3>1. handled'[e] = handled[e] + 1
      BY <1>1, <2>2 DEF Ledger, LedgerTypes
    <3>2. Cardinality(Owed(e)') = Cardinality(Owed(e)) + 1
      BY <1>2, <1>3, <2>2, OneMore, OwnersAreDeliveries
    <3>3. /\ Cardinality(Owed(e)) \in Nat /\ handled[e] \in Nat
          /\ audit[e].PROCESSED \in Nat
      BY OneMore, OwnersAreDeliveries DEF Ledger, LedgerTypes
    <3>4. audit[e].PROCESSED + Cardinality(Owed(e)) <= handled[e]
      BY DEF Ledger
    <3>5. audit'[e].PROCESSED + Cardinality(Owed(e)') <= handled'[e]
      BY <1>1, <3>1, <3>2, <3>3, <3>4
    <3>6. QED
      BY <1>1, <2>1, <3>5 DEF Ledger
  <2>3. CASE e # u
    <3>1. Owed(e)' = Owed(e)
      <4>1. Owed(e)' = Owed(e) \ {d}
        BY <1>2, <2>3
      <4>2. d \notin Owed(e)
        BY <1>3
      <4>3. QED
        BY <4>1, <4>2
    <3>2. handled'[e] = handled[e]
      BY <1>1, <2>3 DEF Ledger, LedgerTypes
    <3>3. QED
      BY <1>1, <2>1, <3>1, <3>2, OthersUncounted
  <2>4. QED
    BY <2>2, <2>3
<1>6. QED
  BY <1>4, <1>5 DEF Ledger

\* The handler throws, or the row could not be set to PROCESSED: it is to be FAILED.
LEMMA ToFailedKeeps ==
    ASSUME Ledger, NEW d \in Delivery, DispatchError(d) \/ MarkProcessedError(d)
    PROVE  Ledger'
<1>u. PICK u : u = Current(d)
  OBVIOUS
<1>1. work[d].pc \in InHand /\ UNCHANGED <<audit, handled, abandoned>> /\ Step(d, "failed")
  BY DEF DispatchError, MarkProcessedError, Doing, InHand, history
<1>2. /\ Delivering'
      /\ Holders(u)' = Holders(u) \cup {d}
      /\ \A e : e # u => Holders(e)' = Holders(e) \ {d}
      /\ \A e : Owed(e)' = Owed(e) \ {d}
  BY <1>1, <1>u, Stepped DEF Ledger, InHand
<1>3. \A e : d \in Holders(e) <=> u = e
  BY <1>1, <1>u DEF Holders, HoldsRow, InHand
<1>4. LedgerTypes'
  BY <1>1, <1>2 DEF Ledger, LedgerTypes
<1>5. ASSUME NEW e \in Event
      PROVE  /\ audit'[e].RECEIVED = Cardinality(Holders(e)') + abandoned'[e]
             /\ audit'[e].PROCESSED + Cardinality(Owed(e)') <= handled'[e]
  <2>1. Holders(e)' = Holders(e)
    BY <1>2, <1>3
  <2>2. /\ Cardinality(Owed(e)') <= Cardinality(Owed(e))
        /\ Cardinality(Owed(e)') \in Nat /\ Cardinality(Owed(e)) \in Nat
    <3>1. Owed(e)' = Owed(e) \ {d}
      BY <1>2
    <3>2. CASE d \in Owed(e)
      BY <3>1, <3>2, OneMore, OwnersAreDeliveries
    <3>3. CASE d \notin Owed(e)
      <4>1. Owed(e)' = Owed(e)
        BY <3>1, <3>3
      <4>2. Cardinality(Owed(e)) \in Nat
        BY OneMore, OwnersAreDeliveries
      <4>3. QED
        BY <4>1, <4>2
    <3>4. QED
      BY <3>2, <3>3
  <2>3. audit[e].PROCESSED \in Nat /\ handled[e] \in Nat
    BY DEF Ledger, LedgerTypes
  <2>4. audit[e].PROCESSED + Cardinality(Owed(e)) <= handled[e]
    BY DEF Ledger
  <2>5. audit[e].PROCESSED + Cardinality(Owed(e)') <= handled[e]
    BY <2>2, <2>3, <2>4
  <2>6. QED
    BY <1>1, <2>1, <2>5 DEF Ledger
<1>6. QED
  BY <1>4, <1>5 DEF Ledger

\* A delivery that is done with an event is counted no more.
LEMMA LeavesRow ==
    ASSUME LedgerTypes, NEW d \in Delivery, NextEvent(d), work[d].pc \in InHand,
           NEW u, u = Current(d)
    PROVE  /\ Delivering'
           /\ \A e \in Event :
                 /\ e # u => Holders(e)' = Holders(e) /\ Owed(e)' = Owed(e)
                 /\ e = u => /\ Cardinality(Holders(e)') = Cardinality(Holders(e)) - 1
                             /\ Cardinality(Owed(e)') =
                                   IF work[d].pc = "processed"
                                   THEN Cardinality(Owed(e)) - 1 ELSE Cardinality(Owed(e))
<1>1. Delivering' /\ \A e : Holders(e)' = Holders(e) \ {d} /\ Owed(e)' = Owed(e) \ {d}
  BY WentOn
<1>2. \A e : /\ d \in Holders(e) <=> u = e
             /\ d \in Owed(e) <=> u = e /\ work[d].pc = "processed"
  BY DEF Holders, Owed, HoldsRow, InHand
<1>3. ASSUME NEW e \in Event, e # u
      PROVE  Holders(e)' = Holders(e) /\ Owed(e)' = Owed(e)
  <2>1. d \notin Holders(e) /\ d \notin Owed(e)
    BY <1>2, <1>3
  <2>2. Holders(e)' = Holders(e) \ {d} /\ Owed(e)' = Owed(e) \ {d}
    BY <1>1
  <2>3. QED
    BY <2>1, <2>2
<1>4. ASSUME NEW e \in Event, e = u
      PROVE  /\ Cardinality(Holders(e)') = Cardinality(Holders(e)) - 1
             /\ Cardinality(Owed(e)') = IF work[d].pc = "processed"
                                        THEN Cardinality(Owed(e)) - 1 ELSE Cardinality(Owed(e))
  <2>1. Holders(e)' = Holders(e) \ {d} /\ Owed(e)' = Owed(e) \ {d}
    BY <1>1
  <2>2. d \in Holders(e)
    BY <1>2, <1>4
  <2>3. Cardinality(Holders(e)') = Cardinality(Holders(e)) - 1
    BY <2>1, <2>2, OneMore, OwnersAreDeliveries
  <2>4. CASE work[d].pc = "processed"
    <3>1. d \in Owed(e)
      BY <1>2, <1>4, <2>4
    <3>2. QED
      BY <2>1, <2>3, <2>4, <3>1, OneMore, OwnersAreDeliveries
  <2>5. CASE work[d].pc # "processed"
    <3>1. d \notin Owed(e)
      BY <1>2, <2>5
    <3>2. Owed(e)' = Owed(e)
      BY <2>1, <3>1
    <3>3. QED
      BY <2>3, <2>5, <3>2
  <2>6. QED
    BY <2>4, <2>5
<1>5. QED
  BY <1>1, <1>3, <1>4

\* The row is settled.
LEMMA MarkKeeps ==
    ASSUME Ledger, NEW d \in Delivery, MarkProcessed(d) \/ MarkFailed(d)
    PROVE  Ledger'
<1>u. PICK u : u = Current(d)
  OBVIOUS
<1>t. /\ audit \in [Event -> [RECEIVED : Int, PROCESSED : Nat, FAILED : Nat]]
      /\ handled \in [Event -> Nat] /\ abandoned \in [Event -> Nat]
  BY DEF Ledger, LedgerTypes
<1>1. /\ work[d].pc \in InHand /\ NextEvent(d) /\ UNCHANGED <<handled, abandoned>>
      /\ work[d].pc \in {"processed", "failed"}
  BY DEF MarkProcessed, MarkFailed, Settle, Doing, InHand, history
<1>2. /\ work[d].pc = "processed" =>
            audit' = [audit EXCEPT ![u].RECEIVED = @ - 1, ![u]["PROCESSED"] = @ + 1]
      /\ work[d].pc = "failed" =>
            audit' = [audit EXCEPT ![u].RECEIVED = @ - 1, ![u]["FAILED"] = @ + 1]
  BY <1>u DEF MarkProcessed, MarkFailed, Settle, Doing
<1>3. /\ Delivering'
      /\ \A e \in Event :
            /\ e # u => Holders(e)' = Holders(e) /\ Owed(e)' = Owed(e)
            /\ e = u => /\ Cardinality(Holders(e)') = Cardinality(Holders(e)) - 1
                        /\ Cardinality(Owed(e)') =
                              IF work[d].pc = "processed"
                              THEN Cardinality(Owed(e)) - 1 ELSE Cardinality(Owed(e))
  BY <1>1, <1>u, LeavesRow DEF Ledger
<1>4. LedgerTypes'
  <2>1. audit' \in [Event -> [RECEIVED : Int, PROCESSED : Nat, FAILED : Nat]]
    <3>1. CASE u \notin Event
      BY <1>t, <1>1, <1>2, <3>1
    <3>2. CASE u \in Event /\ work[d].pc = "processed"
      BY <1>t, <1>2, <3>2
    <3>3. CASE u \in Event /\ work[d].pc = "failed"
      BY <1>t, <1>2, <3>3
    <3>4. QED
      BY <1>1, <3>1, <3>2, <3>3
  <2>2. QED
    BY <1>t, <1>1, <1>3, <2>1 DEF LedgerTypes
<1>5. ASSUME NEW e \in Event
      PROVE  /\ audit'[e].RECEIVED = Cardinality(Holders(e)') + abandoned'[e]
             /\ audit'[e].PROCESSED + Cardinality(Owed(e)') <= handled'[e]
  <2>1. CASE e # u
    <3>1. Holders(e)' = Holders(e) /\ Owed(e)' = Owed(e)
      BY <1>3, <2>1
    <3>2. audit'[e] = audit[e]
      BY <1>t, <1>1, <1>2, <2>1
    <3>3. QED
      BY <1>1, <3>1, <3>2, OthersUncounted
  <2>2. CASE e = u
    <3>1. /\ audit[e].RECEIVED = Cardinality(Holders(e)) + abandoned[e]
          /\ audit[e].PROCESSED + Cardinality(Owed(e)) <= handled[e]
      BY DEF Ledger
    <3>2. /\ Cardinality(Holders(e)) \in Nat /\ Cardinality(Owed(e)) \in Nat
          /\ audit[e].PROCESSED \in Nat /\ handled[e] \in Nat /\ abandoned[e] \in Nat
      BY <1>t, OneMore, OwnersAreDeliveries
    <3>3. Cardinality(Holders(e)') = Cardinality(Holders(e)) - 1
      BY <1>3, <2>2
    <3>4. CASE work[d].pc = "processed"
      <4>1. /\ audit'[e].RECEIVED = audit[e].RECEIVED - 1
            /\ audit'[e].PROCESSED = audit[e].PROCESSED + 1
        BY <1>t, <1>2, <2>2, <3>4
      <4>2. Cardinality(Owed(e)') = Cardinality(Owed(e)) - 1
        BY <1>3, <2>2, <3>4
      <4>3. QED
        BY <1>1, <3>1, <3>2, <3>3, <4>1, <4>2
    <3>5. CASE work[d].pc = "failed"
      <4>1. /\ audit'[e].RECEIVED = audit[e].RECEIVED - 1
            /\ audit'[e].PROCESSED = audit[e].PROCESSED
        BY <1>t, <1>2, <2>2, <3>5
      <4>2. Cardinality(Owed(e)') = Cardinality(Owed(e))
        BY <1>3, <2>2, <3>5
      <4>3. QED
        BY <1>1, <3>1, <3>2, <3>3, <4>1, <4>2
    <3>6. QED
      BY <1>1, <3>4, <3>5
  <2>3. QED
    BY <2>1, <2>2
<1>6. QED
  BY <1>4, <1>5 DEF Ledger

\* The row stays as it is, and nobody holds it.
LEMMA MarkFailedErrorKeeps ==
    ASSUME Ledger, NEW d \in Delivery, MarkFailedError(d)
    PROVE  Ledger'
<1>u. PICK u : u = Current(d)
  OBVIOUS
<1>t. /\ audit \in [Event -> [RECEIVED : Int, PROCESSED : Nat, FAILED : Nat]]
      /\ handled \in [Event -> Nat] /\ abandoned \in [Event -> Nat]
  BY DEF Ledger, LedgerTypes
<1>1. /\ work[d].pc \in InHand /\ work[d].pc = "failed" /\ NextEvent(d)
      /\ UNCHANGED <<audit, handled>>
      /\ abandoned' = [abandoned EXCEPT ![u] = @ + 1]
  BY <1>u DEF MarkFailedError, Doing, InHand
<1>3. /\ Delivering'
      /\ \A e \in Event :
            /\ e # u => Holders(e)' = Holders(e) /\ Owed(e)' = Owed(e)
            /\ e = u => /\ Cardinality(Holders(e)') = Cardinality(Holders(e)) - 1
                        /\ Cardinality(Owed(e)') =
                              IF work[d].pc = "processed"
                              THEN Cardinality(Owed(e)) - 1 ELSE Cardinality(Owed(e))
  BY <1>1, <1>u, LeavesRow DEF Ledger
<1>4. LedgerTypes'
  <2>1. abandoned' \in [Event -> Nat]
    <3>1. CASE u \in Event
      BY <1>t, <1>1, <3>1
    <3>2. CASE u \notin Event
      BY <1>t, <1>1, <3>2
    <3>3. QED
      BY <3>1, <3>2
  <2>2. QED
    BY <1>t, <1>1, <1>3, <2>1 DEF LedgerTypes
<1>5. ASSUME NEW e \in Event
      PROVE  /\ audit'[e].RECEIVED = Cardinality(Holders(e)') + abandoned'[e]
             /\ audit'[e].PROCESSED + Cardinality(Owed(e)') <= handled'[e]
  <2>1. CASE e # u
    <3>1. Holders(e)' = Holders(e) /\ Owed(e)' = Owed(e)
      BY <1>3, <2>1
    <3>2. abandoned'[e] = abandoned[e]
      BY <1>t, <1>1, <2>1
    <3>3. QED
      BY <1>1, <3>1, <3>2, OthersUncounted
  <2>2. CASE e = u
    <3>1. /\ audit[e].RECEIVED = Cardinality(Holders(e)) + abandoned[e]
          /\ audit[e].PROCESSED + Cardinality(Owed(e)) <= handled[e]
      BY DEF Ledger
    <3>2. Cardinality(Holders(e)) \in Nat /\ abandoned[e] \in Nat
      BY <1>t, OneMore, OwnersAreDeliveries
    <3>3. /\ Cardinality(Holders(e)') = Cardinality(Holders(e)) - 1
          /\ Cardinality(Owed(e)') = Cardinality(Owed(e))
      BY <1>1, <1>3, <2>2
    <3>4. abandoned'[e] = abandoned[e] + 1
      BY <1>t, <1>1, <2>2
    <3>5. QED
      BY <1>1, <3>1, <3>2, <3>3, <3>4
  <2>3. QED
    BY <2>1, <2>2
<1>6. QED
  BY <1>4, <1>5 DEF Ledger

\* The process ends: what was held is abandoned.
LEMMA CutDeliveriesKeeps ==
    ASSUME Ledger, CutDeliveries
    PROVE  Ledger'
<1>1. /\ \A d \in Delivery : work'[d].pc = "idle"
      /\ Delivering'
  BY DEF CutDeliveries, NoWork, Delivering
<1>2. \A e : Holders(e)' = {} /\ Owed(e)' = {}
  BY <1>1 DEF Holders, Owed, HoldsRow
<1>3. /\ UNCHANGED <<audit, handled>>
      /\ abandoned' = [e \in Event |-> abandoned[e] + Cardinality(Holders(e))]
  BY DEF CutDeliveries
<1>4. \A e \in Event : Cardinality(Holders(e)) \in Nat /\ Cardinality(Owed(e)) \in Nat
  <2>1. ASSUME NEW e \in Event
        PROVE  Cardinality(Holders(e)) \in Nat /\ Cardinality(Owed(e)) \in Nat
    BY OwnersAreDeliveries, DeliveriesAssumption, FS_Subset, FS_CardinalityType
  <2>2. QED
    BY <2>1
<1>5. LedgerTypes'
  BY <1>1, <1>3, <1>4 DEF Ledger, LedgerTypes
<1>6. ASSUME NEW e \in Event
      PROVE  /\ audit'[e].RECEIVED = Cardinality(Holders(e)') + abandoned'[e]
             /\ audit'[e].PROCESSED + Cardinality(Owed(e)') <= handled'[e]
  <2>1. Cardinality(Holders(e)') = 0 /\ Cardinality(Owed(e)') = 0
    BY <1>2, FS_EmptySet
  <2>2. /\ audit[e].RECEIVED = Cardinality(Holders(e)) + abandoned[e]
        /\ audit[e].PROCESSED + Cardinality(Owed(e)) <= handled[e]
        /\ audit[e].PROCESSED \in Nat /\ handled[e] \in Nat /\ abandoned[e] \in Nat
    BY DEF Ledger, LedgerTypes
  <2>3. abandoned'[e] = abandoned[e] + Cardinality(Holders(e))
    BY <1>3
  <2>4. QED
    BY <1>3, <1>4, <2>1, <2>2, <2>3
<1>7. QED
  BY <1>5, <1>6 DEF Ledger

LEMMA LedgerStep ==
    ASSUME Ledger, IntakeNext
    PROVE  Ledger'
<1>1. CASE NewDelivery
  BY <1>1, ArriveKeeps DEF NewDelivery
<1>2. ASSUME NEW d \in Delivery, DeliveryStep(d) PROVE Ledger'
  BY <1>2, FinishKeeps, CreateKeeps, CreateErrorKeeps, DispatchKeeps, ToFailedKeeps,
     MarkKeeps, MarkFailedErrorKeeps DEF DeliveryStep
<1>3. CASE CutDeliveries
  BY <1>3, CutDeliveriesKeeps
<1>4. QED
  BY <1>1, <1>2, <1>3 DEF IntakeNext, IntakeStep

LEMMA LedgerStutter ==
    ASSUME Ledger, UNCHANGED intakeVars
    PROVE  Ledger'
<1>1. UNCHANGED <<work, audit, handled, abandoned>>
  BY DEF intakeVars
<1>2. \A e : Holders(e)' = Holders(e) /\ Owed(e)' = Owed(e)
  BY <1>1 DEF Holders, Owed, HoldsRow, Current
<1>3. LedgerTypes'
  BY <1>1 DEF Ledger, LedgerTypes, Delivering
<1>4. QED
  BY <1>1, <1>2, <1>3 DEF Ledger

LEMMA LedgerInit == IntakeInit => Ledger
<1> SUFFICES ASSUME IntakeInit PROVE Ledger
  OBVIOUS
<1>1. LedgerTypes /\ \A d \in Delivery : work[d].pc = "idle"
  BY DEF IntakeInit, LedgerTypes, Delivering, NoWork
<1>2. \A e : Holders(e) = {} /\ Owed(e) = {}
  BY <1>1 DEF Holders, Owed, HoldsRow
<1>3. \A e : Cardinality(Holders(e)) = 0 /\ Cardinality(Owed(e)) = 0
  BY <1>2, FS_EmptySet
<1>4. QED
  BY <1>1, <1>3 DEF Ledger, IntakeInit

\* The ledger, of the intake alone.
THEOREM LedgerInvariant == IntakeSpec => []Ledger
BY LedgerInit, LedgerStep, LedgerStutter, PTL DEF IntakeSpec

\* A row of webhook_logs that says PROCESSED stands for a handler that returned, and one
\* that says RECEIVED is in the hands of a delivery or was abandoned.
THEOREM AuditStaysTrue == IntakeSpec => []AuditIsTrue
<1>1. Ledger => AuditIsTrue
  <2> SUFFICES ASSUME Ledger, NEW e \in Event
               PROVE  /\ audit[e].PROCESSED <= handled[e]
                      /\ audit[e].RECEIVED = Cardinality(Holders(e)) + abandoned[e]
    BY DEF AuditIsTrue
  <2>1. Cardinality(Owed(e)) \in Nat
    BY OwnersAreDeliveries, DeliveriesAssumption, FS_Subset, FS_CardinalityType
  <2>2. QED
    BY <2>1 DEF Ledger, LedgerTypes
<1>2. QED
  BY <1>1, LedgerInvariant, PTL

-----------------------------------------------------------------------------
(***************************************************************************)
(* The normalizers, for bodies of every length.  FlattenSeq is a recursive  *)
(* function; what is true of its values is proved by the least place where  *)
(* it would fail.                                                           *)
(***************************************************************************)

\* Every set of natural numbers has a least element.
LEMMA Least ==
    ASSUME NEW T, T \subseteq Nat, T # {}
    PROVE  \E m \in T : \A k \in T : m <= k
<1>1. PICK R : /\ IsWellFoundedOn(R, Nat)
               /\ \A x, y \in Nat : y < x => <<y, x>> \in R
  <2>1. IsWellFoundedOn(OpToRel(<, Nat), Nat)
    BY NatLessThanWellFounded
  <2>2. \A x, y \in Nat : y < x => <<y, x>> \in OpToRel(<, Nat)
    BY DEF OpToRel
  <2>3. QED
    BY <2>1, <2>2, Zenon
<1>2. PICK m \in T : \A k \in T : <<k, m>> \notin R
  BY <1>1, WFMin
<1>3. ASSUME NEW k \in T PROVE m <= k
  <2>1. ~(k < m)
    BY <1>1, <1>2
  <2>2. QED
    BY <2>1
<1>4. QED
  BY <1>3

\* g joins the first n sequences of seqs one after the other.
Joins(g, seqs, n) ==
    g = [i \in 1..n |-> IF i = 1 THEN seqs[i] ELSE g[i-1] \o seqs[i]]

\* There is such a g: one for n - 1 extends to one for n.
LEMMA JoinsExists ==
    ASSUME NEW seqs, NEW n \in Nat
    PROVE  \E g : Joins(g, seqs, n)
<1> DEFINE T == {k \in Nat : ~\E g : Joins(g, seqs, k)}
<1> SUFFICES ASSUME T # {} PROVE FALSE
  OBVIOUS
<1>1. PICK m \in T : \A k \in T : m <= k
  <2> HIDE DEF T
  <2> T \subseteq Nat
    BY DEF T
  <2> QED
    BY Least
<1>2. m # 0
  <2> DEFINE g == [i \in 1..0 |-> seqs[i]]
  <2>1. Joins(g, seqs, 0)
    BY DEF Joins
  <2>2. QED
    BY <2>1
<1>3. m - 1 \in Nat /\ m - 1 \notin T
  BY <1>1, <1>2
<1>4. PICK g : Joins(g, seqs, m - 1)
  BY <1>3
<1> DEFINE h == [i \in 1..m |-> IF i = 1 THEN seqs[i] ELSE g[i-1] \o seqs[i]]
<1>5. ASSUME NEW i \in 1..m, i # 1 PROVE h[i-1] = g[i-1]
  <2>1. i - 1 \in 1..m /\ i - 1 \in 1..(m-1) /\ (i-1)-1 = i-2
    BY <1>5, <1>1
  <2>2. g[i-1] = IF i-1 = 1 THEN seqs[i-1] ELSE g[(i-1)-1] \o seqs[i-1]
    BY <2>1, <1>4 DEF Joins
  <2>3. QED
    BY <2>1, <2>2
<1>6. h = [i \in 1..m |-> IF i = 1 THEN seqs[i] ELSE h[i-1] \o seqs[i]]
  <2> DEFINE F(i) == IF i = 1 THEN seqs[i] ELSE g[i-1] \o seqs[i]
             H(i) == IF i = 1 THEN seqs[i] ELSE h[i-1] \o seqs[i]
  <2>1. \A i \in 1..m : F(i) = H(i)
    BY <1>5
  <2>2. h = [i \in 1..m |-> F(i)]
    OBVIOUS
  <2> HIDE DEF F, h
  <2>3. [i \in 1..m |-> F(i)] = [i \in 1..m |-> H(i)]
    <3> HIDE DEF H
    <3> QED BY <2>1
  <2>4. QED
    BY <2>2, <2>3
<1>7. Joins(h, seqs, m)
  BY <1>6 DEF Joins
<1>8. QED
  BY <1>1, <1>7

\* Its values hold what they are joined from, by the least place where one does not.
LEMMA JoinsContains ==
    ASSUME NEW S, NEW seqs \in Seq(Seq(S)), NEW g, Joins(g, seqs, Len(seqs))
    PROVE  \A i \in 1..Len(seqs) : /\ g[i] \in Seq(S)
                                   /\ \A j \in 1..i : Range(seqs[j]) \subseteq Range(g[i])
<1> DEFINE P(i) == g[i] \in Seq(S) /\ \A j \in 1..i : Range(seqs[j]) \subseteq Range(g[i])
           T == {i \in 1..Len(seqs) : ~P(i)}
<1> SUFFICES ASSUME T # {} PROVE FALSE
  OBVIOUS
<1>0. Len(seqs) \in Nat /\ \A i \in 1..Len(seqs) : seqs[i] \in Seq(S)
  BY LenProperties, ElementOfSeq
<1>1. PICK m \in T : \A k \in T : m <= k
  <2>1. T \subseteq Nat
    BY <1>0
  <2> HIDE DEF T
  <2>2. QED
    BY <2>1, Least
<1>2. m \in 1..Len(seqs) /\ ~P(m)
  OBVIOUS
<1> HIDE DEF P
<1>3. CASE m = 1
  <2>1. g[1] = seqs[1]
    BY <1>2, <1>3 DEF Joins
  <2>2. P(1)
    BY <1>0, <1>2, <1>3, <2>1 DEF P
  <2>3. QED
    BY <1>2, <1>3, <2>2
<1>4. CASE m # 1
  <2>1. m - 1 \in 1..Len(seqs) /\ m - 1 \notin T
    BY <1>0, <1>1, <1>2, <1>4
  <2>2. P(m - 1)
    BY <2>1
  <2>3. g[m] = g[m-1] \o seqs[m]
    BY <1>2, <1>4 DEF Joins
  <2>4. g[m-1] \in Seq(S) /\ seqs[m] \in Seq(S)
    BY <1>0, <1>2, <2>2 DEF P
  <2>5. g[m] \in Seq(S) /\ Range(g[m]) = Range(g[m-1]) \cup Range(seqs[m])
    BY <2>3, <2>4, ConcatProperties, RangeConcatenation
  <2>6. ASSUME NEW j \in 1..m PROVE Range(seqs[j]) \subseteq Range(g[m])
    <3>1. CASE j = m
      BY <2>5, <3>1
    <3>2. CASE j # m
      <4>1. j \in 1..(m-1)
        BY <1>0, <1>2, <3>2
      <4>2. QED
        BY <2>2, <2>5, <4>1 DEF P
    <3>3. QED
      BY <3>1, <3>2
  <2>7. QED
    BY <1>2, <2>5, <2>6 DEF P
<1>5. QED
  BY <1>3, <1>4

\* FlattenSeq of the community modules: sequences of the same elements, none left out.
LEMMA Flattened ==
    ASSUME NEW S, NEW seqs \in Seq(Seq(S))
    PROVE  /\ FlattenSeq(seqs) \in Seq(S)
           /\ \A i \in 1..Len(seqs) : Range(seqs[i]) \subseteq Range(FlattenSeq(seqs))
<1>0. Len(seqs) \in Nat
  BY LenProperties
<1>1. CASE Len(seqs) = 0
  <2>1. seqs = <<>> /\ FlattenSeq(seqs) = <<>>
    BY <1>1, EmptySeq DEF FlattenSeq
  <2>2. <<>> \in Seq(S)
    BY EmptySeq
  <2>3. 1..Len(seqs) = {}
    BY <1>1
  <2>4. QED
    BY <2>1, <2>2, <2>3
<1>2. CASE Len(seqs) # 0
  <2> DEFINE g == CHOOSE f : f = [i \in 1..Len(seqs) |->
                                    IF i = 1 THEN seqs[i] ELSE f[i-1] \o seqs[i]]
  <2>1. FlattenSeq(seqs) = g[Len(seqs)]
    BY <1>2 DEF FlattenSeq
  <2>2. \E f : f = [i \in 1..Len(seqs) |-> IF i = 1 THEN seqs[i] ELSE f[i-1] \o seqs[i]]
    BY <1>0, JoinsExists DEF Joins
  <2>3. Joins(g, seqs, Len(seqs))
    BY <2>2 DEF Joins
  <2> HIDE DEF g
  <2>4. Len(seqs) \in 1..Len(seqs)
    BY <1>0, <1>2
  <2>5. QED
    BY <2>1, <2>3, <2>4, JoinsContains
<1>3. QED
  BY <1>1, <1>2

\* What a body is made of.
LEMMA BodyFacts ==
    ASSUME NEW b \in Bodies
    PROVE  /\ b.source \in {"WHATSBOX", "META", "BITRIX24"}
           /\ b.changes \in Seq(Seq(Event \cup {Bad})) /\ Len(b.changes) \in Nat
           /\ DOMAIN b.changes = 1..Len(b.changes)
           /\ \A i \in 1..Len(b.changes) : /\ b.changes[i] \in Seq(Event \cup {Bad})
                                           /\ Len(b.changes[i]) \in Nat
                                           /\ DOMAIN b.changes[i] = 1..Len(b.changes[i])
<1>1. /\ b.source \in {"WHATSBOX", "META", "BITRIX24"}
      /\ b.changes \in Seq(Seq(Event \cup {Bad}))
  BY BodiesAssumption
<1>2. Len(b.changes) \in Nat /\ DOMAIN b.changes = 1..Len(b.changes)
  BY <1>1, LenProperties
<1>3. \A i \in 1..Len(b.changes) : b.changes[i] \in Seq(Event \cup {Bad})
  BY <1>1, ElementOfSeq
<1>4. QED
  BY <1>1, <1>2, <1>3, LenProperties

\* What is left of a sequence when nothing in it is Bad.
LEMMA Clean ==
    ASSUME NEW c \in Seq(Event \cup {Bad}), \A i \in 1..Len(c) : c[i] # Bad
    PROVE  c \in Seq(Event)
<1>1. Len(c) \in Nat /\ c = [i \in 1..Len(c) |-> c[i]]
  BY LenProperties
<1>2. \A i \in 1..Len(c) : c[i] \in Event
  BY ElementOfSeq
<1>3. QED
  BY <1>1, <1>2, IsASeq

\* A change of WhatsBox is handed over as a whole, or not at all ...
LEMMA WholeFacts ==
    ASSUME NEW c \in Seq(Event \cup {Bad})
    PROVE  /\ Whole(c) \in Seq(Event)
           /\ (\A i \in 1..Len(c) : c[i] # Bad) => Whole(c) = c
<1>1. CASE Contains(c, Bad)
  BY <1>1, EmptySeq DEF Whole, Contains
<1>2. CASE ~Contains(c, Bad)
  BY <1>2, Clean DEF Whole, Contains
<1>3. QED
  BY <1>1, <1>2

\* ... and one of Meta up to its unreadable element.
LEMMA UpToBadFacts ==
    ASSUME NEW c \in Seq(Event \cup {Bad})
    PROVE  /\ UpToBad(c) \in Seq(Event)
           /\ \A j \in 1..Len(c) :
                 (\A k \in 1..Len(c) : c[k] = Bad => k > j) => c[j] \in Range(UpToBad(c))
<1>0. Len(c) \in Nat /\ DOMAIN c = 1..Len(c)
  BY LenProperties
<1>1. CASE Contains(c, Bad)
  <2> DEFINE I == {i \in 1..Len(c) : c[i] = Bad}
             m == SelectInSeq(c, LAMBDA x : x = Bad)
  <2>1. I # {} /\ I \subseteq Nat
    BY <1>0, <1>1 DEF Contains
  <2>2. m \in I /\ \A k \in I : m <= k
    <3>1. m = Min(I)
      BY <2>1 DEF SelectInSeq
    <3>2. \E x \in I : \A y \in I : x <= y
      <4> HIDE DEF I
      <4> QED
        BY <2>1, Least
    <3> HIDE DEF I, m
    <3>3. QED
      BY <3>1, <3>2 DEF Min
  <2>3. UpToBad(c) = SubSeq(c, 1, m - 1)
    BY <1>1 DEF UpToBad
  <2>4. m \in 1..Len(c) /\ \A i \in 1..(m-1) : c[i] \in Event
    <3>1. m \in 1..Len(c)
      BY <2>2
    <3> HIDE DEF m
    <3>2. ASSUME NEW i \in 1..(m-1) PROVE c[i] \in Event
      <4>1. i \in 1..Len(c) /\ i \notin I
        BY <1>0, <2>2, <3>1
      <4>2. c[i] \in Event \cup {Bad}
        BY <4>1, ElementOfSeq
      <4>3. QED
        BY <4>1, <4>2
    <3>3. QED
      BY <3>1, <3>2
  <2> HIDE DEF m
  <2>5. /\ SubSeq(c, 1, m - 1) \in Seq(Event)
        /\ Len(SubSeq(c, 1, m - 1)) = m - 1
        /\ \A i \in 1..(m - 1) : SubSeq(c, 1, m - 1)[i] = c[i]
    <3>1. m - 1 \in Int /\ 1 \in Int
      BY <1>0, <2>4
    <3>2. /\ SubSeq(c, 1, m - 1) \in Seq(Event)
          /\ Len(SubSeq(c, 1, m - 1)) = IF 1 <= m - 1 THEN m - 1 - 1 + 1 ELSE 0
          /\ \A i \in 1 .. (m - 1 - 1 + 1) : SubSeq(c, 1, m - 1)[i] = c[1 + i - 1]
      BY <2>4, <3>1, SubSeqProperties
    <3>3. QED
      BY <1>0, <2>4, <3>2
  <2>6. ASSUME NEW j \in 1..Len(c), \A k \in 1..Len(c) : c[k] = Bad => k > j
        PROVE  c[j] \in Range(UpToBad(c))
    <3>1. j \in 1..(m - 1)
      BY <1>0, <2>2, <2>4, <2>6
    <3>2. j \in DOMAIN SubSeq(c, 1, m - 1) /\ SubSeq(c, 1, m - 1)[j] = c[j]
      BY <2>5, <3>1, LenProperties
    <3>3. QED
      BY <2>3, <3>2 DEF Range
  <2>7. QED
    BY <2>3, <2>5, <2>6
<1>2. CASE ~Contains(c, Bad)
  BY <1>0, <1>2, Clean DEF UpToBad, Contains, Range
<1>3. QED
  BY <1>1, <1>2

\* A list of lists, each replaced by one of events.
LEMMA MappedFacts ==
    ASSUME NEW b \in Bodies, NEW f,
           f = [i \in DOMAIN b.changes |-> f[i]],
           \A i \in DOMAIN b.changes : f[i] \in Seq(Event)
    PROVE  /\ FlattenSeq(f) \in Seq(Event)
           /\ \A i \in DOMAIN b.changes : Range(f[i]) \subseteq Range(FlattenSeq(f))
<1>1. DOMAIN b.changes = 1..Len(b.changes) /\ Len(b.changes) \in Nat
  BY BodyFacts
<1>2. f \in Seq(Seq(Event)) /\ Len(f) = Len(b.changes)
  <2>1. f \in Seq(Seq(Event))
    <3>1. f \in [1..Len(b.changes) -> Seq(Event)]
      BY <1>1
    <3>2. QED
      BY <1>1, <3>1, SeqDef
  <2>2. DOMAIN f = 1..Len(b.changes)
    BY <1>1
  <2>3. QED
    BY <1>1, <2>1, <2>2, LenProperties
<1>3. QED
  BY <1>1, <1>2, Flattened

\* The normalizers hand over every element that is to be found, and nothing but events.
LEMMA EventsFacts ==
    ASSUME NEW b \in Bodies
    PROVE  /\ Events(b) \in Seq(Event)
           /\ \A e \in Event : Readable(b, e) => e \in Range(Events(b))
<1>b. /\ b.source \in {"WHATSBOX", "META", "BITRIX24"}
      /\ DOMAIN b.changes = 1..Len(b.changes)
      /\ \A i \in DOMAIN b.changes : /\ b.changes[i] \in Seq(Event \cup {Bad})
                                     /\ DOMAIN b.changes[i] = 1..Len(b.changes[i])
  BY BodyFacts
<1> DEFINE change(i) == b.changes[i]
           Good(i, e) == \E j \in DOMAIN b.changes[i] :
                            /\ b.changes[i][j] = e
                            /\ \A k \in DOMAIN b.changes[i] :
                                  b.changes[i][k] = Bad => b.source = "META" /\ k > j
<1>e. /\ <<>> \in Seq(Event)
      /\ b.shape # "changes" /\ ~(b.shape = "flat" /\ b.source = "WHATSBOX") =>
            \A e \in Event : ~Readable(b, e)
  BY EmptySeq DEF Readable
<1>r. \A e \in Event : b.shape = "changes" /\ Readable(b, e) =>
          \E i \in DOMAIN b.changes : Good(i, e)
  BY DEF Readable
<1>1. CASE b.shape = "changes" /\ b.source = "WHATSBOX"
  <2> DEFINE f == [i \in DOMAIN b.changes |-> Whole(b.changes[i])]
  <2>1. Events(b) = FlattenSeq(f)
    BY <1>1 DEF Events, WhatsBoxEvents
  <2>2. \A i \in DOMAIN b.changes : f[i] = Whole(b.changes[i]) /\ f[i] \in Seq(Event)
    BY <1>b, WholeFacts
  <2>3. \A i \in DOMAIN b.changes, e \in Event : Good(i, e) => e \in Range(f[i])
    BY <1>1, <1>b, <2>2, WholeFacts DEF Range
  <2>f. f = [i \in DOMAIN b.changes |-> f[i]]
    OBVIOUS
  <2> HIDE DEF f, Good
  <2>4. QED
    BY <1>1, <1>r, <2>1, <2>2, <2>3, <2>f, MappedFacts
<1>2. CASE b.shape = "changes" /\ b.source = "META"
  <2> DEFINE f == [i \in DOMAIN b.changes |-> UpToBad(b.changes[i])]
  <2>1. Events(b) = FlattenSeq(f)
    BY <1>2 DEF Events, MetaEvents
  <2>2. \A i \in DOMAIN b.changes : f[i] = UpToBad(b.changes[i]) /\ f[i] \in Seq(Event)
    BY <1>b, UpToBadFacts
  <2>3. \A i \in DOMAIN b.changes, e \in Event : Good(i, e) => e \in Range(f[i])
    BY <1>2, <1>b, <2>2, UpToBadFacts
  <2>f. f = [i \in DOMAIN b.changes |-> f[i]]
    OBVIOUS
  <2> HIDE DEF f, Good
  <2>4. QED
    BY <1>2, <1>r, <2>1, <2>2, <2>3, <2>f, MappedFacts
<1>3. CASE b.shape = "changes" /\ b.source = "BITRIX24"
  <2>1. Events(b) = FlattenSeq(b.changes)
    BY <1>3 DEF Events, Bitrix24Events
  <2>2. \A i \in DOMAIN b.changes : b.changes[i] \in Seq(Event)
    <3> SUFFICES ASSUME NEW i \in DOMAIN b.changes PROVE b.changes[i] \in Seq(Event)
      OBVIOUS
    <3>1. Bad \notin Range(b.changes[i])
      BY <1>3, BodiesAssumption
    <3>2. QED
      BY <1>b, <3>1, Clean DEF Range
  <2>3. \A i \in DOMAIN b.changes, e \in Event : Good(i, e) => e \in Range(b.changes[i])
    BY <1>3 DEF Range
  <2>f. b.changes = [i \in DOMAIN b.changes |-> b.changes[i]]
    BY BodyFacts, LenProperties
  <2> HIDE DEF Good
  <2>4. QED
    BY <1>3, <1>r, <2>1, <2>2, <2>3, <2>f, MappedFacts
<1>4. CASE b.shape = "flat" /\ b.source = "WHATSBOX"
  <2> DEFINE c == b.changes[1]
             first == SubSeq(c, 1, 1)
  <2>1. c \in Seq(Event \cup {Bad}) /\ Len(c) \in Nat \ {0} /\ c[1] \in Event \cup {Bad}
    <3>1. Len(b.changes) # 0 /\ Len(b.changes) \in Nat
      BY <1>4, BodiesAssumption, EmptySeq, BodyFacts
    <3>2. c \in Seq(Event \cup {Bad}) /\ c # <<>>
      BY <1>4, <3>1, BodiesAssumption, BodyFacts
    <3> HIDE DEF c
    <3>3. QED
      BY <3>2, EmptySeq, ElementOfSeq
  <2>2. Events(b) = Whole(first)
    BY <1>4 DEF Events, WhatsBoxEvents
  <2> HIDE DEF c
  <2>3. first \in Seq(Event \cup {Bad}) /\ Len(first) = 1 /\ first[1] = c[1]
    <3>1. \A i \in 1..1 : c[i] \in Event \cup {Bad}
      BY <2>1
    <3>2. /\ first \in Seq(Event \cup {Bad})
          /\ Len(first) = IF 1 <= 1 THEN 1 - 1 + 1 ELSE 0
          /\ \A i \in 1 .. 1 - 1 + 1 : first[i] = c[1 + i - 1]
      BY <3>1, SubSeqProperties
    <3>3. QED
      BY <3>2
  <2> HIDE DEF first
  <2>4. ASSUME NEW e \in Event, Readable(b, e) PROVE e \in Range(Events(b))
    <3>1. first[1] = e /\ e # Bad
      BY <1>4, <2>3, <2>4, BodiesAssumption DEF Readable, c
    <3>2. Events(b) = first
      BY <2>2, <2>3, <3>1, WholeFacts
    <3>3. QED
      BY <2>3, <3>1, <3>2, LenProperties DEF Range
  <2>5. QED
    BY <2>2, <2>3, <2>4, WholeFacts
<1>5. CASE b.shape # "changes" /\ ~(b.shape = "flat" /\ b.source = "WHATSBOX")
  <2>1. Events(b) = <<>>
    BY <1>5, <1>b DEF Events, WhatsBoxEvents, MetaEvents, Bitrix24Events
  <2>2. QED
    BY <1>5, <1>e, <2>1
<1>6. QED
  BY <1>b, <1>1, <1>2, <1>3, <1>4, <1>5

-----------------------------------------------------------------------------
(***************************************************************************)
(* What is acknowledged is audited.  While a notice is under way, each of   *)
(* its events is accounted for or still before the delivery; so when there  *)
(* is none before it any more, and it answers, all are accounted for.       *)
(***************************************************************************)

AtEvent == {"create", "dispatch", "processed", "failed"}

WorkState ==
    [pc : AtEvent \cup {"idle", "reject", "throw", "answer"}, of : Notice, rest : Seq(Event)]

WorkTypes ==
    /\ body \in [Notice -> Bodies]
    /\ notice \in [Notice -> [state : {"waiting", "acked", "refused"},
                              deliveries : 0..MaxDeliveries]]
    /\ work \in [Delivery -> WorkState]
    /\ rejects \in Nat /\ unlogged \subseteq Event

Accounted(e) == Settled(e) \/ e \in unlogged \/ abandoned[e] > 0

\* What the place of a delivery says of the events of its notice.
Covers(w) == w.pc \in AtEvent \cup {"answer"} =>
    /\ \A e \in Event : Readable(body[w.of], e) => Accounted(e) \/ e \in Range(w.rest)
    /\ w.rest = <<>> <=> w.pc = "answer"

Coverage == \A d \in Delivery : Covers(work[d])

CoverInv == WorkTypes /\ Coverage /\ AckedIsAudited

\* Nothing that is accounted for stops being so.
AccountsStay == \A e \in Event : Accounted(e) => Accounted(e)'

LEMMA NoWorkIsIdle == NoWork \in WorkState /\ NoWork.pc = "idle"
<1>1. <<>> \in Seq(Event)
  BY EmptySeq
<1>2. (CHOOSE n \in Notice : TRUE) \in Notice
  BY NoticeAssumption
<1>3. QED
  BY <1>1, <1>2 DEF NoWork, WorkState

\* The place of one delivery changes, nothing else that matters to the others.
LEMMA PlaceMoves ==
    ASSUME CoverInv, NEW d \in Delivery, NEW W \in WorkState,
           work' = [work EXCEPT ![d] = W], UNCHANGED body,
           AccountsStay, Covers(W)'
    PROVE  Coverage' /\ work' \in [Delivery -> WorkState]
<1>1. work' \in [Delivery -> WorkState]
  BY DEF CoverInv, WorkTypes
<1>2. ASSUME NEW y \in Delivery PROVE Covers(work[y])'
  <2>1. CASE y = d
    BY <2>1 DEF CoverInv, WorkTypes
  <2>2. CASE y # d
    <3>1. work'[y] = work[y] /\ Covers(work[y])
      BY <2>2 DEF CoverInv, WorkTypes, Coverage
    <3>2. QED
      BY <3>1 DEF Covers, AccountsStay
  <2>3. QED
    BY <2>1, <2>2
<1>3. QED
  BY <1>1, <1>2 DEF Coverage

\* What was acknowledged stays audited, if nothing else is.
LEMMA AckedStays ==
    ASSUME CoverInv, AccountsStay, UNCHANGED body,
           \A n \in Notice : notice'[n].state = "acked" => notice[n].state = "acked"
    PROVE  AckedIsAudited'
BY DEF CoverInv, AckedIsAudited, AccountsStay, Accounted

\* A delivery that stays at its event.
LEMMA StepCovers ==
    ASSUME CoverInv, NEW d \in Delivery, NEW pc \in AtEvent, work[d].pc \in AtEvent,
           Step(d, pc), UNCHANGED body, AccountsStay
    PROVE  Coverage' /\ work' \in [Delivery -> WorkState]
<1>1. work[d] \in WorkState /\ Covers(work[d])
  BY DEF CoverInv, WorkTypes, Coverage
<1>2. PICK W : W = [work[d] EXCEPT !.pc = pc]
  OBVIOUS
<1>3. W \in WorkState /\ W.pc = pc /\ W.of = work[d].of /\ W.rest = work[d].rest
  BY <1>1, <1>2 DEF WorkState
<1>4. work' = [work EXCEPT ![d] = W]
  BY <1>2 DEF Step, CoverInv, WorkTypes
<1>5. Covers(W)'
  BY <1>1, <1>3 DEF Covers, AccountsStay, AtEvent
<1>6. QED
  BY <1>3, <1>4, <1>5, PlaceMoves

\* A delivery that goes on, when its event is accounted for.
LEMMA NextCovers ==
    ASSUME CoverInv, NEW d \in Delivery, work[d].pc \in AtEvent, NextEvent(d),
           UNCHANGED body, AccountsStay, NEW c, c = Current(d), Accounted(c)'
    PROVE  Coverage' /\ work' \in [Delivery -> WorkState]
<1>1. work[d] \in WorkState /\ Covers(work[d])
  BY DEF CoverInv, WorkTypes, Coverage
<1>p. PICK r : r = work[d].rest
  OBVIOUS
<1>2. r \in Seq(Event) /\ r # <<>>
  BY <1>1, <1>p DEF Covers, WorkState, AtEvent
<1>3. /\ Tail(r) \in Seq(Event) /\ Len(Tail(r)) = Len(r) - 1
      /\ \A i \in 1..Len(Tail(r)) : Tail(r)[i] = r[i + 1]
      /\ Len(r) \in Nat /\ DOMAIN r = 1..Len(r) /\ DOMAIN Tail(r) = 1..Len(Tail(r))
  BY <1>2, HeadTailProperties, LenProperties
<1>4. \A e \in Range(r) : e = Head(r) \/ e \in Range(Tail(r))
  <2> SUFFICES ASSUME NEW i \in 1..Len(r), r[i] # Head(r) PROVE r[i] \in Range(Tail(r))
    BY <1>3 DEF Range
  <2>0. r[1] = Head(r)
    BY <1>2
  <2>1. i # 1
    BY <2>0
  <2>2. i - 1 \in 1..Len(Tail(r)) /\ Tail(r)[i - 1] = r[i]
    BY <1>3, <2>1
  <2>3. QED
    BY <1>3, <2>2 DEF Range
<1>5. PICK W : W = [work[d] EXCEPT !.rest = Tail(r), !.pc = Ready(Tail(r))]
  OBVIOUS
<1>6. /\ W \in WorkState /\ W.of = work[d].of /\ W.rest = Tail(r) /\ W.pc = Ready(Tail(r))
      /\ W.pc \in {"create", "answer"}
  BY <1>1, <1>3, <1>5 DEF WorkState, Ready, AtEvent
<1>7. work' = [work EXCEPT ![d] = W]
  BY <1>p, <1>5 DEF NextEvent, CoverInv, WorkTypes
<1>8. Covers(W)'
  <2>1. W.rest = <<>> <=> W.pc = "answer"
    BY <1>6 DEF Ready
  <2>2. ASSUME NEW e \in Event, Readable(body[W.of], e)'
        PROVE  Accounted(e)' \/ e \in Range(W.rest)
    <3>1. Accounted(e) \/ e \in Range(r)
      BY <1>1, <1>p, <1>6, <2>2 DEF Covers
    <3>2. Accounted(Head(r))'
      <4>1. Head(r) = c
        BY <1>p DEF Current
      <4>2. QED
        BY <4>1
    <3>3. QED
      BY <1>4, <1>6, <3>1, <3>2 DEF AccountsStay
  <2>3. QED
    BY <2>1, <2>2 DEF Covers
<1>9. QED
  BY <1>6, <1>7, <1>8, PlaceMoves

\* The event of a delivery.
LEMMA CurrentIsEvent ==
    ASSUME CoverInv, NEW d \in Delivery, work[d].pc \in AtEvent
    PROVE  Current(d) \in Event
<1>1. work[d].rest \in Seq(Event) /\ work[d].rest # <<>>
  BY DEF CoverInv, WorkTypes, WorkState, Coverage, Covers, AtEvent
<1>2. QED
  BY <1>1, HeadTailProperties DEF Current

LEMMA ArriveCovers ==
    ASSUME CoverInv, NEW d \in Delivery, NEW n \in Notice, Arrive(d, n)
    PROVE  CoverInv'
<1>0. /\ UNCHANGED <<body, audit, rejects, unlogged, abandoned>>
      /\ AccountsStay /\ UNCHANGED <<rejects, unlogged>>
  BY DEF Arrive, history, AccountsStay, Accounted, Settled
<1>1. body[n] \in Bodies
  BY DEF CoverInv, WorkTypes
<1>2. /\ Events(body[n]) \in Seq(Event)
      /\ \A e \in Event : Readable(body[n], e) => e \in Range(Events(body[n]))
  BY <1>1, EventsFacts
<1>3. PICK pc : /\ pc = CASE body[n].shape = "notJson"   -> "reject"
                          [] body[n].shape = "nullEntry" -> "throw"
                          [] OTHER -> Ready(Events(body[n]))
                /\ work' = [work EXCEPT ![d] = [of |-> n, rest |-> Events(body[n]), pc |-> pc]]
  BY DEF Arrive
<1>4. pc \in {"reject", "throw"} \/ pc = Ready(Events(body[n]))
  BY <1>3
<1>5. PICK W : W = [of |-> n, rest |-> Events(body[n]), pc |-> pc]
  OBVIOUS
<1>6. W \in WorkState /\ W.of = n /\ W.rest = Events(body[n]) /\ W.pc = pc
  BY <1>2, <1>4, <1>5 DEF WorkState, Ready, AtEvent
<1>7. Covers(W)'
  <2>1. CASE pc \in {"reject", "throw"}
    BY <1>6, <2>1 DEF Covers, AtEvent
  <2>2. CASE pc = Ready(Events(body[n]))
    <3>1. W.rest = <<>> <=> W.pc = "answer"
      BY <1>6, <2>2 DEF Ready
    <3>2. \A e \in Event : Readable(body[W.of], e)' => e \in Range(W.rest)
      BY <1>0, <1>2, <1>6
    <3>3. QED
      BY <3>1, <3>2 DEF Covers
  <2>3. QED
    BY <1>4, <2>1, <2>2
<1>8. Coverage' /\ work' \in [Delivery -> WorkState]
  BY <1>0, <1>3, <1>5, <1>6, <1>7, PlaceMoves
<1>9. /\ notice' \in [Notice -> [state : {"waiting", "acked", "refused"},
                                 deliveries : 0..MaxDeliveries]]
      /\ \A k \in Notice : notice'[k].state = notice[k].state
  <2>1. notice[n].deliveries \in 0..MaxDeliveries /\ notice[n].deliveries < MaxDeliveries
    BY DEF Arrive, CoverInv, WorkTypes
  <2>2. notice[n].deliveries + 1 \in 0..MaxDeliveries
    BY <2>1, DeliveriesAssumption
  <2>3. notice' = [notice EXCEPT ![n].deliveries = @ + 1]
    BY DEF Arrive
  <2>4. QED
    BY <2>2, <2>3 DEF CoverInv, WorkTypes
<1>10. AckedIsAudited'
  BY <1>0, <1>9, AckedStays
<1>11. QED
  BY <1>0, <1>8, <1>9, <1>10 DEF CoverInv, WorkTypes

\* Only a delivery that has all its events behind it acknowledges the notice.
LEMMA FinishCovers ==
    ASSUME CoverInv, NEW d \in Delivery, Reject(d) \/ Throw(d) \/ Acknowledge(d)
    PROVE  CoverInv'
<1>0. UNCHANGED <<body, unlogged>> /\ AccountsStay
  BY DEF Reject, Throw, Acknowledge, history, AccountsStay, Accounted, Settled
<1>1. PICK outcome \in {"refused", "waiting", "acked"} :
          Finish(d, outcome) /\ (outcome = "acked" => work[d].pc = "answer")
  BY DEF Reject, Throw, Acknowledge, Doing
<1>2. Coverage' /\ work' \in [Delivery -> WorkState]
  <2>1. PICK W : W = NoWork
    OBVIOUS
  <2>2. W \in WorkState /\ work' = [work EXCEPT ![d] = W]
    BY <1>1, <2>1, NoWorkIsIdle DEF Finish
  <2>3. Covers(W)'
    BY <2>1, NoWorkIsIdle DEF Covers, AtEvent
  <2>4. QED
    BY <1>0, <2>2, <2>3, PlaceMoves
<1>3. work[d] \in WorkState /\ Covers(work[d])
  BY DEF CoverInv, WorkTypes, Coverage
<1> DEFINE n == work[d].of
<1>4. n \in Notice
  BY <1>3 DEF WorkState
<1>5. /\ notice' \in [Notice -> [state : {"waiting", "acked", "refused"},
                                 deliveries : 0..MaxDeliveries]]
      /\ \A k \in Notice : k # n => notice'[k] = notice[k]
      /\ notice'[n].state = IF notice[n].state = "waiting" THEN outcome ELSE notice[n].state
  BY <1>1, <1>4 DEF Finish, CoverInv, WorkTypes
<1>6. AckedIsAudited'
  <2>1. CASE outcome # "acked"
    <3>1. \A k \in Notice : notice'[k].state = "acked" => notice[k].state = "acked"
      BY <1>5, <2>1
    <3>2. QED
      BY <1>0, <3>1, AckedStays
  <2>2. CASE outcome = "acked"
    <3>1. \A e \in Event : Readable(body[n], e) => Accounted(e)
      <4>1. work[d].rest = <<>> /\ Range(work[d].rest) = {}
        BY <1>1, <1>3, <2>2 DEF Covers, Range
      <4>2. QED
        BY <1>1, <1>3, <2>2, <4>1 DEF Covers
    <3>2. \A k \in Notice, e \in Event :
              notice'[k].state = "acked" /\ Readable(body[k], e) => Accounted(e)
      BY <1>5, <3>1 DEF CoverInv, AckedIsAudited, Accounted
    <3>3. QED
      BY <1>0, <3>2 DEF AckedIsAudited, AccountsStay, Accounted
  <2>3. QED
    BY <2>1, <2>2
<1>7. rejects' \in Nat
  BY DEF Reject, Throw, Acknowledge, CoverInv, WorkTypes
<1>8. QED
  BY <1>0, <1>2, <1>5, <1>6, <1>7 DEF CoverInv, WorkTypes

\* The steps at an event.
LEMMA EventCovers ==
    ASSUME CoverInv, LedgerTypes, NEW d \in Delivery,
           \/ Create(d) \/ CreateError(d) \/ Dispatch(d) \/ DispatchError(d)
           \/ MarkProcessed(d) \/ MarkProcessedError(d) \/ MarkFailed(d) \/ MarkFailedError(d)
    PROVE  CoverInv'
<1>c. PICK c : c = Current(d)
  OBVIOUS
<1>0. /\ work[d].pc \in AtEvent /\ c \in Event /\ UNCHANGED <<body, notice, rejects>>
  <2>1. work[d].pc \in AtEvent /\ UNCHANGED <<body, notice, rejects>>
    BY DEF Create, CreateError, Dispatch, DispatchError, MarkProcessed, MarkProcessedError,
           MarkFailed, MarkFailedError, Settle, Doing, AtEvent
  <2>2. QED
    BY <1>c, <2>1, CurrentIsEvent
<1>t. /\ audit \in [Event -> [RECEIVED : Int, PROCESSED : Nat, FAILED : Nat]]
      /\ abandoned \in [Event -> Nat] /\ unlogged \subseteq Event
  BY DEF LedgerTypes, CoverInv, WorkTypes
<1>e. /\ AccountsStay /\ unlogged' \subseteq Event
      /\ \/ \E pc \in AtEvent : Step(d, pc)
         \/ NextEvent(d) /\ Accounted(c)'
  <2>1. CASE Create(d)
    <3>1. audit' = [audit EXCEPT ![c].RECEIVED = @ + 1] /\ UNCHANGED <<unlogged, abandoned>>
      BY <1>c, <2>1 DEF Create, history
    <3>2. \A e \in Event : /\ audit'[e].PROCESSED = audit[e].PROCESSED
                           /\ audit'[e].FAILED = audit[e].FAILED
      BY <1>t, <3>1
    <3>3. QED
      BY <1>t, <2>1, <3>1, <3>2 DEF Create, AccountsStay, Accounted, Settled, AtEvent
  <2>2. CASE CreateError(d)
    <3>1. unlogged' = unlogged \cup {c} /\ UNCHANGED <<audit, abandoned>> /\ NextEvent(d)
      BY <1>c, <2>2 DEF CreateError
    <3>2. QED
      BY <1>0, <1>t, <3>1 DEF AccountsStay, Accounted, Settled
  <2>3. CASE Dispatch(d) \/ DispatchError(d) \/ MarkProcessedError(d)
    <3>1. UNCHANGED <<audit, unlogged, abandoned>> /\ \E pc \in AtEvent : Step(d, pc)
      BY <2>3 DEF Dispatch, DispatchError, MarkProcessedError, history, AtEvent
    <3>2. QED
      BY <1>t, <3>1 DEF AccountsStay, Accounted, Settled
  <2>4. CASE MarkProcessed(d) \/ MarkFailed(d)
    <3>1. PICK st \in {"PROCESSED", "FAILED"} :
              /\ audit' = [audit EXCEPT ![c].RECEIVED = @ - 1, ![c][st] = @ + 1]
              /\ NextEvent(d) /\ UNCHANGED <<unlogged, abandoned>>
      BY <1>c, <2>4 DEF MarkProcessed, MarkFailed, Settle, history
    <3>2. /\ \A e \in Event : /\ audit'[e].PROCESSED \in Nat /\ audit'[e].FAILED \in Nat
                              /\ audit'[e].PROCESSED >= audit[e].PROCESSED
                              /\ audit'[e].FAILED >= audit[e].FAILED
          /\ audit'[c].PROCESSED + audit'[c].FAILED > 0
      <4>1. CASE st = "PROCESSED"
        BY <1>0, <1>t, <3>1, <4>1
      <4>2. CASE st = "FAILED"
        BY <1>0, <1>t, <3>1, <4>2
      <4>3. QED
        BY <4>1, <4>2
    <3>3. AccountsStay /\ Accounted(c)'
      <4>1. \A e \in Event : Settled(e) => Settled(e)'
        BY <1>t, <3>2 DEF Settled
      <4>2. Settled(c)'
        BY <3>2 DEF Settled
      <4>3. QED
        BY <3>1, <4>1, <4>2 DEF AccountsStay, Accounted
    <3>4. QED
      BY <1>t, <3>1, <3>3
  <2>5. CASE MarkFailedError(d)
    <3>1. /\ abandoned' = [abandoned EXCEPT ![c] = @ + 1] /\ NextEvent(d)
          /\ UNCHANGED <<audit, unlogged>>
      BY <1>c, <2>5 DEF MarkFailedError
    <3>2. abandoned'[c] > 0 /\ \A e \in Event : abandoned[e] > 0 => abandoned'[e] > 0
      BY <1>0, <1>t, <3>1
    <3>3. QED
      BY <1>t, <3>1, <3>2 DEF AccountsStay, Accounted, Settled
  <2>6. QED
    BY <2>1, <2>2, <2>3, <2>4, <2>5
<1>1. Coverage' /\ work' \in [Delivery -> WorkState]
  <2>1. CASE NextEvent(d) /\ Accounted(c)'
    BY <1>c, <1>0, <1>e, <2>1, NextCovers
  <2>2. ASSUME NEW pc \in AtEvent, Step(d, pc)
        PROVE  Coverage' /\ work' \in [Delivery -> WorkState]
    BY <1>0, <1>e, <2>2, StepCovers
  <2>3. QED
    BY <1>e, <2>1, <2>2
<1>2. AckedIsAudited'
  BY <1>0, <1>e, AckedStays
<1>3. QED
  BY <1>0, <1>e, <1>1, <1>2 DEF CoverInv, WorkTypes

LEMMA CutCovers ==
    ASSUME CoverInv, LedgerTypes, CutDeliveries
    PROVE  CoverInv'
<1>1. work' \in [Delivery -> WorkState] /\ \A d \in Delivery : work'[d].pc = "idle"
  BY NoWorkIsIdle DEF CutDeliveries
<1>2. AccountsStay
  <2>1. \A e \in Event : Cardinality(Holders(e)) \in Nat
    BY OwnersAreDeliveries, DeliveriesAssumption, FS_Subset, FS_CardinalityType
  <2>2. \A e \in Event : abandoned[e] > 0 => abandoned'[e] > 0
    BY <2>1 DEF CutDeliveries, LedgerTypes
  <2>3. QED
    BY <2>2 DEF CutDeliveries, AccountsStay, Accounted, Settled
<1>3. UNCHANGED <<body, notice, rejects, unlogged>>
  BY DEF CutDeliveries
<1>4. AckedIsAudited'
  BY <1>2, <1>3, AckedStays
<1>5. Coverage'
  BY <1>1 DEF Coverage, Covers, AtEvent
<1>6. QED
  BY <1>1, <1>3, <1>4, <1>5 DEF CoverInv, WorkTypes

LEMMA CoverStep ==
    ASSUME CoverInv, Ledger, IntakeNext
    PROVE  CoverInv'
BY ArriveCovers, FinishCovers, EventCovers, CutCovers
   DEF IntakeNext, NewDelivery, IntakeStep, DeliveryStep, Ledger

LEMMA CoverStutter ==
    ASSUME CoverInv, UNCHANGED intakeVars
    PROVE  CoverInv'
<1> USE DEF intakeVars
<1>1. WorkTypes'
  BY DEF CoverInv, WorkTypes
<1>2. AccountsStay
  BY DEF AccountsStay, Accounted, Settled
<1>3. Coverage'
  BY <1>2 DEF CoverInv, Coverage, Covers, AccountsStay
<1>4. AckedIsAudited'
  BY <1>2, AckedStays
<1>5. QED
  BY <1>1, <1>3, <1>4 DEF CoverInv

LEMMA CoverInit == IntakeInit => CoverInv
<1> SUFFICES ASSUME IntakeInit PROVE CoverInv
  OBVIOUS
<1>1. work \in [Delivery -> WorkState] /\ \A d \in Delivery : work[d].pc = "idle"
  BY NoWorkIsIdle DEF IntakeInit
<1>2. 0 \in 0..MaxDeliveries
  BY DeliveriesAssumption
<1>3. WorkTypes
  BY <1>1, <1>2 DEF IntakeInit, WorkTypes
<1>4. Coverage
  BY <1>1 DEF Coverage, Covers, AtEvent
<1>5. AckedIsAudited
  BY DEF IntakeInit, AckedIsAudited
<1>6. QED
  BY <1>3, <1>4, <1>5 DEF CoverInv

LEMMA CoverInvariant == IntakeSpec => []CoverInv
BY CoverInit, CoverStep, CoverStutter, LedgerInvariant, PTL DEF IntakeSpec

\* Each event that the normalizer is to find in an acknowledged notice has a settled row in
\* webhook_logs, unless the database refused to create or to update it or the process was
\* killed over it (webhook.controller.js, webhookLog.repository.js).
THEOREM AcknowledgedIsAudited == IntakeSpec => []AckedIsAudited
<1>1. CoverInv => AckedIsAudited
  BY DEF CoverInv
<1>2. QED
  BY <1>1, CoverInvariant, PTL

\* The deliveries and the rows they write are well typed: a delivery is at an event of a
\* notice, and no row is settled that was not there.
THEOREM IntakeTypes == IntakeSpec => []IntakeTypeOK
<1>1. CoverInv /\ Ledger => IntakeTypeOK
  <2> SUFFICES ASSUME CoverInv, Ledger PROVE IntakeTypeOK
    OBVIOUS
  <2>1. \A e \in Event : Cardinality(Holders(e)) \in Nat
    BY OwnersAreDeliveries, DeliveriesAssumption, FS_Subset, FS_CardinalityType
  <2>2. \A e \in Event : audit[e].RECEIVED \in Nat
    BY <2>1 DEF Ledger, LedgerTypes
  <2>3. audit \in [Event -> [RECEIVED : Nat, PROCESSED : Nat, FAILED : Nat]]
    BY <2>2 DEF Ledger, LedgerTypes
  <2>4. work \in [Delivery ->
          [pc : {"idle", "reject", "throw", "create", "dispatch", "processed", "failed",
                 "answer"}, of : Notice, rest : Seq(Event)]]
    BY DEF CoverInv, WorkTypes, WorkState, AtEvent
  <2>5. QED
    BY <2>3, <2>4 DEF CoverInv, WorkTypes, Ledger, LedgerTypes, IntakeTypeOK
<1>2. QED
  BY <1>1, CoverInvariant, LedgerInvariant, PTL

-----------------------------------------------------------------------------
(* The process and its parts.                                              *)

\* Whatever the process does, to each of its parts it is a step of that part, or none.
LEMMA ServerStepOfParts ==
    ASSUME ServerNext \/ UNCHANGED serverVars
    PROVE  /\ ClientNext \/ UNCHANGED callVars
           /\ IntakeNext \/ UNCHANGED intakeVars
           /\ TemplatesNext \/ UNCHANGED templateVars
<1>1. CASE UNCHANGED serverVars
  BY <1>1 DEF serverVars
<1>2. CASE Incoming
  BY <1>2 DEF Incoming, IntakeNext, TemplatesNext
<1>3. ASSUME NEW c \in Call, CallBegins(c) \/ CallGoesOn(c)
      PROVE  ClientNext /\ UNCHANGED <<intakeVars, templateVars>>
  BY <1>3 DEF CallBegins, CallGoesOn, ClientNext
<1>4. ASSUME NEW d \in Delivery, DeliveryGoesOn(d)
      PROVE  IntakeNext /\ UNCHANGED <<callVars, templateVars>>
  BY <1>4 DEF DeliveryGoesOn, IntakeNext, IntakeStep
<1>5. ASSUME NEW x \in Editor, RequestGoesOn(x)
      PROVE  TemplatesNext /\ UNCHANGED <<callVars, intakeVars>>
  BY <1>5 DEF RequestGoesOn, TemplatesNext
<1>6. CASE Signal \/ StartAgain
  BY <1>6 DEF Signal, StartAgain
<1>7. CASE StopCleanly \/ Kill
  BY <1>7 DEF StopCleanly, Kill, EndProcess, ClientNext, IntakeNext, TemplatesNext
<1>8. QED
  BY <1>1, <1>2, <1>3, <1>4, <1>5, <1>6, <1>7 DEF ServerNext

\* The composition implements each of its parts: no request, signal, exit or restart of
\* the process makes a call, a delivery or a template do what it would not do alone.
THEOREM ServerRunsItsParts == ServerSpec => ClientSpec /\ IntakeSpec /\ TemplatesSpec
<1>1. ServerInit => ClientInit /\ IntakeInit /\ TemplatesInit
  BY DEF ServerInit
<1>2. [ServerNext]_serverVars =>
          [ClientNext]_callVars /\ [IntakeNext]_intakeVars /\ [TemplatesNext]_templateVars
  BY ServerStepOfParts
<1>3. QED
  BY <1>1, <1>2, PTL DEF ServerSpec, ClientSpec, IntakeSpec, TemplatesSpec

\* The parts' invariants hold of the process, with its crashes and restarts.
THEOREM ServerInvariants ==
    ServerSpec => /\ [](PostsAreBounded /\ NotGivenUpEarly)
                  /\ [](AuditIsTrue /\ AckedIsAudited)
                  /\ [](OneDefault /\ DefaultIsKept /\ UsageIsCounted)
                  /\ []SilentOnlyWithoutText
                  /\ ImplementsRemoteCall
<1>1. ServerSpec => ClientSpec /\ IntakeSpec /\ TemplatesSpec
  BY ServerRunsItsParts
<1>2. ClientSpec => []PostsAreBounded /\ []NotGivenUpEarly
  BY CallPostsAreBounded, CallNotGivenUpEarly
<1>3. IntakeSpec => []AuditIsTrue /\ []AckedIsAudited
  BY AuditStaysTrue, AcknowledgedIsAudited
<1>4. TemplatesSpec => /\ []OneDefault /\ []DefaultIsKept /\ []UsageIsCounted
                       /\ []SilentOnlyWithoutText
  BY DefaultIsAlone, DefaultStays, UsesAreCounted, SilentWithoutText
<1>5. ClientSpec => ImplementsRemoteCall
  BY ClientsImplementRemoteCall
<1>6. QED
  BY <1>1, <1>2, <1>3, <1>4, <1>5, PTL

\* The process, through its crashes and restarts, and everything it runs stay well typed.
THEOREM ServerTypes == ServerSpec => []ServerTypeOK
<1> DEFINE Own == /\ process \in {"up", "draining", "stopped", "killed"}
                  /\ unattended \subseteq Call \cup Delivery \cup Editor
                  /\ workload \in {"calls", "webhooks", "templates"}
<1>1. ServerInit => Own
  BY DEF ServerInit
<1>2. Own /\ [ServerNext]_serverVars => Own'
  BY DEF ServerNext, serverVars, Incoming, CallBegins, CallGoesOn, DeliveryGoesOn,
         RequestGoesOn, Signal, StopCleanly, Kill, EndProcess, StartAgain
<1>3. ServerSpec => []ClientInv /\ []IntakeTypeOK /\ []TemplatesTypeOK
  BY ServerRunsItsParts, ClientInvariant, IntakeTypes, TemplateTypes, PTL
<1>4. Own /\ ClientInv /\ IntakeTypeOK /\ TemplatesTypeOK => ServerTypeOK
  BY DEF ClientInv, ServerTypeOK
<1>5. QED
  BY <1>1, <1>2, <1>3, <1>4, PTL DEF ServerSpec

-----------------------------------------------------------------------------
(* The clean stop.                                                         *)

LEMMA CleanStopStep ==
    ASSUME ClientInv, Ledger, TemplatesInv, ServerNext,
           process' = "stopped", process # "stopped"
    PROVE  /\ \A e \in Event : Holders(e) \cap unattended = {} => abandoned'[e] = abandoned[e]
           /\ \A i \in Template : Uncounted(i) \cap unattended = {} => missed'[i] = missed[i]
           /\ (\A x \in Editor \cap unattended : ~Setting(x)) => promised' = promised
           /\ \A c \in Call \ unattended : call'[c] = call[c]
<1>1. StopCleanly
  <2>1. process' = process => process' # "stopped"
    OBVIOUS
  <2>2. ~Incoming /\ ~Signal /\ ~Kill /\ ~StartAgain
    BY <2>1 DEF Incoming, Signal, Kill, StartAgain, EndProcess, Running
  <2>3. /\ \A c \in Call : ~CallBegins(c) /\ ~CallGoesOn(c)
        /\ \A d \in Delivery : ~DeliveryGoesOn(d)
        /\ \A x \in Editor : ~RequestGoesOn(x)
    BY <2>1 DEF CallBegins, CallGoesOn, DeliveryGoesOn, RequestGoesOn
  <2>4. QED
    BY <2>2, <2>3 DEF ServerNext
<1>2. NoRequest /\ CutCalls /\ CutDeliveries /\ CutRequests
  BY <1>1 DEF StopCleanly, EndProcess
<1>3. ASSUME NEW e \in Event, Holders(e) \cap unattended = {}
      PROVE  abandoned'[e] = abandoned[e]
  <2>1. Holders(e) = {}
    BY <1>2, <1>3 DEF NoRequest, Holders, HoldsRow
  <2>2. Cardinality(Holders(e)) = 0
    BY <2>1, FS_EmptySet
  <2>3. abandoned'[e] = abandoned[e] + Cardinality(Holders(e))
    BY <1>2 DEF CutDeliveries
  <2>4. QED
    BY <2>2, <2>3 DEF Ledger, LedgerTypes
<1>4. ASSUME NEW i \in Template, Uncounted(i) \cap unattended = {}
      PROVE  missed'[i] = missed[i]
  <2>1. Uncounted(i) = {}
    BY <1>2, <1>4 DEF NoRequest, Uncounted
  <2>2. Cardinality(Uncounted(i)) = 0
    BY <2>1, FS_EmptySet
  <2>3. missed'[i] = missed[i] + Cardinality(Uncounted(i))
    BY <1>2 DEF CutRequests
  <2>4. QED
    BY <2>2, <2>3 DEF TemplatesInv, TypeInv, TemplatesTypeOK
<1>5. ASSUME \A x \in Editor \cap unattended : ~Setting(x)
      PROVE  promised' = promised
  <2>1. \A x \in Editor : ~Setting(x)
    BY <1>2, <1>5 DEF NoRequest, Setting
  <2>2. promised \in BOOLEAN
    BY DEF TemplatesInv, TypeInv, TemplatesTypeOK
  <2>3. QED
    BY <1>2, <2>1, <2>2 DEF CutRequests
<1>6. \A c \in Call \ unattended : call'[c] = call[c]
  BY <1>2 DEF NoRequest, CutCalls
<1>7. QED
  BY <1>3, <1>4, <1>5, <1>6

\* "Graceful shutdown" (server.js): a clean exit cuts only what nobody waits for.
THEOREM CleanStopKeepsAll == ServerSpec => CleanStopLosesNothing
<1>1. ServerSpec => []ClientInv /\ []Ledger /\ []TemplatesInv
  BY ServerRunsItsParts, ClientInvariant, LedgerInvariant, TemplatesInvariant
<1>2. ClientInv /\ Ledger /\ TemplatesInv /\ [ServerNext]_serverVars =>
          [process' = "stopped" /\ process # "stopped" =>
              /\ \A e \in Event :
                    Holders(e) \cap unattended = {} => abandoned'[e] = abandoned[e]
              /\ \A i \in Template :
                    Uncounted(i) \cap unattended = {} => missed'[i] = missed[i]
              /\ (\A x \in Editor \cap unattended : ~Setting(x)) => promised' = promised
              /\ \A c \in Call \ unattended : call'[c] = call[c]]_serverVars
  BY CleanStopStep
<1>3. QED
  BY <1>1, <1>2, PTL DEF ServerSpec, CleanStopLosesNothing
=============================================================================
