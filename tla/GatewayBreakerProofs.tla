------------------------ MODULE GatewayBreakerProofs ------------------------
(***************************************************************************)
(* Proofs about the circuit breaker, for any finite set of overlapping     *)
(* calls, any threshold and any timeout.                                   *)
(***************************************************************************)
EXTENDS GatewayBreaker, FiniteSetTheorems, TLAPS

(***************************************************************************)
(* Only calls in flight can still raise the count of an open circuit: each *)
(* failure trades one of them for one more failure.                        *)
(***************************************************************************)
RoomToCount ==
  /\ state = "open" =>
        failureCount + Cardinality(Pending) < Threshold + Cardinality(Calls)
  /\ state = "half_open" => failureCount < Threshold + Cardinality(Calls)

(* The inductive invariant. *)
BreakerInv ==
  /\ GBTypeOK
  /\ FieldsAgree
  /\ CountsConsecutive
  /\ RoomToCount

LEMMA InitInv == GBInit => BreakerInv
  BY BreakerAssumption
     DEF GBInit, BreakerInv, GBTypeOK, FieldsAgree, CountsConsecutive,
         RoomToCount, NotOpened

(* The calls in flight are finitely many, and no more than the calls. *)
LEMMA InFlightFinite ==
  /\ IsFiniteSet(Pending)
  /\ Cardinality(Pending) \in Nat /\ Cardinality(Calls) \in Nat
  /\ Cardinality(Pending) <= Cardinality(Calls)
  <1>1. Pending \in SUBSET Calls
    BY DEF Pending
  <1> QED
    BY <1>1, FS_Subset, FS_CardinalityType, BreakerAssumption

(* A call that finishes is one less in flight. *)
LEMMA FinishShrinks ==
  ASSUME GBTypeOK, NEW c \in Calls, Finish(c)
  PROVE  /\ Cardinality(Pending') = Cardinality(Pending) - 1
         /\ Cardinality(Pending') \in Nat
         /\ Cardinality(Pending') < Cardinality(Calls)
  <1>1. Pending' = Pending \ {c} /\ c \in Pending
    BY DEF Finish, Pending, GBTypeOK
  <1>2. /\ IsFiniteSet(Pending')
        /\ Cardinality(Pending') = Cardinality(Pending) - 1
    BY <1>1, InFlightFinite, FS_RemoveElement
  <1> QED
    BY <1>2, InFlightFinite, FS_CardinalityType

(* Recording a failure keeps the fields in agreement. *)
LEMMA FailureKeeps ==
  ASSUME BreakerInv, NEW c \in Calls, FailCall(c)
  PROVE  BreakerInv'
  <1>1. GBTypeOK /\ Finish(c) /\ RecordFailure
    BY DEF FailCall, BreakerInv
  <1>2. /\ Cardinality(Pending') = Cardinality(Pending) - 1
        /\ Cardinality(Pending') < Cardinality(Calls)
        /\ Cardinality(Pending') \in Nat
    BY <1>1, FinishShrinks
  <1>3. /\ Cardinality(Pending) \in Nat /\ Cardinality(Calls) \in Nat
        /\ Threshold \in Nat \ {0} /\ RecoveryTimeout \in Nat \ {0}
    BY InFlightFinite, BreakerAssumption
  <1>4. GBTypeOK' /\ streak' = AtMost(streak + 1, Threshold)
    BY <1>1, <1>3
       DEF GBTypeOK, Finish, FailCall, RecordFailure, Open, AtMost, NotOpened
  <1>5. CASE state = "half_open"
    BY <1>1, <1>2, <1>3, <1>4, <1>5
       DEF BreakerInv, GBTypeOK, RecordFailure, Open, AtMost, NotOpened,
           FieldsAgree, CountsConsecutive, RoomToCount
  <1>6. CASE state # "half_open" /\ failureCount + 1 >= Threshold
    <2>1. /\ failureCount' = failureCount + 1
          /\ state' = "open" /\ elapsed' = 0 /\ sinceOpened' = 0
      BY <1>1, <1>6 DEF RecordFailure, Open
    <2>2. FieldsAgree'
      BY <1>3, <1>4, <1>6, <2>1 DEF FieldsAgree, NotOpened, GBTypeOK
    <2>3. CountsConsecutive'
      BY <1>3, <1>4, <1>6, <2>1
         DEF BreakerInv, FieldsAgree, CountsConsecutive, AtMost, GBTypeOK
    <2>4. RoomToCount'
      BY <1>2, <1>3, <1>6, <2>1
         DEF BreakerInv, GBTypeOK, FieldsAgree, RoomToCount
    <2> QED
      BY <1>4, <2>2, <2>3, <2>4 DEF BreakerInv
  <1>7. CASE state # "half_open" /\ ~(failureCount + 1 >= Threshold)
    BY <1>1, <1>3, <1>4, <1>7
       DEF BreakerInv, GBTypeOK, RecordFailure, AtMost, NotOpened,
           FieldsAgree, CountsConsecutive, RoomToCount
  <1> QED
    BY <1>5, <1>6, <1>7

(* The invariant is inductive. *)
LEMMA StepInv == BreakerInv /\ [GBNext]_GBVars => BreakerInv'
  <1> SUFFICES ASSUME BreakerInv, [GBNext]_GBVars PROVE BreakerInv'
    OBVIOUS
  <1>a. /\ Threshold \in Nat \ {0} /\ RecoveryTimeout \in Nat \ {0}
        /\ MaxDropped \in Nat
    BY BreakerAssumption
  <1>b. /\ Cardinality(Pending) \in Nat /\ Cardinality(Calls) \in Nat
        /\ Cardinality(Pending) <= Cardinality(Calls)
    BY InFlightFinite
  <1> USE DEF BreakerInv, GBTypeOK, FieldsAgree, CountsConsecutive,
              RoomToCount, NotOpened
  <1>1. ASSUME NEW c \in Calls, Admit(c) PROVE BreakerInv'
    <2>1. state # "open" /\ state' # "open"
      BY <1>1 DEF Admit
    <2> QED
      BY <1>1, <2>1 DEF Admit, Send
  <1>2. ASSUME NEW c \in Calls, AdmitAfterTimeout(c) PROVE BreakerInv'
    <2>1. failureCount' < Threshold + Cardinality(Calls)
      BY <1>a, <1>b, <1>2 DEF AdmitAfterTimeout, Send
    <2> QED
      BY <1>a, <1>2, <2>1 DEF AdmitAfterTimeout, Send
  <1>3. ASSUME NEW c \in Calls, FailCall(c) PROVE BreakerInv'
    BY <1>3, FailureKeeps
  <1>4. ASSUME NEW c \in Calls, AnswerCall(c) PROVE BreakerInv'
    BY <1>a, <1>4 DEF AnswerCall, Finish, RecordSuccess
  <1>5. ASSUME NEW c \in Calls, DropCall(c) PROVE BreakerInv'
    <2>1. /\ Cardinality(Pending') = Cardinality(Pending) - 1
          /\ Cardinality(Pending') \in Nat
      BY <1>5, FinishShrinks DEF DropCall
    <2>2. RoomToCount'
      BY <1>a, <1>b, <1>5, <2>1 DEF DropCall, breaker
    <2>3. GBTypeOK'
      BY <1>a, <1>5 DEF DropCall, Finish, breaker
    <2>4. FieldsAgree' /\ CountsConsecutive'
      BY <1>5 DEF DropCall, breaker
    <2> QED
      BY <2>2, <2>3, <2>4
  <1>6. CASE Tick
    <2>1. Pending' = Pending
      BY <1>6 DEF Tick, Pending
    <2> QED
      BY <1>a, <1>6, <2>1 DEF Tick, AtMost
  <1>7. CASE Toggle \/ UNCHANGED GBVars
    <2>1. Pending' = Pending
      BY <1>7 DEF Toggle, GBVars, Pending
    <2> QED
      BY <1>7, <2>1 DEF Toggle, GBVars, breaker
  <1> QED
    BY <1>1, <1>2, <1>3, <1>4, <1>5, <1>6, <1>7 DEF GBNext, Allow, Outcome

(* The invariant holds in every reachable state. *)
THEOREM Invariant == GBSpec => []BreakerInv
  BY InitInv, StepInv, PTL DEF GBSpec

(* Every variable stays of its type. *)
THEOREM TypeCorrect == GBSpec => []GBTypeOK
  <1>1. BreakerInv => GBTypeOK
    BY DEF BreakerInv
  <1> QED
    BY <1>1, Invariant, PTL

(* Late outcomes never leave the breaker's fields in disagreement. *)
THEOREM FieldsStayInAgreement == GBSpec => []FieldsAgree
  <1>1. BreakerInv => FieldsAgree
    BY DEF BreakerInv
  <1> QED
    BY <1>1, Invariant, PTL

(***************************************************************************)
(* The circuit is closed exactly when the last recorded outcomes are not   *)
(* all failures, in whatever order overlapping calls finish.               *)
(***************************************************************************)
THEOREM ConsecutiveFailuresDecide == GBSpec => []CountsConsecutive
  <1>1. BreakerInv => CountsConsecutive
    BY DEF BreakerInv
  <1> QED
    BY <1>1, Invariant, PTL

(* The failure count of an open circuit is bounded by the calls in flight. *)
THEOREM CountStaysBounded == GBSpec => []CountBounded
  <1>1. BreakerInv => CountBounded
    BY InFlightFinite, BreakerAssumption
       DEF BreakerInv, GBTypeOK, FieldsAgree, RoomToCount, CountBounded
  <1> QED
    BY <1>1, Invariant, PTL

-----------------------------------------------------------------------------
(* The recovery timeout. *)

(***************************************************************************)
(* The opening time the circuit has, if any, is the last one, and a half   *)
(* open circuit has waited the timeout out.                                *)
(***************************************************************************)
OpeningKnown ==
  /\ elapsed # NotOpened => elapsed = sinceOpened
  /\ state = "half_open" => elapsed >= RecoveryTimeout

LEMMA OpeningStep == BreakerInv /\ OpeningKnown /\ [GBNext]_GBVars => OpeningKnown'
  <1> SUFFICES ASSUME BreakerInv, OpeningKnown, [GBNext]_GBVars PROVE OpeningKnown'
    OBVIOUS
  <1>a. /\ Threshold \in Nat \ {0} /\ RecoveryTimeout \in Nat \ {0}
    BY BreakerAssumption
  <1> USE DEF BreakerInv, GBTypeOK, FieldsAgree, OpeningKnown, NotOpened
  <1>1. ASSUME NEW c \in Calls, Allow(c) PROVE OpeningKnown'
    BY <1>1 DEF Allow, Admit, AdmitAfterTimeout, Send
  <1>2. ASSUME NEW c \in Calls, Outcome(c) PROVE OpeningKnown'
    BY <1>a, <1>2 DEF Outcome, FailCall, AnswerCall, Finish, RecordFailure,
                      RecordSuccess, Open
  <1>3. ASSUME NEW c \in Calls, DropCall(c) PROVE OpeningKnown'
    BY <1>3 DEF DropCall, Finish, breaker
  <1>4. CASE Tick
    BY <1>a, <1>4 DEF Tick, AtMost
  <1>5. CASE Toggle \/ UNCHANGED GBVars
    BY <1>5 DEF Toggle, GBVars, breaker
  <1> QED
    BY <1>1, <1>2, <1>3, <1>4, <1>5 DEF GBNext

(***************************************************************************)
(* Within the recovery timeout of its last opening the circuit lets a call *)
(* pass only if it was closed again by the answer of an earlier one.       *)
(***************************************************************************)
THEOREM OnlyAnswersCloseEarly == GBSpec => RejectsWhileOpen
  <1>1. GBInit => OpeningKnown
    BY DEF GBInit, OpeningKnown
  <1>2. BreakerInv /\ OpeningKnown /\ [GBNext]_GBVars =>
           [\A c \in Calls :
              call[c] = "idle" /\ call'[c] # "idle" =>
                 \/ sinceOpened >= RecoveryTimeout
                 \/ state = "closed" /\ streak < Threshold]_GBVars
    <2> SUFFICES ASSUME BreakerInv, OpeningKnown, GBNext,
                        NEW c \in Calls, call[c] = "idle", call'[c] # "idle"
                 PROVE  \/ sinceOpened >= RecoveryTimeout
                        \/ state = "closed" /\ streak < Threshold
      OBVIOUS
    <2>1. PICK d \in Calls : Allow(d)
      BY DEF GBNext, Outcome, FailCall, AnswerCall, DropCall, Finish, Tick, Toggle,
             BreakerInv, GBTypeOK
    <2>2. CASE state = "closed"
      BY <2>2 DEF BreakerInv, CountsConsecutive
    <2>3. CASE state # "closed"
      BY <2>1, <2>3 DEF Allow, Admit, AdmitAfterTimeout, BreakerInv, GBTypeOK,
                        FieldsAgree, OpeningKnown
    <2> QED
      BY <2>2, <2>3
  <1> QED
    BY <1>1, <1>2, OpeningStep, Invariant, PTL DEF GBSpec, RejectsWhileOpen

=============================================================================
