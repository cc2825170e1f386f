--------------------------- MODULE GatewayBreaker ---------------------------
(***************************************************************************)
(* The circuit breaker that gateway-web keeps for one upstream service,    *)
(* and the concurrent calls that consult it: proxied requests (_forward)   *)
(* and health probes (_probe_service) alike ask allow_request, await the   *)
(* upstream, and record the outcome.  The gateway is one asyncio loop, so  *)
(* a step runs from one await to the next.  The four services' breakers    *)
(* share nothing; this is any one of them.                                 *)
(***************************************************************************)
EXTENDS Integers, FiniteSets

CONSTANTS
  Calls,            (* calls of the gateway that may be in flight at once   *)
  Threshold,        (* failure_threshold, at least 1 by the constructor     *)
  RecoveryTimeout,  (* recovery_timeout_seconds, in ticks, positive         *)
  MaxDropped        (* bound on calls that end without recording anything   *)

ASSUME BreakerAssumption ==
  /\ IsFiniteSet(Calls)
  /\ Threshold \in Nat \ {0}
  /\ RecoveryTimeout \in Nat \ {0}
  /\ MaxDropped \in Nat

VARIABLES
  state,        (* _state                                                   *)
  failureCount, (* _failure_count                                           *)
  elapsed,      (* time since _opened_at_monotonic, up to RecoveryTimeout   *)
  call,         (* each call: idle, or sent to an upstream that was up/down *)
  up,           (* whether the upstream answers                             *)
  dropped,      (* calls that ended without recording anything              *)
  sinceOpened,  (* history: time since the circuit last opened              *)
  streak        (* history: failures recorded in a row, up to Threshold     *)

breaker == <<state, failureCount, elapsed>>
GBVars == <<breaker, call, up, dropped, sinceOpened, streak>>

NotOpened == -1   (* elapsed when _opened_at_monotonic is None *)

Pending == {c \in Calls : call[c] # "idle"}

AtMost(n, bound) == IF n < bound THEN n ELSE bound

GBTypeOK ==
  /\ state \in {"closed", "open", "half_open"}
  /\ failureCount \in Nat
  /\ elapsed \in {NotOpened} \cup (0..RecoveryTimeout)
  /\ call \in [Calls -> {"idle", "sent_up", "sent_down"}]
  /\ up \in BOOLEAN
  /\ dropped \in 0..MaxDropped
  /\ sinceOpened \in 0..RecoveryTimeout
  /\ streak \in 0..Threshold

GBInit ==
  /\ state = "closed"
  /\ failureCount = 0
  /\ elapsed = NotOpened
  /\ call = [c \in Calls |-> "idle"]
  /\ up \in BOOLEAN
  /\ dropped = 0
  /\ sinceOpened = RecoveryTimeout
  /\ streak = 0

-----------------------------------------------------------------------------
(* _open *)
Open ==
  /\ state' = "open"
  /\ elapsed' = 0
  /\ sinceOpened' = 0

(* The call leaves for the upstream. *)
Send(c) ==
  /\ call[c] = "idle"
  /\ call' = [call EXCEPT ![c] = IF up THEN "sent_up" ELSE "sent_down"]
  /\ UNCHANGED <<failureCount, elapsed, up, dropped, sinceOpened, streak>>

(* allow_request of a circuit that is closed or half open: any number pass. *)
Admit(c) ==
  /\ state \in {"closed", "half_open"}
  /\ Send(c)
  /\ UNCHANGED state

(* Mutant: a rejected call opens the circuit anew, as if it had no time. *)
RejectionReopens(c) ==
  /\ state = "open"
  /\ \/ elapsed >= RecoveryTimeout /\ Send(c) /\ state' = "half_open"
     \/ /\ elapsed < RecoveryTimeout /\ call[c] = "idle"
        /\ elapsed' = 0
        /\ UNCHANGED <<state, failureCount, call, up, dropped, sinceOpened, streak>>

(***************************************************************************)
(* allow_request of an open circuit whose timeout has passed.  Before that *)
(* it answers False, and the caller 503, and nothing changes.              *)
(***************************************************************************)
AdmitAfterTimeout(c) ==
  /\ state = "open"
  /\ elapsed >= RecoveryTimeout
  /\ Send(c)
  /\ state' = "half_open"

(* record_failure *)
RecordFailure ==
  /\ streak' = AtMost(streak + 1, Threshold)
  /\ \/ /\ state = "half_open"
        /\ failureCount' = Threshold
        /\ Open
     \/ /\ state # "half_open"
        /\ failureCount' = failureCount + 1
        /\ IF failureCount' >= Threshold
           THEN Open
           ELSE UNCHANGED <<state, elapsed, sinceOpened>>

(* Mutant: a success forgives one failure instead of all. *)
RecordSuccessDecays ==
  /\ state' = "closed"
  /\ failureCount' = failureCount - 1
  /\ elapsed' = NotOpened
  /\ streak' = 0
  /\ UNCHANGED sinceOpened

(* Mutant: only the fields around the state are reset. *)
RecordSuccessKeepsState ==
  /\ UNCHANGED state
  /\ failureCount' = 0
  /\ elapsed' = NotOpened
  /\ streak' = 0
  /\ UNCHANGED sinceOpened

(* record_success: closes the circuit whatever state it is in. *)
RecordSuccess ==
  /\ state' = "closed"
  /\ failureCount' = 0
  /\ elapsed' = NotOpened
  /\ streak' = 0
  /\ UNCHANGED sinceOpened

Finish(c) ==
  /\ call[c] # "idle"
  /\ call' = [call EXCEPT ![c] = "idle"]
  /\ UNCHANGED up

(***************************************************************************)
(* An httpx.RequestError or a status of at least 500.  A call sent while   *)
(* the upstream was down may fail, by timing out, after it came back.      *)
(***************************************************************************)
FailCall(c) ==
  /\ call[c] = "sent_down" \/ ~up
  /\ Finish(c)
  /\ RecordFailure
  /\ UNCHANGED dropped

(* An answer below 500; one that left before the upstream went down may be late. *)
AnswerCall(c) ==
  /\ call[c] = "sent_up" \/ up
  /\ Finish(c)
  /\ RecordSuccess
  /\ UNCHANGED dropped

(* The call is cancelled, or fails otherwise: neither outcome is recorded. *)
DropCall(c) ==
  /\ dropped < MaxDropped
  /\ dropped' = dropped + 1
  /\ Finish(c)
  /\ UNCHANGED <<breaker, sinceOpened, streak>>

(* time.monotonic moves on. *)
Tick ==
  /\ elapsed' = IF elapsed = NotOpened THEN elapsed
                                       ELSE AtMost(elapsed + 1, RecoveryTimeout)
  /\ sinceOpened' = AtMost(sinceOpened + 1, RecoveryTimeout)
  /\ UNCHANGED <<state, failureCount, call, up, dropped, streak>>

(* The upstream goes down or comes back. *)
Toggle ==
  /\ up' = ~up
  /\ UNCHANGED <<breaker, call, dropped, sinceOpened, streak>>

Allow(c) == Admit(c) \/ AdmitAfterTimeout(c)
Outcome(c) == FailCall(c) \/ AnswerCall(c)

GBNext ==
  \/ \E c \in Calls : Allow(c) \/ Outcome(c) \/ DropCall(c)
  \/ Tick
  \/ Toggle

GBSpec == GBInit /\ [][GBNext]_GBVars

(***************************************************************************)
(* Clients and the status page keep calling, httpx's timeout ends every    *)
(* call, and time passes.  Nothing is assumed of the upstream.             *)
(***************************************************************************)
GBFairness ==
  /\ \A c \in Calls : WF_GBVars(Allow(c)) /\ WF_GBVars(Outcome(c))
  /\ WF_GBVars(Tick)

GBFairSpec == GBSpec /\ GBFairness

-----------------------------------------------------------------------------
(***************************************************************************)
(* Late outcomes of overlapping calls never leave the fields in            *)
(* disagreement: a closed circuit has no opening time and too few          *)
(* failures, any other has both; so the branch of allow_request for an     *)
(* open circuit without an opening time is dead.                           *)
(***************************************************************************)
FieldsAgree ==
  IF state = "closed"
  THEN elapsed = NotOpened /\ failureCount < Threshold
  ELSE elapsed # NotOpened /\ failureCount >= Threshold

(***************************************************************************)
(* Whatever the order in which overlapping calls finish, the circuit is    *)
(* closed exactly when the last Threshold recorded outcomes are not all    *)
(* failures, and then it counts them right.                                *)
(***************************************************************************)
CountsConsecutive ==
  IF state = "closed" THEN failureCount = streak /\ streak < Threshold
                      ELSE streak = Threshold

(***************************************************************************)
(* record_failure goes on counting in an open circuit, but only calls that *)
(* were in flight can reach it, so the count stays near the threshold.     *)
(***************************************************************************)
CountBounded == failureCount < Threshold + Cardinality(Calls)

(* README: it returns 503 until the recovery timeout passes. *)
RejectsUntilTimeout ==
  [][\A c \in Calls :
        call[c] = "idle" /\ call'[c] # "idle" => sinceOpened >= RecoveryTimeout]_GBVars

(***************************************************************************)
(* What the code keeps of it: a call is sent before the timeout has passed *)
(* only when the circuit is closed again, by the answer of a call that was *)
(* still in flight; half open, it was open for the whole of the timeout.   *)
(***************************************************************************)
RejectsWhileOpen ==
  [][\A c \in Calls :
        call[c] = "idle" /\ call'[c] # "idle" =>
           \/ sinceOpened >= RecoveryTimeout
           \/ state = "closed" /\ streak < Threshold]_GBVars

(* Late failures restart the timeout, but not for ever: every opening ends. *)
EveryOpeningEnds == []<>(state # "open")

(* Once the upstream stays up the circuit ends up closed, and stays closed. *)
ClosesWhenUp == <>[]up => <>[](state = "closed")

=============================================================================
