----------------------------- MODULE MCServices -----------------------------
(***************************************************************************)
(* Small instances of UserAccounts, FaasAccounts, FaasEvents and           *)
(* GatewayBreaker for TLC.  They share no state: a behaviour is one of     *)
(* them, and the others stay as they begin.                                *)
(***************************************************************************)
EXTENDS UserAccounts, FaasAccounts, MCFaasEvents, GatewayBreaker

CONSTANTS e, f, other

(* Spellings of one e-mail, and one of another. *)
TwoEmails == [s \in Spellings |-> IF s = other THEN f ELSE e]

(* Instants are drawn in order and without gaps.  A behaviour has a second *)
(* file, or a failure or repeat other than those of UploadFails; it has    *)
(* files or a report.                                                      *)
Instants == {link[2].time : link \in signed} \cup {k.time : k \in {x \in Key : upload[x] # "none"}}
Bounds ==
  /\ \A t \in Instants' \ Instants : t = Cardinality(Instants) + 1
  /\ uploads' + failures' <= MaxUploads
  /\ uploads' = 0 \/ Report \notin queue' \cup logged'

VARIABLE service

MCInit ==
  /\ service \in {"uporabniki", "accounts", "events", "gateway"}
  /\ UAInit /\ FAInit /\ Init /\ GBInit
  /\ service # "accounts" => stage = "dev"
  /\ service # "events" => ~isLocalStage
  /\ service # "gateway" => up

(* The functions of faas-events are asked about one of the e-mails only. *)
OneEmail == \A c \in Places : calls'[c].op \in {"register", "login"} => calls'[c].email = e

MCNext ==
  /\ UNCHANGED service
  /\ \/ service = "uporabniki" /\ UANext /\ UNCHANGED <<FAVars, vars, GBVars>>
     \/ service = "accounts" /\ FANext /\ OneEmail /\ UNCHANGED <<UAVars, vars, GBVars>>
     \/ service = "events" /\ Next /\ Bounds /\ UNCHANGED <<UAVars, FAVars, GBVars>>
     \/ service = "gateway" /\ GBNext /\ UNCHANGED <<UAVars, FAVars, vars>>

(* The handlers of faas-events have nothing to do elsewhere; the callers   *)
(* of the gateway would.                                                   *)
MCSpec ==
  /\ MCInit /\ [][MCNext]_<<service, UAVars, FAVars, vars, GBVars>>
  /\ Fairness /\ (service = "gateway" => GBFairness)

=============================================================================
