------------------------- MODULE FaasAccountsProofs -------------------------
(***************************************************************************)
(* Proofs about the account functions, on DynamoDB and on a local file,    *)
(* for any people, e-mails, ids and bounds.                                *)
(***************************************************************************)
EXTENDS FaasAccounts, TLAPS

(* What a registration has drawn is an account. *)
CallsAgree ==
  \A c \in Places :
    calls[c].op = "register" =>
      /\ calls[c].who \in Persons
      /\ calls[c].at \in {"read", "open", "crossed", "done"} => calls[c].id \in Ids

(***************************************************************************)
(* While no two commands raced for the file, the one that has read it has  *)
(* all of the table in its copy, and an answered registration is stored.   *)
(***************************************************************************)
FileAgrees ==
  /\ Writers # {} => stage = "local"
  /\ \A c \in Writers : calls[c].op \in {"register", "other"}
  /\ ~raced =>
       /\ \A c, d \in Writers : c = d
       /\ \A c \in Writers :
            /\ calls[c].at # "crossed"
            /\ calls[c].state = IF calls[c].op = "register"
                                THEN table \cup {NewItem(c, calls[c].id)} ELSE table
       /\ \A c \in InFlight("register") :
            calls[c].at = "done" => NewItem(c, calls[c].id) \in table
       /\ welcomed \subseteq table
       /\ file = "whole" \/ cut \/ \E c \in Writers : calls[c].at # "read"

(* The registrations of an e-mail that found it free. *)
Claims(email) ==
  {c \in InFlight("register") :
     calls[c].email = email /\ calls[c].at \in {"found", "read", "open", "crossed"}}

(* An e-mail not registered blindly has one account or one claim at most.  *)
ClaimsAgree ==
  ~raced => \A email \in Emails \ blind :
    /\ \A u, w \in table : u.email = email /\ w.email = email => u = w
    /\ \A c \in Claims(email) :
         /\ \A d \in Claims(email) : c = d
         /\ \A u \in table : u.email # email

(* A request of the profile carries the token of the page. *)
TokensAgree == late \/ \A c \in InFlight("me") : calls[c].id = token

(* The inductive invariant. *)
AccountsInv ==
  FATypeOK /\ CallsAgree /\ FileAgrees /\ ClaimsAgree /\ TokensAgree /\ ProfileIsOwn

LEMMA NoCallIsCall == NoCall \in Call
  BY AccountsAssumption DEF NoCall, Call

LEMMA InitInv == FAInit => AccountsInv
  <1> SUFFICES ASSUME FAInit PROVE AccountsInv
    OBVIOUS
  <1>1. \A c \in Places : calls[c] = NoCall /\ calls[c].op = "none" /\ calls[c].at = "sent"
    BY DEF FAInit, NoCall
  <1>2. FATypeOK
    BY NoCallIsCall DEF FAInit, FATypeOK
  <1>3. CallsAgree /\ FileAgrees /\ ClaimsAgree
    BY <1>1 DEF FAInit, CallsAgree, FileAgrees, ClaimsAgree, Writers, InFlight, Claims
  <1>4. TokensAgree /\ ProfileIsOwn
    BY <1>1 DEF FAInit, TokensAgree, ProfileIsOwn, InFlight
  <1> QED
    BY <1>2, <1>3, <1>4 DEF AccountsInv

(* The parts of the invariant about the accounts, and about the page. *)
DataInv == CallsAgree /\ FileAgrees /\ ClaimsAgree
PageInv == TokensAgree /\ ProfileIsOwn

LEMMA OneCall ==
  ASSUME FATypeOK, NEW c \in Places, NEW q \in Call, Asked(c, q)
  PROVE  /\ calls' \in [Places -> Call] /\ calls'[c] = q
         /\ \A d \in Places \ {c} : calls'[d] = calls[d]
  BY DEF FATypeOK, Asked

LEMMA AtMoves ==
  ASSUME FATypeOK, NEW c \in Places,
         NEW at \in {"sent", "found", "read", "open", "crossed", "done", "refused"}, At(c, at)
  PROVE  \E q \in Call :
           /\ Asked(c, q) /\ q.at = at /\ q.op = calls[c].op /\ q.who = calls[c].who
           /\ q.email = calls[c].email /\ q.id = calls[c].id /\ q.state = calls[c].state
  <1>1. calls[c] \in Call
    BY DEF FATypeOK
  <1>2. PICK q \in Call : q = [calls[c] EXCEPT !.at = at]
    BY <1>1 DEF Call
  <1>3. Asked(c, q)
    BY <1>2 DEF At, Asked
  <1> QED
    BY <1>1, <1>2, <1>3 DEF Call

(* A call that neither writes nor claims an e-mail leaves the accounts.    *)
LEMMA QuietCall ==
  ASSUME FATypeOK, DataInv, NEW c \in Places, NEW q \in Call, Asked(c, q),
         UNCHANGED <<stage, table, file, raced, cut, welcomed>>, blind \subseteq blind',
         c \notin Writers, q.at \notin {"read", "open", "crossed"},
         q.op = "register" => q.who \in Persons /\ q.at \in {"sent", "refused"}
  PROVE  DataInv'
  <1> USE DEF DataInv
  <1>1. calls'[c] = q /\ \A d \in Places \ {c} : calls'[d] = calls[d]
    BY OneCall
  <1>2. CallsAgree'
    BY <1>1 DEF CallsAgree
  <1>3. Writers' = Writers
    BY <1>1 DEF Writers
  <1>4. \A d \in Writers \cup InFlight("register")' :
           d = c \/ calls'[d] = calls[d]
    BY <1>1 DEF Writers, InFlight
  <1>5. FileAgrees'
    BY <1>1, <1>3 DEF FileAgrees, NewItem, Writers, InFlight
  <1>6. ClaimsAgree'
    BY <1>1 DEF ClaimsAgree, Claims, InFlight
  <1> QED
    BY <1>2, <1>5, <1>6

(* A call that asks for no profile but its own leaves the page.            *)
LEMMA QuietPage ==
  ASSUME FATypeOK, PageInv, NEW c \in Places, NEW q \in Call, Asked(c, q),
         UNCHANGED <<token, meData>>, late => late',
         q.op = "me" => late' \/ q.id = token,
         calls[c].op = "me" => late' \/ (q.op = "me" /\ q.id = calls[c].id)
  PROVE  PageInv'
  <1>1. calls'[c] = q /\ \A d \in Places \ {c} : calls'[d] = calls[d]
    BY OneCall
  <1> QED
    BY <1>1 DEF PageInv, TokensAgree, ProfileIsOwn, InFlight

(* A call a page or another function begins. *)
LEMMA BegunKeeps ==
  ASSUME AccountsInv, NEW q \in Call, Begun(q),
         q.op = "register" => q.who \in Persons, q.op = "me" => q.id = token,
         q.at = "sent" \/ (q.op = "other" /\ q.at = "found"),
         acts' \in Nat, UNCHANGED <<data, page, blind>>
  PROVE  AccountsInv'
  <1> USE DEF AccountsInv
  <1>1. PICK c \in Places : calls[c] = NoCall /\ Asked(c, q)
    BY DEF Begun, Idle
  <1>2. calls[c].op = "none" /\ c \notin Writers
    BY <1>1 DEF NoCall, Writers
  <1>3. calls' \in [Places -> Call]
    BY <1>1, OneCall
  <1>4. /\ UNCHANGED <<stage, table, index, file, raced, cut, token, meData, welcomed, late>>
        /\ blind \subseteq blind' /\ blind' \subseteq Emails
    BY DEF data, page, FATypeOK
  <1>5. DataInv'
    BY <1>1, <1>2, <1>4, QuietCall DEF DataInv
  <1>6. PageInv'
    BY <1>1, <1>2, <1>4, QuietPage DEF PageInv
  <1>7. FATypeOK'
    BY <1>3, <1>4 DEF FATypeOK
  <1> QED
    BY <1>5, <1>6, <1>7 DEF DataInv, PageInv

(* A call that goes on without a claim, or ends. *)
LEMMA GoesOn ==
  ASSUME AccountsInv, NEW c \in Places, NEW q \in Call, Asked(c, q), c \notin Writers,
         UNCHANGED <<data, token, welcomed>>, blind \subseteq blind', blind' \subseteq Emails,
         meData' \in Ids \cup {NoId}, late' \in BOOLEAN, acts' \in Nat,
         PageInv', q.at \notin {"read", "open", "crossed"},
         q.op = "register" => q.who \in Persons /\ q.at \in {"sent", "refused"}
  PROVE  AccountsInv'
  <1> USE DEF AccountsInv
  <1>1. calls' \in [Places -> Call]
    BY OneCall
  <1>2. UNCHANGED <<stage, table, index, file, raced, cut>>
    BY DEF data
  <1>3. DataInv'
    BY <1>2, QuietCall DEF DataInv
  <1>4. FATypeOK'
    BY <1>1, <1>2 DEF FATypeOK
  <1> QED
    BY <1>3, <1>4 DEF DataInv, PageInv

(* The query of register.js: what it lets go on is a claim on the e-mail.  *)
LEMMA RegisterQueries ==
  ASSUME AccountsInv, NEW c \in Places, Query(c), calls[c].op = "register"
  PROVE  AccountsInv'
  <1> USE DEF AccountsInv
  <1>1. /\ calls[c] \in Call /\ calls[c].who \in Persons /\ calls[c].at = "sent"
        /\ UNCHANGED <<stage, table, index, file, raced, cut, token, meData, welcomed, late,
                       acts>>
    BY DEF Query, FATypeOK, CallsAgree, data, page
  <1>2. blind \subseteq blind' /\ blind' \subseteq Emails
    BY <1>1 DEF Query, Call, FATypeOK
  <1>3. c \notin Writers
    BY <1>1 DEF Writers
  <1>4. PICK at \in {"found", "refused"} : At(c, at)
    BY DEF Query
  <1>5. PICK q \in Call :
           /\ Asked(c, q) /\ q.at = at /\ q.op = calls[c].op /\ q.who = calls[c].who
           /\ q.email = calls[c].email /\ q.id = calls[c].id
    BY <1>4, AtMoves
  <1>6. q.op = "register" /\ q.at = at /\ q.who = calls[c].who /\ q.email = calls[c].email
    BY <1>5
  <1>7. Asked(c, q)
    BY <1>5
  <1>8. PageInv'
    BY <1>1, <1>6, <1>7, QuietPage DEF PageInv
  <1>9. CASE at = "refused"
    <2>1. meData' \in Ids \cup {NoId} /\ late' \in BOOLEAN /\ acts' \in Nat
      BY <1>1 DEF FATypeOK
    <2> QED
      BY <1>1, <1>2, <1>3, <1>6, <1>7, <1>8, <1>9, <2>1, GoesOn DEF data
  <1>10. CASE at = "found"
    <2>1. calls'[c] = q /\ (\A d \in Places \ {c} : calls'[d] = calls[d])
          /\ calls' \in [Places -> Call]
      BY <1>7, OneCall
    <2>2. Readable /\ Indexed(calls[c].email) = {}
      <3>1. ~At(c, "refused")
        BY <1>6, <1>10, <2>1, AtMoves, OneCall
      <3> QED
        BY <3>1 DEF Query
    <2>3. blind' = IF Hidden(calls[c].email) THEN blind \cup {calls[c].email} ELSE blind
      <3>1. ~At(c, "refused")
        BY <1>6, <1>10, <2>1, AtMoves, OneCall
      <3> QED
        BY <3>1 DEF Query
    <2>4. CallsAgree'
      BY <1>1, <1>6, <1>10, <2>1 DEF CallsAgree
    <2>5. Writers' = Writers
      BY <1>1, <1>6, <1>10, <2>1 DEF Writers
    <2>6. FileAgrees'
      BY <1>1, <1>6, <1>10, <2>1, <2>5 DEF FileAgrees, NewItem, Writers, InFlight
    <2>7. ClaimsAgree'
      <3> SUFFICES ASSUME ~raced, NEW email \in Emails \ blind'
                   PROVE  /\ \A u, w \in table : u.email = email /\ w.email = email => u = w
                          /\ \A d \in Claims(email)' :
                               /\ \A b \in Claims(email)' : d = b
                               /\ \A u \in table : u.email # email
        BY <1>1 DEF ClaimsAgree
      <3>1. email \in Emails \ blind
        BY <1>2
      <3>2. CASE email # calls[c].email
        <4>1. Claims(email)' = Claims(email)
          BY <1>6, <2>1, <3>2 DEF Claims, InFlight
        <4> QED
          BY <3>1, <4>1 DEF ClaimsAgree
      <3>3. CASE email = calls[c].email
        <4>1. ~Hidden(email)
          BY <2>3, <3>3
        <4>2. Claims(email) = {}
          BY <4>1 DEF Hidden, Claims, InFlight
        <4>3. \A u \in table : u.email # email
          BY <2>2, <3>3, <4>1 DEF Hidden, Indexed, FATypeOK
        <4>4. Claims(email)' = {c}
          BY <1>6, <1>10, <2>1, <3>3, <4>2 DEF Claims, InFlight
        <4> QED
          BY <4>3, <4>4
      <3> QED
        BY <3>2, <3>3
    <2>8. FATypeOK'
      BY <1>1, <1>2, <2>1 DEF FATypeOK
    <2> QED
      BY <1>8, <2>4, <2>6, <2>7, <2>8 DEF PageInv
  <1> QED
    BY <1>9, <1>10

(* The query of login.js, the comparison, the profile: nothing is claimed. *)
LEMMA ReadersKeep ==
  ASSUME AccountsInv, NEW c \in Places,
         (Query(c) /\ calls[c].op = "login") \/ Compare(c) \/ GetItem(c)
  PROVE  AccountsInv'
  <1> USE DEF AccountsInv
  <1>1. /\ calls[c] \in Call /\ calls[c].op \in {"login", "me"} /\ c \notin Writers
        /\ UNCHANGED <<data, token, welcomed, meData, late, acts, blind>>
    BY DEF Query, Compare, GetItem, FATypeOK, Writers, page
  <1>2. PICK q \in Call :
           /\ Asked(c, q) /\ q.op = calls[c].op /\ q.at \in {"found", "done", "refused"}
           /\ q.op = "me" => q.id = calls[c].id
    <2>1. CASE \E at \in {"found", "done", "refused"} : At(c, at)
      BY <2>1, AtMoves
    <2>2. CASE Compare(c)
      <3> DEFINE at == IF \E u \in calls[c].state : u.person = calls[c].who
                       THEN "done" ELSE "refused"
                 q == [calls[c] EXCEPT !.at = at, !.state = {}]
      <3>1. Asked(c, q) /\ calls[c].op = "login"
        BY <2>2 DEF Compare
      <3>2. at \in {"done", "refused"}
        OBVIOUS
      <3> HIDE DEF at
      <3>3. [calls[c] EXCEPT !.at = at] \in Call /\ [calls[c] EXCEPT !.at = at].at = at
            /\ [calls[c] EXCEPT !.at = at].op = calls[c].op
        BY <1>1, <3>2 DEF Call
      <3>4. q \in Call /\ q.at = at /\ q.op = calls[c].op
        BY <3>3 DEF Call
      <3> QED
        BY <3>1, <3>2, <3>4
    <2>3. ASSUME calls[c].op = "login", NEW u \in Indexed(calls[c].email),
                 Asked(c, [calls[c] EXCEPT !.at = "found", !.id = u.userId, !.state = {u}])
          PROVE  \E q \in Call :
                   Asked(c, q) /\ q.op = calls[c].op /\ q.at \in {"found", "done", "refused"}
      <3> DEFINE at == [calls[c] EXCEPT !.at = "found"]
                 id == [at EXCEPT !.id = u.userId]
                 q  == [id EXCEPT !.state = {u}]
      <3>1. u \in Item /\ u.userId \in Ids
        BY DEF Indexed, FATypeOK, Item
      <3>2. at \in Call /\ at.at = "found" /\ at.op = "login"
        BY <1>1, <2>3 DEF Call
      <3> HIDE DEF at
      <3>3. id \in Call /\ id.at = "found" /\ id.op = "login"
        BY <3>1, <3>2 DEF Call
      <3> HIDE DEF id
      <3>4. q \in Call /\ q.at = "found" /\ q.op = "login"
        BY <3>1, <3>3 DEF Call
      <3>5. Asked(c, q)
        BY <2>3 DEF at, id
      <3> QED
        BY <2>3, <3>4, <3>5
    <2>4. CASE Query(c) /\ calls[c].op = "login"
      <3>1. \/ \E at \in {"found", "done", "refused"} : At(c, at)
            \/ \E u \in Indexed(calls[c].email) :
                  Asked(c, [calls[c] EXCEPT !.at = "found", !.id = u.userId, !.state = {u}])
        BY <2>4 DEF Query
      <3> QED
        BY <2>1, <2>3, <2>4, <3>1
    <2>5. CASE GetItem(c)
      <3>1. \E at \in {"found", "done", "refused"} : At(c, at)
        BY <2>5 DEF GetItem
      <3> QED
        BY <2>1, <3>1
    <2> QED
      BY <2>2, <2>4, <2>5
  <1>3. PageInv'
    BY <1>1, <1>2, QuietPage DEF PageInv, TokensAgree, InFlight
  <1>4. meData' \in Ids \cup {NoId} /\ late' \in BOOLEAN /\ acts' \in Nat /\ blind' \subseteq Emails
    BY <1>1 DEF FATypeOK
  <1> QED
    BY <1>1, <1>2, <1>3, <1>4, GoesOn

(* The page's continuations of an answer, and a call that ends.            *)
LEMMA EndsKeep ==
  ASSUME AccountsInv, NEW c \in Places,
         ShowMe(c) \/ Caught(c) \/ OtherEnds(c) \/ AnswerLost(c)
  PROVE  AccountsInv'
  <1> USE DEF AccountsInv
  <1>1. /\ Asked(c, NoCall) /\ calls[c] \in Call /\ calls[c].at \in {"done", "refused"}
        /\ c \notin Writers /\ UNCHANGED <<data, token, welcomed, blind>>
    BY DEF ShowMe, Caught, OtherEnds, AnswerLost, End, FATypeOK, Writers, page
  <1>2. /\ meData' \in Ids \cup {NoId} /\ late' \in BOOLEAN /\ acts' \in Nat
        /\ blind' \subseteq Emails
    <2>1. meData' \in Ids \cup {NoId} /\ blind' \subseteq Emails
      BY <1>1 DEF ShowMe, Caught, OtherEnds, AnswerLost, FATypeOK, Call, page
    <2>2. late' \in BOOLEAN
      <3>1. late' = late \/ late' = (late \/ calls[c].op = "me")
        BY DEF ShowMe, Caught, OtherEnds, AnswerLost, page
      <3>2. late \in BOOLEAN
        BY DEF FATypeOK
      <3> QED
        BY <3>1, <3>2
    <2>3. acts' \in Nat
      BY DEF ShowMe, Caught, OtherEnds, AnswerLost, Act, FATypeOK
    <2> QED
      BY <2>1, <2>2, <2>3
  <1>3. NoCall.op = "none" /\ NoCall.at = "sent"
    BY DEF NoCall
  <1>4. PageInv'
    <2>1. CASE ShowMe(c)
      <3>1. /\ calls[c].op = "me" /\ meData' = calls[c].id /\ UNCHANGED <<token, late>>
        BY <2>1 DEF ShowMe
      <3>2. calls'[c] = NoCall /\ \A d \in Places \ {c} : calls'[d] = calls[d]
        BY <1>1, NoCallIsCall, OneCall
      <3> QED
        BY <1>3, <3>1, <3>2 DEF PageInv, TokensAgree, ProfileIsOwn, InFlight
    <2>2. CASE Caught(c) \/ OtherEnds(c) \/ AnswerLost(c)
      <3>1. /\ UNCHANGED <<token, meData>>
            /\ late => late'
            /\ calls[c].op = "me" => late'
        <4>1. CASE OtherEnds(c)
          BY <4>1 DEF OtherEnds, page
        <4>2. CASE Caught(c) \/ AnswerLost(c)
          BY <4>2 DEF Caught, AnswerLost
        <4> QED
          BY <2>2, <4>1, <4>2
      <3> QED
        BY <1>1, <1>3, <3>1, NoCallIsCall, QuietPage DEF PageInv
    <2> QED
      BY <2>1, <2>2
  <1> QED
    BY <1>1, <1>2, <1>3, <1>4, NoCallIsCall, GoesOn

(* A registration that was answered is stored, and its token is the page's.*)
LEMMA WelcomeKeeps ==
  ASSUME AccountsInv, NEW c \in Places, Welcome(c)
  PROVE  AccountsInv'
  <1> USE DEF AccountsInv
  <1>1. /\ calls[c] \in Call /\ calls[c].op \in {"register", "login"} /\ calls[c].at = "done"
        /\ UNCHANGED <<stage, table, index, file, raced, cut, meData, acts, blind>>
        /\ token' = calls[c].id
    BY DEF Welcome, SetToken, FATypeOK, data
  <1>2. PICK q \in Call :
           Asked(c, q) /\ q.op = "me" /\ q.at = "sent" /\ q.id = calls[c].id
    <2> DEFINE me == [NoCall EXCEPT !.op = "me"]
               q  == [me EXCEPT !.id = calls[c].id]
    <2>1. me \in Call /\ me.op = "me" /\ me.at = "sent"
      BY NoCallIsCall DEF Call, NoCall
    <2> HIDE DEF me
    <2>2. q \in Call /\ q.op = "me" /\ q.at = "sent" /\ q.id = calls[c].id
      BY <1>1, <2>1 DEF Call
    <2>3. Asked(c, q)
      BY DEF Welcome, me
    <2> QED
      BY <2>2, <2>3
  <1>3. /\ calls' \in [Places -> Call] /\ calls'[c] = q
        /\ \A d \in Places \ {c} : calls'[d] = calls[d]
    BY <1>2, OneCall
  <1>4. /\ welcomed' \subseteq Item
        /\ ~raced => welcomed' \subseteq table
    <2>1. CASE calls[c].op = "login"
      BY <2>1 DEF Welcome, FATypeOK, FileAgrees
    <2>2. CASE calls[c].op = "register"
      <3>1. welcomed' = welcomed \cup {NewItem(c, calls[c].id)}
        BY <2>2 DEF Welcome
      <3>2. NewItem(c, calls[c].id) \in Item
        BY <1>1, <2>2 DEF NewItem, Item, Call, CallsAgree
      <3>3. ~raced => NewItem(c, calls[c].id) \in table
        BY <1>1, <2>2 DEF FileAgrees, InFlight
      <3> QED
        BY <3>1, <3>2, <3>3 DEF FATypeOK, FileAgrees
    <2> QED
      BY <1>1, <2>1, <2>2
  <1>5. CallsAgree'
    BY <1>2, <1>3 DEF CallsAgree
  <1>6. Writers' = Writers
    BY <1>1, <1>2, <1>3 DEF Writers
  <1>7. c \notin Writers /\ c \notin InFlight("register")'
    BY <1>1, <1>2, <1>3 DEF Writers, InFlight
  <1>8. FileAgrees'
    BY <1>1, <1>3, <1>4, <1>6, <1>7 DEF FileAgrees, NewItem, Writers, InFlight
  <1>9. ClaimsAgree'
    BY <1>1, <1>2, <1>3 DEF ClaimsAgree, Claims, InFlight
  <1>10. TokensAgree'
    <2>1. late' = (late \/ \E d \in InFlight("me") : calls[d].id # token')
      BY DEF Welcome, SetToken
    <2> SUFFICES ASSUME ~late', NEW d \in InFlight("me")' PROVE calls'[d].id = token'
      BY DEF TokensAgree
    <2>2. \A b \in InFlight("me") : calls[b].id = token'
      BY <2>1
    <2> QED
      BY <1>1, <1>2, <1>3, <2>2 DEF InFlight
  <1>11. ProfileIsOwn'
    BY <1>1, <1>2, <1>3 DEF ProfileIsOwn, InFlight
  <1>12. FATypeOK'
    BY <1>1, <1>3, <1>4 DEF FATypeOK, Welcome, SetToken, Call
  <1> QED
    BY <1>5, <1>8, <1>9, <1>10, <1>11, <1>12

(* DynamoDB stores the item of a registration. *)
LEMMA PutItemKeeps ==
  ASSUME AccountsInv, NEW c \in Places, PutItem(c)
  PROVE  AccountsInv'
  <1> USE DEF AccountsInv
  <1>1. /\ stage = "dev" /\ calls[c] \in Call /\ calls[c].op = "register"
        /\ calls[c].at = "found" /\ calls[c].who \in Persons
        /\ UNCHANGED <<stage, index, file, raced, cut, token, meData, welcomed, late, acts,
                       blind>>
    BY DEF PutItem, FATypeOK, CallsAgree, page
  <1>2. PICK id \in Ids :
           /\ table' = table \cup {NewItem(c, id)}
           /\ Asked(c, [calls[c] EXCEPT !.at = "done", !.id = id])
    BY DEF PutItem
  <1>3. PICK q \in Call :
           /\ Asked(c, q) /\ q.op = "register" /\ q.at = "done" /\ q.id = id
           /\ q.who = calls[c].who /\ q.email = calls[c].email
    <2> DEFINE done == [calls[c] EXCEPT !.at = "done"]
               q    == [done EXCEPT !.id = id]
    <2>1. /\ done \in Call /\ done.op = "register" /\ done.at = "done"
          /\ done.who = calls[c].who /\ done.email = calls[c].email
      BY <1>1 DEF Call
    <2> HIDE DEF done
    <2>2. /\ q \in Call /\ q.op = "register" /\ q.at = "done" /\ q.id = id
          /\ q.who = calls[c].who /\ q.email = calls[c].email
      BY <2>1 DEF Call
    <2>3. Asked(c, q)
      BY <1>2 DEF done
    <2> QED
      BY <2>2, <2>3
  <1>4. /\ calls' \in [Places -> Call] /\ calls'[c] = q
        /\ \A d \in Places \ {c} : calls'[d] = calls[d]
    BY <1>3, OneCall
  <1>5. PICK item \in Item :
           /\ item = NewItem(c, id) /\ item = NewItem(c, q.id)'
           /\ item.email = calls[c].email /\ table' = table \cup {item}
    BY <1>1, <1>2, <1>3, <1>4 DEF NewItem, Item, Call
  <1>6. Writers = {} /\ Writers' = {}
    <2>1. Writers = {}
      BY <1>1 DEF FileAgrees
    <2> QED
      BY <1>3, <1>4, <2>1 DEF Writers
  <1>7. CallsAgree'
    BY <1>1, <1>3, <1>4 DEF CallsAgree
  <1>8. FileAgrees'
    <2>1. ASSUME ~raced, NEW d \in InFlight("register")', calls'[d].at = "done"
          PROVE  NewItem(d, calls[d].id)' \in table'
      <3>1. CASE d = c
        BY <1>3, <1>4, <1>5, <3>1 DEF NewItem
      <3>2. CASE d # c
        BY <1>4, <1>5, <2>1, <3>2 DEF FileAgrees, InFlight, NewItem
      <3> QED
        BY <3>1, <3>2
    <2> QED
      BY <1>1, <1>5, <1>6, <2>1 DEF FileAgrees
  <1>9. ClaimsAgree'
    <2> SUFFICES ASSUME ~raced, NEW email \in Emails \ blind
                 PROVE  /\ \A u, w \in table' : u.email = email /\ w.email = email => u = w
                        /\ \A d \in Claims(email)' :
                             /\ \A b \in Claims(email)' : d = b
                             /\ \A u \in table' : u.email # email
      BY <1>1 DEF ClaimsAgree
    <2>1. /\ \A u, w \in table : u.email = email /\ w.email = email => u = w
          /\ \A d \in Claims(email) :
               /\ \A b \in Claims(email) : d = b
               /\ \A u \in table : u.email # email
      BY DEF ClaimsAgree
    <2>2. Claims(email)' = Claims(email) \ {c}
      BY <1>3, <1>4 DEF Claims, InFlight
    <2>3. calls[c].email = email => c \in Claims(email)
      BY <1>1 DEF Claims, InFlight
    <2>4. CASE calls[c].email = email
      BY <1>5, <2>1, <2>2, <2>3, <2>4
    <2>5. CASE calls[c].email # email
      BY <1>5, <2>1, <2>2, <2>5
    <2> QED
      BY <2>4, <2>5
  <1>10. TokensAgree' /\ ProfileIsOwn'
    BY <1>1, <1>3, <1>4 DEF TokensAgree, ProfileIsOwn, InFlight
  <1>11. FATypeOK'
    BY <1>1, <1>4, <1>5 DEF FATypeOK
  <1> QED
    BY <1>7, <1>8, <1>9, <1>10, <1>11

(* A command that reads the file has all of the table in its copy. *)
LEMMA ReadFileKeeps ==
  ASSUME AccountsInv, NEW c \in Places, ReadFile(c)
  PROVE  AccountsInv'
  <1> USE DEF AccountsInv
  <1>1. /\ stage = "local" /\ calls[c] \in Call /\ calls[c].op \in {"register", "other"}
        /\ calls[c].at = "found" /\ c \notin Writers
        /\ UNCHANGED <<stage, table, index, file, cut, token, meData, welcomed, late, acts,
                       blind>>
    BY DEF ReadFile, FATypeOK, Writers, page
  <1>2. CASE At(c, "refused") /\ UNCHANGED raced
    <2>1. PICK q \in Call :
             /\ Asked(c, q) /\ q.at = "refused" /\ q.op = calls[c].op /\ q.who = calls[c].who
      BY <1>2, AtMoves
    <2>2. PageInv'
      BY <1>1, <2>1, QuietPage DEF PageInv
    <2>3. q.op = "register" => q.who \in Persons
      BY <2>1 DEF CallsAgree
    <2>4. /\ meData' \in Ids \cup {NoId} /\ late' \in BOOLEAN /\ acts' \in Nat
          /\ blind' \subseteq Emails
      BY <1>1 DEF FATypeOK
    <2> QED
      BY <1>1, <1>2, <2>1, <2>2, <2>3, <2>4, GoesOn DEF data
  <1>3. CASE ~(At(c, "refused") /\ UNCHANGED raced)
    <2>1. raced' = (raced \/ Writers # {})
      BY <1>3 DEF ReadFile
    <2>2. PICK q \in Call :
             /\ Asked(c, q) /\ q.op = calls[c].op /\ q.at = "read"
             /\ q.who = calls[c].who /\ q.email = calls[c].email
             /\ q.op = "register" => q.id \in Ids
             /\ q.state = IF q.op = "register" THEN table \cup {NewItem(c, q.id)} ELSE table
      <3> DEFINE read == [calls[c] EXCEPT !.at = "read"]
      <3>1. /\ read \in Call /\ read.op = calls[c].op /\ read.at = "read"
            /\ read.who = calls[c].who /\ read.email = calls[c].email
        BY <1>1 DEF Call
      <3>2. CASE calls[c].op = "other"
        <4> DEFINE q == [read EXCEPT !.state = table]
        <4>1. Asked(c, q)
          BY <1>3, <3>2 DEF ReadFile
        <4> HIDE DEF read
        <4>2. /\ q \in Call /\ q.op = calls[c].op /\ q.at = "read" /\ q.state = table
              /\ q.who = calls[c].who /\ q.email = calls[c].email
          BY <3>1 DEF Call, FATypeOK
        <4> QED
          BY <3>2, <4>1, <4>2
      <3>3. CASE calls[c].op = "register"
        <4>1. PICK id \in Ids :
                 Asked(c, [calls[c] EXCEPT !.at = "read", !.id = id,
                                           !.state = Pushed(NewItem(c, id))])
          BY <1>3, <3>3 DEF ReadFile
        <4> DEFINE drawn == [read EXCEPT !.id = id]
                   q     == [drawn EXCEPT !.state = Pushed(NewItem(c, id))]
        <4>2. Asked(c, q)
          BY <4>1
        <4> HIDE DEF read
        <4>3. /\ drawn \in Call /\ drawn.op = calls[c].op /\ drawn.at = "read" /\ drawn.id = id
              /\ drawn.who = calls[c].who /\ drawn.email = calls[c].email
          BY <3>1 DEF Call
        <4> HIDE DEF drawn
        <4>4. Pushed(NewItem(c, id)) = table \cup {NewItem(c, id)} /\ NewItem(c, id) \in Item
          BY <1>1, <3>3 DEF Pushed, NewItem, Item, Call, CallsAgree
        <4>5. /\ q \in Call /\ q.op = calls[c].op /\ q.at = "read" /\ q.id = id
              /\ q.state = table \cup {NewItem(c, id)}
              /\ q.who = calls[c].who /\ q.email = calls[c].email
          BY <4>3, <4>4 DEF Call, FATypeOK
        <4> QED
          BY <3>3, <4>2, <4>5
      <3> QED
        BY <1>1, <3>2, <3>3
    <2>3. /\ calls' \in [Places -> Call] /\ calls'[c] = q
          /\ \A d \in Places \ {c} : calls'[d] = calls[d]
      BY <2>2, OneCall
    <2>4. Writers' = Writers \cup {c}
      BY <2>2, <2>3 DEF Writers
    <2>5. CallsAgree'
      BY <2>2, <2>3 DEF CallsAgree
    <2>6. FileAgrees'
      <3>1. \A d \in Writers' : calls'[d].op \in {"register", "other"}
        BY <1>1, <2>2, <2>3, <2>4 DEF FileAgrees, Writers
      <3>2. ASSUME ~raced'
            PROVE  /\ ~raced /\ Writers' = {c}
                   /\ \A d \in InFlight("register")' :
                        calls'[d].at = "done" => NewItem(d, calls[d].id)' \in table
        BY <2>1, <2>2, <2>3, <2>4, <3>2 DEF FileAgrees, InFlight, NewItem
      <3>3. q.state = IF q.op = "register" THEN table \cup {NewItem(c, calls[c].id)'} ELSE table
        BY <2>2, <2>3 DEF NewItem
      <3>4. file' = "whole"
        BY <1>1, <1>3 DEF ReadFile, Readable
      <3> QED
        BY <1>1, <2>2, <2>3, <3>1, <3>2, <3>3, <3>4 DEF FileAgrees
    <2>7. ClaimsAgree'
      <3>1. \A email : Claims(email)' = Claims(email)
        BY <1>1, <2>2, <2>3 DEF Claims, InFlight
      <3> QED
        BY <1>1, <2>1, <3>1 DEF ClaimsAgree
    <2>8. TokensAgree' /\ ProfileIsOwn'
      BY <1>1, <2>2, <2>3 DEF TokensAgree, ProfileIsOwn, InFlight
    <2>9. FATypeOK'
      <3>1. raced' \in BOOLEAN
        BY <2>1
      <3> QED
        BY <1>1, <2>3, <3>1 DEF FATypeOK
    <2> QED
      BY <2>5, <2>6, <2>7, <2>8, <2>9
  <1> QED
    BY <1>2, <1>3

(* A command that empties the file keeps its copy. *)
LEMMA OpenFileKeeps ==
  ASSUME AccountsInv, NEW c \in Places, OpenFile(c)
  PROVE  AccountsInv'
  <1> USE DEF AccountsInv
  <1>1. /\ calls[c].at = "read" /\ c \in Writers /\ file' = "empty"
        /\ UNCHANGED <<stage, table, index, raced, cut, token, meData, welcomed, late, acts,
                       blind>>
    BY DEF OpenFile, Writers, page
  <1>2. PICK q \in Call :
           /\ Asked(c, q) /\ q.at = "open" /\ q.op = calls[c].op /\ q.who = calls[c].who
           /\ q.email = calls[c].email /\ q.id = calls[c].id /\ q.state = calls[c].state
    BY AtMoves DEF OpenFile
  <1>3. /\ calls' \in [Places -> Call] /\ calls'[c] = q
        /\ \A d \in Places \ {c} : calls'[d] = calls[d]
    BY <1>2, OneCall
  <1>4. Writers' = Writers
    BY <1>1, <1>2, <1>3 DEF Writers
  <1>5. CallsAgree'
    BY <1>1, <1>2, <1>3 DEF CallsAgree
  <1>6. FileAgrees'
    <2>1. \A d \in Places : NewItem(d, calls[d].id)' = NewItem(d, calls[d].id)
      BY <1>2, <1>3 DEF NewItem
    <2>2. \A d \in Writers : calls'[d].op = calls[d].op /\ calls'[d].state = calls[d].state
      BY <1>2, <1>3, <1>4 DEF Writers
    <2>3. \A d \in Places : d \in InFlight("register")' /\ calls'[d].at = "done" =>
             d \in InFlight("register") /\ calls[d].at = "done"
      BY <1>2, <1>3 DEF InFlight
    <2>4. \A d \in Writers : d \in Places
      BY DEF Writers
    <2>5. \A d \in InFlight("register")' : d \in Places
      BY DEF InFlight
    <2>6. ~raced => \A d \in Writers : calls'[d].at # "crossed"
      BY <1>2, <1>3, <2>4 DEF FileAgrees
    <2> QED
      BY <1>1, <1>2, <1>3, <1>4, <2>1, <2>2, <2>3, <2>4, <2>5, <2>6 DEF FileAgrees
  <1>7. ClaimsAgree'
    <2>1. \A email : Claims(email)' = Claims(email)
      BY <1>1, <1>2, <1>3 DEF Claims, InFlight
    <2> QED
      BY <1>1, <2>1 DEF ClaimsAgree
  <1>8. TokensAgree' /\ ProfileIsOwn'
    BY <1>1, <1>2, <1>3 DEF TokensAgree, ProfileIsOwn, InFlight, FileAgrees
  <1>9. FATypeOK'
    BY <1>1, <1>3 DEF FATypeOK
  <1> QED
    BY <1>5, <1>6, <1>7, <1>8, <1>9

(* A command that writes the file stores its copy, which has all of it.    *)
LEMMA WriteFileKeeps ==
  ASSUME AccountsInv, NEW c \in Places, WriteFile(c)
  PROVE  AccountsInv'
  <1> USE DEF AccountsInv
  <1>1. /\ calls[c] \in Call /\ calls[c].at \in {"open", "crossed"} /\ c \in Writers
        /\ calls[c].op \in {"register", "other"} /\ table' = calls[c].state
        /\ UNCHANGED <<stage, index, raced, cut, token, meData, welcomed, late, acts, blind>>
    BY DEF WriteFile, Writers, page, FATypeOK, FileAgrees
  <1>2. /\ DOMAIN calls' = Places
        /\ \A d \in Places :
             /\ calls'[d] \in Call /\ calls'[d].op = calls[d].op /\ calls'[d].who = calls[d].who
             /\ calls'[d].email = calls[d].email /\ calls'[d].id = calls[d].id
             /\ d = c => calls'[d].at = "done"
             /\ d # c => /\ calls'[d].state = calls[d].state
                         /\ calls'[d].at = IF calls[d].at = "open" THEN "crossed"
                                           ELSE calls[d].at
    <2>1. calls' = [d \in Places |->
            IF d = c THEN [calls[c] EXCEPT !.at = "done", !.state = {}]
            ELSE IF calls[d].at = "open" THEN [calls[d] EXCEPT !.at = "crossed"] ELSE calls[d]]
      BY DEF WriteFile
    <2>2. ASSUME NEW d \in Places, d # c
          PROVE  /\ calls'[d] \in Call /\ calls'[d].op = calls[d].op
                 /\ calls'[d].who = calls[d].who /\ calls'[d].email = calls[d].email
                 /\ calls'[d].id = calls[d].id /\ calls'[d].state = calls[d].state
                 /\ calls'[d].at = IF calls[d].at = "open" THEN "crossed" ELSE calls[d].at
      <3>1. calls[d] \in Call
        BY DEF FATypeOK
      <3>2. CASE calls[d].at = "open"
        <4>1. calls'[d] = [calls[d] EXCEPT !.at = "crossed"]
          BY <2>1, <2>2, <3>2
        <4> QED
          BY <3>1, <3>2, <4>1 DEF Call
      <3>3. CASE calls[d].at # "open"
        BY <2>1, <2>2, <3>1, <3>3
      <3> QED
        BY <3>2, <3>3
    <2>3. /\ calls'[c] \in Call /\ calls'[c].op = calls[c].op /\ calls'[c].who = calls[c].who
          /\ calls'[c].email = calls[c].email /\ calls'[c].id = calls[c].id
          /\ calls'[c].at = "done"
      <3> DEFINE done == [calls[c] EXCEPT !.at = "done"]
      <3>1. /\ done \in Call /\ done.op = calls[c].op /\ done.who = calls[c].who
            /\ done.email = calls[c].email /\ done.id = calls[c].id /\ done.at = "done"
        BY <1>1 DEF Call
      <3>2. calls'[c] = [done EXCEPT !.state = {}]
        BY <2>1
      <3> HIDE DEF done
      <3> QED
        BY <3>1, <3>2 DEF Call
    <2> QED
      BY <2>1, <2>2, <2>3
  <1>3. \A d \in Places : NewItem(d, calls[d].id)' = NewItem(d, calls[d].id)
    BY <1>2 DEF NewItem
  <1>4. Writers' = Writers \ {c}
    BY <1>2 DEF Writers
  <1>5. \A op : InFlight(op)' = InFlight(op)
    BY <1>2 DEF InFlight
  <1>6. ASSUME ~raced
        PROVE  /\ Writers = {c} /\ calls[c].at = "open"
               /\ table' = IF calls[c].op = "register"
                           THEN table \cup {NewItem(c, calls[c].id)} ELSE table
    BY <1>1, <1>6 DEF FileAgrees
  <1>7. CallsAgree'
    BY <1>1, <1>2 DEF CallsAgree
  <1>8. FileAgrees'
    <2>1. \A d \in Writers' : calls'[d].op \in {"register", "other"}
      BY <1>2, <1>4 DEF FileAgrees, Writers
    <2>2. ASSUME ~raced PROVE file' = "whole"
      BY <1>6, <2>2 DEF WriteFile
    <2>3. ASSUME ~raced, NEW d \in InFlight("register"), calls'[d].at = "done"
          PROVE  NewItem(d, calls[d].id)' \in table'
      <3>1. d \in Places /\ calls[d].op = "register"
        BY DEF InFlight
      <3>2. CASE d = c
        BY <1>3, <1>6, <2>3, <3>1, <3>2
      <3>3. CASE d # c
        <4>1. calls[d].at = "done"
          BY <1>2, <2>3, <3>1, <3>3
        <4> QED
          BY <1>3, <1>6, <2>3, <3>1, <4>1 DEF FileAgrees
      <3> QED
        BY <3>2, <3>3
    <2> QED
      BY <1>1, <1>4, <1>5, <1>6, <2>1, <2>2, <2>3 DEF FileAgrees
  <1>9. ClaimsAgree'
    <2> SUFFICES ASSUME ~raced, NEW email \in Emails \ blind
                 PROVE  /\ \A u, w \in table' : u.email = email /\ w.email = email => u = w
                        /\ \A d \in Claims(email)' :
                             /\ \A b \in Claims(email)' : d = b
                             /\ \A u \in table' : u.email # email
      BY <1>1 DEF ClaimsAgree
    <2>1. /\ \A u, w \in table : u.email = email /\ w.email = email => u = w
          /\ \A d \in Claims(email) :
               /\ \A b \in Claims(email) : d = b
               /\ \A u \in table : u.email # email
      BY DEF ClaimsAgree
    <2>2. Claims(email)' = Claims(email) \ {c}
      BY <1>2, <1>5 DEF Claims, InFlight
    <2>3. calls[c].op = "register" /\ calls[c].email = email => c \in Claims(email)
      BY <1>1 DEF Claims, InFlight
    <2>4. NewItem(c, calls[c].id).email = calls[c].email
      BY DEF NewItem
    <2>5. CASE calls[c].op = "register" /\ calls[c].email = email
      BY <1>6, <2>1, <2>2, <2>3, <2>4, <2>5
    <2>6. CASE ~(calls[c].op = "register" /\ calls[c].email = email)
      BY <1>6, <2>1, <2>2, <2>4, <2>6
    <2> QED
      BY <2>5, <2>6
  <1>10. TokensAgree' /\ ProfileIsOwn'
    <2>1. \A d \in InFlight("me") : calls'[d].id = calls[d].id
      BY <1>2 DEF InFlight
    <2> QED
      BY <1>1, <1>5, <2>1 DEF TokensAgree, ProfileIsOwn
  <1>11. FATypeOK'
    <2>1. table' \subseteq Item
      BY <1>1 DEF Call
    <2>2. calls' \in [Places -> Call]
      <3>1. calls' = [d \in Places |-> calls'[d]]
        BY DEF WriteFile
      <3> QED
        BY <1>2, <3>1
    <2>3. file' \in {"whole", "empty", "mixed"}
      BY DEF WriteFile
    <2> QED
      BY <1>1, <2>1, <2>2, <2>3 DEF FATypeOK
  <1> QED
    BY <1>7, <1>8, <1>9, <1>10, <1>11

(* A restart drops the calls: what is written stays. *)
LEMMA RestartKeeps == AccountsInv /\ Restart => AccountsInv'
  <1> SUFFICES ASSUME AccountsInv, Restart PROVE AccountsInv'
    OBVIOUS
  <1> USE DEF AccountsInv
  <1>1. /\ \A c \in Places : calls'[c] = NoCall /\ calls'[c].op = "none" /\ calls'[c].at = "sent"
        /\ calls' \in [Places -> Call]
    BY NoCallIsCall DEF Restart, NoCall
  <1>2. /\ UNCHANGED <<stage, table, index, file, raced, token, meData, welcomed, blind>>
        /\ cut' = (cut \/ \E c \in Places : calls[c].at \in {"open", "crossed"})
        /\ late' = (late \/ InFlight("me") # {}) /\ acts' = acts + 1
    BY DEF Restart, Act
  <1>3. Writers' = {} /\ \A op \in {"register", "me"} : InFlight(op)' = {}
    BY <1>1 DEF Writers, InFlight
  <1>4. CallsAgree'
    BY <1>1 DEF CallsAgree
  <1>5. FileAgrees'
    <2>1. ~raced => file = "whole" \/ cut'
      BY <1>2 DEF FileAgrees, Writers
    <2> QED
      BY <1>2, <1>3, <2>1 DEF FileAgrees
  <1>6. ClaimsAgree'
    <2>1. \A email : Claims(email)' = {}
      BY <1>1 DEF Claims, InFlight
    <2> QED
      BY <1>2, <2>1 DEF ClaimsAgree
  <1>7. TokensAgree' /\ ProfileIsOwn'
    BY <1>2, <1>3 DEF TokensAgree, ProfileIsOwn
  <1>8. FATypeOK'
    <2>1. cut' \in BOOLEAN /\ late' \in BOOLEAN
      BY <1>2
    <2> QED
      BY <1>1, <1>2, <2>1 DEF FATypeOK
  <1> QED
    BY <1>4, <1>5, <1>6, <1>7, <1>8

(* The index reaches no account but those of the table. *)
LEMMA CatchUpKeeps == AccountsInv /\ CatchUp => AccountsInv'
  BY DEF AccountsInv, CatchUp, FATypeOK, CallsAgree, FileAgrees, ClaimsAgree, TokensAgree,
         ProfileIsOwn, Writers, InFlight, Claims, NewItem, page

(* A logout takes the token and the profile off the page. *)
LEMMA LogoutKeeps == AccountsInv /\ Logout => AccountsInv'
  <1> SUFFICES ASSUME AccountsInv, Logout PROVE AccountsInv'
    OBVIOUS
  <1> USE DEF AccountsInv
  <1>1. /\ UNCHANGED <<stage, table, index, file, raced, cut, calls, welcomed, acts, blind>>
        /\ token' = NoId /\ meData' = NoId
        /\ late' = (late \/ \E c \in InFlight("me") : calls[c].id # NoId)
    BY DEF Logout, SetToken, data
  <1>2. CallsAgree' /\ FileAgrees' /\ ClaimsAgree'
    BY <1>1 DEF CallsAgree, FileAgrees, ClaimsAgree, Writers, InFlight, Claims, NewItem
  <1>3. TokensAgree' /\ ProfileIsOwn'
    BY <1>1 DEF TokensAgree, ProfileIsOwn, InFlight
  <1>4. FATypeOK'
    <2>1. late' \in BOOLEAN
      BY <1>1 DEF FATypeOK
    <2> QED
      BY <1>1, <2>1 DEF FATypeOK
  <1> QED
    BY <1>2, <1>3, <1>4

(* Every step preserves the invariant. *)
LEMMA StepInv == AccountsInv /\ [FANext]_FAVars => AccountsInv'
  <1> SUFFICES ASSUME AccountsInv, [FANext]_FAVars PROVE AccountsInv'
    OBVIOUS
  <1>1. CASE UNCHANGED FAVars
    BY <1>1 DEF AccountsInv, FAVars, data, page, FATypeOK, CallsAgree, FileAgrees, ClaimsAgree,
                TokensAgree, ProfileIsOwn, Writers, InFlight, Claims, NewItem
  <1>2. ASSUME NEW op \in {"register", "login"}, NEW p \in Persons, NEW s \in Spellings,
               Submit(op, p, s)
        PROVE  AccountsInv'
    <2> DEFINE mail == normalizeEmail[s]
               of   == [NoCall EXCEPT !.op = op]
               by   == [of EXCEPT !.who = p]
               q    == [by EXCEPT !.email = mail]
    <2>1. mail \in Emails
      BY AccountsAssumption
    <2>2. of \in Call /\ of.op = op /\ of.at = "sent"
      BY NoCallIsCall DEF Call, NoCall
    <2> HIDE DEF of
    <2>3. by \in Call /\ by.op = op /\ by.at = "sent" /\ by.who = p
      BY <2>2 DEF Call
    <2> HIDE DEF by, mail
    <2>4. q \in Call /\ q.op = op /\ q.at = "sent" /\ q.who = p
      BY <2>1, <2>3 DEF Call
    <2>5. Begun(q) /\ acts' = acts + 1 /\ UNCHANGED <<data, page, blind>>
      BY <1>2 DEF Submit, Act, of, by, mail
    <2>6. acts' \in Nat
      BY <2>5 DEF AccountsInv, FATypeOK
    <2> HIDE DEF q
    <2> QED
      BY <2>4, <2>5, <2>6, BegunKeeps
  <1>3. CASE LoadMe
    <2> DEFINE me == [NoCall EXCEPT !.op = "me"]
               q  == [me EXCEPT !.id = token]
    <2>1. me \in Call /\ me.op = "me" /\ me.at = "sent"
      BY NoCallIsCall DEF Call, NoCall
    <2> HIDE DEF me
    <2>2. q \in Call /\ q.op = "me" /\ q.at = "sent" /\ q.id = token
      BY <2>1 DEF Call, AccountsInv, FATypeOK
    <2>3. Begun(q) /\ acts' = acts + 1 /\ UNCHANGED <<data, page, blind>>
      BY <1>3 DEF LoadMe, Act, me
    <2>4. acts' \in Nat
      BY <2>3 DEF AccountsInv, FATypeOK
    <2> HIDE DEF q
    <2> QED
      BY <2>2, <2>3, <2>4, BegunKeeps
  <1>4. CASE OtherFunction
    <2> DEFINE other == [NoCall EXCEPT !.op = "other"]
               q     == [other EXCEPT !.at = "found"]
    <2>1. other \in Call /\ other.op = "other"
      BY NoCallIsCall DEF Call, NoCall
    <2> HIDE DEF other
    <2>2. q \in Call /\ q.op = "other" /\ q.at = "found"
      BY <2>1 DEF Call
    <2>3. Begun(q) /\ acts' = acts + 1 /\ UNCHANGED <<data, page, blind>>
      BY <1>4 DEF OtherFunction, Act, other
    <2>4. acts' \in Nat
      BY <2>3 DEF AccountsInv, FATypeOK
    <2> HIDE DEF q
    <2> QED
      BY <2>2, <2>3, <2>4, BegunKeeps
  <1>5. ASSUME NEW c \in Places, Function(c) PROVE AccountsInv'
    <2>1. calls[c].op \in {"register", "login"} \/ ~Query(c)
      BY DEF Query
    <2> QED
      BY <1>5, <2>1, RegisterQueries, ReadersKeep, PutItemKeeps DEF Function
  <1>6. ASSUME NEW c \in Places, LocalDb(c) PROVE AccountsInv'
    BY <1>6, ReadFileKeeps, OpenFileKeeps, WriteFileKeeps, EndsKeep DEF LocalDb
  <1>7. ASSUME NEW c \in Places, Welcome(c) \/ ShowMe(c) \/ Caught(c) \/ AnswerLost(c)
        PROVE  AccountsInv'
    BY <1>7, WelcomeKeeps, EndsKeep
  <1> QED
    BY <1>1, <1>2, <1>3, <1>4, <1>5, <1>6, <1>7, LogoutKeeps, CatchUpKeeps, RestartKeeps
       DEF FANext, Page

(* AccountsInv holds in every state the functions and the page reach.      *)
THEOREM Invariant == FASpec => []AccountsInv
  BY InitInv, StepInv, PTL DEF FASpec

(* Calls, accounts and the page keep their types. *)
THEOREM TypeCorrect == FASpec => []FATypeOK
  <1>1. AccountsInv => FATypeOK
    BY DEF AccountsInv
  <1> QED
    BY Invariant, <1>1, PTL

(***************************************************************************)
(* Two accounts have one e-mail only if one of them was let in while       *)
(* another was under way or not in the index yet (register.js): a claim on *)
(* an address is the only one as long as no query was blind.               *)
(***************************************************************************)
THEOREM OnlyRacersDuplicate == FASpec => []DuplicatesOnlyByRacers
  <1>1. AccountsInv => DuplicatesOnlyByRacers
    BY DEF AccountsInv, ClaimsAgree, FATypeOK, Item, DuplicatesOnlyByRacers
  <1> QED
    BY Invariant, <1>1, PTL

(* An account that was answered is kept by db.js, and its file stays       *)
(* readable, unless two commands raced for it or a stop cut a write short. *)
THEOREM RegistrationsAreKept == FASpec => []RegistrationsStay
  <1>1. AccountsInv => RegistrationsStay
    BY DEF AccountsInv, FileAgrees, RegistrationsStay
  <1> QED
    BY Invariant, <1>1, PTL

(* The page of web-ui shows no other account's profile, unless the token   *)
(* changed while the profile of the one before was on its way.             *)
THEOREM ProfilesAreOwn == FASpec => []ProfileIsOwn
  <1>1. AccountsInv => ProfileIsOwn
    BY DEF AccountsInv
  <1> QED
    BY Invariant, <1>1, PTL

-----------------------------------------------------------------------------
(* The account book. *)

(***************************************************************************)
(* While no two commands raced, the table changes by one registration at a *)
(* time, of an e-mail that has no account if no query of it was blind.     *)
(***************************************************************************)
Adds(item) ==
  /\ table' = table \cup {item}
  /\ item.person \in Persons
  /\ item.email \in blind \/ ItemsOf(item.email) = {}

LEMMA TableStep ==
  ASSUME AccountsInv, [FANext]_FAVars, ~raced
  PROVE  UNCHANGED table \/ \E item \in Item : Adds(item)
  <1> USE DEF AccountsInv
  <1>1. ASSUME NEW c \in Places, NEW id \in Ids, c \in InFlight("register"),
               calls[c].at \in {"found", "read", "open", "crossed"},
               table' = table \cup {NewItem(c, id)}
        PROVE  \E item \in Item : Adds(item)
    <2>1. calls[c] \in Call /\ calls[c].who \in Persons
      BY <1>1 DEF FATypeOK, CallsAgree, InFlight
    <2>2. PICK item \in Item :
             /\ item = NewItem(c, id)
             /\ item.email = calls[c].email /\ item.person = calls[c].who
      <3>1. PICK item : item = NewItem(c, id)
        OBVIOUS
      <3>2. item = [userId |-> id, email |-> calls[c].email, person |-> calls[c].who]
        BY <3>1 DEF NewItem
      <3>3. calls[c].email \in Emails
        BY <2>1 DEF Call
      <3>4. item \in Item
        BY <2>1, <3>2, <3>3 DEF Item
      <3>5. item.email = calls[c].email /\ item.person = calls[c].who
        BY <3>2
      <3> QED
        BY <3>1, <3>4, <3>5
    <2>3. item.email \in Emails /\ c \in Claims(item.email)
      BY <1>1, <2>1, <2>2 DEF Claims, Call
    <2>4. item.email \in blind \/ ItemsOf(item.email) = {}
      BY <2>3 DEF ClaimsAgree, ItemsOf
    <2> QED
      BY <1>1, <2>1, <2>2, <2>4 DEF Adds
  <1>2. ASSUME NEW c \in Places, PutItem(c) PROVE \E item \in Item : Adds(item)
    <2>1. PICK id \in Ids : table' = table \cup {NewItem(c, id)}
      BY <1>2 DEF PutItem
    <2> QED
      BY <1>1, <1>2, <2>1 DEF PutItem, InFlight
  <1>3. ASSUME NEW c \in Places, WriteFile(c)
        PROVE  UNCHANGED table \/ \E item \in Item : Adds(item)
    <2>1. c \in Writers /\ table' = calls[c].state
      BY <1>3 DEF WriteFile, Writers
    <2>2. CASE calls[c].op = "register"
      <3>1. table' = table \cup {NewItem(c, calls[c].id)}
        BY <2>1, <2>2 DEF FileAgrees
      <3>2. calls[c].id \in Ids /\ calls[c].at \in {"open", "crossed"}
        BY <1>3, <2>2 DEF WriteFile, CallsAgree
      <3> QED
        BY <1>1, <2>2, <3>1, <3>2 DEF InFlight
    <2>3. CASE calls[c].op # "register"
      BY <2>1, <2>3 DEF FileAgrees
    <2> QED
      BY <2>2, <2>3
  <1>4. CASE \/ UNCHANGED FAVars \/ Page \/ CatchUp \/ Restart \/ LoadMe \/ OtherFunction
             \/ \E op \in {"register", "login"}, p \in Persons, s \in Spellings :
                  Submit(op, p, s)
             \/ \E c \in Places : AnswerLost(c)
    BY <1>4 DEF FAVars, data, Page, Welcome, ShowMe, Caught, Logout, CatchUp, Restart, LoadMe,
                OtherFunction, Submit, AnswerLost
  <1>5. ASSUME NEW c \in Places, Function(c) \/ LocalDb(c), ~PutItem(c), ~WriteFile(c)
        PROVE  UNCHANGED table
    BY <1>5 DEF Function, LocalDb, Query, Compare, GetItem, ReadFile, OpenFile, OtherEnds, data
  <1> QED
    BY <1>2, <1>3, <1>4, <1>5 DEF FANext

(* What a new account does to the holders. *)
LEMMA AddsHolder ==
  ASSUME NEW item \in Item, Adds(item)
  PROVE  /\ \A email \in Emails \ {item.email} : FAHolder'[email] = FAHolder[email]
         /\ ItemsOf(item.email) = {} =>
              /\ FAHolder[item.email] = Nobody
              /\ FAHolder' = [FAHolder EXCEPT ![item.email] = item.person]
  <1>1. ASSUME NEW email \in Emails, email # item.email
        PROVE  FAHolder'[email] = FAHolder[email]
    <2>1. ItemsOf(email)' = ItemsOf(email)
      BY <1>1 DEF Adds, ItemsOf
    <2> QED
      BY <2>1 DEF FAHolder
  <1>2. ASSUME ItemsOf(item.email) = {}
        PROVE  /\ FAHolder[item.email] = Nobody
               /\ FAHolder' = [FAHolder EXCEPT ![item.email] = item.person]
    <2>1. item.email \in Emails
      BY DEF Item
    <2>2. ItemsOf(item.email)' = {item}
      BY <1>2 DEF Adds, ItemsOf
    <2>3. (CHOOSE u \in {item} : TRUE) = item
      OBVIOUS
    <2>4. FAHolder[item.email] = Nobody /\ FAHolder'[item.email] = item.person
      BY <1>2, <2>1, <2>2, <2>3 DEF FAHolder
    <2>5. FAHolder = [email \in Emails |-> FAHolder[email]]
          /\ FAHolder' = [email \in Emails |-> FAHolder'[email]]
      BY DEF FAHolder
    <2> HIDE DEF FAHolder
    <2> QED
      BY <1>1, <2>1, <2>4, <2>5
  <1> QED
    BY <1>1, <1>2

(***************************************************************************)
(* register.js queries before it puts, and db.js writes back all it read:  *)
(* an address that was not registered blindly keeps its first holder.      *)
(***************************************************************************)
THEOREM HoldersAreKept == FASpec => HoldersStay
  <1>1. ASSUME AccountsInv, [FANext]_FAVars, ~raced, NEW email \in Emails \ blind,
               FAHolder[email] # Nobody
        PROVE  FAHolder'[email] = FAHolder[email]
    <2>1. CASE UNCHANGED table
      BY <2>1 DEF FAHolder, ItemsOf
    <2>2. ASSUME NEW item \in Item, Adds(item) PROVE FAHolder'[email] = FAHolder[email]
      <3>1. email # item.email
        BY <1>1, <2>2, AddsHolder DEF Adds
      <3> QED
        BY <2>2, <3>1, AddsHolder
    <2> QED
      BY <1>1, <2>1, <2>2, TableStep
  <1>2. AccountsInv /\ [FANext]_FAVars =>
          [raced \/ \A email \in Emails \ blind :
                      FAHolder[email] # Nobody => FAHolder'[email] = FAHolder[email]]_FAVars
    BY <1>1
  <1> QED
    BY <1>2, Invariant, PTL DEF FASpec, HoldersStay

(***************************************************************************)
(* Without the named races the account functions implement AccountBook, on *)
(* DynamoDB and on the local file: nothing else can take an e-mail away.   *)
(***************************************************************************)
THEOREM Refinement == FASpec => KeepsAccountBook
  <1>1. FAInit => FABook!Init
    BY DEF FAInit, FABook!Init, FAHolder, ItemsOf
  <1>2. ASSUME AccountsInv, [FANext]_FAVars, ~raced, blind = {}
        PROVE  [FABook!Next]_FAHolder
    <2>1. CASE UNCHANGED table
      BY <2>1 DEF FAHolder, ItemsOf
    <2>2. ASSUME NEW item \in Item, Adds(item) PROVE FABook!Next
      <3>1. /\ FAHolder[item.email] = Nobody
            /\ FAHolder' = [FAHolder EXCEPT ![item.email] = item.person]
        BY <1>2, <2>2, AddsHolder DEF Adds
      <3>2. item.email \in Emails /\ item.person \in Persons
        BY <2>2 DEF Adds, Item
      <3> QED
        BY <3>1, <3>2 DEF FABook!Next, FABook!Claim
    <2> QED
      BY <1>2, <2>1, <2>2, TableStep
  <1> QED
    BY <1>1, <1>2, Invariant, PTL DEF FASpec, KeepsAccountBook, FABook!Spec

=============================================================================
