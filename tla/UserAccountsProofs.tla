------------------------- MODULE UserAccountsProofs -------------------------
(***************************************************************************)
(* Proofs about the user service and its login page, for any people,       *)
(* e-mails, tabs and bounds.                                               *)
(***************************************************************************)
EXTENDS UserAccounts, TLAPS

(* The account a request works on is stored, and is the sender's. *)
HasAccount(q) ==
  \E u \in users : u.id = q.id /\ u.email = q.email /\ u.person = q.who

(* The e-mails and the ids of the stored accounts are theirs alone. *)
AccountsDiffer ==
  /\ EmailsAreUnique
  /\ \A u, w \in users : u.id = w.id => u = w

(* What a request has learnt so far is still true of the table. *)
Learnt(q) ==
  /\ q.op # "none" => q.who \in Persons
  /\ q.op = "register" /\ q.at = "done" =>
       \E u \in users : u.email = q.email /\ u.person = q.who
  /\ q.op = "login" /\ q.at = "found" =>
       \E u \in users : u.id = q.id /\ u.email = q.email
  /\ q.op = "login" /\ q.at = "done" => HasAccount(q)
  /\ q.op = "me" /\ q.at # "refused" => HasAccount(q)

RequestsKnow == \A r \in Slots : Learnt(requests[r])

(* The inductive invariant. *)
AccountsInv == UATypeOK /\ AccountsDiffer /\ RequestsKnow /\ ToldIsStored

LEMMA InitInv == UAInit => AccountsInv
  <1> SUFFICES ASSUME UAInit PROVE AccountsInv
    OBVIOUS
  <1>1. NoRequest \in Request
    BY AccountsAssumption DEF NoRequest, Request
  <1>2. UATypeOK
    BY <1>1 DEF UAInit, UATypeOK
  <1>3. AccountsDiffer /\ ToldIsStored
    BY DEF UAInit, AccountsDiffer, EmailsAreUnique, ToldIsStored
  <1>4. RequestsKnow
    BY DEF UAInit, RequestsKnow, Learnt, NoRequest
  <1> QED
    BY <1>2, <1>3, <1>4 DEF AccountsInv

(* What is true of the table stays true while it only grows. *)
LEMMA LearntStays ==
  ASSUME NEW q, Learnt(q), users \subseteq users'
  PROVE  Learnt(q)'
  BY DEF Learnt, HasAccount

(* A request that is not there has learnt nothing. *)
LEMMA NothingLearnt == NoRequest \in Request /\ Learnt(NoRequest)'
  BY AccountsAssumption DEF NoRequest, Request, Learnt

(***************************************************************************)
(* A step that changes one request keeps the invariant of all of them, if  *)
(* the table only grows and what the request has become is true.           *)
(***************************************************************************)
LEMMA OneRequestMoves ==
  ASSUME UATypeOK, RequestsKnow, users \subseteq users',
         NEW r, NEW q \in Request, Learnt(q)',
         requests' = [requests EXCEPT ![r] = q]
  PROVE  requests' \in [Slots -> Request] /\ RequestsKnow'
  <1>1. requests' \in [Slots -> Request]
    BY DEF UATypeOK
  <1>2. \A s \in Slots : requests'[s] = IF s = r THEN q ELSE requests[s]
    BY DEF UATypeOK
  <1>3. ASSUME NEW s \in Slots PROVE Learnt(requests[s])'
    <2>1. CASE s = r
      <3>1. requests'[s] = q
        BY <1>2, <2>1
      <3> QED
        BY <3>1 DEF Learnt, HasAccount
    <2>2. CASE s # r
      <3>1. requests'[s] = requests[s]
        BY <1>2, <2>2
      <3>2. Learnt(requests[s])
        BY DEF RequestsKnow
      <3> QED
        BY <3>1, <3>2 DEF Learnt, HasAccount
    <2> QED
      BY <2>1, <2>2
  <1> QED
    BY <1>1, <1>3 DEF RequestsKnow

(* What Step makes of a request. *)
Moved(q, at, id) ==
  [op |-> q.op, tab |-> q.tab, who |-> q.who, email |-> q.email, id |-> id, at |-> at]

LEMMA StepIsMoved ==
  ASSUME NEW q \in Request, NEW at, NEW id
  PROVE  [q EXCEPT !.at = at, !.id = id] = Moved(q, at, id)
  <1> DEFINE half == [op |-> q.op, tab |-> q.tab, who |-> q.who, email |-> q.email,
                      id |-> q.id, at |-> at]
  <1>1. [q EXCEPT !.at = at] = half
    BY DEF Request
  <1>2. [half EXCEPT !.id = id] = Moved(q, at, id)
    BY DEF Moved
  <1> QED
    BY <1>1, <1>2

(* Step leaves the request with what it learnt, or answers a page that is   *)
(* no longer there.                                                        *)
LEMMA StepMoves ==
  ASSUME UATypeOK, RequestsKnow, users \subseteq users', NEW r \in Slots,
         NEW at \in {"sent", "found", "done", "refused"}, NEW id \in Ids \cup {NoId},
         NEW q, q = Moved(requests[r], at, id),
         Step(r, at, id), Learnt(q)'
  PROVE  requests' \in [Slots -> Request] /\ RequestsKnow'
  <1>1. requests[r] \in Request
    BY DEF UATypeOK
  <1>2. q \in Request
    BY <1>1 DEF Request, Moved
  <1>3. CASE at \in {"done", "refused"} /\ requests[r].tab = NoTab
    <2>1. requests' = [requests EXCEPT ![r] = NoRequest]
      BY <1>3 DEF Step
    <2> QED
      BY <2>1, NothingLearnt, OneRequestMoves
  <1>4. CASE ~(at \in {"done", "refused"} /\ requests[r].tab = NoTab)
    <2>1. requests' = [requests EXCEPT ![r] = [@ EXCEPT !.at = at, !.id = id]]
      BY <1>4 DEF Step, UATypeOK
    <2>2. [requests[r] EXCEPT !.at = at, !.id = id] = q
      BY <1>1, StepIsMoved
    <2>3. requests' = [requests EXCEPT ![r] = q]
      BY <2>1, <2>2
    <2> QED
      BY <1>2, <2>3, OneRequestMoves
  <1> QED
    BY <1>3, <1>4

(* A row of a new id and of an e-mail that is free keeps accounts apart, and *)
(* is a claim on the e-mail.                                               *)
LEMMA RowAdds ==
  ASSUME AccountsDiffer, NEW row \in User,
         row.id \notin {u.id : u \in users}, With(row.email) = {},
         users' = users \cup {row}
  PROVE  AccountsDiffer' /\ Book!Claim(row.email, row.person)
  <1>1. row.email \in Emails
    BY DEF User
  <1>2. \A u \in users : u.id # row.id /\ u.email # row.email
    BY DEF With
  <1>3. AccountsDiffer'
    BY <1>2 DEF AccountsDiffer, EmailsAreUnique
  <1>4. With(row.email)' = {row}
    BY <1>2 DEF With
  <1>5. \A e \in Emails \ {row.email} : With(e)' = With(e)
    BY DEF With
  <1>6. (CHOOSE u \in {row} : TRUE) = row
    OBVIOUS
  <1>7. ASSUME NEW e \in Emails
        PROVE  Holder'[e] = IF e = row.email THEN row.person ELSE Holder[e]
    <2>1. CASE e = row.email
      <3>1. With(e)' = {row}
        BY <1>4, <2>1
      <3>2. Holder'[e] = (CHOOSE u \in {row} : TRUE).person
        BY <3>1 DEF Holder
      <3> QED
        BY <1>6, <2>1, <3>2
    <2>2. CASE e # row.email
      <3>1. With(e)' = With(e)
        BY <1>5, <2>2
      <3> QED
        BY <2>2, <3>1 DEF Holder
    <2> QED
      BY <2>1, <2>2
  <1>8. Holder' = [Holder EXCEPT ![row.email] = row.person]
    <2>1. Holder = [e \in Emails |-> Holder[e]] /\ Holder' = [e \in Emails |-> Holder'[e]]
      BY DEF Holder
    <2> QED
      BY <1>7, <2>1
  <1>9. Holder[row.email] = Nobody
    BY <1>1 DEF Holder
  <1> QED
    BY <1>3, <1>8, <1>9 DEF Book!Claim

(* A request of a page is the page's own until it is answered. *)
LEMMA AnsweredKeeps ==
  ASSUME AccountsInv, NEW r \in Slots, Answered(r)
  PROVE  AccountsInv' /\ users' = users
  <1> USE DEF AccountsInv
  <1>1. requests[r] \in Request /\ Learnt(requests[r]) /\ users' = users
    BY DEF UATypeOK, RequestsKnow, Answered
  <1>2. /\ session' \in [Tabs -> Ids \cup {NoId}] /\ stored' \in Ids \cup {NoId}
        /\ submits' \in Nat /\ faults' \in Nat
    BY <1>1 DEF Answered, AskProfile, SignIn, Registered, Refused, UATypeOK, Request, browser
  <1>3. AccountsDiffer'
    BY <1>1 DEF AccountsDiffer, EmailsAreUnique
  <1>4. /\ told' \subseteq [person : Persons, email : Emails]
        /\ ToldIsStored'
    <2>1. CASE Registered(r)
      <3> DEFINE x == [person |-> requests[r].who, email |-> requests[r].email]
      <3>1. told' = told \cup {x}
        BY <2>1 DEF Registered
      <3>2. x \in [person : Persons, email : Emails]
        BY <1>1, <2>1 DEF Registered, Learnt, Request
      <3>3. \E u \in users : u.email = x.email /\ u.person = x.person
        BY <1>1, <2>1 DEF Registered, Learnt
      <3> QED
        BY <1>1, <3>1, <3>2, <3>3 DEF UATypeOK, ToldIsStored
    <2>2. CASE ~Registered(r)
      <3>1. told' = told
        BY <2>2 DEF Answered, AskProfile, SignIn, Refused
      <3> QED
        BY <1>1, <3>1 DEF UATypeOK, ToldIsStored
    <2> QED
      BY <2>1, <2>2
  <1>5. requests' \in [Slots -> Request] /\ RequestsKnow'
    <2>1. CASE AskProfile(r)
      <3> DEFINE q == [op |-> "me", tab |-> requests[r].tab, who |-> requests[r].who,
                       email |-> requests[r].email, id |-> requests[r].id, at |-> "sent"]
      <3>1. requests' = [requests EXCEPT ![r] = q]
        <4> DEFINE asks == [op |-> "me", tab |-> requests[r].tab, who |-> requests[r].who,
                            email |-> requests[r].email, id |-> requests[r].id,
                            at |-> requests[r].at]
        <4>a. [requests[r] EXCEPT !.op = "me"] = asks
          BY <1>1 DEF Request
        <4>b. [asks EXCEPT !.at = "sent"] = q
          OBVIOUS
        <4>1. [[requests[r] EXCEPT !.op = "me"] EXCEPT !.at = "sent"] = q
          BY <4>a, <4>b
        <4> QED
          BY <2>1, <4>1 DEF AskProfile, UATypeOK
      <3>2. q \in Request
        BY <1>1 DEF Request
      <3>3. PICK p \in Request : p = q
        BY <3>2
      <3>4. Learnt(p)'
        BY <1>1, <2>1, <3>3 DEF AskProfile, Learnt, HasAccount
      <3> QED
        BY <1>1, <3>1, <3>3, <3>4, OneRequestMoves
    <2>2. CASE ~AskProfile(r)
      <3>1. requests' = [requests EXCEPT ![r] = NoRequest]
        BY <2>2 DEF Answered, SignIn, Registered, Refused
      <3> QED
        BY <1>1, <3>1, NothingLearnt, OneRequestMoves
    <2> QED
      BY <2>1, <2>2
  <1> QED
    BY <1>1, <1>2, <1>3, <1>4, <1>5 DEF UATypeOK

(* What a page no longer waits for, the service goes on with. *)
LEMMA GivenUpKeeps ==
  ASSUME AccountsInv, NEW r \in Slots, GivenUp(r)
  PROVE  AccountsInv' /\ users' = users
  <1> USE DEF AccountsInv
  <1>1. requests[r] \in Request /\ Learnt(requests[r]) /\ users' = users
    BY DEF UATypeOK, RequestsKnow, GivenUp
  <1>2. PICK q \in Request :
           q = IF requests[r].at \in {"done", "refused"} THEN NoRequest
               ELSE [requests[r] EXCEPT !.tab = NoTab]
    BY <1>1, NothingLearnt DEF Request
  <1>3. requests' = [requests EXCEPT ![r] = q]
    BY <1>2 DEF GivenUp, UATypeOK
  <1>4. Learnt(q)'
    <2>1. CASE requests[r].at \in {"done", "refused"}
      BY <1>2, <2>1, NothingLearnt
    <2>2. CASE requests[r].at \notin {"done", "refused"}
      <3>1. /\ q.op = requests[r].op /\ q.who = requests[r].who
            /\ q.email = requests[r].email /\ q.id = requests[r].id
            /\ q.at = requests[r].at
        BY <1>1, <1>2, <2>2 DEF Request
      <3> QED
        BY <1>1, <3>1 DEF Learnt, HasAccount
    <2> QED
      BY <2>1, <2>2
  <1>5. requests' \in [Slots -> Request] /\ RequestsKnow'
    BY <1>1, <1>3, <1>4, OneRequestMoves
  <1> QED
    BY <1>1, <1>5
       DEF GivenUp, Fault, browser, UATypeOK, AccountsDiffer, EmailsAreUnique, ToldIsStored

(***************************************************************************)
(* A step of the service tells a request only what is true of the table,   *)
(* and a row it adds is a claim on its e-mail.                             *)
(***************************************************************************)
LEMMA ServeKeeps ==
  ASSUME AccountsInv, NEW r \in Slots, Serve(r)
  PROVE  /\ requests' \in [Slots -> Request] /\ RequestsKnow'
         /\ users' \subseteq User /\ users \subseteq users' /\ AccountsDiffer'
         /\ users' = users \/ \E e \in Emails, p \in Persons : Book!Claim(e, p)
  <1> USE DEF AccountsInv
  <1>1. requests[r] \in Request /\ Learnt(requests[r])
    BY DEF UATypeOK, RequestsKnow
  <1>2. ASSUME users' = users,
               NEW at \in {"sent", "found", "done", "refused"}, NEW id \in Ids \cup {NoId},
               Step(r, at, id), Learnt(Moved(requests[r], at, id))
        PROVE  /\ requests' \in [Slots -> Request] /\ RequestsKnow'
               /\ users' \subseteq User /\ users \subseteq users' /\ AccountsDiffer'
    <2>1. PICK m : m = Moved(requests[r], at, id)
      OBVIOUS
    <2>2. Learnt(m)'
      BY <1>2, <2>1 DEF Learnt, HasAccount
    <2>3. requests' \in [Slots -> Request] /\ RequestsKnow'
      BY <1>2, <2>1, <2>2, StepMoves
    <2> QED
      BY <1>2, <2>3 DEF UATypeOK, AccountsDiffer, EmailsAreUnique
  <1>3. CASE FindFree(r)
    <2>1. PICK at \in {"found", "refused"} : Step(r, at, NoId)
      BY <1>3 DEF FindFree
    <2>2. users' = users /\ requests[r].op = "register"
      BY <1>3 DEF FindFree
    <2>3. Learnt(Moved(requests[r], at, NoId))
      BY <1>1, <2>1, <2>2 DEF Learnt, Moved
    <2> QED
      BY <1>2, <2>1, <2>2, <2>3
  <1>4. CASE Save(r)
    <2>1. CASE With(requests[r].email) # {}
      <3>1. Step(r, "refused", NoId) /\ users' = users
        BY <1>4, <2>1 DEF Save
      <3>2. Learnt(Moved(requests[r], "refused", NoId))
        BY <1>1, <1>4 DEF Save, Learnt, Moved
      <3> QED
        BY <1>2, <3>1, <3>2
    <2>2. CASE With(requests[r].email) = {}
      <3>1. PICK id \in Ids \ {u.id : u \in users} : users' = users \cup {Row(r, id)}
        BY <1>4, <2>2 DEF Save
      <3>2. Step(r, "done", NoId) /\ requests[r].op = "register"
        BY <1>4, <2>2 DEF Save
      <3>3. PICK row \in User : row = Row(r, id)
        BY <1>1, <3>2 DEF Row, User, Request, Learnt
      <3>4. /\ row.id = id /\ row.email = requests[r].email
            /\ row.person = requests[r].who
        BY <3>3 DEF Row
      <3>5. AccountsDiffer' /\ Book!Claim(row.email, row.person)
        BY <2>2, <3>1, <3>3, <3>4, RowAdds
      <3>6. PICK m : m = Moved(requests[r], "done", NoId)
        OBVIOUS
      <3>7. m.op = "register" /\ m.who = row.person /\ m.email = row.email
        BY <3>2, <3>4, <3>6 DEF Moved
      <3>8. Learnt(m)'
        BY <1>1, <3>1, <3>2, <3>3, <3>4, <3>7 DEF Learnt
      <3>9. requests' \in [Slots -> Request] /\ RequestsKnow'
        BY <3>1, <3>2, <3>6, <3>8, StepMoves
      <3> QED
        BY <3>1, <3>3, <3>5, <3>9 DEF UATypeOK, User
    <2> QED
      BY <2>1, <2>2
  <1>5. CASE FindAccount(r)
    <2>1. users' = users /\ requests[r].op = "login"
      BY <1>5 DEF FindAccount
    <2>2. CASE Step(r, "refused", NoId)
      <3>1. Learnt(Moved(requests[r], "refused", NoId))
        BY <1>1, <2>1 DEF Learnt, Moved
      <3> QED
        BY <1>2, <2>1, <2>2, <3>1
    <2>3. ASSUME NEW u \in With(requests[r].email), Step(r, "found", u.id)
          PROVE  /\ requests' \in [Slots -> Request] /\ RequestsKnow'
                 /\ users' \subseteq User /\ users \subseteq users' /\ AccountsDiffer'
      <3>1. u \in users /\ u.email = requests[r].email /\ u.id \in Ids
        BY <2>3 DEF With, UATypeOK, User
      <3>2. Learnt(Moved(requests[r], "found", u.id))
        BY <1>1, <2>1, <3>1 DEF Learnt, Moved
      <3> QED
        BY <1>2, <2>1, <2>3, <3>1, <3>2
    <2> QED
      BY <1>5, <2>1, <2>2, <2>3 DEF FindAccount
  <1>6. CASE Verify(r)
    <2>1. /\ users' = users /\ requests[r].op = "login" /\ requests[r].at = "found"
          /\ requests[r].id \in Ids \cup {NoId}
      BY <1>1, <1>6 DEF Verify, Request
    <2>2. CASE \E u \in users : u.id = requests[r].id /\ u.person = requests[r].who
      <3>1. HasAccount(requests[r])
        BY <1>1, <2>1, <2>2 DEF Learnt, HasAccount, AccountsDiffer
      <3>2. Learnt(Moved(requests[r], "done", requests[r].id))
        BY <1>1, <2>1, <3>1 DEF Learnt, Moved, HasAccount
      <3>3. Step(r, "done", requests[r].id)
        BY <1>6, <2>2 DEF Verify
      <3> QED
        BY <1>2, <2>1, <3>2, <3>3
    <2>3. CASE ~\E u \in users : u.id = requests[r].id /\ u.person = requests[r].who
      <3>1. Step(r, "refused", NoId)
        BY <1>6, <2>3 DEF Verify
      <3>2. Learnt(Moved(requests[r], "refused", NoId))
        BY <1>1, <2>1 DEF Learnt, Moved
      <3> QED
        BY <1>2, <2>1, <3>1, <3>2
    <2> QED
      BY <2>2, <2>3
  <1>7. CASE GetMe(r)
    <2>1. PICK at \in {"done", "refused"} : Step(r, at, requests[r].id)
      BY <1>7 DEF GetMe
    <2>2. /\ users' = users /\ requests[r].op = "me" /\ requests[r].at = "sent"
          /\ requests[r].id \in Ids \cup {NoId}
      BY <1>1, <1>7 DEF GetMe, Request
    <2>3. Learnt(Moved(requests[r], at, requests[r].id))
      BY <1>1, <2>2 DEF Learnt, Moved, HasAccount
    <2> QED
      BY <1>2, <2>1, <2>2, <2>3
  <1> QED
    BY <1>3, <1>4, <1>5, <1>6, <1>7 DEF Serve

(***************************************************************************)
(* The invariant is inductive, and a step is a step of the account book or *)
(* leaves it alone.                                                        *)
(***************************************************************************)
LEMMA StepInv ==
  AccountsInv /\ [UANext]_UAVars => AccountsInv' /\ [Book!Next]_Holder
  <1> SUFFICES ASSUME AccountsInv, [UANext]_UAVars
               PROVE  AccountsInv' /\ [Book!Next]_Holder
    OBVIOUS
  <1> USE DEF AccountsInv
  <1>a. users' = users => Holder' = Holder
    BY DEF Holder, With
  <1>b. users' = users => AccountsDiffer'
    BY DEF AccountsDiffer, EmailsAreUnique
  <1>1. ASSUME NEW t \in Tabs, NEW op \in {"register", "login"}, NEW who \in Persons,
               NEW s \in Spellings, SubmitForm(t, op, who, s)
        PROVE  AccountsInv' /\ users' = users
    <2>1. PICK q \in Request :
             q = [op |-> op, tab |-> t, who |-> who, email |-> normalizeEmail[s],
                  id |-> NoId, at |-> "sent"]
      BY AccountsAssumption DEF Request
    <2>2. PICK m : m = CHOOSE r \in Free : TRUE
      OBVIOUS
    <2>3. requests' = [requests EXCEPT ![m] = q] /\ users' = users
      BY <1>1, <2>1, <2>2 DEF SubmitForm
    <2>4. Learnt(q)'
      BY <2>1 DEF Learnt
    <2>5. requests' \in [Slots -> Request] /\ RequestsKnow'
      BY <2>3, <2>4, OneRequestMoves
    <2> QED
      BY <1>1, <1>b, <2>3, <2>5 DEF SubmitForm, browser, UATypeOK, ToldIsStored
  <1>2. ASSUME NEW t \in Tabs, SignOut(t) \/ Reload(t)
        PROVE  AccountsInv' /\ users' = users
    <2>1. UNCHANGED <<users, requests, submits, faults, told>>
      BY <1>2 DEF SignOut, Reload
    <2>2. session' \in [Tabs -> Ids \cup {NoId}] /\ stored' \in Ids \cup {NoId}
      BY <1>2 DEF SignOut, Reload, UATypeOK
    <2> QED
      BY <1>b, <2>1, <2>2 DEF UATypeOK, RequestsKnow, Learnt, HasAccount, ToldIsStored
  <1>3. ASSUME NEW r \in Slots, Answered(r) \/ GivenUp(r)
        PROVE  AccountsInv' /\ users' = users
    BY <1>3, AnsweredKeeps, GivenUpKeeps
  <1>4. ASSUME NEW r \in Slots, Serve(r)
        PROVE  /\ AccountsInv'
               /\ users' = users \/ \E e \in Emails, p \in Persons : Book!Claim(e, p)
    <2>1. /\ requests' \in [Slots -> Request] /\ RequestsKnow'
          /\ users' \subseteq User /\ users \subseteq users' /\ AccountsDiffer'
          /\ users' = users \/ \E e \in Emails, p \in Persons : Book!Claim(e, p)
      BY <1>4, ServeKeeps
    <2>2. UNCHANGED <<session, stored, submits, faults, told>>
      BY <1>4 DEF Serve, browser
    <2> QED
      BY <2>1, <2>2 DEF UATypeOK, ToldIsStored
  <1>5. ASSUME Crash PROVE AccountsInv' /\ users' = users
    <2>1. /\ users' = users /\ requests' = [r \in Slots |-> NoRequest]
          /\ UNCHANGED <<session, stored, submits, told>> /\ faults' \in Nat
      BY <1>5 DEF Crash, Migrate, browser, Fault, UATypeOK
    <2>2. RequestsKnow' /\ requests' \in [Slots -> Request]
      BY <2>1, NothingLearnt DEF RequestsKnow, Learnt, NoRequest
    <2> QED
      BY <1>b, <2>1, <2>2 DEF UATypeOK, ToldIsStored
  <1>6. ASSUME UNCHANGED UAVars PROVE AccountsInv' /\ users' = users
    BY <1>b, <1>6
       DEF UAVars, browser, UATypeOK, RequestsKnow, Learnt, HasAccount, ToldIsStored
  <1> QED
    BY <1>a, <1>1, <1>2, <1>3, <1>4, <1>5, <1>6 DEF UANext, Book!Next

(* The invariant holds in every reachable state. *)
THEOREM Invariant == UASpec => []AccountsInv
  BY InitInv, StepInv, PTL DEF UASpec

(* Every variable stays of its type. *)
THEOREM TypeCorrect == UASpec => []UATypeOK
  <1>1. AccountsInv => UATypeOK
    BY DEF AccountsInv
  <1> QED
    BY <1>1, Invariant, PTL

(* However many registrations of an e-mail overlap, it has one account. *)
THEOREM OneAccountPerEmail == UASpec => []EmailsAreUnique
  <1>1. AccountsInv => EmailsAreUnique
    BY DEF AccountsInv, AccountsDiffer
  <1> QED
    BY <1>1, Invariant, PTL

(* Who was told of a registration has the account, across crashes. *)
THEOREM ToldAreStored == UASpec => []ToldIsStored
  <1>1. AccountsInv => ToldIsStored
    BY DEF AccountsInv
  <1> QED
    BY <1>1, Invariant, PTL

(***************************************************************************)
(* The service implements the account book: an e-mail is claimed once, and *)
(* its holder never changes.                                               *)
(***************************************************************************)
THEOREM Refinement == UASpec => ImplementsAccountBook
  <1>1. UAInit => Book!Init
    BY DEF UAInit, Book!Init, Holder, With
  <1>2. AccountsInv /\ [UANext]_UAVars => [Book!Next]_Holder
    BY StepInv
  <1> QED
    BY <1>1, <1>2, Invariant, PTL DEF UASpec, ImplementsAccountBook, Book!Spec

(* What each kind of step does to a request. *)
LEMMA StepOfOne ==
  ASSUME UATypeOK, NEW r \in Slots, NEW at \in {"sent", "found", "done", "refused"}, NEW id,
         Step(r, at, id)
  PROVE  /\ \A s \in Slots \ {r} : requests'[s] = requests[s]
         /\ requests'[r].at \in {at, "sent"}
         /\ requests'[r].tab \in {requests[r].tab, NoTab}
  <1>1. requests[r] \in Request
    BY DEF UATypeOK
  <1>2. CASE at \in {"done", "refused"} /\ requests[r].tab = NoTab
    <2>1. requests' = [requests EXCEPT ![r] = NoRequest]
      BY <1>2 DEF Step
    <2> QED
      BY <2>1 DEF UATypeOK, NoRequest
  <1>3. CASE ~(at \in {"done", "refused"} /\ requests[r].tab = NoTab)
    <2>1. requests' = [requests EXCEPT ![r] = [@ EXCEPT !.at = at, !.id = id]]
      BY <1>3 DEF Step, UATypeOK
    <2>2. [requests[r] EXCEPT !.at = at, !.id = id] = Moved(requests[r], at, id)
      BY <1>1, StepIsMoved
    <2>3. requests' = [requests EXCEPT ![r] = Moved(requests[r], at, id)]
      BY <2>1, <2>2
    <2> QED
      BY <2>3 DEF UATypeOK, Moved
  <1> QED
    BY <1>2, <1>3

LEMMA ServeOfOne ==
  ASSUME UATypeOK, NEW r \in Slots, Serve(r)
  PROVE  /\ \A s \in Slots \ {r} : requests'[s] = requests[s]
         /\ requests'[r].tab \in {requests[r].tab, NoTab}
  <1>1. PICK at \in {"sent", "found", "done", "refused"} : \E id : Step(r, at, id)
    BY DEF Serve, FindFree, Save, FindAccount, Verify, GetMe
  <1> QED
    BY <1>1, StepOfOne

LEMMA AnsweredOfOne ==
  ASSUME UATypeOK, NEW r \in Slots, Answered(r) \/ GivenUp(r)
  PROVE  /\ \A s \in Slots \ {r} : requests'[s] = requests[s]
         /\ requests'[r].tab \in {requests[r].tab, NoTab}
         /\ requests'[r].at \in {requests[r].at, "sent"}
         /\ SignIn(r) => requests'[r].tab = NoTab
  <1>1. requests[r] \in Request
    BY DEF UATypeOK
  <1>2. CASE AskProfile(r)
    <2>1. /\ \A s \in Slots \ {r} : requests'[s] = requests[s]
          /\ requests'[r].at = "sent" /\ requests'[r].tab = requests[r].tab
      BY <1>1, <1>2 DEF AskProfile, UATypeOK, Request
    <2> QED
      BY <1>2, <2>1 DEF AskProfile, SignIn
  <1>3. CASE SignIn(r) \/ Registered(r) \/ Refused(r)
    <2>1. requests' = [requests EXCEPT ![r] = NoRequest]
      BY <1>3 DEF SignIn, Registered, Refused
    <2> QED
      BY <2>1 DEF UATypeOK, NoRequest
  <1>4. CASE GivenUp(r)
    BY <1>1, <1>4 DEF GivenUp, UATypeOK, Request, NoRequest, SignIn
  <1> QED
    BY <1>2, <1>3, <1>4 DEF Answered

(* Nobody is refused at the login to an account that is theirs. *)
LEMMA OwnerIsLetIn ==
  ASSUME AccountsInv, [UANext]_UAVars, NEW r \in Slots,
         requests[r].op = "login", requests'[r].at = "refused", requests[r].at # "refused",
         NEW u \in With(requests[r].email)
  PROVE  u.person # requests[r].who
  <1>1. SUFFICES ASSUME u.person = requests[r].who PROVE FALSE
    OBVIOUS
  <1> USE DEF AccountsInv
  <1>2. u \in users /\ u.email = requests[r].email
    BY DEF With
  <1>3. ASSUME NEW t \in Tabs, NEW op \in {"register", "login"}, NEW who \in Persons,
               NEW s \in Spellings, SubmitForm(t, op, who, s)
        PROVE  FALSE
    BY <1>3 DEF SubmitForm, UATypeOK
  <1>4. ASSUME NEW s \in Slots, Answered(s) \/ GivenUp(s) PROVE FALSE
    BY <1>4, AnsweredOfOne
  <1>5. ASSUME NEW s \in Slots, Serve(s) PROVE FALSE
    <2>1. s = r
      BY <1>5, ServeOfOne
    <2>2. FindAccount(r) \/ Verify(r)
      BY <1>5, <2>1 DEF Serve, FindFree, Save, GetMe
    <2>3. ~FindAccount(r)
      <3>1. SUFFICES ASSUME FindAccount(r) PROVE FALSE
        OBVIOUS
      <3>2. PICK w : Step(r, "found", w.id)
        BY <1>2, <3>1 DEF FindAccount, With
      <3> QED
        BY <3>2, StepOfOne
    <2>4. ~Verify(r)
      <3>1. SUFFICES ASSUME Verify(r) PROVE FALSE
        OBVIOUS
      <3>2. PICK w \in users : w.id = requests[r].id /\ w.email = requests[r].email
        BY <3>1 DEF Verify, RequestsKnow, Learnt
      <3>3. w = u
        BY <1>2, <3>2 DEF AccountsDiffer, EmailsAreUnique
      <3>4. Step(r, "done", requests[r].id)
        BY <1>1, <1>2, <3>1, <3>2, <3>3 DEF Verify
      <3> QED
        BY <3>4, StepOfOne
    <2> QED
      BY <2>2, <2>3, <2>4
  <1>6. ASSUME Crash PROVE FALSE
    BY <1>6 DEF Crash, NoRequest
  <1>7. ASSUME UNCHANGED requests PROVE FALSE
    BY <1>7
  <1> QED
    BY <1>3, <1>4, <1>5, <1>6, <1>7 DEF UANext, UAVars, SignOut, Reload

(* A login is refused only to somebody else than the holder of the e-mail. *)
THEOREM OwnersAreNotLockedOut == UASpec => OwnersAreLetIn
  <1> DEFINE LetIn ==
        \A r \in Slots :
          requests[r].op = "login" /\ requests'[r].at = "refused"
            /\ requests[r].at # "refused" =>
              \A u \in With(requests[r].email) : u.person # requests[r].who
  <1>1. AccountsInv /\ [UANext]_UAVars => [LetIn]_UAVars
    BY OwnerIsLetIn
  <1> QED
    BY <1>1, Invariant, PTL DEF UASpec, OwnersAreLetIn

(***************************************************************************)
(* A tab that waits for an answer waits for one only, and is not signed in *)
(* meanwhile.                                                              *)
(***************************************************************************)
TabsWaitOnce ==
  \A r \in Slots : requests[r].tab # NoTab =>
    /\ session[requests[r].tab] = NoId
    /\ \A s \in Slots : requests[s].tab = requests[r].tab => s = r

LEMMA TabsStep ==
  ASSUME NoTab \notin Tabs, AccountsInv, TabsWaitOnce, [UANext]_UAVars
  PROVE  TabsWaitOnce'
  <1> USE DEF AccountsInv
  <1>1. ASSUME NEW t \in Tabs, NEW op \in {"register", "login"}, NEW who \in Persons,
               NEW s \in Spellings, SubmitForm(t, op, who, s)
        PROVE  TabsWaitOnce'
    <2>1. PICK m : m = CHOOSE r \in Free : TRUE
      OBVIOUS
    <2>2. /\ \A r \in Slots \ {m} : requests'[r] = requests[r]
          /\ m \in Slots => requests'[m].tab = t
          /\ session' = session
      BY <1>1, <2>1 DEF SubmitForm, UATypeOK, browser
    <2>3. session[t] = NoId /\ \A r \in Slots : requests[r].tab # t
      BY <1>1 DEF SubmitForm, isSubmitting
    <2> QED
      BY <2>2, <2>3 DEF TabsWaitOnce
  <1>2. ASSUME NEW t \in Tabs, SignOut(t) PROVE TabsWaitOnce'
    BY <1>2 DEF SignOut, TabsWaitOnce, UATypeOK, Request
  <1>3. ASSUME NEW t \in Tabs, Reload(t) PROVE TabsWaitOnce'
    BY <1>3 DEF Reload, TabsWaitOnce, isSubmitting, UATypeOK, Request
  <1>4. ASSUME NEW s \in Slots, Answered(s) \/ GivenUp(s) PROVE TabsWaitOnce'
    <2>1. /\ \A r \in Slots \ {s} : requests'[r] = requests[r]
          /\ requests'[s].tab \in {requests[s].tab, NoTab}
          /\ SignIn(s) => requests'[s].tab = NoTab
      BY <1>4, AnsweredOfOne
    <2>2. CASE SignIn(s)
      <3>1. session' = [session EXCEPT ![requests[s].tab] = requests[s].id]
        BY <2>2 DEF SignIn
      <3>2. \A r \in Slots : requests'[r].tab # NoTab =>
               requests'[r].tab = requests[r].tab /\ requests[r].tab # requests[s].tab
        BY <2>1, <2>2 DEF TabsWaitOnce
      <3>3. \A r \in Slots : requests'[r].tab # NoTab =>
               session'[requests'[r].tab] = session[requests[r].tab]
        BY <3>1, <3>2 DEF UATypeOK, Request
      <3> QED
        BY <2>1, <2>2, <3>2, <3>3 DEF TabsWaitOnce
    <2>3. CASE ~SignIn(s)
      <3>1. session' = session
        BY <1>4, <2>3
           DEF Answered, AskProfile, Registered, Refused, GivenUp, browser
      <3> QED
        BY <2>1, <3>1 DEF TabsWaitOnce
    <2> QED
      BY <2>2, <2>3
  <1>5. ASSUME NEW s \in Slots, Serve(s) PROVE TabsWaitOnce'
    BY <1>5, ServeOfOne DEF Serve, browser, TabsWaitOnce
  <1>6. ASSUME Crash PROVE TabsWaitOnce'
    BY <1>6 DEF Crash, TabsWaitOnce, NoRequest
  <1>7. ASSUME UNCHANGED UAVars PROVE TabsWaitOnce'
    BY <1>7 DEF UAVars, browser, TabsWaitOnce
  <1> QED
    BY <1>1, <1>2, <1>3, <1>4, <1>5, <1>6, <1>7 DEF UANext

(* A tab that waits is signed in by nothing but the profile it waits for.  *)
LEMMA SignInIsOwn ==
  ASSUME NoTab \notin Tabs, AccountsInv, TabsWaitOnce, [UANext]_UAVars,
         NEW t \in Tabs, NEW r \in Slots,
         requests[r].tab = t, session'[t] # session[t]
  PROVE  \E u \in users : /\ u.id = session'[t]
                          /\ u.person = requests[r].who /\ u.email = requests[r].email
  <1> USE DEF AccountsInv
  <1>1. session[t] = NoId /\ \A s \in Slots : requests[s].tab = t => s = r
    BY DEF TabsWaitOnce
  <1>2. \A s \in Tabs : ~SignOut(s) /\ ~Reload(s)
    BY <1>1 DEF SignOut, Reload, isSubmitting, UATypeOK
  <1>3. PICK s \in Slots : SignIn(s)
    BY <1>2 DEF UANext, SubmitForm, Answered, AskProfile, Registered, Refused, GivenUp, Serve,
                Crash,
                UAVars, browser
  <1>4. s = r
    BY <1>1, <1>3 DEF SignIn, UATypeOK
  <1>5. session'[t] = requests[r].id
    BY <1>3, <1>4 DEF SignIn, UATypeOK
  <1> QED
    BY <1>3, <1>4, <1>5 DEF SignIn, RequestsKnow, Learnt, HasAccount

(***************************************************************************)
(* A session is opened only with the account whose e-mail and password     *)
(* were typed in that tab, whatever other tabs, crashes and lost answers   *)
(* do meanwhile.                                                           *)
(***************************************************************************)
THEOREM SessionsAreOwn == ASSUME NoTab \notin Tabs PROVE UASpec => SessionIsOwn
  <1> DEFINE Own ==
        \A t \in Tabs, r \in Slots :
          requests[r].tab = t /\ session'[t] # session[t] /\ isSubmitting(t) =>
            \E u \in users : /\ u.id = session'[t]
                             /\ u.person = requests[r].who /\ u.email = requests[r].email
  <1>1. UAInit => TabsWaitOnce
    BY DEF UAInit, TabsWaitOnce, NoRequest
  <1>2. AccountsInv /\ TabsWaitOnce /\ [UANext]_UAVars => TabsWaitOnce'
    BY TabsStep
  <1>3. AccountsInv /\ TabsWaitOnce /\ [UANext]_UAVars => [Own]_UAVars
    BY SignInIsOwn
  <1> QED
    BY <1>1, <1>2, <1>3, Invariant, PTL DEF UASpec, SessionIsOwn

=============================================================================
