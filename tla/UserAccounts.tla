---------------------------- MODULE UserAccounts ----------------------------
(***************************************************************************)
(* The user service, uporabniki, and the login page of the web client in   *)
(* several tabs of one browser.  A request is its use case cut at every    *)
(* await: find the e-mail, hash or verify the password, insert.  SQLite is *)
(* called synchronously, so a statement is a step.  The service may crash  *)
(* and a page may give up its request, which then goes on without it.      *)
(***************************************************************************)
EXTENDS Integers, FiniteSets, Accounts

CONSTANTS
  Tabs, NoTab,
  MaxRequests,    (* bound on the requests in flight                        *)
  MaxSubmits,     (* bound on the forms sent                                *)
  MaxFaults       (* bound on crashes and on requests given up              *)

VARIABLES
  users,     (* rows of users                                               *)
  requests,  (* requests the service works on, or has answered              *)
  session,   (* the account each tab is signed in to                        *)
  stored,    (* the account of the session in localStorage                  *)
  submits, faults,
  told       (* history: who was told that their registration succeeded     *)

UAVars == <<users, requests, session, stored, submits, faults, told>>
browser == <<session, stored>>

Slots == 1..MaxRequests
User == [id : Ids, email : Emails, person : Persons]
Request == [op : {"none", "register", "login", "me"}, tab : Tabs \cup {NoTab},
            who : Persons \cup {Nobody}, email : Emails, id : Ids \cup {NoId},
            at : {"sent", "found", "done", "refused"}]
NoRequest == [op |-> "none", tab |-> NoTab, who |-> Nobody, email |-> CHOOSE e \in Emails : TRUE,
              id |-> NoId, at |-> "sent"]

UATypeOK ==
  /\ users \subseteq User
  /\ requests \in [Slots -> Request]
  /\ session \in [Tabs -> Ids \cup {NoId}]
  /\ stored \in Ids \cup {NoId}
  /\ submits \in Nat /\ faults \in Nat
  /\ told \subseteq [person : Persons, email : Emails]

UAInit ==
  /\ users = {}
  /\ requests = [r \in Slots |-> NoRequest]
  /\ session = [t \in Tabs |-> NoId] /\ stored = NoId
  /\ submits = 0 /\ faults = 0
  /\ told = {}

With(email) == {u \in users : u.email = email}
Free == {r \in Slots : requests[r].op = "none"}
isSubmitting(t) == \E r \in Slots : requests[r].tab = t

Fault == faults < MaxFaults /\ faults' = faults + 1

-----------------------------------------------------------------------------
(* The login page. *)

(* handleLogin and handleRegister up to their await; disabled meanwhile. *)
SubmitForm(t, op, who, spelling) ==
  /\ session[t] = NoId /\ ~isSubmitting(t)
  /\ submits < MaxSubmits /\ submits' = submits + 1
  /\ Free # {}
  /\ requests' = [requests EXCEPT ![CHOOSE r \in Free : TRUE] =
                    [op |-> op, tab |-> t, who |-> who, email |-> normalizeEmail[spelling],
                     id |-> NoId, at |-> "sent"]]
  /\ UNCHANGED <<users, browser, faults, told>>

(* buildSession goes on from the token to the profile. *)
AskProfile(r) ==
  /\ requests[r].op = "login" /\ requests[r].at = "done"
  /\ requests' = [requests EXCEPT ![r].op = "me", ![r].at = "sent"]
  /\ UNCHANGED <<browser, told>>

(* onSessionChange, with the token and the profile. *)
SignIn(r) ==
  /\ requests[r].op = "me" /\ requests[r].at = "done"
  /\ session' = [session EXCEPT ![requests[r].tab] = requests[r].id]
  /\ stored' = requests[r].id
  /\ requests' = [requests EXCEPT ![r] = NoRequest]
  /\ UNCHANGED told

(* "Registration successful. You can now log in." *)
Registered(r) ==
  /\ requests[r].op = "register" /\ requests[r].at = "done"
  /\ told' = told \cup {[person |-> requests[r].who, email |-> requests[r].email]}
  /\ requests' = [requests EXCEPT ![r] = NoRequest]
  /\ UNCHANGED browser

(* catch: the error is shown. *)
Refused(r) ==
  /\ requests[r].at = "refused"
  /\ requests' = [requests EXCEPT ![r] = NoRequest]
  /\ UNCHANGED <<browser, told>>

Answered(r) ==
  /\ requests[r].tab # NoTab
  /\ AskProfile(r) \/ SignIn(r) \/ Registered(r) \/ Refused(r)
  /\ UNCHANGED <<users, submits, faults>>

(* The gateway gives up on a request: the service goes on with it. *)
GivenUp(r) ==
  /\ requests[r].tab # NoTab
  /\ requests' = [requests EXCEPT ![r] = IF @.at \in {"done", "refused"} THEN NoRequest
                                         ELSE [@ EXCEPT !.tab = NoTab]]
  /\ Fault
  /\ UNCHANGED <<users, browser, submits, told>>

(* handleLogout of the shell. *)
SignOut(t) ==
  /\ session[t] # NoId
  /\ session' = [session EXCEPT ![t] = NoId] /\ stored' = NoId
  /\ UNCHANGED <<users, requests, submits, faults, told>>

(* The tab is loaded anew: loadSession.  (Its requests were given up before.)*)
Reload(t) ==
  /\ ~isSubmitting(t)
  /\ session' = [session EXCEPT ![t] = stored]
  /\ UNCHANGED <<users, requests, stored, submits, faults, told>>

-----------------------------------------------------------------------------
(* The service. *)

Step(r, at, id) ==
  requests' = [requests EXCEPT ![r] =
    IF at \in {"done", "refused"} /\ @.tab = NoTab THEN NoRequest
    ELSE [@ EXCEPT !.at = at, !.id = id]]

(* RegisterUser up to hashPassword: 409 when the e-mail has an account. *)
FindFree(r) ==
  /\ requests[r].op = "register" /\ requests[r].at = "sent"
  /\ Step(r, IF With(requests[r].email) = {} THEN "found" ELSE "refused", NoId)
  /\ UNCHANGED users

Row(r, id) == [id |-> id, email |-> requests[r].email, person |-> requests[r].who]

(* Mutant: the table has no UNIQUE constraint. *)
SaveAnyway(r) ==
  /\ requests[r].op = "register" /\ requests[r].at = "found"
  /\ \E id \in Ids \ {u.id : u \in users} : users' = users \cup {Row(r, id)}
  /\ Step(r, "done", NoId)

(* Mutant: INSERT OR REPLACE. *)
SaveReplaces(r) ==
  /\ requests[r].op = "register" /\ requests[r].at = "found"
  /\ \E id \in Ids \ {u.id : u \in users} :
       users' = (users \ With(requests[r].email)) \cup {Row(r, id)}
  /\ Step(r, "done", NoId)

(* save: the UNIQUE constraint turns the loser of a race into a 409 as well.*)
Save(r) ==
  /\ requests[r].op = "register" /\ requests[r].at = "found"
  /\ IF With(requests[r].email) = {}
     THEN /\ \E id \in Ids \ {u.id : u \in users} : users' = users \cup {Row(r, id)}
          /\ Step(r, "done", NoId)
     ELSE Step(r, "refused", NoId) /\ UNCHANGED users

(* LoginUser up to verifyPassword. *)
FindAccount(r) ==
  /\ requests[r].op = "login" /\ requests[r].at = "sent"
  /\ \/ With(requests[r].email) = {} /\ Step(r, "refused", NoId)
     \/ \E u \in With(requests[r].email) : Step(r, "found", u.id)
  /\ UNCHANGED users

(* Mutant: the result of verifyPassword is not awaited, and a promise is true.*)
VerifyNothing(r) ==
  /\ requests[r].op = "login" /\ requests[r].at = "found"
  /\ Step(r, "done", requests[r].id)
  /\ UNCHANGED users

(* The password is verified against the hash that was read; then the token. *)
Verify(r) ==
  /\ requests[r].op = "login" /\ requests[r].at = "found"
  /\ IF \E u \in users : u.id = requests[r].id /\ u.person = requests[r].who
     THEN Step(r, "done", requests[r].id)
     ELSE Step(r, "refused", NoId)
  /\ UNCHANGED users

(* authenticate and GetMe: the account of the token, or 404. *)
GetMe(r) ==
  /\ requests[r].op = "me" /\ requests[r].at = "sent"
  /\ Step(r, IF \E u \in users : u.id = requests[r].id THEN "done" ELSE "refused",
          requests[r].id)
  /\ UNCHANGED users

Serve(r) ==
  /\ FindFree(r) \/ Save(r) \/ FindAccount(r) \/ Verify(r) \/ GetMe(r)
  /\ UNCHANGED <<browser, submits, faults, told>>

(* Mutant: migrate creates the table anew. *)
MigrateAnew == users' = {}

(* migrate: CREATE TABLE IF NOT EXISTS keeps what is there. *)
Migrate == UNCHANGED users

(* The service stops, its requests fail, and it is started again. *)
Crash ==
  /\ requests' = [r \in Slots |-> NoRequest]
  /\ Migrate
  /\ Fault
  /\ UNCHANGED <<browser, submits, told>>

-----------------------------------------------------------------------------
UANext ==
  \/ \E t \in Tabs :
       \/ \E op \in {"register", "login"}, p \in Persons, s \in Spellings : SubmitForm(t, op, p, s)
       \/ SignOut(t) \/ Reload(t)
  \/ \E r \in Slots : Answered(r) \/ GivenUp(r) \/ Serve(r)
  \/ Crash

UASpec == UAInit /\ [][UANext]_UAVars

-----------------------------------------------------------------------------
(* An e-mail has one account, however many registrations of it overlap. *)
EmailsAreUnique == \A u, w \in users : u.email = w.email => u = w

(* Who was told that they are registered has an account, across crashes. *)
ToldIsStored ==
  \A x \in told : \E u \in users : u.email = x.email /\ u.person = x.person

(***************************************************************************)
(* A session is opened with the account of the e-mail and the password     *)
(* that were typed, through find, verify, the token and /me.               *)
(***************************************************************************)
SessionIsOwn ==
  [][\A t \in Tabs, r \in Slots :
       requests[r].tab = t /\ session'[t] # session[t] /\ isSubmitting(t) =>
         \E u \in users : /\ u.id = session'[t]
                          /\ u.person = requests[r].who /\ u.email = requests[r].email]_UAVars

(***************************************************************************)
(* A login is refused only if the e-mail was not that person's: nobody is  *)
(* locked out of an account by another one of the same e-mail.             *)
(***************************************************************************)
OwnersAreLetIn ==
  [][\A r \in Slots :
       requests[r].op = "login" /\ requests'[r].at = "refused" /\ requests[r].at # "refused" =>
         \A u \in With(requests[r].email) : u.person # requests[r].who]_UAVars

(* The person each e-mail belongs to: what the service implements. *)
Holder ==
  [e \in Emails |-> IF With(e) = {} THEN Nobody ELSE (CHOOSE u \in With(e) : TRUE).person]

Book == INSTANCE AccountBook WITH holder <- Holder

(* Every step of the service is a step of the account book, or none. *)
ImplementsAccountBook == Book!Spec

=============================================================================
