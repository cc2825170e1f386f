---------------------------- MODULE FaasAccounts ----------------------------
(***************************************************************************)
(* The account functions of faas-events and the page web-ui/app.js that    *)
(* calls them.  On AWS (stage dev) the users are a DynamoDB table whose    *)
(* e-mail index follows behind.  On a developer's machine (stage local)    *)
(* all tables are one file: a command of db.js reads the file and, if it   *)
(* changes anything, writes it back, while the handlers run in threads of  *)
(* their own.  writeFileSync empties the file and then writes it, so a     *)
(* reader may find it empty, and a writer may write into the text of one   *)
(* that came between.                                                      *)
(***************************************************************************)
EXTENDS Integers, FiniteSets, Accounts

CONSTANTS
  MaxCalls,      (* bound on the calls in flight                            *)
  MaxActs        (* bound on what the user, other functions and faults do   *)

VARIABLES
  stage,      (* dev or local                                               *)
  table,      (* items of the users table                                   *)
  index,      (* items the index email-index holds                          *)
  file,       (* whether the local file can be parsed                       *)
  calls,
  token,      (* the token in the page, and in localStorage                 *)
  meData,     (* the profile the page shows                                 *)
  acts,
  welcomed,   (* history: accounts whose registration was answered 201      *)
  blind,      (* history: addresses queried while a registration of them    *)
              (* was not yet in the index                                   *)
  raced,      (* history: a file was read between another's read and write  *)
  cut,        (* history: the server stopped while it wrote the file        *)
  late        (* history: the token changed while /me was in flight, or /me *)
              (* failed                                                     *)

data == <<stage, table, index, file, raced, cut>>
page == <<token, meData, welcomed, late>>
FAVars == <<data, calls, page, acts, blind>>

Places == 1..MaxCalls
Item == [userId : Ids, email : Emails, person : Persons]
Call == [op : {"none", "register", "login", "me", "other"}, who : Persons \cup {Nobody},
         email : Emails, id : Ids \cup {NoId}, state : SUBSET Item,
         at : {"sent", "found", "read", "open", "crossed", "done", "refused"}]
NoCall == [op |-> "none", who |-> Nobody, email |-> CHOOSE e \in Emails : TRUE,
           id |-> NoId, state |-> {}, at |-> "sent"]

FATypeOK ==
  /\ stage \in {"dev", "local"}
  /\ table \subseteq Item /\ index \subseteq Item
  /\ file \in {"whole", "empty", "mixed"}
  /\ calls \in [Places -> Call]
  /\ {token, meData} \subseteq Ids \cup {NoId}
  /\ acts \in Nat
  /\ welcomed \subseteq Item /\ blind \subseteq Emails
  /\ {raced, cut, late} \subseteq BOOLEAN

FAInit ==
  /\ stage \in {"dev", "local"}
  /\ table = {} /\ index = {} /\ file = "whole"
  /\ calls = [c \in Places |-> NoCall]
  /\ token = NoId /\ meData = NoId
  /\ acts = 0
  /\ welcomed = {} /\ blind = {} /\ raced = FALSE /\ cut = FALSE
  /\ late = FALSE

Act == acts < MaxActs /\ acts' = acts + 1
InFlight(op) == {c \in Places : calls[c].op = op}
Idle == {c \in Places : calls[c] = NoCall}
Asked(c, call) == calls' = [calls EXCEPT ![c] = call]
Begun(call) == Idle # {} /\ Asked(CHOOSE c \in Idle : TRUE, call)
At(c, at) == calls' = [calls EXCEPT ![c].at = at]
End(c) == Asked(c, NoCall)

(* The item register.js puts, under a new id. *)
NewItem(c, id) == [userId |-> id, email |-> calls[c].email, person |-> calls[c].who]

(* sendLocal parses the file before anything else; otherwise it throws. *)
Readable == stage = "dev" \/ file = "whole"

(* What a query of email-index sees: local-db.json has no index of its own. *)
Indexed(email) == {u \in IF stage = "dev" THEN index ELSE table : u.email = email}

-----------------------------------------------------------------------------
(* The page. *)

(* register and login up to their await: nothing disables the buttons. *)
Submit(op, who, spelling) ==
  /\ Begun([NoCall EXCEPT !.op = op, !.who = who, !.email = normalizeEmail[spelling]])
  /\ Act
  /\ UNCHANGED <<data, page, blind>>

(* loadMe: the request carries the token of this moment. *)
LoadMe ==
  /\ token # NoId
  /\ Begun([NoCall EXCEPT !.op = "me", !.id = token])
  /\ Act
  /\ UNCHANGED <<data, page, blind>>

(* setToken *)
SetToken(id) ==
  /\ token' = id
  /\ late' = (late \/ \E c \in InFlight("me") : calls[c].id # id)

(* register and login after their await: the token is stored, then loadMe. *)
Welcome(c) ==
  /\ calls[c].op \in {"register", "login"} /\ calls[c].at = "done"
  /\ SetToken(calls[c].id)
  /\ welcomed' = IF calls[c].op = "login" THEN welcomed
                 ELSE welcomed \cup {NewItem(c, calls[c].id)}
  /\ Asked(c, [NoCall EXCEPT !.op = "me", !.id = calls[c].id])
  /\ UNCHANGED <<data, meData, acts, blind>>

ShowMe(c) ==
  /\ calls[c].op = "me" /\ calls[c].at = "done"
  /\ meData' = calls[c].id
  /\ End(c)
  /\ UNCHANGED <<data, token, welcomed, late, acts, blind>>

(* catch: the error is logged; the profile of an earlier token may stay. *)
Caught(c) ==
  /\ calls[c].at = "refused"
  /\ late' = (late \/ calls[c].op = "me")
  /\ End(c)
  /\ UNCHANGED <<data, token, meData, welcomed, acts, blind>>

(* Mutant: the profile is left on the page. *)
LogoutTokenOnly ==
  /\ token # NoId
  /\ SetToken(NoId)
  /\ UNCHANGED <<data, calls, meData, welcomed, acts, blind>>

(* logout *)
Logout ==
  /\ token # NoId
  /\ SetToken(NoId)
  /\ meData' = NoId
  /\ UNCHANGED <<data, calls, welcomed, acts, blind>>

-----------------------------------------------------------------------------
(* The functions. *)

(* A registration the index does not show yet. *)
Hidden(email) ==
  \/ \E d \in InFlight("register") : calls[d].email = email
                                     /\ calls[d].at \in {"found", "read", "open", "crossed"}
  \/ \E u \in table \ index : stage = "dev" /\ u.email = email

(* Mutant: the items that were found are not looked at. *)
QueryIgnored(c) ==
  /\ calls[c].op \in {"register", "login"} /\ calls[c].at = "sent"
  /\ At(c, "found")
  /\ UNCHANGED <<data, page, acts, blind>>

(* register.js up to hashPassword, or login.js up to comparePassword. *)
Query(c) ==
  /\ calls[c].op \in {"register", "login"} /\ calls[c].at = "sent"
  /\ LET found == Indexed(calls[c].email)
     IN  \/ ~Readable /\ At(c, "refused") /\ UNCHANGED blind
         \/ /\ Readable /\ calls[c].op = "register"
            /\ At(c, IF found = {} THEN "found" ELSE "refused")
            /\ blind' = IF Hidden(calls[c].email) THEN blind \cup {calls[c].email} ELSE blind
         \/ /\ Readable /\ calls[c].op = "login" /\ UNCHANGED blind
            /\ \/ found = {} /\ At(c, "refused")
               \/ \E u \in found : Asked(c, [calls[c] EXCEPT !.at = "found", !.id = u.userId,
                                                             !.state = {u}])
  /\ UNCHANGED <<data, page, acts>>

(* comparePassword with the hash that was read, and the token. *)
Compare(c) ==
  /\ calls[c].op = "login" /\ calls[c].at = "found"
  /\ LET ok == \E u \in calls[c].state : u.person = calls[c].who
     IN  Asked(c, [calls[c] EXCEPT !.at = IF ok THEN "done" ELSE "refused", !.state = {}])
  /\ UNCHANGED <<data, page, acts, blind>>

(* me.js: the item of the token's userId, or 404.  GetCommand without      *)
(* ConsistentRead may miss an item of DynamoDB that was just put.          *)
GetItem(c) ==
  /\ calls[c].op = "me" /\ calls[c].at = "sent"
  /\ LET stored == Readable /\ \E u \in table : u.userId = calls[c].id
     IN  \/ stored /\ At(c, "done")
         \/ (stage = "dev" \/ ~stored) /\ At(c, "refused")
  /\ UNCHANGED <<data, page, acts, blind>>

Drawn == {u.userId : u \in table} \cup {calls[c].id : c \in Places} \cup {u.userId : u \in welcomed}

(* register.js: the unconditioned PutCommand, on DynamoDB. *)
PutItem(c) ==
  /\ stage = "dev" /\ calls[c].op = "register" /\ calls[c].at = "found"
  /\ \E id \in Ids \ Drawn :
       /\ table' = table \cup {NewItem(c, id)}
       /\ Asked(c, [calls[c] EXCEPT !.at = "done", !.id = id])
  /\ UNCHANGED <<stage, index, file, raced, cut, page, acts, blind>>

(* The index follows the table. *)
CatchUp ==
  /\ stage = "dev"
  /\ \E u \in table \ index : index' = index \cup {u}
  /\ UNCHANGED <<stage, table, file, raced, cut, calls, page, acts, blind>>

-----------------------------------------------------------------------------
(* db.js on a file. *)

(* Another function begins to change another collection of the file. *)
OtherFunction ==
  /\ stage = "local"
  /\ Begun([NoCall EXCEPT !.op = "other", !.at = "found"])
  /\ Act
  /\ UNCHANGED <<data, page, blind>>

Writers == {c \in Places : calls[c].at \in {"read", "open", "crossed"}}

(* Mutant: the collection begins with the new item. *)
PushedFirst(item) == {item}

(* sendLocal of a PutCommand: the item pushed to the collection. *)
Pushed(item) == table \cup {item}

(* readLocalState, and the item pushed to the copy that was read. *)
ReadFile(c) ==
  /\ stage = "local" /\ calls[c].op \in {"register", "other"} /\ calls[c].at = "found"
  /\ \/ ~Readable /\ At(c, "refused") /\ UNCHANGED raced
     \/ /\ Readable /\ raced' = (raced \/ Writers # {})
        /\ \/ calls[c].op = "other"
              /\ Asked(c, [calls[c] EXCEPT !.at = "read", !.state = table])
           \/ calls[c].op = "register" /\ \E id \in Ids \ Drawn :
                Asked(c, [calls[c] EXCEPT !.at = "read", !.id = id,
                                          !.state = Pushed(NewItem(c, id))])
  /\ UNCHANGED <<stage, table, index, file, cut, page, acts, blind>>

(* writeFileSync empties the file ... *)
OpenFile(c) ==
  /\ calls[c].at = "read"
  /\ file' = "empty"
  /\ At(c, "open")
  /\ UNCHANGED <<stage, table, index, raced, cut, page, acts, blind>>

(* ... and writes it; over another's text a shorter one leaves a rest.     *)
WriteFile(c) ==
  /\ calls[c].at \in {"open", "crossed"}
  /\ table' = calls[c].state
  /\ file' \in IF calls[c].at = "crossed" THEN {"whole", "mixed"} ELSE {"whole"}
  /\ calls' = [d \in Places |->
       IF d = c THEN [calls[c] EXCEPT !.at = "done", !.state = {}]
       ELSE IF calls[d].at = "open" THEN [calls[d] EXCEPT !.at = "crossed"] ELSE calls[d]]
  /\ UNCHANGED <<stage, index, raced, cut, page, acts, blind>>

(* The other function is done, or failed. *)
OtherEnds(c) ==
  /\ calls[c].op = "other" /\ calls[c].at \in {"done", "refused"}
  /\ End(c)
  /\ UNCHANGED <<data, page, acts, blind>>

(***************************************************************************)
(* The local server is stopped and started: its calls fail, and the file   *)
(* is as they left it.  ensureLocalStateFile only creates a missing one.   *)
(***************************************************************************)
Restart ==
  /\ stage = "local"
  /\ cut' = (cut \/ \E c \in Places : calls[c].at \in {"open", "crossed"})
  /\ late' = (late \/ InFlight("me") # {})
  /\ calls' = [c \in Places |-> NoCall]
  /\ Act
  /\ UNCHANGED <<stage, table, index, file, raced, token, meData, welcomed, blind>>

(* An answer is lost on its way to the page. *)
AnswerLost(c) ==
  /\ calls[c].at \in {"done", "refused"} /\ calls[c].op # "other"
  /\ late' = (late \/ calls[c].op = "me")
  /\ End(c)
  /\ Act
  /\ UNCHANGED <<data, token, meData, welcomed, blind>>

-----------------------------------------------------------------------------
Page ==
  \/ \E c \in Places : Welcome(c) \/ ShowMe(c) \/ Caught(c)
  \/ Logout

Function(c) == Query(c) \/ Compare(c) \/ GetItem(c) \/ PutItem(c)

LocalDb(c) == ReadFile(c) \/ OpenFile(c) \/ WriteFile(c) \/ OtherEnds(c)

FANext ==
  \/ \E op \in {"register", "login"}, p \in Persons, s \in Spellings : Submit(op, p, s)
  \/ LoadMe \/ OtherFunction
  \/ \E c \in Places : Function(c) \/ LocalDb(c) \/ AnswerLost(c)
  \/ Page \/ CatchUp \/ Restart

FASpec == FAInit /\ [][FANext]_FAVars

-----------------------------------------------------------------------------
(***************************************************************************)
(* Two accounts have one e-mail only if it was registered while another    *)
(* registration of it was under way or not in the index yet: the query     *)
(* that should find it is all that register.js does about it.  (In a file  *)
(* that two commands raced for, an account may be gone and come back.)     *)
(***************************************************************************)
DuplicatesOnlyByRacers ==
  raced \/ \A u, w \in table : u.email = w.email /\ u # w => u.email \in blind

(***************************************************************************)
(* An account whose registration was answered stays in the table, and the  *)
(* local file stays readable between writes, unless two commands had read  *)
(* the file before either wrote it or the server stopped in a write.       *)
(***************************************************************************)
RegistrationsStay ==
  /\ raced \/ welcomed \subseteq table
  /\ raced \/ cut \/ Writers # {} \/ file = "whole"

(***************************************************************************)
(* The page shows the profile of its token, or none, or /me for the token  *)
(* is on its way, unless the token changed while /me was under way for the *)
(* one before, whose profile then comes back.                              *)
(***************************************************************************)
ProfileIsOwn ==
  \/ late
  \/ meData \in {token, NoId}
  \/ \E c \in InFlight("me") : calls[c].id = token

-----------------------------------------------------------------------------
(* The users table as an account book. *)

ItemsOf(email) == {u \in table : u.email = email}

(* The person each e-mail belongs to. *)
FAHolder ==
  [email \in Emails |-> IF ItemsOf(email) = {} THEN Nobody
                        ELSE (CHOOSE u \in ItemsOf(email) : TRUE).person]

FABook == INSTANCE AccountBook WITH holder <- FAHolder

(***************************************************************************)
(* An e-mail that was never registered blindly stays with who registered   *)
(* it first, on either stage, unless two commands raced for the file.      *)
(***************************************************************************)
HoldersStay ==
  [][raced \/ \A email \in Emails \ blind :
                FAHolder[email] # Nobody => FAHolder'[email] = FAHolder[email]]_FAVars

(***************************************************************************)
(* A behaviour without such a race is one of the account book, which       *)
(* uporabniki implements whatever races there are.                         *)
(***************************************************************************)
KeepsAccountBook == [](~raced /\ blind = {}) => FABook!Spec

=============================================================================
