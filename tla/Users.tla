------------------------------- MODULE Users -------------------------------
(***************************************************************************)
(* Accounts: UserService.Register, Login and UpdateProfile of internal/user.*)
(*                                                                         *)
(* Queries go to a replica that lags behind the primary, Create and Save go *)
(* to the primary (pkg/database/readwrite.go), and no transaction ties a    *)
(* check to the write it is made for: only the unique indexes on username   *)
(* and email stand between two requests.  UpdateProfile saves every column  *)
(* of the row it read; the phone number of a request is ignored.            *)
(***************************************************************************)
EXTENDS Integers, Sequences

CONSTANTS Names, Emails,
          Requests,
          None,     \* no row; nothing asked yet
          Omitted   \* no email in a request

VARIABLES
  history,  \* the states of the users table on the primary, the last is current
  applied,  \* how many of them the replica has got
  req,      \* each request: what it asks, how far it is, the row it found
  asked,    \* history: the email of each account, as last asked for
  reverted  \* history: accounts to which a stale row has been saved

vars == <<history, applied, req, asked, reverted>>

\* A user: email, and the registration whose password it has.
Rows == [email : Emails, by : Requests]
Tables == [Names -> Rows \union {None}]
Asks == [op : {"register", "update"}, name : Names, email : Emails \union {Omitted}]
States == [at : {"new", "name", "email", "create", "login", "find", "save", "200", "409", "500"},
           ask : Asks \union {None}, row : Rows \union {None}, read : Nat]

ASSUME AbsentAssumption == Omitted \notin Emails /\ None \notin Rows

Primary == history[Len(history)]
Replica == history[applied]

HasEmail(table, email) == {n \in Names : table[n] # None /\ table[n].email = email}

\* Whether the unique indexes let name have email.
Free(name, email) == HasEmail(Primary, email) \subseteq {name}

Goto(r, at) == req' = [req EXCEPT ![r].at = at]
Check(r, conflict, next) ==
  /\ Goto(r, IF conflict THEN "409" ELSE next)
  /\ UNCHANGED <<history, applied, asked, reverted>>

Write(name, row) == history' = Append(history, [Primary EXCEPT ![name] = row])

-----------------------------------------------------------------------------
(* Register *)

\* ExistsByUsername,
CheckName(r) ==
  /\ req[r].at = "name"
  /\ Check(r, Replica[req[r].ask.name] # None, "email")

\* ... ExistsByEmail (also of UpdateProfile),
CheckEmail(r) ==
  /\ req[r].at = "email"
  /\ Check(r, HasEmail(Replica, req[r].ask.email) # {},
           IF req[r].ask.op = "register" THEN "create" ELSE "save")

\* Mutant of Create: a user of that name is overwritten.
CreateOrReplace(r) ==
  LET ask == req[r].ask IN
  /\ req[r].at = "create"
  /\ Free(ask.name, ask.email)
  /\ Write(ask.name, [email |-> ask.email, by |-> r])
  /\ asked' = [asked EXCEPT ![ask.name] = ask.email]
  /\ \E at \in {"200", "500"} : Goto(r, at)
  /\ UNCHANGED <<applied, reverted>>

\* ... Create, whose answer may be lost,
Create(r) ==
  LET ask == req[r].ask IN
  /\ req[r].at = "create"
  /\ Primary[ask.name] = None /\ Free(ask.name, ask.email)
  /\ Write(ask.name, [email |-> ask.email, by |-> r])
  /\ asked' = [asked EXCEPT ![ask.name] = ask.email]
  /\ \E at \in {"200", "500"} : Goto(r, at)
  /\ UNCHANGED <<applied, reverted>>

\* ... or an error, which a unique index raises if another request was faster.
CreateFails(r) ==
  /\ req[r].at = "create" /\ Goto(r, "500")
  /\ UNCHANGED <<history, applied, asked, reverted>>

-----------------------------------------------------------------------------
(* UpdateProfile *)

\* Login gives a token to who is found on the replica.
Login(r) ==
  /\ req[r].at = "login"
  /\ Goto(r, IF Replica[req[r].ask.name] = None THEN "500" ELSE "find")
  /\ UNCHANGED <<history, applied, asked, reverted>>

\* Mutant of Find: an email is checked also if it is the present one.
FindChecksAlways(r) ==
  /\ req[r].at = "find"
  /\ req' = [req EXCEPT
       ![r].row = Replica[req[r].ask.name], ![r].read = applied,
       ![r].at = IF req[r].ask.email = Omitted THEN "save" ELSE "email"]
  /\ UNCHANGED <<history, applied, asked, reverted>>

\* FindByID; an email that is another than the row's is checked,
Find(r) ==
  /\ req[r].at = "find"
  /\ req' = [req EXCEPT
       ![r].row = Replica[req[r].ask.name], ![r].read = applied,
       ![r].at = IF req[r].ask.email \in {Omitted, Replica[req[r].ask.name].email}
                 THEN "save" ELSE "email"]
  /\ UNCHANGED <<history, applied, asked, reverted>>

\* Mutant of NewEmail: user.Email = req.Email is forgotten.
OldEmail(r) == req[r].row.email

\* user.Email
NewEmail(r) == IF req[r].ask.email = Omitted THEN req[r].row.email ELSE req[r].ask.email

\* ... Update saves the whole row,
Save(r) ==
  LET ask == req[r].ask IN
  /\ req[r].at = "save"
  /\ Free(ask.name, NewEmail(r))
  /\ Write(ask.name, [req[r].row EXCEPT !.email = NewEmail(r)])
  /\ asked' = IF ask.email = Omitted THEN asked ELSE [asked EXCEPT ![ask.name] = ask.email]
  /\ reverted' = IF ask.email = Omitted /\ req[r].row # Primary[ask.name]
                 THEN reverted \union {ask.name} ELSE reverted
  /\ \E at \in {"200", "500"} : Goto(r, at)
  /\ UNCHANGED applied

\* ... or fails, be it for a unique index.
SaveFails(r) ==
  /\ req[r].at = "save" /\ Goto(r, "500")
  /\ UNCHANGED <<history, applied, asked, reverted>>

-----------------------------------------------------------------------------
\* A request comes; POST /auth/register always has an email.
Arrive(r) ==
  /\ req[r].at = "new"
  /\ \E ask \in Asks :
       /\ ask.op = "register" => ask.email # Omitted
       /\ req' = [req EXCEPT ![r].ask = ask,
                             ![r].at = IF ask.op = "register" THEN "name" ELSE "login"]
  /\ UNCHANGED <<history, applied, asked, reverted>>

Replicate ==
  /\ applied < Len(history) /\ applied' = applied + 1
  /\ UNCHANGED <<history, req, asked, reverted>>

Init ==
  /\ history = <<[n \in Names |-> None]>> /\ applied = 1
  /\ req = [r \in Requests |-> [at |-> "new", ask |-> None, row |-> None, read |-> 0]]
  /\ asked = [n \in Names |-> Omitted] /\ reverted = {}

Register(r)      == CheckName(r) \/ CheckEmail(r) \/ Create(r) \/ CreateFails(r)
UpdateProfile(r) == Login(r) \/ Find(r) \/ Save(r) \/ SaveFails(r)

Next == Replicate \/ \E r \in Requests : Arrive(r) \/ Register(r) \/ UpdateProfile(r)

Spec == Init /\ [][Next]_vars

-----------------------------------------------------------------------------
(* Properties *)

TypeOK ==
  /\ history \in Seq(Tables) /\ applied \in 1..Len(history)
  /\ req \in [Requests -> States]
  /\ asked \in [Names -> Emails \union {Omitted}]
  /\ reverted \subseteq Names

\* Whoever was told to be registered owns the account from then on: no race of
\* registrations and no update saved from an old row gives it another password.
AccountKept ==
  \A r \in Requests : req[r].at = "200" /\ req[r].ask.op = "register" =>
    LET row == Primary[req[r].ask.name] IN row # None /\ row.by = r

\* An account has the email last asked for, whatever the replica shows to requests
\* that change it at the same time, unless a request without an email has saved a
\* row that it read before the change.
EmailKeptUnlessReverted ==
  \A n \in Names \ reverted : Primary[n] # None => Primary[n].email = asked[n]

\* A conflict is answered only if the name is, or the email was, another account's.
\* An account is in conflict with itself only if it got that email after the row
\* was read.
ConflictIsReal ==
  \A r \in Requests : req[r].at = "409" =>
    LET ask == req[r].ask IN
    \/ \E k \in DOMAIN history : HasEmail(history[k], ask.email) \ {ask.name} # {}
    \/ ask.op = "register" /\ Primary[ask.name] # None
    \/ \E k \in req[r].read + 1 .. Len(history) : ask.name \in HasEmail(history[k], ask.email)
=============================================================================
