---------------------------- MODULE UsersProofs ----------------------------
(***************************************************************************)
(* Theorems about Users, for any names, emails and requests: accounts keep *)
(* their owners, emails are lost to saves of stale rows only, and every    *)
(* conflict that is answered is a real one.                                *)
(***************************************************************************)
EXTENDS Users, TLAPS

\* The step a request is at fits what it asks.
AskFits(r) ==
  LET q == req[r] IN
  /\ q.at # "new" => q.ask \in Asks
  /\ q.at \in {"name", "create"} => q.ask.op = "register"
  /\ q.at \in {"login", "find", "save"} => q.ask.op = "update"
  /\ q.at \in {"name", "email", "create"} => q.ask.email # Omitted

\* The row of an update is the account, as the replica had it when it was read;
\* only an email other than the row's is looked up.
RowFound(r) ==
  LET q == req[r] IN
  /\ q.at = "find" => Replica[q.ask.name] # None
  /\ q.at \in {"email", "save"} /\ q.ask.op = "update" =>
       /\ q.read \in 1..applied
       /\ q.row = history[q.read][q.ask.name] /\ q.row # None
  /\ q.at = "email" /\ q.ask.op = "update" => q.ask.email # q.row.email

\* What AccountKept says of one request.
OwnerKept(r) ==
  req[r].at = "200" /\ req[r].ask.op = "register" =>
    LET row == Primary[req[r].ask.name] IN row # None /\ row.by = r

\* What ConflictIsReal says of one request.
ConflictReal(r) ==
  req[r].at = "409" =>
    LET ask == req[r].ask IN
    \/ \E k \in DOMAIN history : HasEmail(history[k], ask.email) \ {ask.name} # {}
    \/ ask.op = "register" /\ Primary[ask.name] # None
    \/ \E k \in req[r].read + 1 .. Len(history) : ask.name \in HasEmail(history[k], ask.email)

ReqInv(r) == AskFits(r) /\ RowFound(r) /\ OwnerKept(r) /\ ConflictReal(r)

\* An account neither disappears nor changes hands from one state of the table to
\* a later one.
Owned ==
  \A k \in 1..Len(history) : \A l \in k..Len(history) : \A n \in Names :
    history[k][n] # None => /\ history[l][n] # None
                            /\ history[l][n].by = history[k][n].by

UsersInv ==
  /\ TypeOK
  /\ \A r \in Requests : ReqInv(r)
  /\ Owned
  /\ EmailKeptUnlessReverted

-----------------------------------------------------------------------------
(* Reading the state *)

\* What the tables and requests of a well-typed state are.
LEMMA Types ==
  ASSUME TypeOK
  PROVE  /\ Len(history) \in Nat /\ applied \in 1..Len(history)
         /\ \A k \in 1..Len(history) : history[k] \in Tables
         /\ Primary \in Tables /\ Replica \in Tables
         /\ DOMAIN history = 1..Len(history)
         /\ \A r \in Requests : req[r] \in States
<1>1. history \in Seq(Tables) /\ applied \in 1..Len(history)
  BY DEF TypeOK
<1>2. Len(history) \in Nat /\ \A k \in 1..Len(history) : history[k] \in Tables
  BY <1>1
<1>3. Len(history) \in 1..Len(history)
  BY <1>1, <1>2
<1>4. QED
  BY <1>1, <1>2, <1>3 DEF TypeOK, Primary, Replica

\* A row that is not None is a user.
LEMMA RowType ==
  ASSUME NEW T \in Tables, NEW n \in Names, T[n] # None
  PROVE  T[n] \in Rows /\ T[n].email \in Emails /\ T[n].by \in Requests
BY DEF Tables, Rows

\* A request that moves on keeps all but where it is.
LEMMA Moves ==
  ASSUME TypeOK, NEW r \in Requests, NEW at, Goto(r, at)
  PROVE  /\ req'[r] = [req[r] EXCEPT !.at = at]
         /\ req'[r].at = at /\ req'[r].ask = req[r].ask
         /\ req'[r].row = req[r].row /\ req'[r].read = req[r].read
         /\ \A p \in Requests \ {r} : req'[p] = req[p]
         /\ DOMAIN req' = Requests
<1>1. req = [p \in Requests |-> req[p]] /\ req[r] \in States
  BY DEF TypeOK
<1>2. req' = [req EXCEPT ![r] = [req[r] EXCEPT !.at = at]]
  BY DEF Goto
<1>3. req'[r] = [req[r] EXCEPT !.at = at]
  BY <1>1, <1>2
<1>4. QED
  BY <1>1, <1>2, <1>3 DEF States

Ats == {"new", "name", "email", "create", "login", "find", "save", "200", "409", "500"}

LEMMA MovesType ==
  ASSUME TypeOK, NEW r \in Requests, NEW at \in Ats, Goto(r, at)
  PROVE  req' \in [Requests -> States]
<1>1. req'[r] \in States
  <2>1. req'[r] = [req[r] EXCEPT !.at = at] /\ req[r] \in States
    BY Moves, Types
  <2>2. QED
    BY <2>1 DEF States, Ats
<1>2. \A p \in Requests \ {r} : req'[p] \in States
  BY Moves, Types
<1>3. DOMAIN req' = Requests /\ req' = [p \in DOMAIN req' |-> req'[p]]
  BY Moves DEF Goto, TypeOK
<1>4. QED
  BY <1>1, <1>2, <1>3

-----------------------------------------------------------------------------
(* Steps that write nothing *)

\* One request changes, and fits; the tables stay.
LEMMA OneRequest ==
  ASSUME UsersInv, NEW r \in Requests,
         UNCHANGED <<history, applied, asked, reverted>>,
         req' \in [Requests -> States],
         \A p \in Requests \ {r} : req'[p] = req[p],
         ReqInv(r)'
  PROVE  UsersInv'
<1>1. TypeOK'
  BY DEF UsersInv, TypeOK
<1>2. ASSUME NEW p \in Requests \ {r} PROVE ReqInv(p)'
  <2>1. ReqInv(p) /\ req'[p] = req[p]
    BY <1>2 DEF UsersInv
  <2>2. QED
    BY <2>1 DEF ReqInv, AskFits, RowFound, OwnerKept, ConflictReal, Primary, Replica
<1>3. Owned' /\ EmailKeptUnlessReverted'
  BY DEF UsersInv, Owned, EmailKeptUnlessReverted, Primary
<1>4. QED
  BY <1>1, <1>2, <1>3 DEF UsersInv

\* A request that fails keeps nothing that could be wrong.
LEMMA Fails ==
  ASSUME UsersInv, NEW r \in Requests, Goto(r, "500"), req[r].at # "new",
         UNCHANGED <<history, applied, asked, reverted>>
  PROVE  UsersInv'
<1>1. TypeOK /\ AskFits(r)
  BY DEF UsersInv, ReqInv
<1>2. req'[r].at = "500" /\ req'[r].ask = req[r].ask
  BY <1>1, Moves
<1>3. ReqInv(r)'
  BY <1>1, <1>2 DEF ReqInv, AskFits, RowFound, OwnerKept, ConflictReal
<1>4. QED
  BY <1>1, <1>3, OneRequest, Moves, MovesType DEF Ats

\* What the replica has for a name, the primary has.
LEMMA OnPrimary ==
  ASSUME TypeOK, Owned, NEW k \in 1..Len(history), NEW n \in Names, history[k][n] # None
  PROVE  Primary[n] # None /\ Primary[n].by = history[k][n].by
<1>1. Len(history) \in k..Len(history)
  BY Types
<1>2. QED
  BY <1>1 DEF Owned, Primary

LEMMA ArriveStep ==
  ASSUME UsersInv, NEW r \in Requests, Arrive(r)
  PROVE  UsersInv'
<1>1. PICK ask \in Asks :
        /\ ask.op = "register" => ask.email # Omitted
        /\ req' = [req EXCEPT ![r].ask = ask,
                              ![r].at = IF ask.op = "register" THEN "name" ELSE "login"]
  BY DEF Arrive
<1>2. TypeOK /\ req[r] \in States /\ req \in [Requests -> States]
  BY Types DEF UsersInv, TypeOK
<1> DEFINE at == IF ask.op = "register" THEN "name" ELSE "login"
<1>3. ask.op \in {"register", "update"} /\ at \in Ats
  BY DEF Asks, Ats
<1>4. req'[r] = [req[r] EXCEPT !.ask = ask, !.at = at]
  BY <1>1, <1>2
<1>5. req'[r] \in States /\ req'[r].at = at /\ req'[r].ask = ask
  BY <1>2, <1>3, <1>4 DEF States, Ats
<1>6. \A p \in Requests \ {r} : req'[p] = req[p]
  BY <1>1, <1>2
<1>7. req' \in [Requests -> States]
  BY <1>1, <1>2, <1>5, <1>6
<1>8. ReqInv(r)'
  BY <1>1, <1>3, <1>5 DEF ReqInv, AskFits, RowFound, OwnerKept, ConflictReal
<1>9. QED
  BY <1>6, <1>7, <1>8, OneRequest DEF Arrive

\* A name that is found on the replica is on the primary.
LEMMA CheckNameStep ==
  ASSUME UsersInv, NEW r \in Requests, CheckName(r)
  PROVE  UsersInv'
<1> DEFINE ask == req[r].ask
           at == IF Replica[ask.name] # None THEN "409" ELSE "email"
<1>1. TypeOK /\ Owned /\ AskFits(r) /\ req[r].at = "name"
  BY DEF UsersInv, ReqInv, CheckName
<1>2. Goto(r, at) /\ UNCHANGED <<history, applied, asked, reverted>>
  BY DEF CheckName, Check
<1>3. at \in Ats
  BY DEF Ats
<1>4. req'[r].at = at /\ req'[r].ask = ask
  BY <1>1, <1>2, Moves
<1>5. ask \in Asks /\ ask.op = "register" /\ ask.email # Omitted /\ ask.name \in Names
  BY <1>1 DEF AskFits, Asks
<1>6. at = "409" => Primary[ask.name] # None
  BY <1>1, <1>5, OnPrimary, Types DEF Replica
<1>7. at \in {"409", "email"}
  OBVIOUS
<1>8. ReqInv(r)'
  <2>1. AskFits(r)'
    BY <1>4, <1>5, <1>7 DEF AskFits
  <2>2. RowFound(r)' /\ OwnerKept(r)'
    BY <1>4, <1>5, <1>7 DEF RowFound, OwnerKept
  <2>3. ConflictReal(r)'
    BY <1>2, <1>4, <1>5, <1>6 DEF ConflictReal, Primary
  <2>4. QED
    BY <2>1, <2>2, <2>3 DEF ReqInv
<1>9. req' \in [Requests -> States] /\ \A p \in Requests \ {r} : req'[p] = req[p]
  BY <1>1, <1>2, <1>3, Moves, MovesType
<1>10. QED
  BY <1>2, <1>8, <1>9, OneRequest

\* An email that is found on the replica was another account's, or has become the
\* account's own since the row was read.
LEMMA CheckEmailStep ==
  ASSUME UsersInv, NEW r \in Requests, CheckEmail(r)
  PROVE  UsersInv'
<1> DEFINE ask == req[r].ask
           next == IF ask.op = "register" THEN "create" ELSE "save"
           at == IF HasEmail(Replica, ask.email) # {} THEN "409" ELSE next
<1>1. /\ TypeOK /\ Owned /\ AskFits(r) /\ RowFound(r) /\ req[r].at = "email"
      /\ req[r] \in States /\ applied \in 1..Len(history) /\ Len(history) \in Nat
  BY Types DEF UsersInv, ReqInv, CheckEmail
<1>2. Goto(r, at) /\ UNCHANGED <<history, applied, asked, reverted>>
  BY DEF CheckEmail, Check
<1>3. at \in {"409", "create", "save"}
  OBVIOUS
<1>4. /\ req'[r].at = at /\ req'[r].ask = ask
      /\ req'[r].row = req[r].row /\ req'[r].read = req[r].read
  BY <1>1, <1>2, Moves
<1>5. ask \in Asks /\ ask.op \in {"register", "update"} /\ ask.email # Omitted
      /\ ask.name \in Names
  BY <1>1 DEF AskFits, Asks
<1>6. ASSUME at = "409"
      PROVE  \/ \E k \in DOMAIN history : HasEmail(history[k], ask.email) \ {ask.name} # {}
             \/ ask.op = "register" /\ Primary[ask.name] # None
             \/ \E k \in req[r].read + 1 .. Len(history) :
                   ask.name \in HasEmail(history[k], ask.email)
  <2>1. PICK n \in Names : n \in HasEmail(history[applied], ask.email)
    BY <1>6 DEF HasEmail, Replica
  <2>2. history[applied][n] # None /\ history[applied][n].email = ask.email
    BY <2>1 DEF HasEmail
  <2>3. CASE n # ask.name
    BY <1>1, <2>1, <2>3, Types
  <2>4. CASE n = ask.name /\ ask.op = "register"
    BY <1>1, <2>2, <2>4, OnPrimary
  <2>5. CASE n = ask.name /\ ask.op = "update"
    <3>1. /\ req[r].read \in 1..applied /\ ask.email # req[r].row.email
          /\ req[r].row = history[req[r].read][ask.name]
      BY <1>1, <2>5 DEF RowFound
    <3>2. req[r].read # applied
      BY <2>2, <2>5, <3>1
    <3>3. applied \in req[r].read + 1 .. Len(history)
      BY <1>1, <3>1, <3>2
    <3>4. QED
      BY <2>1, <2>5, <3>3
  <2>6. QED
    BY <1>5, <2>3, <2>4, <2>5
<1>7. ReqInv(r)'
  <2>1. AskFits(r)'
    BY <1>3, <1>4, <1>5 DEF AskFits
  <2>2. RowFound(r)'
    BY <1>1, <1>2, <1>3, <1>4 DEF RowFound, Replica
  <2>3. OwnerKept(r)'
    BY <1>3, <1>4 DEF OwnerKept
  <2>4. ConflictReal(r)'
    <3>1. CASE at # "409"
      BY <1>4, <3>1 DEF ConflictReal
    <3>2. CASE at = "409"
      <4>1. \/ \E k \in DOMAIN history : HasEmail(history[k], ask.email) \ {ask.name} # {}
            \/ ask.op = "register" /\ Primary[ask.name] # None
            \/ \E k \in req[r].read + 1 .. Len(history) :
                  ask.name \in HasEmail(history[k], ask.email)
        BY <1>6, <3>2
      <4>2. QED
        BY <1>2, <1>4, <4>1 DEF ConflictReal, Primary
    <3>3. QED
      BY <3>1, <3>2
  <2>5. QED
    BY <2>1, <2>2, <2>3, <2>4 DEF ReqInv
<1>8. req' \in [Requests -> States] /\ \A p \in Requests \ {r} : req'[p] = req[p]
  <2>1. at \in Ats
    BY DEF Ats
  <2>2. QED
    BY <1>1, <1>2, <2>1, Moves, MovesType
<1>9. QED
  BY <1>2, <1>7, <1>8, OneRequest

\* Who logs in is found on the replica.
LEMMA LoginStep ==
  ASSUME UsersInv, NEW r \in Requests, Login(r)
  PROVE  UsersInv'
<1> DEFINE ask == req[r].ask
<1>1. TypeOK /\ AskFits(r) /\ req[r].at = "login"
  BY DEF UsersInv, ReqInv, Login
<1>2. UNCHANGED <<history, applied, asked, reverted>>
  BY DEF Login
<1>3. CASE Replica[ask.name] = None
  <2>1. Goto(r, "500")
    BY <1>3 DEF Login
  <2>2. QED
    BY <1>1, <1>2, <2>1, Fails
<1>4. CASE Replica[ask.name] # None
  <2>1. Goto(r, "find")
    BY <1>4 DEF Login
  <2>2. req'[r].at = "find" /\ req'[r].ask = ask
    BY <1>1, <2>1, Moves
  <2>3. ReqInv(r)'
    <3>1. AskFits(r)'
      BY <1>1, <2>2 DEF AskFits
    <3>2. RowFound(r)'
      BY <1>2, <1>4, <2>2 DEF RowFound, Replica
    <3>3. OwnerKept(r)' /\ ConflictReal(r)'
      BY <2>2 DEF OwnerKept, ConflictReal
    <3>4. QED
      BY <3>1, <3>2, <3>3 DEF ReqInv
  <2>4. req' \in [Requests -> States] /\ \A p \in Requests \ {r} : req'[p] = req[p]
    BY <1>1, <2>1, Moves, MovesType DEF Ats
  <2>5. QED
    BY <1>2, <2>3, <2>4, OneRequest
<1>5. QED
  BY <1>3, <1>4

\* The row that is found is the replica's, and a user.
LEMMA FindStep ==
  ASSUME UsersInv, NEW r \in Requests, Find(r)
  PROVE  UsersInv'
<1> DEFINE ask == req[r].ask
           found == Replica[ask.name]
           at == IF ask.email \in {Omitted, found.email} THEN "save" ELSE "email"
<1>1. /\ TypeOK /\ AskFits(r) /\ RowFound(r) /\ req[r].at = "find"
      /\ req[r] \in States /\ req \in [Requests -> States]
  BY Types DEF UsersInv, ReqInv, Find, TypeOK
<1>2. UNCHANGED <<history, applied, asked, reverted>>
  BY DEF Find
<1>3. ask \in Asks /\ ask.op = "update" /\ ask.name \in Names
  BY <1>1 DEF AskFits, Asks
<1>4. found # None /\ found \in Rows
  <2>1. Replica \in Tables
    BY <1>1, Types
  <2>2. QED
    BY <1>1, <1>3, <2>1, RowType DEF RowFound
<1>5. req' = [req EXCEPT ![r].row = found, ![r].read = applied, ![r].at = at]
  BY DEF Find
<1> HIDE DEF at, found
<1>6. req'[r] = [req[r] EXCEPT !.row = found, !.read = applied, !.at = at]
  BY <1>1, <1>5
<1>7. /\ req'[r].at = at /\ req'[r].row = found
      /\ req'[r].read = applied /\ req'[r].ask = ask
  BY <1>1, <1>6 DEF States
<1>8. at \in {"save", "email"} /\ (at = "email" => ask.email \notin {Omitted, found.email})
  BY DEF at
<1>9. applied \in 1..Len(history) /\ applied \in 1..applied /\ applied \in Nat
  BY <1>1, Types
<1>10. req'[r] \in States
  BY <1>1, <1>4, <1>6, <1>8, <1>9 DEF States
<1>11. \A p \in Requests \ {r} : req'[p] = req[p]
  BY <1>1, <1>5
<1>12. req' \in [Requests -> States]
  BY <1>1, <1>5, <1>10, <1>11
<1>13. ReqInv(r)'
  <2>1. AskFits(r)'
    BY <1>3, <1>7, <1>8 DEF AskFits
  <2>2. RowFound(r)'
    <3>1. found = history[applied][ask.name]
      BY DEF found, Replica
    <3>2. QED
      BY <1>2, <1>4, <1>7, <1>8, <1>9, <3>1 DEF RowFound
  <2>3. OwnerKept(r)' /\ ConflictReal(r)'
    BY <1>7, <1>8 DEF OwnerKept, ConflictReal
  <2>4. QED
    BY <2>1, <2>2, <2>3 DEF ReqInv
<1>14. QED
  BY <1>2, <1>11, <1>12, <1>13, OneRequest

-----------------------------------------------------------------------------
(* Replication *)

\* The replica keeps every row it has, and what a request has read stays read.
LEMMA ReplicateStep ==
  ASSUME UsersInv, Replicate
  PROVE  UsersInv'
<1>1. /\ TypeOK /\ Owned /\ applied \in 1..Len(history) /\ Len(history) \in Nat
      /\ applied' = applied + 1 /\ applied' \in 1..Len(history)
      /\ UNCHANGED <<history, req, asked, reverted>>
  BY Types DEF UsersInv, Replicate
<1>2. TypeOK'
  BY <1>1 DEF TypeOK
<1>3. ASSUME NEW r \in Requests PROVE ReqInv(r)'
  <2>1. ReqInv(r) /\ req'[r] = req[r] /\ req[r] \in States
    BY <1>1, Types DEF UsersInv
  <2>2. AskFits(r)' /\ OwnerKept(r)' /\ ConflictReal(r)'
    BY <1>1, <2>1 DEF ReqInv, AskFits, OwnerKept, ConflictReal, Primary
  <2>3. ASSUME req[r].at = "find" PROVE Replica'[req[r].ask.name] # None
    <3>1. history[applied][req[r].ask.name] # None /\ req[r].ask.name \in Names
      BY <2>1, <2>3 DEF ReqInv, RowFound, AskFits, Asks, Replica
    <3>2. applied + 1 \in applied..Len(history)
      BY <1>1
    <3>3. QED
      BY <1>1, <3>1, <3>2 DEF Owned, Replica
  <2>4. RowFound(r)'
    BY <1>1, <2>1, <2>3 DEF ReqInv, RowFound
  <2>5. QED
    BY <2>2, <2>4 DEF ReqInv
<1>4. Owned' /\ EmailKeptUnlessReverted'
  BY <1>1 DEF UsersInv, Owned, EmailKeptUnlessReverted, Primary
<1>5. QED
  BY <1>2, <1>3, <1>4 DEF UsersInv

-----------------------------------------------------------------------------
(* Steps that write *)

\* A write of a user's row under its present owner, if it has one, leaves all that
\* was there before, and the requests that stay, as they were.
LEMMA Grows ==
  ASSUME UsersInv, NEW name \in Names, NEW row \in Rows, Write(name, row),
         applied' = applied, Primary[name] # None => row.by = Primary[name].by
  PROVE  /\ history' \in Seq(Tables) /\ applied' \in 1..Len(history')
         /\ Primary' = [Primary EXCEPT ![name] = row]
         /\ Owned'
         /\ \A p \in Requests : req'[p] = req[p] => ReqInv(p)'
<1>1. /\ TypeOK /\ Owned /\ history \in Seq(Tables)
      /\ applied \in 1..Len(history) /\ Len(history) \in Nat
      /\ Primary \in Tables /\ DOMAIN history = 1..Len(history)
  BY Types DEF UsersInv, TypeOK
<1> DEFINE new == [Primary EXCEPT ![name] = row]
           len == Len(history)
<1>2. new \in Tables
  BY <1>1 DEF Tables
<1>3. history' = Append(history, new)
  BY DEF Write
<1>4. new[name] = row /\ \A n \in Names \ {name} : new[n] = Primary[n]
  BY <1>1 DEF Tables
<1> HIDE DEF new
<1>5. /\ history' \in Seq(Tables) /\ Len(history') = len + 1
      /\ history'[len + 1] = new
      /\ \A k \in 1..len : history'[k] = history[k]
      /\ DOMAIN history' = 1..len + 1
  BY <1>1, <1>2, <1>3
<1>6. Primary' = new
  BY <1>5 DEF Primary
<1>7. Owned'
  <2> SUFFICES ASSUME NEW k \in 1..len + 1, NEW l \in k..len + 1, NEW n \in Names,
                      history'[k][n] # None
               PROVE  /\ history'[l][n] # None
                      /\ history'[l][n].by = history'[k][n].by
    BY <1>5 DEF Owned
  <2>1. CASE l <= len
    BY <1>1, <1>5, <2>1 DEF Owned
  <2>2. CASE k = len + 1
    BY <1>1, <2>2
  <2>3. CASE k <= len /\ l = len + 1
    <3>1. k \in 1..len /\ history'[k] = history[k] /\ history[k][n] # None
      BY <1>1, <1>5, <2>3
    <3>2. Primary[n] # None /\ Primary[n].by = history[k][n].by
      BY <1>1, <3>1, OnPrimary
    <3>3. new[n] # None /\ new[n].by = Primary[n].by
      BY <1>4, <3>2, AbsentAssumption
    <3>4. QED
      BY <1>5, <2>3, <3>1, <3>2, <3>3
  <2>4. QED
    BY <1>1, <2>1, <2>2, <2>3
<1>8. Replica' = Replica
  BY <1>1, <1>5 DEF Replica
<1>9. ASSUME NEW p \in Requests, req'[p] = req[p] PROVE ReqInv(p)'
  <2>1. ReqInv(p) /\ req[p] \in States
    BY <1>1, Types DEF UsersInv
  <2>2. AskFits(p)'
    BY <1>9, <2>1 DEF ReqInv, AskFits
  <2>3. RowFound(p)'
    <3>1. \A k \in 1..applied : history'[k] = history[k]
      BY <1>1, <1>5
    <3>2. QED
      BY <1>8, <1>9, <2>1, <3>1 DEF ReqInv, RowFound
  <2>4. OwnerKept(p)'
    <3> SUFFICES ASSUME req[p].at = "200", req[p].ask.op = "register"
                 PROVE  /\ new[req[p].ask.name] # None
                        /\ new[req[p].ask.name].by = p
      BY <1>6, <1>9 DEF OwnerKept
    <3>1. /\ Primary[req[p].ask.name] # None /\ Primary[req[p].ask.name].by = p
          /\ req[p].ask.name \in Names
      BY <2>1 DEF ReqInv, OwnerKept, AskFits, Asks
    <3>2. QED
      BY <1>4, <3>1, AbsentAssumption
  <2>5. ConflictReal(p)'
    <3> SUFFICES ASSUME req[p].at = "409"
                 PROVE  ConflictReal(p)'
      BY <1>9 DEF ConflictReal
    <3> DEFINE ask == req[p].ask
               other(k) == HasEmail(history[k], ask.email) \ {ask.name} # {}
               own(k) == ask.name \in HasEmail(history[k], ask.email)
    <3>1. ask.name \in Names
      BY <2>1 DEF ReqInv, AskFits, Asks
    <3>2. CASE \E k \in DOMAIN history : other(k)
      <4>1. PICK k \in 1..len : other(k)
        BY <1>1, <3>2
      <4>2. k \in DOMAIN history' /\ history'[k] = history[k]
        BY <1>1, <1>5
      <4>3. HasEmail(history'[k], ask.email) \ {ask.name} # {}
        BY <4>1, <4>2
      <4>4. QED
        BY <1>9, <4>2, <4>3 DEF ConflictReal, HasEmail
    <3>3. CASE ask.op = "register" /\ Primary[ask.name] # None
      <4>1. Primary'[ask.name] # None
        BY <1>4, <1>6, <3>1, <3>3, AbsentAssumption
      <4>2. QED
        BY <1>9, <3>3, <4>1 DEF ConflictReal
    <3>4. CASE \E k \in req[p].read + 1 .. len : own(k)
      <4>1. PICK k \in req[p].read + 1 .. len : own(k)
        BY <3>4
      <4>2. req[p].read \in Nat
        BY <2>1 DEF States
      <4>3. /\ k \in req[p].read + 1 .. Len(history') /\ k \in 1..len
            /\ history'[k] = history[k]
        BY <1>1, <1>5, <4>2
      <4>4. ask.name \in HasEmail(history'[k], ask.email)
        BY <4>1, <4>3
      <4>5. QED
        BY <1>9, <4>3, <4>4 DEF ConflictReal, HasEmail
    <3>5. QED
      BY <2>1, <3>2, <3>3, <3>4 DEF ReqInv, ConflictReal
  <2>6. QED
    BY <2>2, <2>3, <2>4, <2>5 DEF ReqInv
<1>10. QED
  BY <1>1, <1>5, <1>6, <1>7, <1>9 DEF new

\* A registration inserts a row under a name that has none.
LEMMA CreateStep ==
  ASSUME UsersInv, NEW r \in Requests, Create(r)
  PROVE  UsersInv'
<1> DEFINE ask == req[r].ask
           row == [email |-> ask.email, by |-> r]
<1>1. /\ TypeOK /\ AskFits(r) /\ req[r].at = "create" /\ Primary \in Tables
      /\ asked \in [Names -> Emails \union {Omitted}]
      /\ EmailKeptUnlessReverted
  BY Types DEF UsersInv, ReqInv, Create, TypeOK
<1>2. ask \in Asks /\ ask.op = "register" /\ ask.name \in Names /\ ask.email \in Emails
  BY <1>1 DEF AskFits, Asks
<1>3. row \in Rows
  BY <1>2 DEF Rows
<1>4. PICK at \in {"200", "500"} : Goto(r, at)
  BY DEF Create
<1>5. /\ Write(ask.name, row) /\ Primary[ask.name] = None
      /\ asked' = [asked EXCEPT ![ask.name] = ask.email]
      /\ UNCHANGED <<applied, reverted>>
  BY DEF Create
<1> HIDE DEF row
<1>6. /\ history' \in Seq(Tables) /\ applied' \in 1..Len(history')
      /\ Primary' = [Primary EXCEPT ![ask.name] = row] /\ Owned'
      /\ \A p \in Requests : req'[p] = req[p] => ReqInv(p)'
  BY <1>2, <1>3, <1>5, Grows
<1>7. /\ req'[r].at = at /\ req'[r].ask = ask
      /\ \A p \in Requests \ {r} : req'[p] = req[p]
  BY <1>1, <1>4, Moves
<1>8. req' \in [Requests -> States]
  BY <1>1, <1>4, MovesType DEF Ats
<1>9. asked' \in [Names -> Emails \union {Omitted}]
  BY <1>1, <1>2, <1>5
<1>10. TypeOK'
  BY <1>1, <1>5, <1>6, <1>8, <1>9 DEF TypeOK
<1>11. Primary'[ask.name] = row /\ row # None /\ row.email = ask.email /\ row.by = r
  BY <1>1, <1>2, <1>3, <1>6, AbsentAssumption DEF row, Tables
<1>12. ReqInv(r)'
  <2>1. AskFits(r)' /\ RowFound(r)' /\ ConflictReal(r)'
    BY <1>2, <1>4, <1>7 DEF AskFits, RowFound, ConflictReal
  <2>2. OwnerKept(r)'
    BY <1>7, <1>11 DEF OwnerKept
  <2>3. QED
    BY <2>1, <2>2 DEF ReqInv
<1>13. EmailKeptUnlessReverted'
  <2> SUFFICES ASSUME NEW n \in Names \ reverted, Primary'[n] # None
               PROVE  Primary'[n].email = asked'[n]
    BY <1>5 DEF EmailKeptUnlessReverted
  <2>1. CASE n = ask.name
    BY <1>1, <1>2, <1>5, <1>11, <2>1
  <2>2. CASE n # ask.name
    <3>1. Primary'[n] = Primary[n] /\ asked'[n] = asked[n]
      BY <1>1, <1>5, <1>6, <2>2 DEF Tables
    <3>2. QED
      BY <1>1, <3>1 DEF EmailKeptUnlessReverted
  <2>3. QED
    BY <2>1, <2>2
<1>14. QED
  BY <1>6, <1>7, <1>10, <1>12, <1>13 DEF UsersInv

\* An update saves a row of the account that has been read, with the owner it has
\* always had; its email is the one asked for, or that of the present row, or else
\* the account counts as reverted.
LEMMA SaveStep ==
  ASSUME UsersInv, NEW r \in Requests, Save(r)
  PROVE  UsersInv'
<1> DEFINE ask == req[r].ask
           old == req[r].row
           row == [old EXCEPT !.email = NewEmail(r)]
<1>1. /\ TypeOK /\ AskFits(r) /\ RowFound(r) /\ Owned /\ req[r].at = "save"
      /\ Primary \in Tables /\ applied \in 1..Len(history) /\ Len(history) \in Nat
      /\ asked \in [Names -> Emails \union {Omitted}] /\ reverted \subseteq Names
      /\ EmailKeptUnlessReverted
  BY Types DEF UsersInv, ReqInv, Save, TypeOK
<1>2. /\ ask \in Asks /\ ask.op = "update" /\ ask.name \in Names
      /\ ask.email \in Emails \union {Omitted}
  BY <1>1 DEF AskFits, Asks
<1>3. req[r].read \in 1..Len(history) /\ old = history[req[r].read][ask.name] /\ old # None
  BY <1>1, <1>2 DEF RowFound
<1>4. old \in Rows /\ old.email \in Emails
  <2>1. history[req[r].read] \in Tables
    BY <1>1, <1>3, Types
  <2>2. QED
    BY <1>2, <1>3, <2>1, RowType
<1>5. Primary[ask.name] # None /\ Primary[ask.name].by = old.by
  BY <1>1, <1>2, <1>3, OnPrimary
<1>6. NewEmail(r) = (IF ask.email = Omitted THEN old.email ELSE ask.email)
  BY DEF NewEmail
<1>7. NewEmail(r) \in Emails
  BY <1>2, <1>4, <1>6
<1>8. row \in Rows /\ row.by = old.by /\ row.email = NewEmail(r)
  BY <1>4, <1>7 DEF Rows
<1>9. PICK at \in {"200", "500"} : Goto(r, at)
  BY DEF Save
<1>10. /\ Write(ask.name, row) /\ applied' = applied
       /\ asked' = IF ask.email = Omitted THEN asked
                   ELSE [asked EXCEPT ![ask.name] = ask.email]
       /\ reverted' = IF ask.email = Omitted /\ old # Primary[ask.name]
                      THEN reverted \union {ask.name} ELSE reverted
  BY DEF Save
<1> HIDE DEF row
<1>11. /\ history' \in Seq(Tables) /\ applied' \in 1..Len(history')
       /\ Primary' = [Primary EXCEPT ![ask.name] = row] /\ Owned'
       /\ \A p \in Requests : req'[p] = req[p] => ReqInv(p)'
  BY <1>2, <1>5, <1>8, <1>10, Grows
<1>12. /\ req'[r].at = at /\ req'[r].ask = ask
       /\ \A p \in Requests \ {r} : req'[p] = req[p]
  BY <1>1, <1>9, Moves
<1>13. req' \in [Requests -> States]
  BY <1>1, <1>9, MovesType DEF Ats
<1>14. asked' \in [Names -> Emails \union {Omitted}] /\ reverted' \subseteq Names
  BY <1>1, <1>2, <1>10
<1>15. TypeOK'
  BY <1>11, <1>13, <1>14 DEF TypeOK
<1>16. ReqInv(r)'
  BY <1>2, <1>9, <1>12 DEF ReqInv, AskFits, RowFound, OwnerKept, ConflictReal
<1>17. EmailKeptUnlessReverted'
  <2> SUFFICES ASSUME NEW n \in Names \ reverted', Primary'[n] # None
               PROVE  Primary'[n].email = asked'[n]
    BY DEF EmailKeptUnlessReverted
  <2>1. n \in Names /\ n \notin reverted
    BY <1>10
  <2>2. CASE n # ask.name
    <3>1. Primary'[n] = Primary[n] /\ asked'[n] = asked[n]
      BY <1>1, <1>10, <1>11, <2>1, <2>2 DEF Tables
    <3>2. QED
      BY <1>1, <2>1, <3>1 DEF EmailKeptUnlessReverted
  <2>3. CASE n = ask.name
    <3>1. Primary'[n] = row
      BY <1>1, <1>11, <2>1, <2>3 DEF Tables
    <3>2. CASE ask.email # Omitted
      BY <1>1, <1>6, <1>8, <1>10, <2>1, <2>3, <3>1, <3>2
    <3>3. CASE ask.email = Omitted
      <4>1. old = Primary[n]
        BY <1>10, <2>3, <3>3
      <4>2. asked[n] = old.email
        BY <1>1, <1>5, <2>1, <2>3, <4>1 DEF EmailKeptUnlessReverted
      <4>3. QED
        BY <1>6, <1>8, <1>10, <3>1, <3>3, <4>2
    <3>4. QED
      BY <3>2, <3>3
  <2>4. QED
    BY <2>2, <2>3
<1>18. QED
  BY <1>11, <1>12, <1>15, <1>16, <1>17 DEF UsersInv

-----------------------------------------------------------------------------
(* Theorems *)

LEMMA InvInit == Init => UsersInv
<1> SUFFICES ASSUME Init PROVE UsersInv
  OBVIOUS
<1> DEFINE empty == [n \in Names |-> None]
           new == [at |-> "new", ask |-> None, row |-> None, read |-> 0]
<1>1. empty \in Tables
  BY DEF Tables
<1>2. history = <<empty>> /\ applied = 1 /\ req = [r \in Requests |-> new]
      /\ asked = [n \in Names |-> Omitted] /\ reverted = {}
  BY DEF Init
<1>3. new \in States
  BY DEF States
<1> HIDE DEF empty, new
<1>4. history \in Seq(Tables) /\ Len(history) = 1 /\ history[1] = empty
  BY <1>1, <1>2
<1>5. TypeOK
  BY <1>2, <1>3, <1>4 DEF TypeOK
<1>6. Owned /\ EmailKeptUnlessReverted
  BY <1>4 DEF Owned, EmailKeptUnlessReverted, Primary, empty
<1>7. \A r \in Requests : ReqInv(r)
  BY <1>2 DEF ReqInv, AskFits, RowFound, OwnerKept, ConflictReal, new
<1>8. QED
  BY <1>5, <1>6, <1>7 DEF UsersInv

LEMMA InvStep == UsersInv /\ [Next]_vars => UsersInv'
<1> SUFFICES ASSUME UsersInv, [Next]_vars PROVE UsersInv'
  OBVIOUS
<1>1. CASE Replicate
  BY <1>1, ReplicateStep
<1>2. ASSUME NEW r \in Requests, Arrive(r) PROVE UsersInv'
  BY <1>2, ArriveStep
<1>3. ASSUME NEW r \in Requests, Register(r) PROVE UsersInv'
  <2>1. CASE CreateFails(r)
    BY <2>1, Fails DEF CreateFails
  <2>2. QED
    BY <1>3, <2>1, CheckNameStep, CheckEmailStep, CreateStep DEF Register
<1>4. ASSUME NEW r \in Requests, UpdateProfile(r) PROVE UsersInv'
  <2>1. CASE SaveFails(r)
    BY <2>1, Fails DEF SaveFails
  <2>2. QED
    BY <1>4, <2>1, LoginStep, FindStep, SaveStep DEF UpdateProfile
<1>5. CASE UNCHANGED vars
  BY <1>5 DEF vars, UsersInv, TypeOK, ReqInv, AskFits, RowFound, OwnerKept,
              ConflictReal, Owned, EmailKeptUnlessReverted, Primary, Replica
<1>6. QED
  BY <1>1, <1>2, <1>3, <1>4, <1>5 DEF Next

\* The invariant holds in every state, for any names, emails and requests.
THEOREM UsersInvariant == Spec => []UsersInv
<1>1. QED
  BY InvInit, InvStep, PTL DEF Spec

\* The rows of the users table and the requests keep their types; in particular no
\* update saves a row that was not found.
THEOREM UsersTypeCorrect == Spec => []TypeOK
<1>1. UsersInv => TypeOK
  BY DEF UsersInv
<1>2. QED
  BY <1>1, UsersInvariant, PTL

\* Of the registrations and updates that race for an account (Register and
\* UpdateProfile check on a replica), none takes it from its owner.
THEOREM OwnersAreKept == Spec => []AccountKept
<1>1. UsersInv => AccountKept
  BY DEF UsersInv, ReqInv, OwnerKept, AccountKept
<1>2. QED
  BY <1>1, UsersInvariant, PTL

\* An email is lost only to an UpdateProfile without one that saves an old row.
THEOREM EmailsAreKept == Spec => []EmailKeptUnlessReverted
<1>1. UsersInv => EmailKeptUnlessReverted
  BY DEF UsersInv
<1>2. QED
  BY <1>1, UsersInvariant, PTL

\* ErrUserExists and ErrEmailExists are never answered without a reason, however far
\* the replica they are looked up on is behind.
THEOREM ConflictsAreReal == Spec => []ConflictIsReal
<1>1. UsersInv => ConflictIsReal
  BY DEF UsersInv, ReqInv, ConflictReal, ConflictIsReal
<1>2. QED
  BY <1>1, UsersInvariant, PTL
=============================================================================
