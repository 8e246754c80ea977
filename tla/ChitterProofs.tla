---------------------------- MODULE ChitterProofs ---------------------------
(***************************************************************************)
(* The proof that Chitter.tla implements ChitterSpec.tla, for any          *)
(* programs, calls, databases and configurations: what a call of several   *)
(* transactions sees in one of them still holds in the next as far as it   *)
(* relies on it, because no function of the library deletes a user or a    *)
(* server. Where it does not, because somebody else has added a row, the   *)
(* insert throws.                                                          *)
(*                                                                         *)
(* At the end, what a program that starts makes of its configuration:      *)
(* loadDbConfig and libpq read it by folding over it, and the library has  *)
(* no theorem about folds that can be cited, so each fold is first taken   *)
(* apart into its steps (FoldExists), by induction over a set of numbers.  *)
(*                                                                         *)
(* The modules have assumptions about their instances that are needed      *)
(* here: a database has all its tables, a call is of a function that there *)
(* is, a document that can be loaded has children with texts, and what     *)
(* stands for an exception or for no node is nothing else as well.         *)
(***************************************************************************)
EXTENDS Chitter, SequenceTheorems, FiniteSetTheorems, TLAPS
Queue == INSTANCE QueueLemmas

-----------------------------------------------------------------------------
(* The invariant.                                                          *)

(* A database has all its tables, and a row of Users or none for every     *)
(* name.                                                                   *)
Database(d) == DOMAIN d = Relations /\ d.users \in [Users -> UserRows \cup {NULL}]

(* The types. Not every set that values are of is known, so some variables *)
(* are only said to be functions of the programs.                          *)
TypeOK ==
  /\ Database(db) /\ clock \in Nat
  /\ call = [p \in Programs |-> call[p]] /\ value = [p \in Programs |-> value[p]]
  /\ since \in [Programs -> Nat] /\ missing \in [Programs -> BOOLEAN]
  /\ DOMAIN at = Programs /\ DOMAIN stamp = Programs

(* A program is in a transaction, or on its way to one, only for a call    *)
(* that it may make; between calls nothing is noted of the last one.       *)
CallOK(p) ==
  /\ call[p] \in Calls[p] \cup {NoCall}
  /\ call[p] = NoCall => at[p] \notin InTransaction /\ since[p] = 0 /\ missing[p] = FALSE
  /\ call[p] # NoCall => at[p] \notin {"off", "idle"}

(* A program is only in transactions of the function it has called. *)
AtIts(p) ==
  /\ at[p] = "statement" => call[p].f \in Statements
  /\ at[p] \in {"checkUser", "verifyUser", "insertUser"} => call[p].f = "handleUser"
  /\ at[p] \in {"checkServer", "insertServer"} => call[p].f = "handleServer"
  /\ at[p] \in {"datetime", "insert"} => call[p].f \in Stamped \cup {"handleServer"}

(* The call was made before now, and the time it has fetched is of between *)
(* then and now.                                                           *)
InTime(p) == since[p] <= clock /\ (at[p] = "insert" => stamp[p] \in since[p]..clock)

(* What a call has seen of the database in one transaction and relies on   *)
(* in the next: a row that is there when the call is made stays,           *)
(* verifyPassword reads the row that checkUserExists has found, an insert  *)
(* is tried only of a row that was missing, and insertServerMetadata       *)
(* refers to a server that is there.                                       *)
RowsOK(p) ==
  /\ call[p] # NoCall /\ ~missing[p] => ~Atomic!RowMissing(call[p])
  /\ at[p] = "verifyUser" => UserExists(db, call[p].user)
  /\ at[p] \in {"insertUser", "insertServer"} => missing[p]
  /\ at[p] \in {"datetime", "insert"} /\ call[p].f = "handleServer" =>
       ServerExists(db, call[p].server)

(* All of that, of one program. *)
PInv(p) == CallOK(p) /\ AtIts(p) /\ InTime(p) /\ RowsOK(p)

(* The inductive invariant. CallsAreAtomic needs of it how what was seen   *)
(* in one transaction and what is there in the next are related.           *)
IInv == TypeOK /\ \A p \in Programs : PInv(p)

-----------------------------------------------------------------------------
(* What a transaction leaves in place.                                     *)

(* No statement takes a user or a server away, or a table out of the       *)
(* database.                                                               *)
Keeps(d, e) ==
  /\ Database(e)
  /\ \A u \in Users : UserExists(d, u) => UserExists(e, u)
  /\ \A s : ServerExists(d, s) => ServerExists(e, s)

(* What changes nothing, takes nothing away. *)
LEMMA KeptAll ==
  ASSUME NEW d, Database(d)
  PROVE  Keeps(d, d)
  BY DEF Keeps

(* An UPDATE of a user leaves a row of a user. *)
LEMMA RowChanged ==
  ASSUME NEW row \in UserRows, NEW w \in Texts
  PROVE  /\ [row EXCEPT !.password = w] \in UserRows
         /\ [row EXCEPT !.bio = w] \in UserRows
  BY DEF UserRows

(* Writing a row of Users takes nothing away. *)
LEMMA RowKept ==
  ASSUME NEW d, Database(d), NEW u \in Users, NEW row \in UserRows
  PROVE  Keeps(d, [d EXCEPT !.users[u] = row])
<1> PICK e : e = [d EXCEPT !.users[u] = row] OBVIOUS
<1>1. DOMAIN e = DOMAIN d /\ e.users = [d.users EXCEPT ![u] = row] /\ e.servers = d.servers
  BY DEF Database, Relations
<1>2. Database(e) BY <1>1 DEF Database
<1>3. \A v \in Users : UserExists(d, v) => UserExists(e, v)
  BY <1>1, NoValueAssumption DEF Database, UserExists
<1> QED BY <1>1, <1>2, <1>3 DEF Keeps, ServerExists

(* Neither does a change in any of the tables that hold no users and no    *)
(* servers.                                                                *)
LEMMA OtherTableKept ==
  ASSUME NEW d, Database(d), NEW r \in Relations \ {"users", "servers"}, NEW x
  PROVE  Keeps(d, [d EXCEPT ![r] = x])
<1> PICK e : e = [d EXCEPT ![r] = x] OBVIOUS
<1>1. DOMAIN e = DOMAIN d /\ e.users = d.users /\ e.servers = d.servers
  BY DEF Database, Relations
<1> QED BY <1>1 DEF Keeps, Database, UserExists, ServerExists

(* A server that is added is there, with all that was there before. *)
LEMMA ServerAdded ==
  ASSUME NEW d, Database(d), NEW s
  PROVE  /\ Keeps(d, [d EXCEPT !.servers = @ \cup {s}])
         /\ ServerExists([d EXCEPT !.servers = @ \cup {s}], s)
<1> PICK e : e = [d EXCEPT !.servers = @ \cup {s}] OBVIOUS
<1>1. DOMAIN e = DOMAIN d /\ e.users = d.users /\ e.servers = d.servers \cup {s}
  BY DEF Database, Relations
<1> QED BY <1>1 DEF Keeps, Database, UserExists, ServerExists

(* An INSERT takes nothing away if the row that it adds does not. *)
LEMMA InsertKeeps ==
  ASSUME NEW d, NEW e, Keeps(d, d), Keeps(d, e), NEW allowed
  PROVE  Keeps(d, Insert(allowed, d, e).db)
  BY DEF Insert, Gives, Fails

(* The two functions that insert a role. *)
LEMMA RolesKept ==
  ASSUME NEW d, Database(d), NEW u, NEW ch, NEW s, NEW status, NEW name
  PROVE  /\ Keeps(d, InsertServerRoles(d, u, s, status, name).db)
         /\ Keeps(d, InsertChannelRoles(d, u, ch, s, status).db)
<1>1. \A r \in {"serverRoles", "channelRoles"} : \A x : Keeps(d, [d EXCEPT ![r] = x])
  BY OtherTableKept DEF Relations
<1>2. \A x : Keeps(d, [d EXCEPT !.serverRoles = x]) BY <1>1
<1>3. \A x : Keeps(d, [d EXCEPT !.channelRoles = x]) BY <1>1
<1>4. Keeps(d, InsertServerRoles(d, u, s, status, name).db)
  BY <1>2, KeptAll, InsertKeeps, Zenon DEF InsertServerRoles
<1>5. Keeps(d, InsertChannelRoles(d, u, ch, s, status).db)
  BY <1>3, KeptAll, InsertKeeps, Zenon DEF InsertChannelRoles
<1> QED BY <1>4, <1>5

(* The functions that write to the table of users. *)
ChangesUsers == {"insertUser", "updatePassword", "updateBio", "handleUser"}

(* insertUser throws, and changes nothing, exactly if the user is there. *)
LEMMA InsertUserKeeps ==
  ASSUME NEW d, Database(d), NEW u \in Users, NEW w \in Texts
  PROVE  /\ Keeps(d, InsertUser(d, u, w).db)
         /\ InsertUser(d, u, w).value = IF UserExists(d, u) THEN Threw ELSE "done"
         /\ UserExists(d, u) => InsertUser(d, u, w).db = d
<1>1. [password |-> w, bio |-> NULL] \in UserRows BY DEF UserRows
<1> QED BY <1>1, RowKept, KeptAll DEF InsertUser, Insert, Gives, Fails

(* insertServer throws, and changes nothing, exactly if the server is      *)
(* there; afterwards it is there in any case.                              *)
LEMMA InsertServerKeeps ==
  ASSUME NEW d, Database(d), NEW s
  PROVE  /\ Keeps(d, InsertServer(d, s).db)
         /\ ServerExists(InsertServer(d, s).db, s)
         /\ InsertServer(d, s).value = IF ServerExists(d, s) THEN Threw ELSE "done"
         /\ ServerExists(d, s) => InsertServer(d, s).db = d
  BY ServerAdded, KeptAll DEF InsertServer, Insert, Gives, Fails

(* No function of one transaction takes a user or a server away. *)
LEMMA StatementKeeps ==
  ASSUME NEW d, Database(d), NEW k, k.f \in Statements,
         k.f \in ChangesUsers => k.user \in Users /\ k.text \in Texts
  PROVE  Keeps(d, Statement(d, k).db)
<1> USE DEF Insert, Gives, Fails, FirstRow
<1>1. CASE k.f = "checkUserExists" BY <1>1, KeptAll DEF Statement, CheckUserExists
<1>2. CASE k.f = "verifyPassword"
  <2>1. Statement(d, k) = VerifyPassword(d, k.user, k.text) BY <1>2 DEF Statement
  <2>2. VerifyPassword(d, k.user, k.text).db = d BY DEF VerifyPassword
  <2> QED BY <2>1, <2>2, KeptAll
<1>3. CASE k.f = "updatePassword"
  <2>1. Statement(d, k) = UpdatePassword(d, k.user, k.text) BY <1>3 DEF Statement
  <2>2. CASE UserExists(d, k.user)
    <3>1. d.users[k.user] \in UserRows BY <1>3, <2>2 DEF ChangesUsers, Database, UserExists
    <3>2. [d.users[k.user] EXCEPT !.password = k.text] \in UserRows
      BY <1>3, <3>1, RowChanged DEF ChangesUsers
    <3>3. Keeps(d, [d EXCEPT !.users[k.user] = [d.users[k.user] EXCEPT !.password = k.text]])
      BY <1>3, <3>2, RowKept DEF ChangesUsers
    <3> QED BY <2>1, <2>2, <3>3 DEF UpdatePassword
  <2> QED BY <2>1, <2>2, KeptAll DEF UpdatePassword
<1>4. CASE k.f = "insertUser" BY <1>4, InsertUserKeeps DEF Statement, ChangesUsers
<1>5. CASE k.f = "getBio" BY <1>5, KeptAll DEF Statement, GetBio
<1>6. CASE k.f = "updateBio"
  <2>1. Statement(d, k) = UpdateBio(d, k.user, k.text) BY <1>6 DEF Statement
  <2>2. CASE UserExists(d, k.user)
    <3>1. d.users[k.user] \in UserRows BY <1>6, <2>2 DEF ChangesUsers, Database, UserExists
    <3>2. [d.users[k.user] EXCEPT !.bio = k.text] \in UserRows
      BY <1>6, <3>1, RowChanged DEF ChangesUsers
    <3>3. Keeps(d, [d EXCEPT !.users[k.user] = [d.users[k.user] EXCEPT !.bio = k.text]])
      BY <1>6, <3>2, RowKept DEF ChangesUsers
    <3> QED BY <2>1, <2>2, <3>3 DEF UpdateBio
  <2> QED BY <2>1, <2>2, KeptAll DEF UpdateBio
<1>7. CASE k.f = "checkAlreadyFriends" BY <1>7, KeptAll DEF Statement, CheckAlreadyFriends
<1>8. CASE k.f = "fetchFriends" BY <1>8, KeptAll DEF Statement, FetchFriends
<1>9. CASE k.f = "checkServerExists" BY <1>9, KeptAll DEF Statement, CheckServerExists
<1>10. CASE k.f = "insertServer" BY <1>10, InsertServerKeeps DEF Statement
<1>11. CASE k.f = "getServerRoles" BY <1>11, KeptAll DEF Statement, GetServerRoles
<1>12. CASE k.f = "insertServerRoles"
  <2>1. Statement(d, k) = InsertServerRoles(d, k.user, k.server, k.status, k.text)
    BY <1>12 DEF Statement
  <2> QED BY <2>1, RolesKept
<1>13. CASE k.f = "checkChannelExists" BY <1>13, KeptAll DEF Statement, CheckChannelExists
<1>14. CASE k.f \in {"insertChannel", "updateChannelTopic"}
  <2>1. \/ Statement(d, k) = InsertChannel(d, k.channel, k.text, k.server)
        \/ Statement(d, k) = UpdateChannelTopic(d, k.channel, k.text, k.server)
    BY <1>14 DEF Statement
  <2>2. \A x : Keeps(d, [d EXCEPT !.channels = x]) BY OtherTableKept DEF Relations
  <2> QED BY <2>1, <2>2, KeptAll DEF InsertChannel, UpdateChannelTopic
<1>15. CASE k.f = "getChannelTopic" BY <1>15, KeptAll DEF Statement, GetChannelTopic
<1>16. CASE k.f = "getChannelRoles" BY <1>16, KeptAll DEF Statement, GetChannelRoles
<1>17. CASE k.f = "insertChannelRoles"
  <2>1. Statement(d, k) = InsertChannelRoles(d, k.user, k.channel, k.server, k.status)
    BY <1>17 DEF Statement
  <2> QED BY <2>1, RolesKept
<1> QED
  BY <1>1, <1>2, <1>3, <1>4, <1>5, <1>6, <1>7, <1>8, <1>9, <1>10, <1>11, <1>12, <1>13, <1>14,
     <1>15, <1>16, <1>17
  DEF Statements

(* Neither does the last transaction of those that insert a time. *)
LEMMA StampedKeeps ==
  ASSUME NEW d, Database(d), NEW k, k.f \in Stamped \cup {"handleServer"}, NEW t
  PROVE  Keeps(d, StampedInsert(d, k, t).db)
<1> USE DEF Insert, Gives, Fails
<1>1. CASE k.f = "insertLogin"
  <2>1. StampedInsert(d, k, t) = InsertLogin(d, k.user, t) BY <1>1 DEF StampedInsert
  <2>2. \A x : Keeps(d, [d EXCEPT !.logins = x]) BY OtherTableKept DEF Relations
  <2> QED BY <2>1, <2>2, KeptAll DEF InsertLogin
<1>2. CASE k.f = "insertFriend"
  <2>1. StampedInsert(d, k, t) = InsertFriend(d, k.user, k.friend, t) BY <1>2 DEF StampedInsert
  <2>2. \A x : Keeps(d, [d EXCEPT !.friends = x]) BY OtherTableKept DEF Relations
  <2> QED BY <2>1, <2>2, KeptAll DEF InsertFriend
<1>3. CASE k.f = "insertMsg"
  <2>1. StampedInsert(d, k, t) = InsertMsg(d, k.channel, k.user, k.text, k.server, t)
    BY <1>3 DEF StampedInsert
  <2>2. \A x : Keeps(d, [d EXCEPT !.msgs = x]) BY OtherTableKept DEF Relations
  <2> QED BY <2>1, <2>2, KeptAll DEF InsertMsg
<1>4. CASE k.f \in {"insertServerMetadata", "handleServer"}
  <2>1. StampedInsert(d, k, t) = InsertServerMetadata(d, k.server, t)
    BY <1>4 DEF StampedInsert
  <2>2. \A x : Keeps(d, [d EXCEPT !.instances = x]) BY OtherTableKept DEF Relations
  <2> QED BY <2>1, <2>2, KeptAll DEF InsertServerMetadata
<1> QED BY <1>1, <1>2, <1>3, <1>4 DEF Stamped

-----------------------------------------------------------------------------
(* The steps keep the invariant.                                           *)

(* The abstract specification misses the row that the model misses. *)
LEMMA RowMissingHere ==
  ASSUME NEW k
  PROVE  /\ Atomic!RowMissing(k) \in BOOLEAN
         /\ Atomic!RowMissing(k) <=>
              \/ (k.f = "handleUser" /\ ~UserExists(db, k.user))
              \/ (k.f = "handleServer" /\ ~ServerExists(db, k.server))
  BY DEF Atomic!RowMissing, Atomic!UserExists, Atomic!ServerExists, UserExists, ServerExists

(* Nothing that is noted of another program changes. *)
Others(p) ==
  \A q \in Programs \ {p} :
    /\ call'[q] = call[q] /\ since'[q] = since[q] /\ missing'[q] = missing[q]
    /\ at'[q] = at[q] /\ stamp'[q] = stamp[q]

(* The invariant holds after a step of one program if it holds of that     *)
(* program, and if nothing has been taken out of the database that the     *)
(* others may rely on.                                                     *)
LEMMA OneProgramMoves ==
  ASSUME IInv, NEW p \in Programs, Keeps(db, db'), TypeOK', clock' = clock, Others(p), PInv(p)'
  PROVE  IInv'
<1> SUFFICES ASSUME NEW q \in Programs \ {p} PROVE PInv(q)' BY DEF IInv
<1>1. /\ call'[q] = call[q] /\ since'[q] = since[q] /\ missing'[q] = missing[q]
      /\ at'[q] = at[q] /\ stamp'[q] = stamp[q]
  BY DEF Others
<1>2. PInv(q) BY DEF IInv
<1>3. CallOK(q)' BY <1>1, <1>2 DEF PInv, CallOK
<1>4. AtIts(q)' BY <1>1, <1>2 DEF PInv, AtIts
<1>5. InTime(q)' BY <1>1, <1>2 DEF PInv, InTime
<1>6. \A s : ServerExists(db, s) => ServerExists(db', s) BY DEF Keeps
<1>7. call[q] # NoCall /\ call[q].f = "handleUser" => call[q].user \in Users
  BY <1>2, CallsAssumption DEF PInv, CallOK
<1>8. call[q] # NoCall /\ call[q].f = "handleUser" /\ UserExists(db, call[q].user) =>
        UserExists(db', call[q].user)
  BY <1>7 DEF Keeps
<1>9. RowsOK(q)'
  <2>1. call'[q] # NoCall /\ ~missing'[q] => ~Atomic!RowMissing(call[q])'
    <3>1. Atomic!RowMissing(call[q])' <=>
            \/ (call'[q].f = "handleUser" /\ ~UserExists(db', call'[q].user))
            \/ (call'[q].f = "handleServer" /\ ~ServerExists(db', call'[q].server))
      BY DEF Atomic!RowMissing, Atomic!UserExists, Atomic!ServerExists, UserExists, ServerExists
    <3> QED BY <3>1, <1>1, <1>2, <1>6, <1>8, RowMissingHere DEF PInv, RowsOK
  <2>2. at'[q] = "verifyUser" => UserExists(db', call'[q].user)
    BY <1>1, <1>2, <1>8 DEF PInv, RowsOK, CallOK, AtIts, InTransaction
  <2> QED BY <2>1, <2>2, <1>1, <1>2, <1>6 DEF PInv, RowsOK
<1> QED BY <1>3, <1>4, <1>5, <1>9 DEF PInv

(* The invariant holds at first. *)
LEMMA InitIInv == Init => IInv
<1> SUFFICES ASSUME Init PROVE IInv OBVIOUS
<1>1. TypeOK BY DatabasesAssumption DEF Init, TypeOK, Database
<1>2. ASSUME NEW p \in Programs PROVE PInv(p)
  BY DEF Init, PInv, CallOK, AtIts, InTime, RowsOK, InTransaction
<1> QED BY <1>1, <1>2 DEF IInv

(* It holds after a call that has ended, in whatever way. *)
LEMMA EndsInv ==
  ASSUME IInv, NEW p \in Programs, NEW v, NEW where \in {"off", "idle"}, Ends(p, v, where),
         Keeps(db, db')
  PROVE  IInv'
<1>1. TypeOK' BY DEF IInv, TypeOK, Ends, Goto, Keeps
<1>2. Others(p) BY DEF IInv, TypeOK, Others, Ends, Goto
<1>3. /\ call'[p] = NoCall /\ since'[p] = 0 /\ missing'[p] = FALSE /\ at'[p] = where
      /\ clock' = clock
  BY DEF IInv, TypeOK, Ends, Goto
<1>4. PInv(p)'
  BY <1>3 DEF IInv, TypeOK, PInv, CallOK, AtIts, InTime, RowsOK, InTransaction
<1> QED BY <1>1, <1>2, <1>3, <1>4, OneProgramMoves

(* A call in progress is of a function that there is, with a user and a    *)
(* text if it writes to the table of users.                                *)
LEMMA CallIs ==
  ASSUME IInv, NEW p \in Programs, call[p] # NoCall
  PROVE  /\ call[p] \in Calls[p] /\ call[p].f \in Statements \cup Stamped \cup Composite
         /\ call[p].f \in ChangesUsers => call[p].user \in Users /\ call[p].text \in Texts
  BY CallsAssumption DEF IInv, PInv, CallOK, ChangesUsers

(* The first transaction of a call is one of its function. *)
LEMMA FirstFits ==
  ASSUME NEW k, k.f \in Statements \cup Stamped \cup Composite
  PROVE  /\ First(k) \in {"checkUser", "checkServer", "datetime", "statement"}
         /\ First(k) = "statement" => k.f \in Statements
         /\ First(k) = "checkUser" => k.f = "handleUser"
         /\ First(k) = "checkServer" => k.f = "handleServer"
         /\ First(k) = "datetime" => k.f \in Stamped
<1>1. CASE k.f = "handleUser" BY <1>1 DEF First
<1>2. CASE k.f = "handleServer" BY <1>2 DEF First
<1>3. CASE k.f \in Stamped BY <1>3 DEF First, Stamped
<1>4. CASE k.f \in Statements BY <1>4 DEF First, Stamped, Statements
<1> QED BY <1>1, <1>2, <1>3, <1>4 DEF Composite

(* It holds after a step from one transaction of a call to the next. *)
LEMMA MovesInv ==
  ASSUME IInv, NEW p \in Programs, NEW where, Goto(p, where), call[p] # NoCall,
         where \in InTransaction, UNCHANGED <<call, value, since, clock>>,
         Keeps(db, db'), missing' \in [Programs -> BOOLEAN],
         DOMAIN stamp' = Programs, Others(p), AtIts(p)', RowsOK(p)',
         where = "insert" => stamp'[p] \in since[p]..clock
  PROVE  IInv'
<1>1. TypeOK' BY DEF IInv, TypeOK, Goto, Keeps
<1>2. at'[p] = where BY DEF IInv, TypeOK, Goto
<1>3. CallOK(p)' BY <1>2 DEF IInv, PInv, CallOK, InTransaction
<1>4. InTime(p)' BY <1>2 DEF IInv, PInv, InTime
<1>5. PInv(p)' BY <1>3, <1>4 DEF PInv
<1> QED BY <1>1, <1>5, OneProgramMoves

(* Who is in a transaction has made a call. *)
LEMMA AtTransaction ==
  ASSUME IInv, NEW p \in Programs, at[p] \in InTransaction
  PROVE  call[p] # NoCall
  BY DEF IInv, PInv, CallOK

(* A server that is constructed. *)
LEMMA StartInv ==
  ASSUME IInv, NEW p \in Programs, Start(p)
  PROVE  IInv'
<1>1. TypeOK' BY DEF IInv, TypeOK, Start, Goto
<1>2. Others(p) BY DEF IInv, TypeOK, Others, Start, Goto
<1>3. at'[p] = "load" /\ call[p] = NoCall BY DEF IInv, TypeOK, Start, Goto, PInv, CallOK
<1>4. PInv(p)'
  BY <1>3 DEF IInv, PInv, CallOK, AtIts, InTime, RowsOK, InTransaction, Start
<1>5. Keeps(db, db') BY KeptAll DEF IInv, TypeOK, Start
<1> QED BY <1>1, <1>2, <1>4, <1>5, OneProgramMoves DEF Start

(* A call that is made, on a connection or with one of its own. *)
LEMMA MadeInv ==
  ASSUME IInv, NEW p \in Programs, NEW k \in Calls[p], Notes(p, k),
         NEW where \in {"load", First(k)}, Goto(p, where)
  PROVE  IInv'
<1>1. /\ call'[p] = k /\ since'[p] = clock /\ missing'[p] = Atomic!RowMissing(k)
      /\ at'[p] = where /\ clock' = clock /\ db' = db
  BY DEF IInv, TypeOK, Notes, Goto
<1>2. Atomic!RowMissing(k) \in BOOLEAN BY RowMissingHere
<1>3. TypeOK' BY <1>2 DEF IInv, TypeOK, Notes, Goto
<1>4. Others(p) BY DEF IInv, TypeOK, Others, Notes, Goto
<1>5. k # NoCall /\ k.f \in Statements \cup Stamped \cup Composite BY CallsAssumption
<1>6. where \in {"load", "checkUser", "checkServer", "datetime", "statement"}
  BY <1>5, FirstFits
<1>7. CallOK(p)' BY <1>1, <1>5, <1>6 DEF CallOK
<1>8. AtIts(p)' BY <1>1, <1>5, <1>6, FirstFits DEF AtIts
<1>9. InTime(p)' BY <1>1, <1>6 DEF InTime, IInv, TypeOK
<1>10. Atomic!RowMissing(k)' = Atomic!RowMissing(k)
  BY <1>1 DEF Atomic!RowMissing, Atomic!UserExists, Atomic!ServerExists
<1>11. at'[p] = "datetime" => call'[p].f # "handleServer"
  BY <1>1, <1>5, <1>6, FirstFits DEF Stamped
<1>12. RowsOK(p)' BY <1>1, <1>6, <1>10, <1>11 DEF RowsOK
<1>13. PInv(p)' BY <1>7, <1>8, <1>9, <1>12 DEF PInv
<1>14. Keeps(db, db') BY <1>1, KeptAll DEF IInv, TypeOK
<1> QED BY <1>1, <1>3, <1>4, <1>13, <1>14, OneProgramMoves

(* The configuration is loaded, or the connection opened. *)
LEMMA OpeningInv ==
  ASSUME IInv, NEW p \in Programs, Load(p) \/ Connect(p)
  PROVE  IInv'
<1>1. at[p] \in Opening BY DEF Load, Connect, Opening
<1>2. UNCHANGED <<db, clock, call, value, since, missing, stamp>> BY DEF Load, Connect
<1>3. \/ at'[p] = "connect"
      \/ call[p] = NoCall /\ at'[p] = "idle"
      \/ call[p] # NoCall /\ at'[p] = First(call[p])
  BY DEF IInv, TypeOK, Load, Connect, Goto
<1>4. DOMAIN at' = Programs /\ \A q \in Programs \ {p} : at'[q] = at[q]
  BY DEF IInv, TypeOK, Load, Connect, Goto
<1>5. TypeOK' BY <1>2, <1>4 DEF IInv, TypeOK
<1>6. Others(p) BY <1>2, <1>4 DEF Others
<1>7. Keeps(db, db') BY <1>2, KeptAll DEF IInv, TypeOK
<1>8. PInv(p)'
  <2>1. Atomic!RowMissing(call[p])' = Atomic!RowMissing(call[p])
    BY <1>2 DEF Atomic!RowMissing, Atomic!UserExists, Atomic!ServerExists
  <2>2. PInv(p) BY DEF IInv
  <2>3. CASE at'[p] \in {"connect", "idle"} /\ (at'[p] = "idle" => call[p] = NoCall)
    BY <2>1, <2>2, <2>3, <1>2 DEF PInv, CallOK, AtIts, InTime, RowsOK, InTransaction
  <2>4. CASE call[p] # NoCall /\ at'[p] = First(call[p])
    <3>1. call[p].f \in Statements \cup Stamped \cup Composite BY <2>4, CallIs
    <3>2. at'[p] \in {"checkUser", "checkServer", "datetime", "statement"}
      BY <2>4, <3>1, FirstFits
    <3>3. CallOK(p)' BY <2>2, <2>4, <3>2, <1>2 DEF PInv, CallOK
    <3>4. AtIts(p)' BY <2>4, <3>1, <3>2, <1>2, FirstFits DEF AtIts
    <3>5. InTime(p)' BY <2>2, <3>2, <1>2 DEF PInv, InTime
    <3>6. at'[p] = "datetime" => call[p].f # "handleServer"
      BY <2>4, <3>1, FirstFits DEF Stamped
    <3>7. RowsOK(p)' BY <2>1, <2>2, <3>2, <3>6, <1>2 DEF PInv, RowsOK
    <3> QED BY <3>3, <3>4, <3>5, <3>7 DEF PInv
  <2> QED BY <1>3, <2>3, <2>4
<1> QED BY <1>2, <1>5, <1>6, <1>7, <1>8, OneProgramMoves

(* The last transaction of a call. *)
LEMMA ReturnsInv ==
  ASSUME IInv, NEW p \in Programs, NEW outcome, Returns(p, outcome), Keeps(db, outcome.db)
  PROVE  IInv'
<1> DEFINE where == IF p \in Servers THEN "idle" ELSE "off"
<1>1. Ends(p, outcome.value, where) /\ db' = outcome.db BY DEF Returns
<1>2. where \in {"off", "idle"} OBVIOUS
<1> HIDE DEF where
<1> QED BY <1>1, <1>2, EndsInv

(* The transactions of handleUser: between checkUserExists and             *)
(* verifyPassword nobody can take the user away.                           *)
LEMMA UserInv ==
  ASSUME IInv, NEW p \in Programs, CheckUser(p) \/ VerifyUser(p) \/ InsertNewUser(p)
  PROVE  IInv'
<1>1. at[p] \in InTransaction /\ call[p] # NoCall
  BY AtTransaction DEF CheckUser, VerifyUser, InsertNewUser, InTransaction
<1>2. PInv(p) /\ Database(db) BY DEF IInv, TypeOK
<1>3. call[p].f = "handleUser" BY <1>2 DEF PInv, AtIts, CheckUser, VerifyUser, InsertNewUser
<1>4. call[p].user \in Users /\ call[p].text \in Texts BY <1>1, <1>3, CallIs DEF ChangesUsers
<1>5. CASE CheckUser(p)
  <2> DEFINE where == IF UserExists(db, call[p].user) THEN "verifyUser" ELSE "insertUser"
  <2>1. GoesOn(p, where) /\ UNCHANGED <<db, missing, stamp>>
    BY <1>5 DEF CheckUser, CheckUserExists, Gives
  <2>2. Goto(p, where) /\ at'[p] = where BY <2>1 DEF GoesOn, Goto, IInv, TypeOK
  <2>3. Others(p) BY <2>1 DEF IInv, TypeOK, Others, GoesOn, Goto
  <2>4. AtIts(p)' BY <1>3, <2>1, <2>2 DEF AtIts, GoesOn
  <2>5. Atomic!RowMissing(call[p])' <=> ~UserExists(db, call[p].user)
    BY <1>3, <2>1 DEF GoesOn, Atomic!RowMissing, Atomic!UserExists, Atomic!ServerExists,
                      UserExists
  <2>6. ~missing[p] => UserExists(db, call[p].user)
    BY <1>1, <1>2, <1>3, RowMissingHere DEF PInv, RowsOK
  <2>7. missing[p] \in BOOLEAN BY DEF IInv, TypeOK
  <2>8. RowsOK(p)' BY <2>1, <2>2, <2>5, <2>6, <2>7 DEF RowsOK, GoesOn
  <2>9. where \in InTransaction /\ where # "insert" BY DEF InTransaction
  <2> HIDE DEF where
  <2> QED BY <1>1, <1>2, <2>1, <2>2, <2>3, <2>4, <2>8, <2>9, KeptAll, MovesInv
          DEF GoesOn, IInv, TypeOK
<1>6. CASE VerifyUser(p)
  <2>1. VerifyPassword(db, call[p].user, call[p].text).db = db
    BY DEF VerifyPassword, FirstRow, Fails, Gives
  <2> QED BY <1>2, <1>6, <2>1, KeptAll, ReturnsInv DEF VerifyUser
<1>7. CASE InsertNewUser(p)
  <2> DEFINE inserted == InsertUser(db, call[p].user, call[p].text)
             outcome == [inserted EXCEPT !.value = IF @ = Threw THEN Threw ELSE TRUE]
  <2>1. Keeps(db, inserted.db) BY <1>2, <1>4, InsertUserKeeps
  <2>2. outcome.db = inserted.db BY DEF InsertUser, Insert, Gives, Fails
  <2>3. Returns(p, outcome) BY <1>7 DEF InsertNewUser
  <2> HIDE DEF outcome
  <2> QED BY <2>1, <2>2, <2>3, ReturnsInv
<1> QED BY <1>5, <1>6, <1>7

(* The transactions of handleServer: once the server is there, it stays    *)
(* until insertServerMetadata.                                             *)
LEMMA ServerInv ==
  ASSUME IInv, NEW p \in Programs, CheckServer(p) \/ InsertNewServer(p)
  PROVE  IInv'
<1>1. at[p] \in InTransaction /\ call[p] # NoCall
  BY AtTransaction DEF CheckServer, InsertNewServer, InTransaction
<1>2. PInv(p) /\ Database(db) BY DEF IInv, TypeOK
<1>3. call[p].f = "handleServer" BY <1>2 DEF PInv, AtIts, CheckServer, InsertNewServer
<1>4. missing[p] \in BOOLEAN BY DEF IInv, TypeOK
<1>5. call' = call => (Atomic!RowMissing(call[p])' <=> ~ServerExists(db', call[p].server))
  BY <1>3 DEF Atomic!RowMissing, Atomic!UserExists, Atomic!ServerExists, ServerExists
<1>6. CASE CheckServer(p)
  <2> DEFINE where == IF ServerExists(db, call[p].server) THEN "datetime" ELSE "insertServer"
  <2>1. GoesOn(p, where) /\ UNCHANGED <<db, missing, stamp>>
    BY <1>6 DEF CheckServer, CheckServerExists, Gives
  <2>2. Goto(p, where) /\ at'[p] = where BY <2>1 DEF GoesOn, Goto, IInv, TypeOK
  <2>3. Others(p) BY <2>1 DEF IInv, TypeOK, Others, GoesOn, Goto
  <2>4. AtIts(p)' BY <1>3, <2>1, <2>2 DEF AtIts, GoesOn
  <2>5. ~missing[p] => ServerExists(db, call[p].server)
    BY <1>1, <1>2, <1>3, RowMissingHere DEF PInv, RowsOK
  <2>6. RowsOK(p)' BY <1>4, <1>5, <2>1, <2>2, <2>5 DEF RowsOK, GoesOn
  <2>7. where \in InTransaction /\ where # "insert" BY DEF InTransaction
  <2> HIDE DEF where
  <2> QED BY <1>1, <1>2, <2>1, <2>2, <2>3, <2>4, <2>6, <2>7, KeptAll, MovesInv
          DEF GoesOn, IInv, TypeOK
<1>7. CASE InsertNewServer(p)
  <2> DEFINE inserted == InsertServer(db, call[p].server)
  <2>1. Keeps(db, inserted.db) /\ ServerExists(inserted.db, call[p].server)
    BY <1>2, InsertServerKeeps
  <2>2. CASE inserted.value = Threw
    BY <1>7, <2>1, <2>2, ReturnsInv DEF InsertNewServer
  <2>3. CASE inserted.value # Threw
    <3>1. /\ db' = inserted.db /\ missing' = [missing EXCEPT ![p] = FALSE]
          /\ GoesOn(p, "datetime") /\ stamp' = stamp
      BY <1>7, <2>3 DEF InsertNewServer
    <3>2. Goto(p, "datetime") /\ at'[p] = "datetime" BY <3>1 DEF GoesOn, Goto, IInv, TypeOK
    <3>3. Others(p) BY <3>1 DEF IInv, TypeOK, Others, GoesOn, Goto
    <3>4. AtIts(p)' BY <1>3, <3>1, <3>2 DEF AtIts, GoesOn
    <3>5. missing'[p] = FALSE BY <3>1 DEF IInv, TypeOK
    <3>6. RowsOK(p)' BY <1>5, <2>1, <3>1, <3>2, <3>5 DEF RowsOK, GoesOn
    <3>7. "datetime" \in InTransaction BY DEF InTransaction
    <3> QED BY <1>1, <2>1, <3>1, <3>2, <3>3, <3>4, <3>6, <3>7, MovesInv
            DEF GoesOn, IInv, TypeOK
  <2> QED BY <2>2, <2>3
<1> QED BY <1>6, <1>7

(* The time is fetched: it is not before the call and not after now. *)
LEMMA DatetimeInv ==
  ASSUME IInv, NEW p \in Programs, GetCurrentDatetime(p)
  PROVE  IInv'
<1>1. at[p] \in InTransaction /\ call[p] # NoCall
  BY AtTransaction DEF GetCurrentDatetime, InTransaction
<1>2. PInv(p) /\ Database(db) BY DEF IInv, TypeOK
<1>3. call[p].f \in Stamped \cup {"handleServer"} BY <1>2 DEF PInv, AtIts, GetCurrentDatetime
<1>4. GoesOn(p, "insert") /\ UNCHANGED <<db, missing>> /\ stamp' = [stamp EXCEPT ![p] = clock]
  BY DEF GetCurrentDatetime
<1>5. Goto(p, "insert") /\ at'[p] = "insert" BY <1>4 DEF GoesOn, Goto, IInv, TypeOK
<1>6. Others(p) BY <1>4 DEF IInv, TypeOK, Others, GoesOn, Goto
<1>7. AtIts(p)' BY <1>3, <1>4, <1>5 DEF AtIts, GoesOn
<1>8. Atomic!RowMissing(call[p])' <=> Atomic!RowMissing(call[p])
  BY <1>4 DEF GoesOn, Atomic!RowMissing, Atomic!UserExists, Atomic!ServerExists
<1>9. RowsOK(p)' BY <1>2, <1>4, <1>5, <1>8 DEF RowsOK, PInv, GoesOn, GetCurrentDatetime
<1>10. stamp'[p] \in since[p]..clock
  <2>1. stamp'[p] = clock BY <1>4 DEF IInv, TypeOK
  <2>2. since[p] \in Nat /\ clock \in Nat /\ since[p] <= clock
    BY <1>2 DEF IInv, TypeOK, PInv, InTime
  <2> QED BY <2>1, <2>2
<1>11. "insert" \in InTransaction BY DEF InTransaction
<1> QED BY <1>1, <1>2, <1>4, <1>5, <1>6, <1>7, <1>9, <1>10, <1>11, KeptAll, MovesInv
        DEF GoesOn, IInv, TypeOK

(* What a transaction would write takes nothing away either, if the        *)
(* connection is lost after it.                                            *)
LEMMA WrittenKeeps ==
  ASSUME IInv, NEW p \in Programs, at[p] \in InTransaction
  PROVE  Keeps(db, Written(p))
<1>1. PInv(p) /\ Database(db) BY DEF IInv, TypeOK
<1>2. call[p] # NoCall BY AtTransaction
<1>3. call[p].f \in ChangesUsers => call[p].user \in Users /\ call[p].text \in Texts
  BY <1>2, CallIs
<1>4. CASE at[p] = "statement"
  <2>1. call[p].f \in Statements BY <1>1, <1>4 DEF PInv, AtIts
  <2> QED BY <1>1, <1>3, <1>4, <2>1, StatementKeeps DEF Written
<1>5. CASE at[p] = "insertUser"
  <2>1. call[p].user \in Users /\ call[p].text \in Texts
    BY <1>1, <1>3, <1>5 DEF PInv, AtIts, ChangesUsers
  <2> QED BY <1>1, <1>5, <2>1, InsertUserKeeps DEF Written
<1>6. CASE at[p] = "insertServer" BY <1>1, <1>6, InsertServerKeeps DEF Written
<1>7. CASE at[p] = "insert"
  <2>1. call[p].f \in Stamped \cup {"handleServer"} BY <1>1, <1>7 DEF PInv, AtIts
  <2> QED BY <1>1, <1>7, <2>1, StampedKeeps DEF Written
<1>8. CASE at[p] \notin {"statement", "insertUser", "insertServer", "insert"}
  BY <1>1, <1>8, KeptAll DEF Written
<1> QED BY <1>4, <1>5, <1>6, <1>7, <1>8

(* The functions of one transaction, and the insert with the time. *)
LEMMA LastInv ==
  ASSUME IInv, NEW p \in Programs, OneStatement(p) \/ InsertWithTime(p)
  PROVE  IInv'
<1>1. Keeps(db, Written(p)) BY WrittenKeeps DEF OneStatement, InsertWithTime, InTransaction
<1>2. CASE OneStatement(p) BY <1>1, <1>2, ReturnsInv DEF OneStatement, Written
<1>3. CASE InsertWithTime(p) BY <1>1, <1>3, ReturnsInv DEF InsertWithTime, Written
<1> QED BY <1>2, <1>3

(* A connection that fails, one that is lost, and a process that dies. *)
LEMMA GoneInv ==
  ASSUME IInv, NEW p \in Programs, NoConnection(p) \/ Breaks(p) \/ Dies(p)
  PROVE  IInv'
<1>1. Ends(p, Broken, "off") BY DEF NoConnection, Breaks, Dies
<1>2. Keeps(db, db)
  BY KeptAll DEF IInv, TypeOK
<1>3. Breaks(p) => Keeps(db, Written(p)) BY WrittenKeeps DEF Breaks
<1>4. Keeps(db, db') BY <1>2, <1>3 DEF NoConnection, Breaks, Dies
<1> QED BY <1>1, <1>4, EndsInv

(* Time passes. *)
LEMMA TickInv ==
  ASSUME IInv, Tick
  PROVE  IInv'
<1>1. TypeOK' BY DEF IInv, TypeOK, Tick
<1>2. ASSUME NEW p \in Programs PROVE PInv(p)'
  <2>1. PInv(p) /\ since[p] \in Nat /\ clock \in Nat BY DEF IInv, TypeOK
  <2>2. Atomic!RowMissing(call[p])' <=> Atomic!RowMissing(call[p])
    BY DEF Tick, Atomic!RowMissing, Atomic!UserExists, Atomic!ServerExists
  <2>3. InTime(p)' BY <2>1 DEF PInv, InTime, Tick
  <2>4. CallOK(p)' /\ AtIts(p)' BY <2>1 DEF PInv, CallOK, AtIts, Tick
  <2>5. RowsOK(p)' BY <2>1, <2>2 DEF PInv, RowsOK, Tick
  <2> QED BY <2>3, <2>4, <2>5 DEF PInv
<1> QED BY <1>1, <1>2 DEF IInv

(* Every step keeps the invariant. *)
LEMMA NextIInv == IInv /\ [Next]_vars => IInv'
<1> SUFFICES ASSUME IInv, [Next]_vars PROVE IInv' OBVIOUS
<1>1. CASE Tick BY <1>1, TickInv
<1>2. ASSUME NEW p \in Programs, Program(p) PROVE IInv'
  <2>1. CASE Start(p) BY <2>1, StartInv
  <2>2. CASE Load(p) \/ Connect(p) BY <2>2, OpeningInv
  <2>3. ASSUME NEW k \in Calls[p], Call(p, k) \/ CallWrapper(p, k) PROVE IInv'
    <3>1. Notes(p, k) /\ \E where \in {"load", First(k)} : Goto(p, where)
      BY <2>3 DEF Call, CallWrapper
    <3> QED BY <3>1, MadeInv
  <2>4. CASE OneStatement(p) \/ InsertWithTime(p) BY <2>4, LastInv
  <2>5. CASE CheckUser(p) \/ VerifyUser(p) \/ InsertNewUser(p) BY <2>5, UserInv
  <2>6. CASE CheckServer(p) \/ InsertNewServer(p) BY <2>6, ServerInv
  <2>7. CASE GetCurrentDatetime(p) BY <2>7, DatetimeInv
  <2>8. CASE NoConnection(p) \/ Breaks(p) \/ Dies(p) BY <2>8, GoneInv
  <2> QED BY <1>2, <2>1, <2>2, <2>3, <2>4, <2>5, <2>6, <2>7, <2>8 DEF Program
<1>3. CASE UNCHANGED vars
  <2>1. TypeOK' BY <1>3 DEF IInv, TypeOK, vars
  <2>2. ASSUME NEW p \in Programs PROVE PInv(p)'
    <3>1. PInv(p) BY DEF IInv
    <3>2. Atomic!RowMissing(call[p])' <=> Atomic!RowMissing(call[p])
      BY <1>3 DEF vars, Atomic!RowMissing, Atomic!UserExists, Atomic!ServerExists
    <3>3. CallOK(p)' /\ AtIts(p)' /\ InTime(p)' /\ RowsOK(p)'
      BY <1>3, <3>1, <3>2 DEF vars, PInv, CallOK, AtIts, InTime, RowsOK
    <3> QED BY <3>3 DEF PInv
  <2> QED BY <2>1, <2>2 DEF IInv
<1> QED BY <1>1, <1>2, <1>3 DEF Next

(* IInv is an invariant, for any programs, calls and databases. *)
THEOREM SpecIInv == Spec => []IInv
BY InitIInv, NextIInv, PTL DEF Spec

-----------------------------------------------------------------------------
(* Every call is atomic.                                                   *)

(* ChitterSpec has the statements of Tables by another name: what they     *)
(* leave and return is the same.                                           *)
LEMMA SameStatement ==
  ASSUME NEW d, NEW k
  PROVE  Atomic!Statement(d, k) = Statement(d, k)
  BY DEF Atomic!Statement, Atomic!CheckUserExists, Atomic!VerifyPassword, Atomic!UpdatePassword,
    Atomic!InsertUser, Atomic!GetBio, Atomic!UpdateBio, Atomic!CheckAlreadyFriends,
    Atomic!FetchFriends, Atomic!CheckServerExists, Atomic!InsertServer, Atomic!GetServerRoles,
    Atomic!InsertServerRoles, Atomic!CheckChannelExists, Atomic!InsertChannel,
    Atomic!UpdateChannelTopic, Atomic!GetChannelTopic, Atomic!GetChannelRoles,
    Atomic!InsertChannelRoles, Atomic!Gives, Atomic!Fails, Atomic!Insert, Atomic!FirstRow,
    Atomic!UserExists, Atomic!AreFriends, Atomic!Friends, Atomic!ServerExists,
    Atomic!GetStatusEnum, Atomic!GetStatusString, Atomic!Status, Atomic!StatusString,
    Atomic!Nonexistent, Atomic!ChannelExists, Atomic!DisplayName, Statement, CheckUserExists,
    VerifyPassword, UpdatePassword, InsertUser, GetBio, UpdateBio, CheckAlreadyFriends,
    FetchFriends, CheckServerExists, InsertServer, GetServerRoles, InsertServerRoles,
    CheckChannelExists, InsertChannel, UpdateChannelTopic, GetChannelTopic, GetChannelRoles,
    InsertChannelRoles, Gives, Fails, Insert, FirstRow, UserExists, AreFriends, Friends,
    ServerExists, GetStatusEnum, GetStatusString, Status, StatusString, Nonexistent,
    ChannelExists, DisplayName

(* So are the inserts of a time. *)
LEMMA SameStamped ==
  ASSUME NEW d, NEW k, NEW t
  PROVE  Atomic!StampedInsert(d, k, t) = StampedInsert(d, k, t)
  BY DEF Atomic!StampedInsert, Atomic!InsertLogin, Atomic!InsertFriend, Atomic!InsertMsg,
    Atomic!InsertServerMetadata, Atomic!Gives, Atomic!Fails, Atomic!Insert, Atomic!UserExists,
    Atomic!AreFriends, Atomic!ServerExists, Atomic!ChannelExists, StampedInsert, InsertLogin,
    InsertFriend, InsertMsg, InsertServerMetadata, Gives, Fails, Insert, UserExists, AreFriends,
    ServerExists, ChannelExists

(* The statements of handleUser. *)
LEMMA SameUser ==
  ASSUME NEW d, NEW u, NEW w
  PROVE  /\ Atomic!UserExists(d, u) <=> UserExists(d, u)
         /\ Atomic!VerifyPassword(d, u, w) = VerifyPassword(d, u, w)
         /\ Atomic!InsertUser(d, u, w) = InsertUser(d, u, w)
  BY DEF Atomic!VerifyPassword, Atomic!InsertUser, Atomic!UserExists, Atomic!Gives, Atomic!Fails,
    Atomic!Insert, Atomic!FirstRow, VerifyPassword, InsertUser, UserExists, Gives, Fails, Insert,
    FirstRow

(* The statements of handleServer. *)
LEMMA SameServer ==
  ASSUME NEW d, NEW s, NEW t
  PROVE  /\ Atomic!ServerExists(d, s) <=> ServerExists(d, s)
         /\ Atomic!InsertServer(d, s) = InsertServer(d, s)
         /\ Atomic!InsertServerMetadata(d, s, t) = InsertServerMetadata(d, s, t)
  BY DEF Atomic!ServerExists, Atomic!InsertServer, Atomic!InsertServerMetadata, Atomic!Gives,
    Atomic!Fails, Atomic!Insert, ServerExists, InsertServer, InsertServerMetadata, Gives, Fails,
    Insert

(* What ChitterSpec says a call does at once, by kind of function. *)
LEMMA OutcomeIs ==
  ASSUME NEW k, NEW t
  PROVE  /\ k.f = "handleUser" => Atomic!Outcome(k, t) =
              IF UserExists(db, k.user) THEN VerifyPassword(db, k.user, k.text)
              ELSE [InsertUser(db, k.user, k.text) EXCEPT !.value = TRUE]
         /\ k.f = "handleServer" => Atomic!Outcome(k, t) =
              InsertServerMetadata(IF ServerExists(db, k.server) THEN db
                                   ELSE InsertServer(db, k.server).db, k.server, t)
         /\ k.f \in Stamped => Atomic!Outcome(k, t) = StampedInsert(db, k, t)
         /\ k.f \in Statements => Atomic!Outcome(k, t) = Statement(db, k)
<1>1. CASE k.f = "handleUser"
  <2>1. Atomic!Outcome(k, t) = Atomic!HandleUser(k) BY <1>1 DEF Atomic!Outcome, Atomic!Stamped
  <2> QED BY <1>1, <2>1, SameUser DEF Atomic!HandleUser, Stamped, Statements
<1>2. CASE k.f = "handleServer"
  <2>1. Atomic!Outcome(k, t) = Atomic!HandleServer(k, t) BY <1>2 DEF Atomic!Outcome, Atomic!Stamped
  <2> QED BY <1>2, <2>1, SameServer DEF Atomic!HandleServer, Stamped, Statements
<1>3. CASE k.f \in Stamped
  <2>1. Atomic!Outcome(k, t) = Atomic!StampedInsert(db, k, t)
    BY <1>3 DEF Atomic!Outcome, Atomic!Stamped, Stamped
  <2> QED BY <1>3, <2>1, SameStamped DEF Stamped, Statements
<1>4. CASE k.f \in Statements
  <2>1. Atomic!Outcome(k, t) = Atomic!Statement(db, k)
    BY <1>4 DEF Atomic!Outcome, Atomic!Stamped, Statements
  <2> QED BY <1>4, <2>1, SameStatement DEF Stamped, Statements
<1> QED BY <1>1, <1>2, <1>3, <1>4

(* The end of a call is the end of that call in ChitterSpec; what ends     *)
(* where there is no call is nothing to it.                                *)
LEMMA EndsMaps ==
  ASSUME IInv, NEW p \in Programs, NEW v, NEW where, Ends(p, v, where)
  PROVE  /\ call[p] # NoCall => Atomic!Ends(p, v)
         /\ call[p] = NoCall => UNCHANGED <<clock, call, value, since, missing>>
<1>1. CASE call[p] # NoCall BY <1>1 DEF Ends, Atomic!Ends
<1>2. CASE call[p] = NoCall
  <2>1. since[p] = 0 /\ missing[p] = FALSE BY <1>2 DEF IInv, PInv, CallOK
  <2>2. call' = call /\ value' = value /\ since' = since /\ missing' = missing
    BY <1>2, <2>1 DEF Ends, IInv, TypeOK
  <2> QED BY <1>2, <2>2 DEF Ends
<1> QED BY <1>1, <1>2

(* A last transaction that leaves and returns what the whole call would at *)
(* this moment is the moment the call takes effect.                        *)
LEMMA ReturnsMaps ==
  ASSUME IInv, NEW p \in Programs, call[p] # NoCall, NEW outcome, Returns(p, outcome),
         NEW t \in since[p]..clock,
         outcome.value = Atomic!Outcome(call[p], t).value,
         outcome.db = Atomic!Outcome(call[p], t).db
  PROVE  Atomic!Returns(p)
<1>1. Atomic!Ends(p, outcome.value) /\ db' = outcome.db BY EndsMaps DEF Returns
<1> QED BY <1>1 DEF Atomic!Returns

(* Now is a time between the call and its return. *)
LEMMA NowIsInTime ==
  ASSUME IInv, NEW p \in Programs
  PROVE  clock \in since[p]..clock
  BY DEF IInv, TypeOK, PInv, InTime

(* A function of one transaction takes effect in it. *)
LEMMA StatementMaps ==
  ASSUME IInv, NEW p \in Programs, OneStatement(p)
  PROVE  Atomic!Returns(p)
<1>1. call[p] # NoCall BY AtTransaction DEF OneStatement, InTransaction
<1>2. call[p].f \in Statements BY DEF IInv, PInv, AtIts, OneStatement
<1>3. Statement(db, call[p]) = Atomic!Outcome(call[p], clock) BY <1>2, OutcomeIs
<1> QED BY <1>1, <1>3, NowIsInTime, ReturnsMaps DEF OneStatement

(* A row with a time is inserted as if the time had been fetched at the    *)
(* same moment; by then the server of handleServer is there.               *)
LEMMA InsertMaps ==
  ASSUME IInv, NEW p \in Programs, at[p] = "insert"
  PROVE  /\ stamp[p] \in since[p]..clock
         /\ StampedInsert(db, call[p], stamp[p]) = Atomic!Outcome(call[p], stamp[p])
<1>1. PInv(p) BY DEF IInv
<1>2. CASE call[p].f = "handleServer"
  <2>1. ServerExists(db, call[p].server) BY <1>1, <1>2 DEF PInv, RowsOK
  <2> QED BY <1>1, <1>2, <2>1, OutcomeIs DEF PInv, InTime, StampedInsert
<1>3. CASE call[p].f \in Stamped BY <1>1, <1>3, OutcomeIs DEF PInv, InTime
<1> QED BY <1>1, <1>2, <1>3 DEF PInv, AtIts

(* An insert that throws does so because somebody else has added the row   *)
(* since the call was made.                                                *)
LEMMA OvertakenMaps ==
  ASSUME IInv, NEW p \in Programs, call[p] # NoCall, missing[p], ~Atomic!RowMissing(call[p]),
         NEW outcome, Returns(p, outcome), outcome.value = Threw, outcome.db = db
  PROVE  Atomic!Overtaken(p)
  BY EndsMaps DEF Atomic!Overtaken, Returns

(* handleUser that finds no user takes effect in its insert, or was        *)
(* overtaken.                                                              *)
LEMMA NewUserMaps ==
  ASSUME IInv, NEW p \in Programs, InsertNewUser(p)
  PROVE  Atomic!Returns(p) \/ Atomic!Overtaken(p)
<1> DEFINE inserted == InsertUser(db, call[p].user, call[p].text)
           outcome == [inserted EXCEPT !.value = IF @ = Threw THEN Threw ELSE TRUE]
<1>1. call[p] # NoCall BY AtTransaction DEF InsertNewUser, InTransaction
<1>2. call[p].f = "handleUser" /\ missing[p] BY DEF IInv, PInv, AtIts, RowsOK, InsertNewUser
<1>3. call[p].user \in Users /\ call[p].text \in Texts BY <1>1, <1>2, CallIs DEF ChangesUsers
<1>4. Returns(p, outcome) BY DEF InsertNewUser
<1>5. /\ inserted.value = IF UserExists(db, call[p].user) THEN Threw ELSE "done"
      /\ UserExists(db, call[p].user) => inserted.db = db
  BY <1>3, InsertUserKeeps DEF IInv, TypeOK
<1>6. inserted = [db |-> inserted.db, value |-> inserted.value]
  BY DEF InsertUser, Insert, Gives, Fails
<1>7. CASE UserExists(db, call[p].user)
  <2>1. ~Atomic!RowMissing(call[p]) BY <1>2, <1>7, RowMissingHere
  <2>2. outcome.value = Threw /\ outcome.db = db BY <1>5, <1>6, <1>7
  <2> HIDE DEF outcome
  <2> QED BY <1>1, <1>2, <1>4, <2>1, <2>2, OvertakenMaps
<1>8. CASE ~UserExists(db, call[p].user)
  <2>1. outcome.value = TRUE /\ outcome.db = inserted.db
    BY <1>5, <1>6, <1>8, NoValueAssumption
  <2>2. Atomic!Outcome(call[p], clock) = [inserted EXCEPT !.value = TRUE]
    BY <1>2, <1>8, OutcomeIs
  <2>3. /\ Atomic!Outcome(call[p], clock).value = TRUE
        /\ Atomic!Outcome(call[p], clock).db = inserted.db
    BY <2>2, <1>6
  <2> HIDE DEF outcome
  <2>4. Atomic!Returns(p) BY <1>1, <1>4, <2>1, <2>3, NowIsInTime, ReturnsMaps
  <2> QED BY <2>4
<1> QED BY <1>7, <1>8

(* handleUser that finds the user takes effect when the password is        *)
(* compared, with the password of that moment.                             *)
LEMMA VerifyMaps ==
  ASSUME IInv, NEW p \in Programs, VerifyUser(p)
  PROVE  Atomic!Returns(p)
<1>1. call[p] # NoCall BY AtTransaction DEF VerifyUser, InTransaction
<1>2. call[p].f = "handleUser" /\ UserExists(db, call[p].user)
  BY DEF IInv, PInv, AtIts, RowsOK, VerifyUser
<1>3. VerifyPassword(db, call[p].user, call[p].text) = Atomic!Outcome(call[p], clock)
  BY <1>2, OutcomeIs
<1> QED BY <1>1, <1>3, NowIsInTime, ReturnsMaps DEF VerifyUser

(* handleServer puts in the row of its server first, or was overtaken. *)
LEMMA NewServerMaps ==
  ASSUME IInv, NEW p \in Programs, InsertNewServer(p)
  PROVE  Atomic!RowFirst(p) \/ Atomic!Overtaken(p)
<1> DEFINE inserted == InsertServer(db, call[p].server)
<1>1. call[p] # NoCall BY AtTransaction DEF InsertNewServer, InTransaction
<1>2. call[p].f = "handleServer" /\ missing[p]
  BY DEF IInv, PInv, AtIts, RowsOK, InsertNewServer
<1>3. /\ inserted.value = IF ServerExists(db, call[p].server) THEN Threw ELSE "done"
      /\ ServerExists(db, call[p].server) => inserted.db = db
  BY InsertServerKeeps DEF IInv, TypeOK
<1>4. CASE inserted.value = Threw
  <2>1. ServerExists(db, call[p].server) BY <1>3, <1>4, NoValueAssumption
  <2>2. ~Atomic!RowMissing(call[p]) BY <1>2, <2>1, RowMissingHere
  <2>3. Returns(p, inserted) BY <1>4 DEF InsertNewServer
  <2> HIDE DEF inserted
  <2> QED BY <1>1, <1>2, <1>3, <1>4, <2>1, <2>2, <2>3, OvertakenMaps
<1>5. CASE inserted.value # Threw
  <2>1. ~ServerExists(db, call[p].server) BY <1>3, <1>5
  <2>2. Atomic!RowMissing(call[p]) BY <1>2, <2>1, RowMissingHere
  <2>3. /\ db' = inserted.db /\ missing' = [missing EXCEPT ![p] = FALSE]
        /\ UNCHANGED <<clock, call, value, since>>
    BY <1>5 DEF InsertNewServer, GoesOn
  <2>4. inserted = Atomic!InsertServer(db, call[p].server) BY SameServer
  <2> QED BY <1>1, <1>2, <2>2, <2>3, <2>4 DEF Atomic!RowFirst
<1> QED BY <1>4, <1>5

(* A call that loses its connection has done nothing or all of what it     *)
(* would have done, or is handleServer and has put in its server.          *)
LEMMA BreaksMaps ==
  ASSUME IInv, NEW p \in Programs, Breaks(p)
  PROVE  Atomic!BreaksOff(p)
<1>1. call[p] # NoCall BY AtTransaction DEF Breaks
<1>2. Atomic!Ends(p, Broken) BY <1>1, EndsMaps DEF Breaks
<1>3. PInv(p) BY DEF IInv
<1>4. \/ Written(p) = db
      \/ \E t \in since[p]..clock : Written(p) = Atomic!Outcome(call[p], t).db
      \/ call[p].f = "handleServer" /\ Written(p) = Atomic!InsertServer(db, call[p].server).db
  <2>1. CASE at[p] = "statement"
    <3>1. call[p].f \in Statements BY <1>3, <2>1 DEF PInv, AtIts
    <3>2. Written(p) = Atomic!Outcome(call[p], clock).db BY <2>1, <3>1, OutcomeIs DEF Written
    <3> QED BY <3>2, NowIsInTime
  <2>2. CASE at[p] = "insertUser"
    <3>1. call[p].f = "handleUser" BY <1>3, <2>2 DEF PInv, AtIts
    <3>2. call[p].user \in Users /\ call[p].text \in Texts
      BY <1>1, <3>1, CallIs DEF ChangesUsers
    <3>3. Written(p) = InsertUser(db, call[p].user, call[p].text).db BY <2>2 DEF Written
    <3>4. CASE UserExists(db, call[p].user)
      BY <3>2, <3>3, <3>4, InsertUserKeeps DEF IInv, TypeOK
    <3>5. CASE ~UserExists(db, call[p].user)
      <4>1. Atomic!Outcome(call[p], clock) =
              [InsertUser(db, call[p].user, call[p].text) EXCEPT !.value = TRUE]
        BY <3>1, <3>5, OutcomeIs
      <4>2. Written(p) = Atomic!Outcome(call[p], clock).db
        BY <3>3, <4>1 DEF InsertUser, Insert, Gives, Fails
      <4> QED BY <4>2, NowIsInTime
    <3> QED BY <3>4, <3>5
  <2>3. CASE at[p] = "insertServer"
    BY <1>3, <2>3, SameServer DEF PInv, AtIts, Written
  <2>4. CASE at[p] = "insert"
    BY <2>4, InsertMaps DEF Written
  <2>5. CASE at[p] \notin {"statement", "insertUser", "insertServer", "insert"}
    BY <2>5 DEF Written
  <2> QED BY <2>1, <2>2, <2>3, <2>4, <2>5
<1>5. db' = db \/ db' = Written(p) BY DEF Breaks
<1> QED BY <1>2, <1>4, <1>5 DEF Atomic!BreaksOff

(* A connection that fails, or a process that dies, in which case nothing  *)
(* is done.                                                                *)
LEMMA GoneMaps ==
  ASSUME IInv, NEW p \in Programs, NoConnection(p) \/ Dies(p)
  PROVE  Atomic!BreaksOff(p) \/ UNCHANGED Atomic!callVars
<1>1. Ends(p, Broken, "off") /\ db' = db BY DEF NoConnection, Dies
<1>2. CASE call[p] # NoCall BY <1>1, <1>2, EndsMaps DEF Atomic!BreaksOff
<1>3. CASE call[p] = NoCall BY <1>1, <1>3, EndsMaps DEF Atomic!callVars
<1> QED BY <1>2, <1>3

(* A call that is made. *)
LEMMA MadeMaps ==
  ASSUME IInv, NEW p \in Programs, NEW k \in Calls[p], Call(p, k) \/ CallWrapper(p, k)
  PROVE  Atomic!Make(p, k)
<1>1. call[p] = NoCall BY DEF IInv, PInv, CallOK, Call, CallWrapper
<1> QED BY <1>1 DEF Call, CallWrapper, Notes, Atomic!Make

(* Every step is one of ChitterSpec or changes nothing that it speaks of. *)
LEMMA NextMaps ==
  ASSUME IInv, [Next]_vars
  PROVE  [Atomic!Next]_(Atomic!callVars)
<1>1. CASE Tick BY <1>1 DEF Tick, Atomic!Tick, Atomic!Next
<1>2. ASSUME NEW p \in Programs, Program(p) PROVE [Atomic!Next]_(Atomic!callVars)
  <2>1. CASE Start(p) \/ Load(p) \/ Connect(p)
    BY <2>1 DEF Start, Load, Connect, Atomic!callVars
  <2>2. CASE NoConnection(p) \/ Dies(p) BY <2>2, GoneMaps DEF Atomic!Next
  <2>3. ASSUME NEW k \in Calls[p], Call(p, k) \/ CallWrapper(p, k)
        PROVE  [Atomic!Next]_(Atomic!callVars)
    BY <2>3, MadeMaps DEF Atomic!Next
  <2>4. CASE OneStatement(p) BY <2>4, StatementMaps DEF Atomic!Next
  <2>5. CASE CheckUser(p) \/ CheckServer(p) \/ GetCurrentDatetime(p)
    BY <2>5 DEF CheckUser, CheckServer, GetCurrentDatetime, GoesOn, Atomic!callVars
  <2>6. CASE VerifyUser(p) BY <2>6, VerifyMaps DEF Atomic!Next
  <2>7. CASE InsertNewUser(p) BY <2>7, NewUserMaps DEF Atomic!Next
  <2>8. CASE InsertNewServer(p) BY <2>8, NewServerMaps DEF Atomic!Next
  <2>9. CASE InsertWithTime(p)
    <3>1. call[p] # NoCall BY <2>9, AtTransaction DEF InsertWithTime, InTransaction
    <3>2. Atomic!Returns(p)
      BY <2>9, <3>1, InsertMaps, ReturnsMaps DEF InsertWithTime
    <3> QED BY <3>2 DEF Atomic!Next
  <2>10. CASE Breaks(p) BY <2>10, BreaksMaps DEF Atomic!Next
  <2> QED BY <1>2, <2>1, <2>2, <2>3, <2>4, <2>5, <2>6, <2>7, <2>8, <2>9, <2>10 DEF Program
<1>3. CASE UNCHANGED vars BY <1>3 DEF vars, Atomic!callVars
<1> QED BY <1>1, <1>2, <1>3 DEF Next

(* Every call of chitter is atomic to its caller: the transactions of all  *)
(* programs, in any order, with connections that fail and commits in       *)
(* doubt, implement ChitterSpec.                                           *)
THEOREM SpecCallsAreAtomic == Spec => CallsAreAtomic
<1>1. Init => Atomic!Init BY DEF Init, Atomic!Init
<1>2. IInv /\ [Next]_vars => [Atomic!Next]_(Atomic!callVars) BY NextMaps
<1> QED BY <1>1, <1>2, SpecIInv, PTL DEF Spec, CallsAreAtomic, Atomic!Spec

-----------------------------------------------------------------------------
(* Friends.                                                                *)

(* fetchFriends gives v for u exactly if one of them has asked the other   *)
(* and they are two: the order of the names in the row does not matter.    *)
LEMMA FriendsOf ==
  ASSUME NEW d, NEW u, NEW v
  PROVE  v \in Friends(d, u) <=> u # v /\ (AreFriends(d, u, v) \/ AreFriends(d, v, u))
<1>1. AreFriends(d, u, v) <=> \E r \in d.friends : r[1] = u /\ r[2] = v BY DEF AreFriends
<1>2. AreFriends(d, v, u) <=> \E r \in d.friends : r[1] = v /\ r[2] = u BY DEF AreFriends
<1>3. v \in Friends(d, u) <=>
        v # u /\ \E r \in d.friends : u \in {r[1], r[2]} /\ v \in {r[1], r[2]}
  BY DEF Friends
<1> QED BY <1>1, <1>2, <1>3

(* Friends are mutual whatever rows the calls leave. *)
THEOREM SpecFriendsAreMutual == Spec => []FriendsAreMutual
<1>1. FriendsAreMutual BY FriendsOf DEF FriendsAreMutual
<1> QED BY <1>1, PTL


-----------------------------------------------------------------------------
(* Folds over a sequence, from its first element to its last.              *)

Max(S) == SeqExt!Max(S)

(* Every set of numbers of a sequence has a largest one. *)
LEMMA MaxIs ==
  ASSUME NEW n \in Nat, NEW S \in SUBSET (1..n), S # {}
  PROVE  Max(S) \in S /\ \A i \in S : Max(S) >= i
<1> DEFINE T == {m \in Nat : \A R \in SUBSET (1..m) : R # {} => \E x \in R : \A i \in R : x >= i}
<1>1. 0 \in T
  <2>1. \A R \in SUBSET (1..0) : R = {} OBVIOUS
  <2> QED BY <2>1
<1>2. ASSUME NEW m \in Nat, m \in T PROVE m + 1 \in T
  <2>1. ASSUME NEW R \in SUBSET (1..(m + 1)), R # {} PROVE \E x \in R : \A i \in R : x >= i
    <3>1. CASE m + 1 \in R BY <2>1, <3>1
    <3>2. CASE m + 1 \notin R
      <4>1. R \in SUBSET (1..m) BY <3>2
      <4> QED BY <4>1, <2>1, <1>2
    <3> QED BY <3>1, <3>2
  <2> QED BY <2>1
<1>3. Nat \subseteq T BY <1>1, <1>2, Queue!CountUp
<1>4. \E x \in S : \A i \in S : x >= i BY <1>3
<1> QED BY <1>4 DEF Max, SeqExt!Max

(* The first i numbers without the last of them are the first i - 1. *)
LEMMA MaxOfAll ==
  ASSUME NEW i \in Nat \ {0}
  PROVE  Max(1..i) = i /\ (1..i) \ {i} = 1..(i - 1) /\ 1..i # {}
<1>1. 1..i # {} OBVIOUS
<1>2. Max(1..i) \in 1..i /\ \A j \in 1..i : Max(1..i) >= j BY <1>1, MaxIs
<1> QED BY <1>2

(* The recursive function in FoldLeft exists where the operator is a function. *)
IsFold(f, m, op, base, s) ==
  \A t \in SUBSET (1..m) :
    f[t] = IF t = {} THEN base ELSE op[<<f[t \ {Max(t)}], s[Max(t)]>>]

LEMMA FoldExists ==
  ASSUME NEW S, NEW E, NEW op \in [S \X E -> S], NEW base \in S, NEW s \in Seq(E)
  PROVE  \E f \in [SUBSET (1..Len(s)) -> S] : IsFold(f, Len(s), op, base, s)
<1> DEFINE Folds(f, m) == IsFold(f, m, op, base, s)
           Exists(m) == \E f \in [SUBSET (1..m) -> S] : Folds(f, m)
           T == {m \in Nat : m <= Len(s) => Exists(m)}
<1>0. Len(s) \in Nat /\ \A i \in 1..Len(s) : s[i] \in E BY LenProperties, ElementOfSeq
<1>1. 0 \in T
  <2> DEFINE f == [t \in SUBSET (1..0) |-> base]
  <2>1. \A t \in SUBSET (1..0) : t = {} OBVIOUS
  <2>2. f \in [SUBSET (1..0) -> S] /\ Folds(f, 0) BY <2>1 DEF IsFold
  <2> HIDE DEF f
  <2> QED BY <2>2
<1>2. ASSUME NEW m \in Nat, m \in T PROVE m + 1 \in T
  <2> SUFFICES ASSUME m + 1 <= Len(s) PROVE Exists(m + 1)
    <3> HIDE DEF Exists
    <3> QED OBVIOUS
  <2>1. m + 1 \in 1..Len(s) /\ m <= Len(s) /\ m + 1 \in Nat BY <1>0
  <2>2. PICK f \in [SUBSET (1..m) -> S] : Folds(f, m) BY <1>2, <2>1
  <2> DEFINE k == m + 1
             g == [t \in SUBSET (1..k) |-> IF k \in t THEN op[<<f[t \ {k}], s[k]>>] ELSE f[t]]
  <2>3. \A t \in SUBSET (1..k) : (k \in t => t \ {k} \in SUBSET (1..m))
                                /\ (k \notin t => t \in SUBSET (1..m))
    OBVIOUS
  <2>4. k \in 1..Len(s) /\ k \in Nat /\ s[k] \in E BY <2>1, <1>0
  <2>5. \A t \in SUBSET (1..m) : k \notin t /\ t \in SUBSET (1..k) BY <2>1
  <2> HIDE DEF k
  <2>6. g \in [SUBSET (1..k) -> S]
    <3>1. ASSUME NEW t \in SUBSET (1..k) PROVE (IF k \in t THEN op[<<f[t \ {k}], s[k]>>] ELSE f[t]) \in S
      <4>1. CASE k \in t
        <5>1. f[t \ {k}] \in S BY <4>1, <2>3
        <5> QED BY <4>1, <5>1, <2>4
      <4>2. CASE k \notin t BY <4>2, <2>3
      <4> QED BY <4>1, <4>2
    <3> QED BY <3>1
  <2>7. ASSUME NEW t \in SUBSET (1..m) PROVE g[t] = f[t] BY <2>5
  <2>8. ASSUME NEW t \in SUBSET (1..k)
        PROVE  g[t] = IF t = {} THEN base ELSE op[<<g[t \ {Max(t)}], s[Max(t)]>>]
    <3>1. CASE t = {}
      <4>1. t \in SUBSET (1..m) BY <3>1
      <4> QED BY <3>1, <4>1, <2>7, <2>2 DEF IsFold
    <3>2. CASE t # {} /\ k \in t
      <4>1. Max(t) \in t /\ Max(t) >= k BY <3>2, <2>4, MaxIs
      <4>2. Max(t) = k
        <5>1. Max(t) \in 1..k BY <4>1
        <5> QED BY <4>1, <5>1, <2>4
      <4>3. g[t] = op[<<f[t \ {k}], s[k]>>] BY <3>2
      <4>4. g[t \ {k}] = f[t \ {k}] BY <3>2, <2>3, <2>7
      <4> QED BY <3>2, <4>2, <4>3, <4>4
    <3>3. CASE t # {} /\ k \notin t
      <4>1. t \in SUBSET (1..m) /\ t \ {Max(t)} \in SUBSET (1..m) BY <3>3, <2>3
      <4>2. g[t] = f[t] /\ g[t \ {Max(t)}] = f[t \ {Max(t)}] BY <4>1, <2>7
      <4>3. f[t] = op[<<f[t \ {Max(t)}], s[Max(t)]>>] BY <4>1, <2>2, <3>3 DEF IsFold
      <4> QED BY <4>2, <4>3, <3>3
    <3> QED BY <3>1, <3>2, <3>3
  <2> HIDE DEF g
  <2>9. Exists(k) BY <2>6, <2>8 DEF IsFold
  <2> QED BY <2>9 DEF k
<1>3. Nat \subseteq T BY <1>1, <1>2, Queue!CountUp
<1>4. Exists(Len(s))
  <2> HIDE DEF Exists
  <2> QED BY <1>3, <1>0
<1> QED BY <1>4

(* The numbers that the fold comes to, from none to all. *)
LEMMA FromOne ==
  ASSUME NEW n \in Nat, NEW i \in 1..n
  PROVE  /\ 1..i \in SUBSET (1..n) /\ 1..i # {} /\ Max(1..i) = i /\ (1..i) \ {i} = 1..(i - 1)
         /\ 1..0 \in SUBSET (1..n) /\ 1..0 = {}
BY MaxOfAll

(* Characters that are not blank. *)
Word == Seq(Characters \ {Blank})

(* A word grows by a character that is not blank. *)
LEMMA WordIs ==
  ASSUME NEW kept \in Word, NEW c \in Characters
  PROVE  KeepChar(kept, c) \in Word
<1>1. CASE c = Blank BY <1>1 DEF KeepChar
<1>2. CASE c # Blank BY <1>2, AppendProperties DEF KeepChar, Word
<1> QED BY <1>1, <1>2

(* There are no blanks in what toString returns. *)
LEMMA ToStringIs ==
  ASSUME NEW text \in Seq(Characters)
  PROVE  ToString(text) \in Word
<1> DEFINE n == Len(text)
           op == [x \in Word \X Characters |-> KeepChar(x[1], x[2])]
           Folds(g) == g = [t \in SUBSET DOMAIN text |->
                             IF t = {} THEN <<>> ELSE KeepChar(g[t \ {Max(t)}], text[Max(t)])]
           g == CHOOSE g : Folds(g)
<1>1. n \in Nat /\ DOMAIN text = 1..n /\ \A i \in 1..n : text[i] \in Characters
  BY LenProperties, ElementOfSeq
<1>2. op \in [Word \X Characters -> Word] BY WordIs
<1>3. <<>> \in Word BY EmptySeq DEF Word
<1>4. PICK f \in [SUBSET (1..n) -> Word] : IsFold(f, n, op, <<>>, text)
  <2> HIDE DEF op
  <2> QED BY <1>2, <1>3, FoldExists
<1>5. Folds(f)
  <2>1. ASSUME NEW t \in SUBSET (1..n), t # {}
        PROVE  f[t] = KeepChar(f[t \ {Max(t)}], text[Max(t)])
    <3>1. Max(t) \in 1..n BY <2>1, <1>1, MaxIs
    <3>2. f[t] = op[<<f[t \ {Max(t)}], text[Max(t)]>>] BY <1>4, <2>1 DEF IsFold
    <3>3. t \ {Max(t)} \in SUBSET (1..n) OBVIOUS
    <3>4. f[t \ {Max(t)}] \in Word /\ text[Max(t)] \in Characters BY <3>1, <3>3, <1>1, <1>4
    <3> QED BY <3>2, <3>4
  <2>2. f[{}] = <<>> BY <1>4 DEF IsFold
  <2>3. f = [t \in SUBSET (1..n) |-> f[t]] BY <1>4
  <2>4. f = [t \in SUBSET (1..n) |-> IF t = {} THEN <<>> ELSE KeepChar(f[t \ {Max(t)}], text[Max(t)])]
    BY <2>1, <2>2, <2>3, Zenon
  <2> QED BY <2>4, <1>1
<1>6. Folds(g)
  <2> HIDE DEF Folds
  <2> QED BY <1>5
<1>7. ToString(text) = g[DOMAIN text]
  BY DEF ToString, SeqExt!FoldLeft, SeqExt!MapThenFoldSet, Max
<1> HIDE DEF g
<1>8. \A i \in 1..n : g[1..i] = KeepChar(g[1..(i - 1)], text[i])
  <2>1. ASSUME NEW i \in 1..n PROVE g[1..i] = KeepChar(g[1..(i - 1)], text[i])
    <3>1. 1..i \in SUBSET (1..n) /\ 1..i # {} /\ Max(1..i) = i /\ (1..i) \ {i} = 1..(i - 1) BY <1>1, FromOne
    <3> HIDE DEF n
    <3> QED BY <3>1, <1>6, <1>1
  <2> QED BY <2>1
<1> DEFINE T == {i \in Nat : i <= n => g[1..i] \in Word}
<1>9. 0 \in T
  <2>1. 1..0 = {} /\ 1..0 \in SUBSET (1..n) OBVIOUS
  <2>2. g[{}] = <<>> BY <1>6, <1>1
  <2> QED BY <2>1, <2>2, <1>3
<1>10. ASSUME NEW i \in Nat, i \in T PROVE i + 1 \in T
  <2>1. ASSUME i + 1 <= n PROVE g[1..(i + 1)] \in Word
    <3>1. i + 1 \in 1..n /\ i <= n /\ (i + 1) - 1 = i BY <2>1, <1>1
    <3>2. g[1..(i + 1)] = KeepChar(g[1..i], text[i + 1]) BY <3>1, <1>8
    <3>3. g[1..i] \in Word BY <3>1, <1>10
    <3> QED BY <3>1, <3>2, <3>3, <1>1, WordIs
  <2> QED BY <2>1
<1>11. Nat \subseteq T BY <1>9, <1>10, Queue!CountUp
<1>12. g[1..n] \in Word BY <1>11, <1>1
<1> QED BY <1>7, <1>12, <1>1

-----------------------------------------------------------------------------
(* What is read of the section with the settings of the database.          *)

(* The nodes of the section, and what has been read after some of them. *)
NodeRows == [element : STRING, text : Seq(Characters)]
Settings == [Fields -> Word]
NoSettings == [f \in Fields |-> <<>>]
SoFar == [count : Nat, config : Settings]

(* Every element has a field of its own. *)
LEMMA FieldIs ==
  /\ DOMAIN FieldOf = {"databaseType", "username", "password", "ip", "port", "databaseName"}
  /\ \A e \in DOMAIN FieldOf : FieldOf[e] \in Fields
  /\ \A e, d \in DOMAIN FieldOf : FieldOf[e] = FieldOf[d] => e = d
  /\ FieldOf["username"] = "username" /\ FieldOf["password"] = "password"
  /\ FieldOf["ip"] = "ip" /\ FieldOf["databaseName"] = "name"
<1>1. DOMAIN FieldOf = {"databaseType", "username", "password", "ip", "port", "databaseName"}
  BY DEF FieldOf
<1>2. \A e \in DOMAIN FieldOf : FieldOf[e] \in Fields BY DEF Fields
<1>3. /\ FieldOf["databaseType"] = "type" /\ FieldOf["username"] = "username"
      /\ FieldOf["password"] = "password" /\ FieldOf["ip"] = "ip" /\ FieldOf["port"] = "port"
      /\ FieldOf["databaseName"] = "name"
  BY DEF FieldOf
<1>4. \A e, d \in DOMAIN FieldOf : FieldOf[e] = FieldOf[d] => e = d BY <1>1, <1>3
<1> QED BY <1>1, <1>2, <1>3, <1>4

(* What one node does to what has been read. *)
LEMMA ReadFieldIs ==
  ASSUME NEW soFar \in SoFar, NEW node \in NodeRows
  PROVE  /\ ReadField(soFar, node) \in SoFar
         /\ node.element \notin DOMAIN FieldOf => ReadField(soFar, node) = soFar
         /\ node.element \in DOMAIN FieldOf =>
              /\ ReadField(soFar, node).count = soFar.count + 1
              /\ \A f \in Fields : ReadField(soFar, node).config[f] =
                   IF f = FieldOf[node.element] THEN ToString(node.text) ELSE soFar.config[f]
<1>1. ToString(node.text) \in Word BY ToStringIs DEF NodeRows
<1>2. CASE node.element \in DOMAIN FieldOf
  <2>1. FieldOf[node.element] \in Fields BY <1>2, FieldIs
  <2>2. soFar.count \in Nat /\ soFar.config \in [Fields -> Word] BY DEF SoFar, Settings
  <2>3. ReadField(soFar, node) =
          [count |-> soFar.count + 1,
           config |-> [soFar.config EXCEPT ![FieldOf[node.element]] = ToString(node.text)]]
    BY <1>2 DEF ReadField
  <2> DEFINE c == [soFar.config EXCEPT ![FieldOf[node.element]] = ToString(node.text)]
  <2>4. c \in Settings BY <1>1, <2>1, <2>2 DEF Settings
  <2>5. \A f \in Fields : c[f] = IF f = FieldOf[node.element] THEN ToString(node.text) ELSE soFar.config[f]
    BY <2>1, <2>2
  <2> HIDE DEF c
  <2>6. ReadField(soFar, node) = [count |-> soFar.count + 1, config |-> c] BY <2>3 DEF c
  <2> QED BY <1>2, <2>2, <2>4, <2>5, <2>6 DEF SoFar
<1>3. CASE node.element \notin DOMAIN FieldOf BY <1>3 DEF ReadField
<1> QED BY <1>2, <1>3

(* The fold of ReadFields, step by step. *)
LEMMA ReadFieldsIs ==
  ASSUME NEW nodes \in Seq(NodeRows)
  PROVE  \E r \in [0..Len(nodes) -> SoFar] :
           /\ r[0] = [count |-> 0, config |-> NoSettings]
           /\ \A i \in 1..Len(nodes) : r[i] = ReadField(r[i - 1], nodes[i])
           /\ ReadFields(nodes) = r[Len(nodes)]
<1> DEFINE n == Len(nodes)
           base == [count |-> 0, config |-> NoSettings]
           op == [x \in SoFar \X NodeRows |-> ReadField(x[1], x[2])]
           Folds(g) == g = [t \in SUBSET DOMAIN nodes |->
                             IF t = {} THEN base ELSE ReadField(g[t \ {Max(t)}], nodes[Max(t)])]
           g == CHOOSE g : Folds(g)
<1>1. n \in Nat /\ DOMAIN nodes = 1..n /\ \A i \in 1..n : nodes[i] \in NodeRows
  BY LenProperties, ElementOfSeq
<1>2. op \in [SoFar \X NodeRows -> SoFar] BY ReadFieldIs
<1>3. base \in SoFar BY EmptySeq DEF SoFar, Settings, NoSettings, Word
<1>4. PICK f \in [SUBSET (1..n) -> SoFar] : IsFold(f, n, op, base, nodes)
  <2> HIDE DEF op, base
  <2> QED BY <1>2, <1>3, FoldExists
<1> HIDE DEF base
<1>5. Folds(f)
  <2>1. ASSUME NEW t \in SUBSET (1..n), t # {}
        PROVE  f[t] = ReadField(f[t \ {Max(t)}], nodes[Max(t)])
    <3>1. Max(t) \in 1..n BY <2>1, <1>1, MaxIs
    <3>2. f[t] = op[<<f[t \ {Max(t)}], nodes[Max(t)]>>] BY <1>4, <2>1 DEF IsFold
    <3>3. t \ {Max(t)} \in SUBSET (1..n) OBVIOUS
    <3>4. f[t \ {Max(t)}] \in SoFar /\ nodes[Max(t)] \in NodeRows BY <3>1, <3>3, <1>1, <1>4
    <3> QED BY <3>2, <3>4
  <2>2. f[{}] = base BY <1>4 DEF IsFold
  <2>3. f = [t \in SUBSET (1..n) |-> f[t]] BY <1>4
  <2>4. f = [t \in SUBSET (1..n) |-> IF t = {} THEN base ELSE ReadField(f[t \ {Max(t)}], nodes[Max(t)])]
    BY <2>1, <2>2, <2>3, Zenon
  <2> QED BY <2>4, <1>1
<1>6. Folds(g)
  <2> HIDE DEF Folds
  <2> QED BY <1>5
<1>7. ReadFields(nodes) = g[DOMAIN nodes]
  BY DEF ReadFields, SeqExt!FoldLeft, SeqExt!MapThenFoldSet, Max, base, NoSettings
<1> HIDE DEF g
<1>8. ASSUME NEW i \in 1..n PROVE g[1..i] = ReadField(g[1..(i - 1)], nodes[i])
  <2>1. 1..i \in SUBSET (1..n) /\ 1..i # {} /\ Max(1..i) = i /\ (1..i) \ {i} = 1..(i - 1)
    BY <1>1, FromOne
  <2> HIDE DEF n
  <2> QED BY <2>1, <1>6, <1>1
<1>9. g[1..0] = base
  <2>1. 1..0 = {} /\ 1..0 \in SUBSET (1..n) OBVIOUS
  <2> QED BY <2>1, <1>6, <1>1
<1> DEFINE T == {i \in Nat : i <= n => g[1..i] \in SoFar}
<1>10. 0 \in T BY <1>9, <1>3
<1>11. ASSUME NEW i \in Nat, i \in T PROVE i + 1 \in T
  <2>1. ASSUME i + 1 <= n PROVE g[1..(i + 1)] \in SoFar
    <3>1. i + 1 \in 1..n /\ i <= n /\ (i + 1) - 1 = i BY <2>1, <1>1
    <3>2. g[1..(i + 1)] = ReadField(g[1..i], nodes[i + 1]) BY <3>1, <1>8
    <3>3. g[1..i] \in SoFar BY <3>1, <1>11
    <3> QED BY <3>1, <3>2, <3>3, <1>1, ReadFieldIs
  <2> QED BY <2>1
<1>12. Nat \subseteq T BY <1>10, <1>11, Queue!CountUp
<1> DEFINE r == [i \in 0..n |-> g[1..i]]
<1>13. r \in [0..n -> SoFar]
  <2>1. \A i \in 0..n : i \in Nat /\ i <= n BY <1>1
  <2> QED BY <2>1, <1>12
<1>14. r[0] = base /\ r[n] = g[1..n] /\ \A i \in 1..n : r[i] = g[1..i] /\ r[i - 1] = g[1..(i - 1)]
  <2>1. 0 \in 0..n /\ n \in 0..n /\ \A i \in 1..n : i \in 0..n /\ i - 1 \in 0..n BY <1>1
  <2> QED BY <2>1, <1>9
<1> HIDE DEF r
<1>15. /\ r[0] = base /\ \A i \in 1..n : r[i] = ReadField(r[i - 1], nodes[i])
       /\ ReadFields(nodes) = r[n]
  BY <1>1, <1>7, <1>8, <1>14
<1> QED BY <1>13, <1>15 DEF base

-----------------------------------------------------------------------------
(* What libpq makes of a connection string.                                *)

(* The states of the parser. *)
Parser == [key : Keywords \cup {NoNode}, valid : BOOLEAN, options : [Keywords -> Seq(Characters)]]
NoOptions == [key |-> NoNode, valid |-> TRUE, options |-> [k \in Keywords |-> <<>>]]
Parsed(string) == SeqExt!FoldLeft(ParseChar, NoOptions, string)

(* One character takes the parser to a state again. *)
LEMMA ParseCharIs ==
  ASSUME NEW p \in Parser, NEW c \in Characters
  PROVE  ParseChar(p, c) \in Parser
<1>1. /\ p.key \in Keywords \cup {NoNode} /\ p.valid \in BOOLEAN
      /\ p.options \in [Keywords -> Seq(Characters)]
      /\ p = [key |-> p.key, valid |-> p.valid, options |-> p.options]
  BY DEF Parser
<1>2. CASE c = Blank
  <2>1. [p EXCEPT !.key = NoNode] \in Parser BY <1>1 DEF Parser
  <2> QED BY <1>2, <2>1 DEF ParseChar
<1>3. CASE c # Blank /\ p.key # NoNode
  <2>1. p.key \in Keywords BY <1>1, <1>3
  <2>2. Append(p.options[p.key], c) \in Seq(Characters) BY <2>1, <1>1, AppendProperties
  <2> DEFINE o == [p.options EXCEPT ![p.key] = Append(@, c)]
  <2>3. o \in [Keywords -> Seq(Characters)] BY <1>1, <2>1, <2>2
  <2>4. ParseChar(p, c) = [p EXCEPT !.options[p.key] = Append(@, c)] BY <1>3 DEF ParseChar
  <2>5. ParseChar(p, c) = [p EXCEPT !.options = o] BY <2>4
  <2> HIDE DEF o
  <2> QED BY <2>3, <2>5, <1>1 DEF Parser
<1>4. CASE c # Blank /\ p.key = NoNode
  <2>1. CASE c \in Keywords
    <3> DEFINE o == [p.options EXCEPT ![c] = <<>>]
    <3>1. o \in [Keywords -> Seq(Characters)] BY <1>1, <2>1, EmptySeq
    <3>2. ParseChar(p, c) = [p EXCEPT !.key = c, !.options[c] = <<>>] BY <1>4, <2>1 DEF ParseChar
    <3>3. ParseChar(p, c) = [p EXCEPT !.key = c, !.options = o] BY <3>2
    <3> HIDE DEF o
    <3> QED BY <3>1, <3>3, <2>1, <1>1 DEF Parser
  <2>2. CASE c \notin Keywords
    <3>1. ParseChar(p, c) = [p EXCEPT !.valid = FALSE] BY <1>4, <2>2 DEF ParseChar
    <3> QED BY <3>1, <1>1 DEF Parser
  <2> QED BY <2>1, <2>2
<1> QED BY <1>2, <1>3, <1>4

(* The fold of ConninfoParse, step by step. *)
LEMMA ParseIs ==
  ASSUME NEW string \in Seq(Characters)
  PROVE  \E r \in [0..Len(string) -> Parser] :
           /\ r[0] = NoOptions
           /\ \A i \in 1..Len(string) : r[i] = ParseChar(r[i - 1], string[i])
           /\ Parsed(string) = r[Len(string)]
<1> DEFINE n == Len(string)
           base == NoOptions
           op == [x \in Parser \X Characters |-> ParseChar(x[1], x[2])]
           Folds(g) == g = [t \in SUBSET DOMAIN string |->
                             IF t = {} THEN base ELSE ParseChar(g[t \ {Max(t)}], string[Max(t)])]
           g == CHOOSE g : Folds(g)
<1>1. n \in Nat /\ DOMAIN string = 1..n /\ \A i \in 1..n : string[i] \in Characters
  BY LenProperties, ElementOfSeq
<1>2. op \in [Parser \X Characters -> Parser] BY ParseCharIs
<1>3. base \in Parser BY EmptySeq DEF Parser, NoOptions
<1>4. PICK f \in [SUBSET (1..n) -> Parser] : IsFold(f, n, op, base, string)
  <2> HIDE DEF op, base
  <2> QED BY <1>2, <1>3, FoldExists
<1> HIDE DEF base
<1>5. Folds(f)
  <2>1. ASSUME NEW t \in SUBSET (1..n), t # {}
        PROVE  f[t] = ParseChar(f[t \ {Max(t)}], string[Max(t)])
    <3>1. Max(t) \in 1..n BY <2>1, <1>1, MaxIs
    <3>2. f[t] = op[<<f[t \ {Max(t)}], string[Max(t)]>>] BY <1>4, <2>1 DEF IsFold
    <3>3. t \ {Max(t)} \in SUBSET (1..n) OBVIOUS
    <3>4. f[t \ {Max(t)}] \in Parser /\ string[Max(t)] \in Characters BY <3>1, <3>3, <1>1, <1>4
    <3> QED BY <3>2, <3>4
  <2>2. f[{}] = base BY <1>4 DEF IsFold
  <2>3. f = [t \in SUBSET (1..n) |-> f[t]] BY <1>4
  <2>4. f = [t \in SUBSET (1..n) |-> IF t = {} THEN base ELSE ParseChar(f[t \ {Max(t)}], string[Max(t)])]
    BY <2>1, <2>2, <2>3, Zenon
  <2> QED BY <2>4, <1>1
<1>6. Folds(g)
  <2> HIDE DEF Folds
  <2> QED BY <1>5
<1>7. Parsed(string) = g[DOMAIN string]
  BY DEF Parsed, SeqExt!FoldLeft, SeqExt!MapThenFoldSet, Max, base, NoOptions
<1> HIDE DEF g
<1>8. ASSUME NEW i \in 1..n PROVE g[1..i] = ParseChar(g[1..(i - 1)], string[i])
  <2>1. 1..i \in SUBSET (1..n) /\ 1..i # {} /\ Max(1..i) = i /\ (1..i) \ {i} = 1..(i - 1)
    BY <1>1, FromOne
  <2> HIDE DEF n
  <2> QED BY <2>1, <1>6, <1>1
<1>9. g[1..0] = base
  <2>1. 1..0 = {} /\ 1..0 \in SUBSET (1..n) OBVIOUS
  <2> QED BY <2>1, <1>6, <1>1
<1> DEFINE T == {i \in Nat : i <= n => g[1..i] \in Parser}
<1>10. 0 \in T BY <1>9, <1>3
<1>11. ASSUME NEW i \in Nat, i \in T PROVE i + 1 \in T
  <2>1. ASSUME i + 1 <= n PROVE g[1..(i + 1)] \in Parser
    <3>1. i + 1 \in 1..n /\ i <= n /\ (i + 1) - 1 = i BY <2>1, <1>1
    <3>2. g[1..(i + 1)] = ParseChar(g[1..i], string[i + 1]) BY <3>1, <1>8
    <3>3. g[1..i] \in Parser BY <3>1, <1>11
    <3> QED BY <3>1, <3>2, <3>3, <1>1, ParseCharIs
  <2> QED BY <2>1
<1>12. Nat \subseteq T BY <1>10, <1>11, Queue!CountUp
<1> DEFINE r == [i \in 0..n |-> g[1..i]]
<1>13. r \in [0..n -> Parser]
  <2>1. \A i \in 0..n : i \in Nat /\ i <= n BY <1>1
  <2> QED BY <2>1, <1>12
<1>14. r[0] = base /\ r[n] = g[1..n] /\ \A i \in 1..n : r[i] = g[1..i] /\ r[i - 1] = g[1..(i - 1)]
  <2>1. 0 \in 0..n /\ n \in 0..n /\ \A i \in 1..n : i \in 0..n /\ i - 1 \in 0..n BY <1>1
  <2> QED BY <2>1, <1>9
<1> HIDE DEF r
<1>15. /\ r[0] = base /\ \A i \in 1..n : r[i] = ParseChar(r[i - 1], string[i])
       /\ Parsed(string) = r[n]
  BY <1>1, <1>7, <1>8, <1>14
<1> QED BY <1>13, <1>15 DEF base

-----------------------------------------------------------------------------
(* Every field is what the last element for it gives, and nothing as long as *)
(* there is none.                                                            *)
IsGiven(nodes, i, e) == \E j \in 1..i : nodes[j].element = e

LEMMA LastGiven ==
  ASSUME NEW nodes \in Seq(NodeRows), NEW r \in [0..Len(nodes) -> SoFar],
         r[0] = [count |-> 0, config |-> NoSettings],
         \A i \in 1..Len(nodes) : r[i] = ReadField(r[i - 1], nodes[i]),
         NEW e \in DOMAIN FieldOf
  PROVE  LET field == r[Len(nodes)].config[FieldOf[e]] IN
         /\ ~IsGiven(nodes, Len(nodes), e) => field = <<>>
         /\ \A j \in 1..Len(nodes) :
              nodes[j].element = e /\ (\A k \in (j + 1)..Len(nodes) : nodes[k].element # e)
                => field = ToString(nodes[j].text)
<1> DEFINE n == Len(nodes)
           Value(i) == r[i].config[FieldOf[e]]
           Holds(i) == /\ ~IsGiven(nodes, i, e) => Value(i) = <<>>
                       /\ \A j \in 1..i :
                            nodes[j].element = e /\ (\A k \in (j + 1)..i : nodes[k].element # e)
                              => Value(i) = ToString(nodes[j].text)
           T == {i \in Nat : i <= n => Holds(i)}
<1>1. n \in Nat /\ \A i \in 1..n : nodes[i] \in NodeRows BY LenProperties, ElementOfSeq
<1>2. FieldOf[e] \in Fields BY FieldIs
<1>3. 0 \in T
  <2>1. Value(0) = <<>> BY <1>2 DEF NoSettings
  <2> QED BY <2>1
<1>4. ASSUME NEW i \in Nat, i \in T PROVE i + 1 \in T
  <2> SUFFICES ASSUME i + 1 <= n PROVE Holds(i + 1)
    <3> HIDE DEF Holds
    <3> QED OBVIOUS
  <2> DEFINE h == i + 1
             node == nodes[h]
  <2>1. h \in 1..n /\ i \in 0..n /\ i <= n /\ h - 1 = i BY <1>1
  <2>2. Holds(i) BY <1>4, <2>1
  <2>3. /\ node \in NodeRows /\ r[i] \in SoFar /\ r[h] = ReadField(r[i], node) BY <1>1, <2>1
  <2>4. \A k \in 1..h : k \in 1..i \/ k = h BY <2>1
  <2> HIDE DEF node
  <2>5. CASE node.element = e
    <3>1. Value(h) = ToString(node.text)
      <4> DEFINE p == r[i]
                 q == r[h]
      <4>1. p \in SoFar /\ node \in NodeRows /\ q = ReadField(p, node) BY <2>3
      <4> HIDE DEF p, q
      <4>2. q.config[FieldOf[e]] = ToString(node.text) BY <4>1, <2>5, <1>2, ReadFieldIs
      <4> QED BY <4>2 DEF q
    <3>2. IsGiven(nodes, h, e) BY <2>1, <2>5 DEF IsGiven, node
    <3>3. ASSUME NEW j \in 1..h, nodes[j].element = e, \A k \in (j + 1)..h : nodes[k].element # e
          PROVE  j = h
      <4>1. CASE j # h
        <5>1. h \in (j + 1)..h BY <4>1, <2>4, <2>1
        <5> QED BY <5>1, <3>3, <2>5 DEF node
      <4> QED BY <4>1
    <3> HIDE DEF h, Value
    <3> QED BY <3>1, <3>2, <3>3 DEF node, h
  <2>6. CASE node.element # e
    <3>1. Value(h) = Value(i)
      <4> DEFINE p == r[i]
                 q == r[h]
      <4>1. p \in SoFar /\ node \in NodeRows /\ q = ReadField(p, node) BY <2>3
      <4> HIDE DEF p, q
      <4>2. CASE node.element \in DOMAIN FieldOf
        <5>1. FieldOf[node.element] # FieldOf[e] BY <4>2, <2>6, FieldIs
        <5>2. q.config[FieldOf[e]] = p.config[FieldOf[e]] BY <4>1, <4>2, <5>1, <1>2, ReadFieldIs
        <5> QED BY <5>2 DEF p, q
      <4>3. CASE node.element \notin DOMAIN FieldOf
        <5>1. q = p BY <4>1, <4>3, ReadFieldIs
        <5> QED BY <5>1 DEF p, q
      <4> QED BY <4>2, <4>3
    <3>2. IsGiven(nodes, i, e) => IsGiven(nodes, h, e)
      <4>1. \A k \in 1..i : k \in 1..h BY <2>1
      <4> QED BY <4>1 DEF IsGiven
    <3>3. ASSUME NEW j \in 1..h, nodes[j].element = e, \A k \in (j + 1)..h : nodes[k].element # e
          PROVE  Value(h) = ToString(nodes[j].text)
      <4>1. j \in 1..i BY <2>4, <2>6, <3>3 DEF node
      <4>2. \A k \in (j + 1)..i : k \in (j + 1)..h BY <2>1
      <4> HIDE DEF h, Value
      <4> QED BY <4>1, <4>2, <3>3, <3>1, <2>2
    <3> HIDE DEF h, Value
    <3> QED BY <3>1, <3>2, <3>3, <2>2 DEF h
  <2> QED BY <2>5, <2>6
<1>5. Nat \subseteq T
  <2> HIDE DEF T
  <2> QED BY <1>3, <1>4, Queue!CountUp
<1>6. Holds(n)
  <2> HIDE DEF Holds
  <2> QED BY <1>5, <1>1
<1> QED BY <1>6

(* As long as no field is given twice, what is counted is the fields given. *)
FieldsGiven(nodes, i) == {e \in DOMAIN FieldOf : IsGiven(nodes, i, e)}

(* There are six fields, so counting to six is counting them all. *)
LEMMA SixFields == IsFiniteSet(DOMAIN FieldOf) /\ Cardinality(DOMAIN FieldOf) = 6
<1> DEFINE S1 == {"databaseType"}
           S2 == S1 \cup {"username"}
           S3 == S2 \cup {"password"}
           S4 == S3 \cup {"ip"}
           S5 == S4 \cup {"port"}
           S6 == S5 \cup {"databaseName"}
<1>1. DOMAIN FieldOf = S6 BY FieldIs
<1>2. /\ "username" \notin S1 /\ "password" \notin S2 /\ "ip" \notin S3 /\ "port" \notin S4
      /\ "databaseName" \notin S5
  OBVIOUS
<1>3. IsFiniteSet(S1) /\ Cardinality(S1) = 1 BY FS_Singleton
<1> HIDE DEF S1
<1>4. IsFiniteSet(S2) /\ Cardinality(S2) = 2 BY <1>2, <1>3, FS_AddElement
<1> HIDE DEF S2
<1>5. IsFiniteSet(S3) /\ Cardinality(S3) = 3 BY <1>2, <1>4, FS_AddElement
<1> HIDE DEF S3
<1>6. IsFiniteSet(S4) /\ Cardinality(S4) = 4 BY <1>2, <1>5, FS_AddElement
<1> HIDE DEF S4
<1>7. IsFiniteSet(S5) /\ Cardinality(S5) = 5 BY <1>2, <1>6, FS_AddElement
<1> HIDE DEF S5
<1>8. IsFiniteSet(S6) /\ Cardinality(S6) = 6 BY <1>2, <1>7, FS_AddElement
<1> QED BY <1>1, <1>8

LEMMA CountIs ==
  ASSUME NEW nodes \in Seq(NodeRows), NEW r \in [0..Len(nodes) -> SoFar],
         r[0] = [count |-> 0, config |-> NoSettings],
         \A i \in 1..Len(nodes) : r[i] = ReadField(r[i - 1], nodes[i]),
         \A i, j \in 1..Len(nodes) :
           nodes[i].element = nodes[j].element /\ nodes[i].element \in DOMAIN FieldOf => i = j
  PROVE  r[Len(nodes)].count = Cardinality(FieldsGiven(nodes, Len(nodes)))
<1> DEFINE n == Len(nodes)
           Holds(i) == r[i].count = Cardinality(FieldsGiven(nodes, i))
           T == {i \in Nat : i <= n => Holds(i)}
<1>1. n \in Nat /\ \A i \in 1..n : nodes[i] \in NodeRows BY LenProperties, ElementOfSeq
<1>2. 0 \in T
  <2>1. FieldsGiven(nodes, 0) = {} BY DEF FieldsGiven, IsGiven
  <2>2. r[0].count = 0 OBVIOUS
  <2>3. Holds(0) BY <2>1, <2>2, FS_EmptySet
  <2> QED BY <2>3
<1>3. ASSUME NEW i \in Nat, i \in T PROVE i + 1 \in T
  <2> SUFFICES ASSUME i + 1 <= n PROVE Holds(i + 1)
    <3> HIDE DEF Holds
    <3> QED OBVIOUS
  <2> DEFINE h == i + 1
             node == nodes[h]
             p == r[i]
             q == r[h]
  <2>1. h \in 1..n /\ i \in 0..n /\ i <= n /\ h - 1 = i BY <1>1
  <2>2. Holds(i) BY <1>3, <2>1
  <2>3. node \in NodeRows /\ p \in SoFar /\ q = ReadField(p, node) BY <1>1, <2>1
  <2>4. \A k \in 1..h : k \in 1..i \/ k = h BY <2>1
  <2>5. \A k \in 1..i : k \in 1..h /\ k \in 1..n /\ k # h BY <2>1
  <2> HIDE DEF node, p, q, h
  <2>6. \A e : IsGiven(nodes, h, e) <=> IsGiven(nodes, i, e) \/ e = node.element
    BY <2>1, <2>4, <2>5 DEF IsGiven, node
  <2>7. IsFiniteSet(FieldsGiven(nodes, i)) BY SixFields, FS_Subset DEF FieldsGiven
  <2>8. CASE node.element \in DOMAIN FieldOf
    <3>1. node.element \notin FieldsGiven(nodes, i) BY <2>1, <2>5, <2>8 DEF FieldsGiven, IsGiven, node
    <3>2. FieldsGiven(nodes, h) = FieldsGiven(nodes, i) \cup {node.element}
      BY <2>6, <2>8 DEF FieldsGiven
    <3>3. Cardinality(FieldsGiven(nodes, h)) = Cardinality(FieldsGiven(nodes, i)) + 1
      BY <2>7, <3>1, <3>2, FS_AddElement
    <3>4. q.count = p.count + 1 BY <2>3, <2>8, ReadFieldIs
    <3> QED BY <3>3, <3>4, <2>2 DEF p, q, h
  <2>9. CASE node.element \notin DOMAIN FieldOf
    <3>1. FieldsGiven(nodes, h) = FieldsGiven(nodes, i) BY <2>6, <2>9 DEF FieldsGiven
    <3>2. q = p BY <2>3, <2>9, ReadFieldIs
    <3> QED BY <3>1, <3>2, <2>2 DEF p, q, h
  <2> QED BY <2>8, <2>9
<1>4. Nat \subseteq T
  <2> HIDE DEF T
  <2> QED BY <1>2, <1>3, Queue!CountUp
<1>5. Holds(n)
  <2> HIDE DEF Holds
  <2> QED BY <1>4, <1>1
<1> QED BY <1>5

(* Together. *)
LEMMA LoadIs ==
  ASSUME NEW nodes \in Seq(NodeRows)
  PROVE  LET given(e) == {i \in DOMAIN nodes : nodes[i].element = e}
             read     == ReadFields(nodes)
         IN  /\ read \in SoFar
             /\ (\A e \in DOMAIN FieldOf : \A i, j \in given(e) : i = j) =>
                  (~(read.count < 6) <=> \A e \in DOMAIN FieldOf : given(e) # {})
             /\ \A e \in DOMAIN FieldOf : read.config[FieldOf[e]] # <<>> =>
                  read.config[FieldOf[e]] = ToString(nodes[Max(given(e))].text)
<1> DEFINE n == Len(nodes)
           given(e) == {i \in DOMAIN nodes : nodes[i].element = e}
<1>1. n \in Nat /\ DOMAIN nodes = 1..n BY LenProperties
<1>2. PICK r \in [0..n -> SoFar] :
           /\ r[0] = [count |-> 0, config |-> NoSettings]
           /\ \A i \in 1..n : r[i] = ReadField(r[i - 1], nodes[i])
           /\ ReadFields(nodes) = r[n]
  BY ReadFieldsIs
<1>3. ReadFields(nodes) \in SoFar BY <1>1, <1>2
<1>4. \A e : IsGiven(nodes, n, e) <=> given(e) # {} BY <1>1 DEF IsGiven
<1>5. ASSUME \A e \in DOMAIN FieldOf : \A i, j \in given(e) : i = j
      PROVE  ~(ReadFields(nodes).count < 6) <=> \A e \in DOMAIN FieldOf : given(e) # {}
  <2>1. \A i, j \in 1..n :
          nodes[i].element = nodes[j].element /\ nodes[i].element \in DOMAIN FieldOf => i = j
    BY <1>5, <1>1
  <2> DEFINE S == FieldsGiven(nodes, n)
  <2>2. ReadFields(nodes).count = Cardinality(S) BY <1>2, <2>1, CountIs
  <2>3. S \subseteq DOMAIN FieldOf BY DEF FieldsGiven
  <2>4. /\ Cardinality(S) \in Nat /\ Cardinality(S) <= 6
        /\ Cardinality(S) = 6 => S = DOMAIN FieldOf
    <3> HIDE DEF S
    <3> QED BY <2>3, SixFields, FS_Subset, FS_CardinalityType
  <2>5. S = DOMAIN FieldOf => Cardinality(S) = 6 BY SixFields
  <2>6. S = DOMAIN FieldOf <=> \A e \in DOMAIN FieldOf : given(e) # {} BY <1>4 DEF FieldsGiven
  <2> HIDE DEF S
  <2> QED BY <2>2, <2>4, <2>5, <2>6
<1>6. ASSUME NEW e \in DOMAIN FieldOf, ReadFields(nodes).config[FieldOf[e]] # <<>>
      PROVE  ReadFields(nodes).config[FieldOf[e]] = ToString(nodes[Max(given(e))].text)
  <2>1. given(e) # {} /\ given(e) \in SUBSET (1..n)
    <3>1. IsGiven(nodes, n, e) BY <1>2, <1>6, LastGiven
    <3> QED BY <3>1, <1>4, <1>1
  <2> DEFINE m == Max(given(e))
  <2>2. m \in given(e) /\ \A i \in given(e) : m >= i BY <2>1, <1>1, MaxIs
  <2> HIDE DEF m
  <2>3. ASSUME NEW k \in (m + 1)..n PROVE nodes[k].element # e
    <3>1. k \in 1..n /\ ~(m >= k) BY <2>1, <2>2, <1>1
    <3> QED BY <3>1, <2>2, <1>1
  <2>4. m \in 1..n /\ nodes[m].element = e BY <2>2, <1>1
  <2>5. r[n].config[FieldOf[e]] = ToString(nodes[m].text) BY <1>2, <2>3, <2>4, LastGiven
  <2> QED BY <2>5, <1>2 DEF m
<1> QED BY <1>3, <1>5, <1>6

-----------------------------------------------------------------------------
(* A keyword, its value, and a blank: how the parser goes on.              *)

(* The parser in the value of kw, after the options o. *)
Options == [Keywords -> Seq(Characters)]
InValue(kw, o) == [key |-> kw, valid |-> TRUE, options |-> o]

(* The characters of an option: the keyword, one of the value, the blank. *)
LEMMA ParserSteps ==
  ASSUME NEW kw \in Keywords, NEW o \in Options, NEW c \in Characters
  PROVE  /\ c # Blank => ParseChar(InValue(kw, o), c) = InValue(kw, [o EXCEPT ![kw] = Append(@, c)])
         /\ o[kw] # <<>> => ParseChar(InValue(kw, o), Blank) = InValue(NoNode, o)
         /\ c \in Keywords => ParseChar(InValue(NoNode, o), c) = InValue(c, [o EXCEPT ![c] = <<>>])
<1>1. kw # NoNode /\ kw # Blank /\ \A k \in Keywords : k # Blank /\ k # NoNode
  BY NoResultAssumption
<1>2. ASSUME c # Blank
      PROVE  ParseChar(InValue(kw, o), c) = InValue(kw, [o EXCEPT ![kw] = Append(@, c)])
  <2> DEFINE p == InValue(kw, o)
  <2>1. p.key = kw /\ p.options = o BY DEF InValue
  <2>2. ParseChar(p, c) = [p EXCEPT !.options[p.key] = Append(@, c)] BY <1>1, <1>2, <2>1 DEF ParseChar
  <2>3. ParseChar(p, c) = [p EXCEPT !.options = [o EXCEPT ![kw] = Append(@, c)]] BY <2>1, <2>2
  <2> DEFINE x == [o EXCEPT ![kw] = Append(@, c)]
  <2>4. ParseChar(p, c) = [p EXCEPT !.options = x] BY <2>3
  <2> HIDE DEF x
  <2>5. ParseChar(p, c) = InValue(kw, x) BY <2>4 DEF InValue
  <2> QED BY <2>5 DEF x
<1>3. ASSUME o[kw] # <<>> PROVE ParseChar(InValue(kw, o), Blank) = InValue(NoNode, o)
  <2> DEFINE p == InValue(kw, o)
  <2>1. p.key = kw /\ p.options = o BY DEF InValue
  <2>2. ParseChar(p, Blank) = [p EXCEPT !.key = NoNode] BY <1>1, <1>3, <2>1 DEF ParseChar
  <2> QED BY <2>2 DEF InValue
<1>4. ASSUME c \in Keywords
      PROVE  ParseChar(InValue(NoNode, o), c) = InValue(c, [o EXCEPT ![c] = <<>>])
  <2> DEFINE p == InValue(NoNode, o)
  <2>1. p.key = NoNode /\ p.options = o BY DEF InValue
  <2>2. ParseChar(p, c) = [p EXCEPT !.key = c, !.options[c] = <<>>] BY <1>1, <1>4, <2>1 DEF ParseChar
  <2> DEFINE x == [o EXCEPT ![c] = <<>>]
  <2>3. ParseChar(p, c) = [p EXCEPT !.key = c, !.options = x] BY <2>1, <2>2
  <2> HIDE DEF x
  <2>4. ParseChar(p, c) = InValue(c, x) BY <2>3 DEF InValue
  <2> QED BY <2>4 DEF x
<1> QED BY <1>2, <1>3, <1>4

(* The parser runs over s, and q is how s begins. *)
Run(s, p) == p[0] = NoOptions /\ \A i \in 1..Len(s) : p[i] = ParseChar(p[i - 1], s[i])
Begins(q, s) == Len(q) <= Len(s) /\ \A i \in 1..Len(q) : s[i] = q[i]

(* The parts of a beginning. *)
LEMMA BeginsWith ==
  ASSUME NEW s \in Seq(Characters), NEW q \in Seq(Characters), NEW b \in Seq(Characters),
         Begins(q \o b, s)
  PROVE  /\ Begins(q, s) /\ q \o b \in Seq(Characters)
         /\ Len(q \o b) = Len(q) + Len(b) /\ Len(q) \in Nat /\ Len(b) \in Nat
         /\ Len(q) + Len(b) <= Len(s)
         /\ \A j \in 1..Len(b) : s[Len(q) + j] = b[j] /\ Len(q) + j \in 1..Len(s)
<1> DEFINE t == q \o b
<1>1. /\ t \in Seq(Characters) /\ Len(t) = Len(q) + Len(b)
      /\ \A i \in 1..(Len(q) + Len(b)) :
           t[i] = IF i <= Len(q) THEN q[i] ELSE b[i - Len(q)]
  BY ConcatProperties
<1>2. Len(q) \in Nat /\ Len(b) \in Nat /\ Len(s) \in Nat BY LenProperties
<1>3. Len(t) <= Len(s) /\ \A i \in 1..Len(t) : s[i] = t[i] BY DEF Begins
<1> HIDE DEF t
<1>4. Begins(q, s) BY <1>1, <1>2, <1>3 DEF Begins
<1>5. ASSUME NEW j \in 1..Len(b) PROVE s[Len(q) + j] = b[j] /\ Len(q) + j \in 1..Len(s)
  <2> DEFINE i == Len(q) + j
  <2>1. i \in 1..(Len(q) + Len(b)) /\ ~(i <= Len(q)) /\ i - Len(q) = j /\ i \in 1..Len(t) /\ i \in 1..Len(s)
    BY <1>1, <1>2, <1>3
  <2> HIDE DEF i
  <2>2. s[i] = b[j] BY <2>1, <1>1, <1>3
  <2> QED BY <2>1, <2>2 DEF i
<1> QED BY <1>1, <1>2, <1>3, <1>4, <1>5 DEF t

(* The options o with the value v for kw. *)
With(o, kw, v) == [o EXCEPT ![kw] = v]

(* The characters of a word are all taken into the value. *)
LEMMA ValueIs ==
  ASSUME NEW s \in Seq(Characters), NEW p, Run(s, p), NEW kw \in Keywords, NEW o \in Options,
         NEW k \in Nat, NEW v \in Word, \A j \in 1..Len(v) : s[k + j] = v[j] /\ k + j \in 1..Len(s),
         p[k] = InValue(kw, With(o, kw, <<>>))
  PROVE  p[k + Len(v)] = InValue(kw, With(o, kw, v))
<1> DEFINE m == Len(v)
           T == {j \in Nat : j <= m => p[k + j] = InValue(kw, With(o, kw, SubSeq(v, 1, j)))}
<1>1. v \in Seq(Characters) /\ m \in Nat /\ \A j \in 1..m : v[j] \in Characters /\ v[j] # Blank
  <2>1. v \in Seq(Characters \ {Blank}) BY DEF Word
  <2>2. \A j \in 1..m : v[j] \in Characters \ {Blank} BY <2>1, ElementOfSeq
  <2>3. v \in Seq(Characters) BY <2>1, SeqDef
  <2> QED BY <2>2, <2>3, LenProperties
<1>2. k \in Nat /\ \A j \in 1..m : s[k + j] = v[j] /\ k + j \in 1..Len(s)
  OBVIOUS
<1>3. 0 \in T
  <2>1. SubSeq(v, 1, 0) = <<>> BY SubSeqEmpty
  <2>2. k + 0 = k BY <1>2
  <2> QED BY <2>1, <2>2
<1>4. ASSUME NEW j \in Nat, j \in T PROVE j + 1 \in T
  <2> SUFFICES ASSUME j + 1 <= m
               PROVE  p[k + (j + 1)] = InValue(kw, With(o, kw, SubSeq(v, 1, j + 1)))
    OBVIOUS
  <2> DEFINE h == j + 1
             i == k + h
             a == SubSeq(v, 1, j)
             x == With(o, kw, a)
  <2>1. h \in 1..m /\ 1 \in 1..m /\ h - 1 = j /\ j <= m /\ i - 1 = k + j BY <1>1, <1>2
  <2>2. p[k + j] = InValue(kw, x) BY <2>1, <1>4
  <2>3. SubSeq(v, 1, h) = Append(a, v[h]) /\ a \in Seq(Characters)
    <3>1. a \in Seq(Characters)
      <4>1. \A l \in 1..j : v[l] \in Characters BY <1>1, <2>1
      <4> QED BY <4>1, SubSeqProperties
    <3>2. h \in 1..Len(v) /\ 1 \in 1..Len(v) BY <2>1
    <3> HIDE DEF h
    <3>3. SubSeq(v, 1, h) = SubSeq(v, 1, h - 1) \o <<v[h]>>
      BY <1>1, <3>2, SubSeqRecursiveSecond
    <3>4. v[h] \in Characters BY <1>1, <2>1
    <3>5. Append(a, v[h]) = a \o <<v[h]>> BY <3>1, <3>4, AppendIsConcat
    <3> QED BY <3>1, <3>3, <3>5, <2>1
  <2>4. s[i] = v[h] /\ i \in 1..Len(s) BY <1>2, <2>1
  <2> HIDE DEF h, i, a
  <2>5. x \in Options /\ x[kw] = a BY <2>3 DEF Options, With
  <2> DEFINE y == [x EXCEPT ![kw] = Append(@, v[h])]
  <2>6. y = With(o, kw, SubSeq(v, 1, h)) BY <2>3, <2>5 DEF Options, With
  <2> HIDE DEF x, y
  <2>7. v[h] \in Characters /\ v[h] # Blank BY <2>1, <1>1
  <2>8. ParseChar(InValue(kw, x), v[h]) = InValue(kw, y) BY <2>5, <2>7, ParserSteps DEF y
  <2>9. p[i] = ParseChar(p[i - 1], s[i]) BY <2>4 DEF Run
  <2>10. p[i] = InValue(kw, y) BY <2>1, <2>2, <2>4, <2>8, <2>9
  <2> QED BY <2>6, <2>10 DEF i, h
<1>5. Nat \subseteq T
  <2> HIDE DEF T
  <2> QED BY <1>3, <1>4, Queue!CountUp
<1>6. p[k + m] = InValue(kw, With(o, kw, SubSeq(v, 1, m)))
  <2>1. m \in T
    <3> HIDE DEF T
    <3> QED BY <1>5, <1>1
  <2> HIDE DEF m
  <2> QED BY <2>1, <1>1
<1>7. SubSeq(v, 1, m) = v BY <1>1, SubSeqFull
<1> QED BY <1>6, <1>7

(* A blank ends a value that is not empty, and what comes next is a keyword. *)
LEMMA NextOption ==
  ASSUME NEW s \in Seq(Characters), NEW p, Run(s, p), NEW q \in Seq(Characters),
         NEW kw \in Keywords, NEW next \in Keywords, NEW o \in Options, o[kw] # <<>>,
         NEW v \in Word, v # <<>>, Begins(q \o <<Blank, next>> \o v, s),
         p[Len(q)] = InValue(kw, o)
  PROVE  /\ p[Len(q \o <<Blank, next>> \o v)] = InValue(next, With(o, next, v))
         /\ With(o, next, v) \in Options /\ With(o, next, v)[next] # <<>>
         /\ q \o <<Blank, next>> \in Seq(Characters) /\ q \o <<Blank, next>> \o v \in Seq(Characters)
<1> DEFINE b == <<Blank, next>>
           k == Len(q)
           t == q \o b
<1>1. Blank \in Characters /\ next \in Characters BY DEF Characters
<1>2. b \in Seq(Characters) /\ Len(b) = 2 /\ b[1] = Blank /\ b[2] = next BY <1>1
<1>3. v \in Seq(Characters) BY SeqDef DEF Word
<1> HIDE DEF b
<1>4. t \in Seq(Characters) BY <1>2, ConcatProperties
<1> HIDE DEF t
<1>5. Begins(t, s) /\ t \o v \in Seq(Characters) BY <1>3, <1>4, BeginsWith DEF t, b
<1>6. /\ Len(t) = k + 2 /\ k \in Nat
      /\ \A j \in 1..2 : s[k + j] = b[j] /\ k + j \in 1..Len(s)
  <2>1. Begins(q \o b, s) BY <1>5 DEF t
  <2>2. Len(q \o b) = k + 2 BY <2>1, <1>2, BeginsWith
  <2>3. k \in Nat /\ \A j \in 1..2 : s[k + j] = b[j] /\ k + j \in 1..Len(s) BY <2>1, <1>2, BeginsWith
  <2> QED BY <2>2, <2>3 DEF t
<1>7. s[k + 1] = Blank /\ s[k + 2] = next /\ k + 1 \in 1..Len(s) /\ k + 2 \in 1..Len(s)
      /\ (k + 1) - 1 = k /\ (k + 2) - 1 = k + 1
  BY <1>2, <1>6
<1> DEFINE i == k + 1
           l == k + 2
<1>8. p[i] = InValue(NoNode, o)
  <2>1. p[i] = ParseChar(p[i - 1], s[i]) /\ i - 1 = k /\ s[i] = Blank BY <1>7 DEF Run
  <2> HIDE DEF i
  <2>2. ParseChar(InValue(kw, o), Blank) = InValue(NoNode, o) BY <1>1, ParserSteps
  <2> QED BY <2>1, <2>2
<1>9. p[l] = InValue(next, With(o, next, <<>>))
  <2>1. p[l] = ParseChar(p[l - 1], s[l]) /\ l - 1 = i /\ s[l] = next BY <1>7 DEF Run
  <2> HIDE DEF l, i
  <2>2. ParseChar(InValue(NoNode, o), next) = InValue(next, With(o, next, <<>>))
    BY <1>1, ParserSteps DEF With
  <2> QED BY <2>1, <2>2, <1>8
<1>10. p[Len(t)] = InValue(next, With(o, next, <<>>)) BY <1>6, <1>9
<1>11. Begins(t \o v, s) BY DEF t, b
<1>12. p[Len(t \o v)] = InValue(next, With(o, next, v))
  <2> DEFINE a == Len(t)
             w == t \o v
  <2>1. a \in Nat /\ \A j \in 1..Len(v) : s[a + j] = v[j] /\ a + j \in 1..Len(s)
    BY <1>3, <1>4, <1>11, BeginsWith
  <2>2. Len(w) = a + Len(v) BY <1>3, <1>4, <1>11, BeginsWith
  <2> HIDE DEF a, w
  <2>3. p[a] = InValue(next, With(o, next, <<>>)) BY <1>10 DEF a
  <2>4. p[a + Len(v)] = InValue(next, With(o, next, v)) BY <2>1, <2>3, ValueIs
  <2>5. p[Len(w)] = InValue(next, With(o, next, v)) BY <2>2, <2>4
  <2> QED BY <2>5 DEF w
<1>13. With(o, next, v) \in Options /\ With(o, next, v)[next] # <<>>
  BY <1>3 DEF Options, With
<1> QED BY <1>4, <1>5, <1>12, <1>13 DEF t, b

(* libpq takes the connection string apart as it was put together. *)
LEMMA ConnectsWith ==
  ASSUME NEW c \in Settings,
         c.username # <<>>, c.ip # <<>>, c.password # <<>>, c.name # <<>>
  PROVE  LET options == ConninfoParse(ConnectionString(c)) IN
         /\ options # Throws
         /\ options["user="] = c.username /\ options["host="] = c.ip
         /\ options["password="] = c.password /\ options["dbname="] = c.name
<1> DEFINE u == c.username
           h == c.ip
           w == c.password
           d == c.name
           q0 == <<"user=">>
           q1 == q0 \o u
           r1 == q1 \o <<Blank, "host=">>
           q2 == r1 \o h
           r2 == q2 \o <<Blank, "password=">>
           q3 == r2 \o w
           r3 == q3 \o <<Blank, "dbname=">>
           s == r3 \o d
           o0 == [k \in Keywords |-> <<>>]
           o1 == With(o0, "user=", u)
           o2 == With(o1, "host=", h)
           o3 == With(o2, "password=", w)
           o4 == With(o3, "dbname=", d)
<1>1. u \in Word /\ h \in Word /\ w \in Word /\ d \in Word
  <2>1. {"username", "ip", "password", "name"} \subseteq Fields BY FieldIs
  <2> QED BY <2>1 DEF Settings
<1>2. /\ u \in Seq(Characters) /\ h \in Seq(Characters) /\ w \in Seq(Characters)
      /\ d \in Seq(Characters)
  BY <1>1, SeqDef DEF Word
<1>3. /\ "user=" \in Keywords /\ "host=" \in Keywords /\ "password=" \in Keywords
      /\ "dbname=" \in Keywords
  BY DEF Keywords
<1>4. u # <<>> /\ h # <<>> /\ w # <<>> /\ d # <<>> OBVIOUS
<1>5. q0 \in Seq(Characters) /\ Len(q0) = 1 /\ q0[1] = "user=" BY <1>3 DEF Characters
<1>6. \A kw \in Keywords : <<Blank, kw>> \in Seq(Characters) BY DEF Characters
<1>7. ConnectionString(c) = s BY DEF ConnectionString
<1> HIDE DEF u, h, w, d, q0
<1>8. q1 \in Seq(Characters) BY <1>2, <1>5, ConcatProperties
<1> HIDE DEF q1
<1>9. r1 \in Seq(Characters) BY <1>3, <1>6, <1>8, ConcatProperties
<1> HIDE DEF r1
<1>10. q2 \in Seq(Characters) BY <1>2, <1>9, ConcatProperties
<1> HIDE DEF q2
<1>11. r2 \in Seq(Characters) BY <1>3, <1>6, <1>10, ConcatProperties
<1> HIDE DEF r2
<1>12. q3 \in Seq(Characters) BY <1>2, <1>11, ConcatProperties
<1> HIDE DEF q3
<1>13. r3 \in Seq(Characters) BY <1>3, <1>6, <1>12, ConcatProperties
<1> HIDE DEF r3
<1>14. s \in Seq(Characters) BY <1>2, <1>13, ConcatProperties
<1> HIDE DEF s
<1>15. Begins(r3 \o d, s)
  <2>1. Len(s) \in Nat BY <1>14, LenProperties
  <2>2. Begins(s, s) BY <2>1 DEF Begins
  <2> QED BY <2>2 DEF s
<1>16. Begins(q3 \o <<Blank, "dbname=">>, s) BY <1>2, <1>13, <1>14, <1>15, BeginsWith DEF r3
<1>17. Begins(r2 \o w, s)
  <2> DEFINE b == <<Blank, "dbname=">>
  <2>1. b \in Seq(Characters) /\ Begins(q3 \o b, s) BY <1>3, <1>6, <1>16
  <2> HIDE DEF b
  <2>2. Begins(q3, s) BY <2>1, <1>12, <1>14, BeginsWith
  <2> QED BY <2>2 DEF q3
<1>18. Begins(q2 \o <<Blank, "password=">>, s) BY <1>2, <1>11, <1>14, <1>17, BeginsWith DEF r2
<1>19. Begins(r1 \o h, s)
  <2> DEFINE b == <<Blank, "password=">>
  <2>1. b \in Seq(Characters) /\ Begins(q2 \o b, s) BY <1>3, <1>6, <1>18
  <2> HIDE DEF b
  <2>2. Begins(q2, s) BY <2>1, <1>10, <1>14, BeginsWith
  <2> QED BY <2>2 DEF q2
<1>20. Begins(q1 \o <<Blank, "host=">>, s) BY <1>2, <1>9, <1>14, <1>19, BeginsWith DEF r1
<1>21. Begins(q0 \o u, s)
  <2> DEFINE b == <<Blank, "host=">>
  <2>1. b \in Seq(Characters) /\ Begins(q1 \o b, s) BY <1>3, <1>6, <1>20
  <2> HIDE DEF b
  <2>2. Begins(q1, s) BY <2>1, <1>8, <1>14, BeginsWith
  <2> QED BY <2>2 DEF q1
<1>22. PICK p \in [0..Len(s) -> Parser] :
            /\ p[0] = NoOptions
            /\ \A i \in 1..Len(s) : p[i] = ParseChar(p[i - 1], s[i])
            /\ Parsed(s) = p[Len(s)]
  BY <1>14, ParseIs
<1>23. Run(s, p) BY <1>22 DEF Run
<1>24. o0 \in Options /\ o1 \in Options /\ o1["user="] # <<>>
  <2>1. o0 \in Options BY EmptySeq DEF Options
  <2> HIDE DEF o0
  <2> QED BY <2>1, <1>2, <1>3, <1>4 DEF Options, With
<1>25. NoOptions = InValue(NoNode, o0) BY DEF NoOptions, InValue
<1> HIDE DEF o0, o1
<1>26. /\ Len(q1) = 1 + Len(u) /\ Begins(q0, s) /\ 1 \in 1..Len(s)
       /\ \A j \in 1..Len(u) : s[1 + j] = u[j] /\ 1 + j \in 1..Len(s)
  <2>1. Len(s) \in Nat /\ Len(u) \in Nat BY <1>2, <1>14, LenProperties
  <2>2. /\ Len(q0 \o u) = Len(q0) + Len(u) /\ Begins(q0, s)
        /\ \A j \in 1..Len(u) : s[Len(q0) + j] = u[j] /\ Len(q0) + j \in 1..Len(s)
    <3>1. q0 \in Seq(Characters) /\ u \in Seq(Characters) BY <1>2, <1>5
    <3>2. Len(q0 \o u) = Len(q0) + Len(u) BY <3>1, <1>14, <1>21, BeginsWith
    <3>3. Begins(q0, s) BY <3>1, <1>14, <1>21, BeginsWith
    <3>4. \A j \in 1..Len(u) : s[Len(q0) + j] = u[j] /\ Len(q0) + j \in 1..Len(s)
      BY <3>1, <1>14, <1>21, BeginsWith
    <3> QED BY <3>2, <3>3, <3>4
  <2>3. 1 \in 1..Len(s) BY <2>1, <2>2, <1>5 DEF Begins
  <2> QED BY <2>2, <2>3, <1>5 DEF q1
<1>27. p[1] = InValue("user=", With(o0, "user=", <<>>))
  <2>1. s[1] = "user=" BY <1>5, <1>26 DEF Begins
  <2>2. p[1] = ParseChar(p[0], s[1]) BY <1>22, <1>26
  <2>3. "user=" \in Characters BY <1>3 DEF Characters
  <2>4. ParseChar(InValue(NoNode, o0), "user=") = InValue("user=", With(o0, "user=", <<>>))
    BY <1>3, <2>3, <1>24, ParserSteps DEF With
  <2> QED BY <2>1, <2>2, <2>4, <1>22, <1>25
<1>28. p[Len(q1)] = InValue("user=", o1)
  <2>1. p[1 + Len(u)] = InValue("user=", With(o0, "user=", u))
    BY <1>1, <1>3, <1>14, <1>23, <1>24, <1>26, <1>27, ValueIs
  <2> QED BY <2>1, <1>26 DEF o1
<1>29. p[Len(q2)] = InValue("host=", o2) /\ o2 \in Options /\ o2["host="] # <<>>
  <2>1. Begins(q1 \o <<Blank, "host=">> \o h, s) BY <1>19 DEF r1
  <2> QED BY <2>1, <1>1, <1>3, <1>4, <1>8, <1>14, <1>23, <1>24, <1>28, NextOption DEF q2, r1
<1> HIDE DEF o2
<1>30. p[Len(q3)] = InValue("password=", o3) /\ o3 \in Options /\ o3["password="] # <<>>
  <2>1. Begins(q2 \o <<Blank, "password=">> \o w, s) BY <1>17 DEF r2
  <2> QED BY <2>1, <1>1, <1>3, <1>4, <1>10, <1>14, <1>23, <1>29, NextOption DEF q3, r2
<1> HIDE DEF o3
<1>31. p[Len(s)] = InValue("dbname=", o4) /\ o4 \in Options
  <2>1. Begins(q3 \o <<Blank, "dbname=">> \o d, s) BY <1>15 DEF r3
  <2>2. /\ p[Len(q3 \o <<Blank, "dbname=">> \o d)] = InValue("dbname=", With(o3, "dbname=", d))
        /\ With(o3, "dbname=", d) \in Options
    BY <2>1, <1>1, <1>3, <1>4, <1>12, <1>14, <1>23, <1>30, NextOption
  <2>3. q3 \o <<Blank, "dbname=">> \o d = s BY DEF s, r3
  <2> QED BY <2>2, <2>3 DEF o4
<1> HIDE DEF o4
<1>32. /\ Parsed(s).valid = TRUE /\ Parsed(s).options = o4 BY <1>22, <1>31 DEF InValue
<1>33. ConninfoParse(s) = o4 BY <1>32 DEF ConninfoParse, Parsed, NoOptions
<1>34. o4 # Throws BY <1>31, NoResultAssumption DEF Options
<1>35. o4["user="] = u /\ o4["host="] = h /\ o4["password="] = w /\ o4["dbname="] = d
  BY <1>3, <1>24, <1>29, <1>30 DEF o1, o2, o3, o4, With, Options
<1> QED BY <1>7, <1>33, <1>34, <1>35 DEF u, h, w, d

-----------------------------------------------------------------------------
(* The property for one configuration. *)
LEMMA ConfigOK ==
  ASSUME config \in Documents
  PROVE  ConnectsAsConfigured
<1> DEFINE loaded == LoadDbConfig(config)
           asked  == [username |-> "user=", ip |-> "host=", password |-> "password=",
                      databaseName |-> "dbname="]
<1>1. CASE Nodes = NoNode
  <2>1. loaded = Throws BY <1>1 DEF LoadDbConfig, Nodes
  <2> QED BY <1>1, <2>1 DEF ConnectsAsConfigured
<1>2. CASE Nodes # NoNode
  <2>1. Nodes \in Seq(NodeRows)
    <3>1. config # NoNode /\ Nodes = config["databaseInfo"] BY <1>2 DEF Nodes, Section
    <3> QED BY <1>2, <3>1, DocumentsAssumption DEF NodeRows
  <2> DEFINE read == ReadFields(Nodes)
  <2>2. loaded = IF read.count < 6 THEN Throws ELSE read.config
    BY <1>2 DEF LoadDbConfig, Nodes
  <2>3. \A e : Given(e) = {i \in DOMAIN Nodes : Nodes[i].element = e} BY DEF Given
  <2>4. /\ read \in SoFar
        /\ (\A e \in DOMAIN FieldOf : \A i, j \in Given(e) : i = j) =>
             (~(read.count < 6) <=> \A e \in DOMAIN FieldOf : Given(e) # {})
        /\ \A e \in DOMAIN FieldOf : read.config[FieldOf[e]] # <<>> =>
             read.config[FieldOf[e]] = Lasting(e)
    <3> DEFINE given(e) == {i \in DOMAIN Nodes : Nodes[i].element = e}
    <3>1. \A e : Lasting(e) = ToString(Nodes[Max(given(e))].text) BY <2>3 DEF Lasting, Max
    <3>2. \A e : Given(e) = given(e) BY <2>3
    <3>3. /\ read \in SoFar
          /\ (\A e \in DOMAIN FieldOf : \A i, j \in given(e) : i = j) =>
               (~(read.count < 6) <=> \A e \in DOMAIN FieldOf : given(e) # {})
          /\ \A e \in DOMAIN FieldOf : read.config[FieldOf[e]] # <<>> =>
               read.config[FieldOf[e]] = ToString(Nodes[Max(given(e))].text)
      BY <2>1, LoadIs
    <3> HIDE DEF given, read
    <3> QED BY <3>1, <3>2, <3>3
  <2> HIDE DEF read
  <2>5. read.config \in Settings /\ read.config # Throws
    <3>1. read.config \in Settings BY <2>4 DEF SoFar
    <3>2. \A v \in Word : v \in Seq(Characters) BY SeqDef DEF Word
    <3>3. read.config \in [Fields -> Seq(Characters)] BY <3>1, <3>2 DEF Settings
    <3> QED BY <3>1, <3>3, NoResultAssumption
  <2>6. loaded # Throws <=> ~(read.count < 6) BY <2>2, <2>5
  <2>7. DOMAIN asked = {"username", "ip", "password", "databaseName"} OBVIOUS
  <2>8. ASSUME loaded # Throws, \A e \in DOMAIN asked : loaded[FieldOf[e]] # <<>>
        PROVE  LET options == ConninfoParse(ConnectionString(loaded))
               IN  options # Throws /\ \A e \in DOMAIN asked : options[asked[e]] = Lasting(e)
    <3>1. loaded = read.config BY <2>8, <2>2
    <3>2. loaded \in Settings BY <3>1, <2>5
    <3> HIDE DEF loaded
    <3>3. /\ loaded.username # <<>> /\ loaded.ip # <<>> /\ loaded.password # <<>>
          /\ loaded.name # <<>>
      BY <2>8, <2>7, FieldIs
    <3>4. /\ loaded.username = Lasting("username") /\ loaded.ip = Lasting("ip")
          /\ loaded.password = Lasting("password") /\ loaded.name = Lasting("databaseName")
      BY <2>4, <3>1, <3>3, FieldIs
    <3> DEFINE options == ConninfoParse(ConnectionString(loaded))
    <3>5. /\ options # Throws
          /\ options["user="] = loaded.username /\ options["host="] = loaded.ip
          /\ options["password="] = loaded.password /\ options["dbname="] = loaded.name
      BY <3>2, <3>3, ConnectsWith
    <3> HIDE DEF options
    <3>6. /\ asked["username"] = "user=" /\ asked["ip"] = "host="
          /\ asked["password"] = "password=" /\ asked["databaseName"] = "dbname="
      OBVIOUS
    <3> HIDE DEF asked
    <3>7. \A e \in DOMAIN asked : options[asked[e]] = Lasting(e) BY <2>7, <3>4, <3>5, <3>6
    <3> QED BY <3>5, <3>7 DEF options
  <2> QED BY <1>2, <2>4, <2>6, <2>8 DEF ConnectsAsConfigured
<1> QED BY <1>1, <1>2

(* Nothing that a program does changes config.xml. *)
LEMMA ConfigStays == [Next]_vars => config' = config
<1> SUFFICES ASSUME [Next]_vars PROVE config' = config OBVIOUS
<1>1. CASE Tick BY <1>1 DEF Tick
<1>2. ASSUME NEW p \in Programs, Program(p) PROVE config' = config
  <2>1. CASE Start(p) BY <2>1 DEF Start
  <2>2. CASE Load(p) \/ Connect(p) BY <2>2 DEF Load, Connect
  <2>3. ASSUME NEW k \in Calls[p], Call(p, k) \/ CallWrapper(p, k) PROVE config' = config
    BY <2>3 DEF Call, CallWrapper, Notes
  <2>4. ASSUME NEW v, NEW where, Ends(p, v, where) PROVE config' = config BY <2>4 DEF Ends
  <2>5. ASSUME NEW outcome, Returns(p, outcome) PROVE config' = config BY <2>4, <2>5 DEF Returns
  <2>6. ASSUME NEW where, GoesOn(p, where) PROVE config' = config BY <2>6 DEF GoesOn
  <2>7. CASE OneStatement(p) \/ InsertWithTime(p)
    BY <2>5, <2>7 DEF OneStatement, InsertWithTime
  <2>8. CASE CheckUser(p) \/ CheckServer(p) \/ GetCurrentDatetime(p)
    BY <2>6, <2>8 DEF CheckUser, CheckServer, GetCurrentDatetime
  <2>9. CASE VerifyUser(p) \/ InsertNewUser(p) BY <2>5, <2>9 DEF VerifyUser, InsertNewUser
  <2>10. CASE InsertNewServer(p) BY <2>5, <2>6, <2>10 DEF InsertNewServer
  <2>11. CASE NoConnection(p) \/ Breaks(p) \/ Dies(p)
    BY <2>4, <2>11 DEF NoConnection, Breaks, Dies
  <2> QED
    BY <1>2, <2>1, <2>2, <2>3, <2>7, <2>8, <2>9, <2>10, <2>11 DEF Program
<1>3. CASE UNCHANGED vars BY <1>3 DEF vars
<1> QED BY <1>1, <1>2, <1>3 DEF Next

(* A configuration that gives every field once is taken, and a connection is *)
(* made with what config.xml says last (ConnectsAsConfigured): initiate      *)
(* concatenates the settings without quoting them, and libpq still takes     *)
(* apart what was put together, because toString has removed the blanks.     *)
THEOREM SpecConnectsAsConfigured == Spec => []ConnectsAsConfigured
<1>1. Init => config \in Documents BY DEF Init
<1>2. config \in Documents /\ [Next]_vars => (config \in Documents)' BY ConfigStays
<1>3. config \in Documents => ConnectsAsConfigured BY ConfigOK
<1> QED BY <1>1, <1>2, <1>3, PTL DEF Spec

=============================================================================
