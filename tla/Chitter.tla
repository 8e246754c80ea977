------------------------------ MODULE Chitter ------------------------------
(***************************************************************************)
(* The library chitter at work: several programs call its functions on one *)
(* database.  A function is one or more transactions, and the calls of the *)
(* programs may interleave between them; a connection may be lost at any   *)
(* of them, during a commit too, when nobody can tell what has become of   *)
(* it.  A program that is a server reads its settings and connects when it *)
(* starts; others use the functions that connect for every call.           *)
(*                                                                         *)
(* The variables of ChitterSpec are used with their meaning there; since   *)
(* and missing only note what the properties need.                         *)
(***************************************************************************)
EXTENDS Tables, ConfigUtils

CONSTANTS
  Programs,    \* processes that use the library
  Servers,     \* those of them that hold a connection, as a Server does
  Users,       \* the names of users
  Texts,       \* passwords and bios
  Calls,       \* Calls[p]: the calls p may make
  Databases,   \* what may be in the database at first
  Documents,   \* what config.xml may be
  Login,       \* the options of a connection string that the database accepts
  MaxCalls,    \* MaxCalls[p]: bound on how many it makes
  MaxTime,     \* bound on the clock of the database
  NoCall,      \* no call in progress
  Broken       \* the value of a call that has broken off

ASSUME ServersArePrograms == Servers \subseteq Programs

(* A row of Users, apart from its key.                                       *)
UserRows == [password : Texts, bio : Texts \cup {NULL}]

(* What stands for no row is no row, and what for an exception no result.    *)
ASSUME NoValueAssumption == NULL \notin UserRows /\ Threw # "done"

(* A database has all its tables, and every call is one of a function that   *)
(* there is, with a user and a text where it is to change a row of Users.    *)
ASSUME DatabasesAssumption ==
  \A d \in Databases : DOMAIN d = Relations /\ d.users \in [Users -> UserRows \cup {NULL}]

ASSUME CallsAssumption ==
  \A p \in Programs : \A k \in Calls[p] :
    /\ k # NoCall /\ k.f \in Statements \cup Stamped \cup Composite
    /\ k.f \in {"insertUser", "updatePassword", "updateBio", "handleUser"} =>
         k.user \in Users /\ k.text \in Texts

(* What can be loaded of config.xml has children with texts. *)
ASSUME DocumentsAssumption ==
  \A d \in Documents : d # NoNode /\ d.databaseInfo # NoNode =>
    d.databaseInfo \in Seq([element : STRING, text : Seq(Characters)])

VARIABLES
  db, clock, call, value, since, missing,
  config,   \* config.xml
  at,       \* at[p]: where p is
  stamp,    \* stamp[p]: the datetime its call has fetched
  made      \* made[p]: how many calls p has made

vars == <<db, clock, call, value, since, missing, config, at, stamp, made>>

Atomic == INSTANCE ChitterSpec

Opening == {"load", "connect"}
InTransaction == {"statement", "checkUser", "verifyUser", "insertUser",
                  "checkServer", "insertServer", "datetime", "insert"}

Init ==
  /\ db \in Databases /\ clock = 0 /\ config \in Documents
  /\ call = [p \in Programs |-> NoCall] /\ value = [p \in Programs |-> NULL]
  /\ since = [p \in Programs |-> 0] /\ missing = [p \in Programs |-> FALSE]
  /\ at = [p \in Programs |-> "off"]
  /\ stamp = [p \in Programs |-> 0] /\ made = [p \in Programs |-> 0]

Goto(p, where) == at' = [at EXCEPT ![p] = where]

(* The first transaction of a call. *)
First(k) ==
  CASE k.f = "handleUser"   -> "checkUser"
    [] k.f = "handleServer" -> "checkServer"
    [] k.f \in Stamped      -> "datetime"
    [] OTHER                -> "statement"

(* The call of p, if there is one, ends with v. *)
Ends(p, v, where) ==
  /\ call' = [call EXCEPT ![p] = NoCall]
  /\ value' = [value EXCEPT ![p] = IF call[p] = NoCall THEN @ ELSE v]
  /\ since' = [since EXCEPT ![p] = 0] /\ missing' = [missing EXCEPT ![p] = FALSE]
  /\ stamp' = [stamp EXCEPT ![p] = 0]
  /\ Goto(p, where)
  /\ UNCHANGED <<clock, config, made>>

(* The last transaction leaves and returns what outcome says, and a          *)
(* connection made for the call goes with it.                                *)
Returns(p, outcome) ==
  /\ db' = outcome.db
  /\ Ends(p, outcome.value, IF p \in Servers THEN "idle" ELSE "off")

(* Another transaction follows. *)
GoesOn(p, where) == Goto(p, where) /\ UNCHANGED <<call, value, since, clock, config, made>>

-----------------------------------------------------------------------------
(* Connecting.                                                             *)

Notes(p, k) ==
  /\ call' = [call EXCEPT ![p] = k] /\ value' = [value EXCEPT ![p] = NULL]
  /\ since' = [since EXCEPT ![p] = clock]
  /\ missing' = [missing EXCEPT ![p] = Atomic!RowMissing(k)]
  /\ made' = [made EXCEPT ![p] = @ + 1]
  /\ UNCHANGED <<db, clock, config, stamp>>

(* A server is constructed. *)
Start(p) ==
  /\ p \in Servers /\ at[p] = "off"
  /\ Goto(p, "load")
  /\ UNCHANGED <<db, clock, call, value, since, missing, config, stamp, made>>

(* A function is called on the connection of a server... *)
Call(p, k) ==
  /\ at[p] = "idle" /\ made[p] < MaxCalls[p]
  /\ Goto(p, First(k)) /\ Notes(p, k)

(* ... or is one of convenienceFuncs.h, which connects first. *)
CallWrapper(p, k) ==
  /\ p \notin Servers /\ at[p] = "off" /\ made[p] < MaxCalls[p]
  /\ Goto(p, "load") /\ Notes(p, k)

(* The settings are read, by a server both kinds of them.  loadSetup returns *)
(* a node of a document that has been destroyed: as long as its memory has   *)
(* not been used for something else it still reads as config does.           *)
Load(p) ==
  /\ at[p] = "load"
  /\ p \in Servers => LoadServerConfig(config) # Throws
  /\ LoadDbConfig(config) # Throws
  /\ Goto(p, "connect")
  /\ UNCHANGED <<db, clock, call, value, since, missing, config, stamp, made>>

Connect(p) ==
  /\ at[p] = "connect"
  /\ ConninfoParse(ConnectionString(LoadDbConfig(config))) = Login
  /\ Goto(p, IF call[p] = NoCall THEN "idle" ELSE First(call[p]))
  /\ UNCHANGED <<db, clock, call, value, since, missing, config, stamp, made>>

(* There is no connection: the settings cannot be read, or what is read in   *)
(* their place is not them, or the database is not there or refuses.         *)
NoConnection(p) ==
  /\ at[p] \in Opening
  /\ Ends(p, Broken, "off")
  /\ UNCHANGED db

-----------------------------------------------------------------------------
(* The transactions.                                                       *)

(* A function that is one transaction. *)
OneStatement(p) ==
  /\ at[p] = "statement"
  /\ Returns(p, Statement(db, call[p]))

(* handleUser *)
CheckUser(p) ==
  /\ at[p] = "checkUser"
  /\ GoesOn(p, IF CheckUserExists(db, call[p].user).value THEN "verifyUser" ELSE "insertUser")
  /\ UNCHANGED <<db, missing, stamp>>

VerifyUser(p) ==
  /\ at[p] = "verifyUser"
  /\ Returns(p, VerifyPassword(db, call[p].user, call[p].text))

(* Mutant: the password of a user that has come in between is replaced. *)
InsertOrUpdateUser(p) ==
  /\ at[p] = "insertUser"
  /\ db' = [db EXCEPT !.users[call[p].user] = [password |-> call[p].text, bio |-> NULL]]
  /\ Ends(p, TRUE, IF p \in Servers THEN "idle" ELSE "off")

(* passwordIsCorrect has been true from the beginning. *)
InsertNewUser(p) ==
  /\ at[p] = "insertUser"
  /\ LET inserted == InsertUser(db, call[p].user, call[p].text)
     IN  Returns(p, [inserted EXCEPT !.value = IF @ = Threw THEN Threw ELSE TRUE])

(* handleServer *)
CheckServer(p) ==
  /\ at[p] = "checkServer"
  /\ GoesOn(p, IF CheckServerExists(db, call[p].server).value THEN "datetime" ELSE "insertServer")
  /\ UNCHANGED <<db, missing, stamp>>

InsertNewServer(p) ==
  /\ at[p] = "insertServer"
  /\ LET inserted == InsertServer(db, call[p].server)
     IN  IF inserted.value = Threw THEN Returns(p, inserted)
         ELSE /\ db' = inserted.db
              /\ missing' = [missing EXCEPT ![p] = FALSE]
              /\ GoesOn(p, "datetime") /\ UNCHANGED stamp

(* The time is fetched in a transaction before the one that inserts it. *)
GetCurrentDatetime(p) ==
  /\ at[p] = "datetime"
  /\ stamp' = [stamp EXCEPT ![p] = clock]
  /\ GoesOn(p, "insert")
  /\ UNCHANGED <<db, missing>>

InsertWithTime(p) ==
  /\ at[p] = "insert"
  /\ Returns(p, StampedInsert(db, call[p], stamp[p]))

(* What the transaction p is in would make of the database. *)
Written(p) ==
  CASE at[p] = "statement"    -> Statement(db, call[p]).db
    [] at[p] = "insertUser"   -> InsertUser(db, call[p].user, call[p].text).db
    [] at[p] = "insertServer" -> InsertServer(db, call[p].server).db
    [] at[p] = "insert"       -> StampedInsert(db, call[p], stamp[p]).db
    [] OTHER                  -> db

(* The connection breaks: the transaction is rolled back, or it has been     *)
(* committed and only the answer is lost (pqxx::in_doubt_error).             *)
Breaks(p) ==
  /\ at[p] \in InTransaction
  /\ db' \in {db, Written(p)}
  /\ Ends(p, Broken, "off")

(* insertServerRoles writes to the string of an empty optional, and the      *)
(* process does not survive.                                                 *)
Dies(p) ==
  /\ at[p] = "statement" /\ call[p].f = "insertServerRoles" /\ call[p].text = NULL
  /\ Ends(p, Broken, "off")
  /\ UNCHANGED db

Tick ==
  /\ clock < MaxTime /\ clock' = clock + 1
  /\ UNCHANGED <<db, call, value, since, missing, config, at, stamp, made>>

Program(p) ==
  \/ Start(p) \/ Load(p) \/ Connect(p) \/ NoConnection(p)
  \/ \E k \in Calls[p] : Call(p, k) \/ CallWrapper(p, k)
  \/ OneStatement(p)
  \/ CheckUser(p) \/ VerifyUser(p) \/ InsertNewUser(p)
  \/ CheckServer(p) \/ InsertNewServer(p)
  \/ GetCurrentDatetime(p) \/ InsertWithTime(p)
  \/ Breaks(p) \/ Dies(p)

Next == Tick \/ \E p \in Programs : Program(p)

Spec == Init /\ [][Next]_vars

-----------------------------------------------------------------------------
UserIds == DOMAIN db.users

(* Every call is atomic to its caller although handleUser, handleServer and  *)
(* the functions that fetch the time are several transactions: no caller     *)
(* sees a user or a server row change its mind between looking and using it, *)
(* and no call that has broken off has done a part of its work, but for the  *)
(* server row of handleServer.                                               *)
CallsAreAtomic == Atomic!Spec

(* Who is a friend of whom is mutual, whoever has asked, and nobody is a     *)
(* friend of himself, whatever rows the calls have left.                     *)
FriendsAreMutual ==
  \A u, v \in UserIds : v \in Friends(db, u) <=> (u \in Friends(db, v) /\ u # v
    /\ (AreFriends(db, u, v) \/ AreFriends(db, v, u)))

-----------------------------------------------------------------------------
(* config.xml                                                              *)

(* The nodes of the section that give an element, and the text of the last. *)
Nodes == Section(config, "databaseInfo")
Given(element) == {i \in DOMAIN Nodes : Nodes[i].element = element}
Lasting(element) == ToString(Nodes[SeqExt!Max(Given(element))].text)

(* A section that gives no field twice loads if it gives all six.  And what  *)
(* libpq takes from the connection string is what the config says last of    *)
(* user, host, password and database, though nothing in it is quoted, as     *)
(* long as none of the four is empty.                                        *)
ConnectsAsConfigured ==
  LET loaded == LoadDbConfig(config)
      asked  == [username |-> "user=", ip |-> "host=", password |-> "password=",
                 databaseName |-> "dbname="]
  IN  /\ /\ Nodes # NoNode
         /\ \A e \in DOMAIN FieldOf : \A i, j \in Given(e) : i = j
         => (loaded # Throws <=> \A e \in DOMAIN FieldOf : Given(e) # {})
      /\ /\ loaded # Throws
         /\ \A e \in DOMAIN asked : loaded[FieldOf[e]] # <<>>
         => LET options == ConninfoParse(ConnectionString(loaded))
            IN  options # Throws /\ \A e \in DOMAIN asked : options[asked[e]] = Lasting(e)

=============================================================================
