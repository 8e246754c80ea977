------------------------------- MODULE Tables -------------------------------
(***************************************************************************)
(* The database as the functions of chitter see it: what each of their SQL *)
(* statements reads, changes and returns, in a transaction of its own.     *)
(*                                                                         *)
(* The schema is not in the repository.  The keys are those of             *)
(* chit_er_diagram.xml (a relationship is keyed by what it relates), what  *)
(* a row refers to must be there, and an insert that would break either    *)
(* throws.  A row is looked up by its key: NULL stands for no row, and in  *)
(* a column for SQL's NULL.                                                *)
(***************************************************************************)
EXTENDS Naturals

CONSTANTS NULL, Threw

(* The tables a database consists of.                                      *)
Relations == {"users", "logins", "friends", "servers", "instances", "serverRoles", "channels",
              "msgs", "channelRoles"}

(* What a transaction leaves and returns; one that throws leaves nothing. *)
Gives(db, value) == [db |-> db, value |-> value]
Fails(db) == Gives(db, Threw)
Insert(allowed, db, after) == IF allowed THEN Gives(after, "done") ELSE Fails(db)

(* RESULT[0]...: std::out_of_range if the query has found no row. *)
FirstRow(db, row, value) == IF row = NULL THEN Fails(db) ELSE Gives(db, value)

-----------------------------------------------------------------------------
(* userFuncs.cpp                                                           *)

UserExists(db, u) == db.users[u] # NULL

CheckUserExists(db, u) == Gives(db, UserExists(db, u))

VerifyPassword(db, u, w) ==
  FirstRow(db, db.users[u], UserExists(db, u) /\ db.users[u].password = w)

(* An UPDATE of no row is not an error. *)
UpdatePassword(db, u, w) ==
  Gives(IF UserExists(db, u) THEN [db EXCEPT !.users[u].password = w] ELSE db, "done")

InsertUser(db, u, w) ==
  Insert(~UserExists(db, u), db, [db EXCEPT !.users[u] = [password |-> w, bio |-> NULL]])

(* Neither can NULL be converted to a string. *)
GetBio(db, u) ==
  IF UserExists(db, u) /\ db.users[u].bio # NULL THEN Gives(db, db.users[u].bio) ELSE Fails(db)

UpdateBio(db, u, w) ==
  Gives(IF UserExists(db, u) THEN [db EXCEPT !.users[u].bio = w] ELSE db, "done")

(* A user has one login at a time. *)
InsertLogin(db, u, t) ==
  Insert(UserExists(db, u) /\ <<u, t>> \notin db.logins,
         db, [db EXCEPT !.logins = @ \cup {<<u, t>>}])

AreFriends(db, u, v) == \E r \in db.friends : r[1] = u /\ r[2] = v

(* In this order of the two, and not in the other. *)
CheckAlreadyFriends(db, u, v) == Gives(db, AreFriends(db, u, v))

InsertFriend(db, u, v, t) ==
  Insert(UserExists(db, u) /\ UserExists(db, v) /\ ~AreFriends(db, u, v),
         db, [db EXCEPT !.friends = @ \cup {<<u, v, t>>}])

(* Mutant: only the friends that u has asked. *)
FriendsAsked(db, u) == {r[2] : r \in {r \in db.friends : r[1] = u}} \ {u}

(* Both columns of every row that u is in, each name once and not u itself. *)
Friends(db, u) ==
  LET rows == {r \in db.friends : u \in {r[1], r[2]}}
  IN  (UNION {{r[1], r[2]} : r \in rows}) \ {u}

FetchFriends(db, u) == Gives(db, Friends(db, u))

-----------------------------------------------------------------------------
(* status.h and serverFuncs.cpp                                            *)

(* The enumerators of Status, and the strings that stand for them. *)
Status == 0..3
StatusString == <<"Admin", "User", "Banned", "Nonexistent">>
Nonexistent == 3

GetStatusString(status) == StatusString[status + 1]

GetStatusEnum(string) ==
  IF \E s \in Status : GetStatusString(s) = string
    THEN CHOOSE s \in Status : GetStatusString(s) = string ELSE Threw

ServerExists(db, s) == s \in db.servers

CheckServerExists(db, s) == Gives(db, ServerExists(db, s))

InsertServer(db, s) ==
  Insert(~ServerExists(db, s), db, [db EXCEPT !.servers = @ \cup {s}])

InsertServerMetadata(db, s, t) ==
  Insert(ServerExists(db, s) /\ <<s, t>> \notin db.instances,
         db, [db EXCEPT !.instances = @ \cup {<<s, t>>}])

(* A string that is no Status throws as well. *)
GetServerRoles(db, u, s) ==
  LET row == db.serverRoles[u, s]
  IN  IF row = NULL \/ GetStatusEnum(row.permissions) = Threw THEN Fails(db)
      ELSE Gives(db, <<GetStatusEnum(row.permissions), row.displayName>>)

(* displayName == {} is assigned to all the same; if that goes well, it is *)
(* the name of the user (if not, see Dies in Chitter.tla).                 *)
DisplayName(u, name) == IF name = NULL THEN u ELSE name

InsertServerRoles(db, u, s, status, name) ==
  Insert(UserExists(db, u) /\ ServerExists(db, s) /\ db.serverRoles[u, s] = NULL,
         db, [db EXCEPT !.serverRoles[<<u, s>>] =
                [permissions |-> GetStatusString(status), displayName |-> DisplayName(u, name)]])

-----------------------------------------------------------------------------
(* channelFuncs.cpp                                                        *)

ChannelExists(db, ch, s) == db.channels[ch, s] # NULL

CheckChannelExists(db, ch, s) == Gives(db, ChannelExists(db, ch, s))

InsertChannel(db, ch, topic, s) ==
  Insert(ServerExists(db, s) /\ ~ChannelExists(db, ch, s),
         db, [db EXCEPT !.channels[<<ch, s>>] = topic])

UpdateChannelTopic(db, ch, topic, s) ==
  Gives(IF ChannelExists(db, ch, s) THEN [db EXCEPT !.channels[<<ch, s>>] = topic] ELSE db, "done")

GetChannelTopic(db, ch, s) == FirstRow(db, db.channels[ch, s], db.channels[ch, s])

(* A user says one thing at a time. *)
InsertMsg(db, ch, u, text, s, t) ==
  Insert(/\ UserExists(db, u) /\ ChannelExists(db, ch, s)
         /\ ~\E m \in db.msgs : m[1] = u /\ m[2] = t,
         db, [db EXCEPT !.msgs = @ \cup {<<u, t, text, ch, s>>}])

(* Here no row is an answer. *)
GetChannelRoles(db, u, ch, s) ==
  LET row == db.channelRoles[u, ch, s]
  IN  Gives(db, IF row = NULL THEN Nonexistent ELSE GetStatusEnum(row))

InsertChannelRoles(db, u, ch, s, status) ==
  Insert(UserExists(db, u) /\ ChannelExists(db, ch, s) /\ db.channelRoles[u, ch, s] = NULL,
         db, [db EXCEPT !.channelRoles[<<u, ch, s>>] = GetStatusString(status)])

-----------------------------------------------------------------------------
(* A call is a record of the function's name and its arguments.            *)

(* The functions that are one transaction. *)
Statement(db, k) ==
  CASE k.f = "checkUserExists"     -> CheckUserExists(db, k.user)
    [] k.f = "verifyPassword"      -> VerifyPassword(db, k.user, k.text)
    [] k.f = "updatePassword"      -> UpdatePassword(db, k.user, k.text)
    [] k.f = "insertUser"          -> InsertUser(db, k.user, k.text)
    [] k.f = "getBio"              -> GetBio(db, k.user)
    [] k.f = "updateBio"           -> UpdateBio(db, k.user, k.text)
    [] k.f = "checkAlreadyFriends" -> CheckAlreadyFriends(db, k.user, k.friend)
    [] k.f = "fetchFriends"        -> FetchFriends(db, k.user)
    [] k.f = "checkServerExists"   -> CheckServerExists(db, k.server)
    [] k.f = "insertServer"        -> InsertServer(db, k.server)
    [] k.f = "getServerRoles"      -> GetServerRoles(db, k.user, k.server)
    [] k.f = "insertServerRoles"   -> InsertServerRoles(db, k.user, k.server, k.status, k.text)
    [] k.f = "checkChannelExists"  -> CheckChannelExists(db, k.channel, k.server)
    [] k.f = "insertChannel"       -> InsertChannel(db, k.channel, k.text, k.server)
    [] k.f = "updateChannelTopic"  -> UpdateChannelTopic(db, k.channel, k.text, k.server)
    [] k.f = "getChannelTopic"     -> GetChannelTopic(db, k.channel, k.server)
    [] k.f = "getChannelRoles"     -> GetChannelRoles(db, k.user, k.channel, k.server)
    [] k.f = "insertChannelRoles"  -> InsertChannelRoles(db, k.user, k.channel, k.server, k.status)

(* The last transaction of the functions that insert a row with the time t. *)
StampedInsert(db, k, t) ==
  CASE k.f = "insertLogin"  -> InsertLogin(db, k.user, t)
    [] k.f = "insertFriend" -> InsertFriend(db, k.user, k.friend, t)
    [] k.f = "insertMsg"    -> InsertMsg(db, k.channel, k.user, k.text, k.server, t)
    [] k.f \in {"insertServerMetadata", "handleServer"} -> InsertServerMetadata(db, k.server, t)

Statements ==
  {"checkUserExists", "verifyPassword", "updatePassword", "insertUser", "getBio", "updateBio",
   "checkAlreadyFriends", "fetchFriends", "checkServerExists", "insertServer", "getServerRoles",
   "insertServerRoles", "checkChannelExists", "insertChannel", "updateChannelTopic",
   "getChannelTopic", "getChannelRoles", "insertChannelRoles"}
Stamped   == {"insertLogin", "insertFriend", "insertMsg", "insertServerMetadata"}
Composite == {"handleUser", "handleServer"}

=============================================================================
