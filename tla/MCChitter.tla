----------------------------- MODULE MCChitter -----------------------------
(* Chitter on a small instance: a server and a program that connects for   *)
(* every call, two users, a server name and a channel.                     *)
EXTENDS Chitter

CONSTANTS server, other

(* An empty database, and one with two users, one of them with a role that *)
(* only chit_er_diagram.xml knows.                                         *)
Empty ==
  [users |-> [u \in {"ann", "bob"} |-> NULL],
   logins |-> {}, friends |-> {}, servers |-> {}, instances |-> {},
   serverRoles |-> [x \in {"ann", "bob"} \X {"chit"} |-> NULL],
   channels |-> [x \in {"#a"} \X {"chit"} |-> NULL], msgs |-> {},
   channelRoles |-> [x \in {"ann", "bob"} \X {"#a"} \X {"chit"} |-> NULL]]

InUse ==
  [Empty EXCEPT !.users = [u \in {"ann", "bob"} |-> [password |-> "p", bio |-> NULL]],
                !.servers = {"chit"}, !.channels = [x \in DOMAIN @ |-> "hi"],
                !.serverRoles["bob", "chit"] = [permissions |-> "Normie", displayName |-> "rob"]]

MCDatabases == {Empty, InUse}

UserCalls ==
  [f : {"handleUser"}, user : {"ann"}, text : {"p", "q"}]
    \cup [f : {"verifyPassword", "updatePassword", "insertUser", "updateBio"},
          user : {"ann"}, text : {"q"}]
    \cup [f : {"checkUserExists", "getBio", "fetchFriends", "insertLogin"}, user : {"ann"}]
    \cup [f : {"checkAlreadyFriends", "insertFriend"}, user : {"ann", "bob"}, friend : {"bob"}]
    \cup [f : {"insertFriend"}, user : {"bob"}, friend : {"ann"}]
ServerCalls ==
  [f : {"checkServerExists", "insertServer", "insertServerMetadata", "handleServer"},
   server : {"chit"}]
    \cup [f : {"getServerRoles"}, user : {"ann", "bob"}, server : {"chit"}]
    \cup [f : {"insertServerRoles"}, user : {"ann"}, server : {"chit"}, status : {0},
          text : {NULL, "annie"}]
ChannelCalls ==
  [f : {"checkChannelExists", "getChannelTopic"}, channel : {"#a"}, server : {"chit"}]
    \cup [f : {"insertChannel", "updateChannelTopic"}, channel : {"#a"}, text : {"yo"},
          server : {"chit"}]
    \cup [f : {"insertMsg"}, channel : {"#a"}, user : {"ann"}, text : {"yo"}, server : {"chit"}]
    \cup [f : {"getChannelRoles", "insertChannelRoles"}, user : {"ann"}, channel : {"#a"},
          server : {"chit"}, status : {2}]

AllCalls == UserCalls \cup ServerCalls \cup ChannelCalls

(* A server makes the calls of Server.cpp and Servlet.cpp. *)
CallsOfServer ==
  {k \in AllCalls : k.f \in {"handleServer", "handleUser", "insertLogin", "checkChannelExists",
     "getChannelTopic", "insertChannel", "insertMsg", "updateChannelTopic"}}

MCCalls == [p \in Programs |-> IF p = server THEN CallsOfServer ELSE AllCalls]
MCMaxCalls == [p \in Programs |-> IF p = server THEN 1 ELSE 2]

-----------------------------------------------------------------------------
Elements == <<"databaseType", "username", "password", "ip", "port", "databaseName">>

(* Every element has a text of its own; one name is written with a blank.  *)
TextOf(e) == IF e = "username" THEN <<"us", Blank, "er">> ELSE <<e>>
Node(e, text) == [element |-> e, text |-> text]
Six == [i \in 1..6 |-> Node(Elements[i], TextOf(Elements[i]))]
Without(e) == SelectSeq(Six, LAMBDA n : n.element # e)
Names == {Elements[i] : i \in 1..6}
Used == {"username", "password", "ip", "databaseName"}
Again(nodes, names) == {Append(nodes, Node(e, <<"other", Blank>>)) : e \in names}

Sections ==
  {<<Node("comment", <<"no">>)>> \o Six, [Six EXCEPT ![3].text = <<>>]}
    \cup {Without(e) : e \in Names} \cup Again(Six, Used)
    \cup UNION {Again(Without(e), Used) : e \in Names}

Chit == <<Node("defaultTopic", <<"topic", Blank>>), Node("defaultName", <<"chit">>)>>

MCDocuments ==
  {NoNode, [serverInfo |-> Chit, databaseInfo |-> NoNode],
   [serverInfo |-> Tail(Chit), databaseInfo |-> Six],
   [serverInfo |-> NoNode, databaseInfo |-> Six]}
    \cup {[serverInfo |-> Chit, databaseInfo |-> s] : s \in Sections}

MCLogin == [k \in Keywords |->
  CASE k = "user=" -> <<"us", "er">> [] k = "host=" -> <<"ip">>
    [] k = "password=" -> <<"password">> [] k = "dbname=" -> <<"databaseName">>]

=============================================================================
