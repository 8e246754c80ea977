---------------------------- MODULE Registration ----------------------------
(***************************************************************************)
(* How the main thread of a server registers a client: it reads NICK, USER *)
(* and PASS, looks the user up in the database or inserts it, notes the    *)
(* login, answers, and waits for JOIN; then it hands the user on and sees  *)
(* that the channel has a row.  All of it happens in the accept loop, with *)
(* reads that block for as long as the client likes.                       *)
(*                                                                         *)
(* Several servers may use one database.  Every chitter function is a      *)
(* transaction of its own, so checking that a row is missing and inserting *)
(* it are two steps; the keys are those of chit_er_diagram.xml, and an     *)
(* insert that would break one throws.  Any exception ends the server.     *)
(*                                                                         *)
(* A message is one line (how bytes become lines is in SockIO.tla).  The   *)
(* real name and USER carry nothing that is used later.  What becomes of a *)
(* user that has been handed on is in Handoff.tla and Servlet.tla.         *)
(***************************************************************************)
EXTENDS Naturals, Sequences

CONSTANTS
  Servers,      \* server processes; all have the name of the configuration
  Clients,      \* client processes, each with one connection
  NickOf,       \* NickOf[c]: what the user of c calls itself
  PassOf,       \* PassOf[c]: the password the user of c types
  Channels,     \* channel names
  Unhashable,   \* passwords whose digest has a byte that a char cannot hold
  Silent,       \* clients that need not go on once they have connected
  Faults,       \* what may go wrong apart from the code: "kill", "net", "db"
  None          \* no client, no password, nothing read

ASSUME NickAssumption == NickOf \in [Clients -> {NickOf[c] : c \in Clients}]
ASSUME PassAssumption == PassOf \in [Clients -> {PassOf[c] : c \in Clients}]
ASSUME NoneAssumption ==
  None \notin Clients \cup Servers \cup Channels \cup {NickOf[c] : c \in Clients}
                 \cup {"USER"} \cup {PassOf[c] : c \in Clients}

VARIABLES
  conn,       \* conn[c]: the connection of c
  at,         \* at[c]: the server c has connected to
  said,       \* said[c]: how many lines c has sent
  wire,       \* wire[c]: lines sent by c and not yet read
  told,       \* told[c]: the reply codes c has been sent
  pc,         \* pc[s]: where the main thread of s is
  current,    \* current[s]: the connection inner_scope_run has in hand
  lines,      \* lines[s]: _end_msgs of that connection
  took,       \* took[s]: what has been read from it
  accepted,   \* clients that accept() has returned
  handed,     \* <<c, ch>>: users put in _chan_newusers_map
  threads,    \* threads[s]: the channels in _threads
  signalled,  \* servers that have got CTRL+C
  serverRow,  \* the table Servers has a row for the name
  metadata,   \* servers with a row in ServerMetadata
  passwords,  \* the table Users: passwords[n] is None if there is no row for n
  logins,     \* clients with a row in UserMetaData
  chanRows    \* the channel names in the table Channels

clientVars == <<conn, at, said, wire, told>>
database   == <<serverRow, metadata, passwords, logins, chanRows>>
mainVars   == <<pc, current, lines, took, accepted, handed, threads>>
vars       == <<clientVars, mainVars, database, signalled>>

Nicks  == {NickOf[c] : c \in Clients}
Passes == {PassOf[c] : c \in Clients}
Lines  == Nicks \cup {"USER"} \cup Passes \cup Channels
Down   == {"stopped", "crashed"}
NothingRead == [nick |-> None, pass |-> None, chan |-> None]

(* Where a server is without a connection in hand, and with one. *)
Alone   == {"start", "insertServer", "metadata", "accept"} \cup Down
Reading == {"nick", "user", "pass", "join"}
InDatabase == {"check", "verify", "insertUser", "login", "channel", "topic", "insertChannel"}
Busy    == Reading \cup InDatabase \cup {"welcome", "refuse", "publish", "thread"}

Init ==
  /\ conn = [c \in Clients |-> "none"] /\ at = [c \in Clients |-> None]
  /\ said = [c \in Clients |-> 0] /\ wire = [c \in Clients |-> <<>>]
  /\ told = [c \in Clients |-> <<>>]
  /\ pc = [s \in Servers |-> "start"] /\ current = [s \in Servers |-> None]
  /\ lines = [s \in Servers |-> <<>>] /\ took = [s \in Servers |-> NothingRead]
  /\ accepted = {} /\ handed = {} /\ threads = [s \in Servers |-> {}]
  /\ signalled = {}
  /\ serverRow \in BOOLEAN /\ metadata = {}
  /\ passwords = [n \in Lines |-> None] /\ logins = {} /\ chanRows \in SUBSET Channels

-----------------------------------------------------------------------------
(* The clients.                                                            *)

(* The acceptor listens before the server is in the database. *)
Connect(c, s) ==
  /\ conn[c] = "none" /\ pc[s] \notin Down
  /\ conn' = [conn EXCEPT ![c] = "open"] /\ at' = [at EXCEPT ![c] = s]
  /\ UNCHANGED <<said, wire, told, mainVars, database, signalled>>

Send(c, line) ==
  /\ wire' = [wire EXCEPT ![c] = Append(@, line)]
  /\ said' = [said EXCEPT ![c] = @ + 1]
  /\ UNCHANGED <<conn, at, told, mainVars, database, signalled>>

(* pass_user_info_to_server: three writes. *)
PassUserInfo(c) ==
  /\ conn[c] = "open" /\ said[c] < 3
  /\ Send(c, <<NickOf[c], "USER", PassOf[c]>>[said[c] + 1])

(* connect_to_channel, once the server has answered RPL_WELCOME. *)
AskForChannel(c) ==
  /\ conn[c] = "open" /\ said[c] = 3 /\ told[c] = <<"001">>
  /\ \E ch \in Channels : Send(c, ch)

ConnectionEnds(c) ==
  /\ conn[c] \in {"open", "poked"}
  /\ \/ conn[c] = "open" /\ "kill" \in Faults /\ conn' = [conn EXCEPT ![c] = "closed"]
     \/ /\ conn[c] = "poked" \/ "net" \in Faults
        /\ conn' = [conn EXCEPT ![c] = "reset"]
  /\ UNCHANGED <<at, said, wire, told, mainVars, database, signalled>>

(* CTRL+C *)
SignalHandler(s) ==
  /\ signalled' = signalled \cup {s}
  /\ s \notin signalled /\ pc[s] \notin Down
  /\ UNCHANGED <<clientVars, mainVars, database>>

-----------------------------------------------------------------------------
(* The main thread of server s.                                            *)

Goto(s, where) == pc' = [pc EXCEPT ![s] = where]

(* The connection in hand is let go. *)
LetGo(s) ==
  /\ current' = [current EXCEPT ![s] = None]
  /\ lines' = [lines EXCEPT ![s] = <<>>]
  /\ took' = [took EXCEPT ![s] = NothingRead]

(* run() catches whatever leaves inner_scope_run, and returns. *)
Throws(s) ==
  /\ Goto(s, "stopped")
  /\ LetGo(s)
  /\ UNCHANGED <<clientVars, accepted, handed, threads, database, signalled>>

(* remote_endpoint() throws on a connection that has been reset. *)
IsReset(s) == conn[current[s]] = "reset"

(* checkServerExists *)
HandleServer(s) ==
  /\ pc[s] = "start"
  /\ Goto(s, IF serverRow THEN "metadata" ELSE "insertServer")
  /\ UNCHANGED <<clientVars, current, lines, took, accepted, handed, threads, database, signalled>>

InsertServer(s) ==
  /\ pc[s] = "insertServer" /\ ~serverRow
  /\ serverRow' = TRUE
  /\ Goto(s, "metadata")
  /\ UNCHANGED <<clientVars, current, lines, took, accepted, handed, threads,
                 metadata, passwords, logins, chanRows, signalled>>

InsertServerMetadata(s) ==
  /\ pc[s] = "metadata"
  /\ metadata' = metadata \cup {s}
  /\ Goto(s, "accept")
  /\ UNCHANGED <<clientVars, current, lines, took, accepted, handed, threads,
                 serverRow, passwords, logins, chanRows, signalled>>

(* accept() has failed with another error than would_block, and set_option() *)
(* throws on a socket that is not open.                                      *)
AcceptThrows(s) ==
  /\ "net" \in Faults /\ pc[s] = "accept" /\ s \notin signalled
  /\ Throws(s)

Accept(s, c) ==
  /\ pc[s] = "accept" /\ s \notin signalled
  /\ at[c] = s /\ c \notin accepted
  /\ accepted' = accepted \cup {c}
  /\ current' = [current EXCEPT ![s] = c]
  /\ Goto(s, "nick")
  /\ UNCHANGED <<clientVars, lines, took, handed, threads, database, signalled>>

(* Mutant: the loop goes on for as long as there are channels. *)
LoopEndsIfNoChannel(s) ==
  /\ pc[s] = "accept" /\ s \in signalled /\ threads[s] = {}
  /\ Goto(s, "stopped")
  /\ UNCHANGED <<clientVars, current, lines, took, accepted, handed, threads, database, signalled>>

LoopEnds(s) ==
  /\ pc[s] = "accept" /\ s \in signalled
  /\ Goto(s, "stopped")
  /\ UNCHANGED <<clientVars, current, lines, took, accepted, handed, threads, database, signalled>>

(* What is done with a line: the code looks at its place, not at its kind. *)
After == [nick |-> "user", user |-> "pass", pass |-> "check", join |-> "publish"]
Field == [nick |-> "nick", user |-> "user", pass |-> "pass", join |-> "chan"]

Use(s, line) ==
  /\ took' = [took EXCEPT ![s] = [f \in DOMAIN @ |-> IF f = Field[pc[s]] THEN line ELSE @[f]]]
  /\ Goto(s, After[pc[s]])

Available(s) == IF lines[s] = <<>> THEN wire[current[s]] ELSE lines[s]

(* A password that cannot be hashed throws. *)
CanUse(s, line) == pc[s] = "pass" => line \notin Unhashable

(* Mutant: the line is used and left in the deque. *)
TryReadingWithoutPop(s) ==
  /\ pc[s] \in Reading /\ ~IsReset(s)
  /\ Available(s) # <<>> /\ CanUse(s, Head(Available(s)))
  /\ lines' = [lines EXCEPT ![s] = Available(s)]
  /\ wire' = IF lines[s] = <<>> THEN [wire EXCEPT ![current[s]] = <<>>] ELSE wire
  /\ Use(s, Head(Available(s)))
  /\ UNCHANGED <<conn, at, said, told, current, accepted, handed, threads, database, signalled>>

(* A line that has been read before, or else all there is on the socket and  *)
(* the first line of it.  If there is nothing, the thread waits.             *)
TryReading(s) ==
  /\ pc[s] \in Reading /\ ~IsReset(s)
  /\ Available(s) # <<>> /\ CanUse(s, Head(Available(s)))
  /\ lines' = [lines EXCEPT ![s] = Tail(Available(s))]
  /\ wire' = IF lines[s] = <<>> THEN [wire EXCEPT ![current[s]] = <<>>] ELSE wire
  /\ Use(s, Head(Available(s)))
  /\ UNCHANGED <<conn, at, said, told, current, accepted, handed, threads, database, signalled>>

TryReadingFails(s) ==
  /\ pc[s] \in Reading
  /\ IsReset(s) \/ (Available(s) # <<>> /\ ~CanUse(s, Head(Available(s))))
  /\ Throws(s)

(* Lines that may lie in memory that was a deque before. *)
LeftOver(s) ==
  {line \in Lines : \E c \in Clients : at[c] = s /\
     \/ \E i \in 1..said[c] : i < 4 /\ line = <<NickOf[c], "USER", PassOf[c]>>[i]
     \/ said[c] = 4 /\ line \in Channels}

(* At the end of the stream, or when the connection is reset under the read, *)
(* nothing is read and the first of no messages is taken.  The process does  *)
(* not survive, or what it takes for a line is one that throws (bad_alloc,   *)
(* out_of_range), or one that was read earlier.                              *)
TryReadingNothing(s) ==
  /\ pc[s] \in Reading /\ lines[s] = <<>>
  /\ IsReset(s) \/ (wire[current[s]] = <<>> /\ conn[current[s]] \in {"closed", "poked"})
  /\ \/ Throws(s)
     \/ /\ Goto(s, "crashed") /\ LetGo(s)
        /\ UNCHANGED <<clientVars, accepted, handed, threads, database, signalled>>
     \/ /\ \E line \in LeftOver(s) : CanUse(s, line) /\ Use(s, line)
        /\ UNCHANGED <<clientVars, current, lines, accepted, handed, threads, database, signalled>>

User(s) == took[s].nick

(* checkUserExists *)
HandleUser(s) ==
  /\ pc[s] = "check" /\ ~IsReset(s)
  /\ Goto(s, IF passwords[User(s)] = None THEN "insertUser" ELSE "verify")
  /\ UNCHANGED <<clientVars, current, lines, took, accepted, handed, threads, database, signalled>>

VerifyPassword(s) ==
  /\ pc[s] = "verify"
  /\ Goto(s, IF passwords[User(s)] = took[s].pass THEN "login" ELSE "refuse")
  /\ UNCHANGED <<clientVars, current, lines, took, accepted, handed, threads, database, signalled>>

InsertUser(s) ==
  /\ pc[s] = "insertUser" /\ passwords[User(s)] = None
  /\ passwords' = [passwords EXCEPT ![User(s)] = took[s].pass]
  /\ Goto(s, "login")
  /\ UNCHANGED <<clientVars, current, lines, took, accepted, handed, threads,
                 serverRow, metadata, logins, chanRows, signalled>>

(* Mutant: the login is not noted. *)
NoLogin(s) ==
  /\ pc[s] = "login" /\ ~IsReset(s)
  /\ Goto(s, "welcome")
  /\ UNCHANGED <<clientVars, current, lines, took, accepted, handed, threads, database, signalled>>

InsertLogin(s) ==
  /\ pc[s] = "login" /\ ~IsReset(s)
  /\ logins' = logins \cup {current[s]}
  /\ Goto(s, "welcome")
  /\ UNCHANGED <<clientVars, current, lines, took, accepted, handed, threads,
                 serverRow, metadata, passwords, chanRows, signalled>>

(* The reply is written, and the error of writing to a connection that has   *)
(* been closed is ignored.                                                   *)
Tell(s, code) ==
  IF conn[current[s]] = "open" THEN told' = [told EXCEPT ![current[s]] = Append(@, code)]
                               ELSE UNCHANGED told

(* Mutant: the answer to the wrong password does not end inner_scope_run. *)
RefuseAndGoOn(s) ==
  /\ pc[s] = "refuse" /\ ~IsReset(s)
  /\ Tell(s, "464")
  /\ Goto(s, "join")
  /\ UNCHANGED <<conn, at, said, wire, current, lines, took, accepted, handed, threads, database, signalled>>

(* ERR_PASSWDMISMATCH, and the socket goes out of scope. *)
Refuse(s) ==
  /\ pc[s] = "refuse" /\ ~IsReset(s)
  /\ Tell(s, "464")
  /\ conn' = [conn EXCEPT ![current[s]] = "done"]
  /\ Goto(s, "accept") /\ LetGo(s)
  /\ UNCHANGED <<at, said, wire, accepted, handed, threads, database, signalled>>

(* RPL_WELCOME *)
Welcome(s) ==
  /\ pc[s] = "welcome" /\ ~IsReset(s)
  /\ Tell(s, "001")
  /\ conn' = [conn EXCEPT ![current[s]] = IF @ = "closed" THEN "poked" ELSE @]
  /\ Goto(s, "join")
  /\ UNCHANGED <<at, said, wire, current, lines, took, accepted, handed, threads, database, signalled>>

(* update_comm_structs and the Notifier; only a new channel goes on to the   *)
(* database.                                                                 *)
Publish(s) ==
  /\ pc[s] = "publish" /\ ~IsReset(s)
  /\ handed' = handed \cup {<<current[s], took[s].chan>>}
  /\ IF took[s].chan \in threads[s] THEN Goto(s, "accept") /\ LetGo(s)
     ELSE Goto(s, "channel") /\ UNCHANGED <<current, lines, took>>
  /\ UNCHANGED <<clientVars, accepted, threads, database, signalled>>

(* checkChannelExists *)
CheckChannel(s) ==
  /\ pc[s] = "channel"
  /\ Goto(s, IF took[s].chan \in chanRows THEN "topic" ELSE "insertChannel")
  /\ UNCHANGED <<clientVars, current, lines, took, accepted, handed, threads, database, signalled>>

GetChannelTopic(s) ==
  /\ pc[s] = "topic"
  /\ Goto(s, "thread")
  /\ UNCHANGED <<clientVars, current, lines, took, accepted, handed, threads, database, signalled>>

(* Mutant: the thread is started without a row. *)
ForgetChannel(s) ==
  /\ pc[s] = "insertChannel" /\ took[s].chan \notin chanRows
  /\ Goto(s, "thread")
  /\ UNCHANGED <<clientVars, current, lines, took, accepted, handed, threads, database, signalled>>

InsertChannel(s) ==
  /\ pc[s] = "insertChannel" /\ took[s].chan \notin chanRows
  /\ chanRows' = chanRows \cup {took[s].chan}
  /\ Goto(s, "thread")
  /\ UNCHANGED <<clientVars, current, lines, took, accepted, handed, threads,
                 serverRow, metadata, passwords, logins, signalled>>

StartThread(s) ==
  /\ pc[s] = "thread"
  /\ threads' = [threads EXCEPT ![s] = @ \cup {took[s].chan}]
  /\ Goto(s, "accept") /\ LetGo(s)
  /\ UNCHANGED <<clientVars, accepted, handed, database, signalled>>

(* Somebody else has inserted the row in the meantime. *)
InsertThrows(s) ==
  /\ \/ pc[s] = "insertServer" /\ serverRow
     \/ pc[s] = "insertUser" /\ passwords[User(s)] # None
     \/ pc[s] = "insertChannel" /\ took[s].chan \in chanRows
  /\ Throws(s)

EndpointThrows(s) ==
  /\ pc[s] \in {"check", "login", "welcome", "refuse", "publish"} /\ IsReset(s)
  /\ Throws(s)

DatabaseThrows(s) ==
  /\ "db" \in Faults
  /\ pc[s] \in InDatabase \cup {"start", "insertServer", "metadata"}
  /\ Throws(s)

Client(c) ==
  \/ \E s \in Servers : Connect(c, s)
  \/ PassUserInfo(c) \/ AskForChannel(c)
  \/ ConnectionEnds(c)

Run(s) ==
  \/ HandleServer(s) \/ InsertServer(s) \/ InsertServerMetadata(s)
  \/ \E c \in Clients : Accept(s, c)
  \/ LoopEnds(s)
  \/ TryReading(s) \/ TryReadingFails(s) \/ TryReadingNothing(s)
  \/ HandleUser(s) \/ VerifyPassword(s) \/ InsertUser(s) \/ InsertLogin(s)
  \/ Refuse(s) \/ Welcome(s) \/ Publish(s)
  \/ CheckChannel(s) \/ GetChannelTopic(s) \/ InsertChannel(s) \/ StartThread(s)
  \/ InsertThrows(s) \/ EndpointThrows(s)

(* Every server may have stopped, and every client may have gone quiet. *)
Next ==
  \/ \E c \in Clients : Client(c)
  \/ \E s \in Servers : Run(s) \/ AcceptThrows(s) \/ DatabaseThrows(s) \/ SignalHandler(s)

(* The main threads run, and the clients that are not Silent answer. *)
Fairness ==
  /\ \A s \in Servers : WF_vars(Run(s))
  /\ \A c \in Clients \ Silent : WF_vars(PassUserInfo(c) \/ AskForChannel(c))

Spec == Init /\ [][Next]_vars /\ Fairness

-----------------------------------------------------------------------------
TypeOK ==
  /\ conn \in [Clients -> {"none", "open", "poked", "closed", "reset", "done"}]
  /\ at \in [Clients -> Servers \cup {None}]
  /\ said \in [Clients -> 0..4]
  /\ wire \in [Clients -> Seq(Lines)]
  /\ told \in [Clients -> {<<>>, <<"001">>, <<"464">>}]
  /\ pc \in [Servers -> Alone \cup Busy]
  /\ current \in [Servers -> Clients \cup {None}]
  /\ \A s \in Servers : IF pc[s] \in Busy THEN current[s] \in accepted ELSE current[s] = None
  /\ lines \in [Servers -> Seq(Lines)]
  /\ took \in [Servers -> [nick : Lines \cup {None}, pass : Lines \cup {None},
                           chan : Lines \cup {None}]]
  /\ accepted \subseteq Clients /\ handed \subseteq Clients \X Lines
  /\ threads \in [Servers -> SUBSET Lines] /\ signalled \subseteq Servers
  /\ serverRow \in BOOLEAN /\ metadata \subseteq Servers
  /\ passwords \in [Lines -> Lines \cup {None}]
  /\ logins \subseteq Clients /\ chanRows \subseteq Lines

(* As long as a client is there, the lines the server takes for its nick,    *)
(* password and channel are that, though it goes by their place only,        *)
(* however the sending of three lines and the reading interleave.            *)
RegistersWhoAsked ==
  \A s \in Servers : pc[s] \in Busy /\ conn[current[s]] = "open" =>
    /\ took[s].nick \in {None, NickOf[current[s]]}
    /\ took[s].pass \in {None, PassOf[current[s]]}
    /\ took[s].chan \in {None} \cup Channels

(* Two clients that are welcomed under one nick have given the same          *)
(* password, even if two servers registered the nick at the same time.       *)
NickHasOnePassword ==
  \A c, d \in Clients :
    /\ NickOf[c] = NickOf[d]
    /\ told[c] = <<"001">> /\ told[d] = <<"001">>
    => PassOf[c] = PassOf[d]

(* Whoever is welcomed has a login in the database and the password that is  *)
(* stored there, and nobody reaches a channel without a login.               *)
WelcomeAfterLogin ==
  \A c \in Clients :
    /\ told[c] = <<"001">> => c \in logins /\ passwords[NickOf[c]] = PassOf[c]
    /\ (\E ch \in Lines : <<c, ch>> \in handed) => c \in logins

(* A channel has its row before it has a thread that would update it, and    *)
(* a thread only after somebody has been queued for it.                      *)
RowBeforeThread ==
  \A s \in Servers : \A ch \in threads[s] :
    ch \in chanRows /\ \E c \in Clients : at[c] = s /\ <<c, ch>> \in handed

(* The password of a nick is that of its first registration, for good. *)
FirstPasswordStays ==
  [][\A n \in Lines : passwords[n] # None => passwords'[n] = passwords[n]]_vars

(* All that can keep a server is a client that is silent in the middle of    *)
(* registering: then nobody else gets any further.                           *)
Kept(s) == pc[s] \in Reading /\ current[s] \in Silent

(* Who connects and goes on is told RPL_WELCOME or ERR_PASSWDMISMATCH,       *)
(* unless its connection or the server is ended from outside, or a silent    *)
(* client keeps the server.                                                  *)
EveryoneIsAnswered ==
  \A c \in Clients \ Silent, s \in Servers :
    at[c] = s ~> told[c] # <<>> \/ conn[c] # "open" \/ s \in signalled \/ Kept(s)

(* "Type CTRL+C to quit": it does, once no silent client keeps the server.   *)
CtrlCQuits == \A s \in Servers : s \in signalled ~> pc[s] \in Down \/ Kept(s)

=============================================================================
