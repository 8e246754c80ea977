------------------------------- MODULE Client -------------------------------
(***************************************************************************)
(* The clients, each a single thread that talks to one server, and what    *)
(* the server does with what they send.  A client opens a connection       *)
(* (session), registers, asks for a channel, and then repeats one pass:    *)
(* show what has arrived, read one line from the user, send it.  LEAVE     *)
(* closes the connection and opens the next one on the same address.       *)
(*                                                                         *)
(* The server is here in the large: one action per line it takes up, with  *)
(* all that is written because of it.  The steps these are made of, and    *)
(* what fails in between, are in Registration, Handoff and Servlet; how    *)
(* lines are cut is in SockIO, every line arrives whole here.  Names have  *)
(* no ':' in them, at which the client cuts the replies.                   *)
(***************************************************************************)
EXTENDS SequencesExt

CONSTANTS
  Clients, Channels,
  None,         \* no connection, no channel
  Garbled,      \* no connection: where what is not a topic is taken for one
  MaxTyped,     \* bound: MaxTyped[c] lines a user types in a session
  MaxSessions,  \* bound: MaxSessions[c] connections a client opens
  Odd,          \* clients whose nick or login has characters outside \w
  Faults        \* "refuse": passwords are wrong, or change; "stop": the server ends

ASSUME BoundsAssumption ==
  MaxTyped \in [Clients -> Nat] /\ MaxSessions \in [Clients -> Nat \ {0}]
ASSUME ClientsAssumption == Odd \subseteq Clients /\ Faults \subseteq {"refuse", "stop"}

Conns == UNION {{c} \X (1..MaxSessions[c]) : c \in Clients}

ASSUME NoneAssumption == None \notin Channels \cup Conns /\ Garbled # None

VARIABLES
  pc,            \* where Client::run is
  session,       \* how many connections the client has opened
  typed,         \* how many lines were typed in this session
  sockMsgs,      \* Client::_sock_msgs
  channel,       \* the local channel of connect_to_channel
  channelName,   \* Client::_channel_name
  userChan,      \* the channel of Client::_user
  channelTopic,  \* Client::_channel_topic
  shown,         \* the lines parse_session_msg has printed in this session
  link,          \* link[k]: the connection k
  up,            \* up[k]: written by the client, not yet taken up by the server
  told,          \* told[k]: everything the server has written to k
  read,          \* read[k]: how many lines of it the client has read
  running,       \* the server is up
  serving,       \* the connection the accept loop is busy with
  newusers,      \* newusers[ch]: registered, and not yet announced by the thread
  users,         \* users[ch]: Servlet::_users
  topic,         \* topic[ch]: Servlet::_channel_topic
  dead           \* channels whose thread has ended

display == <<channelName, userChan, channelTopic, shown>>
client  == <<pc, session, typed, sockMsgs, channel, display>>
network == <<link, up, told, read>>
rooms   == <<newusers, users, topic, dead>>
server  == <<running, serving, rooms>>
vars    == <<client, network, server>>

(* from, val: the session that a JOIN, PRIVMSG, TOPIC or PART is of, and its *)
(* number there; an RPL_TOPIC has those of the TOPIC that set the topic.     *)
(* chan: the channel the line names.                                         *)
Line(kind, from, chan, val) == [kind |-> kind, from |-> from, chan |-> chan, val |-> val]

Replies == {"confirm", "topic", "names", "end"}
Loop    == {"update", "input"}
Over    == {"ended", "failed", "crashed"}
Pcs     == {"start", "welcome", "prompt"} \cup Replies \cup Loop \cup Over
Kinds   == {"USERINFO", "001", "464", "JOIN", "332", "353", "366", "PRIVMSG", "TOPIC", "PART"}
Unset   == <<None, 0>>
Garbage == <<Garbled, 0>>
Topics  == {Unset, Garbage} \cup (Conns \X (Nat \ {0}))
Lines   == [kind : Kinds, from : Conns \cup {None}, chan : Channels \cup {None}, val : Nat]

Init ==
  /\ pc = [c \in Clients |-> "start"]
  /\ session = [c \in Clients |-> 0] /\ typed = [c \in Clients |-> 0]
  /\ sockMsgs = [c \in Clients |-> <<>>]
  /\ channel = [c \in Clients |-> None]
  /\ channelName = [c \in Clients |-> None] /\ userChan = [c \in Clients |-> None]
  /\ channelTopic = [c \in Clients |-> Unset] /\ shown = [c \in Clients |-> <<>>]
  /\ link = [k \in Conns |-> "none"] /\ up = [k \in Conns |-> <<>>]
  /\ told = [k \in Conns |-> <<>>] /\ read = [k \in Conns |-> 0]
  /\ running = TRUE /\ serving = None
  /\ newusers = [ch \in Channels |-> <<>>] /\ users = [ch \in Channels |-> {}]
  /\ topic = [ch \in Channels |-> Unset] /\ dead = {}

TopicOf(line) == <<line.from, line.val>>

Conn(c)   == <<c, session[c]>>
Unread(k) == SubSeq(told[k], read[k] + 1, Len(told[k]))

-----------------------------------------------------------------------------
(* The client.                                                             *)

Goto(c, where) == pc' = [pc EXCEPT ![c] = where]

(* try_writing: errors are ignored. *)
TryWriting(k, lines) ==
  IF link[k] = "open" THEN up' = [up EXCEPT ![k] = @ \o lines] ELSE UNCHANGED up

(* The links after the client has closed k, with so many lines read: its     *)
(* kernel answers with an RST if there are more.                             *)
Closed(k, n) ==
  [link EXCEPT ![k] = IF @ # "open" THEN @ ELSE IF n = Len(told[k]) THEN "closed" ELSE "reset"]

(* run() ends, and with it all the client has, also what it has not read. *)
RunEnds(c, how) ==
  /\ Goto(c, how)
  /\ told' = [told EXCEPT ![Conn(c)] = <<>>] /\ read' = [read EXCEPT ![Conn(c)] = 0]
  /\ typed' = [typed EXCEPT ![c] = 0] /\ shown' = [shown EXCEPT ![c] = <<>>]
  /\ sockMsgs' = [sockMsgs EXCEPT ![c] = <<>>]
  /\ channel' = [channel EXCEPT ![c] = None]
  /\ channelName' = [channelName EXCEPT ![c] = None] /\ userChan' = [userChan EXCEPT ![c] = None]
  /\ channelTopic' = [channelTopic EXCEPT ![c] = Unset]

(* connect() and the three lines that pass_user_info_to_server sends. *)
ConnectAndPassUserInfo(c, links, lines) ==
  LET k == <<c, session[c] + 1>> IN
  /\ running
  /\ session' = [session EXCEPT ![c] = @ + 1]
  /\ link' = [links EXCEPT ![k] = "open"]
  /\ up' = [lines EXCEPT ![k] = <<Line("USERINFO", k, None, 0)>>]
  /\ Goto(c, "welcome")

Start(c) ==
  /\ pc[c] = "start"
  /\ ConnectAndPassUserInfo(c, link, up)
  /\ UNCHANGED <<typed, sockMsgs, channel, display, told, read, server>>

(* Nobody listens when the client starts or switches, and connect() throws. *)
ConnectThrows(c) ==
  /\ ~running
  /\ \/ pc[c] = "start" /\ Goto(c, "failed") /\ UNCHANGED <<typed, sockMsgs, channel, display, told, read>>
     \/ pc[c] = "input" /\ RunEnds(c, "failed")
  /\ UNCHANGED <<session, link, up, server>>

(* try_reading: a line that has been read before, or else the first of the   *)
(* lines that have arrived, which are some of those under way.               *)
TryReading(c, n) ==
  LET k == Conn(c)  got == sockMsgs[c] \o SubSeq(told[k], read[k] + 1, read[k] + n) IN
  /\ IF sockMsgs[c] # <<>> THEN n = 0 ELSE n > 0
  /\ sockMsgs' = [sockMsgs EXCEPT ![c] = Tail(got)]
  /\ read' = [read EXCEPT ![k] = @ + n]

FirstUnread(c) == Head(sockMsgs[c] \o Unread(Conn(c)))

(* The reply to the user info.  If it is not RPL_WELCOME the client ends,    *)
(* unless it is switching channels: then nobody looks at it.                 *)
ReadWelcome(c) ==
  /\ pc[c] = "welcome"
  /\ \E n \in 0..Len(Unread(Conn(c))) :
       /\ TryReading(c, n)
       /\ Goto(c, IF FirstUnread(c).kind = "001" \/ session[c] > 1 THEN "prompt" ELSE "ended")
  /\ UNCHANGED <<session, typed, channel, display, link, up, told, server>>

JoinChannel(c, ch) ==
  /\ pc[c] = "prompt"
  /\ channel' = [channel EXCEPT ![c] = ch]
  /\ TryWriting(Conn(c), <<Line("JOIN", Conn(c), ch, 0)>>)
  /\ Goto(c, "confirm")
  /\ UNCHANGED <<session, typed, sockMsgs, display, link, told, read, server>>

AfterReply == [confirm |-> "topic", topic |-> "names", names |-> "end", end |-> "update"]

(* Mutants: in the loop of run, _channel_name or set_channel is forgotten. *)
KeepsChannelName(c, text) ==
  /\ Goto(c, AfterReply[pc[c]])
  /\ channelTopic' = IF pc[c] = "topic" THEN [channelTopic EXCEPT ![c] = text] ELSE channelTopic
  /\ IF pc[c] = "end"
     THEN /\ channelName' = [channelName EXCEPT ![c] = IF @ = None THEN channel[c] ELSE @]
          /\ userChan' = [userChan EXCEPT ![c] = channel[c]]
     ELSE UNCHANGED <<channelName, userChan>>

KeepsUserChan(c, text) ==
  /\ Goto(c, AfterReply[pc[c]])
  /\ channelTopic' = IF pc[c] = "topic" THEN [channelTopic EXCEPT ![c] = text] ELSE channelTopic
  /\ IF pc[c] = "end"
     THEN /\ channelName' = [channelName EXCEPT ![c] = channel[c]]
          /\ userChan' = [userChan EXCEPT ![c] = IF @ = None THEN channel[c] ELSE @]
     ELSE UNCHANGED <<channelName, userChan>>

(* What connect_to_channel and run do with the reply in each place. *)
UseReply(c, text) ==
  /\ Goto(c, AfterReply[pc[c]])
  /\ channelTopic' = IF pc[c] = "topic" THEN [channelTopic EXCEPT ![c] = text] ELSE channelTopic
  /\ IF pc[c] = "end"
     THEN /\ channelName' = [channelName EXCEPT ![c] = channel[c]]
          /\ userChan' = [userChan EXCEPT ![c] = channel[c]]
     ELSE UNCHANGED <<channelName, userChan>>

(* Four replies, of which only the place tells what they are. *)
ReadReply(c) ==
  /\ pc[c] \in Replies
  /\ \E n \in 0..Len(Unread(Conn(c))) : TryReading(c, n) /\ UseReply(c, TopicOf(FirstUnread(c)))
  /\ UNCHANGED <<session, typed, channel, shown, link, up, told, server>>

(* At the end of the stream nothing is read, and the first of no messages is *)
(* taken: the process does not survive, what it takes for a line throws, or  *)
(* the client goes on with it.                                               *)
ReadNothing(c) ==
  /\ pc[c] \in Replies \cup {"welcome"}
  /\ sockMsgs[c] = <<>> /\ Unread(Conn(c)) = <<>> /\ link[Conn(c)] = "ended"
  /\ \/ \E how \in {"crashed", "failed"} : RunEnds(c, how)
     \/ /\ \/ pc[c] = "welcome" /\ Goto(c, "prompt") /\ UNCHANGED <<channelName, userChan, channelTopic>>
           \/ pc[c] \in Replies /\ UseReply(c, Garbage)
        /\ UNCHANGED <<typed, sockMsgs, channel, shown, told, read>>
  /\ UNCHANGED <<session, link, up, server>>

(* Mutant: there is no pattern for JOIN. *)
ParsesNoJoin(line) == line.kind \in {"PRIVMSG", "TOPIC", "PART"} /\ line.from[1] \notin Odd

(* parse_session_msg knows the lines of four kinds, from users whose nick    *)
(* and login are of word characters, and throws at any other.                *)
Parses(line) == line.kind \in {"JOIN", "PRIVMSG", "TOPIC", "PART"} /\ line.from[1] \notin Odd

(* The topic after some lines: the last one, if it is found where            *)
(* _channel_name says it is.                                                 *)
TopicAfter(c, lines) ==
  LET set == {i \in DOMAIN lines : lines[i].kind = "TOPIC"} IN
  IF set = {} THEN channelTopic[c]
  ELSE IF lines[Max(set)].chan = channelName[c] THEN TopicOf(lines[Max(set)]) ELSE Garbage

(* Mutant: _sock_msgs is not cleared. *)
ReadAndParseKeeps(c, n, wrote) ==
  LET k == Conn(c)
      got == sockMsgs[c] \o SubSeq(told[k], read[k] + 1, read[k] + n)
  IN IF \A l \in ToSet(got) : Parses(l)
     THEN /\ read' = [read EXCEPT ![k] = @ + n]
          /\ shown' = [shown EXCEPT ![c] = @ \o got]
          /\ channelTopic' = [channelTopic EXCEPT ![c] = TopicAfter(c, got)]
          /\ sockMsgs' = [sockMsgs EXCEPT ![c] = got]
          /\ typed' = [typed EXCEPT ![c] = @ + wrote]
          /\ Goto(c, "input")
          /\ UNCHANGED <<link, told, channel, channelName, userChan>>
     ELSE link' = Closed(k, read[k] + n) /\ RunEnds(c, "failed")

(* update, parse_session_msg of every message and _sock_msgs.clear().  It    *)
(* does not notice the end of the stream.  An exception ends run().          *)
ReadAndParse(c, n, wrote) ==
  LET k == Conn(c)
      got == sockMsgs[c] \o SubSeq(told[k], read[k] + 1, read[k] + n)
  IN IF \A l \in ToSet(got) : Parses(l)
     THEN /\ read' = [read EXCEPT ![k] = @ + n]
          /\ shown' = [shown EXCEPT ![c] = @ \o got]
          /\ channelTopic' = [channelTopic EXCEPT ![c] = TopicAfter(c, got)]
          /\ sockMsgs' = [sockMsgs EXCEPT ![c] = <<>>]
          /\ typed' = [typed EXCEPT ![c] = @ + wrote]
          /\ Goto(c, "input")
          /\ UNCHANGED <<link, told, channel, channelName, userChan>>
     ELSE link' = Closed(k, read[k] + n) /\ RunEnds(c, "failed")

Arrives(c) == 0..Len(Unread(Conn(c)))

Update(c) ==
  /\ pc[c] = "update"
  /\ \E n \in Arrives(c) : ReadAndParse(c, n, 0)
  /\ UNCHANGED <<session, up, server>>

(* A line from the user and the update that follows are one step: what       *)
(* arrives between the two may as well arrive later.                         *)

(* <ENTER> alone, HELP, TOPIC and SHOW. *)
PressEnter(c, n) ==
  /\ pc[c] = "input"
  /\ ReadAndParse(c, n, 0)
  /\ UNCHANGED <<session, up, server>>

(* A line of text, or TOPIC and SET. *)
Type(c, kind) ==
  /\ pc[c] = "input" /\ typed[c] < MaxTyped[c]
  /\ TryWriting(Conn(c), <<Line(kind, Conn(c), userChan[c], typed[c] + 1)>>)
  /\ \E n \in Arrives(c) : ReadAndParse(c, n, 1)
  /\ UNCHANGED <<session, server>>

Part(c) == <<Line("PART", Conn(c), userChan[c], typed[c] + 1)>>

Exit(c) ==
  /\ pc[c] = "input"
  /\ TryWriting(Conn(c), Part(c))
  /\ link' = Closed(Conn(c), read[Conn(c)])
  /\ RunEnds(c, "ended")
  /\ UNCHANGED <<session, server>>

(* Mutant: no PART. *)
LeaveSilently(c) ==
  LET k == Conn(c) IN
  /\ pc[c] = "input" /\ session[c] < MaxSessions[c]
  /\ ConnectAndPassUserInfo(c, Closed(k, read[k]), up)
  /\ told' = [told EXCEPT ![k] = <<>>] /\ read' = [read EXCEPT ![k] = 0]
  /\ typed' = [typed EXCEPT ![c] = 0] /\ shown' = [shown EXCEPT ![c] = <<>>]
  /\ UNCHANGED <<sockMsgs, channel, channelName, userChan, channelTopic, server>>

(* LEAVE: PART, and the next connection.  What has not been read is lost. *)
Leave(c) ==
  LET k == Conn(c) IN
  /\ pc[c] = "input" /\ session[c] < MaxSessions[c]
  /\ ConnectAndPassUserInfo(c, Closed(k, read[k]),
                            IF link[k] = "open" THEN [up EXCEPT ![k] = @ \o Part(c)] ELSE up)
  /\ told' = [told EXCEPT ![k] = <<>>] /\ read' = [read EXCEPT ![k] = 0]
  /\ typed' = [typed EXCEPT ![c] = 0] /\ shown' = [shown EXCEPT ![c] = <<>>]
  /\ UNCHANGED <<sockMsgs, channel, channelName, userChan, channelTopic, server>>

-----------------------------------------------------------------------------
(* The server.                                                             *)

(* lines[k] are written to every k of ks: a connection that is open gets     *)
(* them, one that the client has closed answers with an RST.                 *)
Tell(ks, lines) ==
  /\ told' = [k \in Conns |-> IF k \in ks /\ link[k] = "open" THEN told[k] \o lines[k] ELSE told[k]]
  /\ link' = [k \in Conns |-> IF k \in ks /\ link[k] = "closed" THEN "reset" ELSE link[k]]

(* Mutant: the accept loop waits for the channel of a client it has refused. *)
RegisterSessionKeeps(k) ==
  /\ running /\ serving = None
  /\ link[k] = "open" /\ up[k] # <<>> /\ Head(up[k]).kind = "USERINFO"
  /\ up' = [up EXCEPT ![k] = Tail(@)]
  /\ \/ /\ told' = [told EXCEPT ![k] = Append(@, Line("001", None, None, 0))]
        /\ UNCHANGED link
     \/ /\ "refuse" \in Faults
        /\ told' = [told EXCEPT ![k] = Append(@, Line("464", None, None, 0))]
        /\ link' = [link EXCEPT ![k] = "ended"]
  /\ serving' = k
  /\ UNCHANGED <<client, read, running, rooms>>

(* register_session: the accept loop takes a connection and its user info;   *)
(* whether the password is right is decided in Registration.                 *)
RegisterSession(k) ==
  /\ running /\ serving = None
  /\ link[k] = "open" /\ up[k] # <<>> /\ Head(up[k]).kind = "USERINFO"
  /\ up' = [up EXCEPT ![k] = Tail(@)]
  /\ \/ /\ told' = [told EXCEPT ![k] = Append(@, Line("001", None, None, 0))]
        /\ serving' = k
        /\ UNCHANGED link
     \/ /\ "refuse" \in Faults
        /\ told' = [told EXCEPT ![k] = Append(@, Line("464", None, None, 0))]
        /\ link' = [link EXCEPT ![k] = "ended"]
        /\ UNCHANGED serving
  /\ UNCHANGED <<client, read, running, rooms>>

(* get_channel_name and the hand-off to the thread of the channel. *)
GetChannelName(k) ==
  /\ running /\ serving = k /\ up[k] # <<>>
  /\ newusers' = [newusers EXCEPT ![Head(up[k]).chan] = Append(@, k)]
  /\ up' = [up EXCEPT ![k] = Tail(@)]
  /\ serving' = None
  /\ UNCHANGED <<client, link, told, read, running, users, topic, dead>>

Alive(ch) == running /\ ch \notin dead

(* Mutant: a newuser is not told of its own JOIN. *)
HandleNewuserTellsOthers(ch) ==
  /\ Alive(ch) /\ newusers[ch] # <<>>
  /\ LET k == Head(newusers[ch])
         join == Line("JOIN", k, ch, 0)
         greeting == <<Line("332", topic[ch][1], ch, topic[ch][2]), Line("353", None, ch, 0), Line("366", None, ch, 0)>>
     IN /\ users' = [users EXCEPT ![ch] = @ \cup {k}]
        /\ Tell(users[ch] \cup {k}, [j \in Conns |-> IF j = k THEN greeting ELSE <<join>>])
  /\ newusers' = [newusers EXCEPT ![ch] = Tail(@)]
  /\ UNCHANGED <<client, up, read, running, serving, topic, dead>>

(* handle_newusers, for the next of them. *)
HandleNewuser(ch) ==
  /\ Alive(ch) /\ newusers[ch] # <<>>
  /\ LET k == Head(newusers[ch])
         join == Line("JOIN", k, ch, 0)
         greeting == <<join, Line("332", topic[ch][1], ch, topic[ch][2]), Line("353", None, ch, 0), Line("366", None, ch, 0)>>
     IN /\ users' = [users EXCEPT ![ch] = @ \cup {k}]
        /\ Tell(users[ch] \cup {k}, [j \in Conns |-> IF j = k THEN greeting ELSE <<join>>])
  /\ newusers' = [newusers EXCEPT ![ch] = Tail(@)]
  /\ UNCHANGED <<client, up, read, running, serving, topic, dead>>

(* The next line of a member is there to be handled. *)
Ready(ch, k, kinds) == Alive(ch) /\ k \in users[ch] /\ up[k] # <<>> /\ Head(up[k]).kind \in kinds

Broadcast(ch, skip, line) == Tell(users[ch] \ skip, [j \in Conns |-> <<line>>])

TakeUp(k) == up' = [up EXCEPT ![k] = Tail(@)]

HandlePriv(ch, k) ==
  /\ Ready(ch, k, {"PRIVMSG"})
  /\ Broadcast(ch, {k}, Head(up[k]))
  /\ TakeUp(k)
  /\ UNCHANGED <<client, read, running, serving, rooms>>

(* Mutant: the topic is cut out of the line at the wrong place. *)
HandleTopicMissesDelim(ch, k) ==
  /\ Ready(ch, k, {"TOPIC"})
  /\ topic' = [topic EXCEPT ![ch] = Garbage]
  /\ Broadcast(ch, {}, [Head(up[k]) EXCEPT !.chan = ch])
  /\ TakeUp(k)
  /\ UNCHANGED <<client, read, running, serving, newusers, users, dead>>

(* The line that is sent names the channel of the thread. *)
HandleTopic(ch, k) ==
  /\ Ready(ch, k, {"TOPIC"})
  /\ topic' = [topic EXCEPT ![ch] = <<k, Head(up[k]).val>>]
  /\ Broadcast(ch, {}, [Head(up[k]) EXCEPT !.chan = ch])
  /\ TakeUp(k)
  /\ UNCHANGED <<client, read, running, serving, newusers, users, dead>>

(* The others are told, the user is removed and its socket erased. *)
HandlePart(ch, k) ==
  /\ Ready(ch, k, {"PART"})
  /\ told' = [j \in Conns |-> IF j \in users[ch] \ {k} /\ link[j] = "open"
                              THEN Append(told[j], Head(up[k])) ELSE told[j]]
  /\ link' = [j \in Conns |-> IF j = k THEN "ended"
                              ELSE IF j \in users[ch] /\ link[j] = "closed" THEN "reset" ELSE link[j]]
  /\ users' = [users EXCEPT ![ch] = @ \ {k}]
  /\ TakeUp(k)
  /\ UNCHANGED <<client, read, running, serving, newusers, topic, dead>>

(* A member's connection has been reset, and remote_endpoint() throws: the   *)
(* thread ends with the sockets it owns.                                     *)
ThreadEnds(ch) ==
  /\ Alive(ch)
  /\ \E k \in users[ch] : link[k] = "reset"
  /\ dead' = dead \cup {ch}
  /\ link' = [k \in Conns |-> IF k \in users[ch] THEN "ended" ELSE link[k]]
  /\ users' = [users EXCEPT ![ch] = {}]
  /\ UNCHANGED <<client, up, told, read, running, serving, newusers, topic>>

(* CTRL+C, or an exception in the main thread. *)
ServerStops ==
  /\ "stop" \in Faults /\ running
  /\ running' = FALSE
  /\ link' = [k \in Conns |-> IF link[k] = "none" THEN "none" ELSE "ended"]
  /\ up' = [k \in Conns |-> <<>>]
  /\ serving' = None
  /\ newusers' = [ch \in Channels |-> <<>>] /\ users' = [ch \in Channels |-> {}]
  /\ UNCHANGED <<client, told, read, topic, dead>>

-----------------------------------------------------------------------------
User(c) ==
  \/ \E ch \in Channels : JoinChannel(c, ch)
  \/ pc[c] = "input" /\ \E n \in Arrives(c) : PressEnter(c, n)
  \/ \E kind \in {"PRIVMSG", "TOPIC"} : Type(c, kind)
  \/ Exit(c) \/ Leave(c)

Program(c) == ConnectThrows(c) \/ ReadWelcome(c) \/ ReadReply(c) \/ ReadNothing(c) \/ Update(c)

MainThread == \E k \in Conns : RegisterSession(k) \/ GetChannelName(k)

Thread(ch) ==
  \/ HandleNewuser(ch) \/ ThreadEnds(ch)
  \/ \E k \in Conns : HandlePriv(ch, k) \/ HandleTopic(ch, k) \/ HandlePart(ch, k)

(* All clients may have ended. *)
Next ==
  \/ \E c \in Clients : Start(c) \/ User(c) \/ Program(c)
  \/ MainThread \/ ServerStops
  \/ \E ch \in Channels : Thread(ch)

(* The threads of the server run, and so do the clients with users that go   *)
(* on typing.  Nobody can go on for ever on its own, since every line is     *)
(* bounded: that some client goes on, or some thread, is enough.             *)
Fairness ==
  /\ WF_vars(MainThread)
  /\ WF_vars(\E ch \in Channels : Thread(ch))
  /\ WF_vars(\E c \in Clients : Start(c) \/ User(c) \/ Program(c))

Spec == Init /\ [][Next]_vars /\ Fairness

-----------------------------------------------------------------------------
TypeOK ==
  /\ pc \in [Clients -> Pcs]
  /\ session \in [Clients -> Nat] /\ \A c \in Clients : session[c] <= MaxSessions[c]
  /\ typed \in [Clients -> Nat] /\ \A c \in Clients : typed[c] <= MaxTyped[c]
  /\ sockMsgs \in [Clients -> Seq(Lines)] /\ shown \in [Clients -> Seq(Lines)]
  /\ channel \in [Clients -> Channels \cup {None}]
  /\ channelName \in [Clients -> Channels \cup {None}]
  /\ userChan \in [Clients -> Channels \cup {None}]
  /\ channelTopic \in [Clients -> Topics]
  /\ link \in [Conns -> {"none", "open", "closed", "reset", "ended"}]
  /\ up \in [Conns -> Seq(Lines)] /\ told \in [Conns -> Seq(Lines)]
  /\ read \in [Conns -> Nat] /\ \A k \in Conns : read[k] <= Len(told[k])
  /\ running \in BOOLEAN /\ serving \in Conns \cup {None}
  /\ newusers \in [Channels -> Seq(Conns)] /\ users \in [Channels -> SUBSET Conns]
  /\ topic \in [Channels -> Topics \ {Garbage}] /\ dead \subseteq Channels

(* What is still to come to the client in this session. *)
Ahead(c) == sockMsgs[c] \o Unread(Conn(c))

(* The client knows a reply by its place only: nothing that is left over     *)
(* from the last channel, and nothing the others say, gets in between.       *)
RepliesInPlace ==
  \A c \in Clients : session[c] > 0 /\ Ahead(c) # <<>> =>
    LET expected == [welcome |-> {"001", "464"}, confirm |-> {"JOIN"}, topic |-> {"332"},
                     names |-> {"353"}, end |-> {"366"}]
    IN /\ pc[c] \in DOMAIN expected => Head(Ahead(c)).kind \in expected[pc[c]]
       /\ pc[c] = "confirm" => Head(Ahead(c)).from = Conn(c)
       /\ pc[c] \in Loop => \A l \in ToSet(Ahead(c)) : l.kind \in {"JOIN", "PRIVMSG", "TOPIC", "PART"}

(* What a user has seen of somebody else, what is on its way, and what the   *)
(* thread has not taken up yet from a member, are that client's lines from   *)
(* some point on: nothing is missing, doubled or out of order.               *)
HearsEveryWord ==
  \A c \in Clients : \A k \in Conns \ {Conn(c)} : pc[c] \in Loop =>
    LET together == \E ch \in Channels : {Conn(c), k} \subseteq users[ch]
        said == shown[c] \o Ahead(c) \o (IF together THEN up[k] ELSE <<>>)
        its(i) == said[i].from = k /\ said[i].kind # "332"
    IN  \A i, j \in DOMAIN said :
          i < j /\ its(i) /\ its(j) /\ (\A m \in (i + 1)..(j - 1) : ~its(m))
          => said[j].val = said[i].val + 1

(* A member that has shown all it was sent has the topic of the channel, and *)
(* until then the last topic that is still to come is that one.              *)
TopicIsCurrent ==
  \A c \in Clients, ch \in Channels :
    pc[c] \in Replies \cup Loop /\ Conn(c) \in users[ch] =>
      LET ahead == Ahead(c)
          sets  == {i \in DOMAIN ahead : ahead[i].kind \in {"332", "TOPIC"}}
      IN  /\ sets = {} => channelTopic[c] = topic[ch]
          /\ \A i \in sets : (\A j \in sets : j <= i) =>
               TopicOf(ahead[i]) = topic[ch] /\ ahead[i].chan = channel[c]

(* What a member has written names the channel it is in, though the server   *)
(* does not look: the members are told what the sender wrote.                *)
NamesItsChannel ==
  \A ch \in Channels : \A k \in users[ch] :
    \A l \in ToSet(up[k]) \cup ToSet(told[k]) : l.chan \in {ch, None}

(* Whom the server holds for a member is one: its client is in the channel,  *)
(* or has said PART, or has failed.  And who is in the loop of run is a      *)
(* member, as long as its connection holds.                                  *)
MembersAreThere ==
  /\ \A ch \in Channels, c \in Clients : \A n \in 1..session[c] : <<c, n>> \in users[ch] =>
       \/ n = session[c] /\ pc[c] \in Replies \cup Loop /\ channel[c] = ch
       \/ n = session[c] /\ pc[c] = "failed"
       \/ \E l \in ToSet(up[<<c, n>>]) : l.kind = "PART"
  /\ \A c \in Clients : pc[c] \in Loop /\ link[Conn(c)] = "open" => Conn(c) \in users[userChan[c]]

(* A client fails for one of three reasons: the server has ended, it has     *)
(* closed the connection, or what comes next is from somebody with an odd    *)
(* name.                                                                     *)
FailsForAReason ==
  [][\A c \in Clients : pc'[c] \in {"failed", "crashed"} /\ pc[c] # pc'[c] =>
       \/ ~running \/ link[Conn(c)] = "ended"
       \/ \E l \in ToSet(Ahead(c)) : l.from # None /\ l.from[1] \in Odd]_vars

(* Who connects, at first or to switch, gets to chat, unless the client ends *)
(* or the thread of some channel or the server has ended.                    *)
GetsToChat ==
  \A c \in Clients : pc[c] = "welcome" ~> pc[c] \in Loop \cup Over \/ dead # {} \/ ~running

=============================================================================
