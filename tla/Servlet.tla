------------------------------ MODULE Servlet ------------------------------
(***************************************************************************)
(* One channel: its thread (thread_run and class Servlet), the clients     *)
(* that are connected to it, and the rows it keeps in the database.        *)
(*                                                                         *)
(* The thread repeats one pass: take in the newusers and announce them,    *)
(* read what every socket has available, and handle the messages in the    *)
(* order of the _end_msgs map.  Every reply is written with a blocking     *)
(* asio::write from a loop over _users; finding the socket and writing to  *)
(* it are two steps, because the client may go away in between, and a      *)
(* write that fails removes the user while the loop is still under way.    *)
(*                                                                         *)
(* The hand-off is in Handoff.tla: here a client that joins is put in      *)
(* waiting with its socket, all of them in the order of accept.  A client  *)
(* sends nothing between JOIN and the end of the replies to it, so nobody  *)
(* brings messages along.  Every message arrives whole: how sockio cuts    *)
(* what it reads is in SockIO.tla.  A message carries a number instead of  *)
(* text, its place among all the messages the clients send.                *)
(***************************************************************************)
EXTENDS SequencesExt

CONSTANTS
  Conns,      \* remote endpoints, in the order that _end_msgs keeps them in
  MaxMsgs,    \* bound: messages the clients send in all
  Leavers,    \* bound: clients whose connection ends
  Idle,       \* clients whose user does not press <ENTER> after joining
  Window,     \* messages a connection holds when nobody reads it
  Faults      \* what may go wrong apart from the code: "net", "kill", "db"

ASSUME ConnsAssumption == Conns \subseteq Nat \ {0} /\ IsFiniteSet(Conns)
ASSUME BoundsAssumption == MaxMsgs \in Nat /\ Window \in Nat /\ Idle \cup Leavers \subseteq Conns
ASSUME FaultsAssumption == Faults \subseteq {"net", "kill", "db"}

VARIABLES
  peer,      \* peer[c]: the connection and the client at its other end
  wire,      \* wire[c]: sent by c, not yet read by the server
  inbox,     \* inbox[c]: everything ever written to c with success
  sent,      \* how many messages the clients have sent
  waiting,   \* _chan_newusers_map[channel], and the sockets in _socks_deq
  users,     \* Servlet::_users
  socks,     \* Servlet::_socks
  endMsgs,   \* Servlet::_end_msgs
  topic,     \* Servlet::_channel_topic, as the number of the TOPIC that set it
  dbTopic,   \* the ChannelTopic column of the channel's row
  log,       \* the rows of ChatLogs for this channel
  pc,        \* where thread_run is
  newusers,  \* the users that handle_newusers has not handled yet
  loop,      \* what the range-for over _users has still to visit
  replies,   \* what handle_newusers writes to the newuser after the loop
  names,     \* the local usernames of handle_newusers
  job,       \* the message being handled, or the JOIN being announced
  cursor,    \* the entry of _end_msgs that handle_endmsgs is at, 0: none
  msgList    \* the messages of that entry that are still to be handled

clients  == <<peer, wire, inbox, sent>>
servlet  == <<users, socks, endMsgs, topic>>
database == <<dbTopic, log>>
local    == <<newusers, loop, replies, names, job, cursor, msgList>>
vars     == <<clients, waiting, servlet, database, pc, local>>

(* What goes over the wire in either direction.  of: the user it is about;  *)
(* val: the number of a PRIVMSG or TOPIC, or the topic of an RPL_TOPIC.     *)
Msg(kind, of, val) == [kind |-> kind, of |-> of, val |-> val, names |-> {}]
NoMsg == Msg("none", 0, 0)

Peers == {"idle", "open", "parting", "closed", "poked", "reset"}
Pcs   == {"grab", "announce", "send", "write", "read", "handle", "exited", "crashed"}
Kinds == {"none", "JOIN", "RPL_TOPIC", "RPL_NAMREPLY", "RPL_ENDOFNAMES", "PRIVMSG", "TOPIC", "PART"}
Msgs  == [kind : Kinds, of : Conns \cup {0}, val : 0..MaxMsgs, names : SUBSET Conns]
Items == [to : Conns, msg : Msgs]

(* Nobody is in a queue of users or sockets twice. *)
IsQueue(s) == s \in Seq(Conns) /\ IsInjective(s)

TypeOK ==
  /\ peer \in [Conns -> Peers]
  /\ wire \in [Conns -> Seq(Msgs)] /\ inbox \in [Conns -> Seq(Msgs)]
  /\ sent \in 0..MaxMsgs /\ topic \in 0..MaxMsgs /\ dbTopic \in 0..MaxMsgs
  /\ IsQueue(waiting) /\ IsQueue(users) /\ IsQueue(socks) /\ IsQueue(newusers)
  /\ DOMAIN endMsgs \subseteq Conns /\ endMsgs \in [DOMAIN endMsgs -> Seq(Msgs)]
  /\ log \in Seq(0..MaxMsgs)
  /\ pc \in Pcs
  /\ loop \in Seq(Items) /\ replies \in Seq(Items) /\ msgList \in Seq(Msgs)
  /\ names \in SUBSET Conns /\ job \in Msgs /\ cursor \in Conns \cup {0}

Init ==
  /\ peer  = [c \in Conns |-> "idle"]
  /\ wire  = [c \in Conns |-> <<>>]
  /\ inbox = [c \in Conns |-> <<>>]
  /\ sent = 0
  /\ waiting = <<>> /\ users = <<>> /\ socks = <<>> /\ endMsgs = <<>>
  /\ topic = 0 /\ dbTopic = 0 /\ log = <<>>
  /\ pc = "grab"
  /\ newusers = <<>> /\ loop = <<>> /\ replies = <<>> /\ names = {}
  /\ job = NoMsg /\ cursor = 0 /\ msgList = <<>>

-----------------------------------------------------------------------------
(* The clients.                                                            *)

(* A client registers and asks for the channel; the thread cannot tell when, *)
(* before it looks.                                                          *)
Join(c) ==
  /\ pc = "grab"
  /\ peer[c] = "idle"
  /\ peer' = [peer EXCEPT ![c] = "open"]
  /\ waiting' = Append(waiting, c)
  /\ UNCHANGED <<wire, inbox, sent, servlet, database, pc, local>>

(* connect_to_channel waits for four replies.  What arrives later is read    *)
(* when the user presses <ENTER>: some of it, all or nothing may have been   *)
(* read at any moment.                                                       *)
Greeted(c)   == Len(inbox[c]) >= 4
MayHoldUnread(c) == Len(inbox[c]) # 0 /\ (Len(inbox[c]) # 4 \/ "kill" \in Faults)

(* A line of text, or TOPIC and SET. *)
ClientSends(c, kind) ==
  /\ peer[c] = "open" /\ Greeted(c)
  /\ sent < MaxMsgs
  /\ sent' = sent + 1
  /\ wire' = [wire EXCEPT ![c] = Append(@, Msg(kind, c, sent + 1))]
  /\ UNCHANGED <<peer, inbox, waiting, servlet, database, pc, local>>

(* How a client's end of the connection goes: its kernel sends an RST if     *)
(* there is something the client has not read.                               *)
Close(c) ==
  \E gone \in {"closed"} \cup (IF MayHoldUnread(c) THEN {"reset"} ELSE {}) :
    peer' = [peer EXCEPT ![c] = gone]

(* LEAVE or EXIT: PART, and the socket is closed.  That the thread can read  *)
(* PART before the close is the only reason to tell the two apart.           *)
ClientParts(c) ==
  /\ peer[c] = "open" /\ Greeted(c)
  /\ wire' = [wire EXCEPT ![c] = Append(@, Msg("PART", c, 0))]
  /\ \/ pc = "read" /\ peer' = [peer EXCEPT ![c] = "parting"]
     \/ Close(c)
  /\ UNCHANGED <<inbox, sent, waiting, servlet, database, pc, local>>

(* ... or the client is killed. *)
ClientCloses(c) ==
  /\ peer[c] = "parting" \/ (peer[c] = "open" /\ "kill" \in Faults)
  /\ Close(c)
  /\ UNCHANGED <<wire, inbox, sent, waiting, servlet, database, pc, local>>

(* The connection breaks, or the answer of the client's kernel arrives to    *)
(* something that was written to a closed socket.  From then on              *)
(* remote_endpoint() throws and writing fails.                               *)
Reset(c) ==
  /\ peer[c] = "poked" \/ (peer[c] \in {"open", "parting", "closed"} /\ "net" \in Faults)
  /\ peer' = [peer EXCEPT ![c] = "reset"]
  /\ UNCHANGED <<wire, inbox, sent, waiting, servlet, database, pc, local>>

-----------------------------------------------------------------------------
(* Users and their sockets.                                                *)

Broken(c) == peer[c] = "reset"

(* The sockets std::find_if asks for their endpoint to find the one of c. *)
LookedAt(c) ==
  {socks[i] : i \in {j \in DOMAIN socks : \A k \in 1..(j - 1) : socks[k] # c}}

(* An exception ends thread_run, and the Servlet and its sockets with it. *)
Dies ==
  /\ pc' = "exited"
  /\ users' = <<>> /\ socks' = <<>> /\ endMsgs' = <<>>
  /\ newusers' = <<>> /\ loop' = <<>> /\ replies' = <<>> /\ names' = {}
  /\ job' = NoMsg /\ cursor' = 0 /\ msgList' = <<>>

(* Undefined behaviour that the process does not survive. *)
Crashes ==
  /\ pc' = "crashed"
  /\ UNCHANGED <<servlet, local>>

(* Mutant: the user stays in _users. *)
RemoveTraceOfSocketOnly(c) ==
  /\ users' = users
  /\ socks' = RemoveFirstMatch(socks, LAMBDA s : Broken(s) \/ s = c)
  /\ endMsgs' = Restrict(endMsgs, DOMAIN endMsgs \ {c})

(* The first socket that is broken or is the user's is the one to go. *)
RemoveTraceOf(c) ==
  /\ users' = RemoveFirst(users, c)
  /\ socks' = RemoveFirstMatch(socks, LAMBDA s : Broken(s) \/ s = c)
  /\ endMsgs' = Restrict(endMsgs, DOMAIN endMsgs \ {c})

(* What the range-for over _users sees of the users after the one at which   *)
(* it stands when that one is erased: a std::deque closes the gap from the   *)
(* shorter side, so that the loop either does not notice, or misses the next *)
(* user and finds what is left of the last one behind the end.               *)
AfterErasing(c, rest) ==
  LET before == SelectInSeq(users, LAMBDA u : u = c) - 1
  IN  IF before < Len(users) \div 2 \/ rest = <<>> THEN rest
      ELSE Append(Tail(rest), Last(rest))

-----------------------------------------------------------------------------
(* The newusers.                                                           *)

(* Mutant: the newusers are copied and stay where they were. *)
GrabNewCopies ==
  /\ pc = "grab"
  /\ users' = users \o waiting /\ socks' = socks \o waiting
  /\ endMsgs' = [c \in DOMAIN endMsgs \cup ToSet(waiting) |-> <<>>]
  /\ newusers' = waiting
  /\ pc' = "announce"
  /\ UNCHANGED <<clients, database, waiting, topic, loop, replies, names, job, cursor, msgList>>

(* grab_new: every user that waits is put in _users, and the sockets are     *)
(* moved over if they all can be asked for their endpoint.                   *)
GrabNew ==
  /\ pc = "grab"
  /\ waiting' = <<>>
  /\ IF \E c \in ToSet(waiting) : Broken(c)
     THEN Dies /\ UNCHANGED topic
     ELSE /\ users' = users \o waiting
          /\ socks' = socks \o waiting
          /\ endMsgs' = [c \in DOMAIN endMsgs \cup ToSet(waiting) |->
                           IF c \in DOMAIN endMsgs THEN endMsgs[c] ELSE <<>>]
          /\ newusers' = waiting
          /\ pc' = "announce"
          /\ UNCHANGED <<topic, loop, replies, names, job, cursor, msgList>>
  /\ UNCHANGED <<clients, database>>

(* A loop over _users that writes m to all but those in skip. *)
Broadcast(m, skip) ==
  [i \in DOMAIN users |-> [to |-> users[i], msg |-> IF users[i] \in skip THEN NoMsg ELSE m]]

(* Mutant: the newusers that are announced later hear of this one as well. *)
AnnounceToAll ==
  /\ pc = "announce" /\ newusers # <<>>
  /\ LET new == Head(newusers) IN
     /\ job' = Msg("JOIN", new, 0)
     /\ loop' = Broadcast(job', {})
     /\ replies' = [i \in 1..3 |->
          [to |-> new, msg |-> <<Msg("RPL_TOPIC", new, topic), Msg("RPL_NAMREPLY", new, 0),
                                 Msg("RPL_ENDOFNAMES", new, 0)>>[i]]]
     /\ newusers' = Tail(newusers)
  /\ pc' = "send"
  /\ UNCHANGED <<clients, waiting, servlet, database, names, cursor, msgList>>

(* JOIN to all that are in or have been announced, then the topic, the names *)
(* and the end of the names to the newuser.                                  *)
Announce ==
  /\ pc = "announce" /\ newusers # <<>>
  /\ LET new == Head(newusers) IN
     /\ job' = Msg("JOIN", new, 0)
     /\ loop' = Broadcast(job', ToSet(Tail(newusers)))
     /\ replies' = [i \in 1..3 |->
          [to |-> new, msg |-> <<Msg("RPL_TOPIC", new, topic), Msg("RPL_NAMREPLY", new, 0),
                                 Msg("RPL_ENDOFNAMES", new, 0)>>[i]]]
     /\ newusers' = Tail(newusers)
  /\ pc' = "send"
  /\ UNCHANGED <<clients, waiting, servlet, database, names, cursor, msgList>>

AllAnnounced ==
  /\ pc = "announce" /\ newusers = <<>>
  /\ pc' = "read"
  /\ UNCHANGED <<clients, waiting, servlet, database, local>>

-----------------------------------------------------------------------------
(* try_writing: one user after the other.                                  *)

Item == IF loop # <<>> THEN Head(loop) ELSE Head(replies)

(* The loop moves on, or the next reply is due. *)
MoveOn(rest) ==
  IF loop # <<>> THEN loop' = rest /\ UNCHANGED replies
                 ELSE replies' = Tail(replies) /\ UNCHANGED loop

SkipUser ==
  /\ pc = "send" /\ loop # <<>> /\ Item.msg = NoMsg
  /\ loop' = Tail(loop)
  /\ UNCHANGED <<clients, waiting, servlet, database, pc, newusers, replies, names, job, cursor, msgList>>

ToWrite == pc = "send" /\ loop \o replies # <<>> /\ Item.msg # NoMsg

(* *get_sock_for_user(user) *)
GetSockForUser ==
  /\ ToWrite
  /\ Item.to \in ToSet(socks) /\ \A s \in LookedAt(Item.to) : ~Broken(s)
  /\ pc' = "write"
  /\ UNCHANGED <<clients, waiting, servlet, database, local>>

(* remote_endpoint() of a socket it looks at throws, or no socket is the     *)
(* user's and what is behind the end of _socks is taken for one.             *)
GetSockForUserFails ==
  /\ ToWrite
  /\ \/ (\E s \in LookedAt(Item.to) : Broken(s)) /\ Dies /\ UNCHANGED topic
     \/ /\ Item.to \notin ToSet(socks) /\ \A s \in LookedAt(Item.to) : ~Broken(s)
        /\ (Dies /\ UNCHANGED topic) \/ Crashes
  /\ UNCHANGED <<clients, waiting, database>>

(* What is written: the names are those the loop has come by. *)
Written == IF Item.msg.kind = "RPL_NAMREPLY" THEN [Item.msg EXCEPT !.names = names] ELSE Item.msg

NamesSoFar == IF loop # <<>> /\ job.kind = "JOIN" THEN names \cup {Item.to} ELSE names

(* The bytes are put in the connection; if the other side is closed nobody   *)
(* gets them, and its kernel will answer with an RST.                        *)
Write ==
  /\ pc = "write" /\ ~Broken(Item.to)
  /\ Item.to \in Idle => Len(inbox[Item.to]) < Window
  /\ IF peer[Item.to] \in {"open", "parting"}
     THEN inbox' = [inbox EXCEPT ![Item.to] = Append(@, Written)] /\ UNCHANGED peer
     ELSE peer' = [peer EXCEPT ![Item.to] = "poked"] /\ UNCHANGED inbox
  /\ names' = NamesSoFar
  /\ MoveOn(Tail(loop))
  /\ pc' = "send"
  /\ UNCHANGED <<wire, sent, waiting, servlet, database, newusers, job, cursor, msgList>>

(* The write fails and the user is removed.  A loop over _users goes on over *)
(* a container that has changed under it.                                    *)
WriteFails ==
  /\ pc = "write" /\ Broken(Item.to)
  /\ \/ /\ RemoveTraceOf(Item.to)
        /\ names' = NamesSoFar
        /\ MoveOn(AfterErasing(Item.to, Tail(loop)))
        /\ pc' = "send"
        /\ UNCHANGED <<topic, newusers, job, cursor, msgList>>
     \/ loop # <<>> /\ Crashes
  /\ UNCHANGED <<clients, waiting, database>>

Sent(kind) == pc = "send" /\ loop = <<>> /\ replies = <<>> /\ job.kind = kind

(* Mutant: only the first newuser of a pass is handled. *)
OnlyFirstHandled ==
  /\ Sent("JOIN")
  /\ pc' = "read"
  /\ job' = NoMsg /\ names' = {}
  /\ UNCHANGED <<clients, waiting, servlet, database, newusers, loop, replies, cursor, msgList>>

NewuserHandled ==
  /\ Sent("JOIN")
  /\ pc' = "announce"
  /\ job' = NoMsg /\ names' = {}
  /\ UNCHANGED <<clients, waiting, servlet, database, newusers, loop, replies, cursor, msgList>>

-----------------------------------------------------------------------------
(* The messages.                                                           *)

(* Mutant: the newest message comes first. *)
UpdateEndmsgsReversed ==
  /\ pc = "read" /\ \A s \in ToSet(socks) : ~Broken(s)
  /\ endMsgs' = [c \in DOMAIN endMsgs \cup ToSet(socks) |-> Reverse(wire[c])]
  /\ wire' = [c \in Conns |-> IF c \in ToSet(socks) THEN <<>> ELSE wire[c]]
  /\ pc' = "handle"
  /\ UNCHANGED <<users, socks, topic, local, peer, inbox, sent, waiting, database>>

(* update_endmsgs: what every socket has available goes into _end_msgs.  The *)
(* sockets are read one by one, but nobody can tell: a client's steps touch  *)
(* its own connection only.                                                  *)
UpdateEndmsgs ==
  /\ pc = "read"
  /\ IF \E s \in ToSet(socks) : Broken(s)
     THEN Dies /\ UNCHANGED <<topic, wire>>
     ELSE /\ endMsgs' = [c \in DOMAIN endMsgs \cup ToSet(socks) |->
                           (IF c \in DOMAIN endMsgs THEN endMsgs[c] ELSE <<>>) \o
                           (IF c \in ToSet(socks) THEN wire[c] ELSE <<>>)]
          /\ wire' = [c \in Conns |-> IF c \in ToSet(socks) THEN <<>> ELSE wire[c]]
          /\ pc' = "handle"
          /\ UNCHANGED <<users, socks, topic, local>>
  /\ UNCHANGED <<peer, inbox, sent, waiting, database>>

(* Mutants: the messages of an entry stay; the iterator moves on twice. *)
NextEntryKeeps ==
  LET ahead == {c \in DOMAIN endMsgs : c > cursor /\ endMsgs[c] # <<>>}
  IN /\ pc = "handle" /\ msgList = <<>>
     /\ IF ahead = {} THEN cursor' = 0 /\ pc' = "grab" /\ UNCHANGED msgList
        ELSE cursor' = Min(ahead) /\ msgList' = endMsgs[Min(ahead)] /\ UNCHANGED pc
     /\ UNCHANGED <<clients, waiting, servlet, database, newusers, loop, replies, names, job>>

NextEntrySkipsOne ==
  LET cleared == IF cursor \in DOMAIN endMsgs THEN [endMsgs EXCEPT ![cursor] = <<>>] ELSE endMsgs
      ahead   == {c \in DOMAIN cleared : c > cursor + 1 /\ cleared[c] # <<>>}
  IN /\ pc = "handle" /\ msgList = <<>>
     /\ endMsgs' = cleared
     /\ IF ahead = {} THEN cursor' = 0 /\ pc' = "grab" /\ UNCHANGED msgList
        ELSE cursor' = Min(ahead) /\ msgList' = cleared[Min(ahead)] /\ UNCHANGED pc
     /\ UNCHANGED <<clients, waiting, users, socks, topic, database, newusers, loop, replies, names, job>>

(* handle_endmsgs steps to the next entry of the map, after the messages of  *)
(* the entry it leaves have been cleared, or ends.                           *)
NextEntry ==
  LET cleared == IF cursor \in DOMAIN endMsgs THEN [endMsgs EXCEPT ![cursor] = <<>>] ELSE endMsgs
      ahead   == {c \in DOMAIN cleared : c > cursor /\ cleared[c] # <<>>}
  IN /\ pc = "handle" /\ msgList = <<>>
     /\ endMsgs' = cleared
     /\ IF ahead = {} THEN cursor' = 0 /\ pc' = "grab" /\ UNCHANGED msgList
        ELSE cursor' = Min(ahead) /\ msgList' = cleared[Min(ahead)] /\ UNCHANGED pc
     /\ UNCHANGED <<clients, waiting, users, socks, topic, database, newusers, loop, replies, names, job>>

(* A message of a user who is in. *)
ToHandle(kind) ==
  /\ pc = "handle" /\ msgList # <<>> /\ Head(msgList).kind = kind
  /\ cursor \in ToSet(users)

StartJob(skip) ==
  /\ job' = Head(msgList)
  /\ msgList' = Tail(msgList)
  /\ loop' = Broadcast(job', skip)
  /\ pc' = "send"

(* Mutant: PART is not told to anybody. *)
PartSilently ==
  /\ ToHandle("PRIVMSG") \/ ToHandle("PART")
  /\ StartJob(IF Head(msgList).kind = "PART" THEN Conns ELSE {cursor})
  /\ UNCHANGED <<clients, waiting, servlet, database, newusers, replies, names, cursor>>

(* handle_priv and handle_part write to everybody but the sender. *)
HandlePrivOrPart ==
  /\ ToHandle("PRIVMSG") \/ ToHandle("PART")
  /\ StartJob({cursor})
  /\ UNCHANGED <<clients, waiting, servlet, database, newusers, replies, names, cursor>>

(* Mutants: the sender is not told; the row of the channel is not updated. *)
TopicNotToSender ==
  /\ ToHandle("TOPIC")
  /\ topic' = Head(msgList).val /\ dbTopic' = topic' /\ StartJob({cursor})
  /\ UNCHANGED <<clients, waiting, log, users, socks, endMsgs, newusers, replies, names, cursor>>

TopicInMemoryOnly ==
  /\ ToHandle("TOPIC")
  /\ topic' = Head(msgList).val /\ StartJob({})
  /\ UNCHANGED <<clients, waiting, database, users, socks, endMsgs, newusers, replies, names, cursor>>

(* handle_topic sets the topic, then the row of the channel, and writes to   *)
(* everybody.                                                                *)
HandleTopic ==
  /\ ToHandle("TOPIC")
  /\ topic' = Head(msgList).val
  /\ \/ dbTopic' = topic' /\ StartJob({}) /\ UNCHANGED <<users, socks, endMsgs, newusers, replies, names, cursor>>
     \/ "db" \in Faults /\ Dies /\ UNCHANGED dbTopic
  /\ UNCHANGED <<clients, waiting, log>>

(* The sender is not in _users: what is behind the end is taken for it, and  *)
(* the model ends there, one way or the other.                               *)
HandleMsgOfNobody ==
  /\ pc = "handle" /\ msgList # <<>> /\ cursor \notin ToSet(users)
  /\ (Dies /\ UNCHANGED topic) \/ Crashes
  /\ UNCHANGED <<clients, waiting, database>>

(* Mutant: the rows are put in front. *)
LogPrivInFront ==
  /\ Sent("PRIVMSG")
  /\ log' = <<job.val>> \o log
  /\ pc' = "handle" /\ job' = NoMsg
  /\ UNCHANGED <<servlet, newusers, loop, replies, names, cursor, msgList, clients, waiting, dbTopic>>

(* insertMsg *)
LogPriv ==
  /\ Sent("PRIVMSG")
  /\ \/ /\ log' = Append(log, job.val)
        /\ pc' = "handle" /\ job' = NoMsg
        /\ UNCHANGED <<servlet, newusers, loop, replies, names, cursor, msgList>>
     \/ "db" \in Faults /\ Dies /\ UNCHANGED <<topic, log>>
  /\ UNCHANGED <<clients, waiting, dbTopic>>

(* handle_part ends, its entry of _end_msgs is gone. *)
PartEnds ==
  /\ Sent("PART")
  /\ \/ /\ RemoveTraceOf(cursor)
        /\ pc' = "handle" /\ job' = NoMsg
        /\ UNCHANGED <<topic, newusers, loop, replies, names, cursor, msgList>>
     \/ (Dies /\ UNCHANGED topic) \/ Crashes
  /\ UNCHANGED <<clients, waiting, database>>

(* handle_topic ends; its sender may have been removed by its own reply. *)
TopicEnds ==
  /\ Sent("TOPIC")
  /\ \/ /\ pc' = "handle" /\ job' = NoMsg
        /\ UNCHANGED <<servlet, newusers, loop, replies, names, cursor, msgList>>
     \/ cursor \notin DOMAIN endMsgs /\ ((Dies /\ UNCHANGED topic) \/ Crashes)
  /\ UNCHANGED <<clients, waiting, database>>

-----------------------------------------------------------------------------
Client(c) ==
  \/ Join(c)
  \/ \E kind \in {"PRIVMSG", "TOPIC"} : ClientSends(c, kind)
  \/ c \in Leavers /\ (ClientParts(c) \/ ClientCloses(c) \/ Reset(c))

ThreadRun ==
  \/ GrabNew \/ Announce \/ AllAnnounced
  \/ SkipUser \/ GetSockForUser \/ GetSockForUserFails \/ Write \/ WriteFails
  \/ NewuserHandled
  \/ UpdateEndmsgs \/ NextEntry
  \/ HandlePrivOrPart \/ HandleTopic \/ HandleMsgOfNobody
  \/ LogPriv \/ PartEnds \/ TopicEnds

Terminated == pc \in {"exited", "crashed"} /\ UNCHANGED vars

Alive == pc \notin {"exited", "crashed"}

(* Nothing the clients do once the thread has ended changes what it has done. *)
Next == (Alive /\ \E c \in Conns : Client(c)) \/ ThreadRun \/ Terminated

(* The thread is never blocked except in a write to a full connection. *)
Fairness == WF_vars(ThreadRun)

Spec == Init /\ [][Next]_vars /\ Fairness

-----------------------------------------------------------------------------
(* What the members see.                                                   *)

ToAll == {"JOIN", "PRIVMSG", "TOPIC", "PART"}

Precedes(s, m, n) == \E i, j \in DOMAIN s : i < j /\ s[i] = m /\ s[j] = n

(* Whatever two members both got to see they saw in the same order, and what *)
(* was logged is logged in that order: there is one conversation.            *)
OneConversation ==
  /\ \A c, d \in Conns : \A i, j \in DOMAIN inbox[c] :
       /\ i < j /\ inbox[c][i].kind \in ToAll /\ inbox[c][j].kind \in ToAll
       => ~Precedes(inbox[d], inbox[c][j], inbox[c][i])
  /\ \A i, j \in DOMAIN log, c \in Conns : \A k, l \in DOMAIN inbox[c] :
       /\ i < j /\ inbox[c][k].kind = "PRIVMSG" /\ inbox[c][k].val = log[i]
       /\ inbox[c][l].kind = "PRIVMSG" /\ inbox[c][l].val = log[j]
       => k < l

(* A member hears a user in the order in which that user joined, spoke and   *)
(* parted, and nothing twice.                                                *)
InSendersOrder ==
  \A c \in Conns : \A i, j \in DOMAIN inbox[c] :
    LET m == inbox[c][i]  n == inbox[c][j] IN
    i < j /\ m.kind \in ToAll /\ n.kind \in ToAll /\ m.of = n.of =>
      /\ n.kind # "JOIN" /\ m.kind # "PART"
      /\ m.kind # "JOIN" /\ n.kind # "PART" => m.val < n.val

(* connect_to_channel takes the first four lines it reads for the            *)
(* confirmation, the topic, the names and the end of the names, without      *)
(* looking: no other line may come before or between them, even when several *)
(* clients join in the same pass.                                            *)
GreetedFirst ==
  \A c \in Conns : \A i \in 1..4 \cap DOMAIN inbox[c] :
    /\ inbox[c][i].kind = <<"JOIN", "RPL_TOPIC", "RPL_NAMREPLY", "RPL_ENDOFNAMES">>[i]
    /\ inbox[c][i].of = c

(* Whom a client believes to be in the channel: the names it was given, and  *)
(* who has joined and parted since.                                          *)
View(c) ==
  LET about(kind) == {inbox[c][i].of : i \in {j \in DOMAIN inbox[c] : inbox[c][j].kind = kind}}
  IN  (inbox[c][3].names \cup about("JOIN")) \ about("PART")

Listening(c) == c \in ToSet(users) /\ peer[c] = "open" /\ Greeted(c)

(* Between two passes a listening member knows everybody who is in, and the  *)
(* only others it believes to be in have been reset.                         *)
ViewsAgree ==
  pc = "grab" => \A c \in Conns : Listening(c) =>
    /\ ToSet(users) \subseteq View(c)
    /\ \A d \in View(c) \ ToSet(users) : Broken(d)

(* The last topic that c was shown, in its greeting or by a TOPIC, is val.   *)
TopicShown(c, i) == i \in DOMAIN inbox[c] /\ inbox[c][i].kind \in {"TOPIC", "RPL_TOPIC"}

LastTopicIs(c, val) ==
  \E i \in DOMAIN inbox[c] :
    /\ TopicShown(c, i) /\ inbox[c][i].val = val
    /\ \A j \in DOMAIN inbox[c] : TopicShown(c, j) => j <= i

(* Between two passes a listening member has last been shown the topic that  *)
(* is in the memory of the Servlet and in the database.                      *)
TopicsAgree ==
  pc = "grab" => \A c \in Conns : Listening(c) => LastTopicIs(c, topic) /\ topic = dbTopic

(* Nobody is shown a topic that would be lost if the server stopped now. *)
TopicIsDurableFirst ==
  [][\A c \in Conns :
       inbox'[c] # inbox[c] /\ Last(inbox'[c]).kind \in {"TOPIC", "RPL_TOPIC"} =>
         Last(inbox'[c]).val = dbTopic]_vars

Delivered ==
  {m.val : m \in {n \in UNION {ToSet(inbox[c]) : c \in Conns} : n.kind = "PRIVMSG"}}

(* As long as the thread lives, what has been delivered is logged, except    *)
(* the one message that is being delivered, and nothing is logged twice.     *)
LogFollowsDelivery ==
  /\ Alive => Delivered \subseteq ToSet(log) \cup {job.val}
  /\ IsInjective(log)

(* _users and _socks are separated by resets only: a user without a socket   *)
(* has been reset, and a socket without a user is left where another         *)
(* connection has been reset.                                                *)
OnlyResetsSeparate ==
  /\ \A c \in ToSet(users) \ ToSet(socks) : Broken(c)
  /\ ToSet(socks) \subseteq ToSet(users) \/ \E c \in Conns : Broken(c)

-----------------------------------------------------------------------------
(* What eventually happens.                                                *)

(* All that can hold up the thread is a member that does not read: the write *)
(* to its full connection is blocking, and nobody else gets any further.     *)
Stalled == pc = "write" /\ Item.to \in Idle /\ Len(inbox[Item.to]) >= Window

(* Who joins is greeted, unless its connection or the thread ends first or   *)
(* the thread is held up by a member that does not read.                     *)
JoinersAreGreeted ==
  \A c \in Conns :
    c \in ToSet(waiting) ~>
      (Greeted(c) \/ peer[c] \in {"closed", "poked", "reset"} \/ ~Alive \/ Stalled)

(* What a member says is handled, even if it closes its connection right     *)
(* after: it is logged or becomes the topic, unless a connection has been    *)
(* reset, the thread has ended or is held up.                                *)
InWire(m) == \E c \in Conns : \E n \in ToSet(wire[c]) : n.val = m

MessagesAreHandled ==
  \A m \in 1..MaxMsgs :
    InWire(m) ~> (m \in ToSet(log) \/ topic = m \/ ~Alive \/ Stalled \/ \E c \in Conns : Broken(c))

-----------------------------------------------------------------------------
(* What the repository says of the program, and the code does not keep.    *)

(* "handle users joining, messaging, and leaving channel": the thread does   *)
(* not end when nothing is wrong with network, clients and database.  It     *)
(* does: a socket that a client has closed answers the next broadcast with   *)
(* an RST, and remote_endpoint() throws in the pass after that.              *)
ChannelSurvivesLeaving == Faults = {} => pc # "exited"

=============================================================================
