--------------------------- MODULE ServletProofs ----------------------------
(***************************************************************************)
(* Servlet.tla for any number of clients and messages, and whatever goes   *)
(* wrong: the inductive invariant IInv holds of every behaviour. It says   *)
(* where every user, socket and message is at each point of thread_run, in *)
(* what order a client's messages are on their way, and that what has been *)
(* delivered is logged or in hand.                                         *)
(*                                                                         *)
(* What a member sees and the order it sees it in are in                   *)
(* ServletOrderProofs and ServletViewProofs: they depend on the range-for  *)
(* over _users, which a failed write erases from.                          *)
(***************************************************************************)
EXTENDS Servlet, QueueLemmas

(* Where in the conversation of its sender a message belongs: first its    *)
(* JOIN, then what it says, in the order of the numbers, then its PART.    *)
Rank(m) == IF m.kind = "JOIN" THEN 0 ELSE IF m.kind = "PART" THEN MaxMsgs + 1 ELSE m.val

(* What is on its way from c: the message in hand, the rest of its entry   *)
(* of _end_msgs, and what is still to be read from its socket.             *)
InHand(c)  == IF job.kind \in ToAll /\ job.of = c THEN <<job>> ELSE <<>>
Held(c)    == IF cursor = c THEN msgList ELSE IF c \in DOMAIN endMsgs THEN endMsgs[c] ELSE <<>>
Pending(c) == (InHand(c) \o Held(c)) \o wire[c]

(* Who has not connected, or waits to be taken in or to be announced. *)
Unannounced(c) == peer[c] = "idle" \/ c \in ToSet(waiting) \/ c \in ToSet(newusers)

(* Who waits for the thread is not in it yet, who is in any of the queues  *)
(* has connected, and handle_newusers announces only users that grab_new   *)
(* has taken in.                                                           *)
Places ==
  /\ \A c \in ToSet(waiting) :
       c \notin ToSet(users) /\ c \notin ToSet(socks) /\ c \notin ToSet(newusers)
  /\ \A c \in ToSet(waiting) \cup ToSet(users) \cup ToSet(socks) : peer[c] # "idle"
  /\ ToSet(newusers) \subseteq ToSet(users)

(* What the local variables hold at each point of the pass: nothing is in  *)
(* hand outside the loops over _users, no newuser is left once the sockets *)
(* are read, a message in hand is that of the entry handle_endmsgs is at,  *)
(* and whoever it is about has been announced.                             *)
Phases ==
  /\ pc \in {"grab", "announce", "read", "handle"} => job = NoMsg /\ loop = <<>> /\ replies = <<>>
  /\ pc \in {"send", "write"} => job.kind \in ToAll
  /\ pc \in {"grab", "read", "handle"} => newusers = <<>>
  /\ pc \in {"grab", "announce", "read"} => cursor = 0
  /\ cursor = 0 => msgList = <<>>
  /\ job.kind = "JOIN" => cursor = 0 /\ job.val = 0
  /\ job.kind # "JOIN" => names = {}
  /\ job.kind \in ToAll \ {"JOIN"} =>
       newusers = <<>> /\ replies = <<>> /\ job.of = cursor
  /\ job.kind \in ToAll => job.of \in Conns /\ ~Unannounced(job.of)
  /\ pc = "write" => loop \o replies # <<>> /\ Item.msg # NoMsg

(* The loop over _users still has to visit only users, or some that a      *)
(* failed write has removed; it brings nothing to those that are not       *)
(* announced yet, and a PART not to who parts. Who parts is in _users      *)
(* until its PART is done with, and who joins is, unless it has been       *)
(* reset.                                                                  *)
LoopOK ==
  /\ \A item \in ToSet(loop) :
       /\ item.msg \in {NoMsg, job}
       /\ item.msg # NoMsg => item.to \notin ToSet(newusers)
       /\ item.msg # NoMsg /\ job.kind = "PART" => item.to # job.of
       /\ item.to \in ToSet(users) \/ Broken(item.to)
  /\ job.kind = "PART" => job.of \in ToSet(users)
  /\ job.kind = "JOIN" => job.of \in ToSet(users) \/ Broken(job.of)

(* What handle_newusers writes to the newuser after the loop, in this      *)
(* order.                                                                  *)
ReplyKinds == <<"RPL_TOPIC", "RPL_NAMREPLY", "RPL_ENDOFNAMES">>

(* The replies left are the last ones of the three, to the newuser, with   *)
(* the topic of the moment.                                                *)
RepliesOK ==
  /\ Len(replies) <= 3
  /\ \A i \in DOMAIN replies :
       /\ replies[i].to = job.of /\ replies[i].msg.of = job.of
       /\ replies[i].msg.kind = ReplyKinds[3 - Len(replies) + i]
       /\ replies[i].msg.kind = "RPL_TOPIC" => replies[i].msg.val = topic

(* The topic in memory is that of the database as long as the thread       *)
(* lives, and the one that is being announced.                             *)
Memory ==
  /\ Alive => topic = dbTopic
  /\ job.kind = "TOPIC" => job.val = topic

(* remove_trace_of erases what find_if returns without comparing it with   *)
(* end(): whenever it is called, for a failed write or for a PART, the     *)
(* user is in _users.                                                      *)
ErasesAMember ==
  /\ pc = "write" => Item.to \in ToSet(users)
  /\ Sent("PART") => cursor \in ToSet(users)

(* Nothing has been written to who has not been announced, and nothing of  *)
(* what it says has been written to anybody.                               *)
Silent ==
  \A c \in Conns : Unannounced(c) =>
     inbox[c] = <<>> /\ \A d \in Conns : \A m \in ToSet(inbox[d]) : m.kind \in ToAll => m.of # c

(* A client says nothing before it has been greeted with all four lines. *)
SpeaksAfter ==
  \A c \in Conns : Len(inbox[c]) < 4 => Held(c) = <<>> /\ wire[c] = <<>>

(* What a client says. *)
Word(m) == m.kind \in {"PRIVMSG", "TOPIC"}

(* In the order of the sender. *)
Ordered(seq) == \A i, j \in DOMAIN seq : i < j => Rank(seq[i]) < Rank(seq[j])

(* What is on its way from c is from c, has a number that was given out    *)
(* and that is not logged yet, and is in the order in which c said it; a   *)
(* PART is there only from who has left.                                   *)
PendingOK ==
  \A c \in Conns :
    /\ \A m \in ToSet(Pending(c)) :
         /\ m.of = c /\ m.kind \in ToAll
         /\ Word(m) => m.val \in 1..sent /\ m.val \notin ToSet(log)
         /\ m.kind = "PART" => peer[c] # "open"
    /\ Ordered(Pending(c))

(* No two messages on their way have the same number. *)
Distinct ==
  \A c, d \in Conns : c # d => \A m \in ToSet(Pending(c)), n \in ToSet(Pending(d)) :
    Word(m) /\ Word(n) => m.val # n.val

(* What has been delivered has a number that was given out, a PART has     *)
(* been delivered only of who has left, and of the sender of whatever was  *)
(* delivered only later messages are still on their way, unless it is the  *)
(* one in hand.                                                            *)
DeliveredOK ==
  \A c \in Conns : \A m \in ToSet(inbox[c]) : m.kind \in ToAll =>
    /\ m.of \in Conns
    /\ Word(m) => m.val \in 1..sent
    /\ m.kind = "PART" => peer[m.of] # "open"
    /\ m = job \/ \A n \in ToSet(Pending(m.of)) : Rank(m) < Rank(n)

(* What is logged was sent and is logged once, and as long as the thread   *)
(* lives what was delivered is logged, except the message in hand.         *)
LogOK ==
  /\ IsInjective(log) /\ ToSet(log) \subseteq 1..sent
  /\ Alive => \A c \in Conns : \A m \in ToSet(inbox[c]) :
       m.kind = "PRIVMSG" => m.val \in ToSet(log) \/ m = job

(* The inductive invariant. The theorems at the end need of it TypeOK,     *)
(* Memory, ErasesAMember, LogOK and OnlyResetsSeparate, which are not      *)
(* inductive alone: a message is logged once because it has one number on  *)
(* its way from its sender to the log, through the socket, _end_msgs and   *)
(* the loop; and only members are erased because of whom the loop may      *)
(* still visit.                                                            *)
IInv ==
  /\ TypeOK /\ Places /\ Phases /\ LoopOK /\ RepliesOK /\ Memory /\ ErasesAMember
  /\ Silent /\ SpeaksAfter /\ PendingOK /\ Distinct /\ DeliveredOK /\ LogOK
  /\ OnlyResetsSeparate

(* remove_trace_of, in _socks: the first socket that is broken or c's is   *)
(* taken out, if there is any.                                             *)
LEMMA RemoveSockIs ==
  ASSUME socks \in Seq(Conns), NEW c, RemoveTraceOf(c)
  PROVE  \/ (\A d \in ToSet(socks) : ~Broken(d) /\ d # c) /\ socks' = socks
         \/ \E k \in 1..Len(socks) :
              (Broken(socks[k]) \/ socks[k] = c) /\ socks' = RemoveAt(socks, k)
<1> DEFINE I == {i \in 1..Len(socks) : Broken(socks[i]) \/ socks[i] = c}
<1>1. CASE I = {}
  <2>1. ~ \E i \in 1..Len(socks) : Broken(socks[i]) \/ socks[i] = c BY <1>1
  <2>2. \A d \in ToSet(socks) : ~Broken(d) /\ d # c BY <2>1, ToSetIs
  <2>3. socks' = socks BY <2>1 DEF RemoveTraceOf, RemoveFirstMatch
  <2> QED BY <2>2, <2>3
<1>2. CASE I # {}
  <2>1. I \in SUBSET Nat BY LenProperties
  <2>2. Min(I) \in I BY <2>1, <1>2, MinWorks
  <2>3. SelectInSeq(socks, LAMBDA d : Broken(d) \/ d = c) = Min(I) BY <1>2 DEF SelectInSeq
  <2>4. RemoveFirstMatch(socks, LAMBDA d : Broken(d) \/ d = c) = RemoveAt(socks, Min(I))
    BY <2>3, <1>2 DEF RemoveFirstMatch
  <2>5. socks' = RemoveAt(socks, Min(I)) BY <2>4 DEF RemoveTraceOf
  <2> QED BY <2>2, <2>5
<1> QED BY <1>1, <1>2

-----------------------------------------------------------------------------
(* What the operators of Servlet.tla do.                                   *)

(* remove_trace_of: the user is out of _users and _end_msgs, and at most one *)
(* socket is gone, the user's or a broken one.                               *)
LEMMA TraceRemoved ==
  ASSUME TypeOK, NEW c, RemoveTraceOf(c)
  PROVE  /\ IsQueue(users') /\ ToSet(users') = ToSet(users) \ {c}
         /\ \/ c \notin ToSet(users) /\ users' = users
            \/ \E k \in 1..Len(users) : users[k] = c /\ users' = RemoveAt(users, k)
         /\ IsQueue(socks')
         /\ \/ (\A d \in ToSet(socks) : ~Broken(d) /\ d # c) /\ socks' = socks
            \/ \E d \in ToSet(socks) :
                 (Broken(d) \/ d = c) /\ ToSet(socks') = ToSet(socks) \ {d}
         /\ DOMAIN endMsgs' = DOMAIN endMsgs \ {c}
         /\ endMsgs' \in [DOMAIN endMsgs' -> Seq(Msgs)]
         /\ \A d \in DOMAIN endMsgs \ {c} : endMsgs'[d] = endMsgs[d]
<1>1. /\ users \in Seq(Conns) /\ IsInjective(users)
      /\ socks \in Seq(Conns) /\ IsInjective(socks)
      /\ endMsgs \in [DOMAIN endMsgs -> Seq(Msgs)]
  BY DEF TypeOK, IsQueue
<1>2. /\ users' = RemoveFirst(users, c)
      /\ endMsgs' = [d \in DOMAIN endMsgs \ {c} |-> endMsgs[d]]
  BY DEF RemoveTraceOf, Restrict
<1>3. \/ c \notin ToSet(users) /\ users' = users
      \/ \E k \in 1..Len(users) : users[k] = c /\ users' = RemoveAt(users, k)
  BY <1>1, <1>2, RemoveFirstIs
<1>4. IsQueue(users') /\ ToSet(users') = ToSet(users) \ {c}
  BY <1>1, <1>3, RemoveAtIs DEF IsQueue
<1>5. \/ (\A d \in ToSet(socks) : ~Broken(d) /\ d # c) /\ socks' = socks
      \/ \E k \in 1..Len(socks) : (Broken(socks[k]) \/ socks[k] = c) /\ socks' = RemoveAt(socks, k)
  BY <1>1, RemoveSockIs
<1>6. CASE (\A d \in ToSet(socks) : ~Broken(d) /\ d # c) /\ socks' = socks
  BY <1>1, <1>2, <1>3, <1>4, <1>6 DEF IsQueue
<1>7. CASE \E k \in 1..Len(socks) :
             (Broken(socks[k]) \/ socks[k] = c) /\ socks' = RemoveAt(socks, k)
  <2>1. PICK k \in 1..Len(socks) :
          (Broken(socks[k]) \/ socks[k] = c) /\ socks' = RemoveAt(socks, k)
    BY <1>7
  <2>2. /\ IsQueue(socks') /\ ToSet(socks') = ToSet(socks) \ {socks[k]}
        /\ socks[k] \in ToSet(socks)
    BY <2>1, <1>1, RemoveAtIs, ToSetIs DEF IsQueue
  <2> QED BY <1>1, <1>2, <1>3, <1>4, <2>1, <2>2
<1> QED BY <1>5, <1>6, <1>7

(* The iterators of the loop come by nobody the loop has not still to visit. *)
LEMMA AfterErasingIs ==
  ASSUME NEW rest \in Seq(Items), NEW c
  PROVE  /\ AfterErasing(c, rest) \in Seq(Items)
         /\ ToSet(AfterErasing(c, rest)) \subseteq ToSet(rest)
<1>1. CASE AfterErasing(c, rest) = rest BY <1>1
<1>2. CASE rest # <<>> /\ AfterErasing(c, rest) = Append(Tail(rest), Last(rest))
  <2>1. Tail(rest) \in Seq(Items) /\ ToSet(Tail(rest)) \subseteq ToSet(rest)
        /\ Len(rest) \in Nat \ {0}
    BY <1>2, TailIs
  <2>2. Last(rest) \in Items /\ Last(rest) \in ToSet(rest)
    <3>1. Len(rest) \in 1..Len(rest) BY <2>1
    <3> QED BY <3>1, ToSetIs DEF Last
  <2> DEFINE t == Tail(rest)
             l == Last(rest)
  <2>3. t \in Seq(Items) /\ l \in Items BY <2>1, <2>2
  <2> HIDE DEF t, l
  <2>4. Append(t, l) \in Seq(Items) /\ ToSet(Append(t, l)) = ToSet(t) \cup {l}
    BY <2>3, AppendIs
  <2> QED BY <1>2, <2>1, <2>2, <2>4 DEF t, l
<1>3. AfterErasing(c, rest) = rest \/
      (rest # <<>> /\ AfterErasing(c, rest) = Append(Tail(rest), Last(rest)))
  BY DEF AfterErasing
<1> QED BY <1>1, <1>2, <1>3

(* The fields of a message. *)
LEMMA MsgIs ==
  /\ \A kind \in Kinds, of \in Conns \cup {0}, val \in 0..MaxMsgs : Msg(kind, of, val) \in Msgs
  /\ \A kind, of, val : /\ Msg(kind, of, val).kind = kind
                        /\ Msg(kind, of, val).of = of
                        /\ Msg(kind, of, val).val = val
  /\ NoMsg \in Msgs /\ NoMsg.kind = "none"
  BY BoundsAssumption DEF Msg, Msgs, NoMsg, Kinds

(* A loop over _users visits each of them, and brings m to those it does   *)
(* not skip.                                                               *)
LEMMA BroadcastIs ==
  ASSUME TypeOK, NEW m \in Msgs, NEW skip
  PROVE  /\ Broadcast(m, skip) \in Seq(Items)
         /\ Len(Broadcast(m, skip)) = Len(users) /\ Len(users) \in Nat
         /\ \A i \in 1..Len(users) :
              /\ Broadcast(m, skip)[i].to = users[i] /\ users[i] \in ToSet(users)
              /\ Broadcast(m, skip)[i].msg = IF users[i] \in skip THEN NoMsg ELSE m
<1>1. /\ users \in Seq(Conns) /\ DOMAIN users = 1..Len(users) /\ Len(users) \in Nat
      /\ \A i \in 1..Len(users) : users[i] \in Conns /\ users[i] \in ToSet(users)
  BY ToSetIs, ElementOfSeq DEF TypeOK, IsQueue
<1>2. \A i \in 1..Len(users) :
        [to |-> users[i], msg |-> IF users[i] \in skip THEN NoMsg ELSE m] \in Items
  BY <1>1, MsgIs DEF Items
<1>3. Broadcast(m, skip) \in [1..Len(users) -> Items]
  BY <1>1, <1>2 DEF Broadcast
<1>4. Broadcast(m, skip) \in Seq(Items) /\ Len(Broadcast(m, skip)) = Len(users)
  BY <1>1, <1>3, FunIsSeq
<1>5. \A i \in 1..Len(users) : Broadcast(m, skip)[i] =
        [to |-> users[i], msg |-> IF users[i] \in skip THEN NoMsg ELSE m]
  BY <1>1 DEF Broadcast
<1> DEFINE b == Broadcast(m, skip)
<1> HIDE DEF b
<1>6. ASSUME NEW i \in 1..Len(users)
      PROVE  b[i].to = users[i] /\ b[i].msg = IF users[i] \in skip THEN NoMsg ELSE m
  <2>1. CASE users[i] \in skip
    <3>1. b[i] = [to |-> users[i], msg |-> NoMsg] BY <2>1, <1>5 DEF b
    <3> QED BY <3>1, <2>1
  <2>2. CASE users[i] \notin skip
    <3>1. b[i] = [to |-> users[i], msg |-> m] BY <2>2, <1>5 DEF b
    <3> QED BY <3>1, <2>2
  <2> QED BY <2>1, <2>2
<1> QED BY <1>1, <1>4, <1>6 DEF b

(* The replies to new.                                                       *)
LEMMA RepliesAre ==
  ASSUME TypeOK, NEW new \in Conns
  PROVE  LET r == [i \in 1..3 |->
                     [to |-> new,
                      msg |-> <<Msg("RPL_TOPIC", new, topic), Msg("RPL_NAMREPLY", new, 0),
                                Msg("RPL_ENDOFNAMES", new, 0)>>[i]]]
         IN  /\ r \in Seq(Items) /\ Len(r) = 3
             /\ r[1] = [to |-> new, msg |-> Msg("RPL_TOPIC", new, topic)]
             /\ r[2] = [to |-> new, msg |-> Msg("RPL_NAMREPLY", new, 0)]
             /\ r[3] = [to |-> new, msg |-> Msg("RPL_ENDOFNAMES", new, 0)]
<1> DEFINE m == <<Msg("RPL_TOPIC", new, topic), Msg("RPL_NAMREPLY", new, 0),
                  Msg("RPL_ENDOFNAMES", new, 0)>>
           r == [i \in 1..3 |-> [to |-> new, msg |-> m[i]]]
<1>1. /\ m[1] = Msg("RPL_TOPIC", new, topic) /\ m[2] = Msg("RPL_NAMREPLY", new, 0)
      /\ m[3] = Msg("RPL_ENDOFNAMES", new, 0)
  OBVIOUS
<1>2. m[1] \in Msgs /\ m[2] \in Msgs /\ m[3] \in Msgs
  <2>1. topic \in 0..MaxMsgs /\ 0 \in 0..MaxMsgs
    BY BoundsAssumption DEF TypeOK
  <2> QED BY <2>1, <1>1, MsgIs DEF Kinds
<1> HIDE DEF m
<1>3. r \in [1..3 -> Items] BY <1>2 DEF Items
<1>4. /\ r[1] = [to |-> new, msg |-> m[1]] /\ r[2] = [to |-> new, msg |-> m[2]]
      /\ r[3] = [to |-> new, msg |-> m[3]]
  OBVIOUS
<1> HIDE DEF r
<1>5. r \in Seq(Items) /\ Len(r) = 3 BY <1>3, FunIsSeq
<1> QED BY <1>1, <1>4, <1>5 DEF r, m

(* An exception leaves nothing behind.                                       *)
LEMMA DiesTypes ==
  ASSUME Dies
  PROVE  /\ IsQueue(users') /\ IsQueue(socks') /\ IsQueue(newusers')
         /\ DOMAIN endMsgs' \subseteq Conns /\ endMsgs' \in [DOMAIN endMsgs' -> Seq(Msgs)]
         /\ loop' \in Seq(Items) /\ replies' \in Seq(Items) /\ msgList' \in Seq(Msgs)
         /\ names' \in SUBSET Conns /\ job' \in Msgs /\ cursor' \in Conns \cup {0} /\ pc' \in Pcs
<1>1. <<>> \in [DOMAIN <<>> -> Seq(Msgs)]
  <2>1. DOMAIN <<>> = {} BY NothingIn
  <2>2. <<>> \in [1..Len(<<>>) -> Seq(Msgs)] /\ DOMAIN <<>> = 1..Len(<<>>)
    BY NothingIn, LenProperties
  <2> QED BY <2>1, <2>2
<1> QED BY <1>1, NothingIn, MsgIs DEF Dies, IsQueue, Pcs

(* What is written next.                                                     *)
LEMMA ItemIs ==
  ASSUME TypeOK, loop \o replies # <<>>
  PROVE  /\ Item \in Items /\ Item.to \in Conns /\ Item.msg \in Msgs
         /\ loop # <<>> => /\ Item = Head(loop) /\ Tail(loop) \in Seq(Items)
                           /\ Item = loop[1] /\ 1 \in DOMAIN loop
         /\ loop = <<>> => /\ Item = Head(replies) /\ Tail(replies) \in Seq(Items)
                           /\ replies # <<>> /\ Item = replies[1] /\ 1 \in DOMAIN replies
<1>1. loop \in Seq(Items) /\ replies \in Seq(Items) BY DEF TypeOK
<1>2. loop = <<>> => replies # <<>> BY <1>1, ConcatEmptySeq
<1>3. /\ loop # <<>> => /\ Head(loop) \in Items /\ Tail(loop) \in Seq(Items)
                        /\ Head(loop) = loop[1] /\ 1 \in DOMAIN loop
      /\ replies # <<>> => /\ Head(replies) \in Items /\ Tail(replies) \in Seq(Items)
                           /\ Head(replies) = replies[1] /\ 1 \in DOMAIN replies
  BY <1>1, TailIs
<1>4. Item \in Items BY <1>2, <1>3 DEF Item
<1> QED BY <1>2, <1>3, <1>4 DEF Item, Items

(* The loop and the replies stay queues when the thread moves on. *)
LEMMA MoveOnIs ==
  ASSUME TypeOK, loop \o replies # <<>>, NEW rest, rest \in Seq(Items) \/ loop = <<>>, MoveOn(rest)
  PROVE  loop' \in Seq(Items) /\ replies' \in Seq(Items)
  BY ItemIs DEF MoveOn, TypeOK

(* What is written is the item's message, with the names if they are asked *)
(* for.                                                                    *)
LEMMA WrittenIs ==
  ASSUME TypeOK, loop \o replies # <<>>
  PROVE  /\ Written \in Msgs /\ Written.kind = Item.msg.kind /\ Written.of = Item.msg.of
         /\ Written.val = Item.msg.val
         /\ Written.kind # "RPL_NAMREPLY" => Written = Item.msg
         /\ Written.kind = "RPL_NAMREPLY" => Written.names = names
  BY ItemIs DEF Written, Msgs, TypeOK

(* The names are those of connections. *)
LEMMA NamesSoFarIs ==
  ASSUME TypeOK, loop \o replies # <<>>
  PROVE  NamesSoFar \in SUBSET Conns
  BY ItemIs DEF NamesSoFar, TypeOK

-----------------------------------------------------------------------------
(* Who is where.                                                           *)

(* Every step keeps the types, and nobody gets into a queue twice. *)
LEMMA TypeOKStep ==
  ASSUME TypeOK, Places, Phases, [Next]_vars
  PROVE  TypeOK'
<1> USE DEF clients, servlet, database, local
<1>1. ASSUME NEW c \in Conns, Client(c) PROVE TypeOK'
  <2>1. CASE Join(c)
    <3>1. peer' \in [Conns -> Peers] BY <2>1 DEF Join, TypeOK, Peers
    <3>2. c \notin ToSet(waiting) BY <2>1 DEF Join, Places
    <3>3. IsQueue(waiting') BY <2>1, <3>2, AppendIs DEF Join, TypeOK, IsQueue
    <3> QED BY <2>1, <3>1, <3>3 DEF Join, TypeOK
  <2>2. ASSUME NEW kind \in {"PRIVMSG", "TOPIC"}, ClientSends(c, kind) PROVE TypeOK'
    <3>1. sent + 1 \in 0..MaxMsgs BY <2>2, BoundsAssumption DEF ClientSends, TypeOK
    <3>2. Msg(kind, c, sent + 1) \in Msgs BY <3>1, MsgIs DEF Kinds
    <3>3. Append(wire[c], Msg(kind, c, sent + 1)) \in Seq(Msgs)
      BY <3>2, AppendIs DEF TypeOK
    <3>4. wire' \in [Conns -> Seq(Msgs)] BY <2>2, <3>3 DEF ClientSends, TypeOK
    <3> QED BY <2>2, <3>1, <3>4 DEF ClientSends, TypeOK
  <2>3. ASSUME Close(c) PROVE peer' \in [Conns -> Peers]
    <3>1. PICK gone \in {"closed", "reset"} : peer' = [peer EXCEPT ![c] = gone] BY <2>3 DEF Close
    <3> QED BY <3>1 DEF TypeOK, Peers
  <2>4. CASE ClientParts(c)
    <3>1. peer' \in [Conns -> Peers] BY <2>3, <2>4 DEF ClientParts, TypeOK, Peers
    <3>2. Msg("PART", c, 0) \in Msgs BY BoundsAssumption, MsgIs DEF Kinds
    <3>3. Append(wire[c], Msg("PART", c, 0)) \in Seq(Msgs) BY <3>2, AppendIs DEF TypeOK
    <3>4. wire' \in [Conns -> Seq(Msgs)] BY <2>4, <3>3 DEF ClientParts, TypeOK
    <3> QED BY <2>4, <3>1, <3>4 DEF ClientParts, TypeOK
  <2>5. CASE ClientCloses(c) BY <2>3, <2>5 DEF ClientCloses, TypeOK
  <2>6. CASE Reset(c)
    <3>1. peer' \in [Conns -> Peers] BY <2>6 DEF Reset, TypeOK, Peers
    <3> QED BY <2>6, <3>1 DEF Reset, TypeOK
  <2> QED BY <1>1, <2>1, <2>2, <2>4, <2>5, <2>6 DEF Client
<1>2. CASE GrabNew
  <2>1. CASE Dies BY <1>2, <2>1, DiesTypes, NothingIn DEF GrabNew, TypeOK, IsQueue
  <2>2. CASE ~Dies
    <3>1. IsQueue(users \o waiting) /\ IsQueue(socks \o waiting)
      BY ConcatIs DEF Places, TypeOK, IsQueue
    <3>2. /\ DOMAIN endMsgs' \subseteq Conns /\ endMsgs' \in [DOMAIN endMsgs' -> Seq(Msgs)]
      <4>1. ToSet(waiting) \subseteq Conns BY ToSetIs DEF TypeOK, IsQueue
      <4>2. <<>> \in Seq(Msgs) BY NothingIn
      <4> QED BY <1>2, <2>2, <4>1, <4>2 DEF GrabNew, TypeOK
    <3> QED BY <1>2, <2>2, <3>1, <3>2, NothingIn DEF GrabNew, TypeOK, IsQueue, Pcs
  <2> QED BY <2>1, <2>2
<1>3. CASE Announce
  <2>1. /\ Head(newusers) \in Conns /\ IsQueue(Tail(newusers))
    BY <1>3, TailIs DEF Announce, TypeOK, IsQueue
  <2>2. job' \in Msgs BY <1>3, <2>1, MsgIs, BoundsAssumption DEF Announce, Kinds
  <2>3. loop' \in Seq(Items) BY <1>3, <2>2, BroadcastIs DEF Announce
  <2>4. replies' \in Seq(Items) BY <1>3, <2>1, RepliesAre DEF Announce
  <2> QED BY <1>3, <2>1, <2>2, <2>3, <2>4 DEF Announce, TypeOK, Pcs
<1>4. CASE AllAnnounced BY <1>4 DEF AllAnnounced, TypeOK, Pcs
<1>5. CASE SkipUser
  <2>1. Tail(loop) \in Seq(Items) BY <1>5, TailIs DEF SkipUser, TypeOK
  <2> QED BY <1>5, <2>1 DEF SkipUser, TypeOK
<1>6. CASE GetSockForUser BY <1>6 DEF GetSockForUser, TypeOK, Pcs
<1>7. CASE GetSockForUserFails
  BY <1>7, DiesTypes DEF GetSockForUserFails, Crashes, TypeOK, Pcs
<1>8. CASE Write
  <2>1. loop \o replies # <<>> BY <1>8 DEF Write, Phases
  <2>2. Tail(loop) \in Seq(Items) \/ loop = <<>> BY TailIs DEF TypeOK
  <2>3. loop' \in Seq(Items) /\ replies' \in Seq(Items)
    BY <1>8, <2>1, <2>2, MoveOnIs DEF Write
  <2>4. peer' \in [Conns -> Peers] BY <1>8 DEF Write, TypeOK, Peers
  <2>5. inbox' \in [Conns -> Seq(Msgs)]
    <3>1. Item.to \in Conns /\ Written \in Msgs BY <2>1, ItemIs, WrittenIs
    <3>2. Append(inbox[Item.to], Written) \in Seq(Msgs) BY <3>1, AppendIs DEF TypeOK
    <3> QED BY <1>8, <3>1, <3>2 DEF Write, TypeOK
  <2>6. names' \in SUBSET Conns BY <1>8, <2>1, NamesSoFarIs DEF Write
  <2> QED BY <1>8, <2>3, <2>4, <2>5, <2>6 DEF Write, TypeOK, Pcs
<1>9. CASE WriteFails
  <2>1. loop \o replies # <<>> BY <1>9 DEF WriteFails, Phases
  <2>2. CASE Crashes BY <1>9, <2>2 DEF WriteFails, Crashes, TypeOK, Pcs
  <2>3. CASE ~Crashes
    <3>1. Tail(loop) \in Seq(Items) \/ loop = <<>> BY TailIs DEF TypeOK
    <3>2. AfterErasing(Item.to, Tail(loop)) \in Seq(Items) \/ loop = <<>>
      BY <3>1, AfterErasingIs
    <3>3. loop' \in Seq(Items) /\ replies' \in Seq(Items)
      BY <1>9, <2>1, <2>3, <3>2, MoveOnIs DEF WriteFails
    <3>4. /\ IsQueue(users') /\ IsQueue(socks') /\ DOMAIN endMsgs' \subseteq Conns
          /\ endMsgs' \in [DOMAIN endMsgs' -> Seq(Msgs)]
      <4>1. RemoveTraceOf(Item.to) BY <1>9, <2>3 DEF WriteFails
      <4> QED BY <4>1, TraceRemoved DEF TypeOK
    <3>5. names' \in SUBSET Conns BY <1>9, <2>1, <2>3, NamesSoFarIs DEF WriteFails
    <3> QED BY <1>9, <2>3, <3>3, <3>4, <3>5 DEF WriteFails, TypeOK, Pcs
  <2> QED BY <2>2, <2>3
<1>10. CASE NewuserHandled BY <1>10, MsgIs DEF NewuserHandled, TypeOK, Pcs
<1>11. CASE UpdateEndmsgs
  <2>1. CASE \E c \in ToSet(socks) : Broken(c)
    <3>1. Dies /\ UNCHANGED <<topic, wire, peer, inbox, sent, waiting, database>>
      BY <1>11, <2>1 DEF UpdateEndmsgs
    <3> QED BY <3>1, DiesTypes DEF TypeOK
  <2>2. CASE ~ \E c \in ToSet(socks) : Broken(c)
    <3>1. ToSet(socks) \subseteq Conns BY ToSetIs DEF TypeOK, IsQueue
    <3>2. wire' \in [Conns -> Seq(Msgs)]
      BY <1>11, <2>2, NothingIn DEF UpdateEndmsgs, TypeOK
    <3>3. DOMAIN endMsgs' \subseteq Conns /\ endMsgs' \in [DOMAIN endMsgs' -> Seq(Msgs)]
      <4> DEFINE held(c) == IF c \in DOMAIN endMsgs THEN endMsgs[c] ELSE <<>>
                 more(c) == IF c \in ToSet(socks) THEN wire[c] ELSE <<>>
      <4>1. ASSUME NEW c \in Conns PROVE held(c) \o more(c) \in Seq(Msgs)
        <5>1. held(c) \in Seq(Msgs) /\ more(c) \in Seq(Msgs) BY NothingIn DEF TypeOK
        <5> HIDE DEF held, more
        <5> QED BY <5>1, ConcatIs
      <4>2. endMsgs' = [c \in DOMAIN endMsgs \cup ToSet(socks) |-> held(c) \o more(c)]
        BY <1>11, <2>2 DEF UpdateEndmsgs
      <4> HIDE DEF held, more
      <4> QED BY <3>1, <4>1, <4>2 DEF TypeOK
    <3> QED BY <1>11, <2>2, <3>2, <3>3 DEF UpdateEndmsgs, TypeOK, Pcs
  <2> QED BY <2>1, <2>2
<1>12. CASE NextEntry
  <2> DEFINE cleared == IF cursor \in DOMAIN endMsgs
                        THEN [endMsgs EXCEPT ![cursor] = <<>>] ELSE endMsgs
             ahead   == {c \in DOMAIN cleared : c > cursor /\ cleared[c] # <<>>}
  <2>1. DOMAIN cleared = DOMAIN endMsgs /\ cleared \in [DOMAIN cleared -> Seq(Msgs)]
    BY NothingIn DEF TypeOK
  <2>2. endMsgs' = cleared BY <1>12 DEF NextEntry
  <2>3. \/ cursor' = 0 /\ pc' = "grab" /\ UNCHANGED msgList
        \/ ahead # {} /\ cursor' = Min(ahead) /\ msgList' = cleared[Min(ahead)] /\ UNCHANGED pc
    BY <1>12 DEF NextEntry
  <2>4. ahead \subseteq DOMAIN cleared OBVIOUS
  <2> HIDE DEF cleared, ahead
  <2>5. DOMAIN cleared \subseteq Conns /\ Conns \subseteq Nat
    BY <2>1, ConnsAssumption DEF TypeOK
  <2>6. ahead # {} => Min(ahead) \in DOMAIN cleared BY <2>4, <2>5, MinWorks
  <2>7. cursor' \in Conns \cup {0} /\ msgList' \in Seq(Msgs) /\ pc' \in Pcs
    BY <2>1, <2>3, <2>5, <2>6 DEF TypeOK, Pcs
  <2> QED BY <1>12, <2>1, <2>2, <2>5, <2>7 DEF NextEntry, TypeOK
<1>13. ASSUME NEW skip, StartJob(skip), msgList # <<>>
       PROVE  /\ job' \in Msgs /\ msgList' \in Seq(Msgs) /\ loop' \in Seq(Items) /\ pc' \in Pcs
              /\ Head(msgList) \in Msgs /\ Head(msgList).val \in 0..MaxMsgs
  <2>1. Head(msgList) \in Msgs /\ Tail(msgList) \in Seq(Msgs) BY <1>13, TailIs DEF TypeOK
  <2>2. job' \in Msgs BY <1>13, <2>1 DEF StartJob
  <2>3. loop' \in Seq(Items) BY <1>13, <2>2, BroadcastIs DEF StartJob
  <2> QED BY <1>13, <2>1, <2>2, <2>3 DEF StartJob, Pcs, Msgs
<1>14. CASE HandlePrivOrPart
  <2>1. StartJob({cursor}) /\ msgList # <<>> BY <1>14 DEF HandlePrivOrPart, ToHandle
  <2> QED BY <1>14, <2>1, <1>13 DEF HandlePrivOrPart, TypeOK
<1>15. CASE HandleTopic
  <2>1. topic' = Head(msgList).val /\ msgList # <<>> BY <1>15 DEF HandleTopic, ToHandle
  <2>2. Head(msgList).val \in 0..MaxMsgs
    <3>1. Head(msgList) \in Msgs BY <2>1, TailIs DEF TypeOK
    <3> QED BY <3>1 DEF Msgs
  <2>3. CASE StartJob({}) BY <1>15, <2>1, <2>2, <2>3, <1>13 DEF HandleTopic, TypeOK, StartJob, Dies
  <2>4. CASE ~StartJob({}) BY <1>15, <2>1, <2>2, <2>4, DiesTypes DEF HandleTopic, TypeOK
  <2> QED BY <2>3, <2>4
<1>16. CASE HandleMsgOfNobody BY <1>16, DiesTypes DEF HandleMsgOfNobody, Crashes, TypeOK, Pcs
<1>17. CASE LogPriv
  <2>1. Append(log, job.val) \in Seq(0..MaxMsgs) BY AppendIs DEF TypeOK, Msgs
  <2>2. CASE Dies BY <1>17, <2>1, <2>2, DiesTypes DEF LogPriv, TypeOK
  <2>3. CASE ~Dies BY <1>17, <2>1, <2>3, MsgIs DEF LogPriv, TypeOK, Pcs
  <2> QED BY <2>2, <2>3
<1>18. CASE PartEnds
  <2>1. CASE Dies
    <3>1. UNCHANGED <<clients, waiting, topic, database>> BY <1>18 DEF PartEnds, Crashes
    <3> QED BY <2>1, <3>1, DiesTypes DEF TypeOK
  <2>2. CASE Crashes BY <1>18, <2>2 DEF PartEnds, TypeOK, Crashes, Pcs
  <2>3. CASE ~Dies /\ ~Crashes
    <3>1. RemoveTraceOf(cursor) BY <1>18, <2>3 DEF PartEnds
    <3> QED BY <1>18, <2>3, <3>1, TraceRemoved, MsgIs, ZenonT(30) DEF PartEnds, TypeOK, Pcs
  <2> QED BY <2>1, <2>2, <2>3
<1>19. CASE TopicEnds BY <1>19, DiesTypes, MsgIs DEF TopicEnds, Crashes, TypeOK, Pcs
<1>20. CASE UNCHANGED vars BY <1>20 DEF vars, TypeOK
<1> QED
  BY <1>1, <1>2, <1>3, <1>4, <1>5, <1>6, <1>7, <1>8, <1>9, <1>10, <1>11, <1>12, <1>14, <1>15,
     <1>16, <1>17, <1>18, <1>19, <1>20
  DEF Next, ThreadRun, Terminated
(* A connection that is reset stays so, and nobody becomes idle or open again. *)
LEMMA PeersStep ==
  ASSUME TypeOK, Places, ErasesAMember, [Next]_vars, NEW c \in Conns
  PROVE  /\ peer[c] \in Peers /\ peer'[c] \in Peers
         /\ Broken(c) => Broken(c)'
         /\ peer'[c] = "idle" => peer[c] = "idle"
         /\ peer'[c] = "open" => peer[c] \in {"idle", "open"}
         /\ peer'[c] = "parting" => peer[c] \in {"open", "parting"}
         /\ peer[c] = "idle" /\ peer'[c] # "idle" => Join(c)
<1> USE DEF Broken
<1>1. peer \in [Conns -> Peers] BY DEF TypeOK
<1>2. ASSUME NEW d \in Conns, Client(d), peer'[c] # peer[c]
      PROVE  /\ c = d /\ peer[c] # "reset"
             /\ \/ Join(c) /\ peer'[c] = "open"
                \/ peer[c] # "idle" /\ peer'[c] \in {"closed", "reset"}
                \/ peer[c] = "open" /\ peer'[c] = "parting"
  <2>1. ASSUME Close(d) PROVE c = d /\ peer'[c] \in {"closed", "reset"}
    BY <1>1, <1>2, <2>1 DEF Close
  <2>2. CASE Join(d) BY <1>1, <1>2, <2>2 DEF Join
  <2>3. CASE \E kind \in {"PRIVMSG", "TOPIC"} : ClientSends(d, kind)
    BY <1>2, <2>3 DEF ClientSends
  <2>4. CASE ClientParts(d) BY <1>1, <1>2, <2>1, <2>4 DEF ClientParts
  <2>5. CASE ClientCloses(d) BY <1>2, <2>1, <2>5 DEF ClientCloses
  <2>6. CASE Reset(d) BY <1>1, <1>2, <2>6 DEF Reset
  <2> QED BY <1>2, <2>2, <2>3, <2>4, <2>5, <2>6 DEF Client
<1>3. CASE \E d \in Conns : Client(d)
  <2>1. PICK d \in Conns : Client(d) BY <1>3
  <2>2. CASE peer'[c] = peer[c] BY <2>2, <1>1
  <2>3. CASE peer'[c] # peer[c]
    <3>1. /\ peer[c] # "reset"
          /\ \/ Join(c) /\ peer'[c] = "open"
             \/ peer[c] # "idle" /\ peer'[c] \in {"closed", "reset"}
             \/ peer[c] = "open" /\ peer'[c] = "parting"
      BY <2>1, <2>3, <1>2
    <3>2. CASE Join(c) /\ peer'[c] = "open"
      <4>1. peer[c] = "idle" BY <3>2 DEF Join
      <4> QED BY <3>2, <4>1 DEF Peers
    <3>3. CASE peer[c] # "idle" /\ peer'[c] \in {"closed", "reset"}
      BY <3>1, <3>3, <1>1 DEF Peers
    <3>4. CASE peer[c] = "open" /\ peer'[c] = "parting" BY <3>4 DEF Peers
    <3> QED BY <3>1, <3>2, <3>3, <3>4
  <2> QED BY <2>2, <2>3
<1>4. CASE Write
  <2>1. CASE peer' = peer BY <1>1, <2>1
  <2>2. CASE peer' # peer
    <3>1. /\ peer[Item.to] \notin {"open", "parting", "reset"}
          /\ peer' = [peer EXCEPT ![Item.to] = "poked"]
      BY <1>4, <2>2 DEF Write
    <3>2. CASE c # Item.to BY <3>1, <3>2, <1>1
    <3>3. CASE c = Item.to /\ peer[c] # "idle" BY <3>1, <3>3, <1>1 DEF Peers
    <3>4. Item.to \in ToSet(users) BY <1>4 DEF Write, ErasesAMember
    <3>5. peer[Item.to] # "idle" BY <3>4 DEF Places
    <3> QED BY <3>2, <3>3, <3>5
  <2> QED BY <2>1, <2>2
<1>5. CASE UNCHANGED peer BY <1>1, <1>5
<1>6. ThreadRun \/ Terminated \/ UNCHANGED vars => Write \/ UNCHANGED peer
  BY DEF ThreadRun, Terminated, vars, clients, GrabNew, Announce, AllAnnounced, SkipUser,
     GetSockForUser, GetSockForUserFails, WriteFails, NewuserHandled, UpdateEndmsgs, NextEntry,
     HandlePrivOrPart, HandleTopic, HandleMsgOfNobody, LogPriv, PartEnds, TopicEnds
<1> QED BY <1>3, <1>4, <1>5, <1>6 DEF Next
(* The clients leave the thread alone, and what is written to them.          *)
LEMMA ClientStepIs ==
  ASSUME NEW c \in Conns, Client(c)
  PROVE  /\ UNCHANGED <<inbox, servlet, database, pc, local>>
         /\ Join(c) \/ UNCHANGED waiting
  BY DEF Client, Join, ClientSends, ClientParts, ClientCloses, Reset

(* What c has sent and the thread has not done with.                         *)
LEMMA PendingIs ==
  ASSUME TypeOK, NEW c \in Conns
  PROVE  /\ InHand(c) \in Seq(Msgs) /\ Held(c) \in Seq(Msgs) /\ wire[c] \in Seq(Msgs)
         /\ InHand(c) \o Held(c) \in Seq(Msgs) /\ Pending(c) \in Seq(Msgs)
         /\ ToSet(InHand(c) \o Held(c)) = ToSet(InHand(c)) \cup ToSet(Held(c))
         /\ ToSet(Pending(c)) = ToSet(InHand(c)) \cup ToSet(Held(c)) \cup ToSet(wire[c])
<1>1. /\ InHand(c) \in Seq(Msgs) /\ Held(c) \in Seq(Msgs) /\ wire[c] \in Seq(Msgs)
  <2>1. <<job>> \in Seq(Msgs) BY DEF TypeOK
  <2> QED BY <2>1, NothingIn DEF InHand, Held, TypeOK
<1> DEFINE a == InHand(c)
           b == Held(c)
           w == wire[c]
<1> HIDE DEF a, b, w
<1>2. a \o b \in Seq(Msgs) /\ ToSet(a \o b) = ToSet(a) \cup ToSet(b)
  BY <1>1, ConcatIs DEF a, b, w
<1> DEFINE ab == a \o b
<1> HIDE DEF ab
<1>3. ab \o w \in Seq(Msgs) /\ ToSet(ab \o w) = ToSet(ab) \cup ToSet(w)
  <2>1. ab \in Seq(Msgs) /\ w \in Seq(Msgs) BY <1>1, <1>2 DEF ab, w
  <2> QED BY <2>1, ConcatIs
<1>4. Pending(c) = ab \o w BY DEF Pending, ab, a, b, w
<1> QED BY <1>1, <1>2, <1>3, <1>4 DEF a, b, w, ab

(* The first message of the entry at which handle_endmsgs is.                *)
LEMMA HeadIs ==
  ASSUME TypeOK, Phases, PendingOK, msgList # <<>>
  PROVE  /\ cursor \in Conns /\ Head(msgList) \in Msgs /\ Head(msgList) \in ToSet(Pending(cursor))
         /\ Head(msgList).of = cursor /\ Head(msgList).kind \in ToAll
<1>1. cursor \in Conns BY DEF Phases, TypeOK
<1>2. /\ Head(msgList) \in Msgs /\ Head(msgList) \in ToSet(msgList) /\ msgList \in Seq(Msgs)
  BY TailIs DEF TypeOK
<1>3. Held(cursor) = msgList BY DEF Held
<1>4. Head(msgList) \in ToSet(Pending(cursor)) BY <1>1, <1>2, <1>3, PendingIs
<1> QED BY <1>1, <1>2, <1>4 DEF PendingOK

(* Whom a write can remove is in the channel and has been announced.         *)
LEMMA ItemToIs ==
  ASSUME TypeOK, Phases, LoopOK, RepliesOK, pc \in {"send", "write"}, loop \o replies # <<>>,
         Item.msg # NoMsg
  PROVE  /\ Item.to \in Conns /\ Item.to \notin ToSet(newusers)
         /\ Item.to \in ToSet(users) \/ Broken(Item.to)
         /\ job.kind = "PART" => Item.to # job.of
         /\ loop # <<>> => Item.msg = job
         /\ loop = <<>> => job.kind = "JOIN" /\ Item.to = job.of
<1>1. Item.to \in Conns BY ItemIs
<1>2. CASE loop # <<>>
  <2>1. Item \in ToSet(loop)
    <3>1. Item = Head(loop) /\ loop \in Seq(Items) BY <1>2, ItemIs DEF TypeOK
    <3> QED BY <3>1, <1>2, TailIs
  <2> QED BY <1>1, <1>2, <2>1 DEF LoopOK
<1>3. CASE loop = <<>>
  <2>1. Item = replies[1] /\ 1 \in DOMAIN replies /\ replies # <<>> BY <1>3, ItemIs
  <2>2. Item.to = job.of BY <2>1 DEF RepliesOK
  <2>3. job.kind = "JOIN" BY <2>1 DEF Phases
  <2> QED BY <1>1, <1>3, <2>2, <2>3 DEF Phases, LoopOK, ToAll, Unannounced
<1> QED BY <1>2, <1>3

(* What the loop has still to visit once Item is done with.                  *)
LEMMA LoopShrinks ==
  ASSUME TypeOK, Phases, Write \/ (WriteFails /\ ~Crashes) \/ SkipUser
  PROVE  /\ ToSet(loop') \subseteq ToSet(loop)
         /\ loop = <<>> => loop' = <<>> /\ replies # <<>> /\ replies' = Tail(replies)
         /\ loop # <<>> => replies' = replies
<1>1. loop \o replies # <<>>
  <2>1. CASE SkipUser
    <3>1. loop \in Seq(Items) /\ replies \in Seq(Items) /\ loop # <<>> BY <2>1 DEF SkipUser, TypeOK
    <3> QED BY <3>1, ConcatEqualIffEmpty
  <2> QED BY <2>1 DEF Write, WriteFails, Phases
<1>2. loop # <<>> => Tail(loop) \in Seq(Items) /\ ToSet(Tail(loop)) \subseteq ToSet(loop)
  BY TailIs DEF TypeOK
<1>3. loop # <<>> => ToSet(AfterErasing(Item.to, Tail(loop))) \subseteq ToSet(loop)
  BY <1>2, AfterErasingIs
<1>4. loop = <<>> => replies # <<>> BY <1>1, ItemIs
<1> QED BY <1>2, <1>3, <1>4 DEF Write, WriteFails, SkipUser, MoveOn

-----------------------------------------------------------------------------
(* Who is where, and what the thread has in hand.                          *)

(* Every step keeps Places: grab_new takes in everybody that waits, and a  *)
(* removal takes out of _users but never out of the newusers.              *)
LEMMA PlacesStep ==
  ASSUME TypeOK, Places, Phases, LoopOK, RepliesOK, ErasesAMember, [Next]_vars
  PROVE  Places'
<1> USE DEF clients, servlet, database, local
<1>0. \A c \in Conns : peer'[c] = "idle" => peer[c] = "idle" BY PeersStep
<1>1. /\ ToSet(waiting) \subseteq Conns /\ ToSet(users) \subseteq Conns
      /\ ToSet(socks) \subseteq Conns /\ ToSet(newusers) \subseteq Conns
  BY ToSetIs DEF TypeOK, IsQueue
<1>2. CASE UNCHANGED <<waiting, users, socks, newusers>> BY <1>0, <1>1, <1>2 DEF Places
<1>3. ASSUME NEW c \in Conns, Client(c) PROVE Places'
  <2>1. CASE Join(c)
    <3>1. ToSet(waiting') = ToSet(waiting) \cup {c} BY <2>1, AppendIs DEF Join, TypeOK, IsQueue
    <3>2. peer[c] = "idle" /\ peer'[c] = "open" BY <2>1 DEF Join, TypeOK
    <3>3. UNCHANGED <<users, socks, newusers>> BY <2>1 DEF Join
    <3> QED BY <1>0, <1>1, <3>1, <3>2, <3>3 DEF Places
  <2> QED BY <1>2, <1>3, <2>1, ClientStepIs
<1>4. CASE Dies /\ UNCHANGED waiting
  BY <1>0, <1>1, <1>4, NothingIn DEF Dies, Places
<1>5. CASE GrabNew
  <2>1. waiting' = <<>> /\ UNCHANGED peer BY <1>5 DEF GrabNew
  <2>2. CASE Dies BY <2>1, <2>2, NothingIn DEF Dies, Places
  <2>3. CASE ~Dies
    <3>1. /\ ToSet(users') = ToSet(users) \cup ToSet(waiting)
          /\ ToSet(socks') = ToSet(socks) \cup ToSet(waiting)
          /\ newusers' = waiting
      <4>1. ToSet(users \o waiting) = ToSet(users) \cup ToSet(waiting)
        BY ConcatIs DEF TypeOK, IsQueue
      <4>2. ToSet(socks \o waiting) = ToSet(socks) \cup ToSet(waiting)
        BY ConcatIs DEF TypeOK, IsQueue
      <4> QED BY <1>5, <2>3, <4>1, <4>2 DEF GrabNew
    <3> QED BY <2>1, <3>1, NothingIn DEF Places
  <2> QED BY <2>2, <2>3
<1>6. CASE Announce
  <2>1. ToSet(newusers') \subseteq ToSet(newusers) BY <1>6, TailIs DEF Announce, TypeOK, IsQueue
  <2>2. UNCHANGED <<waiting, users, socks>> BY <1>6 DEF Announce
  <2> QED BY <1>0, <1>1, <2>1, <2>2 DEF Places
<1>7. ASSUME NEW c, RemoveTraceOf(c), c \notin ToSet(newusers), UNCHANGED <<waiting, newusers>>
      PROVE  Places'
  <2>1. ToSet(users') = ToSet(users) \ {c} /\ ToSet(socks') \subseteq ToSet(socks)
    BY <1>7, TraceRemoved
  <2> QED BY <1>0, <1>1, <1>7, <2>1 DEF Places
<1>8. CASE WriteFails /\ ~Crashes
  <2>1. /\ RemoveTraceOf(Item.to) /\ UNCHANGED <<waiting, newusers>> /\ pc = "write"
    BY <1>8 DEF WriteFails
  <2>2. Item.to \notin ToSet(newusers) BY <2>1, ItemToIs DEF Phases
  <2> QED BY <1>7, <2>1, <2>2
<1>9. CASE PartEnds /\ ~Crashes /\ ~Dies
  <2>1. RemoveTraceOf(cursor) /\ UNCHANGED <<waiting, newusers>> /\ job.kind = "PART"
    BY <1>9 DEF PartEnds, Sent
  <2>2. newusers = <<>> BY <2>1 DEF Phases, ToAll
  <2> QED BY <1>7, <2>1, <2>2, NothingIn
<1>10. ThreadRun \/ Terminated \/ UNCHANGED vars =>
         \/ UNCHANGED <<waiting, users, socks, newusers>> \/ (Dies /\ UNCHANGED waiting)
         \/ GrabNew \/ Announce \/ (WriteFails /\ ~Crashes) \/ (PartEnds /\ ~Crashes /\ ~Dies)
  BY DEF ThreadRun, Terminated, vars, AllAnnounced, SkipUser, GetSockForUser,
     GetSockForUserFails, Write, WriteFails, NewuserHandled, UpdateEndmsgs, NextEntry,
     HandlePrivOrPart, HandleTopic, HandleMsgOfNobody, LogPriv, PartEnds, TopicEnds, Crashes
<1> QED BY <1>2, <1>3, <1>4, <1>5, <1>6, <1>8, <1>9, <1>10 DEF Next

(* Every step keeps Phases. *)
LEMMA PhasesStep ==
  ASSUME TypeOK, Places, Phases, PendingOK, ErasesAMember, [Next]_vars, Places'
  PROVE  Phases'
<1> USE DEF clients, servlet, database, local
<1>0. ASSUME NEW c \in Conns, ~Unannounced(c), ~Join(c), ToSet(waiting') \subseteq ToSet(waiting),
             ToSet(newusers') \subseteq ToSet(newusers)
      PROVE  ~Unannounced(c)'
  BY <1>0, PeersStep DEF Unannounced
<1>1. ASSUME NEW c \in Conns, Client(c) PROVE Phases'
  <2>1. UNCHANGED <<pc, job, loop, replies, newusers, cursor, msgList, names>>
    BY <1>1, ClientStepIs
  <2>2. ASSUME job.kind \in ToAll PROVE ~Unannounced(job.of)'
    <3>1. job.of \in Conns /\ ~Unannounced(job.of) BY <2>2 DEF Phases
    <3>2. pc # "grab" BY <2>2 DEF Phases, ToAll, NoMsg, Msg
    <3>3. ~Join(c) /\ ~Join(job.of) BY <3>2 DEF Join
    <3>4. UNCHANGED <<waiting, newusers>> BY <1>1, <3>3, ClientStepIs
    <3> QED BY <1>0, <2>1, <3>1, <3>3, <3>4
  <2>3. Item' = Item BY <2>1 DEF Item
  <2> QED BY <2>1, <2>2, <2>3 DEF Phases
<1>2. CASE Dies BY <1>2, MsgIs DEF Dies, Phases, ToAll
<1>3. CASE Crashes /\ UNCHANGED <<peer, waiting>>
  <2>1. UNCHANGED <<job, loop, replies, newusers, cursor, msgList, names>> /\ pc' = "crashed"
    BY <1>3 DEF Crashes
  <2>2. \A c : Unannounced(c)' = Unannounced(c) BY <1>3, <2>1 DEF Unannounced
  <2> QED BY <2>1, <2>2 DEF Phases
<1>4. CASE GrabNew /\ ~Dies
  <2>1. /\ pc = "grab" /\ pc' = "announce" 
        /\ UNCHANGED <<job, loop, replies, cursor, msgList, names>>
    BY <1>4 DEF GrabNew
  <2> QED BY <2>1 DEF Phases, ToAll, NoMsg, Msg
<1>5. CASE Announce
  <2>0. PICK new : new = Head(newusers) OBVIOUS
  <2>1. /\ pc = "announce" /\ pc' = "send" /\ UNCHANGED <<cursor, msgList, names>>
        /\ job' = Msg("JOIN", new, 0)
        /\ newusers' = Tail(newusers) /\ newusers # <<>> /\ UNCHANGED <<peer, waiting>>
    BY <1>5, <2>0 DEF Announce
  <2>2. new \in Conns /\ new \in ToSet(newusers) /\ new \notin ToSet(newusers')
    BY <2>0, <2>1, TailIs DEF TypeOK, IsQueue
  <2>3. new \in ToSet(users) BY <2>2 DEF Places
  <2>4. new \notin ToSet(waiting) /\ peer[new] # "idle" BY <2>3 DEF Places
  <2>5. ~Unannounced(new)' BY <2>1, <2>2, <2>4 DEF Unannounced
  <2>6. job'.kind = "JOIN" /\ job'.of = new /\ job'.val = 0 BY <2>1, MsgIs
  <2> QED BY <2>1, <2>2, <2>5, <2>6 DEF Phases, ToAll
<1>6. CASE AllAnnounced
  <2>1. /\ pc = "announce" /\ pc' = "read" /\ newusers = <<>>
        /\ UNCHANGED <<newusers, job, loop, replies, cursor, msgList, names>>
    BY <1>6 DEF AllAnnounced
  <2> QED BY <2>1 DEF Phases, ToAll, NoMsg, Msg
<1>7. ASSUME pc \in {"send", "write"}, pc' = "send", ~Crashes,
             UNCHANGED <<waiting, newusers, job, cursor, msgList>>,
             replies = <<>> => replies' = <<>>, job.kind # "JOIN" => names' = names
      PROVE  Phases'
  <2>1. job.kind \in ToAll BY <1>7 DEF Phases
  <2>2. ~Join(job.of) BY <1>7 DEF Join
  <2>3. ~Unannounced(job.of)' BY <1>0, <1>7, <2>1, <2>2 DEF Phases
  <2> QED BY <1>7, <2>1, <2>3 DEF Phases
<1>8. CASE SkipUser BY <1>7, <1>8 DEF SkipUser, Crashes
<1>9. CASE GetSockForUser
  <2>1. /\ pc = "send" /\ pc' = "write" /\ loop \o replies # <<>> /\ Item.msg # NoMsg
        /\ UNCHANGED <<peer, waiting, newusers, job, loop, replies, cursor, msgList, names>>
    BY <1>9 DEF GetSockForUser, ToWrite
  <2>2. \A c : Unannounced(c)' = Unannounced(c) BY <2>1 DEF Unannounced
  <2>3. Item' = Item BY <2>1 DEF Item
  <2> QED BY <2>1, <2>2, <2>3 DEF Phases
<1>10. CASE Write \/ (WriteFails /\ ~Crashes)
  <2>1. /\ pc = "write" /\ pc' = "send" /\ UNCHANGED <<waiting, newusers, job, cursor, msgList>>
        /\ names' = NamesSoFar
    BY <1>10 DEF Write, WriteFails
  <2>2. job.kind # "JOIN" => names' = names BY <2>1 DEF NamesSoFar
  <2>3. replies = <<>> => replies' = <<>> BY <1>10, LoopShrinks
  <2>4. ~Crashes BY <2>1 DEF Crashes
  <2> QED BY <1>7, <2>1, <2>2, <2>3, <2>4
<1>11. CASE NewuserHandled
  <2>1. /\ pc = "send" /\ pc' = "announce" /\ loop = <<>> /\ replies = <<>> /\ job.kind = "JOIN"
        /\ job' = NoMsg /\ names' = {} /\ UNCHANGED <<loop, replies, cursor, msgList>>
    BY <1>11 DEF NewuserHandled, Sent
  <2> QED BY <2>1 DEF Phases, ToAll, NoMsg, Msg
<1>12. CASE UpdateEndmsgs /\ ~Dies
  <2>1. pc = "read" /\ pc' = "handle" /\ UNCHANGED local BY <1>12 DEF UpdateEndmsgs
  <2> QED BY <2>1 DEF Phases, ToAll, NoMsg, Msg
<1>13. CASE NextEntry
  <2>1. /\ pc = "handle" /\ msgList = <<>> /\ UNCHANGED <<newusers, loop, replies, names, job>>
        /\ (cursor' = 0 => msgList' = <<>>) /\ ((cursor' = 0 /\ pc' = "grab") \/ pc' = "handle")
    <3> DEFINE cleared == IF cursor \in DOMAIN endMsgs
                          THEN [endMsgs EXCEPT ![cursor] = <<>>] ELSE endMsgs
               ahead   == {c \in DOMAIN cleared : c > cursor /\ cleared[c] # <<>>}
    <3>1. /\ pc = "handle" /\ msgList = <<>> /\ UNCHANGED <<newusers, loop, replies, names, job>>
          /\ \/ cursor' = 0 /\ pc' = "grab" /\ UNCHANGED msgList
             \/ ahead # {} /\ cursor' = Min(ahead) /\ UNCHANGED pc
      BY <1>13 DEF NextEntry
    <3>2. ahead \subseteq Conns BY DEF TypeOK
    <3> HIDE DEF ahead
    <3>3. ahead # {} => Min(ahead) # 0 BY <3>2, MinWorks, ConnsAssumption
    <3> QED BY <3>1, <3>3
  <2> QED BY <2>1 DEF Phases, ToAll, NoMsg, Msg
<1>14. ASSUME NEW kind \in ToAll \ {"JOIN"}, ToHandle(kind), NEW skip, StartJob(skip),
              UNCHANGED <<peer, waiting, newusers, replies, names, cursor>>
       PROVE  Phases'
  <2>1. /\ pc = "handle" /\ pc' = "send" /\ msgList # <<>> /\ job' = Head(msgList)
        /\ job'.kind = kind /\ cursor \in ToSet(users) /\ cursor # 0
    BY <1>14 DEF ToHandle, StartJob, Phases
  <2>2. job'.of = cursor /\ cursor \in Conns BY <2>1, HeadIs
  <2>3. ~Unannounced(cursor)'
    <3>1. newusers = <<>> BY <2>1 DEF Phases
    <3> QED BY <1>14, <2>1, <3>1, NothingIn DEF Places, Unannounced
  <2> QED BY <1>14, <2>1, <2>2, <2>3 DEF Phases, ToAll
<1>15. CASE HandlePrivOrPart
  <2>1. PICK kind \in ToAll \ {"JOIN"} : ToHandle(kind) BY <1>15 DEF HandlePrivOrPart, ToAll
  <2> QED BY <1>14, <1>15, <2>1 DEF HandlePrivOrPart
<1>16. CASE HandleTopic /\ ~Dies
  <2>1. "TOPIC" \in ToAll \ {"JOIN"} BY DEF ToAll
  <2> QED BY <1>14, <1>16, <2>1 DEF HandleTopic
<1>17. ASSUME pc = "send", loop = <<>>, replies = <<>>, job.kind \in ToAll \ {"JOIN"},
              pc' = "handle", job' = NoMsg,
              UNCHANGED <<newusers, loop, replies, names, cursor, msgList>>
       PROVE  Phases'
  BY <1>17 DEF Phases, ToAll, NoMsg, Msg
<1>18. CASE (LogPriv \/ PartEnds \/ TopicEnds) /\ ~Dies /\ ~Crashes
  BY <1>17, <1>18 DEF LogPriv, PartEnds, TopicEnds, Sent, ToAll
<1>19. CASE UNCHANGED vars
  <2>1. /\ UNCHANGED <<peer, waiting, pc, job, loop, replies, newusers, cursor, msgList, names>>
    BY <1>19 DEF vars
  <2>2. \A c : Unannounced(c)' = Unannounced(c) BY <2>1 DEF Unannounced
  <2>3. Item' = Item BY <2>1 DEF Item
  <2> QED BY <2>1, <2>2, <2>3 DEF Phases
<1>20. ThreadRun /\ Crashes => UNCHANGED <<peer, waiting>>
  BY DEF ThreadRun, GrabNew, Announce, AllAnnounced, SkipUser, GetSockForUser,
     GetSockForUserFails, Write, WriteFails, NewuserHandled, UpdateEndmsgs, NextEntry,
     HandlePrivOrPart, HandleTopic, HandleMsgOfNobody, LogPriv, PartEnds, TopicEnds, Crashes,
     StartJob, Dies
<1>21. GetSockForUserFails \/ HandleMsgOfNobody => Dies \/ Crashes
  BY DEF GetSockForUserFails, HandleMsgOfNobody
<1>22. CASE ThreadRun /\ ~Dies /\ ~Crashes
  BY <1>22, <1>4, <1>5, <1>6, <1>8, <1>9, <1>10, <1>11, <1>12, <1>13, <1>15, <1>16, <1>18, <1>21
  DEF ThreadRun
<1> QED BY <1>1, <1>2, <1>3, <1>19, <1>20, <1>22 DEF Next, Terminated

(* Every step keeps LoopOK: a write that fails removes its user from       *)
(* _users, and who is erased has been reset.                               *)
LEMMA LoopStep ==
  ASSUME TypeOK, Places, Phases, LoopOK, RepliesOK, PendingOK, ErasesAMember, [Next]_vars
  PROVE  LoopOK'
<1> USE DEF clients, servlet, database, local
<1>1. \A c \in Conns : Broken(c) => Broken(c)' BY PeersStep
<1>2. /\ job.kind \in {"JOIN", "PART"} => job.of \in Conns
      /\ \A item \in ToSet(loop) : item.to \in Conns
  <2>1. loop \in Seq(Items) BY DEF TypeOK
  <2>2. ToSet(loop) \subseteq Items BY <2>1, ToSetIs
  <2> QED BY <2>2 DEF Phases, ToAll, Items
<1>3. CASE UNCHANGED <<loop, job, newusers, users>>
  BY <1>1, <1>2, <1>3 DEF LoopOK
<1>4. ASSUME loop' = <<>>, job' = NoMsg PROVE LoopOK'
  BY <1>4, NothingIn, MsgIs DEF LoopOK
<1>5. ASSUME pc \in {"grab", "announce", "handle"} PROVE loop = <<>> /\ job = NoMsg
  BY <1>5 DEF Phases
<1>6. CASE Dies BY <1>4, <1>6 DEF Dies
<1>7. CASE \E c \in Conns : Client(c) BY <1>3, <1>7, ClientStepIs
<1>8. CASE GrabNew /\ ~Dies BY <1>4, <1>5, <1>8 DEF GrabNew
<1>9. CASE Announce
  <2>0. PICK new : new = Head(newusers) OBVIOUS
  <2>00. PICK skip : skip = ToSet(Tail(newusers)) OBVIOUS
  <2>1. /\ job' = Msg("JOIN", new, 0) /\ loop' = Broadcast(Msg("JOIN", new, 0), skip)
        /\ newusers' = Tail(newusers) /\ UNCHANGED users /\ newusers # <<>>
        /\ skip = ToSet(newusers')
    BY <1>9, <2>0, <2>00 DEF Announce
  <2>2. new \in ToSet(users) /\ new \in Conns
    BY <2>0, <2>1, TailIs DEF Places, TypeOK, IsQueue
  <2>3. job'.kind = "JOIN" /\ job'.of = new BY <2>1, MsgIs
  <2>4. Msg("JOIN", new, 0) \in Msgs BY <2>2, MsgIs, BoundsAssumption DEF Kinds
  <2>5. ASSUME NEW item \in ToSet(loop')
        PROVE  /\ item.to \in ToSet(users) /\ item.msg \in {NoMsg, job'}
               /\ item.msg # NoMsg => item.to \notin ToSet(newusers')
    <3>1. PICK i \in 1..Len(users) : item = loop'[i]
      BY <2>1, <2>4, BroadcastIs, ToSetIs
    <3> QED BY <2>1, <2>4, <3>1, BroadcastIs
  <2> QED BY <2>1, <2>2, <2>3, <2>5 DEF LoopOK
<1>10. CASE SkipUser \/ Write
  <2>1. ToSet(loop') \subseteq ToSet(loop) /\ UNCHANGED <<job, newusers, users>>
    BY <1>10, LoopShrinks DEF SkipUser, Write
  <2> QED BY <1>1, <1>2, <2>1 DEF LoopOK
<1>11. CASE WriteFails /\ ~Crashes
  <2>1. /\ RemoveTraceOf(Item.to) /\ UNCHANGED <<job, newusers>> /\ pc = "write" /\ Broken(Item.to)
    BY <1>11 DEF WriteFails
  <2>2. ToSet(loop') \subseteq ToSet(loop) BY <1>11, LoopShrinks
  <2>3. ToSet(users') = ToSet(users) \ {Item.to} BY <2>1, TraceRemoved
  <2>4. job.kind = "PART" => Item.to # job.of BY <2>1, ItemToIs DEF Phases
  <2> QED BY <1>1, <1>2, <2>1, <2>2, <2>3, <2>4 DEF LoopOK
<1>12. ASSUME NEW kind \in {"PRIVMSG", "TOPIC", "PART"}, ToHandle(kind), NEW skip, StartJob(skip),
              kind = "PART" => cursor \in skip, UNCHANGED <<users, newusers, cursor>>
       PROVE  LoopOK'
  <2>1. /\ pc = "handle" /\ msgList # <<>> /\ cursor \in ToSet(users)
        /\ job' = Head(msgList) /\ loop' = Broadcast(Head(msgList), skip) /\ job'.kind = kind
    BY <1>12 DEF ToHandle, StartJob
  <2>2. job'.of = cursor /\ Head(msgList) \in Msgs BY <2>1, HeadIs
  <2>3. newusers' = <<>> BY <1>12, <2>1 DEF Phases
  <2>4. ASSUME NEW item \in ToSet(loop')
        PROVE  /\ item.to \in ToSet(users) /\ item.msg \in {NoMsg, job'}
               /\ item.msg # NoMsg => item.to \notin skip
    <3>1. PICK i \in 1..Len(users) : item = loop'[i]
      BY <2>1, <2>2, BroadcastIs, ToSetIs
    <3> QED BY <2>1, <2>2, <3>1, BroadcastIs
  <2> QED BY <1>12, <2>1, <2>2, <2>3, <2>4, NothingIn DEF LoopOK
<1>13. CASE HandlePrivOrPart BY <1>12, <1>13 DEF HandlePrivOrPart, ToHandle
<1>14. CASE HandleTopic /\ ~Dies
  <2>1. ToHandle("TOPIC") /\ StartJob({}) /\ UNCHANGED <<users, newusers, cursor>>
    BY <1>14 DEF HandleTopic
  <2> QED BY <1>12, <2>1
<1>15. CASE NewuserHandled \/ ((LogPriv \/ PartEnds \/ TopicEnds) /\ ~Dies /\ ~Crashes)
  BY <1>4, <1>15 DEF NewuserHandled, LogPriv, PartEnds, TopicEnds, Sent
<1>16. ThreadRun \/ Terminated \/ UNCHANGED vars =>
         \/ UNCHANGED <<loop, job, newusers, users>> \/ Dies \/ (GrabNew /\ ~Dies) \/ Announce
         \/ SkipUser \/ Write \/ (WriteFails /\ ~Crashes) \/ HandlePrivOrPart
         \/ (HandleTopic /\ ~Dies) \/ NewuserHandled
         \/ ((LogPriv \/ PartEnds \/ TopicEnds) /\ ~Dies /\ ~Crashes)
  BY DEF ThreadRun, Terminated, vars, AllAnnounced, GetSockForUser, GetSockForUserFails,
     WriteFails, UpdateEndmsgs, NextEntry, HandleMsgOfNobody, Crashes
<1> QED BY <1>3, <1>6, <1>7, <1>8, <1>9, <1>10, <1>11, <1>13, <1>14, <1>15, <1>16 DEF Next

(* Every step keeps RepliesOK: no topic is set while the replies to a      *)
(* newuser are written.                                                    *)
LEMMA RepliesStep ==
  ASSUME TypeOK, Phases, RepliesOK, PendingOK, [Next]_vars
  PROVE  RepliesOK'
<1> USE DEF clients, servlet, database, local
<1>0. replies \in Seq(Items) /\ Len(replies) \in Nat /\ DOMAIN replies = 1..Len(replies)
  BY ToSetIs DEF TypeOK
<1>1. CASE UNCHANGED <<replies, job, topic>> BY <1>1 DEF RepliesOK
<1>2. ASSUME replies' = <<>> PROVE RepliesOK'
  <2>1. Len(<<>>) = 0 /\ DOMAIN <<>> = {} BY NothingIn, EmptySeq
  <2> QED BY <1>2, <2>1 DEF RepliesOK
<1>3. ASSUME pc \in {"grab", "announce", "handle"} PROVE replies = <<>> BY <1>3 DEF Phases
<1>4. CASE Dies BY <1>2, <1>4 DEF Dies
<1>5. CASE \E c \in Conns : Client(c) BY <1>1, <1>5, ClientStepIs
<1>6. CASE Announce
  <2>0. PICK new : new = Head(newusers) OBVIOUS
  <2>1. new \in Conns BY <1>6, <2>0, TailIs DEF Announce, TypeOK, IsQueue
  <2>2. replies' = [i \in 1..3 |->
           [to |-> new, msg |-> <<Msg("RPL_TOPIC", new, topic), Msg("RPL_NAMREPLY", new, 0),
                                  Msg("RPL_ENDOFNAMES", new, 0)>>[i]]]
        /\ job'.of = new /\ UNCHANGED topic
    BY <1>6, <2>0, MsgIs DEF Announce
  <2>3. /\ replies' \in Seq(Items) /\ Len(replies') = 3 /\ DOMAIN replies' = 1..3
        /\ replies'[1] = [to |-> new, msg |-> Msg("RPL_TOPIC", new, topic)]
        /\ replies'[2] = [to |-> new, msg |-> Msg("RPL_NAMREPLY", new, 0)]
        /\ replies'[3] = [to |-> new, msg |-> Msg("RPL_ENDOFNAMES", new, 0)]
    <3>1. DOMAIN replies' = 1..3 BY <2>2
    <3> QED BY <2>1, <2>2, <3>1, RepliesAre
  <2>4. ASSUME NEW i \in 1..3
        PROVE  /\ replies'[i].to = new /\ replies'[i].msg.of = new
               /\ replies'[i].msg.kind = ReplyKinds[i]
               /\ replies'[i].msg.kind = "RPL_TOPIC" => replies'[i].msg.val = topic
    <3>1. CASE i = 1 BY <3>1, <2>3, MsgIs DEF ReplyKinds
    <3>2. CASE i = 2 BY <3>2, <2>3, MsgIs DEF ReplyKinds
    <3>3. CASE i = 3 BY <3>3, <2>3, MsgIs DEF ReplyKinds
    <3> QED BY <3>1, <3>2, <3>3
  <2>5. \A i \in 1..3 : 3 - 3 + i = i OBVIOUS
  <2> QED BY <2>2, <2>3, <2>4, <2>5 DEF RepliesOK
<1>7. ASSUME replies # <<>>, replies' = Tail(replies), UNCHANGED <<job, topic>> PROVE RepliesOK'
  <2> DEFINE n == Len(replies)
  <2>1. /\ Len(replies') = n - 1 /\ DOMAIN replies' = 1..(n - 1) /\ n \in Nat \ {0}
        /\ \A i \in 1..(n - 1) : replies'[i] = replies[i + 1]
    BY <1>0, <1>7, TailIs
  <2> HIDE DEF n
  <2>2. n <= 3 /\ DOMAIN replies = 1..n BY <1>0 DEF RepliesOK, n
  <2>3. ASSUME NEW i \in 1..(n - 1)
        PROVE  /\ replies'[i].to = job.of /\ replies'[i].msg.of = job.of
               /\ replies'[i].msg.kind = ReplyKinds[3 - (n - 1) + i]
               /\ replies'[i].msg.kind = "RPL_TOPIC" => replies'[i].msg.val = topic
    <3>1. i + 1 \in 1..n /\ 3 - n + (i + 1) = 3 - (n - 1) + i BY <2>1
    <3>2. /\ replies[i + 1].to = job.of /\ replies[i + 1].msg.of = job.of
          /\ replies[i + 1].msg.kind = ReplyKinds[3 - n + (i + 1)]
          /\ replies[i + 1].msg.kind = "RPL_TOPIC" => replies[i + 1].msg.val = topic
      BY <2>2, <3>1 DEF RepliesOK, n
    <3> QED BY <2>1, <3>1, <3>2
  <2>4. n - 1 <= 3 BY <2>1, <2>2
  <2> QED BY <1>7, <2>1, <2>3, <2>4 DEF RepliesOK
<1>8. CASE SkipUser \/ Write \/ (WriteFails /\ ~Crashes)
  <2>1. UNCHANGED <<job, topic>> BY <1>8 DEF SkipUser, Write, WriteFails
  <2>2. \/ replies' = replies \/ (replies # <<>> /\ replies' = Tail(replies))
    BY <1>8, LoopShrinks
  <2> QED BY <1>1, <1>7, <2>1, <2>2
<1>9. CASE HandlePrivOrPart \/ (HandleTopic /\ ~Dies)
  <2>1. pc = "handle" /\ UNCHANGED replies
    BY <1>9 DEF HandlePrivOrPart, HandleTopic, ToHandle
  <2> QED BY <1>2, <1>3, <2>1
<1>10. CASE NewuserHandled \/ ((LogPriv \/ PartEnds \/ TopicEnds) /\ ~Dies /\ ~Crashes)
  BY <1>2, <1>10 DEF NewuserHandled, LogPriv, PartEnds, TopicEnds, Sent
<1>11. ThreadRun \/ Terminated \/ UNCHANGED vars =>
         \/ UNCHANGED <<replies, job, topic>> \/ Dies \/ Announce
         \/ SkipUser \/ Write \/ (WriteFails /\ ~Crashes) \/ HandlePrivOrPart
         \/ (HandleTopic /\ ~Dies) \/ NewuserHandled
         \/ ((LogPriv \/ PartEnds \/ TopicEnds) /\ ~Dies /\ ~Crashes)
  BY DEF ThreadRun, Terminated, vars, GrabNew, AllAnnounced, GetSockForUser, GetSockForUserFails,
     WriteFails, UpdateEndmsgs, NextEntry, HandleMsgOfNobody, Crashes
<1> QED BY <1>1, <1>4, <1>5, <1>6, <1>8, <1>9, <1>10, <1>11 DEF Next

(* Every step keeps Memory: the row is written before the topic is         *)
(* announced.                                                              *)
LEMMA MemoryStep ==
  ASSUME TypeOK, Phases, Memory, [Next]_vars
  PROVE  Memory'
<1> USE DEF clients, servlet, database, local
<1>1. CASE UNCHANGED <<topic, dbTopic, job>> /\ (Alive' => Alive) BY <1>1 DEF Memory
<1>2. CASE Dies BY <1>2, MsgIs DEF Dies, Memory, Alive
<1>3. CASE \E c \in Conns : Client(c) BY <1>1, <1>3, ClientStepIs DEF Alive
<1>4. ASSUME UNCHANGED <<topic, dbTopic>>, job'.kind # "TOPIC", Alive' => Alive PROVE Memory'
  BY <1>4 DEF Memory
<1>5. CASE Announce BY <1>4, <1>5, MsgIs DEF Announce, Alive
<1>6. CASE HandlePrivOrPart BY <1>4, <1>6 DEF HandlePrivOrPart, StartJob, ToHandle, Alive
<1>7. CASE HandleTopic /\ ~Dies BY <1>7 DEF HandleTopic, StartJob, Memory
<1>8. CASE NewuserHandled \/ ((LogPriv \/ PartEnds \/ TopicEnds) /\ ~Dies /\ ~Crashes)
  BY <1>4, <1>8, MsgIs DEF NewuserHandled, LogPriv, PartEnds, TopicEnds, Sent, Alive
<1>9. CASE Crashes /\ ThreadRun
  <2>1. UNCHANGED <<topic, job>> /\ ~Alive' BY <1>9 DEF Crashes, Alive
  <2> QED BY <2>1 DEF Memory
<1>10. ThreadRun \/ Terminated \/ UNCHANGED vars =>
         \/ UNCHANGED <<topic, dbTopic, job>> /\ (Alive' => Alive)
         \/ Dies \/ Announce \/ HandlePrivOrPart \/ (HandleTopic /\ ~Dies) \/ NewuserHandled
         \/ ((LogPriv \/ PartEnds \/ TopicEnds) /\ ~Dies /\ ~Crashes) \/ (Crashes /\ ThreadRun)
  BY DEF ThreadRun, Terminated, vars, GrabNew, AllAnnounced, GetSockForUser, GetSockForUserFails,
     SkipUser, Write, WriteFails, UpdateEndmsgs, NextEntry, HandleMsgOfNobody, ToWrite, Alive
<1> QED BY <1>1, <1>2, <1>3, <1>5, <1>6, <1>7, <1>8, <1>9, <1>10 DEF Next
(* remove_trace_of is called for a user that is in _users: the end of the    *)
(* deque is never erased.                                                    *)
LEMMA ErasesStep ==
  ASSUME TypeOK, Phases, LoopOK, RepliesOK, ErasesAMember, [Next]_vars, Phases', LoopOK'
  PROVE  ErasesAMember'
<1> USE DEF clients, servlet, database, local
<1>1. Sent("PART")' => (cursor \in ToSet(users))' BY DEF Sent, Phases, LoopOK, ToAll
<1>2. ASSUME pc' = "write" PROVE (Item.to \in ToSet(users))'
  <2>1. CASE pc = "write" /\ UNCHANGED <<loop, replies, users>>
    BY <2>1 DEF ErasesAMember, Item
  <2>2. CASE GetSockForUser
    <3>1. /\ pc = "send" /\ loop \o replies # <<>> /\ Item.msg # NoMsg
          /\ Item.to \in ToSet(socks) /\ \A s \in LookedAt(Item.to) : ~Broken(s)
          /\ UNCHANGED <<loop, replies, users>>
      BY <2>2 DEF GetSockForUser, ToWrite
    <3>2. Item.to \in LookedAt(Item.to)
      <4>1. socks \in Seq(Conns) /\ IsInjective(socks) BY DEF TypeOK, IsQueue
      <4>2. DOMAIN socks = 1..Len(socks) /\ Len(socks) \in Nat BY <4>1, ToSetIs
      <4>3. PICK i \in 1..Len(socks) : socks[i] = Item.to BY <3>1, <4>1, ToSetIs
      <4>4. ASSUME NEW k \in 1..(i - 1) PROVE socks[k] # Item.to
        <5>1. k \in 1..Len(socks) /\ k # i BY <4>2
        <5> QED BY <4>1, <4>2, <4>3, <5>1 DEF IsInjective
      <4> QED BY <4>2, <4>3, <4>4 DEF LookedAt
    <3>3. Item.to \in ToSet(users) BY <3>1, <3>2, ItemToIs
    <3> QED BY <3>1, <3>3 DEF Item
  <2>3. CASE \E c \in Conns : Client(c)
    <3>1. UNCHANGED <<pc, loop, replies, users>> BY <2>3, ClientStepIs
    <3> QED BY <1>2, <2>1, <3>1
  <2>4. ThreadRun /\ pc' = "write" => GetSockForUser
    BY DEF ThreadRun, GrabNew, Announce, AllAnnounced, SkipUser, GetSockForUserFails, Write,
       WriteFails, NewuserHandled, UpdateEndmsgs, NextEntry, HandlePrivOrPart, HandleTopic,
       HandleMsgOfNobody, LogPriv, PartEnds, TopicEnds, Crashes, Dies, StartJob
  <2>5. UNCHANGED vars => UNCHANGED <<pc, loop, replies, users>> BY DEF vars
  <2> QED BY <1>2, <2>1, <2>2, <2>3, <2>4, <2>5 DEF Next, Terminated
<1> QED BY <1>1, <1>2 DEF ErasesAMember

(* Every step keeps OnlyResetsSeparate: remove_trace_of takes the user it  *)
(* is called for out of _users and the first broken socket out of _socks,  *)
(* which is its own or of another one that has been reset.                 *)
LEMMA OnlyResetsStep ==
  ASSUME TypeOK, Places, Phases, LoopOK, ErasesAMember, OnlyResetsSeparate, [Next]_vars
  PROVE  OnlyResetsSeparate'
<1> USE DEF clients, servlet, database, local
<1>1. \A c \in Conns : Broken(c) => Broken(c)' BY PeersStep
<1>2. ToSet(users) \subseteq Conns /\ ToSet(socks) \subseteq Conns
  BY ToSetIs DEF TypeOK, IsQueue
<1>3. CASE UNCHANGED <<users, socks>> BY <1>1, <1>2, <1>3 DEF OnlyResetsSeparate
<1>4. CASE Dies BY <1>4, NothingIn DEF Dies, OnlyResetsSeparate
<1>5. CASE \E c \in Conns : Client(c) BY <1>3, <1>5, ClientStepIs
<1>6. CASE GrabNew /\ ~Dies
  <2>1. ToSet(users \o waiting) = ToSet(users) \cup ToSet(waiting)
    BY ConcatIs DEF TypeOK, IsQueue
  <2>2. ToSet(socks \o waiting) = ToSet(socks) \cup ToSet(waiting)
    BY ConcatIs DEF TypeOK, IsQueue
  <2>3. users' = users \o waiting /\ socks' = socks \o waiting BY <1>6 DEF GrabNew
  <2> QED BY <1>1, <1>2, <2>1, <2>2, <2>3 DEF OnlyResetsSeparate
<1>7. ASSUME NEW c, RemoveTraceOf(c) PROVE OnlyResetsSeparate'
  <2>1. /\ ToSet(users') = ToSet(users) \ {c}
        /\ \/ (\A d \in ToSet(socks) : ~Broken(d) /\ d # c) /\ socks' = socks
           \/ \E d \in ToSet(socks) : (Broken(d) \/ d = c) /\ ToSet(socks') = ToSet(socks) \ {d}
    BY <1>7, TraceRemoved
  <2>2. CASE (\A d \in ToSet(socks) : ~Broken(d) /\ d # c) /\ socks' = socks
    BY <1>1, <1>2, <2>1, <2>2 DEF OnlyResetsSeparate
  <2>3. CASE \E d \in ToSet(socks) : (Broken(d) \/ d = c) /\ ToSet(socks') = ToSet(socks) \ {d}
    <3>1. PICK d \in ToSet(socks) : (Broken(d) \/ d = c) /\ ToSet(socks') = ToSet(socks) \ {d}
      BY <2>3
    <3>2. d \in Conns BY <1>2
    <3>3. CASE Broken(d) BY <1>1, <1>2, <2>1, <3>1, <3>2, <3>3 DEF OnlyResetsSeparate
    <3>4. CASE d = c BY <1>1, <1>2, <2>1, <3>1, <3>2, <3>4 DEF OnlyResetsSeparate
    <3> QED BY <3>1, <3>3, <3>4
  <2> QED BY <2>1, <2>2, <2>3
<1>8. ThreadRun \/ Terminated \/ UNCHANGED vars =>
         \/ UNCHANGED <<users, socks>> \/ Dies \/ (GrabNew /\ ~Dies)
         \/ \E c \in {Item.to, cursor} : RemoveTraceOf(c)
  BY DEF ThreadRun, Terminated, vars, Announce, AllAnnounced, GetSockForUser,
     GetSockForUserFails, SkipUser, Write, WriteFails, NewuserHandled, UpdateEndmsgs, NextEntry,
     HandlePrivOrPart, HandleTopic, HandleMsgOfNobody, LogPriv, PartEnds, TopicEnds, Crashes
<1> QED BY <1>3, <1>4, <1>5, <1>6, <1>7, <1>8 DEF Next

(* A topic is written once the row of the channel has it.                    *)
LEMMA TopicStep ==
  ASSUME TypeOK, Phases, LoopOK, RepliesOK, Memory, [Next]_vars, NEW c \in Conns,
         inbox'[c] # inbox[c], Last(inbox'[c]).kind \in {"TOPIC", "RPL_TOPIC"}
  PROVE  Last(inbox'[c]).val = dbTopic
<1> USE DEF clients, servlet, database, local
<1>1. Write
  <2>1. ~ \E d \in Conns : Client(d) BY ClientStepIs
  <2>2. ThreadRun \/ Terminated \/ UNCHANGED vars => Write \/ UNCHANGED inbox
    BY DEF ThreadRun, Terminated, vars, GrabNew, Announce, AllAnnounced, SkipUser,
       GetSockForUser, GetSockForUserFails, WriteFails, NewuserHandled, UpdateEndmsgs, NextEntry,
       HandlePrivOrPart, HandleTopic, HandleMsgOfNobody, LogPriv, PartEnds, TopicEnds
  <2> QED BY <2>1, <2>2 DEF Next
<1>2. /\ inbox' = [inbox EXCEPT ![Item.to] = Append(@, Written)] /\ pc = "write"
      /\ loop \o replies # <<>> /\ Item.msg # NoMsg
  BY <1>1 DEF Write, Phases
<1>3. c = Item.to /\ inbox'[c] = Append(inbox[c], Written) BY <1>2 DEF TypeOK
<1>4. Last(inbox'[c]) = Written
  <2>1. inbox[c] \in Seq(Msgs) /\ Written \in Msgs BY <1>2, WrittenIs DEF TypeOK
  <2> DEFINE a == Append(inbox[c], Written)
  <2>2. Len(a) = Len(inbox[c]) + 1 /\ a[Len(inbox[c]) + 1] = Written BY <2>1, AppendIs
  <2> HIDE DEF a
  <2>3. a[Len(a)] = Written BY <2>2
  <2> QED BY <1>3, <2>3 DEF a, Last
<1>5. Written = Item.msg BY <1>2, <1>4, WrittenIs
<1>6. topic = dbTopic BY <1>2 DEF Memory, Alive
<1>7. CASE loop # <<>>
  <2>1. Item.msg = job BY <1>2, <1>7, ItemToIs
  <2>2. job.kind # "RPL_TOPIC" BY <1>2 DEF Phases, ToAll
  <2> QED BY <1>4, <1>5, <1>6, <2>1, <2>2 DEF Memory
<1>8. CASE loop = <<>>
  <2>1. Item = replies[1] /\ 1 \in DOMAIN replies BY <1>2, <1>8, ItemIs
  <2>2. DOMAIN replies = 1..Len(replies) /\ Len(replies) \in Nat /\ Len(replies) <= 3
    BY ToSetIs DEF TypeOK, RepliesOK
  <2>3. Item.msg.kind = ReplyKinds[3 - Len(replies) + 1] BY <2>1 DEF RepliesOK
  <2>4. Len(replies) \in {1, 2, 3} BY <2>1, <2>2
  <2>5. Item.msg.kind # "TOPIC"
    <3>1. CASE Len(replies) = 1 BY <3>1, <2>3 DEF ReplyKinds
    <3>2. CASE Len(replies) = 2 BY <3>2, <2>3 DEF ReplyKinds
    <3>3. CASE Len(replies) = 3 BY <3>3, <2>3 DEF ReplyKinds
    <3> QED BY <2>4, <3>1, <3>2, <3>3
  <2> QED BY <1>4, <1>5, <1>6, <2>1, <2>5 DEF RepliesOK
<1> QED BY <1>7, <1>8
-----------------------------------------------------------------------------
(* What the clients have sent and the thread has not done with.            *)

(* All of a comes before all of b. *)
Before(a, b) == \A m \in ToSet(a), n \in ToSet(b) : Rank(m) < Rank(n)

(* A queue behind another is in order if both are, and the first comes     *)
(* before the second.                                                      *)
LEMMA OrderedConcat ==
  ASSUME NEW a \in Seq(Msgs), NEW b \in Seq(Msgs)
  PROVE  Ordered(a \o b) <=> Ordered(a) /\ Ordered(b) /\ Before(a, b)
<1> DEFINE u == a \o b
           m == Len(a)
           n == Len(b)
<1>1. /\ u \in Seq(Msgs) /\ m \in Nat /\ n \in Nat /\ DOMAIN u = 1..(m + n)
      /\ \A i \in 1..m : u[i] = a[i]
      /\ \A i \in 1..n : u[m + i] = b[i]
  BY ConcatIs
<1>2. /\ DOMAIN a = 1..m /\ DOMAIN b = 1..n
      /\ \A x : x \in ToSet(a) <=> \E i \in 1..m : a[i] = x
      /\ \A x : x \in ToSet(b) <=> \E i \in 1..n : b[i] = x
  BY ToSetIs
<1> HIDE DEF u, m, n
<1>3. ASSUME Ordered(u) PROVE Ordered(a) /\ Ordered(b) /\ Before(a, b)
  <2>1. \A i, j \in 1..(m + n) : i < j => Rank(u[i]) < Rank(u[j])
    BY <1>1, <1>3 DEF Ordered
  <2>2. ASSUME NEW i \in 1..m, NEW j \in 1..m, i < j PROVE Rank(a[i]) < Rank(a[j])
    <3>1. i \in 1..(m + n) /\ j \in 1..(m + n) /\ u[i] = a[i] /\ u[j] = a[j] BY <1>1
    <3>2. Rank(u[i]) < Rank(u[j]) BY <3>1, <2>1, <2>2
    <3> QED BY <3>1, <3>2
  <2>3. ASSUME NEW i \in 1..n, NEW j \in 1..n, i < j PROVE Rank(b[i]) < Rank(b[j])
    <3>1. /\ m + i \in 1..(m + n) /\ m + j \in 1..(m + n) /\ m + i < m + j
          /\ u[m + i] = b[i] /\ u[m + j] = b[j]
      BY <1>1, <2>3
    <3>2. Rank(u[m + i]) < Rank(u[m + j]) BY <3>1, <2>1
    <3> QED BY <3>1, <3>2
  <2>4. ASSUME NEW i \in 1..m, NEW j \in 1..n PROVE Rank(a[i]) < Rank(b[j])
    <3>1. /\ i \in 1..(m + n) /\ m + j \in 1..(m + n) /\ i < m + j
          /\ u[i] = a[i] /\ u[m + j] = b[j]
      BY <1>1
    <3>2. Rank(u[i]) < Rank(u[m + j]) BY <3>1, <2>1
    <3> QED BY <3>1, <3>2
  <2> QED BY <1>2, <2>2, <2>3, <2>4 DEF Ordered, Before
<1>4. ASSUME Ordered(a), Ordered(b), Before(a, b) PROVE Ordered(u)
  <2>1. ASSUME NEW i \in 1..(m + n), NEW j \in 1..(m + n), i < j PROVE Rank(u[i]) < Rank(u[j])
    <3>1. CASE j \in 1..m
      <4>1. i \in 1..m /\ u[i] = a[i] /\ u[j] = a[j] BY <1>1, <2>1, <3>1
      <4>2. Rank(a[i]) < Rank(a[j]) BY <4>1, <1>2, <1>4, <2>1, <3>1 DEF Ordered
      <4> QED BY <4>1, <4>2
    <3>2. CASE j \notin 1..m
      <4>1. j - m \in 1..n /\ m + (j - m) = j BY <1>1, <3>2
      <4>2. u[j] = b[j - m] BY <4>1, <1>1
      <4>3. CASE i \in 1..m
        <5>1. u[i] = a[i] BY <4>3, <1>1
        <5>2. Rank(a[i]) < Rank(b[j - m]) BY <4>1, <4>3, <1>2, <1>4 DEF Before
        <5> QED BY <4>2, <5>1, <5>2
      <4>4. CASE i \notin 1..m
        <5>1. i - m \in 1..n /\ m + (i - m) = i /\ i - m < j - m BY <1>1, <2>1, <4>4
        <5>2. u[i] = b[i - m] BY <5>1, <1>1
        <5>3. Rank(b[i - m]) < Rank(b[j - m]) BY <4>1, <5>1, <1>2, <1>4 DEF Ordered
        <5> QED BY <4>2, <5>2, <5>3
      <4> QED BY <4>3, <4>4
    <3> QED BY <3>1, <3>2
  <2> QED BY <2>1, <1>1 DEF Ordered
<1> QED BY <1>3, <1>4 DEF u

(* Queues with at most one message are in order. *)
LEMMA OrderedOne ==
  /\ Ordered(<<>>)
  /\ \A m \in Msgs : Ordered(<<m>>) /\ ToSet(<<m>>) = {m} /\ <<m>> \in Seq(Msgs)
<1>1. Ordered(<<>>) BY NothingIn DEF Ordered
<1>2. ASSUME NEW m \in Msgs
      PROVE  Ordered(<<m>>) /\ ToSet(<<m>>) = {m} /\ <<m>> \in Seq(Msgs)
  <2>1. <<m>> \in Seq(Msgs) /\ DOMAIN <<m>> = {1} /\ <<m>>[1] = m
    <3>1. <<m>> \in Seq(Msgs) /\ Len(<<m>>) = 1 /\ <<m>>[1] = m OBVIOUS
    <3>2. DOMAIN <<m>> = 1..1 BY <3>1, LenProperties
    <3> QED BY <3>1, <3>2
  <2> QED BY <2>1 DEF Ordered, ToSet
<1> QED BY <1>1, <1>2

(* A queue in three parts.                                                   *)
LEMMA QueueIs ==
  ASSUME NEW a \in Seq(Msgs), NEW b \in Seq(Msgs), NEW w \in Seq(Msgs)
  PROVE  LET q == (a \o b) \o w
         IN  /\ q \in Seq(Msgs) /\ ToSet(q) = ToSet(a) \cup ToSet(b) \cup ToSet(w)
             /\ Ordered(q) <=> /\ Ordered(a) /\ Ordered(b) /\ Ordered(w)
                               /\ Before(a, b) /\ Before(a, w) /\ Before(b, w)
<1>1. a \o b \in Seq(Msgs) /\ ToSet(a \o b) = ToSet(a) \cup ToSet(b) BY ConcatIs
<1>2. PICK ab \in Seq(Msgs) : ab = a \o b BY <1>1
<1>3. ab \o w \in Seq(Msgs) /\ ToSet(ab \o w) = ToSet(ab) \cup ToSet(w) BY ConcatIs
<1>4. Ordered(ab) <=> Ordered(a) /\ Ordered(b) /\ Before(a, b) BY <1>2, OrderedConcat
<1>5. Ordered(ab \o w) <=> Ordered(ab) /\ Ordered(w) /\ Before(ab, w) BY OrderedConcat
<1>6. Before(ab, w) <=> Before(a, w) /\ Before(b, w) BY <1>1, <1>2 DEF Before
<1> QED BY <1>1, <1>2, <1>3, <1>4, <1>5, <1>6

(* What a step can do to what is pending from c: leave it, with what was   *)
(* in hand or held dropped at most;                                        *)
Kept(c) ==
  /\ InHand(c)' \in {InHand(c), <<>>} /\ Held(c)' \in {Held(c), <<>>}
  /\ wire'[c] = wire[c]

(* add m at the end; *)
Grows(c, m) ==
  /\ InHand(c)' = InHand(c) /\ Held(c)' = Held(c)
  /\ wire'[c] = Append(wire[c], m)

(* read the socket; *)
IsRead(c) ==
  /\ InHand(c)' = InHand(c) /\ Held(c)' = Held(c) \o wire[c] /\ wire'[c] = <<>>

(* take the next message of the entry in hand; *)
IsStarted(c) ==
  /\ InHand(c) = <<>> /\ Held(c) # <<>>
  /\ InHand(c)' = <<Head(Held(c))>> /\ Held(c)' = Tail(Held(c)) /\ wire'[c] = wire[c]

(* or announce c. *)
IsJoining(c) ==
  /\ Announce /\ job' = Msg("JOIN", c, 0) /\ c \in ToSet(newusers)
  /\ InHand(c)' = <<job'>> /\ Held(c)' = Held(c) /\ wire'[c] = wire[c]

(* There is no other way. *)
LEMMA PartsStep ==
  ASSUME TypeOK, Phases, PendingOK, [Next]_vars, NEW c \in Conns
  PROVE  \/ Kept(c)
         \/ \E kind \in {"PRIVMSG", "TOPIC"} :
              ClientSends(c, kind) /\ Grows(c, Msg(kind, c, sent + 1))
         \/ ClientParts(c) /\ Grows(c, Msg("PART", c, 0))
         \/ UpdateEndmsgs /\ IsRead(c)
         \/ \E kind \in {"PRIVMSG", "TOPIC", "PART"} : ToHandle(kind) /\ IsStarted(c)
         \/ IsJoining(c)
<1> USE DEF clients, servlet, database, local
<1>0. c # 0 /\ wire \in [Conns -> Seq(Msgs)] BY ConnsAssumption DEF TypeOK
<1>1. CASE UNCHANGED <<job, cursor, msgList, endMsgs, wire>>
  BY <1>1 DEF Kept, InHand, Held
<1>2. CASE \E d \in Conns : Client(d)
  <2>1. PICK d \in Conns : Client(d) BY <1>2
  <2>2. UNCHANGED <<job, cursor, msgList, endMsgs>> BY <2>1, ClientStepIs
  <2>3. InHand(c)' = InHand(c) /\ Held(c)' = Held(c) BY <2>2 DEF InHand, Held
  <2>4. CASE wire' = wire BY <1>1, <2>2, <2>4
  <2>5. ASSUME NEW kind \in {"PRIVMSG", "TOPIC"}, ClientSends(d, kind)
        PROVE  \/ Kept(c)
               \/ ClientSends(c, kind) /\ Grows(c, Msg(kind, c, sent + 1))
    <3>1. wire' = [wire EXCEPT ![d] = Append(@, Msg(kind, d, sent + 1))] BY <2>5 DEF ClientSends
    <3>2. CASE d = c BY <1>0, <2>3, <2>5, <3>1, <3>2 DEF Grows
    <3>3. CASE d # c BY <1>0, <2>3, <3>1, <3>3 DEF Kept
    <3> QED BY <3>2, <3>3
  <2>6. CASE ClientParts(d)
    <3>1. wire' = [wire EXCEPT ![d] = Append(@, Msg("PART", d, 0))] BY <2>6 DEF ClientParts
    <3>2. CASE d = c BY <1>0, <2>3, <2>6, <3>1, <3>2 DEF Grows
    <3>3. CASE d # c BY <1>0, <2>3, <3>1, <3>3 DEF Kept
    <3> QED BY <3>2, <3>3
  <2>7. Join(d) \/ ClientCloses(d) \/ Reset(d) => wire' = wire
    BY DEF Join, ClientCloses, Reset
  <2> QED BY <2>1, <2>4, <2>5, <2>6, <2>7 DEF Client
<1>3. CASE Dies /\ UNCHANGED wire
  <2>1. InHand(c)' = <<>> BY <1>3, MsgIs DEF Dies, InHand, ToAll
  <2>2. Held(c)' = <<>> BY <1>0, <1>3, NothingIn DEF Dies, Held
  <2> QED BY <1>3, <2>1, <2>2 DEF Kept
<1>4. CASE GrabNew /\ ~Dies
  <2>1. /\ UNCHANGED <<job, cursor, msgList, wire>>
        /\ endMsgs' = [d \in DOMAIN endMsgs \cup ToSet(waiting) |->
                         IF d \in DOMAIN endMsgs THEN endMsgs[d] ELSE <<>>]
    BY <1>4 DEF GrabNew
  <2>2. InHand(c)' = InHand(c) BY <2>1 DEF InHand
  <2>3. Held(c)' = Held(c) BY <2>1 DEF Held
  <2> QED BY <2>1, <2>2, <2>3 DEF Kept
<1>5. CASE Announce
  <2>0. PICK new : new = Head(newusers) OBVIOUS
  <2>1. /\ UNCHANGED <<endMsgs, cursor, msgList, wire>> /\ job' = Msg("JOIN", new, 0)
        /\ newusers # <<>> /\ job = NoMsg
    BY <1>5, <2>0 DEF Announce, Phases
  <2>2. new \in ToSet(newusers) BY <2>0, <2>1, TailIs DEF TypeOK, IsQueue
  <2>3. Held(c)' = Held(c) BY <2>1 DEF Held
  <2>4. CASE c = new
    <3>1. InHand(c)' = <<job'>> BY <2>1, <2>4, MsgIs DEF InHand, ToAll
    <3> QED BY <1>5, <2>1, <2>2, <2>3, <2>4, <3>1 DEF IsJoining
  <2>5. CASE c # new
    <3>1. InHand(c)' = <<>> BY <2>1, <2>5, MsgIs DEF InHand
    <3> QED BY <2>1, <2>3, <3>1 DEF Kept
  <2> QED BY <2>4, <2>5
<1>6. ASSUME NEW d, RemoveTraceOf(d), UNCHANGED <<cursor, msgList, wire>>, job' \in {job, NoMsg}
      PROVE  Kept(c)
  <2>1. /\ DOMAIN endMsgs' = DOMAIN endMsgs \ {d}
        /\ \A e \in DOMAIN endMsgs \ {d} : endMsgs'[e] = endMsgs[e]
    BY <1>6, TraceRemoved
  <2>2. Held(c)' \in {Held(c), <<>>} BY <1>6, <2>1 DEF Held
  <2>3. InHand(c)' \in {InHand(c), <<>>}
    <3>1. NoMsg.kind \notin ToAll BY MsgIs DEF ToAll
    <3> QED BY <1>6, <3>1 DEF InHand
  <2> QED BY <1>6, <2>2, <2>3 DEF Kept
<1>7. CASE WriteFails /\ ~Crashes BY <1>6, <1>7 DEF WriteFails
<1>8. CASE PartEnds /\ ~Crashes /\ ~Dies BY <1>6, <1>8 DEF PartEnds
<1>9. ASSUME job' = NoMsg, UNCHANGED <<cursor, msgList, endMsgs, wire>> PROVE Kept(c)
  <2>1. NoMsg.kind \notin ToAll BY MsgIs DEF ToAll
  <2> QED BY <1>9, <2>1 DEF Kept, InHand, Held
<1>10. CASE NewuserHandled \/ ((LogPriv \/ TopicEnds) /\ ~Dies /\ ~Crashes)
  BY <1>9, <1>10 DEF NewuserHandled, LogPriv, TopicEnds
<1>11. CASE UpdateEndmsgs /\ ~Dies
  <2>1. /\ endMsgs' = [d \in DOMAIN endMsgs \cup ToSet(socks) |->
                           (IF d \in DOMAIN endMsgs THEN endMsgs[d] ELSE <<>>) \o
                           (IF d \in ToSet(socks) THEN wire[d] ELSE <<>>)]
        /\ wire' = [d \in Conns |-> IF d \in ToSet(socks) THEN <<>> ELSE wire[d]]
        /\ UNCHANGED <<job, cursor, msgList>> /\ cursor = 0
    BY <1>11 DEF UpdateEndmsgs, Phases
  <2>2. InHand(c)' = InHand(c) BY <2>1 DEF InHand
  <2>3. Held(c) = IF c \in DOMAIN endMsgs THEN endMsgs[c] ELSE <<>>
    BY <1>0, <2>1 DEF Held
  <2>4. CASE c \in ToSet(socks)
    <3>1. Held(c)' = Held(c) \o wire[c] /\ wire'[c] = <<>> BY <1>0, <2>1, <2>3, <2>4 DEF Held
    <3> QED BY <1>11, <2>2, <3>1 DEF IsRead
  <2>5. CASE c \notin ToSet(socks)
    <3>1. wire'[c] = wire[c] BY <2>1, <2>5
    <3>2. CASE c \in DOMAIN endMsgs
      <4>1. Held(c)' = endMsgs[c] \o <<>> BY <1>0, <2>1, <2>5, <3>2 DEF Held
      <4>2. endMsgs[c] \o <<>> = endMsgs[c] BY <3>2, ConcatEmptySeq DEF TypeOK
      <4> QED BY <2>2, <2>3, <3>1, <3>2, <4>1, <4>2 DEF Kept
    <3>3. CASE c \notin DOMAIN endMsgs
      <4>1. Held(c)' = <<>> BY <1>0, <2>1, <2>5, <3>3 DEF Held
      <4> QED BY <2>2, <3>1, <4>1 DEF Kept
    <3> QED BY <3>2, <3>3
  <2> QED BY <2>4, <2>5
<1>12. CASE NextEntry
  <2> DEFINE cleared == IF cursor \in DOMAIN endMsgs
                        THEN [endMsgs EXCEPT ![cursor] = <<>>] ELSE endMsgs
             ahead   == {d \in DOMAIN cleared : d > cursor /\ cleared[d] # <<>>}
  <2>1. /\ endMsgs' = cleared /\ msgList = <<>> /\ UNCHANGED <<job, wire>>
        /\ \/ cursor' = 0
           \/ ahead # {} /\ cursor' = Min(ahead) /\ msgList' = cleared[Min(ahead)]
    BY <1>12 DEF NextEntry
  <2>2. /\ DOMAIN cleared = DOMAIN endMsgs /\ DOMAIN endMsgs \subseteq Conns
        /\ \A d \in DOMAIN cleared : cleared[d] = IF d = cursor THEN <<>> ELSE endMsgs[d]
    BY DEF TypeOK
  <2>3. ahead \subseteq DOMAIN cleared /\ \A d \in ahead : d > cursor OBVIOUS
  <2> HIDE DEF cleared, ahead
  <2>4. ahead # {} => Min(ahead) \in ahead BY <2>2, <2>3, MinWorks, ConnsAssumption
  <2>5. \/ cursor' = 0
        \/ (cursor' \in DOMAIN cleared /\ cursor' > cursor /\ msgList' = cleared[cursor'])
    BY <2>1, <2>3, <2>4
  <2>6. cursor \in Nat /\ Conns \subseteq Nat BY ConnsAssumption DEF TypeOK
  <2>7. InHand(c)' = InHand(c) BY <2>1 DEF InHand
  <2>8. CASE c = cursor
    <3>1. cursor' # c BY <1>0, <2>2, <2>5, <2>6, <2>8
    <3>2. Held(c)' = IF c \in DOMAIN cleared THEN cleared[c] ELSE <<>>
      BY <2>1, <3>1 DEF Held
    <3> QED BY <2>1, <2>2, <2>7, <2>8, <3>2 DEF Kept
  <2>9. CASE c # cursor
    <3>1. Held(c) = IF c \in DOMAIN cleared THEN cleared[c] ELSE <<>>
      BY <2>2, <2>9 DEF Held
    <3>2. CASE c = cursor'
      <4>1. Held(c)' = cleared[c] /\ c \in DOMAIN cleared BY <1>0, <2>5, <3>2 DEF Held
      <4> QED BY <2>1, <2>7, <3>1, <4>1 DEF Kept
    <3>3. CASE c # cursor'
      <4>1. Held(c)' = IF c \in DOMAIN cleared THEN cleared[c] ELSE <<>>
        BY <2>1, <3>3 DEF Held
      <4> QED BY <2>1, <2>7, <3>1, <4>1 DEF Kept
    <3> QED BY <3>2, <3>3
  <2> QED BY <2>8, <2>9
<1>13. ASSUME NEW kind \in {"PRIVMSG", "TOPIC", "PART"}, ToHandle(kind), NEW skip,
              StartJob(skip), UNCHANGED <<cursor, endMsgs, wire>>
       PROVE  Kept(c) \/ (ToHandle(kind) /\ IsStarted(c))
  <2>1. /\ pc = "handle" /\ msgList # <<>> /\ job' = Head(msgList) /\ msgList' = Tail(msgList)
        /\ job = NoMsg
    BY <1>13 DEF ToHandle, StartJob, Phases
  <2>2. Head(msgList).of = cursor /\ Head(msgList).kind \in ToAll BY <2>1, HeadIs
  <2>3. NoMsg.kind \notin ToAll BY MsgIs DEF ToAll
  <2>4. InHand(c) = <<>> BY <2>1, <2>3 DEF InHand
  <2>5. CASE c = cursor
    <3>1. Held(c) = msgList /\ Held(c)' = Tail(msgList) BY <1>13, <2>1, <2>5 DEF Held
    <3>2. InHand(c)' = <<Head(msgList)>> BY <2>1, <2>2, <2>5 DEF InHand
    <3> QED BY <1>13, <2>1, <2>4, <3>1, <3>2 DEF IsStarted
  <2>6. CASE c # cursor
    <3>1. Held(c)' = Held(c) BY <1>13, <2>6 DEF Held
    <3>2. InHand(c)' = <<>> BY <2>1, <2>2, <2>6 DEF InHand
    <3> QED BY <1>13, <3>1, <3>2 DEF Kept
  <2> QED BY <2>5, <2>6
<1>14. CASE HandlePrivOrPart
  <2>1. PICK kind \in {"PRIVMSG", "PART"} : ToHandle(kind) BY <1>14 DEF HandlePrivOrPart
  <2> QED BY <1>13, <1>14, <2>1 DEF HandlePrivOrPart
<1>15. CASE HandleTopic /\ ~Dies BY <1>13, <1>15 DEF HandleTopic
<1>16. UpdateEndmsgs /\ Dies => UNCHANGED wire
  BY DEF UpdateEndmsgs, Dies
<1>17. ThreadRun \/ Terminated \/ UNCHANGED vars =>
         \/ UNCHANGED <<job, cursor, msgList, endMsgs, wire>> \/ (Dies /\ UNCHANGED wire)
         \/ (GrabNew /\ ~Dies) \/ Announce \/ (WriteFails /\ ~Crashes)
         \/ (PartEnds /\ ~Crashes /\ ~Dies) \/ NewuserHandled
         \/ ((LogPriv \/ TopicEnds) /\ ~Dies /\ ~Crashes) \/ (UpdateEndmsgs /\ ~Dies)
         \/ NextEntry \/ HandlePrivOrPart \/ (HandleTopic /\ ~Dies)
  BY <1>16 DEF ThreadRun, Terminated, vars, GrabNew, AllAnnounced, SkipUser, GetSockForUser,
     GetSockForUserFails, Write, WriteFails, HandleTopic, HandleMsgOfNobody,
     LogPriv, PartEnds, TopicEnds, Crashes
<1> QED
  BY <1>1, <1>2, <1>3, <1>4, <1>5, <1>7, <1>8, <1>10, <1>11, <1>12, <1>14, <1>15, <1>17
  DEF Next
(* The parts of a queue that are read, and the message that is appended.     *)
LEMMA MovedAlong ==
  ASSUME NEW a \in Seq(Msgs), NEW b \in Seq(Msgs), NEW w \in Seq(Msgs), Ordered((a \o b) \o w)
  PROVE  /\ \A a2 \in {a, <<>>}, b2 \in {b, <<>>} :
              /\ Ordered((a2 \o b2) \o w)
              /\ ToSet((a2 \o b2) \o w) \subseteq ToSet((a \o b) \o w)
         /\ /\ Ordered((a \o (b \o w)) \o <<>>)
            /\ ToSet((a \o (b \o w)) \o <<>>) = ToSet((a \o b) \o w)
         /\ a = <<>> /\ b # <<>> =>
              /\ Ordered((<<Head(b)>> \o Tail(b)) \o w)
              /\ ToSet((<<Head(b)>> \o Tail(b)) \o w) = ToSet((a \o b) \o w)
<1>1. /\ Ordered(a) /\ Ordered(b) /\ Ordered(w) /\ Before(a, b) /\ Before(a, w) /\ Before(b, w)
      /\ ToSet((a \o b) \o w) = ToSet(a) \cup ToSet(b) \cup ToSet(w)
  BY QueueIs
<1>2. /\ <<>> \in Seq(Msgs) /\ ToSet(<<>>) = {} /\ Ordered(<<>>)
      /\ \A s : Before(<<>>, s) /\ Before(s, <<>>)
  BY NothingIn, OrderedOne DEF Before
<1>3. ASSUME NEW a2 \in {a, <<>>}, NEW b2 \in {b, <<>>}
      PROVE  /\ Ordered((a2 \o b2) \o w)
             /\ ToSet((a2 \o b2) \o w) \subseteq ToSet((a \o b) \o w)
  <2>1. /\ a2 \in Seq(Msgs) /\ Ordered(a2) /\ ToSet(a2) \subseteq ToSet(a) /\ Before(a2, w)
        /\ b2 \in Seq(Msgs) /\ Ordered(b2) /\ ToSet(b2) \subseteq ToSet(b) /\ Before(b2, w)
        /\ Before(a2, b2)
    BY <1>1, <1>2
  <2>2. /\ Ordered((a2 \o b2) \o w)
        /\ ToSet((a2 \o b2) \o w) = ToSet(a2) \cup ToSet(b2) \cup ToSet(w)
    BY <1>1, <2>1, QueueIs
  <2> QED BY <1>1, <2>1, <2>2
<1>4. /\ Ordered((a \o (b \o w)) \o <<>>)
      /\ ToSet((a \o (b \o w)) \o <<>>) = ToSet((a \o b) \o w)
  <2>1. b \o w \in Seq(Msgs) /\ ToSet(b \o w) = ToSet(b) \cup ToSet(w) BY ConcatIs
  <2>2. Ordered(b \o w) BY <1>1, OrderedConcat
  <2>3. PICK bw \in Seq(Msgs) : bw = b \o w BY <2>1
  <2>4. Before(a, bw) BY <1>1, <2>1, <2>3 DEF Before
  <2>5. PICK e \in Seq(Msgs) : e = <<>> BY <1>2
  <2>6. Ordered(bw) /\ Ordered(e) /\ Before(a, e) /\ Before(bw, e) /\ ToSet(e) = {}
    BY <1>2, <2>2, <2>3, <2>5
  <2>7. /\ Ordered((a \o bw) \o e)
        /\ ToSet((a \o bw) \o e) = ToSet(a) \cup ToSet(bw) \cup ToSet(e)
    BY <1>1, <2>4, <2>6, QueueIs
  <2> QED BY <1>1, <2>1, <2>3, <2>5, <2>6, <2>7
<1>5. ASSUME a = <<>>, b # <<>>
      PROVE  /\ Ordered((<<Head(b)>> \o Tail(b)) \o w)
             /\ ToSet((<<Head(b)>> \o Tail(b)) \o w) = ToSet((a \o b) \o w)
  <2>1. Head(b) \in Msgs /\ Tail(b) \in Seq(Msgs) /\ ToSet(b) = {Head(b)} \cup ToSet(Tail(b))
    BY <1>5, TailIs
  <2>2. b = <<Head(b)>> \o Tail(b) BY <1>5, HeadTailProperties
  <2>3. PICK h \in Seq(Msgs), t \in Seq(Msgs) :
          h = <<Head(b)>> /\ t = Tail(b) /\ Ordered(h) /\ ToSet(h) = {Head(b)}
    BY <2>1, OrderedOne
  <2>4. Ordered(h) /\ Ordered(t) /\ Before(h, t)
    <3>1. Ordered(h \o t) BY <1>1, <2>2, <2>3
    <3> QED BY <3>1, OrderedConcat
  <2>5. Before(h, w) /\ Before(t, w) BY <1>1, <2>1, <2>3 DEF Before
  <2>6. Ordered((h \o t) \o w) /\ ToSet((h \o t) \o w) = ToSet(h) \cup ToSet(t) \cup ToSet(w)
    BY <1>1, <2>4, <2>5, QueueIs
  <2> QED BY <1>1, <1>2, <1>5, <2>1, <2>3, <2>6
<1> QED BY <1>3, <1>4, <1>5

(* A queue stays in order when a message is added that comes after all     *)
(* that is in it.                                                          *)
LEMMA Appended ==
  ASSUME NEW a \in Seq(Msgs), NEW b \in Seq(Msgs), NEW w \in Seq(Msgs), Ordered((a \o b) \o w),
         NEW m \in Msgs, \A n \in ToSet((a \o b) \o w) : Rank(n) < Rank(m)
  PROVE  /\ Ordered((a \o b) \o Append(w, m))
         /\ ToSet((a \o b) \o Append(w, m)) = ToSet((a \o b) \o w) \cup {m}
<1>1. /\ Ordered(a) /\ Ordered(b) /\ Ordered(w) /\ Before(a, b) /\ Before(a, w) /\ Before(b, w)
      /\ ToSet((a \o b) \o w) = ToSet(a) \cup ToSet(b) \cup ToSet(w)
  BY QueueIs
<1>2. PICK s \in Seq(Msgs) : s = <<m>> /\ Ordered(s) /\ ToSet(s) = {m} BY OrderedOne
<1>3. Append(w, m) = w \o s BY <1>2, AppendIsConcat
<1>4. w \o s \in Seq(Msgs) /\ ToSet(w \o s) = ToSet(w) \cup ToSet(s) BY ConcatIs
<1>5. Before(a, s) /\ Before(b, s) /\ Before(w, s) BY <1>1, <1>2 DEF Before
<1>6. Ordered(w \o s) BY <1>1, <1>2, <1>5, OrderedConcat
<1>7. PICK ws \in Seq(Msgs) : ws = w \o s BY <1>4
<1>8. Before(a, ws) /\ Before(b, ws) BY <1>1, <1>4, <1>5, <1>7 DEF Before
<1>9. Ordered(ws) /\ Ordered(a) /\ Ordered(b) /\ Before(a, b) BY <1>1, <1>6, <1>7
<1>10. Ordered((a \o b) \o ws) /\ ToSet((a \o b) \o ws) = ToSet(a) \cup ToSet(b) \cup ToSet(ws)
  BY <1>8, <1>9, QueueIs
<1> QED BY <1>1, <1>2, <1>3, <1>4, <1>7, <1>10

(* What becomes of what is pending from c: it stays in order, and what is    *)
(* new is what c says or its JOIN.                                           *)
LEMMA PendingStep ==
  ASSUME TypeOK, TypeOK', Phases, Silent, SpeaksAfter, PendingOK, [Next]_vars, NEW c \in Conns
  PROVE  /\ Ordered(Pending(c)')
         /\ \/ ToSet(Pending(c)') \subseteq ToSet(Pending(c))
            \/ \E kind \in {"PRIVMSG", "TOPIC"} :
                 /\ ClientSends(c, kind)
                 /\ ToSet(Pending(c)') = ToSet(Pending(c)) \cup {Msg(kind, c, sent + 1)}
            \/ /\ ClientParts(c)
               /\ ToSet(Pending(c)') = ToSet(Pending(c)) \cup {Msg("PART", c, 0)}
            \/ /\ Announce /\ job' = Msg("JOIN", c, 0) /\ c \in ToSet(newusers)
               /\ ToSet(Pending(c)') = {job'}
<1>1. PICK a \in Seq(Msgs), b \in Seq(Msgs), w \in Seq(Msgs) :
        a = InHand(c) /\ b = Held(c) /\ w = wire[c] /\ Pending(c) = (a \o b) \o w
  BY PendingIs DEF Pending
<1>2. Ordered((a \o b) \o w) /\ ToSet((a \o b) \o w) = ToSet(Pending(c)) BY <1>1 DEF PendingOK
<1>3. Pending(c)' = (InHand(c)' \o Held(c)') \o wire'[c] BY DEF Pending
<1>4. \A m \in ToSet(Pending(c)) :
        /\ m.kind \in ToAll
        /\ Word(m) => m.val \in 1..sent
        /\ m.kind = "PART" => peer[c] # "open"
  BY DEF PendingOK
<1>5. CASE Kept(c)
  <2>1. PICK a2 \in {a, <<>>}, b2 \in {b, <<>>} : a2 = InHand(c)' /\ b2 = Held(c)'
    BY <1>1, <1>5 DEF Kept
  <2>2. wire'[c] = w BY <1>1, <1>5 DEF Kept
  <2>3. Ordered((a2 \o b2) \o w) /\ ToSet((a2 \o b2) \o w) \subseteq ToSet((a \o b) \o w)
    BY <1>2, MovedAlong
  <2> QED BY <1>2, <1>3, <2>1, <2>2, <2>3
<1>6. ASSUME NEW m \in Msgs, Grows(c, m), \A n \in ToSet(Pending(c)) : Rank(n) < Rank(m)
      PROVE  Ordered(Pending(c)') /\ ToSet(Pending(c)') = ToSet(Pending(c)) \cup {m}
  <2>1. InHand(c)' = a /\ Held(c)' = b /\ wire'[c] = Append(w, m) BY <1>1, <1>6 DEF Grows
  <2>2. \A n \in ToSet((a \o b) \o w) : Rank(n) < Rank(m) BY <1>2, <1>6
  <2>3. Ordered((a \o b) \o w) BY <1>2
  <2>4. /\ Ordered((a \o b) \o Append(w, m))
        /\ ToSet((a \o b) \o Append(w, m)) = ToSet((a \o b) \o w) \cup {m}
    BY <2>2, <2>3, Appended
  <2> QED BY <1>2, <1>3, <2>1, <2>4
<1>7. sent \in Nat /\ sent <= MaxMsgs /\ MaxMsgs \in Nat BY BoundsAssumption DEF TypeOK
<1>8. ASSUME NEW kind \in {"PRIVMSG", "TOPIC"}, ClientSends(c, kind),
             Grows(c, Msg(kind, c, sent + 1))
      PROVE  /\ Ordered(Pending(c)')
             /\ ToSet(Pending(c)') = ToSet(Pending(c)) \cup {Msg(kind, c, sent + 1)}
  <2>1. peer[c] = "open" /\ sent < MaxMsgs BY <1>8 DEF ClientSends
  <2>2. PICK m \in Msgs : m = Msg(kind, c, sent + 1) /\ Rank(m) = sent + 1
    <3>1. Msg(kind, c, sent + 1) \in Msgs BY <1>7, <2>1, MsgIs DEF Kinds
    <3>2. Rank(Msg(kind, c, sent + 1)) = sent + 1 BY MsgIs DEF Rank
    <3> QED BY <3>1, <3>2
  <2>3. \A n \in ToSet(Pending(c)) : Rank(n) < Rank(m)
    BY <1>4, <1>7, <2>1, <2>2 DEF Rank, Word, ToAll
  <2> QED BY <1>6, <1>8, <2>2, <2>3
<1>9. ASSUME ClientParts(c), Grows(c, Msg("PART", c, 0))
      PROVE  /\ Ordered(Pending(c)')
             /\ ToSet(Pending(c)') = ToSet(Pending(c)) \cup {Msg("PART", c, 0)}
  <2>1. peer[c] = "open" BY <1>9 DEF ClientParts
  <2>2. PICK m \in Msgs : m = Msg("PART", c, 0) /\ Rank(m) = MaxMsgs + 1
    <3>1. Msg("PART", c, 0) \in Msgs BY <1>7, MsgIs DEF Kinds
    <3>2. Rank(Msg("PART", c, 0)) = MaxMsgs + 1 BY MsgIs DEF Rank
    <3> QED BY <3>1, <3>2
  <2>3. \A n \in ToSet(Pending(c)) : Rank(n) < Rank(m)
    BY <1>4, <1>7, <2>1, <2>2 DEF Rank, Word, ToAll
  <2> QED BY <1>6, <1>9, <2>2, <2>3
<1>10. CASE IsRead(c)
  <2>1. InHand(c)' = a /\ Held(c)' = b \o w /\ wire'[c] = <<>> BY <1>1, <1>10 DEF IsRead
  <2>2. /\ Ordered((a \o (b \o w)) \o <<>>)
        /\ ToSet((a \o (b \o w)) \o <<>>) = ToSet((a \o b) \o w)
    BY <1>2, MovedAlong
  <2> QED BY <1>2, <1>3, <2>1, <2>2
<1>11. CASE IsStarted(c)
  <2>1. /\ InHand(c)' = <<Head(b)>> /\ Held(c)' = Tail(b) /\ wire'[c] = w
        /\ a = <<>> /\ b # <<>>
    BY <1>1, <1>11 DEF IsStarted
  <2>2. /\ Ordered((<<Head(b)>> \o Tail(b)) \o w)
        /\ ToSet((<<Head(b)>> \o Tail(b)) \o w) = ToSet((a \o b) \o w)
    BY <1>2, <2>1, MovedAlong
  <2> QED BY <1>2, <1>3, <2>1, <2>2
<1>12. CASE IsJoining(c)
  <2>1. /\ Announce /\ job' = Msg("JOIN", c, 0) /\ c \in ToSet(newusers)
        /\ InHand(c)' = <<job'>> /\ Held(c)' = Held(c) /\ wire'[c] = wire[c]
    BY <1>12 DEF IsJoining
  <2>2. Held(c) = <<>> /\ wire[c] = <<>>
    <3>1. inbox[c] = <<>> BY <2>1 DEF Silent, Unannounced
    <3>2. Len(inbox[c]) = 0 BY <3>1, EmptySeq
    <3> QED BY <3>2 DEF SpeaksAfter
  <2>3. PICK m \in Msgs : m = job' BY DEF TypeOK
  <2>4. Ordered(<<m>>) /\ ToSet(<<m>>) = {m} /\ <<m>> \in Seq(Msgs) BY OrderedOne
  <2>5. (<<m>> \o <<>>) \o <<>> = <<m>> BY <2>4, ConcatEmptySeq
  <2>6. Pending(c)' = <<m>> BY <1>3, <2>1, <2>2, <2>3, <2>5
  <2> QED BY <2>1, <2>3, <2>4, <2>6
<1> QED BY <1>5, <1>8, <1>9, <1>10, <1>11, <1>12, PartsStep
-----------------------------------------------------------------------------
(* What has been delivered and what is logged.                             *)

(* A message is delivered by a write, and it is the job or a reply.          *)
LEMMA InboxStep ==
  ASSUME TypeOK, Phases, LoopOK, RepliesOK, ErasesAMember, [Next]_vars
  PROVE  \/ inbox' = inbox
         \/ /\ Write /\ Written \in Msgs /\ job.kind \in ToAll
            /\ Item.to \in Conns /\ Item.to \in ToSet(users) /\ Item.to \notin ToSet(newusers)
            /\ inbox' = [inbox EXCEPT ![Item.to] = Append(@, Written)]
            /\ peer[Item.to] \in {"open", "parting"} /\ peer' = peer
            /\ loop # <<>> => Written = job
            /\ loop = <<>> => /\ job.kind = "JOIN" /\ Item.to = job.of /\ Written.of = job.of
                              /\ Written.kind = ReplyKinds[4 - Len(replies)]
                              /\ Len(replies) \in 1..3
                              /\ Written.kind = "RPL_TOPIC" => Written.val = topic
                              /\ Written.kind = "RPL_NAMREPLY" => Written.names = names
<1> USE DEF clients, servlet, database, local
<1>1. CASE \E c \in Conns : Client(c) BY <1>1, ClientStepIs
<1>2. ThreadRun \/ Terminated \/ UNCHANGED vars => Write \/ UNCHANGED inbox
  BY DEF ThreadRun, Terminated, vars, GrabNew, Announce, AllAnnounced, SkipUser,
     GetSockForUser, GetSockForUserFails, WriteFails, NewuserHandled, UpdateEndmsgs, NextEntry,
     HandlePrivOrPart, HandleTopic, HandleMsgOfNobody, LogPriv, PartEnds, TopicEnds
<1>3. CASE Write /\ inbox' # inbox
  <2>1. /\ pc = "write" /\ loop \o replies # <<>> /\ Item.msg # NoMsg /\ job.kind \in ToAll
        /\ inbox' = [inbox EXCEPT ![Item.to] = Append(@, Written)]
        /\ peer[Item.to] \in {"open", "parting"} /\ peer' = peer
    BY <1>3 DEF Write, Phases
  <2>2. /\ Item.to \in Conns /\ Item.to \notin ToSet(newusers)
        /\ loop # <<>> => Item.msg = job
        /\ loop = <<>> => job.kind = "JOIN" /\ Item.to = job.of
    BY <2>1, ItemToIs
  <2>3. /\ Written \in Msgs /\ Written.kind = Item.msg.kind /\ Written.of = Item.msg.of
        /\ Written.val = Item.msg.val
        /\ Written.kind # "RPL_NAMREPLY" => Written = Item.msg
        /\ Written.kind = "RPL_NAMREPLY" => Written.names = names
    BY <2>1, WrittenIs
  <2>4. loop # <<>> => Written = job BY <2>1, <2>2, <2>3 DEF ToAll
  <2>5. ASSUME loop = <<>>
        PROVE  /\ Written.of = job.of /\ Written.kind = ReplyKinds[4 - Len(replies)]
               /\ Len(replies) \in 1..3
               /\ Written.kind = "RPL_TOPIC" => Written.val = topic
    <3>1. Item = replies[1] /\ 1 \in DOMAIN replies BY <2>1, <2>5, ItemIs
    <3>2. DOMAIN replies = 1..Len(replies) /\ Len(replies) \in Nat /\ Len(replies) <= 3
      BY ToSetIs DEF TypeOK, RepliesOK
    <3>3. /\ Item.msg.of = job.of /\ Item.msg.kind = ReplyKinds[3 - Len(replies) + 1]
          /\ Item.msg.kind = "RPL_TOPIC" => Item.msg.val = topic
      BY <3>1 DEF RepliesOK
    <3>4. 3 - Len(replies) + 1 = 4 - Len(replies) /\ Len(replies) \in 1..3 BY <3>1, <3>2
    <3> QED BY <2>3, <3>3, <3>4
  <2>6. Item.to \in ToSet(users) BY <2>1 DEF ErasesAMember
  <2> QED BY <1>3, <2>1, <2>2, <2>3, <2>4, <2>5, <2>6
<1> QED BY <1>1, <1>2, <1>3 DEF Next

(* What is in an inbox after a step was there before, or was written.        *)
LEMMA InboxIs ==
  ASSUME TypeOK, Phases, LoopOK, RepliesOK, ErasesAMember, [Next]_vars, NEW c \in Conns
  PROVE  /\ Len(inbox[c]) \in Nat /\ Len(inbox'[c]) \in Nat /\ Len(inbox'[c]) >= Len(inbox[c])
         /\ inbox'[c] # inbox[c] => /\ Write /\ c = Item.to /\ job.kind \in ToAll
                                    /\ inbox'[c] = Append(inbox[c], Written)
         /\ \A m \in ToSet(inbox'[c]) :
              m \in ToSet(inbox[c]) \/ (Write /\ c = Item.to /\ m = Written /\ inbox'[c] # inbox[c])
<1>1. inbox[c] \in Seq(Msgs) /\ Len(inbox[c]) \in Nat BY ToSetIs DEF TypeOK
<1>2. CASE inbox'[c] = inbox[c] BY <1>1, <1>2
<1>3. CASE inbox'[c] # inbox[c]
  <2>1. /\ Write /\ Written \in Msgs /\ job.kind \in ToAll /\ Item.to \in Conns
        /\ inbox' = [inbox EXCEPT ![Item.to] = Append(@, Written)]
    BY <1>3, InboxStep
  <2>2. c = Item.to /\ inbox'[c] = Append(inbox[c], Written) BY <1>3, <2>1 DEF TypeOK
  <2>3. PICK m \in Msgs : m = Written BY <2>1
  <2>4. /\ Len(Append(inbox[c], m)) = Len(inbox[c]) + 1
        /\ ToSet(Append(inbox[c], m)) = ToSet(inbox[c]) \cup {m}
    BY <1>1, AppendIs
  <2> QED BY <1>1, <1>3, <2>1, <2>2, <2>3, <2>4
<1> QED BY <1>2, <1>3

(* Who has been announced stays announced.                                   *)
LEMMA UnannouncedStep ==
  ASSUME TypeOK, Places, ErasesAMember, [Next]_vars, NEW c \in Conns, Unannounced(c)'
  PROVE  Unannounced(c)
<1> USE DEF clients, servlet, database, local
<1>1. peer'[c] = "idle" => peer[c] = "idle" BY PeersStep
<1>2. CASE UNCHANGED <<waiting, newusers>> BY <1>1, <1>2 DEF Unannounced
<1>3. ASSUME NEW d \in Conns, Client(d) PROVE Unannounced(c)
  <2>1. CASE Join(d)
    <3>1. ToSet(waiting') = ToSet(waiting) \cup {d} /\ UNCHANGED newusers /\ peer[d] = "idle"
      BY <2>1, AppendIs DEF Join, TypeOK, IsQueue
    <3> QED BY <1>1, <3>1 DEF Unannounced
  <2> QED BY <1>2, <1>3, <2>1, ClientStepIs
<1>4. CASE GrabNew /\ ~Dies
  <2>1. newusers' = waiting /\ waiting' = <<>> BY <1>4 DEF GrabNew
  <2> QED BY <1>1, <2>1, NothingIn DEF Unannounced
<1>5. CASE Dies /\ (UNCHANGED waiting \/ waiting' = <<>>)
  <2>1. newusers' = <<>> BY <1>5 DEF Dies
  <2> QED BY <1>1, <1>5, <2>1, NothingIn DEF Unannounced
<1>6. CASE Announce
  <2>1. newusers' = Tail(newusers) /\ newusers # <<>> /\ UNCHANGED waiting BY <1>6 DEF Announce
  <2>2. ToSet(newusers') \subseteq ToSet(newusers) BY <2>1, TailIs DEF TypeOK, IsQueue
  <2> QED BY <1>1, <2>1, <2>2 DEF Unannounced
<1>7. ThreadRun \/ Terminated \/ UNCHANGED vars =>
         \/ UNCHANGED <<waiting, newusers>> \/ (Dies /\ (UNCHANGED waiting \/ waiting' = <<>>))
         \/ (GrabNew /\ ~Dies) \/ Announce
  BY DEF ThreadRun, Terminated, vars, GrabNew, AllAnnounced, SkipUser, GetSockForUser,
     GetSockForUserFails, Write, WriteFails, NewuserHandled, UpdateEndmsgs, NextEntry,
     HandlePrivOrPart, HandleTopic, HandleMsgOfNobody, LogPriv, PartEnds, TopicEnds, Crashes
<1> QED BY <1>2, <1>3, <1>4, <1>5, <1>6, <1>7 DEF Next

(* Every step keeps Silent: only users that are announced are written to. *)
LEMMA SilentStep ==
  ASSUME TypeOK, Places, Phases, LoopOK, RepliesOK, ErasesAMember, Silent, [Next]_vars
  PROVE  Silent'
<1> SUFFICES ASSUME NEW c \in Conns, Unannounced(c)'
             PROVE  /\ inbox'[c] = <<>>
                    /\ \A d \in Conns : \A m \in ToSet(inbox'[d]) : m.kind \in ToAll => m.of # c
  BY DEF Silent
<1>1. Unannounced(c) BY UnannouncedStep
<1>2. inbox[c] = <<>> /\ \A d \in Conns : \A m \in ToSet(inbox[d]) : m.kind \in ToAll => m.of # c
  BY <1>1 DEF Silent
<1>3. CASE inbox' = inbox BY <1>2, <1>3
<1>4. CASE inbox' # inbox
  <2>1. /\ job.kind \in ToAll /\ Item.to \in ToSet(users) /\ Item.to \notin ToSet(newusers)
        /\ loop # <<>> => Written = job
        /\ loop = <<>> => Written.kind = ReplyKinds[4 - Len(replies)] /\ Len(replies) \in 1..3
    BY <1>4, InboxStep
  <2>2. c # Item.to BY <1>1, <2>1 DEF Places, Unannounced
  <2>3. job.of # c BY <1>1, <2>1 DEF Phases
  <2>4. Written.kind \in ToAll => Written.of # c
    <3>1. CASE loop # <<>> BY <2>1, <2>3, <3>1
    <3>2. CASE loop = <<>>
      <4>1. PICK n \in 1..3 : n = Len(replies) /\ Written.kind = ReplyKinds[4 - n] BY <2>1, <3>2
      <4>2. 4 - n \in 1..3 OBVIOUS
      <4> QED BY <4>1, <4>2 DEF ReplyKinds, ToAll
    <3> QED BY <3>1, <3>2
  <2> QED BY <1>2, <2>2, <2>4, InboxIs
<1> QED BY <1>3, <1>4

(* Every step keeps SpeaksAfter: a client sends once it has been greeted,  *)
(* and nothing is taken back from an inbox.                                *)
LEMMA SpeaksAfterStep ==
  ASSUME TypeOK, Phases, LoopOK, RepliesOK, ErasesAMember, SpeaksAfter, PendingOK, [Next]_vars
  PROVE  SpeaksAfter'
<1> SUFFICES ASSUME NEW c \in Conns, Len(inbox'[c]) < 4
             PROVE  Held(c)' = <<>> /\ wire'[c] = <<>>
  BY DEF SpeaksAfter
<1>1. Len(inbox[c]) < 4 /\ Len(inbox[c]) \in Nat BY InboxIs
<1>2. Held(c) = <<>> /\ wire[c] = <<>> BY <1>1 DEF SpeaksAfter
<1>3. CASE Kept(c) BY <1>2, <1>3 DEF Kept
<1>4. ~ClientParts(c) /\ \A kind : ~ClientSends(c, kind)
  BY <1>1 DEF ClientParts, ClientSends, Greeted
<1>5. CASE IsRead(c)
  <2>1. Held(c)' = <<>> \o <<>> /\ wire'[c] = <<>> BY <1>2, <1>5 DEF IsRead
  <2>2. <<>> \o <<>> = <<>> BY ConcatEmptySeq, NothingIn
  <2> QED BY <2>1, <2>2
<1>6. CASE IsStarted(c) BY <1>2, <1>6 DEF IsStarted
<1>7. CASE IsJoining(c) BY <1>2, <1>7 DEF IsJoining
<1> QED BY <1>3, <1>4, <1>5, <1>6, <1>7, PartsStep

(* Nothing is pending from a client that has not been announced.             *)
LEMMA NothingPending ==
  ASSUME TypeOK, Phases, Silent, SpeaksAfter, NEW c \in Conns, Unannounced(c)
  PROVE  ToSet(Pending(c)) = {}
<1>1. inbox[c] = <<>> BY DEF Silent
<1>2. Len(inbox[c]) = 0 BY <1>1, EmptySeq
<1>3. Held(c) = <<>> /\ wire[c] = <<>> BY <1>2 DEF SpeaksAfter
<1>4. InHand(c) = <<>> BY DEF Phases, InHand
<1> QED BY <1>3, <1>4, PendingIs, NothingIn

(* The job is the first of what is pending from whom it is about.            *)
LEMMA JobIs ==
  ASSUME TypeOK, Phases, PendingOK, job.kind \in ToAll, NEW d, d = job.of
  PROVE  /\ d \in Conns /\ ~Unannounced(d) /\ job \in ToSet(Pending(d))
         /\ Word(job) => job.val \in 1..sent /\ job.val \notin ToSet(log)
         /\ job.kind = "PART" => peer[d] # "open"
         /\ \A n \in ToSet(Held(d)) \cup ToSet(wire[d]) : Rank(job) < Rank(n)
<1>1. d \in Conns /\ ~Unannounced(d) BY DEF Phases
<1>2. PICK j \in Msgs : j = job BY DEF TypeOK
<1>3. PICK a \in Seq(Msgs), b \in Seq(Msgs), w \in Seq(Msgs) :
        a = InHand(d) /\ b = Held(d) /\ w = wire[d] /\ Pending(d) = (a \o b) \o w
  BY <1>1, PendingIs DEF Pending
<1>4. InHand(d) = <<j>> BY <1>2 DEF InHand
<1>5. ToSet(a) = {j} BY <1>3, <1>4, OrderedOne
<1>6. job \in ToSet(Pending(d)) BY <1>1, <1>2, <1>3, <1>5, PendingIs
<1>7. Ordered((a \o b) \o w) BY <1>1, <1>3 DEF PendingOK
<1>8. Before(a, b) /\ Before(a, w) BY <1>7, QueueIs
<1> QED BY <1>1, <1>2, <1>3, <1>5, <1>6, <1>8 DEF PendingOK, Before

(* A job that is done leaves what is behind it.                              *)
LEMMA JobStep ==
  ASSUME TypeOK, TypeOK', Phases, PendingOK, [Next]_vars, job.kind \in ToAll, job' # job,
         NEW d, d = job.of
  PROVE  /\ \A n \in ToSet(Pending(d)') : Rank(job) < Rank(n)
         /\ ToSet(Pending(d)') \subseteq ToSet(Pending(d))
<1>1. d \in Conns /\ \A n \in ToSet(Held(d)) \cup ToSet(wire[d]) : Rank(job) < Rank(n)
  BY JobIs
<1>2. InHand(d) = <<job>> BY DEF InHand
<1>3. <<job>> # <<>> /\ <<job>>[1] = job /\ <<job'>>[1] = job' OBVIOUS
<1>4. InHand(d)' \in {<<>>, <<job'>>} BY DEF InHand
<1>5. InHand(d)' # InHand(d) BY <1>2, <1>3, <1>4
<1>6. ~IsJoining(d)
  <2>1. pc = "announce" => job = NoMsg BY DEF Phases
  <2>2. NoMsg.kind \notin ToAll BY MsgIs DEF ToAll
  <2> QED BY <2>1, <2>2 DEF IsJoining, Announce
<1>7. Kept(d)
  BY <1>1, <1>2, <1>3, <1>5, <1>6, PartsStep DEF Grows, IsRead, IsStarted
<1>8. InHand(d)' = <<>> /\ Held(d)' \in {Held(d), <<>>} /\ wire'[d] = wire[d]
  BY <1>5, <1>7 DEF Kept
<1>9. PICK h \in Seq(Msgs), w \in Seq(Msgs) :
        /\ h = Held(d)' /\ w = wire'[d]
        /\ ToSet(h) \subseteq ToSet(Held(d)) /\ ToSet(w) = ToSet(wire[d])
  BY <1>1, <1>8, PendingIs, NothingIn
<1>10. ToSet(Pending(d)') \subseteq ToSet(Held(d)) \cup ToSet(wire[d])
  <2>1. Pending(d)' = (<<>> \o h) \o w BY <1>8, <1>9 DEF Pending
  <2>2. PICK e \in Seq(Msgs) : e = <<>> /\ ToSet(e) = {} BY NothingIn
  <2>3. ToSet((e \o h) \o w) = ToSet(e) \cup ToSet(h) \cup ToSet(w) BY QueueIs
  <2> QED BY <1>9, <2>1, <2>2, <2>3
<1>11. ToSet(Pending(d)) = ToSet(InHand(d)) \cup ToSet(Held(d)) \cup ToSet(wire[d])
  BY <1>1, PendingIs
<1> QED BY <1>1, <1>10, <1>11
(* What ClientSends does to the others: nothing.                             *)
LEMMA OnlyOneSends ==
  ASSUME TypeOK, NEW c \in Conns, NEW kind, ClientSends(c, kind), NEW d \in Conns, d # c
  PROVE  Pending(d)' = Pending(d)
<1>1. UNCHANGED <<job, cursor, msgList, endMsgs>> BY DEF ClientSends, servlet, local
<1>2. InHand(d)' = InHand(d) /\ Held(d)' = Held(d) BY <1>1 DEF InHand, Held
<1>3. wire'[d] = wire[d] BY DEF ClientSends, TypeOK
<1> QED BY <1>2, <1>3 DEF Pending

(* What was logged stays logged, and what comes new is the job.              *)
LEMMA LogIs ==
  ASSUME TypeOK, [Next]_vars
  PROVE  \/ log' = log
         \/ /\ job.kind = "PRIVMSG" /\ job' = NoMsg /\ log' = Append(log, job.val)
            /\ ToSet(log') = ToSet(log) \cup {job.val}
            /\ IsInjective(log) /\ job.val \notin ToSet(log) => IsInjective(log')
<1> USE DEF clients, servlet, database, local
<1>1. CASE \E c \in Conns : Client(c) BY <1>1, ClientStepIs
<1>2. CASE LogPriv
  <2>1. CASE log' = log BY <2>1
  <2>2. CASE log' # log
    <3>1. job.kind = "PRIVMSG" /\ job' = NoMsg /\ log' = Append(log, job.val)
      BY <1>2, <2>2 DEF LogPriv, Sent
    <3>0. PICK S : S = 0..MaxMsgs OBVIOUS
    <3>2. PICK v \in S : v = job.val BY <3>0 DEF TypeOK, Msgs
    <3>3. /\ ToSet(Append(log, v)) = ToSet(log) \cup {v}
          /\ IsInjective(log) /\ v \notin ToSet(log) => IsInjective(Append(log, v))
      <4>1. log \in Seq(S) BY <3>0 DEF TypeOK
      <4> QED BY <4>1, AppendIs
    <3> QED BY <3>1, <3>2, <3>3
  <2> QED BY <2>1, <2>2
<1>3. ThreadRun \/ Terminated \/ UNCHANGED vars => LogPriv \/ UNCHANGED log
  BY DEF ThreadRun, Terminated, vars, GrabNew, Announce, AllAnnounced, SkipUser,
     GetSockForUser, GetSockForUserFails, Write, WriteFails, NewuserHandled, UpdateEndmsgs,
     NextEntry, HandlePrivOrPart, HandleTopic, HandleMsgOfNobody, PartEnds, TopicEnds
<1> QED BY <1>1, <1>2, <1>3 DEF Next

(* How many messages the clients have sent.                                  *)
LEMMA SentIs ==
  ASSUME TypeOK, [Next]_vars
  PROVE  /\ sent \in Nat /\ sent' \in Nat /\ sent <= sent' /\ sent <= MaxMsgs /\ MaxMsgs \in Nat
         /\ sent' # sent => \E c \in Conns, kind \in {"PRIVMSG", "TOPIC"} :
                              ClientSends(c, kind) /\ sent' = sent + 1
<1> USE DEF clients, servlet, database, local
<1>1. sent \in Nat /\ sent <= MaxMsgs /\ MaxMsgs \in Nat BY BoundsAssumption DEF TypeOK
<1>2. ASSUME NEW c \in Conns, Client(c)
      PROVE  \/ sent' = sent
             \/ \E kind \in {"PRIVMSG", "TOPIC"} : ClientSends(c, kind) /\ sent' = sent + 1
  BY <1>2 DEF Client, Join, ClientSends, ClientParts, ClientCloses, Reset
<1>3. ThreadRun \/ Terminated \/ UNCHANGED vars => UNCHANGED sent
  BY DEF ThreadRun, Terminated, vars, GrabNew, Announce, AllAnnounced, SkipUser,
     GetSockForUser, GetSockForUserFails, Write, WriteFails, NewuserHandled, UpdateEndmsgs,
     NextEntry, HandlePrivOrPart, HandleTopic, HandleMsgOfNobody, LogPriv, PartEnds, TopicEnds
<1> QED BY <1>1, <1>2, <1>3 DEF Next

(* Every step keeps PendingOK: only the message in hand is ever logged,    *)
(* and it is gone then.                                                    *)
LEMMA PendingOKStep ==
  ASSUME TypeOK, TypeOK', Places, Phases, ErasesAMember, Silent, SpeaksAfter, PendingOK, Distinct,
         LogOK, [Next]_vars
  PROVE  PendingOK'
<1> USE DEF clients, servlet, database, local
<1> SUFFICES ASSUME NEW c \in Conns
             PROVE  /\ Ordered(Pending(c)')
                    /\ \A m \in ToSet(Pending(c)') :
                         /\ m.of = c /\ m.kind \in ToAll
                         /\ Word(m) => m.val \in 1..sent' /\ m.val \notin ToSet(log')
                         /\ m.kind = "PART" => peer'[c] # "open"
  BY DEF PendingOK
<1>1. Ordered(Pending(c)') BY PendingStep
<1>2. sent \in Nat /\ sent' \in Nat /\ sent <= sent' BY SentIs
<1>3. ASSUME NEW m \in ToSet(Pending(c)), m \in ToSet(Pending(c)')
      PROVE  /\ m.of = c /\ m.kind \in ToAll
             /\ Word(m) => m.val \in 1..sent' /\ m.val \notin ToSet(log')
             /\ m.kind = "PART" => peer'[c] # "open"
  <2>1. /\ m.of = c /\ m.kind \in ToAll
        /\ Word(m) => m.val \in 1..sent /\ m.val \notin ToSet(log)
        /\ m.kind = "PART" => peer[c] # "open"
    BY DEF PendingOK
  <2>2. ASSUME Word(m) PROVE m.val \notin ToSet(log')
    <3>1. CASE log' = log BY <2>1, <2>2, <3>1
    <3>2. CASE log' # log
      <4>1. job.kind = "PRIVMSG" /\ job' = NoMsg /\ ToSet(log') = ToSet(log) \cup {job.val}
        BY <3>2, LogIs
      <4>2. PICK d : d = job.of OBVIOUS
      <4>3. job' # job /\ job.kind \in ToAll /\ Word(job) BY <4>1, MsgIs DEF ToAll, Word
      <4>4. d \in Conns /\ job \in ToSet(Pending(d)) BY <4>2, <4>3, JobIs
      <4>5. m.val # job.val
        <5>1. CASE c = d
          <6>1. Rank(job) < Rank(m) BY <1>3, <4>2, <4>3, <5>1, JobStep
          <6>2. Rank(job) = job.val /\ Rank(m) = m.val BY <2>2, <4>3 DEF Rank, Word
          <6>3. job.val \in 1..sent BY <4>2, <4>3, JobIs
          <6> QED BY <2>1, <2>2, <6>1, <6>2, <6>3, <1>2
        <5>2. CASE c # d BY <2>2, <4>3, <4>4, <5>2 DEF Distinct
        <5> QED BY <5>1, <5>2
      <4> QED BY <2>1, <2>2, <4>1, <4>5
    <3> QED BY <3>1, <3>2
  <2>3. ASSUME m.kind = "PART" PROVE peer'[c] # "open"
    <3>1. peer'[c] = "open" => peer[c] \in {"idle", "open"} BY PeersStep
    <3>2. peer[c] # "idle"
      <4>1. ~Unannounced(c) BY NothingPending
      <4> QED BY <4>1 DEF Unannounced
    <3> QED BY <2>1, <2>3, <3>1, <3>2
  <2> QED BY <1>2, <2>1, <2>2, <2>3
<1>4. ASSUME NEW kind \in {"PRIVMSG", "TOPIC"}, ClientSends(c, kind), NEW m,
             m = Msg(kind, c, sent + 1)
      PROVE  /\ m.of = c /\ m.kind \in ToAll
             /\ Word(m) => m.val \in 1..sent' /\ m.val \notin ToSet(log')
             /\ m.kind = "PART" => peer'[c] # "open"
  <2>1. m.kind = kind /\ m.of = c /\ m.val = sent + 1 BY <1>4, MsgIs
  <2>2. sent' = sent + 1 /\ log' = log BY <1>4 DEF ClientSends
  <2>3. ToSet(log) \subseteq 1..sent BY DEF LogOK
  <2> QED BY <1>2, <2>1, <2>2, <2>3 DEF ToAll
<1>5. ASSUME ClientParts(c), NEW m, m = Msg("PART", c, 0)
      PROVE  /\ m.of = c /\ m.kind \in ToAll /\ ~Word(m) /\ peer'[c] # "open"
  <2>1. m.kind = "PART" /\ m.of = c BY <1>5, MsgIs
  <2>2. peer'[c] # "open"
    <3>1. peer' = [peer EXCEPT ![c] = "parting"] \/ Close(c) BY <1>5 DEF ClientParts
    <3>2. Close(c) => \E gone \in {"closed", "reset"} : peer' = [peer EXCEPT ![c] = gone]
      BY DEF Close
    <3> QED BY <3>1, <3>2 DEF TypeOK
  <2> QED BY <2>1, <2>2 DEF ToAll, Word
<1>6. ASSUME job' = Msg("JOIN", c, 0), NEW m, m = job'
      PROVE  m.of = c /\ m.kind \in ToAll /\ ~Word(m) /\ m.kind # "PART"
  BY <1>6, MsgIs DEF ToAll, Word
<1>7. ASSUME NEW m \in ToSet(Pending(c)')
      PROVE  /\ m.of = c /\ m.kind \in ToAll
             /\ Word(m) => m.val \in 1..sent' /\ m.val \notin ToSet(log')
             /\ m.kind = "PART" => peer'[c] # "open"
  <2>1. CASE m \in ToSet(Pending(c)) BY <1>3, <1>7, <2>1
  <2>2. CASE m \notin ToSet(Pending(c))
    <3>1. \/ \E kind \in {"PRIVMSG", "TOPIC"} : ClientSends(c, kind) /\ m = Msg(kind, c, sent + 1)
          \/ ClientParts(c) /\ m = Msg("PART", c, 0)
          \/ job' = Msg("JOIN", c, 0) /\ m = job'
      BY <1>7, <2>2, PendingStep
    <3> QED BY <3>1, <1>4, <1>5, <1>6
  <2> QED BY <2>1, <2>2
<1> QED BY <1>1, <1>7

(* A message that is new in what is pending from c.                          *)
LEMMA NewWord ==
  ASSUME TypeOK, TypeOK', Phases, Silent, SpeaksAfter, PendingOK, [Next]_vars, NEW c \in Conns,
         NEW m \in ToSet(Pending(c)'), Word(m), m \notin ToSet(Pending(c))
  PROVE  m.val = sent + 1 /\ \A d \in Conns : d # c => Pending(d)' = Pending(d)
<1>1. \/ \E kind \in {"PRIVMSG", "TOPIC"} : ClientSends(c, kind) /\ m = Msg(kind, c, sent + 1)
      \/ m = Msg("PART", c, 0)
      \/ job' = Msg("JOIN", c, 0) /\ m = job'
  BY PendingStep
<1>2. \E kind \in {"PRIVMSG", "TOPIC"} : ClientSends(c, kind) /\ m = Msg(kind, c, sent + 1)
  BY <1>1, MsgIs DEF Word
<1> QED BY <1>2, MsgIs, OnlyOneSends

(* Every step keeps Distinct: a new message takes a new number. *)
LEMMA DistinctStep ==
  ASSUME TypeOK, TypeOK', Phases, Silent, SpeaksAfter, PendingOK, Distinct, [Next]_vars
  PROVE  Distinct'
<1> SUFFICES ASSUME NEW c \in Conns, NEW d \in Conns, c # d,
                    NEW m \in ToSet(Pending(c)'), NEW n \in ToSet(Pending(d)'), Word(m), Word(n)
             PROVE  m.val # n.val
  BY DEF Distinct
<1>1. sent \in Nat BY SentIs
<1>2. \A e \in Conns : \A x \in ToSet(Pending(e)) : Word(x) => x.val \in 1..sent BY DEF PendingOK
<1>3. CASE m \in ToSet(Pending(c)) /\ n \in ToSet(Pending(d)) BY <1>3 DEF Distinct
<1>4. CASE m \notin ToSet(Pending(c))
  <2>1. m.val = sent + 1 /\ n \in ToSet(Pending(d)) BY <1>4, NewWord
  <2> QED BY <1>1, <1>2, <2>1
<1>5. CASE n \notin ToSet(Pending(d))
  <2>1. n.val = sent + 1 /\ m \in ToSet(Pending(c)) BY <1>5, NewWord
  <2> QED BY <1>1, <1>2, <2>1
<1> QED BY <1>3, <1>4, <1>5

(* Every step keeps DeliveredOK: what is delivered is in hand, and in hand *)
(* is what comes first of all that is on its way from its sender.          *)
LEMMA DeliveredStep ==
  ASSUME TypeOK, TypeOK', Places, Phases, LoopOK, RepliesOK, ErasesAMember, Silent, SpeaksAfter,
         PendingOK, DeliveredOK, [Next]_vars
  PROVE  DeliveredOK'
<1> SUFFICES ASSUME NEW c \in Conns, NEW m \in ToSet(inbox'[c]), m.kind \in ToAll
             PROVE  /\ m.of \in Conns
                    /\ Word(m) => m.val \in 1..sent'
                    /\ m.kind = "PART" => peer'[m.of] # "open"
                    /\ m = job' \/ \A n \in ToSet(Pending(m.of)') : Rank(m) < Rank(n)
  BY DEF DeliveredOK
<1>1. /\ sent \in Nat /\ sent' \in Nat /\ sent <= sent' /\ sent <= MaxMsgs /\ MaxMsgs \in Nat
      /\ sent' # sent => \E d \in Conns, kind \in {"PRIVMSG", "TOPIC"} :
                           ClientSends(d, kind) /\ sent' = sent + 1
  BY SentIs
<1>2. CASE m \notin ToSet(inbox[c])
  <2>1. /\ Write /\ m = Written /\ inbox'[c] # inbox[c] BY <1>2, InboxIs
  <2>2. m = job
    <3>1. CASE loop # <<>> BY <2>1, <3>1, InboxStep
    <3>2. CASE loop = <<>>
      <4>1. PICK n \in 1..3 : m.kind = ReplyKinds[4 - n] BY <2>1, <3>2, InboxStep
      <4>2. 4 - n \in 1..3 OBVIOUS
      <4>3. m.kind \notin ToAll BY <4>1, <4>2 DEF ReplyKinds, ToAll
      <4> QED BY <4>3
    <3> QED BY <3>1, <3>2
  <2>3. job' = job /\ sent' = sent BY <2>1 DEF Write
  <2>4. peer' = peer BY <2>1, InboxStep
  <2>5. PICK d : d = job.of OBVIOUS
  <2>6. /\ d \in Conns /\ (Word(job) => job.val \in 1..sent)
        /\ job.kind = "PART" => peer[d] # "open"
    BY <2>2, <2>5, JobIs
  <2> QED BY <2>2, <2>3, <2>4, <2>5, <2>6
<1>3. CASE m \in ToSet(inbox[c])
  <2>0. PICK d : d = m.of OBVIOUS
  <2>1. /\ d \in Conns /\ (Word(m) => m.val \in 1..sent)
        /\ m.kind = "PART" => peer[d] # "open"
        /\ m = job \/ \A n \in ToSet(Pending(d)) : Rank(m) < Rank(n)
    BY <1>3, <2>0 DEF DeliveredOK
  <2>2. ~Unannounced(d) BY <1>3, <2>0, <2>1 DEF Silent
  <2>3. m.kind = "PART" => peer'[d] # "open"
    <3>1. peer'[d] = "open" => peer[d] \in {"idle", "open"} BY <2>1, PeersStep
    <3> QED BY <2>1, <2>2, <3>1 DEF Unannounced
  <2>4. m = job' \/ \A n \in ToSet(Pending(d)') : Rank(m) < Rank(n)
    <3>1. CASE m = job /\ job' = job BY <3>1
    <3>2. CASE m = job /\ job' # job BY <2>0, <3>2, JobStep
    <3>3. CASE m # job
      <4>1. \A n \in ToSet(Pending(d)) : Rank(m) < Rank(n) BY <2>1, <3>3
      <4>2. CASE ToSet(Pending(d)') \subseteq ToSet(Pending(d)) BY <4>1, <4>2
      <4>3. ASSUME NEW kind \in {"PRIVMSG", "TOPIC"}, ClientSends(d, kind),
                   ToSet(Pending(d)') = ToSet(Pending(d)) \cup {Msg(kind, d, sent + 1)}
            PROVE  \A n \in ToSet(Pending(d)') : Rank(m) < Rank(n)
        <5>1. peer[d] = "open" BY <4>3 DEF ClientSends
        <5>2. Rank(m) < sent + 1 BY <1>1, <2>1, <5>1 DEF Rank, Word, ToAll
        <5>3. Rank(Msg(kind, d, sent + 1)) = sent + 1 BY MsgIs DEF Rank
        <5> QED BY <4>1, <4>3, <5>2, <5>3
      <4>4. ASSUME ClientParts(d), ToSet(Pending(d)') = ToSet(Pending(d)) \cup {Msg("PART", d, 0)}
            PROVE  \A n \in ToSet(Pending(d)') : Rank(m) < Rank(n)
        <5>1. peer[d] = "open" BY <4>4 DEF ClientParts
        <5>2. Rank(m) < MaxMsgs + 1 BY <1>1, <2>1, <5>1 DEF Rank, Word, ToAll
        <5>3. Rank(Msg("PART", d, 0)) = MaxMsgs + 1 BY MsgIs DEF Rank
        <5> QED BY <4>1, <4>4, <5>2, <5>3
      <4>5. d \notin ToSet(newusers) BY <2>2 DEF Unannounced
      <4> QED BY <2>1, <4>2, <4>3, <4>4, <4>5, PendingStep
    <3> QED BY <3>1, <3>2, <3>3
  <2>5. Word(m) => m.val \in 1..sent' BY <1>1, <2>1
  <2> QED BY <2>0, <2>1, <2>3, <2>4, <2>5
<1> QED BY <1>2, <1>3

(* As long as the thread lives, a PRIVMSG in hand stays there until it is    *)
(* logged.                                                                   *)
LEMMA LoggedOrInHand ==
  ASSUME Phases, [Next]_vars, Alive'
  PROVE  Alive /\ (job.kind = "PRIVMSG" => job' = job \/ log' = Append(log, job.val))
<1> USE DEF clients, servlet, database, local
<1>1. CASE \E c \in Conns : Client(c)
  <2>1. pc' = pc /\ job' = job BY <1>1, ClientStepIs
  <2> QED BY <2>1 DEF Alive
<1>2. CASE UNCHANGED <<pc, job>> BY <1>2 DEF Alive
<1>3. ~Dies /\ ~Crashes BY DEF Dies, Crashes, Alive
<1>4. ThreadRun => Alive
  BY DEF ThreadRun, GrabNew, Announce, AllAnnounced, SkipUser, GetSockForUser,
     GetSockForUserFails, Write, WriteFails, NewuserHandled, UpdateEndmsgs, NextEntry,
     HandlePrivOrPart, HandleTopic, HandleMsgOfNobody, LogPriv, PartEnds, TopicEnds, ToWrite,
     ToHandle, Sent, Alive
<1>5. job.kind = "PRIVMSG" => pc \in {"send", "write", "exited", "crashed"} \/ pc \notin Pcs
  BY DEF Phases, NoMsg, Msg, Pcs
<1>6. ASSUME ThreadRun, job.kind = "PRIVMSG"
      PROVE  job' = job \/ log' = Append(log, job.val)
  BY <1>3, <1>5, <1>6
  DEF ThreadRun, GrabNew, Announce, AllAnnounced, SkipUser, GetSockForUser,
     GetSockForUserFails, Write, WriteFails, NewuserHandled, UpdateEndmsgs, NextEntry,
     HandlePrivOrPart, HandleTopic, HandleMsgOfNobody, LogPriv, PartEnds, TopicEnds, ToHandle,
     Sent, Pcs
<1> QED BY <1>1, <1>2, <1>4, <1>6 DEF Next, Terminated, vars

(* Every step keeps LogOK: a PRIVMSG stays in hand until it is logged or   *)
(* the thread ends.                                                        *)
LEMMA LogStep ==
  ASSUME TypeOK, Places, Phases, LoopOK, RepliesOK, ErasesAMember, PendingOK, LogOK, [Next]_vars
  PROVE  LogOK'
<1>1. IsInjective(log) /\ ToSet(log) \subseteq 1..sent BY DEF LogOK
<1>2. sent \in Nat /\ sent' \in Nat /\ sent <= sent' BY SentIs
<1>3. ASSUME log' # log
      PROVE  /\ IsInjective(log') /\ job.kind = "PRIVMSG" /\ job.val \in 1..sent
             /\ ToSet(log') = ToSet(log) \cup {job.val}
  <2>1. /\ job.kind = "PRIVMSG" /\ ToSet(log') = ToSet(log) \cup {job.val}
        /\ job.val \notin ToSet(log) => IsInjective(log')
    BY <1>1, <1>3, LogIs
  <2>2. PICK d : d = job.of OBVIOUS
  <2>3. job.val \in 1..sent /\ job.val \notin ToSet(log)
    BY <2>1, <2>2, JobIs DEF ToAll, Word
  <2> QED BY <2>1, <2>3
<1>4. IsInjective(log') /\ ToSet(log') \subseteq 1..sent' /\ ToSet(log) \subseteq ToSet(log')
  <2>1. CASE log' = log BY <1>1, <1>2, <2>1
  <2>2. CASE log' # log BY <1>1, <1>2, <1>3, <2>2
  <2> QED BY <2>1, <2>2
<1>5. ASSUME Alive', NEW c \in Conns, NEW m \in ToSet(inbox'[c]), m.kind = "PRIVMSG"
      PROVE  m.val \in ToSet(log') \/ m = job'
  <2>1. Alive BY <1>5, LoggedOrInHand
  <2>2. CASE m \in ToSet(inbox[c])
    <3>1. m.val \in ToSet(log) \/ m = job BY <1>5, <2>1, <2>2 DEF LogOK
    <3>2. CASE m = job
      <4>1. job' = job \/ log' = Append(log, job.val) BY <1>5, <3>2, LoggedOrInHand
      <4>2. log' = Append(log, job.val) => job.val \in ToSet(log')
        <5>1. PICK S : S = 0..MaxMsgs OBVIOUS
        <5>2. log \in Seq(S) BY <5>1 DEF TypeOK
        <5>3. PICK v \in S : v = job.val BY <5>1 DEF TypeOK, Msgs
        <5>4. v \in ToSet(Append(log, v)) BY <5>2, AppendIs
        <5> QED BY <5>3, <5>4
      <4> QED BY <3>2, <4>1, <4>2
    <3> QED BY <1>4, <3>1, <3>2
  <2>3. CASE m \notin ToSet(inbox[c])
    <3>1. Write /\ m = Written /\ inbox'[c] # inbox[c] BY <2>3, InboxIs
    <3>2. loop # <<>> => Written = job BY <3>1, InboxStep
    <3>3. loop # <<>>
      <4>1. CASE loop = <<>>
        <5>1. PICK n \in 1..3 : m.kind = ReplyKinds[4 - n] BY <3>1, <4>1, InboxStep
        <5>2. 4 - n \in 1..3 OBVIOUS
        <5> QED BY <1>5, <5>1, <5>2 DEF ReplyKinds
      <4> QED BY <4>1
    <3>4. job' = job BY <3>1 DEF Write
    <3> QED BY <3>1, <3>2, <3>3, <3>4
  <2> QED BY <2>2, <2>3
<1> QED BY <1>4, <1>5 DEF LogOK
-----------------------------------------------------------------------------
(* The invariant.                                                          *)

(* A channel starts out empty. *)
LEMMA InitIInv == Init => IInv
<1> SUFFICES ASSUME Init PROVE IInv OBVIOUS
<1> USE DEF Init
<1>1. /\ ToSet(<<>>) = {} /\ IsInjective(<<>>) /\ DOMAIN <<>> = {} /\ Len(<<>>) = 0
      /\ \A S : <<>> \in Seq(S)
  BY NothingIn, EmptySeq
<1>2. TypeOK
  <2>1. <<>> \in [DOMAIN <<>> -> Seq(Msgs)]
    <3>1. <<>> \in [1..Len(<<>>) -> Seq(Msgs)] /\ DOMAIN <<>> = 1..Len(<<>>)
      BY NothingIn, LenProperties
    <3> QED BY <3>1
  <2> QED BY <1>1, <2>1, MsgIs, BoundsAssumption DEF TypeOK, IsQueue, Peers, Pcs
<1>3. job.kind \notin ToAll /\ job.kind # "PART" /\ job.kind # "JOIN" /\ job.kind # "TOPIC"
  BY MsgIs DEF ToAll
<1>4. Places BY <1>1 DEF Places
<1>5. Phases BY <1>3 DEF Phases
<1>6. LoopOK BY <1>1, <1>3 DEF LoopOK
<1>7. RepliesOK BY <1>1 DEF RepliesOK
<1>8. Memory BY <1>3 DEF Memory
<1>9. ErasesAMember BY DEF ErasesAMember, Sent
<1>10. Silent BY <1>1 DEF Silent
<1>11. \A c \in Conns : /\ InHand(c) = <<>> /\ Held(c) = <<>> /\ wire[c] = <<>>
                        /\ Pending(c) = <<>>
  <2>1. ASSUME NEW c \in Conns PROVE InHand(c) = <<>> /\ Held(c) = <<>> /\ wire[c] = <<>>
    BY <1>1, <1>3 DEF InHand, Held
  <2>2. (<<>> \o <<>>) \o <<>> = <<>> BY ConcatEmptySeq, <1>1
  <2> QED BY <2>1, <2>2 DEF Pending
<1>12. SpeaksAfter BY <1>11 DEF SpeaksAfter
<1>13. PendingOK BY <1>1, <1>11, OrderedOne DEF PendingOK
<1>14. Distinct BY <1>1, <1>11 DEF Distinct
<1>15. DeliveredOK BY <1>1 DEF DeliveredOK
<1>16. LogOK BY <1>1 DEF LogOK
<1>17. OnlyResetsSeparate BY <1>1 DEF OnlyResetsSeparate
<1> QED
  BY <1>2, <1>4, <1>5, <1>6, <1>7, <1>8, <1>9, <1>10, <1>12, <1>13, <1>14, <1>15, <1>16, <1>17
  DEF IInv

(* IInv is inductive. *)
LEMMA NextIInv == IInv /\ [Next]_vars => IInv'
<1> SUFFICES ASSUME IInv, [Next]_vars PROVE IInv' OBVIOUS
<1> USE DEF IInv
<1>1. TypeOK' BY TypeOKStep
<1>2. Places' BY PlacesStep
<1>3. Phases' BY <1>2, PhasesStep
<1>4. LoopOK' BY LoopStep
<1>5. RepliesOK' /\ Memory' BY RepliesStep, MemoryStep
<1>6. ErasesAMember' BY <1>3, <1>4, ErasesStep
<1>7. Silent' /\ SpeaksAfter' BY SilentStep, SpeaksAfterStep
<1>8. PendingOK' /\ Distinct' BY <1>1, PendingOKStep, DistinctStep
<1>9. DeliveredOK' BY <1>1, DeliveredStep
<1>10. LogOK' BY LogStep
<1>11. OnlyResetsSeparate' BY OnlyResetsStep
<1> QED BY <1>1, <1>2, <1>3, <1>4, <1>5, <1>6, <1>7, <1>8, <1>9, <1>10, <1>11

(* IInv holds in every state that the thread and its clients reach. *)
THEOREM SpecIInv == Spec => []IInv
BY InitIInv, NextIInv, PTL DEF Spec

(* Every variable has its type in every state, and nobody is in _users, in *)
(* _socks or among the newusers twice, though users are taken in by        *)
(* grab_new and removed by handle_part and by failed writes in the middle  *)
(* of the loops.                                                           *)
THEOREM SpecTypeOK == Spec => []TypeOK
<1>1. IInv => TypeOK BY DEF IInv
<1> QED BY <1>1, SpecIInv, PTL

(* Whenever remove_trace_of runs, for a failed write or at the end of      *)
(* handle_part, the user it looks for is in _users: the end of the deque,  *)
(* which it does not check for, is never erased. In particular no failed   *)
(* write is met twice for one user in a loop, nor for a newuser that a     *)
(* loop has just removed.                                                  *)
THEOREM SpecErasesAMember == Spec => []ErasesAMember
<1>1. IInv => ErasesAMember BY DEF IInv
<1> QED BY <1>1, SpecIInv, PTL

(* _users and _socks, which remove_trace_of searches one by name and the   *)
(* other by endpoint or for a broken connection, are only ever separated   *)
(* by resets: a user without a socket has been reset, and a socket without *)
(* a user is left only where another connection has been reset.            *)
THEOREM SpecOnlyResetsSeparate == Spec => []OnlyResetsSeparate
<1>1. IInv => OnlyResetsSeparate BY DEF IInv
<1> QED BY <1>1, SpecIInv, PTL

(* What has been delivered to anybody is in ChatLogs, except the PRIVMSG   *)
(* that handle_privmsg is delivering, as long as the thread lives; and no  *)
(* message is logged twice.                                                *)
THEOREM SpecLogFollowsDelivery == Spec => []LogFollowsDelivery
<1>1. IInv => LogFollowsDelivery
  <2>1. ASSUME LogOK, TypeOK, Alive, NEW v \in Delivered PROVE v \in ToSet(log) \cup {job.val}
    <3>1. PICK c \in Conns : \E m \in ToSet(inbox[c]) : m.kind = "PRIVMSG" /\ m.val = v
      BY DEF Delivered
    <3> QED BY <2>1, <3>1 DEF LogOK
  <2> QED BY <2>1 DEF IInv, LogFollowsDelivery, LogOK
<1> QED BY <1>1, SpecIInv, PTL

(* A topic is shown to a member, by a TOPIC or in the greeting, only when  *)
(* the row of the channel has it already.                                  *)
THEOREM SpecTopicIsDurableFirst == Spec => TopicIsDurableFirst
<1>1. ASSUME IInv, [Next]_vars
      PROVE  [\A c \in Conns :
                inbox'[c] # inbox[c] /\ Last(inbox'[c]).kind \in {"TOPIC", "RPL_TOPIC"} =>
                  Last(inbox'[c]).val = dbTopic]_vars
  BY <1>1, TopicStep DEF IInv
<1> QED BY <1>1, SpecIInv, PTL DEF Spec, TopicIsDurableFirst

=============================================================================
