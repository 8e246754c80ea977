------------------------- MODULE ServletOrderProofs -------------------------
(***************************************************************************)
(* Servlet.tla, continued: one conversation, in the order of its senders.  *)
(*                                                                         *)
(* handle_newusers, handle_privmsg, handle_topic and handle_part write     *)
(* from a range-for over _users, and a write that fails erases from _users *)
(* while the loop is under way. Where that moves the iterators of the      *)
(* loop, a member is skipped and another visited twice, and the theorems   *)
(* of this module do not hold. They are proved of the behaviours in which  *)
(* it never does (Undisturbed), and a channel of up to four members is     *)
(* shown to be one in which it never does.                                 *)
(***************************************************************************)
EXTENDS ServletProofs

(* The user that a failed write removes does not disturb the loop.           *)
Undisturbed ==
  pc = "write" /\ loop # <<>> /\ Broken(Item.to) =>
    AfterErasing(Item.to, Tail(loop)) = Tail(loop)

(* Whom the loop still has to bring a message to. *)
Targets == {item.to : item \in {i \in ToSet(loop) : i.msg # NoMsg}}

(* The loop has still to visit the last of _users, one by one. *)
Aligned ==
  pc \in {"send", "write"} =>
  /\ Len(loop) <= Len(users)
  /\ \A i \in 1..Len(loop) : loop[i].to = users[Len(users) - Len(loop) + i]

(* The message in hand is the last that was delivered to anybody. *)
NewestLast ==
  \A c \in Conns : \A i, j \in DOMAIN inbox[c] :
    job.kind \in ToAll /\ inbox[c][i] = job /\ i < j => inbox[c][j].kind \notin ToAll

(* It has not been delivered to who is still to be visited. *)
NotYet ==
  \A c \in Targets : \A k \in DOMAIN inbox[c] : inbox[c][k] # job

(* InSendersOrder, in terms of Rank. *)
Ranked ==
  \A c \in Conns : \A i, j \in DOMAIN inbox[c] :
    /\ i < j /\ inbox[c][i].kind \in ToAll /\ inbox[c][j].kind \in ToAll
    /\ inbox[c][i].of = inbox[c][j].of
    => Rank(inbox[c][i]) < Rank(inbox[c][j])

(* OneConversation, in two parts: what two members both got to see, *)
SameOrder ==
  \A c, d \in Conns : \A i, j \in DOMAIN inbox[c], k, l \in DOMAIN inbox[d] :
    /\ i < j /\ inbox[c][i].kind \in ToAll /\ inbox[c][j].kind \in ToAll
    /\ inbox[d][k] = inbox[c][j] /\ inbox[d][l] = inbox[c][i]
    => ~(k < l)

(* and what is logged. *)
LogOrder ==
  \A i, j \in DOMAIN log, c \in Conns : \A k, l \in DOMAIN inbox[c] :
    /\ i < j /\ inbox[c][k].kind = "PRIVMSG" /\ inbox[c][k].val = log[i]
    /\ inbox[c][l].kind = "PRIVMSG" /\ inbox[c][l].val = log[j]
    => k < l

-----------------------------------------------------------------------------
(* Whom the loop has still to visit.                                       *)

(* The targets, by their places in the loop. *)
LEMMA TargetsIs ==
  ASSUME loop \in Seq(Items)
  PROVE  /\ \A c : c \in Targets <=> \E i \in 1..Len(loop) : loop[i].to = c /\ loop[i].msg # NoMsg
         /\ Targets \subseteq Conns
         /\ loop = <<>> => Targets = {}
<1>1. /\ \A x : x \in ToSet(loop) <=> \E i \in 1..Len(loop) : loop[i] = x
      /\ ToSet(loop) \subseteq Items
  BY ToSetIs
<1>2. Targets \subseteq Conns BY <1>1 DEF Targets, Items
<1>3. loop = <<>> => ToSet(loop) = {} BY NothingIn
<1> QED BY <1>1, <1>2, <1>3 DEF Targets

(* Nobody is visited twice.                                                  *)
LEMMA AlignedOnce ==
  ASSUME TypeOK, Aligned, pc \in {"send", "write"}
  PROVE  \A i, j \in 1..Len(loop) : loop[i].to = loop[j].to => i = j
<1>1. /\ users \in Seq(Conns) /\ IsInjective(users) /\ DOMAIN users = 1..Len(users)
      /\ Len(users) \in Nat /\ Len(loop) \in Nat
  BY ToSetIs DEF TypeOK, IsQueue
<1>2. PICK u \in Nat, l \in Nat : u = Len(users) /\ l = Len(loop) BY <1>1
<1>3. l <= u /\ \A i \in 1..l : loop[i].to = users[u - l + i] BY <1>2 DEF Aligned
<1>4. \A i, j \in 1..u : users[i] = users[j] => i = j BY <1>1, <1>2 DEF IsInjective
<1>5. ASSUME NEW i \in 1..l, NEW j \in 1..l, loop[i].to = loop[j].to PROVE i = j
  <2>1. u - l + i \in 1..u /\ u - l + j \in 1..u BY <1>3
  <2>2. u - l + i = u - l + j BY <1>3, <1>4, <1>5, <2>1
  <2> QED BY <2>2
<1> QED BY <1>2, <1>5

(* When the loop moves on, its first item is off.                            *)
LEMMA TargetsMove ==
  ASSUME TypeOK, Aligned, pc \in {"send", "write"}, loop # <<>>, loop' = Tail(loop)
  PROVE  /\ Targets' = Targets \ {Item.to}
         /\ Item.to \in Targets <=> Item.msg # NoMsg
<1>1. loop \in Seq(Items) BY DEF TypeOK
<1>2. PICK n \in Nat : /\ n = Len(loop) /\ n # 0 /\ Len(loop') = n - 1 /\ loop' \in Seq(Items)
                       /\ \A i \in 1..(n - 1) : loop'[i] = loop[i + 1]
  BY <1>1, TailIs
<1>3. \A i, j \in 1..n : loop[i].to = loop[j].to => i = j BY <1>2, AlignedOnce
<1>4. Item = loop[1]
  <2>1. Head(loop) = loop[1] BY <1>1, TailIs
  <2> QED BY <2>1 DEF Item
<1>5. \A c : c \in Targets <=> \E i \in 1..n : loop[i].to = c /\ loop[i].msg # NoMsg
  BY <1>1, <1>2, TargetsIs
<1>6. \A c : c \in Targets' <=> \E i \in 1..(n - 1) : loop'[i].to = c /\ loop'[i].msg # NoMsg
  <2>1. \A x : x \in ToSet(loop') <=> \E i \in 1..Len(loop') : loop'[i] = x
    BY <1>2, ToSetIs
  <2>2. \A c : c \in Targets' <=> \E x \in ToSet(loop') : x.to = c /\ x.msg # NoMsg BY DEF Targets
  <2> QED BY <1>2, <2>1, <2>2
<1>7. ASSUME NEW c \in Targets' PROVE c \in Targets /\ c # Item.to
  <2>1. PICK i \in 1..(n - 1) : loop'[i].to = c /\ loop'[i].msg # NoMsg BY <1>6
  <2>2. i + 1 \in 1..n /\ 1 \in 1..n /\ i + 1 # 1 /\ loop'[i] = loop[i + 1] BY <1>2
  <2>3. loop[i + 1].to = c /\ loop[i + 1].msg # NoMsg BY <2>1, <2>2
  <2> QED BY <1>3, <1>4, <1>5, <2>2, <2>3
<1>8. ASSUME NEW c \in Targets, c # Item.to PROVE c \in Targets'
  <2>1. PICK i \in 1..n : loop[i].to = c /\ loop[i].msg # NoMsg BY <1>5
  <2>2. i # 1 BY <1>4, <1>8, <2>1
  <2>3. PICK k \in 1..(n - 1) : k + 1 = i
    <3>1. i - 1 \in 1..(n - 1) /\ (i - 1) + 1 = i BY <2>2
    <3> QED BY <3>1
  <2>4. loop'[k] = loop[i] BY <1>2, <2>3
  <2>5. loop'[k].to = c /\ loop'[k].msg # NoMsg BY <2>1, <2>4
  <2> QED BY <1>6, <2>3, <2>5
<1>9. 1 \in 1..n BY <1>2
<1>10. Item.to \in Targets <=> Item.msg # NoMsg BY <1>3, <1>4, <1>5, <1>9
<1> QED BY <1>7, <1>8, <1>10

(* A new loop visits all but those it skips.                                 *)
LEMMA TargetsStart ==
  ASSUME TypeOK, NEW m \in Msgs, m # NoMsg, NEW skip, loop' = Broadcast(m, skip)
  PROVE  Targets' = ToSet(users) \ skip
<1>1. /\ loop' \in Seq(Items) /\ Len(loop') = Len(users)
      /\ \A i \in 1..Len(users) :
           loop'[i].to = users[i] /\ loop'[i].msg = IF users[i] \in skip THEN NoMsg ELSE m
  BY BroadcastIs
<1>2. \A x : x \in ToSet(loop') <=> \E i \in 1..Len(loop') : loop'[i] = x BY <1>1, ToSetIs
<1>3. \A x : x \in ToSet(users) <=> \E i \in 1..Len(users) : users[i] = x
  BY ToSetIs DEF TypeOK, IsQueue
<1>4. \A c : c \in Targets' <=> \E i \in 1..Len(users) : loop'[i].to = c /\ loop'[i].msg # NoMsg
  BY <1>1, <1>2 DEF Targets
<1> QED BY <1>1, <1>3, <1>4

(* Every step keeps Aligned: a member is removed when its turn has come,   *)
(* which takes it off both.                                                *)
LEMMA AlignedStep ==
  ASSUME TypeOK, Places, Phases, LoopOK, RepliesOK, PendingOK, ErasesAMember, Aligned, Undisturbed,
         [Next]_vars
  PROVE  Aligned'
<1> USE DEF clients, servlet, database, local
<1>1. CASE UNCHANGED <<loop, users>> /\ (pc' \in {"send", "write"} => pc \in {"send", "write"})
  BY <1>1 DEF Aligned
<1>2. CASE pc' \notin {"send", "write"} BY <1>2 DEF Aligned
<1>3. CASE \E c \in Conns : Client(c) BY <1>1, <1>3, ClientStepIs
<1>4. ASSUME NEW m \in Msgs, NEW skip, loop' = Broadcast(m, skip), users' = users PROVE Aligned'
  <2>1. /\ Len(loop') = Len(users) /\ Len(users) \in Nat
        /\ \A i \in 1..Len(users) : loop'[i].to = users[i]
    BY <1>4, BroadcastIs
  <2>2. PICK n \in Nat : n = Len(users) BY <2>1
  <2>3. \A i \in 1..n : n - n + i = i OBVIOUS
  <2> QED BY <1>4, <2>1, <2>2, <2>3 DEF Aligned
<1>5. CASE Announce
  <2>0. PICK new : new = Head(newusers) OBVIOUS
  <2>00. PICK skip : skip = ToSet(Tail(newusers)) OBVIOUS
  <2>1. loop' = Broadcast(Msg("JOIN", new, 0), skip) /\ users' = users /\ newusers # <<>>
    BY <1>5, <2>0, <2>00 DEF Announce
  <2>2. new \in Conns BY <2>0, <2>1, TailIs DEF TypeOK, IsQueue
  <2>3. Msg("JOIN", new, 0) \in Msgs BY <2>2, MsgIs, BoundsAssumption DEF Kinds
  <2> QED BY <1>4, <2>1, <2>3
<1>6. ASSUME msgList # <<>>, NEW skip, StartJob(skip), users' = users PROVE Aligned'
  <2>1. Head(msgList) \in Msgs /\ loop' = Broadcast(Head(msgList), skip)
    BY <1>6, HeadIs DEF StartJob
  <2> QED BY <1>4, <1>6, <2>1
<1>7. CASE HandlePrivOrPart BY <1>6, <1>7 DEF HandlePrivOrPart, ToHandle
<1>8. CASE HandleTopic /\ ~Dies BY <1>6, <1>8 DEF HandleTopic, ToHandle
<1>9. /\ loop \in Seq(Items) /\ users \in Seq(Conns) /\ IsInjective(users)
      /\ Len(loop) \in Nat /\ Len(users) \in Nat /\ DOMAIN users = 1..Len(users)
  BY ToSetIs DEF TypeOK, IsQueue
<1>10. PICK l \in Nat, u \in Nat : l = Len(loop) /\ u = Len(users) BY <1>9
<1>11. ASSUME pc \in {"send", "write"}
       PROVE  l <= u /\ \A i \in 1..l : loop[i].to = users[u - l + i]
  BY <1>10, <1>11 DEF Aligned
<1>12. ASSUME loop # <<>>, loop' = Tail(loop)
       PROVE  l # 0 /\ Len(loop') = l - 1 /\ \A i \in 1..(l - 1) : loop'[i] = loop[i + 1]
  BY <1>9, <1>10, <1>12, TailIs
<1>13. ASSUME pc \in {"send", "write"}, loop # <<>>, loop' = Tail(loop), users' = users
       PROVE  Aligned'
  <2>1. l - 1 <= u BY <1>11, <1>13
  <2>2. ASSUME NEW i \in 1..(l - 1) PROVE loop'[i].to = users[u - (l - 1) + i]
    <3>1. i + 1 \in 1..l /\ u - l + (i + 1) = u - (l - 1) + i OBVIOUS
    <3>2. loop[i + 1].to = users[u - l + (i + 1)] BY <1>11, <1>13, <3>1
    <3> QED BY <1>12, <1>13, <3>1, <3>2
  <2> QED BY <1>10, <1>12, <1>13, <2>1, <2>2 DEF Aligned
<1>14. CASE SkipUser BY <1>13, <1>14 DEF SkipUser
<1>15. ASSUME loop = <<>>, UNCHANGED loop, IsQueue(users') PROVE Aligned'
  <2>1. Len(loop') = 0 /\ Len(users') \in Nat BY <1>15, EmptySeq, ToSetIs DEF IsQueue
  <2> QED BY <2>1 DEF Aligned
<1>16. CASE Write
  <2>1. pc = "write" /\ users' = users BY <1>16 DEF Write
  <2>2. CASE loop # <<>> BY <1>13, <1>16, <2>1, <2>2 DEF Write, MoveOn
  <2>3. CASE loop = <<>> BY <1>15, <1>16, <2>1, <2>3 DEF Write, MoveOn, TypeOK
  <2> QED BY <2>2, <2>3
<1>17. CASE WriteFails /\ ~Crashes
  <2>1. /\ pc = "write" /\ Broken(Item.to) /\ RemoveTraceOf(Item.to)
        /\ loop # <<>> => loop' = AfterErasing(Item.to, Tail(loop))
        /\ loop = <<>> => loop' = loop
    BY <1>17 DEF WriteFails, MoveOn
  <2>2. CASE loop = <<>> BY <1>15, <2>1, <2>2, TraceRemoved
  <2>3. CASE loop # <<>>
    <3>1. loop' = Tail(loop) BY <2>1, <2>3 DEF Undisturbed
    <3>2. PICK k \in 1..u : users[k] = Item.to /\ users' = RemoveAt(users, k)
      <4>1. Item.to \in ToSet(users) BY <2>1 DEF ErasesAMember
      <4> QED BY <1>10, <2>1, <4>1, TraceRemoved
    <3>3. /\ Len(users') = u - 1
          /\ \A i \in 1..(u - 1) : users'[i] = IF i < k THEN users[i] ELSE users[i + 1]
      BY <1>9, <1>10, <3>2, RemoveAtIs
    <3>4. l # 0 /\ Len(loop') = l - 1 /\ \A i \in 1..(l - 1) : loop'[i] = loop[i + 1]
      BY <1>12, <2>3, <3>1
    <3>5. l <= u /\ \A i \in 1..l : loop[i].to = users[u - l + i] BY <1>11, <2>1
    <3>6. k = u - l + 1
      <4>1. Item = loop[1] /\ 1 \in 1..l
        <5>1. Item = Head(loop) /\ Head(loop) = loop[1] BY <1>9, <2>3, TailIs DEF Item
        <5> QED BY <3>4, <5>1
      <4>2. users[u - l + 1] = users[k] /\ u - l + 1 \in 1..u BY <3>2, <3>4, <3>5, <4>1
      <4>3. \A i, j \in 1..u : users[i] = users[j] => i = j BY <1>9, <1>10 DEF IsInjective
      <4> QED BY <4>2, <4>3
    <3>7. ASSUME NEW i \in 1..(l - 1) PROVE loop'[i].to = users'[(u - 1) - (l - 1) + i]
      <4>1. /\ i + 1 \in 1..l /\ u - l + i \in 1..(u - 1) /\ ~(u - l + i < k)
            /\ (u - 1) - (l - 1) + i = u - l + i /\ u - l + (i + 1) = (u - l + i) + 1
        BY <3>4, <3>5, <3>6
      <4>2. loop'[i].to = users[u - l + (i + 1)] BY <3>4, <3>5, <4>1
      <4>3. users'[u - l + i] = users[(u - l + i) + 1] BY <3>3, <4>1
      <4> QED BY <4>1, <4>2, <4>3
    <3>8. l - 1 <= u - 1 BY <3>4, <3>5
    <3> QED BY <3>3, <3>4, <3>7, <3>8 DEF Aligned
  <2> QED BY <2>2, <2>3
<1>18. ThreadRun \/ Terminated \/ UNCHANGED vars =>
         \/ UNCHANGED <<loop, users>> /\ (pc' \in {"send", "write"} => pc \in {"send", "write"})
         \/ pc' \notin {"send", "write"} \/ Announce \/ HandlePrivOrPart \/ (HandleTopic /\ ~Dies)
         \/ SkipUser \/ Write \/ (WriteFails /\ ~Crashes)
  BY DEF ThreadRun, Terminated, vars, GrabNew, AllAnnounced, GetSockForUser, ToWrite,
     GetSockForUserFails, WriteFails, NewuserHandled, UpdateEndmsgs, NextEntry, HandleTopic,
     HandleMsgOfNobody, LogPriv, PartEnds, TopicEnds, Crashes, Dies
<1> QED BY <1>1, <1>2, <1>3, <1>5, <1>7, <1>8, <1>14, <1>16, <1>17, <1>18 DEF Next
-----------------------------------------------------------------------------
(* What a step does to what the members see.                               *)

(* What a step does to what the members see, while the thread lives.       *)
(* Nothing;                                                                *)
Rests ==
  /\ UNCHANGED <<users, newusers, inbox, job, topic, names, replies, log>>
  /\ Targets' = Targets /\ (loop' # <<>> => loop # <<>>)

(* the newusers are taken in; *)
Grabs ==
  /\ pc = "grab" /\ newusers = <<>> /\ newusers' = waiting
  /\ ToSet(users') = ToSet(users) \cup ToSet(waiting)
  /\ job = NoMsg /\ loop' = <<>> /\ Targets = {} /\ Targets' = {}
  /\ UNCHANGED <<inbox, job, topic, names, replies, log>>

(* a newuser starts to be announced, to all but those that are still to    *)
(* be;                                                                     *)
Announces(new) ==
  /\ new \in ToSet(newusers) /\ new \in ToSet(users)
  /\ ToSet(newusers') = ToSet(newusers) \ {new}
  /\ job = NoMsg /\ job' = Msg("JOIN", new, 0) /\ names = {} /\ Len(replies') = 3
  /\ Targets' = ToSet(users) \ ToSet(newusers')
  /\ UNCHANGED <<users, inbox, topic, names, log>>

(* a message or a reply is delivered, or lost with the client that closed; *)
Delivers ==
  /\ job.kind \in ToAll /\ Item.to \in Conns /\ Item.to \in ToSet(users)
  /\ Item.to \notin ToSet(newusers) /\ ~Broken(Item.to)
  /\ \/ inbox' = inbox /\ peer[Item.to] \notin {"open", "parting"}
     \/ /\ inbox' = [inbox EXCEPT ![Item.to] = Append(@, Written)] /\ peer' = peer
        /\ peer[Item.to] \in {"open", "parting"}
  /\ Written \in Msgs
  /\ Targets' = Targets \ {Item.to}
  /\ loop # <<>> => /\ Written = job /\ Item.to \in Targets /\ UNCHANGED replies
                    /\ names' = IF job.kind = "JOIN" THEN names \cup {Item.to} ELSE names
  /\ loop = <<>> => /\ job.kind = "JOIN" /\ Item.to = job.of /\ Written.of = job.of
                    /\ Len(replies) \in 1..3 /\ Len(replies') = Len(replies) - 1
                    /\ Written.kind = ReplyKinds[4 - Len(replies)]
                    /\ Written.kind = "RPL_TOPIC" => Written.val = topic
                    /\ Written.kind = "RPL_NAMREPLY" => Written.names = names
                    /\ Targets = {} /\ loop' = <<>> /\ UNCHANGED names
  /\ UNCHANGED <<users, newusers, job, topic, log>>

(* a member whose write failed is removed; *)
Removes ==
  /\ job.kind \in ToAll /\ Item.to \in Conns /\ Broken(Item.to)
  /\ ToSet(users') = ToSet(users) \ {Item.to} /\ Targets' = Targets \ {Item.to}
  /\ loop # <<>> => /\ UNCHANGED replies
                    /\ names' = IF job.kind = "JOIN" THEN names \cup {Item.to} ELSE names
  /\ loop = <<>> => /\ job.kind = "JOIN" /\ Item.to = job.of
                    /\ Targets = {} /\ loop' = <<>> /\ UNCHANGED names
  /\ UNCHANGED <<newusers, inbox, job, topic, log>>

(* a message is done with; *)
Ends ==
  /\ job.kind \in ToAll /\ job' = NoMsg /\ loop = <<>> /\ replies = <<>>
  /\ loop' = <<>> /\ Targets = {} /\ Targets' = {}
  /\ IF job.kind = "PART" THEN ToSet(users') = ToSet(users) \ {job.of} ELSE users' = users
  /\ job.kind # "PRIVMSG" => log' = log
  /\ UNCHANGED <<newusers, inbox, topic>>

(* or a message starts to be handled. *)
Starts ==
  /\ newusers = <<>> /\ newusers' = <<>> /\ msgList # <<>>
  /\ job = NoMsg /\ job' = Head(msgList) /\ job'.kind \in {"PRIVMSG", "TOPIC", "PART"}
  /\ job'.of = cursor
  /\ Targets' = ToSet(users) \ (IF job'.kind = "TOPIC" THEN {} ELSE {cursor})
  /\ topic' = IF job'.kind = "TOPIC" THEN job'.val ELSE topic
  /\ UNCHANGED <<users, inbox, names, log>>

(* There is no other way. *)
LEMMA ViewStep ==
  ASSUME TypeOK, Places, Phases, LoopOK, RepliesOK, PendingOK, ErasesAMember, Aligned, Undisturbed,
         [Next]_vars, Alive'
  PROVE  \/ Rests \/ Grabs \/ (\E new \in Conns : Announces(new))
         \/ Delivers \/ Removes \/ Ends \/ Starts
<1> USE DEF clients, servlet, database, local
<1>0. ~Dies /\ ~Crashes BY DEF Dies, Crashes, Alive
<1>1. loop \in Seq(Items) /\ (loop = <<>> => Targets = {}) BY TargetsIs DEF TypeOK
<1>2. loop' = <<>> => Targets' = {}
  <2>1. loop' = <<>> => ToSet(loop') = {} BY NothingIn
  <2> QED BY <2>1 DEF Targets
<1>3. loop' = loop => Targets' = Targets BY DEF Targets
<1>4. CASE UNCHANGED <<users, newusers, inbox, job, topic, names, replies, log, loop>>
  BY <1>3, <1>4 DEF Rests
<1>5. CASE \E c \in Conns : Client(c) BY <1>4, <1>5, ClientStepIs
<1>6. CASE GrabNew
  <2>1. /\ pc = "grab" /\ users' = users \o waiting /\ newusers' = waiting
        /\ UNCHANGED <<inbox, job, topic, names, replies, log, loop>>
    BY <1>0, <1>6 DEF GrabNew
  <2>2. newusers = <<>> /\ job = NoMsg /\ loop = <<>> BY <2>1 DEF Phases
  <2>3. ToSet(users \o waiting) = ToSet(users) \cup ToSet(waiting)
    BY ConcatIs DEF TypeOK, IsQueue
  <2> QED BY <1>1, <1>2, <2>1, <2>2, <2>3 DEF Grabs
<1>7. CASE Announce
  <2>0. PICK new : new = Head(newusers) OBVIOUS
  <2>00. PICK skip : skip = ToSet(Tail(newusers)) OBVIOUS
  <2>1. /\ loop' = Broadcast(Msg("JOIN", new, 0), skip) /\ job' = Msg("JOIN", new, 0)
        /\ newusers # <<>> /\ newusers' = Tail(newusers) /\ pc = "announce"
        /\ UNCHANGED <<users, inbox, topic, names, log>>
        /\ replies' = [i \in 1..3 |->
             [to |-> new, msg |-> <<Msg("RPL_TOPIC", new, topic), Msg("RPL_NAMREPLY", new, 0),
                                    Msg("RPL_ENDOFNAMES", new, 0)>>[i]]]
    BY <1>7, <2>0, <2>00 DEF Announce
  <2>2. /\ new \in Conns /\ new \in ToSet(newusers)
        /\ ToSet(newusers') = ToSet(newusers) \ {new} /\ skip = ToSet(newusers')
    <3>1. newusers \in Seq(Conns) /\ IsInjective(newusers) /\ newusers # <<>>
      BY <2>1 DEF TypeOK, IsQueue
    <3>2. /\ new \in Conns /\ ToSet(newusers) = {new} \cup ToSet(Tail(newusers))
          /\ new \notin ToSet(Tail(newusers))
      BY <2>0, <3>1, TailIs
    <3> QED BY <2>00, <2>1, <3>2
  <2>3. Len(replies') = 3 BY <2>1, <2>2, RepliesAre
  <2>4. Msg("JOIN", new, 0) \in Msgs BY <2>2, MsgIs, BoundsAssumption DEF Kinds
  <2>5. Msg("JOIN", new, 0) # NoMsg BY MsgIs
  <2>6. Targets' = ToSet(users) \ skip BY <2>1, <2>4, <2>5, TargetsStart
  <2>7. job = NoMsg /\ names = {}
    <3>1. job = NoMsg BY <2>1 DEF Phases
    <3> QED BY <3>1, MsgIs DEF Phases
  <2>8. new \in ToSet(users) BY <2>2 DEF Places
  <2> QED BY <2>1, <2>2, <2>3, <2>6, <2>7, <2>8 DEF Announces
<1>8. CASE SkipUser
  <2>1. /\ pc = "send" /\ loop # <<>> /\ Item.msg = NoMsg /\ loop' = Tail(loop)
        /\ UNCHANGED <<users, newusers, inbox, job, topic, names, replies, log>>
    BY <1>8 DEF SkipUser
  <2>2. Targets' = Targets BY <2>1, TargetsMove
  <2> QED BY <2>1, <2>2 DEF Rests
<1>9. CASE Write
  <2>1. /\ pc = "write" /\ ~Broken(Item.to) /\ loop \o replies # <<>> /\ Item.msg # NoMsg
        /\ job.kind \in ToAll /\ names' = NamesSoFar
        /\ UNCHANGED <<users, newusers, job, topic, log>>
        /\ loop # <<>> => loop' = Tail(loop) /\ UNCHANGED replies
        /\ loop = <<>> => replies' = Tail(replies) /\ UNCHANGED loop
        /\ IF peer[Item.to] \in {"open", "parting"}
           THEN inbox' = [inbox EXCEPT ![Item.to] = Append(@, Written)] /\ peer' = peer
           ELSE inbox' = inbox
    BY <1>9 DEF Write, Phases, MoveOn
  <2>2. /\ Item.to \in Conns /\ Item.to \notin ToSet(newusers)
        /\ loop # <<>> => Item.msg = job
        /\ loop = <<>> => job.kind = "JOIN" /\ Item.to = job.of
    BY <2>1, ItemToIs
  <2>3. /\ Written \in Msgs /\ Written.kind = Item.msg.kind /\ Written.of = Item.msg.of
        /\ Written.val = Item.msg.val
        /\ Written.kind # "RPL_NAMREPLY" => Written = Item.msg
        /\ Written.kind = "RPL_NAMREPLY" => Written.names = names
    BY <2>1, WrittenIs
  <2>4. Item.to \in ToSet(users) BY <2>1 DEF ErasesAMember
  <2>5. CASE loop # <<>>
    <3>1. Targets' = Targets \ {Item.to} /\ Item.to \in Targets BY <2>1, <2>5, TargetsMove
    <3>2. Written = job BY <2>1, <2>2, <2>3, <2>5 DEF ToAll
    <3>3. names' = IF job.kind = "JOIN" THEN names \cup {Item.to} ELSE names
      BY <2>1, <2>5 DEF NamesSoFar
    <3> QED BY <2>1, <2>2, <2>3, <2>4, <2>5, <3>1, <3>2, <3>3 DEF Delivers
  <2>6. CASE loop = <<>>
    <3>1. Item = replies[1] /\ 1 \in DOMAIN replies /\ replies # <<>> BY <2>1, <2>6, ItemIs
    <3>2. DOMAIN replies = 1..Len(replies) /\ Len(replies) \in Nat /\ Len(replies) <= 3
      BY ToSetIs DEF TypeOK, RepliesOK
    <3>3. /\ Item.msg.of = job.of /\ Item.msg.kind = ReplyKinds[3 - Len(replies) + 1]
          /\ Item.msg.kind = "RPL_TOPIC" => Item.msg.val = topic
      BY <3>1 DEF RepliesOK
    <3>4. 3 - Len(replies) + 1 = 4 - Len(replies) /\ Len(replies) \in 1..3 BY <3>1, <3>2
    <3>5. Len(replies') = Len(replies) - 1 BY <2>1, <2>6, <3>1, TailIs DEF TypeOK
    <3>6. names' = names BY <2>1, <2>6 DEF NamesSoFar
    <3>7. Targets = {} /\ Targets' = {} /\ loop' = <<>> BY <1>1, <1>2, <2>1, <2>6
    <3> QED BY <2>1, <2>2, <2>3, <2>4, <2>6, <3>3, <3>4, <3>5, <3>6, <3>7 DEF Delivers
  <2> QED BY <2>5, <2>6
<1>10. CASE WriteFails
  <2>1. /\ pc = "write" /\ Broken(Item.to) /\ loop \o replies # <<>> /\ Item.msg # NoMsg
        /\ job.kind \in ToAll /\ names' = NamesSoFar /\ RemoveTraceOf(Item.to)
        /\ UNCHANGED <<newusers, inbox, job, topic, log>>
        /\ loop # <<>> => loop' = AfterErasing(Item.to, Tail(loop)) /\ UNCHANGED replies
        /\ loop = <<>> => UNCHANGED loop
    BY <1>0, <1>10 DEF WriteFails, Phases, MoveOn
  <2>2. /\ Item.to \in Conns
        /\ loop = <<>> => job.kind = "JOIN" /\ Item.to = job.of
    BY <2>1, ItemToIs
  <2>3. ToSet(users') = ToSet(users) \ {Item.to} BY <2>1, TraceRemoved
  <2>4. CASE loop # <<>>
    <3>1. loop' = Tail(loop) BY <2>1, <2>4 DEF Undisturbed
    <3>2. Targets' = Targets \ {Item.to} BY <2>1, <2>4, <3>1, TargetsMove
    <3>3. names' = IF job.kind = "JOIN" THEN names \cup {Item.to} ELSE names
      BY <2>1, <2>4 DEF NamesSoFar
    <3> QED BY <2>1, <2>2, <2>3, <2>4, <3>2, <3>3 DEF Removes
  <2>5. CASE loop = <<>>
    <3>1. names' = names BY <2>1, <2>5 DEF NamesSoFar
    <3>2. Targets = {} /\ Targets' = {} /\ loop' = <<>> BY <1>1, <1>2, <2>1, <2>5
    <3> QED BY <2>1, <2>2, <2>3, <2>5, <3>1, <3>2 DEF Removes
  <2> QED BY <2>4, <2>5
<1>11. ASSUME loop = <<>>, replies = <<>>, job.kind \in ToAll, job' = NoMsg, loop' = loop,
              UNCHANGED <<newusers, inbox, topic>>, job.kind # "PRIVMSG" => log' = log,
              IF job.kind = "PART" THEN ToSet(users') = ToSet(users) \ {job.of} ELSE users' = users
       PROVE  Ends
  BY <1>1, <1>2, <1>11 DEF Ends
<1>12. CASE NewuserHandled BY <1>11, <1>12 DEF NewuserHandled, Sent, ToAll
<1>13. CASE LogPriv BY <1>0, <1>11, <1>13 DEF LogPriv, Sent, ToAll
<1>14. CASE TopicEnds BY <1>0, <1>11, <1>14 DEF TopicEnds, Sent, ToAll
<1>15. CASE PartEnds
  <2>1. /\ loop = <<>> /\ replies = <<>> /\ job.kind = "PART" /\ job' = NoMsg /\ loop' = loop
        /\ RemoveTraceOf(cursor) /\ UNCHANGED <<newusers, inbox, topic, log>>
    BY <1>0, <1>15 DEF PartEnds, Sent
  <2>2. ToSet(users') = ToSet(users) \ {cursor} BY <2>1, TraceRemoved
  <2>3. job.of = cursor BY <2>1 DEF Phases, ToAll
  <2> QED BY <1>11, <2>1, <2>2, <2>3 DEF ToAll
<1>16. ASSUME NEW kind \in {"PRIVMSG", "TOPIC", "PART"}, ToHandle(kind), NEW skip, StartJob(skip),
              skip = (IF kind = "TOPIC" THEN {} ELSE {cursor}),
              topic' = (IF kind = "TOPIC" THEN Head(msgList).val ELSE topic),
              UNCHANGED <<users, newusers, inbox, names, log>>
       PROVE  Starts
  <2>1. /\ pc = "handle" /\ msgList # <<>> /\ job' = Head(msgList) /\ job'.kind = kind
        /\ loop' = Broadcast(Head(msgList), skip)
    BY <1>16 DEF ToHandle, StartJob
  <2>2. Head(msgList) \in Msgs /\ Head(msgList).of = cursor BY <2>1, HeadIs
  <2>3. Head(msgList) # NoMsg BY <1>16, <2>1, MsgIs
  <2>4. Targets' = ToSet(users) \ skip BY <2>1, <2>2, <2>3, TargetsStart
  <2>5. newusers = <<>> /\ job = NoMsg BY <2>1 DEF Phases
  <2> QED BY <1>16, <2>1, <2>2, <2>4, <2>5 DEF Starts
<1>17. CASE HandlePrivOrPart
  <2>1. PICK kind \in {"PRIVMSG", "PART"} : ToHandle(kind) BY <1>17 DEF HandlePrivOrPart
  <2> QED BY <1>16, <1>17, <2>1 DEF HandlePrivOrPart
<1>18. CASE HandleTopic BY <1>0, <1>16, <1>18 DEF HandleTopic, ToHandle
<1>19. GetSockForUserFails \/ HandleMsgOfNobody => Dies \/ Crashes
  BY DEF GetSockForUserFails, HandleMsgOfNobody
<1>20. AllAnnounced \/ GetSockForUser \/ UpdateEndmsgs \/ NextEntry \/ Terminated
       \/ UNCHANGED vars =>
         UNCHANGED <<users, newusers, inbox, job, topic, names, replies, log, loop>>
  BY <1>0 DEF AllAnnounced, GetSockForUser, UpdateEndmsgs, NextEntry, Terminated, vars
<1> QED
  BY <1>0, <1>4, <1>5, <1>6, <1>7, <1>8, <1>9, <1>10, <1>12, <1>13, <1>14, <1>15, <1>17, <1>18,
     <1>19, <1>20
  DEF Next, ThreadRun
(* Where an inbox ends when something is delivered.                          *)
LEMMA DeliverIs ==
  ASSUME TypeOK, Delivers, NEW c \in Conns
  PROVE  \/ inbox'[c] = inbox[c] /\ (c = Item.to => peer[c] \notin {"open", "parting"})
         \/ \E n \in Nat :
              /\ c = Item.to /\ peer' = peer /\ peer[c] \in {"open", "parting"}
              /\ n = Len(inbox[c]) /\ DOMAIN inbox[c] = 1..n
              /\ Len(inbox'[c]) = n + 1 /\ DOMAIN inbox'[c] = 1..(n + 1)
              /\ inbox'[c][n + 1] = Written /\ \A i \in 1..n : inbox'[c][i] = inbox[c][i]
              /\ ToSet(inbox'[c]) = ToSet(inbox[c]) \cup {Written}
<1>1. CASE inbox' = inbox /\ peer[Item.to] \notin {"open", "parting"} BY <1>1
<1>2. CASE ~(inbox' = inbox /\ peer[Item.to] \notin {"open", "parting"})
  <2>1. /\ inbox' = [inbox EXCEPT ![Item.to] = Append(@, Written)] /\ peer' = peer
        /\ Item.to \in Conns /\ peer[Item.to] \in {"open", "parting"}
    BY <1>2 DEF Delivers
  <2>2. CASE c # Item.to BY <2>1, <2>2 DEF TypeOK
  <2>3. CASE c = Item.to
    <3>1. PICK w \in Msgs : w = Written BY DEF Delivers
    <3>2. inbox[c] \in Seq(Msgs) /\ inbox'[c] = Append(inbox[c], w) BY <2>1, <2>3, <3>1 DEF TypeOK
    <3>3. PICK n \in Nat : n = Len(inbox[c]) /\ DOMAIN inbox[c] = 1..n BY <3>2, ToSetIs
    <3>4. /\ Len(Append(inbox[c], w)) = n + 1 /\ DOMAIN Append(inbox[c], w) = 1..(n + 1)
          /\ \A i \in 1..n : Append(inbox[c], w)[i] = inbox[c][i]
          /\ Append(inbox[c], w)[n + 1] = w
          /\ ToSet(Append(inbox[c], w)) = ToSet(inbox[c]) \cup {w}
      BY <3>2, <3>3, AppendIs
    <3> QED BY <2>1, <2>3, <3>1, <3>2, <3>3, <3>4
  <2> QED BY <2>2, <2>3
<1> QED BY <1>1, <1>2

(* The end of the thread leaves the inboxes and the log as they are.         *)
LEMMA EndStep ==
  ASSUME TypeOK, Phases, [Next]_vars, ~Alive'
  PROVE  /\ inbox' = inbox /\ log' = log
         /\ \/ job' = NoMsg /\ Targets' = {}
            \/ job' = job /\ Targets' = Targets
<1> USE DEF clients, servlet, database, local
<1>1. Dies => job' = NoMsg /\ Targets' = {}
  <2>1. ToSet(<<>>) = {} BY NothingIn
  <2> QED BY <2>1 DEF Dies, Targets
<1>2. UNCHANGED <<job, loop>> => job' = job /\ Targets' = Targets BY DEF Targets
<1>3. CASE \E c \in Conns : Client(c) BY <1>2, <1>3, ClientStepIs
<1>4. ThreadRun => (Dies \/ UNCHANGED <<job, loop>>) /\ UNCHANGED <<inbox, log>>
  BY DEF Alive, ThreadRun, GrabNew, Announce, AllAnnounced, SkipUser, GetSockForUser,
     GetSockForUserFails, Write, WriteFails, NewuserHandled, UpdateEndmsgs, NextEntry,
     HandlePrivOrPart, HandleTopic, HandleMsgOfNobody, LogPriv, PartEnds, TopicEnds,
     Crashes, StartJob, ToHandle, Sent
<1>5. Terminated \/ UNCHANGED vars => UNCHANGED <<job, loop, inbox, log>>
  BY DEF Terminated, vars
<1> QED BY <1>1, <1>2, <1>3, <1>4, <1>5, ClientStepIs DEF Next

(* A new job has not been delivered to anybody.                              *)
LEMMA FreshJob ==
  ASSUME IInv, Starts \/ \E new \in Conns : Announces(new)
  PROVE  /\ \A c \in Conns : \A m \in ToSet(inbox[c]) : m # job'
         /\ inbox' = inbox
<1>1. inbox' = inbox BY DEF Starts, Announces
<1>2. ASSUME NEW new \in Conns, Announces(new), NEW c \in Conns, NEW m \in ToSet(inbox[c])
      PROVE  m # job'
  <2>1. job' = Msg("JOIN", new, 0) /\ Unannounced(new) BY <1>2 DEF Announces, Unannounced
  <2>2. m.kind \in ToAll => m.of # new BY <2>1 DEF IInv, Silent
  <2> QED BY <2>1, <2>2, MsgIs DEF ToAll
<1>3. ASSUME Starts, NEW c \in Conns, NEW m \in ToSet(inbox[c]) PROVE m # job'
  <2>1. /\ msgList # <<>> /\ job' = Head(msgList) /\ job = NoMsg BY <1>3 DEF Starts
  <2>2. PICK d \in Conns : /\ d = cursor /\ Head(msgList) \in ToSet(Pending(d))
                           /\ Head(msgList).of = d /\ Head(msgList).kind \in ToAll
                           /\ Head(msgList) \in Msgs
    BY <2>1, HeadIs DEF IInv
  <2>3. NoMsg.kind \notin ToAll BY MsgIs DEF ToAll
  <2>4. ASSUME m = Head(msgList) PROVE FALSE
    <3>1. Rank(m) < Rank(m) BY <2>1, <2>2, <2>3, <2>4 DEF IInv, DeliveredOK
    <3>2. Rank(m) \in Int BY <2>2, <2>4, BoundsAssumption DEF Rank, Msgs
    <3> QED BY <3>1, <3>2
  <2> QED BY <2>1, <2>4
<1> QED BY <1>1, <1>2, <1>3

(* A reply is not heard by all.                                              *)
LEMMA ReplyIs ==
  ASSUME Delivers, loop = <<>>
  PROVE  Written.kind \notin ToAll
<1>1. PICK n \in 1..3 : Written.kind = ReplyKinds[4 - n] BY DEF Delivers
<1>2. 4 - n \in 1..3 OBVIOUS
<1> QED BY <1>1, <1>2 DEF ReplyKinds, ToAll

(* Every step keeps NewestLast: a message is in hand until it is done      *)
(* with.                                                                   *)
LEMMA NewestLastStep ==
  ASSUME IInv, Aligned, Undisturbed, NewestLast, NotYet, [Next]_vars
  PROVE  NewestLast'
<1> USE DEF IInv
<1>0. NoMsg.kind \notin ToAll BY MsgIs DEF ToAll
<1>1. CASE inbox' = inbox /\ job' \in {job, NoMsg}
  BY <1>0, <1>1 DEF NewestLast
<1>2. CASE ~Alive' BY <1>1, <1>2, EndStep
<1>3. CASE Rests \/ Grabs \/ Removes \/ Ends
  BY <1>1, <1>3 DEF Rests, Grabs, Removes, Ends
<1>4. CASE Starts \/ \E new \in Conns : Announces(new)
  BY <1>4, FreshJob DEF NewestLast, ToSet
<1>5. CASE Delivers
  <2> SUFFICES ASSUME NEW c \in Conns, NEW i \in DOMAIN inbox'[c], NEW j \in DOMAIN inbox'[c],
                      job'.kind \in ToAll, inbox'[c][i] = job', i < j
               PROVE  inbox'[c][j].kind \notin ToAll
    BY DEF NewestLast
  <2>1. job' = job BY <1>5 DEF Delivers
  <2>2. CASE inbox'[c] = inbox[c] BY <2>1, <2>2 DEF NewestLast
  <2>3. CASE inbox'[c] # inbox[c]
    <3>1. PICK n \in Nat :
            /\ c = Item.to /\ DOMAIN inbox[c] = 1..n /\ DOMAIN inbox'[c] = 1..(n + 1)
            /\ inbox'[c][n + 1] = Written /\ \A k \in 1..n : inbox'[c][k] = inbox[c][k]
      BY <1>5, <2>3, DeliverIs
    <3>2. CASE j \in 1..n
      <4>1. i \in 1..n /\ inbox[c][i] = job BY <2>1, <3>1, <3>2
      <4> QED BY <2>1, <3>1, <3>2, <4>1 DEF NewestLast
    <3>3. CASE j = n + 1
      <4>1. i \in 1..n /\ inbox[c][i] = job BY <2>1, <3>1, <3>3
      <4>2. loop = <<>> BY <1>5, <3>1, <4>1 DEF Delivers, NotYet
      <4> QED BY <1>5, <3>1, <3>3, <4>2, ReplyIs
    <3> QED BY <3>1, <3>2, <3>3
  <2> QED BY <2>2, <2>3
<1> QED BY <1>2, <1>3, <1>4, <1>5, ViewStep

(* Every step keeps NotYet: nobody is visited twice in one loop. *)
LEMMA NotYetStep ==
  ASSUME IInv, Aligned, Undisturbed, NotYet, [Next]_vars
  PROVE  NotYet'
<1> USE DEF IInv
<1>0. Targets \subseteq Conns BY TargetsIs DEF TypeOK
<1>1. CASE inbox' = inbox /\ job' = job /\ Targets' \subseteq Targets BY <1>1 DEF NotYet
<1>2. CASE Targets' = {} BY <1>2 DEF NotYet
<1>3. CASE ~Alive' BY <1>1, <1>2, <1>3, EndStep
<1>4. CASE Rests \/ Grabs \/ Removes \/ Ends
  BY <1>1, <1>2, <1>4 DEF Rests, Grabs, Removes, Ends
<1>5. CASE Starts \/ \E new \in Conns : Announces(new)
  <2>1. Targets' \subseteq ToSet(users) BY <1>5 DEF Starts, Announces
  <2>2. ToSet(users) \subseteq Conns BY ToSetIs DEF TypeOK, IsQueue
  <2> QED BY <1>5, <2>1, <2>2, FreshJob DEF NotYet, ToSet
<1>6. CASE Delivers
  <2>1. job' = job /\ Targets' = Targets \ {Item.to} BY <1>6 DEF Delivers
  <2>2. \A c \in Targets' : inbox'[c] = inbox[c] BY <1>0, <1>6, <2>1, DeliverIs
  <2> QED BY <2>1, <2>2 DEF NotYet
<1> QED BY <1>3, <1>4, <1>5, <1>6, ViewStep

(* Every step keeps Ranked: a message is delivered when nothing later of   *)
(* its sender is.                                                          *)
LEMMA RankedStep ==
  ASSUME IInv, Aligned, Undisturbed, NotYet, Ranked, [Next]_vars
  PROVE  Ranked'
<1> USE DEF IInv
<1>1. CASE inbox' = inbox BY <1>1 DEF Ranked
<1>2. CASE ~Alive' BY <1>1, <1>2, EndStep
<1>3. CASE Rests \/ Grabs \/ Removes \/ Ends \/ Starts \/ \E new \in Conns : Announces(new)
  BY <1>1, <1>3 DEF Rests, Grabs, Removes, Ends, Starts, Announces
<1>4. CASE Delivers
  <2> SUFFICES ASSUME NEW c \in Conns, NEW i \in DOMAIN inbox'[c], NEW j \in DOMAIN inbox'[c],
                      i < j, inbox'[c][i].kind \in ToAll, inbox'[c][j].kind \in ToAll,
                      inbox'[c][i].of = inbox'[c][j].of
               PROVE  Rank(inbox'[c][i]) < Rank(inbox'[c][j])
    BY DEF Ranked
  <2>1. CASE inbox'[c] = inbox[c] BY <2>1 DEF Ranked
  <2>2. CASE inbox'[c] # inbox[c]
    <3>1. PICK n \in Nat :
            /\ c = Item.to /\ DOMAIN inbox[c] = 1..n /\ DOMAIN inbox'[c] = 1..(n + 1)
            /\ inbox'[c][n + 1] = Written /\ \A k \in 1..n : inbox'[c][k] = inbox[c][k]
      BY <1>4, <2>2, DeliverIs
    <3>2. i \in 1..n /\ inbox'[c][i] = inbox[c][i] BY <3>1
    <3>3. CASE j \in 1..n BY <3>1, <3>2, <3>3 DEF Ranked
    <3>4. CASE j = n + 1
      <4>1. loop # <<>> BY <1>4, <3>1, <3>4, ReplyIs
      <4>2. Written = job /\ Item.to \in Targets BY <1>4, <4>1 DEF Delivers
      <4>3. PICK m : m = inbox[c][i] OBVIOUS
      <4>4. m # job /\ m \in ToSet(inbox[c]) BY <3>1, <3>2, <4>2, <4>3 DEF NotYet, ToSet
      <4>5. PICK d : d = job.of OBVIOUS
      <4>6. m.kind \in ToAll /\ m.of = d BY <3>1, <3>2, <3>4, <4>2, <4>3, <4>5
      <4>7. job \in ToSet(Pending(d)) BY <1>4, <4>5, JobIs DEF Delivers
      <4>8. Rank(m) < Rank(job) BY <4>4, <4>6, <4>7 DEF DeliveredOK
      <4> QED BY <3>1, <3>2, <3>4, <4>2, <4>3, <4>8
    <3> QED BY <3>1, <3>3, <3>4
  <2> QED BY <2>1, <2>2
<1> QED BY <1>2, <1>3, <1>4, ViewStep

(* Every step keeps SameOrder: what is delivered is the newest message     *)
(* everywhere.                                                             *)
LEMMA SameOrderStep ==
  ASSUME IInv, Aligned, Undisturbed, NewestLast, NotYet, SameOrder, [Next]_vars
  PROVE  SameOrder'
<1> USE DEF IInv
<1>1. CASE inbox' = inbox BY <1>1 DEF SameOrder
<1>2. CASE ~Alive' BY <1>1, <1>2, EndStep
<1>3. CASE Rests \/ Grabs \/ Removes \/ Ends \/ Starts \/ \E new \in Conns : Announces(new)
  BY <1>1, <1>3 DEF Rests, Grabs, Removes, Ends, Starts, Announces
<1>4. CASE Delivers
  <2> SUFFICES ASSUME NEW c \in Conns, NEW d \in Conns,
                      NEW i \in DOMAIN inbox'[c], NEW j \in DOMAIN inbox'[c],
                      NEW k \in DOMAIN inbox'[d], NEW l \in DOMAIN inbox'[d],
                      i < j, inbox'[c][i].kind \in ToAll, inbox'[c][j].kind \in ToAll,
                      inbox'[d][k] = inbox'[c][j], inbox'[d][l] = inbox'[c][i], k < l
               PROVE  FALSE
    BY DEF SameOrder
  <2>0. PICK to : to = Item.to OBVIOUS
  <2>1. \A e \in Conns : e # to => inbox'[e] = inbox[e] BY <1>4, <2>0, DeliverIs
  <2>2. CASE inbox'[to] = inbox[to]
    <3>1. inbox'[c] = inbox[c] /\ inbox'[d] = inbox[d] BY <2>1, <2>2
    <3> QED BY <3>1 DEF SameOrder
  <2>3. CASE inbox'[to] # inbox[to]
    <3>1. to \in Conns BY <1>4, <2>0 DEF Delivers
    <3>2. PICK n \in Nat :
            /\ DOMAIN inbox[to] = 1..n /\ DOMAIN inbox'[to] = 1..(n + 1)
            /\ inbox'[to][n + 1] = Written /\ \A x \in 1..n : inbox'[to][x] = inbox[to][x]
      BY <1>4, <2>0, <2>3, <3>1, DeliverIs
    <3>3. ASSUME Written.kind \in ToAll
          PROVE  /\ Written = job /\ job.kind \in ToAll
                 /\ \A x \in 1..n : inbox[to][x] # job
      <4>1. loop # <<>> BY <1>4, <3>3, ReplyIs
      <4>2. Written = job /\ to \in Targets /\ job.kind \in ToAll BY <1>4, <2>0, <4>1 DEF Delivers
      <4> QED BY <3>2, <4>2 DEF NotYet
    <3>4. DOMAIN inbox[c] = 1..Len(inbox[c]) /\ Len(inbox[c]) \in Nat
          /\ DOMAIN inbox[d] = 1..Len(inbox[d]) /\ Len(inbox[d]) \in Nat
      BY ToSetIs DEF TypeOK
    <3>5. CASE c = to /\ j = n + 1
      <4>1. /\ inbox'[c][j] = job /\ i \in 1..n /\ inbox[c][i] = inbox'[c][i]
            /\ job.kind \in ToAll /\ inbox[c][i] # job
        BY <3>2, <3>3, <3>5
      <4>2. CASE d = to
        <5>1. k = n + 1
          <6>1. k \in 1..n => inbox[to][k] = job BY <3>2, <4>1, <4>2
          <6> QED BY <3>2, <3>3, <3>5, <4>1, <4>2, <6>1
        <5> QED BY <3>2, <4>2, <5>1
      <4>3. CASE d # to
        <5>1. inbox'[d] = inbox[d] BY <2>1, <4>3
        <5>2. inbox[d][k] = job /\ inbox[d][l] = inbox[c][i] /\ inbox[c][i].kind \in ToAll
          BY <4>1, <5>1
        <5> QED BY <4>1, <5>1, <5>2 DEF NewestLast
      <4> QED BY <4>2, <4>3
    <3>6. CASE ~(c = to /\ j = n + 1)
      <4>1. /\ i \in DOMAIN inbox[c] /\ j \in DOMAIN inbox[c]
            /\ inbox'[c][i] = inbox[c][i] /\ inbox'[c][j] = inbox[c][j]
        <5>1. CASE c = to BY <3>2, <3>6, <5>1
        <5>2. CASE c # to BY <2>1, <5>2
        <5> QED BY <5>1, <5>2
      <4>2. CASE d = to /\ l = n + 1
        <5>1. inbox[c][i] = job /\ job.kind \in ToAll
          <6>1. inbox'[d][l] = Written /\ inbox'[d][l].kind \in ToAll BY <3>2, <4>2
          <6> QED BY <3>3, <4>1, <6>1
        <5> QED BY <4>1, <5>1 DEF NewestLast
      <4>3. CASE ~(d = to /\ l = n + 1)
        <5>1. /\ k \in DOMAIN inbox[d] /\ l \in DOMAIN inbox[d]
              /\ inbox'[d][k] = inbox[d][k] /\ inbox'[d][l] = inbox[d][l]
          <6>1. CASE d = to BY <3>2, <4>3, <6>1
          <6>2. CASE d # to BY <2>1, <6>2
          <6> QED BY <6>1, <6>2
        <5> QED BY <4>1, <5>1 DEF SameOrder
      <4> QED BY <4>2, <4>3
    <3> QED BY <3>5, <3>6
  <2> QED BY <2>2, <2>3
<1> QED BY <1>2, <1>3, <1>4, ViewStep

(* Every step keeps LogOrder: what is logged is the newest message         *)
(* wherever it is.                                                         *)
LEMMA LogOrderStep ==
  ASSUME IInv, Aligned, Undisturbed, NewestLast, LogOrder, [Next]_vars
  PROVE  LogOrder'
<1> USE DEF IInv
<1>1. CASE inbox' = inbox /\ log' = log BY <1>1 DEF LogOrder
<1>2. CASE ~Alive' BY <1>1, <1>2, EndStep
<1>3. CASE Rests \/ Grabs \/ Removes \/ Starts \/ \E new \in Conns : Announces(new)
  BY <1>1, <1>3 DEF Rests, Grabs, Removes, Starts, Announces
<1>4. log \in Seq(0..MaxMsgs) BY DEF TypeOK
<1>5. PICK n \in Nat : n = Len(log) /\ DOMAIN log = 1..n BY <1>4, ToSetIs
<1>6. CASE Ends /\ log' # log /\ Alive'
  <2> SUFFICES ASSUME NEW i \in DOMAIN log', NEW j \in DOMAIN log', NEW c \in Conns,
                      NEW k \in DOMAIN inbox'[c], NEW l \in DOMAIN inbox'[c], i < j,
                      inbox'[c][k].kind = "PRIVMSG", inbox'[c][k].val = log'[i],
                      inbox'[c][l].kind = "PRIVMSG", inbox'[c][l].val = log'[j]
               PROVE  k < l
    BY DEF LogOrder
  <2>1. inbox' = inbox BY <1>6 DEF Ends
  <2>2. job.kind = "PRIVMSG" /\ log' = Append(log, job.val) BY <1>6, LogIs
  <2>3. PICK S, v : S = 0..MaxMsgs /\ v = job.val OBVIOUS
  <2>4. v \in S /\ log \in Seq(S) BY <2>3 DEF TypeOK, Msgs
  <2>5. /\ DOMAIN log' = 1..(n + 1) /\ log'[n + 1] = v /\ \A x \in 1..n : log'[x] = log[x]
    BY <1>5, <2>2, <2>3, <2>4, AppendIs
  <2>6. i \in 1..n /\ log'[i] = log[i] BY <2>5
  <2>7. CASE j \in 1..n BY <1>5, <2>1, <2>5, <2>6, <2>7 DEF LogOrder
  <2>8. CASE j = n + 1
    <3>1. PICK d : d = job.of OBVIOUS
    <3>2. v \notin ToSet(log) BY <2>2, <2>3, <3>1, JobIs DEF ToAll, Word
    <3>3. log[i] # v BY <1>5, <2>6, <3>2 DEF ToSet
    <3>4. Alive BY <1>6, LoggedOrInHand
    <3>5. inbox[c][l] = job
      <4>1. inbox[c][l] \in ToSet(inbox[c]) BY <2>1 DEF ToSet
      <4>2. inbox[c][l].val = v BY <2>1, <2>5, <2>8
      <4> QED BY <2>1, <3>2, <3>4, <4>1, <4>2 DEF LogOK
    <3>6. k # l BY <2>1, <2>3, <2>6, <3>3, <3>5
    <3>7. ~(l < k) BY <2>1, <2>2, <3>5 DEF NewestLast, ToAll
    <3>8. DOMAIN inbox[c] = 1..Len(inbox[c]) /\ Len(inbox[c]) \in Nat BY ToSetIs DEF TypeOK
    <3>9. k \in Nat /\ l \in Nat BY <2>1, <3>8
    <3> QED BY <3>6, <3>7, <3>9
  <2> QED BY <2>5, <2>7, <2>8
<1>7. CASE Delivers
  <2> SUFFICES ASSUME NEW i \in DOMAIN log', NEW j \in DOMAIN log', NEW c \in Conns,
                      NEW k \in DOMAIN inbox'[c], NEW l \in DOMAIN inbox'[c], i < j,
                      inbox'[c][k].kind = "PRIVMSG", inbox'[c][k].val = log'[i],
                      inbox'[c][l].kind = "PRIVMSG", inbox'[c][l].val = log'[j]
               PROVE  k < l
    BY DEF LogOrder
  <2>1. log' = log BY <1>7 DEF Delivers
  <2>2. CASE inbox'[c] = inbox[c] BY <2>1, <2>2 DEF LogOrder
  <2>3. CASE inbox'[c] # inbox[c]
    <3>1. PICK m \in Nat :
            /\ DOMAIN inbox[c] = 1..m /\ DOMAIN inbox'[c] = 1..(m + 1)
            /\ inbox'[c][m + 1] = Written /\ \A x \in 1..m : inbox'[c][x] = inbox[c][x]
      BY <1>7, <2>3, DeliverIs
    <3>2. Written.kind = "PRIVMSG" => Written.val \notin ToSet(log)
      <4>1. ASSUME Written.kind = "PRIVMSG" PROVE Written = job
        <5>1. loop # <<>> BY <1>7, <4>1, ReplyIs DEF ToAll
        <5> QED BY <1>7, <5>1 DEF Delivers
      <4>2. PICK d : d = job.of OBVIOUS
      <4>3. job.kind = "PRIVMSG" => job.val \notin ToSet(log) BY <4>2, JobIs DEF ToAll, Word
      <4> QED BY <4>1, <4>3
    <3>3. log[i] \in ToSet(log) /\ log[j] \in ToSet(log) BY <2>1 DEF ToSet
    <3>4. k # m + 1 /\ l # m + 1 BY <2>1, <3>1, <3>2, <3>3
    <3>5. k \in 1..m /\ l \in 1..m BY <3>1, <3>4
    <3> QED BY <2>1, <3>1, <3>5 DEF LogOrder
  <2> QED BY <2>2, <2>3
<1>8. CASE Ends /\ log' = log BY <1>1, <1>8 DEF Ends
<1> QED BY <1>2, <1>3, <1>6, <1>7, <1>8, ViewStep
-----------------------------------------------------------------------------
(* The invariants, together.                                                 *)

(* The invariant: with IInv, and as long as no loop is disturbed, it is    *)
(* inductive.                                                              *)
OInv == Aligned /\ NewestLast /\ NotYet /\ Ranked /\ SameOrder /\ LogOrder

(* Nothing has been delivered at the start. *)
LEMMA InitOInv == Init => OInv
<1> SUFFICES ASSUME Init PROVE OInv
  OBVIOUS
<1> USE DEF Init
<1>1. \A c \in Conns : DOMAIN inbox[c] = {} BY NothingIn
<1>2. DOMAIN log = {} BY NothingIn
<1>3. Targets = {}
  <2>1. loop \in Seq(Items) BY NothingIn
  <2> QED BY <2>1, TargetsIs
<1>4. Aligned BY DEF Aligned
<1>5. NewestLast /\ Ranked BY <1>1 DEF NewestLast, Ranked
<1>6. NotYet BY <1>3 DEF NotYet
<1>7. SameOrder BY <1>1 DEF SameOrder
<1>8. LogOrder BY <1>2 DEF LogOrder
<1> QED BY <1>4, <1>5, <1>6, <1>7, <1>8 DEF OInv

(* OInv is inductive, together with IInv, where no loop is disturbed. *)
LEMMA NextOInv ==
  ASSUME IInv, OInv, Undisturbed, [Next]_vars
  PROVE  OInv'
<1> USE DEF OInv
<1>1. Aligned' BY AlignedStep DEF IInv
<1>2. NewestLast' /\ NotYet' BY NewestLastStep, NotYetStep
<1>3. Ranked' /\ SameOrder' /\ LogOrder' BY RankedStep, SameOrderStep, LogOrderStep
<1> QED BY <1>1, <1>2, <1>3

(* OInv holds as long as no failed write disturbs a loop. *)
THEOREM UndisturbedOInv == Spec /\ []Undisturbed => []OInv
<1>1. IInv /\ OInv /\ Undisturbed /\ [Next]_vars => OInv' BY NextOInv
<1> QED BY <1>1, InitOInv, SpecIInv, PTL DEF Spec

(* Whatever two members both get to see they see in the same order, and    *)
(* ChatLogs has it in that order, however many members, messages and       *)
(* resets there are: one thread serves everybody, and a loop over _users   *)
(* is over before the next message is taken up.                            *)
THEOREM UndisturbedOneConversation == Spec /\ []Undisturbed => []OneConversation
<1>1. OInv => OneConversation
  <2> SUFFICES ASSUME SameOrder, LogOrder PROVE OneConversation
    BY DEF OInv
  <2>1. ASSUME NEW c \in Conns, NEW d \in Conns, NEW i \in DOMAIN inbox[c],
               NEW j \in DOMAIN inbox[c], i < j,
               inbox[c][i].kind \in ToAll, inbox[c][j].kind \in ToAll
        PROVE  ~Precedes(inbox[d], inbox[c][j], inbox[c][i])
    BY <2>1 DEF SameOrder, Precedes
  <2> QED BY <2>1 DEF OneConversation, LogOrder
<1> QED BY <1>1, UndisturbedOInv, PTL

(* A member hears a user in the order in which that user joined, spoke and *)
(* parted, and nothing twice, across its socket, its entry of _end_msgs    *)
(* and the loops over _users.                                              *)
THEOREM UndisturbedInSendersOrder == Spec /\ []Undisturbed => []InSendersOrder
<1>1. IInv /\ OInv => InSendersOrder
  <2> SUFFICES ASSUME IInv, OInv, NEW c \in Conns, NEW i \in DOMAIN inbox[c],
                      NEW j \in DOMAIN inbox[c], NEW m, NEW n, m = inbox[c][i], n = inbox[c][j],
                      i < j, m.kind \in ToAll, n.kind \in ToAll, m.of = n.of
               PROVE  /\ n.kind # "JOIN" /\ m.kind # "PART"
                      /\ m.kind # "JOIN" /\ n.kind # "PART" => m.val < n.val
    BY DEF InSendersOrder
  <2>1. Rank(m) < Rank(n) BY DEF OInv, Ranked
  <2>2. m.val \in 0..MaxMsgs /\ n.val \in 0..MaxMsgs
    <3>1. inbox[c] \in Seq(Msgs) BY DEF IInv, TypeOK
    <3>2. m \in Msgs /\ n \in Msgs BY <3>1, ToSetIs DEF ToSet
    <3> QED BY <3>2 DEF Msgs
  <2> QED BY <2>1, <2>2, BoundsAssumption DEF Rank
<1> QED BY <1>1, SpecIInv, UndisturbedOInv, PTL

-----------------------------------------------------------------------------
(* How many members it takes to disturb a loop.                              *)

(* With up to four in the channel, no failed write disturbs a loop: when the *)
(* erased user is in the second half, at most one is still to be visited.    *)
LEMMA FourAreUndisturbed ==
  ASSUME IInv, Aligned, Len(users) <= 4
  PROVE  Undisturbed
<1> USE DEF IInv
<1> SUFFICES ASSUME pc = "write", loop # <<>>
             PROVE  AfterErasing(Item.to, Tail(loop)) = Tail(loop)
  BY DEF Undisturbed
<1>1. PICK c, rest : c = Item.to /\ rest = Tail(loop) OBVIOUS
<1>2. PICK u \in 0..4 : u = Len(users) /\ DOMAIN users = 1..u
  <2>1. Len(users) \in Nat /\ DOMAIN users = 1..Len(users) BY ToSetIs DEF TypeOK, IsQueue
  <2> QED BY <2>1
<1>3. PICK l \in Nat : /\ l = Len(loop) /\ l # 0 /\ rest \in Seq(Items) /\ Len(rest) = l - 1
                       /\ Item = loop[1]
  <2>1. loop \in Seq(Items) BY DEF TypeOK
  <2> QED BY <1>1, <2>1, TailIs DEF Item
<1>4. l <= u /\ c = users[u - l + 1] BY <1>1, <1>2, <1>3 DEF Aligned
<1>5. SelectInSeq(users, LAMBDA x : x = c) = u - l + 1
  <2> DEFINE I == {i \in 1..Len(users) : users[i] = c}
  <2>1. u - l + 1 \in 1..u BY <1>2, <1>3, <1>4
  <2>2. \A i, j \in 1..u : users[i] = users[j] => i = j BY <1>2 DEF TypeOK, IsQueue, IsInjective
  <2>3. I = {u - l + 1} BY <1>2, <1>4, <2>1, <2>2
  <2>4. I # {} /\ I \in SUBSET Nat BY <2>1, <2>3
  <2>5. Min(I) \in I BY <2>4, MinWorks
  <2> QED BY <2>3, <2>4, <2>5 DEF SelectInSeq
<1>6. CASE rest = <<>> BY <1>1, <1>6 DEF AfterErasing
<1>7. CASE u - l < u \div 2 BY <1>1, <1>2, <1>5, <1>7 DEF AfterErasing
<1>8. CASE rest # <<>> /\ ~(u - l < u \div 2)
  <2>1. Len(rest) # 0 BY <1>3, <1>8, EmptySeq
  <2>2. Len(rest) = 1 BY <1>2, <1>3, <1>4, <1>8, <2>1
  <2>3. Append(Tail(rest), Last(rest)) = rest
    <3>1. PICK x : x = rest[1] OBVIOUS
    <3>2. /\ x \in Items /\ Tail(rest) \in Seq(Items) /\ Len(Tail(rest)) = 0
      BY <1>3, <1>8, <2>2, <3>1, TailIs
    <3>3. Last(rest) = x BY <2>2, <3>1 DEF Last
    <3>4. PICK t \in Seq(Items) : t = Tail(rest) /\ Len(t) = 0 BY <3>2
    <3>5. /\ Append(t, x) \in Seq(Items) /\ Len(Append(t, x)) = 1 /\ Append(t, x)[1] = x
      BY <3>2, <3>4, AppendIs
    <3>6. Append(t, x) = rest BY <1>3, <2>2, <3>1, <3>5, SeqEqual
    <3> QED BY <3>3, <3>4, <3>6
  <2> QED BY <1>1, <2>3 DEF AfterErasing
<1> QED BY <1>6, <1>7, <1>8

(* In a channel that never has more than four members no loop is ever      *)
(* disturbed.                                                              *)
THEOREM SmallChannels == Spec /\ [](Len(users) <= 4) => []Undisturbed
<1>1. IInv /\ Aligned /\ Len(users) <= 4 => Undisturbed BY FourAreUndisturbed
<1>2. Init => Aligned BY InitOInv DEF OInv
<1>3. IInv /\ Aligned /\ Undisturbed /\ [Next]_vars => Aligned' BY AlignedStep DEF IInv
<1> QED BY <1>1, <1>2, <1>3, SpecIInv, PTL DEF Spec

-----------------------------------------------------------------------------
(***************************************************************************)
(* What a client makes of what it reads: who is in, and what the topic is. *)
(***************************************************************************)


(* A client that has not gone away has been sent nothing before it is      *)
(* announced, while it is announced exactly the lines before the replies   *)
(* that are left, and all four of its greeting afterwards.                 *)
Progress ==
  Alive =>
  /\ job.kind = "JOIN" /\ loop # <<>> => Len(replies) = 3
  /\ \A c \in Conns : peer[c] \in {"open", "parting"} =>
       IF job.kind = "JOIN" /\ job.of = c
       THEN IF c \in Targets THEN inbox[c] = <<>> ELSE Len(inbox[c]) = 4 - Len(replies)
       ELSE Unannounced(c) \/ Len(inbox[c]) >= 4

(* The names that handle_newusers collects are of members, or of some it   *)
(* has just removed, and no announced member is missing that the loop is   *)
(* past.                                                                   *)
NamesOK ==
  Alive /\ job.kind = "JOIN" =>
    /\ \A d \in names : d \in ToSet(users) \/ Broken(d)
    /\ \A d \in ToSet(users) : d \in ToSet(newusers) \/ d \in names \/ d \in Targets

(* A member that has been given the names. *)
Hears(c) == c \in ToSet(users) /\ peer[c] = "open" /\ Len(inbox[c]) >= 3

(* It knows every member that has been announced, but one whose JOIN has   *)
(* still to be brought to it, and that parts maybe.                        *)
Knows ==
  Alive => \A c \in Conns : Hears(c) => \A d \in ToSet(users) :
    \/ d \in ToSet(newusers) \/ d \in View(c)
    \/ job.kind = "JOIN" /\ job.of = d /\ c \in Targets
    \/ job.kind = "PART" /\ job.of = d

(* Whom it believes to be in is a member or has been reset, and who parts  *)
(* is out as soon as it has been told.                                     *)
Forgets ==
  Alive => \A c \in Conns : Hears(c) =>
    /\ \A d \in View(c) : d \in ToSet(users) \/ Broken(d)
    /\ job.kind = "PART" /\ c # job.of => c \in Targets \/ job.of \notin View(c)

(* Who has been heard parting is no member, unless its PART is in hand. *)
PartsLast ==
  Alive => \A c \in Conns : \A m \in ToSet(inbox[c]) :
    m.kind = "PART" => m.of \notin ToSet(users) \/ m = job

(* A member has last been shown the topic, from the moment the reply with  *)
(* it has been written, unless a new one has still to be brought to it.    *)
Shown ==
  Alive => \A c \in Conns : c \in ToSet(users) /\ peer[c] = "open" /\ Len(inbox[c]) >= 2 =>
    LastTopicIs(c, topic) \/ (job.kind = "TOPIC" /\ c \in Targets)

-----------------------------------------------------------------------------
(* Who waits to be announced goes on waiting until it is.                    *)
LEMMA AnnouncedStep ==
  ASSUME TypeOK, Places, Phases, ErasesAMember, [Next]_vars, Alive', NEW c \in Conns,
         Unannounced(c), ~Unannounced(c)'
  PROVE  job' = Msg("JOIN", c, 0)
<1> USE DEF clients, servlet, database, local
<1>1. CASE \E d \in Conns : Client(d)
  <2>1. PICK d \in Conns : Client(d) BY <1>1
  <2>2. ASSUME NEW e \in ToSet(waiting) PROVE e \in ToSet(waiting')
    <3>1. CASE Join(d)
      <4>1. waiting' = Append(waiting, d) /\ waiting \in Seq(Conns)
        BY <3>1 DEF Join, TypeOK, IsQueue
      <4> QED BY <4>1, AppendIs
    <3> QED BY <2>1, <2>2, <3>1, ClientStepIs
  <2>3. newusers' = newusers BY <2>1, ClientStepIs
  <2>4. CASE peer[c] = "idle"
    <3>1. peer'[c] # "idle" BY DEF Unannounced
    <3>2. Join(c) BY <2>4, <3>1, PeersStep
    <3>3. waiting' = Append(waiting, c) /\ waiting \in Seq(Conns)
      BY <3>2 DEF Join, TypeOK, IsQueue
    <3>4. c \in ToSet(waiting') BY <3>3, AppendIs
    <3> QED BY <3>4 DEF Unannounced
  <2> QED BY <2>2, <2>3, <2>4 DEF Unannounced
<1>2. CASE ThreadRun \/ Terminated \/ UNCHANGED vars
  <2>1. peer'[c] = "idle" \/ peer[c] # "idle"
    <3>1. peer[c] = "idle" /\ peer'[c] # "idle" => Join(c) BY PeersStep, SMTT(20)
    <3>2. Join(c) => waiting' = Append(waiting, c) /\ waiting \in Seq(Conns)
      BY DEF Join, TypeOK, IsQueue
    <3>3. Join(c) => c \in ToSet(waiting') BY <3>2, AppendIs
    <3> QED BY <3>1, <3>3 DEF Unannounced
  <2>2. peer[c] # "idle" BY <2>1 DEF Unannounced
  <2>3. CASE UNCHANGED <<waiting, newusers>> BY <2>2, <2>3 DEF Unannounced
  <2>4. CASE GrabNew /\ ~Dies
    <3>1. newusers' = waiting /\ pc = "grab" BY <2>4 DEF GrabNew
    <3>2. c \notin ToSet(waiting) BY <3>1 DEF Unannounced
    <3>3. c \in ToSet(newusers) BY <2>2, <3>2 DEF Unannounced
    <3>4. newusers = <<>> BY <3>1 DEF Phases
    <3> QED BY <3>3, <3>4, NothingIn
  <2>5. CASE Announce
    <3>1. /\ job' = Msg("JOIN", Head(newusers), 0) /\ newusers' = Tail(newusers) /\ newusers # <<>>
          /\ waiting' = waiting
      BY <2>5 DEF Announce
    <3>2. ToSet(newusers) = {Head(newusers)} \cup ToSet(newusers')
        BY <3>1, TailIs DEF TypeOK, IsQueue
    <3> QED BY <2>2, <3>1, <3>2 DEF Unannounced
  <2>6. ~Dies BY DEF Dies, Alive
  <2>7. ThreadRun \/ Terminated \/ UNCHANGED vars =>
          UNCHANGED <<waiting, newusers>> \/ Dies \/ (GrabNew /\ ~Dies) \/ Announce
    BY DEF ThreadRun, Terminated, vars, GrabNew, AllAnnounced, SkipUser, GetSockForUser,
       GetSockForUserFails, Write, WriteFails, NewuserHandled, UpdateEndmsgs, NextEntry,
       HandlePrivOrPart, HandleTopic, HandleMsgOfNobody, LogPriv, PartEnds, TopicEnds, Crashes,
       StartJob
  <2> QED BY <1>2, <2>3, <2>4, <2>5, <2>6, <2>7
<1> QED BY <1>1, <1>2 DEF Next

(* A member that has not gone away was there before, or has just come in.    *)
LEMMA MemberIs ==
  ASSUME IInv, Aligned, Undisturbed, [Next]_vars, Alive', NEW c \in ToSet(users'),
         peer'[c] = "open"
  PROVE  /\ c \in Conns /\ peer[c] = "open" /\ Alive
         /\ c \in ToSet(users) \/ (Grabs /\ inbox'[c] = <<>>)
<1> USE DEF IInv
<1>1. ToSet(users) \subseteq Conns /\ ToSet(waiting) \subseteq Conns
  BY ToSetIs DEF TypeOK, IsQueue
<1>2. c \in ToSet(users) \/ (Grabs /\ c \in ToSet(waiting))
  BY ViewStep DEF Rests, Grabs, Announces, Delivers, Removes, Ends, Starts
<1>3. peer[c] # "idle" BY <1>2 DEF Places
<1>4. peer[c] = "open" BY <1>1, <1>2, <1>3, PeersStep
<1>5. Alive BY LoggedOrInHand
<1>6. CASE c \in ToSet(waiting)
  <2>1. inbox[c] = <<>> BY <1>1, <1>6 DEF Silent, Unannounced
  <2> QED BY <1>1, <1>2, <1>4, <1>5, <2>1 DEF Grabs
<1> QED BY <1>1, <1>2, <1>4, <1>5, <1>6

(* Nobody is written to before it is announced.                              *)
LEMMA ToAnnounced ==
  ASSUME TypeOK, Places, Delivers
  PROVE  ~Unannounced(Item.to)
<1>1. Item.to \in ToSet(users) /\ Item.to \notin ToSet(newusers) BY DEF Delivers
<1> QED BY <1>1 DEF Places, Unannounced

(* Every step keeps Progress. *)
LEMMA ProgressStep ==
  ASSUME IInv, Aligned, Undisturbed, Progress, [Next]_vars
  PROVE  Progress'
<1> USE DEF IInv
<1> SUFFICES ASSUME Alive'
             PROVE  /\ job'.kind = "JOIN" /\ loop' # <<>> => Len(replies') = 3
                    /\ \A c \in Conns : peer'[c] \in {"open", "parting"} =>
                         IF job'.kind = "JOIN" /\ job'.of = c
                         THEN IF c \in Targets' THEN inbox'[c] = <<>>
                              ELSE Len(inbox'[c]) = 4 - Len(replies')
                         ELSE Unannounced(c)' \/ Len(inbox'[c]) >= 4
  BY DEF Progress
<1>1. Alive BY LoggedOrInHand
<1>2. NoMsg.kind # "JOIN" BY MsgIs
<1>3. job'.kind = "JOIN" /\ loop' # <<>> => Len(replies') = 3
  BY <1>1, <1>2, ViewStep DEF Rests, Grabs, Announces, Delivers, Removes, Ends, Starts, Progress
<1>4. ASSUME NEW c \in Conns, peer'[c] \in {"open", "parting"}
      PROVE  IF job'.kind = "JOIN" /\ job'.of = c
             THEN IF c \in Targets' THEN inbox'[c] = <<>> ELSE Len(inbox'[c]) = 4 - Len(replies')
             ELSE Unannounced(c)' \/ Len(inbox'[c]) >= 4
  <2>1. peer[c] \in {"idle", "open", "parting"} BY <1>4, PeersStep
  <2>2. /\ Len(inbox[c]) \in Nat /\ Len(inbox'[c]) \in Nat /\ Len(inbox'[c]) >= Len(inbox[c])
    BY InboxIs
  <2>3. CASE peer[c] = "idle"
    <3>1. peer'[c] # "idle" BY <1>4
    <3>2. Join(c) BY <2>3, <3>1, PeersStep
    <3>3. waiting' = Append(waiting, c) /\ waiting \in Seq(Conns) /\ job' = job
      BY <3>2 DEF Join, TypeOK, IsQueue, local
    <3>4. c \in ToSet(waiting') BY <3>3, AppendIs
    <3>5. ~(job.kind = "JOIN" /\ job.of = c) BY <2>3 DEF Phases, ToAll, Unannounced
    <3> QED BY <3>3, <3>4, <3>5 DEF Unannounced
  <2>4. CASE peer[c] # "idle"
    <3>1. IF job.kind = "JOIN" /\ job.of = c
          THEN IF c \in Targets THEN inbox[c] = <<>> ELSE Len(inbox[c]) = 4 - Len(replies)
          ELSE Unannounced(c) \/ Len(inbox[c]) >= 4
      BY <1>1, <2>1, <2>4 DEF Progress
    <3>2. ~Broken(c) BY <2>1, <2>4 DEF Broken
    <3>3. CASE Announces(c)
      <4>1. job'.kind = "JOIN" /\ job'.of = c BY <3>3, MsgIs DEF Announces
      <4>2. inbox[c] = <<>> BY <3>3 DEF Announces, Silent, Unannounced
      <4> QED BY <3>3, <4>1, <4>2 DEF Announces
    <3>4. ASSUME ~(job'.kind = "JOIN" /\ job'.of = c), ~(job.kind = "JOIN" /\ job.of = c)
          PROVE  Unannounced(c)' \/ Len(inbox'[c]) >= 4
      <4>1. CASE Unannounced(c)
        <5>1. job' # Msg("JOIN", c, 0) BY <3>4, MsgIs
        <5> QED BY <4>1, <5>1, AnnouncedStep
      <4>2. CASE Len(inbox[c]) >= 4 BY <2>2, <4>2
      <4> QED BY <3>1, <3>4, <4>1, <4>2
    <3>5. ASSUME NEW new \in Conns, Announces(new), new # c
          PROVE  ~(job'.kind = "JOIN" /\ job'.of = c) /\ ~(job.kind = "JOIN" /\ job.of = c)
      BY <1>2, <3>5, MsgIs DEF Announces
    <3>6. CASE \/ Grabs \/ Starts
      <4>1. ~(job'.kind = "JOIN" /\ job'.of = c) /\ ~(job.kind = "JOIN" /\ job.of = c)
        BY <1>2, <3>6 DEF Grabs, Starts
      <4> QED BY <3>4, <4>1
    <3>7. ASSUME job' = job, ~(job.kind = "JOIN" /\ job.of = c)
          PROVE  IF job'.kind = "JOIN" /\ job'.of = c
                 THEN IF c \in Targets' THEN inbox'[c] = <<>>
                                          ELSE Len(inbox'[c]) = 4 - Len(replies')
                 ELSE Unannounced(c)' \/ Len(inbox'[c]) >= 4
      BY <3>4, <3>7
    <3>8. CASE (Rests \/ Removes) /\ job.kind = "JOIN" /\ job.of = c
      BY <3>1, <3>2, <3>8 DEF Rests, Removes
    <3>9. CASE Ends
      <4>1. CASE job.kind = "JOIN" /\ job.of = c
        <5>1. replies = <<>> /\ Targets = {} BY <3>9 DEF Ends
        <5>2. Len(inbox[c]) = 4 - Len(replies) /\ Len(replies) = 0 BY <3>1, <4>1, <5>1, EmptySeq
        <5>3. Len(inbox'[c]) >= 4 BY <2>2, <5>2
        <5> QED BY <1>2, <3>9, <5>3 DEF Ends
      <4>2. CASE ~(job.kind = "JOIN" /\ job.of = c) BY <1>2, <3>4, <3>9, <4>2 DEF Ends
      <4> QED BY <4>1, <4>2
    <3>10. CASE Delivers /\ job.kind = "JOIN" /\ job.of = c
      <4>1. job' = job /\ Targets' = Targets \ {Item.to} BY <3>10 DEF Delivers
      <4>2. CASE c # Item.to
        <5>1. inbox'[c] = inbox[c] BY <3>10, <4>2, DeliverIs
        <5>2. loop # <<>> /\ replies' = replies BY <3>10, <4>2 DEF Delivers
        <5> QED BY <3>1, <3>10, <4>1, <4>2, <5>1, <5>2
      <4>3. CASE c = Item.to
        <5>0. peer[c] \in {"open", "parting"} BY <2>1, <2>4
        <5>00. PICK n \in Nat : n = Len(inbox[c]) /\ Len(inbox'[c]) = n + 1
          BY <3>10, <4>3, <5>0, DeliverIs
        <5>1. Len(inbox'[c]) = Len(inbox[c]) + 1 BY <5>00
        <5>2. CASE loop # <<>>
          <6>1. inbox[c] = <<>> /\ replies' = replies BY <3>1, <3>10, <4>3, <5>2 DEF Delivers
          <6>2. Len(replies) = 3 BY <1>1, <3>10, <5>2 DEF Progress
          <6>3. Len(inbox[c]) = 0 BY <6>1, EmptySeq
          <6>4. c \notin Targets' /\ Len(inbox'[c]) = 1 /\ 4 - Len(replies') = 1
            BY <4>1, <4>3, <5>1, <6>1, <6>2, <6>3
          <6> QED BY <3>10, <4>1, <6>4
        <5>3. CASE loop = <<>>
          <6>1. Targets = {} /\ Len(replies) \in 1..3 /\ Len(replies') = Len(replies) - 1
            BY <3>10, <5>3 DEF Delivers
          <6>2. Len(inbox[c]) = 4 - Len(replies) BY <3>1, <3>10, <6>1
          <6>3. Len(inbox'[c]) = 4 - Len(replies') BY <5>1, <6>1, <6>2
          <6> QED BY <3>10, <4>1, <6>1, <6>3
        <5> QED BY <5>2, <5>3
      <4> QED BY <4>2, <4>3
    <3>11. Rests \/ Removes \/ Delivers => job' = job BY DEF Rests, Removes, Delivers
    <3>12. CASE \E new \in Conns : Announces(new) BY <3>3, <3>4, <3>5, <3>12
    <3> QED BY <3>6, <3>7, <3>8, <3>9, <3>10, <3>11, <3>12, ViewStep
  <2> QED BY <2>3, <2>4
<1> QED BY <1>3, <1>4
(* Where the lines of a greeting come: one after the other, before anything  *)
(* else.                                                                     *)
LEMMA Position ==
  ASSUME IInv, Progress, Alive, Delivers, NEW c \in Conns, inbox'[c] # inbox[c]
  PROVE  /\ c = Item.to /\ c \in ToSet(users) /\ peer' = peer
         /\ \E n \in Nat :
              /\ n = Len(inbox[c]) /\ DOMAIN inbox[c] = 1..n
              /\ Len(inbox'[c]) = n + 1 /\ DOMAIN inbox'[c] = 1..(n + 1)
              /\ inbox'[c][n + 1] = Written /\ \A i \in 1..n : inbox'[c][i] = inbox[c][i]
              /\ ToSet(inbox'[c]) = ToSet(inbox[c]) \cup {Written}
              /\ loop # <<>> => /\ Written = job /\ c \in Targets
                                /\ IF job.kind = "JOIN" /\ job.of = c THEN n = 0 ELSE n >= 4
              /\ loop = <<>> => /\ job.kind = "JOIN" /\ job.of = c /\ Written.of = c
                                /\ Targets = {} /\ n \in 1..3 /\ Written.kind = ReplyKinds[n]
                                /\ n = 1 => Written.val = topic
                                /\ n = 2 => Written.names = names
<1> USE DEF IInv
<1>1. PICK n \in Nat :
        /\ c = Item.to /\ peer' = peer /\ peer[c] \in {"open", "parting"}
        /\ n = Len(inbox[c]) /\ DOMAIN inbox[c] = 1..n
        /\ Len(inbox'[c]) = n + 1 /\ DOMAIN inbox'[c] = 1..(n + 1)
        /\ inbox'[c][n + 1] = Written /\ \A i \in 1..n : inbox'[c][i] = inbox[c][i]
        /\ ToSet(inbox'[c]) = ToSet(inbox[c]) \cup {Written}
  BY DeliverIs
<1>2. c \in ToSet(users) /\ ~Unannounced(c) BY <1>1, ToAnnounced DEF Delivers
<1>3. peer[c] \in {"open", "parting"} BY <1>1
<1>4. IF job.kind = "JOIN" /\ job.of = c
      THEN IF c \in Targets THEN inbox[c] = <<>> ELSE n = 4 - Len(replies)
      ELSE n >= 4
  BY <1>1, <1>2, <1>3 DEF Progress
<1>5. ASSUME loop # <<>>
      PROVE  /\ Written = job /\ c \in Targets
             /\ IF job.kind = "JOIN" /\ job.of = c THEN n = 0 ELSE n >= 4
  <2>1. Written = job /\ c \in Targets BY <1>1, <1>5 DEF Delivers
  <2>2. inbox[c] = <<>> => n = 0 BY <1>1, EmptySeq
  <2> QED BY <1>4, <2>1, <2>2
<1>6. ASSUME loop = <<>>
      PROVE  /\ job.kind = "JOIN" /\ job.of = c /\ Written.of = c
             /\ Targets = {} /\ n \in 1..3 /\ Written.kind = ReplyKinds[n]
             /\ n = 1 => Written.val = topic
             /\ n = 2 => Written.names = names
  <2>1. /\ job.kind = "JOIN" /\ job.of = c /\ Written.of = c /\ Targets = {}
        /\ Len(replies) \in 1..3 /\ Written.kind = ReplyKinds[4 - Len(replies)]
        /\ Written.kind = "RPL_TOPIC" => Written.val = topic
        /\ Written.kind = "RPL_NAMREPLY" => Written.names = names
    BY <1>1, <1>6 DEF Delivers
  <2>2. PICK r \in 1..3 : r = Len(replies) BY <2>1
  <2>3. n = 4 - r BY <1>4, <2>1, <2>2
  <2>4. n \in 1..3 /\ n = 4 - Len(replies) BY <2>2, <2>3
  <2>5. Written.kind = ReplyKinds[n] BY <2>1, <2>4
  <2> QED BY <2>1, <2>4, <2>5 DEF ReplyKinds
<1> QED BY <1>1, <1>2, <1>5, <1>6

(* Every step keeps GreetedFirst: a line that is not of its greeting       *)
(* reaches a client when all four lines of that have.                      *)
LEMMA GreetedFirstStep ==
  ASSUME IInv, Aligned, Undisturbed, Progress, GreetedFirst, [Next]_vars
  PROVE  GreetedFirst'
<1> USE DEF IInv
<1>1. CASE inbox' = inbox BY <1>1 DEF GreetedFirst
<1>2. CASE ~Alive' BY <1>1, <1>2, EndStep
<1>3. CASE Rests \/ Grabs \/ Removes \/ Ends \/ Starts \/ \E new \in Conns : Announces(new)
  BY <1>1, <1>3 DEF Rests, Grabs, Removes, Ends, Starts, Announces
<1>4. CASE Delivers /\ Alive'
  <2> SUFFICES ASSUME NEW c \in Conns, NEW i \in 1..4, i \in DOMAIN inbox'[c]
               PROVE  /\ inbox'[c][i].kind
                           = <<"JOIN", "RPL_TOPIC", "RPL_NAMREPLY", "RPL_ENDOFNAMES">>[i]
                      /\ inbox'[c][i].of = c
    BY DEF GreetedFirst
  <2>1. CASE inbox'[c] = inbox[c] BY <2>1 DEF GreetedFirst
  <2>2. CASE inbox'[c] # inbox[c]
    <3>1. Alive BY <1>4, LoggedOrInHand
    <3>2. PICK n \in Nat :
            /\ DOMAIN inbox[c] = 1..n /\ DOMAIN inbox'[c] = 1..(n + 1)
            /\ inbox'[c][n + 1] = Written /\ \A k \in 1..n : inbox'[c][k] = inbox[c][k]
            /\ loop # <<>> => /\ Written = job
                              /\ IF job.kind = "JOIN" /\ job.of = c THEN n = 0 ELSE n >= 4
            /\ loop = <<>> => n \in 1..3 /\ Written.kind = ReplyKinds[n] /\ Written.of = c
      BY <1>4, <2>2, <3>1, Position
    <3>3. CASE i \in 1..n BY <3>2, <3>3 DEF GreetedFirst
    <3>4. CASE i = n + 1
      <4>1. CASE loop # <<>>
        <5>1. n = 0 /\ Written.kind = "JOIN" /\ Written.of = c BY <3>2, <3>4, <4>1
        <5> QED BY <3>2, <3>4, <5>1
      <4>2. CASE loop = <<>>
        <5>1. n \in 1..3 /\ Written.kind = ReplyKinds[n] /\ Written.of = c BY <3>2, <4>2
        <5>2. \A k \in 1..3 : ReplyKinds[k]
                = <<"JOIN", "RPL_TOPIC", "RPL_NAMREPLY", "RPL_ENDOFNAMES">>[k + 1]
          BY DEF ReplyKinds
        <5> QED BY <3>2, <3>4, <5>1, <5>2
      <4> QED BY <4>1, <4>2
    <3> QED BY <3>2, <3>3, <3>4
  <2> QED BY <2>1, <2>2
<1> QED BY <1>2, <1>3, <1>4, ViewStep

(* Every step keeps NamesOK: the loop collects the name of every user it   *)
(* visits.                                                                 *)
LEMMA NamesOKStep ==
  ASSUME IInv, Aligned, Undisturbed, NamesOK, [Next]_vars
  PROVE  NamesOK'
<1> USE DEF IInv
<1> SUFFICES ASSUME Alive', job'.kind = "JOIN"
             PROVE  /\ \A d \in names' : d \in ToSet(users') \/ Broken(d)'
                    /\ \A d \in ToSet(users') :
                         d \in ToSet(newusers') \/ d \in names' \/ d \in Targets'
  BY DEF NamesOK
<1>1. Alive BY LoggedOrInHand
<1>2. NoMsg.kind # "JOIN" BY MsgIs
<1>3. ToSet(users) \subseteq Conns /\ names \subseteq Conns BY ToSetIs DEF TypeOK, IsQueue
<1>4. \A d \in Conns : Broken(d) => Broken(d)' BY PeersStep
<1>5. CASE Rests BY <1>1, <1>3, <1>4, <1>5 DEF Rests, NamesOK
<1>6. CASE \E new \in Conns : Announces(new) BY <1>6 DEF Announces
<1>7. CASE Delivers BY <1>1, <1>3, <1>4, <1>7 DEF Delivers, NamesOK
<1>8. CASE Removes BY <1>1, <1>3, <1>4, <1>8 DEF Removes, NamesOK
<1>9. ~(Grabs \/ Ends \/ Starts) BY <1>2 DEF Grabs, Ends, Starts
<1> QED BY <1>5, <1>6, <1>7, <1>8, <1>9, ViewStep

(* Every step keeps PartsLast: a PART is over when its user is removed,    *)
(* and nobody comes back.                                                  *)
LEMMA PartsLastStep ==
  ASSUME IInv, Aligned, Undisturbed, PartsLast, [Next]_vars
  PROVE  PartsLast'
<1> USE DEF IInv
<1> SUFFICES ASSUME Alive', NEW c \in Conns, NEW m \in ToSet(inbox'[c]), m.kind = "PART"
             PROVE  m.of \notin ToSet(users') \/ m = job'
  BY DEF PartsLast
<1>1. Alive BY LoggedOrInHand
<1>2. NoMsg.kind # "PART" BY MsgIs
<1>3. CASE inbox'[c] = inbox[c]
  <2>1. m.of \notin ToSet(users) \/ m = job BY <1>1, <1>3 DEF PartsLast
  <2>2. CASE Grabs
    <3>1. \A d \in ToSet(waiting) : d # m.of
      <4>1. ToSet(waiting) \subseteq Conns BY ToSetIs DEF TypeOK, IsQueue
      <4> QED BY <1>3, <4>1 DEF Silent, Unannounced, ToAll
    <3> QED BY <1>2, <2>1, <2>2, <3>1 DEF Grabs
  <2>3. CASE Ends BY <2>1, <2>3 DEF Ends
  <2> QED BY <1>2, <2>1, <2>2, <2>3, ViewStep DEF Rests, Announces, Delivers, Removes, Starts
<1>4. CASE inbox'[c] # inbox[c]
  <2>1. Delivers BY <1>4, ViewStep DEF Rests, Grabs, Announces, Removes, Ends, Starts
  <2>2. ToSet(inbox'[c]) = ToSet(inbox[c]) \cup {Written} BY <1>4, <2>1, DeliverIs
  <2>3. CASE m \in ToSet(inbox[c]) BY <1>1, <2>1, <2>3 DEF PartsLast, Delivers
  <2>4. CASE m = Written
    <3>1. loop # <<>> BY <2>1, <2>4, ReplyIs DEF ToAll
    <3> QED BY <2>1, <2>4, <3>1 DEF Delivers
  <2> QED BY <2>2, <2>3, <2>4
<1> QED BY <1>3, <1>4
-----------------------------------------------------------------------------
(* Whom a client believes to be in.                                          *)

(* View, of what has been written to a client. *)
Seen(box) ==
  (box[3].names \cup {m.of : m \in {n \in ToSet(box) : n.kind = "JOIN"}})
    \ {m.of : m \in {n \in ToSet(box) : n.kind = "PART"}}

(* It is View. *)
LEMMA ViewIs ==
  ASSUME NEW c
  PROVE  View(c) = Seen(inbox[c]) /\ View(c)' = Seen(inbox'[c])
<1>1. \A d : d \in View(c) <=> d \in Seen(inbox[c]) BY DEF View, Seen, ToSet
<1>2. \A d : (d \in View(c))' <=> d \in Seen(inbox'[c]) BY DEF View, Seen, ToSet
<1>3. View(c) \subseteq Seen(inbox[c]) /\ Seen(inbox[c]) \subseteq View(c) BY <1>1
<1>4. View(c)' \subseteq Seen(inbox'[c]) /\ Seen(inbox'[c]) \subseteq View(c)' BY <1>2
<1> QED BY <1>3, <1>4

(* Who is in it. *)
LEMMA SeenIs ==
  ASSUME NEW box, NEW d
  PROVE  d \in Seen(box) <=>
           /\ \/ d \in box[3].names
              \/ \E m \in ToSet(box) : m.kind = "JOIN" /\ m.of = d
           /\ \A m \in ToSet(box) : m.kind = "PART" => m.of # d
  BY DEF Seen

(* What one more line changes.                                               *)
LEMMA SeenAfter ==
  ASSUME NEW a, NEW b, NEW w, ToSet(b) = ToSet(a) \cup {w}, b[3] = a[3], NEW d
  PROVE  d \in Seen(b) <=>
           /\ \/ d \in Seen(a)
              \/ w.kind = "JOIN" /\ w.of = d /\ \A m \in ToSet(a) : m.kind = "PART" => m.of # d
           /\ w.kind = "PART" => w.of # d
  BY SeenIs

(* The names a newuser is given are those that the loop has been through,    *)
(* and its own.                                                              *)
LEMMA SeenFirst ==
  ASSUME TypeOK', GreetedFirst', NEW c \in Conns, Len(inbox'[c]) = 3, NEW d
  PROVE  d \in Seen(inbox'[c]) <=> d \in inbox'[c][3].names \/ d = c
<1>1. DOMAIN inbox'[c] = 1..3
  <2>1. inbox'[c] \in Seq(Msgs) BY DEF TypeOK
  <2> QED BY <2>1, ToSetIs
<1>2. \A i \in 1..3 : inbox'[c][i].of = c
        /\ inbox'[c][i].kind = <<"JOIN", "RPL_TOPIC", "RPL_NAMREPLY", "RPL_ENDOFNAMES">>[i]
  BY <1>1 DEF GreetedFirst
<1>3. \A m \in ToSet(inbox'[c]) : m.kind # "PART" BY <1>1, <1>2 DEF ToSet
<1>4. inbox'[c][1] \in ToSet(inbox'[c]) /\ inbox'[c][1].kind = "JOIN" /\ inbox'[c][1].of = c
  BY <1>1, <1>2 DEF ToSet
<1>5. \A m \in ToSet(inbox'[c]) : m.of = c BY <1>1, <1>2 DEF ToSet
<1> QED BY <1>3, <1>4, <1>5, SeenIs

(* Who hears now heard before, unless the names have just arrived.           *)
LEMMA HearsStep ==
  ASSUME IInv, Aligned, Undisturbed, Progress, [Next]_vars, Alive', NEW c \in Conns, Hears(c)'
  PROVE  /\ Alive /\ c \in ToSet(users) /\ peer[c] = "open"
         /\ \/ Hears(c) /\ inbox'[c] = inbox[c] /\ View(c)' = View(c)
               /\ (Delivers => c # Item.to)
            \/ /\ Delivers /\ c = Item.to /\ loop # <<>> /\ c \in Targets /\ Hears(c)
               /\ ToSet(inbox'[c]) = ToSet(inbox[c]) \cup {job} /\ inbox'[c][3] = inbox[c][3]
               /\ ~(job.kind = "JOIN" /\ job.of = c)
            \/ /\ Delivers /\ c = Item.to /\ loop = <<>> /\ Hears(c)
               /\ View(c)' = View(c) /\ Targets = {} /\ job.kind = "JOIN" /\ job.of = c
            \/ /\ Delivers /\ c = Item.to /\ loop = <<>> /\ Len(inbox'[c]) = 3
               /\ inbox'[c][3].names = names /\ Targets = {} /\ job.kind = "JOIN" /\ job.of = c
<1> USE DEF IInv
<1>1. c \in ToSet(users') /\ peer'[c] = "open" /\ Len(inbox'[c]) >= 3 BY DEF Hears
<1>2. inbox'[c] # <<>>
  <2>1. Len(<<>>) = 0 BY EmptySeq
  <2> QED BY <1>1, <2>1
<1>3. Alive /\ c \in ToSet(users) /\ peer[c] = "open" BY <1>1, <1>2, MemberIs
<1>4. CASE inbox'[c] = inbox[c]
  <2>1. Hears(c) BY <1>1, <1>3, <1>4 DEF Hears
  <2>2. View(c)' = View(c) BY <1>4, ViewIs
  <2>3. Delivers => c # Item.to
    <3>1. ASSUME Delivers, c = Item.to PROVE FALSE
      <4>1. PICK n \in Nat : n = Len(inbox[c]) /\ Len(inbox'[c]) = n + 1
        BY <1>3, <3>1, DeliverIs
      <4> QED BY <1>4, <4>1
    <3> QED BY <3>1
  <2> QED BY <1>3, <1>4, <2>1, <2>2, <2>3
<1>5. CASE inbox'[c] # inbox[c]
  <2>1. Delivers BY <1>5, ViewStep DEF Rests, Grabs, Announces, Removes, Ends, Starts
  <2>2. c = Item.to BY <1>3, <1>5, <2>1, Position
  <2>3. PICK n \in Nat :
          /\ n = Len(inbox[c]) /\ Len(inbox'[c]) = n + 1
          /\ inbox'[c][n + 1] = Written /\ \A i \in 1..n : inbox'[c][i] = inbox[c][i]
          /\ ToSet(inbox'[c]) = ToSet(inbox[c]) \cup {Written}
          /\ loop # <<>> => /\ Written = job /\ c \in Targets
                            /\ IF job.kind = "JOIN" /\ job.of = c THEN n = 0 ELSE n >= 4
          /\ loop = <<>> => /\ job.kind = "JOIN" /\ job.of = c /\ Targets = {}
                            /\ n \in 1..3 /\ Written.kind = ReplyKinds[n]
                            /\ n = 2 => Written.names = names
    BY <1>3, <1>5, <2>1, Position
  <2>4. n >= 2 BY <1>1, <2>3
  <2>5. CASE loop # <<>>
    <3>1. n >= 4 /\ ~(job.kind = "JOIN" /\ job.of = c) BY <2>3, <2>4, <2>5
    <3>2. 3 \in 1..n /\ Hears(c) BY <1>3, <2>3, <3>1 DEF Hears
    <3> QED BY <1>3, <2>1, <2>2, <2>3, <2>5, <3>1, <3>2
  <2>6. CASE loop = <<>> /\ n = 2 BY <1>3, <2>1, <2>2, <2>3, <2>6
  <2>7. CASE loop = <<>> /\ n = 3
    <3>1. Hears(c) BY <1>3, <2>3, <2>7 DEF Hears
    <3>2. inbox'[c][3] = inbox[c][3] /\ Written.kind = "RPL_ENDOFNAMES"
      BY <2>3, <2>7 DEF ReplyKinds
    <3>3. \A d : d \in Seen(inbox'[c]) <=> d \in Seen(inbox[c]) BY <2>3, <3>2, SeenAfter
    <3>4. Seen(inbox'[c]) = Seen(inbox[c])
      <4>1. Seen(inbox'[c]) \subseteq Seen(inbox[c]) BY <3>3
      <4>2. Seen(inbox[c]) \subseteq Seen(inbox'[c]) BY <3>3
      <4> QED BY <4>1, <4>2
    <3>5. View(c)' = View(c) BY <3>4, ViewIs
    <3> QED BY <1>3, <2>1, <2>2, <2>3, <2>7, <3>1, <3>5
  <2> QED BY <2>3, <2>4, <2>5, <2>6, <2>7
<1> QED BY <1>4, <1>5
(* Whom a client can believe to be in.                                       *)
LEMMA SeenConns ==
  ASSUME TypeOK, DeliveredOK, NEW c \in Conns, Len(inbox[c]) >= 3
  PROVE  View(c) \subseteq Conns
<1>1. inbox[c] \in Seq(Msgs) BY DEF TypeOK
<1>2. /\ Len(inbox[c]) \in Nat /\ DOMAIN inbox[c] = 1..Len(inbox[c])
      /\ ToSet(inbox[c]) \subseteq Msgs
  BY <1>1, ToSetIs
<1>3. inbox[c][3] \in ToSet(inbox[c]) BY <1>2 DEF ToSet
<1>4. inbox[c][3].names \subseteq Conns BY <1>2, <1>3 DEF Msgs
<1>5. \A m \in ToSet(inbox[c]) : m.kind = "JOIN" => m.of \in Conns BY DEF DeliveredOK, ToAll
<1>6. \A d : d \in Seen(inbox[c]) => d \in Conns BY <1>4, <1>5, SeenIs
<1> QED BY <1>6, ViewIs

(* Every step keeps Knows: a member is taken in before its JOIN is brought *)
(* to the others, and the names are given when the loop has been through   *)
(* all of them.                                                            *)
LEMMA KnowsStep ==
  ASSUME IInv, IInv', Aligned, Undisturbed, Progress, GreetedFirst', NamesOK, PartsLast, Knows,
         [Next]_vars
  PROVE  Knows'
<1> USE DEF IInv
<1> SUFFICES ASSUME Alive', NEW c \in Conns, Hears(c)', NEW d \in ToSet(users')
             PROVE  \/ d \in ToSet(newusers') \/ d \in View(c)'
                    \/ job'.kind = "JOIN" /\ job'.of = d /\ c \in Targets'
                    \/ job'.kind = "PART" /\ job'.of = d
  BY DEF Knows
<1>1. Alive /\ c \in ToSet(users) /\ peer[c] = "open" BY HearsStep
<1>2. ~Broken(c) BY <1>1 DEF Broken
<1>3. NoMsg.kind # "JOIN" /\ NoMsg.kind # "PART" BY MsgIs
<1>4. ASSUME Hears(c), d \in ToSet(users)
      PROVE  \/ d \in ToSet(newusers) \/ d \in View(c)
             \/ job.kind = "JOIN" /\ job.of = d /\ c \in Targets
             \/ job.kind = "PART" /\ job.of = d
  BY <1>1, <1>4 DEF Knows
<1>5. CASE Hears(c) /\ View(c)' = View(c) /\ (Delivers => c # Item.to \/ Targets = {})
  <2>1. CASE Rests BY <1>4, <1>5, <2>1 DEF Rests
  <2>2. CASE Grabs
    <3>1. d \in ToSet(newusers) => FALSE BY <2>2, NothingIn DEF Grabs
    <3> QED BY <1>3, <1>4, <1>5, <2>2, <3>1 DEF Grabs
  <2>3. ASSUME NEW new \in Conns, Announces(new)
        PROVE  \/ d \in ToSet(newusers') \/ d \in View(c)'
               \/ job'.kind = "JOIN" /\ job'.of = d /\ c \in Targets'
    <3>1. c \notin ToSet(newusers)
      <4>1. c \in ToSet(newusers) => Len(inbox[c]) = 0 BY EmptySeq DEF Silent, Unannounced
      <4> QED BY <1>5, <4>1 DEF Hears
    <3>2. d \in ToSet(newusers) \/ d \in View(c) BY <1>3, <1>4, <1>5, <2>3 DEF Announces
    <3>3. job'.kind = "JOIN" /\ job'.of = new BY <2>3, MsgIs DEF Announces
    <3> QED BY <1>1, <1>5, <2>3, <3>1, <3>2, <3>3 DEF Announces
  <2>4. CASE Removes BY <1>2, <1>4, <1>5, <2>4 DEF Removes
  <2>5. CASE Ends BY <1>4, <1>5, <2>5 DEF Ends
  <2>6. CASE Starts BY <1>3, <1>4, <1>5, <2>6 DEF Starts
  <2>7. CASE Delivers /\ c # Item.to BY <1>4, <1>5, <2>7 DEF Delivers
  <2>8. CASE Delivers /\ Targets = {} BY <1>4, <1>5, <2>8 DEF Delivers
  <2> QED BY <1>5, <2>1, <2>2, <2>3, <2>4, <2>5, <2>6, <2>7, <2>8, ViewStep
<1>6. CASE Delivers /\ c = Item.to /\ Hears(c) /\ ToSet(inbox'[c]) = ToSet(inbox[c]) \cup {job}
           /\ inbox'[c][3] = inbox[c][3]
  <2>1. UNCHANGED <<users, newusers, job>> BY <1>6 DEF Delivers
  <2>2. \/ d \in ToSet(newusers) \/ d \in View(c)
        \/ job.kind = "JOIN" /\ job.of = d
        \/ job.kind = "PART" /\ job.of = d
    <3>1. d \in ToSet(users) /\ Hears(c) BY <1>6, <2>1
    <3> QED BY <1>4, <3>1
  <2>3. \A m \in ToSet(inbox[c]) : m.kind = "PART" /\ job.kind = "JOIN" => m.of # d
    BY <1>1, <2>1 DEF PartsLast
  <2>4. d \in Seen(inbox'[c]) <=>
          /\ \/ d \in Seen(inbox[c])
             \/ job.kind = "JOIN" /\ job.of = d
                /\ \A m \in ToSet(inbox[c]) : m.kind = "PART" => m.of # d
          /\ job.kind = "PART" => job.of # d
    BY <1>6, SeenAfter
  <2> QED BY <2>1, <2>2, <2>3, <2>4, ViewIs
<1>7. CASE Delivers /\ Len(inbox'[c]) = 3 /\ inbox'[c][3].names = names /\ Targets = {}
           /\ job.kind = "JOIN"
  <2>1. UNCHANGED <<users, newusers>> BY <1>7 DEF Delivers
  <2>2. d \in ToSet(newusers) \/ d \in names BY <1>1, <1>7, <2>1 DEF NamesOK
  <2>3. d \in names => d \in Seen(inbox'[c]) BY <1>7, SeenFirst
  <2> QED BY <2>1, <2>2, <2>3, ViewIs
<1> QED BY <1>5, <1>6, <1>7, HearsStep

(* Every step keeps Forgets: a member is removed when it has been reset,   *)
(* or when its PART has been brought to the others.                        *)
LEMMA ForgetsStep ==
  ASSUME IInv, IInv', Aligned, Undisturbed, Progress, GreetedFirst', NamesOK, Forgets,
         [Next]_vars
  PROVE  Forgets'
<1> USE DEF IInv
<1> SUFFICES ASSUME Alive', NEW c \in Conns, Hears(c)'
             PROVE  /\ \A d \in View(c)' : d \in ToSet(users') \/ Broken(d)'
                    /\ job'.kind = "PART" /\ c # job'.of =>
                         c \in Targets' \/ job'.of \notin View(c)'
  BY DEF Forgets
<1>1. Alive /\ c \in ToSet(users) /\ peer[c] = "open" BY HearsStep
<1>2. ~Broken(c) BY <1>1 DEF Broken
<1>3. NoMsg.kind # "JOIN" /\ NoMsg.kind # "PART" BY MsgIs
<1>4. ASSUME Hears(c)
      PROVE  /\ \A d \in View(c) : d \in ToSet(users) \/ Broken(d)
             /\ job.kind = "PART" /\ c # job.of => c \in Targets \/ job.of \notin View(c)
  BY <1>1, <1>4 DEF Forgets
<1>5. \A d \in Conns : Broken(d) => Broken(d)' BY PeersStep
<1>6. View(c) \subseteq Conns \/ ~Hears(c) BY SeenConns DEF Hears
<1>7. CASE Hears(c) /\ View(c)' = View(c) /\ (Delivers => c # Item.to \/ Targets = {})
  <2>1. \A d \in View(c)' : d \in ToSet(users) \/ Broken(d)' BY <1>4, <1>5, <1>6, <1>7
  <2>2. CASE Rests BY <1>4, <1>7, <2>1, <2>2 DEF Rests
  <2>3. CASE Grabs BY <1>3, <2>1, <2>3 DEF Grabs
  <2>4. CASE \E new \in Conns : Announces(new)
    <3>1. PICK new \in Conns : Announces(new) BY <2>4
    <3>2. job'.kind # "PART" /\ users' = users BY <3>1, MsgIs DEF Announces
    <3> QED BY <2>1, <3>2
  <2>5. CASE Removes
    <3>1. \A d \in ToSet(users) : d \in ToSet(users') \/ Broken(d)' BY <1>5, <2>5 DEF Removes
    <3> QED BY <1>2, <1>4, <1>7, <2>1, <2>5, <3>1 DEF Removes
  <2>6. CASE Ends
    <3>1. job'.kind # "PART" /\ Targets = {} BY <1>3, <2>6 DEF Ends
    <3>2. CASE job.kind = "PART"
      <4>1. ToSet(users') = ToSet(users) \ {job.of} BY <2>6, <3>2 DEF Ends
      <4>2. c # job.of BY <4>1 DEF Hears
      <4>3. job.of \notin View(c)' BY <1>4, <1>7, <3>1, <3>2, <4>2
      <4> QED BY <2>1, <3>1, <4>1, <4>3
    <3>3. CASE job.kind # "PART" BY <2>1, <2>6, <3>1, <3>3 DEF Ends
    <3> QED BY <3>2, <3>3
  <2>7. CASE Starts BY <1>1, <2>1, <2>7 DEF Starts
  <2>8. CASE Delivers BY <1>4, <1>7, <2>1, <2>8 DEF Delivers
  <2> QED BY <2>2, <2>3, <2>4, <2>5, <2>6, <2>7, <2>8, ViewStep
<1>8. CASE Delivers /\ c = Item.to /\ Hears(c) /\ ToSet(inbox'[c]) = ToSet(inbox[c]) \cup {job}
           /\ inbox'[c][3] = inbox[c][3]
  <2>1. UNCHANGED <<users, job>> BY <1>8 DEF Delivers
  <2>2. ASSUME NEW d, d \in Seen(inbox'[c])
        PROVE  /\ d \in Seen(inbox[c]) \/ (job.kind = "JOIN" /\ job.of = d)
               /\ job.kind = "PART" => job.of # d
    BY <1>8, <2>2, SeenAfter
  <2>3. job.kind = "JOIN" => job.of \in ToSet(users) \/ Broken(job.of) BY DEF LoopOK
  <2>4. job.kind = "JOIN" => job.of \in Conns BY DEF Phases, ToAll
  <2>5. \A d \in View(c)' : d \in ToSet(users) \/ Broken(d)'
    BY <1>4, <1>5, <1>6, <1>8, <2>2, <2>3, <2>4, ViewIs
  <2>6. job.kind = "PART" => job.of \notin View(c)' BY <2>2, ViewIs
  <2> QED BY <2>1, <2>5, <2>6
<1>9. CASE Delivers /\ Len(inbox'[c]) = 3 /\ inbox'[c][3].names = names /\ Targets = {}
           /\ job.kind = "JOIN"
  <2>1. UNCHANGED <<users, job>> BY <1>9 DEF Delivers
  <2>2. \A d \in View(c)' : d \in names \/ d = c BY <1>9, SeenFirst, ViewIs
  <2>3. \A d \in names : d \in ToSet(users) \/ Broken(d)
    BY <1>1, <1>9 DEF NamesOK
  <2>4. names \subseteq Conns BY DEF TypeOK
  <2>5. \A d \in View(c)' : d \in ToSet(users) \/ Broken(d)' BY <1>1, <1>5, <2>2, <2>3, <2>4
  <2> QED BY <1>9, <2>1, <2>5
<1> QED BY <1>7, <1>8, <1>9, HearsStep

-----------------------------------------------------------------------------
(* The topic a client was shown last.                                        *)

(* Every step keeps Shown: a TOPIC is in the memory of the Servlet before  *)
(* anybody is shown it, and nobody is shown an older one after it.         *)
LEMMA ShownStep ==
  ASSUME IInv, Aligned, Undisturbed, Progress, Shown, [Next]_vars
  PROVE  Shown'
<1> USE DEF IInv
<1> DEFINE LastIs(box, val) ==
      \E i \in DOMAIN box :
        /\ box[i].kind \in {"TOPIC", "RPL_TOPIC"} /\ box[i].val = val
        /\ \A j \in DOMAIN box : box[j].kind \in {"TOPIC", "RPL_TOPIC"} => j <= i
<1> SUFFICES ASSUME Alive', NEW c \in Conns, c \in ToSet(users'), peer'[c] = "open",
                    Len(inbox'[c]) >= 2
             PROVE  LastIs(inbox'[c], topic') \/ (job'.kind = "TOPIC" /\ c \in Targets')
  BY DEF Shown, LastTopicIs, TopicShown
<1> HIDE DEF LastIs
<1>1. /\ Alive /\ peer[c] = "open" /\ c \in ToSet(users)
  <2>1. inbox'[c] # <<>>
    <3>1. Len(<<>>) = 0 BY EmptySeq
    <3> QED BY <3>1
  <2> QED BY <2>1, MemberIs
<1>2. ASSUME Len(inbox[c]) >= 2
      PROVE  LastIs(inbox[c], topic) \/ (job.kind = "TOPIC" /\ c \in Targets)
  BY <1>1, <1>2 DEF Shown, LastTopicIs, TopicShown, LastIs
<1>3. CASE inbox'[c] = inbox[c]
  <2>1. LastIs(inbox'[c], topic) \/ (job.kind = "TOPIC" /\ c \in Targets) BY <1>2, <1>3
  <2>2. CASE Delivers
    <3>1. ASSUME c = Item.to PROVE FALSE
      <4>1. PICK n \in Nat : n = Len(inbox[c]) /\ Len(inbox'[c]) = n + 1
        BY <1>1, <2>2, <3>1, DeliverIs
      <4> QED BY <1>3, <4>1
    <3> QED BY <2>1, <2>2, <3>1 DEF Delivers
  <2>3. CASE Removes
    <3>1. c # Item.to BY <1>1, <2>3 DEF Removes, Broken
    <3> QED BY <2>1, <2>3, <3>1 DEF Removes
  <2>4. NoMsg.kind # "TOPIC" BY MsgIs
  <2>5. CASE Starts BY <1>1, <2>1, <2>4, <2>5 DEF Starts
  <2>6. CASE Rests \/ Grabs \/ Ends BY <2>1, <2>4, <2>6 DEF Rests, Grabs, Ends
  <2>7. CASE \E new \in Conns : Announces(new) BY <2>1, <2>4, <2>7 DEF Announces
  <2> QED BY <2>2, <2>3, <2>5, <2>6, <2>7, ViewStep
<1>4. CASE inbox'[c] # inbox[c]
  <2>1. Delivers BY <1>4, ViewStep DEF Rests, Grabs, Announces, Removes, Ends, Starts
  <2>2. PICK n \in Nat :
          /\ n = Len(inbox[c]) /\ DOMAIN inbox[c] = 1..n
          /\ Len(inbox'[c]) = n + 1 /\ DOMAIN inbox'[c] = 1..(n + 1)
          /\ inbox'[c][n + 1] = Written /\ \A i \in 1..n : inbox'[c][i] = inbox[c][i]
          /\ loop # <<>> => /\ Written = job
                            /\ IF job.kind = "JOIN" /\ job.of = c THEN n = 0 ELSE n >= 4
          /\ loop = <<>> => /\ job.kind = "JOIN"
                            /\ n \in 1..3 /\ Written.kind = ReplyKinds[n]
                            /\ n = 1 => Written.val = topic
    BY <1>1, <1>4, <2>1, Position
  <2>3. job' = job /\ topic' = topic BY <2>1 DEF Delivers
  <2>4. CASE Written.kind \in {"TOPIC", "RPL_TOPIC"}
    <3>1. Written.val = topic
      <4>1. CASE loop # <<>>
        <5>1. Written = job BY <2>2, <4>1
        <5>2. job.kind # "RPL_TOPIC" BY <2>1 DEF Delivers, ToAll
        <5> QED BY <2>4, <5>1, <5>2 DEF Memory
      <4>2. CASE loop = <<>>
        <5>0. n \in 1..3 /\ ReplyKinds[n] \in {"TOPIC", "RPL_TOPIC"} BY <2>2, <2>4, <4>2
        <5>1. n = 1 BY <5>0 DEF ReplyKinds
        <5> QED BY <2>2, <4>2, <5>1
      <4> QED BY <4>1, <4>2
    <3>2. n + 1 \in DOMAIN inbox'[c] /\ \A j \in DOMAIN inbox'[c] : j <= n + 1 BY <2>2
    <3>3. inbox'[c][n + 1] = Written BY <2>2
    <3>4. LastIs(inbox'[c], topic) BY <2>4, <3>1, <3>2, <3>3 DEF LastIs
    <3> QED BY <2>3, <3>4
  <2>5. CASE Written.kind \notin {"TOPIC", "RPL_TOPIC"}
    <3>1. n >= 2 /\ job.kind # "TOPIC"
      <4>1. CASE loop # <<>> BY <2>2, <2>5, <4>1
      <4>2. CASE loop = <<>>
        <5>1. n # 1 BY <2>2, <2>5, <4>2 DEF ReplyKinds
        <5>2. n \in 1..3 /\ job.kind = "JOIN" BY <2>2, <4>2
        <5> QED BY <5>1, <5>2
      <4> QED BY <4>1, <4>2
    <3>2. LastIs(inbox[c], topic) BY <1>2, <2>2, <3>1
    <3>3. PICK i \in 1..n :
            /\ inbox[c][i].kind \in {"TOPIC", "RPL_TOPIC"} /\ inbox[c][i].val = topic
            /\ \A j \in 1..n : inbox[c][j].kind \in {"TOPIC", "RPL_TOPIC"} => j <= i
      BY <2>2, <3>2 DEF LastIs
    <3>4. i \in DOMAIN inbox'[c] /\ inbox'[c][i] = inbox[c][i] BY <2>2
    <3>5. ASSUME NEW j \in DOMAIN inbox'[c], inbox'[c][j].kind \in {"TOPIC", "RPL_TOPIC"}
          PROVE  j <= i
      <4>1. j # n + 1 BY <2>2, <2>5, <3>5
      <4>2. j \in 1..n BY <2>2, <4>1
      <4> QED BY <2>2, <3>3, <3>5, <4>2
    <3>6. LastIs(inbox'[c], topic) BY <3>3, <3>4, <3>5 DEF LastIs
    <3> QED BY <2>3, <3>6
  <2> QED BY <2>4, <2>5
<1> QED BY <1>3, <1>4
-----------------------------------------------------------------------------
(* The invariants, together.                                                 *)

(* The invariant: with IInv and OInv, and as long as no loop is disturbed, *)
(* it is inductive.                                                        *)
VInv ==
  /\ Progress /\ GreetedFirst /\ NamesOK /\ PartsLast /\ Knows /\ Forgets /\ Shown

(* Nobody is in at the start. *)
LEMMA InitVInv == Init => VInv
<1> SUFFICES ASSUME Init PROVE VInv
  OBVIOUS
<1> USE DEF Init
<1>1. \A c \in Conns : /\ inbox[c] = <<>> /\ DOMAIN inbox[c] = {}
                       /\ Len(inbox[c]) = 0 /\ ToSet(inbox[c]) = {}
  BY NothingIn, EmptySeq
<1>2. NoMsg.kind = "none" /\ ToSet(users) = {} BY NothingIn, MsgIs
<1>3. GreetedFirst BY <1>1 DEF GreetedFirst
<1>4. Progress BY <1>2 DEF Progress
<1>5. NamesOK BY <1>2 DEF NamesOK
<1>6. PartsLast BY <1>1 DEF PartsLast
<1>7. Knows /\ Forgets /\ Shown BY <1>2 DEF Knows, Forgets, Shown, Hears
<1> QED BY <1>3, <1>4, <1>5, <1>6, <1>7 DEF VInv

(* VInv is inductive, together with IInv and OInv, where no loop is        *)
(* disturbed.                                                              *)
LEMMA NextVInv ==
  ASSUME IInv, IInv', OInv, VInv, Undisturbed, [Next]_vars
  PROVE  VInv'
<1> USE DEF OInv, VInv
<1>1. GreetedFirst' BY GreetedFirstStep
<1>2. Progress' /\ NamesOK' /\ PartsLast' /\ Shown'
  BY ProgressStep, NamesOKStep, PartsLastStep, ShownStep
<1>3. Knows' BY <1>1, KnowsStep
<1>4. Forgets' BY <1>1, ForgetsStep
<1> QED BY <1>1, <1>2, <1>3, <1>4

(* VInv holds as long as no failed write disturbs a loop. *)
THEOREM UndisturbedVInv == Spec /\ []Undisturbed => []VInv
<1>1. IInv /\ IInv' /\ OInv /\ VInv /\ Undisturbed /\ [Next]_vars => VInv' BY NextVInv
<1> QED BY <1>1, InitVInv, SpecIInv, UndisturbedOInv, PTL DEF Spec

(* The first four lines that a client is written are the confirmation of   *)
(* its JOIN, the topic, the names and the end of the names, which          *)
(* connect_to_channel reads without looking, also when several clients     *)
(* join in one pass and when members are removed while it is greeted.      *)
THEOREM UndisturbedGreetedFirst == Spec /\ []Undisturbed => []GreetedFirst
<1>1. VInv => GreetedFirst BY DEF VInv
<1> QED BY <1>1, UndisturbedVInv, PTL

(* Between two passes every listening member knows everybody that is in,   *)
(* from the names and the JOINs and PARTs it was sent, and whoever else it *)
(* believes to be in has been reset: the code tells nobody of a removal.   *)
THEOREM UndisturbedViewsAgree == Spec /\ []Undisturbed => []ViewsAgree
<1>1. IInv /\ VInv => ViewsAgree
  <2> SUFFICES ASSUME IInv, VInv, pc = "grab", NEW c \in Conns, Listening(c)
               PROVE  /\ ToSet(users) \subseteq View(c)
                      /\ \A d \in View(c) \ ToSet(users) : Broken(d)
    BY DEF ViewsAgree
  <2>1. job = NoMsg /\ newusers = <<>> BY DEF IInv, Phases
  <2>2. job.kind = "none" /\ ToSet(newusers) = {} BY <2>1, MsgIs, NothingIn
  <2>3. Alive BY DEF Alive
  <2>4. Hears(c)
    <3>1. Len(inbox[c]) \in Nat BY ToSetIs DEF IInv, TypeOK
    <3> QED BY <3>1 DEF Listening, Greeted, Hears
  <2>5. \A d \in ToSet(users) : d \in View(c) BY <2>2, <2>3, <2>4 DEF VInv, Knows
  <2>6. \A d \in View(c) : d \in ToSet(users) \/ Broken(d) BY <2>3, <2>4 DEF VInv, Forgets
  <2> QED BY <2>5, <2>6
<1> QED BY <1>1, SpecIInv, UndisturbedVInv, PTL

(* Between two passes every listening member has last been shown the topic *)
(* that is in the memory of the Servlet and in the row of the channel.     *)
THEOREM UndisturbedTopicsAgree == Spec /\ []Undisturbed => []TopicsAgree
<1>1. IInv /\ VInv => TopicsAgree
  <2> SUFFICES ASSUME IInv, VInv, pc = "grab", NEW c \in Conns, Listening(c)
               PROVE  LastTopicIs(c, topic) /\ topic = dbTopic
    BY DEF TopicsAgree
  <2>1. job.kind = "none" BY MsgIs DEF IInv, Phases
  <2>2. Alive BY DEF Alive
  <2>3. Len(inbox[c]) >= 2
    <3>1. Len(inbox[c]) \in Nat BY ToSetIs DEF IInv, TypeOK
    <3> QED BY <3>1 DEF Listening, Greeted
  <2> QED BY <2>1, <2>2, <2>3 DEF Listening, VInv, Shown, IInv, Memory
<1> QED BY <1>1, SpecIInv, UndisturbedVInv, PTL

(* In a channel that never has more than four members, all of this holds   *)
(* without condition, whatever resets there are: its members see one       *)
(* conversation, in the order of its senders, are greeted first, and agree *)
(* between two passes on who is in and what the topic is.                  *)
THEOREM FourMembers ==
  Spec /\ [](Len(users) <= 4) =>
    [](OneConversation /\ InSendersOrder /\ GreetedFirst /\ ViewsAgree /\ TopicsAgree)
  BY SmallChannels, UndisturbedOneConversation, UndisturbedInSendersOrder, UndisturbedGreetedFirst,
     UndisturbedViewsAgree, UndisturbedTopicsAgree, PTL

=============================================================================
