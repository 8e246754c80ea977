---------------------------- MODULE ClientProofs ----------------------------
(***************************************************************************)
(* What TLAPS proves about Client: every property the run checks that is   *)
(* not about fairness, for any clients, channels and bounds, with refused  *)
(* passwords, a server that stops, and threads that end.                   *)
(*                                                                         *)
(* The invariant IInv follows a connection through the server: the accept  *)
(* loop, the hand-off, the set of a channel; what it was told so far has a *)
(* fixed Shape, so a client that counts the lines it has taken (At) knows  *)
(* what comes next.  Words and Topical pick the lines of one speaker and   *)
(* the topics from all a connection was told.                              *)
(*                                                                         *)
(* In order: the invariant; what each action does, connection by           *)
(* connection; each part of the invariant kept by each step; the theorems. *)
(***************************************************************************)
EXTENDS Client, QueueLemmas

Active == {"welcome", "prompt"} \cup Replies \cup Loop
Chat   == {"JOIN", "PRIVMSG", "TOPIC", "PART"}
Spoken == {"PRIVMSG", "TOPIC", "PART"}

(* k is the connection its client has now, or has had last. *)
IsNow(k) == k[2] = session[k[1]]

LinkOK(k) ==
  /\ session[k[1]] < k[2] <=> link[k] = "none"
  /\ link[k] = "none" => up[k] = <<>> /\ told[k] = <<>>
  /\ link[k] = "open" => IsNow(k) /\ pc[k[1]] \in Active
  /\ link[k] \in {"closed", "reset"} => told[k] = <<>>
  /\ IsNow(k) /\ pc[k[1]] \in Active => link[k] \in {"open", "ended"}

Links == \A k \in Conns : LinkOK(k)

ClientOK(c) ==
  /\ pc[c] \in Active => session[c] > 0
  /\ pc[c] = "start" =>
       session[c] = 0 /\ sockMsgs[c] = <<>> /\ shown[c] = <<>> /\ typed[c] = 0

Starts == \A c \in Clients : ClientOK(c)

Stopped ==
  ~running =>
    /\ serving = None
    /\ \A k \in Conns : link[k] \in {"none", "ended"} /\ up[k] = <<>>
    /\ \A ch \in Channels : newusers[ch] = <<>> /\ users[ch] = {}

Asks(k)  == up[k] # <<>> /\ up[k][1].kind = "USERINFO"
In(k)    == \E ch \in Channels : k \in users[ch]
Waits(k) == \E ch \in Channels : k \in ToSet(newusers[ch])

PlaceOK(k) ==
  /\ Asks(k) => /\ link[k] = "open" /\ pc[k[1]] = "welcome" /\ Len(up[k]) = 1
                /\ Len(told[k]) = 0 /\ serving # k /\ ~Waits(k) /\ ~In(k)
  /\ serving = k =>
       /\ link[k] = "open" /\ Len(told[k]) = 1 /\ ~Waits(k) /\ ~In(k)
       /\ \/ pc[k[1]] \in {"welcome", "prompt"} /\ up[k] = <<>>
          \/ pc[k[1]] = "confirm" /\ up[k] = <<Line("JOIN", k, channel[k[1]], 0)>>
  /\ Waits(k) => /\ link[k] = "open" /\ pc[k[1]] = "confirm" /\ up[k] = <<>>
                 /\ Len(told[k]) = 1 /\ ~In(k)
  /\ link[k] = "open" => Asks(k) \/ serving = k \/ Waits(k) \/ In(k)

Places == \A k \in Conns : PlaceOK(k)

Queues ==
  \A ch \in Channels :
    IsInjective(newusers[ch]) /\ \A k \in ToSet(newusers[ch]) : channel[k[1]] = ch

MemberOK(ch, k) ==
  /\ link[k] \in {"open", "closed", "reset"}
  /\ link[k] = "open" => pc[k[1]] \in Replies \cup Loop /\ channel[k[1]] = ch /\ Len(told[k]) >= 5
  /\ link[k] # "open" =>
       \/ IsNow(k) /\ pc[k[1]] = "failed"
       \/ \E i \in DOMAIN up[k] : up[k][i].kind = "PART"
  /\ \A dh \in Channels : k \in users[dh] => dh = ch

Members == \A ch \in Channels : \A k \in users[ch] : MemberOK(ch, k)

ToldOK(k) ==
  \A i \in DOMAIN told[k] :
    /\ i = 1 => /\ told[k][i].kind \in {"001", "464"} /\ told[k][i].chan = None
                /\ told[k][i].kind = "464" => link[k] = "ended"
    /\ i = 2 => told[k][i].kind = "JOIN" /\ told[k][i].from = k
    /\ i = 3 => told[k][i].kind = "332" /\ TopicOf(told[k][i]) \in Topics \ {Garbage}
    /\ i = 4 => told[k][i].kind = "353"
    /\ i = 5 => told[k][i].kind = "366"
    /\ i > 5 => /\ told[k][i].kind \in Chat /\ told[k][i].from \in Conns
                /\ told[k][i].kind = "TOPIC" => told[k][i].val > 0

Shape == \A k \in Conns : ToldOK(k)

At(c) == read[Conn(c)] - Len(sockMsgs[c])
Place == [welcome |-> 0, prompt |-> 1, confirm |-> 1, topic |-> 2, names |-> 3, end |-> 4]

OnTrack(c) == IF pc[c] \in Loop THEN At(c) >= 5 ELSE At(c) = Place[pc[c]]
Lost(c) ==
  /\ link[Conn(c)] = "ended" /\ read[Conn(c)] = Len(told[Conn(c)]) /\ sockMsgs[c] = <<>>
  /\ IF pc[c] \in Loop THEN At(c) < 5 ELSE At(c) < Place[pc[c]]

TrackOK(c) ==
  pc[c] \in Active =>
    /\ At(c) >= 0
    /\ \A i \in DOMAIN sockMsgs[c] : sockMsgs[c][i] = told[Conn(c)][At(c) + i]
    /\ OnTrack(c) \/ Lost(c)
    /\ pc[c] \in Loop /\ At(c) >= 5 =>
         /\ Len(shown[c]) = At(c) - 5
         /\ \A i \in DOMAIN shown[c] : shown[c][i] = told[Conn(c)][5 + i]
    /\ pc[c] \notin Loop \/ At(c) < 5 => shown[c] = <<>>
    /\ pc[c] = "input" => sockMsgs[c] = <<>>
    /\ pc[c] \in Loop => channelName[c] = channel[c] /\ userChan[c] = channel[c]
    /\ pc[c] \in Replies \cup Loop => channel[c] \in Channels
    /\ pc[c] \notin Loop => typed[c] = 0

Tracks == \A c \in Clients : TrackOK(c)

SaidOK(ch, k) ==
  /\ \A i \in DOMAIN up[k] :
       /\ up[k][i].kind \in Spoken /\ up[k][i].from = k /\ up[k][i].chan = ch
       /\ up[k][i].val > 0
       /\ i + 1 \in DOMAIN up[k] => up[k][i + 1].val = up[k][i].val + 1
  /\ link[k] = "open" /\ up[k] # <<>> => up[k][Len(up[k])].val = typed[k[1]]

Said == \A ch \in Channels : \A k \in users[ch] : SaidOK(ch, k)

Chans ==
  \A ch \in Channels : \A k \in users[ch] : \A i \in DOMAIN told[k] : told[k][i].chan \in {ch, None}

NextVal(k) == IF up[k] # <<>> THEN up[k][1].val ELSE typed[k[1]] + 1

(* What j was told of k in the chat. *)
Words(j, k) == {i \in DOMAIN told[j] : i > 5 /\ told[j][i].from = k}

InARow(j, k) ==
  \A m, n \in Words(j, k) :
    m < n /\ (\A p \in (m + 1)..(n - 1) : p \notin Words(j, k))
    => told[j][n].val = told[j][m].val + 1
Unheard(k) == link[k] = "none" \/ (link[k] = "open" /\ ~In(k))
UpTo(j, k) ==
  \A m \in Words(j, k) : (\A n \in Words(j, k) : n <= m) => told[j][m].val + 1 = NextVal(k)

Together(j, k) == \E ch \in Channels : j \in users[ch] /\ k \in users[ch]
Follows(j, k) ==
  Together(j, k) /\ link[j] = "open" /\ (up[k] # <<>> \/ link[k] = "open") => UpTo(j, k)

Heard ==
  \A j \in Conns : \A k \in Conns \ {j} :
    InARow(j, k) /\ (Unheard(k) => Words(j, k) = {}) /\ Follows(j, k)

Topical(k) == {i \in DOMAIN told[k] : told[k][i].kind \in {"332", "TOPIC"}}

CurrentOK(ch, k) ==
  link[k] = "open" =>
    /\ \E m \in Topical(k) : TopicOf(told[k][m]) = topic[ch] /\ \A n \in Topical(k) : n <= m
    /\ \A i \in Topical(k) : told[k][i].chan = ch
    /\ At(k[1]) >= 3 =>
         \E m \in Topical(k) : /\ m <= At(k[1]) /\ channelTopic[k[1]] = TopicOf(told[k][m])
                               /\ \A n \in Topical(k) : n <= At(k[1]) => n <= m

Current == \A ch \in Channels : \A k \in users[ch] : CurrentOK(ch, k)

IInv == /\ TypeOK /\ Links /\ Starts /\ Stopped /\ Places /\ Queues /\ Members
        /\ Shape /\ Tracks /\ Said /\ Chans /\ Heard /\ Current

-----------------------------------------------------------------------------
(* Connections, lines and sequences. *)

LEMMA MaxWorks ==
  ASSUME NEW n \in Nat, NEW S \in SUBSET (1..n), S # {}
  PROVE  Max(S) \in S /\ \A y \in S : y <= Max(S)
<1> DEFINE U == {u \in Nat : \A y \in S : y <= u}
<1>1. n \in U OBVIOUS
<1>2. Min(U) \in U /\ \A u \in U : Min(U) <= u BY <1>1, MinWorks
<1> PICK m : m = Min(U) OBVIOUS
<1>3. m \in Nat /\ \A y \in S : y <= m BY <1>2
<1>4. m \in S
  <2>1. SUFFICES ASSUME m \notin S PROVE FALSE OBVIOUS
  <2>2. PICK y \in S : TRUE OBVIOUS
  <2>3. m > 0 BY <1>3, <2>2
  <2>4. m - 1 \in Nat /\ \A z \in S : z <= m - 1 BY <1>3, <2>1, <2>3
  <2>5. m - 1 \in U BY <2>4
  <2> HIDE DEF U
  <2> QED BY <1>2, <1>3, <2>5
<1>5. \E x \in S : \A y \in S : x >= y BY <1>3, <1>4
<1> QED BY <1>5 DEF Max

LEMMA ConnsAre ==
  /\ \A k \in Conns : k[1] \in Clients /\ k[2] \in 1..MaxSessions[k[1]] /\ k = <<k[1], k[2]>>
  /\ \A c \in Clients : \A n \in 1..MaxSessions[c] : <<c, n>> \in Conns
<1>1. ASSUME NEW k \in Conns
      PROVE  k[1] \in Clients /\ k[2] \in 1..MaxSessions[k[1]] /\ k = <<k[1], k[2]>>
  <2>1. PICK c \in Clients : k \in {c} \X (1..MaxSessions[c]) BY DEF Conns
  <2>2. k = <<k[1], k[2]>> /\ k[1] = c /\ k[2] \in 1..MaxSessions[c] BY <2>1
  <2> QED BY <2>2
<1>2. ASSUME NEW c \in Clients, NEW n \in 1..MaxSessions[c] PROVE <<c, n>> \in Conns
  <2>1. <<c, n>> \in {c} \X (1..MaxSessions[c]) OBVIOUS
  <2> QED BY <2>1 DEF Conns
<1> QED BY <1>1, <1>2

LEMMA ConnIs ==
  ASSUME TypeOK, NEW c \in Clients, session[c] > 0
  PROVE  /\ Conn(c) \in Conns /\ Conn(c)[1] = c /\ Conn(c)[2] = session[c] /\ IsNow(Conn(c))
         /\ \A k \in Conns : k[1] = c /\ IsNow(k) => k = Conn(c)
<1>1. session[c] \in 1..MaxSessions[c] BY BoundsAssumption DEF TypeOK
<1>2. Conn(c) \in Conns BY <1>1, ConnsAre DEF Conn
<1>3. Conn(c)[1] = c /\ Conn(c)[2] = session[c] BY DEF Conn
<1>4. IsNow(Conn(c)) BY <1>3, Zenon DEF IsNow
<1>5. ASSUME NEW k \in Conns, k[1] = c, IsNow(k) PROVE k = Conn(c)
  <2>1. k = <<k[1], k[2]>> BY ConnsAre
  <2> QED BY <2>1, <1>5 DEF Conn, IsNow
<1> QED BY <1>2, <1>3, <1>4, <1>5

LEMMA LineIs ==
  ASSUME NEW kind \in Kinds, NEW from \in Conns \cup {None},
         NEW chan \in Channels \cup {None}, NEW val \in Nat
  PROVE  /\ Line(kind, from, chan, val) \in Lines
         /\ Line(kind, from, chan, val).kind = kind /\ Line(kind, from, chan, val).from = from
         /\ Line(kind, from, chan, val).chan = chan /\ Line(kind, from, chan, val).val = val
BY DEF Line, Lines

(* One sequence after another. *)
LEMMA TwoParts ==
  ASSUME NEW S, NEW s \in Seq(S), NEW t \in Seq(S)
  PROVE  /\ s \o t \in Seq(S) /\ Len(s \o t) = Len(s) + Len(t)
         /\ \A i \in 1..Len(s) : (s \o t)[i] = s[i]
         /\ \A i \in 1..Len(t) : (s \o t)[Len(s) + i] = t[i]
BY ConcatIs

LEMMA OneIs ==
  ASSUME NEW S, NEW x \in S
  PROVE  <<x>> \in Seq(S) /\ Len(<<x>>) = 1 /\ <<x>>[1] = x /\ <<x>> # <<>>
         /\ DOMAIN <<x>> = 1..1
OBVIOUS

(* What of the connection has not been read yet. *)
LEMMA UnreadIs ==
  ASSUME TypeOK, NEW k \in Conns, NEW n \in Nat, read[k] + n <= Len(told[k])
  PROVE  LET s == SubSeq(told[k], read[k] + 1, read[k] + n) IN
         /\ s \in Seq(Lines) /\ Len(s) = n
         /\ \A i \in 1..n : s[i] = told[k][read[k] + i]
<1>1. told[k] \in Seq(Lines) /\ read[k] \in Nat /\ Len(told[k]) \in Nat
      /\ \A i \in 1..Len(told[k]) : told[k][i] \in Lines
  BY LenProperties, ElementOfSeq DEF TypeOK
<1>2. \A i \in (read[k] + 1)..(read[k] + n) : told[k][i] \in Lines BY <1>1
<1> DEFINE t == SubSeq(told[k], read[k] + 1, read[k] + n)
<1>3. read[k] + 1 \in Int /\ read[k] + n \in Int BY <1>1
<1>4. /\ t \in Seq(Lines)
      /\ Len(t) = IF read[k] + 1 <= read[k] + n THEN (read[k] + n) - (read[k] + 1) + 1 ELSE 0
      /\ \A i \in 1..((read[k] + n) - (read[k] + 1) + 1) : t[i] = told[k][(read[k] + 1) + i - 1]
  BY SMTT(30), <1>2, <1>3, SubSeqProperties
<1> HIDE DEF t
<1>5. Len(t) = n /\ (read[k] + n) - (read[k] + 1) + 1 = n BY <1>1, <1>4
<1>6. ASSUME NEW i \in 1..n PROVE t[i] = told[k][read[k] + i]
  <2>1. (read[k] + 1) + i - 1 = read[k] + i BY <1>1
  <2> QED BY <1>4, <1>5, <2>1
<1> QED BY <1>4, <1>5, <1>6 DEF t

LEMMA UnreadLen ==
  ASSUME TypeOK, NEW k \in Conns
  PROVE  /\ Unread(k) \in Seq(Lines) /\ Len(Unread(k)) = Len(told[k]) - read[k]
         /\ Len(Unread(k)) \in Nat /\ read[k] \in Nat /\ Len(told[k]) \in Nat
         /\ \A i \in 1..Len(Unread(k)) : Unread(k)[i] = told[k][read[k] + i]
<1>1. read[k] \in Nat /\ Len(told[k]) \in Nat /\ read[k] <= Len(told[k])
  BY LenProperties DEF TypeOK
<1> DEFINE n == Len(told[k]) - read[k]
<1>2. n \in Nat /\ read[k] + n = Len(told[k]) BY <1>1
<1> HIDE DEF n
<1>3. Unread(k) = SubSeq(told[k], read[k] + 1, read[k] + n) BY <1>2 DEF Unread
<1>4. /\ Unread(k) \in Seq(Lines) /\ Len(Unread(k)) = n
      /\ \A i \in 1..n : Unread(k)[i] = told[k][read[k] + i]
  BY <1>2, <1>3, UnreadIs
<1> QED BY <1>1, <1>2, <1>4 DEF n

(* What the client takes up: the lines it holds, and the next n. *)
Got(c, n) == sockMsgs[c] \o SubSeq(told[Conn(c)], read[Conn(c)] + 1, read[Conn(c)] + n)

LEMMA GotIs ==
  ASSUME TypeOK, Tracks, Starts, NEW c \in Clients, pc[c] \in Active, NEW n \in Arrives(c)
  PROVE  /\ Conn(c) \in Conns /\ n \in Nat
         /\ read[Conn(c)] \in Nat /\ Len(sockMsgs[c]) \in Nat /\ Len(told[Conn(c)]) \in Nat
         /\ read[Conn(c)] + n <= Len(told[Conn(c)])
         /\ At(c) \in Nat /\ At(c) + Len(sockMsgs[c]) = read[Conn(c)]
         /\ Got(c, n) \in Seq(Lines) /\ Len(Got(c, n)) = Len(sockMsgs[c]) + n
         /\ \A i \in 1..(Len(sockMsgs[c]) + n) : Got(c, n)[i] = told[Conn(c)][At(c) + i]
<1> PICK k : k = Conn(c) OBVIOUS
<1> PICK s : s = sockMsgs[c] OBVIOUS
<1> PICK t : t = SubSeq(told[k], read[k] + 1, read[k] + n) OBVIOUS
<1>1. k \in Conns BY ConnIs DEF Starts, ClientOK
<1>2. s \in Seq(Lines) /\ Len(s) \in Nat /\ DOMAIN s = 1..Len(s)
  BY LenProperties DEF TypeOK
<1>3. n \in Nat /\ read[k] \in Nat /\ Len(told[k]) \in Nat /\ read[k] + n <= Len(told[k])
  BY <1>1, UnreadLen DEF Arrives
<1>4. At(c) >= 0 /\ At(c) = read[k] - Len(s) /\ \A i \in DOMAIN s : s[i] = told[k][At(c) + i]
  BY DEF Tracks, TrackOK, At
<1>5. At(c) \in Nat /\ At(c) + Len(s) = read[k] BY <1>2, <1>3, <1>4
<1>6. t \in Seq(Lines) /\ Len(t) = n /\ \A i \in 1..n : t[i] = told[k][read[k] + i]
  BY <1>1, <1>3, UnreadIs
<1>7. /\ s \o t \in Seq(Lines) /\ Len(s \o t) = Len(s) + n
      /\ \A i \in 1..Len(s) : (s \o t)[i] = s[i]
      /\ \A i \in 1..n : (s \o t)[Len(s) + i] = t[i]
  BY <1>2, <1>6, ConcatIs
<1>8. ASSUME NEW i \in 1..(Len(s) + n) PROVE (s \o t)[i] = told[k][At(c) + i]
  <2>1. CASE i <= Len(s)
    <3>1. i \in 1..Len(s) BY <2>1, <1>2, <1>3
    <3> QED BY <3>1, <1>2, <1>4, <1>7
  <2>2. CASE i > Len(s)
    <3> PICK j : j = i - Len(s) OBVIOUS
    <3>1. j \in 1..n /\ i = Len(s) + j BY <2>2, <1>2, <1>3
    <3>2. read[k] + j = At(c) + i BY <3>1, <1>2, <1>3, <1>5
    <3> QED BY SMTT(30), <3>1, <3>2, <1>6, <1>7
  <2>3. i <= Len(s) \/ i > Len(s) BY <1>2, <1>3
  <2> QED BY <2>1, <2>2, <2>3
<1>9. Got(c, n) = s \o t BY DEF Got
<1> QED BY <1>1, <1>2, <1>3, <1>5, <1>7, <1>8, <1>9

-----------------------------------------------------------------------------
(* The steps of the client, connection by connection. *)

SameClient(c) ==
  /\ pc'[c] = pc[c] /\ session'[c] = session[c] /\ typed'[c] = typed[c]
  /\ sockMsgs'[c] = sockMsgs[c] /\ channel'[c] = channel[c] /\ channelName'[c] = channelName[c]
  /\ userChan'[c] = userChan[c] /\ channelTopic'[c] = channelTopic[c] /\ shown'[c] = shown[c]

SameConn(k) == link'[k] = link[k] /\ up'[k] = up[k] /\ told'[k] = told[k] /\ read'[k] = read[k]

Alone(c) == (\A d \in Clients \ {c} : SameClient(d)) /\ UNCHANGED server

(* The client of k writes what its user says or does. *)
Writes(k, kind) ==
  LET n == Len(up[k]) IN
  /\ Len(up'[k]) = n + 1 /\ \A i \in 1..n : up'[k][i] = up[k][i]
  /\ up'[k][n + 1].kind = kind /\ up'[k][n + 1].from = k
  /\ up'[k][n + 1].chan = userChan[k[1]] /\ up'[k][n + 1].val = typed[k[1]] + 1

Hears(k) == told'[k] = <<>> /\ read'[k] = 0

(* A new connection; the one before is left with PART. *)
Opens(c) ==
  /\ pc[c] \in {"start", "input"} /\ running /\ session[c] < MaxSessions[c]
  /\ pc'[c] = "welcome" /\ session'[c] = session[c] + 1 /\ typed'[c] = 0
  /\ sockMsgs'[c] = sockMsgs[c] /\ shown'[c] = <<>>
  /\ \A k \in Conns :
       /\ k[1] # c \/ k[2] \notin {session[c], session[c] + 1} => SameConn(k)
       /\ k[1] = c /\ k[2] = session[c] + 1 =>
            /\ link'[k] = "open" /\ Len(up'[k]) = 1 /\ up'[k][1] = Line("USERINFO", k, None, 0)
            /\ told'[k] = told[k] /\ read'[k] = read[k]
       /\ k[1] = c /\ k[2] = session[c] =>
            /\ Hears(k)
            /\ link[k] = "open" => link'[k] \in {"closed", "reset"} /\ Writes(k, "PART")
            /\ link[k] # "open" => link'[k] = link[k] /\ up'[k] = up[k]
  /\ Alone(c)

(* run() ends. *)
Ends(c) ==
  LET k == Conn(c) IN
  /\ pc[c] \in Active /\ pc'[c] \in Over
  /\ session'[c] = session[c] /\ typed'[c] = 0
  /\ Hears(k)
  /\ link[k] = "open" =>
       /\ pc[c] \in Loop /\ link'[k] \in {"closed", "reset"}
       /\ \/ pc'[c] = "failed" /\ (up'[k] = up[k] \/ \E kind \in Spoken : Writes(k, kind))
          \/ Writes(k, "PART")
  /\ link[k] # "open" => link'[k] = link[k] /\ up'[k] = up[k]
  /\ \A j \in Conns \ {k} : SameConn(j)
  /\ Alone(c)

(* The client takes the next line that the server has written. *)
Takes(c) ==
  LET k == Conn(c) IN
  /\ At(c) + 1 \in DOMAIN told[k] /\ At(c) \in Nat
  /\ read'[k] \in Nat /\ read'[k] <= Len(told[k])
  /\ sockMsgs'[c] \in Seq(Lines) /\ read'[k] - Len(sockMsgs'[c]) = At(c) + 1
  /\ \A i \in DOMAIN sockMsgs'[c] : sockMsgs'[c][i] = told[k][At(c) + 1 + i]
  /\ FirstUnread(c) = told[k][At(c) + 1]

LEMMA ArrivesIs ==
  ASSUME TypeOK, Starts, NEW c \in Clients, pc[c] \in Active
  PROVE  /\ Conn(c) \in Conns /\ IsNow(Conn(c)) /\ Conn(c)[1] = c /\ Conn(c)[2] = session[c]
         /\ Len(Unread(Conn(c))) \in Nat
         /\ \A n \in Arrives(c) : n \in Nat /\ read[Conn(c)] + n <= Len(told[Conn(c)])
         /\ 0 \in Arrives(c) /\ Len(Unread(Conn(c))) \in Arrives(c)
<1>1. Conn(c) \in Conns /\ IsNow(Conn(c)) /\ Conn(c)[1] = c /\ Conn(c)[2] = session[c]
  BY ConnIs DEF Starts, ClientOK
<1>2. Len(Unread(Conn(c))) = Len(told[Conn(c)]) - read[Conn(c)] /\ Len(Unread(Conn(c))) \in Nat
      /\ read[Conn(c)] \in Nat /\ Len(told[Conn(c)]) \in Nat
  BY <1>1, UnreadLen
<1> QED BY <1>1, <1>2 DEF Arrives

(* All that is there, from the first line to come. *)
LEMMA AheadIs ==
  ASSUME TypeOK, Tracks, Starts, NEW c \in Clients, pc[c] \in Active
  PROVE  /\ Ahead(c) \in Seq(Lines) /\ Len(Ahead(c)) = Len(told[Conn(c)]) - At(c)
         /\ Len(Ahead(c)) \in Nat /\ At(c) \in Nat /\ Conn(c) \in Conns
         /\ \A i \in 1..Len(Ahead(c)) : Ahead(c)[i] = told[Conn(c)][At(c) + i]
<1> PICK k : k = Conn(c) OBVIOUS
<1> PICK n : n = Len(Unread(k)) OBVIOUS
<1>1. k \in Conns /\ n \in Arrives(c) BY ArrivesIs
<1>2. n = Len(told[k]) - read[k] /\ n \in Nat /\ read[k] \in Nat /\ Len(told[k]) \in Nat
  BY <1>1, UnreadLen
<1>3. read[k] + n = Len(told[k]) BY <1>2
<1>4. Ahead(c) = Got(c, n) BY <1>3 DEF Ahead, Got, Unread
<1>5. /\ At(c) \in Nat /\ At(c) + Len(sockMsgs[c]) = read[k] /\ Len(sockMsgs[c]) \in Nat
      /\ Got(c, n) \in Seq(Lines) /\ Len(Got(c, n)) = Len(sockMsgs[c]) + n
      /\ \A i \in 1..(Len(sockMsgs[c]) + n) : Got(c, n)[i] = told[k][At(c) + i]
  BY <1>1, GotIs
<1>6. Len(Ahead(c)) = Len(told[k]) - At(c) /\ Len(Ahead(c)) \in Nat BY <1>2, <1>4, <1>5
<1> QED BY <1>1, <1>4, <1>5, <1>6

LEMMA TakesNext ==
  ASSUME TypeOK, Tracks, Starts, NEW c \in Clients, pc[c] \in Active, NEW n \in Arrives(c),
         TryReading(c, n)
  PROVE  /\ Takes(c)
         /\ sockMsgs' = [sockMsgs EXCEPT ![c] = sockMsgs'[c]]
         /\ read' = [read EXCEPT ![Conn(c)] = read'[Conn(c)]]
<1> PICK k : k = Conn(c) OBVIOUS
<1> PICK g : g = Got(c, n) OBVIOUS
<1>1. /\ k \in Conns /\ n \in Nat
      /\ read[k] \in Nat /\ Len(sockMsgs[c]) \in Nat /\ Len(told[k]) \in Nat
      /\ read[k] + n <= Len(told[k])
      /\ At(c) \in Nat /\ At(c) + Len(sockMsgs[c]) = read[k]
      /\ g \in Seq(Lines) /\ Len(g) = Len(sockMsgs[c]) + n
      /\ \A i \in 1..(Len(sockMsgs[c]) + n) : g[i] = told[k][At(c) + i]
  BY GotIs
<1>2. sockMsgs[c] \in Seq(Lines) BY DEF TypeOK
<1>3. Len(g) > 0
  <2>1. CASE sockMsgs[c] = <<>> BY <2>1, <1>1 DEF TryReading
  <2>2. CASE sockMsgs[c] # <<>> BY <2>2, <1>1, <1>2, TailIs
  <2> QED BY <2>1, <2>2
<1>4. g # <<>> BY <1>3, <1>1, EmptySeq
<1>5. sockMsgs' = [sockMsgs EXCEPT ![c] = Tail(g)] /\ read' = [read EXCEPT ![k] = read[k] + n]
  BY DEF TryReading, Got
<1>6. sockMsgs'[c] = Tail(g) /\ read'[k] = read[k] + n BY <1>1, <1>5 DEF TypeOK
<1>7. /\ Tail(g) \in Seq(Lines) /\ Len(Tail(g)) = Len(g) - 1 /\ DOMAIN Tail(g) = 1..(Len(g) - 1)
      /\ Head(g) = g[1] /\ \A i \in 1..(Len(g) - 1) : Tail(g)[i] = g[i + 1]
  BY <1>1, <1>4, TailIs
<1>8. At(c) + 1 \in DOMAIN told[k]
  <2>1. DOMAIN told[k] = 1..Len(told[k]) BY <1>1, LenProperties DEF TypeOK
  <2> QED BY SMTT(30), <2>1, <1>1, <1>3
<1>9. read'[k] - Len(sockMsgs'[c]) = At(c) + 1 BY SMTT(30), <1>1, <1>6, <1>7
<1>10. ASSUME NEW i \in DOMAIN sockMsgs'[c] PROVE sockMsgs'[c][i] = told[k][At(c) + 1 + i]
  <2>1. i \in 1..(Len(g) - 1) BY <1>6, <1>7
  <2>2. i + 1 \in 1..(Len(sockMsgs[c]) + n) /\ At(c) + (i + 1) = At(c) + 1 + i BY <2>1, <1>1
  <2> QED BY ZenonT(60), <2>1, <2>2, <1>1, <1>6, <1>7
<1>11. FirstUnread(c) = told[k][At(c) + 1]
  <2>1. /\ FirstUnread(c) = Head(Ahead(c)) /\ Ahead(c) \in Seq(Lines)
        /\ Len(Ahead(c)) = Len(told[k]) - At(c)
        /\ \A i \in 1..Len(Ahead(c)) : Ahead(c)[i] = told[k][At(c) + i]
    BY AheadIs DEF FirstUnread, Ahead
  <2>2. Len(Ahead(c)) > 0 /\ Len(Ahead(c)) \in Nat BY SMTT(30), <2>1, <1>1, <1>3
  <2>3. Ahead(c) # <<>> BY <2>1, <2>2, EmptySeq
  <2>4. Head(Ahead(c)) = Ahead(c)[1] BY <2>1, <2>3, TailIs
  <2>5. 1 \in 1..Len(Ahead(c)) BY <2>2
  <2> QED BY <2>1, <2>4, <2>5
<1>12. read'[k] \in Nat /\ read'[k] <= Len(told[k]) BY <1>1, <1>6
<1> QED BY <1>1, <1>5, <1>6, <1>7, <1>8, <1>9, <1>10, <1>11, <1>12 DEF Takes

LEMMA WritesIs ==
  ASSUME TypeOK, NEW c \in Clients, Conn(c) \in Conns, NEW kind \in Spoken, userChan[c] \in Channels
  PROVE  LET k == Conn(c)
             l == Line(kind, k, userChan[c], typed[c] + 1)
             u == up[k] \o <<l>>
         IN  /\ u \in Seq(Lines) /\ Len(u) = Len(up[k]) + 1 /\ Len(up[k]) \in Nat
             /\ \A i \in 1..Len(up[k]) : u[i] = up[k][i]
             /\ u[Len(up[k]) + 1].kind = kind /\ u[Len(up[k]) + 1].from = k
             /\ u[Len(up[k]) + 1].chan = userChan[c] /\ u[Len(up[k]) + 1].val = typed[c] + 1
<1> PICK k : k = Conn(c) OBVIOUS
<1> PICK l : l = Line(kind, k, userChan[c], typed[c] + 1) OBVIOUS
<1>1. typed[c] + 1 \in Nat /\ kind \in Kinds BY DEF TypeOK, Spoken, Kinds
<1>2. l \in Lines /\ l.kind = kind /\ l.from = k /\ l.chan = userChan[c] /\ l.val = typed[c] + 1
  BY <1>1, LineIs
<1>3. <<l>> \in Seq(Lines) /\ Len(<<l>>) = 1 /\ <<l>>[1] = l BY <1>2, OneIs
<1>4. up[k] \in Seq(Lines) BY DEF TypeOK
<1>5. /\ up[k] \o <<l>> \in Seq(Lines) /\ Len(up[k] \o <<l>>) = Len(up[k]) + Len(<<l>>)
      /\ Len(up[k]) \in Nat
      /\ \A i \in 1..Len(up[k]) : (up[k] \o <<l>>)[i] = up[k][i]
      /\ \A i \in 1..Len(<<l>>) : (up[k] \o <<l>>)[Len(up[k]) + i] = <<l>>[i]
  BY <1>3, <1>4, ConcatIs
<1>6. (up[k] \o <<l>>)[Len(up[k]) + 1] = l BY <1>3, <1>5
<1> QED BY <1>2, <1>3, <1>5, <1>6

LEMMA ClosedIs ==
  ASSUME TypeOK, NEW k \in Conns, NEW n
  PROVE  /\ Closed(k, n) \in [Conns -> {"none", "open", "closed", "reset", "ended"}]
         /\ \A j \in Conns \ {k} : Closed(k, n)[j] = link[j]
         /\ link[k] = "open" => Closed(k, n)[k] \in {"closed", "reset"}
         /\ link[k] # "open" => Closed(k, n)[k] = link[k]
BY DEF Closed, TypeOK

LEMMA NewConn ==
  ASSUME TypeOK, Links, NEW c \in Clients, session[c] < MaxSessions[c]
  PROVE  LET k == <<c, session[c] + 1>> IN
         /\ k \in Conns /\ k[1] = c /\ k[2] = session[c] + 1
         /\ link[k] = "none" /\ up[k] = <<>> /\ told[k] = <<>> /\ read[k] = 0
         /\ \A j \in Conns : j[1] = c /\ j[2] = session[c] + 1 => j = k
         /\ LET l == Line("USERINFO", k, None, 0) IN
            <<l>> \in Seq(Lines) /\ Len(<<l>>) = 1 /\ <<l>>[1] = l
<1> PICK k : k = <<c, session[c] + 1>> OBVIOUS
<1>1. session[c] + 1 \in 1..MaxSessions[c] BY BoundsAssumption DEF TypeOK
<1>2. k \in Conns /\ k[1] = c /\ k[2] = session[c] + 1 BY <1>1, ConnsAre
<1>3. \A j \in Conns : j[1] = c /\ j[2] = session[c] + 1 => j = k BY <1>2, ConnsAre
<1>4. session[k[1]] < k[2] BY <1>2 DEF TypeOK
<1>5. link[k] = "none" /\ up[k] = <<>> /\ told[k] = <<>> BY <1>2, <1>4 DEF Links, LinkOK
<1>6. Len(told[k]) = 0 /\ read[k] \in Nat /\ read[k] <= Len(told[k]) BY <1>2, <1>5 DEF TypeOK
<1>7. read[k] = 0 BY <1>6
<1>8. Line("USERINFO", k, None, 0) \in Lines BY <1>2, LineIs DEF Kinds
<1> PICK l : l = Line("USERINFO", k, None, 0) OBVIOUS
<1>9. <<l>> \in Seq(Lines) /\ Len(<<l>>) = 1 /\ <<l>>[1] = l BY <1>8, OneIs
<1> QED BY <1>2, <1>3, <1>5, <1>7, <1>9

LEMMA StartIs ==
  ASSUME TypeOK, Links, Starts, NEW c \in Clients, Start(c)
  PROVE  Opens(c) /\ TypeOK'
<1> PICK k : k = <<c, session[c] + 1>> OBVIOUS
<1> PICK l : l = Line("USERINFO", k, None, 0) OBVIOUS
<1>1. session[c] = 0 /\ sockMsgs[c] = <<>> /\ shown[c] = <<>> /\ typed[c] = 0 /\ pc[c] = "start"
  BY DEF Start, Starts, ClientOK
<1>2. session[c] < MaxSessions[c] BY <1>1, BoundsAssumption
<1>3. /\ k \in Conns /\ k[1] = c /\ k[2] = session[c] + 1
      /\ link[k] = "none" /\ up[k] = <<>> /\ told[k] = <<>> /\ read[k] = 0
      /\ \A j \in Conns : j[1] = c /\ j[2] = session[c] + 1 => j = k
      /\ <<l>> \in Seq(Lines) /\ Len(<<l>>) = 1 /\ <<l>>[1] = l
  BY <1>2, NewConn
<1>4. /\ session' = [session EXCEPT ![c] = @ + 1] /\ link' = [link EXCEPT ![k] = "open"]
      /\ up' = [up EXCEPT ![k] = <<l>>] /\ pc' = [pc EXCEPT ![c] = "welcome"] /\ running
      /\ UNCHANGED <<typed, sockMsgs, channel, display, told, read, server>>
  BY DEF Start, ConnectAndPassUserInfo, Goto
<1>5. pc'[c] = "welcome" /\ session'[c] = session[c] + 1 /\ link'[k] = "open" /\ up'[k] = <<l>>
  BY <1>3, <1>4 DEF TypeOK
<1>6. \A j \in Conns \ {k} : SameConn(j) BY <1>3, <1>4 DEF TypeOK, SameConn
<1>7. Alone(c) BY <1>4 DEF TypeOK, Alone, SameClient, display
<1>8. TypeOK'
  <2>1. pc' \in [Clients -> Pcs] BY <1>4 DEF TypeOK, Pcs
  <2>2. session' \in [Clients -> Nat] /\ \A d \in Clients : session'[d] <= MaxSessions[d]
    <3>1. session' \in [Clients -> Nat] BY <1>4 DEF TypeOK
    <3>2. session[c] + 1 <= MaxSessions[c] BY <1>2, BoundsAssumption DEF TypeOK
    <3>3. \A d \in Clients : session'[d] = IF d = c THEN session[c] + 1 ELSE session[d]
      BY <1>4 DEF TypeOK
    <3> QED BY <3>1, <3>2, <3>3 DEF TypeOK
  <2>3. link' \in [Conns -> {"none", "open", "closed", "reset", "ended"}] BY <1>4 DEF TypeOK
  <2>4. up' \in [Conns -> Seq(Lines)] BY <1>3, <1>4 DEF TypeOK
  <2> QED BY <2>1, <2>2, <2>3, <2>4, <1>4 DEF TypeOK, display, server, rooms
<1>9. \A j \in Conns : j[1] = c => j[2] # session[c]
  BY <1>1, ConnsAre
<1>10. \A j \in Conns : j[1] # c \/ j[2] # session[c] + 1 => j # k BY <1>3
<1> QED BY <1>1, <1>2, <1>3, <1>4, <1>5, <1>6, <1>7, <1>8, <1>9, <1>10 DEF Opens, SameConn, display

LEMMA LeaveIs ==
  ASSUME TypeOK, Links, Starts, Tracks, NEW c \in Clients, Leave(c)
  PROVE  Opens(c) /\ TypeOK'
<1> PICK k : k = <<c, session[c] + 1>> OBVIOUS
<1> PICK l : l = Line("USERINFO", k, None, 0) OBVIOUS
<1> PICK o : o = Conn(c) OBVIOUS
<1>1. pc[c] = "input" /\ session[c] < MaxSessions[c] /\ pc[c] \in Active /\ pc[c] \in Loop
  BY DEF Leave, Active, Loop
<1>2. userChan[c] \in Channels BY <1>1 DEF Tracks, TrackOK
<1>3. /\ k \in Conns /\ k[1] = c /\ k[2] = session[c] + 1
      /\ link[k] = "none" /\ up[k] = <<>> /\ told[k] = <<>> /\ read[k] = 0
      /\ \A j \in Conns : j[1] = c /\ j[2] = session[c] + 1 => j = k
      /\ <<l>> \in Seq(Lines) /\ Len(<<l>>) = 1 /\ <<l>>[1] = l
  BY <1>1, NewConn
<1>4. /\ o \in Conns /\ IsNow(o) /\ o[1] = c /\ o[2] = session[c]
      /\ \A j \in Conns : j[1] = c /\ j[2] = session[c] => j = o
  BY <1>1, ConnIs DEF Starts, ClientOK, IsNow
<1>5. o # k BY <1>3, <1>4 DEF TypeOK
<1> PICK u : u = up[o] \o <<Line("PART", o, userChan[c], typed[c] + 1)>> OBVIOUS
<1>6. /\ u \in Seq(Lines) /\ Len(u) = Len(up[o]) + 1 /\ Len(up[o]) \in Nat
      /\ \A i \in 1..Len(up[o]) : u[i] = up[o][i]
      /\ u[Len(up[o]) + 1].kind = "PART" /\ u[Len(up[o]) + 1].from = o
      /\ u[Len(up[o]) + 1].chan = userChan[c] /\ u[Len(up[o]) + 1].val = typed[c] + 1
  BY <1>2, <1>4, WritesIs DEF Spoken
<1> PICK links : links = Closed(o, read[o]) OBVIOUS
<1> PICK lines : lines = IF link[o] = "open" THEN [up EXCEPT ![o] = u] ELSE up OBVIOUS
<1>7. /\ links \in [Conns -> {"none", "open", "closed", "reset", "ended"}]
      /\ \A j \in Conns \ {o} : links[j] = link[j]
      /\ link[o] = "open" => links[o] \in {"closed", "reset"}
      /\ link[o] # "open" => links[o] = link[o]
  BY <1>4, ClosedIs
<1>8. /\ lines \in [Conns -> Seq(Lines)] /\ \A j \in Conns \ {o} : lines[j] = up[j]
      /\ link[o] = "open" => lines[o] = u
      /\ link[o] # "open" => lines[o] = up[o]
  BY <1>4, <1>6 DEF TypeOK
<1>9. /\ session' = [session EXCEPT ![c] = @ + 1] /\ link' = [links EXCEPT ![k] = "open"]
      /\ up' = [lines EXCEPT ![k] = <<l>>] /\ pc' = [pc EXCEPT ![c] = "welcome"] /\ running
      /\ told' = [told EXCEPT ![o] = <<>>] /\ read' = [read EXCEPT ![o] = 0]
      /\ typed' = [typed EXCEPT ![c] = 0] /\ shown' = [shown EXCEPT ![c] = <<>>]
      /\ UNCHANGED <<sockMsgs, channel, channelName, userChan, channelTopic, server>>
  BY DEF Leave, ConnectAndPassUserInfo, Goto, Part
<1>10. /\ pc'[c] = "welcome" /\ session'[c] = session[c] + 1 /\ link'[k] = "open" /\ up'[k] = <<l>>
       /\ typed'[c] = 0 /\ shown'[c] = <<>> /\ sockMsgs'[c] = sockMsgs[c]
       /\ told'[k] = told[k] /\ read'[k] = read[k]
  BY <1>3, <1>5, <1>7, <1>8, <1>9 DEF TypeOK
<1>11. /\ Hears(o)
       /\ link[o] = "open" => link'[o] \in {"closed", "reset"} /\ up'[o] = u
       /\ link[o] # "open" => link'[o] = link[o] /\ up'[o] = up[o]
  BY <1>4, <1>5, <1>7, <1>8, <1>9 DEF TypeOK, Hears
<1>12. up'[o] = u => Writes(o, "PART") BY <1>4, <1>6 DEF Writes
<1>13. \A j \in Conns \ {k, o} : SameConn(j) BY <1>3, <1>4, <1>7, <1>8, <1>9 DEF TypeOK, SameConn
<1>14. Alone(c) BY <1>9 DEF TypeOK, Alone, SameClient, display
<1>15. TypeOK'
  <2>1. pc' \in [Clients -> Pcs] BY <1>9 DEF TypeOK, Pcs
  <2>2. session' \in [Clients -> Nat] /\ \A d \in Clients : session'[d] <= MaxSessions[d]
    <3>1. session' \in [Clients -> Nat] BY <1>9 DEF TypeOK
    <3>2. session[c] + 1 <= MaxSessions[c] BY <1>1, BoundsAssumption DEF TypeOK
    <3>3. \A d \in Clients : session'[d] = IF d = c THEN session[c] + 1 ELSE session[d]
      BY <1>9 DEF TypeOK
    <3> QED BY <3>1, <3>2, <3>3 DEF TypeOK
  <2>3. link' \in [Conns -> {"none", "open", "closed", "reset", "ended"}] BY <1>7, <1>9
  <2>4. up' \in [Conns -> Seq(Lines)] BY <1>3, <1>8, <1>9
  <2>5. /\ told' \in [Conns -> Seq(Lines)] /\ read' \in [Conns -> Nat]
        /\ \A j \in Conns : read'[j] <= Len(told'[j])
    <3>1. <<>> \in Seq(Lines) /\ Len(<<>>) = 0 BY EmptySeq
    <3> QED BY SMTT(30), <3>1, <1>4, <1>9 DEF TypeOK
  <2>6. /\ typed' \in [Clients -> Nat] /\ shown' \in [Clients -> Seq(Lines)]
        /\ \A d \in Clients : typed'[d] <= MaxTyped[d]
    <3>1. \A d \in Clients : 0 <= MaxTyped[d] BY BoundsAssumption
    <3>2. <<>> \in Seq(Lines) BY EmptySeq
    <3>3. typed' \in [Clients -> Nat] /\ shown' \in [Clients -> Seq(Lines)]
      BY <3>2, <1>9 DEF TypeOK
    <3>4. \A d \in Clients : typed'[d] = IF d = c THEN 0 ELSE typed[d] BY <1>9 DEF TypeOK
    <3> QED BY <3>1, <3>3, <3>4 DEF TypeOK
  <2> QED BY <2>1, <2>2, <2>3, <2>4, <2>5, <2>6, <1>9 DEF TypeOK, server, rooms
<1>16. \A j \in Conns : j[1] # c \/ j[2] \notin {session[c], session[c] + 1} => j \notin {k, o}
  BY <1>3, <1>4
<1> QED
  BY ZenonT(60), <1>1, <1>3, <1>4, <1>9, <1>10, <1>11, <1>12, <1>13, <1>14, <1>15, <1>16
  DEF Opens

(* What RunEnds leaves behind. *)
LEMMA RunEndsIs ==
  ASSUME TypeOK, Starts, NEW c \in Clients, pc[c] \in Active, NEW how \in Over, RunEnds(c, how)
  PROVE  /\ pc' \in [Clients -> Pcs] /\ pc'[c] = how /\ \A d \in Clients \ {c} : pc'[d] = pc[d]
         /\ told' \in [Conns -> Seq(Lines)] /\ read' \in [Conns -> Nat]
         /\ \A j \in Conns : read'[j] <= Len(told'[j])
         /\ Hears(Conn(c))
         /\ \A j \in Conns \ {Conn(c)} : told'[j] = told[j] /\ read'[j] = read[j]
         /\ typed' \in [Clients -> Nat] /\ \A d \in Clients : typed'[d] <= MaxTyped[d]
         /\ typed'[c] = 0
         /\ sockMsgs' \in [Clients -> Seq(Lines)] /\ shown' \in [Clients -> Seq(Lines)]
         /\ channel' \in [Clients -> Channels \cup {None}]
         /\ channelName' \in [Clients -> Channels \cup {None}]
         /\ userChan' \in [Clients -> Channels \cup {None}]
         /\ channelTopic' \in [Clients -> Topics]
         /\ \A d \in Clients \ {c} :
              /\ typed'[d] = typed[d] /\ sockMsgs'[d] = sockMsgs[d] /\ channel'[d] = channel[d]
              /\ channelName'[d] = channelName[d] /\ userChan'[d] = userChan[d]
              /\ channelTopic'[d] = channelTopic[d] /\ shown'[d] = shown[d]
<1> PICK k : k = Conn(c) OBVIOUS
<1>1. k \in Conns BY ConnIs DEF Starts, ClientOK
<1>2. <<>> \in Seq(Lines) /\ Len(<<>>) = 0 BY EmptySeq
<1>3. how \in Pcs BY DEF Pcs
<1>4. /\ pc' = [pc EXCEPT ![c] = how]
      /\ told' = [told EXCEPT ![k] = <<>>] /\ read' = [read EXCEPT ![k] = 0]
      /\ typed' = [typed EXCEPT ![c] = 0] /\ shown' = [shown EXCEPT ![c] = <<>>]
      /\ sockMsgs' = [sockMsgs EXCEPT ![c] = <<>>]
      /\ channel' = [channel EXCEPT ![c] = None]
      /\ channelName' = [channelName EXCEPT ![c] = None]
      /\ userChan' = [userChan EXCEPT ![c] = None]
      /\ channelTopic' = [channelTopic EXCEPT ![c] = Unset]
  BY DEF RunEnds, Goto
<1>5. pc' \in [Clients -> Pcs] /\ pc'[c] = how /\ \A d \in Clients \ {c} : pc'[d] = pc[d]
  BY <1>3, <1>4 DEF TypeOK
<1>6. /\ told' \in [Conns -> Seq(Lines)] /\ read' \in [Conns -> Nat] /\ Hears(k)
      /\ \A j \in Conns \ {k} : told'[j] = told[j] /\ read'[j] = read[j]
  BY <1>1, <1>2, <1>4 DEF TypeOK, Hears
<1>7. \A j \in Conns : read'[j] <= Len(told'[j])
  <2> SUFFICES ASSUME NEW j \in Conns PROVE read'[j] <= Len(told'[j]) OBVIOUS
  <2>1. CASE j = k
    <3>1. told'[j] = <<>> /\ read'[j] = 0 BY <2>1, <1>6 DEF Hears
    <3> QED BY <3>1, <1>2
  <2>2. CASE j # k BY <2>2, <1>6 DEF TypeOK
  <2> QED BY <2>1, <2>2
<1>8. /\ typed' \in [Clients -> Nat] /\ typed'[c] = 0
      /\ \A d \in Clients \ {c} : typed'[d] = typed[d]
  BY <1>4 DEF TypeOK
<1>9. \A d \in Clients : typed'[d] <= MaxTyped[d]
  <2>1. 0 <= MaxTyped[c] BY BoundsAssumption
  <2> QED BY <2>1, <1>8 DEF TypeOK
<1>10. /\ sockMsgs' \in [Clients -> Seq(Lines)] /\ shown' \in [Clients -> Seq(Lines)]
       /\ \A d \in Clients \ {c} : sockMsgs'[d] = sockMsgs[d] /\ shown'[d] = shown[d]
  BY <1>2, <1>4 DEF TypeOK
<1>11. /\ channel' \in [Clients -> Channels \cup {None}]
       /\ channelName' \in [Clients -> Channels \cup {None}]
       /\ userChan' \in [Clients -> Channels \cup {None}]
       /\ \A d \in Clients \ {c} : /\ channel'[d] = channel[d] /\ channelName'[d] = channelName[d]
                                   /\ userChan'[d] = userChan[d]
  BY <1>4 DEF TypeOK
<1>12. /\ channelTopic' \in [Clients -> Topics]
       /\ \A d \in Clients \ {c} : channelTopic'[d] = channelTopic[d]
  BY <1>4 DEF TypeOK, Topics
<1> QED BY <1>5, <1>6, <1>7, <1>8, <1>9, <1>10, <1>11, <1>12

(* So run() ends, whatever the client wrote and however it has closed the    *)
(* connection.                                                               *)
LEMMA RunEndsEnds ==
  ASSUME TypeOK, Starts, NEW c \in Clients, pc[c] \in Active, NEW how \in Over, RunEnds(c, how),
         UNCHANGED <<session, server>>,
         link' \in [Conns -> {"none", "open", "closed", "reset", "ended"}],
         up' \in [Conns -> Seq(Lines)],
         \A j \in Conns \ {Conn(c)} : link'[j] = link[j] /\ up'[j] = up[j],
         LET k == Conn(c) IN
           /\ link[k] = "open" =>
                /\ pc[c] \in Loop /\ link'[k] \in {"closed", "reset"}
                /\ \/ how = "failed" /\ (up'[k] = up[k] \/ \E kind \in Spoken : Writes(k, kind))
                   \/ Writes(k, "PART")
           /\ link[k] # "open" => link'[k] = link[k] /\ up'[k] = up[k]
  PROVE  Ends(c) /\ TypeOK'
<1>1. /\ pc' \in [Clients -> Pcs] /\ pc'[c] = how /\ \A d \in Clients \ {c} : pc'[d] = pc[d]
      /\ told' \in [Conns -> Seq(Lines)] /\ read' \in [Conns -> Nat]
      /\ \A j \in Conns : read'[j] <= Len(told'[j])
      /\ Hears(Conn(c))
      /\ \A j \in Conns \ {Conn(c)} : told'[j] = told[j] /\ read'[j] = read[j]
      /\ typed' \in [Clients -> Nat] /\ \A d \in Clients : typed'[d] <= MaxTyped[d]
      /\ typed'[c] = 0
      /\ sockMsgs' \in [Clients -> Seq(Lines)] /\ shown' \in [Clients -> Seq(Lines)]
      /\ channel' \in [Clients -> Channels \cup {None}]
      /\ channelName' \in [Clients -> Channels \cup {None}]
      /\ userChan' \in [Clients -> Channels \cup {None}]
      /\ channelTopic' \in [Clients -> Topics]
      /\ \A d \in Clients \ {c} :
           /\ typed'[d] = typed[d] /\ sockMsgs'[d] = sockMsgs[d] /\ channel'[d] = channel[d]
           /\ channelName'[d] = channelName[d] /\ userChan'[d] = userChan[d]
           /\ channelTopic'[d] = channelTopic[d] /\ shown'[d] = shown[d]
  BY RunEndsIs
<1>2. TypeOK' BY <1>1 DEF TypeOK, server, rooms
<1>3. Alone(c) BY <1>1 DEF Alone, SameClient
<1>4. \A j \in Conns \ {Conn(c)} : SameConn(j) BY <1>1 DEF SameConn
<1> QED BY <1>1, <1>2, <1>3, <1>4 DEF Ends

LEMMA ExitIs ==
  ASSUME TypeOK, Starts, Tracks, NEW c \in Clients, Exit(c)
  PROVE  Ends(c) /\ TypeOK'
<1> PICK k : k = Conn(c) OBVIOUS
<1>1. pc[c] = "input" /\ pc[c] \in Active /\ pc[c] \in Loop BY DEF Exit, Active, Loop
<1>2. userChan[c] \in Channels BY <1>1 DEF Tracks, TrackOK
<1>3. k \in Conns /\ k[1] = c BY <1>1, ArrivesIs
<1> PICK u : u = up[k] \o <<Line("PART", k, userChan[c], typed[c] + 1)>> OBVIOUS
<1>4. /\ u \in Seq(Lines) /\ Len(u) = Len(up[k]) + 1 /\ Len(up[k]) \in Nat
      /\ \A i \in 1..Len(up[k]) : u[i] = up[k][i]
      /\ u[Len(up[k]) + 1].kind = "PART" /\ u[Len(up[k]) + 1].from = k
      /\ u[Len(up[k]) + 1].chan = userChan[c] /\ u[Len(up[k]) + 1].val = typed[c] + 1
  BY <1>2, <1>3, WritesIs DEF Spoken
<1>5. /\ up' = IF link[k] = "open" THEN [up EXCEPT ![k] = u] ELSE up
      /\ link' = Closed(k, read[k]) /\ RunEnds(c, "ended") /\ UNCHANGED <<session, server>>
  BY DEF Exit, TryWriting, Part
<1>6. /\ up' \in [Conns -> Seq(Lines)] /\ \A j \in Conns \ {k} : up'[j] = up[j]
      /\ link[k] = "open" => up'[k] = u
      /\ link[k] # "open" => up'[k] = up[k]
  BY <1>3, <1>4, <1>5 DEF TypeOK
<1>7. up'[k] = u => Writes(k, "PART") BY <1>3, <1>4 DEF Writes
<1>8. /\ link' \in [Conns -> {"none", "open", "closed", "reset", "ended"}]
      /\ \A j \in Conns \ {k} : link'[j] = link[j]
      /\ link[k] = "open" => link'[k] \in {"closed", "reset"}
      /\ link[k] # "open" => link'[k] = link[k]
  BY <1>3, <1>5, ClosedIs
<1>9. "ended" \in Over BY DEF Over
<1> QED BY <1>1, <1>5, <1>6, <1>7, <1>8, <1>9, RunEndsEnds

(* Nobody listens any more: the client that starts fails, or that switches.  *)
LEMMA ConnectThrowsIs ==
  ASSUME TypeOK, Starts, Stopped, NEW c \in Clients, ConnectThrows(c)
  PROVE  /\ TypeOK'
         /\ \/ Ends(c)
            \/ /\ pc[c] = "start" /\ pc'[c] = "failed" /\ \A d \in Clients \ {c} : pc'[d] = pc[d]
               /\ UNCHANGED <<session, typed, sockMsgs, channel, display, network, server>>
<1>1. /\ ~running /\ UNCHANGED <<session, link, up, server>>
      /\ \/ /\ pc[c] = "start" /\ pc' = [pc EXCEPT ![c] = "failed"]
            /\ UNCHANGED <<typed, sockMsgs, channel, display, told, read>>
         \/ pc[c] = "input" /\ RunEnds(c, "failed")
  BY DEF ConnectThrows, Goto
<1>2. CASE pc[c] = "start"
  <2>1. /\ pc' = [pc EXCEPT ![c] = "failed"]
        /\ UNCHANGED <<session, typed, sockMsgs, channel, display, network, server>>
    BY <1>1, <1>2 DEF network
  <2>2. pc' \in [Clients -> Pcs] /\ pc'[c] = "failed" /\ \A d \in Clients \ {c} : pc'[d] = pc[d]
    BY <2>1 DEF TypeOK, Pcs, Over
  <2>3. TypeOK' BY <2>1, <2>2 DEF TypeOK, display, network, server, rooms
  <2> QED BY <1>2, <2>1, <2>2, <2>3
<1>3. CASE pc[c] = "input" /\ RunEnds(c, "failed")
  <2>1. pc[c] \in Active /\ "failed" \in Over BY <1>3 DEF Active, Loop, Over
  <2>2. Conn(c) \in Conns BY <2>1, ArrivesIs
  <2>3. link[Conn(c)] # "open" BY <2>2, <1>1 DEF Stopped
  <2>4. /\ link' \in [Conns -> {"none", "open", "closed", "reset", "ended"}]
        /\ up' \in [Conns -> Seq(Lines)]
    BY <1>1 DEF TypeOK
  <2> QED BY <1>1, <1>3, <2>1, <2>3, <2>4, RunEndsEnds
<1> QED BY <1>1, <1>2, <1>3

(* The client takes the next line, and nothing else changes but what it      *)
(* makes of it.                                                              *)
Reads(c) ==
  LET k == Conn(c) IN
  /\ Takes(c)
  /\ session'[c] = session[c] /\ typed'[c] = typed[c] /\ channel'[c] = channel[c]
  /\ shown'[c] = shown[c]
  /\ link' = link /\ up' = up /\ told' = told /\ \A j \in Conns \ {k} : read'[j] = read[j]
  /\ Alone(c)

Uses(c, text) ==
  /\ pc[c] \in Replies /\ pc'[c] = AfterReply[pc[c]]
  /\ channelTopic'[c] = IF pc[c] = "topic" THEN text ELSE channelTopic[c]
  /\ pc[c] = "end" => channelName'[c] = channel[c] /\ userChan'[c] = channel[c]

(* Where there is a line to take, the client has read all replies so far. *)
LEMMA TakesOnTrack ==
  ASSUME TypeOK, Tracks, Starts, NEW c \in Clients, pc[c] \in Active, Takes(c)
  PROVE  OnTrack(c) /\ Len(told[Conn(c)]) \in Nat /\ At(c) + 1 \in 1..Len(told[Conn(c)])
         /\ Conn(c) \in Conns
<1> PICK k : k = Conn(c) OBVIOUS
<1>1. k \in Conns BY ArrivesIs
<1>2. Len(told[k]) \in Nat /\ DOMAIN told[k] = 1..Len(told[k]) BY <1>1, LenProperties DEF TypeOK
<1>3. At(c) \in Nat /\ At(c) + 1 <= Len(told[k]) /\ At(c) + 1 \in 1..Len(told[k])
  BY <1>2 DEF Takes
<1>4. ~Lost(c)
  <2>1. SUFFICES ASSUME Lost(c) PROVE FALSE OBVIOUS
  <2>2. read[k] = Len(told[k]) /\ Len(sockMsgs[c]) = 0 BY <2>1, EmptySeq DEF Lost
  <2>3. At(c) = Len(told[k]) BY <2>2, <1>2 DEF At
  <2> QED BY <2>3, <1>2, <1>3
<1> QED BY <1>1, <1>2, <1>3, <1>4 DEF Tracks, TrackOK

LEMMA ReadWelcomeIs ==
  ASSUME TypeOK, Tracks, Starts, NEW c \in Clients, ReadWelcome(c)
  PROVE  /\ TypeOK' /\ Reads(c) /\ pc[c] = "welcome" /\ UNCHANGED <<channel, display, typed>>
         /\ pc'[c] = IF told[Conn(c)][At(c) + 1].kind = "001" \/ session[c] > 1
                     THEN "prompt" ELSE "ended"
<1> PICK k : k = Conn(c) OBVIOUS
<1>1. pc[c] = "welcome" /\ pc[c] \in Active BY DEF ReadWelcome, Active
<1>2. PICK n \in 0..Len(Unread(k)) :
        /\ TryReading(c, n)
        /\ Goto(c, IF FirstUnread(c).kind = "001" \/ session[c] > 1 THEN "prompt" ELSE "ended")
  BY DEF ReadWelcome
<1>3. n \in Arrives(c) BY DEF Arrives
<1>4. /\ Takes(c) /\ sockMsgs' = [sockMsgs EXCEPT ![c] = sockMsgs'[c]]
      /\ read' = [read EXCEPT ![k] = read'[k]]
  BY <1>1, <1>2, <1>3, TakesNext
<1>5. k \in Conns /\ Len(told[k]) \in Nat BY <1>1, <1>4, TakesOnTrack
<1>6. UNCHANGED <<session, typed, channel, display, link, up, told, server>> BY DEF ReadWelcome
<1> PICK w : w = IF told[k][At(c) + 1].kind = "001" \/ session[c] > 1 THEN "prompt" ELSE "ended"
  OBVIOUS
<1>7. pc' = [pc EXCEPT ![c] = w]
  <2>1. FirstUnread(c) = told[k][At(c) + 1] BY <1>4 DEF Takes
  <2> QED BY <2>1, <1>2 DEF Goto
<1>8. w \in Pcs BY DEF Pcs, Over
<1>9. pc' \in [Clients -> Pcs] /\ pc'[c] = w /\ \A d \in Clients \ {c} : pc'[d] = pc[d]
  BY <1>7, <1>8 DEF TypeOK
<1>10. sockMsgs' \in [Clients -> Seq(Lines)] /\ \A d \in Clients \ {c} : sockMsgs'[d] = sockMsgs[d]
  BY <1>4 DEF TypeOK, Takes
<1>11. read' \in [Conns -> Nat] /\ \A j \in Conns \ {k} : read'[j] = read[j]
       /\ read'[k] <= Len(told[k])
  BY <1>4, <1>5 DEF TypeOK, Takes
<1>12. TypeOK'
  <2>1. \A j \in Conns : read'[j] <= Len(told[j]) BY <1>4, <1>11 DEF TypeOK, Takes
  <2> QED BY <2>1, <1>6, <1>9, <1>10, <1>11 DEF TypeOK, display, server, rooms
<1>13. Alone(c) BY <1>6, <1>9, <1>10 DEF Alone, SameClient, display
<1> QED BY <1>1, <1>4, <1>6, <1>9, <1>11, <1>12, <1>13 DEF Reads, display

LEMMA UseReplyIs ==
  ASSUME TypeOK, NEW c \in Clients, pc[c] \in Replies, NEW text,
         pc[c] = "topic" => text \in Topics, UseReply(c, text)
  PROVE  /\ Uses(c, text)
         /\ pc' \in [Clients -> Pcs] /\ \A d \in Clients \ {c} : pc'[d] = pc[d]
         /\ channelName' \in [Clients -> Channels \cup {None}]
         /\ userChan' \in [Clients -> Channels \cup {None}]
         /\ channelTopic' \in [Clients -> Topics]
         /\ \A d \in Clients \ {c} :
              /\ channelName'[d] = channelName[d] /\ userChan'[d] = userChan[d]
              /\ channelTopic'[d] = channelTopic[d]
<1> PICK a : a = AfterReply[pc[c]] OBVIOUS
<1>1. a \in Pcs BY DEF AfterReply, Replies, Pcs, Loop
<1>2. pc' = [pc EXCEPT ![c] = a] BY DEF UseReply, Goto
<1>3. pc' \in [Clients -> Pcs] /\ pc'[c] = a /\ \A d \in Clients \ {c} : pc'[d] = pc[d]
  BY <1>1, <1>2 DEF TypeOK
<1>4. channelTopic' = IF pc[c] = "topic" THEN [channelTopic EXCEPT ![c] = text] ELSE channelTopic
  BY DEF UseReply
<1>5. /\ channelTopic' \in [Clients -> Topics]
      /\ channelTopic'[c] = IF pc[c] = "topic" THEN text ELSE channelTopic[c]
      /\ \A d \in Clients \ {c} : channelTopic'[d] = channelTopic[d]
  BY <1>4 DEF TypeOK
<1>6. /\ channelName' \in [Clients -> Channels \cup {None}]
      /\ userChan' \in [Clients -> Channels \cup {None}]
      /\ pc[c] = "end" => channelName'[c] = channel[c] /\ userChan'[c] = channel[c]
      /\ \A d \in Clients \ {c} : channelName'[d] = channelName[d] /\ userChan'[d] = userChan[d]
  BY DEF TypeOK, UseReply
<1> QED BY <1>3, <1>5, <1>6 DEF Uses

LEMMA ReadReplyIs ==
  ASSUME TypeOK, Tracks, Starts, Shape, NEW c \in Clients, ReadReply(c)
  PROVE  TypeOK' /\ Reads(c) /\ Uses(c, TopicOf(told[Conn(c)][At(c) + 1]))
<1> PICK k : k = Conn(c) OBVIOUS
<1>1. pc[c] \in Replies /\ pc[c] \in Active BY DEF ReadReply, Active
<1>2. PICK n \in 0..Len(Unread(k)) : TryReading(c, n) /\ UseReply(c, TopicOf(FirstUnread(c)))
  BY DEF ReadReply
<1>3. n \in Arrives(c) BY DEF Arrives
<1>4. /\ Takes(c) /\ sockMsgs' = [sockMsgs EXCEPT ![c] = sockMsgs'[c]]
      /\ read' = [read EXCEPT ![k] = read'[k]]
  BY <1>1, <1>2, <1>3, TakesNext
<1>5. k \in Conns /\ Len(told[k]) \in Nat /\ OnTrack(c) /\ At(c) + 1 \in DOMAIN told[k]
  BY <1>1, <1>4, TakesOnTrack DEF Takes
<1>6. UNCHANGED <<session, typed, channel, shown, link, up, told, server>> BY DEF ReadReply
<1> PICK t : t = TopicOf(told[k][At(c) + 1]) OBVIOUS
<1>7. pc[c] = "topic" => t \in Topics
  <2>1. SUFFICES ASSUME pc[c] = "topic" PROVE t \in Topics OBVIOUS
  <2>2. At(c) = 2 BY <2>1, <1>5 DEF OnTrack, Loop, Place
  <2>3. At(c) + 1 = 3 BY <2>2
  <2>4. ToldOK(k) BY <1>5 DEF Shape
  <2> QED BY <2>3, <2>4, <1>5 DEF ToldOK
<1>8. UseReply(c, t)
  <2>1. FirstUnread(c) = told[k][At(c) + 1] BY <1>4 DEF Takes
  <2> QED BY <2>1, <1>2
<1>9. /\ Uses(c, t)
      /\ pc' \in [Clients -> Pcs] /\ \A d \in Clients \ {c} : pc'[d] = pc[d]
      /\ channelName' \in [Clients -> Channels \cup {None}]
      /\ userChan' \in [Clients -> Channels \cup {None}]
      /\ channelTopic' \in [Clients -> Topics]
      /\ \A d \in Clients \ {c} :
           /\ channelName'[d] = channelName[d] /\ userChan'[d] = userChan[d]
           /\ channelTopic'[d] = channelTopic[d]
  BY <1>1, <1>7, <1>8, UseReplyIs
<1>10. sockMsgs' \in [Clients -> Seq(Lines)] /\ \A d \in Clients \ {c} : sockMsgs'[d] = sockMsgs[d]
  BY <1>4 DEF TypeOK, Takes
<1>11. read' \in [Conns -> Nat] /\ \A j \in Conns \ {k} : read'[j] = read[j]
       /\ read'[k] <= Len(told[k])
  BY <1>4, <1>5 DEF TypeOK, Takes
<1>12. TypeOK'
  <2>1. \A j \in Conns : read'[j] <= Len(told[j]) BY <1>4, <1>11 DEF TypeOK, Takes
  <2> QED BY <2>1, <1>6, <1>9, <1>10, <1>11 DEF TypeOK, server, rooms
<1>13. Alone(c) BY <1>6, <1>9, <1>10 DEF Alone, SameClient
<1> QED BY <1>4, <1>6, <1>9, <1>11, <1>12, <1>13 DEF Reads

(* At the end of the stream the client has lost its place, and goes on.      *)
Misses(c) ==
  /\ sockMsgs[c] = <<>> /\ read[Conn(c)] = Len(told[Conn(c)]) /\ link[Conn(c)] = "ended"
  /\ \/ pc[c] = "welcome" /\ pc'[c] = "prompt"
     \/ Uses(c, Garbage)
  /\ session'[c] = session[c] /\ typed'[c] = typed[c] /\ channel'[c] = channel[c]
  /\ shown'[c] = shown[c] /\ sockMsgs'[c] = sockMsgs[c]
  /\ \A k \in Conns : SameConn(k)
  /\ Alone(c)

LEMMA ReadNothingIs ==
  ASSUME TypeOK, Starts, NEW c \in Clients, ReadNothing(c)
  PROVE  TypeOK' /\ (Misses(c) \/ Ends(c))
<1> PICK k : k = Conn(c) OBVIOUS
<1>1. /\ pc[c] \in Replies \cup {"welcome"} /\ pc[c] \in Active
      /\ sockMsgs[c] = <<>> /\ Unread(k) = <<>> /\ link[k] = "ended"
      /\ UNCHANGED <<session, link, up, server>>
  BY DEF ReadNothing, Active
<1>2. k \in Conns BY <1>1, ArrivesIs
<1>3. read[k] = Len(told[k])
  <2>1. Len(Unread(k)) = 0 BY <1>1, EmptySeq
  <2> QED BY <2>1, <1>2, UnreadLen
<1>4. ASSUME NEW how \in {"crashed", "failed"}, RunEnds(c, how) PROVE TypeOK' /\ Ends(c)
  <2>1. how \in Over BY DEF Over
  <2>2. /\ link' \in [Conns -> {"none", "open", "closed", "reset", "ended"}]
        /\ up' \in [Conns -> Seq(Lines)]
    BY <1>1 DEF TypeOK
  <2> QED BY <1>1, <1>4, <2>1, <2>2, RunEndsEnds
<1>5. ASSUME UNCHANGED <<typed, sockMsgs, channel, shown, told, read>>,
             \/ /\ pc[c] = "welcome" /\ Goto(c, "prompt")
                /\ UNCHANGED <<channelName, userChan, channelTopic>>
             \/ pc[c] \in Replies /\ UseReply(c, Garbage)
      PROVE  TypeOK' /\ Misses(c)
  <2>1. CASE /\ pc[c] = "welcome" /\ Goto(c, "prompt")
             /\ UNCHANGED <<channelName, userChan, channelTopic>>
    <3>1. /\ pc' \in [Clients -> Pcs] /\ pc'[c] = "prompt"
          /\ \A d \in Clients \ {c} : pc'[d] = pc[d]
      BY <2>1 DEF Goto, TypeOK, Pcs
    <3>2. TypeOK' BY <1>1, <1>5, <2>1, <3>1 DEF TypeOK, server, rooms
    <3> QED BY <1>1, <1>3, <1>5, <2>1, <3>1, <3>2 DEF Misses, SameConn, Alone, SameClient
  <2>2. CASE pc[c] \in Replies /\ UseReply(c, Garbage)
    <3>1. Garbage \in Topics BY DEF Topics
    <3>2. /\ Uses(c, Garbage)
          /\ pc' \in [Clients -> Pcs] /\ \A d \in Clients \ {c} : pc'[d] = pc[d]
          /\ channelName' \in [Clients -> Channels \cup {None}]
          /\ userChan' \in [Clients -> Channels \cup {None}]
          /\ channelTopic' \in [Clients -> Topics]
          /\ \A d \in Clients \ {c} :
               /\ channelName'[d] = channelName[d] /\ userChan'[d] = userChan[d]
               /\ channelTopic'[d] = channelTopic[d]
      BY <2>2, <3>1, UseReplyIs
    <3>3. TypeOK' BY <1>1, <1>5, <3>2 DEF TypeOK, server, rooms
    <3> QED BY <1>1, <1>3, <1>5, <3>2, <3>3 DEF Misses, SameConn, Alone, SameClient
  <2> QED BY <1>5, <2>1, <2>2
<1> QED BY <1>1, <1>4, <1>5 DEF ReadNothing

(* The client asks for a channel. *)
Joins(c, ch) ==
  LET k == Conn(c) IN
  /\ pc[c] = "prompt" /\ pc'[c] = "confirm" /\ channel'[c] = ch
  /\ session'[c] = session[c] /\ typed'[c] = typed[c] /\ sockMsgs'[c] = sockMsgs[c]
  /\ shown'[c] = shown[c]
  /\ link' = link /\ told' = told /\ read' = read
  /\ \A j \in Conns \ {k} : up'[j] = up[j]
  /\ link[k] # "open" => up'[k] = up[k]
  /\ link[k] = "open" /\ up[k] = <<>> => up'[k] = <<Line("JOIN", k, ch, 0)>>
  /\ Alone(c)

LEMMA JoinChannelIs ==
  ASSUME TypeOK, Starts, NEW c \in Clients, NEW ch \in Channels, JoinChannel(c, ch)
  PROVE  TypeOK' /\ Joins(c, ch)
<1> PICK k : k = Conn(c) OBVIOUS
<1> PICK l : l = Line("JOIN", k, ch, 0) OBVIOUS
<1>1. /\ pc[c] = "prompt" /\ pc[c] \in Active /\ TryWriting(k, <<l>>)
      /\ channel' = [channel EXCEPT ![c] = ch] /\ pc' = [pc EXCEPT ![c] = "confirm"]
      /\ UNCHANGED <<session, typed, sockMsgs, display, link, told, read, server>>
  BY DEF JoinChannel, Goto, Active
<1>2. k \in Conns BY <1>1, ArrivesIs
<1>3. l \in Lines BY <1>2, LineIs DEF Kinds
<1>4. <<l>> \in Seq(Lines) /\ up[k] \in Seq(Lines) BY <1>2, <1>3, OneIs DEF TypeOK
<1>5. up[k] \o <<l>> \in Seq(Lines) BY <1>4, ConcatIs
<1>6. up[k] = <<>> => up[k] \o <<l>> = <<l>> BY <1>4
<1>7. up' = IF link[k] = "open" THEN [up EXCEPT ![k] = up[k] \o <<l>>] ELSE up
  BY <1>1 DEF TryWriting
<1>8. /\ up' \in [Conns -> Seq(Lines)] /\ \A j \in Conns \ {k} : up'[j] = up[j]
      /\ link[k] # "open" => up'[k] = up[k]
      /\ link[k] = "open" /\ up[k] = <<>> => up'[k] = <<l>>
  BY <1>2, <1>5, <1>6, <1>7 DEF TypeOK
<1>9. /\ pc' \in [Clients -> Pcs] /\ pc'[c] = "confirm" /\ \A d \in Clients \ {c} : pc'[d] = pc[d]
      /\ channel' \in [Clients -> Channels \cup {None}] /\ channel'[c] = ch
      /\ \A d \in Clients \ {c} : channel'[d] = channel[d]
  BY <1>1 DEF TypeOK, Pcs, Replies
<1>10. TypeOK' BY <1>1, <1>8, <1>9 DEF TypeOK, display, server, rooms
<1>11. Alone(c) BY <1>1, <1>9 DEF Alone, SameClient, display
<1> QED BY <1>1, <1>8, <1>9, <1>10, <1>11 DEF Joins, display

(* The client shows some of the lines to come, and takes the topic from the  *)
(* last TOPIC among them.                                                    *)
Shows(c) ==
  LET k == Conn(c)
      new == {i \in (At(c) + 1)..read'[k] : told[k][i].kind = "TOPIC"}
  IN /\ pc[c] \in Loop /\ pc'[c] = "input" /\ sockMsgs'[c] = <<>>
     /\ read'[k] \in At(c)..Len(told[k]) /\ read[k] <= read'[k]
     /\ Len(shown'[c]) = Len(shown[c]) + (read'[k] - At(c))
     /\ \A i \in 1..Len(shown[c]) : shown'[c][i] = shown[c][i]
     /\ \A i \in 1..(read'[k] - At(c)) : shown'[c][Len(shown[c]) + i] = told[k][At(c) + i]
     /\ new = {} => channelTopic'[c] = channelTopic[c]
     /\ \A m \in new : (\A i \in new : i <= m) =>
          channelTopic'[c] = IF told[k][m].chan = channelName[c] THEN TopicOf(told[k][m])
                             ELSE Garbage

GoesOn(c) ==
  LET k == Conn(c) IN
  /\ Shows(c)
  /\ session'[c] = session[c] /\ channel'[c] = channel[c] /\ channelName'[c] = channelName[c]
  /\ userChan'[c] = userChan[c]
  /\ link' = link /\ told' = told
  /\ \A j \in Conns \ {k} : up'[j] = up[j] /\ read'[j] = read[j]
  /\ \/ typed'[c] = typed[c] /\ up'[k] = up[k]
     \/ /\ typed'[c] = typed[c] + 1
        /\ link[k] = "open" => \E kind \in {"PRIVMSG", "TOPIC"} : Writes(k, kind)
        /\ link[k] # "open" => up'[k] = up[k]
  /\ Alone(c)

(* A TOPIC that is still to come is one that a user has set. *)
LEMMA ComingTopics ==
  ASSUME TypeOK, Starts, Tracks, Shape, NEW c \in Clients, pc[c] \in Loop,
         NEW i \in 1..Len(told[Conn(c)]), i > At(c), told[Conn(c)][i].kind = "TOPIC"
  PROVE  TopicOf(told[Conn(c)][i]) \in Topics /\ i > 5
<1> PICK k : k = Conn(c) OBVIOUS
<1>1. pc[c] \in Active BY DEF Active
<1>2. k \in Conns BY <1>1, ArrivesIs
<1>3. Len(told[k]) \in Nat /\ DOMAIN told[k] = 1..Len(told[k]) BY <1>2, LenProperties DEF TypeOK
<1>4. At(c) \in Int
  BY <1>1, AheadIs
<1>5. At(c) >= 5
  <2>1. CASE Lost(c)
    <3>1. read[k] = Len(told[k]) /\ Len(sockMsgs[c]) = 0 BY <2>1, EmptySeq DEF Lost
    <3>2. At(c) = Len(told[k]) BY <3>1, <1>3 DEF At
    <3> QED BY <3>2, <1>3
  <2>2. CASE OnTrack(c) BY <2>2 DEF OnTrack
  <2> QED BY <1>1, <2>1, <2>2 DEF Tracks, TrackOK
<1>6. i > 5 BY <1>3, <1>4, <1>5
<1>7. told[k][i].from \in Conns /\ told[k][i].val > 0 BY <1>2, <1>3, <1>6 DEF Shape, ToldOK
<1>8. told[k][i].val \in Nat
  <2>1. told[k][i] \in Lines BY <1>2, ElementOfSeq DEF TypeOK
  <2> QED BY <2>1 DEF Lines
<1> QED BY <1>6, <1>7, <1>8 DEF Topics, TopicOf

LEMMA Between ==
  \A a, L, r, z \in Nat : r = a + L /\ r <= z =>
    \A i \in (a + 1)..r : i \in 1..z /\ i > a /\ i - a \in 1..L /\ a + (i - a) = i
OBVIOUS

LEMMA ParseIs ==
  ASSUME TypeOK, Starts, Tracks, Shape, NEW c \in Clients, pc[c] \in Loop, NEW n \in Arrives(c),
         NEW wrote \in {0, 1}, typed[c] + wrote <= MaxTyped[c], ReadAndParse(c, n, wrote)
  PROVE  \/ RunEnds(c, "failed") /\ link' = Closed(Conn(c), read[Conn(c)] + n)
         \/ /\ Shows(c) /\ typed'[c] = typed[c] + wrote
            /\ UNCHANGED <<link, told, channel, channelName, userChan>>
            /\ pc' \in [Clients -> Pcs] /\ read' \in [Conns -> Nat]
            /\ \A j \in Conns : read'[j] <= Len(told[j])
            /\ typed' \in [Clients -> Nat] /\ \A d \in Clients : typed'[d] <= MaxTyped[d]
            /\ sockMsgs' \in [Clients -> Seq(Lines)] /\ shown' \in [Clients -> Seq(Lines)]
            /\ channelTopic' \in [Clients -> Topics]
            /\ \A d \in Clients \ {c} :
                 /\ pc'[d] = pc[d] /\ typed'[d] = typed[d] /\ sockMsgs'[d] = sockMsgs[d]
                 /\ channelTopic'[d] = channelTopic[d] /\ shown'[d] = shown[d]
            /\ \A j \in Conns \ {Conn(c)} : read'[j] = read[j]
<1> PICK k : k = Conn(c) OBVIOUS
<1> PICK got : got = Got(c, n) OBVIOUS
<1>0. pc[c] \in Active BY DEF Active
<1>1. /\ k \in Conns /\ n \in Nat
      /\ read[k] \in Nat /\ Len(sockMsgs[c]) \in Nat /\ Len(told[k]) \in Nat
      /\ read[k] + n <= Len(told[k])
      /\ At(c) \in Nat /\ At(c) + Len(sockMsgs[c]) = read[k]
      /\ got \in Seq(Lines) /\ Len(got) = Len(sockMsgs[c]) + n
      /\ \A i \in 1..(Len(sockMsgs[c]) + n) : got[i] = told[k][At(c) + i]
  BY <1>0, GotIs
<1>2. CASE ~ \A l \in ToSet(got) : Parses(l)
  BY <1>2 DEF ReadAndParse, Got
<1>3. CASE \A l \in ToSet(got) : Parses(l)
  <2>1. /\ read' = [read EXCEPT ![k] = @ + n]
        /\ shown' = [shown EXCEPT ![c] = @ \o got]
        /\ channelTopic' = [channelTopic EXCEPT ![c] = TopicAfter(c, got)]
        /\ sockMsgs' = [sockMsgs EXCEPT ![c] = <<>>]
        /\ typed' = [typed EXCEPT ![c] = @ + wrote]
        /\ pc' = [pc EXCEPT ![c] = "input"]
        /\ UNCHANGED <<link, told, channel, channelName, userChan>>
    BY <1>3 DEF ReadAndParse, Got, Goto
  <2>2. /\ pc' \in [Clients -> Pcs] /\ pc'[c] = "input" /\ \A d \in Clients \ {c} : pc'[d] = pc[d]
    BY <2>1 DEF TypeOK, Pcs, Loop
  <2>3. /\ read' \in [Conns -> Nat] /\ read'[k] = read[k] + n
        /\ \A j \in Conns \ {k} : read'[j] = read[j]
    BY SMTT(30), <1>1, <2>1 DEF TypeOK
  <2>4. \A j \in Conns : read'[j] <= Len(told[j]) BY <1>1, <2>3 DEF TypeOK
  <2>5. /\ typed' \in [Clients -> Nat] /\ typed'[c] = typed[c] + wrote
        /\ \A d \in Clients \ {c} : typed'[d] = typed[d]
    BY <2>1 DEF TypeOK
  <2>6. \A d \in Clients : typed'[d] <= MaxTyped[d] BY <2>5 DEF TypeOK
  <2>7. /\ sockMsgs' \in [Clients -> Seq(Lines)] /\ sockMsgs'[c] = <<>>
        /\ \A d \in Clients \ {c} : sockMsgs'[d] = sockMsgs[d]
    BY <2>1, EmptySeq DEF TypeOK
  <2>n. PICK s : s = shown[c] OBVIOUS
  <2> PICK tk : tk = told[k] OBVIOUS
  <2> PICK r : r = read'[k] OBVIOUS
  <2> PICK a : a = At(c) OBVIOUS
  <2> PICK L : L = Len(got) OBVIOUS
  <2>a. /\ a \in Nat /\ L \in Nat /\ r \in Nat /\ r = a + L /\ L = r - a /\ r >= read[k]
        /\ r <= Len(tk) /\ Len(tk) \in Nat
    <3>1. L = Len(sockMsgs[c]) + n /\ r = read[k] + n BY <1>1, <2>3
    <3>2. a \in Nat /\ L \in Nat /\ r \in Nat /\ Len(tk) \in Nat /\ r <= Len(tk) /\ r >= read[k]
      BY <3>1, <1>1
    <3>3. a + Len(sockMsgs[c]) = read[k] /\ Len(sockMsgs[c]) \in Nat /\ n \in Nat BY <1>1
    <3> QED BY <3>1, <3>2, <3>3
  <2>e. \A j \in 1..L : a + j \in (a + 1)..r BY <2>a
  <2>f. \A i \in (a + 1)..r : i \in 1..Len(tk) /\ i > a /\ i - a \in 1..L /\ a + (i - a) = i
    <3>1. a \in Nat /\ L \in Nat /\ r \in Nat BY <2>a
    <3>2. Len(tk) \in Nat /\ r = a + L /\ r <= Len(tk) BY <2>a
    <3> QED BY <3>1, <3>2, Between
  <2>b. s \in Seq(Lines) /\ got \in Seq(Lines) BY <1>1, <2>n DEF TypeOK
  <2>8. DOMAIN got = 1..L /\ \A i \in 1..L : got[i] = tk[a + i]
    <3>1. L = Len(sockMsgs[c]) + n BY <1>1
    <3> QED BY <1>1, <3>1, LenProperties
  <2>m. PICK new : new = s \o got OBVIOUS
  <2>9. /\ new \in Seq(Lines) /\ Len(new) = Len(s) + L /\ Len(s) \in Nat
        /\ \A i \in 1..Len(s) : new[i] = s[i]
        /\ \A i \in 1..L : new[Len(s) + i] = got[i]
    BY <2>b, <2>m, ConcatIs
  <2>10. /\ shown' \in [Clients -> Seq(Lines)] /\ shown'[c] = new
         /\ \A d \in Clients \ {c} : shown'[d] = shown[d]
    BY <2>1, <2>9, <2>m, <2>n DEF TypeOK
  <2>12. /\ Len(shown'[c]) = Len(s) + (r - a)
         /\ \A i \in 1..Len(s) : shown'[c][i] = s[i]
         /\ \A i \in 1..(r - a) : shown'[c][Len(s) + i] = tk[a + i]
    <3>1. \A i \in 1..L : new[Len(s) + i] = tk[a + i] BY <2>8, <2>9
    <3> QED BY <3>1, <2>a, <2>9, <2>10
  <2>o. PICK t : t = TopicAfter(c, got) OBVIOUS
  <2>c. PICK set : set = {i \in DOMAIN got : got[i].kind = "TOPIC"} OBVIOUS
  <2>d. PICK N : N = {i \in (a + 1)..r : tk[i].kind = "TOPIC"} OBVIOUS
  <2>13. set \in SUBSET (1..L) /\ \A i \in 1..L : i \in set <=> got[i].kind = "TOPIC" BY <2>8, <2>c
  <2>14. \A i \in set : i \in 1..L /\ got[i] = tk[a + i] /\ a + i \in N
    <3> SUFFICES ASSUME NEW i \in set PROVE i \in 1..L /\ got[i] = tk[a + i] /\ a + i \in N
      OBVIOUS
    <3>1. i \in 1..L /\ got[i].kind = "TOPIC" BY <2>13
    <3>2. got[i] = tk[a + i] BY <3>1, <2>8
    <3>3. a + i \in (a + 1)..r BY <3>1, <2>e
    <3> QED BY <3>1, <3>2, <3>3, <2>d
  <2>15. \A i \in N : i \in 1..Len(tk) /\ i > a /\ tk[i].kind = "TOPIC" /\ i - a \in set
    <3> SUFFICES ASSUME NEW i \in N
                 PROVE  i \in 1..Len(tk) /\ i > a /\ tk[i].kind = "TOPIC" /\ i - a \in set
      OBVIOUS
    <3>1. i \in (a + 1)..r /\ tk[i].kind = "TOPIC" BY <2>d
    <3>2. i \in 1..Len(tk) /\ i > a BY <3>1, <2>f
    <3> PICK j : j = i - a OBVIOUS
    <3>3. j \in 1..L /\ a + j = i BY <3>1, <2>f
    <3> QED BY <3>1, <3>2, <3>3, <2>8, <2>13
  <2>s. ASSUME N = {} => channelTopic'[c] = channelTopic[c],
               \A m \in N : (\A i \in N : i <= m) =>
                 channelTopic'[c] = IF tk[m].chan = channelName[c] THEN TopicOf(tk[m]) ELSE Garbage
        PROVE  Shows(c)
    <3> DEFINE M == {i \in (At(c) + 1)..read'[Conn(c)] : told[Conn(c)][i].kind = "TOPIC"}
    <3>1. N = M BY <2>d
    <3>2. /\ M = {} => channelTopic'[c] = channelTopic[c]
          /\ \A m \in M : (\A i \in M : i <= m) =>
               channelTopic'[c] = IF told[Conn(c)][m].chan = channelName[c]
                                  THEN TopicOf(told[Conn(c)][m]) ELSE Garbage
      BY <3>1, <2>s
    <3> HIDE DEF M
    <3>3. /\ pc[c] \in Loop /\ pc'[c] = "input" /\ sockMsgs'[c] = <<>>
          /\ read'[k] \in At(c)..Len(told[k]) /\ read[k] <= read'[k]
      BY <2>2, <2>7, <2>a
    <3>4. /\ Len(shown'[c]) = Len(shown[c]) + (read'[k] - At(c))
          /\ \A i \in 1..Len(shown[c]) : shown'[c][i] = shown[c][i]
          /\ \A i \in 1..(read'[k] - At(c)) : shown'[c][Len(shown[c]) + i] = told[k][At(c) + i]
      BY <2>n, <2>12
    <3> QED BY <3>2, <3>3, <3>4, Zenon DEF Shows, M
  <2>16. CASE set = {}
    <3>1. t = channelTopic[c] BY <2>c, <2>o, <2>16 DEF TopicAfter
    <3>2. N = {} BY <2>15, <2>16
    <3>3. t \in Topics BY <3>1 DEF TypeOK
    <3>4. /\ channelTopic' \in [Clients -> Topics] /\ channelTopic'[c] = t
          /\ \A d \in Clients \ {c} : channelTopic'[d] = channelTopic[d]
      BY <2>1, <2>o, <3>3 DEF TypeOK
    <3>5. Shows(c) BY <2>s, <3>1, <3>2, <3>4
    <3> QED BY <2>1, <2>2, <2>3, <2>4, <2>5, <2>6, <2>7, <2>10, <3>4, <3>5
  <2>17. CASE set # {}
    <3> PICK m : m = Max(set) OBVIOUS
    <3>1. m \in set /\ \A i \in set : i <= m BY <2>a, <2>13, <2>17, MaxWorks
    <3>2. t = IF got[m].chan = channelName[c] THEN TopicOf(got[m]) ELSE Garbage
      BY <2>c, <2>o, <2>17 DEF TopicAfter
    <3> PICK x : x = a + m OBVIOUS
    <3>3. x \in N /\ got[m] = tk[x] BY <2>14, <3>1
    <3>4. \A i \in N : i <= x
      <4> SUFFICES ASSUME NEW i \in N PROVE i <= x OBVIOUS
      <4>1. i - a \in set BY <2>15
      <4>2. i - a <= m BY <4>1, <3>1
      <4>3. i \in Int /\ m \in Int BY <2>14, <2>15, <3>1
      <4> QED BY SMTT(30), <4>2, <4>3, <2>a
    <3>5. x \in 1..Len(tk) /\ x > a /\ tk[x].kind = "TOPIC" BY <3>3, <2>15
    <3>6. TopicOf(tk[x]) \in Topics BY <3>5, ComingTopics
    <3>7. t \in Topics BY <3>2, <3>3, <3>6 DEF Topics
    <3>8. /\ channelTopic' \in [Clients -> Topics] /\ channelTopic'[c] = t
          /\ \A d \in Clients \ {c} : channelTopic'[d] = channelTopic[d]
      BY <2>1, <2>o, <3>7 DEF TypeOK
    <3>9. \A i \in N : (\A j \in N : j <= i) => i = x
      <4> SUFFICES ASSUME NEW i \in N, \A j \in N : j <= i PROVE i = x OBVIOUS
      <4>1. i <= x /\ x <= i BY <3>3, <3>4
      <4>2. i \in Int /\ x \in Int BY <2>15, <3>3
      <4> QED BY <4>1, <4>2
    <3>10. \A i \in N : (\A j \in N : j <= i) =>
             channelTopic'[c] = IF tk[i].chan = channelName[c] THEN TopicOf(tk[i]) ELSE Garbage
      BY <3>2, <3>3, <3>8, <3>9
    <3>11. N # {} BY <3>3
    <3>12. Shows(c) BY <2>s, <3>10, <3>11
    <3> QED BY <2>1, <2>2, <2>3, <2>4, <2>5, <2>6, <2>7, <2>10, <3>8, <3>12
  <2> QED BY <2>16, <2>17
<1> QED BY <1>2, <1>3

LEMMA GoesOnOrEnds ==
  ASSUME TypeOK, Starts, Tracks, Shape, NEW c \in Clients, pc[c] \in Loop, NEW n \in Arrives(c),
         NEW wrote \in {0, 1}, typed[c] + wrote <= MaxTyped[c], ReadAndParse(c, n, wrote),
         UNCHANGED <<session, server>>,
         up' \in [Conns -> Seq(Lines)], \A j \in Conns \ {Conn(c)} : up'[j] = up[j],
         LET k == Conn(c) IN
           \/ wrote = 0 /\ up'[k] = up[k]
           \/ /\ wrote = 1
              /\ link[k] = "open" => \E kind \in {"PRIVMSG", "TOPIC"} : Writes(k, kind)
              /\ link[k] # "open" => up'[k] = up[k]
  PROVE  TypeOK' /\ (GoesOn(c) \/ Ends(c))
<1> PICK k : k = Conn(c) OBVIOUS
<1>1. pc[c] \in Active BY DEF Active
<1>2. k \in Conns BY <1>1, ArrivesIs
<1>3. CASE RunEnds(c, "failed") /\ link' = Closed(k, read[k] + n)
  <2>1. /\ link' \in [Conns -> {"none", "open", "closed", "reset", "ended"}]
        /\ \A j \in Conns \ {k} : link'[j] = link[j]
        /\ link[k] = "open" => link'[k] \in {"closed", "reset"}
        /\ link[k] # "open" => link'[k] = link[k]
    BY <1>2, <1>3, ClosedIs
  <2>2. "failed" \in Over /\ {"PRIVMSG", "TOPIC"} \subseteq Spoken BY DEF Over, Spoken
  <2>3. up'[k] = up[k] \/ \E kind \in Spoken : Writes(k, kind) BY <2>2
  <2>4. link[k] # "open" => up'[k] = up[k] OBVIOUS
  <2> QED BY <1>1, <1>3, <2>1, <2>2, <2>3, <2>4, RunEndsEnds
<1>4. CASE
        /\ Shows(c) /\ typed'[c] = typed[c] + wrote
        /\ UNCHANGED <<link, told, channel, channelName, userChan>>
        /\ pc' \in [Clients -> Pcs] /\ read' \in [Conns -> Nat]
        /\ \A j \in Conns : read'[j] <= Len(told[j])
        /\ typed' \in [Clients -> Nat] /\ \A d \in Clients : typed'[d] <= MaxTyped[d]
        /\ sockMsgs' \in [Clients -> Seq(Lines)] /\ shown' \in [Clients -> Seq(Lines)]
        /\ channelTopic' \in [Clients -> Topics]
        /\ \A d \in Clients \ {c} :
             /\ pc'[d] = pc[d] /\ typed'[d] = typed[d] /\ sockMsgs'[d] = sockMsgs[d]
             /\ channelTopic'[d] = channelTopic[d] /\ shown'[d] = shown[d]
        /\ \A j \in Conns \ {k} : read'[j] = read[j]
  <2>1. TypeOK' BY <1>4 DEF TypeOK, server, rooms
  <2>2. Alone(c) BY <1>4 DEF Alone, SameClient
  <2>3. \/ typed'[c] = typed[c] /\ up'[k] = up[k]
        \/ /\ typed'[c] = typed[c] + 1
           /\ link[k] = "open" => \E kind \in {"PRIVMSG", "TOPIC"} : Writes(k, kind)
           /\ link[k] # "open" => up'[k] = up[k]
    <3>1. typed[c] \in Nat BY DEF TypeOK
    <3>2. typed[c] + 0 = typed[c] BY <3>1
    <3>3. typed'[c] = typed[c] + wrote BY <1>4
    <3> QED BY <3>2, <3>3, Zenon
  <2> QED BY <1>4, <2>1, <2>2, <2>3 DEF GoesOn
<1> QED BY <1>3, <1>4, ParseIs

LEMMA UpdateIs ==
  ASSUME TypeOK, Starts, Tracks, Shape, NEW c \in Clients,
         Update(c) \/ \E n \in Arrives(c) : PressEnter(c, n)
  PROVE  TypeOK' /\ (GoesOn(c) \/ Ends(c))
<1>1. PICK n \in Arrives(c) : pc[c] \in Loop /\ ReadAndParse(c, n, 0)
  BY DEF Update, PressEnter, Loop
<1>2. UNCHANGED <<session, up, server>> BY DEF Update, PressEnter
<1>3. typed[c] + 0 <= MaxTyped[c] BY DEF TypeOK
<1>4. up' \in [Conns -> Seq(Lines)] BY <1>2 DEF TypeOK
<1> QED BY <1>1, <1>2, <1>3, <1>4, GoesOnOrEnds

LEMMA TypeIs ==
  ASSUME TypeOK, Starts, Tracks, Shape, NEW c \in Clients, NEW kind \in {"PRIVMSG", "TOPIC"},
         Type(c, kind)
  PROVE  TypeOK' /\ (GoesOn(c) \/ Ends(c))
<1> PICK k : k = Conn(c) OBVIOUS
<1>1. /\ pc[c] = "input" /\ pc[c] \in Loop /\ pc[c] \in Active /\ typed[c] < MaxTyped[c]
      /\ TryWriting(k, <<Line(kind, k, userChan[c], typed[c] + 1)>>)
      /\ UNCHANGED <<session, server>>
  BY DEF Type, Loop, Active
<1>2. PICK n \in Arrives(c) : ReadAndParse(c, n, 1) BY DEF Type
<1>3. k \in Conns /\ k[1] = c BY <1>1, ArrivesIs
<1>4. userChan[c] \in Channels /\ kind \in Spoken BY <1>1 DEF Tracks, TrackOK, Spoken
<1> PICK u : u = up[k] \o <<Line(kind, k, userChan[c], typed[c] + 1)>> OBVIOUS
<1>5. /\ u \in Seq(Lines) /\ Len(u) = Len(up[k]) + 1 /\ Len(up[k]) \in Nat
      /\ \A i \in 1..Len(up[k]) : u[i] = up[k][i]
      /\ u[Len(up[k]) + 1].kind = kind /\ u[Len(up[k]) + 1].from = k
      /\ u[Len(up[k]) + 1].chan = userChan[c] /\ u[Len(up[k]) + 1].val = typed[c] + 1
  BY <1>3, <1>4, WritesIs
<1>6. up' = IF link[k] = "open" THEN [up EXCEPT ![k] = u] ELSE up BY <1>1 DEF TryWriting
<1>7. /\ up' \in [Conns -> Seq(Lines)] /\ \A j \in Conns \ {k} : up'[j] = up[j]
      /\ link[k] = "open" => up'[k] = u
      /\ link[k] # "open" => up'[k] = up[k]
  BY <1>3, <1>5, <1>6 DEF TypeOK
<1>8. up'[k] = u => Writes(k, kind) BY <1>3, <1>5 DEF Writes
<1>9. typed[c] + 1 <= MaxTyped[c] BY <1>1, BoundsAssumption DEF TypeOK
<1>10. link[k] = "open" => \E q \in {"PRIVMSG", "TOPIC"} : Writes(k, q) BY <1>7, <1>8
<1> QED BY <1>1, <1>2, <1>7, <1>9, <1>10, GoesOnOrEnds

-----------------------------------------------------------------------------
(* The steps of the server, connection by connection. *)

(* One more line is written to k. *)
Gets(k, l) ==
  LET n == Len(told[k]) IN
  /\ Len(told'[k]) = n + 1 /\ \A i \in 1..n : told'[k][i] = told[k][i]
  /\ told'[k][n + 1] = l

(* Of the connections in S, those in T are written the line l. *)
Spread(S, T, l) ==
  \A j \in S :
    /\ IF j \in T /\ link[j] = "open" THEN Gets(j, l) ELSE told'[j] = told[j]
    /\ link'[j] = IF j \in T /\ link[j] = "closed" THEN "reset" ELSE link[j]

Silent == UNCHANGED <<client, read>>

Registers(k) ==
  /\ running /\ serving = None /\ Asks(k)
  /\ up' = [up EXCEPT ![k] = <<>>]
  /\ \A j \in Conns \ {k} : told'[j] = told[j] /\ link'[j] = link[j]
  /\ \/ told'[k] = <<Line("001", None, None, 0)>> /\ serving' = k /\ link'[k] = link[k]
     \/ told'[k] = <<Line("464", None, None, 0)>> /\ serving' = serving /\ link'[k] = "ended"
  /\ UNCHANGED <<running, rooms>> /\ Silent

Receives(k) ==
  LET ch == channel[k[1]] IN
  /\ running /\ serving = k /\ up[k] # <<>> /\ ch \in Channels
  /\ newusers' = [newusers EXCEPT ![ch] = Append(newusers[ch], k)]
  /\ up' = [up EXCEPT ![k] = <<>>] /\ serving' = None
  /\ UNCHANGED <<link, told, running, users, topic, dead>> /\ Silent

Greets(ch, k) ==
  LET join == Line("JOIN", k, ch, 0) IN
  /\ running /\ k \in Conns /\ newusers[ch] # <<>> /\ k = newusers[ch][1]
  /\ newusers' = [newusers EXCEPT ![ch] = Tail(newusers[ch])]
  /\ users' = [users EXCEPT ![ch] = users[ch] \cup {k}]
  /\ Spread(Conns \ {k}, users[ch], join)
  /\ link'[k] = link[k]
  /\ Len(told'[k]) = 5 /\ told'[k][1] = told[k][1] /\ told'[k][2] = join
  /\ told'[k][3] = Line("332", topic[ch][1], ch, topic[ch][2])
  /\ told'[k][4] = Line("353", None, ch, 0) /\ told'[k][5] = Line("366", None, ch, 0)
  /\ UNCHANGED <<up, running, serving, topic, dead>> /\ Silent

(* The first line of k, which is l, has been taken up. *)
Takeup(ch, k, l) ==
  /\ running /\ k \in users[ch] /\ up[k] # <<>> /\ l = up[k][1] /\ l \in Lines
  /\ up' = [up EXCEPT ![k] = Tail(up[k])]
  /\ UNCHANGED <<running, serving, newusers, dead>> /\ Silent

Speaks(ch, k, l) ==
  /\ Takeup(ch, k, l)
  /\ \/ /\ l.kind = "PRIVMSG" /\ topic' = topic
        /\ Spread(Conns, users[ch] \ {k}, l)
     \/ /\ l.kind = "TOPIC" /\ topic' = [topic EXCEPT ![ch] = TopicOf(l)]
        /\ Spread(Conns, users[ch], l)
  /\ users' = users

Parts(ch, k, l) ==
  /\ Takeup(ch, k, l)
  /\ l.kind = "PART" /\ topic' = topic
  /\ Spread(Conns \ {k}, users[ch] \ {k}, l)
  /\ link'[k] = "ended" /\ told'[k] = told[k]
  /\ users' = [users EXCEPT ![ch] = @ \ {k}]

LEMMA AsksIs ==
  ASSUME TypeOK, NEW k \in Conns, up[k] # <<>>
  PROVE  /\ Head(up[k]) = up[k][1] /\ up[k][1] \in Lines /\ 1 \in DOMAIN up[k]
         /\ Tail(up[k]) \in Seq(Lines) /\ Len(up[k]) \in Nat \ {0}
         /\ Len(Tail(up[k])) = Len(up[k]) - 1
         /\ Len(up[k]) = 1 => Tail(up[k]) = <<>>
<1>1. up[k] \in Seq(Lines) BY DEF TypeOK
<1>2. /\ Head(up[k]) \in Lines /\ Tail(up[k]) \in Seq(Lines) /\ Len(up[k]) \in Nat \ {0}
      /\ Len(Tail(up[k])) = Len(up[k]) - 1 /\ Head(up[k]) = up[k][1] /\ 1 \in DOMAIN up[k]
  BY <1>1, TailIs
<1>3. Len(up[k]) = 1 => Len(Tail(up[k])) = 0 BY <1>2
<1> QED BY <1>2, <1>3, EmptySeq

LEMMA ToldIs ==
  ASSUME TypeOK, NEW k \in Conns
  PROVE  /\ told[k] \in Seq(Lines) /\ Len(told[k]) \in Nat /\ DOMAIN told[k] = 1..Len(told[k])
         /\ Len(told[k]) = 0 <=> told[k] = <<>>
         /\ \A i \in 1..Len(told[k]) : told[k][i] \in Lines
<1>1. told[k] \in Seq(Lines) BY DEF TypeOK
<1> QED BY <1>1, LenProperties, EmptySeq, ElementOfSeq

LEMMA GetsIs ==
  ASSUME TypeOK, NEW k \in Conns, NEW l \in Lines,
         told'[k] = told[k] \o <<l>> \/ told'[k] = Append(told[k], l)
  PROVE  told'[k] \in Seq(Lines) /\ Gets(k, l)
<1> PICK s : s = told[k] OBVIOUS
<1>1. s \in Seq(Lines) BY DEF TypeOK
<1>2. <<l>> \in Seq(Lines) /\ Len(<<l>>) = 1 /\ <<l>>[1] = l BY OneIs
<1>3. CASE told'[k] = s \o <<l>>
  <2>1. /\ s \o <<l>> \in Seq(Lines) /\ Len(s \o <<l>>) = Len(s) + Len(<<l>>)
        /\ \A i \in 1..Len(s) : (s \o <<l>>)[i] = s[i]
        /\ \A i \in 1..Len(<<l>>) : (s \o <<l>>)[Len(s) + i] = <<l>>[i]
    BY <1>1, <1>2, ConcatIs
  <2>2. (s \o <<l>>)[Len(s) + 1] = l BY <1>2, <2>1
  <2> QED BY <1>2, <1>3, <2>1, <2>2 DEF Gets
<1>4. CASE told'[k] = Append(s, l)
  BY <1>1, <1>4, AppendIs DEF Gets
<1> QED BY <1>3, <1>4

(* The types after a step that only writes to connections. *)
LEMMA ServerTypes ==
  ASSUME TypeOK, Silent,
         link' \in [Conns -> {"none", "open", "closed", "reset", "ended"}],
         up' \in [Conns -> Seq(Lines)], told' \in [Conns -> Seq(Lines)],
         \A j \in Conns : read[j] <= Len(told'[j]),
         running' \in BOOLEAN, serving' \in Conns \cup {None},
         newusers' \in [Channels -> Seq(Conns)], users' \in [Channels -> SUBSET Conns],
         topic' \in [Channels -> Topics \ {Garbage}], dead' \subseteq Channels
  PROVE  TypeOK'
BY DEF TypeOK, Silent, client, display

LEMMA SpreadTypes ==
  ASSUME TypeOK, NEW j \in Conns, NEW l, NEW T, NEW S, j \in S, Spread(S, T, l)
  PROVE  Len(told[j]) <= Len(told'[j])
<1>1. Len(told[j]) \in Nat BY ToldIs
<1>2. CASE j \in T /\ link[j] = "open" BY <1>1, <1>2 DEF Spread, Gets
<1>3. CASE ~(j \in T /\ link[j] = "open")
  <2>1. told'[j] = told[j] BY <1>3 DEF Spread
  <2> QED BY <1>1, <2>1
<1> QED BY <1>2, <1>3

LEMMA RegisterSessionIs ==
  ASSUME TypeOK, Places, NEW k \in Conns, RegisterSession(k)
  PROVE  TypeOK' /\ Registers(k)
<1>1. /\ running /\ serving = None /\ link[k] = "open" /\ up[k] # <<>>
      /\ Head(up[k]).kind = "USERINFO"
      /\ up' = [up EXCEPT ![k] = Tail(up[k])] /\ UNCHANGED <<client, read, running, rooms>>
  BY DEF RegisterSession
<1>2. Asks(k) BY <1>1, AsksIs DEF Asks
<1>3. Len(up[k]) = 1 /\ told[k] = <<>> BY <1>2, ToldIs DEF Places, PlaceOK
<1>4. Tail(up[k]) = <<>> BY <1>1, <1>3, AsksIs
<1>5. up' \in [Conns -> Seq(Lines)] /\ up' = [up EXCEPT ![k] = <<>>]
  BY <1>1, <1>4, EmptySeq DEF TypeOK
<1>6. ASSUME NEW kind \in {"001", "464"},
             told' = [told EXCEPT ![k] = Append(told[k], Line(kind, None, None, 0))]
      PROVE  /\ told' \in [Conns -> Seq(Lines)] /\ told'[k] = <<Line(kind, None, None, 0)>>
             /\ \A j \in Conns \ {k} : told'[j] = told[j]
             /\ \A j \in Conns : read[j] <= Len(told'[j])
  <2> PICK l : l = Line(kind, None, None, 0) OBVIOUS
  <2>1. l \in Lines BY LineIs DEF Kinds
  <2>2. Append(told[k], l) \in Seq(Lines) /\ Append(told[k], l) = <<l>>
    BY <1>3, <2>1, AppendIs DEF TypeOK
  <2>3. /\ told' \in [Conns -> Seq(Lines)] /\ told'[k] = <<l>>
        /\ \A j \in Conns \ {k} : told'[j] = told[j]
    BY <1>6, <2>2 DEF TypeOK
  <2>4. read[k] <= Len(told'[k])
    <3>1. read[k] \in Nat /\ read[k] <= Len(told[k]) /\ Len(told[k]) = 0
      BY <1>3, EmptySeq DEF TypeOK
    <3> QED BY <3>1, <2>1, <2>3, OneIs
  <2> QED BY <2>3, <2>4 DEF TypeOK
<1>7. Silent /\ rooms' = rooms /\ running' = running BY <1>1 DEF Silent
<1>8. CASE /\ told' = [told EXCEPT ![k] = Append(@, Line("001", None, None, 0))]
           /\ serving' = k
           /\ UNCHANGED link
  <2>1. /\ told' \in [Conns -> Seq(Lines)] /\ told'[k] = <<Line("001", None, None, 0)>>
        /\ \A j \in Conns \ {k} : told'[j] = told[j]
        /\ \A j \in Conns : read[j] <= Len(told'[j])
    BY <1>6, <1>8
  <2>2. TypeOK' BY <1>5, <1>7, <1>8, <2>1, ServerTypes DEF TypeOK, rooms
  <2> QED BY <1>1, <1>2, <1>5, <1>7, <1>8, <2>1, <2>2 DEF Registers
<1>9. CASE /\ told' = [told EXCEPT ![k] = Append(@, Line("464", None, None, 0))]
           /\ link' = [link EXCEPT ![k] = "ended"]
           /\ UNCHANGED serving
  <2>1. /\ told' \in [Conns -> Seq(Lines)] /\ told'[k] = <<Line("464", None, None, 0)>>
        /\ \A j \in Conns \ {k} : told'[j] = told[j]
        /\ \A j \in Conns : read[j] <= Len(told'[j])
    BY <1>6, <1>9
  <2>2. /\ link' \in [Conns -> {"none", "open", "closed", "reset", "ended"}] /\ link'[k] = "ended"
        /\ \A j \in Conns \ {k} : link'[j] = link[j]
    BY <1>9 DEF TypeOK
  <2>3. TypeOK' BY <1>5, <1>7, <1>9, <2>1, <2>2, ServerTypes DEF TypeOK, rooms
  <2> QED BY <1>1, <1>2, <1>5, <1>7, <1>9, <2>1, <2>2, <2>3 DEF Registers
<1> QED BY <1>8, <1>9 DEF RegisterSession

LEMMA GetChannelNameIs ==
  ASSUME TypeOK, Places, Tracks, NEW k \in Conns, GetChannelName(k)
  PROVE  TypeOK' /\ Receives(k)
<1> PICK ch : ch = channel[k[1]] OBVIOUS
<1>1. running /\ serving = k /\ up[k] # <<>> BY DEF GetChannelName
<1>2. pc[k[1]] = "confirm" /\ up[k] = <<Line("JOIN", k, ch, 0)>>
  BY <1>1 DEF Places, PlaceOK
<1>3. ch \in Channels
  <2>1. k[1] \in Clients BY ConnsAre
  <2> QED BY <1>2, <2>1 DEF Tracks, TrackOK, Active, Replies
<1>4. Line("JOIN", k, ch, 0) \in Lines /\ Line("JOIN", k, ch, 0).chan = ch BY <1>3, LineIs DEF Kinds
<1>5. Head(up[k]).chan = ch /\ Tail(up[k]) = <<>>
  BY <1>1, <1>2, <1>4, AsksIs, OneIs
<1>6. /\ newusers' = [newusers EXCEPT ![ch] = Append(newusers[ch], k)]
      /\ up' = [up EXCEPT ![k] = <<>>] /\ serving' = None
      /\ UNCHANGED <<client, link, told, read, running, users, topic, dead>>
  BY <1>5 DEF GetChannelName
<1>7. newusers' \in [Channels -> Seq(Conns)] /\ up' \in [Conns -> Seq(Lines)]
  <2>1. Append(newusers[ch], k) \in Seq(Conns) BY <1>3, AppendIs DEF TypeOK
  <2> QED BY <1>6, <2>1, EmptySeq DEF TypeOK
<1>8. TypeOK' BY <1>6, <1>7, ServerTypes DEF TypeOK, Silent
<1> QED BY <1>1, <1>3, <1>6, <1>8 DEF Receives, Silent

LEMMA FourIs ==
  ASSUME NEW S, NEW a \in S, NEW b \in S, NEW c \in S, NEW d \in S
  PROVE  /\ <<a, b, c, d>> \in Seq(S) /\ Len(<<a, b, c, d>>) = 4
         /\ <<a, b, c, d>>[1] = a /\ <<a, b, c, d>>[2] = b
         /\ <<a, b, c, d>>[3] = c /\ <<a, b, c, d>>[4] = d
OBVIOUS

LEMMA FourMore ==
  ASSUME NEW S, NEW s \in Seq(S), NEW g \in Seq(S)
  PROVE  Len(s) = 1 /\ Len(g) = 4 =>
           /\ s \o g \in Seq(S) /\ Len(s \o g) = 5 /\ (s \o g)[1] = s[1]
           /\ (s \o g)[2] = g[1] /\ (s \o g)[3] = g[2]
           /\ (s \o g)[4] = g[3] /\ (s \o g)[5] = g[4]
<1>1. /\ s \o g \in Seq(S) /\ Len(s \o g) = Len(s) + Len(g)
      /\ \A i \in 1..Len(s) : (s \o g)[i] = s[i]
      /\ \A i \in 1..Len(g) : (s \o g)[Len(s) + i] = g[i]
  BY TwoParts
<1>t. PICK t : t = s \o g OBVIOUS
<1>2. SUFFICES ASSUME Len(s) = 1, Len(g) = 4
      PROVE  /\ t \in Seq(S) /\ Len(t) = 5 /\ t[1] = s[1]
             /\ t[2] = g[1] /\ t[3] = g[2] /\ t[4] = g[3] /\ t[5] = g[4]
  BY <1>t
<1>3. t \in Seq(S) /\ Len(t) = 5 /\ t[1] = s[1] BY <1>1, <1>2, <1>t
<1>4. \A i \in 1..4 : t[1 + i] = g[i] BY <1>1, <1>2, <1>t
<1>5. t[2] = g[1] /\ t[3] = g[2] /\ t[4] = g[3] /\ t[5] = g[4]
  <2>1. 1 + 1 = 2 /\ 1 + 2 = 3 /\ 1 + 3 = 4 /\ 1 + 4 = 5 OBVIOUS
  <2>2. 1 \in 1..4 /\ 2 \in 1..4 /\ 3 \in 1..4 /\ 4 \in 1..4 OBVIOUS
  <2>3. t[1 + 1] = g[1] /\ t[1 + 2] = g[2] /\ t[1 + 3] = g[3] /\ t[1 + 4] = g[4] BY <1>4, <2>2
  <2> QED BY <2>1, <2>3
<1> QED BY <1>3, <1>5

LEMMA HandleNewuserIs ==
  ASSUME TypeOK, Places, NEW ch \in Channels, HandleNewuser(ch)
  PROVE  TypeOK' /\ Greets(ch, newusers[ch][1])
<1> PICK k : k = newusers[ch][1] OBVIOUS
<1> PICK join : join = Line("JOIN", k, ch, 0) OBVIOUS
<1> PICK l3 : l3 = Line("332", topic[ch][1], ch, topic[ch][2]) OBVIOUS
<1> PICK l4 : l4 = Line("353", None, ch, 0) OBVIOUS
<1> PICK l5 : l5 = Line("366", None, ch, 0) OBVIOUS
<1>1. running /\ newusers[ch] # <<>> BY DEF HandleNewuser, Alive
<1>2. newusers[ch] \in Seq(Conns) BY DEF TypeOK
<1>3. /\ k = Head(newusers[ch]) /\ k \in Conns /\ Tail(newusers[ch]) \in Seq(Conns)
      /\ 1 \in DOMAIN newusers[ch]
  BY <1>1, <1>2, TailIs
<1>4. k \in ToSet(newusers[ch]) BY <1>3 DEF ToSet
<1>5. link[k] = "open" /\ Len(told[k]) = 1 BY <1>3, <1>4 DEF Places, PlaceOK, Waits
<1>6. /\ newusers' = [newusers EXCEPT ![ch] = Tail(newusers[ch])]
      /\ users' = [users EXCEPT ![ch] = users[ch] \cup {k}]
      /\ Tell(users[ch] \cup {k}, [j \in Conns |-> IF j = k THEN <<join, l3, l4, l5>>
                                                   ELSE <<join>>])
      /\ UNCHANGED <<client, up, read, running, serving, topic, dead>>
  BY <1>3 DEF HandleNewuser
<1>7. join \in Lines /\ l3 \in Lines /\ l4 \in Lines /\ l5 \in Lines
  <2>1. topic[ch][1] \in Conns \cup {None} /\ topic[ch][2] \in Nat
    <3>1. topic[ch] \in Topics \ {Garbage} BY DEF TypeOK
    <3>2. CASE topic[ch] = Unset BY <3>2 DEF Unset
    <3>3. CASE topic[ch] \in Conns \X (Nat \ {0}) BY <3>3
    <3> QED BY <3>1, <3>2, <3>3 DEF Topics
  <2>2. "JOIN" \in Kinds /\ "332" \in Kinds /\ "353" \in Kinds /\ "366" \in Kinds BY DEF Kinds
  <2>3. join \in Lines BY <1>3, <2>2, LineIs
  <2>4. l3 \in Lines BY <2>1, <2>2, LineIs
  <2>5. l4 \in Lines BY <2>2, LineIs
  <2>6. l5 \in Lines BY <2>2, LineIs
  <2> QED BY <2>3, <2>4, <2>5, <2>6
<1>g. PICK g : g = <<join, l3, l4, l5>> OBVIOUS
<1>9. /\ told' = [j \in Conns |-> IF j \in users[ch] \cup {k} /\ link[j] = "open"
                                  THEN told[j] \o (IF j = k THEN g ELSE <<join>>) ELSE told[j]]
      /\ link' = [j \in Conns |-> IF j \in users[ch] \cup {k} /\ link[j] = "closed" THEN "reset"
                                  ELSE link[j]]
  BY <1>6, <1>g DEF Tell
<1>10. told'[k] = told[k] \o g /\ link'[k] = link[k] BY <1>3, <1>5, <1>9
<1>11. /\ told'[k] \in Seq(Lines) /\ Len(told'[k]) = 5
       /\ told'[k][1] = told[k][1] /\ told'[k][2] = join /\ told'[k][3] = l3
       /\ told'[k][4] = l4 /\ told'[k][5] = l5
  <2>1. told[k] \in Seq(Lines) BY <1>3 DEF TypeOK
  <2>2. /\ g \in Seq(Lines) /\ Len(g) = 4
        /\ g[1] = join /\ g[2] = l3 /\ g[3] = l4 /\ g[4] = l5
    BY <1>7, <1>g, FourIs
  <2>3. Len(told[k]) = 1 /\ g \in Seq(Lines) /\ Len(g) = 4 BY <1>5, <2>2
  <2>4. /\ told[k] \o g \in Seq(Lines) /\ Len(told[k] \o g) = 5
        /\ (told[k] \o g)[1] = told[k][1]
        /\ (told[k] \o g)[2] = g[1] /\ (told[k] \o g)[3] = g[2]
        /\ (told[k] \o g)[4] = g[3] /\ (told[k] \o g)[5] = g[4]
    BY <2>1, <2>3, FourMore
  <2> QED BY <1>10, <2>2, <2>4
<1>12. \A j \in Conns \ {k} : told'[j] \in Seq(Lines)
  <2> SUFFICES ASSUME NEW j \in Conns \ {k} PROVE told'[j] \in Seq(Lines) OBVIOUS
  <2>1. CASE j \in users[ch] /\ link[j] = "open"
    <3>1. told'[j] = told[j] \o <<join>> BY <1>9, <2>1
    <3> QED BY <3>1, <1>7, GetsIs
  <2>2. CASE ~(j \in users[ch] /\ link[j] = "open")
    <3>1. told'[j] = told[j] BY <1>9, <2>2
    <3> QED BY <3>1 DEF TypeOK
  <2> QED BY <2>1, <2>2
<1>13. Spread(Conns \ {k}, users[ch], join)
  <2> SUFFICES ASSUME NEW j \in Conns \ {k}
               PROVE  /\ IF j \in users[ch] /\ link[j] = "open" THEN Gets(j, join)
                         ELSE told'[j] = told[j]
                      /\ link'[j] = IF j \in users[ch] /\ link[j] = "closed" THEN "reset"
                                    ELSE link[j]
    BY DEF Spread
  <2>1. link'[j] = IF j \in users[ch] /\ link[j] = "closed" THEN "reset" ELSE link[j] BY <1>9
  <2>2. CASE j \in users[ch] /\ link[j] = "open"
    <3>1. told'[j] = told[j] \o <<join>> BY <1>9, <2>2
    <3> QED BY <2>1, <2>2, <3>1, <1>7, GetsIs
  <2>3. CASE ~(j \in users[ch] /\ link[j] = "open")
    <3>1. told'[j] = told[j] BY <1>9, <2>3
    <3> QED BY SMTT(30), <3>1, <2>1, <2>3
  <2> QED BY <2>2, <2>3
<1>14. told' \in [Conns -> Seq(Lines)] BY <1>9, <1>11, <1>12
<1>15. link' \in [Conns -> {"none", "open", "closed", "reset", "ended"}] BY <1>9 DEF TypeOK
<1>16. \A j \in Conns : read[j] <= Len(told'[j])
  <2> SUFFICES ASSUME NEW j \in Conns PROVE read[j] <= Len(told'[j]) OBVIOUS
  <2>1. read[j] \in Nat /\ read[j] <= Len(told[j]) /\ Len(told[j]) \in Nat BY ToldIs DEF TypeOK
  <2>2. Len(told'[j]) \in Nat BY <1>14, LenProperties
  <2>3. CASE j = k BY <2>1, <2>3, <1>5, <1>11
  <2>4. CASE j # k
    <3>1. Len(told[j]) <= Len(told'[j]) BY <2>4, <1>13, SpreadTypes
    <3> QED BY <3>1, <2>1, <2>2
  <2> QED BY <2>3, <2>4
<1>17. newusers' \in [Channels -> Seq(Conns)] /\ users' \in [Channels -> SUBSET Conns]
  BY <1>3, <1>6 DEF TypeOK
<1>18. Silent BY <1>6 DEF Silent
<1>19. TypeOK' BY <1>6, <1>14, <1>15, <1>16, <1>17, <1>18, ServerTypes DEF TypeOK
<1> QED BY <1>1, <1>3, <1>6, <1>10, <1>11, <1>13, <1>18, <1>19 DEF Greets

(* What the three handlers of a member's line have in common. *)
LEMMA TakesUp ==
  ASSUME TypeOK, Said, NEW ch \in Channels, NEW k \in Conns, Ready(ch, k, Spoken), TakeUp(k),
         UNCHANGED <<running, serving, newusers, dead>>, UNCHANGED <<client, read>>
  PROVE  /\ Takeup(ch, k, up[k][1]) /\ Head(up[k]) = up[k][1] /\ up' \in [Conns -> Seq(Lines)]
         /\ up[k][1] \in Lines /\ up[k][1].from = k /\ up[k][1].chan = ch /\ up[k][1].val > 0
         /\ [Head(up[k]) EXCEPT !.chan = ch] = up[k][1]
<1>1. running /\ k \in users[ch] /\ up[k] # <<>> BY DEF Ready, Alive
<1>2. /\ Head(up[k]) = up[k][1] /\ up[k][1] \in Lines /\ 1 \in DOMAIN up[k]
      /\ Tail(up[k]) \in Seq(Lines)
  BY <1>1, AsksIs
<1>3. up[k][1].from = k /\ up[k][1].chan = ch /\ up[k][1].val > 0 BY <1>1, <1>2 DEF Said, SaidOK
<1>4. up' = [up EXCEPT ![k] = Tail(up[k])] BY DEF TakeUp
<1>5. up' \in [Conns -> Seq(Lines)] BY <1>2, <1>4 DEF TypeOK
<1>6. [up[k][1] EXCEPT !.chan = ch] = up[k][1] BY <1>2, <1>3 DEF Lines
<1> QED BY <1>1, <1>2, <1>3, <1>4, <1>5, <1>6 DEF Takeup, Silent

LEMMA SpreadIs ==
  ASSUME TypeOK, NEW ks, NEW l \in Lines, Tell(ks, [j \in Conns |-> <<l>>])
  PROVE  /\ Spread(Conns, ks, l) /\ told' \in [Conns -> Seq(Lines)]
         /\ link' \in [Conns -> {"none", "open", "closed", "reset", "ended"}]
<1>1. /\ told' = [k \in Conns |-> IF k \in ks /\ link[k] = "open" THEN told[k] \o <<l>>
                                  ELSE told[k]]
      /\ link' = [k \in Conns |-> IF k \in ks /\ link[k] = "closed" THEN "reset" ELSE link[k]]
  BY DEF Tell
<1>2. link' \in [Conns -> {"none", "open", "closed", "reset", "ended"}] BY <1>1 DEF TypeOK
<1>3. ASSUME NEW j \in Conns
      PROVE  /\ told'[j] \in Seq(Lines)
             /\ IF j \in ks /\ link[j] = "open" THEN Gets(j, l) ELSE told'[j] = told[j]
             /\ link'[j] = IF j \in ks /\ link[j] = "closed" THEN "reset" ELSE link[j]
  <2>1. link'[j] = IF j \in ks /\ link[j] = "closed" THEN "reset" ELSE link[j] BY <1>1
  <2>2. CASE j \in ks /\ link[j] = "open"
    <3>1. told'[j] = told[j] \o <<l>> BY <1>1, <2>2
    <3> QED BY <2>1, <2>2, <3>1, GetsIs
  <2>3. CASE ~(j \in ks /\ link[j] = "open")
    <3>1. told'[j] = told[j] BY <1>1, <2>3
    <3> QED BY <2>1, <2>3, <3>1 DEF TypeOK
  <2> QED BY <2>2, <2>3
<1>4. told' \in [Conns -> Seq(Lines)] BY <1>1, <1>3
<1> QED BY <1>2, <1>3, <1>4, Zenon DEF Spread

LEMMA ReadsLess ==
  ASSUME TypeOK, NEW S, NEW T, NEW l, Spread(S, T, l), told' \in [Conns -> Seq(Lines)],
         \A j \in Conns : j \in S \/ told'[j] = told[j]
  PROVE  \A j \in Conns : read[j] <= Len(told'[j])
<1> SUFFICES ASSUME NEW j \in Conns PROVE read[j] <= Len(told'[j]) OBVIOUS
<1>1. read[j] \in Nat /\ read[j] <= Len(told[j]) /\ Len(told[j]) \in Nat BY ToldIs DEF TypeOK
<1>2. Len(told'[j]) \in Nat BY LenProperties
<1>3. Len(told[j]) <= Len(told'[j])
  <2>1. CASE told'[j] = told[j] BY <2>1, <1>1
  <2>2. CASE j \in S BY <2>2, SpreadTypes
  <2> QED BY <2>1, <2>2
<1> QED BY <1>1, <1>2, <1>3

LEMMA HandlePrivIs ==
  ASSUME TypeOK, Said, NEW ch \in Channels, NEW k \in Conns, HandlePriv(ch, k)
  PROVE  TypeOK' /\ Speaks(ch, k, up[k][1])
<1> PICK l : l = up[k][1] OBVIOUS
<1>1. /\ Ready(ch, k, {"PRIVMSG"}) /\ TakeUp(k)
      /\ Tell(users[ch] \ {k}, [j \in Conns |-> <<Head(up[k])>>])
      /\ UNCHANGED <<client, read, running, serving, rooms>>
  BY DEF HandlePriv, Broadcast
<1>2. Ready(ch, k, Spoken) /\ Head(up[k]).kind = "PRIVMSG" BY <1>1 DEF Ready, Spoken
<1>3. /\ Takeup(ch, k, l) /\ Head(up[k]) = l /\ up' \in [Conns -> Seq(Lines)] /\ l \in Lines
  BY <1>1, <1>2, TakesUp DEF rooms
<1>4. /\ Spread(Conns, users[ch] \ {k}, l) /\ told' \in [Conns -> Seq(Lines)]
      /\ link' \in [Conns -> {"none", "open", "closed", "reset", "ended"}]
  BY <1>1, <1>3, SpreadIs
<1>5. \A j \in Conns : read[j] <= Len(told'[j]) BY <1>4, ReadsLess
<1>6. TypeOK' BY <1>1, <1>3, <1>4, <1>5, ServerTypes DEF TypeOK, Silent, rooms
<1> QED BY <1>1, <1>2, <1>3, <1>4, <1>6 DEF Speaks, rooms

LEMMA HandleTopicIs ==
  ASSUME TypeOK, Said, NEW ch \in Channels, NEW k \in Conns, HandleTopic(ch, k)
  PROVE  TypeOK' /\ Speaks(ch, k, up[k][1])
<1> PICK l : l = up[k][1] OBVIOUS
<1>1. /\ Ready(ch, k, {"TOPIC"}) /\ TakeUp(k)
      /\ topic' = [topic EXCEPT ![ch] = <<k, Head(up[k]).val>>]
      /\ Tell(users[ch] \ {}, [j \in Conns |-> <<[Head(up[k]) EXCEPT !.chan = ch]>>])
      /\ UNCHANGED <<client, read, running, serving, newusers, users, dead>>
  BY DEF HandleTopic, Broadcast
<1>2. Ready(ch, k, Spoken) /\ Head(up[k]).kind = "TOPIC" BY <1>1 DEF Ready, Spoken
<1>3. /\ Takeup(ch, k, l) /\ Head(up[k]) = l /\ up' \in [Conns -> Seq(Lines)]
      /\ l \in Lines /\ l.from = k /\ l.val > 0 /\ [Head(up[k]) EXCEPT !.chan = ch] = l
  BY <1>1, <1>2, TakesUp
<1>4. users[ch] \ {} = users[ch] OBVIOUS
<1>5. /\ Spread(Conns, users[ch], l) /\ told' \in [Conns -> Seq(Lines)]
      /\ link' \in [Conns -> {"none", "open", "closed", "reset", "ended"}]
  BY <1>1, <1>3, <1>4, SpreadIs
<1>6. \A j \in Conns : read[j] <= Len(told'[j]) BY <1>5, ReadsLess
<1>7. TopicOf(l) = <<k, l.val>> /\ l.val \in Nat \ {0} BY <1>3 DEF TopicOf, Lines
<1>8. topic' = [topic EXCEPT ![ch] = TopicOf(l)] BY <1>1, <1>3, <1>7
<1>9. topic' \in [Channels -> Topics \ {Garbage}]
  <2>1. <<k, l.val>> \in Topics \ {Garbage} BY <1>7 DEF Topics, Garbage
  <2> QED BY <1>7, <1>8, <2>1 DEF TypeOK
<1>10. TypeOK' BY <1>1, <1>3, <1>5, <1>6, <1>9, ServerTypes DEF TypeOK, Silent
<1> QED BY <1>1, <1>2, <1>3, <1>5, <1>8, <1>10 DEF Speaks

LEMMA HandlePartIs ==
  ASSUME TypeOK, Said, NEW ch \in Channels, NEW k \in Conns, HandlePart(ch, k)
  PROVE  TypeOK' /\ Parts(ch, k, up[k][1])
<1> PICK l : l = up[k][1] OBVIOUS
<1>1. /\ Ready(ch, k, {"PART"}) /\ TakeUp(k)
      /\ told' = [j \in Conns |-> IF j \in users[ch] \ {k} /\ link[j] = "open"
                                  THEN Append(told[j], Head(up[k])) ELSE told[j]]
      /\ link' = [j \in Conns |-> IF j = k THEN "ended"
                                  ELSE IF j \in users[ch] /\ link[j] = "closed" THEN "reset"
                                       ELSE link[j]]
      /\ users' = [users EXCEPT ![ch] = @ \ {k}]
      /\ UNCHANGED <<client, read, running, serving, newusers, topic, dead>>
  BY DEF HandlePart
<1>2. Ready(ch, k, Spoken) /\ Head(up[k]).kind = "PART" BY <1>1 DEF Ready, Spoken
<1>3. /\ Takeup(ch, k, l) /\ Head(up[k]) = l /\ up' \in [Conns -> Seq(Lines)] /\ l \in Lines
  BY <1>1, <1>2, TakesUp
<1>4. link' \in [Conns -> {"none", "open", "closed", "reset", "ended"}] BY <1>1 DEF TypeOK
<1>5. link'[k] = "ended" /\ told'[k] = told[k] BY <1>1
<1>6. ASSUME NEW j \in Conns
      PROVE  /\ told'[j] \in Seq(Lines)
             /\ IF j \in users[ch] \ {k} /\ link[j] = "open" THEN Gets(j, l) ELSE told'[j] = told[j]
             /\ j # k => link'[j] = IF j \in users[ch] \ {k} /\ link[j] = "closed" THEN "reset"
                                    ELSE link[j]
  <2>1. j # k => link'[j] = IF j \in users[ch] \ {k} /\ link[j] = "closed" THEN "reset" ELSE link[j]
    BY <1>1
  <2>2. CASE j \in users[ch] \ {k} /\ link[j] = "open"
    <3>1. told'[j] = Append(told[j], l) BY <1>1, <1>3, <2>2
    <3> QED BY <1>3, <2>1, <2>2, <3>1, GetsIs
  <2>3. CASE ~(j \in users[ch] \ {k} /\ link[j] = "open")
    <3>1. told'[j] = told[j] BY <1>1, <2>3
    <3> QED BY <2>1, <2>3, <3>1 DEF TypeOK
  <2> QED BY <2>2, <2>3
<1>7. told' \in [Conns -> Seq(Lines)] BY <1>1, <1>6
<1>8. Spread(Conns \ {k}, users[ch] \ {k}, l) BY <1>6 DEF Spread
<1>9. \A j \in Conns : read[j] <= Len(told'[j]) BY <1>5, <1>7, <1>8, ReadsLess
<1>10. users' \in [Channels -> SUBSET Conns] BY <1>1 DEF TypeOK
<1>11. TypeOK' BY <1>1, <1>3, <1>4, <1>7, <1>9, <1>10, ServerTypes DEF TypeOK, Silent
<1> QED BY <1>1, <1>2, <1>3, <1>5, <1>8, <1>11 DEF Parts

LEMMA ThreadEndsTypes ==
  ASSUME TypeOK, NEW ch \in Channels, ThreadEnds(ch)
  PROVE  TypeOK' /\ Silent
<1>1. link' \in [Conns -> {"none", "open", "closed", "reset", "ended"}]
  BY DEF ThreadEnds, TypeOK
<1>2. users' \in [Channels -> SUBSET Conns] /\ dead' \subseteq Channels BY DEF ThreadEnds, TypeOK
<1>3. UNCHANGED <<client, up, told, read, running, serving, newusers, topic>> BY DEF ThreadEnds
<1> QED BY <1>1, <1>2, <1>3, ServerTypes DEF TypeOK, Silent

LEMMA ServerStopsTypes ==
  ASSUME TypeOK, ServerStops
  PROVE  TypeOK' /\ Silent
<1>1. link' \in [Conns -> {"none", "open", "closed", "reset", "ended"}]
  BY DEF ServerStops, TypeOK
<1>2. /\ up' \in [Conns -> Seq(Lines)] /\ newusers' \in [Channels -> Seq(Conns)]
      /\ users' \in [Channels -> SUBSET Conns]
  BY EmptySeq DEF ServerStops
<1>3. UNCHANGED <<client, told, read, topic, dead>> /\ serving' = None /\ running' = FALSE
  BY DEF ServerStops
<1> QED BY <1>1, <1>2, <1>3, ServerTypes DEF TypeOK, Silent

-----------------------------------------------------------------------------
(* What every step keeps of the connections. *)

LEMMA LinksKept ==
  ASSUME TypeOK, Links, Starts,
         \A c \in Clients : session'[c] = session[c],
         \A c \in Clients : pc'[c] \in Active => pc[c] \in Active,
         \A c \in Clients : pc[c] \in Active /\ pc'[c] \notin Active => link[Conn(c)] # "open",
         \A k \in Conns : link'[k] = link[k] /\ told'[k] = told[k],
         \A k \in Conns : link[k] = "none" => up'[k] = up[k]
  PROVE  Links'
<1> SUFFICES ASSUME NEW k \in Conns PROVE LinkOK(k)' BY DEF Links
<1>1. k[1] \in Clients BY ConnsAre
<1>2. LinkOK(k) BY DEF Links
<1>3. IsNow(k)' <=> IsNow(k) BY <1>1 DEF IsNow
<1>4. link[k] = "open" => pc'[k[1]] \in Active
  <2> SUFFICES ASSUME link[k] = "open" PROVE pc'[k[1]] \in Active OBVIOUS
  <2>1. IsNow(k) /\ pc[k[1]] \in Active BY <1>2 DEF LinkOK
  <2>2. k = Conn(k[1]) BY <1>1, <2>1, ConnIs DEF Starts, ClientOK
  <2> QED BY <1>1, <2>1, <2>2
<1>5. /\ session'[k[1]] = session[k[1]]
      /\ pc'[k[1]] \in Active => pc[k[1]] \in Active
      /\ link'[k] = link[k] /\ told'[k] = told[k] /\ (link[k] = "none" => up'[k] = up[k])
  BY <1>1
<1> QED BY <1>2, <1>3, <1>4, <1>5 DEF LinkOK

(* A step of c that leaves its connections and session alone. *)
LEMMA LinksClient ==
  ASSUME TypeOK, Links, Starts, NEW c \in Clients, Alone(c),
         session'[c] = session[c], pc[c] \in Active, pc'[c] # "start",
         pc'[c] \in Active \/ link[Conn(c)] # "open",
         \A k \in Conns : link'[k] = link[k] /\ told'[k] = told[k],
         \A k \in Conns \ {Conn(c)} : up'[k] = up[k],
         link[Conn(c)] # "open" => up'[Conn(c)] = up[Conn(c)]
  PROVE  Links' /\ Starts'
<1>1. \A d \in Clients : session'[d] = session[d] BY DEF Alone, SameClient
<1>2. \A d \in Clients : pc'[d] \in Active => pc[d] \in Active BY DEF Alone, SameClient
<1>3. \A d \in Clients : pc[d] \in Active /\ pc'[d] \notin Active => link[Conn(d)] # "open"
  BY DEF Alone, SameClient
<1>4. \A k \in Conns : link[k] = "none" => up'[k] = up[k] OBVIOUS
<1>5. Links' BY <1>1, <1>2, <1>3, <1>4, LinksKept
<1>6. Starts'
  <2> SUFFICES ASSUME NEW d \in Clients PROVE ClientOK(d)' BY DEF Starts
  <2>1. ClientOK(d) BY DEF Starts
  <2>2. CASE d # c BY <2>1, <2>2 DEF ClientOK, Alone, SameClient
  <2>3. CASE d = c
    <3>1. session[c] > 0 BY <2>1, <2>3 DEF ClientOK
    <3> QED BY <2>3, <3>1 DEF ClientOK
  <2> QED BY <2>2, <2>3
<1> QED BY <1>5, <1>6

LEMMA LinksOpens ==
  ASSUME TypeOK, Links, Starts, NEW c \in Clients, Opens(c)
  PROVE  Links'
<1> SUFFICES ASSUME NEW k \in Conns PROVE LinkOK(k)' BY DEF Links
<1>1. k[1] \in Clients /\ k[2] \in Nat \ {0} BY ConnsAre, BoundsAssumption
<1>2. LinkOK(k) BY DEF Links
<1>3. session[c] \in Nat BY DEF TypeOK
<1>4. CASE k[1] # c
  <2>1. SameConn(k) /\ SameClient(k[1]) BY <1>1, <1>4 DEF Opens, Alone
  <2> QED BY <1>2, <2>1 DEF LinkOK, SameConn, SameClient, IsNow
<1>5. CASE k[1] = c /\ k[2] = session[c] + 1
  <2>1. link'[k] = "open" /\ session'[c] = k[2] /\ pc'[c] = "welcome" BY <1>5 DEF Opens
  <2>2. pc'[k[1]] \in Active BY <1>5, <2>1 DEF Active
  <2> QED BY <1>1, <1>3, <1>5, <2>1, <2>2 DEF LinkOK, IsNow
<1>6. CASE k[1] = c /\ k[2] = session[c]
  <2>1. link[k] # "none" BY <1>2, <1>3, <1>6 DEF LinkOK
  <2>2. link'[k] # "none" /\ link'[k] # "open" /\ told'[k] = <<>>
    BY <1>6, <2>1 DEF Opens, Hears
  <2>3. session'[c] = session[c] + 1 BY DEF Opens
  <2> QED BY <1>1, <1>3, <1>6, <2>2, <2>3 DEF LinkOK, IsNow
<1>7. CASE k[1] = c /\ k[2] \notin {session[c], session[c] + 1}
  <2>1. SameConn(k) BY <1>7 DEF Opens
  <2>2. session'[c] = session[c] + 1 BY DEF Opens
  <2>3. session[c] < k[2] <=> session'[c] < k[2] BY <1>1, <1>3, <1>7, <2>2
  <2>4. ~IsNow(k) /\ ~IsNow(k)' BY <1>7, <2>2, <1>1, <1>3 DEF IsNow
  <2>5. session'[k[1]] < k[2] <=> link'[k] = "none" BY <1>2, <1>7, <2>1, <2>3 DEF LinkOK, SameConn
  <2> QED BY <1>2, <2>1, <2>4, <2>5 DEF LinkOK, SameConn
<1> QED BY <1>4, <1>5, <1>6, <1>7

LEMMA StartsOpens ==
  ASSUME TypeOK, Starts, NEW c \in Clients, Opens(c)
  PROVE  Starts'
<1> SUFFICES ASSUME NEW d \in Clients PROVE ClientOK(d)' BY DEF Starts
<1>1. ClientOK(d) BY DEF Starts
<1>2. CASE d # c BY <1>1, <1>2 DEF ClientOK, Opens, Alone, SameClient
<1>3. CASE d = c
  <2>1. pc'[c] = "welcome" /\ session'[c] = session[c] + 1 /\ session[c] \in Nat
    BY DEF Opens, TypeOK
  <2>2. session'[c] > 0 BY <2>1
  <2> QED BY <1>3, <2>1, <2>2 DEF ClientOK
<1> QED BY <1>2, <1>3

LEMMA LinksEnds ==
  ASSUME TypeOK, Links, Starts, NEW c \in Clients, Ends(c)
  PROVE  Links' /\ Starts'
<1>1. /\ pc[c] \in Active /\ pc'[c] \notin Active /\ session'[c] = session[c] /\ pc'[c] # "start"
      /\ Alone(c) /\ \A j \in Conns \ {Conn(c)} : SameConn(j)
  BY DEF Ends, Active, Over, Replies, Loop
<1>2. /\ Conn(c) \in Conns /\ Conn(c)[1] = c /\ Conn(c)[2] = session[c] /\ session[c] > 0
      /\ \A k \in Conns : k[1] = c /\ IsNow(k) => k = Conn(c)
  BY <1>1, ConnIs DEF Starts, ClientOK
<1>3. Links'
  <2> SUFFICES ASSUME NEW k \in Conns PROVE LinkOK(k)' BY DEF Links
  <2>1. k[1] \in Clients BY ConnsAre
  <2>2. LinkOK(k) BY DEF Links
  <2>3. IsNow(k)' <=> IsNow(k) BY <1>1, <2>1 DEF IsNow, Alone, SameClient
  <2>4. session'[k[1]] = session[k[1]] BY <1>1, <2>1 DEF Alone, SameClient
  <2>5. CASE k = Conn(c)
    <3>1. link[k] # "none" /\ link[k] # "closed" /\ link[k] # "reset"
      <4>1. IsNow(k) /\ pc[k[1]] \in Active BY <1>1, <1>2, <2>5 DEF IsNow
      <4> QED BY <2>2, <4>1 DEF LinkOK
    <3>2. /\ told'[k] = <<>>
          /\ link[k] = "open" => link'[k] \in {"closed", "reset"}
          /\ link[k] # "open" => link'[k] = link[k] /\ up'[k] = up[k]
      BY <2>5 DEF Ends, Hears
    <3>3. link'[k] # "none" /\ link'[k] # "open" BY <3>1, <3>2
    <3>4. pc'[k[1]] \notin Active BY <1>1, <1>2, <2>5
    <3>5. ~(session'[k[1]] < k[2]) BY <2>2, <2>4, <3>1 DEF LinkOK
    <3> QED BY <3>2, <3>3, <3>4, <3>5 DEF LinkOK
  <2>6. CASE k # Conn(c)
    <3>1. SameConn(k) BY <1>1, <2>6
    <3>2. k[1] = c => ~IsNow(k) BY <1>2, <2>6
    <3>3. k[1] # c => pc'[k[1]] = pc[k[1]] BY <1>1, <2>1 DEF Alone, SameClient
    <3>4. link[k] = "open" => k[1] # c BY <2>2, <3>2 DEF LinkOK
    <3> QED BY <2>2, <2>3, <2>4, <3>1, <3>2, <3>3, <3>4 DEF LinkOK, SameConn
  <2> QED BY <2>5, <2>6
<1>4. Starts'
  <2> SUFFICES ASSUME NEW d \in Clients PROVE ClientOK(d)' BY DEF Starts
  <2>1. ClientOK(d) BY DEF Starts
  <2>2. CASE d # c BY <1>1, <2>1, <2>2 DEF ClientOK, Alone, SameClient
  <2>3. CASE d = c BY <1>1, <2>3 DEF ClientOK
  <2> QED BY <2>2, <2>3
<1> QED BY <1>3, <1>4

(* The server opens no connection, and reads and writes only where there is one. *)
LEMMA LinksServer ==
  ASSUME TypeOK, Links, Starts, Silent,
         \A k \in Conns :
           /\ link'[k] = link[k] \/ link'[k] = "ended" \/ (link[k] = "closed" /\ link'[k] = "reset")
           /\ link[k] = "none" => link'[k] = "none" /\ up'[k] = up[k]
           /\ link[k] # "open" => told'[k] = told[k]
  PROVE  Links' /\ Starts'
<1>1. pc' = pc /\ session' = session /\ sockMsgs' = sockMsgs /\ shown' = shown /\ typed' = typed
  BY DEF Silent, client, display
<1>2. Starts' BY <1>1 DEF Starts, ClientOK
<1>3. Links'
  <2> SUFFICES ASSUME NEW k \in Conns PROVE LinkOK(k)' BY DEF Links
  <2>1. LinkOK(k) BY DEF Links
  <2>2. IsNow(k)' <=> IsNow(k) BY <1>1 DEF IsNow
  <2> QED BY <1>1, <2>1, <2>2 DEF LinkOK
<1> QED BY <1>2, <1>3

(* Once the server has stopped it has let go of everything. *)
LEMMA StoppedRuns ==
  ASSUME running'
  PROVE  Stopped'
BY DEF Stopped

LEMMA StoppedClient ==
  ASSUME TypeOK, Stopped, Links, NEW c \in Clients, Alone(c),
         \A k \in Conns : link[k] # "open" => link'[k] = link[k] /\ up'[k] = up[k]
  PROVE  Stopped'
<1>1. /\ running' = running /\ serving' = serving /\ newusers' = newusers /\ users' = users
  BY DEF Alone, server, rooms
<1> QED BY <1>1 DEF Stopped

-----------------------------------------------------------------------------
(* Where every connection is, and who the members are. *)

LEMMA AtRest ==
  ASSUME NEW k \in Conns, PlaceOK(k), link[k] # "open"
  PROVE  ~Asks(k) /\ serving # k /\ ~Waits(k)
BY DEF PlaceOK

LEMMA RestsThere ==
  ASSUME NEW k \in Conns, link'[k] # "open", ~Asks(k)', serving' # k, ~Waits(k)'
  PROVE  PlaceOK(k)'
BY DEF PlaceOK

(* In the chat with an open connection a client is a member. *)
LEMMA InThere ==
  ASSUME TypeOK, Links, Starts, Places, NEW c \in Clients, pc[c] \in Loop
  PROVE  /\ Conn(c) \in Conns /\ pc[c] \in Active
         /\ ~Asks(Conn(c)) /\ serving # Conn(c) /\ ~Waits(Conn(c))
         /\ link[Conn(c)] \in {"open", "ended"} /\ (link[Conn(c)] = "open" => In(Conn(c)))
<1> PICK k : k = Conn(c) OBVIOUS
<1>1. pc[c] \in Active /\ pc[c] \notin {"welcome", "prompt", "confirm"} BY DEF Active, Loop
<1>2. k \in Conns /\ IsNow(k) /\ k[1] = c BY <1>1, ArrivesIs
<1>3. PlaceOK(k) /\ LinkOK(k) BY <1>2 DEF Places, Links
<1>4. ~Asks(k) /\ serving # k /\ ~Waits(k) BY <1>1, <1>2, <1>3 DEF PlaceOK
<1> QED BY <1>1, <1>2, <1>3, <1>4 DEF PlaceOK, LinkOK

LEMMA FirstStays ==
  ASSUME TypeOK, TypeOK', NEW k \in Conns, NEW kind \in Spoken, Writes(k, kind), ~Asks(k)
  PROVE  /\ ~Asks(k)' /\ \E i \in DOMAIN up'[k] : up'[k][i].kind = kind
<1>1. /\ Len(up[k]) \in Nat /\ DOMAIN up'[k] = 1..Len(up'[k])
      /\ (up[k] = <<>> <=> Len(up[k]) = 0)
  BY EmptySeq, LenProperties DEF TypeOK
<1>2. Len(up[k]) + 1 \in DOMAIN up'[k] /\ up'[k][Len(up[k]) + 1].kind = kind
  BY <1>1 DEF Writes
<1>3. ~Asks(k)'
  <2>1. CASE up[k] = <<>>
    <3>1. Len(up[k]) + 1 = 1 BY <1>1, <2>1
    <3>2. up'[k][1].kind = kind BY <1>2, <3>1
    <3> QED BY <3>2 DEF Asks, Spoken
  <2>2. CASE up[k] # <<>>
    <3>1. 1 \in 1..Len(up[k]) BY <1>1, <2>2
    <3>2. up'[k][1] = up[k][1] BY <3>1 DEF Writes
    <3> QED BY <2>2, <3>2 DEF Asks
  <2> QED BY <2>1, <2>2
<1> QED BY <1>2, <1>3

(* A step of c changes nothing for the other connections. *)
LEMMA Aside ==
  ASSUME TypeOK, Links, Places, Members, NEW c \in Clients, Alone(c),
         NEW k \in Conns, k[1] = c => ~IsNow(k), SameConn(k)
  PROVE  PlaceOK(k)' /\ \A ch \in Channels : k \in users'[ch] => MemberOK(ch, k)'
<1>1. k[1] \in Clients BY ConnsAre
<1>2. LinkOK(k) /\ PlaceOK(k) BY DEF Links, Places
<1>3. serving' = serving /\ newusers' = newusers /\ users' = users
  BY DEF Alone, server, rooms
<1>4. CASE k[1] # c
  <2>1. SameClient(k[1]) BY <1>1, <1>4 DEF Alone
  <2>2. PlaceOK(k)' BY <1>2, <1>3, <2>1 DEF PlaceOK, SameConn, SameClient, Asks, Waits, In
  <2>3. ASSUME NEW ch \in Channels, k \in users'[ch] PROVE MemberOK(ch, k)'
    <3>1. MemberOK(ch, k) BY <1>3, <2>3 DEF Members
    <3> QED BY <1>3, <2>1, <3>1 DEF MemberOK, SameConn, SameClient, IsNow
  <2> QED BY <2>2, <2>3
<1>5. CASE k[1] = c
  <2>1. link[k] # "open" /\ ~IsNow(k) BY <1>2, <1>5 DEF LinkOK
  <2>2. ~Asks(k) /\ serving # k /\ ~Waits(k) BY <1>2, <2>1, AtRest
  <2>3. ~Asks(k)' /\ serving' # k /\ ~Waits(k)' /\ link'[k] # "open"
    BY <1>3, <2>1, <2>2 DEF SameConn, Asks, Waits
  <2>4. PlaceOK(k)' BY <2>3, RestsThere
  <2>5. ASSUME NEW ch \in Channels, k \in users'[ch] PROVE MemberOK(ch, k)'
    <3>1. MemberOK(ch, k) BY <1>3, <2>5 DEF Members
    <3> QED BY <1>3, <2>1, <3>1 DEF MemberOK, SameConn
  <2> QED BY <2>4, <2>5
<1> QED BY <1>4, <1>5

(* Who waits to be announced has asked for that channel. *)
LEMMA QueuesClient ==
  ASSUME TypeOK, Links, Starts, Places, Queues, NEW c \in Clients, Alone(c),
         pc[c] = "confirm" /\ link[Conn(c)] = "open" => channel'[c] = channel[c]
  PROVE  Queues'
<1>1. newusers' = newusers BY DEF Alone, server, rooms
<1>2. ASSUME NEW ch \in Channels, NEW k \in ToSet(newusers[ch]) PROVE channel'[k[1]] = ch
  <2>1. k \in Conns
    <3>1. newusers[ch] \in Seq(Conns) BY DEF TypeOK
    <3> QED BY <3>1, ToSetIs
  <2>2. k[1] \in Clients /\ PlaceOK(k) /\ LinkOK(k) BY <2>1, ConnsAre DEF Places, Links
  <2>3. pc[k[1]] = "confirm" /\ link[k] = "open" BY <2>2 DEF PlaceOK, Waits
  <2>4. channel[k[1]] = ch BY DEF Queues
  <2>5. IsNow(k) /\ pc[k[1]] \in Active BY <2>2, <2>3 DEF LinkOK
  <2>6. k = Conn(k[1]) BY <2>1, <2>2, <2>5, ConnIs DEF Starts, ClientOK
  <2> QED BY <2>2, <2>3, <2>4, <2>6 DEF Alone, SameClient
<1> QED BY <1>1, <1>2 DEF Queues

(* So only the connection of c itself has to be looked at. *)
LEMMA PlacesClient ==
  ASSUME TypeOK, Links, Starts, Places, Queues, Members,
         NEW c \in Clients, pc[c] \in Active, Alone(c), NEW o, o = Conn(c),
         \A j \in Conns \ {o} : SameConn(j),
         pc[c] = "confirm" /\ link[o] = "open" => channel'[c] = channel[c],
         PlaceOK(o)', \A ch \in Channels : o \in users[ch] => MemberOK(ch, o)'
  PROVE  Places' /\ Queues' /\ Members'
<1>1. /\ o \in Conns /\ \A k \in Conns : k[1] = c /\ IsNow(k) => k = o
  BY ConnIs DEF Starts, ClientOK
<1>2. users' = users BY DEF Alone, server, rooms
<1>3. ASSUME NEW k \in Conns
      PROVE  PlaceOK(k)' /\ \A ch \in Channels : k \in users'[ch] => MemberOK(ch, k)'
  <2>1. CASE k = o BY <1>2, <2>1
  <2>2. CASE k # o
    <3>1. k[1] = c => ~IsNow(k) BY <1>1, <2>2
    <3>2. SameConn(k) BY <2>2
    <3> QED BY <3>1, <3>2, Aside
  <2> QED BY <2>1, <2>2
<1>4. Places' BY <1>3 DEF Places
<1>5. Members'
  <2>1. \A ch \in Channels : users'[ch] \subseteq Conns BY <1>2 DEF TypeOK
  <2> QED BY <1>3, <2>1 DEF Members
<1> QED BY <1>4, <1>5, QueuesClient

LEMMA PlacesOpens ==
  ASSUME TypeOK, TypeOK', Links, Starts, Places, Queues, Members, NEW c \in Clients, Opens(c)
  PROVE  Places' /\ Queues' /\ Members'
<1>1. Alone(c) /\ pc[c] \in {"start", "input"} /\ session[c] \in Nat BY DEF Opens, TypeOK
<1>2. serving' = serving /\ newusers' = newusers /\ users' = users
  BY <1>1 DEF Alone, server, rooms
<1>3. Queues' BY <1>1, QueuesClient
<1>4. ASSUME NEW k \in Conns
      PROVE  PlaceOK(k)' /\ \A ch \in Channels : k \in users'[ch] => MemberOK(ch, k)'
  <2>1. LinkOK(k) /\ PlaceOK(k) BY DEF Links, Places
  <2>2. CASE k[1] # c \/ k[2] \notin {session[c], session[c] + 1}
    <3>1. SameConn(k) BY <2>2 DEF Opens
    <3>2. k[1] = c => ~IsNow(k) BY <2>2 DEF IsNow
    <3> QED BY <1>1, <3>1, <3>2, Aside
  <2>3. CASE k[1] = c /\ k[2] = session[c] + 1
    <3>1. link[k] = "none" /\ told[k] = <<>> BY <1>1, <2>1, <2>3 DEF LinkOK
    <3>2. serving # k /\ ~Waits(k) BY <2>1, <3>1, AtRest
    <3>3. ~In(k) BY <3>1 DEF Members, MemberOK, In
    <3>4. /\ link'[k] = "open" /\ Len(up'[k]) = 1 /\ told'[k] = <<>> /\ pc'[c] = "welcome"
          /\ up'[k][1] = Line("USERINFO", k, None, 0)
      BY <2>3, <3>1 DEF Opens
    <3>5. Asks(k)'
      <4>1. up'[k] # <<>> BY <3>4, EmptySeq
      <4>2. up'[k][1].kind = "USERINFO" BY <3>4, LineIs DEF Kinds
      <4> QED BY <4>1, <4>2 DEF Asks
    <3>6. Len(told'[k]) = 0 BY <3>4, EmptySeq
    <3>7. serving' # k /\ ~Waits(k)' /\ ~In(k)' BY <1>2, <3>2, <3>3 DEF Waits, In
    <3>8. PlaceOK(k)' BY <2>3, <3>4, <3>5, <3>6, <3>7 DEF PlaceOK
    <3> QED BY <3>7, <3>8 DEF In
  <2>4. CASE k[1] = c /\ k[2] = session[c]
    <3>1. pc[c] = "input" /\ pc[c] \in Loop
      <4>1. session[c] > 0
        <5>1. k[2] \in Nat \ {0} BY ConnsAre, BoundsAssumption
        <5> QED BY <2>4, <5>1
      <4>2. pc[c] # "start" BY <4>1 DEF Starts, ClientOK
      <4> QED BY <1>1, <4>2 DEF Loop
    <3>2. pc[c] \in Active /\ ~Asks(Conn(c)) /\ serving # Conn(c) /\ ~Waits(Conn(c))
          /\ link[Conn(c)] \in {"open", "ended"}
      BY <3>1, InThere
    <3>3. k = Conn(c) BY <2>4, <3>2, ConnIs DEF Starts, ClientOK, IsNow
    <3>4. /\ link[k] = "open" => link'[k] \in {"closed", "reset"} /\ Writes(k, "PART")
          /\ link[k] # "open" => link'[k] = link[k] /\ up'[k] = up[k]
      BY <2>4 DEF Opens
    <3>5. link[k] = "open" => ~Asks(k)' /\ \E i \in DOMAIN up'[k] : up'[k][i].kind = "PART"
      BY <3>2, <3>3, <3>4, FirstStays DEF Spoken
    <3>6. link[k] # "open" => ~Asks(k)' BY <3>2, <3>3, <3>4 DEF Asks
    <3>7. link'[k] # "open" /\ serving' # k /\ ~Waits(k)' BY <1>2, <3>2, <3>3, <3>4 DEF Waits
    <3>8. PlaceOK(k)' BY <3>5, <3>6, <3>7, RestsThere
    <3>9. ASSUME NEW ch \in Channels, k \in users'[ch] PROVE MemberOK(ch, k)'
      <4>1. MemberOK(ch, k) BY <1>2, <3>9 DEF Members
      <4>2. link[k] = "open" BY <4>1, <3>2, <3>3 DEF MemberOK
      <4> QED BY <1>2, <3>4, <3>5, <4>1, <4>2 DEF MemberOK
    <3> QED BY <3>8, <3>9
  <2> QED BY <2>2, <2>3, <2>4
<1>5. Members'
  <2>1. \A ch \in Channels : users'[ch] \subseteq Conns BY <1>2 DEF TypeOK
  <2> QED BY <1>4, <2>1 DEF Members
<1> QED BY <1>3, <1>4, <1>5 DEF Places

LEMMA PlacesEnds ==
  ASSUME TypeOK, TypeOK', Links, Starts, Places, Queues, Members, NEW c \in Clients, Ends(c)
  PROVE  Places' /\ Queues' /\ Members'
<1> PICK k : k = Conn(c) OBVIOUS
<1>1. /\ pc[c] \in Active /\ Alone(c) /\ \A j \in Conns \ {k} : SameConn(j)
      /\ session'[c] = session[c]
      /\ link[k] = "open" =>
           /\ pc[c] \in Loop /\ link'[k] \in {"closed", "reset"}
           /\ \/ pc'[c] = "failed" /\ (up'[k] = up[k] \/ \E kind \in Spoken : Writes(k, kind))
              \/ Writes(k, "PART")
      /\ link[k] # "open" => link'[k] = link[k] /\ up'[k] = up[k]
  BY DEF Ends
<1>2. k \in Conns /\ IsNow(k) /\ k[1] = c /\ k[2] = session[c] BY <1>1, ArrivesIs
<1>3. serving' = serving /\ newusers' = newusers /\ users' = users
  BY <1>1 DEF Alone, server, rooms
<1>4. PlaceOK(k) /\ LinkOK(k) BY <1>2 DEF Places, Links
<1>5. ~Asks(k) /\ serving # k /\ ~Waits(k) /\ link[k] \in {"open", "ended"}
  <2>1. CASE link[k] = "open" BY <2>1, <1>1, InThere
  <2>2. CASE link[k] # "open" BY <2>2, <1>1, <1>2, <1>4, AtRest DEF LinkOK
  <2> QED BY <2>1, <2>2
<1>6. link'[k] # "open" BY <1>1, <1>5
<1>7. ~Asks(k)'
  <2>1. CASE up'[k] = up[k] BY <1>5, <2>1 DEF Asks
  <2>2. ASSUME NEW kind \in Spoken, Writes(k, kind) PROVE ~Asks(k)'
    BY <1>2, <1>5, <2>2, FirstStays
  <2> QED BY <1>1, <2>1, <2>2 DEF Spoken
<1>8. PlaceOK(k)' BY <1>2, <1>3, <1>5, <1>6, <1>7, RestsThere DEF Waits
<1>9. ASSUME NEW ch \in Channels, k \in users[ch] PROVE MemberOK(ch, k)'
  <2>1. MemberOK(ch, k) BY <1>9 DEF Members
  <2>2. link[k] = "open" /\ link'[k] \in {"closed", "reset"}
    BY <1>1, <1>5, <2>1 DEF MemberOK
  <2>3. (IsNow(k)' /\ pc'[k[1]] = "failed") \/ \E i \in DOMAIN up'[k] : up'[k][i].kind = "PART"
    <3>1. CASE pc'[c] = "failed" BY <1>1, <1>2, <3>1 DEF IsNow
    <3>2. CASE Writes(k, "PART") BY <1>2, <1>5, <3>2, FirstStays DEF Spoken
    <3> QED BY <1>1, <2>2, <3>1, <3>2
  <2> QED BY <1>3, <2>1, <2>2, <2>3 DEF MemberOK
<1>10. ~(pc[c] = "confirm" /\ link[k] = "open") BY <1>1 DEF Loop
<1> QED BY <1>1, <1>8, <1>9, <1>10, PlacesClient

(* A client that fails to connect at first has no connection. *)
LEMMA PlacesNever ==
  ASSUME TypeOK, Links, Starts, Places, Queues, Members, NEW c \in Clients,
         pc[c] = "start", pc'[c] = "failed", \A d \in Clients \ {c} : pc'[d] = pc[d],
         UNCHANGED <<session, typed, sockMsgs, channel, display, network, server>>
  PROVE  Links' /\ Starts' /\ Places' /\ Queues' /\ Members'
<1>1. session[c] = 0 BY DEF Starts, ClientOK
<1>2. ASSUME NEW k \in Conns, k[1] = c PROVE link[k] = "none"
  <2>1. k[2] \in Nat \ {0} BY ConnsAre, BoundsAssumption
  <2> QED BY <1>1, <1>2, <2>1 DEF Links, LinkOK
<1>3. /\ session' = session /\ channel' = channel /\ link' = link /\ up' = up /\ told' = told
      /\ serving' = serving /\ newusers' = newusers /\ users' = users
      /\ sockMsgs' = sockMsgs /\ shown' = shown /\ typed' = typed
  BY DEF network, server, rooms, display
<1>4. ASSUME NEW k \in Conns PROVE LinkOK(k)' /\ PlaceOK(k)'
  <2>1. LinkOK(k) /\ PlaceOK(k) /\ k[1] \in Clients BY ConnsAre DEF Links, Places
  <2>2. CASE k[1] # c
    <3>1. pc'[k[1]] = pc[k[1]] BY <2>1, <2>2
    <3> QED BY <1>3, <2>1, <3>1 DEF LinkOK, PlaceOK, IsNow, Asks, Waits, In
  <2>3. CASE k[1] = c
    <3>1. link[k] = "none" /\ ~Asks(k) /\ serving # k /\ ~Waits(k) BY <1>2, <2>1, <2>3, AtRest
    <3>2. PlaceOK(k)' BY <1>3, <3>1, RestsThere DEF Asks, Waits
    <3>3. session'[k[1]] < k[2] BY <1>3, <2>1, <3>1 DEF LinkOK
    <3>4. pc'[c] \notin Active BY DEF Active, Replies, Loop
    <3> QED BY <1>3, <2>1, <2>3, <3>1, <3>2, <3>3, <3>4 DEF LinkOK
  <2> QED BY <2>2, <2>3
<1>5. Starts' BY <1>3 DEF Starts, ClientOK, Active, Replies, Loop
<1>6. Queues' BY <1>3 DEF Queues
<1>7. Members'
  <2> SUFFICES ASSUME NEW ch \in Channels, NEW k \in users[ch] PROVE MemberOK(ch, k)'
    BY <1>3 DEF Members
  <2>1. k \in Conns /\ MemberOK(ch, k) BY DEF TypeOK, Members
  <2>2. k[1] \in Clients \ {c} BY <1>2, <2>1, ConnsAre DEF MemberOK
  <2> QED BY <1>3, <2>1, <2>2 DEF MemberOK, IsNow
<1> QED BY <1>4, <1>5, <1>6, <1>7 DEF Links, Places

(* RPL_WELCOME is the first line; if it is the other one the server has      *)
(* ended the connection.                                                     *)
LEMMA Refused ==
  ASSUME TypeOK, Tracks, Starts, Shape, NEW c \in Clients, pc[c] = "welcome", Takes(c),
         told[Conn(c)][At(c) + 1].kind # "001"
  PROVE  link[Conn(c)] = "ended"
<1>1. pc[c] \in Active BY DEF Active
<1>2. /\ OnTrack(c) /\ Conn(c) \in Conns /\ At(c) + 1 \in DOMAIN told[Conn(c)]
  BY <1>1, TakesOnTrack DEF Takes
<1>3. At(c) = 0 BY <1>2 DEF OnTrack, Place, Loop
<1>4. At(c) + 1 = 1 BY <1>3
<1> QED BY <1>2, <1>4 DEF Shape, ToldOK

LEMMA PlacesWelcome ==
  ASSUME TypeOK, Links, Starts, Places, Queues, Members, Tracks, Shape, NEW c \in Clients,
         Reads(c), pc[c] = "welcome", pc'[c] \in {"prompt", "ended"},
         pc'[c] = "ended" => link[Conn(c)] = "ended"
  PROVE  Places' /\ Queues' /\ Members'
<1> PICK k : k = Conn(c) OBVIOUS
<1>1. pc[c] \in Active BY DEF Active
<1>2. k \in Conns /\ IsNow(k) /\ k[1] = c BY <1>1, ArrivesIs
<1>3. /\ Alone(c) /\ link' = link /\ up' = up /\ told' = told /\ channel'[c] = channel[c]
      /\ \A j \in Conns \ {k} : SameConn(j)
  BY DEF Reads, SameConn
<1>4. serving' = serving /\ newusers' = newusers /\ users' = users
  BY <1>3 DEF Alone, server, rooms
<1>5. Len(told[k]) \in Nat /\ Len(told[k]) # 0
  BY <1>1, TakesOnTrack DEF Reads
<1>6. PlaceOK(k) BY <1>2 DEF Places
<1>7. PlaceOK(k)'
  <2>1. ~Asks(k) /\ ~Asks(k)' BY <1>3, <1>5, <1>6 DEF PlaceOK, Asks
  <2>2. ~Waits(k) /\ ~Waits(k)' BY <1>2, <1>4, <1>6 DEF PlaceOK, Waits
  <2>3. CASE pc'[c] = "prompt"
    BY <1>2, <1>3, <1>4, <1>6, <2>1, <2>2, <2>3 DEF PlaceOK, In
  <2>4. CASE pc'[c] = "ended"
    <3>1. link'[k] # "open" /\ serving' # k BY <1>3, <1>4, <1>6, <2>4 DEF PlaceOK
    <3> QED BY <1>2, <2>1, <2>2, <3>1, RestsThere
  <2> QED BY <2>3, <2>4
<1>8. ASSUME NEW ch \in Channels, k \in users[ch] PROVE MemberOK(ch, k)'
  <2>1. MemberOK(ch, k) /\ LinkOK(k) BY <1>2, <1>8 DEF Members, Links
  <2>2. FALSE BY <1>1, <1>2, <2>1 DEF MemberOK, LinkOK, Replies, Loop
  <2> QED BY <2>2
<1> QED BY <1>1, <1>3, <1>7, <1>8, PlacesClient

(* A client that has read the reply to its JOIN is a member. *)
LEMMA PlacesReply ==
  ASSUME TypeOK, Links, Starts, Places, Queues, Members, Tracks, Shape, NEW c \in Clients,
         Reads(c), pc[c] \in Replies, pc'[c] = AfterReply[pc[c]]
  PROVE  Places' /\ Queues' /\ Members'
<1> PICK k : k = Conn(c) OBVIOUS
<1>1. pc[c] \in Active /\ pc[c] # "welcome" /\ pc[c] # "prompt" BY DEF Active, Replies
<1>2. k \in Conns /\ IsNow(k) /\ k[1] = c BY <1>1, ArrivesIs
<1>3. /\ Alone(c) /\ link' = link /\ up' = up /\ told' = told /\ channel'[c] = channel[c]
      /\ \A j \in Conns \ {k} : SameConn(j) /\ session'[c] = session[c]
  BY DEF Reads, SameConn
<1>4. serving' = serving /\ newusers' = newusers /\ users' = users
  BY <1>3 DEF Alone, server, rooms
<1>5. PlaceOK(k) /\ LinkOK(k) BY <1>2 DEF Places, Links
<1>6. ~Asks(k) /\ ~Waits(k) /\ serving # k
  <2>1. OnTrack(c) /\ Len(told[k]) \in Nat /\ At(c) + 1 \in 1..Len(told[k])
    BY <1>1, TakesOnTrack DEF Reads
  <2>2. pc[c] = "confirm" => Len(told[k]) # 1
    <3> SUFFICES ASSUME pc[c] = "confirm", Len(told[k]) = 1 PROVE FALSE OBVIOUS
    <3>1. At(c) = 1 BY <2>1 DEF OnTrack, Place, Loop
    <3>2. 1 + 1 \in 1..1 BY <2>1, <3>1
    <3> QED BY <3>2
  <2> QED BY <1>1, <1>2, <1>5, <2>2 DEF PlaceOK
<1>7. PlaceOK(k)'
  <2>1. ~Asks(k)' /\ ~Waits(k)' /\ serving' # k BY <1>3, <1>4, <1>6 DEF Asks, Waits
  <2>2. link'[k] = "open" => In(k)' BY <1>3, <1>4, <1>5, <1>6 DEF PlaceOK, In
  <2> QED BY <2>1, <2>2 DEF PlaceOK
<1>8. pc'[c] \in Replies \cup Loop BY DEF AfterReply, Replies, Loop
<1>9. ASSUME NEW ch \in Channels, k \in users[ch] PROVE MemberOK(ch, k)'
  <2>1. MemberOK(ch, k) BY <1>9 DEF Members
  <2>2. link[k] = "open" BY <1>1, <1>2, <1>5, <2>1 DEF MemberOK, LinkOK
  <2> QED BY <1>2, <1>3, <1>4, <1>8, <2>1, <2>2 DEF MemberOK
<1> QED BY <1>1, <1>3, <1>7, <1>9, PlacesClient

LEMMA PlacesMisses ==
  ASSUME TypeOK, Links, Starts, Places, Queues, Members, NEW c \in Clients, Misses(c)
  PROVE  Places' /\ Queues' /\ Members'
<1> PICK k : k = Conn(c) OBVIOUS
<1>1. /\ pc[c] \in Active /\ link[k] = "ended" /\ Alone(c) /\ \A j \in Conns : SameConn(j)
  BY DEF Misses, Active, Uses
<1>2. k \in Conns BY <1>1, ArrivesIs
<1>3. serving' = serving /\ newusers' = newusers /\ users' = users
  BY <1>1 DEF Alone, server, rooms
<1>4. ~Asks(k) /\ serving # k /\ ~Waits(k) BY <1>1, <1>2, AtRest DEF Places
<1>5. link'[k] # "open" /\ ~Asks(k)' /\ serving' # k /\ ~Waits(k)'
  BY <1>1, <1>2, <1>3, <1>4 DEF SameConn, Asks, Waits
<1>6. PlaceOK(k)' BY <1>2, <1>5, RestsThere
<1>7. \A ch \in Channels : k \notin users[ch] BY <1>1 DEF Members, MemberOK
<1> QED BY <1>1, <1>6, <1>7, PlacesClient

(* JOIN is written to a server that waits for it. *)
LEMMA PlacesJoins ==
  ASSUME TypeOK, Links, Starts, Places, Queues, Members, NEW c \in Clients, NEW ch \in Channels,
         Joins(c, ch)
  PROVE  Places' /\ Queues' /\ Members'
<1> PICK k : k = Conn(c) OBVIOUS
<1>1. /\ pc[c] = "prompt" /\ pc[c] \in Active /\ pc'[c] = "confirm" /\ channel'[c] = ch
      /\ link' = link /\ told' = told /\ read' = read /\ Alone(c)
      /\ \A j \in Conns \ {k} : up'[j] = up[j]
      /\ link[k] # "open" => up'[k] = up[k]
      /\ link[k] = "open" /\ up[k] = <<>> => up'[k] = <<Line("JOIN", k, ch, 0)>>
  BY DEF Joins, Active
<1>2. k \in Conns /\ IsNow(k) /\ k[1] = c BY <1>1, ArrivesIs
<1>3. \A j \in Conns \ {k} : SameConn(j) BY <1>1 DEF SameConn
<1>4. serving' = serving /\ newusers' = newusers /\ users' = users
  BY <1>1 DEF Alone, server, rooms
<1>5. PlaceOK(k) /\ LinkOK(k) BY <1>2 DEF Places, Links
<1>6. \A dh \in Channels : k \notin users[dh]
  BY <1>1, <1>2, <1>5 DEF Members, MemberOK, LinkOK, Replies, Loop
<1>7. ~Asks(k) /\ ~Waits(k) /\ ~In(k) /\ (link[k] = "open" => serving = k)
  BY <1>1, <1>2, <1>5, <1>6 DEF PlaceOK, In
<1>8. PlaceOK(k)'
  <2>1. CASE link[k] = "open"
    <3>1. serving = k /\ Len(told[k]) = 1 /\ up[k] = <<>>
      BY <1>1, <1>2, <1>5, <1>7, <2>1 DEF PlaceOK
    <3>2. up'[k] = <<Line("JOIN", k, ch, 0)>> BY <1>1, <2>1, <3>1
    <3>3. ~Asks(k)' /\ up'[k] # <<>>
      <4>1. <<Line("JOIN", k, ch, 0)>>[1].kind = "JOIN" BY <1>2, LineIs DEF Kinds
      <4> QED BY <3>2, <4>1 DEF Asks
    <3>4. ~Waits(k)' /\ ~In(k)' BY <1>4, <1>7 DEF Waits, In
    <3> QED BY <1>1, <1>2, <1>4, <2>1, <3>1, <3>2, <3>3, <3>4 DEF PlaceOK
  <2>2. CASE link[k] # "open"
    <3>1. serving # k BY <1>2, <1>5, <2>2, AtRest
    <3> QED BY <1>1, <1>2, <1>4, <1>7, <2>2, <3>1, RestsThere DEF Asks, Waits
  <2> QED BY <2>1, <2>2
<1> QED BY <1>1, <1>3, <1>6, <1>8, PlacesClient

LEMMA PlacesGoesOn ==
  ASSUME TypeOK, TypeOK', Links, Starts, Places, Queues, Members, NEW c \in Clients, GoesOn(c)
  PROVE  Places' /\ Queues' /\ Members'
<1> PICK k : k = Conn(c) OBVIOUS
<1>1. /\ pc[c] \in Loop /\ pc'[c] = "input" /\ Alone(c) /\ link' = link /\ told' = told
      /\ \A j \in Conns \ {k} : SameConn(j)
      /\ channel'[c] = channel[c]
      /\ up'[k] = up[k] \/ \E kind \in {"PRIVMSG", "TOPIC"} : Writes(k, kind)
  BY DEF GoesOn, Shows, SameConn
<1>2. /\ k \in Conns /\ pc[c] \in Active /\ ~Asks(k) /\ serving # k /\ ~Waits(k)
      /\ link[k] \in {"open", "ended"} /\ (link[k] = "open" => In(k)) /\ k[1] = c
  BY <1>1, InThere, ArrivesIs
<1>3. serving' = serving /\ newusers' = newusers /\ users' = users
  BY <1>1 DEF Alone, server, rooms
<1>4. ~Asks(k)'
  <2>1. CASE up'[k] = up[k] BY <1>2, <2>1 DEF Asks
  <2>2. ASSUME NEW kind \in {"PRIVMSG", "TOPIC"}, Writes(k, kind) PROVE ~Asks(k)'
    BY <1>2, <2>2, FirstStays DEF Spoken
  <2> QED BY <1>1, <2>1, <2>2
<1>5. PlaceOK(k)'
  <2>1. ~Waits(k)' /\ serving' # k /\ (link'[k] = "open" => In(k)')
    BY <1>1, <1>2, <1>3 DEF Waits, In
  <2> QED BY <1>4, <2>1 DEF PlaceOK
<1>6. ASSUME NEW ch \in Channels, k \in users[ch] PROVE MemberOK(ch, k)'
  <2>1. MemberOK(ch, k) BY <1>6 DEF Members
  <2>2. link[k] = "open" BY <1>2, <2>1 DEF MemberOK
  <2>3. pc'[c] \in Replies \cup Loop BY <1>1 DEF Loop
  <2> QED BY <1>1, <1>2, <1>3, <2>1, <2>2, <2>3 DEF MemberOK
<1>7. pc[c] # "confirm" BY <1>1 DEF Loop
<1> QED BY <1>1, <1>2, <1>5, <1>6, <1>7, PlacesClient

-----------------------------------------------------------------------------
(* The same for the steps of the server. *)

LEMMA SilentIs ==
  ASSUME Silent
  PROVE  /\ pc' = pc /\ session' = session /\ typed' = typed /\ sockMsgs' = sockMsgs
         /\ channel' = channel /\ channelName' = channelName /\ userChan' = userChan
         /\ channelTopic' = channelTopic /\ shown' = shown /\ read' = read
         /\ \A k : IsNow(k)' <=> IsNow(k)
<1>1. /\ pc' = pc /\ session' = session /\ typed' = typed /\ sockMsgs' = sockMsgs
      /\ channel' = channel /\ channelName' = channelName /\ userChan' = userChan
      /\ channelTopic' = channelTopic /\ shown' = shown /\ read' = read
  BY DEF Silent, client, display
<1> QED BY <1>1 DEF IsNow

(* A connection that the step is not about: if it is a member's it may be    *)
(* told of it.                                                               *)
LEMMA AsideServer ==
  ASSUME TypeOK, TypeOK', Places, Members, Silent, NEW j \in Conns,
         up'[j] = up[j], serving' = j <=> serving = j, Waits(j)' <=> Waits(j),
         \A ch \in Channels : j \in users'[ch] <=> j \in users[ch],
         ~In(j) => told'[j] = told[j] /\ link'[j] = link[j],
         Len(told[j]) <= Len(told'[j]),
         link'[j] = link[j] \/ (link[j] = "closed" /\ link'[j] = "reset")
  PROVE  PlaceOK(j)' /\ \A ch \in Channels : j \in users'[ch] => MemberOK(ch, j)'
<1>1. /\ pc' = pc /\ session' = session /\ channel' = channel /\ (IsNow(j)' <=> IsNow(j))
  BY SilentIs
<1>2. PlaceOK(j) BY DEF Places
<1>3. (In(j)' <=> In(j)) /\ (Asks(j)' <=> Asks(j)) BY DEF In, Asks
<1>4. PlaceOK(j)'
  <2>1. Asks(j)' => /\ link'[j] = "open" /\ pc'[j[1]] = "welcome" /\ Len(up'[j]) = 1
                    /\ Len(told'[j]) = 0 /\ serving' # j /\ ~Waits(j)' /\ ~In(j)'
    BY <1>1, <1>2, <1>3 DEF PlaceOK
  <2>2. serving' = j =>
          /\ link'[j] = "open" /\ Len(told'[j]) = 1 /\ ~Waits(j)' /\ ~In(j)'
          /\ \/ pc'[j[1]] \in {"welcome", "prompt"} /\ up'[j] = <<>>
             \/ pc'[j[1]] = "confirm" /\ up'[j] = <<Line("JOIN", j, channel'[j[1]], 0)>>
    BY <1>1, <1>2, <1>3 DEF PlaceOK
  <2>3. Waits(j)' => /\ link'[j] = "open" /\ pc'[j[1]] = "confirm" /\ up'[j] = <<>>
                     /\ Len(told'[j]) = 1 /\ ~In(j)'
    BY <1>1, <1>2, <1>3 DEF PlaceOK
  <2>4. link'[j] = "open" => Asks(j)' \/ serving' = j \/ Waits(j)' \/ In(j)'
    BY <1>2, <1>3 DEF PlaceOK
  <2>l. \A kind, from, chan, val : Line(kind, from, chan, val)' = Line(kind, from, chan, val)
    BY DEF Line
  <2> QED BY <2>1, <2>2, <2>3, <2>4 DEF PlaceOK, Line
<1>5. ASSUME NEW ch \in Channels, j \in users'[ch] PROVE MemberOK(ch, j)'
  <2>1. MemberOK(ch, j) BY <1>5 DEF Members
  <2>2. Len(told'[j]) \in Nat /\ Len(told[j]) \in Nat BY LenProperties DEF TypeOK
  <2>3. link'[j] = "open" => link[j] = "open" /\ Len(told'[j]) >= 5
    BY <2>1, <2>2 DEF MemberOK
  <2>4. link'[j] # "open" => link[j] # "open" /\ link'[j] \in {"closed", "reset"}
    BY <2>1 DEF MemberOK
  <2>5. \A dh \in Channels : j \in users'[dh] => dh = ch BY <2>1 DEF MemberOK
  <2> QED BY <1>1, <2>1, <2>3, <2>4, <2>5 DEF MemberOK
<1> QED BY <1>4, <1>5

LEMMA TakenTogether ==
  ASSUME TypeOK', \A j \in Conns :
           PlaceOK(j)' /\ \A ch \in Channels : j \in users'[ch] => MemberOK(ch, j)'
  PROVE  Places' /\ Members'
<1>1. \A ch \in Channels : users'[ch] \subseteq Conns BY DEF TypeOK
<1> QED BY <1>1 DEF Places, Members

LEMMA PlacesRegisters ==
  ASSUME TypeOK, TypeOK', Links, Starts, Places, Queues, Members, NEW k \in Conns, Registers(k)
  PROVE  Links' /\ Starts' /\ Stopped' /\ Places' /\ Queues' /\ Members'
<1>1. /\ running /\ serving = None /\ Asks(k)
      /\ up' = [up EXCEPT ![k] = <<>>]
      /\ \A j \in Conns \ {k} : told'[j] = told[j] /\ link'[j] = link[j]
      /\ \/ told'[k] = <<Line("001", None, None, 0)>> /\ serving' = k /\ link'[k] = link[k]
         \/ told'[k] = <<Line("464", None, None, 0)>> /\ serving' = None /\ link'[k] = "ended"
      /\ running' = running /\ newusers' = newusers /\ users' = users /\ Silent
  BY DEF Registers, rooms
<1>2. /\ link[k] = "open" /\ pc[k[1]] = "welcome" /\ ~Waits(k) /\ ~In(k)
  BY <1>1 DEF Places, PlaceOK
<1>3. up'[k] = <<>> /\ \A j \in Conns \ {k} : up'[j] = up[j] BY <1>1 DEF TypeOK
<1>4. pc' = pc /\ channel' = channel BY <1>1, SilentIs
<1>5. Links' /\ Starts' /\ Stopped'
  <2>1. \A j \in Conns :
           /\ link'[j] = link[j] \/ link'[j] = "ended" \/ (link[j] = "closed" /\ link'[j] = "reset")
           /\ link[j] = "none" => link'[j] = "none" /\ up'[j] = up[j]
           /\ link[j] # "open" => told'[j] = told[j]
    BY <1>1, <1>2, <1>3
  <2>2. Stopped' BY <1>1, StoppedRuns
  <2> QED BY <1>1, <2>1, <2>2, LinksServer
<1>6. ASSUME NEW j \in Conns, j # k
      PROVE  PlaceOK(j)' /\ \A ch \in Channels : j \in users'[ch] => MemberOK(ch, j)'
  <2>1. serving # j /\ serving' # j
    <3>1. None # j BY NoneAssumption
    <3> QED BY <1>1, <1>6, <3>1
  <2>2. Len(told[j]) <= Len(told'[j])
    <3>1. told'[j] = told[j] BY <1>1, <1>6
    <3> QED BY <3>1, ToldIs
  <2>3. told'[j] = told[j] /\ link'[j] = link[j] /\ up'[j] = up[j] BY <1>1, <1>3, <1>6
  <2>4. Waits(j)' <=> Waits(j) BY <1>1 DEF Waits
  <2>5. \A ch \in Channels : j \in users'[ch] <=> j \in users[ch] BY <1>1
  <2> QED BY <1>1, <2>1, <2>2, <2>3, <2>4, <2>5, AsideServer
<1>7. PlaceOK(k)' /\ \A ch \in Channels : k \notin users'[ch]
  <2>1. ~Asks(k)' /\ ~Waits(k)' /\ ~In(k)' BY <1>1, <1>2, <1>3 DEF Asks, Waits, In
  <2>2. CASE told'[k] = <<Line("001", None, None, 0)>> /\ serving' = k /\ link'[k] = link[k]
    <3>1. Len(told'[k]) = 1 BY <2>2
    <3> QED BY <1>2, <1>3, <1>4, <2>1, <2>2, <3>1 DEF PlaceOK, In
  <2>3. CASE serving' = None /\ link'[k] = "ended"
    <3>1. serving' # k /\ link'[k] # "open" BY <2>3, NoneAssumption
    <3> QED BY <2>1, <3>1, RestsThere DEF In
  <2> QED BY <1>1, <2>2, <2>3
<1>8. Queues' BY <1>1, <1>4 DEF Queues
<1>9. Places' /\ Members' BY <1>6, <1>7, TakenTogether
<1> QED BY <1>5, <1>8, <1>9

LEMMA PlacesReceives ==
  ASSUME TypeOK, TypeOK', Links, Starts, Places, Queues, Members, NEW k \in Conns, Receives(k)
  PROVE  Links' /\ Starts' /\ Stopped' /\ Places' /\ Queues' /\ Members'
<1> PICK ch : ch = channel[k[1]] OBVIOUS
<1>1. /\ running /\ serving = k /\ up[k] # <<>> /\ ch \in Channels
      /\ newusers' = [newusers EXCEPT ![ch] = Append(newusers[ch], k)]
      /\ up' = [up EXCEPT ![k] = <<>>] /\ serving' = None
      /\ link' = link /\ told' = told /\ running' = running /\ users' = users /\ Silent
  BY DEF Receives
<1>2. /\ link[k] = "open" /\ Len(told[k]) = 1 /\ ~Waits(k) /\ ~In(k) /\ pc[k[1]] = "confirm"
  BY <1>1 DEF Places, PlaceOK
<1>3. up'[k] = <<>> /\ \A j \in Conns \ {k} : up'[j] = up[j] BY <1>1 DEF TypeOK
<1>4. pc' = pc /\ channel' = channel BY <1>1, SilentIs
<1>5. Links' /\ Starts' /\ Stopped'
  <2>1. \A j \in Conns :
           /\ link'[j] = link[j] \/ link'[j] = "ended" \/ (link[j] = "closed" /\ link'[j] = "reset")
           /\ link[j] = "none" => link'[j] = "none" /\ up'[j] = up[j]
           /\ link[j] # "open" => told'[j] = told[j]
    BY <1>1, <1>2, <1>3
  <2>2. Stopped' BY <1>1, StoppedRuns
  <2> QED BY <1>1, <2>1, <2>2, LinksServer
<1>6. /\ newusers'[ch] = Append(newusers[ch], k) /\ newusers[ch] \in Seq(Conns)
      /\ \A dh \in Channels \ {ch} : newusers'[dh] = newusers[dh]
  BY <1>1 DEF TypeOK
<1>7. k \notin ToSet(newusers[ch]) BY <1>1, <1>2 DEF Waits
<1>8. /\ ToSet(newusers'[ch]) = ToSet(newusers[ch]) \cup {k} /\ IsInjective(newusers'[ch])
  BY <1>1, <1>6, <1>7, AppendIs DEF Queues
<1>9. Queues'
  <2> SUFFICES ASSUME NEW dh \in Channels
               PROVE  /\ IsInjective(newusers'[dh])
                      /\ \A j \in ToSet(newusers'[dh]) : channel'[j[1]] = dh
    BY DEF Queues
  <2>1. CASE dh = ch BY <1>4, <1>8, <2>1 DEF Queues
  <2>2. CASE dh # ch
    <3>1. newusers'[dh] = newusers[dh] BY <1>6, <2>2
    <3> QED BY <1>4, <3>1 DEF Queues
  <2> QED BY <2>1, <2>2
<1>10. ASSUME NEW j \in Conns, j # k
       PROVE  PlaceOK(j)' /\ \A dh \in Channels : j \in users'[dh] => MemberOK(dh, j)'
  <2>1. serving # j /\ serving' # j
    <3>1. None # j BY NoneAssumption
    <3> QED BY <1>1, <1>10, <3>1
  <2>2. Len(told[j]) <= Len(told'[j])
    <3>1. told'[j] = told[j] BY <1>1
    <3> QED BY <3>1, ToldIs
  <2>3. told'[j] = told[j] /\ link'[j] = link[j] /\ up'[j] = up[j] BY <1>1, <1>3, <1>10
  <2>4. Waits(j)' <=> Waits(j)
    <3>1. \A dh \in Channels : j \in ToSet(newusers'[dh]) <=> j \in ToSet(newusers[dh])
      BY <1>6, <1>8, <1>10
    <3> QED BY <3>1 DEF Waits
  <2>5. \A dh \in Channels : j \in users'[dh] <=> j \in users[dh] BY <1>1
  <2> QED BY <1>1, <2>1, <2>2, <2>3, <2>4, <2>5, AsideServer
<1>11. PlaceOK(k)' /\ \A dh \in Channels : k \notin users'[dh]
  <2>1. Waits(k)' BY <1>1, <1>8 DEF Waits
  <2>2. ~Asks(k)' /\ ~In(k)' /\ serving' # k
    BY <1>1, <1>2, <1>3, NoneAssumption DEF Asks, In
  <2>3. link'[k] = "open" /\ pc'[k[1]] = "confirm" /\ up'[k] = <<>> /\ Len(told'[k]) = 1
    BY <1>1, <1>2, <1>3, <1>4
  <2> QED BY <2>1, <2>2, <2>3 DEF PlaceOK, In
<1>12. Places' /\ Members' BY <1>10, <1>11, TakenTogether
<1> QED BY <1>5, <1>9, <1>12

LEMMA PlacesGreets ==
  ASSUME TypeOK, TypeOK', Links, Starts, Places, Queues, Members,
         NEW ch \in Channels, NEW k, Greets(ch, k)
  PROVE  Links' /\ Starts' /\ Stopped' /\ Places' /\ Queues' /\ Members'
<1>1. /\ running /\ k \in Conns /\ newusers[ch] # <<>> /\ k = newusers[ch][1]
      /\ newusers' = [newusers EXCEPT ![ch] = Tail(newusers[ch])]
      /\ users' = [users EXCEPT ![ch] = users[ch] \cup {k}]
      /\ Spread(Conns \ {k}, users[ch], Line("JOIN", k, ch, 0))
      /\ link'[k] = link[k] /\ Len(told'[k]) = 5
      /\ up' = up /\ serving' = serving /\ running' = running /\ Silent
  BY DEF Greets
<1>2. /\ newusers'[ch] = Tail(newusers[ch]) /\ newusers[ch] \in Seq(Conns)
      /\ \A dh \in Channels \ {ch} : newusers'[dh] = newusers[dh]
  BY <1>1 DEF TypeOK
<1>3. /\ k \in ToSet(newusers[ch]) /\ IsInjective(newusers'[ch])
      /\ ToSet(newusers'[ch]) = ToSet(newusers[ch]) \ {k}
  <2>1. /\ k = Head(newusers[ch]) /\ ToSet(newusers[ch]) = {k} \cup ToSet(Tail(newusers[ch]))
        /\ IsInjective(Tail(newusers[ch])) /\ k \notin ToSet(Tail(newusers[ch]))
    BY <1>1, <1>2, TailIs DEF Queues
  <2> QED BY <1>2, <2>1
<1>4. Waits(k) BY <1>3 DEF Waits
<1>5. /\ link[k] = "open" /\ pc[k[1]] = "confirm" /\ up[k] = <<>> /\ ~In(k) /\ channel[k[1]] = ch
      /\ serving # k
  BY <1>1, <1>3, <1>4 DEF Places, PlaceOK, Queues
<1>6. pc' = pc /\ channel' = channel BY <1>1, SilentIs
<1>7. /\ users'[ch] = users[ch] \cup {k} /\ \A dh \in Channels \ {ch} : users'[dh] = users[dh]
  BY <1>1 DEF TypeOK
<1>8. ASSUME NEW j \in Conns, j # k
      PROVE  /\ IF j \in users[ch] /\ link[j] = "open" THEN Gets(j, Line("JOIN", k, ch, 0))
                ELSE told'[j] = told[j]
             /\ link'[j] = IF j \in users[ch] /\ link[j] = "closed" THEN "reset" ELSE link[j]
  BY <1>1, <1>8 DEF Spread
<1>9. Links' /\ Starts' /\ Stopped'
  <2>1. ASSUME NEW j \in Conns
        PROVE  /\ link'[j] = link[j] \/ link'[j] = "ended"
                  \/ (link[j] = "closed" /\ link'[j] = "reset")
               /\ link[j] = "none" => link'[j] = "none" /\ up'[j] = up[j]
               /\ link[j] # "open" => told'[j] = told[j]
    <3>1. CASE j = k BY <1>1, <1>5, <3>1
    <3>2. CASE j # k BY <1>1, <1>8, <3>2
    <3> QED BY <3>1, <3>2
  <2>2. Stopped' BY <1>1, StoppedRuns
  <2> QED BY <1>1, <2>1, <2>2, LinksServer
<1>10. Queues'
  <2> SUFFICES ASSUME NEW dh \in Channels
               PROVE  /\ IsInjective(newusers'[dh])
                      /\ \A j \in ToSet(newusers'[dh]) : channel'[j[1]] = dh
    BY DEF Queues
  <2>1. CASE dh = ch BY <1>3, <1>6, <2>1 DEF Queues
  <2>2. CASE dh # ch
    <3>1. newusers'[dh] = newusers[dh] BY <1>2, <2>2
    <3> QED BY <1>6, <3>1 DEF Queues
  <2> QED BY <2>1, <2>2
<1>11. ASSUME NEW j \in Conns, j # k
       PROVE  PlaceOK(j)' /\ \A dh \in Channels : j \in users'[dh] => MemberOK(dh, j)'
  <2>1. Len(told[j]) <= Len(told'[j]) BY <1>1, <1>11, SpreadTypes
  <2>2. /\ link'[j] = link[j] \/ (link[j] = "closed" /\ link'[j] = "reset")
        /\ ~In(j) => told'[j] = told[j] /\ link'[j] = link[j]
    BY <1>8, <1>11 DEF In
  <2>3. Waits(j)' <=> Waits(j)
    <3>1. \A dh \in Channels : j \in ToSet(newusers'[dh]) <=> j \in ToSet(newusers[dh])
      BY <1>2, <1>3, <1>11
    <3> QED BY <3>1 DEF Waits
  <2>4. \A dh \in Channels : j \in users'[dh] <=> j \in users[dh] BY <1>7, <1>11
  <2>5. up'[j] = up[j] /\ (serving' = j <=> serving = j) BY <1>1
  <2> QED BY <1>1, <2>1, <2>2, <2>3, <2>4, <2>5, AsideServer
<1>12. PlaceOK(k)' /\ \A dh \in Channels : k \in users'[dh] => MemberOK(dh, k)'
  <2>1. ~Asks(k)' /\ serving' # k BY <1>1, <1>5 DEF Asks
  <2>2. ~Waits(k)'
    <3>1. ASSUME NEW dh \in Channels PROVE k \notin ToSet(newusers'[dh])
      <4>1. CASE dh = ch BY <1>3, <4>1
      <4>2. CASE dh # ch
        <5>1. newusers'[dh] = newusers[dh] BY <1>2, <4>2
        <5> QED BY <1>5, <4>2, <5>1 DEF Queues
      <4> QED BY <4>1, <4>2
    <3> QED BY <3>1 DEF Waits
  <2>3. In(k)' BY <1>7 DEF In
  <2>4. PlaceOK(k)' BY <2>1, <2>2, <2>3 DEF PlaceOK
  <2>5. \A dh \in Channels : k \in users'[dh] => dh = ch BY <1>5, <1>7 DEF In
  <2>6. MemberOK(ch, k)' BY <1>1, <1>5, <1>6, <2>5 DEF MemberOK, Replies
  <2> QED BY <2>4, <2>5, <2>6
<1>13. Places' /\ Members' BY <1>11, <1>12, TakenTogether
<1> QED BY <1>9, <1>10, <1>13

(* The rest of what k has written, after its first line. *)
LEMMA TakeupIs ==
  ASSUME TypeOK, TypeOK', Members, Said, NEW ch \in Channels, NEW k \in Conns, NEW l, Takeup(ch, k,
         l)
  PROVE  /\ up'[k] = Tail(up[k]) /\ \A j \in Conns \ {k} : up'[j] = up[j]
         /\ Len(up[k]) \in Nat /\ Len(up'[k]) = Len(up[k]) - 1
         /\ DOMAIN up[k] = 1..Len(up[k]) /\ DOMAIN up'[k] = 1..Len(up'[k])
         /\ 1 \in DOMAIN up[k]
         /\ \A i \in DOMAIN up'[k] : i + 1 \in DOMAIN up[k] /\ up'[k][i] = up[k][i + 1]
         /\ up'[k] # <<>> => 1 \in DOMAIN up'[k] /\ 2 \in DOMAIN up[k] /\ up'[k][1] = up[k][2]
         /\ l.kind \in Spoken /\ l.from = k /\ l.chan = ch /\ l.val > 0 /\ l.val \in Nat
         /\ ~Asks(k) /\ ~Asks(k)' /\ MemberOK(ch, k)
<1>1. /\ k \in users[ch] /\ up[k] # <<>> /\ l = up[k][1] /\ l \in Lines
      /\ up' = [up EXCEPT ![k] = Tail(up[k])]
  BY DEF Takeup
<1>2. up[k] \in Seq(Lines) /\ up'[k] = Tail(up[k]) /\ \A j \in Conns \ {k} : up'[j] = up[j]
  BY <1>1 DEF TypeOK
<1>3. /\ Len(up[k]) \in Nat /\ Len(up'[k]) = Len(up[k]) - 1 /\ up'[k] \in Seq(Lines)
      /\ DOMAIN up'[k] = 1..(Len(up[k]) - 1) /\ 1 \in DOMAIN up[k]
      /\ \A i \in 1..(Len(up[k]) - 1) : i + 1 \in DOMAIN up[k] /\ up'[k][i] = up[k][i + 1]
  <2>s. PICK s : s = up[k] OBVIOUS
  <2>1. s \in Seq(Lines) /\ s # <<>> /\ up'[k] = Tail(s) BY <2>s, <1>1, <1>2
  <2>2. /\ Len(s) \in Nat /\ Len(Tail(s)) = Len(s) - 1 /\ Tail(s) \in Seq(Lines)
        /\ DOMAIN Tail(s) = 1..(Len(s) - 1) /\ 1 \in DOMAIN s
        /\ \A i \in 1..(Len(s) - 1) : i + 1 \in DOMAIN s /\ Tail(s)[i] = s[i + 1]
    BY <2>1, TailIs
  <2> QED BY <2>s, <2>1, <2>2
<1>4. DOMAIN up[k] = 1..Len(up[k]) /\ DOMAIN up'[k] = 1..Len(up'[k]) BY <1>2, <1>3, LenProperties
<1>5. \A i \in DOMAIN up'[k] : i + 1 \in DOMAIN up[k] /\ up'[k][i] = up[k][i + 1] BY <1>3
<1>6. up'[k] # <<>> => 1 \in DOMAIN up'[k] /\ 2 \in DOMAIN up[k] /\ up'[k][1] = up[k][2]
  <2> SUFFICES ASSUME up'[k] # <<>>
      PROVE 1 \in DOMAIN up'[k] /\ 2 \in DOMAIN up[k] /\ up'[k][1] = up[k][2]
    OBVIOUS
  <2>1. Len(up'[k]) # 0 /\ Len(up'[k]) \in Nat BY <1>3, EmptySeq, LenProperties
  <2>2. 1 \in DOMAIN up'[k] BY <1>4, <2>1
  <2>3. 1 + 1 \in DOMAIN up[k] /\ up'[k][1] = up[k][1 + 1] BY <1>5, <2>2
  <2>4. 1 + 1 = 2 OBVIOUS
  <2> QED BY <2>2, <2>3, <2>4
<1>7. SaidOK(ch, k) /\ MemberOK(ch, k) BY <1>1 DEF Said, Members
<1>8. l.kind \in Spoken /\ l.from = k /\ l.chan = ch /\ l.val > 0 /\ l.val \in Nat
  BY <1>1, <1>3, <1>7 DEF SaidOK, Lines
<1>9. ~Asks(k) BY <1>1, <1>8 DEF Asks, Spoken
<1>10. ~Asks(k)'
  <2> SUFFICES ASSUME up'[k] # <<>> PROVE up'[k][1].kind # "USERINFO" BY DEF Asks
  <2>1. up'[k][1].kind \in Spoken BY <1>6, <1>7 DEF SaidOK
  <2> QED BY <2>1 DEF Spoken
<1> QED BY <1>2, <1>3, <1>4, <1>5, <1>6, <1>7, <1>8, <1>9, <1>10

LEMMA PlacesSpeaks ==
  ASSUME TypeOK, TypeOK', Links, Starts, Places, Queues, Members, Said,
         NEW ch \in Channels, NEW k \in Conns, NEW l, Speaks(ch, k, l)
  PROVE  Links' /\ Starts' /\ Stopped' /\ Places' /\ Queues' /\ Members'
<1>1. /\ Takeup(ch, k, l) /\ running' /\ serving' = serving /\ newusers' = newusers
      /\ users' = users
      /\ k \in users[ch] /\ up[k] # <<>> /\ l = up[k][1] /\ l.kind \in {"PRIVMSG", "TOPIC"}
      /\ Silent
  BY DEF Speaks, Takeup
<1>t. PICK T : T = IF l.kind = "PRIVMSG" THEN users[ch] \ {k} ELSE users[ch] OBVIOUS
<1>2. Spread(Conns, T, l) BY <1>1, <1>t DEF Speaks
<1>3. T \subseteq users[ch] BY <1>t
<1>4. ASSUME NEW j \in Conns
      PROVE  /\ IF j \in T /\ link[j] = "open" THEN Gets(j, l) ELSE told'[j] = told[j]
             /\ link'[j] = IF j \in T /\ link[j] = "closed" THEN "reset" ELSE link[j]
  BY <1>2 DEF Spread
<1>5. /\ ~Asks(k) /\ ~Asks(k)' /\ MemberOK(ch, k) /\ 1 \in DOMAIN up[k]
      /\ \A j \in Conns \ {k} : up'[j] = up[j]
      /\ Len(up[k]) \in Nat /\ Len(up'[k]) = Len(up[k]) - 1
      /\ DOMAIN up[k] = 1..Len(up[k]) /\ DOMAIN up'[k] = 1..Len(up'[k])
      /\ \A i \in DOMAIN up'[k] : i + 1 \in DOMAIN up[k] /\ up'[k][i] = up[k][i + 1]
  BY <1>1, TakeupIs
<1>6. pc' = pc /\ channel' = channel /\ (IsNow(k)' <=> IsNow(k)) BY <1>1, SilentIs
<1>7. Links' /\ Starts' /\ Stopped'
  <2>1. ASSUME NEW j \in Conns
        PROVE  /\ link'[j] = link[j] \/ link'[j] = "ended"
                  \/ (link[j] = "closed" /\ link'[j] = "reset")
               /\ link[j] = "none" => link'[j] = "none" /\ up'[j] = up[j]
               /\ link[j] # "open" => told'[j] = told[j]
    <3>1. link[k] # "none" BY <1>5 DEF MemberOK
    <3> QED BY <1>4, <1>5, <3>1
  <2>2. Stopped' BY <1>1, StoppedRuns
  <2> QED BY <1>1, <2>1, <2>2, LinksServer
<1>8. Queues' BY <1>1, <1>6 DEF Queues
<1>9. ASSUME NEW j \in Conns
      PROVE  /\ Len(told[j]) <= Len(told'[j])
             /\ link'[j] = link[j] \/ (link[j] = "closed" /\ link'[j] = "reset")
             /\ ~In(j) => told'[j] = told[j] /\ link'[j] = link[j]
             /\ (Waits(j)' <=> Waits(j)) /\ (In(j)' <=> In(j))
  <2>1. Len(told[j]) <= Len(told'[j]) BY <1>2, SpreadTypes
  <2> QED BY <1>1, <1>3, <1>4, <2>1 DEF Waits, In
<1>10. ASSUME NEW j \in Conns, j # k
       PROVE  PlaceOK(j)' /\ \A dh \in Channels : j \in users'[dh] => MemberOK(dh, j)'
  BY <1>1, <1>5, <1>9, <1>10, AsideServer
<1>11. PlaceOK(k)' /\ \A dh \in Channels : k \in users'[dh] => MemberOK(dh, k)'
  <2>1. In(k) BY <1>1 DEF In
  <2>2. PlaceOK(k) /\ serving # k /\ ~Waits(k)
    <3>1. PlaceOK(k) BY DEF Places
    <3> QED BY <2>1, <3>1 DEF PlaceOK
  <2>3. serving' # k /\ ~Waits(k)' /\ In(k)' BY <1>1, <1>9, <2>1, <2>2
  <2>4. PlaceOK(k)' BY <1>5, <2>3 DEF PlaceOK
  <2>5. \A dh \in Channels : k \in users'[dh] => dh = ch BY <1>1, <1>5 DEF MemberOK
  <2>6. Len(told'[k]) \in Nat /\ Len(told[k]) \in Nat BY LenProperties DEF TypeOK
  <2>7. link'[k] = "open" => link[k] = "open" /\ Len(told'[k]) >= 5
    BY <1>5, <1>9, <2>6 DEF MemberOK
  <2>8. link'[k] # "open" =>
          /\ link[k] # "open" /\ link'[k] \in {"closed", "reset"}
          /\ (IsNow(k)' /\ pc'[k[1]] = "failed") \/ \E i \in DOMAIN up'[k] : up'[k][i].kind = "PART"
    <3> SUFFICES ASSUME link'[k] # "open"
                 PROVE  /\ link[k] # "open" /\ link'[k] \in {"closed", "reset"}
                        /\ \/ IsNow(k)' /\ pc'[k[1]] = "failed"
                           \/ \E i \in DOMAIN up'[k] : up'[k][i].kind = "PART"
      OBVIOUS
    <3>1. link[k] # "open" /\ link'[k] \in {"closed", "reset"} BY <1>5, <1>9 DEF MemberOK
    <3>2. CASE IsNow(k) /\ pc[k[1]] = "failed" BY <1>6, <3>1, <3>2
    <3>3. ASSUME NEW i \in DOMAIN up[k], up[k][i].kind = "PART"
          PROVE  \E m \in DOMAIN up'[k] : up'[k][m].kind = "PART"
      <4>1. i # 1 BY <1>1, <3>3
      <4>2. i - 1 \in DOMAIN up'[k] /\ (i - 1) + 1 = i BY <1>5, <4>1
      <4>3. up'[k][i - 1] = up[k][i] BY <1>5, <4>2
      <4> QED BY <3>3, <4>2, <4>3
    <3> QED BY <1>5, <3>1, <3>2, <3>3 DEF MemberOK
  <2>9. MemberOK(ch, k)' BY <1>5, <1>6, <2>5, <2>7, <2>8 DEF MemberOK
  <2> QED BY <2>4, <2>5, <2>9
<1>12. Places' /\ Members' BY <1>10, <1>11, TakenTogether
<1> QED BY <1>7, <1>8, <1>12

LEMMA PlacesParts ==
  ASSUME TypeOK, TypeOK', Links, Starts, Places, Queues, Members, Said,
         NEW ch \in Channels, NEW k \in Conns, NEW l, Parts(ch, k, l)
  PROVE  Links' /\ Starts' /\ Stopped' /\ Places' /\ Queues' /\ Members'
<1>1. /\ Takeup(ch, k, l) /\ running' /\ serving' = serving /\ newusers' = newusers
      /\ users' = [users EXCEPT ![ch] = @ \ {k}]
      /\ k \in users[ch] /\ link'[k] = "ended" /\ told'[k] = told[k] /\ Silent
      /\ Spread(Conns \ {k}, users[ch] \ {k}, l)
  BY DEF Parts, Takeup
<1>2. /\ users'[ch] = users[ch] \ {k} /\ \A dh \in Channels \ {ch} : users'[dh] = users[dh]
  BY <1>1 DEF TypeOK
<1>3. ASSUME NEW j \in Conns, j # k
      PROVE  /\ IF j \in users[ch] /\ link[j] = "open" THEN Gets(j, l) ELSE told'[j] = told[j]
             /\ link'[j] = IF j \in users[ch] /\ link[j] = "closed" THEN "reset" ELSE link[j]
  BY <1>1, <1>3 DEF Spread
<1>4. ~Asks(k) /\ ~Asks(k)' /\ MemberOK(ch, k) /\ \A j \in Conns \ {k} : up'[j] = up[j]
  BY <1>1, TakeupIs
<1>5. pc' = pc /\ channel' = channel BY <1>1, SilentIs
<1>6. Links' /\ Starts' /\ Stopped'
  <2>1. ASSUME NEW j \in Conns
        PROVE  /\ link'[j] = link[j] \/ link'[j] = "ended"
                  \/ (link[j] = "closed" /\ link'[j] = "reset")
               /\ link[j] = "none" => link'[j] = "none" /\ up'[j] = up[j]
               /\ link[j] # "open" => told'[j] = told[j]
    <3>1. CASE j = k BY <1>1, <1>4, <3>1 DEF MemberOK
    <3>2. CASE j # k BY <1>3, <1>4, <3>2
    <3> QED BY <3>1, <3>2
  <2>2. Stopped' BY <1>1, StoppedRuns
  <2> QED BY <1>1, <2>1, <2>2, LinksServer
<1>7. Queues' BY <1>1, <1>5 DEF Queues
<1>8. ASSUME NEW j \in Conns, j # k
      PROVE  PlaceOK(j)' /\ \A dh \in Channels : j \in users'[dh] => MemberOK(dh, j)'
  <2>1. Len(told[j]) <= Len(told'[j]) BY <1>1, <1>8, SpreadTypes
  <2>2. /\ link'[j] = link[j] \/ (link[j] = "closed" /\ link'[j] = "reset")
        /\ ~In(j) => told'[j] = told[j] /\ link'[j] = link[j]
    BY <1>3, <1>8 DEF In
  <2>3. Waits(j)' <=> Waits(j) BY <1>1 DEF Waits
  <2>4. \A dh \in Channels : j \in users'[dh] <=> j \in users[dh] BY <1>2, <1>8
  <2>5. up'[j] = up[j] /\ (serving' = j <=> serving = j) BY <1>1, <1>4, <1>8
  <2> QED BY <1>1, <2>1, <2>2, <2>3, <2>4, <2>5, AsideServer
<1>9. PlaceOK(k)' /\ \A dh \in Channels : k \notin users'[dh]
  <2>1. In(k) BY <1>1 DEF In
  <2>2. serving # k /\ ~Waits(k)
    <3>1. PlaceOK(k) BY DEF Places
    <3> QED BY <2>1, <3>1 DEF PlaceOK
  <2>3. serving' # k /\ ~Waits(k)' /\ link'[k] # "open" BY <1>1, <2>2 DEF Waits
  <2>4. PlaceOK(k)' BY <1>4, <2>3, RestsThere
  <2>5. ASSUME NEW dh \in Channels PROVE k \notin users'[dh] BY <1>2, <1>4 DEF MemberOK
  <2> QED BY <2>4, <2>5
<1>10. Places' /\ Members' BY <1>8, <1>9, TakenTogether
<1> QED BY <1>6, <1>7, <1>10

(* The connections of a thread end with it. *)
LEMMA PlacesThreadEnds ==
  ASSUME TypeOK, TypeOK', Links, Starts, Places, Queues, Members,
         NEW ch \in Channels, ThreadEnds(ch)
  PROVE  Links' /\ Starts' /\ Stopped' /\ Places' /\ Queues' /\ Members'
<1>1. /\ running /\ running' = running
      /\ link' = [k \in Conns |-> IF k \in users[ch] THEN "ended" ELSE link[k]]
      /\ users' = [users EXCEPT ![ch] = {}]
      /\ up' = up /\ told' = told /\ serving' = serving /\ newusers' = newusers /\ Silent
  BY DEF ThreadEnds, Alive, Silent
<1>2. users'[ch] = {} /\ \A dh \in Channels \ {ch} : users'[dh] = users[dh] BY <1>1 DEF TypeOK
<1>3. Links' /\ Starts' /\ Stopped'
  <2>1. ASSUME NEW j \in Conns
        PROVE  /\ link'[j] = link[j] \/ link'[j] = "ended"
                  \/ (link[j] = "closed" /\ link'[j] = "reset")
               /\ link[j] = "none" => link'[j] = "none" /\ up'[j] = up[j]
               /\ link[j] # "open" => told'[j] = told[j]
    <3>1. j \in users[ch] => link[j] # "none" BY DEF Members, MemberOK
    <3> QED BY <1>1, <3>1
  <2>2. Stopped' BY <1>1, StoppedRuns
  <2> QED BY <1>1, <2>1, <2>2, LinksServer
<1>4. Queues'
  <2>1. channel' = channel BY <1>1, SilentIs
  <2> QED BY <1>1, <2>1 DEF Queues
<1>5. ASSUME NEW j \in Conns
      PROVE  PlaceOK(j)' /\ \A dh \in Channels : j \in users'[dh] => MemberOK(dh, j)'
  <2>1. Waits(j)' <=> Waits(j) BY <1>1 DEF Waits
  <2>2. CASE j \in users[ch]
    <3>1. In(j) /\ MemberOK(ch, j) /\ PlaceOK(j) BY <2>2 DEF In, Members, Places
    <3>2. ~Asks(j) /\ serving # j /\ ~Waits(j) BY <3>1 DEF PlaceOK
    <3>3. link'[j] # "open" /\ ~Asks(j)' /\ serving' # j /\ ~Waits(j)'
      BY <1>1, <2>1, <2>2, <3>2 DEF Asks
    <3>4. \A dh \in Channels : j \notin users'[dh] BY <1>2, <3>1 DEF MemberOK
    <3> QED BY <3>3, <3>4, RestsThere
  <2>3. CASE j \notin users[ch]
    <3>1. \A dh \in Channels : j \in users'[dh] <=> j \in users[dh] BY <1>2, <2>3
    <3>2. link'[j] = link[j] BY <1>1, <2>3
    <3>3. Len(told[j]) <= Len(told'[j])
      <4>1. told'[j] = told[j] BY <1>1
      <4> QED BY <4>1, ToldIs
    <3>4. up'[j] = up[j] /\ (serving' = j <=> serving = j) /\ told'[j] = told[j] BY <1>1
    <3> QED BY <1>1, <2>1, <3>1, <3>2, <3>3, <3>4, AsideServer
  <2> QED BY <2>2, <2>3
<1>6. Places' /\ Members' BY <1>5, TakenTogether
<1> QED BY <1>3, <1>4, <1>6

LEMMA PlacesServerStops ==
  ASSUME TypeOK, TypeOK', Links, Starts, Places, Queues, Members, ServerStops
  PROVE  Links' /\ Starts' /\ Stopped' /\ Places' /\ Queues' /\ Members'
<1>1. /\ running' = FALSE /\ serving' = None /\ told' = told /\ Silent
      /\ \A k \in Conns : link'[k] = (IF link[k] = "none" THEN "none" ELSE "ended") /\ up'[k] = <<>>
      /\ \A ch \in Channels : newusers'[ch] = <<>> /\ users'[ch] = {}
  BY DEF ServerStops, Silent
<1>2. Links' /\ Starts'
  <2>1. ASSUME NEW j \in Conns
        PROVE  /\ link'[j] = link[j] \/ link'[j] = "ended"
                  \/ (link[j] = "closed" /\ link'[j] = "reset")
               /\ link[j] = "none" => link'[j] = "none" /\ up'[j] = up[j]
               /\ link[j] # "open" => told'[j] = told[j]
    <3>1. LinkOK(j) BY DEF Links
    <3> QED BY <1>1, <3>1 DEF LinkOK
  <2> QED BY <1>1, <2>1, LinksServer
<1>3. Stopped' BY <1>1 DEF Stopped
<1>4. Queues'
  <2> SUFFICES ASSUME NEW ch \in Channels
               PROVE  /\ IsInjective(newusers'[ch])
                      /\ \A j \in ToSet(newusers'[ch]) : channel'[j[1]] = ch
    BY DEF Queues
  <2>1. newusers'[ch] = <<>> BY <1>1
  <2>2. IsInjective(<<>>) /\ ToSet(<<>>) = {} BY NothingIn
  <2> QED BY <2>1, <2>2
<1>5. ASSUME NEW j \in Conns
      PROVE  PlaceOK(j)' /\ \A dh \in Channels : j \in users'[dh] => MemberOK(dh, j)'
  <2>1. link'[j] # "open" /\ ~Asks(j)' BY <1>1 DEF Asks
  <2>2. serving' # j BY <1>1, NoneAssumption
  <2>3. ~Waits(j)'
    <3>1. \A ch \in Channels : ToSet(newusers'[ch]) = {} BY <1>1, NothingIn
    <3> QED BY <3>1 DEF Waits
  <2>4. \A dh \in Channels : j \notin users'[dh] BY <1>1
  <2> QED BY <2>1, <2>2, <2>3, <2>4, RestsThere
<1>6. Places' /\ Members' BY <1>5, TakenTogether
<1> QED BY <1>2, <1>3, <1>4, <1>6

-----------------------------------------------------------------------------
(* What a client is told: the replies, in their places, and then the chat of *)
(* its channel.                                                              *)

Fits(k) == ToldOK(k) /\ \A ch \in Channels : k \in users[ch] =>
                          \A i \in DOMAIN told[k] : told[k][i].chan \in {ch, None}

LEMMA FitsThere ==
  ASSUME TypeOK, Shape, Chans, NEW k \in Conns
  PROVE  Fits(k)
BY DEF Fits, Shape, Chans

LEMMA FitsTogether ==
  ASSUME TypeOK', \A k \in Conns : Fits(k)'
  PROVE  Shape' /\ Chans'
<1>1. \A ch \in Channels : users'[ch] \subseteq Conns BY DEF TypeOK
<1> QED BY <1>1 DEF Fits, Shape, Chans

LEMMA FitsKept ==
  ASSUME NEW k \in Conns, Fits(k), told'[k] = told[k],
         link[k] = "ended" => link'[k] = "ended",
         \A ch \in Channels : k \in users'[ch] => k \in users[ch]
  PROVE  Fits(k)'
<1>1. \A line : TopicOf(line)' = TopicOf(line) BY DEF TopicOf
<1>2. ToldOK(k)' BY <1>1 DEF Fits, ToldOK
<1> QED BY <1>2 DEF Fits

LEMMA FitsNothing ==
  ASSUME NEW k \in Conns, told'[k] = <<>>
  PROVE  Fits(k)'
<1>1. DOMAIN told'[k] = {} BY NothingIn
<1> QED BY <1>1 DEF Fits, ToldOK

LEMMA FitsClient ==
  ASSUME TypeOK, TypeOK', Shape, Chans, NEW c \in Clients, Alone(c),
         \A k \in Conns :
           told'[k] = <<>> \/ (told'[k] = told[k] /\ (link[k] = "ended" => link'[k] = "ended"))
  PROVE  Shape' /\ Chans'
<1>1. users' = users BY DEF Alone, server, rooms
<1>2. ASSUME NEW k \in Conns PROVE Fits(k)'
  <2>1. Fits(k) BY FitsThere
  <2> QED BY <1>1, <2>1, FitsKept, FitsNothing
<1> QED BY <1>2, FitsTogether

LEMMA FitsOpens ==
  ASSUME TypeOK, TypeOK', Links, Starts, Shape, Chans, NEW c \in Clients, Opens(c)
  PROVE  Shape' /\ Chans'
<1>1. Alone(c) /\ session[c] \in Nat BY DEF Opens, TypeOK
<1>2. ASSUME NEW k \in Conns
      PROVE  told'[k] = <<>> \/ (told'[k] = told[k] /\ (link[k] = "ended" => link'[k] = "ended"))
  <2>1. CASE k[1] # c \/ k[2] \notin {session[c], session[c] + 1}
    BY <2>1 DEF Opens, SameConn
  <2>2. CASE k[1] = c /\ k[2] = session[c] + 1
    <3>1. told[k] = <<>> BY <1>1, <2>2 DEF Links, LinkOK
    <3> QED BY <2>2, <3>1 DEF Opens
  <2>3. CASE k[1] = c /\ k[2] = session[c] BY <2>3 DEF Opens, Hears
  <2> QED BY <2>1, <2>2, <2>3
<1> QED BY <1>1, <1>2, FitsClient

LEMMA FitsEnds ==
  ASSUME TypeOK, TypeOK', Shape, Chans, NEW c \in Clients, Ends(c)
  PROVE  Shape' /\ Chans'
<1>1. Alone(c) BY DEF Ends
<1>2. ASSUME NEW k \in Conns
      PROVE  told'[k] = <<>> \/ (told'[k] = told[k] /\ (link[k] = "ended" => link'[k] = "ended"))
  BY DEF Ends, Hears, SameConn
<1> QED BY <1>1, <1>2, FitsClient

(* One more line of the chat. *)
LEMMA FitsGets ==
  ASSUME TypeOK, TypeOK', Members, Shape, Chans, NEW ch \in Channels, NEW j \in users[ch],
         link[j] = "open", link'[j] = "open", NEW l, Gets(j, l),
         l.kind \in Chat, l.from \in Conns, l.chan = ch, l.kind = "TOPIC" => l.val > 0,
         \A dh \in Channels : j \in users'[dh] => j \in users[dh]
  PROVE  Fits(j)'
<1> PICK n : n = Len(told[j]) OBVIOUS
<1>1. j \in Conns BY DEF TypeOK
<1>2. MemberOK(ch, j) /\ Fits(j) BY <1>1, FitsThere DEF Members
<1>3. n \in Nat /\ n >= 5 /\ DOMAIN told[j] = 1..n BY <1>1, <1>2, ToldIs DEF MemberOK
<1>4. Len(told'[j]) = n + 1 /\ told'[j][n + 1] = l /\ \A i \in 1..n : told'[j][i] = told[j][i]
  BY DEF Gets
<1>5. DOMAIN told'[j] = 1..(n + 1) BY <1>1, <1>4, LenProperties DEF TypeOK
<1>6. \A line : TopicOf(line)' = TopicOf(line) BY DEF TopicOf
<1>7. ASSUME NEW i \in DOMAIN told'[j]
      PROVE  /\ i = 1 => /\ told'[j][i].kind \in {"001", "464"} /\ told'[j][i].chan = None
                         /\ told'[j][i].kind = "464" => link'[j] = "ended"
             /\ i = 2 => told'[j][i].kind = "JOIN" /\ told'[j][i].from = j
             /\ i = 3 => told'[j][i].kind = "332" /\ TopicOf(told'[j][i]) \in Topics \ {Garbage}
             /\ i = 4 => told'[j][i].kind = "353"
             /\ i = 5 => told'[j][i].kind = "366"
             /\ i > 5 => /\ told'[j][i].kind \in Chat /\ told'[j][i].from \in Conns
                         /\ told'[j][i].kind = "TOPIC" => told'[j][i].val > 0
  <2>1. CASE i = n + 1
    <3>1. i > 5 BY <1>3, <2>1
    <3>2. told'[j][i] = l BY <1>4, <2>1
    <3> QED BY <3>1, <3>2
  <2>2. CASE i # n + 1
    <3>1. i \in 1..n BY <1>3, <1>5, <2>2
    <3>2. told'[j][i] = told[j][i] /\ i \in DOMAIN told[j] BY <1>3, <1>4, <3>1
    <3>3. ToldOK(j) BY <1>2 DEF Fits
    <3> QED BY <3>2, <3>3 DEF ToldOK
  <2> QED BY <2>1, <2>2
<1>8. ToldOK(j)' BY <1>6, <1>7 DEF ToldOK
<1>9. ASSUME NEW dh \in Channels, j \in users'[dh], NEW i \in DOMAIN told'[j]
      PROVE  told'[j][i].chan \in {dh, None}
  <2>1. dh = ch BY <1>2, <1>9 DEF MemberOK
  <2>2. CASE i = n + 1 BY <1>4, <2>1, <2>2
  <2>3. CASE i # n + 1
    <3>1. i \in 1..n BY <1>3, <1>5, <2>3
    <3>2. told'[j][i] = told[j][i] /\ i \in DOMAIN told[j] BY <1>3, <1>4, <3>1
    <3> QED BY <1>2, <2>1, <3>2 DEF Fits
  <2> QED BY <2>2, <2>3
<1> QED BY <1>8, <1>9 DEF Fits

LEMMA FitsSpread ==
  ASSUME TypeOK, TypeOK', Members, Shape, Chans, NEW ch \in Channels,
         NEW S \in SUBSET Conns, NEW T \in SUBSET users[ch], NEW l, Spread(S, T, l),
         l.kind \in Chat, l.from \in Conns, l.chan = ch, l.kind = "TOPIC" => l.val > 0,
         NEW j \in S, \A dh \in Channels : j \in users'[dh] => j \in users[dh]
  PROVE  Fits(j)'
<1>1. j \in Conns OBVIOUS
<1>2. /\ IF j \in T /\ link[j] = "open" THEN Gets(j, l) ELSE told'[j] = told[j]
      /\ link'[j] = IF j \in T /\ link[j] = "closed" THEN "reset" ELSE link[j]
  BY DEF Spread
<1>3. CASE j \in T /\ link[j] = "open"
  <2>1. j \in users[ch] /\ link[j] = "open" /\ link'[j] = "open" /\ Gets(j, l) BY <1>2, <1>3
  <2> QED BY <2>1, FitsGets
<1>4. CASE ~(j \in T /\ link[j] = "open")
  <2>1. told'[j] = told[j] /\ (link[j] = "ended" => link'[j] = "ended") BY <1>2, <1>4
  <2>2. Fits(j) BY <1>1, FitsThere
  <2> QED BY <1>1, <2>1, <2>2, FitsKept
<1> QED BY <1>3, <1>4

LEMMA FitsRegisters ==
  ASSUME TypeOK, TypeOK', Places, Shape, Chans, NEW k \in Conns, Registers(k)
  PROVE  Shape' /\ Chans'
<1>1. /\ Asks(k) /\ users' = users
      /\ \A j \in Conns \ {k} : told'[j] = told[j] /\ link'[j] = link[j]
      /\ \/ told'[k] = <<Line("001", None, None, 0)>>
         \/ told'[k] = <<Line("464", None, None, 0)>> /\ link'[k] = "ended"
  BY DEF Registers, rooms
<1>2. \A ch \in Channels : k \notin users'[ch] BY <1>1 DEF Places, PlaceOK, In
<1>3. \A j \in Conns \ {k} : Fits(j)' BY <1>1, FitsThere, FitsKept
<1>4. Fits(k)'
  <2>1. ASSUME NEW kind \in {"001", "464"}, told'[k] = <<Line(kind, None, None, 0)>>,
               kind = "464" => link'[k] = "ended"
        PROVE  ToldOK(k)'
    <3>1. /\ Line(kind, None, None, 0) \in Lines /\ Line(kind, None, None, 0).kind = kind
          /\ Line(kind, None, None, 0).chan = None
      BY LineIs DEF Kinds
    <3>2. DOMAIN told'[k] = {1} /\ told'[k][1] = Line(kind, None, None, 0) BY <2>1, <3>1, OneIs
    <3> QED BY <2>1, <3>1, <3>2 DEF ToldOK
  <2> QED BY <1>1, <1>2, <2>1 DEF Fits
<1> QED BY <1>3, <1>4, FitsTogether

LEMMA TopicIs ==
  ASSUME TypeOK, NEW ch \in Channels
  PROVE  /\ topic[ch] = <<topic[ch][1], topic[ch][2]>>
         /\ topic[ch][1] \in Conns \cup {None} /\ topic[ch][2] \in Nat
         /\ topic[ch] \in Topics \ {Garbage}
<1>1. topic[ch] \in Topics \ {Garbage} BY DEF TypeOK
<1>2. CASE topic[ch] = Unset BY <1>1, <1>2 DEF Unset
<1>3. CASE topic[ch] \in Conns \X (Nat \ {0}) BY <1>1, <1>3
<1> QED BY <1>1, <1>2, <1>3 DEF Topics

LEMMA FitsGreets ==
  ASSUME TypeOK, TypeOK', Places, Members, Shape, Chans, NEW ch \in Channels, NEW k, Greets(ch, k)
  PROVE  Shape' /\ Chans'
<1>j. PICK join : join = Line("JOIN", k, ch, 0) OBVIOUS
<1>1. /\ k \in Conns /\ users' = [users EXCEPT ![ch] = users[ch] \cup {k}]
      /\ newusers[ch] # <<>> /\ k = newusers[ch][1]
      /\ Spread(Conns \ {k}, users[ch], join) /\ link'[k] = link[k]
      /\ Len(told'[k]) = 5 /\ told'[k][1] = told[k][1] /\ told'[k][2] = join
      /\ told'[k][3] = Line("332", topic[ch][1], ch, topic[ch][2])
      /\ told'[k][4] = Line("353", None, ch, 0) /\ told'[k][5] = Line("366", None, ch, 0)
  BY <1>j DEF Greets
<1>2. /\ users'[ch] = users[ch] \cup {k} /\ \A dh \in Channels \ {ch} : users'[dh] = users[dh]
  BY <1>1 DEF TypeOK
<1>3. /\ join.kind = "JOIN" /\ join.from = k /\ join.chan = ch
  BY <1>1, <1>j, LineIs DEF Kinds
<1>4. Waits(k)
  <2>1. newusers[ch] \in Seq(Conns) BY DEF TypeOK
  <2>2. k = Head(newusers[ch])
        /\ ToSet(newusers[ch]) = {Head(newusers[ch])} \cup ToSet(Tail(newusers[ch]))
    BY <1>1, <2>1, TailIs
  <2> QED BY <2>2 DEF Waits
<1>5. link[k] = "open" /\ Len(told[k]) = 1 /\ ~In(k) BY <1>1, <1>4 DEF Places, PlaceOK
<1>6. ASSUME NEW j \in Conns \ {k} PROVE Fits(j)'
  <2>1. \A dh \in Channels : j \in users'[dh] => j \in users[dh] BY <1>2
  <2>2. /\ join.kind \in Chat /\ join.from \in Conns /\ join.chan = ch /\ join.kind # "TOPIC"
    BY <1>1, <1>3 DEF Chat
  <2> QED BY <1>1, <2>1, <2>2, FitsSpread
<1>7. Fits(k)'
  <2>1. /\ told'[k][3].kind = "332" /\ told'[k][3].chan = ch /\ TopicOf(told'[k][3]) = topic[ch]
    <3>1. topic[ch][1] \in Conns \cup {None} /\ topic[ch][2] \in Nat BY TopicIs
    <3>2. /\ told'[k][3].kind = "332" /\ told'[k][3].chan = ch /\ told'[k][3].from = topic[ch][1]
          /\ told'[k][3].val = topic[ch][2]
      <4>l. PICK line : line = Line("332", topic[ch][1], ch, topic[ch][2]) OBVIOUS
      <4>1. /\ line.kind = "332" /\ line.chan = ch /\ line.from = topic[ch][1]
            /\ line.val = topic[ch][2]
        BY <4>l, <3>1, LineIs DEF Kinds
      <4>2. told'[k][3] = line BY <4>l, <1>1
      <4> QED BY <4>1, <4>2
    <3> QED BY <3>2, TopicIs DEF TopicOf
  <2>2. /\ told'[k][4].kind = "353" /\ told'[k][5].kind = "366" /\ told'[k][4].chan = ch
        /\ told'[k][5].chan = ch
    <3>1. ASSUME NEW kind \in {"353", "366"}
          PROVE  Line(kind, None, ch, 0).kind = kind /\ Line(kind, None, ch, 0).chan = ch
      BY LineIs DEF Kinds
    <3> QED BY <1>1, <3>1
  <2>3. told[k][1].kind \in {"001", "464"} /\ told[k][1].chan = None /\ told[k][1].kind # "464"
    <3>1. ToldOK(k) /\ DOMAIN told[k] = 1..Len(told[k]) BY <1>1, ToldIs DEF Shape
    <3>2. 1 \in DOMAIN told[k] /\ link[k] # "ended" BY <1>5, <3>1
    <3>3. \A i \in DOMAIN told[k] : i = 1 =>
            /\ told[k][i].kind \in {"001", "464"} /\ told[k][i].chan = None
            /\ told[k][i].kind = "464" => link[k] = "ended"
      BY <3>1 DEF ToldOK
    <3> QED BY <3>2, <3>3
  <2>4. DOMAIN told'[k] = 1..5
    <3>1. told'[k] \in Seq(Lines) /\ Len(told'[k]) = 5 BY <1>1 DEF TypeOK
    <3> QED BY <3>1, LenProperties
  <2>5. \A line : TopicOf(line)' = TopicOf(line) BY DEF TopicOf
  <2>6. topic[ch] \in Topics \ {Garbage} BY TopicIs
  <2>7. ToldOK(k)'
    <3> SUFFICES ASSUME NEW i \in 1..5
        PROVE  /\ i = 1 => /\ told'[k][i].kind \in {"001", "464"} /\ told'[k][i].chan = None
                           /\ told'[k][i].kind = "464" => link'[k] = "ended"
               /\ i = 2 => told'[k][i].kind = "JOIN" /\ told'[k][i].from = k
               /\ i = 3 => told'[k][i].kind = "332" /\ TopicOf(told'[k][i]) \in Topics \ {Garbage}
               /\ i = 4 => told'[k][i].kind = "353"
               /\ i = 5 => told'[k][i].kind = "366"
               /\ i > 5 => /\ told'[k][i].kind \in Chat /\ told'[k][i].from \in Conns
                           /\ told'[k][i].kind = "TOPIC" => told'[k][i].val > 0
      BY <2>4, <2>5 DEF ToldOK
    <3> QED BY <1>1, <1>3, <2>1, <2>2, <2>3, <2>6
  <2>8. ASSUME NEW dh \in Channels, k \in users'[dh], NEW i \in DOMAIN told'[k]
        PROVE  told'[k][i].chan \in {dh, None}
    <3>1. dh = ch BY <1>2, <1>5, <2>8 DEF In
    <3>2. i = 1 \/ i = 2 \/ i = 3 \/ i = 4 \/ i = 5 BY <2>4
    <3> QED BY <1>1, <1>3, <2>1, <2>2, <2>3, <3>1, <3>2
  <2> QED BY <2>7, <2>8 DEF Fits
<1> QED BY <1>6, <1>7, FitsTogether

LEMMA FitsSpeaks ==
  ASSUME TypeOK, TypeOK', Members, Said, Shape, Chans,
         NEW ch \in Channels, NEW k \in Conns, NEW l, Speaks(ch, k, l) \/ Parts(ch, k, l)
  PROVE  Shape' /\ Chans'
<1>1. Takeup(ch, k, l) BY DEF Speaks, Parts
<1>2. l.kind \in Chat /\ l.from \in Conns /\ l.chan = ch /\ l.val > 0
  BY <1>1, TakeupIs DEF Spoken, Chat
<1>3. CASE Speaks(ch, k, l)
  <2>1. users' = users /\ \E T \in SUBSET users[ch] : Spread(Conns, T, l) BY <1>3 DEF Speaks
  <2>2. \A j \in Conns : Fits(j)' BY <1>2, <2>1, FitsSpread
  <2> QED BY <2>2, FitsTogether
<1>4. CASE Parts(ch, k, l)
  <2>1. /\ users' = [users EXCEPT ![ch] = @ \ {k}] /\ Spread(Conns \ {k}, users[ch] \ {k}, l)
        /\ link'[k] = "ended" /\ told'[k] = told[k]
    BY <1>4 DEF Parts
  <2>2. \A dh \in Channels : users'[dh] \subseteq users[dh] BY <2>1 DEF TypeOK
  <2>3. \A j \in Conns \ {k} : Fits(j)' BY <1>2, <2>1, <2>2, FitsSpread
  <2>4. Fits(k)' BY <2>1, <2>2, FitsThere, FitsKept
  <2> QED BY <2>3, <2>4, FitsTogether
<1> QED BY <1>3, <1>4

LEMMA FitsStops ==
  ASSUME TypeOK, TypeOK', Shape, Chans, (\E ch \in Channels : ThreadEnds(ch)) \/ ServerStops
  PROVE  Shape' /\ Chans'
<1>1. /\ told' = told /\ \A k \in Conns : link[k] = "ended" => link'[k] = "ended"
      /\ \A ch \in Channels : users'[ch] \subseteq users[ch]
  BY ZenonT(60) DEF ThreadEnds, ServerStops, TypeOK
<1>2. \A k \in Conns : Fits(k)' BY <1>1, FitsThere, FitsKept
<1> QED BY <1>2, FitsTogether

-----------------------------------------------------------------------------
(* How far each client has read.  It knows that by its place in the program, *)
(* unless the connection has ended before it got there.                      *)

LEMMA TrackKept ==
  ASSUME TypeOK, NEW d \in Clients, TrackOK(d), SameClient(d), NEW k \in Conns, k = Conn(d),
         read'[k] = read[k],
         \/ told'[k] = told[k] /\ (link[k] = "ended" => link'[k] = "ended")
         \/ /\ link[k] # "ended" /\ Len(told[k]) <= Len(told'[k])
            /\ \A i \in 1..Len(told[k]) : told'[k][i] = told[k][i]
  PROVE  TrackOK(d)'
<1>1. /\ Conn(d)' = k /\ At(d)' = At(d) /\ (OnTrack(d)' <=> OnTrack(d))
  <2>1. Conn(d)' = k BY DEF Conn, SameClient
  <2>2. At(d)' = At(d) BY <2>1 DEF At, SameClient
  <2> QED BY <2>1, <2>2 DEF OnTrack, SameClient, Place
<1> SUFFICES ASSUME pc[d] \in Active PROVE TrackOK(d)' BY DEF TrackOK, SameClient
<1>2. Len(told[k]) \in Nat /\ read[k] \in Nat /\ read[k] <= Len(told[k]) BY ToldIs DEF TypeOK
<1>3. /\ Len(sockMsgs[d]) \in Nat /\ DOMAIN sockMsgs[d] = 1..Len(sockMsgs[d])
      /\ Len(shown[d]) \in Nat /\ DOMAIN shown[d] = 1..Len(shown[d])
  BY LenProperties DEF TypeOK
<1>4. /\ At(d) >= 0 /\ At(d) = read[k] - Len(sockMsgs[d]) /\ At(d) \in Nat
      /\ pc[d] \in Loop /\ At(d) >= 5 => Len(shown[d]) = At(d) - 5
  BY <1>2, <1>3 DEF TrackOK, At
<1>5. \A i \in 1..Len(told[k]) : told'[k][i] = told[k][i] OBVIOUS
<1>6. \A i \in DOMAIN sockMsgs[d] : sockMsgs'[d][i] = told'[k][At(d) + i]
  <2> SUFFICES ASSUME NEW i \in DOMAIN sockMsgs[d] PROVE sockMsgs'[d][i] = told'[k][At(d) + i]
    OBVIOUS
  <2>1. At(d) + i \in 1..Len(told[k]) BY <1>2, <1>3, <1>4
  <2> QED BY <1>5, <2>1 DEF TrackOK, SameClient
<1>7. pc[d] \in Loop /\ At(d) >= 5 => \A i \in DOMAIN shown[d] : shown'[d][i] = told'[k][5 + i]
  <2> SUFFICES ASSUME pc[d] \in Loop, At(d) >= 5, NEW i \in DOMAIN shown[d]
               PROVE  shown'[d][i] = told'[k][5 + i]
    OBVIOUS
  <2>1. 5 + i \in 1..Len(told[k]) BY SMTT(30), <1>2, <1>3, <1>4
  <2> QED BY <1>5, <2>1 DEF TrackOK, SameClient
<1>8. Lost(d) => Lost(d)'
  <2> SUFFICES ASSUME Lost(d) PROVE Lost(d)' OBVIOUS
  <2>1. told'[k] = told[k] /\ link'[k] = "ended" BY DEF Lost
  <2> QED BY <1>1, <2>1 DEF Lost, SameClient, Place
<1> QED BY <1>1, <1>6, <1>7, <1>8 DEF TrackOK, SameClient

LEMMA TracksServer ==
  ASSUME TypeOK, Starts, Tracks, Silent,
         \A k \in Conns :
           \/ told'[k] = told[k] /\ (link[k] = "ended" => link'[k] = "ended")
           \/ /\ link[k] # "ended" /\ Len(told[k]) <= Len(told'[k])
              /\ \A i \in 1..Len(told[k]) : told'[k][i] = told[k][i]
  PROVE  Tracks'
<1> SUFFICES ASSUME NEW d \in Clients, pc'[d] \in Active PROVE TrackOK(d)' BY DEF Tracks, TrackOK
<1>1. SameClient(d) /\ read' = read /\ pc' = pc BY SilentIs DEF SameClient
<1>2. Conn(d) \in Conns BY <1>1, ArrivesIs
<1>3. TrackOK(d) BY DEF Tracks
<1> QED BY <1>1, <1>2, <1>3, TrackKept

(* Only the client that takes the step has to be looked at. *)
LEMMA TracksClient ==
  ASSUME TypeOK, Starts, Tracks, NEW c \in Clients, Alone(c),
         \A k \in Conns : k[1] # c => SameConn(k), TrackOK(c)'
  PROVE  Tracks'
<1> SUFFICES ASSUME NEW d \in Clients \ {c}, pc'[d] \in Active PROVE TrackOK(d)'
  BY DEF Tracks, TrackOK
<1>1. SameClient(d) /\ pc[d] \in Active BY DEF Alone, SameClient
<1>2. Conn(d) \in Conns /\ Conn(d)[1] = d BY <1>1, ArrivesIs
<1>3. TrackOK(d) /\ SameConn(Conn(d)) BY <1>2 DEF Tracks
<1>4. read'[Conn(d)] = read[Conn(d)] /\ told'[Conn(d)] = told[Conn(d)]
      /\ link'[Conn(d)] = link[Conn(d)]
  BY <1>3 DEF SameConn
<1> QED BY <1>1, <1>2, <1>3, <1>4, TrackKept

LEMMA TracksEnds ==
  ASSUME TypeOK, Starts, Tracks, NEW c \in Clients, Ends(c)
  PROVE  Tracks'
<1>1. pc[c] \in Active /\ pc'[c] \in Over /\ Alone(c) /\ \A j \in Conns \ {Conn(c)} : SameConn(j)
  BY DEF Ends
<1>2. Conn(c)[1] = c BY <1>1, ArrivesIs
<1>3. \A k \in Conns : k[1] # c => SameConn(k) BY <1>1, <1>2
<1>4. TrackOK(c)' BY <1>1 DEF TrackOK, Over, Active, Replies, Loop
<1> QED BY <1>1, <1>3, <1>4, TracksClient

LEMMA TracksOpens ==
  ASSUME TypeOK, TypeOK', Links, Starts, Tracks, NEW c \in Clients, Opens(c)
  PROVE  Tracks'
<1>1. /\ pc[c] \in {"start", "input"} /\ session[c] < MaxSessions[c]
      /\ pc'[c] = "welcome" /\ session'[c] = session[c] + 1 /\ typed'[c] = 0
      /\ sockMsgs'[c] = sockMsgs[c] /\ shown'[c] = <<>> /\ Alone(c)
      /\ \A k \in Conns : k[1] # c => SameConn(k)
  BY DEF Opens
<1>k. PICK k : k = <<c, session[c] + 1>> OBVIOUS
<1>2. k \in Conns /\ k[1] = c /\ k[2] = session[c] + 1 /\ read[k] = 0
  BY <1>1, <1>k, NewConn
<1>3. read'[k] = 0 BY <1>2 DEF Opens
<1>4. Conn(c)' = k BY <1>1, <1>k DEF Conn
<1>5. sockMsgs'[c] = <<>> BY <1>1 DEF Starts, ClientOK, Tracks, TrackOK, Active, Loop
<1>6. Len(sockMsgs'[c]) = 0 /\ DOMAIN sockMsgs'[c] = {} BY <1>5, EmptySeq
<1>7. At(c)' = 0 BY <1>3, <1>4, <1>6 DEF At
<1>8. pc'[c] \notin Loop /\ pc'[c] \notin Replies /\ pc'[c] # "input" BY <1>1 DEF Loop, Replies
<1>9. OnTrack(c)' BY <1>1, <1>7, <1>8 DEF OnTrack, Place
<1>10. TrackOK(c)' BY <1>1, <1>6, <1>7, <1>8, <1>9 DEF TrackOK
<1> QED BY <1>1, <1>10, TracksClient

LEMMA ReadsIs ==
  ASSUME TypeOK, TypeOK', Starts, Tracks, NEW c \in Clients, pc[c] \in Active, Reads(c)
  PROVE  /\ Conn(c)' = Conn(c) /\ At(c)' = At(c) + 1 /\ At(c) \in Nat /\ OnTrack(c)
         /\ \A i \in DOMAIN sockMsgs'[c] : sockMsgs'[c][i] = told'[Conn(c)][At(c) + 1 + i]
         /\ typed'[c] = typed[c] /\ channel'[c] = channel[c] /\ shown'[c] = shown[c] /\ Alone(c)
         /\ \A k \in Conns : k[1] # c => SameConn(k)
<1>k. PICK k : k = Conn(c) OBVIOUS
<1>1. Conn(c)' = k BY <1>k DEF Conn, Reads
<1>2. read'[k] - Len(sockMsgs'[c]) = At(c) + 1 /\ At(c) \in Nat BY <1>k DEF Reads, Takes
<1>3. At(c)' = At(c) + 1 BY <1>1, <1>2 DEF At
<1>4. OnTrack(c) BY TakesOnTrack DEF Reads
<1>5. told' = told BY DEF Reads
<1>6. \A i \in DOMAIN sockMsgs'[c] : sockMsgs'[c][i] = told'[Conn(c)][At(c) + 1 + i]
  BY <1>5 DEF Reads, Takes
<1>7. Conn(c)[1] = c BY ArrivesIs
<1>8. \A j \in Conns : j[1] # c => SameConn(j) BY <1>7 DEF Reads, SameConn
<1> QED BY <1>k, <1>1, <1>2, <1>3, <1>4, <1>6, <1>8 DEF Reads

LEMMA TracksWelcome ==
  ASSUME TypeOK, TypeOK', Starts, Tracks, NEW c \in Clients, Reads(c),
         pc[c] = "welcome", pc'[c] \in {"prompt", "ended"}
  PROVE  Tracks'
<1>1. pc[c] \in Active /\ pc[c] \notin Loop BY DEF Active, Loop
<1>2. /\ Conn(c)' = Conn(c) /\ At(c)' = At(c) + 1 /\ At(c) \in Nat /\ OnTrack(c)
      /\ \A i \in DOMAIN sockMsgs'[c] : sockMsgs'[c][i] = told'[Conn(c)][At(c) + 1 + i]
      /\ typed'[c] = typed[c] /\ channel'[c] = channel[c] /\ shown'[c] = shown[c] /\ Alone(c)
      /\ \A k \in Conns : k[1] # c => SameConn(k)
  BY <1>1, ReadsIs
<1>3. At(c) = 0 /\ typed[c] = 0 /\ shown[c] = <<>> BY <1>1, <1>2 DEF OnTrack, Place, Tracks, TrackOK
<1>4. TrackOK(c)'
  <2>1. CASE pc'[c] = "prompt"
    <3>1. pc'[c] \notin Loop /\ pc'[c] \notin Replies /\ pc'[c] # "input" BY <2>1 DEF Loop, Replies
    <3>2. At(c)' = 1 BY <1>2, <1>3
    <3>3. OnTrack(c)' BY <2>1, <3>1, <3>2 DEF OnTrack, Place
    <3>4. \A i \in DOMAIN sockMsgs'[c] : sockMsgs'[c][i] = told'[Conn(c)'][At(c)' + i] BY <1>2
    <3> QED BY <1>2, <1>3, <3>1, <3>2, <3>3, <3>4 DEF TrackOK
  <2>2. CASE pc'[c] = "ended" BY <2>2 DEF TrackOK, Active, Replies, Loop
  <2> QED BY <2>1, <2>2
<1> QED BY <1>2, <1>4, TracksClient

(* From place to place. *)
LEMMA NextPlace ==
  ASSUME NEW p \in Replies
  PROVE  /\ AfterReply[p] \in Active /\ AfterReply[p] # "input"
         /\ AfterReply[p] \in Replies \cup Loop
         /\ p \in Active /\ p \notin Loop /\ Place[p] \in Nat
         /\ AfterReply[p] \in Loop <=> p = "end"
         /\ AfterReply[p] \notin Loop => Place[AfterReply[p]] = Place[p] + 1
         /\ p = "end" => Place[p] = 4
<1>1. p = "confirm" \/ p = "topic" \/ p = "names" \/ p = "end" BY DEF Replies
<1> QED BY <1>1 DEF AfterReply, Active, Replies, Loop, Place

LEMMA TracksReply ==
  ASSUME TypeOK, TypeOK', Starts, Tracks, NEW c \in Clients, Reads(c), NEW text, Uses(c, text)
  PROVE  Tracks'
<1>1. pc[c] \in Replies /\ pc'[c] = AfterReply[pc[c]]
      /\ (pc[c] = "end" => channelName'[c] = channel[c] /\ userChan'[c] = channel[c])
  BY DEF Uses
<1>2. /\ pc'[c] \in Active /\ pc'[c] # "input"
      /\ pc[c] \in Active /\ pc[c] \notin Loop /\ Place[pc[c]] \in Nat
      /\ pc'[c] \in Loop <=> pc[c] = "end"
      /\ pc'[c] \notin Loop => Place[pc'[c]] = Place[pc[c]] + 1
      /\ pc[c] = "end" => Place[pc[c]] = 4
  BY <1>1, NextPlace
<1>3. /\ Conn(c)' = Conn(c) /\ At(c)' = At(c) + 1 /\ At(c) \in Nat /\ OnTrack(c)
      /\ \A i \in DOMAIN sockMsgs'[c] : sockMsgs'[c][i] = told'[Conn(c)][At(c) + 1 + i]
      /\ typed'[c] = typed[c] /\ channel'[c] = channel[c] /\ shown'[c] = shown[c] /\ Alone(c)
      /\ \A k \in Conns : k[1] # c => SameConn(k)
  BY <1>2, ReadsIs
<1>4. At(c) = Place[pc[c]] /\ typed[c] = 0 /\ shown[c] = <<>> /\ channel[c] \in Channels
  BY <1>1, <1>2, <1>3 DEF OnTrack, Tracks, TrackOK
<1>5. At(c)' >= 0 /\ (pc'[c] \in Loop => At(c)' = 5)
      /\ (pc'[c] \notin Loop => At(c)' = Place[pc'[c]])
  BY <1>2, <1>3, <1>4
<1>6. OnTrack(c)' BY <1>5 DEF OnTrack, Place
<1>7. \A i \in DOMAIN sockMsgs'[c] : sockMsgs'[c][i] = told'[Conn(c)'][At(c)' + i] BY <1>3
<1>8. shown'[c] = <<>> /\ Len(shown'[c]) = 0 /\ DOMAIN shown'[c] = {}
  BY <1>3, <1>4, EmptySeq, NothingIn
<1>9. pc'[c] \in Loop => Len(shown'[c]) = At(c)' - 5 BY <1>5, <1>8
<1>10. TrackOK(c)' BY <1>1, <1>2, <1>3, <1>4, <1>5, <1>6, <1>7, <1>8, <1>9 DEF TrackOK
<1> QED BY <1>3, <1>10, TracksClient

LEMMA TracksMisses ==
  ASSUME TypeOK, TypeOK', Starts, Tracks, NEW c \in Clients, Misses(c)
  PROVE  Tracks'
<1>k. PICK k : k = Conn(c) OBVIOUS
<1>1. /\ sockMsgs[c] = <<>> /\ read[k] = Len(told[k]) /\ link[k] = "ended"
      /\ sockMsgs'[c] = <<>> /\ session'[c] = session[c] /\ typed'[c] = typed[c]
      /\ channel'[c] = channel[c] /\ shown'[c] = shown[c] /\ Alone(c)
      /\ \A j \in Conns : SameConn(j)
  BY <1>k DEF Misses
<1>2. pc[c] \in Active /\ pc[c] \notin Loop
  BY DEF Misses, Uses, Active, Replies, Loop
<1>3. k \in Conns BY <1>2, <1>k, ArrivesIs
<1>4. Conn(c)' = k BY <1>1, <1>k DEF Conn
<1>5. read'[k] = read[k] /\ told'[k] = told[k] /\ link'[k] = "ended" BY <1>1, <1>3 DEF SameConn
<1>6. At(c)' = At(c) BY <1>k, <1>1, <1>4, <1>5 DEF At
<1>7. Len(sockMsgs'[c]) = 0 /\ DOMAIN sockMsgs'[c] = {} BY <1>1, EmptySeq, NothingIn
<1>8. At(c) >= 0 /\ At(c) \in Nat /\ shown'[c] = <<>> /\ typed'[c] = 0
      /\ (pc[c] \in Replies => channel'[c] \in Channels)
      /\ (OnTrack(c) \/ Lost(c))
  <2>1. At(c) \in Nat BY <1>2, AheadIs
  <2> QED BY <2>1, <1>1, <1>2 DEF Tracks, TrackOK
<1>9. \/ pc[c] = "welcome" /\ pc'[c] = "prompt"
      \/ /\ pc[c] \in Replies /\ pc'[c] = AfterReply[pc[c]]
         /\ (pc[c] = "end" => channelName'[c] = channel[c] /\ userChan'[c] = channel[c])
  BY DEF Misses, Uses
<1>10. At(c) <= Place[pc[c]] /\ Place[pc[c]] \in Nat
  <2>1. Place[pc[c]] \in Nat
    <3>1. CASE pc[c] = "welcome" BY <3>1 DEF Place
    <3>2. CASE pc[c] \in Replies BY <3>2, NextPlace
    <3> QED BY <1>9, <3>1, <3>2
  <2>2. At(c) = Place[pc[c]] \/ At(c) < Place[pc[c]] BY <1>2, <1>8 DEF OnTrack, Lost
  <2> QED BY <1>8, <2>1, <2>2
<1>11. /\ pc'[c] # "input" /\ (pc'[c] \in Loop <=> pc[c] = "end")
       /\ IF pc'[c] \in Loop THEN At(c) < 5 ELSE At(c) < Place[pc'[c]]
       /\ (pc'[c] \in Replies \cup Loop => pc[c] \in Replies)
  <2>1. CASE pc[c] = "welcome" /\ pc'[c] = "prompt"
    <3>1. Place["welcome"] = 0 /\ Place["prompt"] = 1 BY DEF Place
    <3>2. At(c) < Place[pc'[c]] BY <1>8, <1>10, <2>1, <3>1
    <3> QED BY <2>1, <3>2 DEF Loop, Replies
  <2>2. CASE pc[c] \in Replies /\ pc'[c] = AfterReply[pc[c]]
    <3>1. /\ pc'[c] # "input" /\ (pc'[c] \in Loop <=> pc[c] = "end")
          /\ pc'[c] \notin Loop => Place[pc'[c]] = Place[pc[c]] + 1
          /\ pc[c] = "end" => Place[pc[c]] = 4
      BY <2>2, NextPlace
    <3> QED BY <1>8, <1>10, <2>2, <3>1
  <2> QED BY <1>9, <2>1, <2>2
<1>12. Lost(c)' BY <1>1, <1>4, <1>5, <1>6, <1>11 DEF Lost, Place
<1>13. pc'[c] \in Loop => channelName'[c] = channel'[c] /\ userChan'[c] = channel'[c] /\ At(c)' < 5
  BY <1>1, <1>6, <1>9, <1>11
<1>14. TrackOK(c)'
  <2>1. ~(pc'[c] \in Loop /\ At(c)' >= 5) BY <1>6, <1>8, <1>13
  <2> QED BY <1>6, <1>7, <1>8, <1>11, <1>12, <1>13, <2>1 DEF TrackOK
<1> QED BY <1>1, <1>14, TracksClient

LEMMA TracksJoins ==
  ASSUME TypeOK, TypeOK', Starts, Tracks, NEW c \in Clients, NEW ch \in Channels, Joins(c, ch)
  PROVE  Tracks'
<1>k. PICK k : k = Conn(c) OBVIOUS
<1>1. /\ pc[c] = "prompt" /\ pc'[c] = "confirm" /\ channel'[c] = ch
      /\ session'[c] = session[c] /\ typed'[c] = typed[c] /\ sockMsgs'[c] = sockMsgs[c]
      /\ shown'[c] = shown[c]
      /\ link' = link /\ told' = told /\ read' = read
      /\ \A j \in Conns \ {k} : up'[j] = up[j]
      /\ Alone(c)
  BY <1>k DEF Joins
<1>2. pc[c] \in Active /\ pc[c] \notin Loop /\ pc'[c] \notin Loop /\ pc'[c] # "input"
  BY <1>1 DEF Active, Loop
<1>3. k \in Conns /\ k[1] = c BY <1>2, <1>k, ArrivesIs
<1>4. Conn(c)' = k BY <1>1, <1>k DEF Conn
<1>5. At(c)' = At(c) BY <1>k, <1>1, <1>4 DEF At
<1>6. TrackOK(c) BY DEF Tracks
<1>7. Place[pc[c]] = Place[pc'[c]] BY <1>1 DEF Place
<1>8. OnTrack(c)' \/ Lost(c)'
  BY <1>k, <1>1, <1>2, <1>4, <1>5, <1>6, <1>7 DEF TrackOK, OnTrack, Lost, Place
<1>9. TrackOK(c)' BY <1>k, <1>1, <1>2, <1>4, <1>5, <1>6, <1>8 DEF TrackOK
<1>10. \A j \in Conns : j[1] # c => SameConn(j) BY <1>1, <1>3 DEF SameConn
<1> QED BY <1>1, <1>9, <1>10, TracksClient

LEMMA TracksGoesOn ==
  ASSUME TypeOK, TypeOK', Starts, Tracks, NEW c \in Clients, GoesOn(c)
  PROVE  Tracks'
<1>k. PICK k : k = Conn(c) OBVIOUS
<1>1. /\ pc[c] \in Loop /\ pc'[c] = "input" /\ sockMsgs'[c] = <<>>
      /\ read'[k] \in At(c)..Len(told[k]) /\ read[k] <= read'[k]
      /\ Len(shown'[c]) = Len(shown[c]) + (read'[k] - At(c))
      /\ \A i \in 1..Len(shown[c]) : shown'[c][i] = shown[c][i]
      /\ \A i \in 1..(read'[k] - At(c)) : shown'[c][Len(shown[c]) + i] = told[k][At(c) + i]
      /\ session'[c] = session[c] /\ channel'[c] = channel[c] /\ channelName'[c] = channelName[c]
      /\ userChan'[c] = userChan[c] /\ link' = link /\ told' = told /\ Alone(c)
      /\ \A j \in Conns \ {k} : up'[j] = up[j] /\ read'[j] = read[j]
  BY <1>k DEF GoesOn, Shows
<1>2. pc[c] \in Active /\ pc'[c] \in Loop BY <1>1 DEF Active, Loop
<1>3. k \in Conns /\ k[1] = c BY <1>2, <1>k, ArrivesIs
<1>4. Conn(c)' = k BY <1>1, <1>k DEF Conn
<1>5. Len(sockMsgs'[c]) = 0 /\ DOMAIN sockMsgs'[c] = {} BY <1>1, EmptySeq, NothingIn
<1>6. At(c) \in Nat /\ read'[k] \in Nat /\ Len(told[k]) \in Nat /\ read[k] \in Nat
  <2>1. At(c) \in Nat BY <1>2, AheadIs
  <2>2. Len(told[k]) \in Nat /\ read[k] \in Nat BY <1>3, ToldIs DEF TypeOK
  <2> QED BY <1>1, <2>1, <2>2
<1>7. At(c)' = read'[k] BY <1>4, <1>5, <1>6 DEF At
<1>8. /\ Len(shown[c]) \in Nat /\ DOMAIN shown[c] = 1..Len(shown[c])
      /\ DOMAIN shown'[c] = 1..Len(shown'[c]) /\ shown'[c] \in Seq(Lines)
  BY LenProperties DEF TypeOK
<1>9. TrackOK(c) BY DEF Tracks
<1>n. channelName[c] = channel[c] /\ userChan[c] = channel[c] /\ channel[c] \in Channels
  BY <1>1, <1>2, <1>9 DEF TrackOK
<1>o. channelName'[c] = channel'[c] /\ userChan'[c] = channel'[c] /\ channel'[c] \in Channels
  BY <1>1, <1>n
<1>10. ASSUME At(c) >= 5 PROVE TrackOK(c)'
  <2>1. Len(shown[c]) = At(c) - 5 /\ \A i \in DOMAIN shown[c] : shown[c][i] = told[k][5 + i]
    BY <1>k, <1>1, <1>2, <1>9, <1>10 DEF TrackOK
  <2>2. At(c)' >= 5 /\ Len(shown'[c]) = At(c)' - 5 BY <1>1, <1>6, <1>7, <1>10, <2>1
  <2>3. ASSUME NEW i \in DOMAIN shown'[c] PROVE shown'[c][i] = told[k][5 + i]
    <3>1. CASE i <= Len(shown[c])
      <4>1. i \in 1..Len(shown[c]) BY <1>8, <3>1
      <4> QED BY <1>1, <1>8, <2>1, <4>1
    <3>2. CASE i > Len(shown[c])
      <4>1. i - Len(shown[c]) \in 1..(read'[k] - At(c)) BY SMTT(30), <1>1, <1>6, <1>8, <3>2
      <4>2. /\ Len(shown[c]) + (i - Len(shown[c])) = i
            /\ At(c) + (i - Len(shown[c])) = 5 + i
        BY <1>6, <1>8, <2>1
      <4> QED BY <1>1, <4>1, <4>2
    <3> QED BY <1>8, <3>1, <3>2
  <2>4. OnTrack(c)' BY <1>2, <2>2 DEF OnTrack
  <2>5. ~(pc'[c] \notin Loop \/ At(c)' < 5) /\ At(c)' >= 0 BY <1>2, <1>6, <1>7, <2>2
  <2>6. told'[k] = told[k] BY <1>1
  <2>7. \A i \in DOMAIN shown'[c] : shown'[c][i] = told'[Conn(c)'][5 + i]
    BY <1>4, <2>3, <2>6
  <2>8. sockMsgs'[c] = <<>> BY <1>1
  <2> QED BY <1>2, <1>5, <1>o, <2>2, <2>4, <2>5, <2>7, <2>8 DEF TrackOK
<1>11. ASSUME At(c) < 5 PROVE TrackOK(c)'
  <2>1. Lost(c) /\ shown[c] = <<>>
    <3>1. ~OnTrack(c) BY <1>1, <1>6, <1>11 DEF OnTrack
    <3> QED BY <1>2, <1>9, <1>11, <3>1 DEF TrackOK
  <2>2. link[k] = "ended" /\ read[k] = Len(told[k]) /\ sockMsgs[c] = <<>>
    BY <1>k, <2>1 DEF Lost
  <2>3. read'[k] = Len(told[k]) BY <1>1, <1>6, <2>2
  <2>4. At(c) = read[k]
    <3>1. Len(sockMsgs[c]) = 0 BY <2>2, EmptySeq
    <3> QED BY <1>k, <1>6, <3>1 DEF At
  <2>5. At(c)' < 5 /\ At(c)' >= 0 /\ ~(At(c)' >= 5) BY <1>6, <1>7, <1>11, <2>2, <2>3, <2>4
  <2>6. shown'[c] = <<>>
    <3>1. Len(shown[c]) = 0 BY <2>1, EmptySeq
    <3>2. Len(shown'[c]) = 0 BY <1>1, <1>6, <2>2, <2>3, <2>4, <3>1
    <3> QED BY <1>8, <3>2, EmptySeq
  <2>7. Lost(c)'
    <3>1. /\ link'[k] = "ended" /\ told'[k] = told[k] /\ sockMsgs'[c] = <<>>
          /\ read'[k] = Len(told'[k])
      BY <1>1, <2>2, <2>3
    <3> QED BY <1>2, <1>4, <2>5, <3>1 DEF Lost
  <2>8. sockMsgs'[c] = <<>> BY <1>1
  <2> QED BY <1>2, <1>5, <1>o, <2>5, <2>6, <2>7, <2>8 DEF TrackOK
<1>12. TrackOK(c)' BY <1>6, <1>10, <1>11
<1>13. \A j \in Conns : j[1] # c => SameConn(j) BY <1>1, <1>3 DEF SameConn
<1> QED BY <1>1, <1>12, <1>13, TracksClient

(* What the server writes to whom. *)
LEMMA TracksSpread ==
  ASSUME TypeOK, NEW S, NEW T, NEW l, Spread(S, T, l), NEW j \in S, j \in Conns
  PROVE  \/ told'[j] = told[j] /\ (link[j] = "ended" => link'[j] = "ended")
         \/ /\ link[j] # "ended" /\ Len(told[j]) <= Len(told'[j])
            /\ \A i \in 1..Len(told[j]) : told'[j][i] = told[j][i]
<1>1. Len(told[j]) \in Nat BY ToldIs
<1> QED BY <1>1 DEF Spread, Gets

LEMMA TracksOfServer ==
  ASSUME TypeOK, Starts, Tracks, Places, Said, Members,
         \/ \E k \in Conns : Registers(k) \/ Receives(k)
         \/ \E ch \in Channels : \E k : Greets(ch, k)
         \/ \E ch \in Channels : \E k \in Conns : \E l : Speaks(ch, k, l) \/ Parts(ch, k, l)
         \/ (\E ch \in Channels : ThreadEnds(ch)) \/ ServerStops
  PROVE  Tracks'
<1> DEFINE Grows(j) == \/ told'[j] = told[j] /\ (link[j] = "ended" => link'[j] = "ended")
                       \/ /\ link[j] # "ended" /\ Len(told[j]) <= Len(told'[j])
                          /\ \A i \in 1..Len(told[j]) : told'[j][i] = told[j][i]
<1>1. ASSUME NEW k \in Conns, Registers(k) PROVE Silent /\ \A j \in Conns : Grows(j)
  <2>1. Asks(k) /\ Silent /\ (\A j \in Conns \ {k} : told'[j] = told[j] /\ link'[j] = link[j])
        /\ (\/ told'[k] = <<Line("001", None, None, 0)>>
            \/ told'[k] = <<Line("464", None, None, 0)>>)
    BY <1>1 DEF Registers
  <2>2. link[k] = "open" /\ Len(told[k]) = 0 BY <2>1 DEF Places, PlaceOK
  <2>3. Len(told'[k]) = 1 BY <2>1
  <2>4. Grows(k) BY <2>2, <2>3
  <2> QED BY <2>1, <2>4
<1>2. ASSUME NEW k \in Conns, Receives(k) PROVE Silent /\ \A j \in Conns : Grows(j)
  BY <1>2 DEF Receives
<1>3. ASSUME NEW ch \in Channels, NEW k, Greets(ch, k) PROVE Silent /\ \A j \in Conns : Grows(j)
  <2>1. /\ Silent /\ k \in Conns /\ newusers[ch] # <<>> /\ k = newusers[ch][1]
        /\ Spread(Conns \ {k}, users[ch], Line("JOIN", k, ch, 0))
        /\ Len(told'[k]) = 5 /\ told'[k][1] = told[k][1]
    BY <1>3 DEF Greets
  <2>2. Waits(k)
    <3>1. newusers[ch] \in Seq(Conns) BY DEF TypeOK
    <3>2. k = Head(newusers[ch])
          /\ ToSet(newusers[ch]) = {Head(newusers[ch])} \cup ToSet(Tail(newusers[ch]))
      BY <2>1, <3>1, TailIs
    <3> QED BY <3>2 DEF Waits
  <2>3. link[k] = "open" /\ Len(told[k]) = 1 BY <2>1, <2>2 DEF Places, PlaceOK
  <2>4. Grows(k) BY <2>1, <2>3
  <2>5. \A j \in Conns \ {k} : Grows(j) BY <2>1, TracksSpread
  <2> QED BY <2>1, <2>4, <2>5
<1>4. ASSUME NEW ch \in Channels, NEW k \in Conns, NEW l, Speaks(ch, k, l) \/ Parts(ch, k, l)
      PROVE  Silent /\ \A j \in Conns : Grows(j)
  <2>1. Silent BY <1>4 DEF Speaks, Parts, Takeup
  <2>2. CASE Speaks(ch, k, l)
    <3>1. \E T : Spread(Conns, T, l) BY <2>2 DEF Speaks
    <3> QED BY <2>1, <3>1, TracksSpread
  <2>3. CASE Parts(ch, k, l)
    <3>1. Spread(Conns \ {k}, users[ch] \ {k}, l) /\ link'[k] = "ended" /\ told'[k] = told[k]
      BY <2>3 DEF Parts
    <3>2. \A j \in Conns \ {k} : Grows(j) BY <3>1, TracksSpread
    <3> QED BY <2>1, <3>1, <3>2
  <2> QED BY <1>4, <2>2, <2>3
<1>5. ASSUME (\E ch \in Channels : ThreadEnds(ch)) \/ ServerStops
      PROVE  Silent /\ \A j \in Conns : Grows(j)
  <2>1. Silent /\ told' = told BY <1>5 DEF ThreadEnds, ServerStops, Silent
  <2>2. \A j \in Conns : link[j] = "ended" => link'[j] = "ended" BY <1>5 DEF ThreadEnds, ServerStops
  <2> QED BY <2>1, <2>2
<1>6. Silent /\ \A j \in Conns : Grows(j) BY <1>1, <1>2, <1>3, <1>4, <1>5
<1> QED BY <1>6, TracksServer

-----------------------------------------------------------------------------
(* What the members have said and the server has not taken up yet. *)

(* What a step of a client is to the connections that are members: nothing,  *)
(* or one more line.                                                         *)
Talks(k) ==
  \/ /\ up'[k] = up[k]
     /\ link'[k] = "open" => link[k] = "open" /\ typed'[k[1]] = typed[k[1]]
  \/ /\ link[k] = "open" /\ pc[k[1]] \in Loop /\ \E kind \in Spoken : Writes(k, kind)
     /\ link'[k] = "open" => typed'[k[1]] = typed[k[1]] + 1

(* And to what a connection has been told. *)
Quiet(k) ==
  /\ told'[k] = told[k] \/ told'[k] = <<>>
  /\ link'[k] = "open" => told'[k] = told[k] /\ link[k] \in {"open", "none"}
  /\ link'[k] = "none" => link[k] = "none"

Calm(c) == Alone(c) /\ \A k \in Conns : Quiet(k) /\ (In(k) => Talks(k))

(* The connections of other clients, and those that have been left. *)
LEMMA CalmAside ==
  ASSUME TypeOK, Links, NEW c \in Clients, Alone(c), NEW k \in Conns,
         k[1] # c \/ ~IsNow(k), SameConn(k)
  PROVE  Quiet(k) /\ Talks(k)
<1>1. link[k] = "open" => IsNow(k) BY DEF Links, LinkOK
<1>2. k[1] \in Clients BY ConnsAre
<1>3. k[1] # c => typed'[k[1]] = typed[k[1]] BY <1>2 DEF Alone, SameClient
<1>4. link[k] \in {"none", "open", "closed", "reset", "ended"} BY DEF TypeOK
<1> QED BY <1>1, <1>3, <1>4 DEF SameConn, Quiet, Talks

LEMMA CalmTogether ==
  ASSUME TypeOK, Links, Starts, NEW c \in Clients, pc[c] \in Active, Alone(c),
         \A j \in Conns \ {Conn(c)} : SameConn(j), NEW o, o = Conn(c),
         Quiet(o) /\ (In(o) => Talks(o))
  PROVE  Calm(c)
<1>1. ASSUME NEW k \in Conns PROVE Quiet(k) /\ (In(k) => Talks(k))
  <2>1. CASE k = o BY <2>1
  <2>2. CASE k # o
    <3>1. k[1] # c \/ ~IsNow(k) BY <2>2, ConnIs DEF Starts, ClientOK
    <3> QED BY <2>2, <3>1, CalmAside
  <2> QED BY <2>1, <2>2
<1> QED BY <1>1 DEF Calm

LEMMA CalmOpens ==
  ASSUME TypeOK, Links, Starts, Members, NEW c \in Clients, Opens(c)
  PROVE  Calm(c)
<1>1. Alone(c) /\ session[c] \in Nat /\ pc[c] \in {"start", "input"} BY DEF Opens, TypeOK
<1>2. ASSUME NEW k \in Conns PROVE Quiet(k) /\ (In(k) => Talks(k))
  <2>1. CASE k[1] # c \/ k[2] \notin {session[c], session[c] + 1}
    <3>1. SameConn(k) BY <2>1 DEF Opens
    <3>2. k[1] # c \/ ~IsNow(k) BY <2>1 DEF IsNow
    <3> QED BY <1>1, <3>1, <3>2, CalmAside
  <2>2. CASE k[1] = c /\ k[2] = session[c] + 1
    <3>1. link[k] = "none" BY <1>1, <2>2 DEF Links, LinkOK
    <3>2. ~In(k) BY <3>1 DEF Members, MemberOK, In
    <3>3. link'[k] = "open" /\ told'[k] = told[k] BY <2>2 DEF Opens
    <3> QED BY <3>1, <3>2, <3>3 DEF Quiet
  <2>3. CASE k[1] = c /\ k[2] = session[c]
    <3>1. /\ told'[k] = <<>>
          /\ link[k] = "open" => link'[k] \in {"closed", "reset"} /\ Writes(k, "PART")
          /\ link[k] # "open" => link'[k] = link[k] /\ up'[k] = up[k]
      BY <2>3 DEF Opens, Hears
    <3>2. k[2] > 0 BY ConnsAre, BoundsAssumption
    <3>3. pc[c] = "input" BY <1>1, <2>3, <3>2 DEF Starts, ClientOK
    <3>4. pc[k[1]] \in Loop BY <2>3, <3>3 DEF Loop
    <3>5. Quiet(k) BY <3>1 DEF Quiet
    <3>6. CASE link[k] = "open" BY <3>1, <3>4, <3>5, <3>6 DEF Talks, Spoken
    <3>7. CASE link[k] # "open" BY <3>1, <3>5, <3>7 DEF Talks
    <3> QED BY <3>6, <3>7
  <2> QED BY <2>1, <2>2, <2>3
<1> QED BY <1>1, <1>2 DEF Calm

LEMMA CalmEnds ==
  ASSUME TypeOK, Links, Starts, NEW c \in Clients, Ends(c)
  PROVE  Calm(c)
<1>k. PICK k : k = Conn(c) OBVIOUS
<1>1. /\ pc[c] \in Active /\ Alone(c) /\ \A j \in Conns \ {k} : SameConn(j)
      /\ told'[k] = <<>>
      /\ link[k] = "open" =>
           /\ pc[c] \in Loop /\ link'[k] \in {"closed", "reset"}
           /\ up'[k] = up[k] \/ \E kind \in Spoken : Writes(k, kind)
      /\ link[k] # "open" => link'[k] = link[k] /\ up'[k] = up[k]
  BY <1>k DEF Ends, Hears, Spoken
<1>2. k[1] = c BY <1>1, <1>k, ArrivesIs
<1>3. Quiet(k) BY <1>1 DEF Quiet
<1>4. CASE link[k] = "open"
  <2>1. pc[k[1]] \in Loop /\ link'[k] # "open" BY <1>1, <1>2, <1>4
  <2>2. up'[k] = up[k] \/ \E kind \in Spoken : Writes(k, kind) BY <1>1, <1>4
  <2> QED BY <1>1, <1>3, <1>4, <1>k, <2>1, <2>2, CalmTogether DEF Talks
<1>5. CASE link[k] # "open"
  <2>1. Talks(k) BY <1>1, <1>5 DEF Talks
  <2> QED BY <1>1, <1>3, <1>k, <2>1, CalmTogether
<1> QED BY <1>4, <1>5

LEMMA CalmReads ==
  ASSUME TypeOK, Links, Starts, Members, NEW c \in Clients, pc[c] \in Active,
         Reads(c) \/ Misses(c) \/ \E ch \in Channels : Joins(c, ch)
  PROVE  Calm(c)
<1>k. PICK k : k = Conn(c) OBVIOUS
<1>1. k \in Conns /\ k[1] = c BY <1>k, ArrivesIs
<1>2. /\ Alone(c) /\ \A j \in Conns \ {k} : SameConn(j)
      /\ link'[k] = link[k] /\ told'[k] = told[k] /\ typed'[c] = typed[c]
  BY <1>1, <1>k DEF Reads, Misses, Joins, SameConn
<1>3. In(k) => up'[k] = up[k]
  <2>1. CASE Reads(c) \/ Misses(c) BY <1>1, <2>1 DEF Reads, Misses, SameConn
  <2>2. CASE \E ch \in Channels : Joins(c, ch)
    <3>1. pc[c] = "prompt" /\ (link[k] # "open" => up'[k] = up[k]) BY <1>k, <2>2 DEF Joins
    <3>2. In(k) => link[k] # "open" BY <1>1, <3>1 DEF In, Members, MemberOK, Replies, Loop
    <3> QED BY <3>1, <3>2
  <2> QED BY <2>1, <2>2
<1>4. Quiet(k) /\ (In(k) => Talks(k))
  <2>1. link[k] \in {"none", "open", "closed", "reset", "ended"} BY <1>1 DEF TypeOK
  <2> QED BY <1>1, <1>2, <1>3, <2>1 DEF Quiet, Talks
<1> QED BY <1>2, <1>4, <1>k, CalmTogether

LEMMA CalmGoesOn ==
  ASSUME TypeOK, Links, Starts, NEW c \in Clients, GoesOn(c)
  PROVE  Calm(c)
<1>k. PICK k : k = Conn(c) OBVIOUS
<1>1. /\ pc[c] \in Loop /\ Alone(c) /\ link' = link /\ told' = told
      /\ \A j \in Conns \ {k} : up'[j] = up[j] /\ read'[j] = read[j]
      /\ \/ typed'[c] = typed[c] /\ up'[k] = up[k]
         \/ /\ typed'[c] = typed[c] + 1
            /\ link[k] = "open" => \E kind \in {"PRIVMSG", "TOPIC"} : Writes(k, kind)
            /\ link[k] # "open" => up'[k] = up[k]
  BY <1>k DEF GoesOn, Shows
<1>2. pc[c] \in Active BY <1>1 DEF Active
<1>3. k \in Conns /\ k[1] = c BY <1>2, <1>k, ArrivesIs
<1>4. \A j \in Conns \ {k} : SameConn(j) BY <1>1 DEF SameConn
<1>5. Quiet(k)
  <2>1. link[k] \in {"none", "open", "closed", "reset", "ended"} BY <1>3 DEF TypeOK
  <2> QED BY <1>1, <2>1 DEF Quiet
<1>6. Talks(k)
  <2>1. CASE up'[k] = up[k] /\ (typed'[c] = typed[c] \/ link[k] # "open")
    BY <1>1, <1>3, <2>1 DEF Talks
  <2>2. CASE typed'[c] = typed[c] + 1 /\ link[k] = "open"
    <3>1. \E kind \in Spoken : Writes(k, kind)
      <4>1. CASE up'[k] = up[k] /\ typed'[c] = typed[c] BY <2>2, <4>1, <1>3 DEF TypeOK
      <4>2. CASE \E kind \in {"PRIVMSG", "TOPIC"} : Writes(k, kind) BY <4>2 DEF Spoken
      <4> QED BY <1>1, <2>2, <4>1, <4>2
    <3> QED BY <1>1, <1>3, <2>2, <3>1 DEF Talks
  <2> QED BY <1>1, <2>1, <2>2
<1> QED BY <1>1, <1>2, <1>4, <1>5, <1>6, <1>k, CalmTogether

LEMMA SaidKept ==
  ASSUME NEW ch \in Channels, NEW k \in Conns, SaidOK(ch, k), up'[k] = up[k],
         link'[k] = "open" => link[k] = "open" /\ typed'[k[1]] = typed[k[1]]
  PROVE  SaidOK(ch, k)'
BY DEF SaidOK

LEMMA SaidWrites ==
  ASSUME TypeOK, TypeOK', NEW ch \in Channels, NEW k \in Conns, SaidOK(ch, k), link[k] = "open",
         NEW kind \in Spoken, Writes(k, kind), userChan[k[1]] = ch,
         link'[k] = "open" => typed'[k[1]] = typed[k[1]] + 1
  PROVE  SaidOK(ch, k)'
<1>n. PICK n : n = Len(up[k]) OBVIOUS
<1>v. PICK v : v = typed[k[1]] OBVIOUS
<1>1. n \in Nat /\ DOMAIN up[k] = 1..n /\ (up[k] = <<>> <=> n = 0)
  BY <1>n, EmptySeq, LenProperties DEF TypeOK
<1>2. v \in Nat BY <1>v, ConnsAre DEF TypeOK
<1>3. /\ Len(up'[k]) = n + 1 /\ \A i \in 1..n : up'[k][i] = up[k][i]
      /\ up'[k][n + 1].kind = kind /\ up'[k][n + 1].from = k
      /\ up'[k][n + 1].chan = ch /\ up'[k][n + 1].val = v + 1
  BY <1>n, <1>v DEF Writes
<1>4. DOMAIN up'[k] = 1..(n + 1) BY <1>1, <1>3, LenProperties DEF TypeOK
<1>5. ASSUME NEW i \in DOMAIN up'[k]
      PROVE  /\ up'[k][i].kind \in Spoken /\ up'[k][i].from = k /\ up'[k][i].chan = ch
             /\ up'[k][i].val > 0
             /\ i + 1 \in DOMAIN up'[k] => up'[k][i + 1].val = up'[k][i].val + 1
  <2>1. CASE i = n + 1
    <3>1. i + 1 \notin DOMAIN up'[k] BY <1>1, <1>4, <2>1
    <3> QED BY <1>2, <1>3, <2>1, <3>1
  <2>2. CASE i # n + 1
    <3>1. i \in 1..n /\ i \in DOMAIN up[k] /\ up'[k][i] = up[k][i] BY <1>1, <1>3, <1>4, <2>2
    <3>2. /\ up[k][i].kind \in Spoken /\ up[k][i].from = k /\ up[k][i].chan = ch
          /\ up[k][i].val > 0
          /\ i + 1 \in DOMAIN up[k] => up[k][i + 1].val = up[k][i].val + 1
      BY <3>1 DEF SaidOK
    <3>3. CASE i = n
      <4>1. up[k][n].val = v BY <1>1, <1>n, <1>v, <3>1 DEF SaidOK
      <4> QED BY <1>3, <3>1, <3>2, <3>3, <4>1
    <3>4. CASE i # n
      <4>1. i + 1 \in 1..n /\ i + 1 \in DOMAIN up[k] BY <1>1, <3>1, <3>4
      <4> QED BY <1>3, <3>1, <3>2, <4>1
    <3> QED BY <3>3, <3>4
  <2> QED BY <2>1, <2>2
<1>6. link'[k] = "open" => up'[k][Len(up'[k])].val = typed'[k[1]] BY <1>3, <1>v
<1> QED BY <1>5, <1>6 DEF SaidOK

LEMMA SaidClient ==
  ASSUME TypeOK, TypeOK', Members, Tracks, Said, NEW c \in Clients, Calm(c)
  PROVE  Said'
<1>1. users' = users BY DEF Calm, Alone, server, rooms
<1>2. ASSUME NEW ch \in Channels, NEW k \in users[ch] PROVE SaidOK(ch, k)'
  <2>1. k \in Conns /\ In(k) BY DEF TypeOK, In
  <2>2. SaidOK(ch, k) /\ Talks(k) BY <2>1 DEF Said, Calm
  <2>3. CASE up'[k] = up[k] /\ (link'[k] = "open" => link[k] = "open" /\ typed'[k[1]] = typed[k[1]])
    BY <2>1, <2>2, <2>3, SaidKept
  <2>4. CASE /\ link[k] = "open" /\ pc[k[1]] \in Loop /\ \E kind \in Spoken : Writes(k, kind)
             /\ link'[k] = "open" => typed'[k[1]] = typed[k[1]] + 1
    <3>1. k[1] \in Clients /\ pc[k[1]] \in Active BY <2>1, <2>4, ConnsAre DEF Active
    <3>2. channel[k[1]] = ch BY <2>4 DEF Members, MemberOK
    <3>3. userChan[k[1]] = ch BY <2>4, <3>1, <3>2 DEF Tracks, TrackOK
    <3> QED BY <2>1, <2>2, <2>4, <3>3, SaidWrites
  <2> QED BY <2>2, <2>3, <2>4 DEF Talks
<1> QED BY <1>1, <1>2 DEF Said

(* The steps of the server. *)

(* A line that is taken up lets nobody in, and only the speaker out. *)
LEMMA NobodyJoins ==
  ASSUME TypeOK, NEW ch \in Channels, NEW k \in Conns, NEW l, Speaks(ch, k, l) \/ Parts(ch, k, l)
  PROVE  \A dh \in Channels : /\ users'[dh] \subseteq users[dh]
                              /\ \A j \in users[dh] : j # k => j \in users'[dh]
<1>1. CASE Speaks(ch, k, l) BY <1>1 DEF Speaks
<1>2. CASE Parts(ch, k, l)
  <2>1. users' = [users EXCEPT ![ch] = @ \ {k}] BY <1>2 DEF Parts
  <2> QED BY <2>1 DEF TypeOK
<1> QED BY <1>1, <1>2

LEMMA SaidRegisters ==
  ASSUME TypeOK, Places, Said, NEW k \in Conns, Registers(k) \/ Receives(k)
  PROVE  Said'
<1>1. /\ users' = users /\ Silent /\ (Asks(k) \/ serving = k)
      /\ up' = [up EXCEPT ![k] = <<>>]
      /\ \A j \in Conns \ {k} : link'[j] = link[j]
  BY DEF Registers, Receives, rooms
<1>2. ~In(k) BY <1>1 DEF Places, PlaceOK
<1>3. ASSUME NEW ch \in Channels, NEW j \in users[ch] PROVE SaidOK(ch, j)'
  <2>1. j \in Conns /\ j # k BY <1>2 DEF TypeOK, In
  <2>2. up'[j] = up[j] /\ link'[j] = link[j] /\ typed' = typed BY <1>1, <2>1, SilentIs DEF TypeOK
  <2>3. SaidOK(ch, j) BY DEF Said
  <2> QED BY <2>1, <2>2, <2>3, SaidKept
<1> QED BY <1>1, <1>3 DEF Said

LEMMA WaitsFirst ==
  ASSUME TypeOK, Places, NEW ch \in Channels, NEW k, Greets(ch, k)
  PROVE  Waits(k) /\ k \in Conns /\ link[k] = "open" /\ pc[k[1]] = "confirm" /\ up[k] = <<>>
         /\ Len(told[k]) = 1 /\ ~In(k)
<1>1. k \in Conns /\ newusers[ch] # <<>> /\ k = newusers[ch][1] BY DEF Greets
<1>2. newusers[ch] \in Seq(Conns) BY DEF TypeOK
<1>3. k = Head(newusers[ch])
      /\ ToSet(newusers[ch]) = {Head(newusers[ch])} \cup ToSet(Tail(newusers[ch]))
  BY <1>1, <1>2, TailIs
<1>4. Waits(k) BY <1>3 DEF Waits
<1> QED BY <1>1, <1>4 DEF Places, PlaceOK

LEMMA SaidGreets ==
  ASSUME TypeOK, Places, Said, NEW ch \in Channels, NEW k, Greets(ch, k)
  PROVE  Said'
<1>1. /\ users' = [users EXCEPT ![ch] = users[ch] \cup {k}] /\ up' = up /\ Silent
      /\ Spread(Conns \ {k}, users[ch], Line("JOIN", k, ch, 0)) /\ link'[k] = link[k]
  BY DEF Greets
<1>2. up[k] = <<>> /\ k \in Conns BY WaitsFirst
<1>3. ASSUME NEW dh \in Channels, NEW j \in users'[dh] PROVE SaidOK(dh, j)'
  <2>1. CASE j = k
    <3>1. up'[j] = <<>> /\ DOMAIN up'[j] = {} BY <1>1, <1>2, <2>1, NothingIn
    <3> QED BY <3>1 DEF SaidOK
  <2>2. CASE j # k
    <3>1. j \in users[dh] /\ j \in Conns BY <1>1, <2>2 DEF TypeOK
    <3>2. link'[j] = "open" => link[j] = "open" BY <1>1, <2>2, <3>1 DEF Spread
    <3>3. SaidOK(dh, j) BY <3>1 DEF Said
    <3> QED BY <1>1, <3>1, <3>2, <3>3, SaidKept, SilentIs
  <2> QED BY <2>1, <2>2
<1> QED BY <1>3 DEF Said

LEMMA SaidSpeaks ==
  ASSUME TypeOK, TypeOK', Members, Said,
         NEW ch \in Channels, NEW k \in Conns, NEW l, Speaks(ch, k, l) \/ Parts(ch, k, l)
  PROVE  Said'
<1>1. Takeup(ch, k, l) /\ Silent /\ k \in users[ch] BY DEF Speaks, Parts, Takeup
<1>2. /\ up'[k] = Tail(up[k]) /\ \A j \in Conns \ {k} : up'[j] = up[j]
      /\ Len(up[k]) \in Nat /\ Len(up'[k]) = Len(up[k]) - 1
      /\ DOMAIN up[k] = 1..Len(up[k]) /\ DOMAIN up'[k] = 1..Len(up'[k])
      /\ \A i \in DOMAIN up'[k] : i + 1 \in DOMAIN up[k] /\ up'[k][i] = up[k][i + 1]
  BY <1>1, TakeupIs
<1>3. \A dh \in Channels : users'[dh] \subseteq users[dh] BY NobodyJoins
<1>4. \A j \in Conns : link'[j] = "open" => link[j] = "open"
  <2>1. CASE Speaks(ch, k, l) BY <2>1 DEF Speaks, Spread
  <2>2. CASE Parts(ch, k, l) BY <2>2 DEF Parts, Spread
  <2> QED BY <2>1, <2>2
<1>5. ASSUME NEW dh \in Channels, NEW j \in users[dh] PROVE SaidOK(dh, j)'
  <2>1. j \in Conns /\ SaidOK(dh, j) BY DEF TypeOK, Said
  <2>2. CASE j # k BY <1>1, <1>2, <1>4, <2>1, <2>2, SaidKept, SilentIs
  <2>3. CASE j = k
    <3>1. ASSUME NEW i \in DOMAIN up'[k]
          PROVE  /\ up'[k][i].kind \in Spoken /\ up'[k][i].from = k /\ up'[k][i].chan = dh
                 /\ up'[k][i].val > 0
                 /\ i + 1 \in DOMAIN up'[k] => up'[k][i + 1].val = up'[k][i].val + 1
      <4>1. i + 1 \in DOMAIN up[k] /\ up'[k][i] = up[k][i + 1] BY <1>2
      <4>2. i + 1 \in DOMAIN up'[k] => (i + 1) + 1 \in DOMAIN up[k]
            /\ up'[k][i + 1] = up[k][(i + 1) + 1]
        BY <1>2
      <4> QED BY <2>1, <2>3, <4>1, <4>2 DEF SaidOK
    <3>2. ASSUME link'[k] = "open", up'[k] # <<>> PROVE up'[k][Len(up'[k])].val = typed'[k[1]]
      <4>1. Len(up'[k]) # 0 BY <3>2, EmptySeq DEF TypeOK
      <4>2. Len(up'[k]) \in DOMAIN up'[k] /\ Len(up'[k]) + 1 = Len(up[k]) /\ Len(up[k]) > 0
        <5>m. PICK m, n : m = Len(up'[k]) /\ n = Len(up[k]) OBVIOUS
        <5>1. m \in Nat BY <5>m, LenProperties DEF TypeOK
        <5>2. m # 0 /\ n \in Nat /\ m = n - 1 /\ DOMAIN up'[k] = 1..m BY <5>m, <4>1, <1>2
        <5>3. m \in 1..m /\ m + 1 = n /\ n > 0 BY <5>1, <5>2
        <5> QED BY <5>m, <5>2, <5>3
      <4>3. up'[k][Len(up'[k])] = up[k][Len(up[k])] BY <1>2, <4>2
      <4>4. up[k] # <<>> /\ link[k] = "open" BY <1>4, <3>2, <4>2, EmptySeq
      <4> QED BY <1>1, <2>1, <2>3, <4>3, <4>4, SilentIs DEF SaidOK
    <3> QED BY <2>3, <3>1, <3>2 DEF SaidOK
  <2> QED BY <2>2, <2>3
<1> QED BY <1>3, <1>5 DEF Said

LEMMA SaidStops ==
  ASSUME TypeOK, TypeOK', Said, (\E ch \in Channels : ThreadEnds(ch)) \/ ServerStops
  PROVE  Said'
<1>1. CASE ServerStops
  <2>1. \A ch \in Channels : users'[ch] = {} BY <1>1 DEF ServerStops
  <2> QED BY <2>1 DEF Said
<1>2. CASE \E ch \in Channels : ThreadEnds(ch)
  <2>1. /\ up' = up /\ typed' = typed
        /\ \A dh \in Channels : users'[dh] \subseteq users[dh]
        /\ \A j \in Conns : link'[j] = "open" => link[j] = "open"
    BY <1>2 DEF ThreadEnds, TypeOK, client
  <2>2. ASSUME NEW dh \in Channels, NEW j \in users[dh] PROVE SaidOK(dh, j)'
    <3>1. j \in Conns /\ SaidOK(dh, j) BY DEF TypeOK, Said
    <3> QED BY <2>1, <3>1, SaidKept
  <2> QED BY <2>1, <2>2 DEF Said
<1> QED BY <1>1, <1>2

-----------------------------------------------------------------------------
(* What one is told of another. *)

Pair(j, k) == InARow(j, k) /\ (Unheard(k) => Words(j, k) = {}) /\ Follows(j, k)

SameWords(j, k) ==
  Words(j, k)' = Words(j, k) /\ \A m \in Words(j, k) : told'[j][m].val = told[j][m].val

(* Who was a guest of the same channel before, and what is next from k. *)
Before(j, k) ==
  Together(j, k)' /\ link'[j] = "open" /\ (up'[k] # <<>> \/ link'[k] = "open")
    => /\ Together(j, k) /\ link[j] = "open" /\ (up[k] # <<>> \/ link[k] = "open")
       /\ NextVal(k)' = NextVal(k)

LEMMA WordsKept ==
  ASSUME NEW j \in Conns, NEW k \in Conns, told'[j] = told[j]
  PROVE  SameWords(j, k)
BY DEF SameWords, Words

LEMMA WordsGet ==
  ASSUME TypeOK, TypeOK', NEW j \in Conns, NEW k \in Conns, NEW l, Gets(j, l), Len(told[j]) >= 5
  PROVE  LET n == Len(told[j]) IN
         /\ n \in Nat /\ \A m \in Words(j, k) : m \in 1..n
         /\ Words(j, k)' = Words(j, k) \cup (IF l.from = k THEN {n + 1} ELSE {})
         /\ \A m \in Words(j, k) : told'[j][m] = told[j][m]
         /\ told'[j][n + 1] = l
<1> PICK n : n = Len(told[j]) OBVIOUS
<1>1. n \in Nat /\ DOMAIN told[j] = 1..n /\ n >= 5 BY ToldIs
<1>2. Len(told'[j]) = n + 1 /\ told'[j][n + 1] = l /\ \A i \in 1..n : told'[j][i] = told[j][i]
  BY DEF Gets
<1>3. DOMAIN told'[j] = 1..(n + 1) BY <1>1, <1>2, LenProperties DEF TypeOK
<1>4. \A m \in Words(j, k) : m \in 1..n BY <1>1 DEF Words
<1>5. ASSUME NEW m
      PROVE  m \in Words(j, k)' <=> m \in Words(j, k) \/ (l.from = k /\ m = n + 1)
  <2>1. m \in Words(j, k)' <=> m \in 1..(n + 1) /\ m > 5 /\ told'[j][m].from = k BY <1>3 DEF Words
  <2>2. m \in Words(j, k) <=> m \in 1..n /\ m > 5 /\ told[j][m].from = k BY <1>1 DEF Words
  <2>3. m \in 1..(n + 1) <=> m \in 1..n \/ m = n + 1 BY <1>1
  <2>4. n + 1 > 5 /\ n + 1 \notin 1..n BY <1>1
  <2> QED BY <1>2, <2>1, <2>2, <2>3, <2>4
<1>6. Words(j, k)' = Words(j, k) \cup (IF l.from = k THEN {n + 1} ELSE {}) BY <1>5
<1> QED BY <1>1, <1>2, <1>4, <1>6

LEMMA PairKept ==
  ASSUME NEW j \in Conns, NEW k \in Conns, Pair(j, k), SameWords(j, k),
         Unheard(k)' => Unheard(k), Before(j, k)
  PROVE  Pair(j, k)'
<1>1. InARow(j, k)' BY DEF Pair, InARow, SameWords
<1>2. Unheard(k)' => Words(j, k)' = {} BY DEF Pair, SameWords
<1>3. Follows(j, k)'
  <2> SUFFICES ASSUME Together(j, k)', link'[j] = "open", up'[k] # <<>> \/ link'[k] = "open"
      PROVE  UpTo(j, k)'
    BY DEF Follows
  <2>1. UpTo(j, k) /\ NextVal(k)' = NextVal(k) BY DEF Pair, Follows, Before
  <2> QED BY <2>1 DEF UpTo, SameWords
<1> QED BY <1>1, <1>2, <1>3 DEF Pair

LEMMA PairNone ==
  ASSUME NEW j \in Conns, NEW k \in Conns, Words(j, k)' = {}
  PROVE  Pair(j, k)'
BY DEF Pair, InARow, Follows, UpTo

LEMMA PairThere ==
  ASSUME Heard, NEW j \in Conns, NEW k \in Conns \ {j}
  PROVE  Pair(j, k)
BY DEF Heard, Pair

LEMMA PairsTogether ==
  ASSUME \A j \in Conns : \A k \in Conns \ {j} : Pair(j, k)'
  PROVE  Heard'
BY DEF Heard, Pair

LEMMA TooFew ==
  ASSUME TypeOK', NEW j \in Conns, NEW k \in Conns, Len(told'[j]) <= 5
  PROVE  Words(j, k)' = {}
<1>1. DOMAIN told'[j] = 1..Len(told'[j]) /\ Len(told'[j]) \in Nat BY LenProperties DEF TypeOK
<1>2. \A i \in DOMAIN told'[j] : ~(i > 5) BY <1>1
<1> QED BY <1>2 DEF Words

(* The next line of a member, before and after its client writes one more. *)
LEMMA NextStays ==
  ASSUME TypeOK, TypeOK', NEW k \in Conns, Talks(k), up'[k] # <<>> \/ link'[k] = "open"
  PROVE  (up[k] # <<>> \/ link[k] = "open") /\ NextVal(k)' = NextVal(k)
<1>1. CASE up'[k] = up[k] /\ (link'[k] = "open" => link[k] = "open" /\ typed'[k[1]] = typed[k[1]])
  BY <1>1 DEF NextVal
<1>2. CASE /\ link[k] = "open" /\ \E kind \in Spoken : Writes(k, kind)
  <2>n. PICK n : n = Len(up[k]) OBVIOUS
  <2>1. n \in Nat /\ (up[k] = <<>> <=> n = 0) BY <2>n, EmptySeq, LenProperties DEF TypeOK
  <2>2. /\ Len(up'[k]) = n + 1 /\ \A i \in 1..n : up'[k][i] = up[k][i]
        /\ up'[k][n + 1].val = typed[k[1]] + 1
    BY <1>2, <2>n DEF Writes
  <2>3. up'[k] # <<>> BY <2>1, <2>2, EmptySeq
  <2>4. up'[k][1].val = NextVal(k)
    <3>1. CASE n = 0 BY <2>1, <2>2, <3>1 DEF NextVal
    <3>2. CASE n # 0
      <4>1. 1 \in 1..n BY <2>1, <3>2
      <4> QED BY <2>1, <2>2, <3>2, <4>1 DEF NextVal
    <3> QED BY <3>1, <3>2
  <2> QED BY <1>2, <2>3, <2>4 DEF NextVal
<1> QED BY <1>1, <1>2 DEF Talks

LEMMA HeardClient ==
  ASSUME TypeOK, TypeOK', Members, Heard, NEW c \in Clients, Calm(c)
  PROVE  Heard'
<1>1. users' = users BY DEF Calm, Alone, server, rooms
<1>2. \A j, k \in Conns : Together(j, k)' <=> Together(j, k) BY <1>1 DEF Together
<1>3. \A k \in Conns : In(k)' <=> In(k) BY <1>1 DEF In
<1>4. ASSUME NEW j \in Conns, NEW k \in Conns \ {j} PROVE Pair(j, k)'
  <2>1. Pair(j, k) BY PairThere
  <2>2. Quiet(j) /\ Quiet(k) BY DEF Calm
  <2>3. CASE told'[j] = <<>>
    <3>1. Len(told'[j]) = 0 BY <2>3, EmptySeq
    <3> QED BY <3>1, TooFew, PairNone
  <2>4. CASE told'[j] = told[j]
    <3>1. SameWords(j, k) BY <2>4, WordsKept
    <3>2. Unheard(k)' => Unheard(k) BY <1>3, <2>2 DEF Unheard, Quiet
    <3>3. Before(j, k)
      <4> SUFFICES ASSUME Together(j, k), link'[j] = "open", up'[k] # <<>> \/ link'[k] = "open"
          PROVE  /\ link[j] = "open" /\ (up[k] # <<>> \/ link[k] = "open")
                 /\ NextVal(k)' = NextVal(k)
        BY <1>2 DEF Before
      <4>1. In(j) /\ In(k) BY DEF Together, In
      <4>2. link[j] # "none" BY <4>1 DEF In, Members, MemberOK
      <4>3. Talks(k) BY <4>1 DEF Calm
      <4> QED BY <2>2, <4>2, <4>3, NextStays DEF Quiet
    <3> QED BY <2>1, <3>1, <3>2, <3>3, PairKept
  <2> QED BY <2>2, <2>3, <2>4 DEF Quiet
<1> QED BY <1>4, PairsTogether

(* The steps of the server. *)
LEMMA PairsStay ==
  ASSUME Heard,
         \A j \in Conns : told'[j] = told[j],
         \A k \in Conns : Unheard(k)' => Unheard(k),
         \A j \in Conns : \A k \in Conns \ {j} : Before(j, k)
  PROVE  Heard'
<1>1. ASSUME NEW j \in Conns, NEW k \in Conns \ {j} PROVE Pair(j, k)'
  <2>1. SameWords(j, k) BY WordsKept
  <2> QED BY <2>1, PairThere, PairKept
<1> QED BY <1>1, PairsTogether

LEMMA HeardRegisters ==
  ASSUME TypeOK, TypeOK', Places, Heard, NEW k \in Conns, Registers(k) \/ Receives(k)
  PROVE  Heard'
<1>1. /\ users' = users /\ Silent /\ (Asks(k) \/ serving = k)
      /\ up' = [up EXCEPT ![k] = <<>>]
      /\ \A j \in Conns \ {k} : told'[j] = told[j] /\ link'[j] = link[j]
  BY DEF Registers, Receives, rooms
<1>2. ~In(k) /\ link[k] = "open" BY <1>1 DEF Places, PlaceOK
<1>3. \A i, j \in Conns : Together(i, j)' <=> Together(i, j) BY <1>1 DEF Together
<1>4. \A j \in Conns : In(j)' <=> In(j) BY <1>1 DEF In
<1>5. \A j \in Conns : Unheard(j)' => Unheard(j) BY <1>1, <1>2, <1>4 DEF Unheard
<1>6. \A j \in Conns \ {k} : up'[j] = up[j] /\ typed' = typed BY <1>1, SilentIs
<1>7. ASSUME NEW i \in Conns, NEW j \in Conns PROVE Before(i, j)
  <2> SUFFICES ASSUME Together(i, j)
      PROVE  NextVal(j)' = NextVal(j) /\ link'[i] = link[i] /\ link'[j] = link[j] /\ up'[j] = up[j]
    BY <1>3 DEF Before
  <2>1. In(i) /\ In(j) BY DEF Together, In
  <2>2. i # k /\ j # k BY <1>2, <2>1
  <2> QED BY <1>1, <1>6, <2>2 DEF NextVal
<1>8. ASSUME NEW i \in Conns, NEW j \in Conns \ {i} PROVE Pair(i, j)'
  <2>1. CASE told'[i] = told[i]
    <3>1. SameWords(i, j) BY <2>1, WordsKept
    <3> QED BY <1>5, <1>7, <3>1, PairThere, PairKept
  <2>2. CASE told'[i] # told[i]
    <3>1. i = k /\ Registers(k) BY <1>1, <2>2 DEF Receives
    <3>2. \/ told'[k] = <<Line("001", None, None, 0)>>
          \/ told'[k] = <<Line("464", None, None, 0)>>
      BY <3>1 DEF Registers
    <3>3. Len(told'[i]) = 1 BY <3>1, <3>2
    <3>4. Len(told'[i]) <= 5 BY <3>3
    <3> QED BY <3>4, TooFew, PairNone
  <2> QED BY <2>1, <2>2
<1> QED BY <1>8, PairsTogether

LEMMA HeardStops ==
  ASSUME TypeOK, TypeOK', Heard, (\E ch \in Channels : ThreadEnds(ch)) \/ ServerStops
  PROVE  Heard'
<1>1. told' = told /\ typed' = typed BY DEF ThreadEnds, ServerStops, client
<1>2. CASE ServerStops
  <2>1. /\ \A ch \in Channels : users'[ch] = {}
        /\ \A j \in Conns : link'[j] = IF link[j] = "none" THEN "none" ELSE "ended"
    BY <1>2 DEF ServerStops
  <2>2. \A j \in Conns : Unheard(j)' => Unheard(j) BY <2>1 DEF Unheard
  <2>3. \A i, j \in Conns : Before(i, j) BY <2>1 DEF Before, Together
  <2> QED BY <1>1, <2>2, <2>3, PairsStay
<1>3. ASSUME NEW ch \in Channels, ThreadEnds(ch) PROVE Heard'
  <2>1. /\ up' = up /\ users' = [users EXCEPT ![ch] = {}]
        /\ \A j \in Conns : link'[j] = IF j \in users[ch] THEN "ended" ELSE link[j]
    BY <1>3 DEF ThreadEnds
  <2>2. ASSUME NEW j \in Conns, Unheard(j)' PROVE Unheard(j)
    <3>1. CASE j \in users[ch] BY <2>1, <2>2, <3>1 DEF Unheard
    <3>2. CASE j \notin users[ch]
      <4>1. In(j) => In(j)'
        <5>1. \A dh \in Channels : j \in users[dh] => j \in users'[dh] BY <2>1, <3>2 DEF TypeOK
        <5> QED BY <5>1 DEF In
      <4> QED BY <2>1, <2>2, <3>2, <4>1 DEF Unheard
    <3> QED BY <3>1, <3>2
  <2>3. ASSUME NEW i \in Conns, NEW j \in Conns PROVE Before(i, j)
    <3> SUFFICES ASSUME Together(i, j)', link'[i] = "open", up'[j] # <<>> \/ link'[j] = "open"
        PROVE  /\ Together(i, j) /\ link[i] = "open" /\ (up[j] # <<>> \/ link[j] = "open")
               /\ NextVal(j)' = NextVal(j)
      BY DEF Before
    <3>1. Together(i, j) BY <2>1 DEF Together, TypeOK
    <3>2. NextVal(j)' = NextVal(j) BY <1>1, <2>1 DEF NextVal
    <3> QED BY <2>1, <3>1, <3>2
  <2> QED BY <1>1, <2>2, <2>3, PairsStay
<1> QED BY <1>2, <1>3

(* Only members that are there are written to, and they have the replies. *)
LEMMA SpreadTo ==
  ASSUME TypeOK, Members, NEW ch \in Channels, NEW S \in SUBSET Conns, NEW T \in SUBSET users[ch],
         NEW l, Spread(S, T, l), NEW j \in S
  PROVE  \/ /\ Gets(j, l) /\ Len(told[j]) >= 5 /\ j \in T /\ link[j] = "open" /\ link'[j] = "open"
         \/ told'[j] = told[j] /\ (j \notin T \/ link[j] # "open")
<1>1. /\ IF j \in T /\ link[j] = "open" THEN Gets(j, l) ELSE told'[j] = told[j]
      /\ link'[j] = IF j \in T /\ link[j] = "closed" THEN "reset" ELSE link[j]
  BY DEF Spread
<1>2. j \in T /\ link[j] = "open" => Len(told[j]) >= 5 BY DEF Members, MemberOK
<1> QED BY <1>1, <1>2

(* A line of somebody else. *)
LEMMA OthersWords ==
  ASSUME TypeOK, TypeOK', NEW i \in Conns, NEW j \in Conns, NEW l, l.from # j,
         (Gets(i, l) /\ Len(told[i]) >= 5) \/ told'[i] = told[i]
  PROVE  SameWords(i, j)
<1>1. CASE told'[i] = told[i] BY <1>1, WordsKept
<1>2. CASE Gets(i, l) /\ Len(told[i]) >= 5
  <2>1. /\ Words(i, j)' = Words(i, j) \cup (IF l.from = j THEN {Len(told[i]) + 1} ELSE {})
        /\ \A m \in Words(i, j) : told'[i][m] = told[i][m]
    BY <1>2, WordsGet
  <2> QED BY <2>1 DEF SameWords
<1> QED BY <1>1, <1>2

LEMMA HeardGreets ==
  ASSUME TypeOK, TypeOK', Places, Members, Tracks, Heard,
         NEW ch \in Channels, NEW k, Greets(ch, k)
  PROVE  Heard'
<1>l. PICK l : l = Line("JOIN", k, ch, 0) OBVIOUS
<1>1. /\ users' = [users EXCEPT ![ch] = users[ch] \cup {k}] /\ up' = up /\ Silent
      /\ Spread(Conns \ {k}, users[ch], l) /\ link'[k] = link[k] /\ Len(told'[k]) = 5
  BY <1>l DEF Greets
<1>2. Waits(k) /\ k \in Conns /\ link[k] = "open" /\ pc[k[1]] = "confirm" /\ up[k] = <<>> /\ ~In(k)
  BY WaitsFirst
<1>3. l.from = k /\ l.val = 0 BY <1>l, <1>2, LineIs DEF Kinds
<1>4. typed' = typed /\ typed[k[1]] = 0
  <2>1. k[1] \in Clients BY <1>2, ConnsAre
  <2>2. pc[k[1]] \in Active /\ pc[k[1]] \notin Loop BY <1>2 DEF Active, Replies, Loop
  <2> QED BY <1>1, <2>1, <2>2, SilentIs DEF Tracks, TrackOK
<1>5. \A j \in Conns : NextVal(j)' = NextVal(j) BY <1>1, <1>4 DEF NextVal
<1>6. NextVal(k) = 1 BY <1>2, <1>4 DEF NextVal
<1>7. \A j \in Conns : link'[j] = link[j] \/ (link[j] = "closed" /\ link'[j] = "reset")
  BY <1>1 DEF Spread
<1>8. ASSUME NEW j \in Conns, Unheard(j)' PROVE Unheard(j)
  <2>1. In(j) => In(j)' BY <1>1 DEF In, TypeOK
  <2> QED BY <1>7, <1>8, <2>1 DEF Unheard
<1>9. ASSUME NEW i \in Conns, NEW j \in Conns \ {i} PROVE Pair(i, j)'
  <2>1. CASE i = k
    <3>1. Len(told'[i]) = 5 BY <1>1, <2>1
    <3>2. Len(told'[i]) <= 5 BY <3>1
    <3> QED BY <3>2, TooFew, PairNone
  <2>2. CASE i # k /\ j # k
    <3>1. (Gets(i, l) /\ Len(told[i]) >= 5) \/ told'[i] = told[i] BY <1>1, <2>2, SpreadTo
    <3>2. SameWords(i, j) BY <1>3, <2>2, <3>1, OthersWords
    <3>3. Together(i, j)' => Together(i, j) BY <1>1, <2>2 DEF Together, TypeOK
    <3>4. Before(i, j) BY <1>1, <1>5, <1>7, <3>3 DEF Before
    <3> QED BY <1>8, <3>2, <3>4, PairThere, PairKept
  <2>3. CASE i # k /\ j = k
    <3>1. Words(i, k) = {} BY <1>2, <2>3, PairThere DEF Pair, Unheard
    <3>2. CASE told'[i] = told[i]
      <4>1. Words(i, k)' = {} BY <1>2, <3>1, <3>2, WordsKept DEF SameWords
      <4> QED BY <1>2, <2>3, <4>1, PairNone
    <3>3. CASE Gets(i, l) /\ Len(told[i]) >= 5
      <4>n. PICK n : n = Len(told[i]) OBVIOUS
      <4>1. n \in Nat /\ Words(i, k)' = {n + 1} /\ told'[i][n + 1] = l
        BY <1>2, <1>3, <3>1, <3>3, <4>n, WordsGet
      <4>2. InARow(i, k)'
        <5>1. \A m, p \in Words(i, k)' : ~(m < p) BY <4>1
        <5> QED BY <5>1 DEF InARow
      <4>3. UpTo(i, k)' BY <1>3, <1>5, <1>6, <1>2, <4>1 DEF UpTo
      <4>4. ~Unheard(k)'
        <5>1. In(k)' BY <1>1, <1>2 DEF In, TypeOK
        <5> QED BY <1>1, <1>2, <5>1 DEF Unheard
      <4> QED BY <2>3, <4>2, <4>3, <4>4 DEF Pair, Follows
    <3> QED BY <1>1, <2>3, <3>2, <3>3, SpreadTo
  <2> QED BY <2>1, <2>2, <2>3
<1> QED BY <1>9, PairsTogether

LEMMA HeardSpeaks ==
  ASSUME TypeOK, TypeOK', Members, Said, Heard,
         NEW ch \in Channels, NEW k \in Conns, NEW l, Speaks(ch, k, l) \/ Parts(ch, k, l)
  PROVE  Heard'
<1>1. /\ Takeup(ch, k, l) /\ Silent /\ k \in users[ch] /\ up[k] # <<>> /\ l = up[k][1]
  BY DEF Speaks, Parts, Takeup
<1>2. typed' = typed BY <1>1, SilentIs
<1>3. /\ \A j \in Conns \ {k} : up'[j] = up[j]
      /\ l.kind \in Spoken /\ l.from = k /\ l.val \in Nat /\ MemberOK(ch, k)
  BY <1>1, TakeupIs
<1>4. \A dh \in Channels : users'[dh] \subseteq users[dh] BY NobodyJoins
<1>5. \E T \in SUBSET users[ch] : /\ Spread(Conns \ {k}, T, l)
                                  /\ \A j \in users[ch] \ {k} : j \in T
  <2>1. CASE Speaks(ch, k, l)
    <3>1. \E T \in SUBSET users[ch] : Spread(Conns, T, l) /\ \A j \in users[ch] \ {k} : j \in T
      BY <2>1 DEF Speaks
    <3> QED BY <3>1 DEF Spread
  <2>2. CASE Parts(ch, k, l)
    <3>1. Spread(Conns \ {k}, users[ch] \ {k}, l) BY <2>2 DEF Parts
    <3> QED BY <3>1
  <2> QED BY <2>1, <2>2
<1>6. PICK T \in SUBSET users[ch] : /\ Spread(Conns \ {k}, T, l)
                                    /\ \A j \in users[ch] \ {k} : j \in T
  BY <1>5
<1>7. \A j \in Conns \ {k} :
        /\ link'[j] = link[j] \/ (link[j] = "closed" /\ link'[j] = "reset")
        /\ \/ /\ Gets(j, l) /\ Len(told[j]) >= 5 /\ j \in T /\ link[j] = "open"
           \/ told'[j] = told[j] /\ (j \notin T \/ link[j] # "open")
  <2> SUFFICES ASSUME NEW j \in Conns \ {k}
      PROVE  /\ link'[j] = link[j] \/ (link[j] = "closed" /\ link'[j] = "reset")
             /\ \/ /\ Gets(j, l) /\ Len(told[j]) >= 5 /\ j \in T /\ link[j] = "open"
                \/ told'[j] = told[j] /\ (j \notin T \/ link[j] # "open")
    OBVIOUS
  <2>1. link'[j] = link[j] \/ (link[j] = "closed" /\ link'[j] = "reset") BY <1>6 DEF Spread
  <2>2. \/ Gets(j, l) /\ Len(told[j]) >= 5 /\ j \in T /\ link[j] = "open"
        \/ told'[j] = told[j] /\ (j \notin T \/ link[j] # "open")
    BY <1>6, SpreadTo
  <2> QED BY <2>1, <2>2
<1>8. (Gets(k, l) /\ Len(told[k]) >= 5) \/ told'[k] = told[k]
  <2>1. CASE Speaks(ch, k, l)
    <3>1. \E U \in SUBSET users[ch] : Spread(Conns, U, l) BY <2>1 DEF Speaks
    <3> QED BY <3>1, SpreadTo
  <2>2. CASE Parts(ch, k, l) BY <2>2 DEF Parts
  <2> QED BY <2>1, <2>2
<1>9. /\ link'[k] = "open" => link[k] = "open"
      /\ ~Unheard(k)'
  <2>1. CASE Speaks(ch, k, l)
    <3>1. /\ users' = users
          /\ link'[k] = link[k] \/ (link[k] = "closed" /\ link'[k] = "reset")
      BY <2>1 DEF Speaks, Spread
    <3>2. In(k)' BY <1>1, <2>1 DEF Speaks, In
    <3>3. link[k] # "none" BY <1>3 DEF MemberOK
    <3> QED BY <2>1, <3>1, <3>2, <3>3 DEF Unheard, Speaks
  <2>2. CASE Parts(ch, k, l) BY <2>2 DEF Parts, Unheard
  <2> QED BY <2>1, <2>2
<1>10. ASSUME NEW j \in Conns \ {k}, Unheard(j)' PROVE Unheard(j)
  <2>1. In(j) => In(j)'
    <3>1. \A dh \in Channels : j \in users[dh] => j \in users'[dh]
      BY NobodyJoins
    <3> QED BY <3>1 DEF In
  <2> QED BY <1>7, <1>10, <2>1 DEF Unheard
<1>11. \A i, j \in Conns : Together(i, j)' => Together(i, j) BY <1>4 DEF Together
<1>12. \A i \in Conns : link'[i] = "open" => link[i] = "open" BY <1>7, <1>9
<1>13. ASSUME NEW i \in Conns, NEW j \in Conns \ {i}, j # k PROVE Pair(i, j)'
  <2>1. (Gets(i, l) /\ Len(told[i]) >= 5) \/ told'[i] = told[i] BY <1>7, <1>8
  <2>2. SameWords(i, j) BY <1>3, <1>13, <2>1, OthersWords
  <2>3. NextVal(j)' = NextVal(j) /\ up'[j] = up[j] BY <1>2, <1>3, <1>13 DEF NextVal
  <2>4. Before(i, j) BY <1>11, <1>12, <2>3 DEF Before
  <2> QED BY <1>10, <1>13, <2>2, <2>4, PairThere, PairKept
<1>14. ASSUME up'[k] # <<>> \/ link'[k] = "open" PROVE NextVal(k)' = l.val + 1
  <2>1. SaidOK(ch, k) BY <1>1 DEF Said
  <2>l. Len(up[k]) \in Nat /\ Len(up'[k]) = Len(up[k]) - 1 BY <1>1, TakeupIs
  <2>2. /\ 1 \in DOMAIN up[k]
        /\ up'[k] # <<>> => 2 \in DOMAIN up[k] /\ up'[k][1] = up[k][2]
    BY <1>1, TakeupIs
  <2>3. CASE up'[k] # <<>>
    <3>1. 1 + 1 \in DOMAIN up[k] => up[k][1 + 1].val = up[k][1].val + 1
      BY <2>1, <2>2 DEF SaidOK
    <3>2. up[k][2].val = up[k][1].val + 1 BY <2>2, <2>3, <3>1
    <3> QED BY <1>1, <2>2, <2>3, <3>2 DEF NextVal
  <2>4. CASE up'[k] = <<>>
    <3>1. Len(up'[k]) = 0 BY <2>4, EmptySeq
    <3>m. PICK m, n : m = Len(up'[k]) /\ n = Len(up[k]) OBVIOUS
    <3>n. m = 0 /\ n \in Nat /\ m = n - 1 BY <2>l, <3>1, <3>m
    <3>2. Len(up[k]) = 1 BY <3>m, <3>n
    <3>3. link[k] = "open" BY <1>9, <1>14, <2>4
    <3>4. up[k][1].val = typed[k[1]] BY <1>1, <2>1, <3>2, <3>3 DEF SaidOK
    <3> QED BY <1>1, <1>2, <2>4, <3>4 DEF NextVal
  <2> QED BY <2>3, <2>4
<1>15. ASSUME NEW i \in Conns \ {k} PROVE Pair(i, k)'
  <2>p. Pair(i, k) BY PairThere
  <2>1. CASE told'[i] = told[i] /\ (i \notin T \/ link[i] # "open")
    <3>1. SameWords(i, k) BY <2>1, WordsKept
    <3>2. ~(Together(i, k)' /\ link'[i] = "open")
      <4> SUFFICES ASSUME Together(i, k)', link'[i] = "open" PROVE FALSE OBVIOUS
      <4>1. PICK dh \in Channels : i \in users[dh] /\ k \in users[dh] BY <1>11 DEF Together
      <4>2. dh = ch BY <1>3, <4>1 DEF MemberOK
      <4>3. i \in T /\ link[i] = "open" BY <1>6, <1>12, <4>1, <4>2
      <4> QED BY <2>1, <4>3
    <3>3. Before(i, k) BY <3>2 DEF Before
    <3> QED BY <1>9, <2>p, <3>1, <3>3, PairKept
  <2>2. CASE Gets(i, l) /\ Len(told[i]) >= 5 /\ i \in T /\ link[i] = "open"
    <3>n. PICK n : n = Len(told[i]) OBVIOUS
    <3>1. /\ n \in Nat /\ \A m \in Words(i, k) : m \in 1..n
          /\ Words(i, k)' = Words(i, k) \cup (IF l.from = k THEN {n + 1} ELSE {})
          /\ \A m \in Words(i, k) : told'[i][m] = told[i][m]
          /\ told'[i][n + 1] = l
      BY <2>2, <3>n, WordsGet
    <3>2. Words(i, k)' = Words(i, k) \cup {n + 1} BY <1>3, <3>1
    <3>3. UpTo(i, k)
      <4>1. Together(i, k) BY <1>1, <2>2 DEF Together
      <4> QED BY <1>1, <2>p, <2>2, <4>1 DEF Pair, Follows
    <3>4. NextVal(k) = l.val BY <1>1 DEF NextVal
    <3>5. InARow(i, k)'
      <4> SUFFICES ASSUME NEW m \in Words(i, k)', NEW p \in Words(i, k)', m < p,
                          \A q \in (m + 1)..(p - 1) : q \notin Words(i, k)'
          PROVE  told'[i][p].val = told'[i][m].val + 1
        BY DEF InARow
      <4>1. m \in 1..(n + 1) /\ p \in 1..(n + 1) BY <3>1, <3>2
      <4>2. m # n + 1 /\ m \in Words(i, k) BY <3>1, <3>2, <4>1
      <4>3. CASE p = n + 1
        <5>1. ASSUME NEW q \in Words(i, k) PROVE q <= m
          <6>1. q \in 1..n /\ q \in Words(i, k)' BY <3>1, <3>2
          <6>2. q \notin (m + 1)..(p - 1) BY <6>1
          <6> QED BY <3>1, <4>1, <4>3, <6>1, <6>2
        <5>2. told[i][m].val + 1 = l.val BY <3>3, <3>4, <4>2, <5>1 DEF UpTo
        <5> QED BY <3>1, <4>2, <4>3, <5>2
      <4>4. CASE p # n + 1
        <5>1. p \in Words(i, k) BY <3>2, <4>4
        <5>2. \A q \in (m + 1)..(p - 1) : q \notin Words(i, k) BY <3>2
        <5>3. told[i][p].val = told[i][m].val + 1
          BY <2>p, <4>2, <5>1, <5>2 DEF Pair, InARow
        <5> QED BY <3>1, <4>2, <5>1, <5>3
      <4> QED BY <4>3, <4>4
    <3>6. Follows(i, k)'
      <4> SUFFICES ASSUME up'[k] # <<>> \/ link'[k] = "open",
                          NEW m \in Words(i, k)', \A q \in Words(i, k)' : q <= m
          PROVE  told'[i][m].val + 1 = NextVal(k)'
        BY DEF Follows, UpTo
      <4>1. n + 1 <= m /\ m \in 1..(n + 1) BY <3>1, <3>2
      <4>2. m = n + 1 BY <3>1, <4>1
      <4> QED BY <1>14, <3>1, <4>2
    <3> QED BY <1>9, <3>5, <3>6 DEF Pair
  <2> QED BY <1>7, <2>1, <2>2
<1>16. ASSUME NEW i \in Conns, NEW j \in Conns \ {i} PROVE Pair(i, j)'
  BY <1>13, <1>15
<1> QED BY <1>16, PairsTogether

-----------------------------------------------------------------------------
(* The topic: the last one a member has been told is the one of its channel. *)

Newest(k, m) == m \in Topical(k) /\ \A n \in Topical(k) : n <= m

(* The last topic among the lines the client has taken up. *)
Seen(k, m) == /\ m \in Topical(k) /\ m <= At(k[1])
              /\ \A n \in Topical(k) : n <= At(k[1]) => n <= m

ToldTopic(ch, k) ==
  /\ \E m : Newest(k, m) /\ TopicOf(told[k][m]) = topic[ch]
  /\ \A i \in Topical(k) : told[k][i].chan = ch

HasTopic(k) ==
  At(k[1]) >= 3 => \E m : Seen(k, m) /\ channelTopic[k[1]] = TopicOf(told[k][m])

LEMMA CurrentIs ==
  ASSUME NEW ch, NEW k
  PROVE  CurrentOK(ch, k) <=> (link[k] = "open" => ToldTopic(ch, k) /\ HasTopic(k))
BY DEF CurrentOK, ToldTopic, HasTopic, Newest, Seen

LEMMA TopicSame ==
  ASSUME TRUE
  PROVE  \A line : TopicOf(line)' = TopicOf(line)
BY DEF TopicOf

LEMMA ToldTopicKept ==
  ASSUME NEW ch \in Channels, NEW k \in Conns, ToldTopic(ch, k), told'[k] = told[k],
         topic'[ch] = topic[ch]
  PROVE  ToldTopic(ch, k)'
<1>1. Topical(k)' = Topical(k) BY DEF Topical
<1> QED BY <1>1, TopicSame DEF ToldTopic, Newest, TopicOf

(* The client has moved no further, or there is no topic in what it took up. *)
LEMMA HasTopicKept ==
  ASSUME TypeOK, NEW k \in Conns, HasTopic(k),
         At(k[1]) \in Int, At(k[1])' \in Int,
         At(k[1])' >= 3 => At(k[1]) >= 3 /\ At(k[1]) <= At(k[1])',
         channelTopic'[k[1]] = channelTopic[k[1]],
         \A i \in 1..Len(told[k]) : told'[k][i] = told[k][i],
         At(k[1]) <= Len(told[k]), At(k[1])' <= Len(told[k]),
         Len(told'[k]) \in Nat, DOMAIN told'[k] = 1..Len(told'[k]), Len(told[k]) <= Len(told'[k]),
         \A i \in Topical(k) : i <= At(k[1])' => i <= At(k[1])
  PROVE  HasTopic(k)'
<1> SUFFICES ASSUME At(k[1])' >= 3
    PROVE  (\E m : Seen(k, m) /\ channelTopic[k[1]] = TopicOf(told[k][m]))'
  BY DEF HasTopic
<1>1. Len(told[k]) \in Nat /\ DOMAIN told[k] = 1..Len(told[k]) BY ToldIs
<1>2. PICK m : Seen(k, m) /\ channelTopic[k[1]] = TopicOf(told[k][m]) BY DEF HasTopic
<1>3. m \in 1..Len(told[k]) /\ m \in DOMAIN told'[k] /\ m <= At(k[1])
  BY <1>1, <1>2 DEF Seen, Topical
<1>4. \A i : i \in Topical(k)' /\ i <= At(k[1])' => i \in Topical(k)
  <2> SUFFICES ASSUME NEW i \in Topical(k)', i <= At(k[1])' PROVE i \in Topical(k) OBVIOUS
  <2>1. i \in 1..Len(told'[k]) BY DEF Topical
  <2>2. i \in 1..Len(told[k]) BY <1>1, <2>1
  <2> QED BY <1>1, <2>2 DEF Topical
<1>5. m \in Topical(k)' BY <1>2, <1>3 DEF Topical, Seen
<1>6. m <= At(k[1])' BY <1>1, <1>3
<1>7. ASSUME NEW i \in Topical(k)', i <= At(k[1])' PROVE i <= m
  <2>1. i \in Topical(k) BY <1>4, <1>7
  <2>2. i <= At(k[1]) BY <1>7, <2>1
  <2> QED BY <1>2, <2>1, <2>2 DEF Seen
<1>8. Seen(k, m)' BY <1>5, <1>6, <1>7 DEF Seen
<1>9. (channelTopic[k[1]] = TopicOf(told[k][m]))' BY <1>2, <1>3 DEF TopicOf
<1> QED BY <1>8, <1>9

(* An open connection is the one its client has. *)
LEMMA OpenIs ==
  ASSUME TypeOK, Links, Starts, Tracks, NEW k \in Conns, link[k] = "open"
  PROVE  /\ k[1] \in Clients /\ pc[k[1]] \in Active /\ k = Conn(k[1])
         /\ At(k[1]) \in Nat /\ At(k[1]) <= Len(told[k]) /\ OnTrack(k[1])
<1>c. PICK c : c = k[1] OBVIOUS
<1>1. c \in Clients /\ IsNow(k) /\ pc[c] \in Active BY <1>c, ConnsAre DEF Links, LinkOK
<1>2. session[c] > 0 BY <1>1 DEF Starts, ClientOK
<1>3. k = Conn(c) BY <1>1, <1>2, <1>c, ConnIs
<1>4. Len(Ahead(c)) = Len(told[k]) - At(c) /\ Len(Ahead(c)) \in Nat /\ At(c) \in Nat
  BY <1>1, <1>3, AheadIs
<1>5. Len(told[k]) \in Nat BY ToldIs
<1>6. At(c) <= Len(told[k]) BY <1>4, <1>5
<1>7. OnTrack(c) BY <1>1, <1>3 DEF Tracks, TrackOK, Lost
<1> QED BY <1>1, <1>3, <1>4, <1>6, <1>7, <1>c

LEMMA CurrentThere ==
  ASSUME TypeOK, Links, Starts, Tracks, Current,
         NEW ch \in Channels, NEW k \in users[ch], link[k] = "open"
  PROVE  /\ k \in Conns /\ ToldTopic(ch, k) /\ HasTopic(k)
         /\ k[1] \in Clients /\ pc[k[1]] \in Active /\ k = Conn(k[1])
         /\ At(k[1]) \in Nat /\ At(k[1]) <= Len(told[k])
<1>1. k \in Conns BY DEF TypeOK
<1>2. CurrentOK(ch, k) BY DEF Current
<1> QED BY <1>1, <1>2, OpenIs, CurrentIs

(* A step of somebody else's, after which the client is told no less. *)
LEMMA HasTopicAside ==
  ASSUME TypeOK, TypeOK', Links, Starts, Tracks, NEW k \in Conns, link[k] = "open", HasTopic(k),
         SameClient(k[1]), read'[k] = read[k],
         told'[k] = told[k] \/ \E l : Gets(k, l)
  PROVE  HasTopic(k)'
<1>c. PICK c : c = k[1] OBVIOUS
<1>1. c \in Clients /\ k = Conn(c) /\ At(c) \in Nat /\ At(c) <= Len(told[k]) BY <1>c, OpenIs
<1>2. session'[c] = session[c] /\ sockMsgs'[c] = sockMsgs[c] /\ channelTopic'[c] = channelTopic[c]
  BY <1>c DEF SameClient
<1>3. Conn(c)' = k BY <1>1, <1>2 DEF Conn
<1>4. At(c)' = At(c) BY <1>1, <1>2, <1>3 DEF At
<1>5. Len(told[k]) \in Nat BY ToldIs
<1>6. /\ Len(told'[k]) \in Nat /\ DOMAIN told'[k] = 1..Len(told'[k])
  BY LenProperties DEF TypeOK
<1>7. Len(told[k]) <= Len(told'[k]) /\ \A i \in 1..Len(told[k]) : told'[k][i] = told[k][i]
  <2>1. CASE told'[k] = told[k] BY <1>5, <2>1
  <2>2. CASE \E l : Gets(k, l) BY <1>5, <2>2 DEF Gets
  <2> QED BY <2>1, <2>2
<1>8. \A i \in Topical(k) : i <= At(c) => i <= At(c) OBVIOUS
<1>9. At(c)' >= 3 => At(c) >= 3 /\ At(c) <= At(c)' BY <1>1, <1>4
<1>10. At(c) \in Int /\ At(c)' \in Int /\ At(c)' <= Len(told[k]) BY <1>1, <1>4
<1>11. \A i \in Topical(k) : i <= At(c)' => i <= At(c) BY <1>4, <1>8
<1> QED BY <1>c, <1>1, <1>2, <1>6, <1>7, <1>9, <1>10, <1>11, HasTopicKept

LEMMA CurrentClient ==
  ASSUME TypeOK, TypeOK', Links, Starts, Tracks, Current, NEW c \in Clients, Alone(c),
         \A k \in Conns : k[1] # c => SameConn(k),
         \A ch \in Channels : \A k \in users[ch] : k[1] = c => CurrentOK(ch, k)'
  PROVE  Current'
<1>1. users' = users /\ topic' = topic BY DEF Alone, server, rooms
<1>2. ASSUME NEW ch \in Channels, NEW k \in users[ch], k[1] # c PROVE CurrentOK(ch, k)'
  <2>1. k \in Conns BY DEF TypeOK
  <2>2. SameConn(k) BY <1>2, <2>1
  <2>3. CASE link[k] # "open" BY <2>2, <2>3, CurrentIs DEF CurrentOK, SameConn
  <2>4. CASE link[k] = "open"
    <3>1. ToldTopic(ch, k) /\ HasTopic(k) /\ k[1] \in Clients BY <2>4, CurrentThere
    <3>2. SameClient(k[1]) BY <1>2, <3>1 DEF Alone
    <3>3. read'[k] = read[k] /\ told'[k] = told[k] BY <2>2 DEF SameConn
    <3>4. HasTopic(k)' BY <2>1, <2>4, <3>1, <3>2, <3>3, HasTopicAside
    <3>5. ToldTopic(ch, k)' BY <1>1, <2>1, <3>1, <3>3, ToldTopicKept
    <3> QED BY <3>4, <3>5, CurrentIs DEF CurrentOK, ToldTopic, HasTopic, Newest, Seen
  <2> QED BY <2>3, <2>4
<1> QED BY <1>1, <1>2 DEF Current

LEMMA CurrentOpens ==
  ASSUME TypeOK, TypeOK', Links, Starts, Tracks, Members, Current, NEW c \in Clients, Opens(c)
  PROVE  Current'
<1>1. Alone(c) /\ session[c] \in Nat /\ \A k \in Conns : k[1] # c => SameConn(k)
  BY DEF Opens, TypeOK
<1>2. ASSUME NEW ch \in Channels, NEW k \in users[ch], k[1] = c PROVE link'[k] # "open"
  <2>1. k \in Conns /\ link[k] # "none" BY DEF TypeOK, Members, MemberOK
  <2>2. link[k] = "open" => k[2] = session[c] BY <1>2, <2>1 DEF Links, LinkOK, IsNow
  <2>3. k[2] # session[c] + 1 BY <1>1, <1>2, <2>1 DEF Links, LinkOK
  <2>4. CASE k[2] = session[c] BY <1>2, <2>1, <2>4 DEF Opens
  <2>5. CASE k[2] # session[c]
    <3>1. SameConn(k) BY <1>2, <2>1, <2>3, <2>5 DEF Opens
    <3> QED BY <2>2, <2>5, <3>1 DEF SameConn
  <2> QED BY <2>4, <2>5
<1>3. \A ch \in Channels : \A k \in users[ch] : k[1] = c => CurrentOK(ch, k)' BY <1>2 DEF CurrentOK
<1> QED BY <1>1, <1>3, CurrentClient

(* The steps of a client on a connection it keeps. *)
LEMMA CurrentOwn ==
  ASSUME TypeOK, TypeOK', Links, Starts, Tracks, Current, NEW c \in Clients, pc[c] \in Active,
         Alone(c),
         \A j \in Conns \ {Conn(c)} : SameConn(j),
         NEW o, o = Conn(c), \A ch \in Channels : o \in users[ch] => CurrentOK(ch, o)'
  PROVE  Current'
<1>1. o \in Conns /\ o[1] = c BY ArrivesIs
<1>2. \A k \in Conns : k[1] # c => SameConn(k) BY <1>1
<1>3. ASSUME NEW ch \in Channels, NEW k \in users[ch], k[1] = c PROVE CurrentOK(ch, k)'
  <2>1. k \in Conns BY DEF TypeOK
  <2>2. CASE k = o BY <2>2
  <2>3. CASE k # o
    <3>1. ~IsNow(k) BY <1>3, <2>1, <2>3, ConnIs DEF Starts, ClientOK
    <3>2. link'[k] # "open" BY <2>1, <2>3, <3>1 DEF Links, LinkOK, SameConn
    <3> QED BY <3>2 DEF CurrentOK
  <2> QED BY <2>2, <2>3
<1> QED BY <1>2, <1>3, CurrentClient

LEMMA CurrentEnds ==
  ASSUME TypeOK, TypeOK', Links, Starts, Tracks, Current, NEW c \in Clients, Ends(c) \/ Misses(c)
  PROVE  Current'
<1>k. PICK k : k = Conn(c) OBVIOUS
<1>1. pc[c] \in Active BY DEF Ends, Misses, Uses, Active
<1>2. Alone(c) /\ \A j \in Conns \ {k} : SameConn(j) BY <1>k DEF Ends, Misses
<1>3. link'[k] # "open"
  <2>1. k \in Conns BY <1>k, <1>1, ArrivesIs
  <2> QED BY <1>k, <2>1 DEF Ends, Misses, SameConn
<1>4. \A ch \in Channels : k \in users[ch] => CurrentOK(ch, k)' BY <1>3 DEF CurrentOK
<1> QED BY <1>k, <1>1, <1>2, <1>4, CurrentOwn

(* Until it has its channel the client is no member. *)
LEMMA CurrentBefore ==
  ASSUME TypeOK, TypeOK', Links, Starts, Tracks, Members, Current, NEW c \in Clients,
         pc[c] \in {"welcome", "prompt"}, Reads(c) \/ \E ch \in Channels : Joins(c, ch)
  PROVE  Current'
<1>k. PICK k : k = Conn(c) OBVIOUS
<1>1. pc[c] \in Active /\ pc[c] \notin Replies \cup Loop BY DEF Active, Replies, Loop
<1>2. k \in Conns /\ k[1] = c BY <1>k, <1>1, ArrivesIs
<1>3. Alone(c) /\ (\A j \in Conns \ {k} : SameConn(j)) /\ link' = link
  BY <1>k DEF Reads, Joins, SameConn
<1>4. \A ch \in Channels : k \in users[ch] => link[k] # "open" BY <1>1, <1>2 DEF Members, MemberOK
<1>5. \A ch \in Channels : k \in users[ch] => CurrentOK(ch, k)' BY <1>3, <1>4 DEF CurrentOK
<1> QED BY <1>k, <1>1, <1>3, <1>5, CurrentOwn

(* The replies: the topic is the third line. *)
LEMMA CurrentReply ==
  ASSUME TypeOK, TypeOK', Links, Starts, Tracks, Members, Shape, Current, NEW c \in Clients,
         Reads(c), Uses(c, TopicOf(told[Conn(c)][At(c) + 1]))
  PROVE  Current'
<1>k. PICK k : k = Conn(c) OBVIOUS
<1>n. PICK n : n = Len(told[k]) OBVIOUS
<1>1. /\ pc[c] \in Replies /\ channelTopic'[c] = IF pc[c] = "topic" THEN TopicOf(told[k][At(c) + 1])
                                                 ELSE channelTopic[c]
  BY <1>k DEF Uses
<1>2. pc[c] \in Active /\ pc[c] \notin Loop BY <1>1, NextPlace
<1>3. k \in Conns /\ k[1] = c BY <1>k, <1>2, ArrivesIs
<1>4. /\ Alone(c) /\ (\A j \in Conns \ {k} : SameConn(j)) /\ link' = link /\ told' = told
  BY <1>k DEF Reads, SameConn
<1>5. At(c)' = At(c) + 1 /\ At(c) \in Nat /\ OnTrack(c) BY <1>2, ReadsIs
<1>6. n \in Nat /\ At(c) + 1 \in 1..n /\ DOMAIN told[k] = 1..n
  BY <1>2, <1>3, <1>k, <1>n, TakesOnTrack, ToldIs DEF Reads
<1>7. At(c) = Place[pc[c]] BY <1>2, <1>5 DEF OnTrack
<1>8. ToldOK(k) BY <1>3 DEF Shape
<1>9. ASSUME NEW ch \in Channels, k \in users[ch] PROVE CurrentOK(ch, k)'
  <2> SUFFICES ASSUME link'[k] = "open" PROVE ToldTopic(ch, k)' /\ HasTopic(k)'
    BY DEF CurrentOK, ToldTopic, HasTopic, Newest, Seen
  <2>1. link[k] = "open" BY <1>4
  <2>2. ToldTopic(ch, k) /\ HasTopic(k) BY <1>9, <2>1, CurrentThere
  <2>3. topic' = topic BY <1>4 DEF Alone, server, rooms
  <2>4. ToldTopic(ch, k)' BY <1>3, <1>4, <2>2, <2>3, ToldTopicKept
  <2>5. CASE pc[c] = "confirm"
    <3>1. At(c) = 1 BY <1>7, <2>5 DEF Place
    <3>2. ~(At(c)' >= 3) BY <1>5, <3>1
    <3> QED BY <1>3, <2>4, <3>2 DEF HasTopic
  <2>6. CASE pc[c] = "topic"
    <3>1. At(c) = 2 BY <1>7, <2>6 DEF Place
    <3>2. At(c)' = 3 /\ 3 \in DOMAIN told[k] BY <1>5, <1>6, <3>1
    <3>3. told[k][3].kind = "332" BY <1>8, <3>2 DEF ToldOK
    <3>4. 3 \in Topical(k)' BY <1>4, <3>2, <3>3 DEF Topical
    <3>5. Seen(k, 3)' BY <1>3, <3>2, <3>4 DEF Seen
    <3>6. channelTopic'[c] = TopicOf(told[k][3]) BY <1>1, <1>5, <2>6, <3>1
    <3>7. (channelTopic[k[1]] = TopicOf(told[k][3]))' BY <1>3, <1>4, <3>6 DEF TopicOf
    <3>8. HasTopic(k)' BY <3>5, <3>7 DEF HasTopic
    <3> QED BY <2>4, <3>8
  <2>7. CASE pc[c] \in {"names", "end"}
    <3>1. At(c) \in {3, 4} BY <1>7, <2>7 DEF Place
    <3>2. At(c) + 1 \in DOMAIN told[k] BY <1>6
    <3>3. At(c) + 1 \notin Topical(k)
      <4>1. told[k][At(c) + 1].kind \in {"353", "366"} BY <1>8, <3>1, <3>2 DEF ToldOK
      <4> QED BY <4>1 DEF Topical
    <3>4. ASSUME NEW i \in Topical(k), i <= At(c)' PROVE i <= At(c)
      <4>1. i \in 1..n /\ i # At(c) + 1 BY <1>6, <3>3, <3>4 DEF Topical
      <4> QED BY <1>5, <1>6, <3>4, <4>1
    <3>5. channelTopic'[c] = channelTopic[c] BY <1>1, <2>7
    <3>6. /\ At(c) \in Int /\ At(c)' \in Int /\ (At(c)' >= 3 => At(c) >= 3 /\ At(c) <= At(c)')
          /\ At(c) <= n /\ At(c)' <= n
      BY <1>5, <1>6, <3>1
    <3>7. told'[k] = told[k] /\ n <= n BY <1>4, <1>6
    <3>8. HasTopic(k)'
      BY <1>3, <1>6, <1>n, <2>2, <3>4, <3>5, <3>6, <3>7, HasTopicKept
    <3> QED BY <2>4, <3>8
  <2> QED BY <1>1, <2>5, <2>6, <2>7 DEF Replies
<1> QED BY <1>k, <1>2, <1>4, <1>9, CurrentOwn

(* The chat: the last TOPIC that was taken up, if there was one. *)
LEMMA CurrentGoesOn ==
  ASSUME TypeOK, TypeOK', Links, Starts, Tracks, Members, Shape, Current, NEW c \in Clients,
         GoesOn(c)
  PROVE  Current'
<1>k. PICK k : k = Conn(c) OBVIOUS
<1>n. PICK n : n = Len(told[k]) OBVIOUS
<1>w. PICK new : new = {i \in (At(c) + 1)..read'[k] : told[k][i].kind = "TOPIC"} OBVIOUS
<1>1. /\ pc[c] \in Loop /\ sockMsgs'[c] = <<>> /\ session'[c] = session[c] /\ Alone(c)
      /\ read'[k] \in At(c)..n /\ link' = link /\ told' = told
      /\ \A j \in Conns \ {k} : up'[j] = up[j] /\ read'[j] = read[j]
      /\ new = {} => channelTopic'[c] = channelTopic[c]
      /\ \A m \in new : (\A i \in new : i <= m) =>
           channelTopic'[c] = IF told[k][m].chan = channelName[c] THEN TopicOf(told[k][m])
                              ELSE Garbage
  BY <1>k, <1>n, <1>w DEF GoesOn, Shows
<1>2. pc[c] \in Active BY <1>1 DEF Active
<1>3. k \in Conns /\ k[1] = c BY <1>k, <1>2, ArrivesIs
<1>4. \A j \in Conns \ {k} : SameConn(j) BY <1>1 DEF SameConn
<1>5. n \in Nat /\ DOMAIN told[k] = 1..n BY <1>3, <1>n, ToldIs
<1>6. At(c) \in Nat BY <1>2, AheadIs
<1>7. read'[k] \in Nat BY <1>1, <1>5, <1>6
<1>8. At(c)' = read'[k]
  <2>1. Conn(c)' = k BY <1>1, <1>k DEF Conn
  <2>2. Len(sockMsgs'[c]) = 0 BY <1>1, EmptySeq
  <2> QED BY <1>7, <2>1, <2>2 DEF At
<1>9. ToldOK(k) BY <1>3 DEF Shape
<1>10. ASSUME NEW ch \in Channels, k \in users[ch] PROVE CurrentOK(ch, k)'
  <2> SUFFICES ASSUME link'[k] = "open" PROVE ToldTopic(ch, k)' /\ HasTopic(k)'
    BY DEF CurrentOK, ToldTopic, HasTopic, Newest, Seen
  <2>1. link[k] = "open" BY <1>1
  <2>2. ToldTopic(ch, k) /\ HasTopic(k) BY <1>10, <2>1, CurrentThere
  <2>3. topic' = topic BY <1>1 DEF Alone, server, rooms
  <2>4. ToldTopic(ch, k)' BY <1>1, <1>3, <2>2, <2>3, ToldTopicKept
  <2>5. OnTrack(c) BY <1>3, <2>1, OpenIs
  <2>6. At(c) >= 5 BY <1>1, <2>5 DEF OnTrack
  <2>7. ASSUME NEW i \in Topical(k), i > At(c), i <= At(c)' PROVE i \in new
    <3>1. i \in 1..n /\ i > 5 BY <1>5, <1>6, <2>6, <2>7 DEF Topical
    <3>2. told[k][i].kind \in Chat BY <1>5, <1>9, <3>1 DEF ToldOK
    <3>3. told[k][i].kind = "TOPIC" BY <3>2 DEF Topical, Chat
    <3>4. i \in (At(c) + 1)..read'[k] BY <1>6, <1>7, <1>8, <2>7, <3>1
    <3> QED BY <1>w, <3>3, <3>4
  <2>8. CASE new = {}
    <3>1. ASSUME NEW i \in Topical(k), i <= At(c)' PROVE i <= At(c)
      <4>1. i \in 1..n BY <1>5 DEF Topical
      <4>2. ~(i > At(c)) BY <2>7, <2>8, <3>1
      <4> QED BY <1>6, <4>1, <4>2
    <3>2. channelTopic'[c] = channelTopic[c] BY <1>1, <2>8
    <3>3. /\ At(c) \in Int /\ At(c)' \in Int /\ (At(c)' >= 3 => At(c) >= 3 /\ At(c) <= At(c)')
          /\ At(c) <= n /\ At(c)' <= n
      BY <1>1, <1>5, <1>6, <1>7, <1>8, <2>6
    <3>4. told'[k] = told[k] /\ n <= n BY <1>1, <1>5
    <3>5. HasTopic(k)'
      BY <1>3, <1>5, <1>n, <2>2, <3>1, <3>2, <3>3, <3>4, HasTopicKept
    <3> QED BY <2>4, <3>5
  <2>9. CASE new # {}
    <3>1. new \in SUBSET (1..read'[k]) BY <1>6, <1>7, <1>w
    <3>2. PICK m : m = Max(new) OBVIOUS
    <3>3. m \in new /\ \A i \in new : i <= m BY <1>7, <2>9, <3>1, <3>2, MaxWorks
    <3>4. m \in (At(c) + 1)..read'[k] /\ told[k][m].kind = "TOPIC" BY <1>w, <3>3
    <3>5. m \in 1..n /\ m > At(c) /\ m <= At(c)' BY <1>1, <1>5, <1>6, <1>7, <1>8, <3>4
    <3>6. m \in Topical(k) BY <1>5, <3>4, <3>5 DEF Topical
    <3>7. told[k][m].chan = ch BY <2>2, <3>6 DEF ToldTopic
    <3>8. channelName[c] = ch
      <4>1. channel[c] = ch BY <1>3, <1>10, <2>1 DEF Members, MemberOK
      <4> QED BY <1>1, <1>2, <4>1 DEF Tracks, TrackOK
    <3>9. channelTopic'[c] = TopicOf(told[k][m]) BY <1>1, <3>3, <3>7, <3>8
    <3>10. (channelTopic[k[1]] = TopicOf(told[k][m]))' BY <1>1, <1>3, <3>9 DEF TopicOf
    <3>11. ASSUME NEW i \in Topical(k), i <= At(c)' PROVE i <= m
      <4>1. i \in 1..n BY <1>5 DEF Topical
      <4>2. CASE i > At(c) BY <2>7, <3>3, <3>11, <4>2
      <4>3. CASE i <= At(c) BY <1>6, <3>5, <4>1, <4>3
      <4> QED BY <1>6, <4>1, <4>2, <4>3
    <3>12. Topical(k)' = Topical(k) BY <1>1 DEF Topical
    <3>13. Seen(k, m)' BY <1>3, <3>5, <3>6, <3>11, <3>12 DEF Seen
    <3>14. HasTopic(k)' BY <3>10, <3>13 DEF HasTopic
    <3> QED BY <2>4, <3>14
  <2> QED BY <2>8, <2>9
<1> QED BY <1>k, <1>1, <1>2, <1>4, <1>10, CurrentOwn

(* The steps of the server. *)
LEMMA ToldTopicGets ==
  ASSUME TypeOK, TypeOK', NEW ch \in Channels, NEW k \in Conns, ToldTopic(ch, k),
         NEW l, Gets(k, l), l.kind \in Chat,
         IF l.kind = "TOPIC" THEN l.chan = ch /\ topic'[ch] = TopicOf(l) ELSE topic'[ch] = topic[ch]
  PROVE  ToldTopic(ch, k)'
<1>n. PICK n : n = Len(told[k]) OBVIOUS
<1>1. n \in Nat /\ DOMAIN told[k] = 1..n BY <1>n, ToldIs
<1>2. Len(told'[k]) = n + 1 /\ told'[k][n + 1] = l /\ \A i \in 1..n : told'[k][i] = told[k][i]
  BY <1>n DEF Gets
<1>3. DOMAIN told'[k] = 1..(n + 1) BY <1>1, <1>2, LenProperties DEF TypeOK
<1>4. \A i : i \in 1..(n + 1) <=> i \in 1..n \/ i = n + 1 BY <1>1
<1>5. n + 1 \notin 1..n /\ n + 1 \in 1..(n + 1) BY <1>1
<1>6. l.kind = "332" => FALSE BY DEF Chat
<1>7. Topical(k)' = Topical(k) \cup (IF l.kind = "TOPIC" THEN {n + 1} ELSE {})
  <2>1. ASSUME NEW i
        PROVE  i \in Topical(k)' <=> i \in Topical(k) \/ (l.kind = "TOPIC" /\ i = n + 1)
    <3>1. i \in Topical(k)' <=> i \in 1..(n + 1) /\ told'[k][i].kind \in {"332", "TOPIC"}
      BY <1>3 DEF Topical
    <3>2. i \in Topical(k) <=> i \in 1..n /\ told[k][i].kind \in {"332", "TOPIC"}
      BY <1>1 DEF Topical
    <3>3. CASE i = n + 1 BY <1>2, <1>5, <1>6, <3>1, <3>2, <3>3
    <3>4. CASE i # n + 1 BY <1>2, <1>4, <3>1, <3>2, <3>4
    <3> QED BY <3>3, <3>4
  <2> QED BY <2>1
<1>8. \A i \in Topical(k) : i \in 1..n /\ told'[k][i] = told[k][i] BY <1>1, <1>2 DEF Topical
<1>9. CASE l.kind = "TOPIC"
  <2>1. Topical(k)' = Topical(k) \cup {n + 1} BY <1>7, <1>9
  <2>2. \A i \in Topical(k)' : told'[k][i].chan = ch BY <1>2, <1>8, <1>9, <2>1 DEF ToldTopic
  <2>3. \A i \in Topical(k)' : i <= n + 1 BY <1>1, <1>8, <2>1
  <2>4. Newest(k, n + 1)' BY <2>1, <2>3 DEF Newest
  <2>5. (TopicOf(told[k][n + 1]) = topic[ch])' BY <1>2, <1>9 DEF TopicOf
  <2>6. (\E m : Newest(k, m) /\ TopicOf(told[k][m]) = topic[ch])'
    <3> WITNESS n + 1
    <3> QED BY <2>4, <2>5
  <2> QED BY <2>2, <2>6 DEF ToldTopic
<1>10. CASE l.kind # "TOPIC"
  <2>1. Topical(k)' = Topical(k) BY <1>7, <1>10
  <2>2. \A i \in Topical(k)' : told'[k][i].chan = ch BY <1>8, <2>1 DEF ToldTopic
  <2>3. PICK m : Newest(k, m) /\ TopicOf(told[k][m]) = topic[ch] BY DEF ToldTopic
  <2>4. Newest(k, m)' BY <2>1, <2>3 DEF Newest
  <2>5. told'[k][m] = told[k][m] /\ topic'[ch] = topic[ch] BY <1>8, <1>10, <2>3 DEF Newest
  <2>6. (TopicOf(told[k][m]) = topic[ch])' BY <2>3, <2>5 DEF TopicOf
  <2> QED BY <2>2, <2>4, <2>6 DEF ToldTopic
<1> QED BY <1>9, <1>10

LEMMA SilentClient ==
  ASSUME Silent
  PROVE  \A c : SameClient(c)
BY SilentIs DEF SameClient

LEMMA CurrentAside ==
  ASSUME TypeOK, TypeOK', Links, Starts, Tracks, Current, Silent,
         NEW ch \in Channels, NEW k \in users[ch], link'[k] = "open" => link[k] = "open",
         told'[k] = told[k], topic'[ch] = topic[ch]
  PROVE  CurrentOK(ch, k)'
<1>1. CASE link'[k] # "open" BY <1>1 DEF CurrentOK
<1>2. CASE link'[k] = "open"
  <2>1. link[k] = "open" BY <1>2
  <2>2. k \in Conns /\ ToldTopic(ch, k) /\ HasTopic(k) BY <2>1, CurrentThere
  <2>3. ToldTopic(ch, k)' BY <2>2, ToldTopicKept
  <2>4. SameClient(k[1]) /\ read'[k] = read[k] BY SilentClient, SilentIs
  <2>5. HasTopic(k)' BY <2>1, <2>2, <2>4, HasTopicAside
  <2> QED BY <2>3, <2>5 DEF CurrentOK, ToldTopic, HasTopic, Newest, Seen
<1> QED BY <1>1, <1>2

LEMMA CurrentTold ==
  ASSUME TypeOK, TypeOK', Links, Starts, Tracks, Current, Silent,
         NEW ch \in Channels, NEW k \in users[ch], link[k] = "open",
         NEW l, Gets(k, l), l.kind \in Chat,
         IF l.kind = "TOPIC" THEN l.chan = ch /\ topic'[ch] = TopicOf(l) ELSE topic'[ch] = topic[ch]
  PROVE  CurrentOK(ch, k)'
<1>1. k \in Conns /\ ToldTopic(ch, k) /\ HasTopic(k) BY CurrentThere
<1>2. ToldTopic(ch, k)' BY <1>1, ToldTopicGets
<1>3. SameClient(k[1]) /\ read'[k] = read[k] BY SilentClient, SilentIs
<1>4. HasTopic(k)' BY <1>1, <1>3, HasTopicAside
<1> QED BY <1>2, <1>4 DEF CurrentOK, ToldTopic, HasTopic, Newest, Seen

LEMMA CurrentRegisters ==
  ASSUME TypeOK, TypeOK', Links, Starts, Places, Tracks, Current,
         NEW k \in Conns, Registers(k) \/ Receives(k)
  PROVE  Current'
<1>1. /\ users' = users /\ topic' = topic /\ Silent /\ (Asks(k) \/ serving = k)
      /\ \A j \in Conns \ {k} : told'[j] = told[j] /\ link'[j] = link[j]
  BY DEF Registers, Receives, rooms
<1>2. ~In(k) BY <1>1 DEF Places, PlaceOK
<1>3. ASSUME NEW ch \in Channels, NEW j \in users[ch] PROVE CurrentOK(ch, j)'
  <2>1. j \in Conns /\ j # k BY <1>2 DEF TypeOK, In
  <2> QED BY <1>1, <2>1, CurrentAside
<1> QED BY <1>1, <1>3 DEF Current

LEMMA CurrentStops ==
  ASSUME TypeOK, TypeOK', Links, Starts, Tracks, Current,
         (\E ch \in Channels : ThreadEnds(ch)) \/ ServerStops
  PROVE  Current'
<1>1. /\ told' = told /\ topic' = topic /\ Silent
      /\ \A ch \in Channels : users'[ch] \subseteq users[ch]
      /\ \A k \in Conns : link'[k] = "open" => link[k] = "open"
  <2>1. CASE \E ch \in Channels : ThreadEnds(ch) BY <2>1 DEF ThreadEnds, TypeOK, Silent
  <2>2. CASE ServerStops BY <2>2 DEF ServerStops, TypeOK, Silent
  <2> QED BY <2>1, <2>2
<1>2. ASSUME NEW ch \in Channels, NEW j \in users[ch] PROVE CurrentOK(ch, j)'
  <2>1. j \in Conns BY DEF TypeOK
  <2> QED BY <1>1, <2>1, CurrentAside
<1> QED BY <1>1, <1>2 DEF Current

LEMMA CurrentGreets ==
  ASSUME TypeOK, TypeOK', Links, Starts, Places, Members, Shape, Tracks, Current,
         NEW ch \in Channels, NEW k, Greets(ch, k)
  PROVE  Current'
<1>l. PICK l : l = Line("JOIN", k, ch, 0) OBVIOUS
<1>1. /\ users' = [users EXCEPT ![ch] = users[ch] \cup {k}] /\ topic' = topic /\ Silent
      /\ Spread(Conns \ {k}, users[ch], l) /\ link'[k] = link[k] /\ Len(told'[k]) = 5
      /\ told'[k][1] = told[k][1] /\ told'[k][2] = l
      /\ told'[k][3] = Line("332", topic[ch][1], ch, topic[ch][2])
      /\ told'[k][4] = Line("353", None, ch, 0) /\ told'[k][5] = Line("366", None, ch, 0)
  BY <1>l DEF Greets
<1>2. k \in Conns /\ link[k] = "open" /\ pc[k[1]] = "confirm" /\ ~In(k) BY WaitsFirst
<1>3. l.kind = "JOIN" BY <1>l, <1>2, LineIs DEF Kinds
<1>4. ASSUME NEW dh \in Channels, NEW j \in users'[dh], j # k PROVE CurrentOK(dh, j)'
  <2>1. j \in users[dh] /\ j \in Conns BY <1>1, <1>4 DEF TypeOK
  <2>2. \/ Gets(j, l) /\ link[j] = "open"
        \/ told'[j] = told[j]
    BY <1>1, <1>4, <2>1, SpreadTo
  <2>3. link'[j] = "open" => link[j] = "open" BY <1>1, <1>4, <2>1 DEF Spread
  <2>4. l.kind \in Chat /\ l.kind # "TOPIC" /\ topic'[dh] = topic[dh] BY <1>1, <1>3 DEF Chat
  <2> QED BY <1>1, <2>1, <2>2, <2>3, <2>4, CurrentAside, CurrentTold
<1>5. ASSUME NEW dh \in Channels, k \in users'[dh] PROVE CurrentOK(dh, k)'
  <2>1. dh = ch BY <1>1, <1>2, <1>5 DEF In, TypeOK
  <2>2. /\ told'[k][3].kind = "332" /\ told'[k][3].chan = ch /\ told'[k][3].from = topic[ch][1]
        /\ told'[k][3].val = topic[ch][2]
    <3>1. topic[ch][1] \in Conns \cup {None} /\ topic[ch][2] \in Nat BY TopicIs
    <3>t. PICK line : line = Line("332", topic[ch][1], ch, topic[ch][2]) OBVIOUS
    <3>2. /\ line.kind = "332" /\ line.chan = ch /\ line.from = topic[ch][1]
          /\ line.val = topic[ch][2]
      BY SMTT(30), <3>t, <3>1, LineIs DEF Kinds
    <3>3. told'[k][3] = line BY <3>t, <1>1
    <3> QED BY <3>2, <3>3
  <2>3. told'[k][4].kind = "353" /\ told'[k][5].kind = "366" /\ told'[k][2].kind = "JOIN"
    <3>1. ASSUME NEW kind \in {"353", "366"} PROVE Line(kind, None, ch, 0).kind = kind
      BY LineIs DEF Kinds
    <3> QED BY <1>1, <1>3, <3>1
  <2>4. told'[k][1].kind \in {"001", "464"}
    <3>t. Len(told[k]) = 1 BY WaitsFirst
    <3>1. ToldOK(k) /\ 1 \in DOMAIN told[k] BY <1>2, <3>t, ToldIs DEF Shape
    <3> QED BY <1>1, <3>1 DEF ToldOK
  <2>5. DOMAIN told'[k] = 1..5
    <3>1. told'[k] \in Seq(Lines) /\ Len(told'[k]) = 5 BY <1>1, <1>2 DEF TypeOK
    <3> QED BY <3>1, LenProperties
  <2>6. Topical(k)' = {3}
    <3>1. ASSUME NEW i \in 1..5 PROVE told'[k][i].kind \in {"332", "TOPIC"} <=> i = 3
      <4>1. i = 1 \/ i = 2 \/ i = 3 \/ i = 4 \/ i = 5 OBVIOUS
      <4> QED BY <2>2, <2>3, <2>4, <4>1
    <3> QED BY <2>5, <3>1 DEF Topical
  <2>7. topic[ch] = <<topic[ch][1], topic[ch][2]>> BY TopicIs
  <2>8. (TopicOf(told[k][3]) = topic[ch])' BY <1>1, <2>2, <2>7 DEF TopicOf
  <2>9. Newest(k, 3)' BY <2>6 DEF Newest
  <2>10. ToldTopic(ch, k)' BY <2>2, <2>6, <2>8, <2>9 DEF ToldTopic
  <2>11. HasTopic(k)'
    <3>c. PICK c : c = k[1] OBVIOUS
    <3>1. c \in Clients /\ k = Conn(c) /\ OnTrack(c) BY <1>2, <3>c, OpenIs
    <3>2. At(c) = 1 BY <1>2, <3>1, <3>c DEF OnTrack, Place, Loop
    <3>3. session' = session /\ sockMsgs' = sockMsgs /\ read' = read BY <1>1, SilentIs
    <3>4. At(c)' = 1 BY <3>2, <3>3 DEF At, Conn
    <3>5. ~(At(c)' >= 3) BY <3>4
    <3> QED BY <3>5, <3>c DEF HasTopic
  <2> QED BY <2>1, <2>10, <2>11 DEF CurrentOK, ToldTopic, HasTopic, Newest, Seen
<1> QED BY <1>4, <1>5 DEF Current

LEMMA CurrentSpeaks ==
  ASSUME TypeOK, TypeOK', Links, Starts, Members, Said, Tracks, Current,
         NEW ch \in Channels, NEW k \in Conns, NEW l, Speaks(ch, k, l) \/ Parts(ch, k, l)
  PROVE  Current'
<1>1. Takeup(ch, k, l) /\ Silent BY DEF Speaks, Parts, Takeup
<1>2. l.kind \in Chat /\ l.chan = ch BY <1>1, TakeupIs DEF Spoken, Chat
<1>3. \A dh \in Channels : users'[dh] \subseteq users[dh] BY NobodyJoins
<1>4. \A dh \in Channels \ {ch} : topic'[dh] = topic[dh] BY DEF Speaks, Parts, TypeOK
<1>5. IF l.kind = "TOPIC" THEN topic'[ch] = TopicOf(l) ELSE topic'[ch] = topic[ch]
  BY DEF Speaks, Parts, TypeOK
<1>6. ASSUME NEW j \in Conns
      PROVE  /\ link'[j] = "open" => link[j] = "open"
             /\ \/ Gets(j, l) /\ j \in users[ch] /\ link[j] = "open"
                \/ told'[j] = told[j] /\ (j \in users[ch] /\ link'[j] = "open" => l.kind # "TOPIC")
  <2>1. CASE Speaks(ch, k, l)
    <3>1. PICK T \in SUBSET users[ch] : Spread(Conns, T, l) /\ (l.kind = "TOPIC" => T = users[ch])
      BY <2>1 DEF Speaks
    <3>2. link'[j] = "open" => link[j] = "open" BY <3>1 DEF Spread
    <3>3. \/ Gets(j, l) /\ j \in T /\ link[j] = "open"
          \/ told'[j] = told[j] /\ (j \notin T \/ link[j] # "open")
      BY <3>1, SpreadTo
    <3> QED BY <3>1, <3>2, <3>3
  <2>2. CASE Parts(ch, k, l)
    <3>1. /\ Spread(Conns \ {k}, users[ch] \ {k}, l) /\ l.kind # "TOPIC"
          /\ link'[k] = "ended" /\ told'[k] = told[k]
      BY <2>2 DEF Parts
    <3>2. CASE j = k BY <3>1, <3>2
    <3>3. CASE j # k
      <4>1. link'[j] = "open" => link[j] = "open" BY <3>1, <3>3 DEF Spread
      <4>2. (Gets(j, l) /\ j \in users[ch] /\ link[j] = "open") \/ told'[j] = told[j]
        BY SMTT(30), <3>1, <3>3, SpreadTo
      <4> QED BY <3>1, <4>1, <4>2
    <3> QED BY <3>2, <3>3
  <2> QED BY <2>1, <2>2
<1>7. ASSUME NEW dh \in Channels, NEW j \in users[dh] PROVE CurrentOK(dh, j)'
  <2>1. j \in Conns BY DEF TypeOK
  <2>2. j \in users[ch] => dh = ch BY DEF Members, MemberOK
  <2>3. CASE link'[j] # "open" BY <2>3 DEF CurrentOK
  <2>4. CASE link'[j] = "open" /\ Gets(j, l) /\ j \in users[ch] /\ link[j] = "open"
    BY <1>1, <1>2, <1>5, <2>2, <2>4, CurrentTold
  <2>5. CASE link'[j] = "open" /\ told'[j] = told[j]
             /\ (j \in users[ch] /\ link'[j] = "open" => l.kind # "TOPIC")
    <3>1. topic'[dh] = topic[dh] BY <1>4, <1>5, <2>5
    <3> QED BY <1>1, <1>6, <2>1, <2>5, <3>1, CurrentAside
  <2> QED BY <1>6, <2>1, <2>3, <2>4, <2>5
<1> QED BY <1>3, <1>7 DEF Current

-----------------------------------------------------------------------------
(* Every step keeps the invariant. *)

LEMMA InitIInv == Init => IInv
<1> SUFFICES ASSUME Init PROVE IInv OBVIOUS
<1>1. \A k \in Conns : k[1] \in Clients /\ k[2] > 0 BY ConnsAre, BoundsAssumption
<1>2. TypeOK
  <2>1. Unset \in Topics \ {Garbage} BY NoneAssumption DEF Unset, Garbage, Topics
  <2>2. <<>> \in Seq(Lines) /\ <<>> \in Seq(Conns) BY NothingIn
  <2>3. \A k \in Conns : read[k] <= Len(told[k]) BY EmptySeq DEF Init
  <2>4. (\A c \in Clients : session[c] <= MaxSessions[c])
        /\ \A c \in Clients : typed[c] <= MaxTyped[c]
    BY BoundsAssumption DEF Init
  <2> QED BY <2>1, <2>2, <2>3, <2>4 DEF Init, TypeOK, Pcs
<1>3. Links BY <1>1 DEF Init, Links, LinkOK, IsNow, Active, Replies, Loop
<1>4. Starts BY DEF Init, Starts, ClientOK, Active, Replies, Loop
<1>5. Stopped BY DEF Init, Stopped
<1>6. Places
  <2>1. serving = None /\ None \notin Conns BY NoneAssumption DEF Init
  <2>2. \A k \in Conns : ~Asks(k) /\ ~Waits(k) /\ link[k] # "open"
    BY NothingIn DEF Init, Asks, Waits
  <2> QED BY <2>1, <2>2 DEF Places, PlaceOK
<1>7. Queues BY NothingIn DEF Init, Queues
<1>8. Members /\ Said /\ Chans /\ Current BY DEF Init, Members, Said, Chans, Current
<1>9. Shape BY NothingIn DEF Init, Shape, ToldOK
<1>10. Tracks BY DEF Init, Tracks, TrackOK, Active, Replies, Loop
<1>11. Heard
  <2>1. \A j, k \in Conns : Words(j, k) = {} BY NothingIn DEF Init, Words
  <2>2. \A j, k \in Conns : ~Together(j, k) BY DEF Init, Together
  <2> QED BY <2>1, <2>2 DEF Heard, InARow, Follows
<1> QED BY <1>2, <1>3, <1>4, <1>5, <1>6, <1>7, <1>8, <1>9, <1>10, <1>11 DEF IInv

LEMMA OpensKeeps ==
  ASSUME IInv, TypeOK', NEW c \in Clients, Opens(c)
  PROVE  IInv'
<1> USE DEF IInv
<1>1. Links' /\ Starts' BY LinksOpens, StartsOpens
<1>2. Stopped'
  <2>1. running' BY DEF Opens, Alone, server
  <2> QED BY <2>1, StoppedRuns
<1>3. Places' /\ Queues' /\ Members' BY PlacesOpens
<1>4. Shape' /\ Chans' BY FitsOpens
<1>5. Tracks' BY TracksOpens
<1>6. Calm(c) BY CalmOpens
<1>7. Said' /\ Heard' BY <1>6, SaidClient, HeardClient
<1>8. Current' BY CurrentOpens
<1> QED BY <1>1, <1>2, <1>3, <1>4, <1>5, <1>7, <1>8

LEMMA EndsKeeps ==
  ASSUME IInv, TypeOK', NEW c \in Clients, Ends(c)
  PROVE  IInv'
<1> USE DEF IInv
<1>1. Links' /\ Starts' BY LinksEnds
<1>2. Stopped'
  <2>1. Alone(c) /\ \A k \in Conns : link[k] # "open" => link'[k] = link[k] /\ up'[k] = up[k]
    BY DEF Ends, SameConn
  <2> QED BY <2>1, StoppedClient
<1>3. Places' /\ Queues' /\ Members' BY PlacesEnds
<1>4. Shape' /\ Chans' BY FitsEnds
<1>5. Tracks' BY TracksEnds
<1>6. Calm(c) BY CalmEnds
<1>7. Said' /\ Heard' BY <1>6, SaidClient, HeardClient
<1>8. Current' BY CurrentEnds
<1> QED BY <1>1, <1>2, <1>3, <1>4, <1>5, <1>7, <1>8

(* The client keeps its connection, and nobody is told anything. *)
LEMMA LinksStay ==
  ASSUME IInv, TypeOK', NEW c \in Clients, pc[c] \in Active, pc'[c] # "start", Alone(c),
         session'[c] = session[c], pc'[c] \in Active \/ link[Conn(c)] # "open",
         NEW o, o = Conn(c),
         \A j \in Conns \ {o} : SameConn(j), link'[o] = link[o], told'[o] = told[o],
         link[o] # "open" => up'[o] = up[o]
  PROVE  Links' /\ Starts' /\ Stopped' /\ Shape' /\ Chans'
<1> USE DEF IInv
<1>1. \A k \in Conns : link'[k] = link[k] /\ told'[k] = told[k] BY DEF SameConn
<1>2. \A k \in Conns \ {Conn(c)} : up'[k] = up[k] BY DEF SameConn
<1>3. Links' /\ Starts' BY <1>1, <1>2, LinksClient
<1>4. Stopped' BY <1>1, <1>2, StoppedClient
<1>5. Shape' /\ Chans' BY <1>1, FitsClient
<1> QED BY <1>3, <1>4, <1>5

LEMMA WelcomeKeeps ==
  ASSUME IInv, TypeOK', NEW c \in Clients, Reads(c), pc[c] = "welcome",
         pc'[c] = IF told[Conn(c)][At(c) + 1].kind = "001" \/ session[c] > 1
                  THEN "prompt" ELSE "ended"
  PROVE  IInv'
<1> USE DEF IInv
<1>k. PICK k : k = Conn(c) OBVIOUS
<1>1. pc[c] \in Active /\ pc'[c] \in {"prompt", "ended"} BY DEF Active
<1>2. pc'[c] = "ended" => link[Conn(c)] = "ended" BY Refused DEF Reads
<1>3. /\ Alone(c) /\ session'[c] = session[c] /\ \A j \in Conns \ {k} : SameConn(j)
      /\ link'[k] = link[k] /\ told'[k] = told[k] /\ up'[k] = up[k]
  BY <1>k DEF Reads, SameConn
<1>4. pc'[c] \in Active \/ link[Conn(c)] # "open" BY <1>1, <1>2 DEF Active
<1>5. Links' /\ Starts' /\ Stopped' /\ Shape' /\ Chans' BY <1>1, <1>3, <1>4, <1>k, LinksStay
<1>6. Places' /\ Queues' /\ Members' BY <1>1, <1>2, PlacesWelcome
<1>7. Tracks' BY <1>1, TracksWelcome
<1>8. Calm(c) BY <1>1, CalmReads
<1>9. Said' /\ Heard' BY <1>8, SaidClient, HeardClient
<1>10. Current' BY CurrentBefore
<1> QED BY <1>5, <1>6, <1>7, <1>9, <1>10

LEMMA ReplyKeeps ==
  ASSUME IInv, TypeOK', NEW c \in Clients, Reads(c), Uses(c, TopicOf(told[Conn(c)][At(c) + 1]))
  PROVE  IInv'
<1> USE DEF IInv
<1>k. PICK k : k = Conn(c) OBVIOUS
<1>1. pc[c] \in Replies /\ pc'[c] = AfterReply[pc[c]] BY DEF Uses
<1>2. pc[c] \in Active /\ pc'[c] \in Active /\ pc'[c] # "start"
  BY <1>1, NextPlace DEF Active, Replies, Loop
<1>3. /\ Alone(c) /\ session'[c] = session[c] /\ \A j \in Conns \ {k} : SameConn(j)
      /\ link'[k] = link[k] /\ told'[k] = told[k] /\ up'[k] = up[k]
  BY <1>k DEF Reads, SameConn
<1>5. Links' /\ Starts' /\ Stopped' /\ Shape' /\ Chans' BY <1>2, <1>3, <1>k, LinksStay
<1>6. Places' /\ Queues' /\ Members' BY <1>1, PlacesReply
<1>7. Tracks' BY TracksReply
<1>8. Calm(c) BY <1>2, CalmReads
<1>9. Said' /\ Heard' BY <1>8, SaidClient, HeardClient
<1>10. Current' BY CurrentReply
<1> QED BY <1>5, <1>6, <1>7, <1>9, <1>10

LEMMA MissesKeeps ==
  ASSUME IInv, TypeOK', NEW c \in Clients, Misses(c)
  PROVE  IInv'
<1> USE DEF IInv
<1>k. PICK k : k = Conn(c) OBVIOUS
<1>1. \/ pc[c] = "welcome" /\ pc'[c] = "prompt"
      \/ pc[c] \in Replies /\ pc'[c] = AfterReply[pc[c]]
  BY DEF Misses, Uses
<1>2. pc[c] \in Active /\ pc'[c] \in Active /\ pc'[c] # "start"
  BY <1>1, NextPlace DEF Active, Replies, Loop
<1>n. k \in Conns BY <1>k, <1>2, ArrivesIs
<1>3. /\ Alone(c) /\ session'[c] = session[c] /\ \A j \in Conns \ {k} : SameConn(j)
      /\ link'[k] = link[k] /\ told'[k] = told[k] /\ up'[k] = up[k]
  BY <1>k, <1>n DEF Misses, SameConn
<1>5. Links' /\ Starts' /\ Stopped' /\ Shape' /\ Chans' BY <1>2, <1>3, <1>k, LinksStay
<1>6. Places' /\ Queues' /\ Members' BY PlacesMisses
<1>7. Tracks' BY TracksMisses
<1>8. Calm(c) BY <1>2, CalmReads
<1>9. Said' /\ Heard' BY <1>8, SaidClient, HeardClient
<1>10. Current' BY CurrentEnds
<1> QED BY <1>5, <1>6, <1>7, <1>9, <1>10

LEMMA JoinsKeeps ==
  ASSUME IInv, TypeOK', NEW c \in Clients, NEW ch \in Channels, Joins(c, ch)
  PROVE  IInv'
<1> USE DEF IInv
<1>k. PICK k : k = Conn(c) OBVIOUS
<1>1. pc[c] = "prompt" /\ pc'[c] = "confirm" BY DEF Joins
<1>2. pc[c] \in Active /\ pc'[c] \in Active /\ pc'[c] # "start" BY <1>1 DEF Active, Replies, Loop
<1>3. /\ Alone(c) /\ session'[c] = session[c] /\ \A j \in Conns \ {k} : SameConn(j)
      /\ link'[k] = link[k] /\ told'[k] = told[k] /\ (link[k] # "open" => up'[k] = up[k])
  BY <1>k DEF Joins, SameConn
<1>5. Links' /\ Starts' /\ Stopped' /\ Shape' /\ Chans' BY <1>2, <1>3, <1>k, LinksStay
<1>6. Places' /\ Queues' /\ Members' BY PlacesJoins
<1>7. Tracks' BY TracksJoins
<1>8. Calm(c) BY <1>2, CalmReads
<1>9. Said' /\ Heard' BY <1>8, SaidClient, HeardClient
<1>10. Current' BY <1>1, CurrentBefore
<1> QED BY <1>5, <1>6, <1>7, <1>9, <1>10

LEMMA GoesOnKeeps ==
  ASSUME IInv, TypeOK', NEW c \in Clients, GoesOn(c)
  PROVE  IInv'
<1> USE DEF IInv
<1>k. PICK k : k = Conn(c) OBVIOUS
<1>1. pc[c] \in Loop /\ pc'[c] = "input" BY DEF GoesOn, Shows
<1>2. pc[c] \in Active /\ pc'[c] \in Active /\ pc'[c] # "start" BY <1>1 DEF Active, Replies, Loop
<1>3. /\ Alone(c) /\ session'[c] = session[c] /\ \A j \in Conns \ {k} : SameConn(j)
      /\ link'[k] = link[k] /\ told'[k] = told[k] /\ (link[k] # "open" => up'[k] = up[k])
  BY <1>k DEF GoesOn, SameConn
<1>5. Links' /\ Starts' /\ Stopped' /\ Shape' /\ Chans' BY <1>2, <1>3, <1>k, LinksStay
<1>6. Places' /\ Queues' /\ Members' BY PlacesGoesOn
<1>7. Tracks' BY TracksGoesOn
<1>8. Calm(c) BY CalmGoesOn
<1>9. Said' /\ Heard' BY <1>8, SaidClient, HeardClient
<1>10. Current' BY CurrentGoesOn
<1> QED BY <1>5, <1>6, <1>7, <1>9, <1>10

(* A client that does not get a connection at all. *)
LEMMA NeverKeeps ==
  ASSUME IInv, TypeOK', NEW c \in Clients,
         pc[c] = "start", pc'[c] = "failed", \A d \in Clients \ {c} : pc'[d] = pc[d],
         UNCHANGED <<session, typed, sockMsgs, channel, display, network, server>>
  PROVE  IInv'
<1> USE DEF IInv
<1>1. Alone(c) /\ \A k \in Conns : SameConn(k)
  BY DEF Alone, SameClient, SameConn, display, network
<1>2. Links' /\ Starts' /\ Places' /\ Queues' /\ Members' BY PlacesNever
<1>3. \A k \in Conns : link'[k] = link[k] /\ told'[k] = told[k] /\ up'[k] = up[k]
  BY <1>1 DEF SameConn
<1>4. Stopped' BY <1>1, <1>3, StoppedClient
<1>5. Shape' /\ Chans' BY <1>1, <1>3, FitsClient
<1>6. pc'[c] \notin Active /\ pc[c] \notin Active BY DEF Active, Replies, Loop
<1>7. Tracks'
  <2>1. TrackOK(c)' BY <1>6 DEF TrackOK
  <2> QED BY <1>1, <2>1, TracksClient
<1>8. Calm(c)
  <2>1. typed' = typed OBVIOUS
  <2>2. ASSUME NEW k \in Conns PROVE Quiet(k) /\ Talks(k)
    <3>1. link[k] \in {"none", "open", "closed", "reset", "ended"} BY DEF TypeOK
    <3> QED BY <1>3, <2>1, <3>1 DEF Quiet, Talks
  <2> QED BY <1>1, <2>2 DEF Calm
<1>9. Said' /\ Heard' BY <1>8, SaidClient, HeardClient
<1>10. Current'
  <2>1. ASSUME NEW ch \in Channels, NEW k \in users[ch], k[1] = c PROVE CurrentOK(ch, k)'
    <3>1. k \in Conns BY DEF TypeOK
    <3>2. link[k] # "open" BY <1>6, <2>1, <3>1 DEF Links, LinkOK
    <3> QED BY <1>3, <3>1, <3>2 DEF CurrentOK
  <2> QED BY <1>1, <2>1, CurrentClient
<1> QED BY <1>2, <1>4, <1>5, <1>7, <1>9, <1>10

LEMMA ClientKeeps ==
  ASSUME IInv, NEW c \in Clients, Start(c) \/ User(c) \/ Program(c)
  PROVE  IInv'
<1> USE DEF IInv
<1>1. CASE Start(c) BY <1>1, StartIs, OpensKeeps
<1>2. CASE Leave(c) BY <1>2, LeaveIs, OpensKeeps
<1>3. CASE Exit(c) BY <1>3, ExitIs, EndsKeeps
<1>4. CASE ConnectThrows(c)
  <2>1. /\ TypeOK'
        /\ \/ Ends(c)
           \/ /\ pc[c] = "start" /\ pc'[c] = "failed" /\ \A d \in Clients \ {c} : pc'[d] = pc[d]
              /\ UNCHANGED <<session, typed, sockMsgs, channel, display, network, server>>
    BY <1>4, ConnectThrowsIs
  <2> QED BY <2>1, EndsKeeps, NeverKeeps
<1>5. CASE ReadWelcome(c)
  <2>1. /\ TypeOK' /\ Reads(c) /\ pc[c] = "welcome"
        /\ pc'[c] = IF told[Conn(c)][At(c) + 1].kind = "001" \/ session[c] > 1
                    THEN "prompt" ELSE "ended"
    BY <1>5, ReadWelcomeIs
  <2> QED BY <2>1, WelcomeKeeps
<1>6. CASE ReadReply(c)
  <2>1. TypeOK' /\ Reads(c) /\ Uses(c, TopicOf(told[Conn(c)][At(c) + 1])) BY <1>6, ReadReplyIs
  <2> QED BY <2>1, ReplyKeeps
<1>7. CASE ReadNothing(c) BY <1>7, ReadNothingIs, MissesKeeps, EndsKeeps
<1>8. CASE Update(c) \/ \E n \in Arrives(c) : PressEnter(c, n)
  BY <1>8, UpdateIs, GoesOnKeeps, EndsKeeps
<1>9. CASE \E kind \in {"PRIVMSG", "TOPIC"} : Type(c, kind)
  BY <1>9, TypeIs, GoesOnKeeps, EndsKeeps
<1>10. CASE \E ch \in Channels : JoinChannel(c, ch) BY <1>10, JoinChannelIs, JoinsKeeps
<1> QED BY <1>1, <1>2, <1>3, <1>4, <1>5, <1>6, <1>7, <1>8, <1>9, <1>10 DEF User, Program

LEMMA MainThreadKeeps ==
  ASSUME IInv, NEW k \in Conns, RegisterSession(k) \/ GetChannelName(k)
  PROVE  IInv'
<1> USE DEF IInv
<1>1. TypeOK' /\ (Registers(k) \/ Receives(k)) BY RegisterSessionIs, GetChannelNameIs
<1>2. Links' /\ Starts' /\ Stopped' /\ Places' /\ Queues' /\ Members'
  BY <1>1, PlacesRegisters, PlacesReceives
<1>3. Shape' /\ Chans'
  <2>1. CASE Registers(k) BY <1>1, <2>1, FitsRegisters
  <2>2. CASE Receives(k)
    <3>1. told' = told /\ users' = users /\ link' = link BY <2>2 DEF Receives
    <3>2. \A j \in Conns : Fits(j)' BY <3>1, FitsThere, FitsKept
    <3> QED BY <1>1, <3>2, FitsTogether
  <2> QED BY <1>1, <2>1, <2>2
<1>4. Tracks' BY <1>1, TracksOfServer
<1>5. Said' /\ Heard' BY <1>1, SaidRegisters, HeardRegisters
<1>6. Current' BY <1>1, CurrentRegisters
<1> QED BY <1>1, <1>2, <1>3, <1>4, <1>5, <1>6

LEMMA StopsKeeps ==
  ASSUME IInv, (\E ch \in Channels : ThreadEnds(ch)) \/ ServerStops
  PROVE  IInv'
<1> USE DEF IInv
<1>1. TypeOK' BY ThreadEndsTypes, ServerStopsTypes
<1>2. Links' /\ Starts' /\ Stopped' /\ Places' /\ Queues' /\ Members'
  BY <1>1, PlacesThreadEnds, PlacesServerStops
<1>3. Shape' /\ Chans' BY <1>1, FitsStops
<1>4. Tracks' BY TracksOfServer
<1>5. Said' /\ Heard' BY <1>1, SaidStops, HeardStops
<1>6. Current' BY <1>1, CurrentStops
<1> QED BY <1>1, <1>2, <1>3, <1>4, <1>5, <1>6

LEMMA ThreadKeeps ==
  ASSUME IInv, NEW ch \in Channels, Thread(ch)
  PROVE  IInv'
<1> USE DEF IInv
<1>1. CASE HandleNewuser(ch)
  <2>k. PICK k : k = newusers[ch][1] OBVIOUS
  <2>1. TypeOK' /\ Greets(ch, k) BY <1>1, <2>k, HandleNewuserIs
  <2>2. Links' /\ Starts' /\ Stopped' /\ Places' /\ Queues' /\ Members' BY <2>1, PlacesGreets
  <2>3. Shape' /\ Chans' BY <2>1, FitsGreets
  <2>4. Tracks' BY <2>1, TracksOfServer
  <2>5. Said' /\ Heard' BY <2>1, SaidGreets, HeardGreets
  <2>6. Current' BY <2>1, CurrentGreets
  <2> QED BY <2>1, <2>2, <2>3, <2>4, <2>5, <2>6
<1>2. CASE ThreadEnds(ch) BY <1>2, StopsKeeps
<1>3. ASSUME NEW k \in Conns, HandlePriv(ch, k) \/ HandleTopic(ch, k) \/ HandlePart(ch, k)
      PROVE  IInv'
  <2>l. PICK l : l = up[k][1] OBVIOUS
  <2>1. TypeOK' /\ (Speaks(ch, k, l) \/ Parts(ch, k, l))
    BY <1>3, <2>l, HandlePrivIs, HandleTopicIs, HandlePartIs
  <2>2. Links' /\ Starts' /\ Stopped' /\ Places' /\ Queues' /\ Members'
    BY <2>1, PlacesSpeaks, PlacesParts
  <2>3. Shape' /\ Chans' BY <2>1, FitsSpeaks
  <2>4. Tracks' BY <2>1, TracksOfServer
  <2>5. Said' /\ Heard' BY <2>1, SaidSpeaks, HeardSpeaks
  <2>6. Current' BY <2>1, CurrentSpeaks
  <2> QED BY <2>1, <2>2, <2>3, <2>4, <2>5, <2>6
<1> QED BY <1>1, <1>2, <1>3 DEF Thread

LEMMA StutterKeeps ==
  ASSUME IInv, UNCHANGED vars
  PROVE  IInv'
<1> USE DEF vars, client, display, network, server, rooms
<1>1. TypeOK' BY DEF IInv, TypeOK
<1>2. Links' /\ Starts' /\ Stopped'
  BY DEF IInv, Links, LinkOK, IsNow, Starts, ClientOK, Stopped
<1>3. Places' /\ Queues' /\ Members'
  BY DEF IInv, Places, PlaceOK, Asks, In, Waits, Queues, Members, MemberOK, IsNow
<1>4. Shape' /\ Chans' BY DEF IInv, Shape, ToldOK, Chans, TopicOf
<1>5. Tracks' BY DEF IInv, Tracks, TrackOK, At, Conn, OnTrack, Lost, Place
<1>6. Said' /\ Heard'
  BY DEF IInv, Said, SaidOK, Heard, InARow, Words, Unheard, In, Follows, Together, UpTo, NextVal
<1>7. Current' BY SMTT(30) DEF IInv, Current, CurrentOK, Topical, TopicOf, At, Conn
<1> QED BY <1>1, <1>2, <1>3, <1>4, <1>5, <1>6, <1>7 DEF IInv

THEOREM SpecIInv == Spec => []IInv
<1>1. Init => IInv BY InitIInv
<1>2. IInv /\ [Next]_vars => IInv'
  <2> SUFFICES ASSUME IInv, [Next]_vars PROVE IInv' OBVIOUS
  <2>1. CASE \E c \in Clients : Start(c) \/ User(c) \/ Program(c) BY <2>1, ClientKeeps
  <2>2. CASE MainThread BY <2>2, MainThreadKeeps DEF MainThread
  <2>3. CASE ServerStops BY <2>3, StopsKeeps
  <2>4. CASE \E ch \in Channels : Thread(ch) BY <2>4, ThreadKeeps
  <2>5. CASE UNCHANGED vars BY <2>5, StutterKeeps
  <2> QED BY <2>1, <2>2, <2>3, <2>4, <2>5 DEF Next
<1> QED BY <1>1, <1>2, PTL DEF Spec

-----------------------------------------------------------------------------
(* What the invariant says of every state, and of every step. *)

LEMMA NothingAhead ==
  ASSUME IInv, NEW c \in Clients, pc[c] \in Active, Lost(c)
  PROVE  Ahead(c) = <<>> /\ At(c) = Len(told[Conn(c)])
<1>1. TypeOK /\ Tracks /\ Starts BY DEF IInv
<1>2. /\ Ahead(c) \in Seq(Lines) /\ Len(Ahead(c)) = Len(told[Conn(c)]) - At(c)
      /\ Len(Ahead(c)) \in Nat /\ At(c) \in Nat /\ Conn(c) \in Conns
  BY <1>1, AheadIs
<1>3. read[Conn(c)] = Len(told[Conn(c)]) /\ sockMsgs[c] = <<>> BY DEF Lost
<1>4. read[Conn(c)] \in Nat /\ Len(<<>>) = 0 BY <1>1, <1>2, EmptySeq DEF TypeOK
<1>5. At(c) = Len(told[Conn(c)]) BY <1>3, <1>4 DEF At
<1>6. Len(Ahead(c)) = 0 BY <1>2, <1>5
<1> QED BY <1>2, <1>5, <1>6, EmptySeq

LEMMA NextIs ==
  ASSUME IInv, NEW c \in Clients, pc[c] \in Active, Ahead(c) # <<>>
  PROVE  /\ OnTrack(c) /\ At(c) \in Nat /\ Conn(c) \in Conns
         /\ At(c) + 1 \in DOMAIN told[Conn(c)]
         /\ Head(Ahead(c)) = told[Conn(c)][At(c) + 1]
         /\ \A l \in ToSet(Ahead(c)) :
              \E i \in DOMAIN told[Conn(c)] : i > At(c) /\ l = told[Conn(c)][i]
<1> PICK k : k = Conn(c) OBVIOUS
<1>1. TypeOK /\ Tracks /\ Starts BY DEF IInv
<1>2. OnTrack(c) BY NothingAhead DEF IInv, Tracks, TrackOK
<1>3. /\ Ahead(c) \in Seq(Lines) /\ Len(Ahead(c)) = Len(told[k]) - At(c)
      /\ Len(Ahead(c)) \in Nat /\ At(c) \in Nat /\ k \in Conns
      /\ \A i \in 1..Len(Ahead(c)) : Ahead(c)[i] = told[k][At(c) + i]
  BY <1>1, AheadIs
<1>4. Head(Ahead(c)) = Ahead(c)[1] /\ Len(Ahead(c)) > 0 BY <1>3, TailIs
<1>5. Len(told[k]) \in Nat /\ DOMAIN told[k] = 1..Len(told[k]) BY <1>1, <1>3, ToldIs
<1>6. \A i \in 1..Len(Ahead(c)) : At(c) + i \in DOMAIN told[k] /\ At(c) + i > At(c)
  BY <1>3, <1>5
<1>7. 1 \in 1..Len(Ahead(c)) BY <1>3, <1>4
<1>8. \A l \in ToSet(Ahead(c)) : \E i \in 1..Len(Ahead(c)) : Ahead(c)[i] = l BY <1>3, ToSetIs
<1>9. At(c) + 1 \in DOMAIN told[k] /\ Head(Ahead(c)) = told[k][At(c) + 1]
  BY <1>3, <1>4, <1>6, <1>7
<1>10. ASSUME NEW l \in ToSet(Ahead(c))
       PROVE  \E i \in DOMAIN told[k] : i > At(c) /\ l = told[k][i]
  <2>1. PICK i \in 1..Len(Ahead(c)) : Ahead(c)[i] = l BY <1>8
  <2>2. PICK j : j = At(c) + i OBVIOUS
  <2>3. j \in DOMAIN told[k] /\ j > At(c) /\ l = told[k][j] BY <1>3, <1>6, <2>1, <2>2
  <2> QED BY <2>3
<1> QED BY <1>2, <1>3, <1>9, <1>10

LEMMA InvRepliesInPlace == IInv => RepliesInPlace
<1> SUFFICES ASSUME IInv, NEW c \in Clients, Ahead(c) # <<>>, pc[c] \in Active
    PROVE  LET expected == [welcome |-> {"001", "464"}, confirm |-> {"JOIN"}, topic |-> {"332"},
                            names |-> {"353"}, end |-> {"366"}]
           IN /\ pc[c] \in DOMAIN expected => Head(Ahead(c)).kind \in expected[pc[c]]
              /\ pc[c] = "confirm" => Head(Ahead(c)).from = Conn(c)
              /\ pc[c] \in Loop =>
                   \A l \in ToSet(Ahead(c)) : l.kind \in {"JOIN", "PRIVMSG", "TOPIC", "PART"}
  <2>1. ASSUME NEW c \in Clients, pc[c] \notin Active
        PROVE  /\ pc[c] \notin Loop /\ pc[c] # "confirm"
               /\ pc[c] \notin {"welcome", "confirm", "topic", "names", "end"}
    BY <2>1 DEF Active, Replies
  <2> QED BY <2>1 DEF RepliesInPlace
<1> PICK k : k = Conn(c) OBVIOUS
<1> PICK h : h = Head(Ahead(c)) OBVIOUS
<1> PICK a : a = At(c) OBVIOUS
<1>1. /\ OnTrack(c) /\ a \in Nat /\ k \in Conns /\ a + 1 \in DOMAIN told[k] /\ h = told[k][a + 1]
      /\ \A l \in ToSet(Ahead(c)) : \E i \in DOMAIN told[k] : i > a /\ l = told[k][i]
  BY NextIs
<1>2. ToldOK(k) /\ DOMAIN told[k] = 1..Len(told[k]) BY <1>1, ToldIs DEF IInv, Shape
<1>3. IF pc[c] \in Loop THEN a >= 5 ELSE a = Place[pc[c]] BY <1>1 DEF OnTrack
<1>4. pc[c] = "welcome" => h.kind \in {"001", "464"}
  <2>1. pc[c] = "welcome" => a + 1 = 1 BY <1>3 DEF Loop, Place
  <2> QED BY <2>1, <1>1, <1>2 DEF ToldOK
<1>5. pc[c] = "confirm" => h.kind = "JOIN" /\ h.from = k
  <2>1. pc[c] = "confirm" => a + 1 = 2 BY <1>3 DEF Loop, Place
  <2> QED BY <2>1, <1>1, <1>2 DEF ToldOK
<1>6. pc[c] = "topic" => h.kind = "332"
  <2>1. pc[c] = "topic" => a + 1 = 3 BY <1>3 DEF Loop, Place
  <2> QED BY <2>1, <1>1, <1>2 DEF ToldOK
<1>7. pc[c] = "names" => h.kind = "353"
  <2>1. pc[c] = "names" => a + 1 = 4 BY <1>3 DEF Loop, Place
  <2> QED BY <2>1, <1>1, <1>2 DEF ToldOK
<1>8. pc[c] = "end" => h.kind = "366"
  <2>1. pc[c] = "end" => a + 1 = 5 BY <1>3 DEF Loop, Place
  <2> QED BY <2>1, <1>1, <1>2 DEF ToldOK
<1>9. ASSUME pc[c] \in Loop, NEW l \in ToSet(Ahead(c))
      PROVE  l.kind \in {"JOIN", "PRIVMSG", "TOPIC", "PART"}
  <2>1. PICK i \in DOMAIN told[k] : i > a /\ l = told[k][i] BY <1>1, <1>9
  <2>2. i > 5 BY <2>1, <1>1, <1>2, <1>3, <1>9
  <2> QED BY <2>1, <2>2, <1>2 DEF ToldOK, Chat
<1> QED BY <1>4, <1>5, <1>6, <1>7, <1>8, <1>9

LEMMA InvNamesItsChannel == IInv => NamesItsChannel
<1> SUFFICES ASSUME IInv, NEW ch \in Channels, NEW k \in users[ch],
                    NEW l \in ToSet(up[k]) \cup ToSet(told[k])
    PROVE  l.chan \in {ch, None}
  BY DEF NamesItsChannel
<1>1. up[k] \in Seq(Lines) /\ told[k] \in Seq(Lines) BY DEF IInv, TypeOK
<1>2. CASE l \in ToSet(up[k])
  <2>1. PICK i \in DOMAIN up[k] : up[k][i] = l BY <1>1, <1>2, ToSetIs
  <2> QED BY <2>1 DEF IInv, Said, SaidOK
<1>3. CASE l \in ToSet(told[k])
  <2>1. PICK i \in DOMAIN told[k] : told[k][i] = l BY <1>1, <1>3, ToSetIs
  <2> QED BY <2>1 DEF IInv, Chans
<1> QED BY <1>2, <1>3

LEMMA InvMembersAreThere == IInv => MembersAreThere
<1> SUFFICES ASSUME IInv PROVE MembersAreThere OBVIOUS
<1>0. TypeOK /\ Starts /\ Tracks /\ Links /\ Members /\ Places BY DEF IInv
<1>1. ASSUME NEW ch \in Channels, NEW c \in Clients, NEW n \in 1..session[c], <<c, n>> \in users[ch]
      PROVE  \/ n = session[c] /\ pc[c] \in Replies \cup Loop /\ channel[c] = ch
             \/ n = session[c] /\ pc[c] = "failed"
             \/ \E l \in ToSet(up[<<c, n>>]) : l.kind = "PART"
  <2> PICK k : k = <<c, n>> OBVIOUS
  <2>1. k \in Conns /\ k[1] = c /\ k[2] = n BY <1>0, <1>1 DEF TypeOK
  <2>2. MemberOK(ch, k) BY <1>0, <1>1 DEF Members
  <2>3. CASE link[k] = "open"
    <3>1. IsNow(k) BY <1>0, <2>1, <2>3 DEF Links, LinkOK
    <3> QED BY <3>1, <2>1, <2>2, <2>3 DEF IsNow, MemberOK
  <2>4. CASE IsNow(k) /\ pc[k[1]] = "failed" BY <2>1, <2>4 DEF IsNow
  <2>5. CASE \E i \in DOMAIN up[k] : up[k][i].kind = "PART"
    <3>1. up[k] \in Seq(Lines) BY <1>0, <2>1 DEF TypeOK
    <3>2. PICK i \in DOMAIN up[k] : up[k][i].kind = "PART" BY <2>5
    <3>3. up[k][i] \in ToSet(up[k]) BY <3>1, <3>2, ToSetIs
    <3> QED BY <3>2, <3>3
  <2> QED BY <2>2, <2>3, <2>4, <2>5 DEF MemberOK
<1>2. ASSUME NEW c \in Clients, pc[c] \in Loop, link[Conn(c)] = "open"
      PROVE  Conn(c) \in users[userChan[c]]
  <2> PICK k : k = Conn(c) OBVIOUS
  <2>1. pc[c] \in Active BY <1>2 DEF Active
  <2>2. k \in Conns /\ k[1] = c BY <1>0, <2>1, ArrivesIs
  <2>3. pc[c] \notin {"welcome", "prompt", "confirm"} BY <1>2 DEF Loop
  <2>4. ~Asks(k) /\ serving # k /\ ~Waits(k) BY <1>0, <2>2, <2>3 DEF Places, PlaceOK
  <2>5. In(k) BY <1>0, <1>2, <2>2, <2>4 DEF Places, PlaceOK
  <2>6. PICK ch \in Channels : k \in users[ch] BY <2>5 DEF In
  <2>7. channel[c] = ch BY <1>0, <1>2, <2>2, <2>6 DEF Members, MemberOK
  <2>8. userChan[c] = ch BY <1>0, <1>2, <2>1, <2>7 DEF Tracks, TrackOK
  <2> QED BY <2>6, <2>8
<1> QED BY <1>1, <1>2 DEF MembersAreThere

LEMMA InvTopicIsCurrent == IInv => TopicIsCurrent
<1> SUFFICES ASSUME IInv, NEW c \in Clients, NEW ch \in Channels,
                    pc[c] \in Replies \cup Loop, Conn(c) \in users[ch],
                    NEW sets, sets = {i \in DOMAIN Ahead(c) : Ahead(c)[i].kind \in {"332", "TOPIC"}}
    PROVE  /\ sets = {} => channelTopic[c] = topic[ch]
           /\ \A i \in sets : (\A j \in sets : j <= i) =>
                TopicOf(Ahead(c)[i]) = topic[ch] /\ Ahead(c)[i].chan = channel[c]
  BY DEF TopicIsCurrent
<1>k. PICK k : k = Conn(c) OBVIOUS
<1>h. PICK h : h = Ahead(c) OBVIOUS
<1>a. PICK a : a = At(c) OBVIOUS
<1>0. /\ TypeOK /\ Starts /\ Tracks /\ Links /\ Members /\ Current
      /\ pc[c] \in Active
  BY DEF IInv, Active
<1>1. k \in Conns /\ k[1] = c /\ IsNow(k) BY <1>k, <1>0, ArrivesIs
<1>2. link[k] = "open"
  <2>1. link[k] \in {"open", "ended"} BY <1>0, <1>1 DEF Links, LinkOK
  <2> QED BY <2>1, <1>k, <1>0 DEF Members, MemberOK
<1>3. ToldTopic(ch, k) /\ HasTopic(k) BY <1>k, <1>0, <1>2, CurrentThere
<1>4. channel[c] = ch /\ Len(told[k]) >= 5 BY <1>k, <1>0, <1>1, <1>2 DEF Members, MemberOK
<1>5. /\ h \in Seq(Lines) /\ Len(h) = Len(told[k]) - a /\ Len(h) \in Nat /\ a \in Nat
      /\ \A i \in 1..Len(h) : h[i] = told[k][a + i]
  BY <1>k, <1>h, <1>a, <1>0, AheadIs
<1>6. Len(told[k]) \in Nat /\ DOMAIN told[k] = 1..Len(told[k]) /\ DOMAIN h = 1..Len(h)
  BY <1>0, <1>1, <1>5, ToldIs, LenProperties
<1>7. \A i \in sets : i \in 1..Len(h) /\ a + i \in Topical(k)
  <2> SUFFICES ASSUME NEW i \in sets PROVE i \in 1..Len(h) /\ a + i \in Topical(k) OBVIOUS
  <2>1. i \in 1..Len(h) /\ h[i].kind \in {"332", "TOPIC"} BY <1>h, <1>6
  <2>2. a + i \in DOMAIN told[k] BY <2>1, <1>5, <1>6
  <2> QED BY <2>1, <2>2, <1>5 DEF Topical
<1>8. \A m \in Topical(k) : m > a => m - a \in sets
  <2> SUFFICES ASSUME NEW m \in Topical(k), m > a PROVE m - a \in sets OBVIOUS
  <2>1. m \in 1..Len(told[k]) /\ told[k][m].kind \in {"332", "TOPIC"} BY <1>6 DEF Topical
  <2>i. PICK i : i = m - a OBVIOUS
  <2>2. i \in 1..Len(h) /\ a + i = m BY <2>1, <2>i, <1>5, <1>6
  <2>3. h[i].kind \in {"332", "TOPIC"} BY <2>1, <2>2, <1>5
  <2> QED BY <2>2, <2>3, <2>i, <1>h, <1>6
<1>m. PICK m : Newest(k, m) /\ TopicOf(told[k][m]) = topic[ch] BY <1>3 DEF ToldTopic
<1>9. m \in 1..Len(told[k]) BY <1>m, <1>6 DEF Newest, Topical
<1>10. ASSUME sets = {} PROVE channelTopic[c] = topic[ch]
  <2>1. ~(m > a) BY <1>8, <1>10, <1>m DEF Newest
  <2>2. m <= a BY <2>1, <1>5, <1>9
  <2>3. 3 \in Topical(k)
    <3>1. ToldOK(k) /\ 3 \in DOMAIN told[k] BY <1>1, <1>4, <1>6 DEF IInv, Shape
    <3> QED BY <3>1 DEF ToldOK, Topical
  <2>4. 3 <= m BY <2>3, <1>m DEF Newest
  <2>5. a >= 3 BY <2>2, <2>4, <1>5, <1>9
  <2>6. PICK p : Seen(k, p) /\ channelTopic[c] = TopicOf(told[k][p])
    BY <2>5, <1>a, <1>1, <1>3 DEF HasTopic
  <2>7. p \in Topical(k) /\ m <= p BY <2>2, <2>6, <1>a, <1>m, <1>1 DEF Seen, Newest
  <2>8. p <= m /\ p \in 1..Len(told[k]) BY <2>7, <1>m, <1>6 DEF Newest, Topical
  <2>9. p = m BY <2>7, <2>8, <1>9
  <2> QED BY <2>6, <2>9, <1>m
<1>11. ASSUME NEW i \in sets, \A j \in sets : j <= i
       PROVE  TopicOf(Ahead(c)[i]) = topic[ch] /\ Ahead(c)[i].chan = channel[c]
  <2>1. i \in 1..Len(h) /\ a + i \in Topical(k) BY <1>7
  <2>2. a + i <= m BY <2>1, <1>m DEF Newest
  <2>3. m > a BY <2>1, <2>2, <1>5, <1>9
  <2>4. m - a \in sets BY <2>3, <1>8, <1>m DEF Newest
  <2>5. m - a <= i BY <2>4, <1>11
  <2>6. a + i = m
    <3>1. i \in Int /\ m \in Int /\ a \in Int BY <2>1, <1>5, <1>9
    <3> QED BY <3>1, <2>2, <2>5
  <2>7. h[i] = told[k][m] BY <2>1, <2>6, <1>5
  <2>8. told[k][m].chan = ch BY <1>3, <1>m DEF ToldTopic, Newest
  <2> QED BY <2>7, <2>8, <1>m, <1>4, <1>h
<1> QED BY <1>10, <1>11

LEMMA InvHearsEveryWord == IInv => HearsEveryWord
<1> SUFFICES ASSUME IInv, NEW c \in Clients, NEW k \in Conns \ {Conn(c)}, pc[c] \in Loop
    PROVE  LET together == \E ch \in Channels : {Conn(c), k} \subseteq users[ch]
               said == shown[c] \o Ahead(c) \o (IF together THEN up[k] ELSE <<>>)
               its(i) == said[i].from = k /\ said[i].kind # "332"
           IN  \A i, j \in DOMAIN said :
                 i < j /\ its(i) /\ its(j) /\ (\A m \in (i + 1)..(j - 1) : ~its(m))
                 => said[j].val = said[i].val + 1
  BY Zenon DEF HearsEveryWord
<1>u. PICK u : u = IF \E ch \in Channels : {Conn(c), k} \subseteq users[ch] THEN up[k] ELSE <<>>
  OBVIOUS
<1>v. PICK said : said = shown[c] \o Ahead(c) \o u OBVIOUS
<1> DEFINE Its(p) == said[p].from = k /\ said[p].kind # "332"
<1>i. SUFFICES ASSUME NEW i \in DOMAIN said, NEW j \in DOMAIN said, i < j, Its(i), Its(j),
                     \A m \in (i + 1)..(j - 1) : ~Its(m)
    PROVE  said[j].val = said[i].val + 1
  <2>1. \A i, j \in DOMAIN said :
          i < j /\ Its(i) /\ Its(j) /\ (\A m \in (i + 1)..(j - 1) : ~Its(m))
          => said[j].val = said[i].val + 1
    OBVIOUS
  <2> QED BY ZenonT(60), <2>1, <1>u, <1>v
<1>o. PICK o : o = Conn(c) OBVIOUS
<1>a. PICK a : a = At(c) OBVIOUS
<1>h. PICK h : h = Ahead(c) OBVIOUS
<1>w. PICK w : w = shown[c] OBVIOUS
<1>0. /\ TypeOK /\ Starts /\ Tracks /\ Links /\ Members /\ Said /\ Heard /\ Shape
      /\ pc[c] \in Active
  BY DEF IInv, Active
<1>1. o \in Conns /\ o[1] = c /\ IsNow(o) /\ link[o] \in {"open", "ended"}
  <2>1. o \in Conns /\ o[1] = c /\ IsNow(o) BY <1>o, <1>0, ArrivesIs
  <2> QED BY <2>1, <1>0 DEF Links, LinkOK
<1>2. /\ h \in Seq(Lines) /\ Len(h) = Len(told[o]) - a /\ Len(h) \in Nat /\ a \in Nat
      /\ \A p \in 1..Len(h) : h[p] = told[o][a + p]
  BY <1>o, <1>h, <1>a, <1>0, AheadIs
<1>3. Len(told[o]) \in Nat /\ DOMAIN told[o] = 1..Len(told[o]) BY <1>0, <1>1, ToldIs
<1>4. w \in Seq(Lines) /\ up[k] \in Seq(Lines) BY <1>w, <1>0 DEF TypeOK
<1>5. u # <<>> => Together(o, k) /\ link[o] = "open" /\ u = up[k]
  <2> SUFFICES ASSUME u # <<>> PROVE Together(o, k) /\ link[o] = "open" /\ u = up[k] OBVIOUS
  <2>1. PICK ch \in Channels : o \in users[ch] /\ k \in users[ch] BY <1>o, <1>u
  <2>2. link[o] # "ended" BY <2>1, <1>0 DEF Members, MemberOK
  <2>3. u = up[k] BY <1>u
  <2> QED BY <2>1, <2>2, <2>3, <1>1 DEF Together
<1>6. u \in Seq(Lines) BY <1>4, <1>u, NothingIn
<1>7. a >= 5
  <2>1. SUFFICES ASSUME ~(a >= 5) PROVE FALSE OBVIOUS
  <2>2. Lost(c) /\ w = <<>>
    <3>1. ~OnTrack(c) /\ a < 5 BY <2>1, <1>a, <1>2 DEF OnTrack
    <3> QED BY <3>1, <1>a, <1>w, <1>0 DEF Tracks, TrackOK
  <2>3. h = <<>> BY <2>2, <1>h, <1>0, NothingAhead
  <2>4. u = <<>> BY <2>2, <1>5, <1>o DEF Lost
  <2>5. said = <<>> BY <2>2, <2>3, <2>4, <1>h, <1>w, <1>v
  <2> QED BY <2>5, NothingIn
<1>8. Len(w) = a - 5 /\ DOMAIN w = 1..Len(w) /\ \A p \in DOMAIN w : w[p] = told[o][5 + p]
  <2>1. DOMAIN w = 1..Len(w) BY <1>4, LenProperties
  <2> QED BY <2>1, <1>7, <1>a, <1>o, <1>w, <1>0 DEF Tracks, TrackOK
<1>s. PICK s : s = w \o h OBVIOUS
<1>n. PICK n : n = Len(told[o]) - 5 OBVIOUS
<1>9. s \in Seq(Lines) /\ Len(s) = n /\ n \in Nat /\ \A p \in 1..n : s[p] = told[o][5 + p]
  <2>0. w \in Seq(Lines) /\ h \in Seq(Lines) BY <1>2, <1>4
  <2>1. /\ w \o h \in Seq(Lines) /\ Len(w \o h) = Len(w) + Len(h)
        /\ \A p \in 1..Len(w) : (w \o h)[p] = w[p]
        /\ \A p \in 1..Len(h) : (w \o h)[Len(w) + p] = h[p]
    BY <2>0, ConcatIs
  <2>2. Len(s) = n /\ n \in Nat BY <2>1, <1>s, <1>n, <1>2, <1>3, <1>7, <1>8
  <2>3. ASSUME NEW p \in 1..n PROVE s[p] = told[o][5 + p]
    <3>1. CASE p <= Len(w)
      <4>1. p \in 1..Len(w) BY <3>1, <1>2, <1>7, <1>8
      <4> QED BY <4>1, <2>1, <1>s, <1>8
    <3>2. CASE p > Len(w)
      <4>q. PICK q : q = p - Len(w) OBVIOUS
      <4>1. q \in 1..Len(h) /\ Len(w) + q = p /\ a + q = 5 + p
        BY <4>q, <3>2, <1>n, <1>2, <1>3, <1>7, <1>8
      <4> QED BY <4>1, <2>1, <1>s, <1>2
    <3>3. p <= Len(w) \/ p > Len(w) BY <1>2, <1>7, <1>8
    <3> QED BY <3>1, <3>2, <3>3
  <2> QED BY <2>1, <2>2, <2>3, <1>s
<1>10. /\ DOMAIN said = 1..(n + Len(u)) /\ Len(u) \in Nat
       /\ \A p \in 1..n : said[p] = told[o][5 + p]
       /\ \A p \in 1..Len(u) : said[n + p] = u[p]
  <2>0. s \in Seq(Lines) /\ u \in Seq(Lines) BY <1>9, <1>6
  <2>1. said = s \o u BY <1>s, <1>w, <1>h, <1>v
  <2>2. /\ DOMAIN (s \o u) = 1..(Len(s) + Len(u)) /\ Len(u) \in Nat
        /\ \A p \in 1..Len(s) : (s \o u)[p] = s[p]
        /\ \A p \in 1..Len(u) : (s \o u)[Len(s) + p] = u[p]
    BY <2>0, ConcatIs
  <2> QED BY <2>1, <2>2, <1>9
<1>11. \A p \in 1..n : Its(p) <=> 5 + p \in Words(o, k)
  <2> SUFFICES ASSUME NEW p \in 1..n PROVE Its(p) <=> 5 + p \in Words(o, k) OBVIOUS
  <2>q. PICK q : q = 5 + p OBVIOUS
  <2>1. q \in DOMAIN told[o] /\ q > 5 BY <2>q, <1>n, <1>3, <1>9
  <2>2. told[o][q].kind # "332" BY <2>1, <1>0, <1>1 DEF Shape, ToldOK, Chat
  <2>3. said[p] = told[o][q] BY <2>q, <1>10
  <2> QED BY <2>1, <2>2, <2>3, <2>q DEF Words
<1>12. \A q \in Words(o, k) : q - 5 \in 1..n /\ Its(q - 5)
  <2> SUFFICES ASSUME NEW q \in Words(o, k) PROVE q - 5 \in 1..n /\ Its(q - 5) OBVIOUS
  <2>p. PICK p : p = q - 5 OBVIOUS
  <2>1. p \in 1..n /\ 5 + p = q BY <2>p, <1>n, <1>3, <1>9 DEF Words
  <2> QED BY <2>1, <2>p, <1>11
<1>13. \A p \in 1..Len(u) : /\ Its(n + p) /\ u = up[k]
                            /\ p + 1 \in 1..Len(u) => u[p + 1].val = u[p].val + 1
  <2> SUFFICES ASSUME NEW p \in 1..Len(u)
      PROVE  /\ Its(n + p) /\ u = up[k]
             /\ p + 1 \in 1..Len(u) => u[p + 1].val = u[p].val + 1
    OBVIOUS
  <2>1. u # <<>> BY <1>10, EmptySeq
  <2>2. u = up[k] /\ Together(o, k) BY <2>1, <1>5
  <2>3. PICK ch \in Channels : k \in users[ch] BY <2>2 DEF Together
  <2>4. DOMAIN up[k] = 1..Len(u) BY <2>2, <1>4, LenProperties
  <2>5. /\ u[p].kind \in Spoken /\ u[p].from = k
        /\ p + 1 \in 1..Len(u) => u[p + 1].val = u[p].val + 1
    BY <2>2, <2>3, <2>4, <1>0 DEF Said, SaidOK
  <2>6. said[n + p] = u[p] BY <1>10
  <2>7. Its(n + p) BY <2>5, <2>6 DEF Spoken
  <2> QED BY <2>2, <2>5, <2>7
<1>14. /\ Its(i) /\ Its(j) /\ i < j /\ i \in 1..(n + Len(u)) /\ j \in 1..(n + Len(u))
       /\ \A m \in (i + 1)..(j - 1) : ~Its(m)
  BY <1>10, <1>i
<1> HIDE DEF Its
<1>15. InARow(o, k) /\ Follows(o, k) BY <1>0, <1>1, <1>o DEF Heard
<1>16. CASE j <= n
  <2>x. PICK x : x = 5 + i OBVIOUS
  <2>y. PICK y : y = 5 + j OBVIOUS
  <2>1. i \in 1..n /\ j \in 1..n BY <1>16, <1>9, <1>10, <1>14
  <2>2. x \in Words(o, k) /\ y \in Words(o, k) /\ x < y BY <2>x, <2>y, <2>1, <1>11, <1>14
  <2>3. ASSUME NEW p \in (x + 1)..(y - 1) PROVE p \notin Words(o, k)
    <3>1. p - 5 \in (i + 1)..(j - 1) BY <2>1, <2>x, <2>y
    <3> QED BY <3>1, <1>12, <1>14
  <2>4. told[o][y].val = told[o][x].val + 1 BY <2>2, <2>3, <1>15 DEF InARow
  <2> QED BY <2>1, <2>4, <2>x, <2>y, <1>10
<1>17. CASE i > n
  <2>p. PICK p : p = i - n OBVIOUS
  <2>q. PICK q : q = j - n OBVIOUS
  <2>1. p \in 1..Len(u) /\ q \in 1..Len(u) /\ i = n + p /\ j = n + q /\ p < q
    BY <2>p, <2>q, <1>17, <1>9, <1>10, <1>14
  <2>2. ~(p + 1 < q)
    <3>1. SUFFICES ASSUME p + 1 < q PROVE FALSE OBVIOUS
    <3>2. p + 1 \in 1..Len(u) /\ n + (p + 1) \in (i + 1)..(j - 1) BY <3>1, <2>1, <1>9, <1>10
    <3> QED BY <3>2, <1>13, <1>14
  <2>3. q = p + 1 BY <2>1, <2>2, <1>10
  <2>4. u[p + 1].val = u[p].val + 1 BY <2>1, <2>3, <1>13
  <2> QED BY <2>1, <2>3, <2>4, <1>10
<1>18. CASE i <= n /\ j > n
  <2>x. PICK x : x = 5 + i OBVIOUS
  <2>1. i \in 1..n /\ 1 \in 1..Len(u) BY <1>18, <1>9, <1>10, <1>14
  <2>2. j = n + 1
    <3>1. SUFFICES ASSUME j # n + 1 PROVE FALSE OBVIOUS
    <3>2. n + 1 \in (i + 1)..(j - 1) BY <3>1, <2>1, <1>18, <1>9, <1>10, <1>14
    <3> QED BY <3>2, <2>1, <1>13, <1>14
  <2>3. x \in Words(o, k) BY <2>1, <2>x, <1>11, <1>14
  <2>4. ASSUME NEW q \in Words(o, k) PROVE q <= x
    <3>1. q - 5 \in 1..n /\ Its(q - 5) /\ q \in Int BY <1>12, <1>3 DEF Words
    <3>2. ~(q > x)
      <4>1. SUFFICES ASSUME q > x PROVE FALSE OBVIOUS
      <4>2. q - 5 \in (i + 1)..(j - 1) BY <4>1, <3>1, <2>x, <2>1, <1>18, <1>9, <1>14
      <4> QED BY <4>2, <3>1, <1>14
    <3> QED BY <3>1, <3>2, <2>x, <2>1
  <2>5. u # <<>> BY <2>1, <1>10, EmptySeq
  <2>6. UpTo(o, k) /\ u = up[k] BY <2>5, <1>5, <1>15 DEF Follows
  <2>7. told[o][x].val + 1 = NextVal(k) BY <2>3, <2>4, <2>6 DEF UpTo
  <2>8. NextVal(k) = u[1].val BY <2>5, <2>6 DEF NextVal
  <2>9. said[i] = told[o][x] /\ said[j] = u[1] BY <2>1, <2>2, <2>x, <1>10
  <2> QED BY <2>7, <2>8, <2>9
<1>19. j <= n \/ i > n \/ (i <= n /\ j > n) BY <1>9, <1>10, <1>14
<1> QED BY <1>16, <1>17, <1>18, <1>19

(* Each step moves one client at most. *)
LEMMA ClientMoves ==
  ASSUME TypeOK, NEW c \in Clients, NEW d \in Clients, pc'[c] # pc[c],
         Start(d) \/ User(d) \/ Program(d)
  PROVE  c = d
<1>1. ASSUME NEW how, Goto(d, how) PROVE c = d BY <1>1 DEF Goto, TypeOK
<1>2. ASSUME NEW how, RunEnds(d, how) PROVE c = d BY <1>1, <1>2 DEF RunEnds
<1>3. ASSUME NEW n, NEW wrote, ReadAndParse(d, n, wrote) PROVE c = d
  <2>1. Goto(d, "input") \/ RunEnds(d, "failed") BY <1>3 DEF ReadAndParse
  <2> QED BY <2>1, <1>1, <1>2
<1>4. CASE Start(d) BY <1>4, <1>1 DEF Start, ConnectAndPassUserInfo
<1>5. CASE \E ch \in Channels : JoinChannel(d, ch) BY <1>5, <1>1 DEF JoinChannel
<1>6. CASE \E n \in Arrives(d) : PressEnter(d, n) BY <1>6, <1>3 DEF PressEnter
<1>7. CASE \E kind \in {"PRIVMSG", "TOPIC"} : Type(d, kind)
  <2>1. PICK n \in Arrives(d) : ReadAndParse(d, n, 1) BY <1>7 DEF Type
  <2> QED BY <2>1, <1>3
<1>8. CASE Exit(d) BY <1>8, <1>2 DEF Exit
<1>9. CASE Leave(d) BY <1>9, <1>1 DEF Leave, ConnectAndPassUserInfo
<1>10. CASE ConnectThrows(d) BY <1>10, <1>1, <1>2 DEF ConnectThrows
<1>11. CASE ReadWelcome(d)
  <2>1. \E how : Goto(d, how) BY <1>11 DEF ReadWelcome
  <2> QED BY <2>1, <1>1
<1>12. CASE ReadReply(d)
  <2>1. \E text : UseReply(d, text) BY <1>12 DEF ReadReply
  <2> QED BY <2>1, <1>1 DEF UseReply
<1>13. CASE ReadNothing(d)
  <2>1. \/ \E how \in {"crashed", "failed"} : RunEnds(d, how)
        \/ Goto(d, "prompt") \/ UseReply(d, Garbage)
    BY <1>13 DEF ReadNothing
  <2> QED BY <2>1, <1>1, <1>2 DEF UseReply
<1>14. CASE Update(d)
  <2>1. PICK n \in Arrives(d) : ReadAndParse(d, n, 0) BY <1>14 DEF Update
  <2> QED BY <2>1, <1>3
<1> QED BY <1>4, <1>5, <1>6, <1>7, <1>8, <1>9, <1>10, <1>11, <1>12, <1>13, <1>14 DEF User, Program

Reason(c) ==
  \/ ~running \/ link[Conn(c)] = "ended"
  \/ \E l \in ToSet(Ahead(c)) : l.from # None /\ l.from[1] \in Odd

(* An update that throws has come across a line from an odd name, or across  *)
(* a reply it has not asked for: and then the connection has ended.          *)
LEMMA ParseFails ==
  ASSUME IInv, NEW c \in Clients, pc[c] \in Loop, NEW n \in Arrives(c), NEW wrote,
         ReadAndParse(c, n, wrote), pc'[c] \in {"failed", "crashed"}
  PROVE  Reason(c)
<1>k. PICK k : k = Conn(c) OBVIOUS
<1>a. PICK a : a = At(c) OBVIOUS
<1>g. PICK g : g = Got(c, n) OBVIOUS
<1>0. TypeOK /\ Tracks /\ Starts /\ Shape /\ pc[c] \in Active BY DEF IInv, Active
<1>1. \E l \in ToSet(g) : ~Parses(l)
  <2>1. SUFFICES ASSUME \A l \in ToSet(g) : Parses(l) PROVE FALSE OBVIOUS
  <2>2. Goto(c, "input") BY <2>1, <1>g DEF ReadAndParse, Got
  <2> QED BY <2>2, <1>0 DEF Goto, TypeOK
<1>2. /\ k \in Conns /\ n \in Nat /\ Len(sockMsgs[c]) \in Nat /\ Len(told[k]) \in Nat
      /\ read[k] + n <= Len(told[k]) /\ read[k] \in Nat
      /\ a \in Nat /\ a + Len(sockMsgs[c]) = read[k]
      /\ g \in Seq(Lines) /\ Len(g) = Len(sockMsgs[c]) + n
      /\ \A i \in 1..(Len(sockMsgs[c]) + n) : g[i] = told[k][a + i]
  BY <1>k, <1>a, <1>g, <1>0, GotIs
<1>3. g \in Seq(Lines) BY <1>2
<1>4. PICK i \in 1..Len(g) : ~Parses(g[i]) BY <1>1, <1>3, ToSetIs
<1>5. /\ Ahead(c) # <<>> /\ g[i] \in ToSet(Ahead(c))
      /\ g[i] = told[k][a + i] /\ a + i \in DOMAIN told[k]
  <2>1. /\ Ahead(c) \in Seq(Lines) /\ Len(Ahead(c)) = Len(told[k]) - a
        /\ \A p \in 1..Len(Ahead(c)) : Ahead(c)[p] = told[k][a + p]
    BY <1>k, <1>a, <1>0, AheadIs
  <2>m. PICK m : m = Len(sockMsgs[c]) OBVIOUS
  <2>n. PICK z : z = Len(told[k]) OBVIOUS
  <2>r. PICK r : r = read[k] OBVIOUS
  <2>i. /\ m \in Nat /\ n \in Nat /\ z \in Nat /\ r \in Nat /\ a \in Nat
        /\ r + n <= z /\ a + m = r /\ i \in 1..(m + n)
    BY <2>m, <2>n, <2>r, <1>2, <1>4
  <2>z. i \in 1..(z - a) /\ a + i \in 1..z BY <2>i
  <2>2. i \in 1..Len(Ahead(c)) /\ a + i \in 1..Len(told[k]) BY <2>z, <2>n, <2>1
  <2>3. g[i] = told[k][a + i] /\ Ahead(c)[i] = g[i] BY <2>1, <2>2, <1>2, <1>4
  <2>4. Ahead(c) \in Seq(Lines) BY <2>1
  <2>5. g[i] \in ToSet(Ahead(c)) BY <2>2, <2>3, <2>4, ToSetIs
  <2>6. Ahead(c) # <<>> BY <2>5, NothingIn
  <2>7. DOMAIN told[k] = 1..Len(told[k]) BY <1>0, <1>2, ToldIs
  <2> QED BY <2>2, <2>3, <2>5, <2>6, <2>7
<1>6. a + i > 5
  <2>1. OnTrack(c) BY <1>0, <1>5, NextIs
  <2> QED BY <2>1, <1>a, <1>2, <1>4 DEF OnTrack
<1>7. g[i].kind \in Chat /\ g[i].from \in Conns BY <1>0, <1>2, <1>5, <1>6 DEF Shape, ToldOK
<1>8. g[i].from[1] \in Odd BY <1>4, <1>7 DEF Parses, Chat
<1>9. g[i].from # None BY <1>7, NoneAssumption
<1> QED BY <1>5, <1>8, <1>9 DEF Reason

LEMMA StepFails ==
  ASSUME IInv, NEW c \in Clients, pc'[c] \in {"failed", "crashed"}, pc'[c] # pc[c],
         Start(c) \/ User(c) \/ Program(c)
  PROVE  Reason(c)
<1>0. TypeOK BY DEF IInv
<1>1. ASSUME NEW how, Goto(c, how) PROVE pc'[c] = how BY <1>0, <1>1 DEF Goto, TypeOK
<1>2. CASE Start(c) BY <1>2, <1>1 DEF Start, ConnectAndPassUserInfo
<1>3. CASE \E ch \in Channels : JoinChannel(c, ch) BY <1>3, <1>1 DEF JoinChannel
<1>4. CASE \E n \in Arrives(c) : PressEnter(c, n) BY <1>4, ParseFails DEF PressEnter, Loop
<1>5. CASE \E kind \in {"PRIVMSG", "TOPIC"} : Type(c, kind)
  <2>1. PICK n \in Arrives(c) : ReadAndParse(c, n, 1) BY <1>5 DEF Type
  <2>2. pc[c] \in Loop BY <1>5 DEF Type, Loop
  <2> QED BY <2>1, <2>2, ParseFails
<1>6. CASE Exit(c)
  <2>1. Goto(c, "ended") BY <1>6 DEF Exit, RunEnds
  <2> QED BY <2>1, <1>1
<1>7. CASE Leave(c) BY <1>7, <1>1 DEF Leave, ConnectAndPassUserInfo
<1>8. CASE ConnectThrows(c) BY <1>8 DEF ConnectThrows, Reason
<1>9. CASE ReadWelcome(c)
  <2>1. Goto(c, "prompt") \/ Goto(c, "ended") BY <1>9 DEF ReadWelcome
  <2> QED BY <2>1, <1>1
<1>10. CASE ReadReply(c)
  <2>1. Goto(c, AfterReply[pc[c]]) /\ pc[c] \in Replies BY <1>10 DEF ReadReply, UseReply
  <2>2. pc'[c] = AfterReply[pc[c]] BY <2>1, <1>1
  <2> QED BY <2>1, <2>2 DEF AfterReply, Replies
<1>11. CASE ReadNothing(c) BY <1>11 DEF ReadNothing, Reason
<1>12. CASE Update(c)
  <2>1. PICK n \in Arrives(c) : ReadAndParse(c, n, 0) BY <1>12 DEF Update
  <2>2. pc[c] \in Loop BY <1>12 DEF Update, Loop
  <2> QED BY <2>1, <2>2, ParseFails
<1> QED BY <1>2, <1>3, <1>4, <1>5, <1>6, <1>7, <1>8, <1>9, <1>10, <1>11, <1>12 DEF User, Program

LEMMA NobodyElseFails ==
  ASSUME IInv, NEW c \in Clients, pc'[c] \in {"failed", "crashed"}, pc'[c] # pc[c], [Next]_vars
  PROVE  Reason(c)
<1>1. CASE \E d \in Clients : Start(d) \/ User(d) \/ Program(d)
  <2>1. PICK d \in Clients : Start(d) \/ User(d) \/ Program(d) BY <1>1
  <2>2. c = d BY <2>1, ClientMoves DEF IInv
  <2> QED BY <2>1, <2>2, StepFails
<1>2. CASE MainThread BY <1>2 DEF MainThread, RegisterSession, GetChannelName, client
<1>3. CASE ServerStops BY <1>3 DEF ServerStops, client
<1>4. CASE \E ch \in Channels : Thread(ch)
  BY <1>4 DEF Thread, HandleNewuser, ThreadEnds, HandlePriv, HandleTopic, HandlePart, client
<1>5. CASE UNCHANGED vars BY <1>5 DEF vars, client
<1> QED BY <1>1, <1>2, <1>3, <1>4, <1>5 DEF Next

-----------------------------------------------------------------------------
(* The theorems. *)

(* Every variable keeps to its type: no client types or reconnects beyond    *)
(* its bounds, and none has read more than the server has written to it.     *)
THEOREM SpecTypeOK == Spec => []TypeOK
<1>1. IInv => TypeOK BY DEF IInv
<1> QED BY <1>1, SpecIInv, PTL

(* The replies that connect_to_channel knows only by their place are where   *)
(* it looks for them, after any number of LEAVEs and with whatever the       *)
(* others say; and nothing but chat is left for the loop of run.             *)
THEOREM SpecRepliesInPlace == Spec => []RepliesInPlace
BY InvRepliesInPlace, SpecIInv, PTL

(* No line of another member is missing, doubled or out of order, from what  *)
(* a user has been shown to what the thread has yet to take up.              *)
THEOREM SpecHearsEveryWord == Spec => []HearsEveryWord
BY InvHearsEveryWord, SpecIInv, PTL

(* A member that has caught up shows the topic of its channel, however the   *)
(* TOPICs of the others and its own JOIN have crossed.                       *)
THEOREM SpecTopicIsCurrent == Spec => []TopicIsCurrent
BY InvTopicIsCurrent, SpecIInv, PTL

(* The lines of the members name their channel, which no handler looks at.   *)
THEOREM SpecNamesItsChannel == Spec => []NamesItsChannel
BY InvNamesItsChannel, SpecIInv, PTL

(* Whom the server holds for a member has its client there, unless it has    *)
(* said PART or failed, and who chats over an open connection is a member.   *)
THEOREM SpecMembersAreThere == Spec => []MembersAreThere
BY InvMembersAreThere, SpecIInv, PTL

(* A client fails only if the server has stopped, has closed its connection, *)
(* or sends it a line that parse_session_msg has no pattern for: one of      *)
(* somebody whose name is not of word characters.                            *)
THEOREM SpecFailsForAReason == Spec => FailsForAReason
<1>1. IInv /\ [Next]_vars =>
        [\A c \in Clients : pc'[c] \in {"failed", "crashed"} /\ pc[c] # pc'[c] =>
           \/ ~running \/ link[Conn(c)] = "ended"
           \/ \E l \in ToSet(Ahead(c)) : l.from # None /\ l.from[1] \in Odd]_vars
  BY NobodyElseFails DEF Reason
<1> QED BY <1>1, SpecIInv, PTL DEF Spec, FailsForAReason
=============================================================================
