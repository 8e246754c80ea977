------------------------- MODULE RegistrationProofs -------------------------
(***************************************************************************)
(* Registration.tla for any number of servers and clients, whatever their  *)
(* nicks and passwords: the inductive invariant IInv holds of every        *)
(* behaviour, and with it what Registration.cfg checks on two clients.     *)
(***************************************************************************)
EXTENDS Registration, SequenceTheorems, TLAPS

(* The lines that may come k-th from c.                                      *)
Script(c, k) ==
  IF k = 1 THEN {NickOf[c]} ELSE IF k = 2 THEN {"USER"}
  ELSE IF k = 3 THEN {PassOf[c]} ELSE Channels

(* The lines of seq are those that c sends after its first n.                *)
Follows(c, n, seq) == \A i \in 1..Len(seq) : seq[i] \in Script(c, n + i)

(* Where the nick, the password and the channel have been read, and how many *)
(* lines have been read by then.                                             *)
NickRead == Busy \ {"nick"}
PassRead == NickRead \ {"user", "pass"}
ChanRead == {"publish", "channel", "topic", "insertChannel", "thread"}

Taken(where) ==
  IF where \in ChanRead THEN 4 ELSE IF where \in PassRead THEN 3
  ELSE IF where = "pass" THEN 2 ELSE IF where = "user" THEN 1 ELSE 0

(* What a server has in hand has connected to it, and nothing of the         *)
(* connection before is left.                                                *)
InHand ==
  /\ \A s \in Servers : IF pc[s] \in Busy THEN at[current[s]] = s ELSE lines[s] = <<>>
  /\ \A c \in accepted : at[c] \in Servers

(* A field is set from when its line has been read.                          *)
FieldsRead ==
  \A s \in Servers :
    /\ pc[s] \in NickRead <=> took[s].nick # None
    /\ pc[s] \in PassRead <=> took[s].pass # None
    /\ pc[s] \in ChanRead <=> took[s].chan # None

(* Who has not connected is nobody's client.                                 *)
NothingBefore == \A c \in Clients : conn[c] = "none" => at[c] = None

(* Nobody is told anything before the answer to its password.                *)
ToldOnce ==
  /\ \A c \in Clients \ accepted : told[c] = <<>>
  /\ \A s \in Servers :
       pc[s] \in {"nick", "user", "pass", "check", "verify", "insertUser", "login", "welcome",
                 "refuse"} => told[current[s]] = <<>>

(* Nothing that is sent gets lost, doubled or out of order.                  *)
InOrder ==
  /\ \A c \in Clients \ accepted :
       said[c] = Len(wire[c]) /\ Follows(c, 0, wire[c])
  /\ \A s \in Servers :
       LET c == current[s]
           n == Taken(pc[s])
       IN pc[s] \in Busy /\ conn[c] = "open" =>
            /\ said[c] = n + Len(lines[s]) + Len(wire[c])
            /\ Follows(c, n, lines[s])
            /\ Follows(c, n + Len(lines[s]), wire[c])

(* What has been read of a client that is there is what it sent.             *)
AsAsked ==
  \A s \in Servers : pc[s] \in Busy /\ conn[current[s]] = "open" =>
    /\ pc[s] \in NickRead => took[s].nick = NickOf[current[s]]
    /\ pc[s] \in PassRead => took[s].pass = PassOf[current[s]]
    /\ pc[s] \in ChanRead => took[s].chan \in Channels

(* The password has been compared or stored before the login is noted.       *)
LoginVerified ==
  \A s \in Servers :
    /\ pc[s] \in {"welcome", "join"} \cup ChanRead => current[s] \in logins
    /\ pc[s] \in {"login", "welcome"} => passwords[took[s].nick] = took[s].pass

(* A user is queued, and the channel has a row, before the thread is made.   *)
QueuedFirst ==
  \A s \in Servers :
    /\ pc[s] \in {"channel", "topic", "insertChannel", "thread"} =>
         <<current[s], took[s].chan>> \in handed
    /\ pc[s] \in {"topic", "thread"} => took[s].chan \in chanRows

IInv ==
  /\ TypeOK /\ InHand /\ FieldsRead /\ NothingBefore /\ ToldOnce
  /\ InOrder /\ AsAsked /\ LoginVerified /\ QueuedFirst
  /\ WelcomeAfterLogin /\ RowBeforeThread

-----------------------------------------------------------------------------
(* A line more at the end, and a line less at the start.                     *)
LEMMA FollowsAppend ==
  ASSUME NEW c, NEW n \in Nat, NEW seq \in Seq(Lines), NEW line \in Lines,
         Follows(c, n, seq), line \in Script(c, n + Len(seq) + 1)
  PROVE  Follows(c, n, Append(seq, line))
<1> DEFINE app == Append(seq, line)
<1>1. /\ Len(seq) \in Nat
      /\ Len(app) = Len(seq) + 1
      /\ \A i \in 1..Len(seq) : app[i] = seq[i]
      /\ app[Len(seq) + 1] = line
  BY AppendProperties, LenProperties
<1> HIDE DEF app
<1>2. ASSUME NEW i \in 1..Len(app) PROVE app[i] \in Script(c, n + i)
  <2>1. CASE i \in 1..Len(seq) BY <2>1, <1>1 DEF Follows
  <2>2. CASE i = Len(seq) + 1
    <3>1. n + i = n + Len(seq) + 1 BY <2>2, <1>1
    <3> QED BY <3>1, <2>2, <1>1
  <2> QED BY <2>1, <2>2, <1>1
<1> QED BY <1>2 DEF Follows, app

LEMMA FollowsTail ==
  ASSUME NEW c, NEW n \in Nat, NEW seq \in Seq(Lines), seq # <<>>, Follows(c, n, seq)
  PROVE  /\ Head(seq) \in Script(c, n + 1)
         /\ Len(Tail(seq)) \in Nat /\ Len(seq) = Len(Tail(seq)) + 1
         /\ Follows(c, n + 1, Tail(seq))
<1>1. /\ Len(seq) \in Nat \ {0}
      /\ Head(seq) = seq[1]
      /\ Len(Tail(seq)) = Len(seq) - 1
      /\ \A i \in 1..Len(seq) - 1 : Tail(seq)[i] = seq[i + 1]
  BY HeadTailProperties, EmptySeq, LenProperties
<1>2. ASSUME NEW i \in 1..Len(Tail(seq)) PROVE Tail(seq)[i] \in Script(c, n + 1 + i)
  <2>1. i + 1 \in 1..Len(seq) /\ Tail(seq)[i] = seq[i + 1] BY <1>1
  <2>2. n + (i + 1) = n + 1 + i OBVIOUS
  <2> QED BY <2>1, <2>2 DEF Follows
<1>3. 1 \in 1..Len(seq) BY <1>1
<1> QED BY <1>1, <1>2, <1>3 DEF Follows

LEMMA FollowsNothing ==
  ASSUME NEW c, NEW n \in Nat
  PROVE  Len(<<>>) = 0 /\ Follows(c, n, <<>>)
<1>1. Len(<<>>) = 0 BY EmptySeq
<1> QED BY <1>1 DEF Follows

(* A server starts with nothing in hand, and nobody has said anything.       *)
LEMMA InitIInv == Init => IInv
<1> SUFFICES ASSUME Init PROVE IInv
  OBVIOUS
<1> USE NoneAssumption DEF Init, Alone, Down, Busy, Reading, InDatabase
<1>1. TypeOK
  <2>1. <<>> \in Seq(Lines) BY EmptySeq
  <2>2. chanRows \subseteq Lines BY DEF Lines
  <2> QED BY <2>1, <2>2 DEF TypeOK, NothingRead
<1>2. InHand BY DEF InHand
<1>3. FieldsRead BY DEF FieldsRead, NothingRead, NickRead, PassRead, ChanRead
<1>4. NothingBefore BY DEF NothingBefore
<1>5. ToldOnce BY DEF ToldOnce
<1>6. InOrder BY FollowsNothing DEF InOrder
<1>7. AsAsked BY DEF AsAsked
<1>8. LoginVerified BY DEF LoginVerified, ChanRead
<1>9. QueuedFirst BY DEF QueuedFirst
<1>10. WelcomeAfterLogin BY DEF WelcomeAfterLogin
<1>11. RowBeforeThread BY DEF RowBeforeThread
<1> QED BY <1>1, <1>2, <1>3, <1>4, <1>5, <1>6, <1>7, <1>8, <1>9, <1>10, <1>11 DEF IInv

-----------------------------------------------------------------------------
(* Whoever connects has not been in anybody's hands.                         *)
LEMMA ConnectStep ==
  ASSUME IInv, NEW c \in Clients, NEW s \in Servers, Connect(c, s)
  PROVE  IInv'
<1> USE NoneAssumption DEF IInv, Connect, mainVars, database
<1>0. /\ at[c] = None /\ None \notin Servers /\ c \notin accepted
      /\ \A t \in Servers : pc[t] \in Busy => current[t] # c
      /\ at \in [Clients -> Servers \cup {None}] /\ at' = [at EXCEPT ![c] = s]
      /\ conn' = [conn EXCEPT ![c] = "open"] /\ DOMAIN conn = Clients
  BY DEF NothingBefore, InHand, TypeOK
<1>1. TypeOK' BY DEF TypeOK
<1>2. InHand' BY <1>0 DEF InHand, TypeOK
<1>3. FieldsRead' BY DEF FieldsRead
<1>4. NothingBefore' BY <1>0 DEF NothingBefore, TypeOK
<1>5. ToldOnce' BY DEF ToldOnce
<1>6. InOrder' BY <1>0 DEF InOrder, TypeOK
<1>7. AsAsked' BY <1>0 DEF AsAsked, TypeOK
<1>8. LoginVerified' BY DEF LoginVerified
<1>9. QueuedFirst' BY DEF QueuedFirst
<1>10. WelcomeAfterLogin' BY DEF WelcomeAfterLogin
<1>11. RowBeforeThread'
  <2>1. \A d \in Clients : at[d] \in Servers => at'[d] = at[d] BY <1>0
  <2> QED BY <2>1 DEF RowBeforeThread
<1> QED BY <1>1, <1>2, <1>3, <1>4, <1>5, <1>6, <1>7, <1>8, <1>9, <1>10, <1>11

(* A line is added at the end of what the client has said.                   *)
LEMMA SendStep ==
  ASSUME IInv, NEW c \in Clients, NEW line \in Script(c, said[c] + 1), line \in Lines,
         conn[c] = "open", said[c] < 4, Send(c, line)
  PROVE  IInv'
<1> USE DEF IInv, Send, mainVars, database
<1>a. /\ wire \in [Clients -> Seq(Lines)] /\ wire[c] \in Seq(Lines)
      /\ wire' = [wire EXCEPT ![c] = Append(@, line)]
      /\ said \in [Clients -> 0..4] /\ said' = [said EXCEPT ![c] = @ + 1]
      /\ said[c] \in 0..3
  BY DEF TypeOK
<1>b. /\ Len(wire[c]) \in Nat
      /\ Append(wire[c], line) \in Seq(Lines)
      /\ Len(Append(wire[c], line)) = Len(wire[c]) + 1
  BY <1>a, AppendProperties, LenProperties
<1>c. /\ said'[c] = said[c] + 1 /\ wire'[c] = Append(wire[c], line)
      /\ \A d \in Clients \ {c} : said'[d] = said[d] /\ wire'[d] = wire[d]
  BY <1>a
<1>0. /\ wire' \in [Clients -> Seq(Lines)] /\ said' \in [Clients -> 0..4]
  BY <1>a, <1>b
<1>1. TypeOK' BY <1>0 DEF TypeOK
<1>2. InHand' BY DEF InHand
<1>3. FieldsRead' BY DEF FieldsRead
<1>4. NothingBefore' BY DEF NothingBefore
<1>5. ToldOnce' BY DEF ToldOnce
<1>6. InOrder'
  <2>1. ASSUME NEW d \in Clients \ accepted
        PROVE  said'[d] = Len(wire'[d]) /\ Follows(d, 0, wire'[d])
    <3>1. CASE d # c BY <3>1, <1>a, <1>b, <1>c DEF InOrder
    <3>2. CASE d = c
      <4>1. said[c] = Len(wire[c]) /\ Follows(c, 0, wire[c]) BY <2>1, <3>2 DEF InOrder
      <4>2. line \in Script(c, 0 + Len(wire[c]) + 1) BY <4>1, <1>a, <1>b, <1>c
      <4> QED BY <3>2, <4>1, <4>2, <1>a, <1>b, <1>c, FollowsAppend
    <3> QED BY <3>1, <3>2
  <2>2. ASSUME NEW s \in Servers, pc[s] \in Busy, conn[current[s]] = "open"
        PROVE  LET d == current[s]
                   n == Taken(pc[s])
               IN  /\ said'[d] = n + Len(lines[s]) + Len(wire'[d])
                   /\ Follows(d, n, lines[s])
                   /\ Follows(d, n + Len(lines[s]), wire'[d])
    <3> DEFINE d == current[s]
               n == Taken(pc[s])
    <3>1. /\ said[d] = n + Len(lines[s]) + Len(wire[d])
          /\ Follows(d, n, lines[s])
          /\ Follows(d, n + Len(lines[s]), wire[d])
      BY <2>2 DEF InOrder
    <3>2. n \in Nat /\ Len(lines[s]) \in Nat /\ d \in Clients
      BY <2>2, LenProperties DEF Taken, TypeOK
    <3> HIDE DEF n
    <3>3. CASE d # c BY <3>1, <3>2, <3>3, <1>c DEF n
    <3>4. CASE d = c
      <4>1. line \in Script(c, (n + Len(lines[s])) + Len(wire[c]) + 1)
        BY <3>1, <3>4, <1>a, <1>b, <1>c
      <4>2. Follows(c, n + Len(lines[s]), wire'[c])
        BY <4>1, <3>1, <3>2, <3>4, <1>a, <1>b, <1>c, FollowsAppend
      <4>3. said'[c] = n + Len(lines[s]) + Len(wire'[c]) BY <3>1, <3>2, <3>4, <1>a, <1>b, <1>c
      <4> QED BY <3>1, <3>4, <4>2, <4>3 DEF n
    <3> QED BY <3>3, <3>4
  <2> QED BY <2>1, <2>2 DEF InOrder
<1>7. AsAsked' BY DEF AsAsked
<1>8. LoginVerified' BY DEF LoginVerified
<1>9. QueuedFirst' BY DEF QueuedFirst
<1>10. WelcomeAfterLogin' BY DEF WelcomeAfterLogin
<1>11. RowBeforeThread' BY DEF RowBeforeThread
<1> QED BY <1>1, <1>2, <1>3, <1>4, <1>5, <1>6, <1>7, <1>8, <1>9, <1>10, <1>11

(* The lines of the user, and the channel once it has been welcomed, come in *)
(* the order of the script.                                                  *)
LEMMA ClientStep ==
  ASSUME IInv, NEW c \in Clients, Client(c)
  PROVE  IInv'
<1>1. CASE \E s \in Servers : Connect(c, s) BY <1>1, ConnectStep
<1>2. CASE PassUserInfo(c)
  <2>1. /\ conn[c] = "open" /\ said[c] \in {0, 1, 2}
        /\ Send(c, <<NickOf[c], "USER", PassOf[c]>>[said[c] + 1])
    <3>1. said[c] \in 0..4 BY DEF IInv, TypeOK
    <3>2. said[c] < 3 BY <1>2 DEF PassUserInfo
    <3>3. said[c] \in {0, 1, 2} BY <3>1, <3>2
    <3> QED BY <1>2, <3>3 DEF PassUserInfo
  <2>2. /\ <<NickOf[c], "USER", PassOf[c]>>[said[c] + 1] \in Script(c, said[c] + 1)
        /\ <<NickOf[c], "USER", PassOf[c]>>[said[c] + 1] \in Lines
    BY <2>1 DEF Script, Lines, Nicks, Passes
  <2> QED BY <2>1, <2>2, SendStep
<1>3. CASE AskForChannel(c)
  <2>1. PICK ch \in Channels : Send(c, ch) BY <1>3 DEF AskForChannel
  <2>2. conn[c] = "open" /\ said[c] = 3 BY <1>3 DEF AskForChannel
  <2>3. ch \in Script(c, said[c] + 1) /\ ch \in Lines BY <2>2 DEF Script, Lines
  <2> QED BY <2>1, <2>2, <2>3, SendStep
<1>4. CASE ConnectionEnds(c)
  <2> USE DEF IInv, ConnectionEnds, mainVars, database
  <2>0. /\ conn \in [Clients -> {"none", "open", "poked", "closed", "reset", "done"}]
        /\ \A d \in Clients : conn'[d] = "open" => conn[d] = "open"
        /\ \A d \in Clients : conn'[d] = "none" => conn[d] = "none"
    BY <1>4 DEF TypeOK
  <2>1. TypeOK' BY <1>4 DEF TypeOK
  <2>2. InHand' BY <1>4 DEF InHand
  <2>3. FieldsRead' BY <1>4 DEF FieldsRead
  <2>4. NothingBefore' BY <1>4, <2>0 DEF NothingBefore
  <2>5. ToldOnce' BY <1>4 DEF ToldOnce
  <2>6. InOrder' BY <1>4, <2>0 DEF InOrder, TypeOK
  <2>7. AsAsked' BY <1>4, <2>0 DEF AsAsked, TypeOK
  <2>8. LoginVerified' BY <1>4 DEF LoginVerified
  <2>9. QueuedFirst' BY <1>4 DEF QueuedFirst
  <2>10. WelcomeAfterLogin' BY <1>4 DEF WelcomeAfterLogin
  <2>11. RowBeforeThread' BY <1>4 DEF RowBeforeThread
  <2> QED BY <2>1, <2>2, <2>3, <2>4, <2>5, <2>6, <2>7, <2>8, <2>9, <2>10, <2>11
<1> QED BY <1>1, <1>2, <1>3, <1>4 DEF Client

-----------------------------------------------------------------------------
(* Nothing is told, said or read when a server lets go of what it has.       *)
LEMMA LetGoStep ==
  ASSUME IInv, NEW s \in Servers, NEW where \in {"accept"} \cup Down,
         Goto(s, where), LetGo(s),
         UNCHANGED <<clientVars, accepted, handed, threads, database, signalled>>
  PROVE  IInv'
<1> USE NoneAssumption
    DEF IInv, Goto, LetGo, clientVars, database, Alone, Down, Busy, Reading, InDatabase
<1>0. /\ pc' = [pc EXCEPT ![s] = where] /\ current' = [current EXCEPT ![s] = None]
      /\ lines' = [lines EXCEPT ![s] = <<>>] /\ took' = [took EXCEPT ![s] = NothingRead]
      /\ DOMAIN pc = Servers /\ DOMAIN current = Servers
      /\ DOMAIN lines = Servers /\ DOMAIN took = Servers
      /\ where \notin Busy
  BY DEF TypeOK
<1>1. TypeOK'
  <2>1. <<>> \in Seq(Lines) BY EmptySeq
  <2>2. NothingRead \in [nick : Lines \cup {None}, pass : Lines \cup {None},
                         chan : Lines \cup {None}]
    BY DEF NothingRead
  <2> QED BY <2>1, <2>2 DEF TypeOK
<1>2. InHand' BY <1>0 DEF InHand
<1>3. FieldsRead' BY <1>0 DEF FieldsRead, NothingRead, NickRead, PassRead, ChanRead
<1>4. NothingBefore' BY DEF NothingBefore
<1>5. ToldOnce' BY <1>0 DEF ToldOnce
<1>6. InOrder' BY <1>0 DEF InOrder
<1>7. AsAsked' BY <1>0 DEF AsAsked
<1>8. LoginVerified' BY <1>0 DEF LoginVerified, ChanRead
<1>9. QueuedFirst' BY <1>0 DEF QueuedFirst
<1>10. WelcomeAfterLogin' BY DEF WelcomeAfterLogin
<1>11. RowBeforeThread' BY DEF RowBeforeThread
<1> QED BY <1>1, <1>2, <1>3, <1>4, <1>5, <1>6, <1>7, <1>8, <1>9, <1>10, <1>11

(* Whatever way an exception takes, the server stops with nothing in hand.   *)
LEMMA ThrowsStep ==
  ASSUME IInv, NEW s \in Servers,
         \/ AcceptThrows(s) \/ DatabaseThrows(s) \/ TryReadingFails(s)
         \/ InsertThrows(s) \/ EndpointThrows(s)
  PROVE  IInv'
<1>1. Throws(s)
  BY DEF AcceptThrows, DatabaseThrows, TryReadingFails, InsertThrows, EndpointThrows
<1>2. "stopped" \in {"accept"} \cup Down BY DEF Down
<1> QED BY <1>1, <1>2, LetGoStep DEF Throws

(* Before the loop and after it there is no connection in hand.              *)
LEMMA AloneStep ==
  ASSUME IInv, NEW s \in Servers,
         \/ HandleServer(s) \/ InsertServer(s) \/ InsertServerMetadata(s)
         \/ LoopEnds(s) \/ SignalHandler(s)
  PROVE  IInv'
<1> USE DEF IInv, HandleServer, InsertServer, InsertServerMetadata, LoopEnds, SignalHandler,
            Goto, clientVars, mainVars, database, Alone, Down, Busy, Reading, InDatabase
<1>0. /\ pc' \in [Servers -> Alone \cup Busy] /\ DOMAIN pc = Servers
      /\ \A t \in Servers \ {s} : pc'[t] = pc[t]
      /\ pc'[s] # pc[s] => pc[s] \in Alone /\ pc'[s] \in Alone
  BY DEF TypeOK
<1>1. TypeOK'
  <2>1. \A t \in Servers : pc'[t] \in Busy <=> pc[t] \in Busy BY <1>0
  <2>2. \A t \in Servers : IF pc'[t] \in Busy THEN current[t] \in accepted ELSE current[t] = None
    BY <2>1 DEF TypeOK
  <2>3. signalled' \subseteq Servers /\ serverRow' \in BOOLEAN /\ metadata' \subseteq Servers
    BY DEF TypeOK
  <2>4. UNCHANGED <<clientVars, current, lines, took, accepted, handed, threads,
                    passwords, logins, chanRows>>
    OBVIOUS
  <2> QED BY <1>0, <2>2, <2>3, <2>4 DEF TypeOK
<1>2. InHand' BY <1>0 DEF InHand
<1>3. FieldsRead' BY <1>0 DEF FieldsRead, NickRead, PassRead, ChanRead
<1>4. NothingBefore' BY DEF NothingBefore
<1>5. ToldOnce' BY <1>0 DEF ToldOnce
<1>6. InOrder' BY <1>0 DEF InOrder
<1>7. AsAsked' BY <1>0 DEF AsAsked
<1>8. LoginVerified' BY <1>0 DEF LoginVerified, ChanRead
<1>9. QueuedFirst' BY <1>0 DEF QueuedFirst
<1>10. WelcomeAfterLogin' BY DEF WelcomeAfterLogin
<1>11. RowBeforeThread' BY DEF RowBeforeThread
<1> QED BY <1>1, <1>2, <1>3, <1>4, <1>5, <1>6, <1>7, <1>8, <1>9, <1>10, <1>11

(* A connection comes into hand with all it has sent still on the wire.      *)
LEMMA AcceptStep ==
  ASSUME IInv, NEW s \in Servers, NEW c \in Clients, Accept(s, c)
  PROVE  IInv'
<1> USE DEF IInv, Accept, Goto, clientVars, database, Alone, Down, Busy, Reading, InDatabase
<1>0. /\ pc' = [pc EXCEPT ![s] = "nick"] /\ DOMAIN pc = Servers
      /\ current' = [current EXCEPT ![s] = c] /\ DOMAIN current = Servers
      /\ pc'[s] = "nick" /\ current'[s] = c
      /\ \A t \in Servers \ {s} : pc'[t] = pc[t] /\ current'[t] = current[t]
  BY DEF TypeOK
<1>1. TypeOK' BY <1>0 DEF TypeOK
<1>2. InHand' BY <1>0 DEF InHand
<1>3. FieldsRead' BY <1>0 DEF FieldsRead, NickRead, PassRead, ChanRead
<1>4. NothingBefore' BY DEF NothingBefore
<1>5. ToldOnce' BY <1>0 DEF ToldOnce
<1>6. InOrder'
  <2>1. Taken("nick") = 0 BY DEF Taken, ChanRead, PassRead, NickRead
  <2>2. lines[s] = <<>> BY DEF InHand
  <2>3. /\ said[c] = 0 + Len(lines[s]) + Len(wire[c])
        /\ Follows(c, 0, lines[s])
        /\ Follows(c, 0 + Len(lines[s]), wire[c])
    <3>1. said[c] = Len(wire[c]) /\ Follows(c, 0, wire[c]) BY DEF InOrder
    <3>2. Len(wire[c]) \in Nat BY LenProperties DEF TypeOK
    <3>3. Len(lines[s]) = 0 /\ Follows(c, 0, lines[s]) BY <2>2, FollowsNothing
    <3>4. 0 + Len(lines[s]) = 0 BY <3>3
    <3> QED BY <3>1, <3>2, <3>3, <3>4
  <2>4. ASSUME NEW t \in Servers, pc'[t] \in Busy, conn[current'[t]] = "open"
        PROVE  /\ said[current'[t]] = Taken(pc'[t]) + Len(lines[t]) + Len(wire[current'[t]])
               /\ Follows(current'[t], Taken(pc'[t]), lines[t])
               /\ Follows(current'[t], Taken(pc'[t]) + Len(lines[t]), wire[current'[t]])
    <3>1. CASE t = s BY <3>1, <1>0, <2>1, <2>3
    <3>2. CASE t # s BY <3>2, <2>4, <1>0 DEF InOrder
    <3> QED BY <3>1, <3>2
  <2>5. \A d \in Clients \ accepted' : d \in Clients \ accepted OBVIOUS
  <2> QED BY <2>4, <2>5 DEF InOrder
<1>7. AsAsked' BY <1>0 DEF AsAsked, NickRead, PassRead, ChanRead
<1>8. LoginVerified' BY <1>0 DEF LoginVerified, ChanRead
<1>9. QueuedFirst' BY <1>0 DEF QueuedFirst
<1>10. WelcomeAfterLogin' BY DEF WelcomeAfterLogin
<1>11. RowBeforeThread' BY DEF RowBeforeThread
<1> QED BY <1>1, <1>2, <1>3, <1>4, <1>5, <1>6, <1>7, <1>8, <1>9, <1>10, <1>11

-----------------------------------------------------------------------------
(* The line that is used becomes the field that is due, whatever it holds.   *)
LEMMA UseTakes ==
  ASSUME TypeOK, NEW s \in Servers, pc[s] \in Reading, NEW line \in Lines, Use(s, line)
  PROVE  /\ pc' \in [Servers -> Alone \cup Busy]
         /\ \A t \in Servers \ {s} : pc'[t] = pc[t] /\ took'[t] = took[t]
         /\ took' \in [Servers -> [nick : Lines \cup {None}, pass : Lines \cup {None},
                                   chan : Lines \cup {None}]]
         /\ \/ /\ pc[s] = "nick" /\ pc'[s] = "user" /\ took'[s].nick = line
               /\ took'[s].pass = took[s].pass /\ took'[s].chan = took[s].chan
            \/ /\ pc[s] = "user" /\ pc'[s] = "pass" /\ took'[s].nick = took[s].nick
               /\ took'[s].pass = took[s].pass /\ took'[s].chan = took[s].chan
            \/ /\ pc[s] = "pass" /\ pc'[s] = "check" /\ took'[s].nick = took[s].nick
               /\ took'[s].pass = line /\ took'[s].chan = took[s].chan
            \/ /\ pc[s] = "join" /\ pc'[s] = "publish" /\ took'[s].nick = took[s].nick
               /\ took'[s].pass = took[s].pass /\ took'[s].chan = line
<1> DEFINE Fields == [nick : Lines \cup {None}, pass : Lines \cup {None}, chan : Lines \cup {None}]
<1>1. /\ pc \in [Servers -> Alone \cup Busy] /\ took \in [Servers -> Fields]
      /\ took[s] \in Fields /\ DOMAIN took[s] = {"nick", "pass", "chan"}
  BY DEF TypeOK
<1>2. /\ pc' = [pc EXCEPT ![s] = After[pc[s]]]
      /\ took' = [took EXCEPT ![s] =
                    [f \in DOMAIN took[s] |-> IF f = Field[pc[s]] THEN line ELSE took[s][f]]]
  BY DEF Use, Goto
<1>3. /\ took'[s] = [f \in {"nick", "pass", "chan"} |->
                       IF f = Field[pc[s]] THEN line ELSE took[s][f]]
      /\ pc'[s] = After[pc[s]]
      /\ \A t \in Servers \ {s} : pc'[t] = pc[t] /\ took'[t] = took[t]
  BY <1>1, <1>2
<1>4. pc[s] \in {"nick", "user", "pass", "join"} BY DEF Reading
<1>5. pc'[s] \in Busy BY <1>3, <1>4 DEF After, Busy, Reading, InDatabase
<1>6. pc' \in [Servers -> Alone \cup Busy] BY <1>1, <1>2, <1>3, <1>5
<1>7. took'[s] \in Fields BY <1>1, <1>3
<1>8. took' \in [Servers -> Fields] BY <1>1, <1>2, <1>3, <1>7
<1>9. CASE pc[s] = "nick" BY <1>3, <1>6, <1>8, <1>9 DEF After, Field
<1>10. CASE pc[s] = "user" BY <1>3, <1>6, <1>8, <1>10 DEF After, Field
<1>11. CASE pc[s] = "pass" BY <1>3, <1>6, <1>8, <1>11 DEF After, Field
<1>12. CASE pc[s] = "join" BY <1>3, <1>6, <1>8, <1>12 DEF After, Field
<1> QED BY <1>4, <1>9, <1>10, <1>11, <1>12

(* ... and the step keeps all that is not about what clients have sent.      *)
LEMMA UseKeeps ==
  ASSUME IInv, NEW s \in Servers, pc[s] \in Reading, NEW line \in Lines, Use(s, line),
         lines' \in [Servers -> Seq(Lines)], wire' \in [Clients -> Seq(Lines)],
         \A t \in Servers \ {s} : lines'[t] = lines[t],
         UNCHANGED <<conn, at, said, told, current, accepted, handed, threads,
                     database, signalled>>
  PROVE  /\ TypeOK' /\ InHand' /\ FieldsRead' /\ NothingBefore' /\ ToldOnce'
         /\ LoginVerified' /\ QueuedFirst' /\ WelcomeAfterLogin' /\ RowBeforeThread'
<1> USE NoneAssumption DEF IInv, database, Busy, Reading, InDatabase
<1>0. /\ pc' \in [Servers -> Alone \cup Busy]
      /\ \A t \in Servers \ {s} : pc'[t] = pc[t] /\ took'[t] = took[t]
      /\ took' \in [Servers -> [nick : Lines \cup {None}, pass : Lines \cup {None},
                                chan : Lines \cup {None}]]
      /\ \/ /\ pc[s] = "nick" /\ pc'[s] = "user" /\ took'[s].nick = line
            /\ took'[s].pass = took[s].pass /\ took'[s].chan = took[s].chan
         \/ /\ pc[s] = "user" /\ pc'[s] = "pass" /\ took'[s].nick = took[s].nick
            /\ took'[s].pass = took[s].pass /\ took'[s].chan = took[s].chan
         \/ /\ pc[s] = "pass" /\ pc'[s] = "check" /\ took'[s].nick = took[s].nick
            /\ took'[s].pass = line /\ took'[s].chan = took[s].chan
         \/ /\ pc[s] = "join" /\ pc'[s] = "publish" /\ took'[s].nick = took[s].nick
            /\ took'[s].pass = took[s].pass /\ took'[s].chan = line
  BY UseTakes
<1>a. line # None BY DEF Lines, Nicks, Passes
<1>1. TypeOK' BY <1>0 DEF TypeOK
<1>2. InHand' BY <1>0 DEF InHand
<1>3. FieldsRead'
  <2>1. \A t \in Servers : /\ pc[t] \in NickRead <=> took[t].nick # None
                           /\ pc[t] \in PassRead <=> took[t].pass # None
                           /\ pc[t] \in ChanRead <=> took[t].chan # None
    BY DEF FieldsRead
  <2>2. /\ pc'[s] \in NickRead <=> took'[s].nick # None
        /\ pc'[s] \in PassRead <=> took'[s].pass # None
        /\ pc'[s] \in ChanRead <=> took'[s].chan # None
    BY <1>0, <1>a, <2>1 DEF NickRead, PassRead, ChanRead
  <2>3. \A t \in Servers \ {s} : /\ pc'[t] \in NickRead <=> took'[t].nick # None
                                 /\ pc'[t] \in PassRead <=> took'[t].pass # None
                                 /\ pc'[t] \in ChanRead <=> took'[t].chan # None
    BY <1>0, <2>1
  <2> QED BY <2>2, <2>3 DEF FieldsRead
<1>4. NothingBefore' BY DEF NothingBefore
<1>5. ToldOnce' BY <1>0 DEF ToldOnce
<1>8. LoginVerified' BY <1>0 DEF LoginVerified, ChanRead
<1>9. QueuedFirst' BY <1>0 DEF QueuedFirst
<1>10. WelcomeAfterLogin' BY DEF WelcomeAfterLogin
<1>11. RowBeforeThread' BY DEF RowBeforeThread
<1> QED BY <1>1, <1>2, <1>3, <1>4, <1>5, <1>8, <1>9, <1>10, <1>11

(* The first of the lines that have not been used is the next of the script. *)
LEMMA TryReadingStep ==
  ASSUME IInv, NEW s \in Servers, TryReading(s)
  PROVE  IInv'
<1> DEFINE c == current[s]
           avail == Available(s)
           line == Head(avail)
<1>1. /\ pc[s] \in Reading /\ pc[s] \in Busy /\ c \in Clients /\ c \in accepted /\ at[c] = s
      /\ lines \in [Servers -> Seq(Lines)] /\ wire \in [Clients -> Seq(Lines)]
      /\ lines[s] \in Seq(Lines) /\ wire[c] \in Seq(Lines)
  BY DEF TryReading, Busy, IInv, TypeOK, InHand
<1>2. avail \in Seq(Lines) /\ avail # <<>> BY <1>1 DEF Available, TryReading
<1>3. line \in Lines /\ Tail(avail) \in Seq(Lines) BY <1>2, HeadTailProperties
<1>4. /\ Use(s, line)
      /\ lines' = [lines EXCEPT ![s] = Tail(avail)]
      /\ wire' = IF lines[s] = <<>> THEN [wire EXCEPT ![c] = <<>>] ELSE wire
      /\ UNCHANGED <<conn, at, said, told, current, accepted, handed, threads,
                     database, signalled>>
  BY DEF TryReading
<1>5. /\ lines' \in [Servers -> Seq(Lines)] /\ lines'[s] = Tail(avail)
      /\ wire' \in [Clients -> Seq(Lines)]
      /\ \A t \in Servers \ {s} : lines'[t] = lines[t]
      /\ \A d \in Clients \ {c} : wire'[d] = wire[d]
  <2>1. <<>> \in Seq(Lines) BY EmptySeq
  <2> QED BY <1>1, <1>3, <1>4, <2>1
<1>6. /\ TypeOK' /\ InHand' /\ FieldsRead' /\ NothingBefore' /\ ToldOnce'
      /\ LoginVerified' /\ QueuedFirst' /\ WelcomeAfterLogin' /\ RowBeforeThread'
  BY <1>1, <1>3, <1>4, <1>5, UseKeeps
<1>7. /\ \A t \in Servers \ {s} : pc'[t] = pc[t] /\ took'[t] = took[t]
      /\ \/ /\ pc[s] = "nick" /\ pc'[s] = "user" /\ took'[s].nick = line
            /\ took'[s].pass = took[s].pass /\ took'[s].chan = took[s].chan
         \/ /\ pc[s] = "user" /\ pc'[s] = "pass" /\ took'[s].nick = took[s].nick
            /\ took'[s].pass = took[s].pass /\ took'[s].chan = took[s].chan
         \/ /\ pc[s] = "pass" /\ pc'[s] = "check" /\ took'[s].nick = took[s].nick
            /\ took'[s].pass = line /\ took'[s].chan = took[s].chan
         \/ /\ pc[s] = "join" /\ pc'[s] = "publish" /\ took'[s].nick = took[s].nick
            /\ took'[s].pass = took[s].pass /\ took'[s].chan = line
  BY <1>1, <1>3, <1>4, UseTakes DEF IInv
<1>8. Taken(pc'[s]) = Taken(pc[s]) + 1 /\ Taken(pc[s]) \in 0..3
  BY <1>7 DEF Taken, NickRead, PassRead, ChanRead, Busy, Reading, InDatabase
<1> DEFINE n == Taken(pc[s])
<1>9. ASSUME conn[c] = "open"
      PROVE  /\ line \in Script(c, n + 1)
             /\ said[c] = (n + 1) + Len(lines'[s]) + Len(wire'[c])
             /\ Follows(c, n + 1, lines'[s])
             /\ Follows(c, (n + 1) + Len(lines'[s]), wire'[c])
  <2>1. /\ said[c] = n + Len(lines[s]) + Len(wire[c])
        /\ Follows(c, n, lines[s])
        /\ Follows(c, n + Len(lines[s]), wire[c])
    BY <1>1, <1>9 DEF IInv, InOrder
  <2>2. n \in Nat /\ n + 1 \in Nat BY <1>8
  <2>3. Len(lines[s]) \in Nat /\ Len(wire[c]) \in Nat BY <1>1, LenProperties
  <2> HIDE DEF n
  <2>4. CASE lines[s] = <<>>
    <3>1. avail = wire[c] /\ wire'[c] = <<>> BY <2>4, <1>1, <1>4 DEF Available
    <3>2. Len(lines[s]) = 0 BY <2>4, EmptySeq
    <3>3. Follows(c, n, wire[c]) BY <2>1, <2>2, <3>2
    <3>4. /\ Head(wire[c]) \in Script(c, n + 1)
          /\ Len(Tail(wire[c])) \in Nat /\ Len(wire[c]) = Len(Tail(wire[c])) + 1
          /\ Follows(c, n + 1, Tail(wire[c]))
      BY <1>1, <1>2, <2>2, <3>1, <3>3, FollowsTail
    <3>a. lines'[s] = Tail(wire[c]) BY <3>1, <1>5
    <3>b. Len(lines'[s]) \in Nat /\ (n + 1) + Len(lines'[s]) \in Nat BY <2>2, <3>4, <3>a
    <3>5. /\ Len(wire'[c]) = 0
          /\ Follows(c, (n + 1) + Len(lines'[s]), wire'[c])
      BY <3>1, <3>b, FollowsNothing
    <3>6. said[c] = (n + 1) + Len(lines'[s]) + Len(wire'[c])
      <4> DEFINE k == Len(lines'[s])
                 m == Len(wire[c])
      <4>1. k \in Nat /\ m = k + 1 BY <3>4, <3>a
      <4>2. said[c] = n + 0 + m BY <2>1, <3>2
      <4> HIDE DEF k, m
      <4>3. said[c] = (n + 1) + k + 0 BY <2>2, <4>1, <4>2
      <4> QED BY <4>3, <3>5 DEF k
    <3> QED BY <3>1, <3>4, <3>5, <3>6, <3>a
  <2>5. CASE lines[s] # <<>>
    <3>1. avail = lines[s] /\ wire' = wire BY <2>5, <1>4 DEF Available
    <3>2. /\ Head(lines[s]) \in Script(c, n + 1)
          /\ Len(Tail(lines[s])) \in Nat /\ Len(lines[s]) = Len(Tail(lines[s])) + 1
          /\ Follows(c, n + 1, Tail(lines[s]))
      BY <1>1, <2>1, <2>2, <2>5, FollowsTail
    <3>a. lines'[s] = Tail(lines[s]) BY <3>1, <1>5
    <3>3. (n + 1) + Len(lines'[s]) = n + Len(lines[s])
      <4> DEFINE k == Len(lines'[s])
                 m == Len(lines[s])
      <4>1. k \in Nat /\ m = k + 1 BY <3>2, <3>a
      <4> HIDE DEF k, m
      <4>2. (n + 1) + k = n + m BY <2>2, <4>1
      <4> QED BY <4>2 DEF k, m
    <3>4. said[c] = (n + 1) + Len(lines'[s]) + Len(wire'[c]) BY <2>1, <3>1, <3>3
    <3> QED BY <2>1, <3>1, <3>2, <3>3, <3>4, <3>a
  <2> QED BY <2>4, <2>5
<1>10. \A t \in Servers \ {s} : pc'[t] \in Busy => current[t] # c /\ current[t] \in Clients
  BY <1>1, <1>7 DEF IInv, InHand, TypeOK
<1>11. InOrder'
  <2>1. ASSUME NEW d \in Clients \ accepted'
        PROVE  said'[d] = Len(wire'[d]) /\ Follows(d, 0, wire'[d])
    BY <1>1, <1>4, <1>5 DEF IInv, InOrder
  <2>2. ASSUME NEW t \in Servers, pc'[t] \in Busy, conn[current[t]] = "open"
        PROVE  /\ said[current[t]] = Taken(pc'[t]) + Len(lines'[t]) + Len(wire'[current[t]])
               /\ Follows(current[t], Taken(pc'[t]), lines'[t])
               /\ Follows(current[t], Taken(pc'[t]) + Len(lines'[t]), wire'[current[t]])
    <3>1. CASE t = s BY <3>1, <2>2, <1>8, <1>9
    <3>2. CASE t # s
      <4>1. pc'[t] = pc[t] /\ lines'[t] = lines[t] /\ wire'[current[t]] = wire[current[t]]
        BY <3>2, <2>2, <1>5, <1>7, <1>10
      <4> QED BY <4>1, <2>2 DEF IInv, InOrder
    <3> QED BY <3>1, <3>2
  <2> QED BY <2>1, <2>2, <1>4 DEF InOrder
<1>12. AsAsked'
  <2>1. ASSUME NEW t \in Servers, pc'[t] \in Busy, conn[current[t]] = "open"
        PROVE  /\ pc'[t] \in NickRead => took'[t].nick = NickOf[current[t]]
               /\ pc'[t] \in PassRead => took'[t].pass = PassOf[current[t]]
               /\ pc'[t] \in ChanRead => took'[t].chan \in Channels
    <3>1. CASE t # s BY <3>1, <2>1, <1>7 DEF IInv, AsAsked
    <3>2. CASE t = s
      <4>1. line \in Script(c, n + 1) BY <3>2, <2>1, <1>9
      <4>2. /\ pc[s] = "nick" => line = NickOf[c]
            /\ pc[s] = "pass" => line = PassOf[c]
            /\ pc[s] = "join" => line \in Channels
        BY <4>1 DEF Script, Taken, NickRead, PassRead, ChanRead, Busy, Reading, InDatabase
      <4>3. /\ pc[s] \in NickRead => took[s].nick = NickOf[c]
            /\ pc[s] \in PassRead => took[s].pass = PassOf[c]
        BY <3>2, <2>1, <1>1 DEF IInv, AsAsked
      <4> QED BY <3>2, <4>2, <4>3, <1>7 DEF NickRead, PassRead, ChanRead, Busy, Reading, InDatabase
    <3> QED BY <3>1, <3>2
  <2> QED BY <2>1, <1>4 DEF AsAsked
<1> QED BY <1>6, <1>11, <1>12 DEF IInv

(* At the end of a stream anything may be read, but then nobody is there.    *)
LEMMA TryReadingNothingStep ==
  ASSUME IInv, NEW s \in Servers, TryReadingNothing(s)
  PROVE  IInv'
<1>1. CASE Throws(s)
  <2>1. "stopped" \in {"accept"} \cup Down BY DEF Down
  <2> QED BY <1>1, <2>1, LetGoStep DEF Throws
<1>2. CASE /\ Goto(s, "crashed") /\ LetGo(s)
           /\ UNCHANGED <<clientVars, accepted, handed, threads, database, signalled>>
  <2>1. "crashed" \in {"accept"} \cup Down BY DEF Down
  <2> QED BY <1>2, <2>1, LetGoStep
<1>3. CASE /\ \E line \in LeftOver(s) : CanUse(s, line) /\ Use(s, line)
           /\ UNCHANGED <<clientVars, current, lines, accepted, handed, threads, database,
                          signalled>>
  <2>1. PICK line \in LeftOver(s) : Use(s, line) BY <1>3
  <2>2. line \in Lines BY DEF LeftOver
  <2>3. pc[s] \in Reading /\ conn[current[s]] # "open"
    BY DEF TryReadingNothing, IsReset
  <2>4. /\ lines' \in [Servers -> Seq(Lines)] /\ wire' \in [Clients -> Seq(Lines)]
        /\ \A t \in Servers \ {s} : lines'[t] = lines[t]
    BY <1>3 DEF clientVars, IInv, TypeOK
  <2>5. /\ TypeOK' /\ InHand' /\ FieldsRead' /\ NothingBefore' /\ ToldOnce'
        /\ LoginVerified' /\ QueuedFirst' /\ WelcomeAfterLogin' /\ RowBeforeThread'
    BY <1>3, <2>1, <2>2, <2>3, <2>4, UseKeeps DEF clientVars
  <2>6. \A t \in Servers \ {s} : pc'[t] = pc[t] /\ took'[t] = took[t]
    BY <2>1, <2>2, <2>3, UseTakes DEF IInv
  <2>7. InOrder' BY <1>3, <2>3, <2>6 DEF InOrder, IInv, clientVars
  <2>8. AsAsked' BY <1>3, <2>3, <2>6 DEF AsAsked, IInv, clientVars
  <2> QED BY <2>5, <2>7, <2>8 DEF IInv
<1> QED BY <1>1, <1>2, <1>3 DEF TryReadingNothing

-----------------------------------------------------------------------------
(* A row that has been written stays as it is.                               *)
LEMMA RowsStay ==
  ASSUME IInv, NEW s \in Servers, InsertUser(s)
  PROVE  /\ passwords' \in [Lines -> Lines \cup {None}]
         /\ passwords'[took[s].nick] = took[s].pass
         /\ \A n \in Lines : passwords[n] # None => passwords'[n] = passwords[n]
<1>1. /\ pc[s] = "insertUser" /\ passwords[took[s].nick] = None
      /\ passwords' = [passwords EXCEPT ![took[s].nick] = took[s].pass]
  BY DEF InsertUser, User
<1>2. /\ took[s].nick \in Lines \cup {None} /\ took[s].nick # None
      /\ took[s].pass \in Lines \cup {None}
      /\ passwords \in [Lines -> Lines \cup {None}]
  BY <1>1 DEF IInv, TypeOK, FieldsRead, NickRead, Busy, InDatabase
<1> QED BY <1>1, <1>2

(* What the main thread asks of the database: while it does, nothing that    *)
(* has been read changes, and rows are added by nobody but it.               *)
LEMMA DatabaseStep ==
  ASSUME IInv, NEW s \in Servers,
         \/ HandleUser(s) \/ VerifyPassword(s) \/ InsertUser(s) \/ InsertLogin(s)
         \/ CheckChannel(s) \/ GetChannelTopic(s) \/ InsertChannel(s)
  PROVE  IInv'
<1> DEFINE
      Moves == \/ pc[s] = "check" /\ pc'[s] \in {"insertUser", "verify"} /\ UNCHANGED database
               \/ /\ pc[s] = "verify" /\ UNCHANGED database
                  /\ \/ pc'[s] = "login" /\ passwords[took[s].nick] = took[s].pass
                     \/ pc'[s] = "refuse"
               \/ /\ pc[s] = "insertUser" /\ pc'[s] = "login"
                  /\ passwords'[took[s].nick] = took[s].pass
                  /\ logins' = logins /\ chanRows' = chanRows
               \/ /\ pc[s] = "login" /\ pc'[s] = "welcome" /\ logins' = logins \cup {current[s]}
                  /\ passwords' = passwords /\ chanRows' = chanRows
               \/ /\ pc[s] = "channel" /\ UNCHANGED database
                  /\ \/ pc'[s] = "topic" /\ took[s].chan \in chanRows
                     \/ pc'[s] = "insertChannel"
               \/ pc[s] = "topic" /\ pc'[s] = "thread" /\ UNCHANGED database
               \/ /\ pc[s] = "insertChannel" /\ pc'[s] = "thread"
                  /\ chanRows' = chanRows \cup {took[s].chan}
                  /\ passwords' = passwords /\ logins' = logins
      Stays == UNCHANGED <<clientVars, current, lines, took, accepted, handed, threads,
                           serverRow, metadata, signalled>>
<1>1. Stays
  BY DEF HandleUser, VerifyPassword, InsertUser, InsertLogin,
         CheckChannel, GetChannelTopic, InsertChannel, database
<1>2. \E where \in Busy : pc' = [pc EXCEPT ![s] = where]
  BY DEF HandleUser, VerifyPassword, InsertUser, InsertLogin, CheckChannel, GetChannelTopic,
         InsertChannel, Goto, Busy, Reading, InDatabase
<1>3. /\ pc' \in [Servers -> Alone \cup Busy]
      /\ \A t \in Servers \ {s} : pc'[t] = pc[t]
  BY <1>2 DEF IInv, TypeOK
<1>4. Moves
  <2>1. pc \in [Servers -> Alone \cup Busy] BY DEF IInv, TypeOK
  <2>2. CASE HandleUser(s) BY <2>1, <2>2 DEF HandleUser, Goto
  <2>3. CASE VerifyPassword(s) BY <2>1, <2>3 DEF VerifyPassword, Goto, User
  <2>4. CASE InsertUser(s) BY <2>1, <2>4, RowsStay DEF InsertUser, Goto
  <2>5. CASE InsertLogin(s) BY <2>1, <2>5 DEF InsertLogin, Goto
  <2>6. CASE CheckChannel(s) BY <2>1, <2>6 DEF CheckChannel, Goto
  <2>7. CASE GetChannelTopic(s) BY <2>1, <2>7 DEF GetChannelTopic, Goto
  <2>8. CASE InsertChannel(s) BY <2>1, <2>8 DEF InsertChannel, Goto
  <2> QED BY <2>2, <2>3, <2>4, <2>5, <2>6, <2>7, <2>8
<1>5. /\ passwords' \in [Lines -> Lines \cup {None}]
      /\ \A n \in Lines : passwords[n] # None => passwords'[n] = passwords[n]
  <2>1. CASE InsertUser(s) BY <2>1, RowsStay
  <2>2. CASE ~InsertUser(s)
    <3>1. passwords' = passwords
      BY <2>2 DEF HandleUser, VerifyPassword, InsertLogin,
                  CheckChannel, GetChannelTopic, InsertChannel, database
    <3> QED BY <3>1 DEF IInv, TypeOK
  <2> QED BY <2>1, <2>2
<1>6. /\ logins \subseteq logins' /\ chanRows \subseteq chanRows' BY <1>4 DEF database
<1>7. /\ pc[s] \in PassRead /\ pc'[s] \in PassRead
      /\ pc[s] \in NickRead /\ pc'[s] \in NickRead /\ pc[s] \in Busy /\ pc'[s] \in Busy
      /\ pc[s] \in ChanRead <=> pc'[s] \in ChanRead
  BY <1>4 DEF NickRead, PassRead, ChanRead, Busy, Reading, InDatabase
<1>8. \A t \in Servers : /\ pc[t] \in Busy <=> pc'[t] \in Busy
                         /\ pc[t] \in NickRead <=> pc'[t] \in NickRead
                         /\ pc[t] \in PassRead <=> pc'[t] \in PassRead
                         /\ pc[t] \in ChanRead <=> pc'[t] \in ChanRead
                         /\ Taken(pc'[t]) = Taken(pc[t])
  BY <1>3, <1>7 DEF Taken
<1>9. /\ took[s].nick \in Lines /\ took[s].nick # None /\ current[s] \in Clients
      /\ pc[s] \in ChanRead => took[s].chan \in Lines
  BY <1>7 DEF IInv, TypeOK, FieldsRead
<1> HIDE DEF Moves
<1> USE NoneAssumption DEF IInv, clientVars
<1>10. TypeOK'
  <2>1. logins' \subseteq Clients /\ chanRows' \subseteq Lines
    BY <1>4, <1>9 DEF Moves, TypeOK, database, ChanRead
  <2> QED BY <1>1, <1>3, <1>5, <1>8, <2>1 DEF TypeOK
<1>11. InHand' BY <1>1, <1>8 DEF InHand
<1>12. FieldsRead' BY <1>1, <1>8 DEF FieldsRead
<1>13. NothingBefore' BY <1>1 DEF NothingBefore
<1>14. ToldOnce'
  <2>1. told[current[s]] = <<>> \/ pc'[s] \in {"topic", "insertChannel", "thread"}
    BY <1>4 DEF Moves, ToldOnce
  <2> QED BY <1>1, <1>3, <2>1 DEF ToldOnce
<1>15. InOrder' BY <1>1, <1>8 DEF InOrder
<1>16. AsAsked' BY <1>1, <1>8 DEF AsAsked
<1>17. LoginVerified'
  <2>1. ASSUME NEW t \in Servers, pc[t] \in {"login", "welcome"}
        PROVE  passwords'[took[t].nick] = took[t].pass
    <3>1. passwords[took[t].nick] = took[t].pass BY <2>1 DEF LoginVerified
    <3>2. /\ took[t].nick # None /\ took[t].pass # None /\ took[t].nick \in Lines
      BY <2>1 DEF FieldsRead, TypeOK, NickRead, PassRead, Busy, Reading, InDatabase
    <3> QED BY <3>1, <3>2, <1>5
  <2>2. ASSUME pc'[s] \in {"login", "welcome"} PROVE passwords'[took[s].nick] = took[s].pass
    BY <1>4, <2>1, <2>2 DEF Moves, database
  <2>3. ASSUME pc'[s] \in {"welcome", "join"} \cup ChanRead PROVE current[s] \in logins'
    BY <1>4, <1>6, <2>3 DEF Moves, LoginVerified, ChanRead
  <2> QED BY <1>1, <1>3, <1>6, <2>1, <2>2, <2>3 DEF LoginVerified
<1>18. QueuedFirst'
  <2>1. ASSUME pc'[s] \in {"channel", "topic", "insertChannel", "thread"}
        PROVE  <<current[s], took[s].chan>> \in handed
    BY <1>4, <2>1 DEF Moves, QueuedFirst
  <2>2. ASSUME pc'[s] \in {"topic", "thread"} PROVE took[s].chan \in chanRows'
    BY <1>4, <1>6, <2>2 DEF Moves, QueuedFirst
  <2> QED BY <1>1, <1>3, <1>6, <2>1, <2>2 DEF QueuedFirst
<1>19. WelcomeAfterLogin'
  <2>1. \A c \in Clients : NickOf[c] \in Lines /\ PassOf[c] # None
    BY DEF Lines, Nicks, Passes
  <2> QED BY <1>1, <1>5, <1>6, <2>1 DEF WelcomeAfterLogin
<1>20. RowBeforeThread' BY <1>1, <1>6 DEF RowBeforeThread
<1> QED BY <1>10, <1>11, <1>12, <1>13, <1>14, <1>15, <1>16, <1>17, <1>18, <1>19, <1>20

-----------------------------------------------------------------------------
(* The answer is the first thing that is told.                               *)
LEMMA TellOnce ==
  ASSUME IInv, NEW s \in Servers, pc[s] \in {"welcome", "refuse"},
         NEW code \in {"001", "464"}, Tell(s, code)
  PROVE  /\ told' \in [Clients -> {<<>>, <<"001">>, <<"464">>}]
         /\ \A c \in Clients : c # current[s] => told'[c] = told[c]
         /\ \/ conn[current[s]] = "open" /\ told'[current[s]] = <<code>>
            \/ conn[current[s]] # "open" /\ told'[current[s]] = <<>>
<1>1. /\ current[s] \in Clients /\ told[current[s]] = <<>>
      /\ told \in [Clients -> {<<>>, <<"001">>, <<"464">>}]
  BY DEF IInv, TypeOK, ToldOnce, Busy
<1>2. Append(<<>>, code) = <<code>> OBVIOUS
<1>3. CASE conn[current[s]] = "open"
  <2>1. told' = [told EXCEPT ![current[s]] = <<code>>] BY <1>1, <1>2, <1>3 DEF Tell
  <2> QED BY <1>1, <1>3, <2>1
<1>4. CASE conn[current[s]] # "open" BY <1>1, <1>4 DEF Tell
<1> QED BY <1>3, <1>4

(* Nobody else is told anything, nor is a connection that others hold ended. *)
LEMMA RefuseStep ==
  ASSUME IInv, NEW s \in Servers, Refuse(s)
  PROVE  IInv'
<1> USE NoneAssumption
    DEF IInv, Refuse, Goto, LetGo, database, Alone, Down, Busy, Reading, InDatabase
<1> DEFINE c == current[s]
<1>0. /\ c \in Clients /\ c \in accepted /\ at[c] = s
      /\ pc'[s] = "accept" /\ current'[s] = None /\ lines'[s] = <<>> /\ took'[s] = NothingRead
      /\ \A t \in Servers \ {s} : /\ pc'[t] = pc[t] /\ current'[t] = current[t]
                                  /\ lines'[t] = lines[t] /\ took'[t] = took[t]
      /\ \A t \in Servers \ {s} : pc[t] \in Busy => current[t] # c /\ current[t] \in Clients
  BY DEF TypeOK, InHand
<1>a. /\ conn' \in [Clients -> {"none", "open", "poked", "closed", "reset", "done"}]
      /\ conn'[c] = "done" /\ \A d \in Clients : d # c => conn'[d] = conn[d]
  BY <1>0 DEF TypeOK
<1>b. /\ told' \in [Clients -> {<<>>, <<"001">>, <<"464">>}]
      /\ \A d \in Clients : d # c => told'[d] = told[d]
      /\ told'[c] \in {<<>>, <<"464">>}
  BY TellOnce
<1> HIDE DEF c
<1>1. TypeOK'
  <2>1. <<>> \in Seq(Lines) BY EmptySeq
  <2>2. NothingRead \in [nick : Lines \cup {None}, pass : Lines \cup {None},
                         chan : Lines \cup {None}]
    BY DEF NothingRead
  <2>3. /\ pc' \in [Servers -> Alone \cup Busy] /\ current' \in [Servers -> Clients \cup {None}]
        /\ lines' \in [Servers -> Seq(Lines)]
        /\ took' \in [Servers -> [nick : Lines \cup {None}, pass : Lines \cup {None},
                                  chan : Lines \cup {None}]]
    BY <2>1, <2>2 DEF TypeOK
  <2>4. \A t \in Servers : IF pc'[t] \in Busy THEN current'[t] \in accepted ELSE current'[t] = None
    BY <1>0 DEF TypeOK
  <2> QED BY <1>a, <1>b, <2>3, <2>4 DEF TypeOK
<1>2. InHand' BY <1>0 DEF InHand
<1>3. FieldsRead' BY <1>0 DEF FieldsRead, NothingRead, NickRead, PassRead, ChanRead
<1>4. NothingBefore' BY <1>a DEF NothingBefore
<1>5. ToldOnce' BY <1>0, <1>b DEF ToldOnce, TypeOK
<1>6. InOrder' BY <1>0, <1>a DEF InOrder
<1>7. AsAsked' BY <1>0, <1>a DEF AsAsked
<1>8. LoginVerified' BY <1>0 DEF LoginVerified, ChanRead
<1>9. QueuedFirst' BY <1>0 DEF QueuedFirst
<1>10. WelcomeAfterLogin' BY <1>b DEF WelcomeAfterLogin
<1>11. RowBeforeThread' BY DEF RowBeforeThread
<1> QED BY <1>1, <1>2, <1>3, <1>4, <1>5, <1>6, <1>7, <1>8, <1>9, <1>10, <1>11

(* Who is welcomed has its login, and the password it gave is the stored one.*)
LEMMA WelcomeStep ==
  ASSUME IInv, NEW s \in Servers, Welcome(s)
  PROVE  IInv'
<1> USE DEF IInv, Welcome, Goto, database, Alone, Down, Busy, Reading, InDatabase
<1> DEFINE c == current[s]
<1>0. /\ c \in Clients /\ c \in accepted
      /\ pc[s] = "welcome" /\ pc'[s] = "join" /\ pc' \in [Servers -> Alone \cup Busy]
      /\ \A t \in Servers \ {s} : pc'[t] = pc[t]
      /\ \A t \in Servers \ {s} : pc[t] \in Busy => current[t] # c /\ current[t] \in Clients
  BY DEF TypeOK, InHand
<1>a. /\ conn' \in [Clients -> {"none", "open", "poked", "closed", "reset", "done"}]
      /\ \A d \in Clients : conn'[d] = "open" <=> conn[d] = "open"
      /\ \A d \in Clients : conn'[d] = "none" => conn[d] = "none"
  BY <1>0 DEF TypeOK
<1>b. /\ told' \in [Clients -> {<<>>, <<"001">>, <<"464">>}]
      /\ \A d \in Clients : d # c => told'[d] = told[d]
      /\ \/ conn[c] = "open"
         \/ told'[c] = <<>>
  BY TellOnce
<1>c. \A t \in Servers : /\ pc[t] \in Busy <=> pc'[t] \in Busy
                         /\ pc[t] \in NickRead <=> pc'[t] \in NickRead
                         /\ pc[t] \in PassRead <=> pc'[t] \in PassRead
                         /\ pc[t] \in ChanRead <=> pc'[t] \in ChanRead
                         /\ Taken(pc'[t]) = Taken(pc[t])
  BY <1>0 DEF Taken, NickRead, PassRead, ChanRead
<1> HIDE DEF c
<1>1. TypeOK' BY <1>0, <1>a, <1>b, <1>c DEF TypeOK
<1>2. InHand' BY <1>c DEF InHand
<1>3. FieldsRead' BY <1>c DEF FieldsRead
<1>4. NothingBefore' BY <1>a DEF NothingBefore
<1>5. ToldOnce' BY <1>0, <1>b DEF ToldOnce, TypeOK
<1>6. InOrder'
  <2>1. \A t \in Servers : pc[t] \in Busy => current[t] \in Clients BY DEF TypeOK
  <2> QED BY <1>a, <1>c, <2>1 DEF InOrder
<1>7. AsAsked'
  <2>1. \A t \in Servers : pc[t] \in Busy => current[t] \in Clients BY DEF TypeOK
  <2> QED BY <1>a, <1>c, <2>1 DEF AsAsked
<1>8. LoginVerified' BY <1>0 DEF LoginVerified, ChanRead
<1>9. QueuedFirst' BY <1>0 DEF QueuedFirst
<1>10. WelcomeAfterLogin'
  <2>1. c \in logins BY <1>0 DEF LoginVerified, c
  <2>2. conn[c] = "open" => passwords[NickOf[c]] = PassOf[c]
    <3>1. passwords[took[s].nick] = took[s].pass BY <1>0 DEF LoginVerified
    <3>2. conn[c] = "open" => took[s].nick = NickOf[c] /\ took[s].pass = PassOf[c]
      BY <1>0 DEF AsAsked, NickRead, PassRead, c
    <3> QED BY <3>1, <3>2
  <2>3. told'[c] = <<"001">> => conn[c] = "open"
    <3>1. <<>> # <<"001">> OBVIOUS
    <3> QED BY <1>b, <3>1
  <2>4. ASSUME NEW d \in Clients, told'[d] = <<"001">>
        PROVE  d \in logins /\ passwords[NickOf[d]] = PassOf[d]
    <3>1. CASE d = c BY <2>1, <2>2, <2>3, <2>4, <3>1
    <3>2. CASE d # c BY <1>b, <2>4, <3>2 DEF WelcomeAfterLogin
    <3> QED BY <3>1, <3>2
  <2>5. \A d \in Clients : (\E ch \in Lines : <<d, ch>> \in handed) => d \in logins
    BY DEF WelcomeAfterLogin
  <2> QED BY <2>4, <2>5 DEF WelcomeAfterLogin
<1>11. RowBeforeThread' BY DEF RowBeforeThread
<1> QED BY <1>1, <1>2, <1>3, <1>4, <1>5, <1>6, <1>7, <1>8, <1>9, <1>10, <1>11

-----------------------------------------------------------------------------
(* A user is queued with its login noted; a channel with a thread is done.   *)
LEMMA PublishStep ==
  ASSUME IInv, NEW s \in Servers, Publish(s)
  PROVE  IInv'
<1> USE NoneAssumption
    DEF IInv, Publish, Goto, clientVars, database, Alone, Down, Busy, Reading, InDatabase
<1>0. /\ current[s] \in Clients /\ took[s].chan \in Lines /\ current[s] \in logins
      /\ handed' = handed \cup {<<current[s], took[s].chan>>}
  BY DEF TypeOK, FieldsRead, LoginVerified, ChanRead
<1>1. WelcomeAfterLogin' BY <1>0 DEF WelcomeAfterLogin, TypeOK
<1>2. RowBeforeThread' BY <1>0 DEF RowBeforeThread
<1>3. handed' \subseteq Clients \X Lines BY <1>0 DEF TypeOK
<1>4. CASE took[s].chan \in threads[s]
  <2>0. /\ pc' = [pc EXCEPT ![s] = "accept"] /\ current' = [current EXCEPT ![s] = None]
        /\ lines' = [lines EXCEPT ![s] = <<>>] /\ took' = [took EXCEPT ![s] = NothingRead]
        /\ DOMAIN pc = Servers /\ DOMAIN current = Servers
        /\ DOMAIN lines = Servers /\ DOMAIN took = Servers
    BY <1>4 DEF TypeOK, LetGo
  <2>1. TypeOK'
    <3>1. <<>> \in Seq(Lines) BY EmptySeq
    <3>2. NothingRead \in [nick : Lines \cup {None}, pass : Lines \cup {None},
                           chan : Lines \cup {None}]
      BY DEF NothingRead
    <3> QED BY <2>0, <3>1, <3>2, <1>3 DEF TypeOK
  <2>2. InHand' BY <2>0 DEF InHand
  <2>3. FieldsRead' BY <2>0 DEF FieldsRead, NothingRead, NickRead, PassRead, ChanRead
  <2>4. NothingBefore' BY DEF NothingBefore
  <2>5. ToldOnce' BY <2>0 DEF ToldOnce
  <2>6. InOrder' BY <2>0 DEF InOrder
  <2>7. AsAsked' BY <2>0 DEF AsAsked
  <2>8. LoginVerified' BY <2>0 DEF LoginVerified, ChanRead
  <2>9. QueuedFirst' BY <2>0, <1>0 DEF QueuedFirst
  <2> QED BY <2>1, <2>2, <2>3, <2>4, <2>5, <2>6, <2>7, <2>8, <2>9, <1>1, <1>2
<1>5. CASE took[s].chan \notin threads[s]
  <2>0. /\ pc' = [pc EXCEPT ![s] = "channel"] /\ UNCHANGED <<current, lines, took>>
        /\ DOMAIN pc = Servers /\ pc'[s] = "channel"
        /\ \A t \in Servers \ {s} : pc'[t] = pc[t]
    BY <1>5 DEF TypeOK
  <2>c. \A t \in Servers : /\ pc[t] \in Busy <=> pc'[t] \in Busy
                           /\ pc[t] \in NickRead <=> pc'[t] \in NickRead
                           /\ pc[t] \in PassRead <=> pc'[t] \in PassRead
                           /\ pc[t] \in ChanRead <=> pc'[t] \in ChanRead
                           /\ Taken(pc'[t]) = Taken(pc[t])
    BY <2>0 DEF Taken, NickRead, PassRead, ChanRead
  <2>1. TypeOK' BY <2>0, <1>3 DEF TypeOK
  <2>2. InHand' BY <2>0, <2>c DEF InHand
  <2>3. FieldsRead' BY <2>0, <2>c DEF FieldsRead
  <2>4. NothingBefore' BY DEF NothingBefore
  <2>5. ToldOnce' BY <2>0 DEF ToldOnce
  <2>6. InOrder' BY <2>0, <2>c DEF InOrder
  <2>7. AsAsked' BY <2>0, <2>c DEF AsAsked
  <2>8. LoginVerified' BY <2>0, <1>0 DEF LoginVerified, ChanRead
  <2>9. QueuedFirst' BY <2>0, <1>0 DEF QueuedFirst
  <2> QED BY <2>1, <2>2, <2>3, <2>4, <2>5, <2>6, <2>7, <2>8, <2>9, <1>1, <1>2
<1> QED BY <1>4, <1>5

(* A thread is started for a channel with a row, and with somebody in it.    *)
LEMMA StartThreadStep ==
  ASSUME IInv, NEW s \in Servers, StartThread(s)
  PROVE  IInv'
<1> USE NoneAssumption
    DEF IInv, StartThread, Goto, LetGo, clientVars, database, Alone, Down, Busy, Reading, InDatabase
<1>0. /\ pc' = [pc EXCEPT ![s] = "accept"] /\ current' = [current EXCEPT ![s] = None]
      /\ lines' = [lines EXCEPT ![s] = <<>>] /\ took' = [took EXCEPT ![s] = NothingRead]
      /\ DOMAIN pc = Servers /\ DOMAIN current = Servers
      /\ DOMAIN lines = Servers /\ DOMAIN took = Servers
  BY DEF TypeOK
<1>a. /\ took[s].chan \in Lines /\ took[s].chan \in chanRows
      /\ current[s] \in Clients /\ at[current[s]] = s /\ <<current[s], took[s].chan>> \in handed
      /\ threads \in [Servers -> SUBSET Lines]
      /\ threads' = [threads EXCEPT ![s] = @ \cup {took[s].chan}]
  BY DEF TypeOK, FieldsRead, ChanRead, QueuedFirst, InHand
<1>1. TypeOK'
  <2>1. <<>> \in Seq(Lines) BY EmptySeq
  <2>2. NothingRead \in [nick : Lines \cup {None}, pass : Lines \cup {None},
                         chan : Lines \cup {None}]
    BY DEF NothingRead
  <2>3. threads' \in [Servers -> SUBSET Lines] BY <1>a
  <2> QED BY <1>0, <2>1, <2>2, <2>3 DEF TypeOK
<1>2. InHand' BY <1>0 DEF InHand
<1>3. FieldsRead' BY <1>0 DEF FieldsRead, NothingRead, NickRead, PassRead, ChanRead
<1>4. NothingBefore' BY DEF NothingBefore
<1>5. ToldOnce' BY <1>0 DEF ToldOnce
<1>6. InOrder' BY <1>0 DEF InOrder
<1>7. AsAsked' BY <1>0 DEF AsAsked
<1>8. LoginVerified' BY <1>0 DEF LoginVerified, ChanRead
<1>9. QueuedFirst' BY <1>0 DEF QueuedFirst
<1>10. WelcomeAfterLogin' BY DEF WelcomeAfterLogin
<1>11. RowBeforeThread' BY <1>a DEF RowBeforeThread
<1> QED BY <1>1, <1>2, <1>3, <1>4, <1>5, <1>6, <1>7, <1>8, <1>9, <1>10, <1>11

-----------------------------------------------------------------------------
(* Every step keeps the invariant.                                           *)
LEMMA NextIInv == IInv /\ [Next]_vars => IInv'
<1> SUFFICES ASSUME IInv, [Next]_vars PROVE IInv'
  OBVIOUS
<1>1. CASE \E c \in Clients : Client(c) BY <1>1, ClientStep
<1>2. ASSUME NEW s \in Servers,
             Run(s) \/ AcceptThrows(s) \/ DatabaseThrows(s) \/ SignalHandler(s)
      PROVE  IInv'
  <2>1. CASE \/ HandleServer(s) \/ InsertServer(s) \/ InsertServerMetadata(s)
             \/ LoopEnds(s) \/ SignalHandler(s)
    BY <2>1, AloneStep
  <2>2. CASE \E c \in Clients : Accept(s, c) BY <2>2, AcceptStep
  <2>3. CASE TryReading(s) BY <2>3, TryReadingStep
  <2>4. CASE TryReadingNothing(s) BY <2>4, TryReadingNothingStep
  <2>5. CASE \/ HandleUser(s) \/ VerifyPassword(s) \/ InsertUser(s) \/ InsertLogin(s)
             \/ CheckChannel(s) \/ GetChannelTopic(s) \/ InsertChannel(s)
    BY <2>5, DatabaseStep
  <2>6. CASE Refuse(s) BY <2>6, RefuseStep
  <2>7. CASE Welcome(s) BY <2>7, WelcomeStep
  <2>8. CASE Publish(s) BY <2>8, PublishStep
  <2>9. CASE StartThread(s) BY <2>9, StartThreadStep
  <2>10. CASE \/ AcceptThrows(s) \/ DatabaseThrows(s) \/ TryReadingFails(s)
              \/ InsertThrows(s) \/ EndpointThrows(s)
    BY <2>10, ThrowsStep
  <2> QED BY <1>2, <2>1, <2>2, <2>3, <2>4, <2>5, <2>6, <2>7, <2>8, <2>9, <2>10 DEF Run
<1>3. CASE UNCHANGED vars
  <2> USE <1>3 DEF IInv, vars, clientVars, mainVars, database
  <2>1. TypeOK' BY DEF TypeOK
  <2>2. InHand' BY DEF InHand
  <2>3. FieldsRead' BY DEF FieldsRead
  <2>4. NothingBefore' BY DEF NothingBefore
  <2>5. ToldOnce' BY DEF ToldOnce
  <2>6. InOrder' BY DEF InOrder
  <2>7. AsAsked' BY DEF AsAsked
  <2>8. LoginVerified' BY DEF LoginVerified
  <2>9. QueuedFirst' BY DEF QueuedFirst
  <2>10. WelcomeAfterLogin' BY DEF WelcomeAfterLogin
  <2>11. RowBeforeThread' BY DEF RowBeforeThread
  <2> QED BY <2>1, <2>2, <2>3, <2>4, <2>5, <2>6, <2>7, <2>8, <2>9, <2>10, <2>11
<1> QED BY <1>1, <1>2, <1>3 DEF Next

(* The invariant behind the registration of clients: what is in hand, what   *)
(* has been read of it, and what the database then holds.                    *)
THEOREM SpecIInv == Spec => []IInv
  BY InitIInv, NextIInv, PTL DEF Spec

(* Every variable keeps its type, so nobody is told more than one answer.    *)
THEOREM SpecTypeOK == Spec => []TypeOK
<1>1. IInv => TypeOK BY DEF IInv
<1> QED BY <1>1, SpecIInv, PTL

(* As long as a client is there, its nick, password and channel are what the *)
(* main thread takes for them, though it looks at the place of a line only.  *)
THEOREM SpecRegistersWhoAsked == Spec => []RegistersWhoAsked
<1>1. IInv => RegistersWhoAsked
  BY DEF IInv, AsAsked, FieldsRead, RegistersWhoAsked
<1> QED BY <1>1, SpecIInv, PTL

(* Whoever is welcomed has a login and the password that is stored, whoever  *)
(* else registers the nick, and nobody gets to a channel without a login.    *)
THEOREM SpecWelcomeAfterLogin == Spec => []WelcomeAfterLogin
<1>1. IInv => WelcomeAfterLogin BY DEF IInv
<1> QED BY <1>1, SpecIInv, PTL

(* Two that are welcomed under one nick have given the same password.        *)
THEOREM SpecNickHasOnePassword == Spec => []NickHasOnePassword
<1>1. IInv => NickHasOnePassword BY DEF IInv, WelcomeAfterLogin, NickHasOnePassword
<1> QED BY <1>1, SpecIInv, PTL

(* A channel has a row and a first user before it has a thread.              *)
THEOREM SpecRowBeforeThread == Spec => []RowBeforeThread
<1>1. IInv => RowBeforeThread BY DEF IInv
<1> QED BY <1>1, SpecIInv, PTL

(* No server writes over the password of a nick, even if two of them insert  *)
(* the nick at the same time.                                                *)
THEOREM SpecFirstPasswordStays == Spec => FirstPasswordStays
<1> DEFINE Stays == \A n \in Lines : passwords[n] # None => passwords'[n] = passwords[n]
<1>1. IInv /\ [Next]_vars => [Stays]_vars
  <2> SUFFICES ASSUME IInv, Next PROVE Stays
    BY DEF vars
  <2>1. ASSUME NEW s \in Servers, InsertUser(s) PROVE Stays BY <2>1, RowsStay
  <2>2. CASE \A s \in Servers : ~InsertUser(s)
    <3>1. passwords' = passwords
      <4>1. CASE \E c \in Clients : Client(c)
        BY <4>1 DEF Client, Connect, PassUserInfo, AskForChannel, Send, ConnectionEnds, database
      <4>2. ASSUME NEW s \in Servers,
                   Run(s) \/ AcceptThrows(s) \/ DatabaseThrows(s) \/ SignalHandler(s)
            PROVE  passwords' = passwords
        BY <2>2, <4>2
        DEF Run, AcceptThrows, DatabaseThrows, SignalHandler, HandleServer, InsertServer,
            InsertServerMetadata, Accept, LoopEnds, TryReading, TryReadingFails,
            TryReadingNothing, HandleUser, VerifyPassword, InsertLogin, Refuse, Welcome, Publish,
            CheckChannel, GetChannelTopic, InsertChannel, StartThread, InsertThrows,
            EndpointThrows, Throws, database
      <4> QED BY <4>1, <4>2 DEF Next
    <3> QED BY <3>1
  <2> QED BY <2>1, <2>2
<1> QED BY <1>1, SpecIInv, PTL DEF Spec, FirstPasswordStays

=============================================================================
