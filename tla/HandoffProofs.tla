--------------------------- MODULE HandoffProofs ---------------------------
(***************************************************************************)
(* Handoff.tla for any number of connections and channels: the inductive   *)
(* invariant IInv holds of every behaviour, and with it each of the safety *)
(* properties that Handoff.cfg checks on three connections.                *)
(***************************************************************************)
EXTENDS Handoff, TLAPS

(* The server starts with nobody anywhere. *)
LEMMA InitIInv == Init => IInv
  BY ZenonT(30) DEF Init, IInv, TypeOK, OneOwner, UserComesWithSocket, RightChannelOnce, NoLostWakeup,
         OrphanOnlyAfterDeath, ThreadsJoinedFirst, Fresh, SocksHaveChannel, FlagBeforeThread,
         MainPcs, ServPcs, Peers, InHand

(* The steps of the clients and the operator, then of the main thread. *)
LEMMA EnvironmentStep ==
  ASSUME IInv,
         \/ \E c \in Conns : Connect(c) \/ Reset(c)
         \/ SignalHandler
  PROVE  IInv'
<1> USE DEF IInv, shared, servletOwn, mainOwn
<1>1. TypeOK' BY DEF TypeOK, Connect, Reset, SignalHandler, MainPcs, ServPcs, Peers
<1>2. OneOwner' BY DEF OneOwner, InHand, Connect, Reset, SignalHandler
<1>3. UserComesWithSocket' BY DEF UserComesWithSocket, TypeOK, Connect, Reset, SignalHandler
<1>4. RightChannelOnce' BY DEF RightChannelOnce, Connect, Reset, SignalHandler
<1>5. NoLostWakeup' BY DEF NoLostWakeup, Connect, Reset, SignalHandler
<1>6. OrphanOnlyAfterDeath' BY DEF OrphanOnlyAfterDeath, Connect, Reset, SignalHandler
<1>7. ThreadsJoinedFirst' BY DEF ThreadsJoinedFirst, Connect, Reset, SignalHandler
<1>8. Fresh' BY DEF Fresh, Connect, Reset, SignalHandler
<1>9. SocksHaveChannel' BY DEF SocksHaveChannel, Connect, Reset, SignalHandler
<1>10. FlagBeforeThread' BY DEF FlagBeforeThread, Connect, Reset, SignalHandler
<1> QED BY <1>1, <1>2, <1>3, <1>4, <1>5, <1>6, <1>7, <1>8, <1>9, <1>10

(* accept() hands the main thread a connection nobody has had yet.           *)
LEMMA AcceptStep ==
  ASSUME IInv, NEW c \in Conns, Accept(c)
  PROVE  IInv'
<1> USE DEF IInv, shared, servletOwn, mainOwn, Accept
<1>1. TypeOK' BY DEF TypeOK, MainPcs
<1>2. OneOwner' BY DEF OneOwner, InHand, Fresh, TypeOK
<1>3. UserComesWithSocket' BY DEF UserComesWithSocket
<1>4. RightChannelOnce' BY DEF RightChannelOnce
<1>5. NoLostWakeup' BY DEF NoLostWakeup
<1>6. OrphanOnlyAfterDeath' BY DEF OrphanOnlyAfterDeath
<1>7. ThreadsJoinedFirst' BY DEF ThreadsJoinedFirst
<1>8. Fresh' BY DEF Fresh, TypeOK
<1>9. SocksHaveChannel' BY DEF SocksHaveChannel
<1>10. FlagBeforeThread' BY DEF FlagBeforeThread
<1> QED BY <1>1, <1>2, <1>3, <1>4, <1>5, <1>6, <1>7, <1>8, <1>9, <1>10

(* A registered connection names its channel while only main has it.         *)
LEMMA RegisterOkStep ==
  ASSUME IInv, NEW ch \in Channels, RegisterOk(ch)
  PROVE  IInv'
<1> USE NoChanAssumption DEF IInv, shared, servletOwn, mainOwn, RegisterOk
<1>0. /\ current \in Conns
      /\ chanOf[current] = NoChan
      /\ chanOf' = [chanOf EXCEPT ![current] = ch]
      /\ chanOf \in [Conns -> Channels \cup {NoChan}]
  BY DEF Fresh, TypeOK
<1>1. TypeOK' BY <1>0 DEF TypeOK, MainPcs
<1>2. OneOwner' BY DEF OneOwner, InHand
<1>3. UserComesWithSocket' BY <1>0 DEF UserComesWithSocket
<1>4. RightChannelOnce' BY <1>0 DEF RightChannelOnce, TypeOK
<1>5. NoLostWakeup' BY <1>0 DEF NoLostWakeup
<1>6. OrphanOnlyAfterDeath' BY <1>0 DEF OrphanOnlyAfterDeath, OneOwner, InHand, TypeOK
<1>7. ThreadsJoinedFirst' BY DEF ThreadsJoinedFirst
<1>8. Fresh'
  <2>1. \A d \in Channels : current \notin users[d] \cup socks[d]
    BY <1>0 DEF RightChannelOnce, SocksHaveChannel
  <2> QED BY <1>0, <2>1 DEF Fresh
<1>9. SocksHaveChannel' BY <1>0 DEF SocksHaveChannel, OneOwner, InHand, TypeOK
<1>10. FlagBeforeThread' BY DEF FlagBeforeThread
<1> QED BY <1>1, <1>2, <1>3, <1>4, <1>5, <1>6, <1>7, <1>8, <1>9, <1>10

(* Whatever way an exception takes, the main thread just lets go of the      *)
(* connection it has in hand and goes to join the threads.                   *)
LEMMA MainGivesUpStep ==
  ASSUME IInv,
         AcceptThrows \/ RegisterRefused \/ RegisterThrows \/ HandoffThrows \/ SpawnThrows
  PROVE  IInv'
<1> USE DEF IInv, shared, servletOwn, mainOwn, MainThrows,
            AcceptThrows, RegisterRefused, RegisterThrows, HandoffThrows, SpawnThrows
<1>1. TypeOK' BY DEF TypeOK, MainPcs
<1>2. OneOwner' BY DEF OneOwner, InHand
<1>3. UserComesWithSocket' BY DEF UserComesWithSocket
<1>4. RightChannelOnce' BY DEF RightChannelOnce
<1>5. NoLostWakeup' BY DEF NoLostWakeup
<1>6. OrphanOnlyAfterDeath' BY DEF OrphanOnlyAfterDeath
<1>7. ThreadsJoinedFirst' BY DEF ThreadsJoinedFirst
<1>8. Fresh' BY DEF Fresh
<1>9. SocksHaveChannel' BY DEF SocksHaveChannel
<1>10. FlagBeforeThread' BY DEF FlagBeforeThread
<1> QED BY <1>1, <1>2, <1>3, <1>4, <1>5, <1>6, <1>7, <1>8, <1>9, <1>10

(* User and socket are published together, under one lock.                   *)
LEMMA UpdateCommStructsStep ==
  ASSUME IInv, UpdateCommStructs
  PROVE  IInv'
<1> USE DEF IInv, shared, servletOwn, mainOwn, UpdateCommStructs
<1> DEFINE ch == chanOf[current]
<1>0. /\ current \in Conns
      /\ ch \in Channels
      /\ chanNewusers \in [Channels -> SUBSET Conns]
      /\ chanNewusers' = [chanNewusers EXCEPT ![ch] = @ \cup {current}]
  BY DEF Fresh, TypeOK
<1>1. TypeOK' BY <1>0 DEF TypeOK, MainPcs
<1>2. OneOwner' BY DEF OneOwner, InHand
<1>3. UserComesWithSocket' BY <1>0 DEF UserComesWithSocket
<1>4. RightChannelOnce' BY <1>0 DEF RightChannelOnce, Fresh
<1>5. NoLostWakeup' BY <1>0 DEF NoLostWakeup
<1>6. OrphanOnlyAfterDeath' BY <1>0 DEF OrphanOnlyAfterDeath, SocksHaveChannel
<1>7. ThreadsJoinedFirst' BY DEF ThreadsJoinedFirst
<1>8. Fresh' BY DEF Fresh
<1>9. SocksHaveChannel' BY <1>0 DEF SocksHaveChannel
<1>10. FlagBeforeThread' BY DEF FlagBeforeThread
<1> QED BY <1>1, <1>2, <1>3, <1>4, <1>5, <1>6, <1>7, <1>8, <1>9, <1>10

(* The flag of the channel is raised, and nothing else happens.              *)
LEMMA NotifyUpdateStep ==
  ASSUME IInv, NotifyUpdate
  PROVE  IInv'
<1> USE DEF IInv, shared, servletOwn, mainOwn, NotifyUpdate
<1>0. current \in Conns /\ chanOf[current] \in Channels
  BY DEF Fresh, TypeOK
<1>1. TypeOK' BY <1>0 DEF TypeOK, MainPcs
<1>2. OneOwner' BY DEF OneOwner, InHand
<1>3. UserComesWithSocket' BY DEF UserComesWithSocket
<1>4. RightChannelOnce' BY DEF RightChannelOnce
<1>5. NoLostWakeup' BY DEF NoLostWakeup
<1>6. OrphanOnlyAfterDeath' BY DEF OrphanOnlyAfterDeath
<1>7. ThreadsJoinedFirst' BY DEF ThreadsJoinedFirst
<1>8. Fresh' BY DEF Fresh
<1>9. SocksHaveChannel' BY DEF SocksHaveChannel
<1>10. FlagBeforeThread' BY DEF FlagBeforeThread
<1> QED BY <1>1, <1>2, <1>3, <1>4, <1>5, <1>6, <1>7, <1>8, <1>9, <1>10

(* A new channel gets a thread when its flag is already there.               *)
LEMMA SpawnThreadStep ==
  ASSUME IInv, SpawnThread
  PROVE  IInv'
<1> USE DEF IInv, shared, servletOwn, mainOwn, SpawnThread
<1>0. /\ current \in Conns
      /\ chanOf[current] \in Channels
      /\ servPc \in [Channels -> ServPcs]
  BY DEF Fresh, TypeOK
<1>1. TypeOK' BY <1>0 DEF TypeOK, MainPcs, ServPcs
<1>2. OneOwner' BY DEF OneOwner, InHand
<1>3. UserComesWithSocket' BY DEF UserComesWithSocket
<1>4. RightChannelOnce' BY DEF RightChannelOnce
<1>5. NoLostWakeup' BY <1>0 DEF NoLostWakeup, FlagBeforeThread
<1>6. OrphanOnlyAfterDeath' BY <1>0 DEF OrphanOnlyAfterDeath, SocksHaveChannel
<1>7. ThreadsJoinedFirst' BY DEF ThreadsJoinedFirst
<1>8. Fresh' BY DEF Fresh
<1>9. SocksHaveChannel' BY DEF SocksHaveChannel
<1>10. FlagBeforeThread' BY DEF FlagBeforeThread
<1> QED BY <1>1, <1>2, <1>3, <1>4, <1>5, <1>6, <1>7, <1>8, <1>9, <1>10

(* The process waits for its threads before it ends.                         *)
LEMMA StopStep ==
  ASSUME IInv, RunLoopEnds \/ JoinThreads
  PROVE  IInv'
<1> USE DEF IInv, shared, servletOwn, mainOwn, RunLoopEnds, JoinThreads
<1>1. TypeOK' BY DEF TypeOK, MainPcs
<1>2. OneOwner' BY DEF OneOwner, InHand
<1>3. UserComesWithSocket' BY DEF UserComesWithSocket
<1>4. RightChannelOnce' BY DEF RightChannelOnce
<1>5. NoLostWakeup' BY DEF NoLostWakeup
<1>6. OrphanOnlyAfterDeath' BY DEF OrphanOnlyAfterDeath
<1>7. ThreadsJoinedFirst' BY DEF ThreadsJoinedFirst
<1>8. Fresh' BY DEF Fresh
<1>9. SocksHaveChannel' BY DEF SocksHaveChannel
<1>10. FlagBeforeThread' BY DEF FlagBeforeThread
<1> QED BY <1>1, <1>2, <1>3, <1>4, <1>5, <1>6, <1>7, <1>8, <1>9, <1>10

-----------------------------------------------------------------------------
(* The steps of a channel thread.                                          *)

(* Looking at the flag, and the end of thread_run, break nothing.            *)
LEMMA LoopStep ==
  ASSUME IInv, NEW ch \in Channels,
         CheckNewusers(ch) \/ LoopEnds(ch) \/ ServeThrows(ch)
  PROVE  IInv'
<1> USE DEF IInv, shared, servletOwn, mainOwn, ServletExits,
            CheckNewusers, LoopEnds, ServeThrows
<1>1. TypeOK' BY DEF TypeOK, ServPcs
<1>2. OneOwner' BY DEF OneOwner, InHand, TypeOK
<1>3. UserComesWithSocket' BY DEF UserComesWithSocket, TypeOK
<1>4. RightChannelOnce' BY DEF RightChannelOnce, TypeOK
<1>5. NoLostWakeup' BY DEF NoLostWakeup, TypeOK
<1>6. OrphanOnlyAfterDeath' BY DEF OrphanOnlyAfterDeath, SocksHaveChannel, TypeOK
<1>7. ThreadsJoinedFirst' BY DEF ThreadsJoinedFirst, TypeOK
<1>8. Fresh' BY DEF Fresh, TypeOK
<1>9. SocksHaveChannel' BY DEF SocksHaveChannel, TypeOK
<1>10. FlagBeforeThread' BY DEF FlagBeforeThread
<1> QED BY <1>1, <1>2, <1>3, <1>4, <1>5, <1>6, <1>7, <1>8, <1>9, <1>10

(* Users and their sockets change hands in the same critical section.        *)
LEMMA GrabNewStep ==
  ASSUME IInv, NEW ch \in Channels, GrabNew(ch)
  PROVE  IInv'
<1> USE DEF IInv, shared, servletOwn, mainOwn, GrabNew, UsersAfterGrab
(* The sockets taken out of the shared deque are those of this channel's     *)
(* newusers, and perhaps of its older users.                                 *)
<1>0. /\ \A c \in UsersAfterGrab(ch) : chanOf[c] = ch
      /\ chanNewusers[ch] \subseteq socksDeq
      /\ UsersAfterGrab(ch) \subseteq Conns
  BY DEF RightChannelOnce, UserComesWithSocket, TypeOK
<1>1. TypeOK' BY DEF TypeOK, ServPcs
<1>2. OneOwner' BY DEF OneOwner, InHand, TypeOK
<1>3. UserComesWithSocket'
  <2>1. chanNewusers'[ch] = {} /\ \A d \in Channels \ {ch} :
          /\ chanNewusers'[d] = chanNewusers[d]
          /\ chanNewusers[d] \subseteq socksDeq'
    BY <1>0 DEF TypeOK, RightChannelOnce, UserComesWithSocket
  <2>2. \A d \in Channels : \A c \in users'[d] \ socks'[d] : peer'[c] = "reset"
    BY <1>0 DEF TypeOK, UserComesWithSocket
  <2>3. \A d \in Channels : \/ socks'[d] \subseteq users'[d]
                            \/ \E c \in Conns : chanOf'[c] = d /\ peer'[c] = "reset"
    BY <1>0 DEF TypeOK, UserComesWithSocket
  <2> QED BY <2>1, <2>2, <2>3 DEF UserComesWithSocket
<1>4. RightChannelOnce' BY <1>0 DEF RightChannelOnce, TypeOK
<1>5. NoLostWakeup' BY DEF NoLostWakeup, TypeOK
<1>6. OrphanOnlyAfterDeath' BY DEF OrphanOnlyAfterDeath, SocksHaveChannel, TypeOK
<1>7. ThreadsJoinedFirst' BY DEF ThreadsJoinedFirst, TypeOK
<1>8. Fresh' BY DEF Fresh, OneOwner, InHand, UserComesWithSocket, TypeOK
<1>9. SocksHaveChannel' BY <1>0 DEF SocksHaveChannel, TypeOK
<1>10. FlagBeforeThread' BY DEF FlagBeforeThread
<1> QED BY <1>1, <1>2, <1>3, <1>4, <1>5, <1>6, <1>7, <1>8, <1>9, <1>10

(* A scan that throws leaves sockets behind, but only of its channel.        *)
LEMMA GrabThrowsStep ==
  ASSUME IInv, NEW ch \in Channels, GrabThrows(ch)
  PROVE  IInv'
<1> USE DEF IInv, shared, servletOwn, mainOwn, ServletExits
<1>0. PICK moved \in SUBSET {s \in socksDeq \cap UsersAfterGrab(ch) : peer[s] # "reset"} :
        socksDeq' = socksDeq \ moved
  BY DEF GrabThrows
<1>1. \A s \in moved : chanOf[s] = ch
  BY <1>0 DEF UsersAfterGrab, RightChannelOnce
<1> USE DEF GrabThrows
<1>2. TypeOK' BY <1>0 DEF TypeOK, ServPcs
<1>3. OneOwner' BY <1>0 DEF OneOwner, InHand, TypeOK
<1>4. UserComesWithSocket'
  <2>1. \A d \in Channels : chanNewusers'[d] \subseteq socksDeq'
    BY <1>0, <1>1 DEF UserComesWithSocket, RightChannelOnce, TypeOK
  <2>2. \A d \in Channels : /\ users'[d] = IF d = ch THEN {} ELSE users[d]
                            /\ socks'[d] = IF d = ch THEN {} ELSE socks[d]
    BY DEF TypeOK
  <2> QED BY <2>1, <2>2 DEF UserComesWithSocket
<1>5. RightChannelOnce' BY DEF RightChannelOnce, TypeOK
<1>6. NoLostWakeup' BY DEF NoLostWakeup, TypeOK
<1>7. OrphanOnlyAfterDeath' BY <1>0 DEF OrphanOnlyAfterDeath, SocksHaveChannel, TypeOK
<1>8. ThreadsJoinedFirst' BY DEF ThreadsJoinedFirst, TypeOK
<1>9. Fresh' BY <1>0 DEF Fresh, TypeOK
<1>10. SocksHaveChannel' BY <1>0 DEF SocksHaveChannel, TypeOK
<1>11. FlagBeforeThread' BY DEF FlagBeforeThread
<1> QED BY <1>2, <1>3, <1>4, <1>5, <1>6, <1>7, <1>8, <1>9, <1>10, <1>11

(* remove_trace_of parts a user from its socket only after a reset.          *)
LEMMA ServeStep ==
  ASSUME IInv, NEW ch \in Channels,
         NEW left \in SUBSET users[ch], NEW gone \in SUBSET socks[ch],
         Serve(ch, left, gone)
  PROVE  IInv'
<1> USE DEF IInv, shared, servletOwn, mainOwn, Serve
<1>0. \A d \in Channels :
        /\ users'[d] = IF d = ch THEN users[d] \ left ELSE users[d]
        /\ socks'[d] = IF d = ch THEN socks[d] \ gone ELSE socks[d]
        /\ servPc'[d] = IF d = ch THEN "loop" ELSE servPc[d]
  BY DEF TypeOK
<1>1. TypeOK' BY DEF TypeOK, ServPcs
<1>2. OneOwner' BY <1>0 DEF OneOwner, InHand
<1>3. UserComesWithSocket'
  <2>1. \A c \in users'[ch] \ socks'[ch] : peer[c] = "reset"
    BY <1>0, SMTT(20) DEF UserComesWithSocket, ErasedFor
  (* A socket whose user has just left was spared for a reset one. *)
  <2>2. \/ socks'[ch] \subseteq users'[ch]
        \/ \E c \in Conns : chanOf[c] = ch /\ peer[c] = "reset"
    BY <1>0 DEF UserComesWithSocket, ErasedFor, SocksHaveChannel, TypeOK
  <2> QED BY <1>0, <2>1, <2>2 DEF UserComesWithSocket
<1>4. RightChannelOnce' BY <1>0 DEF RightChannelOnce
<1>5. NoLostWakeup' BY <1>0 DEF NoLostWakeup
<1>6. OrphanOnlyAfterDeath' BY <1>0 DEF OrphanOnlyAfterDeath, SocksHaveChannel
<1>7. ThreadsJoinedFirst' BY <1>0 DEF ThreadsJoinedFirst
<1>8. Fresh' BY <1>0 DEF Fresh
<1>9. SocksHaveChannel' BY <1>0 DEF SocksHaveChannel
<1>10. FlagBeforeThread' BY DEF FlagBeforeThread
<1> QED BY <1>1, <1>2, <1>3, <1>4, <1>5, <1>6, <1>7, <1>8, <1>9, <1>10

(* A crash takes every thread, and what they hold, with it.                  *)
LEMMA CrashStep ==
  ASSUME IInv, Crash
  PROVE  IInv'
<1> USE DEF IInv, Crash
<1>1. TypeOK' BY DEF TypeOK, MainPcs, ServPcs
<1>2. OneOwner' BY DEF OneOwner, InHand
<1>3. UserComesWithSocket' BY DEF UserComesWithSocket
<1>4. RightChannelOnce' BY DEF RightChannelOnce
<1>5. NoLostWakeup' BY DEF NoLostWakeup
<1>6. OrphanOnlyAfterDeath' BY DEF OrphanOnlyAfterDeath
<1>7. ThreadsJoinedFirst' BY DEF ThreadsJoinedFirst
<1>8. Fresh' BY DEF Fresh
<1>9. SocksHaveChannel' BY DEF SocksHaveChannel
<1>10. FlagBeforeThread' BY DEF FlagBeforeThread
<1> QED BY <1>1, <1>2, <1>3, <1>4, <1>5, <1>6, <1>7, <1>8, <1>9, <1>10

-----------------------------------------------------------------------------
(* Every step keeps the inductive invariant. *)
LEMMA NextIInv == IInv /\ [Next]_vars => IInv'
<1> SUFFICES ASSUME IInv, [Next]_vars PROVE IInv'
  OBVIOUS
<1>1. CASE \E c \in Conns : Connect(c) \/ Reset(c)
  BY <1>1, EnvironmentStep
<1>2. CASE SignalHandler
  BY <1>2, EnvironmentStep
<1>3. CASE Main \/ AcceptThrows
  BY <1>3, AcceptStep, RegisterOkStep, MainGivesUpStep, UpdateCommStructsStep,
     NotifyUpdateStep, SpawnThreadStep, StopStep DEF Main
<1>4. ASSUME NEW ch \in Channels, ThreadRun(ch) PROVE IInv'
  BY <1>4, LoopStep, GrabNewStep, GrabThrowsStep, ServeStep DEF ThreadRun
<1>5. CASE Crash
  BY <1>5, CrashStep
<1>6. CASE UNCHANGED vars
  BY <1>6 DEF vars, shared, servletOwn, mainOwn, IInv, TypeOK, OneOwner, UserComesWithSocket,
     RightChannelOnce, NoLostWakeup, OrphanOnlyAfterDeath, ThreadsJoinedFirst, Fresh,
     SocksHaveChannel, FlagBeforeThread, InHand
<1> QED BY <1>1, <1>2, <1>3, <1>4, <1>5, <1>6 DEF Next, Terminated

(* The inductive invariant holds of the hand-off with any number of          *)
(* connections and channels.                                                 *)
THEOREM SpecIInv == Spec => []IInv
  BY InitIInv, NextIInv, PTL DEF Spec

(* Type correctness: in particular, every step finds the connection in hand  *)
(* and its channel where it looks for them.                                  *)
THEOREM SpecTypeOK == Spec => []TypeOK
<1>1. IInv => TypeOK BY DEF IInv
<1> QED BY <1>1, SpecIInv, PTL

(* No socket is ever owned by two threads, or by a thread and the shared     *)
(* deque (update_comm_structs moves it in, grab_new moves it out).           *)
THEOREM SpecOneOwner == Spec => []OneOwner
<1>1. IInv => OneOwner BY DEF IInv
<1> QED BY <1>1, SpecIInv, PTL

(* User and socket arrive together at the channel and stay together as long  *)
(* as nobody there is reset.                                                 *)
THEOREM SpecUserComesWithSocket == Spec => []UserComesWithSocket
<1>1. IInv => UserComesWithSocket BY DEF IInv
<1> QED BY <1>1, SpecIInv, PTL

(* A user reaches the channel it named, and is announced there once. *)
THEOREM SpecRightChannelOnce == Spec => []RightChannelOnce
<1>1. IInv => RightChannelOnce BY DEF IInv
<1> QED BY <1>1, SpecIInv, PTL

(* Whoever is queued has a raised flag and a thread that reads it, although  *)
(* flag, queue and thread are set in three steps without a common lock.      *)
THEOREM SpecNoLostWakeup == Spec => []NoLostWakeup
<1>1. IInv => NoLostWakeup BY DEF IInv
<1> QED BY <1>1, SpecIInv, PTL

(* The shared deque holds no unclaimed socket of a channel that still runs. *)
THEOREM SpecOrphanOnlyAfterDeath == Spec => []OrphanOnlyAfterDeath
<1>1. IInv => OrphanOnlyAfterDeath BY DEF IInv
<1> QED BY <1>1, SpecIInv, PTL

(* No channel thread outlives the Server whose members it points into. *)
THEOREM SpecThreadsJoinedFirst == Spec => []ThreadsJoinedFirst
<1>1. IInv => ThreadsJoinedFirst BY DEF IInv
<1> QED BY <1>1, SpecIInv, PTL

-----------------------------------------------------------------------------
(* The hand-off implements JoinSpec.                                       *)

Queued(c)    == \E ch \in Channels : c \in chanNewusers[ch]
IsMember(c)  == \E ch \in Channels : c \in users[ch]
NotAsked(c)  == chanOf[c] = NoChan \/ (mainPc = "handoff" /\ c = current)

(* What stage a connection is at, by who has its user.                       *)
LEMMA StageCases ==
  \A c : StageOf(c) = IF Queued(c) THEN "waiting"
                      ELSE IF IsMember(c) THEN "member"
                      ELSE IF NotAsked(c) THEN "out" ELSE "gone"
  BY DEF StageOf, Queued, IsMember, NotAsked

(* Some connections keep their stage and room, the others end. *)
OnlyEnds == \A c \in Conns : \/ StageOf(c)' = StageOf(c) /\ RoomOf(c)' = RoomOf(c)
                             \/ StageOf(c) # "gone" /\ StageOf(c)' = "gone"

(* A step that only ends connections is a Drop, or a stutter.                *)
LEMMA DropRefines ==
  ASSUME OnlyEnds
  PROVE  J!Next
<1> DEFINE S == {c \in Conns : StageOf(c)' # StageOf(c)}
<1>1. \A c \in S : StageOf(c) # "gone" /\ StageOf(c)' = "gone" /\ RoomOf(c)' = NoChan
  BY DEF OnlyEnds, RoomOf
<1>2. \A c \in Conns \ S : StageOf(c)' = StageOf(c) /\ RoomOf(c)' = RoomOf(c)
  BY DEF OnlyEnds
<1>3. S \in SUBSET Conns /\ \A c \in S : c \in Conns
  OBVIOUS
<1> HIDE DEF S
<1>4. J!Drop(S)
  BY <1>1, <1>2, <1>3 DEF J!Drop
<1> QED BY <1>3, <1>4 DEF J!Next

(* Who waits for a channel is who is queued for it. *)
LEMMA WaitingIsQueued ==
  ASSUME IInv, NEW ch \in Channels
  PROVE  J!Waiting(ch) = chanNewusers[ch]
<1>1. chanNewusers[ch] \subseteq Conns
  BY DEF IInv, TypeOK
<1>2. \A c \in Conns : StageOf(c) = "waiting" /\ RoomOf(c) = ch <=> c \in chanNewusers[ch]
  BY StageCases DEF RoomOf, Queued, IInv, RightChannelOnce
<1> QED BY <1>1, <1>2 DEF J!Waiting

(* Nobody has asked for a channel when the server starts.                    *)
LEMMA InitRefines == Init => J!Init
  BY DEF Init, J!Init, StageOf, RoomOf

(* update_comm_structs is the Ask of the abstract hand-off.                  *)
LEMMA AskRefines ==
  ASSUME IInv, UpdateCommStructs
  PROVE  J!Ask(current, chanOf[current])
<1> USE NoChanAssumption
<1>0. /\ current \in Conns
      /\ chanOf[current] \in Channels
      /\ chanNewusers' = [chanNewusers EXCEPT ![chanOf[current]] = @ \cup {current}]
      /\ chanNewusers \in [Channels -> SUBSET Conns]
      /\ mainPc = "handoff" /\ mainPc' = "notify"
      /\ UNCHANGED <<current, chanOf, users>>
  BY DEF UpdateCommStructs, IInv, TypeOK, Fresh, servletOwn
<1>1. ~Queued(current) /\ ~IsMember(current)
  BY DEF IInv, Fresh, OneOwner, InHand, UserComesWithSocket, Queued, IsMember,
         UpdateCommStructs
<1>2. StageOf(current) = "out" /\ StageOf(current)' = "waiting"
  BY <1>0, <1>1, StageCases DEF NotAsked, StageOf
<1>3. RoomOf(current)' = chanOf[current]
  BY <1>0, <1>2 DEF RoomOf
<1>4. \A c \in Conns \ {current} : StageOf(c)' = StageOf(c) /\ RoomOf(c)' = RoomOf(c)
  BY <1>0 DEF StageOf, RoomOf
<1> QED BY <1>0, <1>2, <1>3, <1>4 DEF J!Ask

(* grab_new that finds newusers is the Admit of its channel.                 *)
LEMMA AdmitRefines ==
  ASSUME IInv, NEW ch \in Channels, GrabNew(ch), chanNewusers[ch] # {}
  PROVE  J!Admit(ch)
<1> USE NoChanAssumption
<1>0. /\ \A d \in Channels : /\ chanNewusers'[d] = IF d = ch THEN {} ELSE chanNewusers[d]
                             /\ users'[d] = IF d = ch THEN users[ch] \cup chanNewusers[ch]
                                            ELSE users[d]
      /\ UNCHANGED <<mainPc, current, chanOf>>
  BY DEF GrabNew, UsersAfterGrab, IInv, TypeOK, mainOwn
<1>1. \A c \in chanNewusers[ch] : /\ StageOf(c) = "waiting" /\ StageOf(c)' = "member"
                                  /\ RoomOf(c)' = RoomOf(c)
  BY <1>0 DEF StageOf, RoomOf, IInv, RightChannelOnce
<1>2. \A c \in Conns \ chanNewusers[ch] : StageOf(c)' = StageOf(c) /\ RoomOf(c)' = RoomOf(c)
  BY <1>0 DEF StageOf, RoomOf
<1>3. J!Waiting(ch) = chanNewusers[ch]
  BY WaitingIsQueued
<1> QED BY <1>1, <1>2, <1>3 DEF J!Admit

(* A step that only takes users out of queues and channels ends them. *)
LEMMA ShrinkingEnds ==
  ASSUME IInv, chanOf' = chanOf,
         \A ch \in Channels : /\ chanNewusers'[ch] \subseteq chanNewusers[ch]
                              /\ users'[ch] \subseteq users[ch],
         mainPc' = "handoff" => mainPc = "handoff" /\ current' = current
  PROVE  OnlyEnds
<1> SUFFICES ASSUME NEW c \in Conns
             PROVE  \/ StageOf(c)' = StageOf(c) /\ RoomOf(c)' = RoomOf(c)
                    \/ StageOf(c) # "gone" /\ StageOf(c)' = "gone"
  BY DEF OnlyEnds
<1>1. Queued(c) => ~IsMember(c)
  BY DEF Queued, IsMember, IInv, RightChannelOnce
<1>2. Queued(c) \/ IsMember(c) => ~NotAsked(c)
  BY NoChanAssumption DEF Queued, IsMember, NotAsked, IInv, RightChannelOnce, OneOwner, InHand,
     UserComesWithSocket, Fresh
<1>3. /\ Queued(c)' => Queued(c)
      /\ IsMember(c)' => IsMember(c)
      /\ NotAsked(c)' => NotAsked(c)
  BY DEF Queued, IsMember, NotAsked
<1>4. StageOf(c)' = IF Queued(c)' THEN "waiting"
                    ELSE IF IsMember(c)' THEN "member"
                    ELSE IF NotAsked(c)' THEN "out" ELSE "gone"
  BY DEF StageOf, Queued, IsMember, NotAsked
<1>5. \/ StageOf(c)' = StageOf(c)
      \/ StageOf(c) # "gone" /\ StageOf(c)' = "gone"
  BY <1>1, <1>2, <1>3, <1>4, StageCases
<1> QED BY <1>5 DEF RoomOf

(* Naming a channel is not yet asking for it.                                *)
LEMMA RegisterOkRefines ==
  ASSUME IInv, NEW ch \in Channels, RegisterOk(ch)
  PROVE  OnlyEnds
<1>1. /\ current \in Conns /\ chanOf[current] = NoChan
      /\ mainPc = "register" /\ mainPc' = "handoff"
      /\ chanOf' = [chanOf EXCEPT ![current] = ch]
      /\ chanOf \in [Conns -> Channels \cup {NoChan}]
      /\ UNCHANGED <<chanNewusers, users, current>>
  BY DEF RegisterOk, IInv, Fresh, TypeOK, shared, servletOwn
<1>2. ~Queued(current) /\ ~IsMember(current)
  BY <1>1, NoChanAssumption DEF Queued, IsMember, IInv, RightChannelOnce
<1>3. ASSUME NEW c \in Conns, c = current
      PROVE  StageOf(c)' = StageOf(c) /\ RoomOf(c)' = RoomOf(c)
  <2>1. StageOf(c) = "out" /\ StageOf(c)' = "out"
    BY <1>1, <1>2, <1>3 DEF StageOf, Queued, IsMember
  <2> QED BY <2>1 DEF RoomOf
<1>4. ASSUME NEW c \in Conns, c # current
      PROVE  StageOf(c)' = StageOf(c) /\ RoomOf(c)' = RoomOf(c)
  BY <1>1, <1>4 DEF StageOf, RoomOf
<1> QED BY <1>3, <1>4 DEF OnlyEnds

(* What the main thread does is an Ask, a Drop or a stutter.                 *)
LEMMA MainRefines ==
  ASSUME IInv, Main \/ AcceptThrows
  PROVE  J!Next
<1> USE DEF mainOwn, shared, servletOwn
<1>1. CASE UpdateCommStructs
  BY <1>1, AskRefines DEF J!Next, UpdateCommStructs, IInv, Fresh, TypeOK
<1>2. CASE \E ch \in Channels : RegisterOk(ch)
  BY <1>2, RegisterOkRefines, DropRefines
<1>3. CASE \E c \in Conns : Accept(c)
  BY <1>3, ShrinkingEnds, DropRefines DEF Accept
<1>4. CASE AcceptThrows \/ RegisterRefused \/ RegisterThrows \/ HandoffThrows \/ SpawnThrows
  BY <1>4, ShrinkingEnds, DropRefines
     DEF MainThrows, AcceptThrows, RegisterRefused, RegisterThrows, HandoffThrows, SpawnThrows
<1>5. CASE NotifyUpdate \/ SpawnThread \/ RunLoopEnds \/ JoinThreads
  BY <1>5, ShrinkingEnds, DropRefines DEF NotifyUpdate, SpawnThread, RunLoopEnds, JoinThreads
<1> QED BY <1>1, <1>2, <1>3, <1>4, <1>5 DEF Main

(* What a channel thread does is an Admit, a Drop or a stutter.              *)
LEMMA ThreadRefines ==
  ASSUME IInv, NEW ch \in Channels, ThreadRun(ch)
  PROVE  J!Next
<1> USE DEF mainOwn, shared, servletOwn, IInv, TypeOK
<1>1. CASE GrabNew(ch) /\ chanNewusers[ch] # {}
  BY <1>1, AdmitRefines DEF J!Next
<1>2. CASE GrabNew(ch) /\ chanNewusers[ch] = {}
  BY <1>2, ShrinkingEnds, DropRefines DEF GrabNew, UsersAfterGrab
<1>3. CASE GrabThrows(ch)
  BY <1>3, ShrinkingEnds, DropRefines DEF GrabThrows, ServletExits
<1>4. CASE CheckNewusers(ch) \/ LoopEnds(ch) \/ ServeThrows(ch)
  BY <1>4, ShrinkingEnds, DropRefines DEF CheckNewusers, LoopEnds, ServeThrows, ServletExits
<1>5. CASE \E left \in SUBSET users[ch], gone \in SUBSET socks[ch] : Serve(ch, left, gone)
  BY <1>5, ShrinkingEnds, DropRefines DEF Serve
<1> QED BY <1>1, <1>2, <1>3, <1>4, <1>5 DEF ThreadRun

(* Every step of the server is a step of the abstract hand-off.              *)
LEMMA NextRefines == IInv /\ [Next]_vars => J!Next
<1> SUFFICES ASSUME IInv, [Next]_vars PROVE J!Next
  OBVIOUS
<1> USE DEF mainOwn, shared, servletOwn
<1>1. CASE \E c \in Conns : Connect(c) \/ Reset(c)
  BY <1>1, ShrinkingEnds, DropRefines DEF Connect, Reset
<1>2. CASE SignalHandler
  BY <1>2, ShrinkingEnds, DropRefines DEF SignalHandler
<1>3. CASE Main \/ AcceptThrows
  BY <1>3, MainRefines
<1>4. CASE \E ch \in Channels : ThreadRun(ch)
  BY <1>4, ThreadRefines
<1>5. CASE Crash
  BY <1>5, ShrinkingEnds, DropRefines DEF Crash
<1>6. CASE UNCHANGED vars
  BY <1>6, ShrinkingEnds, DropRefines DEF vars
<1> QED BY <1>1, <1>2, <1>3, <1>4, <1>5, <1>6 DEF Next, Terminated

(* The accept loop and the channel threads, whatever their interleaving,     *)
(* implement the abstract hand-off: asking, being admitted together with     *)
(* everybody else who waits, and ending for good.                            *)
THEOREM SpecImplementsJoinSpec == Spec => ImplementsJoinSpec
<1>1. IInv /\ [Next]_vars => [J!Next]_(J!joinVars)
  BY NextRefines
<1> QED BY <1>1, InitRefines, SpecIInv, PTL DEF Spec, ImplementsJoinSpec, J!Spec

=============================================================================
