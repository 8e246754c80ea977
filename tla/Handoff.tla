------------------------------ MODULE Handoff ------------------------------
(***************************************************************************)
(* How a client that has registered gets from the accepting thread of the  *)
(* server to the thread of the channel it joins.                           *)
(*                                                                         *)
(* The main thread (Server::run, Server::inner_scope_run) accepts one      *)
(* connection at a time, registers it, and under _comms_lock puts the user *)
(* in _chan_newusers_map and the socket in _socks_deq.  It then raises the *)
(* channel's flag in the Notifier and, for a channel name it has not seen, *)
(* starts a thread.  Each channel thread (thread_run) loops until          *)
(* selfdestruct: it looks at its flag, takes its newusers and their        *)
(* sockets from the shared structures under the same lock                  *)
(* (Servlet::grab_new), and serves its members.                            *)
(*                                                                         *)
(* A connection is named by its remote endpoint, the key the code matches  *)
(* users and sockets with.  A region guarded by _comms_lock is one step.   *)
(* The deques are sets: no property here is about the order in them, and   *)
(* the one place where order shows (which sockets were moved before a scan *)
(* throws) is left open.  What registration and the serving part of a pass *)
(* do in detail is in Registration.tla and Servlet.tla; here they are      *)
(* their outcomes for the hand-off.                                        *)
(***************************************************************************)
EXTENDS FiniteSets

CONSTANTS
  Conns,      \* remote endpoints; a client that reconnects is a new one
  Channels,   \* channel names
  NoConn,     \* the main thread has no connection in hand
  NoChan      \* the user of this connection has no channel yet

ASSUME NoConnAssumption == NoConn \notin Conns
ASSUME NoChanAssumption == NoChan \notin Channels

VARIABLES
  peer,          \* peer[c]: state of the TCP connection, as the server sees it
  accepted,      \* connections accept() has returned
  mainPc,        \* where the main thread is
  current,       \* the connection inner_scope_run has in hand
  chanOf,        \* User::_channel of each connection
  chanNewusers,  \* _chan_newusers_map
  socksDeq,      \* _socks_deq
  notifier,      \* channels with a flag in Notifier::_map; a flag is only ever true
  servPc,        \* servPc[ch]: where channel ch's thread is; "none": not in _threads
  users,         \* users[ch]: Servlet::_users
  socks,         \* socks[ch]: Servlet::_socks
  selfdestruct   \* the global stop flag

shared     == <<chanNewusers, socksDeq, notifier>>
servletOwn == <<servPc, users, socks>>
mainOwn    == <<mainPc, current, accepted, chanOf>>
vars       == <<peer, mainOwn, shared, servletOwn, selfdestruct>>

MainPcs == {"accept", "register", "handoff", "notify", "spawn", "join", "done", "crashed"}
ServPcs == {"none", "loop", "grab", "serve", "exited"}
Peers   == {"idle", "connected", "reset"}

TypeOK ==
  /\ peer \in [Conns -> Peers]
  /\ accepted \in SUBSET Conns
  /\ mainPc \in MainPcs
  /\ current \in Conns \cup {NoConn}
  /\ chanOf \in [Conns -> Channels \cup {NoChan}]
  /\ chanNewusers \in [Channels -> SUBSET Conns]
  /\ socksDeq \in SUBSET Conns
  /\ notifier \in SUBSET Channels
  /\ servPc \in [Channels -> ServPcs]
  /\ users \in [Channels -> SUBSET Conns]
  /\ socks \in [Channels -> SUBSET Conns]
  /\ selfdestruct \in BOOLEAN

Init ==
  /\ peer = [c \in Conns |-> "idle"]
  /\ accepted = {}
  /\ mainPc = "accept"
  /\ current = NoConn
  /\ chanOf = [c \in Conns |-> NoChan]
  /\ chanNewusers = [ch \in Channels |-> {}]
  /\ socksDeq = {}
  /\ notifier = {}
  /\ servPc = [ch \in Channels |-> "none"]
  /\ users = [ch \in Channels |-> {}]
  /\ socks = [ch \in Channels |-> {}]
  /\ selfdestruct = FALSE

-----------------------------------------------------------------------------
(* The clients' hosts and the operator.                                    *)

Connect(c) ==
  /\ mainPc \notin {"join", "done", "crashed"}      \* the acceptor still listens
  /\ peer[c] = "idle"
  /\ peer' = [peer EXCEPT ![c] = "connected"]
  /\ UNCHANGED <<mainOwn, shared, servletOwn, selfdestruct>>

(* The connection is torn down (an RST, or the keep-alive option gives up): *)
(* from now on remote_endpoint() throws on the server's socket.             *)
Reset(c) ==
  /\ peer[c] = "connected"
  /\ peer' = [peer EXCEPT ![c] = "reset"]
  /\ UNCHANGED <<mainOwn, shared, servletOwn, selfdestruct>>

(* CTRL+C *)
SignalHandler ==
  /\ ~selfdestruct
  /\ mainPc \notin {"done", "crashed"}
  /\ selfdestruct' = TRUE
  /\ UNCHANGED <<peer, mainOwn, shared, servletOwn>>

-----------------------------------------------------------------------------
(* The main thread.                                                        *)

(* An exception leaves inner_scope_run: run() catches it, sets selfdestruct *)
(* and returns, and the destructor of Server joins the threads.             *)
MainThrows ==
  /\ selfdestruct' = TRUE
  /\ mainPc' = "join"
  /\ current' = NoConn

Accept(c) ==
  /\ mainPc = "accept"
  /\ ~selfdestruct
  /\ peer[c] # "idle"
  /\ c \notin accepted
  /\ accepted' = accepted \cup {c}
  /\ current' = c
  /\ mainPc' = "register"
  /\ UNCHANGED <<peer, chanOf, shared, servletOwn, selfdestruct>>

(* Setting up fails (run), accept() fails with anything but would_block, or  *)
(* the option cannot be set on what it returned.                             *)
AcceptThrows ==
  /\ mainPc = "accept"
  /\ ~selfdestruct
  /\ MainThrows
  /\ UNCHANGED <<peer, accepted, chanOf, shared, servletOwn>>

(* register_session and get_channel_name succeed; the user joins ch. *)
RegisterOk(ch) ==
  /\ mainPc = "register"
  /\ chanOf' = [chanOf EXCEPT ![current] = ch]
  /\ mainPc' = "handoff"
  /\ UNCHANGED <<peer, current, accepted, shared, servletOwn, selfdestruct>>

(* Wrong password: the socket goes out of scope and is closed. *)
RegisterRefused ==
  /\ mainPc = "register"
  /\ mainPc' = "accept"
  /\ current' = NoConn
  /\ UNCHANGED <<peer, accepted, chanOf, shared, servletOwn, selfdestruct>>

RegisterThrows ==
  /\ mainPc = "register"
  /\ MainThrows
  /\ UNCHANGED <<peer, accepted, chanOf, shared, servletOwn>>

(* Mutant: the user is published before the lock is taken, the socket after. *)
UpdateCommStructsUserOnly ==
  /\ mainPc = "handoff"
  /\ peer[current] # "reset"
  /\ chanNewusers' = [chanNewusers EXCEPT ![chanOf[current]] = @ \cup {current}]
  /\ mainPc' = "notify"
  /\ UNCHANGED <<peer, current, accepted, chanOf, socksDeq, notifier,
                 servletOwn, selfdestruct>>

(* Mutant: the user is queued under another channel's name. *)
UpdateCommStructsAnyChannel ==
  /\ mainPc = "handoff"
  /\ peer[current] # "reset"
  /\ \E ch \in Channels :
       chanNewusers' = [chanNewusers EXCEPT ![ch] = @ \cup {current}]
  /\ socksDeq' = socksDeq \cup {current}
  /\ mainPc' = "notify"
  /\ UNCHANGED <<peer, current, accepted, chanOf, notifier, servletOwn, selfdestruct>>

(* The messages read so far are moved over (_end_msgs is looked up with      *)
(* remote_endpoint(), which throws on a reset connection), and user and      *)
(* socket are published under one lock.                                      *)
UpdateCommStructs ==
  /\ mainPc = "handoff"
  /\ peer[current] # "reset"
  /\ chanNewusers' = [chanNewusers EXCEPT ![chanOf[current]] = @ \cup {current}]
  /\ socksDeq' = socksDeq \cup {current}
  /\ mainPc' = "notify"
  /\ UNCHANGED <<peer, current, accepted, chanOf, notifier, servletOwn, selfdestruct>>

HandoffThrows ==
  /\ mainPc = "handoff"
  /\ peer[current] = "reset"
  /\ MainThrows
  /\ UNCHANGED <<peer, accepted, chanOf, shared, servletOwn>>

(* Mutant: the flag is raised only for channels that have a thread. *)
NotifyUpdateExistingOnly ==
  /\ mainPc = "notify"
  /\ notifier' = IF servPc[chanOf[current]] = "none" THEN notifier
                 ELSE notifier \cup {chanOf[current]}
  /\ mainPc' = "spawn"
  /\ UNCHANGED <<peer, current, accepted, chanOf, chanNewusers, socksDeq,
                 servletOwn, selfdestruct>>

(* Notifier::update *)
NotifyUpdate ==
  /\ mainPc = "notify"
  /\ notifier' = notifier \cup {chanOf[current]}
  /\ mainPc' = "spawn"
  /\ UNCHANGED <<peer, current, accepted, chanOf, chanNewusers, socksDeq,
                 servletOwn, selfdestruct>>

(* A channel name that is in _threads keeps the thread it has, dead or      *)
(* alive; a new name is looked up or inserted in the database and gets one. *)
SpawnThread ==
  /\ mainPc = "spawn"
  /\ servPc' = IF servPc[chanOf[current]] = "none"
               THEN [servPc EXCEPT ![chanOf[current]] = "loop"]
               ELSE servPc
  /\ mainPc' = "accept"
  /\ current' = NoConn
  /\ UNCHANGED <<peer, accepted, chanOf, shared, users, socks, selfdestruct>>

(* The database lookup of a new channel fails. *)
SpawnThrows ==
  /\ mainPc = "spawn"
  /\ servPc[chanOf[current]] = "none"
  /\ MainThrows
  /\ UNCHANGED <<peer, accepted, chanOf, shared, servletOwn>>

(* The loop of run() ends ... *)
RunLoopEnds ==
  /\ mainPc = "accept"
  /\ selfdestruct
  /\ mainPc' = "join"
  /\ UNCHANGED <<peer, current, accepted, chanOf, shared, servletOwn, selfdestruct>>

(* ... and ~Server joins every thread. *)
JoinThreads ==
  /\ mainPc = "join"
  /\ \A ch \in Channels : servPc[ch] \in {"none", "exited"}
  /\ mainPc' = "done"
  /\ UNCHANGED <<peer, current, accepted, chanOf, shared, servletOwn, selfdestruct>>

Main ==
  \/ \E c \in Conns : Accept(c)
  \/ \E ch \in Channels : RegisterOk(ch)
  \/ RegisterRefused \/ RegisterThrows
  \/ UpdateCommStructs \/ HandoffThrows
  \/ NotifyUpdate
  \/ SpawnThread \/ SpawnThrows
  \/ RunLoopEnds \/ JoinThreads

-----------------------------------------------------------------------------
(* The thread of channel ch.                                               *)

(* thread_run returns, normally or through its catch: the Servlet and with   *)
(* it every socket it holds is destroyed.                                    *)
ServletExits(ch) ==
  /\ servPc' = [servPc EXCEPT ![ch] = "exited"]
  /\ users'  = [users  EXCEPT ![ch] = {}]
  /\ socks'  = [socks  EXCEPT ![ch] = {}]

(* while (!selfdestruct), then check_newusers *)
CheckNewusers(ch) ==
  /\ servPc[ch] = "loop"
  /\ ~selfdestruct
  /\ servPc' = [servPc EXCEPT ![ch] = IF ch \in notifier THEN "grab" ELSE "serve"]
  /\ UNCHANGED <<peer, mainOwn, shared, users, socks, selfdestruct>>

(* Mutant: the thread only stops once everybody has left. *)
LoopEndsWhenEmpty(ch) ==
  /\ servPc[ch] = "loop"
  /\ selfdestruct
  /\ users[ch] = {}
  /\ ServletExits(ch)
  /\ UNCHANGED <<peer, mainOwn, shared, selfdestruct>>

LoopEnds(ch) ==
  /\ servPc[ch] = "loop"
  /\ selfdestruct
  /\ ServletExits(ch)
  /\ UNCHANGED <<peer, mainOwn, shared, selfdestruct>>

(* grab_new appends the newusers to _users, then walks the whole of          *)
(* _socks_deq, asking every socket there for its remote endpoint.            *)
UsersAfterGrab(ch) == users[ch] \cup chanNewusers[ch]

(* Mutant: the sockets are copied and stay in the shared deque. *)
GrabNewKeepsSocks(ch) ==
  /\ servPc[ch] = "grab"
  /\ UsersAfterGrab(ch) = {} \/ \A s \in socksDeq : peer[s] # "reset"
  /\ users' = [users EXCEPT ![ch] = UsersAfterGrab(ch)]
  /\ socks' = [socks EXCEPT ![ch] = @ \cup (socksDeq \cap UsersAfterGrab(ch))]
  /\ chanNewusers' = [chanNewusers EXCEPT ![ch] = {}]
  /\ servPc' = [servPc EXCEPT ![ch] = "serve"]
  /\ UNCHANGED <<peer, mainOwn, socksDeq, notifier, selfdestruct>>

(* Mutant: the newusers are not taken off the map after they are copied. *)
GrabNewKeepsNewusers(ch) ==
  /\ servPc[ch] = "grab"
  /\ UsersAfterGrab(ch) = {} \/ \A s \in socksDeq : peer[s] # "reset"
  /\ users' = [users EXCEPT ![ch] = UsersAfterGrab(ch)]
  /\ socks' = [socks EXCEPT ![ch] = @ \cup (socksDeq \cap UsersAfterGrab(ch))]
  /\ socksDeq' = socksDeq \ UsersAfterGrab(ch)
  /\ servPc' = [servPc EXCEPT ![ch] = "serve"]
  /\ UNCHANGED <<peer, mainOwn, chanNewusers, notifier, selfdestruct>>

GrabNew(ch) ==
  /\ servPc[ch] = "grab"
  /\ UsersAfterGrab(ch) = {} \/ \A s \in socksDeq : peer[s] # "reset"
  /\ users' = [users EXCEPT ![ch] = UsersAfterGrab(ch)]
  /\ socks' = [socks EXCEPT ![ch] = @ \cup (socksDeq \cap UsersAfterGrab(ch))]
  /\ socksDeq' = socksDeq \ UsersAfterGrab(ch)
  /\ chanNewusers' = [chanNewusers EXCEPT ![ch] = {}]
  /\ servPc' = [servPc EXCEPT ![ch] = "serve"]
  /\ UNCHANGED <<peer, mainOwn, notifier, selfdestruct>>

(* A reset socket anywhere in _socks_deq makes remote_endpoint() throw once  *)
(* there is a user to compare it with.  The newusers are off the map by      *)
(* then, and the sockets moved before the throw die with the Servlet.        *)
GrabThrows(ch) ==
  /\ servPc[ch] = "grab"
  /\ UsersAfterGrab(ch) # {}
  /\ \E s \in socksDeq : peer[s] = "reset"
  /\ \E moved \in SUBSET {s \in socksDeq \cap UsersAfterGrab(ch) : peer[s] # "reset"} :
       socksDeq' = socksDeq \ moved
  /\ chanNewusers' = [chanNewusers EXCEPT ![ch] = {}]
  /\ ServletExits(ch)
  /\ UNCHANGED <<peer, mainOwn, notifier, selfdestruct>>

(* Mutant: remove_trace_of erases sockets without asking whose they are. *)
ErasedForAnyone(ch, left, gone) ==
  left # {} \/ gone = {}

(* remove_trace_of takes a user out of _users and erases the first socket    *)
(* whose remote endpoint is the user's or cannot be had: when a socket of    *)
(* the channel has been reset, the socket erased may be another member's.    *)
ErasedFor(ch, left, gone) ==
  /\ \A s \in gone : s \in left \/ peer[s] = "reset"
  /\ \/ left \cap socks[ch] \subseteq gone
     \/ \E s \in gone : peer[s] = "reset"

(* Mutant: the flag is lowered once the newusers have been dealt with. *)
ServeClearsFlag(ch, left, gone) ==
  /\ servPc[ch] = "serve"
  /\ ErasedFor(ch, left, gone)
  /\ users' = [users EXCEPT ![ch] = @ \ left]
  /\ socks' = [socks EXCEPT ![ch] = @ \ gone]
  /\ servPc' = [servPc EXCEPT ![ch] = "loop"]
  /\ notifier' = notifier \ {ch}
  /\ UNCHANGED <<peer, mainOwn, chanNewusers, socksDeq, selfdestruct>>

(* The rest of a pass: the newusers are announced, messages are read and     *)
(* handled, and the users in left part or are dropped (remove_trace_of).     *)
Serve(ch, left, gone) ==
  /\ servPc[ch] = "serve"
  /\ ErasedFor(ch, left, gone)
  /\ users' = [users EXCEPT ![ch] = @ \ left]
  /\ socks' = [socks EXCEPT ![ch] = @ \ gone]
  /\ servPc' = [servPc EXCEPT ![ch] = "loop"]
  /\ UNCHANGED <<peer, mainOwn, shared, selfdestruct>>

(* The rest of a pass throws: a reset member, an unrecognized message, ... *)
ServeThrows(ch) ==
  /\ servPc[ch] = "serve"
  /\ users[ch] \cup socks[ch] # {}
  /\ ServletExits(ch)
  /\ UNCHANGED <<peer, mainOwn, shared, selfdestruct>>

ThreadRun(ch) ==
  \/ CheckNewusers(ch)
  \/ LoopEnds(ch)
  \/ GrabNew(ch) \/ GrabThrows(ch)
  \/ \E left \in SUBSET users[ch], gone \in SUBSET socks[ch] : Serve(ch, left, gone)
  \/ ServeThrows(ch)

-----------------------------------------------------------------------------
(* Undefined behaviour takes the process down: pop_front() on no messages    *)
(* while a client is being registered, or, in a channel, a lookup of a user  *)
(* or socket that is not there and loops over a container that the handler   *)
(* erases from (Registration.tla and Servlet.tla have these in detail).      *)
Crash ==
  /\ mainPc # "crashed"
  /\ mainPc = "register" \/ \E ch \in Channels : servPc[ch] = "serve" /\ users[ch] \cup socks[ch] # {}
  /\ mainPc' = "crashed"
  /\ current' = NoConn
  /\ servPc' = [ch \in Channels |-> IF servPc[ch] = "none" THEN "none" ELSE "exited"]
  /\ users'  = [ch \in Channels |-> {}]
  /\ socks'  = [ch \in Channels |-> {}]
  /\ chanNewusers' = [ch \in Channels |-> {}]
  /\ socksDeq' = {}
  /\ UNCHANGED <<peer, accepted, chanOf, notifier, selfdestruct>>

Terminated == mainPc \in {"done", "crashed"} /\ UNCHANGED vars

Next ==
  \/ \E c \in Conns : Connect(c) \/ Reset(c)
  \/ SignalHandler
  \/ Main \/ AcceptThrows
  \/ \E ch \in Channels : ThreadRun(ch)
  \/ Crash
  \/ Terminated

(* The operating system runs every thread, neither loop ever sleeps or waits *)
(* for another, and the client that is being registered answers or goes away *)
(* (Registration.tla drops this last assumption).  Nothing makes accept()    *)
(* fail, so AcceptThrows is no part of Main.                                 *)
Fairness ==
  /\ WF_vars(Main)
  /\ \A ch \in Channels : WF_vars(ThreadRun(ch))

Spec == Init /\ [][Next]_vars /\ Fairness

-----------------------------------------------------------------------------
(* Safety.                                                                 *)

InHand == IF mainPc \in {"register", "handoff"} THEN {current} ELSE {}

(* A socket is owned once: by the main thread, by the shared deque or by one *)
(* channel thread.  tcp::socket cannot be copied, so a second owner would    *)
(* hold a moved-from socket and act on it.                                   *)
OneOwner ==
  /\ InHand \cap socksDeq = {}
  /\ \A ch \in Channels : socks[ch] \cap (InHand \cup socksDeq) = {}
  /\ \A ch1, ch2 \in Channels : ch1 # ch2 => socks[ch1] \cap socks[ch2] = {}

(* get_sock_for_user dereferences what it finds without a check.  Every user *)
(* on the map has its socket in the shared deque, so that grab_new moves     *)
(* both; from then on user and socket can be separated only by a reset: a    *)
(* member without a socket has been reset itself, and a socket without a     *)
(* member is left only where some connection of the channel has been reset.  *)
UserComesWithSocket ==
  \A ch \in Channels :
    /\ chanNewusers[ch] \subseteq socksDeq
    /\ \A c \in users[ch] \ socks[ch] : peer[c] = "reset"
    /\ socks[ch] \subseteq users[ch] \/ \E c \in Conns : chanOf[c] = ch /\ peer[c] = "reset"

(* Nobody is queued for, or a member of, a channel it did not name in JOIN,  *)
(* and nobody is both queued and a member: grab_new announces a user once.   *)
RightChannelOnce ==
  \A ch \in Channels :
    /\ \A c \in users[ch] \cup chanNewusers[ch] : chanOf[c] = ch
    /\ users[ch] \cap chanNewusers[ch] = {}

(* No lost wake-up: once the main thread is back in its accept loop, a       *)
(* channel with somebody queued has its flag up and a thread that looks at   *)
(* it, or one that died; and a thread never gets a null flag pointer from    *)
(* Notifier::pass_ptr.                                                       *)
NoLostWakeup ==
  \A ch \in Channels :
    /\ servPc[ch] # "none" => ch \in notifier
    /\ chanNewusers[ch] # {} =>
         \/ ch \in notifier /\ servPc[ch] # "none"
         \/ mainPc \in {"notify", "spawn"} /\ chanOf[current] = ch
         \/ mainPc \in {"join", "done"}

(* A socket stays behind in the shared deque, with no user that would ever   *)
(* claim it, only after the thread of its channel died.                      *)
OrphanOnlyAfterDeath ==
  \A s \in socksDeq : \/ s \in chanNewusers[chanOf[s]]
                      \/ servPc[chanOf[s]] = "exited"

(* The process outlives its threads: ~Server joins them before _socks_deq,   *)
(* _comms_lock and the map, which they hold pointers to, are destroyed.      *)
ThreadsJoinedFirst ==
  mainPc = "done" => \A ch \in Channels : servPc[ch] \in {"none", "exited"}

(* The abstract hand-off: a connection waits, becomes a member, ends. *)
StageOf(c) ==
  IF \E ch \in Channels : c \in chanNewusers[ch] THEN "waiting"
  ELSE IF \E ch \in Channels : c \in users[ch] THEN "member"
  ELSE IF chanOf[c] = NoChan \/ (mainPc = "handoff" /\ c = current) THEN "out"
  ELSE "gone"

RoomOf(c) == IF StageOf(c) \in {"waiting", "member"} THEN chanOf[c] ELSE NoChan

J == INSTANCE JoinSpec WITH stage <- [c \in Conns |-> StageOf(c)],
                            room  <- [c \in Conns |-> RoomOf(c)]

(* Every step of the threads is a step of the abstract hand-off or none. *)
ImplementsJoinSpec == J!Spec

-----------------------------------------------------------------------------
(* The inductive invariant (proved in HandoffProofs.tla).                  *)

(* What the hand-off holds has been accepted, and a connection that is still *)
(* in the main thread's hands is nowhere else and, while it is registering,  *)
(* has no channel.                                                           *)
Fresh ==
  /\ socksDeq \subseteq accepted
  /\ \A ch \in Channels : users[ch] \cup socks[ch] \subseteq accepted
  /\ \A c \in Conns \ accepted : chanOf[c] = NoChan
  /\ mainPc \in {"register", "handoff", "notify", "spawn"} => current \in accepted
  /\ mainPc = "register" => chanOf[current] = NoChan
  /\ mainPc \in {"handoff", "notify", "spawn"} => chanOf[current] \in Channels
  /\ mainPc = "handoff" => \A ch \in Channels : current \notin users[ch] \cup socks[ch]

(* A socket belongs to a connection that has named its channel. *)
SocksHaveChannel ==
  /\ \A s \in socksDeq : chanOf[s] \in Channels
  /\ \A ch \in Channels : \A s \in socks[ch] : chanOf[s] = ch

FlagBeforeThread == mainPc = "spawn" => chanOf[current] \in notifier

IInv ==
  /\ TypeOK
  /\ OneOwner
  /\ UserComesWithSocket
  /\ RightChannelOnce
  /\ NoLostWakeup
  /\ OrphanOnlyAfterDeath
  /\ ThreadsJoinedFirst
  /\ Fresh
  /\ SocksHaveChannel
  /\ FlagBeforeThread

-----------------------------------------------------------------------------
(* Liveness.                                                               *)

(* Somebody on the map is taken in, unless the thread of the channel dies    *)
(* or the server goes down.                                                  *)
QueuedIsGrabbed(c, ch) ==
  c \in chanNewusers[ch] ~>
    (c \in users[ch] \/ servPc[ch] = "exited" \/ selfdestruct \/ mainPc = "crashed")

(* CTRL+C, or a failure of the main thread, ends every thread and the        *)
(* process.                                                                  *)
ShutdownCompletes == selfdestruct ~> mainPc \in {"done", "crashed"}

(* "users can enter chat rooms (which will be created if one doesn't exist   *)
(* already)": whoever is on the map gets in while the server is up and its   *)
(* connection holds.  Not so: a channel thread that dies takes the newusers  *)
(* it has just copied with it, its entry stays in _threads, and whoever      *)
(* joins later waits in a queue that nobody looks at again.                  *)
RoomCanBeEntered ==
  \A c \in Conns, ch \in Channels :
    c \in chanNewusers[ch] ~>
      (c \in users[ch] \/ selfdestruct \/ mainPc = "crashed" \/ peer[c] = "reset")

=============================================================================
