# Chit in TLA+

A model of the chat server in this repository: its threads, the queues between
them, what a channel does with its members, and the places where a connection,
the database or the code itself fails. The modules are checked with TLC on small
instances; the safety of the hand-off between the threads, of the registration of
clients, of the channel thread and of the clients, the atomicity of the database
calls, what split makes of a stream of bytes and what becomes of the configuration
are proved with TLAPS for any number of servers, clients, channels and programs and
any bytes and documents. Every invariant of a passing run is a
theorem, five of those of the channel thread under a hypothesis that the code may break.

Paths below are relative to the repository; `server/` stands for `src/server/`,
`shared/` for `src/shared/`, `client/` for `src/client/`.

## 1. The system

| component | source | state | operations |
|---|---|---|---|
| Server | `server/Server.*`, `Notifier.*` | `_end_msgs`, `_chan_newusers_map`, `_socks_deq`, `_comms_lock`, `_notify_of_newusers`, `_threads`, `selfdestruct` | accept, register_session, get_channel_name, update_comm_structs, notify, start a thread, stop |
| Servlet, one per channel | `server/Servlet.*` | `_users`, `_socks`, `_end_msgs`, `_channel_topic`, one database connection | grab_new, handle_newusers, update_endmsgs, handle_priv, handle_topic, handle_part, remove_trace_of |
| sockio | `shared/sockio/` | none (the caller's message list) | split, try_reading_from_sock, update_sockmsgs, try_writing_to_sock |
| Client | `client/` | `_sock_msgs`, `_channel_name`, `_channel_topic`, the channel of `_user` | register, connect_to_channel, the loop of run, EXIT, LEAVE, TOPIC |
| chitter | `shared/chitter/` | the tables of the database | users, logins, channels, chat log, roles, friends; the same with a connection per call |
| configUtils | `shared/configUtils/` | none | loadDbConfig, loadServerConfig |
| status and roles | `shared/status.h`, `User.h` | none | getStatusString, getStatusEnum |

How they interact. The main thread accepts one connection at a time and
registers its user, reading from the socket without a time-out and using the
database. Under `_comms_lock` it queues the user by channel and the socket in one
deque for all channels; it raises the flag of the channel, and for a new channel
name starts a thread. The thread of the channel looks at its flag in each pass
(the flag is never lowered), takes its users and sockets from the shared
structures under the same lock, announces the newusers, reads from every socket
what is available, and broadcasts, logs and applies the messages. Nothing but
`selfdestruct` goes back from the channels to the main thread. A client is
single-threaded: between two lines of input it neither reads nor writes. It
knows the replies to its registration and its JOIN by their place in the stream
only, in the same deque in which it later finds what the others say. The server
holds one database connection and each channel thread one of its own; every
function of chitter is one or more transactions on it.

What is hard: the unlocked window between queueing, flag and thread; exceptions
that leave half of an update done (`remote_endpoint()` throws on a connection
that has been reset, anywhere); users and sockets kept in two containers; users
erased from a container that a caller is iterating over; writes that block and
reads that wait for ever; the order of memory, database and broadcast.

## 2. The plan

1. `JoinSpec`, `Handoff`, `HandoffProofs`: the hand-off between threads, its
   abstract specification, and the proofs.
2. `Servlet`: the channel thread with its clients and its database rows; its proofs
   `ServletProofs` and `ServletOrderProofs`, with `QueueLemmas`.
3. `Registration`, `RegistrationProofs`: the main thread reading from a client that
   answers, does not answer or goes away; the user table; several servers on one
   database; the proofs.
4. `SockIO`, `SockIOProofs`: how the bytes of a connection become messages; the
   proofs.
5. `Client`, `ClientProofs`: registering, joining, switching channels, and what a
   line that cannot be parsed does; the proofs.
6. `Chitter`, `ConfigUtils`, `ChitterProofs`: the rest of the database functions,
   friends and roles; how the configuration is read; the proofs, also that calls are
   atomic.
7. What is left: `Servlet` and `Registration` as implementations of something more
   abstract, and two servers of one name in one channel.

Items 1 to 6 are here. Of item 7, a channel as one sequence of events that every
member sees a stretch of would say of `Servlet` what `OneConversation`,
`InSendersOrder` and `GreetedFirst` say now, and a table of nicks that only ever grows is
`SpecNickHasOnePassword` and `SpecFirstPasswordStays` of `Registration`. The composition
that is missing is two channel threads of one server name on one database, whose
topic rows may disagree with what they hold in memory.

## 3. The modules

### Handoff

`Handoff.tla` has one action per critical section or step that another thread can
observe: `Accept`, `RegisterOk`, `UpdateCommStructs`, `NotifyUpdate`,
`SpawnThread` of the main thread (`inner_scope_run`), and `CheckNewusers`,
`GrabNew`, `Serve`, `LoopEnds` of each channel thread (`thread_run`). Failures are
actions of their own: `HandoffThrows`, `GrabThrows`, `ServeThrows` where the
code throws, `Crash` where it has undefined behaviour. Connections are named by
their remote endpoint, the key the code matches users and sockets with. What
happens inside registration and inside the serving part of a pass is an
outcome here (`RegisterOk`/`RegisterRefused`/`RegisterThrows`, and any set of
users and sockets that `remove_trace_of` can remove).

`JoinSpec.tla` is what all of it promises: a connection asks for a channel,
waits, is admitted to that channel with everybody else who waits, and ends for
good. `Handoff` implements it (`ImplementsJoinSpec`) under the mapping
`StageOf`/`RoomOf`.

### Servlet

`Servlet.tla` is one channel thread in the steps a client can tell apart:
looking a socket up and writing to it are two steps, because the connection may
be reset in between; reading all sockets is one, because clients only touch
their own. A broadcast is a list of what the range-for over `_users` has still to
visit (`loop`), so that a user who is removed in the middle of it is modelled as
what the iteration does next: either the loop goes on as a libstdc++ deque lets
it (`AfterErasing`), or the process does not survive (`Crashes`).
The clients send, part, are killed or reset; a `PRIVMSG` or a topic is a number.

Where the code has undefined behaviour (`*` of the end of a container), the
thread dies of an exception, the process crashes, or, where the loop over
`_users` goes on after an erase, the loop does what libstdc++ makes of it. That
`HandleMsgOfNobody` goes on with what is left of another user is not modelled.

### Registration

`Registration.tla` has one action per line read, per database transaction and per
reply of `register_session`, `get_channel_name` and the rest of
`inner_scope_run`, for several servers of one name on one database: `TryReading`,
`HandleUser` (`checkUserExists`), `VerifyPassword`, `InsertUser`, `InsertLogin`,
`Welcome`/`Refuse`, `Publish`, `CheckChannel`, `GetChannelTopic`, `InsertChannel`,
`StartThread`, and at start-up `HandleServer`, `InsertServer`,
`InsertServerMetadata`. A check and the insert that follows it are two
transactions and two steps; an insert that meets the other server's row throws
(`InsertThrows`). Every exception ends the server, as in `run`.

`TryReadingNothing` is `front()` of an empty deque: the process crashes, the
read throws, or it returns a line that was read earlier from any connection
(`LeftOver`), which `register_session` then takes for the next line of this one.

The client sends NICK, USER and PASS one after the other and JOIN after
`RPL_WELCOME`, as `Client.cpp` does. The tables are `passwords` (Users), `logins`
(UserMetaData), `serverRow`, `metadata` and `chanRows`; their keys are those of
`chit_er_diagram.xml`.

### SockIO

`SockIO.tla` is one direction of one connection. The writer appends messages with
their CR LF (PASS with two of them); TCP makes any prefix of what is under way
available (`Arrive`); the reader polls (`UpdateSockmsgs`) or waits (`TryReading`),
gets at most a buffer, cuts it at CR LF (`Split`, a recursive function on the
offset, as the loop of `split` has it) and keeps what is not empty.
`std::string(buff.data())` ends at the first NUL (`CString`): a read that fills
the buffer leaves none, and the string may go on with a stray byte behind the
array. A text has no NUL and no CR LF in it and is not empty (`TextsAssumption`:
every message has a command, and what a user types is a line), and `split` is used
with CR LF only.

### Client

`Client.tla` has the clients with their users, and the server in the large: one
action per line that the server takes up, with everything that is written
because of it, on top of what the server modules show of the steps in between.
A client is where `run` is (`pc`): `Start`, `ReadWelcome`, `JoinChannel`, then the
four replies of `connect_to_channel` (`ReadReply`), and the loop (`Update`, then
what the user does: `PressEnter`, `Type`, `Exit`, `Leave`). A line of input and the
`update` after it are one step, because nobody can tell them apart. A connection
is named by its client and the number of its session; what has been written to
it (`told`) and how much of that is read (`read`) are kept, so that properties can
speak about what is still to come.

A blocking read takes the lines that have arrived, any number of them, and keeps
the rest in `sockMsgs`, exactly where the next pass of the loop shows them.
`ReadNothing` is `front()` of no messages when the server has closed: the client
crashes, throws (`parts[3]`), or goes on with what it takes for a line. A line
`parse_session_msg` does not know ends `run`; lines of a user in `Odd`, whose nick or
login is not made of word characters, are such lines. `client_code switching`
does not look at the reply to the user info, so `ReadWelcome` goes on with a refused
second session.

### ConfigUtils, Tables, Chitter and ChitterSpec

`ConfigUtils.tla` has the functions of configUtils as operators on a document:
`LoadDbConfig`, `LoadServerConfig`, `ToString`; and `ConnectionString` of `initiate` with
libpq's reading of it (`ConninfoParse`), character by character where blanks and
keywords are the only characters that matter. A document that can be loaded has
children with texts (`DocumentsAssumption`).

`Tables.tla` has each SQL statement as an operator that gives the next database
and the value returned, or `Threw`: a missing row behind `RESULT[0]`, a row that is
there already, a reference to a row that is not. The schema is not in the
repository; the keys are those of `chit_er_diagram.xml`.

`Chitter.tla` runs them: a program makes a call (`Call`, or `CallWrapper` for the
functions of `convenienceFuncs.h`, which load the configuration and connect
first), and each transaction of it is a step: `OneStatement`, or `CheckUser`,
`VerifyUser`, `InsertNewUser` of `handleUser`, `CheckServer`, `InsertNewServer` of
`handleServer`, `GetCurrentDatetime` and `InsertWithTime` of those that stamp a row.
`Breaks` loses the connection in any of them, with the transaction rolled back or
committed. `ChitterSpec.tla` says what a caller may rely on: the call takes effect
at one moment with a time between call and return; a call that breaks off has
done nothing or all, or put in the server row; `handleUser` and `handleServer` throw
only if somebody else has added the row since the call was made.
`CallsAreAtomic` is the refinement.

## 4. The runs

| run | instance | distinct states | shows |
|---|---|---|---|
| `handoff` | 3 connections, 2 channels | 519 thousand | the safety of the hand-off, its inductive invariant `IInv`, that it implements `JoinSpec`; a queued user is taken in or its thread or the server ends; a shutdown completes |
| `handoff_rooms` (violation) | 2 connections, 1 channel | 3 thousand | a channel whose thread has died can never be entered again |
| `servlet` | 3 clients, one leaver, 2 messages, all faults | 814 thousand | order, greeting, topic, membership, history |
| `servlet_live` | 3 clients, two leavers, one that need not read, 1 message, resets | 543 thousand | greeting and handling under fairness, unless a write blocks on the member that does not read; views with two broken connections, when `remove_trace_of` may erase another's socket |
| `servlet_leaving` (violation) | 2 clients, one leaver, no faults | 200 | LEAVE alone ends the channel for everybody |
| `registration` | 2 servers, 2 clients of one nick, all faults, symmetric | 3.6 million | who gets in, and which rows are there when |
| `registration_live` | 1 server, 3 clients, one may be silent | 11 thousand | everybody is answered and CTRL+C works unless the silent client keeps the accept loop |
| `registration_hash` (violation) | 1 server, 2 clients, one digest that does not fit | 1 thousand | `hashPassword` throws and takes the server with it |
| `sockio` | buffer of 5, 2 writes | 1.1 million | what arrives is what was sent if reads end where writes did, its text in order in any case |
| `sockio_whole` (violation) | buffer of 5, 2 writes | 200 | a message that a read cuts becomes two that nobody sent |
| `client` | 2 clients, 2 channels; one switches once and types a line per session, the other has an odd nick; refusals, the server may stop | 590 thousand | replies in place, nothing lost or doubled, topics and channel names agree, members are there, clients fail for a reason and get to chat |
| `chitter` | a server with one call, a program with two, every function, 2 databases, 40 documents | 590 thousand | calls are atomic (`ChitterSpec`), friends are mutual, what is loaded is complete and what is connected to is what the configuration names |

Why the bounds are enough. Three connections and two channels let a user be
queued while another of the same channel is being taken in and a third is
handed to another channel; the theorems of section 6 cover every other number.
Three clients of a channel are a sender, a member that sees the message and one
that leaves or breaks in the middle of it; two messages are needed for an order.
There is one effect of erasing from `_users` that three members cannot show, and
neither can four, which is proved (`SmallChannels`): `AfterErasing` skipping a user.
With five it breaks three of the properties (see the findings). Two servers
and two clients are a race for one row. In `client`, a session is long enough to be
greeted, to type and to leave; the second session meets what the first has left
behind, at the client and at the server; the odd nick is the one thing that ends
a client whose server is well. In `chitter`, two programs are a race for a row, one of
them may make a second call to see what the first has left, and the clock ticks
once between fetching a time and using it. A buffer of five bytes is filled by a
message of three with its CR LF, and can end between the CR and the LF.

`CHECK_DEADLOCK FALSE` is set where the system may stop: every server has ended
(`Registration`, `SockIO`), a thread is blocked for good (`servlet_live`), every client
has ended (`client`), or every program has made its calls (`chitter`).

Findings. The four violation runs are places where the code does something else
than the repository says: the quotations are in PROJECT.json. Others met on
the way are in the models but in no run of their own: a reset socket queued for one channel
ends the thread of another that looks for its own newusers (`GrabThrows`); a
message is read by members before it is in the database, and an exception in
the middle of the broadcast leaves it out (`LogPriv` comes last); of two servers
of one name that start at once, one stops without its row in ServerMetadata
(`InsertThrows`, and `Overtaken` of `ChitterSpec`); with five
members or more, a failed write in the middle of a broadcast erases from the
`_users` that the range-for is iterating over (`Servlet.cpp:18-23`), and if the user
stands in the second half of the deque and two more are to be visited, the loop
skips the next member and visits the last one twice: one member misses the
message, and another has it twice (TLC, from a channel of five, finds
`OneConversation`, `InSendersOrder` and `TopicsAgree` violated within 14 to 30 steps;
up to four members they are proved); a member that does not read blocks the
thread in `asio::write`, and everybody else with it, though README.md:15-16 speaks of
minimal delay (`Stalled` of `Servlet`); the client warns of three reserved characters
(`Client.cpp:42-44`), but any character outside `\w` in a nick ends every client that
reads a line of its owner (`Parses`); `loadDbConfig` takes six elements for all six
fields (`ReadField`), and an empty field makes libpq take the next keyword for its
value (`ConninfoParse`), which is why `ConnectsAsConfigured` has the
conditions it has; `loadSetup` returns a node of a document it destroys (`Load`);
`checkAlreadyFriends` asks for one order of the two users only, so that both orders
may be inserted (`AreFriends`); the ER diagram has roles "Normie" and "Super" that
`getStatusEnum` throws at (`GetServerRoles`); the loop of the client asks only how
much there is to read and does not notice that the server has closed, so its user
may go on typing for nobody (`Update`).

## 5. Fairness

`Handoff`: the main thread and each channel thread are weakly fair: the operating
system runs them, and no loop sleeps. Registration is one step of the main thread
here, so this includes that the client being registered answers or goes away;
`Registration` drops that assumption for `Silent` clients. Nothing is assumed of
connecting, resets or CTRL+C, and `accept()` need not ever fail.
`Servlet`: the thread is weakly fair; a write is disabled when the connection is
full, so that a member that does not read may hold it up. Nothing is assumed of
the clients. `Registration`: the main threads are weakly fair, and so is each
client that is not `Silent`, since `Client.cpp` sends its lines without waiting for
anything but the server; without that the server would wait for it for ever,
which is what `Kept` states. `Client`: the accept loop is weakly fair, some channel
thread is, and some client is whose user goes on typing, since the accept loop
waits at a client's channel prompt; that every line is bounded makes the weaker
form (some thread, some client) enough. `SockIO` and `Chitter` have no liveness: a
program of `Chitter` may stop making calls.

## 6. The proofs

`HandoffProofs.tla` proves, for any sets `Conns` and `Channels`, from the two
assumptions that `NoConn` and `NoChan` are no members of them:

- `SpecTypeOK`, `SpecOneOwner`, `SpecUserComesWithSocket`, `SpecRightChannelOnce`,
  `SpecNoLostWakeup`, `SpecOrphanOnlyAfterDeath`, `SpecThreadsJoinedFirst`: the
  safety of the hand-off; the run `handoff` checks the first and the last of them as
  conjuncts of `IInv` only;
- `SpecImplementsJoinSpec`: every step of the hand-off is a step of `JoinSpec` or
  a stutter under the mapping.

All of them follow from the inductive invariant `IInv` (`SpecIInv`), which TLC
checks too. It is the conjunction of the properties and of three facts they
need. `Fresh`: what is not accepted yet is nowhere, and the connection in hand
is registered, has no owner and, from the hand-off on, a channel; without it `UpdateCommStructs`
could queue a user twice. `SocksHaveChannel`: a socket in the deque or with a
thread belongs to a connection that has named its channel; `OneOwner` is not
inductive without it, because `GrabNew` takes sockets by their users.
`FlagBeforeThread`: when the main thread is about to start a thread, the flag is
up already; `NoLostWakeup` needs it at `SpawnThread`. The proof has one lemma per
action, and under it one step per conjunct the action can disturb.

`RegistrationProofs.tla` proves, for any servers, clients, nicks, passwords and
channels and whatever `Silent`, `Faults` and `Unhashable` are, from the assumption
that `None` is none of the values it stands in for (`NoneAssumption`):

- `SpecRegistersWhoAsked`, `SpecWelcomeAfterLogin`, `SpecRowBeforeThread`: what the run
  `registration` checks on two servers and two clients;
- `SpecNickHasOnePassword` and `SpecFirstPasswordStays`: however many servers insert
  a nick at the same time, its password is that of one of them, and stays; these
  are stated in `Registration.tla` and need no run of their own;
- `SpecTypeOK`, which includes that nobody is told two answers.

Here the invariant is about order. `InOrder` counts the lines: what a client has
sent is what has been taken of it, what waits in `_end_msgs` and what is on the
wire, each at its place in the script NICK, USER, PASS, JOIN; `AsAsked` follows
from it line by line (`TryReadingStep`), as long as the client is there: at the end
of a stream the code may take anything for a line (`TryReadingNothing`), and the
conjuncts about the content of lines say so in their premise. `LoginVerified` carries
what was compared or inserted from the transaction to the reply, across the inserts
of the other servers (`RowsStay`); `ToldOnce` makes the reply the first; `QueuedFirst`
carries the row of a channel to the thread that is started for it. `InHand` keeps
two servers from having one connection, and `NothingBefore` keeps a connection from
moving to another server.

### The channel thread

`ServletProofs.tla` proves, for any number of clients and messages, with every
client a leaver and all faults or none, from `ConnsAssumption` and `BoundsAssumption`
of `Servlet.tla`:

- `SpecTypeOK`; `SpecErasesAMember`: `remove_trace_of`, which erases what `find_if`
  returns without a look at `end()`, is only called for users that are in `_users`;
- `SpecOnlyResetsSeparate`, `SpecLogFollowsDelivery` and `SpecTopicIsDurableFirst`: what the
  runs `servlet` and `servlet_live` check on three clients.

The invariant `IInv` follows a message. `PendingOK` and `Distinct` give everything a
client has said one place between its sender and the log, be it on the wire, in
`_end_msgs` or in hand; `DeliveredOK` says that of what has been delivered nothing is
on its way any more, so that `LogOK` holds: a message is logged once and nothing
that was delivered is missing. `LoopOK` says whom the loop over `_users` may still
have to visit, and `ErasesAMember` needs it; `Places`, `Phases` and `RepliesOK` tie the
queues and the local variables to the point the pass is at; `Memory` ties the topic
to its row.

`ServletOrderProofs.tla` is about what the members see. Its theorems have a
hypothesis, because the code breaks them without it (section 4): `Undisturbed`, that
the user a failed write erases does not move the iterators of the loop.
`Spec /\ []Undisturbed => []...` is proved for

- `OneConversation` and `InSendersOrder`, and, in the second half of the module, for
  `GreetedFirst`, `ViewsAgree` and `TopicsAgree`;
- `SmallChannels`: the hypothesis holds of every behaviour in which the channel has
  at most four members at a time, whatever is reset and when. `FourMembers` puts
  the two together. It also holds, for any number of members, where no connection
  is ever reset.

`OInv` adds to `IInv` that the loop is `Aligned` (what is left of it is the rest of
`_users`), that what is being delivered is the newest a member has (`NewestLast`, so
that nobody can have seen something after it that others saw before), that who has
still to be visited has not had it (`NotYet`), and that what a member has of one
sender is `Ranked` by the sender's numbers. `VInv` adds how far the greeting of a
client has got (`Progress`) and what it knows by then: `Knows` and `Forgets` relate
the view of a member to `_users` in the middle of a broadcast, where they differ by
the message in hand; `NamesOK` is the same for the list of names while it is being
collected; `PartsLast` is why nobody comes back that has parted; `Shown` is the topic.
At the end of the pass these become the properties. `QueueLemmas.tla` has what the
proofs need of `push_back`, `pop_front` and `erase` on queues in which nobody is
twice. All three invariants were checked with TLC on the instances of `servlet` and
`servlet_live` before they were proved.

### The database calls

`ChitterProofs.tla` proves, for any programs, calls, databases and configurations:

- `SpecCallsAreAtomic`: `Chitter` implements `ChitterSpec`;
- `SpecFriendsAreMutual`, from `FriendsOf`, which says what `fetchFriends` gives for any
  table of friends;
- `SpecConnectsAsConfigured`: a section with every field once is taken, and libpq gets
  from the connection string what the section says last of user, host, password
  and database.

The assumptions of the first two are in `Chitter.tla`: a database has all its tables and a row or
none for every user (`DatabasesAssumption`); a call is of a function that there is,
with a user and a text where it writes to the table of users (`CallsAssumption`); NULL
is no row and an exception no result (`NoValueAssumption`); TLC evaluates them in the
run `chitter`. What carries the proof is `Keeps`: no function of the library deletes
a user or a server, so that what one transaction of a call has seen and the next
relies on is still so, whatever the others do in between (`RowsOK`), and a row that
is in the way of an insert must have come since the call was made (`missing`). Each
last transaction is the moment at which the whole call takes effect (`OutcomeIs`,
`ReturnsMaps`); for those with a time, the time fetched is one between the call and
its return (`InTime`).

The third is about operators: nothing that a program does changes `config`
(`ConfigStays`), so it is a fact about every document (`ConfigOK`), from
`DocumentsAssumption` and from `NoResultAssumption` of `ConfigUtils.tla`, which says that
`Throws`, `NoNode` and `Blank` are nothing else. `ToString`, `ReadFields` and `ConninfoParse`
are folds; `FoldExists` gives for each of them the sequence of the states it comes
to, by induction over the numbers for which there is one. Along those, a field is
what its last element gives (`LastGiven`), and where no field is given twice the
counter is the cardinality of the set of fields given, so that the test for six is a
test for all (`CountIs`). `ToStringIs` has that no setting contains a blank, and
therefore libpq ends a value nowhere but where `initiate` has put the next keyword
(`ValueIs`, `NextOption`): the concatenation without quotes is taken apart as it was put
together (`ConnectsWith`), as long as no value is empty.

### The bytes of a connection

`SockIOProofs.tla` proves every property of the run `sockio`, for any texts, any size of
the buffer and any number of writes: `SpecSplitRoundTrip`, `SpecAlignedIsExact`,
`SpecTextIsKept` and `SpecUndefinedOnlyAtEndOrCut`. The assumptions are in `SockIO.tla`: CR,
LF, NUL and the stray byte are different (`BytesAssumption`), the buffer has room
for a byte (`BuffAssumption`), and `TextsAssumption`.

Half of the module is about `split` itself. Its loop is a recursive function of the
offset, which `SplitExists` shows to exist and `SplitParts` evaluates from the last
offset down (`CountDown`): the parts have no CR LF in them and with CR LF between
them make the whole again, for any bytes. `SplitBehind` and `PiecesThen` say that bytes
which end where a line ends can be split on their own: the pieces of the two halves
are the pieces of the whole. That a read may stop there and nowhere else is what the
condition of `AlignedIsExact` asks for.

The invariant `SInv` relates the three places where bytes are. `WritesEnd` has, of
everything that was written, that at each place where a write has ended a line has
ended too (`Marks`); `Exact` that, as long as no read has cut anything, what has been
received followed by the pieces of what is still under way is what was sent. Of
the text, without CR, LF and the stray byte, the same holds whatever was cut, since
the pieces of a chunk lose nothing else (`EachConcat`).

### The clients

`ClientProofs.tla` proves every property of the run `client` but the liveness, for
any clients, channels, sessions and lines, whoever is in `Odd` and whatever is in
`Faults`: `SpecTypeOK`, `SpecRepliesInPlace`, `SpecHearsEveryWord`, `SpecTopicIsCurrent`,
`SpecNamesItsChannel`, `SpecMembersAreThere` and the action property
`SpecFailsForAReason`. The assumptions are in `Client.tla`: the bounds are numbers and
a client may open one connection at least (`BoundsAssumption`), and `None` is neither
a channel nor a connection (`NoneAssumption`).

None of these is inductive. What carries them is the way of a connection:
`Places` has it wait for the accept loop, be served by it, wait in `newusers` or be a
member, each of them excluding the others, with the lines it may have under way
there; `Links` and `Starts` tie that to the client (an open connection is the one its
client has now). `Shape` says what the first five lines a connection is told are,
and that only chat comes after them; `Tracks` that a client which has taken so many
lines (`At`) is at the reply of that number, and has shown what came after the
fifth, or that it is `Lost`: the server has closed, everything is read, and the client
goes on with what it takes for lines. Replies are in place because of these two.
`Said` numbers what a member has under way, and `Heard` relates for each two
connections what the one was told of the other (`Words`) to what the other still has
under way (`UpTo`), for as long as both are in a channel; that nobody has heard of who
is not in yet (`Unheard`) makes the first line of a session the beginning. `Current`
has, in all a member was told, a last topic, which is that of the channel, and
the last one taken up is the one the client has stored.

The proof first says of each action what it does to one client and to each
connection (`Opens`, `Ends`, `Reads`, `Shows` and so on for the client, `Registers`,
`Greets`, `Speaks`, `Parts` for the server), with the types; then each part of the
invariant has a lemma for each of these; `ClientKeeps`, `MainThreadKeeps`, `StopsKeeps`
and `ThreadKeeps` put them together. The invariant was checked with TLC before.

### How induction is done, and what is not proved

The induction theorems of the library take a predicate, which the provers cannot
instantiate. `CountUp` of `QueueLemmas.tla` is the same for a set of numbers, and `GrowSeq`
and `CountDown` of `SockIOProofs.tla` rest on it; so recursive functions and folds are
within reach here, one existence lemma for each.

Liveness is not proved: temporal reasoning under fairness and ENABLED are out of the
prover's reach, and the liveness properties of section 5 are checked with TLC only.
The order and view properties of a channel with five members and more in which
connections are reset are not theorems: they are false.

## 7. What is not modelled

Argument parsing in the two `main.cpp`, the build files and scripts. Of the modelled
parts: the texts of replies and prompts, the real name, printing (`print_`,
`printResult`, `operator<<` of `Status`), names with a colon, which the client cuts the
replies at; the name and the memory of a `User` beyond its fields; XML parsing itself.
Columns that are neither keys nor read back by the program are left out of the
database, and so is that the node `loadSetup` returns may read as anything: it reads
as it did, or nothing usable is read. In `Client`, steps inside the server and
database failures are those of the server modules; a reset that is not the
consequence of a client's closing is in `Handoff` and `Servlet`. The row of a topic
that two servers of one name change is in no module (the plan, section 2).
