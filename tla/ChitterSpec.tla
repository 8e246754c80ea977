---------------------------- MODULE ChitterSpec ----------------------------
(***************************************************************************)
(* What a caller of chitter may rely on, with no transactions in sight: a  *)
(* call takes effect and returns at one moment after it was made, and the  *)
(* time it stamps a row with lies between the two.  Only handleServer may  *)
(* put the row of its server in first.                                     *)
(*                                                                         *)
(* A call may break off for lack of a connection; then it has done nothing *)
(* or all, or, if it is handleServer, the first part.  Apart from that it  *)
(* throws only if the row it asks for is not there or the row it adds is,  *)
(* and handleUser and handleServer, which look first, only if somebody     *)
(* else adds the row after the call has been made.                         *)
(***************************************************************************)
EXTENDS Tables

CONSTANTS
  Programs,    \* processes that use the library
  Calls,       \* Calls[p]: the calls p may make
  Databases,   \* what may be in the database at first
  MaxTime,     \* bound on the clock of the database
  NoCall,      \* no call in progress
  Broken       \* the value of a call that has broken off

VARIABLES
  db,       \* the tables
  clock,    \* CURRENT_TIMESTAMP
  call,     \* call[p]: the call p has made, or NoCall
  value,    \* value[p]: what its last call has returned
  since,    \* since[p]: when it was made
  missing   \* missing[p]: the row was not there then, and p has not added it

callVars == <<db, clock, call, value, since, missing>>

(* The row that handleUser and handleServer look for. *)
RowMissing(k) ==
  \/ k.f = "handleUser" /\ ~UserExists(db, k.user)
  \/ k.f = "handleServer" /\ ~ServerExists(db, k.server)

HandleUser(k) ==
  IF UserExists(db, k.user) THEN VerifyPassword(db, k.user, k.text)
  ELSE [InsertUser(db, k.user, k.text) EXCEPT !.value = TRUE]

HandleServer(k, t) ==
  InsertServerMetadata(IF ServerExists(db, k.server) THEN db ELSE InsertServer(db, k.server).db,
                       k.server, t)

(* The whole of call k at one moment, with the time t. *)
Outcome(k, t) ==
  CASE k.f = "handleUser"   -> HandleUser(k)
    [] k.f = "handleServer" -> HandleServer(k, t)
    [] k.f \in Stamped      -> StampedInsert(db, k, t)
    [] OTHER                -> Statement(db, k)

Init ==
  /\ db \in Databases /\ clock = 0
  /\ call = [p \in Programs |-> NoCall] /\ value = [p \in Programs |-> NULL]
  /\ since = [p \in Programs |-> 0] /\ missing = [p \in Programs |-> FALSE]

Make(p, k) ==
  /\ call[p] = NoCall
  /\ call' = [call EXCEPT ![p] = k] /\ value' = [value EXCEPT ![p] = NULL]
  /\ since' = [since EXCEPT ![p] = clock] /\ missing' = [missing EXCEPT ![p] = RowMissing(k)]
  /\ UNCHANGED <<db, clock>>

Ends(p, v) ==
  /\ call[p] # NoCall
  /\ call' = [call EXCEPT ![p] = NoCall] /\ value' = [value EXCEPT ![p] = v]
  /\ since' = [since EXCEPT ![p] = 0] /\ missing' = [missing EXCEPT ![p] = FALSE]
  /\ UNCHANGED clock

Returns(p) ==
  \E t \in since[p]..clock :
    Ends(p, Outcome(call[p], t).value) /\ db' = Outcome(call[p], t).db

RowFirst(p) ==
  /\ call[p] # NoCall /\ call[p].f = "handleServer" /\ RowMissing(call[p])
  /\ db' = InsertServer(db, call[p].server).db
  /\ missing' = [missing EXCEPT ![p] = FALSE]
  /\ UNCHANGED <<clock, call, value, since>>

Overtaken(p) ==
  /\ call[p] # NoCall /\ missing[p] /\ ~RowMissing(call[p])
  /\ Ends(p, Threw) /\ UNCHANGED db

BreaksOff(p) ==
  /\ Ends(p, Broken)
  /\ \/ UNCHANGED db
     \/ \E t \in since[p]..clock : db' = Outcome(call[p], t).db
     \/ call[p].f = "handleServer" /\ db' = InsertServer(db, call[p].server).db

Tick == clock < MaxTime /\ clock' = clock + 1 /\ UNCHANGED <<db, call, value, since, missing>>

Next ==
  \/ \E p \in Programs :
       \/ \E k \in Calls[p] : Make(p, k)
       \/ Returns(p) \/ RowFirst(p) \/ Overtaken(p) \/ BreaksOff(p)
  \/ Tick

Spec == Init /\ [][Next]_callVars

=============================================================================
