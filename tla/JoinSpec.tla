------------------------------ MODULE JoinSpec ------------------------------
(***************************************************************************)
(* What the hand-off between the accepting thread and the channel threads  *)
(* promises, with no queue, flag, lock or thread in sight: a connection    *)
(* asks for one channel, waits, becomes a member of that very channel      *)
(* together with everybody else who is waiting for it, and leaves for      *)
(* good.  Handoff.tla is shown to implement this specification.            *)
(***************************************************************************)
CONSTANTS
  Conns,      \* connections, named by the remote endpoint that identifies them
  Channels,   \* channel names
  NoChan      \* "no channel"

VARIABLES
  stage,      \* stage[c]: how far connection c has come
  room        \* room[c]: the channel c waits for or is a member of

joinVars == <<stage, room>>

Stages == {"out", "waiting", "member", "gone"}

Waiting(ch) == {c \in Conns : stage[c] = "waiting" /\ room[c] = ch}

Init ==
  /\ stage = [c \in Conns |-> "out"]
  /\ room  = [c \in Conns |-> NoChan]

(* A connection asks for a channel. *)
Ask(c, ch) ==
  /\ stage[c] = "out"
  /\ stage' = [stage EXCEPT ![c] = "waiting"]
  /\ room'  = [room  EXCEPT ![c] = ch]

(* The channel takes in everybody who is waiting for it. *)
Admit(ch) ==
  /\ Waiting(ch) # {}
  /\ stage' = [c \in Conns |-> IF c \in Waiting(ch) THEN "member" ELSE stage[c]]
  /\ UNCHANGED room

(* Connections end: members leave, or whoever was serving them stops. *)
Drop(S) ==
  /\ \A c \in S : stage[c] # "gone"
  /\ stage' = [c \in Conns |-> IF c \in S THEN "gone" ELSE stage[c]]
  /\ room'  = [c \in Conns |-> IF c \in S THEN NoChan ELSE room[c]]

Next ==
  \/ \E c \in Conns, ch \in Channels : Ask(c, ch)
  \/ \E ch \in Channels : Admit(ch)
  \/ \E S \in SUBSET Conns : Drop(S)

Spec == Init /\ [][Next]_joinVars

=============================================================================
