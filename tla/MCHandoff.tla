----------------------------- MODULE MCHandoff -----------------------------
(* Handoff on a small instance. *)
EXTENDS Handoff

(* Nothing in Handoff tells one connection or one channel from another, so   *)
(* that what holds of one of each holds of all: whoever is on the map is     *)
(* taken in while the thread of the channel and the server live.             *)
AnyQueuedIsGrabbed ==
  QueuedIsGrabbed(CHOOSE c \in Conns : TRUE, CHOOSE ch \in Channels : TRUE)

=============================================================================
