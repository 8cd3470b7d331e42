--------------------------- MODULE LossyBroadcast ---------------------------
(***************************************************************************)
(* What an output promises its subscribers, without the mechanism: items   *)
(* are collected; now and then everything collected is offered to all      *)
(* members at once.  A member queues the whole of it at the end of what it *)
(* has, or nothing; some of the front of its queue goes out; or it is      *)
(* removed.  Nobody but a broadcast touches a queue, and nothing is        *)
(* queued twice, out of order, in part, or beyond the limit.               *)
(***************************************************************************)
EXTENDS Integers, Sequences

CONSTANTS Members, Items, Limit

VARIABLES collected, members, queue

lbVars == <<collected, members, queue>>

Suffixes(q) == {SubSeq(q, i, Len(q)) : i \in 1..(Len(q) + 1)}

LBInit ==
  /\ collected = <<>>
  /\ members = {}
  /\ queue = [c \in Members |-> <<>>]

Collect(item) ==
  /\ collected' = collected \o item
  /\ UNCHANGED <<members, queue>>

(* The queues a broadcast of data may leave a member with. *)
Outcomes(q, data) ==
  Suffixes(q) \cup (IF Len(q \o data) <= Limit THEN Suffixes(q \o data) ELSE {})

Broadcast(item) ==
  /\ collected' = <<>>
  /\ members' \subseteq members
  /\ DOMAIN queue' = Members
  /\ \A c \in Members :
       IF c \in members' THEN queue'[c] \in Outcomes(queue[c], collected \o item)
       ELSE queue'[c] = <<>>

Join(c) ==
  /\ c \notin members
  /\ members' = members \cup {c}
  /\ UNCHANGED <<collected, queue>>

LBNext ==
  \/ \E item \in Items \cup {<<>>} : Broadcast(item)
  \/ \E item \in Items : Collect(item)
  \/ \E c \in Members : Join(c)

LBSpec == LBInit /\ [][LBNext]_lbVars
=============================================================================
