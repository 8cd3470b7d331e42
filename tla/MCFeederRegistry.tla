-------------------------- MODULE MCFeederRegistry --------------------------
(* An instance of FeederRegistry for TLC: one peer, which sends a uuid and *)
(* may have two connections, while the callers of the API block or kick,   *)
(* or one connection, while they set limits; or two peers that may both    *)
(* fall silent, and no caller.  The clock stands still while callers block *)
(* or kick, which no deadline of the code depends on.  NoGhostFeeders is   *)
(* proved for every mixture.                                               *)
EXTENDS FeederRegistry

CONSTANT Callers

MCHostOf == [a \in Addrs |-> "host"]
MCUuidOf == [a \in Addrs |-> IF a = "a1" THEN "u1" ELSE NoUuid]

VARIABLE callers
MCVars == <<vars, callers>>

(* One connection at a time, which may end by a reset.                     *)
OneAtATime ==
  /\ Cardinality(Open) + Cardinality(waiting) + Cardinality({admitted} \ {None}) <= 1
  /\ \A t \in Tokens : conn[t].hup # "fin"

(* A slot for each of two peers that send no uuid and reset.               *)
OwnSlots ==
  \A t \in Open :
    /\ conn[t].addr = "a1" <=> t = CHOOSE first \in Tokens : TRUE
    /\ conn[t].uuid = NoUuid /\ conn[t].hup # "fin"

MCInit == Init /\ callers \in Callers
MCNext ==
  /\ Next /\ UNCHANGED callers
  /\ callers # "block" => blocked' = {}
  /\ callers # "kick" => kicks' = {}
  /\ callers # "limit" => UNCHANGED overrides
  /\ callers \in {"block", "kick"} => UNCHANGED stallDue
  /\ callers = "stall" \/ "a2" \notin waiting'
  /\ callers = "limit" => OneAtATime'
  /\ callers = "stall" => OwnSlots'

MCFairness ==
  /\ WF_vars(Loop) /\ SF_vars(Timer) /\ SF_vars(AcceptDone)
  /\ WF_vars(callers \notin {"block", "kick"} /\ Tick)
  /\ \A id \in BlockIds : WF_vars(Sweep(id))
MCSpec == MCInit /\ [][MCNext]_MCVars /\ MCFairness
=============================================================================
