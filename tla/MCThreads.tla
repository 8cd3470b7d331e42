----------------------------- MODULE MCThreads ------------------------------
(* An instance for TLC of three parts that share no state: an output with  *)
(* its subscriber, the HTTP threads with the locks of the caches, and the  *)
(* AIS reader.  In a behaviour one of them moves, the actor, and the       *)
(* others stay in their initial state; so each is checked as it is alone.  *)
EXTENDS MCOutputWriter, MCCacheLocks, MCAisReader

VARIABLE actor
MCVars == <<vars, lockVars, aisVars, actor>>

MCInit ==
  /\ Init /\ LocksInit /\ AisInit
  /\ actor \in {"subscribers", "http", "ais"}
  /\ actor # "ais" => traffic = CHOOSE t \in Traffic : TRUE

MCNext ==
  /\ UNCHANGED actor
  /\ \/ actor = "subscribers" /\ Next /\ UNCHANGED <<lockVars, aisVars>>
     \/ actor = "http" /\ LocksNext /\ UNCHANGED <<vars, aisVars>>
     \/ actor = "ais" /\ AisNext /\ UNCHANGED <<vars, lockVars>>

(* The fairness of FairSpec, LocksFairSpec and AisFairSpec for the actor. *)
MCSpec ==
  /\ MCInit /\ [][MCNext]_MCVars
  /\ WF_vars(actor = "subscribers" /\ CheckFlush)
  /\ WF_vars(actor = "subscribers" /\ Tick)
  /\ WF_lockVars(actor = "http" /\ WriteLock)
  /\ WF_lockVars(actor = "http" /\ WriteDone)
  /\ \A h \in Threads : SF_lockVars(actor = "http" /\ ReadLock(h))
  /\ \A h \in Threads : WF_lockVars(actor = "http" /\ Copy(h))
  /\ \A h \in Prompt : WF_lockVars(actor = "http" /\ Answered(h))
  /\ WF_aisVars(actor = "ais" /\ Consume)
  /\ WF_aisVars(actor = "ais" /\ ReapStale)
  /\ WF_aisVars(actor = "ais" /\ AisTick)
=============================================================================
