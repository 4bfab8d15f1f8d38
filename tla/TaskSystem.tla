----------------------------- MODULE TaskSystem -----------------------------
(***************************************************************************)
(* The tasks service and the consumer workers, joined by the topic          *)
(* tasks.events: what a create handler publishes, the group consumes.  The  *)
(* two processes share nothing else.                                        *)
(***************************************************************************)
EXTENDS TaskService

CONSTANTS Members, MaxFaults

ASSUME SystemAssumption == MaxFaults \in Nat

VARIABLES committed, generation, mpc, joined, position, commits, consumed, skipped, faults

Consumers == INSTANCE EventPipeline WITH
  Records <- Ids, Poison <- {}, Failing <- {}, Rerunners <- {},
  MaxLog <- 0, pc <- mpc

consumerVars ==
  <<committed, generation, mpc, joined, position, commits, consumed, skipped, faults>>

SystemInit == Init /\ Consumers!Init

ServiceStep == Next /\ UNCHANGED consumerVars

ConsumerStep ==
  /\ \E m \in Members : Consumers!MemberNext(m)
  /\ UNCHANGED <<valkey, pc, id, listing, used, history>>

SystemNext == ServiceStep \/ ConsumerStep

\* The consumers' fairness of EventPipeline; nothing is assumed of the clients.
SystemSpec ==
  /\ SystemInit /\ [][SystemNext]_<<vars, consumerVars>>
  /\ \A m \in Members : Consumers!MemberFairness(m)

\* An event that reached the topic is consumed at last, even when the handler
\* that published it never got to answer its client.
PublishedIsConsumed ==
  \A i \in Ids : (\E n \in DOMAIN log : log[n] = i) ~> (\E n \in consumed : log[n] = i)
=============================================================================
