------------------------------ MODULE MCNodes ------------------------------
(* What happens to an instance on several compute nodes, for TLC: each     *)
(* behaviour is one of resizes (ComputeMoves), of builds that are          *)
(* rescheduled (ResourceTracker) or of live migrations (LiveMigration), as *)
(* chosen at the start.                                                    *)
EXTENDS MCComputeMoves, LiveMigration

CONSTANTS a, b, c
VARIABLE part

\* A build fits on either node.
Builds == INSTANCE ResourceTracker
              WITH Retries <- TRUE, Limit <- [n \in Nodes |-> MaxFlavor]

nodes == <<part, moveVars, liveVars>>
NodesInit ==
    \/ part = "moves" /\ MovesInit /\ LiveInit /\ server.host = a /\ ~shared
    \/ /\ part = "builds" /\ Builds!Init /\ calls = {} /\ backups = {}
       /\ LiveInit /\ server.host = a /\ ~shared
    \/ /\ part = "live" /\ LiveInit /\ server.host = a
       /\ Builds!Init /\ calls = {} /\ backups = {}
\* By symmetry the instance that is migrated live is on a at first, and its
\* first move is not to c.
NodesNext ==
    /\ UNCHANGED part
    /\ \/ part = "moves" /\ MovesStep /\ UNCHANGED liveVars
       \/ part = "builds" /\ Builds!Next /\ UNCHANGED <<calls, backups, liveVars>>
       \/ part = "live" /\ LiveNext /\ move'[1].to # c /\ UNCHANGED moveVars

\* The fairness of the part's own specification; nothing bounds how often a
\* build is rescheduled, and its run has none.
MovesFair ==
    /\ \A i \in Instances, op \in ApiOps \cup QueuedOps \cup RunningOps :
         WF_moveVars(part = "moves" /\ ServeOp(i, op))
    /\ \A i \in Instances, op \in {"dropping", "undoing"} :
         SF_moveVars(part = "moves" /\ ServeOp(i, op))
    /\ \A n \in Nodes : WF_moveVars(part = "moves" /\ AuditInMove(n))
LiveFair ==
    /\ \A m \in Moves :
         /\ WF_liveVars(part = "live" /\ Conduct(m))
         /\ WF_liveVars(part = "live" /\ AtSource(m))
         /\ WF_liveVars(part = "live" /\ Job(m))
         /\ WF_liveVars(part = "live" /\ PreAtDestination(m))
         /\ WF_liveVars(part = "live" /\ PostAtDestination(m))
         /\ WF_liveVars(part = "live" /\ RollbackAtDestination(m))
    /\ WF_liveVars(part = "live" /\ Deletes)
    /\ \A h \in Hosts : /\ WF_liveVars(part = "live" /\ Reap(h))
                        /\ WF_liveVars(part = "live" /\ Starts(h))
NodesSpec == NodesInit /\ [][NodesNext]_nodes /\ MovesFair /\ LiveFair

\* The usage comes right after resizes.
UsageSettlesAfterMoves == part = "moves" => MoveUsageSettles
=============================================================================
