---------------------------- MODULE FleetClients ----------------------------
(***************************************************************************)
(* The fleet ledger under the most general client: any process may invoke  *)
(* any operation, provided that it creates children for its own masters.   *)
(***************************************************************************)
EXTENDS FleetStore

MayParent(p, o) ==
    \/ p = NoAgent
    \/ /\ p \in Agents /\ agents[p].status # "absent"
       /\ agents[p].parent = NoAgent
       /\ agents[p].status # "pruned" => agents[p].owner = o

ClientInit == StoreInit

ClientNext ==
    \/ \E o \in Owners : RegisterOwner(o) \/ HeartbeatOwner(o) \/ CloseOwner(o)
    \/ \E a \in Agents, o \in Owners :
          \/ \E p, src \in Agents \cup {NoAgent} :
                MayParent(p, o) /\ CreateAgent(a, o, p, src)
          \/ \E inCall \in BOOLEAN : StartAgent(a, o, inCall)
          \/ BeginModelCall(a, o)
          \/ \E r \in {"none", "output", "error"} : FinishAgent(a, o, r)
    \/ \E S \in SUBSET Agents : CancelAgents(S)
    \/ ReconcileStaleOwners
    \/ Prune
    \/ Age

ClientSpec == ClientInit /\ [][ClientNext]_storeVars
=============================================================================
