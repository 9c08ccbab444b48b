------------------------ MODULE FloxEnvAgentsHistory ------------------------
(***************************************************************************)
(* FloxEnvAgents with a memory of the status writes that took something    *)
(* back: a node's entry of status.realized set to an older generation, or  *)
(* status.relockToken to an older revision.  Both are merge patches made   *)
(* from a copy another node's patch, or a relock, has overtaken.           *)
(***************************************************************************)
EXTENDS FloxEnvAgents

VARIABLE takenBack  \* takenBack[n][e]: e's token or n's entry once went back

historyVars == <<vars, takenBack>>
-----------------------------------------------------------------------------
TakesBack(n, e) ==
    \/ api'[e].token < api[e].token
    \/ api'[e].realized[n].gen < api[e].realized[n].gen

HistoryInit ==
    /\ Init
    /\ takenBack = [n \in Nodes |-> [e \in Envs |-> FALSE]]

HistoryNext ==
    /\ Next
    /\ takenBack' = [n \in Nodes |-> [e \in Envs |->
                        takenBack[n][e] \/ TakesBack(n, e)]]

HistorySpec == HistoryInit /\ [][HistoryNext]_historyVars
-----------------------------------------------------------------------------
(* Properties.                                                              *)

\* On a cluster of any size, whatever is stale, filtered, failed, killed or
\* lost, the only way to lose work is a status write that took it back: a node
\* that has not realised the current generation, or has a relock pending, has
\* work queued or an event on its way, unless its entry or the token went back.
LostOnlyIfTakenBack ==
    \A n \in Nodes, e \in Envs :
        \/ takenBack[n][e]
        \/ AlreadyRealized(n, api[e])
        \/ Pending(n, e)
        \/ RealisationChange(cache[n][e], api[e])
=============================================================================
