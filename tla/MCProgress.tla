------------------------------ MODULE MCProgress ------------------------------
(***************************************************************************)
(* The runs of the workbench, with what must happen in the end there, in a *)
(* plugin's conversation and to an idle plugin.  Each behaviour is of one  *)
(* of the three, and the other two stay as they began; nothing that is     *)
(* fair can happen in an initial state, so they owe no step.  A bound:     *)
(* elsewhere something fails only beside scripts that stop on an error.    *)
(***************************************************************************)
EXTENDS WorkbenchRuns, PluginRpc, PluginHost

CONSTANTS
    s1, s2, x1, e1, f1, c1, c2,
    Parts \* which of the three a run checks

\* A long script and a short one.
Lengths == [s \in Scripts |-> IF s = s1 THEN 2 ELSE 1]

ItsResult == [f \in {f1} |-> e1]

VARIABLE part

ProgressInit ==
    /\ part \in Parts
    /\ WorkInit /\ RpcInit /\ HostInit
    /\ part # "workbench" => policy = "stop"

ProgressNext ==
    /\ UNCHANGED part
    /\ IF part = "workbench" THEN WorkNext ELSE UNCHANGED workVars
    /\ policy = "continue" => elsewhere' = 0
    /\ IF part = "rpc" THEN RpcNext ELSE UNCHANGED rpcVars
    /\ IF part = "host" THEN HostNext ELSE UNCHANGED hostStateVars

ProgressSpec ==
    /\ ProgressInit
    /\ [][ProgressNext]_<<part, workVars, rpcVars, hostStateVars>>
    /\ WorkFairness
    /\ RpcFairness
    /\ HostFairness
=============================================================================
