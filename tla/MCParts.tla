------------------------------- MODULE MCParts -------------------------------
(***************************************************************************)
(* Parts of Dexo that share no state, checked in one run: of a plugin, the *)
(* conversation with its process, the process itself, its installation and *)
(* the connection of the one driver that ships as one; of the workbench,   *)
(* its texts, its transfers, the way of an import through its file, and    *)
(* its session on PostgreSQL.  Each behaviour is of one of them, and the   *)
(* others stay as they began.                                              *)
(***************************************************************************)
EXTENDS PluginRpc, PluginHost, PluginInstall, DuckdbCancel, Drafts, FileImport, Transfers, PgSession

CONSTANTS e1, e2, f1, c1, c2, d1, d2, q1, q2, w1, t1, t2, x1, i1, b1, r1, g1

\* One of the two queries has a result of several pages.
FirstResult == [f \in {f1} |-> e1]

VARIABLE part

Parts == {"rpc", "host", "install", "duckdb", "drafts", "import", "transfers", "session"}

\* A component that stays still keeps one of its initial states.
PartsInit ==
    /\ part \in Parts
    /\ RpcInit /\ HostInit /\ InstallInit /\ DuckInit /\ DraftsInit
    /\ ImportInit /\ TransfersInit /\ PgInit
    /\ part # "install" => order = [d \in Dexos |-> "install"] /\ folder = Nothing
    /\ part # "import" => strategy = "stop"

PartsNext ==
    /\ UNCHANGED part
    /\ IF part = "rpc" THEN TRUE ELSE UNCHANGED rpcVars
    /\ IF part = "host" THEN TRUE ELSE UNCHANGED hostStateVars
    /\ IF part = "install" THEN TRUE ELSE UNCHANGED installVars
    /\ IF part = "duckdb" THEN TRUE ELSE UNCHANGED duckVars
    /\ IF part = "drafts" THEN TRUE ELSE UNCHANGED draftVars
    /\ IF part = "import" THEN TRUE ELSE UNCHANGED importVars
    /\ IF part = "transfers" THEN TRUE ELSE UNCHANGED transferVars
    /\ IF part = "session" THEN TRUE ELSE UNCHANGED pgVars
    /\ IF part = "rpc" THEN RpcNext ELSE TRUE
    /\ IF part = "host" THEN HostNext ELSE TRUE
    /\ IF part = "install" THEN InstallNext ELSE TRUE
    /\ IF part = "duckdb" THEN DuckNext ELSE TRUE
    /\ IF part = "drafts" THEN DraftsNext ELSE TRUE
    /\ IF part = "import" THEN ImportNext ELSE TRUE
    /\ IF part = "transfers" THEN TransfersNext ELSE TRUE
    /\ IF part = "session" THEN PgNext ELSE TRUE

partsVars ==
    <<part, rpcVars, hostStateVars, installVars, duckVars, draftVars, importVars, transferVars, pgVars>>

PartsSpec == PartsInit /\ [][PartsNext]_partsVars

\* What tells two states apart: the others are as they began.
PartsView ==
    <<part, CASE part = "rpc" -> rpcVars
              [] part = "host" -> hostStateVars
              [] part = "install" -> installVars
              [] part = "duckdb" -> duckVars
              [] part = "drafts" -> draftVars
              [] part = "import" -> importVars
              [] part = "transfers" -> transferVars
              [] part = "session" -> pgVars>>

-----------------------------------------------------------------------------

\* The state of the part that runs keeps to the values its code gives it, bounds included.
PartsTypeOK ==
    CASE part = "rpc" -> RpcTypeOK
      [] part = "host" -> HostTypeOK
      [] part = "install" -> InstallTypeOK
      [] part = "duckdb" -> DuckTypeOK
      [] part = "drafts" -> DraftsTypeOK
      [] part = "import" -> ImportTypeOK
      [] part = "transfers" -> TransfersTypeOK
      [] part = "session" -> PgTypeOK
=============================================================================
