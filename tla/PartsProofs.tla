----------------------------- MODULE PartsProofs -----------------------------
(***************************************************************************)
(* What is checked in one run is what is proved of each part: a behaviour  *)
(* of the parts together is, seen from any of them, one of that part.      *)
(***************************************************************************)
EXTENDS MCParts, PluginRpcProofs, PluginProofs, DraftsProofs, TransfersProofs, PgSessionProofs

LEMMA PartsBegin ==
    PartsInit => /\ part \in Parts
                 /\ RpcInit /\ HostInit /\ InstallInit /\ DuckInit /\ DraftsInit
                 /\ ImportInit /\ TransfersInit /\ PgInit
BY DEF PartsInit

\* A step is of one part, and leaves the others as they are.
LEMMA PartsGoOn ==
    [PartsNext]_partsVars =>
        /\ [FALSE]_part
        /\ [RpcNext]_rpcVars /\ [HostNext]_hostStateVars
        /\ [InstallNext]_installVars /\ [DuckNext]_duckVars
        /\ [DraftsNext]_draftVars /\ [ImportNext]_importVars
        /\ [TransfersNext]_transferVars /\ [PgNext]_pgVars
<1> SUFFICES ASSUME [PartsNext]_partsVars
             PROVE  /\ [FALSE]_part
                    /\ [RpcNext]_rpcVars /\ [HostNext]_hostStateVars
                    /\ [InstallNext]_installVars /\ [DuckNext]_duckVars
                    /\ [DraftsNext]_draftVars /\ [ImportNext]_importVars
                    /\ [TransfersNext]_transferVars /\ [PgNext]_pgVars
  OBVIOUS
<1>1. CASE PartsNext
  BY <1>1 DEF PartsNext
<1>2. CASE UNCHANGED partsVars
  BY <1>2 DEF partsVars
<1>3. QED
  BY <1>1, <1>2

\* Each part of the run behaves as its own specification says: what is proved of the components
\* holds of the behaviours the run checks, for any values of its constants.
THEOREM PartsAreComponents ==
    PartsSpec => /\ RpcSpec /\ HostSpec /\ InstallSpec /\ DuckSpec
                 /\ DraftsSpec /\ ImportSpec /\ TransfersSpec /\ PgSpec
BY PartsBegin, PartsGoOn, PTL
   DEF PartsSpec, RpcSpec, HostSpec, InstallSpec, DuckSpec, DraftsSpec, ImportSpec, TransfersSpec,
       PgSpec

\* Whichever part runs, its state keeps to the values its code gives it, bounds included.
THEOREM PartsTyped == PartsSpec => []PartsTypeOK
<1>1. /\ part \in Parts
      /\ RpcTypeOK /\ HostTypeOK /\ InstallTypeOK /\ DuckTypeOK
      /\ DraftsTypeOK /\ ImportTypeOK /\ TransfersTypeOK /\ PgTypeOK
      => PartsTypeOK
  BY DEF Parts, PartsTypeOK
<1>2. PartsSpec => [](part \in Parts)
  <2>1. part \in Parts /\ [PartsNext]_partsVars => (part \in Parts)'
    BY PartsGoOn
  <2>2. QED
    BY PartsBegin, <2>1, PTL DEF PartsSpec
<1>3. QED
  BY <1>1, <1>2, PartsAreComponents, RpcTypes, HostTypes, InstallTypes, DuckTypes, DraftsTyped,
     ImportTypes, TransfersTyped, PgTypes, PTL
=============================================================================
