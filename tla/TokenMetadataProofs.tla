------------------------ MODULE TokenMetadataProofs ------------------------
(***************************************************************************)
(* The deployment with its metadata, for any programs, mints and accounts: *)
(* the registration disturbs nothing that Deployment ensures.              *)
(***************************************************************************)
EXTENDS TokenMetadata, DeploymentProofs

LEMMA MetadataStep == [MNext]_mvars => [Next]_vars
  BY DEF MNext, mvars

(* The deployment with metadata is a deployment.                            *)
THEOREM MetadataImplements == MSpec => Spec
  BY MetadataStep, PTL DEF MSpec, Spec, MInit

LEMMA RegisterTyped ==
  ASSUME MTypeOK, NEW m \in Mints, NEW update \in BOOLEAN, RegisterMeta(m, update)
  PROVE  metadata' \in [Mints -> {METAPLEX_NAME, NoName, None}]
  BY DEF MTypeOK, RegisterMeta, CreatedName

(* Type correctness with metadata.                                          *)
THEOREM MetadataTypeCorrect == MSpec => []MTypeOK
  <1>1. MInit => MTypeOK
    BY InitTyped DEF MInit, MTypeOK
  <1>2. MTypeOK /\ [MNext]_mvars => MTypeOK'
    <2> SUFFICES ASSUME MTypeOK, [MNext]_mvars PROVE MTypeOK'
      OBVIOUS
    <2>1. TypeOK'
      BY MetadataStep, StepTyped DEF MTypeOK
    <2>2. CASE SetupMetaplex \/ UpdateMetaplex
      BY <2>1, <2>2, RegisterTyped DEF SetupMetaplex, UpdateMetaplex, MTypeOK, TypeOK
    <2>3. CASE UNCHANGED metadata
      BY <2>1, <2>3 DEF MTypeOK
    <2>. QED
      BY <2>2, <2>3 DEF MNext, mvars
  <1>. QED
    BY <1>1, <1>2, PTL DEF MSpec

(* The hand-over is for good and every initialized program has its vault,   *)
(* whatever is registered in between.                                       *)
THEOREM HandoverWithMetadata == MSpec => OpenForGood /\ []VaultFollowsConfig
  BY MetadataImplements, OpenForGoodHolds, VaultsFollowConfigs, PTL
=============================================================================
