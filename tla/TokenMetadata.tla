--------------------------- MODULE TokenMetadata ---------------------------
(***************************************************************************)
(* The deployment together with the Metaplex metadata of the PRIME mint:   *)
(* options 4 and 6 of the menu, which run register_meta.ts on the mint in  *)
(* the history file.  The metadata program is external: it creates the     *)
(* metadata of a mint once, for the authority of the mint, and lets the    *)
(* one who created it update it.  Of the metadata only the name is kept.   *)
(***************************************************************************)
EXTENDS Deployment

CONSTANTS
  METAPLEX_NAME,   \* the name given at the prompt
  NoName           \* the empty name, which an undefined one is written as

ASSUME TokenMetadataAssumption == None \notin {METAPLEX_NAME, NoName}

VARIABLE metadata   \* the name in the metadata of every PRIME mint

mvars == <<vars, metadata>>

MTypeOK ==
  /\ TypeOK
  /\ metadata \in [Mints -> {METAPLEX_NAME, NoName, None}]

MInit ==
  /\ Init
  /\ metadata = [m \in Mints |-> None]

MayCreate(m) == metadata[m] = None /\ mint_authority[m] = Operator

(* The script passes on args.ame, which is not an option and undefined. *)
CreatedName == NoName

(* The authority over metadata stays with the operator who created it.      *)
RegisterMeta(m, update) ==
  \/ /\ update /\ metadata[m] # None
     /\ metadata' = [metadata EXCEPT ![m] = METAPLEX_NAME]
  \/ /\ ~update /\ MayCreate(m)
     /\ metadata' = [metadata EXCEPT ![m] = CreatedName]

(* Neither option asks for the mint. *)
SetupMetaplex == MINT_TOKEN # None /\ RegisterMeta(MINT_TOKEN, FALSE)
UpdateMetaplex == MINT_TOKEN # None /\ RegisterMeta(MINT_TOKEN, TRUE)

MNext ==
  \/ Next /\ UNCHANGED metadata
  \/ menu = "idle" /\ (SetupMetaplex \/ UpdateMetaplex) /\ UNCHANGED vars

MSpec == MInit /\ [][MNext]_mvars
-----------------------------------------------------------------------------
(* Properties                                                              *)

(* The mint is registered under the name the operator gives at the prompt   *)
(* or not at all (config.sh:225-242, README.md:292).                        *)
RegisteredUnderItsName == \A m \in Mints : metadata[m] \in {METAPLEX_NAME, None}
=============================================================================
