----------------------------- MODULE Deployment -----------------------------
(***************************************************************************)
(* How the program comes into being: an operator at the menu of config.sh, *)
(* who creates the PRIME mint and the vault account, deploys a program,    *)
(* initializes it, and hands the authorities of the mint to its PDAs.      *)
(* Each menu option sends transactions of its own and any of them may      *)
(* fail; the options share the variables of the history file, which keep   *)
(* what the last option wrote, failed or not.                              *)
(*                                                                         *)
(* A PDA is named by its program: which of the program's PDAs is meant     *)
(* follows from the field it stands in.  The one key the operator uses     *)
(* (KEYPAIR) pays, signs, and is the upgrade authority of what it deploys. *)
(***************************************************************************)
EXTENDS Integers, FiniteSets

CONSTANTS
  Programs,        \* program ids
  Mints,           \* mints created for PRIME
  VaultMints,      \* mints that may be chosen as VAULT_MINT
  VaultAccounts,   \* token accounts of those mints
  MintOf,          \* the mint of every one of them
  Ata,             \* the operator's associated token account for every vault mint
  Operator,        \* public key of KEYPAIR
  None             \* an empty shell variable, an account that does not exist

Authorities == Programs \cup {Operator, None}

ASSUME DeploymentAssumption ==
  /\ Operator \notin Programs \cup Mints \cup VaultAccounts
  /\ None \notin Programs \cup Mints \cup VaultAccounts \cup VaultMints \cup {Operator}
  /\ None \notin [vault : VaultMints, mint : Mints]
  /\ Mints \cap VaultMints = {}
  /\ MintOf \in [VaultAccounts -> VaultMints]
  /\ Ata \in [VaultMints -> VaultAccounts]
  /\ \A m \in VaultMints : MintOf[Ata[m]] = m

VARIABLES
  mint_authority, freeze_authority,   \* of every PRIME mint
  vault_owner,                        \* owner of every vault account
  deployed,                           \* programs on the cluster
  config                              \* config PDA of every program

chain == <<mint_authority, freeze_authority, vault_owner, deployed, config>>

VARIABLES
  VAULT_MINT, MINT_TOKEN, VAULT_TOKEN_ACCOUNT,
  PDAS,         \* the program whose PDAs are in MINT_AUTHORITY_PDA, FREEZE_AUTHORITY_PDA
  keypair,      \* program id of the keypair in target/deploy
  declare_id,   \* program id in lib.rs
  idl,          \* program id in target/idl, as last built
  drawn,        \* program ids drawn so far
  menu          \* "idle", or "freeze" between the two commands of option 5

history == <<VAULT_MINT, MINT_TOKEN, VAULT_TOKEN_ACCOUNT, PDAS>>
files == <<keypair, declare_id, idl, drawn>>
vars == <<chain, history, files, menu>>

Config == [vault : VaultMints, mint : Mints]

TypeOK ==
  /\ mint_authority \in [Mints -> Authorities]
  /\ freeze_authority \in [Mints -> Authorities]
  /\ vault_owner \in [VaultAccounts -> Authorities]
  /\ deployed \subseteq Programs
  /\ config \in [Programs -> Config \cup {None}]
  /\ VAULT_MINT \in VaultMints
  /\ MINT_TOKEN \in Mints \cup {None}
  /\ VAULT_TOKEN_ACCOUNT \in VaultAccounts \cup {None}
  /\ PDAS \in Programs \cup {None}
  /\ {keypair, declare_id, idl} \subseteq drawn
  /\ drawn \subseteq Programs
  /\ menu \in {"idle", "freeze"}

(* A fresh checkout and an empty history file.  Vault accounts other than   *)
(* the associated ones exist and belong to the operator.                    *)
Init ==
  /\ mint_authority = [m \in Mints |-> None]
  /\ freeze_authority = [m \in Mints |-> None]
  /\ vault_owner = [a \in VaultAccounts |-> IF a = Ata[MintOf[a]] THEN None ELSE Operator]
  /\ deployed = {}
  /\ config = [p \in Programs |-> None]
  /\ VAULT_MINT \in VaultMints
  /\ MINT_TOKEN = None /\ VAULT_TOKEN_ACCOUNT = None /\ PDAS = None
  /\ keypair \in Programs /\ declare_id \in Programs /\ idl = declare_id
  /\ drawn = {keypair, declare_id}
  /\ menu = "idle"
-----------------------------------------------------------------------------
(* Defective forms of the definitions below, which a run must reject; no   *)
(* specification uses them.                                                *)

(* init_if_needed in place of init *)
InitializesAgain(p, vault_mint, stake_mint, a) ==
  /\ p \in deployed
  /\ a \in VaultAccounts /\ MintOf[a] = vault_mint
  /\ vault_owner[a] \in {Operator, p}
  /\ mint_authority[stake_mint] # None

(* no constraint on the owner of the vault account *)
InitializesAnyOwner(p, vault_mint, stake_mint, a) ==
  /\ p \in deployed
  /\ config[p] = None
  /\ a \in VaultAccounts /\ MintOf[a] = vault_mint
  /\ vault_owner[a] # None
  /\ mint_authority[stake_mint] # None

(* the wrong variable of the history file *)
WrongVariable == VAULT_TOKEN_ACCOUNT
-----------------------------------------------------------------------------
(* The instruction.                                                        *)

InitializeAccounts(p, vault_mint, stake_mint, a) ==
  /\ p \in deployed
  /\ config[p] = None
  /\ a \in VaultAccounts /\ MintOf[a] = vault_mint
  /\ vault_owner[a] \in {Operator, p}
  /\ mint_authority[stake_mint] # None

Initialize(p, vault_mint, stake_mint, a) ==
  /\ InitializeAccounts(p, vault_mint, stake_mint, a)
  /\ vault_mint # stake_mint
  /\ config' = [config EXCEPT ![p] = [vault |-> vault_mint, mint |-> stake_mint]]
  /\ vault_owner' = [vault_owner EXCEPT ![a] = IF @ = Operator THEN p ELSE @]
  /\ UNCHANGED <<mint_authority, freeze_authority, deployed>>
-----------------------------------------------------------------------------
(* The menu.                                                               *)

BuildProgram ==
  /\ idl' = declare_id
  /\ UNCHANGED <<chain, history, keypair, declare_id, drawn>>

(* The source is rewritten and built before the deployment that may fail.  *)
DeployProgram ==
  /\ declare_id' = keypair
  /\ idl' = keypair
  /\ deployed' \in {deployed, deployed \cup {keypair}}
  /\ UNCHANGED <<mint_authority, freeze_authority, vault_owner, config, history, keypair, drawn>>

(* The id written to lib.rs is drawn without keeping its keypair, and the  *)
(* build that follows draws the keypair that replaces the removed one.     *)
SetNewProgramId ==
  \E id, key \in Programs \ drawn :
    /\ id # key
    /\ declare_id' = id /\ idl' = id /\ keypair' = key
    /\ drawn' = drawn \cup {id, key}
    /\ UNCHANGED <<chain, history>>

(* A command that fails prints no address, and the variable is emptied.    *)
CreateMintToken ==
  /\ \/ \E m \in Mints :
          /\ mint_authority[m] = None
          /\ mint_authority' = [mint_authority EXCEPT ![m] = Operator]
          /\ freeze_authority' = [freeze_authority EXCEPT ![m] = Operator]
          /\ MINT_TOKEN' = m
     \/ MINT_TOKEN' = None /\ UNCHANGED <<mint_authority, freeze_authority>>
  /\ UNCHANGED <<vault_owner, deployed, config, VAULT_MINT, VAULT_TOKEN_ACCOUNT, PDAS, files>>

CreateVaultTokenAccount ==
  LET a == Ata[VAULT_MINT] IN
  /\ \/ /\ vault_owner[a] = None
        /\ vault_owner' = [vault_owner EXCEPT ![a] = Operator]
        /\ VAULT_TOKEN_ACCOUNT' = a
     \/ VAULT_TOKEN_ACCOUNT' = None /\ UNCHANGED vault_owner
  /\ UNCHANGED <<mint_authority, freeze_authority, deployed, config, VAULT_MINT, MINT_TOKEN, PDAS, files>>

(* What is typed at a prompt, which is shown for an empty variable only. *)
Prompted(variable, answers) == IF variable = None THEN answers ELSE {variable}

(* initialize.ts prints the PDAs before it sends the transaction, so they  *)
(* are kept whether or not it goes through; it passes the mint of the      *)
(* vault as argument and as account alike.  With a malformed key or too    *)
(* many administrators it throws before it prints, and the PDAs are        *)
(* emptied.                                                                *)
InitializeScript(m, a) ==
  \/ /\ PDAS' = idl
     /\ Initialize(idl, VAULT_MINT, m, a) \/ UNCHANGED chain
  \/ PDAS' = None /\ UNCHANGED chain

InitializeProgram ==
  \E m \in Prompted(MINT_TOKEN, Mints), a \in Prompted(VAULT_TOKEN_ACCOUNT, VaultAccounts) :
    /\ MINT_TOKEN' = m /\ VAULT_TOKEN_ACCOUNT' = a
    /\ InitializeScript(m, a)
    /\ UNCHANGED <<VAULT_MINT, files>>

(* Nothing is typed: the script stops at the empty address. *)
InitializeWithout ==
  /\ None \in {MINT_TOKEN, VAULT_TOKEN_ACCOUNT}
  /\ PDAS' = None
  /\ UNCHANGED <<chain, VAULT_MINT, MINT_TOKEN, VAULT_TOKEN_ACCOUNT, files>>

NewAuthority == PDAS

Authorized(authority) ==
  IF MINT_TOKEN # None /\ NewAuthority # None /\ authority[MINT_TOKEN] = Operator
  THEN {authority, [authority EXCEPT ![MINT_TOKEN] = NewAuthority]}
  ELSE {authority}

(* Option 5 sends two transactions and goes on to the second whatever      *)
(* became of the first; it may be interrupted between them.                *)
SetMintAuthority ==
  /\ mint_authority' \in Authorized(mint_authority)
  /\ menu' = "freeze"
  /\ UNCHANGED <<freeze_authority, vault_owner, deployed, config, history, files>>

SetFreezeAuthority ==
  /\ menu = "freeze"
  /\ freeze_authority' \in Authorized(freeze_authority)
  /\ menu' = "idle"
  /\ UNCHANGED <<mint_authority, vault_owner, deployed, config, history, files>>

Interrupt ==
  /\ menu = "freeze"
  /\ menu' = "idle"
  /\ UNCHANGED <<chain, history, files>>

Option ==
  /\ menu = "idle"
  /\ \/ /\ \/ BuildProgram \/ DeployProgram \/ SetNewProgramId
           \/ CreateMintToken \/ CreateVaultTokenAccount
           \/ InitializeProgram \/ InitializeWithout
        /\ UNCHANGED menu
     \/ SetMintAuthority

Next == Option \/ SetFreezeAuthority \/ Interrupt

Spec == Init /\ [][Next]_vars
-----------------------------------------------------------------------------
(* Properties                                                              *)

(* A program that has been initialized has a vault account it alone can     *)
(* draw from, of the mint in its config, whatever program ids, mints and    *)
(* accounts the history file held before: config is written once and names  *)
(* no account, so there would be no second try (account_structs.rs:10-37,   *)
(* processor.rs:38-65).                                                     *)
VaultFollowsConfig ==
  \A p \in Programs : config[p] # None =>
    \E a \in VaultAccounts : MintOf[a] = config[p].vault /\ vault_owner[a] = p

(* What deposit asks of the accounts: it goes through for some vault        *)
(* account and the mint in config.                                          *)
TakesDeposits(p) ==
  /\ config[p] # None
  /\ mint_authority[config[p].mint] = p
  /\ \E a \in VaultAccounts : MintOf[a] = config[p].vault /\ vault_owner[a] = p

(* A program that takes deposits keeps its mints, and only its PDAs mint    *)
(* its PRIME and own its vault accounts, for good: no option, run again     *)
(* after others have been run, in part or for another program id, takes     *)
(* the mint or a vault account away from it.  The staking model rests on    *)
(* this: it takes the mints and the vault accounts as constants             *)
(* (config.sh:174-213, 264-274, account_structs.rs:103-130).                *)
KeepsWhatItHas ==
  \A p \in Programs : TakesDeposits(p) =>
    /\ config'[p] = config[p]
    /\ mint_authority'[config[p].mint] = p
    /\ \A a \in VaultAccounts : vault_owner[a] = p => vault_owner'[a] = p

OpenForGood == [][KeepsWhatItHas]_vars
=============================================================================
