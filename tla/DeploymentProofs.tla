-------------------------- MODULE DeploymentProofs --------------------------
(***************************************************************************)
(* What is proved of Deployment: for any programs, mints and accounts.     *)
(***************************************************************************)
EXTENDS Deployment, TLAPS

LEMMA InitTyped == Init => TypeOK
<1> SUFFICES ASSUME Init PROVE TypeOK
  OBVIOUS
<1> USE DEF Init
<1>1. mint_authority \in [Mints -> Authorities] /\ freeze_authority \in [Mints -> Authorities]
  BY DEF Authorities
<1>2. vault_owner \in [VaultAccounts -> Authorities]
  BY DEF Authorities
<1>3. config \in [Programs -> Config \cup {None}]
  OBVIOUS
<1> QED
  BY <1>1, <1>2, <1>3 DEF TypeOK

(* An authority is handed to a program or not at all. *)
LEMMA AuthorizedTyped ==
  ASSUME NEW authority \in [Mints -> Authorities], TypeOK
  PROVE  Authorized(authority) \subseteq [Mints -> Authorities]
<1>1. CASE MINT_TOKEN # None /\ NewAuthority # None
  <2>1. NewAuthority \in Authorities
    BY <1>1 DEF TypeOK, NewAuthority, Authorities
  <2>2. [authority EXCEPT ![MINT_TOKEN] = NewAuthority] \in [Mints -> Authorities]
    BY <2>1
  <2> QED
    BY <2>2 DEF Authorized
<1>2. CASE ~(MINT_TOKEN # None /\ NewAuthority # None)
  BY <1>2 DEF Authorized
<1> QED
  BY <1>1, <1>2

LEMMA InitializeTyped ==
  ASSUME TypeOK, NEW p \in Programs, NEW v \in VaultMints, NEW m \in Mints,
         NEW a \in VaultAccounts, Initialize(p, v, m, a)
  PROVE  /\ config' \in [Programs -> Config \cup {None}]
         /\ vault_owner' \in [VaultAccounts -> Authorities]
<1>1. [vault |-> v, mint |-> m] \in Config
  BY DEF Config
<1>2. p \in Authorities
  BY DEF Authorities
<1> QED
  BY <1>1, <1>2 DEF TypeOK, Initialize

LEMMA StepTyped == TypeOK /\ [Next]_vars => TypeOK'
<1> SUFFICES ASSUME TypeOK, [Next]_vars PROVE TypeOK'
  OBVIOUS
<1> USE DEF TypeOK
<1>1. CASE BuildProgram /\ UNCHANGED menu
  BY <1>1 DEF BuildProgram, chain, history
<1>2. CASE DeployProgram /\ UNCHANGED menu
  BY <1>2 DEF DeployProgram, history
<1>3. CASE SetNewProgramId /\ UNCHANGED menu
  BY <1>3 DEF SetNewProgramId, chain, history
<1>4. CASE CreateMintToken /\ UNCHANGED menu
  <2>1. mint_authority' \in [Mints -> Authorities] /\ freeze_authority' \in [Mints -> Authorities]
    BY <1>4 DEF CreateMintToken, Authorities
  <2>2. MINT_TOKEN' \in Mints \cup {None}
    BY <1>4 DEF CreateMintToken
  <2> QED
    BY <1>4, <2>1, <2>2 DEF CreateMintToken, files
<1>5. CASE CreateVaultTokenAccount /\ UNCHANGED menu
  <2>1. Ata[VAULT_MINT] \in VaultAccounts
    BY DeploymentAssumption
  <2>2. vault_owner' \in [VaultAccounts -> Authorities]
    BY <1>5 DEF CreateVaultTokenAccount, Authorities
  <2>3. VAULT_TOKEN_ACCOUNT' \in VaultAccounts \cup {None}
    BY <1>5, <2>1 DEF CreateVaultTokenAccount
  <2> QED
    BY <1>5, <2>2, <2>3 DEF CreateVaultTokenAccount, files
<1>6. CASE InitializeProgram /\ UNCHANGED menu
  <2>1. PICK m \in Prompted(MINT_TOKEN, Mints), a \in Prompted(VAULT_TOKEN_ACCOUNT, VaultAccounts) :
          /\ MINT_TOKEN' = m /\ VAULT_TOKEN_ACCOUNT' = a
          /\ PDAS' \in {idl, None}
          /\ Initialize(idl, VAULT_MINT, m, a) \/ UNCHANGED chain
          /\ UNCHANGED <<VAULT_MINT, files>>
    BY <1>6 DEF InitializeProgram, InitializeScript
  <2>2. m \in Mints /\ a \in VaultAccounts
    BY DEF Prompted
  <2>3. idl \in Programs
    OBVIOUS
  <2>4. CASE Initialize(idl, VAULT_MINT, m, a)
    <3>1. config' \in [Programs -> Config \cup {None}] /\ vault_owner' \in [VaultAccounts -> Authorities]
      BY <2>2, <2>3, <2>4, InitializeTyped
    <3> QED
      BY <1>6, <2>1, <2>2, <2>3, <2>4, <3>1 DEF Initialize, files
  <2>5. CASE UNCHANGED chain
    BY <1>6, <2>1, <2>2, <2>3, <2>5 DEF chain, files
  <2> QED
    BY <2>1, <2>4, <2>5
<1>7. CASE InitializeWithout /\ UNCHANGED menu
  BY <1>7 DEF InitializeWithout, chain, files
<1>8. CASE SetMintAuthority
  <2>1. mint_authority' \in [Mints -> Authorities]
    BY <1>8, AuthorizedTyped DEF SetMintAuthority
  <2> QED
    BY <1>8, <2>1 DEF SetMintAuthority, history, files
<1>9. CASE SetFreezeAuthority
  <2>1. freeze_authority' \in [Mints -> Authorities]
    BY <1>9, AuthorizedTyped DEF SetFreezeAuthority
  <2> QED
    BY <1>9, <2>1 DEF SetFreezeAuthority, history, files
<1>10. CASE Interrupt
  BY <1>10 DEF Interrupt, chain, history, files
<1>11. CASE UNCHANGED vars
  BY <1>11 DEF vars, chain, history, files
<1> QED
  BY <1>1, <1>2, <1>3, <1>4, <1>5, <1>6, <1>7, <1>8, <1>9, <1>10, <1>11 DEF Next, Option

(* Programs, mints and accounts keep their types whatever the operator does *)
(* at the menu.                                                             *)
THEOREM DeploymentTypeCorrect == Spec => []TypeOK
<1> QED
  BY InitTyped, StepTyped, PTL DEF Spec
-----------------------------------------------------------------------------
(* What a program owns it never loses, and its config is written once. *)
Kept ==
  /\ \A p \in Programs : config[p] # None => config'[p] = config[p]
  /\ \A p \in Programs, m \in Mints : mint_authority[m] = p => mint_authority'[m] = p
  /\ \A p \in Programs, a \in VaultAccounts : vault_owner[a] = p => vault_owner'[a] = p

(* A config that appears comes with a vault account. *)
NewConfigHasVault ==
  \A p \in Programs : config[p] = None /\ config'[p] # None =>
    \E a \in VaultAccounts : MintOf[a] = config'[p].vault /\ vault_owner'[a] = p

LEMMA InitializeKeeps ==
  ASSUME TypeOK, NEW p \in Programs, NEW v \in VaultMints, NEW m \in Mints,
         NEW a \in VaultAccounts, Initialize(p, v, m, a)
  PROVE  Kept /\ NewConfigHasVault
<1> USE DEF TypeOK
<1>1. /\ config[p] = None
      /\ config' = [config EXCEPT ![p] = [vault |-> v, mint |-> m]]
      /\ vault_owner' = [vault_owner EXCEPT ![a] = IF @ = Operator THEN p ELSE @]
      /\ mint_authority' = mint_authority
      /\ MintOf[a] = v
      /\ vault_owner[a] \in {Operator, p}
  BY DEF Initialize, InitializeAccounts
<1>2. \A q \in Programs : config[q] # None => config'[q] = config[q]
  BY <1>1
<1>3. \A q \in Programs, b \in VaultAccounts : vault_owner[b] = q => vault_owner'[b] = q
  BY <1>1, DeploymentAssumption
<1>4. vault_owner'[a] = p
  BY <1>1
<1>5. config'[p] = [vault |-> v, mint |-> m]
  BY <1>1
<1>6. \A q \in Programs : q # p => config'[q] = config[q]
  BY <1>1
<1>7. NewConfigHasVault
  BY <1>1, <1>4, <1>5, <1>6 DEF NewConfigHasVault
<1> QED
  BY <1>1, <1>2, <1>3, <1>7 DEF Kept

LEMMA StepKeeps == TypeOK /\ [Next]_vars => Kept /\ NewConfigHasVault
<1> SUFFICES ASSUME TypeOK, [Next]_vars PROVE Kept /\ NewConfigHasVault
  OBVIOUS
<1> USE DEF Kept, NewConfigHasVault
<1>1. CASE CreateMintToken
  <2>1. \A m \in Mints : mint_authority[m] # None => mint_authority'[m] = mint_authority[m]
    BY <1>1 DEF CreateMintToken, TypeOK
  <2> QED
    BY <1>1, <2>1, DeploymentAssumption DEF CreateMintToken
<1>2. CASE CreateVaultTokenAccount
  <2>1. \A a \in VaultAccounts : vault_owner[a] # None => vault_owner'[a] = vault_owner[a]
    BY <1>2 DEF CreateVaultTokenAccount, TypeOK
  <2> QED
    BY <1>2, <2>1, DeploymentAssumption DEF CreateVaultTokenAccount
<1>3. CASE InitializeProgram
  <2>1. PICK m \in Prompted(MINT_TOKEN, Mints), a \in Prompted(VAULT_TOKEN_ACCOUNT, VaultAccounts) :
          Initialize(idl, VAULT_MINT, m, a) \/ UNCHANGED chain
    BY <1>3 DEF InitializeProgram, InitializeScript
  <2>2. m \in Mints /\ a \in VaultAccounts /\ idl \in Programs /\ VAULT_MINT \in VaultMints
    BY DEF Prompted, TypeOK
  <2>3. CASE Initialize(idl, VAULT_MINT, m, a)
    BY <2>2, <2>3, InitializeKeeps
  <2>4. CASE UNCHANGED chain
    BY <2>4 DEF chain
  <2> QED
    BY <2>1, <2>3, <2>4
<1>4. CASE SetMintAuthority
  <2>1. \A m \in Mints : mint_authority[m] # Operator => mint_authority'[m] = mint_authority[m]
    BY <1>4 DEF SetMintAuthority, Authorized, TypeOK
  <2> QED
    BY <1>4, <2>1, DeploymentAssumption DEF SetMintAuthority
<1>5. CASE UNCHANGED <<mint_authority, vault_owner, config>>
  BY <1>5
<1>6. CASE BuildProgram \/ DeployProgram \/ SetNewProgramId \/ InitializeWithout
             \/ SetFreezeAuthority \/ Interrupt \/ UNCHANGED vars
  BY <1>5, <1>6 DEF BuildProgram, DeployProgram, SetNewProgramId, InitializeWithout,
                    SetFreezeAuthority, Interrupt, vars, chain
<1> QED
  BY <1>1, <1>2, <1>3, <1>4, <1>6 DEF Next, Option

(* An initialized program has a vault account of the mint in its config,    *)
(* after any sequence of options and failures.                              *)
THEOREM VaultsFollowConfigs == Spec => []VaultFollowsConfig
<1>1. Init => VaultFollowsConfig
  BY DEF Init, VaultFollowsConfig
<1>2. TypeOK /\ VaultFollowsConfig /\ [Next]_vars => VaultFollowsConfig'
  <2> SUFFICES ASSUME TypeOK, VaultFollowsConfig, [Next]_vars,
                      NEW p \in Programs, config'[p] # None
               PROVE  \E a \in VaultAccounts : MintOf[a] = config'[p].vault /\ vault_owner'[a] = p
    BY DEF VaultFollowsConfig
  <2>1. Kept /\ NewConfigHasVault
    BY StepKeeps
  <2>2. CASE config[p] = None
    BY <2>1, <2>2 DEF NewConfigHasVault
  <2>3. CASE config[p] # None
    <3>1. PICK a \in VaultAccounts : MintOf[a] = config[p].vault /\ vault_owner[a] = p
      BY <2>3 DEF VaultFollowsConfig
    <3>2. config'[p] = config[p] /\ vault_owner'[a] = p
      BY <2>1, <2>3, <3>1 DEF Kept
    <3> QED
      BY <3>1, <3>2
  <2> QED
    BY <2>2, <2>3
<1> QED
  BY <1>1, <1>2, DeploymentTypeCorrect, PTL DEF Spec

(* A program that takes deposits keeps its mints and its vault accounts for *)
(* good, whatever options are run after.                                    *)
THEOREM OpenForGoodHolds == Spec => OpenForGood
<1>1. TypeOK /\ [Next]_vars => [KeepsWhatItHas]_vars
  <2> SUFFICES ASSUME TypeOK, [Next]_vars PROVE KeepsWhatItHas
    OBVIOUS
  <2>1. Kept
    BY StepKeeps
  <2>2. \A p \in Programs : config[p] # None => config[p].mint \in Mints
    BY DEF TypeOK, Config
  <2> QED
    BY <2>1, <2>2 DEF KeepsWhatItHas, TakesDeposits, Kept
<1> QED
  BY <1>1, DeploymentTypeCorrect, PTL DEF Spec, OpenForGood
=============================================================================
