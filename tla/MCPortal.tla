-------------------------------- MODULE MCPortal --------------------------------
(***************************************************************************)
(* The parts around the registry that share no state with one another: an  *)
(* instance is one of them, and the others stay as they began.             *)
(***************************************************************************)
EXTENDS LedgerExplorer, DeedStore, Accounts, ProofService, WebClient, ProverKeys

VARIABLE component   \* the part that this behaviour is about

PortalInit ==
    /\ component \in {"explorer", "deeds", "accounts", "proofs", "client", "keys"}
    /\ ExplorerInit /\ DeedInit /\ AccountsInit /\ ProofInit /\ ClientInit /\ KeysInit
    /\ component # "explorer" => ~online
    /\ component # "deeds" => config = [pinata |-> FALSE, key |-> NoDeed] /\ parcels = <<>>
    /\ component # "proofs" => \A p \in Plots : /\ titles[p].ownerId = CHOOSE u \in Holders : TRUE
                                               /\ titles[p].area = CHOOSE a \in Areas : TRUE
    /\ component # "client" => registry.status = "none"

PortalNext ==
    \/ /\ component = "explorer" /\ ExplorerNext
       /\ UNCHANGED <<component, deedVars, accountVars, proofVars, clientVars, keyVars>>
    \/ /\ component = "deeds" /\ DeedNext
       /\ UNCHANGED <<component, explorerVars, accountVars, proofVars, clientVars, keyVars>>
    \/ /\ component = "accounts" /\ AccountsNext
       /\ UNCHANGED <<component, explorerVars, deedVars, proofVars, clientVars, keyVars>>
    \/ /\ component = "proofs" /\ ProofNext
       /\ UNCHANGED <<component, explorerVars, deedVars, accountVars, clientVars, keyVars>>
    \/ /\ component = "client" /\ ClientNext
       /\ UNCHANGED <<component, explorerVars, deedVars, accountVars, proofVars, keyVars>>
    \/ /\ component = "keys" /\ KeysNext
       /\ UNCHANGED <<component, explorerVars, deedVars, accountVars, proofVars, clientVars>>

PortalSpec ==
    PortalInit /\ [][PortalNext]_<<component, explorerVars, deedVars, accountVars, proofVars,
                                   clientVars, keyVars>>
=============================================================================
