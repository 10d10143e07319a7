----------------------------- MODULE MCAgentSdk -----------------------------
(***************************************************************************)
(* Four independent parts of the SDK in one instance: a behaviour is one of *)
(* the spending gate, of the composer, of the token moves or of the seller's*)
(* catalog, while the other three rest.                                     *)
(***************************************************************************)
EXTENDS MCAgentWallet, MCComposeTx, MCTokenMoves, MCServiceCatalog

VARIABLE part

sdkVars == <<part, walletVars, composeVars, tokenVars, catalogVars>>

WalletRests ==
  /\ day = 0 /\ file = Unreadable /\ deposits = 0
  /\ io = [h \in Host |-> Idle] /\ call = [c \in Call |-> NewCall]
  /\ purse = [addr |-> 0, coins |-> 0]
  /\ hist = [counted |-> 0, wanted |-> NoLimits, others |-> FALSE]

ComposeRests ==
  /\ plan = <<>> /\ sponsored = FALSE /\ changes = 0 /\ at = 0
  /\ wallet = [t \in CoinType |-> [objects |-> <<>>, addr |-> 0]]
  /\ cmds = <<>> /\ cache = [t \in CoinType |-> Unmerged] /\ verdict = "open"

TokensRest ==
  /\ now = 0 /\ rate = 1 /\ quotes = {} /\ moves = 0 /\ op = NoOp
  /\ funds = [c \in Coin |-> 0]

CatalogRests ==
  /\ listings = [s \in Slug |-> Omitted]
  /\ standing = [registered |-> FALSE, category |-> Omitted, endpoint |-> Omitted]
  /\ run = [c \in Command |-> Fresh]

SdkInit ==
  \/ part = "gate"     /\ WalletInit  /\ ComposeRests /\ TokensRest /\ CatalogRests
  \/ part = "composer" /\ WalletRests /\ ComposeInit  /\ TokensRest /\ CatalogRests
  \/ part = "tokens"   /\ WalletRests /\ ComposeRests /\ TokenInit  /\ CatalogRests
  \/ part = "catalog"  /\ WalletRests /\ ComposeRests /\ TokensRest /\ CatalogInit

SdkNext ==
  /\ UNCHANGED part
  /\ \/ part = "gate"     /\ WalletNext  /\ UNCHANGED <<composeVars, tokenVars, catalogVars>>
     \/ part = "composer" /\ ComposeNext /\ UNCHANGED <<walletVars, tokenVars, catalogVars>>
     \/ part = "tokens"   /\ TokenNext   /\ UNCHANGED <<walletVars, composeVars, catalogVars>>
     \/ part = "catalog"  /\ CatalogNext /\ UNCHANGED <<walletVars, composeVars, tokenVars>>

\* Calls are interchangeable, and so are commands.
SdkSymmetry == CallSymmetry \union CommandSymmetry

SdkSpec == SdkInit /\ [][SdkNext]_sdkVars
=============================================================================
