------------------------------ MODULE Registry ------------------------------
(***************************************************************************)
(* agent_id::registry: the shared table of agent identities.  The          *)
(* marketplace reads two facts of it: who is registered (a registered      *)
(* buyer cannot hide a reject from its own score) and who is active (only  *)
(* active agents claim).  Neither read checks the Registry's version.      *)
(*                                                                         *)
(* An agent's descriptive fields (endpoint, payment methods, did, metadata *)
(* uri) are one value, its profile, as `update` replaces them together.    *)
(***************************************************************************)
EXTENDS Naturals, FiniteSets

CONSTANTS
  Agent,                \* addresses that may register
  Profile,              \* what an agent may say of itself
  REGISTRY_VERSION,     \* the version the running package expects
  LaunchRegistryVersion,\* the version the shared Registry starts with
  LaunchAgents          \* the agents registered when the model starts

VARIABLES
  registry_version,
  agents,               \* address -> AgentRecord, for the registered ones
  next_id

registryVars == <<registry_version, agents, next_id>>

AgentRecord == [numeric_id : Nat, profile : Profile, active : BOOLEAN]

\* Numeric ids count the registrations.
IdsAreDense(table, next) ==
  {table[a].numeric_id : a \in DOMAIN table} = 1..Cardinality(DOMAIN table)
  /\ next = Cardinality(DOMAIN table) + 1

ASSUME RegistryAssumption ==
  /\ IsFiniteSet(Agent)
  /\ REGISTRY_VERSION \in Nat
  /\ LaunchRegistryVersion \in 0..REGISTRY_VERSION
  /\ DOMAIN LaunchAgents \subseteq Agent
  /\ LaunchAgents \in [DOMAIN LaunchAgents -> AgentRecord]
  /\ IdsAreDense(LaunchAgents, Cardinality(DOMAIN LaunchAgents) + 1)

RegistryInit ==
  /\ registry_version = LaunchRegistryVersion
  /\ agents = LaunchAgents
  /\ next_id = Cardinality(DOMAIN LaunchAgents) + 1

assert_registry_version == registry_version = REGISTRY_VERSION

is_registered(a) == a \in DOMAIN agents

is_active_agent(a) == is_registered(a) /\ agents[a].active

\* The next number goes to the sender.
AddRecord(a, p) ==
  /\ agents' = [x \in DOMAIN agents \cup {a} |->
                  IF x = a THEN [numeric_id |-> next_id, profile |-> p, active |-> TRUE]
                           ELSE agents[x]]
  /\ next_id' = next_id + 1
  /\ UNCHANGED registry_version

register(a, p) ==
  /\ assert_registry_version
  /\ ~is_registered(a)
  /\ AddRecord(a, p)

update(a, p) ==
  /\ assert_registry_version
  /\ is_registered(a)
  /\ agents' = [agents EXCEPT ![a].profile = p]
  /\ UNCHANGED <<registry_version, next_id>>

\* The sender must be the agent it names.
set_active(sender, a, active) ==
  /\ assert_registry_version
  /\ is_registered(a)
  /\ sender = a
  /\ agents' = [agents EXCEPT ![a].active = active]
  /\ UNCHANGED <<registry_version, next_id>>

registry_migrate ==
  /\ registry_version < REGISTRY_VERSION
  /\ registry_version' = REGISTRY_VERSION
  /\ UNCHANGED <<agents, next_id>>

RegistryNext ==
  \/ \E a \in Agent, p \in Profile : register(a, p)
  \/ \E a \in Agent, p \in Profile : update(a, p)
  \/ \E sender, a \in Agent, active \in BOOLEAN : set_active(sender, a, active)
  \/ registry_migrate

RegistrySpec == RegistryInit /\ [][RegistryNext]_registryVars
-----------------------------------------------------------------------------
\* The type of the state.
RegistryTypeOK ==
  /\ registry_version \in 0..REGISTRY_VERSION
  /\ DOMAIN agents \subseteq Agent
  /\ agents \in [DOMAIN agents -> AgentRecord]
  /\ next_id \in Nat

=============================================================================
