---------------------------- MODULE ComponentStore ----------------------------
(***************************************************************************)
(* The orchestrator's registry, orchestrator/store.go: which agents and    *)
(* generators are registered, the list of agents each generator has been   *)
(* given, and which components have a status they were not yet told about. *)
(*                                                                         *)
(* Every operation takes the store's one lock for its whole body, so it is *)
(* one action.  A Go map is a function or, when the model needs no value,  *)
(* its set of keys.  A spec stands for the ProbingAgentSpec object; of its *)
(* fields only GrpcAddress is ever compared, and AddressOf gives it.       *)
(***************************************************************************)
EXTENDS Integers, FiniteSets, SequencesExt

CONSTANTS
  AgentUuids,       \* the ids agents may be registered under
  GeneratorUuids,   \* the ids generators may be registered under
  Specs,            \* agent specs
  Addresses,        \* values of their GrpcAddress field
  AddressOf,        \* the address of each spec
  SharedAddresses   \* whether an agent may join with an address in use

ASSUME AddressAssumption == AddressOf \in [Specs -> Addresses]
ASSUME SharedAssumption == SharedAddresses \in BOOLEAN

VARIABLES
  agentSpecs,           \* registered agents: id -> spec
  agentStatus,          \* keys of the agents' status map
  generatorSpecs,       \* keys of the generators' spec map
  generatorStatus,      \* keys of the generators' status map
  agentLists,           \* AgentSpecs field of the status object of each generator;
                        \* an object that left the map keeps its last value
  dirtyAgentUuids,      \* ids waiting for the next agent notification
  dirtyGeneratorUuids   \* ids waiting for the next generator notification

agentVars == <<agentSpecs, agentStatus, dirtyAgentUuids>>
generatorVars == <<generatorSpecs, generatorStatus, agentLists, dirtyGeneratorUuids>>
storeVars == <<agentVars, generatorVars>>

Registered == DOMAIN agentSpecs

Init ==
  /\ agentSpecs = << >>
  /\ agentStatus = {}
  /\ generatorSpecs = {}
  /\ generatorStatus = {}
  /\ agentLists = [u \in GeneratorUuids |-> << >>]
  /\ dirtyAgentUuids = {}
  /\ dirtyGeneratorUuids = {}

-----------------------------------------------------------------------------
(* Operations on one generator's list.  Entries are matched by address.    *)

HasAddress(list, a) == \E i \in DOMAIN list : AddressOf[list[i]] = a

FirstWith(list, a) == SelectInSeq(list, LAMBDA t : AddressOf[t] = a)

\* Appended unless an entry with that address is there already.
AppendSpec(list, s) ==
  IF HasAddress(list, AddressOf[s]) THEN list ELSE Append(list, s)

\* The first entry with the address becomes s.
ReplaceSpec(list, s) ==
  IF HasAddress(list, AddressOf[s])
    THEN ReplaceAt(list, FirstWith(list, AddressOf[s]), s)
    ELSE list

\* Mutant: the element after the match is removed.
RemoveNextSpec(list, s) ==
  IF HasAddress(list, AddressOf[s])
    THEN RemoveAt(list, 1 + FirstWith(list, AddressOf[s]))
    ELSE list

\* The first entry with the address of s goes.
RemoveSpec(list, s) ==
  IF HasAddress(list, AddressOf[s])
    THEN RemoveAt(list, FirstWith(list, AddressOf[s]))
    ELSE list

\* What a loop over the agent map can collect: every spec, in any order.
SpecListings ==
  { [i \in DOMAIN order |-> agentSpecs[order[i]]] : order \in SetToSeqs(Registered) }

-----------------------------------------------------------------------------
(* Operations on agents.                                                   *)

\* The loop over the registered generators' lists.
ChangeLists(Op(_)) ==
  agentLists' = [g \in GeneratorUuids |->
                   IF g \in generatorStatus THEN Op(agentLists[g]) ELSE agentLists[g]]

\* Mutant: the generators are not marked.
MarkNone == UNCHANGED dirtyGeneratorUuids

MarkGenerators == dirtyGeneratorUuids' = dirtyGeneratorUuids \cup generatorStatus

PutAgent(u, s) ==
  /\ agentSpecs' = [v \in Registered \cup {u} |-> IF v = u THEN s ELSE agentSpecs[v]]
  /\ agentStatus' = agentStatus \cup {u}

\* AddOrUpdateAgent for an id that is not registered.
AddAgent(u, s) ==
  /\ u \notin Registered
  /\ PutAgent(u, s)
  /\ ChangeLists(LAMBDA l : AppendSpec(l, s))
  /\ MarkGenerators
  /\ UNCHANGED <<generatorSpecs, generatorStatus, dirtyAgentUuids>>

\* AddOrUpdateAgent for an id that is: the generators are not marked.
UpdateAgent(u, s) ==
  /\ u \in Registered
  /\ PutAgent(u, s)
  /\ ChangeLists(LAMBDA l : ReplaceSpec(l, s))
  /\ dirtyAgentUuids' = dirtyAgentUuids \cup {u}
  /\ UNCHANGED <<generatorSpecs, generatorStatus, dirtyGeneratorUuids>>

RemoveAgent(u) ==
  /\ u \in Registered
  /\ agentSpecs' = Restrict(agentSpecs, Registered \ {u})
  /\ agentStatus' = agentStatus \ {u}
  /\ dirtyAgentUuids' = dirtyAgentUuids \ {u}
  /\ ChangeLists(LAMBDA l : RemoveSpec(l, agentSpecs[u]))
  /\ MarkGenerators
  /\ UNCHANGED <<generatorSpecs, generatorStatus>>

\* Mutant: the id is put in the generators' set.
UpdateAgentStatusMisfiled(u) ==
  /\ u \in Registered
  /\ agentStatus' = agentStatus \cup {u}
  /\ dirtyGeneratorUuids' = dirtyGeneratorUuids \cup {u}
  /\ UNCHANGED <<agentSpecs, dirtyAgentUuids, generatorSpecs, generatorStatus, agentLists>>

UpdateAgentStatus(u) ==
  /\ u \in Registered
  /\ agentStatus' = agentStatus \cup {u}
  /\ dirtyAgentUuids' = dirtyAgentUuids \cup {u}
  /\ UNCHANGED <<agentSpecs, generatorVars>>

\* The ids GetDirtyAgentUuids returns; every flag is cleared.
DirtyAgents == dirtyAgentUuids \cap agentStatus

GetDirtyAgentUuids ==
  /\ dirtyAgentUuids' = {}
  /\ UNCHANGED <<agentSpecs, agentStatus, generatorVars>>

-----------------------------------------------------------------------------
(* Operations on generators.                                               *)

\* Mutant: a new generator starts without a list.
AddGeneratorUnpopulated(u) ==
  /\ u \notin generatorSpecs
  /\ generatorSpecs' = generatorSpecs \cup {u}
  /\ generatorStatus' = generatorStatus \cup {u}
  /\ agentLists' = [agentLists EXCEPT ![u] = << >>]
  /\ UNCHANGED <<agentVars, dirtyGeneratorUuids>>

\* AddOrUpdateGenerator for an id that is not registered: whatever list the
\* status came with is overwritten, and the generator is not marked.
AddGenerator(u) ==
  /\ u \notin generatorSpecs
  /\ generatorSpecs' = generatorSpecs \cup {u}
  /\ generatorStatus' = generatorStatus \cup {u}
  /\ \E list \in SpecListings : agentLists' = [agentLists EXCEPT ![u] = list]
  /\ UNCHANGED <<agentVars, dirtyGeneratorUuids>>

\* A status object with the given list replaces the stored one.
PutGeneratorStatus(u, list) ==
  /\ u \in generatorSpecs
  /\ generatorStatus' = generatorStatus \cup {u}
  /\ agentLists' = [agentLists EXCEPT ![u] = list]
  /\ dirtyGeneratorUuids' = dirtyGeneratorUuids \cup {u}
  /\ UNCHANGED <<agentVars, generatorSpecs>>

\* AddOrUpdateGenerator for an id that is registered.
UpdateGenerator(u, list) == PutGeneratorStatus(u, list)

UpdateGeneratorStatus(u, list) == PutGeneratorStatus(u, list)

\* Mutant: the dirty flag survives.
RemoveGeneratorFlagged(u) ==
  /\ u \in generatorSpecs
  /\ generatorSpecs' = generatorSpecs \ {u}
  /\ generatorStatus' = generatorStatus \ {u}
  /\ UNCHANGED <<agentVars, agentLists, dirtyGeneratorUuids>>

RemoveGenerator(u) ==
  /\ u \in generatorSpecs
  /\ generatorSpecs' = generatorSpecs \ {u}
  /\ generatorStatus' = generatorStatus \ {u}
  /\ dirtyGeneratorUuids' = dirtyGeneratorUuids \ {u}
  /\ UNCHANGED <<agentVars, agentLists>>

DirtyGenerators == dirtyGeneratorUuids \cap generatorStatus

GetDirtyGeneratorUuids ==
  /\ dirtyGeneratorUuids' = {}
  /\ UNCHANGED <<agentVars, generatorSpecs, generatorStatus, agentLists>>

\* newComponentStore: nothing of the store outlives the orchestrator's process.
NewComponentStore ==
  /\ agentSpecs' = << >>
  /\ agentStatus' = {}
  /\ generatorSpecs' = {}
  /\ generatorStatus' = {}
  /\ agentLists' = [u \in GeneratorUuids |-> << >>]
  /\ dirtyAgentUuids' = {}
  /\ dirtyGeneratorUuids' = {}
-----------------------------------------------------------------------------
(* Spec: every exported operation, called by anyone at any time, with any  *)
(* spec.  A caller that updates a generator passes a status with the list  *)
(* it read or an empty one.                                                *)

AddOrUpdateAgent(u, s) == AddAgent(u, s) \/ UpdateAgent(u, s)

AddOrUpdateGenerator(u, list) == AddGenerator(u) \/ UpdateGenerator(u, list)

Next ==
  \/ \E u \in AgentUuids, s \in Specs : AddOrUpdateAgent(u, s)
  \/ \E u \in AgentUuids : RemoveAgent(u) \/ UpdateAgentStatus(u)
  \/ \E u \in GeneratorUuids : \E list \in {<< >>, agentLists[u]} :
        AddOrUpdateGenerator(u, list) \/ UpdateGeneratorStatus(u, list)
  \/ \E u \in GeneratorUuids : RemoveGenerator(u)
  \/ GetDirtyAgentUuids
  \/ GetDirtyGeneratorUuids

Spec == Init /\ [][Next]_storeVars

-----------------------------------------------------------------------------
(* ManagedSpec: the operations the orchestrator's manager really calls.    *)
(* Every join is given a fresh id, so the update branches are never taken, *)
(* and a restart of the orchestrator starts from an empty store.           *)

AddressFree(s) == \A v \in Registered : AddressOf[agentSpecs[v]] # AddressOf[s]

JoinedAgent(u, s) ==
  /\ SharedAddresses \/ AddressFree(s)
  /\ AddAgent(u, s)

ManagedNext ==
  \/ \E u \in AgentUuids, s \in Specs : JoinedAgent(u, s)
  \/ \E u \in AgentUuids : RemoveAgent(u)
  \/ \E u \in GeneratorUuids : AddGenerator(u) \/ RemoveGenerator(u)
  \/ GetDirtyAgentUuids
  \/ GetDirtyGeneratorUuids
  \/ NewComponentStore

ManagedSpec == Init /\ [][ManagedNext]_storeVars

-----------------------------------------------------------------------------
(* Properties.                                                             *)

\* The shape of the state: lists hold specs, maps hold ids.
TypeOK ==
  /\ Registered \subseteq AgentUuids
  /\ agentSpecs \in [Registered -> Specs]
  /\ agentStatus \subseteq AgentUuids
  /\ generatorSpecs \subseteq GeneratorUuids
  /\ generatorStatus \subseteq GeneratorUuids
  /\ agentLists \in [GeneratorUuids -> Seq(Specs)]
  /\ dirtyAgentUuids \subseteq AgentUuids
  /\ dirtyGeneratorUuids \subseteq GeneratorUuids

\* The maps of a component never disagree about who is registered, and only a
\* registered component is dirty: GetAgent and GetGenerator look in one map and
\* return from the other, and the notification loop dereferences the result.
KeysAgree ==
  /\ agentStatus = Registered
  /\ generatorStatus = generatorSpecs
  /\ dirtyAgentUuids \subseteq agentStatus
  /\ dirtyGeneratorUuids \subseteq generatorStatus

Entries(list, a) == {i \in DOMAIN list : AddressOf[list[i]] = a}
AgentsAt(a) == {u \in Registered : AddressOf[agentSpecs[u]] = a}

\* As the manager uses the store, a list has at most as many entries for an
\* address as agents are registered there, also when agents share an address.  It is
\* a count: whose entry is left when one of several agents at an address leaves is
\* another matter, the first match goes (store.go:99-105).
NoGhosts ==
  \A u \in generatorStatus, a \in Addresses :
    Cardinality(Entries(agentLists[u], a)) <= Cardinality(AgentsAt(a))

ListedAddresses(list) == {AddressOf[list[i]] : i \in DOMAIN list}

\* When the addresses in a registered generator's list change, that generator is
\* marked for notification in the same step (it would otherwise never be told).
Announced ==
  \A u \in generatorStatus \cap generatorStatus' :
    ListedAddresses(agentLists'[u]) # ListedAddresses(agentLists[u])
      => u \in dirtyGeneratorUuids'

ChangeIsAnnounced == [][Announced]_storeVars

\* The list of a registered generator is exactly the registered agents, each once.
\* True of the manager's calls as long as no two agents share an address.
ListsExact ==
  \A g \in generatorStatus :
    /\ Len(agentLists[g]) = Cardinality(Registered)
    /\ {agentLists[g][i] : i \in DOMAIN agentLists[g]} = {agentSpecs[u] : u \in Registered}
=============================================================================
