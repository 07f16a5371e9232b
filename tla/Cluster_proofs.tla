----------------------------- MODULE Cluster_proofs -----------------------------
(***************************************************************************)
(* Proofs about the cluster, for any number of agents and generators, any  *)
(* number of attempts and of restarts, and every failure.                  *)
(*                                                                         *)
(* Every step of the cluster is a step of the registry as its manager uses *)
(* it, or leaves it alone; what is proved of the registry carries over.    *)
(***************************************************************************)
EXTENDS Cluster, TLAPS

\* The registry, agents not being kept from joining with an address in use: after
\* a failed attempt an agent joins again beside its own old registration.
AnyUse == INSTANCE ComponentStore_proofs WITH Specs <- Agents, SharedAddresses <- TRUE

-----------------------------------------------------------------------------
(* Ids.                                                                    *)

\* An id belongs to a process, agents' ids to agents and generators' to generators.
LEMMA UuidFacts ==
  /\ \A c \in Components : MaxJoins[c] \in Nat
  /\ \A c \in Components : \A n \in 1..MaxJoins[c] : <<c, n>> \in Uuids /\ Owner(<<c, n>>) = c
  /\ \A u \in Uuids : Owner(u) \in Components
  /\ \A u \in AgentUuids : u \in Uuids /\ Owner(u) \in Agents
  /\ \A u \in GeneratorUuids : u \in Uuids /\ Owner(u) \in Generators
  /\ \A u \in Uuids : Owner(u) \in ToldOf(u) /\ ToldOf(u) \subseteq Components
  /\ \A u \in GeneratorUuids : Target(u) \in ToldOf(u)
<1>1. \A c \in Components : MaxJoins[c] \in Nat
  BY BoundsAssumption DEF Components
<1>2. \A u \in AgentUuids : u \in Uuids /\ Owner(u) \in Agents
  BY DEF AgentUuids, Uuids, Owner
<1>3. \A u \in GeneratorUuids : u \in Uuids /\ Owner(u) \in Generators
  BY DEF GeneratorUuids, Uuids, Owner
<1>4. ASSUME NEW c \in Components, NEW n \in 1..MaxJoins[c]
      PROVE  <<c, n>> \in Uuids /\ Owner(<<c, n>>) = c
  BY DEF Components, AgentUuids, GeneratorUuids, Uuids, Owner
<1>5. \A u \in Uuids : Owner(u) \in ToldOf(u) /\ ToldOf(u) \subseteq Components
  BY <1>2, <1>3, AddresseeAssumption DEF Uuids, ToldOf, Components
<1>6. \A u \in GeneratorUuids : Target(u) \in ToldOf(u)
  BY <1>3 DEF ToldOf, Target
<1> QED BY <1>1, <1>2, <1>3, <1>4, <1>5, <1>6 DEF Uuids, Components

-----------------------------------------------------------------------------
(* The inductive invariant.                                                *)

\* TypeOK without its part on the registry, which is proved there.
NetTypes ==
  /\ notify \subseteq GeneratorUuids
  /\ calls \in [GeneratorUuids -> Nat]
  /\ updates \in [GeneratorUuids -> Seq(Seq(Agents))]
  /\ joinRpc \in [Uuids -> {"none", "sent", "added", "replied", "closed"}]
  /\ replies \in [GeneratorUuids -> Seq(Agents)]
  /\ leaves \subseteq Uuids
  /\ restarts \in 0..MaxRestarts
  /\ phase \in [Components -> {"retry", "joining", "joined", "streaming", "broken", "done"}]
  /\ run \in [Components -> {"running", "cancelled", "leaving", "exited"}]
  /\ attempts \in [Components -> Nat]
  /\ \A c \in Components : attempts[c] <= MaxJoins[c]
  /\ status \in [Components -> [uuid : Uuids \cup {<<>>}, list : Seq(Agents)]]
  /\ tried \in [GeneratorUuids -> Seq(Agents)]

\* Joins are numbered in order: the call of a later attempt was never made.
Numbered ==
  /\ \A c \in Components : \A n \in 1..MaxJoins[c] :
        n > attempts[c] => joinRpc[<<c, n>>] = "none"
  /\ \A c \in Components : phase[c] = "joining" => attempts[c] >= 1

\* A registered generator's Join was served, so no attempt reuses its id.
Served == \A u \in generatorSpecs : joinRpc[u] \in {"added", "replied", "closed"}

\* A component's status has an id it may have been told, and it leaves only on shutdown.
OwnStatus == \A c \in Components : status[c] # NoStatus =>
               status[c].uuid \in Uuids /\ c \in ToldOf(status[c].uuid)
OwnLeaves == \A u \in leaves : \E c \in ToldOf(u) : run[c] \in {"leaving", "exited"}

\* ChangesAttempted alone is not inductive: a new attempt under an id in use would
\* make the orchestrator forget the answer it owes.
IInv ==
  /\ AnyUse!StoreInv
  /\ dirtyAgentUuids = {}
  /\ NetTypes
  /\ Numbered
  /\ Served
  /\ OwnStatus
  /\ OwnLeaves
  /\ ChangesAttempted

\* What the rest of the cluster needs to know of the registry.
LEMMA RegistryFacts ==
  ASSUME AnyUse!StoreInv
  PROVE  /\ agentLists \in [GeneratorUuids -> Seq(Agents)]
         /\ DOMAIN agentSpecs \subseteq AgentUuids
         /\ generatorSpecs \subseteq GeneratorUuids
         /\ generatorStatus = generatorSpecs
         /\ dirtyGeneratorUuids \subseteq generatorSpecs
         /\ dirtyAgentUuids \subseteq AgentUuids
BY DEF AnyUse!StoreInv, AnyUse!TypeOK, AnyUse!KeysAgree, AnyUse!Registered

\* Nothing is registered, in flight or numbered at the start.
LEMMA InitIInv == Init => IInv
<1> SUFFICES ASSUME Init PROVE IInv
  OBVIOUS
<1>1. AnyUse!StoreInv
  BY AnyUse!InitInv, AddressesAssumption DEF Init, Store!Init, AnyUse!Init
<1>2. << >> \in Seq(Agents) /\ << >> \in Seq(Seq(Agents))
  OBVIOUS
<1>3. NetTypes
  BY <1>2, UuidFacts, BoundsAssumption DEF Init, NetTypes, NoStatus
<1>4. Numbered
  BY UuidFacts DEF Init, Numbered
<1> QED BY <1>1, <1>3, <1>4
        DEF Init, IInv, Store!Init, Served, OwnStatus, OwnLeaves, ChangesAttempted

-----------------------------------------------------------------------------
(* The registry under the cluster's steps.                                 *)

\* One case per action: the call it makes on the store, or none.
LEMMA StoreStep ==
  ASSUME IInv, Next
  PROVE  [AnyUse!ManagedNext]_AnyUse!storeVars
<1> DEFINE Goal == [AnyUse!ManagedNext]_AnyUse!storeVars
<1>1. ASSUME UNCHANGED storeVars PROVE Goal
  BY <1>1 DEF storeVars, AnyUse!storeVars, AnyUse!agentVars, AnyUse!generatorVars
<1>2. ASSUME NEW u \in AgentUuids, JoinAgent(u) PROVE Goal
  <2>1. AnyUse!JoinedAgent(u, Owner(u))
    BY <1>2 DEF JoinAgent, Store!AddAgent, AnyUse!JoinedAgent, AnyUse!AddAgent,
       Store!PutAgent, AnyUse!PutAgent, Store!ChangeLists, AnyUse!ChangeLists,
       Store!AppendSpec, AnyUse!AppendSpec, Store!HasAddress, AnyUse!HasAddress,
       Store!MarkGenerators, AnyUse!MarkGenerators, Store!Registered, AnyUse!Registered
  <2> QED BY <2>1, UuidFacts DEF AnyUse!ManagedNext
<1>3. ASSUME NEW u \in GeneratorUuids, Store!AddGenerator(u) PROVE Goal
  <2>1. AnyUse!AddGenerator(u)
    BY <1>3 DEF Store!AddGenerator, AnyUse!AddGenerator, Store!SpecListings,
       AnyUse!SpecListings, Store!SetToSeqs, AnyUse!SetToSeqs, Store!Cardinality,
       AnyUse!Cardinality, Store!Registered, AnyUse!Registered,
       Store!agentVars, AnyUse!agentVars
  <2> QED BY <2>1 DEF AnyUse!ManagedNext
<1>4. ASSUME NEW u, Store!RemoveAgent(u) PROVE Goal
  <2>1. AnyUse!RemoveAgent(u)
    BY <1>4 DEF Store!RemoveAgent, AnyUse!RemoveAgent, Store!ChangeLists,
       AnyUse!ChangeLists, Store!RemoveSpec, AnyUse!RemoveSpec, Store!HasAddress,
       AnyUse!HasAddress, Store!FirstWith, AnyUse!FirstWith, Store!SelectInSeq,
       AnyUse!SelectInSeq, Store!Min, AnyUse!Min, Store!RemoveAt, AnyUse!RemoveAt,
       Store!Restrict, AnyUse!Restrict, Store!MarkGenerators, AnyUse!MarkGenerators,
       Store!Registered, AnyUse!Registered
  <2>2. u \in AgentUuids
    BY <2>1, RegistryFacts DEF AnyUse!RemoveAgent, AnyUse!Registered, IInv
  <2> QED BY <2>1, <2>2 DEF AnyUse!ManagedNext
<1>5. ASSUME NEW u, Store!RemoveGenerator(u) PROVE Goal
  <2>1. AnyUse!RemoveGenerator(u)
    BY <1>5 DEF Store!RemoveGenerator, AnyUse!RemoveGenerator, Store!agentVars,
       AnyUse!agentVars
  <2>2. u \in GeneratorUuids
    BY <2>1, RegistryFacts DEF AnyUse!RemoveGenerator, IInv
  <2> QED BY <2>1, <2>2 DEF AnyUse!ManagedNext
<1>6. ASSUME Tick PROVE Goal
  <2>1. AnyUse!GetDirtyGeneratorUuids
    BY <1>6 DEF Tick, AnyUse!GetDirtyGeneratorUuids, AnyUse!agentVars, IInv
  <2> QED BY <2>1 DEF AnyUse!ManagedNext
<1>7. ASSUME OrchestratorRestart PROVE Goal
  <2>1. AnyUse!NewComponentStore
    BY <1>7 DEF OrchestratorRestart, Store!NewComponentStore, AnyUse!NewComponentStore
  <2> QED BY <2>1 DEF AnyUse!ManagedNext
<1>8. ASSUME NEW u \in Uuids, Leave(u) PROVE Goal
  BY <1>1, <1>4, <1>5, <1>8 DEF Leave
<1>9. ASSUME NEW c \in Components, ComponentStep(c) \/ Cancel(c) PROVE UNCHANGED storeVars
  BY <1>9 DEF ComponentStep, Join, ReceiveJoin, FailJoin, OpenStream, NoticeBreak,
     LeaveCluster, LeaveReturns, Cancel
<1>10. ASSUME UpdateStep PROVE UNCHANGED storeVars
  BY <1>10 DEF UpdateStep, Update, FailUpdate
<1>11. ASSUME NEW u \in GeneratorUuids, ReplyGenerator(u) \/ NotifyGenerator(u) \/ SendUpdate(u)
                                       \/ FailSend(u)
       PROVE  UNCHANGED storeVars
  BY <1>11 DEF ReplyGenerator, NotifyGenerator, SendUpdate, FailSend
<1>12. ASSUME NEW c \in Components, DropConnection(c) PROVE UNCHANGED storeVars
  BY <1>12 DEF DropConnection
<1> HIDE DEF Goal
<1> QED BY <1>1, <1>2, <1>3, <1>6, <1>7, <1>8, <1>9, <1>10, <1>11, <1>12
        DEF Next, OrchestratorStep, Failure, JoinGenerator, Goal

\* What is proved of the registry holds of the cluster's.
LEMMA StoreInvStep ==
  ASSUME IInv, Next
  PROVE  AnyUse!StoreInv'
BY StoreStep, AnyUse!ManagedInv, AddressesAssumption DEF IInv

-----------------------------------------------------------------------------
(* One lemma per action: it preserves the rest of the invariant.           *)

ClusterInv ==
  /\ dirtyAgentUuids = {}
  /\ NetTypes
  /\ Numbered
  /\ Served
  /\ OwnStatus
  /\ OwnLeaves
  /\ ChangesAttempted

\* The new agent changes the lists, and every generator is marked.
LEMMA JoinAgentInv ==
  ASSUME IInv, NEW u \in AgentUuids, JoinAgent(u)
  PROVE  ClusterInv'
<1> USE UuidFacts
<1>1. /\ joinRpc \in [Uuids -> {"none", "sent", "added", "replied", "closed"}]
      /\ joinRpc[u] = "sent" /\ joinRpc' = Answered(u)
      /\ UNCHANGED <<loopVars, updates, replies, leaves, componentVars, restarts, tried>>
      /\ generatorSpecs' = generatorSpecs /\ dirtyAgentUuids' = dirtyAgentUuids
      /\ dirtyGeneratorUuids' = dirtyGeneratorUuids \cup generatorSpecs
  BY RegistryFacts DEF IInv, NetTypes, JoinAgent, Store!AddAgent, Store!MarkGenerators
<1>2. NetTypes'
  BY <1>1 DEF IInv, NetTypes, Answered, loopVars, componentVars
<1>3. Numbered'
  BY <1>1 DEF IInv, Numbered, Answered, componentVars
<1>4. Served'
  BY <1>1, RegistryFacts DEF IInv, Served, Answered
<1>5. OwnStatus' /\ OwnLeaves'
  BY <1>1 DEF IInv, OwnStatus, OwnLeaves, componentVars
<1>6. ChangesAttempted'
  BY <1>1 DEF ChangesAttempted, Pending
<1> QED BY <1>1, <1>2, <1>3, <1>4, <1>5, <1>6 DEF ClusterInv, IInv

\* The new generator's list is owed to it by its Join, still to be answered.
LEMMA JoinGeneratorInv ==
  ASSUME IInv, NEW u \in GeneratorUuids, JoinGenerator(u)
  PROVE  ClusterInv'
<1> USE UuidFacts
<1>1. /\ joinRpc \in [Uuids -> {"none", "sent", "added", "replied", "closed"}]
      /\ joinRpc[u] = "sent" /\ joinRpc' = [joinRpc EXCEPT ![u] = "added"]
      /\ UNCHANGED <<loopVars, updates, replies, leaves, componentVars, restarts, tried>>
      /\ generatorSpecs' = generatorSpecs \cup {u}
      /\ UNCHANGED <<dirtyAgentUuids, dirtyGeneratorUuids>>
  BY DEF IInv, NetTypes, JoinGenerator, Store!AddGenerator, Store!agentVars
<1>2. NetTypes'
  BY <1>1 DEF IInv, NetTypes, loopVars, componentVars
<1>3. Numbered'
  BY <1>1 DEF IInv, Numbered, componentVars
<1>4. Served'
  BY <1>1, RegistryFacts DEF IInv, Served
<1>5. OwnStatus' /\ OwnLeaves'
  BY <1>1 DEF IInv, OwnStatus, OwnLeaves, componentVars
<1>6. ChangesAttempted'
  <2>1. ASSUME NEW v \in generatorSpecs', v # u PROVE agentLists'[v] = agentLists[v]
    <3>1. v \in GeneratorUuids
      BY <1>1, <2>1, RegistryFacts DEF IInv
    <3> QED BY <2>1, <3>1, RegistryFacts DEF IInv, JoinGenerator, Store!AddGenerator
  <2>2. Pending(u)'
    BY <1>1 DEF Pending
  <2>3. ASSUME NEW v \in generatorSpecs, Pending(v) PROVE Pending(v)'
    BY <1>1, <2>3, RegistryFacts DEF Pending, loopVars, IInv
  <2> QED BY <1>1, <2>1, <2>2, <2>3 DEF IInv, ChangesAttempted
<1> QED BY <1>1, <1>2, <1>3, <1>4, <1>5, <1>6 DEF ClusterInv, IInv

\* What is owed is put on the wire.
LEMMA ReplyGeneratorInv ==
  ASSUME IInv, NEW u \in GeneratorUuids, ReplyGenerator(u)
  PROVE  ClusterInv'
<1> USE UuidFacts, RegistryFacts
<1>1. NetTypes'
  BY DEF IInv, NetTypes, ReplyGenerator, Answered, loopVars, componentVars
<1>2. Numbered'
  BY DEF IInv, NetTypes, Numbered, ReplyGenerator, Answered, componentVars
<1>3. Served'
  BY DEF IInv, NetTypes, Served, ReplyGenerator, Answered, storeVars
<1>4. OwnStatus' /\ OwnLeaves'
  BY DEF IInv, ReplyGenerator, OwnStatus, OwnLeaves, componentVars
<1>5. ChangesAttempted'
  BY DEF IInv, NetTypes, ChangesAttempted, Pending, ReplyGenerator, Answered, storeVars, loopVars
<1> QED BY <1>1, <1>2, <1>3, <1>4, <1>5 DEF ClusterInv, IInv, ReplyGenerator, storeVars

\* A Leave ends one registration; an agent's marks every generator.
LEMMA LeaveInv ==
  ASSUME IInv, NEW u \in Uuids, Leave(u)
  PROVE  ClusterInv'
<1> USE RegistryFacts
<1>1. /\ leaves' = leaves \ {u}
      /\ UNCHANGED <<loopVars, updates, joinRpc, replies, componentVars, restarts, tried>>
  BY DEF Leave
<1>2. NetTypes' /\ Numbered' /\ OwnStatus' /\ OwnLeaves'
  BY <1>1 DEF IInv, NetTypes, Numbered, OwnStatus, OwnLeaves, loopVars, componentVars
<1>3. CASE Store!RemoveAgent(u)
  <2>1. /\ generatorSpecs' = generatorSpecs
        /\ dirtyGeneratorUuids' = dirtyGeneratorUuids \cup generatorSpecs
        /\ dirtyAgentUuids' = dirtyAgentUuids \ {u}
    BY <1>3 DEF IInv, Store!RemoveAgent, Store!MarkGenerators
  <2> QED BY <1>1, <1>2, <2>1 DEF IInv, ClusterInv, Served, ChangesAttempted, Pending
<1>4. CASE Store!RemoveGenerator(u)
  <2>1. /\ generatorSpecs' = generatorSpecs \ {u}
        /\ dirtyGeneratorUuids' = dirtyGeneratorUuids \ {u}
        /\ UNCHANGED <<dirtyAgentUuids, agentLists>>
    BY <1>4 DEF Store!RemoveGenerator, Store!agentVars
  <2> QED BY <1>1, <1>2, <2>1
          DEF IInv, ClusterInv, Served, ChangesAttempted, Pending, loopVars
<1>5. CASE UNCHANGED storeVars
  BY <1>1, <1>2, <1>5
     DEF IInv, ClusterInv, Served, ChangesAttempted, Pending, loopVars, storeVars
<1> QED BY <1>3, <1>4, <1>5 DEF Leave

\* The dirty ids become the batch.
LEMMA TickInv ==
  ASSUME IInv, Tick
  PROVE  ClusterInv'
<1> USE RegistryFacts
<1>1. /\ notify = {} /\ notify' = dirtyGeneratorUuids
      /\ dirtyGeneratorUuids' = {} /\ dirtyAgentUuids' = {}
      /\ UNCHANGED <<generatorSpecs, agentLists, calls, netVars, componentVars, restarts, tried>>
  BY DEF IInv, Tick, Store!DirtyGenerators
<1>2. NetTypes' /\ Numbered' /\ OwnStatus' /\ OwnLeaves' /\ Served'
  BY <1>1 DEF IInv, NetTypes, Numbered, OwnStatus, OwnLeaves, Served, netVars, componentVars
<1>3. ChangesAttempted'
  BY <1>1 DEF IInv, ChangesAttempted, Pending, netVars
<1> QED BY <1>1, <1>2, <1>3 DEF ClusterInv

\* An id of the batch gets a goroutine, unless its registration ended.
LEMMA NotifyGeneratorInv ==
  ASSUME IInv, NEW u \in GeneratorUuids, NotifyGenerator(u)
  PROVE  ClusterInv'
<1>1. NetTypes' /\ Numbered' /\ OwnStatus' /\ OwnLeaves' /\ Served'
  BY DEF IInv, NetTypes, Numbered, OwnStatus, OwnLeaves, Served, NotifyGenerator,
         storeVars, netVars, componentVars
<1>2. ChangesAttempted'
  BY RegistryFacts DEF IInv, NetTypes, ChangesAttempted, Pending, NotifyGenerator,
         storeVars, netVars
<1> QED BY <1>1, <1>2 DEF ClusterInv, IInv, NotifyGenerator, storeVars

\* What is owed is put on the wire, or not: it was attempted.
LEMMA SendUpdateInv ==
  ASSUME IInv, NEW u \in GeneratorUuids, SendUpdate(u) \/ FailSend(u)
  PROVE  ClusterInv'
<1>1. /\ UNCHANGED <<storeVars, notify, joinRpc, replies, leaves, componentVars, restarts>>
      /\ calls[u] > 0 /\ calls' = [calls EXCEPT ![u] = @ - 1]
      /\ tried' = [tried EXCEPT ![u] = agentLists[u]]
      /\ \/ updates' = updates
         \/ updates' = [updates EXCEPT ![u] = Append(@, agentLists[u])]
  BY DEF SendUpdate, FailSend, netVars
<1>2. NetTypes'
  <2>1. agentLists[u] \in Seq(Agents)
    BY RegistryFacts DEF IInv
  <2>2. calls' \in [GeneratorUuids -> Nat]
    BY <1>1 DEF IInv, NetTypes
  <2>3. updates' \in [GeneratorUuids -> Seq(Seq(Agents))]
    <3>1. updates \in [GeneratorUuids -> Seq(Seq(Agents))]
      BY DEF IInv, NetTypes
    <3>2. Append(updates[u], agentLists[u]) \in Seq(Seq(Agents))
      BY <2>1, <3>1
    <3> QED BY <1>1, <3>1, <3>2
  <2>4. tried' \in [GeneratorUuids -> Seq(Agents)]
    BY <1>1, <2>1 DEF IInv, NetTypes
  <2> QED BY <1>1, <2>2, <2>3, <2>4 DEF IInv, NetTypes, componentVars
<1>3. Numbered' /\ OwnStatus' /\ OwnLeaves' /\ Served'
  BY <1>1 DEF IInv, Numbered, OwnStatus, OwnLeaves, Served, storeVars, componentVars
<1>4. ChangesAttempted'
  BY <1>1, RegistryFacts DEF IInv, NetTypes, ChangesAttempted, Pending, storeVars
<1> QED BY <1>1, <1>2, <1>3, <1>4 DEF ClusterInv, IInv, storeVars

\* The new attempt has an id that was never used.
LEMMA JoinInv ==
  ASSUME IInv, NEW c \in Components, Join(c)
  PROVE  ClusterInv'
<1> DEFINE u == <<c, attempts[c] + 1>>
<1>1. /\ attempts \in [Components -> Nat] /\ attempts[c] < MaxJoins[c]
      /\ attempts' = [attempts EXCEPT ![c] = @ + 1]
      /\ joinRpc \in [Uuids -> {"none", "sent", "added", "replied", "closed"}]
      /\ joinRpc' = [joinRpc EXCEPT ![u] = "sent"]
      /\ UNCHANGED <<storeVars, loopVars, updates, replies, leaves, run, status, restarts, tried>>
  BY DEF IInv, NetTypes, Join
<1>2. u \in Uuids /\ joinRpc[u] = "none"
  BY <1>1, UuidFacts DEF IInv, Numbered
<1>3. u \notin generatorSpecs
  BY <1>2 DEF IInv, Served
<1>4. NetTypes'
  <2>1. attempts' \in [Components -> Nat] /\ \A d \in Components : attempts'[d] <= MaxJoins[d]
    BY <1>1, UuidFacts DEF IInv, NetTypes
  <2>2. joinRpc' \in [Uuids -> {"none", "sent", "added", "replied", "closed"}]
    BY <1>1, <1>2
  <2>3. phase' \in [Components -> {"retry", "joining", "joined", "streaming", "broken", "done"}]
    BY DEF IInv, NetTypes, Join
  <2> HIDE DEF u
  <2> QED BY <1>1, <2>1, <2>2, <2>3 DEF IInv, NetTypes, loopVars
<1>5. Numbered'
  <2>1. ASSUME NEW d \in Components, NEW n \in 1..MaxJoins[d], n > attempts'[d]
        PROVE  joinRpc'[<<d, n>>] = "none"
    <3>1. <<d, n>> # u /\ n > attempts[d]
      BY <1>1, <2>1, UuidFacts
    <3> QED BY <1>1, <2>1, <3>1, UuidFacts DEF IInv, Numbered
  <2>2. \A d \in Components : phase'[d] = "joining" => attempts'[d] >= 1
    BY <1>1 DEF IInv, NetTypes, Numbered, Join
  <2> QED BY <2>1, <2>2 DEF Numbered
<1>6. OwnStatus' /\ OwnLeaves'
  BY <1>1 DEF IInv, OwnStatus, OwnLeaves
<1>7. Served'
  BY <1>1, <1>3 DEF IInv, Served, storeVars
<1>8. ChangesAttempted'
  <2> HIDE DEF u
  <2>1. \A v \in generatorSpecs : joinRpc'[v] = joinRpc[v]
    BY <1>1, <1>3, RegistryFacts, UuidFacts DEF IInv
  <2> QED BY <1>1, <2>1 DEF IInv, ChangesAttempted, Pending, storeVars, loopVars
<1> QED BY <1>1, <1>4, <1>5, <1>6, <1>7, <1>8 DEF ClusterInv, IInv, storeVars

\* The end of an attempt: its call is closed, unless it is still being served.
LEMMA AttemptEnds ==
  ASSUME IInv, NEW c \in Components, phase[c] = "joining", ReceiveJoin(c) \/ FailJoin(c)
  PROVE  /\ CurrentUuid(c) \in Uuids /\ Owner(CurrentUuid(c)) = c
         /\ \A v \in Uuids : joinRpc'[v] = joinRpc[v]
                             \/ (joinRpc[v] = "replied" /\ joinRpc'[v] = "closed")
         /\ joinRpc' \in [Uuids -> {"none", "sent", "added", "replied", "closed"}]
         /\ replies' \in [GeneratorUuids -> Seq(Agents)]
<1>1. CurrentUuid(c) \in Uuids /\ Owner(CurrentUuid(c)) = c
  <2>1. MaxJoins[c] \in Nat
    BY UuidFacts
  <2>2. attempts[c] \in 1..MaxJoins[c]
    BY <2>1 DEF IInv, NetTypes, Numbered
  <2> QED BY <2>2, UuidFacts DEF CurrentUuid
<1>2. << >> \in Seq(Agents)
  OBVIOUS
<1> QED BY <1>1, <1>2 DEF IInv, NetTypes, ReceiveJoin, FailJoin, DropReply

\* The status gets the id of the component's own attempt.
LEMMA ReceiveJoinInv ==
  ASSUME IInv, NEW c \in Components, ReceiveJoin(c)
  PROVE  ClusterInv'
<1> DEFINE u == CurrentUuid(c)
<1>1. /\ UNCHANGED <<storeVars, loopVars, updates, leaves, run, attempts, restarts, tried>>
      /\ phase[c] = "joining"
      /\ status' = [status EXCEPT ![c] = Status(u, ReplyList(u))]
      /\ phase' = [phase EXCEPT ![c] = IF run[c] = "running" THEN "joined" ELSE "done"]
  BY DEF ReceiveJoin
<1>2. /\ u \in Uuids /\ Owner(u) = c
      /\ \A v \in Uuids : joinRpc'[v] = joinRpc[v]
                          \/ (joinRpc[v] = "replied" /\ joinRpc'[v] = "closed")
      /\ joinRpc' \in [Uuids -> {"none", "sent", "added", "replied", "closed"}]
      /\ replies' \in [GeneratorUuids -> Seq(Agents)]
  BY <1>1, AttemptEnds
<1>3. ReplyList(u) \in Seq(Agents)
  <2>1. << >> \in Seq(Agents)
    OBVIOUS
  <2> QED BY <2>1 DEF IInv, NetTypes, ReplyList
<1> HIDE DEF u
<1>4. NetTypes'
  BY <1>1, <1>2, <1>3 DEF IInv, NetTypes, Status, loopVars
<1>5. Numbered'
  BY <1>1, <1>2, UuidFacts DEF IInv, NetTypes, Numbered
<1>6. OwnStatus' /\ OwnLeaves'
  BY <1>1, <1>2, UuidFacts DEF IInv, NetTypes, OwnStatus, OwnLeaves, Status
<1>7. Served' /\ ChangesAttempted'
  BY <1>1, <1>2, RegistryFacts, UuidFacts
     DEF IInv, Served, ChangesAttempted, Pending, storeVars, loopVars
<1> QED BY <1>1, <1>4, <1>5, <1>6, <1>7 DEF ClusterInv, IInv, storeVars

\* A failed attempt leaves the orchestrator alone.
LEMMA FailJoinInv ==
  ASSUME IInv, NEW c \in Components, FailJoin(c)
  PROVE  ClusterInv'
<1>1. /\ UNCHANGED <<storeVars, loopVars, updates, leaves, run, attempts, status, restarts, tried>>
      /\ phase[c] = "joining"
      /\ phase' = [phase EXCEPT ![c] = AfterFailure(c)]
  BY DEF FailJoin
<1>2. /\ \A v \in Uuids : joinRpc'[v] = joinRpc[v]
                          \/ (joinRpc[v] = "replied" /\ joinRpc'[v] = "closed")
      /\ joinRpc' \in [Uuids -> {"none", "sent", "added", "replied", "closed"}]
      /\ replies' \in [GeneratorUuids -> Seq(Agents)]
  BY <1>1, AttemptEnds
<1>3. NetTypes'
  BY <1>1, <1>2 DEF IInv, NetTypes, AfterFailure, loopVars
<1>4. Numbered'
  BY <1>1, <1>2, UuidFacts DEF IInv, NetTypes, Numbered, AfterFailure
<1>5. OwnStatus' /\ OwnLeaves'
  BY <1>1 DEF IInv, OwnStatus, OwnLeaves
<1>6. Served' /\ ChangesAttempted'
  BY <1>1, <1>2, RegistryFacts, UuidFacts
     DEF IInv, Served, ChangesAttempted, Pending, storeVars, loopVars
<1> QED BY <1>1, <1>3, <1>4, <1>5, <1>6 DEF ClusterInv, IInv, storeVars

\* Streams change nothing but the phase.
LEMMA MoveInv ==
  ASSUME IInv, NEW c \in Components,
         OpenStream(c) \/ NoticeBreak(c) \/ DropConnection(c)
  PROVE  ClusterInv'
<1>1. /\ UNCHANGED <<storeVars, loopVars, netVars, run, attempts, status, restarts, tried>>
      /\ \E p \in {"streaming", "retry", "broken"} : phase' = [phase EXCEPT ![c] = p]
  BY DEF OpenStream, NoticeBreak, DropConnection
<1>2. NetTypes' /\ Numbered'
  BY <1>1 DEF IInv, NetTypes, Numbered, loopVars, netVars
<1>3. OwnStatus' /\ OwnLeaves' /\ Served' /\ ChangesAttempted'
  BY <1>1 DEF IInv, OwnStatus, OwnLeaves, Served, ChangesAttempted, Pending,
              storeVars, loopVars, netVars
<1> QED BY <1>1, <1>2, <1>3 DEF ClusterInv, IInv, storeVars

\* An update carries the id it was sent to, whose address the process answers at.
LEMMA UpdateInv ==
  ASSUME IInv, NEW u \in GeneratorUuids, NEW i \in DOMAIN updates[u],
         Update(u, i) \/ FailUpdate(u, i)
  PROVE  ClusterInv'
<1>1. /\ UNCHANGED <<storeVars, loopVars, joinRpc, replies, leaves, phase, run, attempts,
                     restarts, tried>>
      /\ updates' = [updates EXCEPT ![u] = RemoveAt(@, i)]
      /\ \/ UNCHANGED status
         \/ status' = [status EXCEPT ![Target(u)] = Status(u, updates[u][i])]
  BY DEF Update, FailUpdate, componentVars
<1>2. updates[u][i] \in Seq(Agents) /\ RemoveAt(updates[u], i) \in Seq(Seq(Agents))
  <2>1. updates[u] \in Seq(Seq(Agents)) /\ i \in 1..Len(updates[u])
    BY DEF IInv, NetTypes
  <2> QED BY <2>1 DEF RemoveAt
<1>3. /\ Target(u) \in ToldOf(u) /\ u \in Uuids
      /\ Status(u, updates[u][i]) \in [uuid : Uuids \cup {<<>>}, list : Seq(Agents)]
      /\ Status(u, updates[u][i]).uuid = u
  BY <1>2, UuidFacts DEF Status
<1>4. NetTypes' /\ OwnStatus'
  <2>1. status' \in [Components -> [uuid : Uuids \cup {<<>>}, list : Seq(Agents)]]
    BY <1>1, <1>3 DEF IInv, NetTypes
  <2>2. updates' \in [GeneratorUuids -> Seq(Seq(Agents))]
    BY <1>1, <1>2 DEF IInv, NetTypes
  <2>3. NetTypes'
    BY <1>1, <2>1, <2>2 DEF IInv, NetTypes, loopVars
  <2>4. \A c \in Components : \/ status'[c] = status[c]
                              \/ c = Target(u) /\ status'[c].uuid = u
    BY <1>1, <1>3 DEF IInv, NetTypes
  <2> QED BY <1>3, <2>3, <2>4 DEF IInv, OwnStatus
<1>5. Numbered' /\ OwnLeaves' /\ Served' /\ ChangesAttempted'
  BY <1>1 DEF IInv, Numbered, OwnLeaves, Served, ChangesAttempted, Pending, storeVars, loopVars
<1> QED BY <1>1, <1>4, <1>5 DEF ClusterInv, IInv, storeVars

\* Only a process that is shutting down sends a Leave, with its own id.
LEMMA ProcessEndInv ==
  ASSUME IInv, NEW c \in Components, Cancel(c) \/ LeaveCluster(c) \/ LeaveReturns(c)
  PROVE  ClusterInv'
<1>1. /\ UNCHANGED <<storeVars, loopVars, updates, joinRpc, replies, attempts, status,
                     restarts, tried>>
      /\ \/ UNCHANGED phase
         \/ phase' = [phase EXCEPT ![c] = IF @ = "joining" THEN @ ELSE "done"]
  BY DEF Cancel, LeaveCluster, LeaveReturns, netVars
<1>2. /\ run[c] \in {"running", "cancelled", "leaving"}
      /\ \E r \in {"cancelled", "leaving", "exited"} :
           /\ run' = [run EXCEPT ![c] = r]
           /\ run[c] = "leaving" => r = "exited"
      /\ \/ leaves' = leaves
         \/ /\ status[c] # NoStatus
            /\ run' = [run EXCEPT ![c] = "leaving"]
            /\ leaves' = leaves \cup {status[c].uuid}
  BY DEF Cancel, LeaveCluster, LeaveReturns, netVars
<1>3. NetTypes' /\ Numbered'
  <2>1. /\ phase' \in [Components -> {"retry", "joining", "joined", "streaming", "broken", "done"}]
        /\ \A d \in Components : phase'[d] = "joining" => phase[d] = "joining"
    BY <1>1 DEF IInv, NetTypes
  <2>2. /\ run' \in [Components -> {"running", "cancelled", "leaving", "exited"}]
        /\ leaves' \subseteq Uuids
    BY <1>2 DEF IInv, NetTypes, OwnStatus
  <2> QED BY <1>1, <2>1, <2>2 DEF IInv, NetTypes, Numbered, loopVars
<1>4. OwnLeaves'
  BY <1>1, <1>2, UuidFacts DEF IInv, NetTypes, OwnStatus, OwnLeaves
<1>5. OwnStatus' /\ Served' /\ ChangesAttempted'
  BY <1>1 DEF IInv, OwnStatus, Served, ChangesAttempted, Pending, storeVars, loopVars
<1> QED BY <1>1, <1>3, <1>4, <1>5 DEF ClusterInv, IInv, storeVars

\* After a restart nothing is registered, marked or owed.
LEMMA RestartInv ==
  ASSUME IInv, OrchestratorRestart
  PROVE  ClusterInv'
<1>1. generatorSpecs' = {} /\ dirtyAgentUuids' = {} /\ leaves' = {}
  BY DEF OrchestratorRestart, Store!NewComponentStore
<1>2. NetTypes'
  BY BoundsAssumption DEF IInv, NetTypes, OrchestratorRestart
<1>3. Numbered'
  BY UuidFacts DEF IInv, NetTypes, Numbered, OrchestratorRestart
<1>4. OwnStatus'
  BY DEF IInv, OwnStatus, OrchestratorRestart
<1> QED BY <1>1, <1>2, <1>3, <1>4 DEF ClusterInv, Served, OwnLeaves, ChangesAttempted

\* Every step preserves the invariant.
LEMMA NextIInv == IInv /\ [Next]_vars => IInv'
<1> SUFFICES ASSUME IInv, [Next]_vars PROVE IInv'
  OBVIOUS
<1>1. CASE Next
  <2>1. AnyUse!StoreInv'
    BY <1>1, StoreInvStep
  <2>2. ClusterInv'
    <3>1. OrchestratorStep => ClusterInv'
      BY JoinAgentInv, JoinGeneratorInv, ReplyGeneratorInv, NotifyGeneratorInv,
         SendUpdateInv, LeaveInv, TickInv DEF OrchestratorStep
    <3>2. ASSUME NEW c \in Components, ComponentStep(c) \/ Cancel(c) PROVE ClusterInv'
      BY <3>2, JoinInv, ReceiveJoinInv, FailJoinInv, MoveInv, ProcessEndInv DEF ComponentStep
    <3>3. UpdateStep => ClusterInv'
      BY UpdateInv DEF UpdateStep
    <3>4. Failure => ClusterInv'
      BY MoveInv, RestartInv DEF Failure
    <3> QED BY <1>1, <3>1, <3>2, <3>3, <3>4 DEF Next
  <2> QED BY <2>1, <2>2 DEF IInv, ClusterInv
<1>2. CASE UNCHANGED vars
  <2>1. AnyUse!StoreInv'
    BY <1>2, AnyUse!StutterInv, AddressesAssumption
       DEF IInv, vars, storeVars, AnyUse!storeVars, AnyUse!agentVars, AnyUse!generatorVars
  <2>2. ClusterInv'
    BY <1>2 DEF IInv, ClusterInv, NetTypes, Numbered, Served, OwnStatus, OwnLeaves,
                ChangesAttempted, Pending, vars, storeVars, loopVars, netVars, componentVars
  <2> QED BY <2>1, <2>2 DEF IInv, ClusterInv
<1> QED BY <1>1, <1>2

-----------------------------------------------------------------------------
(* Theorems.                                                               *)

\* Under every failure and in every order of calls, the shape of the state holds
\* and no agent is ever marked for notification.
THEOREM ClusterTypeCorrect == Spec => []TypeOK
<1>1. IInv => TypeOK
  BY DEF IInv, NetTypes, TypeOK, AnyUse!StoreInv, AnyUse!TypeOK, Store!TypeOK,
         AnyUse!Registered, Store!Registered
<1> QED BY <1>1, InitIInv, NextIInv, PTL DEF Spec

\* Under every failure and in every order of calls, while a registered generator's
\* list differs from the one last sent or attempted to be sent to it, the orchestrator
\* still has it marked, in its batch, in a goroutine that has not sent yet, or waiting
\* for its Join to be answered.
THEOREM EveryChangeAttempted == Spec => []ChangesAttempted
<1>1. IInv => ChangesAttempted
  BY DEF IInv
<1> QED BY <1>1, InitIInv, NextIInv, PTL DEF Spec

\* The steps that could end a registration are Leave, whose owner is shutting down, and a restart.
LEMMA KeptStep ==
  ASSUME IInv, Next, restarts' = restarts, NEW u \in Uuids,
         u \in DOMAIN agentSpecs \cup generatorSpecs,
         u \notin DOMAIN agentSpecs' \cup generatorSpecs'
  PROVE  \E c \in ToldOf(u) : run[c] \in {"leaving", "exited"}
<1>1. ASSUME NEW v \in Uuids, Leave(v) PROVE u = v /\ u \in leaves
  <2>1. CASE Store!RemoveAgent(v)
    BY <1>1, <2>1 DEF Leave, Store!RemoveAgent, Store!Restrict, Store!Registered
  <2>2. CASE Store!RemoveGenerator(v)
    BY <1>1, <2>2 DEF Leave, Store!RemoveGenerator, Store!agentVars
  <2>3. CASE UNCHANGED storeVars
    BY <2>3 DEF storeVars
  <2> QED BY <1>1, <2>1, <2>2, <2>3 DEF Leave
<1>2. ASSUME NEW v \in AgentUuids, JoinAgent(v) PROVE FALSE
  BY <1>2 DEF JoinAgent, Store!AddAgent, Store!PutAgent, Store!Registered
<1>3. ASSUME NEW v \in GeneratorUuids, JoinGenerator(v) PROVE FALSE
  BY <1>3 DEF JoinGenerator, Store!AddGenerator, Store!agentVars
<1>4. ~ OrchestratorRestart
  BY BoundsAssumption DEF IInv, NetTypes, OrchestratorRestart
<1>5. ASSUME UNCHANGED <<agentSpecs, generatorSpecs>> PROVE FALSE
  BY <1>5
<1>6. ASSUME NEW c \in Components, ComponentStep(c) \/ Cancel(c) \/ DropConnection(c)
      PROVE  UNCHANGED <<agentSpecs, generatorSpecs>>
  BY <1>6 DEF ComponentStep, Join, ReceiveJoin, FailJoin, OpenStream, NoticeBreak,
     LeaveCluster, LeaveReturns, Cancel, DropConnection, storeVars
<1>7. ASSUME UpdateStep PROVE UNCHANGED <<agentSpecs, generatorSpecs>>
  BY <1>7 DEF UpdateStep, Update, FailUpdate, storeVars
<1>8. ASSUME NEW v \in GeneratorUuids, ReplyGenerator(v) \/ NotifyGenerator(v) \/ SendUpdate(v)
                                      \/ FailSend(v)
      PROVE  UNCHANGED <<agentSpecs, generatorSpecs>>
  BY <1>8 DEF ReplyGenerator, NotifyGenerator, SendUpdate, FailSend, storeVars, netVars
<1>9. Tick => UNCHANGED <<agentSpecs, generatorSpecs>>
  BY DEF Tick
<1>10. \E v \in Uuids : Leave(v)
  BY <1>2, <1>3, <1>4, <1>5, <1>6, <1>7, <1>8, <1>9 DEF Next, OrchestratorStep, Failure
<1> QED BY <1>1, <1>10 DEF IInv, OwnLeaves

\* Under every failure and in every order of calls, and whichever generators share
\* an address, a step that ends a registration is a restart of the orchestrator, or a
\* process that may have been told the id is shutting down.
THEOREM RegistrationsKept == Spec => KeptUntilShutdown
<1> DEFINE Kept == restarts' = restarts =>
              \A u \in Uuids :
                (u \in DOMAIN agentSpecs \cup generatorSpecs /\
                 u \notin DOMAIN agentSpecs' \cup generatorSpecs')
                   => \E c \in ToldOf(u) : run[c] \in {"leaving", "exited"}
<1>1. IInv /\ [Next]_vars => [Kept]_vars
  BY KeptStep
<1> HIDE DEF Kept
<1>2. Spec => [][Kept]_vars
  BY <1>1, InitIInv, NextIInv, PTL DEF Spec
<1> QED BY <1>2 DEF KeptUntilShutdown, Kept

\* The cluster implements the registry as its manager uses it: every step of any
\* process is one of the manager's calls on the store, or leaves the store alone.
THEOREM ImplementsRegistry == Spec => AnyUse!ManagedSpec
<1>1. Init => AnyUse!Init
  BY DEF Init, Store!Init, AnyUse!Init
<1>2. IInv /\ [Next]_vars => [AnyUse!ManagedNext]_AnyUse!storeVars
  <2>1. UNCHANGED vars => UNCHANGED AnyUse!storeVars
    BY DEF vars, storeVars, AnyUse!storeVars, AnyUse!agentVars, AnyUse!generatorVars
  <2> QED BY <2>1, StoreStep
<1> QED BY <1>1, <1>2, InitIInv, NextIInv, PTL DEF Spec, AnyUse!ManagedSpec

\* Under every failure and in every order of calls, no list has more entries for an address
\* than agents are registered there: a promise of the registry that the cluster inherits.
THEOREM ClusterNeverGhosts == Spec => []NoGhosts
<1>1. AnyUse!ManagedSpec => []AnyUse!NoGhosts
  BY AnyUse!ManagedNeverGhosts, AddressesAssumption
<1>2. AnyUse!NoGhosts => NoGhosts
  BY DEF NoGhosts, Store!NoGhosts, AnyUse!NoGhosts, Store!Entries, AnyUse!Entries,
         Store!AgentsAt, AnyUse!AgentsAt, Store!Registered, AnyUse!Registered,
         Store!Cardinality, AnyUse!Cardinality
<1> QED BY <1>1, <1>2, ImplementsRegistry, PTL
=============================================================================
