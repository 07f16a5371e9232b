-------------------------- MODULE ClusterNoLoss_proofs --------------------------
(***************************************************************************)
(* Proofs about the cluster when no call and no stream fails at a caller   *)
(* that is up: processes still start, stop and join again, and the         *)
(* orchestrator restarts.  A component then has one id at a time; if each  *)
(* agent has an address of its own, the lists are exact; and if answers    *)
(* arrive before the next tick, what a generator believes is what the      *)
(* orchestrator sent last.                                                 *)
(***************************************************************************)
EXTENDS Cluster_proofs

\* The registry of agents that never join with an address in use.
OwnUse == INSTANCE ComponentStore_proofs WITH Specs <- Agents, SharedAddresses <- FALSE

-----------------------------------------------------------------------------
(* The inductive invariant: one id per component.                          *)

RegisteredUuids == DOMAIN agentSpecs \cup generatorSpecs

\* The registry has the id, or will get it from a Join being served.
Known(u) == u \in RegisteredUuids \/ joinRpc[u] \in {"sent", "added"}

\* Only the id of a component's last attempt is known.
OneId == \A u \in Uuids : Known(u) => u = CurrentUuid(Owner(u))

\* A component about to join, or whose call the restart closed, is not known.
Absent(c) == \A u \in Uuids : Owner(u) = c => ~ Known(u)
AbsentBetween ==
  \A c \in Components :
    (\/ phase[c] \in {"retry", "broken"}
     \/ phase[c] = "joining" /\ joinRpc[CurrentUuid(c)] = "closed")
    => Absent(c)

\* As long as the process runs it waits for the answer to every Join it sent.
InTime ==
  \A u \in Uuids :
    run[Owner(u)] = "running" /\ joinRpc[u] \in {"sent", "added", "replied"} => Awaited(u)

\* An agent is registered with the spec it sent.
OwnSpecs == \A u \in DOMAIN agentSpecs : agentSpecs[u] = Owner(u)

NoLossInv == OneId /\ AbsentBetween /\ InTime /\ OwnSpecs

\* Ids are pairs: two ids of one component differ in the number of the attempt.
LEMMA CurrentFacts ==
  ASSUME IInv
  PROVE  /\ \A c \in Components : Owner(CurrentUuid(c)) = c
         /\ \A c \in Components : phase[c] = "joining" => CurrentUuid(c) \in Uuids
         /\ DOMAIN agentSpecs \subseteq AgentUuids /\ generatorSpecs \subseteq GeneratorUuids
         /\ joinRpc \in [Uuids -> {"none", "sent", "added", "replied", "closed"}]
<1>1. ASSUME NEW c \in Components, phase[c] = "joining" PROVE CurrentUuid(c) \in Uuids
  <2>1. MaxJoins[c] \in Nat
    BY UuidFacts
  <2>2. attempts[c] \in 1..MaxJoins[c]
    BY <1>1, <2>1 DEF IInv, NetTypes, Numbered
  <2> QED BY <2>2, UuidFacts DEF CurrentUuid
<1> QED BY <1>1, RegistryFacts DEF IInv, NetTypes, CurrentUuid, Owner

\* No id is known at the start.
LEMMA InitNoLoss == Init => NoLossInv
BY UuidFacts DEF Init, Store!Init, NoLossInv, OneId, AbsentBetween, Absent, Known, InTime, OwnSpecs,
   RegisteredUuids

-----------------------------------------------------------------------------
(* One lemma per action: it preserves the invariant.                       *)

idVars == <<agentSpecs, generatorSpecs, joinRpc, phase, run, attempts>>

\* Steps that touch neither registrations nor Join calls nor processes.
LEMMA SameIds ==
  ASSUME NoLossInv, UNCHANGED idVars
  PROVE  NoLossInv'
BY DEF idVars, NoLossInv, OneId, AbsentBetween, Absent, Known, InTime, OwnSpecs, RegisteredUuids,
       Awaited, CurrentUuid

\* The orchestrator serves a Join: the id it registers was known before.
LEMMA JoinAgentKeepsIds ==
  ASSUME IInv, NoLossInv, NEW u \in AgentUuids, JoinAgent(u)
  PROVE  NoLossInv'
<1>1. /\ joinRpc \in [Uuids -> {"none", "sent", "added", "replied", "closed"}]
      /\ u \in Uuids /\ joinRpc[u] = "sent" /\ joinRpc' = Answered(u)
      /\ UNCHANGED <<phase, run, attempts, generatorSpecs>>
  BY UuidFacts, CurrentFacts DEF JoinAgent, Store!AddAgent, componentVars
<1>2. /\ DOMAIN agentSpecs' = DOMAIN agentSpecs \cup {u}
      /\ OwnSpecs'
  BY DEF JoinAgent, Store!AddAgent, Store!PutAgent, Store!Registered, NoLossInv, OwnSpecs
<1>3. u = CurrentUuid(Owner(u))
  BY <1>1 DEF NoLossInv, OneId, Known
<1>4. \A v \in Uuids : Known(v)' => Known(v)
  BY <1>1, <1>2 DEF Known, RegisteredUuids, Answered
<1>5. OneId'
  BY <1>1, <1>4 DEF NoLossInv, OneId, CurrentUuid
<1>6. AbsentBetween'
  <2>1. ASSUME NEW c \in Components, phase[c] = "joining", joinRpc'[CurrentUuid(c)] = "closed"
        PROVE  Absent(c)
    <3>1. CurrentUuid(c) # u
      BY <1>1, <1>3, <2>1, CurrentFacts DEF Answered, Awaited
    <3>2. joinRpc[CurrentUuid(c)] = "closed"
      BY <1>1, <2>1, <3>1, CurrentFacts DEF Answered
    <3> QED BY <2>1, <3>2 DEF NoLossInv, AbsentBetween
  <2>2. \A c \in Components : Absent(c) => Absent(c)'
    BY <1>4 DEF Absent
  <2>3. \A c \in Components : CurrentUuid(c)' = CurrentUuid(c)
    BY <1>1 DEF CurrentUuid
  <2> QED BY <1>1, <2>1, <2>2, <2>3 DEF NoLossInv, AbsentBetween
<1>7. InTime'
  BY <1>1 DEF NoLossInv, InTime, Answered, Awaited, CurrentUuid
<1> QED BY <1>2, <1>5, <1>6, <1>7 DEF NoLossInv

\* The same of a generator, whose Join is still to be answered.
LEMMA JoinGeneratorKeepsIds ==
  ASSUME IInv, NoLossInv, NEW u \in GeneratorUuids, JoinGenerator(u)
  PROVE  NoLossInv'
<1>1. /\ joinRpc \in [Uuids -> {"none", "sent", "added", "replied", "closed"}]
      /\ u \in Uuids /\ joinRpc[u] = "sent" /\ joinRpc' = [joinRpc EXCEPT ![u] = "added"]
      /\ UNCHANGED <<phase, run, attempts, agentSpecs>>
      /\ generatorSpecs' = generatorSpecs \cup {u}
  BY UuidFacts, CurrentFacts
     DEF JoinGenerator, Store!AddGenerator, Store!agentVars, componentVars
<1>2. \A v \in Uuids : Known(v)' => Known(v)
  BY <1>1 DEF Known, RegisteredUuids
<1>3. OneId' /\ OwnSpecs'
  BY <1>1, <1>2 DEF NoLossInv, OneId, CurrentUuid, OwnSpecs
<1>4. AbsentBetween'
  <2>1. ASSUME NEW c \in Components, phase[c] = "joining", joinRpc'[CurrentUuid(c)] = "closed"
        PROVE  joinRpc[CurrentUuid(c)] = "closed"
    BY <1>1, <2>1, CurrentFacts
  <2>2. \A c \in Components : Absent(c) => Absent(c)'
    BY <1>2 DEF Absent
  <2>3. \A c \in Components : CurrentUuid(c)' = CurrentUuid(c)
    BY <1>1 DEF CurrentUuid
  <2> QED BY <1>1, <2>1, <2>2, <2>3 DEF NoLossInv, AbsentBetween
<1>5. InTime'
  BY <1>1 DEF NoLossInv, InTime, Awaited, CurrentUuid
<1> QED BY <1>3, <1>4, <1>5 DEF NoLossInv

\* A component that runs awaits the answer; it is closed only for one that does not.
LEMMA ReplyGeneratorKeepsIds ==
  ASSUME IInv, NoLossInv, NEW u \in GeneratorUuids, ReplyGenerator(u)
  PROVE  NoLossInv'
<1>1. /\ joinRpc \in [Uuids -> {"none", "sent", "added", "replied", "closed"}]
      /\ u \in Uuids /\ joinRpc[u] = "added" /\ joinRpc' = Answered(u)
      /\ UNCHANGED <<phase, run, attempts, agentSpecs, generatorSpecs>>
  BY UuidFacts, CurrentFacts DEF ReplyGenerator, storeVars, componentVars
<1>2. u = CurrentUuid(Owner(u))
  BY <1>1 DEF NoLossInv, OneId, Known
<1>3. \A v \in Uuids : Known(v)' => Known(v)
  BY <1>1 DEF Known, RegisteredUuids, Answered
<1>4. OneId' /\ OwnSpecs'
  BY <1>1, <1>3 DEF NoLossInv, OneId, CurrentUuid, OwnSpecs
<1>5. AbsentBetween'
  <2>1. ASSUME NEW c \in Components, phase[c] = "joining", joinRpc'[CurrentUuid(c)] = "closed"
        PROVE  joinRpc[CurrentUuid(c)] = "closed"
    <3>1. CurrentUuid(c) # u
      BY <1>1, <1>2, <2>1, CurrentFacts DEF Answered, Awaited
    <3> QED BY <1>1, <2>1, <3>1, CurrentFacts DEF Answered
  <2>2. \A c \in Components : Absent(c) => Absent(c)'
    BY <1>3 DEF Absent
  <2>3. \A c \in Components : CurrentUuid(c)' = CurrentUuid(c)
    BY <1>1 DEF CurrentUuid
  <2> QED BY <1>1, <2>1, <2>2, <2>3 DEF NoLossInv, AbsentBetween
<1>6. InTime'
  BY <1>1 DEF NoLossInv, InTime, Answered, Awaited, CurrentUuid
<1> QED BY <1>4, <1>5, <1>6 DEF NoLossInv

\* A Leave only makes ids unknown.
LEMMA LeaveKeepsIds ==
  ASSUME IInv, NoLossInv, NEW u \in Uuids, Leave(u)
  PROVE  NoLossInv'
<1>1. UNCHANGED <<joinRpc, phase, run, attempts>>
  BY DEF Leave, componentVars
<1>2. /\ DOMAIN agentSpecs' \subseteq DOMAIN agentSpecs
      /\ generatorSpecs' \subseteq generatorSpecs
      /\ \A v \in DOMAIN agentSpecs' : agentSpecs'[v] = agentSpecs[v]
  BY DEF Leave, Store!RemoveAgent, Store!RemoveGenerator, Store!Restrict, Store!Registered,
         Store!agentVars, storeVars
<1>3. \A v \in Uuids : Known(v)' => Known(v)
  BY <1>1, <1>2 DEF Known, RegisteredUuids
<1> QED BY <1>1, <1>2, <1>3
        DEF NoLossInv, OneId, AbsentBetween, Absent, InTime, OwnSpecs, Awaited, CurrentUuid

\* A component joins again only when no earlier id of it is known.
LEMMA JoinKeepsIds ==
  ASSUME IInv, NoLossInv, NEW c \in Components, Join(c)
  PROVE  NoLossInv'
<1> DEFINE u == <<c, attempts[c] + 1>>
<1>1. /\ attempts \in [Components -> Nat] /\ attempts[c] < MaxJoins[c]
      /\ attempts' = [attempts EXCEPT ![c] = @ + 1]
      /\ joinRpc \in [Uuids -> {"none", "sent", "added", "replied", "closed"}]
      /\ joinRpc' = [joinRpc EXCEPT ![u] = "sent"]
      /\ phase \in [Components -> {"retry", "joining", "joined", "streaming", "broken", "done"}]
      /\ phase[c] = "retry" /\ phase' = [phase EXCEPT ![c] = "joining"]
      /\ UNCHANGED <<agentSpecs, generatorSpecs, run>>
  BY DEF IInv, NetTypes, Join, storeVars
<1>2. u \in Uuids /\ Owner(u) = c
  BY <1>1, UuidFacts
<1>3. /\ CurrentUuid(c)' = u
      /\ \A d \in Components \ {c} : CurrentUuid(d)' = CurrentUuid(d)
  BY <1>1 DEF CurrentUuid
<1> HIDE DEF u
<1>4. Absent(c)
  BY <1>1 DEF NoLossInv, AbsentBetween
<1>5. \A v \in Uuids : Known(v)' => Known(v) \/ v = u
  BY <1>1 DEF Known, RegisteredUuids
<1>6. OneId' /\ OwnSpecs'
  BY <1>1, <1>2, <1>3, <1>4, <1>5, UuidFacts DEF NoLossInv, OneId, Absent, OwnSpecs
<1>7. AbsentBetween'
  <2>1. ASSUME NEW d \in Components, d # c, Absent(d) PROVE Absent(d)'
    BY <1>2, <1>5, <2>1 DEF Absent
  <2>2. ASSUME NEW d \in Components, d # c, phase[d] = "joining"
        PROVE  joinRpc'[CurrentUuid(d)] = joinRpc[CurrentUuid(d)]
    BY <1>1, <1>2, <2>2, CurrentFacts
  <2>3. phase'[c] = "joining" /\ joinRpc'[u] = "sent"
    BY <1>1, <1>2
  <2> QED BY <1>1, <1>3, <2>1, <2>2, <2>3 DEF NoLossInv, AbsentBetween
<1>8. InTime'
  <2>1. ASSUME NEW v \in Uuids, v # u, run[Owner(v)] = "running",
               joinRpc[v] \in {"sent", "added", "replied"}
        PROVE  Awaited(v)'
    <3>1. phase[Owner(v)] = "joining" /\ v = CurrentUuid(Owner(v))
      BY <2>1 DEF NoLossInv, InTime, Awaited
    <3>2. Owner(v) \in Components \ {c}
      BY <1>1, <3>1, UuidFacts
    <3> QED BY <1>1, <1>3, <3>1, <3>2 DEF Awaited
  <2>2. ASSUME NEW v \in Uuids, v = u PROVE Awaited(v)'
    BY <1>1, <1>2, <1>3, <2>2 DEF Awaited
  <2> QED BY <1>1, <2>1, <2>2 DEF InTime
<1> QED BY <1>6, <1>7, <1>8 DEF NoLossInv

\* The answer ends the attempt; the id stays the component's last.
LEMMA ReceiveJoinKeepsIds ==
  ASSUME IInv, NoLossInv, NEW c \in Components, ReceiveJoin(c)
  PROVE  NoLossInv'
<1>1. /\ joinRpc \in [Uuids -> {"none", "sent", "added", "replied", "closed"}]
      /\ joinRpc' = [joinRpc EXCEPT ![CurrentUuid(c)] = "closed"]
      /\ phase \in [Components -> {"retry", "joining", "joined", "streaming", "broken", "done"}]
      /\ phase[c] = "joining"
      /\ phase' = [phase EXCEPT ![c] = IF run[c] = "running" THEN "joined" ELSE "done"]
      /\ UNCHANGED <<agentSpecs, generatorSpecs, run, attempts>>
  BY DEF IInv, NetTypes, ReceiveJoin, storeVars
<1>2. CurrentUuid(c) \in Uuids /\ \A d \in Components : CurrentUuid(d)' = CurrentUuid(d)
  BY <1>1, CurrentFacts DEF CurrentUuid
<1>3. \A v \in Uuids : Known(v)' => Known(v)
  BY <1>1 DEF Known, RegisteredUuids
<1>4. OneId' /\ OwnSpecs'
  BY <1>1, <1>2, <1>3, UuidFacts DEF NoLossInv, OneId, OwnSpecs
<1>5. AbsentBetween'
  <2>1. ASSUME NEW d \in Components, Absent(d) PROVE Absent(d)'
    BY <1>3, <2>1 DEF Absent
  <2>2. ASSUME NEW d \in Components, d # c, phase[d] = "joining"
        PROVE  joinRpc'[CurrentUuid(d)] = joinRpc[CurrentUuid(d)]
    BY <1>1, <2>2, CurrentFacts
  <2>3. phase'[c] \in {"joined", "done"}
    BY <1>1
  <2> QED BY <1>1, <1>2, <2>1, <2>2, <2>3 DEF NoLossInv, AbsentBetween
<1>6. InTime'
  <2>1. ASSUME NEW v \in Uuids, v # CurrentUuid(c), Awaited(v) PROVE Awaited(v)'
    BY <1>1, <1>2, <2>1, UuidFacts DEF Awaited
  <2> QED BY <1>1, <1>2, <2>1 DEF NoLossInv, InTime
<1> QED BY <1>4, <1>5, <1>6 DEF NoLossInv

\* A running component's call fails only when the restart closed it.
LEMMA FailJoinKeepsIds ==
  ASSUME ~ Lossy, IInv, NoLossInv, NEW c \in Components, FailJoin(c)
  PROVE  NoLossInv'
<1>1. /\ joinRpc \in [Uuids -> {"none", "sent", "added", "replied", "closed"}]
      /\ \/ joinRpc' = joinRpc
         \/ joinRpc' = [joinRpc EXCEPT ![CurrentUuid(c)] = "closed"]
      /\ phase \in [Components -> {"retry", "joining", "joined", "streaming", "broken", "done"}]
      /\ phase[c] = "joining"
      /\ phase' = [phase EXCEPT ![c] = AfterFailure(c)]
      /\ run[c] = "running" => joinRpc[CurrentUuid(c)] = "closed"
      /\ UNCHANGED <<agentSpecs, generatorSpecs, run, attempts>>
  BY DEF IInv, NetTypes, FailJoin, storeVars
<1>2. CurrentUuid(c) \in Uuids /\ \A d \in Components : CurrentUuid(d)' = CurrentUuid(d)
  BY <1>1, CurrentFacts DEF CurrentUuid
<1>3. \A v \in Uuids : Known(v)' => Known(v)
  BY <1>1 DEF Known, RegisteredUuids
<1>4. OneId' /\ OwnSpecs'
  BY <1>1, <1>2, <1>3, UuidFacts DEF NoLossInv, OneId, OwnSpecs
<1>5. AbsentBetween'
  <2>1. ASSUME NEW d \in Components, Absent(d) PROVE Absent(d)'
    BY <1>3, <2>1 DEF Absent
  <2>2. ASSUME NEW d \in Components, d # c, phase[d] = "joining"
        PROVE  joinRpc'[CurrentUuid(d)] = joinRpc[CurrentUuid(d)]
    BY <1>1, <2>2, CurrentFacts
  <2>3. CASE run[c] = "running"
    <3>1. Absent(c)'
      BY <1>1, <2>1, <2>3 DEF NoLossInv, AbsentBetween
    <3> QED BY <1>1, <1>2, <2>1, <2>2, <3>1 DEF NoLossInv, AbsentBetween
  <2>4. CASE run[c] # "running"
    <3>1. phase'[c] = "done"
      BY <1>1, <2>4 DEF AfterFailure
    <3> QED BY <1>1, <1>2, <2>1, <2>2, <3>1 DEF NoLossInv, AbsentBetween
  <2> QED BY <2>3, <2>4
<1>6. InTime'
  <2>1. ASSUME NEW v \in Uuids, v # CurrentUuid(c), Awaited(v) PROVE Awaited(v)'
    BY <1>1, <1>2, <2>1, UuidFacts DEF Awaited
  <2>2. Owner(CurrentUuid(c)) = c
    BY CurrentFacts
  <2> QED BY <1>1, <1>2, <2>1, <2>2 DEF NoLossInv, InTime
<1> QED BY <1>4, <1>5, <1>6 DEF NoLossInv

\* A broken stream leads back to a Join of a component that is not known.
LEMMA MoveKeepsIds ==
  ASSUME IInv, NoLossInv, NEW c \in Components, OpenStream(c) \/ NoticeBreak(c)
  PROVE  NoLossInv'
<1>1. /\ UNCHANGED <<agentSpecs, generatorSpecs, joinRpc, run, attempts>>
      /\ \/ phase[c] = "joined" /\ phase' = [phase EXCEPT ![c] = "streaming"]
         \/ phase[c] = "broken" /\ phase' = [phase EXCEPT ![c] = "retry"]
      /\ phase \in [Components -> {"retry", "joining", "joined", "streaming", "broken", "done"}]
  BY DEF IInv, NetTypes, OpenStream, NoticeBreak, storeVars, netVars
<1>2. OneId' /\ OwnSpecs' /\ \A d \in Components : Absent(d)' = Absent(d)
  BY <1>1 DEF NoLossInv, OneId, OwnSpecs, Absent, Known, RegisteredUuids, CurrentUuid
<1>3. AbsentBetween'
  BY <1>1, <1>2 DEF NoLossInv, AbsentBetween, CurrentUuid
<1>4. InTime'
  BY <1>1, UuidFacts DEF NoLossInv, InTime, Awaited, CurrentUuid
<1> QED BY <1>2, <1>3, <1>4 DEF NoLossInv

\* A process that stops makes no further attempt.
LEMMA ProcessEndKeepsIds ==
  ASSUME IInv, NoLossInv, NEW c \in Components,
         Cancel(c) \/ LeaveCluster(c) \/ LeaveReturns(c)
  PROVE  NoLossInv'
<1>1. /\ UNCHANGED <<agentSpecs, generatorSpecs, joinRpc, attempts>>
      /\ \/ phase' = phase
         \/ phase' = [phase EXCEPT ![c] = IF @ = "joining" THEN @ ELSE "done"]
      /\ \E r \in {"cancelled", "leaving", "exited"} : run' = [run EXCEPT ![c] = r]
      /\ run \in [Components -> {"running", "cancelled", "leaving", "exited"}]
      /\ phase \in [Components -> {"retry", "joining", "joined", "streaming", "broken", "done"}]
  BY DEF IInv, NetTypes, Cancel, LeaveCluster, LeaveReturns, storeVars, netVars
<1>2. OneId' /\ OwnSpecs' /\ \A d \in Components : Absent(d)' = Absent(d)
  BY <1>1 DEF NoLossInv, OneId, OwnSpecs, Absent, Known, RegisteredUuids, CurrentUuid
<1>3. AbsentBetween'
  BY <1>1, <1>2 DEF NoLossInv, AbsentBetween, CurrentUuid
<1>4. InTime'
  BY <1>1, UuidFacts DEF NoLossInv, InTime, Awaited, CurrentUuid
<1> QED BY <1>2, <1>3, <1>4 DEF NoLossInv

\* The restart forgets every id, and closes the calls it had not answered.
LEMMA RestartKeepsIds ==
  ASSUME IInv, NoLossInv, OrchestratorRestart
  PROVE  NoLossInv'
<1>1. /\ joinRpc \in [Uuids -> {"none", "sent", "added", "replied", "closed"}]
      /\ joinRpc' = [u \in Uuids |-> IF joinRpc[u] \in {"sent", "added"} THEN "closed" ELSE joinRpc[u]]
      /\ DOMAIN agentSpecs' = {} /\ generatorSpecs' = {}
      /\ UNCHANGED <<run, attempts>>
      /\ \A c \in Components : phase[c] = "joining" <=> phase'[c] = "joining"
  BY CurrentFacts DEF OrchestratorRestart, Store!NewComponentStore
<1>2. \A u \in Uuids : ~ Known(u)'
  BY <1>1 DEF Known, RegisteredUuids
<1>3. OneId' /\ AbsentBetween' /\ OwnSpecs'
  BY <1>1, <1>2 DEF OneId, AbsentBetween, Absent, OwnSpecs
<1>4. InTime'
  BY <1>1, UuidFacts DEF NoLossInv, InTime, Awaited, CurrentUuid
<1> QED BY <1>3, <1>4 DEF NoLossInv

\* Every step without losses preserves the invariant.
LEMMA NextNoLoss ==
  ASSUME ~ Lossy
  PROVE  IInv /\ NoLossInv /\ [Next]_vars => NoLossInv'
<1> SUFFICES ASSUME IInv, NoLossInv, [Next]_vars PROVE NoLossInv'
  OBVIOUS
<1>1. OrchestratorStep => NoLossInv'
  <2>1. Tick => UNCHANGED idVars
    BY DEF Tick, idVars, netVars, componentVars
  <2>2. \A u \in GeneratorUuids : 
          NotifyGenerator(u) \/ SendUpdate(u) \/ FailSend(u) => UNCHANGED idVars
    BY DEF NotifyGenerator, SendUpdate, FailSend, idVars, storeVars, netVars, componentVars
  <2> QED BY <2>1, <2>2, SameIds, JoinAgentKeepsIds, JoinGeneratorKeepsIds,
             ReplyGeneratorKeepsIds, LeaveKeepsIds DEF OrchestratorStep
<1>2. ASSUME NEW c \in Components, ComponentStep(c) \/ Cancel(c) PROVE NoLossInv'
  BY <1>2, JoinKeepsIds, ReceiveJoinKeepsIds, FailJoinKeepsIds, MoveKeepsIds, ProcessEndKeepsIds
     DEF ComponentStep
<1>3. UpdateStep => UNCHANGED idVars
  BY DEF UpdateStep, Update, FailUpdate, idVars, storeVars, componentVars
<1>4. Failure => OrchestratorRestart
  BY DEF Failure, DropConnection
<1>5. UNCHANGED vars => UNCHANGED idVars
  BY DEF vars, idVars, storeVars, netVars, componentVars
<1> QED BY <1>1, <1>2, <1>3, <1>4, <1>5, SameIds, RestartKeepsIds DEF Next

-----------------------------------------------------------------------------
(* Theorems that need nothing but reliable calls.                          *)

\* Both invariants hold of every behaviour without losses.
LEMMA NoLossAlways ==
  ASSUME ~ Lossy
  PROVE  Spec => [](IInv /\ NoLossInv)
<1>1. IInv /\ NoLossInv /\ [Next]_vars => NoLossInv'
  BY NextNoLoss
<1> QED BY <1>1, InitIInv, NextIInv, InitNoLoss, PTL DEF Spec

\* Without losses, a process is registered under one id at a time, though its retry
\* loop joins under a new id each time and never leaves in between: it joins again
\* only after the restart that forgot the old id.
THEOREM RegisteredOnce ==
  ASSUME ~ Lossy
  PROVE  Spec => []OneRegistration
<1>1. IInv /\ NoLossInv => OneRegistration
  BY RegistryFacts DEF IInv, NoLossInv, OneId, Known, RegisteredUuids, OneRegistration, Uuids
<1> QED BY <1>1, NoLossAlways, PTL

\* Each agent has an address of its own.
DistinctAddresses == \A a, b \in Agents : AddressOf[a] = AddressOf[b] => a = b

\* An agent that joins finds its address free: a registered agent with that address
\* would be itself, under the id it joins with now.
LEMMA AddressIsFree ==
  ASSUME DistinctAddresses, IInv, NoLossInv, NEW u \in AgentUuids, joinRpc[u] = "sent",
         u \notin DOMAIN agentSpecs
  PROVE  Store!AddressFree(Owner(u))
<1>1. u \in Uuids /\ u = CurrentUuid(Owner(u)) /\ Owner(u) \in Agents
  BY UuidFacts DEF NoLossInv, OneId, Known
<1>2. ASSUME NEW v \in DOMAIN agentSpecs, AddressOf[agentSpecs[v]] = AddressOf[Owner(u)]
      PROVE  FALSE
  <2>1. v \in Uuids /\ v = CurrentUuid(Owner(v)) /\ Owner(v) \in Agents
    BY UuidFacts, RegistryFacts DEF IInv, NoLossInv, OneId, Known, RegisteredUuids
  <2>2. Owner(v) = Owner(u)
    BY <1>1, <1>2, <2>1 DEF NoLossInv, OwnSpecs, DistinctAddresses
  <2> QED BY <1>1, <2>1, <2>2
<1> QED BY <1>2 DEF Store!AddressFree, Store!Registered

\* One case per action, as in StoreStep, with the address of a joining agent free.
LEMMA OwnStoreStep ==
  ASSUME DistinctAddresses, IInv, NoLossInv, [Next]_vars
  PROVE  [Store!ManagedNext]_Store!storeVars
<1> DEFINE Goal == [Store!ManagedNext]_Store!storeVars
<1>1. ASSUME UNCHANGED storeVars PROVE Goal
  BY <1>1 DEF storeVars, Store!storeVars, Store!agentVars, Store!generatorVars
<1>2. ASSUME NEW u \in AgentUuids, JoinAgent(u) PROVE Goal
  <2>1. Store!AddressFree(Owner(u))
    BY <1>2, AddressIsFree DEF JoinAgent, Store!AddAgent, Store!Registered
  <2> QED BY <1>2, <2>1, UuidFacts DEF JoinAgent, Store!JoinedAgent, Store!ManagedNext
<1>3. ASSUME NEW u \in GeneratorUuids, JoinGenerator(u) PROVE Goal
  BY <1>3 DEF JoinGenerator, Store!ManagedNext
<1>4. ASSUME NEW u \in Uuids, Leave(u) PROVE Goal
  <2>1. Store!RemoveAgent(u) => u \in AgentUuids
    BY RegistryFacts DEF IInv, Store!RemoveAgent, Store!Registered
  <2>2. Store!RemoveGenerator(u) => u \in GeneratorUuids
    BY RegistryFacts DEF IInv, Store!RemoveGenerator
  <2> QED BY <1>1, <1>4, <2>1, <2>2 DEF Leave, Store!ManagedNext
<1>5. ASSUME Tick PROVE Goal
  <2>1. Store!GetDirtyGeneratorUuids
    BY <1>5 DEF Tick, Store!GetDirtyGeneratorUuids, Store!agentVars, IInv
  <2> QED BY <2>1 DEF Store!ManagedNext
<1>6. ASSUME OrchestratorRestart PROVE Goal
  BY <1>6 DEF OrchestratorRestart, Store!ManagedNext
<1>7. ASSUME NEW c \in Components, ComponentStep(c) \/ Cancel(c) \/ DropConnection(c)
      PROVE  UNCHANGED storeVars
  BY <1>7 DEF ComponentStep, Join, ReceiveJoin, FailJoin, OpenStream, NoticeBreak,
     LeaveCluster, LeaveReturns, Cancel, DropConnection
<1>8. ASSUME UpdateStep PROVE UNCHANGED storeVars
  BY <1>8 DEF UpdateStep, Update, FailUpdate
<1>9. ASSUME NEW u \in GeneratorUuids, ReplyGenerator(u) \/ NotifyGenerator(u) \/ SendUpdate(u)
                                      \/ FailSend(u)
      PROVE  UNCHANGED storeVars
  BY <1>9 DEF ReplyGenerator, NotifyGenerator, SendUpdate, FailSend
<1>10. UNCHANGED vars => UNCHANGED storeVars
  BY DEF vars
<1> HIDE DEF Goal
<1> QED BY <1>1, <1>2, <1>3, <1>4, <1>5, <1>6, <1>7, <1>8, <1>9, <1>10
        DEF Next, OrchestratorStep, Failure, Goal

\* Without losses and with an address of its own for each agent, the cluster's
\* handlers use the store as a registry in which no two agents share an address.
THEOREM StoreAlwaysUsedWell ==
  ASSUME ~ Lossy, DistinctAddresses
  PROVE  Spec => UsesStoreWell
<1>1. Init => Store!Init
  BY DEF Init
<1>2. IInv /\ NoLossInv /\ [Next]_vars => [Store!ManagedNext]_Store!storeVars
  BY OwnStoreStep
<1> QED BY <1>1, <1>2, NoLossAlways, PTL DEF Spec, UsesStoreWell, Store!ManagedSpec

\* The two names of the registry mean the same.
LEMMA SameRegistry ==
  ASSUME [Store!ManagedNext]_Store!storeVars
  PROVE  [OwnUse!ManagedNext]_OwnUse!storeVars
<1> DEFINE Goal == [OwnUse!ManagedNext]_OwnUse!storeVars
<1>1. ASSUME NEW u \in AgentUuids, NEW s \in Agents, Store!JoinedAgent(u, s) PROVE Goal
  <2>1. OwnUse!JoinedAgent(u, s)
    BY <1>1 DEF Store!JoinedAgent, OwnUse!JoinedAgent, Store!AddressFree, OwnUse!AddressFree,
       Store!AddAgent, OwnUse!AddAgent, Store!PutAgent, OwnUse!PutAgent,
       Store!ChangeLists, OwnUse!ChangeLists, Store!AppendSpec, OwnUse!AppendSpec,
       Store!HasAddress, OwnUse!HasAddress, Store!MarkGenerators, OwnUse!MarkGenerators,
       Store!Registered, OwnUse!Registered
  <2> QED BY <2>1 DEF OwnUse!ManagedNext
<1>2. ASSUME NEW u \in AgentUuids, Store!RemoveAgent(u) PROVE Goal
  <2>1. OwnUse!RemoveAgent(u)
    BY <1>2 DEF Store!RemoveAgent, OwnUse!RemoveAgent, Store!ChangeLists,
       OwnUse!ChangeLists, Store!RemoveSpec, OwnUse!RemoveSpec, Store!HasAddress,
       OwnUse!HasAddress, Store!FirstWith, OwnUse!FirstWith, Store!SelectInSeq,
       OwnUse!SelectInSeq, Store!Min, OwnUse!Min, Store!RemoveAt, OwnUse!RemoveAt,
       Store!Restrict, OwnUse!Restrict, Store!MarkGenerators, OwnUse!MarkGenerators,
       Store!Registered, OwnUse!Registered
  <2> QED BY <2>1 DEF OwnUse!ManagedNext
<1>3. ASSUME NEW u \in GeneratorUuids, Store!AddGenerator(u) PROVE Goal
  <2>1. OwnUse!AddGenerator(u)
    BY <1>3 DEF Store!AddGenerator, OwnUse!AddGenerator, Store!SpecListings,
       OwnUse!SpecListings, Store!SetToSeqs, OwnUse!SetToSeqs, Store!Cardinality,
       OwnUse!Cardinality, Store!Registered, OwnUse!Registered,
       Store!agentVars, OwnUse!agentVars
  <2> QED BY <2>1 DEF OwnUse!ManagedNext
<1>4. ASSUME NEW u \in GeneratorUuids, Store!RemoveGenerator(u) PROVE Goal
  <2>1. OwnUse!RemoveGenerator(u)
    BY <1>4 DEF Store!RemoveGenerator, OwnUse!RemoveGenerator, Store!agentVars, OwnUse!agentVars
  <2> QED BY <2>1 DEF OwnUse!ManagedNext
<1>5. Store!GetDirtyAgentUuids => Goal
  BY DEF Store!GetDirtyAgentUuids, OwnUse!GetDirtyAgentUuids, OwnUse!ManagedNext,
         Store!generatorVars, OwnUse!generatorVars
<1>6. Store!GetDirtyGeneratorUuids => Goal
  BY DEF Store!GetDirtyGeneratorUuids, OwnUse!GetDirtyGeneratorUuids, OwnUse!ManagedNext,
         Store!agentVars, OwnUse!agentVars
<1>7. Store!NewComponentStore => Goal
  BY DEF Store!NewComponentStore, OwnUse!NewComponentStore, OwnUse!ManagedNext
<1>8. UNCHANGED Store!storeVars => Goal
  BY DEF Store!storeVars, Store!agentVars, Store!generatorVars, OwnUse!storeVars,
         OwnUse!agentVars, OwnUse!generatorVars
<1> HIDE DEF Goal
<1> QED BY <1>1, <1>2, <1>3, <1>4, <1>5, <1>6, <1>7, <1>8 DEF Store!ManagedNext, Goal

\* Without losses and with an address of its own for each agent, the list of every
\* registered generator is exactly the registered agents, each once: a promise of
\* the registry, which the cluster's use of it earns.
THEOREM ListsAlwaysExactInCluster ==
  ASSUME ~ Lossy, DistinctAddresses
  PROVE  Spec => []ListsExact
<1>1. Store!Init => OwnUse!Init
  BY DEF Store!Init, OwnUse!Init
<1>2. OwnUse!ManagedSpec => []OwnUse!ListsExact
  BY OwnUse!ListsAlwaysExact, AddressesAssumption
<1>3. OwnUse!ListsExact => ListsExact
  BY DEF ListsExact, Store!ListsExact, OwnUse!ListsExact, Store!Registered, OwnUse!Registered,
         Store!Cardinality, OwnUse!Cardinality
<1>4. [Store!ManagedNext]_Store!storeVars => [OwnUse!ManagedNext]_OwnUse!storeVars
  BY SameRegistry
<1> QED BY <1>1, <1>2, <1>3, <1>4, StoreAlwaysUsedWell, PTL
        DEF UsesStoreWell, Store!ManagedSpec, OwnUse!ManagedSpec

-----------------------------------------------------------------------------
(* The lists generators believe: answers arrive before the next tick.      *)

\* A list for u is about to be sent, or travelling.
Outstanding(u) == calls[u] > 0 \/ updates[u] # << >>

\* At most one list is on its way to a generator, to its last id, and only after
\* it has been given the answer to its Join.
AtMostOne(u) ==
  /\ Len(updates[u]) + calls[u] <= 1
  /\ u \in notify => ~ Outstanding(u)
  /\ Outstanding(u) => u = CurrentUuid(Owner(u))
  /\ run[Owner(u)] = "running" /\ (u \in notify \/ Outstanding(u)) => joinRpc[u] = "closed"
OneUpdate == \A u \in GeneratorUuids : AtMostOne(u)

\* Where the list last put on the wire is: in the answer to the Join, in the Update
\* call, or, when neither is outstanding, in the generator's status.
WhereSent(u) ==
  run[Owner(u)] = "running" =>
    /\ joinRpc[u] = "replied" => replies[u] = tried[u]
    /\ joinRpc[u] = "closed" /\ updates[u] = << >> => status[Owner(u)] = Status(u, tried[u])
    /\ joinRpc[u] = "closed" => \A i \in DOMAIN updates[u] : updates[u][i] = tried[u]
LastSent == \A u \in generatorSpecs : WhereSent(u)

ViewsInv == OneUpdate /\ LastSent

\* The types that the lists in flight rest on.
LEMMA ViewFacts ==
  ASSUME IInv
  PROVE  /\ calls \in [GeneratorUuids -> Nat]
         /\ updates \in [GeneratorUuids -> Seq(Seq(Agents))]
         /\ \A u \in GeneratorUuids : Len(updates[u]) \in Nat /\ (updates[u] = << >> <=> Len(updates[u]) = 0)
         /\ joinRpc \in [Uuids -> {"none", "sent", "added", "replied", "closed"}]
         /\ replies \in [GeneratorUuids -> Seq(Agents)]
         /\ tried \in [GeneratorUuids -> Seq(Agents)]
         /\ run \in [Components -> {"running", "cancelled", "leaving", "exited"}]
         /\ status \in [Components -> [uuid : Uuids \cup {<<>>}, list : Seq(Agents)]]
         /\ agentLists \in [GeneratorUuids -> Seq(Agents)]
         /\ generatorSpecs \subseteq GeneratorUuids
         /\ dirtyGeneratorUuids \subseteq generatorSpecs
         /\ generatorStatus = generatorSpecs
<1>1. \A u \in GeneratorUuids : updates[u] \in Seq(Seq(Agents))
  BY DEF IInv, NetTypes
<1>2. \A u \in GeneratorUuids : Len(updates[u]) \in Nat /\ (updates[u] = << >> <=> Len(updates[u]) = 0)
  BY <1>1
<1> QED BY <1>2, RegistryFacts DEF IInv, NetTypes

\* A generator that answers at its own address gets its own updates.
LEMMA OwnTarget ==
  ASSUME OwnAddresses, NEW u \in GeneratorUuids
  PROVE  Target(u) = Owner(u)
BY UuidFacts DEF OwnAddresses, Target

\* Agents' and generators' ids differ.
LEMMA IdsDiffer == \A u \in AgentUuids, v \in GeneratorUuids : u # v
BY UuidFacts, ProcessesAssumption

\* No list is in flight at the start.
LEMMA InitViews == Init => ViewsInv
BY UuidFacts DEF Init, Store!Init, ViewsInv, OneUpdate, AtMostOne, LastSent, WhereSent, Outstanding

\* A step that moves no list: at most registrations end and processes stop.
LEMMA NoListMoves ==
  ASSUME IInv, ViewsInv,
         UNCHANGED <<calls, updates, replies, tried, status, attempts, notify>>,
         \A u \in GeneratorUuids : joinRpc'[u] = joinRpc[u],
         generatorSpecs' \subseteq generatorSpecs,
         \A c \in Components : run'[c] = "running" => run[c] = "running"
  PROVE  ViewsInv'
<1>1. OneUpdate'
  BY UuidFacts DEF ViewsInv, OneUpdate, AtMostOne, Outstanding, CurrentUuid
<1>2. LastSent'
  BY UuidFacts, ViewFacts DEF ViewsInv, LastSent, WhereSent
<1> QED BY <1>1, <1>2 DEF ViewsInv

\* An agent's Join is no generator's.
LEMMA JoinAgentKeepsViews ==
  ASSUME IInv, ViewsInv, NEW u \in AgentUuids, JoinAgent(u)
  PROVE  ViewsInv'
<1>1. \A v \in GeneratorUuids : joinRpc'[v] = joinRpc[v]
  BY UuidFacts, ViewFacts, IdsDiffer DEF JoinAgent, Answered
<1> QED BY <1>1, NoListMoves DEF JoinAgent, Store!AddAgent, loopVars, componentVars

\* A Leave moves no list.
LEMMA LeaveKeepsViews ==
  ASSUME IInv, ViewsInv, NEW u \in Uuids, Leave(u)
  PROVE  ViewsInv'
BY NoListMoves DEF Leave, Store!RemoveAgent, Store!RemoveGenerator, storeVars, loopVars, componentVars

\* Streams and the end of a process move no list.
LEMMA ProcessMoveKeepsViews ==
  ASSUME IInv, ViewsInv, NEW c \in Components,
         \/ OpenStream(c) \/ NoticeBreak(c)
         \/ Cancel(c) \/ LeaveCluster(c) \/ LeaveReturns(c)
  PROVE  ViewsInv'
<1>1. \A d \in Components : run'[d] = "running" => run[d] = "running"
  BY ViewFacts DEF OpenStream, NoticeBreak, Cancel, LeaveCluster, LeaveReturns
<1> QED BY <1>1, NoListMoves
        DEF OpenStream, NoticeBreak, Cancel, LeaveCluster, LeaveReturns, storeVars, loopVars, netVars

\* The list the new generator will be answered with is not yet on the wire.
LEMMA JoinGeneratorKeepsViews ==
  ASSUME IInv, ViewsInv, NEW u \in GeneratorUuids, JoinGenerator(u)
  PROVE  ViewsInv'
<1>1. /\ joinRpc[u] = "sent" /\ joinRpc' = [joinRpc EXCEPT ![u] = "added"]
      /\ generatorSpecs' = generatorSpecs \cup {u}
      /\ UNCHANGED <<notify, calls, updates, replies, tried, status, run, attempts>>
  BY DEF JoinGenerator, Store!AddGenerator, loopVars, componentVars
<1>2. OneUpdate'
  BY <1>1, UuidFacts, ViewFacts DEF ViewsInv, OneUpdate, AtMostOne, Outstanding, CurrentUuid
<1>3. LastSent'
  BY <1>1, UuidFacts, ViewFacts DEF ViewsInv, LastSent, WhereSent
<1> QED BY <1>2, <1>3 DEF ViewsInv

\* The list goes into the answer, which a generator that runs awaits.
LEMMA ReplyGeneratorKeepsViews ==
  ASSUME IInv, NoLossInv, ViewsInv, NEW u \in GeneratorUuids, ReplyGenerator(u)
  PROVE  ViewsInv'
<1>1. /\ joinRpc[u] = "added" /\ joinRpc' = Answered(u)
      /\ replies' = IF Awaited(u) THEN [replies EXCEPT ![u] = agentLists[u]] ELSE replies
      /\ tried' = [tried EXCEPT ![u] = agentLists[u]]
      /\ UNCHANGED <<generatorSpecs, notify, calls, updates, status, run, attempts>>
  BY DEF ReplyGenerator, storeVars, loopVars, componentVars
<1>2. OneUpdate'
  BY <1>1, UuidFacts, ViewFacts DEF ViewsInv, OneUpdate, AtMostOne, Outstanding, CurrentUuid, Answered
<1>3. LastSent'
  <2>1. ASSUME NEW v \in generatorSpecs, v # u
        PROVE  joinRpc'[v] = joinRpc[v] /\ replies'[v] = replies[v] /\ tried'[v] = tried[v]
    BY <1>1, <2>1, UuidFacts, ViewFacts DEF Answered
  <2>2. run[Owner(u)] = "running" => Awaited(u)
    BY <1>1, UuidFacts DEF NoLossInv, InTime
  <2>3. run[Owner(u)] = "running" => joinRpc'[u] = "replied" /\ replies'[u] = tried'[u]
    BY <1>1, <2>2, UuidFacts, ViewFacts DEF Answered
  <2> QED BY <1>1, <2>1, <2>3 DEF ViewsInv, LastSent, WhereSent
<1> QED BY <1>2, <1>3 DEF ViewsInv

\* The tick waits for outstanding lists and answers, so a generator it takes up has
\* been answered and has nothing on its way.
LEMMA TickKeepsViews ==
  ASSUME PromptUpdates, PromptReplies, IInv, NoLossInv, ViewsInv, Tick
  PROVE  ViewsInv'
<1>1. /\ notify' \subseteq dirtyGeneratorUuids
      /\ \A u \in GeneratorUuids : calls[u] = 0 /\ updates[u] = << >>
      /\ \A u \in GeneratorUuids : ~ (joinRpc[u] \in {"added", "replied"} /\ Awaited(u))
      /\ UNCHANGED <<generatorSpecs, calls, updates, joinRpc, replies, tried, status, run, attempts>>
  BY DEF Tick, NoUpdateOutstanding, NoReplyOutstanding, Store!DirtyGenerators, netVars, componentVars
<1>2. ASSUME NEW u \in GeneratorUuids, u \in notify', run[Owner(u)] = "running"
      PROVE  joinRpc[u] = "closed"
  <2>1. joinRpc[u] \in {"added", "replied", "closed"}
    BY <1>1, <1>2, ViewFacts DEF IInv, Served
  <2>2. joinRpc[u] \in {"added", "replied"} => Awaited(u)
    BY <1>2, UuidFacts DEF NoLossInv, InTime
  <2> QED BY <1>1, <2>1, <2>2
<1>3. OneUpdate'
  BY <1>1, <1>2 DEF ViewsInv, OneUpdate, AtMostOne, Outstanding, CurrentUuid
<1>4. LastSent'
  BY <1>1 DEF ViewsInv, LastSent, WhereSent
<1> QED BY <1>3, <1>4 DEF ViewsInv

\* A goroutine is started only for an id that is registered, so for the last one.
LEMMA NotifyGeneratorKeepsViews ==
  ASSUME IInv, NoLossInv, ViewsInv, NEW u \in GeneratorUuids, NotifyGenerator(u)
  PROVE  ViewsInv'
<1>1. /\ u \in notify /\ notify' = notify \ {u}
      /\ calls' = IF u \in generatorSpecs THEN [calls EXCEPT ![u] = @ + 1] ELSE calls
      /\ UNCHANGED <<generatorSpecs, updates, joinRpc, replies, tried, status, run, attempts>>
  BY DEF NotifyGenerator, storeVars, netVars, componentVars
<1>2. calls[u] = 0 /\ Len(updates[u]) = 0
  BY <1>1, ViewFacts DEF ViewsInv, OneUpdate, AtMostOne, Outstanding
<1>3. u \in generatorSpecs => u = CurrentUuid(Owner(u))
  BY UuidFacts DEF NoLossInv, OneId, Known, RegisteredUuids
<1>4. OneUpdate'
  <2>1. ASSUME NEW v \in GeneratorUuids, v # u
        PROVE  calls'[v] = calls[v] /\ (v \in notify' <=> v \in notify)
    BY <1>1, <2>1, ViewFacts
  <2>2. u \notin notify' /\ calls'[u] \in {0, 1} /\ (calls'[u] = 1 => u \in generatorSpecs)
    BY <1>1, <1>2, ViewFacts
  <2>3. run[Owner(u)] = "running" => joinRpc[u] = "closed"
    BY <1>1 DEF ViewsInv, OneUpdate, AtMostOne
  <2>4. AtMostOne(u)'
    BY <1>1, <1>2, <1>3, <2>2, <2>3 DEF AtMostOne, Outstanding, CurrentUuid
  <2>5. ASSUME NEW v \in GeneratorUuids, v # u, AtMostOne(v) PROVE AtMostOne(v)'
    BY <1>1, <2>1, <2>5 DEF AtMostOne, Outstanding, CurrentUuid
  <2> QED BY <2>4, <2>5 DEF ViewsInv, OneUpdate
<1>5. LastSent'
  BY <1>1 DEF ViewsInv, LastSent, WhereSent
<1> QED BY <1>4, <1>5 DEF ViewsInv

\* The list goes into the one Update call.
LEMMA SendUpdateKeepsViews ==
  ASSUME IInv, ViewsInv, NEW u \in GeneratorUuids, SendUpdate(u)
  PROVE  ViewsInv'
<1> DEFINE list == agentLists[u]
<1>1. /\ calls[u] > 0 /\ calls' = [calls EXCEPT ![u] = @ - 1]
      /\ updates' = [updates EXCEPT ![u] = Append(@, list)]
      /\ tried' = [tried EXCEPT ![u] = list]
      /\ UNCHANGED <<generatorSpecs, notify, joinRpc, replies, status, run, attempts>>
  BY DEF SendUpdate, storeVars, componentVars
<1>2. calls[u] = 1 /\ updates[u] = << >>
  BY <1>1, ViewFacts DEF ViewsInv, OneUpdate, AtMostOne
<1>3. list \in Seq(Agents)
  BY ViewFacts
<1> HIDE DEF list
<1>4. calls'[u] = 0 /\ updates'[u] = <<list>> /\ tried'[u] = list
  BY <1>1, <1>2, ViewFacts
<1>5. ASSUME NEW v \in GeneratorUuids, v # u
      PROVE  calls'[v] = calls[v] /\ updates'[v] = updates[v] /\ tried'[v] = tried[v]
  BY <1>1, <1>5, ViewFacts
<1>6. /\ u \notin notify /\ u = CurrentUuid(Owner(u))
      /\ run[Owner(u)] = "running" => joinRpc[u] = "closed"
  BY <1>1 DEF ViewsInv, OneUpdate, AtMostOne, Outstanding
<1>7. OneUpdate'
  <2>1. Len(updates'[u]) = 1
    BY <1>4
  <2>2. AtMostOne(u)'
    BY <1>1, <1>4, <1>6, <2>1 DEF AtMostOne, Outstanding, CurrentUuid
  <2>3. ASSUME NEW v \in GeneratorUuids, v # u, AtMostOne(v) PROVE AtMostOne(v)'
    BY <1>1, <1>5, <2>3 DEF AtMostOne, Outstanding, CurrentUuid
  <2> QED BY <2>2, <2>3 DEF ViewsInv, OneUpdate
<1>8. LastSent'
  <2>1. updates'[u] # << >> /\ \A i \in DOMAIN updates'[u] : updates'[u][i] = tried'[u]
    BY <1>4
  <2>2. WhereSent(u)'
    BY <1>1, <1>6, <2>1 DEF WhereSent
  <2>3. ASSUME NEW v \in GeneratorUuids, v # u, WhereSent(v) PROVE WhereSent(v)'
    BY <1>1, <1>5, <2>3 DEF WhereSent
  <2> QED BY <1>1, <2>2, <2>3, ViewFacts DEF ViewsInv, LastSent
<1> QED BY <1>7, <1>8 DEF ViewsInv

\* An attempt fails only when nobody listens, and then the list is nowhere.
LEMMA FailSendKeepsViews ==
  ASSUME ~ Lossy, OwnAddresses, IInv, ViewsInv, NEW u \in GeneratorUuids, FailSend(u)
  PROVE  ViewsInv'
<1>1. /\ calls[u] > 0 /\ calls' = [calls EXCEPT ![u] = @ - 1]
      /\ tried' = [tried EXCEPT ![u] = agentLists[u]]
      /\ run[Owner(u)] = "exited"
      /\ UNCHANGED <<generatorSpecs, notify, updates, joinRpc, replies, status, run, attempts>>
  BY OwnTarget DEF FailSend, storeVars, netVars, componentVars
<1>2. /\ calls'[u] = calls[u] - 1 /\ calls[u] \in Nat /\ Len(updates[u]) \in Nat
      /\ \A v \in GeneratorUuids : v # u => calls'[v] = calls[v] /\ tried'[v] = tried[v]
  BY <1>1, ViewFacts
<1>3. OneUpdate'
  <2>1. AtMostOne(u)'
    BY <1>1, <1>2 DEF ViewsInv, OneUpdate, AtMostOne, Outstanding, CurrentUuid
  <2>2. ASSUME NEW v \in GeneratorUuids, v # u, AtMostOne(v) PROVE AtMostOne(v)'
    BY <1>1, <1>2, <2>2 DEF AtMostOne, Outstanding, CurrentUuid
  <2> QED BY <2>1, <2>2 DEF ViewsInv, OneUpdate
<1>4. LastSent'
  <2>1. WhereSent(u)'
    BY <1>1 DEF WhereSent
  <2>2. ASSUME NEW v \in GeneratorUuids, v # u, WhereSent(v) PROVE WhereSent(v)'
    BY <1>1, <1>2, <2>2 DEF WhereSent
  <2> QED BY <1>1, <2>1, <2>2, ViewFacts DEF ViewsInv, LastSent
<1> QED BY <1>3, <1>4 DEF ViewsInv

\* The component waited for the lists sent to its earlier ids.
LEMMA JoinKeepsViews ==
  ASSUME PromptUpdates, OwnAddresses, IInv, NoLossInv, ViewsInv, NEW c \in Components, Join(c)
  PROVE  ViewsInv'
<1> DEFINE new == <<c, attempts[c] + 1>>
<1>1. /\ phase[c] = "retry"
      /\ \A u \in GeneratorUuids : Owner(u) = c => calls[u] = 0 /\ updates[u] = << >>
      /\ attempts \in [Components -> Nat] /\ attempts[c] < MaxJoins[c]
      /\ attempts' = [attempts EXCEPT ![c] = @ + 1]
      /\ joinRpc' = [joinRpc EXCEPT ![new] = "sent"]
      /\ UNCHANGED <<generatorSpecs, notify, calls, updates, replies, tried, status, run>>
  BY OwnTarget DEF IInv, NetTypes, Join, storeVars, loopVars
<1>2. new \in Uuids /\ Owner(new) = c /\ joinRpc[new] = "none"
  BY <1>1, UuidFacts DEF IInv, Numbered
<1>3. \A d \in Components \ {c} : CurrentUuid(d)' = CurrentUuid(d)
  BY <1>1 DEF CurrentUuid
<1> HIDE DEF new
<1>4. \A u \in GeneratorUuids : u # new => joinRpc'[u] = joinRpc[u]
  BY <1>1, UuidFacts, ViewFacts
<1>5. OneUpdate'
  <2>1. ASSUME NEW u \in GeneratorUuids, Outstanding(u)'
        PROVE  Outstanding(u) /\ Owner(u) \in Components \ {c}
    BY <1>1, <2>1, UuidFacts DEF Outstanding
  <2>2. ASSUME NEW u \in GeneratorUuids, run[Owner(u)] = "running", u \in notify \/ Outstanding(u)
        PROVE  joinRpc'[u] = "closed"
    BY <1>2, <1>4, <2>2 DEF ViewsInv, OneUpdate, AtMostOne
  <2> QED BY <1>1, <1>3, <2>1, <2>2 DEF ViewsInv, OneUpdate, AtMostOne, Outstanding
<1>6. LastSent'
  <2>1. new \notin generatorSpecs
    BY <1>2 DEF IInv, Served
  <2> QED BY <1>1, <1>4, <2>1, ViewFacts DEF ViewsInv, LastSent, WhereSent
<1> QED BY <1>5, <1>6 DEF ViewsInv

\* The status a component sets when its Join is answered is the list sent last: no
\* Update can have been on its way to this id before.
LEMMA ReceiveJoinKeepsViews ==
  ASSUME IInv, NoLossInv, ViewsInv, NEW c \in Components, ReceiveJoin(c)
  PROVE  ViewsInv'
<1> DEFINE u == CurrentUuid(c)
<1>1. /\ joinRpc[u] = "replied" /\ joinRpc' = [joinRpc EXCEPT ![u] = "closed"]
      /\ replies' = DropReply(u)
      /\ status' = [status EXCEPT ![c] = Status(u, ReplyList(u))]
      /\ phase[c] = "joining"
      /\ UNCHANGED <<generatorSpecs, notify, calls, updates, tried, run, attempts>>
  BY DEF ReceiveJoin, storeVars, loopVars
<1>2. u \in Uuids /\ Owner(u) = c
  BY <1>1, CurrentFacts
<1>3. \A v \in generatorSpecs : Owner(v) = c => v = u
  BY UuidFacts, ViewFacts DEF NoLossInv, OneId, Known, RegisteredUuids
<1> HIDE DEF u
<1>4. \A v \in GeneratorUuids : v # u => joinRpc'[v] = joinRpc[v] /\ replies'[v] = replies[v]
  BY <1>1, UuidFacts, ViewFacts DEF DropReply
<1>5. \A d \in Components : d # c => status'[d] = status[d]
  BY <1>1, ViewFacts
<1>6. joinRpc'[u] = "closed" /\ status'[c] = Status(u, ReplyList(u))
  BY <1>1, <1>2, ViewFacts
<1>7. ASSUME NEW v \in GeneratorUuids, AtMostOne(v) PROVE AtMostOne(v)'
  BY <1>1, <1>4, <1>6, <1>7 DEF AtMostOne, Outstanding, CurrentUuid
<1>8. ASSUME NEW v \in generatorSpecs, v # u, WhereSent(v) PROVE WhereSent(v)'
  <2>1. Owner(v) # c /\ Owner(v) \in Components /\ v \in GeneratorUuids
    BY <1>3, <1>8, UuidFacts, ViewFacts
  <2> QED BY <1>1, <1>4, <1>5, <1>8, <2>1 DEF WhereSent
<1>9. ASSUME NEW v \in generatorSpecs, v = u PROVE WhereSent(v)'
  <2>1. v \in GeneratorUuids
    BY ViewFacts
  <2>2. run[c] = "running" => updates[v] = << >>
    BY <1>1, <1>2, <1>9, <2>1 DEF ViewsInv, OneUpdate, AtMostOne, Outstanding
  <2>3. run[c] = "running" => ReplyList(u) = tried[v]
    BY <1>1, <1>2, <1>9, <2>1 DEF ViewsInv, LastSent, WhereSent, ReplyList
  <2> QED BY <1>1, <1>2, <1>6, <1>9, <2>2, <2>3 DEF WhereSent
<1> QED BY <1>1, <1>7, <1>8, <1>9 DEF ViewsInv, OneUpdate, LastSent

\* The answer is dropped only by a component that is shutting down.
LEMMA FailJoinKeepsViews ==
  ASSUME ~ Lossy, IInv, NoLossInv, ViewsInv, NEW c \in Components, FailJoin(c)
  PROVE  ViewsInv'
<1> DEFINE u == CurrentUuid(c)
<1>1. /\ joinRpc' = IF joinRpc[u] = "replied" THEN [joinRpc EXCEPT ![u] = "closed"] ELSE joinRpc
      /\ replies' = DropReply(u)
      /\ phase[c] = "joining"
      /\ run[c] = "running" => joinRpc[u] = "closed"
      /\ UNCHANGED <<generatorSpecs, notify, calls, updates, status, tried, run, attempts>>
  BY DEF FailJoin, storeVars, loopVars
<1>2. u \in Uuids /\ Owner(u) = c
  BY <1>1, CurrentFacts
<1> HIDE DEF u
<1>3. \A v \in GeneratorUuids : v # u => joinRpc'[v] = joinRpc[v] /\ replies'[v] = replies[v]
  BY <1>1, UuidFacts, ViewFacts DEF DropReply
<1>4. run[c] = "running" => joinRpc' = joinRpc /\ joinRpc[u] # "replied"
  BY <1>1
<1>5. ASSUME NEW v \in GeneratorUuids, AtMostOne(v) PROVE AtMostOne(v)'
  BY <1>1, <1>2, <1>3, <1>4, <1>5 DEF AtMostOne, Outstanding, CurrentUuid
<1>6. ASSUME NEW v \in generatorSpecs, WhereSent(v) PROVE WhereSent(v)'
  BY <1>1, <1>2, <1>3, <1>4, <1>6, ViewFacts DEF WhereSent
<1> QED BY <1>1, <1>5, <1>6 DEF ViewsInv, OneUpdate, LastSent

\* The one list on its way is the one sent last.
LEMMA UpdateKeepsViews ==
  ASSUME OwnAddresses, IInv, NoLossInv, ViewsInv, NEW u \in GeneratorUuids, NEW i \in DOMAIN updates[u],
         Update(u, i)
  PROVE  ViewsInv'
<1>1. /\ status' = [status EXCEPT ![Owner(u)] = Status(u, updates[u][i])]
      /\ updates' = [updates EXCEPT ![u] = RemoveAt(@, i)]
      /\ UNCHANGED <<generatorSpecs, notify, calls, joinRpc, replies, tried, run, attempts>>
  BY OwnTarget DEF Update, storeVars, loopVars
<1>2. updates[u] \in Seq(Seq(Agents)) /\ i \in 1..Len(updates[u]) /\ i \in DOMAIN updates[u]
  BY ViewFacts
<1>3. Len(updates[u]) = 1 /\ calls[u] = 0 /\ i = 1
  <2> DEFINE n == Len(updates[u])
             k == calls[u]
  <2>1. n + k <= 1
    BY DEF ViewsInv, OneUpdate, AtMostOne
  <2>2. n \in Nat /\ k \in Nat /\ i \in 1..n
    BY <1>2, ViewFacts
  <2> HIDE DEF n, k
  <2>3. n = 1 /\ k = 0 /\ i = 1
    BY <2>1, <2>2
  <2> QED BY <2>3 DEF n, k
<1>4. RemoveAt(updates[u], i) = << >>
  BY <1>2, <1>3 DEF RemoveAt
<1>5. updates'[u] = << >>
  BY <1>1, <1>4, ViewFacts
<1>6. /\ u = CurrentUuid(Owner(u)) /\ u \notin notify
      /\ run[Owner(u)] = "running" => joinRpc[u] = "closed"
  <2>1. Outstanding(u)
    BY <1>2, <1>3 DEF Outstanding
  <2> QED BY <2>1 DEF ViewsInv, OneUpdate, AtMostOne
<1>7. ASSUME NEW v \in GeneratorUuids, AtMostOne(v) PROVE AtMostOne(v)'
  <2>1. CASE v = u
    BY <1>1, <1>3, <1>5, <1>6, <2>1 DEF AtMostOne, Outstanding, CurrentUuid
  <2>2. CASE v # u
    <3>1. updates'[v] = updates[v]
      BY <1>1, <2>2, ViewFacts
    <3> QED BY <1>1, <1>7, <3>1 DEF AtMostOne, Outstanding, CurrentUuid
  <2> QED BY <2>1, <2>2
<1>8. ASSUME NEW v \in generatorSpecs, v # u, WhereSent(v) PROVE WhereSent(v)'
  <2>1. v = CurrentUuid(Owner(v)) /\ v \in GeneratorUuids /\ Owner(v) \in Components
    BY UuidFacts, ViewFacts DEF NoLossInv, OneId, Known, RegisteredUuids
  <2>2. Owner(v) # Owner(u)
    BY <1>6, <1>8, <2>1
  <2>3. status'[Owner(v)] = status[Owner(v)] /\ updates'[v] = updates[v]
    BY <1>1, <1>8, <2>1, <2>2, ViewFacts
  <2> QED BY <1>1, <1>8, <2>3 DEF WhereSent
<1>9. ASSUME u \in generatorSpecs PROVE WhereSent(u)'
  <2>1. run[Owner(u)] = "running" => updates[u][i] = tried[u]
    BY <1>2, <1>6, <1>9 DEF ViewsInv, LastSent, WhereSent
  <2>2. status'[Owner(u)] = Status(u, updates[u][i])
    BY <1>1, UuidFacts, ViewFacts
  <2> QED BY <1>1, <1>5, <1>6, <2>1, <2>2 DEF WhereSent
<1> QED BY <1>1, <1>7, <1>8, <1>9 DEF ViewsInv, OneUpdate, LastSent

\* The one list on its way is dropped when nobody listens any more.
LEMMA FailUpdateKeepsViews ==
  ASSUME OwnAddresses, IInv, ViewsInv, NEW u \in GeneratorUuids, NEW i \in DOMAIN updates[u],
         FailUpdate(u, i)
  PROVE  ViewsInv'
<1>1. /\ run[Owner(u)] = "exited"
      /\ updates' = [updates EXCEPT ![u] = RemoveAt(@, i)]
      /\ UNCHANGED <<generatorSpecs, notify, calls, joinRpc, replies, tried, status, run, attempts>>
  BY OwnTarget DEF FailUpdate, storeVars, loopVars, componentVars
<1>2. updates[u] \in Seq(Seq(Agents)) /\ i \in 1..Len(updates[u])
  BY ViewFacts
<1>3. Len(updates[u]) = 1 /\ calls[u] = 0 /\ i = 1
  <2> DEFINE n == Len(updates[u])
             k == calls[u]
  <2>1. n + k <= 1
    BY DEF ViewsInv, OneUpdate, AtMostOne
  <2>2. n \in Nat /\ k \in Nat /\ i \in 1..n
    BY <1>2, ViewFacts
  <2> HIDE DEF n, k
  <2>3. n = 1 /\ k = 0 /\ i = 1
    BY <2>1, <2>2
  <2> QED BY <2>3 DEF n, k
<1>4. RemoveAt(updates[u], i) = << >>
  BY <1>2, <1>3 DEF RemoveAt
<1>5. updates'[u] = << >> /\ \A v \in GeneratorUuids : v # u => updates'[v] = updates[v]
  BY <1>1, <1>4, ViewFacts
<1>6. ASSUME NEW v \in GeneratorUuids, AtMostOne(v) PROVE AtMostOne(v)'
  BY <1>1, <1>3, <1>5, <1>6 DEF AtMostOne, Outstanding, CurrentUuid
<1>7. ASSUME NEW v \in generatorSpecs, WhereSent(v) PROVE WhereSent(v)'
  BY <1>1, <1>5, <1>7, ViewFacts DEF WhereSent
<1> QED BY <1>1, <1>6, <1>7 DEF ViewsInv, OneUpdate, LastSent

\* What is still travelling when the orchestrator ends was sent before.
LEMMA RestartKeepsViews ==
  ASSUME IInv, ViewsInv, OrchestratorRestart
  PROVE  ViewsInv'
<1>1. /\ generatorSpecs' = {} /\ notify' = {}
      /\ \A u \in GeneratorUuids : calls'[u] = 0
      /\ \A u \in GeneratorUuids : joinRpc[u] = "closed" => joinRpc'[u] = "closed"
      /\ UNCHANGED <<updates, run, attempts>>
  BY UuidFacts DEF OrchestratorRestart, Store!NewComponentStore
<1>2. ASSUME NEW v \in GeneratorUuids, AtMostOne(v) PROVE AtMostOne(v)'
  BY <1>1, <1>2, ViewFacts DEF AtMostOne, Outstanding, CurrentUuid
<1> QED BY <1>1, <1>2 DEF ViewsInv, OneUpdate, LastSent

\* Every step without losses preserves the invariant, if calls end before the next tick.
LEMMA NextViews ==
  ASSUME ~ Lossy, OwnAddresses, PromptUpdates, PromptReplies
  PROVE  IInv /\ NoLossInv /\ ViewsInv /\ [Next]_vars => ViewsInv'
<1> SUFFICES ASSUME IInv, NoLossInv, ViewsInv, [Next]_vars PROVE ViewsInv'
  OBVIOUS
<1>1. OrchestratorStep => ViewsInv'
  BY JoinAgentKeepsViews, JoinGeneratorKeepsViews, ReplyGeneratorKeepsViews,
     NotifyGeneratorKeepsViews, SendUpdateKeepsViews, FailSendKeepsViews, LeaveKeepsViews, TickKeepsViews
     DEF OrchestratorStep
<1>2. ASSUME NEW c \in Components, ComponentStep(c) \/ Cancel(c) PROVE ViewsInv'
  BY <1>2, JoinKeepsViews, ReceiveJoinKeepsViews, FailJoinKeepsViews, ProcessMoveKeepsViews
     DEF ComponentStep
<1>3. UpdateStep => ViewsInv'
  BY UpdateKeepsViews, FailUpdateKeepsViews DEF UpdateStep
<1>4. Failure => ViewsInv'
  BY RestartKeepsViews DEF Failure, DropConnection
<1>5. UNCHANGED vars => ViewsInv'
  BY NoListMoves DEF vars, storeVars, loopVars, netVars, componentVars
<1> QED BY <1>1, <1>2, <1>3, <1>4, <1>5 DEF Next

\* Without losses, with an address of its own for each generator, and when answers
\* and updates arrive before the next tick: once
\* nothing is on its way to a registered generator that runs, what it believes is what
\* the orchestrator holds for it, through every join, leave, cancellation and restart.
THEOREM ViewsAlwaysAgree ==
  ASSUME ~ Lossy, OwnAddresses, PromptUpdates, PromptReplies
  PROVE  Spec => []ViewsAgree
<1>1. IInv /\ NoLossInv /\ ViewsInv /\ [Next]_vars => ViewsInv'
  BY NextViews
<1>2. IInv /\ ViewsInv => ViewsAgree
  <2> SUFFICES ASSUME IInv, ViewsInv, NEW u \in generatorSpecs,
                      run[Owner(u)] = "running", Settled(u)
               PROVE  status[Owner(u)] = Status(u, agentLists[u])
    BY DEF ViewsAgree
  <2>1. agentLists[u] = tried[u]
    BY DEF IInv, ChangesAttempted, Settled
  <2> QED BY <2>1 DEF ViewsInv, LastSent, WhereSent, Settled
<1> QED BY <1>1, <1>2, NoLossAlways, InitViews, PTL DEF Spec
=============================================================================
