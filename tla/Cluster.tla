-------------------------------- MODULE Cluster --------------------------------
(***************************************************************************)
(* Membership of the cluster: the orchestrator's Join and Leave handlers   *)
(* and notification loop (orchestrator/manager.go), over the registry of   *)
(* ComponentStore, with the retry loop, the Update handler and the leave   *)
(* on shutdown of every agent and generator (agent/manager.go,             *)
(* generator/manager.go), and the calls in flight between them.            *)
(*                                                                         *)
(* A process is started once and joins once per attempt of its retry loop. *)
(* The id that the n-th join of process c may be given is <<c, n>>: ids    *)
(* come from uuid.New and are never reused.  An agent's spec is written as *)
(* the agent.  What flows over the streams is not modelled here.           *)
(***************************************************************************)
EXTENDS Integers, FiniteSets, SequencesExt

CONSTANTS
  Agents, Generators,     \* the processes
  Addresses, AddressOf,   \* GrpcAddress of each agent
  Addressee,              \* who answers at the GrpcAddress of each generator
  MaxJoins,               \* bound: attempts of each process's retry loop
  MaxRestarts,            \* bound: restarts of the orchestrator
  Lossy,                  \* calls and streams may fail at the caller at any time
  PromptUpdates,          \* an Update call ends before the next tick and before
                          \* its target joins again
  PromptReplies           \* a Join response is received before the next tick

ASSUME ProcessesAssumption == Agents \cap Generators = {}
ASSUME AddressesAssumption == AddressOf \in [Agents -> Addresses]
ASSUME AddresseeAssumption == Addressee \in [Generators -> Generators]
ASSUME BoundsAssumption ==
  MaxJoins \in [Agents \cup Generators -> Nat] /\ MaxRestarts \in Nat
ASSUME FlagsAssumption == {Lossy, PromptUpdates, PromptReplies} \subseteq BOOLEAN

Components == Agents \cup Generators
AgentUuids == UNION {{a} \X (1..MaxJoins[a]) : a \in Agents}
GeneratorUuids == UNION {{g} \X (1..MaxJoins[g]) : g \in Generators}
Uuids == AgentUuids \cup GeneratorUuids
Owner(u) == u[1]

\* The process that gets the Update calls for a generator id.  The address is the
\* one in its spec, by default the same for every generator.
Target(u) == Addressee[Owner(u)]
OwnAddresses == \A g \in Generators : Addressee[g] = g

VARIABLES
  agentSpecs, agentStatus, generatorSpecs, generatorStatus,
  agentLists, dirtyAgentUuids, dirtyGeneratorUuids,

  notify,     \* ids the notification loop still has to look at in this tick
  calls,      \* per generator id, notification goroutines that have not sent yet
  updates,    \* per generator id, lists of the Update calls in flight
  joinRpc,    \* per id: none, sent, added (to the store), replied or closed
  replies,    \* per generator id, the list in its Join response
  leaves,     \* ids of the Leave calls in flight
  restarts,   \* restarts of the orchestrator so far

  phase,      \* the retry loop: retry, joining, joined, streaming, broken, done
  run,        \* the process: running, cancelled, leaving, exited
  attempts,   \* joins sent so far
  status,     \* currentStatus, with the list it carries; NoStatus before a join

  tried       \* history: the list that each generator id was last sent, or
              \* would have been had the attempt not failed

storeVars == <<agentSpecs, agentStatus, generatorSpecs, generatorStatus,
               agentLists, dirtyAgentUuids, dirtyGeneratorUuids>>
loopVars == <<notify, calls>>
netVars == <<updates, joinRpc, replies, leaves>>
componentVars == <<phase, run, attempts, status>>
vars == <<storeVars, loopVars, netVars, componentVars, restarts, tried>>

Store == INSTANCE ComponentStore WITH Specs <- Agents, SharedAddresses <- FALSE

NoStatus == [uuid |-> <<>>, list |-> <<>>]
Status(u, list) == [uuid |-> u, list |-> list]

\* The id of the join c is in or has last made.
CurrentUuid(c) == <<c, attempts[c]>>

\* The caller of this join has not given up; otherwise the response goes nowhere.
Awaited(u) == phase[Owner(u)] = "joining" /\ u = CurrentUuid(Owner(u))
Answered(u) == [joinRpc EXCEPT ![u] = IF Awaited(u) THEN "replied" ELSE "closed"]

Init ==
  /\ Store!Init
  /\ notify = {}
  /\ calls = [u \in GeneratorUuids |-> 0]
  /\ updates = [u \in GeneratorUuids |-> << >>]
  /\ joinRpc = [u \in Uuids |-> "none"]
  /\ replies = [u \in GeneratorUuids |-> << >>]
  /\ leaves = {}
  /\ restarts = 0
  /\ phase = [c \in Components |-> "retry"]
  /\ run = [c \in Components |-> "running"]
  /\ attempts = [c \in Components |-> 0]
  /\ status = [c \in Components |-> NoStatus]
  /\ tried = [u \in GeneratorUuids |-> << >>]

-----------------------------------------------------------------------------
(* Orchestrator: the Join and Leave handlers.                              *)

JoinAgent(u) ==
  /\ joinRpc[u] = "sent"
  /\ Store!AddAgent(u, Owner(u))
  /\ joinRpc' = Answered(u)
  /\ UNCHANGED <<loopVars, updates, replies, leaves, componentVars, restarts, tried>>

\* The list joinGenerator reads first is overwritten by the store's own.
JoinGenerator(u) ==
  /\ joinRpc[u] = "sent"
  /\ Store!AddGenerator(u)
  /\ joinRpc' = [joinRpc EXCEPT ![u] = "added"]
  /\ UNCHANGED <<loopVars, updates, replies, leaves, componentVars, restarts, tried>>

\* The response holds the stored status object, and is marshalled after the
\* store's lock was released: it carries the list of this moment.
ReplyGenerator(u) ==
  /\ joinRpc[u] = "added"
  /\ joinRpc' = Answered(u)
  /\ replies' = IF Awaited(u) THEN [replies EXCEPT ![u] = agentLists[u]] ELSE replies
  /\ tried' = [tried EXCEPT ![u] = agentLists[u]]
  /\ UNCHANGED <<storeVars, loopVars, updates, leaves, componentVars, restarts>>

Leave(u) ==
  /\ u \in leaves
  /\ leaves' = leaves \ {u}
  /\ \/ Store!RemoveAgent(u)
     \/ u \notin DOMAIN agentSpecs /\ Store!RemoveGenerator(u)
     \/ /\ u \notin DOMAIN agentSpecs /\ u \notin generatorSpecs
        /\ UNCHANGED storeVars
  /\ UNCHANGED <<loopVars, updates, joinRpc, replies, componentVars, restarts, tried>>

-----------------------------------------------------------------------------
(* Orchestrator: the notification loop.  It takes all dirty ids at once,   *)
(* then starts a goroutine for each that is still registered; the          *)
(* goroutine puts on the wire the status object's list of that moment.     *)

NoUpdateOutstanding ==
  \A u \in GeneratorUuids : calls[u] = 0 /\ updates[u] = << >>

NoReplyOutstanding ==
  \A u \in GeneratorUuids : ~ (joinRpc[u] \in {"added", "replied"} /\ Awaited(u))

\* Mutant: the ticks do not wait for the loop over the previous batch.
TickOverlapping ==
  /\ notify' = Store!DirtyGenerators
  /\ dirtyGeneratorUuids' = {}
  /\ dirtyAgentUuids' = {}
  /\ UNCHANGED <<agentSpecs, agentStatus, generatorSpecs, generatorStatus, agentLists,
                 calls, netVars, componentVars, restarts, tried>>

\* Mutant: the ids of agents are passed on as ids of generators.
TickForAll ==
  /\ notify = {}
  /\ notify' = Store!DirtyGenerators \cup DOMAIN agentSpecs
  /\ dirtyGeneratorUuids' = {}
  /\ dirtyAgentUuids' = {}
  /\ UNCHANGED <<agentSpecs, agentStatus, generatorSpecs, generatorStatus, agentLists,
                 calls, netVars, componentVars, restarts, tried>>

\* The agents' half is GetDirtyAgentUuids alone: no handler ever marks an
\* agent, so the batch it returns is empty.
Tick ==
  /\ notify = {}
  /\ PromptUpdates => NoUpdateOutstanding
  /\ PromptReplies => NoReplyOutstanding
  /\ notify' = Store!DirtyGenerators
  /\ dirtyGeneratorUuids' = {}
  /\ dirtyAgentUuids' = {}
  /\ UNCHANGED <<agentSpecs, agentStatus, generatorSpecs, generatorStatus, agentLists,
                 calls, netVars, componentVars, restarts, tried>>

NotifyGenerator(u) ==
  /\ u \in notify
  /\ notify' = notify \ {u}
  /\ calls' = IF u \in generatorSpecs THEN [calls EXCEPT ![u] = @ + 1] ELSE calls
  /\ UNCHANGED <<storeVars, netVars, componentVars, restarts, tried>>

SendUpdate(u) ==
  /\ calls[u] > 0 /\ run[Target(u)] # "exited"
  /\ calls' = [calls EXCEPT ![u] = @ - 1]
  /\ updates' = [updates EXCEPT ![u] = Append(@, agentLists[u])]
  /\ tried' = [tried EXCEPT ![u] = agentLists[u]]
  /\ UNCHANGED <<storeVars, notify, joinRpc, replies, leaves, componentVars, restarts>>

\* The goroutine's error exits: the address is not reached, or the call fails
\* before the list is marshalled.  Nothing is sent, marked or repeated.
FailSend(u) ==
  /\ calls[u] > 0
  /\ Lossy \/ run[Target(u)] = "exited"
  /\ calls' = [calls EXCEPT ![u] = @ - 1]
  /\ tried' = [tried EXCEPT ![u] = agentLists[u]]
  /\ UNCHANGED <<storeVars, notify, netVars, componentVars, restarts>>

-----------------------------------------------------------------------------
(* Components: the retry loop.                                             *)

\* One attempt of the retry loop; a process whose context is done makes none.
Join(c) ==
  /\ phase[c] = "retry" /\ run[c] = "running" /\ attempts[c] < MaxJoins[c]
  /\ PromptUpdates => \A u \in GeneratorUuids :
                        Target(u) = c => calls[u] = 0 /\ updates[u] = << >>
  /\ attempts' = [attempts EXCEPT ![c] = @ + 1]
  /\ joinRpc' = [joinRpc EXCEPT ![<<c, attempts[c] + 1>>] = "sent"]
  /\ phase' = [phase EXCEPT ![c] = "joining"]
  /\ UNCHANGED <<storeVars, loopVars, updates, replies, leaves, run, status, restarts, tried>>

\* Where the loop goes from an attempt that failed: backoff.Retry ends when
\* the context is done.
AfterFailure(c) == IF run[c] = "running" THEN "retry" ELSE "done"

ReplyList(u) == IF u \in GeneratorUuids THEN replies[u] ELSE << >>
DropReply(u) == IF u \in GeneratorUuids THEN [replies EXCEPT ![u] = << >>] ELSE replies

\* The response may still win against a cancellation: the status is set, and
\* only opening the stream fails.
ReceiveJoin(c) ==
  LET u == CurrentUuid(c) IN
  /\ phase[c] = "joining" /\ joinRpc[u] = "replied"
  /\ joinRpc' = [joinRpc EXCEPT ![u] = "closed"]
  /\ replies' = DropReply(u)
  /\ status' = [status EXCEPT ![c] = Status(u, ReplyList(u))]
  /\ phase' = [phase EXCEPT ![c] = IF run[c] = "running" THEN "joined" ELSE "done"]
  /\ UNCHANGED <<storeVars, loopVars, updates, leaves, run, attempts, restarts, tried>>

\* The call fails at the caller; a request that was sent may still be served.
FailJoin(c) ==
  LET u == CurrentUuid(c) IN
  /\ phase[c] = "joining"
  /\ Lossy \/ run[c] # "running" \/ joinRpc[u] = "closed"
  /\ phase' = [phase EXCEPT ![c] = AfterFailure(c)]
  /\ joinRpc' = IF joinRpc[u] = "replied" THEN [joinRpc EXCEPT ![u] = "closed"] ELSE joinRpc
  /\ replies' = DropReply(u)
  /\ UNCHANGED <<storeVars, loopVars, updates, leaves, run, attempts, status, restarts, tried>>

OpenStream(c) ==
  /\ phase[c] = "joined"
  /\ phase' = [phase EXCEPT ![c] = "streaming"]
  /\ UNCHANGED <<storeVars, loopVars, netVars, run, attempts, status, restarts, tried>>

\* Mutant: the stream is opened again without joining again.
NoticeBreakReopening(c) ==
  /\ phase[c] = "broken"
  /\ c \in Agents \/ status[c].list # << >>
  /\ phase' = [phase EXCEPT ![c] = "joined"]
  /\ UNCHANGED <<storeVars, loopVars, netVars, run, attempts, status, restarts, tried>>

\* Mutant: a component leaves before it joins again.
NoticeBreakLeaving(c) ==
  /\ phase[c] = "broken"
  /\ phase' = [phase EXCEPT ![c] = "retry"]
  /\ leaves' = leaves \cup {status[c].uuid}
  /\ UNCHANGED <<storeVars, loopVars, updates, joinRpc, replies, run, attempts, status, restarts, tried>>

\* An agent blocks in Recv and sees at once that its stream is gone; a
\* generator sees it in Send, which it calls only while it knows an agent.
NoticeBreak(c) ==
  /\ phase[c] = "broken"
  /\ c \in Agents \/ status[c].list # << >>
  /\ phase' = [phase EXCEPT ![c] = "retry"]
  /\ UNCHANGED <<storeVars, loopVars, netVars, run, attempts, status, restarts, tried>>

-----------------------------------------------------------------------------
(* Components: the Update handler, and the end of the process.             *)

\* Calls started by different ticks are separate connections: any order.  The
\* handler takes the status as it comes, id included.
Update(u, i) ==
  /\ i \in DOMAIN updates[u] /\ run[Target(u)] # "exited"
  /\ status' = [status EXCEPT ![Target(u)] = Status(u, updates[u][i])]
  /\ updates' = [updates EXCEPT ![u] = RemoveAt(@, i)]
  /\ UNCHANGED <<storeVars, loopVars, joinRpc, replies, leaves, phase, run, attempts,
                 restarts, tried>>

\* The context is done.  Every phase but a Join in progress ends at once.
Cancel(c) ==
  /\ run[c] = "running"
  /\ run' = [run EXCEPT ![c] = "cancelled"]
  /\ phase' = [phase EXCEPT ![c] = IF @ = "joining" THEN @ ELSE "done"]
  /\ UNCHANGED <<storeVars, loopVars, netVars, attempts, status, restarts, tried>>

\* Mutant: the process waits for a status to leave with.
LeaveClusterWaiting(c) ==
  /\ run[c] = "cancelled" /\ status[c] # NoStatus
  /\ run' = [run EXCEPT ![c] = "leaving"]
  /\ leaves' = leaves \cup {status[c].uuid}
  /\ UNCHANGED <<storeVars, loopVars, updates, joinRpc, replies, phase, attempts, status,
                 restarts, tried>>

\* leaveCluster: the id is the one in the status of this moment.
LeaveCluster(c) ==
  /\ run[c] = "cancelled"
  /\ IF status[c] = NoStatus
       THEN /\ run' = [run EXCEPT ![c] = "exited"]
            /\ UNCHANGED leaves
       ELSE /\ run' = [run EXCEPT ![c] = "leaving"]
            /\ leaves' = leaves \cup {status[c].uuid}
  /\ UNCHANGED <<storeVars, loopVars, updates, joinRpc, replies, phase, attempts, status,
                 restarts, tried>>

\* Leave returned, or its five seconds are over.
LeaveReturns(c) ==
  /\ run[c] = "leaving"
  /\ Lossy \/ \A u \in leaves : Owner(u) # c
  /\ run' = [run EXCEPT ![c] = "exited"]
  /\ UNCHANGED <<storeVars, loopVars, netVars, phase, attempts, status, restarts, tried>>

-----------------------------------------------------------------------------
(* Failures.  A lost request needs no action: it is one that is never      *)
(* served, which Spec allows and FairSpec, used without losses, does not.  *)

\* Nobody is listening any more; the failure is only logged.
FailUpdate(u, i) ==
  /\ i \in DOMAIN updates[u]
  /\ run[Target(u)] = "exited"
  /\ updates' = [updates EXCEPT ![u] = RemoveAt(@, i)]
  /\ UNCHANGED <<storeVars, loopVars, joinRpc, replies, leaves, componentVars, restarts, tried>>

DropConnection(c) ==
  /\ Lossy /\ phase[c] = "streaming"
  /\ phase' = [phase EXCEPT ![c] = "broken"]
  /\ UNCHANGED <<storeVars, loopVars, netVars, run, attempts, status, restarts, tried>>

\* Mutant: the registry outlives the process.
RestartWithRegistry ==
  /\ restarts < MaxRestarts
  /\ restarts' = restarts + 1
  /\ phase' = [c \in Components |-> IF phase[c] = "streaming" THEN "broken" ELSE phase[c]]
  /\ UNCHANGED <<storeVars, loopVars, netVars, run, attempts, status, tried>>

\* Mutant: only the registered agents are lost.
RestartWithGenerators ==
  /\ restarts < MaxRestarts
  /\ restarts' = restarts + 1
  /\ agentSpecs' = << >> /\ agentStatus' = {}
  /\ UNCHANGED <<generatorSpecs, generatorStatus, agentLists, dirtyAgentUuids,
                 dirtyGeneratorUuids, loopVars, netVars, componentVars, tried>>

\* The orchestrator's process ends and a new one starts: its state, its
\* goroutines, the requests it had not answered and its streams are gone.
OrchestratorRestart ==
  /\ restarts < MaxRestarts
  /\ restarts' = restarts + 1
  /\ Store!NewComponentStore
  /\ notify' = {}
  /\ calls' = [u \in GeneratorUuids |-> 0]
  /\ joinRpc' = [u \in Uuids |-> IF joinRpc[u] \in {"sent", "added"} THEN "closed" ELSE joinRpc[u]]
  /\ leaves' = {}
  /\ phase' = [c \in Components |-> IF phase[c] = "streaming" THEN "broken" ELSE phase[c]]
  /\ UNCHANGED <<updates, replies, run, attempts, status, tried>>

-----------------------------------------------------------------------------
OrchestratorStep ==
  \/ \E u \in AgentUuids : JoinAgent(u)
  \/ \E u \in GeneratorUuids :
       JoinGenerator(u) \/ ReplyGenerator(u) \/ NotifyGenerator(u)
       \/ SendUpdate(u) \/ FailSend(u)
  \/ \E u \in Uuids : Leave(u)
  \/ Tick

ComponentStep(c) ==
  \/ Join(c) \/ ReceiveJoin(c) \/ FailJoin(c) \/ OpenStream(c) \/ NoticeBreak(c)
  \/ LeaveCluster(c) \/ LeaveReturns(c)

UpdateStep == \E u \in GeneratorUuids : \E i \in DOMAIN updates[u] : Update(u, i) \/ FailUpdate(u, i)

Failure ==
  \/ \E c \in Components : DropConnection(c)
  \/ OrchestratorRestart

Next ==
  \/ OrchestratorStep
  \/ \E c \in Components : ComponentStep(c) \/ Cancel(c)
  \/ UpdateStep
  \/ Failure

Spec == Init /\ [][Next]_vars

\* Goroutines and calls that are not blocked get to run, and so do the ticker
\* and the retry timer; nothing forces a process to stop, a call to fail or the
\* orchestrator to restart.  FailJoin is fair where the call can only fail.
Fairness ==
  /\ \A u \in AgentUuids : WF_vars(JoinAgent(u))
  /\ \A u \in GeneratorUuids :
       /\ WF_vars(JoinGenerator(u)) /\ WF_vars(ReplyGenerator(u))
       /\ WF_vars(NotifyGenerator(u)) /\ WF_vars(SendUpdate(u) \/ FailSend(u))
       /\ WF_vars(\E i \in DOMAIN updates[u] : Update(u, i) \/ FailUpdate(u, i))
  /\ \A u \in Uuids : WF_vars(Leave(u))
  /\ WF_vars(Tick)
  /\ \A c \in Components : WF_vars(ComponentStep(c))

FairSpec == Spec /\ Fairness

-----------------------------------------------------------------------------
(* Safety, under every failure.                                            *)

\* The shape of the state.  No agent is ever dirty: nothing calls the store's
\* update branches, so notifyChangedAgents never has anyone to notify.
TypeOK ==
  /\ Store!TypeOK
  /\ dirtyAgentUuids = {}
  /\ notify \subseteq GeneratorUuids
  /\ calls \in [GeneratorUuids -> Nat]
  /\ updates \in [GeneratorUuids -> Seq(Seq(Agents))]
  /\ joinRpc \in [Uuids -> {"none", "sent", "added", "replied", "closed"}]
  /\ replies \in [GeneratorUuids -> Seq(Agents)]
  /\ leaves \subseteq Uuids
  /\ restarts \in 0..MaxRestarts
  /\ phase \in [Components -> {"retry", "joining", "joined", "streaming", "broken", "done"}]
  /\ run \in [Components -> {"running", "cancelled", "leaving", "exited"}]
  /\ attempts \in [Components -> Nat]
  /\ \A c \in Components : attempts[c] <= MaxJoins[c]
  /\ status \in [Components -> [uuid : Uuids \cup {<<>>}, list : Seq(Agents)]]
  /\ tried \in [GeneratorUuids -> Seq(Agents)]

\* A generator id the orchestrator still has to attempt to send a list.
Pending(u) ==
  \/ u \in dirtyGeneratorUuids
  \/ u \in notify
  \/ calls[u] > 0
  \/ joinRpc[u] = "added"

\* Every change of a registered generator's list leads to an attempt to send it: as
\* long as the list differs from the one of the last attempt, the generator is
\* dirty, or in the batch of ids of the running tick, or has a goroutine that has
\* not sent yet, or its Join has not been answered.  The dirty flags are cleared
\* before anything is sent (store.go:270), lists change in between, and generators
\* leave and join again.  One attempt: one that fails is not repeated.
ChangesAttempted ==
  \A u \in generatorSpecs : agentLists[u] # tried[u] => Pending(u)

\* A list never has more entries for an address than there are ids registered for
\* agents there, whatever was lost, repeated or left behind by failed attempts.
NoGhosts == Store!NoGhosts

\* The processes that may be told this id: the one that joined under it, and the
\* one that answers at a generator's address.
ToldOf(u) == {Owner(u)} \cup {Addressee[g] : g \in Generators \cap {Owner(u)}}

\* A registration ends only because a process that may have its id is shutting down
\* (the owner alone, if addresses are not shared) or the orchestrator lost its
\* memory; never by a retry, a late call, or any other component's Leave.
KeptUntilShutdown ==
  [][restarts' = restarts =>
       \A u \in Uuids :
         (u \in DOMAIN agentSpecs \cup generatorSpecs /\
          u \notin DOMAIN agentSpecs' \cup generatorSpecs')
            => \E c \in ToldOf(u) : run[c] \in {"leaving", "exited"}]_vars

-----------------------------------------------------------------------------
(* Safety, when calls succeed and arrive in time.                          *)

\* Nothing about u is waiting or travelling.
Settled(u) == ~ Pending(u) /\ updates[u] = << >> /\ joinRpc[u] = "closed"

\* The orchestrator "maintains and distributes cluster status to all components"
\* (components.go:69): once nothing is on its way to a registered generator, what
\* that generator believes is what the orchestrator holds for it.
ViewsAgree ==
  \A u \in generatorSpecs :
    run[Owner(u)] = "running" /\ Settled(u) => status[Owner(u)] = Status(u, agentLists[u])

\* The list of a registered generator is exactly the registered agents, each once.
ListsExact == Store!ListsExact

\* A process is registered under one id at a time: the retry loop joins again
\* under a new id without leaving, and only the restart cleared the old one.
OneRegistration ==
  \A u, v \in DOMAIN agentSpecs \cup generatorSpecs : Owner(u) = Owner(v) => u = v

\* The handlers use the store as a registry in which every agent has an address
\* of its own: the cluster implements ManagedSpec.
UsesStoreWell == Store!ManagedSpec

-----------------------------------------------------------------------------
(* Liveness, when calls succeed and arrive in time.                        *)

IsRegistered(c) == \E u \in DOMAIN agentSpecs \cup generatorSpecs : Owner(u) = c

OutOfDate(u) ==
  /\ u \in generatorSpecs
  /\ status[Owner(u)] # Status(u, agentLists[u])

\* A registered generator that has an old list gets the current one, or stops
\* or loses its registration: no join or leave of an agent stays unknown to it.
ViewsCatchUp ==
  \A u \in GeneratorUuids :
    OutOfDate(u) ~> (~ OutOfDate(u) \/ run[Owner(u)] # "running")

\* Once the orchestrator stays up, an agent whose stream a restart broke is
\* registered again, and so is a generator that keeps knowing some agent.
BrokenRejoin ==
  \A c \in Components :
    (restarts = MaxRestarts /\ phase[c] = "broken")
      ~> (\/ IsRegistered(c)
          \/ run[c] # "running"
          \/ c \in Generators /\ status[c].list = << >>)

\* A component that shuts down ends: leaving never blocks it for good.
ShutdownEnds == \A c \in Components : run[c] = "cancelled" ~> run[c] = "exited"
=============================================================================
