# Verification of the probing cluster

TLA+ modules, TLC configurations and TLAPS proofs for the Go program in `src/`: an orchestrator,
probing agents and directive generators that register with it over gRPC, exchange directives and
results over streams, and are told by it who else is there.

## 1. The system

| component | source (under `src/internal/`) | state | operations |
|---|---|---|---|
| component store | `components/orchestrator/store.go` | maps of agent and generator specs and statuses, dirty ids; each generator's status holds its list of agent specs | AddOrUpdate*, Remove*, Update*Status, List*, GetDirty*, all under one lock |
| orchestrator, membership | `components/orchestrator/manager.go` 101-172, 287-371 | the store; goroutines of the notification loop | Join, Leave, a tick every 5 s, one Update goroutine per notified generator |
| orchestrator, data plane | same, 174-249, 373-559 | `directiveCh`, `elementCh`, `clients` | PushProbingDirectives, PushForwardingInfoElements, runFanout, Stream, Close |
| generator manager | `components/generator/manager.go` | `currentStatus`, the retry loop's position | Update, Run, joinCluster, streamDirectives, leaveCluster, Close |
| agent manager | `components/agent/manager.go` | the same | Update, Run, joinCluster, streamElements, leaveCluster |
| mock directive generator | `components/generator/mock_directive_generator.go` | `outCh`, `closeCh`, `closed` | Run, Close |
| mock prober, caracal prober | `components/agent/*_prober.go` | `inCh`, `outCh`, `closed`; the caracal prober's pending probes | Run, Close, handleResponse, cleanup |
| interfaces, conversions, entry points | `components.go`, `util/`, `api/`, `clients/`, `cmd/` | none | declarations, pure functions, dialling, flags |

How they interact. A component dials the orchestrator, calls Join, gets an id and a status, opens a
stream and keeps it; on any error its backoff loop joins again. A join or leave of an agent edits the
list in every generator's status and marks the generators dirty. Every five seconds the orchestrator
clears the dirty flags and calls Update on each generator that was dirty, each in a goroutine of its
own. A component that is stopped calls Leave with the id in its status. Generators push directives
into one queue, agents take from it and push elements into another, which is fanned out to the HTTP
clients.

What is hard in it:

* the dirty flags are cleared before anything is sent, and lists change in between;
* Update calls carry no version, are not ordered among themselves or against the Join response, and are
  not retried;
* the id of a registration is known to its owner only when the Join response arrives; each attempt of
  the retry loop makes another registration;
* a list is edited by comparing `GrpcAddress`, while registrations are keyed by id;
* the orchestrator keeps its registry in memory only;
* generators and agents started with the default `--address` give the orchestrator the same `GrpcAddress`;
* sends on streams and writes to caracal block for as long as the other side does not read;
* channels are closed by one goroutine while another sends, and managers replace channels by nil;
* shutdown runs beside the retry loop and the streams.

What makes each component correct:

* *store*: its maps agree; a generator's list is what is registered; a change of a list is announced.
* *membership*: every change leads to an attempt to send it; registrations end only with their owner; a generator's view
  becomes the orchestrator's; a broken component is registered again; shutdown ends and leaves nothing.
* *data plane*: a directive is executed at most once, messages keep their order, a slow client holds up
  nobody, shutdown ends whatever the peers do, no send on a closed channel, a directive reaches the agent
  it names.
* *streams and probers*: pacing never divides by zero; hardly anything is emitted after Close; an agent that
  reconnects still probes; a reply is matched with the probe that caused it.

## 2. The modules

`ComponentStore` is the store. Each exported operation that changes state is one action, because each
holds the lock for its whole body. `agentSpecs` is a function, the other maps are their sets of keys,
and `agentLists[u]` is the `AgentSpecs` field of the status *object* of generator `u`: the object
outlives its map entry, as a goroutine or a response may still hold it. A spec is a value with an
address, and an update of an agent may bring one with another address. The order in which Go ranges over a map is a nondeterministic order in `AddGenerator`; in the
other loops it makes no difference. `Spec` lets anyone call anything at any time; `ManagedSpec` has the
calls the manager really makes, where the update branches are never taken because every Join is given
a fresh id. `SharedAddresses` says whether an agent may join with an address that is in use.

`Cluster` composes that store with the orchestrator's handlers, the notification loop, the retry loop
and shutdown of every process, and the calls in flight.

| state of `Cluster` | what it is in the program |
|---|---|
| the store's seven variables | `m.store` |
| `notify` | the rest of `dirtyUuids` in the loop of `notifyChangedGenerators` |
| `calls` | goroutines started there that have not marshalled their request |
| `updates` | Update requests on the wire or in the generator's server |
| `joinRpc`, `replies` | the Join calls, by the id each was or will be given |
| `leaves` | the Leave calls in flight |
| `phase`, `attempts` | where the retry loop is, and how often it went round |
| `run` | running; context cancelled; in `leaveCluster`; exited |
| `status` | `currentStatus`: id and list |
| `tried` | history only: the list of the last attempt to send each generator one, in an answer or an Update |
| `Addressee` (a constant) | which generator process answers at the `GrpcAddress` of each |

`JoinAgent`, `JoinGenerator` + `ReplyGenerator`, `Leave` are the handlers; joinGenerator is two actions
because the response is marshalled after the lock was released and carries the list of that later
moment. `Tick`, `NotifyGenerator` are the ticker's case and one round of the loop. `SendUpdate` and `FailSend` are
the goroutine: it marshals the list and sends it, or it ends with an error before that, and nothing is sent, marked or
repeated (`manager.go:354-365`). It dials the address in the spec, so an Update arrives at `Target(u)`, which need not be
the process that joined as `u`. `Join`, `ReceiveJoin`, `FailJoin`, `OpenStream`, `NoticeBreak` are the retry loop, the same
for agents and generators; an idle generator (empty list) does not touch its stream, so it does not
notice that it broke. `Update` is the handler in the generator, `Cancel`, `LeaveCluster`, `LeaveReturns`
are shutdown, and `DropConnection`, `OrchestratorRestart`, `FailUpdate` the failures. A call that fails
at its caller may still be served; a call that is never served is one that no step serves.

`Dataplane` is the other half of the orchestrator: the two queues, the handlers of the streams, the
fan-out, the HTTP clients, and `Run` with `Close`.

| state of `Dataplane` | what it is in the program |
|---|---|
| `queue` | contents of `directiveCh` and `elementCh` |
| `closing` | how many statements of `Close` were executed: it closes each channel and then sets its field to nil |
| `in`, `out` | per stream, the goroutine that receives from it (PushProbingDirectives and one half of PushForwardingInfoElements do the same, on different queues and contexts) and, for an agent's, the one that sends |
| `up`, `arrived`, `failed` | per stream: its connection stands, messages received from it, its handler's errgroup is cancelled |
| `buffers`, `client` | `m.clients` with the channels in it, and each Stream |
| `fan`, `running`, `cancelled` | runFanout with its field, the parts of the two servers that still run, and Run's context; the notification loop, which ends when the context is done, is not kept |
| `result` | what becomes of the process: running, a clean return, an error, a panic |
| `accepted`, `sent`, `lost`, `got` | history only |

A goroutine that enters a select evaluates the channel field there and then, outside any lock
(`Select`, with the flag `ch`), and may find it closed or nil later: each statement of `Close` is a step of its
own. A send on a closed channel is a panic; on nil it blocks until another case of the select is ready. When
several cases are ready any is taken. `SendDirective` is a step of the agent's side: Send waits until the agent reads, and
nothing makes it. `FanOut` receives an element and delivers it in one step: no other step could tell the two apart. gRPC and HTTP are modelled from how Run uses them: Shutdown ends
ListenAndServe at once; GracefulStop waits for the handlers, and 100 ms later Stop closes every connection.
A stream is opened once, a stream that a component opens after another is another member of the set.

`Prober` is abstract: what the interface of that name promises (`components.go:103-126`) of its two channels. It
answers directives it was given, each at most once; it need not answer. `CaracalProber` and `AgentStream` both implement
it (`ImplementsProber`), by keeping what was given and emitted as history variables. The interface also says that
"After Close is called, no further values will be emitted" (`components.go:124`). Neither prober keeps that, so it is not
part of `Prober`: `CaracalProber` counts the sends that come after the call (`late`), and `OneLateAnswer` bounds them by one;
for the mock prober there is no bound, as each of its selects may take another directive, and another send, after closeCh was
closed.

`CaracalProber` is the prober that drives the caracal process: Run's loop with the two writes of a directive, the
reader, the cleaner, and Close, each a goroutine of its own.

| state of `CaracalProber` | what it is in the program |
|---|---|
| `inCh`, `outCh`, `closing` | the channels, and the statements of `Close` that were executed: closeCh, the process, outCh |
| `caracal`, `network` | the process with its pipes; probes written to it that may still be answered, once, repeatedly or never |
| `run`, `current` | where Run is; the directive in sendDirective |
| `reader`, `hand` | readCaracalOutput; the reply it handles or the element it sends |
| `cleaner`, `pending` | cleanupExpiredProbes; the map, by flow and protocol |
| `given`, `emitted`, `late` | history only |

`pendingMu` is held across a step only while the reader sends on outCh (`LockFree`). Time is not kept: any pending
probe may have expired at any tick. Of a reply only its probe is kept, which says its flow, protocol and TTL;
the protocol of the key goes through the conversions of both directions (`CaracalProtocol`).

`AgentStream` is the agent between its streams and the mock prober: the retry loop opens one stream after another,
each with the two goroutines of streamElements, and all share one prober. `GeneratorStream` is the same for a
generator: the retry loop, streamDirectives, the mock directive generator, and the list that updates and
joins change under both.

| state of `AgentStream` | of `GeneratorStream` | what it is in the program |
|---|---|---|
| `loop`, `streams`, `up` | the same | the retry loop, the streams it has opened, and whether the connection of the current one stands |
| `recv`, `taken`, `send`, `answer`, `failed` | `stream`, `next` | the goroutines of streamElements, with what each holds, and its errgroup; streamDirectives |
| `prober`, `probing`, `inCh`, `outCh`, `closing` | `producer`, `made`, `outCh`, `closing` | Run of the prober or producer, with what it holds, its channels and its Close |
| `cancelled`, `panicked` | also `left` | Run's context; the process; leaveCluster has returned, after which the generator's Close is called |
| | `list` | `AgentSpecs` of `currentStatus` |

SleepWithContext returns nil also when the context is done (`util.go`), so pacing never ends a stream: Send is tried. Send
blocks until the orchestrator reads (`SendElement`, `SendDirective` are steps that nothing promises), or the stream breaks. The
two divisions of the pacing are in `TakeElement` and `TakeDirective`, with the panic when the divisor is zero. A prober
or producer that comes to its select after Close finds two ready cases, one of which is a send on a closed
channel: it may panic (`PanicSend`, `Panic`).

`Cluster` and the stream modules share the retry loop but not its details: what a join does to the registry is in
`Cluster`, what flows over the stream that follows is in the other two.

`MCComponentStore`, `MCCluster`, `MCDataplane` and `MCCaracalProber` give the constants their values for TLC. The proofs are in
`ComponentStore_proofs`, `Cluster_proofs`, `ClusterNoLoss_proofs`, `Dataplane_proofs`, `GeneratorStream_proofs`,
`AgentStream_proofs` and `CaracalProber_proofs`.

## 3. The runs

| run | asks | shows |
|---|---|---|
| `store` | every operation in every order, 3 agent ids, 1 generator id, 3 specs of which 2 share an address | `TypeOK`, `KeysAgree`, `ChangeIsAnnounced` |
| `faults` | 1 generator, an agent that joins twice under one address, every call may fail, streams break, one restart | `TypeOK`, `ChangesAttempted`, `NoGhosts`, `KeptUntilShutdown` |
| `distribution` | 2 agents come and go beside a generator; calls succeed and end before the next tick | `ViewsAgree`, `ListsExact`, `ViewsCatchUp` |
| `restart` | the orchestrator restarts once, both processes may join twice, nothing is lost otherwise | `OneRegistration`, `UsesStoreWell`, `BrokenRejoin`, `ShutdownEnds` |
| `join_race` | as `distribution` with one agent, but a Join response may be slower than the next Update | `ViewsAgree` fails (finding 1) |
| `directives` | a generator with 2 directives, 2 agents that compete for them, streams break, Run is cancelled at any moment | `TypeOK`, `AcceptedOnce`, `DirectivesInOrder`, `DirectivesFlow`, `ShutdownTerminates` |
| `elements` | an agent with 3 elements, 2 HTTP clients that read or stall, Run is cancelled at any moment | `ElementsInOrder`, `FanOutFlows`, `ShutdownTerminates` |
| `caracal` | 2 directives of one flow whose TTLs are neighbours, so that a far probe of one is a near probe of the other; replies lost, late, repeated; the process dies; Close at any time | `TypeOK`, `RepliesMatch`, `OneLateAnswer`, `ImplementsProber`, `DirectivesTaken`, `RunEnds` |
| `agent_stream` | 5 directives over 3 streams that break at any time | `TypeOK`, `AnswersInOrder`, `ImplementsProber`, `FirstStreamAnswers`, `BreakNoticed`, `AgentEnds` |
| `generator_stream` | 2 agents listed and unlisted at any time, 5 directives over 2 streams | `TypeOK`, `SentInOrder`, `StaleBounded`, `Flows`, `GeneratorEnds` |
| `agent_reconnect` | 2 directives over 2 streams | `EveryStreamAnswers` fails (finding 2) |
| `close_panic` | a directive is being pushed into its queue when Run is cancelled | `ShutdownSurvived` fails (finding 3) |

What the properties do not say. `NoGhosts` counts: with two agents at one address it does not say whose entry is
left. `ChangesAttempted` speaks of attempts: an Update that fails is lost for good. A process that panics has
ended, so `ShutdownTerminates`, `RunEnds`, `AgentEnds`, `BreakNoticed` and `GeneratorEnds` say that nobody waits for ever, not that
the end is a clean one. `DirectivesFlow`, `FirstStreamAnswers`, `Flows` and `DirectivesTaken` assume that no Send and no
Write is blocked for good, stated in the property: a peer that stops reading stops the flow.

Bounds. `MaxJoins` bounds the attempts of a retry loop and `MaxRestarts` the restarts. Two attempts are
enough for everything that one registration can do to the next of the same process, one restart for a
process to meet an orchestrator without memory in every phase, two agents for a batch of changes to be
interrupted by another, and three specs on two addresses for a removal to hit the wrong entry. In the runs
of `Cluster` each generator has an address of its own; `ChangesAttempted` and `KeptUntilShutdown` are proved for shared ones
too, and hold of two generators that share one (some five million states, which is more than a run should take). The
number of ticks, Updates and cancellations is not bounded.

In `Dataplane`, `MaxArrivals` bounds what arrives on each stream. Every queue has capacity
one, so that the second message of a stream meets a full queue: one message waits in the channel, one in a
sender's hand. Two streams that compete for one queue are enough for a directive to be taken by the wrong
one, or twice; two clients for one to be full while the other is not. The passing runs go on after a
panic is possible; a process that panicked does nothing more.

In the prober and stream modules, `MaxStreams` and `MaxDirectives` bound the streams of the retry loop and the
directives that arrive or are generated; channels have capacity one. A third stream of an agent shows what the
second left behind. `StaleBounded` allows `Buffer + 2` stale directives; with five directives for two agents the
bound is reached, and one less fails. In `caracal` a third directive makes about nine million states, with which the
invariants hold; the run has two, for the liveness properties.

Three flags say which failures a run has. `Lossy`: any call may fail at its caller, any stream may break.
`PromptUpdates` and `PromptReplies`: an Update call, respectively a Join response, is over before the
next tick five seconds later. The runs on agreement of views assume both, and `join_race` shows that
the second is needed; without the first, two Updates in flight may be applied in the wrong order. In the
run that shows what holds under every failure, `Lossy` is true and the other two are false.

Fairness (`FairSpec`). Weak fairness of the handlers, the goroutines, the calls, the ticker and each
component's own steps: the Go scheduler runs what is not blocked, and ticker and backoff fire. In `Dataplane`, goroutines that are not blocked run and the
100 ms timer fires; a peer need not connect, send, read or go away, and `SendDirective`, which needs a peer that reads, has no fairness. In the prober and stream modules the goroutines and a
Close that was called go on, os/exec kills the process of a context that is done, and leaveCluster has a timeout; nobody need push, pull, reply, accept a
stream, read one, read what is written to a pipe, or update a list: `WriteProbe`, `SendElement` and `SendDirective` have no fairness. No
fairness for `Cancel`, `DropConnection`, `OrchestratorRestart`. `FailJoin` is fair only as an
alternative of a component's step, where the call can do nothing but fail. Liveness is checked only in
runs without losses: with them, a lost Update is not repeated and nothing is promised.
`CHECK_DEADLOCK` is left on everywhere: the ticker always ticks, and the orchestrator stops only where `Ended`
says so.

## 4. Findings

1. **A Join response overwrites a newer Update** (`join_race`). The response is stored when the call
   returns (`generator/manager.go:260`); an Update that the next tick sent in between is lost, and its dirty
   flag is gone. The generator keeps the old list until some agent joins or leaves, against "Maintains and
   distributes cluster status to all components" (`components.go:69`).
2. **An agent that reconnects never probes again** (`agent_reconnect`). The receiving goroutine of a stream defers
   `prober.Close()` (`agent/manager.go:272`), which is final. After the first broken stream the prober has ended; the
   retry loop joins again, the agent is listed, takes directives from the shared queue and answers none, against
   "receives probing directives [...] and returns forwarding information elements" (`components.go:39-40`). Once inCh is
   full the receiver waits there for ever, and the agent does not notice either that a later stream broke:
   `BreakNoticed` holds of the first stream only.
3. **Shutdown can panic** (`close_panic`). `Close` closes `directiveCh` (`manager.go:487`) while
   PushProbingDirectives is in its select with a send on it (`:191`), whether the queue is full or not: a "Non-blocking / cancellation-aware enqueue"
   (`:187`) which is aware of the stream's context only. The same holds of `elementCh` (`:216`), where
   the cancelled context is only one of two ready cases.

Behaviours that the models contain and no run asserts the absence of:

* Entries of a list are compared by `GrpcAddress` (`store.go:65`, `:100`), and two agents on different machines that are started with the
  default `--address` have the same one: the second is not listed, and is not listed either when the first leaves (`store.go:36`
  says "adds agent spec to ALL generators"). If a generator joins while both are registered it gets both
  entries, and the leave of one agent removes whichever is first: the departed one can stay listed in place of the other
  (`store.go:83`: "Removes agent spec from ALL generators"). `ListsExact` assumes distinct addresses.
* An Update that fails is only logged (`manager.go:354-365`). Its dirty flag is gone: the generator keeps the old list until
  another agent joins or leaves.
* The orchestrator dials the generator's `GrpcAddress` (`manager.go:354`). Generators that share one (the default is `:50049`,
  `cmd/generator/main.go:26`) get each other's status, id included, and leave with it. `ViewsAgree` is proved for generators
  with an address of their own (`OwnAddresses`).
* An attempt of the retry loop after a broken stream registers a new id and leaves the old one registered. An idle generator
  (empty list, or rate 0) does not notice a restart of the orchestrator at all (`generator/manager.go:273`).
* A process stopped after the orchestrator registered it and before its Join response arrived has no status
  (`agent/manager.go:122`), sends no Leave and stays registered (`iprl.proto:44`: "leaves the cluster gracefully").
* Any agent takes any directive: the streams of all agents receive from one channel (`manager.go:232`) and none compares
  the vantage point it names (`components.go:67`: "Routes probing directives from generators to appropriate agents").
* On a clean shutdown runFanout may see the closed `elementCh` first, and Run then returns an error (`:381`); `result`
  has both outcomes.
* A generator panics if its list becomes empty between the check of `generator/manager.go:273` and the division of `:295`; an agent, if its
  rate cap is 0 (`agent/manager.go:298`).
* A prober or producer that is busy while it is closed may then send on the closed channel and panic
  (`mock_prober.go:84`, `caracal_prober.go:370`, `mock_directive_generator.go:69`). Before that, while Close is still under way, it may
  emit a value although Close was called (`components.go:124`): the caracal prober one, which `OneLateAnswer` shows.
* A caracal prober closed before Run has started it leaves Run waiting for its context (`caracal_prober.go:152`).

## 5. The proofs

All theorems hold for any sets of processes, ids, specs and addresses and any bounds; the assumptions are
the named ASSUMEs of the modules (`AddressOf` is a function, agents and generators are different
processes, bounds and rates are natural numbers, a channel has a capacity, flags are Booleans).

`ComponentStore_proofs`:

* Lemmas on one list: `FirstWith` finds the least matching index (`MinIsLeast`, from the
  well-foundedness of finite sets), and what append, replace and remove leave in a list.
* `TypeCorrect`, `KeysAlwaysAgree`: `StoreInv` = `TypeOK`, `KeysAgree` and "finitely many agents are
  registered", which makes what a loop over the map collects a finite list. One lemma per operation.
* `ManagedNeverGhosts` (`NoGhosts`, for the manager's calls, shared addresses included), from `StoreInv` and itself. What
  appending and removing do to the *number* of entries with an address is stated once each (`AppendEntries`,
  `RemoveEntries`). A join or leave changes that number and the number of agents there in step; for a new generator the
  entries are counted by an injection into the agents (`ListingEntries`). It does not hold of an update with another
  address, which the store allows and the manager never makes.
* `ChangesAnnounced`: every step that changes the addresses in a list marks the generator. The one case
  that is not immediate is the update of an agent, which marks nobody: replacing an entry found by
  address leaves the addresses as they were.
* `ListsAlwaysExact`: for the manager's calls, if no agent joins with an address in use. `ListsExact` is
  not inductive: removal takes the *first* entry with the address. `ExactInv` adds that registered
  addresses are distinct and that a list has no two entries with one address; length and cardinality
  then agree by a bijection.

`Cluster_proofs` (no assumption on failures: all flags arbitrary):

* `StoreStep`: every step of the cluster is a step of the manager's use of the store, or leaves it alone.
  This is the refinement `ImplementsRegistry`, and it carries `StoreInv` over.
* `ClusterTypeCorrect`, `EveryChangeAttempted`, `RegistrationsKept`, from the invariant `IInv`, for any `Addressee`:
  `ChangesAttempted` needs that joins are numbered and that a registered id's Join was served, or a new
  attempt could reuse the id of an answer still owed; `KeptUntilShutdown` needs that a status holds an
  id its process may have been told (`ToldOf`) and that a Leave in flight belongs to a process that is shutting down. One lemma per
  action.
* `ClusterNeverGhosts`: `NoGhosts` of the registry, inherited through the refinement.

`ClusterNoLoss_proofs` (`~ Lossy`, any number of processes, attempts and restarts; processes may stop at any time):

* `RegisteredOnce` (`OneRegistration`) from `NoLossInv`: only the id of a component's last attempt is known to the
  orchestrator, registered or in a Join being served (`OneId`); none is while the component is between attempts
  (`AbsentBetween`); a component that runs awaits the answer to every Join it sent (`InTime`). The third is what
  losses would break: a call that fails at its caller and is served later registers an id nobody knows.
* `StoreAlwaysUsedWell` (`UsesStoreWell`), if also each agent has an address of its own (`DistinctAddresses`): an agent
  with the address of the one that joins would be the same agent under the same id. `ListsAlwaysExactInCluster`
  (`ListsExact`) follows from this refinement and `ListsAlwaysExact` of the store.
* `ViewsAlwaysAgree` (`ViewsAgree`), under `PromptUpdates`, `PromptReplies` and `OwnAddresses`: `ViewsInv` says where the list last put
  on the wire for a registered generator is (`LastSent`): in the answer to its Join, in its one Update call, or in its
  status. That there is only one call, addressed to the generator's last id and started after its Join was answered, is
  `OneUpdate`, the part that needs the two flags: without `PromptReplies` an answer could arrive after an
  Update (finding 1), without `PromptUpdates` two Updates could arrive in the wrong order, or one for an old id
  after a new Join. With `ChangesAttempted`, the list last sent is the orchestrator's.

`Dataplane_proofs` (any streams, clients, capacities and numbers of messages; Close at any moment after Run is cancelled):

* `TypeCorrect`: `TypeOK` with `Kinds`: each queue holds messages of its own kind, and a goroutine holds a message
  exactly in the select of a receiver and in the send of a sender. The state is split into parts that change
  together, and each operation has a step for its parts.
* `DirectivesAlwaysInOrder`, `ElementsAlwaysInOrder`: the order of what was delivered is not inductive. The invariants
  order a whole path: among the messages of one connection, what was written is below what its sender holds
  (for an HTTP client, what waits in its channel), that is below the queue, and that is below what the receiver
  still holds. It matters that a sender's hand is below the *queue*, not below the other senders' hands: two agents
  may overtake each other.
* `AcceptedAlwaysOnce` (`AcceptedOnce`) from `OnePlace`, the same claim without counting, for each pair of places, and
  from the order, which excludes that a directive is twice in the queue or on a stream.

`GeneratorStream_proofs` (any agents, rate, capacity and bounds):

* `TypeCorrect`: `TypeOK`, of which the conjunct that a stream has a position exactly while the loop is streaming is
  needed for itself.
* `StaleAlwaysBounded`: `StaleBounded` is not inductive, as it says nothing of the directives that are still under way.
  `StaleInv` counts the places under way from the stream: the hand of streamDirectives, the channel, the hand of the
  producer. For an agent that is not listed, what was sent since and the depth up to which a directive may still
  name it add up to `Buffer + 2`. Sending such a directive moves one from the depth to the count; generating one
  is impossible; to be listed starts the count again.
* `AlwaysSentInOrder` (`SentInOrder`): while the process lives, the numbers up to some `b` have passed the channel and
  were sent or lost, but for the one that streamDirectives holds; the channel and the producer hold those that
  follow (`Passed`). A failed Send is the end of its stream, so a stream loses one at most (`OnePerStream`).

`AgentStream_proofs` (any capacity, rate cap, number of streams and of directives):

* `TypeCorrect`, with `Waits`: the goroutines of a stream run only while the loop waits for them.
* `AnswersAlwaysInOrder` (`AnswersInOrder`): five marks on the line from the stream's receiver through inCh, Run and
  outCh to its sender (`Orderly`); each step moves one of them, and abandoning what a hand holds moves none. The marks
  survive the end of a stream, which is why answers left in outCh go first on the next.
* `MockProberIsAProber` (`ImplementsProber`): what waits in inCh or in Run was given (`GivenInv`), and what is answered
  next is above all that was answered, so it is answered once. Nothing is claimed of Close.

`CaracalProber_proofs` (any directives, flows, protocols, TTLs and capacities):

* `TypeCorrect`.
* `RepliesAlwaysMatch` (`RepliesMatch`) from `MatchInv`: what the map holds under a key was filled in by replies with
  that key. Nothing is said about *which* registration a reply was meant for; that it does not matter is the point.
* `CaracalProberIsAProber` (`ImplementsProber`) from `OnceInv`: a directive is in at most one of inCh, Run's hand
  before it is registered, the map and the reader's hand, and in none of them once it was emitted.
* `OneAnswerIsLate` (`OneLateAnswer`) from `LateInv`: the sends after the call of Close and what the reader still has in hand
  add up to one at most, because a reader between two lines stops when closeCh is closed.

Only model-checked: the liveness properties (`ViewsCatchUp`, `BrokenRejoin`, `ShutdownEnds`, `DirectivesFlow`,
`ShutdownTerminates`, `FanOutFlows`, `DirectivesTaken`, `RunEnds`, `FirstStreamAnswers`, `BreakNoticed`, `AgentEnds`, `Flows`,
`GeneratorEnds`), because they rest on fairness, for which the prover would need ENABLED, and the absence of
deadlocks for the same reason. Every invariant, action property and refinement that a passing run checks is also proved.

## 6. What is not modelled, and why

* Contents of directives, elements and statuses other than the list of agents, the vantage point of a directive and
  what identifies a probe: no property depends on them. In particular the conversion of a caracal reply into an
  element; it splits its line at every comma, those of the MPLS field included (`caracal_prober.go:292`).
* Rates are a constant of each stream module; that pacing keeps a rate is a matter of time, which is not kept.
* The stored status is marshalled in one step; the code does it without the lock, and a torn read is
  possible. Planned as `StatusMarshal`.
* The agent's Update handler and the agents' half of the notification loop never run: nothing in the
  program calls the store's update branches. `TypeOK` of `Cluster` says so (`dirtyAgentUuids = {}`).
* In `Cluster` an agent sees at once that its stream broke. After a *second* break it may not (finding 2); the run
  that checks `BrokenRejoin` has one break.
* An agent with the caracal prober: `AgentStream` has the mock prober. Of the other it needs what `Prober` says, that it
  takes directives (`DirectivesTaken`) and that it ends (`RunEnds`).
* In `Dataplane`: a server that cannot listen, which ends Run with that error, and io.EOF, because no client of
  the orchestrator half-closes its stream.
* Flags, dialling, generated code, conversions for JSON, the manual test program.

## 7. Plan

Done: the store, membership, the data plane, both probers, and the streams of agents and generators, each with the proofs
of its safety properties.
Next, in this order:

1. What each panic needs, as invariants with proofs: in the data plane a cancelled Run, in the probers and the
   generator a Close beside a goroutine at work, or a divisor of zero.
2. `StatusMarshal`: marshalling a list that is edited in place.
3. Pure conversions (`util.go`, protocol numbers) against reference definitions.
