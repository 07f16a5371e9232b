------------------------------- MODULE Dataplane -------------------------------
(***************************************************************************)
(* The orchestrator's data plane, orchestrator/manager.go: directives from *)
(* the generators' streams into one queue and out to whichever agent's     *)
(* stream takes them, elements from the agents' streams into another and   *)
(* out to every HTTP client, and the end of it all when Run is cancelled.  *)
(*                                                                         *)
(* A stream is one connection, served by one handler; it is opened once.   *)
(* A client of the orchestrator closes its connection and never half of    *)
(* it, so Recv fails and does not return io.EOF.  A goroutine reads the    *)
(* field of a queue when it enters its select and uses what it read, as    *)
(* Go does: Close may close the channel, or set the field to nil, between. *)
(***************************************************************************)
EXTENDS Integers, FiniteSets, SequencesExt

CONSTANTS
  DirectiveStreams,   \* connections of generators
  ElementStreams,     \* connections of agents
  Clients,            \* connections to /stream
  Capacity,           \* of directiveCh, elementCh and the channel of a client
  MaxArrivals         \* bound: messages that arrive on each connection

Streams == DirectiveStreams \cup ElementStreams
Queues == {"directives", "elements"}

ASSUME StreamsAssumption == DirectiveStreams \cap ElementStreams = {}
ASSUME CapacityAssumption == Capacity \in [Queues \cup {"client"} -> Nat \ {0}]
ASSUME ArrivalsAssumption == MaxArrivals \in [Streams -> Nat]

QueueOf(s) == IF s \in DirectiveStreams THEN "directives" ELSE "elements"

\* Messages by the order in which they arrive.  A directive names an agent; nothing
\* here reads the name.
Messages(s) == [from : {s}, n : 1..MaxArrivals[s]]
Directives == UNION {Messages(p) : p \in DirectiveStreams}
Elements == UNION {Messages(e) : e \in ElementStreams}

VARIABLES
  queue,       \* contents of directiveCh and elementCh
  closing,     \* statements of Close that were executed
  up,          \* streams whose connection stands
  arrived,     \* per stream, messages received from it so far
  in,          \* per stream, the goroutine that receives from it
  out,         \* per element stream, the goroutine that sends to it
  failed,      \* streams whose handler's context was cancelled by an error
  buffers,     \* channel of each client, while it is in m.clients
  client,      \* Stream of each client: none, open, returned
  fan,         \* runFanout: its field of elementCh (channel, nil), or what it returned
               \* (cancelled, closed)
  running,     \* parts of the servers that are not stopped
  cancelled,   \* the context of Run is done
  result,      \* Run, and the process: running, clean, error, panic
  accepted,    \* history: directives that were put in the queue
  sent,        \* history: per element stream, directives put on it
  lost,        \* history: directives taken from the queue and not sent
  got          \* history: per client, elements written to it

queueVars == <<queue, closing>>
streamVars == <<up, arrived, in, out, failed>>
clientVars == <<buffers, client>>
runVars == <<fan, running, cancelled, result>>
historyVars == <<accepted, sent, lost, got>>
vars == <<queueVars, streamVars, clientVars, runVars, historyVars>>

\* Close closes directiveCh, clears its field, closes elementCh, clears its field.
Closes(q) == IF q = "directives" THEN 1 ELSE 3
Closed(q) == closing >= Closes(q)
Field(q) == IF closing > Closes(q) THEN "nil" ELSE "channel"

\* Where a goroutine is; in a select, what it would send and the field it read.
None == <<>>
At(point) == [at |-> point, msg |-> None, ch |-> "nil"]
Select(msg, q) == [at |-> "select", msg |-> msg, ch |-> Field(q)]

\* gRPC refuses new streams before it stops.
Servers == {"grpc accept", "grpc", "http"}

Init ==
  /\ queue = [q \in Queues |-> << >>] /\ closing = 0
  /\ up = {} /\ failed = {}
  /\ arrived = [s \in Streams |-> 0]
  /\ in = [s \in Streams |-> At("none")]
  /\ out = [e \in ElementStreams |-> At("none")]
  /\ buffers = [c \in Clients |-> << >>] /\ client = [c \in Clients |-> "none"]
  /\ fan = "channel" /\ running = Servers
  /\ cancelled = FALSE /\ result = "running"
  /\ accepted = {} /\ lost = {}
  /\ sent = [e \in ElementStreams |-> << >>] /\ got = [c \in Clients |-> << >>]

-----------------------------------------------------------------------------
(* The handlers of the streams.                                            *)

OpenStream(s) ==
  /\ in[s].at = "none" /\ "grpc accept" \in running
  /\ in' = [in EXCEPT ![s] = At("recv")]
  /\ out' = [e \in ElementStreams |-> IF e = s THEN Select(None, "directives") ELSE out[e]]
  /\ up' = up \cup {s}
  /\ UNCHANGED <<queueVars, arrived, failed, clientVars, runVars, historyVars>>

\* The connection is gone: the peer ended, the network failed.
Break(s) ==
  /\ s \in up
  /\ up' = up \ {s}
  /\ UNCHANGED <<queueVars, arrived, in, out, failed, clientVars, runVars, historyVars>>

Recv(s) ==
  /\ in[s].at = "recv" /\ s \in up
  /\ \E msg \in Messages(s) :
       /\ msg.n = arrived[s] + 1
       /\ in' = [in EXCEPT ![s] = Select(msg, QueueOf(s))]
  /\ arrived' = [arrived EXCEPT ![s] = @ + 1]
  /\ UNCHANGED <<queueVars, up, out, failed, clientVars, runVars, historyVars>>

\* Mutant: the queue has no capacity.
HasSpaceAlways(q) == TRUE

HasSpace(q) == Len(queue[q]) < Capacity[q]

Enqueue(s) ==
  /\ in[s].at = "select" /\ in[s].ch = "channel"
  /\ ~ Closed(QueueOf(s)) /\ HasSpace(QueueOf(s))
  /\ queue' = [queue EXCEPT ![QueueOf(s)] = Append(@, in[s].msg)]
  /\ accepted' = accepted \cup ({in[s].msg} \cap Directives)
  /\ in' = [in EXCEPT ![s] = At("recv")]
  /\ UNCHANGED <<closing, up, arrived, out, failed, clientVars, runVars, sent, lost, got>>

\* A send on a closed channel ends the process.
Panic(s) ==
  /\ in[s].at = "select" /\ in[s].ch = "channel" /\ Closed(QueueOf(s))
  /\ result' = "panic"
  /\ UNCHANGED <<queueVars, streamVars, clientVars, fan, running, cancelled, historyVars>>

\* PushProbingDirectives waits for its stream only; PushForwardingInfoElements also
\* for an error of its other goroutine, and for Run.
Done(s) == s \notin up \/ (s \in ElementStreams /\ (s \in failed \/ cancelled))

EndRecv(s) ==
  /\ \/ in[s].at = "recv" /\ s \notin up /\ failed' = failed \cup {s}
     \/ in[s].at = "select" /\ Done(s) /\ UNCHANGED failed
  /\ in' = [in EXCEPT ![s] = At("returned")]
  /\ UNCHANGED <<queueVars, up, arrived, out, clientVars, runVars, historyVars>>

\* Mutant: one goroutine serves both directions, a directive for each element.
MayTakeInTurn(e) == out[e].ch = "channel" /\ queue["directives"] # << >> /\ in[e].at = "select"

\* What a closed channel still holds can be received.
MayTake(e) == out[e].ch = "channel" /\ queue["directives"] # << >>

TakeDirective(e) ==
  /\ out[e].at = "select" /\ MayTake(e)
  /\ out' = [out EXCEPT ![e] = [At("send") EXCEPT !.msg = Head(queue["directives"])]]
  /\ queue' = [queue EXCEPT !["directives"] = Tail(@)]
  /\ UNCHANGED <<closing, up, arrived, in, failed, clientVars, runVars, historyVars>>

\* Mutant: a directive is offered to the stream again.
AfterSendAgain(e) == out[e]

AfterSend(e) == Select(None, "directives")

\* Send returns when the stream has room: a peer that does not read blocks it.
SendDirective(e) ==
  /\ out[e].at = "send" /\ e \in up
  /\ sent' = [sent EXCEPT ![e] = Append(@, out[e].msg)]
  /\ out' = [out EXCEPT ![e] = AfterSend(e)]
  /\ UNCHANGED <<queueVars, up, arrived, in, failed, clientVars, runVars, accepted, lost, got>>

\* Mutant: the directive goes back into the queue.
FailSendRequeue(e) ==
  /\ out[e].at = "send" /\ e \notin up
  /\ queue' = [queue EXCEPT !["directives"] = Append(@, out[e].msg)]
  /\ failed' = failed \cup {e}
  /\ out' = [out EXCEPT ![e] = At("returned")]
  /\ UNCHANGED <<closing, up, arrived, in, clientVars, runVars, historyVars>>

FailSend(e) ==
  /\ out[e].at = "send" /\ e \notin up
  /\ lost' = lost \cup {out[e].msg}
  /\ failed' = failed \cup {e}
  /\ out' = [out EXCEPT ![e] = At("returned")]
  /\ UNCHANGED <<queueVars, up, arrived, in, clientVars, runVars, accepted, sent, got>>

\* A context is done, or the queue is closed and empty.
EndSend(e) ==
  /\ out[e].at = "select"
  /\ Done(e) \/ (out[e].ch = "channel" /\ Closed("directives") /\ queue["directives"] = << >>)
  /\ out' = [out EXCEPT ![e] = At("returned")]
  /\ UNCHANGED <<queueVars, up, arrived, in, failed, clientVars, runVars, historyVars>>

-----------------------------------------------------------------------------
(* Stream and runFanout.  m.clients is read and written under its lock.    *)

OpenClient(c) ==
  /\ client[c] = "none" /\ "http" \in running
  /\ client' = [client EXCEPT ![c] = "open"]
  /\ UNCHANGED <<queueVars, streamVars, buffers, runVars, historyVars>>

\* The client is gone, writing to it failed, or Run's context is done.
CloseClient(c) ==
  /\ client[c] = "open"
  /\ client' = [client EXCEPT ![c] = "returned"]
  /\ buffers' = [buffers EXCEPT ![c] = << >>]
  /\ UNCHANGED <<queueVars, streamVars, runVars, historyVars>>

WriteElement(c) ==
  /\ client[c] = "open" /\ buffers[c] # << >>
  /\ got' = [got EXCEPT ![c] = Append(@, Head(buffers[c]))]
  /\ buffers' = [buffers EXCEPT ![c] = Tail(@)]
  /\ UNCHANGED <<queueVars, streamVars, client, runVars, accepted, sent, lost>>

HasRoom(c) == client[c] = "open" /\ Len(buffers[c]) < Capacity["client"]
AllHaveRoom == \A c \in Clients : client[c] = "open" => HasRoom(c)

\* Mutant: the send to a client blocks.
MayFanOutBlocking == fan = "channel" /\ queue["elements"] # << >> /\ AllHaveRoom

MayFanOut == fan = "channel" /\ queue["elements"] # << >>

\* Mutant: an element stays in the queue until every client had room for it.
AfterFanOutRetrying == IF AllHaveRoom THEN Tail(queue["elements"]) ELSE queue["elements"]

AfterFanOut == Tail(queue["elements"])

\* A client whose channel is full misses the element.  Receiving an element and
\* delivering it under the lock are one step.
FanOut ==
  /\ MayFanOut
  /\ buffers' = [c \in Clients |->
       IF HasRoom(c) THEN Append(buffers[c], Head(queue["elements"])) ELSE buffers[c]]
  /\ queue' = [queue EXCEPT !["elements"] = AfterFanOut]
  /\ fan' = Field("elements")
  /\ UNCHANGED <<closing, streamVars, client, running, cancelled, result, historyVars>>

\* Run's context is done, or elementCh is closed and empty, which is an error.
EndFanout ==
  /\ fan \in {"channel", "nil"}
  /\ \/ cancelled /\ fan' = "cancelled"
     \/ fan = "channel" /\ Closed("elements") /\ queue["elements"] = << >> /\ fan' = "closed"
  /\ UNCHANGED <<queueVars, streamVars, clientVars, running, cancelled, result, historyVars>>

-----------------------------------------------------------------------------
(* Run and Close.                                                          *)

Cancel ==
  /\ ~ cancelled
  /\ cancelled' = TRUE
  /\ UNCHANGED <<queueVars, streamVars, clientVars, fan, running, result, historyVars>>

\* One statement of Close, which holds m.mu; the handlers use the queues without it.
Close ==
  /\ cancelled /\ closing < 4
  /\ closing' = closing + 1
  /\ UNCHANGED <<queue, streamVars, clientVars, runVars, historyVars>>

Stop(part) ==
  /\ cancelled /\ part \in running
  /\ running' = running \ {part}
  /\ UNCHANGED <<queueVars, clientVars, arrived, in, out, failed, fan, cancelled, result,
                 historyVars>>

\* ListenAndServe returns as soon as Shutdown is called.
StopHTTP == Stop("http") /\ UNCHANGED up

\* GracefulStop refuses new streams and waits for the handlers.
DrainRPC == Stop("grpc accept") /\ UNCHANGED up

HandlersReturned ==
  /\ \A s \in Streams : in[s].at \in {"none", "returned"}
  /\ \A e \in ElementStreams : out[e].at \in {"none", "returned"}

\* Mutant: only GracefulStop.
StopRPCGracefully ==
  /\ "grpc accept" \notin running /\ HandlersReturned
  /\ Stop("grpc") /\ UNCHANGED up

\* GracefulStop ends, or its 100 ms are over and Stop closes every connection.
StopRPC == "grpc accept" \notin running /\ Stop("grpc") /\ up' = {}

\* Wait returns the first error, which Run hides if it is context.Canceled.  The
\* notification loop, which returns that one, may be before or after runFanout.
RunReturns ==
  /\ fan \in {"cancelled", "closed"} /\ running = {} /\ closing = 4
  /\ result' \in {"clean"} \cup (IF fan = "closed" THEN {"error"} ELSE {})
  /\ UNCHANGED <<queueVars, streamVars, clientVars, fan, running, cancelled, historyVars>>

-----------------------------------------------------------------------------
Receiver(s) == Enqueue(s) \/ Panic(s) \/ EndRecv(s)
Sender(e) == TakeDirective(e) \/ FailSend(e) \/ EndSend(e)
Peers ==
  \/ \E s \in Streams : OpenStream(s) \/ Recv(s) \/ Break(s)
  \/ \E e \in ElementStreams : SendDirective(e)
  \/ \E c \in Clients : OpenClient(c) \/ CloseClient(c) \/ WriteElement(c)

\* The process has ended, and every goroutine with it.
Ended == result # "running" /\ UNCHANGED vars

Next ==
  \/ /\ result = "running"
     /\ \/ \E s \in Streams : Receiver(s)
        \/ \E e \in ElementStreams : Sender(e)
        \/ Peers
        \/ FanOut \/ EndFanout
        \/ Cancel \/ Close \/ StopHTTP \/ DrainRPC \/ StopRPC \/ RunReturns
  \/ Ended

Spec == Init /\ [][Next]_vars

Alive(A) == result = "running" /\ A

\* Goroutines that are not blocked run.  Nothing is assumed of peers: they need
\* not connect, send, read or go away; and nothing of a signal.
Fairness ==
  /\ \A s \in Streams : WF_vars(Alive(Receiver(s)))
  /\ \A e \in ElementStreams : WF_vars(Alive(Sender(e)))
  /\ WF_vars(Alive(FanOut \/ EndFanout))
  /\ WF_vars(Alive(Close)) /\ WF_vars(Alive(StopHTTP))
  /\ WF_vars(Alive(DrainRPC)) /\ WF_vars(Alive(StopRPC)) /\ WF_vars(Alive(RunReturns))

FairSpec == Spec /\ Fairness

-----------------------------------------------------------------------------
(* Properties.                                                             *)

\* The states of a goroutine that may hold one of msgs.
Goroutine(points, msgs) == [at : points, msg : msgs \cup {None}, ch : {"channel", "nil"}]

\* The shape of the state; the queues never hold more than their capacity.
TypeOK ==
  /\ queue \in [Queues -> Seq(Directives \cup Elements)]
  /\ \A q \in Queues : Len(queue[q]) <= Capacity[q]
  /\ closing \in 0..4
  /\ up \subseteq Streams /\ failed \subseteq Streams
  /\ \A s \in Streams : arrived[s] \in 0..MaxArrivals[s]
  /\ \A s \in Streams : in[s] \in Goroutine({"none", "recv", "select", "returned"}, Messages(s))
  /\ out \in [ElementStreams -> Goroutine({"none", "select", "send", "returned"}, Directives)]
  /\ buffers \in [Clients -> Seq(Elements)]
  /\ \A c \in Clients : Len(buffers[c]) <= Capacity["client"]
  /\ client \in [Clients -> {"none", "open", "returned"}]
  /\ fan \in {"channel", "nil", "cancelled", "closed"}
  /\ running \subseteq Servers
  /\ cancelled \in BOOLEAN
  /\ result \in {"running", "clean", "error", "panic"}
  /\ accepted \subseteq Directives /\ lost \subseteq Directives
  /\ sent \in [ElementStreams -> Seq(Directives)] /\ got \in [Clients -> Seq(Elements)]

Positions(x, s) == {i \in DOMAIN s : s[i] = x}

\* Where a directive is: in the queue, in a handler's hand, on a stream, or lost.
Places(d) ==
  ({"queue"} \X Positions(d, queue["directives"]))
  \cup ({"hand"} \X {e \in ElementStreams : out[e].msg = d})
  \cup (UNION {{"sent"} \X {e} \X Positions(d, sent[e]) : e \in ElementStreams})
  \cup ({"lost"} \X ({d} \cap lost))

\* A directive that was accepted is at one place: it is never executed by two
\* agents nor twice by one, and never lost but with the stream that had taken it.
\* This holds through broken streams, Close, and what a closed queue still holds.
AcceptedOnce ==
  \A d \in Directives : Cardinality(Places(d)) = IF d \in accepted THEN 1 ELSE 0

\* Positions in a sequence of messages keep the order in which they arrived.
InOrder(s) == \A i, j \in DOMAIN s : i < j /\ s[i].from = s[j].from => s[i].n < s[j].n

\* Each agent is sent the directives of one connection in the order of arrival.
DirectivesInOrder == \A e \in ElementStreams : InOrder(sent[e])

\* Each HTTP client sees a part of the elements, each at most once, those of one
\* agent in the order of arrival, whatever was dropped while it was slow.
ElementsInOrder == \A c \in Clients : InOrder(got[c] \o buffers[c])

\* An enqueue is "non-blocking / cancellation-aware" (manager.go:187): cancelling
\* Run ends it, and does not bring down the process.
ShutdownSurvived == result # "panic"

\* A client that does not read never holds up the fan-out: the queue is emptied for
\* the others, or Run is cancelled.  (What arrives is bounded.)
FanOutFlows == queue["elements"] # << >> ~> (cancelled \/ queue["elements"] = << >>)

\* The directives in the queue are taken, as long as some agent's stream keeps coming
\* back for one: neither an agent that stops reading, which blocks a Send for good,
\* nor a broken stream holds up what another agent can take.
DirectivesFlow ==
  \A e \in ElementStreams :
    []<>(out[e].at = "select")
      => (queue["directives"] # << >> ~> (cancelled \/ queue["directives"] = << >>))

\* Run does not hang once it is cancelled, even if no peer ever goes away or reads,
\* handlers wait on full queues and a Send is blocked: it returns, or Close brings
\* down the process (which ShutdownSurvived denies, and is not excluded here).
ShutdownTerminates == cancelled ~> result # "running"
=============================================================================
