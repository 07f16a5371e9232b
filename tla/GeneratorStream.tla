---------------------------- MODULE GeneratorStream ----------------------------
(***************************************************************************)
(* A generator between its producer and the orchestrator,                  *)
(* generator/manager.go: the retry loop that opens one stream after        *)
(* another and streamDirectives, with the producer of                      *)
(* generator/mock_directive_generator.go, and the list of agents that the  *)
(* orchestrator's updates change under both.                               *)
(*                                                                         *)
(* A directive is numbered as it is generated and names an agent.  The     *)
(* calls Join, Update and Leave are in Cluster; here a join brings a list. *)
(***************************************************************************)
EXTENDS Integers, FiniteSets, SequencesExt

CONSTANTS
  Agents,
  Rate,            \* ProbeGenerationRatePerSecondPerAgent of every status
  Buffer,          \* capacity of outCh
  MaxStreams,      \* bound: streams the retry loop opens
  MaxDirectives    \* bound: directives generated

ASSUME RateAssumption == Rate \in Nat
ASSUME BufferAssumption == Buffer \in Nat \ {0}
ASSUME BoundsAssumption == MaxStreams \in Nat /\ MaxDirectives \in Nat

Directives == [n : 1..MaxDirectives, agent : Agents]

VARIABLES
  list,        \* AgentSpecs of currentStatus; empty before there is a status
  outCh, closing,    \* and the statements of the producer's Close that were executed
  producer, made,    \* its Run, and the directive it sends
  produced,    \* directives generated so far
  loop,        \* the retry loop: retry, streaming, ended
  streams,     \* streams opened so far
  up,          \* the connection stands
  stream, next,      \* streamDirectives, and the directive it sends
  cancelled,   \* Run's context is done
  left,        \* leaveCluster has returned
  panicked,
  sent,        \* history: numbers of the directives put on a stream
  lost,        \* history: numbers of those that a failed Send took
  stale        \* history: per agent, directives sent for it since it left the list

producerVars == <<producer, made, produced>>
loopVars == <<loop, streams>>
streamVars == <<stream, next>>
endVars == <<cancelled, left, panicked>>
historyVars == <<sent, lost, stale>>
vars == <<list, outCh, closing, producerVars, loopVars, up, streamVars, endVars, historyVars>>

None == <<>>

CloseChClosed == closing >= 1
OutClosed == closing = 2

\* Mutant: the channel is unbounded.
HasSpaceAlways == TRUE

HasSpace == Len(outCh) < Buffer

Init ==
  /\ list = {}
  /\ outCh = << >> /\ closing = 0
  /\ producer = "generate" /\ made = None /\ produced = 0
  /\ loop = "retry" /\ streams = 0 /\ up = FALSE
  /\ stream = "none" /\ next = None
  /\ cancelled = FALSE /\ left = FALSE /\ panicked = FALSE
  /\ sent = << >> /\ lost = {} /\ stale = [a \in Agents |-> 0]

\* An agent that is listed has no stale directive.
SetStatus(l) ==
  /\ list' = l
  /\ stale' = [a \in Agents |-> IF a \in l THEN 0 ELSE stale[a]]

-----------------------------------------------------------------------------
(* The manager: runDirectiveStream, the Update handler, the end of Run.    *)

\* Join, whose response carries a list, and the stream.  An attempt that fails after
\* the join is an Update.
OpenStream ==
  /\ loop = "retry" /\ ~ cancelled /\ streams < MaxStreams
  /\ \E l \in SUBSET Agents : SetStatus(l)
  /\ loop' = "streaming" /\ streams' = streams + 1 /\ up' = TRUE
  /\ stream' = "check"
  /\ UNCHANGED <<outCh, closing, producerVars, next, endVars, sent, lost>>

Update ==
  /\ \E l \in SUBSET Agents \ {list} : SetStatus(l)
  /\ UNCHANGED <<outCh, closing, producerVars, loopVars, up, streamVars, endVars, sent, lost>>

Break ==
  /\ up
  /\ up' = FALSE
  /\ UNCHANGED <<list, outCh, closing, producerVars, loopVars, streamVars, endVars, historyVars>>

EndLoop ==
  /\ loop = "retry" /\ cancelled
  /\ loop' = "ended"
  /\ UNCHANGED <<list, outCh, closing, producerVars, streams, up, streamVars, endVars,
                 historyVars>>

Cancel ==
  /\ ~ cancelled
  /\ cancelled' = TRUE
  /\ UNCHANGED <<list, outCh, closing, producerVars, loopVars, up, streamVars, left, panicked,
                 historyVars>>

\* leaveCluster: Leave answers, fails, or its five seconds are over.
LeaveCluster ==
  /\ cancelled /\ ~ left
  /\ left' = TRUE
  /\ UNCHANGED <<list, outCh, closing, producerVars, loopVars, up, streamVars, cancelled,
                 panicked, historyVars>>

\* Close of the manager, and so of the producer: close(closeCh), close(outCh).
Close ==
  /\ left /\ closing < 2
  /\ closing' = closing + 1
  /\ UNCHANGED <<list, outCh, producerVars, loopVars, up, streamVars, endVars, historyVars>>

-----------------------------------------------------------------------------
(* streamDirectives.                                                       *)

\* Otherwise it looks again in five seconds.
CheckStatus ==
  /\ stream = "check" /\ Rate > 0 /\ list # {}
  /\ stream' = "select"
  /\ UNCHANGED <<list, outCh, closing, producerVars, loopVars, up, next, endVars, historyVars>>

\* The interval divides by the length that the list has now.  SleepWithContext
\* returns nil even if the context is done: Send is tried.
TakeDirective ==
  /\ stream = "select" /\ outCh # << >>
  /\ outCh' = Tail(outCh)
  /\ IF list = {}
       THEN panicked' = TRUE /\ UNCHANGED streamVars
       ELSE stream' = "send" /\ next' = Head(outCh) /\ UNCHANGED panicked
  /\ UNCHANGED <<list, closing, producerVars, loopVars, up, cancelled, left, historyVars>>

\* Mutant: the directive is offered again, as if the stream had been replaced.
AfterSendAgain == "send"

AfterSend == "check"

\* Send returns when the stream has room: an orchestrator whose handler waits on a
\* full queue, and so does not read, blocks it.
SendDirective ==
  /\ stream = "send" /\ up
  /\ sent' = Append(sent, next.n)
  /\ stale' = IF next.agent \in list THEN stale ELSE [stale EXCEPT ![next.agent] = @ + 1]
  /\ stream' = AfterSend /\ next' = IF AfterSend = "send" THEN next ELSE None
  /\ UNCHANGED <<list, outCh, closing, producerVars, loopVars, up, endVars, lost>>

\* An error: the loop retries.
FailSend ==
  /\ stream = "send" /\ (~ up \/ cancelled)
  /\ lost' = lost \cup {next.n}
  /\ stream' = "none" /\ next' = None
  /\ loop' = "retry" /\ up' = FALSE
  /\ UNCHANGED <<list, outCh, closing, producerVars, streams, endVars, sent, stale>>

\* Mutant: the wait for agents is a mere sleep.
MayEndSleeping == stream = "select" /\ (cancelled \/ (OutClosed /\ outCh = << >>))

\* The context is done, or the producer's channel is closed and empty.
MayEnd ==
  \/ stream = "check" /\ (Rate = 0 \/ list = {}) /\ cancelled
  \/ stream = "select" /\ (cancelled \/ (OutClosed /\ outCh = << >>))

\* No error: the loop ends.
EndStream ==
  /\ MayEnd
  /\ stream' = "none" /\ loop' = "ended" /\ up' = FALSE
  /\ UNCHANGED <<list, outCh, closing, producerVars, streams, next, endVars, historyVars>>

-----------------------------------------------------------------------------
(* MockDirectiveGenerator.Run.                                             *)

\* Mutant: every agent that ever joined is a vantage point.
TargetsAll == Agents

\* The vantage point is chosen among the agents listed now.
Targets == list

\* Without agents it sleeps and looks again.  The context and closeCh are looked at
\* before, and may be done since.
Generate ==
  /\ producer = "generate" /\ produced < MaxDirectives
  /\ \E a \in Targets : made' = [n |-> produced + 1, agent |-> a]
  /\ producer' = "send" /\ produced' = produced + 1
  /\ UNCHANGED <<list, outCh, closing, loopVars, up, streamVars, endVars, historyVars>>

Produce ==
  /\ producer = "send" /\ ~ OutClosed /\ HasSpace
  /\ outCh' = Append(outCh, made)
  /\ producer' = "generate" /\ made' = None
  /\ UNCHANGED <<list, closing, produced, loopVars, up, streamVars, endVars, historyVars>>

\* The context is done and closeCh closed by then, but select may take the send.
PanicSend ==
  /\ producer = "send" /\ OutClosed
  /\ panicked' = TRUE
  /\ UNCHANGED <<list, outCh, closing, producerVars, loopVars, up, streamVars, cancelled, left,
                 historyVars>>

\* Mutant: without agents Run returns.
MayStopIdle == cancelled \/ CloseChClosed \/ list = {}

MayStop == cancelled \/ CloseChClosed

EndProducer ==
  /\ producer \in {"generate", "send"} /\ MayStop
  /\ producer' = "returned" /\ made' = None
  /\ UNCHANGED <<list, outCh, closing, produced, loopVars, up, streamVars, endVars,
                 historyVars>>

-----------------------------------------------------------------------------
Streaming == CheckStatus \/ TakeDirective \/ FailSend \/ EndStream \/ EndLoop
Producing == Generate \/ Produce \/ PanicSend \/ EndProducer

AllEnded == loop = "ended" /\ producer = "returned" /\ closing = 2

\* The process has ended, or has nothing left to run.
Ended == (panicked \/ AllEnded) /\ UNCHANGED vars

Next ==
  \/ /\ ~ panicked
     /\ \/ OpenStream \/ Update \/ Break \/ Cancel \/ LeaveCluster \/ Close
        \/ Streaming \/ SendDirective \/ Producing
  \/ Ended

Spec == Init /\ [][Next]_vars

Alive(A) == ~ panicked /\ A

\* Goroutines that are not blocked run, and leaveCluster has a timeout.  The
\* orchestrator need not accept a stream, read it, send an update or end it.
Fairness ==
  /\ WF_vars(Alive(Streaming)) /\ WF_vars(Alive(Producing))
  /\ WF_vars(Alive(LeaveCluster)) /\ WF_vars(Alive(Close))

FairSpec == Spec /\ Fairness

-----------------------------------------------------------------------------
(* Properties.                                                             *)

\* The shape of the state; a hand is full only where something is held.
TypeOK ==
  /\ list \subseteq Agents
  /\ outCh \in Seq(Directives) /\ Len(outCh) <= Buffer
  /\ closing \in 0..2
  /\ producer \in {"generate", "send", "returned"}
  /\ made \in IF producer = "send" THEN Directives ELSE {None}
  /\ produced \in 0..MaxDirectives
  /\ loop \in {"retry", "streaming", "ended"} /\ streams \in 0..MaxStreams
  /\ stream \in {"none", "check", "select", "send"}
  /\ stream = "none" <=> loop # "streaming"
  /\ next \in IF stream = "send" THEN Directives ELSE {None}
  /\ up \in BOOLEAN /\ cancelled \in BOOLEAN /\ left \in BOOLEAN /\ panicked \in BOOLEAN
  /\ sent \in Seq(1..MaxDirectives) /\ lost \subseteq 1..MaxDirectives
  /\ stale \in [Agents -> Nat]

\* The directives are sent in the order they were generated, each at most once, over
\* all streams, and none is missing but those a failed Send took, one per stream.
SentInOrder ==
  /\ \A i, j \in DOMAIN sent : i < j => sent[i] < sent[j]
  /\ \A i \in DOMAIN sent : 1..sent[i] \subseteq Range(sent) \cup lost
  /\ Cardinality(lost) <= streams

\* An agent that left the list is sent no more than what was under way: the channel
\* and the hands of the two goroutines.
StaleBounded == \A a \in Agents : stale[a] <= Buffer + 2

\* As long as agents are listed and a stream stands, directives are generated and
\* sent, on this stream as on any before it; unless a Send is blocked for good, by an
\* orchestrator that has stopped reading.
Flows ==
  []<>(stream # "send") =>
    \A n \in 1..MaxDirectives :
      (list # {} /\ up /\ ~ cancelled) ~>
        (n \in Range(sent) \cup lost \/ list = {} \/ ~ up \/ cancelled \/ panicked)

\* Once it is cancelled, the generator ends, also while it waits for agents or in a Send
\* that nobody reads; or the process panics, when the producer sends on the closed outCh.
GeneratorEnds == cancelled ~> (panicked \/ AllEnded)
=============================================================================
