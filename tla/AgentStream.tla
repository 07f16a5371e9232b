------------------------------ MODULE AgentStream ------------------------------
(***************************************************************************)
(* An agent between the orchestrator and its prober, agent/manager.go: the *)
(* retry loop that opens one stream after another, the two goroutines of   *)
(* streamElements that move directives from the stream to the prober and   *)
(* elements back; with the prober of agent/mock_prober.go, one and the     *)
(* same for every stream.                                                  *)
(*                                                                         *)
(* A directive is numbered by its arrival.  The join before each stream,   *)
(* and the leave at the end, are in Cluster.                               *)
(***************************************************************************)
EXTENDS Integers, SequencesExt

CONSTANTS
  Buffer,          \* capacity of inCh and of outCh
  RateCap,         \* ProbingRateCap of the agent's status
  MaxStreams,      \* bound: streams the retry loop opens
  MaxDirectives    \* bound: directives that arrive

ASSUME BufferAssumption == Buffer \in Nat \ {0}
ASSUME RateAssumption == RateCap \in Nat
ASSUME BoundsAssumption == MaxStreams \in Nat /\ MaxDirectives \in Nat

Directives == 1..MaxDirectives

VARIABLES
  inCh, outCh,
  closing,     \* statements of the prober's Close that were executed
  prober, probing,   \* its Run, and the directive it works on
  loop,        \* the retry loop: retry, streaming, ended
  streams,     \* streams opened so far
  up,          \* the connection stands
  recv, taken,       \* the goroutine that receives, and the directive it pushes
  send, answer,      \* the goroutine that sends, and the element it sends
  failed,      \* a goroutine of the stream returned an error
  cancelled,   \* Run's context is done
  panicked,
  received,    \* directives received
  given,       \* history: directives pushed to the prober
  emitted,     \* history: elements the prober sent on outCh
  sent         \* history: elements put on a stream

channelVars == <<inCh, outCh, closing>>
proberVars == <<prober, probing>>
loopVars == <<loop, streams>>
streamVars == <<recv, taken, send, answer, failed>>
statusVars == <<cancelled, panicked>>
historyVars == <<given, emitted, sent>>
vars == <<channelVars, proberVars, loopVars, up, streamVars, statusVars, received, historyVars>>

\* No directive.
None == 0

CloseChClosed == closing >= 1
OutClosed == closing = 2

\* The context of the stream's errgroup.
StreamDone == failed \/ cancelled

\* Mutant: the channel is unbounded.
HasSpaceAlways(ch) == TRUE

HasSpace(ch) == Len(ch) < Buffer

Init ==
  /\ inCh = << >> /\ outCh = << >> /\ closing = 0
  /\ prober = "select" /\ probing = None
  /\ loop = "retry" /\ streams = 0 /\ up = FALSE
  /\ recv = "none" /\ taken = None
  /\ send = "none" /\ answer = None
  /\ failed = FALSE /\ cancelled = FALSE /\ panicked = FALSE
  /\ received = 0
  /\ given = {} /\ emitted = << >> /\ sent = << >>

-----------------------------------------------------------------------------
(* runElementStream.                                                       *)

\* An attempt that failed earlier changes nothing here.
OpenStream ==
  /\ loop = "retry" /\ ~ cancelled /\ streams < MaxStreams
  /\ loop' = "streaming" /\ streams' = streams + 1 /\ up' = TRUE
  /\ recv' = "recv" /\ send' = "select" /\ failed' = FALSE
  /\ UNCHANGED <<channelVars, proberVars, taken, answer, statusVars, received, historyVars>>

\* The orchestrator or the network ends the stream.
Break ==
  /\ up
  /\ up' = FALSE
  /\ UNCHANGED <<channelVars, proberVars, loopVars, streamVars, statusVars, received,
                 historyVars>>

\* Wait returns an error, and the loop retries, or nil, and it ends.
EndStream ==
  /\ loop = "streaming" /\ recv = "returned" /\ send = "returned"
  /\ loop' = IF failed THEN "retry" ELSE "ended"
  /\ up' = FALSE
  /\ UNCHANGED <<channelVars, proberVars, streams, streamVars, statusVars, received,
                 historyVars>>

EndLoop ==
  /\ loop = "retry" /\ cancelled
  /\ loop' = "ended"
  /\ UNCHANGED <<channelVars, proberVars, streams, up, streamVars, statusVars, received,
                 historyVars>>

Cancel ==
  /\ ~ cancelled
  /\ cancelled' = TRUE
  /\ UNCHANGED <<channelVars, proberVars, loopVars, up, streamVars, panicked, received,
                 historyVars>>

-----------------------------------------------------------------------------
(* streamElements: from the stream to the prober.                          *)

Recv ==
  /\ recv = "recv" /\ up /\ received < MaxDirectives
  /\ received' = received + 1
  /\ recv' = "push" /\ taken' = received + 1
  /\ UNCHANGED <<channelVars, proberVars, loopVars, up, send, answer, failed, statusVars,
                 historyVars>>

Push ==
  /\ recv = "push" /\ HasSpace(inCh)
  /\ inCh' = Append(inCh, taken) /\ given' = given \cup {taken}
  /\ recv' = "recv" /\ taken' = None
  /\ UNCHANGED <<outCh, closing, proberVars, loopVars, up, send, answer, failed, statusVars,
                 received, emitted, sent>>

\* The stream has the context of Run: Recv fails if that is done.
FailRecv ==
  /\ recv = "recv" /\ (~ up \/ cancelled)
  /\ recv' = "close" /\ failed' = TRUE
  /\ UNCHANGED <<channelVars, proberVars, loopVars, up, taken, send, answer, statusVars,
                 received, historyVars>>

\* Mutant: the push waits for room only.
MayAbandonNever == FALSE

MayAbandon == StreamDone

AbandonPush ==
  /\ recv = "push" /\ MayAbandon
  /\ recv' = "close" /\ taken' = None
  /\ UNCHANGED <<channelVars, proberVars, loopVars, up, send, answer, failed, statusVars,
                 received, historyVars>>

\* The deferred Close of the prober: close(closeCh), close(outCh); nothing if it is
\* closed already.
CloseProber ==
  /\ recv = "close"
  /\ closing' = IF OutClosed THEN closing ELSE closing + 1
  /\ recv' = IF closing' = 2 THEN "returned" ELSE "close"
  /\ UNCHANGED <<inCh, outCh, proberVars, loopVars, up, taken, send, answer, failed,
                 statusVars, received, historyVars>>

-----------------------------------------------------------------------------
(* streamElements: from the prober to the stream.                          *)

\* The interval between elements divides by the rate.
TakeElement ==
  /\ send = "select" /\ outCh # << >>
  /\ outCh' = Tail(outCh)
  /\ IF RateCap = 0
       THEN panicked' = TRUE /\ UNCHANGED <<send, answer>>
       ELSE send' = "send" /\ answer' = Head(outCh) /\ UNCHANGED panicked
  /\ UNCHANGED <<inCh, closing, proberVars, loopVars, up, recv, taken, failed, cancelled,
                 received, historyVars>>

\* SleepWithContext returns nil even if the context is done: Send is tried.  It blocks
\* as long as the orchestrator does not read.
SendElement ==
  /\ send = "send" /\ up
  /\ sent' = Append(sent, answer)
  /\ send' = "select" /\ answer' = None
  /\ UNCHANGED <<channelVars, proberVars, loopVars, up, recv, taken, failed, statusVars,
                 received, given, emitted>>

\* Mutant: the element goes back into the channel.
AfterFailedSendAgain == outCh \o <<answer>>

AfterFailedSend == outCh

FailSend ==
  /\ send = "send" /\ (~ up \/ cancelled)
  /\ send' = "returned" /\ answer' = None /\ failed' = TRUE
  /\ outCh' = AfterFailedSend
  /\ UNCHANGED <<inCh, closing, proberVars, loopVars, up, recv, taken, statusVars, received,
                 historyVars>>

\* The context is done, or outCh is closed and empty: no error.
EndSend ==
  /\ send = "select" /\ (StreamDone \/ (OutClosed /\ outCh = << >>))
  /\ send' = "returned"
  /\ UNCHANGED <<channelVars, proberVars, loopVars, up, recv, taken, answer, failed,
                 statusVars, received, historyVars>>

-----------------------------------------------------------------------------
(* MockProber.Run.                                                         *)

\* Mutant: the directive is looked at and left.
AfterTakePeek == inCh

AfterTake == Tail(inCh)

TakeDirective ==
  /\ prober = "select" /\ inCh # << >>
  /\ inCh' = AfterTake
  /\ prober' = "work" /\ probing' = Head(inCh)
  /\ UNCHANGED <<outCh, closing, loopVars, up, streamVars, statusVars, received, historyVars>>

\* Mutant: the element is dropped when outCh is full.
EmitOrDrop ==
  /\ prober = "work" /\ ~ OutClosed
  /\ IF HasSpace(outCh)
       THEN outCh' = Append(outCh, probing) /\ emitted' = Append(emitted, probing)
       ELSE UNCHANGED <<outCh, emitted>>
  /\ prober' = "select" /\ probing' = None
  /\ UNCHANGED <<inCh, closing, loopVars, up, streamVars, statusVars, received, given, sent>>

Emit ==
  /\ prober = "work" /\ ~ OutClosed /\ HasSpace(outCh)
  /\ outCh' = Append(outCh, probing) /\ emitted' = Append(emitted, probing)
  /\ prober' = "select" /\ probing' = None
  /\ UNCHANGED <<inCh, closing, loopVars, up, streamVars, statusVars, received, given, sent>>

\* closeCh is closed by then, but select may take the send: Run is late.
PanicSend ==
  /\ prober = "work" /\ OutClosed
  /\ panicked' = TRUE
  /\ UNCHANGED <<channelVars, proberVars, loopVars, up, streamVars, cancelled, received,
                 historyVars>>

EndProber ==
  /\ prober \in {"select", "work"} /\ (cancelled \/ CloseChClosed)
  /\ prober' = "returned" /\ probing' = None
  /\ UNCHANGED <<channelVars, loopVars, up, streamVars, statusVars, received, historyVars>>

-----------------------------------------------------------------------------
Loop == EndStream \/ EndLoop
Receiver == Push \/ FailRecv \/ AbandonPush \/ CloseProber
Sender == TakeElement \/ FailSend \/ EndSend
Probing == TakeDirective \/ Emit \/ PanicSend \/ EndProber

\* The process has ended, or has nothing left to run.
Ended == (panicked \/ (loop = "ended" /\ prober = "returned")) /\ UNCHANGED vars

Next ==
  \/ /\ ~ panicked
     /\ OpenStream \/ Break \/ Recv \/ SendElement \/ Cancel \/ Loop \/ Receiver \/ Sender \/ Probing
  \/ Ended

Spec == Init /\ [][Next]_vars

Alive(A) == ~ panicked /\ A

\* Goroutines that are not blocked run.  The orchestrator need not accept a stream,
\* send a directive, read an element or end a stream.
Fairness ==
  /\ WF_vars(Alive(Loop)) /\ WF_vars(Alive(Receiver))
  /\ WF_vars(Alive(Sender)) /\ WF_vars(Alive(Probing))

FairSpec == Spec /\ Fairness

-----------------------------------------------------------------------------
(* Properties.                                                             *)

\* The shape of the state; a hand is full only where something is held.
TypeOK ==
  /\ inCh \in Seq(Directives) /\ Len(inCh) <= Buffer
  /\ outCh \in Seq(Directives) /\ Len(outCh) <= Buffer
  /\ closing \in 0..2
  /\ prober \in {"select", "work", "returned"}
  /\ probing \in IF prober = "work" THEN Directives ELSE {None}
  /\ loop \in {"retry", "streaming", "ended"} /\ streams \in 0..MaxStreams
  /\ recv \in {"none", "recv", "push", "close", "returned"}
  /\ taken \in IF recv = "push" THEN Directives ELSE {None}
  /\ send \in {"none", "select", "send", "returned"}
  /\ answer \in IF send = "send" THEN Directives ELSE {None}
  /\ up \in BOOLEAN /\ failed \in BOOLEAN /\ cancelled \in BOOLEAN /\ panicked \in BOOLEAN
  /\ received \in 0..MaxDirectives /\ given \subseteq Directives
  /\ emitted \in Seq(Directives) /\ sent \in Seq(Directives)

\* The orchestrator is sent the answers in the order of the directives, each at most
\* once, over all streams: those left in outCh by a broken stream go first on the next.
AnswersInOrder == \A i, j \in DOMAIN sent : i < j => sent[i] < sent[j]

\* The mock prober is a prober, over all streams and whenever one of them closes it: it
\* answers what was pushed to it, each directive at most once (components.go:103-126,
\* without Close: closed between two of its selects, it may go on for a while).
Contract == INSTANCE Prober
ImplementsProber == Contract!Spec

\* No Send is blocked for good: the orchestrator reads, or breaks the stream.
Read == []<>(send # "send")

\* A directive that was received is answered, unless its stream breaks or Run ends (or
\* the process panics); as long as the orchestrator reads the answers.
Answered(d) == d \in Range(sent) \/ ~ up \/ cancelled \/ panicked
FirstStreamAnswers ==
  Read => \A d \in Directives : (d <= received /\ streams = 1) ~> Answered(d)

\* The same of every stream: an agent "receives probing directives from the
\* orchestrator, executes network probes, and returns forwarding information
\* elements" (components.go:39-40), and its loop means to "retry forever".
EveryStreamAnswers == Read => \A d \in Directives : (d <= received) ~> Answered(d)

\* The first stream to break is noticed, and the loop retries (or the prober panics):
\* even when both channels of the prober are full and nobody reads the answers.
BreakNoticed == (streams = 1 /\ ~ up) ~> (loop # "streaming" \/ panicked)

\* Once it is cancelled, the loop and the prober end, whatever they wait for; or the
\* process panics, when the prober sends on the channel its Close has closed.
AgentEnds == cancelled ~> (panicked \/ (loop = "ended" /\ prober = "returned"))
=============================================================================
