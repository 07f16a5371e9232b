----------------------------- MODULE CaracalProber -----------------------------
(***************************************************************************)
(* The prober that drives the caracal process, agent/caracal_prober.go:    *)
(* Run takes directives, registers each and writes two probes for it; a    *)
(* reader matches the process's replies with what is pending and emits an  *)
(* element when both have come; a cleaner forgets what waited too long.    *)
(*                                                                         *)
(* pendingMu is held across a step only by the reader, while it sends on   *)
(* outCh.  Time is not kept: any pending probe may be older than           *)
(* matchTimeout.  caracal may lose probes and may repeat replies.          *)
(***************************************************************************)
EXTENDS Integers, SequencesExt

CONSTANTS
  Directives,
  FlowOf,       \* destination and ports of a directive
  ProtocolOf,
  TtlOf,        \* its near_ttl
  Buffer,       \* capacity of inCh and of outCh
  None          \* no directive, no reply

ASSUME BufferAssumption == Buffer \in Nat \ {0}
ASSUME TtlAssumption == TtlOf \in [Directives -> Nat]

Protocols == {"ICMP", "TCP", "UDP", "ICMPV6", "DCCP"}
ASSUME ProtocolAssumption == ProtocolOf \in [Directives -> Protocols]

VARIABLES
  inCh, outCh,
  closing,     \* statements of Close that were executed
  caracal,     \* the process: none, running, dead, stopped (and its pipes closed)
  network,     \* probes written to caracal that may still be answered
  run, current,      \* Run and the directive it works on
  reader, hand,      \* readCaracalOutput, with a reply or an element in hand
  cleaner,           \* cleanupExpiredProbes
  pending,     \* the map: key to directive and the replies so far
  cancelled,   \* Run's context is done
  panicked,
  given,       \* history: directives that were sent on inCh
  emitted,     \* history: elements sent on outCh
  late         \* history: sends on outCh, a panicking one too, after Close was called

channelVars == <<inCh, outCh>>
runVars == <<run, current>>
readerVars == <<reader, hand>>
statusVars == <<closing, cancelled, panicked>>
historyVars == <<given, emitted, late>>
vars == <<channelVars, caracal, network, runVars, readerVars, cleaner, pending, statusVars,
          historyVars>>

Probe(d, ttl) == [dir |-> d, ttl |-> ttl]
FarTtl(d) == TtlOf[d] + 1

\* What caracal is asked to send, and so what it reports back: it has no DCCP.
CaracalProtocol(d) == IF ProtocolOf[d] = "DCCP" THEN "ICMP" ELSE ProtocolOf[d]

\* makeBaseKey for a directive, and for a reply to a probe.
Key(d) == <<FlowOf[d], ProtocolOf[d]>>
ReplyKey(probe) == <<FlowOf[probe.dir], CaracalProtocol(probe.dir)>>

Pending(d) == [dir |-> d, near |-> None, far |-> None]
Put(k, entry) == [j \in DOMAIN pending \cup {k} |-> IF j = k THEN entry ELSE pending[j]]
Without(keys) == [j \in DOMAIN pending \ keys |-> pending[j]]

Ending == cancelled \/ closing > 0
OutClosed == closing = 3
LockFree == reader # "emit"

\* Mutant: the channel is unbounded.
HasSpaceAlways(ch) == TRUE

HasSpace(ch) == Len(ch) < Buffer

Init ==
  /\ inCh = << >> /\ outCh = << >>
  /\ closing = 0 /\ cancelled = FALSE /\ panicked = FALSE
  /\ caracal = "none" /\ network = {}
  /\ run = "new" /\ current = None
  /\ reader = "none" /\ hand = None /\ cleaner = "none"
  /\ pending = << >>
  /\ given = {} /\ emitted = << >> /\ late = 0

-----------------------------------------------------------------------------
(* The users of the prober.                                                *)

Push(d) ==
  /\ d \notin given /\ HasSpace(inCh)
  /\ inCh' = Append(inCh, d)
  /\ given' = given \cup {d}
  /\ UNCHANGED <<outCh, caracal, network, runVars, readerVars, cleaner, pending, statusVars,
                 emitted, late>>

Pull ==
  /\ outCh # << >>
  /\ outCh' = Tail(outCh)
  /\ UNCHANGED <<inCh, caracal, network, runVars, readerVars, cleaner, pending, statusVars,
                 historyVars>>

Cancel ==
  /\ ~ cancelled
  /\ cancelled' = TRUE
  /\ UNCHANGED <<channelVars, caracal, network, runVars, readerVars, cleaner, pending, closing,
                 panicked, historyVars>>

\* Swap and close(closeCh); stopCaracal; close(outCh).  A second call does nothing.
Close ==
  /\ closing < 3
  /\ closing' = closing + 1
  /\ caracal' = IF closing = 1 /\ caracal # "none" THEN "stopped" ELSE caracal
  /\ UNCHANGED <<channelVars, network, runVars, readerVars, cleaner, pending, cancelled,
                 panicked, historyVars>>

-----------------------------------------------------------------------------
(* Run.                                                                    *)

Start ==
  /\ run = "new" /\ ~ cancelled
  /\ caracal' = "running"
  /\ run' = "select" /\ reader' = "scan" /\ cleaner' = "idle"
  /\ UNCHANGED <<channelVars, network, current, hand, pending, statusVars, historyVars>>

\* No such binary, or the context is done already.
FailStart ==
  /\ run = "new"
  /\ run' = "returned"
  /\ UNCHANGED <<channelVars, caracal, network, current, readerVars, cleaner, pending,
                 statusVars, historyVars>>

TakeDirective ==
  /\ run = "select" /\ inCh # << >>
  /\ current' = Head(inCh) /\ inCh' = Tail(inCh)
  /\ run' = "register"
  /\ UNCHANGED <<outCh, caracal, network, readerVars, cleaner, pending, statusVars, historyVars>>

Register ==
  /\ run = "register" /\ LockFree
  /\ pending' = Put(Key(current), Pending(current))
  /\ run' = "near"
  /\ UNCHANGED <<channelVars, caracal, network, current, readerVars, cleaner, statusVars,
                 historyVars>>

\* stdin.Write blocks while the pipe is full: caracal need not read it.
WriteProbe ==
  /\ run \in {"near", "far"} /\ caracal = "running"
  /\ network' = network \cup
       {Probe(current, IF run = "near" THEN TtlOf[current] ELSE FarTtl(current))}
  /\ run' = IF run = "near" THEN "far" ELSE "select"
  /\ current' = IF run = "near" THEN current ELSE None
  /\ UNCHANGED <<channelVars, caracal, readerVars, cleaner, pending, statusVars, historyVars>>

\* Mutant: Run ends at the first error.
AfterFailedWriteEnd == "join"

\* Log error but continue.
AfterFailedWrite == "select"

FailWrite ==
  /\ run \in {"near", "far"} /\ caracal # "running"
  /\ run' = AfterFailedWrite /\ current' = None
  /\ UNCHANGED <<channelVars, caracal, network, readerVars, cleaner, pending, statusVars,
                 historyVars>>

\* ctx or closeCh is done; wg.Wait.
EndRun ==
  /\ run = "select" /\ Ending
  /\ run' = "join"
  /\ UNCHANGED <<channelVars, caracal, network, current, readerVars, cleaner, pending,
                 statusVars, historyVars>>

Return ==
  /\ run = "join" /\ reader = "done" /\ cleaner = "done"
  /\ run' = "returned"
  /\ caracal' = "stopped"
  /\ UNCHANGED <<channelVars, network, current, readerVars, cleaner, pending, statusVars,
                 historyVars>>

\* It crashes, or os/exec kills it because the context is done.
Die ==
  /\ caracal = "running"
  /\ caracal' = "dead"
  /\ UNCHANGED <<channelVars, network, runVars, readerVars, cleaner, pending, statusVars,
                 historyVars>>

-----------------------------------------------------------------------------
(* readCaracalOutput and handleResponse.                                   *)

\* Mutant: closeCh and the context are not looked at between two lines.
ReadLineUnchecked ==
  /\ reader = "scan" /\ caracal \in {"running", "dead"}
  /\ \E probe \in network :
       /\ network' \in {network, network \ {probe}}
       /\ reader' = "handle" /\ hand' = probe
  /\ UNCHANGED <<channelVars, caracal, runVars, cleaner, pending, statusVars, historyVars>>

\* What caracal wrote before it died can still be read.
ReadLine ==
  /\ reader = "scan" /\ caracal \in {"running", "dead"}
  /\ \E probe \in network :
       /\ network' \in {network, network \ {probe}}
       /\ reader' = IF Ending THEN "done" ELSE "handle"
       /\ hand' = IF Ending THEN None ELSE probe
  /\ UNCHANGED <<channelVars, caracal, runVars, cleaner, pending, statusVars, historyVars>>

\* Scan fails.
EndReader ==
  /\ reader = "scan" /\ caracal \in {"dead", "stopped"}
  /\ reader' = "done"
  /\ UNCHANGED <<channelVars, caracal, network, runVars, hand, cleaner, pending, statusVars,
                 historyVars>>

\* Mutant: what is not the near reply is the far one.
MatchedElse(entry, probe) ==
  IF probe.ttl = TtlOf[entry.dir]
    THEN [entry EXCEPT !.near = probe] ELSE [entry EXCEPT !.far = probe]

Matched(entry, probe) ==
  CASE probe.ttl = TtlOf[entry.dir] -> [entry EXCEPT !.near = probe]
    [] probe.ttl = FarTtl(entry.dir) -> [entry EXCEPT !.far = probe]
    [] OTHER -> entry

Complete(entry) == entry.near # None /\ entry.far # None

Unmatched ==
  /\ reader = "handle" /\ ReplyKey(hand) \notin DOMAIN pending
  /\ reader' = "scan" /\ hand' = None
  /\ UNCHANGED <<channelVars, caracal, network, runVars, cleaner, pending, statusVars,
                 historyVars>>

\* Mutant: the entry stays until it expires.
AfterCompleteKeep(k) == pending

AfterComplete(k) == Without({k})

HandleResponse ==
  /\ reader = "handle"
  /\ \E k \in {ReplyKey(hand)} \cap DOMAIN pending :
       LET entry == Matched(pending[k], hand) IN
       IF Complete(entry)
         THEN pending' = AfterComplete(k) /\ reader' = "emit" /\ hand' = entry
         ELSE pending' = Put(k, entry) /\ reader' = "scan" /\ hand' = None
  /\ UNCHANGED <<channelVars, caracal, network, runVars, cleaner, statusVars, historyVars>>

LateNow == IF closing > 0 THEN late + 1 ELSE late

Emit ==
  /\ reader = "emit" /\ ~ OutClosed /\ HasSpace(outCh)
  /\ outCh' = Append(outCh, hand) /\ emitted' = Append(emitted, hand) /\ late' = LateNow
  /\ reader' = "scan" /\ hand' = None
  /\ UNCHANGED <<inCh, caracal, network, runVars, cleaner, pending, statusVars, given>>

\* Mutant: only closeCh ends the wait.
MayGiveUpClosed == closing > 0

MayGiveUp == Ending

GiveUp ==
  /\ reader = "emit" /\ MayGiveUp
  /\ reader' = "scan" /\ hand' = None
  /\ UNCHANGED <<channelVars, caracal, network, runVars, cleaner, pending, statusVars,
                 historyVars>>

\* closeCh and the send on a closed channel are both ready: select may take either.
Panic ==
  /\ reader = "emit" /\ OutClosed
  /\ panicked' = TRUE /\ late' = LateNow
  /\ UNCHANGED <<channelVars, caracal, network, runVars, readerVars, cleaner, pending, closing,
                 cancelled, given, emitted>>

-----------------------------------------------------------------------------
(* cleanupExpiredProbes.                                                   *)

CleanUp ==
  /\ cleaner = "idle" /\ LockFree
  /\ \E expired \in (SUBSET DOMAIN pending) \ {{}} : pending' = Without(expired)
  /\ UNCHANGED <<channelVars, caracal, network, runVars, readerVars, cleaner, statusVars,
                 historyVars>>

EndCleaner ==
  /\ cleaner = "idle" /\ Ending
  /\ cleaner' = "done"
  /\ UNCHANGED <<channelVars, caracal, network, runVars, readerVars, pending, statusVars,
                 historyVars>>

-----------------------------------------------------------------------------
RunStep == Start \/ FailStart \/ TakeDirective \/ Register \/ FailWrite \/ EndRun \/ Return
ReaderStep ==
  EndReader \/ Unmatched \/ HandleResponse \/ Emit \/ GiveUp \/ Panic

Step ==
  \/ \E d \in Directives : Push(d)
  \/ Pull \/ Cancel \/ Close \/ Die
  \/ RunStep \/ WriteProbe \/ ReadLine \/ ReaderStep
  \/ CleanUp \/ EndCleaner

Ended == (panicked \/ run = "returned") /\ UNCHANGED vars

Next == (~ panicked /\ Step) \/ Ended

Spec == Init /\ [][Next]_vars

Alive(A) == ~ panicked /\ A

\* The prober's goroutines run and Close, once called, goes on; os/exec kills the
\* process of a context that is done.  Nobody need push, pull, read what Run writes
\* or reply.
Fairness ==
  /\ WF_vars(Alive(RunStep))
  /\ WF_vars(Alive(ReaderStep))
  /\ WF_vars(Alive(EndCleaner))
  /\ WF_vars(Alive(closing > 0 /\ Close))
  /\ WF_vars(Alive(cancelled /\ Die))

FairSpec == Spec /\ Fairness

-----------------------------------------------------------------------------
(* Properties.                                                             *)

Replies == [dir : Directives, ttl : Nat]
Entries == [dir : Directives, near : Replies \cup {None}, far : Replies \cup {None}]

\* The shape of the state.
TypeOK ==
  /\ inCh \in Seq(Directives) /\ Len(inCh) <= Buffer
  /\ outCh \in Seq(Entries) /\ Len(outCh) <= Buffer
  /\ closing \in 0..3 /\ cancelled \in BOOLEAN /\ panicked \in BOOLEAN
  /\ caracal \in {"none", "running", "dead", "stopped"}
  /\ network \subseteq Replies
  /\ run \in {"new", "select", "register", "near", "far", "join", "returned"}
  /\ current \in IF run \in {"register", "near", "far"} THEN Directives ELSE {None}
  /\ reader \in {"none", "scan", "handle", "emit", "done"}
  /\ hand \in CASE reader = "handle" -> Replies [] reader = "emit" -> Entries
                [] OTHER -> {None}
  /\ cleaner \in {"none", "idle", "done"}
  /\ \A k \in DOMAIN pending : pending[k] \in Entries
  /\ given \subseteq Directives /\ emitted \in Seq(Entries) /\ late \in Nat

\* The replies in an element are to probes of the directive's flow, one at each of
\* its two TTLs, and to its own probes if no other directive has that flow, however
\* late or repeated they are and whatever took the entry's place meanwhile.
Uses(entry, probe, ttl) ==
  /\ probe.ttl = ttl /\ ReplyKey(probe) = Key(entry.dir)
  /\ probe.dir = entry.dir \/ FlowOf[probe.dir] = FlowOf[entry.dir]

RepliesMatch ==
  \A i \in DOMAIN emitted : LET x == emitted[i] IN
    Uses(x, x.near, TtlOf[x.dir]) /\ Uses(x, x.far, FarTtl(x.dir))

\* It is a prober: however replies are lost or repeated and entries expire, it answers
\* directives it was given, each at most once (components.go:103-126, without Close).
Contract == INSTANCE Prober WITH emitted <- [i \in DOMAIN emitted |-> emitted[i].dir]
ImplementsProber == Contract!Spec

\* "After Close is called, no further values will be emitted" (components.go:124) is
\* missed by one value at most: that of the reply the reader has in hand by then.  A
\* send that panics, because Close has closed outCh meanwhile, is counted too.
OneLateAnswer == late <= 1

\* Run goes on taking directives, also when caracal has crashed; unless nobody takes
\* the elements, or it is told to end, or it waits for good in a Write to a caracal
\* that lives and does not read.
Writing == run \in {"near", "far"} /\ caracal = "running"
DirectivesTaken ==
  []<>(~ Writing) =>
    ((run # "new" /\ inCh # << >>) ~> (inCh = << >> \/ Len(outCh) = Buffer \/ Ending
                                       \/ run = "returned"))

\* Run returns when its context is done, or when a prober that runs is closed, even
\* if nobody takes the elements and the reader waits with the lock held, or if caracal
\* does not read what Run writes; unless the reader sends on the closed outCh first,
\* which ends the process.
RunEnds ==
  (cancelled \/ (closing = 1 /\ caracal # "none")) ~> (run = "returned" \/ panicked)
=============================================================================
