-------------------------- MODULE CaracalProber_proofs --------------------------
(* Proofs about CaracalProber, for any directives, flows, protocols and TTLs *)
(* and any capacities: the type invariant, that replies are matched with the *)
(* probes that caused them, that it is a prober, and that it emits one value *)
(* at most after Close is called.                                            *)
EXTENDS CaracalProber, TLAPS

USE BufferAssumption, TtlAssumption, ProtocolAssumption

-----------------------------------------------------------------------------
(* Type correctness.                                                       *)

\* There is no reader before Run has started one.
TypeInv == TypeOK /\ (run = "new" => reader = "none")

\* Nothing runs, and nothing is queued or pending, at the start.
LEMMA InitTypeInv == Init => TypeInv
<1> SUFFICES ASSUME Init PROVE TypeInv
  OBVIOUS
<1>1. inCh \in Seq(Directives) /\ outCh \in Seq(Entries) /\ emitted \in Seq(Entries)
  BY DEF Init
<1>2. Len(inCh) <= Buffer /\ Len(outCh) <= Buffer
  BY DEF Init
<1>3. closing \in 0..3
  BY DEF Init
<1>4. \A k \in DOMAIN pending : pending[k] \in Entries
  BY DEF Init
<1>5. hand \in CASE reader = "handle" -> Replies [] reader = "emit" -> Entries [] OTHER -> {None}
  BY DEF Init
<1>6. current \in IF run \in {"register", "near", "far"} THEN Directives ELSE {None}
  BY DEF Init
<1>7. cancelled \in BOOLEAN /\ panicked \in BOOLEAN
  BY DEF Init
<1>8. network \subseteq Replies /\ given \subseteq Directives
  BY DEF Init
<1>9. /\ caracal = "none" /\ run = "new" /\ reader = "none" /\ cleaner = "none" /\ late = 0
  BY DEF Init
<1> QED BY <1>1, <1>2, <1>3, <1>4, <1>5, <1>6, <1>7, <1>8, <1>9 DEF TypeInv, TypeOK

\* What a reply makes of an entry is an entry.
LEMMA MatchedType ==
  ASSUME NEW x \in Entries, NEW probe \in Replies PROVE Matched(x, probe) \in Entries
BY DEF Matched, Entries, Replies

\* What is left of the map is as it was.
LEMMA WithoutEntries ==
  ASSUME NEW keys
  PROVE  /\ DOMAIN Without(keys) = DOMAIN pending \ keys
         /\ \A j \in DOMAIN Without(keys) : Without(keys)[j] = pending[j]
BY DEF Without

\* One step per operation; what an operation leaves alone keeps its type.
LEMMA NextTypeInv == TypeInv /\ [Next]_vars => TypeInv'
<1> SUFFICES ASSUME TypeInv, [Next]_vars PROVE TypeInv'
  OBVIOUS
<1> USE DEF TypeInv, TypeOK, channelVars, runVars, readerVars, statusVars, historyVars
<1>1. CASE \E d \in Directives : Push(d) BY <1>1 DEF Push, HasSpace
<1>2. CASE Pull
  <2>1. outCh' \in Seq(Entries) /\ Len(outCh') <= Buffer
    BY <1>2 DEF Pull
  <2> QED BY <1>2, <2>1 DEF Pull
<1>3. CASE Cancel BY <1>3 DEF Cancel
<1>4. CASE Close BY <1>4 DEF Close
<1>5. CASE Die BY <1>5 DEF Die
<1>6. CASE Start BY <1>6 DEF Start
<1>7. CASE FailStart BY <1>7 DEF FailStart
<1>8. CASE TakeDirective
  <2>1. inCh' \in Seq(Directives) /\ Len(inCh') <= Buffer /\ Head(inCh) \in Directives
    BY <1>8 DEF TakeDirective
  <2> QED BY <1>8, <2>1 DEF TakeDirective
<1>9. CASE Register
  <2>1. Pending(current) \in Entries
    BY <1>9 DEF Register, Pending, Entries
  <2>2. \A k \in DOMAIN pending' : pending'[k] \in Entries
    BY <1>9, <2>1 DEF Register, Put
  <2> QED BY <1>9, <2>2 DEF Register
<1>10. CASE WriteProbe
  <2>1. current \in Directives
    BY <1>10 DEF WriteProbe
  <2>2. Probe(current, TtlOf[current]) \in Replies /\ Probe(current, FarTtl(current)) \in Replies
    BY <2>1 DEF Probe, FarTtl, Replies
  <2>3. network' \subseteq Replies
    BY <1>10, <2>2 DEF WriteProbe
  <2> QED BY <1>10, <2>1, <2>3 DEF WriteProbe
<1>11. CASE FailWrite BY <1>11 DEF FailWrite, AfterFailedWrite
<1>12. CASE EndRun BY <1>12 DEF EndRun
<1>13. CASE Return BY <1>13 DEF Return
<1>14. CASE ReadLine
  <2>1. network' \subseteq Replies /\ (Ending => hand' = None) /\ (~ Ending => hand' \in Replies)
    BY <1>14 DEF ReadLine
  <2> QED BY <1>14, <2>1 DEF ReadLine
<1>15. CASE EndReader BY <1>15 DEF EndReader
<1>16. CASE Unmatched BY <1>16 DEF Unmatched
<1>17. CASE HandleResponse
  <2> PICK k \in {ReplyKey(hand)} \cap DOMAIN pending :
             LET x == Matched(pending[k], hand) IN
             IF Complete(x)
               THEN pending' = AfterComplete(k) /\ reader' = "emit" /\ hand' = x
               ELSE pending' = Put(k, x) /\ reader' = "scan" /\ hand' = None
    BY <1>17 DEF HandleResponse
  <2>1. Matched(pending[k], hand) \in Entries
    BY <1>17, MatchedType DEF HandleResponse
  <2>2. \A j \in DOMAIN pending' : pending'[j] \in Entries
    BY <2>1 DEF AfterComplete, Put, Without
  <2> QED BY <1>17, <2>1, <2>2 DEF HandleResponse
<1>18. CASE Emit
  <2>1. hand \in Entries
    BY <1>18 DEF Emit
  <2> QED BY <1>18, <2>1 DEF Emit, HasSpace, LateNow
<1>19. CASE GiveUp BY <1>19 DEF GiveUp
<1>20. CASE Panic BY <1>20 DEF Panic, LateNow
<1>21. CASE CleanUp
  <2> PICK expired \in (SUBSET DOMAIN pending) \ {{}} : pending' = Without(expired)
    BY <1>21 DEF CleanUp
  <2>0. /\ DOMAIN Without(expired) = DOMAIN pending \ expired
        /\ \A j \in DOMAIN Without(expired) : Without(expired)[j] = pending[j]
    BY WithoutEntries
  <2>1. \A k \in DOMAIN pending' : pending'[k] \in Entries
    BY <2>0
  <2> QED BY <1>21, <2>1 DEF CleanUp
<1>22. CASE EndCleaner BY <1>22 DEF EndCleaner
<1>23. CASE UNCHANGED vars BY <1>23 DEF vars
<1> QED
  BY <1>1, <1>2, <1>3, <1>4, <1>5, <1>6, <1>7, <1>8, <1>9, <1>10, <1>11, <1>12, <1>13, <1>14,
     <1>15, <1>16, <1>17, <1>18, <1>19, <1>20, <1>21, <1>22, <1>23
  DEF Next, Step, RunStep, ReaderStep, Ended

\* The same as an invariant of the specification.
LEMMA TypeInvAlways == Spec => []TypeInv
BY InitTypeInv, NextTypeInv, PTL DEF Spec

\* The shape of the state never changes, however replies, the death of caracal, the
\* cleaner and Close interleave.
THEOREM TypeCorrect == Spec => []TypeOK
BY TypeInvAlways, PTL DEF TypeInv

-----------------------------------------------------------------------------
(* The replies.  An entry is found by the key of a reply, so what is filled in *)
(* belongs to the key, whichever directive has the entry by then.              *)

\* What an entry holds is right, and so is what it misses.
Right(x) ==
  /\ x.near # None => Uses(x, x.near, TtlOf[x.dir])
  /\ x.far # None => Uses(x, x.far, FarTtl(x.dir))

MatchInv ==
  /\ \A k \in DOMAIN pending : Key(pending[k].dir) = k /\ Right(pending[k])
  /\ reader = "emit" => Right(hand) /\ Complete(hand)
  /\ \A i \in DOMAIN emitted : Right(emitted[i]) /\ Complete(emitted[i])

\* A reply that was looked up by its key may be used by the entry it was found with.
LEMMA MatchedRight ==
  ASSUME NEW x \in Entries, NEW probe \in Replies, Right(x), ReplyKey(probe) = Key(x.dir)
  PROVE  Right(Matched(x, probe)) /\ Matched(x, probe).dir = x.dir
<1>1. FlowOf[probe.dir] = FlowOf[x.dir]
  BY DEF ReplyKey, Key
<1>2. CASE probe.ttl = TtlOf[x.dir]
  <2>0. TtlOf[x.dir] # FarTtl(x.dir)
    BY DEF FarTtl, Entries
  <2>1. Matched(x, probe) = [x EXCEPT !.near = probe]
    BY <1>2, <2>0 DEF Matched
  <2>2. /\ Matched(x, probe).near = probe /\ Matched(x, probe).far = x.far
        /\ Matched(x, probe).dir = x.dir
    BY <2>1 DEF Entries
  <2> QED BY <1>1, <1>2, <2>2 DEF Right, Uses
<1>3. CASE probe.ttl # TtlOf[x.dir] /\ probe.ttl = FarTtl(x.dir)
  <2>1. Matched(x, probe) = [x EXCEPT !.far = probe]
    BY <1>3 DEF Matched
  <2>2. /\ Matched(x, probe).near = x.near /\ Matched(x, probe).far = probe
        /\ Matched(x, probe).dir = x.dir
    BY <2>1 DEF Entries
  <2> QED BY <1>1, <1>3, <2>2 DEF Right, Uses
<1>4. CASE probe.ttl # TtlOf[x.dir] /\ probe.ttl # FarTtl(x.dir)
  <2>1. Matched(x, probe) = x
    BY <1>4 DEF Matched
  <2> QED BY <2>1
<1> QED BY <1>2, <1>3, <1>4

\* Registering overwrites what has the key; a reply is filled in under its own key; what
\* is emitted was complete when it left the map.
LEMMA MatchStep == TypeInv /\ MatchInv /\ [Next]_vars => MatchInv'
<1> SUFFICES ASSUME TypeInv, MatchInv, [Next]_vars PROVE MatchInv'
  OBVIOUS
<1>0. /\ \A k \in DOMAIN pending : pending[k] \in Entries
      /\ reader = "handle" => hand \in Replies
      /\ reader = "emit" => hand \in Entries
      /\ emitted \in Seq(Entries)
  BY DEF TypeInv, TypeOK
<1>1. CASE Register
  <2>1. /\ pending' = Put(Key(current), Pending(current))
        /\ UNCHANGED <<reader, hand, emitted>>
    BY <1>1 DEF Register, readerVars, historyVars
  <2>2. Right(Pending(current)) /\ Pending(current).dir = current
    BY DEF Right, Pending
  <2>3. \A k \in DOMAIN pending' : Key(pending'[k].dir) = k /\ Right(pending'[k])
    BY <2>1, <2>2 DEF MatchInv, Put
  <2> QED BY <2>1, <2>3 DEF MatchInv
<1>2. CASE HandleResponse
  <2> PICK k \in {ReplyKey(hand)} \cap DOMAIN pending :
             LET x == Matched(pending[k], hand) IN
             IF Complete(x)
               THEN pending' = AfterComplete(k) /\ reader' = "emit" /\ hand' = x
               ELSE pending' = Put(k, x) /\ reader' = "scan" /\ hand' = None
    BY <1>2 DEF HandleResponse
  <2> DEFINE x == Matched(pending[k], hand)
  <2>1. /\ hand \in Replies /\ pending[k] \in Entries /\ k = ReplyKey(hand)
        /\ Key(pending[k].dir) = k /\ Right(pending[k])
    BY <1>0, <1>2 DEF HandleResponse, MatchInv
  <2>2. Right(x) /\ Key(x.dir) = k
    BY <2>1, MatchedRight
  <2>3. emitted' = emitted
    BY <1>2 DEF HandleResponse, historyVars
  <2> HIDE DEF x
  <2>4. CASE Complete(x)
    <3>1. pending' = Without({k}) /\ reader' = "emit" /\ hand' = x
      BY <2>4 DEF AfterComplete, x
    <3>2. \A j \in DOMAIN pending' : Key(pending'[j].dir) = j /\ Right(pending'[j])
      BY <3>1 DEF MatchInv, Without
    <3> QED BY <2>2, <2>3, <2>4, <3>1, <3>2 DEF MatchInv
  <2>5. CASE ~ Complete(x)
    <3>1. pending' = Put(k, x) /\ reader' = "scan"
      BY <2>5 DEF x
    <3>2. \A j \in DOMAIN pending' : Key(pending'[j].dir) = j /\ Right(pending'[j])
      BY <2>2, <3>1 DEF MatchInv, Put
    <3> QED BY <2>3, <3>1, <3>2 DEF MatchInv
  <2> QED BY <2>4, <2>5
<1>3. CASE Emit
  <2>1. /\ emitted' = Append(emitted, hand) /\ hand \in Entries /\ reader' = "scan"
        /\ pending' = pending /\ Right(hand) /\ Complete(hand)
    BY <1>0, <1>3 DEF Emit, MatchInv
  <2>2. \A i \in DOMAIN emitted' :
          emitted'[i] = hand \/ (i \in DOMAIN emitted /\ emitted'[i] = emitted[i])
    BY <1>0, <2>1
  <2> QED BY <2>1, <2>2 DEF MatchInv
<1>4. CASE CleanUp
  <2>1. UNCHANGED <<reader, hand, emitted>>
    BY <1>4 DEF CleanUp, readerVars, historyVars
  <2>2. \A k \in DOMAIN pending' : Key(pending'[k].dir) = k /\ Right(pending'[k])
    BY <1>4 DEF CleanUp, Without, MatchInv
  <2> QED BY <2>1, <2>2 DEF MatchInv
<1>5. CASE UNCHANGED <<pending, emitted>> /\ (reader' = "emit" => UNCHANGED <<reader, hand>>)
  BY <1>5 DEF MatchInv
<1>6. CASE (\E d \in Directives : Push(d)) \/ Pull \/ Cancel \/ Close \/ Die \/ EndCleaner
  BY <1>5, <1>6 DEF Push, Pull, Cancel, Close, Die, EndCleaner, readerVars, historyVars
<1>7. CASE Start \/ FailStart \/ TakeDirective \/ WriteProbe \/ FailWrite \/ EndRun \/ Return
  BY <1>5, <1>7 DEF Start, FailStart, TakeDirective, WriteProbe, FailWrite, EndRun, Return,
     readerVars, historyVars
<1>8. CASE ReadLine \/ EndReader \/ Unmatched \/ GiveUp \/ Panic \/ UNCHANGED vars
  BY <1>5, <1>8 DEF ReadLine, EndReader, Unmatched, GiveUp, Panic, readerVars, historyVars, vars
<1> QED
  BY <1>1, <1>2, <1>3, <1>4, <1>6, <1>7, <1>8 DEF Next, Step, RunStep, ReaderStep, Ended

\* Every element holds replies to probes of its directive's flow at its two TTLs, whatever
\* was lost, repeated or late, expired, or registered again under the same key.
THEOREM RepliesAlwaysMatch == Spec => []RepliesMatch
<1>1. Init => MatchInv
  BY DEF Init, MatchInv
<1>2. MatchInv => RepliesMatch
  BY DEF MatchInv, Right, Complete, RepliesMatch
<1> QED BY <1>1, <1>2, MatchStep, TypeInvAlways, PTL DEF Spec

-----------------------------------------------------------------------------
(* It is a prober.  A directive moves from inCh to Run, to the map, to the     *)
(* reader and to outCh, and is in no two of these at a time.                   *)

Answered(d) == \E i \in DOMAIN emitted : emitted[i].dir = d
Held(d) == reader = "emit" /\ hand.dir = d
Registered(d) == \E k \in DOMAIN pending : pending[k].dir = d
Known(d) == Answered(d) \/ Held(d) \/ Registered(d)

OnceInv ==
  /\ \A i \in DOMAIN inCh : inCh[i] \in given /\ ~ Known(inCh[i])
  /\ \A i, j \in DOMAIN inCh : inCh[i] = inCh[j] => i = j
  /\ run = "register" =>
       current \in given /\ ~ Known(current) /\ \A i \in DOMAIN inCh : inCh[i] # current
  /\ \A k \in DOMAIN pending : LET d == pending[k].dir IN
       d \in given /\ ~ Answered(d) /\ ~ Held(d)
  /\ reader = "emit" => hand.dir \in given /\ ~ Answered(hand.dir)
  /\ \A i \in DOMAIN emitted : emitted[i].dir \in given

\* Nothing is pending at the start.
LEMMA InitOnceInv == Init => OnceInv
BY DEF Init, OnceInv, Known, Answered, Held, Registered

\* One step per move.  What moves was in one place, so it is new to the next.
LEMMA OnceStep == TypeInv /\ MatchInv /\ OnceInv /\ [Next]_vars => OnceInv'
<1> SUFFICES ASSUME TypeInv, MatchInv, OnceInv, [Next]_vars PROVE OnceInv'
  OBVIOUS
<1>0. /\ inCh \in Seq(Directives) /\ emitted \in Seq(Entries)
      /\ \A k \in DOMAIN pending : pending[k] \in Entries /\ Key(pending[k].dir) = k
      /\ reader = "emit" => hand \in Entries
      /\ reader = "handle" => hand \in Replies
      /\ given \subseteq Directives
  BY DEF TypeInv, TypeOK, MatchInv
<1>1. CASE \E d \in Directives : Push(d)
  <2> PICK d \in Directives : Push(d)
    BY <1>1
  <2>1. /\ d \notin given /\ inCh' = Append(inCh, d) /\ given' = given \cup {d}
        /\ UNCHANGED <<run, current, reader, hand, pending, emitted>>
    BY DEF Push, runVars, readerVars
  <2>2. ~ Known(d)
    BY <2>1 DEF OnceInv, Known, Answered, Held, Registered
  <2>3. \A i \in DOMAIN inCh' :
          (i = Len(inCh) + 1 /\ inCh'[i] = d) \/ (i \in DOMAIN inCh /\ inCh'[i] = inCh[i])
    BY <1>0, <2>1
  <2>4. \A x : Known(x)' <=> Known(x)
    BY <2>1 DEF Known, Answered, Held, Registered
  <2>5. \A i \in DOMAIN inCh' : inCh'[i] \in given' /\ ~ Known(inCh'[i])
    BY <2>1, <2>2, <2>3 DEF OnceInv
  <2>6. \A i, j \in DOMAIN inCh' : inCh'[i] = inCh'[j] => i = j
    BY <2>1, <2>3 DEF OnceInv
  <2>7. run' = "register" => \A i \in DOMAIN inCh' : inCh'[i] # current'
    BY <2>1, <2>3 DEF OnceInv
  <2> QED BY <2>1, <2>4, <2>5, <2>6, <2>7 DEF OnceInv, Known, Answered, Held, Registered
<1>2. CASE TakeDirective
  <2>1. /\ inCh # << >> /\ inCh' = Tail(inCh) /\ current' = Head(inCh) /\ run' = "register"
        /\ UNCHANGED <<reader, hand, pending, emitted, given>>
    BY <1>2 DEF TakeDirective, readerVars, historyVars
  <2>2. /\ 1 \in DOMAIN inCh /\ Head(inCh) = inCh[1]
        /\ \A i \in DOMAIN inCh' : i \in Nat \ {0} /\ i + 1 \in DOMAIN inCh /\ inCh'[i] = inCh[i + 1]
    BY <1>0, <2>1
  <2>3. Head(inCh) \in given /\ ~ Known(Head(inCh))
    BY <2>2 DEF OnceInv
  <2>4. \A i \in DOMAIN inCh' : inCh'[i] \in given /\ ~ Known(inCh'[i]) /\ inCh'[i] # Head(inCh)
    BY <2>2 DEF OnceInv
  <2>5. \A i, j \in DOMAIN inCh' : inCh'[i] = inCh'[j] => i = j
    BY <2>2 DEF OnceInv
  <2> QED BY <2>1, <2>3, <2>4, <2>5 DEF OnceInv, Known, Answered, Held, Registered
<1>3. CASE Register
  <2>1. /\ pending' = Put(Key(current), Pending(current)) /\ run = "register" /\ run' = "near"
        /\ UNCHANGED <<inCh, reader, hand, emitted, given>>
    BY <1>3 DEF Register, channelVars, readerVars, historyVars
  <2>2. /\ current \in given /\ ~ Known(current)
        /\ \A i \in DOMAIN inCh : inCh[i] # current
    BY <2>1 DEF OnceInv
  <2>3. \A k \in DOMAIN pending' :
          pending'[k].dir = current \/ (k \in DOMAIN pending /\ pending'[k] = pending[k])
    BY <2>1 DEF Put, Pending
  <2>4. \A i \in DOMAIN inCh : ~ Registered(inCh[i])'
    BY <2>1, <2>2, <2>3 DEF OnceInv, Known, Registered
  <2>5. \A x : (Answered(x)' <=> Answered(x)) /\ (Held(x)' <=> Held(x))
    BY <2>1 DEF Answered, Held
  <2>6. \A k \in DOMAIN pending' : LET d == pending'[k].dir IN
          d \in given /\ ~ Answered(d) /\ ~ Held(d)
    BY <2>2, <2>3 DEF OnceInv, Known
  <2>7. \A i \in DOMAIN inCh : inCh[i] \in given /\ ~ Answered(inCh[i]) /\ ~ Held(inCh[i])
    BY DEF OnceInv, Known
  <2> QED BY <2>1, <2>4, <2>5, <2>6, <2>7 DEF OnceInv, Known
<1>4. CASE HandleResponse
  <2> PICK k \in {ReplyKey(hand)} \cap DOMAIN pending :
             LET x == Matched(pending[k], hand) IN
             IF Complete(x)
               THEN pending' = AfterComplete(k) /\ reader' = "emit" /\ hand' = x
               ELSE pending' = Put(k, x) /\ reader' = "scan" /\ hand' = None
    BY <1>4 DEF HandleResponse
  <2> DEFINE x == Matched(pending[k], hand)
  <2>0. /\ k \in DOMAIN pending /\ k = ReplyKey(hand) /\ hand \in Replies /\ pending[k] \in Entries
        /\ Key(pending[k].dir) = k /\ Right(pending[k]) /\ reader = "handle"
    BY <1>0, <1>4 DEF HandleResponse, MatchInv
  <2>1. /\ x.dir = pending[k].dir /\ k \in DOMAIN pending /\ Key(pending[k].dir) = k
        /\ reader = "handle"
    BY <2>0, MatchedRight
  <2>2. UNCHANGED <<inCh, run, current, emitted, given>>
    BY <1>4 DEF HandleResponse, channelVars, runVars, historyVars
  <2> HIDE DEF x
  <2>3. CASE Complete(x)
    <3>1. pending' = Without({k}) /\ reader' = "emit" /\ hand' = x
      BY <2>3 DEF AfterComplete, x
    <3>2. \A j \in DOMAIN pending' : j \in DOMAIN pending /\ j # k /\ pending'[j] = pending[j]
      BY <3>1 DEF Without
    <3>3. \A j \in DOMAIN pending' : pending[j].dir # pending[k].dir
      BY <1>0, <2>1, <3>2
    <3>4. \A d : /\ Answered(d)' <=> Answered(d)
                 /\ Held(d)' <=> d = pending[k].dir
                 /\ Known(d)' => Known(d)
      BY <2>1, <2>2, <3>1, <3>2 DEF Answered, Held, Registered, Known
    <3>5. \A j \in DOMAIN pending' : LET d == pending'[j].dir IN
            d \in given /\ ~ Answered(d) /\ d # pending[k].dir
      BY <3>2, <3>3 DEF OnceInv
    <3>6. hand'.dir \in given /\ ~ Answered(hand'.dir)
      BY <2>1, <3>1 DEF OnceInv
    <3> QED BY <2>2, <3>4, <3>5, <3>6 DEF OnceInv
  <2>4. CASE ~ Complete(x)
    <3>1. pending' = Put(k, x) /\ reader' = "scan"
      BY <2>4 DEF x
    <3>2. \A j \in DOMAIN pending' : j \in DOMAIN pending /\ pending'[j].dir = pending[j].dir
      BY <2>1, <3>1 DEF Put
    <3>3. \A d : (Answered(d)' <=> Answered(d)) /\ ~ Held(d)' /\ (Known(d)' => Known(d))
      BY <2>1, <2>2, <3>1, <3>2 DEF Answered, Held, Registered, Known
    <3> QED BY <2>2, <3>1, <3>2, <3>3 DEF OnceInv
  <2> QED BY <2>3, <2>4
<1>5. CASE Emit
  <2>1. /\ emitted' = Append(emitted, hand) /\ hand \in Entries
        /\ reader = "emit" /\ reader' = "scan"
        /\ UNCHANGED <<inCh, run, current, pending, given>>
    BY <1>0, <1>5 DEF Emit, runVars
  <2>2. \A i \in DOMAIN emitted' :
          emitted'[i] = hand \/ (i \in DOMAIN emitted /\ emitted'[i] = emitted[i])
    BY <1>0, <2>1
  <2>3. \A d : ~ Held(d)' /\ (Answered(d)' => Answered(d) \/ Held(d))
    BY <2>1, <2>2 DEF Held, Answered
  <2>4. \A d : Known(d)' => Known(d)
    BY <2>1, <2>3 DEF Known, Registered
  <2> QED BY <2>1, <2>2, <2>3, <2>4 DEF OnceInv
<1>6. CASE /\ UNCHANGED <<inCh, emitted, given>>
           /\ \A k \in DOMAIN pending' : k \in DOMAIN pending /\ pending'[k] = pending[k]
           /\ reader' = "emit" => UNCHANGED <<reader, hand>>
           /\ run' = "register" => UNCHANGED <<run, current>>
  <2>1. \A d : /\ Answered(d)' <=> Answered(d)
               /\ Held(d)' => Held(d)
               /\ Known(d)' => Known(d)
    BY <1>6 DEF Answered, Held, Registered, Known
  <2> QED BY <1>6, <2>1 DEF OnceInv
<1>7. CASE CleanUp
  BY <1>6, <1>7 DEF CleanUp, Without, channelVars, runVars, readerVars, historyVars
<1>8. CASE Pull \/ Cancel \/ Close \/ Die \/ EndCleaner
  BY <1>6, <1>8 DEF Pull, Cancel, Close, Die, EndCleaner, channelVars, runVars, readerVars,
     historyVars
<1>9. CASE Start \/ FailStart \/ WriteProbe \/ FailWrite \/ EndRun \/ Return
  BY <1>6, <1>9 DEF Start, FailStart, WriteProbe, FailWrite, AfterFailedWrite, EndRun, Return,
     channelVars, readerVars, historyVars
<1>10. CASE ReadLine \/ EndReader \/ Unmatched \/ GiveUp \/ Panic \/ UNCHANGED vars
  BY <1>6, <1>10 DEF ReadLine, EndReader, Unmatched, GiveUp, Panic, channelVars, runVars,
     readerVars, historyVars, vars
<1> QED
  BY <1>1, <1>2, <1>3, <1>4, <1>5, <1>7, <1>8, <1>9, <1>10
  DEF Next, Step, RunStep, ReaderStep, Ended

\* A directive is never in two places at once, and what is in one was given.
LEMMA OnceAlways == Spec => [](MatchInv /\ OnceInv)
<1>1. Init => MatchInv
  BY DEF Init, MatchInv
<1> QED BY <1>1, InitOnceInv, MatchStep, OnceStep, TypeInvAlways, PTL DEF Spec

\* A function on 1..n is a sequence.
LEMMA FunctionIsSeq ==
  ASSUME NEW S, NEW n \in Nat, NEW f \in [1..n -> S] PROVE f \in Seq(S) /\ Len(f) = n
OBVIOUS

\* What Append makes of a sequence, as a function.
LEMMA AppendIsFunction ==
  ASSUME NEW S, NEW s \in Seq(S), NEW x \in S
  PROVE  Append(s, x) = [i \in 1..(Len(s) + 1) |-> IF i = Len(s) + 1 THEN x ELSE s[i]]
<1> DEFINE t == Append(s, x)
<1>1. t \in Seq(S) /\ Len(t) = Len(s) + 1
  OBVIOUS
<1>2. \A i \in 1..(Len(s) + 1) : t[i] = IF i = Len(s) + 1 THEN x ELSE s[i]
  OBVIOUS
<1>3. t = [i \in 1..Len(t) |-> t[i]]
  <2> HIDE DEF t
  <2> QED BY <1>1
<1> QED BY <1>1, <1>2, <1>3

\* Every step is a step of Prober, or one that Prober does not see.
LEMMA ProberStep ==
  TypeInv /\ OnceInv /\ [Next]_vars => [Contract!Next]_(Contract!vars)
<1> SUFFICES ASSUME TypeInv, OnceInv, [Next]_vars
             PROVE  [Contract!Next]_(Contract!vars)
  OBVIOUS
<1> DEFINE answers == [i \in DOMAIN emitted |-> emitted[i].dir]
<1>1. CASE \E d \in Directives : Push(d)
  <2> PICK d \in Directives : Push(d)
    BY <1>1
  <2>1. Contract!Give(d)
    BY DEF Push, Contract!Give
  <2> QED BY <2>1 DEF Contract!Next
<1>2. CASE Emit
  <2>1. /\ hand \in Entries /\ hand.dir \in given /\ ~ Answered(hand.dir)
        /\ emitted' = Append(emitted, hand) /\ emitted \in Seq(Entries)
        /\ given' = given
    BY <1>2 DEF Emit, TypeInv, TypeOK, OnceInv
  <2> PICK d \in Directives : d = hand.dir
    BY <2>1 DEF Entries
  <2>2. answers' = Append(answers, d)
    <3>1. /\ DOMAIN emitted = 1..Len(emitted) /\ Len(emitted) \in Nat
          /\ DOMAIN emitted' = 1..(Len(emitted) + 1)
          /\ \A i \in 1..(Len(emitted) + 1) :
               emitted'[i] = IF i = Len(emitted) + 1 THEN hand ELSE emitted[i]
      BY <2>1
    <3>2. answers \in [1..Len(emitted) -> Directives]
      <4>1. \A i \in 1..Len(emitted) : emitted[i] \in Entries
        BY <2>1
      <4>2. \A i \in 1..Len(emitted) : emitted[i].dir \in Directives
        BY <4>1 DEF Entries
      <4> QED BY <3>1, <4>2
    <3>3. answers \in Seq(Directives) /\ Len(answers) = Len(emitted)
      <4> HIDE DEF answers
      <4> QED BY <3>1, <3>2, FunctionIsSeq
    <3>4. Append(answers, d) =
            [i \in 1..(Len(emitted) + 1) |-> IF i = Len(emitted) + 1 THEN d ELSE answers[i]]
      <4> HIDE DEF answers
      <4> QED BY <3>3, AppendIsFunction
    <3>5. answers' = [i \in 1..(Len(emitted) + 1) |-> emitted'[i].dir]
      BY <3>1
    <3>6. \A i \in 1..(Len(emitted) + 1) :
            emitted'[i].dir = IF i = Len(emitted) + 1 THEN d ELSE answers[i]
      BY <3>1
    <3> QED BY <3>4, <3>5, <3>6
  <2>3. d \notin Contract!Range(answers)
    BY <2>1 DEF Contract!Range, Answered
  <2>4. Contract!Emit(d)
    BY <2>1, <2>2, <2>3 DEF Contract!Emit
  <2> QED BY <2>4 DEF Contract!Next
<1>3. CASE UNCHANGED <<given, emitted>>
  BY <1>3 DEF Contract!vars
<1>4. CASE Pull \/ Cancel \/ Close \/ Die \/ EndCleaner \/ CleanUp \/ UNCHANGED vars
  BY <1>3, <1>4 DEF Pull, Cancel, Close, Die, EndCleaner, CleanUp, historyVars, vars
<1>5. CASE RunStep \/ WriteProbe
  BY <1>3, <1>5 DEF RunStep, Start, FailStart, TakeDirective, Register, WriteProbe, FailWrite,
     EndRun, Return, historyVars
<1>6. CASE ReadLine \/ EndReader \/ Unmatched \/ HandleResponse \/ GiveUp \/ Panic
  BY <1>3, <1>6 DEF ReadLine, EndReader, Unmatched, HandleResponse, GiveUp, Panic, historyVars
<1> QED
  BY <1>1, <1>2, <1>4, <1>5, <1>6 DEF Next, Step, ReaderStep, Ended

\* The prober that drives caracal keeps what components.Prober says of its channels:
\* repeated replies, entries that expire and entries that are overwritten never make it
\* answer a directive twice.  (Close is the subject of the last theorem.)
THEOREM CaracalProberIsAProber == Spec => ImplementsProber
<1>1. Init => Contract!Init
  BY DEF Init, Contract!Init
<1> QED
  BY <1>1, ProberStep, TypeInvAlways, OnceAlways, PTL
  DEF Spec, ImplementsProber, Contract!Spec

-----------------------------------------------------------------------------
(* What comes late.  Once closeCh is closed the reader takes no further reply: *)
(* what it may still send is the one it has in hand.                           *)

\* The reader has a reply or an element in hand after Close was called.
MayBeLate == closing > 0 /\ reader \in {"handle", "emit"} /\ ~ panicked

LateInv ==
  /\ closing = 0 => late = 0
  /\ late + (IF MayBeLate THEN 1 ELSE 0) <= 1

\* A call of Close may find the reader with something in hand; a send lets go of it; no
\* step gives it something else.
LEMMA LateStep == TypeInv /\ LateInv /\ [Next]_vars => LateInv'
<1> SUFFICES ASSUME TypeInv, LateInv, [Next]_vars PROVE LateInv'
  OBVIOUS
<1> USE DEF LateInv, MayBeLate, readerVars, statusVars, historyVars
<1>0. closing \in 0..3 /\ late \in Nat /\ (run = "new" => reader = "none")
  BY DEF TypeInv, TypeOK
<1>1. CASE Emit /\ ~ panicked BY <1>0, <1>1 DEF Emit, LateNow
<1>2. CASE Panic /\ ~ panicked BY <1>0, <1>2 DEF Panic, LateNow, OutClosed
<1>3. CASE ReadLine BY <1>0, <1>3 DEF ReadLine, Ending
<1>4. CASE HandleResponse
  <2>1. reader = "handle" /\ reader' \in {"emit", "scan"} /\ UNCHANGED <<closing, late, panicked>>
    BY <1>4 DEF HandleResponse
  <2> QED BY <1>0, <2>1
<1>5. CASE EndReader \/ Unmatched \/ GiveUp
  BY <1>0, <1>5 DEF EndReader, Unmatched, GiveUp
<1>6. CASE Close BY <1>0, <1>6 DEF Close
<1>7. CASE (\E d \in Directives : Push(d)) \/ Pull \/ Cancel \/ Die \/ CleanUp \/ EndCleaner
  BY <1>0, <1>7 DEF Push, Pull, Cancel, Die, CleanUp, EndCleaner
<1>8. CASE RunStep \/ WriteProbe \/ UNCHANGED vars
  BY <1>0, <1>8 DEF RunStep, Start, FailStart, TakeDirective, Register, WriteProbe, FailWrite,
     EndRun, Return, vars
<1> QED
  BY <1>1, <1>2, <1>3, <1>4, <1>5, <1>6, <1>7, <1>8 DEF Next, Step, ReaderStep, Ended

\* At most one value is emitted after Close is called, whatever the directives, the
\* replies and the capacities: the contract of Close (components.go:124) is missed by one.
THEOREM OneAnswerIsLate == Spec => []OneLateAnswer
<1>1. Init => LateInv
  BY DEF Init, LateInv, MayBeLate
<1>2. TypeInv /\ LateInv => OneLateAnswer
  BY DEF TypeInv, TypeOK, LateInv, OneLateAnswer
<1> QED BY <1>1, <1>2, LateStep, TypeInvAlways, PTL DEF Spec
=============================================================================
