------------------------- MODULE GeneratorStream_proofs -------------------------
(* Proofs about GeneratorStream, for any set of agents, any capacity of the  *)
(* channel and any bounds.                                                   *)
EXTENDS GeneratorStream, FiniteSetTheorems, TLAPS

USE RateAssumption, BufferAssumption, BoundsAssumption

-----------------------------------------------------------------------------
(* Type correctness.                                                       *)

\* Nothing is listed, queued, held or sent at the start.
LEMMA InitTypeOK == Init => TypeOK
<1> SUFFICES ASSUME Init PROVE TypeOK
  OBVIOUS
<1>1. outCh \in Seq(Directives) /\ Len(outCh) <= Buffer
  BY DEF Init
<1>2. made \in IF producer = "send" THEN Directives ELSE {None}
  BY DEF Init
<1>3. next \in IF stream = "send" THEN Directives ELSE {None}
  BY DEF Init
<1>4. stale \in [Agents -> Nat]
  BY DEF Init
<1>5. sent \in Seq(1..MaxDirectives)
  BY DEF Init
<1>6. closing \in 0..2 /\ produced \in 0..MaxDirectives /\ streams \in 0..MaxStreams
  BY DEF Init
<1>7. up \in BOOLEAN /\ cancelled \in BOOLEAN /\ left \in BOOLEAN /\ panicked \in BOOLEAN
  BY DEF Init
<1> QED BY <1>1, <1>2, <1>3, <1>4, <1>5, <1>6, <1>7 DEF Init, TypeOK

\* One step per operation; what an operation leaves alone keeps its type.
LEMMA NextTypeOK == TypeOK /\ [Next]_vars => TypeOK'
<1> SUFFICES ASSUME TypeOK, [Next]_vars PROVE TypeOK'
  OBVIOUS
<1> USE DEF TypeOK, None, Directives, producerVars, loopVars, streamVars, endVars, historyVars
<1>1. CASE OpenStream
  <2>1. list' \subseteq Agents /\ stale' \in [Agents -> Nat]
    BY <1>1 DEF OpenStream, SetStatus
  <2>2. streams' \in 0..MaxStreams
    BY <1>1 DEF OpenStream
  <2>3. next' \in IF stream' = "send" THEN Directives ELSE {None}
    BY <1>1 DEF OpenStream
  <2> QED BY <1>1, <2>1, <2>2, <2>3 DEF OpenStream
<1>2. CASE Update BY <1>2 DEF Update, SetStatus
<1>3. CASE Break BY <1>3 DEF Break
<1>4. CASE Cancel BY <1>4 DEF Cancel
<1>5. CASE LeaveCluster BY <1>5 DEF LeaveCluster
<1>6. CASE Close BY <1>6 DEF Close
<1>7. CASE EndLoop BY <1>7 DEF EndLoop
<1>8. CASE CheckStatus BY <1>8 DEF CheckStatus
<1>9. CASE TakeDirective
  <2> HIDE DEF Directives
  <2>1. outCh' \in Seq(Directives) /\ Len(outCh') <= Buffer /\ Head(outCh) \in Directives
    BY <1>9 DEF TakeDirective
  <2>2. CASE list = {}
    BY <1>9, <2>1, <2>2 DEF TakeDirective
  <2>3. CASE list # {}
    BY <1>9, <2>1, <2>3 DEF TakeDirective
  <2> QED BY <2>2, <2>3
<1>10. CASE SendDirective BY <1>10 DEF SendDirective, AfterSend
<1>11. CASE FailSend BY <1>11 DEF FailSend
<1>12. CASE EndStream BY <1>12 DEF EndStream, MayEnd
<1>13. CASE Generate BY <1>13 DEF Generate, Targets
<1>14. CASE Produce BY <1>14 DEF Produce, HasSpace
<1>15. CASE PanicSend BY <1>15 DEF PanicSend
<1>16. CASE EndProducer BY <1>16 DEF EndProducer
<1>17. CASE UNCHANGED vars BY <1>17 DEF vars
<1> QED
  BY <1>1, <1>2, <1>3, <1>4, <1>5, <1>6, <1>7, <1>8, <1>9, <1>10, <1>11, <1>12, <1>13, <1>14,
     <1>15, <1>16, <1>17 DEF Next, Streaming, Producing, Ended

\* The shape of the state never changes, however streams, updates and the end of the
\* program interleave.
THEOREM TypeCorrect == Spec => []TypeOK
BY InitTypeOK, NextTypeOK, PTL DEF Spec

-----------------------------------------------------------------------------
(* Stale directives.  The places under way are counted from the stream: the *)
(* hand of streamDirectives, the channel, the hand of the producer.         *)

Held == IF stream = "send" THEN 1 ELSE 0

\* The directives for a that are under way are in the first d places.
Within(a, d) ==
  /\ stream = "send" /\ next.agent = a => 1 <= d
  /\ \A i \in 1..Len(outCh) : outCh[i].agent = a => Held + i <= d
  /\ producer = "send" /\ made.agent = a => Held + Len(outCh) + 1 <= d

\* What was sent for a departed agent, and what still may be.
StaleInv ==
  \A a \in Agents :
    IF a \in list THEN stale[a] = 0
    ELSE \E d \in Nat : stale[a] + d <= Buffer + 2 /\ Within(a, d)

\* All places together are the channel and the two hands.
LEMMA AllWithin == ASSUME TypeOK, NEW a \in Agents PROVE Within(a, Buffer + 2)
BY DEF TypeOK, Within, Held

\* A step keeps what is sent and owed for an agent if it leaves the list alone, counts
\* nothing for the agent and moves nothing of its away from the stream.
LEMMA SameWithin ==
  ASSUME TypeOK, StaleInv, NEW a \in Agents,
         a \notin list => stale'[a] = stale[a],
         \A d \in Nat : Within(a, d) => Within(a, d)',
         list' = list, a \in list => stale'[a] = 0
  PROVE  IF a \in list' THEN stale'[a] = 0
         ELSE \E d \in Nat : stale'[a] + d <= Buffer + 2 /\ Within(a, d)'
BY DEF StaleInv

\* One step per operation: an update starts the count, a Send takes the first place,
\* and nothing new is generated for an agent that is not listed.
LEMMA StaleStep == TypeOK /\ StaleInv /\ [Next]_vars => StaleInv'
<1> SUFFICES ASSUME TypeOK, StaleInv, [Next]_vars, NEW a \in Agents
             PROVE  IF a \in list' THEN stale'[a] = 0
                    ELSE \E d \in Nat : stale'[a] + d <= Buffer + 2 /\ Within(a, d)'
  BY DEF StaleInv
<1> TypeOK' BY NextTypeOK
<1>1. ASSUME NEW l \in SUBSET Agents, SetStatus(l), \A d \in Nat : Within(a, d) => Within(a, d)'
      PROVE  IF a \in list' THEN stale'[a] = 0
             ELSE \E d \in Nat : stale'[a] + d <= Buffer + 2 /\ Within(a, d)'
  <2>1. CASE a \in l
    BY <1>1, <2>1 DEF SetStatus
  <2>2. CASE a \notin l /\ a \in list
    <3>1. a \notin list' /\ stale'[a] = 0
      BY <1>1, <2>2 DEF SetStatus, StaleInv
    <3>2. Within(a, Buffer + 2) /\ Buffer + 2 \in Nat
      BY AllWithin, BufferAssumption
    <3> QED BY <1>1, <3>1, <3>2
  <2>3. CASE a \notin l /\ a \notin list
    <3>1. a \notin list' /\ stale'[a] = stale[a]
      BY <1>1, <2>3 DEF SetStatus
    <3> QED BY <1>1, <2>3, <3>1 DEF StaleInv
  <2> QED BY <2>1, <2>2, <2>3
<1>2. CASE OpenStream
  <2>1. \A d \in Nat : Within(a, d) => Within(a, d)'
    BY <1>2 DEF OpenStream, Within, Held, TypeOK, producerVars
  <2> QED BY <1>1, <1>2, <2>1 DEF OpenStream
<1>3. CASE Update
  <2>1. \A d \in Nat : Within(a, d) => Within(a, d)'
    BY <1>3 DEF Update, Within, Held, producerVars, streamVars
  <2> QED BY <1>1, <1>3, <2>1 DEF Update
<1>4. CASE SendDirective
  <2>1. next \in Directives /\ stream' = "check" /\ stale \in [Agents -> Nat]
    BY <1>4 DEF SendDirective, AfterSend, TypeOK
  <2>2. list' = list /\ outCh' = outCh /\ producer' = producer /\ made' = made
    BY <1>4 DEF SendDirective, producerVars
  <2>3. CASE a \in list
    BY <1>4, <2>2, <2>3, <2>1 DEF SendDirective, StaleInv
  <2>4. CASE a \notin list /\ next.agent # a
    <3>1. stale'[a] = stale[a]
      BY <1>4, <2>1, <2>4 DEF SendDirective
    <3>2. \A d \in Nat : Within(a, d) => Within(a, d)'
      BY <1>4, <2>1, <2>2 DEF SendDirective, Within, Held, TypeOK
    <3> QED BY <2>2, <2>4, <3>1, <3>2, SameWithin
  <2>5. CASE a \notin list /\ next.agent = a
    <3>1. stale'[a] = stale[a] + 1
      BY <1>4, <2>1, <2>5 DEF SendDirective
    <3>2. PICK d \in Nat : stale[a] + d <= Buffer + 2 /\ Within(a, d)
      BY <2>5 DEF StaleInv
    <3>3. d - 1 \in Nat
      BY <1>4, <2>5, <3>2 DEF SendDirective, Within
    <3>4. Within(a, d - 1)'
      BY <1>4, <2>1, <2>2, <3>2, <3>3 DEF SendDirective, Within, Held, TypeOK
    <3>5. stale'[a] + (d - 1) <= Buffer + 2
      BY <2>1, <3>1, <3>2, BufferAssumption
    <3> QED BY <2>2, <2>5, <3>3, <3>4, <3>5
  <2> QED BY <2>3, <2>4, <2>5
<1>5. CASE /\ UNCHANGED <<list, stale>>
           /\ \A d \in Nat : a \notin list /\ Within(a, d) => Within(a, d)'
  BY <1>5 DEF StaleInv
<1>6. CASE TakeDirective
  <2>1. outCh \in Seq(Directives) /\ outCh # << >> /\ outCh' = Tail(outCh) /\ stream = "select"
    BY <1>6 DEF TakeDirective, TypeOK
  <2>2. /\ Len(outCh') = Len(outCh) - 1
        /\ \A i \in 1..Len(outCh') : i + 1 \in 1..Len(outCh) /\ outCh'[i] = outCh[i + 1]
        /\ 1 \in 1..Len(outCh) /\ Head(outCh) = outCh[1]
    BY <2>1
  <2>3. \A d \in Nat : Within(a, d) => Within(a, d)'
    <3>1. CASE list = {}
      BY <1>6, <2>1, <2>2, <3>1 DEF TakeDirective, Within, Held, producerVars, streamVars
    <3>2. CASE list # {}
      BY <1>6, <2>1, <2>2, <3>2 DEF TakeDirective, Within, Held, producerVars
    <3> QED BY <3>1, <3>2
  <2> QED BY <1>5, <1>6, <2>3 DEF TakeDirective, historyVars
<1>7. CASE Generate
  <2>1. a \notin list => made'.agent # a
    BY <1>7 DEF Generate, Targets
  <2>2. \A d \in Nat : a \notin list /\ Within(a, d) => Within(a, d)'
    BY <1>7, <2>1 DEF Generate, Within, Held, streamVars
  <2> QED BY <1>5, <1>7, <2>2 DEF Generate, historyVars
<1>8. CASE Produce
  <2>1. outCh \in Seq(Directives) /\ made \in Directives
    BY <1>8 DEF Produce, TypeOK
  <2>2. /\ Len(outCh') = Len(outCh) + 1
        /\ \A i \in 1..Len(outCh') :
             outCh'[i] = IF i = Len(outCh) + 1 THEN made ELSE outCh[i]
    BY <1>8, <2>1 DEF Produce
  <2>3. \A d \in Nat : Within(a, d) => Within(a, d)'
    BY <1>8, <2>1, <2>2 DEF Produce, Within, Held, streamVars
  <2> QED BY <1>5, <1>8, <2>3 DEF Produce, historyVars
<1>9. CASE FailSend
  <2>1. \A d \in Nat : Within(a, d) => Within(a, d)'
    BY <1>9 DEF FailSend, Within, Held, producerVars, TypeOK
  <2> QED BY <1>5, <1>9, <2>1 DEF FailSend
<1>10. CASE EndStream
  <2>1. \A d \in Nat : Within(a, d) => Within(a, d)'
    BY <1>10 DEF EndStream, MayEnd, Within, Held, producerVars
  <2> QED BY <1>5, <1>10, <2>1 DEF EndStream, historyVars
<1>11. CASE CheckStatus
  <2>1. \A d \in Nat : Within(a, d) => Within(a, d)'
    BY <1>11 DEF CheckStatus, Within, Held, producerVars
  <2> QED BY <1>5, <1>11, <2>1 DEF CheckStatus, historyVars
<1>12. CASE EndProducer
  <2>1. \A d \in Nat : Within(a, d) => Within(a, d)'
    BY <1>12 DEF EndProducer, Within, Held, streamVars
  <2> QED BY <1>5, <1>12, <2>1 DEF EndProducer, historyVars
<1>13. CASE UNCHANGED <<list, outCh, producer, made, stream, next, stale>>
  <2>1. \A d \in Nat : Within(a, d) => Within(a, d)'
    BY <1>13 DEF Within, Held
  <2> QED BY <1>5, <1>13, <2>1
<1>14. CASE Break \/ Cancel \/ LeaveCluster \/ Close \/ EndLoop \/ PanicSend \/ UNCHANGED vars
  BY <1>13, <1>14 DEF Break, Cancel, LeaveCluster, Close, EndLoop, PanicSend, vars, producerVars,
     loopVars, streamVars, endVars, historyVars
<1> QED
  BY <1>2, <1>3, <1>4, <1>6, <1>7, <1>8, <1>9, <1>10, <1>11, <1>12, <1>14
  DEF Next, Streaming, Producing, Ended

\* An agent that left the list is named by at most Buffer + 2 directives sent after
\* that, whatever the capacity and however often it comes and goes.
THEOREM StaleAlwaysBounded == Spec => []StaleBounded
<1>1. Init => StaleInv
  <2> SUFFICES ASSUME Init, NEW a \in Agents
               PROVE  stale[a] + 0 <= Buffer + 2 /\ Within(a, 0) /\ a \notin list
    BY DEF StaleInv
  <2> QED BY BufferAssumption DEF Init, Within, Held
<1>2. TypeOK /\ StaleInv => StaleBounded
  <2> SUFFICES ASSUME TypeOK, StaleInv, NEW a \in Agents PROVE stale[a] <= Buffer + 2
    BY DEF StaleBounded
  <2>1. stale[a] \in Nat /\ Buffer \in Nat
    BY BufferAssumption DEF TypeOK
  <2>2. CASE a \in list
    BY <2>1, <2>2 DEF StaleInv
  <2>3. CASE a \notin list
    <3> PICK d \in Nat : stale[a] + d <= Buffer + 2
      BY <2>3 DEF StaleInv
    <3> QED BY <2>1
  <2> QED BY <2>2, <2>3
<1> QED BY <1>1, <1>2, StaleStep, TypeCorrect, PTL DEF Spec

-----------------------------------------------------------------------------
(* The order of the directives.  While the process lives, the numbers up to  *)
(* some b have passed the channel, the channel holds those that follow, and  *)
(* the producer holds the last.                                              *)

Passed(b) ==
  /\ \A j \in DOMAIN outCh : outCh[j].n = b + j
  /\ b + Len(outCh) <= produced
  /\ producer = "generate" => produced = b + Len(outCh)
  /\ producer = "send" => produced = b + Len(outCh) + 1 /\ made.n = produced
  /\ stream = "send" => next.n = b
  /\ \A i \in DOMAIN sent : sent[i] <= b /\ (stream = "send" => sent[i] < b)
  /\ \A n \in 1..b : n \in Range(sent) \/ n \in lost \/ (stream = "send" /\ n = b)

InOrder ==
  /\ \A i, j \in DOMAIN sent : i < j => sent[i] < sent[j]
  /\ \A i \in DOMAIN sent : \A n \in 1..sent[i] : n \in Range(sent) \/ n \in lost

\* Each stream loses one directive, at its end.
OnePerStream ==
  /\ IsFiniteSet(lost)
  /\ Cardinality(lost) <= streams
  /\ loop = "streaming" => Cardinality(lost) < streams

OrderInv == InOrder /\ (~ panicked => \E b \in Nat : Passed(b))

\* One step per move along the line.  The fresh Send is the greatest so far, and what
\* precedes it was sent or lost; a failed one is lost.
LEMMA OrderStep == TypeOK /\ OrderInv /\ [Next]_vars => OrderInv'
<1> SUFFICES ASSUME TypeOK, OrderInv, [Next]_vars PROVE OrderInv'
  OBVIOUS
<1>0. /\ outCh \in Seq(Directives) /\ sent \in Seq(1..MaxDirectives)
      /\ produced \in 0..MaxDirectives
      /\ \A x \in Directives : x.n \in Nat \ {0}
  BY DEF TypeOK, Directives
<1>1. CASE UNCHANGED vars
  BY <1>1 DEF vars, OrderInv, InOrder, Passed, producerVars, streamVars, endVars, historyVars
<1>2. CASE panicked' /\ UNCHANGED <<sent, lost>>
  BY <1>2 DEF OrderInv, InOrder
<1>3. ASSUME ~ panicked, NEW b \in Nat, Passed(b), Next PROVE OrderInv'
  <2>1. CASE /\ UNCHANGED <<outCh, produced, sent, lost>>
             /\ (producer' # "returned" => UNCHANGED <<producer, made>>)
             /\ ((stream # "send" /\ stream' # "send") \/ UNCHANGED <<stream, next>>)
    <3>1. Passed(b)'
      BY <1>3, <2>1 DEF Passed
    <3> QED BY <2>1, <3>1 DEF OrderInv, InOrder
  <2>2. CASE TakeDirective
    <3>1. CASE list = {}
      BY <1>2, <2>2, <3>1 DEF TakeDirective, historyVars
    <3>2. CASE list # {}
      <4>1. /\ outCh # << >> /\ outCh' = Tail(outCh) /\ next' = Head(outCh)
            /\ stream = "select" /\ stream' = "send"
            /\ UNCHANGED <<producer, made, produced, sent, lost>>
        BY <2>2, <3>2 DEF TakeDirective, producerVars, historyVars
      <4>2. /\ Len(outCh') = Len(outCh) - 1 /\ Len(outCh) \in Nat
            /\ \A j \in DOMAIN outCh' : j \in Nat /\ j + 1 \in DOMAIN outCh /\ outCh'[j] = outCh[j + 1]
            /\ 1 \in DOMAIN outCh /\ Head(outCh) = outCh[1]
        BY <1>0, <4>1
      <4>3. next'.n = b + 1
        BY <1>3, <4>1, <4>2 DEF Passed
      <4>4. \A i \in DOMAIN sent : sent[i] \in Nat
        BY <1>0
      <4> PICK c \in Nat : c = b + 1
        OBVIOUS
      <4>5. \A j \in DOMAIN outCh' : outCh'[j].n = c + j
        BY <1>3, <4>2 DEF Passed
      <4>6. c + Len(outCh') = b + Len(outCh)
        BY <4>2
      <4>7. \A i \in DOMAIN sent : sent[i] < c /\ sent[i] <= c
        BY <1>3, <4>4 DEF Passed
      <4>8. \A n \in 1..c : n \in Range(sent) \/ n \in lost \/ n = c
        BY <1>3, <4>1 DEF Passed
      <4>9. Passed(c)'
        <5>1. c + Len(outCh') <= produced'
          BY <1>0, <1>3, <4>1, <4>6 DEF Passed
        <5>2. /\ producer' = "generate" => produced' = c + Len(outCh')
              /\ producer' = "send" => produced' = c + Len(outCh') + 1 /\ made'.n = produced'
          BY <1>0, <1>3, <4>1, <4>6 DEF Passed
        <5> QED BY <4>1, <4>3, <4>5, <4>7, <4>8, <5>1, <5>2 DEF Passed
      <4> QED BY <4>1, <4>9 DEF OrderInv, InOrder
    <3> QED BY <3>1, <3>2
  <2>3. CASE SendDirective
    <3>1. /\ sent' = Append(sent, next.n) /\ stream = "send" /\ stream' = "check"
          /\ UNCHANGED <<outCh, producer, made, produced, lost>>
          /\ next.n = b /\ next.n \in Nat \ {0}
      BY <1>0, <1>3, <2>3 DEF SendDirective, AfterSend, producerVars, Passed, TypeOK
    <3>2. /\ Len(sent') = Len(sent) + 1 /\ Len(sent) \in Nat
          /\ \A i \in 1..Len(sent') : sent'[i] = IF i = Len(sent) + 1 THEN b ELSE sent[i]
          /\ DOMAIN sent' = 1..Len(sent') /\ DOMAIN sent = 1..Len(sent)
          /\ \A i \in DOMAIN sent : sent[i] \in Nat
      BY <1>0, <3>1
    <3>3. Range(sent') = Range(sent) \cup {b}
      BY <3>2 DEF Range
    <3>4. \A n \in 1..b : n \in Range(sent') \/ n \in lost
      BY <1>3, <3>1, <3>3 DEF Passed
    <3>5. \A i \in DOMAIN sent' : sent'[i] <= b
      BY <1>3, <3>2 DEF Passed
    <3>6. Passed(b)'
      BY <1>3, <3>1, <3>4, <3>5 DEF Passed
    <3>7. \A i, j \in DOMAIN sent' : i < j => sent'[i] < sent'[j]
      BY <1>3, <3>1, <3>2 DEF Passed, OrderInv, InOrder
    <3>8. \A i \in DOMAIN sent' : 1..sent'[i] \subseteq 1..b
      BY <3>2, <3>5
    <3>9. \A i \in DOMAIN sent' : \A n \in 1..sent'[i] : n \in Range(sent') \/ n \in lost'
      BY <3>1, <3>4, <3>8
    <3> QED BY <3>6, <3>7, <3>9 DEF OrderInv, InOrder
  <2>4. CASE FailSend
    <3>1. /\ lost' = lost \cup {b} /\ stream = "send" /\ stream' = "none"
          /\ UNCHANGED <<outCh, producer, made, produced, sent>>
      BY <1>3, <2>4 DEF FailSend, producerVars, Passed
    <3>2. Passed(b)'
      BY <1>3, <3>1 DEF Passed
    <3> QED BY <3>1, <3>2 DEF OrderInv, InOrder
  <2>5. CASE Generate
    <3>1. /\ producer = "generate" /\ producer' = "send" /\ produced' = produced + 1
          /\ made'.n = produced + 1
          /\ UNCHANGED <<outCh, stream, next, sent, lost>>
      BY <2>5 DEF Generate, streamVars, historyVars
    <3>2. Passed(b)'
      BY <1>0, <1>3, <3>1 DEF Passed
    <3> QED BY <3>1, <3>2 DEF OrderInv, InOrder
  <2>6. CASE Produce
    <3>1. /\ producer = "send" /\ producer' = "generate" /\ outCh' = Append(outCh, made)
          /\ UNCHANGED <<produced, stream, next, sent, lost>> /\ made \in Directives
      BY <2>6 DEF Produce, streamVars, historyVars, TypeOK
    <3>2. /\ Len(outCh') = Len(outCh) + 1 /\ Len(outCh) \in Nat
          /\ \A j \in DOMAIN outCh' : outCh'[j] = IF j = Len(outCh) + 1 THEN made ELSE outCh[j]
          /\ DOMAIN outCh' = 1..Len(outCh') /\ DOMAIN outCh = 1..Len(outCh)
      BY <1>0, <3>1
    <3>3. \A j \in DOMAIN outCh' : outCh'[j].n = b + j
      BY <1>3, <3>1, <3>2 DEF Passed
    <3>4. Passed(b)'
      BY <1>0, <1>3, <3>1, <3>2, <3>3 DEF Passed
    <3> QED BY <3>1, <3>4 DEF OrderInv, InOrder
  <2>7. CASE EndProducer
    BY <2>1, <2>7 DEF EndProducer, streamVars, historyVars
  <2>8. CASE OpenStream \/ Update \/ Break \/ Cancel \/ LeaveCluster \/ Close \/ EndLoop
    BY <2>1, <2>8 DEF OpenStream, Update, Break, Cancel, LeaveCluster, Close, EndLoop, SetStatus,
       producerVars, streamVars, historyVars, TypeOK
  <2>9. CASE CheckStatus \/ EndStream
    BY <2>1, <2>9 DEF CheckStatus, EndStream, MayEnd, producerVars, historyVars
  <2>10. CASE PanicSend
    BY <1>2, <2>10 DEF PanicSend, historyVars
  <2> QED
    BY <1>1, <1>3, <2>2, <2>3, <2>4, <2>5, <2>6, <2>7, <2>8, <2>9, <2>10
    DEF Next, Streaming, Producing, Ended
<1>4. CASE panicked /\ Next
  BY <1>1, <1>4 DEF Next, Ended
<1> QED BY <1>1, <1>3, <1>4 DEF OrderInv

\* Only a failed Send loses a directive, and it ends its stream.
LEMMA LossStep == TypeOK /\ OnePerStream /\ [Next]_vars => OnePerStream'
<1> SUFFICES ASSUME TypeOK, OnePerStream, [Next]_vars PROVE OnePerStream'
  OBVIOUS
<1>0. streams \in Nat /\ Cardinality(lost) \in Nat
  BY FS_CardinalityType DEF OnePerStream, TypeOK
<1>1. CASE OpenStream
  BY <1>0, <1>1 DEF OpenStream, OnePerStream
<1>2. CASE FailSend
  <2>1. loop = "streaming" /\ loop' = "retry" /\ streams' = streams
    BY <1>2 DEF FailSend, TypeOK
  <2>2. lost' = lost \cup {next.n}
    BY <1>2 DEF FailSend
  <2>3. IsFiniteSet(lost') /\ Cardinality(lost') <= Cardinality(lost) + 1
    BY <1>0, <2>2, FS_AddElement DEF OnePerStream
  <2>4. Cardinality(lost') \in Nat
    BY <2>3, FS_CardinalityType
  <2> QED BY <1>0, <2>1, <2>3, <2>4 DEF OnePerStream
<1>3. CASE UNCHANGED <<lost, streams>> /\ (loop' = "streaming" => loop = "streaming")
  BY <1>3 DEF OnePerStream
<1>4. CASE Update \/ Break \/ EndLoop \/ Cancel \/ LeaveCluster \/ Close \/ CheckStatus
  BY <1>3, <1>4 DEF Update, Break, EndLoop, Cancel, LeaveCluster, Close, CheckStatus, loopVars,
     historyVars
<1>5. CASE TakeDirective \/ SendDirective \/ EndStream \/ Producing \/ UNCHANGED vars
  BY <1>3, <1>5 DEF TakeDirective, SendDirective, EndStream, Producing, Generate, Produce,
     PanicSend, EndProducer, loopVars, historyVars, vars
<1> QED BY <1>1, <1>2, <1>4, <1>5 DEF Next, Streaming, Ended

\* Over all streams, directives are sent in the order in which they were generated, none
\* twice, and none is missing but one per stream that broke.
THEOREM AlwaysSentInOrder == Spec => []SentInOrder
<1>1. Init => OrderInv
  <2> SUFFICES ASSUME Init PROVE OrderInv
    OBVIOUS
  <2>1. Passed(0)
    BY DEF Init, Passed
  <2> QED BY <2>1 DEF Init, OrderInv, InOrder
<1>2. Init => OnePerStream
  BY FS_EmptySet DEF Init, OnePerStream
<1>3. OrderInv /\ OnePerStream => SentInOrder
  BY DEF OrderInv, InOrder, OnePerStream, SentInOrder
<1> QED BY <1>1, <1>2, <1>3, OrderStep, LossStep, TypeCorrect, PTL DEF Spec
=============================================================================
