--------------------------- MODULE AgentStream_proofs ---------------------------
(* Proofs about AgentStream, for any capacities, any rate cap and any bounds: *)
(* the type invariant, the order of the answers, and that the mock prober     *)
(* answers only what it was given, once.                                      *)
EXTENDS AgentStream, TLAPS

USE BufferAssumption, RateAssumption, BoundsAssumption

-----------------------------------------------------------------------------
(* Type correctness.  A new stream takes over the hands of the old one: they *)
(* are empty because the loop waits for both goroutines.                     *)

\* The goroutines of a stream run only while the loop waits for them.
Waits ==
  loop # "streaming" => recv \in {"none", "returned"} /\ send \in {"none", "returned"}

TypeInv == TypeOK /\ Waits

\* Nothing is queued, held or sent at the start.
LEMMA InitTypeInv == Init => TypeInv
<1> SUFFICES ASSUME Init PROVE TypeInv
  OBVIOUS
<1>1. inCh \in Seq(Directives) /\ outCh \in Seq(Directives)
  BY DEF Init
<1>2. emitted \in Seq(Directives) /\ sent \in Seq(Directives)
  BY DEF Init
<1>3. Len(inCh) <= Buffer /\ Len(outCh) <= Buffer
  BY DEF Init
<1>4. /\ probing \in IF prober = "work" THEN Directives ELSE {None}
      /\ taken \in IF recv = "push" THEN Directives ELSE {None}
      /\ answer \in IF send = "send" THEN Directives ELSE {None}
  BY DEF Init
<1>5. closing \in 0..2 /\ streams \in 0..MaxStreams /\ received \in 0..MaxDirectives
  BY DEF Init
<1>6. up \in BOOLEAN /\ failed \in BOOLEAN /\ cancelled \in BOOLEAN /\ panicked \in BOOLEAN
  BY DEF Init
<1> QED BY <1>1, <1>2, <1>3, <1>4, <1>5, <1>6 DEF Init, TypeInv, TypeOK, Waits

\* One step per operation; what an operation leaves alone keeps its type.
LEMMA NextTypeInv == TypeInv /\ [Next]_vars => TypeInv'
<1> SUFFICES ASSUME TypeInv, [Next]_vars PROVE TypeInv'
  OBVIOUS
<1> USE DEF TypeInv, TypeOK, Waits, channelVars, proberVars, loopVars, streamVars, statusVars,
            historyVars
<1>1. CASE OpenStream
  <2>1. taken' = None /\ answer' = None
    BY <1>1 DEF OpenStream
  <2>2. streams' \in 0..MaxStreams
    BY <1>1 DEF OpenStream
  <2> QED BY <1>1, <2>1, <2>2 DEF OpenStream
<1>2. CASE Break BY <1>2 DEF Break
<1>3. CASE EndStream BY <1>3 DEF EndStream
<1>4. CASE EndLoop BY <1>4 DEF EndLoop
<1>5. CASE Cancel BY <1>5 DEF Cancel
<1>6. CASE Recv BY <1>6 DEF Recv, Directives
<1>7. CASE Push BY <1>7 DEF Push, HasSpace
<1>8. CASE FailRecv BY <1>8 DEF FailRecv
<1>9. CASE AbandonPush BY <1>9 DEF AbandonPush
<1>10. CASE CloseProber BY <1>10 DEF CloseProber, OutClosed
<1>11. CASE TakeElement
  <2>1. outCh' \in Seq(Directives) /\ Len(outCh') <= Buffer /\ Head(outCh) \in Directives
    BY <1>11 DEF TakeElement
  <2> QED BY <1>11, <2>1 DEF TakeElement
<1>12. CASE SendElement BY <1>12 DEF SendElement
<1>13. CASE FailSend BY <1>13 DEF FailSend, AfterFailedSend
<1>14. CASE EndSend BY <1>14 DEF EndSend
<1>15. CASE TakeDirective
  <2>1. inCh' \in Seq(Directives) /\ Len(inCh') <= Buffer /\ Head(inCh) \in Directives
    BY <1>15 DEF TakeDirective, AfterTake
  <2> QED BY <1>15, <2>1 DEF TakeDirective
<1>16. CASE Emit BY <1>16 DEF Emit, HasSpace
<1>17. CASE PanicSend BY <1>17 DEF PanicSend
<1>18. CASE EndProber BY <1>18 DEF EndProber
<1>19. CASE UNCHANGED vars BY <1>19 DEF vars
<1> QED
  BY <1>1, <1>2, <1>3, <1>4, <1>5, <1>6, <1>7, <1>8, <1>9, <1>10, <1>11, <1>12, <1>13, <1>14,
     <1>15, <1>16, <1>17, <1>18, <1>19
  DEF Next, Loop, Receiver, Sender, Probing, Ended

\* The same as an invariant of the specification.
LEMMA TypeInvAlways == Spec => []TypeInv
BY InitTypeInv, NextTypeInv, PTL DEF Spec

\* The shape of the state never changes, however many streams follow one another and
\* however each of them ends.
THEOREM TypeCorrect == Spec => []TypeOK
BY TypeInvAlways, PTL DEF TypeInv

-----------------------------------------------------------------------------
(* The order of the answers.  A directive moves along a line: the hand of the *)
(* receiver, inCh, the prober, outCh, the hand of the sender, a stream.  It    *)
(* may leave the line but never overtakes: marks can be put between the       *)
(* places so that every place holds the numbers between two of them.          *)

Between(ch, low, high) == \A i \in DOMAIN ch : low < ch[i] /\ ch[i] <= high
Rising(ch) == \A i, j \in DOMAIN ch : i < j => ch[i] < ch[j]

Marks(a, b, c, d, e) ==
  /\ 0 <= a /\ a <= b /\ b <= c /\ c <= d /\ d <= e /\ e <= received
  /\ Between(sent, 0, a)
  /\ send = "send" => a < answer /\ answer <= b
  /\ Between(outCh, b, c) /\ Between(emitted, 0, c)
  /\ prober = "work" => c < probing /\ probing <= d
  /\ Between(inCh, d, e)
  /\ recv = "push" => e < taken /\ taken <= received

Orderly == \E a, b, c, d, e \in Nat : Marks(a, b, c, d, e)

OrderInv == Rising(sent) /\ Rising(outCh) /\ Rising(inCh) /\ Orderly

\* Appending puts one number after those that are there.
LEMMA AppendShape ==
  ASSUME NEW ch \in Seq(Directives), NEW d \in Directives
  PROVE  /\ Len(ch) \in Nat /\ DOMAIN ch = 1..Len(ch)
         /\ \A i \in 1..Len(ch) : ch[i] \in Nat
         /\ DOMAIN Append(ch, d) = 1..(Len(ch) + 1)
         /\ \A i \in 1..Len(ch) : Append(ch, d)[i] = ch[i]
         /\ Append(ch, d)[Len(ch) + 1] = d
<1>1. Len(ch) \in Nat /\ DOMAIN ch = 1..Len(ch) /\ \A i \in 1..Len(ch) : ch[i] \in Directives
  OBVIOUS
<1>2. \A i \in 1..Len(ch) : ch[i] \in Nat
  BY <1>1 DEF Directives
<1>3. DOMAIN Append(ch, d) = 1..(Len(ch) + 1)
  OBVIOUS
<1>4. (\A i \in 1..Len(ch) : Append(ch, d)[i] = ch[i]) /\ Append(ch, d)[Len(ch) + 1] = d
  OBVIOUS
<1> QED BY <1>1, <1>2, <1>3, <1>4

\* Taking the head moves every other number one place to the front.
LEMMA TailShape ==
  ASSUME NEW ch \in Seq(Directives), ch # << >>
  PROVE  /\ Len(ch) \in Nat \ {0} /\ DOMAIN ch = 1..Len(ch)
         /\ \A i \in 1..Len(ch) : ch[i] \in Nat
         /\ Head(ch) = ch[1] /\ Head(ch) \in Directives
         /\ DOMAIN Tail(ch) = 1..(Len(ch) - 1)
         /\ \A i \in 1..(Len(ch) - 1) : Tail(ch)[i] = ch[i + 1]
<1>1. Len(ch) \in Nat \ {0} /\ DOMAIN ch = 1..Len(ch) /\ \A i \in 1..Len(ch) : ch[i] \in Directives
  OBVIOUS
<1>2. \A i \in 1..Len(ch) : ch[i] \in Nat
  BY <1>1 DEF Directives
<1>3. Head(ch) = ch[1]
  OBVIOUS
<1>4. DOMAIN Tail(ch) = 1..(Len(ch) - 1) /\ \A i \in 1..(Len(ch) - 1) : Tail(ch)[i] = ch[i + 1]
  OBVIOUS
<1>5. Head(ch) \in Directives
  BY <1>1, <1>3
<1> QED BY <1>1, <1>2, <1>3, <1>4, <1>5

\* Appending a greater number keeps a channel rising.
LEMMA RisingAppend ==
  ASSUME NEW ch \in Seq(Directives), NEW d \in Directives, NEW low \in Nat, NEW high \in Nat,
         Rising(ch), Between(ch, low, high), high < d
  PROVE  Rising(Append(ch, d))
<1> DEFINE n == Len(ch)
           longer == Append(ch, d)
<1>1. d \in Nat
  BY DEF Directives
<1> SUFFICES ASSUME NEW i \in 1..(n + 1), NEW j \in 1..(n + 1), i < j
             PROVE  longer[i] < longer[j]
  BY AppendShape DEF Rising
<1>2. n \in Nat /\ i \in 1..n /\ longer[i] = ch[i] /\ ch[i] \in Nat
  BY AppendShape
<1>3. CASE j \in 1..n
  <2>1. longer[j] = ch[j] /\ ch[i] < ch[j]
    BY <1>2, <1>3, AppendShape DEF Rising
  <2> QED BY <1>2, <2>1
<1>4. CASE j = n + 1
  <2>1. longer[j] = d /\ ch[i] <= high
    BY <1>2, <1>4, AppendShape DEF Between
  <2> QED BY <1>1, <1>2, <2>1
<1> QED BY <1>2, <1>3, <1>4

\* The head of a rising channel is its least, and the rest rises.
LEMMA RisingTail ==
  ASSUME NEW ch \in Seq(Directives), ch # << >>, Rising(ch)
  PROVE  /\ Rising(Tail(ch))
         /\ \A i \in DOMAIN Tail(ch) : Head(ch) < Tail(ch)[i]
<1> DEFINE n == Len(ch)
           rest == Tail(ch)
<1>0. /\ n \in Nat \ {0} /\ DOMAIN ch = 1..n /\ Head(ch) = ch[1]
      /\ DOMAIN rest = 1..(n - 1) /\ \A i \in 1..(n - 1) : rest[i] = ch[i + 1]
  BY TailShape
<1>r. \A i, j \in 1..n : i < j => ch[i] < ch[j]
  BY <1>0 DEF Rising
<1> HIDE DEF n, rest
<1>1. ASSUME NEW i \in 1..(n - 1), NEW j \in 1..(n - 1), i < j PROVE rest[i] < rest[j]
  <2>1. i + 1 \in 1..n /\ j + 1 \in 1..n /\ i + 1 < j + 1
    BY <1>0, <1>1
  <2>2. ch[i + 1] < ch[j + 1]
    BY <1>r, <2>1
  <2> QED BY <1>0, <2>2
<1>2. ASSUME NEW i \in 1..(n - 1) PROVE Head(ch) < rest[i]
  <2>1. 1 \in 1..n /\ i + 1 \in 1..n /\ 1 < i + 1
    BY <1>0
  <2>2. ch[1] < ch[i + 1]
    BY <1>r, <2>1
  <2> QED BY <1>0, <2>2
<1>3. Rising(rest)
  BY <1>0, <1>1 DEF Rising
<1> QED BY <1>0, <1>2, <1>3 DEF rest

\* A number above the upper mark becomes the upper mark.
LEMMA BetweenAppend ==
  ASSUME NEW ch \in Seq(Directives), NEW d \in Directives, NEW low \in Nat, NEW high \in Nat,
         Between(ch, low, high), low <= high, high < d
  PROVE  Between(Append(ch, d), low, d)
<1>1. d \in Nat
  BY DEF Directives
<1> SUFFICES ASSUME NEW i \in 1..(Len(ch) + 1)
             PROVE  low < Append(ch, d)[i] /\ Append(ch, d)[i] <= d
  BY AppendShape DEF Between
<1>2. CASE i \in 1..Len(ch)
  <2>1. Append(ch, d)[i] = ch[i] /\ ch[i] \in Nat /\ low < ch[i] /\ ch[i] <= high
    BY <1>2, AppendShape DEF Between
  <2> QED BY <1>1, <2>1
<1>3. CASE i = Len(ch) + 1
  <2>1. Append(ch, d)[i] = d
    BY <1>3, AppendShape
  <2> QED BY <1>1, <2>1
<1> QED BY <1>2, <1>3, AppendShape

\* The head of a rising channel can become the lower mark of the rest.
LEMMA BetweenTail ==
  ASSUME NEW ch \in Seq(Directives), ch # << >>, Rising(ch), NEW low \in Nat, NEW high \in Nat,
         Between(ch, low, high)
  PROVE  /\ Between(Tail(ch), Head(ch), high)
         /\ Between(Tail(ch), low, high)
         /\ Head(ch) \in Directives /\ low < Head(ch) /\ Head(ch) <= high
<1>1. \A i \in 1..Len(ch) : low < ch[i] /\ ch[i] <= high
  BY TailShape DEF Between
<1>2. Head(ch) \in Directives /\ low < Head(ch) /\ Head(ch) <= high
  <2>1. 1 \in 1..Len(ch)
    BY TailShape
  <2> QED BY <1>1, <2>1, TailShape
<1>3. \A i \in DOMAIN Tail(ch) : low < Tail(ch)[i] /\ Tail(ch)[i] <= high
  <2> SUFFICES ASSUME NEW i \in 1..(Len(ch) - 1) PROVE low < Tail(ch)[i] /\ Tail(ch)[i] <= high
    BY TailShape
  <2>1. i + 1 \in 1..Len(ch) /\ Tail(ch)[i] = ch[i + 1]
    BY TailShape
  <2> QED BY <1>1, <2>1
<1>4. \A i \in DOMAIN Tail(ch) : Head(ch) < Tail(ch)[i]
  BY RisingTail
<1> QED BY <1>2, <1>3, <1>4 DEF Between

\* One step per move along the line, which moves one mark; leaving the line moves none.
LEMMA OrderStep == TypeInv /\ OrderInv /\ [Next]_vars => OrderInv'
<1> SUFFICES ASSUME TypeInv, OrderInv, [Next]_vars PROVE OrderInv'
  OBVIOUS
<1> TypeInv' BY NextTypeInv
<1>0. /\ sent \in Seq(Directives) /\ outCh \in Seq(Directives) /\ inCh \in Seq(Directives)
      /\ emitted \in Seq(Directives) /\ received \in 0..MaxDirectives
      /\ send = "send" => answer \in Directives
      /\ prober = "work" => probing \in Directives
      /\ recv = "push" => taken \in Directives
      /\ \A x \in Directives : x \in Nat
  <2>1. /\ sent \in Seq(Directives) /\ outCh \in Seq(Directives) /\ inCh \in Seq(Directives)
        /\ emitted \in Seq(Directives) /\ received \in 0..MaxDirectives
    BY DEF TypeInv, TypeOK
  <2>2. send = "send" => answer \in Directives
    BY DEF TypeInv, TypeOK
  <2>3. prober = "work" => probing \in Directives
    BY DEF TypeInv, TypeOK
  <2>4. recv = "push" => taken \in Directives
    BY DEF TypeInv, TypeOK
  <2>5. \A x \in Directives : x \in Nat
    BY DEF Directives
  <2> QED BY <2>1, <2>2, <2>3, <2>4, <2>5
<1> PICK a \in Nat, b \in Nat, c \in Nat, d \in Nat, e \in Nat : Marks(a, b, c, d, e)
  BY DEF OrderInv, Orderly
<1> Rising(sent) /\ Rising(outCh) /\ Rising(inCh)
  BY DEF OrderInv
<1>1. CASE /\ UNCHANGED <<sent, outCh, emitted, inCh, received>>
           /\ send' = "send" => UNCHANGED <<send, answer>>
           /\ prober' = "work" => UNCHANGED <<prober, probing>>
           /\ recv' = "push" => UNCHANGED <<recv, taken>>
  <2>1. Marks(a, b, c, d, e)'
    BY <1>1 DEF Marks, Between
  <2> QED BY <1>1, <2>1 DEF OrderInv, Orderly, Rising
<1>2. CASE Recv
  <2>1. Marks(a, b, c, d, e)'
    BY <1>0, <1>2 DEF Marks, Recv, channelVars, proberVars, historyVars, Between
  <2> QED BY <1>2, <2>1 DEF OrderInv, Orderly, Rising, Recv, channelVars, historyVars
<1>3. CASE Push
  <2>1. /\ e < taken /\ taken <= received /\ taken \in Directives
        /\ inCh' = Append(inCh, taken) /\ recv' = "recv"
    BY <1>0, <1>3 DEF Push, Marks
  <2>2. Rising(inCh')
    BY <1>0, <2>1, RisingAppend DEF Marks
  <2>3. d <= e /\ Between(inCh, d, e)
    BY DEF Marks
  <2>4. Between(inCh', d, taken)
    BY <1>0, <2>1, <2>3, BetweenAppend
  <2> PICK m \in Nat : m = taken
    BY <1>0, <2>1
  <2>5. Marks(a, b, c, d, m)'
    BY <1>0, <1>3, <2>1, <2>4 DEF Marks, Push, proberVars
  <2> QED BY <1>0, <1>3, <2>1, <2>2, <2>5 DEF OrderInv, Orderly, Push
<1>4. CASE TakeElement
  <2>1. outCh # << >> /\ outCh' = Tail(outCh) /\ Between(outCh, b, c)
    BY <1>4 DEF TakeElement, Marks
  <2>2. /\ Rising(outCh')
        /\ Between(outCh', Head(outCh), c) /\ Between(outCh', b, c)
        /\ Head(outCh) \in Directives /\ b < Head(outCh) /\ Head(outCh) <= c
    BY <1>0, <2>1, RisingTail, BetweenTail
  <2>3. CASE RateCap = 0
    <3>1. Marks(a, b, c, d, e)'
      BY <1>4, <2>2, <2>3 DEF Marks, TakeElement, proberVars, historyVars
    <3> QED BY <1>4, <2>2, <3>1 DEF OrderInv, Orderly, TakeElement, historyVars
  <2>4. CASE RateCap # 0
    <3> PICK m \in Nat : m = Head(outCh)
      BY <1>0, <2>2
    <3>1. Marks(a, m, c, d, e)'
      BY <1>0, <1>4, <2>2, <2>4 DEF Marks, TakeElement, proberVars, historyVars
    <3> QED BY <1>0, <1>4, <2>2, <3>1 DEF OrderInv, Orderly, TakeElement, historyVars
  <2> QED BY <2>3, <2>4
<1>5. CASE SendElement
  <2>1. a < answer /\ answer <= b /\ answer \in Directives /\ sent' = Append(sent, answer)
    BY <1>0, <1>5 DEF SendElement, Marks
  <2>2. Rising(sent')
    BY <1>0, <2>1, RisingAppend DEF Marks
  <2>3. Between(sent', 0, answer)
    BY <1>0, <2>1, BetweenAppend DEF Marks
  <2> PICK m \in Nat : m = answer
    BY <1>0, <2>1
  <2>4. Marks(m, b, c, d, e)'
    BY <1>0, <1>5, <2>1, <2>3 DEF Marks, SendElement, channelVars, proberVars
  <2> QED BY <1>0, <1>5, <2>1, <2>2, <2>4
          DEF OrderInv, Orderly, SendElement, channelVars
<1>6. CASE TakeDirective
  <2>1. inCh # << >> /\ inCh' = Tail(inCh) /\ Between(inCh, d, e)
    BY <1>6 DEF TakeDirective, AfterTake, Marks
  <2>2. /\ Rising(inCh')
        /\ Between(inCh', Head(inCh), e)
        /\ Head(inCh) \in Directives /\ d < Head(inCh) /\ Head(inCh) <= e
    BY <1>0, <2>1, RisingTail, BetweenTail
  <2> PICK m \in Nat : m = Head(inCh)
    BY <1>0, <2>2
  <2>3. Marks(a, b, c, m, e)'
    BY <1>0, <1>6, <2>2 DEF Marks, TakeDirective, streamVars, historyVars
  <2> QED BY <1>0, <1>6, <2>2, <2>3
          DEF OrderInv, Orderly, TakeDirective, historyVars
<1>7. CASE Emit
  <2>1. /\ c < probing /\ probing <= d /\ probing \in Directives
        /\ outCh' = Append(outCh, probing) /\ emitted' = Append(emitted, probing)
    BY <1>0, <1>7 DEF Emit, Marks
  <2>2. Rising(outCh')
    BY <1>0, <2>1, RisingAppend DEF Marks
  <2>3. Between(outCh', b, probing) /\ Between(emitted', 0, probing)
    BY <1>0, <2>1, BetweenAppend DEF Marks
  <2> PICK m \in Nat : m = probing
    BY <1>0, <2>1
  <2>4. Marks(a, b, m, d, e)'
    BY <1>0, <1>7, <2>1, <2>3 DEF Marks, Emit, streamVars
  <2> QED BY <1>0, <1>7, <2>1, <2>2, <2>4 DEF OrderInv, Orderly, Emit
<1>8. CASE FailSend
  BY <1>1, <1>8 DEF FailSend, AfterFailedSend, proberVars, historyVars
<1>9. CASE AbandonPush \/ EndProber \/ OpenStream \/ Break \/ EndStream \/ EndLoop \/ Cancel
  BY <1>1, <1>9
  DEF AbandonPush, EndProber, OpenStream, Break, EndStream, EndLoop, Cancel, channelVars,
      proberVars, streamVars, historyVars
<1>10. CASE FailRecv \/ CloseProber \/ EndSend \/ PanicSend \/ UNCHANGED vars
  BY <1>1, <1>10
  DEF FailRecv, CloseProber, EndSend, PanicSend, channelVars, proberVars, streamVars,
      historyVars, vars
<1> QED
  BY <1>2, <1>3, <1>4, <1>5, <1>6, <1>7, <1>8, <1>9, <1>10
  DEF Next, Loop, Receiver, Sender, Probing, Ended

\* Init has nothing in the line.
LEMMA OrderAlways == Spec => []OrderInv
<1>1. Init => OrderInv
  <2> SUFFICES ASSUME Init PROVE OrderInv
    OBVIOUS
  <2>1. Marks(0, 0, 0, 0, 0)
    BY DEF Init, Marks, Between
  <2>2. Rising(sent) /\ Rising(outCh) /\ Rising(inCh)
    BY DEF Init, Rising
  <2> QED BY <2>1, <2>2 DEF OrderInv, Orderly
<1> QED BY <1>1, OrderStep, TypeInvAlways, PTL DEF Spec

\* The orchestrator is sent the answers in the order of the directives and each at most
\* once, over any number of streams and whatever breaks, is abandoned or is closed.
THEOREM AnswersAlwaysInOrder == Spec => []AnswersInOrder
<1>1. OrderInv => AnswersInOrder
  BY DEF OrderInv, Rising, AnswersInOrder
<1> QED BY <1>1, OrderAlways, PTL

-----------------------------------------------------------------------------
(* The mock prober implements Prober.                                      *)

\* What waits in the prober was given to it.
GivenInv ==
  /\ \A i \in DOMAIN inCh : inCh[i] \in given
  /\ prober = "work" => probing \in given

\* Only a push puts something into inCh, and it is recorded.
LEMMA GivenStep == TypeInv /\ GivenInv /\ [Next]_vars => GivenInv'
<1> SUFFICES ASSUME TypeInv, GivenInv, [Next]_vars PROVE GivenInv'
  OBVIOUS
<1>0. inCh \in Seq(Directives) /\ (recv = "push" => taken \in Directives)
  BY DEF TypeInv, TypeOK
<1>1. CASE Push
  <2>1. inCh' = Append(inCh, taken) /\ given' = given \cup {taken} /\ taken \in Directives
    BY <1>0, <1>1 DEF Push
  <2>2. \A i \in DOMAIN inCh' : inCh'[i] = taken \/ (i \in DOMAIN inCh /\ inCh'[i] = inCh[i])
    BY <1>0, <2>1
  <2> QED BY <1>1, <2>1, <2>2 DEF GivenInv, Push, proberVars
<1>2. CASE TakeDirective
  <2>1. inCh # << >> /\ inCh' = Tail(inCh) /\ probing' = Head(inCh) /\ given' = given
    BY <1>2 DEF TakeDirective, AfterTake, historyVars
  <2>2. Head(inCh) \in given
    BY <1>0, <2>1 DEF GivenInv
  <2>3. \A i \in DOMAIN inCh' : i + 1 \in DOMAIN inCh /\ inCh'[i] = inCh[i + 1]
    BY <1>0, <2>1
  <2> QED BY <1>2, <2>1, <2>2, <2>3 DEF GivenInv
<1>3. CASE UNCHANGED <<inCh, given>> /\ (prober' = "work" => UNCHANGED <<prober, probing>>)
  BY <1>3 DEF GivenInv
<1>4. CASE OpenStream \/ Break \/ Recv \/ Cancel \/ Loop \/ FailRecv \/ AbandonPush \/ CloseProber
  BY <1>3, <1>4 DEF OpenStream, Break, Recv, Cancel, Loop, EndStream, EndLoop, FailRecv,
     AbandonPush, CloseProber, channelVars, proberVars, historyVars
<1>5. CASE Sender \/ SendElement \/ Emit \/ PanicSend \/ EndProber \/ UNCHANGED vars
  BY <1>3, <1>5 DEF Sender, TakeElement, SendElement, FailSend, EndSend, Emit, PanicSend,
     EndProber, channelVars, proberVars, historyVars, vars
<1> QED
  BY <1>1, <1>2, <1>4, <1>5 DEF Next, Receiver, Probing, Ended

\* What waits in the prober was always given to it.
LEMMA GivenAlways == Spec => []GivenInv
<1>1. Init => GivenInv
  BY DEF Init, GivenInv
<1> QED BY <1>1, GivenStep, TypeInvAlways, PTL DEF Spec

\* What the prober answers next was not answered before: answers are below the mark.
LEMMA FreshAnswer ==
  ASSUME TypeInv, OrderInv, prober = "work"
  PROVE  probing \notin Range(emitted)
<1> PICK a \in Nat, b \in Nat, c \in Nat, d \in Nat, e \in Nat : Marks(a, b, c, d, e)
  BY DEF OrderInv, Orderly
<1>1. c < probing /\ probing \in Nat
  BY DEF Marks, TypeInv, TypeOK, Directives
<1>2. \A i \in DOMAIN emitted : emitted[i] <= c /\ emitted[i] \in Nat
  BY DEF Marks, Between, TypeInv, TypeOK, Directives
<1> QED BY <1>1, <1>2 DEF Range

\* Every step is a step of Prober, or one that Prober does not see: a push gives, and an
\* emission answers something given and not yet answered.
LEMMA ProberStep ==
  TypeInv /\ OrderInv /\ GivenInv /\ [Next]_vars => [Contract!Next]_(Contract!vars)
<1> SUFFICES ASSUME TypeInv, OrderInv, GivenInv, [Next]_vars
             PROVE  [Contract!Next]_(Contract!vars)
  OBVIOUS
<1>1. CASE Push
  <2>1. taken \in Directives
    BY <1>1 DEF Push, TypeInv, TypeOK
  <2>2. Contract!Give(taken)
    BY <1>1 DEF Push, Contract!Give
  <2> QED BY <2>1, <2>2 DEF Contract!Next
<1>2. CASE Emit
  <2>1. probing \in Directives /\ probing \in given
    BY <1>2 DEF Emit, TypeInv, TypeOK, GivenInv
  <2>2. probing \notin Range(emitted)
    BY <1>2, FreshAnswer DEF Emit
  <2>3. Contract!Emit(probing)
    BY <1>2, <2>1, <2>2 DEF Emit, Contract!Emit, Range, Contract!Range
  <2> QED BY <2>1, <2>3 DEF Contract!Next
<1>3. CASE UNCHANGED <<given, emitted>>
  BY <1>3 DEF Contract!vars
<1>4. CASE OpenStream \/ Break \/ Recv \/ Cancel \/ Loop \/ FailRecv \/ AbandonPush \/ CloseProber
  BY <1>3, <1>4 DEF OpenStream, Break, Recv, Cancel, Loop, EndStream, EndLoop, FailRecv,
     AbandonPush, CloseProber, historyVars
<1>5. CASE Sender \/ SendElement \/ TakeDirective \/ PanicSend \/ EndProber \/ UNCHANGED vars
  BY <1>3, <1>5 DEF Sender, TakeElement, SendElement, FailSend, EndSend, TakeDirective,
     PanicSend, EndProber, historyVars, vars
<1> QED
  BY <1>1, <1>2, <1>4, <1>5 DEF Next, Receiver, Probing, Ended

\* The mock prober keeps what components.Prober says of its channels: it answers what was
\* pushed to it, each directive at most once, over any number of streams, although a
\* stream it does not know of closes it while it works.  (That nothing is emitted after
\* Close is called, components.go:124, it does not keep.)
THEOREM MockProberIsAProber == Spec => ImplementsProber
<1>1. Init => Contract!Init
  BY DEF Init, Contract!Init
<1> QED
  BY <1>1, ProberStep, TypeInvAlways, OrderAlways, GivenAlways, PTL
  DEF Spec, ImplementsProber, Contract!Spec
=============================================================================
