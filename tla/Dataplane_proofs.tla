---------------------------- MODULE Dataplane_proofs ----------------------------
(* Proofs about Dataplane, for any streams and clients, any capacities and    *)
(* any number of messages: the type invariant, the order in which each agent  *)
(* and each client gets its messages, and that a directive is at one place.   *)
EXTENDS Dataplane, FiniteSetTheorems, TLAPS

USE StreamsAssumption, CapacityAssumption, ArrivalsAssumption

-----------------------------------------------------------------------------
(* Type correctness.                                                       *)

\* Each queue has messages of its own kind; a hand is full exactly in the select of a
\* receiver and in the send of a sender; a stream that was never opened has neither.
Kinds ==
  /\ queue["directives"] \in Seq(Directives) /\ queue["elements"] \in Seq(Elements)
  /\ arrived \in [Streams -> Nat]
  /\ DOMAIN in = Streams
  /\ in = [s \in Streams |-> in[s]]
  /\ \A s \in Streams :
       in[s].at = "select" => in[s].msg \in Messages(s) /\ in[s].msg.n = arrived[s]
  /\ \A e \in ElementStreams :
       /\ out[e].at = "send" => out[e].msg \in Directives
       /\ out[e].at # "send" => out[e].msg = None
       /\ in[e].at = "none" => out[e].at = "none"

TypeInv == TypeOK /\ Kinds

\* A message is a directive or an element by the stream it comes from.
LEMMA MessageKinds ==
  /\ \A s \in DirectiveStreams :
       s \in Streams /\ QueueOf(s) = "directives" /\ Messages(s) \subseteq Directives
  /\ \A s \in ElementStreams :
       s \in Streams /\ QueueOf(s) = "elements" /\ Messages(s) \subseteq Elements
  /\ Directives \cap Elements = {}
  /\ None \notin Directives
  /\ \A s \in Streams : \A m \in Messages(s) : m.from = s /\ m.n \in Nat \ {0}
<1>1. \A s \in DirectiveStreams :
       s \in Streams /\ QueueOf(s) = "directives" /\ Messages(s) \subseteq Directives
  BY DEF Streams, QueueOf, Directives
<1>2. \A s \in ElementStreams :
       s \in Streams /\ QueueOf(s) = "elements" /\ Messages(s) \subseteq Elements
  BY DEF Streams, QueueOf, Elements
<1>3. Directives \cap Elements = {}
  BY DEF Directives, Elements, Messages
<1>4. None \notin Directives
  BY DEF Directives, Messages, None
<1>5. \A s \in Streams : \A m \in Messages(s) : m.from = s /\ m.n \in Nat \ {0}
  BY DEF Messages
<1> QED BY <1>1, <1>2, <1>3, <1>4, <1>5

\* Nothing is open, queued or held at the start.
LEMMA InitTypeInv == Init => TypeInv
<1> SUFFICES ASSUME Init PROVE TypeInv
  OBVIOUS
<1>1. queue \in [Queues -> Seq(Directives \cup Elements)]
  BY DEF Init
<1>2. \A q \in Queues : Len(queue[q]) <= Capacity[q]
  BY DEF Init, Queues
<1>3. queue["directives"] \in Seq(Directives) /\ queue["elements"] \in Seq(Elements)
  BY DEF Init, Queues
<1>4. arrived \in [Streams -> Nat] /\ \A s \in Streams : arrived[s] \in 0..MaxArrivals[s]
  BY DEF Init
<1>5. /\ \A s \in Streams : in[s] = At("none")
      /\ in = [s \in Streams |-> in[s]] /\ DOMAIN in = Streams
      /\ out = [e \in ElementStreams |-> At("none")]
  BY DEF Init
<1>6. \A s \in Streams : in[s] \in Goroutine({"none", "recv", "select", "returned"}, Messages(s))
  BY <1>5 DEF At, Goroutine
<1>7. out \in [ElementStreams -> Goroutine({"none", "select", "send", "returned"}, Directives)]
  BY <1>5 DEF At, Goroutine
<1>8. \A e \in ElementStreams : out[e].at = "none" /\ out[e].msg = None
  BY <1>5 DEF At
<1>9. buffers \in [Clients -> Seq(Elements)] /\ got \in [Clients -> Seq(Elements)]
  BY DEF Init
<1>10. \A c \in Clients : Len(buffers[c]) <= Capacity["client"]
  BY DEF Init
<1>11. sent \in [ElementStreams -> Seq(Directives)]
  BY DEF Init
<1>12. \A s \in Streams : in[s].at = "none"
  BY <1>5 DEF At
<1>13. TypeOK
  <2>1. closing \in 0..4 /\ up \subseteq Streams /\ failed \subseteq Streams
    BY DEF Init
  <2>2. client \in [Clients -> {"none", "open", "returned"}] /\ running \subseteq Servers
    BY DEF Init
  <2>3. cancelled \in BOOLEAN
    BY DEF Init
  <2>4. /\ fan \in {"channel", "nil", "cancelled", "closed"}
        /\ result \in {"running", "clean", "error", "panic"}
        /\ accepted \subseteq Directives /\ lost \subseteq Directives
    BY DEF Init
  <2> QED BY <1>1, <1>2, <1>4, <1>6, <1>7, <1>9, <1>10, <1>11, <2>1, <2>2, <2>3, <2>4 DEF TypeOK
<1>14. Kinds
  BY <1>3, <1>4, <1>5, <1>8, <1>12 DEF Kinds
<1> QED BY <1>13, <1>14 DEF TypeInv

\* The invariant by the parts of the state that change together.
QueueTypes ==
  /\ queue \in [Queues -> Seq(Directives \cup Elements)]
  /\ \A q \in Queues : Len(queue[q]) <= Capacity[q]
  /\ queue["directives"] \in Seq(Directives) /\ queue["elements"] \in Seq(Elements)
ReceiverTypes ==
  /\ arrived \in [Streams -> Nat] /\ \A s \in Streams : arrived[s] \in 0..MaxArrivals[s]
  /\ DOMAIN in = Streams /\ in = [s \in Streams |-> in[s]]
  /\ \A s \in Streams :
       /\ in[s] \in Goroutine({"none", "recv", "select", "returned"}, Messages(s))
       /\ in[s].at = "select" => in[s].msg \in Messages(s) /\ in[s].msg.n = arrived[s]
SenderTypes ==
  /\ out \in [ElementStreams -> Goroutine({"none", "select", "send", "returned"}, Directives)]
  /\ \A e \in ElementStreams :
       /\ out[e].at = "send" => out[e].msg \in Directives
       /\ out[e].at # "send" => out[e].msg = None
NotYetOpen == \A e \in ElementStreams : in[e].at = "none" => out[e].at = "none"
ClientTypes ==
  /\ buffers \in [Clients -> Seq(Elements)] /\ got \in [Clients -> Seq(Elements)]
  /\ \A c \in Clients : Len(buffers[c]) <= Capacity["client"]
  /\ client \in [Clients -> {"none", "open", "returned"}]
SentTypes ==
  sent \in [ElementStreams -> Seq(Directives)] /\ accepted \subseteq Directives
  /\ lost \subseteq Directives
RunTypes ==
  /\ up \subseteq Streams /\ failed \subseteq Streams
  /\ closing \in 0..4 /\ running \subseteq Servers
  /\ fan \in {"channel", "nil", "cancelled", "closed"}
  /\ result \in {"running", "clean", "error", "panic"}
Bools == cancelled \in BOOLEAN

\* The parts are the whole.
LEMMA TypeParts ==
  TypeInv <=> /\ QueueTypes /\ ReceiverTypes /\ SenderTypes /\ NotYetOpen /\ ClientTypes
              /\ SentTypes /\ RunTypes /\ Bools
<1>1. TypeInv => QueueTypes /\ ClientTypes /\ SentTypes /\ RunTypes /\ Bools
  BY DEF TypeInv, TypeOK, Kinds, QueueTypes, ClientTypes, SentTypes, RunTypes, Bools
<1>2. TypeInv => ReceiverTypes /\ SenderTypes /\ NotYetOpen
  BY DEF TypeInv, TypeOK, Kinds, ReceiverTypes, SenderTypes, NotYetOpen
<1>3. /\ QueueTypes /\ ReceiverTypes /\ SenderTypes /\ NotYetOpen /\ ClientTypes
      /\ SentTypes /\ RunTypes /\ Bools
      => TypeInv
  BY DEF TypeInv, TypeOK, Kinds, QueueTypes, ReceiverTypes, SenderTypes, NotYetOpen, ClientTypes,
     SentTypes, RunTypes, Bools
<1> QED BY <1>1, <1>2, <1>3

\* What a goroutine can be at.
LEMMA GoroutineTypes ==
  /\ \A points, msgs : \A p \in points : At(p) \in Goroutine(points, msgs)
  /\ \A points, msgs : \A m \in msgs \cup {None} : \A q :
       "select" \in points => Select(m, q) \in Goroutine(points, msgs)
  /\ \A p : At(p).at = p /\ At(p).msg = None
  /\ \A m, q : Select(m, q).at = "select" /\ Select(m, q).msg = m
BY DEF At, Select, Goroutine, Field

\* A receiver that leaves its select, or is opened, holds no message.
LEMMA ReceiverMoves ==
  ASSUME ReceiverTypes, NEW s \in Streams, NEW p \in {"recv", "returned"},
         in' = [in EXCEPT ![s] = At(p)], UNCHANGED arrived
  PROVE  ReceiverTypes' /\ in'[s].at = p
         /\ \A t \in Streams : t # s => in'[t] = in[t]
<1>1. DOMAIN in = Streams /\ DOMAIN in' = Streams
  BY DEF ReceiverTypes
<1>2. in'[s] = At(p) /\ in'[s].at = p /\ in'[s].at # "select"
  BY <1>1, GoroutineTypes
<1>3. \A t \in Streams : t # s => in'[t] = in[t]
  BY <1>1
<1>4. in'[s] \in Goroutine({"none", "recv", "select", "returned"}, Messages(s))
  BY <1>2, GoroutineTypes
<1>5. \A t \in Streams :
        /\ in'[t] \in Goroutine({"none", "recv", "select", "returned"}, Messages(t))
        /\ in'[t].at = "select" => in'[t].msg \in Messages(t) /\ in'[t].msg.n = arrived'[t]
  BY <1>2, <1>3, <1>4 DEF ReceiverTypes
<1>6. in' = [t \in Streams |-> in'[t]]
  BY <1>1
<1>7. arrived' \in [Streams -> Nat] /\ \A t \in Streams : arrived'[t] \in 0..MaxArrivals[t]
  BY DEF ReceiverTypes
<1>8. ReceiverTypes'
  BY <1>1, <1>5, <1>6, <1>7 DEF ReceiverTypes
<1> QED BY <1>2, <1>3, <1>8

\* A sender holds a message exactly when it is about to send it.
LEMMA SenderMoves ==
  ASSUME SenderTypes, NEW e \in ElementStreams, NEW g,
         g \in Goroutine({"none", "select", "send", "returned"}, Directives),
         g.at = "send" => g.msg \in Directives, g.at # "send" => g.msg = None,
         out' = [out EXCEPT ![e] = g]
  PROVE  SenderTypes' /\ out'[e] = g
         /\ \A f \in ElementStreams : f # e => out'[f] = out[f]
<1>1. out'[e] = g /\ \A f \in ElementStreams : f # e => out'[f] = out[f]
  BY DEF SenderTypes
<1>2. out' \in [ElementStreams -> Goroutine({"none", "select", "send", "returned"}, Directives)]
  BY DEF SenderTypes
<1>3. \A f \in ElementStreams :
        /\ out'[f].at = "send" => out'[f].msg \in Directives
        /\ out'[f].at # "send" => out'[f].msg = None
  BY <1>1 DEF SenderTypes
<1> QED BY <1>1, <1>2, <1>3 DEF SenderTypes

\* One step per operation, with the parts that it changes.
LEMMA NextTypeInv == TypeInv /\ [Next]_vars => TypeInv'
<1> SUFFICES ASSUME TypeInv, [Next]_vars PROVE TypeInv'
  OBVIOUS
<1> USE DEF queueVars, streamVars, clientVars, runVars, historyVars
<1>0. /\ QueueTypes /\ ReceiverTypes /\ SenderTypes /\ NotYetOpen /\ ClientTypes
      /\ SentTypes /\ RunTypes /\ Bools
  BY TypeParts
<1>q. UNCHANGED queue => QueueTypes'
  BY <1>0 DEF QueueTypes
<1>r. UNCHANGED <<arrived, in>> => ReceiverTypes'
  BY <1>0 DEF ReceiverTypes
<1>s. UNCHANGED out => SenderTypes'
  BY <1>0 DEF SenderTypes
<1>o. UNCHANGED <<in, out>> => NotYetOpen'
  BY <1>0 DEF NotYetOpen
<1>c. UNCHANGED <<buffers, client, got>> => ClientTypes'
  BY <1>0 DEF ClientTypes
<1>h. UNCHANGED <<sent, accepted, lost>> => SentTypes'
  BY <1>0 DEF SentTypes
<1>u. UNCHANGED <<up, failed, closing, fan, running, result>> => RunTypes'
  BY <1>0 DEF RunTypes
<1>b. UNCHANGED cancelled => Bools'
  BY <1>0 DEF Bools
<1>goal. /\ QueueTypes' /\ ReceiverTypes' /\ SenderTypes' /\ NotYetOpen' /\ ClientTypes'
         /\ SentTypes' /\ RunTypes' /\ Bools'
         => TypeInv'
  BY TypeParts, PTL
<1>1. ASSUME NEW s \in Streams, OpenStream(s) PROVE TypeInv'
  <2>1. in' = [in EXCEPT ![s] = At("recv")]
    BY <1>1 DEF OpenStream
  <2>2. out' = [e \in ElementStreams |-> IF e = s THEN Select(None, "directives") ELSE out[e]]
    BY <1>1 DEF OpenStream
  <2>3. ReceiverTypes' /\ in'[s].at = "recv" /\ \A t \in Streams : t # s => in'[t] = in[t]
    BY <1>0, <1>1, <2>1, ReceiverMoves DEF OpenStream
  <2>4. SenderTypes'
    <3> DEFINE g == Select(None, "directives")
    <3>1. /\ g \in Goroutine({"none", "select", "send", "returned"}, Directives)
          /\ g.at = "select" /\ g.msg = None
      BY DEF Select, Goroutine, Field
    <3> HIDE DEF g
    <3>2. out' = [e \in ElementStreams |-> IF e = s THEN g ELSE out[e]]
      BY <2>2 DEF g
    <3>3. \A e \in ElementStreams : out'[e] = IF e = s THEN g ELSE out[e]
      BY <3>2
    <3>4. out' \in [ElementStreams -> Goroutine({"none", "select", "send", "returned"}, Directives)]
      BY <1>0, <3>1, <3>2 DEF SenderTypes
    <3>5. \A e \in ElementStreams :
            /\ out'[e].at = "send" => out'[e].msg \in Directives
            /\ out'[e].at # "send" => out'[e].msg = None
      BY <1>0, <3>1, <3>3 DEF SenderTypes
    <3> QED BY <3>4, <3>5 DEF SenderTypes
  <2>5. NotYetOpen'
    <3>1. \A e \in ElementStreams : e \in Streams
      BY DEF Streams
    <3>2. \A e \in ElementStreams : e # s => in'[e] = in[e] /\ out'[e] = out[e]
      BY <2>2, <2>3, <3>1
    <3> QED BY <1>0, <2>3, <3>2 DEF NotYetOpen
  <2>6. RunTypes'
    BY <1>0, <1>1 DEF OpenStream, RunTypes
  <2> QED BY <1>1, <1>q, <1>c, <1>h, <1>b, <1>goal, <2>3, <2>4, <2>5, <2>6 DEF OpenStream
<1>2. ASSUME NEW s \in Streams, Break(s) PROVE TypeInv'
  <2>1. RunTypes'
    BY <1>0, <1>2 DEF Break, RunTypes
  <2> QED BY <1>2, <1>q, <1>r, <1>s, <1>o, <1>c, <1>h, <1>b, <1>goal, <2>1 DEF Break
<1>3. ASSUME NEW s \in Streams, Recv(s) PROVE TypeInv'
  <2> PICK msg \in Messages(s) :
             msg.n = arrived[s] + 1 /\ in' = [in EXCEPT ![s] = Select(msg, QueueOf(s))]
    BY <1>3 DEF Recv
  <2>1. arrived' = [arrived EXCEPT ![s] = @ + 1]
    BY <1>3 DEF Recv
  <2>2. msg.n \in 1..MaxArrivals[s]
    BY DEF Messages
  <2>3. arrived' \in [Streams -> Nat] /\ \A t \in Streams : arrived'[t] \in 0..MaxArrivals[t]
    BY <1>0, <2>1, <2>2 DEF ReceiverTypes
  <2> DEFINE g == Select(msg, QueueOf(s))
  <2>4. ReceiverTypes' /\ in'[s].at = "select" /\ \A t \in Streams : t # s => in'[t] = in[t]
    <3>1. /\ g \in Goroutine({"none", "recv", "select", "returned"}, Messages(s))
          /\ g.at = "select" /\ g.msg = msg
      BY GoroutineTypes
    <3> HIDE DEF g
    <3>2. DOMAIN in = Streams /\ in' = [in EXCEPT ![s] = g]
      BY <1>0 DEF ReceiverTypes, g
    <3>3. DOMAIN in' = Streams /\ in'[s] = g /\ \A t \in Streams : t # s => in'[t] = in[t]
      BY <3>2
    <3>4. arrived'[s] = msg.n /\ \A t \in Streams : t # s => arrived'[t] = arrived[t]
      BY <1>0, <2>1 DEF ReceiverTypes
    <3>5. \A t \in Streams :
            /\ in'[t] \in Goroutine({"none", "recv", "select", "returned"}, Messages(t))
            /\ in'[t].at = "select" => in'[t].msg \in Messages(t) /\ in'[t].msg.n = arrived'[t]
      BY <1>0, <3>1, <3>3, <3>4 DEF ReceiverTypes
    <3>6. in' = [t \in Streams |-> in'[t]]
      BY <3>2, <3>3
    <3>7. ReceiverTypes'
      BY <2>3, <3>3, <3>5, <3>6 DEF ReceiverTypes
    <3> QED BY <3>1, <3>3, <3>7
  <2>5. NotYetOpen'
    BY <1>0, <1>3, <2>4, MessageKinds DEF NotYetOpen, Recv
  <2> QED BY <1>3, <1>q, <1>s, <1>c, <1>h, <1>u, <1>b, <1>goal, <2>4, <2>5 DEF Recv
<1>4. ASSUME NEW s \in Streams, Enqueue(s) PROVE TypeInv'
  <2>1. /\ in[s].msg \in Messages(s)
        /\ queue' = [queue EXCEPT ![QueueOf(s)] = Append(@, in[s].msg)]
        /\ Len(queue[QueueOf(s)]) < Capacity[QueueOf(s)]
        /\ in' = [in EXCEPT ![s] = At("recv")]
    BY <1>0, <1>4 DEF Enqueue, ReceiverTypes, HasSpace
  <2>2. QueueTypes'
    <3>1. CASE s \in DirectiveStreams
      BY <1>0, <2>1, <3>1, MessageKinds DEF QueueTypes, Queues
    <3>2. CASE s \in ElementStreams
      BY <1>0, <2>1, <3>2, MessageKinds DEF QueueTypes, Queues
    <3> QED BY <3>1, <3>2 DEF Streams
  <2>3. ReceiverTypes' /\ in'[s].at = "recv" /\ \A t \in Streams : t # s => in'[t] = in[t]
    BY <1>0, <1>4, <2>1, ReceiverMoves DEF Enqueue
  <2>4. NotYetOpen'
    BY <1>0, <1>4, <2>3, MessageKinds DEF NotYetOpen, Enqueue
  <2>5. SentTypes'
    BY <1>0, <1>4 DEF SentTypes, Enqueue
  <2> QED BY <1>4, <1>s, <1>c, <1>u, <1>b, <1>goal, <2>2, <2>3, <2>4, <2>5 DEF Enqueue
<1>5. ASSUME NEW s \in Streams, Panic(s) PROVE TypeInv'
  <2>1. RunTypes'
    BY <1>0, <1>5 DEF Panic, RunTypes
  <2> QED BY <1>5, <1>q, <1>r, <1>s, <1>o, <1>c, <1>h, <1>b, <1>goal, <2>1 DEF Panic
<1>6. ASSUME NEW s \in Streams, EndRecv(s) PROVE TypeInv'
  <2>0. in' = [in EXCEPT ![s] = At("returned")] /\ UNCHANGED <<arrived, out>> /\ in[s].at # "none"
    BY <1>6 DEF EndRecv
  <2>1. ReceiverTypes' /\ in'[s].at = "returned" /\ \A t \in Streams : t # s => in'[t] = in[t]
    BY <1>0, <2>0, ReceiverMoves
  <2>2. NotYetOpen'
    BY <1>0, <2>0, <2>1, MessageKinds DEF NotYetOpen
  <2>3. RunTypes'
    BY <1>0, <1>6 DEF EndRecv, RunTypes
  <2> QED BY <1>6, <1>q, <1>s, <1>c, <1>h, <1>b, <1>goal, <2>1, <2>2, <2>3 DEF EndRecv
<1>7. ASSUME NEW e \in ElementStreams, TakeDirective(e) PROVE TypeInv'
  <2>1. /\ queue["directives"] # << >>
        /\ queue' = [queue EXCEPT !["directives"] = Tail(@)]
        /\ out' = [out EXCEPT ![e] = [At("send") EXCEPT !.msg = Head(queue["directives"])]]
        /\ in[e].at # "none"
    BY <1>0, <1>7 DEF TakeDirective, MayTake, NotYetOpen
  <2>2. Head(queue["directives"]) \in Directives
    BY <1>0, <2>1 DEF QueueTypes
  <2>3. QueueTypes'
    BY <1>0, <2>1 DEF QueueTypes, Queues
  <2>4. SenderTypes'
    <3>1. [At("send") EXCEPT !.msg = Head(queue["directives"])]
            \in [at : {"send"}, msg : Directives, ch : {"nil"}]
      BY <2>2 DEF At
    <3> DEFINE g == [At("send") EXCEPT !.msg = Head(queue["directives"])]
    <3>2. /\ g \in Goroutine({"none", "select", "send", "returned"}, Directives)
          /\ g.at = "send" /\ g.msg \in Directives
      BY <3>1 DEF Goroutine
    <3> HIDE DEF g
    <3>3. out' = [out EXCEPT ![e] = g]
      BY <2>1 DEF g
    <3> QED BY <1>0, <3>2, <3>3, SenderMoves
  <2>5. NotYetOpen'
    <3>1. in' = in /\ \A f \in ElementStreams : f # e => out'[f] = out[f]
      BY <1>0, <1>7, <2>1 DEF TakeDirective, SenderTypes
    <3> QED BY <1>0, <2>1, <3>1 DEF NotYetOpen
  <2> QED BY <1>7, <1>r, <1>c, <1>h, <1>u, <1>b, <1>goal, <2>3, <2>4, <2>5 DEF TakeDirective
<1>8. ASSUME NEW e \in ElementStreams, SendDirective(e) PROVE TypeInv'
  <2>1. /\ out[e].msg \in Directives /\ in[e].at # "none"
        /\ out' = [out EXCEPT ![e] = Select(None, "directives")]
    BY <1>0, <1>8 DEF SendDirective, AfterSend, SenderTypes, NotYetOpen
  <2>2. SentTypes'
    BY <1>0, <1>8, <2>1 DEF SentTypes, SendDirective
  <2> DEFINE g == Select(None, "directives")
  <2>a. /\ g \in Goroutine({"none", "select", "send", "returned"}, Directives)
        /\ g.at = "select" /\ g.msg = None
    BY GoroutineTypes
  <2> HIDE DEF g
  <2>3. SenderTypes' /\ \A f \in ElementStreams : f # e => out'[f] = out[f]
    <3>1. out' = [out EXCEPT ![e] = g]
      BY <2>1 DEF g
    <3> QED BY <1>0, <2>a, <3>1, SenderMoves
  <2>4. NotYetOpen'
    BY <1>0, <1>8, <2>1, <2>3 DEF NotYetOpen, SendDirective
  <2> QED BY <1>8, <1>q, <1>r, <1>c, <1>u, <1>b, <1>goal, <2>2, <2>3, <2>4 DEF SendDirective
<1>9. ASSUME NEW e \in ElementStreams, FailSend(e) \/ EndSend(e) PROVE TypeInv'
  <2>1. out' = [out EXCEPT ![e] = At("returned")] /\ in[e].at # "none" /\ in' = in
    BY <1>0, <1>9 DEF FailSend, EndSend, NotYetOpen
  <2>2. SenderTypes' /\ \A f \in ElementStreams : f # e => out'[f] = out[f]
    <3>1. /\ At("returned") \in Goroutine({"none", "select", "send", "returned"}, Directives)
          /\ At("returned").at = "returned" /\ At("returned").msg = None
      BY GoroutineTypes
    <3> QED BY <1>0, <2>1, <3>1, SenderMoves
  <2>3. NotYetOpen'
    BY <1>0, <2>1, <2>2 DEF NotYetOpen
  <2>4. SentTypes' /\ RunTypes'
    BY <1>0, <1>9, MessageKinds DEF FailSend, EndSend, SentTypes, RunTypes, SenderTypes
  <2> QED BY <1>9, <1>q, <1>r, <1>c, <1>b, <1>goal, <2>2, <2>3, <2>4 DEF FailSend, EndSend
<1>10. ASSUME NEW c \in Clients, OpenClient(c) \/ CloseClient(c) \/ WriteElement(c) PROVE TypeInv'
  <2>1. /\ client' \in [Clients -> {"none", "open", "returned"}]
        /\ \/ UNCHANGED <<buffers, got>>
           \/ buffers' = [buffers EXCEPT ![c] = << >>] /\ UNCHANGED got
           \/ /\ buffers[c] # << >> /\ buffers' = [buffers EXCEPT ![c] = Tail(@)]
              /\ got' = [got EXCEPT ![c] = Append(@, Head(buffers[c]))]
    BY <1>0, <1>10 DEF ClientTypes, OpenClient, CloseClient, WriteElement
  <2>2. /\ buffers \in [Clients -> Seq(Elements)] /\ got \in [Clients -> Seq(Elements)]
        /\ \A d \in Clients : Len(buffers[d]) <= Capacity["client"]
        /\ Capacity["client"] \in Nat
    BY <1>0 DEF ClientTypes
  <2>3. /\ buffers' \in [Clients -> Seq(Elements)] /\ got' \in [Clients -> Seq(Elements)]
        /\ \A d \in Clients : Len(buffers'[d]) <= Capacity["client"]
    <3>1. CASE UNCHANGED <<buffers, got>>
      BY <2>2, <3>1
    <3>2. CASE buffers' = [buffers EXCEPT ![c] = << >>] /\ UNCHANGED got
      <4>1. << >> \in Seq(Elements) /\ Len(<< >>) = 0
        OBVIOUS
      <4>2. \A d \in Clients : buffers'[d] = IF d = c THEN << >> ELSE buffers[d]
        BY <2>2, <3>2
      <4>3. buffers' \in [Clients -> Seq(Elements)]
        BY <2>2, <3>2, <4>1
      <4> QED BY <2>2, <3>2, <4>1, <4>2, <4>3
    <3>3. CASE /\ buffers[c] # << >> /\ buffers' = [buffers EXCEPT ![c] = Tail(@)]
               /\ got' = [got EXCEPT ![c] = Append(@, Head(buffers[c]))]
      <4>1. /\ Tail(buffers[c]) \in Seq(Elements) /\ Len(Tail(buffers[c])) = Len(buffers[c]) - 1
            /\ Len(buffers[c]) \in Nat /\ Head(buffers[c]) \in Elements
        BY <2>2, <3>3
      <4>2. \A d \in Clients : buffers'[d] = IF d = c THEN Tail(buffers[c]) ELSE buffers[d]
        BY <2>2, <3>3
      <4> DEFINE cap == Capacity["client"]
                 rest == Tail(buffers[c])
                 len == Len(buffers[c])
      <4>a. cap \in Nat /\ len \in Nat /\ len <= cap /\ Len(rest) = len - 1
        BY <2>2, <4>1
      <4> HIDE DEF cap, len
      <4>b. Len(rest) <= cap
        BY <4>a
      <4>3. \A d \in Clients : Len(buffers'[d]) <= Capacity["client"]
        <5> SUFFICES ASSUME NEW d \in Clients PROVE Len(buffers'[d]) <= cap
          BY DEF cap
        <5>1. CASE d = c
          BY <4>2, <4>b, <5>1
        <5>2. CASE d # c
          BY <2>2, <4>2, <5>2 DEF cap
        <5> QED BY <5>1, <5>2
      <4>4. buffers' \in [Clients -> Seq(Elements)]
        BY <2>2, <3>3, <4>1
      <4>5. got' \in [Clients -> Seq(Elements)]
        BY <2>2, <3>3, <4>1
      <4> QED BY <4>3, <4>4, <4>5
    <3> QED BY <2>1, <3>1, <3>2, <3>3
  <2>4. ClientTypes'
    BY <2>1, <2>3 DEF ClientTypes
  <2> QED BY <1>10, <1>q, <1>r, <1>s, <1>o, <1>h, <1>u, <1>b, <1>goal, <2>4
          DEF OpenClient, CloseClient, WriteElement
<1>11. CASE FanOut
  <2>1. /\ queue["elements"] # << >>
        /\ queue' = [queue EXCEPT !["elements"] = Tail(queue["elements"])]
    BY <1>11 DEF FanOut, MayFanOut, AfterFanOut
  <2>2. Head(queue["elements"]) \in Elements
    BY <1>0, <2>1 DEF QueueTypes
  <2>3. QueueTypes'
    BY <1>0, <2>1 DEF QueueTypes, Queues
  <2>4. buffers' \in [Clients -> Seq(Elements)]
    BY <1>0, <1>11, <2>2 DEF FanOut, ClientTypes
  <2>5. \A c \in Clients : Len(buffers'[c]) <= Capacity["client"]
    <3> SUFFICES ASSUME NEW c \in Clients PROVE Len(buffers'[c]) <= Capacity["client"]
      OBVIOUS
    <3>1. /\ buffers[c] \in Seq(Elements) /\ Len(buffers[c]) <= Capacity["client"]
          /\ Capacity["client"] \in Nat
      BY <1>0 DEF ClientTypes
    <3>2. buffers'[c] = IF HasRoom(c) THEN Append(buffers[c], Head(queue["elements"])) ELSE buffers[c]
      BY <1>11 DEF FanOut
    <3>3. CASE HasRoom(c)
      <4>1. Len(buffers[c]) < Capacity["client"]
        BY <3>3 DEF HasRoom
      <4> QED BY <2>2, <3>1, <3>2, <3>3, <4>1
    <3> QED BY <3>1, <3>2, <3>3
  <2>6. ClientTypes'
    BY <1>0, <1>11, <2>4, <2>5 DEF FanOut, ClientTypes
  <2>7. RunTypes'
    BY <1>0, <1>11 DEF FanOut, RunTypes, Field
  <2> QED BY <1>11, <1>r, <1>s, <1>o, <1>h, <1>b, <1>goal, <2>3, <2>6, <2>7 DEF FanOut
<1>12. CASE Cancel
  BY <1>12, <1>q, <1>r, <1>s, <1>o, <1>c, <1>h, <1>u, <1>goal DEF Cancel, Bools
<1>13. CASE EndFanout \/ Close \/ StopHTTP \/ DrainRPC \/ StopRPC \/ RunReturns
  <2>1. fan' = fan \/ fan' \in {"cancelled", "closed"}
    BY <1>13 DEF EndFanout, Close, StopHTTP, DrainRPC, StopRPC, RunReturns, Stop
  <2>2. closing' = closing \/ (closing < 4 /\ closing' = closing + 1)
    BY <1>13 DEF EndFanout, Close, StopHTTP, DrainRPC, StopRPC, RunReturns, Stop
  <2>3. running' \subseteq running /\ up' \subseteq up /\ failed' = failed
    BY <1>13 DEF EndFanout, Close, StopHTTP, DrainRPC, StopRPC, RunReturns, Stop
  <2>4. result' = result \/ result' \in {"clean", "error"}
    BY <1>13 DEF EndFanout, Close, StopHTTP, DrainRPC, StopRPC, RunReturns, Stop
  <2>5. RunTypes'
    <3>1. closing' \in 0..4
      BY <1>0, <2>2 DEF RunTypes
    <3> QED BY <1>0, <2>1, <2>3, <2>4, <3>1 DEF RunTypes
  <2> QED BY <1>13, <1>q, <1>r, <1>s, <1>o, <1>c, <1>h, <1>b, <1>goal, <2>5
          DEF EndFanout, Close, StopHTTP, DrainRPC, StopRPC, RunReturns, Stop
<1>14. CASE UNCHANGED vars
  BY <1>14, <1>q, <1>r, <1>s, <1>o, <1>c, <1>h, <1>u, <1>b, <1>goal DEF vars
<1> QED
  BY <1>1, <1>2, <1>3, <1>4, <1>5, <1>6, <1>7, <1>8, <1>9, <1>10, <1>11, <1>12, <1>13, <1>14
  DEF Next, Receiver, Sender, Peers, Ended

\* The same as an invariant of the specification.
LEMMA TypeInvAlways == Spec => []TypeInv
BY InitTypeInv, NextTypeInv, PTL DEF Spec

\* The shape of the state never changes and no channel holds more than its capacity,
\* through broken streams, slow clients and every order of the shutdown.
THEOREM TypeCorrect == Spec => []TypeOK
BY TypeInvAlways, PTL DEF TypeInv

-----------------------------------------------------------------------------
(* The order of messages.  On their way they keep the order in which they      *)
(* arrived: what was written to a connection is below what is in its sender's   *)
(* hand or its buffer, that below the queue, and that below what a receiver     *)
(* still holds.                                                                *)

Below(x, y) == x.from = y.from => x.n < y.n
AllBelow(s, x) == \A y \in Range(s) : Below(y, x)
AllAbove(x, s) == \A y \in Range(s) : Below(x, y)
Precede(s, t) == \A x \in Range(s) : AllAbove(x, t)

\* What was put in a queue arrived before what a receiver still holds.
Old(m) == m.n <= arrived[m.from] /\ (in[m.from].at = "select" => m.n < arrived[m.from])
AllOld(s) == \A x \in Range(s) : Old(x)

DirectiveOrder ==
  /\ InOrder(queue["directives"]) /\ AllOld(queue["directives"])
  /\ \A e \in ElementStreams :
       /\ InOrder(sent[e]) /\ AllOld(sent[e]) /\ Precede(sent[e], queue["directives"])
       /\ out[e].at = "send" =>
            /\ Old(out[e].msg)
            /\ AllBelow(sent[e], out[e].msg) /\ AllAbove(out[e].msg, queue["directives"])

ElementOrder ==
  /\ InOrder(queue["elements"]) /\ AllOld(queue["elements"])
  /\ \A c \in Clients :
       /\ InOrder(got[c]) /\ InOrder(buffers[c]) /\ AllOld(got[c]) /\ AllOld(buffers[c])
       /\ Precede(got[c], buffers[c])
       /\ Precede(got[c], queue["elements"]) /\ Precede(buffers[c], queue["elements"])

\* What a sequence holds after an append.
LEMMA RangeAppend ==
  ASSUME NEW S, NEW s \in Seq(S), NEW x \in S
  PROVE  Range(Append(s, x)) = Range(s) \cup {x}
<1>1. /\ DOMAIN Append(s, x) = 1..Len(s) + 1 /\ DOMAIN s = 1..Len(s) /\ Len(s) \in Nat
      /\ \A i \in DOMAIN s : Append(s, x)[i] = s[i]
      /\ Append(s, x)[Len(s) + 1] = x
  OBVIOUS
<1>2. \A i \in DOMAIN Append(s, x) : i \in DOMAIN s \/ i = Len(s) + 1
  BY <1>1
<1>3. DOMAIN s \subseteq DOMAIN Append(s, x) /\ Len(s) + 1 \in DOMAIN Append(s, x)
  BY <1>1
<1> QED BY <1>1, <1>2, <1>3, Zenon DEF Range

\* What a sequence holds before its head is taken.
LEMMA RangeTail ==
  ASSUME NEW S, NEW s \in Seq(S), s # << >>
  PROVE  /\ Head(s) \in S /\ Tail(s) \in Seq(S)
         /\ Range(s) = {Head(s)} \cup Range(Tail(s))
<1>1. /\ DOMAIN s = 1..Len(s) /\ Len(s) \in Nat \ {0}
      /\ Head(s) = s[1] /\ Head(s) \in S /\ Tail(s) \in Seq(S)
      /\ DOMAIN Tail(s) = 1..(Len(s) - 1)
      /\ \A i \in 1..(Len(s) - 1) : Tail(s)[i] = s[i + 1]
  OBVIOUS
<1>2. \A x \in Range(s) : x = Head(s) \/ x \in Range(Tail(s))
  <2> SUFFICES ASSUME NEW i \in DOMAIN s, i # 1 PROVE s[i] \in Range(Tail(s))
    BY <1>1 DEF Range
  <2>1. i - 1 \in DOMAIN Tail(s) /\ Tail(s)[i - 1] = s[i]
    BY <1>1
  <2> QED BY <2>1 DEF Range
<1>3. \A x \in Range(Tail(s)) : x \in Range(s)
  <2> SUFFICES ASSUME NEW i \in DOMAIN Tail(s) PROVE Tail(s)[i] \in Range(s)
    BY DEF Range
  <2>1. i + 1 \in DOMAIN s /\ Tail(s)[i] = s[i + 1]
    BY <1>1
  <2> QED BY <2>1 DEF Range
<1>4. Head(s) \in Range(s)
  BY <1>1 DEF Range
<1> QED BY <1>1, <1>2, <1>3, <1>4

\* The elements of a sequence are of its type.
LEMMA RangeType ==
  ASSUME NEW S, NEW s \in Seq(S)
  PROVE  Range(s) \subseteq S
BY DEF Range

\* A message above all of a sequence can be appended to it.
LEMMA InOrderAppend ==
  ASSUME NEW S, NEW s \in Seq(S), NEW x \in S, InOrder(s), AllBelow(s, x)
  PROVE  InOrder(Append(s, x))
<1> DEFINE t == Append(s, x)
<1> SUFFICES ASSUME NEW i \in DOMAIN t, NEW j \in DOMAIN t, i < j, t[i].from = t[j].from
             PROVE  t[i].n < t[j].n
  BY DEF InOrder
<1>1. /\ DOMAIN t = 1..Len(s) + 1 /\ DOMAIN s = 1..Len(s) /\ Len(s) \in Nat
      /\ \A k \in DOMAIN s : t[k] = s[k]
      /\ t[Len(s) + 1] = x
  OBVIOUS
<1>2. i \in DOMAIN s /\ t[i] = s[i]
  BY <1>1
<1>3. CASE j \in DOMAIN s
  BY <1>1, <1>2, <1>3 DEF InOrder
<1>4. CASE j = Len(s) + 1
  <2>1. t[j] = x /\ s[i] \in Range(s)
    BY <1>1, <1>2, <1>4 DEF Range
  <2> QED BY <1>2, <2>1 DEF AllBelow, Below
<1> QED BY <1>1, <1>3, <1>4

\* The head of a sequence in order is below the rest, which is in order.
LEMMA InOrderTail ==
  ASSUME NEW S, NEW s \in Seq(S), s # << >>, InOrder(s)
  PROVE  InOrder(Tail(s)) /\ AllAbove(Head(s), Tail(s))
<1>1. /\ DOMAIN s = 1..Len(s) /\ Len(s) \in Nat \ {0} /\ Head(s) = s[1]
      /\ DOMAIN Tail(s) = 1..(Len(s) - 1)
      /\ \A i \in 1..(Len(s) - 1) : Tail(s)[i] = s[i + 1]
  OBVIOUS
<1>2. \A i \in DOMAIN Tail(s) : i + 1 \in DOMAIN s /\ 1 \in DOMAIN s /\ 1 < i + 1 /\ i \in Int
  BY <1>1
<1>3. InOrder(Tail(s))
  <2> SUFFICES ASSUME NEW i \in DOMAIN Tail(s), NEW j \in DOMAIN Tail(s), i < j,
                      Tail(s)[i].from = Tail(s)[j].from
               PROVE  Tail(s)[i].n < Tail(s)[j].n
    BY DEF InOrder
  <2>1. i + 1 < j + 1
    BY <1>2
  <2> QED BY <1>1, <1>2, <2>1 DEF InOrder
<1>4. \A i \in DOMAIN Tail(s) : Below(Head(s), Tail(s)[i])
  BY <1>1, <1>2 DEF InOrder, Below
<1> QED BY <1>3, <1>4 DEF AllAbove, Range

\* Two sequences in order, the first below the second, are in order one after the other.
LEMMA InOrderConcat ==
  ASSUME NEW S, NEW s \in Seq(S), NEW t \in Seq(S), InOrder(s), InOrder(t), Precede(s, t)
  PROVE  InOrder(s \o t)
<1> DEFINE u == s \o t
<1> SUFFICES ASSUME NEW i \in DOMAIN u, NEW j \in DOMAIN u, i < j, u[i].from = u[j].from
             PROVE  u[i].n < u[j].n
  BY DEF InOrder
<1>1. /\ DOMAIN s = 1..Len(s) /\ Len(s) \in Nat /\ DOMAIN t = 1..Len(t) /\ Len(t) \in Nat
      /\ DOMAIN u = 1..(Len(s) + Len(t))
      /\ \A k \in 1..(Len(s) + Len(t)) : u[k] = IF k <= Len(s) THEN s[k] ELSE t[k - Len(s)]
  OBVIOUS
<1> HIDE DEF u
<1>2. \A k \in DOMAIN u :
        k \in Int /\ IF k <= Len(s) THEN k \in DOMAIN s /\ u[k] = s[k]
                                    ELSE k - Len(s) \in DOMAIN t /\ u[k] = t[k - Len(s)]
  BY <1>1
<1>3. CASE j <= Len(s)
  <2>1. i <= Len(s)
    BY <1>1, <1>2, <1>3
  <2> QED BY <1>2, <1>3, <2>1 DEF InOrder
<1>4. CASE ~ (i <= Len(s))
  <2>1. ~ (j <= Len(s)) /\ i - Len(s) < j - Len(s)
    BY <1>1, <1>2, <1>4
  <2> QED BY <1>2, <1>4, <2>1 DEF InOrder
<1>5. CASE i <= Len(s) /\ ~ (j <= Len(s))
  <2>1. u[i] \in Range(s) /\ u[j] \in Range(t)
    BY <1>2, <1>5 DEF Range
  <2> QED BY <2>1 DEF Precede, AllAbove, Below
<1> QED BY <1>3, <1>4, <1>5

\* A receiver enters its select only with a message that has just arrived.
LEMMA ArrivalStep ==
  ASSUME TypeInv, [Next]_vars, NEW t \in Streams
  PROVE  \/ arrived'[t] = arrived[t] + 1
         \/ arrived'[t] = arrived[t] /\ (in'[t].at = "select" => in[t].at = "select")
<1> USE DEF queueVars, streamVars, clientVars, runVars, historyVars
<1> DEFINE Goal == \/ arrived'[t] = arrived[t] + 1
                   \/ arrived'[t] = arrived[t] /\ (in'[t].at = "select" => in[t].at = "select")
<1>0. ReceiverTypes
  BY TypeParts
<1>k. UNCHANGED <<arrived, in>> => Goal
  OBVIOUS
<1>m. ASSUME NEW s \in Streams, NEW p \in {"recv", "returned"},
             in' = [in EXCEPT ![s] = At(p)], UNCHANGED arrived
      PROVE  Goal
  <2>1. in'[s].at = p /\ \A u \in Streams : u # s => in'[u] = in[u]
    BY <1>0, <1>m, ReceiverMoves
  <2> QED BY <1>m, <2>1
<1>1. ASSUME NEW s \in Streams, OpenStream(s) PROVE Goal
  BY <1>1, <1>m DEF OpenStream
<1>2. ASSUME NEW s \in Streams, Recv(s) PROVE Goal
  <2> PICK msg \in Messages(s) : in' = [in EXCEPT ![s] = Select(msg, QueueOf(s))]
    BY <1>2 DEF Recv
  <2>1. arrived' = [arrived EXCEPT ![s] = @ + 1]
    BY <1>2 DEF Recv
  <2>2. CASE s = t
    BY <1>0, <2>1, <2>2 DEF ReceiverTypes
  <2>3. CASE s # t
    BY <1>0, <2>1, <2>3 DEF ReceiverTypes
  <2> QED BY <2>2, <2>3
<1>3. ASSUME NEW s \in Streams, Enqueue(s) PROVE Goal
  BY <1>3, <1>m DEF Enqueue
<1>4. ASSUME NEW s \in Streams, EndRecv(s) PROVE Goal
  BY <1>4, <1>m DEF EndRecv
<1>5. ASSUME NEW s \in Streams, Break(s) \/ Panic(s) PROVE Goal
  BY <1>5, <1>k DEF Break, Panic
<1>6. ASSUME NEW e \in ElementStreams, Sender(e) \/ SendDirective(e) PROVE Goal
  BY <1>6, <1>k DEF Sender, TakeDirective, SendDirective, FailSend, EndSend
<1>7. ASSUME NEW c \in Clients, OpenClient(c) \/ CloseClient(c) \/ WriteElement(c) PROVE Goal
  BY <1>7, <1>k DEF OpenClient, CloseClient, WriteElement
<1>8. CASE FanOut \/ EndFanout \/ Cancel \/ Close \/ StopHTTP \/ DrainRPC \/ StopRPC \/ RunReturns
  BY <1>8, <1>k DEF FanOut, EndFanout, Cancel, Close, StopHTTP, DrainRPC, StopRPC, RunReturns, Stop
<1>9. CASE UNCHANGED vars
  BY <1>9, <1>k DEF vars
<1> QED
  BY <1>1, <1>2, <1>3, <1>4, <1>5, <1>6, <1>7, <1>8, <1>9 DEF Next, Receiver, Peers, Ended

\* What is old stays old.
LEMMA OldStep ==
  ASSUME TypeInv, [Next]_vars, NEW m \in Directives \cup Elements, Old(m)
  PROVE  Old(m)'
<1>1. m.from \in Streams /\ m.n \in Int
  BY DEF Directives, Elements, Messages, Streams
<1>2. arrived[m.from] \in Nat
  BY <1>1, TypeParts DEF ReceiverTypes
<1>3. CASE arrived'[m.from] = arrived[m.from] + 1
  BY <1>1, <1>2, <1>3 DEF Old
<1>4. CASE /\ arrived'[m.from] = arrived[m.from]
           /\ in'[m.from].at = "select" => in[m.from].at = "select"
  BY <1>4 DEF Old
<1> QED BY <1>1, <1>3, <1>4, ArrivalStep

\* A message that is put in its queue is above all the old ones, and is old from then on.
LEMMA EnqueueOrder ==
  ASSUME TypeInv, NEW s \in Streams, Enqueue(s)
  PROVE  /\ in[s].msg \in Messages(s)
         /\ queue' = [queue EXCEPT ![QueueOf(s)] = Append(@, in[s].msg)]
         /\ \A m : Old(m) => Below(m, in[s].msg)
         /\ in[s].msg.n <= arrived'[in[s].msg.from] /\ in'[in[s].msg.from].at = "recv"
<1> DEFINE x == in[s].msg
<1>0. ReceiverTypes
  BY TypeParts
<1>1. in[s].at = "select" /\ x \in Messages(s) /\ x.n = arrived[s] /\ arrived[s] \in Nat
  BY <1>0 DEF Enqueue, ReceiverTypes
<1>2. x.from = s
  BY <1>1, MessageKinds
<1>3. \A m : Old(m) => Below(m, x)
  BY <1>1, <1>2 DEF Old, Below
<1>4. arrived' = arrived /\ in'[s].at = "recv"
  BY <1>0, ReceiverMoves DEF Enqueue
<1>5. queue' = [queue EXCEPT ![QueueOf(s)] = Append(@, x)]
  BY DEF Enqueue
<1> HIDE DEF x
<1>6. x.n <= arrived'[x.from] /\ in'[x.from].at = "recv"
  BY <1>1, <1>2, <1>4
<1> QED BY <1>1, <1>3, <1>5, <1>6 DEF x

\* The types that the order of messages rests on.
LEMMA SequenceTypes ==
  ASSUME TypeInv
  PROVE  /\ queue["directives"] \in Seq(Directives) /\ queue["elements"] \in Seq(Elements)
         /\ DOMAIN queue = Queues
         /\ \A e \in ElementStreams :
              /\ sent[e] \in Seq(Directives)
              /\ out[e].at = "send" => out[e].msg \in Directives
              /\ out[e].at # "send" => out[e].msg = None
         /\ \A c \in Clients : got[c] \in Seq(Elements) /\ buffers[c] \in Seq(Elements)
<1>1. QueueTypes /\ SentTypes /\ SenderTypes /\ ClientTypes
  BY TypeParts
<1> QED BY <1>1 DEF QueueTypes, SentTypes, SenderTypes, ClientTypes

\* Directives keep their order through the queue and the hand of each sender.
LEMMA DirectiveOrderStep == TypeInv /\ DirectiveOrder /\ [Next]_vars => DirectiveOrder'
<1> SUFFICES ASSUME TypeInv, DirectiveOrder, [Next]_vars PROVE DirectiveOrder'
  OBVIOUS
<1> USE DEF queueVars, streamVars, clientVars, runVars, historyVars
<1> DEFINE D == queue["directives"]
           DD == queue'["directives"]
           New(m) == /\ m.n <= arrived'[m.from]
                     /\ in'[m.from].at = "select" => m.n < arrived'[m.from]
           SenderOrder(e) ==
             /\ InOrder(sent'[e]) /\ (\A x \in Range(sent'[e]) : New(x))
             /\ Precede(sent'[e], DD)
             /\ out'[e].at = "send" =>
                  /\ New(out'[e].msg)
                  /\ AllBelow(sent'[e], out'[e].msg) /\ AllAbove(out'[e].msg, DD)
<1>goal. ASSUME InOrder(DD), \A x \in Range(DD) : New(x), \A e \in ElementStreams : SenderOrder(e)
         PROVE  DirectiveOrder'
  BY <1>goal DEF DirectiveOrder, AllOld, Old
<1>t. /\ D \in Seq(Directives) /\ Range(D) \subseteq Directives
      /\ \A e \in ElementStreams :
           /\ sent[e] \in Seq(Directives) /\ Range(sent[e]) \subseteq Directives
           /\ out[e].at = "send" => out[e].msg \in Directives
  BY SequenceTypes, RangeType
<1>old. \A m \in Directives : Old(m) => New(m)
  BY OldStep DEF Old
<1>now. /\ InOrder(D) /\ \A x \in Range(D) : Old(x)
        /\ \A e \in ElementStreams :
             /\ InOrder(sent[e]) /\ (\A x \in Range(sent[e]) : Old(x)) /\ Precede(sent[e], D)
             /\ out[e].at = "send" =>
                  Old(out[e].msg) /\ AllBelow(sent[e], out[e].msg) /\ AllAbove(out[e].msg, D)
  BY DEF DirectiveOrder, AllOld
<1> HIDE DEF New, D, DD
<1>same. ASSUME NEW e \in ElementStreams, DD = D, sent'[e] = sent[e],
                out'[e].at = "send" => out'[e] = out[e]
         PROVE  SenderOrder(e)
  BY <1>same, <1>t, <1>old, <1>now
<1>k. ASSUME UNCHANGED sent, DD = D,
             \A e \in ElementStreams : out'[e].at = "send" => out'[e] = out[e]
      PROVE  DirectiveOrder'
  <2>1. InOrder(DD) /\ \A x \in Range(DD) : New(x)
    BY <1>k, <1>t, <1>old, <1>now
  <2>2. \A e \in ElementStreams : SenderOrder(e)
    BY <1>k, <1>same
  <2> QED BY <1>goal, <2>1, <2>2
<1>1. ASSUME NEW s \in Streams, Enqueue(s) PROVE DirectiveOrder'
  <2> DEFINE x == in[s].msg
  <2>0. UNCHANGED <<sent, out>>
    BY <1>1 DEF Enqueue
  <2>1. CASE s \in ElementStreams
    <3>1. QueueOf(s) = "elements"
      BY <2>1, MessageKinds
    <3>2. DD = D
      BY <1>1, <3>1, EnqueueOrder, SequenceTypes DEF D, DD, Queues
    <3> QED BY <1>k, <2>0, <3>2
  <2>2. CASE s \in DirectiveStreams
    <3>1. QueueOf(s) = "directives" /\ x \in Directives
      BY <1>1, <2>2, MessageKinds, EnqueueOrder
    <3>2. \A m : Old(m) => Below(m, x)
      BY <1>1, EnqueueOrder
    <3>3. New(x)
      BY <1>1, EnqueueOrder DEF New
    <3>4. DD = Append(D, x)
      BY <1>1, <3>1, EnqueueOrder, SequenceTypes DEF D, DD, Queues
    <3> HIDE DEF x
    <3>5. Range(DD) = Range(D) \cup {x}
      BY <1>t, <3>1, <3>4, RangeAppend
    <3>6. InOrder(DD)
      <4>1. AllBelow(D, x)
        BY <1>now, <3>2 DEF AllBelow
      <4> QED BY <1>t, <1>now, <3>1, <3>4, <4>1, InOrderAppend
    <3>7. \A y \in Range(DD) : New(y)
      BY <1>t, <1>now, <1>old, <3>3, <3>5
    <3>8. \A e \in ElementStreams : SenderOrder(e)
      <4> SUFFICES ASSUME NEW e \in ElementStreams PROVE SenderOrder(e)
        OBVIOUS
      <4>1. Precede(sent[e], DD)
        BY <1>now, <3>2, <3>5 DEF Precede, AllAbove
      <4>2. out[e].at = "send" => AllAbove(out[e].msg, DD)
        BY <1>now, <3>2, <3>5 DEF AllAbove
      <4> QED BY <1>t, <1>old, <1>now, <2>0, <4>1, <4>2
    <3> QED BY <1>goal, <3>6, <3>7, <3>8
  <2> QED BY <2>1, <2>2 DEF Streams
<1>2. ASSUME NEW e \in ElementStreams, TakeDirective(e) PROVE DirectiveOrder'
  <2> DEFINE h == Head(D)
  <2>1. D # << >> /\ DD = Tail(D) /\ UNCHANGED sent
    BY <1>2, SequenceTypes DEF TakeDirective, MayTake, D, DD, Queues
  <2>2. /\ \A f \in ElementStreams : f # e => out'[f] = out[f]
        /\ out'[e].msg = h
    <3>1. out' = [out EXCEPT ![e] = [At("send") EXCEPT !.msg = h]] /\ SenderTypes
      BY <1>2, TypeParts DEF TakeDirective, D
    <3> DEFINE g == [At("send") EXCEPT !.msg = h]
    <3>2. g.msg = h
      BY DEF At
    <3> HIDE DEF g
    <3>3. out' = [out EXCEPT ![e] = g]
      BY <3>1 DEF g
    <3> QED BY <3>1, <3>2, <3>3 DEF SenderTypes
  <2>3. h \in Directives /\ Range(D) = {h} \cup Range(DD) /\ DD \in Seq(Directives)
    BY <1>t, <2>1, RangeTail
  <2>4. InOrder(DD) /\ AllAbove(h, DD)
    BY <1>t, <1>now, <2>1, InOrderTail
  <2> HIDE DEF h
  <2>5. \A y \in Range(DD) : New(y)
    BY <1>t, <1>now, <1>old, <2>3
  <2>6. SenderOrder(e)
    <3>1. AllBelow(sent[e], h) /\ Precede(sent[e], DD)
      BY <1>now, <2>3 DEF Precede, AllAbove, AllBelow
    <3>2. New(h)
      BY <1>now, <1>old, <2>3
    <3> QED BY <1>t, <1>now, <1>old, <2>1, <2>2, <2>4, <3>1, <3>2
  <2>7. ASSUME NEW f \in ElementStreams, f # e PROVE SenderOrder(f)
    <3>1. Precede(sent[f], DD)
      BY <1>now, <2>3 DEF Precede, AllAbove
    <3>2. out[f].at = "send" => AllAbove(out[f].msg, DD)
      BY <1>now, <2>3 DEF AllAbove
    <3> QED BY <1>t, <1>now, <1>old, <2>1, <2>2, <2>7, <3>1, <3>2
  <2>8. \A f \in ElementStreams : SenderOrder(f)
    BY <2>6, <2>7
  <2> QED BY <1>goal, <2>4, <2>5, <2>8
<1>3. ASSUME NEW e \in ElementStreams, SendDirective(e) PROVE DirectiveOrder'
  <2> DEFINE m == out[e].msg
  <2>1. DD = D /\ sent'[e] = Append(sent[e], m) /\ out[e].at = "send"
        /\ (\A f \in ElementStreams : f # e => sent'[f] = sent[f])
    BY <1>3, TypeParts DEF SendDirective, D, DD, SentTypes
  <2>2. out'[e].at = "select" /\ \A f \in ElementStreams : f # e => out'[f] = out[f]
    BY <1>3, TypeParts, GoroutineTypes DEF SendDirective, AfterSend, SenderTypes
  <2>3. m \in Directives /\ Old(m) /\ AllBelow(sent[e], m) /\ AllAbove(m, D)
    BY <1>t, <1>now, <2>1
  <2> HIDE DEF m
  <2>4. InOrder(DD) /\ \A x \in Range(DD) : New(x)
    BY <1>t, <1>now, <1>old, <2>1
  <2>5. SenderOrder(e)
    <3>1. Range(sent'[e]) = Range(sent[e]) \cup {m}
      BY <1>t, <2>1, <2>3, RangeAppend
    <3>2. InOrder(sent'[e])
      BY <1>t, <1>now, <2>1, <2>3, InOrderAppend
    <3>3. \A x \in Range(sent'[e]) : New(x)
      BY <1>t, <1>now, <1>old, <2>3, <3>1
    <3>4. Precede(sent'[e], DD)
      BY <1>now, <2>1, <2>3, <3>1 DEF Precede
    <3> QED BY <2>2, <3>2, <3>3, <3>4
  <2>6. \A f \in ElementStreams : SenderOrder(f)
    <3> SUFFICES ASSUME NEW f \in ElementStreams, f # e PROVE SenderOrder(f)
      BY <2>5
    <3> QED BY <1>same, <2>1, <2>2
  <2> QED BY <1>goal, <2>4, <2>6
<1>4. ASSUME NEW e \in ElementStreams, FailSend(e) \/ EndSend(e) PROVE DirectiveOrder'
  <2>1. out'[e].at = "returned" /\ \A f \in ElementStreams : f # e => out'[f] = out[f]
    BY <1>4, TypeParts, GoroutineTypes DEF FailSend, EndSend, SenderTypes
  <2> QED BY <1>4, <1>k, <2>1 DEF FailSend, EndSend, D, DD
<1>5. ASSUME NEW s \in Streams, OpenStream(s) PROVE DirectiveOrder'
  <2>1. \A e \in ElementStreams : out'[e].at = "send" => out'[e] = out[e]
    BY <1>5, GoroutineTypes DEF OpenStream
  <2> QED BY <1>5, <1>k, <2>1 DEF OpenStream, D, DD
<1>6. ASSUME NEW s \in Streams, Recv(s) \/ Break(s) \/ Panic(s) \/ EndRecv(s) PROVE DirectiveOrder'
  BY <1>6, <1>k DEF Recv, Break, Panic, EndRecv, D, DD
<1>7. ASSUME NEW c \in Clients, OpenClient(c) \/ CloseClient(c) \/ WriteElement(c)
      PROVE  DirectiveOrder'
  BY <1>7, <1>k DEF OpenClient, CloseClient, WriteElement, D, DD
<1>8. CASE FanOut
  BY <1>8, <1>k, SequenceTypes DEF FanOut, D, DD
<1>9. CASE EndFanout \/ Cancel \/ Close \/ StopHTTP \/ DrainRPC \/ StopRPC \/ RunReturns
  BY <1>9, <1>k DEF EndFanout, Cancel, Close, StopHTTP, DrainRPC, StopRPC, RunReturns, Stop, D, DD
<1>10. CASE UNCHANGED vars
  BY <1>10, <1>k DEF vars, D, DD
<1> QED
  BY <1>1, <1>2, <1>3, <1>4, <1>5, <1>6, <1>7, <1>8, <1>9, <1>10
  DEF Next, Receiver, Sender, Peers, Ended

\* Elements keep their order through the queue and the channel of each client.
LEMMA ElementOrderStep == TypeInv /\ ElementOrder /\ [Next]_vars => ElementOrder'
<1> SUFFICES ASSUME TypeInv, ElementOrder, [Next]_vars PROVE ElementOrder'
  OBVIOUS
<1> USE DEF queueVars, streamVars, clientVars, runVars, historyVars
<1> DEFINE E == queue["elements"]
           EE == queue'["elements"]
           New(m) == /\ m.n <= arrived'[m.from]
                     /\ in'[m.from].at = "select" => m.n < arrived'[m.from]
           ClientOrder(c) ==
             /\ InOrder(got'[c]) /\ InOrder(buffers'[c])
             /\ (\A x \in Range(got'[c]) : New(x)) /\ (\A x \in Range(buffers'[c]) : New(x))
             /\ Precede(got'[c], buffers'[c])
             /\ Precede(got'[c], EE) /\ Precede(buffers'[c], EE)
<1>goal. ASSUME InOrder(EE), \A x \in Range(EE) : New(x), \A c \in Clients : ClientOrder(c)
         PROVE  ElementOrder'
  BY <1>goal DEF ElementOrder, AllOld, Old
<1>t. /\ E \in Seq(Elements) /\ Range(E) \subseteq Elements
      /\ \A c \in Clients :
           /\ got[c] \in Seq(Elements) /\ Range(got[c]) \subseteq Elements
           /\ buffers[c] \in Seq(Elements) /\ Range(buffers[c]) \subseteq Elements
  BY SequenceTypes, RangeType
<1>old. \A m \in Elements : Old(m) => New(m)
  BY OldStep DEF Old
<1>now. /\ InOrder(E) /\ \A x \in Range(E) : Old(x)
        /\ \A c \in Clients :
             /\ InOrder(got[c]) /\ InOrder(buffers[c])
             /\ (\A x \in Range(got[c]) : Old(x)) /\ (\A x \in Range(buffers[c]) : Old(x))
             /\ Precede(got[c], buffers[c]) /\ Precede(got[c], E) /\ Precede(buffers[c], E)
  BY DEF ElementOrder, AllOld
<1> HIDE DEF New, E, EE
<1>same. ASSUME NEW c \in Clients, EE = E, got'[c] = got[c], buffers'[c] = buffers[c]
         PROVE  ClientOrder(c)
  BY <1>same, <1>t, <1>old, <1>now
<1>k. ASSUME UNCHANGED <<got, buffers>>, EE = E
      PROVE  ElementOrder'
  <2>1. InOrder(EE) /\ \A x \in Range(EE) : New(x)
    BY <1>k, <1>t, <1>old, <1>now
  <2>2. \A c \in Clients : ClientOrder(c)
    BY <1>k, <1>same
  <2> QED BY <1>goal, <2>1, <2>2
<1>1. ASSUME NEW s \in Streams, Enqueue(s) PROVE ElementOrder'
  <2> DEFINE x == in[s].msg
  <2>0. UNCHANGED <<got, buffers>>
    BY <1>1 DEF Enqueue
  <2>1. CASE s \in DirectiveStreams
    <3>1. QueueOf(s) = "directives"
      BY <2>1, MessageKinds
    <3>2. EE = E
      BY <1>1, <3>1, EnqueueOrder, SequenceTypes DEF E, EE, Queues
    <3> QED BY <1>k, <2>0, <3>2
  <2>2. CASE s \in ElementStreams
    <3>1. QueueOf(s) = "elements" /\ x \in Elements
      BY <1>1, <2>2, MessageKinds, EnqueueOrder
    <3>2. \A m : Old(m) => Below(m, x)
      BY <1>1, EnqueueOrder
    <3>3. New(x)
      BY <1>1, EnqueueOrder DEF New
    <3>4. EE = Append(E, x)
      BY <1>1, <3>1, EnqueueOrder, SequenceTypes DEF E, EE, Queues
    <3> HIDE DEF x
    <3>5. Range(EE) = Range(E) \cup {x}
      BY <1>t, <3>1, <3>4, RangeAppend
    <3>6. InOrder(EE)
      <4>1. AllBelow(E, x)
        BY <1>now, <3>2 DEF AllBelow
      <4> QED BY <1>t, <1>now, <3>1, <3>4, <4>1, InOrderAppend
    <3>7. \A y \in Range(EE) : New(y)
      BY <1>t, <1>now, <1>old, <3>3, <3>5
    <3>8. \A c \in Clients : ClientOrder(c)
      <4> SUFFICES ASSUME NEW c \in Clients PROVE ClientOrder(c)
        OBVIOUS
      <4>1. Precede(got[c], EE) /\ Precede(buffers[c], EE)
        BY <1>now, <3>2, <3>5 DEF Precede, AllAbove
      <4> QED BY <1>t, <1>old, <1>now, <2>0, <4>1
    <3> QED BY <1>goal, <3>6, <3>7, <3>8
  <2> QED BY <2>1, <2>2 DEF Streams
<1>2. CASE FanOut
  <2> DEFINE h == Head(E)
  <2>1. /\ E # << >> /\ EE = Tail(E) /\ UNCHANGED got
        /\ \A c \in Clients : buffers'[c] = buffers[c] \/ buffers'[c] = Append(buffers[c], h)
    BY <1>2, SequenceTypes DEF FanOut, MayFanOut, AfterFanOut, E, EE, Queues
  <2>2. h \in Elements /\ Range(E) = {h} \cup Range(EE) /\ EE \in Seq(Elements)
    BY <1>t, <2>1, RangeTail
  <2>3. InOrder(EE) /\ AllAbove(h, EE)
    BY <1>t, <1>now, <2>1, InOrderTail
  <2> HIDE DEF h
  <2>4. (\A y \in Range(EE) : New(y)) /\ New(h)
    BY <1>t, <1>now, <1>old, <2>2
  <2>5. \A c \in Clients : ClientOrder(c)
    <3> SUFFICES ASSUME NEW c \in Clients PROVE ClientOrder(c)
      OBVIOUS
    <3>1. /\ Precede(got[c], EE) /\ Precede(buffers[c], EE)
          /\ AllBelow(buffers[c], h) /\ AllBelow(got[c], h)
      BY <1>now, <2>2 DEF Precede, AllAbove, AllBelow
    <3>2. CASE buffers'[c] = buffers[c]
      BY <1>t, <1>now, <1>old, <2>1, <3>1, <3>2
    <3>3. CASE buffers'[c] = Append(buffers[c], h)
      <4>1. Range(buffers'[c]) = Range(buffers[c]) \cup {h}
        BY <1>t, <2>2, <3>3, RangeAppend
      <4>2. InOrder(buffers'[c])
        BY <1>t, <1>now, <2>2, <3>1, <3>3, InOrderAppend
      <4>3. Precede(buffers'[c], EE)
        BY <2>3, <3>1, <4>1 DEF Precede
      <4>4. Precede(got[c], buffers'[c])
        BY <1>now, <3>1, <4>1 DEF Precede, AllAbove, AllBelow
      <4>5. (\A y \in Range(buffers'[c]) : New(y)) /\ \A y \in Range(got[c]) : New(y)
        BY <1>t, <1>now, <1>old, <2>4, <4>1
      <4> QED BY <1>now, <2>1, <3>1, <4>2, <4>3, <4>4, <4>5
    <3> QED BY <2>1, <3>2, <3>3
  <2> QED BY <1>goal, <2>3, <2>4, <2>5
<1>3. ASSUME NEW c \in Clients, WriteElement(c) PROVE ElementOrder'
  <2> DEFINE h == Head(buffers[c])
  <2>1. /\ EE = E /\ buffers[c] # << >>
        /\ got'[c] = Append(got[c], h) /\ buffers'[c] = Tail(buffers[c])
        /\ \A d \in Clients : d # c => got'[d] = got[d] /\ buffers'[d] = buffers[d]
    BY <1>3, TypeParts DEF WriteElement, ClientTypes, E, EE
  <2>2. h \in Elements /\ Range(buffers[c]) = {h} \cup Range(buffers'[c])
    BY <1>t, <2>1, RangeTail
  <2>3. InOrder(buffers'[c]) /\ AllAbove(h, buffers'[c])
    BY <1>t, <1>now, <2>1, InOrderTail
  <2> HIDE DEF h
  <2>4. AllBelow(got[c], h) /\ Precede(got[c], buffers'[c])
    BY <1>now, <2>2 DEF Precede, AllAbove, AllBelow
  <2>5. Range(got'[c]) = Range(got[c]) \cup {h}
    BY <1>t, <2>1, <2>2, RangeAppend
  <2>6. InOrder(got'[c])
    BY <1>t, <1>now, <2>1, <2>2, <2>4, InOrderAppend
  <2>7. Precede(got'[c], buffers'[c])
    BY <2>3, <2>4, <2>5 DEF Precede
  <2>8. Precede(got'[c], EE) /\ Precede(buffers'[c], EE)
    BY <1>now, <2>1, <2>2, <2>5 DEF Precede
  <2>9. (\A x \in Range(got'[c]) : New(x)) /\ \A x \in Range(buffers'[c]) : New(x)
    BY <1>t, <1>now, <1>old, <2>2, <2>5
  <2>10. \A d \in Clients : ClientOrder(d)
    <3>1. ClientOrder(c)
      BY <2>3, <2>6, <2>7, <2>8, <2>9
    <3>2. ASSUME NEW d \in Clients, d # c PROVE ClientOrder(d)
      BY <1>same, <2>1, <3>2
    <3> QED BY <3>1, <3>2
  <2>11. InOrder(EE) /\ \A x \in Range(EE) : New(x)
    BY <1>t, <1>now, <1>old, <2>1
  <2> QED BY <1>goal, <2>10, <2>11
<1>4. ASSUME NEW c \in Clients, CloseClient(c) PROVE ElementOrder'
  <2>1. /\ EE = E /\ UNCHANGED got /\ buffers'[c] = << >>
        /\ \A d \in Clients : d # c => buffers'[d] = buffers[d]
    BY <1>4, TypeParts DEF CloseClient, ClientTypes, E, EE
  <2>2. Range(buffers'[c]) = {} /\ InOrder(buffers'[c])
    BY <2>1 DEF Range, InOrder
  <2>3. ClientOrder(c)
    BY <1>t, <1>now, <1>old, <2>1, <2>2 DEF Precede, AllAbove
  <2>4. \A d \in Clients : ClientOrder(d)
    <3> SUFFICES ASSUME NEW d \in Clients, d # c PROVE ClientOrder(d)
      BY <2>3
    <3> QED BY <1>same, <2>1
  <2>5. InOrder(EE) /\ \A x \in Range(EE) : New(x)
    BY <1>t, <1>now, <1>old, <2>1
  <2> QED BY <1>goal, <2>4, <2>5
<1>5. ASSUME NEW e \in ElementStreams, TakeDirective(e) PROVE ElementOrder'
  BY <1>5, <1>k, SequenceTypes DEF TakeDirective, E, EE, Queues
<1>6. ASSUME NEW e \in ElementStreams, SendDirective(e) \/ FailSend(e) \/ EndSend(e)
      PROVE  ElementOrder'
  BY <1>6, <1>k DEF SendDirective, FailSend, EndSend, E, EE
<1>7. ASSUME NEW s \in Streams,
             OpenStream(s) \/ Recv(s) \/ Break(s) \/ Panic(s) \/ EndRecv(s)
      PROVE  ElementOrder'
  BY <1>7, <1>k DEF OpenStream, Recv, Break, Panic, EndRecv, E, EE
<1>8. ASSUME NEW c \in Clients, OpenClient(c) PROVE ElementOrder'
  BY <1>8, <1>k DEF OpenClient, E, EE
<1>9. CASE EndFanout \/ Cancel \/ Close \/ StopHTTP \/ DrainRPC \/ StopRPC \/ RunReturns
  BY <1>9, <1>k DEF EndFanout, Cancel, Close, StopHTTP, DrainRPC, StopRPC, RunReturns, Stop, E, EE
<1>10. CASE UNCHANGED vars
  BY <1>10, <1>k DEF vars, E, EE
<1> QED
  BY <1>1, <1>2, <1>3, <1>4, <1>5, <1>6, <1>7, <1>8, <1>9, <1>10
  DEF Next, Receiver, Sender, Peers, Ended

\* Both orders are invariants of the specification.
LEMMA OrdersAlways == Spec => [](DirectiveOrder /\ ElementOrder)
<1>1. Init => DirectiveOrder /\ ElementOrder
  <2> SUFFICES ASSUME Init PROVE DirectiveOrder /\ ElementOrder
    OBVIOUS
  <2>1. /\ queue["directives"] = << >> /\ queue["elements"] = << >>
        /\ \A e \in ElementStreams : sent[e] = << >> /\ out[e].at # "send"
        /\ \A c \in Clients : got[c] = << >> /\ buffers[c] = << >>
    BY DEF Init, Queues, At
  <2>2. InOrder(<< >>) /\ AllOld(<< >>) /\ Precede(<< >>, << >>)
    BY DEF InOrder, AllOld, Precede, Range
  <2> QED BY <2>1, <2>2 DEF DirectiveOrder, ElementOrder
<1>2. TypeInv /\ (DirectiveOrder /\ ElementOrder) /\ [Next]_vars
      => (DirectiveOrder /\ ElementOrder)'
  BY DirectiveOrderStep, ElementOrderStep
<1> QED BY <1>1, <1>2, TypeInvAlways, PTL DEF Spec

\* Each agent is sent the directives of one connection in the order of their arrival, for
\* any number of streams: the queue's one order survives the many senders that take from it.
THEOREM DirectivesAlwaysInOrder == Spec => []DirectivesInOrder
<1>1. DirectiveOrder => DirectivesInOrder
  BY DEF DirectiveOrder, DirectivesInOrder
<1> QED BY <1>1, OrdersAlways, PTL

\* Each client gets the elements of one connection in the order of their arrival and none
\* twice, whatever the fan-out dropped while its channel was full.
THEOREM ElementsAlwaysInOrder == Spec => []ElementsInOrder
<1>1. TypeInv /\ ElementOrder => ElementsInOrder
  BY SequenceTypes, InOrderConcat DEF ElementOrder, ElementsInOrder
<1> QED BY <1>1, OrdersAlways, TypeInvAlways, PTL


-----------------------------------------------------------------------------
(* Where a directive is: in the queue, in the hand of one sender, on one       *)
(* stream, or lost, and at exactly one of these once it was accepted.          *)

Queued(d) == d \in Range(queue["directives"])
Held(d) == \E e \in ElementStreams : out[e].msg = d
IsSent(d) == \E e \in ElementStreams : d \in Range(sent[e])

OnePlace ==
  /\ \A e, f \in ElementStreams :
       e # f => /\ out[e].msg \in Directives => out[e].msg # out[f].msg
                /\ Range(sent[e]) \cap Range(sent[f]) = {}
  /\ \A d \in Directives :
       /\ d \in accepted <=> Queued(d) \/ Held(d) \/ IsSent(d) \/ d \in lost
       /\ d \in accepted => Old(d)
       /\ Queued(d) => ~ Held(d) /\ ~ IsSent(d) /\ d \notin lost
       /\ Held(d) => ~ IsSent(d) /\ d \notin lost
       /\ IsSent(d) => d \notin lost

\* A directive goes from its receiver to the queue, to a hand, and from there to the stream
\* or to nowhere, and leaves each place as it enters the next.
LEMMA OnePlaceStep ==
  TypeInv /\ DirectiveOrder /\ OnePlace /\ [Next]_vars => OnePlace'
<1> SUFFICES ASSUME TypeInv, DirectiveOrder, OnePlace, [Next]_vars PROVE OnePlace'
  OBVIOUS
<1> USE DEF queueVars, streamVars, clientVars, runVars, historyVars
<1> DEFINE D == queue["directives"]
           DD == queue'["directives"]
           New(m) == /\ m.n <= arrived'[m.from]
                     /\ in'[m.from].at = "select" => m.n < arrived'[m.from]
           QueuedN(d) == d \in Range(DD)
           HeldN(d) == \E e \in ElementStreams : out'[e].msg = d
           SentN(d) == \E e \in ElementStreams : d \in Range(sent'[e])
           Apart == \A e, f \in ElementStreams :
             e # f => /\ out'[e].msg \in Directives => out'[e].msg # out'[f].msg
                      /\ Range(sent'[e]) \cap Range(sent'[f]) = {}
           Placed(d) ==
             /\ d \in accepted' <=> QueuedN(d) \/ HeldN(d) \/ SentN(d) \/ d \in lost'
             /\ QueuedN(d) => ~ HeldN(d) /\ ~ SentN(d) /\ d \notin lost'
             /\ HeldN(d) => ~ SentN(d) /\ d \notin lost'
             /\ SentN(d) => d \notin lost'
<1>goal. ASSUME Apart, \A d \in Directives : Placed(d), \A d \in Directives \cap accepted' : New(d)
         PROVE  OnePlace'
  BY <1>goal DEF OnePlace, Queued, Held, IsSent, Old
<1>t. /\ D \in Seq(Directives) /\ None \notin Directives
      /\ \A e \in ElementStreams :
           /\ sent[e] \in Seq(Directives)
           /\ out[e].at = "send" => out[e].msg \in Directives
           /\ out[e].at # "send" => out[e].msg = None
  BY SequenceTypes, MessageKinds
<1>old. \A d \in Directives : Old(d) => New(d)
  BY OldStep DEF Old
<1> HIDE DEF New, D, DD
<1>now. \A e, f \in ElementStreams :
             e # f => /\ out[e].msg \in Directives => out[e].msg # out[f].msg
                      /\ Range(sent[e]) \cap Range(sent[f]) = {}
  BY DEF OnePlace
<1>one. \A d \in Directives :
             /\ d \in accepted <=> d \in Range(D) \/ Held(d) \/ IsSent(d) \/ d \in lost
             /\ d \in accepted => Old(d)
             /\ d \in Range(D) => ~ Held(d) /\ ~ IsSent(d) /\ d \notin lost
             /\ Held(d) => ~ IsSent(d) /\ d \notin lost
             /\ IsSent(d) => d \notin lost
  BY DEF OnePlace, Queued, D
<1>k. ASSUME UNCHANGED <<sent, lost, accepted>>, DD = D,
             \A e \in ElementStreams : out'[e].msg = out[e].msg
      PROVE  OnePlace'
  <2>1. Apart
    BY <1>k, <1>now
  <2>2. \A d \in Directives : Placed(d)
    BY <1>k, <1>one DEF Held, IsSent
  <2>3. \A d \in Directives \cap accepted' : New(d)
    BY <1>k, <1>one, <1>old
  <2> QED BY <1>goal, <2>1, <2>2, <2>3
<1>1. ASSUME NEW s \in Streams, Enqueue(s) PROVE OnePlace'
  <2> DEFINE x == in[s].msg
  <2>0. UNCHANGED <<sent, lost, out>> /\ accepted' = accepted \cup ({x} \cap Directives)
    BY <1>1 DEF Enqueue
  <2>1. CASE s \in ElementStreams
    <3>1. QueueOf(s) = "elements" /\ x \notin Directives
      BY <1>1, <2>1, MessageKinds, EnqueueOrder
    <3>2. DD = D
      BY <1>1, <3>1, EnqueueOrder, SequenceTypes DEF D, DD, Queues
    <3> QED BY <1>k, <2>0, <3>1, <3>2
  <2>2. CASE s \in DirectiveStreams
    <3>1. QueueOf(s) = "directives" /\ x \in Directives
      BY <1>1, <2>2, MessageKinds, EnqueueOrder
    <3>2. x \notin accepted
      <4>1. x.n \in Int /\ ~ Below(x, x)
        BY <1>1, EnqueueOrder DEF Below, Messages
      <4> QED BY <1>1, <1>one, <3>1, <4>1, EnqueueOrder
    <3>3. New(x)
      BY <1>1, EnqueueOrder DEF New
    <3>4. DD = Append(D, x)
      BY <1>1, <3>1, EnqueueOrder, SequenceTypes DEF D, DD, Queues
    <3> HIDE DEF x
    <3>5. Range(DD) = Range(D) \cup {x}
      BY <1>t, <3>1, <3>4, RangeAppend
    <3>6. Apart
      BY <1>now, <2>0
    <3>7. \A d \in Directives : Placed(d)
      BY <1>one, <2>0, <3>1, <3>2, <3>5 DEF Held, IsSent
    <3>8. \A d \in Directives \cap accepted' : New(d)
      BY <1>one, <1>old, <2>0, <3>3
    <3> QED BY <1>goal, <3>6, <3>7, <3>8
  <2> QED BY <2>1, <2>2 DEF Streams
<1>2. ASSUME NEW e \in ElementStreams, TakeDirective(e) PROVE OnePlace'
  <2> DEFINE h == Head(D)
  <2>1. /\ D # << >> /\ DD = Tail(D) /\ UNCHANGED <<sent, lost, accepted>>
        /\ out[e].msg = None
    BY <1>2, <1>t, SequenceTypes DEF TakeDirective, MayTake, D, DD, Queues
  <2>2. /\ \A f \in ElementStreams : f # e => out'[f] = out[f]
        /\ out'[e].msg = h
    <3>1. out' = [out EXCEPT ![e] = [At("send") EXCEPT !.msg = h]] /\ SenderTypes
      BY <1>2, TypeParts DEF TakeDirective, D
    <3> DEFINE g == [At("send") EXCEPT !.msg = h]
    <3>2. g.msg = h
      BY DEF At
    <3> HIDE DEF g
    <3>3. out' = [out EXCEPT ![e] = g]
      BY <3>1 DEF g
    <3> QED BY <3>1, <3>2, <3>3 DEF SenderTypes
  <2>3. h \in Directives /\ Range(D) = {h} \cup Range(DD)
    BY <1>t, <2>1, RangeTail
  <2>4. h \notin Range(DD)
    <3>1. InOrder(D)
      BY DEF DirectiveOrder, D
    <3>2. AllAbove(h, DD)
      BY <1>t, <2>1, <3>1, InOrderTail
    <3>3. h.n \in Int
      BY <2>3 DEF Directives, Messages
    <3> QED BY <3>2, <3>3 DEF AllAbove, Below
  <2> HIDE DEF h
  <2>5. \A d \in Directives : HeldN(d) <=> Held(d) \/ d = h
    BY <1>t, <2>1, <2>2 DEF Held
  <2>6. Apart
    <3>1. ~ Held(h)
      BY <1>one, <2>3
    <3> QED BY <1>now, <2>1, <2>2, <3>1 DEF Held
  <2>7. \A d \in Directives : Placed(d)
    BY <1>one, <2>1, <2>3, <2>4, <2>5 DEF IsSent
  <2>8. \A d \in Directives \cap accepted' : New(d)
    BY <1>one, <1>old, <2>1
  <2> QED BY <1>goal, <2>6, <2>7, <2>8
<1>3. ASSUME NEW e \in ElementStreams, SendDirective(e) \/ FailSend(e) PROVE OnePlace'
  <2> DEFINE m == out[e].msg
  <2>1. DD = D /\ UNCHANGED accepted /\ out[e].at = "send" /\ m \in Directives
    BY <1>3, <1>t DEF SendDirective, FailSend, D, DD
  <2>2. out'[e].msg = None /\ \A f \in ElementStreams : f # e => out'[f] = out[f]
    BY <1>3, TypeParts, GoroutineTypes DEF SendDirective, FailSend, AfterSend, SenderTypes
  <2>3. \/ /\ Range(sent'[e]) = Range(sent[e]) \cup {m} /\ UNCHANGED lost
           /\ \A f \in ElementStreams : f # e => sent'[f] = sent[f]
        \/ UNCHANGED sent /\ lost' = lost \cup {m}
    <3>1. CASE SendDirective(e)
      <4>1. /\ sent'[e] = Append(sent[e], m) /\ UNCHANGED lost
            /\ \A f \in ElementStreams : f # e => sent'[f] = sent[f]
        BY <3>1, TypeParts DEF SendDirective, SentTypes
      <4>2. Range(Append(sent[e], m)) = Range(sent[e]) \cup {m}
        BY <1>t, <2>1, RangeAppend
      <4> QED BY <4>1, <4>2
    <3>2. CASE FailSend(e)
      BY <3>2 DEF FailSend
    <3> QED BY <1>3, <3>1, <3>2
  <2>4. Held(m) /\ ~ IsSent(m) /\ m \notin lost /\ m \notin Range(D)
    <3>1. Held(m)
      BY DEF Held
    <3> QED BY <1>one, <2>1, <3>1
  <2>5. \A d \in Directives : HeldN(d) <=> Held(d) /\ d # m
    BY <1>t, <1>now, <2>1, <2>2 DEF Held
  <2> HIDE DEF m
  <2>6. Apart
    <3>1. \A f \in ElementStreams : m \notin Range(sent[f])
      BY <2>4 DEF IsSent
    <3>2. \A f, g \in ElementStreams :
            f # g /\ out'[f].msg \in Directives => out'[f].msg # out'[g].msg
      BY <1>t, <1>now, <2>2
    <3>3. \A f, g \in ElementStreams : f # g => Range(sent'[f]) \cap Range(sent'[g]) = {}
      <4>1. CASE UNCHANGED sent
        BY <1>now, <4>1
      <4>2. CASE /\ Range(sent'[e]) = Range(sent[e]) \cup {m}
                 /\ \A f \in ElementStreams : f # e => sent'[f] = sent[f]
        BY <1>now, <3>1, <4>2
      <4> QED BY <2>3, <4>1, <4>2
    <3> QED BY <3>2, <3>3
  <2>7. \A d \in Directives : Placed(d)
    <3>1. CASE UNCHANGED sent /\ lost' = lost \cup {m}
      BY <1>one, <2>1, <2>4, <2>5, <3>1 DEF IsSent
    <3>2. CASE /\ Range(sent'[e]) = Range(sent[e]) \cup {m} /\ UNCHANGED lost
               /\ \A f \in ElementStreams : f # e => sent'[f] = sent[f]
      <4>1. \A d : SentN(d) <=> IsSent(d) \/ d = m
        BY <3>2 DEF IsSent
      <4> QED BY <1>one, <2>1, <2>4, <2>5, <3>2, <4>1
    <3> QED BY <2>3, <3>1, <3>2
  <2>8. \A d \in Directives \cap accepted' : New(d)
    BY <1>one, <1>old, <2>1
  <2> QED BY <1>goal, <2>6, <2>7, <2>8
<1>4. ASSUME NEW e \in ElementStreams, EndSend(e) PROVE OnePlace'
  <2>1. out[e].msg = None /\ out'[e].msg = None /\ \A f \in ElementStreams : f # e => out'[f] = out[f]
    BY <1>4, <1>t, TypeParts, GoroutineTypes DEF EndSend, SenderTypes
  <2> QED BY <1>4, <1>k, <2>1 DEF EndSend, D, DD
<1>5. ASSUME NEW s \in Streams, OpenStream(s) PROVE OnePlace'
  <2>1. s \in ElementStreams => out[s].at = "none"
    BY <1>5, TypeParts DEF OpenStream, NotYetOpen
  <2>2. Select(None, "directives").msg = None
    BY DEF Select
  <2>3. ASSUME NEW e \in ElementStreams PROVE out'[e].msg = out[e].msg
    <3>1. CASE e = s
      BY <1>5, <1>t, <2>1, <2>2, <3>1 DEF OpenStream
    <3>2. CASE e # s
      BY <1>5, <3>2 DEF OpenStream
    <3> QED BY <3>1, <3>2
  <2> QED BY <1>5, <1>k, <2>3 DEF OpenStream, D, DD
<1>6. ASSUME NEW s \in Streams, Recv(s) \/ Break(s) \/ Panic(s) \/ EndRecv(s) PROVE OnePlace'
  BY <1>6, <1>k DEF Recv, Break, Panic, EndRecv, D, DD
<1>7. ASSUME NEW c \in Clients, OpenClient(c) \/ CloseClient(c) \/ WriteElement(c)
      PROVE  OnePlace'
  BY <1>7, <1>k DEF OpenClient, CloseClient, WriteElement, D, DD
<1>8. CASE FanOut
  BY <1>8, <1>k, SequenceTypes DEF FanOut, D, DD
<1>9. CASE EndFanout \/ Cancel \/ Close \/ StopHTTP \/ DrainRPC \/ StopRPC \/ RunReturns
  BY <1>9, <1>k DEF EndFanout, Cancel, Close, StopHTTP, DrainRPC, StopRPC, RunReturns, Stop, D, DD
<1>10. CASE UNCHANGED vars
  BY <1>10, <1>k DEF vars, D, DD
<1> QED
  BY <1>1, <1>2, <1>3, <1>4, <1>5, <1>6, <1>7, <1>8, <1>9, <1>10
  DEF Next, Receiver, Sender, Peers, Ended

\* The same as an invariant of the specification.
LEMMA OnePlaceAlways == Spec => []OnePlace
<1>1. Init => OnePlace
  <2> SUFFICES ASSUME Init PROVE OnePlace
    OBVIOUS
  <2>1. /\ queue["directives"] = << >> /\ accepted = {} /\ lost = {}
        /\ \A e \in ElementStreams : sent[e] = << >> /\ out[e].msg = None
    BY DEF Init, Queues, At
  <2>2. Range(<< >>) = {} /\ None \notin Directives
    BY MessageKinds DEF Range
  <2> QED BY <2>1, <2>2 DEF OnePlace, Queued, Held, IsSent
<1>2. TypeInv /\ DirectiveOrder /\ OnePlace /\ [Next]_vars => OnePlace'
  BY OnePlaceStep
<1> QED BY <1>1, <1>2, TypeInvAlways, OrdersAlways, PTL DEF Spec

\* A message is at no more than one position of a sequence in order.
LEMMA PositionsInOrder ==
  ASSUME NEW s \in Seq(Directives), InOrder(s), NEW d \in Directives
  PROVE  /\ d \notin Range(s) => Positions(d, s) = {}
         /\ d \in Range(s) => \E i : Positions(d, s) = {i}
<1>1. ASSUME d \notin Range(s) PROVE Positions(d, s) = {}
  BY <1>1 DEF Positions, Range
<1>2. ASSUME d \in Range(s) PROVE \E i : Positions(d, s) = {i}
  <2> PICK i \in DOMAIN s : s[i] = d
    BY <1>2 DEF Range
  <2>1. \A j \in DOMAIN s : s[j] = d => j = i
    <3> SUFFICES ASSUME NEW j \in DOMAIN s, s[j] = d, j # i PROVE FALSE
      OBVIOUS
    <3>1. d.n \in Int /\ i \in Int /\ j \in Int
      BY DEF Directives, Messages
    <3> QED BY <3>1 DEF InOrder
  <2>2. Positions(d, s) = {i}
    BY <2>1 DEF Positions
  <2> QED BY <2>2
<1> QED BY <1>1, <1>2

\* A directive that was accepted is at one place, for any number of agents: none executes it
\* twice, no two execute it, and only the stream that had taken it loses it.
THEOREM AcceptedAlwaysOnce == Spec => []AcceptedOnce
<1>1. ASSUME TypeInv, DirectiveOrder, OnePlace PROVE AcceptedOnce
  <2> SUFFICES ASSUME NEW d \in Directives
               PROVE  Cardinality(Places(d)) = IF d \in accepted THEN 1 ELSE 0
    BY DEF AcceptedOnce
  <2> DEFINE D == queue["directives"]
             P == Positions(d, D)
             H == {e \in ElementStreams : out[e].msg = d}
             S(e) == Positions(d, sent[e])
             L == {d} \cap lost
             sentPlaces == UNION {{"sent"} \X {e} \X S(e) : e \in ElementStreams}
  <2>1. Places(d) = ({"queue"} \X P) \cup ({"hand"} \X H) \cup sentPlaces \cup ({"lost"} \X L)
    BY DEF Places
  <2>2. /\ d \notin Range(D) => P = {}
        /\ d \in Range(D) => \E i : P = {i}
    BY <1>1, SequenceTypes, PositionsInOrder DEF DirectiveOrder
  <2>3. \A e \in ElementStreams :
          /\ d \notin Range(sent[e]) => S(e) = {}
          /\ d \in Range(sent[e]) => \E i : S(e) = {i}
    BY <1>1, SequenceTypes, PositionsInOrder DEF DirectiveOrder
  <2>4. /\ d \in accepted <=> d \in Range(D) \/ Held(d) \/ IsSent(d) \/ d \in lost
        /\ d \in Range(D) => ~ Held(d) /\ ~ IsSent(d) /\ d \notin lost
        /\ Held(d) => ~ IsSent(d) /\ d \notin lost
        /\ IsSent(d) => d \notin lost
    BY <1>1 DEF OnePlace, Queued
  <2>5. /\ ~ Held(d) => H = {}
        /\ Held(d) => \E e : H = {e}
    BY <1>1 DEF Held, OnePlace
  <2>6. /\ ~ IsSent(d) => \A e \in ElementStreams : S(e) = {}
        /\ IsSent(d) => \E e \in ElementStreams : \E i :
                          S(e) = {i} /\ \A f \in ElementStreams : f # e => S(f) = {}
    <3>1. ASSUME ~ IsSent(d) PROVE \A e \in ElementStreams : S(e) = {}
      BY <2>3, <3>1 DEF IsSent
    <3>2. ASSUME IsSent(d)
          PROVE  \E e \in ElementStreams : \E i :
                   S(e) = {i} /\ \A f \in ElementStreams : f # e => S(f) = {}
      <4> PICK e \in ElementStreams : d \in Range(sent[e])
        BY <3>2 DEF IsSent
      <4>1. \A f \in ElementStreams : f # e => d \notin Range(sent[f])
        BY <1>1 DEF OnePlace
      <4> QED BY <2>3, <4>1
    <3> QED BY <3>1, <3>2
  <2>7. /\ d \notin lost => L = {}
        /\ d \in lost => L = {d}
    OBVIOUS
  <2> HIDE DEF P, H, S, L
  <2>8. /\ (\A e \in ElementStreams : S(e) = {}) => sentPlaces = {}
        /\ \A e \in ElementStreams : \A i :
             S(e) = {i} /\ (\A f \in ElementStreams : f # e => S(f) = {})
             => sentPlaces = {<<"sent", e, i>>}
    <3>1. (\A e \in ElementStreams : S(e) = {}) => sentPlaces = {}
      OBVIOUS
    <3>2. ASSUME NEW e \in ElementStreams, NEW i, S(e) = {i},
                 \A f \in ElementStreams : f # e => S(f) = {}
          PROVE  sentPlaces = {<<"sent", e, i>>}
      <4>1. {"sent"} \X {e} \X S(e) = {<<"sent", e, i>>}
        BY <3>2
      <4>2. \A f \in ElementStreams : f # e => {"sent"} \X {f} \X S(f) = {}
        BY <3>2
      <4> QED BY <4>1, <4>2
    <3> QED BY <3>1, <3>2
  <2> HIDE DEF sentPlaces
  <2>9. CASE d \notin accepted
    <3>1. P = {} /\ H = {} /\ sentPlaces = {} /\ L = {}
      BY <2>2, <2>4, <2>5, <2>6, <2>7, <2>8, <2>9
    <3>2. Places(d) = {}
      BY <2>1, <3>1
    <3> QED BY <2>9, <3>2, FS_EmptySet
  <2>10. ASSUME d \in accepted PROVE \E p : Places(d) = {p}
    <3>1. CASE d \in Range(D)
      <4>1. H = {} /\ sentPlaces = {} /\ L = {}
        BY <2>4, <2>5, <2>6, <2>7, <2>8, <3>1
      <4>2. PICK i : P = {i}
        BY <2>2, <3>1
      <4>3. Places(d) = {<<"queue", i>>}
        BY <2>1, <4>1, <4>2
      <4> QED BY <4>3
    <3>2. CASE Held(d)
      <4>1. P = {} /\ sentPlaces = {} /\ L = {}
        BY <2>2, <2>4, <2>6, <2>7, <2>8, <3>2
      <4>2. PICK e : H = {e}
        BY <2>5, <3>2
      <4>3. Places(d) = {<<"hand", e>>}
        BY <2>1, <4>1, <4>2
      <4> QED BY <4>3
    <3>3. CASE IsSent(d)
      <4>1. P = {} /\ H = {} /\ L = {}
        BY <2>2, <2>4, <2>5, <2>7, <3>3
      <4>2. PICK p : sentPlaces = {p}
        BY <2>6, <2>8, <3>3
      <4>3. Places(d) = {p}
        BY <2>1, <4>1, <4>2
      <4> QED BY <4>3
    <3>4. CASE d \in lost
      <4>1. P = {} /\ H = {} /\ sentPlaces = {}
        BY <2>2, <2>4, <2>5, <2>6, <2>8, <3>4
      <4>2. Places(d) = {<<"lost", d>>}
        BY <2>1, <2>7, <3>4, <4>1
      <4> QED BY <4>2
    <3> QED BY <2>4, <2>10, <3>1, <3>2, <3>3, <3>4
  <2>11. CASE d \in accepted
    <3> PICK p : Places(d) = {p}
      BY <2>10, <2>11
    <3> QED BY <2>11, FS_Singleton
  <2> QED BY <2>9, <2>11
<1> QED BY <1>1, TypeInvAlways, OrdersAlways, OnePlaceAlways, PTL
=============================================================================
