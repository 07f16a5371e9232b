--------------------------------- MODULE Prober ---------------------------------
(***************************************************************************)
(* What components.Prober promises of its two channels (components.go:     *)
(* 103-126), whichever prober it is: it "consumes probing directives and   *)
(* produces forwarding information elements": it answers directives that   *)
(* it was given, each at most once.  It need not answer.                   *)
(*                                                                         *)
(* "After Close is called, no further values will be emitted" is left out: *)
(* neither prober keeps it.  CaracalProber says how far it is missed.      *)
(***************************************************************************)
EXTENDS Sequences, SequencesExt

CONSTANT Directives

VARIABLES
  given,     \* directives sent on PushChannel
  emitted    \* directives answered on PullChannel, in order

vars == <<given, emitted>>

Init == given = {} /\ emitted = << >>

Give(d) == given' = given \cup {d} /\ UNCHANGED emitted

Emit(d) ==
  /\ d \in given \ Range(emitted)
  /\ emitted' = Append(emitted, d)
  /\ UNCHANGED given

Next == \E d \in Directives : Give(d) \/ Emit(d)

Spec == Init /\ [][Next]_vars
=============================================================================
