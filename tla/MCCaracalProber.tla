---------------------------- MODULE MCCaracalProber ----------------------------
(* Two directives of one flow and protocol: the far probe of d1 and the     *)
(* near probe of d2 are the same.                                           *)
EXTENDS CaracalProber

CONSTANTS d1, d2

MCFlowOf == [d \in Directives |-> "flow"]
MCProtocolOf == [d \in Directives |-> "ICMP"]
MCTtlOf == [d \in Directives |-> IF d = d2 THEN 2 ELSE 1]
=============================================================================
