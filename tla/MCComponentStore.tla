--------------------------- MODULE MCComponentStore ---------------------------
(* Small instances of the store: two addresses, one of them used by two     *)
(* specs, as agents started with the default --address do.                *)
EXTENDS ComponentStore

CONSTANTS s1, s2, s3, port1, port2

MCAddressOf == (s1 :> port1) @@ (s2 :> port1) @@ (s3 :> port2)
=============================================================================
