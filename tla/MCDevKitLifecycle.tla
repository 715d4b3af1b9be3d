------------------------- MODULE MCDevKitLifecycle -------------------------
(* Instances of DevKitLifecycle for TLC.                                   *)
EXTENDS DevKitLifecycle

CONSTANTS s1, s2, d1, d2, e1, e2

OneConfigured == [d \in {d1} |-> e1]
OneUnconfigured == [d \in {d1, d2} |-> IF d = d1 THEN e1 ELSE NoEndpoint]
=============================================================================
