------------------------- MODULE MCClusterPrepare --------------------------
(* Instances of ClusterPrepare: the gateway with its own hub, an inference *)
(* node on the loopback interface, and a hub that also serves.             *)
EXTENDS ClusterPrepare, TLC

CONSTANTS g, n1, n2

Compact == g :> {"gateway", "cache"} @@ n1 :> {"inference"} @@ n2 :> {"cache", "inference"}
Split   == g :> {"gateway"} @@ n1 :> {"inference"} @@ n2 :> {"cache"}
Places  == g :> 1 @@ n1 :> 2 @@ n2 :> 3
============================================================================
