---------------------------- MODULE MCEdgeProxy ----------------------------
(* Values of EdgeProxy's constants for TLC.                                *)
EXTENDS EdgeProxy

CONSTANTS c1, m1, m2

(* A well-formed chat request of c1 for an alias, and its variations.      *)
Chat == [endpoint |-> "openai", length |-> "ok", client |-> c1, model |-> m1,
         stream |-> FALSE, id |-> NoId]
Stream == [Chat EXCEPT !.stream = TRUE]

(* Every way through the dispatch, in both handlers.                       *)
AllArrivals ==
  {Chat, Stream,
   [Chat EXCEPT !.endpoint = "health"],
   [Chat EXCEPT !.endpoint = "status"],
   [Chat EXCEPT !.length = "bad"],
   [Stream EXCEPT !.length = "large"],
   [Chat EXCEPT !.length = "large", !.client = NoClient],
   [Chat EXCEPT !.endpoint = "models", !.model = NoModel],
   [Chat EXCEPT !.endpoint = "models", !.client = NoClient],
   [Stream EXCEPT !.client = NoClient],
   [Chat EXCEPT !.endpoint = "unknown"],
   [Stream EXCEPT !.model = m2],
   [Chat EXCEPT !.model = NoModel]}
  \union {[q EXCEPT !.id = i] : q \in {Chat, Stream}, i \in CallerIds}

(* The requests that reach the upstream.                                   *)
ChatArrivals == {Chat, Stream}
=============================================================================
