--------------------------- MODULE AuditedGateway ---------------------------
(***************************************************************************)
(* What the edge promises its operator, without handlers, sockets or       *)
(* inspector: each audited request gets exactly one access log line before *)
(* its connection is let go, the line is written after the decision to     *)
(* refuse it or while it is listed as active, and the upstream hears only  *)
(* of listed requests.  An instance in which calls may raise is Lossy: it  *)
(* may also drop a connection at any point.                                *)
(***************************************************************************)
EXTENDS Naturals

CONSTANTS Requests, Lossy

VARIABLES
  stage,      (* new, open, listed, settled (the answer is due), closed    *)
  audited,    (* the requests that are due a log line                      *)
  lines,      (* access log lines written for each request                 *)
  contacted   (* requests the upstream has heard of                        *)

vars == <<stage, audited, lines, contacted>>

Init ==
  /\ stage     = [r \in Requests |-> "new"]
  /\ audited   \in SUBSET Requests
  /\ lines     = [r \in Requests |-> 0]
  /\ contacted = {}

Move(r, from, to) == stage[r] = from /\ stage' = [stage EXCEPT ![r] = to]

WriteLine(r) == lines[r] = 0 /\ lines' = [lines EXCEPT ![r] = 1]

Open(r) == Move(r, "new", "open") /\ UNCHANGED <<lines, contacted>>

(* Refused, or answered by the gateway itself.                             *)
Settle(r) ==
  /\ Move(r, "open", "settled")
  /\ IF r \in audited THEN WriteLine(r) ELSE UNCHANGED lines
  /\ UNCHANGED contacted

List(r) ==
  /\ r \in audited
  /\ Move(r, "open", "listed")
  /\ UNCHANGED <<lines, contacted>>

Contact(r) ==
  /\ stage[r] = "listed"
  /\ contacted' = contacted \union {r}
  /\ UNCHANGED <<stage, lines>>

Log(r) ==
  /\ stage[r] = "listed"
  /\ WriteLine(r)
  /\ UNCHANGED <<stage, contacted>>

(* A streamed request has had its answer when it is unlisted.              *)
Unlist(r) ==
  /\ Move(r, "listed", "settled") \/ Move(r, "listed", "closed")
  /\ lines[r] = 1 \/ Lossy
  /\ UNCHANGED <<lines, contacted>>

Close(r) == Move(r, "settled", "closed") /\ UNCHANGED <<lines, contacted>>

Break(r) ==
  /\ Lossy
  /\ \E from \in {"open", "listed", "settled"} : Move(r, from, "closed")
  /\ UNCHANGED <<lines, contacted>>

Step(r) ==
  \/ Settle(r) \/ List(r) \/ Contact(r) \/ Log(r) \/ Unlist(r) \/ Close(r)
  \/ Break(r)

Next == (\E r \in Requests : Open(r) \/ Step(r)) /\ UNCHANGED audited

Spec == Init /\ [][Next]_vars

(* What an auditor of the access log relies on: when no call raises, a     *)
(* request that was let go has its one line.                               *)
AuditComplete ==
  \A r \in audited : stage[r] = "closed" /\ ~Lossy => lines[r] = 1
=============================================================================
