------------------------------ MODULE EdgeProxy ------------------------------
(***************************************************************************)
(* The TF edge HTTP server (cluster/edge.py): one handler thread per       *)
(* connection, each running _handle_edge_request from the request line to  *)
(* the last byte of the answer.  Threads share the registry of active      *)
(* requests that /status shows; each appends to the JSONL access log and,  *)
(* when the inspector is on, to the inspector log.                         *)
(*                                                                         *)
(* A step of a thread ends where another thread, the client, the upstream  *)
(* (Olla, through httpx) or the disk can make a difference: the registry   *)
(* lock, a file append, an upstream event, a socket write.                 *)
(***************************************************************************)
EXTENDS Integers, Sequences, FiniteSets

CONSTANTS
  Requests,      (* connections; HTTP/1.0, so each carries one request     *)
  Arrivals,      (* the requests clients may send, a subset of Profile     *)
  Clients,       (* client ids of the configured TF_USER_* keys            *)
  NoClient,      (* no key, or one that is not configured                  *)
  Models, NoModel,  (* "model" of a JSON body, and its absence             *)
  Aliases,       (* ids of the model catalog; {} when none is configured   *)
  CallerIds, NoId,  (* X-Request-ID values of callers, and its absence     *)
  UpstreamStatus,   (* status codes Olla answers with                      *)
  Inspecting,    (* config.inspector.enabled                               *)
  CaptureLimit,  (* EDGE_MAX_STREAM_CAPTURE_BYTES, in units of ChunkSizes  *)
  ChunkSizes,    (* sizes of one chunk of a streamed body                  *)
  MaxBody,       (* bound: a streamed body is at most this long            *)
  Faults         (* the calls that may raise in this instance              *)

FaultKinds == {"read", "inspector", "log", "close", "socket"}

(* What of a request decides how the edge treats it.  "models" is GET      *)
(* /v1/models, "unknown" a path outside /v1/, "bad" an invalid or negative *)
(* Content-Length and "large" one above max_body_bytes.                    *)
Profile == [endpoint : {"health", "status", "models", "openai", "unknown"},
            length   : {"ok", "bad", "large"},
            client   : Clients \union {NoClient},
            model    : Models \union {NoModel},
            stream   : BOOLEAN,
            id       : CallerIds \union {NoId}]

ASSUME EdgeAssumption ==
  /\ Arrivals \subseteq Profile
  /\ NoClient \notin Clients
  /\ NoModel \notin Models
  /\ NoId \notin CallerIds
  /\ CallerIds \intersect Requests = {}
  /\ UpstreamStatus \subseteq Nat
  /\ Inspecting \in BOOLEAN
  /\ CaptureLimit \in Nat
  /\ ChunkSizes \subseteq Nat \ {0}
  /\ MaxBody \in Nat
  /\ Faults \subseteq FaultKinds

VARIABLES
  pc,         (* where each handler thread is                              *)
  req,        (* the profile of the request it serves                      *)
  local,      (* the handler's local variables                             *)
  active,     (* config.active_requests: request id -> client and model    *)
  forwarded,  (* requests the edge called the upstream for                 *)
  records,    (* history: the access log lines written for each request    *)
  inspected,  (* history: the inspector entries written for each request   *)
  wire        (* what each client has received                             *)

vars == <<pc, req, local, active, forwarded, records, inspected, wire>>

Stages == {"idle", "received", "admitted", "calling", "answered", "logging",
           "unregister", "failed", "failLogging", "failAnswer", "streaming",
           "gone", "goneInspect", "closing", "finally", "answer",
           "done", "died"}

Listings == [client : Clients \union {NoClient},
             model  : Models \union {NoModel}]
Unlisted == [client |-> NoClient, model |-> NoModel]

(* Without X-Request-ID the edge draws a uuid4, which no other request has. *)
Ids == CallerIds \union Requests
IdOf(r) == IF req[r].id = NoId THEN r ELSE req[r].id

Statuses == UpstreamStatus \union {0, 200, 400, 401, 404, 405, 413, 502, 503}

(* status: the upstream's or the pending answer's; logged, headersSent:    *)
(* the flags of the streaming handler; raised: an exception is unwinding;  *)
(* broken: the upstream raised after the call began; got, kept, clipped:   *)
(* body bytes read, bytes in captured_body, body_truncated.                *)
Local == [status : Statuses, logged : BOOLEAN, headersSent : BOOLEAN,
          raised : BOOLEAN, broken : BOOLEAN,
          got : Nat, kept : 0..CaptureLimit, clipped : BOOLEAN]

Entry == [type : {"request", "response", "error"},
          kept : 0..CaptureLimit, clipped : BOOLEAN]

Line == [client : Clients \union {NoClient}, status : Statuses]

(* heads: status lines received; bytes: streamed body bytes received;      *)
(* whole: the body is complete; gone: the client hung up.                  *)
Wire == [heads : Seq(Statuses), bytes : Nat, whole : BOOLEAN, gone : BOOLEAN]

Init ==
  /\ pc        = [r \in Requests |-> "idle"]
  /\ req       \in [Requests -> Arrivals]
  /\ local     = [r \in Requests |->
                    [status |-> 0, logged |-> FALSE, headersSent |-> FALSE,
                     raised |-> FALSE, broken |-> FALSE,
                     got |-> 0, kept |-> 0, clipped |-> FALSE]]
  /\ active    = [i \in Ids |-> Unlisted]
  /\ forwarded = {}
  /\ records   = [r \in Requests |-> << >>]
  /\ inspected = [r \in Requests |-> << >>]
  /\ wire      = [r \in Requests |->
                    [heads |-> << >>, bytes |-> 0, whole |-> FALSE,
                     gone |-> FALSE]]
-----------------------------------------------------------------------------
(* Control of a handler thread.                                            *)

Goto(r, stage) == pc' = [pc EXCEPT ![r] = stage]

(* The statements under `with client.stream(...)`: an exception raised     *)
(* there leaves through the context managers.                              *)
InsideStream == {"calling", "streaming", "answered", "logging", "gone",
                 "goneInspect"}

(* Only the streaming handler has a try/finally, and its inspector write   *)
(* of the request comes before it; anywhere else an exception ends the     *)
(* thread, and socketserver closes the connection.                         *)
UnwindTo(r) ==
  IF ~req[r].stream \/ pc[r] \in {"received", "admitted", "answer"}
    THEN "died"
    ELSE IF pc[r] \in InsideStream THEN "closing" ELSE "finally"

Raise(r) ==
  /\ Goto(r, UnwindTo(r))
  /\ local' = [local EXCEPT ![r].raised = TRUE]

(* Mutant of Record: an append that fails is taken for a record.           *)
Record_FailureIgnored(r, status, next) ==
  /\ Goto(r, next)
  /\ local' = [local EXCEPT ![r].status = status, ![r].logged = TRUE]
  /\ \/ records' = [records EXCEPT ![r] = Append(@,
                      [client |-> req[r].client, status |-> status])]
     \/ "log" \in Faults /\ UNCHANGED records
  /\ UNCHANGED <<req, active, forwarded, inspected, wire>>

(* One access log line for r; the append may raise OSError.                *)
Record(r, status, next) ==
  /\ UNCHANGED <<req, active, forwarded, inspected, wire>>
  /\ \/ /\ records' = [records EXCEPT ![r] = Append(@,
                          [client |-> req[r].client, status |-> status])]
        /\ local' = [local EXCEPT ![r].status = status, ![r].logged = TRUE]
        /\ Goto(r, next)
     \/ /\ "log" \in Faults
        /\ Raise(r)
        /\ UNCHANGED records

(* Mutant of RecordStream: the flag `logged` is not looked at.             *)
RecordStream_Unguarded(r, status, next) == Record(r, status, next)

(* record_stream: only the first record of a streaming handler is written. *)
RecordStream(r, status, next) ==
  IF local[r].logged
    THEN /\ Goto(r, next)
         /\ UNCHANGED <<req, local, active, forwarded, records, inspected,
                        wire>>
    ELSE Record(r, status, next)

(* One inspector entry for r, when the inspector is on; the write may      *)
(* raise OSError.                                                          *)
Inspect(r, type, next) ==
  /\ UNCHANGED <<req, active, forwarded, records, wire>>
  /\ \/ /\ Goto(r, next)
        /\ UNCHANGED local
        /\ inspected' = IF Inspecting
             THEN [inspected EXCEPT ![r] = Append(@,
                     [type |-> type, kept |-> local[r].kept,
                      clipped |-> local[r].clipped])]
             ELSE inspected
     \/ /\ Inspecting
        /\ "inspector" \in Faults
        /\ Raise(r)
        /\ UNCHANGED inspected

(* A socket write that delivers w to the client, and its two failures: the *)
(* client hung up, or another OSError.                                     *)
Delivers(r, w) ==
  /\ ~wire[r].gone
  /\ wire' = [wire EXCEPT ![r] = w]

HangsUp(r) == wire' = [wire EXCEPT ![r].gone = TRUE]

SocketFails(r) ==
  /\ "socket" \in Faults
  /\ Raise(r)
  /\ UNCHANGED wire

WholeAnswer(r, status) ==
  [wire[r] EXCEPT !.heads = Append(@, status), !.whole = TRUE]
-----------------------------------------------------------------------------
(* Dispatch: what _handle_edge_request does before it calls the upstream.  *)

(* The connection is accepted and the request line and headers read.       *)
Arrive(r) ==
  /\ pc[r] = "idle"
  /\ Goto(r, "received")
  /\ UNCHANGED <<req, local, active, forwarded, records, inspected, wire>>

LocalStatuses(q) == IF q.endpoint = "health" THEN {200} ELSE {200, 405, 503}

(* /health and /status: answered here, not logged.                         *)
AnswerLocally(r) ==
  /\ pc[r] = "received"
  /\ req[r].endpoint \in {"health", "status"}
  /\ Goto(r, "answer")
  /\ \E status \in LocalStatuses(req[r]) :
       local' = [local EXCEPT ![r].status = status]
  /\ UNCHANGED <<req, active, forwarded, records, inspected, wire>>

ApiCall(r) == pc[r] = "received" /\ req[r].endpoint \notin {"health", "status"}

(* An unusable Content-Length is answered 400 and not logged.              *)
RejectLength(r) ==
  /\ ApiCall(r)
  /\ req[r].length = "bad"
  /\ Goto(r, "answer")
  /\ local' = [local EXCEPT ![r].status = 400]
  /\ UNCHANGED <<req, active, forwarded, records, inspected, wire>>

(* A Content-Length above the limit is refused before the body is read.    *)
RejectLarge(r) ==
  /\ ApiCall(r)
  /\ req[r].length = "large"
  /\ Record(r, IF req[r].client = NoClient THEN 401 ELSE 413, "answer")

(* The client resets the connection while its body is read.                *)
AbortRead(r) ==
  /\ "read" \in Faults
  /\ ApiCall(r)
  /\ req[r].length = "ok"
  /\ Goto(r, "died")
  /\ local' = [local EXCEPT ![r].raised = TRUE]
  /\ UNCHANGED <<req, active, forwarded, records, inspected, wire>>

ListsCatalog(q) == q.endpoint = "models" /\ ~q.stream /\ Aliases # {}

(* GET /v1/models, when there is a catalog, is answered from it.           *)
ListModels(r) ==
  /\ ApiCall(r)
  /\ req[r].length = "ok"
  /\ ListsCatalog(req[r])
  /\ Record(r, IF req[r].client = NoClient THEN 401 ELSE 200, "answer")

(* Mutant of Verdict: the alias check is left out.                         *)
Verdict_AnyModel(q) ==
  IF q.client = NoClient THEN 401
  ELSE IF q.endpoint = "unknown" THEN 404
  ELSE IF q.length = "large" THEN 413
  ELSE 200

(* _prepare_edge_upstream_request: the refusals in the order of its        *)
(* returns, 200 when it goes on to the upstream.                           *)
Verdict(q) ==
  IF q.client = NoClient THEN 401
  ELSE IF q.endpoint = "unknown" THEN 404
  ELSE IF q.model # NoModel /\ Aliases # {} /\ q.model \notin Aliases THEN 400
  ELSE IF q.length = "large" THEN 413
  ELSE 200

Prepared(q) == q.length = "ok" /\ ~ListsCatalog(q)

Prepares(r) == ApiCall(r) /\ Prepared(req[r])

Reject(r) ==
  /\ Prepares(r)
  /\ Verdict(req[r]) # 200
  /\ Record(r, Verdict(req[r]), "answer")

Listing(r) == [client |-> req[r].client, model |-> req[r].model]

(* _active_request_payload: what /status shows of the registry.            *)
Shown == {i \in Ids : active[i] # Unlisted /\ active[i].model # NoModel}

(* _register_active_request: an entry of the same request id is replaced.  *)
Admit(r) ==
  /\ Prepares(r)
  /\ Verdict(req[r]) = 200
  /\ active' = [active EXCEPT ![IdOf(r)] = Listing(r)]
  /\ Goto(r, "admitted")
  /\ UNCHANGED <<req, local, forwarded, records, inspected, wire>>

InspectRequest(r) ==
  /\ pc[r] = "admitted"
  /\ Inspect(r, "request", "calling")
-----------------------------------------------------------------------------
(* Buffered requests: proxy_edge_request after admission.                  *)

Calls(r) == pc[r] = "calling" /\ forwarded' = forwarded \union {r}

UpstreamAnswers(r) ==
  /\ ~req[r].stream
  /\ Calls(r)
  /\ \E status \in UpstreamStatus :
       local' = [local EXCEPT ![r].status = status]
  /\ Goto(r, "answered")
  /\ UNCHANGED <<req, active, records, inspected, wire>>

(* httpx.HTTPError, raised by the call, or by a read of a streamed body.   *)
UpstreamFails(r) ==
  /\ \/ Calls(r)
     \/ pc[r] = "streaming" /\ UNCHANGED forwarded
  /\ local' = [local EXCEPT ![r].broken = TRUE]
  /\ Goto(r, "failed")
  /\ UNCHANGED <<req, active, records, inspected, wire>>

(* The buffered handler's client is closed outside its `except`.           *)
CloseRaises(r) ==
  /\ "close" \in Faults
  /\ ~req[r].stream
  /\ pc[r] = "answered" \/ (pc[r] = "answer" /\ local[r].broken)
  /\ Raise(r)
  /\ UNCHANGED <<req, active, forwarded, records, inspected, wire>>

InspectResponse(r) ==
  /\ pc[r] = "answered"
  /\ Inspect(r, "response", "logging")

InspectError(r) ==
  /\ pc[r] = "failed"
  /\ Inspect(r, "error", "failLogging")

RecordOutcome(r) ==
  /\ pc[r] = "logging"
  /\ IF req[r].stream THEN RecordStream(r, local[r].status, "closing")
                      ELSE Record(r, local[r].status, "unregister")

(* Mutants of RecordFailure: the status kept so far is logged instead of   *)
(* 502; no line is logged.                                                 *)
RecordFailure_KeepsStatus(r) ==
  /\ pc[r] = "failLogging"
  /\ IF req[r].stream THEN RecordStream(r, local[r].status, "failAnswer")
                      ELSE Record(r, 502, "unregister")

RecordFailure_Skipped(r) ==
  /\ pc[r] = "failLogging"
  /\ Goto(r, IF req[r].stream THEN "failAnswer" ELSE "unregister")
  /\ local' = [local EXCEPT ![r].status = 502]
  /\ UNCHANGED <<req, active, forwarded, records, inspected, wire>>

RecordFailure(r) ==
  /\ pc[r] = "failLogging"
  /\ IF req[r].stream THEN RecordStream(r, 502, "failAnswer")
                      ELSE Record(r, 502, "unregister")

(* Mutant of Unlist: the registry is cleared.                              *)
Unlist_Everything(r) == active' = [i \in Ids |-> Unlisted]

(* _unregister_active_request: whatever is listed under the id goes.       *)
Unlist(r) == active' = [active EXCEPT ![IdOf(r)] = Unlisted]

Unregister(r) ==
  /\ pc[r] = "unregister"
  /\ Unlist(r)
  /\ Goto(r, "answer")
  /\ UNCHANGED <<req, local, forwarded, records, inspected, wire>>

(* _send_edge_response and the end of _handle_edge_request.                *)
Answer(r) ==
  /\ pc[r] = "answer"
  /\ \/ /\ Delivers(r, WholeAnswer(r, local[r].status))
        /\ Goto(r, "done") /\ UNCHANGED local
     \/ HangsUp(r) /\ Goto(r, "done") /\ UNCHANGED local
     \/ SocketFails(r)
  /\ UNCHANGED <<req, active, forwarded, records, inspected>>
-----------------------------------------------------------------------------
(* Streamed requests: _handle_streaming_edge_request after admission.      *)

(* The upstream's head arrives and is passed on.                           *)
StreamOpens(r) ==
  /\ req[r].stream
  /\ Calls(r)
  /\ \E status \in UpstreamStatus :
       \/ /\ Delivers(r, [wire[r] EXCEPT !.heads = Append(@, status)])
          /\ local' = [local EXCEPT ![r].status = status,
                                    ![r].headersSent = TRUE]
          /\ Goto(r, "streaming")
       \/ /\ HangsUp(r)
          /\ local' = [local EXCEPT ![r].status = status]
          /\ Goto(r, "gone")
       \/ SocketFails(r)
  /\ UNCHANGED <<req, active, records, inspected>>

(* Mutants of Captured: a chunk that just fits is marked as clipped; the   *)
(* captured body is not bounded.                                           *)
Captured_OffByOne(l, n) ==
  LET remaining == CaptureLimit - l.kept IN
  [l EXCEPT !.got     = @ + n,
            !.kept    = IF Inspecting
                          THEN @ + (IF n < remaining THEN n ELSE remaining)
                          ELSE @,
            !.clipped = @ \/ (Inspecting /\ n >= remaining)]

Captured_Unbounded(l, n) ==
  [l EXCEPT !.got = @ + n, !.kept = IF Inspecting THEN @ + n ELSE @]

Captured(l, n) ==
  LET remaining == CaptureLimit - l.kept IN
  [l EXCEPT !.got     = @ + n,
            !.kept    = IF Inspecting
                          THEN @ + (IF n < remaining THEN n ELSE remaining)
                          ELSE @,
            !.clipped = @ \/ (Inspecting /\ n > remaining)]

(* A chunk of n bytes is captured up to the limit, then written.           *)
StreamChunk(r) ==
  /\ pc[r] = "streaming"
  /\ \E n \in ChunkSizes :
       LET l == Captured(local[r], n) IN
       /\ l.got <= MaxBody
       /\ \/ /\ Delivers(r, [wire[r] EXCEPT !.bytes = @ + n])
             /\ local' = [local EXCEPT ![r] = l]
             /\ UNCHANGED pc
          \/ /\ HangsUp(r)
             /\ local' = [local EXCEPT ![r] = l]
             /\ Goto(r, "gone")
          \/ /\ "socket" \in Faults
             /\ local' = [local EXCEPT ![r] = [l EXCEPT !.raised = TRUE]]
             /\ Goto(r, UnwindTo(r))
             /\ UNCHANGED wire
  /\ UNCHANGED <<req, active, forwarded, records, inspected>>

(* The upstream body ends.                                                 *)
StreamEnds(r) ==
  /\ pc[r] = "streaming"
  /\ wire' = [wire EXCEPT ![r].whole = TRUE]
  /\ Goto(r, "answered")
  /\ UNCHANGED <<req, local, active, forwarded, records, inspected>>

(* After a hang-up: record first, then the inspector, if a body was read.  *)
RecordGone(r) ==
  /\ pc[r] = "gone"
  /\ RecordStream(r, local[r].status,
                  IF local[r].headersSent THEN "goneInspect" ELSE "closing")

InspectGone(r) ==
  /\ pc[r] = "goneInspect"
  /\ Inspect(r, "response", "closing")

(* The context managers close the upstream stream and the client; an       *)
(* httpx.HTTPError from there (CloseError) replaces what was unwinding.    *)
Close(r) ==
  /\ pc[r] = "closing"
  /\ \/ Goto(r, "finally") /\ UNCHANGED local
     \/ /\ "close" \in Faults
        /\ Goto(r, "failed")
        /\ local' = [local EXCEPT ![r].raised = FALSE]
  /\ UNCHANGED <<req, active, forwarded, records, inspected, wire>>

(* Mutants of AnswerFailure: a 502 follows a head already sent; the        *)
(* handler goes on waiting for the rest of the body.                       *)
AnswerFailure_SecondHead(r) ==
  /\ pc[r] = "failAnswer"
  /\ \/ Delivers(r, WholeAnswer(r, 502)) /\ Goto(r, "finally") /\ UNCHANGED local
     \/ HangsUp(r) /\ Goto(r, "finally") /\ UNCHANGED local
     \/ SocketFails(r)
  /\ UNCHANGED <<req, active, forwarded, records, inspected>>

AnswerFailure_Waits(r) ==
  /\ ~local[r].headersSent
  /\ AnswerFailure_SecondHead(r)

(* A head already sent cannot be replaced: the connection is closed on the *)
(* incomplete body.  Otherwise the client is sent a 502.                   *)
AnswerFailure(r) ==
  /\ pc[r] = "failAnswer"
  /\ \/ /\ local[r].headersSent
        /\ Goto(r, "finally") /\ UNCHANGED <<local, wire>>
     \/ /\ ~local[r].headersSent
        /\ \/ Delivers(r, WholeAnswer(r, 502)) /\ Goto(r, "finally")
              /\ UNCHANGED local
           \/ HangsUp(r) /\ Goto(r, "finally") /\ UNCHANGED local
           \/ SocketFails(r)
  /\ UNCHANGED <<req, active, forwarded, records, inspected>>

(* Mutant of Finally: the entry stays in the registry.                     *)
Finally_Leaks(r) ==
  /\ pc[r] = "finally"
  /\ Goto(r, IF local[r].raised THEN "died" ELSE "done")
  /\ UNCHANGED <<req, local, active, forwarded, records, inspected, wire>>

Finally(r) ==
  /\ pc[r] = "finally"
  /\ Unlist(r)
  /\ Goto(r, IF local[r].raised THEN "died" ELSE "done")
  /\ UNCHANGED <<req, local, forwarded, records, inspected, wire>>
-----------------------------------------------------------------------------
Dispatch(r) ==
  \/ AnswerLocally(r) \/ RejectLength(r) \/ RejectLarge(r) \/ AbortRead(r)
  \/ ListModels(r) \/ Reject(r) \/ Admit(r) \/ InspectRequest(r)

Buffered(r) ==
  \/ UpstreamAnswers(r) \/ UpstreamFails(r) \/ CloseRaises(r)
  \/ InspectResponse(r) \/ InspectError(r) \/ RecordOutcome(r)
  \/ RecordFailure(r) \/ Unregister(r) \/ Answer(r)

Streamed(r) ==
  \/ StreamOpens(r) \/ StreamChunk(r) \/ StreamEnds(r) \/ RecordGone(r)
  \/ InspectGone(r) \/ Close(r) \/ AnswerFailure(r) \/ Finally(r)

Handle(r) == Dispatch(r) \/ Buffered(r) \/ Streamed(r)

Next == \E r \in Requests : Arrive(r) \/ Handle(r)

(* A thread that can go on does: httpx gives up on a silent upstream after *)
(* config.timeout, and clients are taken to read what they are sent or to  *)
(* hang up (the server's sockets have no timeout).  Nobody is obliged to   *)
(* connect.                                                                *)
Fairness == \A r \in Requests : WF_vars(Handle(r))

Spec == Init /\ [][Next]_vars /\ Fairness
-----------------------------------------------------------------------------
(* Properties.                                                             *)

TypeOK ==
  /\ pc \in [Requests -> Stages]
  /\ req \in [Requests -> Arrivals]
  /\ local \in [Requests -> Local]
  /\ active \in [Ids -> Listings]
  /\ forwarded \subseteq Requests
  /\ records \in [Requests -> Seq(Line)]
  /\ inspected \in [Requests -> Seq(Entry)]
  /\ wire \in [Requests -> Wire]

Finished(r) == pc[r] \in {"done", "died"}

(* Between _register_active_request and _unregister_active_request.        *)
InFlight(r) == pc[r] \in Stages \ {"idle", "received", "answer", "done", "died"}

Audited(q) == q.endpoint \notin {"health", "status"} /\ q.length # "bad"

(* Olla is called only for a request with a configured key, a /v1/ path, a *)
(* body within the limit and a model that is a public alias (when there is *)
(* a catalog and the body names a model), whichever handler serves it.     *)
OnlyAdmissibleForwarded ==
  \A r \in forwarded :
    /\ req[r].client \in Clients
    /\ req[r].endpoint \in {"openai", "models"}
    /\ req[r].length = "ok"
    /\ Aliases # {} => req[r].model \in Aliases \union {NoModel}

(* A request is never logged twice, though a streamed one can meet the     *)
(* normal record, the hang-up record and the failure record in turn.       *)
OneRecordAtMost == \A r \in Requests : Len(records[r]) <= 1

(* Whatever raises on the way, a handler that ends without an exception    *)
(* has logged its request.                                                 *)
CompletedIsRecorded ==
  \A r \in Requests :
    pc[r] = "done" /\ Audited(req[r]) => Len(records[r]) = 1

(* A client gets at most one status line, whatever fails after it, and the *)
(* access log tells it: the status that was sent, or a 502 for a stream    *)
(* that broke off after another status had been sent.                      *)
RecordAgreesWithWire ==
  \A r \in Requests :
    /\ Len(wire[r].heads) <= 1
    /\ Finished(r) =>
         \A i \in DOMAIN records[r], j \in DOMAIN wire[r].heads :
           \/ records[r][i].status = wire[r].heads[j]
           \/ records[r][i].status = 502 /\ req[r].stream /\ local[r].headersSent

(* README.md:160: a stream that fails after the head was sent is closed    *)
(* incomplete, keeps the status already sent and is logged as a 502, or    *)
(* not at all if the write of the inspector or of the log itself raised.   *)
StreamFailureRecorded ==
  \A r \in Requests :
    (Finished(r) /\ req[r].stream /\ local[r].broken /\ local[r].headersSent)
      => /\ ~wire[r].whole
         /\ Len(wire[r].heads) = 1
         /\ \A i \in DOMAIN records[r] : records[r][i].status = 502
         /\ pc[r] = "done" => records[r] # << >>

OwnsId(r) == \A s \in Requests \ {r} : IdOf(s) # IdOf(r)

(* An exception ended the handler of an admitted request outside the       *)
(* try/finally of the streaming handler: nobody takes its entry out.       *)
Abandoned(r) ==
  /\ pc[r] = "died"
  /\ Prepared(req[r]) /\ Verdict(req[r]) = 200
  /\ ~(req[r].stream /\ r \in forwarded)

(* /status shows each request in flight that names a model, and no other,  *)
(* with its own client and model, unless another caller picked the same    *)
(* X-Request-ID; and no entry outlives its request, save that of a handler *)
(* that was ended by an exception outside the try/finally.                 *)
InFlightListed ==
  /\ \A r \in Requests : InFlight(r) /\ OwnsId(r) =>
       IF req[r].model = NoModel
         THEN IdOf(r) \notin Shown
         ELSE IdOf(r) \in Shown /\ active[IdOf(r)] = Listing(r)
  /\ \A i \in Ids : active[i] # Unlisted =>
       \E r \in Requests : /\ InFlight(r) \/ Abandoned(r)
                           /\ IdOf(r) = i /\ Listing(r) = active[i]

(* README.md:160: the inspector keeps the first CaptureLimit bytes of a    *)
(* streamed body and says so when it left some out; the client receives    *)
(* the body whole either way.                                              *)
CaptureFaithful ==
  \A r \in Requests : req[r].stream =>
    /\ \A i \in DOMAIN inspected[r] : inspected[r][i].type = "response" =>
         /\ inspected[r][i].clipped = (local[r].got > CaptureLimit)
         /\ inspected[r][i].kept = IF local[r].got > CaptureLimit
                                     THEN CaptureLimit ELSE local[r].got
    /\ (wire[r].whole /\ ~local[r].broken) => wire[r].bytes = local[r].got

(* Once a streamed request has got past its first inspector entry, /status *)
(* forgets it when its handler ends, whatever the upstream, the client,    *)
(* the disk or the socket did (tests/test_edge_streaming.py:140).          *)
StreamsUnlisted ==
  \A r \in forwarded :
    req[r].stream /\ Finished(r) /\ OwnsId(r) => active[IdOf(r)] = Unlisted


(* Every request that arrives is answered or its connection dropped.       *)
EveryRequestFinishes ==
  \A r \in Requests : pc[r] = "received" ~> Finished(r)

-----------------------------------------------------------------------------
(* The gateway this server implements.                                     *)

StageOf(r) ==
  CASE pc[r] = "idle"               -> "new"
    [] pc[r] = "received"           -> "open"
    [] pc[r] = "answer"             -> "settled"
    [] pc[r] \in {"done", "died"}   -> "closed"
    [] OTHER                        -> "listed"

Gateway == INSTANCE AuditedGateway WITH
  Lossy     <- Faults # {},
  stage     <- [r \in Requests |-> StageOf(r)],
  audited   <- {r \in Requests : Audited(req[r])},
  lines     <- [r \in Requests |-> Len(records[r])],
  contacted <- forwarded

(* Every handler, with every fault it meets, is a behaviour of the audited *)
(* gateway: one line per request, at the right moment.                     *)
ImplementsGateway == Gateway!Spec
=============================================================================
