--------------------------- MODULE EdgeProxyProofs ---------------------------
(***************************************************************************)
(* Proofs about the edge server, for any number of connections, any        *)
(* requests, and any of the faults: its types and what its handlers keep,  *)
(* what it tells clients and operator, and that it implements the audited  *)
(* gateway.                                                                *)
(***************************************************************************)
EXTENDS EdgeProxy, TLAPS

(***************************************************************************)
(* Types.                                                                  *)
(***************************************************************************)

(* An exception leaves a handler in a known stage.                         *)
LEMMA UnwindType ==
  ASSUME NEW r \in Requests PROVE UnwindTo(r) \in {"died", "closing", "finally"}
  BY DEF UnwindTo

LEMMA RaiseType ==
  ASSUME TypeOK, NEW r \in Requests, Raise(r)
  PROVE  /\ pc' \in [Requests -> Stages]
         /\ local' \in [Requests -> Local]
<1>1. pc' \in [Requests -> Stages]
  BY UnwindType DEF TypeOK, Raise, Goto, Stages
<1>2. [local[r] EXCEPT !.raised = TRUE] \in Local
  <2>1. local[r] \in Local
    BY DEF TypeOK
  <2> QED BY <2>1 DEF Local
<1>3. local' = [local EXCEPT ![r] = [local[r] EXCEPT !.raised = TRUE]]
  BY DEF Raise
<1> QED BY <1>1, <1>2, <1>3 DEF TypeOK

LEMMA RecordType ==
  ASSUME TypeOK, NEW r \in Requests, NEW status \in Statuses,
         NEW next \in Stages, Record(r, status, next)
  PROVE  TypeOK'
<1> USE EdgeAssumption DEF TypeOK
<1>1. /\ pc' \in [Requests -> Stages]
      /\ local' \in [Requests -> Local]
  <2>1. CASE Raise(r)
    BY <2>1, RaiseType
  <2>2. CASE /\ Goto(r, next)
             /\ local' = [local EXCEPT ![r].status = status, ![r].logged = TRUE]
    <3>1. local[r] \in Local
      OBVIOUS
    <3>2. [local[r] EXCEPT !.status = status, !.logged = TRUE] \in Local
      BY <3>1 DEF Local
    <3>3. local' = [local EXCEPT ![r] =
                      [local[r] EXCEPT !.status = status, !.logged = TRUE]]
      BY <2>2
    <3> QED BY <2>2, <3>2, <3>3 DEF Goto
  <2> QED BY <2>1, <2>2 DEF Record
<1>2. [client |-> req[r].client, status |-> status] \in Line
  BY DEF Profile, Line
<1>3. Append(records[r], [client |-> req[r].client, status |-> status])
        \in Seq(Line)
  BY <1>2
<1>4. records' \in [Requests -> Seq(Line)]
  BY <1>3 DEF Record
<1> QED BY <1>1, <1>4 DEF Record

LEMMA RecordStreamType ==
  ASSUME TypeOK, NEW r \in Requests, NEW status \in Statuses,
         NEW next \in Stages, RecordStream(r, status, next)
  PROVE  TypeOK'
<1>1. CASE local[r].logged
  BY <1>1 DEF RecordStream, TypeOK, Goto
<1>2. CASE ~local[r].logged
  BY <1>2, RecordType DEF RecordStream
<1> QED BY <1>1, <1>2

LEMMA InspectType ==
  ASSUME TypeOK, NEW r \in Requests,
         NEW type \in {"request", "response", "error"},
         NEW next \in Stages, Inspect(r, type, next)
  PROVE  TypeOK'
<1> USE EdgeAssumption DEF TypeOK
<1>1. /\ pc' \in [Requests -> Stages]
      /\ local' \in [Requests -> Local]
  <2>1. CASE Raise(r)
    BY <2>1, RaiseType
  <2>2. CASE Goto(r, next) /\ UNCHANGED local
    BY <2>2 DEF Goto
  <2> QED BY <2>1, <2>2 DEF Inspect
<1>2. [type |-> type, kept |-> local[r].kept, clipped |-> local[r].clipped]
        \in Entry
  <2>1. local[r] \in Local
    OBVIOUS
  <2> QED BY <2>1 DEF Local, Entry
<1>3. Append(inspected[r], [type |-> type, kept |-> local[r].kept,
                            clipped |-> local[r].clipped]) \in Seq(Entry)
  BY <1>2
<1>4. inspected' \in [Requests -> Seq(Entry)]
  BY <1>3 DEF Inspect
<1> QED BY <1>1, <1>4 DEF Inspect

(* Assignments to the handler's local variables.                           *)
LEMMA LocalType ==
  ASSUME TypeOK, NEW r \in Requests, NEW l \in Local,
         local' = [local EXCEPT ![r] = l]
  PROVE  local' \in [Requests -> Local]
  BY DEF TypeOK

LEMMA LocalFields ==
  ASSUME TypeOK, NEW r \in Requests
  PROVE  /\ \A s \in Statuses : [local[r] EXCEPT !.status = s] \in Local
         /\ \A s \in Statuses :
              [local[r] EXCEPT !.status = s, !.headersSent = TRUE] \in Local
         /\ \A b \in BOOLEAN : [local[r] EXCEPT !.raised = b] \in Local
         /\ [local[r] EXCEPT !.broken = TRUE] \in Local
<1>1. local[r] \in Local
  BY DEF TypeOK
<1>2. \A s \in Statuses : [local[r] EXCEPT !.status = s] \in Local
  BY <1>1 DEF Local
<1>3. \A s \in Statuses :
        [local[r] EXCEPT !.status = s, !.headersSent = TRUE] \in Local
  BY <1>1 DEF Local
<1>4. \A b \in BOOLEAN : [local[r] EXCEPT !.raised = b] \in Local
  BY <1>1 DEF Local
<1>5. [local[r] EXCEPT !.broken = TRUE] \in Local
  BY <1>1 DEF Local
<1> QED BY <1>2, <1>3, <1>4, <1>5

LEMMA StatusType ==
  ASSUME TypeOK, NEW r \in Requests, NEW s \in Statuses,
         local' = [local EXCEPT ![r].status = s]
  PROVE  local' \in [Requests -> Local]
<1>1. [local[r] EXCEPT !.status = s] \in Local
  BY LocalFields
<1>2. local' = [local EXCEPT ![r] = [local[r] EXCEPT !.status = s]]
  OBVIOUS
<1> QED BY <1>1, <1>2 DEF TypeOK

(* Socket writes keep what the client received well typed.                 *)
LEMMA DeliversType ==
  ASSUME TypeOK, NEW r \in Requests, NEW w \in Wire, Delivers(r, w)
  PROVE  wire' \in [Requests -> Wire]
  BY DEF TypeOK, Delivers

LEMMA HangsUpType ==
  ASSUME TypeOK, NEW r \in Requests, HangsUp(r)
  PROVE  wire' \in [Requests -> Wire]
<1>1. [wire[r] EXCEPT !.gone = TRUE] \in Wire
  BY DEF TypeOK, Wire
<1>2. wire' = [wire EXCEPT ![r] = [wire[r] EXCEPT !.gone = TRUE]]
  BY DEF HangsUp
<1> QED BY <1>1, <1>2 DEF TypeOK

LEMMA WireFields ==
  ASSUME TypeOK, NEW r \in Requests, NEW status \in Statuses
  PROVE  /\ [wire[r] EXCEPT !.heads = Append(@, status)] \in Wire
         /\ WholeAnswer(r, status) \in Wire
<1>1. wire[r] \in Wire
  BY DEF TypeOK
<1>2. Append(wire[r].heads, status) \in Seq(Statuses)
  BY <1>1 DEF Wire
<1> QED BY <1>1, <1>2 DEF Wire, WholeAnswer

(* An answer sent whole is something a client can have received.           *)
LEMMA WholeAnswerType ==
  ASSUME TypeOK, NEW r \in Requests, NEW status \in Statuses
  PROVE  WholeAnswer(r, status) \in Wire
  BY WireFields

LEMMA TypeInit == Init => TypeOK
  BY EdgeAssumption
     DEF Init, TypeOK, Stages, Local, Statuses, Wire, Unlisted, Listings,
         Profile, Ids
(* The dispatch steps.                                                     *)
LEMMA DispatchType ==
  ASSUME TypeOK, NEW r \in Requests, Dispatch(r) PROVE TypeOK'
<1> USE EdgeAssumption
<1>q. req[r] \in Profile
  BY DEF TypeOK
<1>1. CASE AnswerLocally(r)
  <2>1. PICK status \in LocalStatuses(req[r]) :
          local' = [local EXCEPT ![r].status = status]
    BY <1>1 DEF AnswerLocally
  <2>2. status \in Statuses
    BY DEF LocalStatuses, Statuses
  <2>3. local' \in [Requests -> Local]
    BY <2>1, <2>2, StatusType
  <2> QED BY <1>1, <2>3
          DEF AnswerLocally, TypeOK, Goto, Stages
<1>2. CASE RejectLength(r)
  <2>1. 400 \in Statuses
    BY DEF Statuses
  <2>2. PICK s \in Statuses : local' = [local EXCEPT ![r].status = s]
    BY <1>2, <2>1 DEF RejectLength
  <2>3. local' \in [Requests -> Local]
    BY <2>2, StatusType
  <2>4. pc' \in [Requests -> Stages]
    BY <1>2 DEF RejectLength, TypeOK, Goto, Stages
  <2> QED BY <1>2, <2>3, <2>4 DEF RejectLength, TypeOK
<1>3. CASE RejectLarge(r)
  BY <1>3, RecordType DEF RejectLarge, Stages, Statuses
<1>4. CASE AbortRead(r)
  <2>1. local' = [local EXCEPT ![r] = [local[r] EXCEPT !.raised = TRUE]]
    BY <1>4 DEF AbortRead
  <2> QED BY <1>4, <2>1, LocalType, LocalFields
          DEF AbortRead, TypeOK, Goto, Stages
<1>5. CASE ListModels(r)
  BY <1>5, RecordType DEF ListModels, Stages, Statuses
<1>6. CASE Reject(r)
  <2>1. Verdict(req[r]) \in Statuses
    BY DEF Verdict, Statuses
  <2> QED BY <1>6, <2>1, RecordType DEF Reject, Stages
<1>7. CASE Admit(r)
  <2>1. Listing(r) \in Listings
    BY <1>q DEF Listing, Listings, Profile
  <2> QED BY <1>7, <2>1 DEF Admit, TypeOK, Goto, Stages
<1>8. CASE InspectRequest(r)
  BY <1>8, InspectType DEF InspectRequest, Stages
<1> QED BY <1>1, <1>2, <1>3, <1>4, <1>5, <1>6, <1>7, <1>8 DEF Dispatch

(* A final answer: delivered, missed by a client that hung up, or failing. *)
LEMMA AnswerType ==
  ASSUME TypeOK, NEW r \in Requests, Answer(r) PROVE TypeOK'
<1>1. local[r].status \in Statuses
  BY DEF TypeOK, Local
<1>2. wire' \in [Requests -> Wire]
  <2>1. CASE Delivers(r, WholeAnswer(r, local[r].status))
    BY <1>1, <2>1, WireFields, DeliversType
  <2>2. CASE HangsUp(r)
    BY <2>2, HangsUpType
  <2>3. CASE SocketFails(r)
    BY <2>3 DEF SocketFails, TypeOK
  <2> QED BY <2>1, <2>2, <2>3 DEF Answer
<1>3. /\ pc' \in [Requests -> Stages]
      /\ local' \in [Requests -> Local]
  BY RaiseType DEF Answer, SocketFails, TypeOK, Goto, Stages
<1> QED BY <1>2, <1>3 DEF Answer, TypeOK

LEMMA BufferedType ==
  ASSUME TypeOK, NEW r \in Requests, Buffered(r) PROVE TypeOK'
<1> USE EdgeAssumption
<1>1. CASE UpstreamAnswers(r)
  <2>1. PICK status \in UpstreamStatus :
          local' = [local EXCEPT ![r].status = status]
    BY <1>1 DEF UpstreamAnswers
  <2>2. status \in Statuses
    BY DEF Statuses
  <2>3. local' \in [Requests -> Local]
    BY <2>1, <2>2, StatusType
  <2> QED BY <1>1, <2>3
          DEF UpstreamAnswers, Calls, TypeOK, Goto, Stages
<1>2. CASE UpstreamFails(r)
  <2>1. local' = [local EXCEPT ![r] = [local[r] EXCEPT !.broken = TRUE]]
    BY <1>2 DEF UpstreamFails
  <2> QED BY <1>2, <2>1, LocalType, LocalFields
          DEF UpstreamFails, Calls, TypeOK, Goto, Stages
<1>3. CASE CloseRaises(r)
  BY <1>3, RaiseType DEF CloseRaises, TypeOK
<1>4. CASE InspectResponse(r)
  BY <1>4, InspectType DEF InspectResponse, Stages
<1>5. CASE InspectError(r)
  BY <1>5, InspectType DEF InspectError, Stages
<1>6. CASE RecordOutcome(r)
  <2>1. local[r].status \in Statuses
    BY DEF TypeOK, Local
  <2> QED BY <1>6, <2>1, RecordType, RecordStreamType
          DEF RecordOutcome, Stages
<1>7. CASE RecordFailure(r)
  BY <1>7, RecordType, RecordStreamType DEF RecordFailure, Stages, Statuses
<1>8. CASE Unregister(r)
  BY <1>8 DEF Unregister, Unlist, Unlisted, Listings, TypeOK, Goto, Stages
<1>9. CASE Answer(r)
  BY <1>9, AnswerType
<1> QED BY <1>1, <1>2, <1>3, <1>4, <1>5, <1>6, <1>7, <1>8, <1>9 DEF Buffered

(* The steps of a stream that touch the socket.                            *)
LEMMA StreamOpensType ==
  ASSUME TypeOK, NEW r \in Requests, StreamOpens(r) PROVE TypeOK'
<1> USE EdgeAssumption
<1>1. PICK status \in UpstreamStatus :
        \/ /\ Delivers(r, [wire[r] EXCEPT !.heads = Append(@, status)])
           /\ local' = [local EXCEPT ![r].status = status,
                                     ![r].headersSent = TRUE]
           /\ Goto(r, "streaming")
        \/ /\ HangsUp(r)
           /\ local' = [local EXCEPT ![r].status = status]
           /\ Goto(r, "gone")
        \/ SocketFails(r)
  BY DEF StreamOpens
<1>2. status \in Statuses
  BY DEF Statuses
<1>3. wire' \in [Requests -> Wire]
  <2>1. CASE Delivers(r, [wire[r] EXCEPT !.heads = Append(@, status)])
    BY <1>2, <2>1, WireFields, DeliversType
  <2>2. CASE HangsUp(r)
    BY <2>2, HangsUpType
  <2>3. CASE SocketFails(r)
    BY <2>3 DEF SocketFails, TypeOK
  <2> QED BY <1>1, <2>1, <2>2, <2>3
<1>4. /\ pc' \in [Requests -> Stages]
      /\ local' \in [Requests -> Local]
  <2>1. CASE SocketFails(r)
    BY <2>1, RaiseType DEF SocketFails
  <2>2. CASE ~SocketFails(r)
    <3>2. /\ [local[r] EXCEPT !.status = status, !.headersSent = TRUE] \in Local
          /\ [local[r] EXCEPT !.status = status] \in Local
      BY <1>2, LocalFields
    <3>3. \/ local' = [local EXCEPT ![r] =
                [local[r] EXCEPT !.status = status, !.headersSent = TRUE]]
          \/ local' = [local EXCEPT ![r] =
                [local[r] EXCEPT !.status = status]]
      BY <1>1, <2>2
    <3>4. pc' \in [Requests -> Stages]
      BY <1>1, <2>2 DEF TypeOK, Goto, Stages
    <3> QED BY <3>2, <3>3, <3>4 DEF TypeOK
  <2> QED BY <2>1, <2>2
<1> QED BY <1>3, <1>4 DEF StreamOpens, Calls, TypeOK
(* A chunk keeps the captured body within the limit.                       *)
LEMMA CapturedType ==
  ASSUME NEW l \in Local, NEW n \in ChunkSizes
  PROVE  Captured(l, n) \in Local
<1>1. /\ n \in Nat
      /\ l.got + n \in Nat
  BY EdgeAssumption DEF Local
<1>2. (IF Inspecting
         THEN l.kept + (IF n < CaptureLimit - l.kept
                          THEN n ELSE CaptureLimit - l.kept)
         ELSE l.kept) \in 0..CaptureLimit
  BY EdgeAssumption, <1>1 DEF Local
<1>3. (l.clipped \/ (Inspecting /\ n > CaptureLimit - l.kept)) \in BOOLEAN
  OBVIOUS
<1> QED BY <1>1, <1>2, <1>3 DEF Captured, Local

LEMMA StreamedType ==
  ASSUME TypeOK, NEW r \in Requests, Streamed(r)
  PROVE  TypeOK'
<1> USE EdgeAssumption
<1>0. local[r] \in Local
  BY DEF TypeOK
<1>1. CASE StreamOpens(r)
  BY <1>1, StreamOpensType
<1>2. CASE StreamChunk(r)
  <2>1. PICK n \in ChunkSizes :
          LET l == Captured(local[r], n) IN
          \/ /\ Delivers(r, [wire[r] EXCEPT !.bytes = @ + n])
             /\ local' = [local EXCEPT ![r] = l]
             /\ UNCHANGED pc
          \/ /\ HangsUp(r)
             /\ local' = [local EXCEPT ![r] = l]
             /\ Goto(r, "gone")
          \/ /\ local' = [local EXCEPT ![r] = [l EXCEPT !.raised = TRUE]]
             /\ Goto(r, UnwindTo(r))
             /\ UNCHANGED wire
    BY <1>2 DEF StreamChunk
  <2> DEFINE l == Captured(local[r], n)
  <2>2. l \in Local
    BY <1>0, CapturedType
  <2>3. [l EXCEPT !.raised = TRUE] \in Local
    BY <2>2 DEF Local
  <2>4. [wire[r] EXCEPT !.bytes = @ + n] \in Wire
    <3>1. wire[r] \in Wire
      BY DEF TypeOK
    <3>2. wire[r].bytes + n \in Nat
      BY <3>1 DEF Wire
    <3> QED BY <3>1, <3>2 DEF Wire
  <2> HIDE DEF l
  <2>5. wire' \in [Requests -> Wire]
    BY <2>1, <2>4, DeliversType, HangsUpType DEF TypeOK, l
  <2>6. local' \in [Requests -> Local]
    BY <2>1, <2>2, <2>3 DEF TypeOK, l
  <2>7. pc' \in [Requests -> Stages]
    BY <2>1, UnwindType DEF TypeOK, Goto, Stages
  <2> QED BY <1>2, <2>5, <2>6, <2>7 DEF StreamChunk, TypeOK
<1>3. CASE StreamEnds(r)
  <2>1. [wire[r] EXCEPT !.whole = TRUE] \in Wire
    BY DEF TypeOK, Wire
  <2>2. wire' = [wire EXCEPT ![r] = [wire[r] EXCEPT !.whole = TRUE]]
    BY <1>3 DEF StreamEnds
  <2> QED BY <1>3, <2>1, <2>2 DEF StreamEnds, TypeOK, Goto, Stages
<1>4. CASE RecordGone(r)
  <2>1. local[r].status \in Statuses
    BY <1>0 DEF Local
  <2>2. (IF local[r].headersSent THEN "goneInspect" ELSE "closing") \in Stages
    BY DEF Stages
  <2> QED BY <1>4, <2>1, <2>2, RecordStreamType DEF RecordGone
<1>5. CASE InspectGone(r)
  BY <1>5, InspectType DEF InspectGone, Stages
<1>6. CASE Close(r)
  <2>1. [local[r] EXCEPT !.raised = FALSE] \in Local
    BY LocalFields
  <2>2. \/ UNCHANGED local
        \/ local' = [local EXCEPT ![r] = [local[r] EXCEPT !.raised = FALSE]]
    BY <1>6 DEF Close
  <2> QED BY <1>6, <2>1, <2>2 DEF Close, TypeOK, Goto, Stages
<1>7. CASE AnswerFailure(r)
  <2>1. wire' \in [Requests -> Wire]
    <3>1. 502 \in Statuses
      BY DEF Statuses
    <3>2. \/ \E s \in Statuses : Delivers(r, WholeAnswer(r, s))
          \/ HangsUp(r)
          \/ UNCHANGED wire
      BY <1>7, <3>1 DEF AnswerFailure, SocketFails
    <3>3. CASE \E s \in Statuses : Delivers(r, WholeAnswer(r, s))
      BY <3>3, WholeAnswerType, DeliversType
    <3>4. CASE UNCHANGED wire
      BY <3>4 DEF TypeOK
    <3> QED BY <3>2, <3>3, <3>4, HangsUpType
  <2>2. /\ pc' \in [Requests -> Stages]
        /\ local' \in [Requests -> Local]
    BY <1>7, RaiseType DEF AnswerFailure, SocketFails, TypeOK, Goto, Stages
  <2> QED BY <1>7, <2>1, <2>2 DEF AnswerFailure, TypeOK
<1>8. CASE Finally(r)
  BY <1>8 DEF Finally, Unlist, Unlisted, Listings, TypeOK, Goto, Stages
<1> QED BY <1>1, <1>2, <1>3, <1>4, <1>5, <1>6, <1>7, <1>8 DEF Streamed
LEMMA TypeStep == TypeOK /\ [Next]_vars => TypeOK'
<1> SUFFICES ASSUME TypeOK, [Next]_vars PROVE TypeOK'
  OBVIOUS
<1>1. ASSUME NEW r \in Requests, Arrive(r) PROVE TypeOK'
  BY <1>1 DEF Arrive, TypeOK, Goto, Stages
<1>2. ASSUME NEW r \in Requests, Handle(r) PROVE TypeOK'
  BY <1>2, DispatchType, BufferedType, StreamedType DEF Handle
<1>3. CASE UNCHANGED vars
  BY <1>3 DEF vars, TypeOK
<1> QED BY <1>1, <1>2, <1>3 DEF Next

(* Every variable keeps its type, and the captured body its limit.         *)
THEOREM TypeCorrect == Spec => []TypeOK
  BY TypeInit, TypeStep, PTL DEF Spec
(***************************************************************************)
(* One access log line per completed request.                              *)
(*                                                                         *)
(* The flag `logged` of a handler counts its lines.  The rest says where   *)
(* the flag must still be down (so that no second line is written), and    *)
(* where it must be up (so that the handler cannot end without one): after *)
(* a record, unless an exception is unwinding.                             *)
(***************************************************************************)

StreamStages == {"streaming", "gone", "goneInspect", "closing", "failAnswer",
                 "finally"}

RecordInv(r) ==
  /\ Len(records[r]) = IF local[r].logged THEN 1 ELSE 0
  /\ pc[r] \in {"idle", "received", "admitted", "calling", "streaming"}
       => ~local[r].logged
  /\ ~req[r].stream =>
       /\ pc[r] \notin StreamStages
       /\ pc[r] \in {"answered", "failed", "logging", "failLogging"}
            => ~local[r].logged
  /\ pc[r] \in {"unregister", "goneInspect", "failAnswer"} => local[r].logged
  /\ pc[r] \in {"closing", "finally"} => local[r].logged \/ local[r].raised
  /\ pc[r] \in {"answer", "done"} /\ Audited(req[r]) => local[r].logged

AdmitInv(r) ==
  InFlight(r) \/ r \in forwarded =>
    /\ Verdict(req[r]) = 200
    /\ req[r].length = "ok"
    /\ req[r].endpoint \notin {"health", "status"}
    /\ ~ListsCatalog(req[r])

IInv == TypeOK /\ \A r \in Requests : RecordInv(r) /\ AdmitInv(r)
LEMMA IInvInit == Init => IInv
<1> SUFFICES ASSUME Init PROVE IInv
  OBVIOUS
<1>1. TypeOK
  BY TypeInit
<1>2. ASSUME NEW r \in Requests PROVE RecordInv(r) /\ AdmitInv(r)
  BY DEF Init, RecordInv, AdmitInv, InFlight, Stages, StreamStages
<1> QED BY <1>1, <1>2 DEF IInv

(* A handler touches no other request's stage, locals or log lines.        *)
LEMMA FrameRecord ==
  ASSUME TypeOK, NEW s \in Requests, Arrive(s) \/ Handle(s),
         NEW r \in Requests, r # s
  PROVE  /\ pc'[r] = pc[r]
         /\ local'[r] = local[r]
         /\ records'[r] = records[r]
         /\ req' = req
         /\ r \in forwarded' <=> r \in forwarded
<1>1. CASE Arrive(s)
  BY <1>1 DEF Arrive, Goto, TypeOK
<1>2. CASE Dispatch(s)
  BY <1>2 DEF Dispatch, AnswerLocally, RejectLength, RejectLarge, AbortRead,
       ListModels, Reject, Admit, InspectRequest, Record, Inspect, Raise,
       Goto, TypeOK
<1>3. CASE Buffered(s)
  BY <1>3 DEF Buffered, UpstreamAnswers, UpstreamFails, CloseRaises,
       InspectResponse, InspectError, RecordOutcome, RecordFailure,
       Unregister, Answer, Calls, Record, RecordStream, Inspect, Raise,
       SocketFails, Goto, TypeOK
<1>4. CASE Streamed(s)
  BY <1>4 DEF Streamed, StreamOpens, StreamChunk, StreamEnds, RecordGone,
       InspectGone, Close, AnswerFailure, Finally, Calls, Record,
       RecordStream, Inspect, Raise, SocketFails, Goto, TypeOK
<1> QED BY <1>1, <1>2, <1>3, <1>4 DEF Handle

(* What the helpers do to the acting request.                              *)
LEMMA RaiseEffect ==
  ASSUME TypeOK, NEW r \in Requests, Raise(r)
  PROVE  /\ pc'[r] = UnwindTo(r)
         /\ local'[r].raised
         /\ local'[r].logged = local[r].logged
  BY DEF TypeOK, Raise, Goto, Local

LEMMA RecordEffect ==
  ASSUME TypeOK, NEW r \in Requests, NEW status, NEW next,
         Record(r, status, next)
  PROVE  /\ UNCHANGED <<req, forwarded>>
         /\ \/ /\ pc'[r] = next
               /\ local'[r].logged
               /\ Len(records'[r]) = Len(records[r]) + 1
            \/ /\ pc'[r] = UnwindTo(r)
               /\ local'[r].raised
               /\ local'[r].logged = local[r].logged
               /\ records'[r] = records[r]
<1>1. CASE Raise(r) /\ UNCHANGED records
  BY <1>1, RaiseEffect DEF Record
<1>2. CASE /\ records' = [records EXCEPT ![r] = Append(@,
                            [client |-> req[r].client, status |-> status])]
           /\ local' = [local EXCEPT ![r].status = status, ![r].logged = TRUE]
           /\ Goto(r, next)
  <2>1. records[r] \in Seq(Line)
    BY DEF TypeOK
  <2>2. req[r].client \in Clients \union {NoClient}
    BY EdgeAssumption DEF TypeOK, Profile
  <2>3. Len(records'[r]) = Len(records[r]) + 1
    BY <1>2, <2>1 DEF TypeOK
  <2>4. pc'[r] = next
    BY <1>2 DEF Goto, TypeOK
  <2>5. local'[r].logged
    BY <1>2 DEF TypeOK, Local
  <2> QED BY <2>3, <2>4, <2>5 DEF Record
<1> QED BY <1>1, <1>2 DEF Record

LEMMA RecordStreamEffect ==
  ASSUME TypeOK, NEW r \in Requests, NEW status, NEW next,
         RecordStream(r, status, next)
  PROVE  /\ UNCHANGED <<req, forwarded>>
         /\ \/ /\ ~local[r].logged
               /\ Record(r, status, next)
            \/ /\ local[r].logged
               /\ pc'[r] = next
               /\ UNCHANGED <<local, records>>
  BY DEF RecordStream, Record, Goto, TypeOK

LEMMA InspectEffect ==
  ASSUME TypeOK, NEW r \in Requests, NEW type, NEW next,
         Inspect(r, type, next)
  PROVE  /\ UNCHANGED <<req, forwarded, records>>
         /\ local'[r].logged = local[r].logged
         /\ \/ pc'[r] = next /\ local' = local
            \/ pc'[r] = UnwindTo(r) /\ local'[r].raised
  BY RaiseEffect DEF Inspect, Goto, TypeOK

LEMMA DispatchKeeps ==
  ASSUME IInv, NEW r \in Requests, Dispatch(r)
  PROVE  RecordInv(r)' /\ AdmitInv(r)'
<1> USE DEF IInv
<1>0. /\ TypeOK
      /\ RecordInv(r)
      /\ AdmitInv(r)
      /\ Len(records[r]) \in Nat
  BY DEF TypeOK
<1>1. CASE AnswerLocally(r)
  BY <1>0, <1>1 DEF AnswerLocally, RecordInv, AdmitInv, InFlight, Audited,
       Goto, TypeOK, StreamStages, Stages, Local
<1>2. CASE RejectLength(r)
  BY <1>0, <1>2 DEF RejectLength, ApiCall, RecordInv, AdmitInv, InFlight,
       Audited, Goto, TypeOK, StreamStages, Stages, Local
<1>3. CASE RejectLarge(r)
  <2>1. PICK status : Record(r, status, "answer")
    BY <1>3 DEF RejectLarge
  <2> QED BY <1>0, <1>3, <2>1, RecordEffect
          DEF RejectLarge, ApiCall, RecordInv, AdmitInv, InFlight, UnwindTo,
              StreamStages, Stages
<1>4. CASE AbortRead(r)
  BY <1>0, <1>4 DEF AbortRead, ApiCall, RecordInv, AdmitInv, InFlight,
       Goto, TypeOK, StreamStages, Stages, Local
<1>5. CASE ListModels(r)
  <2>1. PICK status : Record(r, status, "answer")
    BY <1>5 DEF ListModels
  <2> QED BY <1>0, <1>5, <2>1, RecordEffect
          DEF ListModels, ApiCall, RecordInv, AdmitInv, InFlight, UnwindTo,
              StreamStages, Stages
<1>6. CASE Reject(r)
  <2>1. PICK status : Record(r, status, "answer")
    BY <1>6 DEF Reject
  <2> QED BY <1>0, <1>6, <2>1, RecordEffect
          DEF Reject, Prepares, Prepared, ApiCall, RecordInv, AdmitInv, InFlight,
              UnwindTo, StreamStages, Stages
<1>7. CASE Admit(r)
  BY <1>0, <1>7 DEF Admit, Prepares, Prepared, ApiCall, RecordInv, AdmitInv, InFlight,
       Goto, TypeOK, StreamStages, Stages
<1>8. CASE InspectRequest(r)
  BY <1>0, <1>8, InspectEffect
     DEF InspectRequest, RecordInv, AdmitInv, InFlight, UnwindTo,
         StreamStages, Stages
<1> QED BY <1>1, <1>2, <1>3, <1>4, <1>5, <1>6, <1>7, <1>8 DEF Dispatch
LEMMA BufferedKeeps ==
  ASSUME IInv, NEW r \in Requests, Buffered(r)
  PROVE  RecordInv(r)' /\ AdmitInv(r)'
<1> USE DEF IInv
<1>0. /\ TypeOK
      /\ RecordInv(r)
      /\ AdmitInv(r)
      /\ Len(records[r]) \in Nat
  BY DEF TypeOK
<1> USE DEF RecordInv, AdmitInv, InFlight, Stages, StreamStages
<1>1. CASE UpstreamAnswers(r)
  BY <1>0, <1>1 DEF UpstreamAnswers, Calls, Goto, TypeOK, Local
<1>2. CASE UpstreamFails(r)
  BY <1>0, <1>2 DEF UpstreamFails, Calls, Goto, TypeOK, Local
<1>3. CASE CloseRaises(r)
  BY <1>0, <1>3, RaiseEffect DEF CloseRaises, UnwindTo
<1>4. CASE InspectResponse(r)
  BY <1>0, <1>4, InspectEffect DEF InspectResponse, UnwindTo, InsideStream
<1>5. CASE InspectError(r)
  BY <1>0, <1>5, InspectEffect DEF InspectError, UnwindTo, InsideStream
<1>6. CASE RecordOutcome(r)
  <2>1. CASE req[r].stream
    BY <1>0, <1>6, <2>1, RecordStreamEffect, RecordEffect
       DEF RecordOutcome, UnwindTo, InsideStream
  <2>2. CASE ~req[r].stream
    BY <1>0, <1>6, <2>2, RecordEffect
       DEF RecordOutcome, UnwindTo, InsideStream
  <2> QED BY <2>1, <2>2
<1>7. CASE RecordFailure(r)
  <2>1. CASE req[r].stream
    BY <1>0, <1>7, <2>1, RecordStreamEffect, RecordEffect
       DEF RecordFailure, UnwindTo, InsideStream
  <2>2. CASE ~req[r].stream
    BY <1>0, <1>7, <2>2, RecordEffect
       DEF RecordFailure, UnwindTo, InsideStream
  <2> QED BY <2>1, <2>2
<1>8. CASE Unregister(r)
  BY <1>0, <1>8 DEF Unregister, Goto, TypeOK
<1>9. CASE Answer(r)
  <2>1. CASE SocketFails(r)
    BY <1>0, <1>9, <2>1, RaiseEffect DEF Answer, SocketFails, UnwindTo
  <2>2. CASE ~SocketFails(r)
    BY <1>0, <1>9, <2>2 DEF Answer, Goto, TypeOK
  <2> QED BY <2>1, <2>2
<1> QED BY <1>1, <1>2, <1>3, <1>4, <1>5, <1>6, <1>7, <1>8, <1>9 DEF Buffered

LEMMA StreamedKeeps ==
  ASSUME IInv, NEW r \in Requests, Streamed(r)
  PROVE  RecordInv(r)' /\ AdmitInv(r)'
<1> USE DEF IInv
<1>0. /\ TypeOK
      /\ RecordInv(r)
      /\ AdmitInv(r)
      /\ Len(records[r]) \in Nat
  BY DEF TypeOK
<1> USE DEF RecordInv, AdmitInv, InFlight, Stages, StreamStages
<1>1. CASE StreamOpens(r)
  <2>1. CASE SocketFails(r)
    BY <1>0, <1>1, <2>1, RaiseEffect
       DEF StreamOpens, Calls, SocketFails, UnwindTo, InsideStream
  <2>2. CASE ~SocketFails(r)
    <3>1. local'[r].logged = local[r].logged
      BY <1>0, <1>1, <2>2 DEF StreamOpens, TypeOK, Local
    <3>2. pc'[r] \in {"streaming", "gone"}
      BY <1>0, <1>1, <2>2 DEF StreamOpens, Goto, TypeOK
    <3> QED BY <1>0, <1>1, <3>1, <3>2 DEF StreamOpens, Calls
  <2> QED BY <2>1, <2>2
<1>2. CASE StreamChunk(r)
  <2>1. PICK n \in ChunkSizes :
          LET l == Captured(local[r], n) IN
          \/ local' = [local EXCEPT ![r] = l] /\ UNCHANGED pc
          \/ local' = [local EXCEPT ![r] = l] /\ Goto(r, "gone")
          \/ /\ local' = [local EXCEPT ![r] = [l EXCEPT !.raised = TRUE]]
             /\ Goto(r, UnwindTo(r))
    BY <1>2 DEF StreamChunk
  <2>2. Captured(local[r], n).logged = local[r].logged
    BY <1>0 DEF Captured, TypeOK, Local
  <2>3. Captured(local[r], n) \in Local
    BY <1>0, CapturedType DEF TypeOK
  <2>4. local'[r].logged = local[r].logged
    BY <1>0, <2>1, <2>2, <2>3 DEF TypeOK, Local
  <2>5. UnwindTo(r) = "closing" => local'[r].raised \/ pc'[r] # "closing"
    BY <1>0, <1>2, <2>1, <2>3 DEF TypeOK, Local, Goto, StreamChunk
  <2>6. pc'[r] \in {"streaming", "gone", "closing"}
    BY <1>0, <1>2, <2>1 DEF TypeOK, Goto, StreamChunk, UnwindTo, InsideStream
  <2> QED BY <1>0, <1>2, <2>4, <2>5, <2>6
          DEF StreamChunk, UnwindTo, InsideStream
<1>3. CASE StreamEnds(r)
  BY <1>0, <1>3 DEF StreamEnds, Goto, TypeOK
<1>4. CASE RecordGone(r)
  BY <1>0, <1>4, RecordStreamEffect, RecordEffect
     DEF RecordGone, UnwindTo, InsideStream
<1>5. CASE InspectGone(r)
  BY <1>0, <1>5, InspectEffect DEF InspectGone, UnwindTo, InsideStream
<1>6. CASE Close(r)
  <2>1. CASE Goto(r, "finally") /\ UNCHANGED local
    BY <1>0, <1>6, <2>1 DEF Close, Goto, TypeOK
  <2>2. CASE /\ Goto(r, "failed")
             /\ local' = [local EXCEPT ![r].raised = FALSE]
    <3>1. local'[r].logged = local[r].logged
      BY <1>0, <2>2 DEF TypeOK, Local
    <3>2. req[r].stream
      BY <1>0, <1>6 DEF Close
    <3> QED BY <1>0, <1>6, <2>2, <3>1, <3>2 DEF Close, Goto, TypeOK
  <2> QED BY <1>6, <2>1, <2>2 DEF Close
<1>7. CASE AnswerFailure(r)
  <2>1. CASE SocketFails(r)
    BY <1>0, <1>7, <2>1, RaiseEffect
       DEF AnswerFailure, SocketFails, UnwindTo, InsideStream
  <2>2. CASE ~SocketFails(r)
    BY <1>0, <1>7, <2>2 DEF AnswerFailure, Goto, TypeOK
  <2> QED BY <2>1, <2>2
<1>8. CASE Finally(r)
  BY <1>0, <1>8 DEF Finally, Goto, TypeOK
<1> QED BY <1>1, <1>2, <1>3, <1>4, <1>5, <1>6, <1>7, <1>8 DEF Streamed

LEMMA IInvStep == IInv /\ [Next]_vars => IInv'
<1> SUFFICES ASSUME IInv, [Next]_vars PROVE IInv'
  OBVIOUS
<1>0. TypeOK /\ TypeOK'
  BY TypeStep DEF IInv
<1>1. ASSUME NEW s \in Requests, Arrive(s) \/ Handle(s),
             NEW r \in Requests
      PROVE  RecordInv(r)' /\ AdmitInv(r)'
  <2>1. CASE r # s
    BY <1>0, <1>1, <2>1, FrameRecord DEF IInv, RecordInv, AdmitInv, InFlight
  <2>2. CASE r = s /\ Arrive(s)
    BY <1>0, <2>2 DEF IInv, Arrive, Goto, TypeOK, RecordInv, AdmitInv,
         InFlight, Stages, StreamStages
  <2>3. CASE r = s /\ Handle(s)
    BY <2>3, DispatchKeeps, BufferedKeeps, StreamedKeeps DEF Handle
  <2> QED BY <1>1, <2>1, <2>2, <2>3
<1>2. CASE UNCHANGED vars
  BY <1>0, <1>2 DEF vars, IInv, RecordInv, AdmitInv, InFlight
<1> QED BY <1>0, <1>1, <1>2 DEF Next, IInv

LEMMA IInvHolds == Spec => []IInv
  BY IInvInit, IInvStep, PTL DEF Spec

(* Whatever raises in its handler, no request is logged twice.             *)
THEOREM NeverLoggedTwice == Spec => []OneRecordAtMost
<1>1. IInv => OneRecordAtMost
  BY DEF IInv, RecordInv, OneRecordAtMost
<1> QED BY <1>1, IInvHolds, PTL

(* A handler that ends without an exception has logged its request exactly *)
(* once: for any catalog, any statuses and any combination of the faults.  *)
THEOREM CompletedIsAudited == Spec => []CompletedIsRecorded
<1>1. IInv => CompletedIsRecorded
  BY DEF IInv, RecordInv, CompletedIsRecorded
<1> QED BY <1>1, IInvHolds, PTL

(* Olla hears only of admissible requests.                                 *)
THEOREM ForwardsOnlyAdmissible == Spec => []OnlyAdmissibleForwarded
<1>1. ASSUME IInv PROVE OnlyAdmissibleForwarded
  <2>1. ASSUME NEW r \in forwarded
        PROVE  /\ req[r].client \in Clients
               /\ req[r].endpoint \in {"openai", "models"}
               /\ req[r].length = "ok"
               /\ Aliases # {} => req[r].model \in Aliases \union {NoModel}
    <3>1. r \in Requests /\ req[r] \in Profile
      BY <1>1, EdgeAssumption DEF IInv, TypeOK
    <3>2. /\ Verdict(req[r]) = 200
          /\ req[r].length = "ok"
          /\ req[r].endpoint \notin {"health", "status"}
      BY <1>1, <3>1 DEF IInv, AdmitInv
    <3> QED BY <3>1, <3>2 DEF Verdict, Profile
  <2> QED BY <2>1 DEF OnlyAdmissibleForwarded
<1> QED BY <1>1, IInvHolds, PTL

(***************************************************************************)
(* What the edge tells: the client on the wire, the operator in the access *)
(* log and the inspector, and /status about the requests in flight.        *)
(***************************************************************************)

(* Status lines and log lines of one request.                              *)
Before == {"idle", "received", "admitted", "calling"}

HeadInv(r) ==
  /\ Len(wire[r].heads) <= 1
  /\ local[r].headersSent =>
       /\ req[r].stream /\ r \in forwarded /\ wire[r].heads # << >>
       /\ pc[r] \notin Before \union {"answer", "unregister"}
       /\ wire[r].heads[1] = local[r].status
            \/ (local[r].status = 502 /\ local[r].logged)
  /\ (~local[r].headersSent /\ pc[r] \notin {"finally", "done", "died"})
       => wire[r].heads = << >>
  /\ (~local[r].headersSent /\ wire[r].heads # << >>)
       => wire[r].heads[1] = local[r].status
  /\ \A i \in DOMAIN records[r] : records[r][i].status = local[r].status

(* When a stream may be answered by a 502, and when one can have broken.   *)
FailInv(r) ==
  /\ pc[r] = "gone" => wire[r].gone
  /\ (req[r].stream /\ pc[r] \in {"streaming", "answered", "logging", "goneInspect"})
       => local[r].headersSent
  /\ (/\ req[r].stream /\ local[r].logged /\ ~local[r].headersSent
      /\ pc[r] \in {"closing", "failed", "failLogging", "failAnswer"})
       => wire[r].gone \/ local[r].status = 502
  /\ (req[r].stream /\ local[r].broken) =>
       /\ pc[r] \in {"failed", "failLogging", "failAnswer", "finally", "done", "died"}
       /\ local[r].headersSent =>
            /\ ~wire[r].whole
            /\ local[r].logged => local[r].status = 502
  /\ pc[r] \in Before \union {"streaming"} => ~wire[r].whole

(* The body read, the part of it that is captured, and the part sent.      *)
Exact(l) == Inspecting =>
  /\ l.clipped <=> l.got > CaptureLimit
  /\ l.kept = IF l.got > CaptureLimit THEN CaptureLimit ELSE l.got

BodyInv(r) ==
  /\ Exact(local[r])
  /\ ~Inspecting => inspected[r] = << >>
  /\ \A i \in DOMAIN inspected[r] : inspected[r][i].type = "response" =>
       /\ inspected[r][i].clipped = local[r].clipped
       /\ inspected[r][i].kept = local[r].kept
       /\ pc[r] \notin Before \union {"streaming"}
  /\ ~local[r].headersSent => local[r].got = 0 /\ wire[r].bytes = 0
  /\ pc[r] = "streaming" => wire[r].bytes = local[r].got
  /\ (wire[r].whole /\ ~local[r].broken) => wire[r].bytes = local[r].got

WireInv(r) == HeadInv(r) /\ FailInv(r) /\ BodyInv(r)

WInv == IInv /\ \A r \in Requests : WireInv(r)

LEMMA WInvInit == Init => WInv
<1> SUFFICES ASSUME Init, NEW r \in Requests PROVE WireInv(r)
  BY IInvInit DEF WInv
<1>1. req[r].stream \in BOOLEAN
  BY EdgeAssumption DEF Init, Profile
<1>2. HeadInv(r) /\ FailInv(r)
  BY <1>1 DEF Init, HeadInv, FailInv, Before
<1>3. BodyInv(r)
  BY <1>1, EdgeAssumption DEF Init, BodyInv, Before, Exact
<1> QED BY <1>2, <1>3 DEF WireInv

(* A handler touches nothing of another request.                           *)
LEMMA FrameWire ==
  ASSUME TypeOK, NEW s \in Requests, Arrive(s) \/ Handle(s),
         NEW r \in Requests, r # s
  PROVE  wire'[r] = wire[r] /\ inspected'[r] = inspected[r]
<1> USE DEF TypeOK
<1>1. CASE Arrive(s) \/ Dispatch(s)
  BY <1>1 DEF Arrive, Dispatch, AnswerLocally, RejectLength, RejectLarge,
       AbortRead, ListModels, Reject, Admit, InspectRequest, Record, Inspect
<1>2. CASE Buffered(s)
  BY <1>2 DEF Buffered, UpstreamAnswers, UpstreamFails, CloseRaises,
       InspectResponse, InspectError, RecordOutcome, RecordFailure,
       Unregister, Answer, Record, RecordStream, Inspect,
       SocketFails, Delivers, HangsUp
<1>3. CASE Streamed(s)
  BY <1>3 DEF Streamed, StreamOpens, StreamChunk, StreamEnds, RecordGone,
       InspectGone, Close, AnswerFailure, Finally, Record,
       RecordStream, Inspect, SocketFails, Delivers, HangsUp
<1> QED BY <1>1, <1>2, <1>3 DEF Handle

(* What the helpers do to the acting request.                              *)
Raised(r) == pc'[r] = UnwindTo(r) /\ local'[r] = [local[r] EXCEPT !.raised = TRUE]

LEMMA RaiseIs ==
  ASSUME TypeOK, NEW r \in Requests, Raise(r) PROVE Raised(r)
BY DEF Raise, Raised, Goto, TypeOK

LEMMA InspectIs ==
  ASSUME TypeOK, NEW r \in Requests, NEW type, NEW next, Inspect(r, type, next)
  PROVE  /\ UNCHANGED <<req, forwarded, records, wire>>
         /\ \/ Raised(r) /\ inspected' = inspected
            \/ /\ pc'[r] = next /\ local' = local
               /\ inspected'[r] = IF Inspecting
                    THEN Append(inspected[r],
                           [type |-> type, kept |-> local[r].kept,
                            clipped |-> local[r].clipped])
                    ELSE inspected[r]
BY RaiseIs DEF Inspect, Goto, TypeOK

LEMMA HangsUpIs ==
  ASSUME TypeOK, NEW r \in Requests, HangsUp(r)
  PROVE  wire'[r] = [wire[r] EXCEPT !.gone = TRUE]
BY DEF HangsUp, TypeOK

LEMMA DeliversIs ==
  ASSUME TypeOK, NEW r \in Requests, NEW w, Delivers(r, w)
  PROVE  ~wire[r].gone /\ wire'[r] = w
BY DEF Delivers, TypeOK

LEMMA Typed ==
  ASSUME TypeOK, NEW r \in Requests
  PROVE  /\ local[r] \in Local /\ wire[r] \in Wire
         /\ records[r] \in Seq(Line) /\ inspected[r] \in Seq(Entry)
         /\ pc[r] \in Stages
         /\ req[r].stream \in BOOLEAN
BY EdgeAssumption DEF TypeOK, Profile

(* An exception in a stage in which nothing has been sent or logged that   *)
(* the stages it leads to would contradict.                                *)
LEMMA RaisedKeeps ==
  ASSUME WInv, NEW r \in Requests, Raised(r), forwarded \subseteq forwarded',
         UNCHANGED <<req, records, inspected, wire>>,
         pc[r] \notin {"idle", "done", "died", "closing", "finally"},
         req[r].stream /\ local[r].logged /\ ~local[r].headersSent
           /\ pc[r] \in InsideStream
             => wire[r].gone \/ local[r].status = 502
  PROVE  WireInv(r)'
<1>0. TypeOK /\ WireInv(r) /\ RecordInv(r)
  BY DEF WInv, IInv
<1>1. UnwindTo(r) \in {"died", "closing", "finally"}
  BY UnwindType
<1>2. local[r] \in Local
  BY <1>0, Typed
<1>3. /\ local'[r].status = local[r].status
      /\ local'[r].logged = local[r].logged
      /\ local'[r].headersSent = local[r].headersSent
      /\ local'[r].broken = local[r].broken
      /\ local'[r].got = local[r].got /\ local'[r].kept = local[r].kept
      /\ local'[r].clipped = local[r].clipped
  BY <1>2 DEF Raised, Local
<1>4. HeadInv(r)'
  BY <1>0, <1>1, <1>3 DEF WireInv, HeadInv, Raised, Before
<1>5. FailInv(r)'
  BY <1>0, <1>1, <1>3
     DEF WireInv, FailInv, Raised, Before, UnwindTo, InsideStream
<1>6. BodyInv(r)'
  BY <1>0, <1>1, <1>3 DEF WireInv, BodyInv, Raised, Before, Exact
<1> QED BY <1>4, <1>5, <1>6 DEF WireInv

(* A log line: the status is kept beside it, and it is a first line.       *)
LEMMA RecordKeeps ==
  ASSUME WInv, NEW r \in Requests, NEW status, NEW next, next \in Stages,
         Record(r, status, next), ~local[r].logged,
         pc[r] \notin {"idle", "done", "died", "closing", "finally"},
         next \notin Before \union {"streaming", "gone"},
         next \in {"answer", "unregister"} => ~local[r].headersSent,
         next = "goneInspect" => local[r].headersSent,
         local[r].headersSent => status = local[r].status \/ status = 502,
         req[r].stream => next \in {"answer", "closing", "goneInspect", "failAnswer"},
         (req[r].stream /\ next = "closing" /\ ~local[r].headersSent)
            => wire[r].gone,
         next = "failAnswer" => status = 502,
         (req[r].stream /\ local[r].broken) => next = "failAnswer",
         pc[r] = "failLogging" /\ local[r].broken => status = 502
  PROVE  WireInv(r)'
<1>0. TypeOK /\ WireInv(r) /\ RecordInv(r)
  BY DEF WInv, IInv
<1>1. local[r] \in Local /\ records[r] \in Seq(Line) /\ wire[r] \in Wire
  BY <1>0, Typed
<1>2. records[r] = << >>
  BY <1>0, <1>1 DEF RecordInv
<1>u. UNCHANGED <<req, forwarded, inspected, wire>>
  BY DEF Record
<1>3. CASE Raised(r) /\ UNCHANGED records
  BY <1>0, <1>3, <1>u, RaisedKeeps
<1>4. CASE /\ pc'[r] = next
           /\ local'[r] = [local[r] EXCEPT !.status = status, !.logged = TRUE]
           /\ records'[r] = Append(records[r],
                              [client |-> req[r].client, status |-> status])
  <2>1. /\ local'[r].status = status /\ local'[r].logged
        /\ local'[r].headersSent = local[r].headersSent
        /\ local'[r].broken = local[r].broken
        /\ local'[r].got = local[r].got /\ local'[r].kept = local[r].kept
        /\ local'[r].clipped = local[r].clipped
    BY <1>1, <1>4 DEF Local
  <2>2. \A i \in DOMAIN records'[r] : records'[r][i].status = status
    BY <1>2, <1>4
  <2>4. HeadInv(r)'
    BY <1>0, <1>4, <2>1, <2>2, <1>u DEF WireInv, HeadInv, Before
  <2>5. FailInv(r)'
    BY <1>0, <1>4, <2>1, <1>u DEF WireInv, FailInv, Before
  <2>6. BodyInv(r)'
    BY <1>0, <1>4, <2>1, <1>u DEF WireInv, BodyInv, Before, Exact
  <2> QED BY <2>4, <2>5, <2>6 DEF WireInv
<1>5. \/ Raised(r) /\ records' = records
      \/ /\ pc'[r] = next
         /\ local'[r] = [local[r] EXCEPT !.status = status, !.logged = TRUE]
         /\ records'[r] = Append(records[r],
                            [client |-> req[r].client, status |-> status])
  <2>1. CASE Raise(r) /\ UNCHANGED records
    BY <1>0, <2>1, RaiseIs
  <2>2. CASE /\ records' = [records EXCEPT ![r] = Append(@,
                              [client |-> req[r].client, status |-> status])]
             /\ local' = [local EXCEPT ![r].status = status, ![r].logged = TRUE]
             /\ Goto(r, next)
    <3>1. local \in [Requests -> Local] /\ records \in [Requests -> Seq(Line)]
          /\ pc \in [Requests -> Stages]
      BY <1>0 DEF TypeOK
    <3>2. local'[r] = [local[r] EXCEPT !.status = status, !.logged = TRUE]
      BY <2>2, <3>1
    <3> QED BY <2>2, <3>1, <3>2 DEF Goto
  <2> QED BY <2>1, <2>2 DEF Record
<1> QED BY <1>3, <1>4, <1>5

(* A step that changes nothing but the stage.                              *)
LEMMA StageKeeps ==
  ASSUME WInv, NEW r \in Requests, pc'[r] \in Stages,
         UNCHANGED <<req, local, records, wire>>, inspected'[r] = inspected[r],
         forwarded \subseteq forwarded',
         \/ pc[r] = "idle" /\ pc'[r] = "received"
         \/ pc[r] = "received" /\ pc'[r] = "admitted"
         \/ pc[r] = "admitted" /\ pc'[r] = "calling"
         \/ pc[r] = "answered" /\ pc'[r] = "logging"
         \/ pc[r] \in {"logging", "goneInspect"} /\ pc'[r] = "closing"
         \/ pc[r] = "gone" /\ pc'[r] = "closing"
         \/ pc[r] = "gone" /\ pc'[r] = "goneInspect" /\ local[r].headersSent
         \/ pc[r] = "failed" /\ pc'[r] = "failLogging"
         \/ /\ pc[r] = "failLogging" /\ pc'[r] = "failAnswer"
         \/ pc[r] = "unregister" /\ pc'[r] = "answer"
         \/ pc[r] \in {"closing", "failAnswer"} /\ pc'[r] = "finally"
         \/ pc[r] = "answer" /\ pc'[r] = "done"
         \/ pc[r] = "finally" /\ pc'[r] \in {"done", "died"}
         \/ pc[r] = "received" /\ pc'[r] = "answer"
  PROVE  WireInv(r)'
<1>0. TypeOK /\ WireInv(r)
  BY DEF WInv, IInv
<1>1. HeadInv(r)'
  BY <1>0 DEF WireInv, HeadInv, Before
<1>2. FailInv(r)'
  BY <1>0 DEF WireInv, FailInv, Before
<1>3. BodyInv(r)'
  BY <1>0 DEF WireInv, BodyInv, Before, Exact
<1> QED BY <1>1, <1>2, <1>3 DEF WireInv

(* An inspector entry: a response's is written when the body is read.      *)
LEMMA InspectKeeps ==
  ASSUME WInv, NEW r \in Requests, NEW type, NEW next, Inspect(r, type, next),
         \/ pc[r] = "admitted" /\ next = "calling" /\ type = "request"
         \/ pc[r] = "answered" /\ next = "logging" /\ type = "response"
         \/ pc[r] = "failed" /\ next = "failLogging" /\ type = "error"
         \/ pc[r] = "goneInspect" /\ next = "closing" /\ type = "response"
  PROVE  WireInv(r)'
<1>0. TypeOK /\ WireInv(r) /\ RecordInv(r)
  BY DEF WInv, IInv
<1>1. /\ UNCHANGED <<req, forwarded, records, wire>>
      /\ inspected[r] \in Seq(Entry)
  BY <1>0, InspectIs, Typed
<1>2. CASE Raised(r) /\ UNCHANGED inspected
  BY <1>0, <1>1, <1>2, RaisedKeeps DEF RecordInv, WireInv, FailInv, InsideStream
<1>3. CASE /\ pc'[r] = next /\ local' = local
           /\ inspected'[r] = IF Inspecting
                THEN Append(inspected[r], [type |-> type, kept |-> local[r].kept,
                                           clipped |-> local[r].clipped])
                ELSE inspected[r]
  <2>1. HeadInv(r)'
    BY <1>0, <1>1, <1>3 DEF WireInv, HeadInv, Before
  <2>2. FailInv(r)'
    BY <1>0, <1>1, <1>3 DEF WireInv, FailInv, Before
  <2>3. \A i \in DOMAIN inspected'[r] :
          \/ i \in DOMAIN inspected[r] /\ inspected'[r][i] = inspected[r][i]
          \/ inspected'[r][i] = [type |-> type, kept |-> local[r].kept,
                                 clipped |-> local[r].clipped]
    BY <1>1, <1>3
  <2>4. \A i \in DOMAIN inspected'[r] : inspected'[r][i].type = "response" =>
          /\ inspected'[r][i].clipped = local[r].clipped
          /\ inspected'[r][i].kept = local[r].kept
          /\ next \notin Before \union {"streaming"}
    BY <1>0, <2>3 DEF WireInv, BodyInv, Before, Exact
  <2>5. BodyInv(r)'
    BY <1>0, <1>1, <1>3, <2>4 DEF WireInv, BodyInv, Before, Exact
  <2> QED BY <2>1, <2>2, <2>5 DEF WireInv
<1> QED BY <1>0, <1>2, <1>3, InspectIs

(* The fields that an assignment to one of them leaves alone.              *)
LEMMA BrokenFields ==
  ASSUME NEW l \in Local, NEW k, k = [l EXCEPT !.broken = TRUE]
  PROVE  /\ k.status = l.status /\ k.logged = l.logged
         /\ k.headersSent = l.headersSent /\ k.broken
         /\ k.got = l.got /\ k.kept = l.kept /\ k.clipped = l.clipped
BY DEF Local

LEMMA HangUpFields ==
  ASSUME TypeOK, NEW r \in Requests, HangsUp(r)
  PROVE  /\ wire'[r].heads = wire[r].heads /\ wire'[r].bytes = wire[r].bytes
         /\ wire'[r].whole = wire[r].whole /\ wire'[r].gone
BY HangsUpIs, Typed DEF Wire

LEMMA WholeFields ==
  ASSUME TypeOK, NEW r \in Requests, NEW status \in Statuses,
         Delivers(r, WholeAnswer(r, status)), wire[r].heads = << >>
  PROVE  /\ wire'[r].heads = << status >> /\ wire'[r].bytes = wire[r].bytes
         /\ wire'[r].whole /\ ~wire[r].gone
<1>1. wire[r] \in Wire /\ wire'[r] = WholeAnswer(r, status) /\ ~wire[r].gone
  BY DeliversIs, Typed
<1>2. Append(wire[r].heads, status) = << status >>
  OBVIOUS
<1> QED BY <1>1, <1>2 DEF WholeAnswer, Wire

(* A status taken before anything is logged or sent.                       *)
LEMMA StatusKeeps ==
  ASSUME WInv, NEW r \in Requests, NEW status,
         local' = [local EXCEPT ![r].status = status],
         \/ pc[r] = "received" /\ pc'[r] = "answer"
         \/ pc[r] = "calling" /\ pc'[r] = "answered" /\ ~req[r].stream,
         UNCHANGED <<req, records, inspected, wire>>, forwarded \subseteq forwarded'
  PROVE  WireInv(r)'
<1>0. TypeOK /\ WireInv(r) /\ RecordInv(r)
  BY DEF WInv, IInv
<1>1. local[r] \in Local /\ local'[r] = [local[r] EXCEPT !.status = status]
  BY <1>0 DEF TypeOK
<1>2. /\ local'[r].status = status /\ local'[r].logged = local[r].logged
      /\ local'[r].headersSent = local[r].headersSent
      /\ local'[r].broken = local[r].broken
      /\ local'[r].got = local[r].got /\ local'[r].kept = local[r].kept
      /\ local'[r].clipped = local[r].clipped
  BY <1>1 DEF Local
<1>3. records[r] = << >> /\ wire[r].heads = << >> /\ ~local[r].headersSent
  BY <1>0, Typed DEF RecordInv, WireInv, HeadInv, Before
<1>4. HeadInv(r)'
  BY <1>0, <1>2, <1>3 DEF WireInv, HeadInv, Before
<1>5. FailInv(r)'
  BY <1>0, <1>2, <1>3 DEF WireInv, FailInv, Before
<1>6. BodyInv(r)'
  BY <1>0, <1>2, <1>3 DEF WireInv, BodyInv, Before, Exact
<1> QED BY <1>4, <1>5, <1>6 DEF WireInv

LEMMA DispatchWire ==
  ASSUME WInv, NEW r \in Requests, Dispatch(r) PROVE WireInv(r)'
<1>0. TypeOK /\ WireInv(r) /\ RecordInv(r) /\ (pc[r] = "received" => ~local[r].headersSent)
  BY DEF WInv, IInv, WireInv, HeadInv, Before
<1>1. CASE AnswerLocally(r) \/ RejectLength(r)
  <2>1. /\ pc[r] = "received" /\ pc'[r] = "answer"
        /\ UNCHANGED <<req, records, inspected, wire, forwarded>>
    BY <1>0, <1>1 DEF AnswerLocally, RejectLength, ApiCall, Goto, TypeOK
  <2>2. \E status : local' = [local EXCEPT ![r].status = status]
    BY <1>1 DEF AnswerLocally, RejectLength
  <2> QED BY <2>1, <2>2, StatusKeeps
<1>2. ASSUME NEW status, Record(r, status, "answer"), ApiCall(r)
      PROVE  WireInv(r)'
  <2>1. /\ pc[r] = "received" /\ ~local[r].logged /\ ~local[r].headersSent
        /\ req[r].stream => ~local[r].broken
    BY <1>0, <1>2 DEF ApiCall, RecordInv, WireInv, FailInv
  <2> QED BY <1>2, <2>1, RecordKeeps DEF Before, Stages
<1>3. CASE RejectLarge(r) \/ ListModels(r) \/ Reject(r)
  BY <1>2, <1>3 DEF RejectLarge, ListModels, Reject, Prepares, Prepared
<1>4. CASE AbortRead(r)
  <2>1. /\ Raised(r) /\ pc[r] = "received"
        /\ UNCHANGED <<req, forwarded, records, inspected, wire>>
    BY <1>0, <1>4 DEF AbortRead, ApiCall, Raised, UnwindTo, Goto, TypeOK
  <2> QED BY <2>1, RaisedKeeps DEF InsideStream
<1>5. CASE Admit(r)
  <2>1. pc[r] = "received" /\ pc'[r] = "admitted"
    BY <1>0, <1>5 DEF Admit, Prepares, Prepared, ApiCall, Goto, TypeOK
  <2> QED BY <1>5, <2>1, StageKeeps DEF Admit, Stages
<1>6. CASE InspectRequest(r)
  BY <1>6, InspectKeeps DEF InspectRequest
<1> QED BY <1>1, <1>3, <1>4, <1>5, <1>6 DEF Dispatch

LEMMA FailsWire ==
  ASSUME WInv, NEW r \in Requests, UpstreamFails(r) PROVE WireInv(r)'
<1>0. TypeOK /\ WireInv(r) /\ RecordInv(r)
  BY DEF WInv, IInv
<1>1. /\ pc[r] \in {"calling", "streaming"} /\ pc'[r] = "failed"
      /\ UNCHANGED <<req, records, inspected, wire>>
      /\ forwarded \subseteq forwarded'
  BY <1>0 DEF UpstreamFails, Calls, Goto, TypeOK
<1>2. /\ local'[r].status = local[r].status /\ local'[r].logged = local[r].logged
      /\ local'[r].headersSent = local[r].headersSent /\ local'[r].broken
      /\ local'[r].got = local[r].got /\ local'[r].kept = local[r].kept
      /\ local'[r].clipped = local[r].clipped
  <2>1. local[r] \in Local /\ local'[r] = [local[r] EXCEPT !.broken = TRUE]
    BY <1>0 DEF UpstreamFails, TypeOK
  <2> QED BY <2>1, BrokenFields
<1>3. ~local[r].logged /\ ~wire[r].whole
  BY <1>0, <1>1 DEF RecordInv, WireInv, FailInv, Before
<1>4. HeadInv(r)'
  BY <1>0, <1>1, <1>2, <1>3 DEF WireInv, HeadInv, Before
<1>5. FailInv(r)'
  BY <1>0, <1>1, <1>2, <1>3 DEF WireInv, FailInv, Before
<1>6. BodyInv(r)'
  BY <1>0, <1>1, <1>2 DEF WireInv, BodyInv, Before, Exact
<1> QED BY <1>4, <1>5, <1>6 DEF WireInv

(* The end of a handler, whose answer is the first the client sees.        *)
LEMMA AnswerWire ==
  ASSUME WInv, NEW r \in Requests, Answer(r) PROVE WireInv(r)'
<1>0. /\ TypeOK /\ WireInv(r) /\ RecordInv(r) /\ pc[r] = "answer"
      /\ UNCHANGED <<req, forwarded, records, inspected>>
  BY DEF WInv, IInv, Answer
<1>1. /\ ~local[r].headersSent /\ wire[r].heads = << >>
      /\ req[r].stream => ~local[r].broken
      /\ local[r].got = 0 /\ wire[r].bytes = 0
      /\ local[r].status \in Statuses
  BY <1>0, Typed DEF WireInv, HeadInv, FailInv, BodyInv, Before, Local
<1>2. CASE SocketFails(r)
  <2>1. Raised(r) /\ UNCHANGED wire
    BY <1>0, <1>2, RaiseIs DEF SocketFails
  <2> QED BY <1>0, <2>1, RaisedKeeps DEF InsideStream
<1>3. CASE Goto(r, "done") /\ UNCHANGED local
  <2>0. pc'[r] = "done"
    BY <1>0, <1>3 DEF Goto, TypeOK
  <2>1. \/ /\ wire'[r].heads = << local[r].status >> /\ wire'[r].bytes = wire[r].bytes
        \/ /\ wire'[r].heads = wire[r].heads /\ wire'[r].bytes = wire[r].bytes
           /\ wire'[r].whole = wire[r].whole
    <3>1. CASE Delivers(r, WholeAnswer(r, local[r].status))
      BY <1>0, <1>1, <3>1, WholeFields
    <3>2. CASE HangsUp(r)
      BY <1>0, <3>2, HangUpFields
    <3>3. CASE UNCHANGED wire
      BY <3>3
    <3> QED BY <3>1, <3>2, <3>3 DEF Answer, SocketFails
  <2>2. HeadInv(r)'
    <3>1. /\ Len(wire'[r].heads) <= 1
          /\ wire'[r].heads # << >> => wire'[r].heads[1] = local[r].status
      <4>1. wire'[r].heads = << >> \/ wire'[r].heads = << local[r].status >>
        BY <1>1, <2>1
      <4>2. CASE wire'[r].heads = << >>
        BY <4>2
      <4>3. CASE wire'[r].heads = << local[r].status >>
        BY <4>3
      <4> QED BY <4>1, <4>2, <4>3
    <3> QED BY <1>0, <1>1, <1>3, <2>0, <3>1 DEF WireInv, HeadInv, Before
  <2>3. FailInv(r)'
    BY <1>0, <1>1, <1>3, <2>0, <2>1 DEF WireInv, FailInv, Before
  <2>4. BodyInv(r)'
    BY <1>0, <1>1, <1>3, <2>0, <2>1 DEF WireInv, BodyInv, Before, Exact
  <2> QED BY <2>2, <2>3, <2>4 DEF WireInv
<1> QED BY <1>2, <1>3 DEF Answer

LEMMA BufferedWire ==
  ASSUME WInv, NEW r \in Requests, Buffered(r) PROVE WireInv(r)'
<1>0. TypeOK /\ WireInv(r) /\ RecordInv(r)
  BY DEF WInv, IInv
<1>1. CASE UpstreamAnswers(r)
  <2>1. /\ pc[r] = "calling" /\ pc'[r] = "answered" /\ ~req[r].stream
        /\ UNCHANGED <<req, records, inspected, wire>>
        /\ forwarded \subseteq forwarded'
    BY <1>0, <1>1 DEF UpstreamAnswers, Calls, Goto, TypeOK
  <2>2. \E status : local' = [local EXCEPT ![r].status = status]
    BY <1>1 DEF UpstreamAnswers
  <2> QED BY <2>1, <2>2, StatusKeeps
<1>2. CASE UpstreamFails(r)
  BY <1>2, FailsWire
<1>3. CASE CloseRaises(r)
  <2>1. Raised(r)
    BY <1>0, <1>3, RaiseIs DEF CloseRaises
  <2> QED BY <1>3, <2>1, RaisedKeeps DEF CloseRaises
<1>4. CASE InspectResponse(r) \/ InspectError(r)
  BY <1>4, InspectKeeps DEF InspectResponse, InspectError
<1>5. CASE RecordOutcome(r)
  <2>1. /\ pc[r] = "logging" /\ (req[r].stream => local[r].headersSent)
        /\ req[r].stream => ~local[r].broken
        /\ ~req[r].stream => ~local[r].headersSent /\ ~local[r].logged
    BY <1>0, <1>5
       DEF RecordOutcome, WireInv, HeadInv, FailInv, RecordInv
  <2>2. CASE req[r].stream /\ local[r].logged
    <3>1. pc'[r] = "closing"
      BY <1>0, <1>5, <2>2 DEF RecordOutcome, RecordStream, Goto, TypeOK
    <3> QED BY <1>5, <2>1, <2>2, <3>1, StageKeeps
            DEF RecordOutcome, RecordStream, Stages
  <2>3. CASE req[r].stream /\ ~local[r].logged
    <3>1. Record(r, local[r].status, "closing")
      BY <1>5, <2>3 DEF RecordOutcome, RecordStream
    <3> QED BY <2>1, <2>3, <3>1, RecordKeeps DEF Before, Stages
  <2>4. CASE ~req[r].stream
    <3>1. Record(r, local[r].status, "unregister")
      BY <1>5, <2>4 DEF RecordOutcome
    <3> QED BY <2>1, <2>4, <3>1, RecordKeeps DEF Before, Stages
  <2> QED BY <2>2, <2>3, <2>4
<1>6. CASE RecordFailure(r)
  <2>1. /\ pc[r] = "failLogging"
        /\ ~req[r].stream => ~local[r].headersSent /\ ~local[r].logged
    BY <1>0, <1>6
       DEF RecordFailure, WireInv, HeadInv, FailInv, RecordInv
  <2>2. CASE req[r].stream /\ local[r].logged
    <3>1. pc'[r] = "failAnswer"
      BY <1>0, <1>6, <2>2 DEF RecordFailure, RecordStream, Goto, TypeOK
    <3> QED BY <1>6, <2>1, <2>2, <3>1, StageKeeps
            DEF RecordFailure, RecordStream, Stages
  <2>3. CASE req[r].stream /\ ~local[r].logged
    <3>1. Record(r, 502, "failAnswer")
      BY <1>6, <2>3 DEF RecordFailure, RecordStream
    <3> QED BY <2>1, <2>3, <3>1, RecordKeeps DEF Before, Stages
  <2>4. CASE ~req[r].stream
    <3>1. Record(r, 502, "unregister")
      BY <1>6, <2>4 DEF RecordFailure
    <3> QED BY <2>1, <2>4, <3>1, RecordKeeps DEF Before, Stages
  <2> QED BY <2>2, <2>3, <2>4
<1>7. CASE Unregister(r)
  <2>1. pc[r] = "unregister" /\ pc'[r] = "answer"
    BY <1>0, <1>7 DEF Unregister, Goto, TypeOK
  <2> QED BY <1>7, <2>1, StageKeeps DEF Unregister, Stages
<1>8. CASE Answer(r)
  BY <1>8, AnswerWire
<1> QED BY <1>1, <1>2, <1>3, <1>4, <1>5, <1>6, <1>7, <1>8 DEF Buffered

(* The head of the upstream's answer is the first that is sent.            *)
LEMMA OpensWire ==
  ASSUME WInv, NEW r \in Requests, StreamOpens(r) PROVE WireInv(r)'
<1>0. /\ TypeOK /\ WireInv(r) /\ RecordInv(r)
      /\ pc[r] = "calling" /\ req[r].stream
      /\ UNCHANGED <<req, records, inspected>>
      /\ r \in forwarded' /\ forwarded \subseteq forwarded'
  BY DEF WInv, IInv, StreamOpens, Calls
<1>1. /\ ~local[r].headersSent /\ wire[r].heads = << >> /\ ~local[r].broken
      /\ ~local[r].logged /\ records[r] = << >> /\ ~wire[r].whole
      /\ local[r] \in Local /\ wire[r] \in Wire
      /\ local[r].got = 0 /\ wire[r].bytes = 0
  BY <1>0, Typed DEF WireInv, HeadInv, FailInv, BodyInv, Before, RecordInv
<1>2. PICK status \in UpstreamStatus :
        \/ /\ Delivers(r, [wire[r] EXCEPT !.heads = Append(@, status)])
           /\ local' = [local EXCEPT ![r].status = status,
                                     ![r].headersSent = TRUE]
           /\ Goto(r, "streaming")
        \/ /\ HangsUp(r)
           /\ local' = [local EXCEPT ![r].status = status]
           /\ Goto(r, "gone")
        \/ SocketFails(r)
  BY DEF StreamOpens
<1>3. CASE SocketFails(r)
  <2>1. Raised(r) /\ UNCHANGED wire
    BY <1>0, <1>3, RaiseIs DEF SocketFails
  <2> QED BY <1>0, <1>1, <2>1, RaisedKeeps
<1>4. CASE /\ HangsUp(r)
           /\ local' = [local EXCEPT ![r].status = status]
           /\ Goto(r, "gone")
  <2>1. /\ pc'[r] = "gone" /\ local'[r] = [local[r] EXCEPT !.status = status]
    BY <1>0, <1>4 DEF Goto, TypeOK
  <2>2. /\ local'[r].logged = local[r].logged
        /\ local'[r].headersSent = local[r].headersSent
        /\ local'[r].broken = local[r].broken
        /\ local'[r].got = local[r].got /\ local'[r].kept = local[r].kept
        /\ local'[r].clipped = local[r].clipped
    BY <1>1, <2>1 DEF Local
  <2>3. /\ wire'[r].heads = wire[r].heads /\ wire'[r].bytes = wire[r].bytes
        /\ wire'[r].whole = wire[r].whole /\ wire'[r].gone
    BY <1>0, <1>4, HangUpFields
  <2>4. HeadInv(r)'
    BY <1>0, <1>1, <2>1, <2>2, <2>3 DEF WireInv, HeadInv, Before
  <2>5. FailInv(r)'
    BY <1>0, <1>1, <2>1, <2>2, <2>3 DEF WireInv, FailInv, Before
  <2>6. BodyInv(r)'
    BY <1>0, <1>1, <2>1, <2>2, <2>3 DEF WireInv, BodyInv, Before, Exact
  <2> QED BY <2>4, <2>5, <2>6 DEF WireInv
<1>5. CASE /\ Delivers(r, [wire[r] EXCEPT !.heads = Append(@, status)])
           /\ local' = [local EXCEPT ![r].status = status,
                                     ![r].headersSent = TRUE]
           /\ Goto(r, "streaming")
  <2>1. /\ pc'[r] = "streaming"
        /\ local'[r] = [local[r] EXCEPT !.status = status, !.headersSent = TRUE]
    BY <1>0, <1>5 DEF Goto, TypeOK
  <2>2. /\ local'[r].status = status /\ local'[r].logged = local[r].logged
        /\ local'[r].headersSent
        /\ local'[r].broken = local[r].broken
        /\ local'[r].got = local[r].got /\ local'[r].kept = local[r].kept
        /\ local'[r].clipped = local[r].clipped
    BY <1>1, <2>1 DEF Local
  <2>3. wire'[r] = [wire[r] EXCEPT !.heads = Append(@, status)]
    BY <1>0, <1>5, DeliversIs
  <2>4. Append(wire[r].heads, status) = << status >>
    BY <1>1
  <2>5. /\ wire'[r].heads = << status >> /\ wire'[r].bytes = wire[r].bytes
        /\ wire'[r].whole = wire[r].whole /\ wire'[r].gone = wire[r].gone
    BY <1>1, <2>3, <2>4 DEF Wire
  <2>6. /\ Len(wire'[r].heads) <= 1 /\ wire'[r].heads # << >>
        /\ wire'[r].heads[1] = status
    BY <2>5
  <2>7. HeadInv(r)'
    BY <1>0, <1>1, <2>1, <2>2, <2>6 DEF WireInv, HeadInv, Before
  <2>8. FailInv(r)'
    BY <1>0, <1>1, <2>1, <2>2, <2>5 DEF WireInv, FailInv, Before
  <2>9. BodyInv(r)'
    BY <1>0, <1>1, <2>1, <2>2, <2>5 DEF WireInv, BodyInv, Before, Exact
  <2> QED BY <2>7, <2>8, <2>9 DEF WireInv
<1> QED BY <1>2, <1>3, <1>4, <1>5

(* A chunk: what is captured and what is sent follow what is read.         *)
ReadsOn(k, l, n) == /\ k.status = l.status /\ k.logged = l.logged
                    /\ k.headersSent = l.headersSent /\ k.broken = l.broken
                    /\ k.got = l.got + n /\ Exact(k)

LEMMA CapturedFields ==
  ASSUME NEW l \in Local, NEW n \in ChunkSizes, Exact(l)
  PROVE  /\ ReadsOn(Captured(l, n), l, n)
         /\ ReadsOn([Captured(l, n) EXCEPT !.raised = TRUE], l, n)
<1> DEFINE c == Captured(l, n)
           k == [c EXCEPT !.raised = TRUE]
<1>1. c \in Local
  BY CapturedType
<1>2. /\ c.status = l.status /\ c.logged = l.logged
      /\ c.headersSent = l.headersSent /\ c.broken = l.broken
      /\ c.got = l.got + n
      /\ c.kept = IF Inspecting
                    THEN l.kept + (IF n < CaptureLimit - l.kept
                                     THEN n ELSE CaptureLimit - l.kept)
                    ELSE l.kept
      /\ c.clipped <=> l.clipped \/ (Inspecting /\ n > CaptureLimit - l.kept)
  BY DEF Captured, Local
<1>3. /\ n \in Nat \ {0} /\ l.got \in Nat /\ l.kept \in Nat /\ CaptureLimit \in Nat
  BY EdgeAssumption DEF Local
<1>4. Exact(c)
  BY <1>2, <1>3 DEF Exact
<1> HIDE DEF c
<1>6. ReadsOn(c, l, n)
  BY <1>2, <1>4 DEF ReadsOn
<1>5. /\ k.status = c.status /\ k.logged = c.logged
      /\ k.headersSent = c.headersSent /\ k.broken = c.broken
      /\ k.got = c.got /\ k.kept = c.kept /\ k.clipped = c.clipped
  BY <1>1 DEF Local
<1>7. ReadsOn(k, l, n)
  BY <1>4, <1>5, <1>6 DEF ReadsOn, Exact
<1> QED BY <1>6, <1>7 DEF c

LEMMA ChunkWire ==
  ASSUME WInv, NEW r \in Requests, StreamChunk(r) PROVE WireInv(r)'
<1>0. /\ TypeOK /\ WireInv(r) /\ RecordInv(r)
      /\ pc[r] = "streaming"
      /\ UNCHANGED <<req, records, inspected, forwarded>>
  BY DEF WInv, IInv, StreamChunk
<1>1. /\ req[r].stream /\ local[r].headersSent /\ ~local[r].broken
      /\ ~local[r].logged /\ ~wire[r].whole
      /\ local[r] \in Local /\ wire[r] \in Wire
      /\ wire[r].bytes = local[r].got
  BY <1>0, Typed DEF WireInv, HeadInv, FailInv, BodyInv, Before, RecordInv, StreamStages
<1>2. PICK n \in ChunkSizes :
        LET l == Captured(local[r], n) IN
        \/ /\ Delivers(r, [wire[r] EXCEPT !.bytes = @ + n])
           /\ local' = [local EXCEPT ![r] = l]
           /\ UNCHANGED pc
        \/ /\ HangsUp(r)
           /\ local' = [local EXCEPT ![r] = l]
           /\ Goto(r, "gone")
        \/ /\ local' = [local EXCEPT ![r] = [l EXCEPT !.raised = TRUE]]
           /\ Goto(r, UnwindTo(r))
           /\ UNCHANGED wire
  BY DEF StreamChunk
<1>3. /\ \/ pc'[r] = "streaming" /\ wire'[r] = [wire[r] EXCEPT !.bytes = @ + n]
         \/ pc'[r] = "gone" /\ HangsUp(r)
         \/ pc'[r] = "closing" /\ UNCHANGED wire
      /\ \/ local'[r] = Captured(local[r], n)
         \/ local'[r] = [Captured(local[r], n) EXCEPT !.raised = TRUE]
  <2>1. UnwindTo(r) = "closing"
    BY <1>0, <1>1 DEF UnwindTo, InsideStream
  <2> QED BY <1>0, <1>2, <2>1, DeliversIs DEF Goto, TypeOK
<1>4. /\ wire'[r].heads = wire[r].heads /\ wire'[r].whole = wire[r].whole
      /\ pc'[r] = "gone" => wire'[r].gone
      /\ pc'[r] = "streaming" => wire'[r].bytes = wire[r].bytes + n
      /\ pc'[r] \in {"streaming", "gone", "closing"}
  <2>1. CASE wire'[r] = [wire[r] EXCEPT !.bytes = @ + n] /\ pc'[r] = "streaming"
    BY <1>1, <2>1 DEF Wire
  <2>2. CASE HangsUp(r) /\ pc'[r] = "gone"
    BY <1>0, <2>2, HangUpFields
  <2>3. CASE UNCHANGED wire /\ pc'[r] = "closing"
    BY <2>3
  <2> QED BY <1>3, <2>1, <2>2, <2>3
<1>5. /\ local'[r].status = local[r].status /\ local'[r].logged = local[r].logged
      /\ local'[r].headersSent = local[r].headersSent
      /\ local'[r].broken = local[r].broken
      /\ local'[r].got = local[r].got + n
      /\ Exact(local'[r])
  <2>1. Exact(local[r])
    BY <1>0 DEF WireInv, BodyInv
  <2>2. /\ ReadsOn(Captured(local[r], n), local[r], n)
        /\ ReadsOn([Captured(local[r], n) EXCEPT !.raised = TRUE], local[r], n)
    BY <1>1, <2>1, CapturedFields
  <2>3. ReadsOn(local'[r], local[r], n)
    BY <1>3, <2>2
  <2> QED BY <2>3 DEF ReadsOn
<1>6. HeadInv(r)'
  BY <1>0, <1>1, <1>4, <1>5 DEF WireInv, HeadInv, Before
<1>7. FailInv(r)'
  BY <1>0, <1>1, <1>4, <1>5 DEF WireInv, FailInv, Before
<1>8. BodyInv(r)'
  BY <1>0, <1>1, <1>4, <1>5 DEF WireInv, BodyInv, Before, Exact
<1> QED BY <1>6, <1>7, <1>8 DEF WireInv

(* A 502 is sent only where no head has been.                              *)
LEMMA FailureWire ==
  ASSUME WInv, NEW r \in Requests, AnswerFailure(r) PROVE WireInv(r)'
<1>0. /\ TypeOK /\ WireInv(r) /\ RecordInv(r)
      /\ pc[r] = "failAnswer" /\ local[r].logged /\ req[r].stream
      /\ UNCHANGED <<req, forwarded, records, inspected>>
  BY DEF WInv, IInv, AnswerFailure, RecordInv, StreamStages
<1>1. CASE SocketFails(r)
  <2>1. Raised(r) /\ UNCHANGED wire
    BY <1>0, <1>1, RaiseIs DEF SocketFails
  <2> QED BY <1>0, <2>1, RaisedKeeps DEF InsideStream
<1>2. CASE Goto(r, "finally") /\ UNCHANGED <<local, wire>>
  <2>1. pc'[r] = "finally"
    BY <1>0, <1>2 DEF Goto, TypeOK
  <2> QED BY <1>0, <1>2, <2>1, StageKeeps DEF Stages
<1>3. CASE /\ ~local[r].headersSent /\ UNCHANGED local /\ Goto(r, "finally")
           /\ Delivers(r, WholeAnswer(r, 502)) \/ HangsUp(r)
  <2>1. /\ pc'[r] = "finally" /\ wire[r].heads = << >>
        /\ local[r].got = 0 /\ wire[r].bytes = 0
        /\ wire[r].gone \/ local[r].status = 502
    BY <1>0, <1>3 DEF Goto, TypeOK, WireInv, HeadInv, BodyInv, FailInv
  <2>2. \/ /\ wire'[r].heads = << 502 >> /\ wire'[r].bytes = wire[r].bytes
           /\ local[r].status = 502
        \/ /\ wire'[r].heads = wire[r].heads /\ wire'[r].bytes = wire[r].bytes
           /\ wire'[r].whole = wire[r].whole
    <3>1. CASE HangsUp(r)
      BY <1>0, <3>1, HangUpFields
    <3>2. CASE Delivers(r, WholeAnswer(r, 502))
      <4>1. 502 \in Statuses
        BY DEF Statuses
      <4> QED BY <1>0, <2>1, <3>2, <4>1, WholeFields
    <3> QED BY <1>3, <3>1, <3>2
  <2>3. /\ Len(wire'[r].heads) <= 1
        /\ wire'[r].heads # << >> => wire'[r].heads[1] = local[r].status
    <3>1. CASE wire'[r].heads = << >>
      BY <3>1
    <3>2. CASE wire'[r].heads = << 502 >> /\ local[r].status = 502
      BY <3>2
    <3> QED BY <2>1, <2>2, <3>1, <3>2
  <2>4. HeadInv(r)'
    BY <1>0, <1>3, <2>1, <2>3 DEF WireInv, HeadInv, Before
  <2>5. FailInv(r)'
    BY <1>0, <1>3, <2>1 DEF WireInv, FailInv, Before
  <2>6. BodyInv(r)'
    BY <1>0, <1>3, <2>1, <2>2 DEF WireInv, BodyInv, Before, Exact
  <2> QED BY <2>4, <2>5, <2>6 DEF WireInv
<1> QED BY <1>1, <1>2, <1>3 DEF AnswerFailure

LEMMA StreamedWire ==
  ASSUME WInv, NEW r \in Requests, Streamed(r) PROVE WireInv(r)'
<1>0. TypeOK /\ WireInv(r) /\ RecordInv(r)
  BY DEF WInv, IInv
<1>1. CASE StreamEnds(r)
  <2>1. /\ pc[r] = "streaming" /\ pc'[r] = "answered" /\ UNCHANGED local
        /\ UNCHANGED <<req, forwarded, records, inspected>>
        /\ wire'[r] = [wire[r] EXCEPT !.whole = TRUE]
    BY <1>0, <1>1 DEF StreamEnds, Goto, TypeOK
  <2>2. /\ wire'[r].heads = wire[r].heads /\ wire'[r].bytes = wire[r].bytes
        /\ wire'[r].gone = wire[r].gone
    BY <1>0, <2>1, Typed DEF Wire
  <2>3. HeadInv(r)'
    BY <1>0, <2>1, <2>2 DEF WireInv, HeadInv, Before
  <2>4. FailInv(r)'
    BY <1>0, <2>1, <2>2 DEF WireInv, FailInv, Before
  <2>5. BodyInv(r)'
    BY <1>0, <2>1, <2>2 DEF WireInv, BodyInv, Before, Exact
  <2> QED BY <2>3, <2>4, <2>5 DEF WireInv
<1>2. CASE RecordGone(r)
  <2> DEFINE next == IF local[r].headersSent THEN "goneInspect" ELSE "closing"
  <2>1. /\ pc[r] = "gone" /\ RecordStream(r, local[r].status, next)
        /\ req[r].stream /\ ~local[r].broken /\ wire[r].gone
    BY <1>0, <1>2 DEF RecordGone, RecordInv, StreamStages, WireInv, FailInv
  <2>2. CASE local[r].logged
    <3>1. pc'[r] = next
      BY <1>0, <2>1, <2>2 DEF RecordStream, Goto, TypeOK
    <3> QED BY <2>1, <2>2, <3>1, StageKeeps DEF RecordStream, Stages
  <2>3. CASE ~local[r].logged
    <3>1. Record(r, local[r].status, next)
      BY <2>1, <2>3 DEF RecordStream
    <3> QED BY <2>1, <2>3, <3>1, RecordKeeps DEF Before, Stages
  <2> QED BY <2>2, <2>3
<1>3. CASE InspectGone(r)
  BY <1>3, InspectKeeps DEF InspectGone
<1>4. CASE Close(r)
  <2>0. pc[r] = "closing" /\ UNCHANGED <<req, forwarded, records, inspected, wire>>
    BY <1>4 DEF Close
  <2>1. CASE Goto(r, "finally") /\ UNCHANGED local
    <3>1. pc'[r] = "finally"
      BY <1>0, <2>1 DEF Goto, TypeOK
    <3> QED BY <2>0, <2>1, <3>1, StageKeeps DEF Stages
  <2>2. CASE Goto(r, "failed") /\ local' = [local EXCEPT ![r].raised = FALSE]
    <3>1. /\ pc'[r] = "failed" /\ local[r] \in Local
          /\ local'[r] = [local[r] EXCEPT !.raised = FALSE]
      BY <1>0, <2>2 DEF Goto, TypeOK
    <3>2. /\ local'[r].status = local[r].status
          /\ local'[r].logged = local[r].logged
          /\ local'[r].headersSent = local[r].headersSent
          /\ local'[r].broken = local[r].broken
          /\ local'[r].got = local[r].got /\ local'[r].kept = local[r].kept
          /\ local'[r].clipped = local[r].clipped
      BY <3>1 DEF Local
    <3>3. HeadInv(r)'
      BY <1>0, <2>0, <3>1, <3>2 DEF WireInv, HeadInv, Before
    <3>4. FailInv(r)'
      BY <1>0, <2>0, <3>1, <3>2 DEF WireInv, FailInv, Before
    <3>5. BodyInv(r)'
      BY <1>0, <2>0, <3>1, <3>2 DEF WireInv, BodyInv, Before, Exact
    <3> QED BY <3>3, <3>4, <3>5 DEF WireInv
  <2> QED BY <1>4, <2>1, <2>2 DEF Close
<1>5. CASE Finally(r)
  <2>1. pc[r] = "finally" /\ pc'[r] \in {"done", "died"}
    BY <1>0, <1>5 DEF Finally, Goto, TypeOK
  <2> QED BY <1>5, <2>1, StageKeeps DEF Finally, Stages
<1> QED
  BY <1>1, <1>2, <1>3, <1>4, <1>5, OpensWire, ChunkWire, FailureWire DEF Streamed

LEMMA WInvStep == WInv /\ [Next]_vars => WInv'
<1> SUFFICES ASSUME WInv, [Next]_vars PROVE WInv'
  OBVIOUS
<1>0. TypeOK /\ IInv'
  BY IInvStep DEF WInv, IInv
<1>1. ASSUME NEW s \in Requests, Arrive(s) \/ Handle(s), NEW r \in Requests
      PROVE  WireInv(r)'
  <2>1. CASE r # s
    <3>1. /\ pc'[r] = pc[r] /\ local'[r] = local[r] /\ records'[r] = records[r]
          /\ req' = req /\ (r \in forwarded' <=> r \in forwarded)
          /\ wire'[r] = wire[r] /\ inspected'[r] = inspected[r]
      BY <1>0, <1>1, <2>1, FrameRecord, FrameWire
    <3> QED BY <3>1 DEF WInv, WireInv, HeadInv, FailInv, BodyInv, Exact
  <2>2. CASE r = s /\ Arrive(s)
    <3>1. pc[r] = "idle" /\ pc'[r] = "received"
      BY <1>0, <2>2 DEF Arrive, Goto, TypeOK
    <3> QED BY <2>2, <3>1, StageKeeps DEF Arrive, Stages
  <2>3. CASE r = s /\ Handle(s)
    BY <2>3, DispatchWire, BufferedWire, StreamedWire DEF Handle
  <2> QED BY <1>1, <2>1, <2>2, <2>3
<1>2. CASE UNCHANGED vars
  BY <1>0, <1>2 DEF vars, WInv, WireInv, HeadInv, FailInv, BodyInv, Exact
<1> QED BY <1>0, <1>1, <1>2 DEF Next, WInv

LEMMA WInvHolds == Spec => []WInv
  BY WInvInit, WInvStep, PTL DEF Spec

(* What the client saw is what was logged, or a 502 was, for a stream that *)
(* broke off; nobody ever sees two status lines.                           *)
THEOREM WireIsLogged == Spec => []RecordAgreesWithWire
<1>1. ASSUME WInv, NEW r \in Requests
      PROVE  /\ Len(wire[r].heads) <= 1
             /\ \A i \in DOMAIN records[r], j \in DOMAIN wire[r].heads :
                  \/ records[r][i].status = wire[r].heads[j]
                  \/ /\ records[r][i].status = 502
                     /\ req[r].stream /\ local[r].headersSent
  <2>1. HeadInv(r) /\ wire[r].heads \in Seq(Statuses)
    BY <1>1, Typed DEF WInv, IInv, WireInv, Wire
  <2>2. \A j \in DOMAIN wire[r].heads : j = 1 /\ wire[r].heads # << >>
    BY <2>1 DEF HeadInv
  <2>3. ASSUME NEW i \in DOMAIN records[r], NEW j \in DOMAIN wire[r].heads
        PROVE  \/ records[r][i].status = wire[r].heads[j]
               \/ /\ records[r][i].status = 502
                  /\ req[r].stream /\ local[r].headersSent
    BY <2>1, <2>2, <2>3 DEF HeadInv
  <2> QED BY <2>1, <2>3 DEF HeadInv
<1>2. WInv => RecordAgreesWithWire
  BY <1>1 DEF RecordAgreesWithWire
<1> QED BY <1>2, WInvHolds, PTL

LEMMA OneHead ==
  ASSUME NEW h \in Seq(Statuses), Len(h) <= 1, h # << >> PROVE Len(h) = 1
<1>1. Len(h) = 0 => h = << >>
  OBVIOUS
<1>2. Len(h) \in Nat
  OBVIOUS
<1>3. Len(h) # 0
  BY <1>1
<1> QED BY <1>2, <1>3

(* A stream that breaks after its head is closed incomplete, and logged as *)
(* a 502 unless the inspector or the log raised.                           *)
THEOREM BrokenStreamLogged == Spec => []StreamFailureRecorded
<1>1. ASSUME WInv, NEW r \in Requests, Finished(r), req[r].stream,
             local[r].broken, local[r].headersSent
      PROVE  /\ ~wire[r].whole
             /\ Len(wire[r].heads) = 1
             /\ \A i \in DOMAIN records[r] : records[r][i].status = 502
             /\ pc[r] = "done" => records[r] # << >>
  <2>0. /\ HeadInv(r) /\ FailInv(r) /\ RecordInv(r) /\ AdmitInv(r)
        /\ wire[r].heads \in Seq(Statuses) /\ records[r] \in Seq(Line)
    <3>1. /\ HeadInv(r) /\ FailInv(r) /\ RecordInv(r) /\ AdmitInv(r)
          /\ wire[r] \in Wire /\ records[r] \in Seq(Line)
      BY <1>1, Typed DEF WInv, IInv, WireInv
    <3>2. wire[r].heads \in Seq(Statuses)
      BY <3>1 DEF Wire
    <3> QED BY <3>1, <3>2
  <2>1. ~wire[r].whole /\ Len(wire[r].heads) = 1
    <3>1. ~wire[r].whole
      BY <1>1, <2>0 DEF FailInv
    <3>2. Len(wire[r].heads) <= 1 /\ wire[r].heads # << >>
      BY <1>1, <2>0 DEF HeadInv
    <3>3. \A h \in Seq(Statuses) : Len(h) <= 1 /\ h # << >> => Len(h) = 1
      BY OneHead
    <3>4. Len(wire[r].heads) = 1
      BY <2>0, <3>2, <3>3
    <3> QED BY <3>1, <3>4
  <2>2. \A i \in DOMAIN records[r] : records[r][i].status = 502
    <3>1. CASE local[r].logged
      BY <1>1, <2>0, <3>1 DEF HeadInv, FailInv
    <3>2. CASE ~local[r].logged
      <4>1. records[r] = << >>
        BY <2>0, <3>2 DEF RecordInv
      <4> QED BY <4>1
    <3> QED BY <3>1, <3>2
  <2>3. pc[r] = "done" => records[r] # << >>
    <3>1. Audited(req[r])
      BY <1>1, <2>0 DEF HeadInv, AdmitInv, Audited
    <3> QED BY <2>0, <3>1 DEF RecordInv
  <2> QED BY <2>1, <2>2, <2>3
<1>2. WInv => StreamFailureRecorded
  BY <1>1 DEF StreamFailureRecorded
<1> QED BY <1>2, WInvHolds, PTL

(* The inspector says what it left out, and leaves out only that; the      *)
(* client's body is the upstream's.                                        *)
THEOREM CaptureIsFaithful == Spec => []CaptureFaithful
<1>1. ASSUME WInv, NEW r \in Requests
      PROVE  /\ \A i \in DOMAIN inspected[r] : inspected[r][i].type = "response" =>
                  /\ inspected[r][i].clipped = (local[r].got > CaptureLimit)
                  /\ inspected[r][i].kept = IF local[r].got > CaptureLimit
                                              THEN CaptureLimit ELSE local[r].got
             /\ (wire[r].whole /\ ~local[r].broken) => wire[r].bytes = local[r].got
  <2>0. BodyInv(r) /\ local[r] \in Local /\ inspected[r] \in Seq(Entry)
    BY <1>1, Typed DEF WInv, IInv, WireInv
  <2>1. ASSUME NEW i \in DOMAIN inspected[r], inspected[r][i].type = "response"
        PROVE  /\ inspected[r][i].clipped = (local[r].got > CaptureLimit)
               /\ inspected[r][i].kept = IF local[r].got > CaptureLimit
                                           THEN CaptureLimit ELSE local[r].got
    <3>1. Inspecting
      BY <2>0, <2>1 DEF BodyInv
    <3>2. local[r].clipped \in BOOLEAN
      BY <2>0 DEF Local
    <3>3. local[r].clipped = (local[r].got > CaptureLimit)
      BY <2>0, <3>1, <3>2, EdgeAssumption DEF BodyInv, Exact, Local
    <3> QED BY <2>0, <2>1, <3>1, <3>3 DEF BodyInv, Exact
  <2> QED BY <2>0, <2>1 DEF BodyInv
<1>2. WInv => CaptureFaithful
  BY <1>1 DEF CaptureFaithful
<1> QED BY <1>2, WInvHolds, PTL

(***************************************************************************)
(* The edge server implements the audited gateway, with every fault: each  *)
(* step of a handler is a step of the gateway or a stutter.                *)
(***************************************************************************)

(* An exception is due to a fault, and so to a lossy gateway.              *)
RaisedInv(r) == local[r].raised => Faults # {}

GInv == IInv /\ \A r \in Requests : RaisedInv(r)

(* No handler changes what is asked of it.                                 *)
LEMMA SameRequests ==
  ASSUME NEW r \in Requests, Arrive(r) \/ Handle(r) PROVE req' = req
BY DEF Arrive, Handle, Dispatch, AnswerLocally, RejectLength, RejectLarge,
       AbortRead, ListModels, Reject, Admit, InspectRequest, Record, Inspect,
       Buffered, UpstreamAnswers, UpstreamFails, CloseRaises,
       InspectResponse, InspectError, RecordOutcome, RecordFailure,
       Unregister, Answer, RecordStream, Streamed, StreamOpens, StreamChunk,
       StreamEnds, RecordGone, InspectGone, Close, AnswerFailure, Finally

(* Without faults the helpers do not raise.                                *)
LEMMA CalmHelpers ==
  ASSUME TypeOK, Faults = {}, NEW r \in Requests, NEW x, NEW next,
         Record(r, x, next) \/ RecordStream(r, x, next) \/ Inspect(r, x, next)
  PROVE  local'[r].raised = local[r].raised
<1>0. local[r] \in Local /\ local \in [Requests -> Local]
  BY DEF TypeOK
<1>1. CASE UNCHANGED local
  BY <1>1
<1>2. CASE local' = [local EXCEPT ![r].status = x, ![r].logged = TRUE]
  <2>1. local'[r] = [local[r] EXCEPT !.status = x, !.logged = TRUE]
    BY <1>0, <1>2
  <2> QED BY <1>0, <2>1 DEF Local
<1> QED BY <1>1, <1>2 DEF Record, RecordStream, Inspect

(* A handler that raises is in an instance with faults.                    *)
LEMMA RaisedStep ==
  ASSUME TypeOK, NEW r \in Requests, Arrive(r) \/ Handle(r), RaisedInv(r)
  PROVE  RaisedInv(r)'
<1> USE DEF RaisedInv
<1>0. local[r] \in Local /\ local \in [Requests -> Local]
  BY DEF TypeOK
<1>1. CASE Faults # {}
  BY <1>1
<1> SUFFICES ASSUME Faults = {} PROVE ~local'[r].raised
  BY <1>1
<1>2. ~local[r].raised
  OBVIOUS
<1>3. CASE UNCHANGED local
  BY <1>2, <1>3
<1>4. ASSUME NEW x, NEW next,
             Record(r, x, next) \/ RecordStream(r, x, next) \/ Inspect(r, x, next)
      PROVE  ~local'[r].raised
  BY <1>2, <1>4, CalmHelpers
<1>5. ASSUME NEW x, local' = [local EXCEPT ![r].status = x]
      PROVE  ~local'[r].raised
  <2>1. local'[r] = [local[r] EXCEPT !.status = x]
    BY <1>0, <1>5
  <2> QED BY <1>0, <1>2, <2>1 DEF Local
<1>6. CASE Arrive(r)
  BY <1>3, <1>6 DEF Arrive
<1>7. CASE Dispatch(r)
  BY <1>3, <1>4, <1>5, <1>7
     DEF Dispatch, AnswerLocally, RejectLength, RejectLarge, AbortRead,
         ListModels, Reject, Admit, InspectRequest
<1>8. CASE UpstreamFails(r)
  <2>1. local'[r] = [local[r] EXCEPT !.broken = TRUE]
    BY <1>0, <1>8 DEF UpstreamFails
  <2> QED BY <1>0, <1>2, <2>1 DEF Local
<1>9. CASE Buffered(r) /\ ~UpstreamFails(r)
  <2>1. CASE RecordOutcome(r) \/ RecordFailure(r)
    BY <1>4, <2>1 DEF RecordOutcome, RecordFailure
  <2> QED
    BY <1>3, <1>4, <1>5, <1>9, <2>1
       DEF Buffered, UpstreamAnswers, CloseRaises, InspectResponse,
           InspectError, Unregister, Answer, SocketFails
<1>10. CASE StreamOpens(r)
  <2>1. PICK x : \/ local' = [local EXCEPT ![r].status = x,
                                         ![r].headersSent = TRUE]
                 \/ local' = [local EXCEPT ![r].status = x]
    BY <1>10 DEF StreamOpens, SocketFails
  <2>2. CASE local' = [local EXCEPT ![r].status = x, ![r].headersSent = TRUE]
    <3>1. local'[r] = [local[r] EXCEPT !.status = x, !.headersSent = TRUE]
      BY <1>0, <2>2
    <3> QED BY <1>0, <1>2, <3>1 DEF Local
  <2> QED BY <1>5, <2>1, <2>2
<1>11. CASE StreamChunk(r)
  <2>1. PICK n \in ChunkSizes :
          local' = [local EXCEPT ![r] = Captured(local[r], n)]
    BY <1>11 DEF StreamChunk
  <2>2. Captured(local[r], n).raised = local[r].raised
    BY <1>0 DEF Captured, Local
  <2> QED BY <1>0, <1>2, <2>1, <2>2
<1>12. CASE Close(r)
  <2>1. local' = local \/ local'[r] = [local[r] EXCEPT !.raised = FALSE]
    BY <1>0, <1>12 DEF Close
  <2> QED BY <1>0, <1>2, <2>1 DEF Local
<1>13. CASE RecordGone(r) \/ InspectGone(r)
  BY <1>4, <1>13 DEF RecordGone, InspectGone
<1>14. CASE StreamEnds(r) \/ AnswerFailure(r) \/ Finally(r)
  BY <1>3, <1>14 DEF StreamEnds, AnswerFailure, Finally, SocketFails
<1>15. CASE Streamed(r)
  BY <1>10, <1>11, <1>12, <1>13, <1>14, <1>15 DEF Streamed
<1>16. CASE Buffered(r)
  BY <1>8, <1>9, <1>16
<1> QED
  BY <1>6, <1>7, <1>15, <1>16 DEF Handle

LEMMA GInvInit == Init => GInv
<1>1. Init => \A r \in Requests : RaisedInv(r)
  BY DEF Init, RaisedInv
<1> QED BY <1>1, IInvInit DEF GInv

LEMMA GInvStep == GInv /\ [Next]_vars => GInv'
<1> SUFFICES ASSUME GInv, [Next]_vars PROVE GInv'
  OBVIOUS
<1>1. IInv'
  BY IInvStep DEF GInv
<1>2. ASSUME NEW s \in Requests, Arrive(s) \/ Handle(s), NEW r \in Requests
      PROVE  RaisedInv(r)'
  <2>1. CASE r = s
    BY <1>2, <2>1, RaisedStep DEF GInv, IInv
  <2>2. CASE r # s
    BY <1>2, <2>2, FrameRecord DEF GInv, IInv, RaisedInv
  <2> QED BY <2>1, <2>2
<1>3. CASE UNCHANGED vars
  BY <1>1, <1>3 DEF GInv, vars, RaisedInv
<1> QED BY <1>1, <1>2, <1>3 DEF GInv, Next

LEMMA GInvHolds == Spec => []GInv
  BY GInvInit, GInvStep, PTL DEF Spec
-----------------------------------------------------------------------------
(* The refinement mapping.  What a step of r does to the gateway's state   *)
(* follows from r's stage, log lines and membership in forwarded.          *)

Stage == [r \in Requests |-> StageOf(r)]
Lines == [r \in Requests |-> Len(records[r])]
AuditedOnes == {r \in Requests : Audited(req[r])}

(* A stage that moves only at r is the stage with the place of r updated.  *)
LEMMA MapsAt ==
  ASSUME TypeOK, NEW r \in Requests, Arrive(r) \/ Handle(r)
  PROVE  /\ Stage' = [Stage EXCEPT ![r] = StageOf(r)']
         /\ Lines' = [Lines EXCEPT ![r] = Len(records[r])']
         /\ AuditedOnes' = AuditedOnes
<1>1. \A s \in Requests \ {r} : /\ pc'[s] = pc[s]
                                /\ records'[s] = records[s]
  BY FrameRecord
<1>2. req' = req
  BY SameRequests
<1>3. \A s \in Requests \ {r} : StageOf(s)' = StageOf(s)
  BY <1>1 DEF StageOf
<1>4. Stage' = [Stage EXCEPT ![r] = StageOf(r)']
  BY <1>3 DEF Stage
<1>5. Lines' = [Lines EXCEPT ![r] = Len(records[r])']
  BY <1>1 DEF Lines
<1> QED BY <1>2, <1>4, <1>5 DEF AuditedOnes

(* Steps that leave the gateway's stage of r, or move it to "closed" in an *)
(* instance with faults.                                                   *)
Stays(r) == StageOf(r)' = StageOf(r)
Breaks(r) == /\ Faults # {}
             /\ StageOf(r) \in {"open", "listed", "settled"}
             /\ StageOf(r)' = "closed"

Silent(r) == records'[r] = records[r] /\ forwarded' = forwarded

Settles(r) == /\ StageOf(r) = "open" /\ StageOf(r)' = "settled"
              /\ forwarded' = forwarded
              /\ IF Audited(req[r])
                   THEN Len(records[r]) = 0 /\ Len(records'[r]) = 1
                   ELSE records'[r] = records[r]

Contacts(r) == /\ StageOf(r) = "listed" /\ Stays(r)
               /\ records'[r] = records[r]
               /\ forwarded' = forwarded \union {r}

Logs(r) == /\ StageOf(r) = "listed" /\ Stays(r)
           /\ Len(records[r]) = 0 /\ Len(records'[r]) = 1
           /\ forwarded' = forwarded

Leaves(r) == /\ StageOf(r) = "listed" /\ StageOf(r)' \in {"settled", "closed"}
             /\ Len(records[r]) = 1 \/ Faults # {}
             /\ Silent(r)

(* The moves of the gateway, as what happens to one request.               *)
Moves(r) ==
  \/ Stays(r) /\ Silent(r)
  \/ Breaks(r) /\ Silent(r)
  \/ /\ StageOf(r) = "new" /\ StageOf(r)' = "open" /\ Silent(r)
  \/ Settles(r)
  \/ /\ Audited(req[r])
     /\ StageOf(r) = "open" /\ StageOf(r)' = "listed" /\ Silent(r)
  \/ Contacts(r)
  \/ Logs(r)
  \/ Leaves(r)
  \/ /\ StageOf(r) = "settled" /\ StageOf(r)' = "closed" /\ Silent(r)

(* A handler's move is one of the gateway's.                               *)
LEMMA MovesImplement ==
  ASSUME TypeOK, NEW r \in Requests, Arrive(r) \/ Handle(r), Moves(r)
  PROVE  [Gateway!Next]_(Gateway!vars)
<1>1. /\ Stage' = [Stage EXCEPT ![r] = StageOf(r)']
      /\ Lines' = [Lines EXCEPT ![r] = Len(records[r])']
      /\ AuditedOnes' = AuditedOnes
  BY MapsAt
<1>2. /\ Stage[r] = StageOf(r) /\ Lines[r] = Len(records[r])
      /\ r \in AuditedOnes <=> Audited(req[r])
      /\ StageOf(r)' = StageOf(r) => Stage' = Stage
      /\ Len(records[r])' = Len(records[r]) => Lines' = Lines
  BY <1>1 DEF Stage, Lines, AuditedOnes
<1>3. SUFFICES \/ UNCHANGED <<Stage, AuditedOnes, Lines, forwarded>>
               \/ Gateway!Open(r) /\ UNCHANGED AuditedOnes
               \/ Gateway!Step(r) /\ UNCHANGED AuditedOnes
  BY DEF Stage, Lines, AuditedOnes, Gateway!Next, Gateway!vars
<1> DEFINE Moved(from, to) == /\ Stage[r] = from
                              /\ Stage' = [Stage EXCEPT ![r] = to]
<1>4. /\ \A from, to : Moved(from, to) <=> Gateway!Move(r, from, to)
      /\ Gateway!WriteLine(r) <=> Lines[r] = 0 /\ Lines' = [Lines EXCEPT ![r] = 1]
      /\ UNCHANGED Lines <=> UNCHANGED [q \in Requests |-> Len(records[q])]
      /\ UNCHANGED Stage <=> UNCHANGED [q \in Requests |-> StageOf(q)]
      /\ r \in AuditedOnes <=> r \in {q \in Requests : Audited(req[q])}
  BY DEF Stage, Lines, AuditedOnes, Gateway!Move, Gateway!WriteLine
<1>5. \A from, to : (StageOf(r) = from /\ StageOf(r)' = to) => Moved(from, to)
  BY <1>1, <1>2
<1> HIDE DEF Moved
<1>6. CASE Stays(r) /\ Silent(r)
  BY <1>1, <1>2, <1>6 DEF Stays, Silent
<1>7. CASE Breaks(r) /\ Silent(r)
  <2>1. Gateway!Break(r)
    BY <1>2, <1>4, <1>5, <1>7 DEF Breaks, Silent, Gateway!Break
  <2> QED BY <1>1, <2>1 DEF Gateway!Step
<1>8. CASE StageOf(r) = "new" /\ StageOf(r)' = "open" /\ Silent(r)
  <2>1. Gateway!Open(r)
    BY <1>2, <1>4, <1>5, <1>8 DEF Silent, Gateway!Open
  <2> QED BY <1>1, <2>1
<1>9. CASE Settles(r)
  <2>1. Gateway!Settle(r)
    BY <1>1, <1>2, <1>4, <1>5, <1>9 DEF Settles, Gateway!Settle
  <2> QED BY <1>1, <2>1 DEF Gateway!Step
<1>10. CASE /\ Audited(req[r])
            /\ StageOf(r) = "open" /\ StageOf(r)' = "listed" /\ Silent(r)
  <2>1. Gateway!List(r)
    BY <1>2, <1>4, <1>5, <1>10 DEF Silent, Gateway!List
  <2> QED BY <1>1, <2>1 DEF Gateway!Step
<1>11. CASE Contacts(r)
  <2>1. Gateway!Contact(r)
    BY <1>2, <1>4, <1>11 DEF Contacts, Stays, Stage, Gateway!Contact
  <2> QED BY <1>1, <2>1 DEF Gateway!Step
<1>12. CASE Logs(r)
  <2>1. Gateway!Log(r)
    BY <1>1, <1>2, <1>4, <1>12 DEF Logs, Stays, Stage, Gateway!Log
  <2> QED BY <1>1, <2>1 DEF Gateway!Step
<1>13. CASE Leaves(r)
  <2>1. Gateway!Unlist(r)
    BY <1>2, <1>4, <1>5, <1>13 DEF Leaves, Silent, Lines, Gateway!Unlist
  <2> QED BY <1>1, <2>1 DEF Gateway!Step
<1>14. CASE StageOf(r) = "settled" /\ StageOf(r)' = "closed" /\ Silent(r)
  <2>1. Gateway!Close(r)
    BY <1>2, <1>4, <1>5, <1>14 DEF Silent, Gateway!Close
  <2> QED BY <1>1, <2>1 DEF Gateway!Step
<1> QED BY <1>6, <1>7, <1>8, <1>9, <1>10, <1>11, <1>12, <1>13, <1>14 DEF Moves
-----------------------------------------------------------------------------
(* Each step of a handler is such a move.                                  *)

LEMMA StageIs ==
  ASSUME TypeOK, TypeOK', NEW r \in Requests
  PROVE  /\ StageOf(r) = CASE pc[r] = "idle" -> "new"
                           [] pc[r] = "received" -> "open"
                           [] pc[r] = "answer" -> "settled"
                           [] pc[r] \in {"done", "died"} -> "closed"
                           [] OTHER -> "listed"
         /\ pc'[r] = "received" => StageOf(r)' = "open"
         /\ pc'[r] = "answer" => StageOf(r)' = "settled"
         /\ pc'[r] \in {"done", "died"} => StageOf(r)' = "closed"
         /\ pc'[r] \notin {"idle", "received", "answer", "done", "died"}
              => StageOf(r)' = "listed"
BY DEF StageOf

(* A log line, written or failing, in a stage where it is due.             *)
LEMMA RecordMoves ==
  ASSUME GInv, GInv', NEW r \in Requests, NEW status, NEW next,
         Record(r, status, next), ~local[r].logged,
         \/ StageOf(r) = "open" /\ next = "answer" /\ Audited(req[r])
         \/ /\ StageOf(r) = "listed" /\ next \in Stages
            /\ next \notin {"idle", "received", "answer", "done", "died"}
  PROVE  Moves(r)
<1>0. TypeOK /\ TypeOK' /\ RecordInv(r) /\ RaisedInv(r)'
  BY DEF GInv, IInv
<1>1. Len(records[r]) = 0 /\ forwarded' = forwarded
  BY <1>0 DEF RecordInv, Record
<1>2. CASE /\ pc'[r] = next
           /\ Len(records'[r]) = Len(records[r]) + 1
  <2>1. Len(records'[r]) = 1
    BY <1>1, <1>2
  <2>2. CASE StageOf(r) = "open" /\ next = "answer" /\ Audited(req[r])
    BY <1>0, <1>1, <1>2, <2>1, <2>2, StageIs DEF Moves, Settles
  <2>3. CASE /\ StageOf(r) = "listed"
             /\ next \notin {"idle", "received", "answer", "done", "died"}
    BY <1>0, <1>1, <1>2, <2>1, <2>3, StageIs DEF Moves, Logs, Stays
  <2> QED BY <2>2, <2>3
<1>3. CASE /\ pc'[r] = UnwindTo(r) /\ local'[r].raised
           /\ records'[r] = records[r]
  <2>1. Faults # {}
    BY <1>0, <1>3 DEF RaisedInv
  <2>2. StageOf(r)' = "closed" \/ (StageOf(r)' = "listed" /\ StageOf(r) = "listed")
    BY <1>0, <1>3, UnwindType, StageIs DEF UnwindTo
  <2> QED BY <1>1, <1>3, <2>1, <2>2 DEF Moves, Breaks, Stays, Silent
<1> QED BY <1>0, <1>2, <1>3, RecordEffect

LEMMA RecordStreamMoves ==
  ASSUME GInv, GInv', NEW r \in Requests, NEW status, NEW next,
         RecordStream(r, status, next), StageOf(r) = "listed",
         next \in Stages \ {"idle", "received", "answer", "done", "died"}
  PROVE  Moves(r)
<1>0. TypeOK /\ TypeOK'
  BY DEF GInv, IInv
<1>1. CASE local[r].logged
  <2>1. Silent(r) /\ pc'[r] = next
    BY <1>0, <1>1 DEF RecordStream, Silent, Goto, TypeOK
  <2> QED BY <1>0, <2>1, StageIs DEF Moves, Stays
<1>2. CASE ~local[r].logged
  BY <1>2, RecordMoves DEF RecordStream
<1> QED BY <1>1, <1>2

LEMMA InspectMoves ==
  ASSUME GInv, GInv', NEW r \in Requests, NEW type, NEW next,
         Inspect(r, type, next), StageOf(r) = "listed",
         next \in Stages \ {"idle", "received", "answer", "done", "died"}
  PROVE  Moves(r)
<1>0. TypeOK /\ TypeOK' /\ RaisedInv(r)'
  BY DEF GInv, IInv
<1>1. Silent(r)
  BY DEF Inspect, Silent
<1>2. CASE pc'[r] = next
  BY <1>0, <1>1, <1>2, StageIs DEF Moves, Stays
<1>3. CASE pc'[r] = UnwindTo(r) /\ local'[r].raised
  BY <1>0, <1>1, <1>3, UnwindType, StageIs DEF Moves, Stays, Breaks, RaisedInv
<1> QED BY <1>0, <1>2, <1>3, InspectEffect

(* An exception that is raised anywhere, with nothing else happening.      *)
LEMMA RaiseMoves ==
  ASSUME GInv, GInv', NEW r \in Requests, Raise(r),
         StageOf(r) \in {"open", "listed", "settled"},
         StageOf(r) # "listed" => UnwindTo(r) = "died",
         records' = records, forwarded' = forwarded
  PROVE  Moves(r)
<1>0. TypeOK /\ TypeOK' /\ RaisedInv(r)'
  BY DEF GInv, IInv
<1>1. pc'[r] = UnwindTo(r) /\ local'[r].raised
  BY <1>0, RaiseEffect
<1> QED
  BY <1>0, <1>1, UnwindType, StageIs
     DEF Moves, Stays, Breaks, RaisedInv, Silent

LEMMA DispatchMoves ==
  ASSUME GInv, GInv', NEW r \in Requests, Dispatch(r) PROVE Moves(r)
<1>0. TypeOK /\ TypeOK' /\ RecordInv(r) /\ RaisedInv(r)'
  BY DEF GInv, IInv
<1>1. CASE AnswerLocally(r) \/ RejectLength(r)
  <2>1. /\ pc[r] = "received" /\ pc'[r] = "answer"
        /\ ~Audited(req[r]) /\ Silent(r)
    BY <1>0, <1>1 DEF AnswerLocally, RejectLength, ApiCall, Audited, Goto,
         Silent, TypeOK
  <2> QED BY <1>0, <2>1, StageIs DEF Moves, Settles, Silent
<1>2. ASSUME NEW status, Record(r, status, "answer"), ApiCall(r),
             req[r].length # "bad"
      PROVE  Moves(r)
  <2>1. StageOf(r) = "open" /\ Audited(req[r]) /\ ~local[r].logged
    BY <1>0, <1>2, StageIs DEF ApiCall, Audited, RecordInv
  <2> QED BY <1>2, <2>1, RecordMoves
<1>3. CASE RejectLarge(r) \/ ListModels(r) \/ Reject(r)
  BY <1>2, <1>3 DEF RejectLarge, ListModels, Reject, Prepares, Prepared
<1>4. CASE AbortRead(r)
  <2>1. /\ pc[r] = "received" /\ pc'[r] = "died" /\ Silent(r)
        /\ Faults # {}
    BY <1>0, <1>4 DEF AbortRead, ApiCall, Goto, Silent, TypeOK
  <2> QED BY <1>0, <2>1, StageIs DEF Moves, Breaks
<1>5. CASE Admit(r)
  <2>1. /\ pc[r] = "received" /\ pc'[r] = "admitted" /\ Silent(r)
        /\ Audited(req[r])
    BY <1>0, <1>5 DEF Admit, Prepares, Prepared, ApiCall, Audited, Goto, Silent, TypeOK
  <2> QED BY <1>0, <2>1, StageIs DEF Moves
<1>6. CASE InspectRequest(r)
  <2>1. pc[r] = "admitted"
    BY <1>6 DEF InspectRequest
  <2> QED BY <1>0, <1>6, <2>1, StageIs, InspectMoves DEF InspectRequest, Stages
<1> QED BY <1>1, <1>3, <1>4, <1>5, <1>6 DEF Dispatch

(* A step between two stages in which the request is listed.               *)
LEMMA ListedMoves ==
  ASSUME GInv, GInv', NEW r \in Requests, records' = records,
         InFlight(r), InFlight(r)',
         forwarded' = forwarded \/ forwarded' = forwarded \union {r}
  PROVE  Moves(r)
<1>1. StageOf(r) = "listed" /\ Stays(r)
  BY StageIs DEF GInv, IInv, InFlight, Stays
<1> QED BY <1>1 DEF Moves, Silent, Contacts

LEMMA BufferedMoves ==
  ASSUME GInv, GInv', NEW r \in Requests, Buffered(r) PROVE Moves(r)
<1>0. TypeOK /\ TypeOK' /\ RecordInv(r) /\ RaisedInv(r)'
  BY DEF GInv, IInv
<1>s. /\ pc[r] = "answer" => StageOf(r) = "settled"
      /\ InFlight(r) => StageOf(r) = "listed"
  BY <1>0, StageIs DEF InFlight
<1>1. CASE UpstreamAnswers(r) \/ UpstreamFails(r)
  BY <1>0, <1>1, ListedMoves
     DEF UpstreamAnswers, UpstreamFails, Calls, Goto, TypeOK, InFlight, Stages
<1>2. CASE CloseRaises(r)
  <2>1. StageOf(r) \in {"listed", "settled"} /\ UnwindTo(r) = "died"
    BY <1>s, <1>2 DEF CloseRaises, UnwindTo, InFlight, Stages
  <2> QED BY <1>2, <2>1, RaiseMoves DEF CloseRaises
<1>3. CASE InspectResponse(r) \/ InspectError(r)
  <2>1. StageOf(r) = "listed"
    BY <1>s, <1>3 DEF InspectResponse, InspectError, InFlight, Stages
  <2> QED BY <1>3, <2>1, InspectMoves DEF InspectResponse, InspectError, Stages
<1>4. CASE RecordOutcome(r) \/ RecordFailure(r)
  <2>1. /\ StageOf(r) = "listed"
        /\ ~req[r].stream => ~local[r].logged
    BY <1>0, <1>s, <1>4
       DEF RecordOutcome, RecordFailure, InFlight, Stages, RecordInv
  <2>2. \E next \in {"closing", "failAnswer", "unregister"} : \E status :
          IF req[r].stream THEN RecordStream(r, status, next)
                           ELSE Record(r, status, next)
    BY <1>4 DEF RecordOutcome, RecordFailure
  <2>3. {"closing", "failAnswer", "unregister"}
          \subseteq Stages \ {"idle", "received", "answer", "done", "died"}
    BY DEF Stages
  <2> QED BY <2>1, <2>2, <2>3, RecordMoves, RecordStreamMoves
<1>5. CASE Unregister(r)
  <2>1. /\ pc'[r] = "answer" /\ Silent(r) /\ StageOf(r) = "listed"
        /\ Len(records[r]) = 1
    BY <1>0, <1>s, <1>5
       DEF Unregister, Goto, TypeOK, Silent, RecordInv, InFlight, Stages
  <2> QED BY <1>0, <2>1, StageIs DEF Moves, Leaves
<1>6. CASE Answer(r)
  <2>1. StageOf(r) = "settled" /\ Silent(r) /\ pc'[r] \in {"done", "died"}
    BY <1>0, <1>s, <1>6
       DEF Answer, Goto, TypeOK, Silent, SocketFails, Raise, UnwindTo
  <2> QED BY <1>0, <2>1, StageIs DEF Moves
<1> QED BY <1>1, <1>2, <1>3, <1>4, <1>5, <1>6 DEF Buffered

LEMMA StreamedMoves ==
  ASSUME GInv, GInv', NEW r \in Requests, Streamed(r) PROVE Moves(r)
<1>0. TypeOK /\ TypeOK' /\ RecordInv(r) /\ RaisedInv(r)' /\ RaisedInv(r)
  BY DEF GInv, IInv
<1>s. InFlight(r) => StageOf(r) = "listed"
  BY <1>0, StageIs DEF InFlight
<1>1. CASE StreamOpens(r)
  <2>1. /\ pc[r] = "calling" /\ records' = records
        /\ forwarded' = forwarded \union {r}
        /\ pc'[r] \in {"streaming", "gone", "closing"}
    BY <1>0, <1>1 DEF StreamOpens, Calls, Goto, TypeOK, SocketFails, Raise,
         UnwindTo, InsideStream
  <2> QED BY <2>1, ListedMoves DEF InFlight, Stages
<1>2. CASE StreamChunk(r)
  <2>1. /\ pc[r] = "streaming" /\ records' = records
        /\ forwarded' = forwarded
    BY <1>2 DEF StreamChunk
  <2>2. CASE req[r].stream
    <3>1. pc'[r] \in {"streaming", "gone", "closing"}
      BY <1>0, <1>2, <2>2 DEF StreamChunk, Goto, TypeOK, UnwindTo, InsideStream
    <3> QED BY <2>1, <3>1, ListedMoves DEF InFlight, Stages
  <2>3. CASE ~req[r].stream
    BY <1>0, <2>1, <2>3 DEF RecordInv, StreamStages
  <2> QED BY <2>2, <2>3
<1>3. CASE StreamEnds(r) \/ Close(r)
  BY <1>0, <1>3, ListedMoves
     DEF StreamEnds, Close, Goto, TypeOK, InFlight, Stages
<1>4. CASE RecordGone(r)
  <2>1. PICK next \in {"goneInspect", "closing"} :
          RecordStream(r, local[r].status, next)
    BY <1>4 DEF RecordGone
  <2>2. next \in Stages \ {"idle", "received", "answer", "done", "died"}
    BY DEF Stages
  <2> QED BY <1>s, <1>4, <2>1, <2>2, RecordStreamMoves
          DEF RecordGone, InFlight, Stages
<1>5. CASE InspectGone(r)
  BY <1>s, <1>5, InspectMoves DEF InspectGone, InFlight, Stages
<1>6. CASE AnswerFailure(r)
  <2>1. /\ pc[r] = "failAnswer" /\ records' = records
        /\ forwarded' = forwarded
    BY <1>6 DEF AnswerFailure
  <2>2. CASE req[r].stream
    <3>1. pc'[r] = "finally"
      BY <1>0, <1>6, <2>2 DEF AnswerFailure, Goto, TypeOK, SocketFails, Raise,
           UnwindTo, InsideStream
    <3> QED BY <2>1, <3>1, ListedMoves DEF InFlight, Stages
  <2>3. CASE ~req[r].stream
    BY <1>0, <2>1, <2>3 DEF RecordInv, StreamStages
  <2> QED BY <2>2, <2>3
<1>7. CASE Finally(r)
  <2>1. /\ pc'[r] \in {"done", "died"} /\ Silent(r) /\ StageOf(r) = "listed"
        /\ Len(records[r]) = 1 \/ Faults # {}
    BY <1>0, <1>s, <1>7 DEF Finally, Goto, TypeOK, Silent, RecordInv,
         RaisedInv, InFlight, Stages
  <2> QED BY <1>0, <2>1, StageIs DEF Moves, Leaves
<1> QED BY <1>1, <1>2, <1>3, <1>4, <1>5, <1>6, <1>7 DEF Streamed

LEMMA StepMaps ==
  GInv /\ GInv' /\ [Next]_vars => [Gateway!Next]_(Gateway!vars)
<1> SUFFICES ASSUME GInv, GInv', [Next]_vars
             PROVE  [Gateway!Next]_(Gateway!vars)
  OBVIOUS
<1>0. TypeOK /\ TypeOK'
  BY DEF GInv, IInv
<1>1. ASSUME NEW r \in Requests, Arrive(r)
      PROVE  [Gateway!Next]_(Gateway!vars)
  <2>1. pc[r] = "idle" /\ pc'[r] = "received" /\ Silent(r)
    BY <1>0, <1>1 DEF Arrive, Goto, TypeOK, Silent
  <2>2. Moves(r)
    BY <1>0, <2>1, StageIs DEF Moves
  <2> QED BY <1>0, <1>1, <2>2, MovesImplement
<1>2. ASSUME NEW r \in Requests, Handle(r)
      PROVE  [Gateway!Next]_(Gateway!vars)
  <2>1. Moves(r)
    BY <1>2, DispatchMoves, BufferedMoves, StreamedMoves DEF Handle
  <2> QED BY <1>0, <1>2, <2>1, MovesImplement
<1>3. CASE UNCHANGED vars
  BY <1>3 DEF vars, Gateway!vars, StageOf
<1> QED BY <1>1, <1>2, <1>3 DEF Next

LEMMA InitMaps == Init => Gateway!Init
<1> SUFFICES ASSUME Init PROVE Gateway!Init
  OBVIOUS
<1>1. \A r \in Requests : StageOf(r) = "new" /\ Len(records[r]) = 0
  BY DEF Init, StageOf
<1> QED BY <1>1 DEF Init, Gateway!Init

(* Every handler, with every fault it meets, is a behaviour of the audited *)
(* gateway: one log line per request, written while the request is listed  *)
(* or as it is refused, and no upstream call for one that is not listed.   *)
THEOREM GatewayImplemented == Spec => ImplementsGateway
<1> QED
  BY GInvHolds, InitMaps, StepMaps, PTL DEF Spec, ImplementsGateway, Gateway!Spec
-----------------------------------------------------------------------------
(* The registry of active requests.  An id that nobody else uses holds its *)
(* request from admission to the end of the handler; a streamed request    *)
(* that has been forwarded does not leave it there.                        *)

ListedInv(r) ==
  /\ (InFlight(r) /\ OwnsId(r)) => active[IdOf(r)] = Listing(r)
  /\ r \in forwarded => pc[r] \notin {"idle", "received", "admitted"}
  /\ (req[r].stream /\ r \in forwarded /\ ~InFlight(r) /\ OwnsId(r))
       => active[IdOf(r)] = Unlisted

RInv == GInv /\ \A r \in Requests : ListedInv(r)

(* What a step does to the registry, and whether its request is in flight. *)
Registers(r) == /\ active' = [active EXCEPT ![IdOf(r)] = Listing(r)]
                /\ pc[r] = "received" /\ pc'[r] = "admitted"
                /\ forwarded' = forwarded

Unlists(r) == /\ active' = [active EXCEPT ![IdOf(r)] = Unlisted]
              /\ InFlight(r) /\ pc[r] # "admitted" /\ pc'[r] \in Stages
              /\ ~InFlight(r)' /\ pc'[r] \notin {"idle", "received"}
              /\ forwarded' = forwarded

Passes(r) == /\ active' = active
             /\ pc'[r] \in Stages
             /\ \/ /\ ~InFlight(r) /\ ~InFlight(r)' /\ forwarded' = forwarded
                   /\ pc'[r] \in {"idle", "received"} => pc[r] = "idle"
                \/ InFlight(r) /\ InFlight(r)' /\ pc'[r] # "admitted"
                   /\ forwarded \subseteq forwarded'
                \/ /\ InFlight(r) /\ pc'[r] = "died" /\ local'[r].raised
                   /\ ~req[r].stream \/ pc[r] = "admitted"
                   /\ forwarded' = forwarded

LEMMA UnwindPasses ==
  ASSUME TypeOK, NEW r \in Requests, pc'[r] = UnwindTo(r), local'[r].raised,
         pc[r] \notin {"idle", "done", "died"},
         active' = active, forwarded' = forwarded
  PROVE  Passes(r)
<1>1. pc'[r] \in {"died", "closing", "finally"}
  BY UnwindType
<1>2. pc'[r] = "died" => ~req[r].stream \/ pc[r] \in {"received", "admitted", "answer"}
  BY DEF UnwindTo
<1>3. pc[r] \in {"received", "admitted", "answer"} => pc'[r] = "died"
  BY DEF UnwindTo
<1>4. pc[r] \in Stages
  BY DEF TypeOK
<1> QED BY <1>1, <1>2, <1>3, <1>4 DEF Passes, InFlight, Stages

LEMMA MovePasses ==
  ASSUME TypeOK, NEW r \in Requests, active' = active, forwarded' = forwarded,
         pc'[r] \in Stages,
         \/ pc[r] = "idle" /\ pc'[r] = "received"
         \/ pc[r] \in {"received", "answer"} /\ pc'[r] \in {"answer", "done", "died"}
         \/ InFlight(r) /\ InFlight(r)' /\ pc'[r] # "admitted"
  PROVE  Passes(r)
BY DEF Passes, InFlight, Stages, TypeOK

LEMMA RegistrySteps ==
  ASSUME TypeOK, NEW r \in Requests, Arrive(r) \/ Handle(r), RecordInv(r)
  PROVE  Registers(r) \/ Unlists(r) \/ Passes(r)
<1>0. pc[r] \in Stages /\ TypeOK'
  BY TypeStep DEF TypeOK, Next
<1>p. pc'[r] \in Stages
  BY <1>0 DEF TypeOK
<1>1. ASSUME NEW status, NEW next \in Stages, Record(r, status, next),
             pc[r] \notin {"idle", "done", "died"},
             \/ pc[r] = "received" /\ next = "answer"
             \/ InFlight(r) /\ next \in {"unregister", "closing", "failAnswer", "goneInspect"}
      PROVE  Passes(r)
  <2>1. active' = active /\ forwarded' = forwarded
    BY <1>1 DEF Record
  <2>2. CASE pc'[r] = UnwindTo(r) /\ local'[r].raised
    BY <1>1, <2>1, <2>2, UnwindPasses
  <2>3. CASE pc'[r] = next
    BY <1>1, <1>p, <2>1, <2>3, MovePasses DEF InFlight, Stages
  <2> QED BY <1>1, <2>2, <2>3, RecordEffect
<1>2. ASSUME NEW status, NEW next \in Stages, RecordStream(r, status, next),
             InFlight(r),
             next \in {"closing", "failAnswer", "goneInspect"}
      PROVE  Passes(r)
  <2>1. CASE local[r].logged
    <3>1. pc'[r] = next /\ active' = active /\ forwarded' = forwarded
      BY <1>2, <2>1 DEF RecordStream, Goto, TypeOK
    <3> QED BY <1>2, <1>p, <3>1, MovePasses DEF InFlight, Stages
  <2>2. CASE ~local[r].logged
    BY <1>1, <1>2, <2>2 DEF RecordStream, InFlight
  <2> QED BY <2>1, <2>2
<1>3. ASSUME NEW type, NEW next \in Stages, Inspect(r, type, next),
             InFlight(r), next \in {"calling", "logging", "failLogging", "closing"}
      PROVE  Passes(r)
  <2>1. active' = active /\ forwarded' = forwarded
    BY <1>3 DEF Inspect
  <2>2. CASE pc'[r] = UnwindTo(r) /\ local'[r].raised
    BY <1>3, <2>1, <2>2, UnwindPasses DEF InFlight
  <2>3. CASE pc'[r] = next
    BY <1>3, <1>p, <2>1, <2>3, MovePasses DEF InFlight, Stages
  <2> QED BY <1>3, <2>2, <2>3, InspectEffect
<1>4. CASE Arrive(r) \/ AnswerLocally(r) \/ RejectLength(r) \/ AbortRead(r)
  <2>1. /\ active' = active /\ forwarded' = forwarded
        /\ \/ pc[r] = "idle" /\ pc'[r] = "received"
           \/ pc[r] = "received" /\ pc'[r] \in {"answer", "died"}
    BY <1>4 DEF Arrive, AnswerLocally, RejectLength, AbortRead, ApiCall, Goto, TypeOK
  <2> QED BY <1>p, <2>1, MovePasses
<1>5. CASE RejectLarge(r) \/ ListModels(r) \/ Reject(r)
  <2>1. "answer" \in Stages
    BY DEF Stages
  <2> QED BY <1>1, <1>5, <2>1
          DEF RejectLarge, ListModels, Reject, Prepares, Prepared, ApiCall
<1>6. CASE Admit(r)
  BY <1>6 DEF Admit, Prepares, Prepared, ApiCall, Goto, TypeOK, Registers
<1>7. CASE InspectRequest(r) \/ InspectResponse(r) \/ InspectError(r) \/ InspectGone(r)
  BY <1>3, <1>7 DEF InspectRequest, InspectResponse, InspectError, InspectGone,
       InFlight, Stages
<1>8. CASE UpstreamAnswers(r) \/ UpstreamFails(r) \/ StreamEnds(r) \/ Close(r)
  <2>1. /\ active' = active /\ forwarded \subseteq forwarded'
        /\ InFlight(r) /\ InFlight(r)' /\ pc'[r] # "admitted"
    BY <1>8 DEF UpstreamAnswers, UpstreamFails, StreamEnds, Close, Calls,
         Goto, TypeOK, InFlight, Stages
  <2> QED BY <1>p, <2>1 DEF Passes
<1>9. CASE CloseRaises(r)
  <2>1. pc'[r] = UnwindTo(r) /\ local'[r].raised
    BY <1>9, RaiseEffect DEF CloseRaises
  <2> QED BY <1>9, <2>1, UnwindPasses DEF CloseRaises
<1>10. CASE RecordOutcome(r)
  BY <1>1, <1>2, <1>10 DEF RecordOutcome, InFlight, Stages
<1>11. CASE RecordFailure(r)
  BY <1>1, <1>2, <1>11 DEF RecordFailure, InFlight, Stages
<1>12. CASE RecordGone(r)
  <2>1. PICK next \in {"goneInspect", "closing"} :
          RecordStream(r, local[r].status, next)
    BY <1>12 DEF RecordGone
  <2>2. next \in Stages /\ InFlight(r)
    BY <1>12 DEF RecordGone, InFlight, Stages
  <2> QED BY <1>2, <2>1, <2>2
<1>13. CASE Unregister(r) \/ Finally(r)
  BY <1>13 DEF Unregister, Finally, Unlist, Goto, TypeOK, Unlists, InFlight, Stages
<1>14. CASE Answer(r)
  <2>1. /\ active' = active /\ forwarded' = forwarded /\ pc[r] = "answer"
        /\ pc'[r] \in {"done", "died"}
    BY <1>14 DEF Answer, SocketFails, Raise, UnwindTo, Goto, TypeOK
  <2> QED BY <1>p, <2>1, MovePasses
<1>15. CASE StreamOpens(r) \/ StreamChunk(r) \/ AnswerFailure(r)
  <2>1. req[r].stream /\ active' = active /\ forwarded \subseteq forwarded'
    BY <1>15 DEF StreamOpens, StreamChunk, AnswerFailure, Calls, RecordInv, StreamStages
  <2>2. /\ pc[r] \in {"calling", "streaming", "failAnswer"}
        /\ pc'[r] \in {"streaming", "gone", "closing", "finally"}
    BY <1>15, <2>1 DEF StreamOpens, StreamChunk, AnswerFailure, Calls,
         SocketFails, Raise, UnwindTo, InsideStream, Goto, TypeOK
  <2> QED BY <1>p, <2>1, <2>2 DEF Passes, InFlight, Stages
<1> QED
  BY <1>4, <1>5, <1>6, <1>7, <1>8, <1>9, <1>10, <1>11, <1>12, <1>13, <1>14, <1>15
     DEF Handle, Dispatch, Buffered, Streamed

LEMMA IdTyped ==
  ASSUME TypeOK, NEW r \in Requests PROVE IdOf(r) \in Ids
BY EdgeAssumption DEF TypeOK, IdOf, Ids, Profile

LEMMA SameIds ==
  ASSUME req' = req
  PROVE  /\ \A r \in Requests : IdOf(r)' = IdOf(r)
         /\ \A r \in Requests : Listing(r)' = Listing(r)
         /\ \A r \in Requests : OwnsId(r)' <=> OwnsId(r)
BY DEF IdOf, Listing, OwnsId

LEMMA ListedStep ==
  ASSUME GInv, NEW s \in Requests, Arrive(s) \/ Handle(s),
         NEW r \in Requests, ListedInv(r)
  PROVE  ListedInv(r)'
<1>0. TypeOK /\ RecordInv(s) /\ IdOf(r) \in Ids /\ IdOf(s) \in Ids
  BY IdTyped DEF GInv, IInv
<1>r. req' = req
  BY SameRequests
<1>i. IdOf(r)' = IdOf(r) /\ Listing(r)' = Listing(r) /\ (OwnsId(r)' <=> OwnsId(r))
  BY <1>r, SameIds
<1>1. Registers(s) \/ Unlists(s) \/ Passes(s)
  BY <1>0, RegistrySteps
<1>2. CASE r # s
  <2>1. /\ pc'[r] = pc[r] /\ (r \in forwarded' <=> r \in forwarded)
    BY <1>0, <1>2, FrameRecord
  <2>2. OwnsId(r) => active'[IdOf(r)] = active[IdOf(r)]
    BY <1>0, <1>1, <1>2 DEF Registers, Unlists, Passes, OwnsId, TypeOK
  <2> QED BY <1>r, <1>i, <2>1, <2>2 DEF ListedInv, InFlight
<1>3. CASE r = s /\ Registers(r)
  BY <1>0, <1>r, <1>i, <1>3 DEF ListedInv, Registers, InFlight, Stages, TypeOK
<1>4. CASE r = s /\ Unlists(r)
  BY <1>0, <1>r, <1>i, <1>4 DEF ListedInv, Unlists, InFlight, Stages, TypeOK
<1>5. CASE r = s /\ Passes(r)
  <2>1. active' = active
    BY <1>5 DEF Passes
  <2>2. CASE ~InFlight(r)
    BY <1>r, <1>i, <1>5, <2>1, <2>2 DEF ListedInv, Passes, InFlight, Stages
  <2>3. CASE InFlight(r) /\ InFlight(r)'
    BY <1>r, <1>i, <1>5, <2>1, <2>3 DEF ListedInv, Passes, InFlight, Stages
  <2>4. CASE InFlight(r) /\ ~InFlight(r)'
    BY <1>r, <1>i, <1>5, <2>1, <2>4 DEF ListedInv, Passes, InFlight, Stages
  <2> QED BY <2>2, <2>3, <2>4
<1> QED BY <1>1, <1>2, <1>3, <1>4, <1>5

LEMMA RInvHolds == Spec => []RInv
<1>1. Init => RInv
  BY GInvInit DEF Init, RInv, ListedInv, InFlight, Stages
<1>2. RInv /\ [Next]_vars => RInv'
  <2> SUFFICES ASSUME RInv, [Next]_vars PROVE RInv'
    OBVIOUS
  <2>1. GInv'
    BY GInvStep DEF RInv
  <2>2. ASSUME NEW s \in Requests, Arrive(s) \/ Handle(s), NEW r \in Requests
        PROVE  ListedInv(r)'
    BY <2>2, ListedStep DEF RInv
  <2>3. CASE UNCHANGED vars
    BY <2>1, <2>3 DEF RInv, vars, ListedInv, InFlight, OwnsId, IdOf, Listing
  <2> QED BY <2>1, <2>2, <2>3 DEF RInv, Next
<1> QED BY <1>1, <1>2, PTL DEF Spec

(* A streamed request that was forwarded leaves no entry behind, whatever  *)
(* raised in its handler.                                                  *)
THEOREM StreamsLeave == Spec => []StreamsUnlisted
<1>1. RInv => StreamsUnlisted
  BY DEF RInv, GInv, IInv, TypeOK, ListedInv, StreamsUnlisted, Finished,
     InFlight, Stages
<1> QED BY <1>1, RInvHolds, PTL

(* Every entry belongs to a request in flight or to one whose handler was  *)
(* abandoned, also if callers share a request id.                          *)
Owner(r) == InFlight(r) \/ Abandoned(r)

Owned == \A i \in Ids : active[i] # Unlisted =>
           \E r \in Requests : Owner(r) /\ IdOf(r) = i /\ Listing(r) = active[i]

(* A handler that has ended does nothing more.                             *)
LEMMA EndedStays ==
  ASSUME TypeOK, NEW r \in Requests, Arrive(r) \/ Handle(r)
  PROVE  pc[r] \notin {"done", "died"}
<1>1. CASE Arrive(r)
  BY <1>1 DEF Arrive
<1>2. CASE Dispatch(r)
  BY <1>2 DEF Dispatch, AnswerLocally, RejectLength, RejectLarge, AbortRead,
       ListModels, Reject, Admit, Prepares, ApiCall, InspectRequest
<1>3. CASE Buffered(r)
  BY <1>3 DEF Buffered, UpstreamAnswers, UpstreamFails, Calls, CloseRaises,
       InspectResponse, InspectError, RecordOutcome, RecordFailure, Unregister, Answer
<1>4. CASE Streamed(r)
  BY <1>4 DEF Streamed, StreamOpens, Calls, StreamChunk, StreamEnds, RecordGone,
       InspectGone, Close, AnswerFailure, Finally
<1> QED BY <1>1, <1>2, <1>3, <1>4 DEF Handle

LEMMA OwnedStep ==
  ASSUME RInv, RInv', Owned, [Next]_vars PROVE Owned'
<1>0. TypeOK /\ \A r \in Requests : AdmitInv(r) /\ ListedInv(r)
  BY DEF RInv, GInv, IInv
<1>1. CASE UNCHANGED vars
  BY <1>1 DEF vars, Owned, Owner, Abandoned, InFlight, IdOf, Listing
<1>2. ASSUME NEW s \in Requests, Arrive(s) \/ Handle(s) PROVE Owned'
  <2>r. req' = req
    BY <1>2, SameRequests
  <2>i. \A r \in Requests : IdOf(r)' = IdOf(r) /\ Listing(r)' = Listing(r)
    BY <2>r, SameIds
  <2>0. RecordInv(s) /\ IdOf(s) \in Ids
    BY <1>0, IdTyped DEF RInv, GInv, IInv
  <2>e. pc[s] \notin {"done", "died"}
    BY <1>0, <1>2, EndedStays
  <2>f. \A r \in Requests \ {s} : Owner(r)' <=> Owner(r)
    BY <1>0, <1>2, <2>r, FrameRecord DEF Owner, Abandoned, InFlight
  <2>o. Owner(s) <=> InFlight(s)
    BY <2>e DEF Owner, Abandoned
  <2>1. CASE Registers(s)
    <3>1. ~InFlight(s) /\ InFlight(s)'
      BY <2>1 DEF Registers, InFlight, Stages
    <3>2. \A i \in Ids : active'[i] = IF i = IdOf(s) THEN Listing(s) ELSE active[i]
      BY <1>0, <2>1 DEF Registers, TypeOK
    <3> QED BY <2>i, <2>f, <2>o, <3>1, <3>2 DEF Owned, Owner
  <2>2. CASE Unlists(s)
    <3>1. \A i \in Ids : active'[i] = IF i = IdOf(s) THEN Unlisted ELSE active[i]
      BY <1>0, <2>2 DEF Unlists, TypeOK
    <3>2. ASSUME NEW i \in Ids, active'[i] # Unlisted
          PROVE  \E r \in Requests : /\ Owner(r)' /\ IdOf(r)' = i
                                     /\ Listing(r)' = active'[i]
      <4>1. i # IdOf(s) /\ active'[i] = active[i]
        BY <3>1, <3>2
      <4>2. PICK r \in Requests : Owner(r) /\ IdOf(r) = i /\ Listing(r) = active[i]
        BY <3>2, <4>1 DEF Owned
      <4> QED BY <2>i, <2>f, <4>1, <4>2
    <3> QED BY <3>2 DEF Owned
  <2>3. CASE Passes(s)
    <3>1. active' = active
      BY <2>3 DEF Passes
    <3>2. ASSUME InFlight(s), ~InFlight(s)' PROVE Abandoned(s)'
      <4>1. /\ pc'[s] = "died" /\ forwarded' = forwarded
            /\ ~req[s].stream \/ pc[s] = "admitted"
        BY <2>3, <3>2 DEF Passes
      <4>2. Verdict(req[s]) = 200 /\ Prepared(req[s])
        BY <1>0, <3>2 DEF AdmitInv, Prepared
      <4>3. pc[s] = "admitted" => s \notin forwarded
        BY <1>0 DEF ListedInv
      <4> QED BY <2>r, <4>1, <4>2, <4>3 DEF Abandoned
    <3> QED BY <2>i, <2>f, <2>o, <3>1, <3>2 DEF Owned, Owner
  <2> QED BY <1>0, <1>2, <2>0, <2>1, <2>2, <2>3, RegistrySteps
<1> QED BY <1>1, <1>2 DEF Next

(* With every fault and with shared request ids, /status is exact as far   *)
(* as the code cleans up.                                                  *)
THEOREM StatusIsExact == Spec => []InFlightListed
<1>1. Init => Owned
  BY DEF Init, Owned
<1>2. RInv /\ RInv' /\ Owned /\ [Next]_vars => Owned'
  BY OwnedStep
<1>3. ASSUME RInv, Owned PROVE InFlightListed
  <2>1. ASSUME NEW r \in Requests, InFlight(r), OwnsId(r)
        PROVE  IF req[r].model = NoModel
                 THEN IdOf(r) \notin Shown
                 ELSE IdOf(r) \in Shown /\ active[IdOf(r)] = Listing(r)
    <3>1. active[IdOf(r)] = Listing(r) /\ IdOf(r) \in Ids
      BY <1>3, <2>1, IdTyped DEF RInv, GInv, IInv, ListedInv
    <3> QED BY <3>1 DEF Shown, Listing, Unlisted
  <2> QED BY <1>3, <2>1 DEF Owned, Owner, InFlightListed
<1>4. RInv /\ Owned => InFlightListed
  BY <1>3
<1> QED BY <1>1, <1>2, <1>4, RInvHolds, PTL DEF Spec
==============================================================================
