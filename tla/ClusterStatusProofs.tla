------------------------ MODULE ClusterStatusProofs ------------------------
(***************************************************************************)
(* Proofs about ClusterStatus, for any nodes, aliases, requests, durations *)
(* and bounds: what an error of the command means and what a report says   *)
(* of a node, that edge and command judge one answer alike but for one     *)
(* case, that the last user shown is that of a latest record, and that a   *)
(* request that runs throughout the call is counted.                       *)
(***************************************************************************)
EXTENDS ClusterStatus, Folds, FiniteSetTheorems, WellFoundedInduction, TLAPS

Fields == {"stage", "cli", "target", "left", "at", "latest", "took", "late"}

(* The state of a call, once one is under way.                             *)
CallInv ==
  /\ DOMAIN call = Fields
  /\ call.took \in Nat /\ call.late \in Nat
  /\ call.cli = None => call.stage = None
  /\ call.cli = "answered" => call.stage = "done"

(* What the edge answered, and what the command made of it, is of what was *)
(* seen and logged, and stays so.                                          *)
HealthyNow == {n \in Asked : Healthy(n)}

LastUsers ==
  [row \in {pair \in Asked \X Aliases :
              pair[2] \in Serves[pair[1]] /\ <<pair[1], Runtime[pair[2]]>> \in Rows} |->
     _latest_access[row].user]

AnswerInv ==
  /\ call.stage = "done" => payload.readiness = EdgeReadiness
  /\ report # <<>> =>
       /\ call.cli = "shown" /\ call.stage = "done"
       /\ report.readiness = CliReadiness
       /\ report.healthy = HealthyNow
       /\ report.last = LastUsers

(* What a step changes of the call, besides the time it took.              *)
Changes(c) ==
  /\ DOMAIN call' = Fields
  /\ call'.took \in Nat /\ call'.took >= call.took
  /\ \A f \in Fields \ {"took"} : call'[f] = IF f \in DOMAIN c THEN c[f] ELSE call[f]

LEMMA GoesChanges ==
  ASSUME DOMAIN call = Fields, call.took \in Nat,
         NEW c, Goes(c), DOMAIN c \subseteq Fields \ {"took"}
  PROVE  Changes(c)
<1>1. /\ DOMAIN call' = Fields
      /\ \A f \in Fields : call'[f] = IF f \in DOMAIN c THEN c[f] ELSE call[f]
  BY DEF Goes, Over
<1>2. "took" \in Fields
  BY DEF Fields
<1>3. call'["took"] = call["took"]
  BY <1>1, <1>2
<1> QED
  BY <1>1, <1>3 DEF Changes

LEMMA TakesChanges ==
  ASSUME DOMAIN call = Fields, call.took \in Nat, NEW seconds \in SUBSET Nat,
         NEW c, Takes(seconds, c), DOMAIN c \subseteq Fields \ {"took"}
  PROVE  Changes(c)
<1>1. PICK d \in seconds : Goes(Over([took |-> call.took + d], c))
  BY DEF Takes
<1> DEFINE e == Over([took |-> call.took + d], c)
<1>2. "took" \in Fields
  BY DEF Fields
<1>3. /\ DOMAIN e = {"took"} \union DOMAIN c /\ e["took"] = call.took + d
      /\ \A f \in DOMAIN c : e[f] = c[f]
  BY DEF Over
<1>4. Goes(e)
  BY <1>1
<1> HIDE DEF e
<1>5. /\ DOMAIN call' = Fields
      /\ \A f \in Fields : call'[f] = IF f \in DOMAIN e THEN e[f] ELSE call[f]
  BY <1>2, <1>3, <1>4 DEF Goes, Over
<1>6. call'["took"] = call.took + d /\ d \in Nat
  BY <1>2, <1>3, <1>5
<1>7. call'.took \in Nat /\ call'.took >= call.took
  BY <1>6
<1>8. \A f \in Fields \ {"took"} : call'[f] = IF f \in DOMAIN c THEN c[f] ELSE call[f]
  BY <1>3, <1>5
<1> QED
  BY <1>5, <1>7, <1>8 DEF Changes

LEMMA AnswersChanges ==
  ASSUME DOMAIN call = Fields, call.took \in Nat,
         call.stage \in {"lookup", "gateway", "caches", "health", "models", "statuses",
                         "activity", "omlx", "macos"},
         NEW c, Answers(c), DOMAIN c \subseteq Fields \ {"took"}
  PROVE  Changes(c)
<1>1. Durations[Handler] \in SUBSET Nat
  BY StatusAssumption DEF Handler
<1> QED
  BY <1>1, TakesChanges DEF Answers

(* The steps of the handler by what they change.                           *)
Keeps == call'.cli = call.cli /\ call'.late = call.late

LEMMA ChangeStage ==
  ASSUME NEW s, Changes([stage |-> s])
  PROVE  /\ Keeps /\ call'.stage = s /\ call'.at = call.at
         /\ call'.target = call.target /\ call'.left = call.left
<1> DEFINE c == [stage |-> s]
<1>1. DOMAIN c = {"stage"} /\ c["stage"] = s
  OBVIOUS
<1> HIDE DEF c
<1>2. Changes(c)
  BY DEF c
<1> QED BY <1>1, <1>2 DEF Changes, Fields, Keeps

LEMMA ChangeLeft ==
  ASSUME NEW s, Changes([left |-> s])
  PROVE  /\ Keeps /\ call'.stage = call.stage /\ call'.at = call.at
         /\ call'.target = call.target /\ call'.left = s
<1> DEFINE c == [left |-> s]
<1>1. DOMAIN c = {"left"} /\ c["left"] = s
  OBVIOUS
<1> HIDE DEF c
<1>2. Changes(c)
  BY DEF c
<1> QED BY <1>1, <1>2 DEF Changes, Fields, Keeps

LEMMA ChangeCli ==
  ASSUME NEW s, Changes([cli |-> s])
  PROVE  /\ call'.cli = s /\ call'.late = call.late /\ call'.stage = call.stage
         /\ call'.at = call.at /\ call'.target = call.target /\ call'.left = call.left
<1> DEFINE c == [cli |-> s]
<1>1. DOMAIN c = {"cli"} /\ c["cli"] = s
  OBVIOUS
<1> HIDE DEF c
<1>2. Changes(c)
  BY DEF c
<1> QED BY <1>1, <1>2 DEF Changes, Fields

LEMMA ChangeBoth ==
  ASSUME NEW s, NEW t, Changes([stage |-> s, cli |-> t])
  PROVE  /\ call'.cli = t /\ call'.late = call.late /\ call'.stage = s
         /\ call'.at = call.at /\ call'.target = call.target /\ call'.left = call.left
<1> DEFINE c == [stage |-> s, cli |-> t]
<1>1. DOMAIN c = {"stage", "cli"} /\ c["stage"] = s /\ c["cli"] = t
  OBVIOUS
<1> HIDE DEF c
<1>2. Changes(c)
  BY DEF c
<1> QED BY <1>1, <1>2 DEF Changes, Fields

LEMMA ChangeLate ==
  ASSUME NEW s, NEW w, Changes([stage |-> s, late |-> w])
  PROVE  /\ call'.late = w /\ call'.cli = call.cli /\ call'.stage = s
         /\ call'.at = call.at /\ call'.target = call.target /\ call'.left = call.left
<1> DEFINE c == [stage |-> s, late |-> w]
<1>1. DOMAIN c = {"stage", "late"} /\ c["stage"] = s /\ c["late"] = w
  OBVIOUS
<1> HIDE DEF c
<1>2. Changes(c)
  BY DEF c
<1> QED BY <1>1, <1>2 DEF Changes, Fields

LEMMA ChangeNext ==
  ASSUME NEW S, Changes(NextNode(S))
  PROVE  /\ Keeps /\ call'.target = call.target
         /\ call'.stage = IF S = {} THEN "reply" ELSE "health"
         /\ S # {} => call'.at = FirstOf(S)
<1> DEFINE c == NextNode(S)
<1>1. /\ DOMAIN c = {"stage", "at", "left"}
      /\ c["stage"] = IF S = {} THEN "reply" ELSE "health"
      /\ S # {} => c["at"] = FirstOf(S)
  BY DEF NextNode
<1> HIDE DEF c
<1>2. Changes(c)
  BY DEF c
<1> QED BY <1>1, <1>2 DEF Changes, Fields, Keeps

LEMMA ChangeLookup ==
  ASSUME NEW v, NEW s, NEW l, Changes(Over([latest |-> v], [stage |-> s, left |-> l]))
  PROVE  /\ Keeps /\ call'.stage = s /\ call'.at = call.at
         /\ call'.target = call.target /\ call'.left = l
<1> DEFINE c == Over([latest |-> v], [stage |-> s, left |-> l])
<1>1. DOMAIN c = {"latest", "stage", "left"} /\ c["stage"] = s /\ c["left"] = l
  BY DEF Over
<1> HIDE DEF c
<1>2. Changes(c)
  BY DEF c
<1> QED BY <1>1, <1>2 DEF Changes, Fields, Keeps

(* The same of the actions: what a step of each stage does to the call.    *)
Early == {"lookup", "gateway", "caches"}
Later == {"health", "models", "statuses", "activity", "omlx", "macos"}
Plan == _resolve_status_targets(call.target)

Unread == UNCHANGED <<world, payload, report, moves, history>>

Died(cause) ==
  /\ Changes([stage |-> "dead", cli |-> IF call.cli = "asking" THEN "failed" ELSE call.cli])
  /\ UNCHANGED seen /\ cause

LEMMA DieChanges ==
  ASSUME CallInv, Die
  PROVE  Died(TRUE)
<1> DEFINE c == [stage |-> "dead", cli |-> IF call.cli = "asking" THEN "failed" ELSE call.cli]
<1>1. Goes(c) /\ DOMAIN c = {"stage", "cli"} /\ UNCHANGED seen
  BY DEF Die
<1> HIDE DEF c
<1>2. Changes(c)
  BY <1>1, GoesChanges DEF CallInv, Fields
<1> QED
  BY <1>1, <1>2 DEF Died, c

LEMMA LookupDoes ==
  ASSUME CallInv, _latest_release_versions
  PROVE  /\ call.stage = "lookup" /\ Unread /\ UNCHANGED seen
         /\ \E v : Changes(Over([latest |-> v],
                                [stage |-> IF Plan.gateway THEN "gateway" ELSE "caches",
                                 left |-> Plan.caches]))
<1> DEFINE next == [stage |-> IF Plan.gateway THEN "gateway" ELSE "caches", left |-> Plan.caches]
           answered == Durations["lookup"]
           tries == answered \union {LookupTimeout}
           both(last) == {d + e : d \in tries, e \in last}
<1>1. call.stage = "lookup" /\ Unread /\ UNCHANGED seen
  BY DEF _latest_release_versions, Handler, UnchangedWorld, Unread
<1>2. answered \in SUBSET Nat /\ LookupTimeout \in Nat
  BY StatusAssumption
<1>3. both(answered) \in SUBSET Nat /\ both(tries) \in SUBSET Nat
  BY <1>2
<1>4. \/ Takes(both(answered), Over([latest |-> Latest], next))
      \/ Takes(both(tries), Over([latest |-> 0], next))
  BY DEF _latest_release_versions, Plan
<1>5. ASSUME NEW v, NEW seconds \in SUBSET Nat, Takes(seconds, Over([latest |-> v], next))
      PROVE  Changes(Over([latest |-> v], next))
  <2>1. DOMAIN Over([latest |-> v], next) \subseteq Fields \ {"took"}
    BY DEF Over, Fields
  <2> HIDE DEF next
  <2> QED
    BY <1>5, <2>1, TakesChanges DEF CallInv
<1> HIDE DEF next, both
<1>6. Changes(Over([latest |-> Latest], next)) \/ Changes(Over([latest |-> 0], next))
  BY <1>3, <1>4, <1>5
<1>7. \E v : Changes(Over([latest |-> v], next))
  BY <1>6
<1> QED
  BY <1>1, <1>7 DEF next

LEMMA GatewayDoes ==
  ASSUME CallInv, _gateway_olla_version
  PROVE  /\ call.stage = "gateway" /\ Unread
         /\ \/ Changes([stage |-> "caches"]) /\ UNCHANGED seen
            \/ Died(host[Olla] # "up")
<1>1. call.stage = "gateway" /\ Unread
  BY DEF _gateway_olla_version, Handler, UnchangedWorld, Unread, Die
<1>2. CASE Answers([stage |-> "caches"]) /\ UNCHANGED seen
  <2>1. Changes([stage |-> "caches"])
    BY <1>1, <1>2, AnswersChanges DEF CallInv, Fields
  <2> QED
    BY <1>1, <1>2, <2>1
<1>3. CASE host[Olla] # "up" /\ Die
  BY <1>1, <1>3, DieChanges DEF Died
<1> QED
  BY <1>2, <1>3 DEF _gateway_olla_version

LEMMA CachesDoes ==
  ASSUME CallInv, CacheVersions
  PROVE  /\ call.stage = "caches" /\ Unread
         /\ \/ Changes(NextNode(Asked)) /\ UNCHANGED seen
            \/ Changes([left |-> call.left \ {FirstOf(call.left)}]) /\ UNCHANGED seen
            \/ Died(call.left # {} /\ host[FirstOf(call.left)] = "lost")
<1>1. call.stage = "caches" /\ Unread
  BY DEF CacheVersions, Handler, UnchangedWorld, Unread, Die
<1>2. CASE Goes(NextNode(Asked)) /\ UNCHANGED seen
  <2> DEFINE c == NextNode(Asked)
  <2>1. DOMAIN c = {"stage", "at", "left"} /\ Goes(c)
    BY <1>2 DEF NextNode
  <2> HIDE DEF c
  <2>2. Changes(c)
    BY <2>1, GoesChanges DEF CallInv, Fields
  <2> QED
    BY <1>1, <1>2, <2>2 DEF c
<1>3. CASE call.left # {} /\ host[FirstOf(call.left)] = "lost" /\ Die
  BY <1>1, <1>3, DieChanges DEF Died
<1>4. CASE Answers([left |-> call.left \ {FirstOf(call.left)}]) /\ UNCHANGED seen
  <2> DEFINE c == [left |-> call.left \ {FirstOf(call.left)}]
  <2>1. DOMAIN c = {"left"} /\ Answers(c)
    BY <1>4
  <2> HIDE DEF c
  <2>2. Changes(c)
    BY <1>1, <2>1, AnswersChanges DEF CallInv, Fields
  <2> QED
    BY <1>1, <1>4, <2>2 DEF c
<1> QED
  BY <1>2, <1>3, <1>4 DEF CacheVersions

LEMMA GetDoes ==
  ASSUME CallInv, NEW s \in Later, NEW t, NEW a, Get(s, t, a)
  PROVE  /\ call.stage = s /\ Unread /\ seen' = Learnt(call.at, a)
         /\ DOMAIN call' = Fields /\ call'.took \in Nat /\ call'.took >= call.took
         /\ call'.late = IF Hangs(call.at) THEN call.late + 1 ELSE call.late
         /\ call'.cli = call.cli /\ call'.stage = t /\ call'.at = call.at
         /\ call'.target = call.target /\ call'.left = call.left
<1>1. call.stage = s /\ Unread /\ seen' = Learnt(call.at, a)
  BY DEF Get, Handler, UnchangedWorld, Unread
<1>2. CASE Hangs(call.at)
  <2> DEFINE c == [stage |-> t, late |-> call.late + 1]
  <2>1. DOMAIN c = {"stage", "late"} /\ Goes(c)
    BY <1>2 DEF Get
  <2> HIDE DEF c
  <2>2. Changes(c)
    BY <2>1, GoesChanges DEF CallInv, Fields
  <2>3. Changes([stage |-> t, late |-> call.late + 1])
    BY <2>2 DEF c
  <2> QED
    BY <1>1, <1>2, <2>3, ChangeLate DEF Changes
<1>3. CASE ~Hangs(call.at)
  <2> DEFINE c == [stage |-> t]
  <2>1. DOMAIN c = {"stage"} /\ Answers(c)
    BY <1>3 DEF Get
  <2> HIDE DEF c
  <2>2. Changes(c)
    BY <1>1, <2>1, AnswersChanges DEF CallInv, Fields, Later
  <2>3. Changes([stage |-> t])
    BY <2>2 DEF c
  <2> QED
    BY <1>1, <1>3, <2>3, ChangeStage DEF Changes, Keeps
<1> QED
  BY <1>2, <1>3

LEMMA OmlxDoes ==
  ASSUME CallInv, _omlx_version
  PROVE  /\ call.stage = "omlx" /\ Unread
         /\ \/ /\ Changes([stage |-> "macos"])
               /\ seen' = seen \/ \E v : seen' = [seen EXCEPT ![call.at].version = v]
            \/ Died(host[call.at] = "lost")
<1>1. call.stage = "omlx" /\ Unread
  BY DEF _omlx_version, Handler, UnchangedWorld, Unread, Die
<1>2. CASE Answers([stage |-> "macos"])
           /\ (seen' = seen \/ \E v : seen' = [seen EXCEPT ![call.at].version = v])
  <2>1. Changes([stage |-> "macos"])
    BY <1>1, <1>2, AnswersChanges DEF CallInv, Fields
  <2> QED
    BY <1>1, <1>2, <2>1
<1>3. CASE host[call.at] = "lost" /\ Die
  BY <1>1, <1>3, DieChanges DEF Died
<1> QED
  BY <1>2, <1>3 DEF _omlx_version

LEMMA MacosDoes ==
  ASSUME CallInv, _macos_version
  PROVE  /\ call.stage = "macos" /\ Unread
         /\ \/ Changes(NextNode(Asked \ DOMAIN seen)) /\ UNCHANGED seen
            \/ Died(host[call.at] = "lost")
<1>1. call.stage = "macos" /\ Unread
  BY DEF _macos_version, Handler, UnchangedWorld, Unread, Die
<1>2. CASE Answers(NextNode(Asked \ DOMAIN seen)) /\ UNCHANGED seen
  <2> DEFINE c == NextNode(Asked \ DOMAIN seen)
  <2>1. DOMAIN c = {"stage", "at", "left"} /\ Answers(c)
    BY <1>2 DEF NextNode
  <2> HIDE DEF c
  <2>2. Changes(c)
    BY <1>1, <2>1, AnswersChanges DEF CallInv, Fields
  <2> QED
    BY <1>1, <1>2, <2>2 DEF c
<1>3. CASE host[call.at] = "lost" /\ Die
  BY <1>1, <1>3, DieChanges DEF Died
<1> QED
  BY <1>2, <1>3 DEF _macos_version

LEMMA ReplyDoes ==
  ASSUME CallInv, Reply
  PROVE  /\ call.stage = "reply" /\ UNCHANGED <<world, report, history, seen>>
         /\ \E t \in {call.cli, "answered"} :
              Changes([stage |-> "done", cli |-> t])
<1>1. call.stage = "reply" /\ UNCHANGED <<world, report, history, seen>>
  BY DEF Reply, Handler, UnchangedWorld
<1>2. PICK t \in {call.cli, "answered"} : Goes([stage |-> "done", cli |-> t])
  BY DEF Reply
<1> DEFINE c == [stage |-> "done", cli |-> t]
<1>3. Goes(c) /\ DOMAIN c = {"stage", "cli"}
  BY <1>2
<1> HIDE DEF c
<1>4. Changes(c)
  BY <1>3, GoesChanges DEF CallInv, Fields
<1> QED
  BY <1>1, <1>4 DEF c

LEMMA GiveUpDoes ==
  ASSUME CallInv, GiveUp
  PROVE  /\ call.cli = "asking" /\ Spent >= Patience /\ Changes([cli |-> "failed"])
         /\ UNCHANGED <<world, report, history, seen, payload>>
<1>1. /\ call.cli = "asking" /\ Spent >= Patience /\ Goes([cli |-> "failed"])
      /\ UNCHANGED <<world, report, history, seen, payload>>
  BY DEF GiveUp, UnchangedWorld
<1>2. Changes([cli |-> "failed"])
  BY <1>1, GoesChanges DEF CallInv, Fields
<1> QED
  BY <1>1, <1>2

LEMMA PrintDoes ==
  ASSUME CallInv, _print_cluster_status
  PROVE  /\ call.cli = "answered" /\ Changes([cli |-> "shown"])
         /\ UNCHANGED <<world, history, seen, payload>>
         /\ \E v : report' = _normalize_cluster_status_payload(v)
<1>1. /\ call.cli = "answered" /\ Goes([cli |-> "shown"])
      /\ UNCHANGED <<world, history, seen, payload>>
      /\ \E v : report' = _normalize_cluster_status_payload(v)
  BY DEF _print_cluster_status
<1>2. Changes([cli |-> "shown"])
  BY <1>1, GoesChanges DEF CallInv, Fields
<1> QED
  BY <1>1, <1>2

(* A step of the handler before it answers: it goes on, after a timeout    *)
(* perhaps, or its thread ends.                                            *)
Goes_on ==
  /\ call'.cli = call.cli
  /\ call'.late \in {call.late, call.late + 1}
  /\ \/ call'.stage \in Later \union {"reply"}
     \/ call.stage \in Early /\ call'.stage \in Early

Dies ==
  /\ call'.cli = IF call.cli = "asking" THEN "failed" ELSE call.cli
  /\ call'.late = call.late /\ call'.stage = "dead"

Asks ==
  /\ call.stage \in Early \union Later
  /\ DOMAIN call' = Fields /\ call'.target = call.target
  /\ call'.took \in Nat /\ call'.took >= call.took
  /\ Unread
  /\ Goes_on \/ Dies

LEMMA DiedDies ==
  ASSUME CallInv, NEW cause, Died(cause), call.stage \in Early \union Later, Unread
  PROVE  Asks
BY ChangeBoth DEF Died, Asks, Dies, Changes

LEMMA PollAsks ==
  ASSUME CallInv, Polling, ~Reply
  PROVE  Asks
<1>1. CASE _latest_release_versions
  <2>1. PICK v : /\ call.stage = "lookup" /\ Unread
                 /\ Changes(Over([latest |-> v],
                                 [stage |-> IF Plan.gateway THEN "gateway" ELSE "caches",
                                  left |-> Plan.caches]))
    BY <1>1, LookupDoes
  <2>2. /\ Keeps /\ call'.target = call.target
        /\ call'.stage = IF Plan.gateway THEN "gateway" ELSE "caches"
    BY <2>1, ChangeLookup
  <2> QED
    BY <2>1, <2>2 DEF Asks, Goes_on, Keeps, Early, Changes
<1>2. CASE _gateway_olla_version
  <2>1. call.stage = "gateway" /\ Unread
    BY <1>2, GatewayDoes
  <2>2. CASE Died(host[Olla] # "up")
    BY <2>1, <2>2, DiedDies DEF Early
  <2>3. CASE Changes([stage |-> "caches"])
    BY <2>1, <2>3, ChangeStage DEF Asks, Goes_on, Keeps, Early, Changes
  <2> QED
    BY <1>2, <2>2, <2>3, GatewayDoes
<1>3. CASE CacheVersions
  <2>1. call.stage = "caches" /\ Unread
    BY <1>3, CachesDoes
  <2>2. CASE Died(call.left # {} /\ host[FirstOf(call.left)] = "lost")
    BY <2>1, <2>2, DiedDies DEF Early
  <2>3. CASE Changes(NextNode(Asked))
    BY <2>1, <2>3, ChangeNext DEF Asks, Goes_on, Keeps, Early, Later, Changes
  <2>4. CASE Changes([left |-> call.left \ {FirstOf(call.left)}])
    BY <2>1, <2>4, ChangeLeft DEF Asks, Goes_on, Keeps, Early, Changes
  <2> QED
    BY <1>3, <2>2, <2>3, <2>4, CachesDoes
<1>4. ASSUME NEW s \in Later, NEW t \in Later, NEW a, Get(s, t, a) PROVE Asks
  BY <1>4, GetDoes DEF Asks, Goes_on
<1>5. CASE Health \/ ListOf \/ Statuses \/ Activity
  BY <1>4, <1>5 DEF Health, ListOf, Statuses, Activity, Later
<1>6. CASE _omlx_version
  <2>1. call.stage = "omlx" /\ Unread
    BY <1>6, OmlxDoes
  <2>2. CASE Died(host[call.at] = "lost")
    BY <2>1, <2>2, DiedDies DEF Later
  <2>3. CASE Changes([stage |-> "macos"])
    BY <2>1, <2>3, ChangeStage DEF Asks, Goes_on, Keeps, Later, Changes
  <2> QED
    BY <1>6, <2>2, <2>3, OmlxDoes
<1>7. CASE _macos_version
  <2>1. call.stage = "macos" /\ Unread
    BY <1>7, MacosDoes
  <2>2. CASE Died(host[call.at] = "lost")
    BY <2>1, <2>2, DiedDies DEF Later
  <2>3. CASE Changes(NextNode(Asked \ DOMAIN seen))
    BY <2>1, <2>3, ChangeNext DEF Asks, Goes_on, Keeps, Later, Changes
  <2> QED
    BY <1>7, <2>2, <2>3, MacosDoes
<1> QED BY <1>1, <1>2, <1>3, <1>5, <1>6, <1>7 DEF Polling

LEMMA AsksKeeps ==
  ASSUME CallInv, AnswerInv, Asks
  PROVE  CallInv' /\ AnswerInv'
<1>1. report' = report
  BY DEF Asks, Unread
<1>2. call.stage # "done" /\ call.stage # None
  BY DEF Asks, Early, Later, None
<1>3. report = <<>>
  BY <1>2 DEF AnswerInv
<1>4. call'.late \in Nat /\ call'.took \in Nat
  BY DEF Asks, Goes_on, Dies, CallInv
<1>5. call'.stage \notin {None, "done"}
  BY DEF Asks, Goes_on, Dies, Early, Later, None
<1>6. call.cli # None /\ call.cli # "answered"
  BY <1>2 DEF CallInv
<1>7. call'.cli # None /\ call'.cli # "answered"
  BY <1>6 DEF Asks, Goes_on, Dies, None
<1>8. CallInv'
  BY <1>4, <1>7 DEF CallInv, Asks
<1> QED BY <1>1, <1>3, <1>5, <1>8 DEF AnswerInv

(* The answer, the command's report, its giving up, and its start.         *)
LEMMA ReplyKeeps ==
  ASSUME CallInv, AnswerInv, Reply
  PROVE  CallInv' /\ AnswerInv'
<1>1. /\ call.stage = "reply" /\ UNCHANGED <<world, report, history, seen>>
      /\ \E t \in {call.cli, "answered"} : Changes([stage |-> "done", cli |-> t])
  BY ReplyDoes
<1>2. PICK t \in {call.cli, "answered"} : Changes([stage |-> "done", cli |-> t])
  BY <1>1
<1>3. /\ DOMAIN call' = Fields /\ call'.took \in Nat /\ call'.late = call.late
      /\ call'.cli = t /\ call'.stage = "done" /\ call'.target = call.target
  BY <1>2, ChangeBoth DEF Changes
<1>4. report = <<>>
  BY <1>1 DEF AnswerInv
<1>5. payload'.readiness = EdgeReadiness
  BY DEF Reply, build_edge_status_payload
<1>6. EdgeReadiness' = EdgeReadiness
  BY <1>1, <1>3 DEF EdgeReadiness, AllHealthy, Healthy, Asked, RowsIn, Rows
<1>7. call.cli # None
  BY <1>1 DEF CallInv, None
<1>8. CallInv'
  BY <1>2, <1>3, <1>7 DEF CallInv, None
<1> QED BY <1>1, <1>3, <1>4, <1>5, <1>6, <1>8 DEF AnswerInv

LEMMA GiveUpKeeps ==
  ASSUME CallInv, AnswerInv, GiveUp
  PROVE  CallInv' /\ AnswerInv'
<1>1. /\ call.cli = "asking" /\ Changes([cli |-> "failed"])
      /\ UNCHANGED <<report, seen, payload>>
  BY GiveUpDoes
<1>2. /\ DOMAIN call' = Fields /\ call'.took \in Nat /\ call'.late = call.late
      /\ call'.cli = "failed" /\ call'.stage = call.stage /\ call'.target = call.target
  BY <1>1, ChangeCli DEF Changes
<1>3. report = <<>>
  BY <1>1 DEF AnswerInv
<1>4. EdgeReadiness' = EdgeReadiness
  BY <1>1, <1>2 DEF EdgeReadiness, AllHealthy, Healthy, Asked, RowsIn, Rows
<1> QED BY <1>1, <1>2, <1>3, <1>4 DEF CallInv, AnswerInv, None

LEMMA PrintKeeps ==
  ASSUME CallInv, AnswerInv, _print_cluster_status
  PROVE  CallInv' /\ AnswerInv'
<1>1. /\ call.stage = "done" /\ Changes([cli |-> "shown"])
      /\ UNCHANGED <<world, seen, payload>>
  BY PrintDoes DEF CallInv
<1>2. /\ DOMAIN call' = Fields /\ call'.took \in Nat /\ call'.late = call.late
      /\ call'.cli = "shown" /\ call'.stage = call.stage /\ call'.target = call.target
  BY <1>1, ChangeCli DEF Changes
<1>3. Asked' = Asked /\ Rows' = Rows
  BY <1>1, <1>2 DEF Asked, Rows
<1>4. /\ EdgeReadiness' = EdgeReadiness /\ CliReadiness' = CliReadiness
      /\ HealthyNow' = HealthyNow
  BY <1>1, <1>3 DEF EdgeReadiness, CliReadiness, AllHealthy, Healthy, RowsIn, HealthyNow
<1>5. LastUsers' = LastUsers
  BY <1>1, <1>3 DEF LastUsers, _latest_access, world
<1>6. PICK v : report' = _normalize_cluster_status_payload(v)
  BY PrintDoes
<1>7. report'.readiness = CliReadiness /\ report'.healthy = HealthyNow
  BY <1>6 DEF _normalize_cluster_status_payload, HealthyNow
<1>8. report'.last = LastUsers
  BY <1>6 DEF _normalize_cluster_status_payload, LastUsers
<1>9. CallInv'
  BY <1>1, <1>2 DEF CallInv, None
<1> QED BY <1>1, <1>2, <1>4, <1>5, <1>7, <1>8, <1>9 DEF AnswerInv

LEMMA StartKeeps ==
  ASSUME CallInv, AnswerInv, cluster_status
  PROVE  CallInv' /\ AnswerInv'
<1>1. PICK t \in Targets :
       call' = [stage |-> IF Known(t) THEN "lookup" ELSE "dead",
                cli |-> IF Known(t) THEN "asking" ELSE "failed",
                target |-> t, left |-> {}, at |-> None, latest |-> 0, took |-> 0, late |-> 0]
  BY DEF cluster_status
<1>2. report' = <<>>
  BY DEF cluster_status, outputs, AnswerInv, None
<1>3. CallInv'
  BY <1>1 DEF CallInv, Fields, None
<1>4. call'.stage # "done"
  BY <1>1
<1> QED BY <1>2, <1>3, <1>4 DEF AnswerInv

(* The world moves only while the command is not over.                     *)
LEMMA WorldKeeps ==
  ASSUME CallInv, AnswerInv, UNCHANGED <<call, outputs>>,
         call.cli \in {None, "asking", "answered"} \/ UNCHANGED world
  PROVE  CallInv' /\ AnswerInv'
<1>1. EdgeReadiness' = EdgeReadiness
  BY DEF EdgeReadiness, AllHealthy, Healthy, Asked, RowsIn, Rows, outputs
<1>2. CASE UNCHANGED world
  <2>1. Asked' = Asked /\ Rows' = Rows
    BY DEF Asked, Rows, outputs
  <2>2. CliReadiness' = CliReadiness /\ HealthyNow' = HealthyNow
    BY <2>1 DEF CliReadiness, AllHealthy, Healthy, RowsIn, HealthyNow, outputs
  <2>3. LastUsers' = LastUsers
    BY <1>2, <2>1 DEF LastUsers, _latest_access, world
  <2> QED BY <1>1, <1>2, <2>2, <2>3 DEF CallInv, AnswerInv, world, outputs
<1>3. CASE call.cli \in {None, "asking", "answered"}
  <2>1. call.cli # "shown"
    BY <1>3 DEF None
  <2> QED BY <1>1, <2>1 DEF CallInv, AnswerInv, outputs
<1> QED BY <1>2, <1>3

LEMMA StatusInvInit == StatusInit => CallInv /\ AnswerInv
  BY DEF StatusInit, CallInv, AnswerInv, Fields, None

LEMMA StatusInvKeeps == CallInv /\ AnswerInv /\ [StatusNext]_statusVars => (CallInv /\ AnswerInv)'
<1> SUFFICES ASSUME CallInv, AnswerInv, [StatusNext]_statusVars
             PROVE  (CallInv /\ AnswerInv)'
  OBVIOUS
<1>1. CASE cluster_status
  BY <1>1, StartKeeps
<1>2. CASE Polling
  BY <1>2, PollAsks, AsksKeeps, ReplyKeeps
<1>3. CASE GiveUp
  BY <1>3, GiveUpKeeps
<1>4. CASE _print_cluster_status
  BY <1>4, PrintKeeps
<1>5. ASSUME NEW k, Moves(k) PROVE (CallInv /\ AnswerInv)'
  BY <1>5, WorldKeeps DEF Moves
<1>6. ASSUME NEW q \in Requests,
             \/ _register_active_request(q) \/ Route(q) \/ Run(q)
             \/ Finish(q) \/ _record_edge_access(q) \/ _unregister_active_request(q)
      PROVE  (CallInv /\ AnswerInv)'
  BY <1>5, <1>6 DEF _register_active_request, Route, Run, Finish, _record_edge_access,
                    _unregister_active_request, World
<1>7. ASSUME NEW p \in Parties, Break(p) \/ Repair(p) PROVE (CallInv /\ AnswerInv)'
  BY <1>5, <1>7 DEF Break, Repair, World
<1>8. ASSUME NEW n \in Nodes, NEW r \in Models, Load(n, r) PROVE (CallInv /\ AnswerInv)'
  BY <1>5, <1>8 DEF Load, World
<1>9. CASE UNCHANGED statusVars
  BY <1>9, WorldKeeps DEF statusVars
<1> QED BY <1>1, <1>2, <1>3, <1>4, <1>6, <1>7, <1>8, <1>9 DEF StatusNext

LEMMA StatusInvHolds == StatusSpec => [](CallInv /\ AnswerInv)
  BY StatusInvInit, StatusInvKeeps, PTL DEF StatusSpec

(* Edge and command judge one answer alike, but for a cluster of which one *)
(* model is loaded and another loading.                                    *)
THEOREM JudgedAlike == StatusSpec => []ReadinessAgrees
<1>1. AnswerInv => ReadinessAgrees
  <2> SUFFICES ASSUME AnswerInv, report # <<>>, payload.readiness # report.readiness
               PROVE  /\ payload.readiness = "partial" /\ report.readiness = "warm"
                      /\ RowsIn("loading") # {} /\ RowsIn("loaded") # {}
    BY DEF ReadinessAgrees
  <2>1. payload.readiness = EdgeReadiness /\ report.readiness = CliReadiness
    BY DEF AnswerInv
  <2> QED BY <2>1 DEF EdgeReadiness, CliReadiness
<1> QED BY <1>1, StatusInvHolds, PTL
-----------------------------------------------------------------------------
(* Induction, with sets in the place of predicates; the sum of a function. *)

LEMMA LessThan == \E R : IsWellFoundedOn(R, Nat) /\ \A x, y \in Nat : x < y => <<x, y>> \in R
<1> DEFINE R == {ss \in Nat \X Nat : ss[1] < ss[2]}
<1>1. R = OpToRel(<, Nat)
  BY Zenon DEF OpToRel
<1>2. IsWellFoundedOn(R, Nat)
  <2> HIDE DEF R
  <2> QED
    BY <1>1, NatLessThanWellFounded, Zenon
<1>3. \A x, y \in Nat : x < y => <<x, y>> \in R
  OBVIOUS
<1> HIDE DEF R
<1> QED
  BY <1>2, <1>3

LEMMA LeastOf ==
  ASSUME NEW T, T \subseteq Nat, T # {}
  PROVE  \E x \in T : \A y \in T : x <= y
<1>1. PICK R : IsWellFoundedOn(R, Nat) /\ \A x, y \in Nat : x < y => <<x, y>> \in R
  BY LessThan
<1>a. IsWellFoundedOn(R, Nat)
  BY <1>1
<1>b. T \subseteq Nat /\ T # {}
  OBVIOUS
<1>c. \E x \in T : \A y \in T : ~(<<y, x>> \in R)
  BY ONLY <1>a, <1>b, WFMin
<1>2. PICK x \in T : \A y \in T : ~(<<y, x>> \in R)
  BY <1>c
<1>3. \A y \in T : x <= y
  <2> SUFFICES ASSUME NEW y \in T PROVE x <= y
    OBVIOUS
  <2>1. x \in Nat /\ y \in Nat /\ ~(y < x)
    BY <1>1, <1>2
  <2> QED
    BY <2>1
<1> QED
  BY <1>3
(* Induction over Nat, on a set.                                           *)
LEMMA Counting ==
  ASSUME NEW T, 0 \in T, \A n \in Nat : n \in T => n + 1 \in T
  PROVE  \A n \in Nat : n \in T
<1> DEFINE U == Nat \ T
<1>1. SUFFICES ASSUME U # {} PROVE FALSE
  OBVIOUS
<1>2. U \subseteq Nat
  OBVIOUS
<1>3. PICK x \in U : \A y \in U : x <= y
  <2> HIDE DEF U
  <2> QED
    BY <1>1, <1>2, LeastOf
<1>4. x \in Nat /\ x # 0 /\ x - 1 \in Nat /\ x - 1 < x /\ (x - 1) + 1 = x
  OBVIOUS
<1>5. x - 1 \in T
  BY <1>3, <1>4
<1> QED
  BY <1>4, <1>5

(* Induction over the subsets of a finite set, on a set of them.           *)
LEMMA Growing ==
  ASSUME NEW S, IsFiniteSet(S), NEW T,
         \A s \in SUBSET S : (\A x \in s : s \ {x} \in T) => s \in T
  PROVE  \A s \in SUBSET S : s \in T
<1> DEFINE K == {k \in Nat : \A s \in SUBSET S : Cardinality(s) = k => s \in T}
<1>0. \A s \in SUBSET S : IsFiniteSet(s) /\ Cardinality(s) \in Nat
  BY FS_Subset, FS_CardinalityType
<1>1. 0 \in K
  <2> SUFFICES ASSUME NEW s \in SUBSET S, Cardinality(s) = 0 PROVE s \in T
    OBVIOUS
  <2>1. s = {}
    BY <1>0, FS_EmptySet
  <2> QED
    BY <2>1
<1>2. ASSUME NEW k \in Nat, k \in K PROVE k + 1 \in K
  <2> SUFFICES ASSUME NEW s \in SUBSET S, Cardinality(s) = k + 1 PROVE s \in T
    OBVIOUS
  <2>1. ASSUME NEW x \in s PROVE s \ {x} \in T
    <3>1. s \ {x} \in SUBSET S /\ Cardinality(s \ {x}) = Cardinality(s) - 1
      BY <1>0, FS_RemoveElement
    <3>2. Cardinality(s \ {x}) = k
      BY <1>0, <3>1
    <3> QED
      BY <1>2, <3>1, <3>2
  <2> QED
    BY <2>1
<1>3. \A n \in Nat : n \in K
  <2> HIDE DEF K
  <2> QED
    BY <1>1, <1>2, Counting
<1> QED
  BY <1>0, <1>3

(* The sum of a function over a finite set, element by element.            *)
Chosen(s) == CHOOSE x \in s : TRUE

SumsUp(g, f, S) ==
  /\ g[{}] = 0
  /\ \A s \in SUBSET S : s # {} => g[s] = f[Chosen(s)] + g[s \ {Chosen(s)}]

LEMMA SumIs ==
  ASSUME NEW S, IsFiniteSet(S), NEW f
  PROVE  \E g : SumFunctionOnSet(f, S) = g[S] /\ SumsUp(g, f, S)
<1> DEFINE Rec(g, D) == g = [s \in D |-> IF s = {} THEN 0 ELSE f[Chosen(s)] + g[s \ {Chosen(s)}]]
           Below(k) == {s \in SUBSET S : Cardinality(s) <= k}
           K == {k \in Nat : \E g : Rec(g, Below(k))}
<1>0. \A s \in SUBSET S : /\ IsFiniteSet(s) /\ Cardinality(s) \in Nat
                          /\ Cardinality(s) <= Cardinality(S)
                          /\ \A x \in s : Cardinality(s \ {x}) = Cardinality(s) - 1
  BY FS_Subset, FS_CardinalityType, FS_RemoveElement
<1>1. 0 \in K
  <2> DEFINE g == [s \in Below(0) |-> 0]
  <2>1. ASSUME NEW s \in Below(0) PROVE s = {}
    BY <1>0, FS_EmptySet
  <2>2. Rec(g, Below(0))
    BY <2>1
  <2> QED
    BY <2>2
<1>2. ASSUME NEW k \in Nat, k \in K PROVE k + 1 \in K
  <2>1. PICK g : Rec(g, Below(k))
    BY <1>2
  <2> DEFINE h == [s \in Below(k + 1) |-> IF s = {} THEN 0 ELSE f[Chosen(s)] + g[s \ {Chosen(s)}]]
  <2>2. \A s \in Below(k) : s \in Below(k + 1) /\ h[s] = g[s]
    <3>1. \A s \in Below(k) : s \in Below(k + 1)
      BY <1>0
    <3>2. \A s \in Below(k) : g[s] = IF s = {} THEN 0 ELSE f[Chosen(s)] + g[s \ {Chosen(s)}]
      BY <2>1
    <3> QED
      BY <3>1, <3>2
  <2>3. ASSUME NEW s \in Below(k + 1), s # {} PROVE s \ {Chosen(s)} \in Below(k)
    <3>1. Chosen(s) \in s
      BY <2>3 DEF Chosen
    <3> QED
      BY <1>0, <3>1
  <2>4. Rec(h, Below(k + 1))
    BY <2>2, <2>3
  <2> HIDE DEF h
  <2>5. \E i : Rec(i, Below(k + 1))
    BY <2>4
  <2> HIDE DEF Rec, Below
  <2> QED
    BY <2>5
<1>3. \A k \in Nat : k \in K
  <2> HIDE DEF K
  <2> QED
    BY <1>1, <1>2, Counting
<1>4. Cardinality(S) \in Nat /\ Below(Cardinality(S)) = SUBSET S
  BY <1>0
<1>5. \E g : Rec(g, SUBSET S)
  BY <1>3, <1>4
<1> DEFINE i == CHOOSE g : Rec(g, SUBSET S)
<1>6. Rec(i, SUBSET S)
  BY <1>5
<1>7. SumFunctionOnSet(f, S) = i[S]
  BY DEF SumFunctionOnSet, FoldFunctionOnSet, MapThenFoldSet, Chosen
<1> HIDE DEF i
<1>8. SumsUp(i, f, S)
  BY <1>6 DEF SumsUp
<1> QED
  BY <1>7, <1>8

(* A sum of parts, none less than what its class of a finite set counts,   *)
(* is not less than what the classes count together.                       *)
LEMMA SumCovers ==
  ASSUME NEW S, IsFiniteSet(S), NEW f, NEW Q, IsFiniteSet(Q), NEW at,
         \A n \in S : f[n] \in Nat /\ f[n] >= Cardinality({q \in Q : at[q] = n})
  PROVE  /\ SumFunctionOnSet(f, S) \in Nat
         /\ SumFunctionOnSet(f, S) >= Cardinality({q \in Q : at[q] \in S})
<1> DEFINE In(s) == {q \in Q : at[q] \in s}
<1>1. PICK g : SumFunctionOnSet(f, S) = g[S] /\ SumsUp(g, f, S)
  BY SumIs
<1> DEFINE T == {s \in SUBSET S : g[s] \in Nat /\ g[s] >= Cardinality(In(s))}
<1>2. \A s : IsFiniteSet(In(s)) /\ Cardinality(In(s)) \in Nat
  BY FS_Subset, FS_CardinalityType
<1>3. ASSUME NEW s \in SUBSET S, \A x \in s : s \ {x} \in T PROVE s \in T
  <2>1. CASE s = {}
    <3>1. In(s) = {}
      BY <2>1
    <3>2. Cardinality(In(s)) = 0
      BY <3>1, FS_EmptySet
    <3> QED
      BY <1>1, <2>1, <3>2 DEF SumsUp
  <2>2. CASE s # {}
    <3>1. PICK c \in s : c = Chosen(s)
      BY <2>2 DEF Chosen
    <3>2. g[s] = f[c] + g[s \ {c}]
      BY <1>1, <2>2, <3>1 DEF SumsUp
    <3>3. s \ {c} \in T
      BY <1>3
    <3> DEFINE A == {q \in Q : at[q] = c}
               B == In(s \ {c})
    <3>4. In(s) = A \union B
      OBVIOUS
    <3>5. IsFiniteSet(A) /\ IsFiniteSet(B) /\ IsFiniteSet(A \cap B)
      BY FS_Subset
    <3> HIDE DEF A, B
    <3>6. /\ Cardinality(A \union B) = Cardinality(A) + Cardinality(B) - Cardinality(A \cap B)
          /\ Cardinality(A) \in Nat /\ Cardinality(B) \in Nat /\ Cardinality(A \cap B) \in Nat
      BY <3>5, FS_Union, FS_CardinalityType
    <3>7. f[c] \in Nat /\ f[c] >= Cardinality(A)
      BY DEF A
    <3>8. g[s \ {c}] \in Nat /\ g[s \ {c}] >= Cardinality(B)
      BY <3>3 DEF B
    <3>9. g[s] \in Nat /\ g[s] >= Cardinality(A) + Cardinality(B)
      BY <3>2, <3>6, <3>7, <3>8
    <3>10. Cardinality(In(s)) = Cardinality(A \union B)
      BY <3>4
    <3> HIDE DEF In
    <3>11. g[s] >= Cardinality(In(s))
      BY <3>6, <3>9, <3>10
    <3> QED
      BY <3>9, <3>11
  <2> QED
    BY <2>1, <2>2
<1>4. \A s \in SUBSET S : s \in T
  <2> HIDE DEF T
  <2> QED
    BY <1>3, Growing
<1> QED
  BY <1>1, <1>4
-----------------------------------------------------------------------------
(* The requests.                                                           *)

Ran == {"running", "stamped", "recorded", "gone"}
Placed == {"waiting", "running", "stamped"}
Listed == {"registered", "waiting", "running", "stamped", "recorded"}

ReqInv ==
  /\ req \in [Requests -> [st : {"new", "registered", "waiting"} \union Ran,
                           at : Nodes \union {None}]]
  /\ registry \subseteq Requests
  /\ \A q \in Requests :
       /\ req[q].st \in Placed => req[q].at \in Nodes /\ Alias[q] \in Serves[req[q].at]
       /\ req[q].st \in Listed => q \in registry

(* A request that ran stays with its node.                                 *)
Onward ==
  \A q \in Requests : req[q].st \in Ran => req'[q].at = req[q].at /\ req'[q].st \in Ran

Machines ==
  /\ host \in [Parties -> Conditions] /\ met \in [Parties -> SUBSET Conditions]
  /\ mem \in [Nodes -> [Models -> {"cold", "loading", "loaded"}]]
  /\ used \in [Nodes -> [Models -> {None, "recent", "old"}]]
  /\ failures \in 0..MaxMishaps

RequestStep ==
  \E q \in Requests : \/ _register_active_request(q) \/ Route(q) \/ Run(q)
                      \/ Finish(q) \/ _record_edge_access(q) \/ _unregister_active_request(q)
MachineStep ==
  \/ \E p \in Parties : Break(p) \/ Repair(p)
  \/ \E n \in Nodes, r \in Models : Load(n, r)

LEMMA RequestKeeps ==
  ASSUME ReqInv, RequestStep
  PROVE  ReqInv' /\ Onward
<1> USE DEF Ran, Placed, Listed
<1>1. PICK q \in Requests : \/ _register_active_request(q) \/ Route(q) \/ Run(q)
                            \/ Finish(q) \/ _record_edge_access(q)
                            \/ _unregister_active_request(q)
  BY DEF RequestStep
<1>0. req[q] \in [st : {"new", "registered", "waiting"} \union Ran, at : Nodes \union {None}]
  BY DEF ReqInv
<1>2. CASE _register_active_request(q)
  BY <1>2 DEF _register_active_request, Becomes, ReqInv, Onward
<1>3. CASE Route(q)
  <2>1. req[q].st = "registered" /\ registry' = registry
    BY <1>3 DEF Route
  <2>2. CASE Becomes(q, "recorded")
    BY <2>1, <2>2 DEF Becomes, ReqInv, Onward
  <2>3. ASSUME NEW n \in Nodes, Alias[q] \in Serves[n],
               req' = [req EXCEPT ![q] = [st |-> "waiting", at |-> n]]
        PROVE  ReqInv' /\ Onward
    BY <2>1, <2>3 DEF ReqInv, Onward
  <2> QED
    BY <1>3, <2>2, <2>3 DEF Route
<1>4. CASE Run(q)
  BY <1>4 DEF Run, Becomes, ReqInv, Onward
<1>5. CASE Finish(q)
  <2>1. /\ req[q].st \in {"running", "waiting"} /\ registry' = registry
        /\ Becomes(q, "stamped") \/ Becomes(q, "recorded")
    BY <1>5 DEF Finish
  <2> QED
    BY <2>1 DEF Becomes, ReqInv, Onward
<1>6. CASE _record_edge_access(q)
  BY <1>6 DEF _record_edge_access, Becomes, ReqInv, Onward
<1>7. CASE _unregister_active_request(q)
  BY <1>7 DEF _unregister_active_request, Becomes, ReqInv, Onward
<1> QED
  BY <1>1, <1>2, <1>3, <1>4, <1>5, <1>6, <1>7

LEMMA MachineKeeps ==
  ASSUME ReqInv, MachineStep
  PROVE  ReqInv' /\ Onward
<1>1. CASE UNCHANGED <<req, registry>>
  BY <1>1 DEF ReqInv, Onward
<1>2. ASSUME NEW p \in Parties, Repair(p) PROVE ReqInv' /\ Onward
  <2>1. \A q \in Requests : /\ req'[q].at = req[q].at
                            /\ \/ req'[q] = req[q]
                               \/ /\ req[q].st \in {"waiting", "running"}
                                  /\ req'[q] = [req[q] EXCEPT !.st = "recorded"]
    BY <1>2 DEF Repair, At, ReqInv
  <2>2. DOMAIN req' = Requests /\ req' = [q \in Requests |-> req'[q]] /\ registry' = registry
    BY <1>2 DEF Repair
  <2> QED
    BY <2>1, <2>2 DEF ReqInv, Onward, Ran, Placed, Listed
<1> QED
  BY <1>1, <1>2 DEF MachineStep, Break, Load

(* The steps of the call leave the world alone; they count what they fail. *)
CallStep ==
  cluster_status \/ Polling \/ GiveUp \/ _print_cluster_status \/ UNCHANGED statusVars

LEMMA CallStepWorld == CallStep => UNCHANGED world
<1>1. ASSUME NEW s, NEW t, NEW a, Get(s, t, a) PROVE UNCHANGED world
  BY <1>1 DEF Get, UnchangedWorld
<1>2. Health \/ ListOf \/ Statuses \/ Activity => UNCHANGED world
  BY <1>1 DEF Health, ListOf, Statuses, Activity
<1>3. _latest_release_versions \/ _gateway_olla_version \/ CacheVersions => UNCHANGED world
  BY DEF _latest_release_versions, _gateway_olla_version, CacheVersions, UnchangedWorld
<1>4. _omlx_version \/ _macos_version \/ Reply \/ GiveUp => UNCHANGED world
  BY DEF _omlx_version, _macos_version, Reply, GiveUp, UnchangedWorld
<1>5. cluster_status \/ _print_cluster_status \/ UNCHANGED statusVars => UNCHANGED world
  BY DEF cluster_status, _print_cluster_status, statusVars
<1> QED
  BY <1>2, <1>3, <1>4, <1>5 DEF CallStep, Polling

LEMMA CallStepFails == CallStep => failures' = failures \/ Failure
<1>1. ASSUME NEW s, NEW t, NEW a, Get(s, t, a) PROVE failures' = failures
  BY <1>1 DEF Get
<1>2. Health \/ ListOf \/ Statuses \/ Activity => failures' = failures
  BY <1>1 DEF Health, ListOf, Statuses, Activity
<1>3. _gateway_olla_version \/ CacheVersions \/ _macos_version \/ Reply \/ GiveUp
        => failures' = failures
  BY DEF _gateway_olla_version, CacheVersions, _macos_version, Reply, GiveUp
<1>4. _latest_release_versions => failures' = failures \/ Failure
  BY DEF _latest_release_versions
<1>5. _omlx_version \/ _print_cluster_status => failures' = failures \/ Failure
  BY DEF _omlx_version, _print_cluster_status
<1>6. cluster_status \/ UNCHANGED statusVars => failures' = failures
  BY DEF cluster_status, statusVars
<1> QED
  BY <1>2, <1>3, <1>4, <1>5, <1>6 DEF CallStep, Polling

LEMMA MetTyped ==
  ASSUME met \in [Parties -> SUBSET Conditions], host' \in [Parties -> Conditions],
         [StatusNext]_statusVars
  PROVE  met' \in [Parties -> SUBSET Conditions]
<1>1. CASE met' = met
  BY <1>1
<1>2. CASE cluster_status
  <2>1. host' = host /\ met' = [p \in Parties |-> {host[p]}]
    BY <1>2 DEF cluster_status, world
  <2> QED
    BY <2>1
<1>3. ASSUME NEW k, Moves(k) PROVE met' \in [Parties -> SUBSET Conditions]
  <2>1. \/ met' = met
        \/ met' = [p \in Parties |-> IF call.cli = None THEN {} ELSE met[p] \union {host'[p]}]
    BY <1>3 DEF Moves, history
  <2> QED
    BY <2>1
<1>4. CASE Polling \/ GiveUp \/ _print_cluster_status \/ UNCHANGED statusVars
  BY <1>1, <1>4 DEF statusVars, history, Polling, GiveUp, UnchangedWorld,
       _print_cluster_status, _latest_release_versions, _gateway_olla_version,
       CacheVersions, Health, ListOf, Statuses, Activity, Get, _omlx_version,
       _macos_version, Reply
<1> QED
  BY <1>2, <1>3, <1>4
     DEF StatusNext, World, _register_active_request, Route, Run, Finish,
         _record_edge_access, _unregister_active_request, Break, Repair, Load

LEMMA MachinesKeep ==
  ASSUME Machines, [StatusNext]_statusVars
  PROVE  Machines'
<1>0. MaxMishaps \in Nat /\ (Failure => failures' \in 0..MaxMishaps)
  BY StatusAssumption DEF Failure, Machines
<1>1. CASE UNCHANGED <<host, mem, used>>
  <2>1. failures' = failures \/ Failure
    BY CallStepFails
       DEF CallStep, StatusNext, _register_active_request, Route, Run, Finish,
           _record_edge_access, _unregister_active_request, Break, Repair, Load
  <2> QED
    BY <1>0, <1>1, <2>1, MetTyped DEF Machines
<1>2. ASSUME NEW q \in Requests, Run(q) PROVE Machines'
  <2>1. \A r : [used EXCEPT ![req[q].at][r] = "recent"]
                 \in [Nodes -> [Models -> {None, "recent", "old"}]]
    BY DEF Machines
  <2> QED
    BY <1>2, <2>1, MetTyped DEF Run, Machines
<1>3. ASSUME NEW p \in Parties, Break(p) PROVE Machines'
  <2>1. PICK s \in Troubles(p) : host' = [host EXCEPT ![p] = s]
    BY <1>3 DEF Break
  <2>2. host' \in [Parties -> Conditions]
    BY <2>1 DEF Troubles, Conditions, Machines
  <2> QED
    BY <1>0, <1>3, <2>2, MetTyped DEF Break, Machines
<1>4. ASSUME NEW p \in Parties, Repair(p) PROVE Machines'
  <2>1. host' \in [Parties -> Conditions]
    BY <1>4 DEF Repair, Conditions, Machines
  <2>2. mem' \in [Nodes -> [Models -> {"cold", "loading", "loaded"}]]
    BY <1>4 DEF Repair, Machines
  <2>3. used' \in [Nodes -> [Models -> {None, "recent", "old"}]]
    BY <1>4 DEF Repair, Machines
  <2> QED
    BY <1>4, <2>1, <2>2, <2>3, MetTyped DEF Repair, Machines
<1>5. ASSUME NEW n \in Nodes, NEW r \in Models, Load(n, r) PROVE Machines'
  <2>1. PICK s \in {"loading", "loaded"} : mem' = [mem EXCEPT ![n][r] = s]
    BY <1>5 DEF Load
  <2>2. mem' \in [Nodes -> [Models -> {"cold", "loading", "loaded"}]]
    BY <2>1 DEF Machines
  <2> QED
    BY <1>5, <2>2, MetTyped DEF Load, Machines
<1>6. \/ UNCHANGED <<host, mem, used>>
      \/ \E q \in Requests : Run(q)
      \/ \E p \in Parties : Break(p) \/ Repair(p)
      \/ \E n \in Nodes, r \in Models : Load(n, r)
  BY CallStepWorld
     DEF CallStep, StatusNext, world, _register_active_request, Route, Finish,
         _record_edge_access, _unregister_active_request
<1> QED
  BY <1>1, <1>2, <1>3, <1>4, <1>5, <1>6
-----------------------------------------------------------------------------
(* The call and its answer.                                                *)

Clis == {None, "asking", "answered", "failed", "shown"}

StageInv ==
  /\ call.stage \in Stages /\ call.cli \in Clis
  /\ call.stage \notin {None, "dead"} => Known(call.target)
  /\ payload # <<>> <=> call.stage = "done"
  /\ call.cli = "shown" <=> report # <<>>
  /\ call.cli = "shown" => call.stage = "done"

LEMMA AsksStage ==
  ASSUME CallInv, StageInv, Asks
  PROVE  StageInv'
<1> USE DEF Early, Later
<1>1. /\ UNCHANGED <<payload, report>> /\ call'.target = call.target
      /\ call.stage \notin {None, "dead", "done"}
  BY DEF Asks, Unread, None
<1>2. call.cli # "shown" /\ payload = <<>>
  BY <1>1 DEF StageInv
<1>3. CASE Goes_on
  <2>1. call'.cli = call.cli /\ call'.stage \in Early \union Later \union {"reply"}
    BY <1>3 DEF Goes_on
  <2>2. call'.stage \in Stages /\ call'.stage # "done"
    BY <2>1 DEF Stages
  <2> QED
    BY <1>1, <1>2, <2>1, <2>2 DEF StageInv, Known
<1>4. CASE Dies
  <2>1. call'.stage = "dead" /\ call'.cli \in {"failed", call.cli}
    BY <1>4 DEF Dies
  <2> QED
    BY <1>1, <1>2, <2>1 DEF StageInv, Stages, Clis
<1> QED
  BY <1>3, <1>4 DEF Asks

LEMMA ReplyStage ==
  ASSUME CallInv, StageInv, Reply
  PROVE  /\ StageInv' /\ call.stage = "reply" /\ call'.stage = "done"
         /\ call'.target = call.target /\ UNCHANGED <<seen, world, report, began, met>>
         /\ call'.late = call.late /\ call'.took >= call.took
         /\ call'.cli \in {call.cli, "answered"}
<1>1. call.stage = "reply" /\ UNCHANGED <<seen, world, report, began, met>>
  BY ReplyDoes DEF history
<1>2. PICK t \in {call.cli, "answered"} : Changes([stage |-> "done", cli |-> t])
  BY ReplyDoes
<1>3. /\ call'.cli = t /\ call'.stage = "done" /\ call'.target = call.target
      /\ call'.late = call.late /\ call'.took >= call.took
  BY <1>2, ChangeBoth DEF Changes
<1>4. payload' # <<>>
  <2>1. "active" \in DOMAIN payload'
    BY DEF Reply, build_edge_status_payload
  <2>2. DOMAIN <<>> = {}
    OBVIOUS
  <2> QED
    BY <2>1, <2>2
<1>5. call.cli # "shown" /\ report = <<>>
  BY <1>1 DEF StageInv
<1>6. call'.cli \in Clis /\ call'.cli # "shown"
  BY <1>2, <1>3, <1>5 DEF StageInv, Clis
<1>7. call'.stage \in Stages /\ Known(call'.target)
  BY <1>1, <1>3 DEF StageInv, Stages, Known, None
<1> QED
  BY <1>1, <1>3, <1>4, <1>5, <1>6, <1>7 DEF StageInv

LEMMA GiveUpStage ==
  ASSUME CallInv, StageInv, GiveUp
  PROVE  /\ StageInv' /\ call'.stage = call.stage /\ call'.at = call.at
         /\ call'.target = call.target /\ call'.left = call.left
         /\ call'.late = call.late /\ call'.took >= call.took
         /\ call.cli = "asking" /\ UNCHANGED <<seen, payload, world, report, began, met>>
<1>1. /\ call.cli = "asking" /\ Changes([cli |-> "failed"])
      /\ UNCHANGED <<seen, payload, world, report, began, met>>
  BY GiveUpDoes DEF history
<1>2. /\ call'.cli = "failed" /\ call'.left = call.left /\ call'.late = call.late
      /\ call'.stage = call.stage /\ call'.at = call.at /\ call'.target = call.target
      /\ call'.took >= call.took
  BY <1>1, ChangeCli DEF Changes
<1> QED
  BY <1>1, <1>2 DEF StageInv, Clis, None, Known

LEMMA PrintStage ==
  ASSUME CallInv, StageInv, _print_cluster_status
  PROVE  /\ StageInv' /\ call'.stage = call.stage /\ call'.at = call.at
         /\ call'.target = call.target /\ call'.left = call.left
         /\ call'.late = call.late /\ call'.took >= call.took /\ call'.cli = "shown"
         /\ UNCHANGED <<seen, payload, world, began, met>>
<1>1. /\ call.stage = "done" /\ Changes([cli |-> "shown"])
      /\ UNCHANGED <<seen, payload, world, began, met>>
  BY PrintDoes DEF CallInv, history
<1>2. /\ call'.cli = "shown" /\ call'.left = call.left /\ call'.late = call.late
      /\ call'.stage = call.stage /\ call'.at = call.at /\ call'.target = call.target
      /\ call'.took >= call.took
  BY <1>1, ChangeCli DEF Changes
<1>3. report' # <<>>
  <2>1. "users" \in DOMAIN report'
    BY DEF _print_cluster_status, _normalize_cluster_status_payload
  <2>2. DOMAIN <<>> = {}
    OBVIOUS
  <2> QED
    BY <2>1, <2>2
<1> QED
  BY <1>1, <1>2, <1>3 DEF StageInv, Clis, Known

LEMMA StartStage ==
  ASSUME CallInv, StageInv, cluster_status
  PROVE  /\ StageInv' /\ call.stage = None /\ call'.stage \in {"lookup", "dead"}
         /\ UNCHANGED <<seen, payload, report, world>>
<1>1. PICK t \in Targets :
       call' = [stage |-> IF Known(t) THEN "lookup" ELSE "dead",
                cli |-> IF Known(t) THEN "asking" ELSE "failed",
                target |-> t, left |-> {}, at |-> None, latest |-> 0, took |-> 0, late |-> 0]
  BY DEF cluster_status
<1>2. call.cli = None /\ call.stage = None /\ UNCHANGED <<seen, payload, report, world>>
  BY DEF cluster_status, CallInv, outputs
<1>3. payload = <<>> /\ report = <<>>
  BY <1>2 DEF StageInv, None
<1>4. /\ call'.stage \in {"lookup", "dead"} /\ call'.cli \in {"asking", "failed"}
      /\ (call'.stage = "lookup" => Known(call'.target))
  BY <1>1 DEF Known
<1> QED
  BY <1>2, <1>3, <1>4 DEF StageInv, Stages, Clis, Known

(* What was seen so far.                                                   *)
WellAnswered(x) == DOMAIN x = DOMAIN Silent /\ x.active \in Nat \union {-1}

SeenInv ==
  /\ DOMAIN seen \subseteq Nodes
  /\ call.stage \in {None} \union Early => DOMAIN seen = {}
  /\ call.stage \in Later \union {"reply", "done"} => DOMAIN seen \subseteq Asked
  /\ call.stage \in Later => call.at \in Asked
  /\ call.stage \in Later \ {"health"} => call.at \in DOMAIN seen
  /\ call.stage \in {"reply", "done"} => DOMAIN seen = Asked
  /\ \A n \in DOMAIN seen : WellAnswered(seen[n])

LEMMA AskedNodes ==
  ASSUME Known(call.target)
  PROVE  Asked \subseteq Nodes
BY DEF Asked, _resolve_status_targets, Known

LEMMA FirstIn ==
  ASSUME NEW S, S \subseteq Nodes \union Caches, S # {}
  PROVE  FirstOf(S) \in S
<1> DEFINE T == {Rank[n] : n \in S}
<1>1. T \subseteq Nat /\ T # {}
  BY StatusAssumption
<1>2. PICK k \in T : \A m \in T : k <= m
  <2> HIDE DEF T
  <2> QED
    BY <1>1, LeastOf
<1>3. \E n \in S : \A m \in S : Rank[n] <= Rank[m]
  BY <1>2
<1> QED
  BY <1>3 DEF FirstOf

(* The next node is asked, or there is none left.                          *)
LEMMA NextSeen ==
  ASSUME SeenInv, Known(call.target),
         DOMAIN seen \subseteq Asked, Changes(NextNode(Asked \ DOMAIN seen)), UNCHANGED seen
  PROVE  SeenInv'
<1> DEFINE S == Asked \ DOMAIN seen
<1>0. Asked \subseteq Nodes
  BY AskedNodes
<1>1. /\ call'.stage = (IF S = {} THEN "reply" ELSE "health")
      /\ S # {} => call'.at = FirstOf(S)
      /\ call'.target = call.target
  BY ChangeNext
<1>2. S # {} => FirstOf(S) \in S
  BY <1>0, FirstIn
<1>5. Asked' = Asked
  BY <1>1 DEF Asked
<1>6. CASE S = {}
  <2>1. call'.stage = "reply" /\ DOMAIN seen = Asked
    BY <1>1, <1>6
  <2> QED
    BY <1>5, <2>1 DEF SeenInv, Early, Later, None
<1>7. CASE S # {}
  <2>1. call'.stage = "health" /\ call'.at \in Asked
    BY <1>1, <1>2, <1>7
  <2> QED
    BY <1>5, <2>1 DEF SeenInv, Early, Later, None
<1> QED
  BY <1>6, <1>7

LEMMA DieSeen ==
  ASSUME SeenInv, NEW cause, Died(cause)
  PROVE  SeenInv' /\ seen' = seen
<1>1. call'.stage = "dead" /\ seen' = seen
  BY ChangeBoth DEF Died
<1> QED
  BY <1>1 DEF SeenInv, Early, Later, None

(* A count that was told is that of the requests that run.                 *)
ToldSo ==
  \A m \in DOMAIN seen' :
    \/ m \in DOMAIN seen /\ seen'[m].active = seen[m].active
    \/ seen'[m].active = -1
    \/ seen'[m].active = Cardinality(At(m, "running"))

LEMMA GetSeen ==
  ASSUME CallInv, SeenInv, NEW s \in Later, NEW t \in Later \ {"health"},
         NEW answer, Known(call.target), DOMAIN answer \subseteq DOMAIN Silent,
         "active" \in DOMAIN answer =>
           answer.active \in Nat /\ answer.active = Cardinality(At(call.at, "running")),
         Get(s, t, answer)
  PROVE  SeenInv' /\ ToldSo
<1> DEFINE n == call.at
           known == IF n \in DOMAIN seen THEN seen[n] ELSE Silent
           x == IF host[n] = "up" THEN Over(answer, known) ELSE known
<1>1. call.stage = s /\ seen' = Over([m \in {n} |-> x], seen)
  BY GetDoes DEF Learnt
<1>3. call'.stage = t /\ call'.at = call.at /\ call'.target = call.target
  BY GetDoes
<1>4. n \in Asked /\ DOMAIN seen \subseteq Asked /\ Asked' = Asked
  BY <1>1, <1>3 DEF SeenInv, Asked
<1>5. WellAnswered(known) /\ (n \notin DOMAIN seen => known.active = -1)
  <2>1. WellAnswered(Silent) /\ Silent.active = -1
    BY DEF WellAnswered, Silent
  <2> QED
    BY <2>1 DEF SeenInv
<1>6. /\ WellAnswered(x)
      /\ \/ x.active = known.active
         \/ x.active = Cardinality(At(n, "running"))
  <2>1. "active" \in DOMAIN Silent
    BY DEF Silent
  <2> HIDE DEF known
  <2>2. DOMAIN Over(answer, known) = DOMAIN Silent
    BY <1>5 DEF Over, WellAnswered
  <2>3. Over(answer, known)["active"] =
          IF "active" \in DOMAIN answer THEN answer["active"] ELSE known["active"]
    BY <1>5, <2>1 DEF Over, WellAnswered
  <2>4. WellAnswered(Over(answer, known))
    BY <1>5, <2>2, <2>3 DEF WellAnswered
  <2> QED
    BY <1>5, <2>3, <2>4
<1> HIDE DEF x
<1>7. /\ DOMAIN seen' = DOMAIN seen \union {n}
      /\ seen'[n] = x /\ \A m \in DOMAIN seen : m # n => seen'[m] = seen[m]
  BY <1>1 DEF Over
<1>8. ToldSo
  BY <1>5, <1>6, <1>7 DEF ToldSo
<1>9. DOMAIN seen' \subseteq Nodes
  <2>1. n \in Nodes
    BY <1>4, AskedNodes
  <2> QED
    BY <1>7, <2>1 DEF SeenInv
<1>10. \A m \in DOMAIN seen' : WellAnswered(seen'[m])
  BY <1>6, <1>7 DEF SeenInv
<1> QED
  BY <1>3, <1>4, <1>7, <1>8, <1>9, <1>10 DEF SeenInv, Early, Later, None

LEMMA PollSeen ==
  ASSUME CallInv, StageInv, SeenInv, Polling, ~Reply
  PROVE  SeenInv' /\ ToldSo /\ UNCHANGED <<began, req>>
<1>k. call.stage \in Early \union Later => Known(call.target)
  BY DEF StageInv, Early, Later, None
<1>s. seen' = seen => ToldSo
  BY DEF ToldSo
<1>c. \A n : Cardinality(At(n, "running")) \in Nat
  BY StatusAssumption, FS_Subset, FS_CardinalityType DEF At
<1>u. UNCHANGED <<began, req>>
  BY PollAsks DEF Asks, Unread, world, history
<1>1. CASE _latest_release_versions
  <2>1. PICK v : /\ call.stage = "lookup" /\ UNCHANGED seen
                 /\ Changes(Over([latest |-> v],
                                 [stage |-> IF Plan.gateway THEN "gateway" ELSE "caches",
                                  left |-> Plan.caches]))
    BY <1>1, LookupDoes
  <2>2. call'.stage \in {"gateway", "caches"}
    BY <2>1, ChangeLookup
  <2>3. SeenInv'
    BY <2>1, <2>2 DEF SeenInv, Early, Later, None
  <2> QED
    BY <1>s, <1>u, <2>1, <2>3
<1>2. CASE _gateway_olla_version
  <2>0. call.stage = "gateway"
    BY <1>2, GatewayDoes
  <2>1. CASE Died(host[Olla] # "up")
    BY <1>s, <1>u, <2>1, DieSeen
  <2>2. CASE Changes([stage |-> "caches"]) /\ seen' = seen
    <3>1. call'.stage = "caches"
      BY <2>2, ChangeStage
    <3> QED
      BY <1>s, <1>u, <2>0, <2>2, <3>1 DEF SeenInv, Early, Later, None
  <2> QED
    BY <1>2, <2>1, <2>2, GatewayDoes
<1>3. CASE CacheVersions
  <2>1. call.stage = "caches" /\ DOMAIN seen = {} /\ Known(call.target)
    BY <1>3, <1>k, CachesDoes DEF SeenInv, Early
  <2>2. CASE Died(call.left # {} /\ host[FirstOf(call.left)] = "lost")
    BY <1>s, <1>u, <2>2, DieSeen
  <2>3. CASE Changes(NextNode(Asked)) /\ seen' = seen
    <3>1. Asked \ DOMAIN seen = Asked /\ DOMAIN seen \subseteq Asked
      BY <2>1
    <3> QED
      BY <1>s, <1>u, <2>1, <2>3, <3>1, NextSeen
  <2>4. CASE Changes([left |-> call.left \ {FirstOf(call.left)}]) /\ seen' = seen
    <3>1. call'.stage = call.stage /\ seen' = seen
      BY <2>4, ChangeLeft
    <3> QED
      BY <1>s, <1>u, <2>1, <3>1 DEF SeenInv, Early, Later, None
  <2> QED
    BY <1>3, <2>2, <2>3, <2>4, CachesDoes
<1>4. CASE Health
  <2>1. Get("health", "models", [health |-> TRUE]) /\ call.stage = "health"
    BY <1>4 DEF Health, Get, Handler
  <2> QED
    BY <1>k, <1>u, <2>1, GetSeen DEF Later, Silent
<1>5. CASE ListOf
  <2>1. Get("models", "statuses", [models |-> TRUE]) /\ call.stage = "models"
    BY <1>5 DEF ListOf, Get, Handler
  <2> QED
    BY <1>k, <1>u, <2>1, GetSeen DEF Later, Silent
<1>6. CASE Statuses
  <2>1. PICK a : Get("statuses", "activity", [statuses |-> a]) /\ call.stage = "statuses"
    BY <1>6 DEF Statuses, Get, Handler
  <2> QED
    BY <1>k, <1>u, <2>1, GetSeen DEF Later, Silent
<1>7. CASE Activity
  <2> DEFINE answer(a, b) == [active |-> a, waiting |-> b]
  <2>1. PICK a, b : /\ a = Cardinality(At(call.at, "running"))
                    /\ Get("activity", "omlx", answer(a, b)) /\ call.stage = "activity"
    BY <1>7 DEF Activity, Get, Handler
  <2>2. DOMAIN answer(a, b) = {"active", "waiting"} /\ answer(a, b).active = a
    OBVIOUS
  <2> HIDE DEF answer
  <2>3. DOMAIN answer(a, b) \subseteq DOMAIN Silent
    BY <2>2 DEF Silent
  <2> QED
    BY <1>c, <1>k, <1>u, <2>1, <2>2, <2>3, GetSeen DEF Later
<1>8. CASE _omlx_version
  <2>1. CASE Died(host[call.at] = "lost")
    BY <1>s, <1>u, <2>1, DieSeen
  <2>2. CASE /\ Changes([stage |-> "macos"])
             /\ seen' = seen \/ \E v : seen' = [seen EXCEPT ![call.at].version = v]
    <3>1. /\ call'.stage = "macos" /\ call.stage = "omlx" /\ call'.at = call.at
          /\ call'.target = call.target
      BY <1>8, <2>2, ChangeStage, OmlxDoes
    <3>2. seen' = seen \/ \E v : seen' = [seen EXCEPT ![call.at].version = v]
      BY <2>2
    <3>3. DOMAIN seen' = DOMAIN seen /\ Asked' = Asked
      BY <3>1, <3>2 DEF Asked
    <3>4. \A m \in DOMAIN seen : WellAnswered(seen'[m]) /\ seen'[m].active = seen[m].active
      <4>1. ASSUME NEW m \in DOMAIN seen, NEW v
            PROVE  LET x == [seen[m] EXCEPT !.version = v]
                   IN DOMAIN x = DOMAIN seen[m] /\ x.active = seen[m].active
        BY DEF SeenInv, WellAnswered, Silent
      <4>2. \A m \in DOMAIN seen :
              seen'[m] = seen[m] \/ \E v : seen'[m] = [seen[m] EXCEPT !.version = v]
        BY <3>2
      <4>3. \A m \in DOMAIN seen :
              DOMAIN seen'[m] = DOMAIN seen[m] /\ seen'[m].active = seen[m].active
        <5> SUFFICES ASSUME NEW m \in DOMAIN seen
                     PROVE  DOMAIN seen'[m] = DOMAIN seen[m] /\ seen'[m].active = seen[m].active
          OBVIOUS
        <5>1. ASSUME NEW v, seen'[m] = [seen[m] EXCEPT !.version = v]
              PROVE  DOMAIN seen'[m] = DOMAIN seen[m] /\ seen'[m].active = seen[m].active
          <6> DEFINE x == [seen[m] EXCEPT !.version = v]
          <6>1. DOMAIN x = DOMAIN seen[m] /\ x.active = seen[m].active
            BY <4>1
          <6>2. seen'[m] = x
            BY <5>1
          <6> HIDE DEF x
          <6> QED
            BY <6>1, <6>2
        <5> QED
          BY <4>2, <5>1
      <4> QED
        BY <4>3 DEF SeenInv, WellAnswered
    <3>5. ToldSo
      BY <3>3, <3>4 DEF ToldSo
    <3> QED
      BY <1>u, <3>1, <3>3, <3>4, <3>5 DEF SeenInv, Early, Later, None
  <2> QED
    BY <1>8, <2>1, <2>2, OmlxDoes
<1>9. CASE _macos_version
  <2>1. CASE Died(host[call.at] = "lost")
    BY <1>s, <1>u, <2>1, DieSeen
  <2>2. CASE Changes(NextNode(Asked \ DOMAIN seen)) /\ seen' = seen
    <3>1. Known(call.target) /\ DOMAIN seen \subseteq Asked
      BY <1>9, <1>k, MacosDoes DEF SeenInv, Later
    <3> QED
      BY <1>s, <1>u, <2>2, <3>1, NextSeen
  <2> QED
    BY <1>9, <2>1, <2>2, MacosDoes
<1> QED
  BY <1>1, <1>2, <1>3, <1>4, <1>5, <1>6, <1>7, <1>8, <1>9 DEF Polling
-----------------------------------------------------------------------------
(* The requests that ran throughout the call, and what was told of them.   *)

AtNode(n) == {q \in began : req[q].at = n}

LongInv ==
  /\ began \subseteq Requests
  /\ \A q \in began : /\ req[q].at \in Nodes /\ Alias[q] \in Serves[req[q].at]
                      /\ req[q].st \in Ran /\ (payload = <<>> => req[q].st = "running")
  /\ \A n \in DOMAIN seen : seen[n].active >= 0 => seen[n].active >= Cardinality(AtNode(n))

LEMMA LongPoll ==
  ASSUME ReqInv, LongInv, ToldSo, payload = <<>>, UNCHANGED <<began, req, payload>>
  PROVE  LongInv'
<1>1. ASSUME NEW n \in DOMAIN seen', seen'[n].active >= 0
      PROVE  seen'[n].active >= Cardinality(AtNode(n)')
  <2>1. AtNode(n)' = AtNode(n)
    BY DEF AtNode
  <2>2. CASE n \in DOMAIN seen /\ seen'[n].active = seen[n].active
    BY <1>1, <2>1, <2>2 DEF LongInv
  <2>3. CASE seen'[n].active = Cardinality(At(n, "running"))
    <3>1. AtNode(n) \subseteq At(n, "running")
      <4>1. \A q \in began : /\ q \in Requests /\ req[q].st = "running"
                             /\ req[q] \in [st : {"new", "registered", "waiting"} \union Ran,
                                            at : Nodes \union {None}]
        BY DEF LongInv, ReqInv
      <4> QED
        BY <4>1 DEF AtNode, At
    <3>2. IsFiniteSet(At(n, "running"))
      BY StatusAssumption, FS_Subset DEF At
    <3>3. Cardinality(AtNode(n)) <= Cardinality(At(n, "running"))
      BY <3>1, <3>2, FS_Subset
    <3> QED
      BY <2>1, <2>3, <3>2, <3>1, <3>3, FS_Subset, FS_CardinalityType
  <2>4. seen'[n].active # -1
    BY <1>1
  <2> QED
    BY <2>2, <2>3, <2>4 DEF ToldSo
<1> QED
  BY <1>1 DEF LongInv

LEMMA LongMoves ==
  ASSUME ReqInv, LongInv, SeenInv, Onward, NEW k, Moves(k)
  PROVE  LongInv'
<1>1. /\ began' = IF payload = <<>> THEN {q \in began : req'[q].st = "running"} ELSE began
      /\ UNCHANGED <<seen, payload>>
  BY DEF Moves, outputs, history
<1>2. began' \subseteq began /\ began \subseteq Requests
  BY <1>1 DEF LongInv
<1>3. \A q \in began : req'[q].at = req[q].at /\ req'[q].st \in Ran
  BY <1>2 DEF LongInv, Onward
<1>4. ASSUME NEW n \in DOMAIN seen, seen[n].active >= 0
      PROVE  seen[n].active >= Cardinality(AtNode(n)')
  <2>1. AtNode(n)' \subseteq AtNode(n)
    BY <1>2, <1>3 DEF AtNode
  <2>2. AtNode(n) \subseteq Requests
    BY <1>2 DEF AtNode
  <2>3. /\ IsFiniteSet(AtNode(n)) /\ Cardinality(AtNode(n)) \in Nat
        /\ Cardinality(AtNode(n)') \in Nat
        /\ Cardinality(AtNode(n)') <= Cardinality(AtNode(n))
    BY <2>1, <2>2, StatusAssumption, FS_Subset, FS_CardinalityType
  <2>4. seen[n].active \in Nat \union {-1} /\ seen[n].active >= Cardinality(AtNode(n))
    BY <1>4 DEF LongInv, SeenInv, WellAnswered
  <2> QED
    BY <2>3, <2>4
<1>5. \A q \in began' : /\ req'[q].at \in Nodes /\ Alias[q] \in Serves[req'[q].at]
                        /\ req'[q].st \in Ran /\ (payload' = <<>> => req'[q].st = "running")
  BY <1>1, <1>2, <1>3 DEF LongInv
<1> QED
  BY <1>1, <1>2, <1>4, <1>5 DEF LongInv

LEMMA LongStart ==
  ASSUME CallInv, StageInv, ReqInv, SeenInv, cluster_status
  PROVE  LongInv' /\ SeenInv'
<1>1. /\ call.stage = None /\ call'.stage \in {"lookup", "dead"}
      /\ UNCHANGED <<seen, payload, report, world>>
  BY StartStage
<1>2. DOMAIN seen = {}
  BY <1>1 DEF SeenInv
<1>3. began' = {q \in Requests : req[q].st = "running"} /\ req' = req
  BY <1>1 DEF cluster_status, world
<1>4. SeenInv'
  BY <1>1, <1>2 DEF SeenInv, Early, Later, None
<1>5. LongInv'
  BY <1>1, <1>2, <1>3 DEF LongInv, ReqInv, Ran, Placed
<1> QED
  BY <1>4, <1>5

(* The answer counts what was told, and lists what the registry held; the  *)
(* report names the users the answer gives.                                *)
UsersShown == [row \in Rows |-> _active_model_users(row[1], row[2])]

PayInv ==
  /\ call.stage = "done" =>
       /\ payload.active = ActiveRequests /\ payload.traffic = Traffic
       /\ payload.stale \in Nat /\ began \subseteq payload.requests
  /\ report # <<>> => report.users = UsersShown

LEMMA StaleCounts ==
  ASSUME Asked \subseteq Nodes
  PROVE  Cardinality(RowsIn("loaded")) - Cardinality(LoadedFor({"recent"})) \in Nat
<1>1. IsFiniteSet(Asked) /\ IsFiniteSet(Models)
  <2> DEFINE f == [a \in Aliases |-> Runtime[a]]
  <2>1. f \in Surjection(Aliases, Models)
    BY DEF Surjection, Models
  <2> HIDE DEF f
  <2>2. IsFiniteSet(Models)
    BY <2>1, StatusAssumption, FS_Surjection
  <2> QED
    BY <2>2, StatusAssumption, FS_Subset
<1>2. IsFiniteSet(Asked \X Models)
  BY <1>1, FS_Product
<1>3. RowsIn("loaded") \subseteq Asked \X Models
  BY DEF RowsIn, Rows
<1>4. LoadedFor({"recent"}) \subseteq RowsIn("loaded")
  BY DEF LoadedFor
<1>5. IsFiniteSet(RowsIn("loaded"))
  BY <1>2, <1>3, FS_Subset
<1>6. /\ Cardinality(RowsIn("loaded")) \in Nat
      /\ Cardinality(LoadedFor({"recent"})) \in Nat
      /\ Cardinality(LoadedFor({"recent"})) <= Cardinality(RowsIn("loaded"))
  BY <1>4, <1>5, FS_Subset, FS_CardinalityType
<1> QED
  BY <1>6

LEMMA PayReply ==
  ASSUME CallInv, StageInv, ReqInv, SeenInv, LongInv, PayInv, Reply
  PROVE  PayInv' /\ SeenInv' /\ LongInv'
<1>1. /\ call.stage = "reply" /\ call'.stage = "done" /\ call'.target = call.target
      /\ UNCHANGED <<seen, world, report, began>>
  BY ReplyStage
<1>2. Asked' = Asked /\ Asked \subseteq Nodes /\ payload = <<>> /\ report = <<>>
  BY <1>1, AskedNodes DEF Asked, StageInv, None
<1>3. ActiveRequests' = ActiveRequests /\ Traffic' = Traffic
  BY <1>1, <1>2 DEF ActiveRequests, Traffic, Told
<1>4. /\ payload'.active = ActiveRequests /\ payload'.traffic = Traffic
      /\ payload'.stale = Cardinality(RowsIn("loaded")) - Cardinality(LoadedFor({"recent"}))
      /\ payload'.requests = registry
  BY DEF Reply, build_edge_status_payload
<1>5. began \subseteq registry
  BY <1>2 DEF LongInv, ReqInv, Listed
<1>6. PayInv'
  BY <1>1, <1>2, <1>3, <1>4, <1>5, StaleCounts DEF PayInv
<1>7. SeenInv'
  BY <1>1, <1>2 DEF SeenInv, Early, Later, None
<1>8. LongInv'
  <2>1. req' = req
    BY <1>1 DEF world
  <2> QED
    BY <1>1, <1>2, <2>1 DEF LongInv, AtNode
<1> QED
  BY <1>6, <1>7, <1>8

(* Steps that leave the answer as it is.                                   *)
LEMMA PaySame ==
  ASSUME PayInv, SeenInv, UNCHANGED <<seen, payload>>, began' \subseteq began,
         call'.stage = call.stage, call'.target = call.target, call'.at = call.at
  PROVE  /\ SeenInv' /\ UsersShown' = UsersShown
         /\ report' = report => PayInv'
<1>1. Asked' = Asked
  BY DEF Asked
<1>2. ActiveRequests' = ActiveRequests /\ Traffic' = Traffic /\ Rows' = Rows
  BY <1>1 DEF ActiveRequests, Traffic, Told, Rows
<1>3. UsersShown' = UsersShown
  BY <1>1, <1>2 DEF UsersShown, _active_model_users
<1>4. report' = report => PayInv'
  BY <1>2, <1>3 DEF PayInv
<1>5. SeenInv'
  BY <1>1 DEF SeenInv
<1> QED
  BY <1>3, <1>4, <1>5

LEMMA PayPrint ==
  ASSUME CallInv, StageInv, SeenInv, LongInv, PayInv, _print_cluster_status
  PROVE  PayInv' /\ SeenInv' /\ LongInv'
<1>1. /\ call'.stage = call.stage /\ call'.target = call.target /\ call'.at = call.at
      /\ UNCHANGED <<seen, payload, world, began>>
  BY PrintStage
<1>2. PICK v : report' = _normalize_cluster_status_payload(v)
  BY DEF _print_cluster_status
<1>3. report'.users = UsersShown
  BY <1>2 DEF _normalize_cluster_status_payload, UsersShown
<1>4. Asked' = Asked
  BY <1>1 DEF Asked
<1>5. ActiveRequests' = ActiveRequests /\ Traffic' = Traffic
  BY <1>1, <1>4 DEF ActiveRequests, Traffic, Told
<1>6. SeenInv' /\ UsersShown' = UsersShown
  BY <1>1, PaySame
<1>7. PayInv'
  BY <1>1, <1>3, <1>5, <1>6 DEF PayInv
<1>8. LongInv'
  BY <1>1 DEF LongInv, AtNode, world
<1> QED
  BY <1>6, <1>7, <1>8

CallAndWorld == StageInv /\ ReqInv /\ SeenInv /\ LongInv /\ PayInv

LEMMA CallAndWorldKeep ==
  ASSUME CallInv, CallAndWorld, [StatusNext]_statusVars
  PROVE  CallAndWorld'
<1> USE DEF CallAndWorld
<1>r. UNCHANGED <<req, registry>> => ReqInv'
  BY DEF ReqInv
<1>1. CASE cluster_status
  <2>1. /\ StageInv' /\ call.stage = None /\ call'.stage # "done"
        /\ UNCHANGED <<seen, payload, report, world>>
    BY <1>1, StartStage
  <2>2. report = <<>>
    BY <2>1 DEF StageInv, None
  <2> QED
    BY <1>1, <1>r, <2>1, <2>2, LongStart DEF PayInv, world
<1>2. CASE Polling /\ ~Reply
  <2>1. Asks /\ StageInv'
    BY <1>2, PollAsks, AsksStage
  <2>2. SeenInv' /\ ToldSo /\ UNCHANGED <<began, req>>
    BY <1>2, PollSeen
  <2>3. /\ UNCHANGED <<world, payload, report>> /\ call.stage \notin {"done", None}
        /\ call'.stage # "done"
    BY <2>1 DEF Asks, Unread, Goes_on, Dies, Early, Later, None
  <2>4. payload = <<>> /\ report = <<>>
    BY <2>3 DEF StageInv
  <2>5. LongInv'
    BY <2>2, <2>3, <2>4, LongPoll
  <2> QED
    BY <1>r, <2>1, <2>2, <2>3, <2>4, <2>5 DEF PayInv, world
<1>3. CASE Reply
  BY <1>3, <1>r, ReplyStage, PayReply DEF world
<1>4. CASE GiveUp
  <2>1. /\ StageInv' /\ call'.stage = call.stage /\ call'.at = call.at
        /\ call'.target = call.target /\ UNCHANGED <<seen, payload, world, report, began>>
    BY <1>4, GiveUpStage
  <2>2. LongInv'
    BY <2>1 DEF LongInv, AtNode, world
  <2> QED
    BY <1>r, <2>1, <2>2, PaySame DEF world
<1>5. CASE _print_cluster_status
  BY <1>5, <1>r, PrintStage, PayPrint DEF world
<1>6. ASSUME NEW k, Moves(k), ReqInv', Onward PROVE CallAndWorld'
  <2>1. UNCHANGED <<call, seen, payload, report>> /\ began' \subseteq began
    BY <1>6 DEF Moves, outputs, history
  <2>2. StageInv'
    BY <2>1 DEF StageInv, Known
  <2> QED
    BY <1>6, <2>1, <2>2, LongMoves, PaySame
<1>7. CASE RequestStep
  BY <1>6, <1>7, RequestKeeps
     DEF RequestStep, _register_active_request, Route, Run, Finish, _record_edge_access,
         _unregister_active_request, World
<1>8. CASE MachineStep
  BY <1>6, <1>8, MachineKeeps DEF MachineStep, Break, Repair, Load, World
<1>9. CASE UNCHANGED statusVars
  <2>1. UNCHANGED <<call, seen, payload, report, began, req, registry>>
    BY <1>9 DEF statusVars, outputs, world, history
  <2>2. StageInv' /\ LongInv'
    BY <2>1 DEF StageInv, Known, LongInv, AtNode
  <2> QED
    BY <1>r, <2>1, <2>2, PaySame
<1> QED
  BY <1>1, <1>2, <1>3, <1>4, <1>5, <1>7, <1>8, <1>9 DEF StatusNext, RequestStep, MachineStep

-----------------------------------------------------------------------------
(* How the parties were while the call was answered, and what was told.    *)

PartiesInv ==
  /\ host[Olla] \in {"up", "wedged"}
  /\ call.cli # None /\ payload = <<>> => \A p \in Parties : host[p] \in met[p]
  /\ call.cli = "asking" => call.stage \notin {None, "dead"}
  /\ call.stage \in {"gateway", "caches"} => call.left \subseteq Plan.caches
  /\ call.stage = "gateway" => Plan.gateway

(* The nodes of S that hung at some time, and how many of its four GETs a  *)
(* node has behind it: no more of them timed out than these make up.       *)
Hung(S) == {n \in S : met[n] \cap {"wedged", "lost"} # {}}

Turn == [s \in Later |->
  CASE s = "health" -> 0 [] s = "models" -> 1 [] s = "statuses" -> 2 [] s = "activity" -> 3
    [] OTHER -> 4]

LateInv ==
  /\ call.stage \in Early => call.late = 0
  /\ call.stage \in Later =>
       call.late <= 4 * Cardinality(Hung(DOMAIN seen \ {call.at}))
                    + (IF call.at \in Hung(Asked) THEN Turn[call.stage] ELSE 0)
  /\ call.stage \in {"reply", "done"} => call.late <= 4 * Cardinality(Hung(Asked))

(* A node never up told no health; one always up told what it was asked.   *)
TellInv ==
  \A n \in DOMAIN seen :
    /\ "up" \notin met[n] => seen[n].health = FALSE
    /\ met[n] = {"up"} /\ call.stage \in Later \union {"reply", "done"} =>
         /\ seen[n].health = TRUE
         /\ \/ n = call.at /\ call.stage = "models"
            \/ seen[n].models = TRUE
         /\ \/ n = call.at /\ call.stage \in {"models", "statuses", "activity"}
            \/ seen[n].active # -1

Reason ==
  \/ \E m \in Asked \union Plan.caches : "lost" \in met[m]
  \/ Plan.gateway /\ "wedged" \in met[Olla]
  \/ call.took + 4 * CallTimeout * Cardinality(Hung(Asked)) >= Patience

ReasonInv == call.cli = "failed" /\ Known(call.target) => Reason

MetInv == PartiesInv /\ LateInv /\ TellInv /\ ReasonInv

LEMMA PlanIn ==
  ASSUME Known(call.target)
  PROVE  /\ Asked \subseteq Parties /\ Plan.caches \subseteq Caches
         /\ Plan.caches \subseteq Parties /\ Olla \in Parties
BY DEF Asked, Plan, _resolve_status_targets, Known, Parties

LEMMA HungGrows ==
  ASSUME NEW S, S \subseteq Nodes, \A p \in Nodes : met[p] \subseteq met'[p]
  PROVE  /\ IsFiniteSet(Hung(S)) /\ Cardinality(Hung(S)) \in Nat
         /\ Cardinality({n \in S : met'[n] \cap {"wedged", "lost"} # {}}) \in Nat
         /\ Cardinality(Hung(S)) <= Cardinality({n \in S : met'[n] \cap {"wedged", "lost"} # {}})
<1> DEFINE more == {n \in S : met'[n] \cap {"wedged", "lost"} # {}}
<1>1. Hung(S) \subseteq more
  BY DEF Hung
<1>2. IsFiniteSet(more)
  BY StatusAssumption, FS_Subset
<1> QED
  BY <1>1, <1>2, FS_Subset, FS_CardinalityType

LEMMA HungCounts ==
  ASSUME NEW S, S \subseteq Nodes, NEW T, T \subseteq S
  PROVE  /\ IsFiniteSet(Hung(S)) /\ Cardinality(Hung(S)) \in Nat
         /\ Cardinality(Hung(T)) \in Nat
         /\ Cardinality(Hung(T)) <= Cardinality(Hung(S))
         /\ \A x \in S \ T : x \in Hung(S) => Cardinality(Hung(T)) + 1 <= Cardinality(Hung(S))
<1>1. IsFiniteSet(Hung(S))
  BY StatusAssumption, FS_Subset DEF Hung
<1>2. Hung(T) \subseteq Hung(S)
  BY DEF Hung
<1>3. IsFiniteSet(Hung(T)) /\ Cardinality(Hung(T)) <= Cardinality(Hung(S))
  BY <1>1, <1>2, FS_Subset
<1>4. ASSUME NEW x \in S \ T, x \in Hung(S)
      PROVE  Cardinality(Hung(T)) + 1 <= Cardinality(Hung(S))
  <2>1. x \notin Hung(T)
    BY <1>4 DEF Hung
  <2>2. Cardinality(Hung(T) \union {x}) = Cardinality(Hung(T)) + 1
    BY <1>3, <2>1, FS_AddElement
  <2>3. Hung(T) \union {x} \subseteq Hung(S)
    BY <1>2, <1>4
  <2>4. Cardinality(Hung(T) \union {x}) <= Cardinality(Hung(S))
    BY <1>1, <2>3, FS_Subset
  <2> QED
    BY <2>2, <2>4
<1> QED
  BY <1>1, <1>3, <1>4, FS_CardinalityType

LEMMA TimesLess ==
  ASSUME NEW k \in Nat, NEW x \in Nat, NEW y \in Nat, x <= y
  PROVE  k * x \in Nat /\ k * y \in Nat /\ k * x <= k * y
<1>1. PICK d \in Nat : y = x + d
  <2>1. y - x \in Nat /\ y = x + (y - x)
    OBVIOUS
  <2> QED
    BY <2>1
<1>2. k * y = k * x + k * d /\ k * x \in Nat /\ k * d \in Nat
  BY <1>1
<1> QED
  BY <1>2

LEMMA ReasonStays ==
  ASSUME Reason, Known(call.target), call'.target = call.target,
         call.took \in Nat, call'.took \in Nat, call'.took >= call.took,
         \A p \in Parties : met[p] \subseteq met'[p]
  PROVE  Reason'
<1>1. Asked' = Asked /\ Plan' = Plan /\ Asked \subseteq Nodes
  BY AskedNodes DEF Asked, Plan
<1>2. CASE \E m \in Asked \union Plan.caches : "lost" \in met[m]
  BY <1>1, <1>2, PlanIn DEF Reason
<1>3. CASE Plan.gateway /\ "wedged" \in met[Olla]
  BY <1>1, <1>3, PlanIn DEF Reason
<1>4. CASE call.took + 4 * CallTimeout * Cardinality(Hung(Asked)) >= Patience
  <2>1. \A p \in Nodes : met[p] \subseteq met'[p]
    BY DEF Parties
  <2>2. PICK x, y : x = Cardinality(Hung(Asked)) /\ y = Cardinality(Hung(Asked))'
    OBVIOUS
  <2>3. x \in Nat /\ y \in Nat /\ x <= y
    BY <1>1, <2>1, <2>2, HungGrows DEF Hung
  <2>4. PICK k : k = 4 * CallTimeout
    OBVIOUS
  <2>5. k \in Nat /\ Patience \in Nat
    BY <2>4, StatusAssumption
  <2>6. k * x \in Nat /\ k * y \in Nat /\ k * x <= k * y
    BY <2>3, <2>5, TimesLess
  <2>7. call.took + k * x >= Patience
    BY <1>4, <2>2, <2>4
  <2>8. call'.took + k * y >= Patience
    BY <2>5, <2>6, <2>7
  <2> QED
    BY <2>2, <2>4, <2>8 DEF Reason
<1> QED
  BY <1>2, <1>3, <1>4 DEF Reason

(* The timeouts so far, at any stage of a call under way.                  *)
LEMMA LateBound ==
  ASSUME StageInv, SeenInv, LateInv, CallInv, call.stage \notin {None, "dead"}
  PROVE  call.late <= 4 * Cardinality(Hung(Asked)) /\ Cardinality(Hung(Asked)) \in Nat
<1>1. Asked \subseteq Nodes
  BY AskedNodes DEF StageInv
<1>2. Cardinality(Hung(Asked)) \in Nat
  BY <1>1, HungCounts
<1>3. CASE call.stage \in Early
  BY <1>2, <1>3 DEF LateInv
<1>4. CASE call.stage \in {"reply", "done"}
  BY <1>2, <1>4 DEF LateInv
<1>5. CASE call.stage \in Later
  <2> DEFINE T == DOMAIN seen \ {call.at}
  <2>1. T \subseteq Asked /\ call.at \in Asked \ T
    BY <1>5 DEF SeenInv
  <2>2. /\ Cardinality(Hung(T)) \in Nat
        /\ Cardinality(Hung(T)) <= Cardinality(Hung(Asked))
        /\ call.at \in Hung(Asked) => Cardinality(Hung(T)) + 1 <= Cardinality(Hung(Asked))
    BY <1>1, <2>1, HungCounts
  <2>3. Turn[call.stage] \in 0..4
    BY <1>5 DEF Turn, Later
  <2>4. call.late <= 4 * Cardinality(Hung(T))
                     + (IF call.at \in Hung(Asked) THEN Turn[call.stage] ELSE 0)
    BY <1>5 DEF LateInv
  <2>5. call.late \in Nat
    BY DEF CallInv
  <2> HIDE DEF T
  <2> QED
    BY <1>2, <2>2, <2>3, <2>4, <2>5
<1> QED
  BY <1>3, <1>4, <1>5 DEF StageInv, Stages, Early, Later

(* A step of the handler: why it died, if it did.                          *)
LEMMA PollReason ==
  ASSUME CallInv, StageInv, SeenInv, PartiesInv, Polling, ~Reply
  PROVE  \/ call'.cli = call.cli /\ call'.stage # "dead"
         \/ Reason /\ call'.cli # "asking"
<1>k. call.stage \in Early \union Later =>
        /\ Known(call.target) /\ payload = <<>> /\ call.cli # None
        /\ \A p \in Parties : host[p] \in met[p]
  BY DEF StageInv, Early, Later, None, PartiesInv, CallInv
<1>d. ASSUME NEW cause, Died(cause)
      PROVE  call'.cli # "asking"
  <2>1. call'.cli = (IF call.cli = "asking" THEN "failed" ELSE call.cli)
    BY <1>d, ChangeBoth DEF Died
  <2> QED
    BY <2>1
<1>1. CASE _latest_release_versions
  <2>1. PICK v : Changes(Over([latest |-> v],
                              [stage |-> IF Plan.gateway THEN "gateway" ELSE "caches",
                               left |-> Plan.caches]))
    BY <1>1, LookupDoes
  <2> QED
    BY <2>1, ChangeLookup DEF Keeps
<1>2. CASE _gateway_olla_version
  <2>1. call.stage = "gateway"
    BY <1>2, GatewayDoes
  <2>2. CASE Changes([stage |-> "caches"])
    BY <2>2, ChangeStage DEF Keeps
  <2>3. CASE Died(host[Olla] # "up")
    <3>1. host[Olla] = "wedged"
      BY <2>3 DEF Died, PartiesInv
    <3>2. Plan.gateway /\ "wedged" \in met[Olla]
      BY <1>k, <2>1, <3>1 DEF PartiesInv, Early, Parties
    <3> QED
      BY <1>d, <2>3, <3>2 DEF Reason
  <2> QED
    BY <1>2, <2>2, <2>3, GatewayDoes
<1>3. CASE CacheVersions
  <2>1. call.stage = "caches"
    BY <1>3, CachesDoes
  <2>2. CASE Changes(NextNode(Asked))
    BY <2>2, ChangeNext DEF Keeps
  <2>3. CASE Changes([left |-> call.left \ {FirstOf(call.left)}])
    BY <2>1, <2>3, ChangeLeft DEF Keeps
  <2>4. CASE Died(call.left # {} /\ host[FirstOf(call.left)] = "lost")
    <3>1. /\ call.left # {} /\ host[FirstOf(call.left)] = "lost"
          /\ call.left \subseteq Plan.caches
      BY <2>1, <2>4 DEF Died, PartiesInv
    <3>2. Known(call.target) /\ Plan.caches \subseteq Caches /\ Plan.caches \subseteq Parties
      BY <1>k, <2>1, PlanIn DEF Early
    <3>3. FirstOf(call.left) \in call.left
      BY <3>1, <3>2, FirstIn
    <3>4. FirstOf(call.left) \in Plan.caches /\ "lost" \in met[FirstOf(call.left)]
      BY <1>k, <2>1, <3>1, <3>2, <3>3 DEF Early
    <3> QED
      BY <1>d, <2>4, <3>4 DEF Reason
  <2> QED
    BY <1>3, <2>2, <2>3, <2>4, CachesDoes
<1>4. ASSUME NEW s \in Later, NEW t \in Later, NEW a, Get(s, t, a)
      PROVE  call'.cli = call.cli /\ call'.stage # "dead"
  BY <1>4, GetDoes DEF Later
<1>5. CASE Health \/ ListOf \/ Statuses \/ Activity
  BY <1>4, <1>5 DEF Health, ListOf, Statuses, Activity, Later
<1>l. ASSUME call.stage \in Later, Died(host[call.at] = "lost")
      PROVE  Reason
  <2>1. call.at \in Asked /\ Known(call.target) /\ host[call.at] = "lost"
    BY <1>k, <1>l DEF SeenInv, Died
  <2>2. "lost" \in met[call.at]
    BY <1>k, <1>l, <2>1, PlanIn
  <2> QED
    BY <2>1, <2>2 DEF Reason
<1>6. CASE _omlx_version
  <2>1. CASE Changes([stage |-> "macos"])
    BY <2>1, ChangeStage DEF Keeps
  <2>2. CASE Died(host[call.at] = "lost")
    BY <1>6, <1>d, <1>l, <2>2, OmlxDoes DEF Later
  <2> QED
    BY <1>6, <2>1, <2>2, OmlxDoes
<1>7. CASE _macos_version
  <2>1. CASE Changes(NextNode(Asked \ DOMAIN seen))
    BY <2>1, ChangeNext DEF Keeps
  <2>2. CASE Died(host[call.at] = "lost")
    BY <1>7, <1>d, <1>l, <2>2, MacosDoes DEF Later
  <2> QED
    BY <1>7, <2>1, <2>2, MacosDoes
<1> QED
  BY <1>1, <1>2, <1>3, <1>5, <1>6, <1>7 DEF Polling

(* The place of the handler, its timeouts and what was told, after a GET.  *)
LEMMA GetTells ==
  ASSUME CallInv, StageInv, SeenInv, PartiesInv, LateInv, TellInv,
         NEW s \in Later, NEW t \in Later, NEW a, Get(s, t, a),
         Turn[t] = Turn[s] + 1, DOMAIN a \subseteq DOMAIN Silent,
         IF s = "health" THEN "health" \in DOMAIN a /\ a["health"] = TRUE
         ELSE "health" \notin DOMAIN a,
         IF s = "models" THEN "models" \in DOMAIN a /\ a["models"] = TRUE
         ELSE "models" \notin DOMAIN a,
         IF s = "activity" THEN "active" \in DOMAIN a /\ a["active"] \in Nat
         ELSE "active" \notin DOMAIN a
  PROVE  LateInv' /\ TellInv'
<1> DEFINE n == call.at
           known == IF n \in DOMAIN seen THEN seen[n] ELSE Silent
           x == IF host[n] = "up" THEN Over(a, known) ELSE known
<1>s. /\ t \in {"models", "statuses", "activity", "omlx", "macos"}
      /\ s = "health" <=> t = "models"
      /\ s = "activity" <=> t \in {"omlx", "macos"}
  BY DEF Turn, Later
<1>1. /\ call.stage = s /\ seen' = Over([m \in {n} |-> x], seen)
      /\ call'.late = IF Hangs(n) THEN call.late + 1 ELSE call.late
      /\ call'.stage = t /\ call'.at = n /\ call'.target = call.target
      /\ UNCHANGED <<host, met, payload>>
  BY GetDoes DEF Learnt, Unread, world, history
<1>2. /\ Known(call.target) /\ n \in Asked /\ Asked \subseteq Nodes /\ Asked' = Asked
      /\ host[n] \in met[n] /\ DOMAIN seen \subseteq Asked
  <2>1. Known(call.target) /\ payload = <<>> /\ call.cli # None
    BY <1>1 DEF StageInv, Later, None, CallInv
  <2> QED
    BY <1>1, <2>1, PlanIn, AskedNodes DEF SeenInv, PartiesInv, Asked
<1>3. /\ DOMAIN seen' = DOMAIN seen \union {n}
      /\ seen'[n] = x /\ \A m \in DOMAIN seen : m # n => seen'[m] = seen[m]
  BY <1>1 DEF Over
<1>4. LateInv'
  <2>1. DOMAIN seen' \ {call'.at} = DOMAIN seen \ {n}
    BY <1>1, <1>3
  <2>2. Hung(DOMAIN seen \ {n})' = Hung(DOMAIN seen \ {n}) /\ Hung(Asked)' = Hung(Asked)
    <3>1. Hung(DOMAIN seen \ {n})' = Hung(DOMAIN seen' \ {call'.at})
      BY <1>1 DEF Hung
    <3> QED
      BY <1>1, <1>2, <2>1, <3>1 DEF Hung
  <2>3. Hangs(n) => n \in Hung(Asked)
    BY <1>2 DEF Hangs, Hung
  <2>4. Turn[s] \in Nat /\ Cardinality(Hung(DOMAIN seen \ {n})) \in Nat /\ call.late \in Nat
    <3>1. DOMAIN seen \ {n} \subseteq Nodes
      BY <1>2
    <3>2. Turn[s] \in Nat
      BY DEF Turn, Later
    <3> QED
      BY <3>1, <3>2, HungCounts DEF CallInv
  <2>5. call.late <= 4 * Cardinality(Hung(DOMAIN seen \ {n}))
                     + (IF n \in Hung(Asked) THEN Turn[s] ELSE 0)
    BY <1>1 DEF LateInv
  <2>6. call'.late <= 4 * Cardinality(Hung(DOMAIN seen \ {n}))
                      + (IF n \in Hung(Asked) THEN Turn[t] ELSE 0)
    BY <1>1, <2>3, <2>4, <2>5
  <2>7. t \notin Early /\ t \notin {"reply", "done"}
    BY DEF Early, Later
  <2> QED
    BY <1>1, <2>1, <2>2, <2>6, <2>7 DEF LateInv
<1>5. /\ DOMAIN known = DOMAIN Silent
      /\ {"health", "models", "active"} \subseteq DOMAIN Silent
      /\ n \notin DOMAIN seen => known.health = FALSE
      /\ n \in DOMAIN seen => known = seen[n]
  BY DEF SeenInv, WellAnswered, Silent
<1>6. s # "health" => n \in DOMAIN seen
  BY <1>1 DEF SeenInv
<1> HIDE DEF known
<1>7. \A f \in {"health", "models", "active"} :
        Over(a, known)[f] = IF f \in DOMAIN a THEN a[f] ELSE known[f]
  BY <1>5 DEF Over
<1>8. ASSUME "up" \notin met[n] PROVE x.health = FALSE
  <2>1. host[n] # "up"
    BY <1>2, <1>8
  <2> QED
    BY <1>5, <1>8, <2>1 DEF TellInv
<1>9. ASSUME met[n] = {"up"}
      PROVE  /\ x.health = TRUE
             /\ t = "models" \/ x.models = TRUE
             /\ t \in {"models", "statuses", "activity"} \/ x.active # -1
  <2>1. x = Over(a, known)
    BY <1>2, <1>9
  <2>2. n \in DOMAIN seen /\ s # "health" =>
          /\ known.health = TRUE
          /\ s = "models" \/ known.models = TRUE
    BY <1>1, <1>5, <1>9 DEF TellInv
  <2> HIDE DEF x
  <2>3. x.health = TRUE
    BY <1>s, <1>6, <1>7, <2>1, <2>2
  <2>4. t = "models" \/ x.models = TRUE
    BY <1>s, <1>6, <1>7, <2>1, <2>2
  <2>5. t \in {"models", "statuses", "activity"} \/ x.active # -1
    BY <1>s, <1>7, <2>1
  <2> QED
    BY <2>3, <2>4, <2>5
<1>10. TellInv'
  <2> HIDE DEF x
  <2>1. ASSUME NEW m \in DOMAIN seen, m # n
        PROVE  /\ "up" \notin met[m] => seen[m].health = FALSE
               /\ met[m] = {"up"} => /\ seen[m].health = TRUE /\ seen[m].models = TRUE
                                     /\ seen[m].active # -1
    BY <1>1, <2>1 DEF TellInv
  <2>2. call'.stage = t /\ call'.at = n /\ met' = met
    BY <1>1
  <2> SUFFICES ASSUME NEW m \in DOMAIN seen'
               PROVE  /\ "up" \notin met[m] => seen'[m].health = FALSE
                      /\ met[m] = {"up"} =>
                           /\ seen'[m].health = TRUE
                           /\ \/ m = n /\ t = "models"
                              \/ seen'[m].models = TRUE
                           /\ \/ m = n /\ t \in {"models", "statuses", "activity"}
                              \/ seen'[m].active # -1
    BY <2>2 DEF TellInv
  <2>3. CASE m = n
    BY <1>3, <1>8, <1>9, <2>3
  <2>4. CASE m # n
    BY <1>3, <2>1, <2>4
  <2> QED
    BY <2>3, <2>4
<1> QED
  BY <1>4, <1>10

(* The same after the handler turned to the next node.                     *)
LEMMA NextTells ==
  ASSUME CallInv, StageInv, SeenInv, TellInv, Known(call.target),
         Changes(NextNode(Asked \ DOMAIN seen)), UNCHANGED <<seen, met>>,
         DOMAIN seen \subseteq Asked,
         call.late <= 4 * Cardinality(Hung(DOMAIN seen)),
         \A n \in DOMAIN seen : met[n] = {"up"} =>
           seen[n].health = TRUE /\ seen[n].models = TRUE /\ seen[n].active # -1
  PROVE  LateInv' /\ TellInv'
<1> DEFINE S == Asked \ DOMAIN seen
<1>0. Asked \subseteq Nodes
  BY AskedNodes
<1>1. /\ call'.stage = (IF S = {} THEN "reply" ELSE "health")
      /\ S # {} => call'.at = FirstOf(S)
      /\ call'.target = call.target /\ call'.late = call.late
  BY ChangeNext DEF Keeps
<1>2. S # {} => FirstOf(S) \in S
  BY <1>0, FirstIn
<1>3. Asked' = Asked
  BY <1>1 DEF Asked
<1>4. LateInv'
  <2>1. CASE S = {}
    <3>1. call'.stage = "reply" /\ DOMAIN seen = Asked
      BY <1>1, <2>1
    <3>2. Hung(Asked)' = Hung(DOMAIN seen)
      BY <1>3, <3>1 DEF Hung
    <3> QED
      BY <1>1, <3>1, <3>2 DEF LateInv, Early, Later
  <2>2. CASE S # {}
    <3>1. call'.stage = "health" /\ call'.at \notin DOMAIN seen
      BY <1>1, <1>2, <2>2
    <3>2. DOMAIN seen' \ {call'.at} = DOMAIN seen
      BY <3>1
    <3>3. Hung(DOMAIN seen \ {call.at})' = Hung(DOMAIN seen)
      <4>1. Hung(DOMAIN seen \ {call.at})' = {n \in DOMAIN seen' \ {call'.at} :
                                                met'[n] \cap {"wedged", "lost"} # {}}
        BY DEF Hung
      <4> QED
        BY <3>2, <4>1 DEF Hung
    <3>4. Turn["health"] = 0
      BY DEF Turn, Later
    <3>5. Cardinality(Hung(DOMAIN seen)) \in Nat
      BY <1>0, HungCounts
    <3>6. call'.late <= 4 * Cardinality(Hung(DOMAIN seen \ {call.at}))'
                        + (IF call'.at \in Hung(Asked)' THEN Turn["health"] ELSE 0)
      BY <1>1, <3>3, <3>4, <3>5 DEF CallInv
    <3> QED
      BY <3>1, <3>6 DEF LateInv, Early, Later
  <2> QED
    BY <2>1, <2>2
<1>5. TellInv'
  BY <1>1 DEF TellInv
<1> QED
  BY <1>4, <1>5

LEMMA PollTells ==
  ASSUME CallInv, StageInv, SeenInv, PartiesInv, LateInv, TellInv, Polling, ~Reply
  PROVE  LateInv' /\ TellInv'
<1>k. call.stage \in Early \union Later => Known(call.target)
  BY DEF StageInv, Early, Later, None
<1>m. met' = met
  BY PollAsks DEF Asks, Unread, history
<1>d. ASSUME NEW cause, Died(cause) PROVE LateInv' /\ TellInv'
  <2>1. call'.stage = "dead" /\ seen' = seen
    BY <1>d, ChangeBoth DEF Died
  <2>2. TellInv'
    BY <1>m, <2>1 DEF TellInv, Later
  <2> QED
    BY <2>1, <2>2 DEF LateInv, Early, Later
<1>e. ASSUME call.stage \in Early, call'.stage \in Early, call'.late = call.late, seen' = seen
      PROVE  LateInv' /\ TellInv'
  BY <1>e DEF LateInv, TellInv, SeenInv, Early, Later
<1>1. CASE _latest_release_versions
  <2>1. PICK v : /\ call.stage = "lookup" /\ UNCHANGED seen
                 /\ Changes(Over([latest |-> v],
                                 [stage |-> IF Plan.gateway THEN "gateway" ELSE "caches",
                                  left |-> Plan.caches]))
    BY <1>1, LookupDoes
  <2>2. call'.stage \in {"gateway", "caches"} /\ call'.late = call.late
    BY <2>1, ChangeLookup DEF Keeps
  <2> QED
    BY <1>e, <2>1, <2>2 DEF Early
<1>2. CASE _gateway_olla_version
  <2>1. CASE Changes([stage |-> "caches"]) /\ UNCHANGED seen
    BY <1>2, <1>e, <2>1, ChangeStage, GatewayDoes DEF Keeps, Early
  <2> QED
    BY <1>2, <1>d, <2>1, GatewayDoes
<1>3. CASE CacheVersions
  <2>1. call.stage = "caches" /\ DOMAIN seen = {} /\ Known(call.target) /\ call.late = 0
    BY <1>3, <1>k, CachesDoes DEF SeenInv, LateInv, Early
  <2>2. CASE Changes(NextNode(Asked)) /\ UNCHANGED seen
    <3>1. Asked \ DOMAIN seen = Asked /\ DOMAIN seen \subseteq Asked
      BY <2>1
    <3>2. Cardinality(Hung(DOMAIN seen)) \in Nat
      BY <2>1, HungCounts
    <3> QED
      BY <1>m, <2>1, <2>2, <3>1, <3>2, NextTells
  <2>3. CASE Changes([left |-> call.left \ {FirstOf(call.left)}]) /\ UNCHANGED seen
    BY <1>e, <2>1, <2>3, ChangeLeft DEF Keeps, Early
  <2> QED
    BY <1>3, <1>d, <2>2, <2>3, CachesDoes
<1>t. /\ Turn["health"] = 0 /\ Turn["models"] = 1 /\ Turn["statuses"] = 2
      /\ Turn["activity"] = 3 /\ Turn["omlx"] = 4 /\ Turn["macos"] = 4
  BY DEF Turn, Later
<1>4. CASE Health
  <2> DEFINE a == [health |-> TRUE]
  <2>1. Get("health", "models", a) /\ DOMAIN a = {"health"} /\ a["health"] = TRUE
    BY <1>4 DEF Health
  <2> HIDE DEF a
  <2>2. /\ IF "health" = "health" THEN "health" \in DOMAIN a /\ a["health"] = TRUE
           ELSE "health" \notin DOMAIN a
        /\ IF "health" = "models" THEN "models" \in DOMAIN a /\ a["models"] = TRUE
           ELSE "models" \notin DOMAIN a
        /\ "active" \notin DOMAIN a
    BY <2>1, Zenon
  <2>3. /\ DOMAIN a \subseteq DOMAIN Silent
        /\ "health" \in Later /\ "models" \in Later /\ Turn["models"] = Turn["health"] + 1
    BY <1>t, <2>1 DEF Later, Silent
  <2> QED
    BY <2>1, <2>2, <2>3, GetTells, Zenon
<1>5. CASE ListOf
  <2> DEFINE a == [models |-> TRUE]
  <2>1. Get("models", "statuses", a) /\ DOMAIN a = {"models"} /\ a["models"] = TRUE
    BY <1>5 DEF ListOf
  <2> HIDE DEF a
  <2>2. /\ IF "models" = "health" THEN "health" \in DOMAIN a /\ a["health"] = TRUE
           ELSE "health" \notin DOMAIN a
        /\ IF "models" = "models" THEN "models" \in DOMAIN a /\ a["models"] = TRUE
           ELSE "models" \notin DOMAIN a
        /\ "active" \notin DOMAIN a
    BY <2>1, Zenon
  <2>3. /\ DOMAIN a \subseteq DOMAIN Silent
        /\ "models" \in Later /\ "statuses" \in Later /\ Turn["statuses"] = Turn["models"] + 1
    BY <1>t, <2>1 DEF Later, Silent
  <2> QED
    BY <2>1, <2>2, <2>3, GetTells, Zenon
<1>6. CASE Statuses
  <2> DEFINE a == [statuses |-> normalize_model_statuses(call.at)]
  <2>1. Get("statuses", "activity", a) /\ DOMAIN a = {"statuses"}
    BY <1>6 DEF Statuses
  <2> HIDE DEF a
  <2> QED
    BY <1>t, <2>1, GetTells DEF Later, Silent
<1>7. CASE Activity
  <2> DEFINE a == [active |-> Cardinality(At(call.at, "running")),
                   waiting |-> Cardinality(At(call.at, "waiting"))]
  <2>1. /\ Get("activity", "omlx", a) /\ DOMAIN a = {"active", "waiting"}
        /\ a.active = Cardinality(At(call.at, "running"))
    BY <1>7 DEF Activity
  <2>2. a.active \in Nat
    BY <2>1, StatusAssumption, FS_Subset, FS_CardinalityType DEF At
  <2> HIDE DEF a
  <2> QED
    BY <1>t, <2>1, <2>2, GetTells DEF Later, Silent
<1>8. CASE _omlx_version
  <2>1. CASE /\ Changes([stage |-> "macos"])
             /\ seen' = seen \/ \E v : seen' = [seen EXCEPT ![call.at].version = v]
    <3>1. /\ call.stage = "omlx" /\ call'.stage = "macos" /\ call'.at = call.at
          /\ call'.target = call.target /\ call'.late = call.late
      BY <1>8, <2>1, ChangeStage, OmlxDoes DEF Keeps
    <3>2. DOMAIN seen' = DOMAIN seen /\ Asked' = Asked
      BY <2>1, <3>1 DEF Asked
    <3>3. \A m \in DOMAIN seen :
            /\ seen'[m].health = seen[m].health /\ seen'[m].models = seen[m].models
            /\ seen'[m].active = seen[m].active
      <4>1. ASSUME NEW m \in DOMAIN seen, NEW v
            PROVE  LET x == [seen[m] EXCEPT !.version = v]
                   IN /\ x.health = seen[m].health /\ x.models = seen[m].models
                      /\ x.active = seen[m].active
        BY DEF SeenInv, WellAnswered, Silent
      <4>2. \A m \in DOMAIN seen :
              seen'[m] = seen[m] \/ \E v : seen'[m] = [seen[m] EXCEPT !.version = v]
        BY <2>1
      <4> SUFFICES ASSUME NEW m \in DOMAIN seen
                   PROVE  /\ seen'[m].health = seen[m].health
                          /\ seen'[m].models = seen[m].models
                          /\ seen'[m].active = seen[m].active
        OBVIOUS
      <4>3. ASSUME NEW v, seen'[m] = [seen[m] EXCEPT !.version = v]
            PROVE  /\ seen'[m].health = seen[m].health
                   /\ seen'[m].models = seen[m].models
                   /\ seen'[m].active = seen[m].active
        <5> DEFINE x == [seen[m] EXCEPT !.version = v]
        <5>1. /\ x.health = seen[m].health /\ x.models = seen[m].models
              /\ x.active = seen[m].active
          BY <4>1
        <5>2. seen'[m] = x
          BY <4>3
        <5> HIDE DEF x
        <5> QED
          BY <5>1, <5>2
      <4> QED
        BY <4>2, <4>3
    <3>4. TellInv'
      BY <1>m, <3>1, <3>2, <3>3 DEF TellInv, Later
    <3>5. Hung(DOMAIN seen \ {call.at})' = Hung(DOMAIN seen \ {call.at})
          /\ Hung(Asked)' = Hung(Asked)
      BY <1>m, <3>1, <3>2 DEF Hung
    <3>6. call'.late <= 4 * Cardinality(Hung(DOMAIN seen \ {call.at}))'
                        + (IF call'.at \in Hung(Asked)' THEN Turn["macos"] ELSE 0)
      BY <1>t, <3>1, <3>5 DEF LateInv, Later
    <3> QED
      BY <3>1, <3>4, <3>6 DEF LateInv, Early, Later
  <2> QED
    BY <1>8, <1>d, <2>1, OmlxDoes
<1>9. CASE _macos_version
  <2>1. CASE Changes(NextNode(Asked \ DOMAIN seen)) /\ UNCHANGED seen
    <3>1. /\ call.stage = "macos" /\ Known(call.target) /\ DOMAIN seen \subseteq Asked
          /\ call.at \in DOMAIN seen
      BY <1>9, <1>k, MacosDoes DEF SeenInv, Later
    <3>2. Asked \subseteq Nodes
      BY <3>1, AskedNodes
    <3> DEFINE T == DOMAIN seen \ {call.at}
    <3>3. T \subseteq DOMAIN seen /\ call.at \in DOMAIN seen \ T /\ DOMAIN seen \subseteq Nodes
      BY <3>1, <3>2
    <3>4. /\ Cardinality(Hung(T)) \in Nat /\ Cardinality(Hung(DOMAIN seen)) \in Nat
          /\ Cardinality(Hung(T)) <= Cardinality(Hung(DOMAIN seen))
          /\ call.at \in Hung(DOMAIN seen) =>
               Cardinality(Hung(T)) + 1 <= Cardinality(Hung(DOMAIN seen))
      BY <3>3, HungCounts
    <3>5. call.at \in Hung(Asked) => call.at \in Hung(DOMAIN seen)
      BY <3>1 DEF Hung
    <3>6. call.late <= 4 * Cardinality(Hung(T))
                       + (IF call.at \in Hung(Asked) THEN 4 ELSE 0)
      BY <1>t, <3>1 DEF LateInv, Later
    <3> HIDE DEF T
    <3>7. call.late <= 4 * Cardinality(Hung(DOMAIN seen))
      BY <3>4, <3>5, <3>6 DEF CallInv
    <3>8. \A n \in DOMAIN seen : met[n] = {"up"} =>
            seen[n].health = TRUE /\ seen[n].models = TRUE /\ seen[n].active # -1
      BY <3>1 DEF TellInv, Later
    <3> QED
      BY <1>m, <2>1, <3>1, <3>7, <3>8, NextTells
  <2> QED
    BY <1>9, <1>d, <2>1, MacosDoes
<1> QED
  BY <1>1, <1>2, <1>3, <1>4, <1>5, <1>6, <1>7, <1>8, <1>9 DEF Polling

LEMMA PollParties ==
  ASSUME CallInv, StageInv, SeenInv, PartiesInv, Polling, ~Reply
  PROVE  PartiesInv'
<1>1. /\ UNCHANGED <<host, met, payload>> /\ call'.target = call.target /\ Plan' = Plan
      /\ call.stage \in Early \union Later /\ call'.stage # None
  BY PollAsks DEF Asks, Unread, world, history, Plan, Goes_on, Dies, Early, Later, None
<1>2. call.cli # None
  BY <1>1 DEF CallInv, Early, Later, None
<1>3. call'.cli = "asking" => call'.stage # "dead"
  BY PollReason
<1>4. /\ call'.stage \in {"gateway", "caches"} => call'.left \subseteq Plan.caches
      /\ call'.stage = "gateway" => Plan.gateway
  <2>d. ASSUME NEW cause, Died(cause) PROVE call'.stage = "dead"
    BY <2>d, ChangeBoth DEF Died
  <2>1. CASE _latest_release_versions
    <3>1. PICK v : Changes(Over([latest |-> v],
                                [stage |-> IF Plan.gateway THEN "gateway" ELSE "caches",
                                 left |-> Plan.caches]))
      BY <2>1, LookupDoes
    <3> QED
      BY <3>1, ChangeLookup
  <2>2. CASE _gateway_olla_version
    <3>1. CASE Changes([stage |-> "caches"])
      BY <2>2, <3>1, ChangeStage, GatewayDoes DEF PartiesInv
    <3> QED
      BY <2>2, <2>d, <3>1, GatewayDoes
  <2>3. CASE CacheVersions
    <3>1. CASE Changes(NextNode(Asked))
      BY <3>1, ChangeNext
    <3>2. CASE Changes([left |-> call.left \ {FirstOf(call.left)}])
      BY <2>3, <3>2, ChangeLeft, CachesDoes DEF PartiesInv
    <3> QED
      BY <2>3, <2>d, <3>1, <3>2, CachesDoes
  <2>4. CASE Health \/ ListOf \/ Statuses \/ Activity
    <3>1. ASSUME NEW s \in Later, NEW t \in Later, NEW a, Get(s, t, a)
          PROVE  call'.stage \in Later
      BY <3>1, GetDoes
    <3> QED
      BY <2>4, <3>1 DEF Health, ListOf, Statuses, Activity, Later
  <2>5. CASE _omlx_version
    BY <2>5, <2>d, ChangeStage, OmlxDoes
  <2>6. CASE _macos_version
    BY <2>6, <2>d, ChangeNext, MacosDoes
  <2> QED
    BY <2>1, <2>2, <2>3, <2>4, <2>5, <2>6 DEF Polling
<1> QED
  BY <1>1, <1>2, <1>3, <1>4 DEF PartiesInv

LEMMA PollMet ==
  ASSUME CallInv, StageInv, SeenInv, MetInv, Polling, ~Reply
  PROVE  MetInv'
<1>1. LateInv' /\ TellInv' /\ PartiesInv'
  BY PollTells, PollParties DEF MetInv
<1>2. ReasonInv'
  <2>1. /\ call'.target = call.target /\ met' = met /\ call.stage \notin {None, "dead"}
        /\ call'.took \in Nat /\ call'.took >= call.took /\ call.took \in Nat
    BY PollAsks DEF Asks, Unread, history, Early, Later, None, CallInv
  <2>2. Known(call.target)
    BY <2>1 DEF StageInv
  <2>3. Reason => Reason'
    BY <2>1, <2>2, ReasonStays
  <2>4. \/ call'.cli = call.cli
        \/ Reason
    BY PollReason DEF MetInv
  <2>5. call.cli = "failed" => Reason
    BY <2>2 DEF MetInv, ReasonInv
  <2> QED
    BY <2>3, <2>4, <2>5 DEF ReasonInv
<1> QED
  BY <1>1, <1>2 DEF MetInv

LEMMA StartMet ==
  ASSUME CallInv, StageInv, SeenInv, MetInv, cluster_status
  PROVE  MetInv'
<1>1. PICK t \in Targets :
       call' = [stage |-> IF Known(t) THEN "lookup" ELSE "dead",
                cli |-> IF Known(t) THEN "asking" ELSE "failed",
                target |-> t, left |-> {}, at |-> None, latest |-> 0, took |-> 0, late |-> 0]
  BY DEF cluster_status
<1>2. /\ call.stage = None /\ UNCHANGED <<seen, host>>
      /\ met' = [p \in Parties |-> {host[p]}]
  BY DEF cluster_status, CallInv, outputs, world
<1>3. DOMAIN seen = {}
  BY <1>2 DEF SeenInv
<1>4. /\ call'.stage \in {"lookup", "dead"} /\ call'.late = 0
      /\ call'.cli = "asking" => call'.stage = "lookup"
      /\ call'.cli = "failed" => ~Known(call'.target)
  BY <1>1
<1>5. Known(call.target)' <=> Known(call'.target)
  BY DEF Known
<1>6. PartiesInv'
  BY <1>2, <1>4 DEF PartiesInv, MetInv, None
<1>7. LateInv' /\ TellInv'
  BY <1>2, <1>3, <1>4 DEF LateInv, TellInv, Early, Later
<1>8. ReasonInv'
  BY <1>4, <1>5 DEF ReasonInv
<1> QED
  BY <1>6, <1>7, <1>8 DEF MetInv

(* Steps that leave the handler where it is, or end it with the answer.    *)
LEMMA MetStays ==
  ASSUME CallInv, StageInv, MetInv, CallInv', UNCHANGED <<seen, met, host>>,
         payload' = <<>> => payload = <<>>,
         call'.target = call.target, call'.late = call.late, call'.took >= call.took,
         \/ /\ call'.stage = call.stage /\ call'.at = call.at /\ call'.left = call.left
         \/ call.stage = "reply" /\ call'.stage = "done",
         call.cli = None => call'.cli = None,
         call'.cli = "asking" => call.cli = "asking",
         call'.cli = "failed" => call.cli = "failed" \/ Reason
  PROVE  MetInv'
<1>1. /\ Asked' = Asked /\ Plan' = Plan /\ (Known(call.target)' <=> Known(call.target))
      /\ Hung(Asked)' = Hung(Asked)
  BY DEF Asked, Plan, Known, Hung
<1>2. PartiesInv'
  <2>1. call'.cli # None /\ payload' = <<>> => \A p \in Parties : host'[p] \in met'[p]
    BY DEF MetInv, PartiesInv
  <2>2. CASE call'.stage = call.stage /\ call'.left = call.left
    BY <1>1, <2>1, <2>2 DEF MetInv, PartiesInv
  <2>3. CASE call.stage = "reply" /\ call'.stage = "done"
    BY <1>1, <2>1, <2>3 DEF MetInv, PartiesInv, None
  <2> QED
    BY <2>2, <2>3
<1>3. LateInv'
  <2>1. CASE call'.stage = call.stage /\ call'.at = call.at
    <3>1. Hung(DOMAIN seen \ {call.at})' = Hung(DOMAIN seen \ {call.at})
      BY <2>1 DEF Hung
    <3> QED
      BY <1>1, <2>1, <3>1 DEF MetInv, LateInv
  <2>2. CASE call.stage = "reply" /\ call'.stage = "done"
    BY <1>1, <2>2 DEF MetInv, LateInv, Early, Later
  <2> QED
    BY <2>1, <2>2
<1>4. TellInv'
  <2>1. CASE call'.stage = call.stage /\ call'.at = call.at
    BY <2>1 DEF MetInv, TellInv
  <2>2. CASE call.stage = "reply" /\ call'.stage = "done"
    BY <2>2 DEF MetInv, TellInv, Later
  <2> QED
    BY <2>1, <2>2
<1>5. ReasonInv'
  <2> SUFFICES ASSUME call'.cli = "failed", Known(call.target)
               PROVE  Reason'
    BY <1>1 DEF ReasonInv
  <2>1. Reason
    BY DEF MetInv, ReasonInv
  <2>2. call.took \in Nat /\ call'.took \in Nat
    BY DEF CallInv
  <2> QED
    BY <2>1, <2>2, ReasonStays
<1> QED
  BY <1>2, <1>3, <1>4, <1>5 DEF MetInv

LEMMA GiveUpReason ==
  ASSUME CallInv, StageInv, SeenInv, MetInv, GiveUp
  PROVE  Reason
<1>1. call.cli = "asking" /\ Spent >= Patience
  BY GiveUpDoes
<1>2. call.stage \notin {None, "dead"}
  BY <1>1 DEF MetInv, PartiesInv
<1>3. PICK late, x : late = call.late /\ x = Cardinality(Hung(Asked))
  OBVIOUS
<1>4. late \in Nat /\ x \in Nat /\ late <= 4 * x
  BY <1>2, <1>3, LateBound DEF MetInv, CallInv
<1>5. PICK t : t = CallTimeout
  OBVIOUS
<1>6. t \in Nat /\ Patience \in Nat /\ call.took \in Nat
  BY <1>5, StatusAssumption DEF CallInv
<1>7. t * late \in Nat /\ t * (4 * x) \in Nat /\ t * late <= t * (4 * x)
  BY <1>4, <1>6, TimesLess
<1>8. t * (4 * x) = 4 * t * x
  BY <1>4, <1>6
<1>9. call.took + t * late >= Patience
  BY <1>1, <1>3, <1>5 DEF Spent
<1>10. call.took + 4 * t * x >= Patience
  BY <1>4, <1>6, <1>7, <1>8, <1>9
<1> QED
  BY <1>3, <1>5, <1>10 DEF Reason

LEMMA MovesMet ==
  ASSUME CallInv, StageInv, SeenInv, Machines, MetInv, NEW k, Moves(k),
         host'[Olla] \in {"up", "wedged"}, host' \in [Parties -> Conditions]
  PROVE  MetInv'
<1>1. /\ UNCHANGED <<call, seen, payload>>
      /\ met' = IF payload = <<>>
                THEN [p \in Parties |-> IF call.cli = None THEN {} ELSE met[p] \union {host'[p]}]
                ELSE met
  BY DEF Moves, outputs, history
<1>2. Asked' = Asked /\ Plan' = Plan /\ (Known(call.target)' <=> Known(call.target))
  BY <1>1 DEF Asked, Plan, Known
<1>3. call.cli # None => \A p \in Parties : met[p] \subseteq met'[p]
  BY <1>1
<1>4. PartiesInv'
  <2>1. call.cli # None /\ payload = <<>> => \A p \in Parties : host'[p] \in met'[p]
    BY <1>1
  <2> QED
    BY <1>1, <1>2, <2>1 DEF MetInv, PartiesInv
<1>5. CASE call.cli = None
  <2>1. call.stage = None /\ DOMAIN seen = {}
    BY <1>5 DEF CallInv, SeenInv
  <2> QED
    BY <1>1, <1>4, <1>5, <2>1 DEF MetInv, LateInv, TellInv, ReasonInv, Early, Later, None
<1>6. CASE call.cli # None
  <2>1. \A p \in Nodes : met[p] \subseteq met'[p]
    BY <1>3, <1>6 DEF Parties
  <2>2. call.stage \notin {None, "dead"} => Asked \subseteq Nodes
    BY AskedNodes DEF StageInv
  <2>3. LateInv'
    <3>1. CASE call.stage \in Early
      BY <1>1, <3>1 DEF MetInv, LateInv, Early, Later
    <3>2. CASE call.stage \in {"reply", "done"}
      <4>1. /\ Cardinality(Hung(Asked)) \in Nat /\ Cardinality(Hung(Asked))' \in Nat
            /\ Cardinality(Hung(Asked)) <= Cardinality(Hung(Asked))'
        BY <1>2, <2>1, <2>2, <3>2, HungGrows DEF Hung, None
      <4>2. call.late <= 4 * Cardinality(Hung(Asked))'
        BY <3>2, <4>1 DEF MetInv, LateInv, CallInv
      <4> QED
        BY <1>1, <3>2, <4>2 DEF LateInv, Early, Later
    <3>3. CASE call.stage \in Later
      <4> DEFINE T == DOMAIN seen \ {call.at}
      <4>1. T \subseteq Nodes /\ call.at \in Asked /\ Asked \subseteq Nodes
        BY <2>2, <3>3 DEF SeenInv, Later, None
      <4>2. /\ Cardinality(Hung(T)) \in Nat /\ Cardinality(Hung(T))' \in Nat
            /\ Cardinality(Hung(T)) <= Cardinality(Hung(T))'
        <5>1. T' = T
          BY <1>1
        <5>2. Hung(T)' = {n \in T : met'[n] \cap {"wedged", "lost"} # {}}
          BY <5>1 DEF Hung
        <5> HIDE DEF T
        <5> QED
          BY <2>1, <4>1, <5>2, HungGrows
      <4>3. call.at \in Hung(Asked) => call.at \in Hung(Asked)'
        BY <1>2, <2>1, <4>1 DEF Hung
      <4>4. Turn[call.stage] \in Nat
        BY <3>3 DEF Turn, Later
      <4>5. call.late <= 4 * Cardinality(Hung(T))
                         + (IF call.at \in Hung(Asked) THEN Turn[call.stage] ELSE 0)
        BY <3>3 DEF MetInv, LateInv
      <4>6. call.late <= 4 * Cardinality(Hung(T))'
                         + (IF call.at \in Hung(Asked)' THEN Turn[call.stage] ELSE 0)
        <5> HIDE DEF T
        <5> QED
          BY <4>2, <4>3, <4>4, <4>5 DEF CallInv
      <4> QED
        BY <1>1, <3>3, <4>6 DEF LateInv, Early, Later
    <3>4. CASE call.stage \notin Early \union Later \union {"reply", "done"}
      BY <1>1, <3>4 DEF LateInv
    <3> QED
      BY <3>1, <3>2, <3>3, <3>4
  <2>4. TellInv'
    <3> SUFFICES ASSUME NEW n \in DOMAIN seen
                 PROVE  /\ met[n] \subseteq met'[n]
                        /\ met'[n] = {"up"} => met[n] = {"up"}
      BY <1>1 DEF MetInv, TellInv
    <3>1. n \in Nodes /\ n \in Parties
      BY DEF SeenInv, Parties
    <3>2. payload = <<>> => host[n] \in met[n]
      BY <1>6, <3>1 DEF MetInv, PartiesInv
    <3> QED
      BY <1>1, <1>3, <1>6, <3>1, <3>2
  <2>5. ReasonInv'
    <3>1. Reason /\ Known(call.target) => Reason'
      BY <1>1, <1>3, <1>6, ReasonStays DEF CallInv
    <3> QED
      BY <1>1, <1>2, <3>1 DEF MetInv, ReasonInv
  <2> QED
    BY <1>4, <2>3, <2>4, <2>5 DEF MetInv
<1> QED
  BY <1>5, <1>6

(* Olla's host hangs or does not; it is not down, and not lost.            *)
LEMMA OllaHangs ==
  ASSUME Machines, host[Olla] \in {"up", "wedged"}, RequestStep \/ MachineStep
  PROVE  host'[Olla] \in {"up", "wedged"}
<1>1. ASSUME NEW p \in Parties, Break(p) PROVE host'[Olla] \in {"up", "wedged"}
  <2>1. PICK s \in Troubles(p) : host' = [host EXCEPT ![p] = s]
    BY <1>1 DEF Break
  <2>2. Troubles(Olla) = {"wedged"}
    BY StatusAssumption DEF Troubles
  <2> QED
    BY <2>1, <2>2 DEF Machines
<1>2. ASSUME NEW p \in Parties, Repair(p) PROVE host'[Olla] \in {"up", "wedged"}
  BY <1>2 DEF Repair, Machines
<1>3. RequestStep => host' = host
  BY DEF RequestStep, _register_active_request, Route, Run, Finish, _record_edge_access,
         _unregister_active_request
<1>4. ASSUME NEW n \in Nodes, NEW r \in Models, Load(n, r) PROVE host' = host
  BY <1>4 DEF Load
<1> QED
  BY <1>1, <1>2, <1>3, <1>4 DEF MachineStep

LEMMA MetKeeps ==
  ASSUME CallInv, StageInv, SeenInv, Machines, MetInv, [StatusNext]_statusVars,
         CallInv', Machines'
  PROVE  MetInv'
<1>1. CASE cluster_status
  BY <1>1, StartMet
<1>2. CASE Polling /\ ~Reply
  BY <1>2, PollMet
<1>3. CASE Reply
  <2>1. /\ call.stage = "reply" /\ call'.stage = "done" /\ call'.target = call.target
        /\ UNCHANGED <<seen, world, met>> /\ call'.late = call.late
        /\ call'.took >= call.took /\ call'.cli \in {call.cli, "answered"}
        /\ (payload' = <<>> => call'.stage # "done") /\ call.cli # None
    BY <1>3, ReplyStage DEF StageInv, CallInv, None
  <2> QED
    BY <2>1, MetStays DEF world, None
<1>4. CASE GiveUp
  <2>1. /\ call'.stage = call.stage /\ call'.at = call.at
        /\ call'.target = call.target /\ call'.left = call.left
        /\ call'.late = call.late /\ call'.took >= call.took
        /\ UNCHANGED <<seen, payload, world, met>>
    BY <1>4, GiveUpStage
  <2>2. Reason /\ call'.cli = "failed"
    BY <1>4, GiveUpReason, GiveUpDoes, ChangeCli
  <2>3. call.cli # None
    BY <1>4, GiveUpDoes DEF None
  <2> QED
    BY <2>1, <2>2, <2>3, MetStays DEF world, None
<1>5. CASE _print_cluster_status
  <2>1. /\ call'.stage = call.stage /\ call'.at = call.at
        /\ call'.target = call.target /\ call'.left = call.left
        /\ call'.late = call.late /\ call'.took >= call.took
        /\ UNCHANGED <<seen, payload, world, met>> /\ call'.cli = "shown"
        /\ call.cli # None
    BY <1>5, PrintStage, PrintDoes DEF None
  <2> QED
    BY <2>1, MetStays DEF world, None
<1>6. CASE RequestStep \/ MachineStep
  <2>1. \E k : Moves(k)
    BY <1>6 DEF RequestStep, MachineStep, World, _register_active_request, Route, Run,
         Finish, _record_edge_access, _unregister_active_request, Break, Repair, Load
  <2>2. host'[Olla] \in {"up", "wedged"}
    BY <1>6, OllaHangs DEF MetInv, PartiesInv
  <2> QED
    BY <2>1, <2>2, MovesMet DEF Machines
<1>7. CASE UNCHANGED statusVars
  <2>1. UNCHANGED <<call, seen, payload, host, met>>
    BY <1>7 DEF statusVars, outputs, world, history
  <2>2. call'.took >= call.took
    BY <2>1 DEF CallInv
  <2> QED
    BY <2>1, <2>2, MetStays
<1> QED
  BY <1>1, <1>2, <1>3, <1>4, <1>5, <1>6, <1>7 DEF StatusNext, RequestStep, MachineStep, Polling

LEMMA MetReports ==
  ASSUME AnswerInv, StageInv, SeenInv, MetInv
  PROVE  DownNodesReported
<1>1. ASSUME report # <<>>, NEW n \in Asked
      PROVE  /\ met[n] = {"up"} => n \in report.healthy /\ n \in Told
             /\ "up" \notin met[n] => n \notin report.healthy
  <2>1. call.stage = "done" /\ report.healthy = HealthyNow /\ n \in DOMAIN seen
    BY <1>1 DEF AnswerInv, SeenInv
  <2>2. /\ "up" \notin met[n] => seen[n].health = FALSE
        /\ met[n] = {"up"} => seen[n].health = TRUE /\ seen[n].models = TRUE
                              /\ seen[n].active # -1
    BY <2>1 DEF MetInv, TellInv
  <2>3. seen[n].active \in Nat \union {-1}
    BY <2>1 DEF SeenInv, WellAnswered
  <2>4. seen[n].active # -1 => n \in Told
    BY <2>3 DEF Told
  <2>5. seen[n].health = FALSE => n \notin HealthyNow
    BY DEF HealthyNow, Healthy
  <2>6. seen[n].health = TRUE /\ seen[n].models = TRUE => n \in HealthyNow
    BY DEF HealthyNow, Healthy
  <2> QED
    BY <2>1, <2>2, <2>4, <2>5, <2>6
<1>2. call.cli = "failed" /\ Known(call.target) => Reason
  BY DEF MetInv, ReasonInv
<1> QED
  BY <1>1, <1>2 DEF DownNodesReported, Reason, Plan, Hung
-----------------------------------------------------------------------------
(* The access log, and the last user of a node and an alias.               *)

LogInv ==
  /\ log \in Seq(Requests) /\ stamp \in [Requests -> Nat]
  /\ \A q \in Requests : req[q].st = "stamped" => stamp[q] > 0
  /\ \A k \in 1..Len(log) :
       stamp[log[k]] > 0 /\ req[log[k]].st \in Ran /\ req[log[k]].at \in Nodes

LEMMA LogKeeps ==
  ASSUME ReqInv, LogInv, [StatusNext]_statusVars
  PROVE  LogInv'
<1>1. CASE CallStep
  BY <1>1, CallStepWorld DEF LogInv, world
<1>2. ASSUME NEW q \in Requests,
             \/ _register_active_request(q) \/ Route(q) \/ Run(q)
             \/ _unregister_active_request(q)
      PROVE  LogInv'
  <2>1. Onward /\ UNCHANGED <<log, stamp>>
    BY <1>2, RequestKeeps DEF RequestStep, _register_active_request, Route, Run,
       _unregister_active_request
  <2>2. \A p \in Requests : req'[p].st = "stamped" => req[p].st = "stamped"
    BY <1>2 DEF _register_active_request, Route, Run, _unregister_active_request, Becomes, ReqInv
  <2> QED
    BY <2>1, <2>2 DEF LogInv, Onward
<1>3. ASSUME NEW q \in Requests, Finish(q) PROVE LogInv'
  <2> DEFINE earlier == {p \in Requests : stamp[p] > 0}
  <2>1. IsFiniteSet(earlier)
    BY StatusAssumption, FS_Subset
  <2>2. PICK time : time = 1 + Cardinality(earlier)
    OBVIOUS
  <2>3. time \in Nat /\ time > 0
    BY <2>1, <2>2, FS_CardinalityType
  <2>4. \/ Becomes(q, "stamped") /\ stamp' = [stamp EXCEPT ![q] = time]
        \/ Becomes(q, "recorded") /\ stamp' = stamp
    BY <1>3, <2>2 DEF Finish
  <2>5. Onward /\ log' = log
    BY <1>3, RequestKeeps DEF RequestStep, Finish
  <2>6. stamp' \in [Requests -> Nat] /\ \A p \in Requests : stamp[p] > 0 => stamp'[p] > 0
    BY <2>3, <2>4 DEF LogInv
  <2>7. \A p \in Requests : req'[p].st = "stamped" => req[p].st = "stamped" \/ stamp'[p] > 0
    BY <2>3, <2>4 DEF Becomes, ReqInv, LogInv
  <2> QED
    BY <2>5, <2>6, <2>7 DEF LogInv, Onward
<1>4. ASSUME NEW q \in Requests, _record_edge_access(q) PROVE LogInv'
  <2>1. /\ req[q].st = "stamped" /\ req' = [req EXCEPT ![q].st = "recorded"]
        /\ log' = Append(log, q) /\ stamp' = stamp
    BY <1>4 DEF _record_edge_access, Becomes
  <2>2. /\ stamp[q] > 0 /\ req[q].at \in Nodes /\ DOMAIN req = Requests
        /\ req[q] \in [st : {"new", "registered", "waiting"} \union Ran, at : Nodes \union {None}]
    BY <2>1 DEF LogInv, ReqInv, Placed
  <2>3. req'[q].st = "recorded" /\ req'[q].at = req[q].at
    BY <2>1, <2>2
  <2>4. \A p \in Requests : p # q => req'[p] = req[p]
    BY <2>1, <2>2
  <2>5. /\ log' \in Seq(Requests) /\ Len(log') = Len(log) + 1 /\ log'[Len(log) + 1] = q
        /\ \A k \in 1..Len(log) : log'[k] = log[k] /\ log[k] \in Requests
    BY <2>1 DEF LogInv
  <2> QED
    BY <2>1, <2>2, <2>3, <2>4, <2>5 DEF LogInv, Ran
<1>5. CASE MachineStep
  <2>1. Onward /\ UNCHANGED <<log, stamp>>
    BY <1>5, MachineKeeps DEF MachineStep, Break, Repair, Load
  <2>2. \A p \in Requests : req'[p].st = "stamped" => req[p].st = "stamped"
    <3>1. CASE req' = req
      BY <3>1
    <3>2. ASSUME NEW n \in Parties, Repair(n)
          PROVE  \A p \in Requests : req'[p].st = "stamped" => req[p].st = "stamped"
      <4> SUFFICES ASSUME NEW p \in Requests, req'[p] # req[p] PROVE req'[p].st # "stamped"
        OBVIOUS
      <4>1. req'[p] = [req[p] EXCEPT !.st = "recorded"]
        BY <3>2 DEF Repair
      <4>2. req[p] \in [st : {"new", "registered", "waiting"} \union Ran,
                        at : Nodes \union {None}]
        BY DEF ReqInv
      <4> QED
        BY <4>1, <4>2
    <3> QED
      BY <1>5, <3>1, <3>2 DEF MachineStep, Break, Load
  <2> QED
    BY <2>1, <2>2 DEF LogInv, Onward
<1> QED
  BY <1>1, <1>2, <1>3, <1>4, <1>5 DEF StatusNext, CallStep, RequestStep, MachineStep

(* The lines of the log, one after the other, as _latest_access takes them.*)
Nobody == [key \in Nodes \X Aliases |-> [time |-> 0, user |-> None]]
RowOf(q) == <<req[q].at, Alias[q]>>

TakenIn(latest, q) ==
  IF stamp[q] > latest[RowOf(q)].time
  THEN [latest EXCEPT ![RowOf(q)] = [time |-> stamp[q], user |-> Client[q]]]
  ELSE latest

Reading(f, k) == IF k = 0 THEN Nobody ELSE TakenIn(f[k - 1], log[k])

LEMMA ReadingExists ==
  ASSUME NEW n \in Nat
  PROVE  \E f : f = [k \in 0..n |-> Reading(f, k)]
<1> DEFINE Rec(f, m) == f = [k \in 0..m |-> Reading(f, k)]
           K == {m \in Nat : \E f : Rec(f, m)}
<1>1. 0 \in K
  <2> DEFINE g == [k \in 0..0 |-> Nobody]
  <2>1. Rec(g, 0)
    BY DEF Reading
  <2> HIDE DEF g, Rec
  <2> QED
    BY <2>1
<1>2. ASSUME NEW m \in Nat, m \in K PROVE m + 1 \in K
  <2>1. PICK f : Rec(f, m)
    BY <1>2
  <2> DEFINE g == [k \in 0..(m + 1) |-> Reading(f, k)]
  <2>2. \A k \in 0..m : g[k] = f[k]
    BY <2>1
  <2>3. ASSUME NEW k \in 0..(m + 1) PROVE Reading(f, k) = Reading(g, k)
    <3>1. k # 0 => k - 1 \in 0..m
      OBVIOUS
    <3> HIDE DEF g
    <3> QED
      BY <2>2, <3>1 DEF Reading
  <2>4. Rec(g, m + 1)
    BY <2>3
  <2> HIDE DEF g, Rec
  <2> QED
    BY <2>4
<1> HIDE DEF K
<1>3. \A m \in Nat : m \in K
  BY <1>1, <1>2, Counting
<1> QED
  BY <1>3 DEF K

(* After k lines a key has the time and the client of one of them that is  *)
(* its own, and none of its own is later.                                  *)
Latest_(e, key, k) ==
  LET of == {j \in 1..k : RowOf(log[j]) = key}
  IN /\ e.time \in Nat
     /\ of = {} => e.time = 0 /\ e.user = None
     /\ of # {} => \E j \in of : e.time = stamp[log[j]] /\ e.user = Client[log[j]]
     /\ \A j \in of : stamp[log[j]] <= e.time

LEMMA CountedLatest ==
  ASSUME LogInv, NEW k \in Nat, k + 1 <= Len(log), NEW latest,
         DOMAIN latest = Nodes \X Aliases,
         \A key \in Nodes \X Aliases : Latest_(latest[key], key, k)
  PROVE  /\ DOMAIN TakenIn(latest, log[k + 1]) = Nodes \X Aliases
         /\ \A key \in Nodes \X Aliases :
              Latest_(TakenIn(latest, log[k + 1])[key], key, k + 1)
<1> DEFINE q == log[k + 1]
           now == TakenIn(latest, q)
<1>1. /\ q \in Requests /\ stamp[q] \in Nat /\ stamp[q] > 0
      /\ RowOf(q) \in Nodes \X Aliases
  <2>1. k + 1 \in 1..Len(log) /\ Len(log) \in Nat
    BY DEF LogInv
  <2>2. q \in Requests
    BY <2>1 DEF LogInv
  <2> QED
    BY <2>1, <2>2, StatusAssumption DEF LogInv, RowOf
<1>2. /\ DOMAIN now = Nodes \X Aliases
      /\ \A key \in Nodes \X Aliases : key # RowOf(q) => now[key] = latest[key]
      /\ now[RowOf(q)] = IF stamp[q] > latest[RowOf(q)].time
                         THEN [time |-> stamp[q], user |-> Client[q]] ELSE latest[RowOf(q)]
  BY <1>1 DEF TakenIn
<1> HIDE DEF now
<1> SUFFICES ASSUME NEW key \in Nodes \X Aliases
             PROVE  Latest_(now[key], key, k + 1)
  BY <1>2 DEF now
<1> DEFINE of(m) == {j \in 1..m : RowOf(log[j]) = key}
<1>3. of(k + 1) = of(k) \union (IF RowOf(q) = key THEN {k + 1} ELSE {})
  OBVIOUS
<1>4. /\ latest[key].time \in Nat
      /\ of(k) = {} => latest[key].time = 0 /\ latest[key].user = None
      /\ of(k) # {} => \E j \in of(k) : /\ latest[key].time = stamp[log[j]]
                                        /\ latest[key].user = Client[log[j]]
      /\ \A j \in of(k) : stamp[log[j]] <= latest[key].time
  BY DEF Latest_
<1> HIDE DEF q
<1>5. CASE RowOf(q) # key
  <2>1. now[key] = latest[key] /\ of(k + 1) = of(k)
    BY <1>2, <1>3, <1>5
  <2> QED
    BY <2>1, <1>4 DEF Latest_
<1>6. CASE RowOf(q) = key
  <2>0. of(k + 1) = of(k) \union {k + 1} /\ log[k + 1] = q
    BY <1>3, <1>6 DEF q
  <2>s. \A j \in of(k) : stamp[log[j]] \in Nat
    <3>1. \A j \in of(k) : j \in 1..Len(log)
      BY DEF LogInv
    <3> QED
      BY <3>1 DEF LogInv
  <2> HIDE DEF of
  <2>1. CASE stamp[q] > latest[key].time
    <3>1. now[key].time = stamp[q] /\ now[key].user = Client[q]
      BY <1>2, <1>6, <2>1
    <3>2. \A j \in of(k + 1) : stamp[log[j]] <= now[key].time
      BY <1>1, <1>4, <2>0, <2>1, <2>s, <3>1
    <3>3. \E j \in of(k + 1) : now[key].time = stamp[log[j]] /\ now[key].user = Client[log[j]]
      BY <2>0, <3>1
    <3> QED
      BY <1>1, <3>1, <3>2, <3>3 DEF Latest_, of
  <2>2. CASE ~(stamp[q] > latest[key].time)
    <3>1. now[key] = latest[key]
      BY <1>2, <1>6, <2>2
    <3>2. of(k) # {}
      BY <1>1, <1>4, <2>2
    <3>3. \A j \in of(k + 1) : stamp[log[j]] <= now[key].time
      BY <1>1, <1>4, <2>0, <2>2, <3>1
    <3>4. \E j \in of(k + 1) : now[key].time = stamp[log[j]] /\ now[key].user = Client[log[j]]
      BY <1>4, <2>0, <3>1, <3>2
    <3> QED
      BY <1>4, <3>1, <3>3, <3>4 DEF Latest_, of
  <2> QED
    BY <2>1, <2>2
<1> QED
  BY <1>5, <1>6

LEMMA LatestIs ==
  ASSUME LogInv, NEW key \in Nodes \X Aliases
  PROVE  Latest_(_latest_access[key], key, Len(log))
<1>1. PICK n : n = Len(log)
  OBVIOUS
<1>2. n \in Nat
  BY <1>1 DEF LogInv
<1> DEFINE latest == CHOOSE f : f = [k \in 0..n |-> Reading(f, k)]
<1>3. _latest_access = latest[n]
  BY <1>1 DEF _latest_access, Reading, Nobody, TakenIn, RowOf
<1>4. latest = [k \in 0..n |-> Reading(latest, k)]
  BY <1>2, ReadingExists
<1> HIDE DEF latest
<1> DEFINE Good(k) == /\ DOMAIN latest[k] = Nodes \X Aliases
                      /\ \A x \in Nodes \X Aliases : Latest_(latest[k][x], x, k)
           K == {k \in Nat : k <= n => Good(k)}
<1>5. 0 \in K
  <2>1. latest[0] = Nobody
    BY <1>2, <1>4 DEF Reading
  <2>2. \A x \in Nodes \X Aliases : Latest_(Nobody[x], x, 0)
    BY DEF Nobody, Latest_
  <2>3. DOMAIN Nobody = Nodes \X Aliases
    BY DEF Nobody
  <2> QED
    BY <2>1, <2>2, <2>3
<1>6. ASSUME NEW k \in Nat, k \in K PROVE k + 1 \in K
  <2> SUFFICES ASSUME k + 1 <= n PROVE Good(k + 1)
    OBVIOUS
  <2>1. Good(k)
    BY <1>2, <1>6
  <2>2. k + 1 \in 0..n /\ k + 1 # 0 /\ (k + 1) - 1 = k
    BY <1>2
  <2>3. latest[k + 1] = Reading(latest, k + 1)
    BY <1>4, <2>2
  <2>4. latest[k + 1] = TakenIn(latest[k], log[k + 1])
    BY <2>2, <2>3 DEF Reading
  <2>5. PICK now : now = latest[k]
    OBVIOUS
  <2>6. /\ DOMAIN now = Nodes \X Aliases
        /\ \A x \in Nodes \X Aliases : Latest_(now[x], x, k)
    BY <2>1, <2>5
  <2>7. /\ DOMAIN TakenIn(now, log[k + 1]) = Nodes \X Aliases
        /\ \A x \in Nodes \X Aliases : Latest_(TakenIn(now, log[k + 1])[x], x, k + 1)
    BY <1>1, <2>6, CountedLatest
  <2> QED
    BY <2>4, <2>5, <2>7
<1> HIDE DEF K, Good
<1>7. \A k \in Nat : k \in K
  BY <1>5, <1>6, Counting
<1>8. Good(n)
  BY <1>2, <1>7 DEF K
<1> QED
  BY <1>1, <1>3, <1>8 DEF Good

LEMMA LastLatest ==
  ASSUME AnswerInv, LogInv, StageInv
  PROVE  LastUserIsLatest
<1> SUFFICES ASSUME report # <<>>, NEW row \in DOMAIN report.last
             PROVE  LET of == {q \in Range(log) : <<req[q].at, Alias[q]>> = row}
                    IN IF of = {} THEN report.last[row] = None
                       ELSE \E q \in of : /\ \A p \in of : stamp[p] <= stamp[q]
                                          /\ report.last[row] = Client[q]
  BY DEF LastUserIsLatest
<1>1. /\ report.last[row] = _latest_access[row].user
      /\ row \in Asked \X Aliases /\ Known(call.target)
  BY DEF AnswerInv, LastUsers, StageInv, None
<1>2. row \in Nodes \X Aliases
  BY <1>1, AskedNodes
<1>3. Latest_(_latest_access[row], row, Len(log))
  BY <1>2, LatestIs
<1> DEFINE lines == {j \in 1..Len(log) : RowOf(log[j]) = row}
           of == {q \in Range(log) : <<req[q].at, Alias[q]>> = row}
<1>4. of = {log[j] : j \in lines}
  <2>1. Range(log) = {log[j] : j \in 1..Len(log)}
    BY DEF LogInv, Range
  <2> QED
    BY <2>1 DEF RowOf
<1>5. PICK e : e = _latest_access[row]
  OBVIOUS
<1>6. /\ lines = {} => e.user = None
      /\ lines # {} => \E j \in lines : e.time = stamp[log[j]] /\ e.user = Client[log[j]]
      /\ \A j \in lines : stamp[log[j]] <= e.time
  BY <1>3, <1>5 DEF Latest_
<1> HIDE DEF lines, of
<1>7. CASE of = {}
  <2>1. lines = {}
    BY <1>4, <1>7
  <2> QED
    BY <1>1, <1>5, <1>6, <1>7, <2>1 DEF of
<1>8. CASE of # {}
  <2>1. lines # {}
    BY <1>4, <1>8
  <2>2. PICK j \in lines : e.time = stamp[log[j]] /\ e.user = Client[log[j]]
    BY <1>6, <2>1
  <2>3. /\ log[j] \in of /\ \A p \in of : stamp[p] <= stamp[log[j]]
        /\ report.last[row] = Client[log[j]]
    BY <1>1, <1>4, <1>5, <1>6, <2>2
  <2>4. \E q \in of : /\ \A p \in of : stamp[p] <= stamp[q]
                      /\ report.last[row] = Client[q]
    BY <2>3
  <2> QED
    BY <1>8, <2>4 DEF of
<1> QED
  BY <1>7, <1>8
-----------------------------------------------------------------------------
(* All of it together.                                                     *)
StatusInv ==
  /\ CallInv /\ AnswerInv /\ CallAndWorld /\ Machines
  /\ MetInv /\ LogInv

LEMMA StatusInit_Inv == StatusInit => StatusInv
<1> SUFFICES ASSUME StatusInit PROVE StatusInv
  OBVIOUS
<1> USE DEF StatusInit
<1>1. CallInv /\ AnswerInv
  BY StatusInvInit
<1>2. StageInv
  BY DEF StageInv, Stages, Clis, None
<1>3. ReqInv
  BY DEF ReqInv, Ran, Placed, Listed
<1>4. SeenInv /\ LongInv /\ PayInv
  BY DEF SeenInv, LongInv, PayInv, Early, Later, None
<1>5. Machines
  <2>1. PICK s \in {"cold", "loaded"} : mem = [n \in Nodes |-> [r \in Models |-> s]]
    OBVIOUS
  <2>2. mem \in [Nodes -> [Models -> {"cold", "loading", "loaded"}]]
    BY <2>1
  <2>3. used \in [Nodes -> [Models -> {None, "recent", "old"}]]
    OBVIOUS
  <2>4. host \in [Parties -> Conditions] /\ met \in [Parties -> SUBSET Conditions]
    OBVIOUS
  <2>5. failures \in Nat /\ failures <= MaxMishaps
    <3> DEFINE broken == {p \in Parties : host[p] # "up"}
    <3>1. IsFiniteSet(Parties)
      <4>1. IsFiniteSet(Nodes \union Caches) /\ IsFiniteSet({Olla})
        BY StatusAssumption, FS_Union, FS_Singleton
      <4>2. IsFiniteSet((Nodes \union Caches) \union {Olla})
        BY <4>1, FS_Union
      <4> QED
        BY <4>2 DEF Parties
    <3>2. Cardinality(broken) \in Nat
      BY <3>1, FS_Subset, FS_CardinalityType
    <3> QED
      BY <3>2
  <2> QED
    BY <2>2, <2>3, <2>4, <2>5, StatusAssumption DEF Machines
<1>6. MetInv
  <2>1. host[Olla] \in {"up", "wedged"}
    BY StatusAssumption DEF Troubles, Parties
  <2>2. PartiesInv
    BY <2>1 DEF PartiesInv, None
  <2> QED
    BY <2>2 DEF MetInv, LateInv, TellInv, ReasonInv, Early, Later, None
<1>7. LogInv
  BY DEF LogInv
<1> QED
  BY <1>1, <1>2, <1>3, <1>4, <1>5, <1>6, <1>7 DEF StatusInv, CallAndWorld

LEMMA StatusNext_Inv == StatusInv /\ [StatusNext]_statusVars => StatusInv'
<1> SUFFICES ASSUME StatusInv, [StatusNext]_statusVars PROVE StatusInv'
  OBVIOUS
<1>1. CallInv' /\ AnswerInv' /\ CallAndWorld' /\ Machines'
  BY StatusInvKeeps, CallAndWorldKeep, MachinesKeep DEF StatusInv
<1>2. MetInv'
  BY <1>1, MetKeeps DEF StatusInv, CallAndWorld
<1>3. LogInv'
  BY LogKeeps DEF StatusInv, CallAndWorld
<1> QED
  BY <1>1, <1>2, <1>3 DEF StatusInv

(* A sum that is given counts at least the requests that ran all along.    *)
LEMMA SumOfTold ==
  ASSUME StatusInv, Told = Asked, call.stage = "done"
  PROVE  /\ ActiveRequests \in Nat
         /\ ActiveRequests >= Cardinality({q \in began : req[q].at \in Asked})
<1> DEFINE f == [n \in Asked |-> seen[n].active]
           at == [q \in began |-> req[q].at]
<1>1. IsFiniteSet(Asked) /\ IsFiniteSet(began)
  <2>1. Asked \subseteq Nodes /\ began \subseteq Requests
    BY AskedNodes DEF StatusInv, CallAndWorld, StageInv, LongInv, None
  <2> QED
    BY <2>1, StatusAssumption, FS_Subset
<1>2. ActiveRequests = SumFunctionOnSet(f, Asked)
  BY DEF ActiveRequests, SumFunction
<1>3. ASSUME NEW n \in Asked
      PROVE  f[n] \in Nat /\ f[n] >= Cardinality({q \in began : at[q] = n})
  <2>1. n \in DOMAIN seen /\ n \in Told
    BY DEF StatusInv, CallAndWorld, SeenInv
  <2>2. seen[n].active \in Nat /\ seen[n].active >= Cardinality(AtNode(n))
    BY <2>1 DEF StatusInv, CallAndWorld, SeenInv, LongInv, WellAnswered, Told
  <2>3. {q \in began : at[q] = n} = AtNode(n)
    BY DEF AtNode
  <2> QED
    BY <2>2, <2>3
<1>4. {q \in began : at[q] \in Asked} = {q \in began : req[q].at \in Asked}
  OBVIOUS
<1> HIDE DEF f, at
<1>5. PICK A, B, F, G : A = Asked /\ B = began /\ F = f /\ G = at
  OBVIOUS
<1>6. \A n \in A : F[n] \in Nat /\ F[n] >= Cardinality({q \in B : G[q] = n})
  BY <1>3, <1>5
<1>7. /\ SumFunctionOnSet(F, A) \in Nat
      /\ SumFunctionOnSet(F, A) >= Cardinality({q \in B : G[q] \in A})
  <2>1. IsFiniteSet(A) /\ IsFiniteSet(B)
    BY <1>1, <1>5
  <2> QED
    BY ONLY <2>1, <1>6, SumCovers
<1> QED
  BY <1>2, <1>4, <1>5, <1>7

LEMMA StatusTyped == StatusInv => StatusTypeOK
<1> SUFFICES ASSUME StatusInv PROVE StatusTypeOK
  OBVIOUS
<1> USE DEF StatusInv, CallAndWorld
<1>1. payload # <<>> => payload.stale \in Nat /\ payload.active >= -1
  <2>1. ASSUME payload # <<>> PROVE payload.active >= -1
    <3>1. call.stage = "done" /\ payload.active = ActiveRequests
      BY <2>1 DEF StageInv, PayInv
    <3>2. CASE Told = Asked
      BY <3>1, <3>2, SumOfTold
    <3>3. CASE Told # Asked
      BY <3>1, <3>3 DEF ActiveRequests
    <3> QED
      BY <3>2, <3>3
  <2> QED
    BY <2>1 DEF StageInv, PayInv
<1>2. call.cli \in {"answered", "shown"} => payload # <<>> /\ DOMAIN seen = Asked
  BY DEF CallInv, StageInv, SeenInv
<1>3. DOMAIN seen \subseteq Nodes /\ registry \subseteq Requests /\ began \subseteq Requests
  BY DEF SeenInv, ReqInv, LongInv
<1> QED
  BY <1>1, <1>2, <1>3 DEF StatusTypeOK, Machines, StageInv, Clis, CallInv, LogInv

LEMMA LongReported == StatusInv => LongRequestReported
<1> SUFFICES ASSUME StatusInv PROVE LongRequestReported
  OBVIOUS
<1> USE DEF StatusInv, CallAndWorld
<1> DEFINE long == {q \in began : req[q].at \in Asked}
<1>0. /\ IsFiniteSet(long) /\ Cardinality(long) \in Nat
      /\ long # {} => Cardinality(long) # 0
  <2>1. long \subseteq Requests
    BY DEF LongInv
  <2> HIDE DEF long
  <2> QED
    BY <2>1, StatusAssumption, FS_Subset, FS_CardinalityType, FS_EmptySet
<1>1. ASSUME payload # <<>>
      PROVE  /\ long # {} => payload.traffic # "IDLE"
             /\ payload.active # -1 => payload.active >= Cardinality(long)
  <2>1. /\ call.stage = "done" /\ payload.active = ActiveRequests /\ payload.traffic = Traffic
    BY <1>1 DEF StageInv, PayInv
  <2>2. CASE Told = Asked
    <3>1. ActiveRequests \in Nat /\ ActiveRequests >= Cardinality(long)
      BY <2>1, <2>2, SumOfTold
    <3>2. long # {} => ActiveRequests > 0
      BY <1>0, <3>1
    <3> QED
      BY <2>1, <2>2, <3>1, <3>2 DEF Traffic
  <2>3. CASE Told # Asked
    BY <2>1, <2>3 DEF Traffic, ActiveRequests
  <2> QED
    BY <2>2, <2>3
<1>2. ASSUME report # <<>>, Told = Asked, NEW q \in began, NEW row \in DOMAIN report.users
      PROVE  LET single == {n \in Asked : seen[n].active > 0} = {req[q].at}
                 mine == row = <<req[q].at, Runtime[Alias[q]]>>
             IN /\ mine /\ single => Client[q] \in report.users[row]
                /\ ~mine /\ q \in long /\ Client[q] \in report.users[row] =>
                     \E p \in payload.requests \ {q} : Client[p] = Client[q]
  <2> DEFINE active == {n \in Asked : seen[n].active > 0}
             asking == {p \in payload.requests : Alias[p] \in AliasesOf(row[1], row[2])}
  <2>1. /\ report.users = UsersShown /\ call.stage = "done" /\ row \in Rows
        /\ began \subseteq payload.requests
    BY <1>2 DEF PayInv, StageInv, UsersShown
  <2>2. report.users[row] = IF active # {row[1]} THEN {} ELSE {Client[p] : p \in asking}
    BY <2>1 DEF UsersShown, _active_model_users
  <2>3. row \in Asked \X Models
    BY <2>1 DEF Rows
  <2>4. ASSUME row = <<req[q].at, Runtime[Alias[q]]>>, active = {req[q].at}
        PROVE  Client[q] \in report.users[row]
    <3>1. row[1] = req[q].at /\ row[2] = Runtime[Alias[q]]
      BY <2>4
    <3>2. q \in asking
      BY <2>1, <3>1 DEF AliasesOf, LongInv
    <3> QED
      BY <2>2, <2>4, <3>1, <3>2
  <2>5. ASSUME row # <<req[q].at, Runtime[Alias[q]]>>, q \in long,
               Client[q] \in report.users[row]
        PROVE  \E p \in payload.requests \ {q} : Client[p] = Client[q]
    <3>1. active = {row[1]} /\ \E p \in asking : Client[p] = Client[q]
      BY <2>2, <2>5
    <3>2. q \notin asking
      <4>1. SUFFICES ASSUME q \in asking PROVE FALSE
        OBVIOUS
      <4>2. row[2] = Runtime[Alias[q]]
        BY <4>1 DEF AliasesOf
      <4>3. row[1] # req[q].at
        BY <2>3, <2>5, <4>2
      <4> DEFINE n == req[q].at
      <4>4. n \in Asked /\ n \in DOMAIN seen /\ n \in Told
        BY <1>2, <2>1, <2>5 DEF SeenInv
      <4>5. seen[n].active \in Nat /\ seen[n].active >= Cardinality(AtNode(n))
        BY <4>4 DEF SeenInv, LongInv, WellAnswered, Told
      <4>6. IsFiniteSet(AtNode(n)) /\ AtNode(n) # {}
        <5>1. AtNode(n) \subseteq Requests /\ q \in AtNode(n)
          BY DEF AtNode, LongInv
        <5> QED
          BY <5>1, StatusAssumption, FS_Subset
      <4>7. Cardinality(AtNode(n)) \in Nat /\ Cardinality(AtNode(n)) # 0
        BY <4>6, FS_CardinalityType, FS_EmptySet
      <4>8. seen[n].active > 0
        BY <4>5, <4>7
      <4>9. n \in active
        BY <4>4, <4>8
      <4> QED
        BY <3>1, <4>3, <4>9
    <3> QED
      BY <3>1, <3>2
  <2> QED
    BY <2>4, <2>5
<1> HIDE DEF long
<1> QED
  BY <1>1, <1>2 DEF LongRequestReported, long

(* The types, and that a printed report stands on an answer in which every *)
(* node asked has its part and no count is negative.                       *)
THEOREM StatusTypeCorrect == StatusSpec => []StatusTypeOK
<1> QED
  BY StatusInit_Inv, StatusNext_Inv, StatusTyped, PTL DEF StatusSpec

(* A request that runs on an asked node all through the call is in the     *)
(* traffic it reports, and is shown for its node and for no other, however *)
(* the nodes answered meanwhile.                                           *)
THEOREM LongRequestsCount == StatusSpec => []LongRequestReported
<1> QED
  BY StatusInit_Inv, StatusNext_Inv, LongReported, PTL DEF StatusSpec

(* Of a node up throughout the call a report says it is healthy, and what  *)
(* it runs; of one never up, that it is not.  The command fails only for a *)
(* machine that left the network, an olla that hung, or the time that the  *)
(* answered calls and four timeouts of every node that hung take: a node   *)
(* whose oMLX is down is no reason.                                        *)
THEOREM ErrorsHaveReason == StatusSpec => []DownNodesReported
<1>1. StatusInv => DownNodesReported
  BY MetReports DEF StatusInv, CallAndWorld
<1> QED
  BY <1>1, StatusInit_Inv, StatusNext_Inv, PTL DEF StatusSpec

(* Of an alias on a node the command shows the client of a record no other *)
(* is later than, though it reads the log line by line and the lines are   *)
(* in no order.                                                            *)
THEOREM LastUserShown == StatusSpec => []LastUserIsLatest
<1>1. StatusInv => LastUserIsLatest
  BY LastLatest DEF StatusInv, CallAndWorld
<1> QED
  BY <1>1, StatusInit_Inv, StatusNext_Inv, PTL DEF StatusSpec
=============================================================================
