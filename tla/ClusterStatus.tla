---------------------------- MODULE ClusterStatus ---------------------------
(***************************************************************************)
(* `thunder-forge cluster status` (cli.py) asks the edge for /status; a    *)
(* handler thread of the edge (edge.py) asks GitHub, the gateway, the      *)
(* caches and then every inference node, one call after the other, reads   *)
(* its own registry of requests last, and answers.  The command sums the   *)
(* answer up once more, adds the last user of every alias from the access  *)
(* log and prints.  Meanwhile requests run, models load and nodes fail.    *)
(*                                                                         *)
(* The nodes, Olla's routing and GitHub are external.  Time is counted in  *)
(* seconds, as the handler's calls use it up: one that is answered takes   *)
(* one of its Durations, one that is not its whole timeout.                *)
(***************************************************************************)
EXTENDS Integers, FiniteSets, Sequences, Functions

CONSTANTS
  Nodes,        (* the inference nodes                                     *)
  Rank,         (* node -> its place in tfconfig.yaml                      *)
  Caches,       (* the nodes with the cache role                           *)
  Gateways,     (* the nodes with the gateway role                         *)
  Olla,         (* the gateway's own Olla, asked for its version           *)
  Aliases,
  Runtime,      (* alias -> the runtime model it stands for                *)
  Serves,       (* node -> the aliases configured on it                    *)
  Requests, Client, Alias,    (* who sends each request, and for what      *)
  Installed,    (* node -> the oMLX version on it                          *)
  Latest,       (* the latest oMLX release                                 *)
  Durations,    (* stage of the handler -> the seconds an answer may take  *)
  CallTimeout,  (* status_timeout: how long a silent node is waited for    *)
  LookupTimeout,   (* the same for GitHub                                  *)
  Patience,     (* how long the command waits for the whole answer         *)
  Targets,      (* the targets of the command                              *)
  MaxMishaps,   (* bound: failures of machines and lookups                 *)
  MaxMoves      (* bound: steps of the others during the call              *)

ASSUME StatusAssumption ==
  /\ Rank \in [Nodes \union Caches -> Nat]
  /\ \A n, m \in Nodes \union Caches : Rank[n] = Rank[m] => n = m
  /\ Serves \in [Nodes -> SUBSET Aliases]
  /\ Alias \in [Requests -> Aliases]
  /\ Latest \in Nat \ {0} /\ Installed \in [Nodes -> Nat \ {0}]
  /\ IsFiniteSet(Nodes) /\ IsFiniteSet(Caches)
  /\ IsFiniteSet(Aliases) /\ IsFiniteSet(Requests)
  /\ Durations \in [{"lookup", "gateway", "caches", "health", "models", "statuses",
                     "activity", "omlx", "macos"} -> SUBSET Nat \ {{}}]
  /\ CallTimeout \in Nat /\ LookupTimeout \in Nat
  /\ Olla \notin Nodes \union Caches
  /\ Patience \in Nat \ {0} /\ MaxMishaps \in Nat /\ MaxMoves \in Nat

VARIABLES
  host,      (* party -> "up", "down", "wedged", or its machine "lost"     *)
  mem,       (* node -> runtime model -> cold, loading or loaded           *)
  used,      (* node -> runtime model -> when it was last used             *)
  req,       (* request -> how far it is, and the node it was sent to      *)
  registry,  (* the edge's active_requests                                 *)
  stamp,     (* request -> the timestamp of its access record              *)
  log,       (* the access log, line by line                               *)
  call,      (* the /status call: its handler's place, and the command's   *)
  seen,      (* node -> what it answered so far                            *)
  payload,   (* what the edge answered                                     *)
  report,    (* what the command printed                                   *)
  began,     (* history: requests that ran throughout the call             *)
  met,       (* history: party -> how it was while the call was answered   *)
  failures,  (* of machines and lookups so far                             *)
  moves      (* of requests, models and nodes during the call              *)

world == <<host, mem, used, req, registry, stamp, log>>
outputs == <<seen, payload, report>>
history == <<began, met>>
statusVars == <<world, call, outputs, history, failures, moves>>

None == "none"
Parties == Nodes \union Caches \union {Olla}
Models == {Runtime[a] : a \in Aliases}
Managed(n) == {Runtime[a] : a \in Serves[n]}
AliasesOf(n, r) == {a \in Serves[n] : Runtime[a] = r}

(* What a node told: whether /health and /v1/models answered, the state of *)
(* its models, its active and waiting requests (-1: no answer), its        *)
(* version (0: unknown).                                                   *)
Silent == [health |-> FALSE, models |-> FALSE, statuses |-> <<>>,
           active |-> -1, waiting |-> -1, version |-> 0]

(* oMLX stops or hangs, the olla command hangs, a machine leaves the       *)
(* network.                                                                *)
Troubles(p) ==
  CASE p \in Nodes -> {"down", "wedged", "lost"}
    [] p = Olla    -> {"wedged"}
    [] OTHER       -> {"lost"}

Conditions == {"up", "down", "wedged", "lost"}

(* What is broken before the call is broken from the start.                *)
StatusInit ==
  /\ host \in {f \in [Parties -> Conditions] : \A p \in Parties : f[p] \in {"up"} \union Troubles(p)}
  /\ failures = Cardinality({p \in Parties : host[p] # "up"}) /\ failures <= MaxMishaps
  /\ mem \in {[n \in Nodes |-> [r \in Models |-> s]] : s \in {"cold", "loaded"}}
  /\ used = [n \in Nodes |-> [r \in Models |-> IF mem[n][r] = "loaded" THEN "old" ELSE None]]
  /\ req = [q \in Requests |-> [st |-> "new", at |-> None]]
  /\ registry = {}
  /\ stamp = [q \in Requests |-> 0]
  /\ log = <<>>
  /\ call = [stage |-> None, cli |-> None, target |-> None, left |-> {}, at |-> None,
             latest |-> 0, took |-> 0, late |-> 0]
  /\ seen = <<>> /\ payload = <<>> /\ report = <<>>
  /\ began = {} /\ met = [p \in Parties |-> {}]
  /\ moves = 0

(* The values of f, and those of g where f has none: TLC's @@, which the   *)
(* provers cannot expand.                                                  *)
Over(f, g) == [x \in DOMAIN f \union DOMAIN g |-> IF x \in DOMAIN f THEN f[x] ELSE g[x]]

Failure == failures < MaxMishaps /\ failures' = failures + 1
-----------------------------------------------------------------------------
(* Requests, models and nodes, until the command has ended.                *)

At(n, st) == {q \in Requests : req[q] = [st |-> st, at |-> n]}

Moves(k) ==
  /\ call.cli \in {None, "asking", "answered"}
  /\ IF call.cli = None THEN UNCHANGED moves ELSE moves + k <= MaxMoves /\ moves' = moves + k
  /\ IF payload = <<>>
     THEN /\ began' = {q \in began : req'[q].st = "running"}
          /\ met' = [p \in Parties |-> IF call.cli = None THEN {} ELSE met[p] \union {host'[p]}]
     ELSE UNCHANGED history
  /\ UNCHANGED <<call, outputs>>

World == Moves(1)

Becomes(q, st) == req' = [req EXCEPT ![q].st = st]

_register_active_request(q) ==
  /\ req[q].st = "new"
  /\ Becomes(q, "registered")
  /\ registry' = registry \union {q}
  /\ UNCHANGED <<host, mem, used, stamp, log, failures>>
  /\ World

(* Olla sends a request to a node that serves the alias, if there is one.  *)
Route(q) ==
  /\ req[q].st = "registered"
  /\ LET able == {n \in Nodes : host[n] = "up" /\ Alias[q] \in Serves[n]}
     IN \/ \E n \in able : req' = [req EXCEPT ![q] = [st |-> "waiting", at |-> n]]
        \/ able = {} /\ Becomes(q, "recorded")
  /\ UNCHANGED <<host, mem, used, registry, stamp, log, failures>>
  /\ World

(* The model is loaded when a request waits for it.                        *)
Load(n, r) ==
  /\ host[n] = "up"
  /\ \/ /\ mem[n][r] = "cold"
        /\ \E q \in At(n, "waiting") : Runtime[Alias[q]] = r
        /\ mem' = [mem EXCEPT ![n][r] = "loading"]
     \/ /\ mem[n][r] = "loading"
        /\ mem' = [mem EXCEPT ![n][r] = "loaded"]
  /\ UNCHANGED <<host, used, req, registry, stamp, log, failures>>
  /\ World

Run(q) ==
  LET n == req[q].at
      r == Runtime[Alias[q]]
  IN /\ req[q].st = "waiting" /\ host[n] = "up" /\ mem[n][r] = "loaded"
     /\ Becomes(q, "running")
     /\ used' = [used EXCEPT ![n][r] = "recent"]
     /\ UNCHANGED <<host, mem, registry, stamp, log, failures>>
     /\ World

(* The record is stamped when it is built, and appended by the thread's    *)
(* turn at the file; one without an endpoint names no node.                *)
Finish(q) ==
  /\ \/ req[q].st = "running"
     \/ req[q].st = "waiting" /\ host[req[q].at] # "up"
  /\ IF host[req[q].at] = "up"
     THEN /\ Becomes(q, "stamped")
          /\ stamp' = [stamp EXCEPT ![q] = 1 + Cardinality({p \in Requests : stamp[p] > 0})]
     ELSE Becomes(q, "recorded") /\ UNCHANGED stamp
  /\ UNCHANGED <<host, mem, used, registry, log, failures>>
  /\ World

_record_edge_access(q) ==
  /\ req[q].st = "stamped"
  /\ Becomes(q, "recorded")
  /\ log' = Append(log, q)
  /\ UNCHANGED <<host, mem, used, registry, stamp, failures>>
  /\ World

_unregister_active_request(q) ==
  /\ req[q].st = "recorded"
  /\ Becomes(q, "gone")
  /\ registry' = registry \ {q}
  /\ UNCHANGED <<host, mem, used, stamp, log, failures>>
  /\ World

(* A party breaks during the call.                                         *)
Break(p) ==
  /\ call.cli = "asking" /\ host[p] = "up" /\ Failure
  /\ \E s \in Troubles(p) : host' = [host EXCEPT ![p] = s]
  /\ UNCHANGED <<mem, used, req, registry, stamp, log>>
  /\ World

(* A party comes back; a node without models and requests.                 *)
Repair(p) ==
  /\ call.cli # None /\ host[p] # "up"
  /\ host' = [host EXCEPT ![p] = "up"]
  /\ mem' = [n \in Nodes |-> IF n = p THEN [r \in Models |-> "cold"] ELSE mem[n]]
  /\ used' = [n \in Nodes |-> IF n = p THEN [r \in Models |-> None] ELSE used[n]]
  /\ req' = [q \in Requests |->
               IF q \in At(p, "waiting") \union At(p, "running")
               THEN [req[q] EXCEPT !.st = "recorded"] ELSE req[q]]
  /\ UNCHANGED <<registry, stamp, log, failures>>
  /\ Moves(0)
-----------------------------------------------------------------------------
(* The handler of /status.                                                 *)

(* Which of gateway, caches and inference nodes a target asks for.         *)
_resolve_status_targets(t) ==
  CASE t = "all"       -> [gateway |-> Gateways # {}, caches |-> Caches, nodes |-> Nodes]
    [] t = "cache"     -> [gateway |-> FALSE, caches |-> Caches, nodes |-> {}]
    [] t = "inference" -> [gateway |-> FALSE, caches |-> {}, nodes |-> Nodes]
    [] OTHER           -> [gateway |-> t \in Gateways, caches |-> Caches \cap {t},
                           nodes |-> Nodes \cap {t}]

Known(t) == t \in {"all", "cache", "inference"} \union Nodes \union Caches \union Gateways
Asked == _resolve_status_targets(call.target).nodes

(* The nodes are asked in the order of tfconfig.yaml.                      *)
FirstOf(S) == CHOOSE n \in S : \A m \in S : Rank[n] <= Rank[m]
NextNode(S) == IF S = {} THEN [stage |-> "reply", at |-> None, left |-> {}]
               ELSE [stage |-> "health", at |-> FirstOf(S), left |-> S \ {FirstOf(S)}]

Handler == call.stage
Goes(c) == call' = Over(c, call)
UnchangedWorld == UNCHANGED <<world, report, moves, history>>

(* The seconds the command has waited: for answers and for timeouts.       *)
Spent == call.took + CallTimeout * call.late
Takes(seconds, c) == \E d \in seconds : Goes(Over([took |-> call.took + d], c))
Answers(c) == Takes(Durations[Handler], c)

(* TimeoutExpired is none of the errors the handler answers with 503: its  *)
(* thread ends, and the connection with it.                                *)
Die == /\ Goes([stage |-> "dead", cli |-> IF call.cli = "asking" THEN "failed" ELSE call.cli])
       /\ UNCHANGED <<seen, payload>>

cluster_status ==
  /\ call.cli = None
  /\ \E t \in Targets :
       call' = [stage |-> IF Known(t) THEN "lookup" ELSE "dead",
                cli |-> IF Known(t) THEN "asking" ELSE "failed",
                target |-> t, left |-> {}, at |-> None, latest |-> 0, took |-> 0, late |-> 0]
  /\ began' = {q \in Requests : req[q].st = "running"}
  /\ met' = [p \in Parties |-> {host[p]}]
  /\ UNCHANGED <<world, outputs, failures, moves>>

(* Olla's release, then oMLX's; each lookup answers, fails or times out.   *)
_latest_release_versions ==
  /\ Handler = "lookup"
  /\ LET plan == _resolve_status_targets(call.target)
         next == [stage |-> IF plan.gateway THEN "gateway" ELSE "caches", left |-> plan.caches]
         answered == Durations["lookup"]
         tries == answered \union {LookupTimeout}
         both(last) == {d + e : d \in tries, e \in last}
     IN \/ Takes(both(answered), Over([latest |-> Latest], next)) /\ UNCHANGED failures
        \/ Takes(both(tries), Over([latest |-> 0], next)) /\ Failure
  /\ UnchangedWorld /\ UNCHANGED <<seen, payload>>

(* The gateway's Olla version, from a local command.                       *)
_gateway_olla_version ==
  /\ Handler = "gateway"
  /\ \/ host[Olla] = "up" /\ Answers([stage |-> "caches"]) /\ UNCHANGED <<seen, payload>>
     \/ host[Olla] # "up" /\ Die
  /\ UnchangedWorld /\ UNCHANGED failures

(* _macos_version of every cache, over ssh.                                *)
CacheVersions ==
  /\ Handler = "caches"
  /\ LET n == FirstOf(call.left)
     IN \/ call.left = {} /\ Goes(NextNode(Asked)) /\ UNCHANGED <<seen, payload>>
        \/ call.left # {} /\ host[n] = "lost" /\ Die
        \/ /\ call.left # {} /\ host[n] # "lost"
           /\ Answers([left |-> call.left \ {n}])
           /\ UNCHANGED <<seen, payload>>
  /\ UnchangedWorld /\ UNCHANGED failures

Hangs(n) == host[n] \in {"wedged", "lost"}

(* What a GET adds to what is known of the node.                           *)
Learnt(n, answer) ==
  LET known == IF n \in DOMAIN seen THEN seen[n] ELSE Silent
  IN Over([m \in {n} |-> IF host[n] = "up" THEN Over(answer, known) ELSE known], seen)

(* Mutant of Get: a refused connection stops the handler.                  *)
Get_Raises(s, next, answer) ==
  /\ Handler = s
  /\ LET n == call.at
     IN IF host[n] = "down" THEN Die
        ELSE /\ seen' = Learnt(n, answer) /\ UNCHANGED payload
             /\ IF Hangs(n) THEN Goes([stage |-> next, late |-> call.late + 1])
                ELSE Answers([stage |-> next])
  /\ UnchangedWorld /\ UNCHANGED failures

(* check_omlx_health: four GETs, of which none stops the next.             *)
Get(s, next, answer) ==
  /\ Handler = s
  /\ seen' = Learnt(call.at, answer)
  /\ IF Hangs(call.at) THEN Goes([stage |-> next, late |-> call.late + 1])
     ELSE Answers([stage |-> next])
  /\ UnchangedWorld /\ UNCHANGED <<payload, failures>>

(* normalize_model_statuses: the models without an alias are left out.     *)
normalize_model_statuses(n) ==
  [r \in Managed(n) |-> [state |-> mem[n][r], idle |-> used[n][r]]]

Health   == Get("health", "models", [health |-> TRUE])
ListOf   == Get("models", "statuses", [models |-> TRUE])
Statuses == Get("statuses", "activity",
                [statuses |-> normalize_model_statuses(call.at)])
Activity == Get("activity", "omlx",
                [active |-> Cardinality(At(call.at, "running")),
                 waiting |-> Cardinality(At(call.at, "waiting"))])

_omlx_version ==
  /\ Handler = "omlx"
  /\ LET n == call.at
     IN IF host[n] = "lost" THEN Die /\ UNCHANGED failures
        ELSE /\ Answers([stage |-> "macos"])
             /\ \/ seen' = [seen EXCEPT ![n].version = Installed[n]] /\ UNCHANGED failures
                \/ UNCHANGED seen /\ Failure
             /\ UNCHANGED payload
  /\ UnchangedWorld

_macos_version ==
  /\ Handler = "macos"
  /\ IF host[call.at] = "lost" THEN Die
     ELSE Answers(NextNode(Asked \ DOMAIN seen)) /\ UNCHANGED <<seen, payload>>
  /\ UnchangedWorld /\ UNCHANGED failures
-----------------------------------------------------------------------------
(* The summary, made twice: by the edge, and again by the command.         *)

Healthy(n) == seen[n].health /\ seen[n].models
AllHealthy == Asked # {} /\ \A n \in Asked : Healthy(n)

Rows == {row \in Asked \X Models : row[2] \in DOMAIN seen[row[1]].statuses}
RowsIn(state) == {row \in Rows : seen[row[1]].statuses[row[2]].state = state}
LoadedFor(idle) == {row \in RowsIn("loaded") : seen[row[1]].statuses[row[2]].idle \in idle}

EdgeReadiness ==
  IF ~AllHealthy \/ RowsIn("loading") # {} THEN "partial"
  ELSE IF RowsIn("loaded") # {} THEN "warm" ELSE "cold"

(* Mutant of CliReadiness: a model that is loading is not looked at.       *)
CliReadiness_Cold ==
  IF ~AllHealthy THEN "partial" ELSE IF RowsIn("loaded") # {} THEN "warm" ELSE "cold"

CliReadiness ==
  IF AllHealthy /\ RowsIn("loaded") # {} THEN "warm"
  ELSE IF AllHealthy /\ RowsIn("loading") = {} THEN "cold" ELSE "partial"

(* A sum is known when every node told its part.                           *)
Told == {n \in Asked : seen[n].active >= 0}
ActiveRequests ==
  IF Told = Asked THEN SumFunction([n \in Asked |-> seen[n].active])
  ELSE -1

Traffic == IF Told # Asked THEN "UNKNOWN" ELSE IF ActiveRequests > 0 THEN "ACTIVE" ELSE "IDLE"

(* Of different versions, an old one, or unknown ones, the first applies.  *)
UpgradeHint(latest) ==
  LET versions == {seen[n].version : n \in Asked} \ {0}
  IN IF Cardinality(versions) > 1 THEN "drift"
     ELSE IF latest # 0 /\ versions # {} /\ latest \notin versions THEN "upgrade"
     ELSE IF \E n \in Asked : seen[n].version = 0 THEN "check"
     ELSE "aligned"

(* Mutant of build_edge_status_payload: stale has its operands swapped.    *)
build_edge_status_payload_Swapped ==
  [readiness |-> EdgeReadiness, hint |-> UpgradeHint(call.latest),
   stale |-> Cardinality(LoadedFor({"recent"})) - Cardinality(RowsIn("loaded")),
   active |-> ActiveRequests, traffic |-> Traffic, requests |-> registry]

build_edge_status_payload ==
  [readiness |-> EdgeReadiness, hint |-> UpgradeHint(call.latest),
   stale |-> Cardinality(RowsIn("loaded")) - Cardinality(LoadedFor({"recent"})),
   active |-> ActiveRequests, traffic |-> Traffic, requests |-> registry]

Reply ==
  /\ Handler = "reply"
  /\ payload' = build_edge_status_payload
  /\ Goes([stage |-> "done",
           cli |-> IF call.cli = "asking" /\ Spent < Patience THEN "answered" ELSE call.cli])
  /\ UnchangedWorld /\ UNCHANGED <<seen, failures>>

(* httpx's timeout in _fetch_cluster_status_payload: the answer comes in   *)
(* one piece, so it is for the whole of it.                                *)
GiveUp ==
  /\ call.cli = "asking" /\ Spent >= Patience
  /\ Goes([cli |-> "failed"])
  /\ UnchangedWorld /\ UNCHANGED <<seen, payload, failures>>

(* Mutant of _active_model_users: every node asked is taken for it.        *)
_active_model_users_All(n, r) ==
  {Client[q] : q \in {p \in payload.requests : Alias[p] \in AliasesOf(n, r)}}

(* A request names no node: it is taken for the one node that is active.   *)
_active_model_users(n, r) ==
  LET active == {m \in Asked : seen[m].active > 0}
  IN IF active # {n} THEN {}
     ELSE {Client[q] : q \in {p \in payload.requests : Alias[p] \in AliasesOf(n, r)}}

(* Mutant of _latest_access: the last line counts.                         *)
_latest_access_Line ==
  LET latest[k \in 0..Len(log)] ==
        IF k = 0 THEN [key \in Nodes \X Aliases |-> [time |-> 0, user |-> None]]
        ELSE LET q == log[k]
             IN [latest[k - 1] EXCEPT ![<<req[q].at, Alias[q]>>] =
                   [time |-> stamp[q], user |-> Client[q]]]
  IN latest[Len(log)]

(* For each node and alias the time and the client of a record, line by    *)
(* line of the log: a line counts if its time is later than the one kept   *)
(* (times start at 1: a pair without a line has time 0).                   *)
_latest_access ==
  LET latest[k \in 0..Len(log)] ==
        IF k = 0 THEN [key \in Nodes \X Aliases |-> [time |-> 0, user |-> None]]
        ELSE LET q == log[k]
                 key == <<req[q].at, Alias[q]>>
             IN IF stamp[q] > latest[k - 1][key].time
                THEN [latest[k - 1] EXCEPT ![key] = [time |-> stamp[q], user |-> Client[q]]]
                ELSE latest[k - 1]
  IN latest[Len(log)]

_normalize_cluster_status_payload(latest) ==
  [readiness |-> CliReadiness, hint |-> UpgradeHint(latest),
   healthy |-> {n \in Asked : Healthy(n)},
   stale |-> Cardinality(LoadedFor({"old"})),
   users |-> [row \in Rows |-> _active_model_users(row[1], row[2])],
   last  |-> [row \in {pair \in Asked \X Aliases :
                         pair[2] \in Serves[pair[1]] /\ <<pair[1], Runtime[pair[2]]>> \in Rows} |->
               _latest_access[row].user]]

(* A release the edge could not look up is looked up once more.            *)
_print_cluster_status ==
  /\ call.cli = "answered"
  /\ \/ /\ report' = _normalize_cluster_status_payload(Latest)
        /\ UNCHANGED failures
     \/ /\ call.latest = 0 /\ Failure
        /\ report' = _normalize_cluster_status_payload(0)
  /\ Goes([cli |-> "shown"])
  /\ UNCHANGED <<world, seen, payload, history, moves>>

Polling ==
  \/ _latest_release_versions \/ _gateway_olla_version \/ CacheVersions
  \/ Health \/ ListOf \/ Statuses \/ Activity
  \/ _omlx_version \/ _macos_version \/ Reply

StatusNext ==
  \/ cluster_status \/ Polling \/ GiveUp \/ _print_cluster_status
  \/ \E q \in Requests : \/ _register_active_request(q) \/ Route(q) \/ Run(q)
                          \/ Finish(q) \/ _record_edge_access(q) \/ _unregister_active_request(q)
  \/ \E p \in Parties : Break(p) \/ Repair(p)
  \/ \E n \in Nodes, r \in Models : Load(n, r)

StatusSpec == StatusInit /\ [][StatusNext]_statusVars
-----------------------------------------------------------------------------
(* Properties.                                                             *)

Stages == {None, "lookup", "gateway", "caches", "health", "models", "statuses",
           "activity", "omlx", "macos", "reply", "done", "dead"}

(* The types, and that a printed report stands on an answer in which every *)
(* node asked has its part and no count is negative.                       *)
StatusTypeOK ==
  /\ host \in [Parties -> Conditions]
  /\ mem \in [Nodes -> [Models -> {"cold", "loading", "loaded"}]]
  /\ used \in [Nodes -> [Models -> {None, "recent", "old"}]]
  /\ registry \subseteq Requests /\ began \subseteq Requests
  /\ met \in [Parties -> SUBSET Conditions]
  /\ log \in Seq(Requests) /\ failures \in 0..MaxMishaps
  /\ call.stage \in Stages /\ call.took \in Nat /\ call.late \in Nat
  /\ call.cli \in {None, "asking", "answered", "failed", "shown"}
  /\ DOMAIN seen \subseteq Nodes
  /\ payload # <<>> => payload.stale \in Nat /\ payload.active >= -1
  /\ call.cli \in {"answered", "shown"} => payload # <<>> /\ DOMAIN seen = Asked
  /\ call.cli = "shown" <=> report # <<>>

(* A request that ran on an asked node throughout the call is in the       *)
(* traffic it reports, however the nodes answered: it is never called idle,*)
(* and a sum that is given counts it (edge.py:990, one node at a time).    *)
(* When all nodes told their requests it is shown for its node and for no  *)
(* other: another node shows its client only for another request           *)
(* (cli.py:2065: the registry names no node).                              *)
LongRequestReported ==
  LET long == {q \in began : req[q].at \in Asked}
      single(q) == {n \in Asked : seen[n].active > 0} = {req[q].at}
      mine(q, row) == row = <<req[q].at, Runtime[Alias[q]]>>
  IN /\ payload # <<>> =>
          /\ long # {} => payload.traffic # "IDLE"
          /\ payload.active # -1 => payload.active >= Cardinality(long)
     /\ (report # <<>> /\ Told = Asked) =>
          \A q \in began, row \in DOMAIN report.users :
            /\ mine(q, row) /\ single(q) => Client[q] \in report.users[row]
            /\ ~mine(q, row) /\ q \in long /\ Client[q] \in report.users[row] =>
                 \E p \in payload.requests \ {q} : Client[p] = Client[q]

(* The edge and the command judge one answer differently only while one    *)
(* model is loaded and another loading, which the command calls warm       *)
(* (edge.py:1007, cli.py:1924).                                            *)
ReadinessAgrees ==
  report # <<>> /\ payload.readiness # report.readiness =>
    /\ payload.readiness = "partial" /\ report.readiness = "warm"
    /\ RowsIn("loading") # {} /\ RowsIn("loaded") # {}

(* The last user shown for a node and an alias is that of a record no      *)
(* other of theirs is later than, in whatever order the edge's threads     *)
(* appended their lines, and nobody only when there is none (cli.py:258).  *)
LastUserIsLatest ==
  LET of(row) == {q \in Range(log) : <<req[q].at, Alias[q]>> = row}
  IN report # <<>> =>
       \A row \in DOMAIN report.last :
         IF of(row) = {} THEN report.last[row] = None
         ELSE \E q \in of(row) : /\ \A p \in of(row) : stamp[p] <= stamp[q]
                                 /\ report.last[row] = Client[q]

(* What the command says of a node does not depend on the others: in a     *)
(* report a node that was up throughout the call is healthy and has told   *)
(* its requests, and one that was never up is not healthy.  The report is  *)
(* withheld only if a machine asked over ssh left the network, or olla     *)
(* hung, or the time was used up by calls that were answered and by four   *)
(* timeouts of each node that hung; so never because oMLX is down          *)
(* (edge.py:1483, cli.py:1701).                                            *)
DownNodesReported ==
  LET plan == _resolve_status_targets(call.target)
      hung == {n \in Asked : met[n] \cap {"wedged", "lost"} # {}}
  IN /\ report # <<>> =>
          \A n \in Asked :
            /\ met[n] = {"up"} => n \in report.healthy /\ n \in Told
            /\ "up" \notin met[n] => n \notin report.healthy
     /\ call.cli = "failed" /\ Known(call.target) =>
          \/ \E m \in Asked \union plan.caches : "lost" \in met[m]
          \/ plan.gateway /\ "wedged" \in met[Olla]
          \/ call.took + 4 * CallTimeout * Cardinality(hung) >= Patience
=============================================================================
