---------------------------- MODULE UsageSummary ----------------------------
(***************************************************************************)
(* What the operator is told of the logs: `usage report` (usage.py), of a  *)
(* day or of all, and `edge usage` (edge.py), which counts the same access *)
(* log by rules of its own.  Pure functions of two files that grow line by *)
(* line, in any order, with lines of older versions and broken ones.       *)
(*                                                                         *)
(* A timestamp is a number: its day and, as last digit, its hour; none is  *)
(* 0, and a broken line (not a JSON object) has -1.  Names have no blanks  *)
(* around them; none is "".                                                *)
(***************************************************************************)
EXTENDS Integers, FiniteSets, Sequences, SequencesExt

CONSTANTS
  Lines,        (* lines the access log may get                            *)
  Samples,      (* lines the metrics log may get                           *)
  ToolModels,   (* operations.usage.exclude_models                         *)
  KnownOnly,    (* operations.usage.exclude_unauthenticated                *)
  MaxLines      (* bound: lines of both logs                               *)

VARIABLES access, metrics

usageVars == <<access, metrics>>

Broken == [at |-> -1]
NoLatency == -1
NoCount == -1
NoList == <<"no list">>

Moments == {0} \union {t \in Nat : t >= 10}

ASSUME UsageAssumption ==
  /\ Lines \subseteq {Broken} \union
       [at : Moments, client : STRING, latency : Nat \union {NoLatency},
        model : STRING, endpoint : Seq(STRING), status : Nat]
  /\ Samples \subseteq {Broken} \union
       [at : Moments, node : STRING, models : Seq(STRING), count : Nat \union {NoCount}]

UsageInit == access = <<>> /\ metrics = <<>>

Room == Len(access) + Len(metrics) < MaxLines
Logged(l) == Room /\ access' = Append(access, l) /\ UNCHANGED metrics
Sampled(s) == Room /\ metrics' = Append(metrics, s) /\ UNCHANGED access

UsageNext == (\E l \in Lines : Logged(l)) \/ (\E s \in Samples : Sampled(s))
----------------------------------------------------------------------------
(* Files and counters.                                                     *)

All == 0
Day(l) == l.at \div 10
Unknown == -1
Hour(l) == IF l.at = 0 THEN Unknown ELSE l.at % 10

BrokenIn(file) == {i \in DOMAIN file : file[i] = Broken}

(* Mutant of Within: a line without a timestamp belongs to every day.      *)
Within_Untimed(file, period) ==
  {i \in DOMAIN file \ BrokenIn(file) : period = All \/ Day(file[i]) \in {0, period}}

Within(file, period) ==
  {i \in DOMAIN file \ BrokenIn(file) : period = All \/ Day(file[i]) = period}

Sum(f(_), S) == SumFunctionOnSet([i \in S |-> f(i)], S)
Count(key(_), S) == [k \in {key(i) : i \in S} |-> Cardinality({i \in S : key(i) = k})]
SumBy(key(_), f(_), S) == [k \in {key(i) : i \in S} |-> Sum(f, {i \in S : key(i) = k})]

(* An endpoint is the parts of its name around "-omlx-"; none is <<>>.     *)
_derive_node_id_from_olla_endpoint(endpoint) == IF endpoint = <<>> THEN "" ELSE Head(endpoint)
----------------------------------------------------------------------------
(* usage report: the access log.                                           *)

Nameless(log, S) == {i \in S : log[i].client = ""}
Skipped(log, S) == {i \in S : KnownOnly /\ log[i].client = "unauthenticated"}
Unmeasured(log, S) ==
  {i \in S \ (Nameless(log, S) \union Skipped(log, S)) : log[i].latency = NoLatency}

Requested(log, S) == S \ (Nameless(log, S) \union Skipped(log, S) \union Unmeasured(log, S))

ofRequests(log, period) ==
  LET T == Within(log, period)
      S == Requested(log, T)
      M == {i \in S : log[i].model \notin {""} \union ToolModels}
      N == {i \in S : log[i].endpoint # <<>>}
      client(i) == log[i].client
      model(i) == log[i].model
      node(i) == _derive_node_id_from_olla_endpoint(log[i].endpoint)
      hour(i) == Hour(log[i])
      latency(i) == log[i].latency
  IN [total |-> Cardinality(S), consumed |-> Sum(latency, S),
      invalid |-> Cardinality(BrokenIn(log) \union Nameless(log, T) \union Unmeasured(log, T)),
      user |-> Count(client, S), userConsumed |-> SumBy(client, latency, S),
      model |-> Count(model, M), modelConsumed |-> SumBy(model, latency, M),
      userModel |-> Count(LAMBDA i : <<client(i), model(i)>>, M),
      node |-> Count(node, N), nodeConsumed |-> SumBy(node, latency, N),
      nodeHour |-> Count(LAMBDA i : <<node(i), hour(i)>>, {i \in N : log[i].at # 0}),
      hour |-> Count(hour, S), hourConsumed |-> SumBy(hour, latency, S),
      hourUser |-> Count(LAMBDA i : <<hour(i), client(i)>>, S),
      hourModel |-> Count(LAMBDA i : <<hour(i), model(i)>>, M)]
----------------------------------------------------------------------------
(* usage report: the metrics log.                                          *)

(* The names of a sample's list, without the operator's tools.             *)
ModelsOf(s) ==
  LET first[k \in 0..Len(s.models)] ==
        IF k = 0 THEN <<>>
        ELSE IF s.models[k] \in ToolModels THEN first[k - 1]
        ELSE Append(first[k - 1], s.models[k])
  IN IF s.models = NoList THEN <<>> ELSE first[Len(s.models)]

CountOf(s) == IF s.models = NoList THEN s.count ELSE Len(ModelsOf(s))

Set(f, k, v) == [x \in DOMAIN f \union {k} |-> IF x = k THEN v ELSE f[x]]

(* Mutant of Supersedes: of two samples of one moment, the first counts.   *)
Supersedes_Later(latest, s) ==
  \/ s.node \notin DOMAIN latest
  \/ 0 \in {latest[s.node], s.at}
  \/ s.at > latest[s.node]

(* A sample is passed over when it is older than the last one taken; one   *)
(* without a timestamp never is, and leaves nothing to compare with.       *)
Supersedes(latest, s) ==
  \/ s.node \notin DOMAIN latest
  \/ 0 \in {latest[s.node], s.at}
  \/ s.at >= latest[s.node]

Useful(s) == s.node # "" /\ (CountOf(s) # NoCount \/ ModelsOf(s) # <<>>)

(* The list is taken only when it is not empty, the count always (usage.py *)
(* 307).                                                                   *)
Take(hot, s) ==
  IF ~Useful(s) \/ ~Supersedes(hot.latest, s) THEN hot
  ELSE [latest |-> Set(hot.latest, s.node, s.at),
        models |-> IF ModelsOf(s) = <<>> THEN hot.models ELSE Set(hot.models, s.node, ModelsOf(s)),
        count  |-> IF CountOf(s) = NoCount THEN hot.count ELSE Set(hot.count, s.node, CountOf(s))]

Nothing == [latest |-> <<>>, models |-> <<>>, count |-> <<>>]

(* What is taken of the lines T of a file, one after the other.            *)
TakenOf(file, T) ==
  LET hot[k \in 0..Len(file)] ==
        IF k = 0 THEN Nothing
        ELSE IF k \in T THEN Take(hot[k - 1], file[k]) ELSE hot[k - 1]
  IN hot[Len(file)]

ofNodes(file, period) ==
  LET T == Within(file, period)
      hot == TakenOf(file, T)
  IN [present |-> hot.latest # <<>>, hot_loaded_models |-> hot.models,
      hot_loaded_count |-> hot.count,
      invalid |-> Cardinality(BrokenIn(file) \union {i \in T : file[i].node = ""})]

summarize_daily_usage(log, file, period) ==
  LET requests == ofRequests(log, period)
      nodes == ofNodes(file, period)
  IN [requests |-> requests, nodes |-> nodes, invalid |-> requests.invalid + nodes.invalid]

usage_report(period) == summarize_daily_usage(access, metrics, period)
----------------------------------------------------------------------------
(* edge usage.                                                             *)

(* The values are a function, of the lines they stand on.  The one at a    *)
(* place of the sorted list has as many up to it; the division is rounded  *)
(* up.                                                                     *)
UpTo(values, i) ==
  {j \in DOMAIN values : \/ values[j] < values[i]
                         \/ values[j] = values[i] /\ j <= i}

_nearest_rank_percentile(values, percentile) ==
  LET rank == (percentile * Cardinality(DOMAIN values) + 99) \div 100
      place == IF rank < 1 THEN 1 ELSE rank
  IN IF DOMAIN values = {} THEN 0
     ELSE values[CHOOSE i \in DOMAIN values : Cardinality(UpTo(values, i)) = place]

LatenciesOf(log, S) == [i \in {j \in S : log[j].latency # NoLatency} |-> log[i].latency]

Accounted(log) == {i \in Within(log, All) : log[i].client # ""}

summarize_edge_usage(log) ==
  LET S == Accounted(log)
      of(c) == {i \in S : log[i].client = c}
      summary(T) ==
        [requests |-> Cardinality(T),
         failures |-> Cardinality({i \in T : log[i].status >= 400}),
         models |-> Count(LAMBDA i : log[i].model, {i \in T : log[i].model # ""}),
         endpoints |-> Count(LAMBDA i : log[i].endpoint, {i \in T : log[i].endpoint # <<>>}),
         p50 |-> _nearest_rank_percentile(LatenciesOf(log, T), 50),
         p95 |-> _nearest_rank_percentile(LatenciesOf(log, T), 95)]
  IN [requests |-> Cardinality(S), invalid |-> Len(log) - Cardinality(S),
      clients |-> [c \in {log[i].client : i \in S} |-> summary(of(c))]]

edge_usage == summarize_edge_usage(access)
----------------------------------------------------------------------------
(* Properties.                                                             *)

In(f, k) == IF k \in DOMAIN f THEN f[k] ELSE 0

(* The reports of the days, and the lines without a timestamp, add up to   *)
(* the report of all, in every breakdown: no line is told twice or lost at *)
(* a day's edge.  Only the broken lines, which have no day, are counted in *)
(* every report (usage.py 210).                                            *)
DaysAddUp ==
  LET days == {Day(l) : l \in {access[i] : i \in DOMAIN access \ BrokenIn(access)}} \ {0}
      all == usage_report(All).requests
      of == [d \in days |-> usage_report(d).requests]
      undated == Requested(access, {i \in Within(access, All) : access[i].at = 0})
  IN /\ all.total = Sum(LAMBDA d : of[d].total, days) + Cardinality(undated)
     /\ \A c \in DOMAIN all.user :
          all.user[c] = Sum(LAMBDA d : In(of[d].user, c), days)
                          + Cardinality({i \in undated : access[i].client = c})
     /\ \A h \in DOMAIN all.hour \ {Unknown} :
          all.hour[h] = Sum(LAMBDA d : In(of[d].hour, h), days)
     /\ \A n \in DOMAIN all.nodeHour :
          all.nodeHour[n] = Sum(LAMBDA d : In(of[d].nodeHour, n), days)
     /\ \A d \in days : Unknown \notin DOMAIN of[d].hour

(* The two reports of one log agree: for every client they list the same   *)
(* number of requests, except those that have no latency, which one of     *)
(* them counts as requests and the other as invalid lines; neither loses a *)
(* line (usage.py 216 to 227, edge.py 525 to 541).                         *)
ReportsAgree ==
  LET daily == usage_report(All).requests
      edge == edge_usage
      T == Within(access, All)
      gap(c) == Cardinality({i \in Unmeasured(access, T) : access[i].client = c})
  IN /\ DOMAIN daily.user \subseteq DOMAIN edge.clients
     /\ \A c \in DOMAIN edge.clients :
          \/ KnownOnly /\ c = "unauthenticated" /\ c \notin DOMAIN daily.user
          \/ edge.clients[c].requests = In(daily.user, c) + gap(c)
     /\ edge.requests + edge.invalid =
          daily.total + daily.invalid + Cardinality(Skipped(access, T))

(* The p50 and p95 of a client are latencies it had: the least one that no *)
(* fewer than 50, or 95, percent of its requests did not exceed.           *)
PercentilesRank ==
  LET clients == edge_usage.clients
      least(S, p) == CHOOSE v \in {access[i].latency : i \in S} :
        /\ 100 * Cardinality({i \in S : access[i].latency <= v}) >= p * Cardinality(S)
        /\ 100 * Cardinality({i \in S : access[i].latency < v}) < p * Cardinality(S)
  IN \A c \in DOMAIN clients :
       LET S == {i \in Accounted(access) :
                   access[i].client = c /\ access[i].latency # NoLatency}
       IN IF S = {} THEN clients[c].p50 = 0 /\ clients[c].p95 = 0
          ELSE clients[c].p50 = least(S, 50) /\ clients[c].p95 = least(S, 95)

(* What the operator is told of the access log is true to it, whatever its *)
(* lines and their order.                                                  *)
AccountsTrue == access # <<>> => DaysAddUp /\ ReportsAgree /\ PercentilesRank

(* Whatever the order of the lines, the report shows of every node whose   *)
(* samples all have timestamps the count of the newest one, the last of    *)
(* several of one moment, and, unless that sample lists nothing, its list, *)
(* which then has as many models as the count says.  (After an empty list  *)
(* an old list stays beside the new count.)                                *)
NewestSampleShown ==
  \A period \in {All} \union {Day(s) : s \in Samples \ {Broken}} :
    LET hot == usage_report(period).nodes
        mine(n) == {i \in Within(metrics, period) : metrics[i].node = n /\ Useful(metrics[i])}
        newest(n) == CHOOSE i \in mine(n) :
                       \A j \in mine(n) : \/ metrics[j].at < metrics[i].at
                                          \/ metrics[j].at = metrics[i].at /\ j <= i
    IN \A n \in {metrics[i].node : i \in DOMAIN metrics \ BrokenIn(metrics)} \ {""} :
         (mine(n) # {} /\ \A i \in mine(n) : metrics[i].at # 0) =>
           LET s == metrics[newest(n)]
           IN /\ hot.hot_loaded_count[n] = CountOf(s)
              /\ ModelsOf(s) # <<>> => /\ hot.hot_loaded_models[n] = ModelsOf(s)
                                     /\ Len(ModelsOf(s)) = hot.hot_loaded_count[n]
=============================================================================
