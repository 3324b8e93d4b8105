-------------------------- MODULE MCOperatorTools --------------------------
(***************************************************************************)
(* Three parts of the operator's tools that share no state: the status     *)
(* report, the clients' keys and the usage reports.  They are checked in   *)
(* one run, each on its own: a part moves only while the others are where  *)
(* they started, so that the states are the sum of theirs, not the product.*)
(***************************************************************************)
EXTENDS ClusterStatus, EnvKeys, UsageSummary

CONSTANTS n1, n2, h, q1, q2, p1, p2

StatusRank == n1 :> 1 @@ n2 :> 2 @@ h :> 3
StatusRuntime == "agent" :> "r1" @@ "coder" :> "r1"
StatusServes == [n \in Nodes |-> Aliases]
StatusClient == [q \in Requests |-> q]
StatusAlias == [q \in Requests |-> "agent"]
StatusInstalled == [n \in Nodes |-> 1]
(* The two lookups take the timeout of an unanswered one; of the calls to a*)
(* node the last is quick or slow.                                         *)
StatusDurations ==
  [s \in {"lookup", "gateway", "caches", "health", "models", "statuses",
           "activity", "omlx", "macos"} |->
     CASE s = "lookup" -> {5} [] s = "macos" -> {0, 10} [] OTHER -> {0}]
StatusTargets == {"all", h, "nobody"}

EnvClients == {<<"_", "DOT", "_">>, <<"_", "dash", "-">>, <<"-", "dash", "_">>}

Record(at, client, latency, model, endpoint, status) ==
  [at |-> at, client |-> client, latency |-> latency, model |-> model,
   endpoint |-> endpoint, status |-> status]
UsageLines ==
  {Broken,
   Record(11, "u", 5, "m", <<"n1", "0">>, 200),
   Record(12, "u", 9, "tool", <<"n1">>, 500),
   Record(21, "u", 7, "m", <<"n1", "0">>, 200),
   Record(0,  "v", 6, "m", <<"n1", "0">>, 200),
   Record(12, "v", NoLatency, "", <<>>, 200),
   Record(21, "unauthenticated", 1, "", <<>>, 401),
   Record(11, "", 3, "m", <<"n1">>, 200)}

Sample(at, node, models, count) ==
  [at |-> at, node |-> node, models |-> models, count |-> count]
UsageSamples ==
  {Broken,
   Sample(11, "n1", <<"m", "k">>, 0), Sample(12, "n1", <<>>, 0),
   Sample(12, "n1", <<"m", "tool">>, 2), Sample(21, "n1", NoList, 3),
   Sample(0, "n1", <<"k">>, 1), Sample(11, "", <<"m">>, 1),
   Sample(12, "n1", NoList, -1)}

ToolsInit == StatusInit /\ EnvInit /\ UsageInit

toolVars == <<statusVars, envVars, usageVars>>

StatusAtRest ==
  /\ call.cli = None /\ failures = 0 /\ \A q \in Requests : req[q].st = "new"
  /\ \A n \in Nodes, r \in Models : mem[n][r] = "cold"
EnvAtRest == steps = [edits |-> 0, runs |-> 0, crashes |-> 0] /\ ~editor.open
UsageAtRest == access = <<>> /\ metrics = <<>>

ToolsNext ==
  \/ EnvAtRest /\ UsageAtRest /\ StatusNext /\ UNCHANGED <<envVars, usageVars>>
  \/ StatusAtRest /\ UsageAtRest /\ EnvNext /\ UNCHANGED <<statusVars, usageVars>>
  \/ StatusAtRest /\ EnvAtRest /\ UsageNext /\ UNCHANGED <<statusVars, envVars>>

ToolsSpec == ToolsInit /\ [][ToolsNext]_toolVars

(* Requests are alike, and so are commands.                                *)
Symmetry == Permutations(Requests) \union Permutations(Commands)

(* Every variable holds a value of its type.                               *)
ToolsTypeOK == StatusTypeOK /\ EnvTypeOK
=============================================================================
