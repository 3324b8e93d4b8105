----------------------- MODULE ClusterPrepareProofs ------------------------
(* Proofs about ClusterPrepare, for any cluster, any settings without a    *)
(* key and any bounds.                                                     *)
EXTENDS ClusterPrepare, TLAPS

Stages == {"idle", "lookup", "install", "sidecar", "config", "gateway", "olla",
           "edge", "hub", "tag", "tooling", "auth", "setup", "restart", "pool"}

(* What the machines hold, and what the command holds.                     *)
HostsTyped ==
  /\ olla \in [binary : Version, sidecar : Version]
  /\ gateway \in [config : Rev, ready : BOOLEAN, olla : Version, with : Rev, edge : Rev]
  /\ node \in [Nodes -> Node]

ControlTyped ==
  /\ stage \in Stages
  /\ todo \in SUBSET Nodes
  /\ thread \in [Nodes -> {"none", "queued", "running", "ok", "failed", "raised"}]
  /\ cmd \in Commands
  /\ result \in {"none", "nothing", "failed", "complete"}
  /\ torn \in BOOLEAN
  /\ runs \in 0..MaxRuns

WorldTyped ==
  /\ release \in Version \ {0}
  /\ rev \in Rev \ {0}
  /\ mishaps \in 0..MaxMishaps

LEMMA TypeParts == TypeOK <=> HostsTyped /\ ControlTyped /\ WorldTyped
BY DEF TypeOK, HostsTyped, ControlTyped, WorldTyped, Stages

LEMMA TargetsTyped ==
  ASSUME NEW c \in Commands
  PROVE  Caches(c) \in SUBSET Nodes /\ Inference(c) \in SUBSET Nodes
BY DEF Caches, Inference, With, Commands

LEMMA InferenceTyped == ASSUME TypeOK PROVE Inference(cmd) \in SUBSET Nodes
BY TargetsTyped DEF TypeOK

LEMMA SmallTyped == 0 \in Version /\ 1 \in Version /\ 0 \in Rev /\ 1 \in Rev
BY PrepareAssumption DEF Version, Rev

(* Where a command may go.                                                 *)
LEMMA EndTyped ==
  ASSUME ControlTyped, NEW r \in {"nothing", "failed", "complete"}, End(r)
  PROVE  ControlTyped'
BY DEF ControlTyped, End, Stages

LEMMA FailTyped == ASSUME ControlTyped, Fail PROVE ControlTyped'
BY EndTyped DEF Fail

LEMMA GotoTyped ==
  ASSUME ControlTyped, NEW s \in Stages, NEW S \in SUBSET Nodes, Goto(s, S)
  PROVE  ControlTyped'
BY DEF ControlTyped, Goto

LEMMA AfterTyped == ASSUME ControlTyped, NEW p, After(p) PROVE ControlTyped'
<1>1. \/ Goto("hub", Caches(cmd)) \/ Goto("tag", {}) \/ End("complete")
  BY DEF After
<1> QED
  BY <1>1, TargetsTyped, GotoTyped, EndTyped DEF Stages, ControlTyped

LEMMA MishapTyped ==
  ASSUME WorldTyped, NEW k \in 1..2, Mishap(k)
  PROVE  mishaps' \in 0..MaxMishaps
BY PrepareAssumption DEF WorldTyped, Mishap

(* What a step may do to a node.                                           *)
LEMMA NodeKinds ==
  ASSUME HostsTyped, ControlTyped, NEW n \in Nodes
  PROVE  /\ Tooled(n) \in [Nodes -> Node]
         /\ Keyed(n) \in [Nodes -> Node]
         /\ \A k \in BOOLEAN : Untooled(n, k) \in [Nodes -> Node]
         /\ [node EXCEPT ![n].ready = TRUE] \in [Nodes -> Node]
<1>1. Tooled(n) \in [Nodes -> Node]
  BY DEF Tooled, HostsTyped, ControlTyped, Node, Commands
<1>2. Keyed(n) \in [Nodes -> Node]
  BY DEF Keyed, HostsTyped, ControlTyped, Node, Commands
<1>3. ASSUME NEW k \in BOOLEAN PROVE Untooled(n, k) \in [Nodes -> Node]
  <2>1. 0 \in Version /\ node[n] \in Node
    BY SmallTyped DEF HostsTyped
  <2>2. (IF k THEN 0 ELSE node[n].up) \in Version
    BY <2>1 DEF Node
  <2>3. [node[n] EXCEPT !.tool = 0, !.up = IF k THEN 0 ELSE node[n].up] \in Node
    BY <2>1, <2>2 DEF Node
  <2>4. Untooled(n, k) =
          [node EXCEPT ![n] = [node[n] EXCEPT !.tool = 0, !.up = IF k THEN 0 ELSE node[n].up]]
    BY DEF Untooled
  <2> QED
    BY <2>3, <2>4 DEF HostsTyped
<1>4. [node EXCEPT ![n].ready = TRUE] \in [Nodes -> Node]
  BY DEF HostsTyped, Node
<1> QED
  BY <1>1, <1>2, <1>3, <1>4

LEMMA UpDownKinds ==
  ASSUME NEW f \in [Nodes -> Node], NEW n \in Nodes
  PROVE  Up(f, n) \in [Nodes -> Node] /\ Down(f, n) \in [Nodes -> Node]
<1>1. [f[n] EXCEPT !.up = f[n].tool, !.with = f[n].auth] \in Node
  BY DEF Node
<1>2. Down(f, n) \in [Nodes -> Node]
  BY SmallTyped DEF Down, Node
<1> QED
  BY <1>1, <1>2 DEF Up

LEMMA RestartKinds ==
  ASSUME HostsTyped, NEW n \in Nodes, Restarted(n) \/ NotRestarted(n) \/ TimedOut(n)
  PROVE  node' \in [Nodes -> Node]
<1>1. node' \in {node, Down(node, n), Up(node, n)}
  BY DEF Restarted, NotRestarted, TimedOut
<1> QED
  BY <1>1, UpDownKinds DEF HostsTyped

LEMMA RestartMishaps ==
  ASSUME WorldTyped, NEW n \in Nodes, Restarted(n) \/ NotRestarted(n) \/ TimedOut(n)
  PROVE  mishaps' \in 0..MaxMishaps
BY MishapTyped DEF Restarted, NotRestarted, TimedOut, WorldTyped

LEMMA GatewayKinds ==
  ASSUME HostsTyped, WorldTyped
  PROVE  \A g \in [config : Rev, ready : BOOLEAN, olla : Version, with : Rev, edge : Rev] :
           /\ OllaUp(g) \in [config : Rev, ready : BOOLEAN, olla : Version, with : Rev, edge : Rev]
           /\ EdgeUp(g) \in [config : Rev, ready : BOOLEAN, olla : Version, with : Rev, edge : Rev]
BY DEF HostsTyped, WorldTyped, OllaUp, EdgeUp
-----------------------------------------------------------------------------
(* Type correctness.                                                       *)

LEMMA LookupTyped ==
  ASSUME HostsTyped, ControlTyped, WorldTyped, Lookup
  PROVE  HostsTyped' /\ ControlTyped' /\ mishaps' \in 0..MaxMishaps
<1>1. HostsTyped'
  BY DEF Lookup, HostsTyped, hosts
<1>2. mishaps' \in 0..MaxMishaps
  BY MishapTyped DEF Lookup, ResolveVersion, WorldTyped
<1>3. cmd' \in Commands
  <2>1. cmd.pin \in Version /\ release \in Version /\ Default \in Version
    BY PrepareAssumption DEF ControlTyped, WorldTyped, Commands, Version
  <2>2. \E v \in Version : \/ cmd' = [cmd EXCEPT !.want = v]
                          \/ cmd' = [cmd EXCEPT !.want = v, !.fell = TRUE]
    BY <2>1 DEF Lookup, ResolveVersion
  <2> QED
    BY <2>2 DEF ControlTyped, Commands
<1> QED
  BY <1>1, <1>2, <1>3 DEF Lookup, ControlTyped, Stages

LEMMA GatewayTyped ==
  ASSUME HostsTyped, ControlTyped, WorldTyped,
         Replace \/ Sidecar \/ WriteConfig \/ SetupGateway \/ RestartOlla \/ RestartEdge
  PROVE  HostsTyped' /\ ControlTyped' /\ mishaps' \in 0..MaxMishaps
<1> USE DEF WorldTyped
<1>1. CASE Replace
  BY <1>1 DEF Replace, HostsTyped, ControlTyped, Commands, Stages
<1>2. CASE Sidecar
  <2>1. ControlTyped'
    BY <1>2, GotoTyped DEF Sidecar, Stages
  <2> QED
    BY <1>2, <2>1 DEF Sidecar, HostsTyped, ControlTyped, Commands
<1>3. CASE WriteConfig
  <2>1. ControlTyped'
    BY <1>3, GotoTyped DEF WriteConfig, Stages
  <2> QED
    BY <1>3, <2>1 DEF WriteConfig, HostsTyped, ControlTyped, Commands
<1>4. CASE SetupGateway
  <2>1. ControlTyped'
    BY <1>4, AfterTyped, FailTyped DEF SetupGateway
  <2>2. mishaps' \in 0..MaxMishaps
    BY <1>4, MishapTyped DEF SetupGateway
  <2>3. HostsTyped'
    <3> DEFINE Gw == [config : Rev, ready : BOOLEAN, olla : Version, with : Rev, edge : Rev]
    <3>1. gateway \in Gw /\ OllaUp(gateway) \in Gw /\ EdgeUp(OllaUp(gateway)) \in Gw
      BY GatewayKinds DEF HostsTyped
    <3>2. [EdgeUp(OllaUp(gateway)) EXCEPT !.ready = TRUE] \in Gw
      BY <3>1
    <3>3. [gateway EXCEPT !.olla = 0, !.edge = 0] \in Gw
      BY <3>1, SmallTyped
    <3>4. gateway' \in Gw
      BY <1>4, <3>1, <3>2, <3>3 DEF SetupGateway
    <3> QED
      BY <1>4, <3>4 DEF SetupGateway, HostsTyped
  <2> QED
    BY <2>1, <2>2, <2>3
<1>5. CASE RestartOlla \/ RestartEdge
  <2> DEFINE Gw == [config : Rev, ready : BOOLEAN, olla : Version, with : Rev, edge : Rev]
  <2>1. gateway \in Gw /\ OllaUp(gateway) \in Gw /\ EdgeUp(gateway) \in Gw
    BY GatewayKinds DEF HostsTyped
  <2>2. [gateway EXCEPT !.olla = 0] \in Gw /\ [gateway EXCEPT !.edge = 0] \in Gw
    BY <2>1, SmallTyped
  <2>3. gateway' \in Gw
    BY <1>5, <2>1, <2>2 DEF RestartOlla, RestartEdge, RestartService
  <2>4. HostsTyped'
    BY <1>5, <2>3 DEF RestartOlla, RestartEdge, RestartService, HostsTyped
  <2>5. mishaps' \in 0..MaxMishaps
    BY <1>5, MishapTyped DEF RestartOlla, RestartEdge, RestartService
  <2>6. Goto("edge", {}) \/ Goto("pool", {}) \/ End("complete") \/ Fail
    BY <1>5 DEF RestartOlla, RestartEdge, RestartService
  <2>7. ControlTyped'
    BY <2>6, GotoTyped, EndTyped, FailTyped DEF Stages
  <2> QED
    BY <2>4, <2>5, <2>7
<1> QED
  BY <1>1, <1>2, <1>3, <1>4, <1>5

LEMMA NodesTyped ==
  ASSUME HostsTyped, ControlTyped, WorldTyped, NEW n \in Nodes,
         PrepareHub(n) \/ Tooling(n) \/ Auth(n) \/ Setup(n) \/ Restart(n)
  PROVE  HostsTyped' /\ ControlTyped' /\ mishaps' \in 0..MaxMishaps
<1> USE DEF WorldTyped
<1>0. UNCHANGED <<olla, gateway>>
  BY DEF PrepareHub, Tooling, Auth, Setup, Restart
<1>a. ASSUME NEW s \in Stages, Goto(s, todo) \/ Goto(s, todo \ {n})
      PROVE  ControlTyped'
  BY <1>a, GotoTyped DEF ControlTyped
<1>1. CASE PrepareHub(n)
  <2>1. node' \in [Nodes -> Node]
    <3>1. node' = node \/ \E k \in BOOLEAN : node' = Untooled(n, k)
      BY <1>1 DEF PrepareHub
    <3>2. ASSUME NEW k \in BOOLEAN, node' = Untooled(n, k)
          PROVE  node' \in [Nodes -> Node]
      BY <3>2, NodeKinds
    <3> QED
      BY <3>1, <3>2 DEF HostsTyped
  <2>2. ControlTyped'
    BY <1>1, <1>a, AfterTyped, FailTyped DEF PrepareHub, NextHub, Stages
  <2>3. mishaps' \in 0..MaxMishaps
    BY <1>1, MishapTyped DEF PrepareHub
  <2> QED
    BY <1>0, <2>1, <2>2, <2>3 DEF HostsTyped
<1>2. CASE Tooling(n)
  <2>1. node' \in [Nodes -> Node]
    <3>1. node' = node \/ node' = Tooled(n)
      BY <1>2 DEF Tooling
    <3>2. Tooled(n) \in [Nodes -> Node]
      BY NodeKinds
    <3> QED
      BY <3>1, <3>2 DEF HostsTyped
  <2>2. ControlTyped'
    BY <1>2, <1>a, FailTyped DEF Tooling, Stages
  <2>3. mishaps' \in 0..MaxMishaps
    BY <1>2, MishapTyped DEF Tooling
  <2> QED
    BY <1>0, <2>1, <2>2, <2>3 DEF HostsTyped
<1>3. CASE Auth(n)
  <2>1. node' \in [Nodes -> Node]
    BY <1>3, NodeKinds DEF Auth
  <2>2. ControlTyped'
    BY <1>3, <1>a, FailTyped DEF Auth, Stages
  <2> QED
    BY <1>0, <1>3, <2>1, <2>2 DEF Auth, HostsTyped
<1>4. CASE Setup(n)
  <2>1. node' \in [Nodes -> Node]
    <3> DEFINE done == [node EXCEPT ![n].ready = TRUE]
    <3>1. node \in [Nodes -> Node] /\ done \in [Nodes -> Node]
      BY DEF HostsTyped, Node
    <3>2. node' \in {node, Down(node, n), Down(done, n), Up(done, n)}
      BY <1>4 DEF Setup
    <3> HIDE DEF done
    <3> QED
      BY <3>1, <3>2, UpDownKinds
  <2>2. ControlTyped'
    BY <1>4, <1>a, FailTyped DEF Setup, Stages
  <2>3. mishaps' \in 0..MaxMishaps
    BY <1>4, MishapTyped DEF Setup
  <2> QED
    BY <1>0, <2>1, <2>2, <2>3 DEF HostsTyped
<1>5. CASE Restart(n)
  <2>1. node' \in [Nodes -> Node] /\ mishaps' \in 0..MaxMishaps
    BY <1>5, RestartKinds, RestartMishaps DEF Restart
  <2>2. ControlTyped'
    BY <1>5, <1>a, AfterTyped, FailTyped DEF Restart, Stages
  <2> QED
    BY <1>0, <2>1, <2>2 DEF HostsTyped
<1> QED
  BY <1>1, <1>2, <1>3, <1>4, <1>5

LEMMA PoolTyped ==
  ASSUME HostsTyped, ControlTyped, WorldTyped, NEW n \in Nodes,
         ThreadBegins(n) \/ ThreadEnds(n)
  PROVE  HostsTyped' /\ ControlTyped' /\ mishaps' \in 0..MaxMishaps
<1>1. CASE ThreadBegins(n)
  BY <1>1 DEF ThreadBegins, Settle, HostsTyped, ControlTyped, WorldTyped, hosts
<1>2. CASE ThreadEnds(n)
  <2>1. node' \in [Nodes -> Node] /\ mishaps' \in 0..MaxMishaps
    BY <1>2, RestartKinds, RestartMishaps DEF ThreadEnds
  <2>2. PICK s \in {"ok", "failed", "raised"} : Settle(n, s)
    BY <1>2 DEF ThreadEnds
  <2> QED
    BY <1>2, <2>1, <2>2 DEF ThreadEnds, Settle, HostsTyped, ControlTyped
<1> QED
  BY <1>1, <1>2

LEMMA StepTyped ==
  ASSUME HostsTyped, ControlTyped, WorldTyped, Step
  PROVE  HostsTyped' /\ ControlTyped' /\ mishaps' \in 0..MaxMishaps
<1>1. CASE ResolveTag
  <2>1. HostsTyped' /\ mishaps' = mishaps
    BY <1>1 DEF ResolveTag, HostsTyped, hosts
  <2>2. CASE Fail
    BY <2>1, <2>2, FailTyped DEF WorldTyped
  <2>3. CASE ~Fail
    <3>1. cmd' \in Commands
      BY <1>1, <2>3 DEF ResolveTag, ControlTyped, WorldTyped, Commands
    <3> QED
      BY <1>1, <2>1, <2>3, <3>1, TargetsTyped
         DEF ResolveTag, ControlTyped, WorldTyped, Stages
  <2> QED
    BY <2>2, <2>3
<1>2. CASE Report
  BY <1>2, FailTyped, EndTyped DEF Report, HostsTyped, WorldTyped, hosts
<1> QED
  BY <1>1, <1>2, LookupTyped, GatewayTyped, NodesTyped, PoolTyped DEF Step

LEMMA StartTyped == ASSUME ControlTyped, WorldTyped, Start PROVE ControlTyped'
<1>1. cmd' \in Commands
  <2>1. PICK kind \in {"prepare", "restart"}, T \in {Nodes} \union {{n} : n \in Nodes},
             u \in BOOLEAN, pin \in 0..release :
          cmd' = [kind |-> kind, targets |-> T, upgrade |-> u, pin |-> pin,
                  rev |-> rev, want |-> 0, fell |-> FALSE, tag |-> 0, calm |-> mishaps]
    BY DEF Start
  <2>2. T \in SUBSET Nodes /\ pin \in Version
    BY PrepareAssumption DEF WorldTyped, Version
  <2> QED
    BY <2>1, <2>2, SmallTyped DEF Commands, WorldTyped
<1>2. stage' \in Stages
  BY DEF Start, First, Stages
<1>3. todo' \in SUBSET Nodes
  BY <1>1, TargetsTyped DEF Start
<1>4. thread' \in [Nodes -> {"none", "queued", "running", "ok", "failed", "raised"}]
  BY DEF Start
<1>5. /\ result' \in {"none", "nothing", "failed", "complete"}
      /\ torn' \in BOOLEAN /\ runs' \in 0..MaxRuns
  BY PrepareAssumption DEF Start, ControlTyped
<1> QED
  BY <1>1, <1>2, <1>3, <1>4, <1>5 DEF ControlTyped

LEMMA NextTyped == TypeOK /\ [Next]_vars => TypeOK'
<1> SUFFICES ASSUME HostsTyped, ControlTyped, WorldTyped, [Next]_vars
             PROVE  HostsTyped' /\ ControlTyped' /\ WorldTyped'
  BY DEF TypeOK, HostsTyped, ControlTyped, WorldTyped, Stages
<1>1. CASE Start
  BY <1>1, StartTyped DEF Start, HostsTyped, WorldTyped, hosts
<1>2. CASE Step
  BY <1>2, StepTyped DEF Step, WorldTyped
<1>3. CASE Cut
  BY <1>3, FailTyped, MishapTyped DEF Cut, HostsTyped, WorldTyped, hosts
<1>4. CASE Release \/ Edit
  BY <1>4, PrepareAssumption
     DEF Release, Edit, HostsTyped, ControlTyped, WorldTyped, hosts, control, Version, Rev
<1>5. ASSUME NEW n \in Nodes, Crash(n) \/ KeepAlive(n)
      PROVE  HostsTyped' /\ ControlTyped' /\ WorldTyped'
  <2>1. node' \in [Nodes -> Node]
    BY <1>5, UpDownKinds DEF Crash, KeepAlive, HostsTyped
  <2>2. mishaps' \in 0..MaxMishaps
    BY <1>5, MishapTyped DEF Crash, KeepAlive, WorldTyped
  <2> QED
    BY <1>5, <2>1, <2>2 DEF Crash, KeepAlive, HostsTyped, ControlTyped, WorldTyped, control
<1>6. CASE UNCHANGED vars
  BY <1>6 DEF vars, hosts, control, HostsTyped, ControlTyped, WorldTyped
<1> QED
  BY <1>1, <1>2, <1>3, <1>4, <1>5, <1>6 DEF Next

LEMMA InitTyped == Init => TypeOK
<1> SUFFICES ASSUME Init PROVE HostsTyped /\ ControlTyped /\ WorldTyped
  BY TypeParts
<1>1. Bare \in Node /\ Serving \in Node
  BY PrepareAssumption DEF Bare, Serving, Node, Version, Rev
<1>2. HostsTyped
  <2>1. node \in [Nodes -> Node]
    BY <1>1 DEF Init
  <2>2. olla \in [binary : Version, sidecar : Version]
    BY SmallTyped DEF Init
  <2>3. gateway \in [config : Rev, ready : BOOLEAN, olla : Version, with : Rev, edge : Rev]
    <3>1. \E v \in {0, 1}, b \in BOOLEAN :
            gateway = [config |-> v, ready |-> b, olla |-> v, with |-> v, edge |-> v]
      BY DEF Init
    <3>2. \A v \in {0, 1} : v \in Version /\ v \in Rev
      BY SmallTyped
    <3> QED
      BY <3>1, <3>2
  <2> QED
    BY <2>1, <2>2, <2>3 DEF HostsTyped
<1>3. ControlTyped
  <2>1. cmd \in Commands
    <3>1. 0 \in 0..MaxMishaps
      BY PrepareAssumption
    <3> QED
      BY <3>1, SmallTyped DEF Init, Commands
  <2>2. runs \in 0..MaxRuns
    BY PrepareAssumption DEF Init
  <2> QED
    BY <2>1, <2>2 DEF Init, ControlTyped, Stages
<1>4. WorldTyped
  BY PrepareAssumption DEF Init, WorldTyped, Version, Rev
<1> QED
  BY <1>2, <1>3, <1>4

(* Types are kept by every stage of a prepare or restart, wherever it      *)
(* fails, and by launchd, releases and edits beside it.                    *)
THEOREM TypeCorrect == Spec => []TypeOK
BY InitTyped, NextTyped, PTL DEF Spec
-----------------------------------------------------------------------------
(* What a command keeps: who it is for, and the threads outside the pool.  *)

SameCommand ==
  /\ cmd'.kind = cmd.kind /\ cmd'.targets = cmd.targets
  /\ cmd'.upgrade = cmd.upgrade /\ cmd'.pin = cmd.pin
  /\ cmd'.rev = cmd.rev /\ cmd'.calm = cmd.calm

LEMMA MoveKeeps ==
  ASSUME \/ \E s, S : Goto(s, S)
         \/ \E r : End(r)
         \/ Fail
         \/ \E p : After(p)
  PROVE  cmd' = cmd /\ thread' = thread /\ runs' = runs
BY DEF Goto, End, Fail, After

LEMMA CommandKept ==
  ASSUME TypeOK, Step \/ Cut
  PROVE  /\ stage # "idle"
         /\ SameCommand
         /\ stage # "pool" => thread' = thread
         /\ mishaps' >= mishaps
<1> USE DEF SameCommand, Mishap
<1>0. mishaps \in Int
  BY PrepareAssumption DEF TypeOK
<1>1. CASE Lookup
  <2>1. \E v : cmd' = [cmd EXCEPT !.want = v] \/ cmd' = [cmd EXCEPT !.want = v, !.fell = TRUE]
    BY <1>1 DEF Lookup, ResolveVersion
  <2>2. SameCommand
    BY <2>1 DEF TypeOK, Commands
  <2> QED
    BY <1>0, <1>1, <2>2 DEF Lookup, ResolveVersion
<1>2. CASE Replace
  BY <1>0, <1>2 DEF Replace
<1>3. CASE Sidecar \/ WriteConfig \/ SetupGateway
  BY <1>0, <1>3, MoveKeeps DEF Sidecar, WriteConfig, SetupGateway
<1>4. CASE RestartOlla \/ RestartEdge
  <2>1. Goto("edge", {}) \/ Goto("pool", {}) \/ End("complete") \/ Fail
    BY <1>4 DEF RestartOlla, RestartEdge, RestartService
  <2> QED
    BY <1>0, <1>4, <2>1, MoveKeeps DEF RestartOlla, RestartEdge, RestartService
<1>5. CASE ResolveTag
  BY <1>0, <1>5, MoveKeeps DEF ResolveTag, TypeOK, Commands
<1>6. CASE Report
  BY <1>0, <1>6, MoveKeeps DEF Report
<1>7. ASSUME NEW n \in Nodes,
             PrepareHub(n) \/ Tooling(n) \/ Auth(n) \/ Setup(n)
      PROVE  /\ stage # "idle" /\ cmd' = cmd /\ thread' = thread /\ mishaps' >= mishaps
  BY <1>0, <1>7, MoveKeeps DEF PrepareHub, NextHub, Tooling, Auth, Setup
<1>8. ASSUME NEW n \in Nodes, Restart(n)
      PROVE  /\ stage # "idle" /\ cmd' = cmd /\ thread' = thread /\ mishaps' >= mishaps
  BY <1>0, <1>8, MoveKeeps DEF Restart, Restarted, NotRestarted, TimedOut
<1>9. ASSUME NEW n \in Nodes, ThreadBegins(n) \/ ThreadEnds(n)
      PROVE  stage = "pool" /\ cmd' = cmd /\ mishaps' >= mishaps
  BY <1>0, <1>9 DEF ThreadBegins, ThreadEnds, Restarted, NotRestarted, TimedOut
<1>10. CASE Cut
  BY <1>0, <1>10, MoveKeeps DEF Cut
<1> QED
  BY <1>1, <1>2, <1>3, <1>4, <1>5, <1>6, <1>7, <1>8, <1>9, <1>10 DEF Step

(* What goes on beside a command.                                          *)
Beside == \/ Release \/ Edit \/ UNCHANGED vars
          \/ \E n \in Nodes : Crash(n) \/ KeepAlive(n)

LEMMA BesideKeeps ==
  ASSUME TypeOK, Beside
  PROVE  /\ UNCHANGED <<control, olla, gateway>>
         /\ rev' >= rev /\ release' >= release /\ mishaps' >= mishaps
         /\ rev' \in Int /\ release' \in Int /\ mishaps' \in Int
BY PrepareAssumption
   DEF Beside, Release, Edit, Crash, KeepAlive, Mishap, vars, hosts, control, TypeOK,
       Version, Rev

LEMMA NextCases == [Next]_vars => Start \/ Step \/ Cut \/ Beside
BY DEF Next, Beside
-----------------------------------------------------------------------------
(* EveryNodeTried.  Outside the pool no thread has run.                    *)

ThreadInv ==
  /\ stage \notin {"idle", "pool"} => \A n \in Nodes : thread[n] \in {"queued", "none"}
  /\ EveryNodeTried
  /\ (stage # "idle" /\ cmd.kind = "restart")
       => \A n \in Inference(cmd) : thread[n] # "none"

LEMMA StartThreads ==
  ASSUME TypeOK, Start
  PROVE  /\ \A n \in Nodes :
              thread'[n] = IF cmd'.kind = "restart" /\ n \in Inference(cmd')
                           THEN "queued" ELSE "none"
         /\ Inference(cmd') \in SUBSET Nodes
<1>1. ControlTyped' => cmd' \in Commands
  BY DEF ControlTyped
<1> QED
  BY <1>1, StartTyped, TypeParts, TargetsTyped DEF Start

LEMMA ThreadStep == TypeOK /\ ThreadInv /\ [Next]_vars => ThreadInv'
<1> SUFFICES ASSUME TypeOK, ThreadInv, [Next]_vars PROVE ThreadInv'
  OBVIOUS
<1>1. CASE Start
  <2>1. \A n \in Nodes : thread'[n] \in {"queued", "none"}
    BY <1>1, StartThreads
  <2>2. cmd'.kind = "restart" => \A n \in Inference(cmd') : thread'[n] # "none"
    BY <1>1, StartThreads, InferenceTyped
  <2> QED
    BY <2>1, <2>2 DEF ThreadInv, EveryNodeTried, Inference, With
<1>2. CASE (Step \/ Cut) /\ stage # "pool"
  <2>1. stage # "idle" /\ thread' = thread /\ SameCommand
    BY <1>2, CommandKept
  <2> QED
    BY <1>2, <2>1 DEF ThreadInv, EveryNodeTried, Inference, SameCommand
<1>3. CASE Step /\ stage = "pool"
  <2>1. \/ Report
        \/ \E n \in Nodes : ThreadBegins(n) \/ ThreadEnds(n)
    BY <1>3 DEF Step, Lookup, Replace, Sidecar, WriteConfig, SetupGateway, RestartOlla,
                RestartEdge, RestartService, ResolveTag, PrepareHub, Tooling, Auth,
                Setup, Restart
  <2>2. CASE Report
    BY <2>2 DEF Report, Fail, End, ThreadInv, EveryNodeTried
  <2>3. ASSUME NEW n \in Nodes, ThreadBegins(n) \/ ThreadEnds(n) PROVE ThreadInv'
    <3>1. PICK s \in {"running", "ok", "failed", "raised"} : Settle(n, s)
      BY <2>3 DEF ThreadBegins, ThreadEnds
    <3>2. stage' = "pool" /\ cmd' = cmd
      BY <1>3, <2>3 DEF ThreadBegins, ThreadEnds
    <3> QED
      BY <1>3, <3>1, <3>2, InferenceTyped
         DEF ThreadInv, EveryNodeTried, Settle, TypeOK, Inference
  <2> QED
    BY <2>1, <2>2, <2>3
<1>4. CASE Beside
  BY <1>4, BesideKeeps DEF control, ThreadInv, EveryNodeTried, Inference
<1>5. ~(Cut /\ stage = "pool")
  BY DEF Cut
<1> QED
  BY <1>1, <1>2, <1>3, <1>4, <1>5, NextCases

(* A restart reaches every inference node, whichever fails or raises.      *)
THEOREM EveryoneTried == Spec => []EveryNodeTried
<1>1. Init => ThreadInv
  BY DEF Init, ThreadInv, EveryNodeTried
<1>2. ThreadInv => EveryNodeTried
  BY DEF ThreadInv
<1> QED
  BY <1>1, <1>2, TypeCorrect, ThreadStep, PTL DEF Spec
-----------------------------------------------------------------------------
(* OnlyForward.  The release that is wanted is looked up before the binary *)
(* is replaced; the sidecar names the binary unless a run was cut between. *)

OllaInv ==
  /\ Default <= release /\ olla.binary <= release
  /\ cmd.pin \in 0..release
  /\ stage \in {"install", "sidecar"} => cmd.want <= release
  /\ (stage = "install" /\ cmd.pin = 0 /\ ~cmd.fell) => olla.binary <= cmd.want
  /\ stage = "sidecar" => olla.binary = cmd.want
  /\ (~torn /\ stage # "sidecar") => olla.sidecar = olla.binary
  /\ (stage \in {"config", "gateway"} /\ cmd.kind = "prepare" /\ ~torn)
       => olla.binary = cmd.want

(* Past the config nothing touches the binary or what is wanted.           *)
LEMMA Later ==
  ASSUME TypeOK, Step, stage \notin {"lookup", "install", "sidecar", "config"}
  PROVE  /\ stage' \notin {"lookup", "install", "sidecar", "config", "gateway", "olla"}
         /\ olla' = olla /\ torn' = torn
         /\ cmd'.want = cmd.want /\ cmd'.fell = cmd.fell
<1> USE DEF TypeOK
<1>a. ASSUME NEW r, End(r) PROVE stage' = "idle" /\ torn' = torn
  BY <1>a DEF End
<1>b. ASSUME NEW p, After(p) PROVE stage' \in {"idle", "hub", "tag"} /\ torn' = torn
  BY <1>b, <1>a DEF After, Goto
<1>1. CASE SetupGateway
  BY <1>1, <1>a, <1>b, MoveKeeps DEF SetupGateway, Fail
<1>2. CASE RestartOlla \/ RestartEdge
  <2>1. Goto("edge", {}) \/ Goto("pool", {}) \/ End("complete") \/ Fail
    BY <1>2 DEF RestartOlla, RestartEdge, RestartService
  <2>2. stage' \in {"edge", "pool", "idle"} /\ torn' = torn
    BY <2>1, <1>a DEF Goto, Fail
  <2> QED
    BY <1>2, <2>1, <2>2, MoveKeeps DEF RestartOlla, RestartEdge, RestartService
<1>3. CASE ResolveTag
  <2>1. CASE Fail
    BY <1>3, <2>1, <1>a, MoveKeeps DEF ResolveTag, hosts, Fail
  <2>2. CASE ~Fail
    BY <1>3, <2>2 DEF ResolveTag, hosts, Commands
  <2> QED
    BY <2>1, <2>2
<1>4. CASE Report
  BY <1>4, <1>a, MoveKeeps DEF Report, hosts, Fail
<1>5. ASSUME NEW n \in Nodes, PrepareHub(n) \/ Tooling(n) \/ Auth(n) \/ Setup(n) \/ Restart(n)
      PROVE  /\ stage' \in {"idle", "hub", "tag", "tooling", "auth", "setup", "restart"}
             /\ torn' = torn /\ olla' = olla /\ cmd' = cmd
  <2>1. \/ Fail \/ \E p : After(p)
        \/ \E s \in {"hub", "tooling", "auth", "setup", "restart"} : \E S : Goto(s, S)
    BY <1>5 DEF PrepareHub, NextHub, Tooling, Auth, Setup, Restart
  <2>2. stage' \in {"idle", "hub", "tag", "tooling", "auth", "setup", "restart"} /\ torn' = torn
    BY <2>1, <1>a, <1>b DEF Goto, Fail
  <2> QED
    BY <1>5, <2>1, <2>2, MoveKeeps DEF PrepareHub, Tooling, Auth, Setup, Restart
<1>6. ASSUME NEW n \in Nodes, ThreadBegins(n) \/ ThreadEnds(n)
      PROVE  stage' = "pool" /\ torn' = torn /\ olla' = olla /\ cmd' = cmd
  BY <1>6 DEF ThreadBegins, ThreadEnds, hosts
<1> QED
  BY <1>1, <1>2, <1>3, <1>4, <1>5, <1>6 DEF Step, Lookup, Replace, Sidecar, WriteConfig

LEMMA LookupOlla ==
  ASSUME TypeOK, OllaInv, Lookup, UNCHANGED <<release, rev>>
  PROVE  OllaInv'
<1>1. /\ cmd'.pin = cmd.pin /\ cmd'.kind = cmd.kind
      /\ \/ cmd'.want = (IF cmd.pin # 0 THEN cmd.pin ELSE release) /\ cmd'.fell = cmd.fell
         \/ cmd'.want = Default /\ cmd'.fell = TRUE
  BY DEF Lookup, ResolveVersion, TypeOK, Commands
<1>2. cmd'.want <= release
  BY <1>1, PrepareAssumption DEF OllaInv, TypeOK, Version
<1>3. (cmd'.pin = 0 /\ ~cmd'.fell) => olla.binary <= cmd'.want
  BY <1>1 DEF OllaInv
<1>4. stage' = "config" => olla.sidecar = cmd'.want
  BY DEF Lookup, Current
<1>5. olla' = olla /\ torn' = torn /\ stage' \in {"config", "install"} /\ stage = "lookup"
  BY DEF Lookup, hosts
<1>6. cmd'.pin \in 0..release' /\ Default <= release' /\ olla'.binary <= release'
  BY <1>1, <1>5 DEF OllaInv
<1>7. (~torn' /\ stage' # "sidecar") => olla'.sidecar = olla'.binary
  BY <1>5 DEF OllaInv
<1> QED
  BY <1>2, <1>3, <1>4, <1>5, <1>6, <1>7 DEF OllaInv

LEMMA OllaStep == TypeOK /\ OllaInv /\ [Next]_vars => OllaInv'
<1> SUFFICES ASSUME TypeOK, OllaInv, [Next]_vars PROVE OllaInv'
  OBVIOUS
<1>0. release \in Int /\ olla.binary \in Int /\ cmd.want \in Int
  BY DEF TypeOK, Commands, Version
<1>1. CASE Start
  <2>1. /\ cmd'.pin \in 0..release
        /\ stage' \in {"lookup", "config", "hub", "tag", "pool", "idle"}
        /\ stage' = "config" => cmd'.kind = "restart"
        /\ stage = "idle"
    <3>1. cmd'.pin \in 0..release
      BY <1>1 DEF Start
    <3>2. cmd'.kind \in {"prepare", "restart"}
      BY <1>1 DEF Start
    <3> QED
      BY <1>1, <3>1, <3>2 DEF Start, First
  <2>2. UNCHANGED <<release, olla, torn>>
    BY <1>1 DEF Start, hosts
  <2> QED
    BY <2>1, <2>2 DEF OllaInv
<1>2. CASE Lookup /\ Step
  BY <1>2, LookupOlla DEF Step
<1>3. CASE Replace /\ Step
  BY <1>0, <1>3 DEF Replace, Step, OllaInv, TypeOK
<1>4. CASE Sidecar /\ Step
  BY <1>0, <1>4 DEF Sidecar, Step, Goto, OllaInv, TypeOK
<1>5. CASE WriteConfig /\ Step
  BY <1>5 DEF WriteConfig, Step, Goto, OllaInv
<1>6. CASE Step /\ stage \notin {"lookup", "install", "sidecar", "config"}
  BY <1>6, Later, CommandKept DEF OllaInv, SameCommand, Step
<1>7. CASE Cut
  BY <1>7 DEF Cut, Fail, End, OllaInv, hosts, TypeOK
<1>8. CASE Beside
  BY <1>0, <1>8, BesideKeeps, PrepareAssumption DEF OllaInv, control, TypeOK, Commands, Version
<1>9. Step /\ stage \in {"lookup", "install", "sidecar", "config"}
        => Lookup \/ Replace \/ Sidecar \/ WriteConfig
  BY DEF Step, SetupGateway, RestartOlla, RestartEdge, RestartService, ResolveTag,
         Report, PrepareHub, Tooling, Auth, Setup, Restart, ThreadBegins, ThreadEnds
<1> QED
  BY <1>1, <1>2, <1>3, <1>4, <1>5, <1>6, <1>7, <1>8, <1>9, NextCases

LEMMA OllaInit == Init => OllaInv
BY PrepareAssumption DEF Init, OllaInv

(* Without a pin, and with the latest release looked up, the Olla that is  *)
(* put in place is never older than the one before.                        *)
THEOREM NeverBack == Spec => OnlyForward
<1>1. TypeOK /\ OllaInv /\ [Next]_vars
        => [olla'.binary >= olla.binary \/ cmd.pin # 0 \/ cmd.fell]_vars
  <2> SUFFICES ASSUME TypeOK, OllaInv, [Next]_vars
               PROVE  olla'.binary >= olla.binary \/ cmd.pin # 0 \/ cmd.fell
    OBVIOUS
  <2>0. olla.binary \in Int /\ cmd.want \in Int
    BY DEF TypeOK, Commands, Version
  <2>1. CASE Start \/ Cut \/ Beside
    BY <2>0, <2>1, BesideKeeps DEF Start, Cut, hosts
  <2>2. CASE Lookup \/ WriteConfig
    BY <2>0, <2>2 DEF Lookup, WriteConfig, hosts
  <2>3. CASE Replace \/ Sidecar
    BY <2>0, <2>3 DEF Replace, Sidecar, OllaInv, TypeOK
  <2>4. CASE Step /\ stage \notin {"lookup", "install", "sidecar", "config"}
    BY <2>0, <2>4, Later
  <2>5. Step /\ stage \in {"lookup", "install", "sidecar", "config"}
          => Lookup \/ Replace \/ Sidecar \/ WriteConfig
    BY DEF Step, SetupGateway, RestartOlla, RestartEdge, RestartService, ResolveTag,
           Report, PrepareHub, Tooling, Auth, Setup, Restart, ThreadBegins, ThreadEnds
  <2> QED
    BY <2>1, <2>2, <2>3, <2>4, <2>5, NextCases
<1> QED
  BY <1>1, TypeCorrect, OllaInit, OllaStep, PTL DEF Spec, OnlyForward
-----------------------------------------------------------------------------
(* What a command is about at each stage.                                  *)

NodeStages == {"tooling", "auth", "setup", "restart"}
LateStages == {"hub", "tag", "pool"} \union NodeStages
PrepareStages == {"lookup", "install", "sidecar", "gateway", "hub", "tag"} \union NodeStages

CommandInv ==
  /\ cmd.rev \in 1..rev /\ cmd.calm <= mishaps
  /\ stage \in PrepareStages => cmd.kind = "prepare"
  /\ stage \in {"olla", "edge", "pool"} => cmd.kind = "restart"
  /\ stage = "hub" => todo \subseteq Caches(cmd)
  /\ stage \in NodeStages => todo \subseteq Inference(cmd) /\ cmd.tag # 0

LEMMA StartCommand ==
  ASSUME TypeOK, Start
  PROVE  /\ cmd'.rev = rev /\ cmd'.calm = mishaps
         /\ stage' \in {"lookup", "config", "hub", "tag", "pool", "idle"}
         /\ stage' \in {"lookup", "hub", "tag"} => cmd'.kind = "prepare"
         /\ stage' = "pool" => cmd'.kind = "restart"
         /\ stage' = "hub" => todo' = Caches(cmd')
         /\ stage' \in LateStages => Gateways(cmd'.targets) = {}
         /\ result' \in {"none", "nothing"}
         /\ UNCHANGED <<release, rev, hosts, torn, mishaps>>
<1>1. cmd'.rev = rev /\ cmd'.calm = mishaps /\ cmd'.kind \in {"prepare", "restart"}
  BY DEF Start
<1>2. /\ stage' \in {"lookup", "config", "hub", "tag", "pool", "idle"}
      /\ stage' \in {"lookup", "hub", "tag"} => cmd'.kind = "prepare"
      /\ stage' = "pool" => cmd'.kind = "restart"
      /\ stage' \in {"hub", "tag", "pool"} => Gateways(cmd'.targets) = {}
  BY <1>1 DEF Start, First
<1>3. stage' = "hub" => todo' = Caches(cmd')
  BY DEF Start
<1>4. result' \in {"none", "nothing"} /\ UNCHANGED <<release, rev, hosts, torn, mishaps>>
  BY DEF Start
<1> QED
  BY <1>1, <1>2, <1>3, <1>4 DEF LateStages, NodeStages

LEMMA CommandStep == TypeOK /\ CommandInv /\ [Next]_vars => CommandInv'
<1> SUFFICES ASSUME TypeOK, CommandInv, [Next]_vars PROVE CommandInv'
  OBVIOUS
<1> USE DEF NodeStages, PrepareStages
<1>0. /\ rev \in Int /\ mishaps \in Int /\ rev >= 1
      /\ cmd.rev \in Int /\ cmd.calm \in Int
  BY PrepareAssumption DEF TypeOK, Commands, Rev
<1>1. CASE Start
  BY <1>0, <1>1, StartCommand DEF CommandInv
<1>2. CASE Beside
  BY <1>0, <1>2, BesideKeeps DEF CommandInv, control, Caches, Inference
<1>a. ASSUME SameCommand
      PROVE  Caches(cmd') = Caches(cmd) /\ Inference(cmd') = Inference(cmd)
  BY <1>a DEF SameCommand, Caches, Inference
<1>b. ASSUME Step \/ Cut
      PROVE  /\ cmd'.rev \in 1..rev' /\ cmd'.calm <= mishaps' /\ cmd'.kind = cmd.kind
             /\ Caches(cmd') = Caches(cmd) /\ Inference(cmd') = Inference(cmd)
  <2>1. mishaps' \in Int
    BY <1>b, StepTyped, TypeParts, FailTyped, MishapTyped DEF Cut
  <2>2. rev' = rev
    BY <1>b DEF Step, Cut
  <2> QED
    BY <1>0, <1>a, <1>b, <2>1, <2>2, CommandKept DEF CommandInv, SameCommand
<1>c. ASSUME stage' = "idle", Step \/ Cut PROVE CommandInv'
  BY <1>b, <1>c DEF CommandInv
<1>d. ASSUME Fail \/ \E r : End(r) PROVE stage' = "idle"
  BY <1>d DEF Fail, End
<1>e. ASSUME Step, cmd.kind = "prepare", NEW p, After(p) PROVE CommandInv'
  <2>1. \/ stage' = "idle"
        \/ stage' = "tag"
        \/ stage' = "hub" /\ todo' = Caches(cmd)
    BY <1>e, <1>d DEF After, Goto
  <2> QED
    BY <1>b, <1>c, <1>e, <2>1 DEF CommandInv
<1>3. CASE Cut
  BY <1>3, <1>c, <1>d DEF Cut
<1>4. ASSUME Step, Lookup \/ Replace \/ Sidecar \/ WriteConfig PROVE CommandInv'
  <2>1. /\ stage' \in {"config", "install", "sidecar", "gateway", "olla"}
        /\ stage' \in {"install", "sidecar"} => cmd.kind = "prepare"
        /\ stage' = "gateway" => cmd.kind = "prepare"
        /\ stage' = "olla" => cmd.kind = "restart"
    BY <1>4 DEF Lookup, Replace, Sidecar, WriteConfig, Goto, CommandInv, TypeOK, Commands
  <2> QED
    BY <1>b, <1>4, <2>1 DEF CommandInv
<1>5. ASSUME Step, SetupGateway PROVE CommandInv'
  BY <1>5, <1>c, <1>d, <1>e DEF SetupGateway, CommandInv
<1>6. ASSUME Step, RestartOlla \/ RestartEdge PROVE CommandInv'
  <2>1. stage' \in {"edge", "pool", "idle"} /\ stage \in {"olla", "edge"}
    BY <1>6, <1>d DEF RestartOlla, RestartEdge, RestartService, Goto
  <2> QED
    BY <1>b, <1>6, <2>1 DEF CommandInv
<1>7. ASSUME Step, ResolveTag PROVE CommandInv'
  <2>1. CASE Fail
    BY <1>7, <2>1, <1>c, <1>d
  <2>2. CASE ~Fail
    <3>1. stage' = "tooling" /\ todo' = Inference(cmd) /\ cmd'.tag = release /\ release # 0
      BY <1>7, <2>2 DEF ResolveTag, TypeOK, Commands
    <3> QED
      BY <1>b, <1>7, <3>1 DEF CommandInv, ResolveTag
  <2> QED
    BY <2>1, <2>2
<1>8. ASSUME Step, NEW n \in Nodes, PrepareHub(n) PROVE CommandInv'
  <2>1. CASE Goto("hub", todo \ {n})
    BY <1>b, <1>8, <2>1 DEF PrepareHub, Goto, CommandInv
  <2>2. CASE \E p : After(p)
    BY <1>8, <1>e, <2>2 DEF PrepareHub, CommandInv
  <2> QED
    BY <1>8, <2>1, <2>2, <1>c, <1>d DEF PrepareHub, NextHub
<1>9. ASSUME Step, NEW n \in Nodes, Tooling(n) \/ Auth(n) \/ Setup(n) \/ Restart(n)
      PROVE  CommandInv'
  <2>1. cmd.kind = "prepare" /\ todo \subseteq Inference(cmd) /\ cmd.tag # 0
    BY <1>9 DEF Tooling, Auth, Setup, Restart, CommandInv
  <2>2. CASE \E s \in NodeStages : Goto(s, todo) \/ Goto(s, todo \ {n})
    BY <1>b, <1>9, <2>1, <2>2 DEF Goto, CommandInv
  <2>3. CASE \E p : After(p)
    BY <1>9, <1>e, <2>1, <2>3
  <2> QED
    BY <1>9, <2>2, <2>3, <1>c, <1>d DEF Tooling, Auth, Setup, Restart
<1>10. ASSUME Step, Report \/ \E n \in Nodes : ThreadBegins(n) \/ ThreadEnds(n)
       PROVE  CommandInv'
  <2>1. stage' \in {"pool", "idle"} /\ cmd.kind = "restart"
    BY <1>10, <1>d DEF Report, ThreadBegins, ThreadEnds, CommandInv
  <2> QED
    BY <1>b, <1>10, <2>1 DEF CommandInv
<1> QED
  BY <1>1, <1>2, <1>3, <1>4, <1>5, <1>6, <1>7, <1>8, <1>9, <1>10, NextCases DEF Step
-----------------------------------------------------------------------------
(* The gateway of a command that is past it.                               *)

GatewayUp == gateway.ready /\ gateway.with = cmd.rev /\ gateway.olla = olla.binary

GatewayDone == /\ GatewayUp /\ gateway.edge >= cmd.rev
               /\ cmd.kind = "prepare" /\ ~torn => gateway.olla = cmd.want

GatewayInv ==
  /\ stage \in {"gateway", "olla"} => gateway.config = cmd.rev
  /\ stage = "edge" => GatewayUp
  /\ (stage \in LateStages \/ Ended("complete")) /\ Gateways(cmd.targets) # {}
       => GatewayDone

LEMMA LateStep ==
  ASSUME TypeOK, Step, stage \in LateStages
  PROVE  stage' \in LateStages \union {"idle"} /\ gateway' = gateway
<1> USE DEF LateStages, NodeStages
<1>1. CASE ResolveTag
  BY <1>1 DEF ResolveTag, Fail, End, hosts
<1>2. CASE Report
  BY <1>2 DEF Report, Fail, End, hosts
<1>3. ASSUME NEW n \in Nodes, PrepareHub(n) \/ Tooling(n) \/ Auth(n) \/ Setup(n) \/ Restart(n)
      PROVE  stage' \in LateStages \union {"idle"} /\ gateway' = gateway
  <2>1. \/ Fail \/ \E p : After(p)
        \/ \E s \in {"hub", "tooling", "auth", "setup", "restart"} : \E S : Goto(s, S)
    BY <1>3 DEF PrepareHub, NextHub, Tooling, Auth, Setup, Restart
  <2>2. stage' \in LateStages \union {"idle"}
    BY <2>1 DEF Fail, After, End, Goto
  <2> QED
    BY <1>3, <2>2 DEF PrepareHub, Tooling, Auth, Setup, Restart
<1>4. ASSUME NEW n \in Nodes, ThreadBegins(n) \/ ThreadEnds(n)
      PROVE  stage' \in LateStages \union {"idle"} /\ gateway' = gateway
  BY <1>4 DEF ThreadBegins, ThreadEnds, hosts
<1> QED
  BY <1>1, <1>2, <1>3, <1>4
     DEF Step, Lookup, Replace, Sidecar, WriteConfig, SetupGateway, RestartOlla,
         RestartEdge, RestartService

LEMMA GatewayStep ==
  TypeOK /\ OllaInv /\ CommandInv /\ GatewayInv /\ [Next]_vars => GatewayInv'
<1> SUFFICES ASSUME TypeOK, OllaInv, CommandInv, GatewayInv, [Next]_vars
             PROVE  GatewayInv'
  OBVIOUS
<1>a. ASSUME Fail PROVE GatewayInv'
  BY <1>a DEF Fail, End, GatewayInv, Ended, LateStages, NodeStages
<1>1. CASE Start
  <2>1. stage' \in {"lookup", "config", "hub", "tag", "pool", "idle"} /\ ~Ended("complete")'
    BY <1>1, StartCommand DEF Ended
  <2> QED
    BY <1>1, <2>1, StartCommand DEF GatewayInv
<1>2. CASE Cut
  BY <1>2, <1>a DEF Cut
<1>3. CASE Beside
  BY <1>3, BesideKeeps DEF GatewayInv, GatewayDone, GatewayUp, Ended, control
<1>4. CASE Lookup \/ Replace \/ Sidecar
  BY <1>4 DEF Lookup, Replace, Sidecar, Goto, GatewayInv, Ended, LateStages, NodeStages
<1>5. CASE WriteConfig
  BY <1>5 DEF WriteConfig, Goto, GatewayInv, Ended, LateStages, NodeStages, TypeOK
<1>6. CASE SetupGateway /\ Step
  <2>1. CASE Fail
    BY <2>1, <1>a
  <2>2. CASE ~Fail
    <3>1. /\ stage = "gateway" /\ After("gateway") /\ UNCHANGED <<olla, rev>>
          /\ gateway' = [EdgeUp(OllaUp(gateway)) EXCEPT !.ready = TRUE]
      BY <1>6, <2>2 DEF SetupGateway, Step
    <3>2. /\ gateway'.ready /\ gateway'.with = gateway.config
          /\ gateway'.olla = olla.binary /\ gateway'.edge = rev
      BY <3>1 DEF EdgeUp, OllaUp, TypeOK
    <3>3. cmd' = cmd /\ stage' \in {"hub", "tag", "idle"} /\ torn' = torn
      BY <3>1 DEF After, Goto, End, TypeOK
    <3>4. gateway.config = cmd.rev /\ rev >= cmd.rev
      BY <3>1 DEF GatewayInv, CommandInv
    <3>5. cmd.kind = "prepare" /\ ~torn => olla.binary = cmd.want
      BY <3>1 DEF OllaInv
    <3>6. GatewayDone'
      BY <3>1, <3>2, <3>3, <3>4, <3>5 DEF GatewayDone, GatewayUp
    <3> QED
      BY <3>3, <3>6 DEF GatewayInv
  <2> QED
    BY <2>1, <2>2
<1>7. CASE RestartOlla /\ Step
  <2>1. CASE Fail
    BY <2>1, <1>a
  <2>2. CASE ~Fail
    <3>1. /\ stage = "olla" /\ Goto("edge", {}) /\ UNCHANGED olla
          /\ gateway.ready /\ gateway' = OllaUp(gateway)
      BY <1>7, <2>2 DEF RestartOlla, RestartService
    <3>2. GatewayUp'
      BY <3>1 DEF OllaUp, GatewayUp, GatewayInv, TypeOK, Goto
    <3> QED
      BY <3>1, <3>2 DEF Goto, GatewayInv, Ended, LateStages, NodeStages
  <2> QED
    BY <2>1, <2>2
<1>8. CASE RestartEdge /\ Step
  <2>1. CASE Fail
    BY <2>1, <1>a
  <2>2. CASE ~Fail
    <3>1. /\ stage = "edge" /\ UNCHANGED <<olla, rev>> /\ gateway' = EdgeUp(gateway)
          /\ Goto("pool", {}) \/ End("complete")
      BY <1>8, <2>2 DEF RestartEdge, RestartService, Step
    <3>2. cmd' = cmd /\ stage' \in {"pool", "idle"} /\ cmd.kind = "restart"
      BY <3>1 DEF Goto, End, CommandInv
    <3>3. GatewayUp /\ rev >= cmd.rev
      BY <3>1 DEF GatewayInv, CommandInv
    <3>4. GatewayDone'
      BY <3>1, <3>2, <3>3 DEF EdgeUp, GatewayDone, GatewayUp, TypeOK
    <3> QED
      BY <3>2, <3>4 DEF GatewayInv
  <2> QED
    BY <2>1, <2>2
<1>9. CASE Step /\ stage \in LateStages
  <2>1. /\ stage' \in LateStages \union {"idle"} /\ gateway' = gateway
        /\ olla' = olla /\ torn' = torn /\ cmd'.want = cmd.want /\ SameCommand
    BY <1>9, LateStep, Later, CommandKept DEF LateStages, NodeStages
  <2>2. Gateways(cmd.targets) # {} => GatewayDone'
    BY <1>9, <2>1 DEF GatewayInv, GatewayDone, GatewayUp, SameCommand
  <2> QED
    BY <2>1, <2>2 DEF GatewayInv, LateStages, NodeStages, SameCommand
<1>10. Step /\ stage \notin LateStages
         => \/ Lookup \/ Replace \/ Sidecar \/ WriteConfig
            \/ SetupGateway \/ RestartOlla \/ RestartEdge
  BY DEF LateStages, NodeStages, Step, ResolveTag, Report, PrepareHub, Tooling, Auth,
         Setup, Restart, ThreadBegins, ThreadEnds
<1> QED
  BY <1>1, <1>2, <1>3, <1>4, <1>5, <1>6, <1>7, <1>8, <1>9, <1>10, NextCases
-----------------------------------------------------------------------------
(* The inference nodes: those that are done are good, and the one whose    *)
(* turn it is has what the stages before have given it.                    *)

Good(n) == /\ Fresh(n)
           /\ cmd.kind = "prepare" => /\ node[n].auth = cmd.rev
                                      /\ cmd.upgrade => node[n].tool = cmd.tag

ToolOk(n) == node[n].tool # 0 /\ (cmd.upgrade => node[n].tool = cmd.tag)

NodesInv ==
  /\ stage \in NodeStages => \A n \in Inference(cmd) \ todo : Good(n)
  /\ stage \in {"auth", "setup", "restart"} => \A n \in Nodes : Turn(n) => ToolOk(n)
  /\ stage \in {"setup", "restart"} => \A n \in Nodes : Turn(n) => node[n].auth = cmd.rev
  /\ stage = "restart" => \A n \in Nodes : Turn(n) => node[n].ready
  /\ stage = "pool" => \A n \in Inference(cmd) : thread[n] = "ok" => Good(n)
  /\ Ended("complete") => \A n \in Inference(cmd) : Good(n)

LEMMA TurnUnique ==
  ASSUME NEW n \in Nodes, NEW m \in Nodes, Turn(n), Turn(m)
  PROVE  m = n
<1>1. Rank[n] <= Rank[m] /\ Rank[m] <= Rank[n] /\ Rank[n] \in Int /\ Rank[m] \in Int
  BY PrepareAssumption DEF Turn
<1> QED
  BY <1>1, PrepareAssumption

LEMMA GoodKept ==
  ASSUME NEW n \in Nodes, Good(n), node'[n] = node[n], SameCommand, cmd'.tag = cmd.tag
  PROVE  Good(n)'
BY DEF Good, Fresh, CanRun, SameCommand

(* Crash and KeepAlive leave good what is good.                            *)
LEMMA UpDown ==
  ASSUME TypeOK, NEW n \in Nodes, node' \in {Up(node, n), Down(node, n)}, NEW m \in Nodes
  PROVE  /\ node'[m].tool = node[m].tool /\ node'[m].auth = node[m].auth
         /\ node'[m].ready = node[m].ready
         /\ m # n => node'[m] = node[m]
         /\ node' = Up(node, n) => node'[n].up = node[n].tool /\ node'[n].with = node[n].auth
         /\ node' = Down(node, n) => node'[n].up = 0 /\ node'[n].with = node[n].with
<1>0. node \in [Nodes -> Node]
  BY DEF TypeOK
<1>1. CASE node' = Down(node, n)
  BY <1>0, <1>1 DEF Down, Up, Node
<1>2. CASE node' = Up(node, n)
  <2>1. node'[n] = [node[n] EXCEPT !.up = node[n].tool, !.with = node[n].auth]
    BY <1>0, <1>2 DEF Up, Node
  <2>2. m # n => node'[m] = node[m]
    BY <1>0, <1>2 DEF Up
  <2>3. /\ node'[n].tool = node[n].tool /\ node'[n].auth = node[n].auth
        /\ node'[n].ready = node[n].ready
        /\ node'[n].up = node[n].tool /\ node'[n].with = node[n].auth
    BY <1>0, <2>1 DEF Node
  <2>4. ASSUME node' = Down(node, n)
        PROVE  node'[n].up = 0 /\ node'[n].with = node[n].with
    BY <1>0, <2>4 DEF Down, Node
  <2> QED
    BY <2>2, <2>3, <2>4
<1> QED
  BY <1>1, <1>2

LEMMA Elsewhere ==
  ASSUME TypeOK, NEW n \in Nodes,
         PrepareHub(n) \/ Tooling(n) \/ Auth(n) \/ Setup(n) \/ Restart(n) \/ ThreadEnds(n)
  PROVE  \A m \in Nodes : m # n => node'[m] = node[m]
<1>0. node \in [Nodes -> Node]
  BY DEF TypeOK
<1>1. CASE PrepareHub(n)
  BY <1>0, <1>1 DEF PrepareHub, Untooled
<1>2. CASE Tooling(n)
  BY <1>0, <1>2 DEF Tooling, Tooled
<1>3. CASE Auth(n)
  BY <1>0, <1>3 DEF Auth, Keyed
<1>4. CASE Setup(n)
  <2> DEFINE done == [node EXCEPT ![n].ready = TRUE]
  <2>1. done \in [Nodes -> Node] /\ \A m \in Nodes : m # n => done[m] = node[m]
    BY <1>0 DEF Node
  <2>2. node' \in {node, Down(node, n), Down(done, n), Up(done, n)}
    BY <1>4 DEF Setup
  <2> HIDE DEF done
  <2> QED
    BY <1>0, <2>1, <2>2 DEF Up, Down
<1>5. CASE Restart(n) \/ ThreadEnds(n)
  <2>1. node' \in {node, Down(node, n), Up(node, n)}
    BY <1>5 DEF Restart, ThreadEnds, Restarted, NotRestarted, TimedOut
  <2> QED
    BY <1>0, <2>1 DEF Up, Down
<1> QED
  BY <1>1, <1>2, <1>3, <1>4, <1>5

(* Claims nothing: the command has failed, or is not at its nodes yet.     *)
LEMMA NoClaim ==
  ASSUME \/ Fail
         \/ /\ stage' \notin NodeStages \union {"pool"}
            /\ stage' = "idle" => result' # "complete"
  PROVE  NodesInv'
BY DEF Fail, End, NodesInv, Ended, NodeStages

LEMMA ToolingNodes ==
  ASSUME TypeOK, CommandInv, NodesInv, NEW n \in Nodes, Tooling(n), ~Fail
  PROVE  NodesInv'
<1>1. /\ stage = "tooling" /\ Turn(n) /\ n \in todo /\ node' = Tooled(n)
      /\ stage' = "auth" /\ todo' = todo /\ cmd' = cmd
  BY DEF Tooling, Turn, Goto
<1>2. \A m \in Inference(cmd) \ todo : Good(m)'
  BY <1>1, Elsewhere, GoodKept, InferenceTyped DEF NodesInv, NodeStages, SameCommand
<1>3. node'[n].tool = IF cmd.upgrade \/ node[n].tool = 0 THEN cmd.tag ELSE node[n].tool
  BY <1>1 DEF Tooled, TypeOK, Node
<1>4. cmd.tag # 0
  BY <1>1 DEF CommandInv, NodeStages
<1>5. ToolOk(n)'
  BY <1>1, <1>3, <1>4 DEF ToolOk
<1>6. \A m \in Nodes : Turn(m)' => ToolOk(m)'
  <2> SUFFICES ASSUME NEW m \in Nodes, Turn(m)' PROVE ToolOk(m)'
    OBVIOUS
  <2>1. m = n
    BY <1>1, TurnUnique DEF Turn
  <2> QED
    BY <1>5, <2>1
<1> QED
  BY <1>1, <1>2, <1>6 DEF NodesInv, Ended, NodeStages

LEMMA AuthNodes ==
  ASSUME TypeOK, CommandInv, NodesInv, NEW n \in Nodes, Auth(n), ~Fail
  PROVE  NodesInv'
<1>1. /\ stage = "auth" /\ Turn(n) /\ n \in todo /\ node' = Keyed(n)
      /\ stage' = "setup" /\ todo' = todo /\ cmd' = cmd
  BY DEF Auth, Turn, Goto
<1>2. \A m \in Inference(cmd) \ todo : Good(m)'
  BY <1>1, Elsewhere, GoodKept, InferenceTyped DEF NodesInv, NodeStages, SameCommand
<1>3. node'[n].tool = node[n].tool /\ node'[n].auth = cmd.rev
  BY <1>1 DEF Keyed, TypeOK, Node
<1>4. ToolOk(n)'
  BY <1>1, <1>3 DEF ToolOk, NodesInv
<1>5. \A m \in Nodes : Turn(m)' => ToolOk(m)' /\ node'[m].auth = cmd'.rev
  <2> SUFFICES ASSUME NEW m \in Nodes, Turn(m)'
               PROVE  ToolOk(m)' /\ node'[m].auth = cmd'.rev
    OBVIOUS
  <2>1. m = n
    BY <1>1, TurnUnique DEF Turn
  <2> QED
    BY <1>1, <1>3, <1>4, <2>1
<1> QED
  BY <1>1, <1>2, <1>5 DEF NodesInv, Ended, NodeStages

LEMMA SetupNodes ==
  ASSUME TypeOK, CommandInv, NodesInv, NEW n \in Nodes, Setup(n), ~Fail
  PROVE  NodesInv'
<1> DEFINE done == [node EXCEPT ![n].ready = TRUE]
<1>a. node' \in {Up(done, n), Down(done, n)} /\ Goto("restart", todo)
  BY DEF Setup
<1>0. /\ stage = "setup" /\ Turn(n) /\ Goto("restart", todo)
      /\ node' = Up(done, n) \/ node' = Down(done, n)
  BY <1>a DEF Setup
<1>1. /\ stage = "setup" /\ Turn(n) /\ n \in todo
      /\ node' = Up(done, n) \/ node' = Down(done, n)
      /\ stage' = "restart" /\ todo' = todo /\ cmd' = cmd
  <2> HIDE DEF done
  <2> QED
    BY <1>0 DEF Turn, Goto
<1>2. \A m \in Inference(cmd) \ todo : Good(m)'
  BY <1>1, Elsewhere, GoodKept, InferenceTyped DEF NodesInv, NodeStages, SameCommand
<1>3. /\ done \in [Nodes -> Node] /\ done[n].tool = node[n].tool
      /\ done[n].auth = node[n].auth /\ done[n].ready
  <2>1. node \in [Nodes -> Node]
    BY DEF TypeOK
  <2> QED
    BY <2>1 DEF Node
<1>4. node'[n].tool = node[n].tool /\ node'[n].auth = node[n].auth /\ node'[n].ready
  <2> HIDE DEF done
  <2>1. \/ node'[n] = [done[n] EXCEPT !.up = done[n].tool, !.with = done[n].auth]
        \/ node'[n] = [done[n] EXCEPT !.up = 0]
    BY <1>1, <1>3 DEF Up, Down, Node
  <2> QED
    BY <1>3, <2>1 DEF Node
<1>5. ToolOk(n)' /\ node'[n].auth = cmd'.rev
  BY <1>1, <1>4 DEF ToolOk, NodesInv
<1>6. \A m \in Nodes : Turn(m)' => ToolOk(m)' /\ node'[m].auth = cmd'.rev /\ node'[m].ready
  <2> SUFFICES ASSUME NEW m \in Nodes, Turn(m)'
               PROVE  ToolOk(m)' /\ node'[m].auth = cmd'.rev /\ node'[m].ready
    OBVIOUS
  <2>1. m = n
    BY <1>1, TurnUnique DEF Turn
  <2> QED
    BY <1>4, <1>5, <2>1
<1> QED
  BY <1>1, <1>2, <1>6 DEF NodesInv, Ended, NodeStages

(* A restart that works leaves the node good.                              *)
LEMMA RestartedGood ==
  ASSUME TypeOK, NEW n \in Nodes, Restarted(n), SameCommand, cmd'.tag = cmd.tag,
         cmd.kind = "prepare" => node[n].auth = cmd.rev
                                 /\ (cmd.upgrade => node[n].tool = cmd.tag)
  PROVE  Good(n)'
<1>1. CanRun(n) /\ node' = Up(node, n)
  BY DEF Restarted
<1>2. /\ node'[n].tool = node[n].tool /\ node'[n].auth = node[n].auth
      /\ node'[n].ready = node[n].ready
      /\ node'[n].up = node[n].tool /\ node'[n].with = node[n].auth
  BY <1>1, UpDown
<1> QED
  BY <1>1, <1>2 DEF Good, Fresh, CanRun, SameCommand

LEMMA RestartNodes ==
  ASSUME TypeOK, CommandInv, NodesInv, NEW n \in Nodes, Restart(n), ~Fail
  PROVE  NodesInv'
<1>1. /\ stage = "restart" /\ Turn(n) /\ n \in todo /\ Restarted(n)
      /\ IF todo = {n} THEN After("nodes") ELSE Goto("tooling", todo \ {n})
  BY DEF Restart, Turn
<1>2. \/ todo = {n} /\ End("complete")
      \/ Goto("tooling", todo \ {n})
  BY <1>1 DEF After
<1>3. cmd' = cmd
  BY <1>2 DEF Goto, End
<1>4. Good(n)'
  BY <1>1, <1>3, RestartedGood DEF NodesInv, ToolOk, SameCommand
<1>5. \A m \in Inference(cmd) : m \notin todo \ {n} => Good(m)'
  BY <1>1, <1>3, <1>4, Elsewhere, GoodKept, InferenceTyped
     DEF NodesInv, NodeStages, SameCommand
<1>6. CASE todo = {n} /\ End("complete")
  BY <1>3, <1>5, <1>6 DEF End, NodesInv, NodeStages, Ended
<1>7. CASE Goto("tooling", todo \ {n})
  BY <1>3, <1>5, <1>7 DEF Goto, NodesInv, NodeStages, Ended
<1> QED
  BY <1>2, <1>6, <1>7

LEMMA PoolNodes ==
  ASSUME TypeOK, CommandInv, ThreadInv, NodesInv, stage = "pool", Step
  PROVE  NodesInv'
<1>1. \/ Report
      \/ \E n \in Nodes : ThreadBegins(n) \/ ThreadEnds(n)
  BY DEF Step, Lookup, Replace, Sidecar, WriteConfig, SetupGateway, RestartOlla,
         RestartEdge, RestartService, ResolveTag, PrepareHub, Tooling, Auth, Setup, Restart
<1>2. cmd.kind = "restart"
  BY DEF CommandInv
<1>3. CASE Report
  <2>1. CASE Fail
    BY <2>1, NoClaim
  <2>2. CASE ~Fail
    <3>1. /\ End("complete") /\ UNCHANGED node
          /\ \A n \in Nodes : thread[n] \notin {"queued", "running", "failed", "raised"}
      BY <1>3, <2>2 DEF Report, hosts
    <3>2. \A n \in Inference(cmd) : thread[n] = "ok"
      BY <1>2, <3>1, InferenceTyped DEF ThreadInv, TypeOK
    <3>3. \A n \in Inference(cmd) : Good(n)'
      BY <3>1, <3>2, InferenceTyped, GoodKept DEF NodesInv, End, SameCommand
    <3> QED
      BY <3>1, <3>3 DEF NodesInv, End, NodeStages, Ended
  <2> QED
    BY <2>1, <2>2
<1>4. ASSUME NEW n \in Nodes, ThreadBegins(n) PROVE NodesInv'
  <2>1. /\ UNCHANGED <<node, cmd>> /\ stage' = "pool"
        /\ thread' = [thread EXCEPT ![n] = "running"]
    BY <1>4 DEF ThreadBegins, Settle, hosts
  <2>2. \A m \in Inference(cmd) : thread'[m] = "ok" => Good(m)'
    BY <2>1, InferenceTyped, GoodKept DEF NodesInv, SameCommand, TypeOK
  <2> QED
    BY <2>1, <2>2 DEF NodesInv, NodeStages, Ended
<1>5. ASSUME NEW n \in Nodes, ThreadEnds(n) PROVE NodesInv'
  <2>1. /\ cmd' = cmd /\ stage' = "pool"
        /\ \/ Restarted(n) /\ thread' = [thread EXCEPT ![n] = "ok"]
           \/ \E s \in {"failed", "raised"} : thread' = [thread EXCEPT ![n] = s]
    BY <1>5 DEF ThreadEnds, Settle
  <2>2. ASSUME thread'[n] = "ok" PROVE Good(n)'
    BY <1>2, <2>1, <2>2, RestartedGood DEF TypeOK, SameCommand
  <2>3. ASSUME NEW m \in Inference(cmd), thread'[m] = "ok", m # n PROVE Good(m)'
    BY <1>5, <2>1, <2>3, InferenceTyped, Elsewhere, GoodKept
       DEF NodesInv, SameCommand, TypeOK
  <2>4. \A m \in Inference(cmd) : thread'[m] = "ok" => Good(m)'
    BY <2>2, <2>3
  <2> QED
    BY <2>1, <2>4 DEF NodesInv, NodeStages, Ended
<1> QED
  BY <1>1, <1>3, <1>4, <1>5

LEMMA BesideNodes ==
  ASSUME TypeOK, NodesInv, Beside
  PROVE  NodesInv'
<1>1. UNCHANGED control
  BY BesideKeeps
<1>2. ASSUME NEW n \in Nodes
      PROVE  /\ node'[n].tool = node[n].tool /\ node'[n].auth = node[n].auth
             /\ node'[n].ready = node[n].ready
             /\ \/ node'[n].up = node[n].up /\ node'[n].with = node[n].with
                \/ node'[n].up = 0
                \/ node'[n].up = node[n].tool /\ node'[n].with = node[n].auth
  <2>1. \/ node' = node
        \/ \E m \in Nodes : node' \in {Up(node, m), Down(node, m)}
    BY DEF Beside, Release, Edit, Crash, KeepAlive, vars, hosts
  <2> QED
    BY <2>1, UpDown
<1>3. ASSUME NEW n \in Nodes, Good(n) PROVE Good(n)'
  BY <1>1, <1>2, <1>3 DEF Good, Fresh, CanRun, control
<1>4. ASSUME NEW n \in Nodes, ToolOk(n) PROVE ToolOk(n)'
  BY <1>1, <1>2, <1>4 DEF ToolOk, control
<1>5. /\ Inference(cmd)' = Inference(cmd)
      /\ \A n \in Nodes : Turn(n)' = Turn(n)
      /\ UNCHANGED <<stage, todo, thread, result, cmd>>
  BY <1>1 DEF Inference, Turn, control
<1> QED
  BY <1>2, <1>3, <1>4, <1>5, InferenceTyped DEF NodesInv, Ended

LEMMA NodesStep ==
  TypeOK /\ CommandInv /\ ThreadInv /\ NodesInv /\ [Next]_vars => NodesInv'
<1> SUFFICES ASSUME TypeOK, CommandInv, ThreadInv, NodesInv, [Next]_vars
             PROVE  NodesInv'
  OBVIOUS
<1>a. ASSUME Inference(cmd) = {}, End("complete") PROVE NodesInv'
  BY <1>a DEF End, NodesInv, NodeStages, Inference
<1>1. CASE Start
  <2>1. /\ stage' \in {"lookup", "config", "hub", "tag", "pool", "idle"}
        /\ result' \in {"none", "nothing"}
    BY <1>1, StartCommand
  <2>2. \A n \in Inference(cmd') : thread'[n] # "ok"
    BY <1>1, StartThreads, InferenceTyped
  <2> QED
    BY <2>1, <2>2 DEF NodesInv, NodeStages, Ended
<1>2. CASE Cut
  BY <1>2, NoClaim DEF Cut
<1>3. CASE Beside
  BY <1>3, BesideNodes
<1>4. CASE Lookup \/ Replace \/ Sidecar \/ WriteConfig
  BY <1>4, NoClaim DEF Lookup, Replace, Sidecar, WriteConfig, Goto, NodeStages
<1>b. ASSUME NEW p \in {"gateway", "hub"}, After(p) PROVE NodesInv'
  <2>1. \/ Goto("hub", Caches(cmd)) \/ Goto("tag", {})
        \/ Inference(cmd) = {} /\ End("complete")
    BY <1>b DEF After
  <2> QED
    BY <2>1, <1>a, NoClaim DEF Goto, NodeStages
<1>5. CASE SetupGateway
  BY <1>5, <1>b, NoClaim DEF SetupGateway
<1>6. CASE RestartOlla
  BY <1>6, NoClaim DEF RestartOlla, RestartService, Goto, NodeStages
<1>7. CASE RestartEdge
  <2>1. CASE Goto("pool", {})
    <3>1. \A n \in Inference(cmd) : thread[n] # "ok"
      BY <1>7, InferenceTyped DEF RestartEdge, RestartService, ThreadInv
    <3> QED
      BY <2>1, <3>1 DEF Goto, NodesInv, NodeStages, Ended
  <2> QED
    BY <1>7, <2>1, <1>a, NoClaim DEF RestartEdge, RestartService
<1>8. CASE ResolveTag
  <2>1. CASE Fail
    BY <2>1, NoClaim
  <2>2. CASE ~Fail
    <3>1. /\ stage' = "tooling" /\ todo' = Inference(cmd)
          /\ cmd' = [cmd EXCEPT !.tag = release]
      BY <1>8, <2>2 DEF ResolveTag
    <3>2. Inference(cmd') = Inference(cmd)
      BY <3>1 DEF Inference, TypeOK, Commands
    <3> QED
      BY <3>1, <3>2 DEF NodesInv, NodeStages, Ended
  <2> QED
    BY <2>1, <2>2
<1>9. ASSUME NEW n \in Nodes, PrepareHub(n) PROVE NodesInv'
  <2>1. \/ Fail \/ After("hub") \/ Goto("hub", todo \ {n})
    BY <1>9 DEF PrepareHub, NextHub
  <2> QED
    BY <2>1, <1>b, NoClaim DEF Goto, NodeStages
<1>10. ASSUME NEW n \in Nodes, Tooling(n) \/ Auth(n) \/ Setup(n) \/ Restart(n)
       PROVE  NodesInv'
  BY <1>10, NoClaim, ToolingNodes, AuthNodes, SetupNodes, RestartNodes
<1>11. CASE Step /\ stage = "pool"
  BY <1>11, PoolNodes
<1>12. Step /\ stage # "pool"
         => \/ Lookup \/ Replace \/ Sidecar \/ WriteConfig
            \/ SetupGateway \/ RestartOlla \/ RestartEdge \/ ResolveTag
            \/ \E n \in Nodes : PrepareHub(n) \/ Tooling(n) \/ Auth(n) \/ Setup(n) \/ Restart(n)
  BY DEF Step, Report, ThreadBegins, ThreadEnds
<1> QED
  BY <1>1, <1>2, <1>3, <1>4, <1>5, <1>6, <1>7, <1>8, <1>9, <1>10, <1>11, <1>12, NextCases
-----------------------------------------------------------------------------
(* What "complete" means, and what a failure leaves.                       *)

IInv == TypeOK /\ ThreadInv /\ OllaInv /\ CommandInv /\ GatewayInv /\ NodesInv

LEMMA InitInv == Init => IInv
<1> SUFFICES ASSUME Init PROVE IInv
  OBVIOUS
<1>1. ThreadInv
  BY DEF Init, ThreadInv, EveryNodeTried
<1>2. CommandInv /\ GatewayInv /\ NodesInv
  BY DEF Init, CommandInv, GatewayInv, NodesInv, NodeStages, PrepareStages, LateStages, Ended
<1> QED
  BY <1>1, <1>2, InitTyped, OllaInit DEF IInv

LEMMA NextInv == IInv /\ [Next]_vars => IInv'
BY NextTyped, ThreadStep, OllaStep, CommandStep, GatewayStep, NodesStep DEF IInv

THEOREM Invariance == Spec => []IInv
BY InitInv, NextInv, PTL DEF Spec

(* "complete" is true of the whole cluster at once, though its parts were  *)
(* done one after the other, while releases, edits and crashes went on.    *)
THEOREM CompleteIsTrue == Spec => []CompleteServes
<1>1. IInv => CompleteServes
  <2> SUFFICES ASSUME IInv, Ended("complete")
               PROVE  /\ \A n \in Inference(cmd) : Good(n)
                      /\ Gateways(cmd.targets) # {} => GatewayDone
    BY DEF CompleteServes, Good, GatewayDone, GatewayUp
  <2> QED
    BY DEF IInv, NodesInv, GatewayInv
<1> QED
  BY <1>1, Invariance, PTL

(* A prepare that nothing new goes wrong in repairs what was left behind.  *)
THEOREM RerunWorks == Spec => []RerunRecovers
<1>1. Init => RerunRecovers
  BY DEF Init, RerunRecovers, Ended
<1>2. IInv /\ RerunRecovers /\ [Next]_vars => RerunRecovers'
  <2> SUFFICES ASSUME IInv, RerunRecovers, [Next]_vars PROVE RerunRecovers'
    OBVIOUS
  <2>0. TypeOK /\ CommandInv /\ mishaps \in Int /\ cmd.calm \in Int /\ cmd.calm <= mishaps
    BY PrepareAssumption DEF IInv, TypeOK, Commands, CommandInv
  <2>1. CASE Start
    BY <2>0, <2>1, StartCommand DEF RerunRecovers, Ended
  <2>2. CASE Beside
    BY <2>0, <2>2, BesideKeeps DEF RerunRecovers, Ended, control
  <2>3. CASE Cut
    BY <2>0, <2>3, MoveKeeps DEF Cut, Mishap, RerunRecovers
  <2>4. CASE Step
    <3> SUFFICES ASSUME cmd.kind = "prepare", cmd.rev \notin Unkeyed,
                        Ended("failed")'
                 PROVE  mishaps' > cmd'.calm
      BY <2>0, <2>4, CommandKept DEF RerunRecovers, SameCommand
    <3>1. cmd'.calm = cmd.calm /\ stage \notin {"olla", "edge", "pool", "idle"}
      BY <2>0, <2>4, CommandKept DEF SameCommand, CommandInv
    <3>2. ASSUME NEW k \in 1..2, Mishap(k) PROVE mishaps' > cmd'.calm
      BY <2>0, <3>1, <3>2 DEF Mishap
    <3>3. ASSUME NEW p, After(p) PROVE FALSE
      BY <3>3 DEF After, Goto, End, Ended
    <3>4. ASSUME NEW s \in Stages \ {"idle"}, NEW S, Goto(s, S) PROVE FALSE
      BY <3>4 DEF Goto, Ended
    <3>5. CASE Lookup \/ Replace \/ Sidecar \/ WriteConfig
      BY <3>5 DEF Lookup, Replace, Sidecar, WriteConfig, Goto, Ended
    <3>6. CASE SetupGateway
      BY <3>2, <3>3, <3>6 DEF SetupGateway
    <3>7. CASE ResolveTag
      BY <3>7 DEF ResolveTag, Ended
    <3>8. ASSUME NEW n \in Nodes, PrepareHub(n) \/ Tooling(n) \/ Auth(n) \/ Setup(n)
          PROVE  mishaps' > cmd'.calm
      BY <3>2, <3>3, <3>4, <3>8 DEF PrepareHub, NextHub, Tooling, Auth, Setup, Stages
    <3>9. ASSUME NEW n \in Nodes, Restart(n) PROVE mishaps' > cmd'.calm
      <4>1. stage = "restart" /\ Turn(n)
        BY <3>9 DEF Restart
      <4>2. CanRun(n)
        <5>1. ToolOk(n) /\ node[n].auth = cmd.rev /\ node[n].ready
          BY <4>1 DEF IInv, NodesInv
        <5>2. cmd.rev # 0
          BY <2>0 DEF CommandInv
        <5> QED
          BY <5>1, <5>2 DEF CanRun, ToolOk
      <4>3. Mishap(1) \/ Mishap(2) \/ After("nodes") \/ Goto("tooling", todo \ {n})
        BY <3>9, <4>2 DEF Restart, NotRestarted, TimedOut
      <4> QED
        BY <4>3, <3>2, <3>3, <3>4 DEF Stages
    <3> QED
      BY <2>4, <3>1, <3>5, <3>6, <3>7, <3>8, <3>9
         DEF Step, RestartOlla, RestartEdge, RestartService, Report, ThreadBegins, ThreadEnds
  <2> QED
    BY <2>1, <2>2, <2>3, <2>4, NextCases
<1> QED
  BY <1>1, <1>2, Invariance, PTL DEF Spec

(* No prepare or restart takes from a node that can run what it needs: all *)
(* but a hub elsewhere, and but for settings without a key.                *)
THEOREM RunnableKept == Spec => StaysRunnable
<1>1. IInv /\ [Next]_vars
        => [\A n \in Nodes :
              (CanRun(n) /\ (n \in Local \/ "cache" \notin Roles[n]) /\ cmd.rev \notin Unkeyed)
                => CanRun(n)']_vars
  <2> SUFFICES ASSUME IInv, [Next]_vars, NEW n \in Nodes, CanRun(n),
                      n \in Local \/ "cache" \notin Roles[n], cmd.rev \notin Unkeyed
               PROVE  CanRun(n)'
    OBVIOUS
  <2>0. TypeOK /\ CommandInv /\ node \in [Nodes -> Node]
    BY DEF IInv, TypeOK
  <2>a. ASSUME node'[n].tool = node[n].tool, node'[n].auth = node[n].auth,
               node'[n].ready = node[n].ready
        PROVE  CanRun(n)'
    BY <2>a DEF CanRun
  <2>b. ASSUME NEW m \in Nodes, node' \in {node, Up(node, m), Down(node, m)}
        PROVE  CanRun(n)'
    BY <2>0, <2>a, <2>b, UpDown
  <2>1. CASE Start \/ Cut \/ Release \/ Edit \/ UNCHANGED vars
    BY <2>1 DEF Start, Cut, Release, Edit, vars, hosts, CanRun
  <2>2. ASSUME NEW m \in Nodes, Crash(m) \/ KeepAlive(m) PROVE CanRun(n)'
    BY <2>2, <2>b DEF Crash, KeepAlive
  <2>3. CASE Lookup \/ Replace \/ Sidecar \/ WriteConfig \/ SetupGateway \/ RestartOlla
             \/ RestartEdge \/ ResolveTag \/ Report
    BY <2>3 DEF Lookup, Replace, Sidecar, WriteConfig, SetupGateway, RestartOlla,
                RestartEdge, RestartService, ResolveTag, Report, hosts, CanRun
  <2>4. ASSUME NEW m \in Nodes, ThreadBegins(m) PROVE CanRun(n)'
    BY <2>4 DEF ThreadBegins, hosts, CanRun
  <2>5. ASSUME NEW m \in Nodes, ThreadEnds(m) \/ Restart(m) PROVE CanRun(n)'
    BY <2>5, <2>b DEF ThreadEnds, Restart, Restarted, NotRestarted, TimedOut
  <2>6. ASSUME NEW m \in Nodes,
               PrepareHub(m) \/ Tooling(m) \/ Auth(m) \/ Setup(m), m # n
        PROVE  CanRun(n)'
    BY <2>0, <2>6, Elsewhere DEF CanRun
  <2>7. CASE PrepareHub(n)
    <3>1. n \notin Local => "cache" \in Roles[n]
      BY <2>0, <2>7 DEF PrepareHub, Turn, CommandInv, Caches, With
    <3> QED
      BY <2>7, <3>1 DEF PrepareHub, CanRun
  <2>8. CASE Tooling(n)
    <3>1. cmd.tag # 0
      BY <2>0, <2>8 DEF Tooling, CommandInv, NodeStages
    <3>2. node' \in {node, Tooled(n)}
      BY <2>8 DEF Tooling
    <3>3. /\ Tooled(n)[n].auth = node[n].auth /\ Tooled(n)[n].ready = node[n].ready
          /\ Tooled(n)[n].tool \in {cmd.tag, node[n].tool}
      BY <2>0 DEF Tooled, Node
    <3> QED
      BY <3>1, <3>2, <3>3 DEF CanRun
  <2>9. CASE Auth(n)
    <3>1. cmd.rev # 0
      BY <2>0 DEF CommandInv
    <3>2. /\ node'[n].auth = cmd.rev /\ node'[n].ready = node[n].ready
          /\ node'[n].tool = node[n].tool
      BY <2>0, <2>9 DEF Auth, Keyed, Node
    <3> QED
      BY <3>1, <3>2 DEF CanRun
  <2>10. CASE Setup(n)
    <3> DEFINE done == [node EXCEPT ![n].ready = TRUE]
    <3>1. /\ done \in [Nodes -> Node] /\ done[n].tool = node[n].tool
          /\ done[n].auth = node[n].auth /\ done[n].ready
      BY <2>0 DEF Node
    <3>2. node' \in {node, Down(node, n), Down(done, n), Up(done, n)}
      BY <2>10 DEF Setup
    <3>3. CASE node' \in {node, Down(node, n)}
      BY <2>b, <3>3
    <3>4. CASE node' \in {Down(done, n), Up(done, n)}
      <4> HIDE DEF done
      <4>1. \/ node'[n] = [done[n] EXCEPT !.up = done[n].tool, !.with = done[n].auth]
            \/ node'[n] = [done[n] EXCEPT !.up = 0]
        BY <3>1, <3>4 DEF Up, Down, Node
      <4>2. node'[n].tool = node[n].tool /\ node'[n].auth = node[n].auth /\ node'[n].ready
        BY <3>1, <4>1 DEF Node
      <4> QED
        BY <4>2 DEF CanRun
    <3> QED
      BY <3>2, <3>3, <3>4
  <2> QED
    BY <2>1, <2>2, <2>3, <2>4, <2>5, <2>6, <2>7, <2>8, <2>9, <2>10 DEF Next, Step
<1> QED
  BY <1>1, Invariance, PTL DEF Spec, StaysRunnable
=============================================================================
