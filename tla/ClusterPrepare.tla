--------------------------- MODULE ClusterPrepare ---------------------------
(***************************************************************************)
(* `cluster prepare` and `cluster restart` (cli.py): one command on the    *)
(* gateway changes the gateway, the cache hubs and the inference nodes one *)
(* after the other, and stops at the first that fails, with whatever it    *)
(* has changed until then.  Restarts of the nodes run in a thread pool.    *)
(*                                                                         *)
(* A run is a sequence of stages; each either succeeds or is a mishap.     *)
(* What a restart or setup does inside is ServiceUpdate's; here it counts  *)
(* which version and which settings a service comes up with.  GitHub, ssh, *)
(* uv and launchd are external.                                            *)
(***************************************************************************)
EXTENDS Integers, FiniteSets

CONSTANTS
  Nodes,
  Roles,       (* node -> its roles in tfconfig.yaml                       *)
  Rank,        (* node -> its place in tfconfig.yaml                       *)
  Local,       (* the nodes whose address is this machine's                *)
  Loopback,    (* the nodes whose oMLX binds the loopback interface        *)
  Default,     (* the Olla release that is used when none can be looked up *)
  Unkeyed,     (* the settings without OMLX_API_KEY                        *)
  Workers,     (* threads of the pool                                      *)
  MaxRelease,  (* bound: releases of Olla and oMLX                         *)
  MaxRev,      (* bound: edits of .env and tfconfig.yaml                   *)
  MaxRuns,     (* bound: commands run                                      *)
  MaxMishaps   (* bound: faults                                            *)

ASSUME PrepareAssumption ==
  /\ Roles \in [Nodes -> SUBSET {"gateway", "cache", "inference"}]
  /\ Rank \in [Nodes -> Nat]
  /\ \A n, m \in Nodes : Rank[n] = Rank[m] => n = m
  /\ MaxRelease \in Nat \ {0} /\ Default \in 1..MaxRelease
  /\ MaxRev \in Nat \ {0} /\ Unkeyed \subseteq 1..MaxRev
  /\ Workers \in Nat \ {0} /\ MaxRuns \in Nat /\ MaxMishaps \in Nat

VARIABLES
  release,   (* the latest release of Olla and of oMLX                     *)
  rev,       (* the settings in .env and tfconfig.yaml                     *)
  olla,      (* bin_dir: the binary and what .olla.sha256 says it is       *)
  gateway,   (* the generated config, and what Olla and the edge run with  *)
  node,      (* what each node has installed, and what it runs with        *)
  stage,     (* where the command is                                       *)
  todo,      (* the nodes this phase has still to do                       *)
  thread,    (* the restart of each node in the pool                       *)
  cmd,       (* the command, or the last one                               *)
  result,    (* how it ended                                               *)
  torn,      (* history: a run ended between the binary and its sidecar    *)
  runs, mishaps

hosts == <<olla, gateway, node>>
control == <<stage, todo, thread, cmd, result, torn, runs>>
vars == <<release, rev, hosts, control, mishaps>>

(* 0 stands for no version, no settings, no process.                       *)
Version == 0..MaxRelease
Rev == 0..MaxRev

Node == [tool : Version, auth : Rev, ready : BOOLEAN, up : Version, with : Rev]
Bare == [tool |-> 0, auth |-> 0, ready |-> FALSE, up |-> 0, with |-> 0]
Serving == [tool |-> 1, auth |-> 1, ready |-> TRUE, up |-> 1, with |-> 1]

With(role, S) == {n \in S : role \in Roles[n]}

Commands == [kind : {"prepare", "restart"}, targets : SUBSET Nodes,
             upgrade : BOOLEAN, pin : Version, rev : Rev, want : Version,
             fell : BOOLEAN, tag : Version, calm : 0..MaxMishaps]

(* A cluster nobody has prepared, or one that was, with the first release. *)
(* The default is a release: there is none before it when the program runs.*)
Init ==
  /\ release = Default
  /\ rev = 1
  /\ \/ /\ olla = [binary |-> 0, sidecar |-> 0]
        /\ gateway = [config |-> 0, ready |-> FALSE, olla |-> 0, with |-> 0, edge |-> 0]
        /\ node = [n \in Nodes |-> Bare]
     \/ /\ olla = [binary |-> 1, sidecar |-> 1]
        /\ gateway = [config |-> 1, ready |-> TRUE, olla |-> 1, with |-> 1, edge |-> 1]
        /\ node = [n \in Nodes |-> IF "inference" \in Roles[n] THEN Serving ELSE Bare]
  /\ stage = "idle"
  /\ todo = {}
  /\ thread = [n \in Nodes |-> "none"]
  /\ cmd = [kind |-> "prepare", targets |-> {}, upgrade |-> TRUE, pin |-> 0,
            rev |-> 1, want |-> 0, fell |-> FALSE, tag |-> 0, calm |-> 0]
  /\ result = "none"
  /\ torn = FALSE
  /\ runs = 0
  /\ mishaps = 0
-----------------------------------------------------------------------------
(* Control.                                                                *)

Mishap(k) == mishaps + k <= MaxMishaps /\ mishaps' = mishaps + k

(* The node whose turn it is in a loop over the phase's nodes.             *)
Turn(n) == n \in todo /\ \A m \in todo : Rank[n] <= Rank[m]

Caches(c) == With("cache", c.targets)
Inference(c) == With("inference", c.targets)

(* The first gateway in tfconfig.yaml, or the target if it is one.         *)
Gateways(T) ==
  {n \in With("gateway", T) : \A m \in With("gateway", T) : Rank[n] <= Rank[m]}

End(r) ==
  /\ stage' = "idle"
  /\ todo' = {}
  /\ result' = r
  /\ torn' = (torn \/ stage = "sidecar")
  /\ UNCHANGED <<thread, cmd, runs>>

Fail == End("failed")

Goto(s, S) ==
  /\ stage' = s
  /\ todo' = S
  /\ UNCHANGED <<thread, cmd, result, torn, runs>>

(* Mutant of After: the hubs are prepared after the nodes.                 *)
After_HubsLast(p) ==
  LET nodes == p = "gateway" /\ Inference(cmd) # {}
      hubs  == p # "hub" /\ Caches(cmd) # {}
  IN IF nodes THEN Goto("tag", {})
     ELSE IF hubs THEN Goto("hub", Caches(cmd)) ELSE End("complete")

(* The phases of prepare: gateway, hubs, nodes; those without nodes are    *)
(* passed over.                                                            *)
After(p) ==
  LET hubs  == p = "gateway" /\ Caches(cmd) # {}
      nodes == p # "nodes" /\ Inference(cmd) # {}
  IN IF hubs THEN Goto("hub", Caches(cmd))
     ELSE IF nodes THEN Goto("tag", {}) ELSE End("complete")

(* The first stage of a command: the gateway's, if it is for one.          *)
First(c) ==
  IF Gateways(c.targets) # {} THEN IF c.kind = "prepare" THEN "lookup" ELSE "config"
  ELSE IF c.kind = "prepare" THEN IF Caches(c) # {} THEN "hub" ELSE "tag"
  ELSE IF Inference(c) # {} THEN "pool" ELSE "idle"

(* _resolve_prepare_targets: the node named, or the whole cluster.         *)
Start ==
  /\ stage = "idle"
  /\ runs < MaxRuns
  /\ \E kind \in {"prepare", "restart"}, T \in {Nodes} \union {{n} : n \in Nodes},
        u \in BOOLEAN, pin \in 0..release :
       /\ kind = "restart" => ~u /\ pin = 0
       /\ cmd' = [kind |-> kind, targets |-> T, upgrade |-> u, pin |-> pin,
                  rev |-> rev, want |-> 0, fell |-> FALSE, tag |-> 0, calm |-> mishaps]
  /\ stage' = First(cmd')
  /\ todo' = IF stage' = "hub" THEN Caches(cmd') ELSE {}
  /\ thread' = [n \in Nodes |-> IF cmd'.kind = "restart" /\ n \in Inference(cmd')
                                THEN "queued" ELSE "none"]
  /\ result' = IF stage' = "idle" THEN "nothing" ELSE "none"
  /\ runs' = runs + 1
  /\ UNCHANGED <<release, rev, hosts, torn, mishaps>>
-----------------------------------------------------------------------------
(* ensure_olla_binary and the generated config.                            *)

(* Mutant of ResolveVersion: an unpinned prepare wants the default release.*)
ResolveVersion_Default ==
  /\ cmd' = [cmd EXCEPT !.want = IF cmd.pin # 0 THEN cmd.pin ELSE Default]
  /\ UNCHANGED mishaps

(* A release that cannot be looked up is the default one, silently.        *)
ResolveVersion ==
  \/ /\ cmd' = [cmd EXCEPT !.want = IF cmd.pin # 0 THEN cmd.pin ELSE release]
     /\ UNCHANGED mishaps
  \/ /\ cmd.pin = 0 /\ Mishap(1)
     /\ cmd' = [cmd EXCEPT !.want = Default, !.fell = TRUE]

(* The sidecar decides; the binary itself is not looked at.                *)
Current(want) == olla.binary # 0 /\ olla.sidecar = want

Lookup ==
  /\ stage = "lookup"
  /\ ResolveVersion
  /\ stage' = IF Current(cmd'.want) THEN "config" ELSE "install"
  /\ UNCHANGED <<hosts, todo, thread, result, torn, runs>>

(* Downloaded, its checksum verified, and renamed over the binary.         *)
Replace ==
  /\ stage = "install"
  /\ olla' = [olla EXCEPT !.binary = cmd.want]
  /\ torn' = FALSE
  /\ stage' = "sidecar"
  /\ UNCHANGED <<gateway, node, todo, thread, cmd, result, runs, mishaps>>

Sidecar ==
  /\ stage = "sidecar"
  /\ olla' = [binary |-> cmd.want, sidecar |-> cmd.want]
  /\ Goto("config", {})
  /\ UNCHANGED <<gateway, node, mishaps>>

(* write_generated_olla_config, from the settings read at the start.       *)
WriteConfig ==
  /\ stage = "config"
  /\ gateway' = [gateway EXCEPT !.config = cmd.rev]
  /\ Goto(IF cmd.kind = "prepare" THEN "gateway" ELSE "olla", {})
  /\ UNCHANGED <<olla, node, mishaps>>
-----------------------------------------------------------------------------
(* The gateway's services.  The edge reads .env and tfconfig.yaml itself.  *)

OllaUp(g) == [g EXCEPT !.olla = olla.binary, !.with = g.config]
EdgeUp(g) == [g EXCEPT !.edge = rev]

(* run_gateway_daemon_setup: sudoers, both services, both health checks.   *)
SetupGateway ==
  /\ stage = "gateway"
  /\ \/ /\ gateway' = [EdgeUp(OllaUp(gateway)) EXCEPT !.ready = TRUE]
        /\ After("gateway")
        /\ UNCHANGED mishaps
     \/ /\ Mishap(1)
        /\ gateway' \in {gateway, OllaUp(gateway), [gateway EXCEPT !.olla = 0, !.edge = 0]}
        /\ Fail
  /\ UNCHANGED <<olla, node>>

(* cluster restart: `sudo -n` works where prepare has left its sudoers.    *)
RestartService(s, up, down, after) ==
  /\ stage = s
  /\ \/ gateway.ready /\ gateway' = up /\ after /\ UNCHANGED mishaps
     \/ ~gateway.ready /\ Fail /\ UNCHANGED <<gateway, mishaps>>
     \/ Mishap(1) /\ gateway' \in {gateway, down, up} /\ Fail
  /\ UNCHANGED <<olla, node>>

RestartOlla == RestartService("olla", OllaUp(gateway), [gateway EXCEPT !.olla = 0],
                              Goto("edge", {}))
RestartEdge == RestartService("edge", EdgeUp(gateway), [gateway EXCEPT !.edge = 0],
                              IF Inference(cmd) # {} THEN Goto("pool", {})
                              ELSE End("complete"))
-----------------------------------------------------------------------------
(* The cache hubs.                                                         *)

(* The tooling of a hub on another machine is Hugging Face's; oMLX, which  *)
(* hubs once had, is removed.  pkill may or may not match the server.      *)
Untooled(n, killed) ==
  [node EXCEPT ![n] = [@ EXCEPT !.tool = 0, !.up = IF killed THEN 0 ELSE node[n].up]]

NextHub(n) == IF todo = {n} THEN After("hub") ELSE Goto("hub", todo \ {n})

PrepareHub(n) ==
  /\ stage = "hub" /\ Turn(n)
  /\ \/ n \in Local /\ NextHub(n) /\ UNCHANGED <<node, mishaps>>
     \/ /\ n \notin Local
        /\ \/ \E k \in BOOLEAN : node' = Untooled(n, k) /\ NextHub(n) /\ UNCHANGED mishaps
           \/ \E k \in BOOLEAN : node' \in {node, Untooled(n, k)} /\ Fail /\ Mishap(1)
  /\ UNCHANGED <<olla, gateway>>
-----------------------------------------------------------------------------
(* The inference nodes.                                                    *)

(* The key is looked for after gateway and hubs are done; the release of   *)
(* oMLX is resolved once for all nodes.                                    *)
ResolveTag ==
  /\ stage = "tag"
  /\ \/ cmd.rev \in Unkeyed /\ Inference(cmd) \ Loopback # {} /\ Fail
     \/ /\ cmd.rev \notin Unkeyed \/ Inference(cmd) \subseteq Loopback
        /\ cmd' = [cmd EXCEPT !.tag = release]
        /\ stage' = "tooling" /\ todo' = Inference(cmd)
        /\ UNCHANGED <<thread, result, torn, runs>>
  /\ UNCHANGED <<hosts, mishaps>>

(* Mutant of Tooled: --no-upgrade-omlx installs nothing at all.            *)
Tooled_UpgradeOnly(n) ==
  [node EXCEPT ![n].tool = IF cmd.upgrade THEN cmd.tag ELSE node[n].tool]

(* uv installs what is missing, and what is there only with --upgrade-omlx.*)
Tooled(n) ==
  [node EXCEPT ![n].tool = IF cmd.upgrade \/ node[n].tool = 0 THEN cmd.tag
                           ELSE node[n].tool]

(* Mutant of Tooling: the old tool is uninstalled first.                   *)
Tooling_Uninstalls(n) ==
  /\ stage = "tooling" /\ Turn(n)
  /\ \/ node' = Tooled(n) /\ Goto("auth", todo) /\ UNCHANGED mishaps
     \/ node' = [node EXCEPT ![n].tool = 0] /\ Fail /\ Mishap(1)
  /\ UNCHANGED <<olla, gateway>>

Tooling(n) ==
  /\ stage = "tooling" /\ Turn(n)
  /\ \/ node' = Tooled(n) /\ Goto("auth", todo) /\ UNCHANGED mishaps
     \/ node' \in {node, Tooled(n)} /\ Fail /\ Mishap(1)
  /\ UNCHANGED <<olla, gateway>>

(* Mutant of Keyed: nothing but the key is kept.                           *)
Keyed_Alone(n) == [node EXCEPT ![n] = [auth |-> cmd.rev]]

(* The key is merged into settings.json, which is replaced by a rename.    *)
Keyed(n) == [node EXCEPT ![n].auth = cmd.rev]

(* The verification wants a key even of a node on the loopback interface,  *)
(* whose key was not asked for before.                                     *)
Auth(n) ==
  /\ stage = "auth" /\ Turn(n)
  /\ node' = Keyed(n)
  /\ IF cmd.rev \in Unkeyed THEN Fail ELSE Goto("setup", todo)
  /\ UNCHANGED <<olla, gateway, mishaps>>

(* oMLX starts with a binary, a key and an installed job.                  *)
CanRun(n) == /\ node[n].tool # 0 /\ node[n].ready
             /\ node[n].auth # 0 /\ node[n].auth \notin Unkeyed

Up(f, n) == [f EXCEPT ![n] = [@ EXCEPT !.up = f[n].tool, !.with = f[n].auth]]
Down(f, n) == [f EXCEPT ![n].up = 0]

(* run_omlx_daemon_setup replaces the job but does not look at it.         *)
Setup(n) ==
  /\ stage = "setup" /\ Turn(n)
  /\ LET done == [node EXCEPT ![n].ready = TRUE] IN
     \/ node' \in {Up(done, n), Down(done, n)} /\ Goto("restart", todo) /\ UNCHANGED mishaps
     \/ node' \in {node, Down(node, n), Down(done, n)} /\ Fail /\ Mishap(1)
  /\ UNCHANGED <<olla, gateway>>

(* _restart_omlx_runtime_strict: a failure is retried once, so it takes    *)
(* two faults, or a timeout, which is not caught.                          *)
Restarted(n) == CanRun(n) /\ node' = Up(node, n) /\ UNCHANGED mishaps
NotRestarted(n) ==
  /\ node' \in {node, Down(node, n)} \union (IF CanRun(n) THEN {Up(node, n)} ELSE {})
  /\ IF CanRun(n) THEN Mishap(2) ELSE UNCHANGED mishaps
TimedOut(n) ==
  /\ Mishap(1)
  /\ node' \in {node, Down(node, n)} \union (IF CanRun(n) THEN {Up(node, n)} ELSE {})

Restart(n) ==
  /\ stage = "restart" /\ Turn(n)
  /\ \/ /\ Restarted(n)
        /\ IF todo = {n} THEN After("nodes") ELSE Goto("tooling", todo \ {n})
     \/ (NotRestarted(n) \/ TimedOut(n)) /\ Fail
  /\ UNCHANGED <<olla, gateway>>
-----------------------------------------------------------------------------
(* cluster restart: the pool of threads.                                   *)

Settle(n, s) == thread' = [thread EXCEPT ![n] = s]

ThreadBegins(n) ==
  /\ stage = "pool" /\ thread[n] = "queued"
  /\ Cardinality({m \in Nodes : thread[m] = "running"}) < Workers
  /\ Settle(n, "running")
  /\ UNCHANGED <<hosts, mishaps, stage, todo, cmd, result, torn, runs>>

ThreadEnds(n) ==
  /\ stage = "pool" /\ thread[n] = "running"
  /\ \/ Restarted(n) /\ Settle(n, "ok")
     \/ NotRestarted(n) /\ Settle(n, "failed")
     \/ TimedOut(n) /\ Settle(n, "raised")
  /\ UNCHANGED <<olla, gateway, stage, todo, cmd, result, torn, runs>>

(* Mutant of Report: the first exception leaves the pool at once.          *)
Report_AtOnce ==
  /\ stage = "pool"
  /\ \/ (\E n \in Nodes : thread[n] = "raised") /\ Fail
     \/ /\ \A n \in Nodes : thread[n] \notin {"queued", "running", "raised"}
        /\ IF \E n \in Nodes : thread[n] = "failed" THEN Fail ELSE End("complete")
  /\ UNCHANGED <<hosts, mishaps>>

(* future.result() raises in the loop over the pool, which is left only    *)
(* when every thread is done.                                              *)
Report ==
  /\ stage = "pool"
  /\ \A n \in Nodes : thread[n] \notin {"queued", "running"}
  /\ IF \E n \in Nodes : thread[n] \in {"failed", "raised"} THEN Fail ELSE End("complete")
  /\ UNCHANGED <<hosts, mishaps>>
-----------------------------------------------------------------------------
(* The world.                                                              *)

(* Between two steps of the sequence the command is killed or an exception *)
(* (a download, a full disk) ends it.                                      *)
Cut ==
  /\ stage \notin {"idle", "pool"}
  /\ Mishap(1)
  /\ Fail
  /\ UNCHANGED <<release, rev, hosts>>

Release == release < MaxRelease /\ release' = release + 1
           /\ UNCHANGED <<rev, hosts, control, mishaps>>
Edit == rev < MaxRev /\ rev' = rev + 1 /\ UNCHANGED <<release, hosts, control, mishaps>>

Crash(n) ==
  /\ node[n].up # 0 /\ Mishap(1)
  /\ node' = Down(node, n)
  /\ UNCHANGED <<release, rev, olla, gateway, control>>

(* launchd's KeepAlive.                                                    *)
KeepAlive(n) ==
  /\ node[n].up = 0 /\ CanRun(n)
  /\ node' = Up(node, n)
  /\ UNCHANGED <<release, rev, olla, gateway, control, mishaps>>

Step ==
  /\ \/ Lookup \/ Replace \/ Sidecar \/ WriteConfig
     \/ SetupGateway \/ RestartOlla \/ RestartEdge
     \/ ResolveTag \/ Report
     \/ \E n \in Nodes : \/ PrepareHub(n) \/ Tooling(n) \/ Auth(n) \/ Setup(n)
                         \/ Restart(n) \/ ThreadBegins(n) \/ ThreadEnds(n)
  /\ UNCHANGED <<release, rev>>

Next ==
  \/ Start \/ Step \/ Cut \/ Release \/ Edit
  \/ \E n \in Nodes : Crash(n) \/ KeepAlive(n)

(* Every command of a run has a timeout.                                   *)
Spec == Init /\ [][Next]_vars /\ WF_vars(Step)
-----------------------------------------------------------------------------
(* Properties.                                                             *)

(* Every variable holds a value of its type.                               *)
TypeOK ==
  /\ release \in Version \ {0}
  /\ rev \in Rev \ {0}
  /\ olla \in [binary : Version, sidecar : Version]
  /\ gateway \in [config : Rev, ready : BOOLEAN, olla : Version, with : Rev, edge : Rev]
  /\ node \in [Nodes -> Node]
  /\ stage \in {"idle", "lookup", "install", "sidecar", "config", "gateway", "olla",
                "edge", "hub", "tag", "tooling", "auth", "setup", "restart", "pool"}
  /\ todo \in SUBSET Nodes
  /\ thread \in [Nodes -> {"none", "queued", "running", "ok", "failed", "raised"}]
  /\ cmd \in Commands
  /\ result \in {"none", "nothing", "failed", "complete"}
  /\ torn \in BOOLEAN
  /\ runs \in 0..MaxRuns
  /\ mishaps \in 0..MaxMishaps

Ended(r) == stage = "idle" /\ result = r

(* A process, if there is one, has what is installed: the others are those *)
(* a restart was meant to replace.                                         *)
Fresh(n) == CanRun(n) /\ node[n].up \in {0, node[n].tool}
                      /\ (node[n].up # 0 => node[n].with = node[n].auth)

(* "cluster prepare complete" and "cluster restart complete" are true of   *)
(* the whole cluster at once, though its nodes were done one by one, new   *)
(* releases and edits came in between and a hub may be an inference node:  *)
(* every node can run and runs what is installed, after prepare with the   *)
(* command's settings and one and the same release.  The gateway runs the  *)
(* Olla that was wanted, although only the sidecar was compared: except    *)
(* after a run that ended between the binary and its sidecar.              *)
CompleteServes ==
  Ended("complete") =>
    /\ \A n \in Inference(cmd) :
         /\ Fresh(n)
         /\ cmd.kind = "prepare" => /\ node[n].auth = cmd.rev
                                    /\ cmd.upgrade => node[n].tool = cmd.tag
    /\ Gateways(cmd.targets) # {} =>
         /\ gateway.ready /\ gateway.with = cmd.rev
         /\ gateway.olla = olla.binary /\ gateway.edge >= cmd.rev
         /\ cmd.kind = "prepare" /\ ~torn => gateway.olla = cmd.want

(* Whatever an earlier run left half done, running prepare again repairs:  *)
(* without a new fault, and with a key, it does not fail.                  *)
RerunRecovers ==
  (Ended("failed") /\ cmd.kind = "prepare" /\ cmd.rev \notin Unkeyed)
    => mishaps > cmd.calm

(* Unlike prepare, restart gets to every node: one that fails, or whose    *)
(* thread raises, does not keep a queued one from being restarted.         *)
EveryNodeTried ==
  stage = "idle" => \A n \in Nodes : thread[n] \notin {"queued", "running"}
                      \/ \A m \in Nodes : thread[m] \in {"queued", "none"}

(* An unpinned prepare never puts an older Olla in place, unless the       *)
(* latest release could not be looked up.                                  *)
OnlyForward ==
  [][olla'.binary >= olla.binary \/ cmd.pin # 0 \/ cmd.fell]_vars

(* An inference node that can run stays able to, wherever a prepare or     *)
(* restart fails: all but a hub on another machine, whose tool is removed  *)
(* first, and but for settings without a key on a loopback node.           *)
StaysRunnable ==
  [][\A n \in Nodes :
       (CanRun(n) /\ (n \in Local \/ "cache" \notin Roles[n]) /\ cmd.rev \notin Unkeyed)
         => CanRun(n)']_vars
=============================================================================
