---------------------------- MODULE ArtifactSync ----------------------------
(***************************************************************************)
(* Model artifacts: a cache hub, inference nodes, and operators who        *)
(* download models to the hub (`artifact download`) and bring them to a    *)
(* node (`cluster sync`: what the hub lacks is staged from another node,   *)
(* every model is copied from the hub, models not assigned to the node are *)
(* pruned, the runtime is restarted).                                      *)
(*                                                                         *)
(* Operators work from their own machines over ssh and share nothing but   *)
(* the directories.  A step of an operator is one ssh command or one file  *)
(* of an rsync; any of them may fail or time out, which ends the run and   *)
(* leaves the directories as they are.                                     *)
(***************************************************************************)
EXTENDS Naturals, FiniteSets

CONSTANTS
  Hub, Nodes,    (* the cache host and the inference nodes                 *)
  NoNode,
  Models,        (* repos; the one directory each has on a host            *)
  Assigned,      (* node -> the models the configuration assigns to it     *)
  Layouts,       (* what the directories may hold at first                 *)
  Operators,
  Jobs,          (* the commands operators may run                         *)
  MaxRuns        (* bound: commands run                                    *)

Hosts == {Hub} \union Nodes

(* A model of two shards with their index.  "dir" is the directory itself, *)
(* "partial" rsync's .rsync-partial in it, "incomplete" a *.incomplete     *)
(* file of an unfinished download.                                         *)
Weights == {"shard1", "shard2"}
Files   == Weights \union {"config", "index"}
Pieces  == Files \union {"dir", "partial", "incomplete"}

(* onHub: the command runs on the hub itself (no ssh to it, no staging).   *)
Job == [task : {"sync", "download"}, target : Nodes, wanted : SUBSET Models,
        prune : BOOLEAN, restart : BOOLEAN, onHub : BOOLEAN]

ASSUME SyncAssumption ==
  /\ Hub \notin Nodes
  /\ NoNode \notin Hosts
  /\ Assigned \in [Nodes -> SUBSET Models]
  /\ Layouts \subseteq [Hosts -> [Models -> SUBSET Pieces]]
  /\ Models # {}
  /\ Jobs \subseteq Job
  /\ Jobs # {}
  /\ \A j \in Jobs : j.task = "download" => \E m \in Models : j.wanted = {m}
  /\ MaxRuns \in Nat

VARIABLES
  dir,        (* what each model's directory holds on each host            *)
  pc,         (* where each operator's run is                              *)
  job,        (* the command it runs, or ran last                          *)
  local,      (* what the run knows                                        *)
  result,     (* how the last run ended                                    *)
  owed,       (* history: model -> files the run settled on, at its turn   *)
  runs        (* runs started                                              *)

vars == <<dir, pc, job, local, result, owed, runs>>

Stages == {"idle", "probeHub", "probeNode", "findSources", "stage", "staging",
           "sync", "syncing", "listCache", "prune", "restart", "download",
           "downloading"}

(* left: files the rsync has still to visit; lost: one had vanished.       *)
Copies == [model : Models, from : Hosts, to : Hosts, left : SUBSET Files,
           lost : BOOLEAN]

(* ready: models its probe found ready on the hub; stage: models still to  *)
(* be staged; unasked: nodes not asked yet for a copy of those; source:    *)
(* the nodes they are staged from; todo: models still to be brought to the *)
(* node; stale: models still to be pruned; copy: the rsync under way.      *)
Local == [ready : SUBSET Models, stage : SUBSET Models,
          unasked : SUBSET Nodes, source : [Models -> Nodes \union {NoNode}],
          todo : SUBSET Models, stale : SUBSET Models, copy : Copies]

Blank ==
  [ready |-> {}, stage |-> {}, unasked |-> {},
   source |-> [m \in Models |-> NoNode], todo |-> {}, stale |-> {},
   copy |-> [model |-> CHOOSE m \in Models : TRUE, from |-> Hub, to |-> Hub,
             left |-> {}, lost |-> FALSE]]

Init ==
  /\ dir    \in Layouts
  /\ pc     = [o \in Operators |-> "idle"]
  /\ job    = [o \in Operators |-> CHOOSE j \in Jobs : TRUE]
  /\ local  = [o \in Operators |-> Blank]
  /\ result = [o \in Operators |-> "none"]
  /\ owed   = [o \in Operators |-> [m \in Models |-> {}]]
  /\ runs   = 0
-----------------------------------------------------------------------------
(* Readiness, as each command judges it.                                   *)

(* artifact_complete_command: every presence probe, and the check that     *)
(* ends a staging.                                                         *)
LooksReady(pieces) ==
  /\ {"dir", "config"} \subseteq pieces
  /\ pieces \intersect {"incomplete", "partial"} = {}
  /\ pieces \intersect Weights # {}

(* The checks at the head of the staging script: of the source it asks     *)
(* less than that.                                                         *)
Stageable(pieces) ==
  {"dir", "config"} \subseteq pieces /\ "incomplete" \notin pieces

(* _model_complete of the download script: the index is read when there is *)
(* more than one weight file.                                              *)
Downloaded(pieces) ==
  /\ LooksReady(pieces)
  /\ Cardinality(pieces \intersect Weights) > 1 => Files \subseteq pieces

Whole(h, m) == Files \subseteq dir[h][m]
-----------------------------------------------------------------------------
(* Control of a run.                                                       *)

Target(o) == job[o].target

Goto(o, s) == pc' = [pc EXCEPT ![o] = s]

Change(h, m, pieces) == dir' = [dir EXCEPT ![h][m] = pieces]

(* The process ends, and with it what it knew.                             *)
Exit(o, r) ==
  /\ Goto(o, "idle")
  /\ result' = [result EXCEPT ![o] = r]
  /\ local' = [local EXCEPT ![o] = Blank]

(* An operator runs a command.                                             *)
Start(o) ==
  /\ pc[o] = "idle"
  /\ runs < MaxRuns
  /\ runs' = runs + 1
  /\ \E j \in Jobs :
       /\ job' = [job EXCEPT ![o] = j]
       /\ local' = [local EXCEPT ![o].todo = j.wanted]
       /\ Goto(o, CASE j.task = "download" -> "download"
                    [] j.task = "sync" /\ j.onHub -> "sync"
                    [] j.task = "sync" /\ ~j.onHub -> "probeHub")
  /\ owed' = [owed EXCEPT ![o] = [m \in Models |-> {}]]
  /\ result' = [result EXCEPT ![o] = "none"]
  /\ UNCHANGED dir

(* The answer of a presence probe; of an ssh that fails, nothing.          *)
Found(h, models) == {{m \in models : LooksReady(dir[h][m])}, {}}
-----------------------------------------------------------------------------
(* _stage_missing_models_to_hub.                                           *)

ProbeHub(o) ==
  /\ pc[o] = "probeHub"
  /\ \E found \in Found(Hub, job[o].wanted) :
       local' = [local EXCEPT ![o].ready = found]
  /\ Goto(o, "probeNode")
  /\ UNCHANGED <<dir, job, result, owed, runs>>

(* The files of a model the run leaves as they are on the node.            *)
Kept(o, m) == dir[Target(o)][m] \intersect Files

(* Neither on the hub nor on the node: to be staged.  On the node only:    *)
(* left alone, with what it has.                                           *)
ProbeNode(o) ==
  /\ pc[o] = "probeNode"
  /\ \E found \in Found(Target(o), job[o].wanted) :
       LET hub == local[o].ready
           alone   == found \ hub
           missing == job[o].wanted \ (found \union hub) IN
       /\ local' = [local EXCEPT ![o].stage = missing,
                                 ![o].todo = @ \ alone,
                                 ![o].unasked = Nodes \ {Target(o)}]
       /\ owed' = [owed EXCEPT ![o] =
                     [m \in Models |-> IF m \in alone THEN Kept(o, m) ELSE @[m]]]
       /\ Goto(o, IF missing = {} THEN "sync" ELSE "findSources")
  /\ UNCHANGED <<dir, job, result, runs>>

Pending(o) == {m \in local[o].stage : local[o].source[m] = NoNode}

(* The other nodes are asked in turn until each model has a source.        *)
AskNode(o) ==
  /\ pc[o] = "findSources"
  /\ Pending(o) # {}
  /\ \E n \in local[o].unasked : \E found \in Found(n, Pending(o)) :
       local' = [local EXCEPT
         ![o].unasked = @ \ {n},
         ![o].source = [m \in Models |-> IF m \in found THEN n ELSE @[m]]]
  /\ UNCHANGED <<dir, pc, job, result, owed, runs>>

SourcesFound(o) ==
  /\ pc[o] = "findSources"
  /\ Pending(o) = {} \/ local[o].unasked = {}
  /\ Goto(o, "stage")
  /\ UNCHANGED <<dir, job, local, result, owed, runs>>

(* Mutant of Opened: everything in the directory is taken for its files.   *)
Opened_All(m, from, to) ==
  [model |-> m, from |-> from, to |-> to, left |-> dir[from][m],
   lost |-> FALSE]

(* An rsync starts: the destination directory is made, the source's files  *)
(* are listed.                                                             *)
Opened(m, from, to) ==
  [model |-> m, from |-> from, to |-> to,
   left |-> dir[from][m] \intersect Files, lost |-> FALSE]

MakeDir(h, m) == Change(h, m, dir[h][m] \union {"dir"})

(* A model without a source, or whose source is not what it was, ends the  *)
(* run with those staged before it on the hub.                             *)
StageModel(o) ==
  /\ pc[o] = "stage"
  /\ \E m \in local[o].stage :
       LET n == local[o].source[m] IN
       \/ /\ n # NoNode /\ Stageable(dir[n][m])
          /\ local' = [local EXCEPT ![o].stage = @ \ {m},
                                    ![o].copy = Opened(m, n, Hub)]
          /\ MakeDir(Hub, m)
          /\ Goto(o, "staging")
          /\ UNCHANGED result
       \/ /\ n # NoNode => ~Stageable(dir[n][m])
          /\ Exit(o, "failed")
          /\ UNCHANGED dir
  /\ UNCHANGED <<job, owed, runs>>

StagingDone(o) ==
  /\ pc[o] = "stage"
  /\ local[o].stage = {}
  /\ Goto(o, "sync")
  /\ UNCHANGED <<dir, job, local, result, owed, runs>>
-----------------------------------------------------------------------------
(* rsync -a --partial-dir=.rsync-partial, file by file in name order.      *)

Before(f, g) ==
  \/ f = "config" /\ g # "config"
  \/ f = "shard1" /\ g \in {"shard2", "index"}
  \/ f = "shard2" /\ g = "index"

CopyFile(o) ==
  LET c == local[o].copy
      source == dir[c.from][c.model]
      dest   == dir[c.to][c.model] IN
  /\ pc[o] \in {"staging", "syncing"}
  /\ \E f \in c.left :
       /\ \A g \in c.left \ {f} : Before(f, g)
       /\ local' = [local EXCEPT ![o].copy.left = @ \ {f},
                                 ![o].copy.lost = @ \/ f \notin source]
       /\ IF f \in source \ dest
            THEN Change(c.to, c.model, (dest \ {"partial"}) \union {"dir", f})
            ELSE UNCHANGED dir
  /\ UNCHANGED <<pc, job, result, owed, runs>>

(* rsync's exit code; a file that vanished from the source is an error.    *)
Ended(o)  == local[o].copy.left = {}
Copied(o) == Ended(o) /\ ~local[o].copy.lost

StagingEnds(o) ==
  /\ pc[o] = "staging"
  /\ Ended(o)
  /\ IF Copied(o) /\ LooksReady(dir[Hub][local[o].copy.model])
       THEN Goto(o, "stage") /\ UNCHANGED <<local, result>>
       ELSE Exit(o, "failed")
  /\ UNCHANGED <<dir, job, owed, runs>>
-----------------------------------------------------------------------------
(* _run_artifact_sync_workflow, model by model.                            *)

CopyToNode(o, m) ==
  /\ local' = [local EXCEPT ![o].todo = @ \ {m},
                            ![o].copy = Opened(m, Hub, Target(o))]
  /\ owed' = [owed EXCEPT ![o][m] = dir[Hub][m] \intersect Files]
  /\ MakeDir(Target(o), m)
  /\ Goto(o, "syncing")
  /\ UNCHANGED result

SkipModel(o, m) ==
  /\ local' = [local EXCEPT ![o].todo = @ \ {m}]
  /\ owed' = [owed EXCEPT ![o][m] = Kept(o, m)]
  /\ UNCHANGED <<dir, pc, result>>

Fail(o) == Exit(o, "failed") /\ UNCHANGED <<dir, owed>>

(* Mutant of SyncRemotely: a hub that has nothing to copy is no error.     *)
SyncRemotely_Skips(o) ==
  /\ pc[o] = "sync" /\ ~job[o].onHub
  /\ \E m \in local[o].todo :
       \/ LooksReady(dir[Hub][m]) /\ CopyToNode(o, m)
       \/ ~LooksReady(dir[Hub][m]) /\ SkipModel(o, m)
  /\ UNCHANGED <<job, runs>>

(* The hub's script: a directory that is not ready is an error; without    *)
(* one, the node must be ready already.                                    *)
SyncRemotely(o) ==
  /\ pc[o] = "sync" /\ ~job[o].onHub
  /\ \E m \in local[o].todo :
       LET given == "dir" \notin dir[Hub][m] /\ LooksReady(dir[Target(o)][m]) IN
       \/ LooksReady(dir[Hub][m]) /\ CopyToNode(o, m)
       \/ given /\ SkipModel(o, m)
       \/ ~LooksReady(dir[Hub][m]) /\ ~given /\ Fail(o)
  /\ UNCHANGED <<job, runs>>

(* On the hub: the two directories are probed, and a node that looks ready *)
(* is not copied to.                                                       *)
SyncLocally(o) ==
  /\ pc[o] = "sync" /\ job[o].onHub
  /\ \E m \in local[o].todo : \E found \in Found(Target(o), {m}) :
       \/ ~LooksReady(dir[Hub][m]) /\ Fail(o)
       \/ LooksReady(dir[Hub][m]) /\ m \in found /\ SkipModel(o, m)
       \/ LooksReady(dir[Hub][m]) /\ m \notin found /\ CopyToNode(o, m)
  /\ UNCHANGED <<job, runs>>

(* Mutant of SyncEnds: an rsync that stopped short passes for one that     *)
(* succeeded.                                                              *)
SyncEnds_ExitIgnored(o) ==
  /\ pc[o] = "syncing"
  /\ Goto(o, "sync")
  /\ UNCHANGED <<dir, job, local, result, owed, runs>>

SyncEnds(o) ==
  /\ pc[o] = "syncing"
  /\ Ended(o)
  /\ IF Copied(o) THEN Goto(o, "sync") /\ UNCHANGED <<local, result>>
                  ELSE Exit(o, "failed")
  /\ UNCHANGED <<dir, job, owed, runs>>

(* After the models: pruning and a restart, if asked for.                  *)
FinishOrRestart(o) ==
  IF job[o].restart THEN Goto(o, "restart") /\ UNCHANGED <<local, result>>
                    ELSE Exit(o, "ok")

AllSynced(o) ==
  /\ pc[o] = "sync"
  /\ local[o].todo = {}
  /\ IF job[o].prune THEN Goto(o, "listCache") /\ UNCHANGED <<local, result>>
                     ELSE FinishOrRestart(o)
  /\ UNCHANGED <<dir, job, owed, runs>>
-----------------------------------------------------------------------------
(* _prune_node_cache_models and the restart.                               *)

(* Mutant of ListCache: everything the run was not for is stale.           *)
ListCache_KeepsWanted(o) ==
  /\ pc[o] = "listCache"
  /\ LET cached == {m \in Models : "dir" \in dir[Target(o)][m]} IN
     local' = [local EXCEPT ![o].stale = cached \ job[o].wanted]
  /\ Goto(o, "prune")
  /\ UNCHANGED <<dir, job, result, owed, runs>>

ListCache(o) ==
  /\ pc[o] = "listCache"
  /\ LET cached == {m \in Models : "dir" \in dir[Target(o)][m]} IN
     local' = [local EXCEPT ![o].stale = cached \ Assigned[Target(o)]]
  /\ Goto(o, "prune")
  /\ UNCHANGED <<dir, job, result, owed, runs>>

(* rm -rf of one directory.                                                *)
PruneModel(o) ==
  /\ pc[o] = "prune"
  /\ \E m \in local[o].stale :
       /\ local' = [local EXCEPT ![o].stale = @ \ {m}]
       /\ Change(Target(o), m, {})
  /\ UNCHANGED <<pc, job, result, owed, runs>>

PruneEnds(o) ==
  /\ pc[o] = "prune"
  /\ local[o].stale = {}
  /\ FinishOrRestart(o)
  /\ UNCHANGED <<dir, job, owed, runs>>

(* _restart_omlx_runtime_strict, its second attempt included.              *)
Restart(o) ==
  /\ pc[o] = "restart"
  /\ Exit(o, "ok")
  /\ UNCHANGED <<dir, job, owed, runs>>
-----------------------------------------------------------------------------
(* artifact download, which is for one model.                              *)

AlreadyReady(o) ==
  /\ pc[o] = "download" /\ ~job[o].onHub
  /\ \A m \in job[o].wanted : Downloaded(dir[Hub][m])
  /\ Exit(o, "ok")
  /\ UNCHANGED <<dir, job, owed, runs>>

(* snapshot_download, or oMLX's downloader when the command runs on the    *)
(* hub, which does not look first: files come in any order, with some      *)
(* .incomplete file about until all are there.                             *)
DownloadStarts(o) ==
  /\ pc[o] = "download"
  /\ \E m \in job[o].wanted :
       /\ job[o].onHub \/ ~Downloaded(dir[Hub][m])
       /\ Change(Hub, m, dir[Hub][m] \union {"dir", "incomplete"})
  /\ Goto(o, "downloading")
  /\ UNCHANGED <<job, local, result, owed, runs>>

DownloadFile(o) ==
  /\ pc[o] = "downloading"
  /\ \E m \in job[o].wanted : \E f \in Files \ dir[Hub][m] :
       Change(Hub, m, dir[Hub][m] \union {f})
  /\ UNCHANGED <<pc, job, local, result, owed, runs>>

DownloadEnds(o) ==
  /\ pc[o] = "downloading"
  /\ \E m \in job[o].wanted :
       Whole(Hub, m) /\ Change(Hub, m, dir[Hub][m] \ {"incomplete"})
  /\ Exit(o, "ok")
  /\ UNCHANGED <<job, owed, runs>>
-----------------------------------------------------------------------------
(* The operator's process is interrupted, an ssh or rsync fails, or        *)
(* subprocess.run times out.                                               *)
Abort(o) ==
  /\ pc[o] # "idle"
  /\ Exit(o, "failed")
  /\ UNCHANGED <<dir, job, owed, runs>>

(* An rsync cut short within a file leaves its partial dir.                *)
AbortCopy(o) ==
  LET c == local[o].copy IN
  /\ pc[o] \in {"staging", "syncing"}
  /\ c.left # {}
  /\ Change(c.to, c.model, dir[c.to][c.model] \union {"dir", "partial"})
  /\ Exit(o, "failed")
  /\ UNCHANGED <<job, owed, runs>>

(* An rm -rf cut short leaves what it has not removed yet.                 *)
AbortPrune(o) ==
  /\ pc[o] = "prune"
  /\ \E m \in local[o].stale : \E rest \in SUBSET dir[Target(o)][m] :
       Change(Target(o), m, rest \union (dir[Target(o)][m] \intersect {"dir"}))
  /\ Exit(o, "failed")
  /\ UNCHANGED <<job, owed, runs>>
-----------------------------------------------------------------------------
Step(o) ==
  \/ ProbeHub(o) \/ ProbeNode(o) \/ AskNode(o) \/ SourcesFound(o)
  \/ StageModel(o) \/ CopyFile(o) \/ StagingEnds(o) \/ StagingDone(o)
  \/ SyncRemotely(o) \/ SyncLocally(o) \/ SyncEnds(o) \/ AllSynced(o)
  \/ ListCache(o) \/ PruneModel(o) \/ PruneEnds(o) \/ Restart(o)
  \/ AlreadyReady(o) \/ DownloadStarts(o) \/ DownloadFile(o)
  \/ DownloadEnds(o)

Next ==
  \E o \in Operators :
    Start(o) \/ Step(o) \/ Abort(o) \/ AbortCopy(o) \/ AbortPrune(o)

(* Every ssh command runs under a timeout, so a run goes on or is ended.   *)
Fairness == \A o \in Operators : WF_vars(Step(o))

Spec == Init /\ [][Next]_vars /\ Fairness
-----------------------------------------------------------------------------
(* Properties.                                                             *)

TypeOK ==
  /\ dir \in [Hosts -> [Models -> SUBSET Pieces]]
  /\ pc \in [Operators -> Stages]
  /\ job \in [Operators -> Jobs]
  /\ local \in [Operators -> Local]
  /\ result \in [Operators -> {"none", "ok", "failed"}]
  /\ owed \in [Operators -> [Models -> SUBSET Files]]
  /\ runs \in 0..MaxRuns

Usable(pieces) == "config" \in pieces /\ pieces \intersect Weights # {}

(* After a sync that reports success the node has a config and weights of  *)
(* each model the run was for (and it is assigned: pruning spares no       *)
(* other).  Of a model that was copied, in this run, it has every file the *)
(* hub had at the model's turn, whatever earlier runs left on the node; of *)
(* one the run found ready there and skipped, every file it was found      *)
(* with, which may be some of the model's only.  What other operators do   *)
(* meanwhile takes nothing of it away.                                     *)
SyncDelivers ==
  \A o \in Operators : result[o] = "ok" /\ job[o].task = "sync" =>
    \A m \in job[o].wanted \intersect Assigned[Target(o)] :
      /\ owed[o][m] \subseteq dir[Target(o)][m]
      /\ Usable(dir[Target(o)][m])

(* The runtime is restarted only when the node has, of every model the run *)
(* was for and the node is assigned, a config and some weights.            *)
RestartFindsModels ==
  \A o \in Operators : pc[o] = "restart" =>
    \A m \in job[o].wanted \intersect Assigned[Target(o)] :
      /\ "config" \in dir[Target(o)][m]
      /\ dir[Target(o)][m] \intersect Weights # {}

(* The one thing that takes files away is pruning a node of a model that   *)
(* is not assigned to it: nobody's failure, retry or copy does.            *)
AssignedSurvive ==
  [][\A h \in Hosts, m \in Models :
       (h = Hub \/ m \in Assigned[h]) =>
         dir[h][m] \intersect Files \subseteq dir'[h][m]]_vars

(* The test of the download script (tests/test_remote_cache.py:60) is      *)
(* called "requires_complete_shard_index": already_ready means that every  *)
(* shard is there.                                                         *)
AlreadyReadyIsWhole ==
  \A o \in Operators : pc[o] = "download" /\ ~job[o].onHub =>
    \A m \in job[o].wanted : Downloaded(dir[Hub][m]) => Whole(Hub, m)
=============================================================================
