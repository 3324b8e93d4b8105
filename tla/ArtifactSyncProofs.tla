------------------------- MODULE ArtifactSyncProofs -------------------------
(***************************************************************************)
(* Proofs about the artifact commands, for any number of operators, nodes, *)
(* models and runs, and any initial contents of the directories.           *)
(***************************************************************************)
EXTENDS ArtifactSync, TLAPS

(***************************************************************************)
(* Types.                                                                  *)
(***************************************************************************)

LEMMA GotoType ==
  ASSUME TypeOK, NEW o \in Operators, NEW s \in Stages, Goto(o, s)
  PROVE  pc' \in [Operators -> Stages]
  BY DEF TypeOK, Goto

LEMMA DirType ==
  ASSUME TypeOK, NEW h \in Hosts, NEW m \in Models, NEW p \in SUBSET Pieces,
         Change(h, m, p)
  PROVE  /\ dir' \in [Hosts -> [Models -> SUBSET Pieces]]
         /\ dir'[h][m] = p
         /\ \A g \in Hosts, n \in Models :
              (g # h \/ n # m) => dir'[g][n] = dir[g][n]
  BY DEF TypeOK, Change

LEMMA LocalType ==
  ASSUME TypeOK, NEW o \in Operators, NEW l \in Local,
         local' = [local EXCEPT ![o] = l]
  PROVE  /\ local' \in [Operators -> Local]
         /\ local'[o] = l
  BY DEF TypeOK

LEMMA BlankType == Blank \in Local
  BY SyncAssumption DEF Blank, Local, Copies, Hosts

LEMMA ExitType ==
  ASSUME TypeOK, NEW o \in Operators, NEW r \in {"ok", "failed"}, Exit(o, r)
  PROVE  /\ pc' \in [Operators -> Stages]
         /\ local' \in [Operators -> Local]
         /\ result' \in [Operators -> {"none", "ok", "failed"}]
  BY BlankType DEF TypeOK, Exit, Goto, Stages

(* What is typed through the type of another variable.                     *)
LEMMA Typed ==
  ASSUME TypeOK, NEW o \in Operators
  PROVE  /\ job[o] \in Job /\ job[o] \in Jobs
         /\ Target(o) \in Nodes /\ Target(o) \in Hosts
         /\ job[o].wanted \subseteq Models
         /\ local[o] \in Local
         /\ local[o].ready \subseteq Models
         /\ local[o].stage \subseteq Models
         /\ local[o].unasked \subseteq Nodes
         /\ local[o].source \in [Models -> Nodes \union {NoNode}]
         /\ local[o].todo \subseteq Models
         /\ local[o].stale \subseteq Models
         /\ local[o].copy \in Copies
         /\ local[o].copy.model \in Models
         /\ local[o].copy.from \in Hosts
         /\ local[o].copy.to \in Hosts
         /\ local[o].copy.left \subseteq Files
         /\ local[o].copy.lost \in BOOLEAN
<1>1. job[o] \in Job /\ job[o] \in Jobs
  BY SyncAssumption DEF TypeOK
<1>2. local[o] \in Local
  BY DEF TypeOK
<1>3. local[o].copy \in Copies
  BY <1>2 DEF Local
<1> QED BY <1>1, <1>2, <1>3 DEF Job, Local, Copies, Target, Hosts

(* The assignments to what a run knows.                                    *)
LEMMA LocalFields ==
  ASSUME TypeOK, NEW o \in Operators
  PROVE  /\ \A s \in SUBSET Models :
              /\ [local[o] EXCEPT !.ready = s] \in Local
              /\ [local[o] EXCEPT !.todo = s] \in Local
              /\ [local[o] EXCEPT !.stale = s] \in Local
         /\ \A s \in SUBSET Models, t \in SUBSET Models, u \in SUBSET Nodes :
              [local[o] EXCEPT !.stage = s, !.todo = t, !.unasked = u] \in Local
         /\ \A u \in SUBSET Nodes, f \in [Models -> Nodes \union {NoNode}] :
              [local[o] EXCEPT !.unasked = u, !.source = f] \in Local
         /\ \A s \in SUBSET Models, c \in Copies :
              /\ [local[o] EXCEPT !.stage = s, !.copy = c] \in Local
              /\ [local[o] EXCEPT !.todo = s, !.copy = c] \in Local
         /\ \A c \in Copies : [local[o] EXCEPT !.copy = c] \in Local
<1>1. local[o] \in Local
  BY Typed
<1> QED BY <1>1 DEF Local

LEMMA OpenedType ==
  ASSUME TypeOK, NEW m \in Models, NEW from \in Hosts, NEW to \in Hosts
  PROVE  Opened(m, from, to) \in Copies
  BY DEF TypeOK, Opened, Copies, Files, Weights

LEMMA MakeDirType ==
  ASSUME TypeOK, NEW h \in Hosts, NEW m \in Models, MakeDir(h, m)
  PROVE  dir' \in [Hosts -> [Models -> SUBSET Pieces]]
<1>1. dir[h][m] \union {"dir"} \in SUBSET Pieces
  BY DEF TypeOK, Pieces
<1> QED BY <1>1, DirType DEF MakeDir

(* Both commands of a copy to the node.                                    *)
LEMMA CopyToNodeType ==
  ASSUME TypeOK, NEW o \in Operators, NEW m \in Models, CopyToNode(o, m),
         UNCHANGED <<job, runs>>
  PROVE  TypeOK'
<1>1. dir' \in [Hosts -> [Models -> SUBSET Pieces]]
  BY Typed, MakeDirType DEF CopyToNode
<1>2. pc' \in [Operators -> Stages]
  BY GotoType DEF CopyToNode, Stages
<1>3. local' \in [Operators -> Local]
  <2> DEFINE l == [local[o] EXCEPT !.todo = @ \ {m},
                                   !.copy = Opened(m, Hub, Target(o))]
  <2>1. Opened(m, Hub, Target(o)) \in Copies
    BY Typed, OpenedType DEF Hosts
  <2>2. l \in Local
    BY <2>1, Typed, LocalFields
  <2>3. local' = [local EXCEPT ![o] = l]
    BY DEF CopyToNode
  <2> QED BY <2>2, <2>3, LocalType
<1>4. owed' \in [Operators -> [Models -> SUBSET Files]]
  BY DEF TypeOK, CopyToNode
<1> QED BY <1>1, <1>2, <1>3, <1>4 DEF TypeOK, CopyToNode

LEMMA SkipModelType ==
  ASSUME TypeOK, NEW o \in Operators, NEW m \in Models, SkipModel(o, m),
         UNCHANGED <<job, runs>>
  PROVE  TypeOK'
<1>1. [local[o] EXCEPT !.todo = @ \ {m}] \in Local
  BY Typed, LocalFields
<1>2. local' = [local EXCEPT ![o] = [local[o] EXCEPT !.todo = @ \ {m}]]
  BY DEF SkipModel
<1>3. owed' \in [Operators -> [Models -> SUBSET Files]]
  BY DEF TypeOK, SkipModel, Kept
<1>4. local' \in [Operators -> Local]
  BY <1>1, <1>2, LocalType
<1> QED BY <1>3, <1>4 DEF TypeOK, SkipModel

LEMMA FinishOrRestartType ==
  ASSUME TypeOK, NEW o \in Operators, FinishOrRestart(o),
         UNCHANGED <<dir, job, owed, runs>>
  PROVE  TypeOK'
<1>1. CASE job[o].restart
  BY <1>1, GotoType DEF FinishOrRestart, Stages, TypeOK
<1>2. CASE ~job[o].restart
  BY <1>2, ExitType DEF FinishOrRestart, TypeOK
<1> QED BY <1>1, <1>2

LEMMA TypeInit == Init => TypeOK
<1> SUFFICES ASSUME Init PROVE TypeOK
  OBVIOUS
<1>1. (CHOOSE j \in Jobs : TRUE) \in Jobs
  BY SyncAssumption
<1> QED BY <1>1, SyncAssumption, BlankType DEF Init, TypeOK, Stages

LEMMA StartType ==
  ASSUME TypeOK, NEW o \in Operators, Start(o) PROVE TypeOK'
<1>1. PICK j \in Jobs :
        /\ job' = [job EXCEPT ![o] = j]
        /\ local' = [local EXCEPT ![o].todo = j.wanted]
        /\ Goto(o, CASE j.task = "download" -> "download"
                     [] j.task = "sync" /\ j.onHub -> "sync"
                     [] j.task = "sync" /\ ~j.onHub -> "probeHub")
  BY DEF Start
<1>2. j \in Job
  BY SyncAssumption
<1>3. local' \in [Operators -> Local]
  <2>1. [local[o] EXCEPT !.todo = j.wanted] \in Local
    BY <1>2, LocalFields DEF Job
  <2>2. local' = [local EXCEPT ![o] = [local[o] EXCEPT !.todo = j.wanted]]
    BY <1>1
  <2> QED BY <2>1, <2>2, LocalType
<1>4. pc' \in [Operators -> Stages]
  <2>1. PICK s \in {"download", "sync", "probeHub"} : Goto(o, s)
    BY <1>1, <1>2 DEF Job
  <2> QED BY <2>1, GotoType DEF Stages
<1>5. runs' \in 0..MaxRuns
  BY SyncAssumption DEF Start, TypeOK
<1> QED BY <1>1, <1>3, <1>4, <1>5 DEF Start, TypeOK

(* Probing and staging.                                                    *)
LEMMA StagingType ==
  ASSUME TypeOK, NEW o \in Operators,
         \/ ProbeHub(o) \/ ProbeNode(o) \/ AskNode(o) \/ SourcesFound(o)
         \/ StageModel(o) \/ StagingDone(o) \/ StagingEnds(o)
  PROVE  TypeOK'
<1>1. CASE ProbeHub(o)
  <2>1. PICK found \in Found(Hub, job[o].wanted) :
          local' = [local EXCEPT ![o].ready = found]
    BY <1>1 DEF ProbeHub
  <2>2. found \in SUBSET Models
    BY Typed DEF Found
  <2>3. [local[o] EXCEPT !.ready = found] \in Local
    BY <2>2, LocalFields
  <2>4. local' = [local EXCEPT ![o] = [local[o] EXCEPT !.ready = found]]
    BY <2>1
  <2>5. local' \in [Operators -> Local]
    BY <2>3, <2>4, LocalType
  <2>6. pc' \in [Operators -> Stages]
    BY <1>1, GotoType DEF ProbeHub, Stages
  <2> QED BY <1>1, <2>5, <2>6 DEF ProbeHub, TypeOK
<1>2. CASE ProbeNode(o)
  <2>1. PICK found \in Found(Target(o), job[o].wanted) :
          LET hub == local[o].ready
              missing == job[o].wanted \ (found \union hub) IN
          /\ local' = [local EXCEPT ![o].stage = missing,
                                    ![o].todo = @ \ (found \ hub),
                                    ![o].unasked = Nodes \ {Target(o)}]
          /\ Goto(o, IF missing = {} THEN "sync" ELSE "findSources")
    BY <1>2 DEF ProbeNode
  <2> DEFINE missing == job[o].wanted \ (found \union local[o].ready)
             rest    == local[o].todo \ (found \ local[o].ready)
             others  == Nodes \ {Target(o)}
  <2>2. /\ missing \in SUBSET Models
        /\ rest \in SUBSET Models
        /\ others \in SUBSET Nodes
    BY Typed
  <2>3. local' = [local EXCEPT ![o] =
          [local[o] EXCEPT !.stage = missing, !.todo = rest,
                           !.unasked = others]]
    BY <2>1
  <2>4. [local[o] EXCEPT !.stage = missing, !.todo = rest, !.unasked = others]
          \in Local
    BY <2>2, LocalFields
  <2>5. local' \in [Operators -> Local]
    BY <2>3, <2>4, LocalType
  <2>6. pc' \in [Operators -> Stages]
    BY <2>1, GotoType DEF Stages
  <2>7. owed' \in [Operators -> [Models -> SUBSET Files]]
    <3>1. PICK ready : owed' = [owed EXCEPT ![o] =
                         [m \in Models |-> IF m \in ready THEN Kept(o, m)
                                          ELSE owed[o][m]]]
      BY <1>2 DEF ProbeNode
    <3> DEFINE f == [m \in Models |-> IF m \in ready THEN Kept(o, m)
                                     ELSE owed[o][m]]
    <3>2. f \in [Models -> SUBSET Files]
      BY DEF Kept, TypeOK
    <3>3. owed' = [owed EXCEPT ![o] = f]
      BY <3>1
    <3> HIDE DEF f
    <3> QED BY <3>2, <3>3 DEF TypeOK
  <2> QED BY <1>2, <2>5, <2>6, <2>7 DEF ProbeNode, TypeOK
<1>3. CASE AskNode(o)
  <2>1. PICK n \in local[o].unasked : \E found \in Found(n, Pending(o)) :
          local' = [local EXCEPT
            ![o].unasked = @ \ {n},
            ![o].source = [m \in Models |-> IF m \in found THEN n ELSE @[m]]]
    BY <1>3 DEF AskNode
  <2>2. PICK found \in Found(n, Pending(o)) :
          local' = [local EXCEPT
            ![o].unasked = @ \ {n},
            ![o].source = [m \in Models |-> IF m \in found THEN n ELSE @[m]]]
    BY <2>1
  <2> DEFINE rest == local[o].unasked \ {n}
             src  == [m \in Models |-> IF m \in found
                                         THEN n ELSE local[o].source[m]]
  <2>3. rest \in SUBSET Nodes /\ src \in [Models -> Nodes \union {NoNode}]
    BY Typed
  <2>4. [local[o] EXCEPT !.unasked = rest, !.source = src] \in Local
    BY <2>3, LocalFields
  <2>5. local' = [local EXCEPT ![o] =
          [local[o] EXCEPT !.unasked = rest, !.source = src]]
    BY <2>2
  <2>6. local' \in [Operators -> Local]
    BY <2>4, <2>5, LocalType
  <2> QED BY <1>3, <2>6 DEF AskNode, TypeOK
<1>4. CASE SourcesFound(o)
  BY <1>4, GotoType DEF SourcesFound, TypeOK, Stages
<1>5. CASE StageModel(o)
  <2>1. PICK m \in local[o].stage :
          \/ /\ local[o].source[m] # NoNode
             /\ local' = [local EXCEPT
                  ![o].stage = @ \ {m},
                  ![o].copy = Opened(m, local[o].source[m], Hub)]
             /\ MakeDir(Hub, m)
             /\ Goto(o, "staging")
             /\ UNCHANGED result
          \/ /\ Exit(o, "failed")
             /\ UNCHANGED dir
    BY <1>5 DEF StageModel
  <2>2. m \in Models
    BY Typed
  <2>3. CASE Exit(o, "failed") /\ UNCHANGED dir
    BY <1>5, <2>3, ExitType DEF StageModel, TypeOK
  <2>4. CASE /\ local[o].source[m] # NoNode
             /\ local' = [local EXCEPT
                  ![o].stage = @ \ {m},
                  ![o].copy = Opened(m, local[o].source[m], Hub)]
             /\ MakeDir(Hub, m)
             /\ Goto(o, "staging")
             /\ UNCHANGED result
    <3> DEFINE c == Opened(m, local[o].source[m], Hub)
               rest == local[o].stage \ {m}
    <3>1. local[o].source[m] \in Hosts /\ Hub \in Hosts
      BY <2>2, <2>4, Typed DEF Hosts
    <3>2. c \in Copies
      BY <2>2, <3>1, OpenedType
    <3>3. rest \in SUBSET Models
      BY Typed
    <3>4. [local[o] EXCEPT !.stage = rest, !.copy = c] \in Local
      BY <3>2, <3>3, LocalFields
    <3>5. local' = [local EXCEPT ![o] =
                      [local[o] EXCEPT !.stage = rest, !.copy = c]]
      BY <2>4
    <3>6. local' \in [Operators -> Local]
      BY <3>4, <3>5, LocalType
    <3>7. dir' \in [Hosts -> [Models -> SUBSET Pieces]]
      BY <2>2, <2>4, <3>1, MakeDirType
    <3>8. pc' \in [Operators -> Stages]
      BY <2>4, GotoType DEF Stages
    <3> QED BY <1>5, <2>4, <3>6, <3>7, <3>8 DEF StageModel, TypeOK
  <2> QED BY <2>1, <2>3, <2>4
<1>6. CASE StagingDone(o)
  BY <1>6, GotoType DEF StagingDone, TypeOK, Stages
<1>7. CASE StagingEnds(o)
  <2>1. CASE Exit(o, "failed")
    BY <1>7, <2>1, ExitType DEF StagingEnds, TypeOK
  <2>2. CASE Goto(o, "stage") /\ UNCHANGED <<local, result>>
    BY <1>7, <2>2, GotoType DEF StagingEnds, TypeOK, Stages
  <2> QED BY <1>7, <2>1, <2>2 DEF StagingEnds
<1> QED BY <1>1, <1>2, <1>3, <1>4, <1>5, <1>6, <1>7

LEMMA CopyFileType ==
  ASSUME TypeOK, NEW o \in Operators, CopyFile(o) PROVE TypeOK'
<1> DEFINE c == local[o].copy
           source == dir[c.from][c.model]
           dest == dir[c.to][c.model]
<1>1. PICK f \in c.left :
        /\ local' = [local EXCEPT ![o].copy.left = @ \ {f},
                                  ![o].copy.lost = @ \/ f \notin source]
        /\ \/ Change(c.to, c.model, (dest \ {"partial"}) \union {"dir", f})
           \/ UNCHANGED dir
  BY DEF CopyFile
<1>2. c \in Copies /\ f \in Files
  BY Typed
<1> DEFINE d == [c EXCEPT !.left = @ \ {f}, !.lost = @ \/ f \notin source]
<1>3. d \in Copies
  BY <1>2 DEF Copies
<1>4. [local[o] EXCEPT !.copy = d] \in Local
  BY <1>3, LocalFields
<1>5. local' = [local EXCEPT ![o] = [local[o] EXCEPT !.copy = d]]
  BY <1>1
<1>6. local' \in [Operators -> Local]
  BY <1>4, <1>5, LocalType
<1>7. dir' \in [Hosts -> [Models -> SUBSET Pieces]]
  <2>1. (dest \ {"partial"}) \union {"dir", f} \in SUBSET Pieces
    BY <1>2, Typed DEF TypeOK, Pieces
  <2>2. c.to \in Hosts /\ c.model \in Models
    BY Typed
  <2> HIDE DEF c, dest
  <2> QED BY <1>1, <2>1, <2>2, DirType DEF TypeOK
<1> QED BY <1>6, <1>7 DEF CopyFile, TypeOK

(* Bringing models to the node.                                            *)
LEMMA SyncingType ==
  ASSUME TypeOK, NEW o \in Operators,
         SyncRemotely(o) \/ SyncLocally(o) \/ SyncEnds(o) \/ AllSynced(o)
  PROVE  TypeOK'
<1>f. ASSUME Fail(o), UNCHANGED <<job, runs>> PROVE TypeOK'
  BY <1>f, ExitType DEF Fail, TypeOK
<1>1. CASE SyncRemotely(o)
  <2>1. PICK m \in local[o].todo :
          CopyToNode(o, m) \/ SkipModel(o, m) \/ Fail(o)
    BY <1>1 DEF SyncRemotely
  <2> QED BY <1>1, <1>f, <2>1, Typed, CopyToNodeType, SkipModelType
          DEF SyncRemotely
<1>2. CASE SyncLocally(o)
  <2>1. PICK m \in local[o].todo :
          CopyToNode(o, m) \/ SkipModel(o, m) \/ Fail(o)
    BY <1>2 DEF SyncLocally
  <2> QED BY <1>2, <1>f, <2>1, Typed, CopyToNodeType, SkipModelType
          DEF SyncLocally
<1>3. CASE SyncEnds(o)
  <2>1. CASE Exit(o, "failed")
    BY <1>3, <2>1, ExitType DEF SyncEnds, TypeOK
  <2>2. CASE Goto(o, "sync") /\ UNCHANGED <<local, result>>
    BY <1>3, <2>2, GotoType DEF SyncEnds, TypeOK, Stages
  <2> QED BY <1>3, <2>1, <2>2 DEF SyncEnds
<1>4. CASE AllSynced(o)
  <2>1. CASE FinishOrRestart(o)
    BY <1>4, <2>1, FinishOrRestartType DEF AllSynced
  <2>2. CASE Goto(o, "listCache") /\ UNCHANGED <<local, result>>
    BY <1>4, <2>2, GotoType DEF AllSynced, TypeOK, Stages
  <2> QED BY <1>4, <2>1, <2>2 DEF AllSynced
<1> QED BY <1>1, <1>2, <1>3, <1>4

(* Pruning, downloads and interruptions.                                   *)
LEMMA PruningType ==
  ASSUME TypeOK, NEW o \in Operators,
         ListCache(o) \/ PruneModel(o) \/ PruneEnds(o) \/ Restart(o)
  PROVE  TypeOK'
<1>1. CASE ListCache(o)
  <2> DEFINE old == {m \in Models : "dir" \in dir[Target(o)][m]}
                      \ Assigned[Target(o)]
  <2>1. [local[o] EXCEPT !.stale = old] \in Local
    BY LocalFields
  <2>2. local' = [local EXCEPT ![o] = [local[o] EXCEPT !.stale = old]]
    BY <1>1 DEF ListCache
  <2>3. local' \in [Operators -> Local]
    BY <2>1, <2>2, LocalType
  <2>4. pc' \in [Operators -> Stages]
    BY <1>1, GotoType DEF ListCache, Stages
  <2> QED BY <1>1, <2>3, <2>4 DEF ListCache, TypeOK
<1>2. CASE PruneModel(o)
  <2>1. PICK m \in local[o].stale :
          /\ local' = [local EXCEPT ![o].stale = @ \ {m}]
          /\ Change(Target(o), m, {})
    BY <1>2 DEF PruneModel
  <2>2. [local[o] EXCEPT !.stale = @ \ {m}] \in Local
    BY Typed, LocalFields
  <2>3. local' = [local EXCEPT ![o] = [local[o] EXCEPT !.stale = @ \ {m}]]
    BY <2>1
  <2>4. local' \in [Operators -> Local]
    BY <2>2, <2>3, LocalType
  <2>5. dir' \in [Hosts -> [Models -> SUBSET Pieces]]
    BY <2>1, Typed, DirType
  <2> QED BY <1>2, <2>4, <2>5 DEF PruneModel, TypeOK
<1>3. CASE PruneEnds(o)
  BY <1>3, FinishOrRestartType DEF PruneEnds
<1>4. CASE Restart(o)
  BY <1>4, ExitType DEF Restart, TypeOK
<1> QED BY <1>1, <1>2, <1>3, <1>4

LEMMA DownloadType ==
  ASSUME TypeOK, NEW o \in Operators,
         \/ AlreadyReady(o) \/ DownloadStarts(o)
         \/ DownloadFile(o) \/ DownloadEnds(o)
  PROVE  TypeOK'
<1>h. Hub \in Hosts
  BY DEF Hosts
<1>1. CASE AlreadyReady(o)
  BY <1>1, ExitType DEF AlreadyReady, TypeOK
<1>2. CASE DownloadStarts(o)
  <2>1. PICK m \in Models :
          Change(Hub, m, dir[Hub][m] \union {"dir", "incomplete"})
    BY <1>2, Typed DEF DownloadStarts
  <2>2. dir[Hub][m] \union {"dir", "incomplete"} \in SUBSET Pieces
    BY <1>h DEF TypeOK, Pieces
  <2> QED BY <1>2, <1>h, <2>1, <2>2, DirType, GotoType
          DEF DownloadStarts, TypeOK, Stages
<1>3. CASE DownloadFile(o)
  <2>1. PICK m \in Models, f \in Files :
          Change(Hub, m, dir[Hub][m] \union {f})
    BY <1>3, Typed DEF DownloadFile
  <2>2. dir[Hub][m] \union {f} \in SUBSET Pieces
    BY <1>h DEF TypeOK, Pieces
  <2> QED BY <1>3, <1>h, <2>1, <2>2, DirType DEF DownloadFile, TypeOK
<1>4. CASE DownloadEnds(o)
  <2>1. PICK m \in Models : Change(Hub, m, dir[Hub][m] \ {"incomplete"})
    BY <1>4, Typed DEF DownloadEnds
  <2>2. dir[Hub][m] \ {"incomplete"} \in SUBSET Pieces
    BY <1>h DEF TypeOK
  <2> QED BY <1>4, <1>h, <2>1, <2>2, DirType, ExitType
          DEF DownloadEnds, TypeOK
<1> QED BY <1>1, <1>2, <1>3, <1>4

LEMMA AbortType ==
  ASSUME TypeOK, NEW o \in Operators,
         Abort(o) \/ AbortCopy(o) \/ AbortPrune(o)
  PROVE  TypeOK'
<1>1. CASE Abort(o)
  BY <1>1, ExitType DEF Abort, TypeOK
<1>2. CASE AbortCopy(o)
  <2> DEFINE c == local[o].copy
  <2>1. c.to \in Hosts /\ c.model \in Models
    BY Typed
  <2>2. dir[c.to][c.model] \union {"dir", "partial"} \in SUBSET Pieces
    BY <2>1 DEF TypeOK, Pieces
  <2>3. Change(c.to, c.model, dir[c.to][c.model] \union {"dir", "partial"})
    BY <1>2 DEF AbortCopy
  <2> HIDE DEF c
  <2> QED BY <1>2, <2>1, <2>2, <2>3, DirType, ExitType DEF AbortCopy, TypeOK
<1>3. CASE AbortPrune(o)
  <2>1. PICK m \in Models : \E rest \in SUBSET dir[Target(o)][m] :
          Change(Target(o), m,
                 rest \union (dir[Target(o)][m] \intersect {"dir"}))
    BY <1>3, Typed DEF AbortPrune
  <2>3. PICK rest \in SUBSET dir[Target(o)][m] :
          Change(Target(o), m,
                 rest \union (dir[Target(o)][m] \intersect {"dir"}))
    BY <2>1
  <2>2. rest \union (dir[Target(o)][m] \intersect {"dir"}) \in SUBSET Pieces
    BY Typed DEF TypeOK
  <2> QED BY <1>3, <2>3, <2>2, Typed, DirType, ExitType
          DEF AbortPrune, TypeOK
<1> QED BY <1>1, <1>2, <1>3

LEMMA TypeStep == TypeOK /\ [Next]_vars => TypeOK'
<1> SUFFICES ASSUME TypeOK, [Next]_vars PROVE TypeOK'
  OBVIOUS
<1>1. CASE UNCHANGED vars
  BY <1>1 DEF vars, TypeOK
<1>2. CASE Next
  <2>1. PICK o \in Operators :
          Start(o) \/ Step(o) \/ Abort(o) \/ AbortCopy(o) \/ AbortPrune(o)
    BY <1>2 DEF Next
  <2> QED BY <2>1, StartType, StagingType, CopyFileType, SyncingType,
             PruningType, DownloadType, AbortType DEF Step
<1> QED BY <1>1, <1>2

(* Type correctness of the artifact commands.                              *)
THEOREM TypeCorrect == Spec => []TypeOK
<1> QED BY TypeInit, TypeStep, PTL DEF Spec
-----------------------------------------------------------------------------
(***************************************************************************)
(* Nothing assigned is ever lost.  The list of what to prune is made from  *)
(* the assignment and only shrinks, so what is removed is unassigned.      *)
(***************************************************************************)

StaleUnassigned ==
  \A o \in Operators :
    pc[o] = "prune" => local[o].stale \intersect Assigned[Target(o)] = {}

(* One step of AssignedSurvive.                                            *)
Survives ==
  \A h \in Hosts, m \in Models :
    (h = Hub \/ m \in Assigned[h]) =>
      dir[h][m] \intersect Files \subseteq dir'[h][m]

LEMMA StillSurvives == ASSUME UNCHANGED dir PROVE Survives
  BY DEF Survives

LEMMA ChangeSurvives ==
  ASSUME TypeOK, NEW h \in Hosts, NEW m \in Models, NEW p, Change(h, m, p),
         (h = Hub \/ m \in Assigned[h]) => dir[h][m] \intersect Files \subseteq p
  PROVE  Survives
  BY DEF TypeOK, Change, Survives

(* What pruning removes is on a node, and not assigned to it.              *)
LEMMA PruneSurvives ==
  ASSUME TypeOK, StaleUnassigned, NEW o \in Operators, pc[o] = "prune",
         NEW m \in local[o].stale, NEW p, Change(Target(o), m, p)
  PROVE  Survives
<1>1. m \in Models /\ Target(o) \in Nodes /\ Target(o) \in Hosts
  BY Typed
<1>2. Target(o) # Hub
  BY <1>1, SyncAssumption
<1>3. m \notin Assigned[Target(o)]
  BY DEF StaleUnassigned
<1> QED BY <1>1, <1>2, <1>3, ChangeSurvives

LEMMA CopySurvives ==
  ASSUME TypeOK, NEW o \in Operators, CopyFile(o) \/ AbortCopy(o)
  PROVE  Survives
<1> DEFINE c == local[o].copy
           dest == dir[c.to][c.model]
<1>1. c.to \in Hosts /\ c.model \in Models
  BY Typed
<1>2. CASE UNCHANGED dir
  BY <1>2, StillSurvives
<1>3. CASE CopyFile(o) /\ dir' # dir
  <2>1. PICK f \in c.left :
          Change(c.to, c.model, (dest \ {"partial"}) \union {"dir", f})
    BY <1>3 DEF CopyFile
  <2>2. dest \intersect Files \subseteq (dest \ {"partial"}) \union {"dir", f}
    BY DEF Files, Weights
  <2> HIDE DEF c, dest
  <2>3. dir[c.to][c.model] \intersect Files
          \subseteq (dest \ {"partial"}) \union {"dir", f}
    BY <2>2 DEF dest
  <2> QED BY <1>1, <2>1, <2>3, ChangeSurvives
<1>4. CASE AbortCopy(o)
  <2>1. Change(c.to, c.model, dest \union {"dir", "partial"})
    BY <1>4 DEF AbortCopy
  <2>2. dir[c.to][c.model] \intersect Files
          \subseteq dest \union {"dir", "partial"}
    OBVIOUS
  <2> HIDE DEF c, dest
  <2> QED BY <1>1, <2>1, <2>2, ChangeSurvives
<1> QED BY <1>2, <1>3, <1>4

LEMMA MakeDirSurvives ==
  ASSUME TypeOK, NEW h \in Hosts, NEW m \in Models, MakeDir(h, m)
  PROVE  Survives
<1>1. dir[h][m] \intersect Files \subseteq dir[h][m] \union {"dir"}
  OBVIOUS
<1> QED BY <1>1, ChangeSurvives DEF MakeDir

LEMMA SyncSurvives ==
  ASSUME TypeOK, NEW o \in Operators, SyncRemotely(o) \/ SyncLocally(o)
  PROVE  Survives
<1>1. PICK m \in local[o].todo :
        CopyToNode(o, m) \/ SkipModel(o, m) \/ Fail(o)
  BY DEF SyncRemotely, SyncLocally
<1>2. m \in Models /\ Target(o) \in Hosts
  BY Typed
<1> QED BY <1>1, <1>2, MakeDirSurvives, StillSurvives
        DEF CopyToNode, SkipModel, Fail

LEMMA StageSurvives ==
  ASSUME TypeOK, NEW o \in Operators, StageModel(o) PROVE Survives
<1>1. \/ \E m \in local[o].stage : MakeDir(Hub, m)
      \/ UNCHANGED dir
  BY DEF StageModel
<1>2. Hub \in Hosts /\ local[o].stage \subseteq Models
  BY Typed DEF Hosts
<1> QED BY <1>1, <1>2, MakeDirSurvives, StillSurvives

LEMMA DownloadSurvives ==
  ASSUME TypeOK, NEW o \in Operators,
         DownloadStarts(o) \/ DownloadFile(o) \/ DownloadEnds(o)
  PROVE  Survives
<1>1. job[o].wanted \subseteq Models /\ Hub \in Hosts
  BY Typed DEF Hosts
<1>2. CASE DownloadStarts(o)
  <2>1. PICK m \in job[o].wanted :
          Change(Hub, m, dir[Hub][m] \union {"dir", "incomplete"})
    BY <1>2 DEF DownloadStarts
  <2> QED BY <1>1, <2>1, ChangeSurvives
<1>3. CASE DownloadFile(o)
  <2>1. PICK m \in job[o].wanted :
          \E f \in Files : Change(Hub, m, dir[Hub][m] \union {f})
    BY <1>3 DEF DownloadFile
  <2> QED BY <1>1, <2>1, ChangeSurvives
<1>4. CASE DownloadEnds(o)
  <2>1. PICK m \in job[o].wanted : Change(Hub, m, dir[Hub][m] \ {"incomplete"})
    BY <1>4 DEF DownloadEnds
  <2>2. "incomplete" \notin Files
    BY DEF Files, Weights
  <2>3. dir[Hub][m] \intersect Files \subseteq dir[Hub][m] \ {"incomplete"}
    BY <2>2
  <2> QED BY <1>1, <2>1, <2>3, ChangeSurvives
<1> QED BY <1>2, <1>3, <1>4

Action(o) ==
  Start(o) \/ Step(o) \/ Abort(o) \/ AbortCopy(o) \/ AbortPrune(o)

LEMMA StepSurvives ==
  ASSUME TypeOK, StaleUnassigned, NEW o \in Operators, Action(o)
  PROVE  Survives
<1>1. CASE PruneModel(o) \/ AbortPrune(o)
  <2>1. pc[o] = "prune" /\ \E m \in local[o].stale, p \in SUBSET Pieces :
                             Change(Target(o), m, p)
    <3>1. CASE PruneModel(o)
      BY <3>1 DEF PruneModel
    <3>2. CASE AbortPrune(o)
      <4>1. PICK m \in local[o].stale : \E rest \in SUBSET dir[Target(o)][m] :
              Change(Target(o), m,
                     rest \union (dir[Target(o)][m] \intersect {"dir"}))
        BY <3>2 DEF AbortPrune
      <4>2. dir[Target(o)][m] \subseteq Pieces
        BY Typed DEF TypeOK
      <4>3. PICK rest \in SUBSET dir[Target(o)][m] :
              Change(Target(o), m,
                     rest \union (dir[Target(o)][m] \intersect {"dir"}))
        BY <4>1
      <4>4. rest \union (dir[Target(o)][m] \intersect {"dir"})
              \in SUBSET Pieces
        BY <4>2
      <4> QED BY <3>2, <4>3, <4>4 DEF AbortPrune
    <3> QED BY <1>1, <3>1, <3>2
  <2> QED BY <2>1, PruneSurvives
<1>2. CASE UNCHANGED dir
  BY <1>2, StillSurvives
<1>3. CASE CopyFile(o) \/ AbortCopy(o)
  BY <1>3, CopySurvives
<1>4. CASE SyncRemotely(o) \/ SyncLocally(o)
  BY <1>4, SyncSurvives
<1>5. CASE StageModel(o)
  BY <1>5, StageSurvives
<1>6. CASE DownloadStarts(o) \/ DownloadFile(o) \/ DownloadEnds(o)
  BY <1>6, DownloadSurvives
<1>7. \/ PruneModel(o) \/ AbortPrune(o) \/ UNCHANGED dir
      \/ CopyFile(o) \/ AbortCopy(o) \/ SyncRemotely(o) \/ SyncLocally(o)
      \/ StageModel(o) \/ DownloadStarts(o) \/ DownloadFile(o)
      \/ DownloadEnds(o)
  BY DEF Action, Step, Start, Abort, ProbeHub, ProbeNode, AskNode,
         SourcesFound, StagingEnds, StagingDone, SyncEnds, AllSynced,
         ListCache, PruneEnds, Restart, AlreadyReady
<1> QED BY <1>1, <1>2, <1>3, <1>4, <1>5, <1>6, <1>7

(* A step of one operator is not seen by another, but in the directories.  *)
Unseen(p) ==
  /\ pc'[p] = pc[p] /\ job'[p] = job[p] /\ local'[p] = local[p]
  /\ result'[p] = result[p] /\ owed'[p] = owed[p]

LEMMA ExitUnseen ==
  ASSUME TypeOK, NEW o \in Operators, NEW p \in Operators \ {o},
         NEW r, Exit(o, r), UNCHANGED <<job, owed>>
  PROVE  Unseen(p)
  BY DEF TypeOK, Exit, Goto, Unseen

LEMMA GotoUnseen ==
  ASSUME TypeOK, NEW o \in Operators, NEW p \in Operators \ {o},
         NEW s, Goto(o, s)
  PROVE  pc'[p] = pc[p]
  BY DEF TypeOK, Goto

LEMMA LocalUnseen ==
  ASSUME TypeOK, NEW o \in Operators, NEW p \in Operators \ {o},
         NEW l, local' = [local EXCEPT ![o] = l]
  PROVE  local'[p] = local[p]
  BY DEF TypeOK

LEMMA FinishUnseen ==
  ASSUME TypeOK, NEW o \in Operators, NEW p \in Operators \ {o},
         FinishOrRestart(o), UNCHANGED <<job, owed>>
  PROVE  Unseen(p)
  BY ExitUnseen, GotoUnseen DEF FinishOrRestart, Unseen

LEMMA SyncUnseen ==
  ASSUME TypeOK, NEW o \in Operators, NEW p \in Operators \ {o},
         NEW m \in Models, UNCHANGED job,
         CopyToNode(o, m) \/ SkipModel(o, m) \/ Fail(o)
  PROVE  Unseen(p)
<1>1. CASE CopyToNode(o, m)
  <2>1. local'[p] = local[p] /\ owed'[p] = owed[p]
    BY <1>1 DEF CopyToNode, TypeOK
  <2> QED BY <1>1, <2>1, GotoUnseen DEF CopyToNode, Unseen
<1>2. CASE SkipModel(o, m)
  <2>1. local'[p] = local[p]
    BY <1>2 DEF SkipModel, TypeOK
  <2> QED BY <1>2, <2>1 DEF SkipModel, Unseen
<1>3. CASE Fail(o)
  BY <1>3, ExitUnseen DEF Fail
<1> QED BY <1>1, <1>2, <1>3

LEMMA OthersUnseen ==
  ASSUME TypeOK, NEW o \in Operators, NEW p \in Operators \ {o}, Action(o)
  PROVE  Unseen(p)
<1>1. CASE Start(o)
  <2>1. job'[p] = job[p] /\ local'[p] = local[p] /\ owed'[p] = owed[p]
        /\ result'[p] = result[p]
    BY <1>1 DEF Start, TypeOK
  <2> QED BY <1>1, <2>1, GotoUnseen DEF Start, Unseen
<1>2. CASE ProbeHub(o)
  <2>1. local'[p] = local[p]
    BY <1>2 DEF ProbeHub, TypeOK
  <2> QED BY <1>2, <2>1, GotoUnseen DEF ProbeHub, Unseen
<1>3. CASE ProbeNode(o)
  <2>1. PICK found \in Found(Target(o), job[o].wanted) :
          LET hub == local[o].ready
              missing == job[o].wanted \ (found \union hub) IN
          /\ local' = [local EXCEPT ![o].stage = missing,
                                    ![o].todo = @ \ (found \ hub),
                                    ![o].unasked = Nodes \ {Target(o)}]
          /\ Goto(o, IF missing = {} THEN "sync" ELSE "findSources")
    BY <1>3 DEF ProbeNode
  <2>2. local'[p] = local[p]
    BY <2>1 DEF TypeOK
  <2> QED BY <1>3, <2>1, <2>2, GotoUnseen DEF ProbeNode, Unseen
<1>4. CASE AskNode(o)
  <2>1. local'[p] = local[p]
    BY <1>4 DEF AskNode, TypeOK
  <2> QED BY <1>4, <2>1 DEF AskNode, Unseen
<1>5. CASE SourcesFound(o) \/ StagingDone(o)
  BY <1>5, GotoUnseen DEF SourcesFound, StagingDone, Unseen
<1>6. CASE StageModel(o)
  <2>1. CASE Exit(o, "failed")
    BY <1>6, <2>1, ExitUnseen DEF StageModel
  <2>2. CASE ~Exit(o, "failed")
    <3>1. local'[p] = local[p] /\ Goto(o, "staging") /\ UNCHANGED result
      BY <1>6, <2>2 DEF StageModel, TypeOK
    <3> QED BY <1>6, <3>1, GotoUnseen DEF StageModel, Unseen
  <2> QED BY <2>1, <2>2
<1>7. CASE CopyFile(o)
  <2>1. local'[p] = local[p]
    BY <1>7 DEF CopyFile, TypeOK
  <2> QED BY <1>7, <2>1 DEF CopyFile, Unseen
<1>8. CASE StagingEnds(o)
  <2>1. CASE Exit(o, "failed")
    BY <1>8, <2>1, ExitUnseen DEF StagingEnds
  <2>2. CASE Goto(o, "stage") /\ UNCHANGED <<local, result>>
    BY <1>8, <2>2, GotoUnseen DEF StagingEnds, Unseen
  <2> QED BY <1>8, <2>1, <2>2 DEF StagingEnds
<1>9. CASE SyncRemotely(o) \/ SyncLocally(o)
  <2>1. \E m \in local[o].todo :
          CopyToNode(o, m) \/ SkipModel(o, m) \/ Fail(o)
    BY <1>9 DEF SyncRemotely, SyncLocally
  <2> QED BY <1>9, <2>1, Typed, SyncUnseen DEF SyncRemotely, SyncLocally
<1>10. CASE SyncEnds(o)
  <2>1. CASE Exit(o, "failed")
    BY <1>10, <2>1, ExitUnseen DEF SyncEnds
  <2>2. CASE Goto(o, "sync") /\ UNCHANGED <<local, result>>
    BY <1>10, <2>2, GotoUnseen DEF SyncEnds, Unseen
  <2> QED BY <1>10, <2>1, <2>2 DEF SyncEnds
<1>11. CASE AllSynced(o)
  <2>1. CASE FinishOrRestart(o)
    BY <1>11, <2>1, FinishUnseen DEF AllSynced
  <2>2. CASE Goto(o, "listCache") /\ UNCHANGED <<local, result>>
    BY <1>11, <2>2, GotoUnseen DEF AllSynced, Unseen
  <2> QED BY <1>11, <2>1, <2>2 DEF AllSynced
<1>12. CASE ListCache(o)
  <2>1. local'[p] = local[p]
    BY <1>12 DEF ListCache, TypeOK
  <2> QED BY <1>12, <2>1, GotoUnseen DEF ListCache, Unseen
<1>13. CASE PruneModel(o)
  <2>1. local'[p] = local[p]
    BY <1>13 DEF PruneModel, TypeOK
  <2> QED BY <1>13, <2>1 DEF PruneModel, Unseen
<1>14. CASE PruneEnds(o)
  BY <1>14, FinishUnseen DEF PruneEnds
<1>15. CASE Restart(o) \/ AlreadyReady(o) \/ DownloadEnds(o) \/ Abort(o)
            \/ AbortCopy(o) \/ AbortPrune(o)
  BY <1>15, ExitUnseen
     DEF Restart, AlreadyReady, DownloadEnds, Abort, AbortCopy, AbortPrune
<1>16. CASE DownloadStarts(o) \/ DownloadFile(o)
  BY <1>16, GotoUnseen DEF DownloadStarts, DownloadFile, Unseen
<1> QED BY <1>1, <1>2, <1>3, <1>4, <1>5, <1>6, <1>7, <1>8, <1>9, <1>10,
           <1>11, <1>12, <1>13, <1>14, <1>15, <1>16 DEF Action, Step

LEMMA StaleInit == Init => StaleUnassigned
  BY DEF Init, StaleUnassigned

LEMMA StaleStep ==
  ASSUME TypeOK, StaleUnassigned, [Next]_vars PROVE StaleUnassigned'
<1>1. CASE UNCHANGED vars
  BY <1>1 DEF vars, StaleUnassigned, Target
<1>2. ASSUME NEW o \in Operators, Action(o) PROVE StaleUnassigned'
  <2> SUFFICES ASSUME NEW p \in Operators, pc'[p] = "prune"
               PROVE  local'[p].stale \intersect Assigned[job'[p].target] = {}
    BY DEF StaleUnassigned, Target
  <2>1. CASE p # o
    BY <1>2, <2>1, OthersUnseen DEF Unseen, StaleUnassigned, Target
  <2>2. CASE p = o /\ ListCache(o)
    BY <2>2 DEF ListCache, TypeOK, Target
  <2>3. CASE p = o /\ PruneModel(o)
    <3>1. PICK m : local' = [local EXCEPT ![o].stale = @ \ {m}]
      BY <2>3 DEF PruneModel
    <3>2. local'[o].stale \subseteq local[o].stale
      <4>1. local' = [local EXCEPT ![o] =
                        [local[o] EXCEPT !.stale = local[o].stale \ {m}]]
        BY <3>1
      <4> QED BY <4>1, Typed DEF TypeOK, Local
    <3> QED BY <2>3, <3>2 DEF PruneModel, StaleUnassigned, Target
  <2>4. CASE p = o /\ ~ListCache(o) /\ ~PruneModel(o)
    <3>1. pc[o] \in Stages /\ pc \in [Operators -> Stages]
      BY DEF TypeOK
    <3>2. \A s : Goto(o, s) => pc'[o] = s
      BY <3>1 DEF Goto
    <3>3. \A r : Exit(o, r) => pc'[o] = "idle"
      BY <3>2 DEF Exit
    <3>4. CASE Start(o)
      <4>1. PICK j \in Jobs :
              Goto(o, CASE j.task = "download" -> "download"
                        [] j.task = "sync" /\ j.onHub -> "sync"
                        [] j.task = "sync" /\ ~j.onHub -> "probeHub")
        BY <3>4 DEF Start
      <4>2. j.task \in {"sync", "download"} /\ j.onHub \in BOOLEAN
        BY SyncAssumption DEF Job
      <4> QED BY <2>4, <3>2, <4>1, <4>2
    <3>5. CASE SyncRemotely(o) \/ SyncLocally(o)
      BY <2>4, <3>2, <3>3, <3>5
         DEF SyncRemotely, SyncLocally, CopyToNode, SkipModel, Fail
    <3>6. CASE AllSynced(o) \/ PruneEnds(o)
      BY <2>4, <3>2, <3>3, <3>6 DEF AllSynced, PruneEnds, FinishOrRestart
    <3>7. CASE ProbeNode(o)
      <4>1. Goto(o, "sync") \/ Goto(o, "findSources")
        BY <3>7 DEF ProbeNode
      <4> QED BY <2>4, <3>2, <4>1
    <3>8. CASE AskNode(o) \/ CopyFile(o) \/ DownloadFile(o)
      BY <2>4, <3>8 DEF AskNode, CopyFile, DownloadFile
    <3>9. CASE ProbeHub(o) \/ SourcesFound(o) \/ StagingDone(o)
               \/ DownloadStarts(o)
      BY <2>4, <3>2, <3>9
         DEF ProbeHub, SourcesFound, StagingDone, DownloadStarts
    <3>10. CASE StageModel(o) \/ StagingEnds(o) \/ SyncEnds(o)
      BY <2>4, <3>2, <3>3, <3>10 DEF StageModel, StagingEnds, SyncEnds
    <3>11. CASE Restart(o) \/ AlreadyReady(o) \/ DownloadEnds(o) \/ Abort(o)
                \/ AbortCopy(o) \/ AbortPrune(o)
      BY <2>4, <3>3, <3>11
         DEF Restart, AlreadyReady, DownloadEnds, Abort, AbortCopy, AbortPrune
    <3> QED BY <1>2, <2>4, <3>4, <3>5, <3>6, <3>7, <3>8, <3>9, <3>10, <3>11
            DEF Action, Step
  <2> QED BY <2>1, <2>2, <2>3, <2>4
<1> QED BY <1>1, <1>2 DEF Next, Action

(* AssignedSurvive: no step of any operator takes a file from the hub, or  *)
(* from a node the model is assigned to.                                   *)
THEOREM AssignedKept == Spec => AssignedSurvive
<1>1. TypeOK /\ StaleUnassigned /\ [Next]_vars => StaleUnassigned'
  BY StaleStep
<1>2. TypeOK /\ StaleUnassigned /\ [Next]_vars => [Survives]_vars
  BY StepSurvives DEF Next, Action
<1> QED BY <1>1, <1>2, StaleInit, TypeInit, TypeStep, PTL
        DEF Spec, AssignedSurvive, Survives
-----------------------------------------------------------------------------
(***************************************************************************)
(* A sync that reports success has delivered.  What the run owes the node  *)
(* is there, except for the files of the model being copied that its rsync *)
(* has still to visit.                                                     *)
(***************************************************************************)

Delivered(o) ==
  \A m \in Assigned[Target(o)] : owed[o][m] \subseteq dir[Target(o)][m]

Underway(o) ==
  LET c == local[o].copy IN
  /\ c.to = Target(o)
  /\ \A m \in Assigned[Target(o)] :
       IF m = c.model
         THEN c.lost \/ owed[o][m] \subseteq dir[Target(o)][m] \union c.left
         ELSE owed[o][m] \subseteq dir[Target(o)][m]

Honest(o) ==
  /\ pc[o] # "idle" => result[o] = "none"
  /\ pc[o] \notin {"idle", "syncing"} \/ result[o] = "ok" => Delivered(o)
  /\ pc[o] = "syncing" => Underway(o)

Delivery == \A o \in Operators : Honest(o)

LEMMA DeliveryInit == Init => Delivery
  BY DEF Init, Delivery, Honest, Delivered

LEMMA AssignedModels ==
  ASSUME TypeOK, NEW o \in Operators
  PROVE  /\ Assigned[Target(o)] \subseteq Models
         /\ Target(o) \in Hosts
         /\ \A m \in Models : owed[o][m] \subseteq Files
  BY Typed, SyncAssumption DEF TypeOK

(* Directories only grow where it matters.                                 *)
LEMMA DeliveredKept ==
  ASSUME TypeOK, NEW o \in Operators, Survives, Delivered(o),
         job'[o] = job[o],
         \A m \in Models : owed'[o][m] \in {owed[o][m], Kept(o, m)}
  PROVE  Delivered(o)'
<1>1. Target(o)' = Target(o)
  BY DEF Target
<1>2. ASSUME NEW m \in Assigned[Target(o)]
      PROVE  owed'[o][m] \subseteq dir'[Target(o)][m]
  <2>1. /\ m \in Models /\ Target(o) \in Hosts /\ owed[o][m] \subseteq Files
        /\ owed[o][m] \subseteq dir[Target(o)][m]
        /\ owed'[o][m] \in {owed[o][m], Kept(o, m)}
    BY <1>2, AssignedModels DEF Delivered
  <2>2. dir[Target(o)][m] \intersect Files \subseteq dir'[Target(o)][m]
    BY <1>2, <2>1 DEF Survives
  <2> QED BY <2>1, <2>2 DEF Kept
<1> QED BY <1>1, <1>2 DEF Delivered

LEMMA UnderwayKept ==
  ASSUME TypeOK, NEW o \in Operators, Survives, Underway(o),
         job'[o] = job[o], owed'[o] = owed[o], local'[o] = local[o]
  PROVE  Underway(o)'
  BY AssignedModels DEF Underway, Survives, Target

LEMMA UnseenHonest ==
  ASSUME TypeOK, NEW p \in Operators, Survives, Honest(p), Unseen(p)
  PROVE  Honest(p)'
  BY DeliveredKept, UnderwayKept DEF Honest, Unseen

(* A run that has delivered goes on, or ends, with what it has delivered.  *)
LEMMA OnwardHonest ==
  ASSUME TypeOK, NEW o \in Operators, Survives, Honest(o),
         pc[o] \notin {"idle", "syncing"},
         job'[o] = job[o],
         \A m \in Models : owed'[o][m] \in {owed[o][m], Kept(o, m)},
         \/ pc'[o] \notin {"idle", "syncing"} /\ result'[o] = result[o]
         \/ pc'[o] = "idle"
  PROVE  Honest(o)'
  BY DeliveredKept DEF Honest

LEMMA FailedHonest ==
  ASSUME TypeOK, NEW o \in Operators, Exit(o, "failed")
  PROVE  Honest(o)'
  BY DEF TypeOK, Exit, Goto, Honest

LEMMA StartHonest ==
  ASSUME TypeOK, NEW o \in Operators, Start(o)
  PROVE  Honest(o)'
<1>1. PICK j \in Jobs :
        /\ job' = [job EXCEPT ![o] = j]
        /\ Goto(o, CASE j.task = "download" -> "download"
                     [] j.task = "sync" /\ j.onHub -> "sync"
                     [] j.task = "sync" /\ ~j.onHub -> "probeHub")
  BY DEF Start
<1>2. j \in Job /\ j.task \in {"sync", "download"} /\ j.onHub \in BOOLEAN
  BY SyncAssumption DEF Job
<1>3. pc'[o] \in {"download", "sync", "probeHub"}
  BY <1>1, <1>2 DEF Goto, TypeOK
<1>4. result'[o] = "none" /\ owed'[o] = [m \in Models |-> {}]
  BY DEF Start, TypeOK
<1>5. job'[o] = j /\ Assigned[j.target] \subseteq Models
  BY <1>1, <1>2, SyncAssumption DEF TypeOK, Job
<1> QED BY <1>3, <1>4, <1>5 DEF Honest, Delivered, Target

(* The copy of a model to the node begins: what is owed is what the rsync  *)
(* is to visit.                                                            *)
LEMMA CopyToNodeHonest ==
  ASSUME TypeOK, NEW o \in Operators, Survives, Honest(o), pc[o] = "sync",
         NEW m \in Models, CopyToNode(o, m), UNCHANGED job
  PROVE  Honest(o)'
<1> DEFINE files == dir[Hub][m] \intersect Files
           c == Opened(m, Hub, Target(o))
<1>1. local' = [local EXCEPT ![o] =
                  [local[o] EXCEPT !.todo = local[o].todo \ {m}, !.copy = c]]
  BY DEF CopyToNode
<1>2. local'[o].copy = c
  BY <1>1, Typed DEF TypeOK, Local
<1>3. owed'[o] = [owed[o] EXCEPT ![m] = files]
  BY DEF CopyToNode, TypeOK
<1>4. pc'[o] = "syncing" /\ result'[o] = result[o] /\ job'[o] = job[o]
  BY DEF CopyToNode, Goto, TypeOK
<1>5. Delivered(o) /\ result[o] = "none"
  BY DEF Honest
<1>6. Underway(o)'
  <2>1. c.to = Target(o) /\ c.model = m /\ c.left = files /\ c.lost = FALSE
    BY DEF Opened
  <2>2. Target(o)' = Target(o)
    BY <1>4 DEF Target
  <2> HIDE DEF c, files
  <2>3. ASSUME NEW n \in Assigned[Target(o)], n # m
        PROVE  owed'[o][n] \subseteq dir'[Target(o)][n]
    <3>1. n \in Models /\ owed[o][n] \subseteq Files
      BY <2>3, AssignedModels
    <3>2. owed'[o][n] = owed[o][n]
      BY <1>3, <2>3, <3>1 DEF TypeOK
    <3> QED BY <1>5, <2>3, <3>1, <3>2, AssignedModels
            DEF Delivered, Survives
  <2>4. owed'[o][m] = files
    BY <1>3 DEF TypeOK
  <2> QED BY <1>2, <2>1, <2>2, <2>3, <2>4 DEF Underway
<1> QED BY <1>4, <1>5, <1>6 DEF Honest

(* One file of a copy: there already, copied, or lost.                     *)
LEMMA CopyFileHonest ==
  ASSUME TypeOK, NEW o \in Operators, Survives, Honest(o), CopyFile(o)
  PROVE  Honest(o)'
<1> DEFINE c == local[o].copy
           source == dir[c.from][c.model]
           dest == dir[c.to][c.model]
<1>1. /\ pc[o] \in {"staging", "syncing"} /\ UNCHANGED <<pc, job, result, owed>>
  BY DEF CopyFile
<1>2. CASE pc[o] = "staging"
  BY <1>1, <1>2, OnwardHonest
<1>3. CASE pc[o] = "syncing"
  <2>1. PICK f \in c.left :
          /\ local' = [local EXCEPT ![o].copy.left = @ \ {f},
                                    ![o].copy.lost = @ \/ f \notin source]
          /\ IF f \in source \ dest
               THEN Change(c.to, c.model,
                           (dest \ {"partial"}) \union {"dir", f})
               ELSE UNCHANGED dir
    BY DEF CopyFile
  <2> DEFINE d == [c EXCEPT !.left = @ \ {f}, !.lost = @ \/ f \notin source]
  <2>2. c \in Copies /\ c.to \in Hosts /\ c.model \in Models /\ f \in Files
    BY Typed
  <2>3. local' = [local EXCEPT ![o] = [local[o] EXCEPT !.copy = d]]
    BY <2>1
  <2>4. local'[o].copy = d
    BY <2>3, Typed DEF TypeOK, Local
  <2>5. /\ d.to = c.to /\ d.model = c.model /\ d.left = c.left \ {f}
        /\ d.lost = (c.lost \/ f \notin source)
    BY <2>2 DEF Copies
  <2>6. f \in source => f \in dir'[c.to][c.model]
    <3>1. CASE f \in source \ dest
      <4>1. Change(c.to, c.model, (dest \ {"partial"}) \union {"dir", f})
        BY <2>1, <3>1
      <4>2. (dest \ {"partial"}) \union {"dir", f} \in SUBSET Pieces
        BY <2>2 DEF TypeOK, Pieces
      <4> HIDE DEF c, dest
      <4>3. dir'[c.to][c.model] = (dest \ {"partial"}) \union {"dir", f}
        BY <2>2, <4>1, <4>2, DirType
      <4> QED BY <4>3
    <3>2. CASE f \in dest
      BY <2>1, <3>2
    <3> QED BY <3>1, <3>2
  <2>7. Underway(o)
    BY <1>3 DEF Honest
  <2>8. Target(o)' = Target(o) /\ owed' = owed
    BY <1>1 DEF Target
  <2>9. Underway(o)'
    <3>1. c.to = Target(o)
      BY <2>7 DEF Underway
    <3>2. ASSUME NEW m \in Assigned[Target(o)]
          PROVE  IF m = c.model
                   THEN d.lost \/ owed[o][m] \subseteq
                                    dir'[Target(o)][m] \union d.left
                   ELSE owed[o][m] \subseteq dir'[Target(o)][m]
      <4>1. m \in Models /\ owed[o][m] \subseteq Files /\ Target(o) \in Hosts
        BY <3>2, AssignedModels
      <4>2. dir[Target(o)][m] \intersect Files \subseteq dir'[Target(o)][m]
        BY <3>2, <4>1 DEF Survives
      <4>3. CASE m # c.model
        BY <2>7, <4>1, <4>2, <4>3 DEF Underway
      <4>4. CASE m = c.model /\ ~d.lost
        <5>1. ~c.lost /\ f \in dir'[Target(o)][m]
          BY <2>5, <2>6, <3>1, <4>4
        <5>2. owed[o][m] \subseteq dir[Target(o)][m] \union c.left
          BY <2>7, <4>4, <5>1 DEF Underway
        <5> QED BY <2>5, <4>1, <4>2, <4>4, <5>1, <5>2
      <4> QED BY <4>3, <4>4
    <3> HIDE DEF c, d
    <3> QED BY <2>4, <2>5, <2>8, <3>1, <3>2 DEF Underway
  <2> QED BY <1>1, <1>3, <2>9 DEF Honest
<1> QED BY <1>1, <1>2, <1>3

LEMMA SyncEndsHonest ==
  ASSUME TypeOK, NEW o \in Operators, Survives, Honest(o), SyncEnds(o)
  PROVE  Honest(o)'
<1>1. CASE Exit(o, "failed")
  BY <1>1, FailedHonest
<1>2. CASE Copied(o) /\ Goto(o, "sync") /\ UNCHANGED <<local, result>>
  <2>1. pc[o] = "syncing" /\ UNCHANGED <<job, owed>>
    BY DEF SyncEnds
  <2>2. Underway(o) /\ result[o] = "none"
    BY <2>1 DEF Honest
  <2>3. local[o].copy.left = {} /\ ~local[o].copy.lost
    BY <1>2 DEF Copied, Ended
  <2>4. Delivered(o)
    BY <2>2, <2>3 DEF Underway, Delivered
  <2>5. pc'[o] = "sync" /\ result'[o] = "none"
    BY <1>2, <2>2 DEF Goto, TypeOK
  <2> QED BY <2>1, <2>4, <2>5, DeliveredKept DEF Honest
<1> QED BY <1>1, <1>2 DEF SyncEnds

(* The models a probe finds on the node only are left with what they have. *)
LEMMA ProbeKeeps ==
  ASSUME TypeOK, NEW o \in Operators, ProbeNode(o)
  PROVE  \A m \in Models : owed'[o][m] \in {owed[o][m], Kept(o, m)}
<1>1. PICK found \in Found(Target(o), job[o].wanted) :
        owed' = [owed EXCEPT ![o] =
                   [m \in Models |-> IF m \in found \ local[o].ready
                                      THEN Kept(o, m) ELSE owed[o][m]]]
  BY DEF ProbeNode
<1> QED BY <1>1 DEF TypeOK

LEMMA OwnHonest ==
  ASSUME TypeOK, NEW o \in Operators, Survives, Honest(o), Action(o)
  PROVE  Honest(o)'
<1>s. \A s : Goto(o, s) => pc'[o] = s
  BY DEF Goto, TypeOK
<1>x. \A r : Exit(o, r) => pc'[o] = "idle"
  BY <1>s DEF Exit
<1>1. CASE Start(o)
  BY <1>1, StartHonest
<1>2. CASE ProbeHub(o) \/ SourcesFound(o) \/ StagingDone(o)
  BY <1>2, <1>s, OnwardHonest DEF ProbeHub, SourcesFound, StagingDone
<1>3. CASE ProbeNode(o)
  <2>1. Goto(o, "sync") \/ Goto(o, "findSources")
    BY <1>3 DEF ProbeNode
  <2>2. \A m \in Models : owed'[o][m] \in {owed[o][m], Kept(o, m)}
    BY <1>3, ProbeKeeps
  <2> QED BY <1>3, <1>s, <2>1, <2>2, OnwardHonest DEF ProbeNode
<1>4. CASE AskNode(o)
  BY <1>4, OnwardHonest DEF AskNode
<1>5. CASE StageModel(o)
  <2>1. /\ Goto(o, "staging") /\ UNCHANGED result
        \/ Exit(o, "failed")
    BY <1>5 DEF StageModel
  <2> QED BY <1>5, <1>s, <2>1, OnwardHonest, FailedHonest DEF StageModel
<1>6. CASE CopyFile(o)
  BY <1>6, CopyFileHonest
<1>7. CASE StagingEnds(o)
  <2>1. \/ Goto(o, "stage") /\ UNCHANGED result
        \/ Exit(o, "failed")
    BY <1>7 DEF StagingEnds
  <2> QED BY <1>7, <1>s, <2>1, OnwardHonest, FailedHonest DEF StagingEnds
<1>8. CASE SyncRemotely(o) \/ SyncLocally(o)
  <2>1. PICK m \in local[o].todo :
          CopyToNode(o, m) \/ SkipModel(o, m) \/ Fail(o)
    BY <1>8 DEF SyncRemotely, SyncLocally
  <2>2. pc[o] = "sync" /\ UNCHANGED job /\ m \in Models
    BY <1>8, Typed DEF SyncRemotely, SyncLocally
  <2>3. CASE CopyToNode(o, m)
    BY <2>2, <2>3, CopyToNodeHonest
  <2>4. CASE SkipModel(o, m)
    <3>1. \A n \in Models : owed'[o][n] \in {owed[o][n], Kept(o, n)}
      BY <2>2, <2>4 DEF SkipModel, TypeOK
    <3> QED BY <2>2, <2>4, <3>1, OnwardHonest DEF SkipModel
  <2>5. CASE Fail(o)
    BY <2>5, FailedHonest DEF Fail
  <2> QED BY <2>1, <2>3, <2>4, <2>5
<1>9. CASE SyncEnds(o)
  BY <1>9, SyncEndsHonest
<1>f. ASSUME FinishOrRestart(o)
      PROVE  \/ pc'[o] = "restart" /\ UNCHANGED result
             \/ pc'[o] = "idle"
  BY <1>f, <1>s, <1>x DEF FinishOrRestart
<1>10. CASE AllSynced(o)
  <2>1. \/ FinishOrRestart(o)
        \/ Goto(o, "listCache") /\ UNCHANGED result
    BY <1>10 DEF AllSynced
  <2> QED BY <1>10, <1>s, <1>f, <2>1, OnwardHonest DEF AllSynced
<1>11. CASE PruneEnds(o)
  BY <1>11, <1>f, OnwardHonest DEF PruneEnds
<1>12. CASE ListCache(o) \/ PruneModel(o)
  BY <1>12, <1>s, OnwardHonest DEF ListCache, PruneModel
<1>13. CASE Restart(o) \/ AlreadyReady(o) \/ DownloadEnds(o)
  BY <1>13, <1>x, OnwardHonest DEF Restart, AlreadyReady, DownloadEnds
<1>14. CASE DownloadStarts(o) \/ DownloadFile(o)
  BY <1>14, <1>s, OnwardHonest DEF DownloadStarts, DownloadFile
<1>15. CASE Abort(o) \/ AbortCopy(o) \/ AbortPrune(o)
  BY <1>15, FailedHonest DEF Abort, AbortCopy, AbortPrune
<1> QED BY <1>1, <1>2, <1>3, <1>4, <1>5, <1>6, <1>7, <1>8, <1>9, <1>10,
           <1>11, <1>12, <1>13, <1>14, <1>15 DEF Action, Step

LEMMA DeliveryStep ==
  ASSUME TypeOK, StaleUnassigned, Delivery, [Next]_vars PROVE Delivery'
<1>1. CASE UNCHANGED vars
  BY <1>1 DEF vars, Delivery, Honest, Delivered, Underway, Target
<1>2. ASSUME NEW o \in Operators, Action(o) PROVE Delivery'
  <2>1. Survives
    BY <1>2, StepSurvives
  <2>2. ASSUME NEW p \in Operators PROVE Honest(p)'
    <3>1. Honest(p)
      BY <2>2 DEF Delivery
    <3>2. CASE p = o
      BY <1>2, <2>1, <3>1, <3>2, OwnHonest
    <3>3. CASE p # o
      BY <1>2, <2>1, <3>1, <3>3, OthersUnseen, UnseenHonest
    <3> QED BY <3>2, <3>3
  <2> QED BY <2>2 DEF Delivery
<1> QED BY <1>1, <1>2 DEF Next, Action
-----------------------------------------------------------------------------
(***************************************************************************)
(* The runtime is restarted on models, and success means that they are     *)
(* there.  Each model the run is for is still to be brought to the node,   *)
(* or was settled with a config and weights; once the models are done the  *)
(* first is none, and what was settled has been delivered.                 *)
(***************************************************************************)

Due(o) == job[o].wanted \intersect Assigned[Target(o)]

Succeeded(o) == result[o] = "ok" /\ job[o].task = "sync"

Downloads(o) == pc[o] \in {"download", "downloading"}

Supplied(o) ==
  /\ pc[o] # "idle" \/ Succeeded(o) =>
       \A m \in Due(o) : m \in local[o].todo \/ Usable(owed[o][m])
  /\ pc[o] \in {"listCache", "prune", "restart"} \/ Succeeded(o)
       => local[o].todo = {}
  /\ Downloads(o) => job[o].task # "sync"

(* What survives stays usable.                                             *)
LEMMA UsableKept ==
  ASSUME NEW p, NEW q, Usable(p), p \intersect Files \subseteq q
  PROVE  Usable(q)
  BY DEF Usable, Files, Weights

LEMMA ReadyUsable == ASSUME NEW p, LooksReady(p) PROVE Usable(p)
  BY DEF LooksReady, Usable

LEMMA DueModels ==
  ASSUME TypeOK, NEW o \in Operators, NEW m \in Due(o)
  PROVE  m \in Models /\ m \in Assigned[Target(o)] /\ Target(o) \in Hosts
  BY AssignedModels DEF Due

(* A step that leaves the list of models, and the job, as they are.        *)
LEMMA StillSupplied ==
  ASSUME NEW o \in Operators, Supplied(o),
         job'[o] = job[o], owed'[o] = owed[o], local'[o].todo = local[o].todo,
         result'[o] = result[o],
         pc[o] # "idle" \/ pc'[o] = "idle",
         pc'[o] \in {"listCache", "prune", "restart"} => local[o].todo = {},
         Downloads(o)' => Downloads(o)
  PROVE  Supplied(o)'
<1>1. Target(o)' = Target(o) /\ Due(o)' = Due(o) /\ (Succeeded(o)' <=> Succeeded(o))
  BY DEF Target, Due, Succeeded
<1> QED BY <1>1 DEF Supplied

(* What a model that leaves the list must be.                              *)
LEMMA ListShrinks ==
  ASSUME NEW o \in Operators, Supplied(o), pc[o] # "idle",
         job'[o] = job[o], result'[o] = "none",
         pc'[o] \notin {"listCache", "prune", "restart"}, ~Downloads(o)',
         \A m \in Due(o) : \/ m \in local'[o].todo
                           \/ m \notin local[o].todo /\ owed'[o][m] = owed[o][m]
                           \/ Usable(owed'[o][m])
  PROVE  Supplied(o)'
<1>1. Target(o)' = Target(o) /\ Due(o)' = Due(o) /\ ~Succeeded(o)'
  BY DEF Target, Due, Succeeded
<1> QED BY <1>1 DEF Supplied

LEMMA FailedSupplied ==
  ASSUME TypeOK, NEW o \in Operators, Exit(o, "failed")
  PROVE  Supplied(o)'
  BY DEF TypeOK, Exit, Goto, Supplied, Succeeded, Downloads

(* A run that ends well: a download, or a sync with nothing left to do.    *)
LEMMA EndsSupplied ==
  ASSUME TypeOK, NEW o \in Operators, Supplied(o), Exit(o, "ok"),
         job'[o] = job[o], owed'[o] = owed[o], pc[o] # "idle",
         local[o].todo = {} \/ Downloads(o)
  PROVE  Supplied(o)'
<1>1. pc'[o] = "idle" /\ local'[o] = Blank /\ Blank.todo = {}
  BY DEF Exit, Goto, TypeOK, Blank
<1>2. Due(o)' = Due(o) /\ (Succeeded(o)' => local[o].todo = {})
  BY DEF Due, Target, Supplied, Succeeded
<1> QED BY <1>1, <1>2 DEF Supplied, Downloads

LEMMA StartSupplied ==
  ASSUME TypeOK, NEW o \in Operators, Start(o)
  PROVE  Supplied(o)'
<1>1. PICK j \in Jobs :
        /\ job' = [job EXCEPT ![o] = j]
        /\ local' = [local EXCEPT ![o].todo = j.wanted]
        /\ Goto(o, CASE j.task = "download" -> "download"
                     [] j.task = "sync" /\ j.onHub -> "sync"
                     [] j.task = "sync" /\ ~j.onHub -> "probeHub")
  BY DEF Start
<1>2. j.task \in {"sync", "download"} /\ j.onHub \in BOOLEAN
  BY SyncAssumption DEF Job
<1>3. /\ pc'[o] \in {"download", "sync", "probeHub"}
      /\ pc'[o] = "download" => j.task = "download"
  BY <1>1, <1>2 DEF Goto, TypeOK
<1>4. local'[o].todo = j.wanted /\ job'[o] = j /\ result'[o] = "none"
  BY <1>1 DEF TypeOK, Local, Start
<1> QED BY <1>3, <1>4 DEF Supplied, Due, Succeeded, Downloads

(* Found on the node only: such a model is not copied.                     *)
LEMMA ProbeSupplied ==
  ASSUME TypeOK, NEW o \in Operators, Honest(o), Supplied(o), ProbeNode(o)
  PROVE  Supplied(o)'
<1>1. PICK found \in Found(Target(o), job[o].wanted) :
        LET hub == local[o].ready
            alone == found \ hub
            missing == job[o].wanted \ (found \union hub) IN
        /\ local' = [local EXCEPT ![o].stage = missing,
                                  ![o].todo = @ \ alone,
                                  ![o].unasked = Nodes \ {Target(o)}]
        /\ owed' = [owed EXCEPT ![o] =
                      [m \in Models |-> IF m \in alone THEN Kept(o, m) ELSE @[m]]]
        /\ Goto(o, IF missing = {} THEN "sync" ELSE "findSources")
  BY DEF ProbeNode
<1> DEFINE missing == job[o].wanted \ (found \union local[o].ready)
           alone   == found \ local[o].ready
           rest    == local[o].todo \ alone
           others  == Nodes \ {Target(o)}
<1>2. local' = [local EXCEPT ![o] =
        [local[o] EXCEPT !.stage = missing, !.todo = rest, !.unasked = others]]
  BY <1>1
<1> HIDE DEF missing, others
<1>3. local'[o].todo = rest
  BY <1>2, Typed DEF TypeOK, Local
<1>4. \A m \in alone : LooksReady(dir[Target(o)][m])
  BY DEF Found
<1>5. /\ pc'[o] \in {"sync", "findSources"} /\ pc[o] = "probeNode"
      /\ job' = job /\ result'[o] = "none"
  BY <1>1 DEF Goto, TypeOK, ProbeNode, Honest
<1>6. \A m \in Models : owed'[o][m] = IF m \in alone THEN Kept(o, m) ELSE owed[o][m]
  BY <1>1 DEF TypeOK
<1>7. \A m \in Due(o) : \/ m \in local'[o].todo
                        \/ m \notin local[o].todo /\ owed'[o][m] = owed[o][m]
                        \/ Usable(owed'[o][m])
  <2> SUFFICES ASSUME NEW m \in Due(o)
               PROVE  \/ m \in local'[o].todo
                      \/ m \notin local[o].todo /\ owed'[o][m] = owed[o][m]
                      \/ Usable(owed'[o][m])
    OBVIOUS
  <2>1. CASE m \in alone
    BY <1>4, <1>6, <2>1, DueModels, ReadyUsable, UsableKept DEF Kept
  <2>2. CASE m \notin alone
    BY <1>3, <1>6, <2>2, DueModels
  <2> QED BY <2>1, <2>2
<1> QED BY <1>5, <1>7, ListShrinks DEF Downloads

(* A model is copied from a hub that is ready, or left alone on a node     *)
(* that is.                                                                *)
LEMMA SyncSupplied ==
  ASSUME TypeOK, NEW o \in Operators, Honest(o), Supplied(o), NEW m \in Models,
         pc[o] = "sync", UNCHANGED job,
         \/ LooksReady(dir[Hub][m]) /\ CopyToNode(o, m)
         \/ LooksReady(dir[Target(o)][m]) /\ SkipModel(o, m)
         \/ Fail(o)
  PROVE  Supplied(o)'
<1> DEFINE rest == local[o].todo \ {m}
<1>1. CASE LooksReady(dir[Hub][m]) /\ CopyToNode(o, m)
  <2> DEFINE c == Opened(m, Hub, Target(o))
             files == dir[Hub][m] \intersect Files
  <2>1. local' = [local EXCEPT ![o] = [local[o] EXCEPT !.todo = rest, !.copy = c]]
    BY <1>1 DEF CopyToNode
  <2>2. owed'[o] = [owed[o] EXCEPT ![m] = files] /\ pc'[o] = "syncing"
    BY <1>1 DEF CopyToNode, Goto, TypeOK
  <2> HIDE DEF c
  <2>3. local'[o].todo = rest
    BY <2>1, Typed DEF TypeOK, Local
  <2>4. Usable(files)
    BY <1>1, ReadyUsable, UsableKept
  <2>5. \A n \in Models : owed'[o][n] = IF n = m THEN files ELSE owed[o][n]
    BY <2>2 DEF TypeOK
  <2> HIDE DEF files
  <2>6. result'[o] = "none"
    BY <1>1 DEF CopyToNode, Honest
  <2> QED BY <2>2, <2>3, <2>4, <2>5, <2>6, ListShrinks, DueModels DEF Downloads
<1>2. CASE LooksReady(dir[Target(o)][m]) /\ SkipModel(o, m)
  <2>1. local' = [local EXCEPT ![o] = [local[o] EXCEPT !.todo = rest]]
    BY <1>2 DEF SkipModel
  <2>2. local'[o].todo = rest
    BY <2>1, Typed DEF TypeOK, Local
  <2>3. pc' = pc /\ result'[o] = "none" /\ Usable(Kept(o, m))
    BY <1>2, ReadyUsable, UsableKept DEF SkipModel, Honest, Kept
  <2>4. \A n \in Models : owed'[o][n] = IF n = m THEN Kept(o, m) ELSE owed[o][n]
    BY <1>2 DEF SkipModel, TypeOK
  <2> QED BY <2>2, <2>3, <2>4, ListShrinks, DueModels DEF Downloads
<1>3. CASE Fail(o)
  BY <1>3, FailedSupplied DEF Fail
<1> QED BY <1>1, <1>2, <1>3

(* The steps of a run that leave its list as it is.                        *)
LEMMA ListStays ==
  ASSUME TypeOK, NEW o \in Operators,
         \/ ProbeHub(o) \/ AskNode(o) \/ CopyFile(o) \/ ListCache(o) \/ PruneModel(o)
  PROVE  local'[o].todo = local[o].todo
<1>0. local[o] \in Local
  BY Typed
<1>1. ASSUME NEW l, local' = [local EXCEPT ![o] = l], l.todo = local[o].todo
      PROVE  local'[o].todo = local[o].todo
  BY <1>1 DEF TypeOK
<1>2. CASE ProbeHub(o)
  <2>1. PICK found : local' = [local EXCEPT ![o] = [local[o] EXCEPT !.ready = found]]
    BY <1>2 DEF ProbeHub
  <2>2. [local[o] EXCEPT !.ready = found].todo = local[o].todo
    BY <1>0 DEF Local
  <2> QED BY <1>1, <2>1, <2>2
<1>3. CASE AskNode(o)
  <2>a. PICK n \in local[o].unasked : \E found \in Found(n, Pending(o)) :
          local' = [local EXCEPT
            ![o].unasked = @ \ {n},
            ![o].source = [m \in Models |-> IF m \in found THEN n ELSE @[m]]]
    BY <1>3 DEF AskNode
  <2>1. PICK found \in Found(n, Pending(o)) :
          local' = [local EXCEPT
            ![o].unasked = @ \ {n},
            ![o].source = [m \in Models |-> IF m \in found THEN n ELSE @[m]]]
    BY <2>a
  <2> DEFINE rest == local[o].unasked \ {n}
             src  == [m \in Models |-> IF m \in found THEN n ELSE local[o].source[m]]
             l == [local[o] EXCEPT !.unasked = rest, !.source = src]
  <2>2. local' = [local EXCEPT ![o] = l]
    BY <2>1
  <2>3. l.todo = local[o].todo
    BY <1>0 DEF Local
  <2> HIDE DEF l
  <2> QED BY <1>1, <2>2, <2>3
<1>4. CASE CopyFile(o)
  <2>1. PICK f :
          local' = [local EXCEPT
            ![o].copy.left = @ \ {f},
            ![o].copy.lost = @ \/ f \notin dir[local[o].copy.from][local[o].copy.model]]
    BY <1>4 DEF CopyFile
  <2> DEFINE c == local[o].copy
             d == [c EXCEPT !.left = @ \ {f}, !.lost = @ \/ f \notin dir[c.from][c.model]]
             l == [local[o] EXCEPT !.copy = d]
  <2>2. local' = [local EXCEPT ![o] = l]
    BY <2>1
  <2> HIDE DEF d
  <2>3. l.todo = local[o].todo
    BY <1>0 DEF Local
  <2> HIDE DEF l
  <2> QED BY <1>1, <2>2, <2>3
<1>5. CASE ListCache(o) \/ PruneModel(o)
  <2>1. PICK s : local' = [local EXCEPT ![o] = [local[o] EXCEPT !.stale = s]]
    BY <1>5 DEF ListCache, PruneModel
  <2>2. [local[o] EXCEPT !.stale = s].todo = local[o].todo
    BY <1>0 DEF Local
  <2> QED BY <1>1, <2>1, <2>2
<1> QED BY <1>2, <1>3, <1>4, <1>5

LEMMA OwnSupplied ==
  ASSUME TypeOK, NEW o \in Operators, Honest(o), Supplied(o), Action(o)
  PROVE  Supplied(o)'
<1>s. \A s : Goto(o, s) => pc'[o] = s
  BY DEF Goto, TypeOK
<1>1. CASE Start(o)
  BY <1>1, StartSupplied
<1>2. CASE \/ ProbeHub(o) \/ AskNode(o) \/ CopyFile(o) \/ SourcesFound(o)
           \/ StagingDone(o) \/ ListCache(o) \/ PruneModel(o) \/ DownloadStarts(o)
           \/ DownloadFile(o)
  <2>1. /\ local'[o].todo = local[o].todo
        /\ job' = job /\ owed' = owed /\ result' = result
    BY <1>2, ListStays
       DEF ProbeHub, AskNode, CopyFile, SourcesFound, StagingDone, ListCache,
           PruneModel, DownloadStarts, DownloadFile
  <2>2. pc[o] # "idle"
    BY <1>2 DEF ProbeHub, AskNode, CopyFile, SourcesFound, StagingDone, ListCache,
                PruneModel, DownloadStarts, DownloadFile
  <2>3. pc'[o] \in {"listCache", "prune", "restart"} => pc[o] \in {"listCache", "prune"}
    BY <1>2, <1>s DEF ProbeHub, AskNode, CopyFile, SourcesFound, StagingDone,
                      ListCache, PruneModel, DownloadStarts, DownloadFile
  <2>4. Downloads(o)' => Downloads(o)
    BY <1>2, <1>s DEF ProbeHub, AskNode, CopyFile, SourcesFound, StagingDone,
                      ListCache, PruneModel, DownloadStarts, DownloadFile, Downloads
  <2> QED BY <2>1, <2>2, <2>3, <2>4, StillSupplied DEF Supplied
<1>3. CASE ProbeNode(o)
  BY <1>3, ProbeSupplied
<1>4. CASE StageModel(o)
  <2>1. PICK m \in local[o].stage :
          \/ /\ local' = [local EXCEPT
                  ![o].stage = @ \ {m},
                  ![o].copy = Opened(m, local[o].source[m], Hub)]
             /\ Goto(o, "staging") /\ UNCHANGED result
          \/ Exit(o, "failed")
    BY <1>4 DEF StageModel
  <2>2. CASE Exit(o, "failed")
    BY <2>2, FailedSupplied
  <2>3. CASE ~Exit(o, "failed")
    <3> DEFINE c == Opened(m, local[o].source[m], Hub)
               s == local[o].stage \ {m}
    <3>1. local' = [local EXCEPT ![o] = [local[o] EXCEPT !.stage = s, !.copy = c]]
      BY <2>1, <2>3
    <3> HIDE DEF c, s
    <3>2. local'[o].todo = local[o].todo
      BY <3>1, Typed DEF TypeOK, Local
    <3>3. /\ pc'[o] = "staging" /\ pc[o] = "stage"
          /\ job' = job /\ owed' = owed /\ result' = result
      BY <1>4, <1>s, <2>1, <2>3 DEF StageModel
    <3> QED BY <3>2, <3>3, StillSupplied DEF Downloads
  <2> QED BY <2>2, <2>3
<1>5. CASE StagingEnds(o) \/ SyncEnds(o)
  <2>1. \/ /\ Goto(o, "stage") \/ Goto(o, "sync")
           /\ UNCHANGED <<local, job, owed, result>> /\ pc[o] # "idle"
        \/ Exit(o, "failed")
    BY <1>5 DEF StagingEnds, SyncEnds
  <2>2. pc'[o] \in {"stage", "sync"} \/ Exit(o, "failed")
    BY <1>s, <2>1
  <2> QED BY <2>1, <2>2, StillSupplied, FailedSupplied DEF Downloads
<1>6. CASE SyncRemotely(o)
  <2>1. PICK m \in local[o].todo :
          \/ LooksReady(dir[Hub][m]) /\ CopyToNode(o, m)
          \/ LooksReady(dir[Target(o)][m]) /\ SkipModel(o, m)
          \/ Fail(o)
    BY <1>6 DEF SyncRemotely
  <2>2. m \in Models /\ pc[o] = "sync" /\ job' = job
    BY <1>6, Typed DEF SyncRemotely
  <2> QED BY <2>1, <2>2, SyncSupplied
<1>7. CASE SyncLocally(o)
  <2>1. PICK m \in local[o].todo :
          \/ LooksReady(dir[Hub][m]) /\ CopyToNode(o, m)
          \/ LooksReady(dir[Target(o)][m]) /\ SkipModel(o, m)
          \/ Fail(o)
    BY <1>7 DEF SyncLocally, Found
  <2>2. m \in Models /\ pc[o] = "sync" /\ job' = job
    BY <1>7, Typed DEF SyncLocally
  <2> QED BY <2>1, <2>2, SyncSupplied
<1>8. CASE AllSynced(o) \/ PruneEnds(o)
  <2>1. \/ /\ Goto(o, "listCache") \/ Goto(o, "restart")
           /\ UNCHANGED <<local, result>>
        \/ Exit(o, "ok")
    BY <1>8 DEF AllSynced, PruneEnds, FinishOrRestart
  <2>2. local[o].todo = {} /\ pc[o] # "idle" /\ UNCHANGED <<job, owed>>
    BY <1>8 DEF AllSynced, PruneEnds, Supplied
  <2>3. pc'[o] \in {"listCache", "restart"} \/ Exit(o, "ok")
    BY <1>s, <2>1
  <2> QED BY <2>1, <2>2, <2>3, StillSupplied, EndsSupplied DEF Downloads
<1>9. CASE Restart(o) \/ AlreadyReady(o) \/ DownloadEnds(o)
  <2>1. Exit(o, "ok") /\ pc[o] # "idle" /\ UNCHANGED <<job, owed>>
    BY <1>9 DEF Restart, AlreadyReady, DownloadEnds
  <2>2. local[o].todo = {} \/ Downloads(o)
    BY <1>9 DEF Restart, AlreadyReady, DownloadEnds, Supplied, Downloads
  <2> QED BY <2>1, <2>2, EndsSupplied
<1>10. CASE Abort(o) \/ AbortCopy(o) \/ AbortPrune(o)
  BY <1>10, FailedSupplied DEF Abort, AbortCopy, AbortPrune
<1> QED BY <1>1, <1>2, <1>3, <1>4, <1>5, <1>6, <1>7, <1>8, <1>9, <1>10
        DEF Action, Step

LEMMA SuppliedStep ==
  ASSUME TypeOK, Delivery, \A o \in Operators : Supplied(o), [Next]_vars
  PROVE  (\A o \in Operators : Supplied(o))'
<1>1. CASE UNCHANGED vars
  BY <1>1 DEF vars, Supplied, Due, Target, Succeeded, Downloads
<1>2. ASSUME NEW o \in Operators, Action(o), NEW p \in Operators
      PROVE  Supplied(p)'
  <2>1. Honest(o) /\ Supplied(o) /\ Supplied(p)
    BY DEF Delivery
  <2>2. CASE p = o
    BY <1>2, <2>1, <2>2, OwnSupplied
  <2>3. CASE p # o
    <3>1. Unseen(p)
      BY <1>2, <2>3, OthersUnseen
    <3> QED BY <2>1, <3>1, StillSupplied DEF Unseen, Supplied, Downloads
  <2> QED BY <2>2, <2>3
<1> QED BY <1>1, <1>2 DEF Next, Action

Provided == \A o \in Operators : Supplied(o)

LEMMA ProvidedHolds == Spec => [](TypeOK /\ Delivery /\ Provided)
<1>1. Init => Provided
  BY DEF Init, Provided, Supplied, Succeeded, Downloads
<1>2. TypeOK /\ StaleUnassigned /\ Delivery /\ Provided /\ [Next]_vars => Provided'
  BY SuppliedStep DEF Provided
<1>3. TypeOK /\ StaleUnassigned /\ [Next]_vars => StaleUnassigned'
  BY StaleStep
<1>4. TypeOK /\ StaleUnassigned /\ Delivery /\ [Next]_vars => Delivery'
  BY DeliveryStep
<1> QED BY <1>1, <1>2, <1>3, <1>4, TypeInit, TypeStep, StaleInit, DeliveryInit, PTL
        DEF Spec

(* What the run settled on is on the node.                                 *)
LEMMA DueUsable ==
  ASSUME TypeOK, NEW o \in Operators, Delivered(o), NEW m \in Due(o),
         Usable(owed[o][m])
  PROVE  owed[o][m] \subseteq dir[Target(o)][m] /\ Usable(dir[Target(o)][m])
<1>1. owed[o][m] \subseteq dir[Target(o)][m]
  BY DueModels DEF Delivered
<1> QED BY <1>1, UsableKept

(* SyncDelivers: a sync that reported success has settled every model the  *)
(* run was for, copied ones on what the hub had and skipped ones on what   *)
(* the node had, usable either way; and no later run of anybody's takes a  *)
(* file of it away.                                                        *)
THEOREM SuccessMeansDelivered == Spec => []SyncDelivers
<1>1. ASSUME TypeOK, Delivery, Provided PROVE SyncDelivers
  <2> SUFFICES ASSUME NEW o \in Operators, Succeeded(o), NEW m \in Due(o)
               PROVE  /\ owed[o][m] \subseteq dir[Target(o)][m]
                      /\ Usable(dir[Target(o)][m])
    BY DEF SyncDelivers, Succeeded, Due
  <2>1. Delivered(o)
    BY <1>1 DEF Delivery, Honest, Succeeded
  <2>2. Usable(owed[o][m])
    BY <1>1 DEF Provided, Supplied
  <2> QED BY <1>1, <2>1, <2>2, DueUsable
<1>2. TypeOK /\ Delivery /\ Provided => SyncDelivers
  BY <1>1
<1> QED BY <1>2, ProvidedHolds, PTL

(* At the restart every model the run was for, and the node is assigned,   *)
(* is on the node with a config and weights, whatever other operators copy *)
(* or prune meanwhile.                                                     *)
THEOREM RestartHasModels == Spec => []RestartFindsModels
<1>1. ASSUME TypeOK, Delivery, Provided PROVE RestartFindsModels
  <2> SUFFICES ASSUME NEW o \in Operators, pc[o] = "restart", NEW m \in Due(o)
               PROVE  Usable(dir[Target(o)][m])
    BY DEF RestartFindsModels, Due, Usable
  <2>1. Delivered(o)
    BY <1>1 DEF Delivery, Honest
  <2>2. Usable(owed[o][m])
    BY <1>1 DEF Provided, Supplied
  <2> QED BY <1>1, <2>1, <2>2, DueUsable
<1>2. TypeOK /\ Delivery /\ Provided => RestartFindsModels
  BY <1>1
<1> QED BY <1>2, ProvidedHolds, PTL
=============================================================================
