--------------------------- MODULE MCArtifactSync ---------------------------
(* Values of ArtifactSync's constants for TLC: n1 serves m1 and m2, n2     *)
(* serves m2 and is where m1 was tried out.                                *)
EXTENDS ArtifactSync

CONSTANTS n1, n2, m1, m2

NodeModels == [n \in Nodes |-> IF n = n1 THEN {m1, m2} ELSE {m2}]

Copy == Files \union {"dir"}

(* m1 is whole on n2, m2 on the hub and on n2.                             *)
Layout(onN1, onHub) ==
  [h \in Hosts |-> [m \in Models |->
     CASE h = n2             -> Copy
       [] h = n1 /\ m = m1   -> onN1
       [] h = Hub /\ m = m1  -> onHub
       [] h = Hub /\ m = m2  -> Copy
       [] OTHER              -> {}]]

(* The second: an earlier staging of m1 was cut short after its first      *)
(* shard, and so was a download of it on n1.                               *)
SomeLayouts == {Layout({}, {}),
                Layout({"dir", "incomplete"}, {"dir", "config", "shard1"})}

SyncJob == [task |-> "sync", target |-> n1, wanted |-> {m1, m2},
            prune |-> FALSE, restart |-> TRUE, onHub |-> FALSE]

(* A full sync of n1, from afar and on the hub, one model with pruning, a  *)
(* pruning sync of n2, and downloads.                                      *)
AllJobs ==
  {SyncJob,
   [SyncJob EXCEPT !.onHub = TRUE, !.wanted = {m1}],
   [SyncJob EXCEPT !.wanted = {m1}, !.prune = TRUE],
   [SyncJob EXCEPT !.target = n2, !.wanted = {m2}, !.prune = TRUE,
                   !.restart = FALSE],
   [SyncJob EXCEPT !.task = "download", !.wanted = {m1}],
   [SyncJob EXCEPT !.task = "download", !.wanted = {m1}, !.onHub = TRUE]}

(* Enough for an interrupted staging and a download after it.              *)
StageThenDownload ==
  {[SyncJob EXCEPT !.wanted = {m1}],
   [SyncJob EXCEPT !.task = "download", !.wanted = {m1}]}

CleanLayout == {Layout({}, {})}
=============================================================================
