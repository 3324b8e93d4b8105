# thunder-forge in TLA+

thunder-forge runs a small cluster of Apple machines that serve language models: a
gateway with an HTTP front (the *TF edge*) and the Olla router behind it, inference
nodes with oMLX, and a cache hub that holds the models. Everything is driven from
operators' shells over ssh and rsync, or by launchd. This directory holds TLA+
specifications of its parts that are hard to test, their TLC configurations, and
TLAPS proofs. Paths below are relative to `src/thunder_forge/` of the repository
unless they start with `docs/` or `tests/`.

`PROJECT.json` lists components, runs, mutants (small bugs each property catches),
findings, the hazards that the properties are for, and for every definition the
lines of code it stands for.

## 1. Inventory

| Component | State it keeps | Operations | What makes it correct | Here |
|---|---|---|---|---|
| TF edge HTTP server (`cluster/edge.py`, `log_sink` in `cli.py`) | registry of active requests (dictionary under a lock), access log, inspector log, one thread per connection | dispatch, `_prepare_edge_upstream_request`, `proxy_edge_request`, `_handle_streaming_edge_request` | each request logged once, refused unless admissible, unlisted at the end; one status line per client; captured body bounded and marked | `EdgeProxy` |
| Log retention and node metrics (`cluster/log_retention.py`, collector in `cli.py`) | JSONL files without locks | `trim_jsonl_by_age`, `trim_local_logs`, collector loop, `usage trim-logs`, `usage collect-node-metrics` | expired records go, fresh ones stay, order and uniqueness of lines | `LogRetention` |
| Artifacts (`cluster/artifacts.py`, `cluster/remote_cache.py`, `cluster sync` and `artifact download` in `cli.py`) | model directories on hub and nodes; per-command presence snapshots | probe, stage, copy, verify, prune, restart, download | a sync that says *ok* delivered; nothing assigned is removed; runtimes restart with models | `ArtifactSync` |
| Status report (`build_edge_status_payload`, `cluster status` in `cli.py`) | none; reads the registry, the nodes, GitHub and the access log | probes one node after the other, merge, second judgement by the command | a request that ran all along is counted and shown; down and slow nodes do not hide the others; edge and command judge alike; the last user of a model is the last one | `ClusterStatus` |
| Edge client keys (`ensure_edge_api_keys`, `edge keys`, `edge client-config`) | `.env` | read, add, rewrite, hand out, load | no line lost but to an overlap, a kill or a full disk; a key that was handed out is accepted as its client | `ClientIds`, `EnvKeys` |
| Service lifecycle (`cluster/omlx.py`, `olla.py`, edge service) | launchd jobs, plists, runtime processes | setup, update, restart with one retry, health waits | the reported result agrees with what runs; a retry recovers; the service comes up | `ServiceUpdate` (systemd left out) |
| Cluster prepare and restart (`cli.py`, `cluster/bootstrap.py`) | Olla binary and its sidecar, generated config, what every node has installed and runs | ordered phases, one node after the other; parallel restart | *complete* is true of the whole cluster; a failed run is repaired by the next and takes nothing down | `ClusterPrepare` |
| Usage summaries (`cluster/usage.py`, `summarize_edge_usage`) | none | two folds over the access log, one over the metrics | reports agree with the log and with each other, in any order of lines | `UsageSummary` |
| GPU memory start script (`omlx.py`) | `iogpu.wired_limit_mb` | shell arithmetic | never lowers, never a non-positive ceiling | not modelled (section 10) |
| Configuration, lint, Olla config (`config.py`, `olla.py`) | none | pure functions | generated endpoints agree with assignments | not modelled (section 10) |
| Transport plan, Thunderbolt fabric | none | choose fabric or management host | chosen host reaches the node | not modelled (section 10) |
| Smoke tests, benchmarks, ssh/scp, binary downloads, export, command line | none of their own | sequential probes, transfers, printing | | not modelled (section 10) |

How they interact: the edge calls Olla over HTTP and appends to the access log from
its request threads, while its collector thread trims that same file and the metrics
log; operators' commands may trim them too. `/status` reads the registry that request
threads write. Operators' sync and download commands meet only in the model
directories of the hosts. Restarts (cluster, sync, launchd) go through the service
lifecycle, and a restart of the edge kills its collector wherever it is. `cluster prepare`
and `cluster restart` are sequences of such restarts; what one restart promises
(`ServiceUpdate`) is one step of `ClusterPrepare`. The status report and the usage reports
read what the edge and the collector wrote; the edge loads the keys that the key
commands put into `.env`.

What is hard to test: exceptions at each of a handler's many file writes, socket
writes and upstream reads; clients that share an `X-Request-ID`; the unlocked
read-filter-rewrite of logs against appends, kills and full disks; sync runs of
several operators that act on presence lists hours old; transfers cut short at any
file; a prepare that ends between any two of its steps; a status answer whose parts are
of different moments; key commands that overlap. The hazards in `PROJECT.json` name each at its line.

## 2. The edge server: `EdgeProxy`, `AuditedGateway`

**State.** `pc[r]` is where the handler thread of connection `r` is. The server speaks
HTTP/1.0, so a connection carries one request. `req[r]` is its profile: endpoint class,
Content-Length verdict, client whose key it carries, model, streaming flag, caller's
`X-Request-ID`. `local[r]` are the handler's local variables that matter
(`status`, `logged`, `headers_sent`, whether an exception unwinds, captured bytes).
`active` is `config.active_requests`; `records` and `inspected` are what was appended
to the access and inspector logs for each request; `wire` is what the client got;
`forwarded` is the set of requests the upstream was called for.

**Steps.** A step ends where another thread, the client, the upstream or the disk can
make a difference: `Arrive`; the dispatch (`AnswerLocally`, `RejectLength`,
`RejectLarge`, `AbortRead`, `ListModels`, `Reject`, `Admit`, `InspectRequest`); the
buffered handler (`UpstreamAnswers`, `UpstreamFails`, `CloseRaises`,
`InspectResponse`, `InspectError`, `RecordOutcome`, `RecordFailure`, `Unregister`,
`Answer`); the streaming handler (`StreamOpens`, `StreamChunk`, `StreamEnds`,
`RecordGone`, `InspectGone`, `Close`, `AnswerFailure`, `Finally`). Every call that can
raise has a branch in which it does, when its kind is in `Faults`: reading the body,
writing the inspector entry, appending to the log, closing the httpx client, a socket
error that is not a hang-up. `UnwindTo` is where such an exception leads: only the
streaming handler has a `finally`. Upstream errors and hang-ups always happen.

The `/status` and `/health` answers are one step with any of their statuses; `Shown` is
what `/status` takes from the registry: the entries that name a model
(`_active_request_payload`, `edge.py` 491). The rest of its content is a component of its own.
`InFlightListed` says which requests are shown, and that an entry is left behind only by
a handler that an exception ended outside the `try`/`finally` of streams (`Abandoned`).

**What it implements.** `AuditedGateway` says what the operator relies on, without
handlers or sockets: an audited request gets its single log line while it is open or
listed, the upstream hears of listed requests only, and a request is let go without a
line only by an instance that is `Lossy`. `EdgeProxy!ImplementsGateway` is that
specification under the mapping `StageOf`, `Lossy <- Faults # {}`.

**Fairness.** `WF(Handle(r))` for every thread: httpx gives up on a silent upstream
after its timeout, and file writes end. One part is an assumption about clients: they
read what they are sent, send what they announced, or hang up. The server's sockets
have no timeout, so without it the code guarantees nothing (a listed hazard). `Arrive`
is not fair: nobody has to connect.

## 3. Log retention: `LogRetention`

**State.** `file[f]` are the lines of the access and metrics logs: records with number
and timestamp, unparsable lines, a torn last line without newline. For each trimmer
(the edge's thread, and operator commands in `Tools`) `pc`, the index `at` in the file
order, the `cutoff` taken once per pass and `kept_lines`. `up` is the edge process.
History: `logged` (timestamps of all records), `exposed` (those appended while a trim
held a filtered copy), `incidents`.

**Steps.** `ReadLog`, `TruncateLog` and `WriteLog` are the three steps of
`trim_jsonl_by_age` (`write_text` opens with truncation, then writes); `WriteFails` is a
full disk; `LogRequest`, `Collect`, `NextRound`, `StartTool`, `StartEdge`, `Kill`,
`Tick`. `Overwritten` and `Cut` say what a file opened for writing holds when others
appended in the meantime: whole lines covered by length, and possibly the tail of one.

One retention holds for all trimmers (the commands' `--retention-days` override is left
out), and `logs/olla.log`, which Olla writes, has the fate of the access log.

**Fairness.** launchd's KeepAlive starts a dead edge (`WF(StartEdge)`) and the collector
loop goes on (`WF(Run("edge"))`). Operator commands may stop anywhere.

## 4. Artifacts: `ArtifactSync`

**State.** `dir[h][m]` is what host `h` has of model `m`: two shards, their index, the
config, the directory itself, rsync's partial directory, a `.incomplete` download.
Per operator `pc`, the command (`job`), its knowledge (`local`: presence lists, staging
sources, what is left to do, the rsync under way), its last `result`, and the history
`owed`: for a model that is copied the files the hub had when the copy began, for one
that the run leaves out (`ProbeNode`: on the node only; `SyncLocally`: looks ready)
the files it was found with on the node (`Kept`).

**Steps.** One ssh command or one file of an rsync each: `ProbeHub`, `ProbeNode`,
`AskNode`, `SourcesFound`, `StageModel`, `CopyFile`, `StagingEnds`, `StagingDone`
(`_stage_missing_models_to_hub`); `SyncRemotely`, `SyncLocally`, `SyncEnds`,
`AllSynced` (`_run_artifact_sync_workflow`, from afar and on the hub); `ListCache`,
`PruneModel`, `PruneEnds`, `Restart`; `AlreadyReady`, `DownloadStarts`, `DownloadFile`,
`DownloadEnds`. `Abort`, `AbortCopy` and `AbortPrune` interrupt any of them and leave
the directories as they are. The three notions of "ready" in the scripts are
`LooksReady`, `Stageable` and `Downloaded`. A presence probe whose ssh fails answers
"nothing there", as in the code.

**What a success is worth.** A model that looks ready on the node is not copied by a sync
on the hub (`cli.py` 4496), and not by a remote one whose hub lacks it (`cli.py` 4584). What
looks ready may be a config and one shard of two: such a run succeeds and leaves the other shard
missing, however often it is repeated. `SyncDelivers` therefore promises a config and weights of
every model, all of the hub's files only of those that were copied, and that nobody takes
anything away.

**Fairness.** `WF(Step(o))`: every ssh and rsync runs under a timeout, so a run goes on
or is ended.

## 5. The service lifecycle: `ServiceUpdate`

**State.** One service on one `host` ("node": commands go through zsh over ssh;
"gateway": through `/bin/sh`). `staged`, `plist` are the plist files, `job[d]` the plist
the loaded job of a domain was bootstrapped with ("agent" stands for `user/` and `gui/`,
which the scripts treat alike), `proc` the process that holds the port: who started it, with
which configuration, whether it has been told to go. Per operator `pc`, the `run` (manager,
configuration, whether it is retried) and its `result`. History: `alone` (no other run
since this one began), `clean` (all runs so far were ok).

**Steps.** The daemon and the setup script: `Stage`, `StopJobs`, `Term`, `Wait`, `Install`,
`Bootstrap` (with the exit-5 path: `Rebootout`, a second `Bootstrap`, `Kick` and
`PrintJob`), `Kick`, `PrintJob`, `Verify`, `HealthOk` or `HealthFails`; a node's setup
ends with its script. The agent: `Unload`, `Remove`, `Write`, `Term`, `LoadAgent`,
`KickAgent`. The shell process: `Unload`, `Term`, `Launch`. `Fail` starts a strict
restart over once; `Cut` is a command that fails or times out, the latter uncaught.
launchd is external: `Spawn` (RunAtLoad, KeepAlive), `Die`, `Crash`. A script is cut where
its effects on launchd are, so two operators interleave inside each other's scripts.

Left out: systemd, the daemon restarted through an administrator's login shell, and a script
that goes on remotely after its ssh timed out.

**Fairness.** `WF(Step(o))`: commands and health waits have deadlines. `WF(KeepAlive)` and
`WF(Exits)`: launchd starts what is loaded, and a process that got SIGTERM goes.

## 6. Prepare and restart of the cluster: `ClusterPrepare`

**State.** `olla` is the binary in `bin_dir` and the version its sidecar `.olla.sha256`
claims; `gateway` the generated config, whether the sudoers and daemons are set up, and
what Olla and the edge run with; `node[n]` what each node has installed (`tool`, `auth`,
`ready`: the launchd job) and what its process runs (`up`, `with`). `release` and `rev` are
the world: releases on GitHub, and edits of `.env` and `tfconfig.yaml`. The command is
`stage`, the nodes still `todo` in its phase, its arguments and what it resolved (`cmd`),
the pool (`thread`), and its `result`. History: `torn` (a run ended between binary and
sidecar), `cmd.fell` (the lookup of the release failed), `cmd.calm` (faults so far).

**Steps.** `Start` takes the targets apart (`_resolve_prepare_targets`); `Lookup`,
`Replace`, `Sidecar` are `ensure_olla_binary`; `WriteConfig`; `SetupGateway` or
`RestartOlla`, `RestartEdge`; `PrepareHub`; `ResolveTag`; per inference node `Tooling`,
`Auth`, `Setup`, `Restart`; for `cluster restart` the pool, `ThreadBegins`, `ThreadEnds`,
`Report`. Each step succeeds or is a fault (`Mishap`) that leaves what it may leave; `Cut`
ends the command between two steps. `Crash`, `KeepAlive`, `Release` and `Edit` are
the world's. A configured local Olla binary (`cli.py` 2633-2643) and dry runs are left out.

**What the model shows.** A lookup of the latest release that fails falls back to a
built-in version, and prepare then replaces a newer Olla by it and says *upgraded*
(`cluster/bootstrap.py` 113-130); `OnlyForward` is stated without those runs. After a run
that ended between binary and sidecar (102, 103) the next one believes the sidecar. A node on
the loopback interface passes the check for `OMLX_API_KEY` (`cli.py` 2706) and fails the
verification of its settings (`cluster/omlx.py` 565), with the key already replaced.
Hubs on other machines get no oMLX tooling (`cluster/remote_cache.py` 13-28 removes it),
although the repository's `README.md` (83, 154) says prepare ensures it on each cache host.

A restart of the gateway's daemons succeeds or is a fault here; that it never succeeds for
daemons without an administrator (finding 4) is what `ServiceUpdate` shows. The model has
more behaviours for it, so the invariants, which say what a success means, stand.

**Fairness.** `WF(Step)`: every command of a run has a timeout.

## 7. The operator's tools: `ClusterStatus`, `ClientIds`, `EnvKeys`, `UsageSummary`

`ClusterStatus`: `call` is the call of `/status`, from the command (`cli`) through the handler's
`stage` (GitHub, gateway, caches, then for every node `health`, `models`, `statuses`,
`activity`, `omlx`, `macos`; `reply`) to the printed `report`. `seen[n]` is what node `n`
told, `payload` what the edge answered. Around it the world moves: requests are
registered, routed, run and are recorded, models load, nodes go down, hang (`wedged`) or are
`lost`. The targets are all, a role, or any node of the configuration, gateway and cache-only hosts
among them. The handler asks one party after the other, and the command waits for the
whole answer (`cli.py` 1701, httpx's 30 s on an answer that comes in one piece): `call.took` are
the seconds of calls that were answered, any of their `Durations`, and of the GitHub lookups, which
take up to their timeout; `call.late` counts the timeouts of hung nodes. `GiveUp` is possible when
both together (`Spent`) reach `Patience`, an answer only before. The edge's readiness and the
command's own (`_normalize_cluster_status_payload`) are both computed, and `_latest_access`
is the command's fold over the access log, line by line. An exception that the handler does not
catch (`TimeoutExpired`, `edge.py` 1483) ends the call (`Die`).
No fairness is stated: that a call ends is httpx's own timeout, so it is not made into a property.

`ClientIds` is the escaping of a client id into the name of a variable and back, on the
characters that matter, in lower case and capitals. The underscore is escaped only where it stands
before a whole escape of the *id* (`edge.py` 292), so the escaping is not injective: `a_dash-b`
and `a-dash_b` are both named `A_DASH_DASH_B`, share a key and are loaded as `a-dash_b`; and an id in
capitals, which `validate_edge_client_id` admits, is loaded in lower case. A test is called
`..._without_collisions` (`tests/test_edge.py` 102); the names it tries have none. `Plain(c)` are
the ids without such a pair; `ReadAs(c)` is whom the edge takes the client for.

`EnvKeys` has the commands that read, extend and rewrite `.env` (`Begin`, `Read`, `Open`, `Write`,
`HandOut`), the edge that loads it (`Start`, `Stop`), and the operator's editor: `OpenEditor` takes
the file as it is then, `Save` writes that back with one more line, whatever the commands are
at or have written meanwhile. A file is emptied when it is opened for writing; a command may be killed
there (`Kill`), or find the disk full (`WriteFails`), which leaves some of its lines and
part of one. `mangled` is the history of the three: an overlap of two writers, a kill, a failed
write. `LineLossNeedsOverlap` says that nothing else loses a line of another client or
setting, `HandedOutAccepted` that a key is accepted as its client's where none of them happened.

`UsageSummary` holds the two logs line by line, in any order, with lines that are
broken or lack a timestamp, client, latency, model or node. `ofRequests`, `ofNodes` and
`summarize_edge_usage` are the three folds. What one report counts as a request without a
latency is an invalid line in the other (`usage.py` 225, `edge.py` 561): `ReportsAgree` says
that this is the only difference. A sample with an empty list updates the count of loaded
models but leaves the list of an earlier sample beside it (`usage.py` 307-310):
`NewestSampleShown` is stated around it. A broken line is in the invalid lines of every day.

`MCOperatorTools` checks the three in one run, each moving only while the others are
where they started: they share no state, and so the run explores the sum of their states.

## 8. Runs

| Run | Question | Instance |
|---|---|---|
| `edge_core` | With calls that do not raise, is the gateway's promise kept by two concurrent handlers, is `/status` exact, does every request end? | 2 connections, every way through dispatch, ids that may be shared, 2 upstream statuses |
| `edge_faults` | Whatever raises, is nothing logged twice, nothing completed unlogged, no second status line sent, no stream left listed, the captured body marked exactly when bytes are missing? | 2 connections, both handlers, all fault kinds, bodies up to 4 units, limit 2, chunks of 1 and 3 |
| `edge_unlogged` | finding: a forwarded request without a log line | 1 connection, inspector fails |
| `log_retention` | What do the edge's own trims lose? | no commands, retention 1, clock 0..3, 3 records per log, 1 kill, full disks |
| `log_tools` | Do trims duplicate or reorder records, or fail to remove them, with a second collector? | one command, retention 1, clock 0..2, 3 access records, 1 sample, 1 kill, full disks |
| `log_fresh` | finding: a fresh record lost to a trim | the edge alone, no kill |
| `artifact_sync` | Do two operators' overlapping commands keep their promises? | 2 nodes, 2 models, 2 runs of 6 jobs, 2 initial layouts |
| `artifact_ready` | finding: `already_ready` for half a model | 1 operator, 2 runs |
| `service_update` | Does a reported success mean that the new configuration runs, does one retry make up for one fault, do services come up? | node and gateway, 2 operators, 2 configurations, all managers, 2 runs, 1 fault |
| `service_gateway` | finding: a gateway daemon that every restart leaves stopped | 1 operator, no fault |
| `cluster_prepare` | Is *complete* true of the whole cluster, does the next run repair a failed one, does a failure leave what ran able to run? | gateway with its own hub, a node on the loopback interface, a hub that also serves; 2 releases, 2 revisions of the settings, one of them without a key; 2 runs, 2 faults |
| `operator_tools` | Does the status report tell the truth about requests that ran all along, nodes that are down and last users, and fail only for cause; do keys survive overlapping commands and editors, and reach their clients; do the usage reports agree? | status: 2 nodes, 2 caches (one of them a node), 2 aliases of one model, 2 requests, 1 failure, 1 move of the world during the call, two lookups of 5 s, one call to each node that takes 0 s or 10 s; keys: 3 clients (one in capitals, two with one variable), 2 commands, 2 keys, an editor with 1 edit, 1 kill or failed write; usage: all logs of up to 3 lines out of 8 and 8 kinds |

Why the bounds suffice. Handlers interact only through `active`, one entry per id, so
two connections show every conflict (replace, unlist, list a stranger's entry); a third
would repeat one. Chunks below, at and above the room left in the capture buffer, and a
body of more than two limits, reach every branch of the capture. A trim race takes three
records of a log: one that has expired (without it nothing is rewritten), one that the
rewrite keeps and one appended meanwhile; a torn last line that is itself rewritten takes
a clock that passes the retention boundary twice. Two trimmers give the overlap. Two nodes are the least with a staging source other than the
target; two models differ in who is assigned them; two shards are what separates a half
model from a whole one; two runs, concurrent or one after the other, give interference
and recovery from an interrupted run.

Two configurations tell the old job from the new; two runs, at once or in turn, interfere in
every pair of steps; one fault is what the properties allow (a second failing bootout does
leave the old job running under a reported success).

In `cluster_prepare` two faults are what makes a strict restart fail, two runs are a failure and
its repair, or a prepare and a restart; the three nodes have every combination of roles
that differs in the phases. In `operator_tools` one move during the call is what makes two parts of
an answer disagree, and one failure, of each kind a probe can meet, at every point of it or
before it. Two lookups take 5 s each, answered or not, the last call to each node 0 s or 10 s, all
others 0 s: two slow nodes then use up 30 s without a failure, as do three timeouts of a hung
node, or two and a slow call. Durations in other stages would add to the same sum; the theorem
is about any. Targets are all
nodes, a host without inference, and an unknown one. Two commands are an overlap, two keys what they
can create; one edit is a line of the operator, saved at any time; the three ids are one in
capitals, whose underscores are escaped, and two that collide. Three lines are two samples out of order
with one without a timestamp between them, or two days of a client beside another; the theorems are about
logs of any length.

`edge_core` has no faults because the registry properties and exact auditing do not
hold when a buffered handler raises (that is the finding); `edge_faults` keeps what
holds nevertheless, `StreamsUnlisted` among it. `InFlightListed` holds with faults too (it is proved
that way), in which case it allows for the entries they leave; its run is the one without, in which
no handler ends so. A request whose id somebody else uses shares an entry with it. `RestartFindsModels`
and `SyncDelivers` speak of models assigned to the node: a command for another
model with `--prune` removes what it copied.

`InstalledIsLoaded` assumes that no command failed: two restarts at once and a bootout that
fails can both report success with the old plist's job still loaded, because the exit-5
path accepts any running job. TLC found that when the property was first
stated without the assumption.

`CHECK_DEADLOCK FALSE` in all runs but those of the log: all connections served, all runs
ended, a report printed or the bound of lines reached is the normal end. The log runs check deadlock: the collector
never stops.

**Findings.** (1) `proxy_edge_request` has no `finally`: an inspector write that raises
after the upstream answered leaves the request unlogged, unanswered and listed for ever
(`docs/adr/0002-olla-router-with-tf-edge.md:112` promises one line per request). (2)
`trim_jsonl_by_age` overwrites what request threads append between its read and its
write (`docs/operations/daily-summary-contract.md:100` has files trimmed by timestamp).
(3) The download script calls a directory with config and one shard of two
`already_ready`, against what `tests/test_remote_cache.py:60` says it requires. (4)
`system_launchd_bootstrap_command` joins script lines with ` ; `, which makes `then ;` of
an `if`: zsh on the nodes takes it, `/bin/sh` on the gateway does not, so a daemon restart
there stops the service and fails (`README.md:154` has `make restart` restart it).

## 9. Proofs

Checked by TLAPS for every value of the constants, from the named assumptions
`EdgeAssumption`, `RetentionAssumption`, `SyncAssumption`, `ServiceAssumption`,
`PrepareAssumption`, `StatusAssumption`, `EnvAssumption` and `UsageAssumption`. They say
only what kind of value a constant has: ids drawn by the edge differ from callers' ids; a
retention is at least a day; the hub is not a node; download jobs are for one model; nodes have distinct numbers
as ranks, and the gateway's Olla is none of them; nodes, caches, aliases and requests are finitely
many; a call that is answered takes one of a set of numbers of seconds; a client's id is a
non-empty sequence of strings; log lines are broken or have the fields of
their type. TLC evaluates each of them in the runs of its module.

No theorem has a hypothesis beside these.

`EdgeProxyProofs`, from one inductive invariant `IInv` at first:
- `TypeCorrect`: `Spec => []TypeOK`, with the bound on the captured body.
- `NeverLoggedTwice`, `CompletedIsAudited`, `ForwardsOnlyAdmissible`.
  `OneRecordAtMost` is not inductive: that a handler may
  still record depends on where it is and on its `logged` flag. `RecordInv(r)` ties
  the number of lines to both: none while the request is on its way, one where it is
  due, and in the stream stages one exactly when `logged` is set. `AdmitInv(r)` says that
  whoever is past admission passed every refusal, which carries
  `OnlyAdmissibleForwarded` to the step that calls the upstream.
- `GatewayImplemented`: `Spec => ImplementsGateway`, the refinement of `AuditedGateway`, with
  every fault. `Moves(r)` lists what a step may do to a request as the gateway sees it (stay,
  break, open, settle, be listed, contact the upstream, log, leave); each action of the two
  handlers is shown to be one of them, and each of them a step of the gateway or a stutter.
- `StreamsLeave`: `Spec => []StreamsUnlisted`. `ListedInv(r)` says that a request alone with its
  id keeps its entry from admission to the end of its handler.
- `StatusIsExact`: `Spec => []InFlightListed`, with every fault. `Owned` says that each entry has an
  owner that is in flight, or was abandoned by an exception, even when callers share an id.

From `WInv`, which adds three parts to `IInv`:
- `HeadInv(r)` ties status lines and log lines to the handler's `status` and `headersSent`:
  `WireIsLogged`, `Spec => []RecordAgreesWithWire`. A failed stream overwrites the
  status after the head went out, so the agreement holds only up to that 502.
- `FailInv(r)` says where a 502 may still be sent and where a stream can have broken:
  `BrokenStreamLogged`, `Spec => []StreamFailureRecorded`.
- `BodyInv(r)` relates what was read, kept, clipped and sent: `CaptureIsFaithful`,
  `Spec => []CaptureFaithful`.

`LogRetentionProofs`:
- `TypeCorrect`. `TrueTo` says of each file, and of each filtered copy, that its records are
  among those logged, with the timestamp they were logged with; it rests on lemmas that say
  what `Overwritten`, `Cut` and the filter leave of any file (`LineInv`).
- `RecordsInOrder`: `Spec => []InOrder`. `Calm` says that until two trims overlap there is one
  trimmer, files and its copy are sorted, and all in its copy is older than what was appended
  to the file it has emptied; then it does not matter where the rewrite is cut.
- `NothingElseLost`: `Spec => []LossNeedsOverlap`. `Safe(f, n)` follows a record of the edge
  alone: while its file is being edited it is in the copy, while the file is not emptied it is
  in the file, or it is one of the exposed lines of the access log. That the metrics log
  loses nothing is because its writer is its trimmer.

`ArtifactSyncProofs`:
- `TypeCorrect`.
- `AssignedKept`: no step of anybody removes a file of a model from the hub or from a
  node it is assigned to. The invariant `StaleUnassigned` says a prune list never
  names a model assigned to its target, although the list is taken long before.
- `SuccessMeansDelivered`: `Spec => []SyncDelivers`. The invariant `Delivery` follows each
  run: outside a copy, all that is owed has arrived; within one, what is owed has
  arrived, is still on rsync's list, or was lost, and then the run fails. It rests on
  `AssignedKept`: what has been delivered stays, so no other operator can falsify it.
  `Supplied(o)` says of each model the run is for that it is still on the list, or that
  what is owed of it, copied or found, has a config and weights.
- `RestartHasModels`: `Spec => []RestartFindsModels`, from the same two: at the restart the list is
  empty, and what is owed is there.

`ServiceUpdateProofs`:
- `TypeCorrect`.
- `SuccessMeansReplaced`: `Spec => []RestartServes`. The property speaks of runs that are
  over; its invariant `Progress(o)` follows a run from the bootout on. What is loaded after
  the bootout is there because the bootout failed; that is the one fault allowed, so the
  second bootout works and the branch that accepts a running job is never reached.
  `Aloof(o)` says that a run that is alone has nobody beside it.
- `OneFaultIsRepaired`: `Spec => []RetryRecovers`. `Retry(o)` follows a run that is alone
  through its two attempts: in the first no fault has been met, in the second exactly one; lemma
  `FailsByFault` says that such a run is sent back or ends in a failure by a fault only.
- `BootsWhatRuns`: `Spec => []InstalledIsLoaded`, with any number of interleaved runs. It speaks
  of the end; its invariant `Consistent` says that in between the job is the installed plist, or
  some run is about to look at it, or there is no job and some run is about to load one.

`ClusterPrepareProofs`, from `IInv`, the conjunction of
- `TypeOK`;
- `ThreadInv`: outside the pool no thread has run, and what `EveryoneTried` says;
- `OllaInv`: the release that is wanted is at least the binary from its lookup to the
  replacement, and the sidecar names the binary unless a run was cut between the two
  (`NeverBack` rests on it);
- `CommandInv`: which command may be at which stage, and which nodes it has yet to do;
- `GatewayInv`: at a stage past the gateway's, the gateway has what the command wanted, and
  no later stage touches it;
- `NodesInv`: the nodes that are done are as the command promises, and the one whose turn it is
  has what the stages before gave it. It must say so of the nodes that are done *while* others
  are in work, since a crash, a new release or an edit may come in between.

`CompleteIsTrue` is then its last stage. `RerunWorks` takes, besides, that a step fails
without a fault only where settings lack the key. `RunnableKept` is an action property: of
each step, that the nodes it touches keep tool, settings and job.

`EnvKeysProofs`:
- `LinesKept`: `LineLossNeedsOverlap` from `IInv`, which says where the lines are: until
  two writers overlap, one is killed or fails to write there is one writer (`OnlyWriter`), it holds every
  line of value there ever was, and while it has not emptied the file the file does
  (`NothingLost`). An editor's save is then of the file as it is. That a command keeps lines whose names
  it does not ensure is proved of `ensure_edge_api_keys` as it stands.
- `KeysTypeCorrect`: with `FileInv`, no variable has two lines and no line a key that was not
  generated yet, so an edge that serves knows no two clients by one key.
- `IdsReadBack` (a lemma, on any sequence of characters): the name of a plain id is read back as the
  id in lower case. `Piece` by `Piece` the name is what the id's characters become (`NameParts`); an escape
  stands in the name where one was put and nowhere else (`NoEscape`), so the reader takes the
  same pieces (the recursion is taken backwards, from the end of the name).
- `HandedKeysWork`: `HandedOutAccepted`. `HandedRecorded` says that a key handed out has stood
  in `.env` on a line of its client; `LinesKept` says that it still does when the edge loads
  the file, and `FileInv` that no other line of that variable comes later. The variable is read
  as `ReadAs(c)`, for a plain id by `IdsReadBack`; a line of the same id under another name is the
  case the property excepts.

`ClusterStatusProofs`:
- `StatusTypeCorrect`.
- `ErrorsHaveReason`: `StatusSpec => []DownNodesReported`, from `MetInv`: `met` of a party tells how it
  was at each moment of the call (`PartiesInv`), only nodes that hung have timeouts, four each
  (`LateInv`), what a node told is what it told while up (`TellInv`), and a call that failed
  has one of the reasons (`ReasonInv`).
- `JudgedAlike`: `StatusSpec => []ReadinessAgrees`, from `AnswerInv`: what edge and command judged
  is still what was seen, and the two formulas differ in the named case only.
- `LastUserShown`: `StatusSpec => []LastUserIsLatest`. By the least prefix of the log that would
  refute it, the fold holds for every pair the time and client of a line that no earlier line of
  the pair is later than (`Latest_`, one line at a time by `TakenIn`). `LogInv` says that the lines are
  of requests that were stamped, with times from 1 on, which the fold's start value needs.
- `LongRequestsCount`: `StatusSpec => []LongRequestReported`. A request that ran throughout was
  counted by its node when that node was asked (`LongInv`; `SeenInv` says which nodes have been
  asked by which stage), the answer adds the nodes up (`PayInv`), and a sum of
  natural numbers is at least the number of requests they cover (lemma `SumCovers`).

`OperatorToolsProofs`, of the three tools beside one another, from `StatusInv`, `KeysInv` and
`UsageInv`, each kept by its own steps:
- `ToolsTypeCorrect`.
- `ReportsTrue`: `ToolsSpec => []AccountsTrue`. Tallies by days, clients, models are sums over
  disjoint classes of the same lines (`SumCounts`, `DaySplit`, `DaysTold`); the two reports
  are sums over sets of lines that differ by those without a latency (`ReportsTold`). The
  sorted latencies have one place per request, and the least latency that covers p percent is
  the one at the nearest rank (`PlacesAll`, `PercentileIs`).
- `NewestIsShown`: `ToolsSpec => []NewestSampleShown`. Of the first k lines, the count of the newest
  sample of the node is what is shown, and its list unless it lists nothing; one more line supersedes it or not (`TakeShows`), and a line
  of another node does not touch it (`TakeElsewhere`).

Sums, sorted lists and folds over a log are facts by induction over data. The library's induction
theorems take an operator as a parameter and cannot be instantiated by the installed provers, so these
proofs take the least counterexample from a *set* of numbers (lemmas `LeastOf`, `Counting`,
`Growing`, `PlaceByPlace`, by `WFMin`), and existence of a recursive function from the set of prefixes that have
one (`ListingExists`, `TakingExists`, `ReadingExists`, `TellingExists`). `SelectSeq` and `SortSeq` are recursive inside and cannot
be expanded by the prover; `UsageSummary` therefore defines its lists as recursive functions of the
number of lines read, and a percentile by the places of a sorted list.

Only model-checked: the three liveness properties (`EveryRequestFinishes`, `ExpiredGoes`,
`EventuallyServes`), since the prover does not support fairness and `ENABLED`. No module
uses `RECURSIVE`, whose operators the prover cannot handle.

## 10. Not modelled

ssh and scp, binary bootstrap and node export are pure transfers; their failures appear as
outcomes of the steps above. Smoke tests and benchmarks are one sequential client each.
Option parsing, dry runs and table output change no state. Deletion of old
`.stdout`/`.stderr` files is left out of `LogRetention`: nothing else uses them. The contents
of messages and token counts are abstracted away: no property here depends on them.

The configuration, its lint and the generated Olla config are pure functions from YAML; what
they yield is a constant of the models (nodes, roles, assignments, aliases). The choice
between fabric and management host (`fabric.py`, `remote_cache.py`) decides how a copy
travels, not what it leaves; its failures are failures of the copy. The GPU memory script is
shell arithmetic of one process without state of its own.

Seen while modelling and not made into a property: in `cluster restart` an exception of
one worker is raised by `future.result()` (`cli.py` 2890) before any line is printed, and
hides the results of the nodes that were restarted.
