--------------------------- MODULE ServiceUpdate ---------------------------
(***************************************************************************)
(* One service under launchd (oMLX on a node, Olla or TF edge on the       *)
(* gateway), and operators who install and restart it: as a system daemon, *)
(* through the administrator's setup script, as the user's agent, or as a  *)
(* process of a plain shell.                                               *)
(*                                                                         *)
(* A run is a fixed list of commands.  A step is one command, or the part  *)
(* of a script up to its next effect on launchd; runs of different         *)
(* operators interleave between any two, since nothing locks the service.  *)
(* launchd and the processes are external: it keeps one process for a      *)
(* loaded job, and only one process at a time holds the service's port.    *)
(***************************************************************************)
EXTENDS Naturals

CONSTANTS
  Operators,
  Configs,       (* what the generated plist may say                       *)
  NoConfig,
  Hosts,         (* "node": ssh wraps commands in zsh, "gateway": /bin/sh  *)
  MaxRuns,       (* bound: runs started                                    *)
  MaxMishaps     (* bound: faults of ssh, launchd or the service           *)

ASSUME ServiceAssumption ==
  /\ NoConfig \notin Configs
  /\ Configs # {}
  /\ Hosts \subseteq {"node", "gateway"}
  /\ MaxRuns \in Nat
  /\ MaxMishaps \in Nat

VARIABLES
  host,       (* where the service runs                                    *)
  staged,     (* the plist staged for the system daemon                    *)
  plist,      (* domain -> the plist installed for it                      *)
  job,        (* domain -> the plist the loaded job was bootstrapped with  *)
  proc,       (* the process that holds the port                           *)
  pc,         (* where each operator's run is                              *)
  run,        (* the run, or the last one                                  *)
  result,     (* how the last run ended                                    *)
  alone,      (* history: no other run since its start, none under way then*)
  clean,      (* history: every run that ended was ok                      *)
  runs, mishaps

machine == <<staged, plist, job, proc>>
vars == <<host, machine, pc, run, result, alone, clean, runs, mishaps>>

Domains == {"system", "agent"}

Managers(h) == IF h = "node" THEN {"daemon", "setup", "agent", "process"}
                             ELSE {"daemon", "setup", "agent"}

Stages == {"idle", "stage", "bootout", "term", "wait", "install", "bootstrap",
           "rebootout", "rebootstrap", "kick5", "print5", "kick", "print",
           "unload", "remove", "write", "load", "kickAgent", "launch",
           "verify", "health"}

(* strict: a failure is retried once; second: this is the retry; kicked:   *)
(* the last kickstart succeeded; errors: the verification found no job.    *)
Runs == [manager : Managers("node"), config : Configs, strict : BOOLEAN,
         second : BOOLEAN, kicked : BOOLEAN, errors : BOOLEAN]

Process == [by : Domains \union {"none", "shell"},
            config : Configs \union {NoConfig}, dying : BOOLEAN]

By(d, c) == [by |-> d, config |-> c, dying |-> FALSE]
NoProcess == By("none", NoConfig)

Only(d, c) == [e \in Domains |-> IF e = d THEN c ELSE NoConfig]

SomeConfig == CHOOSE c \in Configs : TRUE

(* Not installed, or in the hands of one manager; which configuration it   *)
(* has makes no difference, they are alike.                                *)
Init ==
  /\ host \in Hosts
  /\ \E by \in {"none", "system", IF host = "node" THEN "shell" ELSE "agent"} :
       /\ plist = Only(by, SomeConfig)
       /\ job = Only(by, SomeConfig)
       /\ proc = IF by = "none" THEN NoProcess ELSE By(by, SomeConfig)
       /\ staged = plist["system"]
  /\ pc = [o \in Operators |-> "idle"]
  /\ run = [o \in Operators |->
              [manager |-> "daemon", config |-> SomeConfig, strict |-> FALSE,
               second |-> FALSE, kicked |-> FALSE, errors |-> FALSE]]
  /\ result = [o \in Operators |-> "none"]
  /\ alone = [o \in Operators |-> FALSE]
  /\ clean = TRUE
  /\ runs = 0
  /\ mishaps = 0
-----------------------------------------------------------------------------
(* launchd.                                                                *)

Loaded(d) == job[d] # NoConfig
Up == proc.by # "none"

Mishap == mishaps < MaxMishaps /\ mishaps' = mishaps + 1

(* SIGTERM to the processes of these managers: they take a while to go.    *)
Signal(by) == proc' = IF proc.by \in by THEN [proc EXCEPT !.dying = TRUE]
                                        ELSE proc

(* launchctl bootout.                                                      *)
Bootout(domains) ==
  /\ job' = [d \in Domains |-> IF d \in domains THEN NoConfig ELSE job[d]]
  /\ Signal(domains)

(* launchctl bootstrap.                                                    *)
Load(d) == job' = [job EXCEPT ![d] = plist[d]]

(* launchctl kickstart -k: the job's process is replaced; a process of     *)
(* another manager keeps the port.                                         *)
Kickstart(d) ==
  proc' = IF Loaded(d) /\ proc.by \in {"none", d} THEN By(d, job[d]) ELSE proc

(* Mutant of Spawn: KeepAlive is written into agents' plists only.         *)
Spawn_AgentOnly(d) ==
  /\ d = "agent" /\ Loaded(d) /\ ~Up
  /\ proc' = By(d, job[d])
  /\ UNCHANGED <<staged, plist, job, mishaps>>

(* RunAtLoad and KeepAlive.                                                *)
Spawn(d) ==
  /\ Loaded(d) /\ ~Up
  /\ proc' = By(d, job[d])
  /\ UNCHANGED <<staged, plist, job, mishaps>>

Die ==
  /\ proc.dying
  /\ proc' = NoProcess
  /\ UNCHANGED <<staged, plist, job, mishaps>>

Crash ==
  /\ Up /\ Mishap
  /\ proc' = NoProcess
  /\ UNCHANGED <<staged, plist, job>>

operators == <<host, pc, run, result, alone, clean, runs>>

KeepAlive == (\E d \in Domains : Spawn(d)) /\ UNCHANGED operators
Exits     == Die /\ UNCHANGED operators
Launchd   == KeepAlive \/ Exits \/ (Crash /\ UNCHANGED operators)
-----------------------------------------------------------------------------
(* Control of a run.                                                       *)

Goto(o, s) == pc' = [pc EXCEPT ![o] = s] /\ UNCHANGED <<run, result, clean>>

First == [daemon |-> "stage", setup |-> "stage", agent |-> "unload",
          process |-> "unload"]

Fresh(o) == [run[o] EXCEPT !.second = FALSE, !.kicked = FALSE, !.errors = FALSE]

(* What the result object held is gone with the process.                   *)
End(o, r) ==
  /\ pc' = [pc EXCEPT ![o] = "idle"]
  /\ result' = [result EXCEPT ![o] = r]
  /\ clean' = (clean /\ r = "ok")
  /\ run' = [run EXCEPT ![o] = Fresh(o)]

(* Mutant of Fail: the restart is not retried.                             *)
Fail_AtOnce(o) == End(o, "failed")

(* A result with errors; _restart_omlx_runtime_strict starts over once.    *)
Fail(o) ==
  IF run[o].strict /\ ~run[o].second
  THEN /\ run' = [run EXCEPT ![o] = [Fresh(o) EXCEPT !.second = TRUE]]
       /\ pc' = [pc EXCEPT ![o] = First[run[o].manager]]
       /\ UNCHANGED <<result, clean>>
  ELSE End(o, "failed")

(* Only the daemons of nodes are restarted strictly, by `cluster restart`  *)
(* and the restart after a sync.                                           *)
Start(o) ==
  /\ pc[o] = "idle"
  /\ runs < MaxRuns
  /\ runs' = runs + 1
  /\ \E m \in Managers(host), c \in Configs, s \in BOOLEAN :
       /\ s => m = "daemon" /\ host = "node"
       /\ run' = [run EXCEPT ![o] =
            [manager |-> m, config |-> c, strict |-> s, second |-> FALSE,
             kicked |-> FALSE, errors |-> FALSE]]
       /\ pc' = [pc EXCEPT ![o] = First[m]]
  /\ result' = [result EXCEPT ![o] = "none"]
  /\ alone' = [p \in Operators |-> p = o /\ \A q \in Operators : pc[q] = "idle"]
  /\ UNCHANGED <<host, machine, clean, mishaps>>
-----------------------------------------------------------------------------
(* The system daemon, by commands or by the setup script.                  *)

IsSetup(o) == run[o].manager = "setup"

(* The plist goes to the staging path; the setup script carries its own.   *)
Stage(o) ==
  /\ pc[o] = "stage"
  /\ staged' = IF IsSetup(o) THEN staged ELSE run[o].config
  /\ Goto(o, "bootout")
  /\ UNCHANGED <<plist, job, proc, mishaps>>

(* Mutant of StopJobs: the agent's domain is forgotten.                    *)
StopJobs_SystemOnly(o) ==
  /\ pc[o] = "bootout"
  /\ \/ Bootout({"system"}) /\ UNCHANGED mishaps
     \/ Loaded("system") /\ Mishap /\ UNCHANGED <<job, proc>>
  /\ Goto(o, "term")
  /\ UNCHANGED <<staged, plist>>

(* Failures of bootout are ignored (|| true): then the old job stays.      *)
StopJobs(o) ==
  /\ pc[o] = "bootout"
  /\ \/ Bootout(Domains) /\ UNCHANGED mishaps
     \/ Bootout({"agent"}) /\ Loaded("system") /\ Mishap
  /\ Goto(o, "term")
  /\ UNCHANGED <<staged, plist>>

Term(o) ==
  /\ pc[o] = "term"
  /\ Signal({proc.by} \ {"none"})
  /\ Goto(o, CASE run[o].manager \in {"daemon", "setup"} -> "wait"
               [] run[o].manager = "agent"               -> "load"
               [] run[o].manager = "process"             -> "launch")
  /\ UNCHANGED <<staged, plist, job, mishaps>>

(* No process matches any more, or ten seconds are over and SIGKILL is     *)
(* sent; the wait does not look again.                                     *)
Wait(o) ==
  /\ pc[o] = "wait"
  /\ proc' = NoProcess
  /\ Goto(o, "install")
  /\ UNCHANGED <<staged, plist, job, mishaps>>

Install(o) ==
  /\ pc[o] = "install"
  /\ staged' = IF IsSetup(o) THEN run[o].config ELSE staged
  /\ plist' = [plist EXCEPT !["system"] = staged']
  /\ Goto(o, "bootstrap")
  /\ UNCHANGED <<job, proc, mishaps>>

(* Exit 5: the job is loaded, or launchd has not let go of the last one.   *)
(* The commands joined by " ; " are no script to /bin/sh ("then ;"): in a  *)
(* restart on the gateway none of them runs.                               *)
Parses(o) == host = "node" \/ IsSetup(o)

Bootstrap(o) ==
  /\ pc[o] \in {"bootstrap", "rebootstrap"}
  /\ \/ ~Parses(o) /\ Fail(o) /\ UNCHANGED <<job, mishaps>>
     \/ /\ Parses(o) /\ ~Loaded("system")
        /\ Load("system")
        /\ Goto(o, "kick")
        /\ UNCHANGED mishaps
     \/ /\ Parses(o)
        /\ IF Loaded("system") THEN UNCHANGED mishaps ELSE Mishap
        /\ Goto(o, IF pc[o] = "bootstrap" THEN "rebootout" ELSE "kick5")
        /\ UNCHANGED job
  /\ UNCHANGED <<staged, plist, proc>>

(* Mutant of Rebootout: bootstrap is tried again as it is.                 *)
Rebootout_Skipped(o) ==
  /\ pc[o] = "rebootout"
  /\ Goto(o, "rebootstrap")
  /\ UNCHANGED <<machine, mishaps>>

Rebootout(o) ==
  /\ pc[o] = "rebootout"
  /\ \/ Bootout({"system"}) /\ UNCHANGED mishaps
     \/ Loaded("system") /\ Mishap /\ UNCHANGED <<job, proc>>
  /\ Goto(o, "rebootstrap")
  /\ UNCHANGED <<staged, plist>>

Kick(o) ==
  /\ pc[o] \in {"kick5", "kick"}
  /\ Kickstart("system")
  /\ pc' = [pc EXCEPT ![o] = IF pc[o] = "kick5" THEN "print5" ELSE "print"]
  /\ run' = [run EXCEPT ![o].kicked = Loaded("system")]
  /\ UNCHANGED <<staged, plist, job, mishaps, result, clean>>

Running(d) == Loaded(d) /\ proc.by = d

(* After a second exit 5, a running job will do.                           *)
Accepted(o) == IF pc[o] = "print5" THEN Running("system")
               ELSE Loaded("system") /\ (run[o].kicked \/ Running("system"))

(* On a node the setup is over with its script: no verification.           *)
PrintJob(o) ==
  /\ pc[o] \in {"print5", "print"}
  /\ CASE ~Accepted(o)                      -> Fail(o)
       [] Accepted(o) /\ pc[o] = "print5"   -> Goto(o, "kick")
       [] Accepted(o) /\ pc[o] = "print" ->
            IF IsSetup(o) /\ host = "node" THEN End(o, "ok") ELSE Goto(o, "verify")
  /\ UNCHANGED <<machine, mishaps>>
-----------------------------------------------------------------------------
(* The user's agent, and the process of a shell.                           *)

Unload(o) ==
  /\ pc[o] = "unload"
  /\ Bootout({"agent"})
  /\ Goto(o, IF run[o].manager = "agent" THEN "remove" ELSE "term")
  /\ UNCHANGED <<staged, plist, mishaps>>

(* Mutant of Remove: the domain's entry goes with the file.                *)
Remove_Entry(o) ==
  /\ pc[o] = "remove"
  /\ plist' = [d \in {"system"} |-> plist[d]]
  /\ Goto(o, "write")
  /\ UNCHANGED <<staged, job, proc, mishaps>>

Remove(o) ==
  /\ pc[o] = "remove"
  /\ plist' = [plist EXCEPT !["agent"] = NoConfig]
  /\ Goto(o, "write")
  /\ UNCHANGED <<staged, job, proc, mishaps>>

(* Over ssh the path is quoted, its tilde with it: there is no such        *)
(* directory.  On the gateway it is expanded.                              *)
Write(o) ==
  /\ pc[o] = "write"
  /\ \/ host = "node" /\ Fail(o) /\ UNCHANGED plist
     \/ /\ host = "gateway"
        /\ plist' = [plist EXCEPT !["agent"] = run[o].config]
        /\ Goto(o, "term")
  /\ UNCHANGED <<staged, job, proc, mishaps>>

LoadAgent(o) ==
  /\ pc[o] = "load"
  /\ \/ /\ ~Loaded("agent") /\ plist["agent"] # NoConfig
        /\ Load("agent")
        /\ Goto(o, "kickAgent")
     \/ /\ Loaded("agent") \/ plist["agent"] = NoConfig
        /\ Fail(o)
        /\ UNCHANGED job
  /\ UNCHANGED <<staged, plist, proc, mishaps>>

KickAgent(o) ==
  /\ pc[o] = "kickAgent"
  /\ Kickstart("agent")
  /\ IF Loaded("agent") THEN Goto(o, "verify") ELSE Fail(o)
  /\ UNCHANGED <<staged, plist, job, mishaps>>

(* nohup does not wait for the port: with a process still on it, the new   *)
(* one exits.                                                              *)
Launch(o) ==
  /\ pc[o] = "launch"
  /\ proc' = IF Up THEN proc ELSE By("shell", run[o].config)
  /\ Goto(o, "health")
  /\ UNCHANGED <<staged, plist, job, mishaps>>
-----------------------------------------------------------------------------
(* The end of every run but a node's setup.                                *)

Verify(o) ==
  /\ pc[o] = "verify"
  /\ LET d == IF run[o].manager = "agent" THEN "agent" ELSE "system" IN
     run' = [run EXCEPT ![o].errors = ~Loaded(d)]
  /\ pc' = [pc EXCEPT ![o] = "health"]
  /\ UNCHANGED <<machine, mishaps, result, clean>>

(* Any process on the port answers, a dying one too.                       *)
HealthOk(o) ==
  /\ pc[o] = "health"
  /\ Up
  /\ IF run[o].errors THEN Fail(o) ELSE End(o, "ok")
  /\ UNCHANGED <<machine, mishaps>>

HealthFails(o) ==
  /\ pc[o] = "health"
  /\ ~Up
  /\ IF \E d \in Domains : Loaded(d) THEN Mishap ELSE UNCHANGED mishaps
  /\ Fail(o)
  /\ UNCHANGED machine

(* A command fails on its way, or times out; nothing catches the           *)
(* TimeoutExpired of subprocess.run.                                       *)
Cut(o) ==
  /\ pc[o] \notin {"idle", "health"}
  /\ Mishap
  /\ Fail(o) \/ End(o, "raised")
  /\ UNCHANGED machine

Step(o) ==
  /\ \/ Stage(o) \/ StopJobs(o) \/ Term(o) \/ Wait(o) \/ Install(o)
     \/ Bootstrap(o) \/ Rebootout(o) \/ Kick(o) \/ PrintJob(o)
     \/ Unload(o) \/ Remove(o) \/ Write(o) \/ LoadAgent(o) \/ KickAgent(o)
     \/ Launch(o) \/ Verify(o) \/ HealthOk(o) \/ HealthFails(o)
  /\ UNCHANGED <<host, alone, runs>>

Next ==
  \/ Launchd
  \/ \E o \in Operators :
       \/ Start(o)
       \/ Step(o)
       \/ Cut(o) /\ UNCHANGED <<host, alone, runs>>

(* Commands have timeouts; launchd keeps what it loaded alive; a process   *)
(* told to end does.                                                       *)
Fairness ==
  /\ \A o \in Operators : WF_vars(Step(o))
  /\ WF_vars(KeepAlive)
  /\ WF_vars(Exits)

Spec == Init /\ [][Next]_vars /\ Fairness
-----------------------------------------------------------------------------
(* Properties.                                                             *)

(* Every variable holds a value of its type.                               *)
TypeOK ==
  /\ host \in Hosts
  /\ staged \in Configs \union {NoConfig}
  /\ plist \in [Domains -> Configs \union {NoConfig}]
  /\ job \in [Domains -> Configs \union {NoConfig}]
  /\ proc \in Process
  /\ pc \in [Operators -> Stages]
  /\ run \in [Operators -> Runs]
  /\ result \in [Operators -> {"none", "ok", "failed", "raised"}]
  /\ alone \in [Operators -> BOOLEAN]
  /\ clean \in BOOLEAN
  /\ runs \in 0..MaxRuns
  /\ mishaps \in 0..MaxMishaps

IsDaemon(o) == run[o].manager \in {"daemon", "setup"}

(* The last word on the service is a daemon restart or setup that reported *)
(* success, with nobody else at work and at most one thing gone wrong.     *)
Settled(o) == /\ pc[o] = "idle" /\ result[o] = "ok" /\ alone[o] /\ IsDaemon(o)
              /\ mishaps <= 1

(* A daemon restart that reports success has replaced what ran: the plist  *)
(* installed and the job loaded are those of its configuration, no agent   *)
(* competes for the port, and no older process still holds it.  The exit-5 *)
(* path accepts a job because it runs; this says it is never the old one.  *)
RestartServes ==
  \A o \in Operators : Settled(o) =>
    /\ plist["system"] = run[o].config
    /\ job = Only("system", run[o].config)
    /\ proc \in {NoProcess, By("system", run[o].config)}

(* Restarts of several operators, all reported ok, may leave either        *)
(* configuration, but the job that runs and the plist launchd will load at *)
(* the next boot are the same one: so long as bootout does what it is told.*)
InstalledIsLoaded ==
  (clean /\ mishaps = 0 /\ \A o \in Operators : pc[o] = "idle")
     => job["system"] = plist["system"]

(* The retry of a strict restart is worth having: one fault, wherever it   *)
(* strikes, is not reported as a failed restart.                           *)
RetryRecovers ==
  \A o \in Operators :
    (pc[o] = "idle" /\ run[o].strict /\ alone[o] /\ mishaps <= 1)
       => result[o] # "failed"

(* A service whose daemon was restarted comes up with the new              *)
(* configuration, and again after a crash.                                 *)
EventuallyServes ==
  \A o \in Operators :
    Settled(o) ~> (proc = By("system", run[o].config) \/ ~Settled(o))

(* README.md:154: after the bootstrap, `make restart` reinstalls and       *)
(* restarts all services: without a fault and alone, it succeeds.          *)
RestartSucceeds ==
  \A o \in Operators : (alone[o] /\ IsDaemon(o) /\ mishaps = 0) => result[o] # "failed"
=============================================================================
