------------------------ MODULE ServiceUpdateProofs ------------------------
(* Proofs about ServiceUpdate, for any operators, configurations, hosts    *)
(* and bounds.                                                             *)
EXTENDS ServiceUpdate, TLAPS

(* What the machine holds, and what a run holds.                           *)
MachineTyped ==
  /\ staged \in Configs \union {NoConfig}
  /\ plist \in [Domains -> Configs \union {NoConfig}]
  /\ job \in [Domains -> Configs \union {NoConfig}]
  /\ proc \in Process
  /\ mishaps \in 0..MaxMishaps

RunTyped ==
  /\ pc \in [Operators -> Stages]
  /\ run \in [Operators -> Runs]
  /\ result \in [Operators -> {"none", "ok", "failed", "raised"}]
  /\ clean \in BOOLEAN

LEMMA SomeConfigTyped == SomeConfig \in Configs
BY ServiceAssumption DEF SomeConfig

(* What each step may do to a run keeps its type.                          *)
LEMMA GotoTyped ==
  ASSUME RunTyped, NEW o \in Operators, NEW s \in Stages, Goto(o, s)
  PROVE  RunTyped'
BY DEF RunTyped, Goto

LEMMA EndTyped ==
  ASSUME RunTyped, NEW o \in Operators,
         NEW r \in {"ok", "failed", "raised"}, End(o, r)
  PROVE  RunTyped'
<1>1. Fresh(o) \in Runs
  BY DEF RunTyped, Fresh, Runs
<1>2. clean' \in BOOLEAN
  BY DEF End, RunTyped
<1>3. "idle" \in Stages
  BY DEF Stages
<1> QED
  BY <1>1, <1>2, <1>3 DEF RunTyped, End

LEMMA FailTyped ==
  ASSUME RunTyped, NEW o \in Operators, Fail(o)
  PROVE  RunTyped'
<1>1. CASE run[o].strict /\ ~run[o].second
  <2>1. [Fresh(o) EXCEPT !.second = TRUE] \in Runs
    BY DEF RunTyped, Fresh, Runs
  <2>2. First[run[o].manager] \in Stages
    BY DEF RunTyped, First, Runs, Managers, Stages
  <2> QED
    BY <1>1, <2>1, <2>2 DEF Fail, RunTyped
<1>2. CASE ~(run[o].strict /\ ~run[o].second)
  BY <1>2, EndTyped DEF Fail
<1> QED
  BY <1>1, <1>2

LEMMA MishapTyped ==
  ASSUME mishaps \in 0..MaxMishaps, Mishap
  PROVE  mishaps' \in 0..MaxMishaps
BY ServiceAssumption DEF Mishap

LEMMA SignalTyped ==
  ASSUME MachineTyped, NEW by, Signal(by)
  PROVE  proc' \in Process
BY DEF MachineTyped, Signal, Process

LEMMA BootoutTyped ==
  ASSUME MachineTyped, NEW domains, Bootout(domains)
  PROVE  /\ job' \in [Domains -> Configs \union {NoConfig}]
         /\ proc' \in Process
BY SignalTyped DEF MachineTyped, Bootout

LEMMA LoadTyped ==
  ASSUME MachineTyped, NEW d \in Domains, Load(d)
  PROVE  job' \in [Domains -> Configs \union {NoConfig}]
BY DEF MachineTyped, Load

LEMMA ByTyped ==
  ASSUME NEW d \in Domains \union {"none", "shell"},
         NEW c \in Configs \union {NoConfig}
  PROVE  By(d, c) \in Process
BY DEF By, Process

LEMMA KickstartTyped ==
  ASSUME MachineTyped, NEW d \in Domains, Kickstart(d)
  PROVE  proc' \in Process
<1>1. By(d, job[d]) \in Process
  BY ByTyped DEF MachineTyped
<1> QED
  BY <1>1 DEF MachineTyped, Kickstart

LEMMA NoProcessTyped == NoProcess \in Process
BY ByTyped DEF NoProcess

(* The system's own steps.                                                 *)
LEMMA LaunchdTyped ==
  ASSUME MachineTyped, Launchd
  PROVE  MachineTyped'
<1>1. ASSUME NEW d \in Domains, Spawn(d) PROVE MachineTyped'
  <2>1. By(d, job[d]) \in Process
    BY ByTyped DEF MachineTyped
  <2> QED
    BY <1>1, <2>1 DEF Spawn, MachineTyped
<1>2. CASE Die
  BY <1>2, NoProcessTyped DEF Die, MachineTyped
<1>3. CASE Crash
  BY <1>3, NoProcessTyped, MishapTyped DEF Crash, MachineTyped
<1> QED
  BY <1>1, <1>2, <1>3 DEF Launchd, KeepAlive, Exits

(* Every step of a run: first what it does to launchd and the files, then  *)
(* where the run goes.                                                     *)
LEMMA StepTyped ==
  ASSUME MachineTyped, RunTyped, NEW o \in Operators, Step(o)
  PROVE  MachineTyped' /\ RunTyped'
<1> USE DEF Domains
<1>0. run[o] \in Runs /\ run[o].config \in Configs
  BY DEF RunTyped, Runs
<1>1. CASE Stage(o)
  <2>1. MachineTyped'
    BY <1>0, <1>1 DEF Stage, MachineTyped
  <2>2. RunTyped'
    BY <1>1, GotoTyped DEF Stage, Stages
  <2> QED BY <2>1, <2>2
<1>2. CASE StopJobs(o)
  <2>1. MachineTyped'
    BY <1>2, BootoutTyped, MishapTyped DEF StopJobs, MachineTyped
  <2>2. RunTyped'
    BY <1>2, GotoTyped DEF StopJobs, Stages
  <2> QED BY <2>1, <2>2
<1>3. CASE Term(o)
  <2>1. MachineTyped'
    BY <1>3, SignalTyped DEF Term, MachineTyped
  <2>2. PICK s \in {"wait", "load", "launch"} : Goto(o, s)
    BY <1>0, <1>3 DEF Term, Runs, Managers
  <2>3. RunTyped'
    BY <2>2, GotoTyped DEF Stages
  <2> QED BY <2>1, <2>3
<1>4. CASE Wait(o)
  <2>1. MachineTyped'
    BY <1>4, NoProcessTyped DEF Wait, MachineTyped
  <2>2. RunTyped'
    BY <1>4, GotoTyped DEF Wait, Stages
  <2> QED BY <2>1, <2>2
<1>5. CASE Install(o)
  <2>1. MachineTyped'
    BY <1>0, <1>5 DEF Install, MachineTyped
  <2>2. RunTyped'
    BY <1>5, GotoTyped DEF Install, Stages
  <2> QED BY <2>1, <2>2
<1>6. CASE Bootstrap(o)
  <2>1. MachineTyped'
    BY <1>6, LoadTyped, MishapTyped DEF Bootstrap, MachineTyped
  <2>2. RunTyped'
    BY <1>6, GotoTyped, FailTyped DEF Bootstrap, Stages
  <2> QED BY <2>1, <2>2
<1>7. CASE Rebootout(o)
  <2>1. MachineTyped'
    BY <1>7, BootoutTyped, MishapTyped DEF Rebootout, MachineTyped
  <2>2. RunTyped'
    BY <1>7, GotoTyped DEF Rebootout, Stages
  <2> QED BY <2>1, <2>2
<1>8. CASE Kick(o)
  <2>1. MachineTyped'
    BY <1>8, KickstartTyped DEF Kick, MachineTyped
  <2>2. [run[o] EXCEPT !.kicked = Loaded("system")] \in Runs
    BY <1>0 DEF Runs, Loaded
  <2>3. RunTyped'
    BY <1>8, <2>2 DEF Kick, RunTyped, Stages
  <2> QED BY <2>1, <2>3
<1>9. CASE PrintJob(o)
  <2>1. MachineTyped'
    BY <1>9 DEF PrintJob, MachineTyped, machine
  <2>2. Fail(o) \/ End(o, "ok") \/ \E s \in {"kick", "verify"} : Goto(o, s)
    BY <1>9 DEF PrintJob
  <2>3. RunTyped'
    BY <2>2, GotoTyped, FailTyped, EndTyped DEF Stages
  <2> QED BY <2>1, <2>3
<1>10. CASE Unload(o)
  <2>1. MachineTyped'
    BY <1>10, BootoutTyped DEF Unload, MachineTyped
  <2>2. RunTyped'
    BY <1>10, GotoTyped DEF Unload, Stages
  <2> QED BY <2>1, <2>2
<1>11. CASE Remove(o)
  <2>1. MachineTyped'
    BY <1>11 DEF Remove, MachineTyped
  <2>2. RunTyped'
    BY <1>11, GotoTyped DEF Remove, Stages
  <2> QED BY <2>1, <2>2
<1>12. CASE Write(o)
  <2>1. MachineTyped'
    BY <1>0, <1>12 DEF Write, MachineTyped
  <2>2. RunTyped'
    BY <1>12, GotoTyped, FailTyped DEF Write, Stages
  <2> QED BY <2>1, <2>2
<1>13. CASE LoadAgent(o)
  <2>1. MachineTyped'
    BY <1>13, LoadTyped DEF LoadAgent, MachineTyped
  <2>2. RunTyped'
    BY <1>13, GotoTyped, FailTyped DEF LoadAgent, Stages
  <2> QED BY <2>1, <2>2
<1>14. CASE KickAgent(o)
  <2>1. MachineTyped'
    BY <1>14, KickstartTyped DEF KickAgent, MachineTyped
  <2>2. RunTyped'
    BY <1>14, GotoTyped, FailTyped DEF KickAgent, Stages
  <2> QED BY <2>1, <2>2
<1>15. CASE Launch(o)
  <2>1. By("shell", run[o].config) \in Process
    BY <1>0, ByTyped
  <2>2. MachineTyped'
    BY <1>15, <2>1 DEF Launch, MachineTyped
  <2>3. RunTyped'
    BY <1>15, GotoTyped DEF Launch, Stages
  <2> QED BY <2>2, <2>3
<1>16. CASE Verify(o)
  <2>1. MachineTyped'
    BY <1>16 DEF Verify, MachineTyped, machine
  <2>2. PICK d \in Domains : run' = [run EXCEPT ![o].errors = ~Loaded(d)]
    BY <1>16 DEF Verify
  <2>3. [run[o] EXCEPT !.errors = ~Loaded(d)] \in Runs
    BY <1>0 DEF Runs, Loaded
  <2>4. RunTyped'
    BY <1>16, <2>2, <2>3 DEF Verify, RunTyped, Stages
  <2> QED BY <2>1, <2>4
<1>17. CASE HealthOk(o)
  <2>1. MachineTyped'
    BY <1>17 DEF HealthOk, MachineTyped, machine
  <2>2. RunTyped'
    BY <1>17, FailTyped, EndTyped DEF HealthOk
  <2> QED BY <2>1, <2>2
<1>18. CASE HealthFails(o)
  <2>1. MachineTyped'
    BY <1>18, MishapTyped DEF HealthFails, MachineTyped, machine
  <2>2. RunTyped'
    BY <1>18, FailTyped DEF HealthFails
  <2> QED BY <2>1, <2>2
<1> QED
  BY <1>1, <1>2, <1>3, <1>4, <1>5, <1>6, <1>7, <1>8, <1>9, <1>10, <1>11,
     <1>12, <1>13, <1>14, <1>15, <1>16, <1>17, <1>18 DEF Step

(* Types are kept, whoever restarts what and whatever fails: an operator's *)
(* command (Start, Step, Cut) as well as launchd's own steps.              *)
THEOREM TypeCorrect == Spec => []TypeOK
<1>1. Init => TypeOK
  <2> SUFFICES ASSUME Init PROVE TypeOK
    OBVIOUS
  <2>1. /\ plist \in [Domains -> Configs \union {NoConfig}]
        /\ job \in [Domains -> Configs \union {NoConfig}]
    BY SomeConfigTyped DEF Init, Only
  <2>2. proc \in Process
    BY SomeConfigTyped, NoProcessTyped, ByTyped DEF Init, Domains
  <2>3. run \in [Operators -> Runs]
    BY SomeConfigTyped DEF Init, Runs, Managers
  <2>4. runs \in 0..MaxRuns /\ mishaps \in 0..MaxMishaps
    BY ServiceAssumption DEF Init
  <2>5. staged \in Configs \union {NoConfig}
    BY <2>1 DEF Init, Domains
  <2> QED
    BY <2>1, <2>2, <2>3, <2>4, <2>5 DEF Init, TypeOK, Stages
<1>2. TypeOK /\ [Next]_vars => TypeOK'
  <2> SUFFICES ASSUME TypeOK, [Next]_vars PROVE TypeOK'
    OBVIOUS
  <2>0. MachineTyped /\ RunTyped
    BY DEF TypeOK, MachineTyped, RunTyped
  <2>1. CASE Launchd
    <3>1. MachineTyped'
      BY <2>0, <2>1, LaunchdTyped
    <3>2. UNCHANGED operators
      BY <2>1 DEF Launchd, KeepAlive, Exits
    <3> QED
      BY <3>1, <3>2 DEF TypeOK, MachineTyped, operators
  <2>2. ASSUME NEW o \in Operators, Start(o) PROVE TypeOK'
    <3>1. PICK m \in Managers(host), c \in Configs, s \in BOOLEAN :
            /\ run' = [run EXCEPT ![o] =
                 [manager |-> m, config |-> c, strict |-> s, second |-> FALSE,
                  kicked |-> FALSE, errors |-> FALSE]]
            /\ pc' = [pc EXCEPT ![o] = First[m]]
      BY <2>2 DEF Start
    <3>2. m \in Managers("node")
      BY DEF Managers
    <3>3. run' \in [Operators -> Runs]
      BY <3>1, <3>2 DEF TypeOK, Runs
    <3>4. First[m] \in Stages
      BY <3>2 DEF First, Managers, Stages
    <3>5. alone' \in [Operators -> BOOLEAN]
      BY <2>2 DEF Start
    <3>6. runs' \in 0..MaxRuns
      BY <2>2, ServiceAssumption DEF Start, TypeOK
    <3> QED
      BY <2>2, <3>1, <3>3, <3>4, <3>5, <3>6 DEF Start, TypeOK, machine
  <2>3. ASSUME NEW o \in Operators, Step(o) PROVE TypeOK'
    <3>1. MachineTyped' /\ RunTyped'
      BY <2>0, <2>3, StepTyped
    <3>2. UNCHANGED <<host, alone, runs>>
      BY <2>3 DEF Step
    <3> QED
      BY <3>1, <3>2 DEF TypeOK, MachineTyped, RunTyped
  <2>4. ASSUME NEW o \in Operators, Cut(o), UNCHANGED <<host, alone, runs>>
        PROVE  TypeOK'
    <3>1. RunTyped'
      BY <2>0, <2>4, FailTyped, EndTyped DEF Cut
    <3>2. mishaps' \in 0..MaxMishaps
      BY <2>4, MishapTyped DEF Cut, TypeOK
    <3> QED
      BY <2>4, <3>1, <3>2 DEF Cut, TypeOK, RunTyped, machine
  <2>5. CASE UNCHANGED vars
    BY <2>5 DEF TypeOK, vars, machine
  <2> QED
    BY <2>1, <2>2, <2>3, <2>4, <2>5 DEF Next
<1> QED
  BY <1>1, <1>2, PTL DEF Spec
-----------------------------------------------------------------------------
(* RestartServes.                                                          *)
(*                                                                         *)
(* The invariant follows a daemon's run from its bootout on.  While it is  *)
(* alone, what is loaded in the system domain after the bootout is there   *)
(* because the bootout failed, and that was the one fault allowed: the     *)
(* second bootout works, and the branch that accepts a running job is not  *)
(* reached.                                                                *)

(* Who is alone has nobody beside him.                                     *)
Aloof(o) == alone[o] => \A p \in Operators \ {o} : pc[p] = "idle"

(* The runs RestartServes is about.                                        *)
Followed(o) == alone[o] /\ IsDaemon(o) /\ mishaps <= 1

DaemonStages == {"idle", "stage", "bootout", "term", "wait", "install",
                 "bootstrap", "rebootout", "rebootstrap", "kick", "print",
                 "verify", "health"}
Stopped   == {"term", "wait", "install", "bootstrap"}
Installed == {"bootstrap", "rebootout", "rebootstrap", "kick"}
Cleared   == Installed \union {"install"}

(* Past its kickstart.                                                     *)
Kicked(o) == \/ pc[o] \in {"print", "verify", "health"}
             \/ pc[o] = "idle" /\ result[o] = "ok"

Progress(o) ==
  /\ pc[o] \in DaemonStages
  /\ (pc[o] \in {"bootout", "term", "wait", "install"} /\ ~IsSetup(o))
       => staged = run[o].config
  /\ (pc[o] \in Installed \/ Kicked(o)) => plist["system"] = run[o].config
  /\ (pc[o] \in Stopped \union Cleared \/ Kicked(o)) => ~Loaded("agent")
  /\ pc[o] \in Cleared => proc.by \in {"none", "system"}
  /\ (pc[o] \in Stopped /\ Loaded("system")) => mishaps = 1
  /\ pc[o] \in {"rebootout", "rebootstrap"} => mishaps = 1
  /\ pc[o] = "rebootstrap" => ~Loaded("system")
  /\ pc[o] = "kick" => job["system"] = run[o].config
  /\ Kicked(o) => /\ job["system"] = run[o].config
                  /\ proc \in {NoProcess, By("system", run[o].config)}

IInv == /\ TypeOK
        /\ \A o \in Operators : Aloof(o) /\ (Followed(o) => Progress(o))

(* No step of a run changes what it is for, or takes a fault back.         *)
LEMMA RunKept ==
  ASSUME TypeOK, NEW o \in Operators, Step(o) \/ Cut(o)
  PROVE  /\ run'[o].manager = run[o].manager
         /\ run'[o].config = run[o].config
         /\ mishaps' \in {mishaps, mishaps + 1}
<1> USE DEF TypeOK, Runs
<1>1. ASSUME NEW s, Goto(o, s)
      PROVE  run' = run
  BY <1>1 DEF Goto
<1>2. ASSUME NEW r, End(o, r)
      PROVE  run'[o].manager = run[o].manager /\ run'[o].config = run[o].config
  BY <1>2 DEF End, Fresh
<1>3. ASSUME Fail(o)
      PROVE  run'[o].manager = run[o].manager /\ run'[o].config = run[o].config
  <2>1. Fresh(o) \in Runs /\ Fresh(o).manager = run[o].manager
        /\ Fresh(o).config = run[o].config
    BY DEF Fresh
  <2>2. /\ [Fresh(o) EXCEPT !.second = TRUE].manager = run[o].manager
        /\ [Fresh(o) EXCEPT !.second = TRUE].config = run[o].config
    BY <2>1
  <2>3. CASE run' = [run EXCEPT ![o] = [Fresh(o) EXCEPT !.second = TRUE]]
    <3>1. run'[o] = [Fresh(o) EXCEPT !.second = TRUE]
      BY <2>3
    <3> QED
      BY <2>2, <3>1
  <2> QED
    BY <1>3, <1>2, <2>3 DEF Fail
<1>4. ASSUME Step(o)
      PROVE  run'[o].manager = run[o].manager /\ run'[o].config = run[o].config
  <2>1. \/ \E s : Goto(o, s)
        \/ Fail(o)
        \/ End(o, "ok")
        \/ Kick(o)
        \/ Verify(o)
    BY <1>4 DEF Step, Stage, StopJobs, Term, Wait, Install, Bootstrap,
                Rebootout, PrintJob, Unload, Remove, Write, LoadAgent,
                KickAgent, Launch, HealthOk, HealthFails
  <2>2. ASSUME Kick(o)
        PROVE  run'[o].manager = run[o].manager /\ run'[o].config = run[o].config
    BY <2>2 DEF Kick
  <2>3. ASSUME Verify(o)
        PROVE  run'[o].manager = run[o].manager /\ run'[o].config = run[o].config
    BY <2>3 DEF Verify
  <2> QED
    BY <2>1, <2>2, <2>3, <1>1, <1>2, <1>3
<1>5. Step(o) => mishaps' \in {mishaps, mishaps + 1}
  BY DEF Step, Stage, StopJobs, Term, Wait, Install, Bootstrap, Rebootout, Kick,
         PrintJob, Unload, Remove, Write, LoadAgent, KickAgent, Launch, Verify,
         HealthOk, HealthFails, Mishap
<1>6. Cut(o) => mishaps' \in {mishaps, mishaps + 1}
  BY DEF Cut, Mishap
<1> QED
  BY <1>2, <1>3, <1>4, <1>5, <1>6 DEF Cut

(* Where a run may be after it failed: nothing is claimed there.           *)
LEMMA FailProgress ==
  ASSUME TypeOK, NEW o \in Operators, IsDaemon(o),
         Fail(o) \/ \E r \in {"failed", "raised"} : End(o, r)
  PROVE  Progress(o)'
<1>1. \/ pc'[o] = "stage"
      \/ pc'[o] = "idle" /\ result'[o] # "ok"
  <2>1. ASSUME NEW r \in {"failed", "raised"}, End(o, r)
        PROVE  pc'[o] = "idle" /\ result'[o] # "ok"
    BY <2>1 DEF End, TypeOK
  <2>2. CASE Fail(o) /\ run[o].strict /\ ~run[o].second
    <3>1. First[run[o].manager] = "stage"
      BY DEF IsDaemon, First
    <3> QED
      BY <2>2, <3>1 DEF Fail, TypeOK
  <2> QED
    BY <2>1, <2>2 DEF Fail
<1> QED
  BY <1>1 DEF Progress, Kicked, DaemonStages, Stopped, Installed, Cleared

(* launchd starts what is loaded, and that is the new job where it matters.*)
LEMMA LaunchdProgress ==
  ASSUME TypeOK, NEW o \in Operators, Followed(o) => Progress(o), Launchd
  PROVE  (Followed(o) => Progress(o))'
<1>1. UNCHANGED <<pc, run, result, alone, staged, plist, job>>
  BY DEF Launchd, KeepAlive, Exits, Spawn, Die, Crash, operators
<1>2. mishaps' \in {mishaps, mishaps + 1}
  BY DEF Launchd, KeepAlive, Exits, Spawn, Die, Crash, Mishap
<1> SUFFICES ASSUME Followed(o)' PROVE Progress(o)'
  OBVIOUS
<1>3. mishaps \in Nat /\ (mishaps' = mishaps \/ (mishaps = 0 /\ mishaps' = 1))
  BY <1>2, ServiceAssumption DEF TypeOK, Followed
<1>4. Progress(o)
  BY <1>1, <1>3 DEF Followed, IsDaemon
<1>5. \/ proc' = NoProcess
      \/ \E d \in Domains : Loaded(d) /\ proc' = By(d, job[d])
  BY DEF Launchd, KeepAlive, Exits, Spawn, Die, Crash
<1>6. pc[o] \in Cleared => proc'.by \in {"none", "system"}
  BY <1>4, <1>5 DEF Progress, Domains, By, NoProcess, Cleared, Installed
<1>7. Kicked(o) => proc' \in {NoProcess, By("system", run[o].config)}
  BY <1>4, <1>5 DEF Progress, Domains, Loaded
<1> QED
  BY <1>1, <1>3, <1>4, <1>6, <1>7 DEF Progress, Loaded, Kicked, IsSetup

(* One step of the run.                                                    *)
LEMMA StepProgress ==
  ASSUME TypeOK, NEW o \in Operators, Followed(o) => Progress(o), Step(o)
  PROVE  (Followed(o) => Progress(o))'
<1> SUFFICES ASSUME Followed(o)' PROVE Progress(o)'
  OBVIOUS
<1>0. /\ run'[o].manager = run[o].manager
      /\ run'[o].config = run[o].config
      /\ mishaps' \in {mishaps, mishaps + 1}
  BY RunKept
<1>a. mishaps \in Nat /\ (mishaps' = mishaps \/ (mishaps = 0 /\ mishaps' = 1))
  BY <1>0, ServiceAssumption DEF TypeOK, Followed
<1>b. Followed(o) /\ Progress(o)
  BY <1>0, <1>a DEF Followed, IsDaemon, Step
<1>c. IsDaemon(o) /\ (IsSetup(o)' <=> IsSetup(o))
  BY <1>0, <1>b DEF Followed, IsSetup
<1>d. pc[o] \in DaemonStages
  BY <1>b DEF Progress
<1>e. /\ plist \in [Domains -> Configs \union {NoConfig}]
      /\ job \in [Domains -> Configs \union {NoConfig}]
      /\ pc \in [Operators -> Stages]
      /\ "system" \in Domains /\ "agent" \in Domains
  BY DEF TypeOK, Domains
<1> USE DEF Loaded
<1>1. CASE Stage(o)
  <2>1. pc'[o] = "bootout" /\ (~IsSetup(o) => staged' = run[o].config)
    BY <1>1, <1>e DEF Stage, Goto
  <2> QED
    BY <2>1, <1>0, <1>c DEF Progress, Kicked, DaemonStages, Stopped, Installed, Cleared
<1>2. CASE StopJobs(o)
  <2>1. pc'[o] = "term" /\ staged' = staged
    BY <1>2, <1>e DEF StopJobs, Goto
  <2>2. job'["agent"] = NoConfig
    BY <1>2, <1>e DEF StopJobs, Bootout
  <2>3. job'["system"] # NoConfig => mishaps' = 1
    BY <1>2, <1>a, <1>e DEF StopJobs, Bootout, Mishap
  <2>4. ~IsSetup(o) => staged = run[o].config
    BY <1>2, <1>b DEF StopJobs, Progress
  <2> QED
    BY <2>1, <2>2, <2>3, <2>4, <1>0, <1>c
       DEF Progress, Kicked, DaemonStages, Stopped, Installed, Cleared
<1>3. CASE Term(o)
  <2>1. pc'[o] = "wait"
    BY <1>3, <1>c, <1>e DEF Term, Goto, IsDaemon
  <2>2. UNCHANGED <<staged, plist, job, mishaps>>
    BY <1>3 DEF Term
  <2> QED
    BY <2>1, <2>2, <1>0, <1>b, <1>c, <1>3
       DEF Term, Progress, Kicked, DaemonStages, Stopped, Installed, Cleared
<1>4. CASE Wait(o)
  <2>1. pc'[o] = "install" /\ proc'.by = "none"
    BY <1>4, <1>e DEF Wait, Goto, NoProcess, By
  <2>2. UNCHANGED <<staged, plist, job, mishaps>>
    BY <1>4 DEF Wait
  <2> QED
    BY <2>1, <2>2, <1>0, <1>b, <1>c, <1>4
       DEF Wait, Progress, Kicked, DaemonStages, Stopped, Installed, Cleared
<1>5. CASE Install(o)
  <2>1. pc'[o] = "bootstrap" /\ UNCHANGED <<job, proc, mishaps>>
    BY <1>5, <1>e DEF Install, Goto
  <2>2. plist'["system"] = run[o].config
    BY <1>5, <1>b, <1>e DEF Install, Progress
  <2> QED
    BY <2>1, <2>2, <1>0, <1>b, <1>5
       DEF Install, Progress, Kicked, DaemonStages, Stopped, Installed, Cleared
<1>6. CASE Bootstrap(o)
  <2>0. UNCHANGED <<plist, proc>>
    BY <1>6 DEF Bootstrap
  <2>1. CASE Fail(o)
    BY <2>1, <1>c, FailProgress
  <2>2. CASE ~Loaded("system") /\ Load("system") /\ Goto(o, "kick")
    <3>1. pc'[o] = "kick" /\ job'["system"] = plist["system"] /\ job'["agent"] = job["agent"]
      BY <2>2, <1>e DEF Goto, Load, Domains
    <3> QED
      BY <3>1, <2>0, <1>0, <1>b, <1>6
         DEF Bootstrap, Progress, Kicked, DaemonStages, Stopped, Installed, Cleared
  <2>3. CASE /\ IF Loaded("system") THEN UNCHANGED mishaps ELSE Mishap
             /\ Goto(o, IF pc[o] = "bootstrap" THEN "rebootout" ELSE "kick5")
             /\ UNCHANGED job
    <3>1. pc[o] = "bootstrap"
      BY <2>3, <1>6, <1>a, <1>b DEF Bootstrap, Progress, Mishap
    <3>2. pc'[o] = "rebootout"
      BY <2>3, <3>1, <1>e DEF Goto
    <3>3. mishaps' = 1
      BY <2>3, <3>1, <1>a, <1>b DEF Progress, Mishap, Stopped
    <3> QED
      BY <2>0, <2>3, <3>1, <3>2, <3>3, <1>0, <1>b
         DEF Progress, Kicked, DaemonStages, Stopped, Installed, Cleared
  <2> QED
    BY <1>6, <2>1, <2>2, <2>3 DEF Bootstrap
<1>7. CASE Rebootout(o)
  <2>1. mishaps = 1
    BY <1>7, <1>b DEF Rebootout, Progress
  <2>2. Bootout({"system"}) /\ UNCHANGED mishaps
    BY <2>1, <1>7, <1>a DEF Rebootout, Mishap
  <2>3. pc'[o] = "rebootstrap" /\ UNCHANGED plist
    BY <1>7, <1>e DEF Rebootout, Goto
  <2>4. job'["system"] = NoConfig /\ job'["agent"] = job["agent"]
    BY <2>2, <1>e DEF Bootout, Domains
  <2>5. proc'.by = proc.by
    BY <2>2 DEF Bootout, Signal, TypeOK, Process
  <2> QED
    BY <2>1, <2>2, <2>3, <2>4, <2>5, <1>0, <1>b, <1>7
       DEF Rebootout, Progress, Kicked, DaemonStages, Stopped, Installed, Cleared
<1>8. CASE Kick(o)
  <2>1. pc[o] = "kick"
    BY <1>8, <1>d DEF Kick, DaemonStages
  <2>2. pc'[o] = "print" /\ UNCHANGED <<plist, job>>
    BY <1>8, <2>1, <1>e DEF Kick
  <2>3. job["system"] = run[o].config /\ run[o].config # NoConfig
    BY <2>1, <1>b, ServiceAssumption DEF Progress, TypeOK, Runs
  <2>4. proc' = By("system", run[o].config)
    BY <1>8, <2>1, <2>3, <1>b
       DEF Kick, Kickstart, Progress, Cleared, Installed
  <2> QED
    BY <2>1, <2>2, <2>3, <2>4, <1>0, <1>b
       DEF Progress, Kicked, DaemonStages, Stopped, Installed, Cleared
<1>9. CASE PrintJob(o)
  <2>1. pc[o] = "print" /\ UNCHANGED <<plist, job, proc>>
    BY <1>9, <1>d DEF PrintJob, DaemonStages, machine
  <2>2. Fail(o) \/ End(o, "ok") \/ Goto(o, "verify")
    BY <1>9, <2>1 DEF PrintJob
  <2>3. ASSUME End(o, "ok") \/ Goto(o, "verify")
        PROVE  Kicked(o)' /\ pc'[o] \in {"verify", "idle"}
    BY <2>3, <1>e DEF End, Goto, Kicked, TypeOK
  <2>4. Kicked(o)
    BY <2>1 DEF Kicked
  <2> QED
    BY <2>1, <2>2, <2>3, <2>4, <1>0, <1>b, <1>c, FailProgress
       DEF Progress, DaemonStages, Stopped, Installed, Cleared
<1>10. CASE Verify(o)
  <2>1. pc[o] = "verify" /\ pc'[o] = "health" /\ UNCHANGED <<plist, job, proc>>
    BY <1>10, <1>e DEF Verify, machine
  <2> QED
    BY <2>1, <1>0, <1>b
       DEF Progress, Kicked, DaemonStages, Stopped, Installed, Cleared
<1>11. CASE HealthOk(o)
  <2>1. pc[o] = "health" /\ UNCHANGED <<plist, job, proc>>
    BY <1>11 DEF HealthOk, machine
  <2>2. Fail(o) \/ End(o, "ok")
    BY <1>11 DEF HealthOk
  <2>3. ASSUME End(o, "ok")
        PROVE  Kicked(o)' /\ pc'[o] = "idle"
    BY <2>3, <1>e DEF End, Kicked, TypeOK
  <2>4. Kicked(o)
    BY <2>1 DEF Kicked
  <2> QED
    BY <2>1, <2>2, <2>3, <2>4, <1>0, <1>b, <1>c, FailProgress
       DEF Progress, DaemonStages, Stopped, Installed, Cleared
<1>12. CASE HealthFails(o)
  BY <1>12, <1>c, FailProgress DEF HealthFails
<1>13. CASE \/ Unload(o) \/ Remove(o) \/ Write(o) \/ LoadAgent(o)
            \/ KickAgent(o) \/ Launch(o)
  BY <1>13, <1>d DEF Unload, Remove, Write, LoadAgent, KickAgent, Launch, DaemonStages
<1> QED
  BY <1>1, <1>2, <1>3, <1>4, <1>5, <1>6, <1>7, <1>8, <1>9, <1>10, <1>11,
     <1>12, <1>13 DEF Step

LEMMA IInvHolds == Spec => []IInv
<1>1. Init => \A o \in Operators : Aloof(o) /\ (Followed(o) => Progress(o))
  BY DEF Init, Aloof, Followed
<1>2. IInv /\ [Next]_vars => (\A o \in Operators : Aloof(o) /\ (Followed(o) => Progress(o)))'
  <2> SUFFICES ASSUME IInv, [Next]_vars, NEW o \in Operators
               PROVE  Aloof(o)' /\ (Followed(o) => Progress(o))'
    OBVIOUS
  <2>0. TypeOK /\ Aloof(o) /\ (Followed(o) => Progress(o))
    BY DEF IInv
  <2>1. CASE Launchd
    <3>1. Aloof(o)'
      BY <2>0, <2>1 DEF Launchd, KeepAlive, Exits, operators, Aloof
    <3> QED
      BY <3>1, <2>0, <2>1, LaunchdProgress
  <2>2. ASSUME NEW p \in Operators, Start(p)
        PROVE  Aloof(o)' /\ (Followed(o) => Progress(o))'
    <3>1. CASE p = o
      <4>1. alone'[o] => \A q \in Operators : pc[q] = "idle"
        BY <2>2, <3>1 DEF Start
      <4>2. \A q \in Operators \ {o} : pc'[q] = pc[q]
        BY <2>2, <3>1, <2>0 DEF Start, TypeOK
      <4>3. PICK m \in Managers(host), c \in Configs, s \in BOOLEAN :
              /\ run' = [run EXCEPT ![o] =
                   [manager |-> m, config |-> c, strict |-> s, second |-> FALSE,
                    kicked |-> FALSE, errors |-> FALSE]]
              /\ pc' = [pc EXCEPT ![o] = First[m]]
        BY <2>2, <3>1 DEF Start
      <4>4. IsDaemon(o)' => pc'[o] = "stage"
        BY <4>3, <2>0 DEF IsDaemon, First, TypeOK
      <4> QED
        BY <4>1, <4>2, <4>4
           DEF Aloof, Followed, Progress, Kicked, DaemonStages, Stopped, Installed, Cleared
    <3>2. CASE p # o
      BY <2>2, <3>2 DEF Start, Aloof, Followed
    <3> QED
      BY <3>1, <3>2
  <2>3. ASSUME NEW p \in Operators, Step(p) \/ Cut(p), UNCHANGED <<host, alone, runs>>
        PROVE  Aloof(o)' /\ (Followed(o) => Progress(o))'
    <3>1. pc[p] # "idle"
      BY <2>3 DEF Step, Cut, Stage, StopJobs, Term, Wait, Install, Bootstrap,
                  Rebootout, Kick, PrintJob, Unload, Remove, Write, LoadAgent,
                  KickAgent, Launch, Verify, HealthOk, HealthFails
    <3>2. CASE p # o
      BY <2>0, <2>3, <3>1, <3>2 DEF Aloof, Followed
    <3>3. CASE p = o
      <4>1. \A q \in Operators \ {o} : pc'[q] = pc[q]
        BY <2>0, <2>3, <3>3
           DEF Step, Cut, Stage, StopJobs, Term, Wait, Install, Bootstrap,
               Rebootout, Kick, PrintJob, Unload, Remove, Write, LoadAgent,
               KickAgent, Launch, Verify, HealthOk, HealthFails, Goto, Fail, End,
               TypeOK
      <4>2. Aloof(o)'
        BY <4>1, <2>0, <2>3 DEF Aloof
      <4>3. CASE Step(o)
        BY <4>2, <4>3, <2>0, StepProgress
      <4>4. CASE Cut(o)
        <5>1. Followed(o)' => IsDaemon(o)
          BY <4>4, <2>0, RunKept DEF Followed, IsDaemon
        <5> QED
          BY <4>2, <4>4, <5>1, <2>0, FailProgress DEF Cut
      <4> QED
        BY <2>3, <3>3, <4>3, <4>4
    <3> QED
      BY <3>2, <3>3
  <2>4. CASE UNCHANGED vars
    BY <2>0, <2>4 DEF vars, machine, Aloof, Followed, IsDaemon, IsSetup, Progress,
                      Kicked, Loaded
  <2> QED
    BY <2>1, <2>2, <2>3, <2>4 DEF Next, Step
<1> QED
  BY <1>1, <1>2, TypeCorrect, PTL DEF Spec, IInv

(* A daemon restart or setup that reports success has replaced what ran,   *)
(* for any configurations and faults, if it was alone and at most one      *)
(* thing went wrong.                                                       *)
THEOREM SuccessMeansReplaced == Spec => []RestartServes
<1>1. IInv => RestartServes
  <2> SUFFICES ASSUME IInv, NEW o \in Operators, Settled(o)
               PROVE  /\ plist["system"] = run[o].config
                      /\ job = Only("system", run[o].config)
                      /\ proc \in {NoProcess, By("system", run[o].config)}
    BY DEF RestartServes
  <2>1. Progress(o) /\ Kicked(o)
    BY DEF IInv, Settled, Followed, Kicked
  <2>2. job \in [Domains -> Configs \union {NoConfig}]
    BY DEF IInv, TypeOK
  <2>3. job = Only("system", run[o].config)
    BY <2>1, <2>2 DEF Progress, Only, Domains, Loaded
  <2> QED
    BY <2>1, <2>3 DEF Progress
<1> QED
  BY <1>1, IInvHolds, PTL
-----------------------------------------------------------------------------
(* How a step of a run moves it: on to another stage, to its end, or to    *)
(* its failure; the kickstart and the verification note what they found.   *)
LEMMA StepMoves ==
  ASSUME TypeOK, NEW o \in Operators, Step(o) \/ Cut(o)
  PROVE  \/ \E s \in Stages \ {"print", "stage", "bootout"} : Goto(o, s)
         \/ Stage(o)
         \/ Fail(o)
         \/ \E r \in {"ok", "raised"} : End(o, r)
         \/ Kick(o)
         \/ Verify(o)
<1> USE DEF Stages
<1>0. run[o].manager \in {"daemon", "setup", "agent", "process"}
  BY DEF TypeOK, Runs, Managers
<1>1. CASE Cut(o)
  BY <1>1 DEF Cut
<1>2. CASE StopJobs(o) \/ Wait(o) \/ Install(o) \/ Rebootout(o)
           \/ Unload(o) \/ Remove(o) \/ Launch(o)
  BY <1>2 DEF StopJobs, Wait, Install, Rebootout, Unload, Remove, Launch
<1>3. CASE Term(o)
  BY <1>0, <1>3 DEF Term
<1>4. CASE Bootstrap(o) \/ PrintJob(o) \/ Write(o) \/ LoadAgent(o) \/ KickAgent(o)
  BY <1>4 DEF Bootstrap, PrintJob, Write, LoadAgent, KickAgent
<1>5. CASE Kick(o) \/ Verify(o) \/ HealthOk(o) \/ HealthFails(o)
  BY <1>5 DEF HealthOk, HealthFails
<1> QED BY <1>1, <1>2, <1>3, <1>4, <1>5 DEF Step

(* Strict restarts are of the daemons of nodes; who stages or unloads the  *)
(* daemon's job is a daemon's run.                                         *)
Plain(o) ==
  /\ run[o].strict => run[o].manager = "daemon" /\ host = "node"
  /\ pc[o] \in {"stage", "bootout"} => IsDaemon(o)

LEMMA RestartKept ==
  ASSUME TypeOK, NEW o \in Operators, Fail(o)
  PROVE  \/ /\ run[o].strict /\ ~run[o].second
            /\ run'[o].strict = run[o].strict /\ run'[o].second
            /\ ~run'[o].errors
            /\ run'[o].manager = run[o].manager
            /\ pc'[o] = First[run[o].manager]
            /\ UNCHANGED <<result, clean>>
         \/ End(o, "failed") /\ ~(run[o].strict /\ ~run[o].second)
<1>1. CASE run[o].strict /\ ~run[o].second
  <2> DEFINE f == Fresh(o)
  <2>1. f \in Runs /\ f.strict = run[o].strict /\ f.manager = run[o].manager
        /\ ~f.errors
    BY DEF Fresh, TypeOK, Runs
  <2> HIDE DEF f
  <2>2. /\ run' = [run EXCEPT ![o] = [f EXCEPT !.second = TRUE]]
        /\ pc' = [pc EXCEPT ![o] = First[run[o].manager]]
        /\ UNCHANGED <<result, clean>>
    BY <1>1 DEF Fail, f
  <2>3. run'[o] = [f EXCEPT !.second = TRUE]
    BY <2>2 DEF TypeOK
  <2>4. /\ run'[o].strict = f.strict /\ run'[o].second
        /\ run'[o].manager = f.manager /\ run'[o].errors = f.errors
    BY <2>1, <2>3 DEF Runs
  <2>5. pc'[o] = First[run[o].manager]
    BY <2>2 DEF TypeOK
  <2> QED BY <1>1, <2>1, <2>2, <2>4, <2>5
<1>2. CASE ~(run[o].strict /\ ~run[o].second)
  BY <1>2 DEF Fail
<1> QED BY <1>1, <1>2

LEMMA EndKept ==
  ASSUME TypeOK, NEW o \in Operators, NEW r, End(o, r)
  PROVE  /\ run'[o].strict = run[o].strict
         /\ run'[o].manager = run[o].manager
         /\ ~run'[o].second /\ ~run'[o].errors
         /\ pc'[o] = "idle" /\ result'[o] = r
BY DEF End, Fresh, TypeOK, Runs

(* Kickstart and verification change nothing else of a run.                *)
LEMMA NoteKept ==
  ASSUME TypeOK, NEW o \in Operators, Kick(o) \/ Verify(o)
  PROVE  /\ run'[o].strict = run[o].strict
         /\ run'[o].manager = run[o].manager
         /\ run'[o].second = run[o].second
         /\ Kick(o) => run'[o].kicked = Loaded("system") /\ run'[o].errors = run[o].errors
         /\ pc'[o] \notin {"stage", "bootout"}
         /\ UNCHANGED <<result, mishaps>>
BY DEF Kick, Verify, TypeOK, Runs

LEMMA PlainStep ==
  ASSUME TypeOK, NEW o \in Operators, Plain(o), Step(o) \/ Cut(o), host' = host
  PROVE  Plain(o)'
<1>0. IsDaemon(o)' <=> IsDaemon(o)
  BY RunKept DEF IsDaemon
<1>1. ASSUME NEW s, Goto(o, s) PROVE run' = run /\ pc'[o] = s
  BY <1>1 DEF Goto, TypeOK
<1>2. CASE Fail(o)
  <2>1. First[run[o].manager] = "stage" => IsDaemon(o)
    BY DEF First, IsDaemon, TypeOK, Runs, Managers
  <2>2. First[run[o].manager] # "bootout"
    BY DEF First, TypeOK, Runs, Managers
  <2> QED BY <1>0, <1>2, <2>1, <2>2, RestartKept, EndKept DEF Plain
<1>3. CASE \E r \in {"ok", "raised"} : End(o, r)
  BY <1>3, EndKept DEF Plain
<1>4. CASE Kick(o) \/ Verify(o)
  BY <1>4, NoteKept DEF Plain
<1>5. CASE \E s \in Stages \ {"print", "stage", "bootout"} : Goto(o, s)
  BY <1>0, <1>1, <1>5 DEF Plain
<1>6. CASE Stage(o)
  <2>1. pc[o] = "stage" /\ Goto(o, "bootout")
    BY <1>6 DEF Stage
  <2> QED BY <1>0, <1>1, <2>1 DEF Plain
<1> QED BY <1>2, <1>3, <1>4, <1>5, <1>6, StepMoves
-----------------------------------------------------------------------------
(* A strict restart that is alone and has met one fault at most.           *)
Retrying(o) == alone[o] /\ run[o].strict /\ mishaps <= 1

Retry(o) ==
  /\ result[o] # "failed"
  /\ run[o].second => mishaps = 1
  /\ ~run[o].errors
  /\ pc[o] = "print" => run[o].kicked

(* Such a run fails where something goes wrong, and nowhere else.          *)
LEMMA FailsByFault ==
  ASSUME TypeOK, NEW o \in Operators, Plain(o), Retrying(o), Retry(o), Progress(o),
         Step(o) \/ Cut(o)
  PROVE  \/ \E s \in Stages \ {"print", "stage", "bootout"} : Goto(o, s)
         \/ Stage(o)
         \/ Fail(o) /\ Mishap
         \/ \E r \in {"ok", "raised"} : End(o, r)
         \/ Kick(o)
         \/ Verify(o)
<1>1. CASE Cut(o)
  BY <1>1 DEF Cut
<1>2. pc[o] \in DaemonStages /\ ~IsSetup(o) /\ Parses(o) /\ "system" \in Domains
  BY DEF Progress, Plain, Retrying, Parses, IsSetup, Domains
<1>3. Kicked(o) => Loaded("system")
  BY ServiceAssumption DEF Progress, Loaded, TypeOK, Runs
<1>4. CASE Bootstrap(o)
  BY <1>2, <1>4 DEF Bootstrap, Stages
<1>5. CASE PrintJob(o)
  <2>1. pc[o] = "print"
    BY <1>2, <1>5 DEF PrintJob, DaemonStages
  <2>2. Accepted(o)
    BY <2>1, <1>3 DEF Accepted, Kicked, Retry
  <2> QED BY <1>5, <2>1, <2>2 DEF PrintJob, Stages
<1>6. CASE HealthOk(o)
  BY <1>6 DEF HealthOk, Retry
<1>7. CASE HealthFails(o)
  <2>1. Loaded("system")
    BY <1>3, <1>7 DEF HealthFails, Kicked
  <2> QED BY <1>2, <1>7, <2>1 DEF HealthFails
<1>8. CASE Write(o) \/ LoadAgent(o) \/ KickAgent(o) \/ Unload(o) \/ Remove(o) \/ Launch(o)
  BY <1>2, <1>8 DEF Write, LoadAgent, KickAgent, Unload, Remove, Launch, DaemonStages
<1>9. CASE Term(o)
  <2>1. Goto(o, "wait")
    BY <1>9 DEF Term, Plain, Retrying
  <2> QED BY <2>1 DEF Stages
<1>10. CASE StopJobs(o) \/ Wait(o) \/ Install(o) \/ Rebootout(o)
  BY <1>10 DEF StopJobs, Wait, Install, Rebootout, Stages
<1> QED BY <1>1, <1>4, <1>5, <1>6, <1>7, <1>8, <1>9, <1>10 DEF Step

LEMMA RetryStep ==
  ASSUME TypeOK, NEW o \in Operators, Plain(o), Retrying(o) => Retry(o),
         Followed(o) => Progress(o), Step(o) \/ Cut(o), alone' = alone
  PROVE  (Retrying(o) => Retry(o))'
<1> SUFFICES ASSUME Retrying(o)' PROVE Retry(o)'
  OBVIOUS
<1>1. run'[o].strict => run[o].strict
  BY StepMoves, RestartKept, EndKept, NoteKept DEF Goto, Stage
<1>2. mishaps \in Nat /\ (mishaps' = mishaps \/ (mishaps = 0 /\ mishaps' = 1))
  BY RunKept, ServiceAssumption DEF TypeOK, Retrying
<1>3. Retrying(o) /\ Retry(o) /\ IsDaemon(o)
  BY <1>1, <1>2 DEF Retrying, Plain, IsDaemon
<1>4. Progress(o)
  BY <1>3 DEF Followed, Retrying
<1>5. ASSUME NEW s, s # "print", Goto(o, s) PROVE Retry(o)'
  <2>1. pc'[o] = s /\ run' = run /\ result' = result
    BY <1>5 DEF Goto, TypeOK
  <2> QED BY <2>1, <1>2, <1>3, <1>5 DEF Retry
<1>6. CASE Fail(o) /\ Mishap
  <2>1. mishaps = 0 /\ mishaps' = 1
    BY <1>2, <1>6 DEF Mishap
  <2>2. ~run[o].second
    BY <1>3, <2>1 DEF Retry
  <2>3. pc'[o] # "print"
    BY <1>3, <1>6, <2>2, RestartKept DEF First, Plain, Retrying
  <2> QED BY <1>3, <1>6, <2>1, <2>2, <2>3, RestartKept DEF Retry, Retrying
<1>7. CASE \E r \in {"ok", "raised"} : End(o, r)
  BY <1>7, EndKept DEF Retry
<1>8. CASE Kick(o)
  <2>1. pc[o] = "kick" /\ Loaded("system")
    BY <1>4, <1>8, ServiceAssumption DEF Kick, Progress, DaemonStages, Loaded, TypeOK, Runs
  <2> QED BY <1>3, <1>8, <2>1, NoteKept DEF Retry
<1>9. CASE Verify(o)
  <2>1. pc[o] = "verify" /\ pc'[o] = "health" /\ Loaded("system")
    BY <1>4, <1>9, ServiceAssumption
       DEF Verify, Progress, Kicked, Loaded, TypeOK, Runs
  <2>2. ~run'[o].errors
    BY <1>3, <1>9, <2>1 DEF Verify, Plain, Retrying, TypeOK, Runs
  <2> QED BY <1>3, <1>9, <2>1, <2>2, NoteKept DEF Retry
<1>10. CASE Stage(o)
  BY <1>5, <1>10 DEF Stage
<1> QED BY <1>3, <1>4, <1>5, <1>6, <1>7, <1>8, <1>9, <1>10, FailsByFault

RInv == IInv /\ \A o \in Operators : Plain(o) /\ (Retrying(o) => Retry(o))

(* A step of one operator's run leaves the others where they are.          *)
LEMMA OthersKept ==
  ASSUME TypeOK, NEW p \in Operators, Start(p) \/ Step(p) \/ Cut(p),
         NEW o \in Operators \ {p}
  PROVE  pc'[o] = pc[o] /\ run'[o] = run[o] /\ result'[o] = result[o]
BY StepMoves DEF Start, Goto, Stage, Fail, End, Kick, Verify, TypeOK

LEMMA StartPlain ==
  ASSUME TypeOK, NEW o \in Operators, Start(o)
  PROVE  Plain(o)' /\ Retry(o)'
<1>1. PICK m \in Managers(host), c \in Configs, s \in BOOLEAN :
        /\ s => m = "daemon" /\ host = "node"
        /\ run' = [run EXCEPT ![o] =
             [manager |-> m, config |-> c, strict |-> s, second |-> FALSE,
              kicked |-> FALSE, errors |-> FALSE]]
        /\ pc' = [pc EXCEPT ![o] = First[m]]
  BY DEF Start
<1>2. /\ run'[o].strict = s /\ run'[o].manager = m /\ ~run'[o].second
      /\ ~run'[o].errors /\ pc'[o] = First[m]
  BY <1>1 DEF TypeOK
<1>3. m \in {"daemon", "setup", "agent", "process"}
  BY DEF Managers
<1>4. First[m] # "print" /\ First[m] # "bootout"
      /\ (First[m] = "stage" => m \in {"daemon", "setup"})
  BY <1>3 DEF First
<1>5. result'[o] = "none" /\ host' = host
  BY DEF Start, TypeOK
<1> QED BY <1>1, <1>2, <1>4, <1>5 DEF Plain, Retry, IsDaemon

LEMMA RInvHolds == Spec => []RInv
<1> DEFINE Inv == \A o \in Operators : Plain(o) /\ (Retrying(o) => Retry(o))
<1>1. Init => Inv
  <2> SUFFICES ASSUME Init, NEW o \in Operators
               PROVE  Plain(o) /\ (Retrying(o) => Retry(o))
    OBVIOUS
  <2>1. ~run[o].strict /\ pc[o] = "idle"
    BY DEF Init
  <2> QED BY <2>1 DEF Plain, Retrying
<1>2. IInv /\ IInv' /\ Inv /\ [Next]_vars => Inv'
  <2> SUFFICES ASSUME IInv, Inv, [Next]_vars, NEW o \in Operators
               PROVE  Plain(o)' /\ (Retrying(o) => Retry(o))'
    OBVIOUS
  <2>0. /\ TypeOK /\ Plain(o) /\ (Retrying(o) => Retry(o))
        /\ (Followed(o) => Progress(o))
    BY DEF IInv
  <2>1. CASE Launchd
    <3>1. UNCHANGED <<host, pc, run, result, alone>>
      BY <2>1 DEF Launchd, KeepAlive, Exits, operators
    <3>2. mishaps' \in {mishaps, mishaps + 1}
      BY <2>1 DEF Launchd, KeepAlive, Exits, Spawn, Die, Crash, Mishap
    <3> QED BY <2>0, <3>1, <3>2, ServiceAssumption
            DEF Plain, Retrying, Retry, IsDaemon, TypeOK
  <2>2. ASSUME NEW p \in Operators,
               Start(p) \/ ((Step(p) \/ Cut(p)) /\ UNCHANGED <<host, alone, runs>>)
        PROVE  Plain(o)' /\ (Retrying(o) => Retry(o))'
    <3>1. host' = host
      BY <2>2 DEF Start
    <3>2. CASE p = o
      BY <2>0, <2>2, <3>1, <3>2, StartPlain, PlainStep, RetryStep
    <3>3. CASE p # o
      <4>1. pc'[o] = pc[o] /\ run'[o] = run[o] /\ result'[o] = result[o]
        BY <2>0, <2>2, <3>3, OthersKept
      <4>2. Plain(o)'
        BY <2>0, <3>1, <4>1 DEF Plain, IsDaemon
      <4>3. ASSUME Retrying(o)' PROVE mishaps' = mishaps /\ Retrying(o)
        <5>1. alone'[o]
          BY <4>3 DEF Retrying
        <5>2. ~Start(p)
          BY <3>3, <5>1 DEF Start
        <5>3. alone[o] /\ pc[p] = "idle"
          BY <2>2, <3>3, <5>1, <5>2 DEF IInv, Aloof
        <5>4. pc[p] # "idle"
          BY <2>2, <5>2
             DEF Step, Cut, Stage, StopJobs, Term, Wait, Install, Bootstrap,
                 Rebootout, Kick, PrintJob, Unload, Remove, Write, LoadAgent,
                 KickAgent, Launch, Verify, HealthOk, HealthFails
        <5> QED BY <5>3, <5>4
      <4> QED BY <2>0, <4>1, <4>2, <4>3 DEF Retry
    <3> QED BY <3>2, <3>3
  <2>3. CASE UNCHANGED vars
    BY <2>0, <2>3 DEF vars, machine, Plain, Retrying, Retry, IsDaemon
  <2> QED BY <2>1, <2>2, <2>3 DEF Next, Step
<1> QED BY <1>1, <1>2, IInvHolds, PTL DEF Spec, RInv

(* A strict restart that is alone reports a failure only after a second    *)
(* fault: the first is met by its retry, whatever command it struck.       *)
THEOREM OneFaultIsRepaired == Spec => []RetryRecovers
<1>1. RInv => RetryRecovers
  BY DEF RInv, Retrying, Retry, RetryRecovers
<1> QED BY <1>1, RInvHolds, PTL
-----------------------------------------------------------------------------
(* Between runs of several operators: either the job is the installed one, *)
(* or somebody who has yet to look at it will replace it, or there is none *)
(* and somebody will load the installed one.                               *)
Examines(o) == pc[o] \in {"bootstrap", "rebootout"}
Comes(o)    == \/ pc[o] \in {"wait", "install", "rebootstrap"}
               \/ pc[o] = "term" /\ IsDaemon(o)

Consistent ==
  \/ job["system"] = plist["system"]
  \/ \E o \in Operators : Examines(o)
  \/ job["system"] = NoConfig /\ \E o \in Operators : Comes(o)

LEMMA ConsistentStep ==
  ASSUME TypeOK, NEW p \in Operators, Plain(p), Step(p), host' = host, Consistent,
         clean', mishaps' = 0
  PROVE  Consistent'
<1>0. /\ plist \in [Domains -> Configs \union {NoConfig}]
      /\ job \in [Domains -> Configs \union {NoConfig}]
      /\ "system" \in Domains /\ "agent" \in Domains
      /\ pc \in [Operators -> Stages]
  BY DEF TypeOK, Domains
<1>1. \A o \in Operators \ {p} : pc'[o] = pc[o] /\ run'[o] = run[o]
  BY OthersKept
<1>2. \A o \in Operators \ {p} :
        (Examines(o)' <=> Examines(o)) /\ (Comes(o)' <=> Comes(o))
  BY <1>1 DEF Examines, Comes, IsDaemon
<1>3. mishaps = 0
  BY RunKept, ServiceAssumption DEF TypeOK
<1>4. ASSUME job'["system"] = job["system"], plist'["system"] = plist["system"],
             ~Examines(p), Comes(p) => Comes(p)'
      PROVE  Consistent'
  BY <1>2, <1>4 DEF Consistent
<1>5. ASSUME job'["system"] = job["system"], plist'["system"] = plist["system"],
             pc[p] \in {"stage", "unload", "remove", "write", "load", "kickAgent",
                       "launch", "verify", "health", "kick", "kick5", "print", "print5"}
      PROVE  Consistent'
  BY <1>4, <1>5 DEF Examines, Comes
<1>6. CASE \/ Stage(p) \/ Unload(p) \/ Remove(p) \/ Write(p) \/ LoadAgent(p)
           \/ KickAgent(p) \/ Launch(p) \/ Verify(p) \/ HealthOk(p)
           \/ HealthFails(p) \/ Kick(p) \/ PrintJob(p)
  BY <1>0, <1>5, <1>6
     DEF Stage, Unload, Remove, Write, LoadAgent, KickAgent, Launch, Verify,
         HealthOk, HealthFails, Kick, PrintJob, Bootout, Load, machine
<1>7. CASE Term(p)
  <2>1. pc'[p] = "wait" \/ ~IsDaemon(p)
    BY <1>0, <1>7 DEF Term, Goto, IsDaemon
  <2> QED BY <1>4, <1>7, <2>1 DEF Term, Examines, Comes
<1>8. CASE Wait(p)
  BY <1>0, <1>4, <1>8 DEF Wait, Goto, Examines, Comes
<1>9. CASE Install(p)
  <2>1. pc'[p] = "bootstrap"
    BY <1>0, <1>9 DEF Install, Goto
  <2> QED BY <2>1 DEF Consistent, Examines
<1>10. CASE StopJobs(p)
  <2>1. job'["system"] = NoConfig
    BY <1>0, <1>3, <1>10 DEF StopJobs, Bootout, Mishap
  <2>2. pc'[p] = "term" /\ run' = run /\ IsDaemon(p)
    BY <1>0, <1>10 DEF StopJobs, Goto, Plain
  <2> QED BY <2>1, <2>2 DEF Consistent, Comes, IsDaemon
<1>11. CASE Rebootout(p)
  <2>1. job'["system"] = NoConfig
    BY <1>0, <1>3, <1>11 DEF Rebootout, Bootout, Mishap
  <2>2. pc'[p] = "rebootstrap"
    BY <1>0, <1>11 DEF Rebootout, Goto
  <2> QED BY <2>1, <2>2 DEF Consistent, Comes
<1>12. CASE Bootstrap(p)
  <2>1. plist' = plist /\ pc[p] \in {"bootstrap", "rebootstrap"}
    BY <1>12 DEF Bootstrap
  <2>2. CASE Load("system")
    BY <1>0, <2>1, <2>2 DEF Load, Consistent
  <2>3. CASE ~Parses(p) /\ Fail(p)
    BY <2>3, RestartKept DEF Parses, Plain, End
  <2>4. CASE Parses(p) /\ Loaded("system") /\ UNCHANGED job
             /\ Goto(p, IF pc[p] = "bootstrap" THEN "rebootout" ELSE "kick5")
    <3>1. CASE pc[p] = "bootstrap"
      BY <1>0, <2>4, <3>1 DEF Goto, Consistent, Examines
    <3>2. CASE pc[p] = "rebootstrap"
      <4>1. job["system"] # NoConfig /\ ~Examines(p)
        BY <2>4, <3>2 DEF Loaded, Examines
      <4> QED BY <1>2, <2>1, <2>4, <4>1 DEF Consistent
    <3> QED BY <2>1, <3>1, <3>2
  <2> QED BY <1>3, <1>12, <2>2, <2>3, <2>4 DEF Bootstrap, Mishap
<1> QED BY <1>6, <1>7, <1>8, <1>9, <1>10, <1>11, <1>12 DEF Step

(* Whatever runs of several operators interleave, if all of them reported  *)
(* success and bootout worked, the job loaded is the plist installed.      *)
THEOREM BootsWhatRuns == Spec => []InstalledIsLoaded
<1> DEFINE Inv == clean /\ mishaps = 0 => Consistent
<1>1. Init => Inv
  <2> SUFFICES ASSUME Init PROVE job["system"] = plist["system"]
    BY DEF Consistent
  <2> QED BY DEF Init
<1>2. RInv /\ Inv /\ [Next]_vars => Inv'
  <2> SUFFICES ASSUME RInv, Inv, [Next]_vars, clean', mishaps' = 0
               PROVE  Consistent'
    OBVIOUS
  <2>0. TypeOK /\ mishaps \in Nat /\ \A o \in Operators : Plain(o)
    BY ServiceAssumption DEF RInv, IInv, TypeOK
  <2>1. CASE Launchd \/ UNCHANGED vars
    <3>1. UNCHANGED <<pc, run, job, plist, clean>>
      BY <2>1 DEF Launchd, KeepAlive, Exits, Spawn, Die, Crash, operators, vars, machine
    <3>2. mishaps' \in {mishaps, mishaps + 1}
      BY <2>1 DEF Launchd, KeepAlive, Exits, Spawn, Die, Crash, Mishap, vars
    <3>3. mishaps = 0
      BY <2>0, <3>2
    <3> QED BY <3>1, <3>3 DEF Consistent, Examines, Comes, IsDaemon
  <2>2. ASSUME NEW p \in Operators, Start(p) PROVE Consistent'
    <3>1. UNCHANGED <<job, plist, clean, mishaps>> /\ pc[p] = "idle"
      BY <2>2 DEF Start, machine
    <3>2. \A o \in Operators \ {p} : pc'[o] = pc[o] /\ run'[o] = run[o]
      BY <2>0, <2>2, OthersKept
    <3> QED BY <3>1, <3>2 DEF Consistent, Examines, Comes, IsDaemon
  <2>3. ASSUME NEW p \in Operators, Step(p) PROVE Consistent'
    <3>1. mishaps = 0
      BY <2>0, <2>3, RunKept
    <3>2. clean
      BY <2>0, <2>3, StepMoves, RestartKept DEF Goto, Stage, End, Kick, Verify
    <3>3. host' = host
      BY <2>3 DEF Step
    <3> QED BY <2>0, <2>3, <3>1, <3>2, <3>3, ConsistentStep
  <2>4. ASSUME NEW p \in Operators, Cut(p) PROVE FALSE
    BY <2>0, <2>4 DEF Cut, Mishap
  <2> QED BY <2>1, <2>2, <2>3, <2>4 DEF Next
<1>3. TypeOK /\ Inv => InstalledIsLoaded
  BY DEF InstalledIsLoaded, Consistent, Examines, Comes
<1> QED BY <1>1, <1>2, <1>3, RInvHolds, TypeCorrect, PTL DEF Spec
=============================================================================
