---------------------------- MODULE LogRetention ----------------------------
(***************************************************************************)
(* The JSONL logs of a gateway and the processes that append to and trim   *)
(* them without a lock: the edge server (its request handlers append to    *)
(* the access log; its collector thread trims every log, samples the nodes *)
(* and appends to the metrics log), and the operator's `usage trim-logs`   *)
(* and `usage collect-node-metrics`.  launchd keeps the edge alive.        *)
(*                                                                         *)
(* A trim reads a file whole, filters it, and when anything was dropped    *)
(* opens the file for writing (which empties it) and writes the rest.      *)
(***************************************************************************)
EXTENDS Integers, Sequences, FiniteSets

CONSTANTS
  Tools,      (* the operator's commands in this instance                  *)
  Retention,  (* services.log_retention_days                               *)
  MaxTime,    (* bound: the clock stops here                               *)
  MaxKills,   (* bound: processes killed                                   *)
  MaxLines    (* bound: log -> records appended to it                      *)

ASSUME RetentionAssumption ==
  /\ Tools \subseteq {"trim-logs", "collect-node-metrics"}
  /\ Retention \in Nat \ {0}
  /\ MaxTime \in Nat
  /\ MaxKills \in Nat
  /\ MaxLines \in [{"access", "metrics"} -> Nat]

(* trim_local_logs takes the files in this order.  logs/olla.log, which    *)
(* Olla writes, is a third one with the fate of the access log.            *)
Order == <<"access", "metrics">>
Files == {"access", "metrics"}

(* Whoever runs trim_local_logs; "edge" is the thread of the edge server   *)
(* that does: the main thread at start, the collector from then on.        *)
Trimmers == {"edge"} \union Tools

VARIABLES
  now,        (* the clock, in days                                        *)
  up,         (* the edge server: down, boot (before it serves), serving   *)
  pc,         (* where each trimmer is                                     *)
  at,         (* the index in Order of the file it is at                   *)
  cutoff,     (* its cutoff, taken once for all files                      *)
  kept,       (* its kept_lines                                            *)
  file,       (* the lines of each log                                     *)
  kills,      (* processes killed so far                                   *)
  logged,     (* history: the timestamps of the records appended to each   *)
  exposed,    (* history: those appended between a trim's read and write   *)
  incidents   (* history: what has happened besides the edge's own work    *)

vars == <<now, up, pc, at, cutoff, kept, file, kills, logged, exposed,
          incidents>>

(* A record that parses; text that does not parse, with and without its    *)
(* newline.                                                                *)
Record(f, n, t) == [kind |-> "record", log |-> f, n |-> n, stamp |-> t]
Garbled  == [kind |-> "garbled",  log |-> "none", n |-> 0, stamp |-> 0]
Fragment == [kind |-> "fragment", log |-> "none", n |-> 0, stamp |-> 0]

MostLines == IF MaxLines["access"] > MaxLines["metrics"]
               THEN MaxLines["access"] ELSE MaxLines["metrics"]

Line == [kind : {"record"}, log : Files, n : 1..MostLines, stamp : 0..MaxTime]
          \union {Garbled, Fragment}

Init ==
  /\ now       = 0
  /\ up        = "down"
  /\ pc        = [t \in Trimmers |-> "off"]
  /\ at        = [t \in Trimmers |-> 1]
  /\ cutoff    = [t \in Trimmers |-> -Retention]
  /\ kept      = [t \in Trimmers |-> << >>]
  /\ file      = [f \in Files |-> << >>]
  /\ kills     = 0
  /\ logged    = [f \in Files |-> << >>]
  /\ exposed   = [f \in Files |-> {}]
  /\ incidents = {}
-----------------------------------------------------------------------------
(* Lines and files.                                                        *)

(* Mutants of Survives: the boundary day goes too early; a day too late.   *)
Survives_Strict(line, limit) == line.kind = "record" => line.stamp > limit
Survives_Late(line, limit) == line.kind = "record" => line.stamp + 1 >= limit

(* A line that has no timestamp, or does not parse, is kept.               *)
Survives(line, limit) == line.kind = "record" => line.stamp >= limit

(* The k-th of a set of indices, from the least up.                        *)
Nth(S, k) == CHOOSE i \in S : Cardinality({j \in S : j <= i}) = k

(* The lines that survive, in their order.                                 *)
Filtered(lines, limit) ==
  LET S == {i \in DOMAIN lines : Survives(lines[i], limit)}
  IN  [k \in 1..Cardinality(S) |-> lines[Nth(S, k)]]

(* Opening in append mode writes at the end, wherever that is by then; a   *)
(* last line that lacks its newline swallows the record.                   *)
Appended(lines, line) ==
  IF lines # << >> /\ lines[Len(lines)] = Fragment
    THEN [lines EXCEPT ![Len(lines)] = Garbled]
    ELSE Append(lines, line)

From(lines, n) == SubSeq(lines, n, Len(lines))

(* Mutant of Text: the last newline is left out when it was not there.     *)
Text_Unclosed(lines) == lines

(* The text written back, every line with its newline.                     *)
Text(lines) ==
  [i \in DOMAIN lines |-> IF lines[i] = Fragment THEN Garbled ELSE lines[i]]

(* Mutant of Overwritten: the file is opened in append mode.               *)
Overwritten_Appended(lines, text) == {lines \o text}

(* A file opened for writing is written from its start: text covers some   *)
(* of the lines that others appended meanwhile (how many depends on their  *)
(* lengths), and may leave the end of one of them behind.                  *)
Overwritten(lines, text) ==
  IF lines = << >> \/ text = << >> THEN {text \o lines}
  ELSE {text \o From(lines, n + 1) : n \in 1..Len(lines)} \union
       {text \o <<Garbled>> \o From(lines, n + 1) : n \in 1..Len(lines)}

(* The disk fills up under such a write.                                   *)
Cut(lines, text) ==
  {lines} \union
  IF lines = << >>
    THEN {SubSeq(text, 1, n) \o <<Fragment>> : n \in 0..(Len(text) - 1)}
    ELSE {SubSeq(text, 1, n) \o <<Garbled>> \o From(lines, m + 1) :
            n \in 0..(Len(text) - 1), m \in 1..Len(lines)}

FileOf(t) == Order[at[t]]

Rewriting(f) ==
  \E t \in Trimmers : pc[t] \in {"truncate", "write"} /\ FileOf(t) = f

(* A record of now is appended to f.                                       *)
Log(f) ==
  /\ Len(logged[f]) < MaxLines[f]
  /\ logged' = [logged EXCEPT ![f] = Append(@, now)]
  /\ LET n == Len(logged[f]) + 1 IN
     /\ file' = [file EXCEPT ![f] = Appended(@, Record(f, n, now))]
     /\ exposed' = [exposed EXCEPT ![f] = @ \union IF Rewriting(f) THEN {n}
                                                                  ELSE {}]
-----------------------------------------------------------------------------
(* trim_local_logs, by any of the processes.                               *)

Busy == {t \in Trimmers : pc[t] \in {"read", "truncate", "write"}}

(* A pass starts with the clock read.                                      *)
Begin(t) ==
  /\ pc' = [pc EXCEPT ![t] = "read"]
  /\ at' = [at EXCEPT ![t] = 1]
  /\ cutoff' = [cutoff EXCEPT ![t] = now - Retention]
  /\ kept' = [kept EXCEPT ![t] = << >>]
  /\ incidents' = incidents
       \union (IF t \in Tools THEN {"tool"} ELSE {})
       \union (IF Busy \ {t} # {} THEN {"overlap"} ELSE {})
  /\ UNCHANGED <<now, file, kills, logged, exposed>>

(* What follows the last file: the edge starts serving, a command ends,    *)
(* a collector samples the nodes.                                          *)
AfterPass(t) ==
  IF t = "edge" /\ up = "boot" THEN "wait"
  ELSE IF t = "trim-logs" THEN "off" ELSE "collect"

Advance(t) ==
  /\ kept' = [kept EXCEPT ![t] = << >>]
  /\ IF at[t] < Len(Order)
       THEN /\ at' = [at EXCEPT ![t] = @ + 1]
            /\ pc' = [pc EXCEPT ![t] = "read"]
            /\ UNCHANGED up
       ELSE /\ pc' = [pc EXCEPT ![t] = AfterPass(t)]
            /\ up' = IF t = "edge" THEN "serving" ELSE up
            /\ UNCHANGED at

(* The file is read and filtered; nothing dropped, nothing written.        *)
ReadLog(t) ==
  /\ pc[t] = "read"
  /\ LET lines == file[FileOf(t)]
         rest  == Filtered(lines, cutoff[t]) IN
     IF rest = lines
       THEN Advance(t)
       ELSE /\ kept' = [kept EXCEPT ![t] = Text(rest)]
            /\ pc' = [pc EXCEPT ![t] = "truncate"]
            /\ UNCHANGED <<up, at>>
  /\ UNCHANGED <<now, cutoff, file, kills, logged, exposed,
                 incidents>>

TruncateLog(t) ==
  /\ pc[t] = "truncate"
  /\ pc' = [pc EXCEPT ![t] = "write"]
  /\ file' = [file EXCEPT ![FileOf(t)] = << >>]
  /\ UNCHANGED <<now, up, at, cutoff, kept, kills, logged, exposed, incidents>>

WriteLog(t) ==
  /\ pc[t] = "write"
  /\ \E lines \in Overwritten(file[FileOf(t)], kept[t]) :
       file' = [file EXCEPT ![FileOf(t)] = lines]
  /\ Advance(t)
  /\ UNCHANGED <<now, cutoff, kills, logged, exposed, incidents>>

(* The write raises OSError: the collector shrugs and waits for its next   *)
(* round, a booting edge and a command exit.                               *)
WriteFails(t) ==
  /\ pc[t] = "write"
  /\ kept[t] # << >>
  /\ \E lines \in Cut(file[FileOf(t)], kept[t]) :
       file' = [file EXCEPT ![FileOf(t)] = lines]
  /\ pc' = [pc EXCEPT ![t] = IF t = "edge" /\ up = "serving"
                               THEN "wait" ELSE "off"]
  /\ up' = IF t = "edge" /\ up = "boot" THEN "down" ELSE up
  /\ kept' = [kept EXCEPT ![t] = << >>]
  /\ incidents' = incidents \union {"fail"}
  /\ UNCHANGED <<now, at, cutoff, kills, logged, exposed>>

Trim(t) == ReadLog(t) \/ TruncateLog(t) \/ WriteLog(t)
-----------------------------------------------------------------------------
(* The edge server and the commands.                                       *)

StartEdge == up = "down" /\ up' = "boot" /\ Begin("edge")

(* A request handler logs its request.                                     *)
LogRequest ==
  /\ up = "serving"
  /\ Log("access")
  /\ UNCHANGED <<now, up, pc, at, cutoff, kept, kills, incidents>>

(* The nodes have been sampled (without any there is nothing to append);   *)
(* the command stops here unless it is --continuous.                       *)
Collect(t) ==
  /\ pc[t] = "collect"
  /\ \/ Log("metrics")
     \/ UNCHANGED <<file, logged, exposed>>
  /\ \E next \in {"wait"} \union (IF t = "edge" THEN {} ELSE {"off"}) :
       pc' = [pc EXCEPT ![t] = next]
  /\ UNCHANGED <<now, up, at, cutoff, kept, kills, incidents>>

(* The interval has passed.                                                *)
NextRound(t) == pc[t] = "wait" /\ Begin(t) /\ UNCHANGED up

StartTool(t) == t \in Tools /\ pc[t] = "off" /\ Begin(t) /\ UNCHANGED up

(* The process is stopped, killed or restarted, wherever it is: the        *)
(* collector is a daemon thread, which nobody waits for beyond 2 seconds.  *)
Kill(t) ==
  /\ kills < MaxKills
  /\ kills' = kills + 1
  /\ IF t = "edge" THEN up # "down" ELSE pc[t] # "off"
  /\ pc' = [pc EXCEPT ![t] = "off"]
  /\ up' = IF t = "edge" THEN "down" ELSE up
  /\ kept' = [kept EXCEPT ![t] = << >>]
  /\ UNCHANGED <<now, at, cutoff, file, logged, exposed, incidents>>

Tick ==
  /\ now < MaxTime
  /\ now' = now + 1
  /\ UNCHANGED <<up, pc, at, cutoff, kept, file, kills, logged, exposed,
                 incidents>>
-----------------------------------------------------------------------------
Run(t) == Trim(t) \/ Collect(t) \/ NextRound(t)

Next ==
  \/ StartEdge \/ LogRequest \/ Tick
  \/ \E t \in Trimmers : Run(t) \/ WriteFails(t) \/ StartTool(t) \/ Kill(t)

(* launchd starts the edge whenever it is down, and its collector goes on. *)
Fairness == WF_vars(StartEdge) /\ WF_vars(Run("edge"))

Spec == Init /\ [][Next]_vars /\ Fairness
-----------------------------------------------------------------------------
(* Properties.                                                             *)

TypeOK ==
  /\ now \in 0..MaxTime
  /\ up \in {"down", "boot", "serving"}
  /\ pc \in [Trimmers -> {"off", "read", "truncate", "write", "collect",
                          "wait"}]
  /\ at \in [Trimmers -> 1..Len(Order)]
  /\ cutoff \in [Trimmers -> -Retention..MaxTime]
  /\ \A t \in Trimmers : kept[t] \in Seq(Line \ {Fragment})
  /\ \A f \in Files :
       /\ file[f] \in Seq(Line)
       /\ logged[f] \in Seq(0..MaxTime)
       /\ exposed[f] \subseteq DOMAIN logged[f]
  /\ kills \in 0..MaxKills
  /\ incidents \subseteq {"tool", "overlap", "fail"}

Holds(f, n) ==
  \E i \in DOMAIN file[f] : file[f][i].kind = "record" /\ file[f][i].n = n

(* A trim that has emptied the file is about to write it back.             *)
InHand(f, n) ==
  \E t \in Trimmers :
    /\ pc[t] = "write" /\ FileOf(t) = f
    /\ \E i \in DOMAIN kept[t] : kept[t][i].kind = "record" /\ kept[t][i].n = n

Fresh(f, n) == logged[f][n] >= now - Retention

Undisturbed == incidents = {} /\ kills = 0

(* While only the edge server runs, and is not killed, the one way to lose *)
(* a record that has not expired is to append it to the access log after a *)
(* trim has read the file and before it has written it back.  The metrics  *)
(* log loses nothing: its collector trims and appends to it in turn.       *)
LossNeedsOverlap ==
  Undisturbed => \A f \in Files : \A n \in DOMAIN logged[f] :
    Fresh(f, n) => \/ Holds(f, n) \/ InHand(f, n)
                   \/ f # "metrics" /\ n \in exposed[f]

(* As long as no two trims overlap, each log lists its records in the      *)
(* order they were appended, each once: nobody's usage is counted twice,   *)
(* though kills, full disks and appends during a trim may leave gaps.      *)
InOrder ==
  "overlap" \notin incidents =>
    \A f \in Files : \A i, j \in DOMAIN file[f] :
      (i < j /\ file[f][i].kind = "record" /\ file[f][j].kind = "record")
        => file[f][i].n < file[f][j].n

(* daily-summary-contract.md:100: JSONL files are trimmed by timestamp.    *)
(* An expired record leaves its log, whatever other trims, kills and full  *)
(* disks do meanwhile.                                                     *)
ExpiredGoes ==
  \A f \in Files : \A n \in 1..MaxLines[f] :
    (Holds(f, n) /\ ~Fresh(f, n)) ~> ~Holds(f, n)

(* The other side of the same line: what has not expired stays.            *)
FreshKept ==
  \A f \in Files : \A n \in DOMAIN logged[f] :
    Fresh(f, n) => Holds(f, n) \/ InHand(f, n)
=============================================================================
