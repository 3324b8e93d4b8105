------------------------------- MODULE EnvKeys -------------------------------
(***************************************************************************)
(* The API keys of the TF edge's clients in the repository's .env:         *)
(* `edge keys` and `edge client-config --create-missing-key` (cli.py) read *)
(* the file, add what is missing and write it again (edge.py), each for    *)
(* itself; the edge loads it when it starts.  The operator edits it, in an *)
(* editor that may be open for long.                                       *)
(*                                                                         *)
(* A file is opened, which empties it, and then written, as far as there   *)
(* is room.  dotenv, the editor, the service manager and the prompt of     *)
(* client-config are external.                                             *)
(***************************************************************************)
EXTENDS ClientIds, FiniteSets, Functions

CONSTANTS
  Clients,      (* client ids, as ClientIds writes them                    *)
  Commands,     (* commands that may run beside one another                *)
  MaxKeys,      (* bound: keys that are generated, typed or cut            *)
  MaxEdits,     (* bound: lines the operator adds                          *)
  MaxRuns,      (* bound: commands started                                 *)
  MaxCrashes    (* bound: commands killed, and writes that fail            *)

(* An id has a character.                                                  *)
ASSUME EnvAssumption ==
  /\ Clients \subseteq Seq(STRING) \ {<<>>}
  /\ {MaxKeys, MaxEdits, MaxRuns, MaxCrashes} \subseteq Nat

VARIABLES
  env,       (* the lines of .env                                          *)
  ever,      (* history: the lines with a value it has held                *)
  cmd,       (* command -> where it is                                     *)
  editor,    (* whether the operator has the file open, and as what        *)
  handed,    (* the keys given to clients                                  *)
  edge,      (* the edge, and the users it has loaded                      *)
  keys,      (* keys generated so far                                      *)
  mangled,   (* history: two writers overlapped, one was killed or failed  *)
  steps      (* edits, runs and crashes so far                             *)

(* The variables of the clients, and the ids the edge reads them as.       *)
Name == [c \in Clients |-> NameOf(c)]
Id == [name \in {Name[c] : c \in Clients} |-> IdOf(name)]

envVars == <<env, ever, cmd, editor, handed, edge, keys, mangled, steps>>

(* A line sets a variable: another setting of the cluster, or the key of a *)
(* client, under the name NameOf gives it or in lower case.  0 is empty.   *)
Line(name, lower, key) == [name |-> name, lower |-> lower, key |-> key]
Other == Line(<<>>, FALSE, 0)
IsUser(l) == l.name # <<>>
Idle == [pc |-> "idle", kind |-> "keys", client |-> <<>>, lines |-> <<>>]

EnvInit ==
  /\ env = <<Other>>
  /\ ever = {Other}
  /\ cmd = [p \in Commands |-> Idle]
  /\ editor = [open |-> FALSE, lines |-> <<>>]
  /\ handed = {}
  /\ edge = [up |-> FALSE, users |-> <<>>, since |-> {}]
  /\ keys = 0
  /\ mangled = FALSE
  /\ steps = [edits |-> 0, runs |-> 0, crashes |-> 0]

Counts(what, max) == steps[what] < max /\ steps' = [steps EXCEPT ![what] = @ + 1]
Holds(lines) == /\ env' = lines
                /\ ever' = ever \union {l \in Range(lines) : l.key # 0 \/ ~IsUser(l)}

----------------------------------------------------------------------------
(* Reading the file.                                                       *)

(* No variable has two lines: the commands and the operator add a line     *)
(* only for a variable that has none.                                      *)
_dotenv_value(lines, name) ==
  LET mine == {l \in Range(lines) : l.name = name /\ ~l.lower}
  IN IF mine = {} THEN 0 ELSE (CHOOSE l \in mine : TRUE).key

Users(lines) == {i \in DOMAIN lines : IsUser(lines[i]) /\ lines[i].key # 0}

(* Each variable with a value is a user; of two for one id, the later one. *)
load_edge_user_keys_from_env(lines) ==
  LET last(c) == CHOOSE i \in Users(lines) :
                   /\ Id[lines[i].name] = c
                   /\ \A j \in Users(lines) : Id[lines[j].name] = c => j <= i
  IN [c \in {Id[lines[i].name] : i \in Users(lines)} |-> lines[last(c)].key]

KeyOf(lines, c) ==
  LET users == load_edge_user_keys_from_env(lines)
  IN IF c \in DOMAIN users THEN users[c] ELSE _dotenv_value(lines, Name[c])
----------------------------------------------------------------------------
(* The commands.                                                           *)

Proceeds(p, pc) == cmd' = [cmd EXCEPT ![p].pc = pc]
Give(c, k) == handed' = handed \union {[client |-> c, key |-> k]}

(* A command that finds the key has no need to write.                      *)
Begin(p, kind, c) ==
  /\ cmd[p].pc = "idle" /\ Counts("runs", MaxRuns)
  /\ LET found == CASE kind = "keys"   -> 0
                    [] kind = "inject" -> KeyOf(env, c)
                    [] kind = "hermes" -> _dotenv_value(env, Name[c])
     IN /\ cmd' = [cmd EXCEPT ![p] = [pc |-> IF found = 0 THEN "ensure" ELSE "idle",
                                      kind |-> kind, client |-> c, lines |-> <<>>]]
        /\ IF kind = "inject" /\ found # 0 THEN Give(c, found) ELSE UNCHANGED handed
  /\ UNCHANGED <<env, ever, editor, edge, keys, mangled>>

(* Mutant of ensure_edge_api_keys: a key that is present is overwritten.   *)
ensure_edge_api_keys_Anew(lines, name, key) ==
  LET mine == {i \in DOMAIN lines : lines[i].name = name /\ ~lines[i].lower}
  IN IF mine = {} THEN Append(lines, Line(name, FALSE, key))
     ELSE [i \in DOMAIN lines |-> IF i \in mine THEN [lines[i] EXCEPT !.key = key]
                                  ELSE lines[i]]

(* The first line of the variable is filled if it is empty; without one,   *)
(* a line is added.                                                        *)
ensure_edge_api_keys(lines, name, key) ==
  LET mine == {i \in DOMAIN lines : lines[i].name = name /\ ~lines[i].lower}
      fill == {i \in mine : lines[i].key = 0 /\ \A j \in mine : i <= j}
  IN IF mine = {} THEN Append(lines, Line(name, FALSE, key))
     ELSE [i \in DOMAIN lines |-> IF i \in fill THEN [lines[i] EXCEPT !.key = key]
                                  ELSE lines[i]]

Writing == {p \in Commands : cmd[p].pc \in {"read", "open"}}

Read(p) ==
  /\ cmd[p].pc = "ensure" /\ keys < MaxKeys
  /\ cmd' = [cmd EXCEPT ![p].pc = "read",
               ![p].lines = ensure_edge_api_keys(env, Name[cmd[p].client], keys + 1)]
  /\ keys' = keys + 1
  /\ mangled' = (mangled \/ Writing # {})
  /\ UNCHANGED <<env, ever, editor, handed, edge, steps>>

(* write_text: opened, and with that empty, and written.                   *)
Open(p) ==
  /\ cmd[p].pc = "read"
  /\ Holds(<<>>) /\ Proceeds(p, "open")
  /\ UNCHANGED <<editor, handed, edge, keys, mangled, steps>>

Write(p) ==
  /\ cmd[p].pc = "open"
  /\ Holds(cmd[p].lines)
  /\ Proceeds(p, IF cmd[p].kind = "inject" THEN "written" ELSE "idle")
  /\ UNCHANGED <<editor, handed, edge, keys, mangled, steps>>

(* The disk is full: the file ends after some line, or in the next one,    *)
(* whose value is then missing or cut to another.                          *)
WriteFails(p) ==
  /\ cmd[p].pc = "open" /\ Counts("crashes", MaxCrashes)
  /\ \E i \in 0..Len(cmd[p].lines) - 1 :
       LET whole == SubSeq(cmd[p].lines, 1, i)
           next == cmd[p].lines[i + 1]
       IN \/ Holds(whole) /\ UNCHANGED keys
          \/ IsUser(next) /\ Holds(Append(whole, [next EXCEPT !.key = 0])) /\ UNCHANGED keys
          \/ /\ IsUser(next) /\ keys < MaxKeys /\ keys' = keys + 1
             /\ Holds(Append(whole, [next EXCEPT !.key = keys + 1]))
  /\ Proceeds(p, "idle")
  /\ mangled' = TRUE
  /\ UNCHANGED <<editor, handed, edge>>

(* client-config reads the key it has written; without one it fails.       *)
HandOut(p) ==
  /\ cmd[p].pc = "written"
  /\ LET k == _dotenv_value(env, Name[cmd[p].client])
     IN IF k # 0 THEN Give(cmd[p].client, k) ELSE UNCHANGED handed
  /\ Proceeds(p, "idle")
  /\ UNCHANGED <<env, ever, editor, edge, keys, mangled, steps>>

Kill(p) ==
  /\ cmd[p].pc # "idle" /\ Counts("crashes", MaxCrashes)
  /\ Proceeds(p, "idle")
  /\ mangled' = TRUE
  /\ UNCHANGED <<env, ever, editor, handed, edge, keys>>
----------------------------------------------------------------------------
(* The operator and the edge.                                              *)

OpenEditor ==
  /\ ~editor.open /\ steps.edits < MaxEdits
  /\ editor' = [open |-> TRUE, lines |-> env]
  /\ UNCHANGED <<env, ever, cmd, handed, edge, keys, mangled, steps>>

(* What the file was when it was opened is saved with a new line for a     *)
(* client: its variable without a value or with the key of another line,   *)
(* or in lower case with a key of its own.  The editor overlaps a command  *)
(* that has read and not written, or that has written since.               *)
Save(c) ==
  /\ editor.open /\ Counts("edits", MaxEdits)
  /\ \A l \in Range(editor.lines) : l.name # Name[c]
  /\ \/ Holds(Append(editor.lines, Line(Name[c], FALSE, 0))) /\ UNCHANGED keys
     \/ \E l \in Range(editor.lines) :
          /\ IsUser(l) /\ l.key # 0
          /\ Holds(Append(editor.lines, Line(Name[c], FALSE, l.key))) /\ UNCHANGED keys
     \/ /\ keys < MaxKeys /\ keys' = keys + 1
        /\ Holds(Append(editor.lines, Line(Name[c], TRUE, keys + 1)))
  /\ editor' = [open |-> FALSE, lines |-> <<>>]
  /\ mangled' = (mangled \/ Writing # {} \/ env # editor.lines)
  /\ UNCHANGED <<cmd, handed, edge>>

(* build_edge_clients_from_env refuses one key for two clients, and the    *)
(* edge does not serve without any.                                        *)
Loadable(lines) ==
  LET users == load_edge_user_keys_from_env(lines)
  IN DOMAIN users # {} /\ \A c, d \in DOMAIN users : users[c] = users[d] => c = d

(* Started, again and again, by the service manager.                       *)
Start ==
  /\ ~edge.up /\ Loadable(env)
  /\ edge' = [up |-> TRUE, users |-> load_edge_user_keys_from_env(env), since |-> handed]
  /\ UNCHANGED <<env, ever, cmd, editor, handed, keys, mangled, steps>>

Stop ==
  /\ edge.up
  /\ edge' = [edge EXCEPT !.up = FALSE]
  /\ UNCHANGED <<env, ever, cmd, editor, handed, keys, mangled, steps>>

Kinds == {"keys", "inject", "hermes"}

EnvNext ==
  \/ \E p \in Commands :
       \/ \E kind \in Kinds, c \in Clients : Begin(p, kind, c)
       \/ Read(p) \/ Open(p) \/ Write(p) \/ WriteFails(p) \/ HandOut(p) \/ Kill(p)
  \/ OpenEditor \/ \E c \in Clients : Save(c)
  \/ Start \/ Stop

EnvSpec == EnvInit /\ [][EnvNext]_envVars
----------------------------------------------------------------------------
(* Properties.                                                             *)

(* The types, and that an edge that serves knows at least one client, and  *)
(* no two by the same key.                                                 *)
EnvTypeOK ==
  /\ env \in Seq(ever \union [name : Range(Name), lower : BOOLEAN, key : {0}])
  /\ \A p \in Commands : cmd[p].pc \in {"idle", "ensure", "read", "open", "written"}
  /\ \A h \in handed : h.client \in Clients /\ h.key \in 1..keys
  /\ keys \in 0..MaxKeys /\ mangled \in BOOLEAN
  /\ edge.up => /\ DOMAIN edge.users # {}
                /\ \A c, d \in DOMAIN edge.users : edge.users[c] = edge.users[d] => c = d

(* A line with a value leaves .env only when two of those that write it,   *)
(* commands or the operator's editor, overlapped, or when a command was    *)
(* killed or could not write to the end: no run drops or changes another   *)
(* client's key, or a setting that is none of its business (edge.py:434,   *)
(* :455: read, modify, write, without a lock or a second file).            *)
LineLossNeedsOverlap ==
  \A l \in ever : \/ l \in Range(env) \/ mangled
                  \/ \E p \in Commands : cmd[p].pc = "open" /\ l \in Range(cmd[p].lines)

(* Whom the edge takes the client of a key for: the id in lower case, and  *)
(* for an id that is not plain the one its variable reads as.              *)
ReadAs(c) == IF Plain(c) THEN Lower(c) ELSE Id[Name[c]]

(* Another line with a key for the client.                                 *)
Clashes(l, c) == Id[l.name] \in {c, ReadAs(c)} /\ (l.lower \/ l.name # Name[c])

(* A key that was given to a client before the edge started is accepted,   *)
(* and taken for that client's, unless .env was mangled or has had another *)
(* line for the client (edge.py:290, :305: the id is told from the name).  *)
HandedOutAccepted ==
  edge.up /\ ~mangled =>
    \A h \in edge.since :
      \/ \E l \in ever : IsUser(l) /\ Clashes(l, h.client)
      \/ ReadAs(h.client) \in DOMAIN edge.users /\ edge.users[ReadAs(h.client)] = h.key
=============================================================================
