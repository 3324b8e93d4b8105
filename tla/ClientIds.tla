------------------------------ MODULE ClientIds ------------------------------
(***************************************************************************)
(* How the TF edge names the environment variable of a client's API key,   *)
(* and tells the client from the name again (edge.py): a pure algorithm on *)
(* the characters of an id.  An id is a sequence of "-", ".", "_", and of  *)
(* words, in lower case or in capitals; of the words only dash, dot and    *)
(* underscore matter.  A name is written here in lower case.               *)
(***************************************************************************)
EXTENDS Integers, Sequences

Words == {"dash", "dot", "underscore"}

(* str.lower, of a word and of an id.                                      *)
Capitals == [A |-> "a", DASH |-> "dash", DOT |-> "dot", UNDERSCORE |-> "underscore"]
Fold(t) == IF t \in DOMAIN Capitals THEN Capitals[t] ELSE t
Lower(id) == [i \in DOMAIN id |-> Fold(id[i])]

Escape(word) == <<"_", word, "_">>

(* Whether an escape stands at place i of s.                               *)
StartsWith(s, i, word) ==
  i + 2 <= Len(s) /\ s[i] = "_" /\ s[i + 1] = word /\ s[i + 2] = "_"

(* Mutant of Piece: "_" is never escaped.                                  *)
Piece_NoUnderscore(id, i) ==
  CASE id[i] = "-" -> Escape("dash")
    [] id[i] = "." -> Escape("dot")
    [] OTHER -> <<Fold(id[i])>>

(* What the character at place i becomes; "_" is escaped where it would    *)
(* read as the start of an escape.                                         *)
Piece(id, i) ==
  CASE id[i] = "-" -> Escape("dash")
    [] id[i] = "." -> Escape("dot")
    [] id[i] = "_" /\ (\E w \in Words : StartsWith(Lower(id), i, w)) -> Escape("underscore")
    [] OTHER -> <<Fold(id[i])>>

(* _client_id_env_suffix.                                                  *)
NameOf(id) ==
  LET to[i \in 0..Len(id)] == IF i = 0 THEN <<>> ELSE to[i - 1] \o Piece(id, i)
  IN to[Len(id)]

Mark == [dash |-> "-", dot |-> ".", underscore |-> "_"]

(* _client_id_from_env_suffix: from left to right, an escape at a time.    *)
IdOf(name) ==
  LET from[i \in 1..Len(name) + 3] ==
        IF i > Len(name) THEN <<>>
        ELSE IF \E w \in Words : StartsWith(name, i, w)
        THEN <<Mark[name[i + 1]]>> \o from[i + 3]
        ELSE <<name[i]>> \o from[i + 1]
  IN from[1]

(* Ids in which no "_" and word stand before a "-" or a ".", whose escape  *)
(* would end theirs: a_dash-b is named A_DASH_DASH_B, and so is a-dash_b.  *)
Plain(id) ==
  \A i \in 1..Len(id) - 2 :
    id[i] = "_" /\ Fold(id[i + 1]) \in Words => id[i + 2] \notin {"-", "."}
=============================================================================
