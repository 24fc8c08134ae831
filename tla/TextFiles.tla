------------------------------ MODULE TextFiles -----------------------------
(***************************************************************************)
(* The text files: load_policy of start_policy reads the policies,         *)
(* load_user_map of update_list the addresses of a list.                   *)
(*                                                                         *)
(* To fscanf a file is a stream of tokens, whatever its lines.  A token is *)
(* a number, an address, or any other word: %d takes a number whole and    *)
(* the first number of an address, and stops before a word; %s takes any   *)
(* token.  What a failed conversion leaves in a variable is what was there *)
(* before.  A write behind list_policy ends the model ("smashed").         *)
(***************************************************************************)
EXTENDS Integers, Sequences, FiniteSets

CONSTANTS
  POLICIES,  \* entries of list_policy
  LIST_MAX,  \* entries of the list's map
  Numbers,   \* numbers in the file
  Addresses, \* addresses in the file
  MaxTokens  \* bound: tokens of the file

ASSUME FilesAssumption ==
  /\ POLICIES \in Nat \ {0} /\ LIST_MAX \in Nat /\ MaxTokens \in Nat
  /\ Numbers \subseteq Nat /\ Addresses \subseteq Nat \ {0}

VARIABLES
  text,        \* history: the tokens of the file
  stream,      \* the tokens not yet read
  file_pc,     \* which loop is running, or how it ended
  scanned,     \* the local variables id, ip and threshold
  file_policy, \* the policies read so far
  user_map     \* the keys of the list's map

fileVars == <<text, stream, file_pc, scanned, file_policy, user_map>>

Token(kind, v) == [kind |-> kind, v |-> v]
Tokens == {Token("number", n) : n \in Numbers} \cup {Token("address", a) : a \in Addresses}
            \cup {Token("word", 0)}

\* What uninitialised variables hold: no policy of a file looks like it.
Unset == [id |-> -1, ip |-> Token("word", 0), threshold |-> -1]

FileInit ==
  /\ text \in UNION {[1 .. n -> Tokens] : n \in 0 .. MaxTokens}
  /\ stream = text
  /\ file_pc \in {"first", "list"}
  /\ scanned = Unset
  /\ file_policy = <<>>
  /\ user_map = {}

-----------------------------------------------------------------------------
(* load_policy.                                                            *)

\* %d and %s at the head of a stream: whether it matches, the value, the rest.
ScanInt(s) ==
  IF s = <<>> \/ Head(s).kind = "word" THEN [ok |-> FALSE, v |-> 0, rest |-> s]
  ELSE [ok |-> TRUE, v |-> Head(s).v,
        rest |-> IF Head(s).kind = "number" THEN Tail(s) ELSE <<Token("word", 0)>> \o Tail(s)]

ScanWord(s) ==
  IF s = <<>> THEN [ok |-> FALSE, v |-> Unset.ip, rest |-> s]
  ELSE [ok |-> TRUE, v |-> Head(s), rest |-> Tail(s)]

\* fscanf(fp, "%d %s %d\n", &id, ip, &threshold): the first conversion that fails
\* ends it.
Fscanf(s, old) ==
  LET a == ScanInt(s)
      b == ScanWord(a.rest)
      c == ScanInt(b.rest)
  IN IF ~ a.ok THEN [ret |-> IF s = <<>> THEN -1 ELSE 0, vars |-> old, rest |-> s]
     ELSE IF ~ b.ok THEN [ret |-> 1, vars |-> [old EXCEPT !.id = a.v], rest |-> b.rest]
     ELSE IF ~ c.ok
          THEN [ret |-> 2, vars |-> [old EXCEPT !.id = a.v, !.ip = b.v], rest |-> c.rest]
     ELSE [ret |-> 3, vars |-> [id |-> a.v, ip |-> b.v, threshold |-> c.v], rest |-> c.rest]

\* inet_pton writes the address only if there is one; list_policy begins as zero.
inet_pton(word) == IF word.kind = "address" THEN word.v ELSE 0

PolicyOf(v) == [id |-> v.id, ip |-> inet_pton(v.ip), threshold |-> v.threshold]

\* Both calls of fscanf are followed by the same lines, since err stays that of
\* the first: what was scanned becomes a policy.
AddPolicy(r) ==
  /\ stream' = r.rest
  /\ scanned' = r.vars
  /\ IF Len(file_policy) < POLICIES
     THEN file_policy' = Append(file_policy, PolicyOf(r.vars)) /\ file_pc' = "next"
     ELSE file_pc' = "smashed" /\ UNCHANGED file_policy

FirstPolicy ==
  /\ file_pc = "first"
  /\ LET r == Fscanf(stream, scanned) IN
     IF r.ret > 0 THEN AddPolicy(r)
     ELSE file_pc' = "done" /\ UNCHANGED <<stream, scanned, file_policy>>
  /\ UNCHANGED <<text, user_map>>

\* The loop ends only at the end of the file.
NextPolicy ==
  /\ file_pc = "next"
  /\ LET r == Fscanf(stream, scanned) IN
     IF r.ret # -1 THEN AddPolicy(r)
     ELSE file_pc' = "done" /\ UNCHANGED <<stream, scanned, file_policy>>
  /\ UNCHANGED <<text, user_map>>

-----------------------------------------------------------------------------
(* load_user_map.                                                          *)

update_list_OneLess(word) ==
  user_map' = IF word.kind = "address" /\ Cardinality(user_map) + 1 < LIST_MAX
              THEN user_map \cup {word.v} ELSE user_map

\* A word that is no address is refused; the update fails when the map is full
\* and the key is new, and nobody looks at the result.
update_list(word) ==
  user_map' = IF /\ word.kind = "address"
                 /\ word.v \in user_map \/ Cardinality(user_map) < LIST_MAX
              THEN user_map \cup {word.v} ELSE user_map

NextAddress ==
  /\ file_pc = "list"
  /\ LET r == ScanWord(stream) IN
     IF r.ok THEN update_list(r.v) /\ stream' = r.rest /\ UNCHANGED file_pc
     ELSE file_pc' = "listed" /\ UNCHANGED <<stream, user_map>>
  /\ UNCHANGED <<text, scanned, file_policy>>

\* There is no such file: both functions return at once.
NoFile ==
  /\ file_pc \in {"first", "list"} /\ stream = text
  /\ file_pc' = "nofile"
  /\ UNCHANGED <<text, stream, scanned, file_policy, user_map>>

FileNext == NoFile \/ FirstPolicy \/ NextPolicy \/ NextAddress

FileSpec == FileInit /\ [][FileNext]_fileVars

-----------------------------------------------------------------------------
(* Properties.                                                             *)

\* The file as lines of three tokens; the last may be incomplete.
Triples == {k \in 0 .. Len(text) \div 3 : 3 * k + 3 <= Len(text)}
WellFormed ==
  /\ Len(text) % 3 = 0
  /\ \A k \in Triples : /\ text[3 * k + 1].kind = "number" /\ text[3 * k + 2].kind = "address"
                        /\ text[3 * k + 3].kind = "number"

\* A file of "id address threshold" lines, of no more lines than list_policy has
\* entries, is loaded whole and in order, and load_policy ends.
GoodFileIsLoaded ==
  WellFormed /\ Len(text) <= 3 * POLICIES =>
    /\ file_pc # "smashed"
    /\ file_pc = "done" =>
         file_policy = [k \in 1 .. Len(text) \div 3 |->
                          [id |-> text[3 * k - 2].v, ip |-> text[3 * k - 1].v,
                           threshold |-> text[3 * k].v]]

\* load_policy runs past list_policy only if the file has too many policies or a
\* word at a place where a number is wanted (the rest of an address included).
OverrunHasReason ==
  file_pc = "smashed" =>
    \/ Len(text) > 3 * POLICIES
    \/ \E k \in DOMAIN text : text[k].kind # "number" /\ k % 3 # 2

\* After load_user_map every address of the file is in the map, unless the map is
\* full; and nothing else is in it.
ListIsLoaded ==
  file_pc = "listed" =>
    LET listed == {text[k].v : k \in {j \in DOMAIN text : text[j].kind = "address"}}
    IN user_map \subseteq listed /\ (user_map = listed \/ Cardinality(user_map) = LIST_MAX)

\* Policies and lists are loaded as they are written, and where they are not there is a reason in
\* the file.
FilesAreLoaded == GoodFileIsLoaded /\ OverrunHasReason /\ ListIsLoaded
=============================================================================
