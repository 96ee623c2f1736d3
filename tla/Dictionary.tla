----------------------------- MODULE Dictionary -----------------------------
(***************************************************************************)
(* What a caller of a btree or a hashmap relies on: a map from keys to     *)
(* values and the answer of the last call.  An insertion may be refused    *)
(* for want of memory, and a refused call leaves the map as it was.        *)
(***************************************************************************)
EXTENDS Integers

CONSTANTS
  Key,          \* the keys
  Value,        \* the values
  InvalidKey,   \* the answer of erase_value when nothing matches
  Nothing       \* the answer of a call that returns only a status

VARIABLES
  dict,         \* the map: a function from the keys present to their values
  ret           \* the last call: its operation, arguments, status and answer

vars == <<dict, ret>>

Present == DOMAIN dict

Put(k, v) == [x \in Present \cup {k} |-> IF x = k THEN v ELSE dict[x]]
Drop(k) == [x \in Present \ {k} |-> dict[x]]

Answer(op, key, value, status, out) ==
  [op |-> op, key |-> key, value |-> value, status |-> status, out |-> out]

Init ==
  /\ dict = [x \in {} |-> Nothing]
  /\ ret = Answer("init", Nothing, Nothing, "OK", Nothing)

InsertNew(k, v) ==
  \/ /\ k \notin Present
     /\ dict' = Put(k, v)
     /\ ret' = Answer("insert_new", k, v, "OK", Nothing)
  \/ /\ k \in Present
     /\ UNCHANGED dict
     /\ ret' = Answer("insert_new", k, v, "EXISTS", Nothing)
  \/ /\ UNCHANGED dict
     /\ ret' = Answer("insert_new", k, v, "OOM", Nothing)

(* Insertion of a key without a value: it is there, with any value.        *)
InsertKey(k) ==
  \/ /\ k \notin Present
     /\ \E v \in Value \cup {Nothing} : dict' = Put(k, v)
     /\ ret' = Answer("insert_key", k, Nothing, "OK", Nothing)
  \/ /\ UNCHANGED dict
     /\ \/ k \in Present /\ ret' = Answer("insert_key", k, Nothing, "EXISTS", Nothing)
        \/ ret' = Answer("insert_key", k, Nothing, "OOM", Nothing)

(* The answer is the value now stored under k: the new or the older one.   *)
InsertOrGet(k, v) ==
  \/ /\ k \notin Present
     /\ dict' = Put(k, v)
     /\ ret' = Answer("insert_or_get", k, v, "NOT_FOUND", v)
  \/ /\ k \in Present
     /\ UNCHANGED dict
     /\ ret' = Answer("insert_or_get", k, v, "EXISTS", dict[k])
  \/ /\ UNCHANGED dict
     /\ ret' = Answer("insert_or_get", k, v, "OOM", Nothing)

SetExisting(k, v) ==
  \/ /\ k \in Present
     /\ dict' = Put(k, v)
     /\ ret' = Answer("set_existing", k, v, "OK", Nothing)
  \/ /\ k \notin Present
     /\ UNCHANGED dict
     /\ ret' = Answer("set_existing", k, v, "NOT_FOUND", Nothing)

Erase(k) ==
  \/ /\ k \in Present
     /\ dict' = Drop(k)
     /\ ret' = Answer("erase", k, Nothing, "OK", Nothing)
  \/ /\ k \notin Present
     /\ UNCHANGED dict
     /\ ret' = Answer("erase", k, Nothing, "NOT_FOUND", Nothing)

(* hashmap_erase, which hands out the value it erases, and hashmap_find.   *)
Remove(k) ==
  \/ /\ k \in Present
     /\ dict' = Drop(k)
     /\ ret' = Answer("remove", k, Nothing, "OK", dict[k])
  \/ /\ k \notin Present
     /\ UNCHANGED dict
     /\ ret' = Answer("remove", k, Nothing, "NOT_FOUND", Nothing)

Find(k) ==
  /\ UNCHANGED dict
  /\ \/ /\ k \in Present
        /\ ret' = Answer("find", k, Nothing, "OK", dict[k])
     \/ /\ k \notin Present
        /\ ret' = Answer("find", k, Nothing, "NOT_FOUND", Nothing)

EraseValue(v) ==
  \/ \E k \in Present :
       /\ dict[k] = v
       /\ dict' = Drop(k)
       /\ ret' = Answer("erase_value", Nothing, v, "OK", k)
  \/ /\ \A k \in Present : dict[k] # v
     /\ UNCHANGED dict
     /\ ret' = Answer("erase_value", Nothing, v, "OK", InvalidKey)

(* erase_index and erase_internal_value name an entry by its place; the    *)
(* answer tells which key went with it.                                    *)
EraseEntry(op) ==
  \E k \in Present :
    /\ dict' = Drop(k)
    /\ ret' = Answer(op, Nothing, Nothing, "OK", k)

(* clear and deinit; also init, on a container that was given back.        *)
Empty(op) ==
  /\ dict' = [x \in {} |-> Nothing]
  /\ \E status \in {"OK", "OOM"} : ret' = Answer(op, Nothing, Nothing, status, Nothing)

(* reserve and compact change where the entries live, never the entries.   *)
Rearrange(op) ==
  /\ UNCHANGED dict
  /\ \E status \in {"OK", "OOM"} : ret' = Answer(op, Nothing, Nothing, status, Nothing)

Next ==
  \/ \E k \in Key, v \in Value : InsertNew(k, v) \/ InsertOrGet(k, v) \/ SetExisting(k, v)
  \/ \E k \in Key : InsertKey(k) \/ Erase(k) \/ Remove(k) \/ Find(k)
  \/ \E v \in Value : EraseValue(v)
  \/ \E op \in {"erase_index", "erase_internal_value"} : EraseEntry(op)
  \/ \E op \in {"init", "clear", "deinit"} : Empty(op)
  \/ \E op \in {"reserve", "compact"} : Rearrange(op)

Spec == Init /\ [][Next]_vars
=============================================================================
