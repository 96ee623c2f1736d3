---------------------------- MODULE GrowableList ----------------------------
(***************************************************************************)
(* What a caller of a vector relies on: a list of elements, and the answer *)
(* of the last call.  What needs memory may be refused, and a refused call *)
(* leaves the list as it was.                                              *)
(***************************************************************************)
EXTENDS Integers, Sequences, SequencesExt

CONSTANTS
  Element,    \* the elements
  Sources,    \* the lists that may be pushed to the end of this one
  MaxSize,    \* the largest size a caller asks for
  Undef,      \* what an element holds that nothing was written to
  Nothing     \* no argument, or an answer that is only a status

VARIABLES
  list,       \* the elements in their order
  ret         \* the last call: its operation, argument, status and answer

vars == <<list, ret>>

Cell == Element \cup {Undef}

Answer(op, arg, status, out) == [op |-> op, arg |-> arg, status |-> status, out |-> out]

Init == list = << >> /\ ret = Answer("init", Nothing, "OK", Nothing)

Refused(op, arg) ==
  /\ UNCHANGED list
  /\ ret' = Answer(op, arg, "OOM", Nothing)

Push(v) ==
  \/ /\ list' = Append(list, v)
     /\ ret' = Answer("push", v, "OK", Nothing)
  \/ Refused("push", v)

Insert(index, v) ==
  \/ /\ list' = InsertAt(list, index + 1, v)
     /\ ret' = Answer("insert", <<index, v>>, "OK", Nothing)
  \/ Refused("insert", <<index, v>>)

(* An emplaced element holds anything until the caller writes it.          *)
InsertEmplace(op, index) ==
  \/ \E v \in Cell : list' = InsertAt(list, index + 1, v) /\ ret' = Answer(op, index, "OK", index)
  \/ Refused(op, index)

PushList(op, s) ==
  \/ list' = list \o s /\ ret' = Answer(op, s, "OK", Nothing)
  \/ Refused(op, s)

PushMismatch ==
  /\ UNCHANGED list
  /\ ret' = Answer("push_vector", Nothing, "MISMATCH", Nothing)

Pop ==
  \/ /\ list # << >>
     /\ list' = Front(list)
     /\ ret' = Answer("pop", Nothing, "OK", Last(list))
  \/ /\ list = << >>
     /\ UNCHANGED list
     /\ ret' = Answer("pop", Nothing, "NULL", Nothing)

(* The caller stores through a pointer into the list.                      *)
Store(index, v) ==
  /\ list' = [list EXCEPT ![index + 1] = v]
  /\ ret' = Answer("store", <<index, v>>, "OK", Nothing)

EraseAt(op, index) ==
  /\ list' = RemoveAt(list, index + 1)
  /\ ret' = Answer(op, index, "OK", Nothing)

(* The elements a list gains when it is made longer hold anything.         *)
Resize(size) ==
  \/ /\ list' \in [1 .. size -> Cell]
     /\ \A i \in 1 .. size : i <= Len(list) => list'[i] = list[i]
     /\ ret' = Answer("resize", size, "OK", Nothing)
  \/ Refused("resize", size)

Turn ==
  /\ list' = Reverse(list)
  /\ ret' = Answer("reverse", Nothing, "OK", Nothing)

Empty(op) ==
  /\ list' = << >>
  /\ ret' = Answer(op, Nothing, "OK", Nothing)

(* reserve and compact change where the elements live, never the elements. *)
Reserve(size) ==
  /\ UNCHANGED list
  /\ \E status \in {"OK", "OOM"} : ret' = Answer("reserve", size, status, Nothing)

Compact ==
  /\ UNCHANGED list
  /\ ret' = Answer("compact", Nothing, "OK", Nothing)

Next ==
  \/ \E v \in Element : Push(v)
  \/ \E v \in Element, index \in 0 .. Len(list) : Insert(index, v)
  \/ \E index \in 0 .. Len(list) : InsertEmplace("insert_emplace", index)
  \/ InsertEmplace("emplace", Len(list))
  \/ \E s \in Sources : PushList("push_vector", s)
  \/ PushList("push_self", list)
  \/ PushMismatch
  \/ Pop
  \/ \E v \in Element, index \in 0 .. (Len(list) - 1) : Store(index, v)
  \/ \E op \in {"erase_index", "erase_element"}, index \in 0 .. (Len(list) - 1) :
       EraseAt(op, index)
  \/ \E size \in 0 .. MaxSize : Resize(size) \/ Reserve(size)
  \/ Turn
  \/ \E op \in {"clear", "clear_compact", "init"} : Empty(op)
  \/ Compact

Spec == Init /\ [][Next]_vars
=============================================================================
