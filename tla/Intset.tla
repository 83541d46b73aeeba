------------------------------- MODULE Intset -------------------------------
(***************************************************************************)
(* intset.c: a sorted array of integers, all of them as wide as the widest *)
(* has ever been.                                                          *)
(*                                                                         *)
(* Memory is a sequence of cells of two bytes.  A value of width w is w    *)
(* cells, each of which knows which part of what it is: reading a value    *)
(* gives what was written there or, when the parts do not belong together, *)
(* garbage.                                                                *)
(***************************************************************************)
EXTENDS Integers, Sequences, SequencesExt

CONSTANTS Values, \* the integers that are added
          Max16,  \* stands for INT16_MAX
          Max32,  \* stands for INT32_MAX
          Garbage \* what reading the wrong bytes gives

(* What the module needs of its constants. *)
IntsetAssumption ==
  /\ Values \subseteq Int /\ Garbage \in Int \ Values
  /\ Max16 \in Nat /\ Max32 \in Nat

VARIABLES encoding, \* the width of the values, in cells
          length,
          contents, \* the cells
          reply     \* whether the last value looked for was there

vars == <<encoding, length, contents, reply>>

_intsetValueEncoding(v) ==
  IF v < -Max32 - 1 \/ v > Max32 THEN 4
  ELSE IF v < -Max16 - 1 \/ v > Max16 THEN 2
  ELSE 1

(* Positions count from 0.                                                   *)
_intsetGetEncoded(cells, pos, enc) ==
  LET first == cells[pos * enc + 1]
  IN  IF \A i \in 1..enc : cells[pos * enc + i] = [first EXCEPT !.part = i, !.of = enc]
      THEN first.value ELSE Garbage

Cell(v, i, enc) == [value |-> v, part |-> i, of |-> enc]

_intsetSet(cells, pos, v, enc) ==
  [c \in DOMAIN cells |->
     IF c > pos * enc /\ c <= (pos + 1) * enc THEN Cell(v, c - pos * enc, enc) ELSE cells[c]]

(* New cells hold whatever the allocator left there.                         *)
intsetResize(cells, cellCount) ==
  [c \in 1..cellCount |-> IF c <= Len(cells) THEN cells[c] ELSE Cell(Garbage, 1, 1)]

Get(pos) == _intsetGetEncoded(contents, pos, encoding)

(* The binary search between min and max: where the value is or belongs.     *)
intsetSearch(v) ==
  LET search[min \in 0..length, max \in -1..length - 1] ==
        LET mid == (min + max) \div 2
        IN  IF max < min THEN [found |-> FALSE, pos |-> min]
            ELSE IF v > Get(mid) THEN search[mid + 1, max]
            ELSE IF v < Get(mid) THEN search[min, mid - 1]
            ELSE [found |-> TRUE, pos |-> mid]
  IN  IF length = 0 THEN [found |-> FALSE, pos |-> 0]
      ELSE IF v > Get(length - 1) THEN [found |-> FALSE, pos |-> length]
      ELSE IF v < Get(0) THEN [found |-> FALSE, pos |-> 0]
      ELSE search[0, length - 1]

intsetFind(v) == _intsetValueEncoding(v) <= encoding /\ intsetSearch(v).found

(* Mutation: the values are moved front to back.                             *)
Upgraded_FrontToBack(cells, newenc, prepend) ==
  LET Move(m, pos) ==
        _intsetSet(m, pos + prepend, _intsetGetEncoded(m, pos, encoding), newenc)
  IN  FoldLeft(Move, cells, [i \in 1..length |-> i - 1])

(* The values are moved back to front, within the same memory.               *)
Upgraded(cells, newenc, prepend) ==
  LET Move(m, pos) ==
        _intsetSet(m, pos + prepend, _intsetGetEncoded(m, pos, encoding), newenc)
  IN  FoldLeft(Move, cells, [i \in 1..length |-> length - i])

intsetUpgradeAndAdd(v) ==
  LET newenc == _intsetValueEncoding(v)
      prepend == IF v < 0 THEN 1 ELSE 0
      moved == Upgraded(intsetResize(contents, (length + 1) * newenc), newenc, prepend)
  IN  /\ encoding' = newenc
      /\ contents' = _intsetSet(moved, IF prepend = 1 THEN 0 ELSE length, v, newenc)
      /\ length' = length + 1
      /\ reply' = FALSE

(* memmove of the values from position from on to position to.               *)
intsetMoveTail(cells, from, to) ==
  LET tail == (length - from) * encoding
  IN  [c \in DOMAIN cells |->
         IF c > to * encoding /\ c <= to * encoding + tail
         THEN cells[c - (to - from) * encoding] ELSE cells[c]]

AddAt(pos, v) ==
  LET grown == intsetResize(contents, (length + 1) * encoding)
      moved == IF pos < length THEN intsetMoveTail(grown, pos, pos + 1) ELSE grown
  IN  /\ contents' = _intsetSet(moved, pos, v, encoding)
      /\ length' = length + 1
      /\ reply' = FALSE
      /\ UNCHANGED encoding

intsetAdd(v) ==
  IF _intsetValueEncoding(v) > encoding THEN intsetUpgradeAndAdd(v)
  ELSE IF intsetSearch(v).found THEN reply' = TRUE /\ UNCHANGED <<encoding, length, contents>>
  ELSE AddAt(intsetSearch(v).pos, v)

intsetRemove(v) ==
  LET pos == intsetSearch(v).pos
      moved == IF pos < length - 1 THEN intsetMoveTail(contents, pos + 1, pos) ELSE contents
  IN  IF ~intsetFind(v) THEN reply' = FALSE /\ UNCHANGED <<encoding, length, contents>>
      ELSE /\ contents' = intsetResize(moved, (length - 1) * encoding)
           /\ length' = length - 1
           /\ reply' = TRUE
           /\ UNCHANGED encoding

(* intsetNew                                                                 *)
Init == encoding = 1 /\ length = 0 /\ contents = <<>> /\ reply = FALSE

Next == \E v \in Values : intsetAdd(v) \/ intsetRemove(v)

Spec == Init /\ [][Next]_vars

-----------------------------------------------------------------------------
(* Properties *)

Elements == {Get(i) : i \in 0..length - 1}

(* Whatever the order of additions and removals, the array stays sorted      *)
(* without duplicates and no upgrade of the encoding loses a value: binary   *)
(* search, union by merging and the replies depend on it.                    *)
IntsetSorted ==
  /\ Len(contents) = length * encoding
  /\ \A i \in 0..length - 1 : Get(i) \in Values /\ _intsetValueEncoding(Get(i)) <= encoding
  /\ \A i \in 1..length - 1 : Get(i - 1) < Get(i)

M == INSTANCE AbstractMap
       WITH Keys <- Values, Items <- Values, map <- [v \in Elements |-> v]

(* An intset is a set, seen through what its operations answer.              *)
IntsetImplementsMap == M!Spec
=============================================================================
