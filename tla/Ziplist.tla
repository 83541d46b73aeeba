------------------------------ MODULE Ziplist -------------------------------
(***************************************************************************)
(* ziplist.c: a list as one string of bytes.  Every entry begins with the  *)
(* length of the entry before it, in one byte or in five, so that a change *)
(* of one entry may make the next one longer, and so on.                   *)
(*                                                                         *)
(* The bytes are a sequence of entries: the size of the field prevlen, the *)
(* length stored there, and the value, of which only its length and the    *)
(* encoding of that length count.  Entries count from 1.                   *)
(***************************************************************************)
EXTENDS Integers, Sequences, FiniteSets, SequencesExt

CONSTANTS Vals, Damaged,
          Size(_),        \* the length of a value as a string
          IntSize(_),     \* the size of its integer encoding, 0 for a string
          MaxEntries,
          MaxCount,       \* UINT16_MAX
          ShrinkingInserts \* insertions that make the list shorter

(* What the module needs of its constants. *)
ZiplistAssumption ==
  /\ \A v \in Vals : Size(v) \in Nat \ {0} /\ IntSize(v) \in {0, 2, 4, 8}
  /\ Damaged \notin Vals
  /\ MaxEntries \in Nat /\ MaxCount \in Nat /\ ShrinkingInserts \in BOOLEAN

VARIABLES zl,    \* the entries
          bytes, \* ZIPLIST_BYTES
          tail,  \* ZIPLIST_TAIL_OFFSET
          length \* ZIPLIST_LENGTH

vars == <<zl, bytes, tail, length>>

ZIPLIST_HEADER_SIZE == 10
ZIP_BIGLEN == 254

zipPrevEncodeLength(len) == IF len < ZIP_BIGLEN THEN 1 ELSE 5

zipEncodeLength(v) ==
  IF IntSize(v) > 0 \/ Size(v) <= 63 THEN 1 ELSE IF Size(v) <= 16383 THEN 2 ELSE 5

Payload(v) == IF IntSize(v) > 0 THEN IntSize(v) ELSE Size(v)

zipRawEntryLength(e) == e.prevsize + e.rest

Entry(prevlen, v) ==
  [prevsize |-> zipPrevEncodeLength(prevlen), prevlen |-> prevlen,
   rest |-> zipEncodeLength(v) + Payload(v), value |-> v]

(* Where entry i begins, in bytes; one more than the entries is the end.     *)
Offset(list, i) ==
  LET begin[n \in 1..i] ==
        IF n = 1 THEN ZIPLIST_HEADER_SIZE ELSE begin[n - 1] + zipRawEntryLength(list[n - 1])
  IN  begin[i]

WithPrevlen(e, len) == [e EXCEPT !.prevsize = zipPrevEncodeLength(len), !.prevlen = len]

(* __ziplistCascadeUpdate from entry i on: an entry whose field is too small *)
(* grows, and the next is looked at; a field that is too large stays.        *)
CascadeUpdate(z, i) ==
  LET Step(c, k) ==
        LET rawlen == zipRawEntryLength(c.zl[k])
            next == c.zl[k + 1]
            extra == zipPrevEncodeLength(rawlen) - next.prevsize
            grows == extra > 0
        IN  IF c.done \/ k = Len(c.zl) \/ next.prevlen = rawlen THEN [c EXCEPT !.done = TRUE]
            ELSE [c EXCEPT
                   !.zl[k + 1] = IF grows THEN WithPrevlen(next, rawlen)
                                 ELSE [next EXCEPT !.prevlen = rawlen],
                   !.bytes = IF grows THEN @ + extra ELSE @,
                   !.tail = IF grows /\ @ # Offset(c.zl, k + 1) THEN @ + extra ELSE @,
                   !.done = ~grows]
      from == [n \in 1..Len(z.zl) - i + 1 |-> n + i - 1]
  IN  FoldLeft(Step, [z EXCEPT !.done = FALSE], from)

State(list, b, t) == [zl |-> list, bytes |-> b, tail |-> t, done |-> FALSE]

(* ZIPLIST_INCR_LENGTH                                                       *)
Counted(n) == IF length < MaxCount THEN length + n ELSE length

Becomes(z, n) ==
  /\ zl' = z.zl /\ bytes' = z.bytes /\ tail' = z.tail
  /\ length' = Counted(n)

(* The list is resized before its bytes are moved: when it gets shorter, the *)
(* last byte is gone by then.                                                *)
Truncated(list) == [list EXCEPT ![Len(list)].value = Damaged]

(* Mutation: the tail offset leaves out what the next entry grew by.         *)
__ziplistInsert_TailShort(i, v) ==
  LET last == Len(zl)
      prevlen == IF i <= last THEN zl[i].prevlen
                 ELSE IF last > 0 THEN zipRawEntryLength(zl[last]) ELSE 0
      entry == Entry(prevlen, v)
      reqlen == zipRawEntryLength(entry)
      nextdiff == IF i <= last THEN zipPrevEncodeLength(reqlen) - zl[i].prevsize ELSE 0
      shorter == reqlen + nextdiff < 0
      linked == IF i > last THEN zl ELSE [zl EXCEPT ![i] = WithPrevlen(@, reqlen)]
      inserted == InsertAt(IF shorter THEN Truncated(linked) ELSE linked, i, entry)
      at == Offset(zl, i)
      placed == State(inserted, bytes + reqlen + nextdiff,
                      IF i > last THEN at ELSE tail + reqlen)
  IN  /\ shorter => ShrinkingInserts
      /\ last < MaxEntries
      /\ Becomes(IF nextdiff # 0 THEN CascadeUpdate(placed, i + 1) ELSE placed, 1)

__ziplistInsert(i, v) ==
  LET last == Len(zl)
      prevlen == IF i <= last THEN zl[i].prevlen
                 ELSE IF last > 0 THEN zipRawEntryLength(zl[last]) ELSE 0
      entry == Entry(prevlen, v)
      reqlen == zipRawEntryLength(entry)
      nextdiff == IF i <= last THEN zipPrevEncodeLength(reqlen) - zl[i].prevsize ELSE 0
      shorter == reqlen + nextdiff < 0
      linked == IF i > last THEN zl ELSE [zl EXCEPT ![i] = WithPrevlen(@, reqlen)]
      inserted == InsertAt(IF shorter THEN Truncated(linked) ELSE linked, i, entry)
      at == Offset(zl, i)
      placed == State(inserted, bytes + reqlen + nextdiff,
                      IF i > last THEN at
                      ELSE tail + reqlen + (IF i < last THEN nextdiff ELSE 0))
  IN  /\ shorter => ShrinkingInserts
      /\ last < MaxEntries
      /\ Becomes(IF nextdiff # 0 THEN CascadeUpdate(placed, i + 1) ELSE placed, 1)

(* __ziplistDelete of the entries i to j.                                    *)
__ziplistDelete(i, j) ==
  LET last == Len(zl)
      prevlen == zl[i].prevlen
      totlen == Offset(zl, j + 1) - Offset(zl, i)
      nextdiff == IF j < last THEN zipPrevEncodeLength(prevlen) - zl[j + 1].prevsize ELSE 0
      linked == IF j < last THEN [zl EXCEPT ![j + 1] = WithPrevlen(@, prevlen)] ELSE zl
      cut == State(SubSeq(linked, 1, i - 1) \o SubSeq(linked, j + 1, last),
                   bytes - totlen + nextdiff,
                   IF j = last THEN Offset(zl, i) - prevlen
                   ELSE tail - totlen + (IF j + 1 < last THEN nextdiff ELSE 0))
  IN  Becomes(IF nextdiff # 0 THEN CascadeUpdate(cut, i) ELSE cut, i - j - 1)

(* The count is trusted below UINT16_MAX and made again otherwise.           *)
ziplistLen ==
  /\ length' = IF length >= MaxCount /\ Len(zl) < MaxCount THEN Len(zl) ELSE length
  /\ UNCHANGED <<zl, bytes, tail>>

(* ziplistNew                                                                *)
Init == zl = <<>> /\ bytes = ZIPLIST_HEADER_SIZE + 1 /\ tail = ZIPLIST_HEADER_SIZE /\ length = 0

(* ziplistPush and ziplistInsert; ziplistDelete and ziplistDeleteRange.      *)
Next ==
  \/ \E i \in 1..Len(zl) + 1, v \in Vals : __ziplistInsert(i, v)
  \/ \E i, j \in DOMAIN zl : i <= j /\ __ziplistDelete(i, j)
  \/ ziplistLen

Spec == Init /\ [][Next]_vars

-----------------------------------------------------------------------------
(* Properties *)

(* Every entry holds the length of the one before it in a field that is      *)
(* large enough, the first holds 0, and the offset of the tail, the number   *)
(* of bytes and the count agree with the entries.                            *)
ZiplistChains ==
  /\ \A i \in DOMAIN zl :
       /\ zl[i].prevlen = IF i = 1 THEN 0 ELSE zipRawEntryLength(zl[i - 1])
       /\ zl[i].prevsize >= zipPrevEncodeLength(zl[i].prevlen)
  /\ tail = Offset(zl, IF zl = <<>> THEN 1 ELSE Len(zl))
  /\ bytes = Offset(zl, Len(zl) + 1) + 1
  /\ length < MaxCount => length = Len(zl)

(* The values met going back from the tail, as LRANGE, ZREVRANGE and RPOP    *)
(* do, by the lengths stored in the entries (ziplistPrev, ziplistIndex).     *)
Backward ==
  LET begin == [i \in DOMAIN zl |-> Offset(zl, i)]
      entry(offset) == {i \in DOMAIN zl : begin[i] = offset}
      from[i \in DOMAIN zl] ==
        LET before == entry(begin[i] - zl[i].prevlen)
        IN  <<zl[i].value>> \o
            (IF zl[i].prevlen = 0 \/ before = {} THEN <<>> ELSE from[CHOOSE j \in before : TRUE])
  IN  IF entry(tail) = {} THEN <<>> ELSE from[CHOOSE i \in entry(tail) : TRUE]

L == INSTANCE AbstractList WITH list <- Reverse(Backward)

(* Read from its tail, a ziplist is the list that was put together.          *)
ZiplistImplementsList == L!Spec
=============================================================================
