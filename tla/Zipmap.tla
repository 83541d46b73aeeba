------------------------------- MODULE Zipmap -------------------------------
(***************************************************************************)
(* zipmap.c: a map as one string of bytes, which is searched from its      *)
(* start.  A change of a value leaves a few free bytes behind it or moves  *)
(* the rest of the map.                                                    *)
(*                                                                         *)
(* A byte is a number; the four bytes of a long length are one cell here.  *)
(* Offsets count from 0.                                                   *)
(***************************************************************************)
EXTENDS Integers, Sequences, FiniteSets, SequencesExt

CONSTANTS Keys, Vals, \* strings of bytes
          BigLen,     \* ZIPMAP_BIGLEN
          End,        \* ZIPMAP_END
          MaxFree     \* ZIPMAP_VALUE_MAX_FREE

(* What the module needs of its constants. *)
ZipmapAssumption ==
  /\ BigLen \in Nat \ {0} /\ End \in Nat /\ End > BigLen
  /\ MaxFree \in 1..BigLen

VARIABLES zm,   \* the bytes
          reply

vars == <<zm, reply>>

Byte(p) == zm[p + 1]

zipmapEncodeLength(l) == IF l < BigLen THEN <<l>> ELSE <<BigLen, l>>
ZIPMAP_LEN_BYTES(l) == Len(zipmapEncodeLength(l))
zipmapDecodeLength(p) == IF Byte(p) < BigLen THEN Byte(p) ELSE Byte(p + 1)

zipmapRequiredLength(klen, vlen) == ZIPMAP_LEN_BYTES(klen) + klen + ZIPMAP_LEN_BYTES(vlen) + 1 + vlen

zipmapRawKeyLength(p) == LET l == zipmapDecodeLength(p) IN ZIPMAP_LEN_BYTES(l) + l
zipmapRawValueLength(p) ==
  LET l == zipmapDecodeLength(p)
      used == ZIPMAP_LEN_BYTES(l)
  IN  used + Byte(p + used) + 1 + l
zipmapRawEntryLength(p) ==
  zipmapRawKeyLength(p) + zipmapRawValueLength(p + zipmapRawKeyLength(p))

Bytes(p, n) == SubSeq(zm, p + 1, p + n)
KeyAt(p) ==
  LET l == zipmapDecodeLength(p) IN Bytes(p + ZIPMAP_LEN_BYTES(l), l)
ValueAt(p) ==
  LET v == p + zipmapRawKeyLength(p)
      l == zipmapDecodeLength(v)
  IN  Bytes(v + ZIPMAP_LEN_BYTES(l) + 1, l)
FreeAt(p) ==
  LET v == p + zipmapRawKeyLength(p) IN Byte(v + ZIPMAP_LEN_BYTES(zipmapDecodeLength(v)))

(* zipmapRewind and zipmapNext: the offsets of the entries, in order, and    *)
(* then that of the end.                                                     *)
Offsets ==
  LET from[p \in 0..Len(zm)] ==
        IF Byte(p) = End THEN <<p>> ELSE <<p>> \o from[p + zipmapRawEntryLength(p)]
  IN  from[1]
Entries == ToSet(Front(Offsets))

(* zipmapLookupRaw: the first match.                                         *)
zipmapLookupRaw(key) ==
  LET found == SelectSeq(Front(Offsets), LAMBDA p : KeyAt(p) = key)
  IN  IF found = <<>> THEN -1 ELSE Head(found)

zmlen == Last(Offsets) + 1

(* realloc, memmove of the bytes from offset from on to offset to, and the   *)
(* end mark.  New bytes are whatever was in memory.                          *)
MovedTail(from, to) ==
  LET len == zmlen + to - from
  IN  [i \in 1..len |->
         IF i = len THEN End
         ELSE IF i > to THEN zm[i - to + from]
         ELSE IF i <= Len(zm) THEN zm[i] ELSE End]

Written(bytes, p, what) ==
  [i \in DOMAIN bytes |-> IF i > p /\ i <= p + Len(what) THEN what[i - p] ELSE bytes[i]]

Counted(bytes, by) == IF bytes[1] < BigLen THEN [bytes EXCEPT ![1] = @ + by] ELSE bytes

(* Mutation: room that would be left over is kept, however much it is.       *)
zipmapSet_KeepsRoom(key, val) ==
  LET p == zipmapLookupRaw(key)
      at == IF p = -1 THEN zmlen - 1 ELSE p
      reqlen == zipmapRequiredLength(Len(key), Len(val))
      freelen == IF p = -1 THEN 0 ELSE zipmapRawEntryLength(p)
      stays == p # -1 /\ freelen >= reqlen
      empty == IF stays THEN freelen - reqlen ELSE 0
      room == IF stays THEN zm ELSE MovedTail(at + freelen, at + reqlen)
  IN  /\ zm' = Written(IF p = -1 THEN Counted(room, 1) ELSE room, at,
                       zipmapEncodeLength(Len(key)) \o key
                         \o zipmapEncodeLength(Len(val)) \o <<empty>> \o val)
      /\ reply' = (p # -1)

zipmapSet(key, val) ==
  LET p == zipmapLookupRaw(key)
      at == IF p = -1 THEN zmlen - 1 ELSE p
      reqlen == zipmapRequiredLength(Len(key), Len(val))
      freelen == IF p = -1 THEN 0 ELSE zipmapRawEntryLength(p)
      stays == p # -1 /\ freelen >= reqlen /\ freelen - reqlen < MaxFree
      empty == IF stays THEN freelen - reqlen ELSE 0
      room == IF stays THEN zm ELSE MovedTail(at + freelen, at + reqlen)
  IN  /\ zm' = Written(IF p = -1 THEN Counted(room, 1) ELSE room, at,
                       zipmapEncodeLength(Len(key)) \o key
                         \o zipmapEncodeLength(Len(val)) \o <<empty>> \o val)
      /\ reply' = (p # -1)

zipmapDel(key) ==
  LET p == zipmapLookupRaw(key)
  IN  /\ zm' = IF p = -1 THEN zm ELSE Counted(MovedTail(p + zipmapRawEntryLength(p), p), -1)
      /\ reply' = (p # -1)

(* The count is trusted below ZIPMAP_BIGLEN and made again otherwise.        *)
zipmapLen ==
  /\ zm' = IF zm[1] >= BigLen /\ Cardinality(Entries) < BigLen
           THEN [zm EXCEPT ![1] = Cardinality(Entries)] ELSE zm
  /\ UNCHANGED reply

(* zipmapNew                                                                 *)
Init == zm = <<0, End>> /\ reply = FALSE

Next ==
  \/ \E key \in Keys, val \in Vals : zipmapSet(key, val)
  \/ \E key \in Keys : zipmapDel(key)
  \/ zipmapLen

Spec == Init /\ [][Next]_vars

-----------------------------------------------------------------------------
(* Properties *)

(* The walk from entry to entry ends on the last byte, whatever bytes the    *)
(* keys and values are made of, a count below ZIPMAP_BIGLEN is the number of *)
(* entries, and no entry keeps more than a few free bytes, so that the free  *)
(* count, one byte, never overflows.                                         *)
ZipmapFits ==
  /\ zmlen = Len(zm)
  /\ zm[1] < BigLen => zm[1] = Cardinality(Entries)
  /\ \A p \in Entries : FreeAt(p) < MaxFree

(* The pairs of keys and values, in the order in which they are met.         *)
Pairs == {<<p, KeyAt(p), ValueAt(p)>> : p \in Entries}

M == INSTANCE AbstractMap
       WITH Items <- Vals,
            map <- LET pairs == Pairs
                   IN  [key \in {e[2] : e \in pairs} |-> (CHOOSE e \in pairs : e[2] = key)[3]]

(* Whatever moves in memory, a zipmap is a map.                              *)
ZipmapImplementsMap == M!Spec
=============================================================================
