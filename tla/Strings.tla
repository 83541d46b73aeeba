------------------------------- MODULE Strings -------------------------------
(***************************************************************************)
(* Strings: the commands of t_string.c and the encodings of object.c.      *)
(*                                                                         *)
(* A string is a sequence of bytes, and a byte is a digit (1), a zero byte *)
(* (0), which SETBIT and SETRANGE make, or another character (2).  Numbers *)
(* are written in unary: n is n + 1 digits.  MaxBytes stands for the 512   *)
(* megabytes of a string and, for numbers, for LLONG_MAX.                  *)
(***************************************************************************)
EXTENDS KeySpace

CONSTANT MaxBytes

ASSUME StringsAssumption == MaxBytes \in Nat \ {0}

Digits(n) == [i \in 1..n + 1 |-> 1]
IsNumber(bytes) == bytes # <<>> /\ \A i \in DOMAIN bytes : bytes[i] = 1

(* strtoll, which stops at a zero byte and takes an empty string for 0.      *)
LeadingDigits(bytes) ==
  CHOOSE k \in 0..Len(bytes) : /\ \A i \in 1..k : bytes[i] = 1
                              /\ (k = Len(bytes) \/ bytes[k + 1] # 1)
ReadsAsNumber(bytes) ==
  LET k == LeadingDigits(bytes) IN k = Len(bytes) \/ bytes[k + 1] = 0
getLongLongFromObject(bytes) ==
  LET k == LeadingDigits(bytes) IN IF k = 0 THEN 0 ELSE k - 1

AString(enc, bytes) == [type |-> "string", enc |-> enc, bytes |-> bytes]

tryObjectEncoding(bytes) == AString(IF IsNumber(bytes) THEN "int" ELSE "raw", bytes)
createStringObjectFromLongLong(n) == AString("int", Digits(n))

setGenericCommand(s0, c, nx) ==
  LET s == lookupKeyWrite(s0, c.key)
  IN  IF nx /\ Present(s, c.key) THEN s
      ELSE [setKey(s, c.key, tryObjectEncoding(c.bytes)) EXCEPT !.dirty = @ + 1]

setCommand(s, c) == setGenericCommand(s, c, FALSE)
setnxCommand(s, c) == setGenericCommand(s, c, TRUE)
setexCommand(s, c) == setExpire(setGenericCommand(s, c, FALSE), c.key, s.now + c.seconds)

getsetCommand(s0, c) ==
  LET s == lookupKeyRead(s0, c.key)
  IN  IF s.dict[c.key].type \notin {"none", "string"} THEN s
      ELSE [setKey(s, c.key, tryObjectEncoding(c.bytes)) EXCEPT !.dirty = @ + 1]

(* The bytes that APPEND, SETRANGE and SETBIT work on: those of a copy when  *)
(* the object is encoded, none when there is no key.                         *)
BytesAt(s, p) == IF Present(s, p) THEN s.dict[p].bytes ELSE <<>>
Wrong(s, p) == s.dict[p].type \notin {"none", "string"}

sdsgrowzero(bytes, n) ==
  [i \in 1..(IF n > Len(bytes) THEN n ELSE Len(bytes)) |->
     IF i <= Len(bytes) THEN bytes[i] ELSE 0]
Overlay(bytes, offset, value) ==
  [i \in DOMAIN bytes |->
     IF i > offset /\ i <= offset + Len(value) THEN value[i - offset] ELSE bytes[i]]

setbitCommand(s0, c) ==
  LET s == lookupKeyWrite(s0, c.key)
      grown == sdsgrowzero(BytesAt(s, c.key), c.offset + 1)
  IN  IF c.offset >= MaxBytes THEN s0
      ELSE IF Wrong(s, c.key) THEN s
      ELSE Changed(s, c.key, AString("raw", Overlay(grown, c.offset, <<c.on>>)), 1)

setrangeCommand(s0, c) ==
  LET s == lookupKeyWrite(s0, c.key)
      grown == sdsgrowzero(BytesAt(s, c.key), c.offset + Len(c.bytes))
  IN  IF Wrong(s, c.key) \/ c.bytes = <<>> \/ c.offset + Len(c.bytes) > MaxBytes THEN s
      ELSE Changed(s, c.key, AString("raw", Overlay(grown, c.offset, c.bytes)), 1)

(* A new key holds the argument, encoded; an old one is a raw string.        *)
appendCommand(s0, c) ==
  LET s == lookupKeyWrite(s0, c.key)
      total == BytesAt(s, c.key) \o c.bytes
  IN  IF Wrong(s, c.key) THEN s
      ELSE IF ~Present(s, c.key) THEN Changed(s, c.key, tryObjectEncoding(c.bytes), 1)
      ELSE IF Len(total) > MaxBytes THEN s
      ELSE Changed(s, c.key, AString("raw", total), 1)

(* MSET, and MSETNX, which sets nothing when one key exists.                 *)
msetGenericCommand(s0, c, nx) ==
  LET pairs == c.pairs
      s == IF nx THEN LookupAll(s0, [i \in DOMAIN pairs |-> pairs[i].key]) ELSE s0
      SetOne(t, pair) == setKey(t, pair.key, tryObjectEncoding(pair.bytes))
  IN  IF nx /\ \E i \in DOMAIN pairs : Present(s, pairs[i].key) THEN s
      ELSE [FoldLeft(SetOne, s, pairs) EXCEPT !.dirty = @ + Len(pairs)]

(* INCR, DECR, INCRBY, DECRBY: the expire time stays.                        *)
incrDecrCommand(s0, c) ==
  LET s == lookupKeyWrite(s0, c.key)
      value == getLongLongFromObject(BytesAt(s, c.key)) + c.incr
  IN  IF Wrong(s, c.key) \/ ~ReadsAsNumber(BytesAt(s, c.key)) THEN s
      ELSE IF value \notin 0..MaxBytes - 1 THEN s
      ELSE Changed(s, c.key, createStringObjectFromLongLong(value), 1)

(* An integer encoding only for what reads back as that integer.             *)
StringFits(v) == v.enc = "int" => IsNumber(v.bytes)

StringCommands(keys, texts) ==
  [op : {"SET", "SETNX", "GETSET", "APPEND"}, key : keys, bytes : texts]
  \cup [op : {"SETRANGE"}, key : keys, offset : 0..1, bytes : texts]
  \cup [op : {"SETBIT"}, key : keys, offset : 0..1, on : {0, 1}]
  \cup [op : {"INCRBY"}, key : keys, incr : {-1, 1}]
=============================================================================
