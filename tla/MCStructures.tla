---------------------------- MODULE MCStructures ----------------------------
(***************************************************************************)
(* The data structures under the values, one at a time: the subject is     *)
(* chosen at the start and the others stay as they are created.            *)
(***************************************************************************)
EXTENDS Integers, Sequences

CONSTANTS Subjects, MaxLevel, MaxElement, NoKey, MaxEntries, ShrinkingInserts

VARIABLES subject,
          encoding, isLength, contents, isReply,          \* intset
          zsl, pairs, zReply,                             \* sorted set
          dict, canResize, iter, seen, stayed, dictReply, \* hash table
          zm, zmReply,                                    \* zipmap
          zl, bytes, tail, zlLength                       \* ziplist

intset == <<encoding, isLength, contents, isReply>>
sortedset == <<zsl, pairs, zReply>>
table == <<dict, canResize, iter, seen, stayed, dictReply>>
zipmap == <<zm, zmReply>>
ziplist == <<zl, bytes, tail, zlLength>>

-----------------------------------------------------------------------------
(* INT16_MAX is 2 and INT32_MAX is 5: the values are on both sides of every  *)
(* boundary.                                                                 *)
I == INSTANCE Intset
       WITH Values <- {-9, -4, -3, -1, 0, 1, 2, 5, 9}, Max16 <- 2, Max32 <- 5, Garbage <- 1000,
            length <- isLength, reply <- isReply

S == INSTANCE SkipList WITH Scores <- {0, 1}, zl <- pairs, reply <- zReply

(* Two keys share a bucket of two, all of them the only bucket of one.       *)
D == INSTANCE Dict
       WITH Keys <- {"k0", "k1", "k2"}, Vals <- {"v"},
            Hash <- [k0 |-> 0, k1 |-> 1, k2 |-> 2],
            InitialSize <- 1, ForceRatio <- 1, MinFill <- 50, reply <- dictReply

(* Keys and values on both sides of ZIPMAP_BIGLEN, which is 3, made of the   *)
(* bytes 3 and 4 that mean a long length and the end.                        *)
Zm == INSTANCE Zipmap
        WITH Keys <- {<<1>>, <<4, 4>>, <<4, 4, 4>>}, Vals <- {<<>>, <<3, 4>>, <<4, 4, 4, 4>>},
             BigLen <- 3, End <- 4, MaxFree <- 2, reply <- zmReply

(* With the long form of prevlen, and not without it, a string of 249 bytes  *)
(* makes an entry of more than 253.                                          *)
SizeOf == [a |-> 1, number |-> 5, middle |-> 249, long |-> 300]
Size(v) == SizeOf[v]
IntSize(v) == IF v = "number" THEN 4 ELSE 0

Zl == INSTANCE Ziplist
        WITH Vals <- DOMAIN SizeOf, Damaged <- "damaged", MaxCount <- 2, length <- zlLength

ASSUME StructuresAssumption ==
  /\ I!IntsetAssumption /\ S!SkipListAssumption /\ D!DictAssumption
  /\ Zm!ZipmapAssumption /\ Zl!ZiplistAssumption

-----------------------------------------------------------------------------
Init ==
  /\ subject \in Subjects
  /\ I!Init /\ S!Init /\ D!Init /\ Zm!Init /\ Zl!Init

NextIntset == subject = "intset" /\ I!Next /\ UNCHANGED <<sortedset, table, zipmap, ziplist>>
NextSortedSet == subject = "sortedset" /\ S!Next /\ UNCHANGED <<intset, table, zipmap, ziplist>>
NextTable == subject = "dict" /\ D!Next /\ UNCHANGED <<intset, sortedset, zipmap, ziplist>>
NextZipmap == subject = "zipmap" /\ Zm!Next /\ UNCHANGED <<intset, sortedset, table, ziplist>>
NextZiplist ==
  subject = "ziplist" /\ Zl!Next /\ UNCHANGED <<intset, sortedset, table, zipmap>>

Next ==
  /\ NextIntset \/ NextSortedSet \/ NextTable \/ NextZipmap \/ NextZiplist
  /\ UNCHANGED subject

vars == <<subject, intset, sortedset, table, zipmap, ziplist>>

Spec == Init /\ [][Next]_vars

-----------------------------------------------------------------------------
(* Properties *)

(* t_zset.c: the skip list and the ziplist of a sorted set give the same     *)
(* order, ranks and range limits.                                            *)
EncodingsAgree == subject = "sortedset" => S!EncodingsAgree

(* dict.c: while buckets move, every key is where a lookup searches for it,  *)
(* once, and the counts that end a rehashing are right.                      *)
EveryKeyHasItsBucket == subject = "dict" => D!EveryKeyHasItsBucket

(* dict.c: a safe iterator returns every key that was there all the time,    *)
(* once.                                                                     *)
IteratorsSeeAll == subject = "dict" => D!IteratorsSeeAll

(* The compact encodings hold together.  intset.c: sorted, without           *)
(* duplicates, and no value lost in an upgrade of the encoding.  zipmap.c:   *)
(* the walk over the entries ends on the last byte, and counts and free      *)
(* bytes stay in their ranges.  ziplist.c: lengths of previous entries,      *)
(* tail, bytes and count agree with the entries after every cascade.         *)
CompactEncodingsHold ==
  CASE subject = "intset" -> I!IntsetSorted
    [] subject = "zipmap" -> Zm!ZipmapFits
    [] subject = "ziplist" -> Zl!ZiplistChains
    [] OTHER -> TRUE

(* Every structure, read as its users read it, is the map or the list that   *)
(* the commands take it for: no upgrade, rehashing, cascade or move of bytes *)
(* loses or changes an entry that the operation was not about.               *)
StructuresImplementMaps ==
  /\ I!IntsetImplementsMap
  /\ S!SkipListImplementsMap
  /\ D!DictImplementsMap
  /\ Zm!ZipmapImplementsMap
  /\ Zl!ZiplistImplementsList
=============================================================================
