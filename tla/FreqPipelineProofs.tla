-------------------------- MODULE FreqPipelineProofs --------------------------
(***************************************************************************)
(* What holds of FreqPipeline for any number of readings, lines, seconds   *)
(* and crashes, and for a Redis of any size.                               *)
(***************************************************************************)
EXTENDS FreqPipeline, Integers, SequenceTheorems, WellFoundedInduction, TLAPS

USE FreqPipelineAssumption

-----------------------------------------------------------------------------
(* The sorted set: what ZREVRANGE 0 0 answers *)

(* A nonempty set of bounded naturals has a greatest one: a minimum of the   *)
(* distances to the bound.                                                   *)
LEMMA Greatest ==
  ASSUME NEW N \in Nat, NEW T \in SUBSET (0..N), T # {}
  PROVE  \E m \in T : \A j \in T : j <= m
<1> DEFINE Distances == {n \in Nat : \E m \in T : n = N - m}
           Less == OpToRel(<, Nat)
<1>1. Distances # {} /\ Distances \subseteq Nat
  <2>1. PICK m \in T : TRUE
    OBVIOUS
  <2>2. N - m \in Distances
    BY <2>1
  <2>3. QED
    BY <2>2
<1>2. \A x, y \in Nat : x < y => <<x, y>> \in Less
  BY DEF OpToRel
<1>3. IsWellFoundedOn(Less, Nat)
  BY NatLessThanWellFounded
<1>4. PICK x \in Distances : \A y \in Distances : ~(<<y, x>> \in Less)
  <2> HIDE DEF Distances, Less
  <2> QED BY <1>1, <1>3, WFMin
<1>5. PICK m \in T : x = N - m
  BY <1>4
<1>6. ASSUME NEW j \in T PROVE j <= m
  <2>1. N - j \in Distances /\ N - j \in Nat /\ x \in Nat
    OBVIOUS
  <2>2. ~(N - j < x)
    <3> HIDE DEF Less, Distances
    <3> QED BY <1>2, <1>4, <2>1
  <2>3. QED
    BY <1>5, <2>2
<1>7. QED
  BY <1>6

SortedSet == [Readings -> Seconds \cup {Never}]

(* A nonempty set has a member of the highest score which is the greatest of *)
(* those: the CHOOSE of zrevrange finds one.                                 *)
LEMMA RevrangeFinds ==
  ASSUME NEW z \in SortedSet, Members(z) # {}
  PROVE  /\ zrevrange(z) \in Members(z)
         /\ \A o \in Members(z) : z[o] <= z[zrevrange(z)]
<1> DEFINE Scores == {s \in Seconds : \E r \in Members(z) : s = z[r]}
<1>1. \A r \in Members(z) : r \in Readings /\ z[r] \in Seconds /\ z[r] \in Nat /\ r \in Nat
  BY DEF Members, Readings, Seconds, SortedSet
<1>2. Scores \in SUBSET (0..MaxTime) /\ Scores # {} /\ MaxTime \in Nat
  BY <1>1 DEF Seconds
<1>3. PICK high \in Scores : \A s \in Scores : s <= high
  <2> HIDE DEF Scores
  <2> QED BY <1>2, Greatest
<1> DEFINE Holders == {r \in Members(z) : z[r] = high}
<1>4. Holders \in SUBSET (0..NumReadings) /\ Holders # {} /\ NumReadings \in Nat
  BY <1>1, <1>3 DEF Readings
<1>5. PICK top \in Holders : \A r \in Holders : r <= top
  <2> HIDE DEF Holders
  <2> QED BY <1>4, Greatest
<1>6. top \in Members(z) /\ \A o \in Members(z) : z[top] > z[o] \/ (z[top] = z[o] /\ top >= o)
  <2>1. top \in Members(z) /\ z[top] = high
    BY <1>5
  <2>2. ASSUME NEW o \in Members(z) PROVE z[top] > z[o] \/ (z[top] = z[o] /\ top >= o)
    <3>1. z[o] <= high /\ high \in Nat /\ z[o] \in Nat /\ o \in Nat /\ top \in Nat
      BY <1>1, <1>3, <2>1
    <3>2. CASE z[o] = high
      BY <1>5, <2>1, <3>1, <3>2
    <3>3. CASE z[o] # high
      BY <2>1, <3>1, <3>3
    <3>4. QED
      BY <3>2, <3>3
  <2>3. QED
    BY <2>1, <2>2
<1>7. /\ zrevrange(z) \in Members(z)
      /\ \A o \in Members(z) : \/ z[zrevrange(z)] > z[o]
                               \/ z[zrevrange(z)] = z[o] /\ zrevrange(z) >= o
  <2> HIDE DEF Holders, Scores
  <2> QED BY <1>6 DEF zrevrange
<1>8. QED
  BY <1>1, <1>7

(* Any member whose score no other exceeds has the score of the newest.      *)
LEMMA NewestIs ==
  ASSUME NEW z \in SortedSet, NEW r \in Members(z), \A o \in Members(z) : z[o] <= z[r]
  PROVE  Newest(z) = z[r]
<1>1. /\ zrevrange(z) \in Members(z)
      /\ \A o \in Members(z) : z[o] <= z[zrevrange(z)]
  BY RevrangeFinds
<1>2. \A o \in Members(z) : z[o] \in Nat
  BY DEF Members, SortedSet, Seconds
<1>3. QED
  BY <1>1, <1>2 DEF Newest

LEMMA NewestType ==
  ASSUME NEW z \in SortedSet
  PROVE  /\ Newest(z) \in Seconds \cup {Never}
         /\ Members(z) # {} => /\ Newest(z) \in Seconds
                               /\ \E r \in Members(z) : z[r] = Newest(z)
                               /\ \A o \in Members(z) : z[o] <= Newest(z)
<1>1. \A r \in Members(z) : z[r] \in Seconds
  BY DEF Members, SortedSet
<1>2. QED
  BY <1>1, RevrangeFinds DEF Newest

-----------------------------------------------------------------------------
(* Types *)

LEMMA Numbers ==
  /\ 1 \in Readings /\ 0 \in Seconds /\ MaxTime \in Seconds
  /\ Readings \subseteq Nat /\ Seconds \subseteq Nat
  /\ Never \in Nat /\ Never \notin Seconds
  /\ EmptySet \in SortedSet /\ Members(EmptySet) = {}
  BY DEF Readings, Seconds, Never, EmptySet, SortedSet, Members

LEMMA ReaderAtType ==
  ASSUME NEW pc \in {"readline", "stamp", "zadd", "dead"}
  PROVE  ReaderAt(pc) \in
           [pc : {"readline", "stamp", "zadd", "dead"}, data : Readings, now : Seconds]
  BY Numbers DEF ReaderAt

(* The second that CloseGap leaves a score at.                               *)
Closed(v, s) == IF s > v /\ s # Never THEN s - 1 ELSE s

LEMMA ClosedIs ==
  ASSUME NEW v \in Seconds
  PROVE  /\ Closed(v, Never) = Never
         /\ \A s \in Seconds : Closed(v, s) \in Seconds /\ Closed(v, s) <= s
         /\ \A s, t \in Seconds : s <= t => Closed(v, s) <= Closed(v, t)
  BY DEF Closed, Seconds, Never

(* A set keeps its members when a gap is closed.                             *)
LEMMA ClosedSet ==
  ASSUME NEW v \in Seconds, NEW z \in SortedSet
  PROVE  LET zc == [r \in Readings |-> Closed(v, z[r])] IN
         /\ zc \in SortedSet
         /\ Members(zc) = Members(z)
<1>1. \A r \in Readings : z[r] \in Seconds \/ z[r] = Never
  BY DEF SortedSet
<1>2. ASSUME NEW r \in Readings
      PROVE  Closed(v, z[r]) \in Seconds \cup {Never} /\ (Closed(v, z[r]) = Never <=> z[r] = Never)
  <2>1. CASE z[r] \in Seconds
    <3>1. Closed(v, z[r]) \in Seconds
      BY <2>1, ClosedIs
    <3>2. QED
      BY <2>1, <3>1, Numbers
  <2>2. CASE z[r] = Never
    BY <2>2, ClosedIs
  <2>3. QED
    BY <1>1, <2>1, <2>2
<1>3. QED
  BY <1>2 DEF SortedSet, Members

(* What CloseGap does, with its local definitions named.                     *)
LEMMA CloseGapIs ==
  CloseGap =>
    /\ clock = MaxTime
    /\ \E v \in Seconds :
         /\ freqSet' = [r \in Readings |-> Closed(v, freqSet[r])]
         /\ dump' = [r \in Readings |-> Closed(v, dump[r])]
         /\ lastStamp' = Closed(v, lastStamp)
         /\ reader' = [reader EXCEPT !.now = Closed(v, @)]
    /\ UNCHANGED <<grid, serial, clock, jumps, redis, crashes, served>>
  BY DEF CloseGap, Closed

LEMMA TypeStep ==
  ASSUME TypeOK, Next
  PROVE  TypeOK'
<1>1. /\ serial \in Seq(Readings \cup {0}) /\ Len(serial) \in Nat /\ Len(serial) <= MaxLines
      /\ reader \in [pc : {"readline", "stamp", "zadd", "dead"}, data : Readings, now : Seconds]
      /\ reader.data \in Readings /\ reader.now \in Seconds
      /\ ReaderAt("readline") \in
           [pc : {"readline", "stamp", "zadd", "dead"}, data : Readings, now : Seconds]
      /\ ReaderAt("dead") \in
           [pc : {"readline", "stamp", "zadd", "dead"}, data : Readings, now : Seconds]
  BY ReaderAtType DEF TypeOK, SortedSet
<1>2. CASE ReadLine
  <2>1. /\ Head(serial) \in Readings \cup {0}
        /\ Tail(serial) \in Seq(Readings \cup {0}) /\ Len(Tail(serial)) <= MaxLines
    BY <1>1, <1>2, HeadTailProperties DEF ReadLine
  <2>2. QED
    BY <1>1, <1>2, <2>1 DEF ReadLine, TypeOK, SortedSet
<1>3. CASE ReadBrokenLine
  BY <1>1, <1>3 DEF ReadBrokenLine, TypeOK, SortedSet
<1>4. CASE Stamp
  BY <1>1, <1>4 DEF Stamp, TypeOK, SortedSet
<1>5. CASE ZAdd
  <2>1. CASE ZaddAccepted
    BY <1>1, <1>5, <2>1 DEF ZAdd, zadd, SortedSet, TypeOK
  <2>2. CASE ~ZaddAccepted
    BY <1>1, <1>5, <2>2 DEF ZAdd, TypeOK, SortedSet
  <2>3. QED
    BY <2>1, <2>2
<1>6. CASE GET
  BY <1>6 DEF GET, Instruction, TypeOK, SortedSet
<1>7. CASE Save
  BY <1>7 DEF Save, TypeOK, SortedSet
<1>8. CASE Crash
  BY <1>8, Numbers DEF Crash, TypeOK, SortedSet
<1>9. CASE Startup
  BY <1>9, Numbers, NewestType DEF Startup, TypeOK, SortedSet
<1>10. CASE SendReport
  BY <1>1, <1>10, AppendProperties DEF SendReport, TypeOK, SortedSet
<1>11. CASE SendLog
  BY <1>1, <1>11, AppendProperties DEF SendLog, TypeOK, SortedSet
<1>12. CASE GridChanges
  BY <1>12 DEF GridChanges, TypeOK, SortedSet
<1>13. CASE Tick
  BY <1>13 DEF Tick, Seconds, TypeOK, SortedSet
<1>14. CASE CloseGap
  <2>1. PICK v \in Seconds :
          /\ freqSet' = [r \in Readings |-> Closed(v, freqSet[r])]
          /\ dump' = [r \in Readings |-> Closed(v, dump[r])]
          /\ lastStamp' = Closed(v, lastStamp)
          /\ reader' = [reader EXCEPT !.now = Closed(v, @)]
    BY <1>14, CloseGapIs
  <2>2. freqSet' \in SortedSet /\ dump' \in SortedSet
    BY <2>1, ClosedSet DEF TypeOK, SortedSet
  <2>3. lastStamp' \in Seconds \cup {Never}
    BY <2>1, ClosedIs DEF TypeOK, SortedSet
  <2>4. reader' \in [pc : {"readline", "stamp", "zadd", "dead"}, data : Readings, now : Seconds]
    BY <1>1, <2>1, ClosedIs
  <2>5. UNCHANGED <<grid, serial, clock, jumps, redis, crashes, served>>
    BY <1>14, CloseGapIs
  <2>6. QED
    BY <2>2, <2>3, <2>4, <2>5 DEF TypeOK, SortedSet
<1>15. CASE SetClockBack
  BY <1>15 DEF SetClockBack, Seconds, TypeOK, SortedSet
<1>16. QED
  BY <1>2, <1>3, <1>4, <1>5, <1>6, <1>7, <1>8, <1>9, <1>10, <1>11, <1>12, <1>13, <1>14,
     <1>15 DEF Next, Reader

-----------------------------------------------------------------------------
(* The inductive invariant *)

(* The newest score in memory is the last stamp that Redis still has.        *)
StampIsNewest ==
  /\ \A r \in Members(freqSet) : lastStamp \in Seconds /\ freqSet[r] <= lastStamp
  /\ Members(freqSet) # {} => \E r \in Members(freqSet) : freqSet[r] = lastStamp

(* A second t comes after everything that was stored and saved.              *)
After(t) ==
  /\ lastStamp # Never => lastStamp <= t
  /\ \A r \in Members(dump) : dump[r] <= t

(* Without a jump of the clock, the clock and the now of a reader that is    *)
(* about to store it come after every stamp, those of the dump included: a   *)
(* restart between Stamp and ZAdd goes back to older ones only.              *)
OrderInv ==
  jumps = 0 => /\ StampIsNewest
               /\ After(clock)
               /\ reader.pc = "zadd" => reader.now <= clock /\ After(reader.now)

IInv == TypeOK /\ OrderInv

LEMMA OrderStep ==
  ASSUME IInv, Next
  PROVE  OrderInv'
<1>1. /\ freqSet \in SortedSet /\ dump \in SortedSet /\ clock \in Seconds
      /\ lastStamp \in Seconds \cup {Never} /\ reader.now \in Seconds /\ jumps \in Nat
      /\ Seconds \subseteq Nat /\ Never \in Nat /\ Never \notin Seconds
      /\ reader \in [pc : {"readline", "stamp", "zadd", "dead"}, data : Readings, now : Seconds]
  BY Numbers DEF IInv, TypeOK, SortedSet
<1> SUFFICES ASSUME jumps' = 0
             PROVE  /\ StampIsNewest' /\ After(clock)'
                    /\ reader'.pc = "zadd" => reader'.now <= clock' /\ After(reader.now)'
  BY DEF OrderInv
<1>2. jumps = 0 \/ SetClockBack
  BY DEF Next, Reader, ReadLine, ReadBrokenLine, Stamp, ZAdd, GET, Save, Crash, Startup,
         SendReport, SendLog, GridChanges, Tick, CloseGap, SetClockBack
<1>3. ~SetClockBack
  BY <1>1 DEF SetClockBack
<1>4. /\ StampIsNewest /\ After(clock)
      /\ reader.pc = "zadd" => reader.now <= clock /\ After(reader.now)
  BY <1>2, <1>3 DEF IInv, OrderInv
<1>5. CASE ReadLine
  BY <1>1, <1>4, <1>5 DEF ReadLine, StampIsNewest, After, Members
<1>6. CASE ReadBrokenLine
  BY <1>1, <1>4, <1>6 DEF ReadBrokenLine, StampIsNewest, After, Members, ReaderAt
<1>7. CASE Stamp
  BY <1>1, <1>4, <1>7 DEF Stamp, StampIsNewest, After, Members
<1>8. CASE ZAdd
  <2>1. CASE ZaddAccepted
    <3> DEFINE now == reader.now
               data == reader.data
    <3>1. /\ freqSet' = [freqSet EXCEPT ![data] = now] /\ data \in Readings
          /\ lastStamp' = now /\ reader' = ReaderAt("readline")
          /\ UNCHANGED <<clock, dump>>
          /\ now <= clock /\ After(now)
      BY <1>1, <1>4, <1>8, <2>1 DEF ZAdd, zadd
    <3>2. /\ data \in Members(freqSet') /\ freqSet'[data] = now
          /\ \A r \in Members(freqSet') : r # data => r \in Members(freqSet) /\ freqSet'[r] = freqSet[r]
      BY <1>1, <3>1 DEF Members, SortedSet
    <3>3. ASSUME NEW r \in Members(freqSet') PROVE freqSet'[r] <= now
      <4> HIDE DEF now, data
      <4>0. now \in Nat
        BY <1>1 DEF now
      <4>1. CASE r = data
        BY <3>2, <4>0, <4>1
      <4>2. CASE r # data
        <5>1. r \in Members(freqSet) /\ freqSet[r] <= lastStamp /\ lastStamp \in Seconds
          BY <1>4, <3>2, <4>2 DEF StampIsNewest
        <5>2. lastStamp <= now /\ freqSet[r] \in Nat
          BY <1>1, <3>1, <5>1 DEF After, SortedSet, Members
        <5>3. freqSet'[r] = freqSet[r] /\ lastStamp \in Nat
          BY <1>1, <3>2, <4>2, <5>1
        <5>4. QED
          BY <4>0, <5>1, <5>2, <5>3
      <4>3. QED
        BY <4>1, <4>2
    <3>4. StampIsNewest'
      BY <1>1, <3>1, <3>2, <3>3 DEF StampIsNewest
    <3>5. After(clock)' /\ reader'.pc # "zadd"
      BY <1>4, <3>1 DEF After, ReaderAt
    <3>6. QED
      BY <3>4, <3>5
  <2>2. CASE ~ZaddAccepted
    BY <1>4, <1>8, <2>2 DEF ZAdd, StampIsNewest, After, Members, ReaderAt
  <2>3. QED
    BY <2>1, <2>2
<1>9. CASE GET
  BY <1>4, <1>9 DEF GET, StampIsNewest, After
<1>10. CASE Save
  <2>1. \A r \in Members(freqSet) : freqSet[r] <= lastStamp /\ lastStamp # Never
                                    /\ freqSet[r] \in Nat /\ lastStamp \in Nat
    BY <1>1, <1>4 DEF StampIsNewest, SortedSet, Members
  <2>2. \A t \in Nat : After(t) => After(t)'
    BY <1>10, <2>1 DEF Save, After
  <2>3. QED
    BY <1>1, <1>4, <1>10, <2>2 DEF Save, StampIsNewest
<1>11. CASE Crash
  <2>1. Members(freqSet') = {}
    BY <1>11, Numbers DEF Crash
  <2>2. QED
    BY <1>4, <1>11, <2>1 DEF Crash, StampIsNewest, After
<1>12. CASE Startup
  <2>1. StampIsNewest'
    BY <1>1, <1>12, NewestType DEF Startup, StampIsNewest
  <2>2. \A t \in Nat : After(t) => After(t)'
    <3>1. dump' = dump \/ Members(dump') = {}
      BY <1>12, Numbers DEF Startup
    <3>2. Newest(dump) # Never => \E r \in Members(dump) : dump[r] = Newest(dump)
      BY <1>1, NewestType DEF Newest
    <3>3. QED
      BY <1>12, <3>1, <3>2 DEF Startup, After
  <2>3. QED
    BY <1>1, <1>4, <1>12, <2>1, <2>2 DEF Startup
<1>13. CASE SendReport \/ SendLog \/ GridChanges
  BY <1>4, <1>13 DEF SendReport, SendLog, GridChanges, StampIsNewest, After
<1>14. CASE Tick
  <2>1. \A r \in Members(dump) : dump[r] \in Nat
    BY <1>1 DEF SortedSet, Members
  <2>2. After(clock)'
    BY <1>1, <1>4, <1>14, <2>1 DEF Tick, After
  <2>3. reader.pc = "zadd" => reader.now <= clock'
    <3>1. clock' = clock + 1 /\ clock \in Nat /\ reader.now \in Nat
      BY <1>1, <1>14 DEF Tick
    <3>2. QED
      BY <1>4, <3>1
  <2>4. QED
    BY <1>4, <1>14, <2>2, <2>3 DEF Tick, StampIsNewest, After
<1>15. CASE CloseGap
  <2>1. PICK v \in Seconds :
          /\ freqSet' = [r \in Readings |-> Closed(v, freqSet[r])]
          /\ dump' = [r \in Readings |-> Closed(v, dump[r])]
          /\ lastStamp' = Closed(v, lastStamp)
          /\ reader' = [reader EXCEPT !.now = Closed(v, @)]
    BY <1>15, CloseGapIs
  <2>2. clock' = clock /\ clock = MaxTime
    BY <1>15, CloseGapIs
  <2>3. /\ Members(freqSet') = Members(freqSet) /\ Members(dump') = Members(dump)
        /\ \A r \in Members(freqSet) : freqSet'[r] = Closed(v, freqSet[r]) /\ freqSet[r] \in Seconds
        /\ \A r \in Members(dump) : dump'[r] = Closed(v, dump[r]) /\ dump[r] \in Seconds
    <3>1. Members(freqSet') = Members(freqSet) /\ Members(dump') = Members(dump)
      BY <1>1, <2>1, ClosedSet
    <3>2. QED
      BY <1>1, <2>1, <3>1 DEF Members, SortedSet
  <2>4. StampIsNewest'
    <3>1. ASSUME NEW r \in Members(freqSet)
          PROVE  lastStamp' \in Seconds /\ freqSet'[r] <= lastStamp'
      <4>1. lastStamp \in Seconds /\ freqSet[r] <= lastStamp /\ freqSet[r] \in Seconds
        BY <1>4, <2>3 DEF StampIsNewest
      <4>2. QED
        BY <2>1, <2>3, <4>1, ClosedIs
    <3>2. Members(freqSet) # {} => \E r \in Members(freqSet) : freqSet'[r] = lastStamp'
      BY <1>4, <2>1, <2>3 DEF StampIsNewest
    <3>3. QED
      BY <2>3, <3>1, <3>2 DEF StampIsNewest
  <2>5. ASSUME NEW t \in Seconds, After(t)
        PROVE  /\ lastStamp' # Never => lastStamp' <= Closed(v, t)
               /\ \A r \in Members(dump') : dump'[r] <= Closed(v, t)
    <3>1. lastStamp' # Never => lastStamp' <= Closed(v, t)
      BY <1>1, <2>1, <2>5, ClosedIs DEF After
    <3>2. ASSUME NEW r \in Members(dump') PROVE dump'[r] <= Closed(v, t)
      <4>1. dump[r] <= t /\ dump[r] \in Seconds /\ dump'[r] = Closed(v, dump[r])
        BY <2>3, <2>5 DEF After
      <4>2. QED
        BY <4>1, ClosedIs
    <3>3. QED
      BY <3>1, <3>2
  <2>6. \A s \in Seconds : Closed(v, s) <= clock
    BY <2>2, ClosedIs DEF Seconds
  <2>7. After(clock)'
    <3>1. lastStamp' # Never => lastStamp' <= clock
      <4>1. lastStamp' # Never => lastStamp \in Seconds
        BY <1>1, <2>1, ClosedIs
      <4>2. QED
        BY <2>1, <2>6, <4>1
    <3>2. \A r \in Members(dump') : dump'[r] <= clock
      BY <2>3, <2>6
    <3>3. QED
      BY <2>2, <3>1, <3>2 DEF After
  <2>8. reader'.pc = reader.pc /\ reader'.now = Closed(v, reader.now)
    BY <1>1, <2>1
  <2>9. reader'.pc = "zadd" => After(reader.now)'
    BY <1>1, <1>4, <2>5, <2>8 DEF After
  <2>10. QED
    BY <1>1, <1>4, <2>2, <2>4, <2>6, <2>7, <2>8, <2>9
<1>16. QED
  BY <1>3, <1>5, <1>6, <1>7, <1>8, <1>9, <1>10, <1>11, <1>12, <1>13, <1>14, <1>15
     DEF Next, Reader

-----------------------------------------------------------------------------
(* Theorems *)

(* The scripts, Redis and the clock keep to their types whatever happens,    *)
(* and OrderInv holds: freqRead.py, freqServe.py and startup.sh together.    *)
THEOREM Invariance == Spec => []IInv
<1>1. Init => IInv
  <2>1. Init => TypeOK
    <3>1. <<>> \in Seq(Readings \cup {0}) /\ Len(<<>>) = 0
      BY EmptySeq
    <3>2. QED
      BY <3>1, Numbers, ReaderAtType DEF Init, TypeOK, SortedSet
  <2>2. Init => OrderInv
    BY Numbers DEF Init, OrderInv, StampIsNewest, After, ReaderAt
  <2>3. QED
    BY <2>1, <2>2 DEF IInv
<1>2. IInv /\ [Next]_vars => IInv'
  <2>1. CASE Next
    BY <2>1, TypeStep, OrderStep DEF IInv
  <2>2. CASE UNCHANGED vars
    BY <2>2 DEF vars, IInv, TypeOK, OrderInv, StampIsNewest, After, Members
  <2>3. QED
    BY <2>1, <2>2
<1>3. QED
  BY <1>1, <1>2, PTL DEF Spec

(* While the clock is not set back, freqServe.py (zrevrange(freq, 0, 0))     *)
(* serves a reading of the last second in which freqRead.py stored one,      *)
(* however many readings tie, whenever Redis crashes and restarts from its   *)
(* dump.                                                                     *)
THEOREM NewestSecondIsServed == Spec => []NewestSecondServed
<1>1. IInv => NewestSecondServed
  <2> SUFFICES ASSUME IInv, jumps = 0, Members(freqSet) # {}
               PROVE  Newest(freqSet) = lastStamp
    BY DEF NewestSecondServed
  <2>1. /\ \A o \in Members(freqSet) : freqSet[o] <= lastStamp
        /\ \E r \in Members(freqSet) : freqSet[r] = lastStamp
        /\ freqSet \in SortedSet
    BY DEF IInv, OrderInv, StampIsNewest, TypeOK, SortedSet
  <2>2. QED
    BY <2>1, NewestIs
<1>2. QED
  BY <1>1, Invariance, PTL
==============================================================================
