----------------------------- MODULE FreqPipeline -----------------------------
(***************************************************************************)
(* The server half of the kettle app: a sensor writes JSON lines to a      *)
(* serial port, freqRead.py stores every report in the Redis sorted set    *)
(* frequency:received under the second it was read in, and freqServe.py    *)
(* answers /json with the member of the highest score.                     *)
(*                                                                         *)
(* A member is the text of a report; readings are numbered in the order in *)
(* which Redis compares them, which breaks ties between equal scores.      *)
(* Seconds are relative: see CloseGap.                                     *)
(***************************************************************************)
EXTENDS Naturals, Sequences, FiniteSets

CONSTANTS NumReadings, \* how many different reports the sensor can send
          Nominal,     \* readings from this one on are of at least 50 Hz
          MaxMembers,  \* members that fit in Redis' maxmemory
          MaxTime,     \* bound on the seconds told apart
          MaxLines,    \* bound on the lines in the serial buffer
          MaxJumps,    \* bound on how often the clock is set back
          MaxCrashes,  \* bound on how often redis-server ends without a save
          Noise        \* the sensor may fall silent or send a broken line

ASSUME FreqPipelineAssumption ==
  /\ NumReadings \in Nat \ {0}
  /\ Nominal \in 1..NumReadings
  /\ MaxMembers \in Nat
  /\ MaxTime \in Nat /\ MaxTime > NumReadings   \* a second without a stamp exists
  /\ MaxLines \in Nat \ {0}
  /\ MaxJumps \in Nat /\ MaxCrashes \in Nat
  /\ Noise \in BOOLEAN

Readings == 1..NumReadings
Seconds == 0..MaxTime
Never == MaxTime + 1        \* the score of what is not a member

VARIABLES grid,      \* the reading of the sensor
          serial,    \* the lines in the serial buffer, 0 for what is no report
          clock,     \* time.time() of the server, in seconds
          jumps,     \* how often the clock was set back
          reader,    \* freqRead.py: where it is, its rxJson['data'] and its now
          redis,     \* the redis-server process
          crashes,   \* how often it crashed
          freqSet,   \* the sorted set frequency:received in memory
          dump,      \* the sorted set in dump.rdb
          served,    \* the instruction of the last answer of freqServe.py
          lastStamp  \* history: the score of the last ZADD that Redis still has

vars == <<grid, serial, clock, jumps, reader, redis, crashes, freqSet, dump, served,
          lastStamp>>

EmptySet == [r \in Readings |-> Never]

(* The reader where it uses neither of its variables again.                  *)
ReaderAt(pc) == [pc |-> pc, data |-> 1, now |-> 0]

TypeOK ==
  /\ grid \in Readings
  /\ serial \in Seq(Readings \cup {0}) /\ Len(serial) <= MaxLines
  /\ clock \in Seconds
  /\ jumps \in 0..MaxJumps
  /\ reader \in [pc : {"readline", "stamp", "zadd", "dead"}, data : Readings, now : Seconds]
  /\ redis \in {"up", "down"}
  /\ crashes \in 0..MaxCrashes
  /\ freqSet \in [Readings -> Seconds \cup {Never}]
  /\ dump \in [Readings -> Seconds \cup {Never}]
  /\ served \in {"yes", "no", "error"}
  /\ lastStamp \in Seconds \cup {Never}

Init ==
  /\ grid \in Readings
  /\ serial = <<>>                    \* ser.flushInput()
  /\ clock = 0
  /\ jumps = 0
  /\ reader = ReaderAt("readline")
  /\ redis = "up"
  /\ crashes = 0
  /\ freqSet = EmptySet
  /\ dump = EmptySet
  /\ served = "error"
  /\ lastStamp = Never

Members(z) == {r \in Readings : z[r] # Never}

Instruction(r) == IF r < Nominal THEN "no" ELSE "yes"

-----------------------------------------------------------------------------
(* The sorted set, as its two commands see it (t_zset.c) *)

(* Mutation: a member that is already there keeps its score.                 *)
zadd_NX(z, score, r) == IF z[r] = Never THEN [z EXCEPT ![r] = score] ELSE z

(* ZADD with one pair: a new member, or the new score of an old one.         *)
zadd(z, score, r) == [z EXCEPT ![r] = score]

(* Mutation: ZRANGE where ZREVRANGE is meant.                                *)
zrevrange_Forward(z) == CHOOSE r \in Members(z) : \A o \in Members(z) :
  z[r] < z[o] \/ (z[r] = z[o] /\ r <= o)

(* ZREVRANGE 0 0 of a nonempty set: the highest score, of those the greatest *)
(* member.                                                                   *)
zrevrange(z) == CHOOSE r \in Members(z) : \A o \in Members(z) :
  z[r] > z[o] \/ (z[r] = z[o] /\ r >= o)

-----------------------------------------------------------------------------
(* freqRead.py *)

(* json.loads(ser.readline()): a report is kept, any other JSON object is    *)
(* passed over.                                                              *)
ReadLine ==
  /\ reader.pc = "readline" /\ serial # <<>>
  /\ serial' = Tail(serial)
  /\ reader' = IF Head(serial) = 0 THEN reader
               ELSE [reader EXCEPT !.pc = "stamp", !.data = Head(serial)]
  /\ UNCHANGED <<grid, clock, jumps, redis, crashes, freqSet, dump, served,
                 lastStamp>>

(* A line that json.loads rejects; the empty one, that readline returns when *)
(* the sensor is silent for two seconds, is such a line.  The ValueError     *)
(* ends the process and nothing starts it again.                             *)
ReadBrokenLine ==
  /\ Noise
  /\ reader.pc = "readline" /\ serial = <<>>
  /\ reader' = ReaderAt("dead")
  /\ UNCHANGED <<grid, serial, clock, jumps, redis, crashes, freqSet, dump, served,
                 lastStamp>>

(* now = int(time.time()) *)
Stamp ==
  /\ reader.pc = "stamp"
  /\ reader' = [reader EXCEPT !.pc = "zadd", !.now = clock]
  /\ UNCHANGED <<grid, serial, clock, jumps, redis, crashes, freqSet, dump, served,
                 lastStamp>>

(* Redis is reachable and below maxmemory.                                   *)
ZaddAccepted == redis = "up" /\ Cardinality(Members(freqSet)) < MaxMembers

ZAdd ==
  /\ reader.pc = "zadd"
  /\ \/ /\ ZaddAccepted
        /\ freqSet' = zadd(freqSet, reader.now, reader.data)
        /\ lastStamp' = reader.now
        /\ reader' = ReaderAt("readline")
     \/ /\ ~ZaddAccepted            \* the exception of redis-py ends the process
        /\ reader' = ReaderAt("dead")
        /\ UNCHANGED <<freqSet, lastStamp>>
  /\ UNCHANGED <<grid, serial, clock, jumps, redis, crashes, dump, served>>

Reader == ReadLine \/ ReadBrokenLine \/ Stamp \/ ZAdd

-----------------------------------------------------------------------------
(* freqServe.py: jsonRequest.GET; the index 0 of an empty list, or a Redis   *)
(* that is down, make it an internal error.                                  *)
GET ==
  /\ served' = IF redis = "up" /\ Members(freqSet) # {}
               THEN Instruction(zrevrange(freqSet))
               ELSE "error"
  /\ UNCHANGED <<grid, serial, clock, jumps, reader, redis, crashes, freqSet, dump,
                 lastStamp>>

-----------------------------------------------------------------------------
(* redis-server: a snapshot, an end without one, and a start by startup.sh   *)

Save ==
  /\ redis = "up" /\ crashes < MaxCrashes    \* a dump matters to a crash only
  /\ dump' = freqSet
  /\ UNCHANGED <<grid, serial, clock, jumps, reader, redis, crashes, freqSet, served,
                 lastStamp>>

Crash ==
  /\ redis = "up" /\ crashes < MaxCrashes
  /\ crashes' = crashes + 1
  /\ redis' = "down"
  /\ freqSet' = EmptySet
  /\ UNCHANGED <<grid, serial, clock, jumps, reader, dump, served, lastStamp>>

Newest(z) == IF Members(z) = {} THEN Never ELSE z[zrevrange(z)]

Startup ==
  /\ redis = "down"
  /\ redis' = "up"
  /\ freqSet' = dump
  /\ lastStamp' = Newest(dump)
  /\ dump' = IF crashes < MaxCrashes THEN dump ELSE EmptySet   \* nothing reads it again
  /\ UNCHANGED <<grid, serial, clock, jumps, reader, crashes, served>>

-----------------------------------------------------------------------------
(* The sensor, the grid and the clock *)

SendReport ==
  /\ Len(serial) < MaxLines
  /\ serial' = Append(serial, grid)
  /\ UNCHANGED <<grid, clock, jumps, reader, redis, crashes, freqSet, dump, served,
                 lastStamp>>

(* The board also sends log lines.                                           *)
SendLog ==
  /\ Len(serial) < MaxLines
  /\ serial' = Append(serial, 0)
  /\ UNCHANGED <<grid, clock, jumps, reader, redis, crashes, freqSet, dump, served,
                 lastStamp>>

GridChanges ==
  /\ grid' \in Readings \ {grid}
  /\ UNCHANGED <<serial, clock, jumps, reader, redis, crashes, freqSet, dump, served,
                 lastStamp>>

Tick ==
  /\ clock < MaxTime
  /\ clock' = clock + 1
  /\ UNCHANGED <<grid, serial, jumps, reader, redis, crashes, freqSet, dump, served,
                 lastStamp>>

(* Only the order of the seconds matters: at the bound, time goes on by      *)
(* taking out a second that no score and no stamp uses.                      *)
CloseGap ==
  LET used == {freqSet[r] : r \in Readings} \cup {dump[r] : r \in Readings}
                \cup {lastStamp} \cup (IF reader.pc = "zadd" THEN {reader.now} ELSE {})
      Shift(v, s) == IF s > v /\ s # Never THEN s - 1 ELSE s
  IN  /\ clock = MaxTime
      /\ \E v \in Seconds \ used :
           /\ freqSet' = [r \in Readings |-> Shift(v, freqSet[r])]
           /\ dump' = [r \in Readings |-> Shift(v, dump[r])]
           /\ lastStamp' = Shift(v, lastStamp)
           /\ reader' = [reader EXCEPT !.now = Shift(v, @)]
      /\ UNCHANGED <<grid, serial, clock, jumps, redis, crashes, served>>

SetClockBack ==
  /\ jumps < MaxJumps
  /\ jumps' = jumps + 1
  /\ clock' \in 0..clock /\ clock' # clock
  /\ UNCHANGED <<grid, serial, reader, redis, crashes, freqSet, dump, served, lastStamp>>

Next ==
  \/ Reader \/ GET
  \/ Save \/ Crash \/ Startup
  \/ SendReport \/ SendLog \/ GridChanges \/ Tick \/ CloseGap \/ SetClockBack

(* The processes run, the sensor goes on sending reports and time passes.    *)
Fairness ==
  /\ WF_vars(ReadLine \/ Stamp \/ ZAdd)
  /\ WF_vars(GET)
  /\ SF_vars(SendReport)
  /\ WF_vars(Tick \/ CloseGap)

Spec == Init /\ [][Next]_vars /\ Fairness

-----------------------------------------------------------------------------
(* Properties *)

(* While the clock is not set back, the reading that freqServe.py serves was *)
(* stored in the last second in which anything was stored, also after Redis  *)
(* came back with an older set and the reader was in the middle of a line:   *)
(* at most the order within one second is lost.                              *)
NewestSecondServed ==
  (jumps = 0 /\ Members(freqSet) # {}) => Newest(freqSet) = lastStamp

(* When the grid settles and neither process is lost, the answers of /json   *)
(* settle on the grid's state, also after the clock was set back.            *)
AnswersConverge == \A r \in Readings :
  <>[](grid = r /\ redis = "up" /\ reader.pc # "dead") => <>[](served = Instruction(r))

(* copy.md:25 "Visualise the status of the grid in realtime": the same, of a *)
(* sensor that falls silent for two seconds or garbles a line.               *)
AnswersConvergeDespiteNoise == \A r \in Readings :
  <>[](grid = r /\ redis = "up") => <>[](served = Instruction(r))
==============================================================================
