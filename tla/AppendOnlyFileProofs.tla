------------------------- MODULE AppendOnlyFileProofs -------------------------
(***************************************************************************)
(* What holds of AppendOnlyFile for any databases, any number of writes,   *)
(* crashes and fsync jobs, and any set of fsync policies.                  *)
(***************************************************************************)
EXTENDS AppendOnlyFile, Integers, SequenceTheorems, TLAPS

USE AppendOnlyAssumption

-----------------------------------------------------------------------------
(* The inductive invariant *)

(* While appendseldb is in force, the stream to the file and the one to a    *)
(* rewrite are both in that database: no SELECT is missing from either.      *)
SelectInv ==
  server.seldb # NoDb => /\ server.streamdb = server.seldb
                         /\ rewrite.status # "none" => rewrite.db = server.seldb

(* A whole file is that of an open descriptor.  Nothing is pending, and no   *)
(* child runs, in a process that ended; more is written than is synced.      *)
ProcessInv ==
  /\ whole => server.appendonly /\ server.appendfd = "open"
  /\ ~Up => aofbuf = <<>> /\ rewrite.status = "none"
  /\ file.synced <= Len(file.log)

FileInv == LogFollowsData /\ RewriteFollowsData

(* The promise is the beginning of the dataset, or of the file that the next *)
(* process will read.                                                        *)
PromiseInv ==
  /\ ~whole => acked = <<>>
  /\ KeepsPromises
  /\ ~Up => IsPrefix(acked, file.log)
  /\ RepliesFollowWrites

(* With appendfsync always, all that was promised is on the disk, and so is  *)
(* all that this process wrote.                                              *)
SyncInv ==
  (server.policy = "always" /\ ~NoSyncOnRewrite) =>
    /\ Len(acked) <= file.synced
    /\ (Up /\ whole /\ Len(file.log) > loaded) => file.synced = Len(file.log)

LogInv == TypeOK /\ SelectInv /\ ProcessInv /\ FileInv
IInv == LogInv /\ PromiseInv /\ SyncInv

-----------------------------------------------------------------------------
(* Sequences *)

LEMMA PrefixIs ==
  ASSUME NEW s \in Seq(Entry), NEW t \in Seq(Entry)
  PROVE  IsPrefix(s, t) <=> Len(s) <= Len(t) /\ \A i \in 1..Len(s) : s[i] = t[i]
<1>1. Len(s) \in Nat /\ Len(t) \in Nat
  BY LenProperties
<1>2. SubSeq(s, 1, Len(s)) = s
  BY SubSeqFull
<1>3. CASE Len(s) <= Len(t)
  <2>1. /\ SubSeq(t, 1, Len(s)) \in Seq(Entry) /\ Len(SubSeq(t, 1, Len(s))) = Len(s)
        /\ \A i \in 1..Len(s) : SubSeq(t, 1, Len(s))[i] = t[i]
    BY <1>1, <1>3, SubSeqProperties
  <2>2. s = SubSeq(t, 1, Len(s)) <=> \A i \in 1..Len(s) : s[i] = SubSeq(t, 1, Len(s))[i]
    BY <2>1, SeqEqual
  <2>3. QED
    BY <1>2, <1>3, <2>1, <2>2 DEF IsPrefix
<1>4. CASE ~(Len(s) <= Len(t))
  BY <1>4 DEF IsPrefix
<1>5. QED
  BY <1>3, <1>4

LEMMA PrefixOfConcat ==
  ASSUME NEW s \in Seq(Entry), NEW t \in Seq(Entry), NEW u \in Seq(Entry), IsPrefix(s, t)
  PROVE  IsPrefix(s, t \o u)
<1>1. /\ t \o u \in Seq(Entry) /\ Len(t \o u) = Len(t) + Len(u)
      /\ Len(s) \in Nat /\ Len(t) \in Nat /\ Len(u) \in Nat
      /\ \A i \in 1..Len(t) : (t \o u)[i] = t[i]
  BY ConcatProperties, LenProperties
<1>2. Len(s) <= Len(t) /\ \A i \in 1..Len(s) : s[i] = t[i]
  BY PrefixIs
<1> DEFINE all == t \o u
<1>3. all \in Seq(Entry) /\ Len(s) <= Len(all) /\ \A i \in 1..Len(s) : s[i] = all[i]
  BY <1>1, <1>2
<1>4. IsPrefix(s, all)
  <2> HIDE DEF all
  <2> QED BY <1>3, PrefixIs
<1>5. QED
  BY <1>4

LEMMA PrefixOfItself ==
  ASSUME NEW s \in Seq(Entry)
  PROVE  IsPrefix(s, s) /\ IsPrefix(<<>>, s)
<1>1. Len(s) \in Nat /\ <<>> \in Seq(Entry) /\ Len(<<>>) = 0
  BY LenProperties, EmptySeq
<1>2. IsPrefix(s, s)
  BY <1>1, PrefixIs
<1>3. IsPrefix(<<>>, s)
  <2>1. Len(<<>>) <= Len(s) /\ \A i \in 1..Len(<<>>) : <<>>[i] = s[i]
    BY <1>1
  <2>2. QED
    BY <1>1, <2>1, PrefixIs
<1>4. QED
  BY <1>2, <1>3

(* What is left of s when n entries count, and of the promise.               *)
Cut(s, n) == IF Len(s) <= n THEN s ELSE SubSeq(s, 1, n)

LEMMA AmongIs == \A n : Among(n) = Cut(acked, n)
  BY DEF Among, Cut

(* What is cut where the file is remains a prefix of it.                     *)
LEMMA CutOfPrefix ==
  ASSUME NEW s \in Seq(Entry), NEW t \in Seq(Entry), NEW u \in Seq(Entry),
         IsPrefix(s, t \o u), NEW n \in 0..Len(t)
  PROVE  /\ Cut(s, n) \in Seq(Entry) /\ Len(Cut(s, n)) <= n
         /\ Len(Cut(s, n)) <= Len(s)
         /\ SubSeq(t, 1, n) \in Seq(Entry) /\ Len(SubSeq(t, 1, n)) = n
         /\ IsPrefix(Cut(s, n), SubSeq(t, 1, n))
<1>1. /\ t \o u \in Seq(Entry)
      /\ Len(s) \in Nat /\ Len(t) \in Nat /\ n \in Nat /\ n <= Len(t)
      /\ \A i \in 1..Len(t) : (t \o u)[i] = t[i]
  BY ConcatProperties, LenProperties
<1>2. \A i \in 1..Len(s) : s[i] = (t \o u)[i]
  BY <1>1, PrefixIs
<1>3. /\ SubSeq(t, 1, n) \in Seq(Entry) /\ Len(SubSeq(t, 1, n)) = n
      /\ \A i \in 1..n : SubSeq(t, 1, n)[i] = t[i]
  BY <1>1, SubSeqProperties
<1>4. /\ Cut(s, n) \in Seq(Entry) /\ Len(Cut(s, n)) <= n /\ Len(Cut(s, n)) \in Nat
      /\ Len(Cut(s, n)) <= Len(s)
      /\ \A i \in 1..Len(Cut(s, n)) : Cut(s, n)[i] = s[i]
  <2>1. CASE Len(s) <= n
    BY <1>1, <2>1 DEF Cut
  <2>2. CASE ~(Len(s) <= n)
    <3>1. /\ SubSeq(s, 1, n) \in Seq(Entry) /\ Len(SubSeq(s, 1, n)) = n
          /\ \A i \in 1..n : SubSeq(s, 1, n)[i] = s[i]
      BY <1>1, <2>2, SubSeqProperties
    <3>2. QED
      BY <1>1, <2>2, <3>1 DEF Cut
  <2>3. QED
    BY <2>1, <2>2
<1>5. \A i \in 1..Len(Cut(s, n)) : Cut(s, n)[i] = SubSeq(t, 1, n)[i]
  BY <1>1, <1>2, <1>3, <1>4
<1>6. QED
  BY <1>3, <1>4, <1>5, PrefixIs

LEMMA CutOfFile ==
  ASSUME NEW s \in Seq(Entry), NEW t \in Seq(Entry), NEW u \in Seq(Entry),
         IsPrefix(s, t \o u)
  PROVE  /\ IsPrefix(Cut(s, Len(t)), t)
         /\ Cut(s, Len(t)) \in Seq(Entry) /\ Len(Cut(s, Len(t))) <= Len(s)
         /\ Len(s) <= Len(t) => Cut(s, Len(t)) = s
<1>1. Len(t) \in 0..Len(t) /\ SubSeq(t, 1, Len(t)) = t
  BY LenProperties, SubSeqFull
<1>2. /\ Cut(s, Len(t)) \in Seq(Entry) /\ Len(Cut(s, Len(t))) <= Len(s)
      /\ IsPrefix(Cut(s, Len(t)), SubSeq(t, 1, Len(t)))
  BY <1>1, CutOfPrefix
<1>3. Len(s) <= Len(t) => Cut(s, Len(t)) = s
  BY DEF Cut
<1>4. QED
  BY <1>1, <1>2, <1>3

-----------------------------------------------------------------------------
(* The operations *)

ServerState ==
  [status : {"up", "down"}, policy : Policies, appendonly : BOOLEAN,
   appendfd : {"none", "open", "stale"}, seldb : Dbs \cup {NoDb},
   streamdb : Dbs, scheduled : BOOLEAN, postponed : BOOLEAN, stray : Exits]
FileState == [log : Seq(Entry), synced : Nat, torn : BOOLEAN]
RewriteState == [status : Exits, snap : Seq(Entry), db : Dbs]
Queues == Seq({"current", "old"})

(* The current state is of its types.                                        *)
LEMMA TypeIs ==
  ASSUME TypeOK
  PROVE  /\ data \in Seq(Entry) /\ aofbuf \in Seq(Entry) /\ diff \in Seq(Entry)
         /\ acked \in Seq(Entry) /\ file.log \in Seq(Entry) /\ rewrite.snap \in Seq(Entry)
         /\ server \in ServerState /\ file \in FileState /\ rewrite \in RewriteState
         /\ saving \in {"none", "running", "done", "lost"} /\ jobs \in Queues
         /\ crashes \in 0..MaxCrashes /\ loaded \in Nat /\ whole \in BOOLEAN
         /\ file.synced \in Nat /\ Len(file.log) \in Nat /\ Len(aofbuf) \in Nat
         /\ Len(data) \in Nat /\ Len(acked) \in Nat
  BY LenProperties DEF TypeOK, ServerState, FileState, RewriteState, Queues

LEMMA EmptyType ==
  /\ <<>> \in Seq(Entry) /\ Len(<<>>) = 0
  /\ NoRewrite \in RewriteState
  /\ NoRewrite.status = "none"
  BY EmptySeq DEF NoRewrite, RewriteState, Exits

LEMMA FreshType ==
  ASSUME NEW policy \in Policies
  PROVE  /\ Fresh(policy) \in ServerState
         /\ [Fresh(policy) EXCEPT !.status = "down"] \in ServerState
  BY DEF Fresh, ServerState, Exits

(* A write is added to both streams as it was executed, its database         *)
(* included.                                                                 *)
LEMMA FeedIs ==
  ASSUME TypeOK, SelectInv, NEW cmd \in Entry, feedAppendOnlyFile(cmd)
  PROVE  /\ aofbuf' = Append(aofbuf, cmd)
         /\ server' = [server EXCEPT !.seldb = cmd.db, !.streamdb = cmd.db]
         /\ rewrite.status = "none" => UNCHANGED <<diff, rewrite>>
         /\ rewrite.status # "none" => /\ diff' = Append(diff, cmd)
                                       /\ rewrite' = [rewrite EXCEPT !.db = cmd.db]
<1>1. cmd.db \in Dbs /\ cmd.db # NoDb /\ [cmd EXCEPT !.db = cmd.db] = cmd
  BY DEF Entry
<1>2. EntryFor(cmd, server.streamdb) = cmd
  BY <1>1 DEF EntryFor, SelectInv
<1>3. rewrite.status # "none" => EntryFor(cmd, rewrite.db) = cmd
  BY <1>1 DEF EntryFor, SelectInv
<1>4. QED
  BY <1>2, <1>3 DEF feedAppendOnlyFile

(* The three outcomes of flushAppendOnlyFile(0).                             *)
NothingToFlush == aofbuf = <<>> /\ UNCHANGED <<aofbuf, server, file, jobs>>
PutOff ==
  /\ aofbuf # <<>> /\ server.policy = "everysec"
  /\ server' = [server EXCEPT !.postponed = TRUE]
  /\ UNCHANGED <<aofbuf, file, jobs>>
Flushed ==
  /\ aofbuf' = <<>> /\ server.appendfd # "none"
  /\ server' = [server EXCEPT !.postponed = FALSE]
  /\ file' \in FileState
  /\ file'.log = file.log \o aofbuf
  /\ file'.synced <= Len(file'.log)
  /\ (server.policy = "always" /\ ~NoSyncOnRewrite) => file'.synced = Len(file'.log)
  /\ jobs' \in Queues

LEMMA FlushIs ==
  ASSUME TypeOK, ProcessInv, flushAppendOnlyFile
  PROVE  NothingToFlush \/ PutOff \/ Flushed
<1>1. CASE aofbuf = <<>> /\ UNCHANGED <<aofbuf, server, file, jobs>>
  BY <1>1 DEF NothingToFlush
<1>2. CASE /\ aofbuf # <<>> /\ MayPostpone
           /\ server' = [server EXCEPT !.postponed = TRUE]
           /\ UNCHANGED <<aofbuf, file, jobs>>
  BY <1>2 DEF PutOff, MayPostpone
<1>3. CASE FlushNow
  <2> DEFINE log == file.log \o aofbuf
             end == Len(file.log)
  <2>1. /\ log \in Seq(Entry) /\ Len(log) \in Nat
        /\ Len(log) = end + Len(aofbuf)
        /\ end \in Nat /\ Len(aofbuf) \in Nat
        /\ file \in FileState /\ file.synced \in Nat
    BY TypeIs, ConcatProperties, LenProperties
  <2>2. file.synced <= Len(log)
    <3>1. file.synced <= end
      BY DEF ProcessInv
    <3> HIDE DEF log, end
    <3>2. QED
      BY <2>1, <3>1
  <2>3. /\ Written \in FileState
        /\ Written.log = log /\ Written.synced = file.synced
    BY <2>1 DEF Written, FileState
  <2>4. /\ Synced(Written) \in FileState
        /\ Synced(Written).log = log /\ Synced(Written).synced = Len(log)
    BY <2>1, <2>3 DEF Synced, FileState
  <2>5. /\ file' = Synced(Written) \/ (file' = Written /\ (server.policy # "always" \/ NoSyncOnRewrite))
        /\ jobs' = jobs \/ jobs' = <<"current">>
    BY <1>3 DEF FlushNow, SyncIfNeeded, SyncSpared
  <2>6. jobs' \in Queues
    <3>1. jobs \in Queues /\ <<"current">> \in Queues
      BY TypeIs DEF Queues
    <3>2. QED
      BY <2>5, <3>1
  <2>7. /\ file' \in FileState /\ file'.log = log /\ file'.synced <= Len(log)
        /\ (server.policy = "always" /\ ~NoSyncOnRewrite) => file'.synced = Len(log)
    <3> HIDE DEF log
    <3>1. QED
      BY <2>1, <2>2, <2>3, <2>4, <2>5
  <2>8. QED
    BY <1>3, <2>6, <2>7 DEF FlushNow, Flushed
<1>4. QED
  BY <1>1, <1>2, <1>3 DEF flushAppendOnlyFile

LEMMA OldType ==
  ASSUME NEW queue \in Queues
  PROVE  Old(queue) \in Queues
  BY DEF Old, Queues

LEMMA RewrittenType ==
  ASSUME TypeOK
  PROVE  /\ Rewritten \in FileState
         /\ Rewritten.log = rewrite.snap \o diff
         /\ Rewritten.synced <= Len(Rewritten.log)
         /\ Synced(Rewritten) \in FileState
         /\ Synced(Rewritten).log = rewrite.snap \o diff
         /\ Synced(Rewritten).synced = Len(Synced(Rewritten).log)
<1>1. /\ rewrite.snap \in Seq(Entry) /\ diff \in Seq(Entry)
      /\ rewrite.snap \o diff \in Seq(Entry) /\ Len(rewrite.snap \o diff) \in Nat
      /\ Len(rewrite.snap) \in Nat /\ Len(diff) \in Nat
      /\ Len(rewrite.snap \o diff) = Len(rewrite.snap) + Len(diff)
  BY TypeIs, ConcatProperties, LenProperties
<1> DEFINE entries == rewrite.snap \o diff
           old == Len(rewrite.snap)
<1>2. Rewritten = [log |-> entries, synced |-> old, torn |-> FALSE]
  BY DEF Rewritten
<1>3. entries \in Seq(Entry) /\ Len(entries) \in Nat /\ old \in Nat /\ old <= Len(entries)
  BY <1>1
<1>4. Synced(Rewritten) = [Rewritten EXCEPT !.synced = Len(Rewritten.log)]
  BY DEF Synced
<1> HIDE DEF entries, old
<1>5. /\ Rewritten \in FileState
      /\ Rewritten.log = entries /\ Rewritten.synced = old
  BY <1>2, <1>3 DEF FileState
<1>6. /\ Synced(Rewritten) \in FileState
      /\ Synced(Rewritten).log = entries /\ Synced(Rewritten).synced = Len(entries)
  BY <1>3, <1>4, <1>5 DEF FileState
<1>7. QED
  BY <1>3, <1>5, <1>6 DEF entries

(* The child starts from the whole dataset and with no differences.          *)
LEMMA RewriteStartsIs ==
  ASSUME TypeOK, NEW dataset \in Seq(Entry), RewriteStarts(dataset)
  PROVE  /\ rewrite' \in RewriteState /\ rewrite'.status = "running"
         /\ rewrite'.snap = dataset
         /\ rewrite.status = "none" /\ diff = <<>>
  BY DEF RewriteStarts, RewriteState, Exits, TypeOK

(* The end of a process, and what the next one will find.                    *)
LEMMA DownIs ==
  ASSUME TypeOK, Down
  PROVE  /\ server' \in ServerState /\ server'.status = "down" /\ server'.appendonly
         /\ server'.appendfd = "open" /\ server'.seldb = NoDb /\ ~server'.postponed
         /\ server'.policy = server.policy
         /\ data' = <<>> /\ aofbuf' = <<>> /\ diff' = <<>> /\ jobs' = <<>>
         /\ rewrite' = NoRewrite /\ saving' = "none" /\ loaded' = 0 /\ whole' = whole
  BY TypeIs, FreshType DEF Down, Fresh, ServerState

(* A write to a file that was never opened ends the process, which has       *)
(* promised nothing.                                                         *)
LEMMA WriteExitsIs ==
  ASSUME ProcessInv, WriteExits
  PROVE  Down /\ UNCHANGED <<file, crashes, acked>> /\ ~whole
  BY DEF WriteExits, ProcessInv

(* CONFIG SET appendonly no.                                                 *)
LEMMA StopIs ==
  ASSUME TypeOK, stopAppendOnly, ~WriteExits
  PROVE  /\ Up /\ aofbuf' = <<>> /\ rewrite' = NoRewrite /\ diff' = <<>>
         /\ acked' = <<>> /\ whole' = FALSE
         /\ UNCHANGED <<data, crashes, loaded>>
         /\ file' = file \/ file' = Synced(Written)
         /\ jobs' = Old(jobs) \/ jobs' = <<"old">>
         /\ saving' = saving \/ saving' = "lost"
         /\ server' \in ServerState
         /\ server'.status = "up" /\ server'.policy = server.policy
         /\ ~server'.appendonly /\ server'.seldb = NoDb
<1>1. PICK left \in Exits :
         server' = [server EXCEPT !.appendonly = FALSE, !.appendfd = "none",
                                  !.seldb = NoDb, !.postponed = FALSE, !.stray = left]
  BY DEF stopAppendOnly, KillRewrite
<1>2. saving' = saving \/ saving' = "lost"
  BY DEF stopAppendOnly, KillRewrite
<1>3. server \in ServerState /\ (rewrite.status = "none" => diff = <<>>)
  BY TypeIs DEF TypeOK
<1>4. server.status = "up"
  BY DEF stopAppendOnly, Up
<1>5. /\ server' \in ServerState /\ ~server'.appendonly /\ server'.seldb = NoDb
      /\ server'.status = "up" /\ server'.policy = server.policy
  BY <1>1, <1>3, <1>4 DEF ServerState
<1>6. /\ Up /\ aofbuf' = <<>> /\ rewrite' = NoRewrite /\ diff' = <<>>
      /\ acked' = <<>> /\ whole' = FALSE
      /\ UNCHANGED <<data, crashes, loaded>>
  BY <1>3 DEF stopAppendOnly, KillRewrite
<1>7. file' = file \/ file' = Synced(Written)
  BY DEF stopAppendOnly, KillRewrite
<1>8. jobs' = Old(jobs) \/ jobs' = <<"old">>
  BY DEF stopAppendOnly, KillRewrite
<1>9. QED
  BY <1>2, <1>5, <1>6, <1>7, <1>8

(* CONFIG SET appendonly yes, and its two errors.                            *)
LEMMA StartIs ==
  ASSUME TypeOK, startAppendOnly
  PROVE  /\ server' \in ServerState
         /\ server'.status = "up" /\ server'.policy = server.policy
         /\ server'.appendonly => server'.appendfd # "stale"
         /\ \/ server'.seldb = server.seldb /\ server'.streamdb = server.streamdb
               /\ rewrite' = rewrite
            \/ server'.seldb = NoDb
         /\ RewriteStarts(data) \/ ~server'.appendonly \/ server'.appendfd = "none"
<1>1. server \in ServerState /\ server.status = "up" /\ ~server.appendonly
  BY TypeIs DEF startAppendOnly, Up
<1>2. CASE /\ RewriteStarts(data)
           /\ server' = [server EXCEPT !.appendonly = TRUE, !.appendfd = "open", !.seldb = NoDb,
                                       !.scheduled = FALSE]
  BY <1>1, <1>2 DEF ServerState
<1>3. CASE /\ server' = [server EXCEPT !.appendonly = TRUE, !.appendfd = "none"]
           /\ rewrite' = rewrite
  BY <1>1, <1>3 DEF ServerState
<1>4. CASE server' = [server EXCEPT !.appendfd = "stale"] /\ rewrite' = rewrite
  BY <1>1, <1>4 DEF ServerState
<1>5. QED
  BY <1>2, <1>3, <1>4 DEF startAppendOnly

(* What a loss of power leaves of f.                                         *)
LEMMA LosePowerIs ==
  ASSUME TypeOK, NEW f \in FileState, LosePower(f)
  PROVE  /\ Up /\ Down /\ crashes' \in 0..MaxCrashes
         /\ \E n \in f.synced..Len(f.log) :
              /\ n \in 0..Len(f.log)
              /\ file' \in FileState /\ file'.log = SubSeq(f.log, 1, n)
              /\ file'.synced = n /\ Len(file'.log) = n
              /\ acked' = IF server.policy = "always" /\ ~NoSyncOnRewrite THEN acked
                          ELSE Among(n)
<1>1. PICK n \in f.synced..Len(f.log) : \E torn \in {FALSE} \cup {n < Len(f.log)} :
         file' = [log |-> SubSeq(f.log, 1, n), synced |-> n, torn |-> torn]
  BY DEF LosePower
<1>2. /\ Up /\ Down /\ crashes < MaxCrashes /\ crashes' = crashes + 1
      /\ acked' = IF server.policy = "always" /\ ~NoSyncOnRewrite THEN acked
                  ELSE Among(Len(file'.log))
  BY DEF LosePower
<1>3. {FALSE} \cup {n < Len(f.log)} \subseteq BOOLEAN
  OBVIOUS
<1>4. PICK torn \in BOOLEAN :
         file' = [log |-> SubSeq(f.log, 1, n), synced |-> n, torn |-> torn]
  BY <1>1, <1>3
<1>5. f.log \in Seq(Entry) /\ f.synced \in Nat /\ Len(f.log) \in Nat /\ n \in 0..Len(f.log)
  BY LenProperties DEF FileState
<1>6. SubSeq(f.log, 1, n) \in Seq(Entry) /\ Len(SubSeq(f.log, 1, n)) = n
  BY <1>5, SubSeqProperties
<1>7. /\ file' \in FileState /\ file'.log = SubSeq(f.log, 1, n)
      /\ file'.synced = n /\ Len(file'.log) = n
  BY <1>4, <1>5, <1>6 DEF FileState
<1>8. crashes' \in 0..MaxCrashes
  BY <1>2, TypeIs
<1>9. QED
  BY <1>2, <1>5, <1>7, <1>8

(* Whichever child the handler is told of, it takes for the rewrite.         *)
LEMMA HandlerIs ==
  ASSUME TypeOK, backgroundRewriteDoneHandler \/ cronReapsStray
  PROVE  \E exit, left \in Exits : RewriteDone(exit, left)
<1>1. server.stray \in Exits /\ rewrite.status \in Exits
  BY TypeIs DEF ServerState, RewriteState
<1>2. CASE backgroundRewriteDoneHandler
  BY <1>1, <1>2 DEF backgroundRewriteDoneHandler
<1>3. CASE cronReapsStray
  BY <1>1, <1>3 DEF cronReapsStray
<1>4. QED
  BY <1>2, <1>3

(* What the handler leaves of the server's state.                            *)
LEMMA HandlerServer ==
  ASSUME TypeOK, NEW exit \in Exits, NEW left \in Exits, RewriteDone(exit, left)
  PROVE  /\ server' \in ServerState
         /\ server'.status = server.status /\ server'.policy = server.policy
         /\ server'.appendonly = server.appendonly /\ server'.postponed = server.postponed
         /\ \/ server'.seldb = server.seldb /\ server'.streamdb = server.streamdb
            \/ server'.seldb = NoDb
         /\ server'.appendfd = server.appendfd \/ server'.appendfd = "open"
<1>1. server \in ServerState /\ rewrite \in RewriteState
  BY TypeIs
<1>2. CASE SwitchFile(left)
  <2>1. server' = [server EXCEPT !.appendfd = "open", !.seldb = NoDb, !.streamdb = rewrite.db,
                                 !.stray = left]
    BY <1>2 DEF SwitchFile
  <2>2. rewrite.db \in Dbs
    BY <1>1 DEF RewriteState
  <2>3. QED
    BY <1>1, <2>1, <2>2 DEF ServerState
<1>3. CASE server' = [server EXCEPT !.stray = left]
  BY <1>1, <1>3 DEF ServerState
<1>4. QED
  BY <1>2, <1>3 DEF RewriteDone

-----------------------------------------------------------------------------
(* Types *)

TypeParts ==
  /\ data \in Seq(Entry) /\ aofbuf \in Seq(Entry) /\ diff \in Seq(Entry)
  /\ acked \in Seq(Entry)
  /\ server \in ServerState /\ file \in FileState /\ rewrite \in RewriteState
  /\ saving \in {"none", "running", "done", "lost"} /\ jobs \in Queues
  /\ crashes \in 0..MaxCrashes /\ loaded \in Nat /\ whole \in BOOLEAN
  /\ server.appendonly => server.appendfd # "stale"
  /\ rewrite.status = "none" => diff = <<>>

LEMMA AmongType ==
  ASSUME TypeOK, NEW n \in Nat
  PROVE  Among(n) \in Seq(Entry) /\ Len(Among(n)) <= n /\ Len(Among(n)) <= Len(acked)
                                 /\ Len(Among(n)) \in Nat
<1>1. acked \in Seq(Entry) /\ Len(acked) \in Nat
  BY TypeIs
<1>2. CASE Len(acked) <= n
  BY <1>1, <1>2 DEF Among
<1>3. CASE ~(Len(acked) <= n)
  <2>1. SubSeq(acked, 1, n) \in Seq(Entry) /\ Len(SubSeq(acked, 1, n)) = n
    BY <1>1, <1>3, SubSeqProperties
  <2>2. QED
    BY <1>1, <1>3, <2>1 DEF Among
<1>4. QED
  BY <1>2, <1>3

LEMMA TypeStep ==
  ASSUME TypeOK, ProcessInv, SelectInv, Next
  PROVE  TypeOK'
<1> SUFFICES TypeParts'
  BY DEF TypeOK, TypeParts, ServerState, FileState, RewriteState, Queues
<1>0. TypeParts
  BY DEF TypeOK, TypeParts, ServerState, FileState, RewriteState, Queues
<1>1. ASSUME NEW d \in Dbs, Write(d) PROVE TypeParts'
  <2> DEFINE cmd == [id |-> Len(data) + 1, db |-> d]
  <2>1. cmd \in Entry /\ Append(data, cmd) \in Seq(Entry)
        /\ Append(aofbuf, cmd) \in Seq(Entry) /\ Append(diff, cmd) \in Seq(Entry)
    BY TypeIs, AppendProperties DEF Entry
  <2>2. CASE server.appendonly
    <3>1. feedAppendOnlyFile(cmd)
      BY <1>1, <2>2 DEF Write
    <3>2. cmd.db \in Dbs
      OBVIOUS
    <3> HIDE DEF cmd
    <3>3. /\ aofbuf' = Append(aofbuf, cmd)
          /\ server' = [server EXCEPT !.seldb = cmd.db, !.streamdb = cmd.db]
          /\ rewrite.status = "none" => UNCHANGED <<diff, rewrite>>
          /\ rewrite.status # "none" => /\ diff' = Append(diff, cmd)
                                        /\ rewrite' = [rewrite EXCEPT !.db = cmd.db]
      BY <2>1, <3>1, FeedIs
    <3>4. server' \in ServerState /\ server'.appendonly = server.appendonly
                                  /\ server'.appendfd = server.appendfd
      BY <1>0, <3>2, <3>3 DEF TypeParts, ServerState
    <3>5. rewrite' \in RewriteState /\ diff' \in Seq(Entry) /\ rewrite'.status = rewrite.status
      BY <1>0, <2>1, <3>2, <3>3 DEF TypeParts, RewriteState
    <3>6. data' \in Seq(Entry)
      BY <1>1, <2>1 DEF Write, cmd
    <3>7. QED
      BY <1>0, <1>1, <2>1, <3>3, <3>4, <3>5, <3>6 DEF TypeParts, Write
  <2>3. CASE ~server.appendonly
    BY <1>0, <1>1, <2>1, <2>3 DEF TypeParts, Write
  <2>4. QED
    BY <2>2, <2>3
<1>2. ASSUME flushAppendOnlyFile
      PROVE  /\ aofbuf' \in Seq(Entry) /\ file' \in FileState /\ server' \in ServerState
             /\ jobs' \in Queues
             /\ server'.appendonly = server.appendonly /\ server'.appendfd = server.appendfd
  <2>1. CASE NothingToFlush
    BY <1>0, <2>1 DEF NothingToFlush, TypeParts
  <2>2. CASE PutOff
    BY <1>0, <2>2 DEF PutOff, TypeParts, ServerState
  <2>3. CASE Flushed
    BY <1>0, <2>3, EmptyType DEF Flushed, TypeParts, ServerState
  <2>4. QED
    BY <1>2, <2>1, <2>2, <2>3, FlushIs
<1>0e. CASE WriteExits
  BY <1>0, <1>0e, WriteExitsIs, DownIs, EmptyType DEF TypeParts, Queues
<1>3. CASE beforeSleep /\ ~WriteExits
  <2>1. acked' \in Seq(Entry)
    BY <1>0, <1>3 DEF beforeSleep, TypeParts
  <2>2. flushAppendOnlyFile
    BY <1>3 DEF beforeSleep
  <2>3. UNCHANGED <<data, diff, rewrite, saving, crashes, loaded, whole>>
    BY <1>3 DEF beforeSleep
  <2>4. QED
    BY <1>0, <1>2, <2>1, <2>2, <2>3 DEF TypeParts
<1>4. CASE cronFlush /\ ~WriteExits
  <2>1. flushAppendOnlyFile
    BY <1>4 DEF cronFlush
  <2>2. UNCHANGED <<data, diff, rewrite, saving, crashes, loaded, acked, whole>>
    BY <1>4 DEF cronFlush
  <2>3. QED
    BY <1>0, <1>2, <2>1, <2>2 DEF TypeParts
<1>5. CASE bioProcessBackgroundJobs
  <2>1. Synced(file) \in FileState
    BY TypeIs DEF Synced, FileState
  <2>2. Tail(jobs) \in Queues
    BY <1>0, <1>5, HeadTailProperties DEF bioProcessBackgroundJobs, TypeParts, Queues
  <2>3. QED
    BY <1>0, <1>5, <2>1, <2>2 DEF bioProcessBackgroundJobs, TypeParts
<1>6. CASE bgrewriteaofCommand
  <2>1. rewrite' \in RewriteState /\ (rewrite'.status = "none" => diff = <<>>)
    BY <1>0, <1>6, RewriteStartsIs DEF bgrewriteaofCommand, TypeParts
  <2>2. /\ server' \in ServerState
        /\ server'.appendonly = server.appendonly /\ server'.appendfd = server.appendfd
    BY <1>0, <1>6 DEF bgrewriteaofCommand, TypeParts, ServerState
  <2>3. QED
    BY <1>0, <1>6, <2>1, <2>2 DEF bgrewriteaofCommand, TypeParts
<1>7. CASE cronStartsScheduled
  <2>1. rewrite' \in RewriteState /\ rewrite'.status # "none"
    BY <1>0, <1>7, RewriteStartsIs DEF cronStartsScheduled, TypeParts
  <2>2. /\ server' \in ServerState
        /\ server'.appendonly = server.appendonly /\ server'.appendfd = server.appendfd
    BY <1>0, <1>7 DEF cronStartsScheduled, TypeParts, ServerState
  <2>3. QED
    BY <1>0, <1>7, <2>1, <2>2 DEF cronStartsScheduled, TypeParts
<1>8. CASE RewriteEnds
  BY <1>0, <1>8 DEF RewriteEnds, TypeParts, RewriteState, Exits
<1>8s. CASE StrayEnds
  <2>1. /\ server' \in ServerState
        /\ server'.appendonly = server.appendonly /\ server'.appendfd = server.appendfd
    BY <1>0, <1>8s DEF StrayEnds, TypeParts, ServerState, Exits
  <2>2. QED
    BY <1>0, <1>8s, <2>1 DEF StrayEnds, TypeParts
<1>9. ASSUME NEW exit \in Exits, NEW left \in Exits, RewriteDone(exit, left) PROVE TypeParts'
  <2>1. rewrite' = NoRewrite /\ diff' = <<>>
    BY <1>9 DEF RewriteDone
  <2>2. file' \in FileState
    BY <1>0, <1>9, RewrittenType DEF RewriteDone, SwitchFile, TypeParts
  <2>3. jobs' \in Queues
    <3>1. Old(jobs) \in Queues /\ Append(Old(jobs), "current") \in Queues
      BY TypeIs, OldType, AppendProperties DEF Queues
    <3>2. QED
      BY <1>0, <1>9, <3>1 DEF RewriteDone, SwitchFile, TypeParts
  <2>4. /\ server' \in ServerState
        /\ server'.appendonly => server'.appendfd # "stale"
    BY <1>0, <1>9, HandlerServer DEF TypeParts, ServerState
  <2>6. aofbuf' \in Seq(Entry) /\ whole' \in BOOLEAN
    BY <1>0, <1>9, EmptyType DEF RewriteDone, SwitchFile, TypeParts, ServerState
  <2>5. QED
    BY <1>0, <1>9, <2>1, <2>2, <2>3, <2>4, <2>6, EmptyType DEF RewriteDone, TypeParts
<1>10. CASE bgsaveCommand \/ SaveEnds \/ cronReapsSave
  BY <1>0, <1>10 DEF bgsaveCommand, SaveEnds, cronReapsSave, TypeParts
<1>11. CASE stopAppendOnly /\ ~WriteExits
  <2>1. file' \in FileState
    <3>1. Synced(Written) \in FileState
      BY TypeIs, ConcatProperties, LenProperties DEF Synced, Written, FileState
    <3>2. QED
      BY <1>0, <1>11, <3>1, StopIs DEF TypeParts
  <2>2. jobs' \in Queues
    <3>1. Old(jobs) \in Queues /\ <<"old">> \in Queues
      BY TypeIs, OldType DEF Queues
    <3>2. QED
      BY <1>11, <3>1, StopIs
  <2>3. QED
    BY <1>0, <1>11, <2>1, <2>2, StopIs, EmptyType DEF TypeParts
<1>12. CASE startAppendOnly
  <2>1. rewrite' \in RewriteState /\ (rewrite'.status = "none" => diff = <<>>)
    BY <1>0, <1>12, RewriteStartsIs DEF startAppendOnly, TypeParts
  <2>2. server' \in ServerState /\ (server'.appendonly => server'.appendfd # "stale")
    BY <1>12, StartIs
  <2>3. QED
    BY <1>0, <1>12, <2>1, <2>2 DEF startAppendOnly, TypeParts
<1>13. CASE FullResync
  <2>1. data' \in Seq(Entry)
    <3>1. \A d \in Dbs : [id |-> Len(data) + 1, db |-> d] \in Entry
      BY TypeIs DEF Entry
    <3>2. \A e \in Entry : <<e>> \in Seq(Entry)
      OBVIOUS
    <3>3. QED
      BY <1>13, <3>1, <3>2 DEF FullResync
  <2>2. rewrite' \in RewriteState /\ (rewrite'.status = "none" => diff = <<>>)
    BY <1>0, <1>13, <2>1, RewriteStartsIs DEF FullResync, TypeParts
  <2>3. /\ server' \in ServerState
        /\ server'.appendonly = server.appendonly /\ server'.appendfd = server.appendfd
    BY <1>0, <1>13 DEF FullResync, TypeParts, ServerState
  <2>4. QED
    BY <1>0, <1>13, <2>1, <2>2, <2>3, EmptyType DEF FullResync, TypeParts
<1>14. CASE shutdownCommand
  <2>1. Synced(file) \in FileState
    BY TypeIs DEF Synced, FileState
  <2>2. file' \in FileState
    BY <1>0, <1>14, <2>1 DEF shutdownCommand, TypeParts
  <2>3. CASE Down /\ UNCHANGED <<crashes, acked>>
    BY <1>0, <2>2, <2>3, DownIs, EmptyType DEF TypeParts, Queues
  <2>4. CASE ~Down
    <3>1. rewrite' \in RewriteState /\ (rewrite'.status = "none" <=> rewrite.status = "none")
      BY <1>0, <1>14, <2>4 DEF shutdownCommand, TypeParts, RewriteState, Exits
    <3>2. saving' \in {"none", "running", "done", "lost"}
      BY <1>0, <1>14, <2>4 DEF shutdownCommand, TypeParts
    <3>3. QED
      BY <1>0, <1>14, <2>2, <2>4, <3>1, <3>2 DEF shutdownCommand, TypeParts
  <2>5. QED
    BY <1>14, <2>3, <2>4 DEF shutdownCommand
<1>15. CASE Crash
  <2>1. Down /\ file' = file /\ crashes' \in 0..MaxCrashes
    BY <1>0, <1>15 DEF Crash, TypeParts
  <2>2. acked' \in Seq(Entry)
    BY <1>15, TypeIs, AmongType DEF Crash
  <2>3. QED
    BY <1>0, <2>1, <2>2, DownIs, EmptyType DEF TypeParts, Queues
<1>16. CASE FlushFails
  <2>1. file' \in FileState
    <3>1. PICK n \in 0..Len(aofbuf) - 1, torn \in BOOLEAN :
            file' = [file EXCEPT !.log = @ \o SubSeq(aofbuf, 1, n), !.torn = torn]
      BY <1>16 DEF FlushFails
    <3>2. SubSeq(aofbuf, 1, n) \in Seq(Entry)
      BY TypeIs, SubSeqProperties
    <3>3. file.log \o SubSeq(aofbuf, 1, n) \in Seq(Entry)
      BY <3>2, TypeIs, ConcatProperties
    <3>4. QED
      BY <3>1, <3>3, TypeIs DEF FileState
  <2>2. acked' \in Seq(Entry)
    BY <1>16, TypeIs, AmongType DEF FlushFails
  <2>3. Down /\ crashes' \in 0..MaxCrashes
    BY <1>0, <1>16 DEF FlushFails, TypeParts
  <2>4. QED
    BY <1>0, <2>1, <2>2, <2>3, DownIs, EmptyType DEF TypeParts, Queues
<1>17. ASSUME NEW f \in FileState, LosePower(f) PROVE TypeParts'
  <2>1. PICK n \in 0..Len(f.log) :
          /\ file' \in FileState
          /\ acked' = IF server.policy = "always" /\ ~NoSyncOnRewrite THEN acked ELSE Among(n)
    BY <1>17, LosePowerIs
  <2>2. n \in Nat
    BY LenProperties DEF FileState
  <2>3. acked' \in Seq(Entry)
    BY <1>0, <2>1, <2>2, AmongType DEF TypeParts
  <2>4. Down /\ crashes' \in 0..MaxCrashes
    BY <1>17, LosePowerIs
  <2>5. QED
    BY <1>0, <2>1, <2>3, <2>4, DownIs, EmptyType DEF TypeParts, Queues
<1>17p. CASE PowerLoss \/ PowerLossInSwitch
  BY <1>0, <1>17, <1>17p, RewrittenType DEF PowerLoss, PowerLossInSwitch, TypeParts
<1>18. CASE checkAofFix
  BY <1>0, <1>18 DEF checkAofFix, TypeParts, FileState
<1>19. CASE loadAppendOnlyFile
  <2>1. server' \in ServerState /\ server'.appendfd = "open"
    BY <1>0, <1>19, FreshType DEF loadAppendOnlyFile, TypeParts, ServerState, Fresh
  <2>2. QED
    BY <1>0, <1>19, <2>1, TypeIs DEF loadAppendOnlyFile, TypeParts
<1>20. QED
  BY <1>0e, <1>1, <1>3, <1>4, <1>5, <1>6, <1>7, <1>8, <1>8s, <1>9, <1>10, <1>11, <1>12,
     <1>13, <1>14, <1>15, <1>16, <1>17p, <1>18, <1>19, HandlerIs DEF Next

-----------------------------------------------------------------------------
(* The streams and the file: LogInv *)

LEMMA FlushKeeps ==
  ASSUME TypeOK, ProcessInv, flushAppendOnlyFile
  PROVE  /\ server'.status = server.status /\ server'.appendonly = server.appendonly
         /\ server'.appendfd = server.appendfd /\ server'.policy = server.policy
         /\ server'.seldb = server.seldb /\ server'.streamdb = server.streamdb
         /\ file'.log \o aofbuf' = file.log \o aofbuf
         /\ file'.synced <= Len(file'.log)
<1>1. server \in ServerState /\ file.log \o aofbuf \in Seq(Entry)
  BY TypeIs, ConcatProperties
<1>2. CASE NothingToFlush \/ PutOff
  BY <1>1, <1>2 DEF NothingToFlush, PutOff, ServerState, ProcessInv
<1>3. CASE Flushed
  BY <1>1, <1>3, ConcatEmptySeq DEF Flushed, ServerState
<1>4. QED
  BY <1>2, <1>3, FlushIs

LEMMA SelectStep ==
  ASSUME TypeOK, ProcessInv, SelectInv, Next
  PROVE  SelectInv'
<1>1. server \in ServerState /\ rewrite \in RewriteState
  BY TypeIs
<1>2. ASSUME NEW d \in Dbs, Write(d) PROVE SelectInv'
  <2> DEFINE cmd == [id |-> Len(data) + 1, db |-> d]
  <2>1. cmd \in Entry
    BY TypeIs DEF Entry
  <2>2. CASE server.appendonly
    <3>1. feedAppendOnlyFile(cmd)
      BY <1>2, <2>2 DEF Write
    <3> HIDE DEF cmd
    <3>2. /\ server' = [server EXCEPT !.seldb = cmd.db, !.streamdb = cmd.db]
          /\ rewrite.status = "none" => UNCHANGED rewrite
          /\ rewrite.status # "none" => rewrite' = [rewrite EXCEPT !.db = cmd.db]
      BY <2>1, <3>1, FeedIs
    <3>3. QED
      BY <1>1, <3>2 DEF SelectInv, ServerState, RewriteState
  <2>3. CASE ~server.appendonly
    BY <1>2, <2>3 DEF Write, SelectInv
  <2>4. QED
    BY <2>2, <2>3
<1>3. CASE (beforeSleep \/ cronFlush) /\ ~WriteExits
  BY <1>3, FlushKeeps DEF beforeSleep, cronFlush, SelectInv
<1>4. CASE bioProcessBackgroundJobs \/ checkAofFix
  BY <1>4 DEF bioProcessBackgroundJobs, checkAofFix, SelectInv
<1>5. CASE bgrewriteaofCommand
  BY <1>1, <1>5 DEF bgrewriteaofCommand, SelectInv, ServerState
<1>6. CASE cronStartsScheduled
  BY <1>1, <1>6 DEF cronStartsScheduled, SelectInv, ServerState
<1>7. CASE RewriteEnds
  BY <1>1, <1>7 DEF RewriteEnds, SelectInv, RewriteState
<1>8. ASSUME NEW exit \in Exits, NEW left \in Exits, RewriteDone(exit, left) PROVE SelectInv'
  <2>1. rewrite'.status = "none"
    BY <1>8 DEF RewriteDone, NoRewrite
  <2>2. QED
    BY <1>8, <2>1, HandlerServer DEF SelectInv
<1>8s. CASE StrayEnds
  BY <1>1, <1>8s DEF StrayEnds, SelectInv, ServerState
<1>9. CASE bgsaveCommand \/ SaveEnds \/ cronReapsSave
  BY <1>9 DEF bgsaveCommand, SaveEnds, cronReapsSave, SelectInv
<1>10. CASE stopAppendOnly /\ ~WriteExits
  BY <1>10, StopIs DEF SelectInv
<1>11. CASE startAppendOnly
  BY <1>11, StartIs DEF SelectInv
<1>12. CASE FullResync
  BY <1>1, <1>12 DEF FullResync, SelectInv, ServerState
<1>13. CASE Down
  BY <1>13, DownIs DEF SelectInv
<1>14. CASE shutdownCommand /\ ~Down
  <2>1. server' = server /\ rewrite'.db = rewrite.db
        /\ (rewrite'.status # "none" => rewrite.status # "none")
    BY <1>1, <1>14 DEF shutdownCommand, RewriteState
  <2>2. QED
    BY <2>1 DEF SelectInv
<1>15. CASE loadAppendOnlyFile
  BY <1>15 DEF loadAppendOnlyFile, Fresh, SelectInv
<1>16. Crash \/ FlushFails \/ PowerLoss \/ PowerLossInSwitch \/ WriteExits => Down
  BY DEF Crash, FlushFails, PowerLoss, PowerLossInSwitch, LosePower, WriteExits
<1>17. QED
  BY <1>2, <1>3, <1>4, <1>5, <1>6, <1>7, <1>8, <1>8s, <1>9, <1>10, <1>11, <1>12, <1>13,
     <1>14, <1>15, <1>16, HandlerIs DEF Next

LEMMA ProcessStep ==
  ASSUME TypeOK, SelectInv, ProcessInv, Next
  PROVE  ProcessInv'
<1>1. server \in ServerState /\ rewrite \in RewriteState /\ file \in FileState
      /\ file.synced \in Nat /\ Len(file.log) \in Nat /\ file.synced <= Len(file.log)
  BY TypeIs DEF ProcessInv
<1>2. ASSUME NEW d \in Dbs, Write(d) PROVE ProcessInv'
  <2>1. /\ server'.appendonly = server.appendonly /\ server'.status = server.status
        /\ server'.appendfd = server.appendfd
    BY <1>1, <1>2 DEF Write, feedAppendOnlyFile, ServerState
  <2>2. QED
    BY <1>2, <2>1 DEF Write, Up, ProcessInv
<1>3. CASE (beforeSleep \/ cronFlush) /\ ~WriteExits
  <2>1. /\ flushAppendOnlyFile /\ server.status = "up"
        /\ rewrite' = rewrite /\ whole' = whole
    BY <1>3 DEF beforeSleep, cronFlush, Up
  <2>2. /\ server'.status = server.status /\ server'.appendonly = server.appendonly
        /\ server'.appendfd = server.appendfd /\ file'.synced <= Len(file'.log)
    BY <2>1, FlushKeeps
  <2>3. QED
    BY <2>1, <2>2 DEF ProcessInv, Up
<1>4. CASE bioProcessBackgroundJobs
  BY <1>1, <1>4 DEF bioProcessBackgroundJobs, Synced, FileState, Up, ProcessInv
<1>5. CASE bgrewriteaofCommand \/ cronStartsScheduled \/ startAppendOnly \/ FullResync
  <2>1. server.status = "up" /\ server'.status = "up" /\ file' = file
    <3>1. startAppendOnly => server.status = "up" /\ server'.status = "up" /\ file' = file
      BY StartIs DEF startAppendOnly, Up
    <3>2. QED
      BY <1>1, <1>5, <3>1 DEF bgrewriteaofCommand, cronStartsScheduled, FullResync,
                              ServerState, Up
  <2>2. whole' => server'.appendonly /\ server'.appendfd = "open"
    <3>1. CASE startAppendOnly
      BY <3>1 DEF startAppendOnly, ProcessInv
    <3>2. CASE bgrewriteaofCommand \/ cronStartsScheduled \/ FullResync
      <4>1. server'.appendonly = server.appendonly /\ server'.appendfd = server.appendfd
        BY <1>1, <3>2 DEF bgrewriteaofCommand, cronStartsScheduled, FullResync, ServerState
      <4>2. whole' => whole
        BY <3>2 DEF bgrewriteaofCommand, cronStartsScheduled, FullResync
      <4>3. QED
        BY <4>1, <4>2 DEF ProcessInv
    <3>3. QED
      BY <1>5, <3>1, <3>2
  <2>3. QED
    BY <1>1, <2>1, <2>2 DEF ProcessInv, Up
<1>6. CASE RewriteEnds
  BY <1>1, <1>6 DEF RewriteEnds, RewriteState, Up, ProcessInv
<1>6s. CASE StrayEnds
  BY <1>1, <1>6s DEF StrayEnds, ServerState, Up, ProcessInv
<1>7. ASSUME NEW exit \in Exits, NEW left \in Exits, RewriteDone(exit, left)
      PROVE  ProcessInv'
  <2>1. Up' /\ (whole' => server'.appendonly /\ server'.appendfd = "open")
    <3>1. server'.status = "up" /\ server'.appendonly = server.appendonly
      BY <1>7, HandlerServer DEF RewriteDone, Up
    <3>2. CASE SwitchFile(left) /\ whole' = (whole \/ server.appendonly)
      BY <1>1, <3>1, <3>2 DEF SwitchFile, ServerState, ProcessInv, Up
    <3>3. CASE server' = [server EXCEPT !.stray = left] /\ whole' = whole
      BY <1>1, <3>1, <3>3 DEF ServerState, ProcessInv, Up
    <3>4. QED
      BY <1>7, <3>2, <3>3 DEF RewriteDone
  <2>2. file' \in {file, Rewritten, Synced(Rewritten)}
    BY <1>7 DEF RewriteDone, SwitchFile
  <2>3. file'.synced <= Len(file'.log)
    <3>1. /\ Synced(Rewritten).synced <= Len(Synced(Rewritten).log)
          /\ Rewritten.synced <= Len(Rewritten.log)
      BY RewrittenType, LenProperties DEF FileState
    <3>2. QED
      BY <1>1, <2>2, <3>1
  <2>4. QED
    BY <2>1, <2>3 DEF ProcessInv
<1>8. CASE bgsaveCommand \/ SaveEnds \/ cronReapsSave
  BY <1>8 DEF bgsaveCommand, SaveEnds, cronReapsSave, Up, ProcessInv
<1>9. CASE stopAppendOnly /\ ~WriteExits
  <2>1. Up' /\ ~whole'
    BY <1>9, StopIs DEF Up
  <2>2. file'.synced <= Len(file'.log)
    <3>1. Written \in FileState /\ Len(Written.log) \in Nat
      BY TypeIs, ConcatProperties, LenProperties DEF Written, FileState
    <3>2. Synced(Written).synced <= Len(Synced(Written).log)
      BY <3>1 DEF Synced, FileState
    <3>3. QED
      BY <1>1, <1>9, <3>2, StopIs
  <2>3. QED
    BY <2>1, <2>2 DEF ProcessInv
<1>10. ASSUME Down, file'.synced <= Len(file'.log) PROVE ProcessInv'
  BY <1>10, DownIs, EmptyType DEF ProcessInv, Up
<1>11. CASE shutdownCommand
  <2>1. file'.synced <= Len(file'.log)
    BY <1>1, <1>11 DEF shutdownCommand, Synced, FileState
  <2>2. CASE ~Down
    BY <1>11, <2>1, <2>2 DEF shutdownCommand, Up, ProcessInv
  <2>3. QED
    BY <1>10, <2>1, <2>2
<1>12. CASE Crash
  BY <1>1, <1>10, <1>12 DEF Crash
<1>13. CASE FlushFails
  <2>1. PICK n \in 0..Len(aofbuf) - 1, torn \in BOOLEAN :
          file' = [file EXCEPT !.log = @ \o SubSeq(aofbuf, 1, n), !.torn = torn]
    BY <1>13 DEF FlushFails
  <2> DEFINE part == SubSeq(aofbuf, 1, n)
  <2>2. part \in Seq(Entry)
    BY TypeIs, SubSeqProperties
  <2>3. file'.synced = file.synced /\ file'.log = file.log \o part
    BY <1>1, <2>1 DEF FileState
  <2> HIDE DEF part
  <2>4. Len(file'.log) = Len(file.log) + Len(part) /\ Len(part) \in Nat
    BY <2>2, <2>3, TypeIs, ConcatProperties, LenProperties
  <2>5. file'.synced <= Len(file'.log)
    BY <1>1, <2>3, <2>4
  <2>6. QED
    BY <1>10, <1>13, <2>5 DEF FlushFails
<1>14. CASE PowerLoss \/ PowerLossInSwitch
  <2>1. ASSUME NEW f \in FileState, LosePower(f) PROVE Down /\ file'.synced <= Len(file'.log)
    <3>1. PICK n \in f.synced..Len(f.log) : file'.synced = n /\ Len(file'.log) = n
      BY <2>1, LosePowerIs
    <3>2. n \in Nat
      BY LenProperties DEF FileState
    <3>3. QED
      BY <2>1, <3>1, <3>2, LosePowerIs
  <2>2. QED
    BY <1>1, <1>10, <1>14, <2>1, RewrittenType DEF PowerLoss, PowerLossInSwitch
<1>14e. CASE WriteExits
  BY <1>1, <1>10, <1>14e, WriteExitsIs
<1>15. CASE checkAofFix
  BY <1>1, <1>15 DEF checkAofFix, FileState, Up, ProcessInv
<1>16. CASE loadAppendOnlyFile
  BY <1>1, <1>16 DEF loadAppendOnlyFile, Fresh, Up, ProcessInv
<1>17. QED
  BY <1>2, <1>3, <1>4, <1>5, <1>6, <1>6s, <1>7, <1>8, <1>9, <1>11, <1>12, <1>13, <1>14,
     <1>14e, <1>15, <1>16, HandlerIs DEF Next

LEMMA FileStep ==
  ASSUME LogInv, Next, ~ResyncOnRewrite
  PROVE  FileInv'
<1>1. /\ TypeOK /\ SelectInv /\ ProcessInv /\ LogFollowsData /\ RewriteFollowsData
      /\ server \in ServerState /\ rewrite \in RewriteState /\ file \in FileState
      /\ data \in Seq(Entry) /\ aofbuf \in Seq(Entry) /\ diff \in Seq(Entry)
      /\ file.log \in Seq(Entry) /\ rewrite.snap \in Seq(Entry)
  BY TypeIs DEF LogInv, FileInv
<1>2. ASSUME NEW d \in Dbs, Write(d) PROVE FileInv'
  <2> DEFINE cmd == [id |-> Len(data) + 1, db |-> d]
  <2>1. cmd \in Entry
    BY TypeIs, <1>1 DEF Entry
  <2>2. CASE server.appendonly
    <3>1. feedAppendOnlyFile(cmd) /\ data' = Append(data, cmd) /\ file' = file /\ whole' = whole
      BY <1>2, <2>2 DEF Write
    <3> HIDE DEF cmd
    <3>2. /\ aofbuf' = Append(aofbuf, cmd)
          /\ server' = [server EXCEPT !.seldb = cmd.db, !.streamdb = cmd.db]
          /\ rewrite.status = "none" => UNCHANGED <<diff, rewrite>>
          /\ rewrite.status # "none" => /\ diff' = Append(diff, cmd)
                                        /\ rewrite' = [rewrite EXCEPT !.db = cmd.db]
      BY <1>1, <2>1, <3>1, FeedIs
    <3>3. \A s, t \in Seq(Entry) : s \o Append(t, cmd) = Append(s \o t, cmd)
      BY <2>1
    <3>4. /\ server'.status = server.status /\ server'.appendonly = server.appendonly
          /\ server'.appendfd = server.appendfd
      BY <1>1, <3>2 DEF ServerState
    <3>5. LogFollowsData'
      BY <1>1, <3>1, <3>2, <3>3, <3>4 DEF LogFollowsData, Up
    <3>6. RewriteFollowsData'
      <4>1. CASE rewrite.status = "none"
        BY <3>2, <4>1 DEF RewriteFollowsData
      <4>2. CASE rewrite.status # "none"
        <5>1. rewrite'.status = rewrite.status /\ rewrite'.snap = rewrite.snap
          BY <1>1, <3>2, <4>2 DEF RewriteState
        <5>2. QED
          BY <1>1, <3>1, <3>2, <3>3, <3>4, <4>2, <5>1 DEF RewriteFollowsData, Up
      <4>3. QED
        BY <4>1, <4>2
    <3>7. QED
      BY <3>5, <3>6 DEF FileInv
  <2>3. CASE ~server.appendonly
    BY <1>2, <2>3 DEF Write, FileInv, LogFollowsData, RewriteFollowsData
  <2>4. QED
    BY <2>2, <2>3
<1>3. CASE (beforeSleep \/ cronFlush) /\ ~WriteExits
  <2>1. /\ flushAppendOnlyFile
        /\ UNCHANGED <<data, diff, rewrite, whole>>
    BY <1>3 DEF beforeSleep, cronFlush
  <2>2. /\ server'.status = server.status /\ server'.appendonly = server.appendonly
        /\ server'.appendfd = server.appendfd /\ file'.log \o aofbuf' = file.log \o aofbuf
    BY <1>1, <2>1, FlushKeeps
  <2>3. QED
    BY <1>1, <2>1, <2>2 DEF Up, FileInv, LogFollowsData, RewriteFollowsData
<1>4. CASE bioProcessBackgroundJobs
  <2>1. file'.log = file.log
    BY <1>1, <1>4 DEF bioProcessBackgroundJobs, Synced, FileState
  <2>2. QED
    BY <1>1, <1>4, <2>1
       DEF bioProcessBackgroundJobs, Up, FileInv, LogFollowsData, RewriteFollowsData
<1>5. \A dataset \in Seq(Entry) : dataset \o <<>> = dataset
  BY ConcatEmptySeq
(* A rewrite that has just started stands for the dataset, without any       *)
(* difference.                                                               *)
<1>6. ASSUME NEW dataset \in Seq(Entry), RewriteStarts(dataset), dataset = data', diff' = diff
      PROVE  RewriteFollowsData'
  <2>1. rewrite'.snap = dataset /\ diff' = <<>>
    BY <1>1, <1>6, RewriteStartsIs
  <2>2. QED
    BY <1>5, <1>6, <2>1 DEF RewriteFollowsData
<1>7. CASE bgrewriteaofCommand
  <2>1. /\ server'.status = server.status /\ server'.appendonly = server.appendonly
        /\ server'.appendfd = server.appendfd
        /\ UNCHANGED <<data, aofbuf, diff, file, whole>>
    BY <1>1, <1>7 DEF bgrewriteaofCommand, ServerState
  <2>2. RewriteStarts(data) \/ rewrite' = rewrite
    BY <1>7 DEF bgrewriteaofCommand
  <2>3. QED
    BY <1>1, <1>6, <2>1, <2>2 DEF FileInv, LogFollowsData, RewriteFollowsData, Up
<1>8. CASE cronStartsScheduled
  <2>1. /\ server'.status = server.status /\ server'.appendonly = server.appendonly
        /\ server'.appendfd = server.appendfd
        /\ UNCHANGED <<data, aofbuf, diff, file, whole>> /\ RewriteStarts(data)
    BY <1>1, <1>8 DEF cronStartsScheduled, ServerState
  <2>2. QED
    BY <1>1, <1>6, <2>1 DEF FileInv, LogFollowsData, Up
<1>9. CASE RewriteEnds
  <2>1. rewrite'.snap = rewrite.snap /\ rewrite.status = "running"
    BY <1>1, <1>9 DEF RewriteEnds, RewriteState
  <2>2. QED
    BY <1>1, <1>9, <2>1 DEF RewriteEnds, FileInv, LogFollowsData, RewriteFollowsData, Up
<1>9s. CASE StrayEnds
  <2>1. /\ server'.status = server.status /\ server'.appendonly = server.appendonly
        /\ server'.appendfd = server.appendfd
        /\ UNCHANGED <<data, aofbuf, diff, file, rewrite, whole>>
    BY <1>1, <1>9s DEF StrayEnds, ServerState
  <2>2. QED
    BY <1>1, <2>1 DEF FileInv, LogFollowsData, RewriteFollowsData, Up
<1>10. ASSUME NEW exit \in Exits, NEW left \in Exits, RewriteDone(exit, left) PROVE FileInv'
  <2>1. /\ rewrite'.status = "none" /\ data' = data /\ Up
        /\ server'.status = server.status /\ server'.appendonly = server.appendonly
    BY <1>1, <1>10, HandlerServer DEF RewriteDone, NoRewrite
  <2>2. CASE UNCHANGED <<aofbuf, file, whole>>
    BY <1>1, <2>1, <2>2 DEF FileInv, LogFollowsData, RewriteFollowsData, Up
  <2>3. CASE server.appendfd = "none" /\ whole' = whole
    BY <1>1, <2>1, <2>3 DEF FileInv, ProcessInv, LogFollowsData, RewriteFollowsData
  <2>4. CASE rewrite.status = "done" /\ server.appendfd # "none" /\ SwitchFile(left)
    <3>1. aofbuf' = <<>>
      BY <2>4 DEF SwitchFile
    <3>2. file'.log = rewrite.snap \o diff
      BY <1>1, <2>4, RewrittenType DEF SwitchFile
    <3>3. server.appendonly => rewrite.snap \o diff = data
      <4>1. server.appendonly => server.appendfd = "open"
        BY <1>1, <2>4 DEF TypeOK
      <4>2. QED
        BY <1>1, <2>1, <2>4, <4>1 DEF RewriteFollowsData
    <3>4. QED
      BY <1>1, <1>5, <2>1, <3>1, <3>2, <3>3 DEF FileInv, LogFollowsData, RewriteFollowsData, Up
  <2>5. QED
    BY <1>10, <2>2, <2>3, <2>4 DEF RewriteDone
<1>11. CASE bgsaveCommand \/ SaveEnds \/ cronReapsSave
  <2>1. UNCHANGED <<data, server, aofbuf, diff, file, rewrite, whole>>
    BY <1>11 DEF bgsaveCommand, SaveEnds, cronReapsSave
  <2>2. QED
    BY <1>1, <2>1 DEF Up, FileInv, LogFollowsData, RewriteFollowsData
<1>12. CASE stopAppendOnly /\ ~WriteExits
  BY <1>1, <1>12, StopIs DEF FileInv, LogFollowsData, RewriteFollowsData
<1>13. CASE startAppendOnly
  <2>1. ~whole' /\ data' = data /\ diff' = diff
    BY <1>1, <1>13 DEF startAppendOnly, ProcessInv
  <2>2. RewriteStarts(data) \/ ~server'.appendonly \/ server'.appendfd = "none"
    BY <1>1, <1>13, StartIs
  <2>3. RewriteFollowsData'
    BY <1>1, <1>6, <2>1, <2>2 DEF RewriteFollowsData
  <2>4. QED
    BY <2>1, <2>3 DEF FileInv, LogFollowsData
<1>14. CASE FullResync
  <2>1. ~whole' /\ rewrite.status = "none" /\ diff' = diff
    BY <1>14 DEF FullResync
  <2>2. data' \in Seq(Entry)
    <3>1. \A d \in Dbs : [id |-> Len(data) + 1, db |-> d] \in Entry
      BY <1>1, TypeIs DEF Entry
    <3>2. \A e \in Entry : <<e>> \in Seq(Entry)
      OBVIOUS
    <3>3. QED
      BY <1>14, <3>1, <3>2 DEF FullResync
  <2>3. RewriteStarts(data') \/ rewrite' = rewrite
    BY <1>14 DEF FullResync
  <2>4. QED
    BY <1>6, <2>1, <2>2, <2>3 DEF FileInv, LogFollowsData, RewriteFollowsData
<1>15. CASE Down
  BY <1>1, <1>15, DownIs, EmptyType DEF FileInv, LogFollowsData, RewriteFollowsData, Up
<1>16. CASE shutdownCommand /\ ~Down
  <2>1. file'.log = file.log
    BY <1>1, <1>16 DEF shutdownCommand, Synced, FileState
  <2>2. /\ rewrite'.snap = rewrite.snap
        /\ rewrite'.status \in {"running", "done"} => rewrite' = rewrite
    BY <1>1, <1>16 DEF shutdownCommand, RewriteState
  <2>3. UNCHANGED <<data, server, aofbuf, diff, whole>>
    BY <1>16 DEF shutdownCommand
  <2>4. QED
    BY <1>1, <2>1, <2>2, <2>3 DEF Up, FileInv, LogFollowsData, RewriteFollowsData
<1>17. CASE checkAofFix
  BY <1>17 DEF checkAofFix, Up, FileInv, LogFollowsData, RewriteFollowsData
<1>18. CASE loadAppendOnlyFile
  <2>1. aofbuf' = <<>> /\ data' = file'.log /\ rewrite'.status = "none"
    BY <1>1, <1>18 DEF loadAppendOnlyFile, ProcessInv
  <2>2. file'.log \o <<>> = file'.log
    BY <1>1, <1>5, <1>18 DEF loadAppendOnlyFile
  <2>3. QED
    BY <2>1, <2>2 DEF FileInv, LogFollowsData, RewriteFollowsData
<1>19. Crash \/ FlushFails \/ PowerLoss \/ PowerLossInSwitch \/ WriteExits => Down
  BY DEF Crash, FlushFails, PowerLoss, PowerLossInSwitch, LosePower, WriteExits
<1>20. QED
  BY <1>1, <1>2, <1>3, <1>4, <1>7, <1>8, <1>9, <1>9s, <1>10, <1>11, <1>12, <1>13, <1>14,
     <1>15, <1>16, <1>17, <1>18, <1>19, HandlerIs DEF Next

-----------------------------------------------------------------------------
(* The promise: PromiseInv and SyncInv *)

(* A process that runs with a whole file has what it promised in the file    *)
(* and its buffer.                                                           *)
LEMMA PromiseIs ==
  ASSUME LogInv, PromiseInv
  PROVE  /\ acked \in Seq(Entry) /\ Len(acked) \in Nat
         /\ ~whole => acked = <<>>
         /\ (Up /\ whole) => /\ server.appendonly /\ file.log \o aofbuf = data
                             /\ IsPrefix(acked, file.log \o aofbuf)
                             /\ ~server.postponed => Len(acked) <= Len(file.log)
  BY TypeIs DEF LogInv, FileInv, ProcessInv, LogFollowsData, PromiseInv, KeepsPromises,
                RepliesFollowWrites

(* What counts of the promise when n entries of the file are left.           *)
LEMMA AmongIsThere ==
  ASSUME LogInv, PromiseInv, Up, NEW n \in 0..Len(file.log)
  PROVE  /\ IsPrefix(Among(n), SubSeq(file.log, 1, n))
         /\ ~whole => Among(n) = <<>>
<1>1. file.log \in Seq(Entry) /\ aofbuf \in Seq(Entry) /\ Len(file.log) \in Nat
  BY TypeIs DEF LogInv
<1>2. CASE whole
  BY <1>1, <1>2, PromiseIs, AmongIs, CutOfPrefix
<1>3. CASE ~whole
  <2>1. acked = <<>> /\ Among(n) = <<>>
    BY <1>3, PromiseIs, EmptySeq DEF Among
  <2>2. SubSeq(file.log, 1, n) \in Seq(Entry)
    BY <1>1, SubSeqProperties
  <2>3. QED
    BY <2>1, <2>2, PrefixOfItself
<1>4. QED
  BY <1>2, <1>3

(* What counts of it when the process is killed.                             *)
LEMMA KilledKeeps ==
  ASSUME LogInv, PromiseInv, Up,
         acked' = IF server.postponed THEN Among(Len(file.log)) ELSE acked
  PROVE  /\ acked' \in Seq(Entry) /\ Len(acked') <= Len(acked)
         /\ IsPrefix(acked', file.log)
         /\ ~whole => acked' = <<>>
<1>1. /\ file.log \in Seq(Entry) /\ aofbuf \in Seq(Entry) /\ Len(file.log) \in Nat
      /\ acked \in Seq(Entry) /\ Len(acked) \in Nat /\ TypeOK
      /\ SubSeq(file.log, 1, Len(file.log)) = file.log
  BY TypeIs, SubSeqFull DEF LogInv
<1>2. CASE server.postponed
  <2>1. acked' = Among(Len(file.log)) /\ Len(file.log) \in 0..Len(file.log)
    BY <1>1, <1>2
  <2>2. IsPrefix(acked', SubSeq(file.log, 1, Len(file.log))) /\ (~whole => acked' = <<>>)
    BY <2>1, AmongIsThere
  <2>3. acked' \in Seq(Entry) /\ Len(acked') <= Len(acked)
    BY <1>1, <2>1, AmongType
  <2>4. QED
    BY <1>1, <2>2, <2>3
<1>3. CASE ~server.postponed
  <2>1. acked' = acked /\ acked' \in Seq(Entry) /\ Len(acked') <= Len(acked)
    BY <1>1, <1>3
  <2>2. CASE whole
    <3>1. IsPrefix(acked, file.log \o aofbuf) /\ Len(acked) <= Len(file.log)
      BY <1>3, <2>2, PromiseIs
    <3>2. /\ IsPrefix(Cut(acked, Len(file.log)), file.log)
          /\ Len(acked) <= Len(file.log) => Cut(acked, Len(file.log)) = acked
      BY <1>1, <3>1, CutOfFile
    <3>3. QED
      BY <2>1, <2>2, <3>1, <3>2
  <2>3. CASE ~whole
    BY <1>1, <2>1, <2>3, PromiseIs, PrefixOfItself
  <2>4. QED
    BY <2>2, <2>3
<1>4. QED
  BY <1>2, <1>3

LEMMA PrefixLength ==
  ASSUME NEW s \in Seq(Entry), NEW t \in Seq(Entry), IsPrefix(s, t)
  PROVE  Len(s) <= Len(t)
  BY PrefixIs

LEMMA PromiseStep ==
  ASSUME LogInv, LogInv', PromiseInv, SyncInv, Next, ~ShutdownLate, ~LossAtSwitch
  PROVE  PromiseInv'
<1>1. /\ TypeOK /\ SelectInv /\ ProcessInv
      /\ server \in ServerState /\ file \in FileState
      /\ data \in Seq(Entry) /\ aofbuf \in Seq(Entry) /\ acked \in Seq(Entry)
      /\ file.log \in Seq(Entry) /\ Len(acked) \in Nat /\ Len(file.log) \in Nat
  BY TypeIs DEF LogInv
<1>2. /\ data' \in Seq(Entry) /\ aofbuf' \in Seq(Entry) /\ acked' \in Seq(Entry)
      /\ file'.log \in Seq(Entry)
  BY DEF LogInv, TypeOK
<1>3. (Up /\ whole) => server.appendonly /\ IsPrefix(acked, data) /\ data = file.log \o aofbuf
  BY PromiseIs
<1>4. (Up' /\ whole') => server'.appendonly /\ data' = file'.log \o aofbuf'
  BY DEF LogInv, ProcessInv, FileInv, LogFollowsData
(* Steps that leave the promise and what it is about alone.                  *)
<1>5. ASSUME UNCHANGED <<data, acked, whole>>, file'.log = file.log,
             server'.status = server.status, server'.postponed = server.postponed
      PROVE  PromiseInv'
  BY <1>3, <1>5 DEF PromiseInv, KeepsPromises, RepliesFollowWrites, Up
(* Steps after which nothing is promised.                                    *)
<1>6. ASSUME acked' = <<>> PROVE PromiseInv'
  <2>1. IsPrefix(<<>>, data') /\ IsPrefix(<<>>, file'.log)
    BY <1>2, PrefixOfItself
  <2>2. Len(<<>>) <= Len(file'.log)
    BY <1>2, EmptySeq, LenProperties
  <2>3. QED
    BY <1>6, <2>1, <2>2 DEF PromiseInv, KeepsPromises, RepliesFollowWrites
(* Steps that end the process.                                               *)
<1>7. ASSUME Down, IsPrefix(acked', file'.log), ~whole => acked' = <<>> PROVE PromiseInv'
  BY <1>1, <1>7, DownIs DEF PromiseInv, KeepsPromises, RepliesFollowWrites, Up
<1>8. ASSUME NEW d \in Dbs, Write(d) PROVE PromiseInv'
  <2> DEFINE cmd == [id |-> Len(data) + 1, db |-> d]
  <2>1. cmd \in Entry
    BY TypeIs, <1>1 DEF Entry
  <2>2. data' = Append(data, cmd) /\ UNCHANGED <<file, acked, whole>> /\ Up
    BY <1>8 DEF Write
  <2>3. server'.status = server.status /\ server'.postponed = server.postponed
    BY <1>1, <1>8 DEF Write, feedAppendOnlyFile, ServerState
  <2> HIDE DEF cmd
  <2>4. IsPrefix(acked, data) => IsPrefix(acked, data')
    <3>1. data' = data \o <<cmd>> /\ <<cmd>> \in Seq(Entry)
      BY <1>1, <2>1, <2>2, AppendIsConcat
    <3>2. QED
      BY <1>1, <3>1, PrefixOfConcat
  <2>5. QED
    BY <1>3, <2>2, <2>3, <2>4 DEF PromiseInv, KeepsPromises, RepliesFollowWrites, Up
<1>8e. CASE WriteExits
  <2>1. Down /\ file' = file /\ acked' = <<>>
    BY <1>1, <1>8e, WriteExitsIs DEF PromiseInv
  <2>2. QED
    BY <1>1, <1>7, <2>1, PrefixOfItself
<1>9. CASE (beforeSleep \/ cronFlush) /\ ~WriteExits
  <2>1. /\ Up /\ flushAppendOnlyFile /\ data' = data /\ whole' = whole
        /\ acked' = data \/ acked' = acked
        /\ ~whole => acked' = acked
    BY <1>9 DEF beforeSleep, cronFlush
  <2>2. Up'
    BY <1>1, <2>1, FlushKeeps DEF Up
  <2>3. CASE ~whole
    BY <1>6, <2>1, <2>3 DEF PromiseInv
  <2>4. CASE whole
    <3>1. IsPrefix(acked', data)
      BY <1>1, <1>3, <2>1, <2>4, PrefixOfItself
    <3>2. RepliesFollowWrites'
      <4>1. CASE PutOff
        BY <1>1, <4>1 DEF PutOff, ServerState, RepliesFollowWrites
      <4>2. CASE NothingToFlush \/ Flushed
        <5>1. aofbuf' = <<>> /\ data = file'.log \o <<>>
          BY <1>4, <2>1, <2>2, <2>4, <4>2 DEF NothingToFlush, Flushed
        <5>2. data = file'.log
          BY <1>2, <5>1, ConcatEmptySeq
        <5>3. QED
          BY <1>1, <1>2, <3>1, <5>2, PrefixLength DEF RepliesFollowWrites
      <4>3. QED
        BY <1>1, <2>1, <4>1, <4>2, FlushIs
    <3>3. QED
      BY <2>1, <2>2, <2>4, <3>1, <3>2 DEF PromiseInv, KeepsPromises
  <2>5. QED
    BY <2>3, <2>4
<1>10. CASE bioProcessBackgroundJobs
  BY <1>1, <1>5, <1>10 DEF bioProcessBackgroundJobs, Synced, FileState
<1>11. CASE bgrewriteaofCommand \/ cronStartsScheduled
  BY <1>1, <1>5, <1>11 DEF bgrewriteaofCommand, cronStartsScheduled, ServerState
<1>12. CASE RewriteEnds \/ bgsaveCommand \/ SaveEnds \/ cronReapsSave \/ checkAofFix
  BY <1>1, <1>5, <1>12 DEF RewriteEnds, bgsaveCommand, SaveEnds, cronReapsSave, checkAofFix,
                           FileState
<1>12s. CASE StrayEnds
  BY <1>1, <1>5, <1>12s DEF StrayEnds, ServerState
<1>13. ASSUME NEW exit \in Exits, NEW left \in Exits, RewriteDone(exit, left)
       PROVE  PromiseInv'
  <2>1. /\ Up /\ data' = data /\ acked' = acked
        /\ server'.status = server.status /\ server'.postponed = server.postponed
    BY <1>1, <1>13, HandlerServer DEF RewriteDone
  <2>2. CASE ~whole
    BY <1>6, <2>1, <2>2 DEF PromiseInv
  <2>3. CASE whole
    <3>1. whole'
      BY <1>13, <2>3 DEF RewriteDone
    <3>2. CASE file' = file
      BY <1>5, <2>1, <2>3, <3>1, <3>2
    <3>3. CASE file' # file
      <4>1. aofbuf' = <<>>
        BY <1>1, <1>3, <1>13, <2>1, <2>3, <3>3
           DEF RewriteDone, SwitchFile, ProcessInv
      <4>2. data = file'.log
        BY <1>2, <1>4, <2>1, <3>1, <4>1, ConcatEmptySeq DEF Up
      <4>3. Len(acked') <= Len(file'.log)
        BY <1>1, <1>3, <2>1, <2>3, <4>2, PrefixLength
      <4>4. QED
        BY <1>3, <2>1, <2>3, <3>1, <4>3 DEF PromiseInv, KeepsPromises, RepliesFollowWrites, Up
    <3>4. QED
      BY <3>2, <3>3
  <2>4. QED
    BY <2>2, <2>3
<1>14. CASE (stopAppendOnly /\ ~WriteExits) \/ FullResync
  BY <1>1, <1>6, <1>14, StopIs DEF FullResync
<1>15. CASE startAppendOnly
  <2>1. acked' = acked /\ ~whole
    BY <1>1, <1>15 DEF startAppendOnly, ProcessInv
  <2>2. QED
    BY <1>6, <2>1 DEF PromiseInv
<1>16. CASE shutdownCommand
  <2>1. Up /\ aofbuf = <<>> /\ acked' = acked /\ file'.log = file.log
    BY <1>1, <1>16 DEF shutdownCommand, Synced, FileState
  <2>2. CASE Down
    <3>1. file.log \o aofbuf = file.log
      BY <1>1, <2>1, ConcatEmptySeq
    <3>2. IsPrefix(acked, file.log)
      BY <1>1, <1>3, <2>1, <3>1, PrefixOfItself DEF PromiseInv
    <3>3. QED
      BY <1>7, <2>1, <2>2, <3>2 DEF PromiseInv
  <2>3. CASE ~Down
    BY <1>5, <1>16, <2>1, <2>3 DEF shutdownCommand
  <2>4. QED
    BY <2>2, <2>3
<1>17. CASE Crash
  <2>1. /\ Up /\ Down /\ file' = file
        /\ acked' = IF server.postponed THEN Among(Len(file.log)) ELSE acked
    BY <1>17 DEF Crash
  <2>2. QED
    BY <1>7, <2>1, KilledKeeps
<1>18. CASE FlushFails
  <2>1. PICK n \in 0..Len(aofbuf) - 1, torn \in BOOLEAN :
          file' = [file EXCEPT !.log = @ \o SubSeq(aofbuf, 1, n), !.torn = torn]
    BY <1>18 DEF FlushFails
  <2>2. /\ Up /\ Down
        /\ acked' = IF server.postponed THEN Among(Len(file.log)) ELSE acked
    BY <1>18 DEF FlushFails
  <2>3. SubSeq(aofbuf, 1, n) \in Seq(Entry)
    BY <1>1, SubSeqProperties
  <2>4. file'.log = file.log \o SubSeq(aofbuf, 1, n)
    BY <1>1, <2>1 DEF FileState
  <2>5. IsPrefix(acked', file.log) /\ (~whole => acked' = <<>>)
    BY <2>2, KilledKeeps
  <2>6. IsPrefix(acked', file'.log)
    BY <1>1, <1>2, <2>3, <2>4, <2>5, PrefixOfConcat
  <2>7. QED
    BY <1>7, <2>2, <2>5, <2>6
(* What a loss of power leaves is the beginning of f, and the promise was of *)
(* f or, in a switch of files, is counted from f.                            *)
<1>19. CASE PowerLoss
  <2>1. PICK n \in file.synced..Len(file.log) :
          /\ n \in 0..Len(file.log) /\ file'.log = SubSeq(file.log, 1, n)
          /\ acked' = IF server.policy = "always" /\ ~NoSyncOnRewrite THEN acked ELSE Among(n)
    BY <1>1, <1>19, LosePowerIs DEF PowerLoss
  <2>2. acked' = Among(n)
    <3>1. CASE server.policy = "always" /\ ~NoSyncOnRewrite
      <4>1. Len(acked) <= file.synced /\ acked' = acked
        BY <2>1, <3>1 DEF SyncInv
      <4>2. Len(acked) <= n
        BY <1>1, <2>1, <4>1, TypeIs
      <4>3. QED
        BY <4>1, <4>2 DEF Among
    <3>2. CASE ~(server.policy = "always" /\ ~NoSyncOnRewrite)
      BY <2>1, <3>2
    <3>3. QED
      BY <3>1, <3>2
  <2>3. Up /\ Down
    BY <1>1, <1>19, LosePowerIs DEF PowerLoss
  <2>4. QED
    BY <1>7, <2>1, <2>2, <2>3, AmongIsThere
<1>19s. CASE PowerLossInSwitch
  <2>1. /\ Rewritten \in FileState /\ LosePower(Rewritten)
        /\ Rewritten.log = rewrite.snap \o diff
        /\ server.policy # "always" /\ rewrite.status = "done" /\ server.appendfd # "none"
    BY <1>1, <1>19s, RewrittenType DEF PowerLossInSwitch
  <2>2. PICK n \in 0..Len(Rewritten.log) :
          file'.log = SubSeq(Rewritten.log, 1, n) /\ acked' = Among(n)
    BY <1>1, <2>1, LosePowerIs
  <2>3. Up /\ Down
    BY <1>1, <2>1, LosePowerIs
  <2>4. CASE whole
    <3>1. Rewritten.log = data
      <4>1. server.appendonly /\ server.appendfd = "open"
        BY <1>1, <2>4 DEF ProcessInv
      <4>2. QED
        BY <2>1, <2>3, <4>1 DEF LogInv, FileInv, RewriteFollowsData
    <3>2. IsPrefix(acked, data \o <<>>) /\ <<>> \in Seq(Entry)
      BY <1>1, <1>3, <2>3, <2>4, ConcatEmptySeq, EmptySeq
    <3>3. IsPrefix(Cut(acked, n), SubSeq(data, 1, n))
      BY <1>1, <2>2, <3>1, <3>2, CutOfPrefix
    <3>4. IsPrefix(acked', file'.log)
      BY <2>2, <3>1, <3>3, AmongIs
    <3>5. QED
      BY <1>7, <2>3, <2>4, <3>4
  <2>5. CASE ~whole
    <3>1. acked' = <<>>
      BY <1>1, <2>2, <2>5, EmptySeq DEF PromiseInv, Among
    <3>2. QED
      BY <1>2, <1>7, <2>3, <3>1, PrefixOfItself
  <2>6. QED
    BY <2>4, <2>5
<1>20. CASE loadAppendOnlyFile
  <2>1. ~Up /\ data' = file.log /\ file' = file /\ acked' = acked /\ whole'
    BY <1>20 DEF loadAppendOnlyFile
  <2>2. IsPrefix(acked, file.log) /\ Up'
    BY <1>20, <2>1 DEF PromiseInv, loadAppendOnlyFile, Fresh, Up
  <2>3. Len(acked) <= Len(file.log)
    BY <1>1, <2>2, PrefixLength
  <2>4. QED
    BY <2>1, <2>2, <2>3 DEF PromiseInv, KeepsPromises, RepliesFollowWrites
<1>21. QED
  BY <1>1, <1>8, <1>8e, <1>9, <1>10, <1>11, <1>12, <1>12s, <1>13, <1>14, <1>15, <1>16, <1>17,
     <1>18, <1>19, <1>19s, <1>20, HandlerIs DEF Next

LEMMA PolicyStays ==
  ASSUME TypeOK, ProcessInv, Next
  PROVE  server'.policy = server.policy
<1>1. server \in ServerState
  BY TypeIs
<1>2. CASE (\E d \in Dbs : Write(d)) \/ loadAppendOnlyFile
  <2>1. \A d \in Dbs : Write(d) => server'.policy = server.policy
    BY <1>1 DEF Write, feedAppendOnlyFile, ServerState
  <2>2. loadAppendOnlyFile => server'.policy = server.policy
    BY DEF loadAppendOnlyFile, Fresh
  <2>3. QED
    BY <1>2, <2>1, <2>2
<1>3. CASE (beforeSleep \/ cronFlush) /\ ~WriteExits
  BY <1>3, FlushKeeps DEF beforeSleep, cronFlush
<1>4. CASE RewriteEnds \/ bgsaveCommand \/ SaveEnds \/ cronReapsSave \/ checkAofFix
             \/ bioProcessBackgroundJobs
  BY <1>4 DEF RewriteEnds, bgsaveCommand, SaveEnds, cronReapsSave, checkAofFix,
              bioProcessBackgroundJobs
<1>5. CASE bgrewriteaofCommand \/ cronStartsScheduled \/ FullResync \/ StrayEnds
  BY <1>1, <1>5 DEF bgrewriteaofCommand, cronStartsScheduled, FullResync, StrayEnds,
                    ServerState
<1>6. CASE \/ stopAppendOnly /\ ~WriteExits
           \/ startAppendOnly \/ backgroundRewriteDoneHandler \/ cronReapsStray
  BY <1>6, StopIs, StartIs, HandlerIs, HandlerServer
<1>7. CASE Down
  BY <1>7, DownIs
<1>8. CASE \/ shutdownCommand \/ Crash \/ FlushFails \/ PowerLoss \/ PowerLossInSwitch
           \/ WriteExits
  BY <1>7, <1>8 DEF shutdownCommand, Crash, FlushFails, PowerLoss, PowerLossInSwitch,
                    LosePower, WriteExits
<1>9. QED
  BY <1>2, <1>3, <1>4, <1>5, <1>6, <1>7, <1>8 DEF Next

LEMMA SyncStep ==
  ASSUME LogInv, LogInv', PromiseInv, PromiseInv', SyncInv, Next, ~ShutdownLate, ~LossAtSwitch
  PROVE  SyncInv'
<1>1. /\ TypeOK /\ SelectInv /\ ProcessInv
      /\ server \in ServerState /\ file \in FileState
      /\ file.log \in Seq(Entry) /\ acked \in Seq(Entry) /\ aofbuf \in Seq(Entry)
      /\ data \in Seq(Entry)
      /\ Len(acked) \in Nat /\ Len(file.log) \in Nat /\ file.synced \in Nat
      /\ file.synced <= Len(file.log) /\ Len(<<>>) = 0
  BY TypeIs, EmptySeq DEF LogInv, ProcessInv
<1>2. /\ file'.log \in Seq(Entry) /\ Len(file'.log) \in Nat /\ file'.synced \in Nat
      /\ data' \in Seq(Entry) /\ acked' \in Seq(Entry) /\ Len(acked') \in Nat
  BY LenProperties DEF LogInv, TypeOK
<1> SUFFICES ASSUME server'.policy = "always", ~NoSyncOnRewrite
             PROVE  /\ Len(acked') <= file'.synced
                    /\ (Up' /\ whole' /\ Len(file'.log) > loaded') => file'.synced = Len(file'.log)
  BY DEF SyncInv
<1>3. server'.policy = server.policy
  BY <1>1, PolicyStays
<1>4. /\ Len(acked) <= file.synced
      /\ (Up /\ whole /\ Len(file.log) > loaded) => file.synced = Len(file.log)
  BY <1>3 DEF SyncInv
(* Steps that leave the file, the promise and the process alone.             *)
<1>5. CASE /\ UNCHANGED <<acked, whole, loaded>> /\ file'.log = file.log
           /\ file'.synced = file.synced /\ server'.status = server.status
  BY <1>4, <1>5 DEF Up
<1>6. ASSUME acked' = <<>>, ~Up' \/ ~whole'
      PROVE  /\ Len(acked') <= file'.synced
             /\ (Up' /\ whole' /\ Len(file'.log) > loaded') => file'.synced = Len(file'.log)
  BY <1>1, <1>2, <1>6
<1>7. ASSUME NEW d \in Dbs, Write(d)
      PROVE  /\ UNCHANGED <<acked, whole, loaded, file>> /\ server'.status = server.status
  BY <1>1, <1>7 DEF Write, feedAppendOnlyFile, ServerState
<1>7e. CASE WriteExits
  <2>1. Down /\ acked' = <<>>
    BY <1>1, <1>7e, WriteExitsIs DEF PromiseInv
  <2>2. ~Up'
    BY <1>1, <2>1, DownIs DEF Up
  <2>3. QED
    BY <1>6, <2>1, <2>2
<1>8. CASE (beforeSleep \/ cronFlush) /\ ~WriteExits
  <2>1. /\ Up /\ flushAppendOnlyFile /\ UNCHANGED <<data, whole, loaded>>
        /\ acked' = acked \/ (whole /\ Len(data) > loaded /\ acked' = data)
    BY <1>8 DEF beforeSleep, cronFlush
  <2>2. Up' /\ (server.appendonly => server'.appendonly)
    BY <1>1, <2>1, FlushKeeps DEF Up
  <2>3. CASE NothingToFlush
    <3>1. file' = file
      BY <2>3 DEF NothingToFlush
    <3>2. whole => data = file.log
      <4>1. whole => data = file.log \o <<>>
        BY <2>1, <2>3, PromiseIs DEF NothingToFlush
      <4>2. QED
        BY <1>1, <4>1, ConcatEmptySeq
    <3>3. QED
      BY <1>1, <1>4, <2>1, <3>1, <3>2 DEF Up
  <2>4. CASE Flushed
    <3>1. file'.synced = Len(file'.log)
      BY <1>3, <2>4 DEF Flushed
    <3>2. whole => Len(acked') <= Len(file'.log)
      <4>1. whole => RepliesFollowWrites' /\ server'.appendonly /\ ~server'.postponed
        BY <1>1, <2>1, <2>2, <2>4, PromiseIs DEF Flushed, ServerState, PromiseInv
      <4>2. QED
        BY <2>1, <2>2, <4>1 DEF RepliesFollowWrites
    <3>3. ~whole => Len(acked') <= Len(file'.log)
      BY <1>1, <1>2, <2>1 DEF PromiseInv
    <3>4. QED
      BY <3>1, <3>2, <3>3
  <2>5. ~PutOff
    BY <1>3 DEF PutOff
  <2>6. QED
    BY <1>1, <2>1, <2>3, <2>4, <2>5, FlushIs
<1>9. CASE bioProcessBackgroundJobs
  <2>1. /\ UNCHANGED <<acked, whole, loaded, server>> /\ file'.log = file.log
        /\ file'.synced = file.synced \/ file'.synced = Len(file.log)
    BY <1>1, <1>9 DEF bioProcessBackgroundJobs, Synced, FileState
  <2>2. QED
    BY <1>1, <1>4, <2>1 DEF Up
<1>10. CASE bgrewriteaofCommand \/ cronStartsScheduled \/ startAppendOnly \/ StrayEnds
  <2>1. /\ UNCHANGED <<acked, whole, loaded, file>> /\ server'.status = server.status
    <3>1. CASE startAppendOnly
      BY <1>1, <3>1, StartIs DEF startAppendOnly, Up
    <3>2. CASE bgrewriteaofCommand \/ cronStartsScheduled \/ StrayEnds
      BY <1>1, <3>2 DEF bgrewriteaofCommand, cronStartsScheduled, StrayEnds, ServerState
    <3>3. QED
      BY <1>10, <3>1, <3>2
  <2>2. QED
    BY <1>5, <2>1
<1>11. CASE RewriteEnds \/ bgsaveCommand \/ SaveEnds \/ cronReapsSave \/ checkAofFix
  <2>1. /\ UNCHANGED <<acked, whole, loaded, server>> /\ file'.log = file.log
        /\ file'.synced = file.synced
    BY <1>1, <1>11 DEF RewriteEnds, bgsaveCommand, SaveEnds, cronReapsSave, checkAofFix,
                       FileState
  <2>2. QED
    BY <1>5, <2>1
<1>12. ASSUME NEW exit \in Exits, NEW left \in Exits, RewriteDone(exit, left)
       PROVE  /\ Len(acked') <= file'.synced
              /\ (Up' /\ whole' /\ Len(file'.log) > loaded') => file'.synced = Len(file'.log)
  <2>1. /\ Up /\ acked' = acked /\ loaded' = loaded /\ data' = data
        /\ server'.status = server.status
    BY <1>1, <1>12, HandlerServer DEF RewriteDone
  <2>2. CASE file' = file /\ whole' = whole
    BY <1>5, <2>1, <2>2
  <2>3. CASE rewrite.status = "done" /\ SwitchFile(left) /\ whole' = (whole \/ server.appendonly)
    <3>1. file' = Synced(Rewritten)
      BY <1>3, <2>3 DEF SwitchFile
    <3>2. file'.synced = Len(file'.log)
      BY <1>1, <3>1, RewrittenType
    <3>3. whole => Len(acked) <= Len(file'.log)
      <4>1. whole => whole' /\ Up' /\ aofbuf' = <<>>
        BY <2>1, <2>3 DEF SwitchFile, Up
      <4>2. whole => data' = data /\ aofbuf' = <<>> /\ data' = file'.log \o aofbuf'
        BY <2>1, <4>1 DEF LogInv, ProcessInv, FileInv, LogFollowsData
      <4>3. whole => data = file'.log
        BY <1>2, <4>2, ConcatEmptySeq
      <4>4. whole => IsPrefix(acked, data)
        BY <2>1 DEF PromiseInv, KeepsPromises
      <4>5. QED
        BY <1>1, <4>3, <4>4, PrefixLength
    <3>4. ~whole => Len(acked) <= Len(file'.log)
      BY <1>1, <1>2 DEF PromiseInv
    <3>5. QED
      BY <2>1, <3>2, <3>3, <3>4
  <2>4. CASE server.appendfd = "none" /\ whole' = whole
    <3>1. ~whole
      BY <1>1, <2>4 DEF ProcessInv
    <3>2. QED
      BY <1>6, <2>1, <2>4, <3>1 DEF PromiseInv
  <2>5. QED
    BY <1>12, <2>2, <2>3, <2>4 DEF RewriteDone
<1>13. CASE (stopAppendOnly /\ ~WriteExits) \/ FullResync
  BY <1>1, <1>6, <1>13, StopIs DEF FullResync
<1>14. Down => ~Up'
  BY <1>1, DownIs DEF Up
<1>15. CASE shutdownCommand
  <2>1. /\ file'.log = file.log /\ acked' = acked
        /\ file'.synced = Len(file.log) \/ (server.appendfd = "none" /\ file'.synced = file.synced)
    BY <1>1, <1>15 DEF shutdownCommand, Synced, FileState
  <2>2. CASE file'.synced = Len(file.log)
    BY <1>1, <1>4, <2>1, <2>2
  <2>3. CASE server.appendfd = "none" /\ file'.synced = file.synced
    <3>1. ~whole /\ whole' = whole
      BY <1>1, <1>15, <2>3, DownIs DEF shutdownCommand, ProcessInv
    <3>2. QED
      BY <1>4, <2>1, <2>3, <3>1
  <2>4. QED
    BY <2>1, <2>2, <2>3
<1>16. CASE Crash \/ FlushFails
  <2>1. /\ Up /\ Down /\ acked' = IF server.postponed THEN Among(Len(file.log)) ELSE acked
    BY <1>16 DEF Crash, FlushFails
  <2>2. file'.synced = file.synced
    BY <1>1, <1>16 DEF Crash, FlushFails, FileState
  <2>3. QED
    BY <1>1, <1>2, <1>4, <1>14, <2>1, <2>2, KilledKeeps
<1>17. CASE PowerLoss
  <2>1. Down /\ acked' = acked
    BY <1>1, <1>3, <1>17, LosePowerIs DEF PowerLoss
  <2>2. PICK n \in file.synced..Len(file.log) : file'.synced = n
    BY <1>1, <1>17, LosePowerIs DEF PowerLoss
  <2>3. QED
    BY <1>1, <1>4, <1>14, <2>1, <2>2
<1>17s. ~PowerLossInSwitch
  BY <1>3 DEF PowerLossInSwitch
<1>18. CASE loadAppendOnlyFile
  <2>1. file' = file /\ acked' = acked /\ loaded' = Len(file.log)
    BY <1>18 DEF loadAppendOnlyFile
  <2>2. QED
    BY <1>1, <1>4, <2>1
<1>19. QED
  BY <1>1, <1>5, <1>7, <1>7e, <1>8, <1>9, <1>10, <1>11, <1>12, <1>13, <1>15, <1>16, <1>17,
     <1>17s, <1>18, HandlerIs DEF Next

-----------------------------------------------------------------------------
(* Theorems *)

LEMMA LogInvInitially == Init => LogInv
<1> SUFFICES ASSUME Init PROVE LogInv
  OBVIOUS
<1>1. PICK policy \in Policies : server = Fresh(policy)
  BY DEF Init
<1>2. server \in ServerState /\ server.seldb = NoDb /\ server.appendonly /\ Up
      /\ server.appendfd = "open"
  BY <1>1, FreshType DEF Fresh, Up
<1>3. TypeParts
  BY <1>2, EmptyType DEF Init, TypeParts, FileState, Queues
<1>4. TypeOK
  BY <1>3 DEF TypeOK, TypeParts, ServerState, FileState, RewriteState, Queues
<1>5. <<>> \o <<>> = <<>>
  BY EmptyType, ConcatEmptySeq
<1>6. SelectInv /\ ProcessInv /\ FileInv
  BY <1>2, <1>5, EmptyType
     DEF Init, SelectInv, ProcessInv, FileInv, LogFollowsData, RewriteFollowsData
<1>7. QED
  BY <1>4, <1>6 DEF LogInv

LEMMA LogInvStays == LogInv /\ ~ResyncOnRewrite /\ [Next]_vars => LogInv'
<1>1. LogInv /\ ~ResyncOnRewrite /\ Next => LogInv'
  BY TypeStep, SelectStep, ProcessStep, FileStep DEF LogInv
<1>2. LogInv /\ UNCHANGED vars => LogInv'
  BY DEF vars, LogInv, TypeOK, SelectInv, ProcessInv, FileInv, LogFollowsData,
         RewriteFollowsData, Up
<1>3. QED
  BY <1>1, <1>2

(* The file with its buffer replays to the dataset, whatever a shutdown      *)
(* finds in the buffer, as long as a slave's full resync does not meet a     *)
(* rewrite in progress: startAppendOnly and readSyncBulkPayload would not    *)
(* notice that theirs cannot start (aof.c, feedAppendOnlyFile,               *)
(* flushAppendOnlyFile and backgroundRewriteDoneHandler).                    *)
THEOREM LogIsTheData ==
  ASSUME ~ResyncOnRewrite
  PROVE  Spec => []LogFollowsData
<1>1. Spec => []LogInv
  <2>1. LogInv /\ [Next]_vars => LogInv'
    BY LogInvStays
  <2>2. QED
    BY <2>1, LogInvInitially, PTL DEF Spec
<1>2. LogInv => LogFollowsData
  BY DEF LogInv, FileInv
<1>3. QED
  BY <1>1, <1>2, PTL

(* So does the file of a rewrite with the differences kept for it, each in   *)
(* its database although appendseldb is shared by two streams                *)
(* (rewriteAppendOnlyFileBackground and server.bgrewritebuf).                *)
THEOREM RewriteIsTheData ==
  ASSUME ~ResyncOnRewrite
  PROVE  Spec => []RewriteFollowsData
<1>1. Spec => []LogInv
  <2>1. LogInv /\ [Next]_vars => LogInv'
    BY LogInvStays
  <2>2. QED
    BY <2>1, LogInvInitially, PTL DEF Spec
<1>2. LogInv => RewriteFollowsData
  BY DEF LogInv, FileInv
<1>3. QED
  BY <1>1, <1>2, PTL

(* The whole invariant, when besides every SHUTDOWN finds the buffer written *)
(* (prepareForShutdown does not write it) and no power is lost between the   *)
(* rename and the fsync of a rewritten file.                                 *)
LEMMA Invariance ==
  ASSUME ~ResyncOnRewrite, ~ShutdownLate, ~LossAtSwitch
  PROVE  Spec => []IInv
<1>1. Init => IInv
  <2>1. ASSUME Init PROVE PromiseInv /\ SyncInv
    <3>1. IsPrefix(<<>>, <<>>) /\ Len(<<>>) = 0
      BY EmptyType, PrefixOfItself
    <3>2. QED
      BY <2>1, <3>1
         DEF Init, PromiseInv, SyncInv, KeepsPromises, RepliesFollowWrites
  <2>2. QED
    BY <2>1, LogInvInitially DEF IInv
<1>2. IInv /\ [Next]_vars => IInv'
  <2>1. ASSUME IInv, Next PROVE IInv'
    <3>1. LogInv'
      BY <2>1, LogInvStays DEF IInv
    <3>2. PromiseInv'
      BY <2>1, <3>1, PromiseStep DEF IInv
    <3>3. SyncInv'
      BY <2>1, <3>1, <3>2, SyncStep DEF IInv
    <3>4. QED
      BY <3>1, <3>2, <3>3 DEF IInv
  <2>2. ASSUME IInv, UNCHANGED vars PROVE IInv'
    <3>1. LogInv'
      BY <2>2, LogInvStays DEF IInv
    <3>2. PromiseInv' /\ SyncInv'
      BY <2>2 DEF vars, IInv, PromiseInv, SyncInv, KeepsPromises, RepliesFollowWrites, Up
    <3>3. QED
      BY <3>1, <3>2 DEF IInv
  <2>3. QED
    BY <2>1, <2>2
<1>3. QED
  BY <1>1, <1>2, PTL DEF Spec

(* A server that comes back, after any number of crashes, failed writes and  *)
(* power losses and after any repair by redis-check-aof --fix, has what its  *)
(* appendfsync policy stands by (loadAppendOnlyFile), if with appendfsync    *)
(* always the power does not go between the rename of a rewritten file and   *)
(* its fsync (backgroundRewriteDoneHandler).                                 *)
THEOREM PromisesAreKept ==
  ASSUME ~ResyncOnRewrite, ~ShutdownLate, ~LossAtSwitch
  PROVE  Spec => []KeepsPromises
<1>1. IInv => KeepsPromises
  BY DEF IInv, PromiseInv
<1>2. QED
  BY <1>1, Invariance, PTL

(* A command is replied to after its entry was written, unless the flush was *)
(* put off for an fsync under way (beforeSleep runs before the handlers that *)
(* send replies).                                                            *)
THEOREM WritesComeFirst ==
  ASSUME ~ResyncOnRewrite, ~ShutdownLate, ~LossAtSwitch
  PROVE  Spec => []RepliesFollowWrites
<1>1. IInv => RepliesFollowWrites
  BY DEF IInv, PromiseInv
<1>2. QED
  BY <1>1, Invariance, PTL
==============================================================================
