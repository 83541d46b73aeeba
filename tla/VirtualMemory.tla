---------------------------- MODULE VirtualMemory ---------------------------
(***************************************************************************)
(* vm.c: values that are swapped out to a file and loaded again by I/O     *)
(* threads, and clients that wait for what their command needs.            *)
(*                                                                         *)
(* The state of the server is one record, srv, which the main thread       *)
(* changes from one operation to the next:                                 *)
(*   db          the value of every key: its storage, an id for the object *)
(*               (or the vmpointer), and the value or the pages            *)
(*   bitmap      the pages in use                                          *)
(*   newjobs, processed  two of the three job lists                        *)
(*   active      io_active_threads                                         *)
(*   waits       of a client, the keys it waits for (c->io_keys)           *)
(*   waiters     of a key, the clients (db->io_keys)                       *)
(*   ready       io_ready_clients                                          *)
(* I/O threads take jobs from newjobs to processing and to processed.      *)
(* The main thread waits for a job in processing before it cancels it      *)
(* (Settled), and nothing else happens in that thread meanwhile.           *)
(***************************************************************************)
EXTENDS Integers, Sequences, FiniteSets, SequencesExt

CONSTANTS Keys, Clients, Vals,
          Commands,      \* the keys of a command, and what it writes to the first, or "none"
          Sets,          \* the keys and values of SET
          PagesOf(_),    \* rdbSavedObjectPages
          Pages,         \* vm_pages: the pages are 0..Pages-1
          MaxThreads,    \* vm_max_threads
          MaxJobs,       \* bound of the jobs that exist at a time
          FlushWaiting,  \* FLUSHDB while a client waits for a key
          SwapWhileSaving, \* a dump is loaded, or DEBUG SWAPOUT used, while a child saves
          SeekFails      \* fseeko of the swap file may fail in a thread

ASSUME VirtualMemoryAssumption ==
  /\ IsFiniteSet(Keys)
  /\ \A v \in Vals : PagesOf(v) \in 1..Pages
  /\ Pages \in Nat \ {0} /\ MaxThreads \in Nat \ {0} /\ MaxJobs \in Nat
  /\ {FlushWaiting, SwapWhileSaving, SeekFails} \subseteq BOOLEAN
  /\ \A command \in Commands :
       /\ command.keys \in Seq(Keys) \ {<<>>}
       /\ command.write \in Vals \cup {"none"}
  /\ Sets \subseteq Keys \X Vals

VARIABLES srv,
          processing, \* the jobs that threads are at
          swap,       \* what is written on every page
          cmd,        \* of a blocked client, the command to resume
          saving,     \* "no", "waits" in waitEmptyIOJobsQueue, "child"
          snapshot,   \* the swapped values that the child saves
          data        \* what the keys hold, for the properties

vars == <<srv, processing, swap, cmd, saving, snapshot, data>>

-----------------------------------------------------------------------------
(* Objects, pages and jobs *)

None == [storage |-> "none", id |-> 0, val |-> "none", pages |-> {}]
InMemory(id, v) == [storage |-> "memory", id |-> id, val |-> v, pages |-> {}]
createVmPointer(id, run) ==
  [storage |-> "swapped", id |-> id, val |-> "none", pages |-> run]

Swapped(o) == o.storage \in {"swapped", "loading"}
Job(type, k, o) ==
  [type |-> type, key |-> k, id |-> o.id, canceled |-> FALSE,
   val |-> IF type = "load" THEN "none" ELSE o.val,
   pages |-> IF type = "load" THEN o.pages ELSE {}]

Jobs(s) == ToSet(s.newjobs) \cup processing \cup ToSet(s.processed)
JobCount(s) == Len(s.newjobs) + Cardinality(processing) + Len(s.processed)

(* An address for a new object of key k.  A job for a swap keeps its object  *)
(* alive; that of the vmpointer of a cancelled load may be given out again.  *)
NewId(s, k) ==
  LET used == {j.id : j \in {i \in Jobs(s) : i.key = k /\ i.type # "load"}}
      free == (1..Cardinality(used) + 1) \ used
  IN  CHOOSE i \in free : \A j \in free : i <= j

Refers(j, k, o) == j.key = k /\ j.id = o.id /\ j.type # "load"

(* vmFindContiguousPages searches from where it stopped, with jumps, and may *)
(* miss a run that is there: any of these, or none.                          *)
FreeRuns(s, n) ==
  {run \in {first..first + n - 1 : first \in 0..Pages - n} : run \cap s.bitmap = {}}

Written(v, run) == [p \in DOMAIN swap |-> IF p \in run THEN v ELSE swap[p]]
ReadFrom(run) ==
  LET found == {swap[p] : p \in run}
  IN  IF Cardinality(found) = 1 THEN CHOOSE v \in found : TRUE ELSE "garbage"

queueIOJob(s, job) ==
  [s EXCEPT !.newjobs = Append(@, job),
            !.active = IF @ < MaxThreads THEN @ + 1 ELSE @]

vmSwapObjectThreaded(s, k) ==
  queueIOJob([s EXCEPT !.db[k].storage = "swapping"], Job("prepare", k, s.db[k]))

(* In memory and referred to by its key only.                                *)
Swappable(s) ==
  {k \in Keys : s.db[k].storage = "memory" /\ \A j \in Jobs(s) : ~Refers(j, k, s.db[k])}

(* Mutation: a child that saves is not looked for.                           *)
vmCanSwapOut_Always == TRUE

vmCanSwapOut == saving # "child"

-----------------------------------------------------------------------------
(* Cancelling a job, deleting and looking up keys *)

(* Mutation: a job that a thread is at is not waited for.                    *)
Settled_AtOnce(k) == TRUE

Settled(k) ==
  srv.db[k].storage \in {"swapping", "loading"} => \A j \in processing : j.key # k

(* vmCancelThreadedIOJob, for the object of key k.                           *)
vmCancelThreadedIOJob(s, k) ==
  LET o == s.db[k]
      IsIt(j) == j.key = k /\ j.id = o.id /\ ~j.canceled
      swapping == {j \in ToSet(s.newjobs) \cup ToSet(s.processed) : IsIt(j) /\ j.type = "swap"}
      marked == [i \in DOMAIN s.processed |->
                   [s.processed[i] EXCEPT !.canceled = @ \/ IsIt(s.processed[i])]]
  IN  [s EXCEPT
        !.newjobs = RemoveAt(@, SelectInSeq(@, IsIt)),
        !.processed = marked,
        !.bitmap = @ \ UNION {j.pages : j \in swapping},
        !.db[k].storage = IF @ = "loading" THEN "swapped" ELSE "memory"]

Undone(s, k) ==
  IF s.db[k].storage \in {"swapping", "loading"} THEN vmCancelThreadedIOJob(s, k) ELSE s

dontWaitForSwappedKey(s, c, k) ==
  [s EXCEPT !.waits[c] = RemoveFirst(@, k), !.waiters[k] = RemoveFirst(@, c)]

(* Mutation: clients stay asleep.                                            *)
handleClientsBlockedOnSwappedKey_Silent(s, k) == s

handleClientsBlockedOnSwappedKey(s, k) ==
  LET Wake(t, c) ==
        LET u == dontWaitForSwappedKey(t, c, k)
        IN  IF u.waits[c] = <<>> THEN [u EXCEPT !.ready = Append(@, c)] ELSE u
  IN  FoldLeft(Wake, s, s.waiters[k])

(* decrRefCount of the value of a key that goes.                             *)
Released(s, k) ==
  LET t == Undone(s, k)
  IN  [t EXCEPT !.db[k] = None,
                !.bitmap = IF Swapped(t.db[k]) THEN @ \ t.db[k].pages ELSE @]

dbDelete(s, k) == Released(handleClientsBlockedOnSwappedKey(s, k), k)

vmLoadObject(s, k) ==
  LET t == Undone(s, k)
  IN  [t EXCEPT !.bitmap = @ \ t.db[k].pages,
                !.db[k] = InMemory(NewId(t, k), ReadFrom(t.db[k].pages))]

lookupKey(s, k) ==
  IF Swapped(s.db[k])
  THEN LET t == vmLoadObject(s, k)
       IN  IF s.db[k].storage = "loading" THEN handleClientsBlockedOnSwappedKey(t, k) ELSE t
  ELSE Undone(s, k)

-----------------------------------------------------------------------------
(* Commands.  One looks up its keys and may then change the value of the     *)
(* first or, as APPEND does, create it.                                      *)

Nothing == [keys |-> <<>>, write |-> "none"]
call(s, command) ==
  LET t == FoldLeft(lookupKey, s, command.keys)
      k == Head(command.keys)
  IN  IF command.write = "none" THEN t
      ELSE IF t.db[k] = None THEN [t EXCEPT !.db[k] = InMemory(NewId(t, k), command.write)]
      ELSE [t EXCEPT !.db[k].val = command.write]

DataAfter(d, command) ==
  IF command.write = "none" THEN d ELSE [d EXCEPT ![Head(command.keys)] = command.write]

waitForSwappedKey(s, c, k) ==
  LET o == s.db[k]
      t == [s EXCEPT !.waits[c] = Append(@, k), !.waiters[k] = Append(@, c)]
  IN  IF ~Swapped(o) THEN Undone(s, k)
      ELSE IF o.storage = "loading" THEN t
      ELSE queueIOJob([t EXCEPT !.db[k].storage = "loading"], Job("load", k, o))

SettledKeys(keys) == \A k \in keys : Settled(k)
MainThread == saving # "waits"

(* processCommand: blockClientOnSwappedKeys, or call.                        *)
processCommand(c, command) ==
  LET s == FoldLeft(LAMBDA t, k : waitForSwappedKey(t, c, k), srv, command.keys)
      blocked == s.waits[c] # <<>>
  IN  /\ MainThread /\ cmd[c] = Nothing
      /\ \A k \in ToSet(command.keys) : srv.db[k].storage = "swapping" => Settled(k)
      /\ JobCount(s) <= MaxJobs \/ JobCount(s) = JobCount(srv)
      /\ srv' = IF blocked THEN s ELSE call(s, command)
      /\ data' = IF blocked THEN data ELSE DataAfter(data, command)
      /\ cmd' = IF blocked THEN [cmd EXCEPT ![c] = command] ELSE cmd
      /\ UNCHANGED <<processing, swap, saving, snapshot>>

(* beforeSleep resumes the clients that have all they waited for.            *)
Resume ==
  LET Run(s, c) == call(s, cmd[c])
      commands == [i \in DOMAIN srv.ready |-> cmd[srv.ready[i]]]
  IN  /\ MainThread /\ srv.ready # <<>>
      /\ SettledKeys(UNION {ToSet(command.keys) : command \in ToSet(commands)})
      /\ srv' = [FoldLeft(Run, srv, srv.ready) EXCEPT
                   !.ready = SubSeq(@, Len(srv.ready) + 1, Len(@))]
      /\ data' = FoldLeft(DataAfter, data, commands)
      /\ cmd' = [c \in Clients |-> IF c \in ToSet(srv.ready) THEN Nothing ELSE cmd[c]]
      /\ UNCHANGED <<processing, swap, saving, snapshot>>

(* SET does not preload: it looks the key up, and overwrites it.             *)
setKey(k, v) ==
  LET s == lookupKey(srv, k)
  IN  /\ MainThread /\ Settled(k)
      /\ srv' = [s EXCEPT !.db[k] = InMemory(NewId(s, k), v)]
      /\ data' = [data EXCEPT ![k] = v]
      /\ UNCHANGED <<processing, swap, cmd, saving, snapshot>>

(* DEL, and a key that expires.                                              *)
delCommand(k) ==
  /\ MainThread /\ srv.db[k] # None /\ Settled(k)
  /\ srv' = dbDelete(srv, k)
  /\ data' = [data EXCEPT ![k] = "none"]
  /\ UNCHANGED <<processing, swap, cmd, saving, snapshot>>

(* dictEmpty: nobody is told.                                                *)
flushdbCommand ==
  /\ MainThread /\ SettledKeys(Keys)
  /\ FlushWaiting \/ \A k \in Keys : srv.waiters[k] = <<>>
  /\ srv' = FoldLeft(Released, srv, SetToSeq({k \in Keys : srv.db[k] # None}))
  /\ data' = [k \in Keys |-> "none"]
  /\ UNCHANGED <<processing, swap, cmd, saving, snapshot>>

(* freeClient of a client that waits, or is about to be resumed.             *)
freeClient(c) ==
  LET Forget(s, k) == dontWaitForSwappedKey(s, c, k)
  IN  /\ MainThread /\ cmd[c] # Nothing
      /\ srv' = [FoldLeft(Forget, srv, srv.waits[c]) EXCEPT !.ready = RemoveFirst(@, c)]
      /\ cmd' = [cmd EXCEPT ![c] = Nothing]
      /\ UNCHANGED <<processing, swap, saving, snapshot, data>>

-----------------------------------------------------------------------------
(* Swapping out, and the jobs that are done *)

(* serverCron, when there is too much in memory.                             *)
vmSwapOneObjectThreaded(k) ==
  /\ MainThread /\ vmCanSwapOut
  /\ k \in Swappable(srv) /\ JobCount(srv) < MaxJobs
  /\ srv' = vmSwapObjectThreaded(srv, k)
  /\ UNCHANGED <<processing, swap, cmd, saving, snapshot, data>>

(* While a dump is loaded, for DEBUG SWAPOUT, and from serverCron when there *)
(* are no threads.  Only serverCron asks vmCanSwapOut.                       *)
vmSwapObjectBlocking(k) ==
  /\ MainThread
  /\ vmCanSwapOut \/ SwapWhileSaving
  /\ k \in Swappable(srv)
  /\ \E run \in FreeRuns(srv, PagesOf(srv.db[k].val)) :
       /\ swap' = Written(srv.db[k].val, run)
       /\ srv' = [srv EXCEPT !.db[k] = createVmPointer(NewId(srv, k), run), !.bitmap = @ \cup run]
  /\ UNCHANGED <<processing, cmd, saving, snapshot, data>>

Rest == [srv EXCEPT !.processed = Tail(@)]

(* freeIOJob.  An object that is still being swapped when its job is thrown  *)
(* away is one whose write failed, and it has no other job: it is back.      *)
Abandoned(job) ==
  /\ job.type # "load"
  /\ srv.db[job.key].id = job.id /\ srv.db[job.key].storage = "swapping"
  /\ \A j \in Jobs(srv) : j.key = job.key => j.canceled

CanceledJob(job) ==
  /\ job.canceled
  /\ srv' = IF Abandoned(job) THEN [Rest EXCEPT !.db[job.key].storage = "memory"] ELSE Rest

LoadedJob(job) ==
  LET s == [Rest EXCEPT !.bitmap = @ \ job.pages,
                        !.db[job.key] = InMemory(NewId(srv, job.key), job.val)]
  IN  /\ ~job.canceled /\ job.type = "load"
      /\ srv' = handleClientsBlockedOnSwappedKey(s, job.key)

(* No room, or a child has begun to save: the value stays.                   *)
PreparedJob(job) ==
  /\ ~job.canceled /\ job.type = "prepare"
  /\ \/ srv' = [Rest EXCEPT !.db[job.key].storage = "memory"]
     \/ /\ vmCanSwapOut
        /\ \E run \in FreeRuns(srv, PagesOf(job.val)) :
             srv' = queueIOJob([Rest EXCEPT !.bitmap = @ \cup run],
                               [job EXCEPT !.type = "swap", !.pages = run])

(* The next one may be swapped at once, if the main thread does not wait.    *)
SwappedJob(job) ==
  LET s == [Rest EXCEPT !.db[job.key] = createVmPointer(NewId(Rest, job.key), job.pages)]
  IN  /\ ~job.canceled /\ job.type = "swap"
      /\ \/ srv' = s
         \/ /\ MainThread /\ vmCanSwapOut
            /\ \E k \in Swappable(s) : srv' = vmSwapObjectThreaded(s, k)

vmThreadedIOCompletedJob ==
  /\ srv.processed # <<>>
  /\ LET job == Head(srv.processed)
     IN  CanceledJob(job) \/ LoadedJob(job) \/ PreparedJob(job) \/ SwappedJob(job)
  /\ UNCHANGED <<processing, swap, cmd, saving, snapshot, data>>

-----------------------------------------------------------------------------
(* The I/O threads *)

TakeJob ==
  /\ srv.active > Cardinality(processing) /\ srv.newjobs # <<>>
  /\ srv' = [srv EXCEPT !.newjobs = Tail(@)]
  /\ processing' = processing \cup {Head(srv.newjobs)}
  /\ UNCHANGED <<swap, cmd, saving, snapshot, data>>

ExitThread ==
  /\ srv.active > Cardinality(processing) /\ srv.newjobs = <<>>
  /\ srv' = [srv EXCEPT !.active = @ - 1]
  /\ UNCHANGED <<processing, swap, cmd, saving, snapshot, data>>

(* The work, for which no lock but that of the file is held, and the move to *)
(* processed: the main thread leaves the job alone in between.  A write that *)
(* fails cancels the job, and nothing else: the pages stay marked.           *)
ProcessJob(job) ==
  \E failed \in {FALSE, SeekFails /\ job.type = "swap"} :
    /\ processing' = processing \ {job}
    /\ swap' = IF job.type = "swap" /\ ~failed THEN Written(job.val, job.pages) ELSE swap
    /\ srv' = [srv EXCEPT
         !.processed = Append(@, IF job.type = "load" THEN [job EXCEPT !.val = ReadFrom(job.pages)]
                                 ELSE [job EXCEPT !.canceled = failed])]
    /\ UNCHANGED <<cmd, saving, snapshot, data>>

-----------------------------------------------------------------------------
(* Saving by a child *)

rdbSaveBackground ==
  /\ saving = "no"
  /\ saving' = "waits"
  /\ UNCHANGED <<srv, processing, swap, cmd, snapshot, data>>

(* waitEmptyIOJobsQueue ends when there are no jobs and no threads.          *)
fork ==
  /\ saving = "waits"
  /\ srv.newjobs = <<>> /\ processing = {} /\ srv.active = 0
  /\ saving' = "child"
  /\ snapshot' = {[pages |-> srv.db[k].pages, val |-> data[k]] : k \in {j \in Keys : Swapped(srv.db[j])}}
  /\ UNCHANGED <<srv, processing, swap, cmd, data>>

backgroundSaveDone ==
  /\ saving = "child"
  /\ saving' = "no" /\ snapshot' = {}
  /\ UNCHANGED <<srv, processing, swap, cmd, data>>

-----------------------------------------------------------------------------
(* vmInit                                                                    *)
Init ==
  /\ srv = [db |-> [k \in Keys |-> None], bitmap |-> {}, newjobs |-> <<>>, processed |-> <<>>,
            active |-> 0, waits |-> [c \in Clients |-> <<>>], waiters |-> [k \in Keys |-> <<>>],
            ready |-> <<>>]
  /\ processing = {}
  /\ swap = [p \in 0..Pages - 1 |-> "none"]
  /\ cmd = [c \in Clients |-> Nothing]
  /\ saving = "no" /\ snapshot = {}
  /\ data = [k \in Keys |-> "none"]

IOThread == TakeJob \/ ExitThread \/ \E job \in processing : ProcessJob(job)

Next ==
  \/ \E c \in Clients : freeClient(c) \/ \E command \in Commands : processCommand(c, command)
  \/ \E k \in Keys : delCommand(k)
  \/ \E set \in Sets : setKey(set[1], set[2])
  \/ flushdbCommand
  \/ Resume
  \/ \E k \in Keys : vmSwapOneObjectThreaded(k) \/ vmSwapObjectBlocking(k)
  \/ vmThreadedIOCompletedJob
  \/ IOThread
  \/ rdbSaveBackground \/ fork \/ backgroundSaveDone

Spec == Init /\ [][Next]_vars

-----------------------------------------------------------------------------
(* Properties *)

Live == {j \in Jobs(srv) : ~j.canceled}
Owners ==
  {[of |-> k, pages |-> srv.db[k].pages] : k \in {j \in Keys : Swapped(srv.db[j])}}
    \cup {[of |-> j.key, pages |-> j.pages] : j \in {i \in Live : i.type = "swap"}}

(* Whatever is cancelled, loaded or overwritten while threads read and write *)
(* the file, and whether a child saves or not: no page belongs to two, the   *)
(* bitmap marks exactly the pages that are used, every swapped value is on   *)
(* its pages, and a finished load has read the value.                        *)
ValuesSurvive ==
  /\ srv.bitmap = UNION {o.pages : o \in Owners}
  /\ \A o, p \in Owners : o # p => o.pages \cap p.pages = {}
  /\ \A k \in Keys :
       LET o == srv.db[k]
       IN  IF o = None THEN data[k] = "none"
           ELSE data[k] = IF Swapped(o) THEN ReadFrom(o.pages) ELSE o.val
  /\ \A j \in Live : j.type = "load" /\ j.val # "none" => j.val = data[j.key]

(* A child reads the file while the parent goes on: what was swapped when it *)
(* was forked is on its pages still, although the parent may have loaded,    *)
(* overwritten or deleted it since and its bitmap calls the pages free.      *)
(* vmCanSwapOut is there for this; a load and DEBUG SWAPOUT do not ask it.   *)
SavedValuesSurvive == \A s \in snapshot : ReadFrom(s.pages) = s.val

(* A value is being swapped or loaded exactly when there is one job for it   *)
(* that is not cancelled: the handler of a finished job finds its key, a     *)
(* cancellation finds its job (both are assertions of the code), and a       *)
(* client waits only for keys that a job is going to bring.                  *)
JobsMatchKeys ==
  /\ \A j \in Live :
       /\ srv.db[j.key].id = j.id
       /\ srv.db[j.key].storage = IF j.type = "load" THEN "loading" ELSE "swapping"
  /\ \A k \in Keys :
       srv.db[k].storage \in {"swapping", "loading"} =>
         Cardinality({j \in Live : j.key = k}) = 1
  /\ \A c \in Clients :
       /\ \A k \in ToSet(srv.waits[c]) :
            srv.db[k].storage = "loading" /\ c \in ToSet(srv.waiters[k])
       /\ cmd[c] # Nothing => srv.waits[c] # <<>> \/ c \in ToSet(srv.ready)

(* The clause of it that the code asserts: whatever is found being swapped   *)
(* or loaded, and is not at a thread, has a job that can be cancelled.       *)
CancelFindsItsJob ==
  \A k \in Keys :
    srv.db[k].storage \in {"swapping", "loading"} /\ Settled(k) =>
      \E j \in ToSet(srv.newjobs) \cup ToSet(srv.processed) :
        j.key = k /\ j.id = srv.db[k].id /\ ~j.canceled
=============================================================================
