-------------------------- MODULE GridMonitorProofs --------------------------
(***************************************************************************)
(* What holds of GridMonitor for every number of monitor threads, every    *)
(* bound on the main queue and both kinds of device.                       *)
(***************************************************************************)
EXTENDS GridMonitor, TLAPS

USE GridMonitorAssumption

ThreadState ==
  [pc : {"dead", "test", "report"} \cup Monitors, firstRun : BOOLEAN,
   previousState : BOOLEAN, error : MonitorErrors \cup {NoError},
   result : BOOLEAN]

(* An app that is not running has no thread and does not monitor, and only a *)
(* view that was unloaded since the launch is unloaded.                      *)
LifeCycle ==
  /\ app = "notRunning" => ~monitorRunning /\ thread = [t \in Threads |-> Dead]
  /\ view = "unloaded" => unloaded

TypeInv == GridMonitorTypeOK /\ LifeCycle

LEMMA DeadIsThreadState == Dead \in ThreadState /\ [Dead EXCEPT !.pc = "test"] \in ThreadState
  BY DEF Dead, ThreadState, Monitors

LEMMA ThreadUpdate ==
  ASSUME thread \in [Threads -> ThreadState], NEW t \in Threads, NEW r \in ThreadState,
         thread' = [thread EXCEPT ![t] = r]
  PROVE  thread' \in [Threads -> ThreadState]
  OBVIOUS

LEMMA AnswerUpdate ==
  ASSUME NEW s \in ThreadState, NEW g \in BOOLEAN,
         NEW next \in {"CanITurnItOn", "report"}
  PROVE  /\ [s EXCEPT !.result = g, !.pc = "report"] \in ThreadState
         /\ [s EXCEPT !.pc = next] \in ThreadState
<1>1. next \in {"dead", "test", "report"} \cup Monitors
  BY DEF Monitors
<1>2. QED
  BY <1>1 DEF ThreadState

LEMMA ErrorUpdate ==
  ASSUME NEW s \in ThreadState, NEW e \in MonitorErrors,
         NEW next \in {"CanITurnItOn", "report"}
  PROVE  [s EXCEPT !.error = e, !.pc = next] \in ThreadState
<1>1. next \in {"dead", "test", "report"} \cup Monitors
  BY DEF Monitors
<1>2. QED
  BY <1>1 DEF ThreadState

LEMMA InitTypeInv == Init => TypeInv
<1> SUFFICES ASSUME Init PROVE TypeInv
  OBVIOUS
<1>1. thread \in [Threads -> ThreadState]
  BY DeadIsThreadState DEF Init, ProcessDown
<1>2. mainQueue \in Seq(BOOLEAN)
  BY DEF Init, ProcessDown
<1>3. up \in [Monitors -> BOOLEAN]
  BY DEF Init
<1>4. LifeCycle
  BY DEF Init, ProcessDown, LifeCycle
<1>5. QED
  BY <1>1, <1>2, <1>3, <1>4 DEF Init, ProcessDown, TypeInv, GridMonitorTypeOK, ThreadState

-----------------------------------------------------------------------------
(* A step of a monitor thread changes that thread and appends at most a      *)
(* Boolean to the main queue.                                                *)
LEMMA MonitorThreadTypes ==
  ASSUME TypeInv, NEW t \in Threads, MonitorThread(t)
  PROVE  /\ thread' \in [Threads -> ThreadState]
         /\ mainQueue' \in Seq(BOOLEAN)
         /\ Executing
         /\ UNCHANGED <<grid, up, monitorRunning, app, view, panel, unloaded>>
<1> USE DEF TypeInv, GridMonitorTypeOK, ThreadState, Monitors
<1>1. CASE TestRunning(t)
  BY <1>1, DeadIsThreadState DEF TestRunning
<1>2. ASSUME NEW m \in Monitors, NEW next \in {"CanITurnItOn", "report"},
             EnumerateMonitor(t, m, next)
      PROVE  /\ thread' \in [Threads -> ThreadState]
             /\ mainQueue' \in Seq(BOOLEAN)
             /\ Executing
             /\ UNCHANGED <<grid, up, monitorRunning, app, view, panel, unloaded>>
  <2>1. thread[t] \in ThreadState /\ grid \in BOOLEAN
    OBVIOUS
  <2> HIDE DEF TypeInv, GridMonitorTypeOK, ThreadState, Monitors
  <2>2. PICK r \in ThreadState : thread' = [thread EXCEPT ![t] = r]
    <3>1. CASE up[m] /\ thread[t].error = NoError
      BY <1>2, <2>1, <3>1, AnswerUpdate DEF EnumerateMonitor
    <3>2. CASE up[m] /\ thread[t].error # NoError
      BY <1>2, <2>1, <3>2, AnswerUpdate DEF EnumerateMonitor
    <3>3. CASE ~up[m]
      BY <1>2, <2>1, <3>3, ErrorUpdate DEF EnumerateMonitor
    <3>4. QED
      BY <3>1, <3>2, <3>3
  <2>3. thread \in [Threads -> ThreadState] /\ mainQueue \in Seq(BOOLEAN)
    BY DEF TypeInv, GridMonitorTypeOK, ThreadState
  <2>4. QED
    BY <1>2, <2>2, <2>3, ThreadUpdate DEF EnumerateMonitor
<1>3. CASE ReportUnknown(t)
  BY <1>3 DEF ReportUnknown
<1>4. CASE ReportState(t)
  BY <1>4 DEF ReportState
<1>5. QED
  BY <1>1, <1>2, <1>3, <1>4 DEF MonitorThread

(* Starting or resuming adds at most one thread, on its first run.           *)
LEMMA ResumeTypes ==
  ASSUME TypeInv, resumeMonitoring
  PROVE  thread' \in [Threads -> ThreadState] /\ monitorRunning' \in BOOLEAN
<1>1. thread \in [Threads -> ThreadState] /\ monitorRunning \in BOOLEAN
  BY DEF TypeInv, GridMonitorTypeOK, ThreadState
<1>2. QED
  BY <1>1, DeadIsThreadState DEF resumeMonitoring

LEMMA NextTypeInv == TypeInv /\ [Next]_vars => TypeInv'
<1> SUFFICES ASSUME TypeInv, [Next]_vars PROVE TypeInv'
  OBVIOUS
<1> USE DEF TypeInv, GridMonitorTypeOK, LifeCycle
<1>1. ASSUME NEW t \in Threads, MonitorThread(t) PROVE TypeInv'
  BY <1>1, MonitorThreadTypes DEF ThreadState, Executing
<1>2. CASE DeliverCallback
  <2>1. mainQueue' \in Seq(BOOLEAN) /\ Head(mainQueue) \in BOOLEAN
    BY <1>2 DEF DeliverCallback
  <2>2. QED
    BY <1>2, <2>1 DEF DeliverCallback, Executing, Face
<1>3. CASE didFinishLaunching
  BY <1>3, ResumeTypes DEF didFinishLaunching, viewDidLoad, ThreadState
<1>4. CASE applicationWillResignActive
  BY <1>4 DEF applicationWillResignActive, pauseMonitoring
<1>5. CASE BecomeActive \/ EnterBackground \/ Suspend
  BY <1>5 DEF BecomeActive, EnterBackground, Suspend
<1>6. CASE applicationWillEnterForeground
  BY <1>6, ResumeTypes DEF applicationWillEnterForeground, ThreadState
<1>7. CASE applicationWillTerminate
  <2>1. thread' \in [Threads -> ThreadState]
    BY <1>7, DeadIsThreadState DEF applicationWillTerminate
  <2>2. mainQueue' \in Seq(BOOLEAN)
    BY <1>7 DEF applicationWillTerminate
  <2>3. LifeCycle'
    BY <1>7 DEF applicationWillTerminate
  <2>4. QED
    BY <1>7, <2>1, <2>2, <2>3 DEF applicationWillTerminate, ThreadState
<1>8. CASE showInfo \/ viewDidUnload
  BY <1>8 DEF showInfo, viewDidUnload, Executing
<1>9. CASE flipsideViewControllerDidFinish
  BY <1>9, ResumeTypes DEF flipsideViewControllerDidFinish, viewDidLoad, ThreadState
<1>10. CASE World
  BY <1>10 DEF World
<1>11. CASE UNCHANGED vars
  BY <1>11 DEF vars
<1>12. QED
  BY <1>1, <1>2, <1>3, <1>4, <1>5, <1>6, <1>7, <1>8, <1>9, <1>10, <1>11 DEF Next, UIKitStep

THEOREM TypeCorrect == Spec => []TypeInv
  BY InitTypeInv, NextTypeInv, PTL DEF Spec

(* The types of the monitor threads, the main queue and the view, as the     *)
(* safety run checks them.                                                   *)
THEOREM TypesOfMonitor == Spec => []GridMonitorTypeOK
  BY TypeCorrect, PTL DEF TypeInv

-----------------------------------------------------------------------------
(* A monitoring that has a single thread past its first run: that thread     *)
(* holds, in previousState, what the panel says or is about to say.          *)
Owner(t) == monitorRunning /\ Alive = {t} /\ ~thread[t].firstRun /\ ~unloaded

(* A step that leaves the flags alone, keeps what the panel will say, and    *)
(* neither revives or ends a thread nor changes what one remembers, keeps    *)
(* the property.                                                             *)
LEMMA QuietStep ==
  ASSUME SoleMonitorOwnsPanel, TypeInv,
         monitorRunning' => monitorRunning, unloaded' = FALSE => unloaded = FALSE,
         LastWord' = LastWord,
         Alive' = Alive,
         \A t \in Threads : thread'[t].firstRun = thread[t].firstRun
                         /\ thread'[t].previousState = thread[t].previousState
  PROVE  SoleMonitorOwnsPanel'
<1> SUFFICES ASSUME NEW t \in Threads, Owner(t)' PROVE (LastWord = Face(thread[t].previousState))'
  BY DEF SoleMonitorOwnsPanel, Owner
<1>1. Owner(t)
  BY DEF Owner, TypeInv, GridMonitorTypeOK
<1>2. LastWord = Face(thread[t].previousState)
  BY <1>1 DEF SoleMonitorOwnsPanel, Owner
<1>3. Face(thread[t].previousState)' = Face(thread[t].previousState)
  BY DEF Face
<1>4. QED
  BY <1>2, <1>3

(* Starting the monitoring leaves no owner: the only thread that may be      *)
(* alone is the new one, still on its first run.                             *)
LEMMA StartedHasNoOwner ==
  ASSUME TypeInv, ~monitorRunning, resumeMonitoring, NEW t \in Threads
  PROVE  ~(Alive' = {t} /\ ~thread'[t].firstRun)
<1>1. PICK u \in Threads \ Alive :
        thread' = [thread EXCEPT ![u] = [Dead EXCEPT !.pc = "test"]]
  BY DEF resumeMonitoring
<1>2. thread'[u].pc = "test" /\ thread'[u].firstRun
  BY <1>1 DEF TypeInv, GridMonitorTypeOK, Dead
<1>3. u \in Alive'
  BY <1>2 DEF Alive
<1>4. QED
  BY <1>2, <1>3

(* A dispatched callback is the last word of the panel.                      *)
LEMMA AppendedIsLastWord ==
  ASSUME TypeInv, NEW b \in BOOLEAN, mainQueue' = Append(mainQueue, b)
  PROVE  LastWord' = Face(b)
<1>1. mainQueue' # <<>> /\ mainQueue'[Len(mainQueue')] = b
  BY DEF TypeInv, GridMonitorTypeOK
<1>2. QED
  BY <1>1 DEF LastWord, Face

(* Delivering a callback to a loaded view does not change the last word.     *)
LEMMA DeliveryKeepsLastWord ==
  ASSUME TypeInv, DeliverCallback, view # "unloaded"
  PROVE  LastWord' = LastWord
<1>1. mainQueue \in Seq(BOOLEAN) /\ mainQueue # <<>>
  BY DEF TypeInv, GridMonitorTypeOK, DeliverCallback
<1>2. mainQueue' = Tail(mainQueue) /\ panel' = Face(mainQueue[1])
  BY <1>1 DEF DeliverCallback
<1>3. CASE Len(mainQueue) = 1
  <2>1. mainQueue' = <<>>
    BY <1>1, <1>2, <1>3
  <2>2. QED
    BY <1>1, <1>2, <1>3, <2>1 DEF LastWord
<1>4. CASE Len(mainQueue) > 1
  <2>1. Len(mainQueue') = Len(mainQueue) - 1
    BY <1>1, <1>2
  <2>2. \A i \in 1..Len(mainQueue') : mainQueue'[i] = mainQueue[i + 1]
    BY <1>1, <1>2
  <2>3. mainQueue' # <<>> /\ mainQueue'[Len(mainQueue')] = mainQueue[Len(mainQueue)]
    BY <1>1, <1>2, <1>4, <2>1, <2>2
  <2>4. QED
    BY <1>1, <2>3 DEF LastWord, Face
<1>5. Len(mainQueue) \in Nat /\ Len(mainQueue) # 0
  BY <1>1
<1>6. Len(mainQueue) = 1 \/ Len(mainQueue) > 1
  <2>1. \A n \in Nat : n # 0 => n = 1 \/ n > 1
    OBVIOUS
  <2>2. QED
    BY <1>5, <2>1
<1>7. QED
  BY <1>3, <1>4, <1>6

-----------------------------------------------------------------------------
LEMMA NextOwner ==
  TypeInv /\ SoleMonitorOwnsPanel /\ [Next]_vars => SoleMonitorOwnsPanel'
<1> SUFFICES ASSUME TypeInv, SoleMonitorOwnsPanel, [Next]_vars
             PROVE  SoleMonitorOwnsPanel'
  OBVIOUS
<1>0. thread \in [Threads -> ThreadState] /\ monitorRunning \in BOOLEAN /\ unloaded \in BOOLEAN
  BY DEF TypeInv, GridMonitorTypeOK, ThreadState
<1>1. ASSUME NEW t \in Threads, MonitorThread(t) PROVE SoleMonitorOwnsPanel'
  <2> USE <1>0 DEF ThreadState, Monitors
  <2>1. CASE TestRunning(t)
    <3>1. CASE monitorRunning
      <4>1. Alive' = Alive
        BY <2>1, <3>1 DEF TestRunning, Alive
      <4>2. LastWord' = LastWord
        BY <2>1 DEF TestRunning, LastWord, Face
      <4>3. QED
        BY <2>1, <3>1, <4>1, <4>2, QuietStep DEF TestRunning
    <3>2. CASE ~monitorRunning
      BY <2>1, <3>2 DEF TestRunning, SoleMonitorOwnsPanel
    <3>3. QED
      BY <3>1, <3>2
  <2>2. ASSUME NEW m \in Monitors, NEW next \in {"CanITurnItOn", "report"},
               EnumerateMonitor(t, m, next)
        PROVE  SoleMonitorOwnsPanel'
    <3>0. /\ t \in Alive
          /\ \A u \in Threads \ {t} : thread'[u] = thread[u]
          /\ thread'[t].pc # "dead"
          /\ thread'[t].firstRun = thread[t].firstRun
          /\ thread'[t].previousState = thread[t].previousState
      <4>1. m # "dead" /\ next # "dead"
        OBVIOUS
      <4>2. thread[t] \in ThreadState /\ t \in Alive
        BY <2>2, <4>1 DEF EnumerateMonitor, Alive
      <4>3. PICK r : /\ thread' = [thread EXCEPT ![t] = r]
                     /\ r.pc # "dead" /\ r.firstRun = thread[t].firstRun
                     /\ r.previousState = thread[t].previousState
        <5> DEFINE Changed(r) == /\ thread' = [thread EXCEPT ![t] = r]
                                 /\ r.pc # "dead" /\ r.firstRun = thread[t].firstRun
                                 /\ r.previousState = thread[t].previousState
        <5>1. CASE up[m] /\ thread[t].error = NoError
          <6>1. Changed([thread[t] EXCEPT !.result = grid, !.pc = "report"])
            BY <2>2, <4>2, <5>1 DEF EnumerateMonitor
          <6>2. QED
            BY <6>1
        <5>2. CASE up[m] /\ thread[t].error # NoError
          <6>1. Changed([thread[t] EXCEPT !.pc = next])
            BY <2>2, <4>1, <4>2, <5>2 DEF EnumerateMonitor
          <6>2. QED
            BY <6>1
        <5>3. CASE ~up[m]
          <6>1. PICK e \in MonitorErrors :
                  Changed([thread[t] EXCEPT !.error = e, !.pc = next])
            BY <2>2, <4>1, <4>2, <5>3 DEF EnumerateMonitor
          <6>2. QED
            BY <6>1
        <5>4. QED
          BY <5>1, <5>2, <5>3
      <4>4. QED
        BY <4>2, <4>3
    <3>1. Alive' = Alive
      BY <3>0 DEF Alive
    <3>2. LastWord' = LastWord
      BY <2>2 DEF EnumerateMonitor, LastWord, Face
    <3>3. \A u \in Threads : thread'[u].firstRun = thread[u].firstRun
                          /\ thread'[u].previousState = thread[u].previousState
      BY <3>0
    <3>4. QED
      BY <2>2, <3>1, <3>2, <3>3, QuietStep DEF EnumerateMonitor
  <2>3. CASE ReportUnknown(t)
    <3>1. Alive' = Alive
      BY <2>3 DEF ReportUnknown, Alive
    <3>2. LastWord' = LastWord
      BY <2>3 DEF ReportUnknown, LastWord, Face
    <3>3. QED
      BY <2>3, <3>1, <3>2, QuietStep DEF ReportUnknown
  <2>4. CASE ReportState(t)
    <3>1. Alive' = Alive /\ t \in Alive
      BY <2>4 DEF ReportState, Alive
    <3>2. CASE thread[t].firstRun \/ thread[t].previousState # thread[t].result
      <4>1. mainQueue' = Append(mainQueue, thread[t].result)
            /\ thread'[t].previousState = thread[t].result
        BY <2>4, <3>2 DEF ReportState
      <4>2. LastWord' = Face(thread[t].result)
        BY <4>1, AppendedIsLastWord
      <4>3. (LastWord = Face(thread[t].previousState))'
        BY <4>1, <4>2 DEF Face
      <4>4. QED
        BY <3>1, <4>3 DEF SoleMonitorOwnsPanel
    <3>3. CASE ~thread[t].firstRun /\ thread[t].previousState = thread[t].result
      <4>1. LastWord' = LastWord
        BY <2>4, <3>3 DEF ReportState, LastWord, Face
      <4>2. QED
        <5>1. thread' = [thread EXCEPT ![t].pc = "test", ![t].result = FALSE]
          BY <2>4, <3>3 DEF ReportState
        <5>2. UNCHANGED <<monitorRunning, unloaded>>
          BY <2>4 DEF ReportState
        <5>3. QED
          BY <5>1, <5>2, <3>1, <4>1, QuietStep
    <3>4. QED
      BY <3>2, <3>3
  <2>5. QED
    BY <1>1, <2>1, <2>2, <2>3, <2>4 DEF MonitorThread
<1>2. CASE DeliverCallback
  <2>1. CASE view = "unloaded"
    BY <1>2, <2>1 DEF DeliverCallback, SoleMonitorOwnsPanel, TypeInv, LifeCycle
  <2>2. CASE view # "unloaded"
    BY <1>2, <2>2, DeliveryKeepsLastWord, QuietStep DEF DeliverCallback, Alive
  <2>3. QED
    BY <2>1, <2>2
<1>3. CASE didFinishLaunching
  <2>1. ~monitorRunning /\ resumeMonitoring
    BY <1>3 DEF didFinishLaunching, viewDidLoad, TypeInv, LifeCycle
  <2>2. QED
    BY <2>1, StartedHasNoOwner DEF SoleMonitorOwnsPanel
<1>4. CASE applicationWillResignActive
  BY <1>4 DEF applicationWillResignActive, pauseMonitoring, SoleMonitorOwnsPanel
<1>5. CASE BecomeActive \/ EnterBackground \/ Suspend \/ showInfo \/ World \/ UNCHANGED vars
  <2>1. UNCHANGED <<monitorRunning, thread, mainQueue, panel, unloaded>>
    BY <1>5 DEF BecomeActive, EnterBackground, Suspend, showInfo, World, vars
  <2>2. Alive' = Alive /\ LastWord' = LastWord
    BY <2>1 DEF Alive, LastWord, Face
  <2>3. QED
    BY <2>1, <2>2, QuietStep
<1>6. CASE applicationWillEnterForeground
  <2>1. CASE ~monitorRunning
    BY <1>6, <2>1, StartedHasNoOwner DEF applicationWillEnterForeground, SoleMonitorOwnsPanel
  <2>2. CASE monitorRunning
    <3>1. UNCHANGED <<monitorRunning, thread, mainQueue, panel, unloaded>>
      BY <1>6, <2>2 DEF applicationWillEnterForeground, resumeMonitoring
    <3>2. Alive' = Alive /\ LastWord' = LastWord
      BY <3>1 DEF Alive, LastWord, Face
    <3>3. QED
      BY <3>1, <3>2, QuietStep
  <2>3. QED
    BY <2>1, <2>2
<1>7. CASE applicationWillTerminate
  BY <1>7 DEF applicationWillTerminate, SoleMonitorOwnsPanel
<1>8. CASE viewDidUnload
  BY <1>8 DEF viewDidUnload, SoleMonitorOwnsPanel
<1>9. CASE flipsideViewControllerDidFinish
  <2>1. CASE view = "covered"
    <3>1. UNCHANGED <<monitorRunning, thread, mainQueue, panel, unloaded>>
      BY <1>9, <2>1 DEF flipsideViewControllerDidFinish
    <3>2. Alive' = Alive /\ LastWord' = LastWord
      BY <3>1 DEF Alive, LastWord, Face
    <3>3. QED
      BY <3>1, <3>2, QuietStep
  <2>2. CASE view = "unloaded"
    BY <1>9, <2>2 DEF flipsideViewControllerDidFinish, SoleMonitorOwnsPanel, TypeInv, LifeCycle
  <2>3. QED
    BY <1>9, <2>1, <2>2 DEF flipsideViewControllerDidFinish
<1>10. QED
  BY <1>1, <1>2, <1>3, <1>4, <1>5, <1>6, <1>7, <1>8, <1>9 DEF Next, UIKitStep

(* A monitor thread that is alone knows what the panel says, whatever        *)
(* threads the pauses and restarts before it left behind: its silence on an  *)
(* unchanged reading never leaves a stale panel.                             *)
THEOREM SoleOwner == Spec => []SoleMonitorOwnsPanel
<1>1. Init => SoleMonitorOwnsPanel
  BY DEF Init, ProcessDown, SoleMonitorOwnsPanel
<1>2. QED
  BY <1>1, NextOwner, TypeCorrect, PTL DEF Spec
==============================================================================
