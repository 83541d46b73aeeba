----------------------------- MODULE GridMonitor -----------------------------
(***************************************************************************)
(* The monitoring half of the kettle app: GridMonitor.m and the two        *)
(* monitors it asks (ChrisMonitor.m, CanITurnItOn.m), the callback that    *)
(* MainViewController.m installs, and the UIKit life cycle calls of        *)
(* AppDelegate.m that pause and resume the monitoring.                     *)
(*                                                                         *)
(* Actors: the monitor threads (performSelectorInBackground:), the main    *)
(* thread with its FIFO dispatch queue, UIKit, and the two web services.   *)
(* The alert of a failed check touches no state of this module: it is      *)
(* modelled in AppAlerts, which lets every thread raise it at any moment.  *)
(***************************************************************************)
EXTENDS Naturals, Sequences, FiniteSets

CONSTANTS Threads,       \* monitor thread slots; bound on threads alive at once
          MonitorErrors, \* identifiers of the TeaErrors a monitor can set
          NoError,       \* nil
          IsPhone,       \* the info page covers the whole screen (not an iPad)
          MaxQueue       \* bound on the main dispatch queue

ASSUME GridMonitorAssumption ==
  /\ NoError \notin MonitorErrors
  /\ IsPhone \in BOOLEAN
  /\ MaxQueue \in Nat \ {0}

VARIABLES grid,           \* the frequency is at least 50 Hz
          up,             \* up[m]: monitor service m answers with JSON
          monitorRunning, \* the BOOL of GridMonitor that every thread polls
          thread,         \* the locals of each activation of startMonitor
          mainQueue,      \* blocks dispatched to the main queue: _callback(state)
          app,            \* UIKit's application state
          view,           \* the main view: shown, covered by the info page, unloaded
          panel,          \* what the panel says: "happy" is "Pop the kettle on"
          unloaded        \* history: the view was unloaded since the launch

vars == <<grid, up, monitorRunning, thread, mainQueue, app, view, panel, unloaded>>

Monitors == {"ChrisMonitor", "CanITurnItOn"}

Dead == [pc |-> "dead", firstRun |-> TRUE, previousState |-> TRUE, error |-> NoError,
         result |-> FALSE]

GridMonitorTypeOK ==
  /\ grid \in BOOLEAN
  /\ up \in [Monitors -> BOOLEAN]
  /\ monitorRunning \in BOOLEAN
  /\ thread \in [Threads -> [pc : {"dead", "test", "report"} \cup Monitors,
                             firstRun : BOOLEAN, previousState : BOOLEAN,
                             error : MonitorErrors \cup {NoError},
                             result : BOOLEAN]]
  /\ mainQueue \in Seq(BOOLEAN)
  /\ app \in {"notRunning", "active", "inactive", "background", "suspended"}
  /\ view \in {"none", "shown", "covered", "unloaded"}
  /\ panel \in {"unknown", "happy", "sad"}
  /\ unloaded \in BOOLEAN

(* Mutation: the callback leaves the panel without a message when it is bad.  *)
Face_NoSad(gridIsOK) == IF gridIsOK THEN "happy" ELSE "none"

Face(gridIsOK) == IF gridIsOK THEN "happy" ELSE "sad"

ProcessDown ==
  /\ monitorRunning = FALSE
  /\ thread = [t \in Threads |-> Dead]
  /\ mainQueue = <<>>
  /\ app = "notRunning"
  /\ view = "none"
  /\ panel = "unknown"
  /\ unloaded = FALSE

Init ==
  /\ ProcessDown
  /\ grid \in BOOLEAN
  /\ up = [m \in Monitors |-> TRUE]

Alive == {t \in Threads : thread[t].pc # "dead"}
Executing == app \notin {"notRunning", "suspended"}

-----------------------------------------------------------------------------
(* The monitor threads *)

(* Mutation: the loop no longer looks at monitorRunning.                     *)
TestRunning_Ignored(t) ==
  /\ Executing /\ thread[t].pc = "test"
  /\ thread' = [thread EXCEPT ![t] = [@ EXCEPT !.pc = "ChrisMonitor", !.error = NoError]]
  /\ UNCHANGED <<grid, up, monitorRunning, mainQueue, app, view, panel, unloaded>>

(* while (monitorRunning): checkMonitors starts with error = nil. *)
TestRunning(t) ==
  /\ Executing /\ thread[t].pc = "test"
  /\ thread' = [thread EXCEPT ![t] =
       IF monitorRunning
       THEN [@ EXCEPT !.pc = "ChrisMonitor", !.error = NoError, !.result = FALSE]
       ELSE Dead]
  /\ UNCHANGED <<grid, up, monitorRunning, mainQueue, app, view, panel,
                 unloaded>>

(* The block of enumerateObjectsUsingBlock: for monitor m.  gridStatus: sets *)
(* *error when the service fails and leaves it alone when it answers; the    *)
(* answer is kept, and the enumeration stopped, only if error is nil.        *)
EnumerateMonitor(t, m, next) ==
  /\ Executing /\ thread[t].pc = m
  /\ \/ /\ up[m] /\ thread[t].error = NoError
        /\ thread' = [thread EXCEPT ![t] = [@ EXCEPT !.result = grid, !.pc = "report"]]
     \/ /\ up[m] /\ thread[t].error # NoError
        /\ thread' = [thread EXCEPT ![t] = [@ EXCEPT !.pc = next]]
     \/ /\ ~up[m]
        /\ \E e \in MonitorErrors :
             thread' = [thread EXCEPT ![t] = [@ EXCEPT !.error = e, !.pc = next]]
  /\ UNCHANGED <<grid, up, monitorRunning, mainQueue, app, view, panel,
                 unloaded>>

(* checkMonitors returns DoNotKnow after showing the error, and the state is *)
(* left alone.  The locals of checkMonitors go when it returns.              *)
ReportUnknown(t) ==
  /\ Executing /\ thread[t].pc = "report" /\ thread[t].error # NoError
  /\ thread' = [thread EXCEPT ![t].pc = "test", ![t].error = NoError]
  /\ UNCHANGED <<grid, up, monitorRunning, mainQueue, app, view, panel,
                 unloaded>>

(* Mutation: previousState is not assigned after the dispatch.               *)
ReportState_Forgets(t) ==
  /\ Executing /\ thread[t].pc = "report" /\ thread[t].error = NoError
  /\ Len(mainQueue) < MaxQueue
  /\ mainQueue' = Append(mainQueue, thread[t].result)
  /\ thread' = [thread EXCEPT ![t].firstRun = FALSE, ![t].result = FALSE, ![t].pc = "test"]
  /\ UNCHANGED <<grid, up, monitorRunning, app, view, panel, unloaded>>

(* Mutation: the callback is dispatched on the first run only.               *)
ReportState_FirstOnly(t) ==
  /\ Executing /\ thread[t].pc = "report" /\ thread[t].error = NoError
  /\ Len(mainQueue) < MaxQueue
  /\ mainQueue' = IF thread[t].firstRun THEN Append(mainQueue, thread[t].result)
                                        ELSE mainQueue
  /\ thread' = [thread EXCEPT ![t].firstRun = FALSE, ![t].result = FALSE, ![t].pc = "test"]
  /\ UNCHANGED <<grid, up, monitorRunning, app, view, panel, unloaded>>

(* checkMonitors returns GridGood or GridBad: the callback is dispatched on  *)
(* the first good run of this thread and when its state changed.             *)
ReportState(t) ==
  /\ Executing /\ thread[t].pc = "report" /\ thread[t].error = NoError
  /\ LET current == thread[t].result
     IN  \/ /\ thread[t].firstRun \/ thread[t].previousState # current
            /\ Len(mainQueue) < MaxQueue
            /\ mainQueue' = Append(mainQueue, current)
            /\ thread' = [thread EXCEPT ![t].firstRun = FALSE, ![t].result = FALSE,
                                        ![t].previousState = current, ![t].pc = "test"]
         \/ /\ ~thread[t].firstRun /\ thread[t].previousState = current
            /\ thread' = [thread EXCEPT ![t].pc = "test", ![t].result = FALSE]
            /\ UNCHANGED mainQueue
  /\ UNCHANGED <<grid, up, monitorRunning, app, view, panel, unloaded>>

MonitorThread(t) ==
  \/ TestRunning(t)
  \/ EnumerateMonitor(t, "ChrisMonitor", "CanITurnItOn")
  \/ EnumerateMonitor(t, "CanITurnItOn", "report")
  \/ ReportUnknown(t)
  \/ ReportState(t)

-----------------------------------------------------------------------------
(* GridMonitor's operations, called on the main thread *)

pauseMonitoring == monitorRunning' = FALSE /\ UNCHANGED thread

resumeMonitoring ==
  \/ /\ ~monitorRunning
     /\ monitorRunning' = TRUE
     /\ \E t \in Threads \ Alive :
          thread' = [thread EXCEPT ![t] = [Dead EXCEPT !.pc = "test"]]
  \/ /\ monitorRunning        \* only logs "tried starting the monitor again"
     /\ UNCHANGED <<monitorRunning, thread>>

(* MainViewController viewDidLoad: startWithCallback:, then the panel loads  *)
(* with "Checking if this is a good time for tea!".                          *)
viewDidLoad ==
  /\ resumeMonitoring
  /\ panel' = "unknown"
  /\ view' = "shown"

(* _callback(currentGridState) on the main queue; with the outlets nil after *)
(* viewDidUnload its messages go nowhere.                                    *)
DeliverCallback ==
  /\ Executing /\ mainQueue # <<>>
  /\ mainQueue' = Tail(mainQueue)
  /\ panel' = IF view = "unloaded" THEN panel ELSE Face(Head(mainQueue))
  /\ UNCHANGED <<grid, up, monitorRunning, thread, app, view, unloaded>>

-----------------------------------------------------------------------------
(* UIKit: the life cycle of the application and of the main view *)

didFinishLaunching ==
  /\ app = "notRunning"
  /\ viewDidLoad
  /\ app' = "active"
  /\ UNCHANGED <<grid, up, mainQueue, unloaded>>

applicationWillResignActive ==
  /\ Executing /\ app = "active"
  /\ app' = "inactive"
  /\ pauseMonitoring
  /\ UNCHANGED <<grid, up, mainQueue, view, panel, unloaded>>

(* The delegate does not implement applicationDidBecomeActive:.              *)
BecomeActive ==
  /\ Executing /\ app = "inactive"
  /\ app' = "active"
  /\ UNCHANGED <<grid, up, monitorRunning, thread, mainQueue, view, panel,
                 unloaded>>

EnterBackground ==
  /\ Executing /\ app = "inactive"
  /\ app' = "background"
  /\ UNCHANGED <<grid, up, monitorRunning, thread, mainQueue, view, panel,
                 unloaded>>

Suspend ==
  /\ app = "background"
  /\ app' = "suspended"
  /\ UNCHANGED <<grid, up, monitorRunning, thread, mainQueue, view, panel,
                 unloaded>>

applicationWillEnterForeground ==
  /\ app \in {"background", "suspended"}
  /\ app' = "inactive"
  /\ resumeMonitoring
  /\ UNCHANGED <<grid, up, mainQueue, view, panel, unloaded>>

(* The process ends: every thread, the queue and the singleton go with it.   *)
applicationWillTerminate ==
  /\ app \in {"inactive", "background", "suspended"}
  /\ monitorRunning' = FALSE
  /\ thread' = [t \in Threads |-> Dead]
  /\ mainQueue' = <<>>
  /\ app' = "notRunning"
  /\ view' = "none"
  /\ panel' = "unknown"
  /\ unloaded' = FALSE
  /\ UNCHANGED <<grid, up>>

showInfo ==
  /\ IsPhone /\ Executing /\ app = "active" /\ view = "shown"
  /\ view' = "covered"
  /\ UNCHANGED <<grid, up, monitorRunning, thread, mainQueue, app, panel,
                 unloaded>>

(* iOS 5 unloads a view that is not on screen when memory runs low.          *)
viewDidUnload ==
  /\ Executing /\ view = "covered"
  /\ view' = "unloaded"
  /\ unloaded' = TRUE
  /\ UNCHANGED <<grid, up, monitorRunning, thread, mainQueue, app, panel>>

flipsideViewControllerDidFinish ==
  /\ Executing /\ app = "active"
  /\ \/ /\ view = "covered"
        /\ view' = "shown"
        /\ UNCHANGED <<monitorRunning, thread, panel>>
     \/ /\ view = "unloaded"
        /\ viewDidLoad
  /\ UNCHANGED <<grid, up, mainQueue, app, unloaded>>

UIKitStep ==
  \/ didFinishLaunching
  \/ applicationWillResignActive
  \/ BecomeActive
  \/ EnterBackground
  \/ Suspend
  \/ applicationWillEnterForeground
  \/ applicationWillTerminate
  \/ showInfo
  \/ viewDidUnload
  \/ flipsideViewControllerDidFinish

(* The outside world: the grid changes, a web service comes and goes. *)
World ==
  /\ \/ grid' = ~grid /\ UNCHANGED up
     \/ \E m \in Monitors : up' = [up EXCEPT ![m] = ~@] /\ UNCHANGED grid
  /\ UNCHANGED <<monitorRunning, thread, mainQueue, app, view, panel,
                 unloaded>>

Next ==
  \/ \E t \in Threads : MonitorThread(t)
  \/ DeliverCallback
  \/ UIKitStep
  \/ World

(* iOS schedules every runnable thread and drains the main queue; nothing is *)
(* assumed of UIKit, of the user or of the services.                         *)
Fairness ==
  /\ \A t \in Threads : WF_vars(MonitorThread(t))
  /\ WF_vars(DeliverCallback)

Spec == Init /\ [][Next]_vars /\ Fairness

-----------------------------------------------------------------------------
(* Properties *)

(* What the panel will say once the main queue is drained.                   *)
LastWord == IF mainQueue = <<>> THEN panel ELSE Face(mainQueue[Len(mainQueue)])

(* While monitoring runs and a single thread is alive (the normal case), the *)
(* state that thread compares against, previousState, is what the user sees  *)
(* or is about to see: the thread may then keep silent on an equal reading.  *)
(* Threads that outlived a pause must not break this.                        *)
SoleMonitorOwnsPanel == \A t \in Threads :
  (monitorRunning /\ Alive = {t} /\ ~thread[t].firstRun /\ ~unloaded)
     => LastWord = Face(thread[t].previousState)

(* pauseMonitoring ends every thread: with the monitoring paused for good,   *)
(* the threads all leave their loop, however many there are.                 *)
PausedMonitorsStop ==
  <>[](~monitorRunning /\ Executing) => <>[](Alive = {})

(* While the app runs and monitors, and neither the grid nor the first       *)
(* service changes any more, the panel settles on the state of the grid,     *)
(* whatever number of threads earlier pauses left behind.                    *)
PanelConverges == \A g \in BOOLEAN :
  <>[](grid = g /\ up["ChrisMonitor"] /\ app = "active" /\ monitorRunning /\ ~unloaded)
     => <>[](panel = Face(g))

(* copy.md:25 "Visualise the status of the grid in realtime": an app that    *)
(* stays in the foreground comes to monitor the grid.                        *)
ActiveAppMonitors == <>[](app = "active") => <>[]monitorRunning

(* GridMonitor.m:92 "We have no idea...": a check that the second monitor    *)
(* answered does not end as unknown.                                         *)
AnsweredIsKnown == [][\A t \in Threads :
  (thread[t].pc = "CanITurnItOn" /\ up["CanITurnItOn"] /\ thread'[t].pc = "report")
     => thread'[t].error = NoError]_vars
==============================================================================
