------------------------------ MODULE AppAlerts ------------------------------
(***************************************************************************)
(* The alerts of the kettle app: kettle/kettle/Utilities.m and its callers.*)
(* showAlert:message:msgIdentity: is called from the monitor threads (a    *)
(* failed check, GridMonitor.m) and from the main thread (the location     *)
(* warnings of MainViewController.m, a failed request of AppDelegate.m),   *)
(* with no lock: the lazily created singleton (getInstance) and its        *)
(* dictionary of identities already shown (shouldShowAlertForId:) are read *)
(* and written step by step.                                               *)
(*                                                                         *)
(* An instance of Utilities is named by the caller that allocated it: once *)
(* the global is set no caller finds it nil again, so a caller allocates   *)
(* at most one.  The dictionary is a set of identities; what a concurrent  *)
(* mutation does to the memory of an NSMutableDictionary is not modelled,  *)
(* its reads and writes are each one step.                                 *)
(***************************************************************************)
EXTENDS Naturals

CONSTANTS Threads,       \* the monitor threads
          MainThread,    \* the thread of the main dispatch queue
          MonitorErrors, \* identifiers of the TeaErrors a monitor can set
          GeoWarnings,   \* identities of the location warnings
          NoId,          \* nil
          NoInstance     \* nil, the initial value of the global `utility`

Callers == Threads \cup {MainThread}
Ids == MonitorErrors \cup GeoWarnings

ASSUME AppAlertsAssumption ==
  /\ NoId \notin Ids
  /\ NoInstance \notin Callers
  /\ MainThread \notin Threads

VARIABLES utility,  \* the static Utilities *utility
          msgIds,   \* msgIds[u]: the dictionary of the instance u allocated
          call,     \* call[c]: the activation of showAlert in c
          alerts,   \* alerts[id]: alerts presented so far, counted to 2
          locating  \* the CLLocationManager still delivers updates

vars == <<utility, msgIds, call, alerts, locating>>

MaxCount == 2       \* bound: "more than once" is all the properties ask

Steps == {"idle", "getInstance", "alloc", "return", "lookup", "store", "present"}

NoCall == [pc |-> "idle", id |-> NoId, inst |-> NoInstance]

TypeOK ==
  /\ utility \in Callers \cup {NoInstance}
  /\ msgIds \in [Callers -> SUBSET Ids]
  /\ call \in [Callers -> [pc : Steps, id : Ids \cup {NoId},
                           inst : Callers \cup {NoInstance}]]
  /\ alerts \in [Ids -> 0..MaxCount]
  /\ locating \in BOOLEAN

Init ==
  /\ utility = NoInstance
  /\ msgIds = [c \in Callers |-> {}]
  /\ call = [c \in Callers |-> NoCall]
  /\ alerts = [id \in Ids |-> 0]
  /\ locating = TRUE

At(c, step) == call[c].pc = step
GoTo(c, step) == call' = [call EXCEPT ![c].pc = step]

-----------------------------------------------------------------------------
(* showAlert:message:msgIdentity: in the thread c *)

ShowAlert(c, id) ==
  /\ At(c, "idle")
  /\ call' = [call EXCEPT ![c] = [pc |-> "getInstance", id |-> id, inst |-> NoInstance]]

(* getInstance: the test `utility == nil`. *)
TestInstance(c) ==
  /\ At(c, "getInstance")
  /\ GoTo(c, IF utility = NoInstance THEN "alloc" ELSE "return")
  /\ UNCHANGED <<utility, msgIds, alerts, locating>>

(* getInstance: the allocation, with an empty dictionary, and the store. *)
AllocInstance(c) ==
  /\ At(c, "alloc")
  /\ utility' = c
  /\ msgIds' = [msgIds EXCEPT ![c] = {}]
  /\ GoTo(c, "return")
  /\ UNCHANGED <<alerts, locating>>

(* getInstance: `return utility` reads the global once more. *)
ReturnInstance(c) ==
  /\ At(c, "return")
  /\ call' = [call EXCEPT ![c].inst = utility, ![c].pc = "lookup"]
  /\ UNCHANGED <<utility, msgIds, alerts, locating>>

(* Mutation: the dictionary is never consulted. *)
LookupId_Always(c) ==
  /\ At(c, "lookup")
  /\ GoTo(c, IF call[c].id = NoId THEN "present" ELSE "store")
  /\ UNCHANGED <<utility, msgIds, alerts, locating>>

(* Mutation: the answer of the dictionary is taken the wrong way round. *)
LookupId_Inverted(c) ==
  /\ At(c, "lookup")
  /\ \/ /\ call[c].id = NoId \/ call[c].id \in msgIds[call[c].inst]
        /\ GoTo(c, "store")
     \/ /\ call[c].id \in Ids \ msgIds[call[c].inst]
        /\ call' = [call EXCEPT ![c] = NoCall]
  /\ UNCHANGED <<utility, msgIds, alerts, locating>>

(* shouldShowAlertForId: nil is always shown, a known identity never. *)
LookupId(c) ==
  /\ At(c, "lookup")
  /\ \/ /\ call[c].id = NoId
        /\ GoTo(c, "present")
     \/ /\ call[c].id \in Ids \ msgIds[call[c].inst]
        /\ GoTo(c, "store")
     \/ /\ call[c].id \in msgIds[call[c].inst]
        /\ call' = [call EXCEPT ![c] = NoCall]
  /\ UNCHANGED <<utility, msgIds, alerts, locating>>

(* Mutation: the method answers NO after storing the identity. *)
StoreId_ThenSilent(c) ==
  /\ At(c, "store")
  /\ msgIds' = [msgIds EXCEPT ![call[c].inst] = @ \cup {call[c].id}]
  /\ call' = [call EXCEPT ![c] = NoCall]
  /\ UNCHANGED <<utility, alerts, locating>>

(* Mutation: nil is stored as if it were an identity. *)
StoreId_Nil(c) ==
  /\ At(c, "store")
  /\ msgIds' = [msgIds EXCEPT ![call[c].inst] = @ \cup {NoId}]
  /\ GoTo(c, "present")
  /\ UNCHANGED <<utility, alerts, locating>>

(* shouldShowAlertForId: setObject:forKey:. *)
StoreId(c) ==
  /\ At(c, "store")
  /\ msgIds' = [msgIds EXCEPT ![call[c].inst] = @ \cup {call[c].id}]
  /\ GoTo(c, "present")
  /\ UNCHANGED <<utility, alerts, locating>>

(* The UIAlertView is handed to the main queue, which shows it. *)
PresentAlert(c) ==
  /\ At(c, "present")
  /\ alerts' = [id \in Ids |->
       IF id = call[c].id /\ alerts[id] < MaxCount THEN alerts[id] + 1 ELSE alerts[id]]
  /\ call' = [call EXCEPT ![c] = NoCall]
  /\ UNCHANGED <<utility, msgIds, locating>>

AlertStep(c) ==
  \/ TestInstance(c)
  \/ AllocInstance(c)
  \/ ReturnInstance(c)
  \/ LookupId(c)
  \/ StoreId(c)
  \/ PresentAlert(c)

-----------------------------------------------------------------------------
(* The callers *)

(* checkMonitors ended with an error: its title, text and identifier. *)
CheckMonitorsFailed(t) ==
  /\ \E e \in MonitorErrors : ShowAlert(t, e)
  /\ UNCHANGED <<utility, msgIds, alerts, locating>>

(* The POST of the device token failed: msgIdentity nil. *)
ConnectionDidFail ==
  /\ ShowAlert(MainThread, NoId)
  /\ UNCHANGED <<utility, msgIds, alerts, locating>>

(* didUpdateToLocation stops the updates; the geocoder's completion warns if *)
(* the place is unknown or outside the United Kingdom.                       *)
DidUpdateToLocation ==
  /\ locating
  /\ At(MainThread, "idle")
  /\ locating' = FALSE
  /\ \/ \E w \in GeoWarnings : ShowAlert(MainThread, w)
     \/ UNCHANGED call
  /\ UNCHANGED <<utility, msgIds, alerts>>

Next ==
  \/ \E t \in Threads : CheckMonitorsFailed(t)
  \/ ConnectionDidFail
  \/ DidUpdateToLocation
  \/ \E c \in Callers : AlertStep(c)

(* A call once entered runs on; nothing makes a caller call. *)
Fairness == \A c \in Callers : WF_vars(AlertStep(c))

Spec == Init /\ [][Next]_vars /\ Fairness

-----------------------------------------------------------------------------
(* Properties *)

(* An identity is remembered only when its alert was shown or is about to    *)
(* be: no interleaving suppresses a warning that nobody has seen.            *)
RememberedIsPresented == \A u \in Callers : \A id \in msgIds[u] :
  \/ alerts[id] > 0
  \/ \E c \in Callers : At(c, "present") /\ call[c].id = id

(* Every warning asked for is seen by the user at least once.                *)
EveryWarningShown == \A id \in Ids :
  (\E c \in Callers : call[c].id = id) ~> (alerts[id] > 0)

(* The singleton has been created and every caller has come to use it.       *)
OneInstance ==
  /\ utility # NoInstance
  /\ \A c \in Callers : ~At(c, "alloc")
  /\ \A c \in Callers : call[c].inst \in {utility, NoInstance}

Settled(id) ==
  /\ OneInstance
  /\ id \in msgIds[utility]
  /\ \A c \in Callers : call[c].id = id => ~At(c, "store") /\ ~At(c, "present")

(* Once a single instance remembers an identity and no call is past its      *)
(* lookup, that alert never comes back: the deduplication of Utilities.h:23  *)
(* works after the start-up race.                                            *)
SettledIsSilent == [][\A id \in Ids :
  Settled(id) => Settled(id)' /\ alerts'[id] = alerts[id]]_vars
==============================================================================
