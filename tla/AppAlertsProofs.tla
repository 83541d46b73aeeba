--------------------------- MODULE AppAlertsProofs ---------------------------
(***************************************************************************)
(* What holds of AppAlerts for every set of threads and of identities.     *)
(***************************************************************************)
EXTENDS AppAlerts, TLAPS

USE AppAlertsAssumption DEF Callers, Ids

(* Every variable of the alert singleton keeps its type; in particular no    *)
(* caller ever looks an identity up in an instance that was not allocated.   *)
InstanceKnown ==
  /\ \A c \in Callers : At(c, "return") => utility # NoInstance
  /\ \A c \in Callers : call[c].pc \in {"lookup", "store"} => call[c].inst # NoInstance
  /\ \A c \in Callers : At(c, "store") => call[c].id # NoId

TypeInv == TypeOK /\ InstanceKnown

LEMMA InitTypeInv == Init => TypeInv
  BY DEF Init, TypeInv, TypeOK, InstanceKnown, At, NoCall, Steps, MaxCount

LEMMA NextTypeInv == TypeInv /\ [Next]_vars => TypeInv'
<1> SUFFICES ASSUME TypeInv, [Next]_vars PROVE TypeInv'
  OBVIOUS
<1> USE DEF TypeInv, TypeOK, InstanceKnown, At, GoTo, Steps, NoCall
<1>1. ASSUME NEW t \in Threads, CheckMonitorsFailed(t) PROVE TypeInv'
  BY <1>1 DEF CheckMonitorsFailed, ShowAlert
<1>2. CASE ConnectionDidFail
  BY <1>2 DEF ConnectionDidFail, ShowAlert
<1>3. CASE DidUpdateToLocation
  <2>1. ASSUME NEW w \in GeoWarnings, ShowAlert(MainThread, w) PROVE TypeInv'
    <3>1. call' \in [Callers -> [pc : Steps, id : Ids \cup {NoId},
                                inst : Callers \cup {NoInstance}]]
      BY <2>1 DEF ShowAlert
    <3>2. QED
      BY <1>3, <2>1, <3>1 DEF DidUpdateToLocation, ShowAlert
  <2>2. CASE UNCHANGED call
    BY <1>3, <2>2 DEF DidUpdateToLocation
  <2>3. QED
    BY <1>3, <2>1, <2>2 DEF DidUpdateToLocation
<1>4. ASSUME NEW c \in Callers, AlertStep(c) PROVE TypeInv'
  <2>1. CASE TestInstance(c)
    BY <2>1 DEF TestInstance
  <2>2. CASE AllocInstance(c)
    BY <2>2 DEF AllocInstance
  <2>3. CASE ReturnInstance(c)
    BY <2>3 DEF ReturnInstance
  <2>4. CASE LookupId(c)
    BY <2>4 DEF LookupId
  <2>5. CASE StoreId(c)
    BY <2>5 DEF StoreId
  <2>6. CASE PresentAlert(c)
    BY <2>6 DEF PresentAlert, MaxCount
  <2>7. QED
    BY <1>4, <2>1, <2>2, <2>3, <2>4, <2>5, <2>6 DEF AlertStep
<1>5. CASE UNCHANGED vars
  BY <1>5 DEF vars
<1>6. QED
  BY <1>1, <1>2, <1>3, <1>4, <1>5 DEF Next

THEOREM TypeCorrect == Spec => []TypeInv
  BY InitTypeInv, NextTypeInv, PTL DEF Spec

(* The form of TypeCorrect that the runs check: the types of the singleton,  *)
(* its dictionaries and the activations of showAlert.                        *)
THEOREM TypesOfAlerts == Spec => []TypeOK
  BY TypeCorrect, PTL DEF TypeInv

-----------------------------------------------------------------------------
(* No interleaving of getInstance and shouldShowAlertForId suppresses an     *)
(* alert that nobody has seen or is about to see.                            *)
LEMMA NextRemembered ==
  TypeInv /\ RememberedIsPresented /\ [Next]_vars => RememberedIsPresented'
<1> SUFFICES ASSUME TypeInv, RememberedIsPresented, [Next]_vars
             PROVE  RememberedIsPresented'
  OBVIOUS
<1> USE DEF TypeInv, TypeOK, InstanceKnown, RememberedIsPresented, At, GoTo, Steps, NoCall
<1>1. ASSUME NEW t \in Threads, CheckMonitorsFailed(t) PROVE RememberedIsPresented'
  BY <1>1 DEF CheckMonitorsFailed, ShowAlert
<1>2. CASE ConnectionDidFail
  BY <1>2 DEF ConnectionDidFail, ShowAlert
<1>3. CASE DidUpdateToLocation
  BY <1>3 DEF DidUpdateToLocation, ShowAlert
<1>4. ASSUME NEW c \in Callers, AlertStep(c) PROVE RememberedIsPresented'
  <2>1. CASE TestInstance(c)
    BY <2>1 DEF TestInstance
  <2>2. CASE AllocInstance(c)
    BY <2>2 DEF AllocInstance
  <2>3. CASE ReturnInstance(c)
    BY <2>3 DEF ReturnInstance
  <2>4. CASE LookupId(c)
    BY <2>4 DEF LookupId
  <2>5. CASE StoreId(c)
    BY <2>5 DEF StoreId
  <2>6. CASE PresentAlert(c)
    BY <2>6 DEF PresentAlert, MaxCount
  <2>7. QED
    BY <1>4, <2>1, <2>2, <2>3, <2>4, <2>5, <2>6 DEF AlertStep
<1>5. CASE UNCHANGED vars
  BY <1>5 DEF vars
<1>6. QED
  BY <1>1, <1>2, <1>3, <1>4, <1>5 DEF Next

THEOREM NothingUnseenIsSuppressed == Spec => []RememberedIsPresented
<1>1. Init => RememberedIsPresented
  BY DEF Init, RememberedIsPresented
<1>2. QED
  BY <1>1, NextRemembered, TypeCorrect, PTL DEF Spec

-----------------------------------------------------------------------------
(* Once the start-up race is over and an identity is in the dictionary with  *)
(* no call past its lookup, its alert is never shown again.                  *)
LEMMA SettledStep ==
  ASSUME NEW id \in Ids, TypeInv, [Next]_vars, Settled(id)
  PROVE  Settled(id)' /\ alerts'[id] = alerts[id]
<1> DEFINE Goal == Settled(id)' /\ alerts'[id] = alerts[id]
<1> USE DEF TypeInv, TypeOK, InstanceKnown, Settled, OneInstance, At, GoTo, Steps, NoCall
<1>1. ASSUME NEW t \in Threads, CheckMonitorsFailed(t) PROVE Goal
  BY <1>1 DEF CheckMonitorsFailed, ShowAlert
<1>2. CASE ConnectionDidFail
  BY <1>2 DEF ConnectionDidFail, ShowAlert
<1>3. CASE DidUpdateToLocation
  BY <1>3 DEF DidUpdateToLocation, ShowAlert
<1>4. ASSUME NEW c \in Callers, AlertStep(c) PROVE Goal
  <2>1. CASE TestInstance(c)
    BY <2>1 DEF TestInstance
  <2>2. CASE AllocInstance(c)
    BY <2>2 DEF AllocInstance
  <2>3. CASE ReturnInstance(c)
    BY <2>3 DEF ReturnInstance
  <2>4. CASE LookupId(c)
    BY <2>4 DEF LookupId
  <2>5. CASE StoreId(c)
    BY <2>5 DEF StoreId
  <2>6. CASE PresentAlert(c)
    BY <2>6 DEF PresentAlert
  <2>7. QED
    BY <1>4, <2>1, <2>2, <2>3, <2>4, <2>5, <2>6 DEF AlertStep
<1>5. CASE UNCHANGED vars
  BY <1>5 DEF vars
<1>6. QED
  BY <1>1, <1>2, <1>3, <1>4, <1>5 DEF Next

THEOREM SettledForever == Spec => SettledIsSilent
<1>1. TypeInv /\ [Next]_vars =>
        [\A id \in Ids : Settled(id) => Settled(id)' /\ alerts'[id] = alerts[id]]_vars
  BY SettledStep
<1>2. QED
  BY <1>1, TypeCorrect, PTL DEF Spec, SettledIsSilent
==============================================================================
