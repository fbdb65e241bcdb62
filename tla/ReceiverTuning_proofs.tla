------------------------ MODULE ReceiverTuning_proofs ------------------------
(***************************************************************************)
(* Proofs about ReceiverTuning, for any set of requests and any bounds.    *)
(*                                                                         *)
(* The inductive invariant IInv has two layers.  Base says which thread    *)
(* can be where, who owns g_tune_lock, and that the arguments of a tune    *)
(* are known; it is inductive on its own.  On it rest what is true of the  *)
(* dish: how g_lnb_enabled follows the supply pin (Flagged, Dark), how far *)
(* the LNB has come in a tune under way (Wanted, Lit, Prepared), that the  *)
(* records describe it afterwards (TunedMeansDishSet), and what the        *)
(* monitor has seen (Seen).  One lemma per part, one step per action or    *)
(* per group of actions that cannot disturb it.                            *)
(***************************************************************************)
EXTENDS ReceiverTuning, TLAPS

(* Past TakeLock and before Release.                                       *)
Holds(t) == pc[t] \in {"ask", "begin", "release"} \/ InTune(t)

(* Which thread can be where.                                              *)
Roles ==
  /\ pc["cmd"] \notin {"sleep", "ask"}
  /\ pc["mon"] \notin {"idle", "join", "camd", "closed"}
  /\ ~CutsUnlocked("mon")
  /\ pc["cmd"] = "exited" => pc["mon"] = "exited"

(* The arguments of a tune, and the records the monitor tunes from.        *)
Known ==
  /\ \A t \in Thread : pc[t] = "begin" \/ InTune(t) => job[t] # None
  /\ pc["cmd"] = "lock" => job["cmd"] # None
  /\ pc["mon"] \in {"lock", "ask"} \/ tuned => recorded # None

(* A thread that is past TakeLock owns the lock.                           *)
Owned == \A t \in Thread : Holds(t) => lock = t

(* The stream is paused for the body of a tune.                            *)
Paused == \A t \in Thread : InTune(t) => ~tuned

(* Without a mishap lnb_off and close cut the power only while nobody owns *)
(* the lock.                                                               *)
CutAlone ==
  mishaps = {} /\ (CutsUnlocked("cmd") \/ pc["cmd"] \in {"camd", "closed"})
    => lock = None

(* Everything that is needed of the types and the locations.               *)
Base == TypeOK /\ Roles /\ Known /\ Owned /\ Paused /\ CutAlone

(* Without a mishap g_lnb_enabled follows the supply pin, but for the one  *)
(* write that is between them.                                             *)
Flagged ==
  mishaps = {} /\ power => enabled \/ \E t \in Thread : pc[t] = "lit"

Dark ==
  mishaps = {} =>
    /\ \A t \in Thread : pc[t] \in {"cycled", "cutDone"} => ~power
    /\ pc["cmd"] \in {"camd", "closed", "exited"} => ~power

(* How far the dish has come in a tune under way.                          *)
Supplied(r) ==
  /\ r.volts # 0
  /\ power
  /\ high = (r.volts = 18)

Wanted ==
  \A t \in Thread :
    /\ pc[t] \in {"cycle", "cycled", "supply"} => job[t].volts # 0
    /\ pc[t] \in Cutting /\ after[t] = "acquire" => job[t].volts = 0

Lit ==
  mishaps = {} => \A t \in Thread :
    /\ pc[t] \in {"lit", "diseqc", "tone"} => Supplied(job[t])
    /\ pc[t] = "tone" /\ job[t].switch # 0 => switch = job[t].switch

Prepared ==
  mishaps = {} => \A t \in Thread :
    pc[t] \in {"acquire", "poll", "locked"} \/ (pc[t] = "rf" /\ ~changed[t])
      => DishMatches(job[t])

(* What the monitor saw before it took the tune.                           *)
Seen == pc["mon"] = "begin" /\ tuned => ~steady

IInv ==
  /\ Base
  /\ Flagged /\ Dark
  /\ Wanted /\ Lit /\ Prepared
  /\ TunedMeansDishSet
  /\ Seen

-----------------------------------------------------------------------------
USE RequestsAssumption, BoundsAssumption

(* Type correctness, one group of variables at a time. The threads: a      *)
(* location of daemon_tune is left only for another one.                   *)
LEMMA ThreadTypes ==
  ASSUME Base, [Next]_vars
  PROVE  ThreadsOK'
<1> USE DEF Base, TypeOK, ThreadsOK, Goto, Thread, Locations, TuneBody, Cutting,
      threadVars
<1>1. CASE Calls
  BY <1>1 DEF Calls, SkipTune, CallTune, CallLnbOff, CallClose
<1>2. CASE Closing
  BY <1>2 DEF Closing, JoinStream, CloseDevice, ProcessExit
<1>3. CASE Monitoring
  BY <1>3 DEF Monitoring, MonitorWakes, MonitorEnds, MonitorWaits,
    MonitorReacquires, EngineOK, MustRelight
<1>4. ASSUME NEW t \in Thread, ThreadStep(t) PROVE ThreadsOK'
  <2>1. CASE TakeLock(t)
    BY <2>1 DEF TakeLock
  <2>2. CASE Release(t)
    BY <2>2 DEF Release
  <2>3. CASE TuneCycles(t)
    BY <2>3 DEF TuneCycles
  <2>4. CASE TuneCycled(t)
    BY <2>4 DEF TuneCycled
  <2>5. CASE TuneLit(t)
    BY <2>5 DEF TuneLit
  <2>6. CASE TuneTones(t)
    BY <2>6 DEF TuneTones
  <2>7. CASE PollLocks(t)
    BY <2>7 DEF PollLocks
  <2>8. CASE RecordTune(t)
    BY <2>8 DEF RecordTune
  <2>9. CASE PollGivesUp(t)
    BY <2>9 DEF PollGivesUp
  <2>10. CASE CutTone(t)
    BY <2>10 DEF CutTone
  <2>11. CASE CutVolts(t)
    BY <2>11 DEF CutVolts
  <2>12. CASE CutDone(t)
    BY <2>12 DEF CutDone
  <2>13. CASE TuneBegins(t)
    <3>1. MustRelight \in BOOLEAN
      BY DEF MustRelight, EngineOK
    <3>2. (LnbDiffers(job[t]) \/ ~enabled \/ MustRelight) \in BOOLEAN
      OBVIOUS
    <3> QED
      BY <2>13, <3>1, <3>2 DEF TuneBegins
  <2>14. CASE TuneRf(t)
    BY <2>14 DEF TuneRf, AfterRf, Fail
  <2>15. CASE TuneSupplies(t)
    BY <2>15 DEF TuneSupplies, Fail
  <2>16. CASE TuneSwitches(t)
    BY <2>16 DEF TuneSwitches, Fail
  <2>17. CASE TuneAcquires(t)
    BY <2>17 DEF TuneAcquires, Fail
  <2> QED
    BY <1>4, <2>1, <2>2, <2>3, <2>4, <2>5, <2>6, <2>7, <2>8, <2>9, <2>10, <2>11,
       <2>12, <2>13, <2>14, <2>15, <2>16, <2>17
    DEF ThreadStep, TuneStep, CutStep
<1>5. CASE World
  BY <1>5 DEF World, DataArrives, TimePasses, Unplug, Plug
<1>6. CASE UNCHANGED vars
  BY <1>6 DEF vars
<1> QED
  BY <1>1, <1>2, <1>3, <1>4, <1>5, <1>6 DEF Next

(* The engine's globals: what is recorded is a request, or a request with  *)
(* the symbol rate a blind acquisition found.                              *)
LEMMA EngineTypes ==
  ASSUME Base, [Next]_vars
  PROVE  EngineOK'
<1> USE DEF Base, TypeOK, EngineOK, engineVars
<1>1. CASE Calls
  BY <1>1 DEF Calls, SkipTune, CallTune, CallLnbOff, CallClose
<1>2. CASE Closing
  BY <1>2 DEF Closing, JoinStream, CloseDevice, ProcessExit
<1>3. CASE Monitoring
  BY <1>3 DEF Monitoring, MonitorWakes, MonitorEnds, MonitorWaits,
    MonitorReacquires
<1>4. ASSUME NEW t \in Thread, ThreadStep(t) PROVE EngineOK'
  <2>1. CASE TakeLock(t) \/ TuneBegins(t) \/ TuneRf(t) \/ TuneCycles(t)
        \/ TuneCycled(t) \/ TuneSupplies(t) \/ TuneLit(t) \/ TuneSwitches(t)
        \/ TuneTones(t) \/ TuneAcquires(t) \/ PollLocks(t) \/ CutTone(t)
        \/ CutVolts(t) \/ CutDone(t)
    BY <2>1 DEF TakeLock, TuneBegins, TuneRf, TuneCycles, TuneCycled,
      TuneSupplies, TuneLit, TuneSwitches, TuneTones, TuneAcquires,
      PollLocks, CutTone, CutVolts, CutDone
  <2>2. CASE Release(t)
    BY <2>2 DEF Release, Ages
  <2>3. CASE RecordTune(t)
    BY <2>3 DEF RecordTune, Record, Known, InTune, TuneBody, ThreadsOK,
      TuneArgs, Thread
  <2>4. CASE PollGivesUp(t)
    BY <2>4 DEF PollGivesUp, Record, Known, InTune, TuneBody, ThreadsOK,
      TuneArgs, Thread
  <2> QED
    BY <1>4, <2>1, <2>2, <2>3, <2>4
    DEF ThreadStep, TuneStep, CutStep
<1>5. CASE World
  BY <1>5 DEF World, DataArrives, Ages, TimePasses, Unplug, Plug
<1>6. CASE UNCHANGED vars
  BY <1>6 DEF vars
<1> QED
  BY <1>1, <1>2, <1>3, <1>4, <1>5, <1>6 DEF Next

(* What drives the board keeps its types.                                  *)
LEMMA DriveTypes ==
  ASSUME DishOK, NEW p \in BOOLEAN, NEW h \in BOOLEAN, NEW n \in BOOLEAN,
         NEW s \in Nat, Drive(p, h, n, s)
  PROVE  DishOK'
<1>1. power' \in BOOLEAN /\ high' \in BOOLEAN /\ tone' \in BOOLEAN
  BY Zenon DEF Drive
<1>2. switch' \in Nat
  BY DEF Drive
<1>3. latched' \in BOOLEAN
  BY DEF Drive, DishOK
<1>4. steady' \in BOOLEAN
  BY DEF Drive, DishOK
<1>5. rf' \in TuneArgs \cup {None} /\ cable' \in BOOLEAN
  BY DEF Drive, DishOK
<1> QED
  BY <1>1, <1>2, <1>3, <1>4, <1>5, Zenon DEF DishOK

(* So does a voltage write, whole or half done.                            *)
LEMMA VoltageTypes ==
  ASSUME DishOK, NEW v, SetVoltage(v) \/ HalfSetVoltage(v)
  PROVE  DishOK'
<1>1. (v # 0) \in BOOLEAN /\ (v = 18) \in BOOLEAN
  OBVIOUS
<1>2. high \in BOOLEAN /\ tone \in BOOLEAN /\ switch \in Nat
  BY DEF DishOK
<1>3. CASE SetVoltage(v)
  BY <1>1, <1>2, <1>3, DriveTypes, Zenon DEF SetVoltage
<1>4. CASE HalfSetVoltage(v)
  BY <1>1, <1>2, <1>4, DriveTypes, Zenon DEF HalfSetVoltage
<1> QED
  BY <1>3, <1>4

(* The dish.                                                               *)
LEMMA DishTypes ==
  ASSUME Base, [Next]_vars
  PROVE  DishOK'
<1> USE DEF Base, TypeOK
<1>0. UNCHANGED dishVars => DishOK'
  BY DEF DishOK, dishVars
<1>1. CASE Calls
  BY <1>1, <1>0 DEF Calls, SkipTune, CallTune, CallLnbOff, CallClose
<1>2. CASE Closing
  BY <1>2, <1>0 DEF Closing, JoinStream, CloseDevice, ProcessExit
<1>3. CASE Monitoring
  BY <1>3, <1>0 DEF Monitoring, MonitorWakes, MonitorEnds, MonitorWaits,
    MonitorReacquires
<1>4. ASSUME NEW t \in Thread, ThreadStep(t) PROVE DishOK'
  <2>1. CASE TakeLock(t) \/ Release(t) \/ TuneBegins(t) \/ TuneCycled(t)
        \/ TuneLit(t) \/ TuneAcquires(t) \/ RecordTune(t) \/ PollGivesUp(t)
        \/ CutDone(t)
    BY <2>1, <1>0 DEF TakeLock, Release, TuneBegins, TuneCycled, TuneLit,
      TuneAcquires, RecordTune, PollGivesUp, CutDone
  <2>2. CASE TuneRf(t)
    BY <2>2, <1>0 DEF TuneRf, DishOK, ThreadsOK
  <2>3. CASE TuneCycles(t)
    BY <2>3, <1>0, VoltageTypes DEF TuneCycles
  <2>4. CASE TuneSupplies(t)
    BY <2>4, <1>0, VoltageTypes DEF TuneSupplies
  <2>5. CASE TuneSwitches(t)
    <3>1. power \in BOOLEAN /\ high \in BOOLEAN /\ tone \in BOOLEAN
      BY DEF DishOK
    <3>2. job[t].switch \in Nat
      BY <2>5 DEF TuneSwitches, Known, InTune, TuneBody, TuneArgs, ThreadsOK
    <3> QED
      BY <2>5, <1>0, <3>1, <3>2, DriveTypes DEF TuneSwitches
  <2>6. CASE TuneTones(t)
    <3>1. power \in BOOLEAN /\ high \in BOOLEAN /\ switch \in Nat
      BY DEF DishOK
    <3>2. job[t].tone \in BOOLEAN
      BY <2>6 DEF TuneTones, Known, InTune, TuneBody, TuneArgs, ThreadsOK
    <3> QED
      BY <2>6, <1>0, <3>1, <3>2, DriveTypes DEF TuneTones
  <2>7. CASE PollLocks(t)
    BY <2>7, <1>0 DEF PollLocks, DishOK
  <2>8. CASE CutTone(t)
    <3>1. power \in BOOLEAN /\ high \in BOOLEAN /\ switch \in Nat
      BY DEF DishOK
    <3> QED
      BY <2>8, <1>0, <3>1, DriveTypes DEF CutTone
  <2>9. CASE CutVolts(t)
    BY <2>9, <1>0, VoltageTypes DEF CutVolts
  <2> QED
    BY <1>4, <2>1, <2>2, <2>3, <2>4, <2>5, <2>6, <2>7, <2>8, <2>9
    DEF ThreadStep, TuneStep, CutStep
<1>5. CASE World
  BY <1>5, <1>0 DEF World, DataArrives, TimePasses, Unplug, DishOK, Plug
<1>6. CASE UNCHANGED vars
  BY <1>6, <1>0 DEF vars
<1> QED
  BY <1>1, <1>2, <1>3, <1>4, <1>5, <1>6 DEF Next

(* The history variables.                                                  *)
LEMMA HistoryTypes ==
  ASSUME Base, [Next]_vars
  PROVE  HistoryOK'
<1> USE DEF Base, TypeOK, HistoryOK, Mishaps, history
<1>1. CASE Calls
  BY <1>1 DEF Calls, SkipTune, CallTune, CallLnbOff, CallClose
<1>2. CASE Closing
  BY <1>2 DEF Closing, JoinStream, CloseDevice, ProcessExit
<1>3. CASE Monitoring
  BY <1>3 DEF Monitoring, MonitorWakes, MonitorEnds, MonitorWaits,
    MonitorReacquires
<1>4. ASSUME NEW t \in Thread, ThreadStep(t) PROVE HistoryOK'
  <2>1. CASE TakeLock(t) \/ Release(t) \/ TuneBegins(t) \/ TuneRf(t)
        \/ TuneCycled(t) \/ TuneLit(t) \/ TuneSwitches(t) \/ TuneAcquires(t)
        \/ PollLocks(t) \/ RecordTune(t) \/ PollGivesUp(t)
    BY <2>1 DEF TakeLock, Release, TuneBegins, TuneRf, TuneCycled, TuneLit,
      TuneSwitches, TuneAcquires, PollLocks, RecordTune, PollGivesUp
  <2>2. CASE TuneCycles(t)
    BY <2>2 DEF TuneCycles, Mishap
  <2>3. CASE TuneSupplies(t)
    BY <2>3 DEF TuneSupplies, Mishap
  <2>4. CASE TuneTones(t)
    BY <2>4 DEF TuneTones, Mishap
  <2>5. CASE CutTone(t)
    BY <2>5 DEF CutTone, Raced
  <2>6. CASE CutVolts(t)
    BY <2>6 DEF CutVolts, Raced
  <2>7. CASE CutDone(t)
    BY <2>7 DEF CutDone, Raced
  <2> QED
    BY <1>4, <2>1, <2>2, <2>3, <2>4, <2>5, <2>6, <2>7
    DEF ThreadStep, TuneStep, CutStep
<1>5. CASE World
  BY <1>5 DEF World, DataArrives, TimePasses, Unplug, Plug
<1>6. CASE UNCHANGED vars
  BY <1>6 DEF vars
<1> QED
  BY <1>1, <1>2, <1>3, <1>4, <1>5, <1>6 DEF Next

(* The bounds.                                                             *)
LEMMA BoundsTypes ==
  ASSUME Base, [Next]_vars
  PROVE  BoundsOK'
<1> USE DEF Base, TypeOK, BoundsOK, bounds
<1>1. CASE Calls
  BY <1>1 DEF Calls, SkipTune, Call, CallTune, CallLnbOff, CallClose
<1>2. CASE Closing
  BY <1>2 DEF Closing, JoinStream, CloseDevice, ProcessExit
<1>3. CASE Monitoring
  BY <1>3 DEF Monitoring, MonitorWakes, MonitorEnds, MonitorWaits, Fault, Works,
    MonitorReacquires
<1>4. ASSUME NEW t \in Thread, ThreadStep(t) PROVE BoundsOK'
  <2>1. CASE TakeLock(t) \/ Release(t) \/ TuneBegins(t) \/ TuneCycled(t)
        \/ TuneLit(t) \/ PollLocks(t) \/ RecordTune(t) \/ PollGivesUp(t)
        \/ CutDone(t)
    BY <2>1 DEF TakeLock, Release, TuneBegins, TuneCycled, TuneLit, PollLocks,
      RecordTune, PollGivesUp, CutDone
  <2>2. CASE TuneRf(t)
    BY <2>2 DEF TuneRf, Fault, Works
  <2>3. CASE TuneCycles(t)
    BY <2>3 DEF TuneCycles, Fault, Works
  <2>4. CASE TuneSupplies(t)
    BY <2>4 DEF TuneSupplies, Fault, Works
  <2>5. CASE TuneSwitches(t)
    BY <2>5 DEF TuneSwitches, Fault, Works
  <2>6. CASE TuneTones(t)
    BY <2>6 DEF TuneTones, Fault, Works
  <2>7. CASE TuneAcquires(t)
    BY <2>7 DEF TuneAcquires, Fault, Works
  <2>8. CASE CutTone(t)
    <3>1. (Works \/ Fault) /\ UNCHANGED <<commands, unplugs>>
      BY <2>8, Zenon DEF CutTone
    <3> QED
      BY <3>1 DEF Works, Fault
  <2>9. CASE CutVolts(t)
    BY <2>9 DEF CutVolts, Fault, Works
  <2> QED
    BY <1>4, <2>1, <2>2, <2>3, <2>4, <2>5, <2>6, <2>7, <2>8, <2>9
    DEF ThreadStep, TuneStep, CutStep
<1>5. CASE World
  BY <1>5 DEF World, DataArrives, TimePasses, Unplug, Plug
<1>6. CASE UNCHANGED vars
  BY <1>6 DEF vars
<1> QED
  BY <1>1, <1>2, <1>3, <1>4, <1>5, <1>6 DEF Next

(* The command thread never reaches the monitor's locations, nor the       *)
(* monitor the command thread's.                                           *)
LEMMA RolesStep ==
  ASSUME Base, [Next]_vars
  PROVE  Roles'
<1> USE DEF Base, TypeOK, ThreadsOK, Roles, Goto, Fail, CutsUnlocked, Cutting,
      Thread, threadVars
<1>1. CASE Calls
  BY <1>1 DEF Calls, SkipTune, CallTune, CallLnbOff, CallClose
<1>2. CASE Closing
  BY <1>2 DEF Closing, JoinStream, CloseDevice, ProcessExit
<1>3. CASE Monitoring
  BY <1>3 DEF Monitoring, MonitorWakes, MonitorEnds, MonitorWaits,
    MonitorReacquires
<1>4. ASSUME NEW t \in Thread, ThreadStep(t) PROVE Roles'
  <2>1. CASE TakeLock(t) \/ Release(t) \/ TuneBegins(t) \/ TuneCycles(t)
    BY <2>1 DEF TakeLock, Release, TuneBegins, TuneCycles
  <2>2. CASE TuneCycled(t) \/ TuneSupplies(t) \/ TuneLit(t)
        \/ TuneSwitches(t)
    BY <2>2 DEF TuneCycled, TuneSupplies, TuneLit, TuneSwitches
  <2>3. CASE TuneTones(t) \/ TuneAcquires(t) \/ PollLocks(t)
        \/ RecordTune(t)
    BY <2>3 DEF TuneTones, TuneAcquires, PollLocks, RecordTune
  <2>4. CASE PollGivesUp(t) \/ CutTone(t) \/ CutVolts(t) \/ CutDone(t)
    BY <2>4 DEF PollGivesUp, CutTone, CutVolts, CutDone
  <2>5. CASE TuneRf(t)
    BY <2>5 DEF TuneRf, AfterRf
  <2> QED
    BY <1>4, <2>1, <2>2, <2>3, <2>4, <2>5
    DEF ThreadStep, TuneStep, CutStep
<1>5. CASE World
  BY <1>5 DEF World, DataArrives, TimePasses, Unplug, Plug
<1>6. CASE UNCHANGED vars
  BY <1>6 DEF vars
<1> QED
  BY <1>1, <1>2, <1>3, <1>4, <1>5, <1>6 DEF Next

(* A tune under way knows its arguments; the monitor never tunes from      *)
(* empty records.                                                          *)
LEMMA KnownStep ==
  ASSUME Base, [Next]_vars
  PROVE  Known'
<1> USE DEF Base, TypeOK, ThreadsOK, EngineOK, Known, Goto, Fail, InTune,
      TuneBody, Cutting, Thread, threadVars, engineVars
<1>1. CASE Calls
  BY <1>1 DEF Calls, SkipTune, CallTune, TuneArgs, CallLnbOff, CallClose
<1>2. CASE Closing
  BY <1>2 DEF Closing, JoinStream, CloseDevice, ProcessExit
<1>3. CASE Monitoring
  BY <1>3 DEF Monitoring, MonitorWakes, FrequencyKnown, MonitorEnds, MonitorWaits,
    MonitorReacquires
<1>4. ASSUME NEW t \in Thread, ThreadStep(t) PROVE Known'
  <2>1. CASE Release(t) \/ TuneBegins(t) \/ TuneCycles(t) \/ TuneCycled(t)
    BY <2>1 DEF Release, TuneBegins, TuneCycles, TuneCycled
  <2>2. CASE TuneSupplies(t) \/ TuneLit(t) \/ TuneSwitches(t)
        \/ TuneTones(t)
    BY <2>2 DEF TuneSupplies, TuneLit, TuneSwitches, TuneTones
  <2>3. CASE TuneAcquires(t) \/ PollLocks(t)
    BY <2>3 DEF TuneAcquires, PollLocks
  <2>4. CASE TakeLock(t)
    BY <2>4 DEF TakeLock, Roles
  <2>5. CASE TuneRf(t)
    BY <2>5 DEF TuneRf, AfterRf
  <2>6. CASE RecordTune(t)
    <3>1. recorded' # None
      BY <2>6 DEF RecordTune, Record, TuneArgs
    <3> QED
      BY <2>6, <3>1 DEF RecordTune
  <2>7. CASE PollGivesUp(t)
    BY <2>7 DEF PollGivesUp, Record
  <2>8. CASE CutTone(t)
    BY <2>8 DEF CutTone
  <2>9. CASE CutVolts(t)
    BY <2>9 DEF CutVolts
  <2>10. CASE CutDone(t)
    BY <2>10 DEF CutDone
  <2> QED
    BY <1>4, <2>1, <2>2, <2>3, <2>4, <2>5, <2>6, <2>7, <2>8, <2>9, <2>10
    DEF ThreadStep, TuneStep, CutStep
<1>5. CASE World
  BY <1>5 DEF World, DataArrives, TimePasses, Unplug, Plug
<1>6. CASE UNCHANGED vars
  BY <1>6 DEF vars
<1> QED
  BY <1>1, <1>2, <1>3, <1>4, <1>5, <1>6 DEF Next

(* Together: the types of every variable survive every step, and a tune    *)
(* has its arguments.                                                      *)
LEMMA TypeStep ==
  ASSUME Base, [Next]_vars
  PROVE  TypeOK'
<1>1. JobsOK'
  BY KnownStep DEF Known, JobsOK
<1> QED
  BY <1>1, ThreadTypes, EngineTypes, DishTypes, HistoryTypes, BoundsTypes, Zenon
  DEF TypeOK

(* g_tune_lock is held from TakeLock to Release.                           *)
LEMMA OwnedStep ==
  ASSUME Base, [Next]_vars
  PROVE  Owned'
<1> USE DEF Base, TypeOK, ThreadsOK, Roles, Owned, Holds, Goto, Fail,
      CutsUnlocked, InTune, TuneBody, Cutting, Thread, threadVars,
      engineVars
<1>1. CASE Calls
  BY <1>1 DEF Calls, SkipTune, CallTune, CallLnbOff, CallClose
<1>2. CASE Closing
  BY <1>2 DEF Closing, JoinStream, CloseDevice, ProcessExit
<1>3. CASE Monitoring
  BY <1>3 DEF Monitoring, MonitorWakes, MonitorEnds, MonitorWaits,
    MonitorReacquires
<1>4. ASSUME NEW t \in Thread, ThreadStep(t) PROVE Owned'
  <2>1. CASE Release(t) \/ TuneBegins(t) \/ TuneCycles(t) \/ TuneCycled(t)
    BY <2>1 DEF Release, TuneBegins, TuneCycles, TuneCycled
  <2>2. CASE TuneSupplies(t) \/ TuneLit(t) \/ TuneSwitches(t)
        \/ TuneTones(t)
    BY <2>2 DEF TuneSupplies, TuneLit, TuneSwitches, TuneTones
  <2>3. CASE TuneAcquires(t) \/ PollLocks(t) \/ RecordTune(t)
        \/ PollGivesUp(t)
    BY <2>3 DEF TuneAcquires, PollLocks, RecordTune, PollGivesUp
  <2>4. CASE TakeLock(t)
    BY <2>4 DEF TakeLock, LockFree
  <2>5. CASE TuneRf(t)
    BY <2>5 DEF TuneRf, AfterRf
  <2>6. CASE CutTone(t)
    BY <2>6 DEF CutTone
  <2>7. CASE CutVolts(t)
    BY <2>7 DEF CutVolts
  <2>8. CASE CutDone(t)
    BY <2>8 DEF CutDone
  <2> QED
    BY <1>4, <2>1, <2>2, <2>3, <2>4, <2>5, <2>6, <2>7, <2>8
    DEF ThreadStep, TuneStep, CutStep
<1>5. CASE World
  BY <1>5 DEF World, DataArrives, TimePasses, Unplug, Plug
<1>6. CASE UNCHANGED vars
  BY <1>6 DEF vars
<1> QED
  BY <1>1, <1>2, <1>3, <1>4, <1>5, <1>6 DEF Next

(* g_tuned stays clear for the body of a tune: only its last step sets it. *)
LEMMA PausedStep ==
  ASSUME Base, [Next]_vars
  PROVE  Paused'
<1> USE DEF Base, TypeOK, ThreadsOK, EngineOK, Owned, Paused, Holds, Goto, Fail,
      InTune, TuneBody, Cutting, Thread, threadVars, engineVars
<1>1. CASE Calls
  BY <1>1 DEF Calls, SkipTune, CallTune, CallLnbOff, Roles, CallClose
<1>2. CASE Closing
  BY <1>2 DEF Closing, JoinStream, Roles, CloseDevice, ProcessExit
<1>3. CASE Monitoring
  BY <1>3 DEF Monitoring, MonitorWakes, MonitorEnds, MonitorWaits,
    MonitorReacquires
<1>4. ASSUME NEW t \in Thread, ThreadStep(t) PROVE Paused'
  <2>1. CASE TakeLock(t) \/ Release(t) \/ TuneBegins(t) \/ TuneCycles(t)
    BY <2>1 DEF TakeLock, Release, TuneBegins, TuneCycles
  <2>2. CASE TuneCycled(t) \/ TuneSupplies(t) \/ TuneLit(t)
        \/ TuneSwitches(t)
    BY <2>2 DEF TuneCycled, TuneSupplies, TuneLit, TuneSwitches
  <2>3. CASE TuneTones(t) \/ TuneAcquires(t) \/ PollLocks(t)
        \/ RecordTune(t)
    BY <2>3 DEF TuneTones, TuneAcquires, PollLocks, RecordTune
  <2>4. CASE PollGivesUp(t)
    BY <2>4 DEF PollGivesUp
  <2>5. CASE TuneRf(t)
    BY <2>5 DEF TuneRf, AfterRf
  <2>6. CASE CutTone(t)
    BY <2>6 DEF CutTone
  <2>7. CASE CutVolts(t)
    BY <2>7 DEF CutVolts
  <2>8. CASE CutDone(t)
    BY <2>8 DEF CutDone
  <2> QED
    BY <1>4, <2>1, <2>2, <2>3, <2>4, <2>5, <2>6, <2>7, <2>8
    DEF ThreadStep, TuneStep, CutStep
<1>5. CASE World
  BY <1>5 DEF World, DataArrives, TimePasses, Unplug, Plug
<1>6. CASE UNCHANGED vars
  BY <1>6 DEF vars
<1> QED
  BY <1>1, <1>2, <1>3, <1>4, <1>5, <1>6 DEF Next

(* A power-down without the lock meets an owner only after a mishap has    *)
(* been noted.                                                             *)
LEMMA CutAloneStep ==
  ASSUME Base, [Next]_vars
  PROVE  CutAlone'
<1> USE DEF Base, TypeOK, ThreadsOK, Roles, CutAlone, Goto, Fail, CutsUnlocked,
      InTune, TuneBody, Cutting, Thread, threadVars, engineVars, history
<1>1. CASE Calls
  BY <1>1 DEF Calls, SkipTune, CallTune, CallLnbOff, CallClose
<1>2. CASE Closing
  BY <1>2 DEF Closing, JoinStream, CloseDevice, ProcessExit
<1>3. CASE Monitoring
  BY <1>3 DEF Monitoring, MonitorWakes, MonitorEnds, MonitorWaits,
    MonitorReacquires
<1>4. ASSUME NEW t \in Thread, ThreadStep(t) PROVE CutAlone'
  <2>1. CASE TakeLock(t) \/ TuneBegins(t) \/ TuneCycled(t)
    BY <2>1 DEF TakeLock, TuneBegins, TuneCycled
  <2>2. CASE TuneLit(t) \/ TuneSwitches(t) \/ TuneAcquires(t)
    BY <2>2 DEF TuneLit, TuneSwitches, TuneAcquires
  <2>3. CASE PollLocks(t) \/ RecordTune(t) \/ PollGivesUp(t)
    BY <2>3 DEF PollLocks, RecordTune, PollGivesUp
  <2>4. CASE Release(t)
    BY <2>4 DEF Release, Owned, Holds
  <2>5. CASE TuneRf(t)
    BY <2>5 DEF TuneRf, AfterRf
  <2>6. CASE TuneCycles(t)
    BY <2>6 DEF TuneCycles, Mishap
  <2>7. CASE TuneSupplies(t)
    BY <2>7 DEF TuneSupplies, Mishap
  <2>8. CASE TuneTones(t)
    BY <2>8 DEF TuneTones, Mishap
  <2>9. CASE CutTone(t)
    BY <2>9 DEF CutTone, Raced
  <2>10. CASE CutVolts(t)
    BY <2>10 DEF CutVolts, Raced
  <2>11. CASE CutDone(t)
    BY <2>11 DEF CutDone, Raced
  <2> QED
    BY <1>4, <2>1, <2>2, <2>3, <2>4, <2>5, <2>6, <2>7, <2>8, <2>9, <2>10, <2>11
    DEF ThreadStep, TuneStep, CutStep
<1>5. CASE World
  BY <1>5 DEF World, DataArrives, TimePasses, Unplug, Plug
<1>6. CASE UNCHANGED vars
  BY <1>6 DEF vars
<1> QED
  BY <1>1, <1>2, <1>3, <1>4, <1>5, <1>6 DEF Next

(* The supply is raised only for a request that names a voltage, and cut   *)
(* inside a tune only for one that does not.                               *)
LEMMA WantedStep ==
  ASSUME IInv, [Next]_vars
  PROVE  Wanted'
<1> USE DEF IInv, Wanted, Base, TypeOK, ThreadsOK, Roles, Goto, Fail, InTune,
      TuneBody, Cutting, CutsUnlocked, Thread, threadVars
<1>1. CASE Calls
  BY <1>1 DEF Calls, SkipTune, CallTune, CallLnbOff, CallClose
<1>2. CASE Closing
  BY <1>2 DEF Closing, JoinStream, CloseDevice, ProcessExit
<1>3. CASE Monitoring
  BY <1>3 DEF Monitoring, MonitorWakes, MonitorEnds, MonitorWaits,
    MonitorReacquires
<1>4. ASSUME NEW t \in Thread, ThreadStep(t) PROVE Wanted'
  <2>1. CASE TakeLock(t) \/ Release(t) \/ TuneBegins(t) \/ TuneCycles(t)
    BY <2>1 DEF TakeLock, Release, TuneBegins, TuneCycles
  <2>2. CASE TuneCycled(t) \/ TuneSupplies(t) \/ TuneLit(t)
        \/ TuneSwitches(t)
    BY <2>2 DEF TuneCycled, TuneSupplies, TuneLit, TuneSwitches
  <2>3. CASE TuneTones(t) \/ TuneAcquires(t) \/ PollLocks(t)
        \/ RecordTune(t)
    BY <2>3 DEF TuneTones, TuneAcquires, PollLocks, RecordTune
  <2>4. CASE PollGivesUp(t)
    BY <2>4 DEF PollGivesUp
  <2>5. CASE TuneRf(t)
    BY <2>5 DEF TuneRf, AfterRf
  <2>6. CASE CutTone(t)
    BY <2>6 DEF CutTone
  <2>7. CASE CutVolts(t)
    BY <2>7 DEF CutVolts
  <2>8. CASE CutDone(t)
    BY <2>8 DEF CutDone
  <2> QED
    BY <1>4, <2>1, <2>2, <2>3, <2>4, <2>5, <2>6, <2>7, <2>8
    DEF ThreadStep, TuneStep, CutStep
<1>5. CASE World
  BY <1>5 DEF World, DataArrives, TimePasses, Unplug, Plug
<1>6. CASE UNCHANGED vars
  BY <1>6 DEF vars
<1> QED
  BY <1>1, <1>2, <1>3, <1>4, <1>5, <1>6 DEF Next

(* A monitor that is about to take the tune has seen the carrier gone, and *)
(* nothing brings it back before it does.                                  *)
LEMMA SeenStep ==
  ASSUME IInv, [Next]_vars
  PROVE  Seen'
<1> USE DEF IInv, Seen, Base, TypeOK, ThreadsOK, Owned, Holds, Goto, Fail,
      InTune, TuneBody, Thread, threadVars, engineVars, dishVars
<1>1. CASE Calls
  BY <1>1 DEF Calls, SkipTune, CallTune, CallLnbOff, CallClose
<1>2. CASE Closing
  BY <1>2 DEF Closing, JoinStream, CloseDevice, ProcessExit
<1>3. CASE Monitoring
  BY <1>3 DEF Monitoring, MonitorWakes, MonitorEnds, MonitorWaits,
    MonitorReacquires, CarrierGone
<1>4. ASSUME NEW t \in Thread, ThreadStep(t) PROVE Seen'
  <2>1. CASE TakeLock(t) \/ Release(t) \/ TuneBegins(t) \/ TuneCycled(t)
        \/ TuneLit(t) \/ TuneAcquires(t) \/ PollLocks(t) \/ RecordTune(t)
        \/ PollGivesUp(t) \/ CutDone(t)
    BY <2>1 DEF TakeLock, Release, TuneBegins, TuneCycled, TuneLit,
      TuneAcquires, PollLocks, RecordTune, PollGivesUp, CutDone
  <2>2. CASE TuneRf(t)
    BY <2>2 DEF TuneRf, AfterRf
  <2>3. CASE TuneCycles(t)
    BY <2>3 DEF TuneCycles, Drive, SetVoltage, HalfSetVoltage
  <2>4. CASE TuneSupplies(t)
    BY <2>4 DEF TuneSupplies, Drive, SetVoltage, HalfSetVoltage
  <2>5. CASE TuneSwitches(t)
    BY <2>5 DEF TuneSwitches, Drive, SetVoltage, HalfSetVoltage
  <2>6. CASE TuneTones(t)
    BY <2>6 DEF TuneTones, Drive, SetVoltage, HalfSetVoltage
  <2>7. CASE CutTone(t)
    BY <2>7 DEF CutTone, Drive, SetVoltage, HalfSetVoltage
  <2>8. CASE CutVolts(t)
    BY <2>8 DEF CutVolts, Drive, SetVoltage, HalfSetVoltage
  <2> QED
    BY <1>4, <2>1, <2>2, <2>3, <2>4, <2>5, <2>6, <2>7, <2>8
    DEF ThreadStep, TuneStep, CutStep
<1>5. CASE World
  BY <1>5 DEF World, DataArrives, TimePasses, Unplug, Plug
<1>6. CASE UNCHANGED vars
  BY <1>6 DEF vars
<1> QED
  BY <1>1, <1>2, <1>3, <1>4, <1>5, <1>6 DEF Next

(* g_lnb_enabled follows the supply pin.                                   *)
LEMMA FlaggedStep ==
  ASSUME IInv, [Next]_vars
  PROVE  Flagged'
<1> USE DEF Base, TypeOK, ThreadsOK, Goto, Fail, CutsUnlocked, InTune, TuneBody,
      Cutting, Thread, threadVars, engineVars, dishVars, history, IInv,
      Flagged, Roles, Owned, Holds, CutAlone
<1>1. CASE Calls
  <2>1. UNCHANGED <<power, enabled>> /\ mishaps \subseteq mishaps'
    BY <1>1, Zenon DEF Calls, SkipTune, CallTune, CallLnbOff, CallClose
  <2>2. \A t \in Thread : pc[t] = "lit" => pc'[t] = "lit"
    BY <1>1 DEF Calls, SkipTune, CallTune, CallLnbOff, CallClose, Call
  <2> QED
    BY <2>1, <2>2 DEF Flagged
<1>2. CASE Closing
  BY <1>2 DEF Closing, JoinStream, CloseDevice, ProcessExit
<1>3. CASE Monitoring
  BY <1>3 DEF Monitoring, MonitorWakes, MonitorEnds, MonitorWaits,
    MonitorReacquires
<1>4. ASSUME NEW t \in Thread, ThreadStep(t) PROVE Flagged'
  <2>1. CASE TakeLock(t) \/ Release(t) \/ TuneBegins(t) \/ TuneLit(t)
        \/ TuneAcquires(t) \/ PollLocks(t) \/ RecordTune(t)
        \/ PollGivesUp(t)
    BY <2>1 DEF TakeLock, Release, TuneBegins, TuneLit, TuneAcquires,
      PollLocks, RecordTune, PollGivesUp
  <2>2. CASE TuneRf(t)
    BY <2>2 DEF TuneRf, AfterRf
  <2>3. CASE TuneCycles(t)
    BY <2>3 DEF TuneCycles, Mishap, Drive, SetVoltage, HalfSetVoltage
  <2>4. CASE TuneCycled(t)
    BY <2>4 DEF TuneCycled, Dark
  <2>5. CASE TuneSupplies(t)
    BY <2>5 DEF TuneSupplies, Mishap, Drive, SetVoltage, HalfSetVoltage
  <2>6. CASE TuneSwitches(t)
    BY <2>6 DEF TuneSwitches, Drive, SetVoltage, HalfSetVoltage
  <2>7. CASE TuneTones(t)
    BY <2>7 DEF TuneTones, Mishap, Drive, SetVoltage, HalfSetVoltage
  <2>8. CASE CutTone(t)
    BY <2>8 DEF CutTone, Raced, Drive, SetVoltage, HalfSetVoltage
  <2>9. CASE CutVolts(t)
    BY <2>9 DEF CutVolts, Raced, Drive, SetVoltage, HalfSetVoltage
  <2>10. CASE CutDone(t)
    BY <2>10 DEF CutDone, Raced, Dark
  <2> QED
    BY <1>4, <2>1, <2>2, <2>3, <2>4, <2>5, <2>6, <2>7, <2>8, <2>9, <2>10
    DEF ThreadStep, TuneStep, CutStep
<1>5. CASE World
  BY <1>5 DEF World, DataArrives, TimePasses, Unplug, Plug
<1>6. CASE UNCHANGED vars
  BY <1>6 DEF vars
<1> QED
  BY <1>1, <1>2, <1>3, <1>4, <1>5, <1>6 DEF Next

(* A power-down that met no mishap has cut the pin.                        *)
LEMMA DarkStep ==
  ASSUME IInv, [Next]_vars
  PROVE  Dark'
<1> USE DEF Base, TypeOK, ThreadsOK, Goto, Fail, CutsUnlocked, InTune, TuneBody,
      Cutting, Thread, threadVars, engineVars, dishVars, history, IInv,
      Dark, Flagged, Roles, Owned, Holds, CutAlone
<1>1. CASE Calls
  BY <1>1 DEF Calls, SkipTune, CallTune, CallLnbOff, CallClose
<1>2. CASE Closing
  BY <1>2 DEF Closing, JoinStream, CutNeeded, CloseDevice, ProcessExit
<1>3. CASE Monitoring
  BY <1>3 DEF Monitoring, MonitorWakes, MonitorEnds, MonitorWaits,
    MonitorReacquires
<1>4. ASSUME NEW t \in Thread, ThreadStep(t) PROVE Dark'
  <2>1. CASE TakeLock(t) \/ Release(t) \/ TuneBegins(t) \/ TuneCycled(t)
        \/ TuneLit(t) \/ TuneAcquires(t) \/ PollLocks(t) \/ RecordTune(t)
        \/ PollGivesUp(t)
    BY <2>1 DEF TakeLock, Release, TuneBegins, TuneCycled, TuneLit,
      TuneAcquires, PollLocks, RecordTune, PollGivesUp
  <2>2. CASE TuneRf(t)
    BY <2>2 DEF TuneRf, AfterRf
  <2>3. CASE TuneCycles(t)
    BY <2>3 DEF TuneCycles, Mishap, Drive, SetVoltage, HalfSetVoltage
  <2>4. CASE TuneSupplies(t)
    BY <2>4 DEF TuneSupplies, Mishap, Drive, SetVoltage, HalfSetVoltage
  <2>5. CASE TuneSwitches(t)
    BY <2>5 DEF TuneSwitches, Drive, SetVoltage, HalfSetVoltage
  <2>6. CASE TuneTones(t)
    BY <2>6 DEF TuneTones, Mishap, Drive, SetVoltage, HalfSetVoltage
  <2>7. CASE CutTone(t)
    BY <2>7 DEF CutTone, Raced, Drive, SetVoltage, HalfSetVoltage
  <2>8. CASE CutVolts(t)
    BY <2>8 DEF CutVolts, Raced, Drive, SetVoltage, HalfSetVoltage
  <2>9. CASE CutDone(t)
    BY <2>9 DEF CutDone, Raced
  <2> QED
    BY <1>4, <2>1, <2>2, <2>3, <2>4, <2>5, <2>6, <2>7, <2>8, <2>9
    DEF ThreadStep, TuneStep, CutStep
<1>5. CASE World
  BY <1>5 DEF World, DataArrives, TimePasses, Unplug, Plug
<1>6. CASE UNCHANGED vars
  BY <1>6 DEF vars
<1> QED
  BY <1>1, <1>2, <1>3, <1>4, <1>5, <1>6 DEF Next

(* What a successful voltage write leaves.                                 *)
LEMMA VoltageSets ==
  ASSUME NEW v, SetVoltage(v)
  PROVE  /\ power' = (v # 0)
         /\ high' = (v = 18)
         /\ tone' = tone
         /\ v # 0 => switch' = switch
BY Zenon DEF SetVoltage, Drive

(* From the voltage write to the end of the LNB sequence the pins keep     *)
(* what the request asked for.                                             *)
LEMMA LitStep ==
  ASSUME IInv, [Next]_vars
  PROVE  Lit'
<1> USE DEF Base, TypeOK, ThreadsOK, Goto, Fail, CutsUnlocked, InTune, TuneBody,
      Cutting, Thread, threadVars, engineVars, dishVars, history, IInv,
      Roles
<1>1. CASE Calls
  BY <1>1 DEF Calls, SkipTune, Lit, Supplied, CallTune, CallLnbOff, CallClose
<1>2. CASE Closing
  BY <1>2 DEF Closing, JoinStream, Lit, Supplied, CloseDevice, ProcessExit
<1>3. CASE Monitoring
  BY <1>3 DEF Monitoring, MonitorWakes, Lit, Supplied, MonitorEnds, MonitorWaits,
    MonitorReacquires
<1>4. ASSUME NEW t \in Thread, ThreadStep(t) PROVE Lit'
  <2>1. CASE TakeLock(t)
    BY <2>1 DEF TakeLock, Lit, Supplied
  <2>2. CASE Release(t)
    BY <2>2 DEF Release, Lit, Supplied
  <2>3. CASE TuneBegins(t)
    BY <2>3 DEF TuneBegins, Lit, Supplied, Owned, Holds
  <2>4. CASE TuneRf(t)
    BY <2>4 DEF TuneRf, AfterRf, Lit, Supplied, Owned, Holds
  <2>5. CASE TuneCycles(t)
    BY <2>5 DEF TuneCycles, Mishap, Drive, SetVoltage, HalfSetVoltage, Lit,
      Supplied, Owned, Holds
  <2>6. CASE TuneCycled(t)
    BY <2>6 DEF TuneCycled, Lit, Supplied, Owned, Holds
  <2>7. CASE TuneSupplies(t)
    <3>1. \A s \in Thread : s # t => pc'[s] \notin {"lit", "diseqc", "tone"}
      BY <2>7 DEF TuneSupplies, Owned, Holds
    <3>2. CASE SetVoltage(job[t].volts) /\ pc' = [pc EXCEPT ![t] = "lit"]
      <4>1. job'[t].volts # 0 /\ pc'[t] = "lit"
        BY <2>7, <3>2 DEF TuneSupplies, Wanted
      <4>2. power' /\ high' = (job'[t].volts = 18)
        BY <2>7, <3>2, <4>1, VoltageSets, Zenon DEF TuneSupplies
      <4> QED
        BY <3>1, <4>1, <4>2 DEF Lit, Supplied
    <3>3. CASE pc' = [pc EXCEPT ![t] = "release"]
      BY <2>7, <3>1, <3>3 DEF TuneSupplies, Lit
    <3> QED
      BY <2>7, <3>2, <3>3 DEF TuneSupplies
  <2>8. CASE TuneLit(t)
    BY <2>8 DEF TuneLit, Lit, Supplied, Owned, Holds
  <2>9. CASE TuneSwitches(t)
    BY <2>9 DEF TuneSwitches, Drive, SetVoltage, HalfSetVoltage, Lit, Supplied,
      Owned, Holds
  <2>10. CASE TuneTones(t)
    BY <2>10 DEF TuneTones, Mishap, Drive, SetVoltage, HalfSetVoltage, Lit,
      Supplied, Owned, Holds
  <2>11. CASE TuneAcquires(t)
    BY <2>11 DEF TuneAcquires, Lit, Supplied, Owned, Holds
  <2>12. CASE PollLocks(t)
    BY <2>12 DEF PollLocks, Lit, Supplied, Owned, Holds
  <2>13. CASE RecordTune(t)
    BY <2>13 DEF RecordTune, Lit, Supplied, Owned, Holds
  <2>14. CASE PollGivesUp(t)
    BY <2>14 DEF PollGivesUp, Lit, Supplied, Owned, Holds
  <2>15. CASE CutTone(t)
    BY <2>15 DEF CutTone, Raced, Drive, SetVoltage, HalfSetVoltage, Lit,
      Supplied, Owned, Holds
  <2>16. CASE CutVolts(t)
    BY <2>16 DEF CutVolts, Raced, Drive, SetVoltage, HalfSetVoltage, Lit,
      Supplied, Owned, Holds
  <2>17. CASE CutDone(t)
    BY <2>17 DEF CutDone, Raced, Lit, Supplied, Owned, Holds
  <2> QED
    BY <1>4, <2>1, <2>2, <2>3, <2>4, <2>5, <2>6, <2>7, <2>8, <2>9, <2>10, <2>11,
       <2>12, <2>13, <2>14, <2>15, <2>16, <2>17
    DEF ThreadStep, TuneStep, CutStep
<1>5. CASE World
  BY <1>5 DEF World, DataArrives, Lit, Supplied, TimePasses, Unplug, Plug
<1>6. CASE UNCHANGED vars
  BY <1>6 DEF vars, Lit, Supplied
<1> QED
  BY <1>1, <1>2, <1>3, <1>4, <1>5, <1>6 DEF Next

(* A tune that reaches the acquisition has the dish set, whether it ran    *)
(* the LNB sequence or skipped it because the records agree.               *)
LEMMA PreparedStep ==
  ASSUME IInv, [Next]_vars
  PROVE  Prepared'
<1> USE DEF Base, TypeOK, ThreadsOK, Goto, Fail, CutsUnlocked, InTune, TuneBody,
      Cutting, Thread, threadVars, engineVars, dishVars, history, IInv,
      Roles
<1>1. CASE Calls
  BY <1>1 DEF Calls, SkipTune, Prepared, DishMatches, CallTune, CallLnbOff,
    CallClose
<1>2. CASE Closing
  BY <1>2 DEF Closing, JoinStream, Prepared, DishMatches, CloseDevice,
    ProcessExit
<1>3. CASE Monitoring
  BY <1>3 DEF Monitoring, MonitorWakes, Prepared, DishMatches, MonitorEnds,
    MonitorWaits, MonitorReacquires
<1>4. ASSUME NEW t \in Thread, ThreadStep(t) PROVE Prepared'
  <2>1. CASE TakeLock(t)
    BY <2>1 DEF TakeLock, Prepared, DishMatches
  <2>2. CASE Release(t)
    BY <2>2 DEF Release, Prepared, DishMatches
  <2>3. CASE TuneBegins(t)
    <3>1. \A s \in Thread : s # t => pc'[s] \notin {"acquire", "poll", "locked", "rf"}
      BY <2>3 DEF TuneBegins, Owned, Holds
    <3>2. SUFFICES ASSUME mishaps = {}, ~changed'[t]
                   PROVE  DishMatches(job[t])
      BY <2>3, <3>1 DEF TuneBegins, Prepared, DishMatches
    <3>3. ~LnbDiffers(job[t]) /\ enabled /\ tuned
      BY <2>3, <3>2 DEF TuneBegins, MustRelight
    <3>4. ~CutsUnlocked("cmd")
      BY <2>3, <3>2 DEF TuneBegins, CutAlone, Owned, Holds
    <3>5. DishMatches(recorded)
      BY <3>2, <3>3, <3>4 DEF TunedMeansDishSet
    <3> QED
      BY <3>3, <3>5 DEF LnbDiffers, DishMatches
  <2>4. CASE TuneRf(t)
    <3>1. \A s \in Thread : s # t => pc'[s] \notin {"acquire", "poll", "locked", "rf"}
      BY <2>4 DEF TuneRf, Owned, Holds
    <3>2. CASE pc' = [pc EXCEPT ![t] = AfterRf(t)]
      <4>1. SUFFICES ASSUME mishaps = {}, AfterRf(t) = "acquire"
                     PROVE  DishMatches(job[t])
        BY <2>4, <3>1, <3>2 DEF TuneRf, Prepared, DishMatches, AfterRf
      <4>2. CASE ~changed[t]
        BY <2>4, <4>1, <4>2 DEF TuneRf, Prepared
      <4>3. CASE changed[t]
        <5>1. job[t].volts = 0 /\ ~enabled
          BY <4>1, <4>3 DEF AfterRf, CutNeeded
        <5>2. \A s \in Thread : pc[s] # "lit"
          BY <2>4 DEF TuneRf, Owned, Holds
        <5> QED
          BY <4>1, <5>1, <5>2 DEF Flagged, DishMatches
      <4> QED
        BY <4>2, <4>3
    <3>3. CASE pc' = [pc EXCEPT ![t] = "release"]
      BY <2>4, <3>1, <3>3 DEF TuneRf, Prepared
    <3> QED
      BY <2>4, <3>2, <3>3 DEF TuneRf
  <2>5. CASE TuneCycles(t)
    BY <2>5 DEF TuneCycles, Mishap, Drive, SetVoltage, HalfSetVoltage,
      Prepared, DishMatches, Owned, Holds
  <2>6. CASE TuneCycled(t)
    BY <2>6 DEF TuneCycled, Prepared, DishMatches, Owned, Holds
  <2>7. CASE TuneSupplies(t)
    BY <2>7 DEF TuneSupplies, Mishap, Drive, SetVoltage, HalfSetVoltage,
      Prepared, DishMatches, Owned, Holds
  <2>8. CASE TuneLit(t)
    BY <2>8 DEF TuneLit, Prepared, DishMatches, Owned, Holds
  <2>9. CASE TuneSwitches(t)
    BY <2>9 DEF TuneSwitches, Drive, SetVoltage, HalfSetVoltage, Prepared,
      DishMatches, Owned, Holds
  <2>10. CASE TuneTones(t)
    BY <2>10 DEF TuneTones, Mishap, Drive, SetVoltage, HalfSetVoltage, Prepared,
      DishMatches, Owned, Holds, Lit, Supplied
  <2>11. CASE TuneAcquires(t)
    BY <2>11 DEF TuneAcquires, Prepared, DishMatches, Owned, Holds
  <2>12. CASE PollLocks(t)
    BY <2>12 DEF PollLocks, Prepared, DishMatches, Owned, Holds
  <2>13. CASE RecordTune(t)
    BY <2>13 DEF RecordTune, Prepared, DishMatches, Owned, Holds
  <2>14. CASE PollGivesUp(t)
    BY <2>14 DEF PollGivesUp, Prepared, DishMatches, Owned, Holds
  <2>15. CASE CutTone(t)
    BY <2>15 DEF CutTone, Raced, Drive, SetVoltage, HalfSetVoltage, Prepared,
      DishMatches, Owned, Holds
  <2>16. CASE CutVolts(t)
    BY <2>16 DEF CutVolts, Raced, Drive, SetVoltage, HalfSetVoltage, Prepared,
      DishMatches, Owned, Holds
  <2>17. CASE CutDone(t)
    BY <2>17 DEF CutDone, Raced, Prepared, DishMatches, Owned, Holds, Wanted,
      Dark
  <2> QED
    BY <1>4, <2>1, <2>2, <2>3, <2>4, <2>5, <2>6, <2>7, <2>8, <2>9, <2>10, <2>11,
       <2>12, <2>13, <2>14, <2>15, <2>16, <2>17
    DEF ThreadStep, TuneStep, CutStep
<1>5. CASE World
  BY <1>5 DEF World, DataArrives, Prepared, DishMatches, TimePasses, Unplug,
    Plug
<1>6. CASE UNCHANGED vars
  BY <1>6 DEF vars, Prepared, DishMatches
<1> QED
  BY <1>1, <1>2, <1>3, <1>4, <1>5, <1>6 DEF Next

(* A step that leaves the records and the dish alone leaves them agreeing. *)
LEMMA DishSetFrame ==
  ASSUME TunedMeansDishSet, mishaps \subseteq mishaps',
         UNCHANGED <<tuned, enabled, recorded, power, high, tone, switch>>,
         ~CutsUnlocked("cmd")
  PROVE  TunedMeansDishSet'
BY DEF TunedMeansDishSet, DishMatches

(* The records describe the dish whenever the engine believes them.        *)
LEMMA DishSetStep ==
  ASSUME IInv, [Next]_vars
  PROVE  TunedMeansDishSet'
<1> USE DEF IInv, Base
<1>1. CASE Calls
  <2>1. ~CutsUnlocked("cmd")
    BY <1>1 DEF Calls, SkipTune, CallTune, CallLnbOff, CallClose, Call,
      CutsUnlocked, Cutting
  <2> QED
    BY <1>1, <2>1, DishSetFrame, Zenon DEF Calls, SkipTune, CallTune, CallLnbOff,
      CallClose, engineVars, dishVars
<1>2. CASE Closing
  <2>1. ~CutsUnlocked("cmd")
    BY <1>2 DEF Closing, JoinStream, CloseDevice, ProcessExit, CutsUnlocked, Cutting
  <2> QED
    BY <1>2, <2>1, DishSetFrame, Zenon DEF Closing, JoinStream, CloseDevice,
      ProcessExit, engineVars, dishVars, history
<1>3. CASE Monitoring
  <2>1. UNCHANGED <<tuned, enabled, recorded, dishVars, mishaps, after>>
    BY <1>3, Zenon DEF Monitoring, MonitorWakes, MonitorEnds, MonitorWaits,
      MonitorReacquires, engineVars, history
  <2>2. pc'["cmd"] = pc["cmd"]
    BY <1>3 DEF Monitoring, MonitorWakes, MonitorEnds, MonitorWaits,
      MonitorReacquires, Goto, TypeOK, ThreadsOK, Thread
  <2> QED
    BY <2>1, <2>2 DEF TunedMeansDishSet, DishMatches, CutsUnlocked, dishVars
<1>4. ASSUME NEW t \in Thread, ThreadStep(t) PROVE TunedMeansDishSet'
  <2>1. CASE TakeLock(t)
    <3>1. CutsUnlocked("cmd") => CutsUnlocked("cmd")'
      BY <2>1 DEF TakeLock, Goto, CutsUnlocked, Cutting, TypeOK, ThreadsOK, Thread
    <3> QED
      BY <2>1, <3>1 DEF TakeLock, TunedMeansDishSet, DishMatches, dishVars
  <2>2. CASE Release(t)
    <3>1. CutsUnlocked("cmd") => CutsUnlocked("cmd")'
      BY <2>2 DEF Release, Goto, CutsUnlocked, Cutting, TypeOK, ThreadsOK, Thread
    <3> QED
      BY <2>2, <3>1 DEF Release, TunedMeansDishSet, DishMatches, dishVars, history
  <2>3. CASE TuneBegins(t)
    BY <2>3 DEF TuneBegins, TunedMeansDishSet
  <2>4. CASE TuneRf(t)
    BY <2>4 DEF TuneRf, Paused, InTune, TuneBody, TunedMeansDishSet,
      engineVars
  <2>5. CASE TuneCycles(t)
    BY <2>5 DEF TuneCycles, Paused, InTune, TuneBody, TunedMeansDishSet,
      engineVars
  <2>6. CASE TuneCycled(t)
    BY <2>6 DEF TuneCycled, Paused, InTune, TuneBody, TunedMeansDishSet,
      engineVars
  <2>7. CASE TuneSupplies(t)
    BY <2>7 DEF TuneSupplies, Paused, InTune, TuneBody, TunedMeansDishSet,
      engineVars
  <2>8. CASE TuneLit(t)
    BY <2>8 DEF TuneLit, Paused, InTune, TuneBody, TunedMeansDishSet,
      engineVars
  <2>9. CASE TuneSwitches(t)
    BY <2>9 DEF TuneSwitches, Paused, InTune, TuneBody, TunedMeansDishSet,
      engineVars
  <2>10. CASE TuneTones(t)
    BY <2>10 DEF TuneTones, Paused, InTune, TuneBody, TunedMeansDishSet,
      engineVars
  <2>11. CASE TuneAcquires(t)
    BY <2>11 DEF TuneAcquires, Paused, InTune, TuneBody, TunedMeansDishSet,
      engineVars
  <2>12. CASE PollLocks(t)
    BY <2>12 DEF PollLocks, Paused, InTune, TuneBody, TunedMeansDishSet,
      engineVars
  <2>13. CASE RecordTune(t)
    <3>1. recorded'.volts = job[t].volts /\ recorded'.tone = job[t].tone
          /\ recorded'.switch = job[t].switch
      BY <2>13 DEF RecordTune, Record, Known, InTune, TuneBody, TuneArgs, TypeOK,
        ThreadsOK
    <3>2. mishaps = {} => DishMatches(job[t])
      BY <2>13 DEF RecordTune, Prepared
    <3> QED
      BY <2>13, <3>1, <3>2 DEF RecordTune, DishMatches, TunedMeansDishSet, history,
        dishVars
  <2>14. CASE PollGivesUp(t)
    BY <2>14 DEF PollGivesUp, Paused, InTune, TuneBody, TunedMeansDishSet,
      engineVars
  <2>15. CASE CutTone(t)
    <3>1. CASE InTune(t)
      BY <2>15, <3>1 DEF CutTone, Paused, TunedMeansDishSet, engineVars
    <3>2. CASE ~InTune(t)
      <4>1. CutsUnlocked("cmd")'
        BY <2>15, <3>2 DEF CutTone, Goto, InTune, CutsUnlocked, Cutting, Roles, TypeOK,
          ThreadsOK, Thread
      <4> QED
        BY <4>1 DEF TunedMeansDishSet
    <3> QED
      BY <3>1, <3>2
  <2>16. CASE CutVolts(t)
    <3>1. CASE InTune(t)
      BY <2>16, <3>1 DEF CutVolts, Paused, TunedMeansDishSet, engineVars
    <3>2. CASE ~InTune(t)
      <4>1. CutsUnlocked("cmd")'
        BY <2>16, <3>2 DEF CutVolts, Goto, InTune, CutsUnlocked, Cutting, Roles, TypeOK,
          ThreadsOK, Thread
      <4> QED
        BY <4>1 DEF TunedMeansDishSet
    <3> QED
      BY <3>1, <3>2
  <2>17. CASE CutDone(t)
    <3>1. CASE InTune(t)
      BY <2>17, <3>1 DEF CutDone, Paused, TunedMeansDishSet
    <3>2. mishaps = {} => ~power
      BY <2>17 DEF CutDone, Dark
    <3> QED
      <4>1. CASE InTune(t)
        BY <3>1, <4>1
      <4>2. CASE ~InTune(t)
        <5>1. ~enabled' /\ UNCHANGED dishVars /\ mishaps \subseteq mishaps'
                /\ UNCHANGED recorded
          BY <2>17, Zenon DEF CutDone
        <5> QED
          BY <3>2, <5>1 DEF TunedMeansDishSet, DishMatches, dishVars
      <4> QED
        BY <4>1, <4>2
  <2> QED
    BY <1>4, <2>1, <2>2, <2>3, <2>4, <2>5, <2>6, <2>7, <2>8, <2>9, <2>10, <2>11,
       <2>12, <2>13, <2>14, <2>15, <2>16, <2>17
    DEF ThreadStep, TuneStep, CutStep
<1>5. CASE World
  <2>1. UNCHANGED <<pc, after, tuned, enabled, recorded, power, high, tone,
                    switch, mishaps>>
    BY <1>5, Zenon DEF World, DataArrives, TimePasses, Unplug, Plug, threadVars,
      engineVars, dishVars, history
  <2> QED
    BY <2>1 DEF TunedMeansDishSet, DishMatches, CutsUnlocked
<1>6. CASE UNCHANGED vars
  BY <1>6 DEF vars, threadVars, engineVars, dishVars, history, DishMatches,
    TunedMeansDishSet, CutsUnlocked
<1> QED
  BY <1>1, <1>2, <1>3, <1>4, <1>5, <1>6 DEF Next

-----------------------------------------------------------------------------
(* The initial states satisfy every part of the invariant.                 *)
LEMMA InitHolds ==
  ASSUME Init
  PROVE  IInv
<1>1. TypeOK
  <2>1. ThreadsOK
    BY DEF Init, ThreadsOK, Thread, Locations
  <2>2. EngineOK
    <3>1. age \in Ages
      BY DEF Init, Ages
    <3> QED
      BY <3>1, Zenon DEF Init, EngineOK
  <2>3. DishOK
    BY DEF Init, DishOK
  <2>4. HistoryOK /\ BoundsOK
    BY DEF Init, HistoryOK, BoundsOK
  <2>5. JobsOK
    BY DEF Init, JobsOK, InTune, TuneBody, Cutting, Thread
  <2> QED
    BY <2>1, <2>2, <2>3, <2>4, <2>5 DEF TypeOK
<1>2. Roles /\ Known /\ Owned /\ Paused /\ CutAlone
  BY DEF Init, Roles, Known, Owned, Paused, CutAlone, Holds, InTune, CutsUnlocked,
    TuneBody, Cutting, Thread
<1>3. Flagged /\ Dark /\ Wanted /\ Lit /\ Prepared
  BY DEF Init, Flagged, Dark, Wanted, Lit, Prepared, Cutting, Thread
<1>4. TunedMeansDishSet /\ Seen
  BY DEF Init, TunedMeansDishSet, Seen
<1> QED
  BY <1>1, <1>2, <1>3, <1>4 DEF IInv, Base

(* Every step keeps every part of the invariant.                           *)
LEMMA IInvStep ==
  ASSUME IInv, [Next]_vars
  PROVE  IInv'
<1>1. Base
  BY DEF IInv
<1>2. Base'
  BY <1>1, TypeStep, RolesStep, KnownStep, OwnedStep, PausedStep, CutAloneStep,
    Zenon DEF Base
<1> QED
  BY <1>2, FlaggedStep, DarkStep, WantedStep, LitStep, PreparedStep, DishSetStep,
    SeenStep, Zenon DEF IInv

(* The inductive invariant.                                                *)
LEMMA IInvHolds == Spec => []IInv
BY InitHolds, IInvStep, PTL DEF Spec

(* Every variable keeps its type, for any requests and any bounds.         *)
THEOREM TypeCorrect == Spec => []TypeOK
<1>1. IInv => TypeOK
  BY DEF IInv, Base
<1> QED
  BY <1>1, IInvHolds, PTL

(* g_tune_lock: the monitor and a TUNE never drive the receiver together,  *)
(* because a thread inside a tune owns the lock (Owned).                   *)
THEOREM TunesExclude == Spec => []TuneExclusive
<1>1. IInv => TuneExclusive
  BY DEF IInv, Base, Owned, Holds, TuneExclusive
<1> QED
  BY <1>1, IInvHolds, PTL

(* The dish has what is recorded whenever the engine believes it, whatever *)
(* transfers failed on the way, unless a mishap came between.              *)
THEOREM DishSet == Spec => []TunedMeansDishSet
<1>1. IInv => TunedMeansDishSet
  BY DEF IInv
<1> QED
  BY <1>1, IInvHolds, PTL

(* The daemon ends with the LNB dark, unless a mishap came between.        *)
THEOREM ExitsDark == Spec => []DarkAfterExit
<1>1. IInv => DarkAfterExit
  BY DEF IInv, Dark, DarkAfterExit
<1> QED
  BY <1>1, IInvHolds, PTL

(* The monitor takes a carrier that never left for gone in no execution.   *)
THEOREM CarrierSpared == Spec => MonitorSparesCarrier
<1>1. ASSUME IInv, [Next]_vars, tuned, ~tuned', lock = "mon"
      PROVE  ~steady
  <2>1. PICK t \in Thread : TuneBegins(t)
    <3>1. \/ \E t \in Thread : TuneBegins(t)
          \/ UNCHANGED tuned
          \/ tuned'
      BY <1>1, Zenon DEF Next, Calls, SkipTune, CallTune, CallLnbOff, CallClose,
        Closing, JoinStream, CloseDevice, ProcessExit, Monitoring, MonitorWakes,
        MonitorEnds, MonitorWaits, MonitorReacquires, ThreadStep, TakeLock,
        Release, TuneStep, TuneRf, TuneCycles, TuneCycled, TuneSupplies, TuneLit,
        TuneSwitches, TuneTones, TuneAcquires, PollLocks, RecordTune, PollGivesUp,
        CutStep,
        CutTone, CutVolts, CutDone, World, DataArrives, TimePasses, Unplug, Plug,
        vars, engineVars
    <3> QED
      BY <1>1, <3>1
  <2>2. t = "mon"
    BY <1>1, <2>1 DEF TuneBegins, IInv, Base, Owned, Holds
  <2> QED
    BY <1>1, <2>1, <2>2 DEF TuneBegins, IInv, Seen
<1>2. ASSUME IInv, [Next]_vars
      PROVE  [tuned /\ ~tuned' /\ lock = "mon" => ~steady]_vars
  BY <1>1, <1>2
<1> QED
  BY <1>2, IInvHolds, PTL DEF Spec, MonitorSparesCarrier
=============================================================================
