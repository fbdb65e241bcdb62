--------------------------- MODULE ReceiverTuning ---------------------------
(***************************************************************************)
(* The receiver side of src/engine/usb_dvbs2_engine.c: daemon_tune, the    *)
(* LNB power-down, the signal monitor thread and the engine calls that     *)
(* reach them (tune, lnb_off, close).                                      *)
(*                                                                         *)
(* Two threads act.  "cmd" is the daemon's command thread, which calls the *)
(* engine one call at a time; "mon" is daemon_signal_monitor, started by   *)
(* usb_dvbs2_engine_open and never joined.  g_tune_lock serialises their   *)
(* tunes; the LNB power-down of lnb_off and close does not take it.  Every *)
(* register write that reaches the LNB supply is a step of its own, so the *)
(* two threads interleave between them.                                    *)
(*                                                                         *)
(* Outside the program: the dish (supply pins, tone, switch, a supply that *)
(* latches off when the cable goes), the cable, and failed USB transfers.  *)
(***************************************************************************)
EXTENDS Integers, FiniteSets

CONSTANTS
  Requests,     (* the TUNE requests the command thread may make           *)
  CarrierRate,  (* the symbol rate a blind acquisition finds               *)
  None,         (* no request, no thread                                   *)
  MaxCommands,  (* bound on engine calls                                   *)
  MaxFaults,    (* bound on failed USB transfers                           *)
  MaxUnplugs    (* bound on the cable being pulled                         *)

(* volts is what the caller asked for: 0, 13 and 18 are supported, any     *)
(* other number is refused only by the voltage write itself.  rate 0 asks  *)
(* for a blind acquisition, switch 0 sends no DiSEqC message.              *)
TuneArgs == [freq : Nat, rate : Nat, volts : Nat, tone : BOOLEAN, switch : Nat]

ASSUME RequestsAssumption ==
  /\ Requests \subseteq TuneArgs
  /\ CarrierRate \in Nat \ {0}
  /\ None \notin TuneArgs
  /\ None \notin {"cmd", "mon"}

ASSUME BoundsAssumption ==
  /\ MaxCommands \in Nat
  /\ MaxFaults \in Nat
  /\ MaxUnplugs \in Nat

VARIABLES
  pc,        (* where each thread is                                       *)
  job,       (* the arguments of the daemon_tune each thread runs          *)
  relit,     (* the local "relight" of that daemon_tune                    *)
  changed,   (* its local "lnb_changed"                                    *)
  after,     (* where lnb_power_down returns to                            *)
  lock,      (* owner of g_tune_lock                                       *)
  tuned,     (* g_tuned                                                    *)
  enabled,   (* g_lnb_enabled                                              *)
  relight,   (* g_lnb_relight                                              *)
  recorded,  (* g_freq_khz, g_sr_ksps, g_lnb_v .. g_repeat; None: freq 0   *)
  quit,      (* g_quit                                                     *)
  age,       (* now - g_stream_data_tick, see Ages                         *)
  usb,       (* is g_usb still open                                        *)
  joined,    (* close's stream_stopped                                     *)
  rf,        (* what the tuner and the demodulator were last set to        *)
  power,     (* the LNB enable pin (AVL GPIO37)                            *)
  high,      (* the 13/18 V select pin (GPIO38)                            *)
  tone,      (* the 22 kHz tone                                            *)
  switch,    (* the last DiSEqC port sent since the power came up          *)
  latched,   (* the board's supply has latched off                         *)
  cable,     (* is the antenna cable plugged in                            *)
  steady,    (* the demodulator has held lock since daemon_tune saw it     *)
  stopped,   (* history: the last call was lnb_off                         *)
  mishaps,   (* history: what the code overlooks and cannot repair itself  *)
  commands, faults, unplugs

threadVars == <<pc, job, relit, changed, after>>
engineVars == <<lock, tuned, enabled, relight, recorded, quit, age, usb,
                joined>>
dishVars   == <<rf, power, high, tone, switch, latched, cable, steady>>
history    == <<stopped, mishaps>>
bounds     == <<commands, faults, unplugs>>
vars == <<threadVars, engineVars, dishVars, history, bounds>>

-----------------------------------------------------------------------------
Thread == {"cmd", "mon"}

(* Idle times the code tells apart: 0 is under 3 s, 1 under 5 s, 2 under   *)
(* 8 s, 3 is more.                                                         *)
Ages == 0..3

(* The locations of daemon_tune that run before the recorded parameters    *)
(* and g_tuned are written, lnb_power_down called from it excepted.        *)
TuneBody == {"rf", "cycle", "cycled", "supply", "lit", "diseqc", "tone",
             "acquire", "poll", "locked"}
Cutting == {"cutTone", "cutVolts", "cutDone"}
Locations == {"idle", "sleep", "lock", "ask", "begin", "release",
              "join", "camd", "closed", "exited"} \cup TuneBody \cup Cutting

Mishaps == {"tone_lost", "cut_lost", "half_lit", "raced"}

(* lnb_power_down run by lnb_off or close, which do not hold g_tune_lock.  *)
CutsUnlocked(t) == pc[t] \in Cutting /\ after[t] # "acquire"
InTune(t) == pc[t] \in TuneBody \/ (pc[t] \in Cutting /\ after[t] = "acquire")

ThreadsOK ==
  /\ pc \in [Thread -> Locations]
  /\ job \in [Thread -> TuneArgs \cup {None}]
  /\ relit \in [Thread -> BOOLEAN]
  /\ changed \in [Thread -> BOOLEAN]
  /\ after \in [Thread -> {"idle", "acquire", "camd"}]

EngineOK ==
  /\ lock \in Thread \cup {None}
  /\ tuned \in BOOLEAN /\ enabled \in BOOLEAN /\ relight \in BOOLEAN
  /\ quit \in BOOLEAN /\ usb \in BOOLEAN /\ joined \in BOOLEAN
  /\ recorded \in TuneArgs \cup {None}
  /\ age \in Ages

DishOK ==
  /\ rf \in TuneArgs \cup {None}
  /\ power \in BOOLEAN /\ high \in BOOLEAN /\ tone \in BOOLEAN
  /\ latched \in BOOLEAN /\ cable \in BOOLEAN /\ steady \in BOOLEAN
  /\ switch \in Nat

HistoryOK ==
  /\ stopped \in BOOLEAN
  /\ mishaps \subseteq Mishaps

BoundsOK == commands \in Nat /\ faults \in Nat /\ unplugs \in Nat

(* A tune, whoever runs it, has its arguments: the monitor's come from the *)
(* records, which are empty until a tune reached its end.                  *)
JobsOK ==
  /\ \A t \in Thread : pc[t] = "begin" \/ InTune(t) => job[t] # None
  /\ pc["cmd"] = "lock" => job["cmd"] # None

TypeOK ==
  ThreadsOK /\ EngineOK /\ DishOK /\ HistoryOK /\ BoundsOK /\ JobsOK

Init ==
  /\ pc = [t \in Thread |-> IF t = "cmd" THEN "idle" ELSE "sleep"]
  /\ job = [t \in Thread |-> None]
  /\ relit = [t \in Thread |-> FALSE]
  /\ changed = [t \in Thread |-> FALSE]
  /\ after = [t \in Thread |-> "idle"]
  /\ lock = None
  /\ tuned = FALSE /\ enabled = FALSE /\ relight = FALSE
  /\ recorded = None
  /\ quit = FALSE /\ age = 0 /\ usb = TRUE /\ joined = FALSE
  /\ rf = None
  /\ power = FALSE /\ high = FALSE /\ tone = FALSE /\ switch = 0
  /\ latched = FALSE /\ cable = TRUE /\ steady = FALSE
  /\ stopped = FALSE /\ mishaps = {}
  /\ commands = 0 /\ faults = 0 /\ unplugs = 0

-----------------------------------------------------------------------------
Goto(t, l) == pc' = [pc EXCEPT ![t] = l]

(* A USB control transfer that fails.                                      *)
Fault == faults < MaxFaults /\ faults' = faults + 1
Works == UNCHANGED faults
Mishap(m) == mishaps' = mishaps \cup {m}

(* What the demodulator can be locked to: the cable in, and an LNB that is *)
(* fed, by this receiver or, for a request of 0 volts, by another one.     *)
Fed(r, p, l) == r.volts = 0 \/ (p /\ ~l)
Receivable == rf # None /\ cable /\ Fed(rf, power, latched)

(* The board takes the supply pins p and h, the tone n and the port s.     *)
(* Losing power releases a latched supply, and the switch forgets its port.*)
Drive(p, h, n, s) ==
  LET l == p /\ (latched \/ ~cable) IN
  /\ power' = p /\ high' = h /\ tone' = n
  /\ switch' = (IF p THEN s ELSE 0)
  /\ latched' = l
  /\ steady' = (steady /\ rf # None /\ Fed(rf, p, l))
  /\ UNCHANGED <<rf, cable>>

Supported(volts) == volts \in {0, 13, 18}

(* avl62x1_set_lnb_voltage writes the enable pin, then the select pin; a   *)
(* failure of the second leaves the first.                                 *)
SetVoltage(volts) == Drive(volts # 0, volts = 18, tone, switch)
HalfSetVoltage(volts) == Drive(volts # 0, high, tone, switch)

-----------------------------------------------------------------------------
(* usb_dvbs2_engine_tune: a request that is already streaming is skipped,  *)
(* looking at the records, g_tuned and the data tick without the lock.     *)
Streaming(r) == recorded = r /\ tuned /\ age = 0

Call == pc["cmd"] = "idle" /\ commands < MaxCommands /\ commands' = commands + 1

SkipTune(r) ==
  /\ Call
  /\ Streaming(r)
  /\ stopped' = FALSE
  /\ UNCHANGED <<threadVars, engineVars, dishVars, mishaps, faults, unplugs>>

CallTune(r) ==
  /\ Call
  /\ ~Streaming(r)
  /\ job' = [job EXCEPT !["cmd"] = r]
  /\ Goto("cmd", "lock")
  /\ stopped' = FALSE
  /\ UNCHANGED <<relit, changed, after, engineVars, dishVars, mishaps, faults,
                 unplugs>>

(* lnb_power_down does nothing unless g_lnb_enabled.                       *)
CutIfTuned == tuned
CutNeeded == enabled

(* usb_dvbs2_engine_lnb_off, called for STOP and when the control client   *)
(* disconnects.                                                            *)
CallLnbOff ==
  /\ Call
  /\ IF CutNeeded
     THEN /\ Goto("cmd", "cutTone")
          /\ after' = [after EXCEPT !["cmd"] = "idle"]
          /\ stopped' = FALSE
          /\ mishaps' = mishaps \cup (IF lock = None THEN {} ELSE {"raced"})
     ELSE /\ stopped' = TRUE
          /\ UNCHANGED <<pc, after, mishaps>>
  /\ UNCHANGED <<job, relit, changed, engineVars, dishVars, faults, unplugs>>

(* usb_dvbs2_engine_close: g_quit, then up to 8 s for the stream thread.   *)
CallClose ==
  /\ Call
  /\ quit' = TRUE
  /\ Goto("cmd", "join")
  /\ stopped' = FALSE
  /\ UNCHANGED <<job, relit, changed, after, lock, tuned, enabled, relight,
                 recorded, age, usb, joined, dishVars, mishaps, faults,
                 unplugs>>

(* The stream thread came back in time or did not; then lnb_power_down.    *)
JoinStream ==
  /\ pc["cmd"] = "join"
  /\ joined' \in BOOLEAN
  /\ after' = [after EXCEPT !["cmd"] = IF CutNeeded THEN "camd" ELSE "idle"]
  /\ Goto("cmd", IF CutNeeded THEN "cutTone" ELSE "camd")
  /\ mishaps' = mishaps \cup (IF lock = None THEN {} ELSE {"raced"})
  /\ UNCHANGED <<job, relit, changed, lock, tuned, enabled, relight, recorded,
                 quit, age, usb, dishVars, stopped, bounds>>

(* The card client is joined, then the device is closed if the stream      *)
(* thread no longer reads it.  The monitor is not waited for.              *)
CloseDevice ==
  /\ pc["cmd"] = "camd"
  /\ usb' = ~joined
  /\ Goto("cmd", "closed")
  /\ UNCHANGED <<job, relit, changed, after, lock, tuned, enabled, relight,
                 recorded, quit, age, joined, dishVars, history, bounds>>

(* main returns: the process and with it the monitor are gone.             *)
ProcessExit ==
  /\ pc["cmd"] = "closed"
  /\ pc' = [t \in Thread |-> "exited"]
  /\ UNCHANGED <<job, relit, changed, after, engineVars, dishVars, history,
                 bounds>>

-----------------------------------------------------------------------------
(* daemon_signal_monitor, once a second.                                   *)
Overdue == age >= (IF tuned THEN 3 ELSE 2)

(* Without a frequency (g_freq_khz = 0) there is nothing to re-acquire.    *)
AnyFrequency == TRUE
FrequencyKnown == recorded # None

MonitorWakes ==
  /\ pc["mon"] = "sleep" /\ ~quit
  /\ FrequencyKnown
  /\ Overdue
  /\ Goto("mon", "lock")
  /\ UNCHANGED <<job, relit, changed, after, engineVars, dishVars, history,
                 bounds>>

MonitorEnds ==
  /\ pc["mon"] = "sleep" /\ quit
  /\ Goto("mon", "exited")
  /\ UNCHANGED <<job, relit, changed, after, engineVars, dishVars, history,
                 bounds>>

LockIgnored == TRUE
LockFree == lock = None

TakeLock(t) ==
  /\ pc[t] = "lock"
  /\ LockFree
  /\ lock' = t
  /\ Goto(t, IF t = "mon" THEN "ask" ELSE "begin")
  /\ mishaps' = mishaps \cup
       (IF CutsUnlocked("cmd") \/ pc["cmd"] \in {"camd", "closed"}
        THEN {"raced"} ELSE {})
  /\ UNCHANGED <<job, relit, changed, after, tuned, enabled, relight, recorded,
                 quit, age, usb, joined, dishVars, stopped, bounds>>

(* The demodulator answered "locked", or was tuned and could not be asked: *)
(* the stream is only starved, and is waited out.                          *)
MonitorWaits ==
  /\ pc["mon"] = "ask"
  /\ tuned
  /\ \/ Receivable /\ Works
     \/ Fault
  /\ Goto("mon", "release")
  /\ UNCHANGED <<job, relit, changed, after, engineVars, dishVars, history,
                 commands, unplugs>>

(* The carrier is gone: nothing was locked, or the demodulator said so.    *)
StarvedMeansGone == TRUE
CarrierGone == tuned => ~steady

MonitorReacquires ==
  /\ pc["mon"] = "ask"
  /\ CarrierGone
  /\ relight' = TRUE
  /\ job' = [job EXCEPT !["mon"] = recorded]
  /\ Goto("mon", "begin")
  /\ UNCHANGED <<relit, changed, after, lock, tuned, enabled, recorded, quit,
                 age, usb, joined, dishVars, history, bounds>>

(* Both callers set the data tick and give the lock back; the locals of    *)
(* daemon_tune are gone.                                                   *)
Release(t) ==
  /\ pc[t] = "release"
  /\ age' = 0
  /\ lock' = None
  /\ Goto(t, IF t = "mon" THEN "sleep" ELSE "idle")
  /\ job' = [job EXCEPT ![t] = None]
  /\ relit' = [relit EXCEPT ![t] = FALSE]
  /\ changed' = [changed EXCEPT ![t] = FALSE]
  /\ UNCHANGED <<after, tuned, enabled, relight, recorded,
                 quit, usb, joined, dishVars, history, bounds>>

-----------------------------------------------------------------------------
(* daemon_tune.  A tune that finds nothing locked, or is told to relight,  *)
(* cycles the supply and sends the whole LNB sequence again.               *)
LnbDiffers(r) ==
  \/ recorded = None
  \/ r.volts # recorded.volts
  \/ r.tone # recorded.tone
  \/ r.switch # recorded.switch

NeverRelight == FALSE
MustRelight == relight \/ ~tuned

TuneBegins(t) ==
  /\ pc[t] = "begin"
  /\ LET again == MustRelight IN
     /\ relit' = [relit EXCEPT ![t] = again]
     /\ changed' = [changed EXCEPT ![t] = LnbDiffers(job[t]) \/ ~enabled \/ again]
  /\ relight' = FALSE
  /\ tuned' = FALSE
  /\ Goto(t, "rf")
  /\ UNCHANGED <<job, after, lock, enabled, recorded, quit, age, usb, joined,
                 dishVars, history, bounds>>

(* Any return before the parameters are recorded.                          *)
Fail(t) == Goto(t, "release")

AfterRf(t) ==
  IF ~changed[t] THEN "acquire"
  ELSE IF job[t].volts # 0 THEN (IF relit[t] THEN "cycle" ELSE "supply")
  ELSE IF CutNeeded THEN "cutTone" ELSE "acquire"

(* rda5815m_tune: the old carrier is left either way.                      *)
TuneRf(t) ==
  /\ pc[t] = "rf"
  /\ steady' = FALSE
  /\ \/ /\ Works
        /\ rf' = job[t]
        /\ Goto(t, AfterRf(t))
        /\ after' = [after EXCEPT ![t] = IF AfterRf(t) = "cutTone" THEN "acquire" ELSE @]
     \/ /\ Fault
        /\ rf' = None
        /\ Fail(t)
        /\ UNCHANGED after
  /\ UNCHANGED <<job, relit, changed, engineVars, power, high, tone, switch,
                 latched, cable, history, commands, unplugs>>

(* The cold start of a relit tune: the supply off, 120 ms, the flag.       *)
TuneCycles(t) ==
  /\ pc[t] = "cycle"
  /\ \/ Works /\ SetVoltage(0) /\ UNCHANGED mishaps
     \/ Fault /\ UNCHANGED dishVars /\ Mishap("cut_lost")
     \/ Fault /\ HalfSetVoltage(0) /\ UNCHANGED mishaps
  /\ Goto(t, "cycled")
  /\ UNCHANGED <<job, relit, changed, after, engineVars, stopped,
                 commands, unplugs>>

TuneCycled(t) ==
  /\ pc[t] = "cycled"
  /\ enabled' = FALSE
  /\ Goto(t, "supply")
  /\ UNCHANGED <<job, relit, changed, after, lock, tuned, relight, recorded, quit,
                 age, usb, joined, dishVars, history, bounds>>

TuneSupplies(t) ==
  /\ pc[t] = "supply"
  /\ \/ /\ Supported(job[t].volts) /\ Works
        /\ SetVoltage(job[t].volts)
        /\ Goto(t, "lit")
        /\ UNCHANGED mishaps
     \/ /\ ~Supported(job[t].volts) /\ Works
        /\ Fail(t)
        /\ UNCHANGED <<dishVars, mishaps>>
     \/ /\ Fault
        /\ UNCHANGED <<dishVars, mishaps>>
        /\ Fail(t)
     \/ /\ Supported(job[t].volts) /\ Fault
        /\ HalfSetVoltage(job[t].volts)
        /\ Mishap("half_lit")
        /\ Fail(t)
  /\ UNCHANGED <<job, relit, changed, after, engineVars, stopped,
                 commands, unplugs>>

TuneLit(t) ==
  /\ pc[t] = "lit"
  /\ enabled' = TRUE
  /\ Goto(t, "diseqc")
  /\ UNCHANGED <<job, relit, changed, after, lock, tuned, relight, recorded, quit,
                 age, usb, joined, dishVars, history, bounds>>

(* send_diseqc_sequence: switch 0 sends nothing.                           *)
TuneSwitches(t) ==
  /\ pc[t] = "diseqc"
  /\ \/ /\ Works
        /\ IF job[t].switch = 0 THEN UNCHANGED dishVars
           ELSE Drive(power, high, tone, job[t].switch)
        /\ Goto(t, "tone")
     \/ /\ Fault
        /\ job[t].switch # 0
        /\ UNCHANGED dishVars
        /\ Fail(t)
  /\ UNCHANGED <<job, relit, changed, after, engineVars, history, commands,
                 unplugs>>

(* The result of the tone write is not looked at.                          *)
TuneTones(t) ==
  /\ pc[t] = "tone"
  /\ \/ Works /\ Drive(power, high, job[t].tone, switch) /\ UNCHANGED mishaps
     \/ Fault /\ UNCHANGED dishVars /\ Mishap("tone_lost")
  /\ Goto(t, "acquire")
  /\ UNCHANGED <<job, relit, changed, after, engineVars, stopped,
                 commands, unplugs>>

TuneAcquires(t) ==
  /\ pc[t] = "acquire"
  /\ \/ Works /\ Goto(t, "poll")
     \/ Fault /\ Fail(t)
  /\ UNCHANGED <<job, relit, changed, after, engineVars, dishVars, history,
                 commands, unplugs>>

(* What is recorded of a tune that reached the end: a blind acquisition    *)
(* that locked keeps the symbol rate it found, if a sample reported one.   *)
Record(r, locked) ==
  recorded' \in {r} \cup (IF locked /\ r.rate = 0
                         THEN {[r EXCEPT !.rate = CarrierRate]} ELSE {})

PollLocks(t) ==
  /\ pc[t] = "poll"
  /\ Receivable
  /\ steady' = TRUE
  /\ Goto(t, "locked")
  /\ UNCHANGED <<job, relit, changed, after, engineVars, rf, power, high, tone,
                 switch, latched, cable, history, bounds>>

RecordTune(t) ==
  /\ pc[t] = "locked"
  /\ Record(job[t], TRUE)
  /\ tuned' = TRUE
  /\ Goto(t, "release")
  /\ UNCHANGED <<job, relit, changed, after, lock, enabled, relight, quit, age,
                 usb, joined, dishVars, history, bounds>>

(* The polls ran out, g_quit was set or a status read failed.              *)
PollGivesUp(t) ==
  /\ pc[t] = "poll"
  /\ Record(job[t], FALSE)
  /\ Goto(t, "release")
  /\ UNCHANGED <<job, relit, changed, after, lock, tuned, enabled, relight, quit,
                 age, usb, joined, dishVars, history, bounds>>

-----------------------------------------------------------------------------
(* lnb_power_down, called by daemon_tune for 0 volts, by lnb_off and by    *)
(* close.  Neither write's result is looked at.                            *)
Raced(t) == IF CutsUnlocked(t) /\ lock # None THEN {"raced"} ELSE {}

CutTone(t) ==
  /\ pc[t] = "cutTone"
  /\ \/ /\ Works
        /\ Drive(power, high, FALSE, switch)
        /\ mishaps' = mishaps \cup Raced(t)
     \/ /\ Fault
        /\ UNCHANGED dishVars
        /\ mishaps' = mishaps \cup Raced(t) \cup {"tone_lost"}
  /\ Goto(t, "cutVolts")
  /\ UNCHANGED <<job, relit, changed, after, engineVars, stopped,
                 commands, unplugs>>

CutVolts(t) ==
  /\ pc[t] = "cutVolts"
  /\ \/ /\ Works
        /\ SetVoltage(0)
        /\ mishaps' = mishaps \cup Raced(t)
     \/ /\ Fault
        /\ UNCHANGED dishVars
        /\ mishaps' = mishaps \cup Raced(t) \cup {"cut_lost"}
     \/ /\ Fault
        /\ HalfSetVoltage(0)
        /\ mishaps' = mishaps \cup Raced(t)
  /\ Goto(t, "cutDone")
  /\ UNCHANGED <<job, relit, changed, after, engineVars, stopped,
                 commands, unplugs>>

CutDone(t) ==
  /\ pc[t] = "cutDone"
  /\ enabled' = FALSE
  /\ Goto(t, after[t])
  /\ after' = [after EXCEPT ![t] = "idle"]
  /\ stopped' = (stopped \/ after[t] = "idle")
  /\ mishaps' = mishaps \cup Raced(t)
  /\ UNCHANGED <<job, relit, changed, lock, tuned, relight, recorded, quit,
                 age, usb, joined, dishVars, bounds>>

-----------------------------------------------------------------------------
(* The world: bytes reach the stream thread, time passes without any, the  *)
(* cable goes and comes back.  A powered supply latches off with no cable. *)
DataArrives ==
  /\ tuned /\ ~quit
  /\ Receivable
  /\ age' = 0
  /\ UNCHANGED <<threadVars, lock, tuned, enabled, relight, recorded, quit, usb,
                 joined, dishVars, history, bounds>>

TimePasses ==
  /\ age < 3
  /\ age' = age + 1
  /\ UNCHANGED <<threadVars, lock, tuned, enabled, relight, recorded, quit, usb,
                 joined, dishVars, history, bounds>>

Unplug ==
  /\ cable /\ unplugs < MaxUnplugs
  /\ unplugs' = unplugs + 1
  /\ cable' = FALSE /\ latched' = power /\ steady' = FALSE
  /\ UNCHANGED <<threadVars, engineVars, rf, power, high, tone, switch, history,
                 commands, faults>>

Plug ==
  /\ ~cable
  /\ cable' = TRUE
  /\ UNCHANGED <<threadVars, engineVars, rf, power, high, tone, switch, latched,
                 steady, history, bounds>>

-----------------------------------------------------------------------------
TuneStep(t) ==
  \/ TuneBegins(t)
  \/ TuneRf(t)
  \/ TuneCycles(t)
  \/ TuneCycled(t)
  \/ TuneSupplies(t)
  \/ TuneLit(t)
  \/ TuneSwitches(t)
  \/ TuneTones(t)
  \/ TuneAcquires(t)
  \/ PollLocks(t)
  \/ RecordTune(t)
  \/ PollGivesUp(t)

CutStep(t) ==
  \/ CutTone(t)
  \/ CutVolts(t)
  \/ CutDone(t)

Calls ==
  \/ \E r \in Requests : SkipTune(r)
  \/ \E r \in Requests : CallTune(r)
  \/ CallLnbOff
  \/ CallClose

Closing ==
  \/ JoinStream
  \/ CloseDevice
  \/ ProcessExit

Monitoring ==
  \/ MonitorWakes
  \/ MonitorEnds
  \/ MonitorWaits
  \/ MonitorReacquires

ThreadStep(t) ==
  \/ TakeLock(t)
  \/ Release(t)
  \/ TuneStep(t)
  \/ CutStep(t)

World ==
  \/ DataArrives
  \/ TimePasses
  \/ Unplug
  \/ Plug

Next ==
  \/ Calls
  \/ Closing
  \/ Monitoring
  \/ \E t \in Thread : ThreadStep(t)
  \/ World

Spec == Init /\ [][Next]_vars

(* What the scheduler and the clock guarantee: a thread that can go on     *)
(* does, and time passes.  The command thread need never make another      *)
(* call.  The last conjunct is about the radio: an acquisition that keeps  *)
(* being tried on a carrier that is there locks in the end.                *)
Fairness ==
  /\ WF_vars(Closing \/ ThreadStep("cmd"))
  /\ WF_vars(Monitoring \/ ThreadStep("mon"))
  /\ WF_vars(TimePasses)
  /\ SF_vars(PollLocks("mon"))

FairSpec == Spec /\ Fairness

-----------------------------------------------------------------------------
DishMatches(r) ==
  IF r.volts = 0 THEN ~power
  ELSE /\ power
       /\ high = (r.volts = 18)
       /\ tone = r.tone
       /\ r.switch # 0 => switch = r.switch

(* g_tune_lock: the monitor and a TUNE never drive the receiver together.  *)
TuneExclusive == \A s, t \in Thread : InTune(s) /\ InTune(t) => s = t

(* "One set of parameters is recorded, and the dish really has them": a    *)
(* later tune leaves the LNB alone when the records already agree with its *)
(* request, so while g_tuned and g_lnb_enabled are set the pins, the tone  *)
(* and the switch must be what is recorded, whatever failed before.  Only  *)
(* an overlooked mishap may break it.                                      *)
TunedMeansDishSet ==
  tuned /\ mishaps = {} /\ (enabled \/ recorded.volts = 0) /\ ~CutsUnlocked("cmd")
    => DishMatches(recorded)

(* lnb_power_down's comment: every path that ends the daemon cuts the LNB  *)
(* power.  It holds unless one of the mishaps came between.                *)
DarkAfterExit == pc["cmd"] = "exited" /\ mishaps = {} => ~power

(* The monitor's comment: a busy host must not relight the LNB over a      *)
(* carrier that never left.                                                *)
MonitorSparesCarrier ==
  [][tuned /\ ~tuned' /\ lock = "mon" => ~steady]_vars

(* Nothing else would notice a cable plugged back in: while the engine     *)
(* runs, knows a carrier and the cable stays in, it is receiving again and *)
(* again, whatever failed before.                                          *)
Recovers ==
  []<>(quit \/ ~cable \/ recorded = None \/ (tuned /\ Receivable))

(* What the documentation says of the program, without the exceptions the  *)
(* properties above make.                                                  *)

(* README: STOP powers the LNB down; the header: the next tune brings it   *)
(* up again, so until then nothing else does.                              *)
StoppedStaysDark ==
  [][stopped /\ stopped' /\ ~power => ~power']_vars

(* close's comment: the device is closed only when nothing still reads it. *)
ClosedDeviceUnused == ~usb => pc["mon"] # "ask" /\ ~InTune("mon")
=============================================================================
