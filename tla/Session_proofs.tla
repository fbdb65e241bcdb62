--------------------------- MODULE Session_proofs ---------------------------
(***************************************************************************)
(* Proofs about Session, for any number of daemons, connections and status *)
(* threads.                                                                *)
(*                                                                         *)
(* IInv says of the process that a stop has to end: a start that is still  *)
(* under way may give g_daemon_proc another process, but only after the    *)
(* first is no more (Tracked), since terminate_stale_daemons leaves none   *)
(* alive before a new one is created (NoneAtSpawn) and a dead one never    *)
(* comes back (Started).                                                   *)
(*                                                                         *)
(* LInv is about the LNB: its monitor re-acquires only what was tuned to,  *)
(* and while the process lives (Woken); so the LNB is powered only under a *)
(* daemon that serves a client, or has a tune recorded for its monitor to  *)
(* light, or behind the kill or the race that the histories name           *)
(* (LitKnown).                                                             *)
(*                                                                         *)
(* RInv is the third invariant, for the readings: where the status thread *)
(* and the closing one can be (Places), and that what comes over the       *)
(* channel of the session was asked for since it began (Channels).         *)
(***************************************************************************)
EXTENDS Session, TLAPS

Working == {"join", "stop", "quit", "hangup", "wait"}

Typed ==
  /\ phase \in [Daemons -> Phases]
  /\ proc \in Daemons \union {0} /\ owed \subseteq Daemons

Started ==
  /\ proc # 0 => phase[proc] # "none"
  /\ \A d \in owed : phase[d] # "none"

NoneAtSpawn == starter = "spawn" => \A d \in Daemons : ~Living(d)

Tracked == closer \in Working => \A d \in owed : d = proc \/ ~Living(d)

IInv == Typed /\ Started /\ NoneAtSpawn /\ Tracked /\ NoneLeftBehind

(* What IInv is about, but for the two places of the client.               *)
core == <<phase, proc, owed>>

-----------------------------------------------------------------------------
(* Initially nothing is owed.                                              *)
LEMMA InitIInv == Init => IInv
<1> SUFFICES ASSUME Init PROVE IInv
  OBVIOUS
<1>1. Typed
  BY DEF Init, Typed, Phases
<1>2. Started /\ NoneAtSpawn /\ Tracked /\ NoneLeftBehind
  BY DEF Init, Started, NoneAtSpawn, Tracked, Working, NoneLeftBehind
<1> QED BY <1>1, <1>2 DEF IInv

(* A step that leaves the core and the place of both client threads.       *)
LEMMA QuietStep ==
  ASSUME IInv, UNCHANGED <<core, starter, closer>> PROVE IInv'
BY DEF IInv, core, Typed, Started, NoneAtSpawn, Tracked, NoneLeftBehind, Living,
       Working

(* A step of the start that leaves the core and is not about to create a   *)
(* process.                                                                *)
LEMMA StarterMoves ==
  ASSUME IInv, UNCHANGED <<core, closer>>, starter' # "spawn" PROVE IInv'
BY DEF IInv, core, Typed, Started, NoneAtSpawn, Tracked, NoneLeftBehind, Living,
       Working

(* A step of the stop from one of its waits to the next.                   *)
LEMMA CloserMoves ==
  ASSUME IInv, UNCHANGED <<core, starter>>, closer \in Working, closer' \in Working
  PROVE  IInv'
BY DEF IInv, core, Typed, Started, NoneAtSpawn, Tracked, NoneLeftBehind, Living,
       Working

(* What the death of some daemons does to the phases.                      *)
LEMMA DeathOf ==
  ASSUME Typed, NEW ds \in SUBSET Daemons, Ending(ds)
  PROVE  /\ phase' \in [Daemons -> Phases]
         /\ \A d \in Daemons :
              phase'[d] = IF d \in ds /\ Living(d) THEN "dead" ELSE phase[d]
         /\ \A d \in Daemons : (phase'[d] = "none") = (phase[d] = "none")
         /\ \A d \in Daemons :
              (phase'[d] \notin {"none", "dead"}) = (Living(d) /\ d \notin ds)
BY DEF Typed, Ending, Living, Phases

-----------------------------------------------------------------------------
(* The start.                                                              *)
LEMMA StepStart == ASSUME IInv, Start PROVE IInv'
<1>1. CASE Reuses \/ FindsNone \/ PollConnects \/ SessionBegins \/ SendsConfig \/ SpawnFails
  <2>1. UNCHANGED <<core, closer>> /\ starter' # "spawn"
    BY <1>1 DEF Reuses, FindsNone, PollConnects, SessionBegins, SendsConfig, SpawnFails,
                ConnectsTo, Writes, core, daemons, channel, receiver
  <2> QED BY <2>1, StarterMoves
<1>2. CASE KillsStale
  <2> USE DEF IInv
  <2>1. UNCHANGED <<proc, owed, closer>> /\ Ending(Daemons)
    BY <1>2 DEF KillsStale, Dying
  <2>2. \A d \in Daemons : ~(Living(d)')
    BY <2>1, DeathOf DEF Living
  <2>3. Typed' /\ Started'
    BY <2>1, DeathOf DEF Typed, Started
  <2>4. NoneAtSpawn' /\ Tracked' /\ NoneLeftBehind'
    BY <2>1, <2>2, <2>3 DEF NoneAtSpawn, Tracked, NoneLeftBehind, Typed
  <2> QED BY <2>3, <2>4
<1>3. CASE Spawns
  <2> USE DEF IInv
  <2>1. PICK d \in Daemons :
          phase[d] = "none" /\ phase' = [phase EXCEPT ![d] = "init"] /\ proc' = d
    BY <1>3 DEF Spawns
  <2>2. starter = "spawn" /\ starter' = "poll" /\ UNCHANGED <<closer, owed>>
    BY <1>3 DEF Spawns, receiver
  <2>3. d \notin owed /\ \A e \in Daemons : ~Living(e)
    BY <2>1, <2>2 DEF Started, NoneAtSpawn
  <2>4. Typed' /\ Started'
    BY <2>1, <2>2, <2>3 DEF Typed, Started, Phases
  <2>5. \A e \in owed : ~(Living(e)')
    BY <2>1, <2>2, <2>3 DEF Living, Typed
  <2>6. NoneAtSpawn' /\ Tracked' /\ NoneLeftBehind'
    BY <2>2, <2>5 DEF NoneAtSpawn, Tracked, NoneLeftBehind
  <2> QED BY <2>4, <2>6
<1>4. CASE StartFails
  <2> USE DEF IInv
  <2> DEFINE ds == IF proc = 0 THEN {} ELSE {proc}
  <2>1. /\ Dying(ds) /\ Ending(ds) /\ ds \in SUBSET Daemons
        /\ proc' = 0 /\ starter' = "idle" /\ UNCHANGED <<closer, owed>>
    BY <1>4 DEF StartFails, Dying, Typed
  <2>2. Typed' /\ Started' /\ NoneAtSpawn'
    BY <2>1, DeathOf DEF Typed, Started, NoneAtSpawn
  <2>3. \A d \in owed : d = proc \/ ~Living(d) => ~(Living(d)')
    BY <2>1, DeathOf, SizesAssumption DEF Living, Typed, Daemons
  <2>4. Tracked' /\ NoneLeftBehind'
    BY <2>1, <2>3 DEF Tracked, NoneLeftBehind
  <2> QED BY <2>2, <2>4
<1> QED BY <1>1, <1>2, <1>3, <1>4 DEF Start

-----------------------------------------------------------------------------
(* The stop.  What it owes is set when it begins, from the process there   *)
(* is at that moment.                                                      *)
LEMMA StepBegin ==
  ASSUME IInv, Closes \/ NothingToClose \/ Returns PROVE IInv'
<1> USE DEF IInv
<1>1. UNCHANGED <<phase, proc, starter>>
  BY DEF Closes, NothingToClose, Returns, starting, daemons
<1>2. owed' \subseteq {proc} \ {0}
  BY DEF Closes, NothingToClose, Returns
<1>3. Typed' /\ Started' /\ NoneAtSpawn'
  BY <1>1, <1>2 DEF Typed, Started, NoneAtSpawn, Living
<1>4. Tracked'
  BY <1>1, <1>2 DEF Tracked
<1>5. closer' = "done" => owed' = {}
  BY DEF Closes, NothingToClose, Returns, Needed
<1>6. NoneLeftBehind'
  BY <1>5 DEF NoneLeftBehind
<1> QED BY <1>3, <1>4, <1>6

(* The stop ends when the process has, or by killing it.                   *)
LEMMA StepClosed == ASSUME IInv, WaitsForExit \/ KillsDaemon PROVE IInv'
<1> USE DEF IInv
<1>1. closer = "wait" /\ closer' = "done" /\ proc' = 0 /\ UNCHANGED <<starter, owed>>
  BY DEF WaitsForExit, KillsDaemon, Closed, Dying, receiver
<1>2. \A d \in owed : d = proc \/ ~Living(d)
  BY <1>1 DEF Tracked, Working
<1>3. CASE WaitsForExit
  <2>1. phase' = phase /\ (proc # 0 => ~Living(proc))
    BY <1>3 DEF WaitsForExit, daemons, receiver, Living
  <2>2. \A d \in owed : ~Living(d)
    BY <1>2, <2>1, SizesAssumption DEF Typed, Daemons
  <2> QED BY <1>1, <2>1, <2>2
          DEF Typed, Started, NoneAtSpawn, Tracked, Working, NoneLeftBehind,
              Living
<1>4. CASE KillsDaemon
  <2>1. Dying({proc}) /\ Ending({proc}) /\ {proc} \in SUBSET Daemons
    BY <1>4 DEF KillsDaemon, Dying, Typed
  <2>2. Typed' /\ Started' /\ NoneAtSpawn'
    BY <1>1, <2>1, DeathOf DEF Typed, Started, NoneAtSpawn, Living
  <2>3. \A d \in owed : ~(Living(d)')
    BY <1>2, <2>1, DeathOf DEF Living, Typed
  <2>4. Tracked' /\ NoneLeftBehind'
    BY <1>1, <2>3 DEF Tracked, Working, NoneLeftBehind
  <2> QED BY <2>2, <2>4
<1> QED BY <1>3, <1>4

(* Every step of the closing thread.                                       *)
LEMMA StepClose ==
  ASSUME IInv, Closes \/ NothingToClose \/ CloseSteps PROVE IInv'
<1>1. CASE JoinsStatus \/ LeavesStatus \/ SendsStop \/ SendsQuit \/ HangsUp \/ NeverConnected
  <2>1. UNCHANGED <<core, starter>> /\ closer \in Working /\ closer' \in Working
    BY <1>1 DEF JoinsStatus, LeavesStatus, JoinEnds, SendsStop, SendsQuit, HangsUp,
                NeverConnected, core, Working, starting, daemons, receiver
  <2> QED BY <2>1, CloserMoves
<1> QED BY <1>1, StepBegin, StepClosed DEF CloseSteps

-----------------------------------------------------------------------------
(* The status threads, a command of the program and a poll of the signal.  *)
LEMMA StepQuiet ==
  ASSUME IInv,
         \/ SendsTune \/ Polls
         \/ \E t \in StatusThreads : StatusStep(t)
         \/ UNCHANGED vars
  PROVE  IInv'
<1>1. UNCHANGED <<core, starter, closer>>
  <2>1. CASE SendsTune \/ Polls \/ UNCHANGED vars
    BY <2>1 DEF SendsTune, Polls, vars, core, starting, daemons, receiver, outsideStatus
  <2>2. ASSUME NEW t \in StatusThreads, StatusStep(t)
        PROVE  UNCHANGED <<core, starter, closer>>
    <3>1. UNCHANGED outsideStatus
      BY <2>2 DEF StatusStep, StatusEnds, StatusWakes, StatusAsks, StatusBlocks,
                  StatusUnblocks, StatusFails, StatusReads, StatusGivesUp, StatusStores
    <3> QED BY <3>1 DEF outsideStatus, core, starting, daemons, receiver
  <2> QED BY <2>1, <2>2
<1> QED BY <1>1, QuietStep

(* A daemon's step from one phase to another: it only dies, or goes on     *)
(* alive, or it stays where it is.                                         *)
Turns(d, next) ==
  /\ Living(d) /\ next \in Phases \ {"none"}
  /\ phase' = [phase EXCEPT ![d] = next]

(* What every such step keeps.                                             *)
LEMMA TurnKeeps ==
  ASSUME IInv, NEW d \in Daemons, NEW next, Turns(d, next),
         UNCHANGED <<proc, owed, starter, closer>>
  PROVE  IInv'
<1> USE DEF IInv
<1>1. /\ phase' \in [Daemons -> Phases]
      /\ phase'[d] = next /\ \A e \in Daemons \ {d} : phase'[e] = phase[e]
  BY DEF Turns, Typed
<1>2. Living(d) /\ next # "none"
  BY DEF Turns
<1>3. Typed' /\ Started'
  BY <1>1, <1>2 DEF Typed, Started
<1>4. \A e \in Daemons : ~Living(e) => ~(Living(e)')
  BY <1>1, <1>2 DEF Living
<1>5. NoneAtSpawn' /\ Tracked' /\ NoneLeftBehind'
  BY <1>4 DEF NoneAtSpawn, Tracked, NoneLeftBehind, Typed
<1> QED BY <1>3, <1>5

-----------------------------------------------------------------------------
(* What a step of a daemon does to its phase, one handler at a time.       *)
LEMMA DaemonTurns ==
  ASSUME IInv, NEW d \in Daemons, DaemonStep(d)
  PROVE  phase' = phase \/ \E next \in Phases : Turns(d, next)
<1> USE DEF client, starting, receiver, daemons, HasLine, Phases, Become, Turns, Living
<1>1. CASE InitEnds(d) \/ InitFails(d) \/ Accepts(d) \/ HandlesTune(d) \/ TuneEnds(d)
  BY <1>1 DEF InitEnds, InitFails, Accepts, HandlesTune, TuneEnds
<1>2. CASE TuneLights(d) \/ HandlesStop(d) \/ HandlesStatus(d) \/ HandlesConfig(d)
           \/ MonitorDecides(d) \/ MonitorRelights(d)
  BY <1>2 DEF TuneLights, HandlesStop, HandlesStatus, HandlesConfig, MonitorDecides,
              MonitorRelights
<1>3. CASE HandlesQuit(d) \/ Interrupted(d) \/ ClientGone(d) \/ PowersDown(d)
  BY <1>3 DEF HandlesQuit, Interrupted, ClientGone, Disconnects, PowersDown
<1>4. CASE Leaves(d)
  <2>1. phase[d] = "closing" /\ Ending({d})
    BY <1>4 DEF Leaves
  <2>2. phase' = [phase EXCEPT ![d] = "dead"]
    BY <2>1 DEF IInv, Typed, Ending
  <2> QED BY <2>1, <2>2
<1>5. CASE CutsLine(d)
  BY <1>5 DEF CutsLine
<1> QED BY <1>1, <1>2, <1>3, <1>4, <1>5 DEF DaemonStep, Serves

LEMMA StepDaemon == ASSUME IInv, NEW d \in Daemons, DaemonStep(d) PROVE IInv'
<1>1. UNCHANGED <<proc, owed, starter, closer>>
  BY DEF DaemonStep, Serves, InitEnds, InitFails, CutsLine, Interrupted, Accepts, HandlesTune,
         TuneLights, TuneEnds, HandlesStop, HandlesStatus, HandlesConfig, HandlesQuit,
         ClientGone, PowersDown, Leaves, Disconnects, MonitorDecides, MonitorRelights, client,
         starting, receiver
<1>2. CASE phase' = phase
  BY <1>1, <1>2, QuietStep DEF core
<1>3. CASE \E next \in Phases : Turns(d, next)
  BY <1>1, <1>3, TurnKeeps
<1> QED BY <1>2, <1>3, DaemonTurns

(* Every step of the program and of the daemons keeps IInv.                *)
LEMMA StepIInv == IInv /\ [Next]_vars => IInv'
BY StepStart, StepClose, StepQuiet, StepDaemon DEF Next

-----------------------------------------------------------------------------
(* IInv holds in every state.                                              *)
THEOREM Inductive == Spec => []IInv
BY InitIInv, StepIInv, PTL DEF Spec

(* "leaving the daemon running": when usb_dvbs2_stop returns, the process  *)
(* it found is no more, whatever a start that was still waiting did to     *)
(* g_daemon_proc meanwhile.                                                *)
THEOREM NoneLeftBehindHolds == Spec => []NoneLeftBehind
<1>1. IInv => NoneLeftBehind
  BY DEF IInv
<1> QED BY Inductive, <1>1, PTL

-----------------------------------------------------------------------------
(* The LNB.                                                                *)
LightTyped ==
  /\ phase \in [Daemons -> Phases] /\ recorded \in [Daemons -> BOOLEAN]
  /\ monitor \in [Daemons -> {"asleep", "relighting"}]

Woken ==
  \A d \in Daemons :
    monitor[d] = "relighting" => recorded[d] /\ Reachable(d)

(* A daemon that may have the LNB lit.                                     *)
Lights(d) ==
  \/ phase[d] \in {"serving", "tuning"}
  \/ phase[d] \in {"listening", "leaving"} /\ recorded[d]

LitKnown == power => killedLit \/ raced \/ \E d \in Daemons : Lights(d)

LInv == LightTyped /\ Woken /\ LitKnown

(* What LInv is about.                                                     *)
light == <<phase, recorded, monitor, power, killedLit, raced>>

(* What an earlier program left fits.                                      *)
LEMMA InitLInv == Init => LInv
<1> SUFFICES ASSUME Init PROVE LInv
  OBVIOUS
<1>1. LightTyped /\ Woken
  <2>1. PICK tuned \in BOOLEAN : recorded = [d \in Daemons |-> d = 1 /\ tuned]
    BY DEF Init, LeftBehind
  <2>2. recorded \in [Daemons -> BOOLEAN]
    BY <2>1, Zenon
  <2> QED BY <2>2 DEF Init, LightTyped, Woken, Phases
<1>2. LitKnown
  BY DEF Init, LeftBehind, LitKnown, Lights
<1> QED BY <1>1, <1>2 DEF LInv

LEMMA LightStays == ASSUME LInv, UNCHANGED light PROVE LInv'
BY DEF light, LInv, LightTyped, Woken, Reachable, LitKnown, Lights

(* The death of some daemons, without a trace on the LNB but that          *)
(* killedLit tells, or of one that is closing.                             *)
LEMMA DeathKeepsLit ==
  ASSUME LInv, NEW ds \in SUBSET Daemons, Ending(ds),
         \/ Dying(ds)
         \/ UNCHANGED receiver /\ \A d \in ds : phase[d] = "closing"
  PROVE  LInv'
<1> USE DEF LInv
<1>1. /\ phase' \in [Daemons -> Phases] /\ recorded' \in [Daemons -> BOOLEAN]
      /\ monitor' \in [Daemons -> {"asleep", "relighting"}]
      /\ \A d \in Daemons \ ds :
           phase'[d] = phase[d] /\ recorded'[d] = recorded[d] /\ monitor'[d] = monitor[d]
      /\ \A d \in ds : monitor'[d] = "asleep"
  BY DEF LightTyped, Ending, Phases
<1>2. LightTyped' /\ Woken'
  BY <1>1 DEF LightTyped, Woken, Reachable
<1>3. ASSUME power', ~killedLit', ~raced' PROVE \E d \in Daemons : Lights(d)'
  <2>1. power /\ ~killedLit /\ ~raced
    <3>1. CASE Dying(ds)
      BY <1>3, <3>1 DEF Dying
    <3>2. CASE UNCHANGED receiver
      BY <1>3, <3>2 DEF receiver
    <3> QED BY <3>1, <3>2
  <2>2. PICK d \in Daemons : Lights(d)
    BY <2>1 DEF LitKnown
  <2>3. d \notin ds
    BY <1>3, <2>1, <2>2 DEF Dying, Lights, Living
  <2> QED BY <1>1, <2>2, <2>3 DEF Lights
<1> QED BY <1>2, <1>3 DEF LitKnown

(* The start and the stop touch the LNB by killing only.                   *)
LEMMA LightOfClient ==
  ASSUME LInv, Typed,
         Start \/ Closes \/ NothingToClose \/ CloseSteps \/ SendsTune \/ Polls
         \/ (\E t \in StatusThreads : StatusStep(t)) \/ UNCHANGED vars
  PROVE  LInv'
<1>1. CASE KillsStale
  BY <1>1, DeathKeepsLit DEF KillsStale, Dying
<1>2. CASE StartFails \/ KillsDaemon
  <2> DEFINE ds == IF proc = 0 THEN {} ELSE {proc}
  <2>1. Dying(ds) /\ ds \in SUBSET Daemons
    BY <1>2 DEF StartFails, KillsDaemon, Typed
  <2> QED BY <2>1, DeathKeepsLit DEF Dying
<1>3. CASE Spawns
  <2>1. PICK d \in Daemons : phase[d] = "none" /\ phase' = [phase EXCEPT ![d] = "init"]
    BY <1>3 DEF Spawns
  <2>2. UNCHANGED <<recorded, monitor, power, killedLit, raced>>
    BY <1>3 DEF Spawns, receiver
  <2> QED BY <2>1, <2>2 DEF LInv, LightTyped, Woken, Reachable, LitKnown, Lights, Phases
<1>4. CASE \/ Reuses \/ FindsNone \/ SpawnFails \/ PollConnects \/ SessionBegins \/ SendsConfig
           \/ Closes \/ NothingToClose \/ Returns \/ JoinsStatus \/ LeavesStatus \/ SendsStop
           \/ SendsQuit \/ HangsUp \/ NeverConnected \/ WaitsForExit \/ SendsTune \/ Polls
           \/ UNCHANGED vars
  <2>1. UNCHANGED light
    BY <1>4 DEF Reuses, FindsNone, SpawnFails, PollConnects, ConnectsTo, SessionBegins,
                SendsConfig, Closes, NothingToClose, Returns, JoinsStatus, LeavesStatus,
                JoinEnds, SendsStop, SendsQuit, HangsUp, NeverConnected, WaitsForExit,
                SendsTune, Polls, outsideStatus, daemons, receiver, light, vars
  <2> QED BY <2>1, LightStays
<1>5. CASE \E t \in StatusThreads : StatusStep(t)
  <2>1. UNCHANGED outsideStatus
    BY <1>5 DEF StatusStep, StatusEnds, StatusWakes, StatusAsks, StatusBlocks,
                StatusUnblocks, StatusFails, StatusReads, StatusGivesUp, StatusStores
  <2> QED BY <2>1, LightStays DEF outsideStatus, daemons, receiver, light
<1> QED BY <1>1, <1>2, <1>3, <1>4, <1>5 DEF Start, CloseSteps

(* A daemon's step: it darkens the LNB, or it lights it where LitKnown     *)
(* knows of it, or it leaves it alone and may still have it lit after.     *)
LEMMA LightOfDaemon == ASSUME LInv, NEW d \in Daemons, DaemonStep(d) PROVE LInv'
<1> USE DEF LInv, LightTyped, Woken, Reachable, Phases, Become, client, daemons, receiver
<1>1. CASE InitEnds(d)
  BY <1>1 DEF InitEnds, LitKnown
<1>2. CASE InitFails(d) \/ Accepts(d) \/ HandlesTune(d)
  <2>1. /\ UNCHANGED <<recorded, monitor, power, killedLit, raced>>
        /\ monitor[d] = "relighting" => Reachable(d)
        /\ \E next \in {"dead", "serving", "tuning"} :
             /\ phase' = [phase EXCEPT ![d] = next]
             /\ next = "dead" => phase[d] = "init"
    BY <1>2 DEF InitFails, Accepts, HandlesTune, HasLine
  <2>2. LightTyped' /\ Woken'
    BY <2>1
  <2>3. LitKnown'
    BY <2>1 DEF LitKnown, Lights
  <2> QED BY <2>2, <2>3
<1>3. CASE TuneLights(d)
  BY <1>3 DEF TuneLights, LitKnown, Lights
<1>4. CASE TuneEnds(d)
  <2>1. /\ recorded' \in [Daemons -> BOOLEAN] /\ recorded'[d] \in {recorded[d], TRUE}
        /\ \A e \in Daemons \ {d} : recorded'[e] = recorded[e]
        /\ phase' = [phase EXCEPT ![d] = "serving"] /\ phase[d] = "tuning"
        /\ UNCHANGED <<monitor, power, killedLit, raced>>
    BY <1>4 DEF TuneEnds
  <2>2. LightTyped' /\ Woken'
    BY <2>1
  <2>3. LitKnown'
    BY <2>1 DEF LitKnown, Lights
  <2> QED BY <2>2, <2>3
<1>5. CASE HandlesStop(d) \/ HandlesStatus(d) \/ HandlesConfig(d)
  <2>1. UNCHANGED <<phase, recorded, monitor, killedLit, raced>> /\ (power' => power)
    BY <1>5 DEF HandlesStop, HandlesStatus, HandlesConfig
  <2> QED BY <2>1 DEF LitKnown, Lights
<1>6. CASE HandlesQuit(d) \/ Interrupted(d) \/ ClientGone(d) \/ PowersDown(d)
  <2>1. \E next \in {"listening", "leaving", "closing"} : phase' = [phase EXCEPT ![d] = next]
    BY <1>6 DEF HandlesQuit, Interrupted, ClientGone, Disconnects, PowersDown
  <2>2. UNCHANGED <<recorded, monitor>> /\ power' = FALSE
    BY <1>6 DEF HandlesQuit, Interrupted, ClientGone, Disconnects, PowersDown, PowerAfter
  <2> QED BY <2>1, <2>2 DEF LitKnown
<1>7. CASE Leaves(d)
  BY <1>7, DeathKeepsLit DEF Leaves
<1>8. CASE CutsLine(d)
  <2>1. /\ UNCHANGED <<recorded, monitor, power, killedLit, raced>>
        /\ phase' = phase \/ (phase' = [phase EXCEPT ![d] = "tuning"])
    BY <1>8 DEF CutsLine
  <2> QED BY <2>1 DEF LitKnown, Lights
<1>9. CASE MonitorDecides(d)
  BY <1>9 DEF MonitorDecides, LitKnown, Lights
<1>10. CASE MonitorRelights(d)
  <2>1. /\ UNCHANGED <<phase, recorded, killedLit>> /\ recorded[d] /\ Reachable(d)
        /\ monitor' = [monitor EXCEPT ![d] = "asleep"]
        /\ raced' = (raced \/ (power' /\ phase[d] = "closing"))
    BY <1>10 DEF MonitorRelights
  <2>2. CASE phase[d] = "closing"
    BY <1>10, <2>1, <2>2 DEF MonitorRelights, LitKnown
  <2>3. CASE phase[d] # "closing"
    BY <2>1, <2>3 DEF LitKnown, Lights
  <2> QED BY <2>2, <2>3
<1> QED BY <1>1, <1>2, <1>3, <1>4, <1>5, <1>6, <1>7, <1>8, <1>9, <1>10
        DEF DaemonStep, Serves

LEMMA StepLInv == Typed /\ LInv /\ [Next]_vars => LInv'
BY LightOfClient, LightOfDaemon DEF Next

(* "Sending both stops the receiver": once the daemons have come to rest   *)
(* the LNB is without power, unless one was killed while it was lit, its   *)
(* monitor lit it behind engine_close, or a daemon that lost its QUIT      *)
(* listens with a tune recorded, which its monitor lights again.           *)
THEOREM DarkAfterShutdownHolds == Spec => []DarkAfterShutdown
<1>1. LInv => DarkAfterShutdown
  BY DEF LInv, LitKnown, Lights, DarkAfterShutdown, Rests, Idle, Living
<1>2. IInv => Typed
  BY DEF IInv
<1> QED BY Inductive, <1>2, InitLInv, StepLInv, <1>1, PTL DEF Spec

-----------------------------------------------------------------------------
(* Readings.  A reading is of this session because a session begins with   *)
(* no status thread, no fresh reading and a connection that nothing was    *)
(* asked on (Places), and everything on that connection was asked after it *)
(* began (Channels).  Both hold until a shutdown comes during a start, or  *)
(* leaves a blocked status thread behind.                                  *)
Commands == [cmd : CommandsSent, n : Nat]
ThreadPlaces == {"off", "asleep", "asking", "blocked", "waiting", "holding"}

ReadingsTyped ==
  /\ pipe \in Connections \union {0} /\ handle \in StatusThreads \union {0}
  /\ thread \in [StatusThreads -> ThreadPlaces] /\ mine \in [StatusThreads -> Nat]
  /\ asked \in Nat /\ before \in Nat /\ before <= asked /\ latest \in Nat
  /\ end \in [Connections -> Daemons \union {0}]
  /\ wire \in [Connections -> Seq(Commands)] /\ replies \in [Connections -> Seq(Nat)]

Joined == {"stop", "quit", "hangup", "wait"}

Places ==
  /\ \A t \in StatusThreads : thread[t] # "off" => t = handle
  /\ closer \in Working => starter = "idle" /\ running
  /\ starter \in {"idle", "kill", "spawn"} /\ ~running => proc = 0
  /\ starter = "config" => running
  /\ starter \notin {"idle", "config"} => ~running
  /\ handle = 0 <=> (~running \/ closer \in Joined)
  /\ handle = 0 => ~fresh

(* Every question about the signal that a connection holds is numbered     *)
(* above n, every answer too.                                              *)
Above(w, r, n) ==
  /\ \A i \in 1..Len(w) : w[i].cmd = "STATUS" => w[i].n > n
  /\ \A i \in 1..Len(r) : r[i] > n
NotAsked(w, r) == (\A i \in 1..Len(w) : w[i].cmd # "STATUS") /\ r = <<>>

Channels ==
  /\ \A c \in Connections : end[c] = 0 => wire[c] = <<>> /\ replies[c] = <<>>
  /\ pipe # 0 => end[pipe] # 0
  /\ \A t \in StatusThreads :
       thread[t] = "blocked" => mine[t] \in Connections /\ end[mine[t]] # 0
  /\ starter = "connected" => pipe # 0 /\ NotAsked(wire[pipe], replies[pipe])
  /\ running =>
       /\ pipe # 0 => Above(wire[pipe], replies[pipe], before)
       /\ \A t \in StatusThreads : thread[t] = "holding" => mine[t] > before
       /\ fresh => latest > before

RInv == ~overlap => ReadingsTyped /\ Places /\ Channels

(* Initially no channel is open.                                           *)
LEMMA InitRInv == Init => RInv
<1> SUFFICES ASSUME Init PROVE RInv
  OBVIOUS
<1>1. ReadingsTyped
  BY DEF Init, ReadingsTyped, ThreadPlaces
<1>2. Places /\ Channels
  BY DEF Init, Places, Channels, Working, Joined
<1> QED BY <1>1, <1>2 DEF RInv

-----------------------------------------------------------------------------
(* Where everyone is, one action at a time.                                *)
LEMMA PlacesStart ==
  ASSUME ReadingsTyped, Places, ~overlap', Start PROVE Places'
<1>1. CASE Reuses \/ FindsNone \/ KillsStale \/ Spawns \/ SpawnFails \/ PollConnects
           \/ StartFails \/ SendsConfig
  <2>1. UNCHANGED <<closer, running, handle, thread, fresh>>
    BY <1>1 DEF Reuses, FindsNone, KillsStale, Spawns, SpawnFails, PollConnects, StartFails,
                SendsConfig, status
  <2>2. CASE Reuses \/ FindsNone
    BY <2>1, <2>2 DEF Reuses, FindsNone, Places
  <2>3. CASE KillsStale \/ Spawns \/ SpawnFails
    BY <2>1, <2>3 DEF KillsStale, Spawns, SpawnFails, Places
  <2>4. CASE PollConnects \/ StartFails \/ SendsConfig
    BY <2>1, <2>4 DEF PollConnects, StartFails, SendsConfig, Places
  <2> QED BY <1>1, <2>2, <2>3, <2>4
<1>2. CASE SessionBegins
  <2>1. starter = "connected" /\ starter' = "config" /\ ~running /\ running' = TRUE /\ handle = 0
    BY <1>2 DEF SessionBegins, Places
  <2>2. UNCHANGED <<closer, proc, fresh>> /\ closer \notin Working
    BY <1>2, <2>1 DEF SessionBegins, Places
  <2>3. PICK t \in StatusThreads : handle' = t /\ thread' = [thread EXCEPT ![t] = "asleep"]
    BY <1>2, <2>1 DEF SessionBegins
  <2>4. t # 0
    BY SizesAssumption
  <2>5. \A u \in StatusThreads : thread'[u] # "off" => u = t
    BY <2>1, <2>3, SizesAssumption DEF Places, ReadingsTyped
  <2> QED BY <2>1, <2>2, <2>3, <2>4, <2>5 DEF Places, Working, Joined
<1> QED BY <1>1, <1>2 DEF Start

LEMMA PlacesClose ==
  ASSUME ReadingsTyped, Places, ~overlap, ~overlap', Closes \/ NothingToClose \/ CloseSteps
  PROVE  Places'
<1>1. CASE Closes
  <2>1. starter = "idle" /\ running /\ handle # 0 /\ closer' = "join"
    BY <1>1 DEF Closes, Needed, Places, Joined
  <2>2. UNCHANGED <<starter, running, proc, handle, thread, fresh>>
    BY <1>1 DEF Closes, starting
  <2> QED BY <2>1, <2>2 DEF Places, Joined
<1>2. CASE NothingToClose \/ Returns
  BY <1>2 DEF NothingToClose, Returns, Places, Joined, Working, Needed, starting, status
<1>3. CASE JoinsStatus \/ LeavesStatus
  <2>1. JoinsStatus
    BY <1>3 DEF LeavesStatus
  <2>2. \A t \in StatusThreads : thread[t] = "off"
    BY <2>1 DEF JoinsStatus, Places
  <2> QED BY <2>1, <2>2
          DEF JoinsStatus, JoinEnds, FreshCleared, Places, Working, Joined, starting
<1>4. CASE SendsStop \/ SendsQuit \/ HangsUp \/ NeverConnected
  <2>1. UNCHANGED <<starter, running, proc, handle, thread, fresh>>
    BY <1>4 DEF SendsStop, SendsQuit, HangsUp, NeverConnected, starting, status
  <2>2. closer \in Joined /\ closer' \in Joined
    BY <1>4 DEF SendsStop, SendsQuit, HangsUp, NeverConnected, Joined
  <2> QED BY <2>1, <2>2 DEF Places, Working, Joined
<1>5. CASE WaitsForExit \/ KillsDaemon
  <2>1. closer = "wait" /\ closer' = "done" /\ proc' = 0 /\ running' = FALSE
        /\ UNCHANGED <<starter, handle, thread, fresh>>
    BY <1>5 DEF WaitsForExit, KillsDaemon, Closed, status
  <2> QED BY <2>1 DEF Places, Working, Joined
<1> QED BY <1>1, <1>2, <1>3, <1>4, <1>5 DEF CloseSteps

(* A status thread moves from a place it is at, and ends only from its     *)
(* sleep; it stores a reading only while it holds one.                     *)
LEMMA PlacesStatus ==
  ASSUME ReadingsTyped, Places, NEW t \in StatusThreads, StatusStep(t) PROVE Places'
<1>1. UNCHANGED <<starter, proc, closer, running, handle>>
  BY DEF StatusStep, StatusEnds, StatusWakes, StatusAsks, StatusBlocks, StatusUnblocks,
         StatusFails, StatusReads, StatusGivesUp, StatusStores, outsideStatus, starting
<1>2. thread[t] # "off" /\ \E p : Moves(t, p)
  BY DEF StatusStep, StatusEnds, StatusWakes, StatusAsks, StatusBlocks, StatusUnblocks,
         StatusFails, StatusReads, StatusGivesUp, StatusStores
<1>3. handle = t /\ t # 0
  BY <1>2, SizesAssumption DEF Places
<1>4. \A u \in StatusThreads : thread'[u] # "off" => u = handle
  BY <1>2, <1>3 DEF Moves, Places, ReadingsTyped
<1> QED BY <1>1, <1>3, <1>4 DEF Places

(* Nobody else goes anywhere.                                              *)
LEMMA PlacesOther ==
  ASSUME ReadingsTyped, Places,
         \/ SendsTune \/ Polls \/ UNCHANGED vars
         \/ \E d \in Daemons :
              DaemonStep(d)
  PROVE  Places'
<1>1. /\ UNCHANGED <<starter, proc, closer, running, handle, thread>>
      /\ fresh' => fresh
  <2>1. CASE SendsTune \/ Polls \/ UNCHANGED vars
    BY <2>1 DEF SendsTune, Polls, vars, starting, status, outsideStatus
  <2>2. ASSUME NEW d \in Daemons,
               DaemonStep(d)
        PROVE  UNCHANGED client
    BY <2>2 DEF DaemonStep, Serves, InitEnds, InitFails, CutsLine, Interrupted, Accepts,
                HandlesTune, TuneLights, TuneEnds, HandlesStop, HandlesStatus, HandlesConfig,
                HandlesQuit, ClientGone, PowersDown, Leaves, Disconnects, MonitorDecides,
                MonitorRelights
  <2> QED BY <2>1, <2>2 DEF client, starting, status
<1> QED BY <1>1 DEF Places

-----------------------------------------------------------------------------
(* What taking the first element of a sequence and adding one leave.       *)
LEMMA TailOf ==
  ASSUME NEW S, NEW s \in Seq(S), s # <<>>
  PROVE  /\ Tail(s) \in Seq(S) /\ Head(s) \in S /\ Head(s) = s[1] /\ 1 \in 1..Len(s)
         /\ \A i \in 1..Len(Tail(s)) : i + 1 \in 1..Len(s) /\ Tail(s)[i] = s[i + 1]
OBVIOUS

LEMMA AppendOf ==
  ASSUME NEW S, NEW s \in Seq(S), NEW e \in S
  PROVE  /\ Append(s, e) \in Seq(S)
         /\ \A i \in 1..Len(Append(s, e)) :
              Append(s, e)[i] = e \/ (i \in 1..Len(s) /\ Append(s, e)[i] = s[i])
OBVIOUS

LEMMA NothingOf == \A S : <<>> \in Seq(S) /\ Len(<<>>) = 0
OBVIOUS

(* A channel that only loses commands or answers, or is given a command    *)
(* that is not about the signal.                                           *)
Kept(w, s) ==
  \/ w = s
  \/ w = <<>>
  \/ s # <<>> /\ w = Tail(s)
  \/ \E e \in Commands : e.cmd # "STATUS" /\ w = Append(s, e)

LEMMA KeptTyped ==
  ASSUME NEW s \in Seq(Commands), NEW w, Kept(w, s) PROVE w \in Seq(Commands)
<1>1. CASE w = s \/ w = <<>>
  BY <1>1, NothingOf
<1>2. CASE s # <<>> /\ w = Tail(s)
  BY <1>2, TailOf
<1>3. ASSUME NEW e \in Commands, w = Append(s, e) PROVE w \in Seq(Commands)
  BY <1>3, AppendOf
<1> QED BY <1>1, <1>2, <1>3 DEF Kept

LEMMA KeptAbove ==
  ASSUME NEW s \in Seq(Commands), NEW w, Kept(w, s), NEW r, NEW q, q \in {r, <<>>}, NEW n
  PROVE  /\ Above(s, r, n) => Above(w, q, n)
         /\ NotAsked(s, r) => NotAsked(w, q)
<1>1. CASE w = s
  BY <1>1, NothingOf DEF Above, NotAsked
<1>2. CASE w = <<>>
  BY <1>2, NothingOf DEF Above, NotAsked
<1>3. CASE s # <<>> /\ w = Tail(s)
  BY <1>3, TailOf, NothingOf DEF Above, NotAsked
<1>4. ASSUME NEW e \in Commands, e.cmd # "STATUS", w = Append(s, e)
      PROVE  /\ Above(s, r, n) => Above(w, q, n)
             /\ NotAsked(s, r) => NotAsked(w, q)
  <2>1. \A i \in 1..Len(w) : w[i] = e \/ (i \in 1..Len(s) /\ w[i] = s[i])
    BY <1>4, AppendOf
  <2> QED BY <1>4, <2>1, NothingOf DEF Above, NotAsked
<1> QED BY <1>1, <1>2, <1>3, <1>4 DEF Kept

(* Steps that leave every reading and do no more to the channels than      *)
(* that.  A command is only written to a connection that was made.         *)
Quiet ==
  /\ UNCHANGED <<thread, mine, latest, asked, before, end>>
  /\ fresh' => fresh
  /\ running' => running
  /\ starter' = "connected" => starter = "connected"
  /\ wire' \in [Connections -> Seq(Commands)]
  /\ replies' \in [Connections -> Seq(Nat)]
  /\ \A c \in Connections :
       /\ Kept(wire'[c], wire[c]) /\ replies'[c] \in {replies[c], <<>>}
       /\ end[c] = 0 => wire'[c] \in {wire[c], <<>>}

LEMMA QuietTyped ==
  ASSUME ReadingsTyped, Quiet, pipe' \in {pipe, 0}, handle' \in {handle, 0}
  PROVE  ReadingsTyped'
BY DEF ReadingsTyped, Quiet

LEMMA QuietKeeps ==
  ASSUME ReadingsTyped, Channels, Quiet,
         pipe' = pipe \/ (pipe' = 0 /\ starter' # "connected")
  PROVE  Channels'
<1>1. ASSUME NEW c \in Connections
      PROVE  /\ Above(wire[c], replies[c], before) => Above(wire'[c], replies'[c], before)
             /\ NotAsked(wire[c], replies[c]) => NotAsked(wire'[c], replies'[c])
  <2>1. wire[c] \in Seq(Commands) /\ Kept(wire'[c], wire[c]) /\ replies'[c] \in {replies[c], <<>>}
    BY DEF ReadingsTyped, Quiet
  <2> DEFINE s == wire[c]  w == wire'[c]  r == replies[c]  q == replies'[c]
  <2>2. s \in Seq(Commands) /\ Kept(w, s) /\ q \in {r, <<>>}
    BY <2>1
  <2> HIDE DEF s, w, r, q
  <2>3. /\ Above(s, r, before) => Above(w, q, before)
        /\ NotAsked(s, r) => NotAsked(w, q)
    BY <2>2, KeptAbove
  <2> QED BY <2>3 DEF s, w, r, q
<1>2. \A c \in Connections : end'[c] = 0 => wire'[c] = <<>> /\ replies'[c] = <<>>
  <2> SUFFICES ASSUME NEW c \in Connections, end[c] = 0
               PROVE  wire'[c] = <<>> /\ replies'[c] = <<>>
    BY DEF Quiet
  <2>1. wire[c] = <<>> /\ replies[c] = <<>>
    BY DEF Channels
  <2> QED BY <2>1 DEF Quiet
<1>3. CASE pipe' = pipe
  <2>1. pipe # 0 => pipe \in Connections
    BY DEF ReadingsTyped
  <2> QED BY <1>1, <1>2, <1>3, <2>1 DEF Quiet, Channels
<1>4. CASE pipe' = 0 /\ starter' # "connected"
  BY <1>2, <1>4 DEF Quiet, Channels
<1> QED BY <1>3, <1>4

(* Writing a command, taking one and the death of a daemon are such steps. *)
WireKept ==
  /\ wire' \in [Connections -> Seq(Commands)]
  /\ \A c \in Connections :
       Kept(wire'[c], wire[c]) /\ (end[c] = 0 => wire'[c] \in {wire[c], <<>>})

LEMMA SameKept == ASSUME ReadingsTyped, UNCHANGED wire PROVE WireKept
BY DEF ReadingsTyped, WireKept, Kept

LEMMA WritesKept ==
  ASSUME ReadingsTyped, Channels, NEW cmd \in CommandsSent \ {"STATUS"}, Writes(cmd)
  PROVE  WireKept
<1>1. CASE UNCHANGED wire
  BY <1>1, SameKept
<1>2. CASE pipe # 0 /\ wire' = [wire EXCEPT ![pipe] = Append(@, Cmd(cmd))]
  <2>1. pipe \in Connections /\ end[pipe] # 0
    BY <1>2 DEF ReadingsTyped, Channels
  <2>2. Cmd(cmd) \in Commands /\ Cmd(cmd).cmd # "STATUS"
    BY DEF Cmd, Commands
  <2>3. wire[pipe] \in Seq(Commands) /\ Append(wire[pipe], Cmd(cmd)) \in Seq(Commands)
    BY <2>1, <2>2, AppendOf DEF ReadingsTyped
  <2>4. Kept(Append(wire[pipe], Cmd(cmd)), wire[pipe])
    BY <2>2 DEF Kept
  <2>5. \A c \in Connections : c # pipe => wire'[c] = wire[c]
    BY <1>2 DEF ReadingsTyped
  <2>6. wire'[pipe] = Append(wire[pipe], Cmd(cmd))
    BY <1>2, <2>1 DEF ReadingsTyped
  <2>7. wire' \in [Connections -> Seq(Commands)]
    BY <1>2, <2>3 DEF ReadingsTyped
  <2> QED BY <2>1, <2>4, <2>5, <2>6, <2>7 DEF WireKept, Kept
<1> QED BY <1>1, <1>2 DEF Writes, Free

LEMMA TakenKept ==
  ASSUME ReadingsTyped, Channels, NEW d \in Daemons, HasLine(d), Taken(d)
  PROVE  WireKept
<1>1. wire[serving[d]] # <<>> /\ wire' = [wire EXCEPT ![serving[d]] = Tail(wire[serving[d]])]
  BY DEF HasLine, Taken
<1>2. CASE serving[d] \in Connections
  <2>1. wire[serving[d]] \in Seq(Commands) /\ end[serving[d]] # 0
    BY <1>1, <1>2 DEF ReadingsTyped, Channels
  <2>2. Tail(wire[serving[d]]) \in Seq(Commands)
    BY <1>1, <2>1, TailOf
  <2>3. wire' \in [Connections -> Seq(Commands)]
    BY <1>1, <2>2 DEF ReadingsTyped
  <2>4. \A c \in Connections : c # serving[d] => wire'[c] = wire[c]
    BY <1>1 DEF ReadingsTyped
  <2>5. wire'[serving[d]] = Tail(wire[serving[d]])
    BY <1>1, <1>2 DEF ReadingsTyped
  <2> QED BY <1>1, <2>1, <2>3, <2>4, <2>5 DEF WireKept, Kept
<1>3. CASE serving[d] \notin Connections
  <2>1. wire' = wire
    BY <1>1, <1>3 DEF ReadingsTyped
  <2> QED BY <2>1, SameKept
<1> QED BY <1>2, <1>3

LEMMA EndingKept ==
  ASSUME ReadingsTyped, NEW ds, Ending(ds) PROVE WireKept
<1>1. \A c \in Connections : wire'[c] \in {wire[c], <<>>}
  BY DEF Ending
<1>2. wire' \in [Connections -> Seq(Commands)]
  BY NothingOf DEF Ending, ReadingsTyped
<1> QED BY <1>1, <1>2 DEF WireKept, Kept

-----------------------------------------------------------------------------
(* The quiet steps of the start and of the stop.                           *)
LEMMA QuietStart ==
  ASSUME ReadingsTyped, Channels,
         FindsNone \/ KillsStale \/ Spawns \/ SpawnFails \/ StartFails \/ SendsConfig
  PROVE  ReadingsTyped' /\ Channels'
<1>1. WireKept
  <2>1. CASE FindsNone \/ Spawns \/ SpawnFails
    BY <2>1, SameKept DEF FindsNone, Spawns, SpawnFails, channel
  <2>2. CASE KillsStale \/ StartFails
    BY <2>2, EndingKept DEF KillsStale, StartFails, Dying
  <2>3. CASE SendsConfig
    BY <2>3, WritesKept DEF SendsConfig, CommandsSent
  <2> QED BY <2>1, <2>2, <2>3
<1>2. /\ UNCHANGED <<handle, thread, mine, latest, asked, before, end, replies, fresh, running>>
      /\ starter' # "connected"
      /\ pipe' \in {pipe, 0}
  BY DEF FindsNone, KillsStale, Spawns, SpawnFails, StartFails, SendsConfig, Dying, Ending,
         status, channel
<1>3. Quiet
  BY <1>1, <1>2 DEF Quiet, WireKept, ReadingsTyped
<1> QED BY <1>2, <1>3, QuietTyped, QuietKeeps

LEMMA QuietClose ==
  ASSUME ReadingsTyped, Places, Channels, Closes \/ NothingToClose \/ CloseSteps
  PROVE  ReadingsTyped' /\ Channels'
<1> DEFINE Sends == SendsStop \/ SendsQuit
           Ends == WaitsForExit \/ NeverConnected \/ Returns
           Begins == Closes \/ NothingToClose
           Joins == JoinsStatus \/ LeavesStatus
<1>1. WireKept
  <2>1. CASE Begins \/ Joins \/ Ends \/ HangsUp
    <3>1. UNCHANGED wire
      BY <2>1 DEF Closes, NothingToClose, Returns, JoinsStatus, LeavesStatus, JoinEnds,
         NeverConnected, WaitsForExit, HangsUp, channel
    <3> QED BY <3>1, SameKept
  <2>2. CASE Sends
    BY <2>2, WritesKept DEF SendsStop, SendsQuit, CommandsSent
  <2>3. CASE KillsDaemon
    BY <2>3, EndingKept DEF KillsDaemon, Dying
  <2> QED BY <2>1, <2>2, <2>3 DEF CloseSteps
<1>2. /\ UNCHANGED <<thread, mine, latest, asked, before, end, starter>>
      /\ handle' \in {handle, 0} /\ (fresh' => fresh) /\ (running' => running)
  BY DEF Closes, NothingToClose, CloseSteps, Returns, JoinsStatus, LeavesStatus, JoinEnds,
         FreshCleared, NeverConnected, WaitsForExit, SendsStop, SendsQuit, HangsUp, KillsDaemon,
         Closed, Dying, Ending, status, channel, starting
<1>3. /\ pipe' = pipe \/ (pipe' = 0 /\ starter' # "connected")
      /\ replies' \in [Connections -> Seq(Nat)]
      /\ \A c \in Connections : replies'[c] \in {replies[c], <<>>}
  <2>1. CASE HangsUp
    BY <2>1, NothingOf DEF HangsUp, starting, Places, Working, ReadingsTyped
  <2>2. CASE ~HangsUp
    <3>1. UNCHANGED <<pipe, replies>>
      BY <2>2 DEF Closes, NothingToClose, CloseSteps, Returns, JoinsStatus, LeavesStatus,
         JoinEnds, NeverConnected, WaitsForExit, SendsStop, SendsQuit, KillsDaemon, Dying,
         Ending, channel, Closed
    <3> QED BY <3>1 DEF ReadingsTyped
  <2> QED BY <2>1, <2>2
<1>4. Quiet
  BY <1>1, <1>2, <1>3 DEF Quiet, WireKept
<1> QED BY <1>2, <1>3, <1>4, QuietTyped, QuietKeeps

(* The program's other steps, and the daemon's but for HandlesStatus.      *)
LEMMA QuietOther ==
  ASSUME ReadingsTyped, Channels, SendsTune \/ Polls \/ UNCHANGED vars
  PROVE  ReadingsTyped' /\ Channels'
<1>1. WireKept
  BY SameKept, WritesKept DEF SendsTune, Polls, vars, channel, CommandsSent
<1>2. UNCHANGED <<handle, thread, mine, latest, asked, before, end, replies, running, starter,
                  pipe>> /\ (fresh' => fresh)
  BY DEF SendsTune, Polls, vars, status, channel, starting, outsideStatus
<1>3. Quiet
  BY <1>1, <1>2 DEF Quiet, WireKept, ReadingsTyped
<1> QED BY <1>2, <1>3, QuietTyped, QuietKeeps

LEMMA QuietDaemon ==
  ASSUME ReadingsTyped, Channels, NEW d \in Daemons,
         DaemonStep(d),
         ~HandlesStatus(d)
  PROVE  ReadingsTyped' /\ Channels'
<1>1. UNCHANGED client /\ UNCHANGED <<end, replies>>
  BY DEF DaemonStep, Serves, InitEnds, InitFails, CutsLine, Interrupted, Accepts, HandlesTune,
         TuneLights, TuneEnds, HandlesStop, HandlesConfig, HandlesQuit, ClientGone, PowersDown,
         Leaves, Disconnects, MonitorDecides, MonitorRelights, channel, Ending
<1>2. WireKept
  <2>1. CASE \/ InitEnds(d) \/ InitFails(d) \/ Interrupted(d) \/ Accepts(d) \/ TuneLights(d)
             \/ TuneEnds(d) \/ ClientGone(d) \/ PowersDown(d) \/ MonitorDecides(d)
             \/ MonitorRelights(d)
    <3>1. UNCHANGED wire
      BY <2>1 DEF InitEnds, InitFails, Interrupted, Accepts, TuneLights, TuneEnds, ClientGone,
                  PowersDown, MonitorDecides, MonitorRelights, channel
    <3> QED BY <3>1, SameKept
  <2>2. CASE HandlesTune(d) \/ HandlesStop(d) \/ HandlesConfig(d) \/ HandlesQuit(d) \/ CutsLine(d)
    <3>1. HasLine(d) /\ Taken(d)
      BY <2>2 DEF HandlesTune, HandlesStop, HandlesConfig, HandlesQuit, CutsLine
    <3> QED BY <3>1, TakenKept
  <2>3. CASE Leaves(d)
    BY <2>3, EndingKept DEF Leaves
  <2> QED BY <2>1, <2>2, <2>3 DEF DaemonStep, Serves
<1>3. Quiet
  BY <1>1, <1>2 DEF Quiet, WireKept, ReadingsTyped, client, status, starting
<1> QED BY <1>1, <1>3, QuietTyped, QuietKeeps DEF client, status

-----------------------------------------------------------------------------
(* A connection that is made is empty.                                     *)
LEMMA MakesConnection ==
  ASSUME ReadingsTyped, Places, Channels, Reuses \/ PollConnects
  PROVE  ReadingsTyped' /\ Channels'
<1>1. /\ UNCHANGED <<handle, thread, mine, latest, asked, before, wire, replies, fresh, running>>
      /\ ~running
  BY DEF Reuses, PollConnects, ConnectsTo, status, Places
<1>2. PICK d \in Daemons, c \in Unused : end' = [end EXCEPT ![c] = d] /\ pipe' = c
  BY DEF Reuses, PollConnects, ConnectsTo
<1>3. c \in Connections /\ end[c] = 0 /\ c # 0 /\ d # 0
  BY <1>2, SizesAssumption DEF Unused, Connections, Daemons
<1>4. /\ end'[c] = d /\ \A e \in Connections : e # c => end'[e] = end[e]
      /\ end' \in [Connections -> Daemons \union {0}]
  BY <1>2, <1>3 DEF ReadingsTyped
<1>5. wire[c] = <<>> /\ replies[c] = <<>>
  BY <1>3 DEF Channels
<1>6. NotAsked(wire[c], replies[c])
  BY <1>5, NothingOf DEF NotAsked
<1>7. ReadingsTyped'
  BY <1>1, <1>2, <1>3, <1>4 DEF ReadingsTyped
<1>8. Channels'
  BY <1>1, <1>2, <1>3, <1>4, <1>6 DEF Channels
<1> QED BY <1>7, <1>8

(* A session begins with nothing asked and nothing read.                   *)
LEMMA BeginsClean ==
  ASSUME ReadingsTyped, Places, Channels, SessionBegins PROVE ReadingsTyped' /\ Channels'
<1>1. /\ starter = "connected" /\ ~running /\ handle = 0 /\ ~fresh
      /\ \A t \in StatusThreads : thread[t] = "off"
  BY SizesAssumption DEF SessionBegins, Places
<1>2. /\ UNCHANGED <<pipe, mine, latest, asked, end, wire, replies, fresh>>
      /\ before' = asked /\ starter' = "config"
  BY DEF SessionBegins, channel
<1>3. PICK t \in StatusThreads : handle' = t /\ thread' = [thread EXCEPT ![t] = "asleep"]
  BY <1>1 DEF SessionBegins
<1>4. \A u \in StatusThreads : thread'[u] \in {"off", "asleep"}
  BY <1>1, <1>3 DEF ReadingsTyped
<1>5. ReadingsTyped'
  BY <1>2, <1>3 DEF ReadingsTyped, ThreadPlaces
<1>6. NotAsked(wire[pipe], replies[pipe])
  BY <1>1 DEF Channels
<1>7. Above(wire[pipe], replies[pipe], asked)
  BY <1>6, NothingOf DEF NotAsked, Above
<1>8. Channels'
  BY <1>1, <1>2, <1>4, <1>7 DEF Channels
<1> QED BY <1>5, <1>8

-----------------------------------------------------------------------------
(* A status thread that writes nothing and reads nothing.                  *)
LEMMA StatusIdles ==
  ASSUME ReadingsTyped, Places, Channels, NEW t \in StatusThreads,
         \/ StatusEnds(t) \/ StatusWakes(t) \/ StatusBlocks(t) \/ StatusFails(t)
         \/ StatusGivesUp(t) \/ StatusStores(t)
  PROVE  ReadingsTyped' /\ Channels'
<1>1. /\ UNCHANGED <<starter, running, pipe, before, handle, asked, end, wire, replies>>
  BY DEF StatusEnds, StatusWakes, StatusBlocks, StatusFails, StatusGivesUp, StatusStores,
         outsideStatus, starting, channel
<1>2. \A u \in StatusThreads : u # t => thread'[u] = thread[u] /\ mine'[u] = mine[u]
  BY DEF StatusEnds, StatusWakes, StatusBlocks, StatusFails, StatusGivesUp, StatusStores, Moves,
         ReadingsTyped
<1>3. thread' \in [StatusThreads -> ThreadPlaces]
  BY DEF StatusEnds, StatusWakes, StatusBlocks, StatusFails, StatusGivesUp, StatusStores, Moves,
         ReadingsTyped, ThreadPlaces
<1>4. pipe \in Nat
  BY SizesAssumption DEF ReadingsTyped, Connections
<1>5. mine' \in [StatusThreads -> Nat]
  BY <1>4 DEF StatusEnds, StatusWakes, StatusBlocks, StatusFails, StatusGivesUp, StatusStores,
     ReadingsTyped
<1>6. thread'[t] # "holding"
  BY DEF StatusEnds, StatusWakes, StatusBlocks, StatusFails, StatusGivesUp, StatusStores, Moves,
         ReadingsTyped
<1>7. thread'[t] = "blocked" => mine'[t] \in Connections /\ end[mine'[t]] # 0
  <2>1. CASE StatusBlocks(t)
    <3>1. pipe # 0 /\ mine'[t] = pipe
      BY <2>1 DEF StatusBlocks, Lost, ReadingsTyped
    <3> QED BY <3>1 DEF ReadingsTyped, Channels
  <2>2. CASE StatusEnds(t) \/ StatusWakes(t) \/ StatusFails(t) \/ StatusGivesUp(t)
             \/ StatusStores(t)
    BY <2>2 DEF StatusEnds, StatusWakes, StatusFails, StatusGivesUp, StatusStores, Moves,
                ReadingsTyped
  <2> QED BY <2>1, <2>2
<1>8. latest' \in Nat /\ (running /\ fresh' => latest' > before)
  <2>1. CASE StatusStores(t)
    BY <2>1 DEF StatusStores, Channels, ReadingsTyped
  <2>2. CASE UNCHANGED <<latest, fresh>>
    BY <2>2 DEF Channels, ReadingsTyped
  <2> QED BY <2>1, <2>2
          DEF StatusEnds, StatusWakes, StatusBlocks, StatusFails, StatusGivesUp
<1>9. ReadingsTyped'
  BY <1>1, <1>3, <1>5, <1>8 DEF ReadingsTyped
<1>10. Channels'
  BY <1>1, <1>2, <1>6, <1>7, <1>8 DEF Channels
<1> QED BY <1>9, <1>10

(* A question is numbered above all before it.                             *)
LEMMA AsksAbove ==
  ASSUME ReadingsTyped, Places, Channels, NEW t \in StatusThreads, NEW c \in Connections,
         thread[t] # "off", end[c] # 0, AskWritten(c), Moves(t, "waiting"),
         mine' = mine \/ mine' = [mine EXCEPT ![t] = 0],
         UNCHANGED <<starter, running, pipe, before, handle, latest, fresh, end, replies>>
  PROVE  ReadingsTyped' /\ Channels'
<1>1. running /\ starter # "connected"
  BY SizesAssumption DEF Places
<1>2. asked' = asked + 1 /\ asked' \in Nat /\ asked' > before
  BY DEF AskWritten, ReadingsTyped
<1>3. Status(asked') \in Commands /\ Status(asked').n = asked'
  BY <1>2 DEF Status, Commands, CommandsSent
<1>4. wire[c] \in Seq(Commands)
  BY DEF ReadingsTyped
<1>5. Append(wire[c], Status(asked')) \in Seq(Commands)
  BY <1>3, <1>4, AppendOf
<1>6. /\ wire'[c] = Append(wire[c], Status(asked'))
      /\ \A e \in Connections : e # c => wire'[e] = wire[e]
      /\ wire' \in [Connections -> Seq(Commands)]
  BY <1>5 DEF AskWritten, ReadingsTyped
<1>7. Above(wire[c], replies[c], before) => Above(wire'[c], replies[c], before)
  <2>1. \A i \in 1..Len(wire'[c]) :
          wire'[c][i] = Status(asked') \/ (i \in 1..Len(wire[c]) /\ wire'[c][i] = wire[c][i])
    BY <1>3, <1>4, <1>6, AppendOf
  <2> QED BY <1>2, <1>3, <2>1 DEF Above
<1>8. /\ thread' \in [StatusThreads -> ThreadPlaces] /\ mine' \in [StatusThreads -> Nat]
      /\ thread'[t] = "waiting"
      /\ \A u \in StatusThreads : u # t => thread'[u] = thread[u] /\ mine'[u] = mine[u]
  BY DEF Moves, ReadingsTyped, ThreadPlaces
<1>9. ReadingsTyped'
  BY <1>2, <1>6, <1>8 DEF ReadingsTyped
<1>10. Channels'
  BY <1>1, <1>6, <1>7, <1>8 DEF Channels, ReadingsTyped
<1> QED BY <1>9, <1>10

LEMMA StatusWrites ==
  ASSUME ReadingsTyped, Places, Channels, NEW t \in StatusThreads,
         StatusAsks(t) \/ StatusUnblocks(t)
  PROVE  ReadingsTyped' /\ Channels'
<1>1. UNCHANGED <<starter, running, pipe, before, handle, latest, fresh, end, replies>>
  BY DEF StatusAsks, StatusUnblocks, outsideStatus, starting
<1>2. CASE StatusAsks(t)
  <2>1. /\ AskWritten(pipe) /\ thread[t] # "off" /\ Moves(t, "waiting") /\ mine' = mine
        /\ pipe \in Connections /\ end[pipe] # 0
    BY <1>2 DEF StatusAsks, Free, ReadingsTyped, Channels
  <2> QED BY <1>1, <2>1, AsksAbove
<1>3. CASE StatusUnblocks(t)
  <2>1. /\ AskWritten(mine[t]) /\ thread[t] # "off" /\ Moves(t, "waiting")
        /\ mine' = [mine EXCEPT ![t] = 0]
        /\ mine[t] \in Connections /\ end[mine[t]] # 0
    BY <1>3 DEF StatusUnblocks, Channels
  <2> QED BY <1>1, <2>1, AsksAbove
<1> QED BY <1>2, <1>3

(* A reading that is taken is one of this session's answers.               *)
LEMMA StatusTakes ==
  ASSUME ReadingsTyped, Places, Channels, NEW t \in StatusThreads, StatusReads(t)
  PROVE  ReadingsTyped' /\ Channels'
<1>1. /\ UNCHANGED <<starter, running, pipe, before, handle, latest, fresh, asked, end, wire>>
      /\ running /\ pipe \in Connections /\ replies[pipe] # <<>>
      /\ replies' = [replies EXCEPT ![pipe] = <<>>]
  BY SizesAssumption DEF StatusReads, outsideStatus, starting, ReadingsTyped, Places
<1>2. replies[pipe] \in Seq(Nat) /\ Above(wire[pipe], replies[pipe], before)
  BY <1>1, SizesAssumption DEF ReadingsTyped, Channels, Connections
<1>3. Head(replies[pipe]) \in Nat /\ Head(replies[pipe]) > before
  BY <1>1, <1>2, TailOf DEF Above
<1>4. mine' = [mine EXCEPT ![t] = Head(replies[pipe])] /\ Moves(t, "holding")
  BY <1>1 DEF StatusReads
<1>5. /\ mine' \in [StatusThreads -> Nat] /\ thread' \in [StatusThreads -> ThreadPlaces]
      /\ thread'[t] = "holding" /\ mine'[t] > before
      /\ \A u \in StatusThreads : u # t => thread'[u] = thread[u] /\ mine'[u] = mine[u]
  BY <1>3, <1>4 DEF Moves, ReadingsTyped, ThreadPlaces
<1>6. /\ replies' \in [Connections -> Seq(Nat)] /\ replies'[pipe] = <<>>
      /\ \A c \in Connections : replies'[c] \in {replies[c], <<>>}
  BY <1>1, NothingOf DEF ReadingsTyped
<1>7. Above(wire[pipe], <<>>, before)
  BY <1>2, NothingOf DEF Above
<1>8. ReadingsTyped'
  BY <1>1, <1>5, <1>6 DEF ReadingsTyped
<1>9. Channels'
  BY <1>1, <1>5, <1>6, <1>7 DEF Channels, Places
<1> QED BY <1>8, <1>9

(* The daemon answers a question with its number.                          *)
LEMMA DaemonAnswers ==
  ASSUME ReadingsTyped, Channels, NEW d \in Daemons, HandlesStatus(d)
  PROVE  ReadingsTyped' /\ Channels'
<1> DEFINE c == serving[d]
<1>1. /\ UNCHANGED <<starter, running, pipe, before, handle, thread, mine, latest, fresh, asked,
                     end>>
      /\ wire[c] # <<>> /\ Head(wire[c]).cmd = "STATUS"
  BY DEF HandlesStatus, HasLine, Line, client, starting, status
<1>2. WireKept
  BY TakenKept DEF HandlesStatus
<1>3. CASE c \notin Connections
  <2>1. replies' = replies
    BY <1>3 DEF HandlesStatus, ReadingsTyped
  <2>2. Quiet
    BY <1>1, <1>2, <2>1 DEF Quiet, WireKept, ReadingsTyped
  <2> QED BY <1>1, <2>2, QuietTyped, QuietKeeps
<1>4. CASE c \in Connections
  <2>1. wire[c] \in Seq(Commands) /\ replies[c] \in Seq(Nat)
    BY <1>4 DEF ReadingsTyped
  <2>2. Head(wire[c]) \in Commands /\ Head(wire[c]) = wire[c][1] /\ 1 \in 1..Len(wire[c])
    BY <1>1, <2>1, TailOf
  <2>3. Head(wire[c]).n \in Nat
    BY <2>2 DEF Commands
  <2>4. wire'[c] = Tail(wire[c]) /\ \A e \in Connections : e # c => wire'[e] = wire[e]
    BY <1>4 DEF HandlesStatus, Taken, ReadingsTyped
  <2>5. /\ replies'[c] = replies[c] \/ replies'[c] = Append(replies[c], Head(wire[c]).n)
        /\ \A e \in Connections : e # c => replies'[e] = replies[e]
        /\ replies' \in [Connections -> Seq(Nat)]
    BY <1>4, <2>1, <2>3, AppendOf DEF HandlesStatus, Line, ReadingsTyped
  <2>6. ASSUME Above(wire[c], replies[c], before) PROVE Above(wire'[c], replies'[c], before)
    <3>1. \A i \in 1..Len(wire'[c]) : wire'[c][i].cmd = "STATUS" => wire'[c][i].n > before
      BY <1>1, <2>1, <2>4, <2>6, TailOf DEF Above
    <3>2. Head(wire[c]).n > before
      BY <1>1, <2>2, <2>6 DEF Above
    <3>3. \A i \in 1..Len(replies'[c]) : replies'[c][i] > before
      <4>1. CASE replies'[c] = replies[c]
        BY <2>6, <4>1 DEF Above
      <4>2. CASE replies'[c] = Append(replies[c], Head(wire[c]).n)
        BY <2>1, <2>3, <2>6, <3>2, <4>2, AppendOf DEF Above
      <4> QED BY <2>5, <4>1, <4>2
    <3> QED BY <3>1, <3>3 DEF Above
  <2>7. ~NotAsked(wire[c], replies[c]) /\ end[c] # 0
    BY <1>1, <1>4, <2>2 DEF NotAsked, Channels
  <2>8. ReadingsTyped'
    BY <1>1, <1>2, <2>5 DEF ReadingsTyped, WireKept
  <2>9. Channels'
    BY <1>1, <2>4, <2>5, <2>6, <2>7 DEF Channels, ReadingsTyped
  <2> QED BY <2>8, <2>9
<1> QED BY <1>3, <1>4

-----------------------------------------------------------------------------
(* A blocked thread that a stop leaves behind, or a stop during a start,   *)
(* is remembered for good.                                                 *)
LEMMA OverlapStays == [Next]_vars /\ overlap => overlap'
<1> USE DEF Start, CloseSteps, StatusStep
<1>1. ASSUME Start \/ Closes \/ NothingToClose \/ CloseSteps, overlap PROVE overlap'
  BY <1>1 DEF Reuses, FindsNone, KillsStale, Spawns, SpawnFails, PollConnects, StartFails,
     SessionBegins, SendsConfig, Closes, NothingToClose, Returns, JoinsStatus, LeavesStatus,
     SendsStop, SendsQuit, HangsUp, NeverConnected, WaitsForExit, KillsDaemon, status
<1>2. ASSUME NEW t \in StatusThreads, StatusStep(t), overlap PROVE overlap'
  BY <1>2 DEF StatusEnds, StatusWakes, StatusAsks, StatusBlocks, StatusUnblocks, StatusFails,
     StatusReads, StatusGivesUp, StatusStores
<1>3. ASSUME SendsTune \/ Polls \/ UNCHANGED vars, overlap PROVE overlap'
  BY <1>3 DEF SendsTune, Polls, vars, status
<1>4. ASSUME NEW d \in Daemons, overlap,
             DaemonStep(d)
      PROVE  overlap'
  <2>1. UNCHANGED client
    BY <1>4 DEF DaemonStep, Serves, InitEnds, InitFails, CutsLine, Interrupted, Accepts,
                HandlesTune, TuneLights, TuneEnds, HandlesStop, HandlesStatus, HandlesConfig,
                HandlesQuit, ClientGone, PowersDown, Leaves, Disconnects, MonitorDecides,
                MonitorRelights
  <2> QED BY <1>4, <2>1 DEF client, status
<1> QED BY <1>1, <1>2, <1>3, <1>4 DEF Next

LEMMA StepRInv == RInv /\ [Next]_vars => RInv'
<1> SUFFICES ASSUME RInv, [Next]_vars, ~overlap'
             PROVE  ReadingsTyped' /\ Places' /\ Channels'
  BY DEF RInv
<1>1. ~overlap /\ ReadingsTyped /\ Places /\ Channels
  BY OverlapStays DEF RInv
<1>2. CASE Start
  <2>1. Places'
    BY <1>1, <1>2, PlacesStart
  <2>2. ReadingsTyped' /\ Channels'
    BY <1>1, <1>2, QuietStart, MakesConnection, BeginsClean DEF Start
  <2> QED BY <2>1, <2>2
<1>3. CASE Closes \/ NothingToClose \/ CloseSteps
  BY <1>1, <1>3, PlacesClose, QuietClose
<1>4. ASSUME NEW t \in StatusThreads, StatusStep(t)
      PROVE  ReadingsTyped' /\ Places' /\ Channels'
  <2>1. Places'
    BY <1>1, <1>4, PlacesStatus
  <2>2. ReadingsTyped' /\ Channels'
    BY <1>1, <1>4, StatusIdles, StatusWrites, StatusTakes DEF StatusStep
  <2> QED BY <2>1, <2>2
<1>5. CASE SendsTune \/ Polls \/ UNCHANGED vars
  BY <1>1, <1>5, PlacesOther, QuietOther
<1>6. ASSUME NEW d \in Daemons,
             DaemonStep(d)
      PROVE  ReadingsTyped' /\ Places' /\ Channels'
  <2>1. Places'
    BY <1>1, <1>6, PlacesOther
  <2>2. ReadingsTyped' /\ Channels'
    BY <1>1, <1>6, QuietDaemon, DaemonAnswers
  <2> QED BY <2>1, <2>2
<1> QED BY <1>2, <1>3, <1>4, <1>5, <1>6 DEF Next

(* status_worker and usb_dvbs2_poll: a reading handed to the program was   *)
(* asked for in this session, however late the answers of the one before   *)
(* came - unless a shutdown overlapped a start or left a thread behind.    *)
THEOREM ReadingOfSessionHolds == Spec => []ReadingOfSession
<1>1. RInv => ReadingOfSession
  BY DEF RInv, Channels, ReadingOfSession
<1> QED BY InitRInv, StepRInv, <1>1, PTL DEF Spec
=============================================================================
