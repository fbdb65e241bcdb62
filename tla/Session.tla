------------------------------ MODULE Session ------------------------------
(***************************************************************************)
(* A session of the client library with the daemon: sdk/usb_dvbs2.c with   *)
(* dtv_process.c on one side, the main loop of usb_dvbs2_daemon.c on the   *)
(* other and the command channel of dtv_ipc.c between them.                *)
(*                                                                         *)
(* The starting thread runs ensure_daemon, the closing one                 *)
(* shutdown_daemon, which may come while the start still waits; the status *)
(* threads ask for the signal.  A connection is a number; wire is what the *)
(* client wrote and the daemon has not read, replies what it answered.     *)
(* Daemon 1 may be left from an earlier program.                           *)
(*                                                                         *)
(* Beside its main loop a daemon runs the signal monitor of                *)
(* usb_dvbs2_engine.c, which lights the LNB again for the tune recorded    *)
(* last; nothing but the end of the process stops it.  Of the receiver     *)
(* only the LNB's power is here, ReceiverTuning has the rest.              *)
(***************************************************************************)
EXTENDS Naturals, Sequences

CONSTANTS
  MaxDaemons,     (* bound on the daemon processes                         *)
  MaxConnections, (* bound on the connections made                         *)
  StatusThreads, (* the status threads there may be at once                *)
  Room,        (* commands the channel holds before a write blocks         *)
  MaxAsks,     (* bound on the STATUS commands                             *)
  MaxCuts      (* bound on the commands a read cuts in two                 *)

ASSUME SizesAssumption ==
  /\ MaxDaemons \in Nat /\ MaxConnections \in Nat
  /\ Room \in Nat \ {0} /\ MaxAsks \in Nat /\ MaxCuts \in Nat
  /\ StatusThreads \subseteq Nat \ {0}

Daemons == 1..MaxDaemons
Connections == 1..MaxConnections

VARIABLES
  starter, closer,   (* where ensure_daemon and shutdown_daemon are        *)
  running,           (* g_daemon_running                                   *)
  pipe, proc,        (* g_daemon_pipe and g_daemon_proc, 0 for NULL        *)
  handle,            (* g_status_thread, 0 for NULL                        *)
  statusStop,        (* g_status_stopping                                  *)
  thread,            (* where each status thread is                        *)
  mine,              (* the connection a blocked thread writes to, or the  *)
                     (* reading it holds                                   *)
  lock,              (* the status thread that has g_pipe_lock, 0 for none *)
  latest, fresh,     (* g_status_latest and g_status_fresh                 *)
  asked, before,     (* STATUS commands written: in all, and when the      *)
                     (* session began                                      *)
  phase,             (* of each daemon                                     *)
  serving,           (* the connection a daemon serves, 0 for none         *)
  queue,             (* connections a daemon has not accepted              *)
  end,               (* the daemon at the end of each connection, 0 before *)
  wire, replies,
  gone,              (* the connections the client has closed              *)
  recorded,          (* of each daemon: g_freq_khz is not 0                *)
  monitor,           (* is its monitor asleep, or re-acquiring under       *)
                     (* g_tune_lock                                        *)
  power,             (* is the LNB powered                                 *)
  killedLit,         (* history: a daemon was killed with the LNB powered  *)
  raced,             (* history: a monitor lit it behind engine_close      *)
  cuts,
  owed,              (* history: the process usb_dvbs2_stop found          *)
  overlap            (* history: a shutdown came during a start, or left   *)
                     (* a blocked status thread behind                     *)

starting == <<starter, proc>>
status == <<handle, statusStop, thread, mine, lock, latest, fresh, asked, overlap>>
daemons == <<phase, serving, queue, recorded, monitor>>
channel == <<end, wire, replies, gone>>
receiver == <<power, killedLit, raced, cuts, owed>>
vars == <<starting, closer, running, pipe, before, status, daemons, channel, receiver>>

Phases == {"none", "init", "listening", "serving", "tuning", "leaving", "closing",
           "dead"}
Cmd(c) == [cmd |-> c, n |-> 0]
Status(n) == [cmd |-> "STATUS", n |-> n]
CommandsSent == {"TUNE", "STOP", "QUIT", "CAMD", "STATUS"}

(* What an earlier program left: a daemon that tuned for it, whose monitor *)
(* may have lit the LNB since, or an LNB that a killed one left on.        *)
LeftBehind ==
  /\ power \in BOOLEAN
  /\ recorded \in {[d \in Daemons |-> d = 1 /\ tuned] : tuned \in BOOLEAN}
  /\ \A d \in Daemons : recorded[d] => phase[d] = "listening"
  /\ (\E d \in Daemons : phase[d] = "listening") /\ power
       => \E d \in Daemons : recorded[d]
  /\ killedLit = (power /\ \A d \in Daemons : phase[d] # "listening")

Init ==
  /\ starter = "idle" /\ closer = "idle" /\ running = FALSE
  /\ pipe = 0 /\ proc = 0 /\ handle = 0 /\ statusStop = FALSE
  /\ thread = [t \in StatusThreads |-> "off"]
  /\ mine = [t \in StatusThreads |-> 0]
  /\ lock = 0 /\ latest = 0 /\ fresh = FALSE /\ overlap = FALSE /\ asked = 0 /\ before = 0
  /\ \E first \in {"none", "init", "listening"} :
       phase = [d \in Daemons |-> IF d = 1 THEN first ELSE "none"]
  /\ serving = [d \in Daemons |-> 0] /\ queue = [d \in Daemons |-> <<>>]
  /\ end = [c \in Connections |-> 0]
  /\ wire = [c \in Connections |-> <<>>] /\ replies = [c \in Connections |-> <<>>]
  /\ gone = {}
  /\ monitor = [d \in Daemons |-> "asleep"]
  /\ LeftBehind
  /\ raced = FALSE /\ cuts = 0 /\ owed = {}

-----------------------------------------------------------------------------
(* The socket is there from dtv_ipc_listen to dtv_ipc_server_close.        *)
Reachable(d) ==
  phase[d] \in {"listening", "serving", "tuning", "leaving", "closing"}
Living(d) == phase[d] \notin {"none", "dead"}

(* A write to a daemon that is no more fails; a full channel blocks it.    *)
Lost(c) == c # 0 => phase[end[c]] = "dead"
Free(c) == c # 0 /\ Len(wire[c]) < Room

(* daemon_send of any thread but the status ones.                          *)
Writes(cmd) ==
  IF Lost(pipe) THEN UNCHANGED wire
  ELSE /\ lock = 0 /\ Free(pipe)
       /\ wire' = [wire EXCEPT ![pipe] = Append(@, Cmd(cmd))]

(* Daemons that end: what they have not read is lost with them.            *)
Ending(ds) ==
  /\ phase' = [d \in Daemons |-> IF d \in ds /\ Living(d) THEN "dead" ELSE phase[d]]
  /\ serving' = [d \in Daemons |-> IF d \in ds THEN 0 ELSE serving[d]]
  /\ queue' = [d \in Daemons |-> IF d \in ds THEN <<>> ELSE queue[d]]
  /\ wire' = [c \in Connections |-> IF end[c] \in ds THEN <<>> ELSE wire[c]]
  /\ monitor' = [d \in Daemons |-> IF d \in ds THEN "asleep" ELSE monitor[d]]
  /\ recorded' = [d \in Daemons |-> d \notin ds /\ recorded[d]]
  /\ UNCHANGED <<end, replies, gone>>

(* SIGKILL: the receiver stays as it is.                                   *)
Dying(ds) ==
  /\ Ending(ds)
  /\ killedLit' = (killedLit \/ (power /\ \E d \in ds : Living(d)))
  /\ UNCHANGED <<power, raced, cuts, owed>>

-----------------------------------------------------------------------------
(* ensure_daemon.                                                          *)
Unused == {c \in Connections : end[c] = 0}

ConnectsTo(d) ==
  /\ Reachable(d)
  /\ \E c \in Unused :
       /\ \A e \in Unused : c <= e
       /\ end' = [end EXCEPT ![c] = d]
       /\ queue' = [queue EXCEPT ![d] = Append(@, c)]
       /\ pipe' = c
  /\ UNCHANGED <<phase, serving, recorded, monitor, wire, replies, gone>>

Reuses ==
  /\ starter = "idle" /\ ~running
  /\ \E d \in Daemons : ConnectsTo(d)
  /\ starter' = "connected"
  /\ UNCHANGED <<proc, closer, running, before, status, receiver>>

FindsNone ==
  /\ starter = "idle" /\ ~running
  /\ \A d \in Daemons : ~Reachable(d)
  /\ pipe' = 0 /\ starter' = "kill"
  /\ UNCHANGED <<proc, closer, running, before, status, daemons, channel, receiver>>

(* terminate_stale_daemons: whatever runs under the daemon's name.         *)
KillsStale ==
  /\ starter = "kill" /\ starter' = "spawn"
  /\ Dying(Daemons)
  /\ UNCHANGED <<proc, closer, running, pipe, before, status>>

Spawns ==
  /\ starter = "spawn"
  /\ \E d \in Daemons :
       /\ phase[d] = "none" /\ \A e \in Daemons : e < d => phase[e] # "none"
       /\ phase' = [phase EXCEPT ![d] = "init"]
       /\ proc' = d
  /\ pipe' = 0 /\ starter' = "poll"
  /\ UNCHANGED <<closer, running, before, status, serving, queue, recorded, monitor,
                 channel, receiver>>

SpawnFails ==
  /\ starter = "spawn" /\ starter' = "idle"
  /\ UNCHANGED <<proc, closer, running, pipe, before, status, daemons, channel, receiver>>

PollConnects ==
  /\ starter = "poll"
  /\ \E d \in Daemons : ConnectsTo(d)
  /\ starter' = "connected"
  /\ UNCHANGED <<proc, closer, running, before, status, receiver>>

(* The process has exited, or 150 tries of 100 ms have passed.             *)
StartFails ==
  /\ starter = "poll" /\ pipe = 0
  /\ Dying(IF proc = 0 THEN {} ELSE {proc})
  /\ proc' = 0 /\ starter' = "idle"
  /\ UNCHANGED <<closer, running, pipe, before, status>>

(* daemon_connected, with status_thread_start.                             *)
SessionBegins ==
  /\ starter = "connected"
  /\ running' = TRUE /\ before' = asked /\ starter' = "config"
  /\ IF handle # 0
     THEN UNCHANGED <<statusStop, thread, handle>>
     ELSE \E t \in StatusThreads :
            /\ thread[t] = "off" /\ \A u \in StatusThreads : u < t => thread[u] # "off"
            /\ handle' = t /\ thread' = [thread EXCEPT ![t] = "asleep"]
            /\ statusStop' = FALSE
  /\ UNCHANGED <<proc, closer, pipe, mine, lock, latest, fresh, asked, overlap, daemons,
                 channel, receiver>>

SendsConfig ==
  /\ starter = "config"
  /\ Writes("CAMD") /\ starter' = "idle"
  /\ UNCHANGED <<proc, closer, running, pipe, before, status, daemons, end, replies,
                 gone, receiver>>

-----------------------------------------------------------------------------
(* shutdown_daemon.  "Not is it connected but is there a process."         *)
NeededConnected == running
Needed == running \/ proc # 0

Closes ==
  /\ closer = "idle" /\ Needed
  /\ closer' = IF handle = 0 THEN "stop" ELSE "join"
  /\ owed' = {proc} \ {0}
  /\ statusStop' = (statusStop \/ handle # 0)
  /\ overlap' = (overlap \/ starter # "idle")
  /\ UNCHANGED <<starting, running, pipe, before, handle, thread, mine, lock, latest,
                 fresh, asked, daemons, channel, power, killedLit, raced, cuts>>

NothingToClose ==
  /\ closer = "idle" /\ ~Needed
  /\ closer' = "done" /\ owed' = {proc} \ {0}
  /\ UNCHANGED <<starting, running, pipe, before, status, daemons, channel, power,
                 killedLit, raced, cuts>>

Returns ==
  /\ closer = "done" /\ closer' = "idle" /\ owed' = {}
  /\ UNCHANGED <<starting, running, pipe, before, status, daemons, channel, power,
                 killedLit, raced, cuts>>

FreshKept == fresh
FreshCleared == FALSE

JoinEnds ==
  /\ closer' = "stop"
  /\ handle' = 0 /\ fresh' = FreshCleared
  /\ UNCHANGED <<starting, running, pipe, before, statusStop, thread, mine, lock,
                 latest, asked, daemons, channel, receiver>>

JoinsStatus ==
  closer = "join" /\ thread[handle] = "off" /\ JoinEnds /\ UNCHANGED overlap

(* Only a write that blocks lasts longer than 3 s: the thread is left.     *)
LeavesStatus ==
  closer = "join" /\ thread[handle] = "blocked" /\ JoinEnds /\ overlap' = TRUE

SendsStop ==
  /\ closer = "stop" /\ pipe # 0
  /\ Writes("STOP") /\ closer' = "quit"
  /\ UNCHANGED <<starting, running, pipe, before, status, daemons, end, replies, gone,
                 receiver>>

SendsQuit ==
  /\ closer = "quit" /\ pipe # 0
  /\ Writes("QUIT") /\ closer' = "hangup"
  /\ UNCHANGED <<starting, running, pipe, before, status, daemons, end, replies, gone,
                 receiver>>

HangsUp ==
  /\ closer = "hangup" /\ closer' = "wait"
  /\ gone' = gone \union {pipe} /\ pipe' = 0
  /\ replies' = [replies EXCEPT ![pipe] = <<>>]
  /\ UNCHANGED <<starting, running, before, status, daemons, end, wire, receiver>>

NeverConnected ==
  /\ closer = "stop" /\ pipe = 0 /\ closer' = "wait"
  /\ UNCHANGED <<starting, running, pipe, before, status, daemons, channel, receiver>>

Closed == closer' = "done" /\ proc' = 0 /\ running' = FALSE

WaitsForExit ==
  /\ closer = "wait" /\ (proc # 0 => phase[proc] = "dead")
  /\ Closed
  /\ UNCHANGED <<starter, pipe, before, status, daemons, channel, receiver>>

(* 9 s: the daemon initialises, tunes or closes for longer than that, or   *)
(* has no QUIT to read.                                                    *)
Idle(d) == phase[d] = "listening" /\ queue[d] = <<>>
AwaitsLine(d) ==
  phase[d] = "serving" /\ wire[serving[d]] = <<>> /\ serving[d] \notin gone

WaitsOn == FALSE /\ UNCHANGED vars

KillsDaemon ==
  /\ closer = "wait" /\ proc # 0
  /\ \/ phase[proc] \in {"init", "tuning", "leaving", "closing"}
     \/ Idle(proc) \/ AwaitsLine(proc)
  /\ Dying({proc})
  /\ Closed
  /\ UNCHANGED <<starter, pipe, before, status>>

(* A command of the program, while the session lasts.                      *)
SendsTune ==
  /\ running /\ closer = "idle" /\ pipe # 0 /\ ~Lost(pipe)
  /\ Writes("TUNE")
  /\ UNCHANGED <<starting, closer, running, pipe, before, status, daemons, end, replies,
                 gone, receiver>>

-----------------------------------------------------------------------------
(* status_worker and status_round_trip.                                    *)
Moves(t, step) == thread' = [thread EXCEPT ![t] = step]
outsideStatus == <<starting, closer, running, pipe, before, daemons, receiver>>

StatusEnds(t) ==
  /\ thread[t] = "asleep" /\ statusStop
  /\ Moves(t, "off")
  /\ UNCHANGED <<outsideStatus, overlap, handle, statusStop, mine, lock, latest, fresh,
                 asked, channel>>

StatusWakes(t) ==
  /\ thread[t] = "asleep" /\ ~statusStop
  /\ running /\ pipe # 0 /\ asked < MaxAsks
  /\ Moves(t, "asking")
  /\ UNCHANGED <<outsideStatus, overlap, handle, statusStop, mine, lock, latest, fresh,
                 asked, channel>>

AskWritten(c) ==
  /\ asked' = asked + 1
  /\ wire' = [wire EXCEPT ![c] = Append(@, Status(asked'))]

StatusAsks(t) ==
  /\ thread[t] = "asking" /\ lock = 0 /\ ~Lost(pipe) /\ Free(pipe)
  /\ AskWritten(pipe) /\ Moves(t, "waiting")
  /\ UNCHANGED <<outsideStatus, overlap, handle, statusStop, mine, lock, latest, fresh, end,
                 replies, gone>>

StatusBlocks(t) ==
  /\ thread[t] = "asking" /\ lock = 0 /\ ~Lost(pipe) /\ ~Free(pipe)
  /\ lock' = t /\ mine' = [mine EXCEPT ![t] = pipe] /\ Moves(t, "blocked")
  /\ UNCHANGED <<outsideStatus, overlap, handle, statusStop, latest, fresh, asked, channel>>

StatusUnblocks(t) ==
  /\ thread[t] = "blocked" /\ ~Lost(mine[t]) /\ mine[t] \notin gone /\ Free(mine[t])
  /\ AskWritten(mine[t]) /\ lock' = 0 /\ Moves(t, "waiting")
  /\ mine' = [mine EXCEPT ![t] = 0]
  /\ UNCHANGED <<outsideStatus, overlap, handle, statusStop, latest, fresh, end, replies, gone>>

StatusFails(t) ==
  /\ \/ thread[t] = "asking" /\ Lost(pipe) /\ lock = 0
     \/ thread[t] = "blocked" /\ (Lost(mine[t]) \/ mine[t] \in gone)
  /\ lock' = 0
  /\ mine' = [mine EXCEPT ![t] = 0] /\ Moves(t, "asleep")
  /\ UNCHANGED <<outsideStatus, overlap, handle, statusStop, latest, fresh, asked, channel>>

(* One read takes whatever has come; its first line is the reading.        *)
StatusReads(t) ==
  /\ thread[t] = "waiting" /\ pipe # 0 /\ replies[pipe] # <<>>
  /\ replies' = [replies EXCEPT ![pipe] = <<>>]
  /\ IF running
     THEN mine' = [mine EXCEPT ![t] = Head(replies[pipe])] /\ Moves(t, "holding")
     ELSE Moves(t, "asleep") /\ UNCHANGED mine
  /\ UNCHANGED <<outsideStatus, overlap, handle, statusStop, lock, latest, fresh, asked, end,
                 wire, gone>>

(* No channel, told to stop, or 1.5 s without an answer.                   *)
StatusGivesUp(t) ==
  /\ thread[t] = "waiting"
  /\ Moves(t, "asleep")
  /\ UNCHANGED <<outsideStatus, overlap, handle, statusStop, mine, lock, latest, fresh,
                 asked, channel>>

StatusStores(t) ==
  /\ thread[t] = "holding"
  /\ latest' = mine[t] /\ fresh' = TRUE
  /\ mine' = [mine EXCEPT ![t] = 0] /\ Moves(t, "asleep")
  /\ UNCHANGED <<outsideStatus, overlap, handle, statusStop, lock, asked, channel>>

(* usb_dvbs2_poll.                                                         *)
Polls ==
  /\ running /\ fresh /\ fresh' = FALSE
  /\ UNCHANGED <<outsideStatus, overlap, handle, statusStop, thread, mine, lock, latest, asked,
                 channel>>

-----------------------------------------------------------------------------
(* The daemon.  The device is open from its cold init to its end, and the  *)
(* kernel gives it to one process at a time.                               *)
client == <<starting, closer, running, pipe, before, status>>
Become(d, p) == phase' = [phase EXCEPT ![d] = p]

InitEnds(d) ==
  /\ phase[d] = "init" /\ \A e \in Daemons \ {d} : ~Living(e)
  /\ power' = FALSE /\ killedLit' = FALSE /\ raced' = FALSE
  /\ Become(d, "listening")
  /\ UNCHANGED <<client, serving, queue, recorded, monitor, channel, cuts, owed>>

InitFails(d) ==
  /\ phase[d] = "init" /\ Become(d, "dead")
  /\ UNCHANGED <<client, serving, queue, recorded, monitor, channel, receiver>>

Accepts(d) ==
  /\ phase[d] = "listening" /\ queue[d] # <<>>
  /\ serving' = [serving EXCEPT ![d] = Head(queue[d])]
  /\ queue' = [queue EXCEPT ![d] = Tail(@)]
  /\ Become(d, "serving")
  /\ UNCHANGED <<client, recorded, monitor, channel, receiver>>

(* The next line of a read.                                                *)
HasLine(d) == phase[d] = "serving" /\ wire[serving[d]] # <<>>
Line(d) == Head(wire[serving[d]])
Taken(d) == wire' = [wire EXCEPT ![serving[d]] = Tail(@)]

(* usb_dvbs2_engine_tune waits for g_tune_lock, lights the LNB, unless it  *)
(* fails before or streams already, and records what it tuned to, unless   *)
(* it fails after.                                                         *)
HandlesTune(d) ==
  /\ HasLine(d) /\ Line(d).cmd = "TUNE"
  /\ Taken(d) /\ Become(d, "tuning")
  /\ UNCHANGED <<client, serving, queue, recorded, monitor, end, replies, gone,
                 receiver>>

TuneLights(d) ==
  /\ phase[d] = "tuning" /\ monitor[d] = "asleep"
  /\ power' = TRUE
  /\ UNCHANGED <<client, daemons, channel, killedLit, raced, cuts, owed>>

TuneEnds(d) ==
  /\ phase[d] = "tuning" /\ monitor[d] = "asleep"
  /\ recorded' \in {recorded, [recorded EXCEPT ![d] = TRUE]}
  /\ Become(d, "serving")
  /\ UNCHANGED <<client, serving, queue, monitor, channel, receiver>>

(* daemon_signal_monitor: no data for 5 or 8 s, with or without a client   *)
(* to want any.  It looks at g_quit once, before it takes the lock.        *)
MonitorDecides(d) ==
  /\ phase[d] \in {"listening", "serving"} /\ recorded[d]
  /\ monitor[d] = "asleep" /\ monitor' = [monitor EXCEPT ![d] = "relighting"]
  /\ UNCHANGED <<client, phase, serving, queue, recorded, channel, receiver>>

(* The demodulator still held its carrier, the re-acquisition failed, or   *)
(* the LNB is lit.                                                         *)
MonitorRelights(d) ==
  /\ monitor[d] = "relighting" /\ monitor' = [monitor EXCEPT ![d] = "asleep"]
  /\ power' \in {power, TRUE}
  /\ raced' = (raced \/ (power' /\ phase[d] = "closing"))
  /\ UNCHANGED <<client, phase, serving, queue, recorded, channel, killedLit, cuts,
                 owed>>

(* usb_dvbs2_engine_lnb_off: what was tuned to stays recorded.             *)
HandlesStop(d) ==
  /\ HasLine(d) /\ Line(d).cmd = "STOP"
  /\ Taken(d) /\ power' = FALSE
  /\ UNCHANGED <<client, daemons, end, replies, gone, killedLit, raced, cuts, owed>>

HandlesStatus(d) ==
  /\ HasLine(d) /\ Line(d).cmd = "STATUS"
  /\ Taken(d)
  /\ replies' = [replies EXCEPT ![serving[d]] =
                   IF serving[d] \in gone THEN @ ELSE Append(@, Line(d).n)]
  /\ UNCHANGED <<client, daemons, end, gone, receiver>>

HandlesConfig(d) ==
  /\ HasLine(d) /\ Line(d).cmd = "CAMD"
  /\ Taken(d)
  /\ UNCHANGED <<client, daemons, end, replies, gone, receiver>>

(* Commands are split where a read ends: both halves of a cut line are     *)
(* taken for commands and ignored, but a cut TUNE may still be one.        *)
CutsLine(d) ==
  /\ HasLine(d) /\ cuts < MaxCuts
  /\ Taken(d) /\ cuts' = cuts + 1
  /\ \/ UNCHANGED phase
     \/ Line(d).cmd = "TUNE" /\ Become(d, "tuning")
  /\ UNCHANGED <<client, serving, queue, recorded, monitor, end, replies, gone, power,
                 killedLit, raced, owed>>

(* dtv_ipc_disconnect and usb_dvbs2_engine_lnb_off, on every way out of    *)
(* the reading loop.                                                       *)
PowerKept == power
PowerAfter == FALSE

Disconnects(d, next) ==
  /\ serving' = [serving EXCEPT ![d] = 0]
  /\ power' = PowerAfter /\ Become(d, next)
  /\ UNCHANGED <<client, queue, recorded, monitor, end, replies, gone, killedLit, raced,
                 cuts, owed>>

HandlesQuit(d) ==
  /\ HasLine(d) /\ Line(d).cmd = "QUIT"
  /\ Taken(d) /\ Disconnects(d, "leaving")

ClientGone(d) ==
  /\ phase[d] = "serving" /\ wire[serving[d]] = <<>> /\ serving[d] \in gone
  /\ Disconnects(d, "listening") /\ UNCHANGED wire

(* SIGTERM, SIGINT or SIGHUP: the waits for a client and for a command end.*)
Interrupted(d) ==
  /\ \/ phase[d] = "listening"
     \/ phase[d] = "serving" /\ wire[serving[d]] = <<>>
  /\ Disconnects(d, "leaving") /\ UNCHANGED wire

(* usb_dvbs2_engine_close: g_quit, the stream thread's end, then the power *)
(* off a second time, without g_tune_lock; the monitor is not waited for.  *)
PowersDown(d) ==
  /\ phase[d] = "leaving" /\ Become(d, "closing")
  /\ power' = FALSE
  /\ UNCHANGED <<client, serving, queue, recorded, monitor, channel, killedLit, raced,
                 cuts, owed>>

Leaves(d) ==
  /\ phase[d] = "closing" /\ Ending({d})
  /\ UNCHANGED <<client, receiver>>

-----------------------------------------------------------------------------
Start ==
  \/ Reuses \/ FindsNone \/ KillsStale \/ Spawns \/ SpawnFails
  \/ PollConnects \/ StartFails \/ SessionBegins \/ SendsConfig
CloseSteps ==
  \/ JoinsStatus \/ LeavesStatus \/ SendsStop \/ SendsQuit \/ HangsUp
  \/ NeverConnected \/ WaitsForExit \/ KillsDaemon \/ Returns
StatusStep(t) ==
  \/ StatusEnds(t) \/ StatusWakes(t) \/ StatusAsks(t) \/ StatusBlocks(t)
  \/ StatusUnblocks(t) \/ StatusFails(t) \/ StatusReads(t) \/ StatusGivesUp(t)
  \/ StatusStores(t)
Serves(d) ==
  \/ Accepts(d) \/ HandlesTune(d) \/ TuneLights(d) \/ TuneEnds(d) \/ HandlesStop(d)
  \/ HandlesStatus(d) \/ HandlesConfig(d) \/ HandlesQuit(d) \/ ClientGone(d)
  \/ PowersDown(d) \/ Leaves(d)
DaemonStep(d) ==
  \/ Serves(d) \/ InitEnds(d) \/ InitFails(d) \/ CutsLine(d) \/ Interrupted(d)
  \/ MonitorDecides(d) \/ MonitorRelights(d)

Next ==
  \/ Start \/ Closes \/ NothingToClose \/ CloseSteps \/ SendsTune \/ Polls
  \/ \E t \in StatusThreads : StatusStep(t)
  \/ \E d \in Daemons : DaemonStep(d)

Spec == Init /\ [][Next]_vars

Fairness ==
  /\ WF_vars(CloseSteps)
  /\ \A t \in StatusThreads : WF_vars(StatusStep(t))
  /\ \A d \in Daemons : WF_vars(Serves(d)) /\ WF_vars(MonitorRelights(d))

FairSpec == Spec /\ Fairness

-----------------------------------------------------------------------------
TypeOK ==
  /\ starter \in {"idle", "kill", "spawn", "poll", "connected", "config"}
  /\ closer \in {"idle", "join", "stop", "quit", "hangup", "wait", "done"}
  /\ running \in BOOLEAN /\ statusStop \in BOOLEAN /\ fresh \in BOOLEAN
  /\ pipe \in Connections \union {0} /\ proc \in Daemons \union {0}
  /\ handle \in StatusThreads \union {0} /\ lock \in StatusThreads \union {0}
  /\ thread \in [StatusThreads ->
       {"off", "asleep", "asking", "blocked", "waiting", "holding"}]
  /\ mine \in [StatusThreads -> Nat]
  /\ latest \in Nat /\ asked \in Nat /\ before \in Nat /\ cuts \in Nat
  /\ phase \in [Daemons -> Phases]
  /\ serving \in [Daemons -> Connections \union {0}]
  /\ queue \in [Daemons -> Seq(Connections)]
  /\ end \in [Connections -> Daemons \union {0}]
  /\ wire \in [Connections -> Seq([cmd : CommandsSent, n : Nat])]
  /\ replies \in [Connections -> Seq(Nat)]
  /\ gone \subseteq Connections /\ owed \subseteq Daemons
  /\ recorded \in [Daemons -> BOOLEAN]
  /\ monitor \in [Daemons -> {"asleep", "relighting"}]
  /\ {power, killedLit, raced, overlap} \subseteq BOOLEAN

(* "Sending both stops the receiver": after a shutdown the dish is dark    *)
(* once the daemon has come to rest, whichever command was cut in two,     *)
(* whatever its monitor was doing, even with the start still under way -   *)
(* unless a daemon was killed with the power on, its monitor lit the LNB   *)
(* behind the power-down of engine_close, or a daemon the session did not  *)
(* start lost its QUIT: it goes on listening, and its monitor lights the   *)
(* LNB again for the tune that STOP and the disconnection left recorded.   *)
Rests(d) == ~Living(d) \/ phase[d] = "init" \/ Idle(d)

DarkAfterShutdown ==
  ~running /\ closer \in {"idle", "done"} /\ (\A d \in Daemons : Rests(d)) /\ power
    => killedLit \/ raced \/ \E d \in Daemons : Idle(d) /\ recorded[d]

(* "leaving the daemon running": when usb_dvbs2_stop returns, the process  *)
(* it found is dead, even if a start was still waiting for its channel and *)
(* connects, gives up or fails while the stop is under way.                *)
NoneLeftBehind == closer = "done" => \A d \in owed : ~Living(d)

(* A reading handed to the program was asked for in this session, not left *)
(* over from one before, whatever answers came late.                       *)
ReadingOfSession == fresh /\ running /\ ~overlap => latest > before

(* A shutdown ends, whatever the status thread was doing.                  *)
ShutsDown == closer # "idle" ~> closer = "idle"
=============================================================================
