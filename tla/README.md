# usb-dvbs2-driver in TLA+

Models, model-checking runs and proofs for the DVB-S2 USB receiver driver: a
daemon that drives a bridge, a tuner, a demodulator and a dish, captures the
transport stream, descrambles it with a card server and sends it to a player,
and the client library that starts and stops this daemon. Sources are named
relative to the repository's root.

- [The system](#the-system): inventory of the components
- [Modules](#modules): how state and actions correspond to the code
- [Runs](#runs): what is checked, the bounds, the fairness
- [Disagreements](#where-code-and-words-disagree)
- [Proofs](#proofs)
- [Plan](#plan) and [what is not modelled](#not-modelled)

## The system

One process, the daemon (`daemon/usb_dvbs2_daemon.c`), hosts the engine
(`engine/usb_dvbs2_engine.c`) and runs these threads:

| thread | code | talks to |
|---|---|---|
| command | `main` of the daemon, `usb_dvbs2_engine_*`, `set_channel` | control channel, bridge, card client |
| signal monitor | `daemon_signal_monitor`, detached | bridge, through `daemon_tune` |
| stream | `daemon_stream_thread` | USB capture, card client, UDP output |
| USB event | `stream_event_thread` | libusb, the ring |
| card worker | `camd_worker` | the card server |

They share the engine's globals (`g_tuned`, `g_svc`, `g_pid_epoch`, ...), some
under `g_tune_lock` or `g_lock`, some without; the ring of the capture, under
its lock; and the card client's store, under its own. The other process is the
program that uses the client library (`sdk/usb_dvbs2.c`): its calls on one
thread, a status thread that asks for the signal on another, and one channel to
the daemon between them.

| component | state | operations | what is hard | what makes it correct | module |
|---|---|---|---|---|---|
| Tuning, LNB and monitor (`engine/usb_dvbs2_engine.c`) | recorded transponder, `g_tuned`, `g_lnb_enabled`, `g_lnb_relight`, data tick | `daemon_tune`, `lnb_power_down`, monitor, `engine_tune`, `lnb_off`, `close` | two threads over one bridge, a power-down without the lock, writes that fail half way, a cable that comes and goes | a tuned receiver has the dish it recorded; an exit leaves it dark; reception comes back by itself | ReceiverTuning, Board |
| AVL62X1, RDA5815M (`core/avl62x1.c`, `core/rda5815m.c`) | registers, mailbox, patch script | boot, patch script, LNB, DiSEqC, acquisition | read-modify-write of a register two threads write, partial writes | no message over the tone; no board ready with half its patch | Board |
| Bridge (`core/it9300.c`) | sequence number | command and reply, register access, I2C, firmware | late and refused replies | a reply belongs to its command | Board |
| USB capture (`core/usb_backend.c`) | transfers, `in_flight`, `stopping`, `lost`, ring | `dtv_usb_stream_open/read/lost/flush/close`, completion callback | cancel against resubmit, wrap-around and overrun, freeing | an ordered bounded queue; nothing freed in use; loss told once | UsbStream, ByteQueue |
| Card client (`core/dtv_camd.c`) | candidates, pending ECM, words and flags, generation, connection | `set_service`, `submit_ecm`, `get_keys`, worker, stop | answers that come after a change, a pid written outside the lock, rotation | no foreign word in a picture; it ends up on a CA system with a card | CamClient, CardLink |
| Card protocols (`core/dtv_camd_newcamd.c`, `core/dtv_camd_cs378x.c`) | message ids, session keys | login, ECM, answer, keepalive | late, lost and refused answers, broken connections | an answer belongs to its request; the client gets back in | CardLink |
| Stream thread and channel (`engine/usb_dvbs2_engine.c`) | epoch, pids learned, timers, extra services | `set_channel`, one pass per read | channel changed in the middle of a pass | one pass, one channel | ChannelStream |
| PSI and UDP (`engine/ts_udp.c`) | section assemblers, continuity counters | assemble, filter, rewrite PAT and PMT | sections split over packets | a section is delivered whole or not at all | ChannelStream, in part |
| EPG (`engine/usb_dvbs2_engine.c`, `core/ts_epg.c`) | assembler, now and next, sent-event table | assemble, parse, deduplicate, report | a table at its limit, reset by another thread | now and next of the service watched; each event told again on return | Guide, Sections |
| Scan tables (`core/ts_services.c`) | a context per pid, services, carriers | assemble, check, parse | torn captures, order of the tables | nothing made up, nothing heard missing | ScanTables, Sections |
| Daemon loop, command channel (`daemon/usb_dvbs2_daemon.c`, `core/dtv_ipc.c`) | input buffer, the client | accept, split, dispatch, disconnect | partial reads, a client that vanishes | no end of a session leaves the dish powered | Session |
| Client library (`sdk/usb_dvbs2.c`, `sdk/dtv_process.c`) | daemon handle, status thread | start, send, status, stop | timeouts racing answers, a stop during a start | a reply is of the own session; no daemon left behind | Session |
| Platform (`core/dtv_platform.c`, `core/dtv_thread.c`, `core/dtv_net.c`) | events, joins | wait, signal, join with a timeout | - | modelled where it is called | - |
| Ciphers (`core/dtv_csa.c`, `core/dtv_camd_crypt.c`, `core/dtv_sha256.c`) | keys | pure | - | test vectors | - |
| Profiles, firmware check, tools, vendored code | tables | sequential | - | - | - |

PROJECT.json lists each with its status, and under "hazards" the places that
are hard to test, with the properties that watch them or the reason why none
does.

## Modules

Each module has an `MC` module of instances; eight have a `_proofs` module.
Names follow the code. Data is cut to what the properties tell apart. The order
is that of what a failure costs: the dish, the capture, the descrambling, the
channel; then what lies below them (Board), beside them (CardLink, Guide,
ScanTables) and above them (Session).

**ReceiverTuning** is `daemon_tune`, `lnb_power_down`, the monitor and the
engine calls that reach them. Two threads, `cmd` and `mon`, have a location
`pc`; every register write that reaches the dish is a step (`TuneCycles`,
`TuneSupplies`, `TuneSwitches`, `TuneTones`, `CutTone`, `CutVolts`), so is the
flag that follows it (`TuneCycled`, `TuneLit`, `CutDone`). `SetVoltage` and
`HalfSetVoltage` are the two pin writes of `avl62x1_set_lnb_voltage` and the
failure of the second. The idle time `now - g_stream_data_tick` is kept in the
four classes the code tells apart (3 s, 5 s, 8 s). The board is modelled with
its supply latching off when the cable goes and released by losing power,
which is what the relight of the monitor is for. `mishaps` is a history: it
collects what the code overlooks and cannot repair - a tone write or a cut
whose result nobody looks at (`tone_lost`, `cut_lost`), a supply left half
written (`half_lit`), a power-down that met the monitor (`raced`) - and the
strong properties hold of behaviours without one. Of what these exceptions
hide, the violation run `rx_stop` shows one case, the relight after a STOP; the
others are named in the properties and not searched further.

**UsbStream** is the capture: the event thread with the callback
`stream_complete` cut at each access to shared state (look at `stopping`,
store, submit again, retire, report), the stream thread that opens, reads,
flushes and closes, and `usb_dvbs2_engine_close`. A transfer is with libusb,
done, or with nobody. Bytes are numbered as they arrive. `dtv_usb_stream_open`
may submit any subset and may fail to start its event thread; `close` may give
up after its 5 s.

**ByteQueue** is the abstract specification of the ring: a bounded queue,
whole chunks dropped and counted when they do not fit, oldest first, and a
flush that forgets. `UsbStream!Waiting` is the refinement mapping
(`ImplementsQueue`).

**CamClient** is the card client with its two users. `cmd` runs `set_channel`
in its three parts (service, epoch, parking); `stream` one pass per read, in
the order of the code (copy the service, look at the epoch, read the pid, take
the keys, handle packets); `worker` the connection. `SetService` is
`dtv_camd_set_service`, which both `cmd` and `stream` call, and every caller
continues with `apply_candidate`, whose pid is written after the lock is
released (`ApplyCandidate`, `ActivateCandidate`). ECMs and words are named by
the pid of the ECM. The generation is only ever compared with the one seen
last, and is kept as the result, `fresh`. `ComparesIds` says which protocol the
card server speaks: newcamd knows an answer by the id of its request, cs378x
takes whichever comes next, so that an answer that was late (`TimesOut`, `owed`)
is read for the ECM sent after it (`Receives`). Three histories: `leaked` and
`mistaken`, a word had one of the five ways into another service's picture named
at `NoForeignKey`, the late answer of cs378x being the fifth; `strayed`, a race
took the candidates away or left a wrong pid. The status text, statistics,
repeats of an ECM and BISS are left out.

**ChannelStream** is what reaches the player: the pass of the stream thread
composed with the commands that change it under way. `cmd` tunes (`TunePauses`,
`TuneMoves`, `TuneEnds`), chooses a channel in two steps (`SetChannel`,
`BumpEpoch`) or an extra service (`SetExtra`, `BumpExtra`); `mon` tunes again to
the carrier that is set; `stream` looks at `g_tuned` (`LooksPaused`,
`LooksTuned`), copies the channel, notices the epochs, refreshes the extra slot,
reads (`ReadsNothing`, `Drains`, `ClosesWindow`, `Reads`, `ReadsLate`) and
handles packets (`FindsPat`, `FindsPmt`, `OpensVideo`, `EndsPass`). What is
broadcast is a constant: by carrier and service a PMT pid, a set of streams and
whether they are scrambled; `PmtOf` and `Own` are what `pat_lookup_pmt_pid` and
`udp_ts_send_selected_pmt` find there. Bytes are runs tagged with the carrier
they come from, and a read is of one run, so a retune in the middle of anything
shows. The two waits are kept by what they wait for: `heard` is what came since
`service_wait_start`, and `TS_SERVICE_WAIT_MS` runs out when everything due was
heard, or in silence, since the code counts time and not data. Five histories
name what the code does not repair, and the properties hold without it:
`torn`, a channel was copied on one side of an epoch and noticed on the other
(the PMT pid learned then sticks until the next channel change); `missed`, a
tune began and ended between two looks at `g_tuned`, so that nothing was
flushed; `retuned` and `slotOld`, the carrier was left without a new CHANNEL or
a new extra service, whose filters stay as they are; `copied` is the epoch a
copy belongs to. The properties also except, each by name, a teletext pid
(`TtxRight`) or PMT pid (`PmtRight`) the channel list has wrong - the table
overrules the list's video and audio pids, but not these - and a PMT pid that
two services share (`Shared`), on which the scrambling of the first table is
reported.

**Board** is what lies below `daemon_cold_init`, `daemon_tune` and
`lnb_power_down`. A thread runs a program, the sequence of the procedures it
calls; a procedure (`SetVoltage`, `SetTone`, `Transmit`, `Acquire`, `Download`,
...) is the sequence of the bridge commands it sends, in the order of the code.
`Sends` puts a command out, `TakesAck`, `TakesValue`, `TakesControl`, ... take
an answer in a later step, so the two threads interleave between the two. The
answers are one queue of which only the length shows whose they are, as in
`it9300_ctrl_msg`; `SendFails`, `Refused` and `AnswerLate` are what can go wrong
with one. An answer carries the register its value is of: an I2C read begins
where the last write of any thread has left off, a read of the bridge's memory
(`MemRead`, in `it9300_wr_reg_mask` and the firmware query) where it says. Two
histories tell a value of another register that was accepted: `wrong` of the
AVL62X1, `mistook` of the bridge's own. What follows a failure is part of the
procedure (`checked`, `then`, `sticks`, `orelse`): a return, the steps that are
done before it (`then`: the pacing turned off, the repeater closed), a result
that is or-ed or dropped. The patch script is run record by record
(`RunsRecord`), its terms folded as in `avl62x1_load_patch`; a record is what it
commands, its data is left out. Of the registers, those that two threads write
or a procedure reads back are kept: TX_CONTROL, the LNB pin, the repeater, the
mailbox.

**CardLink** is one connection of the card client after another: `Connects`,
the login of newcamd (`SendsLogin`, `LoggedIn`, `CardTold`), `Asks` and the wait
(`SkipsMessage`, `TooMany`, `Publishes`, `Refused`, `AnswerTimesOut`),
keepalives, and `dtv_camd_stop` in its two steps (`StopAsked`, `StopShuts`). A
message is a record with its id, the ECM it answers and the key it was encrypted
with, and it is readable with that key only. The server answers its
requests in any order and at any time, and may announce a card between.

**Session** is the program, the client library and the daemon. `starter` runs
`ensure_daemon`, `closer` runs `shutdown_daemon`, which may come while the start
is waiting; status threads ask under `g_pipe_lock`. A daemon is in one of the
`Phases`; the channel keeps what was written and not read (`wire`), what was
answered (`replies`) and the connections not accepted. `CutsLine` is the read
that ends in the middle of a line: the halves are two commands that nobody
knows, or a TUNE with less to it. `KillsStale`, `KillsDaemon` and `StartFails`
end a process wherever it is. Of the receiver the module has the LNB's power,
the tune that a daemon has recorded (`g_freq_khz`), and its signal monitor,
which lights the LNB again for that tune (`MonitorDecides`, `MonitorRelights`),
with or without a client, until the process ends: `HandlesStop` and
`Disconnects` cut the power and leave the record, as `usb_dvbs2_engine_lnb_off`
does. A daemon left over from an earlier program may have a tune recorded and be
lit (`LeftBehind`). The end of a daemon is in two steps, the power-down of
`usb_dvbs2_engine_close` (`PowersDown`) and the end of the process (`Leaves`),
for the monitor is not waited for. Three histories: `killedLit`, a daemon was
killed with the LNB powered; `raced`, a monitor lit it between these two steps;
and `overlap`, a shutdown came during a start or left a blocked status thread
behind.

**Sections** has the packets of a table pid: sections cut into packets of `Room`
cells and repeated for ever; Guide and ScanTables share it, and a proof module
speaks of both, so they have no name in common. **ScanTables** is the channel
scan: `Processed` and `AppendSection` are `process_payload` and `append_section`
cell by cell, the four `Parse` operators the tables. A packet may be missing
(`LosesOn`) or hold noise with any header (`Damaged`). **Guide** is the EIT path
of the stream thread: append up to the test for a whole section (`Appends`),
take its sizes (`Measures`), look at the watched service, store now and next,
skip what has no time or title, note, send, and go on behind the section.
Between two of these steps the command thread may take one: `SetsChannel`, and
the four stores of `set_channel` that are not under the lock. Within a step the
accesses of the stream thread are not split any further; where that matters the
step has more than one outcome. A store to the assembler may be lost, because
the stream thread may be between its read and its write of the same variable,
and the sizes that `Measures` finds are those of the test or what was made of
them since. When the length was reset in between, the size of what is behind the
section underflows and the process ends in the copy (`Overruns`). Neither CRC
nor continuity is checked, as in the code: a section in the assembler is
whatever cells came, its header the first of them. `Shown` is what is stored for
an event; its title goes for the service and number of the header, and a history
beside it tells which section the event's own cell was of, and whether the
thread was in step with the packets (`Synced`).

## Runs

| run | module, configuration | shows |
|---|---|---|
| `rx_all` | MCReceiverTuning, `ReceiverTuning_all` | lock, records, dark exit, spared carrier, recovery |
| `usb_threads` | MCUsbStream, `UsbStream_threads` | the ring implements ByteQueue; freeing, loss, end of a stopped capture |
| `cam_safety` | MCCamClient, `CamClient_safety` | generation, foreign words, two services |
| `cam_rotation` | MCCamClient, `CamClient_rotation` | rotation between CA systems, descrambling in the end |
| `stream_all` | MCChannelStream, `ChannelStream_all` | only the chosen service passes, the reader is told the truth, a channel plays or is reported in the end |
| `board` | MCBoard, `Board` | answers and their commands, a register mistaken is told, cold init whole or failed, no message over the tone, a lit supply is known |
| `link` | MCCardLink, `CardLink` | a word belongs to its ECM, the client gets back in, a stop ends the worker |
| `session` | MCSession, `Session` | a dark dish and no daemon after a shutdown, readings of the own session, a shutdown ends |
| `scan` | MCScanTables, `ScanTables` | nothing in a scan is made up, nothing heard whole is missing |
| `guide` | MCGuide, `Guide` | now and next go for the watched service, events are sent again after a change |
| `rx_stop`, `cam_parked` | | a violation each, see below |

Bounds, and why they are enough:

- `rx_all`: four kinds of request - the two LNB settings with and without a
  DiSEqC message, a blind acquisition, a dish fed by another receiver (0 V) and
  a voltage the supply cannot make - so that each branch of `daemon_tune` is
  taken; two calls, enough for a tune and then another one, a STOP or a close
  (the theorems carry the safety properties to any number), with the monitor
  free to tune any number of times; one failed transfer, placed at any write;
  one pull of the cable.
- `usb_threads`: two transfers, which is what it takes for one callback to
  meet the cancellation while the other is already back; chunks of up to two
  bytes, a ring of four and reads of two, so that both a store and a read are
  cut by the end of the ring, full and empty rings both have head = tail, and
  overruns happen; five bytes, more than once around.
- `cam_safety`: two services, two channel changes (leave and return, or change
  in the middle of a change), a cs378x server and one answer late on a
  connection, which may be of the service before. The proofs carry it to any
  number, and to newcamd.
- `cam_rotation`: one service with two CA systems, the first without a card,
  the second refused now and then; the client starts on the wrong one.
- `stream_all`: two carriers, of which the first has two services on one PMT pid
  and the second another service on a stream pid of the first, so that a byte
  or a filter left from before would pass; a list entry without a PMT pid, and
  one with it and a teletext pid; three commands, enough for a tune, a channel
  and a retune or another channel or an extra service; two runs of bytes, old
  and new. The proofs carry its safety properties to any carriers, lists and
  commands.
- `board`: both firmware formats; three scripts, which between them have every
  command of the interpreter that touches the bus, a condition that skips, an
  exit and every way to combine terms; a tune with everything and one with
  nothing, two tunes and a power-down, which may begin in the middle of either;
  one failed, refused or late answer, at any command; one repetition of a poll.
  With one fault `OwnValue` says that one late answer alone never mistakes a
  register of the AVL62X1, and that none of the bridge's is mistaken without
  one; what two do is not bounded by it. The proofs carry every property but
  `MistakeIsTold` to any scripts, firmware files, faults, tunes and power-downs.
- `link`: three ECMs, so that the answer to the first may come two requests
  later; two unread messages, and a wait that reads past two (newcamd) or one
  (cs378x) where the code has 64 and 8; message ids of 16 bits. Connections may
  break any number of times. The proof carries `OwnWord` to any number.
- `session`: a daemon left over and one more, two connections (a session and the
  next), two status threads (one that was left behind and its successor), one
  question, which is either the session's before or its own, and one more of a
  thread that was blocked; a channel that is full with one command, two lines cut
  in two, so that a session may lose both its STOP and its QUIT. The proofs carry
  the safety properties to any numbers.
- `scan`: five pids, of which one carries two PMTs, a full table of three
  services, a table of two carriers and four entries for it, two sections in one
  packet and sections that end in a packet where the next begins; one packet
  lost or replaced by noise, which may claim any header and pointer. The capture
  begins anywhere. The proofs carry both properties to any tables, captures and
  losses.
- `guide`: two services and four sections on packets of two cells,
  one of them empty and with the next behind it in the same packet; what is on
  now has overrun its time, so that an event of it is on now under any header;
  a lost packet leaves a section to be ended by the one behind it, of the same
  service or of the other. A table of four slots that starts over at three; one
  lost packet and two changes of channel, away and back. The proofs carry both
  properties to any sections, packets, losses and changes.

All actions of the next-state relations fire in these runs.
`CHECK_DEADLOCK FALSE` stands in the configurations of ReceiverTuning,
UsbStream, CardLink, Session, Board and Guide because those systems end: the
process exits, the capture is closed, the worker is stopped, the session is
over, the commands allowed by the bounds are used up, and the stream thread is
gone with the process when a copy overruns (`Overruns`). CamClient,
ChannelStream and ScanTables never stop and their deadlock check is on.

Fairness. Threads are weakly fair: the scheduler lets a thread that can go on
go on, and the code has no lock that is held for ever. Nobody has to send
another command or to close. Beyond this:

- `ReceiverTuning`: time passes, and `PollLocks` is strongly fair for the
  monitor - an acquisition tried again and again on a carrier that is there
  locks in the end. This is about the radio, not about the code; without it no
  receiver recovers. `Recovers` says so only while the cable is in.
- `UsbStream`: every submitted transfer ends, because it carries a timeout
  (`STREAM_TRANSFER_TIMEOUT_MS`). Bytes, stalls and failures are not forced.
- `CamClient`: the carrier repeats the PMT and the ECMs, so `FindsPmt` and
  `FindsEcm` are strongly fair (they are enabled only in the packets step of a
  pass), and a server that is asked for a word it has again and again answers
  once (`Publishes`). `Descrambles` has the premise that connections stop
  breaking.
- `ChannelStream`: a command that was begun ends, passes go on and bytes come
  while there is a carrier. The window of 150 ms closes, the tables come round
  "several times a second", the picture opens after `TS_RAI_WAIT_MS` at the
  latest and the wait for the tables runs out: each is strongly fair, being
  enabled only in the right step of a pass. That the bridge FIFO is empty of
  the old carrier when the window closes is taken from the comment at
  `TS_FIFO_FLUSH_MS`; a carrier is not forced to be tuned.
- `CardLink`: the worker, the greeting of the server, and its answers to each
  kind of request. `AsksInTheEnd` has the premises that the link lasts in the
  end (no break, no login or keepalive left without an answer) and that the
  server knows the credentials; `Ends` has none.
- `Session`: the steps of the shutdown, each status thread, each daemon while it
  serves, and a monitor that has `g_tune_lock`. The starting thread and a
  daemon's cold init owe nothing; `ShutsDown` holds whether or not they go on,
  since every wait in the code has an end.

Board, ScanTables and Guide have safety properties only: what they do is a
bounded sequence of steps for each command or packet.

Each property has a mutant in PROJECT.json, the change to the code that it is
there to catch: the lock ignored, the relight forgotten, a starved stream taken
for a lost carrier, the tail kept by a flush, an event thread not waited for, a
callback that submits again after the stop, a generation not counted, a
selection not copied, a client that never rotates, a ring not flushed at the
lock, pids kept for a new channel, a table taken whichever service it is of;
below them an answer accepted whatever its length, a firmware block whose answer
is not read, a message sent over the tone, a pacing left on; beside them a
message id that is not compared, an EIT section stored for the service it was
checked for, or an event on now taken from section 1, a bridge result that is
not or-ed, a monitor that tunes without a frequency; above them a shutdown that
looks at the connection instead of the process, a disconnect that keeps the
power, a reading not cleared.

## Where code and words disagree

- `rx_stop`: STOP "Powers the LNB down" (README.md:250), but it leaves the
  records and `g_tuned`; after 8 s the monitor finds the carrier gone, relights
  the dish and tunes.
- `cam_parked`: the client is parked "until the new PMT names its CA systems"
  (engine/usb_dvbs2_engine.c:1801), but the epoch is raised before the
  parking: a stream thread that handles the PMT in between has its report
  wiped, and does not report again on this channel.

Five more are properties of the modules that no run checks, since TLC refutes
them when asked, or exceptions in properties that hold:

- `ClosedDeviceUnused` (ReceiverTuning): the device is closed "Only when nothing
  is still reading" it (engine/usb_dvbs2_engine.c:1890), but the monitor is not
  waited for.
- `DeviceClosedIdle` (UsbStream): the device "may not be closed while any of
  them is outstanding" (engine/usb_dvbs2_engine.c:1876), but when the event
  thread does not end in 5 s the stream thread returns all the same, in time for
  the join of `close`, and the device is closed.
- `NowNotFollowing` (Guide): "section 1 must never overwrite the now field"
  (engine/usb_dvbs2_engine.c:530). It is the header's number that is looked at,
  and neither CRC nor continuity of the EIT is checked: after a lost packet a
  section 0 is completed with the bytes of section 1, and its event becomes the
  title on now if it runs, or its times say so. With a section of another service
  behind it the titles shown are of that service in the same way. TLC finds both
  in the instance of `guide`, where `NowOfService` therefore claims only the
  header, and the section itself only where the thread was in step.
- `ValidWordsOnly` (CamClient): a new service forgets the words by their flags,
  but `dtv_camd_get_keys` hands out both words when either flag is set, and the
  stream thread tells a missing word by its being zero
  (engine/usb_dvbs2_engine.c:1434): the first word of the new service brings the
  other one of the previous service with it.
- `HeardIsKnown` (ScanTables) excepts a full table: "a reassembly context per
  possible service" (core/ts_services.c:286) is not there for the last one,
  because `PSI_MAX_CONTEXTS` is two more than the services (line 11) and PAT, SDT
  and NIT take three (lines 626-628).

`OwnWord` (CardLink) holds of cs378x only as long as no answer of the connection
comes after its timeout, because `cs378x_recv_cw` does not look at the message
id (core/dtv_camd_cs378x.c:206); newcamd does, and needs no exception. After a
change of channel such an answer descrambles the new service with a word of the
old one until the next word comes: `mistaken` in CamClient.

Two more are exceptions in what Session and Board say, and one ends a module:

- `DarkAfterShutdown` (Session): "Sending both stops the receiver", and a
  disconnection powers the dish down as "nobody else can"
  (daemon/usb_dvbs2_daemon.c:351), but a daemon that was reused and whose QUIT
  was cut in two by a read goes on listening, and its monitor lights the LNB
  again for the tune that is still recorded. The monitor may also light it
  behind the power-down of `usb_dvbs2_engine_close`, which runs without
  `g_tune_lock` (`raced`).
- `OwnValue` (Board): `it9300_wr_reg_mask` reads a byte of the bridge without
  anything before it that a late answer would meet, so that one late answer of
  another register is taken, changed and written back (core/it9300.c:181-193).
  `MistakeIsTold` says what keeps this from passing for a good board: the
  command whose answer was late has failed, and `it9300_bridge_init` or-s its
  results, so that the cold init fails.
- `Overruns` (Guide): `set_channel` resets the assembler's length without a
  lock; between the test at engine/usb_dvbs2_engine.c:642 and the subtraction at
  line 643 this makes the size of the rest wrap around, and the copy at line 647
  goes past the buffer.

The passing properties hold with these in the code: `raced` in `mishaps` and in
Session, `killedLit`, `leaked`, `mistaken`, `strayed` and `late` mark exactly the
steps at which they enter.

## Proofs

TLC checks small instances; the theorems below hold for every value of the
constants, under the named assumptions of the modules: `RequestsAssumption`,
`SizesAssumption` (of UsbStream, Session and Guide), `SystemsAssumption`,
`ProgramsAssumption`, `ProtocolsAssumption`, `ScriptsAssumption`,
`ImagesAssumption`, `PacketAssumption`, `AirAssumption`, `TablesAssumption`,
`CarouselAssumption`, `BroadcastAssumption` and `BoundsAssumption`. They say
that parameters have their types and bounds are numbers; that the sections of a
carousel have the fields the parsers read (`WellFormed`); that None is no
request, transfer, carrier, service or pid; that the ring takes all transfers,
which `dtv_usb_stream_open` insists on; that a pid belongs to one CA system of
one service; that a section fits into the assembler (4096 bytes is the longest
an EIT section gets), a packet no less, and the sections of a pid fill whole
packets, with nothing but stuffing behind stuffing; that the tables of a carrier
agree on the PMT pid and the name of a service (`Agreed`: where they do not, the
code keeps what came last; only `HeardIsKnown` rests on this); and that a
connection has fewer ECMs than message ids: at one in 10 s they last a week.

**ReceiverTuning_proofs**: `TypeCorrect`, `TunesExclude` (TuneExclusive),
`DishSet` (TunedMeansDishSet), `ExitsDark` (DarkAfterExit), `CarrierSpared`
(MonitorSparesCarrier). `TunedMeansDishSet` is not inductive: `daemon_tune`
skips the LNB writes when the records agree, so one must know that they agreed
with the dish *before*, at each location of the tune. `IInv` adds `Base` (which
thread can be where, who owns the lock, that the arguments are known),
`Flagged` and `Dark` (`g_lnb_enabled` follows the pin but for one write),
`Wanted`, `Lit`, `Prepared` (how far the LNB has come in a tune under way) and
`Seen` (what the monitor saw before it took over).

**UsbStream_proofs**: `TypeCorrect`, `FreesUnused` (FreedUnused), `TellsLoss`
(LossTold) and `RingIsQueue` (ImplementsQueue). For the transfers: `in_flight`
is the number of those not back (`Counted`), a callback holds one of them
(`Serving`), the event thread is over only at zero (`Quiet`), and freeing
comes behind it (`Freeing`). For the ring: head is `used` behind tail around
the end (`Round`); from it `StoreAppends` and `ReadTakes` show, position by
position, that a store is `Arrive` and a read is `Take` of the queue wherever
they wrap. Wrapping itself is one lemma about `%` (`Wrap`).

**CamClient_proofs**: `TypeCorrect`, `OwnKeysOnly` (NoForeignKey),
`SkippedKeysSame` (GenerationTellsKeys), `AsksSelected` (AskedFollows). That
no foreign word reaches a picture follows from which service the client works
for while the stream thread is at which epoch, as long as none of the five ways
in was taken since the client was parked (`Clean`): a valid word belongs to the
client's service (`ValidOfService`), outside `set_channel` this is the selected
one (`ClientFollows`), no epoch is taken up whose client is still to be parked
(`NotAhead`), and what was installed since belongs to the channel (`KeysOwn`).

**ChannelStream_proofs**: `TypeCorrect`, `SendsOwn` (OwnPackets),
`ExtraSendsOwn` (ExtraOwnPackets) and `TellsTruth` (ToldTrue). A filter was
learned in an earlier pass, from an earlier read and for an earlier copy of the
channel, while the properties speak of the present pass. `IInv` ties the three
to what is selected and tuned now: the pass has copied the channel of the epoch
it noticed (`Copied`), what waits in the ring and what was read is of the
carrier that is set unless a pause was missed (`Clean`), and since the epoch was
taken up so is what was learned (`Learned`, `SlotOwn`) and told (`Told`). The
last needs what was *heard*: a service is called missing because its table was
due and did not come, and its pids are known from the moment it did.

**Session_proofs**: `NoneLeftBehindHolds`, `DarkAfterShutdownHolds` and
`ReadingOfSessionHolds`. A stop owes the end of the process it found, and a
start that is still under way may put another into `g_daemon_proc`; but only
after none was alive (`NoneAtSpawn`), so that what is owed is the process the
stop waits for or is dead (`Tracked`). For the LNB the invariant is `LInv`: a
monitor re-acquires only what was tuned to, in a process that lives (`Woken`),
and the LNB is powered only under a daemon that serves a client or has a tune
recorded, or behind a kill or a race that the histories name (`LitKnown`). It is
the recorded tune, which outlives STOP and the client, that makes the exception
of `DarkAfterShutdown` for a daemon that goes on listening. For the readings the
invariant is a third one, `RInv`: where the status thread can be while the
session is what it is (`Places`), and that an answer on the connection of the
session, or in the hands of a thread that asked there, was asked for after the
session began (`Channels`). It holds without `overlap`; TLC shows that with it
an old answer can be stored.

**Board_proofs**: the types (`TypeIsOK`) and all the invariants of the run but
`MistakeIsTold`: `ValueIsOwn` (OwnValue), `SoundBoardIsReady` (SoundBoardStarts),
`MessageIsAlone` (ModulatesAlone), `PacingEnds` (PacedInitOnly), `PatchIsWhole`
(ReadyIsWhole) and `SupplyIsKnown` (LitIsKnown). None of them is inductive, as
each speaks of one command and a program is a sequence of any length: the
invariant says what holds of everything that is left to run, in six layers.
`Shape`: programs are made of procedures whose commands fit their place, and
what follows a failure is one of the four things the code does then. `Tone`:
whatever is read for TX_CONTROL, each value still to be written lacks the tone
or the message, so that it does not matter which thread wrote last. `Pacing`:
while the pacing is on each way on, through success and through the failure of
any command, leads past its end. `Patching`: what lies before the next record
was run or passed over, and while records are left a procedure holds them.
`Channel`: the queue is the late answers and one for each command that waits;
without a late one a command finds its own, and behind one late answer a reading
of the AVL62X1 always meets the acknowledgement of its address, which has
another length (`Meets`). `Lit`: without a fault, what is left to run leaves the
supply dark or the flag set (`Settles`). TLC checked each layer as an invariant
of the `board` run before it was proved. Where a sequence is built by an
operator, the facts are stated for its members and length (`IsSeq`,
`Concatenated`, `SameMembers`), and induction is over a position
(`NaturalsInduction`'s least element, not its schema). These proofs and those
about tables are the largest and take about ten minutes each.

**CardLink_proofs**: `TypesHold` and `OwnWordHolds`. Within a connection an id
is used once (`Numbers`: none is above `msg_id`, and it does not wrap), so what
newcamd accepts is the answer to the request that is open (`Matched`); only
requests for a word carry an ECM (`EcmsOnly`); cs378x has at most one request
open or answered at a time as long as nothing came late (`Timely`).

**Tables_proofs**, about Guide and ScanTables: `NowOfServiceHolds`,
`ReheardHolds`, `AsBroadcastHolds` and `HeardIsKnownHolds`. The section that is
stored had the header of section 0 or 1 of a present table at the first look
(`ToStore`), and the second look is under the lock that a change of channel
takes. That its events are of that section where the thread was in step is
`InStepIsOfSection`, from the invariant of `Reheard`: the section handled is then
a whole one of the air.
`Reheard` and `HeardIsKnown` stand on the same facts about any list of
sections cut into packets: where the cycle has each section (`SectionsLieIn`:
what a fold over the sections gives, by the least position at which it would be
wrong, `UpTo`), what a pointer tells (`PointerIsIn`) and which packets a section
is in (`LastIsIn`). The invariant of `Reheard`, `Following`, says where the
thread is: from the first pointer on, with no packet lost and no reset since
(`Synced`), it stands at a place of the cycle; the assembler holds the section
that this place is in, from its beginning (`Open`), or nothing (`Between`); and
what ended before it in this packet was sent (`DoneTo`), or is left to send
(`Whole`). `Noted` adds that the table of the events seen has only events that
were sent, and the one that is being sent. What does not fit into the assembler
is stuffing (`Dropped`), and what is left of a packet at its end too
(`Exhausted`). For `AsBroadcast` the invariant is that the result is one of
`Results`: records whose every field is on the air (`ScanInv`). The parsers and
the assembler are folds, over the entries of a section and over the cells of a
packet. `FoldExists` and `FoldChain` say of the library's fold that it is the end
of a chain of steps, so that what every step keeps the fold keeps; each operator
that is folded has a lemma of its own, as no lemma can take an operator.
`HeardIsKnown` takes two arguments. A parser only adds to the result (`Grows`):
what the result tells of a section it tells to the end of the scan
(`TellingStays`), and it tells of the section that was just parsed
(`ParsedTells`), each unless a table is full. For that the contexts must be those
of the services found (`Settled`). And every section received whole is parsed:
of a section whose packets came in a row so far, the assembler of its pid holds
exactly what came (`Collecting`). This is not so within a packet, where the tail
of one section, whole sections and stuffing follow each other; there the proof
goes from cell to cell (`NextCell`, `GoesThrough`, `ReadsThrough`), from what the
assembler held before the packet, a torn section of an earlier loss included,
which the pointer ends.

Only model-checked: the liveness properties `Recovers`, `Retires`,
`LossNoticed`, `Descrambles`, `AllAnswered`, `AsksInTheEnd`, `Ends` and
`ShutsDown` (liveness under fairness and ENABLED are beyond the prover), and the
violations; and of the invariants `MistakeIsTold` (Board), which asks that every
program that reads a register of the bridge is one that reports its failures.
Every other invariant that a passing run checks is also proved. No module
declares a RECURSIVE operator.

## Plan

Done, in the order of what a failure costs: the dish and the receiver, the
capture, the descrambling, the channel; the board below them, the card
protocols, the session of program and daemon; the guide and the scan. What is
left:

1. The replacement of a card client by another (`camd_acquire` against CAMD),
   as a composition of CamClient and CardLink.
2. The rewriting of PAT and PMT (`engine/ts_udp.c`) as functions against a
   reference definition: the table that is sent names what passes, and nothing
   else.
3. The event and the join with a timeout of the platform layer, which the
   modules take as given.

## Not modelled

Parts that are left out altogether: the ciphers (pure; `csa_test` and
`camd_crypt_test` have vectors), the platform layer (modelled where it is
called), hardware profiles and the firmware hash (constants and a comparison),
the decoding of texts, dates and descriptors, device enumeration, the command
line, the diagnosis tools and vendored libraries.

Left out of the parts that are modelled:

- ReceiverTuning, Board: the values of tuner, acquisition and status registers
  and the numbers of a status; what two late answers, or an answer that a power
  cut beside a tune took away, make of a tune (`OwnValue` excepts both);
  malformed patch scripts, which the hash check keeps out; a refusal status
  other than the one the bridge is seen to send.
- UsbStream: more than one capture at a time, and single control transfers.
- CamClient, CardLink: one client is replaced by another without a reference
  held by the stream thread (engine/usb_dvbs2_engine.c:309); a BISS request that
  was refused is built again and dropped as a repeat (line 1457); an ECM that
  was taken and lost with its connection is asked about again only when the
  carrier sends the next one (core/dtv_camd.c:307), for which `AsksInTheEnd`
  speaks of waiting ECMs; layouts of messages, status text and statistics.
- ChannelStream: a retune that begins and ends within one read is not noticed
  (line 1268; `missed` marks it); the comparison of the recorded transponder in
  `usb_dvbs2_engine_tune` without the lock (line 943) is one step; loss
  counters, the signal report, the bytes of the rewritten PAT and PMT.
- Session: one client at a time is served, as in the code, and the local channel
  only, not the network one; a daemon that is quitting may be connected to by a
  starting client (sdk/usb_dvbs2.c:443), which then fails to write; a shutdown
  frees the process handle a start is still using (line 345), where the model
  keeps its number; after `overlap` nothing is claimed of readings; scans and
  the formatting of commands.
- Guide: what the section holds when a reset falls between the taking of its
  sizes and the reading of its bytes, which are those of before; headers are
  whole within a cell and so never split
  over packets; more than 64 events in a section, which `forward_epg_section`
  does not send; noise in a payload; the satellite clock.
- ScanTables: headers split over packets, NIT network names and the attributes
  of a carrier other than its presence.

External to the code and modelled from its use: libusb (how a transfer ends),
the card server (which ECM it answers, and when), what is broadcast, the dish,
the cable and the board's supply, the clock.
