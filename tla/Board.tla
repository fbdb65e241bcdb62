------------------------------- MODULE Board -------------------------------
(***************************************************************************)
(* The receiver board below daemon_cold_init, daemon_tune and              *)
(* lnb_power_down: the command channel of the IT9300 bridge (it9300.c),    *)
(* the AVL62X1 behind it with its patch interpreter, its mailbox and its   *)
(* DiSEqC transmitter (avl62x1.c) and the RDA5815M (rda5815m.c).           *)
(*                                                                         *)
(* A thread runs a program, the sequence of the procedures it calls; a     *)
(* procedure is the sequence of the bridge commands it sends.  A command   *)
(* goes out in one step and its answer is taken in a later one.  The       *)
(* answers form one queue: neither the sequence number nor the thread is   *)
(* compared, only the length shows whose answer was taken.                 *)
(***************************************************************************)
EXTENDS Naturals, Sequences, FiniteSets, SequencesExt

CONSTANTS
  Tunes,     (* the LNB settings a tune asks for                           *)
  Scripts,   (* the patch scripts, as sequences of records                 *)
  Images,    (* the bridge firmware files                                  *)
  MaxPolls,  (* bound on the readings of a poll                            *)
  MaxFaults, (* bound on the transfers that fail, come late or are refused *)
  MaxTunes, MaxCuts

ASSUME BoundsAssumption == {MaxPolls, MaxFaults, MaxTunes, MaxCuts} \subseteq Nat
ASSUME ScriptsAssumption == \A s \in Scripts : s \in Seq(Range(s))
ASSUME ImagesAssumption ==
  \A image \in Images : image.old \in BOOLEAN /\ image.pieces \in Seq(Nat)

VARIABLES
  phase,        (* of the receiver: "init", "ready" or "failed"            *)
  prog,         (* the procedures each thread has left to run              *)
  sent,         (* has the thread sent its command                         *)
  aborted,      (* did a procedure fail whose result is checked            *)
  control,      (* the thread's copy of TX_CONTROL                         *)
  tx, lnb, repeater, booted, (* registers of the AVL62X1                   *)
  pointer,      (* the register the next I2C read begins at                *)
  answers,      (* what the bridge has to be read                          *)
  pacing,       (* avl_cold_init_pacing                                    *)
  sticky,       (* the results bridge_init has or-ed                       *)
  script, at, cells, passed, (* the patch, its next record, its variables  *)
                (* and the records run or skipped                          *)
  lnbEnabled,   (* g_lnb_enabled                                           *)
  faults, late, (* transfers that failed; answers left unread              *)
  wrong,        (* history: a value of another AVL62X1 register was taken  *)
  mistook,      (* history: one of another register of the bridge          *)
  beside,       (* history: a power cut ran beside a tune                  *)
  tunes, cuts

threads == <<prog, sent, aborted, control>>
device == <<tx, lnb, repeater, booted, pointer>>
patch == <<script, at, cells, passed>>
mistakes == <<wrong, mistook>>
counts == <<faults, late, tunes, cuts>>
vars == <<phase, threads, device, answers, pacing, sticky, patch, lnbEnabled, mistakes,
          beside, counts>>

(* Cold init, and later the cuts of the command thread, are "main"; a tune *)
(* of either thread is "tuner".                                            *)
Threads == {"main", "tuner"}

-----------------------------------------------------------------------------
(* Commands.                                                               *)
Width(op) ==
  CASE op.reg \in {"LOCK", "FEC_LOCK", "FRAME_LOCK"} -> 1
    [] op.reg \in {"COMMAND", "SNR"} -> 2
    [] op.cmd = "memread" /\ op.reg # "FW_VERSION" -> IF op.reg = "1222" THEN 3 ELSE 1
    [] OTHER -> 4

W(r) == [cmd |-> "write", reg |-> r, val |-> ""]
Put(r, v) == [cmd |-> "write", reg |-> r, val |-> v]
Tx(clear, add) == [cmd |-> "tx", reg |-> "TX", clear |-> clear, add |-> add]
Bridge(c) == [cmd |-> c, reg |-> ""]
Local(c, v) == [cmd |-> c, val |-> v]
Point(r) == [cmd |-> "point", reg |-> r]
Rd(r, use, n) == [cmd |-> "read", reg |-> r, use |-> use, polls |-> n]
MemRead(r) == [cmd |-> "memread", reg |-> r]

Read(r, use) == <<Point(r), Rd(r, use, 0)>>
Poll(r) == <<Point(r), Rd(r, "poll", MaxPolls)>>
Writes(rs) == [i \in DOMAIN rs |-> W(rs[i])]

(* Only CMD_FW_DL has no answer; an answer is as long as what was asked.   *)
Silent == {"fw_dl"}
SilentScatter == {"fw_dl", "fw_scatter"}
Unanswered == Silent
AnswerLength(op) ==
  IF op.cmd \in {"read", "memread"} THEN Width(op) ELSE 0

-----------------------------------------------------------------------------
(* Procedures.  When the result is not checked the rest of the program     *)
(* follows a failure too, else only the procedures in "then".              *)
Proc(ops, checked, then) ==
  [ops |-> ops, checked |-> checked, then |-> then, sticks |-> FALSE, orelse |-> FALSE]
Unchecked(ops) == Proc(ops, FALSE, <<>>)
Checked(ops) == Proc(ops, TRUE, <<>>)
Pace(on) == Unchecked(<<Local("pace", on)>>)
Paced(ops) == Proc(ops, TRUE, <<Pace(FALSE)>>)

SendCommand(c) == Poll("COMMAND") \o <<Put("COMMAND", c)>> \o Poll("COMMAND")
TunerI2c(on) == [i \in 1..3 |-> Put("REPEATER", on)]
Off == Unchecked(TunerI2c(FALSE))
SetVoltage(v) == <<Put("LNB_ENABLE", v), W("LNB_SELECT")>>

Wave == {"w0", "w1", "send"}
SetTone(on) ==
  Read("TX", "control") \o
  (IF on THEN <<Tx(Wave, {"w0", "w1"}), Tx({}, {"tone"})>> ELSE <<Tx({"tone"}, {})>>)

(* "A continuous 22 kHz wave must be stopped before a modulated command."  *)
Quiet(body, value) ==
  IF "tone" \in value THEN <<Tx({"tone"}, {})>> \o body \o SetTone(TRUE) ELSE body
Loud(body, value) == body
Interrupting(body, value) == Quiet(body, value)
Transmit(body) ==
  <<Point("TX"), [cmd |-> "read", reg |-> "TX", use |-> "modulate", polls |-> 0,
                  body |-> body \o <<Tx({}, {"send"})>> \o Poll("TX_STATUS")]>>
SendDiseqc ==
  Transmit(Read("RX", "") \o Writes(<<"RX", "RX">>) \o <<Tx(Wave, {})>>
           \o Writes(<<"FIFO", "FIFO", "FIFO", "FIFO">>))
ToneBurst(second) == Transmit(<<Tx(Wave, {IF second THEN "w1" ELSE "w0"})>>)

DiseqcSequence(a) ==
  LET once == (IF a.uncommitted THEN <<Checked(SendDiseqc)>> ELSE <<>>) \o
              (IF a.port THEN <<Checked(SendDiseqc)>> ELSE <<>>)
  IN once \o (IF a.repeat THEN once ELSE <<>>) \o
     (IF a.burst # 0 THEN <<Checked(ToneBurst(a.burst = 2))>> ELSE <<>>)

PowerDown ==
  <<Unchecked(SetTone(FALSE)), Unchecked(SetVoltage(FALSE)),
    Unchecked(<<Local("enabled", FALSE)>>)>>

TunerInit == Writes(<<"TUNER", "TUNER", "TUNER_TABLE">>)
TunerTune == Writes(<<"TUNER_04", "TUNER_2B", "TUNER_07", "TUNER_08", "TUNER_09",
                      "TUNER_0A", "TUNER_0B", "TUNER_04", "TUNER_2B">>)

Acquire ==
  SendCommand("HALT") \o
  Writes(<<"BLIND_SR", "BLIND_CFO", "NOM_SR", "NOM_CFO", "PL_SCRAMBLE", "STREAM_TYPE",
           "STREAM_ID", "STREAM_RAW">>) \o SendCommand("ACQUIRE")
SignalStatus ==
  Read("LOCK", "") \o Read("FEC_LOCK", "") \o Read("FRAME_LOCK", "") \o Read("SNR", "")
  \o Read("SYMBOL_RATE", "")

NotNoted == <<>>
Noted == <<Unchecked(<<Local("enabled", TRUE)>>)>>
TuneRf == <<Proc(TunerI2c(TRUE), TRUE, <<Off>>), Proc(TunerTune, TRUE, <<Off>>), Off>>
Relight == <<Unchecked(SetVoltage(FALSE)), Unchecked(<<Local("enabled", FALSE)>>)>>
Supply(a, relight) ==
  IF ~a.volts THEN <<Unchecked(<<Local("ifenabled", PowerDown)>>)>>
  ELSE (IF relight THEN Relight ELSE <<>>) \o <<Checked(SetVoltage(TRUE))>> \o Noted \o
       DiseqcSequence(a) \o <<Unchecked(SetTone(a.tone))>>
Tune(a, changed, relight) ==
  TuneRf \o (IF changed THEN Supply(a, relight) ELSE <<>>) \o
  <<Checked(Acquire), Unchecked(SignalStatus)>>

-----------------------------------------------------------------------------
(* Cold init.                                                              *)
Identify == <<MemRead("1222"), MemRead("384f")>>
QueryFirmware == <<MemRead("FW_VERSION")>>

(* The old format in pieces without an answer, between BEGIN and END; the  *)
(* new one in records that are answered.                                   *)
Download(image) ==
  (IF image.old
   THEN FlattenSeq([i \in DOMAIN image.pieces |->
          <<Bridge("fw_begin")>> \o [j \in 1..image.pieces[i] |-> Bridge("fw_dl")]
          \o <<Bridge("fw_end")>>])
   ELSE [i \in DOMAIN image.pieces |-> Bridge("fw_scatter")])
  \o <<Bridge("fw_boot")>> \o QueryFirmware

Plain(r) == <<W(r)>>
Masked(r) == <<MemRead(r), W(r)>>
BridgeRegisters ==
  <<Plain("f6a7"), Plain("f103"), Plain("da1a"), Masked("f41f"), Masked("da10"),
    Masked("f41a"), Masked("da1d"), Masked("dd11"), Masked("dd13"), Masked("dd11"),
    Plain("dd88"), Plain("dd0c"), Masked("da05"), Masked("da06"), Masked("da1d"),
    Plain("d920"), Plain("d833"), Plain("d830"), Plain("d831"), Plain("d832"),
    Plain("4976"), Masked("da58"), Plain("da51"), Plain("da73"), Plain("da78"),
    Plain("da4c"), Plain("da5a"), Plain("gpio5_mode"), Plain("gpio5_en"),
    Plain("gpio5_out")>>
BridgeInitUnstuck == [i \in DOMAIN BridgeRegisters |-> Unchecked(BridgeRegisters[i])]
BridgeInit ==
  [i \in DOMAIN BridgeRegisters |->
     [Unchecked(BridgeRegisters[i]) EXCEPT !.sticks = TRUE]]
  \o <<Checked(<<Local("result", {})>>)>>

GpioSet == [i \in 1..3 |-> Unchecked(<<W("GPIO")>>)]

LoadDefaults ==
  Writes(<<"MPEG_CLOCK", "XTAL">>) \o SendCommand("LD_DEFAULT") \o
  Read("SYS_CLOCK", "") \o Read("FEC_CLOCK", "") \o Read("MPEG_CLOCK", "")
InitTunerI2c ==
  Writes(<<"TUNER_SRST", "TUNER_SRST">>) \o Read("TUNER_CONTROL", "") \o
  <<W("TUNER_CONTROL"), Put("REPEATER", FALSE)>> \o
  Writes(<<"DIVIDER", "GPIO_CLOCK", "GPIO_DATA", "GPIO_SCL", "GPIO_SDA">>)
InitDemodInput ==
  Writes(<<"FORMAT", "SELECT", "SPECTRUM", "POLARITY", "MIN_GAIN", "MAX_GAIN">>) \o
  Read("AGC", "") \o Writes(<<"AGC", "AGC1", "AGC2">>)
ConfigureTs ==
  Writes(<<"MODE", "TS_FORMAT", "EDGE", "PHASE", "ADAPT", "STRENGTH", "ERROR", "VALID",
           "PIN", "BIT_ORDER", "CONTINUOUS", "BUS_OFF", "BUS_ENABLE">>)
InitDiseqc ==
  Writes(<<"DISEQC_RESET", "SAMPLE_N", "SAMPLE_D", "FRAC_N", "FRAC_D">>) \o
  Read("TX", "control") \o
  <<Tx(Wave \union {"tone"}, {"gap", "fifo"}), Tx({"fifo"}, {})>> \o
  Writes(<<"RX", "RX_TIMEOUT", "DISEQC_RESET">>)

LoadPatchUnchecked == Unchecked(<<Local("script", {})>>)
LoadPatch == Paced(<<Local("script", {})>>)
AfterTunerInitOff == <<Off>>
AfterTunerInit == <<Off, Pace(FALSE)>>
BridgeStarts(image) ==
  <<Checked(Identify), Unchecked(QueryFirmware),
    [Checked(Download(image)) EXCEPT !.orelse = TRUE]>>
  \o BridgeInit \o GpioSet \o GpioSet \o GpioSet \o <<Checked(Read("CHIP_ID", "poll"))>>
BoardStarts ==
  <<Pace(TRUE), LoadPatch, Paced(Poll("READY")), Paced(LoadDefaults),
    Paced(InitTunerI2c), Paced(TunerI2c(TRUE)), Proc(TunerInit, TRUE, AfterTunerInit), Off,
    Paced(InitDemodInput), Paced(ConfigureTs), Paced(InitDiseqc),
    Unchecked(SetTone(FALSE)), Unchecked(SetVoltage(FALSE)), Pace(FALSE)>>
ColdInit(image) == BridgeStarts(image) \o BoardStarts

-----------------------------------------------------------------------------
(* The patch script.  A record has a condition, terms folded over the      *)
(* variables, and a command.                                               *)
Operand(term, vs) ==
  LET v == IF term.variable /\ term.op # "STORE" THEN vs[term.arg] ELSE term.arg
  IN IF term.negate THEN ~v ELSE v

Folded(c, o, op) ==
  CASE op = "LOAD" -> o [] op = "AND" -> c /\ o [] op = "OR" -> c \/ o
    [] op = "EQUALS" -> c = o [] op = "NOT_EQUALS" -> c # o

Term(acc, term) ==
  IF term.op = "STORE"
  THEN [acc EXCEPT !.vs[term.arg] = acc.holds]
  ELSE [acc EXCEPT !.holds = Folded(@, Operand(term, acc.vs), term.op)]

Condition(terms, vs) ==
  IF terms = <<>> THEN [holds |-> TRUE, vs |-> vs]
  ELSE FoldLeft(Term, [holds |-> FALSE, vs |-> vs], terms)

CommandOps(r) ==
  CASE r.command = "VALIDATE_CRC" ->
         Writes(<<"ARGS", "ARG0", "ARG1">>) \o SendCommand("CALC_CRC")
         \o Read("ARG2", "var")
    [] r.command \in {"LOAD", "LOAD_IMMEDIATE", "LOAD_PACKED"} -> <<W("MEMORY")>>
    [] r.command = "READ" -> Read("MEMORY", "var")
    [] r.command = "DMA" -> Writes(<<"MEMORY", "ARGS">>) \o SendCommand("DMA")
    [] r.command = "EXTRACT" ->
         Writes(<<"ARGS", "ARG0", "ARG1", "ARG2">>) \o SendCommand("DECOMPRESS")
    [] r.command = "ASSERT_RESET" -> <<Put("CPU_RESET", FALSE)>>
    [] r.command = "RELEASE_RESET" -> <<Put("CPU_RESET", TRUE)>>
    [] r.command = "DMA_HW" ->
         <<W("MEMORY")>> \o Poll("DMA_STATUS") \o <<W("DMA_COMMAND")>> \o Poll("DMA_STATUS")
    [] r.command = "POLL" -> Poll("MEMORY")
    [] OTHER -> <<>>

-----------------------------------------------------------------------------
Init ==
  /\ phase = "init"
  /\ \E image \in Images :
       prog = [t \in Threads |-> IF t = "main" THEN ColdInit(image) ELSE <<>>]
  /\ sent = [t \in Threads |-> FALSE] /\ aborted = [t \in Threads |-> FALSE]
  /\ control = [t \in Threads |-> {}]
  /\ tx = {} /\ lnb \in BOOLEAN /\ repeater = FALSE /\ booted = FALSE /\ pointer = ""
  /\ answers = <<>> /\ pacing = FALSE /\ sticky = FALSE
  /\ script \in Scripts /\ at = 1 /\ cells = [v \in 1..2 |-> FALSE] /\ passed = {}
  /\ lnbEnabled = FALSE /\ beside = FALSE /\ wrong = FALSE /\ mistook = FALSE
  /\ faults = 0 /\ late = 0 /\ tunes = 0 /\ cuts = 0

(* The program of a thread once ops stand for its next command; a          *)
(* procedure that ends well makes the one in its stead unnecessary.        *)
Op(t) == Head(Head(prog[t]).ops)

Rest(t, ops) ==
  LET p == Head(prog[t])
      left == ops \o Tail(p.ops)
      later == Tail(prog[t])
  IN IF left # <<>> THEN <<[p EXCEPT !.ops = left]>> \o later
     ELSE IF later # <<>> /\ Head(later).orelse THEN Tail(later) ELSE later

Continues(t, ops) ==
  prog' = [prog EXCEPT ![t] = Rest(t, ops)] /\ UNCHANGED <<aborted, sticky>>

Fails(t) ==
  LET p == Head(prog[t])
  IN /\ prog' = [prog EXCEPT ![t] =
          IF p.checked THEN p.then ELSE Tail(prog[t])]
     /\ aborted' = [aborted EXCEPT ![t] = @ \/ p.checked]
     /\ sticky' = (sticky \/ p.sticks)

Fault == faults < MaxFaults /\ faults' = faults + 1
NoFault == UNCHANGED faults

LocalOps == {"enabled", "ifenabled", "pace", "result", "script", "store", "ran"}
Sending(t) == prog[t] # <<>> /\ ~sent[t] /\ Op(t).cmd \notin LocalOps
above == <<phase, pacing, patch, lnbEnabled, beside, tunes, cuts>>

-----------------------------------------------------------------------------
(* it9300_ctrl_msg: the command.                                           *)
TxValue(t) == (control[t] \ Op(t).clear) \union Op(t).add
Computes(t) ==
  control' = IF Op(t).cmd = "tx" THEN [control EXCEPT ![t] = TxValue(t)] ELSE control

Reaches(t) ==
  LET op == Op(t)
      writes(r) == op.cmd = "write" /\ op.reg = r
  IN /\ pointer' = IF op.cmd \in {"point", "write", "tx"} THEN op.reg ELSE pointer
     /\ tx' = IF op.cmd = "tx" THEN TxValue(t) ELSE tx
     /\ lnb' = IF writes("LNB_ENABLE") THEN op.val ELSE lnb
     /\ repeater' = IF writes("REPEATER") THEN op.val ELSE repeater
     /\ booted' = IF writes("CPU_RESET") THEN op.val ELSE booted

(* An I2C read begins where the last write of any thread has left off, a   *)
(* read of the bridge's memory where it says.                              *)
ValueOf(op) ==
  CASE op.cmd = "read" -> pointer [] op.cmd = "memread" -> op.reg [] OTHER -> ""
Answer(op) == [len |-> AnswerLength(op), ok |-> TRUE, of |-> ValueOf(op)]
BridgeAnswers(cmd) == cmd # "fw_dl"

Sends(t) ==
  /\ Sending(t)
  /\ Computes(t) /\ Reaches(t)
  /\ IF Op(t).cmd \in Unanswered
     THEN Continues(t, <<>>) /\ UNCHANGED sent
     ELSE sent' = [sent EXCEPT ![t] = TRUE] /\ UNCHANGED <<prog, aborted, sticky>>
  /\ answers' = IF BridgeAnswers(Op(t).cmd) THEN Append(answers, Answer(Op(t)))
                ELSE answers
  /\ UNCHANGED <<above, mistakes, faults, late>>

SendFails(t) ==
  /\ Sending(t) /\ Fault /\ Computes(t) /\ Fails(t)
  /\ UNCHANGED <<above, sent, device, answers, mistakes, late>>

Refused(t) ==
  /\ Sending(t) /\ Op(t).cmd \notin Unanswered /\ Fault /\ Computes(t)
  /\ sent' = [sent EXCEPT ![t] = TRUE]
  /\ answers' = Append(answers, [len |-> 0, ok |-> FALSE, of |-> ""])
  /\ UNCHANGED <<above, prog, aborted, sticky, device, mistakes, late>>

(* 2 s without an answer: it stays in the queue.                           *)
AnswerLate(t) ==
  /\ sent[t] /\ Fault /\ Fails(t)
  /\ late' = late + 1 /\ sent' = [sent EXCEPT ![t] = FALSE]
  /\ UNCHANGED <<above, control, device, answers, mistakes>>

-----------------------------------------------------------------------------
(* it9300_ctrl_msg: the answer.  One of another length has its checksum    *)
(* elsewhere.                                                              *)
AcceptsAny(r, op) == r.ok
Accepts(r, op) == r.ok /\ r.len = AnswerLength(op)

LeftThere(t) == answers' = answers /\ sent' = [sent EXCEPT ![t] = FALSE]
Taken(t) == answers' = Tail(answers) /\ sent' = [sent EXCEPT ![t] = FALSE]
Arrived(t) == sent[t] /\ answers # <<>>
Accepted(t) == Arrived(t) /\ Accepts(Head(answers), Op(t))
Foreign(t) == Head(answers).of # Op(t).reg
Valued(t) == wrong' = (wrong \/ Foreign(t)) /\ UNCHANGED mistook
BridgeValued(t) == mistook' = (mistook \/ Foreign(t)) /\ UNCHANGED wrong

TakesRefusal(t) ==
  /\ Arrived(t) /\ ~Accepts(Head(answers), Op(t))
  /\ Taken(t) /\ Fails(t)
  /\ UNCHANGED <<above, control, device, mistakes, faults, late>>

TakesAck(t) ==
  /\ Accepted(t) /\ Op(t).cmd \notin {"read", "memread"}
  /\ Taken(t) /\ Continues(t, <<>>)
  /\ UNCHANGED <<above, control, device, mistakes, faults, late>>

(* it9300_query_fw_version also fails when no firmware runs: what the first *)
(* query is there to find out.                                             *)
TakesBridgeValue(t) ==
  /\ Accepted(t) /\ Op(t).cmd = "memread"
  /\ Taken(t) /\ BridgeValued(t)
  /\ \/ Continues(t, <<>>) /\ NoFault
     \/ /\ Op(t).reg = "FW_VERSION" /\ Fails(t)
        /\ IF Head(prog[t]).checked THEN Fault ELSE NoFault
  /\ UNCHANGED <<above, control, device, late>>

TakesValue(t) ==
  /\ Accepted(t) /\ Op(t).cmd = "read" /\ Op(t).use = ""
  /\ Taken(t) /\ Valued(t) /\ Continues(t, <<>>)
  /\ UNCHANGED <<above, control, device, faults, late>>

(* Another register's value is any.                                        *)
TakesControl(t) ==
  /\ Accepted(t) /\ Op(t).cmd = "read" /\ Op(t).use \in {"control", "modulate"}
  /\ Taken(t) /\ Valued(t)
  /\ \E value \in IF Head(answers).of = "TX" THEN {tx} ELSE {{}, {"tone", "send"}} :
       /\ control' = [control EXCEPT ![t] = value]
       /\ Continues(t, IF Op(t).use = "control" THEN <<>>
                       ELSE Interrupting(Op(t).body, value))
  /\ UNCHANGED <<above, device, faults, late>>

(* The polls of the mailbox, of READY, of DMA and of the transmitter.      *)
TakesPoll(t) ==
  /\ Accepted(t) /\ Op(t).cmd = "read" /\ Op(t).use = "poll"
  /\ Taken(t) /\ Valued(t)
  /\ \/ /\ Op(t).reg = "READY" => booted
        /\ Continues(t, <<>>) /\ NoFault
     \/ /\ Op(t).polls > 0
        /\ Continues(t, <<Point(Op(t).reg), Rd(Op(t).reg, "poll", Op(t).polls - 1)>>)
        /\ NoFault
     \/ Fails(t) /\ Fault
  /\ UNCHANGED <<above, control, device, late>>

TakesCell(t) ==
  /\ Accepted(t) /\ Op(t).cmd = "read" /\ Op(t).use = "var"
  /\ Taken(t) /\ Valued(t) /\ Continues(t, <<>>)
  /\ \E b \in BOOLEAN : cells' = [cells EXCEPT ![script[at].var] = b]
  /\ UNCHANGED <<phase, pacing, script, at, passed, lnbEnabled, beside, tunes, cuts,
                 control, device, faults, late>>

-----------------------------------------------------------------------------
(* What a thread does without the bus.                                     *)
bus == <<sent, control, device, answers, mistakes, faults, late, phase, beside, tunes, cuts>>
Doing(t, c) == prog[t] # <<>> /\ ~sent[t] /\ Op(t).cmd = c

SetsEnabled(t) ==
  /\ Doing(t, "enabled") /\ lnbEnabled' = Op(t).val /\ Continues(t, <<>>)
  /\ UNCHANGED <<bus, pacing, patch>>

(* lnb_power_down does nothing when the supply is known to be off.         *)
PowersDown(t) ==
  /\ Doing(t, "ifenabled")
  /\ prog' = [prog EXCEPT ![t] = (IF lnbEnabled THEN Op(t).val ELSE <<>>) \o Tail(@)]
  /\ UNCHANGED <<bus, aborted, sticky, pacing, patch, lnbEnabled>>

SetsPacing(t) ==
  /\ Doing(t, "pace") /\ pacing' = Op(t).val /\ Continues(t, <<>>)
  /\ UNCHANGED <<bus, patch, lnbEnabled>>

BridgeResult(t) ==
  /\ Doing(t, "result")
  /\ IF sticky THEN Fails(t) ELSE Continues(t, <<>>)
  /\ UNCHANGED <<bus, pacing, patch, lnbEnabled>>

(* A record of the patch.  A PING that fails is a variable, any other      *)
(* failure ends the load.                                                  *)
RunsRecord(t) ==
  LET r == script[at]
      c == Condition(r.terms, cells)
      again == <<Local("ran", at), Op(t)>>
  IN /\ Doing(t, "script") /\ at <= Len(script)
     /\ cells' = IF c.holds /\ r.command \in {"SET_CONDITION", "PING"}
                 THEN [c.vs EXCEPT ![r.var] = r.command = "SET_CONDITION"] ELSE c.vs
     /\ CASE ~c.holds ->
               at' = at + 1 /\ passed' = passed \union {at} /\ UNCHANGED prog
          [] c.holds /\ r.command = "EXIT" ->
               at' = Len(script) + 1 /\ passed' = DOMAIN script /\ UNCHANGED prog
          [] OTHER ->
               /\ prog' = [prog EXCEPT ![t] =
                    (IF r.command = "PING"
                     THEN <<Unchecked(SendCommand("PING") \o <<Local("store", {})>>)>>
                     ELSE <<>>) \o Rest(t, CommandOps(r) \o again)]
               /\ UNCHANGED <<at, passed>>
     /\ UNCHANGED <<bus, aborted, sticky, pacing, script, lnbEnabled>>

StoresCell(t) ==
  /\ Doing(t, "store") /\ Continues(t, <<>>)
  /\ cells' = [cells EXCEPT ![script[at].var] = TRUE]
  /\ UNCHANGED <<bus, pacing, script, at, passed, lnbEnabled>>

EndsRecord(t) ==
  /\ Doing(t, "ran") /\ Continues(t, <<>>)
  /\ at' = at + 1 /\ passed' = passed \union {Op(t).val}
  /\ UNCHANGED <<bus, pacing, script, cells, lnbEnabled>>

EndsScript(t) ==
  /\ Doing(t, "script") /\ at > Len(script) /\ Continues(t, <<>>)
  /\ UNCHANGED <<bus, pacing, patch, lnbEnabled>>

-----------------------------------------------------------------------------
InitEnds ==
  /\ phase = "init" /\ prog["main"] = <<>>
  /\ phase' = IF aborted["main"] THEN "failed" ELSE "ready"
  /\ script' = <<>> /\ at' = 1 /\ cells' = [v \in 1..2 |-> FALSE] /\ passed' = {}
  /\ sticky' = FALSE
  /\ UNCHANGED <<threads, device, answers, pacing, lnbEnabled, mistakes, beside, counts>>

Begins(t, program) ==
  /\ phase = "ready" /\ prog[t] = <<>>
  /\ prog' = [prog EXCEPT ![t] = program]
  /\ aborted' = [aborted EXCEPT ![t] = FALSE]
  /\ beside' = (beside \/ \E u \in Threads : prog[u] # <<>>)
  /\ UNCHANGED <<phase, sent, control, device, answers, pacing, sticky, patch,
                 lnbEnabled, mistakes, faults, late>>

StartsTune ==
  /\ tunes < MaxTunes /\ tunes' = tunes + 1 /\ UNCHANGED cuts
  /\ \E a \in Tunes, changed, relight \in BOOLEAN :
       /\ relight \/ ~lnbEnabled => changed
       /\ Begins("tuner", Tune(a, changed, relight))

StartsCut ==
  /\ cuts < MaxCuts /\ cuts' = cuts + 1 /\ UNCHANGED tunes
  /\ lnbEnabled /\ Begins("main", PowerDown)

Step(t) ==
  \/ Sends(t) \/ TakesRefusal(t) \/ TakesAck(t) \/ TakesBridgeValue(t) \/ TakesValue(t)
  \/ TakesControl(t) \/ TakesPoll(t) \/ TakesCell(t) \/ SetsEnabled(t) \/ PowersDown(t)
  \/ SetsPacing(t) \/ BridgeResult(t) \/ RunsRecord(t) \/ StoresCell(t) \/ EndsRecord(t)
  \/ EndsScript(t)

Next ==
  \/ InitEnds \/ StartsTune \/ StartsCut
  \/ \E t \in Threads : Step(t) \/ SendFails(t) \/ Refused(t) \/ AnswerLate(t)

Spec == Init /\ [][Next]_vars

-----------------------------------------------------------------------------
TypeOK ==
  /\ phase \in {"init", "ready", "failed"}
  /\ sent \in [Threads -> BOOLEAN] /\ aborted \in [Threads -> BOOLEAN]
  /\ \A t \in Threads : \A i \in DOMAIN prog[t] : prog[t][i].ops # <<>>
  /\ Len(answers) <= MaxFaults + Cardinality({t \in Threads : sent[t]})
  /\ passed \subseteq DOMAIN script /\ at \in 1..(Len(script) + 1)

(* "If it is not read the replies shift": without a fault every command    *)
(* finds its own answer and the cold init of a sound board succeeds, with  *)
(* either format of the firmware.                                          *)
SoundBoardStarts == phase = "failed" => faults > 0

(* The value a reading accepts is of the register it asked for, without a  *)
(* late answer or a power cut beside a tune.  A late answer shifts all     *)
(* that follow by one: a reading of the AVL62X1 then meets the             *)
(* acknowledgement of its own address and is refused, so that it takes a   *)
(* second one to mistake a register; one of the bridge's own registers has *)
(* nothing before it and takes the value of the register asked before it.  *)
OwnValue ==
  /\ wrong => late > 1 \/ beside
  /\ mistook => late > 0 \/ beside

(* bridge_init writes such a value back with its bits changed, but its     *)
(* or-ed result has the failure before it: once a register of the bridge   *)
(* was mistaken the cold init fails, if it has not yet.                    *)
MistakeIsTold ==
  mistook => phase = "failed" \/ (phase = "init" /\ (sticky \/ aborted["main"]))

(* A DiSEqC message or tone burst is never sent over the continuous tone,  *)
(* whatever was read for TX_CONTROL and whoever wrote it meanwhile.        *)
ModulatesAlone == ~({"tone", "send"} \subseteq tx)

(* "Pace the whole cold-init tail, never normal tuning or status reads":   *)
(* the pacing is off on every way out of the cold init.                    *)
PacedInitOnly == pacing => phase = "init"

(* A board about to be reported ready has its whole patch: each record was *)
(* run to its end or passed over by its condition.                         *)
ReadyIsWhole ==
  phase = "init" /\ prog["main"] = <<>> => passed = DOMAIN script \/ aborted["main"]

(* At rest, a lit supply is known to be lit and so can be cut, unless a    *)
(* transfer failed or the cut ran beside a tune.                           *)
LitIsKnown ==
  phase = "ready" /\ (\A t \in Threads : prog[t] = <<>>) /\ lnb
    => lnbEnabled \/ faults > 0 \/ beside
=============================================================================
