--------------------------- MODULE ChannelStream ---------------------------
(***************************************************************************)
(* What reaches the player: daemon_stream_thread of                        *)
(* src/engine/usb_dvbs2_engine.c, with the commands that move it from      *)
(* channel to channel and from carrier to carrier under it - set_channel,  *)
(* usb_dvbs2_engine_set_extra, and the part of daemon_tune that pauses the *)
(* stream.                                                                 *)
(*                                                                         *)
(* Three threads share globals.  "cmd" writes the channel and then bumps   *)
(* its epoch; "cmd" and the monitor "mon" pause the stream while a tune    *)
(* moves the frontend; "stream" makes a pass per read: look at g_tuned,    *)
(* copy the channel, look at the epoch and at the extra slots, read,       *)
(* handle packets.                                                         *)
(*                                                                         *)
(* Bytes are kept as runs that come from one carrier, a read is of one     *)
(* run.  Pids differ within a carrier, not between carriers.  A table is   *)
(* one section.  Of the pids a channel list gives, the ones of video and   *)
(* audio are left out: nothing but tables is sent before the PMT replaces  *)
(* them.  One extra slot stands for the nine, which share nothing.         *)
(* CamClient has the control words, ReceiverTuning how a tune goes, and    *)
(* UsbStream the ring and the loss of the device.  Counters of lost        *)
(* packets, the signal report, the guide, BISS hints and teletext pages    *)
(* are left out, and with the last the pid the PMT gives for them, one of  *)
(* its streams.                                                            *)
(***************************************************************************)
EXTENDS Integers, Sequences

CONSTANTS
  Carriers, Services, Pids,
  Programs,     (* what each carrier carries, by service                   *)
  Lists,        (* what a channel list may say: a service, and the PMT pid *)
                (* and the teletext pid it gives for it                    *)
  Extras,       (* the same for an extra service, which has no teletext    *)
  None,         (* no carrier, no service (0), no pid (0x1fff)             *)
  MaxCommands,  (* bound on commands                                       *)
  MaxRuns       (* bound on the runs of bytes that wait                    *)

Program == [pmt : Pids, streams : SUBSET Pids, scrambled : BOOLEAN]

Channels == [svc : Services \cup {None}, pmt : Pids \cup {None},
             ttx : Pids \cup {None}]
Slots == [svc : Services \cup {None}, pmt : Pids \cup {None}]

ASSUME ProgramsAssumption ==
  /\ Programs \in [Carriers -> UNION {[S -> Program] : S \in SUBSET Services}]
  /\ Lists \subseteq Channels /\ Extras \subseteq Slots
  /\ None \notin Carriers \cup Services \cup Pids
  /\ "pat" \notin Services

ASSUME BoundsAssumption ==
  MaxCommands \in Nat /\ MaxRuns \in Nat

VARIABLES
  pc,          (* where each thread is                                     *)
  carrier,     (* what the frontend is set to                              *)
  tunes,       (* how many tunes there were                                *)
  tuned,       (* g_tuned                                                  *)
  ring,        (* the runs of bytes that wait for the stream thread        *)
  channel,     (* g_svc, g_pmt, g_ttxpid                                   *)
  epoch,       (* g_pid_epoch                                              *)
  wanted,      (* g_extra[slot]                                            *)
  extraEpoch,  (* g_extra_epoch                                            *)
  wasTuned,    (* the locals of the stream thread: was_tuned               *)
  window,      (* flush_until # 0                                          *)
  mine,        (* its copy of the channel                                  *)
  myEpoch, myExtra,    (* its epochs                                       *)
  learnedPmt,  (* learned_pmt                                              *)
  pids,        (* stream_pids and pcr_pid, {} for stream_pid_count = 0     *)
  ca,          (* reported_ca, and what it told the host                   *)
  open,        (* video_open                                               *)
  missing,     (* service_missing_said                                     *)
  slot,        (* extras[slot]                                             *)
  buf,         (* the carrier of the bytes this pass has read              *)
  heard,       (* tables since service_wait_start: the PAT, and programs   *)
               (* whose PMT came on the pid that was looked at             *)
  silent,      (* a read came back empty in the wait                       *)
  copied,      (* history: the epoch the copied channel belongs to         *)
  torn,        (* history: it was not the one that was noticed             *)
  missed,      (* history: the stream thread has not seen the pause of a   *)
               (* tune that left its carrier                               *)
  retuned,     (* history: the carrier was left since the last CHANNEL     *)
  slotOld      (* history: the same for what the slot holds                *)

cmdVars == <<carrier, tunes, tuned, channel, epoch, wanted, extraEpoch>>
localVars == <<wasTuned, window, mine, myEpoch, myExtra>>
learnedVars == <<learnedPmt, pids, ca, open, missing>>
waitVars == <<heard, silent>>
history == <<copied, torn, missed, retuned, slotOld>>
vars == <<pc, cmdVars, ring, localVars, learnedVars, slot, buf, waitVars, history>>

Threads == {"cmd", "mon", "stream"}
Locations == {"idle", "pause", "lock", "bump", "inc",
              "look", "copy", "notice", "slots", "refresh", "read", "packets"}
NoChannel == [svc |-> None, pmt |-> None, ttx |-> None]
EmptySlot == [svc |-> None, pmt |-> None, pids |-> {}]

RingTyped == ring \in Seq(Carriers) /\ Len(ring) <= MaxRuns

SlotTyped ==
  /\ slot \in [svc : Services \cup {None}, pmt : Pids \cup {None},
               pids : SUBSET Pids]
  /\ slot.svc = None => slot.pids = {}

Flags ==
  {tuned, wasTuned, window, open, missing, silent, torn, missed, retuned,
   slotOld} \subseteq BOOLEAN

Chosen == {channel, mine} \subseteq Channels /\ wanted \in Slots

Counted ==
  /\ {tunes, epoch, extraEpoch} \subseteq Nat
  /\ myEpoch \in -1..epoch /\ copied \in 0..(epoch + 1)
  /\ myExtra \in -1..extraEpoch

Found ==
  /\ {carrier, buf} \subseteq Carriers \cup {None}
  /\ learnedPmt \in Pids \cup {None}
  /\ pids \subseteq Pids
  /\ ca \in {"unsaid", "free", "scrambled"}
  /\ heard \subseteq Services \cup {"pat"}

(* No epoch is noticed before there is one, and an empty slot sends        *)
(* nothing.                                                                *)
TypeOK ==
  /\ pc \in [Threads -> Locations]
  /\ RingTyped /\ SlotTyped /\ Flags /\ Chosen /\ Counted /\ Found

Init ==
  /\ pc = [t \in Threads |-> IF t = "stream" THEN "look" ELSE "idle"]
  /\ carrier = None /\ tunes = 0 /\ tuned = FALSE /\ ring = <<>>
  /\ channel = NoChannel /\ epoch = 0
  /\ wanted = [svc |-> None, pmt |-> None] /\ extraEpoch = 0
  /\ wasTuned = FALSE /\ window = FALSE /\ mine = NoChannel
  /\ myEpoch = -1 /\ myExtra = -1
  /\ learnedPmt = None /\ pids = {} /\ ca = "unsaid"
  /\ open = FALSE /\ missing = FALSE
  /\ slot = EmptySlot /\ buf = None
  /\ heard = {} /\ silent = FALSE
  /\ copied = 0 /\ torn = FALSE /\ missed = FALSE /\ retuned = FALSE
  /\ slotOld = FALSE

-----------------------------------------------------------------------------
At(t, l) == pc[t] = l
Goto(t, l) == pc' = [pc EXCEPT ![t] = l]

Carries(c, s) == c # None /\ s \in DOMAIN Programs[c]
Own(c, s) == IF Carries(c, s) THEN Programs[c][s].streams ELSE {}
PmtOf(c, s) == IF Carries(c, s) THEN Programs[c][s].pmt ELSE None

(* The local "pmt": the channel list's, else what the PAT gave.            *)
Pmt == IF mine.pmt # None THEN mine.pmt ELSE learnedPmt

(* Nothing of the service has been found yet.                              *)
Unnamed == Pmt = None
Unfound == Pmt = None \/ pids = {}
Waiting == mine.svc # None /\ Unfound /\ ~missing

-----------------------------------------------------------------------------
(* A tune of the command thread pauses the stream, moves the frontend and  *)
(* ends with a lock or without one; the monitor tunes to the carrier that  *)
(* is set.  g_tune_lock keeps the two from each other, and from nothing    *)
(* else.                                                                   *)
MayCommand == tunes + epoch + extraEpoch < MaxCommands
Tuning == \E t \in Threads : At(t, "pause") \/ At(t, "lock")

TunePauses(t) ==
  /\ At(t, "idle") /\ ~Tuning
  /\ MayCommand
  /\ t = "mon" => carrier # None
  /\ tunes' = tunes + 1
  /\ tuned' = FALSE
  /\ Goto(t, IF t = "mon" THEN "lock" ELSE "pause")
  /\ UNCHANGED <<carrier, channel, epoch, wanted, extraEpoch, ring,
                 localVars, learnedVars, slot, buf, waitVars, history>>

TuneMoves(c) ==
  /\ At("cmd", "pause")
  /\ carrier' = c
  /\ Goto("cmd", "lock")
  /\ LET left == carrier \notin {None, c} IN
     /\ retuned' = (retuned \/ left)
     /\ slotOld' = (slotOld \/ left)
     /\ missed' = (missed \/ (left /\ wasTuned))
  /\ UNCHANGED <<tunes, tuned, channel, epoch, wanted, extraEpoch, ring,
                 localVars, learnedVars, slot, buf, waitVars, copied, torn>>

TuneFails ==
  /\ At("cmd", "pause")
  /\ Goto("cmd", "idle")
  /\ UNCHANGED <<cmdVars, ring, localVars, learnedVars, slot, buf, waitVars,
                 history>>

TuneEnds(t) ==
  /\ At(t, "lock")
  /\ tuned' \in BOOLEAN
  /\ Goto(t, "idle")
  /\ UNCHANGED <<carrier, tunes, channel, epoch, wanted, extraEpoch, ring,
                 localVars, learnedVars, slot, buf, waitVars, history>>

(* The commands that choose what is sent.                                  *)
SetChannel(c) ==
  /\ At("cmd", "idle")
  /\ MayCommand
  /\ channel' = c
  /\ Goto("cmd", "bump")
  /\ UNCHANGED <<carrier, tunes, tuned, epoch, wanted, extraEpoch, ring,
                 localVars, learnedVars, slot, buf, waitVars, history>>

BumpEpoch ==
  /\ At("cmd", "bump")
  /\ epoch' = epoch + 1
  /\ retuned' = missed
  /\ Goto("cmd", "idle")
  /\ UNCHANGED <<carrier, tunes, tuned, channel, wanted, extraEpoch, ring,
                 localVars, learnedVars, slot, buf, waitVars, copied, torn,
                 missed, slotOld>>

SetExtra(e) ==
  /\ At("cmd", "idle")
  /\ MayCommand
  /\ wanted' = e
  /\ Goto("cmd", "inc")
  /\ UNCHANGED <<carrier, tunes, tuned, channel, epoch, extraEpoch, ring,
                 localVars, learnedVars, slot, buf, waitVars, history>>

BumpExtra ==
  /\ At("cmd", "inc")
  /\ extraEpoch' = extraEpoch + 1
  /\ Goto("cmd", "idle")
  /\ UNCHANGED <<carrier, tunes, tuned, channel, epoch, wanted, ring,
                 localVars, learnedVars, slot, buf, waitVars, history>>

-----------------------------------------------------------------------------
(* Bytes arrive whatever the threads do.                                   *)
Newest == IF ring = <<>> THEN None ELSE ring[Len(ring)]

Arrives ==
  /\ carrier # None /\ Len(ring) < MaxRuns
  /\ Newest # carrier
  /\ ring' = Append(ring, carrier)
  /\ UNCHANGED <<pc, cmdVars, localVars, learnedVars, slot, buf, waitVars,
                 history>>

-----------------------------------------------------------------------------
(* One pass.  While the stream is paused the ring is emptied again and     *)
(* again; at the lock it is emptied once more and the window opens, in     *)
(* which what the bridge FIFO still holds arrives.                         *)
RingKept == ring
RingFlushed == <<>>

LooksPaused ==
  /\ At("stream", "look") /\ ~tuned
  /\ wasTuned' = FALSE
  /\ ring' = RingFlushed
  /\ missed' = FALSE
  /\ UNCHANGED <<pc, cmdVars, window, mine, myEpoch, myExtra, learnedVars,
                 slot, buf, waitVars, copied, torn, retuned, slotOld>>

LooksTuned ==
  /\ At("stream", "look") /\ tuned
  /\ IF wasTuned
     THEN UNCHANGED <<wasTuned, window, ring>>
     ELSE wasTuned' = TRUE /\ window' = TRUE /\ ring' = RingFlushed
  /\ Goto("stream", "copy")
  /\ UNCHANGED <<cmdVars, mine, myEpoch, myExtra, learnedVars, slot, buf,
                 waitVars, history>>

CopiesChannel ==
  /\ At("stream", "copy")
  /\ mine' = channel
  /\ copied' = IF At("cmd", "bump") THEN epoch + 1 ELSE epoch
  /\ Goto("stream", "notice")
  /\ UNCHANGED <<cmdVars, ring, wasTuned, window, myEpoch, myExtra,
                 learnedVars, slot, buf, waitVars, torn, missed, retuned,
                 slotOld>>

(* All that was learned belongs to the channel before.                     *)
PidsKept == pids
PidsForgotten == {}
SaidKept == missing
SaidForgotten == FALSE

NoticesEpoch ==
  /\ At("stream", "notice")
  /\ Goto("stream", "slots")
  /\ IF myEpoch # epoch
     THEN /\ myEpoch' = epoch
          /\ learnedPmt' = None /\ pids' = PidsForgotten
          /\ ca' = "unsaid"
          /\ open' = FALSE /\ missing' = SaidForgotten
          /\ heard' = {} /\ silent' = FALSE
          /\ torn' = (copied # epoch)
     ELSE /\ torn' = (torn \/ copied # epoch)
          /\ UNCHANGED <<myEpoch, learnedVars, waitVars>>
  /\ UNCHANGED <<cmdVars, ring, wasTuned, window, mine, myExtra, slot, buf,
                 copied, missed, retuned, slotOld>>

(* The epoch of the slots is noted before they are copied.                 *)
NoticesExtra ==
  /\ At("stream", "slots")
  /\ myExtra' = extraEpoch
  /\ Goto("stream", IF myExtra # extraEpoch THEN "refresh" ELSE "read")
  /\ UNCHANGED <<cmdVars, ring, wasTuned, window, mine, myEpoch, learnedVars,
                 slot, buf, waitVars, history>>

(* extra_refresh: another service starts over, the same one may be told    *)
(* its PMT pid.                                                            *)
SlotPidsKept == slot.pids
SlotPidsForgotten == {}

RefreshesSlot ==
  /\ At("stream", "refresh")
  /\ IF wanted.svc = slot.svc
     THEN /\ slot' = [slot EXCEPT !.pmt = IF @ = None THEN wanted.pmt ELSE @]
          /\ UNCHANGED slotOld
     ELSE /\ slot' = [svc |-> wanted.svc, pmt |-> wanted.pmt,
                      pids |-> SlotPidsForgotten]
          /\ slotOld' = missed
  /\ Goto("stream", "read")
  /\ UNCHANGED <<cmdVars, ring, localVars, learnedVars, buf, waitVars,
                 copied, torn, missed, retuned>>

(* What a pass has copied and read is not looked at by the next.           *)
PassOver ==
  /\ Goto("stream", "look")
  /\ mine' = NoChannel /\ copied' = 0 /\ buf' = None
  /\ UNCHANGED <<wasTuned, window, myEpoch, myExtra, torn, missed, retuned,
                 slotOld>>

(* Nothing within 200 ms.                                                  *)
ReadsNothing ==
  /\ At("stream", "read") /\ ring = <<>>
  /\ silent' = (silent \/ Waiting)
  /\ PassOver
  /\ UNCHANGED <<cmdVars, ring, learnedVars, slot, heard>>

(* A read takes the oldest run, or a part of it.                           *)
Takes ==
  /\ At("stream", "read") /\ ring # <<>>
  /\ ring' \in {ring, Tail(ring)}

Drains ==
  /\ Takes /\ window
  /\ PassOver
  /\ UNCHANGED <<cmdVars, learnedVars, slot, waitVars>>

(* The first data that count: the waits start over.                        *)
ClosesWindow ==
  /\ Takes /\ window
  /\ window' = FALSE
  /\ buf' = Head(ring)
  /\ open' = FALSE
  /\ heard' = {} /\ silent' = (silent /\ missing)
  /\ Goto("stream", "packets")
  /\ UNCHANGED <<cmdVars, wasTuned, mine, myEpoch, myExtra, learnedPmt, pids,
                 ca, missing, slot, history>>

Reads ==
  /\ Takes /\ ~window
  /\ buf' = Head(ring)
  /\ Goto("stream", "packets")
  /\ UNCHANGED <<cmdVars, localVars, learnedVars, slot, waitVars, history>>

(* TS_SERVICE_WAIT_MS is "many times what an answer needs": it runs out    *)
(* with the PAT heard and then each PMT on the pid the PAT or the list     *)
(* gave - or in silence, since it counts time and not data.                *)
RanOut ==
  \/ silent
  \/ /\ "pat" \in heard
     /\ Pmt # None => \A s \in DOMAIN Programs[Head(ring)] :
          Programs[Head(ring)][s].pmt = Pmt => s \in heard

ReadsLate ==
  /\ Takes /\ ~window
  /\ Waiting /\ RanOut
  /\ missing' = TRUE
  /\ buf' = Head(ring)
  /\ Goto("stream", "packets")
  /\ UNCHANGED <<cmdVars, localVars, learnedPmt, pids, ca, open, slot,
                 waitVars, history>>

(* extra_feed: what a table tells the extra slot.                          *)
AnyTable(s, svc) == TRUE
TableOf(s, svc) == s = svc

ExtraPat ==
  IF slot.svc # None /\ slot.pmt = None
  THEN [slot EXCEPT !.pmt = PmtOf(buf, slot.svc)] ELSE slot

ExtraPmt(s) ==
  IF /\ slot.svc # None
     /\ slot.pmt = Programs[buf][s].pmt
     /\ TableOf(s, slot.svc)
  THEN [slot EXCEPT !.pids = Programs[buf][s].streams] ELSE slot

(* A PAT.  It gives the PMT pid where the list did not.                    *)
FindsPat ==
  /\ At("stream", "packets")
  /\ slot' = ExtraPat
  /\ learnedPmt' = IF mine.svc # None /\ Pmt = None
                   THEN PmtOf(buf, mine.svc) ELSE learnedPmt
  /\ heard' = IF Waiting THEN heard \cup {"pat"} ELSE heard
  /\ UNCHANGED <<pc, cmdVars, ring, localVars, pids, ca, open, missing, buf,
                 silent, history>>

(* A PMT, of service s.  The table is taken only of the own service, the   *)
(* CA report from the first that comes on the pid.                         *)
FindsPmt(s) ==
  /\ At("stream", "packets") /\ Carries(buf, s)
  /\ slot' = ExtraPmt(s)
  /\ LET p == Programs[buf][s] IN
     IF mine.svc # None /\ p.pmt = Pmt
     THEN /\ pids' = IF TableOf(s, mine.svc) THEN p.streams ELSE pids
          /\ ca' = IF ca # "unsaid" THEN ca
                   ELSE IF TableOf(s, mine.svc) /\ p.scrambled
                        THEN "scrambled" ELSE "free"
          /\ heard' = IF Waiting THEN heard \cup {s} ELSE heard
     ELSE UNCHANGED <<pids, ca, heard>>
  /\ UNCHANGED <<pc, cmdVars, ring, localVars, learnedPmt, open, missing, buf,
                 silent, history>>

(* A picture that can be started from, or TS_RAI_WAIT_MS.                  *)
OpensVideo ==
  /\ At("stream", "packets")
  /\ mine.svc # None /\ pids # {} /\ ~open
  /\ open' = TRUE
  /\ UNCHANGED <<pc, cmdVars, ring, localVars, learnedPmt, pids, ca, missing,
                 slot, buf, waitVars, history>>

EndsPass ==
  /\ At("stream", "packets")
  /\ PassOver
  /\ UNCHANGED <<cmdVars, ring, learnedVars, slot, waitVars>>

-----------------------------------------------------------------------------
Command ==
  \/ \E t \in {"cmd", "mon"} : TunePauses(t) \/ TuneEnds(t)
  \/ \E c \in Carriers : TuneMoves(c)
  \/ TuneFails
  \/ \E c \in Lists : SetChannel(c)
  \/ BumpEpoch
  \/ \E e \in Extras : SetExtra(e)
  \/ BumpExtra

Turns ==
  \/ LooksPaused
  \/ LooksTuned
  \/ CopiesChannel
  \/ NoticesEpoch
  \/ NoticesExtra
  \/ RefreshesSlot
  \/ ReadsNothing
  \/ Drains
  \/ Reads
  \/ EndsPass

Stream ==
  \/ Turns
  \/ ClosesWindow
  \/ ReadsLate
  \/ FindsPat
  \/ \E s \in Services : FindsPmt(s)
  \/ OpensVideo

Next == Command \/ Arrives \/ Stream

Spec == Init /\ [][Next]_vars

(* A command that was begun ends.  The stream thread goes on, the carrier  *)
(* sends bytes and repeats its tables, and timers run out.                 *)
Fairness ==
  /\ WF_vars(BumpEpoch \/ BumpExtra)
  /\ WF_vars(Turns) /\ WF_vars(Arrives)
  /\ SF_vars(ClosesWindow) /\ SF_vars(ReadsLate)
  /\ SF_vars(FindsPat) /\ \A s \in Services : SF_vars(FindsPmt(s))
  /\ SF_vars(OpensVideo)

FairSpec == Spec /\ Fairness

-----------------------------------------------------------------------------
(* The stream thread handles packets of the channel that is selected now,  *)
(* chosen on the carrier that is tuned now; it took up this channel whole, *)
(* and no tune passed it by.                                               *)
TakenUp ==
  /\ At("stream", "packets") /\ mine.svc # None
  /\ myEpoch = epoch /\ ~At("cmd", "bump")
  /\ ~torn /\ ~missed /\ ~retuned

(* What the filter lets through of the bytes that were read.               *)
OnAir(c) == UNION {Programs[c][s].streams : s \in DOMAIN Programs[c]}
Filter == IF pids = {} THEN {} ELSE pids \cup {mine.ttx}

TtxRight == mine.ttx \in Own(buf, mine.svc) \cup {None}
PmtRight == mine.pmt \in {None, PmtOf(buf, mine.svc)}

(* The player gets packets of the service it chose and of no other,        *)
(* although carriers use the same pids for different services and tables,  *)
(* bytes and filters of the channel before are around when it is chosen -  *)
(* unless the list gave a wrong teletext pid.                              *)
OwnPackets ==
  TakenUp /\ TtxRight => OnAir(buf) \cap Filter \subseteq Own(buf, mine.svc)

(* The same for the extra service, which has no epoch of its own: what it  *)
(* learned is good for the carrier on which its slot was filled.           *)
ExtraOwnPackets ==
  At("stream", "packets") /\ ~slotOld /\ ~missed
    => OnAir(buf) \cap slot.pids \subseteq Own(buf, slot.svc)

(* A reader is told that nothing of the service is there, or that it is    *)
(* free of scrambling, only where it is so - if the list did not send the  *)
(* receiver to a wrong pid or to one that two services share, and bytes    *)
(* kept coming.                                                            *)
Shared(c, p) == \E s, t \in DOMAIN Programs[c] :
  s # t /\ Programs[c][s].pmt = p /\ Programs[c][t].pmt = p

ToldTrue ==
  TakenUp /\ PmtRight
    => /\ missing /\ ~silent => Own(buf, mine.svc) = {}
       /\ ca = "free" /\ ~Shared(buf, Pmt) =>
            Carries(buf, mine.svc) /\ ~Programs[buf][mine.svc].scrambled

(* A channel plays in the end, or its reader is told that it cannot.       *)
Plays == pids # {} /\ pids = Own(carrier, channel.svc) /\ open
Answered ==
  \/ ~tuned \/ ~At("cmd", "idle") \/ channel.svc = None
  \/ torn \/ missed \/ retuned
  \/ Plays \/ missing

AllAnswered == []<>Answered
=============================================================================
