----------------------------- MODULE UsbStream -----------------------------
(***************************************************************************)
(* The continuous capture of src/core/usb_backend.c and the two threads of *)
(* src/engine/usb_dvbs2_engine.c that open, read and close it.             *)
(*                                                                         *)
(* "event" is stream_event_thread: it takes completed transfers from       *)
(* libusb and runs stream_complete for each, which stores the bytes in the *)
(* ring and submits the transfer again.  "stream" is daemon_stream_thread: *)
(* it opens the capture, flushes it while nothing is tuned, reads it, and  *)
(* closes it when the receiver is lost or the engine stops.  "close" is    *)
(* usb_dvbs2_engine_close on the command thread.                           *)
(*                                                                         *)
(* Outside the program: libusb and the receiver.  A submitted transfer     *)
(* ends with bytes or without (a timeout), stalled, or failed or           *)
(* cancelled; bytes are numbered in the order they arrive.                 *)
(***************************************************************************)
EXTENDS Integers, FiniteSets, Sequences

CONSTANTS
  Transfers,   (* the transfers kept submitted, 24 in the engine           *)
  Chunk,       (* bytes of a transfer                                      *)
  Size,        (* bytes of the ring                                        *)
  Capacity,    (* bytes the reader asks for                                *)
  None,
  MaxBytes     (* bound on the bytes the receiver sends                    *)

ASSUME SizesAssumption ==
  /\ IsFiniteSet(Transfers) /\ Transfers # {} /\ None \notin Transfers
  /\ Chunk \in Nat \ {0} /\ Capacity \in Nat \ {0} /\ Size \in Nat
  /\ Size >= Chunk * Cardinality(Transfers)
  /\ Size >= Chunk

ASSUME BytesAssumption == MaxBytes \in Nat

VARIABLES
  pc,          (* where each thread is                                     *)
  tuned, quit, (* g_tuned, g_quit                                          *)
  wasTuned,    (* was_tuned of the stream thread                           *)
  usb,         (* is g_usb open                                            *)
  freed,       (* the transfers, their buffers, the ring and the struct    *)
  threaded,    (* event_thread was started                                 *)
  held,        (* what has each transfer: nobody, libusb, or it is done    *)
  ending,      (* how each transfer that is done ended, and its bytes      *)
  inFlight,    (* in_flight                                                *)
  stopping, lost,
  serving,     (* the transfer whose stream_complete runs                  *)
  resubmit,    (* its local "resubmit"                                     *)
  ring, head, tail, used, dropped,
  arrived,     (* bytes received so far                                    *)
  out          (* what the last read copied out                            *)

ringVars == <<ring, head, tail, used, dropped, arrived>>
transferVars == <<held, ending, inFlight, serving, resubmit>>
flags == <<stopping, lost, threaded, freed>>
engineVars == <<tuned, wasTuned, quit, usb>>
vars == <<pc, engineVars, flags, transferVars, ringVars, out>>

Threads == {"event", "stream", "close"}
Endings == [how : {"data", "stall", "gone"}, bytes : 0..Chunk]
Retired == [how |-> "gone", bytes |-> 0]
Cells == 0..(Size - 1)

Locations == {"off", "poll", "store", "submit", "retire", "report", "over",
              "opening", "loop", "read", "check", "stop", "cancel", "join",
              "free", "alone", "ended", "running", "joining", "device", "closed"}

TypeOK ==
  /\ pc \in [Threads -> Locations]
  /\ tuned \in BOOLEAN /\ wasTuned \in BOOLEAN
  /\ quit \in BOOLEAN /\ usb \in BOOLEAN
  /\ freed \in BOOLEAN /\ threaded \in BOOLEAN
  /\ stopping \in BOOLEAN /\ lost \in BOOLEAN
  /\ held \in [Transfers -> {"nobody", "libusb", "done"}]
  /\ ending \in [Transfers -> Endings]
  /\ inFlight \in Nat
  /\ serving \in Transfers \cup {None} /\ resubmit \in BOOLEAN
  /\ ring \in [Cells -> Nat]
  /\ head \in Cells /\ tail \in Cells /\ used \in 0..Size
  /\ dropped \in Nat /\ arrived \in Nat
  /\ out \in Seq(Nat)

Init ==
  /\ pc = [event |-> "off", stream |-> "opening", close |-> "running"]
  /\ tuned = FALSE /\ wasTuned = FALSE /\ quit = FALSE /\ usb = TRUE
  /\ freed = FALSE /\ threaded = FALSE
  /\ stopping = FALSE /\ lost = FALSE
  /\ held = [t \in Transfers |-> "nobody"]
  /\ ending = [t \in Transfers |-> Retired]
  /\ inFlight = 0 /\ serving = None /\ resubmit = FALSE
  /\ ring = [c \in Cells |-> 0]
  /\ head = 0 /\ tail = 0 /\ used = 0 /\ dropped = 0 /\ arrived = 0
  /\ out = <<>>

-----------------------------------------------------------------------------
At(t, l) == pc[t] = l
Goto(t, l) == pc' = [pc EXCEPT ![t] = l]
Lesser(a, b) == IF a < b THEN a ELSE b

(* dtv_usb_stream_open submits until one is refused; with none, or without *)
(* an event thread, it is closed again, and the stream thread goes on      *)
(* "alone", one transfer at a time.                                        *)
OpensStream ==
  /\ At("stream", "opening")
  /\ \E some \in SUBSET Transfers :
       /\ held' = [t \in Transfers |-> IF t \in some THEN "libusb" ELSE "nobody"]
       /\ inFlight' = Cardinality(some)
       /\ threaded' \in (IF some = {} THEN {FALSE} ELSE BOOLEAN)
       /\ pc' = [pc EXCEPT
                   !["event"] = IF some = {} THEN "off" ELSE "poll",
                   !["stream"] = IF threaded' THEN "loop" ELSE "stop"]
  /\ UNCHANGED <<engineVars, stopping, lost, freed, ending, serving, resubmit,
                 ringVars, out>>

(* The loop of daemon_stream_thread.  Untuned, what the transfers collect  *)
(* is dropped; the loss of the receiver is looked at only after a read.    *)
LeavesLoop ==
  /\ At("stream", "loop")
  /\ quit
  /\ Goto("stream", "stop")
  /\ UNCHANGED <<engineVars, flags, transferVars, ringVars, out>>

(* dtv_usb_stream_flush.                                                   *)
TailKept == tail
TailReset == 0

FlushesRing ==
  /\ At("stream", "loop")
  /\ ~quit /\ ~tuned
  /\ wasTuned' = FALSE
  /\ head' = 0 /\ tail' = TailReset /\ used' = 0
  /\ UNCHANGED <<pc, tuned, quit, usb, flags, transferVars, ring, dropped, arrived,
                 out>>

(* A carrier just reached is read from an empty ring.                      *)
GoesToRead ==
  /\ At("stream", "loop")
  /\ ~quit /\ tuned
  /\ wasTuned' = TRUE
  /\ IF wasTuned THEN UNCHANGED <<head, tail, used>>
     ELSE head' = 0 /\ tail' = TailReset /\ used' = 0
  /\ Goto("stream", "read")
  /\ UNCHANGED <<tuned, quit, usb, flags, transferVars, ring, dropped, arrived,
                 out>>

(* dtv_usb_stream_read, once there are bytes or the wait for them is over: *)
(* up to the end of the ring, then from its start.                         *)
ReadsRing ==
  /\ At("stream", "read")
  /\ LET copied == Lesser(used, Capacity)
         first == Lesser(Size - tail, copied)
     IN
     /\ out' = [i \in 1..copied |->
                  IF i <= first THEN ring[tail + i - 1] ELSE ring[i - first - 1]]
     /\ tail' = (tail + copied) % Size
     /\ used' = used - copied
  /\ Goto("stream", "check")
  /\ UNCHANGED <<engineVars, flags, transferVars, ring, head, dropped, arrived>>

LostUnseen == FALSE
LostSeen == lost

ChecksLost ==
  /\ At("stream", "check")
  /\ Goto("stream", IF LostSeen THEN "stop" ELSE "loop")
  /\ UNCHANGED <<engineVars, flags, transferVars, ringVars, out>>

-----------------------------------------------------------------------------
(* The event thread; without one, dtv_usb_stream_close runs the same       *)
(* callbacks.                                                              *)
Serves == threaded \/ At("stream", "join")

ResubmitAlways == TRUE
ResubmitWanted == ~stopping

(* stream_complete begins: it looks at stopping before it does anything.   *)
TakesTransfer ==
  /\ At("event", "poll") /\ Serves
  /\ \E t \in Transfers :
       /\ held[t] = "done"
       /\ serving' = t
       /\ resubmit' = (ResubmitWanted /\ ending[t].how # "gone")
       /\ Goto("event", IF ending[t].bytes > 0 THEN "store"
                        ELSE IF resubmit' THEN "submit" ELSE "retire")
  /\ UNCHANGED <<engineVars, flags, held, ending, inFlight, ringVars, out>>

(* stream_store: what does not fit is dropped, newest first; the rest is   *)
(* copied up to the end of the ring, then to its start.                    *)
FitsAlways(n) == n <= Size
Fits(n) == n <= Size - used

StoresBytes ==
  /\ At("event", "store")
  /\ LET n == ending[serving].bytes
         first == Lesser(Size - head, n)
     IN
     /\ arrived' = arrived + n
     /\ IF Fits(n)
        THEN /\ ring' = [c \in Cells |->
                  IF c \in head..(head + first - 1) THEN arrived + 1 + c - head
                  ELSE IF c < n - first THEN arrived + 1 + first + c
                  ELSE ring[c]]
             /\ head' = (head + n) % Size
             /\ used' = used + n
             /\ UNCHANGED dropped
        ELSE /\ dropped' = dropped + n
             /\ UNCHANGED <<ring, head, used>>
  /\ Goto("event", IF resubmit THEN "submit" ELSE "retire")
  /\ UNCHANGED <<engineVars, flags, transferVars, tail, out>>

ResubmitsTransfer ==
  /\ At("event", "submit")
  /\ held' = [held EXCEPT ![serving] = "libusb"]
  /\ ending' = [ending EXCEPT ![serving] = Retired]
  /\ serving' = None /\ resubmit' = FALSE
  /\ Goto("event", "poll")
  /\ UNCHANGED <<engineVars, flags, inFlight, ringVars, out>>

SubmitFails ==
  /\ At("event", "submit")
  /\ Goto("event", "retire")
  /\ UNCHANGED <<engineVars, flags, transferVars, ringVars, out>>

(* The count first, then what the last one means.                          *)
AnyRetires == TRUE
LastRetires == inFlight = 1

RetiresTransfer ==
  /\ At("event", "retire")
  /\ inFlight' = inFlight - 1
  /\ held' = [held EXCEPT ![serving] = "nobody"]
  /\ ending' = [ending EXCEPT ![serving] = Retired]
  /\ serving' = None /\ resubmit' = FALSE
  /\ Goto("event", IF LastRetires THEN "report" ELSE "poll")
  /\ UNCHANGED <<engineVars, flags, ringVars, out>>

ReportsLoss ==
  /\ At("event", "report")
  /\ lost' = (lost \/ ~stopping)
  /\ Goto("event", "poll")
  /\ UNCHANGED <<engineVars, stopping, threaded, freed, transferVars, ringVars,
                 out>>

EventsEnd ==
  /\ At("event", "poll") /\ Serves
  /\ inFlight = 0
  /\ Goto("event", "over")
  /\ UNCHANGED <<engineVars, flags, transferVars, ringVars, out>>

-----------------------------------------------------------------------------
(* dtv_usb_stream_close on the stream thread.                              *)
StopsStream ==
  /\ At("stream", "stop")
  /\ stopping' = TRUE
  /\ Goto("stream", "cancel")
  /\ UNCHANGED <<engineVars, lost, threaded, freed, transferVars, ringVars, out>>

(* A transfer inside its callback is not libusb's to cancel.               *)
CancelsTransfers ==
  /\ At("stream", "cancel")
  /\ \E quick \in SUBSET {t \in Transfers : held[t] = "libusb"} :
       held' = [t \in Transfers |-> IF t \in quick THEN "done" ELSE held[t]]
  /\ Goto("stream", "join")
  /\ UNCHANGED <<engineVars, flags, ending, inFlight, serving, resubmit, ringVars,
                 out>>

JoinIgnored == TRUE
JoinDone == At("event", "over") \/ At("event", "off")

JoinsEvents ==
  /\ At("stream", "join")
  /\ JoinDone
  /\ Goto("stream", "free")
  /\ UNCHANGED <<engineVars, flags, transferVars, ringVars, out>>

(* After 5 s: a transfer the driver never completed still owns its buffer, *)
(* so all of it is left to the event thread.                               *)
GivesUpEvents ==
  /\ At("stream", "join") /\ threaded
  /\ Goto("stream", "ended")
  /\ UNCHANGED <<engineVars, flags, transferVars, ringVars, out>>

FreesStream ==
  /\ At("stream", "free")
  /\ freed' = TRUE
  /\ Goto("stream", IF threaded THEN "ended" ELSE "alone")
  /\ UNCHANGED <<engineVars, stopping, lost, threaded, transferVars, ringVars, out>>

LeavesAlone ==
  /\ At("stream", "alone")
  /\ quit
  /\ Goto("stream", "ended")
  /\ UNCHANGED <<engineVars, flags, transferVars, ringVars, out>>

-----------------------------------------------------------------------------
(* usb_dvbs2_engine_close.                                                 *)
EngineCloses ==
  /\ At("close", "running") /\ ~At("stream", "opening")
  /\ quit' = TRUE
  /\ Goto("close", "joining")
  /\ UNCHANGED <<tuned, wasTuned, usb, flags, transferVars, ringVars, out>>

(* dtv_thread_join came back in time, and the device is closed after the   *)
(* stream thread; or it did not within 8 s, and is not.                    *)
JoinsStream ==
  /\ At("close", "joining")
  /\ At("stream", "ended")
  /\ Goto("close", "device")
  /\ UNCHANGED <<engineVars, flags, transferVars, ringVars, out>>

ClosesDevice ==
  /\ At("close", "device")
  /\ usb' = FALSE
  /\ Goto("close", "closed")
  /\ UNCHANGED <<tuned, wasTuned, quit, flags, transferVars, ringVars, out>>

LeavesDevice ==
  /\ At("close", "joining")
  /\ Goto("close", "closed")
  /\ UNCHANGED <<engineVars, flags, transferVars, ringVars, out>>

-----------------------------------------------------------------------------
(* The receiver and libusb: a transfer ends with bytes, by its timeout     *)
(* without any, stalled, or because it was cancelled or the receiver went. *)
Ends(t, how, n) ==
  /\ held[t] = "libusb"
  /\ held' = [held EXCEPT ![t] = "done"]
  /\ ending' = [ending EXCEPT ![t] = [how |-> how, bytes |-> n]]
  /\ UNCHANGED <<pc, engineVars, flags, inFlight, serving, resubmit, ringVars, out>>

Delivers ==
  /\ arrived + Chunk * Cardinality(Transfers) <= MaxBytes
  /\ \E t \in Transfers, n \in 1..Chunk : Ends(t, "data", n)

TimesOut(t) == Ends(t, "data", 0)
Stalls(t) == Ends(t, "stall", 0)
Fails(t) == Ends(t, "gone", 0)

(* daemon_tune on another thread.                                          *)
Retunes ==
  /\ ~quit
  /\ tuned' = ~tuned
  /\ UNCHANGED <<pc, wasTuned, quit, usb, flags, transferVars, ringVars, out>>

-----------------------------------------------------------------------------
StreamThread ==
  \/ OpensStream
  \/ LeavesLoop
  \/ FlushesRing
  \/ GoesToRead
  \/ ReadsRing
  \/ ChecksLost
  \/ StopsStream
  \/ CancelsTransfers
  \/ JoinsEvents
  \/ GivesUpEvents
  \/ FreesStream
  \/ LeavesAlone

EventThread ==
  \/ TakesTransfer
  \/ StoresBytes
  \/ ResubmitsTransfer
  \/ SubmitFails
  \/ RetiresTransfer
  \/ ReportsLoss
  \/ EventsEnd

Closing ==
  \/ EngineCloses
  \/ JoinsStream
  \/ ClosesDevice
  \/ LeavesDevice

Outside ==
  \/ Delivers
  \/ \E t \in Transfers : TimesOut(t) \/ Stalls(t) \/ Fails(t)
  \/ Retunes

Next ==
  \/ StreamThread
  \/ EventThread
  \/ Closing
  \/ Outside

Spec == Init /\ [][Next]_vars

(* Every thread goes on and libusb ends every transfer, by its timeout if  *)
(* not before.  Neither a failure of the receiver nor a close is forced.   *)
Fairness ==
  /\ WF_vars(StreamThread)
  /\ WF_vars(EventThread)
  /\ \A t \in Transfers : WF_vars(TimesOut(t))

FairSpec == Spec /\ Fairness

-----------------------------------------------------------------------------
(* The ring is the bounded queue usb_backend.h promises: "what is queued   *)
(* stays in order", the newest is dropped and counted, nothing is read     *)
(* twice, through wrap-arounds, overruns and flushes.                      *)
Waiting == [i \in 1..used |-> ring[(tail + i - 1) % Size]]

Promise == INSTANCE ByteQueue WITH Capacity <- Size, queue <- Waiting

ImplementsQueue == Promise!Spec

(* dtv_usb_stream_close frees only what no callback and no transfer of     *)
(* libusb can still touch, whichever callbacks were under way.             *)
FreedUnused ==
  freed => /\ At("event", "over") \/ At("event", "off")
           /\ \A t \in Transfers : held[t] = "nobody"

(* "Lost only when the LAST transfer retires unasked": when the callbacks  *)
(* have ended by themselves the loss is told, and it is never told of a    *)
(* capture that goes on.                                                   *)
LossTold ==
  /\ At("event", "over") /\ ~stopping => lost
  /\ lost => inFlight = 0

(* A capture told to stop ends, also when a callback that had looked at    *)
(* stopping before submits its transfer again behind the cancellation.     *)
Retires == stopping ~> inFlight = 0

(* A receiver that went away is noticed, unless nothing is tuned: the loop *)
(* looks at the loss only behind a read.                                   *)
LossNoticed == []<>(~lost \/ ~tuned \/ stopping)

(* What the code says of itself: "the device may not be closed while any   *)
(* of them is outstanding".                                                *)
DeviceClosedIdle == ~usb => inFlight = 0
=============================================================================
