----------------------------- MODULE ByteQueue -----------------------------
(***************************************************************************)
(* What dtv_usb_stream_* of src/core/usb_backend.h promises its reader: a  *)
(* queue of bytes, bounded, that keeps what it holds in order.  What       *)
(* arrives and does not fit is dropped whole and counted, a read takes the *)
(* oldest bytes, a flush forgets all of them.  Bytes are numbered in the   *)
(* order the receiver sent them.                                           *)
(***************************************************************************)
EXTENDS Integers, Sequences

CONSTANTS Capacity, Chunk

VARIABLES
  arrived,   (* bytes the receiver has sent                                *)
  queue,     (* those waiting, oldest first                                *)
  dropped,   (* how many did not fit                                       *)
  out        (* what the last read returned                                *)

bytes == <<arrived, queue, dropped, out>>

Init == arrived = 0 /\ queue = <<>> /\ dropped = 0 /\ out = <<>>

Fresh(n) == [i \in 1..n |-> arrived + i]

Arrive(n) ==
  /\ arrived' = arrived + n
  /\ IF n <= Capacity - Len(queue)
     THEN queue' = queue \o Fresh(n) /\ UNCHANGED dropped
     ELSE dropped' = dropped + n /\ UNCHANGED queue
  /\ UNCHANGED out

Take(n) ==
  /\ n <= Len(queue)
  /\ out' = SubSeq(queue, 1, n)
  /\ queue' = SubSeq(queue, n + 1, Len(queue))
  /\ UNCHANGED <<arrived, dropped>>

Forget == queue' = <<>> /\ UNCHANGED <<arrived, dropped, out>>

Next ==
  \/ \E n \in 1..Chunk : Arrive(n)
  \/ \E n \in 0..Capacity : Take(n)
  \/ Forget

Spec == Init /\ [][Next]_bytes
=============================================================================
