-------------------------- MODULE UsbStream_proofs --------------------------
(***************************************************************************)
(* Proofs about UsbStream, for any number of transfers and any sizes.      *)
(*                                                                         *)
(* IInv has two independent halves.  The transfers: in_flight counts those *)
(* that are not back yet (Counted), a callback works on one of them        *)
(* (Serving), the event thread is over only when all are back (Quiet), and *)
(* the stream thread frees only behind it (Freeing); from these follow     *)
(* what LossTold and FreedUnused promise.  The ring: head follows tail and *)
(* used around the end (Round), which is what makes it a queue.            *)
(***************************************************************************)
EXTENDS UsbStream, FiniteSetTheorems, SequenceTheorems, TLAPS

Out == {t \in Transfers : held[t] # "nobody"}

Counted == inFlight = Cardinality(Out)

Serving ==
  /\ pc["event"] \in {"store", "submit", "retire"} =>
       serving \in Transfers /\ held[serving] = "done"
  /\ At("event", "store") => ending[serving].bytes > 0

Quiet ==
  /\ pc["event"] \in {"off", "over", "report"} => inFlight = 0
  /\ At("stream", "opening") => At("event", "off") /\ ~lost

Freeing ==
  /\ freed => pc["stream"] \in {"ended", "alone"}
  /\ freed \/ At("stream", "free") => pc["event"] \in {"off", "over"}

Told ==
  /\ pc["event"] \in {"poll", "over"} /\ inFlight = 0 => lost \/ stopping
  /\ lost => inFlight = 0

(* A position, taken around the end of the ring.                           *)
Around(x) == x % Size

Round == head = Around(tail + used)

IInv == TypeOK /\ Counted /\ Serving /\ Quiet /\ Freeing /\ Told /\ Round

-----------------------------------------------------------------------------
(* The ring is not empty and takes a whole transfer.                       *)
LEMMA Sizes ==
  /\ Size \in Nat \ {0} /\ Chunk \in Nat \ {0} /\ Capacity \in Nat \ {0}
  /\ Chunk <= Size
BY SizesAssumption

(* A position less than twice around is wrapped once.                      *)
LEMMA Wrap ==
  ASSUME NEW s \in Nat \ {0}, NEW x \in 0..(2 * s - 1)
  PROVE  x % s = IF x < s THEN x ELSE x - s
<1>1. CASE x < s
  BY <1>1
<1>2. CASE x >= s
  <2>1. x = s * (x \div s) + (x % s) /\ x % s \in 0..(s - 1)
    OBVIOUS
  <2>2. ASSUME NEW q \in Int, NEW r \in 0..(s - 1), x = s * q + r
        PROVE  r = x - s
    <3>1. q >= 2 => s * q >= 2 * s
      OBVIOUS
    <3>2. q <= 0 => s * q <= 0
      OBVIOUS
    <3>3. CASE q = 1
      BY <3>3, <2>2
    <3>4. CASE q # 1
      BY <3>1, <3>2, <3>4, <2>2, <1>2
    <3> QED BY <3>3, <3>4
  <2>3. x \div s \in Int
    OBVIOUS
  <2> QED BY <2>1, <2>2, <2>3
<1> QED BY <1>1, <1>2

(* The same, of the ring.                                                  *)
LEMMA AroundOnce ==
  ASSUME NEW x \in 0..(2 * Size - 1)
  PROVE  Around(x) = IF x < Size THEN x ELSE x - Size
BY Sizes, Wrap DEF Around

(* The i-th position from a cell on.                                       *)
LEMMA AroundFrom ==
  \A c \in Cells, i \in 1..Size :
    Around(c + i - 1) = IF c + i - 1 < Size THEN c + i - 1 ELSE c + i - 1 - Size
<1> SUFFICES ASSUME NEW c \in Cells, NEW i \in 1..Size
             PROVE  Around(c + i - 1) = IF c + i - 1 < Size THEN c + i - 1
                                        ELSE c + i - 1 - Size
  OBVIOUS
<1>1. c + i - 1 \in 0..(2 * Size - 1)
  BY Sizes DEF Cells
<1> QED BY <1>1, Sizes, AroundOnce DEF Cells

(* The transfers that are not back are finitely many.                      *)
LEMMA OutFinite ==
  /\ IsFiniteSet(Out) /\ Cardinality(Out) \in Nat
  /\ Cardinality(Out) = 0 <=> Out = {}
<1>1. Out \in SUBSET Transfers
  BY DEF Out
<1> QED BY <1>1, SizesAssumption, FS_Subset, FS_CardinalityType, FS_EmptySet

(* The transfer a callback works on is counted.                            *)
LEMMA ServingCounts ==
  ASSUME TypeOK, Counted, Serving, pc["event"] \in {"submit", "retire", "store"}
  PROVE  serving \in Out /\ inFlight > 0
<1>1. serving \in Out
  BY DEF Serving, Out
<1> QED BY <1>1, OutFinite DEF Counted

-----------------------------------------------------------------------------
(* Nothing is submitted, nothing is stored.                                *)
LEMMA InitIInv == Init => IInv
<1> SUFFICES ASSUME Init PROVE IInv
  OBVIOUS
<1> USE DEF Init
<1>1. TypeOK
  <2>1. pc \in [Threads -> Locations]
    BY DEF Threads, Locations
  <2>2. 0 \in Cells /\ 0 \in 0..Size
    BY Sizes DEF Cells
  <2>3. Retired \in Endings
    BY Sizes DEF Retired, Endings
  <2>4. out \in Seq(Nat)
    OBVIOUS
  <2> QED BY <2>1, <2>2, <2>3, <2>4 DEF TypeOK
<1>2. Out = {}
  BY DEF Out
<1>3. Counted
  BY <1>2, FS_EmptySet DEF Counted
<1>4. Round
  BY Sizes, AroundOnce DEF Round
<1> QED BY <1>1, <1>3, <1>4 DEF IInv, Serving, Quiet, Freeing, Told, At

(* Types.  The ring: a store stays inside the ring and wraps once, a read  *)
(* copies at most what is there.                                           *)
LEMMA StoreTypes ==
  ASSUME IInv, StoresBytes
  PROVE  /\ ring' \in [Cells -> Nat] /\ head' \in Cells /\ used' \in 0..Size
         /\ dropped' \in Nat /\ arrived' \in Nat
<1> DEFINE n == ending[serving].bytes
           first == Lesser(Size - head, n)
<1>1. n \in 1..Chunk /\ first \in 0..n
  <2>1. serving \in Transfers /\ ending[serving].bytes > 0
    BY DEF StoresBytes, IInv, Serving, At
  <2>2. ending[serving] \in Endings
    BY <2>1 DEF IInv, TypeOK
  <2>3. n \in 1..Chunk
    BY <2>1, <2>2 DEF Endings
  <2> QED BY <2>3, Sizes DEF Lesser, Cells, IInv, TypeOK
<1>2. arrived' = arrived + n /\ arrived' \in Nat
  BY <1>1 DEF StoresBytes, IInv, TypeOK
<1>3. CASE Fits(n)
  <2> HIDE DEF n, first
  <2>1. ring' = [c \in Cells |->
                  IF c \in head..(head + first - 1) THEN arrived + 1 + c - head
                  ELSE IF c < n - first THEN arrived + 1 + first + c
                  ELSE ring[c]]
        /\ head' = (head + n) % Size /\ used' = used + n /\ dropped' = dropped
    BY <1>3 DEF StoresBytes, n, first
  <2>2. ring' \in [Cells -> Nat]
    BY <1>1, <2>1 DEF IInv, TypeOK, Cells
  <2>3. head' \in Cells
    BY <1>1, <2>1, Sizes DEF IInv, TypeOK, Cells
  <2>4. used' \in 0..Size
    BY <1>1, <1>3, <2>1, Sizes DEF IInv, TypeOK, Fits
  <2> QED BY <1>2, <2>1, <2>2, <2>3, <2>4 DEF IInv, TypeOK
<1>4. CASE ~Fits(n)
  BY <1>1, <1>2, <1>4 DEF StoresBytes, IInv, TypeOK
<1> QED BY <1>3, <1>4

(* A read copies bytes of the ring only.                                   *)
LEMMA ReadTypes ==
  ASSUME IInv, ReadsRing
  PROVE  tail' \in Cells /\ used' \in 0..Size /\ out' \in Seq(Nat)
<1> DEFINE copied == Lesser(used, Capacity)
           first == Lesser(Size - tail, copied)
<1>1. copied \in 0..used /\ first \in 0..copied /\ used \in 0..Size /\ tail \in Cells
  BY Sizes DEF IInv, TypeOK, Lesser, Cells
<1>2. first < copied => first = Size - tail
  BY <1>1, Sizes DEF Lesser, Cells
<1>3. /\ out' = [i \in 1..copied |->
                  IF i <= first THEN ring[tail + i - 1] ELSE ring[i - first - 1]]
      /\ tail' = (tail + copied) % Size
      /\ used' = used - copied
  BY DEF ReadsRing
<1> HIDE DEF copied
<1>4. first <= Size - tail
  BY <1>1, Sizes DEF Lesser, Cells
<1> HIDE DEF first
<1>5. \A i \in 1..copied : IF i <= first THEN tail + i - 1 \in Cells
                                         ELSE i - first - 1 \in Cells
  BY <1>1, <1>2, <1>4, Sizes DEF Cells
<1>6. ring \in [Cells -> Nat]
  BY DEF IInv, TypeOK
<1>7. out' \in Seq(Nat)
  BY <1>1, <1>3, <1>5, <1>6
<1> QED BY <1>1, <1>3, <1>7, Sizes DEF Cells

(* The other variables, one action at a time.                              *)
LEMMA StepTypes ==
  ASSUME IInv, [Next]_vars
  PROVE  TypeOK'
<1> USE DEF Threads, Locations, At, Goto
<1>1. CASE StreamThread
  <2>1. CASE OpensStream
    <3>1. PICK some \in SUBSET Transfers :
            /\ held' = [t \in Transfers |-> IF t \in some THEN "libusb" ELSE "nobody"]
            /\ inFlight' = Cardinality(some)
            /\ threaded' \in BOOLEAN
            /\ pc' = [pc EXCEPT
                        !["event"] = IF some = {} THEN "off" ELSE "poll",
                        !["stream"] = IF threaded' THEN "loop" ELSE "stop"]
      BY <2>1 DEF OpensStream
    <3>2. Cardinality(some) \in Nat
      BY SizesAssumption, FS_Subset, FS_CardinalityType
    <3> QED BY <2>1, <3>1, <3>2 DEF OpensStream, IInv, TypeOK, engineVars, ringVars
  <2>2. CASE FlushesRing
    <3>1. 0 \in Cells /\ 0 \in 0..Size
      BY Sizes DEF Cells
    <3> QED BY <2>2, <3>1 DEF FlushesRing, TailReset, IInv, TypeOK, flags,
      transferVars
  <2>3. CASE GoesToRead
    BY <2>3, Sizes DEF GoesToRead, TailReset, IInv, TypeOK, Cells, flags,
      transferVars
  <2>4. CASE ReadsRing
    BY <2>4, ReadTypes DEF ReadsRing, IInv, TypeOK, engineVars, flags, transferVars
  <2>5. CASE CancelsTransfers
    BY <2>5 DEF CancelsTransfers, IInv, TypeOK, engineVars, flags, ringVars
  <2>6. CASE LeavesLoop \/ ChecksLost \/ JoinsEvents \/ GivesUpEvents \/ LeavesAlone
    BY <2>6 DEF LeavesLoop, ChecksLost, JoinsEvents, GivesUpEvents, LeavesAlone,
      IInv, TypeOK, engineVars, flags, transferVars, ringVars
  <2>7. CASE StopsStream \/ FreesStream
    BY <2>7 DEF StopsStream, FreesStream, IInv, TypeOK, engineVars, transferVars,
      ringVars
  <2> QED BY <1>1, <2>1, <2>2, <2>3, <2>4, <2>5, <2>6, <2>7 DEF StreamThread
<1>2. CASE EventThread
  <2>1. CASE TakesTransfer
    BY <2>1 DEF TakesTransfer, ResubmitWanted, IInv, TypeOK, Endings, engineVars,
      flags, ringVars
  <2>2. CASE StoresBytes
    BY <2>2, StoreTypes DEF StoresBytes, IInv, TypeOK, engineVars, flags,
      transferVars
  <2>3. Retired \in Endings
    BY Sizes DEF Retired, Endings
  <2>4. CASE ResubmitsTransfer
    BY <2>3, <2>4 DEF ResubmitsTransfer, IInv, TypeOK, engineVars, flags, ringVars
  <2>5. CASE RetiresTransfer
    <3>1. inFlight - 1 \in Nat
      BY <2>5, ServingCounts DEF RetiresTransfer, IInv, TypeOK
    <3> QED BY <2>3, <2>5, <3>1 DEF RetiresTransfer, IInv, TypeOK, engineVars,
      flags, ringVars
  <2>6. CASE SubmitFails \/ EventsEnd
    BY <2>6 DEF SubmitFails, EventsEnd, IInv, TypeOK, engineVars, flags,
      transferVars, ringVars
  <2>7. CASE ReportsLoss
    BY <2>7 DEF ReportsLoss, IInv, TypeOK, engineVars, transferVars, ringVars
  <2> QED BY <1>2, <2>1, <2>2, <2>4, <2>5, <2>6, <2>7 DEF EventThread
<1>3. CASE Closing
  <2>1. pc' \in [Threads -> Locations] /\ quit' \in BOOLEAN /\ usb' \in BOOLEAN
    BY <1>3 DEF Closing, EngineCloses, JoinsStream, ClosesDevice, LeavesDevice, IInv,
      TypeOK, engineVars
  <2>2. UNCHANGED <<tuned, wasTuned, flags, transferVars, ringVars, out>>
    BY <1>3 DEF Closing, EngineCloses, JoinsStream, ClosesDevice, LeavesDevice,
      engineVars
  <2> QED BY <2>1, <2>2 DEF IInv, TypeOK, flags, transferVars, ringVars
<1>4. CASE Outside
  <2>1. ASSUME NEW t \in Transfers, NEW how \in {"data", "stall", "gone"},
               NEW n \in 0..Chunk, Ends(t, how, n)
        PROVE  TypeOK'
    BY <2>1 DEF Ends, IInv, TypeOK, Endings, engineVars, flags, ringVars
  <2>2. CASE Delivers
    BY <2>1, <2>2, Sizes DEF Delivers
  <2>3. ASSUME NEW t \in Transfers, TimesOut(t) \/ Stalls(t) \/ Fails(t)
        PROVE  TypeOK'
    BY <2>1, <2>3, Sizes DEF TimesOut, Stalls, Fails
  <2>4. CASE Retunes
    BY <2>4 DEF Retunes, IInv, TypeOK, flags, transferVars, ringVars
  <2> QED BY <1>4, <2>2, <2>3, <2>4 DEF Outside
<1>5. CASE UNCHANGED vars
  BY <1>5 DEF vars, IInv, TypeOK, engineVars, flags, transferVars, ringVars
<1> QED BY <1>1, <1>2, <1>3, <1>4, <1>5 DEF Next

-----------------------------------------------------------------------------
(* The transfers.  in_flight counts those that are not back: the callback  *)
(* of the last one is what ends the event thread.                          *)
LEMMA StepCounted ==
  ASSUME IInv, [Next]_vars
  PROVE  Counted'
<1> USE DEF Counted
<1>1. CASE OpensStream
  <2>1. PICK some \in SUBSET Transfers :
          /\ held' = [t \in Transfers |-> IF t \in some THEN "libusb" ELSE "nobody"]
          /\ inFlight' = Cardinality(some)
    BY <1>1 DEF OpensStream
  <2>2. Out' = some
    BY <2>1 DEF Out
  <2> QED BY <2>1, <2>2
<1>2. CASE CancelsTransfers
  <2>1. Out' = Out /\ inFlight' = inFlight
    BY <1>2 DEF CancelsTransfers, Out, IInv, TypeOK
  <2> QED BY <2>1 DEF IInv
<1>3. CASE ResubmitsTransfer
  <2>1. serving \in Transfers /\ held[serving] = "done"
    BY <1>3 DEF ResubmitsTransfer, At, IInv, Serving
  <2>2. Out' = Out /\ inFlight' = inFlight
    BY <1>3, <2>1 DEF ResubmitsTransfer, Out, IInv, TypeOK
  <2> QED BY <2>2 DEF IInv
<1>4. CASE RetiresTransfer
  <2>1. serving \in Out
    BY <1>4, ServingCounts DEF RetiresTransfer, At, IInv
  <2>2. Out' = Out \ {serving} /\ inFlight' = inFlight - 1
    BY <1>4, <2>1 DEF RetiresTransfer, Out, IInv, TypeOK
  <2>3. Cardinality(Out \ {serving}) = Cardinality(Out) - 1
    BY <2>1, OutFinite, FS_RemoveElement
  <2> QED BY <2>2, <2>3 DEF IInv
<1>5. ASSUME NEW t \in Transfers, NEW how, NEW n, Ends(t, how, n)
      PROVE  Out' = Out /\ inFlight' = inFlight
  BY <1>5 DEF Ends, Out, IInv, TypeOK
<1>6. ASSUME ~OpensStream, ~CancelsTransfers, ~ResubmitsTransfer, ~RetiresTransfer
      PROVE  Out' = Out /\ inFlight' = inFlight
  <2>1. CASE StreamThread
    BY <1>6, <2>1 DEF StreamThread, LeavesLoop, FlushesRing, GoesToRead, ReadsRing,
      ChecksLost, StopsStream, JoinsEvents, GivesUpEvents, FreesStream,
      LeavesAlone, transferVars, Out
  <2>2. CASE EventThread
    BY <1>6, <2>2 DEF EventThread, TakesTransfer, StoresBytes, SubmitFails,
      ReportsLoss, EventsEnd, transferVars, Out
  <2>3. CASE Closing
    BY <2>3 DEF Closing, EngineCloses, JoinsStream, ClosesDevice, LeavesDevice,
      transferVars, Out
  <2>4. CASE Outside
    BY <1>5, <2>4 DEF Outside, Delivers, TimesOut, Stalls, Fails, Retunes,
      transferVars, Out
  <2>5. CASE UNCHANGED vars
    BY <2>5 DEF vars, transferVars, Out
  <2> QED BY <2>1, <2>2, <2>3, <2>4, <2>5 DEF Next
<1> QED BY <1>1, <1>2, <1>3, <1>4, <1>6 DEF IInv

(* The callback keeps its transfer while it runs.                          *)
LEMMA StepServing ==
  ASSUME IInv, [Next]_vars
  PROVE  Serving'
<1> USE DEF IInv, Serving, TypeOK, At, Goto, Threads
<1>1. CASE StreamThread
  <2>1. CASE OpensStream
    <3>1. pc'["event"] \in {"off", "poll"}
      BY <2>1 DEF OpensStream
    <3> QED BY <3>1
  <2>2. CASE CancelsTransfers
    BY <2>2 DEF CancelsTransfers
  <2>3. ASSUME ~OpensStream, ~CancelsTransfers PROVE Serving'
    BY <1>1, <2>3 DEF StreamThread, LeavesLoop, FlushesRing, GoesToRead, ReadsRing,
      ChecksLost, StopsStream, JoinsEvents, GivesUpEvents, FreesStream,
      LeavesAlone, transferVars
  <2> QED BY <2>1, <2>2, <2>3
<1>2. CASE EventThread
  <2>1. CASE TakesTransfer
    BY <2>1 DEF TakesTransfer
  <2>2. CASE StoresBytes \/ SubmitFails
    BY <2>2 DEF StoresBytes, SubmitFails, transferVars
  <2>3. CASE ResubmitsTransfer \/ RetiresTransfer \/ ReportsLoss \/ EventsEnd
    BY <2>3 DEF ResubmitsTransfer, RetiresTransfer, ReportsLoss, EventsEnd
  <2> QED BY <1>2, <2>1, <2>2, <2>3 DEF EventThread
<1>3. CASE Closing
  BY <1>3 DEF Closing, EngineCloses, JoinsStream, ClosesDevice, LeavesDevice,
    transferVars
<1>4. CASE Outside
  <2>1. ASSUME NEW t \in Transfers, NEW how, NEW n, Ends(t, how, n) PROVE Serving'
    BY <2>1 DEF Ends
  <2> QED BY <1>4, <2>1 DEF Outside, Delivers, TimesOut, Stalls, Fails, Retunes,
    transferVars
<1>5. CASE UNCHANGED vars
  BY <1>5 DEF vars, transferVars
<1> QED BY <1>1, <1>2, <1>3, <1>4, <1>5 DEF Next

(* Nothing is outstanding when the event thread has ended or not begun,    *)
(* and the stream thread frees only then.                                  *)
LEMMA StepQuiet ==
  ASSUME IInv, [Next]_vars
  PROVE  Quiet' /\ Freeing' /\ Told'
<1> USE DEF IInv, Quiet, Freeing, Told, TypeOK, At, Goto, Threads
<1>1. CASE StreamThread
  <2>1. CASE OpensStream
    <3>1. PICK some \in SUBSET Transfers :
            /\ inFlight' = Cardinality(some)
            /\ pc' = [pc EXCEPT
                        !["event"] = IF some = {} THEN "off" ELSE "poll",
                        !["stream"] = IF threaded' THEN "loop" ELSE "stop"]
      BY <2>1 DEF OpensStream
    <3>2. Cardinality(some) = 0 <=> some = {}
      BY SizesAssumption, FS_Subset, FS_EmptySet
    <3>3. pc["stream"] = "opening" /\ lost' = lost /\ freed' = freed
      BY <2>1 DEF OpensStream
    <3>4. ~lost /\ ~freed
      BY <3>3
    <3>5. pc'["stream"] \in {"loop", "stop"}
      BY <3>1
    <3>6. \/ some = {} /\ pc'["event"] = "off"
          \/ some # {} /\ pc'["event"] = "poll"
      BY <3>1
    <3> QED BY <3>1, <3>2, <3>3, <3>4, <3>5, <3>6
  <2>2. CASE JoinsEvents
    BY <2>2 DEF JoinsEvents, JoinDone, flags, transferVars
  <2>3. CASE FreesStream \/ StopsStream \/ LeavesAlone
    BY <2>3 DEF FreesStream, StopsStream, LeavesAlone, flags, transferVars
  <2>4. CASE LeavesLoop \/ FlushesRing \/ GoesToRead \/ ReadsRing \/ ChecksLost
    BY <2>4 DEF LeavesLoop, FlushesRing, GoesToRead, ReadsRing, ChecksLost, flags,
      transferVars
  <2>5. CASE CancelsTransfers \/ GivesUpEvents
    BY <2>5 DEF CancelsTransfers, GivesUpEvents, flags, transferVars
  <2> QED BY <1>1, <2>1, <2>2, <2>3, <2>4, <2>5 DEF StreamThread
<1>2. CASE EventThread
  <2>1. CASE TakesTransfer \/ StoresBytes \/ SubmitFails
    BY <2>1 DEF TakesTransfer, StoresBytes, SubmitFails, flags, transferVars
  <2>2. CASE ResubmitsTransfer
    BY <2>2, ServingCounts DEF ResubmitsTransfer, flags
  <2>3. CASE RetiresTransfer
    BY <2>3, ServingCounts DEF RetiresTransfer, LastRetires, flags
  <2>4. CASE ReportsLoss
    <3>1. (lost' <=> lost \/ ~stopping) /\ inFlight' = inFlight /\ stopping' = stopping
      BY <2>4 DEF ReportsLoss, transferVars
    <3>2. freed' = freed /\ pc' = [pc EXCEPT !["event"] = "poll"] /\ pc["event"] = "report"
      BY <2>4 DEF ReportsLoss
    <3> QED BY <3>1, <3>2
  <2>5. CASE EventsEnd
    BY <2>5 DEF EventsEnd, flags, transferVars
  <2> QED BY <1>2, <2>1, <2>2, <2>3, <2>4, <2>5 DEF EventThread
<1>3. CASE Closing
  BY <1>3 DEF Closing, EngineCloses, JoinsStream, ClosesDevice, LeavesDevice, flags,
    transferVars
<1>4. CASE Outside
  <2>1. ASSUME NEW t \in Transfers, NEW how, NEW n, Ends(t, how, n)
        PROVE  Quiet' /\ Freeing' /\ Told'
    BY <2>1 DEF Ends, flags
  <2> QED BY <1>4, <2>1 DEF Outside, Delivers, TimesOut, Stalls, Fails, Retunes,
    flags, transferVars
<1>5. CASE UNCHANGED vars
  BY <1>5 DEF vars, flags, transferVars
<1> QED BY <1>1, <1>2, <1>3, <1>4, <1>5 DEF Next

(* Head stays "used" behind tail, around the end.                          *)
LEMMA RingFrame ==
  ASSUME [Next]_vars, ~StoresBytes, ~ReadsRing, ~FlushesRing, ~GoesToRead
  PROVE  UNCHANGED <<ringVars, out>>
<1>1. CASE StreamThread
  BY <1>1 DEF StreamThread, OpensStream, LeavesLoop, ChecksLost, StopsStream,
    CancelsTransfers, JoinsEvents, GivesUpEvents, FreesStream, LeavesAlone
<1>2. CASE EventThread
  BY <1>2 DEF EventThread, TakesTransfer, ResubmitsTransfer, SubmitFails,
    RetiresTransfer, ReportsLoss, EventsEnd
<1>3. CASE Closing
  BY <1>3 DEF Closing, EngineCloses, JoinsStream, ClosesDevice, LeavesDevice
<1>4. CASE Outside
  BY <1>4 DEF Outside, Delivers, TimesOut, Stalls, Fails, Ends, Retunes
<1> QED BY <1>1, <1>2, <1>3, <1>4 DEF Next, vars

(* A store moves head, a read moves tail, both around the end; a flush     *)
(* brings both to the start.                                               *)
LEMMA StepRound ==
  ASSUME IInv, [Next]_vars
  PROVE  Round'
<1> USE DEF Round
<1>1. head \in Cells /\ tail \in Cells /\ used \in 0..Size
  BY DEF IInv, TypeOK
<1>2. head = IF tail + used < Size THEN tail + used ELSE tail + used - Size
  BY <1>1, Sizes, AroundOnce DEF IInv, Cells
<1>3. CASE StoresBytes
  <2> DEFINE n == ending[serving].bytes
  <2>1. n \in 1..Chunk
    BY <1>3, Sizes DEF StoresBytes, IInv, Serving, TypeOK, Endings, At
  <2>2. CASE Fits(n)
    <3>1. head' = Around(head + n) /\ used' = used + n /\ tail' = tail
      BY <1>3, <2>2 DEF StoresBytes, Around
    <3> HIDE DEF n
    <3>2. used + n \in 0..Size /\ tail + (used + n) \in 0..(2 * Size - 1)
          /\ head + n \in 0..(2 * Size - 1)
      BY <1>1, <2>1, <2>2, Sizes DEF Fits, Cells
    <3>3. Around(head + n) = IF head + n < Size THEN head + n ELSE head + n - Size
      BY <1>1, <2>1, <3>2, Sizes, AroundOnce DEF Cells
    <3>4. Around(tail + (used + n))
            = IF tail + (used + n) < Size THEN tail + (used + n)
              ELSE tail + (used + n) - Size
      BY <1>1, <2>1, <3>2, Sizes, AroundOnce DEF Cells
    <3> QED BY <1>1, <1>2, <2>1, <3>1, <3>2, <3>3, <3>4, Sizes DEF Cells
  <2>3. CASE ~Fits(n)
    BY <1>3, <2>3 DEF StoresBytes, IInv
  <2> QED BY <2>2, <2>3
<1>4. CASE ReadsRing
  <2> DEFINE c == Lesser(used, Capacity)
  <2>1. c \in 0..used
    BY <1>1, Sizes DEF Lesser
  <2>2. tail' = Around(tail + c) /\ used' = used - c /\ head' = head
    BY <1>4 DEF ReadsRing, Around
  <2> HIDE DEF c
  <2>3. tail' = IF tail + c < Size THEN tail + c ELSE tail + c - Size
    BY <1>1, <2>1, <2>2, Sizes, AroundOnce DEF Cells
  <2>4. tail' + used' \in 0..(2 * Size - 1)
    BY <1>1, <2>1, <2>2, <2>3, Sizes DEF Cells
  <2>5. Around(tail' + used')
          = IF tail' + used' < Size THEN tail' + used' ELSE tail' + used' - Size
    BY <1>1, <2>1, <2>2, <2>3, <2>4, Sizes, AroundOnce DEF Cells
  <2> QED BY <1>1, <1>2, <2>1, <2>2, <2>3, <2>5, Sizes DEF Cells
<1>5. CASE FlushesRing \/ GoesToRead
  <2>1. Around(0) = 0
    BY Sizes, AroundOnce
  <2> QED BY <1>5, <2>1 DEF FlushesRing, GoesToRead, TailReset, IInv
<1>6. CASE UNCHANGED <<ringVars, out>>
  BY <1>6 DEF ringVars, IInv
<1> QED BY <1>3, <1>4, <1>5, <1>6, RingFrame

(* The parts together.                                                     *)
LEMMA Inductive == IInv /\ [Next]_vars => IInv'
BY StepTypes, StepCounted, StepServing, StepQuiet, StepRound DEF IInv

(* IInv holds in every reachable state.                                    *)
LEMMA Invariance == Spec => []IInv
BY InitIInv, Inductive, PTL DEF Spec

-----------------------------------------------------------------------------
(* Every variable of the capture keeps its type: in_flight is never driven *)
(* below zero, head and tail stay inside the ring, used within its size.   *)
THEOREM TypeCorrect == Spec => []TypeOK
BY Invariance, PTL DEF IInv

(* Freeing the transfers and the ring never races a callback or libusb.    *)
THEOREM FreesUnused == Spec => []FreedUnused
<1>1. IInv => FreedUnused
  <2> SUFFICES ASSUME IInv, freed PROVE
        (At("event", "over") \/ At("event", "off")) /\ Out = {}
    BY DEF FreedUnused, Out
  <2>1. pc["event"] \in {"off", "over"}
    BY DEF IInv, Freeing
  <2>2. inFlight = 0
    BY <2>1 DEF IInv, Quiet
  <2> QED BY <2>1, <2>2, OutFinite DEF IInv, Counted, At
<1> QED BY <1>1, Invariance, PTL

(* The loss of the receiver is told when the last transfer is back unasked *)
(* and never of a capture that goes on.                                    *)
THEOREM TellsLoss == Spec => []LossTold
<1>1. IInv => LossTold
  BY DEF IInv, Quiet, Told, LossTold, At
<1> QED BY <1>1, Invariance, PTL

-----------------------------------------------------------------------------
(* The refinement: the bytes between tail and head, read around the end,   *)
(* are the queue.                                                          *)
Queue(r, t, u) == [i \in 1..u |-> r[Around(t + i - 1)]]

(* The mapping of the refinement, before and after a step.                 *)
LEMMA WaitingIsQueue ==
  Waiting = Queue(ring, tail, used) /\ Waiting' = Queue(ring', tail', used')
BY DEF Waiting, Queue, Around

(* It is a sequence of the bytes stored, as long as the ring is used.      *)
LEMMA QueueSeq ==
  ASSUME NEW r \in [Cells -> Nat], NEW t \in Cells, NEW u \in 0..Size
  PROVE  /\ Queue(r, t, u) \in Seq(Nat) /\ Len(Queue(r, t, u)) = u
         /\ \A i \in 1..u : Queue(r, t, u)[i] = r[Around(t + i - 1)]
<1>1. \A i \in 1..u : Around(t + i - 1) \in Cells
  <2> SUFFICES ASSUME NEW i \in 1..u PROVE Around(t + i - 1) \in Cells
    OBVIOUS
  <2>1. t + i - 1 \in 0..(2 * Size - 1)
    BY Sizes DEF Cells
  <2> QED BY <2>1, Sizes, AroundOnce DEF Cells
<1>2. Queue(r, t, u) \in [1..u -> Nat]
  BY <1>1 DEF Queue
<1>3. Queue(r, t, u) \in Seq(Nat) /\ Len(Queue(r, t, u)) = u
  BY <1>2, Sizes
<1> QED BY <1>3 DEF Queue

(* A store that fits appends what arrived, wherever it wraps.              *)
LEMMA StoreAppends ==
  ASSUME IInv, StoresBytes
  PROVE  \E n \in 1..Chunk : Promise!Arrive(n)
<1> DEFINE n == ending[serving].bytes
           first == Lesser(Size - head, n)
<1>1. n \in 1..Chunk
  BY Sizes DEF StoresBytes, IInv, Serving, TypeOK, Endings, At
<1>2. /\ head \in Cells /\ tail \in Cells /\ used \in 0..Size
      /\ ring \in [Cells -> Nat] /\ arrived \in Nat
      /\ ring' \in [Cells -> Nat] /\ used' \in 0..Size
  BY StoreTypes DEF IInv, TypeOK
<1>3. arrived' = arrived + n /\ out' = out /\ tail' = tail
  BY DEF StoresBytes
<1>4. /\ Len(Waiting) = used /\ Waiting \in Seq(Nat)
      /\ \A i \in 1..used : Waiting[i] = ring[Around(tail + i - 1)]
  BY <1>2, QueueSeq, WaitingIsQueue
<1>5. CASE Fits(n)
  <2>1. ring' = [c \in Cells |->
                  IF c \in head..(head + first - 1) THEN arrived + 1 + c - head
                  ELSE IF c < n - first THEN arrived + 1 + first + c
                  ELSE ring[c]]
        /\ used' = used + n /\ dropped' = dropped
    BY <1>5 DEF StoresBytes
  <2>2. first = IF Size - head < n THEN Size - head ELSE n
    BY DEF Lesser
  <2>3. n <= Size - used
    BY <1>5 DEF Fits
  <2> HIDE DEF n, first
  <2>4. head = IF tail + used < Size THEN tail + used ELSE tail + used - Size
    BY <1>2, Sizes, AroundOnce DEF IInv, Round, Cells
  <2> DEFINE new == Promise!Fresh(n)
  <2>5. new \in Seq(Nat) /\ Len(new) = n /\ \A i \in 1..n : new[i] = arrived + i
    BY <1>1, <1>2, Sizes DEF Promise!Fresh
  <2> HIDE DEF new
  <2>6. /\ Waiting \o new \in Seq(Nat) /\ Len(Waiting \o new) = used + n
        /\ \A i \in 1..(used + n) : (Waiting \o new)[i] =
              IF i <= used THEN Waiting[i] ELSE new[i - used]
    BY <1>4, <2>5, ConcatProperties
  <2>7. Waiting' \in Seq(Nat) /\ Len(Waiting') = used + n
        /\ \A i \in 1..(used + n) : Waiting'[i] = ring'[Around(tail + i - 1)]
    <3>1. Waiting' = Queue(ring', tail, used') /\ used' = used + n
      BY <1>3, <2>1, WaitingIsQueue
    <3>2. /\ Queue(ring', tail, used') \in Seq(Nat)
          /\ Len(Queue(ring', tail, used')) = used'
          /\ \A i \in 1..used' :
               Queue(ring', tail, used')[i] = ring'[Around(tail + i - 1)]
      BY <1>2, QueueSeq
    <3> QED BY <3>1, <3>2
  <2>8. ASSUME NEW i \in 1..(used + n) PROVE Waiting'[i] = (Waiting \o new)[i]
    <3> DEFINE c == Around(tail + i - 1)
    <3>1. tail + i - 1 \in 0..(2 * Size - 1)
      BY <1>1, <1>2, <2>3, Sizes DEF Cells
    <3>2. c = IF tail + i - 1 < Size THEN tail + i - 1 ELSE tail + i - 1 - Size
      BY <1>1, <1>2, <3>1, Sizes, AroundOnce DEF Cells
    <3> HIDE DEF c
    <3>3. c \in Cells
      BY <1>1, <1>2, <3>1, <3>2, Sizes DEF Cells
    <3>4. CASE i <= used
      <4>1. ~(c \in head..(head + first - 1)) /\ ~(c < n - first)
        BY <1>1, <1>2, <2>2, <2>3, <2>4, <3>2, <3>4, Sizes DEF Cells
      <4>2. ring'[c] = ring[c]
        BY <2>1, <3>3, <4>1
      <4>3. Waiting[i] = ring[c]
        BY <1>2, <1>4, <3>4 DEF c
      <4> QED BY <2>6, <2>7, <3>4, <4>2, <4>3 DEF c
    <3>5. CASE i > used
      <4>1. ring'[c] = arrived + (i - used)
        <5>1. CASE i - used <= first
          <6>1. c \in head..(head + first - 1)
                /\ arrived + 1 + c - head = arrived + (i - used)
            BY <1>1, <1>2, <2>2, <2>3, <2>4, <3>2, <3>5, <5>1, Sizes DEF Cells
          <6>2. ring'[c] = arrived + 1 + c - head
            BY <2>1, <3>3, <6>1
          <6> QED BY <6>1, <6>2
        <5>2. CASE i - used > first
          <6>1. /\ ~(c \in head..(head + first - 1)) /\ c < n - first
                /\ arrived + 1 + first + c = arrived + (i - used)
            BY <1>1, <1>2, <2>2, <2>3, <2>4, <3>2, <3>5, <5>2, Sizes DEF Cells
          <6>2. ring'[c] = arrived + 1 + first + c
            BY <2>1, <3>3, <6>1
          <6> QED BY <6>1, <6>2
        <5> QED BY <1>1, <1>2, <2>2, <5>1, <5>2, Sizes DEF Cells
      <4>2. i - used \in 1..n
        BY <1>1, <1>2, <3>5, Sizes
      <4>3. Waiting'[i] = ring'[c]
        BY <2>7 DEF c
      <4>4. (Waiting \o new)[i] = new[i - used]
        <5>1. ~(i <= used)
          BY <1>1, <1>2, <3>5, Sizes
        <5> QED BY <2>6, <5>1, Zenon
      <4>5. new[i - used] = arrived + (i - used)
        BY <2>5, <4>2
      <4> QED BY <4>1, <4>3, <4>4, <4>5
    <3>6. i <= used \/ i > used
      BY <1>1, <1>2, Sizes
    <3> QED BY <3>4, <3>5, <3>6
  <2>9. Waiting' = Waiting \o new
    BY <2>6, <2>7, <2>8, SeqEqual
  <2> QED BY <1>1, <1>3, <1>4, <2>1, <2>3, <2>9 DEF Promise!Arrive, new
<1>6. CASE ~Fits(n)
  <2>1. UNCHANGED <<ring, used>> /\ dropped' = dropped + n
    BY <1>6 DEF StoresBytes
  <2>2. Waiting' = Waiting
    BY <1>3, <2>1, WaitingIsQueue
  <2>3. ~(n <= Size - Len(Waiting))
    BY <1>4, <1>6 DEF Fits
  <2> HIDE DEF n
  <2> QED BY <1>1, <1>3, <2>1, <2>2, <2>3 DEF Promise!Arrive
<1> QED BY <1>5, <1>6

(* A read takes the oldest bytes, wherever it wraps.                       *)
LEMMA ReadTakes ==
  ASSUME IInv, ReadsRing
  PROVE  \E n \in 0..Size : Promise!Take(n)
<1> DEFINE n == Lesser(used, Capacity)
           first == Lesser(Size - tail, n)
<1>1. /\ tail \in Cells /\ used \in 0..Size /\ ring \in [Cells -> Nat]
      /\ tail' \in Cells /\ used' \in 0..Size /\ out' \in Seq(Nat)
  BY ReadTypes DEF IInv, TypeOK
<1>2. /\ out' = [i \in 1..n |->
                  IF i <= first THEN ring[tail + i - 1] ELSE ring[i - first - 1]]
      /\ tail' = Around(tail + n) /\ used' = used - n
      /\ UNCHANGED <<ring, dropped, arrived>>
  BY DEF ReadsRing, Around
<1>3. n \in 0..used
  BY <1>1, Sizes DEF Lesser
<1>4. first = IF Size - tail < n THEN Size - tail ELSE n
  BY DEF Lesser
<1> HIDE DEF n, first
<1>5. /\ Waiting \in Seq(Nat) /\ Len(Waiting) = used
      /\ \A i \in 1..used : Waiting[i] = ring[Around(tail + i - 1)]
  BY <1>1, QueueSeq, WaitingIsQueue
<1>6. /\ Waiting' \in Seq(Nat) /\ Len(Waiting') = used - n
      /\ \A i \in 1..(used - n) : Waiting'[i] = ring[Around(tail' + i - 1)]
  <2>1. Waiting' = Queue(ring, tail', used')
    BY <1>2, WaitingIsQueue
  <2>2. /\ Queue(ring, tail', used') \in Seq(Nat)
        /\ Len(Queue(ring, tail', used')) = used'
        /\ \A i \in 1..used' :
             Queue(ring, tail', used')[i] = ring[Around(tail' + i - 1)]
    BY <1>1, QueueSeq
  <2> QED BY <1>2, <2>1, <2>2
<1>7. out' = SubSeq(Waiting, 1, n)
  <2>1. /\ SubSeq(Waiting, 1, n) \in Seq(Nat) /\ Len(SubSeq(Waiting, 1, n)) = n
        /\ \A i \in 1..n : SubSeq(Waiting, 1, n)[i] = Waiting[i]
    BY <1>1, <1>3, <1>5
  <2>2. Len(out') = n
    BY <1>1, <1>2, <1>3
  <2>3. ASSUME NEW i \in 1..n PROVE out'[i] = Waiting[i]
    <3>1. tail + i - 1 \in 0..(2 * Size - 1)
      BY <1>1, <1>3, Sizes DEF Cells
    <3>2. Around(tail + i - 1)
            = IF tail + i - 1 < Size THEN tail + i - 1 ELSE tail + i - 1 - Size
      BY <1>1, <1>3, <3>1, Sizes, AroundOnce DEF Cells
    <3>3. Around(tail + i - 1) = IF i <= first THEN tail + i - 1 ELSE i - first - 1
      BY <1>1, <1>3, <1>4, <3>2, Sizes DEF Cells
    <3>4. out'[i] = IF i <= first THEN ring[tail + i - 1] ELSE ring[i - first - 1]
      BY <1>2
    <3>5. Waiting[i] = ring[Around(tail + i - 1)]
      BY <1>1, <1>3, <1>5
    <3> QED BY <3>3, <3>4, <3>5
  <2> QED BY <1>1, <2>1, <2>2, <2>3, SeqEqual
<1>8. Waiting' = SubSeq(Waiting, n + 1, Len(Waiting))
  <2> DEFINE rest == SubSeq(Waiting, n + 1, used)
  <2>1. /\ rest \in Seq(Nat) /\ Len(rest) = used - n
        /\ \A i \in 1..(used - n) : rest[i] = Waiting[n + i]
    BY <1>1, <1>3, <1>5
  <2> HIDE DEF rest
  <2>2. ASSUME NEW i \in 1..(used - n) PROVE Waiting'[i] = rest[i]
    <3>1. /\ n \in Nat /\ n <= used /\ i \in 1..Size /\ n + i \in 1..used
          /\ n + i \in 1..Size
      BY <1>1, <1>3, Sizes
    <3>2. tail' = IF tail + n < Size THEN tail + n ELSE tail + n - Size
      <4>1. tail + n \in 0..(2 * Size - 1)
        BY <1>1, <3>1, Sizes DEF Cells
      <4> QED BY <1>1, <1>2, <3>1, <4>1, Sizes, AroundOnce DEF Cells
    <3>3. Around(tail' + i - 1)
            = IF tail' + i - 1 < Size THEN tail' + i - 1 ELSE tail' + i - 1 - Size
      BY <1>1, <3>1, AroundFrom
    <3>4. Around(tail + (n + i) - 1)
            = IF tail + (n + i) - 1 < Size THEN tail + (n + i) - 1
              ELSE tail + (n + i) - 1 - Size
      BY <1>1, <3>1, AroundFrom
    <3>5. Around(tail' + i - 1) = Around(tail + (n + i) - 1)
      BY <1>1, <1>3, <3>1, <3>2, <3>3, <3>4, Sizes DEF Cells
    <3> QED BY <1>5, <1>6, <2>1, <3>1, <3>5
  <2>3. Waiting' = rest
    BY <1>6, <2>1, <2>2, SeqEqual
  <2> QED BY <1>5, <2>3 DEF rest
<1>9. n \in 0..Size /\ n <= Len(Waiting)
  BY <1>1, <1>3, <1>5, Sizes
<1> QED BY <1>2, <1>7, <1>8, <1>9 DEF Promise!Take

(* The ring implements the bounded queue: what is queued stays in order,   *)
(* is read once, and is dropped only whole and counted or by a flush.      *)
THEOREM RingIsQueue == Spec => ImplementsQueue
<1>1. Init => Promise!Init
  BY DEF Init, Waiting, Promise!Init
<1>2. IInv /\ [Next]_vars => [Promise!Next]_(Promise!bytes)
  <2> SUFFICES ASSUME IInv, [Next]_vars PROVE [Promise!Next]_(Promise!bytes)
    OBVIOUS
  <2>1. CASE StoresBytes
    BY <2>1, StoreAppends DEF Promise!Next
  <2>2. CASE ReadsRing
    BY <2>2, ReadTakes DEF Promise!Next
  <2>3. CASE FlushesRing \/ GoesToRead
    <3>1. UNCHANGED <<arrived, dropped, out, ring>>
      BY <2>3 DEF FlushesRing, GoesToRead
    <3>2. used' = 0 \/ UNCHANGED <<tail, used>>
      BY <2>3 DEF FlushesRing, GoesToRead
    <3>3. used' = 0 => Waiting' = <<>>
      BY DEF Waiting
    <3>4. UNCHANGED <<tail, used>> => Waiting' = Waiting
      BY <3>1, WaitingIsQueue
    <3> QED BY <3>1, <3>2, <3>3, <3>4 DEF Promise!Next, Promise!Forget, Promise!bytes
  <2>4. CASE UNCHANGED <<ringVars, out>>
    BY <2>4, WaitingIsQueue DEF ringVars, Promise!bytes
  <2> QED BY <2>1, <2>2, <2>3, <2>4, RingFrame
<1> QED BY <1>1, <1>2, Invariance, PTL DEF Spec, ImplementsQueue, Promise!Spec

=============================================================================
