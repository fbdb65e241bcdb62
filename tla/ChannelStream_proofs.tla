----------------------- MODULE ChannelStream_proofs -----------------------
(***************************************************************************)
(* Proofs about ChannelStream, for any carriers, lists, programs and       *)
(* number of commands.                                                     *)
(*                                                                         *)
(* What the filter lets through was learned in an earlier pass, from an    *)
(* earlier read and for an earlier copy of the channel; the properties     *)
(* speak of the present pass.  The inductive invariant IInv ties the three *)
(* to what is selected and tuned now: the pass has copied the channel of   *)
(* the epoch it noticed (Copied), what waits and what was read is of the   *)
(* carrier that is set (Clean), and so is what was learned (Learned,       *)
(* SlotOwn) and told (Told) since the epoch was taken up - each as long as *)
(* the histories say that nothing got past the stream thread.              *)
(***************************************************************************)
EXTENDS ChannelStream, TLAPS

Noticed == {"slots", "refresh", "read", "packets"}

(* The epoch that is taken up is the newest, and its channel was chosen on *)
(* the carrier that is set.                                                *)
Settled == myEpoch = epoch /\ ~At("cmd", "bump") /\ ~torn /\ ~retuned

Right == channel.pmt \in {None, PmtOf(carrier, channel.svc)}

Places ==
  /\ At("stream", "packets") => buf \in Carriers
  /\ ~At("stream", "packets") => buf = None
  /\ ~At("stream", "look") => wasTuned

Copied ==
  /\ ~At("cmd", "bump") => copied <= epoch
  /\ pc["stream"] \in {"notice"} \cup Noticed
       /\ copied = (IF At("cmd", "bump") THEN epoch + 1 ELSE epoch)
     => mine = channel
  /\ pc["stream"] \in Noticed /\ ~torn => copied = myEpoch

Clean ==
  /\ wasTuned /\ ~missed => /\ \A i \in DOMAIN ring : ring[i] = carrier
                            /\ buf \in {None, carrier}
  /\ missed => retuned /\ slotOld
  /\ carrier = None => /\ ring = <<>> /\ buf = None
                       /\ pids = {} /\ slot.pids = {}
                       /\ learnedPmt = None /\ heard = {}
                       /\ ca = "unsaid" /\ ~missing /\ ~missed

Learned == Settled => pids \in {{}, Own(carrier, channel.svc)}

SlotOwn == ~slotOld => slot.pids \in {{}, Own(carrier, slot.svc)}

Told ==
  Settled /\ Right =>
    /\ learnedPmt \in {None, PmtOf(carrier, channel.svc)}
    /\ "pat" \in heard /\ channel.pmt = None
         => learnedPmt = PmtOf(carrier, channel.svc)
    /\ channel.svc \in heard => pids = Own(carrier, channel.svc)
    /\ missing /\ ~silent => Own(carrier, channel.svc) = {}
    /\ ca # "unsaid" => /\ Carries(carrier, channel.svc)
                        /\ channel.pmt = None => learnedPmt # None
    /\ ca = "free" /\ ~Shared(carrier, PmtOf(carrier, channel.svc))
         => ~Programs[carrier][channel.svc].scrambled

IInv == TypeOK /\ Places /\ Copied /\ Clean /\ Learned /\ SlotOwn /\ Told

-----------------------------------------------------------------------------
USE ProgramsAssumption, BoundsAssumption

(* What the assumption on the programs says of one of them.                *)
LEMMA ProgramType ==
  ASSUME NEW c \in Carriers
  PROVE  /\ DOMAIN Programs[c] \subseteq Services
         /\ \A s \in DOMAIN Programs[c] : Programs[c][s] \in Program
<1>1. Programs[c] \in UNION {[S -> Program] : S \in SUBSET Services}
  OBVIOUS
<1>2. PICK S \in SUBSET Services : Programs[c] \in [S -> Program]
  BY <1>1
<1> QED BY <1>2

(* A PMT pid or none, a set of streams.                                    *)
LEMMA OwnType ==
  ASSUME NEW c \in Carriers \cup {None}, NEW s
  PROVE  PmtOf(c, s) \in Pids \cup {None} /\ Own(c, s) \in SUBSET Pids
<1>1. CASE Carries(c, s)
  <2>1. c \in Carriers /\ s \in DOMAIN Programs[c]
    BY <1>1 DEF Carries
  <2>2. Programs[c][s] \in Program
    BY <2>1, ProgramType
  <2> QED BY <1>1, <2>2 DEF PmtOf, Own, Program
<1>2. CASE ~Carries(c, s)
  BY <1>2 DEF PmtOf, Own
<1> QED BY <1>1, <1>2

(* The slot with one of its fields changed.                                *)
LEMMA SlotChange ==
  ASSUME slot \in [svc : Services \cup {None}, pmt : Pids \cup {None},
                   pids : SUBSET Pids]
  PROVE  /\ \A p \in Pids \cup {None} : [slot EXCEPT !.pmt = p]
              = [svc |-> slot.svc, pmt |-> p, pids |-> slot.pids]
         /\ \A q \in SUBSET Pids : [slot EXCEPT !.pids = q]
              = [svc |-> slot.svc, pmt |-> slot.pmt, pids |-> q]
OBVIOUS

(* Handing over what was read keeps the ring typed.                        *)
LEMMA TakesTyped ==
  ASSUME RingTyped, Takes
  PROVE  RingTyped' /\ Head(ring) \in Carriers
<1>1. ring \in Seq(Carriers) /\ ring # <<>>
  BY DEF RingTyped, Takes
<1>2. Tail(ring) \in Seq(Carriers) /\ Len(Tail(ring)) <= Len(ring)
  BY <1>1
<1>3. ring' \in Seq(Carriers) /\ Len(ring') <= Len(ring)
  BY <1>1, <1>2 DEF Takes
<1>4. Len(ring) \in Nat /\ Len(ring') \in Nat
  BY <1>1, <1>3
<1> QED BY <1>1, <1>3, <1>4 DEF RingTyped

(* The initial state is typed.                                             *)
LEMMA InitTypes == Init => TypeOK
<1> SUFFICES ASSUME Init PROVE TypeOK
  OBVIOUS
<1>1. pc \in [Threads -> Locations]
  BY DEF Init, Threads, Locations
<1>2. SlotTyped
  BY DEF Init, SlotTyped, EmptySlot
<1>3. RingTyped
  BY DEF Init, RingTyped
<1>4. Flags
  BY DEF Init, Flags
<1>5. Chosen
  BY DEF Init, NoChannel, Chosen, Channels, Slots
<1>6. Counted
  BY DEF Init, Counted
<1>7. Found
  BY DEF Init, Found
<1> QED BY <1>1, <1>2, <1>3, <1>4, <1>5, <1>6, <1>7 DEF TypeOK

(* Every step keeps the types.                                             *)
LEMMA StepTypes == TypeOK /\ [Next]_vars => TypeOK'
<1> SUFFICES ASSUME TypeOK, [Next]_vars PROVE TypeOK'
  OBVIOUS
<1> USE DEF cmdVars, localVars, learnedVars, waitVars, history
<1>1. ASSUME NEW t \in {"cmd", "mon"}, TunePauses(t) PROVE TypeOK'
  <2>1. pc' \in [Threads -> Locations]
    BY <1>1 DEF TypeOK, TunePauses, Goto, Threads, Locations
  <2>2. SlotTyped'
    BY <1>1 DEF TypeOK, TunePauses, SlotTyped
  <2>3. RingTyped'
    BY <1>1 DEF TypeOK, TunePauses, RingTyped
  <2>4. Flags'
    BY <1>1 DEF TypeOK, TunePauses, Flags
  <2>5. Chosen'
    BY <1>1 DEF TypeOK, TunePauses, Chosen
  <2>6. Counted'
    BY <1>1 DEF TypeOK, TunePauses, Counted
  <2>7. Found'
    BY <1>1 DEF TypeOK, TunePauses, Found
  <2> QED BY <2>1, <2>2, <2>3, <2>4, <2>5, <2>6, <2>7 DEF TypeOK
<1>2. ASSUME NEW t \in {"cmd", "mon"}, TuneEnds(t) PROVE TypeOK'
  BY <1>2 DEF TuneEnds, TypeOK, RingTyped, SlotTyped, Flags, Chosen, Counted,
             Found, At, Goto, Threads, Locations
<1>3. ASSUME NEW c \in Carriers, TuneMoves(c) PROVE TypeOK'
  BY <1>3 DEF TuneMoves, TypeOK, RingTyped, SlotTyped, Flags, Chosen, Counted,
             Found, At, Goto, Threads, Locations
<1>4. ASSUME TuneFails PROVE TypeOK'
  BY <1>4 DEF TuneFails, TypeOK, RingTyped, SlotTyped, Flags, Chosen, Counted,
             Found, At, Goto, Threads, Locations
<1>5. ASSUME NEW c \in Lists, SetChannel(c) PROVE TypeOK'
  BY <1>5 DEF SetChannel, TypeOK, RingTyped, SlotTyped, Flags, Chosen, Counted,
             Found, At, Goto, Threads, Locations
<1>6. ASSUME BumpEpoch PROVE TypeOK'
  BY <1>6 DEF BumpEpoch, TypeOK, RingTyped, SlotTyped, Flags, Chosen, Counted,
             Found, At, Goto, Threads, Locations
<1>7. ASSUME NEW e \in Extras, SetExtra(e) PROVE TypeOK'
  BY <1>7 DEF SetExtra, TypeOK, RingTyped, SlotTyped, Flags, Chosen, Counted,
             Found, At, Goto, Threads, Locations
<1>8. ASSUME BumpExtra PROVE TypeOK'
  BY <1>8 DEF BumpExtra, TypeOK, RingTyped, SlotTyped, Flags, Chosen, Counted,
             Found, At, Goto, Threads, Locations
<1>9. ASSUME Arrives PROVE TypeOK'
  <2>1. pc' \in [Threads -> Locations]
    BY <1>9 DEF TypeOK, Arrives, Goto, Threads, Locations
  <2>2. SlotTyped'
    BY <1>9 DEF TypeOK, Arrives, SlotTyped
  <2>3. RingTyped'
    <3>1. carrier \in Carriers
      BY <1>9 DEF TypeOK, Arrives, Found
    <3>2. Append(ring, carrier) \in Seq(Carriers)
          /\ Len(Append(ring, carrier)) = Len(ring) + 1
      BY <3>1 DEF TypeOK, RingTyped
    <3>3. Len(ring) \in Nat
      BY DEF TypeOK, RingTyped
    <3> QED BY <1>9, <3>2, <3>3 DEF Arrives, RingTyped
  <2>4. Flags'
    BY <1>9 DEF TypeOK, Arrives, Flags
  <2>5. Chosen'
    BY <1>9 DEF TypeOK, Arrives, Chosen
  <2>6. Counted'
    BY <1>9 DEF TypeOK, Arrives, Counted
  <2>7. Found'
    BY <1>9 DEF TypeOK, Arrives, Found
  <2> QED BY <2>1, <2>2, <2>3, <2>4, <2>5, <2>6, <2>7 DEF TypeOK
<1>10. ASSUME LooksPaused PROVE TypeOK'
  <2>1. pc' \in [Threads -> Locations]
    BY <1>10 DEF TypeOK, LooksPaused, Goto, Threads, Locations
  <2>2. SlotTyped'
    BY <1>10 DEF TypeOK, LooksPaused, SlotTyped
  <2>3. RingTyped'
    BY <1>10 DEF TypeOK, LooksPaused, RingTyped, RingFlushed
  <2>4. Flags'
    BY <1>10 DEF TypeOK, LooksPaused, Flags
  <2>5. Chosen'
    BY <1>10 DEF TypeOK, LooksPaused, Chosen
  <2>6. Counted'
    BY <1>10 DEF TypeOK, LooksPaused, Counted
  <2>7. Found'
    BY <1>10 DEF TypeOK, LooksPaused, Found
  <2> QED BY <2>1, <2>2, <2>3, <2>4, <2>5, <2>6, <2>7 DEF TypeOK
<1>11. ASSUME LooksTuned PROVE TypeOK'
  <2>1. pc' \in [Threads -> Locations]
    BY <1>11 DEF TypeOK, LooksTuned, Goto, Threads, Locations
  <2>2. SlotTyped'
    BY <1>11 DEF TypeOK, LooksTuned, SlotTyped
  <2>3. RingTyped'
    <3>1. ring' = ring \/ ring' = <<>>
      BY <1>11 DEF LooksTuned, RingFlushed
    <3>2. CASE ring' = ring
      BY <3>2 DEF TypeOK, RingTyped
    <3>3. CASE ring' = <<>>
      BY <3>3 DEF RingTyped
    <3> QED BY <3>1, <3>2, <3>3
  <2>4. Flags'
    BY <1>11 DEF TypeOK, LooksTuned, Flags
  <2>5. Chosen'
    BY <1>11 DEF TypeOK, LooksTuned, Chosen
  <2>6. Counted'
    BY <1>11 DEF TypeOK, LooksTuned, Counted
  <2>7. Found'
    BY <1>11 DEF TypeOK, LooksTuned, Found
  <2> QED BY <2>1, <2>2, <2>3, <2>4, <2>5, <2>6, <2>7 DEF TypeOK
<1>12. ASSUME CopiesChannel PROVE TypeOK'
  BY <1>12 DEF CopiesChannel, TypeOK, RingTyped, SlotTyped, Flags, Chosen, Counted,
             Found, At, Goto, Threads, Locations
<1>13. ASSUME NoticesEpoch PROVE TypeOK'
  <2>1. pc' \in [Threads -> Locations]
    BY <1>13 DEF TypeOK, NoticesEpoch, Goto, Threads, Locations
  <2>2. SlotTyped'
    BY <1>13 DEF TypeOK, NoticesEpoch, SlotTyped
  <2>3. RingTyped'
    BY <1>13 DEF TypeOK, NoticesEpoch, RingTyped
  <2>4. Flags'
    BY <1>13 DEF TypeOK, NoticesEpoch, Flags, SaidForgotten
  <2>5. Chosen'
    BY <1>13 DEF TypeOK, NoticesEpoch, Chosen
  <2>6. Counted'
    BY <1>13 DEF TypeOK, NoticesEpoch, Counted
  <2>7. Found'
    BY <1>13 DEF TypeOK, NoticesEpoch, Found, PidsForgotten
  <2> QED BY <2>1, <2>2, <2>3, <2>4, <2>5, <2>6, <2>7 DEF TypeOK
<1>14. ASSUME NoticesExtra PROVE TypeOK'
  BY <1>14 DEF NoticesExtra, TypeOK, RingTyped, SlotTyped, Flags, Chosen, Counted,
             Found, At, Goto, Threads, Locations
<1>15. ASSUME RefreshesSlot PROVE TypeOK'
  <2>1. pc' \in [Threads -> Locations]
    BY <1>15 DEF TypeOK, RefreshesSlot, Goto, Threads, Locations
  <2>2. SlotTyped'
    BY <1>15, SlotChange DEF TypeOK, RefreshesSlot, SlotTyped, SlotPidsForgotten, Slots, Chosen
  <2>3. RingTyped'
    BY <1>15 DEF TypeOK, RefreshesSlot, RingTyped
  <2>4. Flags'
    BY <1>15 DEF TypeOK, RefreshesSlot, Flags
  <2>5. Chosen'
    BY <1>15 DEF TypeOK, RefreshesSlot, Chosen
  <2>6. Counted'
    BY <1>15 DEF TypeOK, RefreshesSlot, Counted
  <2>7. Found'
    BY <1>15 DEF TypeOK, RefreshesSlot, Found
  <2> QED BY <2>1, <2>2, <2>3, <2>4, <2>5, <2>6, <2>7 DEF TypeOK
<1>16. ASSUME ReadsNothing PROVE TypeOK'
  BY <1>16 DEF ReadsNothing, PassOver, NoChannel, Channels, TypeOK, RingTyped, SlotTyped, Flags, Chosen, Counted,
             Found, At, Goto, Threads, Locations
<1>17. ASSUME Drains PROVE TypeOK'
  <2>1. pc' \in [Threads -> Locations]
    BY <1>17 DEF TypeOK, Drains, PassOver, Goto, Threads, Locations, Takes
  <2>2. SlotTyped'
    BY <1>17 DEF TypeOK, Drains, PassOver, SlotTyped
  <2>3. RingTyped'
    BY <1>17, TakesTyped DEF TypeOK, Drains, PassOver
  <2>4. Flags'
    BY <1>17 DEF TypeOK, Drains, PassOver, Flags
  <2>5. Chosen'
    BY <1>17 DEF TypeOK, Drains, PassOver, Chosen, NoChannel, Channels
  <2>6. Counted'
    BY <1>17 DEF TypeOK, Drains, PassOver, Counted
  <2>7. Found'
    BY <1>17, TakesTyped DEF TypeOK, Drains, PassOver, Found
  <2> QED BY <2>1, <2>2, <2>3, <2>4, <2>5, <2>6, <2>7 DEF TypeOK
<1>18. ASSUME ClosesWindow PROVE TypeOK'
  <2>1. pc' \in [Threads -> Locations]
    BY <1>18 DEF TypeOK, ClosesWindow, Goto, Threads, Locations, Takes
  <2>2. SlotTyped'
    BY <1>18 DEF TypeOK, ClosesWindow, SlotTyped
  <2>3. RingTyped'
    BY <1>18, TakesTyped DEF TypeOK, ClosesWindow
  <2>4. Flags'
    BY <1>18 DEF TypeOK, ClosesWindow, Flags
  <2>5. Chosen'
    BY <1>18 DEF TypeOK, ClosesWindow, Chosen
  <2>6. Counted'
    BY <1>18 DEF TypeOK, ClosesWindow, Counted
  <2>7. Found'
    BY <1>18, TakesTyped DEF TypeOK, ClosesWindow, Found
  <2> QED BY <2>1, <2>2, <2>3, <2>4, <2>5, <2>6, <2>7 DEF TypeOK
<1>19. ASSUME Reads PROVE TypeOK'
  <2>1. pc' \in [Threads -> Locations]
    BY <1>19 DEF TypeOK, Reads, Goto, Threads, Locations, Takes
  <2>2. SlotTyped'
    BY <1>19 DEF TypeOK, Reads, SlotTyped
  <2>3. RingTyped'
    BY <1>19, TakesTyped DEF TypeOK, Reads
  <2>4. Flags'
    BY <1>19 DEF TypeOK, Reads, Flags
  <2>5. Chosen'
    BY <1>19 DEF TypeOK, Reads, Chosen
  <2>6. Counted'
    BY <1>19 DEF TypeOK, Reads, Counted
  <2>7. Found'
    BY <1>19, TakesTyped DEF TypeOK, Reads, Found
  <2> QED BY <2>1, <2>2, <2>3, <2>4, <2>5, <2>6, <2>7 DEF TypeOK
<1>20. ASSUME ReadsLate PROVE TypeOK'
  <2>1. pc' \in [Threads -> Locations]
    BY <1>20 DEF TypeOK, ReadsLate, Goto, Threads, Locations, Takes
  <2>2. SlotTyped'
    BY <1>20 DEF TypeOK, ReadsLate, SlotTyped
  <2>3. RingTyped'
    BY <1>20, TakesTyped DEF TypeOK, ReadsLate
  <2>4. Flags'
    BY <1>20 DEF TypeOK, ReadsLate, Flags
  <2>5. Chosen'
    BY <1>20 DEF TypeOK, ReadsLate, Chosen
  <2>6. Counted'
    BY <1>20 DEF TypeOK, ReadsLate, Counted
  <2>7. Found'
    BY <1>20, TakesTyped DEF TypeOK, ReadsLate, Found
  <2> QED BY <2>1, <2>2, <2>3, <2>4, <2>5, <2>6, <2>7 DEF TypeOK
<1>21. ASSUME FindsPat PROVE TypeOK'
  <2>1. pc' \in [Threads -> Locations]
    BY <1>21 DEF TypeOK, FindsPat, Goto, Threads, Locations
  <2>2. SlotTyped'
    BY <1>21, OwnType, SlotChange DEF TypeOK, FindsPat, SlotTyped, ExtraPat, Found
  <2>3. RingTyped'
    BY <1>21 DEF TypeOK, FindsPat, RingTyped
  <2>4. Flags'
    BY <1>21 DEF TypeOK, FindsPat, Flags
  <2>5. Chosen'
    BY <1>21 DEF TypeOK, FindsPat, Chosen
  <2>6. Counted'
    BY <1>21 DEF TypeOK, FindsPat, Counted
  <2>7. Found'
    BY <1>21, OwnType DEF TypeOK, FindsPat, Found
  <2> QED BY <2>1, <2>2, <2>3, <2>4, <2>5, <2>6, <2>7 DEF TypeOK
<1>22. ASSUME NEW s \in Services, FindsPmt(s) PROVE TypeOK'
  <2>0. Programs[buf][s].streams \in SUBSET Pids
    BY <1>22, ProgramType DEF TypeOK, FindsPmt, Carries, Found, Program
  <2>1. pc' \in [Threads -> Locations]
    BY <1>22 DEF TypeOK, FindsPmt, Goto, Threads, Locations
  <2>2. SlotTyped'
    BY <1>22, <2>0, SlotChange DEF TypeOK, FindsPmt, SlotTyped, ExtraPmt, Found
  <2>3. RingTyped'
    BY <1>22 DEF TypeOK, FindsPmt, RingTyped
  <2>4. Flags'
    BY <1>22 DEF TypeOK, FindsPmt, Flags
  <2>5. Chosen'
    BY <1>22 DEF TypeOK, FindsPmt, Chosen
  <2>6. Counted'
    BY <1>22 DEF TypeOK, FindsPmt, Counted
  <2>7. Found'
    BY <1>22, <2>0 DEF TypeOK, FindsPmt, Found
  <2> QED BY <2>1, <2>2, <2>3, <2>4, <2>5, <2>6, <2>7 DEF TypeOK
<1>23. ASSUME OpensVideo PROVE TypeOK'
  BY <1>23 DEF OpensVideo, TypeOK, RingTyped, SlotTyped, Flags, Chosen, Counted,
             Found, At, Goto, Threads, Locations
<1>24. ASSUME EndsPass PROVE TypeOK'
  BY <1>24 DEF EndsPass, PassOver, NoChannel, Channels, TypeOK, RingTyped, SlotTyped, Flags, Chosen, Counted,
             Found, At, Goto, Threads, Locations
<1>25. CASE UNCHANGED vars
  BY <1>25 DEF vars, TypeOK, RingTyped, SlotTyped, Flags, Chosen, Counted, Found
<1> QED
  BY <1>1, <1>2, <1>3, <1>4, <1>5, <1>6, <1>7, <1>8, <1>9, <1>10, <1>11, <1>12, <1>13, <1>14, <1>15, <1>16, <1>17, <1>18, <1>19, <1>20, <1>21, <1>22, <1>23, <1>24, <1>25
     DEF Next, Command, Stream, Turns
-----------------------------------------------------------------------------
(* What a read hands over is of the carrier that is set, and so is the     *)
(* rest.                                                                   *)
LEMMA TakesClean ==
  ASSUME RingTyped, Takes, NEW c, \A i \in DOMAIN ring : ring[i] = c
  PROVE  Head(ring) = c /\ \A i \in DOMAIN ring' : ring'[i] = c
<1>1. ring \in Seq(Carriers) /\ ring # <<>>
  BY DEF RingTyped, Takes
<1>2. Head(ring) = c
  BY <1>1
<1>3. \A i \in DOMAIN Tail(ring) : Tail(ring)[i] = c
  <2> SUFFICES ASSUME NEW i \in DOMAIN Tail(ring) PROVE Tail(ring)[i] = c
    OBVIOUS
  <2>1. i + 1 \in DOMAIN ring /\ Tail(ring)[i] = ring[i + 1]
    BY <1>1
  <2> QED BY <2>1
<1> QED BY <1>2, <1>3 DEF Takes

(* Reading: of which carrier, and for which channel.                       *)
LEMMA InRead ==
  ASSUME IInv, Takes
  PROVE  /\ Head(ring) \in Carriers /\ carrier # None /\ wasTuned
         /\ ~missed => /\ Head(ring) = carrier
                       /\ \A i \in DOMAIN ring' : ring'[i] = carrier
         /\ Settled => ~missed /\ mine = channel
<1>1. RingTyped /\ ring # <<>>
  BY DEF IInv, TypeOK, Takes
<1>2. Head(ring) \in Carriers
  BY <1>1, TakesTyped
<1>3. carrier # None /\ wasTuned
  BY <1>1 DEF IInv, Clean, Places, Takes, At
<1>4. ASSUME ~missed
      PROVE  Head(ring) = carrier /\ \A i \in DOMAIN ring' : ring'[i] = carrier
  <2>1. \A i \in DOMAIN ring : ring[i] = carrier
    BY <1>3, <1>4 DEF IInv, Clean
  <2> QED BY <2>1, <1>1, TakesClean
<1>5. Settled => ~missed /\ mine = channel
  BY DEF Settled, IInv, Copied, Clean, Takes, At, Noticed
<1> QED BY <1>2, <1>3, <1>4, <1>5

(* The same of the packets of a pass.                                      *)
LEMMA InPackets ==
  ASSUME IInv, At("stream", "packets")
  PROVE  /\ buf \in Carriers /\ carrier # None /\ wasTuned
         /\ ~missed => buf = carrier
         /\ Settled => ~missed /\ mine = channel
<1>1. buf \in Carriers /\ wasTuned
  BY DEF IInv, Places, At
<1>2. buf # None
  BY <1>1
<1>3. carrier # None /\ (~missed => buf = carrier)
  BY <1>1, <1>2 DEF IInv, Clean
<1>4. Settled => ~missed /\ mine = channel
  BY DEF Settled, IInv, Copied, Clean, At, Noticed
<1> QED BY <1>1, <1>3, <1>4

(* A PMT pid that is known tells the service to be there.                  *)
LEMMA KnownPmt ==
  ASSUME NEW c \in Carriers, NEW s
  PROVE  /\ PmtOf(c, s) # None <=> Carries(c, s)
         /\ Carries(c, s) => /\ PmtOf(c, s) = Programs[c][s].pmt
                             /\ Own(c, s) = Programs[c][s].streams
         /\ ~Carries(c, s) => Own(c, s) = {}
<1>1. ASSUME Carries(c, s) PROVE Programs[c][s].pmt \in Pids
  BY <1>1, ProgramType DEF Carries, Program
<1> QED BY <1>1 DEF PmtOf, Own

(* Every step keeps the invariant.                                         *)
LEMMA StepInv == IInv /\ [Next]_vars => IInv'
<1> SUFFICES ASSUME IInv, [Next]_vars PROVE IInv'
  OBVIOUS
<1>t. TypeOK'
  BY StepTypes DEF IInv
<1>p. pc \in [Threads -> Locations]
  BY DEF IInv, TypeOK
<1> USE DEF cmdVars, localVars, learnedVars, waitVars, history
<1>1. ASSUME NEW t \in {"cmd", "mon"}, TunePauses(t) PROVE IInv'
  <2>1. Places' /\ Copied' /\ Clean'
    BY <1>p, <1>1 DEF IInv, Places, Copied, Clean, At, Goto, Threads, Noticed,
       TypeOK, RingTyped, Counted, TunePauses
  <2>2. Learned' /\ SlotOwn' /\ Told'
    BY <1>p, <1>1 DEF IInv, Learned, SlotOwn, Told, Settled, Right, At, Goto,
       Threads, TunePauses
  <2> QED BY <1>t, <2>1, <2>2 DEF IInv
<1>2. ASSUME NEW t \in {"cmd", "mon"}, TuneEnds(t) PROVE IInv'
  <2>1. Places' /\ Copied' /\ Clean'
    BY <1>p, <1>2 DEF IInv, Places, Copied, Clean, At, Goto, Threads, Noticed,
       TypeOK, RingTyped, Counted, TuneEnds
  <2>2. Learned' /\ SlotOwn' /\ Told'
    BY <1>p, <1>2 DEF IInv, Learned, SlotOwn, Told, Settled, Right, At, Goto,
       Threads, TuneEnds
  <2> QED BY <1>t, <2>1, <2>2 DEF IInv
<1>3. ASSUME NEW c \in Carriers, TuneMoves(c) PROVE IInv'
  <2> DEFINE left == carrier \notin {None, c}
  <2>1. Places' /\ Copied'
    BY <1>p, <1>3 DEF IInv, Places, Copied, At, Goto, Threads, Noticed, TuneMoves
  <2>2. CASE left
    <3>1. retuned' /\ slotOld' /\ (wasTuned => missed') /\ carrier' # None
      BY <2>2, <1>3 DEF TuneMoves
    <3>2. wasTuned' = wasTuned
      BY <1>3 DEF TuneMoves
    <3> QED BY <1>t, <2>1, <3>1, <3>2
            DEF IInv, Clean, Learned, SlotOwn, Told, Settled
  <2>3. CASE ~left
    <3>1. UNCHANGED <<retuned, slotOld, missed>>
      BY <2>3, <1>3 DEF TuneMoves, IInv, TypeOK, Flags
    <3>2. /\ UNCHANGED <<ring, buf, wasTuned, pids, slot, learnedPmt, heard, ca,
                        missing, silent, torn, channel, epoch, myEpoch>>
          /\ carrier' = c /\ c # None
      BY <1>3 DEF TuneMoves
    <3>3. Settled' => Settled
      BY <1>p, <1>3, <3>1, <3>2 DEF Settled, At, TuneMoves
    <3>4. CASE carrier = None
      <4>1. /\ ring = <<>> /\ buf = None /\ pids = {} /\ slot.pids = {}
            /\ learnedPmt = None /\ heard = {} /\ ca = "unsaid" /\ ~missing
            /\ ~missed
        BY <3>4 DEF IInv, Clean
      <4>2. Clean'
        BY <4>1, <3>1, <3>2 DEF Clean
      <4>3. Learned' /\ SlotOwn'
        BY <4>1, <3>2 DEF Learned, SlotOwn
      <4>4. Told'
        BY <4>1, <3>2 DEF Told
      <4> QED BY <1>t, <2>1, <4>2, <4>3, <4>4 DEF IInv
    <3>5. CASE carrier = c
      <4>1. carrier' = carrier
        BY <3>2, <3>5
      <4> QED BY <1>t, <2>1, <3>1, <3>2, <3>3, <4>1
              DEF IInv, Clean, Learned, SlotOwn, Told, Right
    <3> QED BY <2>3, <3>4, <3>5
  <2> QED BY <2>2, <2>3
<1>4. ASSUME TuneFails PROVE IInv'
  <2>1. Places' /\ Copied' /\ Clean'
    BY <1>p, <1>4 DEF IInv, Places, Copied, Clean, At, Goto, Threads, Noticed,
       TypeOK, RingTyped, Counted, TuneFails
  <2>2. Learned' /\ SlotOwn' /\ Told'
    BY <1>p, <1>4 DEF IInv, Learned, SlotOwn, Told, Settled, Right, At, Goto,
       Threads, TuneFails
  <2> QED BY <1>t, <2>1, <2>2 DEF IInv
<1>5. ASSUME NEW c \in Lists, SetChannel(c) PROVE IInv'
  <2>1. Places' /\ Copied' /\ Clean'
    BY <1>p, <1>5 DEF IInv, Places, Copied, Clean, At, Goto, Threads, Noticed,
       TypeOK, RingTyped, Counted, SetChannel
  <2>2. Learned' /\ SlotOwn' /\ Told'
    BY <1>p, <1>5 DEF IInv, Learned, SlotOwn, Told, Settled, Right, At, Goto,
       Threads, SetChannel
  <2> QED BY <1>t, <2>1, <2>2 DEF IInv
<1>6. ASSUME BumpEpoch PROVE IInv'
  <2>1. Places' /\ Copied' /\ Clean' /\ SlotOwn'
    BY <1>p, <1>6 DEF IInv, Places, Copied, Clean, SlotOwn, At, Goto, Threads,
       Noticed, TypeOK, Counted, BumpEpoch
  <2>2. ~Settled'
    BY <1>6 DEF IInv, TypeOK, Counted, Settled, BumpEpoch
  <2> QED BY <1>t, <2>1, <2>2 DEF IInv, Learned, Told
<1>7. ASSUME NEW e \in Extras, SetExtra(e) PROVE IInv'
  <2>1. Places' /\ Copied' /\ Clean'
    BY <1>p, <1>7 DEF IInv, Places, Copied, Clean, At, Goto, Threads, Noticed,
       TypeOK, RingTyped, Counted, SetExtra
  <2>2. Learned' /\ SlotOwn' /\ Told'
    BY <1>p, <1>7 DEF IInv, Learned, SlotOwn, Told, Settled, Right, At, Goto,
       Threads, SetExtra
  <2> QED BY <1>t, <2>1, <2>2 DEF IInv
<1>8. ASSUME BumpExtra PROVE IInv'
  <2>1. Places' /\ Copied' /\ Clean'
    BY <1>p, <1>8 DEF IInv, Places, Copied, Clean, At, Goto, Threads, Noticed,
       TypeOK, RingTyped, Counted, BumpExtra
  <2>2. Learned' /\ SlotOwn' /\ Told'
    BY <1>p, <1>8 DEF IInv, Learned, SlotOwn, Told, Settled, Right, At, Goto,
       Threads, BumpExtra
  <2> QED BY <1>t, <2>1, <2>2 DEF IInv
<1>9. ASSUME Arrives PROVE IInv'
  <2>1. Places' /\ Copied' /\ Clean'
    BY <1>p, <1>9 DEF IInv, Places, Copied, Clean, At, Goto, Threads, Noticed,
       TypeOK, RingTyped, Counted, Arrives
  <2>2. Learned' /\ SlotOwn' /\ Told'
    BY <1>p, <1>9 DEF IInv, Learned, SlotOwn, Told, Settled, Right, At, Goto,
       Threads, Arrives
  <2> QED BY <1>t, <2>1, <2>2 DEF IInv
<1>10. ASSUME LooksPaused PROVE IInv'
  <2>1. Places' /\ Copied' /\ Clean'
    BY <1>p, <1>10 DEF IInv, Places, Copied, Clean, At, Goto, Threads, Noticed,
       TypeOK, RingTyped, Counted, LooksPaused, RingFlushed
  <2>2. Learned' /\ SlotOwn' /\ Told'
    BY <1>p, <1>10 DEF IInv, Learned, SlotOwn, Told, Settled, Right, At, Goto,
       Threads, LooksPaused, RingFlushed
  <2> QED BY <1>t, <2>1, <2>2 DEF IInv
<1>11. ASSUME LooksTuned PROVE IInv'
  <2>1. Places' /\ Copied' /\ Learned' /\ SlotOwn' /\ Told'
    BY <1>p, <1>11 DEF IInv, Places, Copied, Learned, SlotOwn, Told, Settled,
       Right, At, Goto, Threads, Noticed, TypeOK, Counted, LooksTuned
  <2>2. buf = None
    BY <1>p, <1>11 DEF IInv, Places, At, LooksTuned
  <2>3. CASE wasTuned
    BY <1>11, <2>3, <1>t, <2>1 DEF IInv, Clean, LooksTuned
  <2>4. CASE ~wasTuned
    BY <1>11, <2>4, <2>2, <1>t, <2>1 DEF IInv, Clean, LooksTuned, RingFlushed
  <2> QED BY <2>3, <2>4
<1>12. ASSUME CopiesChannel PROVE IInv'
  <2>1. Places' /\ Copied' /\ Clean'
    BY <1>p, <1>12 DEF IInv, Places, Copied, Clean, At, Goto, Threads, Noticed,
       TypeOK, RingTyped, Counted, CopiesChannel
  <2>2. Learned' /\ SlotOwn' /\ Told'
    BY <1>p, <1>12 DEF IInv, Learned, SlotOwn, Told, Settled, Right, At, Goto,
       Threads, CopiesChannel
  <2> QED BY <1>t, <2>1, <2>2 DEF IInv
<1>13. ASSUME NoticesEpoch PROVE IInv'
  <2>1. Places' /\ Copied' /\ Clean'
    BY <1>p, <1>13 DEF IInv, Places, Copied, Clean, At, Goto, Threads, Noticed,
       TypeOK, RingTyped, Counted, NoticesEpoch, PidsForgotten, SaidForgotten
  <2>2. Learned' /\ SlotOwn' /\ Told'
    BY <1>p, <1>13 DEF IInv, Learned, SlotOwn, Told, Settled, Right, At, Goto,
       Threads, NoticesEpoch, PidsForgotten, SaidForgotten
  <2> QED BY <1>t, <2>1, <2>2 DEF IInv
<1>14. ASSUME NoticesExtra PROVE IInv'
  <2>1. Places' /\ Copied' /\ Clean'
    BY <1>p, <1>14 DEF IInv, Places, Copied, Clean, At, Goto, Threads, Noticed,
       TypeOK, RingTyped, Counted, NoticesExtra
  <2>2. Learned' /\ SlotOwn' /\ Told'
    BY <1>p, <1>14 DEF IInv, Learned, SlotOwn, Told, Settled, Right, At, Goto,
       Threads, NoticesExtra
  <2> QED BY <1>t, <2>1, <2>2 DEF IInv
<1>15. ASSUME RefreshesSlot PROVE IInv'
  <2>1. Places' /\ Copied' /\ Learned' /\ Told'
    BY <1>p, <1>15 DEF IInv, Places, Copied, Learned, Told, Settled,
       Right, At, Goto, Threads, Noticed, TypeOK, Counted, RefreshesSlot
  <2>2. CASE wanted.svc = slot.svc
    <3> DEFINE pmt == IF slot.pmt = None THEN wanted.pmt ELSE slot.pmt
    <3>1. pmt \in Pids \cup {None}
      BY DEF IInv, TypeOK, SlotTyped, Chosen, Slots
    <3>2. slot' = [slot EXCEPT !.pmt = pmt] /\ slotOld' = slotOld
      BY <1>15, <2>2 DEF RefreshesSlot
    <3> HIDE DEF pmt
    <3>3. slot'.svc = slot.svc /\ slot'.pids = slot.pids
      BY <3>1, <3>2, SlotChange DEF IInv, TypeOK, SlotTyped
    <3> QED BY <1>15, <1>t, <2>1, <3>2, <3>3
            DEF IInv, Clean, SlotOwn, RefreshesSlot
  <2>3. CASE wanted.svc # slot.svc
    <3>1. slot'.pids = {} /\ slotOld' = missed
      BY <1>15, <2>3 DEF RefreshesSlot, SlotPidsForgotten
    <3> QED BY <1>15, <1>t, <2>1, <3>1
            DEF IInv, Clean, SlotOwn, RefreshesSlot
  <2> QED BY <2>2, <2>3
<1>16. ASSUME ReadsNothing PROVE IInv'
  <2>1. Places' /\ Copied' /\ Clean'
    BY <1>p, <1>16 DEF IInv, Places, Copied, Clean, At, Goto, Threads, Noticed,
       TypeOK, RingTyped, Counted, ReadsNothing, PassOver
  <2>2. Learned' /\ SlotOwn' /\ Told'
    BY <1>p, <1>16 DEF IInv, Learned, SlotOwn, Told, Settled, Right, At, Goto,
       Threads, ReadsNothing, PassOver
  <2> QED BY <1>t, <2>1, <2>2 DEF IInv
<1>17. ASSUME Drains PROVE IInv'
  <2>1. Places' /\ Copied' /\ Learned' /\ SlotOwn' /\ Told'
    BY <1>p, <1>17 DEF IInv, Places, Copied, Learned, SlotOwn, Told, Settled,
       Right, At, Goto, Threads, Noticed, TypeOK, Counted, Drains, PassOver
  <2>2. Clean'
    BY <1>17, InRead DEF IInv, Clean, Drains, PassOver
  <2> QED BY <1>t, <2>1, <2>2 DEF IInv
<1>18. ASSUME ClosesWindow PROVE IInv'
  <2>1. Takes /\ At("stream", "read") /\ At("stream", "packets")' /\ buf' = Head(ring)
    BY <1>p, <1>18 DEF ClosesWindow, Takes, At, Goto, Threads
  <2>2. Places' /\ Copied'
    BY <1>p, <1>18, <2>1, InRead DEF IInv, Places, Copied, At, Goto, Threads,
       Noticed, ClosesWindow
  <2>3. Clean'
    BY <1>18, <2>1, InRead DEF IInv, Clean, ClosesWindow
  <2>4. Learned' /\ SlotOwn'
    BY <1>p, <1>18 DEF IInv, Learned, SlotOwn, Settled, At, Goto, Threads, ClosesWindow
  <2>5. Told'
    BY <1>p, <1>18 DEF IInv, Told, Settled, Right, At, Goto, Threads, ClosesWindow
  <2> QED BY <1>t, <2>2, <2>3, <2>4, <2>5 DEF IInv
<1>19. ASSUME Reads PROVE IInv'
  <2>1. Takes /\ At("stream", "read") /\ At("stream", "packets")' /\ buf' = Head(ring)
    BY <1>p, <1>19 DEF Reads, Takes, At, Goto, Threads
  <2>2. Places' /\ Copied'
    BY <1>p, <1>19, <2>1, InRead DEF IInv, Places, Copied, At, Goto, Threads,
       Noticed, Reads
  <2>3. Clean'
    BY <1>19, <2>1, InRead DEF IInv, Clean, Reads
  <2>4. Learned' /\ SlotOwn'
    BY <1>p, <1>19 DEF IInv, Learned, SlotOwn, Settled, At, Goto, Threads, Reads
  <2>5. Told'
    BY <1>p, <1>19 DEF IInv, Told, Settled, Right, At, Goto, Threads, Reads
  <2> QED BY <1>t, <2>2, <2>3, <2>4, <2>5 DEF IInv
<1>20. ASSUME ReadsLate PROVE IInv'
  <2>1. Takes /\ At("stream", "read") /\ At("stream", "packets")' /\ buf' = Head(ring)
    BY <1>p, <1>20 DEF ReadsLate, Takes, At, Goto, Threads
  <2>2. Places' /\ Copied'
    BY <1>p, <1>20, <2>1, InRead DEF IInv, Places, Copied, At, Goto, Threads,
       Noticed, ReadsLate
  <2>3. Clean'
    BY <1>20, <2>1, InRead DEF IInv, Clean, ReadsLate
  <2>4. Learned' /\ SlotOwn'
    BY <1>p, <1>20 DEF IInv, Learned, SlotOwn, Settled, At, Goto, Threads, ReadsLate
  <2>5. Told'
    <3>1. SUFFICES ASSUME Settled, Right, ~silent
                   PROVE  Own(carrier, channel.svc) = {}
      BY <1>p, <1>20 DEF IInv, Told, Settled, Right, At, Goto, Threads, ReadsLate
    <3>2. Head(ring) = carrier /\ mine = channel /\ carrier \in Carriers
      BY <2>1, <3>1, InRead
    <3>3. Unfound /\ "pat" \in heard
      BY <1>20, <3>1 DEF ReadsLate, Waiting, RanOut
    <3>4. CASE Pmt = None
      <4>1. PmtOf(carrier, channel.svc) = None
        BY <3>1, <3>2, <3>3, <3>4 DEF Pmt, IInv, Told
      <4> QED BY <4>1, <3>2, KnownPmt
    <3>5. CASE Pmt # None
      <4>1. pids = {} /\ Pmt = PmtOf(carrier, channel.svc)
        BY <3>1, <3>2, <3>3, <3>5 DEF Unfound, Pmt, IInv, Told, Right
      <4>2. Carries(carrier, channel.svc)
            /\ Programs[carrier][channel.svc].pmt = Pmt
        BY <4>1, <3>2, <3>5, KnownPmt
      <4>3. channel.svc \in heard
        BY <1>20, <3>1, <3>2, <3>5, <4>2 DEF ReadsLate, RanOut, Carries
      <4> QED BY <4>1, <4>3, <3>1 DEF IInv, Told
    <3> QED BY <3>4, <3>5
  <2> QED BY <1>t, <2>2, <2>3, <2>4, <2>5 DEF IInv
<1>21. ASSUME FindsPat PROVE IInv'
  <2>1. At("stream", "packets")
    BY <1>21 DEF FindsPat
  <2>2. Places' /\ Copied' /\ Learned'
    BY <1>p, <1>21 DEF IInv, Places, Copied, Learned, Settled, At, FindsPat
  <2>3. slot'.svc = slot.svc /\ slot'.pids = slot.pids
    BY <1>21, <2>1, OwnType, SlotChange DEF FindsPat, ExtraPat,
       IInv, TypeOK, SlotTyped, Found
  <2>4. Clean' /\ SlotOwn'
    BY <1>21, <2>1, <2>3, InPackets DEF IInv, Clean, SlotOwn, FindsPat
  <2>5. Told'
    <3>1. SUFFICES ASSUME Settled, Right PROVE Told'
      BY <1>p, <1>21 DEF Told, Settled, Right, At, FindsPat
    <3>2. buf = carrier /\ mine = channel
      BY <2>1, <3>1, InPackets
    <3>3. channel.svc \in Services \cup {None}
      BY DEF IInv, TypeOK, Chosen, Channels
    <3>4. channel.svc \in heard' => channel.svc \in heard
      BY <1>21, <3>2, <3>3 DEF FindsPat, Waiting
    <3>5. CASE mine.svc # None /\ Pmt = None
      <4>1. learnedPmt' = PmtOf(carrier, channel.svc)
        BY <1>21, <3>2, <3>5 DEF FindsPat
      <4>2. ca = "unsaid"
        BY <3>1, <3>2, <3>5 DEF Pmt, IInv, Told
      <4> QED BY <1>21, <3>1, <3>4, <4>1, <4>2 DEF IInv, Told, FindsPat
    <3>6. CASE ~(mine.svc # None /\ Pmt = None)
      <4>1. learnedPmt' = learnedPmt
        BY <1>21, <3>6 DEF FindsPat
      <4>2. "pat" \in heard' /\ channel.pmt = None
              => learnedPmt = PmtOf(carrier, channel.svc)
        BY <1>21, <3>1, <3>2, <3>6 DEF FindsPat, Waiting, Pmt, IInv, Told
      <4> QED BY <1>21, <3>1, <3>4, <4>1, <4>2 DEF IInv, Told, FindsPat
    <3> QED BY <3>5, <3>6
  <2> QED BY <1>t, <2>2, <2>4, <2>5 DEF IInv
<1>22. ASSUME NEW s \in Services, FindsPmt(s) PROVE IInv'
  <2> DEFINE p == Programs[buf][s]
  <2>1. At("stream", "packets") /\ Carries(buf, s)
    BY <1>22 DEF FindsPmt
  <2>2. Places' /\ Copied'
    BY <1>p, <1>22 DEF IInv, Places, Copied, At, FindsPmt
  <2>3. p.streams = Own(buf, s) /\ p.pmt = PmtOf(buf, s) /\ p.pmt # None
        /\ p.streams \in SUBSET Pids
    BY <2>1, InPackets, KnownPmt, OwnType
  <2> HIDE DEF p
  <2>4. /\ slot'.svc = slot.svc
        /\ slot'.pids \in {slot.pids, Own(buf, slot.svc)}
    <3>1. CASE slot.svc # None /\ slot.pmt = p.pmt /\ s = slot.svc
      <4>1. slot' = [slot EXCEPT !.pids = p.streams]
        BY <1>22, <3>1 DEF FindsPmt, ExtraPmt, TableOf, p
      <4> QED BY <4>1, <3>1, <2>3, SlotChange DEF IInv, TypeOK, SlotTyped
    <3>2. CASE ~(slot.svc # None /\ slot.pmt = p.pmt /\ s = slot.svc)
      BY <1>22, <3>2 DEF FindsPmt, ExtraPmt, TableOf, p
    <3> QED BY <3>1, <3>2
  <2>5. SlotOwn'
    BY <1>22, <2>1, <2>4, InPackets DEF IInv, Clean, SlotOwn, FindsPmt
  <2>6. Clean'
    BY <1>22, <2>1, InPackets DEF IInv, Clean, FindsPmt
  <2>7. pids' \in {pids, Own(buf, mine.svc)}
    BY <1>22, <2>3 DEF FindsPmt, TableOf, p
  <2>8. Learned'
    <3>1. Settled' => Settled
      BY <1>p, <1>22 DEF Settled, At, FindsPmt
    <3>2. Settled => buf = carrier /\ mine = channel
      BY <2>1, InPackets
    <3> QED BY <1>22, <2>7, <3>1, <3>2 DEF IInv, Learned, FindsPmt
  <2>9. Told'
    <3>1. SUFFICES ASSUME Settled, Right PROVE Told'
      BY <1>p, <1>22 DEF Told, Settled, Right, At, FindsPmt
    <3>2. buf = carrier /\ mine = channel /\ carrier \in Carriers
      BY <2>1, <3>1, InPackets
    <3>3. CASE mine.svc # None /\ p.pmt = Pmt
      <4>1. /\ pids' = IF s = mine.svc THEN p.streams ELSE pids
            /\ ca' = IF ca # "unsaid" THEN ca
                     ELSE IF s = mine.svc /\ p.scrambled THEN "scrambled"
                          ELSE "free"
            /\ heard' \in {heard, heard \cup {s}}
            /\ UNCHANGED <<carrier, channel, learnedPmt, missing, silent>>
        BY <1>22, <3>3 DEF FindsPmt, TableOf, p
      <4>2. p.pmt = PmtOf(carrier, channel.svc)
        BY <3>1, <3>2, <3>3, <2>3 DEF Pmt, IInv, Told, Right
      <4>3. Carries(carrier, channel.svc)
            /\ Programs[carrier][channel.svc].pmt = p.pmt
        BY <4>2, <3>2, <2>3, KnownPmt
      <4>4. channel.pmt = None => learnedPmt # None
        BY <3>2, <3>3, <2>3 DEF Pmt
      <4>5. "pat" \in heard' => "pat" \in heard
        BY <4>1
      <4>6. channel.svc \in heard' => pids' = Own(carrier, channel.svc)
        BY <4>1, <3>1, <3>2, <2>3 DEF IInv, Told
      <4>7. ~Shared(carrier, PmtOf(carrier, channel.svc)) => s = channel.svc
        BY <4>2, <4>3, <2>1, <2>3, <3>2, KnownPmt DEF Shared, Carries
      <4>8. ca' = "free" /\ ~Shared(carrier, PmtOf(carrier, channel.svc))
              => ~Programs[carrier][channel.svc].scrambled
        BY <4>1, <4>7, <3>1, <3>2 DEF IInv, Told, p
      <4> QED BY <3>1, <4>1, <4>3, <4>4, <4>5, <4>6, <4>8 DEF IInv, Told
    <3>4. CASE ~(mine.svc # None /\ p.pmt = Pmt)
      <4>1. UNCHANGED <<carrier, channel, learnedPmt, missing, silent,
                        pids, ca, heard>>
        BY <1>22, <3>4 DEF FindsPmt, p
      <4> QED BY <3>1, <4>1 DEF IInv, Told
    <3> QED BY <3>3, <3>4
  <2> QED BY <1>t, <2>2, <2>5, <2>6, <2>8, <2>9 DEF IInv
<1>23. ASSUME OpensVideo PROVE IInv'
  <2>1. Places' /\ Copied' /\ Clean'
    BY <1>p, <1>23 DEF IInv, Places, Copied, Clean, At, Goto, Threads, Noticed,
       TypeOK, RingTyped, Counted, OpensVideo
  <2>2. Learned' /\ SlotOwn' /\ Told'
    BY <1>p, <1>23 DEF IInv, Learned, SlotOwn, Told, Settled, Right, At, Goto,
       Threads, OpensVideo
  <2> QED BY <1>t, <2>1, <2>2 DEF IInv
<1>24. ASSUME EndsPass PROVE IInv'
  <2>1. Places' /\ Copied' /\ Clean'
    BY <1>p, <1>24 DEF IInv, Places, Copied, Clean, At, Goto, Threads, Noticed,
       TypeOK, RingTyped, Counted, EndsPass, PassOver
  <2>2. Learned' /\ SlotOwn' /\ Told'
    BY <1>p, <1>24 DEF IInv, Learned, SlotOwn, Told, Settled, Right, At, Goto,
       Threads, EndsPass, PassOver
  <2> QED BY <1>t, <2>1, <2>2 DEF IInv
<1>25. CASE UNCHANGED vars
  BY <1>t, <1>25 DEF vars, IInv, Places, Copied, Clean, Learned, SlotOwn, Told,
     Settled, Right, At
<1> QED
  BY <1>1, <1>2, <1>3, <1>4, <1>5, <1>6, <1>7, <1>8, <1>9, <1>10, <1>11, <1>12, <1>13, <1>14,
     <1>15, <1>16, <1>17, <1>18, <1>19, <1>20, <1>21, <1>22, <1>23, <1>24, <1>25
  DEF Next, Command, Stream, Turns

(* The initial state satisfies the invariant.                              *)
LEMMA InitInv == Init => IInv
<1> SUFFICES ASSUME Init PROVE IInv
  OBVIOUS
<1>1. TypeOK
  BY InitTypes
<1>2. Places /\ Copied
  BY DEF Init, Places, Copied, At, Noticed, Threads
<1>3. Clean /\ Learned /\ SlotOwn
  BY DEF Init, Clean, Learned, SlotOwn, EmptySlot
<1>4. Told
  BY DEF Init, Told
<1> QED BY <1>1, <1>2, <1>3, <1>4 DEF IInv

LEMMA Invariant == Spec => []IInv
BY InitInv, StepInv, PTL DEF Spec

-----------------------------------------------------------------------------
(* The variables of the stream thread and of the commands keep their types *)
(* whatever is tuned, chosen and received.                                 *)
THEOREM TypeCorrect == Spec => []TypeOK
<1>1. IInv => TypeOK
  BY DEF IInv
<1> QED BY <1>1, Invariant, PTL

(* The filter of daemon_stream_thread lets no packet of another service    *)
(* through once the thread has taken up the channel of set_channel whole.  *)
THEOREM SendsOwn == Spec => []OwnPackets
<1>1. ASSUME IInv PROVE OwnPackets
  <2> SUFFICES ASSUME TakenUp, TtxRight
               PROVE  OnAir(buf) \cap Filter \subseteq Own(buf, mine.svc)
    BY DEF OwnPackets
  <2>1. Settled /\ At("stream", "packets")
    BY DEF TakenUp, Settled
  <2>2. buf = carrier /\ mine = channel /\ buf \in Carriers
    BY <1>1, <2>1, InPackets
  <2>3. pids \in {{}, Own(buf, mine.svc)}
    BY <1>1, <2>1, <2>2 DEF IInv, Learned
  <2>4. None \notin OnAir(buf)
    <3>1. \A s \in DOMAIN Programs[buf] : Programs[buf][s].streams \subseteq Pids
      BY <2>2, ProgramType DEF Program
    <3> QED BY <3>1 DEF OnAir
  <2>5. mine.ttx \in Own(buf, mine.svc) \cup {None}
    BY DEF TtxRight
  <2>6. Filter \subseteq Own(buf, mine.svc) \cup {None}
    BY <2>3, <2>5 DEF Filter
  <2> QED BY <2>4, <2>6
<1> QED BY <1>1, Invariant, PTL

(* extra_feed sends no packet of another service as long as the carrier is *)
(* the one on which extra_refresh filled the slot.                         *)
THEOREM ExtraSendsOwn == Spec => []ExtraOwnPackets
<1>1. ASSUME IInv PROVE ExtraOwnPackets
  <2> SUFFICES ASSUME At("stream", "packets"), ~slotOld, ~missed
               PROVE  slot.pids \subseteq Own(buf, slot.svc)
    BY DEF ExtraOwnPackets
  <2>1. buf = carrier
    BY <1>1, InPackets
  <2> QED BY <1>1, <2>1 DEF IInv, SlotOwn
<1> QED BY <1>1, Invariant, PTL

(* The host's service_missing and service_ca are called with the truth     *)
(* about the carrier, where list and data allow it.                        *)
THEOREM TellsTruth == Spec => []ToldTrue
<1>1. ASSUME IInv PROVE ToldTrue
  <2> SUFFICES ASSUME TakenUp, PmtRight
               PROVE  /\ missing /\ ~silent => Own(buf, mine.svc) = {}
                      /\ ca = "free" /\ ~Shared(buf, Pmt) =>
                           /\ Carries(buf, mine.svc)
                           /\ ~Programs[buf][mine.svc].scrambled
    BY DEF ToldTrue
  <2>1. Settled /\ At("stream", "packets")
    BY DEF TakenUp, Settled
  <2>2. buf = carrier /\ mine = channel
    BY <1>1, <2>1, InPackets
  <2>3. Right
    BY <2>2 DEF PmtRight, Right
  <2>4. missing /\ ~silent => Own(buf, mine.svc) = {}
    BY <1>1, <2>1, <2>2, <2>3 DEF IInv, Told
  <2>5. ASSUME ca = "free", ~Shared(buf, Pmt)
        PROVE  Carries(buf, mine.svc) /\ ~Programs[buf][mine.svc].scrambled
    <3>1. Pmt = PmtOf(carrier, channel.svc)
      BY <1>1, <2>1, <2>2, <2>3, <2>5 DEF IInv, Told, Right, Pmt
    <3> QED BY <1>1, <2>1, <2>2, <2>3, <2>5, <3>1 DEF IInv, Told
  <2> QED BY <2>4, <2>5
<1> QED BY <1>1, Invariant, PTL
===========================================================================
