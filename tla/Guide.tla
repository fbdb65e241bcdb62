------------------------------- MODULE Guide --------------------------------
(***************************************************************************)
(* The programme guide of engine/usb_dvbs2_engine.c and core/ts_epg.c: the *)
(* stream thread puts the sections of the EIT pid together, keeps the      *)
(* title on now and the next one, and sends each event to the host once;   *)
(* the command thread changes the channel meanwhile.                       *)
(*                                                                         *)
(* Only svc, now and next are under g_lock.  The assembler and the table   *)
(* of the events sent are written by both threads without it, so a store   *)
(* of the command thread may be undone by one that the stream thread is in *)
(* the middle of.  The first cell of a section is its header, the others   *)
(* are its events.                                                         *)
(***************************************************************************)
EXTENDS Naturals, Sequences, FiniteSets, SequencesExt, Sections

CONSTANTS
  Services,    (* the services that can be watched                         *)
  Eit,         (* the sections of the EIT pid                              *)
  Full,        (* cells of the assembler                                   *)
  Slots,       (* EPG_SEEN_SLOTS                                           *)
  Clock,       (* the time of day, in the unit of the events' times        *)
  MaxChanges   (* bound on the changes of channel                          *)

ASSUME SizesAssumption ==
  /\ Full \in Nat \ {0} /\ Slots \in Nat \ {0}
  /\ Clock \in Nat /\ MaxChanges \in Nat

(* A section has a cell for each event, it fits into the assembler of 4096 *)
(* bytes, and the sections fill whole packets.                             *)
ASSUME AirAssumption ==
  /\ Room <= Full
  /\ Eit \in Seq(Range(Eit))
  /\ \A k \in DOMAIN Eit :
       /\ Eit[k].size \in 1..Full /\ Eit[k].pad \in Nat
       /\ Eit[k].events \in Seq(Range(Eit[k].events))
       /\ Len(Eit[k].events) = Eit[k].size - 1
  /\ Len(CycleOf(Eit)) % Room = 0

VARIABLES
  svc, now, next,            (* g_svc, g_epg_now, g_epg_next               *)
  data, length, expected,    (* g_eit_assembler                            *)
  seen, count,               (* g_epg_seen, g_epg_seen_count               *)
  stage,                     (* where the stream thread is                 *)
  input, after,              (* cells to append, and those after a reset   *)
  section, extra,            (* the section put together, cells behind it  *)
  left,                      (* its events still to send                   *)
  changing,                  (* stores of set_channel still to come        *)
  cursor, unbroken,          (* the packet on the air, and those in a row  *)
  heard, sent,               (* history: events received and sent since    *)
                             (*   the table of those seen was cleared      *)
  lost, changes

watched == <<svc, now, next>>
assembler == <<data, length, expected>>
table == <<seen, count>>
work == <<stage, input, after, section, extra, left>>
air == <<cursor, unbroken, lost>>
vars == <<watched, assembler, table, work, air, changing, heard, sent, changes>>

-----------------------------------------------------------------------------
Cycle == CycleOf(Eit)
Packets == Len(Cycle) \div Room
Payload(n) == PacketOf(Cycle, Room, n)
Spans == [k \in DOMAIN Eit |-> SpansOf(Cycle, Room, k)]
LastIn(n) == {k \in DOMAIN Eit : n \in Spans[k] /\ \A m \in Spans[k] : m <= n}

Key(s, e) == <<s.svc, e.id, s.version>>

(* What a parser reads in the cells of a section: it takes the first for   *)
(* the header and stops at what is no event.                               *)
HasHeader(cells) == cells # <<>> /\ Begins(Head(cells))
Header(cells) == Eit[Head(cells).of]
IsEvent(cell) == cell.of # 0 /\ cell.at > 1
EventsIn(cells) ==
  LET n == CHOOSE n \in 1..Len(cells) :
             /\ \A i \in 2..n : IsEvent(cells[i])
             /\ n = Len(cells) \/ ~IsEvent(cells[n + 1])
  IN [i \in 1..(n - 1) |-> Eit[cells[i + 1].of].events[cells[i + 1].at - 1]]

(* dtv_epg_parse_section: an event without a time or title is left out.    *)
IsGuide(s) == s.table \in {"present", "other", "schedule"}
Placed(s, e) == IsGuide(s) /\ e.start # None /\ e.title # None
Guided(cells) == IF HasHeader(cells) THEN EventsIn(cells) ELSE <<>>
PlacedKeys(s) == {Key(s, e) : e \in {e \in ToSet(s.events) : Placed(s, e)}}

(* parse_eit_section: the first event on now, and of the others the one    *)
(* that starts first of those to come.                                     *)
OnNowOfAny(s, e) ==
  e.running \/ (e.start # None /\ e.start <= Clock /\ Clock < e.stop)
OnNow(s, e) ==
  s.number = 0 /\ (e.running \/ (e.start # None /\ e.start <= Clock /\ Clock < e.stop))
FirstNow(s, events) ==
  {i \in DOMAIN events : OnNow(s, events[i]) /\ \A j \in 1..(i - 1) : ~OnNow(s, events[j])}
ToCome(s, events) ==
  {i \in DOMAIN events \ FirstNow(s, events) : events[i].start # None /\ events[i].start > Clock}
FirstToCome(s, events) ==
  {i \in ToCome(s, events) : \A j \in ToCome(s, events) :
     \/ events[i].start < events[j].start
     \/ (events[i].start = events[j].start /\ i <= j)}

(* The packets on the air came in a row from the first pointer of this     *)
(* round on: none was lost since and no store of set_channel fell between. *)
InRow(n) == IF stage = "idle" THEN n < cursor /\ unbroken >= cursor - n
            ELSE n <= cursor /\ unbroken >= cursor - n + 1
Synced == \E n \in 1..Packets :
            /\ Starts(Payload(n)) /\ InRow(n)
            /\ (n = cursor => after = <<>>)

(* What is stored of event i of a section: it goes for an event of the     *)
(* service and number in the header.  History: the service and number of   *)
(* the section its cell is of, and whether the thread was in step.         *)
Shown(cells, i) ==
  LET s == Header(cells)
      from == Eit[cells[i + 1].of]
  IN [svc |-> s.svc, table |-> s.table, number |-> s.number,
      title |-> EventsIn(cells)[i].title,
      ofService |-> from.svc, ofNumber |-> from.number, whole |-> Synced]

-----------------------------------------------------------------------------
(* The stream thread: metadata_feed_packet.                                *)
Idle == stage = "idle"

Takes(cells, start, pointer) ==
  /\ stage' = "append"
  /\ IF start /\ pointer > 0 /\ length > 0
     THEN /\ input' = SubSeq(cells, 1, pointer)
          /\ after' = SubSeq(cells, pointer + 1, Len(cells))
          /\ UNCHANGED assembler
     ELSE /\ input' = SubSeq(cells, pointer + 1, Len(cells)) /\ after' = <<>>
          /\ UNCHANGED data
          /\ IF start THEN length' = 0 /\ expected' = 0 ELSE UNCHANGED <<length, expected>>
  /\ UNCHANGED <<section, extra, left>>

Receives ==
  /\ Idle
  /\ LET cells == Payload(cursor) IN Takes(cells, Starts(cells), PointerOf(cells))
  /\ unbroken' = IF unbroken = Packets THEN unbroken ELSE unbroken + 1
  /\ UNCHANGED <<watched, table, changing, cursor, lost, heard, sent, changes>>

Loses ==
  /\ Idle /\ lost < MaxLost /\ lost' = lost + 1
  /\ cursor' = (cursor % Packets) + 1 /\ unbroken' = 0
  /\ UNCHANGED <<watched, assembler, table, work, changing, heard, sent, changes>>

(* metadata_append.  Stuffing before a section is left out.                *)
Unstuffed ==
  IF length > 0 THEN input
  ELSE LET kept == {i \in DOMAIN input : input[i] # Stuffing}
       IN IF kept = {} THEN <<>>
          ELSE SubSeq(input, CHOOSE i \in kept : \A j \in kept : i <= j, Len(input))

(* A header where there is none may give any length.  What does not fit    *)
(* into the assembler is dropped.                                          *)
Length(cell) == IF Begins(cell) THEN {Eit[cell.of].size} ELSE 1..(Full + 1)

Appends ==
  /\ stage = "append" /\ Unstuffed # <<>>
  /\ LET copy == IF Len(Unstuffed) < Full - length THEN Len(Unstuffed) ELSE Full - length
         grown == SubSeq(data, 1, length) \o SubSeq(Unstuffed, 1, copy)
         n == length + copy
     IN \E size \in (IF expected = 0 THEN Length(grown[1]) ELSE {expected}) :
          /\ data' = grown
          /\ \/ /\ size <= n
                /\ stage' = "measure" /\ section' = SubSeq(grown, 1, size) /\ extra' = n - size
                /\ length' = n /\ expected' = size
             \/ /\ size > n
                /\ length' = (IF n = Full THEN 0 ELSE n)
                /\ expected' = (IF n = Full THEN 0 ELSE size)
                /\ UNCHANGED <<stage, section, extra>>
  /\ input' = <<>>
  /\ UNCHANGED <<after, left, watched, table, air, changing, heard, sent, changes>>

(* The sizes are taken again behind the test: they are those tested, or    *)
(* what the command thread made of them.  A length that was reset is less  *)
(* than the section, and the size of the copy behind it underflows.        *)
Underflow == None

Measures ==
  /\ stage = "measure" /\ stage' = "check"
  /\ \/ UNCHANGED <<section, extra>>
     \/ /\ section' = SubSeq(data, 1, expected)
        /\ extra' = IF expected <= length THEN length - expected ELSE Underflow
  /\ UNCHANGED <<watched, assembler, table, air, input, after, left, changing, heard,
                 sent, changes>>

(* The end of what comes before the pointer, and the end of the packet.    *)
Resets ==
  /\ stage = "append" /\ Unstuffed = <<>> /\ after # <<>>
  /\ input' = after /\ after' = <<>> /\ length' = 0 /\ expected' = 0
  /\ UNCHANGED <<data, stage, section, extra, left, watched, table, air, changing,
                 heard, sent, changes>>

Ends ==
  /\ stage = "append" /\ Unstuffed = <<>> /\ after = <<>>
  /\ stage' = "idle" /\ input' = <<>> /\ cursor' = (cursor % Packets) + 1
  /\ heard' = heard \union
       UNION {PlacedKeys(Eit[k]) : k \in {k \in LastIn(cursor) : Cardinality(Spans[k]) <= unbroken}}
  /\ UNCHANGED <<watched, assembler, table, after, section, extra, left, unbroken, lost,
                 changing, sent, changes>>

(* parse_eit_section looks at g_svc before it reads the section, and again *)
(* before it stores what it read.                                          *)
Watched(s) == s.table = "present" /\ s.number <= 1 /\ s.svc = svc

Checks ==
  /\ stage = "check"
  /\ stage' = IF HasHeader(section) /\ Watched(Header(section)) THEN "store" ELSE "send"
  /\ left' = Guided(section)
  /\ UNCHANGED <<watched, assembler, table, air, input, after, section, extra, changing,
                 heard, sent, changes>>

StillAssumed(s) == TRUE
StillWatched(s) == s.svc = svc

Stores ==
  /\ stage = "store" /\ stage' = "send"
  /\ LET s == Header(section)
         events == EventsIn(section)
         first == FirstNow(s, events)
         coming == FirstToCome(s, events)
     IN /\ now' = IF StillWatched(s) /\ first # {}
                  THEN Shown(section, CHOOSE i \in first : TRUE) ELSE now
        /\ next' = IF StillWatched(s) /\ coming # {}
                   THEN Shown(section, CHOOSE i \in coming : TRUE) ELSE next
  /\ UNCHANGED <<svc, assembler, table, air, input, after, section, extra, left, changing,
                 heard, sent, changes>>

(* forward_epg_section.  epg_already_sent: a table three quarters full     *)
(* starts over.  An event is noted before it is sent.                      *)
Filled == count * 4 >= Slots * 3

Skips ==
  /\ stage = "send" /\ left # <<>> /\ ~Placed(Header(section), Head(left))
  /\ left' = Tail(left)
  /\ UNCHANGED <<watched, assembler, table, air, stage, input, after, section, extra,
                 changing, heard, sent, changes>>

Notes ==
  /\ stage = "send" /\ left # <<>> /\ Placed(Header(section), Head(left))
  /\ LET key == Key(Header(section), Head(left))
         kept == IF Filled THEN {} ELSE seen
         new == key \notin kept
         room == Cardinality(kept) < Slots
     IN /\ seen' = IF room THEN kept \union {key} ELSE kept
        /\ count' = (IF Filled THEN 0 ELSE count) + (IF new /\ room THEN 1 ELSE 0)
        /\ IF new THEN stage' = "tell" /\ UNCHANGED left
           ELSE left' = Tail(left) /\ UNCHANGED stage
  /\ UNCHANGED <<watched, assembler, air, input, after, section, extra, changing,
                 heard, sent, changes>>

Sends ==
  /\ stage = "tell" /\ stage' = "send"
  /\ sent' = sent \union {Key(Header(section), Head(left))} /\ left' = Tail(left)
  /\ UNCHANGED <<watched, assembler, table, air, input, after, section, extra, changing,
                 heard, changes>>

(* What is behind the section is read where it ends now.                   *)
RestDropped == <<>>
Rest == SubSeq(data, expected + 1, expected + extra)

GoesOn ==
  /\ stage = "send" /\ left = <<>> /\ extra # Underflow
  /\ stage' = "append" /\ input' = Rest /\ length' = 0 /\ expected' = 0
  /\ section' = <<>> /\ extra' = 0
  /\ UNCHANGED <<data, after, left, watched, table, air, changing, heard, sent, changes>>

(* A copy of more than there is ends the process.                          *)
Overruns ==
  /\ stage = "send" /\ left = <<>> /\ extra = Underflow /\ stage' = "overrun"
  /\ UNCHANGED <<watched, assembler, table, air, input, after, section, extra, left,
                 changing, heard, sent, changes>>
Running == stage # "overrun"

-----------------------------------------------------------------------------
(* The command thread: set_channel.  The first part is under g_lock.       *)
SetsChannel(s) ==
  /\ Running /\ changing = {} /\ changes < MaxChanges /\ changes' = changes + 1
  /\ svc' = s /\ now' = None /\ next' = None
  /\ changing' = {"length", "expected", "seen", "count"}
  /\ UNCHANGED <<assembler, table, work, air, heard, sent>>

Does(part, before) ==
  Running /\ part \in changing /\ changing \intersect before = {} /\ changing' = changing \ {part}

ResetsLength ==
  /\ Does("length", {}) /\ length' \in {0, length} /\ unbroken' = 0
  /\ UNCHANGED <<watched, data, expected, table, work, cursor, lost, heard, sent, changes>>

ResetsExpected ==
  /\ Does("expected", {}) /\ expected' \in {0, expected} /\ unbroken' = 0
  /\ UNCHANGED <<watched, data, length, table, work, cursor, lost, heard, sent, changes>>

SeenKept == seen
SeenCleared == {}

Forgets ==
  /\ Does("seen", {"length", "expected"})
  /\ seen' = SeenCleared /\ heard' = {} /\ sent' = {} /\ unbroken' = 0
  /\ UNCHANGED <<watched, assembler, count, work, cursor, lost, changes>>

ResetsCount ==
  /\ Does("count", {"length", "expected", "seen"}) /\ count' \in {0, count}
  /\ UNCHANGED <<watched, assembler, seen, work, air, heard, sent, changes>>

-----------------------------------------------------------------------------
Init ==
  /\ svc \in Services /\ now = None /\ next = None
  /\ data = <<>> /\ length = 0 /\ expected = 0 /\ seen = {} /\ count = 0
  /\ stage = "idle" /\ input = <<>> /\ after = <<>> /\ section = <<>> /\ extra = 0
  /\ left = <<>> /\ changing = {} /\ cursor \in 1..Packets /\ unbroken = 0
  /\ heard = {} /\ sent = {} /\ lost = 0 /\ changes = 0

Next ==
  \/ Receives \/ Loses \/ Appends \/ Measures \/ Resets \/ Ends
  \/ Checks \/ Stores \/ Skips \/ Notes \/ Sends \/ GoesOn \/ Overruns
  \/ \E s \in Services : SetsChannel(s)
  \/ ResetsLength \/ ResetsExpected \/ Forgets \/ ResetsCount

Spec == Init /\ [][Next]_vars

-----------------------------------------------------------------------------
(* What is shown as on now comes from section 0 of the present table of    *)
(* the service watched, and what comes next from one of the two sections   *)
(* of that table, however a change of channel falls among the packets and  *)
(* between the two looks at g_svc.  The header says so, and nothing checks *)
(* the events behind it: they are of the same section if no packet was     *)
(* lost and no store of set_channel fell between since a pointer came.     *)
OfSection(shown) == shown.ofService = shown.svc /\ shown.ofNumber = shown.number
NowOfService ==
  /\ now # None =>
       /\ now.svc = svc /\ now.table = "present" /\ now.number = 0
       /\ now.whole => OfSection(now)
  /\ next # None =>
       /\ next.svc = svc /\ next.table = "present" /\ next.number <= 1
       /\ next.whole => OfSection(next)

(* "section 1 must never overwrite the now field": the title on now is an  *)
(* event of section 0, of whichever section its header was.                *)
NowNotFollowing == now # None => now.ofNumber = 0

(* "forgetting lets them be sent again on return": an event of a section   *)
(* that was received in one piece after the channel was changed is sent,   *)
(* whatever was sent before and however often the table starts over.       *)
Reheard == heard \subseteq sent
=============================================================================
