----------------------------- MODULE ScanTables -----------------------------
(***************************************************************************)
(* The channel scan of a recorded transport stream, core/ts_services.c:    *)
(* sections are put together from the packets of each pid and the PAT,     *)
(* SDT, PMT and NIT are collected into one result.                         *)
(*                                                                         *)
(* Packets of the capture may be missing or hold noise, and it begins and  *)
(* ends anywhere.                                                          *)
(***************************************************************************)
EXTENDS Naturals, Sequences, FiniteSets, SequencesExt, FiniteSetsExt, Sections

CONSTANTS
  Pids,         (* the pids that carry tables                              *)
  Carousel,     (* the sections of each pid, repeated for ever             *)
  MaxServices, MaxCarriers, (* DTV_TS_MAX_SERVICES and _NETWORK_TPS        *)
  LongestGuess  (* bound on the cells of a section with a false header     *)

ASSUME TablesAssumption ==
  LongestGuess \in Nat /\ MaxServices \in Nat /\ MaxCarriers \in Nat

VARIABLES
  services,  (* result->services, by service id                            *)
  carriers,  (* result->network_tps, by frequency and polarization         *)
  known,     (* the pids with a psi_context                                *)
  context,   (* data and expected of each psi_context                      *)
  place,     (* the next packet of each pid                                *)
  inRow,     (* history: packets of each pid received in a row             *)
  received,  (* history: sections received whole and in a row, by pid      *)
  missing

found == [services |-> services, carriers |-> carriers, known |-> known]
scanVars == <<services, carriers, known, context, place, inRow, received, missing>>

-----------------------------------------------------------------------------
(* What is on the air.                                                     *)
Cycles == [p \in Pids |-> CycleOf(Carousel[p])]
PacketsOf(p) == Len(Cycles[p]) \div Room
PayloadOf(p, n) == PacketOf(Cycles[p], Room, n)
Longest == Max({PacketsOf(p) : p \in Pids})
Kinds == {"video", "audio", "teletext"}
Broadcast(table) ==
  {s \in UNION {ToSet(Carousel[p]) : p \in Pids} : s.table = table}
Programmes == UNION {ToSet(s.programmes) : s \in Broadcast("PAT")}
Entries == UNION {ToSet(s.entries) : s \in Broadcast("SDT")}
Pmts(id) == {s \in Broadcast("PMT") : s.id = id}

(* A section has at least one cell, and what its table lists has the       *)
(* fields that the parsers read.                                           *)
IsList(list) == list \in Seq(ToSet(list))
HasFields(s) ==
  CASE s.table = "PAT" ->
         /\ IsList(s.programmes)
         /\ \A e \in ToSet(s.programmes) : e = [id |-> e.id, pid |-> e.pid]
    [] s.table = "SDT" ->
         IsList(s.entries) /\ \A e \in ToSet(s.entries) : e.scrambled \in BOOLEAN
    [] s.table = "PMT" ->
         /\ IsList(s.cas) /\ None \notin ToSet(s.cas) /\ IsList(s.streams)
         /\ \A e \in ToSet(s.streams) :
              e = [kind |-> e.kind, pid |-> e.pid] /\ e.kind \in Kinds
    [] s.table = "NIT" ->
         IsList(s.transports) /\ \A t \in ToSet(s.transports) : IsList(t)
WellFormed ==
  \A p \in Pids :
    /\ IsList(Carousel[p])
    /\ \A s \in ToSet(Carousel[p]) :
         /\ s.table \in {"PAT", "SDT", "PMT", "NIT"}
         /\ s.size \in Nat \ {0} /\ s.pad \in Nat /\ HasFields(s)

ASSUME CarouselAssumption == WellFormed

(* The packets of a pid are filled, and behind stuffing there is nothing   *)
(* else.  A service has one pmt pid and one name, and None is no such.     *)
Fills(p) ==
  /\ Len(Cycles[p]) % Room = 0
  /\ \A n \in 1..PacketsOf(p) : \A i \in 1..(Room - 1) :
       PayloadOf(p, n)[i] = Stuffing => PayloadOf(p, n)[i + 1] = Stuffing
Agreed ==
  /\ \A d, e \in Programmes : d.id = e.id => d.pid = e.pid
  /\ \A d, e \in Entries : d.id = e.id => d.name = e.name
  /\ \A e \in Programmes : e.pid # None
  /\ \A e \in Entries : e.name # None
  /\ \A s \in Broadcast("PMT") : \A e \in ToSet(s.streams) : e.pid # None

ASSUME BroadcastAssumption == Agreed /\ \A p \in Pids : Fills(p)

-----------------------------------------------------------------------------
(* The tables.  f is the result so far.                                    *)
NewService ==
  [pmt |-> None, here |-> FALSE, video |-> None, audio |-> None, teletext |-> None,
   ca |-> None, scrambled |-> FALSE, name |-> None]

(* find_service, and what is stored there: nothing when the table is full. *)
Found(f, id) == IF id \in DOMAIN f.services THEN f.services[id] ELSE NewService
Updated(f, id, service) ==
  LET ids == DOMAIN f.services
  IN IF id \notin ids /\ Cardinality(ids) >= MaxServices THEN f
     ELSE [f EXCEPT !.services = [i \in ids \union {id} |->
             IF i = id THEN service ELSE f.services[i]]]

WithContext(f, p) ==
  IF Cardinality(f.known) < MaxServices + 2
  THEN [f EXCEPT !.known = @ \union {p}] ELSE f

Programme(f, e) ==
  LET g == Updated(f, e.id, [Found(f, e.id) EXCEPT !.pmt = e.pid, !.here = TRUE])
  IN IF e.id \in DOMAIN g.services THEN WithContext(g, e.pid) ELSE g
ParsePat(f, s) == FoldLeft(Programme, f, s.programmes)

(* "free_CA_mode only ever adds; it never clears."                         *)
FlagCopied(v, e) == e.scrambled
FlagAdded(v, e) == v.scrambled \/ e.scrambled
Described(f, e) ==
  LET v == Found(f, e.id)
  IN Updated(f, e.id, [v EXCEPT !.scrambled = FlagAdded(v, e), !.name = e.name])
ParseSdt(f, s) == FoldLeft(Described, f, s.entries)

(* The first CA system named is taken.                                     *)
NamesCa(v, cas) ==
  IF v.ca # None \/ cas = <<>> THEN v
  ELSE [v EXCEPT !.ca = Head(cas), !.scrambled = TRUE]
Stream(v, e) ==
  IF v[e.kind] = None THEN [v EXCEPT ![e.kind] = e.pid] ELSE v
ParsePmt(f, s) ==
  Updated(f, s.id,
    FoldLeft(Stream, NamesCa([Found(f, s.id) EXCEPT !.here = TRUE], s.cas), s.streams))

(* A carrier without a frequency or rate ends its transport's list.        *)
Named(transport) ==
  {transport[i] : i \in {i \in DOMAIN transport : \A j \in 1..i : transport[j] # None}}
Carrier(f, c) ==
  IF Cardinality(f.carriers) < MaxCarriers THEN [f EXCEPT !.carriers = @ \union {c}] ELSE f
Transport(f, transport) == FoldLeft(Carrier, f, SetToSeq(Named(transport)))
ParseNit(f, s) == FoldLeft(Transport, f, s.transports)

Parse(f, s) ==
  CASE s.table = "PAT" -> ParsePat(f, s)
    [] s.table = "SDT" -> ParseSdt(f, s)
    [] s.table = "PMT" -> ParsePmt(f, s)
    [] s.table = "NIT" -> ParseNit(f, s)

(* The CRC tells a section from an accident.                               *)
Accident == [table |-> "PMT", id |-> "accident", cas |-> <<>>, streams |-> <<>>]
CrcHolds(p, data) ==
  \E k \in DOMAIN Carousel[p] : data = CellsOf(Carousel[p][k], k)
CrcSkipped(f, p, data) ==
  IF CrcHolds(p, data) THEN Parse(f, Carousel[p][data[1].of]) ELSE Parse(f, Accident)
ParseSection(f, p, data) ==
  IF CrcHolds(p, data) THEN Parse(f, Carousel[p][data[1].of]) ELSE f

-----------------------------------------------------------------------------
(* append_section, cell by cell.  over: the rest is not looked at, because *)
(* it is stuffing or, before the pointer, because the section has ended.   *)
NoSection == [data |-> <<>>, expected |-> 0]
Acc(f, c) == [f |-> f, data |-> c.data, expected |-> c.expected, over |-> FALSE]

(* 0 for a length that no section has.                                     *)
Expected(p, cell, guess) ==
  IF Begins(cell) THEN Carousel[p][cell.of].size ELSE guess

Appended(p, guess, once, acc, cell) ==
  LET fresh == acc.data = <<>>
      data == Append(acc.data, cell)
      expected == IF fresh THEN Expected(p, cell, guess) ELSE acc.expected
  IN CASE acc.over -> acc
       [] ~acc.over /\ fresh /\ cell = Stuffing -> [acc EXCEPT !.over = TRUE]
       [] OTHER ->
            IF expected \in {0, Len(data)}
            THEN [f |-> IF expected = 0 THEN acc.f ELSE ParseSection(acc.f, p, data),
                  data |-> <<>>, expected |-> 0, over |-> once]
            ELSE [acc EXCEPT !.data = data, !.expected = expected]

AppendSection(p, guess, once, acc, cells) ==
  FoldLeft(LAMBDA a, c : Appended(p, guess, once, a, c), acc, cells)

(* process_payload.                                                        *)
TailDropped(p, guess, acc, cells) == acc
TailAdded(p, guess, acc, cells) ==
  IF acc.data = <<>> THEN acc ELSE AppendSection(p, guess, TRUE, acc, cells)

Processed(p, guess, cells, start, pointer) ==
  LET acc == Acc(found, context[p])
  IN IF ~start THEN AppendSection(p, guess, FALSE, acc, cells)
     ELSE IF pointer > Room THEN Acc(found, NoSection)
     ELSE AppendSection(p, guess, FALSE,
            Acc(TailAdded(p, guess, acc, SubSeq(cells, 1, pointer)).f, NoSection),
            SubSeq(cells, pointer + 1, Room))

-----------------------------------------------------------------------------
ScanInit ==
  /\ services = << >> /\ carriers = {} /\ known = {"PAT", "SDT", "NIT"}
  /\ context = [p \in Pids |-> NoSection]
  /\ place \in {c \in [Pids -> 1..Longest] : \A p \in Pids : c[p] \in 1..PacketsOf(p)}
  /\ inRow = [p \in Pids |-> 0] /\ received = [p \in Pids |-> {}] /\ missing = 0

(* A packet of a pid without a context is passed over.                     *)
TakesOn(p, guess, cells, start, pointer) ==
  IF p \notin known THEN UNCHANGED <<services, carriers, known, context>>
  ELSE LET acc == Processed(p, guess, cells, start, pointer)
       IN /\ services' = acc.f.services /\ carriers' = acc.f.carriers
          /\ known' = acc.f.known
          /\ context' = [context EXCEPT ![p] =
                           [data |-> acc.data, expected |-> acc.expected]]

Advances(p) == place' = [place EXCEPT ![p] = (@ % PacketsOf(p)) + 1]

(* The sections whose last cell is in packet n of p, with the packets each *)
(* of them spans.                                                          *)
SpansOn == [p \in Pids |-> [k \in DOMAIN Carousel[p] |-> SpansOf(Cycles[p], Room, k)]]
LastOn(p, n) ==
  {k \in DOMAIN Carousel[p] : n \in SpansOn[p][k] /\ \A m \in SpansOn[p][k] : m <= n}

ReceivesOn(p) ==
  LET n == place[p]
      cells == PayloadOf(p, n)
  IN /\ \E guess \in 0..LongestGuess : TakesOn(p, guess, cells, Starts(cells), PointerOf(cells))
     /\ Advances(p)
     /\ inRow' = [inRow EXCEPT ![p] =
          IF p \notin known THEN 0 ELSE IF @ = PacketsOf(p) THEN @ ELSE @ + 1]
     /\ received' = [received EXCEPT ![p] = @ \union
          {k \in LastOn(p, n) : Cardinality(SpansOn[p][k]) <= inRow'[p]}]
     /\ UNCHANGED missing

Breaks(p) ==
  /\ missing < MaxLost /\ missing' = missing + 1
  /\ inRow' = [inRow EXCEPT ![p] = 0] /\ UNCHANGED received
  /\ Advances(p)

(* A packet that is missing, has no sync byte or no payload.               *)
LosesOn(p) == Breaks(p) /\ UNCHANGED <<services, carriers, known, context>>

Damaged(p) ==
  /\ Breaks(p)
  /\ \E guess \in 0..LongestGuess, start \in BOOLEAN, pointer \in 0..(Room + 1) :
       TakesOn(p, guess, [i \in 1..Room |-> Noise], start, pointer)

ScanNext == \E p \in Pids : ReceivesOn(p) \/ LosesOn(p) \/ Damaged(p)

ScanSpec == ScanInit /\ [][ScanNext]_scanVars

-----------------------------------------------------------------------------
(* Nothing in the result is made up, however the capture is torn: each     *)
(* field of a service is what a section on the air says of that service.   *)
IsOnAir(id, v) ==
  /\ v.pmt # None => [id |-> id, pid |-> v.pmt] \in Programmes
  /\ v.here => Pmts(id) # {} \/ \E e \in Programmes : e.id = id
  /\ v.name # None => \E e \in Entries : e.id = id /\ e.name = v.name
  /\ v.ca # None => \E s \in Pmts(id) : v.ca \in ToSet(s.cas)
  /\ \A kind \in Kinds : v[kind] # None =>
       \E s \in Pmts(id) : [kind |-> kind, pid |-> v[kind]] \in ToSet(s.streams)
  /\ v.scrambled => v.ca # None \/ \E e \in Entries : e.id = id /\ e.scrambled

AsBroadcast == \A id \in DOMAIN services : IsOnAir(id, services[id])

(* What was received whole is in the result, whatever was lost before it   *)
(* and in whatever order the tables came; "a table naming a CA system      *)
(* beats the SDT flag".  Only a table that is full leaves a service out.   *)
HasRoomFor(f, id) ==
  id \in DOMAIN f.services \/ Cardinality(DOMAIN f.services) < MaxServices
TableFull(f) == Cardinality(DOMAIN f.services) = MaxServices

Tells(f, s) ==
  CASE s.table = "PAT" ->
         \A e \in ToSet(s.programmes) :
           \/ ~HasRoomFor(f, e.id)
           \/ e.id \in DOMAIN f.services /\ f.services[e.id].pmt = e.pid
              /\ (e.pid \in f.known \/ TableFull(f))
    [] s.table = "SDT" ->
         \A e \in ToSet(s.entries) :
           \/ ~HasRoomFor(f, e.id)
           \/ e.id \in DOMAIN f.services /\ f.services[e.id].name = e.name
              /\ (e.scrambled => f.services[e.id].scrambled)
    [] s.table = "PMT" ->
         \/ ~HasRoomFor(f, s.id)
         \/ /\ s.id \in DOMAIN f.services
            /\ \A e \in ToSet(s.streams) : f.services[s.id][e.kind] # None
            /\ s.cas # <<>> => f.services[s.id].scrambled
    [] s.table = "NIT" ->
         \A i \in DOMAIN s.transports :
           Named(s.transports[i]) \subseteq f.carriers \/ Cardinality(f.carriers) = MaxCarriers

HeardIsKnown == \A p \in Pids : \A k \in received[p] : Tells(found, Carousel[p][k])
=============================================================================
