------------------------------ MODULE Sections ------------------------------
(***************************************************************************)
(* Table sections as a transport stream carries them: a section is .size   *)
(* cells followed by .pad cells of stuffing, and the sections of one pid   *)
(* are cut into packets and repeated for ever.  The cell that begins a     *)
(* section holds its header.                                               *)
(***************************************************************************)
EXTENDS Naturals, Sequences, FiniteSets, SequencesExt

CONSTANTS
  Room,     (* cells of a packet                                           *)
  MaxLost,  (* bound on the packets missing or damaged                     *)
  None

ASSUME PacketAssumption == Room \in Nat \ {0} /\ MaxLost \in Nat

Stuffing == [of |-> 0, at |-> 0]
Noise == [of |-> 0, at |-> 1]
CellsOf(s, k) == [i \in 1..s.size |-> [of |-> k, at |-> i]]
Begins(cell) == cell.of # 0 /\ cell.at = 1

CycleOf(sections) ==
  FlattenSeq([k \in DOMAIN sections |->
    CellsOf(sections[k], k) \o [i \in 1..sections[k].pad |-> Stuffing]])

(* Packet n of a cycle, and the packets that section k has a cell in.      *)
PacketOf(cycle, room, n) == SubSeq(cycle, (n - 1) * room + 1, n * room)
SpansOf(cycle, room, k) ==
  {n \in 1..(Len(cycle) \div room) : \E i \in 1..room : PacketOf(cycle, room, n)[i].of = k}

(* The pointer field of a packet in which a section begins.                *)
Starts(cells) == \E i \in DOMAIN cells : Begins(cells[i])
PointerOf(cells) ==
  IF Starts(cells)
  THEN (CHOOSE i \in DOMAIN cells :
          Begins(cells[i]) /\ \A j \in 1..(i - 1) : ~Begins(cells[j])) - 1
  ELSE 0
=============================================================================
