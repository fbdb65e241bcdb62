------------------------------ MODULE MCGuide -------------------------------
(***************************************************************************)
(* An instance of Guide: two services, the first with what is on now and   *)
(* what follows in two sections.  The programme on now has overrun its     *)
(* time.  A packet lost leaves a section of the first service to be ended  *)
(* by the section that follows, of the same service or of the other one.   *)
(* The first section is empty and the next begins behind it in the same    *)
(* packet.  A table of four slots starts over at the three events that     *)
(* have a time.                                                            *)
(***************************************************************************)
EXTENDS Guide

Event(id, title, start, stop, running) ==
  [id |-> id, title |-> title, start |-> start, stop |-> stop, running |-> running]
Section(tbl, of, number, events, pad) ==
  [table |-> tbl, svc |-> of, number |-> number, version |-> 1,
   events |-> events, size |-> Len(events) + 1, pad |-> pad]

OnAir ==
  <<Section("schedule", "b", 3, <<>>, 0),
    Section("present", "a", 0, <<Event(1, "news", 1, 3, TRUE)>>, 0),
    Section("present", "a", 1, <<Event(2, "talk", 3, 5, FALSE)>>, 0),
    Section("present", "b", 0, <<Event(3, "film", 5, 9, FALSE),
                                 Event(4, "sport", None, None, FALSE)>>, 2)>>
=============================================================================
