---------------------------- MODULE MCScanTables ----------------------------
(***************************************************************************)
(* An instance of ScanTables: two services on a pmt pid of their own and   *)
(* two that share one, one of another transport, and room for three.  The   *)
(* sections of the SDT follow each other within a packet.                  *)
(***************************************************************************)
EXTENDS ScanTables

TablePids == {"PAT", "SDT", "NIT", "p1", "p2"}
Sec(table, size, pad) == [table |-> table, size |-> size, pad |-> pad]

OnAir ==
  [p \in TablePids |->
     CASE p = "PAT" ->
            <<[table |-> "PAT", size |-> 2, pad |-> 0, programmes |->
                 <<[id |-> "a", pid |-> "p1"], [id |-> "b", pid |-> "p2"],
                   [id |-> "c", pid |-> "p2"]>>]>>
       [] p = "SDT" ->
            <<[table |-> "SDT", size |-> 3, pad |-> 0, entries |->
                 <<[id |-> "a", name |-> "A", scrambled |-> FALSE],
                   [id |-> "b", name |-> "B", scrambled |-> TRUE]>>],
              [table |-> "SDT", size |-> 3, pad |-> 0, entries |->
                 <<[id |-> "d", name |-> "D", scrambled |-> TRUE]>>]>>
       [] p = "NIT" ->
            <<[table |-> "NIT", size |-> 2, pad |-> 0, transports |->
                 <<<<"t1", "t2">>, <<"t1", None, "t3">>>>]>>
       [] p = "p1" ->
            <<[table |-> "PMT", size |-> 3, pad |-> 1, id |-> "a", cas |-> <<"ca1", "ca2">>,
               streams |-> <<[kind |-> "video", pid |-> 1], [kind |-> "video", pid |-> 2],
                             [kind |-> "audio", pid |-> 3]>>]>>
       [] p = "p2" ->
            <<[table |-> "PMT", size |-> 1, pad |-> 0, id |-> "b", cas |-> <<>>,
               streams |-> <<[kind |-> "teletext", pid |-> 4]>>],
              [table |-> "PMT", size |-> 2, pad |-> 1, id |-> "c", cas |-> <<"ca1">>,
               streams |-> <<[kind |-> "audio", pid |-> 5]>>]>>]
=============================================================================
