------------------------------ MODULE MCBoard ------------------------------
(* Both firmware formats, three scripts and the tunes that differ in what  *)
(* they send.                                                              *)
EXTENDS Board

Files == {[old |-> TRUE, pieces |-> <<2, 1>>], [old |-> FALSE, pieces |-> <<1, 1, 1>>]}

On(op, variable, arg, negate) ==
  [op |-> op, variable |-> variable, arg |-> arg, negate |-> negate]
Record(terms, command, var) == [terms |-> terms, command |-> command, var |-> var]
Always == <<>>
If(v) == <<On("LOAD", TRUE, v, FALSE)>>
Unless(v) == <<On("LOAD", TRUE, v, TRUE)>>

(* A patch that asks whether one runs already, one that checks itself and  *)
(* one with every way to combine terms.                                    *)
Patches == {
  <<Record(Always, "PING", 1), Record(If(1), "EXIT", 1),
    Record(Always, "ASSERT_RESET", 1), Record(Always, "LOAD", 1),
    Record(Always, "DMA_HW", 1), Record(Always, "RELEASE_RESET", 1),
    Record(Always, "POLL", 1)>>,
  <<Record(Always, "RELEASE_RESET", 1), Record(Always, "LOAD_PACKED", 1),
    Record(Always, "VALIDATE_CRC", 1), Record(Unless(1), "EXTRACT", 1),
    Record(If(1), "DMA", 1)>>,
  <<Record(Always, "RELEASE_RESET", 1), Record(Always, "READ", 1),
    Record(Always, "SET_CONDITION", 2),
    Record(<<On("LOAD", TRUE, 1, FALSE), On("AND", TRUE, 2, FALSE),
             On("OR", FALSE, FALSE, FALSE), On("EQUALS", TRUE, 2, FALSE),
             On("STORE", TRUE, 1, FALSE)>>, "LOAD_IMMEDIATE", 1),
    Record(<<On("LOAD", TRUE, 1, FALSE), On("NOT_EQUALS", TRUE, 2, FALSE)>>, "EXIT", 1)>>}

Setting(volts, tone, port, uncommitted, burst, repeat) ==
  [volts |-> volts, tone |-> tone, port |-> port, uncommitted |-> uncommitted,
   burst |-> burst, repeat |-> repeat]
Settings == {Setting(TRUE, TRUE, TRUE, FALSE, 2, FALSE),
             Setting(FALSE, FALSE, FALSE, FALSE, 0, FALSE)}
=============================================================================
