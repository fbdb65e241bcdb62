----------------------------- MODULE MCCardLink -----------------------------
(* Both protocols; three ECMs, so that the answer to the first can come    *)
(* two requests later, and a read limit that two messages reach.           *)
EXTENDS CardLink

Both == {"newcamd", "cs378x"}
Few == [p \in Both |-> IF p = "newcamd" THEN 2 ELSE 1]
=============================================================================
