-------------------------- MODULE MCReceiverTuning --------------------------
(***************************************************************************)
(* Instances of ReceiverTuning.  The requests cover what daemon_tune tells *)
(* apart: two LNB settings with and without a DiSEqC message, a blind one, *)
(* one fed by another receiver (0 volts) and one the supply cannot make.   *)
(***************************************************************************)
EXTENDS ReceiverTuning

Vertical == [freq |-> 1, rate |-> 0, volts |-> 13, tone |-> FALSE, switch |-> 0]
Horizontal == [freq |-> 2, rate |-> 1, volts |-> 18, tone |-> TRUE, switch |-> 1]
Loop == [freq |-> 1, rate |-> 1, volts |-> 0, tone |-> FALSE, switch |-> 0]
Odd == [freq |-> 1, rate |-> 1, volts |-> 14, tone |-> FALSE, switch |-> 0]

AllRequests == {Vertical, Horizontal, Loop, Odd}
TwoRequests == {Horizontal, Loop}
OneRequest == {Horizontal}
BlindRequest == {Vertical}
=============================================================================
