---------------------------- MODULE MCCamClient ----------------------------
(***************************************************************************)
(* Instances of CamClient: two services of one CA system each, for what a  *)
(* channel change may mix up, and one service of two systems or of one,    *)
(* for the rotation and for what happens to a client on its own.           *)
(***************************************************************************)
EXTENDS CamClient

TwoServices == {"news", "film"}
OneEach == [s \in TwoServices |-> IF s = "news" THEN <<"n1">> ELSE <<"f1">>]
OneService == {"film"}
TwoSystems == [s \in OneService |-> <<"f1", "f2">>]
OneSystem == [s \in OneService |-> <<"f1">>]
=============================================================================
