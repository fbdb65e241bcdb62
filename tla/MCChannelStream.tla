-------------------------- MODULE MCChannelStream --------------------------
(***************************************************************************)
(* Two carriers.  On the first two services share a PMT pid, on the second *)
(* another service uses a stream pid of the first carrier.                 *)
(***************************************************************************)
EXTENDS ChannelStream

Prog(pmt, streams, scrambled) ==
  [pmt |-> pmt, streams |-> streams, scrambled |-> scrambled]

Two == {"east", "west"}
Air == [c \in Two |->
  IF c = "east"
  THEN [s \in {"news", "film"} |->
          IF s = "news" THEN Prog("m1", {"v1"}, FALSE)
                        ELSE Prog("m1", {"v2"}, TRUE)]
  ELSE [s \in {"film"} |-> Prog("m2", {"v1"}, TRUE)]]

(* The list that names a PMT pid is right about the second carrier.        *)
Listed == {[svc |-> "news", pmt |-> None, ttx |-> None],
           [svc |-> "film", pmt |-> "m2", ttx |-> "v1"]}
Tile == {[svc |-> "news", pmt |-> None], [svc |-> None, pmt |-> None]}
=============================================================================
