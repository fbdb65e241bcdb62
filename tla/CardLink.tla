------------------------------ MODULE CardLink ------------------------------
(***************************************************************************)
(* The two card server protocols of src/core (dtv_camd_newcamd.c and       *)
(* dtv_camd_cs378x.c) with the connection part of the worker of            *)
(* dtv_camd.c: connecting, logging in, asking about an ECM, waiting for    *)
(* its word, keeping an idle connection alive, and dtv_camd_stop.          *)
(*                                                                         *)
(* A message is a record: what it is, its message id, the ECM it answers   *)
(* and the key it was encrypted with.  TCP keeps the messages of a         *)
(* connection in order; the server answers its requests in any order and   *)
(* as late as it likes.  An ECM is its number.                             *)
(***************************************************************************)
EXTENDS Naturals, Sequences

CONSTANTS
  Protocols,   (* the protocols a client may be configured for             *)
  Skips,       (* messages read past in one wait: 64 newcamd, 8 cs378x     *)
  IdSpace,     (* message ids, 2^16                                        *)
  MaxEcms,     (* bound on the ECMs on air                                 *)
  MaxUnread    (* bound on the messages on their way to the client         *)

ASSUME ProtocolsAssumption ==
  Protocols \subseteq {"newcamd", "cs378x"} /\ Skips \in [Protocols -> Nat]

ASSUME BoundsAssumption ==
  /\ IdSpace \in Nat /\ MaxEcms \in Nat \ {0} /\ MaxUnread \in Nat
  /\ MaxEcms + 1 < IdSpace

VARIABLES
  proto,       (* config.proto                                             *)
  known,       (* does the server know the configured key, and the user    *)
  pc,          (* where the worker is                                      *)
  sock,        (* socket_handle: "none" or "open"                          *)
  peer,        (* is the server still at the other end                     *)
  key,         (* newcamd.active_key                                       *)
  msgId,       (* msg_id                                                   *)
  skipped,     (* attempts of recv_cw                                      *)
  onAir,       (* the ECM that is broadcast now                            *)
  pending, last, (* pending_ecm and last_ecm, 0 for none                   *)
  ecm,         (* the ECM the worker took                                  *)
  requests,    (* what the server has not answered yet                     *)
  replies,     (* what it sent and the client has not read                 *)
  answered,    (* the last word published: for which ECM, and of which     *)
  late,        (* history: a word came, or may come, after its timeout     *)
  stopping     (* stop                                                     *)

client == <<proto, known>>
link == <<sock, peer, requests, replies>>
ecms == <<onAir, pending, last, ecm>>
vars == <<client, pc, link, key, msgId, skipped, ecms, answered, late, stopping>>

LoggingIn == {"hello", "login", "card"}
WorkerSteps ==
  LoggingIn \union {"top", "connect", "ready", "answer", "echo", "ended"}
Commands == {"login", "card", "ecm", "keepalive"}
Answers == {"hello", "ack", "nak", "card", "word", "refusal", "echo", "notice"}
Keys == {"none", "login", "session", "other"}
Requests == [cmd : Commands, id : 0..(IdSpace - 1), ecm : 0..MaxEcms]
Messages ==
  [cmd : Answers, id : 0..(IdSpace - 1), ecm : 0..MaxEcms, key : Keys]

Message(cmd, id, e, k) == [cmd |-> cmd, id |-> id, ecm |-> e, key |-> k]
Request(cmd, id, e) == [cmd |-> cmd, id |-> id, ecm |-> e]

Newcamd == proto = "newcamd"
At(step) == pc = step
Alive == sock = "open" /\ peer

Init ==
  /\ proto \in Protocols
  /\ known \in [key : BOOLEAN, user : BOOLEAN]
  /\ pc = "top" /\ sock = "none" /\ peer = FALSE
  /\ key = "none" /\ msgId = 0 /\ skipped = 0
  /\ onAir = 1 /\ pending = 0 /\ last = 0 /\ ecm = 0
  /\ requests = {} /\ replies = <<>>
  /\ answered = [asked |-> 0, of |-> 0]
  /\ late = FALSE /\ stopping = FALSE

-----------------------------------------------------------------------------
(* The stream thread: dtv_camd_submit_ecm drops a repeat of the last one.  *)
Submits ==
  /\ onAir # last /\ onAir # pending
  /\ pending' = onAir
  /\ UNCHANGED <<client, pc, link, key, msgId, skipped, onAir, last, ecm,
                 answered, late, stopping>>

NewEcm ==
  /\ onAir < MaxEcms
  /\ onAir' = onAir + 1
  /\ UNCHANGED <<client, pc, link, key, msgId, skipped, pending, last, ecm,
                 answered, late, stopping>>

-----------------------------------------------------------------------------
(* send_message and cs378x_send.  A write to a server that has gone fails, *)
(* or is taken by the kernel and lost.                                     *)
NextId == (msgId + 1) % IdSpace

Sends(request) ==
  /\ sock = "open"
  /\ requests' = IF peer THEN requests \union {request} ELSE requests

(* The head of the loop looks at stop; logged_in is whether a socket is    *)
(* open there.                                                             *)
NeverSeesStop == FALSE
SeesStop == stopping

GoesOn ==
  /\ At("top") /\ ~SeesStop
  /\ pc' = IF sock = "open" THEN "ready" ELSE "connect"
  /\ UNCHANGED <<client, link, key, msgId, skipped, ecms, answered, late, stopping>>

(* close_connection, and back to the head of the loop: the end of a failed *)
(* login, of a failed send and of a failed receive.                        *)
Closed == sock' = "none" /\ peer' = FALSE /\ requests' = {} /\ replies' = <<>>

GivesUp ==
  /\ pc' = "top" /\ Closed
  /\ UNCHANGED <<client, key, msgId, skipped, ecms, answered, late, stopping>>

(* open_connection; cs378x has no login, and its id goes on from the last  *)
(* connection.                                                             *)
AfterConnect == IF Newcamd THEN "hello" ELSE "ready"
FreshId == IF Newcamd THEN 0 ELSE msgId

Connects ==
  /\ At("connect")
  /\ sock' = "open" /\ peer' = TRUE /\ requests' = {}
  /\ pc' = AfterConnect
  /\ replies' = <<>>
  /\ key' = "none" /\ msgId' = FreshId /\ late' = FALSE
  /\ UNCHANGED <<client, skipped, ecms, answered, stopping>>

(* recv_message.  Everything but the opening bytes is encrypted; a message *)
(* under another key has a wrong checksum.                                 *)
Arrived == sock = "open" /\ replies # <<>>
Next1 == Head(replies)
Readable == Arrived /\ (At("hello") \/ Next1.key = key)
Broken == sock = "none" \/ (replies = <<>> /\ ~peer) \/ (Arrived /\ ~Readable)
Silent == Alive /\ replies = <<>>
Consumes == replies' = Tail(replies) /\ UNCHANGED <<sock, peer>>

(* newcamd_login: the handshake gives the login key, the login carries the *)
(* first message id.                                                       *)
SendsLogin ==
  /\ At("hello") /\ Readable
  /\ Sends(Request("login", NextId, 0)) /\ Consumes
  /\ key' = "login" /\ msgId' = NextId
  /\ pc' = "login"
  /\ UNCHANGED <<client, skipped, ecms, answered, late, stopping>>

(* After the login the key changes, and the card is asked for.             *)
LoginKeyKept == "login"
TrafficKey == "session"

LoggedIn ==
  /\ At("login") /\ Readable /\ Next1.cmd = "ack"
  /\ Sends(Request("card", 0, 0)) /\ Consumes
  /\ key' = TrafficKey
  /\ pc' = "card"
  /\ UNCHANGED <<client, msgId, skipped, ecms, answered, late, stopping>>

LoginRefused == At("login") /\ Readable /\ Next1.cmd # "ack" /\ GivesUp

(* "Short wait, optional answer": whatever comes is read and is enough.    *)
CardTold ==
  /\ At("card") /\ Readable
  /\ Consumes /\ pc' = "ready"
  /\ UNCHANGED <<client, requests, key, msgId, skipped, ecms, answered, late,
                 stopping>>

CardUntold ==
  /\ At("card") /\ Silent
  /\ pc' = "ready"
  /\ UNCHANGED <<client, link, key, msgId, skipped, ecms, answered, late, stopping>>

LoginTimesOut == pc \in {"hello", "login"} /\ Silent /\ GivesUp

-----------------------------------------------------------------------------
(* The worker at rest: take_pending_ecm, else the keepalive after 8 s.     *)
Asks ==
  /\ At("ready") /\ pending # 0
  /\ Sends(Request("ecm", NextId, pending))
  /\ ecm' = pending /\ last' = pending /\ pending' = 0
  /\ msgId' = NextId /\ skipped' = 0
  /\ pc' = "answer"
  /\ UNCHANGED <<client, sock, peer, replies, key, onAir, answered, late, stopping>>

AskFails ==
  /\ At("ready") /\ pending # 0 /\ ~Alive
  /\ ecm' = pending /\ last' = pending /\ pending' = 0
  /\ msgId' = NextId
  /\ pc' = "top" /\ Closed
  /\ UNCHANGED <<client, key, skipped, onAir, answered, late, stopping>>

KeepsAlive ==
  /\ At("ready") /\ pending = 0 /\ Newcamd
  /\ Sends(Request("keepalive", 0, 0))
  /\ pc' = "echo"
  /\ UNCHANGED <<client, sock, peer, replies, key, msgId, skipped, ecms, answered,
                 late, stopping>>

KeepaliveFails == At("ready") /\ Newcamd /\ ~Alive /\ pending = 0 /\ GivesUp

Rests ==
  /\ At("ready") /\ pending = 0
  /\ pc' = "top"
  /\ UNCHANGED <<client, link, key, msgId, skipped, ecms, answered, late, stopping>>

(* Any message is taken for the echo, a late word too.                     *)
EchoRead ==
  /\ At("echo") /\ Readable
  /\ Consumes /\ pc' = "top"
  /\ UNCHANGED <<client, requests, key, msgId, skipped, ecms, answered, late,
                 stopping>>

EchoMissing == At("echo") /\ Silent /\ GivesUp

-----------------------------------------------------------------------------
(* newcamd_recv_cw reads past stale answers and everything that answers no *)
(* ECM; cs378x_recv_cw past EMM requests only, whatever their id.          *)
NeverStale == FALSE
Stale == Newcamd /\ Next1.id # msgId
NoAnswer == Next1.cmd \notin {"word", "refusal"}

ReadPast ==
  IF Newcamd THEN Stale \/ NoAnswer ELSE Next1.cmd = "notice"

SkipsMessage ==
  /\ At("answer") /\ Readable /\ ReadPast /\ skipped < Skips[proto]
  /\ Consumes /\ skipped' = skipped + 1
  /\ UNCHANGED <<client, pc, requests, key, msgId, ecms, answered, late, stopping>>

TooMany == At("answer") /\ Readable /\ ReadPast /\ skipped >= Skips[proto] /\ GivesUp

Publishes ==
  /\ At("answer") /\ Readable /\ ~ReadPast /\ Next1.cmd = "word"
  /\ Consumes
  /\ answered' = [asked |-> ecm, of |-> Next1.ecm]
  /\ pc' = "top"
  /\ UNCHANGED <<client, requests, key, msgId, skipped, ecms, late, stopping>>

Refused ==
  /\ At("answer") /\ Readable /\ ~ReadPast /\ Next1.cmd # "word"
  /\ Consumes /\ pc' = "top"
  /\ UNCHANGED <<client, requests, key, msgId, skipped, ecms, answered, late, stopping>>

(* "Silence, not a broken link": the connection is kept.                   *)
AnswerTimesOut ==
  /\ At("answer") /\ Silent
  /\ late' = TRUE /\ pc' = "top"
  /\ UNCHANGED <<client, link, key, msgId, skipped, ecms, answered, stopping>>

LinkBreaks == pc \in LoggingIn \union {"answer", "echo"} /\ Broken /\ GivesUp

-----------------------------------------------------------------------------
(* dtv_camd_stop: the flag, and after 200 ms the socket closed under the   *)
(* worker, which may be opening it and have it again after that.           *)
StopAsked ==
  /\ ~stopping /\ stopping' = TRUE
  /\ UNCHANGED <<client, pc, link, key, msgId, skipped, ecms, answered, late>>

StopShuts ==
  /\ stopping /\ ~At("ended") /\ sock = "open"
  /\ Closed
  /\ UNCHANGED <<client, pc, key, msgId, skipped, ecms, answered, late, stopping>>

WorkerEnds ==
  /\ At("top") /\ SeesStop
  /\ pc' = "ended" /\ Closed
  /\ UNCHANGED <<client, key, msgId, skipped, ecms, answered, late, stopping>>

-----------------------------------------------------------------------------
(* The card server.                                                        *)
Delivers(m) ==
  /\ Alive /\ Len(replies) < MaxUnread
  /\ replies' = Append(replies, m)
  /\ UNCHANGED <<client, pc, sock, peer, key, msgId, skipped, ecms, answered, late,
                 stopping>>

TheirKey(k) == IF ~Newcamd THEN "none" ELSE IF known.key THEN k ELSE "other"

Greets == 
  /\ At("hello") /\ replies = <<>> /\ requests = {}
  /\ Delivers(Message("hello", 0, 0, "none")) /\ UNCHANGED requests

AnswersTo(r) ==
  CASE r.cmd = "login" -> {IF known.user THEN "ack" ELSE "nak"}
    [] r.cmd = "card" -> {"card"}
    [] r.cmd = "keepalive" -> {"echo"}
    [] OTHER -> {"word", "refusal"}

AnswersOne(r) ==
  /\ r \in requests
  /\ Newcamd \/ known.user
  /\ \E cmd \in AnswersTo(r) :
       Delivers(Message(cmd, r.id, r.ecm,
                        TheirKey(IF r.cmd = "login" THEN "login" ELSE "session")))
  /\ requests' = requests \ {r}

(* A card announced in mgcamd's mode, or an EMM request of cs378x.         *)
Announces ==
  /\ At("answer")
  /\ \E id \in {0, msgId} :
       Delivers(Message("notice", id, 0, TheirKey("session")))
  /\ UNCHANGED requests

Breaks ==
  /\ Alive /\ peer' = FALSE /\ requests' = {}
  /\ replies' \in {replies, <<>>}
  /\ UNCHANGED <<client, pc, sock, key, msgId, skipped, ecms, answered, late, stopping>>

-----------------------------------------------------------------------------
Login == SendsLogin \/ LoggedIn \/ LoginRefused \/ CardTold \/ CardUntold
Waits == SkipsMessage \/ TooMany \/ Publishes \/ Refused
Idle ==
  Asks \/ AskFails \/ KeepsAlive \/ KeepaliveFails \/ EchoRead \/ Rests
TimesOut == LoginTimesOut \/ AnswerTimesOut \/ EchoMissing

Worker ==
  GoesOn \/ Connects \/ Login \/ Idle \/ Waits \/ TimesOut \/ LinkBreaks \/ WorkerEnds
Server == Greets \/ \E r \in requests : AnswersOne(r)

Next ==
  \/ Worker
  \/ Submits \/ NewEcm
  \/ StopAsked \/ StopShuts
  \/ Server \/ Announces \/ Breaks

Spec == Init /\ [][Next]_vars

Fairness ==
  /\ WF_vars(Worker) /\ WF_vars(Greets)
  /\ \A cmd \in Commands : WF_vars(\E r \in requests : r.cmd = cmd /\ AnswersOne(r))

FairSpec == Spec /\ Fairness

-----------------------------------------------------------------------------
TypeOK ==
  /\ proto \in Protocols /\ known \in [key : BOOLEAN, user : BOOLEAN]
  /\ pc \in WorkerSteps
  /\ sock \in {"none", "open"} /\ peer \in BOOLEAN
  /\ key \in Keys /\ msgId \in 0..(MaxEcms + 1) /\ skipped \in Nat
  /\ onAir \in Nat
  /\ pending \in 0..MaxEcms /\ last \in 0..MaxEcms /\ ecm \in 0..MaxEcms
  /\ requests \subseteq Requests /\ replies \in Seq(Messages)
  /\ answered \in [asked : 0..MaxEcms, of : 0..MaxEcms]
  /\ late \in BOOLEAN /\ stopping \in BOOLEAN

(* A word is taken for the ECM it opens, through late answers, keepalives  *)
(* that eat them, announcements and reconnections.  newcamd owes that to   *)
(* its message ids.  cs378x never looks at the id of an answer: there it   *)
(* holds only as long as no answer of this connection came too late.       *)
OwnWord ==
  [][answered' # answered =>
       \/ answered'.asked = answered'.of
       \/ ~Newcamd /\ late]_vars

(* An ECM that waits is asked about in the end, whatever the connections   *)
(* before went through, once the server stays and answers the login, with  *)
(* credentials it knows: no answer left unread locks the client out.       *)
LinkLasts == <>[][~(Breaks \/ LoginTimesOut \/ EchoMissing)]_vars

AsksInTheEnd ==
  LinkLasts /\ known.key /\ known.user
    => (pending # 0 ~> pending = 0 \/ stopping)

(* A worker that is told to stop ends, also out of a wait or a login.      *)
Ends == stopping ~> At("ended")
=============================================================================
