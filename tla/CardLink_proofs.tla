-------------------------- MODULE CardLink_proofs ---------------------------
(***************************************************************************)
(* Proofs about CardLink, for any number of ECMs, read limit and message   *)
(* ids that do not run out.                                                *)
(*                                                                         *)
(* That a word is taken for the ECM it opens has another reason in each    *)
(* protocol.  newcamd numbers its requests anew in every connection: what  *)
(* was asked or answered in this one carries an id up to msg_id, and what  *)
(* carries msg_id itself is about the ECM the worker waits for (Matched).  *)
(* cs378x compares nothing: there at most one request is on its way, none  *)
(* outside the wait (Timely), as long as no answer of this connection came *)
(* after its timeout.                                                      *)
(***************************************************************************)
EXTENDS CardLink, TLAPS

Unread == {replies[i] : i \in 1..Len(replies)}
AnswersAnEcm(m) == m.cmd \in {"word", "refusal"}

(* The broadcast ECMs, the one asked about last and the ids given out.     *)
Numbers ==
  /\ onAir \in 1..MaxEcms /\ last = ecm /\ last <= onAir
  /\ pending # 0 => last < pending /\ pending <= onAir
  /\ msgId <= ecm + 1
  /\ At("hello") => msgId = 0

OfItsEcm(m) == m.id <= msgId /\ (m.id = msgId => m.ecm = ecm)
Matched ==
  Newcamd =>
    /\ \A r \in requests : r.cmd = "ecm" => OfItsEcm(r)
    /\ \A m \in Unread : AnswersAnEcm(m) => OfItsEcm(m)

(* cs378x has no login, no keepalive and no card.                          *)
EcmsOnly ==
  ~Newcamd =>
    /\ pc \notin LoggingIn \union {"echo"}
    /\ \A r \in requests : r.cmd = "ecm"
    /\ \A m \in Unread : m.cmd = "notice" \/ AnswersAnEcm(m)

NothingOpen == requests = {} /\ \A m \in Unread : m.cmd = "notice"
OneOpen ==
  /\ \A r, s \in requests : r = s /\ r.ecm = ecm
  /\ \A m \in Unread : AnswersAnEcm(m) => m.ecm = ecm /\ requests = {}
  /\ \A i, j \in 1..Len(replies) :
       AnswersAnEcm(replies[i]) /\ AnswersAnEcm(replies[j]) => i = j
Timely ==
  ~Newcamd /\ ~late => IF At("answer") THEN OneOpen ELSE NothingOpen

IInv == TypeOK /\ Numbers /\ Matched /\ EcmsOnly /\ Timely

-----------------------------------------------------------------------------
USE ProtocolsAssumption, BoundsAssumption

(* msg_id does not wrap: one connection asks once about every ECM.         *)
LEMMA NextIdIs ==
  ASSUME TypeOK, msgId <= MaxEcms PROVE NextId = msgId + 1
<1>1. ASSUME NEW x \in Nat, NEW n \in Nat, x < n PROVE x % n = x
  BY <1>1, SMT
<1>2. msgId + 1 \in Nat /\ msgId + 1 < IdSpace
  BY DEF TypeOK
<1> QED BY <1>1, <1>2 DEF NextId

LEMMA Empty == <<>> \in Seq(Messages)
OBVIOUS

(* The messages under way have the types of messages.                      *)
LEMMA UnreadTyped == ASSUME TypeOK PROVE \A m \in Unread : m \in Messages /\ m.id \in Nat
<1>1. \A m \in Messages : m.id \in Nat
  BY DEF Messages
<1>2. \A i \in 1..Len(replies) : replies[i] \in Messages
  BY DEF TypeOK
<1> QED BY <1>1, <1>2 DEF Unread

(* What reading the first message and receiving another one leave.         *)
LEMMA ReadOne ==
  ASSUME TypeOK, replies # <<>>, replies' = Tail(replies)
  PROVE  /\ replies' \in Seq(Messages) /\ Next1 \in Messages /\ Next1 \in Unread
         /\ Len(replies') = Len(replies) - 1 /\ Next1 = replies[1] /\ Len(replies) >= 1
         /\ \A i \in 1..Len(replies') : i + 1 \in 1..Len(replies) /\ replies'[i] = replies[i + 1]
         /\ Unread' \subseteq Unread
<1>1. /\ replies' \in Seq(Messages) /\ Next1 \in Messages
      /\ Len(replies') = Len(replies) - 1 /\ Next1 = replies[1] /\ Len(replies) >= 1
      /\ \A i \in 1..Len(replies') : i + 1 \in 1..Len(replies) /\ replies'[i] = replies[i + 1]
  BY DEF TypeOK, Next1
<1> QED BY <1>1 DEF Unread

LEMMA ReceivedOne ==
  ASSUME TypeOK, NEW m \in Messages, replies' = Append(replies, m)
  PROVE  /\ replies' \in Seq(Messages) /\ Len(replies) \in Nat
         /\ Len(replies') = Len(replies) + 1
         /\ \A i \in 1..Len(replies) : replies'[i] = replies[i]
         /\ replies'[Len(replies) + 1] = m
         /\ Unread' = Unread \union {m}
<1>1. /\ replies' \in Seq(Messages) /\ Len(replies) \in Nat
      /\ Len(replies') = Len(replies) + 1
      /\ \A i \in 1..Len(replies) : replies'[i] = replies[i]
      /\ replies'[Len(replies) + 1] = m
  BY DEF TypeOK
<1>2. Unread' = {replies'[i] : i \in 1..Len(replies')}
  BY DEF Unread
<1>3. \A i \in 1..(Len(replies) + 1) : i \in 1..Len(replies) \/ i = Len(replies) + 1
  BY <1>1
<1>4. \A i \in 1..Len(replies) : i \in 1..(Len(replies) + 1)
  BY <1>1
<1>5. Len(replies) + 1 \in 1..(Len(replies) + 1)
  BY <1>1
<1> QED BY <1>1, <1>2, <1>3, <1>4, <1>5 DEF Unread

-----------------------------------------------------------------------------
(* Initially there is no connection and nothing was asked.                 *)
LEMMA InitIInv == Init => IInv
<1> SUFFICES ASSUME Init PROVE IInv
  OBVIOUS
<1>1. TypeOK
  <2>1. pc \in WorkerSteps /\ sock \in {"none", "open"} /\ key \in Keys
    BY DEF Init, WorkerSteps, Keys
  <2>2. /\ msgId \in 0..(MaxEcms + 1) /\ skipped \in Nat /\ onAir \in Nat
        /\ pending \in 0..MaxEcms /\ last \in 0..MaxEcms /\ ecm \in 0..MaxEcms
        /\ answered \in [asked : 0..MaxEcms, of : 0..MaxEcms]
    BY DEF Init
  <2>3. requests \subseteq Requests /\ replies \in Seq(Messages)
    BY Empty DEF Init
  <2>4. peer \in BOOLEAN /\ late \in BOOLEAN /\ stopping \in BOOLEAN
    BY DEF Init
  <2>5. proto \in Protocols /\ known \in [key : BOOLEAN, user : BOOLEAN]
    BY DEF Init
  <2> QED BY <2>1, <2>2, <2>3, <2>4, <2>5 DEF TypeOK
<1>2. Numbers
  BY DEF Init, Numbers, At
<1>3. Unread = {} /\ replies = <<>>
  BY DEF Init, Unread
<1>4. Matched /\ EcmsOnly /\ Timely
  BY <1>3 DEF Init, Matched, EcmsOnly, Timely, NothingOpen, At, LoggingIn
<1> QED BY <1>1, <1>2, <1>4 DEF IInv

(* A connection that is closed takes all that was under way with it.       *)
LEMMA Emptied ==
  ASSUME requests' = {}, replies' = <<>>, UNCHANGED proto,
         ~Newcamd => pc' \notin LoggingIn \union {"echo"}
  PROVE  Matched' /\ EcmsOnly' /\ Timely'
<1>1. Unread' = {}
  BY DEF Unread
<1>2. Newcamd' = Newcamd
  BY DEF Newcamd
<1> QED BY <1>1, <1>2 DEF Matched, EcmsOnly, Timely, NothingOpen, OneOpen

(* GivesUp ends every failed login, send and receive.                      *)
LEMMA StepGivesUp ==
  ASSUME IInv,
         LoginRefused \/ LoginTimesOut \/ KeepaliveFails \/ EchoMissing \/ TooMany \/ LinkBreaks
  PROVE  IInv'
<1>1. GivesUp
  BY DEF LoginRefused, LoginTimesOut, KeepaliveFails, EchoMissing, TooMany, LinkBreaks
<1>2. TypeOK'
  BY <1>1, Empty DEF IInv, TypeOK, GivesUp, Closed, client, ecms, WorkerSteps
<1>3. Numbers'
  BY <1>1 DEF IInv, Numbers, GivesUp, ecms, At
<1>4. Matched' /\ EcmsOnly' /\ Timely'
  BY <1>1, Emptied DEF GivesUp, Closed, client, LoggingIn
<1> QED BY <1>2, <1>3, <1>4 DEF IInv

(* The other ways a connection is closed, and a new one.                   *)
LEMMA StepCloses ==
  ASSUME IInv, AskFails \/ WorkerEnds \/ StopShuts \/ Connects PROVE IInv'
<1>1. requests' = {} /\ replies' = <<>> /\ UNCHANGED <<proto, known>>
  BY DEF AskFails, WorkerEnds, StopShuts, Connects, Closed, client
<1>2. ~Newcamd => pc' \notin LoggingIn \union {"echo"}
  BY DEF IInv, EcmsOnly, AskFails, WorkerEnds, StopShuts, Connects, AfterConnect, LoggingIn
<1>3. CASE AskFails
  <2>1. msgId <= MaxEcms /\ pending \in 1..MaxEcms /\ last < pending /\ pending <= onAir
    BY <1>3 DEF IInv, TypeOK, Numbers, AskFails
  <2>2. NextId = msgId + 1
    BY <2>1, NextIdIs DEF IInv
  <2>3. TypeOK'
    <3>1. msgId' \in 0..(MaxEcms + 1) /\ ecm' \in 0..MaxEcms /\ last' = ecm' /\ pending' = 0
      BY <1>3, <2>1, <2>2 DEF IInv, TypeOK, AskFails
    <3>2. /\ sock' = "none" /\ peer' = FALSE /\ pc' = "top"
          /\ UNCHANGED <<key, skipped, onAir, answered, late, stopping>>
      BY <1>3 DEF AskFails, Closed
    <3>3. /\ "top" \in WorkerSteps
          /\ requests' \subseteq Requests /\ replies' \in Seq(Messages)
      BY <1>1, Empty DEF WorkerSteps
    <3>4. peer' \in BOOLEAN /\ late' \in BOOLEAN /\ stopping' \in BOOLEAN
      BY <3>2 DEF IInv, TypeOK
    <3>5. /\ proto' \in Protocols /\ known' \in [key : BOOLEAN, user : BOOLEAN]
          /\ answered' \in [asked : 0..MaxEcms, of : 0..MaxEcms]
      BY <1>1, <3>2 DEF IInv, TypeOK
    <3>6. key' \in Keys /\ skipped' \in Nat /\ onAir' \in Nat
      BY <3>2 DEF IInv, TypeOK
    <3> QED BY <3>1, <3>2, <3>3, <3>4, <3>5, <3>6 DEF TypeOK
  <2>4. Numbers'
    BY <1>3, <2>1, <2>2 DEF IInv, TypeOK, Numbers, AskFails, At
  <2> QED BY <1>1, <1>2, <2>3, <2>4, Emptied DEF IInv
<1>4. CASE WorkerEnds \/ StopShuts
  <2>1. TypeOK'
    BY <1>1, <1>4, Empty DEF IInv, TypeOK, WorkerEnds, StopShuts, Closed, ecms, WorkerSteps
  <2>2. Numbers'
    BY <1>4 DEF IInv, Numbers, WorkerEnds, StopShuts, ecms, At
  <2> QED BY <1>1, <1>2, <2>1, <2>2, Emptied DEF IInv
<1>5. CASE Connects
  <2>1. FreshId \in 0..(MaxEcms + 1) /\ AfterConnect \in WorkerSteps /\ "none" \in Keys
    BY DEF IInv, TypeOK, FreshId, AfterConnect, WorkerSteps, LoggingIn, Keys
  <2>2. TypeOK'
    BY <1>1, <1>5, <2>1, Empty DEF IInv, TypeOK, Connects, ecms
  <2>3. Numbers'
    BY <1>5 DEF IInv, TypeOK, Numbers, Connects, AfterConnect, FreshId, ecms, At
  <2> QED BY <1>1, <1>2, <2>2, <2>3, Emptied DEF IInv
<1> QED BY <1>3, <1>4, <1>5

-----------------------------------------------------------------------------
(* A step that leaves the link, and no wait for an answer on a quiet one.  *)
LEMMA LinkKept ==
  ASSUME IInv, UNCHANGED <<proto, requests, replies, ecm, msgId>>,
         \/ pc' = pc /\ late' = late
         \/ ~At("answer") /\ late' = late /\ pc' \in {"top", "connect", "ready"}
         \/ late' = TRUE /\ pc' = "top"
  PROVE  Matched' /\ EcmsOnly' /\ Timely'
<1>1. Unread' = Unread /\ Newcamd' = Newcamd
  BY DEF Unread, Newcamd
<1>2. Matched' /\ EcmsOnly'
  BY <1>1 DEF IInv, Matched, EcmsOnly, OfItsEcm, LoggingIn
<1>3. NothingOpen' = NothingOpen /\ OneOpen' = OneOpen
  BY <1>1 DEF NothingOpen, OneOpen
<1>4. Timely'
  BY <1>1, <1>3 DEF IInv, Timely, At
<1> QED BY <1>2, <1>4

(* The stream thread, the stop flag and the steps of the worker that       *)
(* neither read nor write.                                                 *)
LEMMA StepWithoutLink ==
  ASSUME IInv,
         \/ Submits \/ NewEcm \/ GoesOn \/ CardUntold \/ Rests \/ AnswerTimesOut
         \/ StopAsked \/ UNCHANGED vars
  PROVE  IInv'
<1>1. /\ UNCHANGED <<proto, known, requests, replies, sock, peer, ecm, last, msgId, key, skipped,
                     answered>>
      /\ stopping' \in {stopping, TRUE}
  BY DEF Submits, NewEcm, GoesOn, CardUntold, Rests, AnswerTimesOut, StopAsked, vars, client,
         link, ecms
<1>2. \/ pc' = pc /\ late' = late
      \/ ~At("answer") /\ late' = late /\ pc' \in {"top", "connect", "ready"}
      \/ late' = TRUE /\ pc' = "top"
  BY DEF Submits, NewEcm, GoesOn, CardUntold, Rests, AnswerTimesOut, StopAsked, vars, At
<1>3. /\ onAir' \in 1..MaxEcms /\ last <= onAir'
      /\ pending' \in 0..MaxEcms
      /\ pending' # 0 => last < pending' /\ pending' <= onAir'
  BY DEF IInv, TypeOK, Numbers, Submits, NewEcm, GoesOn, CardUntold, Rests, AnswerTimesOut,
         StopAsked, vars, ecms
<1>4. TypeOK'
  <2>1. peer' \in BOOLEAN /\ late' \in BOOLEAN /\ stopping' \in BOOLEAN
    BY <1>1, <1>2 DEF IInv, TypeOK
  <2>2. pc' \in WorkerSteps
    <3>1. CASE Submits \/ NewEcm \/ StopAsked \/ UNCHANGED vars
      BY <3>1 DEF IInv, TypeOK, Submits, NewEcm, StopAsked, vars
    <3>2. CASE GoesOn \/ CardUntold \/ Rests \/ AnswerTimesOut
      BY <3>2 DEF GoesOn, CardUntold, Rests, AnswerTimesOut, WorkerSteps
    <3> QED BY <3>1, <3>2
  <2>3. onAir' \in Nat /\ pending' \in 0..MaxEcms
    BY <1>3
  <2> QED BY <1>1, <2>1, <2>2, <2>3 DEF IInv, TypeOK
<1>5. Numbers'
  BY <1>1, <1>2, <1>3 DEF IInv, Numbers, At
<1> QED BY <1>1, <1>2, <1>4, <1>5, LinkKept DEF IInv

-----------------------------------------------------------------------------
(* The worker reads one message and asks nothing.                          *)
Reading == CardTold \/ EchoRead \/ SkipsMessage \/ Publishes \/ Refused

LEMMA ReadingIs ==
  ASSUME Reading
  PROVE  /\ replies # <<>> /\ replies' = Tail(replies)
         /\ UNCHANGED <<proto, known, requests, sock, peer, ecm, last, onAir, pending, msgId, key,
                        late, stopping>>
         /\ \/ At("answer") /\ ~ReadPast /\ pc' = "top"
            \/ At("answer") /\ pc' = "answer"
            \/ pc \in {"card", "echo"} /\ pc' \in {"ready", "top"}
<1>1. CASE CardTold \/ EchoRead
  BY <1>1 DEF CardTold, EchoRead, Readable, Arrived, Consumes, At, client, ecms
<1>2. CASE SkipsMessage
  BY <1>2 DEF SkipsMessage, Readable, Arrived, Consumes, At, client, ecms
<1>3. CASE Publishes \/ Refused
  BY <1>3 DEF Publishes, Refused, Readable, Arrived, Consumes, At, client, ecms
<1> QED BY <1>1, <1>2, <1>3 DEF Reading

LEMMA StepReading == ASSUME IInv, Reading PROVE IInv'
<1> USE DEF IInv
<1>1. /\ replies # <<>> /\ replies' = Tail(replies)
      /\ UNCHANGED <<proto, known, requests, sock, peer, ecm, last, onAir, pending, msgId, key,
                     late, stopping>>
      /\ pc' \in {"ready", "top", "answer"}
  BY ReadingIs
<1>2. /\ replies' \in Seq(Messages) /\ Next1 \in Messages /\ Next1 \in Unread
      /\ Len(replies') = Len(replies) - 1 /\ Next1 = replies[1] /\ Len(replies) >= 1
      /\ \A i \in 1..Len(replies') : i + 1 \in 1..Len(replies) /\ replies'[i] = replies[i + 1]
      /\ Unread' \subseteq Unread
  BY <1>1, ReadOne
<1>3. skipped' \in Nat
  BY DEF Reading, CardTold, EchoRead, SkipsMessage, Publishes, Refused, TypeOK
<1>4. answered' \in [asked : 0..MaxEcms, of : 0..MaxEcms]
  BY <1>2 DEF Reading, CardTold, EchoRead, SkipsMessage, Publishes, Refused, TypeOK, Messages
<1>5. TypeOK'
  BY <1>1, <1>2, <1>3, <1>4 DEF TypeOK, WorkerSteps
<1>6. Numbers'
  BY <1>1 DEF Numbers, At
<1>7. Newcamd' = Newcamd
  BY <1>1 DEF Newcamd
<1>8. Matched' /\ EcmsOnly'
  BY <1>1, <1>2, <1>7 DEF Matched, EcmsOnly, OfItsEcm, LoggingIn
<1>9. Timely'
  <2> SUFFICES ASSUME ~Newcamd, ~late
               PROVE  IF pc' = "answer" THEN OneOpen' ELSE NothingOpen'
    BY <1>1, <1>7 DEF Timely, At
  <2>1. At("answer") /\ OneOpen
    BY ReadingIs DEF EcmsOnly, LoggingIn, Timely, At
  <2>2. CASE pc' = "answer"
    BY <1>1, <1>2, <2>1, <2>2 DEF OneOpen
  <2>3. CASE pc' = "top"
    <3>1. Next1.cmd # "notice" /\ AnswersAnEcm(Next1)
      BY <1>2, <2>1, <2>3, ReadingIs DEF ReadPast, EcmsOnly, At
    <3>2. requests = {}
      BY <1>2, <2>1, <3>1 DEF OneOpen
    <3>3. \A i \in 1..Len(replies) : AnswersAnEcm(replies[i]) => i = 1
      BY <1>2, <2>1, <3>1 DEF OneOpen
    <3>4. ASSUME NEW i \in 1..Len(replies') PROVE ~AnswersAnEcm(replies'[i])
      BY <1>2, <3>3, <3>4
    <3>5. \A m \in Unread' : ~AnswersAnEcm(m)
      BY <3>4 DEF Unread
    <3>6. \A m \in Unread' : m.cmd = "notice"
      BY <1>2, <3>5 DEF EcmsOnly
    <3> QED BY <1>1, <3>2, <3>6, <2>3 DEF NothingOpen
  <2> QED BY <2>1, <2>2, <2>3, ReadingIs DEF At
<1> QED BY <1>5, <1>6, <1>8, <1>9

-----------------------------------------------------------------------------
(* The steps of a newcamd login, which read one message and send one that  *)
(* is not about an ECM.                                                    *)
LEMMA StepLogin == ASSUME IInv, SendsLogin \/ LoggedIn PROVE IInv'
<1> USE DEF IInv
<1>1. Newcamd /\ Newcamd' = Newcamd
  BY DEF EcmsOnly, LoggingIn, SendsLogin, LoggedIn, At, Newcamd, client
<1>2. /\ replies # <<>> /\ replies' = Tail(replies)
      /\ UNCHANGED <<proto, known, sock, peer, ecm, last, onAir, pending, skipped, answered,
                     late, stopping>>
      /\ pc' \in {"login", "card"} /\ key' \in {"login", "session"}
  BY DEF SendsLogin, LoggedIn, Readable, Arrived, Consumes, client, ecms, TrafficKey
<1>3. replies' \in Seq(Messages) /\ Unread' \subseteq Unread
  BY <1>2, ReadOne
<1>4. /\ msgId' \in 0..(MaxEcms + 1) /\ msgId <= msgId' /\ msgId' <= ecm + 1
      /\ \E r : /\ r.cmd # "ecm" /\ r \in Requests
                /\ requests' \subseteq requests \union {r}
  <2>1. CASE SendsLogin
    <3>1. msgId = 0 /\ NextId = 1
      BY <2>1, NextIdIs DEF SendsLogin, Numbers, TypeOK
    <3>2. Request("login", NextId, 0) \in Requests
      BY <3>1 DEF Request, Requests, Commands
    <3>3. requests' \subseteq requests \union {Request("login", NextId, 0)}
      BY <2>1 DEF SendsLogin, Sends
    <3>4. Request("login", NextId, 0).cmd # "ecm"
      BY DEF Request
    <3>5. msgId' = 1
      BY <2>1, <3>1 DEF SendsLogin
    <3> QED BY <3>1, <3>2, <3>3, <3>4, <3>5 DEF TypeOK
  <2>2. CASE LoggedIn
    <3>1. Request("card", 0, 0) \in Requests
      BY DEF Request, Requests, Commands
    <3>2. requests' \subseteq requests \union {Request("card", 0, 0)}
      BY <2>2 DEF LoggedIn, Sends
    <3>3. Request("card", 0, 0).cmd # "ecm" /\ msgId' = msgId
      BY <2>2 DEF Request, LoggedIn
    <3> QED BY <3>1, <3>2, <3>3 DEF TypeOK, Numbers
  <2> QED BY <2>1, <2>2
<1>5. TypeOK'
  <2>1. peer' \in BOOLEAN /\ late' \in BOOLEAN /\ stopping' \in BOOLEAN
    BY <1>2 DEF TypeOK
  <2>2. pc' \in WorkerSteps /\ key' \in Keys
    BY <1>2 DEF WorkerSteps, LoggingIn, Keys
  <2>3. requests' \subseteq Requests
    BY <1>4 DEF TypeOK
  <2> QED BY <1>2, <1>3, <1>4, <2>1, <2>2, <2>3 DEF TypeOK
<1>6. Numbers'
  BY <1>2, <1>4 DEF Numbers, At
<1>7. Matched'
  <2>1. \A m : OfItsEcm(m) /\ m.id \in Nat => m.id <= msgId' /\ (m.id = msgId' => m.ecm = ecm')
    BY <1>2, <1>4 DEF OfItsEcm, TypeOK
  <2>2. \A r \in requests : r.cmd = "ecm" => OfItsEcm(r) /\ r.id \in Nat
    BY <1>1 DEF Matched, TypeOK, Requests
  <2>3. \A m \in Unread : AnswersAnEcm(m) => OfItsEcm(m) /\ m.id \in Nat
    BY <1>1, UnreadTyped DEF Matched
  <2> QED BY <1>3, <1>4, <2>1, <2>2, <2>3 DEF Matched, OfItsEcm
<1> QED BY <1>1, <1>5, <1>6, <1>7 DEF EcmsOnly, Timely

(* A keepalive is newcamd's.                                               *)
LEMMA StepKeepsAlive == ASSUME IInv, KeepsAlive PROVE IInv'
<1> USE DEF IInv
<1>1. Newcamd /\ Newcamd' = Newcamd /\ pc' = "echo"
  BY DEF KeepsAlive, Newcamd, client
<1>2. UNCHANGED <<proto, known, sock, peer, replies, key, msgId, skipped, onAir, pending, last,
                  ecm, answered, late, stopping>>
  BY DEF KeepsAlive, client, ecms
<1>3. Request("keepalive", 0, 0) \in Requests /\ Request("keepalive", 0, 0).cmd # "ecm"
  BY DEF Request, Requests, Commands
<1>4. requests' \subseteq requests \union {Request("keepalive", 0, 0)}
  BY DEF KeepsAlive, Sends
<1>5. TypeOK'
  <2>1. peer' \in BOOLEAN /\ late' \in BOOLEAN /\ stopping' \in BOOLEAN
    BY <1>2 DEF TypeOK
  <2>2. pc' \in WorkerSteps /\ requests' \subseteq Requests
    BY <1>1, <1>3, <1>4 DEF WorkerSteps, TypeOK
  <2> QED BY <1>2, <2>1, <2>2 DEF TypeOK
<1>6. Numbers'
  BY <1>1, <1>2 DEF Numbers, At
<1>7. Matched'
  BY <1>1, <1>2, <1>3, <1>4 DEF Matched, OfItsEcm, Unread
<1> QED BY <1>1, <1>5, <1>6, <1>7 DEF EcmsOnly, Timely

-----------------------------------------------------------------------------
(* The worker asks about the pending ECM, under an id that is new in this  *)
(* connection.                                                             *)
LEMMA StepAsks == ASSUME IInv, Asks PROVE IInv'
<1> USE DEF IInv
<1> DEFINE r == Request("ecm", NextId, pending)
<1>1. /\ msgId <= MaxEcms /\ pending \in 1..MaxEcms /\ last < pending /\ pending <= onAir
      /\ pending <= MaxEcms
  BY DEF TypeOK, Numbers, Asks
<1>2. NextId = msgId + 1
  BY <1>1, NextIdIs
<1>3. /\ msgId' = msgId + 1 /\ ecm' = pending /\ last' = pending /\ pending' = 0
      /\ pc' = "answer" /\ skipped' = 0 /\ requests' \subseteq requests \union {r}
      /\ UNCHANGED <<proto, known, sock, peer, replies, key, onAir, answered, late, stopping>>
  BY <1>2 DEF Asks, Sends, client
<1>4. r \in Requests /\ r.id = msgId' /\ r.ecm = ecm' /\ r.cmd = "ecm"
  <2>1. NextId \in 0..(IdSpace - 1) /\ pending \in 0..MaxEcms
    BY <1>1, <1>2 DEF TypeOK
  <2> QED BY <1>2, <1>3, <2>1 DEF Request, Requests, Commands
<1>5. Unread' = Unread /\ Newcamd' = Newcamd
  BY <1>3 DEF Unread, Newcamd
<1>6. TypeOK'
  <2>1. peer' \in BOOLEAN /\ late' \in BOOLEAN /\ stopping' \in BOOLEAN
    BY <1>3 DEF TypeOK
  <2>2. pc' \in WorkerSteps /\ requests' \subseteq Requests
    BY <1>3, <1>4 DEF WorkerSteps, TypeOK
  <2>3. msgId' \in 0..(MaxEcms + 1) /\ ecm' \in 0..MaxEcms /\ last' \in 0..MaxEcms
    BY <1>1, <1>3 DEF TypeOK
  <2>4. pending' \in 0..MaxEcms /\ skipped' \in Nat
    BY <1>3
  <2> QED BY <1>3, <2>1, <2>2, <2>3, <2>4 DEF TypeOK
<1>7. Numbers'
  BY <1>1, <1>3 DEF Numbers, At, TypeOK
<1>8. Matched'
  <2> SUFFICES ASSUME Newcamd
               PROVE  /\ \A q \in requests' : q.cmd = "ecm" => OfItsEcm(q)'
                      /\ \A m \in Unread' : AnswersAnEcm(m) => OfItsEcm(m)'
    BY <1>5 DEF Matched, OfItsEcm
  <2>1. \A q \in requests : q.cmd = "ecm" => q.id \in Nat /\ q.id <= msgId
    BY DEF Matched, OfItsEcm, TypeOK, Requests
  <2>2. \A m \in Unread : AnswersAnEcm(m) => m.id \in Nat /\ m.id <= msgId
    BY UnreadTyped DEF Matched, OfItsEcm
  <2> QED BY <1>3, <1>4, <1>5, <2>1, <2>2 DEF OfItsEcm, TypeOK
<1>9. EcmsOnly'
  BY <1>3, <1>4, <1>5 DEF EcmsOnly, LoggingIn
<1>10. Timely'
  <2> SUFFICES ASSUME ~Newcamd, ~late PROVE OneOpen'
    BY <1>3, <1>5 DEF Timely, At
  <2>1. NothingOpen
    BY DEF Timely, Asks, At
  <2>2. /\ \A q \in requests' : q = r
        /\ \A m \in Unread : ~AnswersAnEcm(m)
    BY <1>3, <2>1 DEF NothingOpen, AnswersAnEcm
  <2>3. \A i \in 1..Len(replies) : ~AnswersAnEcm(replies[i])
    BY <2>2 DEF Unread
  <2> QED BY <1>3, <1>4, <1>5, <2>2, <2>3 DEF OneOpen
<1> QED BY <1>6, <1>7, <1>8, <1>9, <1>10

-----------------------------------------------------------------------------
(* The server: what it sends, and the request it takes that for.           *)
LEMMA DeliversIs ==
  ASSUME TypeOK, NEW m \in Messages, Delivers(m)
  PROVE  /\ replies' = Append(replies, m)
         /\ UNCHANGED <<proto, known, pc, sock, peer, key, msgId, skipped, onAir, pending, last,
                        ecm, answered, late, stopping>>
BY DEF Delivers, client, ecms

(* Types and numbers are none of its business.                             *)
LEMMA DeliveryTypes ==
  ASSUME IInv, NEW m \in Messages, Delivers(m), requests' \subseteq requests
  PROVE  TypeOK' /\ Numbers'
<1> USE DEF IInv
<1>1. /\ replies' = Append(replies, m)
      /\ UNCHANGED <<proto, known, pc, sock, peer, key, msgId, skipped, onAir, pending, last,
                     ecm, answered, late, stopping>>
  BY DeliversIs
<1>2. replies' \in Seq(Messages) /\ requests' \subseteq Requests
  BY <1>1, ReceivedOne DEF TypeOK
<1>3. peer' \in BOOLEAN /\ late' \in BOOLEAN /\ stopping' \in BOOLEAN
  BY <1>1 DEF TypeOK
<1>4. TypeOK'
  BY <1>1, <1>2, <1>3 DEF TypeOK
<1>5. Numbers'
  BY <1>1 DEF Numbers, At
<1> QED BY <1>4, <1>5

(* The greeting, and what comes unasked.                                   *)
LEMMA StepUnasked == ASSUME IInv, Greets \/ Announces PROVE IInv'
<1> USE DEF IInv
<1>1. \E m \in Messages :
        /\ Delivers(m) /\ ~AnswersAnEcm(m)
        /\ ~Newcamd => m.cmd = "notice"
  <2>1. CASE Greets
    <3>1. Message("hello", 0, 0, "none") \in Messages
      BY DEF Message, Messages, Answers, Keys
    <3>2. Newcamd
      BY <2>1 DEF Greets, EcmsOnly, At, LoggingIn
    <3> QED BY <2>1, <3>1, <3>2 DEF Greets, Message, AnswersAnEcm
  <2>2. CASE Announces
    <3>1. PICK id \in {0, msgId} :
            Delivers(Message("notice", id, 0, TheirKey("session")))
      BY <2>2 DEF Announces
    <3>2. id \in 0..(IdSpace - 1) /\ TheirKey("session") \in Keys
      BY DEF TypeOK, TheirKey, Keys
    <3>3. Message("notice", id, 0, TheirKey("session")) \in Messages
      BY <3>2 DEF Message, Messages, Answers
    <3> QED BY <3>1, <3>3 DEF Message, AnswersAnEcm
  <2> QED BY <2>1, <2>2
<1>2. PICK m \in Messages :
        /\ Delivers(m) /\ ~AnswersAnEcm(m)
        /\ ~Newcamd => m.cmd = "notice"
  BY <1>1
<1>3. requests' = requests
  BY DEF Greets, Announces
<1>4. /\ replies' = Append(replies, m)
      /\ UNCHANGED <<proto, pc, msgId, ecm, late>>
  BY <1>2, DeliversIs
<1>5. /\ Len(replies') = Len(replies) + 1 /\ Len(replies) \in Nat
      /\ \A i \in 1..Len(replies) : replies'[i] = replies[i]
      /\ replies'[Len(replies) + 1] = m
      /\ Unread' = Unread \union {m}
  BY <1>4, ReceivedOne
<1>6. Newcamd' = Newcamd
  BY <1>4 DEF Newcamd
<1>7. Matched' /\ EcmsOnly'
  BY <1>2, <1>3, <1>4, <1>5, <1>6 DEF Matched, EcmsOnly, OfItsEcm, LoggingIn
<1>8. Timely'
  <2> SUFFICES ASSUME ~Newcamd, ~late
               PROVE  IF At("answer") THEN OneOpen' ELSE NothingOpen'
    BY <1>4, <1>6 DEF Timely, At
  <2>1. CASE At("answer")
    <3>1. OneOpen
      BY <2>1 DEF Timely
    <3>2. ASSUME NEW i \in 1..Len(replies'), AnswersAnEcm(replies'[i])
          PROVE  i \in 1..Len(replies) /\ AnswersAnEcm(replies[i])
      BY <1>2, <1>5, <3>2
    <3> QED BY <1>2, <1>3, <1>4, <1>5, <2>1, <3>1, <3>2 DEF OneOpen
  <2>2. CASE ~At("answer")
    BY <1>2, <1>3, <1>5, <2>2 DEF Timely, NothingOpen
  <2> QED BY <2>1, <2>2
<1> QED BY <1>2, <1>3, <1>7, <1>8, DeliveryTypes

(* An answer to one of the requests carries its id and is about its ECM.   *)
LEMMA StepAnswers ==
  ASSUME IInv, NEW r \in requests, AnswersOne(r) PROVE IInv'
<1> USE DEF IInv
<1>1. PICK cmd \in AnswersTo(r) :
        Delivers(Message(cmd, r.id, r.ecm,
                         TheirKey(IF r.cmd = "login" THEN "login" ELSE "session")))
  BY DEF AnswersOne
<1> DEFINE m == Message(cmd, r.id, r.ecm,
                        TheirKey(IF r.cmd = "login" THEN "login" ELSE "session"))
<1>2. requests' = requests \ {r} /\ r \in Requests
  BY DEF AnswersOne, TypeOK
<1>3. TheirKey(IF r.cmd = "login" THEN "login" ELSE "session") \in Keys
  BY DEF TheirKey, Keys
<1>4. /\ cmd \in Answers
      /\ cmd \in {"word", "refusal"} <=> r.cmd = "ecm"
  BY <1>2 DEF AnswersTo, Answers, Requests, Commands
<1>5. m \in Messages /\ m.id = r.id /\ m.ecm = r.ecm /\ (AnswersAnEcm(m) <=> r.cmd = "ecm")
  BY <1>2, <1>3, <1>4 DEF Message, Messages, Requests, AnswersAnEcm
<1>6. /\ replies' = Append(replies, m)
      /\ UNCHANGED <<proto, pc, msgId, ecm, late>>
  BY <1>1, <1>5, DeliversIs
<1> HIDE DEF m
<1>7. /\ Len(replies') = Len(replies) + 1 /\ Len(replies) \in Nat
      /\ \A i \in 1..Len(replies) : replies'[i] = replies[i]
      /\ replies'[Len(replies) + 1] = m
      /\ Unread' = Unread \union {m}
  BY <1>5, <1>6, ReceivedOne
<1>8. Newcamd' = Newcamd
  BY <1>6 DEF Newcamd
<1>9. Matched' /\ EcmsOnly'
  BY <1>2, <1>5, <1>6, <1>7, <1>8 DEF Matched, EcmsOnly, OfItsEcm, LoggingIn
<1>10. Timely'
  <2> SUFFICES ASSUME ~Newcamd, ~late
               PROVE  IF At("answer") THEN OneOpen' ELSE NothingOpen'
    BY <1>6, <1>8 DEF Timely, At
  <2>1. At("answer") /\ OneOpen
    BY DEF Timely, NothingOpen
  <2>2. requests' = {} /\ r.ecm = ecm /\ \A n \in Unread : ~AnswersAnEcm(n)
    BY <1>2, <2>1 DEF OneOpen
  <2>3. \A i \in 1..Len(replies) : ~AnswersAnEcm(replies[i])
    BY <2>2 DEF Unread
  <2>4. ASSUME NEW i \in 1..Len(replies'), AnswersAnEcm(replies'[i])
        PROVE  i = Len(replies) + 1
    BY <1>7, <2>3, <2>4
  <2> QED BY <1>5, <1>6, <1>7, <2>1, <2>2, <2>4 DEF OneOpen
<1>11. TypeOK' /\ Numbers'
  BY <1>1, <1>2, <1>5, DeliveryTypes DEF m
<1> QED BY <1>9, <1>10, <1>11

(* A server that goes away may take its last messages with it.             *)
LEMMA StepBreaks == ASSUME IInv, Breaks PROVE IInv'
<1> USE DEF IInv
<1>1. /\ UNCHANGED <<proto, known, pc, sock, key, msgId, skipped, onAir, pending, last, ecm,
                     answered, late, stopping>>
      /\ peer' = FALSE /\ requests' = {}
      /\ replies' = replies \/ replies' = <<>>
  BY DEF Breaks, client, ecms
<1>2. TypeOK'
  <2>1. peer' \in BOOLEAN /\ late' \in BOOLEAN /\ stopping' \in BOOLEAN
    BY <1>1 DEF TypeOK
  <2>2. requests' \subseteq Requests /\ replies' \in Seq(Messages)
    BY <1>1, Empty DEF TypeOK
  <2> QED BY <1>1, <2>1, <2>2 DEF TypeOK
<1>3. Numbers'
  BY <1>1 DEF Numbers, At
<1>4. Matched' /\ EcmsOnly' /\ Timely'
  <2>1. CASE replies' = <<>>
    <3>1. ~Newcamd => pc' \notin LoggingIn \union {"echo"}
      BY <1>1 DEF EcmsOnly
    <3> QED BY <1>1, <2>1, <3>1, Emptied
  <2>2. CASE replies' = replies
    <3>1. Unread' = Unread /\ Newcamd' = Newcamd
      BY <1>1, <2>2 DEF Unread, Newcamd
    <3>2. Matched' /\ EcmsOnly'
      BY <1>1, <3>1 DEF Matched, EcmsOnly, OfItsEcm, LoggingIn
    <3>3. (OneOpen => OneOpen') /\ (NothingOpen => NothingOpen')
      BY <1>1, <2>2, <3>1 DEF OneOpen, NothingOpen
    <3> QED BY <1>1, <3>1, <3>2, <3>3 DEF Timely, At
  <2> QED BY <1>1, <2>1, <2>2
<1> QED BY <1>2, <1>3, <1>4

-----------------------------------------------------------------------------
(* Every step of the client, the program and the server keeps IInv.        *)
LEMMA StepIInv == IInv /\ [Next]_vars => IInv'
<1> SUFFICES ASSUME IInv, [Next]_vars PROVE IInv'
  OBVIOUS
<1>1. CASE Worker
  BY <1>1, StepGivesUp, StepCloses, StepWithoutLink, StepReading, StepLogin, StepKeepsAlive,
     StepAsks DEF Worker, Login, Idle, Waits, TimesOut, Reading
<1>2. CASE Server \/ Announces \/ Breaks
  BY <1>2, StepUnasked, StepAnswers, StepBreaks DEF Server
<1>3. CASE Submits \/ NewEcm \/ StopAsked \/ StopShuts \/ UNCHANGED vars
  BY <1>3, StepWithoutLink, StepCloses
<1> QED BY <1>1, <1>2, <1>3 DEF Next

(* IInv holds in every state, TypeOK with it.                              *)
THEOREM Inductive == Spec => []IInv
BY InitIInv, StepIInv, PTL DEF Spec

(* Every variable keeps its type: no message id wraps, whatever the server *)
(* answers, refuses or leaves unanswered.                                  *)
THEOREM TypesHold == Spec => []TypeOK
<1>1. IInv => TypeOK
  BY DEF IInv
<1> QED BY Inductive, <1>1, PTL

(* newcamd_recv_cw and cs378x_recv_cw take a word for the ECM it opens,    *)
(* through late answers, keepalives, announcements and reconnections;      *)
(* cs378x as long as no answer of its connection came too late.            *)
THEOREM OwnWordHolds == Spec => OwnWord
<1> DEFINE Own == \/ answered'.asked = answered'.of
                  \/ ~Newcamd /\ late
<1>1. ASSUME IInv, Next, answered' # answered PROVE Own
  <2>1. Publishes
    BY <1>1 DEF Next, Worker, GoesOn, Connects, Login, SendsLogin, LoggedIn, LoginRefused,
       CardTold, CardUntold, Idle, Asks, AskFails, KeepsAlive, KeepaliveFails, EchoRead, Rests,
       Waits, SkipsMessage, TooMany, Refused, TimesOut, LoginTimesOut, AnswerTimesOut,
       EchoMissing, LinkBreaks, WorkerEnds, GivesUp, Submits, NewEcm, StopAsked, StopShuts,
       Server, Greets, AnswersOne, Announces, Delivers, Breaks
  <2>2. /\ At("answer") /\ replies # <<>> /\ ~ReadPast /\ Next1.cmd = "word"
        /\ answered' = [asked |-> ecm, of |-> Next1.ecm]
    BY <2>1 DEF Publishes, Readable, Arrived
  <2>3. Next1 \in Unread /\ AnswersAnEcm(Next1)
    <3>1. Len(replies) >= 1 /\ Next1 = replies[1]
      BY <1>1, <2>2 DEF IInv, TypeOK, Next1
    <3> QED BY <2>2, <3>1, <1>1 DEF Unread, AnswersAnEcm, IInv, TypeOK
  <2>4. CASE Newcamd
    <3>1. Next1.id = msgId
      BY <2>2, <2>4 DEF ReadPast, Stale
    <3> QED BY <1>1, <2>2, <2>3, <2>4, <3>1 DEF IInv, Matched, OfItsEcm
  <2>5. CASE ~Newcamd /\ ~late
    BY <1>1, <2>2, <2>3, <2>5 DEF IInv, Timely, OneOpen
  <2> QED BY <2>4, <2>5
<1>2. IInv /\ [Next]_vars => [answered' # answered => Own]_vars
  BY <1>1 DEF vars
<1> QED BY Inductive, <1>2, PTL DEF Spec, OwnWord
=============================================================================
