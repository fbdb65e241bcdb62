----------------------------- MODULE CamClient -----------------------------
(***************************************************************************)
(* The card server client of src/core/dtv_camd.c and its two users in      *)
(* src/engine/usb_dvbs2_engine.c, in one channel change after another.     *)
(*                                                                         *)
(* Three threads.  "cmd" runs set_channel: the new service, the epoch,     *)
(* then the client is parked.  "stream" runs one pass of the stream loop   *)
(* per USB read: it notices the epoch, takes the control words, and hands  *)
(* the client the ECMs and the CA systems it finds in the packets.         *)
(* "worker" connects, sends one ECM at a time and publishes the answer.    *)
(* Each critical section is one step, and so is each write outside one.    *)
(*                                                                         *)
(* A CA system is named by its ECM pid, an ECM and the control words that  *)
(* answer it by the pid the ECM came on.  The repeats of the ECM last sent *)
(* change nothing and are left out, and last_ecm with them.  Of the        *)
(* generation the only use is a comparison with the one the stream thread  *)
(* saw last: "fresh" says they differ.  A local is None where its thread   *)
(* is past its last use.  Outside the program: the card server, and the    *)
(* packets of the carrier, which carries every service.                    *)
(***************************************************************************)
EXTENDS Integers, Sequences, FiniteSets

CONSTANTS
  Services,     (* the services of the carrier                             *)
  Systems,      (* their CA systems, in the order of the PMT               *)
  Opened,       (* the CA systems the server has a card for                *)
  Balky,        (* those it may refuse or leave unanswered all the same    *)
  ComparesIds,  (* newcamd: an answer is known by the id of its request;   *)
                (* cs378x takes whichever answer comes next                *)
  None,         (* no service, no pid (0x1fff), no ECM, a word of zeros    *)
  RejectsBeforeRotate,   (* CAMD_REJECTS_BEFORE_ROTATE, 3 in the code      *)
  MaxChannels,  (* bound on channel changes                                *)
  MaxLate       (* bound on the answers late on a connection at a time     *)

Pids == UNION {{Systems[s][i] : i \in DOMAIN Systems[s]} : s \in Services}
Parities == {"even", "odd"}

ASSUME SystemsAssumption ==
  /\ Systems \in [Services -> Seq(Pids)]
  /\ Opened \subseteq Pids /\ Balky \subseteq Pids
  /\ None \notin Services \cup Pids
  /\ ComparesIds \in BOOLEAN
  /\ \A s, t \in Services : \A i \in DOMAIN Systems[s], j \in DOMAIN Systems[t] :
       Systems[s][i] = Systems[t][j] => s = t /\ i = j

ASSUME BoundsAssumption ==
  RejectsBeforeRotate \in Nat \ {0} /\ MaxChannels \in Nat /\ MaxLate \in Nat

VARIABLES
  pc,          (* where each thread is                                     *)
  picked,      (* the local "pid" of the apply_candidate each thread runs  *)
  svc,         (* g_svc                                                    *)
  epoch,       (* g_pid_epoch                                              *)
  service, systems, index,    (* the client's candidates                   *)
  asked,       (* connection.ca_system_id                                  *)
  activePid,   (* active_ecm_pid                                           *)
  pending,     (* pending_ecm                                              *)
  words, valid,               (* even and odd, even_valid and odd_valid    *)
  fresh,       (* generation # key_generation                              *)
  ecm, header, (* the ECM the worker sends, and the CA system it names     *)
  rejects,     (* its refusals in a row                                    *)
  owed,        (* answers that came too late for their ECM and are still   *)
               (* to be read: a word, or None for a refusal                *)
  mySvc, myEpoch, ecmPid, reportedCa,   (* locals of the stream thread     *)
  installed, keys,                      (* keys_installed, and g_csa       *)
  leaked,      (* history: a word had a way into another service's picture *)
  mistaken,    (* history: it was the answer to an ECM of another service  *)
  strayed      (* history: a race took the client's candidates or its pid  *)

cmdVars == <<svc, epoch>>
listVars == <<service, systems, index>>
keyVars == <<words, valid, fresh>>
workVars == <<ecm, header, rejects, owed>>
streamVars == <<mySvc, myEpoch, ecmPid, reportedCa, installed, keys>>
history == <<leaked, mistaken, strayed>>
vars == <<pc, picked, cmdVars, listVars, asked, activePid, pending, keyVars,
          workVars, streamVars, history>>

Threads == {"cmd", "stream", "worker"}
Locations == {"idle", "epoch", "park", "copy", "notice", "pid", "keys",
              "packets", "reread", "connect", "take", "send", "answer",
              "refused", "apply", "activate"}

TypeOK ==
  /\ pc \in [Threads -> Locations]
  /\ picked \in [Threads -> Pids \cup {None}]
  /\ svc \in Services \cup {None} /\ epoch \in Nat
  /\ service \in Services \cup {None}
  /\ systems \in {<<>>} \cup {Systems[s] : s \in Services}
  /\ index \in 1..(IF systems = <<>> THEN 1 ELSE Len(systems))
  /\ {asked, activePid, pending, ecm, header, ecmPid} \subseteq Pids \cup {None}
  /\ {words, keys} \subseteq [Parities -> Pids \cup {None}]
  /\ valid \subseteq Parities
  /\ {fresh, reportedCa, installed, leaked, mistaken, strayed} \subseteq BOOLEAN
  /\ rejects \in 0..(RejectsBeforeRotate - 1)
  /\ owed \subseteq Pids \cup {None}
  /\ mySvc \in Services \cup {None} /\ myEpoch \in Nat

NoWords == [p \in Parities |-> None]

Init ==
  /\ pc = [cmd |-> "idle", stream |-> "copy", worker |-> "connect"]
  /\ picked = [t \in Threads |-> None]
  /\ svc = None /\ epoch = 0
  /\ service = None /\ systems = <<>> /\ index = 1
  /\ asked = None /\ activePid = None
  /\ pending = None
  /\ words = NoWords /\ valid = {} /\ fresh = FALSE
  /\ ecm = None /\ header = None /\ rejects = 0 /\ owed = {}
  /\ mySvc = None /\ myEpoch = 0 /\ ecmPid = None /\ reportedCa = FALSE
  /\ installed = FALSE /\ keys = NoWords
  /\ leaked = FALSE /\ mistaken = FALSE /\ strayed = FALSE

-----------------------------------------------------------------------------
At(t, l) == pc[t] = l
Goto(t, l) == pc' = [pc EXCEPT ![t] = l]

(* The CA system the worker should be asking about, and the one a list     *)
(* starts with.                                                            *)
First(list) == IF list = <<>> THEN None ELSE list[1]
Selected == IF index \in DOMAIN systems THEN systems[index] ELSE None

(* What the picture of s may not be descrambled with.                      *)
Foreign(s, w) == \E p \in Parities :
  w[p] # None /\ \A i \in DOMAIN Systems[s] : Systems[s][i] # w[p]

(* dtv_camd_set_service, its critical section.  The words stay, only their *)
(* flags are cleared; no list parks the client.                            *)
WordsKept == valid
WordsForgotten == {}

SetService(s, list) ==
  /\ service' = s /\ systems' = list /\ index' = 1
  /\ valid' = WordsForgotten /\ fresh' = TRUE
  /\ pending' = None
  /\ UNCHANGED <<asked, activePid, picked, words, workVars>>

(* apply_candidate: the selection is copied under the lock, its pid made   *)
(* known to the stream thread after it.                                    *)
AlwaysFirst == First(systems)
CandidateCopied == Selected

ApplyCandidate(t) ==
  /\ At(t, "apply")
  /\ asked' = CandidateCopied
  /\ picked' = [picked EXCEPT ![t] = CandidateCopied]
  /\ Goto(t, "activate")
  /\ UNCHANGED <<cmdVars, listVars, activePid, pending, keyVars,
                 workVars, streamVars, history>>

(* A pid written after another thread's selection moved on stays wrong     *)
(* unless that thread is still to write its own.                           *)
Overtaken(t) ==
  /\ picked[t] # Selected
  /\ \A u \in Threads \ {t} :
       ~At(u, "apply") /\ ~(At(u, "activate") /\ picked[u] = Selected)

ActivateCandidate(t) ==
  /\ At(t, "activate")
  /\ activePid' = picked[t]
  /\ picked' = [picked EXCEPT ![t] = None]
  /\ Goto(t, CASE t = "cmd" -> "idle" [] t = "stream" -> "reread"
               [] t = "worker" -> "take")
  /\ strayed' = (strayed \/ Overtaken(t))
  /\ UNCHANGED <<cmdVars, listVars, asked, pending, keyVars, workVars,
                 streamVars, leaked, mistaken>>

-----------------------------------------------------------------------------
(* set_channel, on the command thread.                                     *)
SetChannel(s) ==
  /\ At("cmd", "idle")
  /\ epoch < MaxChannels
  /\ svc' = s
  /\ Goto("cmd", "epoch")
  /\ UNCHANGED <<picked, epoch, listVars, asked, activePid, pending, keyVars,
                 workVars, streamVars, history>>

BumpEpoch ==
  /\ At("cmd", "epoch")
  /\ epoch' = epoch + 1
  /\ Goto("cmd", "park")
  /\ UNCHANGED <<picked, svc, listVars, asked, activePid, pending, keyVars,
                 workVars, streamVars, history>>

(* Parking takes away what the stream thread already reported, if it was   *)
(* faster.  What came in for the channel that is left is over with it, the *)
(* stream thread being about to drop its keys - unless it was faster.      *)
ParkClient ==
  /\ At("cmd", "park")
  /\ SetService(svc, <<>>)
  /\ Goto("cmd", "apply")
  /\ strayed' = (strayed \/ (myEpoch = epoch /\ reportedCa))
  /\ leaked' = (leaked /\ myEpoch = epoch)
  /\ mistaken' = (mistaken /\ myEpoch = epoch)
  /\ UNCHANGED <<cmdVars, streamVars>>

-----------------------------------------------------------------------------
(* The worker.                                                             *)
(* A connection or a login that fails leaves everything as it is, and is   *)
(* tried again.                                                            *)
LogsIn ==
  /\ At("worker", "connect")
  /\ rejects' = 0
  /\ Goto("worker", "take")
  /\ UNCHANGED <<picked, cmdVars, listVars, asked, activePid, pending, keyVars,
                 ecm, header, owed, streamVars, history>>

(* A keepalive or an ECM could not be sent, or the answer broke the        *)
(* connection: what it still owed is lost with it.  The status shown to    *)
(* the user is left out.                                                   *)
Drops ==
  /\ \/ At("worker", "take") /\ pending = None
     \/ At("worker", "send")
     \/ At("worker", "answer")
  /\ ecm' = None /\ header' = None /\ owed' = {}
  /\ Goto("worker", "connect")
  /\ UNCHANGED <<picked, cmdVars, listVars, asked, activePid, pending, keyVars,
                 rejects, streamVars, history>>

TakesEcm ==
  /\ At("worker", "take")
  /\ pending # None
  /\ ecm' = pending /\ pending' = None
  /\ Goto("worker", "send")
  /\ UNCHANGED <<picked, cmdVars, listVars, asked, activePid, keyVars,
                 header, rejects, owed, streamVars, history>>

(* The header is read from the connection without the lock.                *)
SendsEcm ==
  /\ At("worker", "send")
  /\ header' = asked
  /\ Goto("worker", "answer")
  /\ UNCHANGED <<picked, cmdVars, listVars, asked, activePid, pending, keyVars,
                 ecm, rejects, owed, streamVars, history>>

(* A card answers an ECM of its own CA system.                             *)
Opens == header = ecm /\ ecm \in Opened
Answers ==
  {IF Opens THEN ecm ELSE None} \cup (IF ecm \in Balky THEN {None} ELSE {})

(* recv_cw.  cs378x looks at no message id: it takes a late answer to an   *)
(* earlier ECM for the one it waits for, whose own is then late in turn.   *)
(* The set does not count, so what is taken from it may stay in it.        *)
Late(answers) == owed' = answers /\ Cardinality(answers) <= MaxLate

Receives(answer) ==
  \/ answer \in Answers /\ UNCHANGED owed
  \/ /\ ~ComparesIds /\ answer \in owed
     /\ \E own \in Answers, rest \in {owed, owed \ {answer}} :
          Late(rest \cup {own})

(* Silent for CAMD_IO_TIMEOUT_MS, and answered later or never.             *)
TimesOut ==
  /\ Opens => ecm \in Balky
  /\ \/ UNCHANGED owed
     \/ ~ComparesIds /\ \E own \in Answers : Late(owed \cup {own})

OfService(pid, s) ==
  s # None /\ \E i \in DOMAIN Systems[s] : Systems[s][i] = pid

Uncounted == fresh
Counted == TRUE

(* publish_control_words: a server that knows one parity only sends zeros  *)
(* for the other.                                                          *)
Publishes ==
  /\ At("worker", "answer")
  /\ \E word \in Pids, known \in SUBSET Parities \ {{}} :
       /\ Receives(word)
       /\ words' = [p \in Parities |-> IF p \in known THEN word ELSE words[p]]
       /\ valid' = valid \cup known
       /\ leaked' = (leaked \/ (word = ecm /\ ~OfService(word, service)))
       /\ mistaken' = (mistaken \/ (word # ecm /\ ~OfService(word, service)))
  /\ fresh' = Counted
  /\ rejects' = 0
  /\ ecm' = None /\ header' = None
  /\ Goto("worker", "take")
  /\ UNCHANGED <<picked, cmdVars, listVars, asked, activePid, pending,
                 streamVars, strayed>>

(* Refused or silent, the connection is kept.                              *)
Refuses ==
  /\ At("worker", "answer")
  /\ Receives(None) \/ TimesOut
  /\ ecm' = None /\ header' = None
  /\ Goto("worker", "refused")
  /\ UNCHANGED <<picked, cmdVars, listVars, asked, activePid, pending, keyVars,
                 rejects, streamVars, history>>

NeverEnough == FALSE
Enough == rejects + 1 >= RejectsBeforeRotate

CountsRefusal ==
  /\ At("worker", "refused")
  /\ ~Enough
  /\ rejects' = rejects + 1
  /\ Goto("worker", "take")
  /\ UNCHANGED <<picked, cmdVars, listVars, asked, activePid, pending, keyVars,
                 ecm, header, owed, streamVars, history>>

(* rotate_candidate: the ECM that waits belongs to the pid being left.     *)
NotAdvanced == index
Advanced == (index % Len(systems)) + 1

Rotates ==
  /\ At("worker", "refused")
  /\ Enough
  /\ rejects' = 0
  /\ pending' = None
  /\ IF Len(systems) > 1
     THEN index' = Advanced /\ Goto("worker", "apply")
     ELSE UNCHANGED index /\ Goto("worker", "take")
  /\ UNCHANGED <<picked, cmdVars, service, systems, asked, activePid, keyVars,
                 ecm, header, owed, streamVars, history>>

-----------------------------------------------------------------------------
(* One pass of the stream thread.  It copies the service under g_lock and  *)
(* looks at the epoch after it.                                            *)
CopiesChannel ==
  /\ At("stream", "copy")
  /\ mySvc' = svc
  /\ Goto("stream", "notice")
  /\ UNCHANGED <<picked, cmdVars, listVars, asked, activePid, pending, keyVars,
                 workVars, myEpoch, ecmPid, reportedCa, installed, keys,
                 history>>

EpochMoved == myEpoch # epoch

(* Noticed before the client is parked, the old words come back at the     *)
(* next look; noticed with a service copied before the change, its PMT is  *)
(* reported as the new one's.                                              *)
NoticesEpoch ==
  /\ At("stream", "notice")
  /\ Goto("stream", "pid")
  /\ IF EpochMoved
     THEN /\ myEpoch' = epoch
          /\ reportedCa' = FALSE
          /\ installed' = FALSE /\ fresh' = TRUE /\ keys' = NoWords
          /\ leaked' = (leaked \/ At("cmd", "park") \/ mySvc # svc)
          /\ strayed' = (strayed \/ (mySvc # svc /\ ~At("cmd", "epoch")))
     ELSE UNCHANGED <<myEpoch, reportedCa, installed, fresh, keys, leaked, strayed>>
  /\ UNCHANGED <<picked, cmdVars, listVars, asked, activePid, pending, words,
                 valid, workVars, mySvc, ecmPid, mistaken>>

(* dtv_camd_ecm_pid, before the keys and again after a set_service.        *)
ReadsPid ==
  /\ At("stream", "pid") \/ At("stream", "reread")
  /\ ecmPid' = activePid
  /\ Goto("stream", IF At("stream", "pid") THEN "keys" ELSE "packets")
  /\ UNCHANGED <<picked, cmdVars, listVars, asked, activePid, pending, keyVars,
                 workVars, mySvc, myEpoch, reportedCa, installed, keys,
                 history>>

(* dtv_camd_get_keys hands out both words when either is valid.            *)
AnyValid == valid # {}

GetsKeys ==
  /\ At("stream", "keys")
  /\ Goto("stream", "packets")
  /\ IF AnyValid /\ (~installed \/ fresh)
     THEN /\ keys' = words
          /\ installed' = TRUE /\ fresh' = FALSE
          /\ leaked' = (leaked \/ \E p \in Parities \ valid : words[p] # None)
     ELSE UNCHANGED <<keys, installed, fresh, leaked>>
  /\ UNCHANGED <<picked, cmdVars, listVars, asked, activePid, pending, words,
                 valid, workVars, mySvc, myEpoch, ecmPid, reportedCa,
                 mistaken, strayed>>

(* An ECM in the packets that is not the one last sent replaces the one    *)
(* that waits.  A crypto period is longer than a read, so what follows in  *)
(* the read repeats it.                                                    *)
FindsEcm ==
  /\ At("stream", "packets")
  /\ ecmPid # None
  /\ pending' = ecmPid
  /\ ecmPid' = None
  /\ UNCHANGED <<pc, picked, cmdVars, listVars, asked, activePid, keyVars,
                 workVars, mySvc, myEpoch, reportedCa, installed, keys, history>>

(* The PMT of the service, the first since the epoch moved: its CA systems *)
(* are handed over, those of the old service too.                          *)
FindsPmt ==
  /\ At("stream", "packets")
  /\ mySvc # None /\ ~reportedCa
  /\ reportedCa' = TRUE
  /\ SetService(mySvc, Systems[mySvc])
  /\ Goto("stream", "apply")
  /\ leaked' = (leaked \/ mySvc # svc)
  /\ ecmPid' = None
  /\ UNCHANGED <<cmdVars, mySvc, myEpoch, installed, keys, mistaken, strayed>>

EndsPass ==
  /\ At("stream", "packets")
  /\ Goto("stream", "copy")
  /\ ecmPid' = None
  /\ UNCHANGED <<picked, cmdVars, listVars, asked, activePid, pending, keyVars,
                 workVars, mySvc, myEpoch, reportedCa, installed, keys,
                 history>>

-----------------------------------------------------------------------------
Command ==
  \/ \E s \in Services : SetChannel(s)
  \/ BumpEpoch
  \/ ParkClient

Worker ==
  \/ LogsIn
  \/ Drops
  \/ TakesEcm
  \/ SendsEcm
  \/ Publishes
  \/ Refuses
  \/ CountsRefusal
  \/ Rotates

Stream ==
  \/ CopiesChannel
  \/ NoticesEpoch
  \/ ReadsPid
  \/ GetsKeys
  \/ FindsEcm
  \/ FindsPmt
  \/ EndsPass

Next ==
  \/ Command
  \/ Worker
  \/ Stream
  \/ \E t \in Threads : ApplyCandidate(t) \/ ActivateCandidate(t)

Spec == Init /\ [][Next]_vars

(* Every thread goes on, the packets of the tuned service keep coming, and *)
(* a server that is asked for a word it has again and again gives it once. *)
(* The command thread need not do more than end a set_channel it began.    *)
Fairness ==
  /\ WF_vars(BumpEpoch \/ ParkClient)
  /\ \A t \in Threads : WF_vars(ApplyCandidate(t) \/ ActivateCandidate(t))
  /\ WF_vars(Worker) /\ SF_vars(Publishes)
  /\ WF_vars(CopiesChannel \/ NoticesEpoch \/ ReadsPid \/ GetsKeys \/ EndsPass)
  /\ SF_vars(FindsEcm) /\ SF_vars(FindsPmt)

FairSpec == Spec /\ Fairness

-----------------------------------------------------------------------------
(* dtv_camd.h: "generation increases when they change, so the caller can   *)
(* skip re-keying".  What the stream thread skips it already has, whatever *)
(* the worker and a set_service did to the store in between.               *)
GenerationTellsKeys == installed /\ ~fresh => keys = words

(* The stream thread at a channel it has taken up, about to send packets.  *)
TakenUp ==
  /\ mySvc = svc /\ myEpoch = epoch
  /\ ~At("cmd", "epoch") /\ At("stream", "packets")

(* The picture of a channel is not descrambled with the words of another,  *)
(* through any number of changes - unless, since the client was parked for *)
(* it, an answer was published for a service the client had left, a word   *)
(* was handed out without its flag, or the stream thread took the epoch or *)
(* a PMT between two steps of set_channel (leaked), or, with cs378x, a     *)
(* late answer to an ECM of another service was read as this one's         *)
(* (mistaken).  These five are the only ways in, newcamd has the first     *)
(* four, and none of them reaches past the next change, unless the stream  *)
(* thread is faster than the parking there too.                            *)
NoForeignKey ==
  TakenUp /\ ~leaked /\ (ComparesIds \/ ~mistaken) => ~Foreign(svc, keys)

(* apply_candidate runs on all three threads: with none of them about to,  *)
(* the connection asks about the CA system the candidates have selected,   *)
(* so a rotation and a new service never leave each other's behind.        *)
AskedFollows == (\A t \in Threads : ~At(t, "apply")) => asked = Selected

(* Once connections last, a service with a card is descrambled again and   *)
(* again, whatever was refused and dropped before, unless a race took the  *)
(* client's candidates away or left it on a wrong pid.                     *)
Descrambled ==
  \/ ~At("cmd", "idle")
  \/ svc = None
  \/ \A i \in DOMAIN Systems[svc] : Systems[svc][i] \notin Opened
  \/ installed /\ keys # NoWords /\ ~Foreign(svc, keys)

ConnectionLasts == <>[][~Drops]_vars

Descrambles == ConnectionLasts => []<>(Descrambled \/ strayed)

-----------------------------------------------------------------------------
(* What the code says of itself, without the exceptions.                   *)

(* The words the stream thread installs are told from no word by being     *)
(* zero: "An all-zero word means not this parity".                         *)
ValidWordsOnly == AnyValid => \A p \in Parities : words[p] # None => p \in valid

(* "Park the CAM client until the new PMT names its CA systems": with the  *)
(* PMT on air the client does not stay parked.                             *)
ParkedUntilPmt == []<>(At("cmd", "idle") /\ svc # None => systems # <<>>)
=============================================================================
