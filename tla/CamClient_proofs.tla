-------------------------- MODULE CamClient_proofs --------------------------
(***************************************************************************)
(* Proofs about CamClient, for any services, CA systems, cards and number  *)
(* of channel changes.                                                     *)
(*                                                                         *)
(* That no foreign word reaches a picture is seldom about the words        *)
(* themselves: it follows from which service the client works for while    *)
(* the stream thread is at which epoch.  The inductive invariant IInv says *)
(* that a valid word belongs to the client's service (ValidOfService),     *)
(* that outside set_channel this is the selected one (ClientFollows), that *)
(* the stream thread has not taken up an epoch whose client is still to be *)
(* parked (NotAhead), and that what it installed since it took up the      *)
(* epoch belongs to the selected service (KeysOwn) - each unless one of    *)
(* the five named ways in was taken since the client was parked (Clean).   *)
(***************************************************************************)
EXTENDS CamClient, TLAPS

TookUp == myEpoch = epoch /\ ~At("cmd", "epoch")

Clean == ~leaked /\ (ComparesIds \/ ~mistaken)

ValidOfService == Clean => \A p \in valid : OfService(words[p], service)

ClientFollows ==
  Clean /\ ~At("cmd", "epoch") /\ ~At("cmd", "park") => service = svc

NotAhead ==
  /\ myEpoch <= epoch
  /\ Clean /\ At("cmd", "park") => myEpoch # epoch

KeysOwn == Clean /\ TookUp => ~Foreign(svc, keys)

IInv == TypeOK /\ ValidOfService /\ ClientFollows /\ NotAhead /\ KeysOwn

-----------------------------------------------------------------------------
USE SystemsAssumption, BoundsAssumption

(* Types, one action at a time.  A pid the client asks about is one of the *)
(* candidates or none.                                                     *)
LEMMA SelectedType ==
  ASSUME TypeOK
  PROVE  /\ Selected \in Pids \cup {None}
         /\ \A s \in Services : Systems[s] \in Seq(Pids)
BY DEF TypeOK, Selected

(* The initial state is typed.                                             *)
LEMMA InitTypes == Init => TypeOK
<1>1. ASSUME Init PROVE pc \in [Threads -> Locations]
  BY <1>1 DEF Init, Threads, Locations
<1>2. ASSUME Init PROVE index \in 1..(IF systems = <<>> THEN 1 ELSE Len(systems))
  BY <1>2 DEF Init
<1>3. NoWords \in [Parities -> Pids \cup {None}]
  BY DEF NoWords
<1>4. ASSUME Init PROVE picked \in [Threads -> Pids \cup {None}]
  BY <1>4 DEF Init
<1>5. ASSUME Init
      PROVE  /\ {asked, activePid, pending, ecm, header, ecmPid} \subseteq Pids \cup {None}
             /\ {words, keys} \subseteq [Parities -> Pids \cup {None}]
             /\ {fresh, reportedCa, installed, leaked, mistaken, strayed} \subseteq BOOLEAN
  BY <1>5, <1>3 DEF Init
<1>6. ASSUME Init
      PROVE  /\ systems \in {<<>>} \cup {Systems[s] : s \in Services}
             /\ rejects \in 0..(RejectsBeforeRotate - 1)
             /\ owed \subseteq Pids \cup {None}
  BY <1>6 DEF Init
<1>7. ASSUME Init
      PROVE  /\ svc \in Services \cup {None} /\ epoch \in Nat
             /\ service \in Services \cup {None} /\ valid \subseteq Parities
             /\ mySvc \in Services \cup {None} /\ myEpoch \in Nat
  BY <1>7 DEF Init
<1> QED BY <1>1, <1>2, <1>4, <1>5, <1>6, <1>7, Zenon DEF TypeOK

(* dtv_camd_set_service leaves the client typed: the index is that of the  *)
(* first candidate, also in an empty list.                                 *)
LEMMA SetServiceTypes ==
  ASSUME TypeOK, NEW s \in Services \cup {None}, NEW list,
         list \in {<<>>} \cup {Systems[q] : q \in Services}, SetService(s, list)
  PROVE  /\ service' \in Services \cup {None}
         /\ systems' \in {<<>>} \cup {Systems[q] : q \in Services}
         /\ index' \in 1..(IF systems' = <<>> THEN 1 ELSE Len(systems'))
         /\ {asked, activePid, pending, ecm, header}' \subseteq Pids \cup {None}
         /\ words' \in [Parities -> Pids \cup {None}] /\ valid' \subseteq Parities
         /\ fresh' \in BOOLEAN
         /\ rejects' \in 0..(RejectsBeforeRotate - 1)
         /\ owed' \subseteq Pids \cup {None}
<1>1. systems' = <<>> \/ Len(systems') \in Nat \ {0}
  <2>1. CASE list = <<>>
    BY <2>1 DEF SetService
  <2>2. CASE list # <<>>
    <3>1. list \in Seq(Pids)
      BY <2>2
    <3> QED BY <3>1, <2>2 DEF SetService
  <2> QED BY <2>1, <2>2
<1> QED BY <1>1 DEF SetService, TypeOK, WordsForgotten, workVars

(* What recv_cw reads is a word, a refusal or silence, and what it leaves  *)
(* to be read later are answers too.                                       *)
LEMMA ReadTypes ==
  ASSUME TypeOK, NEW a, Receives(a) \/ TimesOut
  PROVE  owed' \subseteq Pids \cup {None}
<1>1. owed \subseteq Pids \cup {None} /\ ecm \in Pids \cup {None}
  BY DEF TypeOK
<1>2. Answers \subseteq Pids \cup {None}
  BY <1>1 DEF Answers
<1>3. \/ owed' = owed
      \/ \E own \in Answers, rest \in SUBSET owed : owed' = rest \cup {own}
  BY DEF Receives, TimesOut, Late
<1> QED BY <1>1, <1>2, <1>3

(* Every step keeps the types.                                             *)
LEMMA StepTypes ==
  ASSUME TypeOK, [Next]_vars
  PROVE  TypeOK'
<1> USE DEF Threads, Locations, Parities, At, Goto
<1>1. CASE Command
  <2>1. ASSUME NEW s \in Services, SetChannel(s) PROVE TypeOK'
    BY <2>1 DEF SetChannel, TypeOK, listVars, keyVars, workVars, streamVars,
      history
  <2>2. CASE BumpEpoch
    BY <2>2 DEF BumpEpoch, TypeOK, listVars, keyVars, workVars, streamVars,
      history
  <2>3. CASE ParkClient
    <3>1. svc \in Services \cup {None}
      BY DEF TypeOK
    <3>2. SetService(svc, <<>>)
      BY <2>3 DEF ParkClient
    <3>3. leaked' \in BOOLEAN /\ mistaken' \in BOOLEAN /\ strayed' \in BOOLEAN
      BY <2>3 DEF ParkClient, TypeOK
    <3> QED BY <2>3, <3>1, <3>2, <3>3, SetServiceTypes DEF ParkClient, SetService,
      TypeOK, cmdVars, streamVars
  <2> QED BY <1>1, <2>1, <2>2, <2>3 DEF Command
<1>2. CASE Worker
  <2>1. CASE LogsIn
    BY <2>1 DEF LogsIn, TypeOK, cmdVars, listVars, keyVars, streamVars, history
  <2>2. CASE Drops
    BY <2>2 DEF Drops, TypeOK, cmdVars, listVars, keyVars, streamVars, history
  <2>3. CASE TakesEcm
    BY <2>3 DEF TakesEcm, TypeOK, cmdVars, listVars, keyVars, streamVars, history
  <2>4. CASE SendsEcm
    BY <2>4 DEF SendsEcm, TypeOK, cmdVars, listVars, keyVars, streamVars, history
  <2>5. CASE Publishes
    <3>1. PICK word \in Pids, known \in SUBSET Parities :
            /\ Receives(word)
            /\ words' = [q \in Parities |-> IF q \in known THEN word ELSE words[q]]
            /\ valid' = valid \cup known
            /\ leaked' = (leaked \/ (word = ecm /\ ~OfService(word, service)))
            /\ mistaken' = (mistaken \/ (word # ecm /\ ~OfService(word, service)))
      BY <2>5 DEF Publishes
    <3>2. owed' \subseteq Pids \cup {None}
      BY <3>1, ReadTypes
    <3>3. words' \in [Parities -> Pids \cup {None}] /\ valid' \subseteq Parities
      BY <3>1 DEF TypeOK
    <3>4. leaked' \in BOOLEAN /\ mistaken' \in BOOLEAN
      BY <3>1 DEF TypeOK
    <3> QED BY <2>5, <3>2, <3>3, <3>4 DEF Publishes, Counted, TypeOK, cmdVars,
      listVars, streamVars
  <2>6. CASE Refuses
    <3>1. owed' \subseteq Pids \cup {None}
      BY <2>6, ReadTypes DEF Refuses
    <3> QED BY <2>6, <3>1 DEF Refuses, TypeOK, cmdVars, listVars, keyVars,
      streamVars, history
  <2>7. CASE CountsRefusal
    BY <2>7 DEF CountsRefusal, Enough, TypeOK, cmdVars, listVars, keyVars,
      streamVars, history
  <2>8. CASE Rotates
    <3>1. Len(systems) > 1 => (index % Len(systems)) + 1 \in 1..Len(systems)
      BY SelectedType DEF TypeOK
    <3> QED BY <2>8, <3>1 DEF Rotates, Advanced, TypeOK, cmdVars, keyVars, streamVars,
      history
  <2> QED BY <1>2, <2>1, <2>2, <2>3, <2>4, <2>5, <2>6, <2>7, <2>8 DEF Worker
<1>3. CASE Stream
  <2>1. CASE CopiesChannel
    BY <2>1 DEF CopiesChannel, TypeOK, cmdVars, listVars, keyVars, workVars, history
  <2>2. CASE NoticesEpoch
    <3>1. keys' \in [Parities -> Pids \cup {None}]
      BY <2>2 DEF NoticesEpoch, NoWords, TypeOK
    <3>2. leaked' \in BOOLEAN /\ strayed' \in BOOLEAN /\ fresh' \in BOOLEAN
      BY <2>2 DEF NoticesEpoch, TypeOK, history
    <3> QED BY <2>2, <3>1, <3>2 DEF NoticesEpoch, TypeOK, cmdVars, listVars,
      workVars
  <2>3. CASE ReadsPid
    BY <2>3 DEF ReadsPid, TypeOK, cmdVars, listVars, keyVars, workVars, history
  <2>4. CASE GetsKeys
    <3>1. keys' \in [Parities -> Pids \cup {None}]
      BY <2>4 DEF GetsKeys, TypeOK
    <3>2. leaked' \in BOOLEAN
      BY <2>4 DEF GetsKeys, TypeOK
    <3> QED BY <2>4, <3>1, <3>2 DEF GetsKeys, TypeOK, cmdVars, listVars, workVars
  <2>5. CASE FindsEcm
    BY <2>5 DEF FindsEcm, TypeOK, cmdVars, listVars, keyVars, workVars, history
  <2>6. CASE FindsPmt
    <3>1. mySvc \in Services
      BY <2>6 DEF FindsPmt, TypeOK
    <3>2. SetService(mySvc, Systems[mySvc])
      BY <2>6 DEF FindsPmt
    <3>3. leaked' \in BOOLEAN
      BY <2>6 DEF FindsPmt, TypeOK
    <3> QED BY <2>6, <3>1, <3>2, <3>3, SetServiceTypes DEF FindsPmt, SetService,
      TypeOK, cmdVars
  <2>7. CASE EndsPass
    BY <2>7 DEF EndsPass, TypeOK, cmdVars, listVars, keyVars, workVars, history
  <2> QED BY <1>3, <2>1, <2>2, <2>3, <2>4, <2>5, <2>6, <2>7 DEF Stream
<1>4. ASSUME NEW t \in Threads, ApplyCandidate(t) PROVE TypeOK'
  BY <1>4, SelectedType DEF ApplyCandidate, CandidateCopied, TypeOK, cmdVars,
    listVars, keyVars, workVars, streamVars, history
<1>5. ASSUME NEW t \in Threads, ActivateCandidate(t) PROVE TypeOK'
  BY <1>5 DEF ActivateCandidate, TypeOK, cmdVars, listVars, keyVars, workVars,
    streamVars
<1>6. CASE UNCHANGED vars
  BY <1>6 DEF vars, TypeOK, cmdVars, listVars, keyVars, workVars, streamVars,
    history
<1> QED BY <1>1, <1>2, <1>3, <1>4, <1>5, <1>6 DEF Next

(* The invariant, part by part.  What decides is where set_channel is when *)
(* the stream thread takes up its epoch.                                   *)
LEMMA InitIInv == Init => IInv
<1> SUFFICES ASSUME Init PROVE IInv
  OBVIOUS
<1>1. TypeOK
  BY InitTypes
<1>2. ~Foreign(svc, keys)
  BY DEF Init, NoWords, Foreign
<1> QED BY <1>1, <1>2 DEF Init, IInv, ValidOfService, ClientFollows, NotAhead,
  KeysOwn, At

(* Only an answer makes a word valid, and one for another service than the *)
(* client's is a way in; a new service makes none valid.                   *)
LEMMA StepValid ==
  ASSUME IInv, [Next]_vars
  PROVE  ValidOfService'
<1>1. CASE Publishes
  <2> SUFFICES ASSUME Clean', NEW p \in valid' PROVE OfService(words'[p], service')
    BY DEF ValidOfService
  <2>1. PICK word \in Pids, known \in SUBSET Parities :
          /\ Receives(word)
          /\ words' = [q \in Parities |-> IF q \in known THEN word ELSE words[q]]
          /\ valid' = valid \cup known
          /\ leaked' = (leaked \/ (word = ecm /\ ~OfService(word, service)))
          /\ mistaken' = (mistaken \/ (word # ecm /\ ~OfService(word, service)))
    BY <1>1 DEF Publishes
  <2>2. Clean /\ service' = service
    BY <1>1, <2>1 DEF Publishes, Clean, listVars
  <2>3. OfService(word, service)
    <3>1. CASE ComparesIds
      <4>1. word = ecm
        BY <2>1, <3>1 DEF Receives, Answers, IInv, TypeOK
      <4> QED BY <2>1, <4>1 DEF Clean
    <3>2. CASE ~ComparesIds
      BY <2>1, <3>2 DEF Clean
    <3> QED BY <3>1, <3>2
  <2>4. p \in Parities
    BY <2>1 DEF IInv, TypeOK
  <2>5. p \in valid \/ p \in known
    BY <2>1
  <2>6. words'[p] = word \/ (p \in valid /\ words'[p] = words[p])
    BY <2>1, <2>4, <2>5
  <2> QED BY <2>2, <2>3, <2>6 DEF IInv, ValidOfService
<1>2. CASE ParkClient \/ FindsPmt
  BY <1>2 DEF ParkClient, FindsPmt, SetService, WordsForgotten, ValidOfService
<1>3. CASE NoticesEpoch
  BY <1>3 DEF NoticesEpoch, ValidOfService, Clean, IInv, listVars, OfService
<1>4. CASE GetsKeys
  BY <1>4 DEF GetsKeys, ValidOfService, Clean, IInv, listVars, OfService
<1>5. ASSUME ~Publishes, ~ParkClient, ~FindsPmt, ~NoticesEpoch, ~GetsKeys
      PROVE  /\ UNCHANGED <<words, valid, service>>
             /\ UNCHANGED <<leaked, mistaken>>
  BY <1>5 DEF Next, Command, Worker, Stream, SetChannel, BumpEpoch, LogsIn, Drops,
    TakesEcm, SendsEcm, Refuses, CountsRefusal, Rotates, CopiesChannel, ReadsPid,
    FindsEcm, EndsPass, ApplyCandidate, ActivateCandidate, vars, cmdVars, listVars,
    keyVars, workVars, streamVars, history
<1> QED BY <1>1, <1>2, <1>3, <1>4, <1>5 DEF IInv, ValidOfService, OfService, Clean

(* Where the command thread and the stream thread are, and what only       *)
(* set_channel and the look at the epoch change.                           *)
LEMMA Steady ==
  ASSUME TypeOK, [Next]_vars, ~Command, ~NoticesEpoch
  PROVE  /\ UNCHANGED <<svc, epoch, myEpoch>>
         /\ At("cmd", "epoch")' = At("cmd", "epoch")
         /\ At("cmd", "park")' = At("cmd", "park")
         /\ Clean' => Clean
<1> USE DEF TypeOK, At, Goto, Threads, Clean
<1>1. CASE Worker
  BY <1>1 DEF Worker, LogsIn, Drops, TakesEcm, SendsEcm, Publishes, Refuses,
    CountsRefusal, Rotates, cmdVars, streamVars, history
<1>2. CASE Stream
  BY <1>2 DEF Stream, CopiesChannel, ReadsPid, GetsKeys, FindsEcm, FindsPmt,
    EndsPass, cmdVars, history
<1>3. ASSUME NEW t \in Threads, ApplyCandidate(t) \/ ActivateCandidate(t)
      PROVE  /\ UNCHANGED <<svc, epoch, myEpoch>>
             /\ At("cmd", "epoch")' = At("cmd", "epoch")
             /\ At("cmd", "park")' = At("cmd", "park")
             /\ Clean' => Clean
  <2>1. UNCHANGED <<svc, epoch, myEpoch, leaked, mistaken>>
    BY <1>3 DEF ApplyCandidate, ActivateCandidate, cmdVars, streamVars, history
  <2>2. PICK l \in {"activate", "idle", "reread", "take"} : pc' = [pc EXCEPT ![t] = l]
    <3>1. CASE ApplyCandidate(t)
      BY <3>1 DEF ApplyCandidate
    <3>2. CASE ActivateCandidate(t)
      <4>1. \/ t = "cmd" /\ pc' = [pc EXCEPT ![t] = "idle"]
            \/ t = "stream" /\ pc' = [pc EXCEPT ![t] = "reread"]
            \/ t = "worker" /\ pc' = [pc EXCEPT ![t] = "take"]
        BY <3>2 DEF ActivateCandidate
      <4> QED BY <4>1
    <3> QED BY <1>3, <3>1, <3>2
  <2>3. pc[t] \in {"apply", "activate"}
    BY <1>3 DEF ApplyCandidate, ActivateCandidate
  <2> QED BY <2>1, <2>2, <2>3
<1>4. CASE UNCHANGED vars
  BY <1>4 DEF vars, cmdVars, streamVars, history
<1> QED BY <1>1, <1>2, <1>3, <1>4 DEF Next

(* The client works for the selected service: parking sets it, a PMT of    *)
(* another service is a way in, and an epoch taken up before the parking   *)
(* is one too.                                                             *)
LEMMA StepFollows ==
  ASSUME IInv, [Next]_vars
  PROVE  ClientFollows' /\ NotAhead'
<1> USE DEF IInv, ClientFollows, NotAhead, TypeOK, At, Goto, Threads
<1>1. ASSUME NEW s \in Services, SetChannel(s) PROVE ClientFollows' /\ NotAhead'
  BY <1>1 DEF SetChannel, listVars, streamVars, history, Clean
<1>2. CASE BumpEpoch
  BY <1>2 DEF BumpEpoch, listVars, streamVars, history, Clean
<1>3. CASE ParkClient
  BY <1>3 DEF ParkClient, SetService, cmdVars, streamVars
<1>4. CASE NoticesEpoch
  <2>1. UNCHANGED <<svc, epoch, service>> /\ (Clean' => Clean)
        /\ pc'["cmd"] = pc["cmd"]
    BY <1>4 DEF NoticesEpoch, cmdVars, listVars, Clean
  <2>2. \/ myEpoch' = epoch /\ (~Clean' \/ ~At("cmd", "park"))
        \/ myEpoch' = myEpoch
    BY <1>4 DEF NoticesEpoch, Clean
  <2> QED BY <2>1, <2>2
<1>5. CASE FindsPmt
  BY <1>5 DEF FindsPmt, SetService, cmdVars, Clean
<1>6. ASSUME ~Command, ~NoticesEpoch, ~FindsPmt PROVE ClientFollows' /\ NotAhead'
  <2>1. service' = service
    BY <1>6 DEF Next, Worker, Stream, LogsIn, Drops, TakesEcm, SendsEcm, Publishes,
      Refuses, CountsRefusal, Rotates, CopiesChannel, ReadsPid, GetsKeys, FindsEcm,
      EndsPass, ApplyCandidate, ActivateCandidate, vars, listVars
  <2> QED BY <1>6, <2>1, Steady
<1> QED BY <1>1, <1>2, <1>3, <1>4, <1>5, <1>6 DEF Command

(* What is installed comes from the store of the selected service, or from *)
(* before the epoch, which is then still to be taken up.                   *)
LEMMA StepKeys ==
  ASSUME IInv, [Next]_vars
  PROVE  KeysOwn'
<1> USE DEF IInv, KeysOwn, TookUp, NotAhead
<1>1. CASE Command
  <2>1. ASSUME NEW s \in Services, SetChannel(s) PROVE KeysOwn'
    BY <2>1 DEF SetChannel, At, Goto, TypeOK, Threads
  <2>2. CASE BumpEpoch
    BY <2>2 DEF BumpEpoch, streamVars, TypeOK
  <2>3. CASE ParkClient
    <3>1. UNCHANGED <<svc, epoch, myEpoch, keys>> /\ ~At("cmd", "epoch")
      BY <2>3 DEF ParkClient, cmdVars, streamVars, At
    <3>2. myEpoch = epoch => (Clean' => Clean)
      BY <2>3 DEF ParkClient, Clean
    <3> QED BY <3>1, <3>2
  <2> QED BY <1>1, <2>1, <2>2, <2>3 DEF Command
<1>2. CASE NoticesEpoch
  <2>1. CASE EpochMoved
    <3>1. ~Foreign(svc', keys')
      BY <1>2, <2>1 DEF NoticesEpoch, NoWords, Foreign
    <3> QED BY <3>1
  <2>2. CASE ~EpochMoved
    BY <1>2, <2>2 DEF NoticesEpoch, cmdVars, Clean, At, Goto, TypeOK, Threads
  <2> QED BY <2>1, <2>2
<1>3. CASE GetsKeys
  <2> SUFFICES ASSUME Clean', TookUp' PROVE ~Foreign(svc', keys')
    OBVIOUS
  <2>1. UNCHANGED <<svc, epoch, myEpoch>> /\ Clean /\ TookUp
    BY <1>3 DEF GetsKeys, cmdVars, Clean, At, Goto, TypeOK, Threads
  <2>2. CASE keys' = keys
    BY <2>1, <2>2
  <2>3. CASE AnyValid /\ keys' = words /\ \A p \in Parities \ valid : words[p] = None
    <3>1. service = svc
      BY <2>1 DEF ClientFollows
    <3>2. \A p \in valid : OfService(words[p], svc)
      BY <3>1, <2>1 DEF ValidOfService
    <3> QED BY <2>1, <2>3, <3>2 DEF Foreign, OfService
  <2> QED BY <1>3, <2>2, <2>3 DEF GetsKeys, Clean
<1>4. ASSUME ~Command, ~NoticesEpoch, ~GetsKeys PROVE KeysOwn'
  <2>1. keys' = keys
    BY <1>4 DEF Next, Worker, Stream, LogsIn, Drops, TakesEcm, SendsEcm, Publishes,
      Refuses, CountsRefusal, Rotates, CopiesChannel, ReadsPid, FindsEcm, FindsPmt,
      EndsPass, ApplyCandidate, ActivateCandidate, vars, streamVars
  <2> QED BY <1>4, <2>1, Steady
<1> QED BY <1>1, <1>2, <1>3, <1>4

(* The parts together.                                                     *)
LEMMA Inductive == IInv /\ [Next]_vars => IInv'
BY StepTypes, StepValid, StepFollows, StepKeys DEF IInv

(* IInv holds in every reachable state.                                    *)
LEMMA Invariance == Spec => []IInv
BY InitIInv, Inductive, PTL DEF Spec

-----------------------------------------------------------------------------
(* Every variable of the client and of its two users keeps its type: pids  *)
(* are those of the candidates, the index stays inside the list.           *)
THEOREM TypeCorrect == Spec => []TypeOK
BY Invariance, PTL DEF IInv

(* The picture of the selected channel is descrambled with its own words   *)
(* only, for any channel changes, answers in time or late, refusals and    *)
(* dropped connections, unless one of the five named ways in (four with    *)
(* newcamd) was taken since the client was parked for that channel.        *)
THEOREM OwnKeysOnly == Spec => []NoForeignKey
<1>1. IInv => NoForeignKey
  BY DEF IInv, KeysOwn, TookUp, NoForeignKey, TakenUp, Clean
<1> QED BY <1>1, Invariance, PTL

(* What dtv_camd_get_keys lets the stream thread skip it has already: the  *)
(* generation moves with every change of the words.                        *)
THEOREM SkippedKeysSame == Spec => []GenerationTellsKeys
<1>1. Init => GenerationTellsKeys
  BY DEF Init, GenerationTellsKeys
<1>2. GenerationTellsKeys /\ [Next]_vars => GenerationTellsKeys'
  <2> SUFFICES ASSUME GenerationTellsKeys, [Next]_vars PROVE GenerationTellsKeys'
    OBVIOUS
  <2> USE DEF GenerationTellsKeys
  <2>1. CASE Publishes
    BY <2>1 DEF Publishes, Counted
  <2>2. CASE ParkClient \/ FindsPmt
    BY <2>2 DEF ParkClient, FindsPmt, SetService
  <2>3. CASE NoticesEpoch
    BY <2>3 DEF NoticesEpoch
  <2>4. CASE GetsKeys
    BY <2>4 DEF GetsKeys
  <2>5. ASSUME ~Publishes, ~ParkClient, ~FindsPmt, ~NoticesEpoch, ~GetsKeys
        PROVE  UNCHANGED <<installed, fresh, keys, words>>
    BY <2>5 DEF Next, Command, Worker, Stream, SetChannel, BumpEpoch, LogsIn, Drops,
      TakesEcm, SendsEcm, Refuses, CountsRefusal, Rotates, CopiesChannel, ReadsPid,
      FindsEcm, EndsPass, ApplyCandidate, ActivateCandidate, vars, keyVars,
      streamVars
  <2> QED BY <2>1, <2>2, <2>3, <2>4, <2>5
<1> QED BY <1>1, <1>2, PTL DEF Spec

(* The thread that moves the selection is the one that copies it, so with  *)
(* no copy outstanding the connection asks about the selected CA system.   *)
THEOREM AsksSelected == Spec => []AskedFollows
<1>1. Init => AskedFollows
  BY DEF Init, AskedFollows, Selected
<1>2. TypeOK /\ AskedFollows /\ [Next]_vars => AskedFollows'
  <2> SUFFICES ASSUME TypeOK, AskedFollows, [Next]_vars PROVE AskedFollows'
    OBVIOUS
  <2> USE DEF AskedFollows, At, Goto, TypeOK, Threads
  <2>1. CASE ParkClient
    BY <2>1 DEF ParkClient
  <2>2. CASE FindsPmt
    BY <2>2 DEF FindsPmt
  <2>3. CASE Rotates
    BY <2>3 DEF Rotates, Selected
  <2>4. ASSUME NEW t \in Threads, ApplyCandidate(t) PROVE AskedFollows'
    BY <2>4 DEF ApplyCandidate, CandidateCopied, Selected, listVars
  <2>5. ASSUME ~ParkClient, ~FindsPmt, ~Rotates,
               \A t \in Threads : ~ApplyCandidate(t)
        PROVE  AskedFollows'
    <3>1. asked' = asked /\ Selected' = Selected
      BY <2>5 DEF Next, Command, Worker, Stream, SetChannel, BumpEpoch, LogsIn,
        Drops, TakesEcm, SendsEcm, Publishes, Refuses, CountsRefusal,
        CopiesChannel, NoticesEpoch, ReadsPid, GetsKeys, FindsEcm, EndsPass,
        ActivateCandidate, vars, listVars, Selected
    <3>2. \A t \in Threads : pc[t] = "apply" => pc'[t] = "apply"
      BY <2>5 DEF Next, Command, Worker, Stream, SetChannel, BumpEpoch, LogsIn,
        Drops, TakesEcm, SendsEcm, Publishes, Refuses, CountsRefusal,
        CopiesChannel, NoticesEpoch, ReadsPid, GetsKeys, FindsEcm, EndsPass,
        ActivateCandidate, vars
    <3> QED BY <3>1, <3>2
  <2> QED BY <2>1, <2>2, <2>3, <2>4, <2>5
<1> QED BY <1>1, <1>2, TypeCorrect, PTL DEF Spec

=============================================================================
