---------------------------- MODULE Drives_proofs ----------------------------
(***************************************************************************)
(* Proofs about Drives, for all volumes and all bounds: the list of        *)
(* devices and what the server knows of it agree, whichever way scans,     *)
(* handshakes and refusals interleave, outside the gaps ServerAgrees names;*)
(* and that list is what is mounted once every change has been looked at.  *)
(***************************************************************************)
EXTENDS Drives, FiniteSetTheorems, TLAPS

\* What is false, or true, is a truth value (said once, for Zenon to find).
LEMMA FalseIsBoolean == \A x : x = FALSE => x \in BOOLEAN
  BY Zenon
LEMMA TrueIsBoolean == \A x : x = TRUE => x \in BOOLEAN
  BY Zenon
LEMMA BothAreBoolean == \A x, a, b : x = (a /\ b) => x \in BOOLEAN
  BY Zenon
LEMMA EitherIsBoolean == \A x, a, b : x = (a \/ b) => x \in BOOLEAN
  BY Zenon

\* Removing an id from the list leaves a list.
LEMMA WithoutIsList ==
    ASSUME TypeOK, NEW id
    PROVE  /\ DOMAIN Without(id) = Ids \ {id}
           /\ Without(id) \in [Ids \ {id} -> Volumes \cup {Home}]
  BY DEF TypeOK, Without, Ids

\* The types of what the device list and the scan keep.
ListType ==
    /\ mounted \subseteq Volumes /\ found \subseteq Volumes /\ toAdd \subseteq found
    /\ nextId \in Nat \ {0, 1}
    /\ devices \in [Ids -> Volumes \cup {Home}] /\ Ids \subseteq 1..(nextId - 1)
    /\ at \in {"idle", "look", "hold", "tell", "try", "build", "send"}
    /\ hand \in [id : 0..(nextId - 1), path : Volumes \cup {None}]
    /\ refused \subseteq Volumes \cup {Home}

\* The sets of ids.
IdType ==
    /\ \A s \in {keys, lot, batch, told, late, ghosts, untold} :
          s \subseteq 1..(nextId - 1)
    /\ asked \in 0..(nextId - 1)

\* Flags, places and counters.
FlagType ==
    /\ {watching, event, ready, loggedOn, missed, failed} \subseteq BOOLEAN
    /\ {saw, early, removes} \subseteq BOOLEAN
    /\ chan \in {"first", "init", "confirm", "list", "serve", "dead"}
    /\ changes \in 0..MaxChanges /\ hellos \in 0..MaxHellos
    /\ refusals \in 0..MaxRefusals

\* The flags and counters keep their types.
LEMMA FlagStep == TypeOK /\ [Next]_vars => FlagType'
<1> SUFFICES ASSUME TypeOK, [Next]_vars
             PROVE  FlagType'
  OBVIOUS
<1> USE DrivesAssumption DEF DrivesAssumption, TypeOK, FlagType
<1> USE FalseIsBoolean, TrueIsBoolean
<1> USE DEF volumeVars, scanVars, chanVars, serverVars, historyVars
<1>1. CASE VolumeStep
  BY <1>1 DEF VolumeStep, Mount, Unmount, Changed
<1>2. CASE Watch
  BY <1>2 DEF Watch
<1>3. CASE ReadVolumes
  BY <1>3 DEF ReadVolumes
<1>4. ASSUME NEW badly \in BOOLEAN, Over(badly)
      PROVE  FlagType'
  BY <1>4 DEF Over
<1>5. CASE TellFails \/ RegisterFails \/ SendFails \/ Finish
  BY <1>4, <1>5 DEF TellFails, RegisterFails, SendFails, Finish
<1>6. CASE Look
  BY <1>6 DEF Look
<1>7. CASE Known \/ Lost \/ Unregister \/ TellRemoved \/ TellNobody
  BY <1>7 DEF Known, Lost, Unregister, TellRemoved, TellNobody
<1>8. CASE Register \/ SendLot
  BY <1>8 DEF Register, SendLot
<1>16. CASE Try \/ Build
  <2>1. saw' \in BOOLEAN /\ loggedOn' \in BOOLEAN
    BY <1>16, BothAreBoolean, EitherIsBoolean DEF Try, Build
  <2>2. /\ UNCHANGED <<volumeVars, chan, ready, early, removes, hellos>>
        /\ UNCHANGED <<refusals, missed, failed>>
    BY <1>16 DEF Try, Build
  <2>3. QED
    BY <2>1, <2>2
<1>9. CASE ServerAnnounce
  BY <1>9 DEF ServerAnnounce
<1>10. CASE InitDone \/ Confirm
  BY <1>10 DEF InitDone, Confirm, BuildBatch
<1>11. CASE UserLoggedOn \/ SendBatch
  BY <1>11 DEF UserLoggedOn, SendBatch, BuildBatch
<1>12. CASE Refuse
  BY <1>12 DEF Refuse
<1>13. CASE Ask \/ IoRequest
  BY <1>13 DEF Ask, IoRequest
<1>14. CASE UNCHANGED vars
  BY <1>14 DEF vars
<1>15. QED
  BY <1>1, <1>2, <1>3, <1>5, <1>6, <1>7, <1>8, <1>9, <1>10, <1>11, <1>12,
     <1>13, <1>14, <1>16 DEF Next, ScanStep, ChannelStep

\* The list and the scan keep their types.
LEMMA ListStep == TypeOK /\ [Next]_vars => ListType'
<1> SUFFICES ASSUME TypeOK, [Next]_vars
             PROVE  ListType'
  OBVIOUS
<1> USE DrivesAssumption DEF DrivesAssumption, TypeOK, ListType
<1> USE DEF volumeVars, listVars, scanVars, serverVars, historyVars, Ids, Nothing
<1>1. CASE VolumeStep
  BY <1>1 DEF VolumeStep, Mount, Unmount, Changed
<1>2. CASE Watch
  BY <1>2 DEF Watch
<1>3. CASE ReadVolumes
  BY <1>3 DEF ReadVolumes
<1>4. ASSUME NEW badly \in BOOLEAN, Over(badly), UNCHANGED listVars
      PROVE  ListType'
  BY <1>4 DEF Over
<1>5. CASE TellFails \/ RegisterFails \/ SendFails \/ Finish
  BY <1>4, <1>5 DEF TellFails, RegisterFails, SendFails, Finish
<1>6. CASE Look
  <2>1. PICK id \in keys :
          IF id \in Ids /\ devices[id] # Home
          THEN hand' = [id |-> id, path |-> devices[id]] /\ at' = "hold"
          ELSE UNCHANGED <<hand, at>>
    BY <1>6 DEF Look
  <2>2. hand' \in [id : 0..(nextId - 1), path : Volumes \cup {None}]
    BY <2>1
  <2>3. QED
    BY <1>6, <2>1, <2>2 DEF Look
<1>7. CASE Known \/ Lost \/ TellRemoved \/ TellNobody
  BY <1>7 DEF Known, Lost, TellRemoved, TellNobody
<1>8. CASE Unregister
  <2>1. devices' \in [Ids' -> Volumes \cup {Home}] /\ Ids' \subseteq Ids
    BY <1>8, WithoutIsList DEF Unregister
  <2>2. /\ at' = "tell"
        /\ UNCHANGED <<volumeVars, nextId, found, toAdd, hand, refused>>
    BY <1>8 DEF Unregister
  <2>3. QED
    BY <2>1, <2>2
<1>9. CASE Register
  <2>1. PICK v \in toAdd :
          devices' = [i \in Ids \cup {nextId} |-> IF i = nextId THEN v ELSE devices[i]]
    BY <1>9 DEF Register
  <2>2. nextId' = nextId + 1 /\ nextId' \in Nat \ {0, 1}
    BY <1>9 DEF Register
  <2>3. Ids' = Ids \cup {nextId} /\ Ids' \subseteq 1..(nextId' - 1)
    BY <2>1, <2>2
  <2>4. devices' \in [Ids' -> Volumes \cup {Home}]
    BY <2>1, <2>3
  <2>5. hand' \in [id : 0..(nextId' - 1), path : Volumes \cup {None}]
    BY <1>9, <2>2 DEF Register
  <2>6. QED
    BY <1>9, <2>2, <2>3, <2>4, <2>5 DEF Register
<1>10. CASE Try \/ Build \/ SendLot
  BY <1>10 DEF Try, Build, SendLot
<1>11. CASE ServerAnnounce \/ InitDone \/ Confirm \/ UserLoggedOn \/ SendBatch
  BY <1>11 DEF ServerAnnounce, InitDone, Confirm, UserLoggedOn, SendBatch, BuildBatch
<1>12. CASE Refuse
  <2>1. PICK id \in told :
          /\ devices' = Without(id)
          /\ refused' = refused \cup {devices[i] : i \in Ids \cap {id}}
    BY <1>12 DEF Refuse
  <2>2. devices' \in [Ids' -> Volumes \cup {Home}] /\ Ids' \subseteq Ids
    BY <2>1, WithoutIsList
  <2>3. refused' \subseteq Volumes \cup {Home}
    BY <2>1
  <2>4. QED
    BY <1>12, <2>2, <2>3 DEF Refuse
<1>13. CASE Ask \/ IoRequest
  BY <1>13 DEF Ask, IoRequest
<1>14. CASE UNCHANGED vars
  BY <1>14 DEF vars
<1>15. QED
  BY <1>1, <1>2, <1>3, <1>5, <1>6, <1>7, <1>8, <1>9, <1>10, <1>11, <1>12,
     <1>13, <1>14 DEF Next, ScanStep, ChannelStep

\* The sets of ids hold ids that have been given.
LEMMA IdStep == TypeOK /\ [Next]_vars => IdType'
<1> SUFFICES ASSUME TypeOK, [Next]_vars
             PROVE  IdType'
  OBVIOUS
<1> USE DEF TypeOK, IdType
<1> USE DEF volumeVars, listVars, scanVars, chanVars, serverVars, historyVars
<1>1. CASE VolumeStep
  BY <1>1 DEF VolumeStep, Mount, Unmount, Changed
<1>2. CASE Watch
  BY <1>2 DEF Watch
<1>3. CASE ReadVolumes
  <2>1. keys' = Ids /\ nextId' = nextId
    BY <1>3 DEF ReadVolumes
  <2>2. keys' \subseteq 1..(nextId - 1)
    BY <2>1
  <2>3. UNCHANGED <<lot, batch, told, asked, late, ghosts, untold>>
    BY <1>3 DEF ReadVolumes
  <2>4. {keys, lot, batch, told, late, ghosts, untold}' =
            {keys', lot, batch, told, late, ghosts, untold}
    BY <2>3
  <2>5. \A s \in {lot, batch, told, late, ghosts, untold} :
            s \subseteq 1..(nextId - 1)
    OBVIOUS
  <2>6. \A s \in {keys, lot, batch, told, late, ghosts, untold}' :
            s \subseteq 1..(nextId - 1)
    BY <2>2, <2>4, <2>5
  <2>7. asked' \in 0..(nextId' - 1)
    BY <2>1, <2>3
  <2>8. QED
    BY <2>1, <2>6, <2>7
<1>4. ASSUME NEW badly \in BOOLEAN, Over(badly),
             UNCHANGED <<listVars, told, late, ghosts, untold>>
      PROVE  IdType'
  BY <1>4 DEF Over
<1>5. CASE TellFails \/ RegisterFails \/ SendFails \/ Finish
  BY <1>4, <1>5 DEF TellFails, RegisterFails, SendFails, Finish
<1>6. CASE Look
  BY <1>6 DEF Look
<1>7. CASE Known \/ Lost \/ TellRemoved
  BY <1>7 DEF Known, Lost, TellRemoved
<1>17. CASE Unregister
  BY <1>17 DEF Unregister
<1>18. CASE TellNobody
  BY <1>18 DEF TellNobody
<1>8. CASE Register
  BY <1>8 DEF Register
<1>9. CASE Try
  <2>1. nextId - 1 \in 1..(nextId - 1)
    OBVIOUS
  <2>2. late \subseteq 1..(nextId - 1) /\ Ids \subseteq 1..(nextId - 1)
    OBVIOUS
  <2>3. lot' \subseteq 1..(nextId - 1)
    BY <1>9, <2>2 DEF Try
  <2>4. late' \subseteq 1..(nextId - 1)
    BY <1>9, <2>1, <2>2 DEF Try
  <2>5. nextId' = nextId /\ UNCHANGED <<keys, batch, told, asked, ghosts, untold>>
    BY <1>9 DEF Try
  <2>6. QED
    BY <2>3, <2>4, <2>5
<1>16. CASE Build
  <2>1. lot' \subseteq Ids /\ Ids \subseteq 1..(nextId - 1) /\ late' \subseteq late
    BY <1>16 DEF Build
  <2>2. nextId' = nextId /\ UNCHANGED <<keys, batch, told, asked, ghosts, untold>>
    BY <1>16 DEF Build
  <2>3. QED
    BY <2>1, <2>2
<1>10. CASE SendLot
  BY <1>10 DEF SendLot
<1>11. CASE ServerAnnounce
  BY <1>11 DEF ServerAnnounce
<1>19. CASE Confirm \/ UserLoggedOn
  <2>1. /\ batch' \in {batch, Ids} /\ late' \in {late, {}}
        /\ UNCHANGED <<nextId, keys, lot, told, asked, ghosts, untold>>
    BY <1>19 DEF Confirm, UserLoggedOn, BuildBatch
  <2>2. Ids \subseteq 1..(nextId - 1)
    OBVIOUS
  <2>3. batch' \subseteq 1..(nextId' - 1) /\ late' \subseteq 1..(nextId' - 1)
    BY <2>1, <2>2
  <2>4. QED
    BY <2>1, <2>3
<1>20. CASE InitDone \/ SendBatch
  BY <1>20 DEF InitDone, SendBatch
<1>12. CASE Refuse
  BY <1>12 DEF Refuse
<1>13. CASE Ask \/ IoRequest
  BY <1>13 DEF Ask, IoRequest
<1>14. CASE UNCHANGED vars
  BY <1>14 DEF vars
<1>15. QED
  BY <1>1, <1>2, <1>3, <1>5, <1>6, <1>7, <1>8, <1>9, <1>10, <1>11, <1>12,
     <1>13, <1>14, <1>16, <1>17, <1>18, <1>19, <1>20 DEF Next, ScanStep, ChannelStep

\* The variables have their types to begin with.
LEMMA InitType == Init => TypeOK
<1> SUFFICES ASSUME Init
             PROVE  TypeOK
  OBVIOUS
<1> USE DrivesAssumption DEF DrivesAssumption, Init
<1>1. FlagType
  BY FalseIsBoolean DEF FlagType
<1>2. ListType
  <2>1. Ids = {1} /\ devices \in [Ids -> Volumes \cup {Home}]
    BY DEF Ids
  <2>2. Ids \subseteq 1..(nextId - 1) /\ nextId \in Nat \ {0, 1}
    BY <2>1
  <2>3. hand \in [id : 0..(nextId - 1), path : Volumes \cup {None}]
    BY DEF Nothing
  <2>4. QED
    BY <2>1, <2>2, <2>3 DEF ListType
<1>3. IdType
  BY DEF IdType
<1>4. QED
  BY <1>1, <1>2, <1>3 DEF TypeOK, FlagType, ListType, IdType

\* Every step keeps every type.
LEMMA TypeStep == TypeOK /\ [Next]_vars => TypeOK'
<1>1. QED
  BY FlagStep, ListStep, IdStep DEF TypeOK, FlagType, ListType, IdType

\* Every variable keeps its type; in particular no id is used that has not been
\* given, and none twice.
THEOREM TypeCorrect == Spec => []TypeOK
<1>1. QED
  BY InitType, TypeStep, PTL DEF Spec
-----------------------------------------------------------------------------
(* What the server knows.                                                  *)

\* The device taken from the list of which the server is being told.
InHand == IF at = "tell" THEN {hand.id} ELSE {}

\* The device just added, whose announcement has not been decided yet.
Added == IF at = "try" THEN {nextId - 1} ELSE {}

\* What the scan is about to announce.
Due == IF at \in {"try", "build"} THEN {nextId - 1} ELSE lot

\* What is told, or on a list to be sent, is there, being removed, or was removed
\* while on such a list or from a server that takes no notice of it.
TellsTruth ==
    /\ told \subseteq Ids \cup ghosts \cup untold \cup InHand
    /\ batch \cup lot \subseteq Ids \cup ghosts
    /\ at = "tell" => hand.id \notin Ids
    /\ chan # "list" => batch = {}
    /\ at # "send" => lot = {}
    /\ chan = "init" => told = {}

\* What is there is told, or about to be: by the scan, or by the list under way.
TellsAll ==
    /\ at = "send" => Ids \subseteq lot
    /\ chan \in {"first", "init", "confirm"} => ~ready
    /\ chan = "list" => ~ready /\ Ids \ late \subseteq batch \cup Added
    /\ chan = "list" /\ at = "build" => late = {}
    /\ chan = "serve" /\ ready /\ (loggedOn \/ early) =>
          Ids \ late \subseteq told \cup Due

IInv == TypeOK /\ TellsTruth /\ TellsAll

\* It holds to begin with.
LEMMA InitInv == Init => IInv
<1> SUFFICES ASSUME Init
             PROVE  IInv
  OBVIOUS
<1>1. TellsTruth
  BY DEF Init, TellsTruth, InHand
<1>2. TellsAll
  BY DEF Init, TellsAll
<1>3. QED
  BY <1>1, <1>2, InitType DEF IInv

\* The end of a scan, given up or not, changes nothing of it: a scan is given up
\* on the way to the server only while a handshake begins.
LEMMA OverKeeps ==
    ASSUME IInv, NEW badly \in BOOLEAN, Over(badly),
           UNCHANGED <<listVars, told, late, ghosts, untold>>,
           at \in {"tell", "send"} => chan = "init", at \notin {"try", "build"}
    PROVE  TellsTruth' /\ TellsAll'
<1> USE DEF IInv, TypeOK, TellsTruth, TellsAll, Over, listVars, InHand, Added, Due, Ids
<1>1. TellsTruth'
  OBVIOUS
<1>2. TellsAll'
  OBVIOUS
<1>3. QED
  BY <1>1, <1>2

\* Every step keeps what the server is told true.
LEMMA TruthStep == IInv /\ [Next]_vars => TellsTruth'
<1> SUFFICES ASSUME IInv, [Next]_vars
             PROVE  TellsTruth'
  OBVIOUS
<1> USE DEF IInv, TellsTruth, InHand, Ids
<1> USE DEF volumeVars, listVars, scanVars, chanVars, serverVars, historyVars
<1>1. CASE VolumeStep \/ Watch
  BY <1>1 DEF VolumeStep, Mount, Unmount, Changed, Watch
<1>2. CASE ReadVolumes
  BY <1>2 DEF ReadVolumes
<1>3. CASE TellFails \/ RegisterFails \/ SendFails \/ Finish
  BY <1>3, OverKeeps DEF TellFails, RegisterFails, SendFails, Finish
<1>4. CASE Look
  BY <1>4 DEF Look
<1>5. CASE Known \/ Lost
  BY <1>5 DEF Known, Lost
<1>6. CASE Unregister
  <2>1. Ids' = Ids \ {hand.id}
    BY <1>6, WithoutIsList DEF Unregister
  <2>2. QED
    BY <1>6, <2>1 DEF Unregister
<1>7. CASE TellRemoved \/ TellNobody
  BY <1>7 DEF TellRemoved, TellNobody
<1>8. CASE Register
  <2>1. Ids' = Ids \cup {nextId}
    BY <1>8 DEF Register
  <2>2. QED
    BY <1>8, <2>1 DEF Register
<1>9. CASE Try \/ Build \/ SendLot
  BY <1>9 DEF Try, Build, SendLot
<1>10. CASE ServerAnnounce \/ InitDone \/ Confirm
  BY <1>10 DEF ServerAnnounce, InitDone, Confirm, BuildBatch
<1>11. CASE UserLoggedOn \/ SendBatch
  BY <1>11 DEF UserLoggedOn, SendBatch, BuildBatch
<1>12. CASE Refuse
  <2>1. PICK id \in told :
          /\ told' = told \ {id}
          /\ devices' = Without(id)
          /\ ghosts' = ghosts \cup ({id} \cap lot)
    BY <1>12 DEF Refuse
  <2>2. Ids' = Ids \ {id}
    BY <2>1, WithoutIsList
  <2>3. QED
    BY <1>12, <2>1, <2>2 DEF Refuse
<1>13. CASE Ask \/ IoRequest
  BY <1>13 DEF Ask, IoRequest
<1>14. CASE UNCHANGED vars
  BY <1>14 DEF vars
<1>15. QED
  BY <1>1, <1>2, <1>3, <1>4, <1>5, <1>6, <1>7, <1>8, <1>9, <1>10, <1>11, <1>12,
     <1>13, <1>14 DEF Next, ScanStep, ChannelStep

\* Every step keeps what is there told, or to be told.
LEMMA AllStep == IInv /\ [Next]_vars => TellsAll'
<1> SUFFICES ASSUME IInv, [Next]_vars
             PROVE  TellsAll'
  OBVIOUS
<1> USE DEF IInv, TellsTruth, TellsAll, Added, Due, Ids
<1> USE DEF volumeVars, listVars, scanVars, chanVars, serverVars, historyVars
<1>1. CASE VolumeStep \/ Watch
  BY <1>1 DEF VolumeStep, Mount, Unmount, Changed, Watch
<1>2. CASE ReadVolumes
  BY <1>2 DEF ReadVolumes
<1>3. CASE TellFails \/ RegisterFails \/ SendFails \/ Finish
  BY <1>3, OverKeeps DEF TellFails, RegisterFails, SendFails, Finish
<1>4. CASE Look
  BY <1>4 DEF Look
<1>5. CASE Known \/ Lost
  BY <1>5 DEF Known, Lost
<1>6. CASE Unregister
  <2>1. Ids' = Ids \ {hand.id}
    BY <1>6, WithoutIsList DEF Unregister
  <2>2. QED
    BY <1>6, <2>1 DEF Unregister
<1>7. CASE TellRemoved \/ TellNobody
  BY <1>7 DEF TellRemoved, TellNobody
<1>8. CASE Register
  <2>1. Ids' = Ids \cup {nextId}
    BY <1>8 DEF Register
  <2>2. nextId' - 1 = nextId
    BY <1>8 DEF Register, TypeOK
  <2>3. QED
    BY <1>8, <2>1, <2>2 DEF Register
<1>9. CASE Try
  BY <1>9 DEF Try
<1>17. CASE Build
  <2>1. CASE loggedOn \/ saw \/ early
    <3>1. lot' = Ids /\ Ids' = Ids
      BY <1>17, <2>1 DEF Build
    <3>2. UNCHANGED <<chan, ready, early, batch, told>>
      BY <1>17 DEF Build
    <3>3. at' = IF Ids = {} THEN "look" ELSE "send"
      BY <1>17, <3>1 DEF Build
    <3>4. late' = IF Ids = {} THEN late ELSE {}
      BY <1>17, <3>1 DEF Build
    <3>5. at = "build"
      BY <1>17 DEF Build
    <3>6. QED
      BY <3>1, <3>2, <3>3, <3>4, <3>5
  <2>2. CASE ~(loggedOn \/ saw \/ early)
    BY <1>17, <2>2 DEF Build
  <2>3. QED
    BY <2>1, <2>2
<1>10. CASE SendLot
  BY <1>10 DEF SendLot
<1>11. CASE ServerAnnounce \/ InitDone \/ Confirm
  BY <1>11 DEF ServerAnnounce, InitDone, Confirm, BuildBatch
<1>12. CASE UserLoggedOn \/ SendBatch
  BY <1>12 DEF UserLoggedOn, SendBatch, BuildBatch
<1>13. CASE Refuse
  <2>1. PICK id \in told :
          /\ told' = told \ {id}
          /\ devices' = Without(id)
    BY <1>13 DEF Refuse
  <2>2. Ids' = Ids \ {id}
    BY <2>1, WithoutIsList
  <2>3. QED
    BY <1>13, <2>1, <2>2 DEF Refuse
<1>14. CASE Ask \/ IoRequest
  BY <1>14 DEF Ask, IoRequest
<1>15. CASE UNCHANGED vars
  BY <1>15 DEF vars
<1>16. QED
  BY <1>1, <1>2, <1>3, <1>4, <1>5, <1>6, <1>7, <1>8, <1>9, <1>10, <1>11, <1>12,
     <1>13, <1>14, <1>15, <1>17 DEF Next, ScanStep, ChannelStep

\* After the login (RDP 5.1: the handshake) the server knows every device once no
\* scan is under way, and never one that is gone, outside the gaps the property
\* names: for any volumes, any number of plugs, handshakes and refusals, and
\* whichever kind of server answers each handshake.
THEOREM Agrees == Spec => []ServerAgrees
<1>1. IInv => ServerAgrees
  BY DEF IInv, TellsTruth, TellsAll, ServerAgrees, InHand, Due
<1>2. IInv /\ [Next]_vars => IInv'
  BY TypeStep, TruthStep, AllStep DEF IInv
<1>3. QED
  BY InitInv, <1>1, <1>2, PTL DEF Spec
-----------------------------------------------------------------------------
(* What is on the list.                                                    *)

\* The device a scan has taken off its copy of the ids and not decided on.
Held == IF at = "hold" THEN {hand.id} ELSE {}

\* The last scan, under way or over, was not given up.
Scanned == at # "idle" \/ (chan # "first" /\ ~failed)

\* What the scan holds in its hand is a device of the list, or was refused.
HandIsKnown ==
    /\ at = "idle" => keys = {} /\ toAdd = {}
    /\ at = "hold" => hand.path \in Volumes
    /\ at = "hold" /\ hand.id \in Ids => devices[hand.id] = hand.path
    /\ at = "hold" /\ hand.id \notin Ids => hand.path \in refused

\* What was read is what is mounted, unless something changed since.
ReadIsMounted ==
    /\ watching => chan # "first"
    /\ Scanned \/ chan # "first" => event \/ missed \/ found = mounted

\* A plain volume has one device at most, and none that the scan has looked at
\* if the scan means to add one; the home directory has its own.
OncePerVolume ==
    /\ \A v \in Plain : \A i, j \in Copies(v) : i = j
    /\ \A v \in Plain \cap toAdd : Copies(v) \subseteq keys \cup Held
    /\ Home \notin refused => Copies(Home) = {1}

\* A plain volume that was read and is not to be added has its device; a device
\* that was looked at has a volume.
AllDecided ==
    Scanned =>
        /\ \A v \in (Plain \cap found) \ (toAdd \cup refused) : Copies(v) # {}
        /\ \A id \in Ids \ (Copies(Home) \cup keys \cup Held) :
              \E f \in found : Matches(devices[id], f)

ScanInv == HandIsKnown /\ ReadIsMounted /\ OncePerVolume /\ AllDecided

\* It holds to begin with.
LEMMA InitScan == Init => ScanInv
<1> SUFFICES ASSUME Init
             PROVE  ScanInv
  OBVIOUS
<1> USE DrivesAssumption DEF DrivesAssumption, Init, Ids, Copies, Held, Scanned
<1>1. HandIsKnown /\ ReadIsMounted
  BY DEF HandIsKnown, ReadIsMounted
<1>2. OncePerVolume
  <2>1. \A v \in Plain : Copies(v) = {}
    BY DEF Plain
  <2>2. Copies(Home) = {1}
    OBVIOUS
  <2>3. QED
    BY <2>1, <2>2 DEF OncePerVolume
<1>3. AllDecided
  BY DEF AllDecided
<1>4. QED
  BY <1>1, <1>2, <1>3 DEF ScanInv

\* What a scan holds in its hand stays known.
LEMMA HandStep == TypeOK /\ ScanInv /\ [Next]_vars => HandIsKnown'
<1> SUFFICES ASSUME TypeOK, ScanInv, [Next]_vars
             PROVE  HandIsKnown'
  OBVIOUS
<1> USE DEF TypeOK, ScanInv, HandIsKnown, Ids
<1> USE DEF volumeVars, listVars, scanVars, serverVars, historyVars
<1>1. CASE VolumeStep \/ Watch
  BY <1>1 DEF VolumeStep, Mount, Unmount, Changed, Watch
<1>2. CASE ReadVolumes
  BY <1>2 DEF ReadVolumes
<1>3. CASE TellFails \/ RegisterFails \/ SendFails \/ Finish
  BY <1>3 DEF TellFails, RegisterFails, SendFails, Finish, Over
<1>4. CASE Look
  <2>1. PICK id \in keys :
          IF id \in Ids /\ devices[id] # Home
          THEN hand' = [id |-> id, path |-> devices[id]] /\ at' = "hold"
          ELSE UNCHANGED <<hand, at>>
    BY <1>4 DEF Look
  <2>2. at = "look" /\ devices' = devices
    BY <1>4 DEF Look
  <2>3. CASE id \in Ids /\ devices[id] # Home
    BY <2>1, <2>2, <2>3
  <2>4. CASE ~(id \in Ids /\ devices[id] # Home)
    BY <2>1, <2>2, <2>4
  <2>5. QED
    BY <2>3, <2>4
<1>5. CASE Known \/ Lost \/ Unregister \/ TellRemoved \/ TellNobody
  BY <1>5 DEF Known, Lost, Unregister, TellRemoved, TellNobody
<1>6. CASE Register \/ Try \/ Build \/ SendLot
  BY <1>6 DEF Register, Try, Build, SendLot
<1>7. CASE ServerAnnounce \/ InitDone \/ Confirm \/ UserLoggedOn \/ SendBatch
  BY <1>7 DEF ServerAnnounce, InitDone, Confirm, UserLoggedOn, SendBatch, BuildBatch
<1>8. CASE Refuse
  <2>1. PICK id \in told :
          /\ devices' = Without(id)
          /\ refused' = refused \cup {devices[i] : i \in Ids \cap {id}}
    BY <1>8 DEF Refuse
  <2>2. UNCHANGED <<at, keys, toAdd, hand>>
    BY <1>8 DEF Refuse
  <2>3. Ids' = Ids \ {id} /\ \A i \in Ids' : devices'[i] = devices[i]
    BY <2>1, WithoutIsList DEF Without
  <2>4. CASE at = "hold" /\ hand.id \in Ids /\ hand.id = id
    BY <2>1, <2>2, <2>3, <2>4
  <2>5. CASE ~(at = "hold" /\ hand.id \in Ids /\ hand.id = id)
    BY <2>1, <2>2, <2>3, <2>5
  <2>6. QED
    BY <2>4, <2>5
<1>9. CASE Ask \/ IoRequest
  BY <1>9 DEF Ask, IoRequest
<1>10. CASE UNCHANGED vars
  BY <1>10 DEF vars
<1>11. QED
  BY <1>1, <1>2, <1>3, <1>4, <1>5, <1>6, <1>7, <1>8, <1>9, <1>10
     DEF Next, ScanStep, ChannelStep

\* A change of what is mounted leaves an event, or is one that was missed.
LEMMA ReadStep == TypeOK /\ ScanInv /\ [Next]_vars => ReadIsMounted'
<1> SUFFICES ASSUME TypeOK, ScanInv, [Next]_vars
             PROVE  ReadIsMounted'
  OBVIOUS
<1> USE DEF TypeOK, ScanInv, ReadIsMounted, Scanned
<1> USE DEF volumeVars, listVars, scanVars, serverVars, historyVars
<1>1. CASE VolumeStep
  <2>1. /\ event' = watching /\ missed' = (missed \/ ~watching)
        /\ UNCHANGED <<watching, chan>>
    BY <1>1 DEF VolumeStep, Mount, Unmount, Changed, chanVars
  <2>2. event' \/ missed'
    BY <2>1
  <2>3. QED
    BY <2>1, <2>2
<1>2. CASE Watch \/ ReadVolumes
  BY <1>2 DEF Watch, ReadVolumes, chanVars
<1>3. CASE TellFails \/ RegisterFails \/ SendFails \/ Finish
  BY <1>3 DEF TellFails, RegisterFails, SendFails, Finish, Over
<1>4. CASE Look \/ Known \/ Lost \/ Unregister \/ TellRemoved \/ TellNobody
  BY <1>4 DEF Look, Known, Lost, Unregister, TellRemoved, TellNobody,
                 chanVars
<1>5. CASE Register \/ Try \/ Build \/ SendLot
  BY <1>5 DEF Register, Try, Build, SendLot, chanVars
<1>6. CASE ServerAnnounce \/ InitDone \/ Confirm \/ UserLoggedOn \/ SendBatch
  BY <1>6 DEF ServerAnnounce, InitDone, Confirm, UserLoggedOn, SendBatch, BuildBatch
<1>7. CASE Refuse \/ Ask \/ IoRequest
  BY <1>7 DEF Refuse, Ask, IoRequest, chanVars
<1>8. CASE UNCHANGED vars
  BY <1>8 DEF vars, chanVars
<1>9. QED
  BY <1>1, <1>2, <1>3, <1>4, <1>5, <1>6, <1>7, <1>8 DEF Next, ScanStep, ChannelStep

\* A volume whose name does not begin another's, nor the other way round, is
\* taken for no other.
LEMMA PlainMatches ==
    ASSUME NEW path \in Volumes, NEW f \in Volumes, Matches(path, f),
           path \in Plain \/ f \in Plain
    PROVE  f = path
  BY DEF Matches, Plain

\* A device leaves the list: of what is plain there is less, of the home
\* directory as much, unless it was its device.
LEMMA FewerCopies ==
    ASSUME TypeOK, NEW id, devices' = Without(id)
    PROVE  /\ Ids' = Ids \ {id}
           /\ \A i \in Ids' : devices'[i] = devices[i]
           /\ \A v : Copies(v)' = Copies(v) \ {id}
<1>1. Ids' = Ids \ {id} /\ \A i \in Ids' : devices'[i] = devices[i]
  BY WithoutIsList DEF Without, Ids
<1>2. QED
  BY <1>1 DEF Copies

\* No plain volume gets a second device, and the home directory keeps its own.
LEMMA OnceStep == TypeOK /\ ScanInv /\ [Next]_vars => OncePerVolume'
<1> SUFFICES ASSUME TypeOK, ScanInv, [Next]_vars
             PROVE  OncePerVolume'
  OBVIOUS
<1> USE DEF ScanInv, OncePerVolume
<1>a. ASSUME UNCHANGED <<devices, keys, toAdd, hand, at, refused>>
      PROVE  OncePerVolume'
  BY <1>a DEF Copies, Ids, Held
<1>1. CASE VolumeStep \/ Watch
  BY <1>1, <1>a DEF VolumeStep, Mount, Unmount, Changed, Watch, listVars, scanVars,
                    historyVars
<1>2. CASE ReadVolumes
  <2>1. devices' = devices /\ keys' = Ids /\ refused' = refused \cap {Home}
    BY <1>2 DEF ReadVolumes, listVars
  <2>2. \A v : Copies(v)' = Copies(v) /\ Copies(v) \subseteq Ids
    BY <2>1 DEF Copies, Ids
  <2>3. QED
    BY <2>1, <2>2
<1>3. CASE TellFails \/ RegisterFails \/ SendFails \/ Finish
  <2>1. toAdd' = {} /\ UNCHANGED <<devices, refused>>
    BY <1>3 DEF TellFails, RegisterFails, SendFails, Finish, Over, listVars
  <2>2. QED
    BY <2>1 DEF Copies, Ids
<1>4. CASE Look
  <2>1. PICK id \in keys :
          /\ keys' = keys \ {id}
          /\ IF id \in Ids /\ devices[id] # Home
             THEN hand' = [id |-> id, path |-> devices[id]] /\ at' = "hold"
             ELSE UNCHANGED <<hand, at>>
    BY <1>4 DEF Look
  <2>2. at = "look" /\ UNCHANGED <<devices, toAdd, refused>>
    BY <1>4 DEF Look, listVars, historyVars
  <2>3. \A v : Copies(v)' = Copies(v)
    BY <2>2 DEF Copies, Ids
  <2>4. \A v \in Plain : id \in Copies(v) => Held' = {id}
    BY <2>1, DrivesAssumption DEF Copies, Plain, Held, DrivesAssumption
  <2>5. Held = {}
    BY <2>2 DEF Held
  <2>6. QED
    BY <2>1, <2>2, <2>3, <2>4, <2>5
<1>5. CASE Known
  <2>1. PICK f \in found : Matches(hand.path, f) /\ toAdd' = toAdd \ {f}
    BY <1>5 DEF Known
  <2>2. /\ at = "hold" /\ at' = "look"
        /\ UNCHANGED <<devices, keys, refused>>
    BY <1>5 DEF Known, listVars, historyVars
  <2>3. \A v : Copies(v)' = Copies(v)
    BY <2>2 DEF Copies, Ids
  <2>4. ASSUME NEW v \in Plain \cap toAdd', hand.id \in Copies(v)
        PROVE  FALSE
    <3>1. v = hand.path /\ v \in Volumes
      BY <2>2, <2>4 DEF HandIsKnown, Copies, Plain
    <3>2. v = f
      BY <2>1, <2>4, <3>1, PlainMatches DEF TypeOK
    <3>3. QED
      BY <2>1, <2>4, <3>2
  <2>5. Held = {hand.id} /\ toAdd' \subseteq toAdd
    BY <2>1, <2>2 DEF Held
  <2>6. QED
    BY <2>2, <2>3, <2>4, <2>5
<1>6. CASE Lost
  <2>1. /\ at = "hold" /\ hand.id \notin Ids
        /\ UNCHANGED <<devices, keys, toAdd, refused>>
    BY <1>6 DEF Lost, listVars, historyVars
  <2>2. \A v : Copies(v)' = Copies(v) /\ hand.id \notin Copies(v)
    BY <2>1 DEF Copies, Ids
  <2>3. Held = {hand.id}
    BY <2>1 DEF Held
  <2>4. QED
    BY <2>1, <2>2, <2>3
<1>7. CASE Unregister
  <2>1. /\ at = "hold" /\ devices' = Without(hand.id)
        /\ UNCHANGED <<keys, toAdd, refused>>
    BY <1>7 DEF Unregister
  <2>2. \A v : Copies(v)' = Copies(v) \ {hand.id}
    BY <2>1, FewerCopies
  <2>3. hand.id \notin Copies(Home)
    BY <2>1, DrivesAssumption DEF HandIsKnown, Copies, DrivesAssumption
  <2>4. Held = {hand.id}
    BY <2>1 DEF Held
  <2>5. QED
    BY <2>1, <2>2, <2>3, <2>4
<1>8. CASE TellRemoved \/ TellNobody \/ Try \/ Build \/ SendLot
  <2>1. UNCHANGED <<devices, keys, toAdd, refused>> /\ Held = {}
    BY <1>8 DEF TellRemoved, TellNobody, Try, Build, SendLot, Held, listVars,
                historyVars
  <2>2. QED
    BY <2>1 DEF Copies, Ids
<1>9. CASE Register
  <2>1. PICK v \in toAdd :
          /\ devices' = [i \in Ids \cup {nextId} |-> IF i = nextId THEN v ELSE devices[i]]
          /\ toAdd' = toAdd \ {v}
    BY <1>9 DEF Register
  <2>2. at = "look" /\ keys = {} /\ UNCHANGED <<keys, refused>>
    BY <1>9 DEF Register, historyVars
  <2>3. v \in Volumes /\ v # Home /\ nextId \notin Ids
    BY DrivesAssumption DEF TypeOK, DrivesAssumption
  <2>4. \A w : Copies(w)' = Copies(w) \cup (IF w = v THEN {nextId} ELSE {})
    BY <2>1, <2>3 DEF Copies, Ids
  <2>5. \A w \in Plain \cap toAdd : Copies(w) = {}
    BY <2>2 DEF Held
  <2>6. QED
    BY <2>1, <2>2, <2>3, <2>4, <2>5
<1>10. CASE ServerAnnounce \/ InitDone \/ Confirm \/ UserLoggedOn \/ SendBatch
  BY <1>10, <1>a DEF ServerAnnounce, InitDone, Confirm, UserLoggedOn, SendBatch,
                     BuildBatch, listVars, scanVars, historyVars
<1>11. CASE Refuse
  <2>1. PICK id \in told :
          /\ devices' = Without(id)
          /\ refused' = refused \cup {devices[i] : i \in Ids \cap {id}}
    BY <1>11 DEF Refuse
  <2>2. UNCHANGED <<at, keys, toAdd, hand>>
    BY <1>11 DEF Refuse, scanVars
  <2>3. \A v : Copies(v)' = Copies(v) \ {id}
    BY <2>1, FewerCopies
  <2>4. id \in Copies(Home) => Home \in refused'
    BY <2>1 DEF Copies
  <2>5. Held' = Held
    BY <2>2 DEF Held
  <2>6. QED
    BY <2>1, <2>2, <2>3, <2>4, <2>5
<1>12. CASE Ask \/ IoRequest
  BY <1>12, <1>a DEF Ask, IoRequest, listVars, scanVars, historyVars
<1>13. CASE UNCHANGED vars
  BY <1>13, <1>a DEF vars, listVars, scanVars, historyVars
<1>14. QED
  BY <1>1, <1>2, <1>3, <1>4, <1>5, <1>6, <1>7, <1>8, <1>9, <1>10, <1>11, <1>12,
     <1>13 DEF Next, ScanStep, ChannelStep

\* A scan decides on every volume and every device.
LEMMA DecidedStep == TypeOK /\ ScanInv /\ [Next]_vars => AllDecided'
<1> SUFFICES ASSUME TypeOK, ScanInv, [Next]_vars
             PROVE  AllDecided'
  OBVIOUS
<1> USE DEF ScanInv, AllDecided, Scanned
<1>a. ASSUME UNCHANGED <<devices, found, keys, toAdd, hand, at, refused>>,
             Scanned' => Scanned
      PROVE  AllDecided'
  BY <1>a DEF Copies, Ids, Held
<1>1. CASE VolumeStep \/ Watch
  BY <1>1, <1>a DEF VolumeStep, Mount, Unmount, Changed, Watch, listVars, scanVars,
                    historyVars, chanVars
<1>2. CASE ReadVolumes
  <2>1. devices' = devices /\ keys' = Ids /\ found' = mounted /\ toAdd' = mounted
    BY <1>2 DEF ReadVolumes, listVars
  <2>2. Ids' = Ids
    BY <2>1 DEF Ids
  <2>3. QED
    BY <2>1, <2>2
<1>3. CASE TellFails \/ RegisterFails \/ SendFails
  BY <1>3 DEF TellFails, RegisterFails, SendFails, Over
<1>4. CASE Finish
  <2>1. /\ at = "look" /\ keys = {} /\ toAdd = {} /\ keys' = {} /\ toAdd' = {}
        /\ UNCHANGED <<devices, found, refused>>
    BY <1>4 DEF Finish, Over, listVars
  <2>2. Held = {}
    BY <2>1 DEF Held
  <2>3. QED
    BY <2>1, <2>2 DEF Copies, Ids
<1>5. CASE Look
  <2>1. PICK id \in keys :
          /\ keys' = keys \ {id}
          /\ IF id \in Ids /\ devices[id] # Home
             THEN hand' = [id |-> id, path |-> devices[id]] /\ at' = "hold"
             ELSE UNCHANGED <<hand, at>>
    BY <1>5 DEF Look
  <2>2. at = "look" /\ UNCHANGED <<devices, found, toAdd, refused>>
    BY <1>5 DEF Look, listVars, historyVars
  <2>3. Ids' = Ids /\ \A v : Copies(v)' = Copies(v)
    BY <2>2 DEF Copies, Ids
  <2>4. id \in Ids \ Copies(Home) => Held' = {id}
    BY <2>1 DEF Copies, Held
  <2>5. Held = {}
    BY <2>2 DEF Held
  <2>6. QED
    BY <2>1, <2>2, <2>3, <2>4, <2>5
<1>6. CASE Known
  <2>1. PICK f \in found : Matches(hand.path, f) /\ toAdd' = toAdd \ {f}
    BY <1>6 DEF Known
  <2>2. /\ at = "hold" /\ at' = "look"
        /\ UNCHANGED <<devices, keys, found, refused>>
    BY <1>6 DEF Known, listVars, historyVars
  <2>3. Ids' = Ids /\ \A v : Copies(v)' = Copies(v)
    BY <2>2 DEF Copies, Ids
  <2>4. Held = {hand.id}
    BY <2>2 DEF Held
  <2>5. f \in Plain /\ f \notin refused => Copies(f) # {}
    <3>1. SUFFICES ASSUME f \in Plain, f \notin refused
                   PROVE  Copies(f) # {}
      OBVIOUS
    <3>2. f = hand.path
      BY <2>1, <2>2, <3>1, PlainMatches DEF HandIsKnown, TypeOK
    <3>3. hand.id \in Ids /\ devices[hand.id] = f
      BY <2>2, <3>1, <3>2 DEF HandIsKnown
    <3>4. QED
      BY <3>3 DEF Copies
  <2>6. hand.id \in Ids => Matches(devices[hand.id], f)
    BY <2>1, <2>2 DEF HandIsKnown
  <2>7. QED
    BY <2>1, <2>2, <2>3, <2>4, <2>5, <2>6
<1>7. CASE Lost
  <2>1. /\ at = "hold" /\ hand.id \notin Ids
        /\ UNCHANGED <<devices, found, keys, toAdd, refused>>
    BY <1>7 DEF Lost, listVars, historyVars
  <2>2. Ids' = Ids /\ \A v : Copies(v)' = Copies(v)
    BY <2>1 DEF Copies, Ids
  <2>3. Held = {hand.id}
    BY <2>1 DEF Held
  <2>4. QED
    BY <2>1, <2>2, <2>3
<1>8. CASE Unregister
  <2>1. /\ at = "hold" /\ devices' = Without(hand.id)
        /\ \A f \in found : ~Matches(hand.path, f)
        /\ UNCHANGED <<keys, toAdd, found, refused>>
    BY <1>8 DEF Unregister
  <2>2. /\ Ids' = Ids \ {hand.id}
        /\ \A i \in Ids' : devices'[i] = devices[i]
        /\ \A v : Copies(v)' = Copies(v) \ {hand.id}
    BY <2>1, FewerCopies
  <2>3. \A f \in found : hand.id \notin Copies(f)
    BY <2>1 DEF HandIsKnown, Copies, Matches
  <2>4. Held = {hand.id}
    BY <2>1 DEF Held
  <2>5. QED
    BY <2>1, <2>2, <2>3, <2>4
<1>9. CASE TellRemoved \/ TellNobody \/ Try \/ Build \/ SendLot
  <2>1. UNCHANGED <<devices, keys, found, toAdd, refused>> /\ Held = {} /\ at # "idle"
    BY <1>9 DEF TellRemoved, TellNobody, Try, Build, SendLot, Held, listVars,
                historyVars
  <2>2. QED
    BY <2>1 DEF Copies, Ids
<1>10. CASE Register
  <2>1. PICK v \in toAdd :
          /\ devices' = [i \in Ids \cup {nextId} |-> IF i = nextId THEN v ELSE devices[i]]
          /\ toAdd' = toAdd \ {v}
    BY <1>10 DEF Register
  <2>2. at = "look" /\ UNCHANGED <<keys, found, refused>>
    BY <1>10 DEF Register, historyVars
  <2>3. v \in found /\ v # Home /\ nextId \notin Ids
    BY DrivesAssumption DEF TypeOK, DrivesAssumption
  <2>4. /\ Ids' = Ids \cup {nextId} /\ devices'[nextId] = v
        /\ \A i \in Ids : devices'[i] = devices[i]
        /\ \A w : Copies(w)' = Copies(w) \cup (IF w = v THEN {nextId} ELSE {})
    BY <2>1, <2>3 DEF Copies, Ids
  <2>5. Matches(v, v) /\ Held = {}
    BY <2>2 DEF Matches, Held
  <2>6. QED
    BY <2>1, <2>2, <2>3, <2>4, <2>5
<1>11. CASE ServerAnnounce \/ InitDone \/ Confirm \/ UserLoggedOn \/ SendBatch
  BY <1>11, <1>a DEF ServerAnnounce, InitDone, Confirm, UserLoggedOn, SendBatch,
                     BuildBatch, listVars, scanVars, historyVars
<1>12. CASE Refuse
  <2>1. PICK id \in told :
          /\ devices' = Without(id)
          /\ refused' = refused \cup {devices[i] : i \in Ids \cap {id}}
    BY <1>12 DEF Refuse
  <2>2. UNCHANGED <<at, keys, found, toAdd, hand, chan, failed>>
    BY <1>12 DEF Refuse, scanVars, chanVars
  <2>3. /\ Ids' = Ids \ {id}
        /\ \A i \in Ids' : devices'[i] = devices[i]
        /\ \A v : Copies(v)' = Copies(v) \ {id}
    BY <2>1, FewerCopies
  <2>4. \A v : id \in Copies(v) => v \in refused'
    BY <2>1 DEF Copies
  <2>5. Held' = Held
    BY <2>2 DEF Held
  <2>6. QED
    BY <2>1, <2>2, <2>3, <2>4, <2>5
<1>13. CASE Ask \/ IoRequest
  BY <1>13, <1>a DEF Ask, IoRequest, listVars, scanVars, historyVars
<1>14. CASE UNCHANGED vars
  BY <1>14, <1>a DEF vars, listVars, scanVars, historyVars, chanVars
<1>15. QED
  BY <1>1, <1>2, <1>3, <1>4, <1>5, <1>6, <1>7, <1>8, <1>9, <1>10, <1>11, <1>12,
     <1>13, <1>14 DEF Next, ScanStep, ChannelStep

\* When every change has been looked at the list of devices is what is mounted:
\* for any volumes, any number of plugs, refusals and handshakes.
THEOREM Mounted == Spec => []ListIsMounted
<1>1. TypeOK /\ ScanInv => ListIsMounted
  <2> SUFFICES ASSUME TypeOK, ScanInv,
                      at = "idle", watching, ~event, ~missed, ~failed
               PROVE  /\ \A v \in Plain :
                            /\ Cardinality(Copies(v)) <= IF v \in mounted THEN 1 ELSE 0
                            /\ v \in mounted \ refused => Copies(v) # {}
                      /\ \A id \in Ids \ Copies(Home) :
                            \E f \in mounted : Matches(devices[id], f)
                      /\ Home \notin refused => Copies(Home) = {1}
    BY DEF ListIsMounted
  <2>1. Scanned /\ found = mounted /\ keys = {} /\ toAdd = {} /\ Held = {}
    BY DEF ScanInv, HandIsKnown, ReadIsMounted, Scanned, Held
  <2>2. \A id \in Ids \ Copies(Home) : \E f \in mounted : Matches(devices[id], f)
    BY <2>1 DEF ScanInv, AllDecided
  <2>3. ASSUME NEW v \in Plain
        PROVE  /\ Cardinality(Copies(v)) <= IF v \in mounted THEN 1 ELSE 0
               /\ v \in mounted \ refused => Copies(v) # {}
    <3>1. CASE Copies(v) = {}
      BY <2>1, <3>1, FS_EmptySet DEF ScanInv, AllDecided
    <3>2. CASE Copies(v) # {}
      <4>1. PICK id \in Copies(v) : TRUE
        BY <3>2
      <4>2. Copies(v) = {id}
        BY <4>1 DEF ScanInv, OncePerVolume
      <4>3. Cardinality(Copies(v)) = 1
        BY <4>2, FS_Singleton
      <4>4. v \in Volumes /\ id \in Ids \ Copies(Home) /\ devices[id] = v
        BY <4>1, DrivesAssumption DEF Copies, Plain, DrivesAssumption
      <4>5. PICK f \in mounted : Matches(v, f)
        BY <2>2, <4>4
      <4>6. v \in mounted
        BY <4>4, <4>5, PlainMatches DEF TypeOK
      <4>7. QED
        BY <3>2, <4>3, <4>6
    <3>3. QED
      BY <3>1, <3>2
  <2>4. Home \notin refused => Copies(Home) = {1}
    BY DEF ScanInv, OncePerVolume
  <2>5. QED
    BY <2>2, <2>3, <2>4
<1>2. TypeOK /\ ScanInv /\ [Next]_vars => (TypeOK /\ ScanInv)'
  BY TypeStep, HandStep, ReadStep, OnceStep, DecidedStep DEF ScanInv
<1>3. QED
  BY InitType, InitScan, <1>1, <1>2, PTL DEF Spec
=============================================================================
