------------------------------- MODULE Drives -------------------------------
(***************************************************************************)
(* Drive redirection of the rdpdr channel on macOS, as qf-client uses it:  *)
(* the home directory and whatever is mounted under /Volumes. The watcher  *)
(* (the channel's thread once, then the queue FSEvents calls back on)      *)
(* scans /Volumes and changes the list of devices; the channel's thread    *)
(* goes through the handshake with the server and announces that list. The *)
(* list has a lock, nothing else has.                                      *)
(***************************************************************************)
EXTENDS Naturals, FiniteSets

CONSTANTS
    Volumes,      \* what can be mounted under /Volumes
    Prefixes,     \* pairs of volumes, the name of the first beginning that of the second
    Home,         \* the path of the home directory
    None,         \* no path
    MaxChanges,   \* bound of the model: mounts and unmounts
    MaxHellos,    \* bound of the model: handshakes the server begins
    MaxRefusals   \* bound of the model: devices the server refuses

ASSUME DrivesAssumption ==
    /\ Prefixes \subseteq Volumes \X Volumes
    /\ \A p \in Prefixes : p[1] # p[2]
    /\ Home \notin Volumes /\ None \notin Volumes \cup {Home}
    /\ {MaxChanges, MaxHellos, MaxRefusals} \subseteq Nat

VARIABLES
    mounted,   \* the volumes under /Volumes
    watching,  \* the stream of file-system events has been started
    event,     \* a change of /Volumes has not been looked at
    devices,   \* devman->devices: the path for every id in use
    nextId,    \* devman->id_sequence
    at,        \* where handle_hotplug is
    keys,      \* its copy of the ids, those not looked at yet
    found,     \* the volumes it has read
    toAdd,     \* those it has found no device for
    hand,      \* the device it is at
    saw,       \* userLoggedOn as it has read it, when it is about to build a list
    lot,       \* the list it has built and not sent yet
    chan,      \* where the channel's thread is
    ready,     \* state = RDPDR_CHANNEL_STATE_READY
    loggedOn,  \* userLoggedOn
    early,     \* clientVersionMinor is that of RDP 5.1: no login is waited for
    removes,   \* the server has RDPDR_DEVICE_REMOVE_PDUS
    batch,     \* the list the channel's thread has built and not sent yet
    told,      \* the ids the server knows
    asked,     \* the id an I/O request on its way is for, or 0
    changes, hellos, refusals,  \* counted for the bounds
    missed,    \* history: a change after the last scan and before watching
    failed,    \* history: the last scan was given up
    refused,   \* history: what the server refused after the last scan began
    late,      \* history: ids the channel's thread's list missed by a moment
    ghosts,    \* history: ids removed while on a list not sent
    untold     \* history: ids removed for a server that takes no such notice

volumeVars == <<mounted, watching, event, changes>>
listVars == <<devices, nextId>>
scanVars == <<at, keys, found, toAdd, hand, saw, lot>>
chanVars == <<chan, ready, loggedOn, early, removes, batch, hellos>>
serverVars == <<told, asked, refusals>>
historyVars == <<missed, failed, refused, late, ghosts, untold>>
vars == <<volumeVars, listVars, scanVars, chanVars, serverVars, historyVars>>

Ids == DOMAIN devices
Nothing == [id |-> 0, path |-> None]
Without(id) == [i \in Ids \ {id} |-> devices[i]]

\* strstr(path, dev_array[i].path): true of any volume the path begins with.
Matches(path, f) == f = path \/ <<f, path>> \in Prefixes

TypeOK ==
    /\ mounted \subseteq Volumes /\ found \subseteq Volumes /\ toAdd \subseteq found
    /\ {watching, event, ready, loggedOn, missed, failed} \subseteq BOOLEAN
    /\ {saw, early, removes} \subseteq BOOLEAN
    /\ nextId \in Nat \ {0, 1}
    /\ devices \in [Ids -> Volumes \cup {Home}] /\ Ids \subseteq 1..(nextId - 1)
    /\ \A s \in {keys, lot, batch, told, late, ghosts, untold} :
          s \subseteq 1..(nextId - 1)
    /\ at \in {"idle", "look", "hold", "tell", "try", "build", "send"}
    /\ hand \in [id : 0..(nextId - 1), path : Volumes \cup {None}]
    /\ chan \in {"first", "init", "confirm", "list", "serve", "dead"}
    /\ asked \in 0..(nextId - 1)
    /\ refused \subseteq Volumes \cup {Home}
    /\ changes \in 0..MaxChanges /\ hellos \in 0..MaxHellos
    /\ refusals \in 0..MaxRefusals

\* rdpdr_add_devices has registered the home directory and goes on with "*".
Init ==
    /\ mounted \in SUBSET Volumes /\ watching = FALSE /\ event = FALSE
    /\ devices = [i \in {1} |-> Home] /\ nextId = 2
    /\ at = "idle" /\ keys = {} /\ found = {} /\ toAdd = {} /\ hand = Nothing
    /\ saw = FALSE /\ lot = {}
    /\ chan = "first" /\ ready = FALSE /\ loggedOn = FALSE /\ batch = {}
    /\ early = FALSE /\ removes = FALSE
    /\ told = {} /\ asked = 0
    /\ changes = 0 /\ hellos = 0 /\ refusals = 0
    /\ missed = FALSE /\ failed = FALSE /\ refused = {}
    /\ late = {} /\ ghosts = {} /\ untold = {}
-----------------------------------------------------------------------------
(* The volumes.                                                            *)

Changed ==
    /\ changes < MaxChanges /\ changes' = changes + 1
    /\ event' = watching
    /\ missed' = (missed \/ ~watching)
    /\ UNCHANGED <<watching, listVars, scanVars, chanVars, serverVars>>
    /\ UNCHANGED <<failed, refused, late, ghosts, untold>>

Mount == \E v \in Volumes \ mounted : mounted' = mounted \cup {v} /\ Changed
Unmount == \E v \in mounted : mounted' = mounted \ {v} /\ Changed

\* The hot-plug thread: changes count from here on (SinceNow).
Watch ==
    /\ chan # "first" /\ ~watching
    /\ watching' = TRUE
    /\ UNCHANGED <<mounted, event, changes, listVars, scanVars, chanVars>>
    /\ UNCHANGED <<serverVars, historyVars>>
-----------------------------------------------------------------------------
(* handle_hotplug, on one thread at a time.                                *)

\* It reads /Volumes and copies the ids. The order readdir gives is not known:
\* found is a set.
ReadVolumes ==
    /\ at = "idle" /\ (chan = "first" \/ event)
    /\ at' = "look" /\ event' = FALSE
    /\ found' = mounted /\ toAdd' = mounted /\ keys' = Ids
    /\ missed' = FALSE /\ failed' = FALSE /\ refused' = refused \cap {Home}
    /\ UNCHANGED <<mounted, watching, changes, listVars, hand, saw, lot, chanVars>>
    /\ UNCHANGED <<serverVars, late, ghosts, untold>>

\* The scan is over. The first one is made by the channel's thread, which then
\* goes on.
Over(badly) ==
    /\ at' = "idle" /\ hand' = Nothing /\ keys' = {} /\ toAdd' = {} /\ lot' = {}
    /\ failed' = badly
    /\ chan' = IF chan = "first" THEN "serve" ELSE chan
    /\ UNCHANGED <<volumeVars, found, saw, ready, loggedOn, early, removes, batch>>
    /\ UNCHANGED <<hellos, missed, refused, asked, refusals>>

\* The next id: a device that is gone, or is not of the hot plug, is skipped.
Look ==
    /\ at = "look"
    /\ \E id \in keys :
          /\ \A other \in keys : id <= other
          /\ keys' = keys \ {id}
          /\ IF id \in Ids /\ devices[id] # Home
             THEN hand' = [id |-> id, path |-> devices[id]] /\ at' = "hold"
             ELSE UNCHANGED <<hand, at>>
    /\ UNCHANGED <<volumeVars, listVars, found, toAdd, saw, lot, chanVars>>
    /\ UNCHANGED <<serverVars, historyVars>>

\* Slip: the volume is not taken off those to add.
KnownAgain ==
    /\ at = "hold"
    /\ \E f \in found : Matches(hand.path, f)
    /\ at' = "look" /\ hand' = Nothing
    /\ UNCHANGED <<volumeVars, listVars, keys, found, toAdd, saw, lot, chanVars>>
    /\ UNCHANGED <<serverVars, historyVars>>

Known ==
    /\ at = "hold"
    /\ \E f \in found : Matches(hand.path, f) /\ toAdd' = toAdd \ {f}
    /\ at' = "look" /\ hand' = Nothing
    /\ UNCHANGED <<volumeVars, listVars, keys, found, saw, lot, chanVars>>
    /\ UNCHANGED <<serverVars, historyVars>>

\* The channel's thread may have freed what is looked at: then what is read may
\* also be no path at all, and the device is skipped.
Lost ==
    /\ at = "hold" /\ hand.id \notin Ids
    /\ at' = "look" /\ hand' = Nothing
    /\ UNCHANGED <<volumeVars, listVars, keys, found, toAdd, saw, lot, chanVars>>
    /\ UNCHANGED <<serverVars, historyVars>>

\* Slip: the server is not told.
UnregisterSilently ==
    /\ at = "hold" /\ \A f \in found : ~Matches(hand.path, f)
    /\ at' = "look" /\ hand' = Nothing
    /\ devices' = Without(hand.id)
    /\ ghosts' = ghosts \cup ({hand.id} \cap batch)
    /\ UNCHANGED <<volumeVars, nextId, keys, found, toAdd, saw, lot, chanVars>>
    /\ UNCHANGED <<serverVars, missed, failed, refused, late, untold>>

Unregister ==
    /\ at = "hold" /\ \A f \in found : ~Matches(hand.path, f)
    /\ at' = "tell"
    /\ devices' = Without(hand.id)
    /\ ghosts' = ghosts \cup ({hand.id} \cap batch)
    /\ UNCHANGED <<volumeVars, nextId, keys, found, toAdd, hand, saw, lot, chanVars>>
    /\ UNCHANGED <<serverVars, missed, failed, refused, late, untold>>

\* rdpdr_send_device_list_remove_request. A server that takes no notice of
\* removals is sent nothing, and that is no error.
TellRemoved ==
    /\ at = "tell" /\ removes /\ chan # "init"
    /\ at' = "look" /\ hand' = Nothing
    /\ told' = told \ {hand.id}
    /\ UNCHANGED <<volumeVars, listVars, keys, found, toAdd, saw, lot, chanVars>>
    /\ UNCHANGED <<asked, refusals, historyVars>>

TellNobody ==
    /\ at = "tell" /\ ~removes
    /\ at' = "look" /\ hand' = Nothing
    /\ untold' = untold \cup ({hand.id} \cap told)
    /\ UNCHANGED <<volumeVars, listVars, keys, found, toAdd, saw, lot, chanVars>>
    /\ UNCHANGED <<serverVars, missed, failed, refused, late, ghosts>>

\* rdpdr_send refuses while a handshake begins, and that ends the scan.
TellFails ==
    /\ at = "tell" /\ removes /\ chan = "init"
    /\ Over(TRUE)
    /\ UNCHANGED <<listVars, told, late, ghosts, untold>>

\* Slip: success taken for an error number, the other volumes are left out (what
\* the comment at rdpdr_main.c:639 says upstream does).
RegisterOne ==
    /\ at = "look" /\ keys = {}
    /\ \E v \in toAdd :
          devices' = [i \in Ids \cup {nextId} |-> IF i = nextId THEN v ELSE devices[i]]
    /\ toAdd' = {}
    /\ nextId' = nextId + 1 /\ at' = "try"
    /\ UNCHANGED <<volumeVars, keys, found, hand, saw, lot, chanVars>>
    /\ UNCHANGED <<serverVars, historyVars>>

\* Slip: an id is given twice.
RegisterSameId ==
    /\ at = "look" /\ keys = {}
    /\ \E v \in toAdd :
          /\ devices' = [i \in Ids \cup {nextId} |-> IF i = nextId THEN v ELSE devices[i]]
          /\ toAdd' = toAdd \ {v}
    /\ at' = "try"
    /\ UNCHANGED <<volumeVars, nextId, keys, found, hand, saw, lot, chanVars>>
    /\ UNCHANGED <<serverVars, historyVars>>

Register ==
    /\ at = "look" /\ keys = {}
    /\ \E v \in toAdd :
          /\ devices' = [i \in Ids \cup {nextId} |-> IF i = nextId THEN v ELSE devices[i]]
          /\ toAdd' = toAdd \ {v}
    /\ nextId' = nextId + 1 /\ at' = "try"
    /\ UNCHANGED <<volumeVars, keys, found, hand, saw, lot, chanVars>>
    /\ UNCHANGED <<serverVars, historyVars>>

RegisterFails ==
    /\ at = "look" /\ keys = {} /\ toAdd # {}
    /\ Over(TRUE)
    /\ UNCHANGED <<listVars, told, late, ghosts, untold>>

\* rdpdr_try_send_device_list_announce_request: only if the channel is ready.
\* userLoggedOn is read here and given to the next step.
Try ==
    /\ at = "try"
    /\ at' = IF ready THEN "build" ELSE "look"
    /\ saw' = (ready /\ loggedOn)
    /\ late' = IF chan = "list" THEN late \cup ({nextId - 1} \ batch) ELSE late
    /\ UNCHANGED <<volumeVars, listVars, keys, found, toAdd, hand, lot, chanVars>>
    /\ UNCHANGED <<serverVars, missed, failed, refused, ghosts, untold>>

\* rdpdr_send_device_list_announce_request: what was read of userLoggedOn is
\* written back, and the whole list is built, if it is time.
Build ==
    /\ at = "build"
    /\ loggedOn' = (loggedOn \/ saw) /\ saw' = FALSE
    /\ lot' = IF loggedOn' \/ early THEN Ids ELSE {}
    /\ at' = IF lot' = {} THEN "look" ELSE "send"
    /\ late' = IF lot' = {} THEN late ELSE {}
    /\ UNCHANGED <<volumeVars, listVars, keys, found, toAdd, hand>>
    /\ UNCHANGED <<chan, ready, early, removes, batch, hellos>>
    /\ UNCHANGED <<serverVars, missed, failed, refused, ghosts, untold>>

SendLot ==
    /\ at = "send" /\ chan # "init"
    /\ at' = "look" /\ lot' = {}
    /\ told' = told \cup lot
    /\ UNCHANGED <<volumeVars, listVars, keys, found, toAdd, hand, saw, chanVars>>
    /\ UNCHANGED <<asked, refusals, historyVars>>

SendFails ==
    /\ at = "send" /\ chan = "init"
    /\ Over(TRUE)
    /\ UNCHANGED <<listVars, told, late, ghosts, untold>>

Finish ==
    /\ at = "look" /\ keys = {} /\ toAdd = {}
    /\ Over(FALSE)
    /\ UNCHANGED <<listVars, told, late, ghosts, untold>>
-----------------------------------------------------------------------------
(* The channel's thread: rdpdr_process_receive.                            *)

\* PAKID_CORE_SERVER_ANNOUNCE, also again after the login. The server has
\* forgotten what it was told.
ServerAnnounce ==
    /\ chan = "serve" /\ asked = 0 /\ hellos < MaxHellos
    /\ hellos' = hellos + 1
    /\ chan' = "init" /\ ready' = FALSE /\ loggedOn' = FALSE
    /\ told' = {} /\ late' = {} /\ untold' = {} /\ ghosts' = ghosts \cap lot
    /\ UNCHANGED <<volumeVars, listVars, scanVars, early, removes, batch>>
    /\ UNCHANGED <<asked, refusals, missed, failed, refused>>

InitDone ==
    /\ chan = "init"
    /\ chan' = "confirm"
    /\ UNCHANGED <<volumeVars, listVars, scanVars, ready, loggedOn, early, removes>>
    /\ UNCHANGED <<batch, hellos, serverVars, historyVars>>

\* The channel's thread builds the list under its lock; it sends it in the next
\* step, and the channel is ready only after that.
BuildBatch ==
    /\ chan' = "list" /\ ready' = FALSE
    /\ batch' = Ids /\ late' = {}

\* PAKID_CORE_SERVER_CAPABILITY and PAKID_CORE_CLIENTID_CONFIRM, which say what
\* server it is. Drives are announced here to a server of RDP 5.1, to another
\* after the login.
Confirm ==
    /\ chan = "confirm"
    /\ early' \in BOOLEAN /\ removes' \in BOOLEAN
    /\ \/ (loggedOn \/ early') /\ BuildBatch
       \/ ~(loggedOn \/ early') /\ chan' = "serve" /\ ready' = TRUE
          /\ UNCHANGED <<batch, late>>
    /\ UNCHANGED <<volumeVars, listVars, scanVars, loggedOn, hellos, serverVars>>
    /\ UNCHANGED <<missed, failed, refused, ghosts, untold>>

\* PAKID_CORE_USER_LOGGEDON.
UserLoggedOn ==
    /\ chan = "serve" /\ ready
    /\ loggedOn' = TRUE /\ BuildBatch
    /\ UNCHANGED <<volumeVars, listVars, scanVars, early, removes, hellos, serverVars>>
    /\ UNCHANGED <<missed, failed, refused, ghosts, untold>>

SendBatch ==
    /\ chan = "list"
    /\ chan' = "serve" /\ ready' = TRUE
    /\ batch' = {} /\ told' = told \cup batch
    /\ UNCHANGED <<volumeVars, listVars, scanVars, loggedOn, early, removes, hellos>>
    /\ UNCHANGED <<asked, refusals, historyVars>>

\* PAKID_CORE_DEVICE_REPLY with a status that is not zero.
Refuse ==
    /\ chan = "serve" /\ ready /\ refusals < MaxRefusals
    /\ \E id \in told :
          /\ told' = told \ {id}
          /\ devices' = Without(id)
          /\ refused' = refused \cup {devices[i] : i \in Ids \cap {id}}
          /\ ghosts' = ghosts \cup ({id} \cap lot)
    /\ refusals' = refusals + 1
    /\ UNCHANGED <<volumeVars, nextId, scanVars, chanVars, asked>>
    /\ UNCHANGED <<missed, failed, late, untold>>

\* PAKID_CORE_DEVICE_IOREQUEST, sent by the server and handled by rdpdr_process_irp.
\* A request for a device that is gone ends the thread, and with it the session.
Ask ==
    /\ chan = "serve" /\ ready /\ asked = 0
    /\ \E id \in told : asked' = id
    /\ UNCHANGED <<volumeVars, listVars, scanVars, chanVars, told, refusals>>
    /\ UNCHANGED historyVars

IoRequest ==
    /\ chan = "serve" /\ ready /\ asked # 0
    /\ asked' = 0
    /\ chan' = IF asked \in Ids THEN "serve" ELSE "dead"
    /\ UNCHANGED <<volumeVars, listVars, scanVars, ready, loggedOn, early, removes>>
    /\ UNCHANGED <<batch, hellos, told, refusals, historyVars>>
-----------------------------------------------------------------------------
VolumeStep == Mount \/ Unmount
ScanStep ==
    \/ ReadVolumes \/ Look \/ Known \/ Lost
    \/ Unregister \/ TellRemoved \/ TellNobody \/ TellFails
    \/ Register \/ RegisterFails \/ Try \/ Build \/ SendLot \/ SendFails \/ Finish
ChannelStep ==
    \/ ServerAnnounce \/ InitDone \/ Confirm \/ UserLoggedOn \/ SendBatch
    \/ Refuse \/ Ask \/ IoRequest

\* What follows the end of the channel's thread is not modelled.
Next == chan # "dead" /\ (VolumeStep \/ Watch \/ ScanStep \/ ChannelStep)

Spec == Init /\ [][Next]_vars
-----------------------------------------------------------------------------
(* Properties.                                                             *)

Plain == {v \in Volumes : \A p \in Prefixes : v \notin {p[1], p[2]}}
Copies(v) == {id \in Ids : devices[id] = v}

\* "插拔会实时同步" (mini-qf-client.cc:1424): when every change has been looked at,
\* what is mounted is redirected, once, and nothing else, whatever the server
\* refused and however the handshake met the scans - for volumes whose name does
\* not begin another's. Of the others, each redirected one has one mounted that
\* its name begins with. (Excepted: a change between the first scan and the
\* start of the watcher, and a scan that was given up.)
ListIsMounted ==
    at = "idle" /\ watching /\ ~event /\ ~missed /\ ~failed =>
        /\ \A v \in Plain :
              /\ Cardinality(Copies(v)) <= IF v \in mounted THEN 1 ELSE 0
              /\ v \in mounted \ refused => Copies(v) # {}
        /\ \A id \in Ids \ Copies(Home) :
              \E f \in mounted : Matches(devices[id], f)
        /\ Home \notin refused => Copies(Home) = {1}

\* After the login (RDP 5.1: the handshake) the server knows every device as soon
\* as the scan is over, and at any time only devices that are there: an I/O
\* request for another one ends the session. (Excepted: a device registered
\* between the building and the sending of the channel's thread's list, until
\* the next list; one removed between the building and the sending of a list of
\* the other thread and one removed from a server that takes no notice of it, both
\* until the next handshake; one being removed.)
ServerAgrees ==
    /\ at = "idle" /\ chan = "serve" /\ ready /\ (loggedOn \/ early) =>
          Ids \ late \subseteq told
    /\ told \ (ghosts \cup untold) \subseteq
          Ids \cup (IF at = "tell" THEN {hand.id} ELSE {})
=============================================================================
