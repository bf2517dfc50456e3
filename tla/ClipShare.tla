----------------------------- MODULE ClipShare -----------------------------
(***************************************************************************)
(* The clipboard of the Mac and the clipboard of the virtual machine, kept *)
(* the same by qf-client.  A copy on the Mac is offered to the server,     *)
(* which asks for its data when somebody pastes; a copy in the machine is  *)
(* fetched at once and put on the Mac clipboard (ClipRecv has that side in *)
(* detail: here a file list is received in one step, or not at all).       *)
(*                                                                         *)
(* Threads: the Qt main thread (dataChanged, lambdas), the channel's       *)
(* thread (every cliprdr callback) and the RDP thread, which frees the     *)
(* clipboard channel when it disconnects.  A copy is a version number, an  *)
(* index into copied; an answer and a file chunk carry the version they    *)
(* are of.  The server is a sketch: it works one message at a time, has    *)
(* one request outstanding, and gives a paste up when its clipboard        *)
(* changes.                                                                *)
(***************************************************************************)
EXTENDS Integers, Sequences

CONSTANTS
    MacKinds,   \* what is copied on the Mac, see Kinds
    VmKinds,    \* what is copied in the machine
    Files,      \* files in every list
    MaxCopies,  \* bound of the model: copies on both sides
    MaxPastes,  \* bound of the model: pastes in the machine
    MaxDrops    \* bound of the model: lost connections

\* broken: an image that is null or cannot be encoded; other: data that is no
\* text, image or file; nothing: the clipboard returns no data at all.
Kinds == {"files", "text", "image", "broken", "other", "nothing"}
Offered == {"files", "text", "image", "broken"}

ASSUME ShareAssumption ==
    /\ MacKinds \subseteq Kinds
    /\ VmKinds \subseteq Offered
    /\ Files \in Nat \ {0}
    /\ MaxCopies \in Nat /\ MaxPastes \in Nat /\ MaxDrops \in Nat

VARIABLES
    copied,     \* every copy so far: its kind, and the side it was made on
    mac,        \* the version on the Mac clipboard
    signal,     \* a dataChanged of the Mac clipboard is due
    fromRemote, \* m_clipboardDataFromRemote
    local,      \* the version in local_files_; 0 when it is empty
    offer,      \* the version dataChangedCallback is about to offer, or 0
    posted,     \* lambdas queued for the main thread
    slot,       \* requested_remote_format_id_
    incoming,   \* the version of the file list in remote_files_, or 0
    link,       \* opening, up, lost (disconnecting), ended
    ctx,        \* cliprdr_client_context_: null, live, or freed
    crashed,    \* the process used a context that is null or freed
    vm,         \* the machine's clipboard: a version, and who has its data
    paste,      \* the paste the server is working on
    pastes,     \* pastes so far
    drops,      \* lost connections so far
    toVm, toClient, \* messages under way
    raced       \* some copy was made before the one before it had settled

macVars == <<mac, signal, fromRemote, local, offer>>
recvVars == <<slot, incoming>>
linkVars == <<link, ctx, crashed, drops>>
vmVars == <<vm, paste, pastes>>
wires == <<toVm, toClient>>
vars == <<copied, macVars, posted, recvVars, linkVars, vmVars, wires, raced>>

Versions == 0..MaxCopies
Kind(v) == IF v = 0 THEN "nothing" ELSE copied[v].kind
Newest == Len(copied)

\* What is offered as an image is asked for as one, also when it is broken.
AskedAs(kind) == IF kind = "broken" THEN "image" ELSE kind

\* Messages: a list offers, fetch and contents ask, data and chunk answer; an
\* answer of version 0 is a failure.
Msg(type, kind, ver) == [type |-> type, kind |-> kind, ver |-> ver]
Idle == [at |-> "idle", left |-> 0, got |-> {}, stale |-> FALSE]

Quiet ==
    /\ ~signal /\ offer = 0 /\ posted = <<>> /\ incoming = 0
    /\ toVm = <<>> /\ toClient = <<>>

TypeOK ==
    /\ copied \in Seq([kind : Kinds, side : {"mac", "vm"}])
    /\ Newest <= MaxCopies
    /\ mac \in 0..Newest /\ local \in 0..Newest /\ offer \in 0..Newest
    /\ offer # 0 => Kind(offer) \in Offered
    /\ local # 0 => Kind(local) = "files"
    /\ signal \in BOOLEAN /\ crashed \in BOOLEAN /\ raced \in BOOLEAN
    /\ fromRemote = FALSE
    /\ incoming \in 0..Newest
    /\ link \in {"opening", "up", "lost", "ended"}
    /\ ctx = CASE link = "up" -> "live"
               [] link = "opening" -> "null"
               [] OTHER -> "freed"
    /\ vm \in [ver : 0..Newest, own : {"mac", "vm"}]
    /\ paste.got \subseteq 1..Newest
    /\ pastes \in 0..MaxPastes /\ drops \in 0..MaxDrops
    /\ \A i \in DOMAIN posted :
          posted[i].ver \in 1..Newest
    /\ link # "up" => toVm = <<>> /\ toClient = <<>> /\ paste = Idle

Init ==
    /\ copied = <<>> /\ mac = 0 /\ signal = FALSE /\ fromRemote = FALSE
    /\ local = 0 /\ offer = 0 /\ posted = <<>>
    /\ slot = "nothing" /\ incoming = 0
    /\ link = "opening" /\ ctx = "null" /\ crashed = FALSE /\ drops = 0
    /\ vm = [ver |-> 0, own |-> "vm"] /\ paste = Idle /\ pastes = 0
    /\ toVm = <<>> /\ toClient = <<>>
    /\ raced = FALSE
-----------------------------------------------------------------------------
(* People.                                                                 *)

Copy(kind, side) ==
    /\ Newest < MaxCopies
    /\ copied' = Append(copied, [kind |-> kind, side |-> side])
    /\ raced' = (raced \/ ~Quiet \/ link # "up")

\* Some program of the Mac; Qt notices when the client is active again.
MacCopy(kind) ==
    /\ Copy(kind, "mac")
    /\ mac' = Newest + 1 /\ signal' = TRUE
    /\ UNCHANGED <<fromRemote, local, offer, posted, recvVars, linkVars,
                   vmVars, wires>>

GiveUp(p) == IF p.at = "idle" THEN p ELSE [p EXCEPT !.stale = TRUE]

VmCopy(kind) ==
    /\ link = "up"
    /\ Copy(kind, "vm")
    /\ vm' = [ver |-> Newest + 1, own |-> "vm"]
    /\ paste' = GiveUp(paste)
    /\ toClient' = Append(toClient, Msg("list", kind, Newest + 1))
    /\ UNCHANGED <<macVars, posted, recvVars, linkVars, pastes, toVm>>

Paste ==
    /\ link = "up" /\ paste = Idle /\ pastes < MaxPastes
    /\ vm.own = "mac"
    /\ pastes' = pastes + 1
    /\ paste' = [Idle EXCEPT !.at = "data"]
    /\ toClient' = Append(toClient, Msg("fetch", AskedAs(Kind(vm.ver)), 0))
    /\ UNCHANGED <<copied, macVars, posted, recvVars, linkVars, vm, toVm, raced>>
-----------------------------------------------------------------------------
(* The server.                                                             *)

VmGets(type) ==
    /\ toVm # <<>> /\ Head(toVm).type = type
    /\ toVm' = Tail(toVm)

VmGetsList ==
    /\ VmGets("list")
    /\ vm' = [ver |-> Head(toVm).ver, own |-> "mac"]
    /\ paste' = GiveUp(paste)
    /\ UNCHANGED <<pastes, toClient>>

\* The client asks for data; only what was copied in the machine is answered.
VmGetsFetch ==
    /\ VmGets("fetch")
    /\ LET kind == Head(toVm).kind
           has == vm.own = "vm" /\ AskedAs(Kind(vm.ver)) = kind
       IN toClient' = Append(toClient,
                             IF has THEN Msg("data", Kind(vm.ver), vm.ver)
                             ELSE Msg("data", kind, 0))
    /\ UNCHANGED vmVars

\* An answer to the paste: files are asked for one by one.
VmGetsAnswer ==
    /\ VmGets("data") \/ VmGets("chunk")
    /\ LET ver == Head(toVm).ver
           left == IF paste.at = "data" THEN Files ELSE paste.left - 1
           more == /\ ~paste.stale /\ ver # 0 /\ left > 0
                   /\ Head(toVm).kind = "files"
       IN IF more
          THEN /\ paste' = [paste EXCEPT !.at = "chunk", !.left = left,
                                         !.got = @ \cup {ver}]
               /\ toClient' = Append(toClient, Msg("contents", "files", 0))
          ELSE paste' = Idle /\ UNCHANGED toClient
    /\ UNCHANGED <<vm, pastes>>

Server ==
    /\ VmGetsList \/ VmGetsFetch \/ VmGetsAnswer
    /\ UNCHANGED <<copied, macVars, posted, recvVars, linkVars, raced>>
-----------------------------------------------------------------------------
(* The channel's thread.                                                   *)

Gets(type) ==
    /\ ~crashed
    /\ toClient # <<>> /\ Head(toClient).type = type
    /\ toClient' = Tail(toClient)

\* Slip: the format asked for first is remembered for good.
FormatListKeepsSlot ==
    /\ Gets("list")
    /\ slot' = IF slot = "nothing" THEN AskedAs(Head(toClient).kind) ELSE slot
    /\ incoming' = 0
    /\ toVm' = Append(toVm, Msg("fetch", AskedAs(Head(toClient).kind), 0))
    /\ UNCHANGED posted

\* qf_CliprdrServerFormatListCallBack: fetch it, forget the list before.
FormatList ==
    /\ Gets("list")
    /\ slot' = AskedAs(Head(toClient).kind)
    /\ incoming' = 0
    /\ toVm' = Append(toVm, Msg("fetch", AskedAs(Head(toClient).kind), 0))
    /\ UNCHANGED posted

Post(kind, real, ver) ==
    posted' = Append(posted, [kind |-> kind, real |-> real, ver |-> ver])

\* qf_CliprdrServerFormatDataResponseCallBack: read as what slot says.
DataResponse ==
    /\ Gets("data")
    /\ LET real == Head(toClient).kind
           ver == Head(toClient).ver
       IN IF ver = 0 \/ (slot = "files" /\ real # "files")
          THEN UNCHANGED <<posted, incoming>>
          ELSE IF slot = "files"
               THEN incoming' = ver /\ UNCHANGED posted
               ELSE Post(slot, real, ver) /\ UNCHANGED incoming
    /\ UNCHANGED <<slot, toVm>>

\* All files of the list are on disk; or the server does not have them any
\* more (the detail is ClipRecv's).
FilesReceived ==
    /\ ~crashed /\ link = "up" /\ incoming # 0
    /\ incoming' = 0
    /\ \/ Post("files", "files", incoming)
       \/ vm # [ver |-> incoming, own |-> "vm"] /\ UNCHANGED posted
    /\ UNCHANGED <<slot, wires>>

Answers(type, kind, ver) == toVm' = Append(toVm, Msg(type, kind, ver))

\* Slip: an unsupported format is not answered at all.
FormatDataRequestSilent ==
    /\ Gets("fetch")
    /\ LET kind == Head(toClient).kind IN
       \/ kind = "files" /\ local # 0 /\ Answers("data", "files", local)
       \/ kind = "text" /\ Kind(mac) \in {"text", "files"}
          /\ Answers("data", "text", mac)
       \/ kind = "image" /\ Kind(mac) = "image" /\ Answers("data", "image", mac)
       \/ /\ \/ kind = "files" /\ local = 0
             \/ kind = "text" /\ Kind(mac) \notin {"text", "files"}
             \/ kind = "image" /\ Kind(mac) # "image"
          /\ UNCHANGED toVm
    /\ UNCHANGED <<posted, recvVars>>

\* qf_CliprdrServerFormatDataRequestCallBack reads the clipboard as it is now.
\* Files are text, too.  No data and a broken image are not answered.
FormatDataRequest ==
    /\ Gets("fetch")
    /\ LET kind == Head(toClient).kind
           has == \/ kind = "text" /\ Kind(mac) \in {"text", "files"}
                  \/ kind = "image" /\ Kind(mac) = "image"
           unanswered == \/ Kind(mac) = "nothing"
                         \/ kind = "image" /\ Kind(mac) = "broken"
       IN IF unanswered
          THEN UNCHANGED toVm
          ELSE Answers("data", kind,
                       IF kind = "files" THEN local
                       ELSE IF has THEN mac ELSE 0)
    /\ UNCHANGED <<posted, recvVars>>

\* qf_CliprdrServerFileContentsRequestCallBack: the file of that index now, a
\* failure when there is none or it cannot be read.
FileContentsRequest ==
    /\ Gets("contents")
    /\ Answers("chunk", "files", local) \/ Answers("chunk", "files", 0)
    /\ UNCHANGED <<posted, recvVars>>

Channel ==
    /\ FormatList \/ DataResponse \/ FilesReceived \/ FormatDataRequest
       \/ FileContentsRequest
    /\ UNCHANGED <<copied, macVars, linkVars, vmVars, raced>>
-----------------------------------------------------------------------------
(* The main thread.                                                        *)

\* Slip: files after files are not offered, the formats being the same.
NoticeSameFormats(v) ==
    IF ctx = "null" \/ fromRemote \/ Kind(v) = "nothing"
    THEN UNCHANGED <<local, offer>>
    ELSE /\ local' = IF Kind(v) = "files" THEN v ELSE 0
         /\ offer' = IF Kind(v) \in Offered /\ Kind(v) # Kind(local)
                     THEN v ELSE 0

\* Slip: an image is not offered.
NoticeDropsImages(v) ==
    IF ctx = "null" \/ fromRemote \/ Kind(v) = "nothing"
    THEN UNCHANGED <<local, offer>>
    ELSE /\ local' = IF Kind(v) = "files" THEN v ELSE 0
         /\ offer' = IF Kind(v) \in {"files", "text"} THEN v ELSE 0

\* dataChangedCallback up to the end of its locked section; what it will offer
\* is decided, and sent by SendOffer.
Notice(v) ==
    IF ctx = "null" \/ fromRemote \/ Kind(v) = "nothing"
    THEN UNCHANGED <<local, offer>>
    ELSE /\ local' = IF Kind(v) = "files" THEN v ELSE 0
         /\ offer' = IF Kind(v) \in Offered THEN v ELSE 0

DataChanged ==
    /\ signal /\ signal' = FALSE
    /\ Notice(mac)
    /\ UNCHANGED <<copied, mac, fromRemote, posted, linkVars, toVm>>

\* ClientFormatList, through a reference to the member that the RDP thread
\* frees and clears.  A freed channel may still swallow the list.
SendOffer ==
    /\ offer' = 0
    /\ \/ /\ ctx = "live"
          /\ toVm' = Append(toVm, Msg("list", Kind(offer), offer))
          /\ UNCHANGED crashed
       \/ ctx = "freed" /\ UNCHANGED <<toVm, crashed>>
       \/ ctx # "live" /\ crashed' = TRUE /\ UNCHANGED toVm
    /\ UNCHANGED <<copied, mac, signal, fromRemote, local, posted, link, ctx,
                   drops>>

\* Slip: a picture that is none leaves the flag up.
SetFromRemoteKeepsFlag(p) ==
    LET fits == p.kind # "image" \/ p.real = "image" IN
    IF ctx = "null" \/ ~fits
    THEN /\ fromRemote' = (ctx # "null")
         /\ UNCHANGED <<mac, signal, local, offer>>
    ELSE mac' = p.ver /\ signal' = FALSE
         /\ UNCHANGED <<fromRemote, local, offer>>

\* Slip: the flag is not up while the clipboard is set.
SetFromRemoteUnflagged(p) ==
    LET fits == p.kind # "image" \/ p.real = "image" IN
    IF ctx = "null" \/ ~fits
    THEN UNCHANGED macVars
    ELSE mac' = p.ver /\ signal' = FALSE /\ Notice(p.ver)
         /\ UNCHANGED fromRemote

\* updateClipboardDataFromRemote: the flag is up while the clipboard is set,
\* and dataChanged, emitted from inside, ignored.
SetFromRemote(p) ==
    LET fits == p.kind # "image" \/ p.real = "image" IN
    IF ctx = "null" \/ ~fits
    THEN UNCHANGED macVars
    ELSE mac' = p.ver /\ signal' = FALSE
         /\ UNCHANGED <<fromRemote, local, offer>>

\* setClipboardUrls: dataChanged, emitted from inside, is not ignored.
SetUrls(p) ==
    /\ mac' = p.ver /\ signal' = FALSE
    /\ Notice(p.ver)
    /\ UNCHANGED fromRemote

RunPosted ==
    /\ posted # <<>>
    /\ posted' = Tail(posted)
    /\ IF Head(posted).kind = "files"
       THEN SetUrls(Head(posted)) ELSE SetFromRemote(Head(posted))
    /\ UNCHANGED <<copied, linkVars, toVm>>

Main ==
    /\ ~crashed
    /\ IF offer # 0 THEN SendOffer ELSE DataChanged \/ RunPosted
    /\ UNCHANGED <<recvVars, vmVars, toClient, raced>>
-----------------------------------------------------------------------------
(* The RDP thread.                                                         *)

\* What is under way is lost, and what the machine had from the Mac.
HangUp ==
    /\ toVm' = <<>> /\ toClient' = <<>> /\ paste' = Idle
    /\ vm' = IF vm.own = "mac" THEN [ver |-> 0, own |-> "vm"] ELSE vm
    /\ UNCHANGED <<copied, macVars, posted, recvVars, pastes, crashed, raced>>

\* freerdp_disconnect frees the channel; the pointer stays.
Disconnect ==
    /\ ~crashed /\ link = "up" /\ drops < MaxDrops
    /\ drops' = drops + 1
    /\ link' = "lost" /\ ctx' = "freed"
    /\ HangUp

\* The last disconnect: nobody clears the pointer after it.
SessionEnds ==
    /\ ~crashed /\ link = "up"
    /\ link' = "ended" /\ ctx' = "freed"
    /\ UNCHANGED drops
    /\ HangUp

\* The pointer is cleared and freerdp_connect called.
Reconnect ==
    /\ ~crashed /\ link = "lost"
    /\ link' = "opening" /\ ctx' = "null"
    /\ UNCHANGED <<copied, macVars, posted, recvVars, vmVars, wires, crashed,
                   drops, raced>>

\* qf_CliprdrMonitorReadyCallback: the list it sends is empty.
MonitorReady ==
    /\ ~crashed /\ link = "opening"
    /\ link' = "up" /\ ctx' = "live"
    /\ UNCHANGED <<copied, macVars, posted, recvVars, vmVars, wires, crashed,
                   drops, raced>>
-----------------------------------------------------------------------------
Next ==
    \/ \E kind \in MacKinds : MacCopy(kind)
    \/ \E kind \in VmKinds : VmCopy(kind)
    \/ Paste
    \/ Server
    \/ Channel
    \/ Main
    \/ Disconnect \/ SessionEnds \/ Reconnect \/ MonitorReady

\* The threads run and the server handles what it gets; people, the network
\* and the end of the session are not obliged to do anything.
Fairness ==
    /\ WF_vars(Server)
    /\ WF_vars(Channel)
    /\ WF_vars(Main)
    /\ WF_vars(Reconnect) /\ WF_vars(MonitorReady)

Spec == Init /\ [][Next]_vars /\ Fairness
-----------------------------------------------------------------------------
(* Properties.                                                             *)

\* What the server was told to be on the Mac when it gets the i-th message.
ToldBefore(i) ==
    LET lists == {j \in 1..(i - 1) : toVm[j].type = "list"} IN
    IF lists = {} THEN vm.ver
    ELSE toVm[CHOOSE j \in lists : \A k \in lists : k <= j].ver

\* Files are read from the list that is local now, whatever list the server
\* goes by.  It cannot mix the two for long: when files go out that are not of
\* the list the server was told of, the list they are of is right behind them.
FilesOfToldList ==
    ~paste.stale =>
        \A i \in DOMAIN toVm :
            LET v == toVm[i].ver IN
            toVm[i].type \in {"data", "chunk"} /\ toVm[i].kind = "files"
                /\ v \notin {0, ToldBefore(i)}
            => \/ offer = v
               \/ \E j \in DOMAIN toVm :
                      j > i /\ toVm[j].type = "list" /\ toVm[j].ver = v

\* Text and images from the machine are not offered back to it, although
\* setting them changes the Mac clipboard; received files are.
OnlyFilesComeBack ==
    offer # 0 => copied[offer].side = "mac" \/ Kind(offer) = "files"

\* Copies made one after the other, each when the one before has settled, end
\* up on both sides, whichever side they were made on.  (When a copy is made
\* while another is under way, a late answer can replace the newer one.)
SerialCopiesAgree ==
    /\ ~raced /\ Quiet /\ link = "up" /\ drops = 0
    /\ Kind(Newest) \in {"files", "text", "image"}
    => mac = Newest /\ vm.ver = Newest

\* A copy on the Mac that Qt has yet to report reaches the machine while the
\* link stays up, unless it is replaced before.
CopyReachesVm ==
    \A v \in 1..MaxCopies :
        signal /\ mac = v /\ link = "up" /\ Kind(v) \in Offered
        ~> vm = [ver |-> v, own |-> "mac"] \/ mac # v \/ link # "up"

\* A paste in the machine ends, with data or with a failure, unless what was
\* copied on the Mac is something the client gives no answer for at all.
PastesEnd ==
    paste # Idle ~>
        \/ paste = Idle
        \/ \E i \in DOMAIN copied : copied[i].kind \in {"broken", "nothing"}
=============================================================================
