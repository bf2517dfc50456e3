-------------------------- MODULE ClipShare_proofs --------------------------
(***************************************************************************)
(* Proofs about ClipShare, for any number of copies, pastes, files and     *)
(* lost connections: what is offered comes from the Mac or is a file list, *)
(* files sent are of the list the server was told of or of one it is about *)
(* to be told of, and copies made one after the other reach both sides.    *)
(***************************************************************************)
EXTENDS ClipShare, SequenceTheorems, TLAPS

Messages ==
    [type : {"list", "fetch", "contents", "data", "chunk"}, kind : Kinds,
     ver : Versions]
Posts == [kind : Kinds, real : Kinds, ver : Versions]
Pastes ==
    [at : {"idle", "data", "chunk"}, left : Int, got : SUBSET Nat,
     stale : BOOLEAN]

\* What TypeOK leaves out: messages, lambdas and the paste.
WiresTyped ==
    /\ toVm \in Seq(Messages) /\ toClient \in Seq(Messages)
    /\ posted \in Seq(Posts) /\ slot \in Kinds /\ paste \in Pastes
    /\ \A i \in DOMAIN toVm : toVm[i].ver <= Newest
    /\ \A i \in DOMAIN toClient : toClient[i].ver <= Newest
    /\ paste.at = "idle" => paste = Idle

\* What is read as a file list is one, and Qt reports only what was copied on the
\* Mac.
SourcesKnown ==
    /\ \A i \in DOMAIN toClient :
          LET m == toClient[i] IN
          m.type = "data" /\ m.ver # 0 => m.kind = Kind(m.ver)
    /\ incoming # 0 => Kind(incoming) = "files"
    /\ \A i \in DOMAIN posted :
          posted[i].kind = "files" => Kind(posted[i].ver) = "files"
    /\ signal => mac # 0 /\ copied[mac].side = "mac"
    /\ OnlyFilesComeBack

\* The server has one request out at most, and none between pastes; while it
\* has not given a paste up it goes by a list from the Mac.
Requests == {"fetch", "contents"}
Replies == {"data", "chunk"}
OneOf(s, types) ==
    \A i, j \in DOMAIN s : s[i].type \in types /\ s[j].type \in types => i = j
NoneOf(s, types) == \A i \in DOMAIN s : s[i].type \notin types

OneAtATime ==
    /\ OneOf(toClient, Requests) /\ OneOf(toVm, Replies)
    /\ NoneOf(toClient, Requests) \/ NoneOf(toVm, Replies)
    /\ paste = Idle => NoneOf(toClient, Requests) /\ NoneOf(toVm, Replies)
    /\ paste # Idle /\ ~paste.stale => vm.own = "mac"

\* Who has version ver goes by version v after the first i - 1 messages of s: of the
\* last list among them, or of ver.
GoesBy(ver, s, v, i) ==
    \/ ver = v /\ \A k \in 1..(i - 1) : s[k].type # "list"
    \/ \E j \in 1..(i - 1) :
          /\ s[j].type = "list" /\ s[j].ver = v
          /\ \A k \in (j + 1)..(i - 1) : s[k].type # "list"

HasList(s) == \E j \in DOMAIN s : s[j].type = "list"

\* The local list is the one the server goes by, once it has got all messages, or
\* is about to be offered.  Without a link it has nothing from the Mac.
LocalIsTold ==
    /\ offer # 0 => local \in {0, offer}
    /\ local # 0 /\ (vm.own = "mac" \/ HasList(toVm))
       => offer = local \/ GoesBy(vm.ver, toVm, local, Len(toVm) + 1)
    /\ link # "up" => vm.own = "vm"

\* So are the files on their way to it.
Explained(ver, s, o, v, i) ==
    \/ GoesBy(ver, s, v, i)
    \/ o = v
    \/ \E j \in DOMAIN s : j > i /\ s[j].type = "list" /\ s[j].ver = v

HasFiles(m) == m.type \in Replies /\ m.kind = "files" /\ m.ver # 0

FilesAreTold ==
    ~paste.stale =>
        \A i \in DOMAIN toVm :
            HasFiles(toVm[i]) => Explained(vm.ver, toVm, offer, toVm[i].ver, i)

\* Copies made one after the other. One made in the machine is on its way to the
\* Mac: listed, fetched, answered, received, posted.
OnItsWay(n, kind) ==
    /\ vm = [ver |-> n, own |-> "vm"] /\ ~signal /\ offer = 0
    /\ \/ /\ toClient = <<Msg("list", kind, n)>>
          /\ toVm = <<>> /\ incoming = 0 /\ posted = <<>>
       \/ /\ toVm = <<Msg("fetch", kind, 0)>> /\ slot = kind
          /\ toClient = <<>> /\ incoming = 0 /\ posted = <<>>
       \/ /\ toClient = <<Msg("data", kind, n)>> /\ slot = kind
          /\ toVm = <<>> /\ incoming = 0 /\ posted = <<>>
       \/ /\ incoming = n /\ kind = "files"
          /\ toVm = <<>> /\ toClient = <<>> /\ posted = <<>>
       \/ /\ posted = <<[kind |-> kind, real |-> kind, ver |-> n]>>
          /\ toVm = <<>> /\ toClient = <<>> /\ incoming = 0

\* Then it is on the Mac, as is one that was made there, and the machine has it or
\* will be told of it, and of no other.
ListsOf(s, n) == \A i \in DOMAIN s : s[i].type = "list" => s[i].ver = n

OnTheMac(n) ==
    /\ mac = n /\ incoming = 0 /\ posted = <<>> /\ offer \in {0, n}
    /\ NoneOf(toVm, {"fetch"}) /\ ListsOf(toVm, n)
    /\ NoneOf(toClient, {"list", "data"})
    /\ vm.ver = n \/ signal \/ offer = n \/ HasList(toVm)

Serial ==
    /\ ~raced /\ link = "up" /\ drops = 0
    /\ Kind(Newest) \in {"files", "text", "image"}

OneByOne ==
    /\ link = "lost" => drops > 0
    /\ link = "opening" /\ drops = 0 /\ Newest > 0 => raced
    /\ Serial => OnItsWay(Newest, Kind(Newest)) \/ OnTheMac(Newest)

IInv ==
    /\ TypeOK /\ WiresTyped /\ SourcesKnown /\ OneAtATime /\ LocalIsTold
    /\ FilesAreTold /\ OneByOne
-----------------------------------------------------------------------------
\* What each thread leaves alone.
ServerFrame == UNCHANGED <<copied, macVars, posted, recvVars, linkVars, raced>>
ChannelFrame == UNCHANGED <<copied, macVars, linkVars, vmVars, raced>>
MainFrame == ~crashed /\ UNCHANGED <<recvVars, vmVars, toClient, raced>>

\* The steps, as the proofs below group them.
LEMMA StepCases ==
    [Next]_vars =>
        \/ (\E kind \in MacKinds : MacCopy(kind))
        \/ (\E kind \in VmKinds : VmCopy(kind))
        \/ Paste
        \/ VmGetsList /\ ServerFrame
        \/ VmGetsFetch /\ ServerFrame
        \/ VmGetsAnswer /\ ServerFrame
        \/ FormatList /\ ChannelFrame
        \/ DataResponse /\ ChannelFrame
        \/ FilesReceived /\ ChannelFrame
        \/ FormatDataRequest /\ ChannelFrame
        \/ FileContentsRequest /\ ChannelFrame
        \/ SendOffer /\ offer # 0 /\ MainFrame
        \/ DataChanged /\ offer = 0 /\ MainFrame
        \/ RunPosted /\ offer = 0 /\ MainFrame
        \/ Disconnect \/ SessionEnds
        \/ Reconnect \/ MonitorReady
        \/ UNCHANGED vars
  BY DEF Next, Server, Channel, Main, ServerFrame, ChannelFrame, MainFrame


\* The types of what TypeOK speaks of: the copies ...
CopiesTyped ==
    /\ copied \in Seq([kind : Kinds, side : {"mac", "vm"}])
    /\ Newest \in 0..MaxCopies

\* ... the Mac clipboard and what is offered of it ...
MacTyped ==
    /\ mac \in 0..Newest /\ local \in 0..Newest /\ offer \in 0..Newest
    /\ offer # 0 => Kind(offer) \in Offered
    /\ local # 0 => Kind(local) = "files"
    /\ signal \in BOOLEAN /\ fromRemote = FALSE

\* ... what is received and pasted ...
VersionsTyped ==
    /\ incoming \in 0..Newest
    /\ vm \in [ver : 0..Newest, own : {"mac", "vm"}]
    /\ paste.got \subseteq 1..Newest
    /\ \A i \in DOMAIN posted : posted[i].ver \in 1..Newest

\* ... and the connection.
LinkTyped ==
    /\ link \in {"opening", "up", "lost", "ended"}
    /\ ctx = CASE link = "up" -> "live"
               [] link = "opening" -> "null"
               [] OTHER -> "freed"
    /\ crashed \in BOOLEAN /\ raced \in BOOLEAN
    /\ pastes \in 0..MaxPastes /\ drops \in 0..MaxDrops
    /\ link # "up" => toVm = <<>> /\ toClient = <<>> /\ paste = Idle

LEMMA TypeParts == TypeOK <=> CopiesTyped /\ MacTyped /\ VersionsTyped /\ LinkTyped
<1>1. ASSUME copied \in Seq([kind : Kinds, side : {"mac", "vm"}])
      PROVE  Newest \in Nat
  BY <1>1, LenProperties DEF Newest
<1>2. QED
  BY <1>1, ShareAssumption
     DEF TypeOK, CopiesTyped, MacTyped, VersionsTyped, LinkTyped, ShareAssumption

\* What is at the head of a queue, and what is left behind it.
LEMMA Taken ==
    ASSUME NEW S, NEW s \in Seq(S), s # <<>>
    PROVE  /\ Head(s) \in S /\ Head(s) = s[1] /\ 1 \in DOMAIN s
           /\ Tail(s) \in Seq(S)
           /\ Len(Tail(s)) = Len(s) - 1
           /\ \A i \in DOMAIN Tail(s) : i + 1 \in DOMAIN s /\ Tail(s)[i] = s[i + 1]
  BY LenProperties, HeadTailProperties, EmptySeq

\* What is appended comes last, and nothing else changes.
LEMMA Appended ==
    ASSUME NEW S, NEW s \in Seq(S), NEW m \in S
    PROVE  /\ Append(s, m) \in Seq(S)
           /\ Len(Append(s, m)) = Len(s) + 1
           /\ DOMAIN Append(s, m) = DOMAIN s \cup {Len(s) + 1}
           /\ \A i \in DOMAIN s : Append(s, m)[i] = s[i]
           /\ Append(s, m)[Len(s) + 1] = m
  BY LenProperties, AppendProperties

\* A copy adds a version, and changes no other.
LEMMA CopyAdds ==
    ASSUME CopiesTyped, NEW kind \in Kinds, NEW side \in {"mac", "vm"}, Copy(kind, side)
    PROVE  /\ CopiesTyped' /\ Newest \in Nat /\ Newest' = Newest + 1
           /\ \A v \in 1..Newest : copied'[v] = copied[v]
           /\ \A v \in 0..Newest : Kind(v)' = Kind(v)
           /\ copied'[Newest + 1] = [kind |-> kind, side |-> side]
<1> DEFINE entry == [kind |-> kind, side |-> side]
           Entries == [kind : Kinds, side : {"mac", "vm"}]
<1>1. entry \in Entries /\ copied \in Seq(Entries) /\ copied' = Append(copied, entry)
  BY DEF Copy, CopiesTyped
<1>2. /\ copied' \in Seq(Entries) /\ Len(copied') = Len(copied) + 1
      /\ \A v \in DOMAIN copied : copied'[v] = copied[v]
      /\ copied'[Len(copied) + 1] = entry
      /\ DOMAIN copied = 1..Len(copied) /\ Len(copied) \in Nat
  BY <1>1, Appended, LenProperties
<1>3. Newest + 1 \in 0..MaxCopies
  BY <1>2, ShareAssumption DEF Copy, Newest, ShareAssumption
<1>4. QED
  BY <1>2, <1>3 DEF CopiesTyped, Newest, Kind


\* Copies keep their types.
LEMMA CopiesStep == IInv /\ [Next]_vars => CopiesTyped'
<1> SUFFICES ASSUME IInv, [Next]_vars
             PROVE  CopiesTyped'
  OBVIOUS
<1> USE ShareAssumption DEF ShareAssumption, IInv, CopiesTyped, Newest
<1> USE TypeParts
<1> USE DEF macVars, recvVars, linkVars, vmVars, wires
<1>1. CASE \E kind \in MacKinds : MacCopy(kind)
  BY <1>1, CopyAdds DEF MacCopy
<1>2. CASE \E kind \in VmKinds : VmCopy(kind)
  BY <1>2, CopyAdds DEF VmCopy, Offered, Kinds
<1>3. CASE Paste
  BY <1>3 DEF Paste
<1>4. CASE VmGetsList /\ ServerFrame
  BY <1>4 DEF VmGetsList, VmGets, GiveUp, ServerFrame
<1>5. CASE VmGetsFetch /\ ServerFrame
  BY <1>5 DEF VmGetsFetch, VmGets, ServerFrame
<1>6. CASE VmGetsAnswer /\ ServerFrame
  BY <1>6 DEF VmGetsAnswer, VmGets, ServerFrame
<1>7. CASE FormatList /\ ChannelFrame
  BY <1>7 DEF FormatList, Gets, ChannelFrame
<1>8. CASE DataResponse /\ ChannelFrame
  BY <1>8 DEF DataResponse, Gets, Post, ChannelFrame
<1>9. CASE FilesReceived /\ ChannelFrame
  BY <1>9 DEF FilesReceived, Post, ChannelFrame
<1>10. CASE FormatDataRequest /\ ChannelFrame
  BY <1>10 DEF FormatDataRequest, Gets, Answers, ChannelFrame
<1>11. CASE FileContentsRequest /\ ChannelFrame
  BY <1>11 DEF FileContentsRequest, Gets, Answers, ChannelFrame
<1>12. CASE SendOffer /\ offer # 0 /\ MainFrame
  BY <1>12 DEF SendOffer, MainFrame
<1>13. CASE DataChanged /\ offer = 0 /\ MainFrame
  BY <1>13 DEF DataChanged, Notice, MainFrame
<1>14. CASE RunPosted /\ offer = 0 /\ MainFrame
  BY <1>14 DEF RunPosted, SetUrls, SetFromRemote, Notice, MainFrame
<1>15. CASE Disconnect \/ SessionEnds
  BY <1>15 DEF Disconnect, SessionEnds, HangUp
<1>16. CASE Reconnect \/ MonitorReady
  BY <1>16 DEF Reconnect, MonitorReady
<1>17. CASE UNCHANGED vars
  BY <1>17 DEF vars
<1>18. QED
  BY <1>1, <1>2, <1>3, <1>4, <1>5, <1>6, <1>7, <1>8, <1>9, <1>10, <1>11,
     <1>12, <1>13, <1>14, <1>15, <1>16, <1>17, StepCases

\* What has been copied has a kind, one of those offered when it can be asked for.
LEMMA KindType ==
    ASSUME CopiesTyped, NEW v \in 0..Newest
    PROVE  Kind(v) \in Kinds
<1>1. CASE v # 0
  <2>1. copied \in [1..Newest -> [kind : Kinds, side : {"mac", "vm"}]]
    BY LenProperties DEF CopiesTyped, Newest
  <2>2. v \in 1..Newest
    BY <1>1, ShareAssumption DEF CopiesTyped, ShareAssumption
  <2>3. QED
    BY <1>1, <2>1, <2>2 DEF Kind
<1>2. CASE v = 0
  BY <1>2 DEF Kind, Kinds
<1>3. QED
  BY <1>1, <1>2

\* What the main thread runs for the machine's sake puts a version on the Mac
\* clipboard that is there.
LEMMA RunKeepsMac ==
    ASSUME IInv, RunPosted, offer = 0
    PROVE  MacTyped'
<1> DEFINE p == Head(posted)
<1>1. /\ CopiesTyped /\ MacTyped /\ copied' = copied /\ Newest \in Nat
      /\ p.ver \in 1..Newest /\ (p.kind = "files" => Kind(p.ver) = "files")
  <2>1. posted # <<>> /\ p = posted[1] /\ 1 \in DOMAIN posted
    BY Taken DEF RunPosted, IInv, WiresTyped
  <2>2. CopiesTyped /\ MacTyped /\ VersionsTyped /\ SourcesKnown /\ copied' = copied
    BY TypeParts DEF IInv, RunPosted
  <2>3. QED
    BY <2>1, <2>2, ShareAssumption
       DEF VersionsTyped, SourcesKnown, CopiesTyped, ShareAssumption
<1> HIDE DEF p
<1>2. /\ mac' \in {mac, p.ver}
      /\ \/ local' \in {0, local} /\ offer' \in {0, offer}
         \/ p.kind = "files" /\ local' = p.ver /\ offer' = p.ver
  BY <1>1 DEF RunPosted, SetUrls, SetFromRemote, Notice, Offered, macVars, p
<1>3. signal' \in {signal, FALSE} /\ fromRemote' = fromRemote
  BY DEF RunPosted, SetUrls, SetFromRemote, macVars
<1>4. Newest' = Newest /\ p.ver \in 0..Newest
  BY <1>1 DEF Newest
<1>5. (mac \in 0..Newest /\ local \in 0..Newest /\ offer \in 0..Newest)'
  BY <1>1, <1>2, <1>4 DEF MacTyped
<1>6. (offer # 0 => Kind(offer) \in Offered)'
  BY <1>1, <1>2 DEF MacTyped, Kind, Offered
<1>7. (local # 0 => Kind(local) = "files")'
  BY <1>1, <1>2 DEF MacTyped, Kind
<1>8. (signal \in BOOLEAN /\ fromRemote = FALSE)'
  BY <1>1, <1>3 DEF MacTyped
<1>9. QED
  BY <1>5, <1>6, <1>7, <1>8 DEF MacTyped

\* What is on the Mac clipboard, local and offered keeps its types.
LEMMA MacStep == IInv /\ [Next]_vars => MacTyped'
<1> SUFFICES ASSUME IInv, [Next]_vars
             PROVE  MacTyped'
  OBVIOUS
<1> USE ShareAssumption DEF ShareAssumption, IInv, CopiesTyped, MacTyped, VersionsTyped, WiresTyped, SourcesKnown, Kind, Newest
<1> USE TypeParts
<1> USE DEF macVars, recvVars, linkVars, vmVars, wires
<1>1. CASE \E kind \in MacKinds : MacCopy(kind)
  <2>1. PICK kind \in MacKinds : MacCopy(kind)
    BY <1>1
  <2>2. /\ Newest \in Nat /\ Newest' = Newest + 1
        /\ \A v \in 0..Newest : Kind(v)' = Kind(v)
    BY <2>1, CopyAdds DEF MacCopy
  <2>3. QED
    BY <2>1, <2>2 DEF MacCopy
<1>2. CASE \E kind \in VmKinds : VmCopy(kind)
  <2>1. PICK kind \in VmKinds : VmCopy(kind)
    BY <1>2
  <2>2. /\ Newest \in Nat /\ Newest' = Newest + 1
        /\ \A v \in 0..Newest : Kind(v)' = Kind(v)
    BY <2>1, CopyAdds DEF VmCopy, Offered, Kinds
  <2>3. QED
    BY <2>1, <2>2 DEF VmCopy
<1>3. CASE Paste
  BY <1>3 DEF Paste
<1>4. CASE VmGetsList /\ ServerFrame
  BY <1>4 DEF VmGetsList, VmGets, GiveUp, ServerFrame
<1>5. CASE VmGetsFetch /\ ServerFrame
  BY <1>5 DEF VmGetsFetch, VmGets, ServerFrame
<1>6. CASE VmGetsAnswer /\ ServerFrame
  BY <1>6 DEF VmGetsAnswer, VmGets, ServerFrame
<1>7. CASE FormatList /\ ChannelFrame
  BY <1>7 DEF FormatList, Gets, ChannelFrame
<1>8. CASE DataResponse /\ ChannelFrame
  BY <1>8 DEF DataResponse, Gets, Post, ChannelFrame
<1>9. CASE FilesReceived /\ ChannelFrame
  BY <1>9 DEF FilesReceived, Post, ChannelFrame
<1>10. CASE FormatDataRequest /\ ChannelFrame
  BY <1>10 DEF FormatDataRequest, Gets, Answers, ChannelFrame
<1>11. CASE FileContentsRequest /\ ChannelFrame
  BY <1>11 DEF FileContentsRequest, Gets, Answers, ChannelFrame
<1>12. CASE SendOffer /\ offer # 0 /\ MainFrame
  BY <1>12 DEF SendOffer, MainFrame
<1>13. CASE DataChanged /\ offer = 0 /\ MainFrame
  BY <1>13 DEF DataChanged, Notice, MainFrame
<1>14. CASE RunPosted /\ offer = 0 /\ MainFrame
  BY <1>14, RunKeepsMac
<1>15. CASE Disconnect \/ SessionEnds
  BY <1>15 DEF Disconnect, SessionEnds, HangUp
<1>16. CASE Reconnect \/ MonitorReady
  BY <1>16 DEF Reconnect, MonitorReady
<1>17. CASE UNCHANGED vars
  BY <1>17 DEF vars
<1>18. QED
  BY <1>1, <1>2, <1>3, <1>4, <1>5, <1>6, <1>7, <1>8, <1>9, <1>10, <1>11,
     <1>12, <1>13, <1>14, <1>15, <1>16, <1>17, StepCases

\* So does the connection.
LEMMA LinkStep == IInv /\ [Next]_vars => LinkTyped'
<1> SUFFICES ASSUME IInv, [Next]_vars
             PROVE  LinkTyped'
  OBVIOUS
<1> USE ShareAssumption DEF ShareAssumption, IInv, LinkTyped
<1> USE TypeParts
<1> USE DEF macVars, recvVars, linkVars, vmVars, wires
<1>1. CASE \E kind \in MacKinds : MacCopy(kind)
  BY <1>1 DEF MacCopy, Copy, Quiet
<1>2. CASE \E kind \in VmKinds : VmCopy(kind)
  BY <1>2 DEF VmCopy, Copy, Quiet
<1>3. CASE Paste
  BY <1>3 DEF Paste
<1>4. CASE VmGetsList /\ ServerFrame
  BY <1>4 DEF VmGetsList, VmGets, GiveUp, ServerFrame
<1>5. CASE VmGetsFetch /\ ServerFrame
  BY <1>5 DEF VmGetsFetch, VmGets, ServerFrame
<1>6. CASE VmGetsAnswer /\ ServerFrame
  BY <1>6 DEF VmGetsAnswer, VmGets, ServerFrame
<1>7. CASE FormatList /\ ChannelFrame
  BY <1>7 DEF FormatList, Gets, ChannelFrame
<1>8. CASE DataResponse /\ ChannelFrame
  BY <1>8 DEF DataResponse, Gets, Post, ChannelFrame
<1>9. CASE FilesReceived /\ ChannelFrame
  BY <1>9 DEF FilesReceived, Post, ChannelFrame
<1>10. CASE FormatDataRequest /\ ChannelFrame
  BY <1>10 DEF FormatDataRequest, Gets, Answers, ChannelFrame
<1>11. CASE FileContentsRequest /\ ChannelFrame
  BY <1>11 DEF FileContentsRequest, Gets, Answers, ChannelFrame
<1>12. CASE SendOffer /\ offer # 0 /\ MainFrame
  BY <1>12 DEF SendOffer, MainFrame
<1>13. CASE DataChanged /\ offer = 0 /\ MainFrame
  BY <1>13 DEF DataChanged, Notice, MainFrame
<1>14. CASE RunPosted /\ offer = 0 /\ MainFrame
  BY <1>14 DEF RunPosted, SetUrls, SetFromRemote, Notice, MainFrame
<1>15. CASE Disconnect \/ SessionEnds
  BY <1>15 DEF Disconnect, SessionEnds, HangUp
<1>16. CASE Reconnect \/ MonitorReady
  BY <1>16 DEF Reconnect, MonitorReady
<1>17. CASE UNCHANGED vars
  BY <1>17 DEF vars
<1>18. QED
  BY <1>1, <1>2, <1>3, <1>4, <1>5, <1>6, <1>7, <1>8, <1>9, <1>10, <1>11,
     <1>12, <1>13, <1>14, <1>15, <1>16, <1>17, StepCases

\* Messages and lambdas are built of their types.
LEMMA Built ==
    /\ \A type \in {"list", "fetch", "contents", "data", "chunk"}, kind \in Kinds,
         v \in Versions :
          /\ Msg(type, kind, v) \in Messages
          /\ Msg(type, kind, v).type = type /\ Msg(type, kind, v).ver = v
          /\ Msg(type, kind, v).kind = kind
    /\ \A kind \in Kinds : AskedAs(kind) \in Kinds
  BY DEF Msg, Messages, AskedAs, Kinds


\* The types of the messages the machine gets, of those the client gets, and of
\* what else is under way.
ToVmTyped ==
    toVm \in Seq(Messages) /\ \A i \in DOMAIN toVm : toVm[i].ver <= Newest
ToClientTyped ==
    toClient \in Seq(Messages) /\ \A i \in DOMAIN toClient : toClient[i].ver <= Newest
PasteTyped == paste \in Pastes /\ (paste.at = "idle" => paste = Idle)
PostsTyped == posted \in Seq(Posts) /\ slot \in Kinds

LEMMA WireParts ==
    WiresTyped <=> ToVmTyped /\ ToClientTyped /\ PasteTyped /\ PostsTyped
  BY DEF WiresTyped, ToVmTyped, ToClientTyped, PasteTyped, PostsTyped

\* A message of a version that is there may be appended, the first one taken.
LEMMA MessagesKept ==
    ASSUME CopiesTyped, NEW s \in Seq(Messages), \A i \in DOMAIN s : s[i].ver <= Newest
    PROVE  /\ \A m \in Messages : m.ver <= Newest =>
                /\ Append(s, m) \in Seq(Messages)
                /\ \A i \in DOMAIN Append(s, m) : Append(s, m)[i].ver <= Newest
           /\ s # <<>> =>
                /\ Tail(s) \in Seq(Messages)
                /\ \A i \in DOMAIN Tail(s) : Tail(s)[i].ver <= Newest
                /\ Head(s) \in Messages /\ Head(s).ver \in 0..Newest
                /\ Head(s).kind \in Kinds
<1>1. ASSUME NEW m \in Messages, m.ver <= Newest
      PROVE  /\ Append(s, m) \in Seq(Messages)
             /\ \A i \in DOMAIN Append(s, m) : Append(s, m)[i].ver <= Newest
  BY <1>1, Appended
<1>2. ASSUME s # <<>>
      PROVE  /\ Tail(s) \in Seq(Messages)
             /\ \A i \in DOMAIN Tail(s) : Tail(s)[i].ver <= Newest
             /\ Head(s) \in Messages /\ Head(s).ver \in 0..Newest
             /\ Head(s).kind \in Kinds
  <2>1. /\ Tail(s) \in Seq(Messages) /\ Head(s) \in Messages /\ Head(s).ver <= Newest
        /\ \A i \in DOMAIN Tail(s) : Tail(s)[i].ver <= Newest
    BY <1>2, Taken
  <2>2. Head(s).ver \in 0..MaxCopies /\ Newest \in 0..MaxCopies /\ Head(s).kind \in Kinds
    BY <2>1 DEF Messages, Versions, CopiesTyped
  <2>3. QED
    BY <2>1, <2>2, ShareAssumption DEF ShareAssumption
<1>3. QED
  BY <1>1, <1>2

\* A list grows with the copies.
LEMMA MessagesGrow ==
    ASSUME CopiesTyped, Newest' = Newest + 1,
           NEW s \in Seq(Messages), \A i \in DOMAIN s : s[i].ver <= Newest
    PROVE  \A i \in DOMAIN s : s[i].ver <= Newest'
<1>1. ASSUME NEW i \in DOMAIN s
      PROVE  s[i].ver \in 0..MaxCopies /\ Newest \in 0..MaxCopies
  <2>1. s[i] \in Messages
    BY LenProperties, ElementOfSeq
  <2>2. QED
    BY <2>1 DEF Messages, Versions, CopiesTyped
<1>2. QED
  BY <1>1, ShareAssumption DEF ShareAssumption

\* A message the client or the server builds from what it has.
LEMMA Sendable ==
    ASSUME CopiesTyped, NEW kind \in Kinds, NEW v \in 0..Newest,
           NEW type \in {"list", "fetch", "contents", "data", "chunk"}
    PROVE  /\ Msg(type, kind, v) \in Messages /\ Msg(type, kind, v).ver <= Newest
           /\ Msg(type, AskedAs(kind), v) \in Messages
           /\ Msg(type, AskedAs(kind), v).ver <= Newest
<1>1. v \in Versions /\ v <= Newest /\ AskedAs(kind) \in Kinds
  BY Built, ShareAssumption DEF CopiesTyped, Versions, ShareAssumption
<1>2. QED
  BY <1>1, Built


\* No copy is ever taken back or changed.
LEMMA CopiesGrow ==
    ASSUME IInv, [Next]_vars
    PROVE  /\ CopiesTyped' /\ Newest \in Nat /\ Newest' \in Nat /\ Newest <= Newest'
           /\ \A v \in 1..Newest : copied'[v] = copied[v]
           /\ \A v \in 0..Newest : Kind(v)' = Kind(v)
<1>a. CopiesTyped /\ MacTyped /\ VersionsTyped /\ LinkTyped
  BY TypeParts DEF IInv
<1>c. Newest \in Nat /\ Newest <= MaxCopies
  BY <1>a, ShareAssumption DEF CopiesTyped, ShareAssumption
<1>d. ASSUME copied' = copied
      PROVE  /\ CopiesTyped' /\ Newest' = Newest
             /\ \A v \in 0..Newest : Kind(v)' = Kind(v)
  BY <1>a, <1>d DEF CopiesTyped, Newest, Kind
<1>1. CASE \E kind \in MacKinds : MacCopy(kind)
  <2>1. PICK kind \in MacKinds : MacCopy(kind)
    BY <1>1
  <2>2. kind \in Kinds /\ Copy(kind, "mac")
    BY <2>1, ShareAssumption DEF MacCopy, ShareAssumption, Offered, Kinds
  <2>3. /\ CopiesTyped' /\ Newest' = Newest + 1
        /\ \A v \in 1..Newest : copied'[v] = copied[v]
        /\ \A v \in 0..Newest : Kind(v)' = Kind(v)
    BY <1>a, <2>2, CopyAdds
  <2>4. QED
    BY <1>c, <2>3
<1>2. CASE \E kind \in VmKinds : VmCopy(kind)
  <2>1. PICK kind \in VmKinds : VmCopy(kind)
    BY <1>2
  <2>2. kind \in Kinds /\ Copy(kind, "vm")
    BY <2>1, ShareAssumption DEF VmCopy, ShareAssumption, Offered, Kinds
  <2>3. /\ CopiesTyped' /\ Newest' = Newest + 1
        /\ \A v \in 1..Newest : copied'[v] = copied[v]
        /\ \A v \in 0..Newest : Kind(v)' = Kind(v)
    BY <1>a, <2>2, CopyAdds
  <2>4. QED
    BY <1>c, <2>3
<1>3. CASE Paste
  BY <1>3, <1>c, <1>d DEF Paste
<1>4. CASE VmGetsList /\ ServerFrame
  BY <1>4, <1>c, <1>d DEF VmGetsList, VmGets, GiveUp, ServerFrame
<1>5. CASE VmGetsFetch /\ ServerFrame
  BY <1>5, <1>c, <1>d DEF VmGetsFetch, VmGets, ServerFrame
<1>6. CASE VmGetsAnswer /\ ServerFrame
  BY <1>6, <1>c, <1>d DEF VmGetsAnswer, VmGets, ServerFrame
<1>7. CASE FormatList /\ ChannelFrame
  BY <1>7, <1>c, <1>d DEF FormatList, Gets, ChannelFrame
<1>8. CASE DataResponse /\ ChannelFrame
  BY <1>8, <1>c, <1>d DEF DataResponse, Gets, Post, ChannelFrame
<1>9. CASE FilesReceived /\ ChannelFrame
  BY <1>9, <1>c, <1>d DEF FilesReceived, Post, ChannelFrame
<1>10. CASE FormatDataRequest /\ ChannelFrame
  BY <1>10, <1>c, <1>d DEF FormatDataRequest, Gets, Answers, ChannelFrame
<1>11. CASE FileContentsRequest /\ ChannelFrame
  BY <1>11, <1>c, <1>d DEF FileContentsRequest, Gets, Answers, ChannelFrame
<1>12. CASE SendOffer /\ offer # 0 /\ MainFrame
  BY <1>12, <1>c, <1>d DEF SendOffer, MainFrame
<1>13. CASE DataChanged /\ offer = 0 /\ MainFrame
  BY <1>13, <1>c, <1>d DEF DataChanged, Notice, MainFrame
<1>14. CASE RunPosted /\ offer = 0 /\ MainFrame
  BY <1>14, <1>c, <1>d DEF RunPosted, SetUrls, SetFromRemote, Notice, MainFrame
<1>15. CASE Disconnect \/ SessionEnds
  BY <1>15, <1>c, <1>d DEF Disconnect, SessionEnds, HangUp
<1>16. CASE Reconnect \/ MonitorReady
  BY <1>16, <1>c, <1>d DEF Reconnect, MonitorReady
<1>17. CASE UNCHANGED vars
  BY <1>17, <1>c, <1>d DEF vars
<1>18. QED
  BY <1>1, <1>2, <1>3, <1>4, <1>5, <1>6, <1>7, <1>8, <1>9, <1>10, <1>11,
     <1>12, <1>13, <1>14, <1>15, <1>16, <1>17, StepCases

\* The kind a version has after the step; it has not changed.
KindThen(v) == IF v = 0 THEN "nothing" ELSE copied'[v].kind

LEMMA KindsKept ==
    ASSUME IInv, [Next]_vars
    PROVE  \A v \in 0..Newest : KindThen(v) = Kind(v)
  BY CopiesGrow DEF KindThen, Kind


\* A queue that is kept, cleared, taken from or added to holds messages of versions
\* that are there.
LEMMA MessagesMove ==
    ASSUME CopiesTyped, CopiesTyped', Newest <= Newest', NEW s \in Seq(Messages),
           \A i \in DOMAIN s : s[i].ver <= Newest, NEW t,
           \/ t = s \/ t = <<>>
           \/ s # <<>> /\ t = Tail(s)
           \/ \E m \in Messages : m.ver <= Newest' /\ t = Append(s, m)
    PROVE  t \in Seq(Messages) /\ \A i \in DOMAIN t : t[i].ver <= Newest'
<1>1. /\ Newest \in 0..MaxCopies /\ Newest' \in 0..MaxCopies /\ MaxCopies \in Nat
  BY ShareAssumption DEF CopiesTyped, ShareAssumption
<1>2. \A i \in DOMAIN s : s[i] \in Messages
  BY ElementOfSeq, LenProperties
<1>3. \A i \in DOMAIN s : s[i].ver <= Newest'
  BY <1>1, <1>2 DEF Messages, Versions
<1>4. CASE t = <<>>
  BY <1>4, EmptySeq
<1>5. CASE s # <<>> /\ t = Tail(s)
  BY <1>3, <1>5, Taken
<1>6. ASSUME NEW m \in Messages, m.ver <= Newest', t = Append(s, m)
      PROVE  t \in Seq(Messages) /\ \A i \in DOMAIN t : t[i].ver <= Newest'
  BY <1>3, <1>6, Appended
<1>7. QED
  BY <1>3, <1>4, <1>5, <1>6


\* How the messages to the machine move.
LEMMA ToVmMoves ==
    ASSUME IInv, [Next]_vars
    PROVE  \/ toVm' = toVm
           \/ toVm' = <<>> /\ toClient' = <<>> /\ paste' = Idle
           \/ toVm # <<>> /\ toVm' = Tail(toVm)
           \/ \E m \in Messages : m.ver <= Newest /\ toVm' = Append(toVm, m)
<1>a. CopiesTyped /\ MacTyped /\ VersionsTyped /\ LinkTyped
  BY TypeParts DEF IInv
<1>b. ToVmTyped /\ ToClientTyped /\ PasteTyped /\ PostsTyped
  BY WireParts DEF IInv
<1>c. Newest \in Nat /\ Newest <= MaxCopies
  BY <1>a, ShareAssumption DEF CopiesTyped, ShareAssumption
<1>1. CASE \E kind \in MacKinds : MacCopy(kind)
  BY <1>1 DEF MacCopy, wires
<1>2. CASE \E kind \in VmKinds : VmCopy(kind)
  BY <1>2 DEF VmCopy
<1>3. CASE Paste
  BY <1>3 DEF Paste, wires, vars
<1>4. CASE VmGetsList /\ ServerFrame
  BY <1>4 DEF VmGetsList, VmGets, GiveUp, ServerFrame, wires, vars
<1>5. CASE VmGetsFetch /\ ServerFrame
  BY <1>5 DEF VmGetsFetch, VmGets, ServerFrame, wires, vars
<1>6. CASE VmGetsAnswer /\ ServerFrame
  BY <1>6 DEF VmGetsAnswer, VmGets, ServerFrame, wires, vars
<1>7. CASE FormatList /\ ChannelFrame
  <2>1. /\ Head(toClient).kind \in Kinds /\ 0 \in 0..Newest
        /\ toVm' = Append(toVm, Msg("fetch", AskedAs(Head(toClient).kind), 0))
    BY <1>7, <1>b, <1>c, MessagesKept, <1>a DEF ToClientTyped, FormatList, Gets
  <2>2. QED
    BY <2>1, <1>a, Sendable
<1>8. CASE DataResponse /\ ChannelFrame
  BY <1>8 DEF DataResponse, Gets, Post, ChannelFrame, wires, vars
<1>9. CASE FilesReceived /\ ChannelFrame
  BY <1>9 DEF FilesReceived, Post, ChannelFrame, wires, vars
<1>10. CASE FormatDataRequest /\ ChannelFrame
  <2>1. \/ toVm' = toVm
        \/ \E v \in {local, mac, 0} : toVm' = Append(toVm, Msg("data", Head(toClient).kind, v))
    BY <1>10 DEF FormatDataRequest, Answers
  <2>2. Head(toClient).kind \in Kinds /\ \A v \in {local, mac, 0} : v \in 0..Newest
    BY <1>10, <1>b, <1>c, MessagesKept, <1>a DEF ToClientTyped, FormatDataRequest, Gets, MacTyped
  <2>3. QED
    BY <2>1, <2>2, <1>a, Sendable
<1>11. CASE FileContentsRequest /\ ChannelFrame
  <2>1. \E v \in {local, 0} : toVm' = Append(toVm, Msg("chunk", "files", v))
    BY <1>11 DEF FileContentsRequest, Answers
  <2>2. "files" \in Kinds /\ \A v \in {local, 0} : v \in 0..Newest
    BY <1>a, <1>c DEF Kinds, MacTyped
  <2>3. QED
    BY <2>1, <2>2, <1>a, Sendable
<1>12. CASE SendOffer /\ offer # 0 /\ MainFrame
  <2>1. \/ toVm' = toVm
        \/ toVm' = Append(toVm, Msg("list", Kind(offer), offer))
    BY <1>12 DEF SendOffer
  <2>2. Kind(offer) \in Kinds /\ offer \in 0..Newest
    BY <1>a, KindType DEF MacTyped
  <2>3. QED
    BY <2>1, <2>2, <1>a, Sendable
<1>13. CASE DataChanged /\ offer = 0 /\ MainFrame
  BY <1>13 DEF DataChanged, Notice, MainFrame, wires, vars
<1>14. CASE RunPosted /\ offer = 0 /\ MainFrame
  BY <1>14 DEF RunPosted, SetUrls, SetFromRemote, Notice, MainFrame, wires, vars
<1>15. CASE Disconnect \/ SessionEnds
  BY <1>15 DEF Disconnect, SessionEnds, HangUp, wires, vars
<1>16. CASE Reconnect \/ MonitorReady
  BY <1>16 DEF Reconnect, MonitorReady, wires, vars
<1>17. CASE UNCHANGED vars
  BY <1>17 DEF vars, wires, vars
<1>18. QED
  BY <1>1, <1>2, <1>3, <1>4, <1>5, <1>6, <1>7, <1>8, <1>9, <1>10, <1>11,
     <1>12, <1>13, <1>14, <1>15, <1>16, <1>17, StepCases

\* How the messages to the client move.
LEMMA ToClientMoves ==
    ASSUME IInv, [Next]_vars
    PROVE  \/ toClient' = toClient \/ toClient' = <<>>
           \/ toClient # <<>> /\ toClient' = Tail(toClient)
           \/ \E m \in Messages :
                 /\ m.ver <= Newest' /\ toClient' = Append(toClient, m)
                 /\ m.type = "data" /\ m.ver # 0 => m.kind = KindThen(m.ver)
<1>a. CopiesTyped /\ MacTyped /\ VersionsTyped /\ LinkTyped
  BY TypeParts DEF IInv
<1>b. ToVmTyped /\ ToClientTyped /\ PasteTyped /\ PostsTyped
  BY WireParts DEF IInv
<1>c. Newest \in Nat /\ Newest <= MaxCopies
  BY <1>a, ShareAssumption DEF CopiesTyped, ShareAssumption
<1>1. CASE \E kind \in MacKinds : MacCopy(kind)
  BY <1>1 DEF MacCopy, wires
<1>2. CASE \E kind \in VmKinds : VmCopy(kind)
  <2>1. PICK kind \in VmKinds : VmCopy(kind)
    BY <1>2
  <2>2. kind \in Kinds /\ Copy(kind, "vm")
    BY <2>1, ShareAssumption DEF VmCopy, ShareAssumption, Offered, Kinds
  <2>3. /\ CopiesTyped' /\ Newest' = Newest + 1
        /\ \A v \in 1..Newest : copied'[v] = copied[v]
        /\ \A v \in 0..Newest : Kind(v)' = Kind(v)
    BY <1>a, <2>2, CopyAdds
  <2>4. Newest + 1 \in (0..Newest)'
    BY <1>c, <2>3
  <2>5. toClient' = Append(toClient, Msg("list", kind, Newest + 1))
    BY <2>1 DEF VmCopy
  <2>6. Msg("list", kind, Newest + 1) \in Messages /\ Msg("list", kind, Newest + 1).type = "list" /\ Msg("list", kind, Newest + 1).ver <= Newest'
    BY <1>c, <2>2, <2>3, <2>4, Built DEF Versions, CopiesTyped
  <2>7. QED
    BY <2>5, <2>6
<1>3. CASE Paste
  <2>1. toClient' = Append(toClient, Msg("fetch", AskedAs(Kind(vm.ver)), 0))
    BY <1>3 DEF Paste
  <2>2. Kind(vm.ver) \in Kinds /\ 0 \in 0..Newest /\ copied' = copied
    BY <1>3, <1>a, <1>c, KindType DEF VersionsTyped, Paste
  <2>3. QED
    BY <2>1, <2>2, <1>a, Sendable DEF Newest, Msg
<1>4. CASE VmGetsList /\ ServerFrame
  BY <1>4 DEF VmGetsList, VmGets, GiveUp, ServerFrame, wires, vars
<1>5. CASE VmGetsFetch /\ ServerFrame
  <2>1. \/ toClient' = Append(toClient, Msg("data", Kind(vm.ver), vm.ver))
        \/ toClient' = Append(toClient, Msg("data", Head(toVm).kind, 0))
    BY <1>5 DEF VmGetsFetch
  <2>2. /\ Kind(vm.ver) \in Kinds /\ vm.ver \in 0..Newest /\ 0 \in 0..Newest
        /\ copied' = copied
    BY <1>5, <1>a, <1>c, KindType DEF VersionsTyped, ServerFrame
  <2>3. Head(toVm).kind \in Kinds
    BY <1>5, <1>a, <1>b, MessagesKept DEF ToVmTyped, VmGetsFetch, VmGets
  <2>4. QED
    BY <2>1, <2>2, <2>3, <1>a, Sendable DEF Newest, Msg, Kind, KindThen
<1>6. CASE VmGetsAnswer /\ ServerFrame
  <2>1. toClient' = toClient \/ toClient' = Append(toClient, Msg("contents", "files", 0))
    BY <1>6 DEF VmGetsAnswer
  <2>2. "files" \in Kinds /\ 0 \in 0..Newest /\ copied' = copied
    BY <1>6, <1>a, <1>c DEF Kinds, ServerFrame
  <2>3. QED
    BY <2>1, <2>2, <1>a, Sendable DEF Newest, Msg
<1>7. CASE FormatList /\ ChannelFrame
  BY <1>7 DEF FormatList, Gets, ChannelFrame, wires, vars
<1>8. CASE DataResponse /\ ChannelFrame
  BY <1>8 DEF DataResponse, Gets, Post, ChannelFrame, wires, vars
<1>9. CASE FilesReceived /\ ChannelFrame
  BY <1>9 DEF FilesReceived, Post, ChannelFrame, wires, vars
<1>10. CASE FormatDataRequest /\ ChannelFrame
  BY <1>10 DEF FormatDataRequest, Gets, Answers, ChannelFrame, wires, vars
<1>11. CASE FileContentsRequest /\ ChannelFrame
  BY <1>11 DEF FileContentsRequest, Gets, Answers, ChannelFrame, wires, vars
<1>12. CASE SendOffer /\ offer # 0 /\ MainFrame
  BY <1>12 DEF SendOffer, MainFrame, wires, vars
<1>13. CASE DataChanged /\ offer = 0 /\ MainFrame
  BY <1>13 DEF DataChanged, Notice, MainFrame, wires, vars
<1>14. CASE RunPosted /\ offer = 0 /\ MainFrame
  BY <1>14 DEF RunPosted, SetUrls, SetFromRemote, Notice, MainFrame, wires, vars
<1>15. CASE Disconnect \/ SessionEnds
  BY <1>15 DEF Disconnect, SessionEnds, HangUp, wires, vars
<1>16. CASE Reconnect \/ MonitorReady
  BY <1>16 DEF Reconnect, MonitorReady, wires, vars
<1>17. CASE UNCHANGED vars
  BY <1>17 DEF vars, wires, vars
<1>18. QED
  BY <1>1, <1>2, <1>3, <1>4, <1>5, <1>6, <1>7, <1>8, <1>9, <1>10, <1>11,
     <1>12, <1>13, <1>14, <1>15, <1>16, <1>17, StepCases

\* Messages keep their types.
LEMMA MessagesStep ==
    ASSUME IInv, [Next]_vars
    PROVE  ToVmTyped' /\ ToClientTyped'
<1>1. /\ CopiesTyped /\ CopiesTyped' /\ Newest <= Newest'
      /\ Newest \in Nat /\ Newest' \in Nat
  BY TypeParts, CopiesGrow DEF IInv
<1>2. ToVmTyped /\ ToClientTyped
  BY WireParts DEF IInv
<1>3. \A m \in Messages : m.ver <= Newest => m.ver <= Newest'
  BY <1>1, ShareAssumption DEF Messages, Versions, ShareAssumption
<1>4. ToVmTyped'
  <2>1. \/ toVm' = toVm \/ toVm' = <<>>
        \/ toVm # <<>> /\ toVm' = Tail(toVm)
        \/ \E m \in Messages : m.ver <= Newest' /\ toVm' = Append(toVm, m)
    BY <1>3, ToVmMoves
  <2>2. QED
    BY <1>1, <1>2, <2>1, MessagesMove DEF ToVmTyped
<1>5. ToClientTyped'
  BY <1>1, <1>2, ToClientMoves, MessagesMove DEF ToClientTyped
<1>6. QED
  BY <1>4, <1>5


\* How the lambdas move.
LEMMA PostedMoves ==
    ASSUME IInv, [Next]_vars
    PROVE  \/ posted' = posted
           \/ posted # <<>> /\ posted' = Tail(posted)
           \/ \E p \in Posts :
                 /\ p.ver \in 1..Newest /\ (p.kind = "files" => Kind(p.ver) = "files")
                 /\ posted' = Append(posted, p)
<1>a. CopiesTyped /\ MacTyped /\ VersionsTyped /\ LinkTyped
  BY TypeParts DEF IInv
<1>b. ToVmTyped /\ ToClientTyped /\ PasteTyped /\ PostsTyped
  BY WireParts DEF IInv
<1>c. Newest \in Nat /\ Newest <= MaxCopies
  BY <1>a, ShareAssumption DEF CopiesTyped, ShareAssumption
<1>1. CASE \E kind \in MacKinds : MacCopy(kind)
  BY <1>1 DEF MacCopy, Copy, macVars, recvVars, linkVars, vmVars, wires, vars
<1>2. CASE \E kind \in VmKinds : VmCopy(kind)
  BY <1>2 DEF VmCopy, Copy, GiveUp, macVars, recvVars, linkVars, vmVars, wires, vars
<1>3. CASE Paste
  BY <1>3 DEF Paste, macVars, recvVars, linkVars, vmVars, wires, vars
<1>4. CASE VmGetsList /\ ServerFrame
  BY <1>4 DEF VmGetsList, VmGets, GiveUp, ServerFrame, macVars, recvVars, linkVars, vmVars, wires, vars
<1>5. CASE VmGetsFetch /\ ServerFrame
  BY <1>5 DEF VmGetsFetch, VmGets, ServerFrame, macVars, recvVars, linkVars, vmVars, wires, vars
<1>6. CASE VmGetsAnswer /\ ServerFrame
  BY <1>6 DEF VmGetsAnswer, VmGets, ServerFrame, macVars, recvVars, linkVars, vmVars, wires, vars
<1>7. CASE FormatList /\ ChannelFrame
  BY <1>7 DEF FormatList, Gets, ChannelFrame, macVars, recvVars, linkVars, vmVars, wires, vars
<1>8. CASE DataResponse /\ ChannelFrame
  <2>1. toClient # <<>>
    BY <1>8 DEF DataResponse, Gets
  <2>2. Head(toClient) \in Messages /\ Head(toClient).ver \in 0..Newest
    BY <2>1, <1>a, <1>b, MessagesKept DEF ToClientTyped
  <2>3. \/ posted' = posted
        \/ /\ Head(toClient).ver # 0 /\ slot # "files"
           /\ posted' = Append(posted, [kind |-> slot, real |-> Head(toClient).kind,
                                        ver |-> Head(toClient).ver])
    BY <1>8 DEF DataResponse, Post
  <2>4. CASE posted' = posted
    BY <2>4
  <2>5. CASE posted' # posted
    <3> DEFINE p == [kind |-> slot, real |-> Head(toClient).kind, ver |-> Head(toClient).ver]
    <3>1. p \in Posts
      BY <2>2, <1>b DEF PostsTyped, Posts, Messages
    <3>2. p.ver \in 1..Newest /\ p.kind # "files" /\ posted' = Append(posted, p)
      BY <2>2, <2>3, <2>5, <1>c
    <3>3. QED
      BY <3>1, <3>2
  <2>6. QED
    BY <2>4, <2>5
<1>9. CASE FilesReceived /\ ChannelFrame
  <2> DEFINE p == [kind |-> "files", real |-> "files", ver |-> incoming]
  <2>1. posted' = posted \/ posted' = Append(posted, p)
    BY <1>9 DEF FilesReceived, Post
  <2>2. p \in Posts
    BY <1>a, <1>c, ShareAssumption DEF VersionsTyped, Posts, Kinds, Versions, ShareAssumption
  <2>3. p.ver \in 1..Newest /\ Kind(p.ver) = "files"
    BY <1>9, <1>a, <1>c DEF FilesReceived, VersionsTyped, IInv, SourcesKnown
  <2>4. QED
    BY <2>1, <2>2, <2>3
<1>10. CASE FormatDataRequest /\ ChannelFrame
  BY <1>10 DEF FormatDataRequest, Gets, Answers, ChannelFrame, macVars, recvVars, linkVars, vmVars, wires, vars
<1>11. CASE FileContentsRequest /\ ChannelFrame
  BY <1>11 DEF FileContentsRequest, Gets, Answers, ChannelFrame, macVars, recvVars, linkVars, vmVars, wires, vars
<1>12. CASE SendOffer /\ offer # 0 /\ MainFrame
  BY <1>12 DEF SendOffer, MainFrame, macVars, recvVars, linkVars, vmVars, wires, vars
<1>13. CASE DataChanged /\ offer = 0 /\ MainFrame
  BY <1>13 DEF DataChanged, Notice, MainFrame, macVars, recvVars, linkVars, vmVars, wires, vars
<1>14. CASE RunPosted /\ offer = 0 /\ MainFrame
  BY <1>14 DEF RunPosted, SetUrls, SetFromRemote, Notice, MainFrame, macVars, recvVars, linkVars, vmVars, wires, vars
<1>15. CASE Disconnect \/ SessionEnds
  BY <1>15 DEF Disconnect, SessionEnds, HangUp, macVars, recvVars, linkVars, vmVars, wires, vars
<1>16. CASE Reconnect \/ MonitorReady
  BY <1>16 DEF Reconnect, MonitorReady, macVars, recvVars, linkVars, vmVars, wires, vars
<1>17. CASE UNCHANGED vars
  BY <1>17 DEF vars, macVars, recvVars, linkVars, vmVars, wires, vars
<1>18. QED
  BY <1>1, <1>2, <1>3, <1>4, <1>5, <1>6, <1>7, <1>8, <1>9, <1>10, <1>11,
     <1>12, <1>13, <1>14, <1>15, <1>16, <1>17, StepCases

\* Lambdas keep their types, and only a list is received as one.
LEMMA PostedStep ==
    ASSUME IInv, [Next]_vars
    PROVE  /\ posted' \in Seq(Posts)
           /\ \A i \in DOMAIN posted' :
                 /\ posted'[i].ver \in 1..Newest'
                 /\ posted'[i].kind = "files" => KindThen(posted'[i].ver) = "files"
<1> DEFINE Fine(p) == p.ver \in 1..Newest' /\ (p.kind = "files" => KindThen(p.ver) = "files")
<1>1. /\ Newest \in Nat /\ Newest' \in Nat /\ Newest <= Newest'
      /\ \A v \in 0..Newest : KindThen(v) = Kind(v)
  BY CopiesGrow, KindsKept
<1>2. ASSUME NEW p, p.ver \in 1..Newest, p.kind = "files" => Kind(p.ver) = "files"
      PROVE  Fine(p)
  BY <1>1, <1>2, KindsKept
<1>3. posted \in Seq(Posts) /\ \A i \in DOMAIN posted : Fine(posted[i])
  <2> HIDE DEF Fine
  <2>1. posted \in Seq(Posts)
    BY WireParts DEF IInv, PostsTyped
  <2>2. ASSUME NEW i \in DOMAIN posted
        PROVE  Fine(posted[i])
    <3>1. posted[i].ver \in 1..Newest /\ (posted[i].kind = "files" => Kind(posted[i].ver) = "files")
      BY <2>2, TypeParts DEF IInv, VersionsTyped, SourcesKnown
    <3>2. QED
      BY <3>1, <1>2
  <2>3. QED
    BY <2>1, <2>2
<1>4. /\ posted' \in Seq(Posts)
      /\ \A i \in DOMAIN posted' : Fine(posted'[i])
  <2> HIDE DEF Fine
  <2>1. CASE posted' = posted
    BY <2>1, <1>3
  <2>2. CASE posted # <<>> /\ posted' = Tail(posted)
    BY <2>2, <1>3, Taken
  <2>3. ASSUME NEW p \in Posts, Fine(p), posted' = Append(posted, p)
        PROVE  /\ posted' \in Seq(Posts)
               /\ \A i \in DOMAIN posted' : Fine(posted'[i])
    BY <2>3, <1>3, Appended
  <2>4. QED
    BY <2>1, <2>2, <2>3, <1>2, PostedMoves
<1>5. QED
  BY <1>4


\* What was asked for stays a kind.
LEMMA SlotStep ==
    ASSUME IInv, [Next]_vars
    PROVE  slot' \in Kinds
<1>a. CopiesTyped /\ MacTyped /\ VersionsTyped /\ LinkTyped
  BY TypeParts DEF IInv
<1>b. ToVmTyped /\ ToClientTyped /\ PasteTyped /\ PostsTyped
  BY WireParts DEF IInv
<1>c. Newest \in Nat /\ Newest <= MaxCopies
  BY <1>a, ShareAssumption DEF CopiesTyped, ShareAssumption
<1>d. slot \in Kinds
  BY <1>b DEF PostsTyped
<1>1. CASE \E kind \in MacKinds : MacCopy(kind)
  BY <1>1, <1>d DEF MacCopy, Copy, macVars, recvVars, linkVars, vmVars, wires, vars
<1>2. CASE \E kind \in VmKinds : VmCopy(kind)
  BY <1>2, <1>d DEF VmCopy, Copy, GiveUp, macVars, recvVars, linkVars, vmVars, wires, vars
<1>3. CASE Paste
  BY <1>3, <1>d DEF Paste, macVars, recvVars, linkVars, vmVars, wires, vars
<1>4. CASE VmGetsList /\ ServerFrame
  BY <1>4, <1>d DEF VmGetsList, VmGets, GiveUp, ServerFrame, macVars, recvVars, linkVars, vmVars, wires, vars
<1>5. CASE VmGetsFetch /\ ServerFrame
  BY <1>5, <1>d DEF VmGetsFetch, VmGets, ServerFrame, macVars, recvVars, linkVars, vmVars, wires, vars
<1>6. CASE VmGetsAnswer /\ ServerFrame
  BY <1>6, <1>d DEF VmGetsAnswer, VmGets, ServerFrame, macVars, recvVars, linkVars, vmVars, wires, vars
<1>7. CASE FormatList /\ ChannelFrame
  <2>1. toClient # <<>> /\ slot' = AskedAs(Head(toClient).kind)
    BY <1>7 DEF FormatList, Gets
  <2>2. QED
    BY <2>1, <1>a, <1>b, MessagesKept, Built DEF ToClientTyped
<1>8. CASE DataResponse /\ ChannelFrame
  BY <1>8, <1>d DEF DataResponse, Gets, Post, ChannelFrame, macVars, recvVars, linkVars, vmVars, wires, vars
<1>9. CASE FilesReceived /\ ChannelFrame
  BY <1>9, <1>d DEF FilesReceived, Post, ChannelFrame, macVars, recvVars, linkVars, vmVars, wires, vars
<1>10. CASE FormatDataRequest /\ ChannelFrame
  BY <1>10, <1>d DEF FormatDataRequest, Gets, Answers, ChannelFrame, macVars, recvVars, linkVars, vmVars, wires, vars
<1>11. CASE FileContentsRequest /\ ChannelFrame
  BY <1>11, <1>d DEF FileContentsRequest, Gets, Answers, ChannelFrame, macVars, recvVars, linkVars, vmVars, wires, vars
<1>12. CASE SendOffer /\ offer # 0 /\ MainFrame
  BY <1>12, <1>d DEF SendOffer, MainFrame, macVars, recvVars, linkVars, vmVars, wires, vars
<1>13. CASE DataChanged /\ offer = 0 /\ MainFrame
  BY <1>13, <1>d DEF DataChanged, Notice, MainFrame, macVars, recvVars, linkVars, vmVars, wires, vars
<1>14. CASE RunPosted /\ offer = 0 /\ MainFrame
  BY <1>14, <1>d DEF RunPosted, SetUrls, SetFromRemote, Notice, MainFrame, macVars, recvVars, linkVars, vmVars, wires, vars
<1>15. CASE Disconnect \/ SessionEnds
  BY <1>15, <1>d DEF Disconnect, SessionEnds, HangUp, macVars, recvVars, linkVars, vmVars, wires, vars
<1>16. CASE Reconnect \/ MonitorReady
  BY <1>16, <1>d DEF Reconnect, MonitorReady, macVars, recvVars, linkVars, vmVars, wires, vars
<1>17. CASE UNCHANGED vars
  BY <1>17, <1>d DEF vars, macVars, recvVars, linkVars, vmVars, wires, vars
<1>18. QED
  BY <1>1, <1>2, <1>3, <1>4, <1>5, <1>6, <1>7, <1>8, <1>9, <1>10, <1>11,
     <1>12, <1>13, <1>14, <1>15, <1>16, <1>17, StepCases

\* A paste that is given up is the same paste.
LEMMA GivenUp ==
    ASSUME PasteTyped
    PROVE  /\ GiveUp(paste) \in Pastes /\ GiveUp(paste).got = paste.got
           /\ GiveUp(paste).at = "idle" => GiveUp(paste) = Idle
           /\ GiveUp(paste) = Idle <=> paste = Idle
           /\ GiveUp(paste) # Idle => GiveUp(paste).stale
<1>1. CASE paste.at = "idle"
  BY <1>1 DEF PasteTyped, GiveUp, Idle
<1>2. CASE paste.at # "idle"
  <2> DEFINE given == [at |-> paste.at, left |-> paste.left, got |-> paste.got,
                       stale |-> TRUE]
  <2>1. paste \in Pastes /\ GiveUp(paste) = [paste EXCEPT !.stale = TRUE]
    BY <1>2 DEF PasteTyped, GiveUp
  <2>2. GiveUp(paste) = given
    BY <2>1 DEF Pastes
  <2>3. given \in Pastes
    BY <2>1 DEF Pastes
  <2>4. given # Idle /\ paste # Idle /\ given.at # "idle" /\ given.got = paste.got
    BY <1>2 DEF Idle
  <2>5. given.stale = TRUE
    OBVIOUS
  <2>6. QED
    BY <2>2, <2>3, <2>4, <2>5
<1>3. QED
  BY <1>1, <1>2

\* The paste there may be next.
LEMMA IdleTyped == Idle \in Pastes /\ Idle.at = "idle" /\ Idle.got = {}
  BY DEF Idle, Pastes


\* A paste that gets a file.
LEMMA FilesPasted ==
    ASSUME NEW p \in Pastes, NEW left, NEW v, NEW q,
           q = [p EXCEPT !.at = "chunk", !.left = left, !.got = @ \cup {v}]
    PROVE  q = [at |-> "chunk", left |-> left, got |-> p.got \cup {v}, stale |-> p.stale]
  BY DEF Pastes


\* What the machine does with an answer: asks for the next file, or is done.
FilesLeft == IF paste.at = "data" THEN Files ELSE paste.left - 1
MoreFiles ==
    /\ ~paste.stale /\ Head(toVm).ver # 0 /\ FilesLeft > 0
    /\ Head(toVm).kind = "files"

LEMMA Answered ==
    ASSUME VmGetsAnswer, paste \in Pastes
    PROVE  \/ /\ MoreFiles
              /\ paste' = [at |-> "chunk", left |-> FilesLeft,
                           got |-> paste.got \cup {Head(toVm).ver}, stale |-> paste.stale]
              /\ toClient' = Append(toClient, Msg("contents", "files", 0))
           \/ paste' = Idle /\ toClient' = toClient
<1>1. ASSUME MoreFiles
      PROVE  /\ paste' = [paste EXCEPT !.at = "chunk", !.left = FilesLeft,
                                       !.got = @ \cup {Head(toVm).ver}]
             /\ toClient' = Append(toClient, Msg("contents", "files", 0))
  BY <1>1 DEF VmGetsAnswer, FilesLeft, MoreFiles
<1>2. ASSUME ~MoreFiles
      PROVE  paste' = Idle /\ toClient' = toClient
  BY <1>2 DEF VmGetsAnswer, FilesLeft, MoreFiles
<1>3. QED
  BY <1>1, <1>2, FilesPasted


\* The paste keeps its type, and is of versions that are there.
LEMMA PasteMoves ==
    ASSUME IInv, [Next]_vars
    PROVE  /\ paste' \in Pastes /\ (paste'.at = "idle" => paste' = Idle)
           /\ paste'.got \subseteq 1..Newest
<1>a. CopiesTyped /\ MacTyped /\ VersionsTyped /\ LinkTyped
  BY TypeParts DEF IInv
<1>b. ToVmTyped /\ ToClientTyped /\ PasteTyped /\ PostsTyped
  BY WireParts DEF IInv
<1>c. Newest \in Nat /\ Newest <= MaxCopies
  BY <1>a, ShareAssumption DEF CopiesTyped, ShareAssumption
<1>e. paste.got \subseteq 1..Newest
  BY <1>a DEF VersionsTyped
<1>d. /\ paste \in Pastes /\ (paste.at = "idle" => paste = Idle)
      /\ paste.got \subseteq 1..Newest
  BY <1>b, <1>e DEF PasteTyped
<1>1. CASE \E kind \in MacKinds : MacCopy(kind)
  BY <1>1, <1>d DEF MacCopy, Copy, macVars, recvVars, linkVars, vmVars, wires, vars
<1>2. CASE \E kind \in VmKinds : VmCopy(kind)
  BY <1>2, <1>b, <1>e, GivenUp DEF VmCopy
<1>3. CASE Paste
  <2>1. paste' = [Idle EXCEPT !.at = "data"]
    BY <1>3 DEF Paste
  <2>2. paste' = [at |-> "data", left |-> 0, got |-> {}, stale |-> FALSE]
    BY <2>1 DEF Idle
  <2>3. paste' \in Pastes
    BY <2>2 DEF Pastes
  <2>4. QED
    BY <2>2, <2>3
<1>4. CASE VmGetsList /\ ServerFrame
  BY <1>4, <1>b, <1>e, GivenUp DEF VmGetsList
<1>5. CASE VmGetsFetch /\ ServerFrame
  BY <1>5, <1>d DEF VmGetsFetch, VmGets, ServerFrame, macVars, recvVars, linkVars, vmVars, wires, vars
<1>6. CASE VmGetsAnswer /\ ServerFrame
  <2>1. /\ paste \in Pastes /\ paste.got \subseteq 1..Newest
        /\ Head(toVm).ver \in 0..Newest
    BY <1>6, <1>a, <1>b, <1>e, MessagesKept DEF ToVmTyped, PasteTyped, VmGetsAnswer, VmGets
  <2>2. FilesLeft \in Int
    BY <2>1, ShareAssumption DEF FilesLeft, Pastes, ShareAssumption
  <2>3. \/ paste' = Idle
        \/ /\ Head(toVm).ver # 0
           /\ paste' = [at |-> "chunk", left |-> FilesLeft,
                        got |-> paste.got \cup {Head(toVm).ver}, stale |-> paste.stale]
    BY <1>6, <2>1, Answered DEF MoreFiles
  <2>4. CASE paste' = Idle
    BY <2>4, IdleTyped
  <2>5. CASE paste' # Idle
    <3>1. Head(toVm).ver \in 1..Newest /\ Head(toVm).ver \in Nat
      BY <2>1, <2>3, <2>5, <1>c
    <3>2. paste' \in Pastes
      BY <2>1, <2>2, <2>3, <2>5, <3>1 DEF Pastes
    <3>3. paste'.at # "idle" /\ paste'.got \subseteq 1..Newest
      BY <2>1, <2>3, <2>5, <3>1
    <3>4. QED
      BY <3>2, <3>3
  <2>6. QED
    BY <2>4, <2>5
<1>7. CASE FormatList /\ ChannelFrame
  BY <1>7, <1>d DEF FormatList, Gets, ChannelFrame, macVars, recvVars, linkVars, vmVars, wires, vars
<1>8. CASE DataResponse /\ ChannelFrame
  BY <1>8, <1>d DEF DataResponse, Gets, Post, ChannelFrame, macVars, recvVars, linkVars, vmVars, wires, vars
<1>9. CASE FilesReceived /\ ChannelFrame
  BY <1>9, <1>d DEF FilesReceived, Post, ChannelFrame, macVars, recvVars, linkVars, vmVars, wires, vars
<1>10. CASE FormatDataRequest /\ ChannelFrame
  BY <1>10, <1>d DEF FormatDataRequest, Gets, Answers, ChannelFrame, macVars, recvVars, linkVars, vmVars, wires, vars
<1>11. CASE FileContentsRequest /\ ChannelFrame
  BY <1>11, <1>d DEF FileContentsRequest, Gets, Answers, ChannelFrame, macVars, recvVars, linkVars, vmVars, wires, vars
<1>12. CASE SendOffer /\ offer # 0 /\ MainFrame
  BY <1>12, <1>d DEF SendOffer, MainFrame, macVars, recvVars, linkVars, vmVars, wires, vars
<1>13. CASE DataChanged /\ offer = 0 /\ MainFrame
  BY <1>13, <1>d DEF DataChanged, Notice, MainFrame, macVars, recvVars, linkVars, vmVars, wires, vars
<1>14. CASE RunPosted /\ offer = 0 /\ MainFrame
  BY <1>14, <1>d DEF RunPosted, SetUrls, SetFromRemote, Notice, MainFrame, macVars, recvVars, linkVars, vmVars, wires, vars
<1>15. CASE Disconnect \/ SessionEnds
  BY <1>15, IdleTyped DEF Disconnect, SessionEnds, HangUp
<1>16. CASE Reconnect \/ MonitorReady
  BY <1>16, <1>d DEF Reconnect, MonitorReady, vmVars
<1>17. CASE UNCHANGED vars
  BY <1>17, <1>d DEF vars, macVars, recvVars, linkVars, vmVars, wires, vars
<1>18. QED
  BY <1>1, <1>2, <1>3, <1>4, <1>5, <1>6, <1>7, <1>8, <1>9, <1>10, <1>11,
     <1>12, <1>13, <1>14, <1>15, <1>16, <1>17, StepCases

\* What is received, and what the machine has, is there.
LEMMA ReceivedMoves ==
    ASSUME IInv, [Next]_vars
    PROVE  /\ incoming' \in 0..Newest'
           /\ vm' \in [ver : 0..Newest', own : {"mac", "vm"}]
<1>a. CopiesTyped /\ MacTyped /\ VersionsTyped /\ LinkTyped
  BY TypeParts DEF IInv
<1>b. ToVmTyped /\ ToClientTyped /\ PasteTyped /\ PostsTyped
  BY WireParts DEF IInv
<1>c. Newest \in Nat /\ Newest <= MaxCopies
  BY <1>a, ShareAssumption DEF CopiesTyped, ShareAssumption
<1>d. /\ incoming \in 0..Newest' /\ vm \in [ver : 0..Newest', own : {"mac", "vm"}]
      /\ Newest \in Nat /\ Newest' \in Nat /\ Newest <= Newest'
      /\ 0..Newest \subseteq 0..Newest'
  BY <1>a, CopiesGrow DEF VersionsTyped
<1>1. CASE \E kind \in MacKinds : MacCopy(kind)
  BY <1>1, <1>d DEF MacCopy, Copy, macVars, recvVars, linkVars, vmVars, wires, vars
<1>2. CASE \E kind \in VmKinds : VmCopy(kind)
  <2>1. PICK kind \in VmKinds : VmCopy(kind)
    BY <1>2
  <2>2. kind \in Kinds /\ Copy(kind, "vm")
    BY <2>1, ShareAssumption DEF VmCopy, ShareAssumption, Offered, Kinds
  <2>3. /\ CopiesTyped' /\ Newest' = Newest + 1
        /\ \A v \in 1..Newest : copied'[v] = copied[v]
        /\ \A v \in 0..Newest : Kind(v)' = Kind(v)
    BY <1>a, <2>2, CopyAdds
  <2>4. QED
    BY <1>c, <1>d, <2>1, <2>3 DEF VmCopy, recvVars
<1>3. CASE Paste
  BY <1>3, <1>d DEF Paste, macVars, recvVars, linkVars, vmVars, wires, vars
<1>4. CASE VmGetsList /\ ServerFrame
  <2>1. Head(toVm).ver \in 0..Newest
    BY <1>4, <1>a, <1>b, MessagesKept DEF ToVmTyped, VmGetsList, VmGets
  <2>2. QED
    BY <1>4, <1>d, <2>1 DEF VmGetsList, ServerFrame, recvVars
<1>5. CASE VmGetsFetch /\ ServerFrame
  BY <1>5, <1>d DEF VmGetsFetch, VmGets, ServerFrame, macVars, recvVars, linkVars, vmVars, wires, vars
<1>6. CASE VmGetsAnswer /\ ServerFrame
  BY <1>6, <1>d DEF VmGetsAnswer, VmGets, ServerFrame, macVars, recvVars, linkVars, vmVars, wires, vars
<1>7. CASE FormatList /\ ChannelFrame
  BY <1>7, <1>c, <1>d DEF FormatList, FilesReceived, ChannelFrame, vmVars
<1>8. CASE DataResponse /\ ChannelFrame
  <2>1. Head(toClient).ver \in 0..Newest
    BY <1>8, <1>a, <1>b, MessagesKept DEF ToClientTyped, DataResponse, Gets
  <2>2. incoming' \in {incoming, Head(toClient).ver} /\ vm' = vm
    BY <1>8 DEF DataResponse, ChannelFrame, vmVars, recvVars
  <2>3. QED
    BY <1>d, <2>1, <2>2
<1>9. CASE FilesReceived /\ ChannelFrame
  BY <1>9, <1>c, <1>d DEF FormatList, FilesReceived, ChannelFrame, vmVars
<1>10. CASE FormatDataRequest /\ ChannelFrame
  BY <1>10, <1>d DEF FormatDataRequest, Gets, Answers, ChannelFrame, macVars, recvVars, linkVars, vmVars, wires, vars
<1>11. CASE FileContentsRequest /\ ChannelFrame
  BY <1>11, <1>d DEF FileContentsRequest, Gets, Answers, ChannelFrame, macVars, recvVars, linkVars, vmVars, wires, vars
<1>12. CASE SendOffer /\ offer # 0 /\ MainFrame
  BY <1>12, <1>d DEF SendOffer, MainFrame, macVars, recvVars, linkVars, vmVars, wires, vars
<1>13. CASE DataChanged /\ offer = 0 /\ MainFrame
  BY <1>13, <1>d DEF DataChanged, Notice, MainFrame, macVars, recvVars, linkVars, vmVars, wires, vars
<1>14. CASE RunPosted /\ offer = 0 /\ MainFrame
  BY <1>14, <1>d DEF RunPosted, SetUrls, SetFromRemote, Notice, MainFrame, macVars, recvVars, linkVars, vmVars, wires, vars
<1>15. CASE Disconnect \/ SessionEnds
  <2>1. incoming' = incoming /\ vm' \in {vm, [ver |-> 0, own |-> "vm"]}
    BY <1>15 DEF Disconnect, SessionEnds, HangUp, recvVars
  <2>2. QED
    BY <2>1, <1>c, <1>d
<1>16. CASE Reconnect \/ MonitorReady
  BY <1>16, <1>d DEF Reconnect, MonitorReady, macVars, recvVars, linkVars, vmVars, wires, vars
<1>17. CASE UNCHANGED vars
  BY <1>17, <1>d DEF vars, macVars, recvVars, linkVars, vmVars, wires, vars
<1>18. QED
  BY <1>1, <1>2, <1>3, <1>4, <1>5, <1>6, <1>7, <1>8, <1>9, <1>10, <1>11,
     <1>12, <1>13, <1>14, <1>15, <1>16, <1>17, StepCases

\* So all of it keeps its types.
LEMMA TypesStep ==
    ASSUME IInv, [Next]_vars
    PROVE  TypeOK' /\ WiresTyped'
<1>1. Newest \in Nat /\ Newest' \in Nat /\ Newest <= Newest'
  BY CopiesGrow
<1>2. paste'.got \subseteq 1..Newest'
  BY <1>1, PasteMoves
<1>3. VersionsTyped'
  BY <1>2, ReceivedMoves, PostedStep DEF VersionsTyped
<1>4. TypeOK'
  BY <1>1, <1>3, CopiesStep, MacStep, LinkStep, ShareAssumption
     DEF TypeOK, CopiesTyped, MacTyped, VersionsTyped, LinkTyped, ShareAssumption
<1>5. PasteTyped' /\ PostsTyped'
  BY PasteMoves, PostedStep, SlotStep DEF PasteTyped, PostsTyped
<1>6. QED
  BY <1>4, <1>5, MessagesStep
     DEF WiresTyped, ToVmTyped, ToClientTyped, PasteTyped, PostsTyped


\* An answer to the client tells what it is.
LEMMA DataStep ==
    ASSUME IInv, [Next]_vars
    PROVE  \A i \in DOMAIN toClient' :
              LET m == toClient'[i] IN
              m.type = "data" /\ m.ver # 0 => m.kind = KindThen(m.ver)
<1> DEFINE Tells(m) == m.type = "data" /\ m.ver # 0 => m.kind = KindThen(m.ver)
<1>1. toClient \in Seq(Messages) /\ \A i \in DOMAIN toClient : Tells(toClient[i])
  <2>1. toClient \in Seq(Messages) /\ \A i \in DOMAIN toClient : toClient[i].ver <= Newest
    BY WireParts DEF IInv, ToClientTyped
  <2>2. ASSUME NEW i \in DOMAIN toClient
        PROVE  Tells(toClient[i])
    <3>1. toClient[i] \in Messages
      BY <2>1, ElementOfSeq, LenProperties
    <3>2. toClient[i].ver \in 0..Newest
      BY <2>1, <3>1, CopiesGrow, ShareAssumption DEF Messages, Versions, ShareAssumption
    <3>3. KindThen(toClient[i].ver) = Kind(toClient[i].ver)
      BY <3>2, KindsKept
    <3>4. QED
      BY <3>3 DEF IInv, SourcesKnown
  <2>3. QED
    BY <2>1, <2>2
<1> HIDE DEF Tells
<1>2. \A i \in DOMAIN toClient' : Tells(toClient'[i])
  <2>1. CASE toClient' = toClient
    BY <2>1, <1>1
  <2>2. CASE toClient' = <<>>
    BY <2>2
  <2>3. CASE toClient # <<>> /\ toClient' = Tail(toClient)
    BY <2>3, <1>1, Taken
  <2>4. ASSUME NEW m \in Messages, Tells(m), toClient' = Append(toClient, m)
        PROVE  \A i \in DOMAIN toClient' : Tells(toClient'[i])
    BY <2>4, <1>1, Appended
  <2>5. QED
    BY <2>1, <2>2, <2>3, <2>4, ToClientMoves DEF Tells
<1>3. QED
  BY <1>2 DEF Tells


\* What is received as a file list is one.
LEMMA IncomingStep ==
    ASSUME IInv, [Next]_vars
    PROVE  incoming' # 0 => KindThen(incoming') = "files" 
<1>a. CopiesTyped /\ MacTyped /\ VersionsTyped /\ LinkTyped
  BY TypeParts DEF IInv
<1>b. ToVmTyped /\ ToClientTyped /\ PasteTyped /\ PostsTyped
  BY WireParts DEF IInv
<1>c. Newest \in Nat /\ Newest <= MaxCopies
  BY <1>a, ShareAssumption DEF CopiesTyped, ShareAssumption
<1>d. incoming # 0 => Kind(incoming) = "files" /\ KindThen(incoming) = "files"
  BY <1>a, KindsKept DEF IInv, SourcesKnown, VersionsTyped
<1>1. CASE \E kind \in MacKinds : MacCopy(kind)
  BY <1>1, <1>d DEF MacCopy, Copy, macVars, recvVars, linkVars, vmVars, wires, vars
<1>2. CASE \E kind \in VmKinds : VmCopy(kind)
  BY <1>2, <1>d DEF VmCopy, Copy, GiveUp, macVars, recvVars, linkVars, vmVars, wires, vars
<1>3. CASE Paste
  BY <1>3, <1>d DEF Paste, macVars, recvVars, linkVars, vmVars, wires, vars
<1>4. CASE VmGetsList /\ ServerFrame
  BY <1>4, <1>d DEF VmGetsList, VmGets, GiveUp, ServerFrame, macVars, recvVars, linkVars, vmVars, wires, vars
<1>5. CASE VmGetsFetch /\ ServerFrame
  BY <1>5, <1>d DEF VmGetsFetch, VmGets, ServerFrame, macVars, recvVars, linkVars, vmVars, wires, vars
<1>6. CASE VmGetsAnswer /\ ServerFrame
  BY <1>6, <1>d DEF VmGetsAnswer, VmGets, ServerFrame, macVars, recvVars, linkVars, vmVars, wires, vars
<1>7. CASE FormatList /\ ChannelFrame
  BY <1>7, <1>d DEF FormatList, Gets, ChannelFrame, macVars, recvVars, linkVars, vmVars, wires, vars
<1>8. CASE DataResponse /\ ChannelFrame
  <2>1. toClient # <<>> /\ Head(toClient).type = "data"
    BY <1>8 DEF DataResponse, Gets
  <2>2. Head(toClient) = toClient[1] /\ 1 \in DOMAIN toClient
    BY <2>1, <1>b, Taken DEF ToClientTyped
  <2>3. Head(toClient).ver # 0 => Head(toClient).kind = Kind(Head(toClient).ver)
    BY <2>1, <2>2 DEF IInv, SourcesKnown
  <2>4. \/ incoming' = incoming
        \/ /\ incoming' = Head(toClient).ver /\ Head(toClient).ver # 0
           /\ Head(toClient).kind = "files"
    BY <1>8 DEF DataResponse, recvVars
  <2>5. KindThen(Head(toClient).ver) = Kind(Head(toClient).ver)
    BY <1>8 DEF ChannelFrame, Kind, KindThen
  <2>6. QED
    BY <2>3, <2>4, <2>5, <1>d
<1>9. CASE FilesReceived /\ ChannelFrame
  BY <1>9, <1>d DEF FilesReceived, Post, ChannelFrame, macVars, recvVars, linkVars, vmVars, wires, vars
<1>10. CASE FormatDataRequest /\ ChannelFrame
  BY <1>10, <1>d DEF FormatDataRequest, Gets, Answers, ChannelFrame, macVars, recvVars, linkVars, vmVars, wires, vars
<1>11. CASE FileContentsRequest /\ ChannelFrame
  BY <1>11, <1>d DEF FileContentsRequest, Gets, Answers, ChannelFrame, macVars, recvVars, linkVars, vmVars, wires, vars
<1>12. CASE SendOffer /\ offer # 0 /\ MainFrame
  BY <1>12, <1>d DEF SendOffer, MainFrame, macVars, recvVars, linkVars, vmVars, wires, vars
<1>13. CASE DataChanged /\ offer = 0 /\ MainFrame
  BY <1>13, <1>d DEF DataChanged, Notice, MainFrame, macVars, recvVars, linkVars, vmVars, wires, vars
<1>14. CASE RunPosted /\ offer = 0 /\ MainFrame
  BY <1>14, <1>d DEF RunPosted, SetUrls, SetFromRemote, Notice, MainFrame, macVars, recvVars, linkVars, vmVars, wires, vars
<1>15. CASE Disconnect \/ SessionEnds
  BY <1>15, <1>d DEF Disconnect, SessionEnds, HangUp, macVars, recvVars, linkVars, vmVars, wires, vars
<1>16. CASE Reconnect \/ MonitorReady
  BY <1>16, <1>d DEF Reconnect, MonitorReady, macVars, recvVars, linkVars, vmVars, wires, vars
<1>17. CASE UNCHANGED vars
  BY <1>17, <1>d DEF vars, macVars, recvVars, linkVars, vmVars, wires, vars
<1>18. QED
  BY <1>1, <1>2, <1>3, <1>4, <1>5, <1>6, <1>7, <1>8, <1>9, <1>10, <1>11,
     <1>12, <1>13, <1>14, <1>15, <1>16, <1>17, StepCases

\* Qt reports what was copied on the Mac only.
LEMMA SignalStep ==
    ASSUME IInv, [Next]_vars
    PROVE  signal' => mac' # 0 /\ copied'[mac'].side = "mac" 
<1>a. CopiesTyped /\ MacTyped /\ VersionsTyped /\ LinkTyped
  BY TypeParts DEF IInv
<1>b. ToVmTyped /\ ToClientTyped /\ PasteTyped /\ PostsTyped
  BY WireParts DEF IInv
<1>c. Newest \in Nat /\ Newest <= MaxCopies
  BY <1>a, ShareAssumption DEF CopiesTyped, ShareAssumption
<1>d. signal => mac # 0 /\ copied[mac].side = "mac" /\ copied'[mac].side = "mac"
  <2>1. signal => mac \in 1..Newest /\ copied[mac].side = "mac"
    BY <1>a, <1>c DEF IInv, SourcesKnown, MacTyped
  <2>2. QED
    BY <2>1, <1>c, CopiesGrow
<1>1. CASE \E kind \in MacKinds : MacCopy(kind)
  <2>1. PICK kind \in MacKinds : MacCopy(kind)
    BY <1>1
  <2>2. kind \in Kinds /\ Copy(kind, "mac")
    BY <2>1, ShareAssumption DEF MacCopy, ShareAssumption
  <2>3. copied'[Newest + 1] = [kind |-> kind, side |-> "mac"]
    BY <1>a, <2>2, CopyAdds
  <2>4. mac' = Newest + 1
    BY <2>1 DEF MacCopy
  <2>5. QED
    BY <2>3, <2>4, <1>c
<1>2. CASE \E kind \in VmKinds : VmCopy(kind)
  BY <1>2, <1>d DEF VmCopy, macVars
<1>3. CASE Paste
  BY <1>3, <1>d DEF Paste, macVars, recvVars, linkVars, vmVars, wires, vars
<1>4. CASE VmGetsList /\ ServerFrame
  BY <1>4, <1>d DEF VmGetsList, VmGets, GiveUp, ServerFrame, macVars, recvVars, linkVars, vmVars, wires, vars
<1>5. CASE VmGetsFetch /\ ServerFrame
  BY <1>5, <1>d DEF VmGetsFetch, VmGets, ServerFrame, macVars, recvVars, linkVars, vmVars, wires, vars
<1>6. CASE VmGetsAnswer /\ ServerFrame
  BY <1>6, <1>d DEF VmGetsAnswer, VmGets, ServerFrame, macVars, recvVars, linkVars, vmVars, wires, vars
<1>7. CASE FormatList /\ ChannelFrame
  BY <1>7, <1>d DEF FormatList, Gets, ChannelFrame, macVars, recvVars, linkVars, vmVars, wires, vars
<1>8. CASE DataResponse /\ ChannelFrame
  BY <1>8, <1>d DEF DataResponse, Gets, Post, ChannelFrame, macVars, recvVars, linkVars, vmVars, wires, vars
<1>9. CASE FilesReceived /\ ChannelFrame
  BY <1>9, <1>d DEF FilesReceived, Post, ChannelFrame, macVars, recvVars, linkVars, vmVars, wires, vars
<1>10. CASE FormatDataRequest /\ ChannelFrame
  BY <1>10, <1>d DEF FormatDataRequest, Gets, Answers, ChannelFrame, macVars, recvVars, linkVars, vmVars, wires, vars
<1>11. CASE FileContentsRequest /\ ChannelFrame
  BY <1>11, <1>d DEF FileContentsRequest, Gets, Answers, ChannelFrame, macVars, recvVars, linkVars, vmVars, wires, vars
<1>12. CASE SendOffer /\ offer # 0 /\ MainFrame
  BY <1>12, <1>d DEF SendOffer, MainFrame, macVars, recvVars, linkVars, vmVars, wires, vars
<1>13. CASE DataChanged /\ offer = 0 /\ MainFrame
  BY <1>13, <1>d DEF DataChanged, Notice, MainFrame, macVars, recvVars, linkVars, vmVars, wires, vars
<1>14. CASE RunPosted /\ offer = 0 /\ MainFrame
  BY <1>14, <1>d DEF RunPosted, SetUrls, SetFromRemote, Notice, MainFrame, macVars, recvVars, linkVars, vmVars, wires, vars
<1>15. CASE Disconnect \/ SessionEnds
  BY <1>15, <1>d DEF Disconnect, SessionEnds, HangUp, macVars, recvVars, linkVars, vmVars, wires, vars
<1>16. CASE Reconnect \/ MonitorReady
  BY <1>16, <1>d DEF Reconnect, MonitorReady, macVars, recvVars, linkVars, vmVars, wires, vars
<1>17. CASE UNCHANGED vars
  BY <1>17, <1>d DEF vars, macVars, recvVars, linkVars, vmVars, wires, vars
<1>18. QED
  BY <1>1, <1>2, <1>3, <1>4, <1>5, <1>6, <1>7, <1>8, <1>9, <1>10, <1>11,
     <1>12, <1>13, <1>14, <1>15, <1>16, <1>17, StepCases

\* What is offered was copied on the Mac or is a file list.
LEMMA OfferStep ==
    ASSUME IInv, [Next]_vars
    PROVE  OnlyFilesComeBack'
<1>a. CopiesTyped /\ MacTyped /\ VersionsTyped /\ LinkTyped
  BY TypeParts DEF IInv
<1>b. ToVmTyped /\ ToClientTyped /\ PasteTyped /\ PostsTyped
  BY WireParts DEF IInv
<1>c. Newest \in Nat /\ Newest <= MaxCopies
  BY <1>a, ShareAssumption DEF CopiesTyped, ShareAssumption
<1>d. /\ offer' = offer => OnlyFilesComeBack'
      /\ offer' = 0 => OnlyFilesComeBack'
  <2>1. offer # 0 => offer \in 1..Newest
    BY <1>a, <1>c DEF MacTyped
  <2>2. offer # 0 => copied'[offer] = copied[offer] /\ KindThen(offer) = Kind(offer)
    BY <2>1, <1>c, CopiesGrow, KindsKept
  <2>3. QED
    BY <2>2 DEF IInv, SourcesKnown, OnlyFilesComeBack, KindThen, Kind
<1>e. signal => copied[mac].side = "mac"
  BY DEF IInv, SourcesKnown
<1>1. CASE \E kind \in MacKinds : MacCopy(kind)
  BY <1>1, <1>d DEF MacCopy, Copy, macVars, recvVars, linkVars, vmVars, wires, vars
<1>2. CASE \E kind \in VmKinds : VmCopy(kind)
  BY <1>2, <1>d DEF VmCopy, Copy, GiveUp, macVars, recvVars, linkVars, vmVars, wires, vars
<1>3. CASE Paste
  BY <1>3, <1>d DEF Paste, macVars, recvVars, linkVars, vmVars, wires, vars
<1>4. CASE VmGetsList /\ ServerFrame
  BY <1>4, <1>d DEF VmGetsList, VmGets, GiveUp, ServerFrame, macVars, recvVars, linkVars, vmVars, wires, vars
<1>5. CASE VmGetsFetch /\ ServerFrame
  BY <1>5, <1>d DEF VmGetsFetch, VmGets, ServerFrame, macVars, recvVars, linkVars, vmVars, wires, vars
<1>6. CASE VmGetsAnswer /\ ServerFrame
  BY <1>6, <1>d DEF VmGetsAnswer, VmGets, ServerFrame, macVars, recvVars, linkVars, vmVars, wires, vars
<1>7. CASE FormatList /\ ChannelFrame
  BY <1>7, <1>d DEF FormatList, Gets, ChannelFrame, macVars, recvVars, linkVars, vmVars, wires, vars
<1>8. CASE DataResponse /\ ChannelFrame
  BY <1>8, <1>d DEF DataResponse, Gets, Post, ChannelFrame, macVars, recvVars, linkVars, vmVars, wires, vars
<1>9. CASE FilesReceived /\ ChannelFrame
  BY <1>9, <1>d DEF FilesReceived, Post, ChannelFrame, macVars, recvVars, linkVars, vmVars, wires, vars
<1>10. CASE FormatDataRequest /\ ChannelFrame
  BY <1>10, <1>d DEF FormatDataRequest, Gets, Answers, ChannelFrame, macVars, recvVars, linkVars, vmVars, wires, vars
<1>11. CASE FileContentsRequest /\ ChannelFrame
  BY <1>11, <1>d DEF FileContentsRequest, Gets, Answers, ChannelFrame, macVars, recvVars, linkVars, vmVars, wires, vars
<1>12. CASE SendOffer /\ offer # 0 /\ MainFrame
  BY <1>12, <1>d DEF SendOffer, MainFrame, macVars, recvVars, linkVars, vmVars, wires, vars
<1>13. CASE DataChanged /\ offer = 0 /\ MainFrame
  <2>1. offer' \in {0, mac} /\ signal /\ copied' = copied
    BY <1>13 DEF DataChanged, Notice
  <2>2. QED
    BY <2>1, <1>e DEF OnlyFilesComeBack, KindThen, Kind
<1>14. CASE RunPosted /\ offer = 0 /\ MainFrame
  <2>1. posted # <<>> /\ copied' = copied
    BY <1>14 DEF RunPosted
  <2>2. Head(posted) = posted[1] /\ 1 \in DOMAIN posted
    BY <2>1, <1>b, Taken DEF PostsTyped
  <2>3. \/ offer' = 0
        \/ Head(posted).kind = "files" /\ offer' = Head(posted).ver
    BY <1>14 DEF RunPosted, SetUrls, SetFromRemote, Notice, macVars
  <2>4. Head(posted).kind = "files" => Kind(Head(posted).ver) = "files"
    BY <2>2 DEF IInv, SourcesKnown
  <2>5. \A v : KindThen(v) = Kind(v)
    BY <2>1 DEF Kind, KindThen
  <2>6. QED
    BY <2>3, <2>4, <2>5 DEF OnlyFilesComeBack, KindThen, Kind
<1>15. CASE Disconnect \/ SessionEnds
  BY <1>15, <1>d DEF Disconnect, SessionEnds, HangUp, macVars, recvVars, linkVars, vmVars, wires, vars
<1>16. CASE Reconnect \/ MonitorReady
  BY <1>16, <1>d DEF Reconnect, MonitorReady, macVars, recvVars, linkVars, vmVars, wires, vars
<1>17. CASE UNCHANGED vars
  BY <1>17, <1>d DEF vars, macVars, recvVars, linkVars, vmVars, wires, vars
<1>18. QED
  BY <1>1, <1>2, <1>3, <1>4, <1>5, <1>6, <1>7, <1>8, <1>9, <1>10, <1>11,
     <1>12, <1>13, <1>14, <1>15, <1>16, <1>17, StepCases

\* Where everything comes from stays known.
LEMMA SourcesStep ==
    ASSUME IInv, [Next]_vars
    PROVE  SourcesKnown'
  BY DataStep, IncomingStep, PostedStep, SignalStep, OfferStep
     DEF SourcesKnown, KindThen, Kind


\* A queue with one message of some types has none once it is taken, has one when
\* one is added to none, and is not changed in this by the others.
LEMMA OfTypesKept ==
    ASSUME NEW s \in Seq(Messages), NEW types, NEW t,
           \/ t = s \/ t = <<>>
           \/ s # <<>> /\ t = Tail(s)
           \/ \E m \in Messages : m.type \notin types /\ t = Append(s, m)
    PROVE  /\ OneOf(s, types) => OneOf(t, types)
           /\ NoneOf(s, types) => NoneOf(t, types)
<1>1. CASE t = s \/ t = <<>>
  BY <1>1 DEF OneOf, NoneOf
<1>2. CASE s # <<>> /\ t = Tail(s)
  <2>1. \A i \in DOMAIN t : i \in Int /\ i + 1 \in DOMAIN s /\ t[i] = s[i + 1]
    BY <1>2, Taken, LenProperties
  <2>2. NoneOf(s, types) => NoneOf(t, types)
    BY <2>1 DEF NoneOf
  <2>3. ASSUME OneOf(s, types), NEW i \in DOMAIN t, NEW j \in DOMAIN t,
               t[i].type \in types, t[j].type \in types
        PROVE  i = j
    <3>1. /\ i \in Int /\ j \in Int /\ i + 1 \in DOMAIN s /\ j + 1 \in DOMAIN s
          /\ s[i + 1].type \in types /\ s[j + 1].type \in types
      BY <2>1, <2>3
    <3>2. i + 1 = j + 1
      BY <3>1, <2>3 DEF OneOf
    <3>3. QED
      BY <3>1, <3>2
  <2>4. QED
    BY <2>2, <2>3 DEF OneOf
<1>3. ASSUME NEW m \in Messages, m.type \notin types, t = Append(s, m)
      PROVE  /\ OneOf(s, types) => OneOf(t, types)
             /\ NoneOf(s, types) => NoneOf(t, types)
  <2>1. \A i \in DOMAIN t : t[i].type \in types => i \in DOMAIN s /\ t[i] = s[i]
    BY <1>3, Appended
  <2>2. QED
    BY <2>1 DEF OneOf, NoneOf
<1>4. QED
  BY <1>1, <1>2, <1>3

\* (Taking it.)
LEMMA OfTypesTaken ==
    ASSUME NEW s \in Seq(Messages), NEW types, s # <<>>, Head(s).type \in types
    PROVE  ~NoneOf(s, types) /\ (OneOf(s, types) => NoneOf(Tail(s), types))
<1>1. /\ 1 \in DOMAIN s /\ Head(s) = s[1]
      /\ \A i \in DOMAIN Tail(s) : i + 1 \in DOMAIN s /\ Tail(s)[i] = s[i + 1]
      /\ \A i \in DOMAIN Tail(s) : i \in 1..Len(Tail(s)) /\ Len(Tail(s)) \in Nat
  BY Taken, LenProperties
<1>2. ASSUME OneOf(s, types), NEW i \in DOMAIN Tail(s), Tail(s)[i].type \in types
      PROVE  FALSE
  <2>1. i + 1 \in DOMAIN s /\ s[i + 1].type \in types /\ i >= 1 /\ i \in Int
    BY <1>1, <1>2
  <2>2. i + 1 = 1
    BY <1>1, <1>2, <2>1 DEF OneOf
  <2>3. QED
    BY <2>1, <2>2
<1>3. QED
  BY <1>1, <1>2 DEF NoneOf

\* (Adding it.)
LEMMA OfTypesAdded ==
    ASSUME NEW s \in Seq(Messages), NEW types, NEW m \in Messages, NoneOf(s, types)
    PROVE  OneOf(Append(s, m), types)
  BY Appended DEF OneOf, NoneOf

\* Which messages are of which types.
LEMMA TypesOf ==
    ASSUME NEW type \in {"list", "fetch", "contents", "data", "chunk"}, NEW kind, NEW v
    PROVE
        /\ Msg(type, kind, v).type = type /\ Msg(type, kind, v).kind = kind
        /\ Msg(type, kind, v).ver = v
        /\ type \in Requests <=> type \in {"fetch", "contents"}
        /\ type \in Replies <=> type \in {"data", "chunk"}
  BY DEF Msg, Requests, Replies


\* One request or one reply at a time is under way, and none between pastes.
LEMMA RequestsStep ==
    ASSUME IInv, [Next]_vars
    PROVE  /\ OneOf(toClient', Requests) /\ OneOf(toVm', Replies)
           /\ NoneOf(toClient', Requests) \/ NoneOf(toVm', Replies)
           /\ paste' = Idle => NoneOf(toClient', Requests) /\ NoneOf(toVm', Replies)
<1>a. CopiesTyped /\ MacTyped /\ VersionsTyped /\ LinkTyped
  BY TypeParts DEF IInv
<1>b. ToVmTyped /\ ToClientTyped /\ PasteTyped /\ PostsTyped
  BY WireParts DEF IInv
<1>c. Newest \in Nat /\ Newest <= MaxCopies
  BY <1>a, ShareAssumption DEF CopiesTyped, ShareAssumption
<1>d. toVm \in Seq(Messages) /\ toClient \in Seq(Messages)
  BY <1>b DEF ToVmTyped, ToClientTyped
<1>e. toVm' \in Seq(Messages) /\ toClient' \in Seq(Messages)
  BY TypesStep DEF WiresTyped
<1>f. /\ OneOf(toClient, Requests) /\ OneOf(toVm, Replies)
      /\ NoneOf(toClient, Requests) \/ NoneOf(toVm, Replies)
      /\ paste = Idle => NoneOf(toClient, Requests) /\ NoneOf(toVm, Replies)
  BY DEF IInv, OneAtATime
<1>1. CASE \E kind \in MacKinds : MacCopy(kind)
  <2>1. toVm' = toVm /\ toClient' = toClient /\ paste' = paste
    BY <1>1 DEF MacCopy, wires, vmVars
  <2>2. QED
    BY <1>f, <2>1
<1>2. CASE \E kind \in VmKinds : VmCopy(kind)
  <2>a. PICK kind \in VmKinds : toClient' = Append(toClient, Msg("list", kind, Newest + 1))
    BY <1>2 DEF VmCopy
  <2>b. /\ Msg("list", kind, Newest + 1) \in Messages
        /\ Msg("list", kind, Newest + 1).type \notin Requests
    <3>1. kind \in Kinds
      BY ShareAssumption DEF ShareAssumption, Offered, Kinds
    <3>2. Newest + 1 \in Versions
      BY <1>2, <1>c, ShareAssumption DEF VmCopy, Copy, Versions, ShareAssumption
    <3>3. QED
      BY <3>1, <3>2, Built, TypesOf
  <2>1. \E m \in Messages : m.type \notin Requests /\ toClient' = Append(toClient, m)
    BY <2>a, <2>b
  <2>2. toVm' = toVm
    BY <1>2 DEF VmCopy
  <2>3. /\ OneOf(toClient', Requests) /\ OneOf(toVm', Replies)
        /\ NoneOf(toClient, Requests) => NoneOf(toClient', Requests)
        /\ NoneOf(toVm, Replies) => NoneOf(toVm', Replies)
    BY <1>d, <1>f, <2>1, <2>2, OfTypesKept
  <2>4. paste' = Idle => paste = Idle
    BY <1>2, <1>b, GivenUp DEF VmCopy
  <2>5. QED
    BY <1>f, <2>3, <2>4
<1>3. CASE Paste
  <2>1. /\ paste = Idle /\ toVm' = toVm
        /\ toClient' = Append(toClient, Msg("fetch", AskedAs(Kind(vm.ver)), 0))
        /\ paste'.at = "data"
    BY <1>3 DEF Paste, Idle
  <2>2. Msg("fetch", AskedAs(Kind(vm.ver)), 0) \in Messages
    BY <1>a, <1>c, KindType, Sendable DEF VersionsTyped
  <2>3. OneOf(toClient', Requests) /\ NoneOf(toVm', Replies) /\ OneOf(toVm', Replies)
    BY <1>d, <1>f, <2>1, <2>2, OfTypesAdded
  <2>4. paste' # Idle
    BY <2>1 DEF Idle
  <2>5. QED
    BY <2>3, <2>4
<1>4. CASE VmGetsList /\ ServerFrame
  <2>1. toClient' = toClient
    BY <1>4 DEF VmGetsList
  <2>2. toVm # <<>> /\ toVm' = Tail(toVm)
    BY <1>4 DEF VmGetsList, VmGets
  <2>3. /\ OneOf(toClient', Requests) /\ OneOf(toVm', Replies)
        /\ NoneOf(toClient, Requests) => NoneOf(toClient', Requests)
        /\ NoneOf(toVm, Replies) => NoneOf(toVm', Replies)
    BY <1>d, <1>f, <2>1, <2>2, OfTypesKept
  <2>4. paste' = Idle => paste = Idle
    BY <1>4, <1>b, GivenUp DEF VmGetsList
  <2>5. QED
    BY <1>f, <2>3, <2>4
<1>5. CASE VmGetsFetch /\ ServerFrame
  <2>a. \/ toClient' = Append(toClient, Msg("data", Kind(vm.ver), vm.ver))
        \/ toClient' = Append(toClient, Msg("data", Head(toVm).kind, 0))
    BY <1>5 DEF VmGetsFetch
  <2>b. /\ Kind(vm.ver) \in Kinds /\ vm.ver \in 0..Newest /\ 0 \in 0..Newest
        /\ Head(toVm).kind \in Kinds
    BY <1>5, <1>a, <1>b, <1>c, KindType, MessagesKept
       DEF VersionsTyped, ToVmTyped, VmGetsFetch, VmGets
  <2>1. \E m \in Messages : m.type \notin Requests /\ toClient' = Append(toClient, m)
    BY <1>a, <2>a, <2>b, Sendable, TypesOf
  <2>2. toVm # <<>> /\ toVm' = Tail(toVm)
    BY <1>5 DEF VmGetsFetch, VmGets
  <2>3. /\ OneOf(toClient', Requests) /\ OneOf(toVm', Replies)
        /\ NoneOf(toClient, Requests) => NoneOf(toClient', Requests)
        /\ NoneOf(toVm, Replies) => NoneOf(toVm', Replies)
    BY <1>d, <1>f, <2>1, <2>2, OfTypesKept
  <2>4. paste' = Idle => paste = Idle
    BY <1>5 DEF VmGetsFetch, vmVars
  <2>5. QED
    BY <1>f, <2>3, <2>4
<1>6. CASE VmGetsAnswer /\ ServerFrame
  <2>1. /\ toVm # <<>> /\ Head(toVm).type \in Replies /\ toVm' = Tail(toVm)
    BY <1>6 DEF VmGetsAnswer, VmGets, Replies
  <2>2. NoneOf(toVm', Replies) /\ NoneOf(toClient, Requests)
    BY <1>d, <1>f, <2>1, OfTypesTaken
  <2>3. /\ OneOf(toVm', Replies)
        /\ OneOf(toClient', Requests)
        /\ paste' = Idle => NoneOf(toClient', Requests)
    <3>1. \/ paste'.at = "chunk" /\ toClient' = Append(toClient, Msg("contents", "files", 0))
          \/ paste' = Idle /\ toClient' = toClient
      BY <1>6, <1>b, Answered DEF PasteTyped
    <3>2. Msg("contents", "files", 0) \in Messages
      BY <1>a, <1>c, Sendable DEF Kinds
    <3>3. OneOf(Append(toClient, Msg("contents", "files", 0)), Requests)
      BY <1>d, <2>2, <3>2, OfTypesAdded
    <3>4. OneOf(toVm', Replies)
      BY <2>2 DEF NoneOf, OneOf
    <3>5. QED
      BY <1>f, <2>2, <3>1, <3>3, <3>4, IdleTyped
  <2>4. QED
    BY <2>2, <2>3
<1>7. CASE FormatList /\ ChannelFrame
  <2>a. /\ toClient # <<>> /\ toClient' = Tail(toClient)
        /\ toVm' = Append(toVm, Msg("fetch", AskedAs(Head(toClient).kind), 0))
    BY <1>7 DEF FormatList, Gets
  <2>b. Head(toClient).kind \in Kinds
    BY <1>a, <1>b, <2>a, MessagesKept DEF ToClientTyped
  <2>1. toClient # <<>> /\ toClient' = Tail(toClient)
    BY <2>a
  <2>2. \E m \in Messages : m.type \notin Replies /\ toVm' = Append(toVm, m)
    BY <1>a, <1>c, <2>a, <2>b, Sendable, TypesOf
  <2>3. /\ OneOf(toClient', Requests) /\ OneOf(toVm', Replies)
        /\ NoneOf(toClient, Requests) => NoneOf(toClient', Requests)
        /\ NoneOf(toVm, Replies) => NoneOf(toVm', Replies)
    BY <1>d, <1>f, <2>1, <2>2, OfTypesKept
  <2>4. paste' = Idle => paste = Idle
    BY <1>7 DEF ChannelFrame, vmVars
  <2>5. QED
    BY <1>f, <2>3, <2>4
<1>8. CASE DataResponse /\ ChannelFrame
  <2>1. toClient # <<>> /\ toClient' = Tail(toClient)
    BY <1>8 DEF DataResponse, Gets
  <2>2. toVm' = toVm
    BY <1>8 DEF DataResponse
  <2>3. /\ OneOf(toClient', Requests) /\ OneOf(toVm', Replies)
        /\ NoneOf(toClient, Requests) => NoneOf(toClient', Requests)
        /\ NoneOf(toVm, Replies) => NoneOf(toVm', Replies)
    BY <1>d, <1>f, <2>1, <2>2, OfTypesKept
  <2>4. paste' = Idle => paste = Idle
    BY <1>8 DEF ChannelFrame, vmVars
  <2>5. QED
    BY <1>f, <2>3, <2>4
<1>9. CASE FilesReceived /\ ChannelFrame
  <2>1. toVm' = toVm /\ toClient' = toClient /\ paste' = paste
    BY <1>9 DEF FilesReceived, ChannelFrame, wires, vmVars
  <2>2. QED
    BY <1>f, <2>1
<1>10. CASE FormatDataRequest /\ ChannelFrame
  <2>1. /\ toClient # <<>> /\ Head(toClient).type \in Requests /\ toClient' = Tail(toClient)
    BY <1>10 DEF FormatDataRequest, Gets, Requests
  <2>2. NoneOf(toClient', Requests) /\ NoneOf(toVm, Replies)
    BY <1>d, <1>f, <2>1, OfTypesTaken
  <2>3. OneOf(toClient', Requests)
    BY <2>2 DEF NoneOf, OneOf
  <2>4. \/ toVm' = toVm
        \/ \E v \in {local, mac, 0} : toVm' = Append(toVm, Msg("data", Head(toClient).kind, v))
    BY <1>10 DEF FormatDataRequest, Answers
  <2>5. Head(toClient).kind \in Kinds /\ \A v \in {local, mac, 0} : v \in 0..Newest
    BY <1>a, <1>b, <1>c, <2>1, MessagesKept DEF ToClientTyped, MacTyped, Kinds
  <2>6. OneOf(toVm', Replies)
    BY <1>a, <1>d, <1>f, <2>2, <2>4, <2>5, Sendable, OfTypesAdded
  <2>7. paste = Idle => FALSE
    BY <1>d, <1>f, <2>1, OfTypesTaken
  <2>8. paste' = paste
    BY <1>10 DEF ChannelFrame, vmVars
  <2>9. QED
    BY <2>2, <2>3, <2>6, <2>7, <2>8
<1>11. CASE FileContentsRequest /\ ChannelFrame
  <2>1. /\ toClient # <<>> /\ Head(toClient).type \in Requests /\ toClient' = Tail(toClient)
    BY <1>11 DEF FileContentsRequest, Gets, Requests
  <2>2. NoneOf(toClient', Requests) /\ NoneOf(toVm, Replies)
    BY <1>d, <1>f, <2>1, OfTypesTaken
  <2>3. OneOf(toClient', Requests)
    BY <2>2 DEF NoneOf, OneOf
  <2>4. \/ toVm' = toVm
        \/ \E v \in {local, 0} : toVm' = Append(toVm, Msg("chunk", "files", v))
    BY <1>11 DEF FileContentsRequest, Answers
  <2>5. "files" \in Kinds /\ \A v \in {local, 0} : v \in 0..Newest
    BY <1>a, <1>b, <1>c, <2>1, MessagesKept DEF ToClientTyped, MacTyped, Kinds
  <2>6. OneOf(toVm', Replies)
    BY <1>a, <1>d, <1>f, <2>2, <2>4, <2>5, Sendable, OfTypesAdded
  <2>7. paste = Idle => FALSE
    BY <1>d, <1>f, <2>1, OfTypesTaken
  <2>8. paste' = paste
    BY <1>11 DEF ChannelFrame, vmVars
  <2>9. QED
    BY <2>2, <2>3, <2>6, <2>7, <2>8
<1>12. CASE SendOffer /\ offer # 0 /\ MainFrame
  <2>a. toVm' = toVm \/ toVm' = Append(toVm, Msg("list", Kind(offer), offer))
    BY <1>12 DEF SendOffer
  <2>b. Kind(offer) \in Kinds /\ offer \in 0..Newest
    BY <1>a, KindType DEF MacTyped
  <2>1. toClient' = toClient
    BY <1>12 DEF MainFrame
  <2>2. toVm' = toVm \/ (\E m \in Messages : m.type \notin Replies /\ toVm' = Append(toVm, m))
    BY <1>a, <2>a, <2>b, Sendable, TypesOf
  <2>3. /\ OneOf(toClient', Requests) /\ OneOf(toVm', Replies)
        /\ NoneOf(toClient, Requests) => NoneOf(toClient', Requests)
        /\ NoneOf(toVm, Replies) => NoneOf(toVm', Replies)
    BY <1>d, <1>f, <2>1, <2>2, OfTypesKept
  <2>4. paste' = Idle => paste = Idle
    BY <1>12 DEF MainFrame, vmVars
  <2>5. QED
    BY <1>f, <2>3, <2>4
<1>13. CASE DataChanged /\ offer = 0 /\ MainFrame
  <2>1. toVm' = toVm /\ toClient' = toClient /\ paste' = paste
    BY <1>13 DEF DataChanged, MainFrame, wires, vmVars
  <2>2. QED
    BY <1>f, <2>1
<1>14. CASE RunPosted /\ offer = 0 /\ MainFrame
  <2>1. toVm' = toVm /\ toClient' = toClient /\ paste' = paste
    BY <1>14 DEF RunPosted, MainFrame, wires, vmVars
  <2>2. QED
    BY <1>f, <2>1
<1>15. CASE Disconnect \/ SessionEnds
  <2>1. toVm' = <<>> /\ toClient' = <<>>
    BY <1>15 DEF Disconnect, SessionEnds, HangUp
  <2>2. QED
    BY <2>1 DEF OneOf, NoneOf
<1>16. CASE Reconnect \/ MonitorReady
  <2>1. toVm' = toVm /\ toClient' = toClient /\ paste' = paste
    BY <1>16 DEF Reconnect, MonitorReady, wires, vmVars
  <2>2. QED
    BY <1>f, <2>1
<1>17. CASE UNCHANGED vars
  <2>1. toVm' = toVm /\ toClient' = toClient /\ paste' = paste
    BY <1>17 DEF vars, wires, vmVars
  <2>2. QED
    BY <1>f, <2>1
<1>18. QED
  BY <1>1, <1>2, <1>3, <1>4, <1>5, <1>6, <1>7, <1>8, <1>9, <1>10, <1>11,
     <1>12, <1>13, <1>14, <1>15, <1>16, <1>17, StepCases

\* A paste that is not given up is of something from the Mac.
LEMMA ServedStep ==
    ASSUME IInv, [Next]_vars
    PROVE  paste' # Idle /\ ~paste'.stale => vm'.own = "mac" 
<1>a. CopiesTyped /\ MacTyped /\ VersionsTyped /\ LinkTyped
  BY TypeParts DEF IInv
<1>b. ToVmTyped /\ ToClientTyped /\ PasteTyped /\ PostsTyped
  BY WireParts DEF IInv
<1>c. Newest \in Nat /\ Newest <= MaxCopies
  BY <1>a, ShareAssumption DEF CopiesTyped, ShareAssumption
<1>d. paste # Idle /\ ~paste.stale => vm.own = "mac"
  BY DEF IInv, OneAtATime
<1>1. CASE \E kind \in MacKinds : MacCopy(kind)
  BY <1>1, <1>d DEF MacCopy, vmVars
<1>2. CASE \E kind \in VmKinds : VmCopy(kind)
  BY <1>2, <1>b, GivenUp DEF VmCopy
<1>3. CASE Paste
  BY <1>3 DEF Paste
<1>4. CASE VmGetsList /\ ServerFrame
  BY <1>4, <1>b, GivenUp DEF VmGetsList
<1>5. CASE VmGetsFetch /\ ServerFrame
  BY <1>5, <1>d DEF VmGetsFetch, VmGets, ServerFrame, macVars, recvVars, linkVars, vmVars, wires, vars
<1>6. CASE VmGetsAnswer /\ ServerFrame
  <2>1. vm' = vm /\ (paste' = Idle \/ (paste # Idle /\ paste'.stale = paste.stale))
    <3>1. paste # Idle
      <4>1. toVm # <<>> /\ Head(toVm).type \in Replies
        BY <1>6 DEF VmGetsAnswer, VmGets, Replies
      <4>2. QED
        BY <1>b, <4>1, OfTypesTaken DEF IInv, OneAtATime, ToVmTyped
    <3>2. QED
      BY <1>6, <1>b, <3>1, Answered DEF PasteTyped, VmGetsAnswer
  <2>2. QED
    BY <2>1, <1>d
<1>7. CASE FormatList /\ ChannelFrame
  BY <1>7, <1>d DEF FormatList, Gets, ChannelFrame, macVars, recvVars, linkVars, vmVars, wires, vars
<1>8. CASE DataResponse /\ ChannelFrame
  BY <1>8, <1>d DEF DataResponse, Gets, Post, ChannelFrame, macVars, recvVars, linkVars, vmVars, wires, vars
<1>9. CASE FilesReceived /\ ChannelFrame
  BY <1>9, <1>d DEF FilesReceived, Post, ChannelFrame, macVars, recvVars, linkVars, vmVars, wires, vars
<1>10. CASE FormatDataRequest /\ ChannelFrame
  BY <1>10, <1>d DEF FormatDataRequest, Gets, Answers, ChannelFrame, macVars, recvVars, linkVars, vmVars, wires, vars
<1>11. CASE FileContentsRequest /\ ChannelFrame
  BY <1>11, <1>d DEF FileContentsRequest, Gets, Answers, ChannelFrame, macVars, recvVars, linkVars, vmVars, wires, vars
<1>12. CASE SendOffer /\ offer # 0 /\ MainFrame
  BY <1>12, <1>d DEF SendOffer, MainFrame, macVars, recvVars, linkVars, vmVars, wires, vars
<1>13. CASE DataChanged /\ offer = 0 /\ MainFrame
  BY <1>13, <1>d DEF DataChanged, Notice, MainFrame, macVars, recvVars, linkVars, vmVars, wires, vars
<1>14. CASE RunPosted /\ offer = 0 /\ MainFrame
  BY <1>14, <1>d DEF RunPosted, SetUrls, SetFromRemote, Notice, MainFrame, macVars, recvVars, linkVars, vmVars, wires, vars
<1>15. CASE Disconnect \/ SessionEnds
  BY <1>15, <1>d DEF Disconnect, SessionEnds, HangUp, macVars, recvVars, linkVars, vmVars, wires, vars
<1>16. CASE Reconnect \/ MonitorReady
  BY <1>16, <1>d DEF Reconnect, MonitorReady, macVars, recvVars, linkVars, vmVars, wires, vars
<1>17. CASE UNCHANGED vars
  BY <1>17, <1>d DEF vars, macVars, recvVars, linkVars, vmVars, wires, vars
<1>18. QED
  BY <1>1, <1>2, <1>3, <1>4, <1>5, <1>6, <1>7, <1>8, <1>9, <1>10, <1>11,
     <1>12, <1>13, <1>14, <1>15, <1>16, <1>17, StepCases

\* Requests and replies stay one at a time.
LEMMA OneAtATimeStep ==
    ASSUME IInv, [Next]_vars
    PROVE  OneAtATime'
  BY RequestsStep, ServedStep DEF OneAtATime, OneOf, NoneOf, Requests, Replies, Idle


\* What is appended later does not change what was gone by before ...
LEMMA GoesByLater ==
    ASSUME NEW s \in Seq(Messages), NEW m \in Messages, NEW ver, NEW v,
           NEW i \in 1..(Len(s) + 1), GoesBy(ver, s, v, i)
    PROVE  GoesBy(ver, Append(s, m), v, i)
<1>1. Len(s) \in Nat /\ \A k \in 1..(i - 1) : k \in DOMAIN s
  BY LenProperties
<1>2. \A k \in 1..(i - 1) : Append(s, m)[k] = s[k]
  BY <1>1, Appended
<1>3. QED
  BY <1>1, <1>2 DEF GoesBy

\* ... and a list is gone by from then on, anything else makes no difference.
LEMMA GoesByAdded ==
    ASSUME NEW s \in Seq(Messages), NEW m \in Messages, NEW ver, NEW v,
           \/ m.type = "list" /\ m.ver = v
           \/ m.type # "list" /\ GoesBy(ver, s, v, Len(s) + 1)
    PROVE  GoesBy(ver, Append(s, m), v, Len(Append(s, m)) + 1)
<1> DEFINE t == Append(s, m)
           n == Len(s)
<1>1. /\ n \in Nat /\ Len(t) = n + 1 /\ t[n + 1] = m
      /\ \A k \in 1..n : t[k] = s[k]
  BY Appended, LenProperties
<1> HIDE DEF t, n
<1>2. CASE m.type = "list" /\ m.ver = v
  <2>1. n + 1 \in 1..(Len(t) + 1 - 1) /\ t[n + 1].type = "list" /\ t[n + 1].ver = v
    BY <1>1, <1>2
  <2>2. \A k \in (n + 1 + 1)..(Len(t) + 1 - 1) : t[k].type # "list"
    BY <1>1
  <2>3. QED
    BY <2>1, <2>2 DEF GoesBy, t
<1>3. CASE m.type # "list" /\ GoesBy(ver, s, v, n + 1)
  <2>1. \A k \in 1..(Len(t) + 1 - 1) : k \in 1..n \/ t[k].type # "list"
    BY <1>1, <1>3
  <2>2. CASE ver = v /\ \A k \in 1..(n + 1 - 1) : s[k].type # "list"
    <3>1. \A k \in 1..n : t[k].type # "list"
      BY <1>1, <2>2
    <3>2. QED
      BY <2>1, <2>2, <3>1 DEF GoesBy, t
  <2>3. ASSUME NEW j \in 1..(n + 1 - 1), s[j].type = "list", s[j].ver = v,
               \A k \in (j + 1)..(n + 1 - 1) : s[k].type # "list"
        PROVE  GoesBy(ver, t, v, Len(t) + 1)
    <3>1. j \in 1..(Len(t) + 1 - 1) /\ t[j].type = "list" /\ t[j].ver = v
      BY <1>1, <2>3
    <3>2. \A k \in (j + 1)..(Len(t) + 1 - 1) : t[k].type # "list"
      BY <1>1, <2>1, <2>3
    <3>3. QED
      BY <3>1, <3>2 DEF GoesBy
  <2>4. QED
    BY <1>3, <2>2, <2>3 DEF GoesBy, t, n
<1>4. QED
  BY <1>2, <1>3 DEF t, n

\* When the first message is taken, a list is gone by at once, and what was gone by
\* after it still is.
LEMMA GoesByTaken ==
    ASSUME NEW s \in Seq(Messages), s # <<>>, NEW ver, NEW v, NEW i \in 1..Len(s),
           GoesBy(ver, s, v, i + 1)
    PROVE  GoesBy(IF Head(s).type = "list" THEN Head(s).ver ELSE ver, Tail(s), v, i)
<1> DEFINE t == Tail(s)
           w == IF Head(s).type = "list" THEN Head(s).ver ELSE ver
<1>1. /\ Len(s) \in Nat /\ i \in Int /\ i >= 1 /\ i <= Len(s) /\ Head(s) = s[1]
      /\ \A k \in 1..(i - 1) : t[k] = s[k + 1]
  <2>1. /\ Len(s) \in Nat /\ Head(s) = s[1] /\ Len(t) = Len(s) - 1
        /\ DOMAIN t = 1..Len(t) /\ \A k \in DOMAIN t : t[k] = s[k + 1]
    BY Taken, LenProperties
  <2> HIDE DEF t
  <2>2. \A k \in 1..(i - 1) : k \in DOMAIN t
    BY <2>1
  <2>3. QED
    BY <2>1, <2>2
<1> HIDE DEF t
<1>2. CASE ver = v /\ \A k \in 1..i : s[k].type # "list"
  <2>1. w = v
    BY <1>1, <1>2
  <2>2. \A k \in 1..(i - 1) : t[k].type # "list"
    BY <1>1, <1>2
  <2>3. QED
    BY <2>1, <2>2 DEF GoesBy, t
<1>3. ASSUME NEW j \in 1..i, s[j].type = "list", s[j].ver = v,
             \A k \in (j + 1)..i : s[k].type # "list"
      PROVE  GoesBy(w, t, v, i)
  <2>1. \A k \in j..(i - 1) : t[k].type # "list"
    <3>1. ASSUME NEW k \in j..(i - 1)
          PROVE  t[k].type # "list"
      <4>1. k + 1 \in (j + 1)..i /\ k \in 1..(i - 1)
        BY <1>1
      <4>2. QED
        BY <1>1, <1>3, <4>1
    <3>2. QED
      BY <3>1
  <2>2. CASE j = 1
    <3>1. w = v
      BY <1>1, <1>3, <2>2
    <3>2. QED
      BY <2>1, <2>2, <3>1 DEF GoesBy
  <2>3. CASE j # 1
    <3>1. j - 1 \in 1..(i - 1) /\ (j - 1) + 1 = j
      BY <1>1, <2>3
    <3>2. t[j - 1].type = "list" /\ t[j - 1].ver = v
      BY <1>1, <1>3, <3>1
    <3>3. QED
      BY <2>1, <3>1, <3>2 DEF GoesBy
  <2>4. QED
    BY <2>2, <2>3
<1>4. (i + 1) - 1 = i
  BY <1>1
<1>5. QED
  BY <1>2, <1>3, <1>4 DEF GoesBy, t

\* When there is a list, what the machine had does not matter.
LEMMA GoesByAnew ==
    ASSUME NEW s \in Seq(Messages), HasList(s), NEW ver, NEW old, NEW v,
           GoesBy(old, s, v, Len(s) + 1)
    PROVE  GoesBy(ver, s, v, Len(s) + 1)
<1>1. Len(s) \in Nat /\ DOMAIN s = 1..Len(s)
  BY LenProperties
<1>2. PICK k \in DOMAIN s : s[k].type = "list"
  BY DEF HasList
<1>3. k \in 1..(Len(s) + 1 - 1)
  BY <1>1, <1>2
<1>4. QED
  BY <1>2, <1>3 DEF GoesBy

\* Lists come with an append of one.
LEMMA ListsKept ==
    ASSUME NEW s \in Seq(Messages)
    PROVE  /\ s # <<>> /\ HasList(Tail(s)) => HasList(s)
           /\ s # <<>> /\ Head(s).type = "list" => HasList(s)
           /\ \A m \in Messages : m.type # "list" /\ HasList(Append(s, m)) => HasList(s)
<1>1. s # <<>> /\ HasList(Tail(s)) => HasList(s)
  BY Taken DEF HasList
<1>2. s # <<>> /\ Head(s).type = "list" => HasList(s)
  BY Taken DEF HasList
<1>3. \A m \in Messages : m.type # "list" /\ HasList(Append(s, m)) => HasList(s)
  <2>1. ASSUME NEW m \in Messages, m.type # "list", NEW j \in DOMAIN Append(s, m),
               Append(s, m)[j].type = "list"
        PROVE  j \in DOMAIN s /\ s[j].type = "list"
    BY <2>1, Appended
  <2>2. QED
    BY <2>1 DEF HasList
<1>4. QED
  BY <1>1, <1>2, <1>3

\* What explains files on their way still does when the first message is taken ...
LEMMA ExplainedTaken ==
    ASSUME NEW s \in Seq(Messages), s # <<>>, NEW ver, NEW o, NEW v,
           NEW i \in DOMAIN Tail(s), Head(s).type # "list",
           Explained(ver, s, o, v, i + 1)
    PROVE  Explained(ver, Tail(s), o, v, i)
<1>1. /\ Len(s) \in Nat /\ DOMAIN s = 1..Len(s) /\ Len(Tail(s)) = Len(s) - 1
      /\ DOMAIN Tail(s) = 1..Len(Tail(s)) /\ i \in 1..Len(s)
      /\ \A k \in DOMAIN Tail(s) : Tail(s)[k] = s[k + 1]
  BY Taken, LenProperties
<1>2. CASE GoesBy(ver, s, v, i + 1)
  BY <1>1, <1>2, GoesByTaken DEF Explained
<1>3. CASE o = v
  BY <1>3 DEF Explained
<1>4. ASSUME NEW j \in DOMAIN s, j > i + 1, s[j].type = "list", s[j].ver = v
      PROVE  Explained(ver, Tail(s), o, v, i)
  <2>1. j - 1 \in DOMAIN Tail(s) /\ j - 1 > i /\ (j - 1) + 1 = j
    BY <1>1, <1>4
  <2>2. Tail(s)[j - 1] = s[j]
    BY <1>1, <2>1
  <2>3. QED
    BY <1>4, <2>1, <2>2 DEF Explained
<1>5. QED
  BY <1>2, <1>3, <1>4 DEF Explained

\* ... and when one is appended.
LEMMA ExplainedLater ==
    ASSUME NEW s \in Seq(Messages), NEW m \in Messages, NEW ver, NEW o, NEW q, NEW v,
           NEW i \in DOMAIN s, Explained(ver, s, o, v, i),
           q = o \/ (m.type = "list" /\ m.ver = o)
    PROVE  Explained(ver, Append(s, m), q, v, i)
<1>1. /\ Len(s) \in Nat /\ DOMAIN s = 1..Len(s) /\ i \in 1..(Len(s) + 1) /\ Len(s) + 1 > i
      /\ \A k \in DOMAIN s : k \in DOMAIN Append(s, m) /\ Append(s, m)[k] = s[k]
      /\ Len(s) + 1 \in DOMAIN Append(s, m) /\ Append(s, m)[Len(s) + 1] = m
  BY Appended, LenProperties
<1>2. CASE GoesBy(ver, s, v, i)
  BY <1>1, <1>2, GoesByLater DEF Explained
<1>3. CASE o = v
  BY <1>1, <1>3 DEF Explained
<1>4. CASE \E j \in DOMAIN s : j > i /\ s[j].type = "list" /\ s[j].ver = v
  BY <1>1, <1>4 DEF Explained
<1>5. QED
  BY <1>2, <1>3, <1>4 DEF Explained


\* What is local is told, or about to be.
LEMMA LocalMoves ==
    ASSUME IInv, [Next]_vars
    PROVE  /\ offer' # 0 => local' \in {0, offer'}
           /\ local' # 0 /\ (vm'.own = "mac" \/ HasList(toVm'))
              => offer' = local' \/ GoesBy(vm'.ver, toVm', local', Len(toVm') + 1)
           /\ link' # "up" => vm'.own = "vm"
<1>a. CopiesTyped /\ MacTyped /\ VersionsTyped /\ LinkTyped
  BY TypeParts DEF IInv
<1>b. ToVmTyped /\ ToClientTyped /\ PasteTyped /\ PostsTyped
  BY WireParts DEF IInv
<1>c. Newest \in Nat /\ Newest <= MaxCopies
  BY <1>a, ShareAssumption DEF CopiesTyped, ShareAssumption
<1>d. toVm \in Seq(Messages) /\ toClient \in Seq(Messages)
  BY <1>b DEF ToVmTyped, ToClientTyped
<1>e. /\ offer # 0 => local \in {0, offer}
      /\ local # 0 /\ (vm.own = "mac" \/ HasList(toVm))
         => offer = local \/ GoesBy(vm.ver, toVm, local, Len(toVm) + 1)
      /\ link # "up" => vm.own = "vm"
  BY DEF IInv, LocalIsTold
<1>1. CASE \E kind \in MacKinds : MacCopy(kind)
  <2>1. /\ offer' = offer /\ local' = local /\ toVm' = toVm /\ vm' = vm
        /\ link' = link
    BY <1>1 DEF MacCopy, macVars, linkVars, vmVars, wires
  <2>2. QED
    BY <1>e, <2>1
<1>2. CASE \E kind \in VmKinds : VmCopy(kind)
  <2>1. /\ offer' = offer /\ local' = local /\ toVm' = toVm /\ vm'.own = "vm"
        /\ link' = link /\ link = "up"
    BY <1>2 DEF VmCopy, macVars, linkVars
  <2>2. HasList(toVm) => (GoesBy(vm.ver, toVm, local, Len(toVm) + 1)
                           => GoesBy(vm'.ver, toVm, local, Len(toVm) + 1))
    BY <1>d, GoesByAnew
  <2>3. QED
    BY <1>e, <2>1, <2>2
<1>3. CASE Paste
  <2>1. /\ offer' = offer /\ local' = local /\ toVm' = toVm /\ vm' = vm
        /\ link' = link
    BY <1>3 DEF Paste, macVars, linkVars, vmVars, wires
  <2>2. QED
    BY <1>e, <2>1
<1>4. CASE VmGetsList /\ ServerFrame
  <2>1. /\ offer' = offer /\ local' = local /\ link' = link
        /\ toVm # <<>> /\ toVm' = Tail(toVm) /\ Head(toVm).type = "list"
    BY <1>4 DEF VmGetsList, VmGets, ServerFrame, macVars, linkVars
  <2>2. vm'.ver = Head(toVm).ver
    BY <1>4 DEF VmGetsList, vmVars
  <2>3. link = "up"
    BY <1>a, <2>1 DEF LinkTyped
  <2>4. Len(toVm) \in 1..Len(toVm) /\ Len(Tail(toVm)) + 1 = Len(toVm)
    BY <1>d, <2>1, Taken, LenProperties, EmptySeq
  <2>5. local # 0 /\ (vm'.own = "mac" \/ HasList(toVm')) => offer = local \/ GoesBy(vm.ver, toVm, local, Len(toVm) + 1)
    BY <1>d, <1>e, <2>1, <2>2, ListsKept
  <2>6. GoesBy(vm.ver, toVm, local, Len(toVm) + 1) => GoesBy(vm'.ver, toVm', local, Len(toVm') + 1)
    BY <1>d, <2>1, <2>2, <2>4, GoesByTaken
  <2>7. QED
    BY <1>e, <2>1, <2>3, <2>5, <2>6
<1>5. CASE VmGetsFetch /\ ServerFrame
  <2>1. /\ offer' = offer /\ local' = local /\ link' = link
        /\ toVm # <<>> /\ toVm' = Tail(toVm) /\ Head(toVm).type # "list"
    BY <1>5 DEF VmGetsFetch, VmGets, ServerFrame, macVars, linkVars
  <2>2. vm' = vm
    BY <1>5 DEF VmGetsFetch, vmVars
  <2>3. link = "up"
    BY <1>a, <2>1 DEF LinkTyped
  <2>4. Len(toVm) \in 1..Len(toVm) /\ Len(Tail(toVm)) + 1 = Len(toVm)
    BY <1>d, <2>1, Taken, LenProperties, EmptySeq
  <2>5. local # 0 /\ (vm'.own = "mac" \/ HasList(toVm')) => offer = local \/ GoesBy(vm.ver, toVm, local, Len(toVm) + 1)
    BY <1>d, <1>e, <2>1, <2>2, ListsKept
  <2>6. GoesBy(vm.ver, toVm, local, Len(toVm) + 1) => GoesBy(vm'.ver, toVm', local, Len(toVm') + 1)
    BY <1>d, <2>1, <2>2, <2>4, GoesByTaken
  <2>7. QED
    BY <1>e, <2>1, <2>3, <2>5, <2>6
<1>6. CASE VmGetsAnswer /\ ServerFrame
  <2>1. /\ offer' = offer /\ local' = local /\ link' = link
        /\ toVm # <<>> /\ toVm' = Tail(toVm) /\ Head(toVm).type # "list"
    BY <1>6 DEF VmGetsAnswer, VmGets, ServerFrame, macVars, linkVars
  <2>2. vm' = vm
    BY <1>6 DEF VmGetsAnswer, vmVars
  <2>3. link = "up"
    BY <1>a, <2>1 DEF LinkTyped
  <2>4. Len(toVm) \in 1..Len(toVm) /\ Len(Tail(toVm)) + 1 = Len(toVm)
    BY <1>d, <2>1, Taken, LenProperties, EmptySeq
  <2>5. local # 0 /\ (vm'.own = "mac" \/ HasList(toVm')) => offer = local \/ GoesBy(vm.ver, toVm, local, Len(toVm) + 1)
    BY <1>d, <1>e, <2>1, <2>2, ListsKept
  <2>6. GoesBy(vm.ver, toVm, local, Len(toVm) + 1) => GoesBy(vm'.ver, toVm', local, Len(toVm') + 1)
    BY <1>d, <2>1, <2>2, <2>4, GoesByTaken
  <2>7. QED
    BY <1>e, <2>1, <2>3, <2>5, <2>6
<1>7. CASE FormatList /\ ChannelFrame
  <2>1. offer' = offer /\ local' = local /\ vm' = vm /\ link' = link
    BY <1>7 DEF ChannelFrame, macVars, linkVars, vmVars
  <2>2. /\ toVm' = Append(toVm, Msg("fetch", AskedAs(Head(toClient).kind), 0))
        /\ Head(toClient).kind \in Kinds
    BY <1>7, <1>a, <1>b, MessagesKept DEF FormatList, Gets, ToClientTyped
  <2>3. toVm' = toVm \/ \E m \in Messages : m.type # "list" /\ toVm' = Append(toVm, m)
    BY <1>a, <1>c, <2>2, Sendable, TypesOf
  <2>4. CASE toVm' = toVm
    BY <1>e, <2>1, <2>4
  <2>5. ASSUME NEW m \in Messages, m.type # "list", toVm' = Append(toVm, m)
        PROVE  /\ HasList(toVm') => HasList(toVm)
               /\ GoesBy(vm.ver, toVm, local, Len(toVm) + 1)
                  => GoesBy(vm.ver, toVm', local, Len(toVm') + 1)
    BY <1>d, <2>5, ListsKept, GoesByAdded
  <2>6. QED
    BY <1>e, <2>1, <2>3, <2>4, <2>5
<1>8. CASE DataResponse /\ ChannelFrame
  <2>1. /\ offer' = offer /\ local' = local /\ toVm' = toVm /\ vm' = vm
        /\ link' = link
    BY <1>8 DEF DataResponse, ChannelFrame, macVars, linkVars, vmVars, wires
  <2>2. QED
    BY <1>e, <2>1
<1>9. CASE FilesReceived /\ ChannelFrame
  <2>1. /\ offer' = offer /\ local' = local /\ toVm' = toVm /\ vm' = vm
        /\ link' = link
    BY <1>9 DEF FilesReceived, ChannelFrame, macVars, linkVars, vmVars, wires
  <2>2. QED
    BY <1>e, <2>1
<1>10. CASE FormatDataRequest /\ ChannelFrame
  <2>1. offer' = offer /\ local' = local /\ vm' = vm /\ link' = link
    BY <1>10 DEF ChannelFrame, macVars, linkVars, vmVars
  <2>2. /\ toVm' = toVm \/ \E v \in {local, mac, 0} : toVm' = Append(toVm, Msg("data", Head(toClient).kind, v))
        /\ Head(toClient).kind \in Kinds /\ \A v \in {local, mac, 0} : v \in 0..Newest
    BY <1>10, <1>a, <1>b, <1>c, MessagesKept
       DEF FormatDataRequest, Answers, Gets, ToClientTyped, MacTyped
  <2>3. toVm' = toVm \/ \E m \in Messages : m.type # "list" /\ toVm' = Append(toVm, m)
    BY <1>a, <1>c, <2>2, Sendable, TypesOf
  <2>4. CASE toVm' = toVm
    BY <1>e, <2>1, <2>4
  <2>5. ASSUME NEW m \in Messages, m.type # "list", toVm' = Append(toVm, m)
        PROVE  /\ HasList(toVm') => HasList(toVm)
               /\ GoesBy(vm.ver, toVm, local, Len(toVm) + 1)
                  => GoesBy(vm.ver, toVm', local, Len(toVm') + 1)
    BY <1>d, <2>5, ListsKept, GoesByAdded
  <2>6. QED
    BY <1>e, <2>1, <2>3, <2>4, <2>5
<1>11. CASE FileContentsRequest /\ ChannelFrame
  <2>1. offer' = offer /\ local' = local /\ vm' = vm /\ link' = link
    BY <1>11 DEF ChannelFrame, macVars, linkVars, vmVars
  <2>2. /\ \E v \in {local, 0} : toVm' = Append(toVm, Msg("chunk", "files", v))
        /\ "files" \in Kinds /\ \A v \in {local, 0} : v \in 0..Newest
    BY <1>11, <1>a, <1>c DEF FileContentsRequest, Answers, MacTyped, Kinds
  <2>3. toVm' = toVm \/ \E m \in Messages : m.type # "list" /\ toVm' = Append(toVm, m)
    BY <1>a, <1>c, <2>2, Sendable, TypesOf
  <2>4. CASE toVm' = toVm
    BY <1>e, <2>1, <2>4
  <2>5. ASSUME NEW m \in Messages, m.type # "list", toVm' = Append(toVm, m)
        PROVE  /\ HasList(toVm') => HasList(toVm)
               /\ GoesBy(vm.ver, toVm, local, Len(toVm) + 1)
                  => GoesBy(vm.ver, toVm', local, Len(toVm') + 1)
    BY <1>d, <2>5, ListsKept, GoesByAdded
  <2>6. QED
    BY <1>e, <2>1, <2>3, <2>4, <2>5
<1>12. CASE SendOffer /\ offer # 0 /\ MainFrame
  <2>1. /\ offer' = 0 /\ local' = local /\ vm' = vm /\ link' = link /\ offer # 0
        /\ \/ toVm' = Append(toVm, Msg("list", Kind(offer), offer))
           \/ ctx # "live" /\ toVm' = toVm
    BY <1>12 DEF SendOffer, MainFrame, vmVars
  <2>2. CASE ctx # "live"
    <3>1. link # "up" /\ toVm = <<>>
      BY <1>a, <2>2 DEF LinkTyped
    <3>2. vm.own = "vm" /\ ~HasList(toVm)
      BY <1>e, <3>1 DEF HasList
    <3>3. CASE toVm' = toVm
      BY <1>e, <2>1, <3>2, <3>3
    <3>4. CASE toVm' = Append(toVm, Msg("list", Kind(offer), offer))
      <4>1. Msg("list", Kind(offer), offer) \in Messages
        BY <1>a, KindType, Sendable DEF MacTyped
      <4>2. local # 0 => GoesBy(vm.ver, toVm', local, Len(toVm') + 1)
        BY <1>d, <1>e, <2>1, <3>4, <4>1, GoesByAdded, TypesOf
      <4>3. QED
        BY <1>e, <2>1, <4>2
    <3>5. QED
      BY <2>1, <3>3, <3>4
  <2>3. CASE ctx = "live"
    <3>1. Msg("list", Kind(offer), offer) \in Messages
      BY <1>a, KindType, Sendable DEF MacTyped
    <3>2. toVm' = Append(toVm, Msg("list", Kind(offer), offer))
      BY <2>1, <2>3
    <3>3. local # 0 => GoesBy(vm.ver, toVm', local, Len(toVm') + 1)
      BY <1>d, <1>e, <2>1, <3>1, <3>2, GoesByAdded, TypesOf
    <3>4. QED
      BY <1>e, <2>1, <3>3
  <2>4. QED
    BY <2>2, <2>3
<1>13. CASE DataChanged /\ offer = 0 /\ MainFrame
  <2>1. toVm' = toVm /\ vm' = vm /\ link' = link
    BY <1>13 DEF DataChanged, MainFrame, linkVars, vmVars
  <2>2. \/ offer' = offer /\ local' = local
        \/ /\ local' = (IF Kind(mac) = "files" THEN mac ELSE 0)
           /\ offer' = (IF Kind(mac) \in Offered THEN mac ELSE 0)
    BY <1>13 DEF DataChanged, Notice
  <2>3. \/ offer' = offer /\ local' = local
        \/ /\ offer' # 0 => local' \in {0, offer'}
           /\ local' # 0 => offer' = local'
    BY <2>2 DEF Offered
  <2>4. QED
    BY <1>e, <2>1, <2>3
<1>14. CASE RunPosted /\ offer = 0 /\ MainFrame
  <2>1. toVm' = toVm /\ vm' = vm /\ link' = link
    BY <1>14 DEF RunPosted, MainFrame, linkVars, vmVars
  <2>2. \/ offer' = offer /\ local' = local
        \/ /\ local' = (IF Kind(Head(posted).ver) = "files" THEN Head(posted).ver ELSE 0)
           /\ offer' = (IF Kind(Head(posted).ver) \in Offered THEN Head(posted).ver ELSE 0)
    BY <1>14 DEF RunPosted, SetUrls, SetFromRemote, Notice, macVars
  <2>3. \/ offer' = offer /\ local' = local
        \/ /\ offer' # 0 => local' \in {0, offer'}
           /\ local' # 0 => offer' = local'
    BY <2>2 DEF Offered
  <2>4. QED
    BY <1>e, <2>1, <2>3
<1>15. CASE Disconnect \/ SessionEnds
  <2>1. /\ offer' = offer /\ local' = local /\ toVm' = <<>>
        /\ vm' = IF vm.own = "mac" THEN [ver |-> 0, own |-> "vm"] ELSE vm
    BY <1>15 DEF Disconnect, SessionEnds, HangUp, macVars
  <2>2. vm'.own = "vm" /\ ~HasList(toVm')
    BY <1>a, <2>1 DEF VersionsTyped, HasList
  <2>3. QED
    BY <1>e, <2>1, <2>2
<1>16. CASE Reconnect \/ MonitorReady
  <2>1. /\ offer' = offer /\ local' = local /\ toVm' = toVm /\ vm' = vm
        /\ link # "up"
    BY <1>16 DEF Reconnect, MonitorReady, macVars, vmVars, wires
  <2>2. QED
    BY <1>e, <2>1
<1>17. CASE UNCHANGED vars
  <2>1. /\ offer' = offer /\ local' = local /\ toVm' = toVm /\ vm' = vm
        /\ link' = link
    BY <1>17 DEF vars, macVars, linkVars, vmVars, wires
  <2>2. QED
    BY <1>e, <2>1
<1>18. QED
  BY <1>1, <1>2, <1>3, <1>4, <1>5, <1>6, <1>7, <1>8, <1>9, <1>10, <1>11,
     <1>12, <1>13, <1>14, <1>15, <1>16, <1>17, StepCases

\* Files on their way are of a list the machine goes by, or will.
LEMMA FilesMove ==
    ASSUME IInv, [Next]_vars
    PROVE  ~paste'.stale =>
              \A i \in DOMAIN toVm' :
                  HasFiles(toVm'[i])
                  => Explained(vm'.ver, toVm', offer', toVm'[i].ver, i)
<1>a. CopiesTyped /\ MacTyped /\ VersionsTyped /\ LinkTyped
  BY TypeParts DEF IInv
<1>b. ToVmTyped /\ ToClientTyped /\ PasteTyped /\ PostsTyped
  BY WireParts DEF IInv
<1>c. Newest \in Nat /\ Newest <= MaxCopies
  BY <1>a, ShareAssumption DEF CopiesTyped, ShareAssumption
<1>d. toVm \in Seq(Messages) /\ toClient \in Seq(Messages)
  BY <1>b DEF ToVmTyped, ToClientTyped
<1>e. ~paste.stale =>
         \A i \in DOMAIN toVm :
            HasFiles(toVm[i]) => Explained(vm.ver, toVm, offer, toVm[i].ver, i)
  BY DEF IInv, FilesAreTold
<1>f. /\ OneOf(toClient, Requests) /\ OneOf(toVm, Replies)
      /\ NoneOf(toClient, Requests) \/ NoneOf(toVm, Replies)
      /\ paste = Idle => NoneOf(toClient, Requests) /\ NoneOf(toVm, Replies)
      /\ paste # Idle /\ ~paste.stale => vm.own = "mac"
  BY DEF IInv, OneAtATime
<1>g. ASSUME NoneOf(toVm', Replies)
      PROVE  \A i \in DOMAIN toVm' : ~HasFiles(toVm'[i])
  BY <1>g DEF NoneOf, HasFiles
<1>1. CASE \E kind \in MacKinds : MacCopy(kind)
  <2>1. offer' = offer /\ toVm' = toVm /\ vm' = vm /\ paste' = paste
    BY <1>1 DEF MacCopy, macVars, vmVars, wires
  <2>2. QED
    BY <1>e, <2>1
<1>2. CASE \E kind \in VmKinds : VmCopy(kind)
  <2>1. toVm' = toVm /\ paste' = GiveUp(paste)
    BY <1>2 DEF VmCopy
  <2>2. paste' = Idle => NoneOf(toVm', Replies)
    BY <1>b, <1>f, <2>1, GivenUp
  <2>3. QED
    BY <1>b, <1>g, <2>1, <2>2, GivenUp
<1>3. CASE Paste
  <2>1. toVm' = toVm /\ paste = Idle
    BY <1>3 DEF Paste
  <2>2. QED
    BY <1>f, <1>g, <2>1
<1>4. CASE VmGetsList /\ ServerFrame
  <2>1. toVm # <<>> /\ toVm' = Tail(toVm) /\ paste' = GiveUp(paste)
    BY <1>4 DEF VmGetsList, VmGets
  <2>2. paste' = Idle => NoneOf(toVm', Replies)
    BY <1>b, <1>d, <1>f, <2>1, GivenUp, OfTypesKept
  <2>3. QED
    BY <1>b, <1>g, <2>1, <2>2, GivenUp
<1>5. CASE VmGetsFetch /\ ServerFrame
  <2>1. /\ toVm # <<>> /\ toVm' = Tail(toVm) /\ Head(toVm).type # "list"
        /\ vm' = vm /\ paste' = paste /\ offer' = offer
    BY <1>5 DEF VmGetsFetch, VmGets, ServerFrame, vmVars, macVars
  <2>2. ASSUME ~paste.stale, NEW i \in DOMAIN toVm', HasFiles(toVm'[i])
        PROVE  Explained(vm.ver, toVm', offer, toVm'[i].ver, i)
    <3>1. i + 1 \in DOMAIN toVm /\ toVm'[i] = toVm[i + 1]
      BY <1>d, <2>1, Taken
    <3>2. Explained(vm.ver, toVm, offer, toVm[i + 1].ver, i + 1)
      BY <1>e, <2>2, <3>1
    <3>3. QED
      BY <1>d, <2>1, <2>2, <3>1, <3>2, ExplainedTaken
  <2>3. QED
    BY <2>1, <2>2
<1>6. CASE VmGetsAnswer /\ ServerFrame
  <2>1. toVm # <<>> /\ toVm' = Tail(toVm) /\ Head(toVm).type \in Replies
    BY <1>6 DEF VmGetsAnswer, VmGets, Replies
  <2>2. NoneOf(toVm', Replies)
    BY <1>d, <1>f, <2>1, OfTypesTaken
  <2>3. QED
    BY <1>g, <2>2
<1>7. CASE FormatList /\ ChannelFrame
  <2> DEFINE m == Msg("fetch", AskedAs(Head(toClient).kind), 0)
  <2>1. /\ toVm' = Append(toVm, m) /\ Head(toClient).kind \in Kinds
        /\ vm' = vm /\ paste' = paste /\ offer' = offer
    BY <1>7, <1>a, <1>b, MessagesKept
       DEF FormatList, Gets, ToClientTyped, ChannelFrame, vmVars, macVars
  <2>2. m \in Messages /\ ~HasFiles(m)
    BY <1>a, <1>c, <2>1, Sendable, TypesOf DEF HasFiles
  <2> HIDE DEF m
  <2>3. ASSUME ~paste.stale, NEW i \in DOMAIN toVm', HasFiles(toVm'[i])
        PROVE  Explained(vm.ver, toVm', offer, toVm'[i].ver, i)
    <3>1. i \in DOMAIN toVm /\ toVm'[i] = toVm[i]
      BY <1>d, <2>1, <2>2, <2>3, Appended
    <3>2. QED
      BY <1>d, <1>e, <2>1, <2>2, <2>3, <3>1, ExplainedLater
  <2>4. QED
    BY <2>1, <2>3
<1>8. CASE DataResponse /\ ChannelFrame
  <2>1. offer' = offer /\ toVm' = toVm /\ vm' = vm /\ paste' = paste
    BY <1>8 DEF DataResponse, ChannelFrame, macVars, vmVars, wires
  <2>2. QED
    BY <1>e, <2>1
<1>9. CASE FilesReceived /\ ChannelFrame
  <2>1. offer' = offer /\ toVm' = toVm /\ vm' = vm /\ paste' = paste
    BY <1>9 DEF FilesReceived, ChannelFrame, macVars, vmVars, wires
  <2>2. QED
    BY <1>e, <2>1
<1>10. CASE FormatDataRequest /\ ChannelFrame
  <2>1. /\ toClient # <<>> /\ Head(toClient).type \in Requests
        /\ vm' = vm /\ paste' = paste /\ offer' = offer /\ local' = local
    BY <1>10 DEF FormatDataRequest, Gets, Requests, ChannelFrame, vmVars, macVars
  <2>2. NoneOf(toVm, Replies) /\ paste # Idle
    BY <1>d, <1>f, <2>1, OfTypesTaken
  <2>3. \/ toVm' = toVm
        \/ \E v \in {local, mac, 0} :
              /\ toVm' = Append(toVm, Msg("data", Head(toClient).kind, v))
              /\ Head(toClient).kind = "files" => v \in {local, 0}
    BY <1>10 DEF FormatDataRequest, Answers
  <2>4. CASE toVm' = toVm
    BY <1>g, <2>2, <2>4
  <2>5. ASSUME toVm' # toVm, ~paste.stale, NEW i \in DOMAIN toVm', HasFiles(toVm'[i])
        PROVE  Explained(vm.ver, toVm', offer, toVm'[i].ver, i)
    <3>a. PICK v \in {local, mac, 0} :
              /\ toVm' = Append(toVm, Msg("data", Head(toClient).kind, v))
              /\ Head(toClient).kind = "files" => v \in {local, 0}
      BY <2>3, <2>5
    <3> DEFINE m == Msg("data", Head(toClient).kind, v)
    <3>1. m \in Messages /\ m.ver = v /\ m.kind = Head(toClient).kind
      <4>1. Head(toClient).kind \in Kinds /\ v \in 0..Newest
        BY <1>a, <1>b, <1>c, <2>1, MessagesKept DEF ToClientTyped, MacTyped, Kinds
      <4>2. QED
        BY <1>a, <4>1, Sendable, TypesOf
    <3>2. toVm' = Append(toVm, m)
      BY <3>a
    <3> HIDE DEF m
    <3>3. i = Len(toVm) + 1 /\ toVm'[i] = m
      BY <1>d, <2>2, <2>5, <3>1, <3>2, Appended DEF NoneOf, HasFiles
    <3>4. m.ver = local /\ local # 0
      BY <2>5, <3>a, <3>1, <3>3 DEF HasFiles
    <3>5. offer = local \/ GoesBy(vm.ver, toVm, local, Len(toVm) + 1)
      BY <1>f, <2>2, <2>5, <3>4 DEF IInv, LocalIsTold
    <3>6. Len(toVm) + 1 \in 1..(Len(toVm) + 1)
      BY <1>d, LenProperties
    <3>7. offer = local \/ GoesBy(vm.ver, toVm', local, i)
      BY <1>d, <3>1, <3>2, <3>3, <3>5, <3>6, GoesByLater
    <3>8. QED
      BY <3>3, <3>4, <3>7 DEF Explained
  <2>6. QED
    BY <2>1, <2>4, <2>5
<1>11. CASE FileContentsRequest /\ ChannelFrame
  <2>1. /\ toClient # <<>> /\ Head(toClient).type \in Requests
        /\ vm' = vm /\ paste' = paste /\ offer' = offer /\ local' = local
    BY <1>11 DEF FileContentsRequest, Gets, Requests, ChannelFrame, vmVars, macVars
  <2>2. NoneOf(toVm, Replies) /\ paste # Idle
    BY <1>d, <1>f, <2>1, OfTypesTaken
  <2>3. \/ toVm' = toVm
        \/ \E v \in {local, 0} :
              /\ toVm' = Append(toVm, Msg("chunk", "files", v))
              /\ "files" = "files" => v \in {local, 0}
    BY <1>11 DEF FileContentsRequest, Answers
  <2>4. CASE toVm' = toVm
    BY <1>g, <2>2, <2>4
  <2>5. ASSUME toVm' # toVm, ~paste.stale, NEW i \in DOMAIN toVm', HasFiles(toVm'[i])
        PROVE  Explained(vm.ver, toVm', offer, toVm'[i].ver, i)
    <3>a. PICK v \in {local, 0} :
              /\ toVm' = Append(toVm, Msg("chunk", "files", v))
              /\ "files" = "files" => v \in {local, 0}
      BY <2>3, <2>5
    <3> DEFINE m == Msg("chunk", "files", v)
    <3>1. m \in Messages /\ m.ver = v /\ m.kind = "files"
      <4>1. "files" \in Kinds /\ v \in 0..Newest
        BY <1>a, <1>b, <1>c, <2>1, MessagesKept DEF ToClientTyped, MacTyped, Kinds
      <4>2. QED
        BY <1>a, <4>1, Sendable, TypesOf
    <3>2. toVm' = Append(toVm, m)
      BY <3>a
    <3> HIDE DEF m
    <3>3. i = Len(toVm) + 1 /\ toVm'[i] = m
      BY <1>d, <2>2, <2>5, <3>1, <3>2, Appended DEF NoneOf, HasFiles
    <3>4. m.ver = local /\ local # 0
      BY <2>5, <3>a, <3>1, <3>3 DEF HasFiles
    <3>5. offer = local \/ GoesBy(vm.ver, toVm, local, Len(toVm) + 1)
      BY <1>f, <2>2, <2>5, <3>4 DEF IInv, LocalIsTold
    <3>6. Len(toVm) + 1 \in 1..(Len(toVm) + 1)
      BY <1>d, LenProperties
    <3>7. offer = local \/ GoesBy(vm.ver, toVm', local, i)
      BY <1>d, <3>1, <3>2, <3>3, <3>5, <3>6, GoesByLater
    <3>8. QED
      BY <3>3, <3>4, <3>7 DEF Explained
  <2>6. QED
    BY <2>1, <2>4, <2>5
<1>12. CASE SendOffer /\ offer # 0 /\ MainFrame
  <2> DEFINE m == Msg("list", Kind(offer), offer)
  <2>1. /\ vm' = vm /\ paste' = paste
        /\ \/ toVm' = Append(toVm, m)
           \/ ctx # "live" /\ toVm' = toVm
    BY <1>12 DEF SendOffer, MainFrame, vmVars
  <2>2. m \in Messages /\ m.type = "list" /\ m.ver = offer /\ ~HasFiles(m)
    <3>1. Kind(offer) \in Kinds /\ offer \in 0..Newest
      BY <1>a, KindType DEF MacTyped
    <3>2. QED
      BY <1>a, <3>1, Sendable, TypesOf DEF HasFiles
  <2> HIDE DEF m
  <2>3. CASE toVm' = toVm /\ ctx # "live"
    <3>1. toVm' = <<>>
      BY <1>a, <2>3 DEF LinkTyped
    <3>2. QED
      BY <3>1
  <2>4. ASSUME toVm' = Append(toVm, m), ~paste.stale, NEW i \in DOMAIN toVm',
               HasFiles(toVm'[i])
        PROVE  Explained(vm.ver, toVm', offer', toVm'[i].ver, i)
    <3>1. i \in DOMAIN toVm /\ toVm'[i] = toVm[i]
      BY <1>d, <2>2, <2>4, Appended
    <3>2. QED
      BY <1>d, <1>e, <2>2, <2>4, <3>1, ExplainedLater
  <2>5. QED
    BY <2>1, <2>3, <2>4
<1>13. CASE DataChanged /\ offer = 0 /\ MainFrame
  <2>1. toVm' = toVm /\ vm' = vm /\ paste' = paste /\ offer = 0
    BY <1>13 DEF DataChanged, MainFrame, vmVars
  <2>2. ASSUME NEW v, NEW i, v # 0, Explained(vm.ver, toVm, offer, v, i)
        PROVE  Explained(vm.ver, toVm, offer', v, i)
    BY <2>1, <2>2 DEF Explained
  <2>3. QED
    BY <1>e, <2>1, <2>2 DEF HasFiles
<1>14. CASE RunPosted /\ offer = 0 /\ MainFrame
  <2>1. toVm' = toVm /\ vm' = vm /\ paste' = paste /\ offer = 0
    BY <1>14 DEF RunPosted, MainFrame, vmVars
  <2>2. ASSUME NEW v, NEW i, v # 0, Explained(vm.ver, toVm, offer, v, i)
        PROVE  Explained(vm.ver, toVm, offer', v, i)
    BY <2>1, <2>2 DEF Explained
  <2>3. QED
    BY <1>e, <2>1, <2>2 DEF HasFiles
<1>15. CASE Disconnect \/ SessionEnds
  <2>1. toVm' = <<>>
    BY <1>15 DEF Disconnect, SessionEnds, HangUp
  <2>2. QED
    BY <2>1
<1>16. CASE Reconnect \/ MonitorReady
  <2>1. offer' = offer /\ toVm' = toVm /\ vm' = vm /\ paste' = paste
    BY <1>16 DEF Reconnect, MonitorReady, macVars, vmVars, wires
  <2>2. QED
    BY <1>e, <2>1
<1>17. CASE UNCHANGED vars
  <2>1. offer' = offer /\ toVm' = toVm /\ vm' = vm /\ paste' = paste
    BY <1>17 DEF vars, macVars, vmVars, wires
  <2>2. QED
    BY <1>e, <2>1
<1>18. QED
  BY <1>1, <1>2, <1>3, <1>4, <1>5, <1>6, <1>7, <1>8, <1>9, <1>10, <1>11,
     <1>12, <1>13, <1>14, <1>15, <1>16, <1>17, StepCases

\* Both stay so.
LEMMA ToldStep ==
    ASSUME IInv, [Next]_vars
    PROVE  LocalIsTold' /\ FilesAreTold'
<1>1. LocalIsTold'
  BY LocalMoves DEF LocalIsTold, GoesBy, HasList
<1>2. FilesAreTold'
  BY FilesMove DEF FilesAreTold, HasFiles, Explained, GoesBy, Replies
<1>3. QED
  BY <1>1, <1>2


\* A queue of one message.
LEMMA Single ==
    ASSUME NEW x
    PROVE  /\ <<x>> # <<>> /\ Head(<<x>>) = x /\ Tail(<<x>>) = <<>>
           /\ Append(<<>>, x) = <<x>>
  OBVIOUS

\* Which lists are under way, as messages are taken and added.
LEMMA ListsMove ==
    ASSUME NEW s \in Seq(Messages), NEW n
    PROVE  /\ ListsOf(s, n) /\ s # <<>> =>
                /\ ListsOf(Tail(s), n)
                /\ Head(s).type = "list" => Head(s).ver = n
           /\ HasList(s) /\ s # <<>> /\ Head(s).type # "list" => HasList(Tail(s))
           /\ \A m \in Messages :
                /\ ListsOf(s, n) /\ (m.type = "list" => m.ver = n)
                   => ListsOf(Append(s, m), n)
                /\ HasList(s) \/ m.type = "list" => HasList(Append(s, m))
<1>1. ASSUME s # <<>>
      PROVE  /\ ListsOf(s, n) => /\ ListsOf(Tail(s), n)
                                 /\ Head(s).type = "list" => Head(s).ver = n
             /\ HasList(s) /\ Head(s).type # "list" => HasList(Tail(s))
  <2>1. /\ Head(s) = s[1] /\ 1 \in DOMAIN s /\ Len(Tail(s)) = Len(s) - 1
        /\ \A i \in DOMAIN Tail(s) : i + 1 \in DOMAIN s /\ Tail(s)[i] = s[i + 1]
        /\ DOMAIN s = 1..Len(s) /\ Len(s) \in Nat /\ DOMAIN Tail(s) = 1..Len(Tail(s))
    BY <1>1, Taken, LenProperties
  <2>2. ListsOf(s, n) => ListsOf(Tail(s), n) /\ (Head(s).type = "list" => Head(s).ver = n)
    BY <2>1 DEF ListsOf
  <2>3. ASSUME NEW j \in DOMAIN s, s[j].type = "list", Head(s).type # "list"
        PROVE  HasList(Tail(s))
    <3>1. j - 1 \in DOMAIN Tail(s) /\ (j - 1) + 1 = j
      BY <2>1, <2>3
    <3>2. Tail(s)[j - 1] = s[j]
      BY <2>1, <3>1
    <3>3. QED
      BY <2>3, <3>1, <3>2 DEF HasList
  <2>4. QED
    BY <2>2, <2>3 DEF HasList
<1>2. ASSUME NEW m \in Messages
      PROVE  /\ ListsOf(s, n) /\ (m.type = "list" => m.ver = n)
                => ListsOf(Append(s, m), n)
             /\ HasList(s) \/ m.type = "list" => HasList(Append(s, m))
  BY Appended DEF ListsOf, HasList
<1>3. QED
  BY <1>1, <1>2

\* No message, no list.
LEMMA NoMessages ==
    ASSUME NEW n, NEW types
    PROVE  ~HasList(<<>>) /\ ListsOf(<<>>, n) /\ NoneOf(<<>>, types)
  BY DEF HasList, ListsOf, NoneOf


\* Copies made one after the other go on their way.
LEMMA SerialStep ==
    ASSUME IInv, [Next]_vars
    PROVE  Serial' => OnItsWay(Newest, Kind(Newest))' \/ OnTheMac(Newest)'
<1>a. CopiesTyped /\ MacTyped /\ VersionsTyped /\ LinkTyped
  BY TypeParts DEF IInv
<1>b. ToVmTyped /\ ToClientTyped /\ PasteTyped /\ PostsTyped
  BY WireParts DEF IInv
<1>c. Newest \in Nat /\ Newest <= MaxCopies
  BY <1>a, ShareAssumption DEF CopiesTyped, ShareAssumption
<1>d. toVm \in Seq(Messages) /\ toClient \in Seq(Messages)
  BY <1>b DEF ToVmTyped, ToClientTyped
<1>e. ASSUME Serial', copied' = copied, raced' = raced, link' = link, drops' = drops
      PROVE  /\ Newest' = Newest /\ Kind(Newest)' = Kind(Newest) /\ link = "up"
             /\ ctx = "live" /\ fromRemote = FALSE /\ Newest # 0
             /\ Kind(Newest) \in {"files", "text", "image"}
             /\ OnItsWay(Newest, Kind(Newest)) \/ OnTheMac(Newest)
  <2>1. Newest' = Newest /\ Kind(Newest)' = Kind(Newest)
    BY <1>e DEF Newest, Kind
  <2>2. Serial
    BY <1>e, <2>1 DEF Serial
  <2>3. Newest # 0
    BY <2>2 DEF Serial, Kind
  <2>4. QED
    BY <1>a, <2>1, <2>2, <2>3 DEF Serial, IInv, OneByOne, LinkTyped, MacTyped
<1>1. CASE \E kind \in MacKinds : MacCopy(kind)
  <2>1. PICK kind \in MacKinds : MacCopy(kind)
    BY <1>1
  <2>2. Newest' = Newest + 1
    BY <1>a, <2>1, CopyAdds, ShareAssumption DEF MacCopy, ShareAssumption
  <2>3. /\ mac' = Newest + 1 /\ signal' = TRUE /\ incoming' = incoming
        /\ posted' = posted /\ offer' = offer /\ toVm' = toVm /\ toClient' = toClient
    BY <2>1 DEF MacCopy, recvVars, wires
  <2>4. Serial' => Quiet
    BY <2>1 DEF Serial, MacCopy, Copy
  <2>5. QED
    BY <2>2, <2>3, <2>4, NoMessages DEF Quiet, OnTheMac
<1>2. CASE \E kind \in VmKinds : VmCopy(kind)
  <2>1. PICK kind \in VmKinds : VmCopy(kind)
    BY <1>2
  <2>2. kind \in Kinds /\ Copy(kind, "vm")
    BY <2>1, ShareAssumption DEF VmCopy, ShareAssumption, Offered, Kinds
  <2>3. Newest' = Newest + 1 /\ copied'[Newest + 1] = [kind |-> kind, side |-> "vm"]
    BY <1>a, <2>2, CopyAdds
  <2>4. Kind(Newest)' = kind
    BY <1>c, <2>3 DEF Kind
  <2>5. Serial' => Quiet
    BY <2>2 DEF Serial, Copy
  <2>6. /\ vm' = [ver |-> Newest + 1, own |-> "vm"] /\ signal' = signal /\ offer' = offer
        /\ toClient' = Append(toClient, Msg("list", kind, Newest + 1))
        /\ toVm' = toVm /\ incoming' = incoming /\ posted' = posted
    BY <2>1 DEF VmCopy, macVars, recvVars
  <2>7. Quiet => toClient' = <<Msg("list", kind, Newest + 1)>>
    BY <2>6, Single DEF Quiet
  <2>8. QED
    BY <2>3, <2>4, <2>5, <2>6, <2>7 DEF Quiet, OnItsWay
<1>3. CASE Paste
  <2> SUFFICES ASSUME Serial'
               PROVE  OnItsWay(Newest, Kind(Newest))' \/ OnTheMac(Newest)'
    OBVIOUS
  <2>f. copied' = copied /\ raced' = raced /\ link' = link /\ drops' = drops
    BY <1>3 DEF Paste, linkVars
  <2>s. /\ Newest' = Newest /\ Kind(Newest)' = Kind(Newest) /\ link = "up"
        /\ ctx = "live" /\ fromRemote = FALSE /\ Newest # 0
        /\ Kind(Newest) \in {"files", "text", "image"}
        /\ OnItsWay(Newest, Kind(Newest)) \/ OnTheMac(Newest)
    BY <1>e, <2>f
  <2>1. /\ vm.own = "mac" /\ vm' = vm /\ toVm' = toVm
        /\ toClient' = Append(toClient, Msg("fetch", AskedAs(Kind(vm.ver)), 0))
        /\ mac' = mac /\ incoming' = incoming /\ posted' = posted /\ offer' = offer
        /\ signal' = signal
    BY <1>3 DEF Paste, macVars, recvVars
  <2>2. OnTheMac(Newest)
    BY <2>1, <2>s DEF OnItsWay
  <2>3. NoneOf(toClient', {"list", "data"})
    <3>1. Msg("fetch", AskedAs(Kind(vm.ver)), 0) \in Messages
      BY <1>a, <1>c, KindType, Sendable DEF VersionsTyped
    <3>2. toClient' = toClient
          \/ \E m \in Messages : m.type \notin {"list", "data"}
                               /\ toClient' = Append(toClient, m)
      BY <2>1, <3>1, TypesOf
    <3>3. QED
      BY <1>d, <2>2, <3>2, OfTypesKept DEF OnTheMac
  <2>4. QED
    BY <2>1, <2>2, <2>3, <2>s DEF OnTheMac
<1>4. CASE VmGetsList /\ ServerFrame
  <2> SUFFICES ASSUME Serial'
               PROVE  OnItsWay(Newest, Kind(Newest))' \/ OnTheMac(Newest)'
    OBVIOUS
  <2>f. copied' = copied /\ raced' = raced /\ link' = link /\ drops' = drops
    BY <1>4 DEF ServerFrame, linkVars
  <2>s. /\ Newest' = Newest /\ Kind(Newest)' = Kind(Newest) /\ link = "up"
        /\ ctx = "live" /\ fromRemote = FALSE /\ Newest # 0
        /\ Kind(Newest) \in {"files", "text", "image"}
        /\ OnItsWay(Newest, Kind(Newest)) \/ OnTheMac(Newest)
    BY <1>e, <2>f
  <2>1. /\ toVm # <<>> /\ Head(toVm).type = "list" /\ toVm' = Tail(toVm)
        /\ vm'.ver = Head(toVm).ver /\ toClient' = toClient
        /\ mac' = mac /\ incoming' = incoming /\ posted' = posted /\ offer' = offer
        /\ signal' = signal
    BY <1>4 DEF VmGetsList, VmGets, ServerFrame, macVars, recvVars
  <2>2. OnTheMac(Newest)
    BY <2>1, <2>s, Single, TypesOf DEF OnItsWay
  <2>3. vm'.ver = Newest /\ ListsOf(toVm', Newest) /\ NoneOf(toVm', {"fetch"})
    BY <1>d, <2>1, <2>2, ListsMove, OfTypesKept DEF OnTheMac
  <2>4. QED
    BY <2>1, <2>2, <2>3, <2>s DEF OnTheMac
<1>5. CASE VmGetsFetch /\ ServerFrame
  <2> SUFFICES ASSUME Serial'
               PROVE  OnItsWay(Newest, Kind(Newest))' \/ OnTheMac(Newest)'
    OBVIOUS
  <2>f. copied' = copied /\ raced' = raced /\ link' = link /\ drops' = drops
    BY <1>5 DEF ServerFrame, linkVars
  <2>s. /\ Newest' = Newest /\ Kind(Newest)' = Kind(Newest) /\ link = "up"
        /\ ctx = "live" /\ fromRemote = FALSE /\ Newest # 0
        /\ Kind(Newest) \in {"files", "text", "image"}
        /\ OnItsWay(Newest, Kind(Newest)) \/ OnTheMac(Newest)
    BY <1>e, <2>f
  <2>1. /\ toVm # <<>> /\ Head(toVm).type = "fetch" /\ toVm' = Tail(toVm)
        /\ vm' = vm /\ slot' = slot
        /\ mac' = mac /\ incoming' = incoming /\ posted' = posted /\ offer' = offer
        /\ signal' = signal
    BY <1>5 DEF VmGetsFetch, VmGets, ServerFrame, macVars, recvVars, vmVars
  <2>2. ~NoneOf(toVm, {"fetch"})
    BY <1>d, <2>1, OfTypesTaken
  <2>3. /\ vm = [ver |-> Newest, own |-> "vm"] /\ ~signal /\ offer = 0
        /\ toVm = <<Msg("fetch", Kind(Newest), 0)>> /\ slot = Kind(Newest)
        /\ toClient = <<>> /\ incoming = 0 /\ posted = <<>>
    BY <2>1, <2>2, <2>s, Single, TypesOf DEF OnItsWay, OnTheMac
  <2>4. AskedAs(Kind(Newest)) = Kind(Newest)
    BY <2>s DEF AskedAs
  <2>5. toClient' = Append(toClient, Msg("data", Kind(Newest), Newest))
    <3>1. Head(toVm).kind = Kind(Newest)
      BY <2>3, Single, TypesOf
    <3>2. QED
      BY <1>5, <2>3, <2>4, <3>1 DEF VmGetsFetch
  <2>6. toClient' = <<Msg("data", Kind(Newest), Newest)>> /\ toVm' = <<>>
    BY <2>1, <2>3, <2>5, Single
  <2>7. QED
    BY <2>1, <2>3, <2>6, <2>s DEF OnItsWay
<1>6. CASE VmGetsAnswer /\ ServerFrame
  <2> SUFFICES ASSUME Serial'
               PROVE  OnItsWay(Newest, Kind(Newest))' \/ OnTheMac(Newest)'
    OBVIOUS
  <2>f. copied' = copied /\ raced' = raced /\ link' = link /\ drops' = drops
    BY <1>6 DEF ServerFrame, linkVars
  <2>s. /\ Newest' = Newest /\ Kind(Newest)' = Kind(Newest) /\ link = "up"
        /\ ctx = "live" /\ fromRemote = FALSE /\ Newest # 0
        /\ Kind(Newest) \in {"files", "text", "image"}
        /\ OnItsWay(Newest, Kind(Newest)) \/ OnTheMac(Newest)
    BY <1>e, <2>f
  <2>1. /\ toVm # <<>> /\ Head(toVm).type \in {"data", "chunk"} /\ toVm' = Tail(toVm)
        /\ vm' = vm
        /\ toClient' = toClient \/ toClient' = Append(toClient, Msg("contents", "files", 0))
        /\ mac' = mac /\ incoming' = incoming /\ posted' = posted /\ offer' = offer
        /\ signal' = signal
    BY <1>6 DEF VmGetsAnswer, VmGets, ServerFrame, macVars, recvVars
  <2>2. OnTheMac(Newest)
    BY <2>1, <2>s, Single, TypesOf DEF OnItsWay
  <2>3. /\ ListsOf(toVm', Newest) /\ NoneOf(toVm', {"fetch"})
        /\ HasList(toVm) => HasList(toVm')
    BY <1>d, <2>1, <2>2, ListsMove, OfTypesKept DEF OnTheMac
  <2>4. NoneOf(toClient', {"list", "data"})
    <3>1. Msg("contents", "files", 0) \in Messages
      BY <1>a, <1>c, Sendable DEF Kinds
    <3>2. toClient' = toClient
          \/ \E m \in Messages : m.type \notin {"list", "data"}
                               /\ toClient' = Append(toClient, m)
      BY <2>1, <3>1, TypesOf
    <3>3. QED
      BY <1>d, <2>2, <3>2, OfTypesKept DEF OnTheMac
  <2>5. QED
    BY <2>1, <2>2, <2>3, <2>4, <2>s DEF OnTheMac
<1>7. CASE FormatList /\ ChannelFrame
  <2> SUFFICES ASSUME Serial'
               PROVE  OnItsWay(Newest, Kind(Newest))' \/ OnTheMac(Newest)'
    OBVIOUS
  <2>f. copied' = copied /\ raced' = raced /\ link' = link /\ drops' = drops
    BY <1>7 DEF ChannelFrame, linkVars
  <2>s. /\ Newest' = Newest /\ Kind(Newest)' = Kind(Newest) /\ link = "up"
        /\ ctx = "live" /\ fromRemote = FALSE /\ Newest # 0
        /\ Kind(Newest) \in {"files", "text", "image"}
        /\ OnItsWay(Newest, Kind(Newest)) \/ OnTheMac(Newest)
    BY <1>e, <2>f
  <2>1. /\ toClient # <<>> /\ Head(toClient).type = "list" /\ toClient' = Tail(toClient)
        /\ vm' = vm /\ signal' = signal /\ offer' = offer /\ incoming' = 0 /\ posted' = posted
        /\ slot' = AskedAs(Head(toClient).kind)
        /\ toVm' = Append(toVm, Msg("fetch", AskedAs(Head(toClient).kind), 0))
    BY <1>7 DEF FormatList, Gets, ChannelFrame, macVars, vmVars
  <2>2. ~NoneOf(toClient, {"list", "data"})
    BY <1>d, <2>1, OfTypesTaken
  <2>3. /\ vm = [ver |-> Newest, own |-> "vm"] /\ ~signal /\ offer = 0
        /\ toClient = <<Msg("list", Kind(Newest), Newest)>>
        /\ toVm = <<>> /\ incoming = 0 /\ posted = <<>>
    BY <2>1, <2>2, <2>s, Single, TypesOf DEF OnItsWay, OnTheMac
  <2>4. AskedAs(Kind(Newest)) = Kind(Newest) /\ Head(toClient).kind = Kind(Newest)
    BY <2>3, <2>s, Single, TypesOf DEF AskedAs
  <2>5. toVm' = <<Msg("fetch", Kind(Newest), 0)>> /\ toClient' = <<>>
    BY <2>1, <2>3, <2>4, Single
  <2>6. QED
    BY <2>1, <2>3, <2>4, <2>5, <2>s DEF OnItsWay
<1>8. CASE DataResponse /\ ChannelFrame
  <2> SUFFICES ASSUME Serial'
               PROVE  OnItsWay(Newest, Kind(Newest))' \/ OnTheMac(Newest)'
    OBVIOUS
  <2>f. copied' = copied /\ raced' = raced /\ link' = link /\ drops' = drops
    BY <1>8 DEF ChannelFrame, linkVars
  <2>s. /\ Newest' = Newest /\ Kind(Newest)' = Kind(Newest) /\ link = "up"
        /\ ctx = "live" /\ fromRemote = FALSE /\ Newest # 0
        /\ Kind(Newest) \in {"files", "text", "image"}
        /\ OnItsWay(Newest, Kind(Newest)) \/ OnTheMac(Newest)
    BY <1>e, <2>f
  <2>1. /\ toClient # <<>> /\ Head(toClient).type = "data" /\ toClient' = Tail(toClient)
        /\ vm' = vm /\ signal' = signal /\ offer' = offer /\ slot' = slot /\ toVm' = toVm
    BY <1>8 DEF DataResponse, Gets, ChannelFrame, macVars, vmVars
  <2>2. ~NoneOf(toClient, {"list", "data"})
    BY <1>d, <2>1, OfTypesTaken
  <2>3. /\ vm = [ver |-> Newest, own |-> "vm"] /\ ~signal /\ offer = 0
        /\ toClient = <<Msg("data", Kind(Newest), Newest)>> /\ slot = Kind(Newest)
        /\ toVm = <<>> /\ incoming = 0 /\ posted = <<>>
    BY <2>1, <2>2, <2>s, Single, TypesOf DEF OnItsWay, OnTheMac
  <2>4. /\ Head(toClient).kind = Kind(Newest) /\ Head(toClient).ver = Newest
        /\ toClient' = <<>>
    BY <2>1, <2>3, Single, TypesOf
  <2>5. CASE Kind(Newest) = "files"
    <3>1. incoming' = Newest /\ posted' = posted
      BY <1>8, <2>3, <2>4, <2>5, <2>s DEF DataResponse
    <3>2. QED
      BY <2>1, <2>3, <2>4, <2>5, <2>s, <3>1 DEF OnItsWay
  <2>6. CASE Kind(Newest) # "files"
    <3>1. /\ posted' = Append(posted, [kind |-> Kind(Newest), real |-> Kind(Newest),
                                       ver |-> Newest])
          /\ incoming' = incoming
      BY <1>8, <2>3, <2>4, <2>6, <2>s DEF DataResponse, Post
    <3>2. posted' = <<[kind |-> Kind(Newest), real |-> Kind(Newest), ver |-> Newest]>>
      BY <2>3, <3>1, Single
    <3>3. QED
      BY <2>1, <2>3, <2>4, <2>s, <3>1, <3>2 DEF OnItsWay
  <2>7. QED
    BY <2>5, <2>6
<1>9. CASE FilesReceived /\ ChannelFrame
  <2> SUFFICES ASSUME Serial'
               PROVE  OnItsWay(Newest, Kind(Newest))' \/ OnTheMac(Newest)'
    OBVIOUS
  <2>f. copied' = copied /\ raced' = raced /\ link' = link /\ drops' = drops
    BY <1>9 DEF ChannelFrame, linkVars
  <2>s. /\ Newest' = Newest /\ Kind(Newest)' = Kind(Newest) /\ link = "up"
        /\ ctx = "live" /\ fromRemote = FALSE /\ Newest # 0
        /\ Kind(Newest) \in {"files", "text", "image"}
        /\ OnItsWay(Newest, Kind(Newest)) \/ OnTheMac(Newest)
    BY <1>e, <2>f
  <2>1. /\ incoming # 0 /\ incoming' = 0 /\ toVm' = toVm /\ toClient' = toClient
        /\ vm' = vm /\ signal' = signal /\ offer' = offer
    BY <1>9 DEF FilesReceived, ChannelFrame, macVars, vmVars, wires
  <2>2. /\ vm = [ver |-> Newest, own |-> "vm"] /\ ~signal /\ offer = 0
        /\ incoming = Newest /\ Kind(Newest) = "files"
        /\ toVm = <<>> /\ toClient = <<>> /\ posted = <<>>
    BY <2>1, <2>s DEF OnItsWay, OnTheMac
  <2>3. posted' = Append(posted, [kind |-> "files", real |-> "files", ver |-> Newest])
    BY <1>9, <2>2 DEF FilesReceived, Post
  <2>4. posted' = <<[kind |-> "files", real |-> "files", ver |-> Newest]>>
    BY <2>2, <2>3, Single
  <2>5. QED
    BY <2>1, <2>2, <2>4, <2>s DEF OnItsWay
<1>10. CASE FormatDataRequest /\ ChannelFrame
  <2> SUFFICES ASSUME Serial'
               PROVE  OnItsWay(Newest, Kind(Newest))' \/ OnTheMac(Newest)'
    OBVIOUS
  <2>f. copied' = copied /\ raced' = raced /\ link' = link /\ drops' = drops
    BY <1>10 DEF ChannelFrame, linkVars
  <2>s. /\ Newest' = Newest /\ Kind(Newest)' = Kind(Newest) /\ link = "up"
        /\ ctx = "live" /\ fromRemote = FALSE /\ Newest # 0
        /\ Kind(Newest) \in {"files", "text", "image"}
        /\ OnItsWay(Newest, Kind(Newest)) \/ OnTheMac(Newest)
    BY <1>e, <2>f
  <2>1. /\ toClient # <<>> /\ Head(toClient).type = "fetch" /\ toClient' = Tail(toClient)
        /\ vm' = vm
        /\ mac' = mac /\ incoming' = incoming /\ posted' = posted /\ offer' = offer
        /\ signal' = signal
    BY <1>10 DEF FormatDataRequest, Gets, ChannelFrame, macVars, recvVars, vmVars
  <2>2. OnTheMac(Newest)
    BY <2>1, <2>s, Single, TypesOf DEF OnItsWay
  <2>3. \/ toVm' = toVm
        \/ \E v \in {local, mac, 0} : toVm' = Append(toVm, Msg("data", Head(toClient).kind, v))
    BY <1>10 DEF FormatDataRequest, Answers
  <2>4. \A v \in {local, mac, 0} :
          /\ Msg("data", Head(toClient).kind, v) \in Messages
          /\ Msg("data", Head(toClient).kind, v).type = "data"
    <3>1. Head(toClient).kind \in Kinds /\ \A v \in {local, mac, 0} : v \in 0..Newest
      BY <1>a, <1>b, <1>c, <2>1, MessagesKept DEF ToClientTyped, MacTyped, Kinds
    <3>2. QED
      BY <1>a, <3>1, Sendable, TypesOf
  <2>5. /\ ListsOf(toVm', Newest) /\ NoneOf(toVm', {"fetch"})
        /\ HasList(toVm) => HasList(toVm')
    <3>1. CASE toVm' = toVm
      BY <2>2, <3>1 DEF OnTheMac
    <3>2. ASSUME NEW m \in Messages, m.type = "data", toVm' = Append(toVm, m)
          PROVE  /\ ListsOf(toVm', Newest) /\ NoneOf(toVm', {"fetch"})
                 /\ HasList(toVm) => HasList(toVm')
      <4>1. m.type \notin {"fetch"} /\ m.type # "list"
        BY <3>2
      <4>2. QED
        BY <1>d, <2>2, <3>2, <4>1, ListsMove, OfTypesKept DEF OnTheMac
    <3>3. QED
      BY <2>3, <2>4, <3>1, <3>2
  <2>6. NoneOf(toClient', {"list", "data"})
    BY <1>d, <2>1, <2>2, OfTypesKept DEF OnTheMac
  <2>7. QED
    BY <2>1, <2>2, <2>5, <2>6, <2>s DEF OnTheMac
<1>11. CASE FileContentsRequest /\ ChannelFrame
  <2> SUFFICES ASSUME Serial'
               PROVE  OnItsWay(Newest, Kind(Newest))' \/ OnTheMac(Newest)'
    OBVIOUS
  <2>f. copied' = copied /\ raced' = raced /\ link' = link /\ drops' = drops
    BY <1>11 DEF ChannelFrame, linkVars
  <2>s. /\ Newest' = Newest /\ Kind(Newest)' = Kind(Newest) /\ link = "up"
        /\ ctx = "live" /\ fromRemote = FALSE /\ Newest # 0
        /\ Kind(Newest) \in {"files", "text", "image"}
        /\ OnItsWay(Newest, Kind(Newest)) \/ OnTheMac(Newest)
    BY <1>e, <2>f
  <2>1. /\ toClient # <<>> /\ Head(toClient).type = "contents" /\ toClient' = Tail(toClient)
        /\ vm' = vm
        /\ mac' = mac /\ incoming' = incoming /\ posted' = posted /\ offer' = offer
        /\ signal' = signal
    BY <1>11 DEF FileContentsRequest, Gets, ChannelFrame, macVars, recvVars, vmVars
  <2>2. OnTheMac(Newest)
    BY <2>1, <2>s, Single, TypesOf DEF OnItsWay
  <2>3. \/ toVm' = toVm
        \/ \E v \in {local, 0} : toVm' = Append(toVm, Msg("chunk", "files", v))
    BY <1>11 DEF FileContentsRequest, Answers
  <2>4. \A v \in {local, 0} :
          /\ Msg("chunk", "files", v) \in Messages
          /\ Msg("chunk", "files", v).type = "chunk"
    <3>1. "files" \in Kinds /\ \A v \in {local, 0} : v \in 0..Newest
      BY <1>a, <1>b, <1>c, <2>1, MessagesKept DEF ToClientTyped, MacTyped, Kinds
    <3>2. QED
      BY <1>a, <3>1, Sendable, TypesOf
  <2>5. /\ ListsOf(toVm', Newest) /\ NoneOf(toVm', {"fetch"})
        /\ HasList(toVm) => HasList(toVm')
    <3>1. CASE toVm' = toVm
      BY <2>2, <3>1 DEF OnTheMac
    <3>2. ASSUME NEW m \in Messages, m.type = "chunk", toVm' = Append(toVm, m)
          PROVE  /\ ListsOf(toVm', Newest) /\ NoneOf(toVm', {"fetch"})
                 /\ HasList(toVm) => HasList(toVm')
      <4>1. m.type \notin {"fetch"} /\ m.type # "list"
        BY <3>2
      <4>2. QED
        BY <1>d, <2>2, <3>2, <4>1, ListsMove, OfTypesKept DEF OnTheMac
    <3>3. QED
      BY <2>3, <2>4, <3>1, <3>2
  <2>6. NoneOf(toClient', {"list", "data"})
    BY <1>d, <2>1, <2>2, OfTypesKept DEF OnTheMac
  <2>7. QED
    BY <2>1, <2>2, <2>5, <2>6, <2>s DEF OnTheMac
<1>12. CASE SendOffer /\ offer # 0 /\ MainFrame
  <2> SUFFICES ASSUME Serial'
               PROVE  OnItsWay(Newest, Kind(Newest))' \/ OnTheMac(Newest)'
    OBVIOUS
  <2>f. copied' = copied /\ raced' = raced /\ link' = link /\ drops' = drops
    BY <1>12 DEF SendOffer, MainFrame
  <2>s. /\ Newest' = Newest /\ Kind(Newest)' = Kind(Newest) /\ link = "up"
        /\ ctx = "live" /\ fromRemote = FALSE /\ Newest # 0
        /\ Kind(Newest) \in {"files", "text", "image"}
        /\ OnItsWay(Newest, Kind(Newest)) \/ OnTheMac(Newest)
    BY <1>e, <2>f
  <2>1. /\ toVm' = Append(toVm, Msg("list", Kind(offer), offer)) /\ offer # 0
        /\ offer' = 0 /\ mac' = mac /\ posted' = posted /\ incoming' = incoming
        /\ toClient' = toClient
    BY <1>12, <2>s DEF SendOffer, MainFrame, recvVars
  <2>2. OnTheMac(Newest)
    BY <2>1, <2>s DEF OnItsWay
  <2>3. /\ Msg("list", Kind(offer), offer) \in Messages
        /\ Msg("list", Kind(offer), offer).type = "list"
        /\ Msg("list", Kind(offer), offer).ver = Newest
    <3>1. Kind(offer) \in Kinds /\ offer \in 0..Newest /\ offer = Newest
      BY <1>a, <2>1, <2>2, KindType DEF MacTyped, OnTheMac
    <3>2. QED
      BY <1>a, <3>1, Sendable, TypesOf
  <2>4. ListsOf(toVm', Newest) /\ NoneOf(toVm', {"fetch"}) /\ HasList(toVm')
    <3>1. ASSUME NEW m \in Messages, m.type = "list", m.ver = Newest,
                 toVm' = Append(toVm, m)
          PROVE  ListsOf(toVm', Newest) /\ NoneOf(toVm', {"fetch"}) /\ HasList(toVm')
      <4>1. m.type \notin {"fetch"}
        BY <3>1
      <4>2. QED
        BY <1>d, <2>2, <3>1, <4>1, ListsMove, OfTypesKept DEF OnTheMac
    <3>2. QED
      BY <2>1, <2>3, <3>1
  <2>5. QED
    BY <2>1, <2>2, <2>4, <2>s DEF OnTheMac
<1>13. CASE DataChanged /\ offer = 0 /\ MainFrame
  <2> SUFFICES ASSUME Serial'
               PROVE  OnItsWay(Newest, Kind(Newest))' \/ OnTheMac(Newest)'
    OBVIOUS
  <2>f. copied' = copied /\ raced' = raced /\ link' = link /\ drops' = drops
    BY <1>13 DEF DataChanged, MainFrame, linkVars
  <2>s. /\ Newest' = Newest /\ Kind(Newest)' = Kind(Newest) /\ link = "up"
        /\ ctx = "live" /\ fromRemote = FALSE /\ Newest # 0
        /\ Kind(Newest) \in {"files", "text", "image"}
        /\ OnItsWay(Newest, Kind(Newest)) \/ OnTheMac(Newest)
    BY <1>e, <2>f
  <2>1. /\ signal /\ mac' = mac /\ posted' = posted /\ incoming' = incoming
        /\ toClient' = toClient /\ toVm' = toVm
    BY <1>13 DEF DataChanged, MainFrame, recvVars
  <2>2. OnTheMac(Newest)
    BY <2>1, <2>s DEF OnItsWay
  <2>3. mac = Newest
    BY <2>2 DEF OnTheMac
  <2>4. offer' = Newest
    BY <1>13, <2>3, <2>s DEF DataChanged, Notice, Offered
  <2>5. QED
    BY <2>1, <2>2, <2>4, <2>s DEF OnTheMac
<1>14. CASE RunPosted /\ offer = 0 /\ MainFrame
  <2> SUFFICES ASSUME Serial'
               PROVE  OnItsWay(Newest, Kind(Newest))' \/ OnTheMac(Newest)'
    OBVIOUS
  <2>f. copied' = copied /\ raced' = raced /\ link' = link /\ drops' = drops
    BY <1>14 DEF RunPosted, MainFrame, linkVars
  <2>s. /\ Newest' = Newest /\ Kind(Newest)' = Kind(Newest) /\ link = "up"
        /\ ctx = "live" /\ fromRemote = FALSE /\ Newest # 0
        /\ Kind(Newest) \in {"files", "text", "image"}
        /\ OnItsWay(Newest, Kind(Newest)) \/ OnTheMac(Newest)
    BY <1>e, <2>f
  <2>1. /\ posted # <<>> /\ posted' = Tail(posted) /\ incoming' = incoming
        /\ toClient' = toClient /\ toVm' = toVm /\ vm' = vm
    BY <1>14 DEF RunPosted, MainFrame, recvVars, vmVars
  <2> DEFINE p == [kind |-> Kind(Newest), real |-> Kind(Newest), ver |-> Newest]
  <2>2. /\ vm = [ver |-> Newest, own |-> "vm"] /\ ~signal /\ offer = 0
        /\ posted = <<p>> /\ toVm = <<>> /\ toClient = <<>> /\ incoming = 0
    BY <2>1, <2>s DEF OnItsWay, OnTheMac
  <2>3. Head(posted) = p /\ posted' = <<>>
    BY <2>1, <2>2, Single
  <2>4. /\ Head(posted).kind = Kind(Newest) /\ Head(posted).real = Kind(Newest)
        /\ Head(posted).ver = Newest
    BY <2>3
  <2>5. mac' = Newest /\ offer' \in {0, Newest}
    <3>1. CASE Kind(Newest) = "files"
      BY <1>14, <2>2, <2>4, <3>1 DEF RunPosted, SetUrls, Notice
    <3>2. CASE Kind(Newest) # "files"
      BY <1>14, <2>2, <2>4, <2>s, <3>2 DEF RunPosted, SetFromRemote
    <3>3. QED
      BY <3>1, <3>2
  <2>6. QED
    BY <2>1, <2>2, <2>3, <2>5, <2>s, NoMessages DEF OnTheMac
<1>15. CASE Disconnect \/ SessionEnds
  <2>1. link' # "up"
    BY <1>15 DEF Disconnect, SessionEnds
  <2>2. QED
    BY <2>1 DEF Serial
<1>16. CASE Reconnect \/ MonitorReady
  <2>1. CASE Reconnect
    BY <2>1 DEF Reconnect, Serial
  <2>2. CASE MonitorReady
    <3>1. link = "opening" /\ copied' = copied /\ drops' = drops /\ raced' = raced
      BY <2>2 DEF MonitorReady
    <3>2. Serial' => Newest = 0
      BY <1>c, <3>1 DEF Serial, IInv, OneByOne
    <3>3. Newest = 0 => Kind(Newest)' = "nothing"
      BY <3>1 DEF Kind, Newest
    <3>4. QED
      BY <3>2, <3>3 DEF Serial
  <2>3. QED
    BY <1>16, <2>1, <2>2
<1>17. CASE UNCHANGED vars
  <2> SUFFICES ASSUME Serial'
               PROVE  OnItsWay(Newest, Kind(Newest))' \/ OnTheMac(Newest)'
    OBVIOUS
  <2>f. copied' = copied /\ raced' = raced /\ link' = link /\ drops' = drops
    BY <1>17 DEF vars, linkVars
  <2>s. /\ Newest' = Newest /\ Kind(Newest)' = Kind(Newest) /\ link = "up"
        /\ ctx = "live" /\ fromRemote = FALSE /\ Newest # 0
        /\ Kind(Newest) \in {"files", "text", "image"}
        /\ OnItsWay(Newest, Kind(Newest)) \/ OnTheMac(Newest)
    BY <1>e, <2>f
  <2>1. UNCHANGED <<vm, signal, offer, toClient, toVm, incoming, posted, slot, mac>>
    BY <1>17 DEF vars, macVars, recvVars, linkVars, vmVars, wires
  <2>2. QED
    BY <2>1, <2>s DEF OnItsWay, OnTheMac
<1>18. QED
  BY <1>1, <1>2, <1>3, <1>4, <1>5, <1>6, <1>7, <1>8, <1>9, <1>10, <1>11,
     <1>12, <1>13, <1>14, <1>15, <1>16, <1>17, StepCases

\* A link that opens again was lost before.
LEMMA LinkMoves ==
    ASSUME IInv, [Next]_vars
    PROVE  /\ link' = "lost" => drops' > 0
           /\ link' = "opening" /\ drops' = 0 /\ Newest' > 0 => raced'
<1>a. CopiesTyped /\ MacTyped /\ VersionsTyped /\ LinkTyped
  BY TypeParts DEF IInv
<1>b. ToVmTyped /\ ToClientTyped /\ PasteTyped /\ PostsTyped
  BY WireParts DEF IInv
<1>c. Newest \in Nat /\ Newest <= MaxCopies
  BY <1>a, ShareAssumption DEF CopiesTyped, ShareAssumption
<1>d. /\ link = "lost" => drops > 0
      /\ link = "opening" /\ drops = 0 /\ Newest > 0 => raced
  BY DEF IInv, OneByOne
<1>1. CASE \E kind \in MacKinds : MacCopy(kind)
  <2>1. raced' = (raced \/ ~Quiet \/ link # "up") /\ link' = link /\ drops' = drops
    BY <1>1 DEF MacCopy, Copy, linkVars
  <2>2. QED
    BY <1>d, <2>1
<1>2. CASE \E kind \in VmKinds : VmCopy(kind)
  <2>1. raced' = (raced \/ ~Quiet \/ link # "up") /\ link' = link /\ drops' = drops
    BY <1>2 DEF VmCopy, Copy, linkVars
  <2>2. QED
    BY <1>d, <2>1
<1>3. CASE Paste
  <2>1. raced' = raced /\ link' = link /\ drops' = drops /\ copied' = copied
    BY <1>3 DEF Paste, linkVars
  <2>2. QED
    BY <1>d, <2>1 DEF Newest
<1>4. CASE VmGetsList /\ ServerFrame
  <2>1. raced' = raced /\ link' = link /\ drops' = drops /\ copied' = copied
    BY <1>4 DEF ServerFrame, linkVars
  <2>2. QED
    BY <1>d, <2>1 DEF Newest
<1>5. CASE VmGetsFetch /\ ServerFrame
  <2>1. raced' = raced /\ link' = link /\ drops' = drops /\ copied' = copied
    BY <1>5 DEF ServerFrame, linkVars
  <2>2. QED
    BY <1>d, <2>1 DEF Newest
<1>6. CASE VmGetsAnswer /\ ServerFrame
  <2>1. raced' = raced /\ link' = link /\ drops' = drops /\ copied' = copied
    BY <1>6 DEF ServerFrame, linkVars
  <2>2. QED
    BY <1>d, <2>1 DEF Newest
<1>7. CASE FormatList /\ ChannelFrame
  <2>1. raced' = raced /\ link' = link /\ drops' = drops /\ copied' = copied
    BY <1>7 DEF ChannelFrame, linkVars
  <2>2. QED
    BY <1>d, <2>1 DEF Newest
<1>8. CASE DataResponse /\ ChannelFrame
  <2>1. raced' = raced /\ link' = link /\ drops' = drops /\ copied' = copied
    BY <1>8 DEF ChannelFrame, linkVars
  <2>2. QED
    BY <1>d, <2>1 DEF Newest
<1>9. CASE FilesReceived /\ ChannelFrame
  <2>1. raced' = raced /\ link' = link /\ drops' = drops /\ copied' = copied
    BY <1>9 DEF ChannelFrame, linkVars
  <2>2. QED
    BY <1>d, <2>1 DEF Newest
<1>10. CASE FormatDataRequest /\ ChannelFrame
  <2>1. raced' = raced /\ link' = link /\ drops' = drops /\ copied' = copied
    BY <1>10 DEF ChannelFrame, linkVars
  <2>2. QED
    BY <1>d, <2>1 DEF Newest
<1>11. CASE FileContentsRequest /\ ChannelFrame
  <2>1. raced' = raced /\ link' = link /\ drops' = drops /\ copied' = copied
    BY <1>11 DEF ChannelFrame, linkVars
  <2>2. QED
    BY <1>d, <2>1 DEF Newest
<1>12. CASE SendOffer /\ offer # 0 /\ MainFrame
  <2>1. raced' = raced /\ link' = link /\ drops' = drops /\ copied' = copied
    BY <1>12 DEF MainFrame, SendOffer, DataChanged, RunPosted, linkVars
  <2>2. QED
    BY <1>d, <2>1 DEF Newest
<1>13. CASE DataChanged /\ offer = 0 /\ MainFrame
  <2>1. raced' = raced /\ link' = link /\ drops' = drops /\ copied' = copied
    BY <1>13 DEF MainFrame, SendOffer, DataChanged, RunPosted, linkVars
  <2>2. QED
    BY <1>d, <2>1 DEF Newest
<1>14. CASE RunPosted /\ offer = 0 /\ MainFrame
  <2>1. raced' = raced /\ link' = link /\ drops' = drops /\ copied' = copied
    BY <1>14 DEF MainFrame, SendOffer, DataChanged, RunPosted, linkVars
  <2>2. QED
    BY <1>d, <2>1 DEF Newest
<1>15. CASE Disconnect \/ SessionEnds
  <2>1. CASE Disconnect
    BY <1>a, <2>1, ShareAssumption DEF Disconnect, LinkTyped, ShareAssumption
  <2>2. CASE SessionEnds
    BY <2>2 DEF SessionEnds
  <2>3. QED
    BY <1>15, <2>1, <2>2
<1>16. CASE Reconnect \/ MonitorReady
  <2>1. drops' = drops /\ raced' = raced
    BY <1>16 DEF Reconnect, MonitorReady
  <2>2. (link' = "opening" /\ link = "lost") \/ link' = "up"
    BY <1>16 DEF Reconnect, MonitorReady
  <2>3. QED
    BY <1>a, <1>d, <2>1, <2>2, ShareAssumption DEF LinkTyped, ShareAssumption
<1>17. CASE UNCHANGED vars
  <2>1. raced' = raced /\ link' = link /\ drops' = drops /\ copied' = copied
    BY <1>17 DEF vars, linkVars
  <2>2. QED
    BY <1>d, <2>1 DEF Newest
<1>18. QED
  BY <1>1, <1>2, <1>3, <1>4, <1>5, <1>6, <1>7, <1>8, <1>9, <1>10, <1>11,
     <1>12, <1>13, <1>14, <1>15, <1>16, <1>17, StepCases

\* So they stay one by one.
LEMMA OneByOneStep ==
    ASSUME IInv, [Next]_vars
    PROVE  OneByOne'
<1>1. (link = "lost" => drops > 0)'
  BY LinkMoves
<1>2. (link = "opening" /\ drops = 0 /\ Newest > 0 => raced)'
  BY LinkMoves
<1>3. (Serial => OnItsWay(Newest, Kind(Newest)) \/ OnTheMac(Newest))'
  BY SerialStep
<1>4. QED
  BY <1>1, <1>2, <1>3 DEF OneByOne


-----------------------------------------------------------------------------
\* Before anything is copied or sent.
LEMMA InitInv == Init => IInv
<1> SUFFICES ASSUME Init
             PROVE  IInv
  OBVIOUS
<1>1. /\ copied = <<>> /\ mac = 0 /\ signal = FALSE /\ fromRemote = FALSE
      /\ local = 0 /\ offer = 0 /\ posted = <<>> /\ slot = "nothing" /\ incoming = 0
      /\ link = "opening" /\ ctx = "null" /\ crashed = FALSE /\ drops = 0
      /\ vm = [ver |-> 0, own |-> "vm"] /\ paste = Idle /\ pastes = 0
      /\ toVm = <<>> /\ toClient = <<>> /\ raced = FALSE
  BY DEF Init
<1>2. Newest = 0
  BY <1>1 DEF Newest
<1>3. CopiesTyped
  BY <1>1, <1>2, EmptySeq, ShareAssumption DEF CopiesTyped, ShareAssumption
<1>4. MacTyped
  <2>1. signal \in BOOLEAN
    BY <1>1
  <2>2. mac \in 0..Newest /\ local \in 0..Newest /\ offer \in 0..Newest
    BY <1>1, <1>2
  <2>3. QED
    BY <1>1, <2>1, <2>2 DEF MacTyped
<1>5. VersionsTyped
  BY <1>1, <1>2, IdleTyped DEF VersionsTyped
<1>6. LinkTyped
  <2>1. crashed \in BOOLEAN /\ raced \in BOOLEAN
    BY <1>1
  <2>2. pastes \in 0..MaxPastes /\ drops \in 0..MaxDrops
    BY <1>1, ShareAssumption DEF ShareAssumption
  <2>3. QED
    BY <1>1, <2>1, <2>2 DEF LinkTyped
<1>7. WiresTyped
  BY <1>1, EmptySeq, IdleTyped DEF WiresTyped, Kinds
<1>8. SourcesKnown
  BY <1>1 DEF SourcesKnown, OnlyFilesComeBack
<1>9. OneAtATime
  BY <1>1 DEF OneAtATime, OneOf, NoneOf
<1>10. LocalIsTold /\ FilesAreTold
  BY <1>1 DEF LocalIsTold, FilesAreTold
<1>11. OneByOne
  BY <1>1, <1>2 DEF OneByOne, Serial
<1>12. QED
  BY <1>3, <1>4, <1>5, <1>6, <1>7, <1>8, <1>9, <1>10, <1>11, TypeParts DEF IInv

\* Every step keeps the invariant.
LEMMA Invariance == IInv /\ [Next]_vars => IInv'
  BY TypesStep, SourcesStep, OneAtATimeStep, ToldStep, OneByOneStep DEF IInv

\* So it always holds.
LEMMA Invariant == Spec => []IInv
  BY InitInv, Invariance, PTL DEF Spec

\* The versions on the Mac, in the machine and on their way are of copies that were
\* made, what is offered can be, the context is live exactly while the link is up,
\* and nothing is under way without it.
THEOREM TypeCorrect == Spec => []TypeOK
<1>1. IInv => TypeOK
  BY DEF IInv
<1>2. QED
  BY <1>1, Invariant, PTL

\* dataChangedCallback never offers the machine text or an image that came from it.
THEOREM OnlyFilesOffered == Spec => []OnlyFilesComeBack
<1>1. IInv => OnlyFilesComeBack
  BY DEF IInv, SourcesKnown
<1>2. QED
  BY <1>1, Invariant, PTL

\* The list that was told before a message is the one the server goes by then.
LEMMA ToldIsGoneBy ==
    ASSUME NEW v, NEW i \in Nat, GoesBy(vm.ver, toVm, v, i)
    PROVE  ToldBefore(i) = v
<1> DEFINE lists == {j \in 1..(i - 1) : toVm[j].type = "list"}
<1>1. CASE vm.ver = v /\ \A k \in 1..(i - 1) : toVm[k].type # "list"
  <2>1. lists = {}
    BY <1>1
  <2>2. QED
    BY <1>1, <2>1 DEF ToldBefore
<1>2. ASSUME NEW j \in 1..(i - 1), toVm[j].type = "list", toVm[j].ver = v,
             \A k \in (j + 1)..(i - 1) : toVm[k].type # "list"
      PROVE  ToldBefore(i) = v
  <2>1. j \in lists
    BY <1>2
  <2>2. ASSUME NEW k \in lists
        PROVE  k <= j
    <3>1. k \in 1..(i - 1) /\ toVm[k].type = "list"
      OBVIOUS
    <3>2. k \notin (j + 1)..(i - 1)
      BY <1>2, <3>1
    <3>3. QED
      BY <3>1, <3>2
  <2>3. \A l \in lists : (\A k \in lists : k <= l) => l = j
    <3>1. ASSUME NEW l \in lists, \A k \in lists : k <= l
          PROVE  l = j
      <4>1. j <= l /\ l <= j /\ l \in Int /\ j \in Int
        BY <2>1, <2>2, <3>1
      <4>2. QED
        BY <4>1
    <3>2. QED
      BY <3>1
  <2> DEFINE last == CHOOSE l \in lists : \A k \in lists : k <= l
  <2>4. last = j
    <3> HIDE DEF lists
    <3>1. last \in lists /\ \A k \in lists : k <= last
      BY <2>1, <2>2
    <3>2. QED
      BY <2>3, <3>1
  <2>5. lists # {}
    BY <2>1
  <2>6. ToldBefore(i) = toVm[last].ver
    BY <2>5 DEF ToldBefore
  <2>7. QED
    BY <1>2, <2>4, <2>6
<1>3. QED
  BY <1>1, <1>2 DEF GoesBy

\* Files go out of the list the server was told of last; if of another one, then
\* that is about to be offered or right behind: FormatDataRequestCallBack and
\* FileContentsRequestCallBack read the local list as it is.
THEOREM FilesFit == Spec => []FilesOfToldList
<1>1. IInv => FilesOfToldList
  <2> SUFFICES ASSUME IInv, ~paste.stale, NEW i \in DOMAIN toVm,
                      toVm[i].type \in {"data", "chunk"}, toVm[i].kind = "files",
                      toVm[i].ver \notin {0, ToldBefore(i)}
               PROVE  \/ offer = toVm[i].ver
                      \/ \E j \in DOMAIN toVm :
                            j > i /\ toVm[j].type = "list" /\ toVm[j].ver = toVm[i].ver
    BY DEF FilesOfToldList
  <2>1. Explained(vm.ver, toVm, offer, toVm[i].ver, i)
    BY DEF IInv, FilesAreTold, HasFiles, Replies
  <2>2. i \in Nat
    BY WireParts, LenProperties DEF IInv, ToVmTyped
  <2>3. ~GoesBy(vm.ver, toVm, toVm[i].ver, i)
    BY <2>2, ToldIsGoneBy
  <2>4. QED
    BY <2>1, <2>3 DEF Explained
<1>2. QED
  BY <1>1, Invariant, PTL

\* Copies made one after the other, each when the one before has settled, end up on
\* both sides, through dataChangedCallback one way and through
\* qf_CliprdrServerFormatListCallBack and what follows it the other way.
THEOREM SerialAgree == Spec => []SerialCopiesAgree
<1>1. IInv => SerialCopiesAgree
  <2> SUFFICES ASSUME IInv, Serial, Quiet
               PROVE  mac = Newest /\ vm.ver = Newest
    BY DEF SerialCopiesAgree, Serial
  <2>1. Newest # 0
    BY DEF Serial, Kind
  <2>2. ~OnItsWay(Newest, Kind(Newest))
    BY <2>1, Single DEF Quiet, OnItsWay
  <2>3. OnTheMac(Newest)
    BY <2>2 DEF IInv, OneByOne
  <2>4. QED
    BY <2>1, <2>3, NoMessages DEF Quiet, OnTheMac
<1>2. QED
  BY <1>1, Invariant, PTL
=============================================================================
