# TLA+ models of the VDI client for macOS

The repository holds three things: `VDIClient`, a Qt application that logs in to
the management server and lists virtual machines; `qf-client`, the remote
desktop window it launches; and a FreeRDP 3.28 tree with local changes (an
AVFoundation camera, an idle pause of camera streams, drive hot plug) that
`qf-client` links against. The models here are about the parts where several
threads, or the client and a server, meet; they are written from the sources,
and `PROJECT.json` gives for every definition the lines it stands for.

Short names below: *mini* is `qfreerdp-vdi-client/qf-client/src/mini-qf-client.cc`,
*view* is `qf-client/src/rdp-view-item.h`, *ecam* is
`freerdp-3.28.0/channels/rdpecam/client`.

## 1. Inventory

| component | state | operations | talks to |
|---|---|---|---|
| RDP session lifecycle (mini, view) | `g_instance`, context, abort event, `g_stopped`, retry counter, channel pointers, `m_rdpContext`, window | connect with retries, session loop, reconnect, channel connected, disconnect, free, close window, `stop()` | Qt event queue, FreeRDP, every other qf-client part through the context |
| Frame pipeline (view) | staging buffer, frame size, dirty flag, texture and its size, pending update | paint, resize buffer, sync, `ensureTexture`, upload | FreeRDP thread → mutex and flag → render thread |
| Mouse pointer (mini) | pointer cache by address, hidden flag, restore time, item cursor | New, Free, Set, SetNull, SetDefault, mouse move | FreeRDP thread → queued lambdas → main thread |
| Clipboard, remote to local (mini, view) | requested format, stream table, received URLs, files on disk, Mac clipboard | format list, data response, file size and range responses, publish | server ↔ channel thread → queued lambda → main thread |
| Clipboard, local to remote (mini, view) | `local_files_`, advertised formats | `dataChanged`, data request, file contents request | main thread ↔ channel thread ↔ server |
| Dynamic resize (mini) | requested size, debounce timer, pending counter | window resized, monitor layout, desktop resize | main thread ↔ disp channel ↔ FreeRDP thread |
| Input forwarding (view) | none | key, mouse, wheel | main thread → context |
| Window and toolbar (QML) | chrome only | close, full screen | main thread |
| Camera (ecam) | stream flags, sample counter, buffers, idle time; capture session, encoder | start, stop, sample request, idle pause, resume, frame callback, device arrival and removal | channel thread, timer, VideoToolbox callback |
| Login and VM management (VDIClient, `loginwindow.cpp`) | page, token, list buffer and list, timers, `template.rdp`, launched process | login, auto-login, list, connect, heartbeat, change password, Back; power buttons, status and snapshots of a machine | management server (HTTPS), `qf-client` process and the file it reads |
| Drive redirection and hot plug (rdpdr) | device list, channel state, `userLoggedOn`, the scan's found volumes | scan of `/Volumes` (first, then on FSEvents), register, remove, handshake, announce, refusal | channel thread ↔ FSEvents queue ↔ server |
| FreeRDP core, winpr, codecs | vendored | | effects stated where used |

What is hard in each, and what makes it correct:

* **Session.** A worker thread and the main thread share the context without a
  lock; three retries, reconnects and a closing window overlap. Correct means:
  nobody is left with freed memory unknowingly, a window closes because the
  session ended and not because it is being recovered, and `stop()` returns.
* **Frames.** Painter and renderer overlap over one buffer, with sizes read
  outside the mutex. Correct means: no frame lost, none laid out for another size
  (the second the code does not keep, see `frame_turned`).
* **Pointer.** Part of a server call acts at once, part through a queue. Correct
  means: what the server asked last is shown in the end.
* **Clipboard.** Requests of one copy are answered from the next; streams end in
  any order; any of them may fail. Correct means: published files are whole and
  of one copy, and the last copy wins.
* **Camera.** Three threads and a waiting release. Correct means: one answer at
  most per request, only fresh samples, no buffer freed in use, the camera off
  when nobody needs it.
* **Two clipboards.** A copy on either side is carried to the other, and what is
  set there must not come back for ever; requests are answered from what is
  copied now. A reconnect takes the channel away meanwhile. Correct means: copies
  made one after the other agree, a paste ends, files are of the list announced.
* **Resize.** Layouts are counted on one thread, answers on another; some layouts
  are not counted and some get no answer. Correct means: the desktop ends in the
  size the window was last asked for.
* **Drives.** Two threads change one device list and tell the server about it; the
  list has a lock, the sending has none. Some servers take no notice of removals, and
  to some the drives are announced before the login. Correct means: what is mounted is
  redirected once and nothing else, and the server knows it.
* **Login.** No request is ever cancelled, so each reply meets whatever page and
  token there are by then. Correct means: the list page belongs to a live
  sign-in, the login button always comes back, and the machine that opens is the
  one clicked.

The complete list of such hazards, each at its line and with the properties
that cover it or the reason why none does, is in `PROJECT.json`.

## 2. Modules

### RdpSession, SessionPromise, RdpSession_proofs

`RdpSession` has the FreeRDP thread (`rdp`, one value per place of
`rdp_loop_thread` at which another thread can act), the main thread (`gui`,
`queue`), and what they share. `PreConnect`, `PostConnect`, `Disconnect`
stand for the callbacks FreeRDP makes inside `freerdp_connect` and
`freerdp_disconnect`; they are parts of the connecting actions, not actions.
The lambdas posted to the main thread are a sequence; only
`notifyDisconnected` changes this module's state, the others are there because
they are delivered in front of it. Whether a connect succeeds, fails before
`my_post_connect` or fails after it is left open.

`SessionPromise` is what the user may rely on: a session starts, is online, may
drop and recover, ends once; its window closes for the user or because the
session has ended, and does not stay open after the end. `Phase` and `Window`
in `RdpSession` are the refinement mapping. A session whose
`freerdp_new` or `freerdp_context_new` fails keeps its window open in the code;
the promise speaks of sessions that got a context, and `Phase` says so.

An attempt whose command line cannot be parsed fails in `my_pre_connect` before
it subscribes; the model counts a subscription for it. As the line is the same
at every attempt no channel is ever opened in such a session, so nothing
observes the difference.

### FramePipeline, Desktop_proofs

`Resize`/`ResizeDone` are the two stores of `resizeStagingBuffer` that a reader
outside the mutex can tell apart, `Paint` and `Post` are `noop_end_paint`;
`Sync`/`UpdatePaintNode`, `EnsureTexture`, `Commit` are the three phases of a
rendered frame. Pixels are the number of the frame they are from. A painted
rectangle is taken to cover the buffer, so rectangles are not told apart;
`EnsureFails` is a texture the GPU refuses. `Redraw` is a frame drawn for
another item, in which this one is not synchronised.

### Cursor, Cursor_proofs

All pointer callbacks except `SetPosition`, which does nothing, and
`rdp_notify_mouse_moved`. FreeRDP's pointer cache is in the model because it
frees pointers, and an address (a `Pointers` value) may then be used again
while a queued lambda still holds it. The order of flag and queue in `SetNull`
and `SetDefault` is kept step by step.

### ClipRecv, ClipRecv_proofs

The client half is one action per callback, since the callbacks run on the
channel's thread; the server half is a sketch that answers from what is copied
at the time it handles a request. A file is a sequence of chunks, each the
number of the copy it came from, so that mixing is visible. An answer is stored
as a chunk, however much of it `fwrite` takes (`StreamRange`), or nothing of it
is, because it is empty or the disk is full (`RangeStalls`): then the same range is
requested again, and nothing counts the attempts. What `fclose` returns is ignored
by the code and by the model. `Path` gives the base name of each file of a list;
the code drops the folders, so that two files of a list may have one name. A list
may hold no format the client knows. The echo of a received clipboard to the
server belongs to the other direction and is not in the model.

### CameraStream, CameraStream_proofs

`pc["chan"]` walks through Start, Stop and SampleRequest, `pc["timer"]` through
the idle pause, `cb` through the encoder's output callback. Both threads go
through the backend's stop, which is written once with the thread as parameter.
Steps are as fine as the unlocked reads: the backend's flag, the stream's flag,
the lock, the encoder pointer looked at and then taken. `idle` and `ahead`
stand for `lastSampleRequestTime`, seen from the time the timer callback has
read: two seconds behind it, or ahead of it. The encoder's invalidation waits
for a callback in flight, as the backend's comments state and rely on.
Abstractions: one device with one stream, one frame in flight per encoder, the
pause's stores to its flags (under the lock) in one step, memory never short.
`server`, `owed`, `late`, `oldSample`, `sentOld`, `raced`, `leaked` are there for
the properties.

### VdiClient, VdiClient_proofs

`LoginWindow` on its one thread, a handler at a time. `replies` is the bag of
requests whose reply has not been handled; `Answer`, `GiveToken` and
`TokenExpires` are the server, which judges a request by the token it carries
when it sees it. A reply is handled in any order. Each `on...Reply` is an action
for every outcome: the same `Expired` for all that look for a 401, `NothingToDo`
for those that change nothing. `ListRead` is the `readyRead` that puts a body
into `m_vmListData`, which all list requests share. `template` is whose file
`template.rdp` is, `client` the launched `qf-client` and the file it has read.
`autoLogin` is the timer of the constructor, which does not look at the button.
The password dialog is modal but runs an event loop, so replies are handled
under it. Not in the module: the power, status and snapshot buttons of each
machine, language, stored settings. `Patient` is a user who waits until a
connection has begun before asking for another one.

### Resize, Desktop_proofs

`TimerFires` and the five outcomes of a look at the window (`TooSmall`, `Same`,
`HoldBack`, `Ask`, or no channel) are the debounce timer's handler, cut where it
has read the desktop size that the FreeRDP thread may be changing (width and
height are taken to change together). `ChannelOpened` is the lambda posted when the display-control
channel opens, which counts nothing and knows no smallest size. `ResetGraphics`
and `DesktopResize` are the two stores of the FreeRDP thread. `my_pre_connect`
ignores the size of the command line and connects with the window's size, not
rounded, or 1024 x 768: `Start` stands for a first size that is not the one a
later look asks for. The server takes the newest layout it has and answers only
a change.

### ClipShare, ClipShare_proofs

The Mac's clipboard and the machine's, kept the same. `DataChanged` is
`dataChangedCallback` up to where it has decided what to offer, `SendOffer` the
call of `ClientFormatList`: between the two the RDP thread may disconnect.
`SetFromRemote` has the flag up while it sets the clipboard, `SetUrls` has not, so
received files are offered back; the echo is in the model. The remote-to-local
direction is that of `ClipRecv` in fewer steps: a file list arrives whole or not at
all. A copy is a version, an index into `copied`; `broken` is a picture that is null
or cannot be encoded, `nothing` a clipboard that returns no data. The server is
a sketch: one message at a time, one paste at a time, given up when its clipboard
changes. `raced` records that a copy was made before the one before it had
settled.

### Drives, Drives_proofs

`handle_hotplug` step by step: `ReadVolumes` reads `/Volumes` and copies the ids,
`Look` takes the next device, `Known` or `Unregister` judges it, `TellRemoved` tells the
server; then `Register`, `Try` and `SendLot` for each volume without a device. The
first scan is the channel thread's own (`chan = "first"`), the later ones are FSEvents
callbacks. `ServerAnnounce`, `InitDone` (the window in which `rdpdr_send` refuses),
`Confirm`, `UserLoggedOn` and `SendBatch` are the handshake, `Refuse` a DEVICE_REPLY
with an error, `IoRequest` a request that may be for a device that is gone. Volumes are
model values; `Prefixes` says whose name begins whose, which is all that
`strstr(path, found)` can tell. The order of `readdir` is open, so the found volumes
are a set. `Lost` is a device freed while it is looked at: what is read then is the
old path or nothing.

What the server is comes with its capabilities and its version, both in `Confirm`:
`removes` if it takes notices of removal (to another one `rdpdr_send_device_list_remove_request`
sends nothing and returns OK, `TellNobody`), `early` if it speaks RDP 5.1, to which the
drives are announced at once and not after the login. A handshake may find another kind of
server than the one before. Announcing from the scan is three steps: `Try` reads the
channel's state and `userLoggedOn`, `Build` writes the latter back (as
`rdpdr_send_device_list_announce_request` does with its parameter) and builds the list,
`SendLot` sends it; the channel's thread builds in `Confirm` or `UserLoggedOn` and sends in
`SendBatch`. `late`, `ghosts` and `untold` record which ids a list or the server missed,
for the properties. `Home` is the home directory, registered first, which is not hot
plugged. The channel opened again by a reconnect starts a new life of the module.

### MC modules

`MCFramePipeline`, `MCClipRecv`, `MCCursor`, `MCCameraStream`, `MCRdpSession`,
`MCVdiClient`, `MCResize`, `MCClipShare`, `MCDrives` give the constants their values. Symmetry
is used only for pointers and images of the cursor, which are compared with
nothing but each other, and where only invariants are checked.

## 3. What the runs show

Passing runs:

* `rdp_session`. Two attempts, two handler slots, two drops, the disp channel
  and another one. Two attempts are a first and a last one; two
  handler slots let the table fill up; two drops make a second reconnect start
  from the state the first one left. `FreedContextIsAnnounced`,
  `FreedAfterDisconnect`, `PointersFresh`, the refinement `KeepsPromise` and
  `StopEnds` hold.
* `frame_pipeline`. Three sizes, two of which have one area (torn sizes included),
  three frames, three resizes, one refused texture: enough for a resize on either
  side of each phase and for a return to the first size. No painted frame loses its
  mark, the last one is presented. That a frame is uploaded in its own layout is not
  among them: see `frame_turned`.
* `cursor`. Two addresses over one cache slot, so that an address is
  reused; two places of the mouse; four calls, so that each kind can follow and
  precede each other one with a lambda outstanding. After the queue is drained
  the last call is what shows.
* `clip_recv`. Two copies, of three files of which two have one base name, of two files,
  of pictures, text or nothing the client knows; one failure anywhere, ranges that store
  nothing any number of times, answers to streams in any order. Two copies are what it
  takes to have requests of one list answered from another. What is published has all
  the names; a file whose name is its own is whole and without a gap, and of two that
  share a name nothing is claimed, as their streams write to one file. `TransfersEnd`
  speaks of the runs in which ranges do not stall for ever (`StallsCease`): a disk that
  stays full, or a server that answers with nothing for ever, keeps the client asking
  for ever, since nothing gives up such a stream.
* `camera_stream`. Two encoders (one in use, one being drained), two requests
  out. No sample is sent that was not asked for or is from before the last
  start; buffers freed without the lock are never in use; at rest the
  camera is off; a Stop is always handled. `LightGoesOff` and `StopIsHandled`
  make an exception, visible in their formulas, of a Start that was handled in the
  middle of a pause.
* `vdi_client`. Two machines, two sign-ins, clicks while at most one request is
  out (replies add to them: a sign-in sends two). Two sign-ins are what it takes for
  a reply of the first to meet the second; two machines for a file to be the wrong
  one. `ListPageIsLive`, `NoAnonymousRequest` and `LoginComesBack` hold;
  `RightMachine` holds for a user who waits (with an impatient one, two connects
  mix: file of one machine, command of another).
* `resize`. Three sizes and one below the smallest, three layouts on the wire, four
  counted, one lost link: two sizes can be asked for while a third is being set, and
  the counter outlives a reconnect. `LookIsHonoured` holds. It does not promise that
  the desktop always has the window's size: a window brought back to the present
  size while another is under way asks for nothing and ends up scaled.
* `clip_share`. Three copies of every kind, on either side, one paste of two files,
  one reconnect. Three copies let an answer, a paste and an echo each meet a
  newer copy. Files that go out are of the list told to the server or the right
  list is just behind; only files come back; serial copies agree; a copy made while
  the link is up arrives; a paste ends, except for a clipboard that has no data or a broken
  picture, which get no answer at all.
* `drives`. Three volumes, the name of one beginning that of another (`USB`, `USB 1`),
  any of them mounted at the start, three changes, two handshakes with a server of any
  kind, one refusal. Three changes make an unplug and a plug meet one scan or two; the
  second handshake meets a list that is already there. While there is anything of `USB 1`
  at most three of those things happen (`FewWithUsb1`). `ListIsMounted` and
  `ServerAgrees` hold; the gaps they leave out are named in the formulas: names one of
  which begins the other, a change between the first scan and the watcher, a scan given up
  in a handshake, a device registered or removed between the building and the sending of
  a list by the other thread, a device removed from a server that takes no notice of it.
  The last two are bounded: by the next list, or the next handshake. That a list may be sent
  before the login, when a scan writes back the `userLoggedOn` of the handshake
  before (rdpdr_main.c:1474), is in the model, and no property forbids it.

Violations, where a document or a comment says one thing and the code does
another:

* `clip_stuck` (`NoneLeftDone`): the stream that fails last is erased without asking
  whether the others are done; complete files are never published.
* `camera_hangs` (`SampleIsHandled`): the idle pause waits, with the stream's lock
  held, for a callback that waits for the lock.
* `frame_turned` (`NeverSheared`): `commitTextureOperations` compares byte counts, so
  a desktop turned by 90 degrees passes and is uploaded in the other layout; the
  comment above the guard (view:137-139) says it keeps those apart.

Deadlock checking is off where the system may really stop: the process has
exited, the bounds let the server or the people fall silent, or (camera) the
hang is what the model is to show. `MCCursor` has it on.

### Fairness

* `RdpSession`: weak fairness of each thread. Every wait of the RDP thread is
  bounded (100 ms polls, connect timeouts, sleeps) and Qt drains its queue.
  Nothing makes a server log off, a link drop or a user close the window.
* `FramePipeline`: begun work finishes and a pending update is synchronised.
* `Cursor`, `Resize`, `Drives`: none, only invariants.
* `ClipRecv`: the server answers (or fails) what it is asked, the client's
  threads run. Nobody has to copy, and nothing makes stalled ranges cease: that they
  do is a premise of `TransfersEnd`, not of the specification.
* `CameraStream`: strong fairness of each thread, because the lock may be free
  and taken again between two looks at it; pthread mutexes and the dispatch
  queue do not starve a waiter in practice, and a property that fails even so
  is a real hang. Nobody has to ask, stop or capture.
* `VdiClient`: health check and login have a transfer timeout of five seconds, so
  their replies come, with an error if need be; the heartbeat's timer fires and its
  reply comes; a reply that has arrived is handled. The other requests have no
  timeout: nothing makes the server answer them, or the user do anything.
* `ClipShare`: the threads run, the server handles what it gets, a reconnect that is
  begun goes on. Nobody has to copy, paste or hang up.

## 4. What is proved

The proof modules hold for all values of the constants that satisfy the module's
named assumption: sets are disjoint, the bounds are numbers, sizes are pairs of
positive numbers. That names do not clash (`CameraAssumption`: no encoder is called
like a thread, which the lock's owner could be mistaken for) says nothing of the code.

**Sessions.** `RdpSession_proofs` proves, for every set of channels and all bounds that satisfy
`SessionAssumption` (the disp channel is one of the channels; at least one attempt
and one handler slot):

* `TypeCorrect`: `Spec => []TypeOK`.
* `Announced`, `DisconnectedFirst`, `Fresh`: the three safety invariants of the run.
* `Inductive`: the invariant they rest on. None of the three is inductive by
  itself. `FreedContextIsAnnounced` needs to know that the notice is already
  queued when the thread gets to the place where it frees (`NoticeInv`), which
  depends on how it left the loop; `FreedAfterDisconnect` that the link is up in
  certain places only (`LinkInv`), that drops happen after the first connect
  (`DropInv`) and what `g_stopped` was at the gate (`FreeInv`);
  `PointersFresh` that a pointer outlives its interface only between the
  disconnect and the place that nulls it (`PointerInv`). `IInv` is the
  conjunction of these with `TypeOK`.
* `Implements`: `Spec => Promise!Safety`, every step of the two threads is a step
  of `SessionPromise` or a stutter under the mapping. It needs a second part
  (`RInv`): the view's client context is dropped, and a notice queued, only when
  the session has ended.

**Frames.** `Desktop_proofs`, which extends both modules of the desktop:
`FrameTypeCorrect`; `NeverForgotten`, that a painted frame keeps its mark until it is
uploaded, which rests on `EmptyInv` (a size seen as empty means that nothing unmarked
was painted yet).

**Pointer.** `Cursor_proofs`: `TypeCorrect`, `FlagIsBlank`, `LastIsShown`. The two
invariants say what the cursor and the flag will be when the lambdas still queued have
run (`BlankComes`, `Shows`), so that they speak of every state and not only of those in
which the queue is empty; `Typed` bounds what a queued lambda can hold.

**Resize.** `Desktop_proofs`: `TypeCorrect`, `Honoured`. The invariant follows the two
queues to where they lead (`Final`): the answers under way lead to the server's size
(`AnswerInv`), the layouts under way to the size of the window that was asked for
(`LookInv`), and while layouts are counted the last one counted is the last one sent
(`CountInv`).

**Sign-in.** `VdiClient_proofs`: `TypeCorrect`, `PageIsLive`, `NothingAnonymous`, and
`FileIsRight`. The last rests on `Chain`: for a patient user at most one request of a
connection is outstanding, no process is starting meanwhile, and the template is of
the machine that request is for. Facts about the bag of replies are lemmas.

**Drives.** `Drives_proofs`: `TypeCorrect`, `Agrees`. `ServerAgrees` is not inductive: the
server's knowledge is what has been sent, so `TellsTruth` and `TellsAll` say of each
list built, about to be built or not yet sent what it may and must hold, for servers of
every kind. `Mounted` (`ListIsMounted`)
follows a scan from device to device and from volume to volume (`ScanInv`): what was
read is what is mounted unless a change is waiting to be looked at (`ReadIsMounted`);
a device that has been looked at has a volume, and a volume that is no longer to be
added has a device (`AllDecided`); and there is one device for a volume, because the
scan adds one only when it has looked at all (`OncePerVolume`).

**Camera.** `CameraStream_proofs`, for any number of encoders and of requests under way:
`TypeCorrect`, `BuffersAreThere`, `OnlyAsked`, `OnlyNew`, `CameraGoesOff`. The invariant
is one for all five. `LockIsHeld` and `EncodersApart` say who may be where: the lock's
owner follows from the places of the threads, and an encoder is the one in use or one
that a single thread drains, and no other has a frame. A callback that is in thus keeps
the thread that frees the buffers waiting, either at the lock or in the drain.
`BackendHasOwner` says of a camera session that its stream runs or that somebody is on
the way to stop it, and `RacesAreMarked` that the Start in the middle of a pause is the
only way to lose one. `RequestsAreOwed` counts a request that is being handled, which the
counter has not got yet or has lost already. `PastIsDrained` says where a frame from before
the last start can be: in an encoder that is drained, or is about to be by the timer.

**One way of the clipboard.** `ClipRecv_proofs`, for any offers, names and bounds:
`TypeCorrect`, `LastWins`, `NothingForeign`, `NothingMissing`. Messages carry versions
that go up by one with each list (`InOrder`). A stream has one request or answer under
way at most (`OneEach`), which is what the stream waits for (`StreamsDue`); streams,
received names and the chunks on disk belong to the list handled last (`StreamsFit`,
`DiskFits`), since the format list callback forgets the streams of the one before. This
gives `NothingForeign`. While nothing fails every stream goes on and there is one for
each file (`StreamsGoOn`), and the newest copy is asked for, answered, received, posted
or set (`OnItsWay`), which gives `LastWins`. `NothingMissing` assumes nothing of the
names: of the streams that may have created a file whose name is its own, the last to
empty it finds all that it has written (`DiskIsWhole`), and a range that stores nothing
moves neither the stream nor the file (`StallMoves`).

**Two clipboards.** `ClipShare_proofs`, for any number of copies, pastes, files and
reconnects: `TypeCorrect`, `OnlyFilesOffered`, `FilesFit`, `SerialAgree`. `WiresTyped`
and `SourcesKnown` bound what messages and lambdas can hold. That the files answered
are of the list the server goes by needs the local list to be the one the server will go
by when it has got every message under way (`LocalIsTold`; `GoesBy` says by which
list somebody goes after the first messages of a queue), the same of each answer under
way (`FilesAreTold`), and that the server has one request out at a time (`OneAtATime`),
so that an answer is for the present paste or for one given up. `SerialAgree` rests on `OneByOne`: while
copies are serial, the newest is at one of five stages of its way to the Mac
(`OnItsWay`) or has got there and the machine has it or will be told (`OnTheMac`).

Each step lemma has one step per action; what several steps need (the event queue,
bags, where a queue leads) are lemmas of their own.

Only model-checked: liveness (`StopEnds`, the fair part of `KeepsPromise`,
`LastFrameShown`, `TransfersEnd`, `StopIsHandled`, `LoginComesBack`,
`CopyReachesVm`, `PastesEnd`), which the proof system does not treat. Every invariant
and every other action property of a passing run is a theorem.

## 5. Not modelled

* VDIClient's power, status and snapshot buttons, language and stored settings. A late
  snapshot reply can use a button that a rebuilt list has deleted; the hazard
  list has it.
* Camera device arrival, removal and plugin termination.
* A clipboard callback in a channel that has been freed: `ClipShare` has the steps that
  lead to it (a change that is being offered while the RDP thread disconnects), but
  nothing in the repository promises that it cannot happen, so there is no property; the
  hazard list has it.
* Drives: file operations inside a drive, other kinds of device, and the end of the
  plugin (a scan may still run on its queue when the device list is freed; the hazard
  list has it).
* Input forwarding and the QML chrome: no state of their own beyond what
  `RdpSession` has (`CloseWindow`).
* FreeRDP, winpr and codecs, beyond the effects named: vendored.
* Microphone: upstream code around an operating-system queue.
* Camera format negotiation and enumeration messages: request and answer
  without state.
* Build and packaging scripts.

## 6. Plan

1. *VM buttons* of VDIClient: start, stop, restart and restore with their timeouts,
   status and snapshot replies against a list that is rebuilt.
2. *Camera devices*: arrival, removal and plugin termination, with
   `devicesLock` and the timer.
3. *End of rdpdr*: terminating the plugin against a scan on the FSEvents queue and
   the drives' own threads.
