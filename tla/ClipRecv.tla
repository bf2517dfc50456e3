------------------------------ MODULE ClipRecv ------------------------------
(***************************************************************************)
(* Remote-to-local clipboard of qf-client.  The server advertises what was *)
(* copied (format list); the client requests the best format at once, the  *)
(* server answers, and a file list is followed by one stream per file:     *)
(* its size, then its bytes chunk by chunk, until all are on disk and the  *)
(* main thread puts their URLs on the Mac clipboard.                       *)
(*                                                                         *)
(* All callbacks run on the channel's thread, under remote_files_mutex_    *)
(* where they touch files, so each is one action.  The server is a sketch: *)
(* it handles one message at a time, answers from what is copied when it   *)
(* handles the request, and may answer the streams in any order.  What was *)
(* copied is a version number; a chunk on disk is the version it is from.  *)
(***************************************************************************)
EXTENDS Integers, Sequences

CONSTANTS
    Offers,     \* what the server may copy: the formats of it that the client
                \* knows, and file sizes in chunks
    Path,       \* the base name a file of a list is stored under, by its index
    None,       \* no format
    MaxCopies,  \* bound of the model: copies on the server
    MaxFails    \* bound of the model: failed answers, files not created

Formats == {"files", "text", "image"}

ASSUME ClipAssumption ==
    /\ \A o \in Offers :
          /\ o.fmts \subseteq Formats
          /\ o.sizes \in Seq(Nat) /\ ("files" \in o.fmts) = (o.sizes # <<>>)
          /\ Len(o.sizes) <= Len(Path)
    /\ Path \in Seq(STRING)
    /\ None \notin Formats
    /\ MaxCopies \in Nat /\ MaxFails \in Nat

VARIABLES
    copies,   \* what the server has copied so far; the last one is current
    toServer, \* the client's requests
    toClient, \* the server's messages
    slot,     \* requested_remote_format_id_ and _name
    files,    \* remote_files_: stream id -> RemoteClipFile
    nextId,   \* next_remote_stream_id_
    urls,     \* remote_received_urls_
    disk,     \* path -> the chunks of the file in the receive directory
    posted,   \* lambdas queued for the main thread
    mac,      \* the Mac clipboard
    seen,     \* the version of the last format list handled
    fails     \* failures so far

vars == <<copies, toServer, toClient, slot, files, nextId, urls, disk, posted,
          mac, seen, fails>>

serverVars == <<copies, toServer>>
fileVars == <<files, nextId, urls, disk>>

Current == Len(copies)
Paths == {Path[i] : i \in DOMAIN Path}
Hole == 0

Msg(type, id, fmt, ver, n) ==
    [type |-> type, id |-> id, fmt |-> fmt, ver |-> ver, n |-> n]

Versions == 0..MaxCopies

\* A Mac clipboard holds pasted data (read as fmt, though it is real) or URLs.
Pasted(fmt, real, ver) == [fmt |-> fmt, real |-> real, ver |-> ver, urls |-> <<>>]
Received(us, ver) ==
    [fmt |-> "files", real |-> "files", ver |-> ver, urls |-> us]
Clipboards ==
    [fmt : Formats \cup {None}, real : Formats \cup {None}, ver : Versions,
     urls : Seq(Paths)]

TypeOK ==
    /\ copies \in Seq(Offers) /\ Len(copies) <= MaxCopies
    /\ slot \in Formats \cup {None}
    /\ nextId \in Nat \ {0}
    /\ \A id \in DOMAIN files :
          /\ id \in 1..(nextId - 1)
          /\ files[id].path \in Paths
          /\ files[id].ver \in 1..Current
          /\ files[id].written \in 0..files[id].size
          /\ files[id].done => files[id].written = files[id].size
    /\ \A id \in {toServer[i].id : i \in DOMAIN toServer} : id < nextId
    /\ urls \in Seq(Paths)
    /\ disk \in [Paths -> Seq(Versions)]
    /\ posted \in Seq(Clipboards) /\ mac \in Clipboards
    /\ seen \in 0..Current
    /\ fails \in 0..MaxFails

Init ==
    /\ copies = <<>> /\ toServer = <<>> /\ toClient = <<>>
    /\ slot = None
    /\ files = <<>> /\ nextId = 1 /\ urls = <<>>
    /\ disk = [p \in Paths |-> <<>>]
    /\ posted = <<>> /\ mac = Pasted(None, None, 0)
    /\ seen = 0 /\ fails = 0
-----------------------------------------------------------------------------
(* The server.                                                             *)

Copy(o) ==
    /\ Current < MaxCopies
    /\ copies' = Append(copies, o)
    /\ toClient' = Append(toClient, Msg("list", 0, None, Current + 1, 0))
    /\ UNCHANGED <<toServer, slot, fileVars, posted, mac, seen, fails>>

\* The answer to request r: from what is current now, or a failure.
Answer(r) ==
    LET now == copies[Current] IN
    IF r.type = "data"
    THEN Msg("data", 0, IF r.fmt \in now.fmts THEN r.fmt ELSE None, Current, 0)
    ELSE IF r.n \notin DOMAIN now.sizes
         THEN Msg("fail", r.id, None, Current, 0)
         ELSE Msg(r.type, r.id, None, Current, now.sizes[r.n])

Failure(r) ==
    Msg(IF r.type = "data" THEN "data" ELSE "fail", r.id, None, Current, 0)

\* Data requests are answered in their order, streams in any.
Respond(i) ==
    /\ i \in DOMAIN toServer
    /\ toServer[i].type = "data" =>
          \A j \in 1..(i - 1) : toServer[j].type # "data"
    /\ toServer' = [j \in 1..(Len(toServer) - 1) |->
                        toServer[IF j < i THEN j ELSE j + 1]]
    /\ \/ /\ toClient' = Append(toClient, Answer(toServer[i]))
          /\ UNCHANGED fails
       \/ /\ fails < MaxFails
          /\ fails' = fails + 1
          /\ toClient' = Append(toClient, Failure(toServer[i]))
    /\ UNCHANGED <<copies, slot, fileVars, posted, mac, seen>>
-----------------------------------------------------------------------------
(* The channel thread of the client.                                       *)

Receive(type) ==
    /\ toClient # <<>>
    /\ Head(toClient).type = type
    /\ toClient' = Tail(toClient)

Ask(type, id, fmt, n) == Msg(type, id, fmt, 0, n)

\* File list first, then text, then images.
Best(fmts) ==
    CHOOSE f \in fmts :
        \/ f = "files"
        \/ f = "text" /\ "files" \notin fmts
        \/ f = "image" /\ fmts = {"image"}

\* Slip: the streams of the list before are kept.
KeepStreams == UNCHANGED <<files, urls>>

\* Every handle is closed and every stream forgotten; files on disk stay.
ForgetStreams == files' = <<>> /\ urls' = <<>>

\* Slip: the slot is not overwritten while an answer is due.
RequestKeepsSlot(fmt) ==
    /\ slot' = IF slot = None THEN fmt ELSE slot
    /\ toServer' = Append(toServer, Ask("data", 0, fmt, 0))

\* requestRemoteFormat: the slot says what was requested last.
Request(fmt) ==
    /\ slot' = fmt
    /\ toServer' = Append(toServer, Ask("data", 0, fmt, 0))

\* qf_CliprdrServerFormatListCallBack. A list without a format the client knows
\* ends the transfers too, but nothing is requested and the slot stays.
FormatList ==
    /\ Receive("list")
    /\ LET ver == Head(toClient).ver
           fmts == copies[ver].fmts
       IN /\ seen' = ver
          /\ \/ fmts # {} /\ Request(Best(fmts))
             \/ fmts = {} /\ UNCHANGED <<slot, toServer>>
    /\ ForgetStreams
    /\ UNCHANGED <<copies, nextId, disk, posted, mac, fails>>

DataFailed ==
    /\ Receive("data")
    /\ Head(toClient).fmt = None
    /\ UNCHANGED <<serverVars, slot, fileVars, posted, mac, seen, fails>>

\* The answer is read as what the slot says was requested last, which is not
\* what this answer was requested as when two requests overlap.
DataResponse ==
    /\ Receive("data")
    /\ slot # "files"
    /\ Head(toClient).fmt # None
    /\ posted' = Append(posted,
                        Pasted(slot, Head(toClient).fmt, Head(toClient).ver))
    /\ UNCHANGED <<serverVars, slot, fileVars, mac, seen, fails>>

\* Anything but a file list cannot be parsed as one.
FileListUnparsed ==
    /\ Receive("data")
    /\ slot = "files"
    /\ Head(toClient).fmt \notin {"files", None}
    /\ UNCHANGED <<serverVars, slot, fileVars, posted, mac, seen, fails>>

\* Slip: the next stream id is moved on only past the first file.
FileListKeepsId ==
    /\ Receive("data")
    /\ slot = "files" /\ Head(toClient).fmt = "files"
    /\ LET ver == Head(toClient).ver
           count == Len(copies[ver].sizes)
       IN /\ files' = [id \in nextId..(nextId + count - 1) |->
                 [path |-> Path[id - nextId + 1], index |-> id - nextId + 1,
                  ver |-> ver, sized |-> FALSE, size |-> 0, written |-> 0,
                  done |-> FALSE]]
          /\ nextId' = nextId + 1
          /\ toServer' = toServer \o
                 [i \in 1..count |-> Ask("size", nextId + i - 1, None, i)]
    /\ UNCHANGED <<copies, slot, urls, disk, posted, mac, seen, fails>>

\* One stream per file; each asks for its size.
FileList ==
    /\ Receive("data")
    /\ slot = "files" /\ Head(toClient).fmt = "files"
    /\ LET ver == Head(toClient).ver
           count == Len(copies[ver].sizes)
           new == nextId..(nextId + count - 1)
           index(id) == id - nextId + 1
       IN /\ files' = [id \in DOMAIN files \cup new |->
                 IF id \in new
                 THEN [path |-> Path[index(id)], index |-> index(id),
                       ver |-> ver, sized |-> FALSE, size |-> 0,
                       written |-> 0, done |-> FALSE]
                 ELSE files[id]]
          /\ nextId' = nextId + count
          /\ toServer' = toServer \o
                 [i \in 1..count |-> Ask("size", nextId + i - 1, None, i)]
    /\ UNCHANGED <<copies, slot, urls, disk, posted, mac, seen, fails>>

Unknown(id) == id \notin DOMAIN files

Erase(id) == files' = [x \in DOMAIN files \ {id} |-> files[x]]

\* A response to a stream of an earlier list.
UnknownStream ==
    /\ Receive("size") \/ Receive("range") \/ Receive("fail")
    /\ Unknown(Head(toClient).id)
    /\ UNCHANGED <<serverVars, slot, fileVars, posted, mac, seen, fails>>

\* Slip: a failed stream stays in the table.
StreamFailedKept ==
    /\ Receive("fail")
    /\ ~Unknown(Head(toClient).id)
    /\ UNCHANGED <<serverVars, slot, fileVars, posted, mac, seen, fails>>

\* The stream is dropped; whether the others are all done is not asked.
StreamFailed ==
    /\ Receive("fail")
    /\ ~Unknown(Head(toClient).id)
    /\ Erase(Head(toClient).id)
    /\ UNCHANGED <<serverVars, slot, nextId, urls, disk, posted, mac, seen,
                   fails>>

\* Slip: the last file that completes is not among the published ones.
FinishLate(id, f) ==
    LET all == [files EXCEPT ![id] = [f EXCEPT !.done = TRUE]] IN
    IF \A x \in DOMAIN all : all[x].done
    THEN /\ files' = <<>> /\ urls' = <<>>
         /\ posted' = Append(posted, Received(urls, seen))
    ELSE /\ files' = all /\ urls' = Append(urls, f.path)
         /\ UNCHANGED posted

\* Slip: a file is marked done without looking at the others.
FinishAlone(id, f) ==
    /\ files' = [files EXCEPT ![id] = [f EXCEPT !.done = TRUE]]
    /\ urls' = Append(urls, f.path)
    /\ UNCHANGED posted

\* The file is done; when all are, their URLs go to the main thread.
Finish(id, f) ==
    LET all == [files EXCEPT ![id] = [f EXCEPT !.done = TRUE]]
        received == Append(urls, f.path)
    IN IF \A x \in DOMAIN all : all[x].done
       THEN /\ files' = <<>> /\ urls' = <<>>
            /\ posted' = Append(posted, Received(received, seen))
       ELSE /\ files' = all /\ urls' = received
            /\ UNCHANGED posted

\* The size is known: the file is created, which empties one of that name.
StreamSized ==
    /\ Receive("size")
    /\ LET id == Head(toClient).id
           f == [files[id] EXCEPT !.sized = TRUE, !.size = Head(toClient).n]
       IN /\ ~Unknown(id)
          /\ disk' = [disk EXCEPT ![f.path] = <<>>]
          /\ IF f.size = 0
             THEN Finish(id, f) /\ UNCHANGED toServer
             ELSE /\ files' = [files EXCEPT ![id] = f]
                  /\ toServer' = Append(toServer, Ask("range", id, None, f.index))
                  /\ UNCHANGED <<urls, posted>>
    /\ UNCHANGED <<copies, slot, nextId, mac, seen, fails>>

\* fopen fails.
CreateFails ==
    /\ Receive("size")
    /\ ~Unknown(Head(toClient).id)
    /\ fails < MaxFails
    /\ fails' = fails + 1
    /\ Erase(Head(toClient).id)
    /\ UNCHANGED <<serverVars, slot, nextId, urls, disk, posted, mac, seen>>

\* A chunk is written at the stream's own position in the file.
Write(path, at, ver) ==
    [disk EXCEPT ![path] =
        [i \in 1..(IF at > Len(disk[path]) THEN at ELSE Len(disk[path])) |->
            IF i = at THEN ver
            ELSE IF i \in DOMAIN disk[path] THEN disk[path][i] ELSE Hole]]

\* Slip: the stream's position moves on although nothing was written.
RangeSkips ==
    /\ Receive("range")
    /\ LET id == Head(toClient).id
           f == [files[id] EXCEPT !.written = @ + 1]
       IN /\ ~Unknown(id)
          /\ IF f.written >= f.size
             THEN Finish(id, f) /\ UNCHANGED toServer
             ELSE /\ files' = [files EXCEPT ![id] = f]
                  /\ toServer' = Append(toServer, Ask("range", id, None, f.index))
                  /\ UNCHANGED <<urls, posted>>
    /\ UNCHANGED <<copies, slot, nextId, disk, mac, seen, fails>>

\* The answer is empty, or fwrite writes nothing (the disk is full): the same
\* range is requested again, and nothing counts the attempts.
RangeStalls ==
    /\ Receive("range")
    /\ LET id == Head(toClient).id IN
       /\ ~Unknown(id)
       /\ toServer' = Append(toServer, Ask("range", id, None, files[id].index))
    /\ UNCHANGED <<copies, slot, fileVars, posted, mac, seen, fails>>

\* What was written of the answer is a chunk, however much it is.
StreamRange ==
    /\ Receive("range")
    /\ LET id == Head(toClient).id
           f == [files[id] EXCEPT !.written = @ + 1]
       IN /\ ~Unknown(id)
          /\ disk' = Write(f.path, f.written, Head(toClient).ver)
          /\ IF f.written >= f.size
             THEN Finish(id, f) /\ UNCHANGED toServer
             ELSE /\ files' = [files EXCEPT ![id] = f]
                  /\ toServer' = Append(toServer, Ask("range", id, None, f.index))
                  /\ UNCHANGED <<urls, posted>>
    /\ UNCHANGED <<copies, slot, nextId, mac, seen, fails>>
-----------------------------------------------------------------------------
(* The Qt main thread.                                                     *)

\* updateClipboardDataFromRemote and setClipboardUrls; data that is no image
\* is not set as one, anything can be set as text, no URLs are not set.
SetClipboard ==
    /\ posted # <<>>
    /\ posted' = Tail(posted)
    /\ LET c == Head(posted) IN
       mac' = IF \/ c.fmt = "image" /\ c.real # "image"
                 \/ c.fmt = "files" /\ c.urls = <<>>
              THEN mac ELSE c
    /\ UNCHANGED <<serverVars, toClient, slot, fileVars, seen, fails>>
-----------------------------------------------------------------------------
Client ==
    \/ FormatList
    \/ DataFailed \/ DataResponse \/ FileListUnparsed \/ FileList
    \/ UnknownStream \/ StreamFailed \/ StreamSized \/ CreateFails
    \/ StreamRange \/ RangeStalls

Next ==
    \/ \E o \in Offers : Copy(o)
    \/ \E i \in DOMAIN toServer : Respond(i)
    \/ Client
    \/ SetClipboard

\* The server answers what it is asked and the client's threads run; nobody
\* is obliged to copy anything.
Fairness ==
    /\ WF_vars(\E i \in DOMAIN toServer : Respond(i))
    /\ WF_vars(Client)
    /\ WF_vars(SetClipboard)

Spec == Init /\ [][Next]_vars /\ Fairness
-----------------------------------------------------------------------------
(* Properties.                                                             *)

Batch == posted'[Len(posted')]

PublishesFiles ==
    Len(posted') > Len(posted) /\ Batch.fmt = "files"

\* No other file of the list is stored under the name of file i.
OwnName(i, sizes) == \A j \in DOMAIN sizes : Path[j] = Path[i] => j = i

BatchIsWhole ==
    LET sizes == copies[Batch.ver].sizes
        whole(i) == [j \in 1..sizes[i] |-> Batch.ver]
    IN /\ {Batch.urls[i] : i \in DOMAIN Batch.urls}
              = {Path[i] : i \in DOMAIN sizes}
       /\ \A i \in DOMAIN sizes :
             OwnName(i, sizes) => disk'[Path[i]] = whole(i)

\* Bytes of two different copies never meet in a published file, although
\* requests of an old list are answered from the new one: those answers come
\* after the new list, which has forgotten their streams.
NoForeignBytes ==
    [][PublishesFiles =>
          \A p \in {Batch.urls[i] : i \in DOMAIN Batch.urls} :
              \A i \in DOMAIN disk'[p] : disk'[p][i] \in {Batch.ver, Hole}]_vars

\* As long as nothing has failed, no name of the list is missing from what is
\* published, and no file is published half written or with a gap, however often
\* its ranges had to be requested again - unless it shares its name with another
\* file of the list: two streams write to that one. (After a failure the streams
\* that remain are published as if they were the whole list.)
PublishedComplete == [][PublishesFiles /\ fails = 0 => BatchIsWhole]_vars

\* Once everything is answered and drained, and nothing failed, the Mac
\* clipboard holds what was copied last, as what it is - also when two requests
\* overlapped and an answer was read as the wrong format on the way. What was
\* copied last in no format the client knows never gets there.
LastCopyWins ==
    /\ copies # <<>> /\ toServer = <<>> /\ toClient = <<>> /\ posted = <<>>
    /\ fails = 0 /\ copies[Current].fmts # {}
    => LET best == Best(copies[Current].fmts) IN
       mac.ver = Current /\ mac.fmt = best /\ mac.real = best

\* A transfer that began ends, unless its ranges stall for ever: nothing gives up
\* a stream of which not a byte arrives, or of which none can be written, but as
\* soon as that is over the transfer goes on to its end. If nothing fails:
\* published, or superseded by another list. After a failure no file is left half
\* received: each stream ends in a complete file or leaves the table.
StallsCease == <>[][~RangeStalls]_vars

TransfersEnd ==
    StallsCease =>
        (files # <<>> ~>
            \/ files = <<>>
            \/ fails > 0 /\ \A id \in DOMAIN files : files[id].done)

\* What the comment on the file callback says: when all are complete, the
\* clipboard is set - so a table never holds complete files only.
NoneLeftDone == files # <<>> => \E id \in DOMAIN files : ~files[id].done
=============================================================================
