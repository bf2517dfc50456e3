--------------------------- MODULE ClipRecv_proofs ---------------------------
(***************************************************************************)
(* Proofs about ClipRecv, for any offers, names, number of copies and of    *)
(* failures: what is published is of one copy and, while nothing fails,    *)
(* whole; and the last copy ends up on the Mac.                            *)
(***************************************************************************)
EXTENDS ClipRecv, SequenceTheorems, TLAPS

LocalFormats == Formats \cup {None}

Requests ==
    [type : {"data", "size", "range"}, id : Nat, fmt : LocalFormats, ver : {0},
     n : Nat]
Messages ==
    [type : {"list", "data", "size", "range", "fail"}, id : Nat,
     fmt : LocalFormats, ver : Nat, n : Nat]
Streams ==
    [path : Paths, index : DOMAIN Path, ver : Nat, sized : BOOLEAN, size : Nat,
     written : Nat, done : BOOLEAN]

\* What TypeOK leaves out: messages and the streams of the table.
WiresTyped ==
    /\ toServer \in Seq(Requests) /\ toClient \in Seq(Messages)
    /\ files \in [DOMAIN files -> Streams]
    /\ \A i \in DOMAIN toClient :
          toClient[i].id < nextId /\ toClient[i].ver \in 1..Current
    /\ toServer # <<>> => Current > 0
    /\ \A i \in DOMAIN toServer : toServer[i].id # 0 <=> toServer[i].type # "data"
    /\ \A i \in DOMAIN toClient :
          toClient[i].id # 0 <=> toClient[i].type \notin {"list", "data"}
    /\ \A i \in DOMAIN toClient :
          toClient[i].type = "data" /\ toClient[i].fmt # None =>
              toClient[i].fmt \in copies[toClient[i].ver].fmts

\* A message carries the version that was current when it was sent, which goes
\* up by one with each list: Before(i) is what it was before message i.
Before(i) == IF i = 1 THEN seen ELSE toClient[i - 1].ver

InOrder ==
    /\ \A i \in DOMAIN toClient :
          toClient[i].ver =
              IF toClient[i].type = "list" THEN Before(i) + 1 ELSE Before(i)
    /\ Current = Before(Len(toClient) + 1)

\* A stream has one request or answer under way at most.
OneEach ==
    /\ \A i, j \in DOMAIN toServer :
          toServer[i].id # 0 /\ toServer[i].id = toServer[j].id => i = j
    /\ \A i, j \in DOMAIN toClient :
          toClient[i].id # 0 /\ toClient[i].id = toClient[j].id => i = j
    /\ \A i \in DOMAIN toServer, j \in DOMAIN toClient :
          toServer[i].id # 0 => toServer[i].id # toClient[j].id

\* A request or an answer of that type is what stream f waits for.
Due(type, f) ==
    /\ ~f.done
    /\ type = "size" => ~f.sized
    /\ type = "range" => f.sized /\ f.written < f.size

\* What is under way is due, and an answer given while the list is still the
\* newest is about the stream's file.
StreamsDue ==
    /\ \A i \in DOMAIN toServer :
          LET m == toServer[i] IN
          m.id \in DOMAIN files =>
              Due(m.type, files[m.id]) /\ m.n = files[m.id].index
    /\ \A i \in DOMAIN toClient :
          LET m == toClient[i] IN
          m.id \in DOMAIN files =>
              /\ Due(m.type, files[m.id])
              /\ m.ver = seen /\ m.type # "fail" =>
                     m.n = copies[seen].sizes[files[m.id].index]
              /\ m.ver = seen /\ m.type = "fail" => fails > 0

\* The streams of table fs are of the list handled last, and us are the files
\* of those that are done.
StreamsFit(fs, us) ==
    /\ \A id \in DOMAIN fs :
          /\ fs[id].path = Path[fs[id].index] /\ fs[id].ver = seen
          /\ fs[id].index \in DOMAIN copies[seen].sizes
          /\ fs[id].sized => fs[id].size = copies[seen].sizes[fs[id].index]
          /\ fs[id].written <= fs[id].size
          /\ fs[id].done => fs[id].sized /\ fs[id].written = fs[id].size
          /\ ~fs[id].sized => fs[id].size = 0
    /\ \A i \in DOMAIN us : \E id \in DOMAIN fs : fs[id].done /\ fs[id].path = us[i]
    /\ \A id \in DOMAIN fs : fs[id].done => \E i \in DOMAIN us : us[i] = fs[id].path

\* A file that a stream has created was empty then, and what was written since is
\* of that list.
DiskFits(fs, d) ==
    \A id \in DOMAIN fs :
        fs[id].sized =>
            \A k \in DOMAIN d[fs[id].path] : d[fs[id].path][k] \in {seen, Hole}

\* A stream that is not done has a request or an answer under way; while nothing
\* has failed there is one that is not done, and one for each file of the list.
UnderWay(id) ==
    \/ \E i \in DOMAIN toServer : toServer[i].id = id
    \/ \E i \in DOMAIN toClient : toClient[i].id = id

AllStreams(fs) ==
    \A i \in DOMAIN copies[seen].sizes : \E id \in DOMAIN fs : fs[id].index = i

StreamsGoOn ==
    /\ \A id \in DOMAIN files : files[id].done \/ UnderWay(id)
    /\ fails = 0 /\ DOMAIN files # {} =>
          (\E id \in DOMAIN files : ~files[id].done) /\ AllStreams(files)

\* The newest copy is on its way to the Mac: asked for, answered, received, posted
\* or set.
Wanted == Best(copies[Current].fmts)
IsNewest(c) ==
    /\ c.ver = Current /\ c.fmt = Wanted /\ c.real = Wanted
    /\ Wanted = "files" => c.urls # <<>>
NoData(s, i) == \A j \in DOMAIN s : j > i => s[j].type # "data"
LastData(s, i) == s[i].type = "data" /\ s[i].fmt = Wanted /\ NoData(s, i)

Asked == \E i \in DOMAIN toServer : LastData(toServer, i)
Answered == NoData(toServer, 0) /\ \E i \in DOMAIN toClient : LastData(toClient, i)
Shown == IF posted = <<>> THEN IsNewest(mac) ELSE IsNewest(posted[Len(posted)])
Settled ==
    Shown /\ (Wanted # "files" => NoData(toServer, 0) /\ NoData(toClient, 0))

UnderWayOrShown ==
    \/ Asked
    \/ Answered
    \/ Wanted = "files" /\ DOMAIN files # {}
    \/ Settled

OnItsWay ==
    /\ slot # "files" => DOMAIN files = {}
    /\ seen > 0 /\ copies[seen].fmts # {} => slot = Best(copies[seen].fmts)
    /\ fails = 0 /\ seen = Current /\ Current > 0 /\ copies[Current].fmts # {}
          => UnderWayOrShown

IInv ==
    /\ TypeOK /\ WiresTyped /\ InOrder /\ OneEach /\ StreamsDue
    /\ StreamsFit(files, urls) /\ DiskFits(files, disk) /\ StreamsGoOn /\ OnItsWay

\* A file that a stream has created, and that no other file of the list shares its
\* name with, is no longer than it should be, and the stream that was the last to
\* empty it finds all that it has written.
Own(i) == OwnName(i, copies[seen].sizes)

Keeps(s, chunks) ==
    s.written <= Len(chunks) /\ \A k \in 1..s.written : chunks[k] = seen

DiskIsWhole(fs, d) ==
    \A id \in DOMAIN fs :
        fs[id].sized /\ Own(fs[id].index) =>
            /\ Len(d[fs[id].path]) <= fs[id].size
            /\ \E w \in DOMAIN fs :
                  /\ fs[w].sized /\ fs[w].index = fs[id].index
                  /\ Keeps(fs[w], d[fs[id].path])
-----------------------------------------------------------------------------
(* Queues and tables.                                                      *)

\* A queue has a head and a tail.
LEMMA Drained ==
    ASSUME NEW S, NEW q \in Seq(S), q # <<>>
    PROVE  /\ q[1] \in S /\ Head(q) = q[1]
           /\ Len(q) \in Nat /\ Len(q) >= 1 /\ DOMAIN q = 1..Len(q)
           /\ Tail(q) \in Seq(S) /\ Len(Tail(q)) = Len(q) - 1
           /\ DOMAIN Tail(q) = 1..(Len(q) - 1)
           /\ \A i \in 1..(Len(q) - 1) : Tail(q)[i] = q[i + 1]
<1>1. /\ Tail(q) \in Seq(S) /\ Len(Tail(q)) = Len(q) - 1
      /\ \A i \in 1..Len(Tail(q)) : Tail(q)[i] = q[i + 1]
  BY HeadTailProperties
<1>2. Len(q) \in Nat /\ Len(q) >= 1 /\ DOMAIN q = 1..Len(q)
  OBVIOUS
<1>3. q[1] \in S /\ Head(q) = q[1]
  BY <1>2
<1>4. DOMAIN Tail(q) = 1..Len(Tail(q))
  BY <1>1
<1>5. QED
  BY <1>1, <1>2, <1>3, <1>4

\* A queue with one more at its end.
LEMMA Posted ==
    ASSUME NEW S, NEW q \in Seq(S), NEW m \in S
    PROVE  /\ Append(q, m) \in Seq(S) /\ Append(q, m) # <<>>
           /\ Len(q) \in Nat /\ Len(Append(q, m)) = Len(q) + 1
           /\ DOMAIN q = 1..Len(q) /\ DOMAIN Append(q, m) = 1..(Len(q) + 1)
           /\ Append(q, m)[Len(q) + 1] = m
           /\ \A i \in 1..Len(q) : Append(q, m)[i] = q[i]
  OBVIOUS

\* The place in a queue of what is in place j when place i has been taken out.
Past(i, j) == IF j < i THEN j ELSE j + 1
Without(q, i) == [j \in 1..(Len(q) - 1) |-> q[IF j < i THEN j ELSE j + 1]]

LEMMA Removed ==
    ASSUME NEW S, NEW q \in Seq(S), NEW i \in DOMAIN q
    PROVE  /\ Without(q, i) \in Seq(S) /\ Len(Without(q, i)) = Len(q) - 1
           /\ DOMAIN Without(q, i) = 1..(Len(q) - 1)
           /\ \A j \in 1..(Len(q) - 1) :
                 /\ Without(q, i)[j] = q[Past(i, j)]
                 /\ Past(i, j) \in DOMAIN q \ {i}
           /\ \A j, k \in 1..(Len(q) - 1) : j < k <=> Past(i, j) < Past(i, k)
           /\ \A k \in DOMAIN q \ {i} : \E j \in 1..(Len(q) - 1) : Past(i, j) = k
<1> DEFINE r == Without(q, i)
<1>1. Len(q) \in Nat \ {0} /\ DOMAIN q = 1..Len(q) /\ i \in 1..Len(q)
  OBVIOUS
<1>2. \A j \in 1..(Len(q) - 1) : Past(i, j) \in (1..Len(q)) \ {i}
  BY <1>1 DEF Past
<1>3. DOMAIN r = 1..(Len(q) - 1) /\ \A j \in DOMAIN r : r[j] = q[Past(i, j)]
  BY DEF Past, Without
<1>4. \A j \in 1..(Len(q) - 1) : r[j] \in S
  BY <1>1, <1>2, <1>3
<1>5. r \in Seq(S) /\ Len(r) = Len(q) - 1
  <2>1. Len(q) - 1 \in Nat
    BY <1>1
  <2>2. r \in [1..(Len(q) - 1) -> S]
    BY <1>3, <1>4 DEF Without
  <2>3. QED
    BY <2>1, <2>2
<1>6. \A j, k \in 1..(Len(q) - 1) : j < k <=> Past(i, j) < Past(i, k)
  BY <1>1 DEF Past
<1>7. ASSUME NEW k \in (1..Len(q)) \ {i}
      PROVE  \E j \in 1..(Len(q) - 1) : Past(i, j) = k
  <2>1. CASE k < i
    <3>1. k \in 1..(Len(q) - 1) /\ Past(i, k) = k
      BY <2>1, <1>1 DEF Past
    <3>2. QED
      BY <3>1
  <2>2. CASE k > i
    <3>1. k - 1 \in 1..(Len(q) - 1) /\ Past(i, k - 1) = k
      BY <2>2, <1>1 DEF Past
    <3>2. QED
      BY <3>1
  <2>3. QED
    BY <2>1, <2>2, <1>1
<1>8. QED
  BY <1>1, <1>2, <1>3, <1>5, <1>6, <1>7

\* The empty table.
LEMMA EmptyTable == DOMAIN <<>> = {} /\ \A S : <<>> \in [DOMAIN <<>> -> S]
<1>1. ASSUME NEW S
      PROVE  DOMAIN <<>> = {} /\ <<>> \in [DOMAIN <<>> -> S]
  <2>1. <<>> \in Seq(S) /\ Len(<<>>) = 0
    OBVIOUS
  <2>2. <<>> \in [1..0 -> S]
    BY <2>1, LenProperties
  <2>3. QED
    BY <2>2
<1>2. QED
  BY <1>1

\* One stream of a table has changed.
LEMMA Updated ==
    ASSUME NEW D, NEW S, NEW t \in [D -> S], NEW x \in D, NEW s \in S
    PROVE  /\ [t EXCEPT ![x] = s] \in [D -> S]
           /\ DOMAIN [t EXCEPT ![x] = s] = D
           /\ [t EXCEPT ![x] = s][x] = s
           /\ \A y \in D \ {x} : [t EXCEPT ![x] = s][y] = t[y]
  OBVIOUS
-----------------------------------------------------------------------------
(* Offers and messages.                                                    *)

\* The best of some formats is one of them.
LEMMA BestIsOffered ==
    ASSUME NEW fmts, fmts \subseteq Formats, fmts # {}
    PROVE  Best(fmts) \in fmts
<1>1. \E f \in fmts :
          \/ f = "files"
          \/ f = "text" /\ "files" \notin fmts
          \/ f = "image" /\ fmts = {"image"}
  <2>1. CASE "files" \in fmts
    BY <2>1
  <2>2. CASE "files" \notin fmts /\ "text" \in fmts
    BY <2>2
  <2>3. CASE "files" \notin fmts /\ "text" \notin fmts
    <3>1. fmts = {"image"}
      BY <2>3 DEF Formats
    <3>2. QED
      BY <3>1
  <2>4. QED
    BY <2>1, <2>2, <2>3
<1>2. QED
  BY <1>1 DEF Best

\* What a version stands for is an offer.
LEMMA CopyFacts ==
    ASSUME copies \in Seq(Offers), NEW v \in 1..Current
    PROVE  /\ copies[v] \in Offers
           /\ copies[v].fmts \subseteq Formats
           /\ copies[v].sizes \in Seq(Nat)
           /\ "files" \in copies[v].fmts <=> copies[v].sizes # <<>>
           /\ Len(copies[v].sizes) \in Nat /\ Len(copies[v].sizes) <= Len(Path)
           /\ DOMAIN copies[v].sizes = 1..Len(copies[v].sizes)
           /\ copies[v].fmts # {} =>
                 /\ Best(copies[v].fmts) \in copies[v].fmts
                 /\ Best(copies[v].fmts) \in Formats
           /\ None \notin Formats
<1>1. copies[v] \in Offers
  BY DEF Current
<1>2. /\ copies[v].fmts \subseteq Formats
      /\ copies[v].sizes \in Seq(Nat) /\ Len(copies[v].sizes) <= Len(Path)
      /\ ("files" \in copies[v].fmts) = (copies[v].sizes # <<>>)
      /\ None \notin Formats
  BY <1>1, ClipAssumption DEF ClipAssumption
<1>3. copies[v].fmts # {} => Best(copies[v].fmts) \in copies[v].fmts
  BY <1>2, BestIsOffered
<1>4. QED
  BY <1>1, <1>2, <1>3

\* Messages are of their type.
LEMMA MessageTypes ==
    /\ \A type \in {"list", "data", "size", "range", "fail"},
          id \in Nat, fmt \in LocalFormats, ver \in Nat, n \in Nat :
          /\ Msg(type, id, fmt, ver, n) \in Messages
          /\ Msg(type, id, fmt, ver, n).type = type
          /\ Msg(type, id, fmt, ver, n).id = id
          /\ Msg(type, id, fmt, ver, n).fmt = fmt
          /\ Msg(type, id, fmt, ver, n).ver = ver
          /\ Msg(type, id, fmt, ver, n).n = n
    /\ \A type \in {"data", "size", "range"}, id \in Nat, fmt \in LocalFormats,
          n \in Nat :
          /\ Ask(type, id, fmt, n) \in Requests
          /\ Ask(type, id, fmt, n).type = type
          /\ Ask(type, id, fmt, n).id = id
          /\ Ask(type, id, fmt, n).fmt = fmt
          /\ Ask(type, id, fmt, n).n = n
  BY DEF Msg, Ask, Messages, Requests

\* The message the channel's thread takes is of the version it goes by, or of
\* the next one if it is a list.
LEMMA HeadFacts ==
    ASSUME TypeOK, WiresTyped, InOrder, toClient # <<>>, NEW m, m = Head(toClient)
    PROVE  /\ m = toClient[1] /\ 1 \in DOMAIN toClient /\ m \in Messages
           /\ m.type = "list" => m.ver = seen + 1
           /\ m.type # "list" => m.ver = seen
           /\ m.ver \in 1..Current /\ m.id \in Nat
  <1>1. /\ m = toClient[1] /\ 1 \in DOMAIN toClient /\ m \in Messages
    BY Drained DEF WiresTyped
  <1>2. Before(1) = seen
    BY DEF Before
  <1>3. QED
    BY <1>1, <1>2 DEF WiresTyped, InOrder, Messages
-----------------------------------------------------------------------------
(* The steps, as the proofs below group them.                              *)

\* The channel's thread takes a message and does nothing about it ...
Skip ==
    /\ toClient # <<>> /\ toClient' = Tail(toClient)
    /\ Head(toClient).type # "list" /\ Head(toClient).id \notin DOMAIN files
    /\ Head(toClient).type = "data" =>
          \/ Head(toClient).fmt = None
          \/ slot = "files" /\ Head(toClient).fmt # "files"
    /\ UNCHANGED <<serverVars, slot, fileVars, posted, mac, seen, fails>>

\* ... or gives a stream up ...
Dropped ==
    /\ toClient # <<>> /\ toClient' = Tail(toClient)
    /\ Head(toClient).type \in {"size", "fail"} /\ Head(toClient).id \in DOMAIN files
    /\ Erase(Head(toClient).id)
    /\ fails' \in fails..MaxFails /\ fails' > 0
    /\ UNCHANGED <<serverVars, slot, nextId, urls, disk, posted, mac, seen>>

\* ... or moves stream id on to h: created, written to, or not moved at all (the
\* range stalls); done and the next
\* chunk not asked for, if it was the last; published, if all are done.
Table(id, h) == [files EXCEPT ![id] = h]
Complete(id, h) == IF h.done THEN Append(urls, h.path) ELSE urls

MovedDisk(id, h) ==
    \/ h.written = 0 /\ disk' = [disk EXCEPT ![h.path] = <<>>]
    \/ /\ files[id].sized /\ h.written = files[id].written + 1
       /\ disk' = Write(h.path, h.written, seen)
    \/ files[id].sized /\ h.written = files[id].written /\ UNCHANGED disk

AllDone(fs) == \A x \in DOMAIN fs : fs[x].done

Moved(id, h) ==
    /\ toClient # <<>> /\ toClient' = Tail(toClient)
    /\ Head(toClient).type \in {"size", "range"} /\ Head(toClient).id = id
    /\ id \in DOMAIN files /\ h \in Streams /\ ~files[id].done
    /\ h.path = files[id].path /\ h.index = files[id].index /\ h.ver = files[id].ver
    /\ h.sized /\ h.size = copies[seen].sizes[h.index] /\ h.written <= h.size
    /\ h.done <=> h.written = h.size
    /\ MovedDisk(id, h)
    /\ toServer' = IF h.done THEN toServer
                   ELSE Append(toServer, Ask("range", id, None, h.index))
    /\ IF AllDone(Table(id, h))
       THEN /\ files' = <<>> /\ urls' = <<>>
            /\ posted' = Append(posted, Received(Complete(id, h), seen))
       ELSE /\ files' = Table(id, h) /\ urls' = Complete(id, h)
            /\ UNCHANGED posted
    /\ UNCHANGED <<copies, slot, nextId, mac, seen, fails>>

\* What is known of a stream that an answer is for.
LEMMA StreamFacts ==
    ASSUME IInv, toClient # <<>>, NEW m, m = Head(toClient), m.id \in DOMAIN files
    PROVE  /\ files[m.id] \in Streams /\ m.id \in 1..(nextId - 1)
           /\ m.ver = seen /\ seen \in 1..Current /\ ~files[m.id].done
           /\ m.type \in {"size", "range", "fail"}
           /\ m.type = "fail" => fails > 0
           /\ m.type = "size" => ~files[m.id].sized /\ files[m.id].written = 0
           /\ m.type = "range" => /\ files[m.id].sized
                                  /\ files[m.id].written < files[m.id].size
           /\ m.type # "fail" => m.n = copies[seen].sizes[files[m.id].index]
           /\ m.n \in Nat
           /\ files[m.id].index \in DOMAIN copies[seen].sizes
           /\ files[m.id].sized =>
                 files[m.id].size = copies[seen].sizes[files[m.id].index]
           /\ copies[seen].sizes[files[m.id].index] \in Nat
<1>1. /\ m = toClient[1] /\ 1 \in DOMAIN toClient /\ m \in Messages
      /\ m.type # "list" => m.ver = seen
      /\ m.ver \in 1..Current /\ m.id \in Nat
  BY HeadFacts DEF IInv
<1>2. files[m.id] \in Streams /\ m.id \in 1..(nextId - 1)
  BY DEF IInv, WiresTyped, TypeOK
<1>3. m.type \in {"size", "range", "fail"}
  <2>1. m.id # 0 /\ m.type \in {"list", "data", "size", "range", "fail"}
    BY <1>1, <1>2 DEF IInv, TypeOK, Messages
  <2>2. QED
    BY <2>1, <1>1 DEF IInv, WiresTyped
<1>4. m.ver = seen /\ seen \in 1..Current
  BY <1>1, <1>3
<1>5. /\ Due(m.type, files[m.id])
      /\ m.type # "fail" => m.n = copies[seen].sizes[files[m.id].index]
      /\ m.type = "fail" => fails > 0
  BY <1>1, <1>4 DEF IInv, StreamsDue
<1>6. /\ files[m.id].index \in DOMAIN copies[seen].sizes
      /\ files[m.id].sized =>
            files[m.id].size = copies[seen].sizes[files[m.id].index]
      /\ ~files[m.id].sized => files[m.id].size = 0
      /\ files[m.id].written <= files[m.id].size
  BY DEF IInv, StreamsFit
<1>7. copies[seen].sizes \in Seq(Nat)
  BY <1>4, CopyFacts DEF IInv, TypeOK
<1>8. m.n \in Nat /\ copies[seen].sizes[files[m.id].index] \in Nat
  BY <1>1, <1>6, <1>7 DEF Messages
<1>9. ~files[m.id].sized => files[m.id].written = 0
  BY <1>2, <1>6 DEF Streams
<1>10. QED
  BY <1>1, <1>2, <1>3, <1>4, <1>5, <1>6, <1>8, <1>9 DEF Due

LEMMA SizedMoves ==
    ASSUME IInv, StreamSized
    PROVE  \E id, h : Moved(id, h)
<1> DEFINE m == Head(toClient)
           id == m.id
           f == [files[id] EXCEPT !.sized = TRUE, !.size = m.n]
           h == IF f.size = 0 THEN [f EXCEPT !.done = TRUE] ELSE f
<1>1. /\ toClient # <<>> /\ m.type = "size" /\ toClient' = Tail(toClient)
      /\ id \in DOMAIN files
      /\ disk' = [disk EXCEPT ![f.path] = <<>>]
      /\ IF f.size = 0
         THEN Finish(id, f) /\ UNCHANGED toServer
         ELSE /\ files' = [files EXCEPT ![id] = f]
              /\ toServer' = Append(toServer, Ask("range", id, None, f.index))
              /\ UNCHANGED <<urls, posted>>
      /\ UNCHANGED <<copies, slot, nextId, mac, seen, fails>>
  BY DEF StreamSized, Receive, Unknown
<1>2. /\ files[id] \in Streams /\ ~files[id].done /\ m.n \in Nat
      /\ ~files[id].sized /\ files[id].written = 0
      /\ m.n = copies[seen].sizes[files[id].index]
  BY <1>1, StreamFacts
<1>3. /\ f \in Streams /\ f.sized = TRUE /\ f.size = m.n /\ ~f.done /\ f.written = 0
      /\ f.path = files[id].path /\ f.index = files[id].index /\ f.ver = files[id].ver
  BY <1>2 DEF Streams
<1> HIDE DEF f
<1>4. /\ h \in Streams /\ h.sized = TRUE /\ h.size = f.size /\ h.written = 0
      /\ h.path = f.path /\ h.index = f.index /\ h.ver = f.ver
      /\ h.done <=> f.size = 0
  BY <1>3 DEF Streams
<1>5. f.size = 0 => h = [f EXCEPT !.done = TRUE]
  OBVIOUS
<1>6. f.size # 0 => h = f
  OBVIOUS
<1> HIDE DEF h, id
<1>7. MovedDisk(id, h)
  BY <1>1, <1>4 DEF MovedDisk
<1>8. Table(id, h)[id] = h /\ DOMAIN Table(id, h) = DOMAIN files
  BY <1>1 DEF Table
<1>9. IF AllDone(Table(id, h))
      THEN /\ files' = <<>> /\ urls' = <<>>
           /\ posted' = Append(posted, Received(Complete(id, h), seen))
      ELSE /\ files' = Table(id, h) /\ urls' = Complete(id, h)
           /\ UNCHANGED posted
  <2>1. CASE f.size = 0
    <3>1. Finish(id, f) /\ Table(id, h) = [files EXCEPT ![id] = [f EXCEPT !.done = TRUE]]
      BY <1>1, <1>5, <2>1 DEF Table
    <3>2. Complete(id, h) = Append(urls, f.path)
      BY <1>4, <2>1 DEF Complete
    <3>3. QED
      BY <3>1, <3>2 DEF Finish, AllDone
  <2>2. CASE f.size # 0
    <3>1. ~AllDone(Table(id, h))
      BY <1>1, <1>4, <1>8, <2>2 DEF AllDone
    <3>2. QED
      BY <1>1, <1>4, <1>6, <2>2, <3>1 DEF Table, Complete
  <2>3. QED
    BY <2>1, <2>2
<1>10. toServer' = IF h.done THEN toServer
                   ELSE Append(toServer, Ask("range", id, None, h.index))
  BY <1>1, <1>4
<1>11. Moved(id, h)
  BY <1>1, <1>2, <1>3, <1>4, <1>7, <1>9, <1>10 DEF Moved, id
<1>12. QED
  BY <1>11

LEMMA RangeMoves ==
    ASSUME IInv, StreamRange
    PROVE  \E id, h : Moved(id, h)
<1> DEFINE m == Head(toClient)
           id == m.id
           f == [files[id] EXCEPT !.written = @ + 1]
           h == IF f.written >= f.size THEN [f EXCEPT !.done = TRUE] ELSE f
<1>1. /\ toClient # <<>> /\ m.type = "range" /\ toClient' = Tail(toClient)
      /\ id \in DOMAIN files
      /\ disk' = Write(f.path, f.written, m.ver)
      /\ IF f.written >= f.size
         THEN Finish(id, f) /\ UNCHANGED toServer
         ELSE /\ files' = [files EXCEPT ![id] = f]
              /\ toServer' = Append(toServer, Ask("range", id, None, f.index))
              /\ UNCHANGED <<urls, posted>>
      /\ UNCHANGED <<copies, slot, nextId, mac, seen, fails>>
  BY DEF StreamRange, Receive, Unknown
<1>2. /\ files[id] \in Streams /\ ~files[id].done /\ m.ver = seen
      /\ files[id].sized /\ files[id].written < files[id].size
      /\ files[id].size = copies[seen].sizes[files[id].index]
  BY <1>1, StreamFacts
<1>3. /\ f \in Streams /\ f.sized = TRUE /\ f.size = files[id].size /\ ~f.done
      /\ f.written = files[id].written + 1 /\ f.written <= f.size
      /\ f.written \in Nat /\ f.size \in Nat
      /\ f.path = files[id].path /\ f.index = files[id].index /\ f.ver = files[id].ver
  BY <1>2 DEF Streams
<1> HIDE DEF f
<1>4. /\ h \in Streams /\ h.sized = TRUE /\ h.size = f.size /\ h.written = f.written
      /\ h.path = f.path /\ h.index = f.index /\ h.ver = f.ver
      /\ h.done <=> f.written >= f.size
  BY <1>3 DEF Streams
<1>5. f.written >= f.size => h = [f EXCEPT !.done = TRUE]
  OBVIOUS
<1>6. ~(f.written >= f.size) => h = f
  OBVIOUS
<1> HIDE DEF h, id
<1>7. MovedDisk(id, h)
  BY <1>1, <1>2, <1>3, <1>4 DEF MovedDisk
<1>8. Table(id, h)[id] = h /\ DOMAIN Table(id, h) = DOMAIN files
  BY <1>1 DEF Table
<1>9. IF AllDone(Table(id, h))
      THEN /\ files' = <<>> /\ urls' = <<>>
           /\ posted' = Append(posted, Received(Complete(id, h), seen))
      ELSE /\ files' = Table(id, h) /\ urls' = Complete(id, h)
           /\ UNCHANGED posted
  <2>1. CASE f.written >= f.size
    <3>1. Finish(id, f) /\ Table(id, h) = [files EXCEPT ![id] = [f EXCEPT !.done = TRUE]]
      BY <1>1, <1>5, <2>1 DEF Table
    <3>2. Complete(id, h) = Append(urls, f.path)
      BY <1>4, <2>1 DEF Complete
    <3>3. QED
      BY <3>1, <3>2 DEF Finish, AllDone
  <2>2. CASE ~(f.written >= f.size)
    <3>1. ~AllDone(Table(id, h))
      BY <1>1, <1>4, <1>8, <2>2 DEF AllDone
    <3>2. QED
      BY <1>1, <1>4, <1>6, <2>2, <3>1 DEF Table, Complete
  <2>3. QED
    BY <2>1, <2>2
<1>10. toServer' = IF h.done THEN toServer
                   ELSE Append(toServer, Ask("range", id, None, h.index))
  BY <1>1, <1>4
<1>11. h.done <=> h.written = h.size
  BY <1>3, <1>4
<1>12. Moved(id, h)
  BY <1>1, <1>2, <1>3, <1>4, <1>7, <1>9, <1>10, <1>11 DEF Moved, id
<1>13. QED
  BY <1>12

LEMMA StallMoves ==
    ASSUME IInv, RangeStalls
    PROVE  \E id, h : Moved(id, h)
<1> DEFINE m == Head(toClient)
           id == m.id
           h == files[id]
<1>1. /\ toClient # <<>> /\ m.type = "range" /\ toClient' = Tail(toClient)
      /\ id \in DOMAIN files
      /\ toServer' = Append(toServer, Ask("range", id, None, h.index))
      /\ UNCHANGED <<copies, slot, files, nextId, urls, disk, posted, mac, seen, fails>>
  BY DEF RangeStalls, Receive, Unknown, fileVars
<1>2. /\ h \in Streams /\ ~h.done /\ h.sized /\ h.written < h.size
      /\ h.size = copies[seen].sizes[h.index]
  BY <1>1, StreamFacts
<1>3. h.written \in Nat /\ h.size \in Nat
  BY <1>2 DEF Streams
<1>4. files \in [DOMAIN files -> Streams]
  BY DEF IInv, WiresTyped
<1> HIDE DEF id
<1>5. Table(id, h) = files /\ Complete(id, h) = urls
  BY <1>1, <1>2, <1>4 DEF Table, Complete
<1>6. ~AllDone(Table(id, h))
  BY <1>1, <1>2, <1>5 DEF AllDone
<1>7. MovedDisk(id, h)
  BY <1>1, <1>2 DEF MovedDisk
<1>8. Moved(id, h)
  BY <1>1, <1>2, <1>3, <1>5, <1>6, <1>7 DEF Moved, id
<1>9. QED
  BY <1>8

\* What the steps of a client's thread are.
LEMMA ClientSteps ==
    ASSUME IInv, Client
    PROVE  FormatList \/ Skip \/ DataResponse \/ FileList \/ Dropped
           \/ \E id, h : Moved(id, h)
<1> DEFINE m == Head(toClient)
<1>0. toClient # <<>> /\ m.type \notin {"list"} /\ m.id = 0 => m.id \notin DOMAIN files
  BY DEF IInv, TypeOK
<1>a. ASSUME toClient # <<>>
      PROVE  m.id # 0 <=> m.type \notin {"list", "data"}
  BY <1>a, HeadFacts DEF IInv, WiresTyped
<1>1. CASE FormatList \/ DataResponse \/ FileList
  BY <1>1
<1>2. CASE DataFailed \/ FileListUnparsed
  <2>1. /\ toClient # <<>> /\ m.type = "data" /\ toClient' = Tail(toClient)
        /\ m.fmt = None \/ (slot = "files" /\ m.fmt # "files")
        /\ UNCHANGED <<serverVars, slot, fileVars, posted, mac, seen, fails>>
    BY <1>2 DEF DataFailed, FileListUnparsed, Receive
  <2>2. QED
    BY <2>1, <1>0, <1>a DEF Skip
<1>3. CASE UnknownStream
  <2>1. /\ toClient # <<>> /\ m.type \in {"size", "range", "fail"}
        /\ toClient' = Tail(toClient) /\ m.id \notin DOMAIN files
        /\ UNCHANGED <<serverVars, slot, fileVars, posted, mac, seen, fails>>
    BY <1>3 DEF UnknownStream, Receive, Unknown
  <2>2. QED
    BY <2>1 DEF Skip
<1>4. CASE StreamFailed
  <2>1. /\ toClient # <<>> /\ m.type = "fail" /\ toClient' = Tail(toClient)
        /\ m.id \in DOMAIN files /\ Erase(m.id) /\ fails' = fails
        /\ UNCHANGED <<serverVars, slot, nextId, urls, disk, posted, mac, seen>>
    BY <1>4 DEF StreamFailed, Receive, Unknown
  <2>2. fails > 0 /\ fails \in 0..MaxFails /\ MaxFails \in Nat
    BY <2>1, StreamFacts, ClipAssumption DEF IInv, TypeOK, ClipAssumption
  <2>3. QED
    BY <2>1, <2>2 DEF Dropped
<1>5. CASE CreateFails
  <2>1. /\ toClient # <<>> /\ m.type = "size" /\ toClient' = Tail(toClient)
        /\ m.id \in DOMAIN files /\ Erase(m.id)
        /\ fails < MaxFails /\ fails' = fails + 1
        /\ UNCHANGED <<serverVars, slot, nextId, urls, disk, posted, mac, seen>>
    BY <1>5 DEF CreateFails, Receive, Unknown
  <2>2. fails \in 0..MaxFails /\ MaxFails \in Nat
    BY ClipAssumption DEF IInv, TypeOK, ClipAssumption
  <2>3. QED
    BY <2>1, <2>2 DEF Dropped
<1>6. CASE StreamSized
  BY <1>6, SizedMoves
<1>7. CASE StreamRange
  BY <1>7, RangeMoves
<1>8. CASE RangeStalls
  BY <1>8, StallMoves
<1>9. QED
  BY <1>1, <1>2, <1>3, <1>4, <1>5, <1>6, <1>7, <1>8 DEF Client
-----------------------------------------------------------------------------
(* What the steps do to messages and tables.                               *)

\* The numbers that everything else is bounded by.
LEMMA Numbers ==
    ASSUME TypeOK
    PROVE  /\ Current \in Nat /\ Current \in Versions /\ MaxCopies \in Nat
           /\ seen \in Versions /\ seen \in Nat /\ Hole \in Versions
           /\ fails \in Nat /\ nextId \in Nat /\ MaxFails \in Nat
           /\ \A v \in 1..Current : v \in Versions
           /\ Len(Path) \in Nat /\ DOMAIN Path = 1..Len(Path)
           /\ \A i \in DOMAIN Path : Path[i] \in Paths
           /\ copies \in Seq(Offers) /\ Len(copies) = Current
           /\ DOMAIN copies = 1..Current
  BY ClipAssumption DEF TypeOK, ClipAssumption, Versions, Current, Hole, Paths

\* A new copy leaves the earlier ones what they were.
LEMMA CopyMade ==
    ASSUME TypeOK, NEW o \in Offers, Copy(o)
    PROVE  /\ copies' \in Seq(Offers) /\ Current' = Current + 1
           /\ Current' <= MaxCopies
           /\ \A v \in 1..Current : copies'[v] = copies[v]
           /\ copies'[Current + 1] = o
<1>1. copies' = Append(copies, o) /\ Current < MaxCopies
  BY DEF Copy
<1>2. Current \in Nat /\ copies \in Seq(Offers) /\ Len(copies) = Current
  BY Numbers
<1>3. QED
  BY <1>1, <1>2, Posted, Numbers DEF Current

\* What the server answers.
LEMMA AnswerFacts ==
    ASSUME TypeOK, WiresTyped, NEW r \in Requests, Current > 0,
           r.id # 0 <=> r.type # "data",
           NEW a \in {Answer(r), Failure(r)}
    PROVE  /\ a \in Messages /\ a.ver = Current /\ a.id = r.id
           /\ r.type = "data" => /\ a.type = "data"
                                 /\ a.fmt # None => a.fmt \in copies[Current].fmts
           /\ r.type # "data" => a.type \in {r.type, "fail"}
           /\ r.type # "data" /\ a.type # "fail" => a.n = copies[Current].sizes[r.n]
<1> DEFINE now == copies[Current]
<1>1. Current \in 1..Current /\ Current \in Nat
  BY Numbers
<1>2. now.sizes \in Seq(Nat)
  BY <1>1, CopyFacts DEF TypeOK
<1>3. /\ r.type \in {"data", "size", "range"} /\ r.id \in Nat /\ r.fmt \in LocalFormats
      /\ None \in LocalFormats
  BY DEF Requests, LocalFormats
<1>4. CASE a = Failure(r)
  <2>1. CASE r.type = "data"
    <3>1. a = Msg("data", r.id, None, Current, 0)
      BY <1>4, <2>1 DEF Failure
    <3>2. QED
      BY <3>1, <2>1, <1>1, <1>3 DEF Msg, Messages, LocalFormats, Requests
  <2>2. CASE r.type # "data"
    <3>1. a = Msg("fail", r.id, None, Current, 0)
      BY <1>4, <2>2 DEF Failure
    <3>2. QED
      BY <3>1, <2>2, <1>1, <1>3 DEF Msg, Messages, Requests
  <2>3. QED
    BY <2>1, <2>2
<1>5. CASE a = Answer(r)
  <2>1. CASE r.type = "data"
    <3>1. a = Msg("data", 0, IF r.fmt \in now.fmts THEN r.fmt ELSE None, Current, 0)
      BY <1>5, <2>1 DEF Answer
    <3>2. QED
      BY <3>1, <2>1, <1>1, <1>3 DEF Msg, Messages, LocalFormats, Requests
  <2>2. CASE r.type # "data" /\ r.n \notin DOMAIN now.sizes
    <3>1. a = Msg("fail", r.id, None, Current, 0)
      BY <1>5, <2>2 DEF Answer
    <3>2. QED
      BY <3>1, <2>2, <1>1, <1>3 DEF Msg, Messages, Requests
  <2>3. CASE r.type # "data" /\ r.n \in DOMAIN now.sizes
    <3>1. a = Msg(r.type, r.id, None, Current, now.sizes[r.n])
      BY <1>5, <2>3 DEF Answer
    <3>2. now.sizes[r.n] \in Nat
      BY <1>2, <2>3
    <3>3. QED
      BY <3>1, <3>2, <2>3, <1>1, <1>3 DEF Msg, Messages, Requests
  <2>4. QED
    BY <2>1, <2>2, <2>3
<1>6. QED
  BY <1>4, <1>5

\* It answers what it can.
LEMMA AnswersWell ==
    ASSUME NEW r
    PROVE  /\ r.type = "data" /\ r.fmt \in copies[Current].fmts =>
                 Answer(r).fmt = r.fmt
           /\ r.type # "data" /\ r.n \in DOMAIN copies[Current].sizes =>
                 Answer(r).type = r.type
  BY DEF Answer, Msg

\* What is the same in an answer to r and in a failure.
AnswerTo(r, a) ==
    /\ a.ver = Current /\ a.id = r.id
    /\ r.type = "data" =>
          a.type = "data" /\ (a.fmt # None => a.fmt \in copies[Current].fmts)
    /\ r.type # "data" => a.type \in {r.type, "fail"}
    /\ r.type # "data" /\ a.type # "fail" => a.n = copies[Current].sizes[r.n]

\* A response: request i is taken out and its answer sent, or a failure.
LEMMA RespondFacts ==
    ASSUME IInv, NEW i \in DOMAIN toServer, Respond(i)
    PROVE  /\ Current > 0 /\ fails' \in fails..MaxFails
           /\ \E a \in Messages :
                 /\ toClient' = Append(toClient, a) /\ AnswerTo(toServer[i], a)
                 /\ a = Answer(toServer[i]) \/ fails' > 0
<1> DEFINE r == toServer[i]
<1>1. r \in Requests /\ Current > 0 /\ (r.id # 0 <=> r.type # "data")
  BY DEF IInv, WiresTyped
<1>2. fails \in 0..MaxFails /\ MaxFails \in Nat
  BY ClipAssumption DEF IInv, TypeOK, ClipAssumption
<1>3. PICK a \in {Answer(r), Failure(r)} :
          /\ toClient' = Append(toClient, a)
          /\ \/ a = Answer(r) /\ fails' = fails
             \/ fails < MaxFails /\ fails' = fails + 1
  BY DEF Respond
<1>4. fails' \in fails..MaxFails /\ (a = Answer(r) \/ fails' > 0)
  BY <1>2, <1>3
<1> HIDE DEF r
<1>5. /\ a \in Messages /\ a.ver = Current /\ a.id = r.id
      /\ r.type = "data" => /\ a.type = "data"
                            /\ a.fmt # None => a.fmt \in copies[Current].fmts
      /\ r.type # "data" => a.type \in {r.type, "fail"}
      /\ r.type # "data" /\ a.type # "fail" => a.n = copies[Current].sizes[r.n]
  BY <1>1, AnswerFacts DEF IInv
<1>6. QED
  BY <1>1, <1>2, <1>3, <1>4, <1>5 DEF r, AnswerTo

\* The requests that are left.
LEMMA RespondLeft ==
    ASSUME IInv, NEW i \in DOMAIN toServer, Respond(i)
    PROVE  /\ toServer' \in Seq(Requests) /\ Len(toServer') = Len(toServer) - 1
           /\ DOMAIN toServer' = 1..(Len(toServer) - 1)
           /\ \A j \in DOMAIN toServer' :
                 /\ toServer'[j] = toServer[Past(i, j)]
                 /\ Past(i, j) \in DOMAIN toServer \ {i}
           /\ \A j, k \in DOMAIN toServer' : j < k <=> Past(i, j) < Past(i, k)
           /\ \A k \in DOMAIN toServer \ {i} : \E j \in DOMAIN toServer' : Past(i, j) = k
           /\ toServer # <<>>
<1>1. toServer' = Without(toServer, i)
  BY DEF Respond, Without
<1>2. toServer \in Seq(Requests)
  BY DEF IInv, WiresTyped
<1>3. toServer # <<>>
  BY <1>2, EmptyTable
<1>4. /\ Without(toServer, i) \in Seq(Requests)
      /\ Len(Without(toServer, i)) = Len(toServer) - 1
      /\ DOMAIN Without(toServer, i) = 1..(Len(toServer) - 1)
  BY <1>2, Removed
<1>5. \A j \in 1..(Len(toServer) - 1) :
          /\ Without(toServer, i)[j] = toServer[Past(i, j)]
          /\ Past(i, j) \in DOMAIN toServer \ {i}
  BY <1>2, Removed
<1>6. \A j, k \in 1..(Len(toServer) - 1) : j < k <=> Past(i, j) < Past(i, k)
  BY <1>2, Removed
<1>7. \A k \in DOMAIN toServer \ {i} :
          \E j \in 1..(Len(toServer) - 1) : Past(i, j) = k
  BY <1>2, Removed
<1>8. QED
  BY <1>1, <1>3, <1>4, <1>5, <1>6, <1>7

\* What is written to a file, and what is in it then.
LEMMA MovedFacts ==
    ASSUME IInv, NEW id, NEW h, Moved(id, h)
    PROVE  /\ Table(id, h) \in [DOMAIN files -> Streams]
           /\ DOMAIN Table(id, h) = DOMAIN files
           /\ Table(id, h)[id] = h
           /\ \A x \in DOMAIN files \ {id} : Table(id, h)[x] = files[x]
           /\ Complete(id, h) \in Seq(Paths)
           /\ files' = Table(id, h) \/ DOMAIN files' = {}
           /\ files' \in [DOMAIN files' -> Streams]
<1>1. id \in DOMAIN files /\ h \in Streams /\ files \in [DOMAIN files -> Streams]
  BY DEF Moved, IInv, WiresTyped
<1>2. /\ Table(id, h) \in [DOMAIN files -> Streams]
      /\ DOMAIN Table(id, h) = DOMAIN files
      /\ Table(id, h)[id] = h
      /\ \A x \in DOMAIN files \ {id} : Table(id, h)[x] = files[x]
  BY <1>1, Updated DEF Table
<1>3. h.path \in Paths /\ urls \in Seq(Paths)
  BY <1>1 DEF Streams, IInv, TypeOK
<1>4. Complete(id, h) \in Seq(Paths)
  BY <1>3, Posted DEF Complete
<1>5. files' = Table(id, h) \/ files' = <<>>
  BY DEF Moved
<1>6. /\ files' \in [DOMAIN files' -> Streams]
      /\ files' = Table(id, h) \/ DOMAIN files' = {}
  BY <1>2, <1>5, EmptyTable
<1>7. QED
  BY <1>2, <1>4, <1>6

LEMMA MovedWrites ==
    ASSUME IInv, NEW id, NEW h, Moved(id, h)
    PROVE  /\ h.path \in Paths /\ disk' \in [Paths -> Seq(Versions)]
           /\ \A p \in Paths \ {h.path} : disk'[p] = disk[p]
           /\ \/ h.written = 0 /\ disk'[h.path] = <<>>
              \/ /\ files[id].sized /\ h.written = files[id].written
                 /\ UNCHANGED disk
              \/ /\ files[id].sized /\ h.written = files[id].written + 1
                 /\ Len(disk'[h.path]) = IF h.written > Len(disk[h.path])
                                        THEN h.written ELSE Len(disk[h.path])
                 /\ DOMAIN disk'[h.path] = 1..Len(disk'[h.path])
                 /\ DOMAIN disk[h.path] = 1..Len(disk[h.path])
                 /\ Len(disk[h.path]) \in Nat
                 /\ \A k \in DOMAIN disk'[h.path] :
                       disk'[h.path][k] = IF k = h.written THEN seen
                                          ELSE IF k \in DOMAIN disk[h.path]
                                               THEN disk[h.path][k] ELSE Hole
<1>1. id \in DOMAIN files /\ h \in Streams /\ files[id] \in Streams /\ MovedDisk(id, h)
  BY DEF Moved, IInv, WiresTyped
<1>2. h.path \in Paths /\ h.written \in Nat /\ files[id].written \in Nat
  BY <1>1 DEF Streams
<1>3. disk \in [Paths -> Seq(Versions)] /\ seen \in Versions /\ Hole \in Versions
  BY Numbers DEF IInv, TypeOK
<1> DEFINE old == disk[h.path]
<1>4. old \in Seq(Versions) /\ Len(old) \in Nat /\ DOMAIN old = 1..Len(old)
  BY <1>2, <1>3
<1>5. CASE h.written = 0 /\ disk' = [disk EXCEPT ![h.path] = <<>>]
  <2>1. <<>> \in Seq(Versions)
    OBVIOUS
  <2>2. QED
    BY <1>5, <1>2, <1>3, <2>1, Updated
<1>6. CASE /\ files[id].sized /\ h.written = files[id].written + 1
           /\ disk' = Write(h.path, h.written, seen)
  <2> DEFINE size == IF h.written > Len(old) THEN h.written ELSE Len(old)
             new == [k \in 1..size |-> IF k = h.written THEN seen
                                       ELSE IF k \in DOMAIN old THEN old[k] ELSE Hole]
  <2>1. disk' = [disk EXCEPT ![h.path] = new]
    BY <1>6 DEF Write
  <2>2. size \in Nat
    BY <1>2, <1>4
  <2>3. new \in [1..size -> Versions]
    BY <1>3, <1>4
  <2>4. new \in Seq(Versions) /\ Len(new) = size /\ DOMAIN new = 1..size
    <3> HIDE DEF new, size
    <3>1. QED
      BY <2>2, <2>3
  <2>5. \A k \in DOMAIN new :
            new[k] = IF k = h.written THEN seen
                     ELSE IF k \in DOMAIN old THEN old[k] ELSE Hole
    BY <2>4
  <2>6. size = IF h.written > Len(old) THEN h.written ELSE Len(old)
    OBVIOUS
  <2> HIDE DEF new, size
  <2>7. /\ disk' \in [Paths -> Seq(Versions)] /\ disk'[h.path] = new
        /\ \A p \in Paths \ {h.path} : disk'[p] = disk[p]
    BY <2>1, <2>4, <1>2, <1>3, Updated
  <2>8. QED
    BY <1>2, <1>4, <1>6, <2>4, <2>5, <2>6, <2>7
<1>7. CASE files[id].sized /\ h.written = files[id].written /\ UNCHANGED disk
  BY <1>2, <1>3, <1>7
<1>8. QED
  BY <1>1, <1>5, <1>6, <1>7 DEF MovedDisk
-----------------------------------------------------------------------------
(* A list handled, and a file list received.                               *)

LEMMA ListFacts ==
    ASSUME IInv, FormatList
    PROVE  /\ toClient # <<>> /\ toClient' = Tail(toClient)
           /\ Head(toClient).type = "list" /\ Head(toClient).ver = seen + 1
           /\ seen' = seen + 1 /\ seen' \in 1..Current
           /\ \/ /\ copies[seen'].fmts # {}
                 /\ slot' = Best(copies[seen'].fmts) /\ slot' \in Formats
                 /\ slot' \in copies[seen'].fmts
                 /\ toServer' = Append(toServer, Ask("data", 0, slot', 0))
              \/ copies[seen'].fmts = {} /\ UNCHANGED <<slot, toServer>>
           /\ files' = <<>> /\ DOMAIN files' = {} /\ urls' = <<>>
           /\ UNCHANGED <<copies, nextId, disk, posted, mac, fails>>
<1> DEFINE m == Head(toClient)
<1>1. /\ toClient # <<>> /\ toClient' = Tail(toClient) /\ m.type = "list"
      /\ seen' = m.ver
      /\ \/ /\ copies[m.ver].fmts # {} /\ slot' = Best(copies[m.ver].fmts)
            /\ toServer' = Append(toServer, Ask("data", 0, slot', 0))
         \/ copies[m.ver].fmts = {} /\ UNCHANGED <<slot, toServer>>
      /\ files' = <<>> /\ urls' = <<>>
      /\ UNCHANGED <<copies, nextId, disk, posted, mac, fails>>
  BY DEF FormatList, Request, Receive, ForgetStreams
<1>2. m.ver = seen + 1 /\ m.ver \in 1..Current
  BY <1>1, HeadFacts DEF IInv
<1>3. copies[m.ver].fmts # {} =>
          /\ Best(copies[m.ver].fmts) \in copies[m.ver].fmts
          /\ Best(copies[m.ver].fmts) \in Formats
  BY <1>2, CopyFacts DEF IInv, TypeOK
<1>4. DOMAIN files' = {}
  BY <1>1, EmptyTable
<1>5. QED
  BY <1>1, <1>2, <1>3, <1>4

\* The number of files of the list the channel's thread goes by, and the streams it
\* makes for them.
Count == Len(copies[seen].sizes)
NewStreams == nextId..(nextId + Count - 1)

LEMMA FileListFacts ==
    ASSUME IInv, FileList
    PROVE  /\ toClient # <<>> /\ toClient' = Tail(toClient) /\ slot = "files"
           /\ Head(toClient).type = "data" /\ Head(toClient).fmt = "files"
           /\ seen \in 1..Current /\ Count \in Nat \ {0}
           /\ DOMAIN copies[seen].sizes = 1..Count
           /\ DOMAIN files' = DOMAIN files \cup NewStreams
           /\ NewStreams \cap DOMAIN files = {}
           /\ \A id \in DOMAIN files : files'[id] = files[id]
           /\ \A id \in NewStreams :
                 /\ files'[id] \in Streams /\ files'[id].index = id - nextId + 1
                 /\ files'[id].index \in 1..Count
                 /\ files'[id].path = Path[files'[id].index]
                 /\ files'[id].ver = seen /\ ~files'[id].sized /\ ~files'[id].done
                 /\ files'[id].size = 0 /\ files'[id].written = 0
           /\ files' \in [DOMAIN files' -> Streams]
           /\ nextId' = nextId + Count
           /\ UNCHANGED <<copies, slot, urls, disk, posted, mac, seen, fails>>
<1> DEFINE m == Head(toClient)
           fresh(id) == [path |-> Path[id - nextId + 1], index |-> id - nextId + 1,
                         ver |-> seen, sized |-> FALSE, size |-> 0, written |-> 0,
                         done |-> FALSE]
<1>1. toClient # <<>> /\ m.type = "data" /\ m.fmt = "files" /\ slot = "files"
      /\ toClient' = Tail(toClient)
  BY DEF FileList, Receive
<1>2. m = toClient[1] /\ 1 \in DOMAIN toClient /\ m.ver = seen /\ seen \in 1..Current
  BY <1>1, HeadFacts DEF IInv
<1>3. m.fmt \in copies[seen].fmts
  <2>1. "files" # None
    BY ClipAssumption DEF ClipAssumption, Formats
  <2>2. QED
    BY <1>1, <1>2, <2>1 DEF IInv, WiresTyped
<1>4. /\ Count \in Nat \ {0} /\ Count <= Len(Path)
      /\ DOMAIN copies[seen].sizes = 1..Count
  <2>1. /\ copies[seen].sizes \in Seq(Nat) /\ copies[seen].sizes # <<>>
        /\ Count <= Len(Path)
    BY <1>1, <1>2, <1>3, CopyFacts DEF IInv, TypeOK, Count
  <2>2. QED
    BY <2>1 DEF Count
<1>5. /\ files' = [id \in DOMAIN files \cup NewStreams |->
                       IF id \in NewStreams THEN fresh(id) ELSE files[id]]
      /\ nextId' = nextId + Count
      /\ UNCHANGED <<copies, slot, urls, disk, posted, mac, seen, fails>>
  BY <1>2 DEF FileList, Count, NewStreams
<1>6. nextId \in Nat \ {0} /\ NewStreams \cap DOMAIN files = {}
  BY <1>4 DEF IInv, TypeOK, NewStreams
<1>7. ASSUME NEW id \in NewStreams
      PROVE  /\ fresh(id) \in Streams /\ fresh(id).index = id - nextId + 1
             /\ fresh(id).index \in 1..Count
             /\ fresh(id).path = Path[fresh(id).index]
             /\ fresh(id).ver = seen /\ ~fresh(id).sized /\ ~fresh(id).done
             /\ fresh(id).size = 0 /\ fresh(id).written = 0
  <2>1. id - nextId + 1 \in 1..Count
    BY <1>4, <1>6, <1>7 DEF NewStreams
  <2>2. id - nextId + 1 \in DOMAIN Path /\ Path[id - nextId + 1] \in Paths
    BY <2>1, <1>4, Numbers DEF IInv
  <2>3. seen \in Nat
    BY Numbers DEF IInv
  <2>4. QED
    BY <2>1, <2>2, <2>3 DEF Streams
<1> HIDE DEF fresh
<1>8. /\ DOMAIN files' = DOMAIN files \cup NewStreams
      /\ \A id \in DOMAIN files : files'[id] = files[id]
      /\ \A id \in NewStreams : files'[id] = fresh(id)
  BY <1>5, <1>6
<1>9. files' \in [DOMAIN files' -> Streams]
  <2>1. \A id \in DOMAIN files : files[id] \in Streams
    BY DEF IInv, WiresTyped
  <2>2. QED
    BY <1>5, <1>7, <2>1
<1>10. QED
  BY <1>1, <1>2, <1>4, <1>5, <1>6, <1>7, <1>8, <1>9

\* Each new stream asks for the size of its file.
LEMMA FileListAsks ==
    ASSUME IInv, FileList
    PROVE  /\ toServer' \in Seq(Requests) /\ Len(toServer) \in Nat
           /\ DOMAIN toServer = 1..Len(toServer)
           /\ DOMAIN toServer' = 1..(Len(toServer) + Count)
           /\ Len(toServer') = Len(toServer) + Count
           /\ \A i \in DOMAIN toServer : toServer'[i] = toServer[i]
           /\ \A i \in 1..Count :
                 toServer'[Len(toServer) + i] = Ask("size", nextId + i - 1, None, i)
           /\ \A i \in 1..Count :
                 /\ Ask("size", nextId + i - 1, None, i) \in Requests
                 /\ Ask("size", nextId + i - 1, None, i).id = nextId + i - 1
                 /\ Ask("size", nextId + i - 1, None, i).type = "size"
                 /\ Ask("size", nextId + i - 1, None, i).n = i
           /\ \A j \in DOMAIN toServer' \ DOMAIN toServer :
                 \E i \in 1..Count : j = Len(toServer) + i
<1> DEFINE asks == [i \in 1..Count |-> Ask("size", nextId + i - 1, None, i)]
<1>1. Head(toClient).ver = seen /\ Count \in Nat \ {0}
  BY FileListFacts, HeadFacts DEF IInv
<1>2. toServer' = toServer \o asks
  BY <1>1 DEF FileList, Count
<1>3. nextId \in Nat \ {0} /\ toServer \in Seq(Requests)
  BY DEF IInv, TypeOK, WiresTyped
<1>4. None \in LocalFormats
  BY DEF LocalFormats
<1>5. ASSUME NEW i \in 1..Count
      PROVE  /\ Ask("size", nextId + i - 1, None, i) \in Requests
             /\ Ask("size", nextId + i - 1, None, i).id = nextId + i - 1
             /\ Ask("size", nextId + i - 1, None, i).type = "size"
             /\ Ask("size", nextId + i - 1, None, i).n = i
  <2>1. nextId + i - 1 \in Nat /\ i \in Nat
    BY <1>1, <1>3
  <2>2. QED
    BY <2>1, <1>4 DEF Ask, Msg, Requests
<1>6. asks \in Seq(Requests) /\ Len(asks) = Count
  <2>1. asks \in [1..Count -> Requests]
    BY <1>5
  <2> HIDE DEF asks
  <2>2. QED
    BY <2>1, <1>1
<1>7. \A i \in 1..Count : asks[i] = Ask("size", nextId + i - 1, None, i)
  OBVIOUS
<1> HIDE DEF asks
<1>8. /\ toServer \o asks \in Seq(Requests)
      /\ Len(toServer \o asks) = Len(toServer) + Len(asks)
      /\ \A i \in 1..Len(toServer) : (toServer \o asks)[i] = toServer[i]
      /\ \A i \in 1..Len(asks) : (toServer \o asks)[Len(toServer) + i] = asks[i]
  <2>1. /\ toServer \o asks \in Seq(Requests)
        /\ Len(toServer \o asks) = Len(toServer) + Len(asks)
    BY <1>3, <1>6, ConcatProperties
  <2>2. Len(toServer) \in Nat
    BY <1>3
  <2>3. ASSUME NEW i \in 1..Len(asks)
        PROVE  (toServer \o asks)[Len(toServer) + i] = asks[i]
    <3>1. /\ Len(toServer) + i \in 1..(Len(toServer) + Len(asks))
          /\ Len(toServer) + i > Len(toServer)
      BY <1>1, <1>6, <2>2, <2>3
    <3>2. (Len(toServer) + i) - Len(toServer) = i
      BY <2>2, <2>3
    <3>3. QED
      BY <1>3, <1>6, <3>1, <3>2, ConcatProperties
  <2>4. \A i \in 1..Len(toServer) : (toServer \o asks)[i] = toServer[i]
    BY <1>3, <1>6, ConcatProperties
  <2>5. QED
    BY <2>1, <2>3, <2>4
<1>9. Len(toServer) \in Nat /\ DOMAIN toServer = 1..Len(toServer)
  BY <1>3
<1>10. DOMAIN toServer' = 1..Len(toServer')
  BY <1>2, <1>8
<1>11. ASSUME NEW j \in DOMAIN toServer' \ DOMAIN toServer
       PROVE  \E i \in 1..Count : j = Len(toServer) + i
  <2>1. j - Len(toServer) \in 1..Count /\ j = Len(toServer) + (j - Len(toServer))
    BY <1>2, <1>6, <1>8, <1>9, <1>10, <1>1
  <2>2. QED
    BY <2>1
<1>12. QED
  BY <1>2, <1>5, <1>6, <1>7, <1>8, <1>9, <1>10, <1>11
-----------------------------------------------------------------------------
(* Types.                                                                  *)

LEMMA Taken ==
    ASSUME WiresTyped, toClient # <<>>, toClient' = Tail(toClient)
    PROVE  /\ toClient' \in Seq(Messages) /\ Len(toClient) \in Nat \ {0}
           /\ DOMAIN toClient = 1..Len(toClient) /\ Len(toClient') = Len(toClient) - 1
           /\ DOMAIN toClient' = 1..(Len(toClient) - 1)
           /\ \A i \in DOMAIN toClient' :
                 toClient'[i] = toClient[i + 1] /\ i + 1 \in DOMAIN toClient
           /\ Head(toClient) = toClient[1] /\ 1 \in DOMAIN toClient
<1>1. toClient \in Seq(Messages)
  BY DEF WiresTyped
<1>2. QED
  BY <1>1, Drained

LEMMA Sent ==
    ASSUME WiresTyped, NEW a \in Messages, toClient' = Append(toClient, a)
    PROVE  /\ toClient' \in Seq(Messages) /\ Len(toClient) \in Nat
           /\ DOMAIN toClient = 1..Len(toClient) /\ Len(toClient') = Len(toClient) + 1
           /\ DOMAIN toClient' = 1..(Len(toClient) + 1)
           /\ \A i \in DOMAIN toClient : toClient'[i] = toClient[i]
           /\ toClient'[Len(toClient) + 1] = a /\ toClient' # <<>>
<1>1. toClient \in Seq(Messages)
  BY DEF WiresTyped
<1>2. QED
  BY <1>1, Posted

LEMMA Requested ==
    ASSUME WiresTyped, NEW r \in Requests, toServer' = Append(toServer, r)
    PROVE  /\ toServer' \in Seq(Requests) /\ Len(toServer) \in Nat
           /\ DOMAIN toServer = 1..Len(toServer) /\ Len(toServer') = Len(toServer) + 1
           /\ DOMAIN toServer' = 1..(Len(toServer) + 1)
           /\ \A i \in DOMAIN toServer : toServer'[i] = toServer[i]
           /\ toServer'[Len(toServer) + 1] = r /\ toServer' # <<>>
<1>1. toServer \in Seq(Requests)
  BY DEF WiresTyped
<1>2. QED
  BY <1>1, Posted

\* The type of what the client keeps in a table, the parts of TypeOK.
TableTyped ==
    /\ \A id \in DOMAIN files :
          /\ id \in 1..(nextId - 1)
          /\ files[id].path \in Paths
          /\ files[id].ver \in 1..Current
          /\ files[id].written \in 0..files[id].size
          /\ files[id].done => files[id].written = files[id].size
    /\ \A i \in DOMAIN toServer : toServer[i].id < nextId
    /\ nextId \in Nat \ {0}
RestTyped ==
    /\ copies \in Seq(Offers) /\ Len(copies) <= MaxCopies
    /\ slot \in Formats \cup {None}
    /\ urls \in Seq(Paths)
    /\ disk \in [Paths -> Seq(Versions)]
    /\ posted \in Seq(Clipboards) /\ mac \in Clipboards
    /\ seen \in 0..Current
    /\ fails \in 0..MaxFails

LEMMA TypeParts == TypeOK <=> TableTyped /\ RestTyped
  BY DEF TypeOK, TableTyped, RestTyped

\* The clipboards that are posted.
LEMMA ClipboardTypes ==
    ASSUME TypeOK
    PROVE  /\ \A fmt, real \in LocalFormats, ver \in Versions :
                 /\ Pasted(fmt, real, ver) \in Clipboards
                 /\ Pasted(fmt, real, ver).fmt = fmt
                 /\ Pasted(fmt, real, ver).real = real
                 /\ Pasted(fmt, real, ver).ver = ver
           /\ \A us \in Seq(Paths), ver \in Versions :
                 /\ Received(us, ver) \in Clipboards
                 /\ Received(us, ver).fmt = "files" /\ Received(us, ver).real = "files"
                 /\ Received(us, ver).ver = ver /\ Received(us, ver).urls = us
<1>1. <<>> \in Seq(Paths) /\ "files" \in Formats
  BY DEF Formats
<1>2. QED
  BY <1>1 DEF Pasted, Received, Clipboards, LocalFormats

\* The initial state is of its type.
LEMMA InitTyped == Init => TypeOK /\ WiresTyped
<1> SUFFICES ASSUME Init
             PROVE  TypeOK /\ WiresTyped
  OBVIOUS
<1>1. /\ copies = <<>> /\ toServer = <<>> /\ toClient = <<>> /\ slot = None
      /\ files = <<>> /\ nextId = 1 /\ urls = <<>>
      /\ disk = [p \in Paths |-> <<>>] /\ posted = <<>>
      /\ mac = Pasted(None, None, 0) /\ seen = 0 /\ fails = 0
  BY DEF Init
<1>2. DOMAIN files = {} /\ DOMAIN toServer = {} /\ DOMAIN toClient = {}
  BY <1>1, EmptyTable
<1>3. files \in [DOMAIN files -> Streams]
  BY <1>1, EmptyTable
<1>4. mac \in Clipboards
  <2>1. 0 \in Versions /\ <<>> \in Seq(Paths)
    BY ClipAssumption DEF ClipAssumption, Versions
  <2>2. QED
    BY <1>1, <2>1 DEF Pasted, Clipboards
<1>5. RestTyped
  <2>1. disk \in [Paths -> Seq(Versions)]
    <3>1. <<>> \in Seq(Versions)
      OBVIOUS
    <3>2. QED
      BY <1>1, <3>1
  <2>2. /\ copies \in Seq(Offers) /\ Len(copies) = 0 /\ posted \in Seq(Clipboards)
        /\ urls \in Seq(Paths)
    BY <1>1
  <2>3. MaxCopies \in Nat /\ MaxFails \in Nat
    BY ClipAssumption DEF ClipAssumption
  <2>4. QED
    BY <1>1, <1>4, <2>1, <2>2, <2>3 DEF RestTyped, Current
<1>6. TableTyped
  BY <1>1, <1>2 DEF TableTyped
<1>7. WiresTyped
  BY <1>1, <1>2, <1>3 DEF WiresTyped
<1>8. QED
  BY <1>5, <1>6, <1>7, TypeParts

LEMMA RestStep ==
    ASSUME IInv, [Next]_vars
    PROVE  RestTyped'
<1>1. RestTyped /\ TypeOK
  BY TypeParts DEF IInv
<1>2. /\ Current \in Nat /\ Current <= MaxCopies /\ MaxCopies \in Nat
      /\ seen \in Versions
  BY <1>1, Numbers DEF RestTyped, Current
<1>3. ASSUME NEW o \in Offers, Copy(o)
      PROVE  RestTyped'
  <2>1. /\ copies' \in Seq(Offers) /\ Current' = Current + 1 /\ Current' <= MaxCopies
    BY <1>1, <1>3, CopyMade
  <2>2. Len(copies') <= MaxCopies /\ seen \in 0..Current'
    BY <1>1, <1>2, <2>1 DEF Current, RestTyped
  <2>3. QED
    BY <1>1, <1>3, <2>1, <2>2 DEF RestTyped, Copy, fileVars
<1>4. ASSUME NEW i \in DOMAIN toServer, Respond(i)
      PROVE  RestTyped'
  <2>1. fails' \in fails..MaxFails
    BY <1>4, RespondFacts
  <2>2. fails' \in 0..MaxFails
    BY <1>1, <2>1 DEF RestTyped
  <2>3. QED
    BY <1>1, <1>4, <2>2 DEF RestTyped, Respond, fileVars, Current
<1>5. CASE FormatList
  <2>1. /\ seen' \in 1..Current /\ slot' \in Formats \cup {slot} /\ urls' = <<>>
        /\ UNCHANGED <<copies, nextId, disk, posted, mac, fails>>
    BY <1>5, ListFacts
  <2>2. urls' \in Seq(Paths) /\ Current' = Current
    BY <2>1 DEF Current
  <2>3. QED
    BY <1>1, <2>1, <2>2 DEF RestTyped
<1>6. CASE Skip
  BY <1>1, <1>6 DEF RestTyped, Skip, fileVars, serverVars, Current
<1>7. CASE DataResponse
  <2>1. /\ toClient # <<>> /\ posted' = Append(posted,
                        Pasted(slot, Head(toClient).fmt, Head(toClient).ver))
        /\ UNCHANGED <<serverVars, slot, fileVars, mac, seen, fails>>
        /\ Head(toClient).type = "data"
    BY <1>7 DEF DataResponse, Receive
  <2>2. /\ Head(toClient).fmt \in LocalFormats /\ Head(toClient).ver = seen
        /\ slot \in LocalFormats
    BY <2>1, <1>1, HeadFacts DEF IInv, Messages, RestTyped, LocalFormats
  <2>3. posted' \in Seq(Clipboards)
    BY <1>1, <1>2, <2>1, <2>2, ClipboardTypes, Posted DEF RestTyped
  <2>4. QED
    BY <1>1, <2>1, <2>3 DEF RestTyped, serverVars, fileVars, Current
<1>8. CASE FileList
  BY <1>1, <1>8, FileListFacts DEF RestTyped, Current
<1>9. CASE Dropped
  <2>1. fails' \in 0..MaxFails
    BY <1>1, <1>9 DEF Dropped, RestTyped
  <2>2. QED
    BY <1>1, <1>9, <2>1 DEF RestTyped, Dropped, serverVars, Current
<1>10. ASSUME NEW id, NEW h, Moved(id, h)
       PROVE  RestTyped'
  <2>1. disk' \in [Paths -> Seq(Versions)]
    BY <1>10, MovedWrites
  <2>2. Complete(id, h) \in Seq(Paths)
    BY <1>10, MovedFacts
  <2>3. posted' \in Seq(Clipboards) /\ urls' \in Seq(Paths)
    <3>1. /\ posted' = posted \/ posted' = Append(posted, Received(Complete(id, h), seen))
          /\ urls' = <<>> \/ urls' = Complete(id, h)
      BY <1>10 DEF Moved
    <3>2. Received(Complete(id, h), seen) \in Clipboards
      BY <1>1, <1>2, <2>2, ClipboardTypes
    <3>3. <<>> \in Seq(Paths)
      OBVIOUS
    <3>4. /\ posted \in Seq(Clipboards)
          /\ Append(posted, Received(Complete(id, h), seen)) \in Seq(Clipboards)
      BY <1>1, <3>2 DEF RestTyped
    <3>5. QED
      BY <2>2, <3>1, <3>3, <3>4
  <2>4. QED
    BY <1>1, <1>10, <2>1, <2>3 DEF RestTyped, Moved, Current
<1>11. CASE SetClipboard
  <2>1. posted # <<>> /\ posted \in Seq(Clipboards)
    BY <1>1, <1>11 DEF SetClipboard, RestTyped
  <2>2. posted' \in Seq(Clipboards) /\ Head(posted) \in Clipboards
    BY <1>11, <2>1, Drained DEF SetClipboard
  <2>3. QED
    BY <1>1, <1>11, <2>2 DEF RestTyped, SetClipboard, serverVars, fileVars, Current
<1>12. CASE UNCHANGED vars
  BY <1>1, <1>12 DEF RestTyped, vars, Current
<1>13. QED
  BY <1>3, <1>4, <1>5, <1>6, <1>7, <1>8, <1>9, <1>10, <1>11, <1>12, ClientSteps
     DEF Next

LEMMA TableStep ==
    ASSUME IInv, [Next]_vars
    PROVE  TableTyped'
<1>1. TableTyped /\ TypeOK /\ WiresTyped
  BY TypeParts DEF IInv
<1>2. Current \in Nat /\ nextId \in Nat \ {0}
  BY <1>1, Numbers DEF TableTyped
<1>3. ASSUME NEW o \in Offers, Copy(o)
      PROVE  TableTyped'
  <2>1. Current' = Current + 1
    BY <1>1, <1>3, CopyMade
  <2>2. \A v \in 1..Current : v \in 1..Current'
    BY <1>2, <2>1
  <2>3. QED
    BY <1>1, <1>3, <2>2 DEF TableTyped, Copy, fileVars
<1>4. ASSUME NEW i \in DOMAIN toServer, Respond(i)
      PROVE  TableTyped'
  <2>1. \A j \in DOMAIN toServer' : toServer'[j].id < nextId
    BY <1>1, <1>4, RespondLeft DEF TableTyped
  <2>2. UNCHANGED <<copies, fileVars>>
    BY <1>4 DEF Respond
  <2>3. QED
    BY <1>1, <2>1, <2>2 DEF TableTyped, fileVars, Current
<1>5. CASE FormatList
  <2>1. /\ DOMAIN files' = {} /\ nextId' = nextId
        /\ \/ /\ slot' \in Formats
              /\ toServer' = Append(toServer, Ask("data", 0, slot', 0))
           \/ toServer' = toServer
    BY <1>5, ListFacts
  <2>2. slot' \in Formats => /\ Ask("data", 0, slot', 0) \in Requests
                            /\ Ask("data", 0, slot', 0).id = 0
    BY DEF Ask, Msg, Requests, LocalFormats
  <2>3. \A i \in DOMAIN toServer' : toServer'[i].id < nextId
    BY <1>1, <1>2, <2>1, <2>2, Requested DEF TableTyped
  <2>4. QED
    BY <1>1, <2>1, <2>3 DEF TableTyped
<1>6. CASE Skip
  BY <1>1, <1>6 DEF TableTyped, Skip, fileVars, serverVars, Current
<1>7. CASE DataResponse
  BY <1>1, <1>7 DEF TableTyped, DataResponse, fileVars, serverVars, Current
<1>8. CASE FileList
  <2>1. /\ seen \in 1..Current /\ Count \in Nat \ {0} /\ nextId' = nextId + Count
        /\ DOMAIN files' = DOMAIN files \cup NewStreams
        /\ \A id \in DOMAIN files : files'[id] = files[id]
        /\ \A id \in NewStreams :
              /\ files'[id] \in Streams /\ files'[id].ver = seen
              /\ ~files'[id].sized /\ ~files'[id].done
              /\ files'[id].size = 0 /\ files'[id].written = 0
        /\ copies' = copies
    BY <1>8, FileListFacts
  <2>2. \A id \in NewStreams : id \in 1..(nextId' - 1)
    BY <1>2, <2>1 DEF NewStreams
  <2>3. \A id \in DOMAIN files : id \in 1..(nextId' - 1)
    BY <1>1, <1>2, <2>1 DEF TableTyped
  <2>4. \A j \in DOMAIN toServer' : toServer'[j].id < nextId'
    <3>1. ASSUME NEW j \in DOMAIN toServer
          PROVE  toServer'[j].id < nextId'
      <4>1. toServer'[j] = toServer[j] /\ toServer[j].id < nextId
        BY <1>1, <1>8, FileListAsks DEF TableTyped
      <4>2. toServer \in Seq(Requests)
        BY <1>1 DEF WiresTyped
      <4>3. toServer[j] \in Requests
        BY <4>2
      <4>4. toServer[j].id \in Nat
        BY <4>3 DEF Requests
      <4>5. QED
        BY <1>2, <2>1, <4>1, <4>4
    <3>2. ASSUME NEW j \in DOMAIN toServer' \ DOMAIN toServer
          PROVE  toServer'[j].id < nextId'
      <4>1. PICK i \in 1..Count : toServer'[j].id = nextId + i - 1
        BY <1>8, FileListAsks
      <4>2. QED
        BY <1>2, <2>1, <4>1
    <3>3. QED
      BY <3>1, <3>2
  <2>5. \A id \in NewStreams : /\ files'[id].path \in Paths
                               /\ files'[id].written \in 0..files'[id].size
    BY <2>1 DEF Streams
  <2>6. nextId' \in Nat \ {0}
    BY <1>2, <2>1
  <2>7. QED
    BY <1>1, <2>1, <2>2, <2>3, <2>4, <2>5, <2>6 DEF TableTyped, Current
<1>9. CASE Dropped
  <2>1. /\ files' = [x \in DOMAIN files \ {Head(toClient).id} |-> files[x]]
        /\ UNCHANGED <<copies, toServer, nextId>>
    BY <1>9 DEF Dropped, Erase, serverVars
  <2>2. /\ DOMAIN files' \subseteq DOMAIN files
        /\ \A id \in DOMAIN files' : files'[id] = files[id]
    BY <2>1
  <2>3. QED
    BY <1>1, <2>1, <2>2 DEF TableTyped, Current
<1>10. ASSUME NEW id, NEW h, Moved(id, h)
       PROVE  TableTyped'
  <2>1. /\ id \in DOMAIN files /\ h \in Streams
        /\ h.path = files[id].path /\ h.index = files[id].index /\ h.ver = files[id].ver
        /\ h.written <= h.size /\ (h.done <=> h.written = h.size)
        /\ toServer' = IF h.done THEN toServer
                       ELSE Append(toServer, Ask("range", id, None, h.index))
        /\ UNCHANGED <<copies, nextId>>
    BY <1>10 DEF Moved
  <2>2. /\ files' = Table(id, h) \/ DOMAIN files' = {}
        /\ DOMAIN Table(id, h) = DOMAIN files /\ Table(id, h)[id] = h
        /\ \A x \in DOMAIN files \ {id} : Table(id, h)[x] = files[x]
    BY <1>10, MovedFacts
  <2>3. h.written \in 0..h.size
    BY <2>1 DEF Streams
  <2>4. \A i \in DOMAIN toServer' : toServer'[i].id < nextId
    <3>1. id \in Nat /\ id < nextId /\ h.index \in Nat
      <4>1. h.index \in DOMAIN Path
        BY <2>1 DEF Streams
      <4>2. QED
        BY <1>1, <1>2, <2>1, <4>1, Numbers DEF TableTyped
    <3>2. /\ Ask("range", id, None, h.index) \in Requests
          /\ Ask("range", id, None, h.index).id = id
      BY <3>1 DEF Ask, Msg, Requests, LocalFormats
    <3>3. QED
      BY <1>1, <2>1, <3>1, <3>2, Requested DEF TableTyped
  <2>5. \A x \in DOMAIN files :
            /\ x \in 1..(nextId - 1) /\ Table(id, h)[x].path \in Paths
            /\ Table(id, h)[x].ver \in 1..Current
            /\ Table(id, h)[x].written \in 0..Table(id, h)[x].size
            /\ Table(id, h)[x].done => Table(id, h)[x].written = Table(id, h)[x].size
    BY <1>1, <2>1, <2>2, <2>3 DEF TableTyped
  <2>6. QED
    BY <1>2, <2>1, <2>2, <2>4, <2>5 DEF TableTyped, Current
<1>11. CASE SetClipboard
  BY <1>1, <1>11 DEF TableTyped, SetClipboard, serverVars, fileVars, Current
<1>12. CASE UNCHANGED vars
  BY <1>1, <1>12 DEF TableTyped, vars, Current
<1>13. QED
  BY <1>3, <1>4, <1>5, <1>6, <1>7, <1>8, <1>9, <1>10, <1>11, <1>12, ClientSteps
     DEF Next

\* The parts of WiresTyped: requests, messages, streams.
RequestsTyped ==
    /\ toServer \in Seq(Requests)
    /\ toServer # <<>> => Current > 0
    /\ \A i \in DOMAIN toServer : toServer[i].id # 0 <=> toServer[i].type # "data"
MessagesTyped ==
    /\ toClient \in Seq(Messages)
    /\ \A i \in DOMAIN toClient :
          /\ toClient[i].id < nextId /\ toClient[i].ver \in 1..Current
          /\ toClient[i].id # 0 <=> toClient[i].type \notin {"list", "data"}
          /\ toClient[i].type = "data" /\ toClient[i].fmt # None =>
                toClient[i].fmt \in copies[toClient[i].ver].fmts
StreamsTyped == files \in [DOMAIN files -> Streams]

LEMMA WireParts == WiresTyped <=> RequestsTyped /\ MessagesTyped /\ StreamsTyped
  BY DEF WiresTyped, RequestsTyped, MessagesTyped, StreamsTyped

LEMMA RequestsStep ==
    ASSUME IInv, [Next]_vars
    PROVE  RequestsTyped'
<1>1. TypeOK /\ WiresTyped /\ RequestsTyped
  BY WireParts DEF IInv
<1>2. Current \in Nat /\ nextId \in Nat \ {0}
  BY <1>1, Numbers DEF TypeOK
<1>3. ASSUME NEW o \in Offers, Copy(o)
      PROVE  RequestsTyped'
  <2>1. Current' > 0
    BY <1>1, <1>2, <1>3, CopyMade
  <2>2. QED
    BY <1>1, <1>3, <2>1 DEF RequestsTyped, Copy
<1>4. ASSUME NEW i \in DOMAIN toServer, Respond(i)
      PROVE  RequestsTyped'
  <2>1. copies' = copies
    BY <1>4 DEF Respond
  <2>2. QED
    BY <1>1, <1>4, <2>1, RespondLeft DEF RequestsTyped, Current
<1>5. CASE FormatList
  <2>1. /\ seen' \in 1..Current /\ copies' = copies
        /\ \/ /\ slot' \in Formats
              /\ toServer' = Append(toServer, Ask("data", 0, slot', 0))
           \/ toServer' = toServer
    BY <1>5, ListFacts
  <2>2. slot' \in Formats =>
            /\ Ask("data", 0, slot', 0) \in Requests
            /\ Ask("data", 0, slot', 0).id = 0 /\ Ask("data", 0, slot', 0).type = "data"
    BY DEF Ask, Msg, Requests, LocalFormats
  <2>3. /\ toServer' \in Seq(Requests)
        /\ \A i \in DOMAIN toServer' : toServer'[i].id # 0 <=> toServer'[i].type # "data"
    BY <1>1, <2>1, <2>2, Requested DEF RequestsTyped
  <2>4. Current' = Current /\ Current > 0
    BY <1>2, <2>1 DEF Current
  <2>5. QED
    BY <2>3, <2>4 DEF RequestsTyped
<1>6. CASE Skip \/ Dropped \/ DataResponse \/ SetClipboard
  <2>1. UNCHANGED <<copies, toServer>>
    BY <1>6 DEF Skip, Dropped, DataResponse, SetClipboard, serverVars
  <2>2. QED
    BY <1>1, <2>1 DEF RequestsTyped, Current
<1>8. CASE FileList
  <2>1. seen \in 1..Current /\ copies' = copies
    BY <1>8, FileListFacts
  <2>2. \A j \in DOMAIN toServer' : toServer'[j].id # 0 <=> toServer'[j].type # "data"
    <3>1. ASSUME NEW j \in DOMAIN toServer
          PROVE  toServer'[j].id # 0 <=> toServer'[j].type # "data"
      BY <1>1, <1>8, FileListAsks DEF RequestsTyped
    <3>2. ASSUME NEW j \in DOMAIN toServer' \ DOMAIN toServer
          PROVE  toServer'[j].id # 0 <=> toServer'[j].type # "data"
      <4>1. PICK i \in 1..Count :
                toServer'[j].id = nextId + i - 1 /\ toServer'[j].type = "size"
        BY <1>8, FileListAsks
      <4>2. i \in Nat \ {0}
        BY <1>8, FileListFacts
      <4>3. QED
        BY <1>2, <4>1, <4>2
    <3>3. QED
      BY <3>1, <3>2
  <2>3. toServer' \in Seq(Requests)
    BY <1>8, FileListAsks
  <2>4. Current' = Current /\ Current > 0
    BY <1>2, <2>1 DEF Current
  <2>5. QED
    BY <2>2, <2>3, <2>4 DEF RequestsTyped
<1>10. ASSUME NEW id, NEW h, Moved(id, h)
       PROVE  RequestsTyped'
  <2>1. /\ id \in DOMAIN files /\ h \in Streams /\ toClient # <<>>
        /\ toServer' = IF h.done THEN toServer
                       ELSE Append(toServer, Ask("range", id, None, h.index))
        /\ copies' = copies
    BY <1>10 DEF Moved
  <2>2. id \in Nat \ {0} /\ h.index \in Nat
    <3>1. h.index \in DOMAIN Path
      BY <2>1 DEF Streams
    <3>2. QED
      BY <1>1, <1>2, <2>1, <3>1, Numbers DEF TypeOK
  <2>3. /\ Ask("range", id, None, h.index) \in Requests
        /\ Ask("range", id, None, h.index).id = id
        /\ Ask("range", id, None, h.index).type = "range"
    BY <2>2 DEF Ask, Msg, Requests, LocalFormats
  <2>4. /\ toServer' \in Seq(Requests)
        /\ \A i \in DOMAIN toServer' : toServer'[i].id # 0 <=> toServer'[i].type # "data"
    BY <1>1, <2>1, <2>2, <2>3, Requested DEF RequestsTyped
  <2>5. Current' = Current /\ Current > 0
    <3>1. Head(toClient).ver \in 1..Current
      BY <2>1, HeadFacts DEF IInv
    <3>2. QED
      BY <1>2, <2>1, <3>1 DEF Current
  <2>6. QED
    BY <2>4, <2>5 DEF RequestsTyped
<1>12. CASE UNCHANGED vars
  BY <1>1, <1>12 DEF RequestsTyped, vars, Current
<1>13. QED
  BY <1>3, <1>4, <1>5, <1>6, <1>8, <1>10, <1>12, ClientSteps DEF Next

\* What is left of the messages when one has been taken.
LEMMA TakenTyped ==
    ASSUME IInv, toClient # <<>>, toClient' = Tail(toClient), copies' = copies,
           nextId' \in Nat, nextId' >= nextId
    PROVE  MessagesTyped'
<1>1. WiresTyped /\ MessagesTyped /\ nextId \in Nat
  BY WireParts DEF IInv, TypeOK
<1>2. /\ toClient' \in Seq(Messages)
      /\ \A i \in DOMAIN toClient' :
            toClient'[i] = toClient[i + 1] /\ i + 1 \in DOMAIN toClient
  BY <1>1, Taken
<1>3. ASSUME NEW i \in DOMAIN toClient'
      PROVE  toClient'[i].id < nextId'
  <2>1. toClient' \in Seq(Messages) /\ toClient'[i].id < nextId
    BY <1>1, <1>2 DEF MessagesTyped
  <2>2. toClient'[i] \in Messages
    BY <2>1
  <2>3. toClient'[i].id \in Nat
    BY <2>2 DEF Messages
  <2>4. QED
    BY <1>1, <2>1, <2>3
<1>4. QED
  BY <1>1, <1>2, <1>3 DEF MessagesTyped, Current

LEMMA MessagesStep ==
    ASSUME IInv, [Next]_vars
    PROVE  MessagesTyped'
<1>1. TypeOK /\ WiresTyped /\ MessagesTyped
  BY WireParts DEF IInv
<1>2. Current \in Nat /\ nextId \in Nat \ {0}
  BY <1>1, Numbers DEF TypeOK
<1>3. ASSUME NEW o \in Offers, Copy(o)
      PROVE  MessagesTyped'
  <2> DEFINE a == Msg("list", 0, None, Current + 1, 0)
  <2>1. toClient' = Append(toClient, a) /\ nextId' = nextId
    BY <1>3 DEF Copy, fileVars
  <2>2. a \in Messages /\ a.id = 0 /\ a.type = "list" /\ a.ver = Current + 1
    BY <1>2 DEF Msg, Messages, LocalFormats
  <2>3. /\ Current' = Current + 1
        /\ \A v \in 1..Current : copies'[v] = copies[v] /\ v \in 1..Current'
    BY <1>1, <1>2, <1>3, CopyMade
  <2> HIDE DEF a
  <2>4. /\ toClient' \in Seq(Messages) /\ DOMAIN toClient' = 1..(Len(toClient) + 1)
        /\ DOMAIN toClient = 1..Len(toClient) /\ Len(toClient) \in Nat
        /\ \A i \in DOMAIN toClient : toClient'[i] = toClient[i]
        /\ toClient'[Len(toClient) + 1] = a
    BY <1>1, <2>1, <2>2, Sent
  <2>5. Current + 1 \in 1..Current' /\ 0 < nextId
    BY <1>2, <2>3
  <2>6. QED
    BY <1>1, <2>1, <2>2, <2>3, <2>4, <2>5 DEF MessagesTyped
<1>4. ASSUME NEW i \in DOMAIN toServer, Respond(i)
      PROVE  MessagesTyped'
  <2>1. UNCHANGED <<copies, nextId>>
    BY <1>4 DEF Respond, fileVars
  <2>2. PICK a \in Messages :
            /\ toClient' = Append(toClient, a) /\ AnswerTo(toServer[i], a)
            /\ a = Answer(toServer[i]) \/ fails' > 0
    BY <1>4, RespondFacts
  <2>3. /\ toServer[i].id < nextId /\ (toServer[i].id # 0 <=> toServer[i].type # "data")
        /\ toServer[i].type \in {"data", "size", "range"}
    <3>1. toServer \in Seq(Requests) /\ toServer[i].id < nextId
      BY <1>1, TypeParts DEF WiresTyped, TableTyped
    <3>2. toServer[i] \in Requests
      BY <3>1
    <3>3. QED
      BY <1>1, <3>1, <3>2 DEF WiresTyped, Requests
  <2>4. /\ a.id < nextId /\ a.ver \in 1..Current
        /\ a.id # 0 <=> a.type \notin {"list", "data"}
        /\ a.type = "data" /\ a.fmt # None => a.fmt \in copies[a.ver].fmts
    BY <1>2, <1>4, <2>2, <2>3, RespondFacts DEF AnswerTo
  <2>5. /\ toClient' \in Seq(Messages) /\ DOMAIN toClient' = 1..(Len(toClient) + 1)
        /\ DOMAIN toClient = 1..Len(toClient) /\ Len(toClient) \in Nat
        /\ \A j \in DOMAIN toClient : toClient'[j] = toClient[j]
        /\ toClient'[Len(toClient) + 1] = a
    BY <1>1, <2>2, Sent
  <2>6. QED
    BY <1>1, <2>1, <2>4, <2>5 DEF MessagesTyped, Current
<1>5. CASE FormatList
  BY <1>2, <1>5, ListFacts, TakenTyped
<1>6. CASE Skip
  BY <1>2, <1>6, TakenTyped DEF Skip, serverVars, fileVars
<1>7. CASE DataResponse
  BY <1>2, <1>7, TakenTyped DEF DataResponse, Receive, serverVars, fileVars
<1>8. CASE FileList
  <2>1. nextId' \in Nat /\ nextId' >= nextId
    BY <1>2, <1>8, FileListFacts
  <2>2. QED
    BY <1>8, <2>1, FileListFacts, TakenTyped
<1>9. CASE Dropped
  BY <1>2, <1>9, TakenTyped DEF Dropped, serverVars
<1>10. ASSUME NEW id, NEW h, Moved(id, h)
       PROVE  MessagesTyped'
  BY <1>2, <1>10, TakenTyped DEF Moved
<1>11. CASE SetClipboard \/ UNCHANGED vars
  <2>1. UNCHANGED <<copies, toClient, nextId>>
    BY <1>11 DEF SetClipboard, serverVars, fileVars, vars
  <2>2. QED
    BY <1>1, <2>1 DEF MessagesTyped, Current
<1>12. QED
  BY <1>3, <1>4, <1>5, <1>6, <1>7, <1>8, <1>9, <1>10, <1>11, ClientSteps DEF Next

LEMMA TypeStep == IInv /\ [Next]_vars => TypeOK' /\ WiresTyped'
<1> SUFFICES ASSUME IInv, [Next]_vars
             PROVE  TypeOK' /\ WiresTyped'
  OBVIOUS
<1>1. TypeOK'
  <2>1. TableTyped' /\ RestTyped'
    BY TableStep, RestStep
  <2>2. QED
    BY <2>1, TypeParts DEF TypeOK, TableTyped, RestTyped
<1>2. StreamsTyped'
  <2>0. StreamsTyped
    BY WireParts DEF IInv
  <2>1. CASE FormatList
    BY <2>1, ListFacts, EmptyTable DEF StreamsTyped
  <2>2. CASE FileList
    BY <2>2, FileListFacts DEF StreamsTyped
  <2>3. CASE Dropped
    <3>1. files' = [x \in DOMAIN files \ {Head(toClient).id} |-> files[x]]
      BY <2>3 DEF Dropped, Erase
    <3>2. QED
      BY <2>0, <3>1 DEF StreamsTyped
  <2>4. ASSUME NEW id, NEW h, Moved(id, h)
        PROVE  StreamsTyped'
    BY <2>4, MovedFacts DEF StreamsTyped
  <2>5. ASSUME files' = files
        PROVE  StreamsTyped'
    BY <2>0, <2>5 DEF StreamsTyped
  <2>6. (\E o \in Offers : Copy(o)) \/ (\E i \in DOMAIN toServer : Respond(i))
        \/ Skip \/ DataResponse \/ SetClipboard \/ UNCHANGED vars => files' = files
    BY DEF Copy, Respond, Skip, DataResponse, SetClipboard, vars, fileVars
  <2>7. QED
    BY <2>1, <2>2, <2>3, <2>4, <2>5, <2>6, ClientSteps DEF Next
<1>3. RequestsTyped' /\ MessagesTyped'
  BY RequestsStep, MessagesStep
<1>4. QED
  BY <1>1, <1>2, <1>3 DEF WiresTyped, RequestsTyped, MessagesTyped, StreamsTyped
-----------------------------------------------------------------------------
(* The order of versions.                                                  *)

LEMMA OrderTaken ==
    ASSUME IInv, toClient # <<>>, toClient' = Tail(toClient), copies' = copies,
           seen' = Head(toClient).ver
    PROVE  InOrder'
<1>1. WiresTyped /\ InOrder
  BY DEF IInv
<1>2. /\ Len(toClient) \in Nat \ {0} /\ DOMAIN toClient = 1..Len(toClient)
      /\ Len(toClient') = Len(toClient) - 1
      /\ DOMAIN toClient' = 1..(Len(toClient) - 1)
      /\ \A i \in DOMAIN toClient' :
            toClient'[i] = toClient[i + 1] /\ i + 1 \in DOMAIN toClient
      /\ Head(toClient) = toClient[1]
  BY <1>1, Taken
<1>3. ASSUME NEW i \in 1..Len(toClient)
      PROVE  Before(i)' = Before(i + 1)
  <2>1. Before(i + 1) = toClient[i].ver
    BY <1>2 DEF Before
  <2>2. CASE i = 1
    BY <2>1, <2>2, <1>2 DEF Before
  <2>3. CASE i # 1
    <3>1. i - 1 \in DOMAIN toClient' /\ (i - 1) + 1 = i
      BY <1>2, <2>3
    <3>2. toClient'[i - 1] = toClient[i]
      BY <1>2, <3>1
    <3>3. QED
      BY <2>1, <2>3, <3>2 DEF Before
  <2>4. QED
    BY <2>2, <2>3
<1>4. \A i \in DOMAIN toClient' :
          toClient'[i].ver =
              IF toClient'[i].type = "list" THEN Before(i)' + 1 ELSE Before(i)'
  BY <1>1, <1>2, <1>3 DEF InOrder
<1>5. Current' = Before(Len(toClient) + 1)'
  <2>1. ASSUME NEW i \in 1..Len(toClient), i = Len(toClient')+ 1
        PROVE  Before(i)' = Before(Len(toClient) + 1)'
    BY <2>1 DEF Before
  <2>2. Len(toClient) \in 1..Len(toClient) /\ Len(toClient) = Len(toClient') + 1
    BY <1>2
  <2>3. Before(Len(toClient) + 1)' = Before(Len(toClient) + 1)
    <3>1. PICK n \in 1..Len(toClient) : n = Len(toClient)
      BY <2>2
    <3>2. Before(n)' = Before(n + 1) /\ Before(n)' = Before(Len(toClient) + 1)'
      BY <1>3, <2>1, <2>2, <3>1
    <3>3. QED
      BY <3>1, <3>2
  <2>4. QED
    BY <1>1, <2>3 DEF InOrder, Current
<1>6. QED
  BY <1>4, <1>5 DEF InOrder

LEMMA OrderSent ==
    ASSUME IInv, NEW a \in Messages, toClient' = Append(toClient, a), seen' = seen,
           a.ver = Current',
           a.ver = IF a.type = "list" THEN Current + 1 ELSE Current
    PROVE  InOrder'
<1>1. WiresTyped /\ InOrder
  BY DEF IInv
<1>2. /\ Len(toClient) \in Nat /\ DOMAIN toClient = 1..Len(toClient)
      /\ Len(toClient') = Len(toClient) + 1
      /\ DOMAIN toClient' = 1..(Len(toClient) + 1)
      /\ \A i \in DOMAIN toClient : toClient'[i] = toClient[i]
      /\ toClient'[Len(toClient) + 1] = a
  BY <1>1, Sent
<1>3. \A i \in 1..(Len(toClient) + 1) : Before(i)' = Before(i)
  BY <1>2 DEF Before
<1>4. Before(Len(toClient) + 1)' = a.ver
  BY <1>2 DEF Before
<1>5. a.ver = IF a.type = "list" THEN Before(Len(toClient) + 1) + 1
              ELSE Before(Len(toClient) + 1)
  BY <1>1 DEF InOrder
<1>6. ASSUME NEW i \in DOMAIN toClient'
      PROVE  toClient'[i].ver =
                 IF toClient'[i].type = "list" THEN Before(i)' + 1 ELSE Before(i)'
  <2>1. CASE i \in DOMAIN toClient
    BY <1>1, <1>2, <1>3, <2>1 DEF InOrder
  <2>2. CASE i = Len(toClient) + 1
    <3>1. i \in 1..(Len(toClient) + 1)
      BY <1>2
    <3>2. Before(i)' = Before(i) /\ Before(i) = Before(Len(toClient) + 1)
      BY <1>3, <2>2, <3>1
    <3>3. QED
      BY <1>2, <1>5, <2>2, <3>2
  <2>3. QED
    BY <1>2, <2>1, <2>2
<1>7. QED
  BY <1>4, <1>6 DEF InOrder

LEMMA OrderStep == IInv /\ [Next]_vars => InOrder'
<1> SUFFICES ASSUME IInv, [Next]_vars
             PROVE  InOrder'
  OBVIOUS
<1>1. TypeOK /\ WiresTyped /\ InOrder /\ Current \in Nat
  BY Numbers DEF IInv
<1>2. ASSUME toClient # <<>>, Head(toClient).type # "list"
      PROVE  Head(toClient).ver = seen
  BY <1>1, <1>2, HeadFacts
<1>3. ASSUME NEW o \in Offers, Copy(o)
      PROVE  InOrder'
  <2> DEFINE a == Msg("list", 0, None, Current + 1, 0)
  <2>1. toClient' = Append(toClient, a) /\ seen' = seen
    BY <1>3 DEF Copy
  <2>2. a \in Messages /\ a.type = "list" /\ a.ver = Current + 1
    BY <1>1 DEF Msg, Messages, LocalFormats
  <2>3. Current' = Current + 1
    BY <1>1, <1>3, CopyMade
  <2> HIDE DEF a
  <2>4. QED
    BY <2>1, <2>2, <2>3, OrderSent
<1>4. ASSUME NEW i \in DOMAIN toServer, Respond(i)
      PROVE  InOrder'
  <2>1. UNCHANGED <<copies, seen>>
    BY <1>4 DEF Respond
  <2>2. PICK a \in Messages :
            /\ toClient' = Append(toClient, a) /\ AnswerTo(toServer[i], a)
            /\ a = Answer(toServer[i]) \/ fails' > 0
    BY <1>4, RespondFacts
  <2>3. toServer[i].type # "list"
    <3>1. toServer \in Seq(Requests)
      BY <1>1 DEF WiresTyped
    <3>2. toServer[i] \in Requests
      BY <3>1
    <3>3. QED
      BY <3>2 DEF Requests
  <2>4. a.type # "list" /\ a.ver = Current
    BY <2>2, <2>3 DEF AnswerTo
  <2>5. Current' = Current
    BY <2>1 DEF Current
  <2>6. QED
    BY <2>1, <2>2, <2>4, <2>5, OrderSent
<1>5. CASE FormatList
  <2>1. seen' = Head(toClient).ver
    BY <1>5, ListFacts
  <2>2. QED
    BY <1>5, <2>1, ListFacts, OrderTaken
<1>6. CASE Skip \/ DataResponse \/ Dropped
  <2>1. /\ toClient # <<>> /\ toClient' = Tail(toClient) /\ copies' = copies
        /\ Head(toClient).type # "list" /\ seen' = seen
    BY <1>6 DEF Skip, DataResponse, Dropped, Receive, serverVars
  <2>2. QED
    BY <1>2, <2>1, OrderTaken
<1>7. CASE FileList
  <2>1. /\ toClient # <<>> /\ toClient' = Tail(toClient) /\ copies' = copies
        /\ Head(toClient).type = "data" /\ seen' = seen
    BY <1>7, FileListFacts
  <2>2. QED
    BY <1>2, <2>1, OrderTaken
<1>8. ASSUME NEW id, NEW h, Moved(id, h)
      PROVE  InOrder'
  <2>1. /\ toClient # <<>> /\ toClient' = Tail(toClient) /\ copies' = copies
        /\ Head(toClient).type # "list" /\ seen' = seen
    BY <1>8 DEF Moved
  <2>2. QED
    BY <1>2, <2>1, OrderTaken
<1>9. CASE SetClipboard \/ UNCHANGED vars
  <2>1. UNCHANGED <<copies, toClient, seen>>
    BY <1>9 DEF SetClipboard, serverVars, vars
  <2>2. QED
    BY <1>1, <2>1 DEF InOrder, Before, Current
<1>10. QED
  BY <1>3, <1>4, <1>5, <1>6, <1>7, <1>8, <1>9, ClientSteps DEF Next
-----------------------------------------------------------------------------
(* One request or answer a stream.                                         *)

\* It stays so when a message is taken, and a request is made for that stream or
\* for one that has none.
LEMMA OneTaken ==
    ASSUME IInv, toClient # <<>>, toClient' = Tail(toClient)
    PROVE  /\ \A i, j \in DOMAIN toClient' :
                 toClient'[i].id # 0 /\ toClient'[i].id = toClient'[j].id => i = j
           /\ \A i \in DOMAIN toServer, j \in DOMAIN toClient' :
                 toServer[i].id # 0 => toServer[i].id # toClient'[j].id
           /\ Head(toClient).id # 0 =>
                 /\ \A j \in DOMAIN toClient' : toClient'[j].id # Head(toClient).id
                 /\ \A i \in DOMAIN toServer : toServer[i].id # Head(toClient).id
<1>1. /\ Len(toClient) \in Nat \ {0} /\ DOMAIN toClient = 1..Len(toClient)
      /\ DOMAIN toClient' = 1..(Len(toClient) - 1)
      /\ \A i \in DOMAIN toClient' :
            toClient'[i] = toClient[i + 1] /\ i + 1 \in DOMAIN toClient
      /\ Head(toClient) = toClient[1] /\ 1 \in DOMAIN toClient
  BY Taken DEF IInv
<1>2. OneEach
  BY DEF IInv
<1>3. ASSUME NEW i \in DOMAIN toClient', NEW j \in DOMAIN toClient',
             toClient'[i].id # 0, toClient'[i].id = toClient'[j].id
      PROVE  i = j
  <2>1. i + 1 = j + 1
    BY <1>1, <1>2, <1>3 DEF OneEach
  <2>2. QED
    BY <1>1, <2>1
<1>4. ASSUME NEW j \in DOMAIN toClient', Head(toClient).id # 0
      PROVE  toClient'[j].id # Head(toClient).id
  <2>1. j + 1 # 1 /\ j + 1 \in DOMAIN toClient /\ toClient'[j] = toClient[j + 1]
    BY <1>1
  <2>2. QED
    BY <1>1, <1>2, <1>4, <2>1 DEF OneEach
<1>5. /\ \A i \in DOMAIN toServer, j \in DOMAIN toClient' :
            toServer[i].id # 0 => toServer[i].id # toClient'[j].id
      /\ \A i \in DOMAIN toServer : Head(toClient).id # 0 =>
            toServer[i].id # Head(toClient).id
  BY <1>1, <1>2 DEF OneEach
<1>6. QED
  BY <1>3, <1>4, <1>5

LEMMA OneRequested ==
    ASSUME IInv, toClient # <<>>, toClient' = Tail(toClient),
           NEW r \in Requests, toServer' = Append(toServer, r),
           r.id \in {0, Head(toClient).id}
    PROVE  OneEach'
<1>1. /\ Len(toServer) \in Nat /\ DOMAIN toServer = 1..Len(toServer)
      /\ DOMAIN toServer' = 1..(Len(toServer) + 1)
      /\ \A i \in DOMAIN toServer : toServer'[i] = toServer[i]
      /\ toServer'[Len(toServer) + 1] = r
  BY Requested DEF IInv
<1>2. \A i, j \in DOMAIN toServer' :
          toServer'[i].id # 0 /\ toServer'[i].id = toServer'[j].id => i = j
  <2>1. \A i \in DOMAIN toServer' : i \in DOMAIN toServer \/ i = Len(toServer) + 1
    BY <1>1
  <2>2. \A i \in DOMAIN toServer : r.id # 0 => toServer[i].id # r.id
    BY OneTaken
  <2>3. QED
    BY <1>1, <2>1, <2>2 DEF IInv, OneEach
<1>3. \A i \in DOMAIN toServer', j \in DOMAIN toClient' :
          toServer'[i].id # 0 => toServer'[i].id # toClient'[j].id
  <2>1. \A i \in DOMAIN toServer' : i \in DOMAIN toServer \/ i = Len(toServer) + 1
    BY <1>1
  <2>2. QED
    BY <1>1, <2>1, OneTaken
<1>4. QED
  BY <1>2, <1>3, OneTaken DEF OneEach

LEMMA OneStep == IInv /\ [Next]_vars => OneEach'
<1> SUFFICES ASSUME IInv, [Next]_vars
             PROVE  OneEach'
  OBVIOUS
<1>1. TypeOK /\ WiresTyped /\ OneEach /\ Current \in Nat
  BY Numbers DEF IInv
<1>3. ASSUME NEW o \in Offers, Copy(o)
      PROVE  OneEach'
  <2> DEFINE a == Msg("list", 0, None, Current + 1, 0)
  <2>1. toClient' = Append(toClient, a) /\ toServer' = toServer
    BY <1>3 DEF Copy
  <2>2. a \in Messages /\ a.id = 0
    BY <1>1 DEF Msg, Messages, LocalFormats
  <2> HIDE DEF a
  <2>3. /\ DOMAIN toClient' = 1..(Len(toClient) + 1) /\ Len(toClient) \in Nat
        /\ DOMAIN toClient = 1..Len(toClient)
        /\ \A i \in DOMAIN toClient : toClient'[i] = toClient[i]
        /\ toClient'[Len(toClient) + 1] = a
    BY <1>1, <2>1, <2>2, Sent
  <2>4. \A i \in DOMAIN toClient' : i \in DOMAIN toClient \/ toClient'[i].id = 0
    BY <2>2, <2>3
  <2>5. QED
    BY <1>1, <2>1, <2>3, <2>4 DEF OneEach
<1>4. ASSUME NEW i \in DOMAIN toServer, Respond(i)
      PROVE  OneEach'
  <2>1. PICK a \in Messages :
            /\ toClient' = Append(toClient, a) /\ AnswerTo(toServer[i], a)
            /\ a = Answer(toServer[i]) \/ fails' > 0
    BY <1>4, RespondFacts
  <2>2. /\ DOMAIN toClient' = 1..(Len(toClient) + 1) /\ Len(toClient) \in Nat
        /\ DOMAIN toClient = 1..Len(toClient)
        /\ \A j \in DOMAIN toClient : toClient'[j] = toClient[j]
        /\ toClient'[Len(toClient) + 1].id = toServer[i].id
    BY <1>1, <2>1, Sent DEF AnswerTo
  <2>3. \A j \in DOMAIN toClient' : j \in DOMAIN toClient \/ j = Len(toClient) + 1
    BY <2>2
  <2>4. /\ \A j \in DOMAIN toServer' :
              toServer'[j] = toServer[Past(i, j)] /\ Past(i, j) \in DOMAIN toServer \ {i}
        /\ \A j, k \in DOMAIN toServer' : Past(i, j) = Past(i, k) => j = k
    <3>1. /\ DOMAIN toServer' = 1..(Len(toServer) - 1)
          /\ \A j, k \in DOMAIN toServer' : j < k <=> Past(i, j) < Past(i, k)
          /\ \A j \in DOMAIN toServer' :
                /\ toServer'[j] = toServer[Past(i, j)]
               /\ Past(i, j) \in DOMAIN toServer \ {i}
      BY <1>4, RespondLeft
    <3>2. ASSUME NEW j \in DOMAIN toServer', NEW k \in DOMAIN toServer',
                 Past(i, j) = Past(i, k)
          PROVE  j = k
      <4>1. i \in Nat /\ j \in Nat /\ k \in Nat
        BY <1>1, <3>1 DEF WiresTyped
      <4>2. QED
        BY <3>2, <4>1 DEF Past
    <3>3. QED
      BY <3>1, <3>2
  <2>5. \A j, k \in DOMAIN toServer' :
            toServer'[j].id # 0 /\ toServer'[j].id = toServer'[k].id => j = k
    BY <1>1, <2>4 DEF OneEach
  <2>6. \A j, k \in DOMAIN toClient' :
            toClient'[j].id # 0 /\ toClient'[j].id = toClient'[k].id => j = k
    BY <1>1, <2>2, <2>3 DEF OneEach
  <2>7. \A j \in DOMAIN toServer', k \in DOMAIN toClient' :
            toServer'[j].id # 0 => toServer'[j].id # toClient'[k].id
    BY <1>1, <2>2, <2>3, <2>4 DEF OneEach
  <2>8. QED
    BY <2>5, <2>6, <2>7 DEF OneEach
<1>5. CASE FormatList
  <2>1. /\ toClient # <<>> /\ toClient' = Tail(toClient)
        /\ \/ /\ slot' \in Formats
              /\ toServer' = Append(toServer, Ask("data", 0, slot', 0))
           \/ toServer' = toServer
    BY <1>5, ListFacts
  <2>2. slot' \in Formats => /\ Ask("data", 0, slot', 0) \in Requests
                            /\ Ask("data", 0, slot', 0).id = 0
    BY DEF Ask, Msg, Requests, LocalFormats
  <2>3. QED
    BY <1>1, <2>1, <2>2, OneRequested, OneTaken DEF OneEach
<1>6. CASE Skip \/ DataResponse \/ Dropped
  <2>1. /\ toClient # <<>> /\ toClient' = Tail(toClient) /\ toServer' = toServer
    BY <1>6 DEF Skip, DataResponse, Dropped, Receive, serverVars
  <2>2. QED
    BY <1>1, <2>1, OneTaken DEF OneEach
<1>7. CASE FileList
  <2>1. toClient # <<>> /\ toClient' = Tail(toClient) /\ Count \in Nat \ {0}
    BY <1>7, FileListFacts
  <2>2. /\ \A i \in DOMAIN toServer : toServer'[i] = toServer[i]
        /\ \A j \in DOMAIN toServer' \ DOMAIN toServer :
              \E i \in 1..Count : /\ j = Len(toServer) + i
                                  /\ toServer'[j].id = nextId + i - 1
        /\ Len(toServer) \in Nat
    BY <1>7, FileListAsks
  <2>3. nextId \in Nat \ {0} /\ \A j \in DOMAIN toServer : toServer[j].id < nextId
    BY <1>1, TypeParts DEF TableTyped
  <2>4. \A j \in DOMAIN toClient' : toClient'[j].id < nextId
    BY <1>1, <2>1, Taken DEF WiresTyped
  <2>5. \A j \in DOMAIN toServer' \ DOMAIN toServer :
            toServer'[j].id \in Nat /\ toServer'[j].id >= nextId
    BY <2>1, <2>2, <2>3
  <2>6. \A j \in DOMAIN toServer : toServer[j].id \in Nat
    <3>1. toServer \in Seq(Requests)
      BY <1>1 DEF WiresTyped
    <3>2. \A j \in DOMAIN toServer : toServer[j] \in Requests
      BY <3>1
    <3>3. QED
      BY <3>2 DEF Requests
  <2>7. \A j \in DOMAIN toClient' : toClient'[j].id \in Nat
    <3>1. toClient' \in Seq(Messages)
      BY <1>1, <2>1, Taken
    <3>2. \A j \in DOMAIN toClient' : toClient'[j] \in Messages
      BY <3>1
    <3>3. QED
      BY <3>2 DEF Messages
  <2>8. ASSUME NEW i \in DOMAIN toServer', NEW j \in DOMAIN toServer',
               toServer'[i].id # 0, toServer'[i].id = toServer'[j].id
        PROVE  i = j
    <3>1. CASE i \in DOMAIN toServer /\ j \in DOMAIN toServer
      BY <1>1, <2>2, <2>8, <3>1 DEF OneEach
    <3>2. CASE i \notin DOMAIN toServer /\ j \notin DOMAIN toServer
      BY <2>1, <2>2, <2>3, <2>8, <3>2
    <3>3. CASE i \in DOMAIN toServer /\ j \notin DOMAIN toServer
      BY <2>2, <2>3, <2>5, <2>6, <2>8, <3>3
    <3>4. CASE i \notin DOMAIN toServer /\ j \in DOMAIN toServer
      BY <2>2, <2>3, <2>5, <2>6, <2>8, <3>4
    <3>5. QED
      BY <3>1, <3>2, <3>3, <3>4
  <2>9. ASSUME NEW i \in DOMAIN toServer', NEW j \in DOMAIN toClient',
               toServer'[i].id # 0
        PROVE  toServer'[i].id # toClient'[j].id
    <3>1. CASE i \in DOMAIN toServer
      BY <2>1, <2>2, <2>9, <3>1, OneTaken
    <3>2. CASE i \notin DOMAIN toServer
      BY <2>3, <2>4, <2>5, <2>7, <3>2
    <3>3. QED
      BY <3>1, <3>2
  <2>10. QED
    BY <2>1, <2>8, <2>9, OneTaken DEF OneEach
<1>8. ASSUME NEW id, NEW h, Moved(id, h)
      PROVE  OneEach'
  <2>1. /\ toClient # <<>> /\ toClient' = Tail(toClient) /\ id = Head(toClient).id
        /\ id \in DOMAIN files /\ h \in Streams
        /\ toServer' = IF h.done THEN toServer
                       ELSE Append(toServer, Ask("range", id, None, h.index))
    BY <1>8 DEF Moved
  <2>2. id \in Nat /\ h.index \in Nat
    <3>1. h.index \in DOMAIN Path
      BY <2>1 DEF Streams
    <3>2. QED
      BY <1>1, <2>1, <3>1, Numbers DEF TypeOK
  <2>3. /\ Ask("range", id, None, h.index) \in Requests
        /\ Ask("range", id, None, h.index).id = id
    BY <2>2 DEF Ask, Msg, Requests, LocalFormats
  <2>4. CASE h.done
    BY <1>1, <2>1, <2>4, OneTaken DEF OneEach
  <2>5. CASE ~h.done
    BY <2>1, <2>3, <2>5, OneRequested
  <2>6. QED
    BY <2>4, <2>5
<1>9. CASE SetClipboard \/ UNCHANGED vars
  <2>1. UNCHANGED <<toServer, toClient>>
    BY <1>9 DEF SetClipboard, serverVars, vars
  <2>2. QED
    BY <1>1, <2>1 DEF OneEach
<1>10. QED
  BY <1>3, <1>4, <1>5, <1>6, <1>7, <1>8, <1>9, ClientSteps DEF Next
-----------------------------------------------------------------------------
(* The streams.                                                            *)

\* A table that is not empty is of a list that was handled.
LEMMA SeenFacts ==
    ASSUME IInv, NEW id \in DOMAIN files
    PROVE  /\ seen \in 1..Current /\ files[id] \in Streams
           /\ id \in Nat \ {0} /\ id < nextId
<1>1. files[id].ver = seen /\ files[id].ver \in 1..Current
  BY TypeParts DEF IInv, StreamsFit, TableTyped
<1>2. id \in Nat \ {0} /\ id < nextId
  BY Numbers, TypeParts DEF IInv, TableTyped
<1>3. QED
  BY <1>1, <1>2 DEF IInv, WiresTyped

\* What the client takes leaves nothing but what was due before.
LEMMA DueTaken ==
    ASSUME IInv, toClient # <<>>, toClient' = Tail(toClient), NEW i \in DOMAIN toClient',
           toClient'[i].id \in DOMAIN files
    PROVE  /\ Due(toClient'[i].type, files[toClient'[i].id])
           /\ toClient'[i].ver = seen /\ toClient'[i].type # "fail" =>
                 toClient'[i].n = copies[seen].sizes[files[toClient'[i].id].index]
           /\ toClient'[i].ver = seen /\ toClient'[i].type = "fail" => fails > 0
           /\ toClient'[i].id # Head(toClient).id
<1>1. toClient'[i] = toClient[i + 1] /\ i + 1 \in DOMAIN toClient
  BY Taken DEF IInv
<1>2. toClient'[i].id # 0
  BY SeenFacts
<1>3. toClient'[i].id # Head(toClient).id
  BY <1>2, OneTaken
<1>4. QED
  BY <1>1, <1>3 DEF IInv, StreamsDue

LEMMA DueStep == IInv /\ [Next]_vars => StreamsDue'
<1> SUFFICES ASSUME IInv, [Next]_vars
             PROVE  StreamsDue'
  OBVIOUS
<1>1. TypeOK /\ WiresTyped /\ OneEach /\ StreamsDue /\ Current \in Nat /\ fails \in Nat
  BY Numbers DEF IInv
<1>2. /\ \A id \in DOMAIN files : id \in Nat \ {0} /\ id < nextId /\ seen \in 1..Current
      /\ nextId \in Nat \ {0}
  BY <1>1, SeenFacts DEF TypeOK
<1>3. ASSUME NEW o \in Offers, Copy(o)
      PROVE  StreamsDue'
  <2> DEFINE a == Msg("list", 0, None, Current + 1, 0)
  <2>1. toClient' = Append(toClient, a) /\ UNCHANGED <<toServer, files, seen, fails>>
    BY <1>3 DEF Copy, fileVars
  <2>2. a \in Messages /\ a.id = 0
    BY <1>1 DEF Msg, Messages, LocalFormats
  <2>3. \A id \in DOMAIN files : copies'[seen] = copies[seen]
    BY <1>1, <1>2, <1>3, CopyMade
  <2> HIDE DEF a
  <2>4. \A i \in DOMAIN toClient' :
            \/ i \in DOMAIN toClient /\ toClient'[i] = toClient[i]
            \/ toClient'[i].id = 0
    BY <1>1, <2>1, <2>2, Sent
  <2>5. QED
    BY <1>1, <1>2, <2>1, <2>3, <2>4 DEF StreamsDue, Due
<1>4. ASSUME NEW i \in DOMAIN toServer, Respond(i)
      PROVE  StreamsDue'
  <2> DEFINE r == toServer[i]
  <2>1. PICK a \in Messages :
            /\ toClient' = Append(toClient, a) /\ AnswerTo(r, a)
            /\ a = Answer(r) \/ fails' > 0
    BY <1>4, RespondFacts
  <2>2. UNCHANGED <<copies, files, seen>>
    BY <1>4 DEF Respond, fileVars
  <2>3. fails > 0 => fails' > 0
    BY <1>1, <1>4, RespondFacts
  <2>4. \A j \in DOMAIN toServer' : \E k \in DOMAIN toServer : toServer'[j] = toServer[k]
    BY <1>4, RespondLeft
  <2>5. \A j \in DOMAIN toClient' :
            \/ j \in DOMAIN toClient /\ toClient'[j] = toClient[j]
            \/ toClient'[j] = a
    BY <1>1, <2>1, Sent
  <2>6. ASSUME a.id \in DOMAIN files
        PROVE  /\ Due(a.type, files[a.id])
               /\ a.ver = seen /\ a.type # "fail" =>
                     a.n = copies[seen].sizes[files[a.id].index]
               /\ a.ver = seen /\ a.type = "fail" => fails' > 0
    <3>1. a.id = r.id /\ a.ver = Current
      BY <2>1 DEF AnswerTo
    <3>2. r \in Requests /\ r.type # "data"
      <4>1. toServer \in Seq(Requests) /\ (r.id # 0 <=> r.type # "data")
        BY <1>1 DEF WiresTyped
      <4>2. QED
        BY <1>2, <2>6, <3>1, <4>1
    <3>3. Due(r.type, files[a.id]) /\ r.n = files[a.id].index
      BY <1>1, <2>6, <3>1 DEF StreamsDue
    <3>4. a.type \in {r.type, "fail"}
      BY <2>1, <3>2 DEF AnswerTo
    <3>5. Due(a.type, files[a.id])
      BY <3>3, <3>4 DEF Due
    <3>6. ASSUME a.ver = seen, a.type # "fail"
          PROVE  a.n = copies[seen].sizes[files[a.id].index]
      BY <2>1, <3>1, <3>2, <3>3, <3>6 DEF AnswerTo
    <3>7. ASSUME a.ver = seen, a.type = "fail"
          PROVE  fails' > 0
      <4>1. r.n \in DOMAIN copies[Current].sizes
        BY <2>6, <3>1, <3>3, <3>7 DEF IInv, StreamsFit
      <4>2. Answer(r).type = r.type /\ r.type # "fail"
        BY <3>2, <4>1, AnswersWell DEF Requests
      <4>3. QED
        BY <2>1, <3>7, <4>2
    <3>8. QED
      BY <3>5, <3>6, <3>7
  <2>7. ASSUME NEW j \in DOMAIN toClient', toClient'[j].id \in DOMAIN files
        PROVE  /\ Due(toClient'[j].type, files[toClient'[j].id])
               /\ toClient'[j].ver = seen /\ toClient'[j].type # "fail" =>
                     toClient'[j].n = copies[seen].sizes[files[toClient'[j].id].index]
               /\ toClient'[j].ver = seen /\ toClient'[j].type = "fail" => fails' > 0
    BY <1>1, <2>3, <2>5, <2>6, <2>7 DEF StreamsDue
  <2>8. ASSUME NEW j \in DOMAIN toServer', toServer'[j].id \in DOMAIN files
        PROVE  /\ Due(toServer'[j].type, files[toServer'[j].id])
               /\ toServer'[j].n = files[toServer'[j].id].index
    BY <1>1, <2>4, <2>8 DEF StreamsDue
  <2>9. QED
    BY <2>2, <2>7, <2>8 DEF StreamsDue, Due
<1>5. CASE FormatList
  BY <1>5, ListFacts DEF StreamsDue
<1>6. CASE Skip \/ DataResponse
  <2>1. /\ toClient # <<>> /\ toClient' = Tail(toClient)
        /\ UNCHANGED <<copies, toServer, files, seen, fails>>
    BY <1>6 DEF Skip, DataResponse, Receive, serverVars, fileVars
  <2>2. QED
    BY <1>1, <2>1, DueTaken DEF StreamsDue, Due
<1>7. CASE FileList
  <2>1. /\ toClient # <<>> /\ toClient' = Tail(toClient)
        /\ UNCHANGED <<copies, seen, fails>>
        /\ DOMAIN files' = DOMAIN files \cup NewStreams
        /\ \A id \in DOMAIN files : files'[id] = files[id]
        /\ \A id \in NewStreams :
              /\ files'[id].index = id - nextId + 1
              /\ ~files'[id].sized /\ ~files'[id].done
        /\ Count \in Nat \ {0}
    BY <1>7, FileListFacts
  <2>2. \A id \in NewStreams : id >= nextId
    BY <1>2, <2>1 DEF NewStreams
  <2>3. ASSUME NEW j \in DOMAIN toClient', toClient'[j].id \in DOMAIN files'
        PROVE  toClient'[j].id \in DOMAIN files
    <3>1. toClient'[j] = toClient[j + 1] /\ j + 1 \in DOMAIN toClient
          /\ toClient' \in Seq(Messages)
      BY <1>1, <2>1, Taken
    <3>2. toClient'[j] \in Messages
      BY <3>1
    <3>3. toClient'[j].id < nextId /\ toClient'[j].id \in Nat
      BY <1>1, <3>1, <3>2 DEF WiresTyped, Messages
    <3>4. QED
      BY <1>2, <2>1, <2>2, <2>3, <3>3
  <2>4. ASSUME NEW j \in DOMAIN toClient', toClient'[j].id \in DOMAIN files'
        PROVE  /\ Due(toClient'[j].type, files'[toClient'[j].id])
               /\ toClient'[j].ver = seen /\ toClient'[j].type # "fail" =>
                     toClient'[j].n = copies[seen].sizes[files'[toClient'[j].id].index]
               /\ toClient'[j].ver = seen /\ toClient'[j].type = "fail" => fails > 0
    BY <2>1, <2>3, <2>4, DueTaken
  <2>5. ASSUME NEW j \in DOMAIN toServer', toServer'[j].id \in DOMAIN files'
        PROVE  /\ Due(toServer'[j].type, files'[toServer'[j].id])
               /\ toServer'[j].n = files'[toServer'[j].id].index
    <3>1. CASE j \in DOMAIN toServer
      <4>1. toServer'[j] = toServer[j] /\ toServer[j].id < nextId
        BY <1>1, <1>7, <3>1, FileListAsks, TypeParts DEF TableTyped
      <4>2. toServer \in Seq(Requests)
        BY <1>1 DEF WiresTyped
      <4>3. toServer[j] \in Requests
        BY <3>1, <4>2
      <4>4. toServer[j].id \in Nat
        BY <4>3 DEF Requests
      <4>5. toServer[j].id \in DOMAIN files
        BY <1>2, <2>1, <2>2, <2>5, <4>1, <4>4
      <4>6. QED
        BY <1>1, <2>1, <3>1, <4>1, <4>5 DEF StreamsDue
    <3>2. CASE j \notin DOMAIN toServer
      <4>1. PICK i \in 1..Count :
                /\ toServer'[j].id = nextId + i - 1 /\ toServer'[j].type = "size"
                /\ toServer'[j].n = i
        BY <1>7, <3>2, FileListAsks
      <4>2. toServer'[j].id \in NewStreams /\ (nextId + i - 1) - nextId + 1 = i
        BY <1>2, <2>1, <4>1 DEF NewStreams
      <4>3. QED
        BY <2>1, <4>1, <4>2 DEF Due
    <3>3. QED
      BY <3>1, <3>2
  <2>6. QED
    BY <2>1, <2>4, <2>5 DEF StreamsDue, Due
<1>8. CASE Dropped
  <2>1. /\ toClient # <<>> /\ toClient' = Tail(toClient)
        /\ UNCHANGED <<copies, toServer, seen>> /\ fails' > 0
        /\ files' = [x \in DOMAIN files \ {Head(toClient).id} |-> files[x]]
    BY <1>8 DEF Dropped, Erase, serverVars
  <2>2. /\ DOMAIN files' \subseteq DOMAIN files
        /\ \A id \in DOMAIN files' : files'[id] = files[id]
    BY <2>1
  <2>3. QED
    BY <1>1, <2>1, <2>2, DueTaken DEF StreamsDue, Due
<1>9. ASSUME NEW id, NEW h, Moved(id, h)
      PROVE  StreamsDue'
  <2>1. /\ toClient # <<>> /\ toClient' = Tail(toClient) /\ id = Head(toClient).id
        /\ id \in DOMAIN files /\ h \in Streams /\ h.index = files[id].index
        /\ h.sized /\ h.written <= h.size /\ (h.done <=> h.written = h.size)
        /\ toServer' = IF h.done THEN toServer
                       ELSE Append(toServer, Ask("range", id, None, h.index))
        /\ UNCHANGED <<copies, seen, fails>>
    BY <1>9 DEF Moved
  <2>2. CASE DOMAIN files' = {}
    BY <2>2 DEF StreamsDue
  <2>3. CASE files' = Table(id, h)
    <3>1. /\ DOMAIN files' = DOMAIN files /\ files'[id] = h
          /\ \A x \in DOMAIN files \ {id} : files'[x] = files[x]
      BY <1>9, <2>3, MovedFacts
    <3>2. ASSUME NEW j \in DOMAIN toClient', toClient'[j].id \in DOMAIN files'
          PROVE  /\ Due(toClient'[j].type, files'[toClient'[j].id])
                 /\ toClient'[j].ver = seen /\ toClient'[j].type # "fail" =>
                       toClient'[j].n = copies[seen].sizes[files'[toClient'[j].id].index]
                 /\ toClient'[j].ver = seen /\ toClient'[j].type = "fail" => fails > 0
      BY <2>1, <3>1, <3>2, DueTaken
    <3>3. ASSUME NEW j \in DOMAIN toServer, toServer[j].id \in DOMAIN files'
          PROVE  /\ Due(toServer[j].type, files'[toServer[j].id])
                 /\ toServer[j].n = files'[toServer[j].id].index
      <4>1. toServer[j].id # id
        BY <1>2, <2>1, <3>1, <3>3, OneTaken
      <4>2. QED
        BY <1>1, <3>1, <3>3, <4>1 DEF StreamsDue
    <3>4. ASSUME NEW j \in DOMAIN toServer', toServer'[j].id \in DOMAIN files'
          PROVE  /\ Due(toServer'[j].type, files'[toServer'[j].id])
                 /\ toServer'[j].n = files'[toServer'[j].id].index
      <4>1. CASE j \in DOMAIN toServer /\ toServer'[j] = toServer[j]
        BY <3>3, <3>4, <4>1
      <4>2. CASE ~h.done /\ toServer'[j] = Ask("range", id, None, h.index)
        <5>1. h.index \in Nat /\ id \in Nat
          <6>1. h.index \in DOMAIN Path
            BY <2>1 DEF Streams
          <6>2. QED
            BY <1>1, <1>2, <2>1, <6>1, Numbers
        <5>2. /\ toServer'[j].id = id /\ toServer'[j].type = "range"
              /\ toServer'[j].n = h.index
          BY <4>2 DEF Ask, Msg
        <5>3. h.written < h.size
          BY <2>1, <4>2 DEF Streams
        <5>4. QED
          BY <2>1, <3>1, <4>2, <5>2, <5>3 DEF Due
      <4>3. \/ j \in DOMAIN toServer /\ toServer'[j] = toServer[j]
            \/ ~h.done /\ toServer'[j] = Ask("range", id, None, h.index)
        <5>1. CASE h.done
          BY <2>1, <5>1
        <5>2. CASE ~h.done
          <6>1. toServer' = Append(toServer, Ask("range", id, None, h.index))
            BY <2>1, <5>2
          <6>2. toServer \in Seq(Requests)
            BY <1>1 DEF WiresTyped
          <6>3. Ask("range", id, None, h.index) \in Requests
            <7>1. h.index \in DOMAIN Path
              BY <2>1 DEF Streams
            <7>2. h.index \in Nat /\ id \in Nat
              BY <1>1, <1>2, <2>1, <7>1, Numbers
            <7>3. QED
              BY <7>2 DEF Ask, Msg, Requests, LocalFormats
          <6>4. QED
            BY <1>1, <5>2, <6>1, <6>3, Requested
        <5>3. QED
          BY <5>1, <5>2
      <4>4. QED
        BY <4>1, <4>2, <4>3
    <3>5. QED
      BY <2>1, <3>2, <3>4 DEF StreamsDue, Due
  <2>4. QED
    BY <1>9, <2>2, <2>3, MovedFacts
<1>10. CASE SetClipboard \/ UNCHANGED vars
  <2>1. UNCHANGED <<copies, toServer, toClient, files, seen, fails>>
    BY <1>10 DEF SetClipboard, serverVars, fileVars, vars
  <2>2. QED
    BY <1>1, <2>1 DEF StreamsDue, Due
<1>11. QED
  BY <1>3, <1>4, <1>5, <1>6, <1>7, <1>8, <1>9, <1>10, ClientSteps DEF Next
-----------------------------------------------------------------------------
(* What the streams are of, and what they have written.                    *)

\* After a move the table is still of the list.
LEMMA MovedFits ==
    ASSUME IInv, NEW id, NEW h, Moved(id, h)
    PROVE  StreamsFit(Table(id, h), Complete(id, h))
<1> DEFINE T == Table(id, h)
           U == Complete(id, h)
<1>1. /\ id \in DOMAIN files /\ h \in Streams /\ ~files[id].done
      /\ h.path = files[id].path /\ h.index = files[id].index /\ h.ver = files[id].ver
      /\ h.sized /\ h.size = copies[seen].sizes[h.index] /\ h.written <= h.size
      /\ h.done <=> h.written = h.size
  BY DEF Moved
<1>2. /\ DOMAIN T = DOMAIN files /\ T[id] = h
      /\ \A x \in DOMAIN files \ {id} : T[x] = files[x]
  BY MovedFacts
<1>3. StreamsFit(files, urls)
  BY DEF IInv
<1>4. urls \in Seq(Paths) /\ h.path \in Paths
  BY <1>1, TypeParts DEF IInv, RestTyped, Streams
<1>5. /\ Len(urls) \in Nat /\ DOMAIN urls = 1..Len(urls)
      /\ h.done => /\ DOMAIN U = 1..(Len(urls) + 1)
                   /\ U[Len(urls) + 1] = h.path
                   /\ \A i \in DOMAIN urls : U[i] = urls[i]
      /\ ~h.done => U = urls
  BY <1>4, Posted DEF Complete
<1> HIDE DEF T, U
<1>6. ASSUME NEW x \in DOMAIN T
      PROVE  /\ T[x].path = Path[T[x].index] /\ T[x].ver = seen
             /\ T[x].index \in DOMAIN copies[seen].sizes
             /\ T[x].sized => T[x].size = copies[seen].sizes[T[x].index]
             /\ T[x].written <= T[x].size
             /\ T[x].done => T[x].sized /\ T[x].written = T[x].size
             /\ ~T[x].sized => T[x].size = 0
  <2>1. CASE x = id
    BY <1>1, <1>2, <1>3, <2>1 DEF StreamsFit
  <2>2. CASE x # id
    BY <1>2, <1>3, <1>6, <2>2 DEF StreamsFit
  <2>3. QED
    BY <2>1, <2>2
<1>7. ASSUME NEW i \in DOMAIN U
      PROVE  \E x \in DOMAIN T : T[x].done /\ T[x].path = U[i]
  <2>1. CASE i \in DOMAIN urls /\ U[i] = urls[i]
    <3>1. PICK x \in DOMAIN files : files[x].done /\ files[x].path = urls[i]
      BY <1>3, <2>1 DEF StreamsFit
    <3>2. x # id
      BY <1>1, <3>1
    <3>3. QED
      BY <1>2, <2>1, <3>1, <3>2
  <2>2. CASE h.done /\ U[i] = h.path
    BY <1>1, <1>2, <2>2
  <2>3. QED
    BY <1>5, <2>1, <2>2
<1>8. ASSUME NEW x \in DOMAIN T, T[x].done
      PROVE  \E i \in DOMAIN U : U[i] = T[x].path
  <2>1. CASE x = id
    <3>1. Len(urls) + 1 \in DOMAIN U
      BY <1>2, <1>5, <1>8, <2>1
    <3>2. QED
      BY <1>2, <1>5, <1>8, <2>1, <3>1
  <2>2. CASE x # id
    <3>1. PICK i \in DOMAIN urls : urls[i] = files[x].path
      BY <1>2, <1>3, <1>8, <2>2 DEF StreamsFit
    <3>2. i \in DOMAIN U /\ U[i] = urls[i]
      BY <1>5
    <3>3. QED
      BY <1>2, <2>2, <1>8, <3>1, <3>2
  <2>3. QED
    BY <2>1, <2>2
<1>9. QED
  BY <1>6, <1>7, <1>8 DEF StreamsFit, T, U

LEMMA FitStep == IInv /\ [Next]_vars => StreamsFit(files, urls)'
<1> SUFFICES ASSUME IInv, [Next]_vars
             PROVE  StreamsFit(files, urls)'
  OBVIOUS
<1>1. StreamsFit(files, urls) /\ TypeOK
  BY DEF IInv
<1>2. \A id \in DOMAIN files : seen \in 1..Current
  BY SeenFacts
<1>3. ASSUME NEW o \in Offers, Copy(o)
      PROVE  StreamsFit(files, urls)'
  <2>1. UNCHANGED <<files, urls, seen>>
    BY <1>3 DEF Copy, fileVars
  <2>2. \A id \in DOMAIN files : copies'[seen] = copies[seen]
    BY <1>1, <1>2, <1>3, CopyMade
  <2>3. QED
    BY <1>1, <2>1, <2>2 DEF StreamsFit
<1>4. ASSUME UNCHANGED <<copies, files, urls, seen>>
      PROVE  StreamsFit(files, urls)'
  BY <1>1, <1>4 DEF StreamsFit
<1>5. (\E i \in DOMAIN toServer : Respond(i)) \/ Skip \/ DataResponse \/ SetClipboard
      \/ UNCHANGED vars => UNCHANGED <<copies, files, urls, seen>>
  BY DEF Respond, Skip, DataResponse, SetClipboard, vars, fileVars, serverVars
<1>6. CASE FormatList
  <2>1. DOMAIN files' = {} /\ DOMAIN urls' = {}
    BY <1>6, ListFacts, EmptyTable
  <2>2. QED
    BY <2>1 DEF StreamsFit
<1>7. CASE FileList
  <2>1. /\ UNCHANGED <<copies, seen, urls>>
        /\ DOMAIN files' = DOMAIN files \cup NewStreams
        /\ \A id \in DOMAIN files : files'[id] = files[id]
        /\ \A id \in NewStreams :
              /\ files'[id].index \in 1..Count
              /\ files'[id].path = Path[files'[id].index]
              /\ files'[id].ver = seen /\ ~files'[id].sized /\ ~files'[id].done
              /\ files'[id].size = 0 /\ files'[id].written = 0
        /\ DOMAIN copies[seen].sizes = 1..Count
    BY <1>7, FileListFacts
  <2>2. \A id \in NewStreams : files'[id].written <= files'[id].size
    BY <2>1
  <2>3. QED
    BY <1>1, <2>1, <2>2 DEF StreamsFit
<1>8. CASE Dropped
  <2>1. /\ UNCHANGED <<copies, urls, seen>> /\ toClient # <<>>
        /\ Head(toClient).id \in DOMAIN files
        /\ files' = [x \in DOMAIN files \ {Head(toClient).id} |-> files[x]]
    BY <1>8 DEF Dropped, Erase, serverVars
  <2>2. ~files[Head(toClient).id].done
    BY <2>1, StreamFacts
  <2>3. /\ DOMAIN files' = DOMAIN files \ {Head(toClient).id}
        /\ \A id \in DOMAIN files' : files'[id] = files[id]
    BY <2>1
  <2>4. \A id \in DOMAIN files : files[id].done => id \in DOMAIN files'
    BY <2>2, <2>3
  <2>5. ASSUME NEW i \in DOMAIN urls
        PROVE  \E id \in DOMAIN files' : files'[id].done /\ files'[id].path = urls[i]
    <3>1. PICK id \in DOMAIN files : files[id].done /\ files[id].path = urls[i]
      BY <1>1 DEF StreamsFit
    <3>2. QED
      BY <2>3, <2>4, <3>1
  <2>6. ASSUME NEW id \in DOMAIN files', files'[id].done
        PROVE  \E i \in DOMAIN urls : urls[i] = files'[id].path
    BY <1>1, <2>3, <2>6 DEF StreamsFit
  <2>7. ASSUME NEW id \in DOMAIN files'
        PROVE  /\ files'[id].path = Path[files'[id].index] /\ files'[id].ver = seen
               /\ files'[id].index \in DOMAIN copies[seen].sizes
               /\ files'[id].sized =>
                     files'[id].size = copies[seen].sizes[files'[id].index]
               /\ files'[id].written <= files'[id].size
               /\ files'[id].done =>
                     files'[id].sized /\ files'[id].written = files'[id].size
               /\ ~files'[id].sized => files'[id].size = 0
    BY <1>1, <2>3 DEF StreamsFit
  <2>8. UNCHANGED <<copies, urls, seen>>
    BY <2>1
  <2>9. QED
    BY <2>5, <2>6, <2>7, <2>8 DEF StreamsFit
<1>9. ASSUME NEW id, NEW h, Moved(id, h)
      PROVE  StreamsFit(files, urls)'
  <2>1. CASE files' = <<>> /\ urls' = <<>>
    <3>1. DOMAIN files' = {} /\ DOMAIN urls' = {}
      BY <2>1, EmptyTable
    <3>2. QED
      BY <3>1 DEF StreamsFit
  <2>2. CASE files' = Table(id, h) /\ urls' = Complete(id, h)
    <3>1. UNCHANGED <<copies, seen>>
      BY <1>9 DEF Moved
    <3>2. StreamsFit(Table(id, h), Complete(id, h))
      BY <1>9, MovedFits
    <3>3. QED
      BY <2>2, <3>1, <3>2 DEF StreamsFit
  <2>3. QED
    BY <1>9, <2>1, <2>2 DEF Moved
<1>10. QED
  BY <1>3, <1>4, <1>5, <1>6, <1>7, <1>8, <1>9, ClientSteps DEF Next

\* After a move what is on disk is still of the list.
LEMMA MovedDiskFits ==
    ASSUME IInv, NEW id, NEW h, Moved(id, h)
    PROVE  DiskFits(Table(id, h), disk')
<1> DEFINE T == Table(id, h)
<1>1. /\ id \in DOMAIN files /\ h.path = files[id].path
  BY DEF Moved
<1>2. /\ DOMAIN T = DOMAIN files /\ T[id] = h
      /\ \A x \in DOMAIN files \ {id} : T[x] = files[x]
      /\ \A x \in DOMAIN T : T[x] \in Streams
  BY MovedFacts
<1> HIDE DEF T
<1>3. DiskFits(files, disk)
  BY DEF IInv
<1>4. ASSUME NEW k \in DOMAIN disk'[h.path]
      PROVE  disk'[h.path][k] \in {seen, Hole}
  <2>1. CASE disk'[h.path] = <<>>
    BY <1>4, <2>1, EmptyTable
  <2>2. CASE /\ files[id].sized
             /\ disk'[h.path][k] = IF k = h.written THEN seen
                                   ELSE IF k \in DOMAIN disk[h.path]
                                        THEN disk[h.path][k] ELSE Hole
    BY <1>1, <1>3, <2>2 DEF DiskFits
  <2>3. CASE files[id].sized /\ UNCHANGED disk
    BY <1>1, <1>3, <1>4, <2>3 DEF DiskFits
  <2>4. QED
    BY <1>4, <2>1, <2>2, <2>3, MovedWrites
<1>5. ASSUME NEW x \in DOMAIN T, T[x].sized, NEW k \in DOMAIN disk'[T[x].path]
      PROVE  disk'[T[x].path][k] \in {seen, Hole}
  <2>1. CASE T[x].path = h.path
    BY <1>4, <1>5, <2>1
  <2>2. CASE T[x].path # h.path
    <3>1. x # id /\ T[x] = files[x] /\ T[x].path \in Paths
      BY <1>2, <2>2 DEF Streams
    <3>2. disk'[T[x].path] = disk[T[x].path]
      BY <2>2, <3>1, MovedWrites
    <3>3. QED
      BY <1>2, <1>3, <1>5, <3>1, <3>2 DEF DiskFits
  <2>3. QED
    BY <2>1, <2>2
<1>6. QED
  BY <1>5 DEF DiskFits, T

LEMMA DiskStep == IInv /\ [Next]_vars => DiskFits(files, disk)'
<1> SUFFICES ASSUME IInv, [Next]_vars
             PROVE  DiskFits(files, disk)'
  OBVIOUS
<1>1. DiskFits(files, disk)
  BY DEF IInv
<1>2. ASSUME UNCHANGED <<disk, seen>>, DOMAIN files' \subseteq DOMAIN files,
             \A id \in DOMAIN files' : files'[id] = files[id]
      PROVE  DiskFits(files, disk)'
  BY <1>1, <1>2 DEF DiskFits
<1>3. (\E o \in Offers : Copy(o)) \/ (\E i \in DOMAIN toServer : Respond(i))
      \/ Skip \/ DataResponse \/ SetClipboard \/ UNCHANGED vars
      => UNCHANGED <<disk, seen, files>>
  BY DEF Copy, Respond, Skip, DataResponse, SetClipboard, vars, fileVars
<1>4. CASE FormatList
  BY <1>4, ListFacts DEF DiskFits
<1>5. CASE FileList
  <2>1. /\ UNCHANGED <<disk, seen>>
        /\ DOMAIN files' = DOMAIN files \cup NewStreams
        /\ \A id \in DOMAIN files : files'[id] = files[id]
        /\ \A id \in NewStreams : ~files'[id].sized
    BY <1>5, FileListFacts
  <2>2. QED
    BY <1>1, <2>1 DEF DiskFits
<1>6. CASE Dropped
  <2>1. /\ UNCHANGED <<disk, seen>>
        /\ files' = [x \in DOMAIN files \ {Head(toClient).id} |-> files[x]]
    BY <1>6 DEF Dropped, Erase
  <2>2. QED
    BY <1>2, <2>1
<1>7. ASSUME NEW id, NEW h, Moved(id, h)
      PROVE  DiskFits(files, disk)'
  <2>1. CASE DOMAIN files' = {}
    BY <2>1 DEF DiskFits
  <2>2. CASE files' = Table(id, h)
    <3>1. seen' = seen
      BY <1>7 DEF Moved
    <3>2. DiskFits(Table(id, h), disk')
      BY <1>7, MovedDiskFits
    <3>3. QED
      BY <2>2, <3>1, <3>2 DEF DiskFits
  <2>3. QED
    BY <1>7, <2>1, <2>2, MovedFacts
<1>8. QED
  BY <1>2, <1>3, <1>4, <1>5, <1>6, <1>7, ClientSteps DEF Next
-----------------------------------------------------------------------------
(* No stream is left alone.                                                *)

\* What is under way for a stream stays so when a message of another is taken.
LEMMA UnderWayTaken ==
    ASSUME IInv, toClient # <<>>, toClient' = Tail(toClient), NEW id,
           UnderWay(id), id # Head(toClient).id,
           \A i \in DOMAIN toServer : i \in DOMAIN toServer' /\ toServer'[i] = toServer[i]
    PROVE  UnderWay(id)'
<1>1. CASE \E i \in DOMAIN toServer : toServer[i].id = id
  BY <1>1 DEF UnderWay
<1>2. ASSUME NEW i \in DOMAIN toClient, toClient[i].id = id
      PROVE  UnderWay(id)'
  <2>1. /\ Len(toClient) \in Nat \ {0} /\ DOMAIN toClient = 1..Len(toClient)
        /\ DOMAIN toClient' = 1..(Len(toClient) - 1)
        /\ \A j \in DOMAIN toClient' : toClient'[j] = toClient[j + 1]
        /\ Head(toClient) = toClient[1]
    BY Taken DEF IInv
  <2>2. i # 1
    BY <1>2, <2>1
  <2>3. i - 1 \in DOMAIN toClient' /\ (i - 1) + 1 = i
    BY <2>1, <2>2
  <2>4. toClient'[i - 1].id = id
    BY <1>2, <2>1, <2>3
  <2>5. QED
    BY <2>3, <2>4 DEF UnderWay
<1>3. QED
  BY <1>1, <1>2 DEF UnderWay

LEMMA GoOnStep == IInv /\ [Next]_vars => StreamsGoOn'
<1> SUFFICES ASSUME IInv, [Next]_vars
             PROVE  StreamsGoOn'
  OBVIOUS
<1>1. TypeOK /\ WiresTyped /\ StreamsGoOn /\ Current \in Nat /\ fails \in Nat
  BY Numbers DEF IInv
<1>2. /\ \A id \in DOMAIN files : id \in Nat \ {0} /\ id < nextId /\ seen \in 1..Current
      /\ nextId \in Nat \ {0}
  BY <1>1, SeenFacts DEF TypeOK
<1>3. ASSUME NEW o \in Offers, Copy(o)
      PROVE  StreamsGoOn'
  <2> DEFINE a == Msg("list", 0, None, Current + 1, 0)
  <2>1. toClient' = Append(toClient, a) /\ UNCHANGED <<toServer, files, seen, fails>>
    BY <1>3 DEF Copy, fileVars
  <2>2. a \in Messages
    BY <1>1 DEF Msg, Messages, LocalFormats
  <2>3. \A id \in DOMAIN files : copies'[seen] = copies[seen]
    BY <1>1, <1>2, <1>3, CopyMade
  <2> HIDE DEF a
  <2>4. \A i \in DOMAIN toClient : i \in DOMAIN toClient' /\ toClient'[i] = toClient[i]
    BY <1>1, <2>1, <2>2, Sent
  <2>5. \A id \in DOMAIN files : UnderWay(id) => UnderWay(id)'
    BY <2>1, <2>4 DEF UnderWay
  <2>6. QED
    BY <1>1, <2>1, <2>3, <2>5 DEF StreamsGoOn, AllStreams
<1>4. ASSUME NEW i \in DOMAIN toServer, Respond(i)
      PROVE  StreamsGoOn'
  <2>1. PICK a \in Messages :
            /\ toClient' = Append(toClient, a) /\ AnswerTo(toServer[i], a)
            /\ a = Answer(toServer[i]) \/ fails' > 0
    BY <1>4, RespondFacts
  <2>2. UNCHANGED <<copies, files, seen>>
    BY <1>4 DEF Respond, fileVars
  <2>3. fails' = 0 => fails = 0
    BY <1>1, <1>4, RespondFacts
  <2>4. /\ \A j \in DOMAIN toClient : j \in DOMAIN toClient' /\ toClient'[j] = toClient[j]
        /\ Len(toClient) + 1 \in DOMAIN toClient'
        /\ toClient'[Len(toClient) + 1].id = toServer[i].id
    BY <1>1, <2>1, Sent DEF AnswerTo
  <2>5. \A k \in DOMAIN toServer \ {i} :
            \E j \in DOMAIN toServer' : toServer'[j] = toServer[k]
    <3>1. ASSUME NEW k \in DOMAIN toServer \ {i}
          PROVE  \E j \in DOMAIN toServer' : toServer'[j] = toServer[k]
      <4>1. PICK j \in DOMAIN toServer' : Past(i, j) = k
        BY <1>4, RespondLeft
      <4>2. toServer'[j] = toServer[k]
        BY <1>4, <4>1, RespondLeft
      <4>3. QED
        BY <4>2
    <3>2. QED
      BY <3>1
  <2>6. ASSUME NEW id \in DOMAIN files, UnderWay(id)
        PROVE  UnderWay(id)'
    <3>1. CASE toServer[i].id = id
      BY <2>4, <3>1 DEF UnderWay
    <3>2. ASSUME NEW k \in DOMAIN toServer \ {i}, toServer[k].id = id
          PROVE  UnderWay(id)'
      <4>1. PICK j \in DOMAIN toServer' : toServer'[j] = toServer[k]
        BY <2>5
      <4>2. QED
        BY <3>2, <4>1 DEF UnderWay
    <3>3. ASSUME NEW k \in DOMAIN toClient, toClient[k].id = id
          PROVE  UnderWay(id)'
      BY <2>4, <3>3 DEF UnderWay
    <3>4. QED
      BY <2>6, <3>1, <3>2, <3>3 DEF UnderWay
  <2>7. QED
    BY <1>1, <2>2, <2>3, <2>6 DEF StreamsGoOn, AllStreams
<1>5. CASE FormatList
  BY <1>5, ListFacts DEF StreamsGoOn
<1>6. CASE Skip \/ DataResponse
  <2>1. /\ toClient # <<>> /\ toClient' = Tail(toClient)
        /\ UNCHANGED <<copies, toServer, files, seen, fails>>
    BY <1>6 DEF Skip, DataResponse, Receive, serverVars, fileVars
  <2>2. Head(toClient).id \notin DOMAIN files
    <3>1. CASE Skip
      BY <3>1 DEF Skip
    <3>2. CASE DataResponse
      <4>1. Head(toClient).type = "data"
        BY <3>2 DEF DataResponse, Receive
      <4>2. Head(toClient).id = 0
        BY <1>1, <2>1, <4>1, HeadFacts DEF IInv, WiresTyped
      <4>3. QED
        BY <1>2, <4>2
    <3>3. QED
      BY <1>6, <3>1, <3>2
  <2>3. \A id \in DOMAIN files : UnderWay(id) => UnderWay(id)'
    BY <2>1, <2>2, UnderWayTaken
  <2>4. QED
    BY <1>1, <2>1, <2>3 DEF StreamsGoOn, AllStreams
<1>7. CASE FileList
  <2>1. /\ toClient # <<>> /\ toClient' = Tail(toClient)
        /\ Head(toClient).type = "data"
        /\ UNCHANGED <<copies, seen, fails>>
        /\ DOMAIN files' = DOMAIN files \cup NewStreams
        /\ \A id \in DOMAIN files : files'[id] = files[id]
        /\ \A id \in NewStreams :
              files'[id].index = id - nextId + 1 /\ ~files'[id].done
        /\ Count \in Nat \ {0} /\ DOMAIN copies[seen].sizes = 1..Count
    BY <1>7, FileListFacts
  <2>2. Head(toClient).id = 0
    BY <1>1, <2>1, HeadFacts DEF IInv, WiresTyped
  <2>3. /\ \A i \in DOMAIN toServer : i \in DOMAIN toServer' /\ toServer'[i] = toServer[i]
        /\ \A i \in 1..Count : /\ Len(toServer) + i \in DOMAIN toServer'
                               /\ toServer'[Len(toServer) + i].id = nextId + i - 1
    <3>1. /\ Len(toServer) \in Nat /\ DOMAIN toServer = 1..Len(toServer)
          /\ DOMAIN toServer' = 1..(Len(toServer) + Count)
          /\ \A i \in DOMAIN toServer : toServer'[i] = toServer[i]
          /\ \A i \in 1..Count : toServer'[Len(toServer) + i].id = nextId + i - 1
      BY <1>7, FileListAsks
    <3>2. QED
      BY <2>1, <3>1
  <2>4. ASSUME NEW id \in DOMAIN files, UnderWay(id)
        PROVE  UnderWay(id)'
    BY <1>2, <2>1, <2>2, <2>3, <2>4, UnderWayTaken
  <2>5. ASSUME NEW id \in NewStreams
        PROVE  UnderWay(id)'
    <3>1. id - nextId + 1 \in 1..Count /\ nextId + (id - nextId + 1) - 1 = id
      BY <1>2, <2>1 DEF NewStreams
    <3>2. toServer'[Len(toServer) + (id - nextId + 1)].id = id
      BY <2>3, <3>1
    <3>3. QED
      BY <2>3, <3>1, <3>2 DEF UnderWay
  <2>6. \E id \in DOMAIN files' : ~files'[id].done
    <3>1. nextId \in NewStreams
      BY <1>2, <2>1 DEF NewStreams
    <3>2. QED
      BY <2>1, <3>1
  <2>7. ASSUME NEW i \in 1..Count
        PROVE  \E id \in DOMAIN files' : files'[id].index = i
    <3>1. nextId + i - 1 \in NewStreams /\ (nextId + i - 1) - nextId + 1 = i
      BY <1>2, <2>1 DEF NewStreams
    <3>2. QED
      BY <2>1, <3>1
  <2>8. QED
    BY <1>1, <2>1, <2>4, <2>5, <2>6, <2>7 DEF StreamsGoOn, AllStreams
<1>8. CASE Dropped
  <2>1. /\ toClient # <<>> /\ toClient' = Tail(toClient)
        /\ toServer' = toServer /\ fails' > 0 /\ fails' # 0
        /\ files' = [x \in DOMAIN files \ {Head(toClient).id} |-> files[x]]
    BY <1>1, <1>8 DEF Dropped, Erase, serverVars
  <2>2. /\ DOMAIN files' = DOMAIN files \ {Head(toClient).id}
        /\ \A id \in DOMAIN files' : files'[id] = files[id]
    BY <2>1
  <2>3. \A id \in DOMAIN files' : UnderWay(id) => UnderWay(id)'
    BY <2>1, <2>2, UnderWayTaken
  <2>4. QED
    BY <1>1, <2>1, <2>2, <2>3 DEF StreamsGoOn
<1>9. ASSUME NEW id, NEW h, Moved(id, h)
      PROVE  StreamsGoOn'
  <2>1. /\ toClient # <<>> /\ toClient' = Tail(toClient) /\ id = Head(toClient).id
        /\ id \in DOMAIN files /\ h \in Streams /\ h.index = files[id].index
        /\ toServer' = IF h.done THEN toServer
                       ELSE Append(toServer, Ask("range", id, None, h.index))
        /\ UNCHANGED <<copies, seen, fails>>
    BY <1>9 DEF Moved
  <2>2. CASE DOMAIN files' = {}
    BY <2>2 DEF StreamsGoOn
  <2>3. CASE ~AllDone(Table(id, h))
    <3>1. /\ files' = Table(id, h)
          /\ DOMAIN files' = DOMAIN files /\ files'[id] = h
          /\ \A x \in DOMAIN files \ {id} : files'[x] = files[x]
      BY <1>9, <2>3, MovedFacts DEF Moved
    <3>2. \E x \in DOMAIN files' : ~files'[x].done
      BY <2>3, <3>1 DEF AllDone
    <3>3. AllStreams(files) => \A i \in DOMAIN copies[seen].sizes :
                                   \E x \in DOMAIN files' : files'[x].index = i
      <4>1. \A x \in DOMAIN files : files'[x].index = files[x].index
        BY <2>1, <3>1
      <4>2. QED
        BY <3>1, <4>1 DEF AllStreams
    <3>4. /\ \A i \in DOMAIN toServer :
                i \in DOMAIN toServer' /\ toServer'[i] = toServer[i]
          /\ ~h.done => UnderWay(id)'
      <4>1. CASE h.done
        BY <2>1, <4>1
      <4>2. CASE ~h.done
        <5>1. h.index \in DOMAIN Path
          BY <2>1 DEF Streams
        <5>2. h.index \in Nat /\ id \in Nat
          BY <1>1, <1>2, <2>1, <5>1, Numbers
        <5>3. /\ Ask("range", id, None, h.index) \in Requests
              /\ Ask("range", id, None, h.index).id = id
          BY <5>2 DEF Ask, Msg, Requests, LocalFormats
        <5>4. /\ Len(toServer) \in Nat /\ DOMAIN toServer = 1..Len(toServer)
              /\ DOMAIN toServer' = 1..(Len(toServer) + 1)
              /\ \A i \in DOMAIN toServer : toServer'[i] = toServer[i]
              /\ toServer'[Len(toServer) + 1].id = id
          BY <1>1, <2>1, <4>2, <5>3, Requested
        <5>5. Len(toServer) + 1 \in DOMAIN toServer'
          BY <5>4
        <5>6. QED
          BY <5>4, <5>5 DEF UnderWay
      <4>3. QED
        BY <4>1, <4>2
    <3>5. ASSUME NEW x \in DOMAIN files \ {id}, UnderWay(x)
          PROVE  UnderWay(x)'
      BY <2>1, <3>4, <3>5, UnderWayTaken
    <3>6. QED
      BY <1>1, <2>1, <3>1, <3>2, <3>3, <3>4, <3>5 DEF StreamsGoOn, AllStreams
  <2>4. QED
    BY <1>9, <2>2, <2>3, EmptyTable DEF Moved
<1>10. CASE SetClipboard \/ UNCHANGED vars
  <2>1. UNCHANGED <<copies, toServer, toClient, files, seen, fails>>
    BY <1>10 DEF SetClipboard, serverVars, fileVars, vars
  <2>2. \A id \in DOMAIN files : UnderWay(id) => UnderWay(id)'
    BY <2>1 DEF UnderWay
  <2>3. QED
    BY <1>1, <2>1, <2>2 DEF StreamsGoOn, AllStreams
<1>11. QED
  BY <1>3, <1>4, <1>5, <1>6, <1>7, <1>8, <1>9, <1>10, ClientSteps DEF Next
-----------------------------------------------------------------------------
(* The newest copy arrives.                                                *)

LEMMA SlotStep ==
    ASSUME IInv, [Next]_vars
    PROVE  /\ slot' # "files" => DOMAIN files' = {}
           /\ seen' > 0 /\ copies'[seen'].fmts # {}
                => slot' = Best(copies'[seen'].fmts)
<1>1. /\ TypeOK /\ (slot # "files" => DOMAIN files = {})
      /\ seen > 0 /\ copies[seen].fmts # {} => slot = Best(copies[seen].fmts)
      /\ seen \in 0..Current /\ Current \in Nat
  BY Numbers DEF IInv, OnItsWay, TypeOK
<1>2. ASSUME NEW o \in Offers, Copy(o)
      PROVE  /\ slot' # "files" => DOMAIN files' = {}
             /\ seen' > 0 /\ copies'[seen'].fmts # {}
                => slot' = Best(copies'[seen'].fmts)
  <2>1. UNCHANGED <<files, slot, seen>>
    BY <1>2 DEF Copy, fileVars
  <2>2. seen > 0 => copies'[seen] = copies[seen]
    BY <1>1, <1>2, CopyMade
  <2>3. QED
    BY <1>1, <2>1, <2>2
<1>3. CASE UNCHANGED <<copies, files, slot, seen>>
  BY <1>1, <1>3
<1>4. (\E i \in DOMAIN toServer : Respond(i)) \/ Skip \/ DataResponse \/ SetClipboard
      \/ UNCHANGED vars => UNCHANGED <<copies, files, slot, seen>>
  BY DEF Respond, Skip, DataResponse, SetClipboard, vars, fileVars, serverVars
<1>5. CASE FormatList
  BY <1>5, ListFacts
<1>6. CASE FileList
  BY <1>1, <1>6, FileListFacts
<1>7. CASE Dropped
  BY <1>1, <1>7 DEF Dropped, serverVars
<1>8. ASSUME NEW id, NEW h, Moved(id, h)
      PROVE  /\ slot' # "files" => DOMAIN files' = {}
             /\ seen' > 0 /\ copies'[seen'].fmts # {}
                => slot' = Best(copies'[seen'].fmts)
  BY <1>1, <1>8 DEF Moved
<1>9. QED
  BY <1>2, <1>3, <1>4, <1>5, <1>6, <1>7, <1>8, ClientSteps DEF Next

\* While nothing fails, a request for data turns into its answer.
LEMMA WayAnswered ==
    ASSUME IInv, NEW i \in DOMAIN toServer, Respond(i), fails' = 0,
           Current > 0, copies[Current].fmts # {}, UnderWayOrShown
    PROVE  UnderWayOrShown'
<1> DEFINE r == toServer[i]
<1>1. TypeOK /\ WiresTyped /\ fails \in Nat /\ Current \in 1..Current
  BY Numbers DEF IInv
<1>2. PICK a \in Messages :
          /\ toClient' = Append(toClient, a) /\ AnswerTo(toServer[i], a)
          /\ a = Answer(toServer[i]) \/ fails' > 0
  BY RespondFacts
<1>3. a = Answer(r)
  BY <1>2
<1>4. UNCHANGED <<copies, files, posted, mac>> /\ Wanted' = Wanted
  BY DEF Respond, fileVars, Wanted, Current
<1>5. r.type \in {"data", "size", "range"}
  <2>1. toServer \in Seq(Requests)
    BY <1>1 DEF WiresTyped
  <2>2. r \in Requests
    BY <2>1
  <2>3. QED
    BY <2>2 DEF Requests
<1>6. /\ Len(toClient) \in Nat /\ DOMAIN toClient = 1..Len(toClient)
      /\ DOMAIN toClient' = 1..(Len(toClient) + 1)
      /\ \A j \in DOMAIN toClient : toClient'[j] = toClient[j]
      /\ toClient'[Len(toClient) + 1] = a
  BY <1>1, <1>2, Sent
<1>7. ASSUME NoData(toServer, 0)
      PROVE  /\ NoData(toServer', 0)
             /\ \A k \in DOMAIN toClient : NoData(toClient, k) => NoData(toClient', k)
             /\ NoData(toClient, 0) => NoData(toClient', 0)
  <2>1. \A j \in DOMAIN toServer : toServer[j].type # "data"
    <3>1. toServer \in Seq(Requests)
      BY <1>1 DEF WiresTyped
    <3>2. \A j \in DOMAIN toServer : j > 0
      BY <3>1
    <3>3. QED
      BY <1>7, <3>2 DEF NoData
  <2>2. NoData(toServer', 0)
    BY <2>1, RespondLeft DEF NoData
  <2>3. a.type # "data"
    BY <1>2, <1>5, <2>1 DEF AnswerTo
  <2>4. \A k \in Nat : NoData(toClient, k) => NoData(toClient', k)
    BY <1>6, <2>3 DEF NoData
  <2>5. QED
    BY <1>6, <2>2, <2>4
<1>8. CASE Asked
  <2>1. PICK k \in DOMAIN toServer : LastData(toServer, k)
    BY <1>8 DEF Asked
  <2>2. CASE k = i
    <3>1. r.type = "data" /\ r.fmt = Wanted
      BY <2>1, <2>2 DEF LastData
    <3>2. Wanted \in copies[Current].fmts
      BY <1>1, CopyFacts DEF TypeOK, Wanted
    <3>3. a.type = "data" /\ a.fmt = Wanted
      BY <1>2, <1>3, <3>1, <3>2, AnswersWell DEF AnswerTo
    <3>4. ASSUME NEW j \in DOMAIN toServer'
          PROVE  toServer'[j].type # "data"
      <4>1. toServer'[j] = toServer[Past(i, j)] /\ Past(i, j) \in DOMAIN toServer \ {i}
        BY RespondLeft
      <4>2. \A l \in 1..(i - 1) : toServer[l].type # "data"
        BY <3>1 DEF Respond
      <4>3. \A l \in DOMAIN toServer : l > i => toServer[l].type # "data"
        BY <2>1, <2>2 DEF LastData, NoData
      <4>4. toServer \in Seq(Requests)
        BY <1>1 DEF WiresTyped
      <4>5. \A l \in DOMAIN toServer \ {i} : l \in 1..(i - 1) \/ l > i
        BY <4>4
      <4>6. QED
        BY <4>1, <4>2, <4>3, <4>5
    <3>5. LastData(toClient', Len(toClient) + 1) /\ Len(toClient) + 1 \in DOMAIN toClient'
      BY <1>4, <1>6, <3>3 DEF LastData, NoData
    <3>6. Answered'
      BY <1>4, <3>4, <3>5 DEF Answered, NoData, LastData
    <3>7. QED
      BY <3>6 DEF UnderWayOrShown
  <2>3. CASE k # i
    <3>1. PICK j \in DOMAIN toServer' : Past(i, j) = k
      BY <2>3, RespondLeft
    <3>2. toServer'[j].type = "data" /\ toServer'[j].fmt = Wanted
      BY <2>1, <3>1, RespondLeft DEF LastData
    <3>3. ASSUME NEW l \in DOMAIN toServer', l > j
          PROVE  toServer'[l].type # "data"
      <4>1. /\ toServer'[l] = toServer[Past(i, l)] /\ Past(i, l) \in DOMAIN toServer
            /\ DOMAIN toServer' = 1..(Len(toServer) - 1)
        BY RespondLeft
      <4>2. l \in Int /\ j \in Int
        BY <4>1
      <4>3. j < l
        BY <3>3, <4>2
      <4>4. k < Past(i, l)
        BY <3>1, <4>3, RespondLeft
      <4>5. k \in Int /\ Past(i, l) \in Int
        <5>1. toServer \in Seq(Requests)
          BY <1>1 DEF WiresTyped
        <5>2. QED
          BY <4>1, <5>1
      <4>6. Past(i, l) > k
        BY <4>4, <4>5
      <4>7. QED
        BY <2>1, <4>1, <4>6 DEF LastData, NoData
    <3>4. Asked'
      BY <1>4, <3>2, <3>3 DEF Asked, LastData, NoData
    <3>5. QED
      BY <3>4 DEF UnderWayOrShown
  <2>4. QED
    BY <2>2, <2>3
<1>9. CASE Answered
  <2>1. PICK k \in DOMAIN toClient : LastData(toClient, k)
    BY <1>9 DEF Answered
  <2>2. NoData(toServer, 0)
    BY <1>9 DEF Answered
  <2>3. NoData(toServer', 0) /\ NoData(toClient', k)
    BY <1>7, <2>1, <2>2 DEF LastData
  <2>4. k \in DOMAIN toClient' /\ toClient'[k] = toClient[k]
    BY <1>6
  <2>5. LastData(toClient, k)'
    BY <1>4, <2>1, <2>3, <2>4 DEF LastData, NoData
  <2>6. Answered'
    BY <2>3, <2>4, <2>5 DEF Answered, NoData
  <2>7. QED
    BY <2>6 DEF UnderWayOrShown
<1>10. CASE Wanted = "files" /\ DOMAIN files # {}
  BY <1>4, <1>10 DEF UnderWayOrShown
<1>11. CASE Settled
  <2>1. Shown'
    BY <1>4, <1>11 DEF Settled, Shown, IsNewest, Current
  <2>2. Wanted # "files" => NoData(toServer', 0) /\ NoData(toClient', 0)
    BY <1>7, <1>11 DEF Settled
  <2>3. Settled'
    BY <1>4, <2>1, <2>2 DEF Settled, NoData
  <2>4. QED
    BY <2>3 DEF UnderWayOrShown
<1>12. QED
  BY <1>8, <1>9, <1>10, <1>11 DEF UnderWayOrShown

\* When a message is taken the request stays last; the last answer does too, unless
\* it is the one taken.
LEMMA WayTaken ==
    ASSUME IInv, toClient # <<>>, toClient' = Tail(toClient),
           UNCHANGED <<copies, toServer>>
    PROVE  /\ Asked => Asked'
           /\ Answered => \/ Answered'
                          \/ /\ Head(toClient).type = "data"
                             /\ Head(toClient).fmt = Wanted
                             /\ NoData(toServer, 0)' /\ NoData(toClient, 0)'
           /\ NoData(toServer, 0) => NoData(toServer, 0)'
           /\ NoData(toClient, 0) =>
                 NoData(toClient, 0)' /\ Head(toClient).type # "data"
<1>1. /\ Len(toClient) \in Nat \ {0} /\ DOMAIN toClient = 1..Len(toClient)
      /\ DOMAIN toClient' = 1..(Len(toClient) - 1)
      /\ \A j \in DOMAIN toClient' :
            toClient'[j] = toClient[j + 1] /\ j + 1 \in DOMAIN toClient
      /\ Head(toClient) = toClient[1] /\ 1 \in DOMAIN toClient
  BY Taken DEF IInv
<1>2. Wanted' = Wanted
  BY DEF Wanted, Current
<1>3. Asked => Asked'
  BY <1>2 DEF Asked, LastData, NoData
<1>4. NoData(toServer, 0) => NoData(toServer, 0)'
  BY DEF NoData
<1>5. NoData(toClient, 0) => NoData(toClient, 0)' /\ Head(toClient).type # "data"
  BY <1>1 DEF NoData
<1>6. ASSUME NEW k \in DOMAIN toClient, LastData(toClient, k), Answered
      PROVE  \/ Answered'
             \/ /\ Head(toClient).type = "data" /\ Head(toClient).fmt = Wanted
                /\ NoData(toServer, 0)' /\ NoData(toClient, 0)'
  <2>1. NoData(toServer, 0)'
    BY <1>4, <1>6 DEF Answered
  <2>2. CASE k = 1
    <3>1. NoData(toClient, 0)'
      BY <1>1, <1>6, <2>2 DEF LastData, NoData
    <3>2. QED
      BY <1>1, <1>6, <2>1, <2>2, <3>1 DEF LastData
  <2>3. CASE k # 1
    <3>1. k - 1 \in DOMAIN toClient' /\ toClient'[k - 1] = toClient[k]
      <4>1. k - 1 \in DOMAIN toClient' /\ (k - 1) + 1 = k
        BY <1>1, <2>3
      <4>2. QED
        BY <1>1, <4>1
    <3>2. NoData(toClient', k - 1)
      BY <1>1, <1>6 DEF LastData, NoData
    <3>3. LastData(toClient', k - 1) /\ toClient'[k - 1].fmt = Wanted'
      BY <1>2, <1>6, <3>1, <3>2 DEF LastData
    <3>4. Answered'
      BY <1>2, <2>1, <3>1, <3>3 DEF Answered, LastData, NoData
    <3>5. QED
      BY <3>4
  <2>4. QED
    BY <2>2, <2>3
<1>7. QED
  BY <1>3, <1>4, <1>5, <1>6 DEF Answered

LEMMA WayStep ==
    ASSUME IInv, [Next]_vars, fails' = 0, seen' = Current', Current' > 0,
           copies'[Current'].fmts # {}
    PROVE  UnderWayOrShown'
<1>1. /\ TypeOK /\ WiresTyped /\ fails \in Nat /\ seen \in 0..Current /\ Current \in Nat
      /\ posted \in Seq(Clipboards)
      /\ fails = 0 /\ seen = Current /\ Current > 0 /\ copies[Current].fmts # {} =>
            UnderWayOrShown /\ slot = Wanted
  BY Numbers DEF IInv, OnItsWay, TypeOK, Wanted
<1>2. ASSUME fails' = fails, UNCHANGED <<copies, seen>>
      PROVE  /\ fails = 0 /\ seen = Current /\ Current > 0 /\ Current' = Current
             /\ UnderWayOrShown /\ slot = Wanted /\ Wanted' = Wanted
             /\ Wanted \in Formats /\ None \notin Formats
             /\ copies[Current].fmts # {}
  <2>1. Current' = Current /\ Wanted' = Wanted /\ copies[Current].fmts # {}
    BY <1>2 DEF Current, Wanted
  <2>2. Current \in 1..Current
    BY <1>1, <2>1
  <2>3. Wanted \in Formats /\ None \notin Formats
    BY <1>1, <2>1, <2>2, CopyFacts DEF TypeOK, Wanted
  <2>4. QED
    BY <1>1, <1>2, <2>1, <2>3
<1>3. ASSUME NEW o \in Offers, Copy(o)
      PROVE  UnderWayOrShown'
  <2>1. Current' = Current + 1 /\ seen' = seen
    BY <1>1, <1>3, CopyMade DEF Copy
  <2>2. QED
    BY <1>1, <2>1
<1>4. ASSUME NEW i \in DOMAIN toServer, Respond(i)
      PROVE  UnderWayOrShown'
  <2>1. UNCHANGED <<copies, seen>> /\ fails' \in fails..MaxFails /\ MaxFails \in Nat
    BY <1>1, <1>4, RespondFacts, Numbers DEF Respond
  <2>2. fails' = fails
    BY <1>1, <2>1
  <2>3. QED
    BY <1>2, <1>4, <2>1, <2>2, WayAnswered
<1>5. CASE FormatList
  <2>1. /\ slot' = Best(copies'[seen'].fmts) /\ slot' \in Formats
        /\ toServer' = Append(toServer, Ask("data", 0, slot', 0))
    BY <1>1, <1>5, ListFacts DEF Current
  <2>2. slot' = Wanted'
    BY <2>1 DEF Wanted
  <2>3. /\ Ask("data", 0, slot', 0) \in Requests
        /\ Ask("data", 0, slot', 0).type = "data" /\ Ask("data", 0, slot', 0).fmt = slot'
    BY <2>1 DEF Ask, Msg, Requests, LocalFormats
  <2>4. /\ Len(toServer) \in Nat /\ DOMAIN toServer' = 1..(Len(toServer) + 1)
        /\ toServer'[Len(toServer) + 1] = Ask("data", 0, slot', 0)
    BY <1>1, <2>1, <2>3, Requested
  <2>5. Len(toServer) + 1 \in DOMAIN toServer' /\ NoData(toServer', Len(toServer) + 1)
    BY <2>4 DEF NoData
  <2>6. Asked'
    BY <2>2, <2>3, <2>4, <2>5 DEF Asked, LastData, NoData
  <2>7. QED
    BY <2>6 DEF UnderWayOrShown
<1>6. CASE Skip
  <2>1. /\ toClient # <<>> /\ toClient' = Tail(toClient)
        /\ UNCHANGED <<copies, toServer, files, posted, mac, seen, fails>>
        /\ Head(toClient).type = "data" =>
              \/ Head(toClient).fmt = None
              \/ slot = "files" /\ Head(toClient).fmt # "files"
    BY <1>6 DEF Skip, serverVars, fileVars
  <2>2. /\ UnderWayOrShown /\ slot = Wanted /\ Wanted' = Wanted /\ Wanted # None
        /\ Current' = Current
    BY <1>2, <2>1
  <2>3. ~(Head(toClient).type = "data" /\ Head(toClient).fmt = Wanted)
    BY <2>1, <2>2
  <2>4. CASE Asked \/ Answered
    BY <2>1, <2>3, <2>4, WayTaken DEF UnderWayOrShown
  <2>5. CASE Wanted = "files" /\ DOMAIN files # {}
    BY <2>1, <2>2, <2>5 DEF UnderWayOrShown
  <2>6. CASE Settled
    <3>1. Shown'
      BY <2>1, <2>2, <2>6 DEF Settled, Shown, IsNewest
    <3>2. Settled'
      BY <2>1, <2>2, <2>6, <3>1, WayTaken DEF Settled
    <3>3. QED
      BY <3>2 DEF UnderWayOrShown
  <2>7. QED
    BY <2>2, <2>4, <2>5, <2>6 DEF UnderWayOrShown
<1>7. CASE DataResponse
  <2> DEFINE m == Head(toClient)
             c == Pasted(slot, m.fmt, m.ver)
  <2>1. /\ toClient # <<>> /\ toClient' = Tail(toClient) /\ m.type = "data"
        /\ slot # "files" /\ posted' = Append(posted, c)
        /\ UNCHANGED <<copies, toServer, files, mac, seen, fails>>
    BY <1>7 DEF DataResponse, Receive, serverVars, fileVars
  <2>2. /\ UnderWayOrShown /\ slot = Wanted /\ Wanted' = Wanted /\ Wanted # "files"
        /\ Current' = Current /\ seen = Current
    BY <1>2, <2>1
  <2>3. m.ver = seen
    BY <1>1, <2>1, HeadFacts DEF IInv
  <2>4. m.fmt \in LocalFormats /\ slot \in LocalFormats /\ m.ver \in Versions
    BY <1>1, <2>1, <2>3, HeadFacts, Numbers DEF IInv, TypeOK, LocalFormats, Messages
  <2>5. c \in Clipboards /\ c.fmt = slot /\ c.real = m.fmt /\ c.ver = m.ver
    BY <1>1, <2>4, ClipboardTypes
  <2> HIDE DEF c
  <2>6. posted' # <<>> /\ posted'[Len(posted')] = c
    BY <1>1, <2>1, <2>5, Posted
  <2>7. CASE m.fmt = Wanted /\ NoData(toServer, 0)' /\ NoData(toClient, 0)'
    <3>1. c.ver = Current' /\ c.fmt = Wanted' /\ c.real = Wanted' /\ Wanted' # "files"
      BY <2>2, <2>3, <2>5, <2>7
    <3>2. Shown'
      BY <2>6, <3>1 DEF Shown, IsNewest
    <3>3. QED
      BY <2>7, <3>2 DEF UnderWayOrShown, Settled
  <2>8. CASE Asked' \/ Answered'
    BY <2>8 DEF UnderWayOrShown
  <2>9. ~Settled
    BY <2>1, <2>2, WayTaken DEF Settled
  <2>10. QED
    BY <2>1, <2>2, <2>7, <2>8, <2>9, WayTaken DEF UnderWayOrShown
<1>8. CASE FileList
  <2>1. /\ UNCHANGED <<copies, seen, fails>> /\ slot = "files" /\ Count \in Nat \ {0}
        /\ DOMAIN files' = DOMAIN files \cup NewStreams
    BY <1>8, FileListFacts
  <2>2. nextId \in NewStreams
    BY <1>1, <2>1 DEF TypeOK, NewStreams
  <2>3. Wanted' = "files"
    BY <1>2, <2>1
  <2>4. QED
    BY <2>1, <2>2, <2>3 DEF UnderWayOrShown
<1>9. CASE Dropped
  BY <1>9 DEF Dropped
<1>10. ASSUME NEW id, NEW h, Moved(id, h)
       PROVE  UnderWayOrShown'
  <2>1. /\ id \in DOMAIN files /\ UNCHANGED <<copies, seen, fails>>
        /\ IF AllDone(Table(id, h))
           THEN posted' = Append(posted, Received(Complete(id, h), seen))
           ELSE files' = Table(id, h)
    BY <1>10 DEF Moved
  <2>2. slot = "files"
    BY <2>1 DEF IInv, OnItsWay
  <2>3. Wanted' = "files" /\ seen = Current'
    BY <1>2, <2>1, <2>2
  <2>4. CASE AllDone(Table(id, h))
    <3> DEFINE c == Received(Complete(id, h), seen)
    <3>1. h.done
      BY <1>10, <2>1, <2>4, MovedFacts DEF AllDone
    <3>2. Complete(id, h) \in Seq(Paths) /\ Complete(id, h) # <<>>
      <4>1. h.path \in Paths /\ urls \in Seq(Paths)
        BY <1>1, <1>10 DEF Moved, Streams, TypeOK
      <4>2. QED
        BY <3>1, <4>1, Posted DEF Complete
    <3>3. /\ c \in Clipboards /\ c.fmt = "files" /\ c.real = "files" /\ c.ver = seen
          /\ c.urls = Complete(id, h)
      BY <1>1, <3>2, ClipboardTypes, Numbers
    <3> HIDE DEF c
    <3>4. posted' = Append(posted, c)
      BY <2>1, <2>4 DEF c
    <3>5. posted' # <<>> /\ posted'[Len(posted')] = c
      BY <1>1, <3>3, <3>4, Posted
    <3>6. Shown'
      BY <2>3, <3>2, <3>3, <3>5 DEF Shown, IsNewest
    <3>7. QED
      BY <2>3, <3>6 DEF UnderWayOrShown, Settled
  <2>5. CASE ~AllDone(Table(id, h))
    <3>1. DOMAIN files' = DOMAIN files
      BY <1>10, <2>1, <2>5, MovedFacts
    <3>2. QED
      BY <2>1, <2>3, <3>1 DEF UnderWayOrShown
  <2>6. QED
    BY <2>4, <2>5
<1>11. CASE SetClipboard
  <2> DEFINE c == Head(posted)
  <2>1. /\ posted # <<>> /\ posted' = Tail(posted)
        /\ mac' = IF \/ c.fmt = "image" /\ c.real # "image"
                     \/ c.fmt = "files" /\ c.urls = <<>>
                  THEN mac ELSE c
        /\ UNCHANGED <<copies, toServer, toClient, files, seen, fails>>
    BY <1>11 DEF SetClipboard, serverVars, fileVars
  <2>2. UnderWayOrShown /\ Wanted' = Wanted /\ Current' = Current
    BY <1>2, <2>1
  <2>3. CASE Asked \/ Answered \/ (Wanted = "files" /\ DOMAIN files # {})
    BY <2>1, <2>2, <2>3 DEF UnderWayOrShown, Asked, Answered, LastData, NoData
  <2>4. CASE Settled
    <3>1. /\ c = posted[1] /\ Len(posted) \in Nat /\ Len(posted) >= 1
          /\ Len(posted') = Len(posted) - 1
          /\ \A i \in 1..(Len(posted) - 1) : posted'[i] = posted[i + 1]
          /\ posted' \in Seq(Clipboards)
      BY <1>1, <2>1, Drained
    <3>2. IsNewest(posted[Len(posted)])
      BY <2>1, <2>4 DEF Settled, Shown
    <3>3. CASE Len(posted) = 1
      <4>1. IsNewest(c)
        BY <3>1, <3>2, <3>3
      <4>2. mac' = c
        BY <2>1, <4>1 DEF IsNewest
      <4>3. posted' = <<>>
        BY <3>1, <3>3
      <4>4. QED
        BY <2>1, <2>2, <2>4, <4>1, <4>2, <4>3
           DEF UnderWayOrShown, Settled, Shown, IsNewest, NoData
    <3>4. CASE Len(posted) > 1
      <4>1. posted' # <<>> /\ Len(posted') \in 1..(Len(posted) - 1)
            /\ Len(posted') + 1 = Len(posted)
        BY <3>1, <3>4
      <4>2. posted'[Len(posted')] = posted[Len(posted)]
        BY <3>1, <4>1
      <4>3. QED
        BY <2>1, <2>2, <2>4, <3>2, <4>1, <4>2
           DEF UnderWayOrShown, Settled, Shown, IsNewest, NoData
    <3>5. QED
      BY <3>1, <3>3, <3>4
  <2>5. QED
    BY <2>2, <2>3, <2>4 DEF UnderWayOrShown
<1>12. CASE UNCHANGED vars
  <2>1. UNCHANGED <<copies, toServer, toClient, files, posted, mac, seen, fails>>
    BY <1>12 DEF vars
  <2>2. UnderWayOrShown
    BY <1>2, <2>1
  <2>3. QED
    BY <2>1, <2>2 DEF UnderWayOrShown, Asked, Answered, LastData, NoData, Settled,
                      Shown, IsNewest, Wanted, Current
<1>13. QED
  BY <1>3, <1>4, <1>5, <1>6, <1>7, <1>8, <1>9, <1>10, <1>11, <1>12, ClientSteps
     DEF Next
-----------------------------------------------------------------------------
(* The theorems.                                                           *)

LEMMA WayOn == IInv /\ [Next]_vars => OnItsWay'
<1> SUFFICES ASSUME IInv, [Next]_vars
             PROVE  OnItsWay'
  OBVIOUS
<1>1. fails' = 0 /\ seen' = Current' /\ Current' > 0 /\ copies'[Current'].fmts # {}
          => UnderWayOrShown'
  BY WayStep
<1>2. QED
  BY <1>1, SlotStep DEF OnItsWay

\* The inductive invariant.
LEMMA Inductive == IInv /\ [Next]_vars => IInv'
<1> SUFFICES ASSUME IInv, [Next]_vars
             PROVE  IInv'
  OBVIOUS
<1>1. TypeOK' /\ WiresTyped' /\ InOrder' /\ OneEach'
  BY TypeStep, OrderStep, OneStep
<1>2. StreamsDue' /\ StreamsFit(files, urls)' /\ DiskFits(files, disk)'
  BY DueStep, FitStep, DiskStep
<1>3. StreamsGoOn' /\ OnItsWay'
  BY GoOnStep, WayOn
<1>4. QED
  BY <1>1, <1>2, <1>3 DEF IInv

LEMMA Initial == Init => IInv
<1> SUFFICES ASSUME Init
             PROVE  IInv
  OBVIOUS
<1>1. TypeOK /\ WiresTyped
  BY InitTyped
<1>2. /\ copies = <<>> /\ toServer = <<>> /\ toClient = <<>> /\ files = <<>>
      /\ urls = <<>> /\ seen = 0
  BY DEF Init
<1>3. /\ DOMAIN files = {} /\ DOMAIN toServer = {} /\ DOMAIN toClient = {}
      /\ DOMAIN urls = {} /\ Len(toClient) = 0 /\ Current = 0
  BY <1>2, EmptyTable DEF Current
<1>4. InOrder
  BY <1>2, <1>3 DEF InOrder, Before
<1>5. OneEach /\ StreamsDue
  BY <1>3 DEF OneEach, StreamsDue
<1>6. StreamsFit(files, urls) /\ DiskFits(files, disk) /\ StreamsGoOn
  BY <1>3 DEF StreamsFit, DiskFits, StreamsGoOn
<1>7. OnItsWay
  BY <1>2, <1>3 DEF OnItsWay
<1>8. QED
  BY <1>1, <1>4, <1>5, <1>6, <1>7 DEF IInv

\* The variables always hold values of their types.
THEOREM TypeCorrect == Spec => []TypeOK
<1>1. IInv => TypeOK
  BY DEF IInv
<1>2. QED
  BY Initial, Inductive, <1>1, PTL DEF Spec

\* With nothing under way and nothing failed, the handled list is the newest, the
\* table is empty (its streams would be under way), and so the newest copy has been
\* shown.
LEMMA NewestShown == IInv => LastCopyWins
<1> SUFFICES ASSUME IInv, copies # <<>>, toServer = <<>>, toClient = <<>>, posted = <<>>,
                    fails = 0, copies[Current].fmts # {}
             PROVE  mac.ver = Current /\ mac.fmt = Wanted /\ mac.real = Wanted
  BY DEF LastCopyWins, Wanted
<1>1. DOMAIN toServer = {} /\ DOMAIN toClient = {} /\ Len(toClient) = 0
  BY EmptyTable
<1>2. Current = seen
  BY <1>1 DEF IInv, InOrder, Before
<1>3. Current > 0
  BY DEF IInv, TypeOK, Current
<1>4. DOMAIN files = {}
  BY <1>1 DEF IInv, StreamsGoOn, UnderWay
<1>5. Settled
  BY <1>1, <1>2, <1>3, <1>4 DEF IInv, OnItsWay, UnderWayOrShown, Asked, Answered
<1>6. QED
  BY <1>5 DEF Settled, Shown, IsNewest

\* Once everything is answered and drained, and nothing failed, the Mac clipboard
\* holds what was copied last, as what it is, however the requests overlapped
\* (qf_CliprdrServerFormatDataResponseCallBack reads an answer as what was asked for
\* last).
THEOREM LastWins == Spec => []LastCopyWins
<1>1. QED
  BY Initial, Inductive, NewestShown, PTL DEF Spec

\* Only data of a slot that is not "files" and a list that is complete are posted.
LEMMA PublishStep ==
    ASSUME IInv, [Next]_vars, PublishesFiles
    PROVE  \E id, h :
              /\ Moved(id, h) /\ AllDone(Table(id, h)) /\ h.done
              /\ Batch.ver = seen /\ Batch.urls = Complete(id, h)
<1>1. TypeOK /\ posted \in Seq(Clipboards) /\ Len(posted) \in Nat
  BY DEF IInv, TypeOK
<1>2. ~UNCHANGED posted
  BY <1>1 DEF PublishesFiles
<1>3. ~DataResponse
  <2> SUFFICES ASSUME DataResponse
               PROVE  FALSE
    OBVIOUS
  <2> DEFINE m == Head(toClient)
             c == Pasted(slot, m.fmt, m.ver)
  <2>1. /\ toClient # <<>> /\ m.type = "data" /\ slot # "files"
        /\ posted' = Append(posted, c)
    BY DEF DataResponse, Receive
  <2>2. m.fmt \in LocalFormats /\ slot \in LocalFormats /\ m.ver \in Versions
    BY <1>1, <2>1, HeadFacts, Numbers DEF IInv, TypeOK, LocalFormats, Messages
  <2>3. c \in Clipboards /\ c.fmt = slot
    BY <1>1, <2>2, ClipboardTypes
  <2> HIDE DEF c
  <2>4. posted'[Len(posted')] = c
    BY <1>1, <2>1, <2>3, Posted
  <2>5. QED
    BY <2>1, <2>3, <2>4 DEF PublishesFiles, Batch
<1>4. ~SetClipboard
  <2> SUFFICES ASSUME SetClipboard
               PROVE  FALSE
    OBVIOUS
  <2>1. posted # <<>> /\ posted' = Tail(posted)
    BY DEF SetClipboard
  <2>2. Len(posted') = Len(posted) - 1
    BY <1>1, <2>1, Drained
  <2>3. QED
    BY <1>1, <2>2 DEF PublishesFiles
<1>5. ~((\E o \in Offers : Copy(o)) \/ (\E i \in DOMAIN toServer : Respond(i)) \/ Skip
        \/ FormatList \/ FileList \/ Dropped \/ UNCHANGED vars)
  BY <1>2, ListFacts, FileListFacts DEF Copy, Respond, Skip, Dropped, vars
<1>6. PICK id, h : Moved(id, h)
  BY <1>3, <1>4, <1>5, ClientSteps DEF Next
<1> DEFINE c == Received(Complete(id, h), seen)
<1>7. AllDone(Table(id, h)) /\ posted' = Append(posted, c)
  BY <1>2, <1>6 DEF Moved
<1>8. h.done
  <2>1. id \in DOMAIN files
    BY <1>6 DEF Moved
  <2>2. QED
    BY <1>6, <1>7, <2>1, MovedFacts DEF AllDone
<1>9. c \in Clipboards /\ c.ver = seen /\ c.urls = Complete(id, h)
  BY <1>1, <1>6, MovedFacts, ClipboardTypes, Numbers
<1> HIDE DEF c
<1>10. posted'[Len(posted')] = c
  BY <1>1, <1>7, <1>9, Posted
<1>11. QED
  BY <1>6, <1>7, <1>8, <1>9, <1>10 DEF Batch

LEMMA NoForeignStep ==
    ASSUME IInv, [Next]_vars, PublishesFiles
    PROVE  \A p \in {Batch.urls[i] : i \in DOMAIN Batch.urls} :
              \A i \in DOMAIN disk'[p] : disk'[p][i] \in {Batch.ver, Hole}
<1>1. PICK id, h :
          /\ Moved(id, h) /\ AllDone(Table(id, h)) /\ h.done
          /\ Batch.ver = seen /\ Batch.urls = Complete(id, h)
  BY PublishStep
<1>2. StreamsFit(Table(id, h), Complete(id, h)) /\ DiskFits(Table(id, h), disk')
  BY <1>1, MovedFits, MovedDiskFits
<1>3. ASSUME NEW i \in DOMAIN Complete(id, h)
      PROVE  \A k \in DOMAIN disk'[Complete(id, h)[i]] :
                 disk'[Complete(id, h)[i]][k] \in {seen, Hole}
  <2>1. PICK x \in DOMAIN Table(id, h) :
            Table(id, h)[x].done /\ Table(id, h)[x].path = Complete(id, h)[i]
    BY <1>2 DEF StreamsFit
  <2>2. Table(id, h)[x].sized
    BY <1>2, <2>1 DEF StreamsFit
  <2>3. QED
    BY <1>2, <2>1, <2>2 DEF DiskFits
<1>4. QED
  BY <1>1, <1>3

\* Bytes of two different copies never meet in a published file, although requests
\* of an old list are answered from the new one: those answers come after the new
\* list, which has forgotten their streams (remote_files_.clear in the format list
\* callback).
THEOREM NothingForeign == Spec => NoForeignBytes
<1>1. IInv /\ [Next]_vars =>
          [PublishesFiles =>
              \A p \in {Batch.urls[i] : i \in DOMAIN Batch.urls} :
                  \A i \in DOMAIN disk'[p] : disk'[p][i] \in {Batch.ver, Hole}]_vars
  BY NoForeignStep
<1>2. QED
  BY Initial, Inductive, <1>1, PTL DEF Spec, NoForeignBytes
-----------------------------------------------------------------------------
(* What is published is whole.                                             *)

\* A move leaves on disk all that the stream that was the last to create the file
\* has written.
LEMMA MovedWhole ==
    ASSUME IInv, DiskIsWhole(files, disk), NEW id, NEW h, Moved(id, h)
    PROVE  DiskIsWhole(Table(id, h), disk')
<1> DEFINE T == Table(id, h)
           new == disk'[h.path]
           old == disk[h.path]
<1>1. /\ id \in DOMAIN files /\ h \in Streams /\ files[id] \in Streams
      /\ h.path = files[id].path /\ h.index = files[id].index
      /\ h.sized /\ h.size = copies[seen].sizes[h.index] /\ h.written <= h.size
  BY DEF Moved, IInv, WiresTyped
<1>2. /\ DOMAIN T = DOMAIN files /\ T[id] = h
      /\ \A x \in DOMAIN files \ {id} : T[x] = files[x]
      /\ \A x \in DOMAIN T : T[x] \in Streams
  BY MovedFacts
<1>3. /\ \A x \in DOMAIN T : /\ T[x].path = Path[T[x].index]
                             /\ T[x].index \in DOMAIN Path
                             /\ T[x].sized => T[x].size = copies[seen].sizes[T[x].index]
      /\ \A x \in DOMAIN T : T[x].index \in DOMAIN copies[seen].sizes
      /\ \A x \in DOMAIN files : files[x].path = Path[files[x].index]
      /\ files[id].sized => files[id].size = copies[seen].sizes[files[id].index]
  <2>1. StreamsFit(T, Complete(id, h)) /\ StreamsFit(files, urls)
    BY MovedFits DEF IInv
  <2>2. \A x \in DOMAIN T : T[x].index \in DOMAIN Path
    BY <1>2 DEF Streams
  <2>3. QED
    BY <1>1, <2>1, <2>2 DEF StreamsFit
<1>4. /\ h.path \in Paths
      /\ \A p \in Paths \ {h.path} : disk'[p] = disk[p]
      /\ \/ h.written = 0 /\ new = <<>>
         \/ files[id].sized /\ h.written = files[id].written /\ UNCHANGED disk
         \/ /\ files[id].sized /\ h.written = files[id].written + 1
            /\ Len(new) = IF h.written > Len(old) THEN h.written ELSE Len(old)
            /\ DOMAIN new = 1..Len(new)
            /\ DOMAIN old = 1..Len(old)
            /\ Len(old) \in Nat
            /\ \A k \in DOMAIN new :
                  new[k] = IF k = h.written THEN seen
                           ELSE IF k \in DOMAIN old THEN old[k] ELSE Hole
  BY MovedWrites
<1>5. h.written \in Nat /\ h.size \in Nat /\ files[id].written \in Nat
  BY <1>1 DEF Streams
<1> HIDE DEF T, new, old
\* The file written.
<1>6. ASSUME Own(h.index)
      PROVE  /\ Len(new) <= h.size
             /\ \E w \in DOMAIN T :
                    T[w].sized /\ T[w].index = h.index /\ Keeps(T[w], new)
  <2>1. CASE h.written = 0 /\ new = <<>>
    <3>1. Len(new) = 0
      BY <2>1
    <3>2. Keeps(h, new)
      BY <2>1, <3>1 DEF Keeps
    <3>3. QED
      BY <1>1, <1>2, <1>5, <3>1, <3>2
  <2>2. CASE /\ files[id].sized /\ h.written = files[id].written + 1
             /\ Len(new) = IF h.written > Len(old) THEN h.written ELSE Len(old)
             /\ DOMAIN new = 1..Len(new)
             /\ DOMAIN old = 1..Len(old)
             /\ Len(old) \in Nat
             /\ \A k \in DOMAIN new :
                   new[k] = IF k = h.written THEN seen
                            ELSE IF k \in DOMAIN old THEN old[k] ELSE Hole
    <3>1. Len(old) <= files[id].size /\ files[id].size = h.size
      BY <1>1, <1>3, <1>6, <2>2 DEF DiskIsWhole, old
    <3>2. PICK w \in DOMAIN files :
              files[w].sized /\ files[w].index = files[id].index /\ Keeps(files[w], old)
      BY <1>1, <1>6, <2>2 DEF DiskIsWhole, old
    <3>3. Len(new) <= h.size /\ Len(new) \in Nat /\ Len(old) <= Len(new)
          /\ h.written <= Len(new)
      BY <1>1, <1>5, <2>2, <3>1
    <3>4. CASE w = id
      <4>1. ASSUME NEW k \in 1..h.written
            PROVE  new[k] = seen
        <5>1. k \in DOMAIN new
          BY <1>5, <2>2, <3>3
        <5>2. k # h.written => k \in 1..files[id].written
          BY <1>5, <2>2
        <5>3. k # h.written => k \in DOMAIN old /\ old[k] = seen
          BY <1>5, <2>2, <3>2, <3>4, <5>2 DEF Keeps
        <5>4. QED
          BY <2>2, <5>1, <5>3
      <4>2. Keeps(h, new)
        BY <3>3, <4>1 DEF Keeps
      <4>3. QED
        BY <1>1, <1>2, <3>3, <4>2
    <3>5. CASE w # id
      <4>1. T[w] = files[w] /\ T[w] \in Streams /\ T[w].written \in Nat
        BY <1>2, <3>2, <3>5 DEF Streams
      <4>2. ASSUME NEW k \in 1..T[w].written
            PROVE  new[k] = seen
        <5>1. k \in DOMAIN old /\ old[k] = seen
          BY <2>2, <3>2, <4>1 DEF Keeps
        <5>2. k \in DOMAIN new
          BY <2>2, <3>3, <5>1
        <5>3. QED
          BY <2>2, <5>1, <5>2
      <4>3. Keeps(T[w], new)
        BY <2>2, <3>2, <3>3, <4>1, <4>2 DEF Keeps
      <4>4. QED
        BY <1>1, <1>2, <3>2, <3>3, <4>1, <4>3
    <3>6. QED
      BY <3>4, <3>5
  <2>3. CASE files[id].sized /\ h.written = files[id].written /\ UNCHANGED disk
    <3>1. Len(old) <= files[id].size /\ files[id].size = h.size /\ new = old
      BY <1>1, <1>3, <1>6, <2>3 DEF DiskIsWhole, old, new
    <3>2. PICK w \in DOMAIN files :
              files[w].sized /\ files[w].index = files[id].index /\ Keeps(files[w], old)
      BY <1>1, <1>6, <2>3 DEF DiskIsWhole, old
    <3>3. T[w].written = files[w].written /\ T[w].sized /\ T[w].index = h.index
      BY <1>1, <1>2, <2>3, <3>2
    <3>4. QED
      BY <1>2, <3>1, <3>2, <3>3 DEF Keeps
  <2>4. QED
    BY <1>4, <2>1, <2>2, <2>3
<1>7. ASSUME NEW x \in DOMAIN T, T[x].sized, Own(T[x].index)
      PROVE  /\ Len(disk'[T[x].path]) <= T[x].size
             /\ \E w \in DOMAIN T : /\ T[w].sized /\ T[w].index = T[x].index
                                    /\ Keeps(T[w], disk'[T[x].path])
  <2>1. CASE T[x].path = h.path
    <3>1. T[x].index = h.index
      BY <1>2, <1>3, <1>1, <1>7, <2>1 DEF Own, OwnName
    <3>2. T[x].size = h.size
      BY <1>1, <1>3, <1>7, <3>1
    <3>3. QED
      BY <1>6, <1>7, <2>1, <3>1, <3>2 DEF new
  <2>2. CASE T[x].path # h.path
    <3>1. x # id /\ T[x] = files[x] /\ T[x].path \in Paths
      BY <1>2, <2>2 DEF Streams
    <3>2. disk'[T[x].path] = disk[T[x].path]
      BY <1>4, <2>2, <3>1
    <3>3. PICK w \in DOMAIN files :
              /\ files[w].sized /\ files[w].index = files[x].index
              /\ Keeps(files[w], disk[files[x].path])
      BY <1>2, <1>7, <3>1 DEF DiskIsWhole
    <3>4. w # id
      BY <1>1, <1>2, <1>3, <2>2, <3>1, <3>3
    <3>5. Len(disk[T[x].path]) <= T[x].size
      BY <1>2, <1>7, <3>1 DEF DiskIsWhole
    <3>6. QED
      BY <1>2, <3>1, <3>2, <3>3, <3>4, <3>5
  <2>3. QED
    BY <2>1, <2>2
<1>8. QED
  BY <1>7 DEF DiskIsWhole, T

WholeInv == IInv /\ (fails = 0 => DiskIsWhole(files, disk))

LEMMA WholeStep ==
    ASSUME WholeInv, [Next]_vars
    PROVE  WholeInv'
<1>1. IInv /\ (fails = 0 => DiskIsWhole(files, disk)) /\ fails \in Nat
  BY Numbers DEF WholeInv, IInv
<1>2. IInv'
  BY <1>1, Inductive
<1> SUFFICES ASSUME fails' = 0
             PROVE  DiskIsWhole(files, disk)'
  BY <1>2 DEF WholeInv
<1>3. Skip \/ DataResponse \/ SetClipboard \/ UNCHANGED vars
      => UNCHANGED <<copies, disk, seen, files, fails>>
  BY DEF Skip, DataResponse, SetClipboard, vars, fileVars, serverVars
<1>4. CASE UNCHANGED <<copies, disk, seen, files, fails>>
  BY <1>1, <1>4 DEF DiskIsWhole, Keeps, Own
<1>a. ASSUME NEW o \in Offers, Copy(o)
      PROVE  DiskIsWhole(files, disk)'
  <2>1. UNCHANGED <<disk, seen, files, fails>>
    BY <1>a DEF Copy, fileVars
  <2>2. DOMAIN files # {} => seen \in 1..Current
    BY <1>1 DEF IInv, TypeOK, StreamsFit
  <2>3. DOMAIN files # {} => copies'[seen] = copies[seen]
    BY <1>1, <1>a, <2>2, CopyMade DEF IInv
  <2>4. QED
    BY <1>1, <2>1, <2>3 DEF DiskIsWhole, Keeps, Own
<1>5. ASSUME NEW i \in DOMAIN toServer, Respond(i)
      PROVE  DiskIsWhole(files, disk)'
  <2>1. fails' \in fails..MaxFails /\ MaxFails \in Nat
    BY <1>1, <1>5, RespondFacts, Numbers DEF IInv
  <2>2. fails' = fails
    BY <1>1, <2>1
  <2>3. UNCHANGED <<copies, disk, seen, files, fails>>
    BY <1>5, <2>2 DEF Respond, fileVars
  <2>4. QED
    BY <1>4, <2>3
<1>6. CASE FormatList
  BY <1>1, <1>6, ListFacts DEF DiskIsWhole
<1>7. CASE FileList
  <2>1. /\ UNCHANGED <<copies, disk, seen, fails>>
        /\ DOMAIN files' = DOMAIN files \cup NewStreams
        /\ \A id \in DOMAIN files : files'[id] = files[id]
        /\ \A id \in NewStreams : ~files'[id].sized
    BY <1>1, <1>7, FileListFacts
  <2>2. QED
    BY <1>1, <2>1 DEF DiskIsWhole, Keeps, Own
<1>8. CASE Dropped
  BY <1>8 DEF Dropped
<1>9. ASSUME NEW id, NEW h, Moved(id, h)
      PROVE  DiskIsWhole(files, disk)'
  <2>1. seen' = seen /\ fails' = fails /\ copies' = copies
    BY <1>9 DEF Moved
  <2>2. CASE DOMAIN files' = {}
    BY <2>2 DEF DiskIsWhole
  <2>3. CASE files' = Table(id, h)
    <3>1. DiskIsWhole(Table(id, h), disk')
      BY <1>1, <1>9, <2>1, MovedWhole
    <3>2. QED
      BY <2>1, <2>3, <3>1 DEF DiskIsWhole, Keeps, Own
  <2>4. QED
    BY <1>1, <1>9, <2>2, <2>3, MovedFacts
<1>10. QED
  BY <1>1, <1>3, <1>4, <1>a, <1>5, <1>6, <1>7, <1>8, <1>9, ClientSteps DEF Next

\* When all is done every file has been written to its end, and by the list.
LEMMA PublishedWhole ==
    ASSUME WholeInv, [Next]_vars, PublishesFiles, fails = 0
    PROVE  BatchIsWhole
<1>1. IInv /\ DiskIsWhole(files, disk)
  BY DEF WholeInv
<1>2. PICK id, h :
          /\ Moved(id, h) /\ AllDone(Table(id, h)) /\ h.done
          /\ Batch.ver = seen /\ Batch.urls = Complete(id, h)
  BY <1>1, PublishStep
<1> DEFINE T == Table(id, h)
           U == Complete(id, h)
           sizes == copies[seen].sizes
<1>3. StreamsFit(T, U) /\ DiskIsWhole(T, disk')
  BY <1>1, <1>2, MovedFits, MovedWhole
<1>4. /\ id \in DOMAIN files /\ h.index = files[id].index
      /\ DOMAIN T = DOMAIN files /\ T[id] = h
      /\ \A x \in DOMAIN files \ {id} : T[x] = files[x]
  BY <1>1, <1>2, MovedFacts DEF Moved
<1>5. AllStreams(files)
  BY <1>1, <1>4 DEF IInv, StreamsGoOn
<1>6. \A x \in DOMAIN T : T[x].done
  BY <1>2 DEF AllDone
<1>7. disk' \in [Paths -> Seq(Versions)] /\ \A x \in DOMAIN T : T[x] \in Streams
  BY <1>1, <1>2, MovedWrites, MovedFacts
<1> HIDE DEF T, U
<1>8. \A i \in DOMAIN sizes : \E x \in DOMAIN T : T[x].index = i
  BY <1>4, <1>5 DEF AllStreams
<1>9. {U[i] : i \in DOMAIN U} = {Path[i] : i \in DOMAIN sizes}
  <2>1. ASSUME NEW i \in DOMAIN U
        PROVE  \E j \in DOMAIN sizes : U[i] = Path[j]
    BY <1>3 DEF StreamsFit
  <2>2. ASSUME NEW j \in DOMAIN sizes
        PROVE  \E i \in DOMAIN U : U[i] = Path[j]
    <3>1. PICK x \in DOMAIN T : T[x].index = j
      BY <1>8
    <3>2. QED
      BY <1>3, <1>6, <3>1 DEF StreamsFit
  <2>3. QED
    BY <2>1, <2>2
<1>10. ASSUME NEW i \in DOMAIN sizes, OwnName(i, sizes)
       PROVE  disk'[Path[i]] = [j \in 1..sizes[i] |-> seen]
  <2>1. PICK x \in DOMAIN T : T[x].index = i
    BY <1>8
  <2>2. T[x].sized /\ T[x].path = Path[i] /\ T[x].size = sizes[i]
    BY <1>3, <1>6, <2>1 DEF StreamsFit
  <2>3. PICK w \in DOMAIN T : /\ T[w].sized /\ T[w].index = i
                              /\ Keeps(T[w], disk'[Path[i]])
    BY <1>3, <1>10, <2>1, <2>2 DEF DiskIsWhole, Own
  <2>4. T[w].written = sizes[i]
    BY <1>3, <1>6, <2>3 DEF StreamsFit
  <2>5. disk'[Path[i]] \in Seq(Versions) /\ sizes[i] \in Nat
    BY <1>7, <2>1, <2>2 DEF Streams
  <2>6. Len(disk'[Path[i]]) = sizes[i]
    <3>1. Len(disk'[Path[i]]) <= sizes[i]
      BY <1>3, <1>10, <2>1, <2>2 DEF DiskIsWhole, Own
    <3>2. sizes[i] <= Len(disk'[Path[i]])
      BY <2>3, <2>4 DEF Keeps
    <3>3. QED
      BY <2>5, <3>1, <3>2
  <2>7. \A k \in 1..sizes[i] : disk'[Path[i]][k] = seen
    BY <2>3, <2>4 DEF Keeps
  <2>8. QED
    BY <2>5, <2>6, <2>7
<1>11. Batch.urls = U /\ Batch.ver = seen
  BY <1>2 DEF U
<1>12. {Batch.urls[i] : i \in DOMAIN Batch.urls}
           = {Path[i] : i \in DOMAIN copies[Batch.ver].sizes}
  BY <1>9, <1>11
<1>13. \A i \in DOMAIN copies[Batch.ver].sizes :
           OwnName(i, copies[Batch.ver].sizes) =>
               disk'[Path[i]] = [j \in 1..copies[Batch.ver].sizes[i] |-> Batch.ver]
  BY <1>10, <1>11
<1>14. QED
  BY <1>12, <1>13 DEF BatchIsWhole

\* As long as nothing has failed, no name of the list is missing from what is
\* published, and no file that has its name for itself is published half written,
\* whatever the list and the names in it.
THEOREM NothingMissing == Spec => PublishedComplete
<1>1. Init => WholeInv
  <2> SUFFICES ASSUME Init
               PROVE  WholeInv
    OBVIOUS
  <2>1. IInv /\ DOMAIN files = {}
    BY Initial, EmptyTable DEF Init
  <2>2. QED
    BY <2>1 DEF WholeInv, DiskIsWhole
<1>2. WholeInv /\ [Next]_vars => WholeInv'
  BY WholeStep
<1>3. WholeInv /\ [Next]_vars => [PublishesFiles /\ fails = 0 => BatchIsWhole]_vars
  BY PublishedWhole
<1>4. QED
  BY <1>1, <1>2, <1>3, PTL DEF Spec, PublishedComplete
=============================================================================
