------------------------------- MODULE Cursor -------------------------------
(***************************************************************************)
(* The mouse pointer of qf-client.  FreeRDP's pointer cache calls New,     *)
(* Free, Set, SetNull and SetDefault on the FreeRDP thread; those post     *)
(* lambdas to the Qt main thread, which alone sets the item's cursor.  The *)
(* flag g_cursor_hidden is written at once on the FreeRDP thread by        *)
(* SetNull and SetDefault, but by Set's lambda on the main thread, where   *)
(* every mouse move reads it to give a hidden cursor back.                 *)
(***************************************************************************)
EXTENDS Integers, Sequences

CONSTANTS
    Slots,      \* the entries of FreeRDP's pointer cache
    Pointers,   \* addresses an rdpPointer may have
    Shapes,     \* decoded pointer images
    Positions,  \* places of the mouse, each beyond the threshold of the others
    Blank,      \* g_blank_cursor
    Arrow,      \* the default cursor
    None,       \* no pointer, no image, no position
    MaxCalls    \* bound of the model: pointer updates of the server

ASSUME CursorAssumption ==
    /\ MaxCalls \in Nat
    /\ None \notin Pointers \cup Shapes \cup Positions
    /\ Blank # Arrow /\ {Blank, Arrow} \cap Shapes = {}

VARIABLES
    rdp,      \* the FreeRDP thread: "idle" or inside a pointer update
    cur,      \* the slot and pointer of the update the thread is in
    entries,  \* FreeRDP's pointer cache
    cache,    \* g_pointer_cache
    hidden,   \* g_cursor_hidden
    recent,   \* the mouse restored the cursor less than 2 s ago
    queue,    \* lambdas posted to the main thread
    cursor,   \* the cursor of the item
    last,     \* g_last_rdp_cursor
    mouse,    \* where the mouse is
    hidePos,  \* g_hide_pos_x, g_hide_pos_y
    asked,    \* the last call the server made that was not skipped
    calls     \* pointer updates so far

vars == <<rdp, cur, entries, cache, hidden, recent, queue, cursor, last, mouse,
          hidePos, asked, calls>>

Lambdas == [kind : {"set"}, ptr : Pointers]
           \cup [kind : {"null", "default"}, ptr : {None}]

Lambda(k, p) == [kind |-> k, ptr |-> p]

TypeOK ==
    /\ rdp \in {"idle", "put", "set", "hide", "postNull", "postDefault"}
    /\ cur \in (Slots \cup {None}) \X (Pointers \cup {None})
    /\ entries \in [Slots -> Pointers \cup {None}]
    /\ cache \in [Pointers -> Shapes \cup {None}]
    /\ hidden \in BOOLEAN /\ recent \in BOOLEAN
    /\ queue \in Seq(Lambdas)
    /\ cursor \in Shapes \cup {Blank, Arrow}
    /\ last \in Shapes \cup {Arrow}
    /\ mouse \in Positions
    /\ hidePos \in Positions \cup {None}
    /\ asked \in Lambdas
    /\ calls \in 0..MaxCalls

Init ==
    /\ rdp = "idle" /\ cur = <<None, None>>
    /\ entries = [i \in Slots |-> None]
    /\ cache = [p \in Pointers |-> None]
    /\ hidden = FALSE /\ recent = FALSE
    /\ queue = <<>>
    /\ cursor = Arrow /\ last = Arrow
    /\ mouse \in Positions /\ hidePos = None
    /\ asked = Lambda("default", None)
    /\ calls = 0

guiVars == <<cursor, last, mouse, hidePos>>
cacheVars == <<entries, cache>>
-----------------------------------------------------------------------------
(* The FreeRDP thread.                                                     *)

Begin(place) ==
    /\ rdp = "idle"
    /\ calls < MaxCalls
    /\ rdp' = place
    /\ calls' = calls + 1

Post(l) ==
    /\ rdp' = "idle"
    /\ queue' = Append(queue, l)
    /\ asked' = l

\* my_pointer_new: an image that is empty, too large or undecodable (None) is
\* not cached, and the call succeeds all the same.
PointerNew(i, p, s) ==
    /\ Begin("put")
    /\ \A j \in Slots : entries[j] # p
    /\ cur' = <<i, p>>
    /\ cache' = IF s = None THEN cache ELSE [cache EXCEPT ![p] = s]
    /\ UNCHANGED <<entries, hidden, recent, queue, asked, guiVars>>

\* pointer_cache_put: the pointer of the slot is freed, my_pointer_free erases
\* its image, and its address may be used again.
PointerPut ==
    /\ rdp = "put"
    /\ rdp' = "set"
    /\ cache' = [p \in Pointers |->
                    IF p = entries[cur[1]] THEN None ELSE cache[p]]
    /\ entries' = [entries EXCEPT ![cur[1]] = cur[2]]
    /\ UNCHANGED <<cur, hidden, recent, queue, asked, calls, guiVars>>

\* my_pointer_set posts the address; nothing else happens on this thread.
PointerSet ==
    /\ rdp = "set"
    /\ Post(Lambda("set", cur[2]))
    /\ UNCHANGED <<cur, cacheVars, hidden, recent, calls, guiVars>>

\* The server shows a pointer it has sent before.
PointerCached(i) ==
    /\ Begin("set")
    /\ entries[i] # None
    /\ cur' = <<i, entries[i]>>
    /\ UNCHANGED <<cacheVars, hidden, recent, queue, asked, guiVars>>

\* my_pointer_setnull: skipped for two seconds after a restore, ...
SetNull ==
    /\ ~recent
    /\ Begin("hide")
    /\ UNCHANGED <<cur, cacheVars, hidden, recent, queue, asked, guiVars>>

\* ... or else the flag is raised, and only then the lambda is posted.
Hide ==
    /\ rdp = "hide"
    /\ rdp' = "postNull"
    /\ hidden' = TRUE
    /\ UNCHANGED <<cur, cacheVars, recent, queue, asked, calls, guiVars>>

PostNull ==
    /\ rdp = "postNull"
    /\ Post(Lambda("null", None))
    /\ UNCHANGED <<cur, cacheVars, hidden, recent, calls, guiVars>>

\* Slip: my_pointer_setdefault leaves the flag to its lambda, as Set does.
SetDefaultKeepsFlag ==
    /\ Begin("postDefault")
    /\ UNCHANGED <<cur, cacheVars, hidden, recent, queue, asked, guiVars>>

\* my_pointer_setdefault: the flag at once, the cursor through the queue.
SetDefault ==
    /\ Begin("postDefault")
    /\ hidden' = FALSE
    /\ UNCHANGED <<cur, cacheVars, recent, queue, asked, guiVars>>

PostDefault ==
    /\ rdp = "postDefault"
    /\ Post(Lambda("default", None))
    /\ UNCHANGED <<cur, cacheVars, hidden, recent, calls, guiVars>>
-----------------------------------------------------------------------------
(* The Qt main thread.                                                     *)

Drain(kind) ==
    /\ queue # <<>>
    /\ Head(queue).kind = kind
    /\ queue' = Tail(queue)

\* Slip: Set's lambda shows the cursor and leaves the flag raised.
ShowKeepsFlag ==
    /\ Drain("set")
    /\ LET s == cache[Head(queue).ptr] IN
       IF s = None
       THEN UNCHANGED <<cursor, last>>
       ELSE cursor' = s /\ last' = s
    /\ UNCHANGED <<rdp, cur, cacheVars, hidden, recent, mouse, hidePos, asked,
                   calls>>

\* Slip: the lambda takes what the address maps to without asking whether it
\* maps to anything.
ShowUnchecked ==
    /\ Drain("set")
    /\ cursor' = cache[Head(queue).ptr]
    /\ last' = cursor'
    /\ hidden' = FALSE
    /\ UNCHANGED <<rdp, cur, cacheVars, recent, mouse, hidePos, asked, calls>>

\* The lambda of Set looks the address up; an unknown one changes nothing.
ShowPointer ==
    /\ Drain("set")
    /\ LET s == cache[Head(queue).ptr] IN
       IF s = None
       THEN UNCHANGED <<cursor, last, hidden>>
       ELSE cursor' = s /\ last' = s /\ hidden' = FALSE
    /\ UNCHANGED <<rdp, cur, cacheVars, recent, mouse, hidePos, asked, calls>>

BlankPointer ==
    /\ Drain("null")
    /\ cursor' = Blank
    /\ hidePos' = mouse
    /\ UNCHANGED <<rdp, cur, cacheVars, hidden, recent, last, mouse, asked,
                   calls>>

UnsetPointer ==
    /\ Drain("default")
    /\ cursor' = Arrow
    /\ UNCHANGED <<rdp, cur, cacheVars, hidden, recent, last, mouse, hidePos,
                   asked, calls>>

\* rdp_notify_mouse_moved.
MouseMove(m) ==
    /\ m # mouse
    /\ mouse' = m
    /\ IF hidden /\ m # hidePos
       THEN recent' = TRUE /\ hidden' = FALSE /\ cursor' = last
       ELSE UNCHANGED <<recent, hidden, cursor>>
    /\ UNCHANGED <<rdp, cur, cacheVars, queue, last, hidePos, asked, calls>>

\* Two seconds have passed.
TwoSecondsPass ==
    /\ recent
    /\ recent' = FALSE
    /\ UNCHANGED <<rdp, cur, cacheVars, hidden, queue, asked, calls, guiVars>>
-----------------------------------------------------------------------------
Next ==
    \/ \E i \in Slots : PointerCached(i)
                        \/ \E p \in Pointers, s \in Shapes \cup {None} :
                              PointerNew(i, p, s)
    \/ PointerPut \/ PointerSet
    \/ SetNull \/ Hide \/ PostNull
    \/ SetDefault \/ PostDefault
    \/ ShowPointer \/ BlankPointer \/ UnsetPointer
    \/ \E m \in Positions : MouseMove(m)
    \/ TwoSecondsPass

Spec == Init /\ [][Next]_vars
-----------------------------------------------------------------------------
(* Properties.                                                             *)

Settled == rdp = "idle" /\ queue = <<>>

\* When the main thread has caught up, the cursor is what the server asked for
\* last - however the flag was written meanwhile - and only a blank one may
\* have been given back by the mouse.
LastCallShown ==
    Settled =>
        CASE asked.kind = "default" -> cursor = Arrow
          [] asked.kind = "null" -> cursor \in {Blank, last}
          [] asked.kind = "set" ->
                cache[asked.ptr] # None => cursor = cache[asked.ptr]

\* The flag never outlives the blank cursor: a mouse move does not replace a
\* cursor the server shows by the one before it. (A blank cursor may outlive the
\* flag: a mouse move between Hide and the lambda gives it back too early.)
FlagMeansBlank == Settled /\ hidden => cursor = Blank
=============================================================================
