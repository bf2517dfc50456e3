----------------------------- MODULE RdpSession -----------------------------
(***************************************************************************)
(* The life of one RDP session in qf-client: the FreeRDP thread            *)
(* (rdp_loop_thread) connects, runs, reconnects and tears down; the Qt     *)
(* main thread drains its event queue, quits, sets g_stopped and joins.    *)
(* The two share, without a lock, the session's context and the channel    *)
(* interface pointers (g_dispContext, g_gfxContext,                        *)
(* cliprdr_client_context_).                                               *)
(***************************************************************************)
EXTENDS Integers, Sequences

CONSTANTS
    Channels,     \* the channels whose interface pointer is kept in a global
    Disp,         \* the display-control channel, whose opening posts a lambda
    MaxAttempts,  \* connect attempts per episode (3 in the code)
    MaxHandlers,  \* PubSub's MAX_EVENT_HANDLERS (32 in the code)
    MaxDrops      \* bound of the model: how often the link may be lost

ASSUME SessionAssumption ==
    /\ Disp \in Channels
    /\ MaxAttempts \in Nat \ {0}
    /\ MaxHandlers \in Nat \ {0}
    /\ MaxDrops \in Nat

VARIABLES
    rdp,      \* where rdp_loop_thread stands
    attempt,  \* connect attempts begun in this episode
    link,     \* is the transport up (freerdp_connect succeeded, no disconnect yet)
    abort,    \* the context's abort event
    ctx,      \* the rdpContext: "none", "live" or "freed"
    subs,     \* subscriptions to ChannelConnected made so far
    ptrs,     \* channels whose global pointer is not null
    live,     \* channels whose interface object exists
    drops,    \* links lost so far
    queue,    \* events posted to the Qt main thread
    viewCtx,  \* m_rdpContext is not null
    client,   \* m_qfClientContext is not null
    gui,      \* the main thread: "running", "quitting", "joining" or "exited"
    stopped   \* g_stopped

vars == <<rdp, attempt, link, abort, ctx, subs, ptrs, live, drops, queue,
          viewCtx, client, gui, stopped>>

Places == {"idle", "alloc", "connecting", "dialing", "gate", "run",
           "reconnecting", "nulling", "redial", "redialing", "closing",
           "notify", "freeing", "done"}

Events == {"frameResized", "windowResized", "dispInit", "disconnected"}

TypeOK ==
    /\ rdp \in Places
    /\ attempt \in 0..MaxAttempts
    /\ link \in BOOLEAN
    /\ abort \in BOOLEAN
    /\ ctx \in {"none", "live", "freed"}
    /\ subs \in 0..MaxHandlers
    /\ ptrs \subseteq Channels
    /\ live \subseteq Channels
    /\ drops \in 0..MaxDrops
    /\ queue \in Seq(Events)
    /\ viewCtx \in BOOLEAN
    /\ client \in BOOLEAN
    /\ gui \in {"running", "quitting", "joining", "exited"}
    /\ stopped \in BOOLEAN

Init ==
    /\ rdp = "idle"
    /\ attempt = 0
    /\ link = FALSE
    /\ abort = FALSE
    /\ ctx = "none"
    /\ subs = 0
    /\ ptrs = {}
    /\ live = {}
    /\ drops = 0
    /\ queue = <<>>
    /\ viewCtx = FALSE
    /\ client = TRUE
    /\ gui = "running"
    /\ stopped = FALSE

guiVars == <<client, gui, stopped>>
-----------------------------------------------------------------------------
(* Helpers: the effects of the FreeRDP calls the thread makes.             *)

Goto(here, there) == rdp = here /\ rdp' = there

\* Slip: the handler table is taken to be unbounded.
PreConnectUnbounded ==
    /\ subs' = subs + 1
    /\ abort' = FALSE

\* my_pre_connect subscribes its channel callbacks again on every connect.
PreConnect ==
    /\ subs' = IF subs < MaxHandlers THEN subs + 1 ELSE subs
    /\ abort' = FALSE

\* my_post_connect hands the context to the view and posts its two lambdas.
PostConnect ==
    /\ viewCtx' = TRUE
    /\ queue' = queue \o <<"frameResized", "windowResized">>

\* freerdp_disconnect: abort event set, transport closed, channels terminated.
Disconnect ==
    /\ abort' = TRUE
    /\ link' = FALSE
    /\ live' = {}

\* A connect that was begun ends: it succeeds, or fails before or after
\* my_post_connect; a failing freerdp_connect disconnects by itself.
ConnectOk ==
    /\ PostConnect
    /\ link' = TRUE
    /\ UNCHANGED <<abort, live>>

ConnectFails ==
    /\ Disconnect
    /\ PostConnect \/ UNCHANGED <<viewCtx, queue>>
-----------------------------------------------------------------------------
(* The FreeRDP thread.                                                     *)

\* The 50 ms single-shot timer of start_rdp_connection creates the thread.
Start ==
    /\ gui = "running"
    /\ Goto("idle", "alloc")
    /\ UNCHANGED <<attempt, link, abort, ctx, subs, ptrs, live, drops, queue,
                   viewCtx, guiVars>>

\* freerdp_new fails: the thread returns and tells nobody.
NewFails ==
    /\ Goto("alloc", "done")
    /\ UNCHANGED <<attempt, link, abort, ctx, subs, ptrs, live, drops, queue,
                   viewCtx, guiVars>>

\* freerdp_context_new fails: goto fail, again without a notice.
ContextNewFails ==
    /\ Goto("alloc", "freeing")
    /\ UNCHANGED <<attempt, link, abort, ctx, subs, ptrs, live, drops, queue,
                   viewCtx, guiVars>>

ContextNew ==
    /\ Goto("alloc", "connecting")
    /\ ctx' = "live"
    /\ UNCHANGED <<attempt, link, abort, subs, ptrs, live, drops, queue,
                   viewCtx, guiVars>>

BeginConnect ==
    /\ attempt < MaxAttempts
    /\ ~stopped
    /\ Goto("connecting", "dialing")
    /\ attempt' = attempt + 1
    /\ PreConnect
    /\ UNCHANGED <<link, ctx, ptrs, live, drops, queue, viewCtx, guiVars>>

EndConnect ==
    /\ \/ Goto("dialing", "gate") /\ ConnectOk
       \/ Goto("dialing", "connecting") /\ ConnectFails
    /\ UNCHANGED <<attempt, ctx, subs, ptrs, drops, guiVars>>

\* Slip: the last failed attempt leaves without telling the main thread.
GiveUpSilently ==
    /\ attempt = MaxAttempts \/ stopped
    /\ Goto("connecting", "gate")
    /\ UNCHANGED <<attempt, link, abort, ctx, subs, ptrs, live, drops, queue,
                   viewCtx, guiVars>>

\* The attempts are used up, or the user closed the window: post the notice.
GiveUp ==
    /\ attempt = MaxAttempts \/ stopped
    /\ Goto("connecting", "gate")
    /\ queue' = Append(queue, "disconnected")
    /\ UNCHANGED <<attempt, link, abort, ctx, subs, ptrs, live, drops,
                   viewCtx, guiVars>>

\* The condition around the session loop: past it there is no disconnect.
Gate ==
    /\ \/ Goto("gate", "run") /\ ~abort /\ ~stopped
       \/ Goto("gate", "freeing") /\ (abort \/ stopped)
    /\ UNCHANGED <<attempt, link, abort, ctx, subs, ptrs, live, drops, queue,
                   viewCtx, guiVars>>

\* The drdynvc thread reports a channel: its pointer is saved, and every
\* subscription of the callback posts the disp-init lambda once more.
ChannelOpens(c) ==
    /\ link
    /\ c \notin live
    /\ live' = live \cup {c}
    /\ ptrs' = ptrs \cup {c}
    /\ queue' = IF c = Disp
                THEN queue \o [i \in 1..subs |-> "dispInit"]
                ELSE queue
    /\ UNCHANGED <<rdp, attempt, link, abort, ctx, subs, drops, viewCtx,
                   guiVars>>

\* check_event_handles succeeds and finds the abort event set: the server
\* logged the user off.
ServerEnds ==
    /\ ~stopped
    /\ Goto("run", "closing")
    /\ abort' = TRUE
    /\ UNCHANGED <<attempt, link, ctx, subs, ptrs, live, drops, queue,
                   viewCtx, guiVars>>

\* No handles, a failed wait or a failed check_event_handles.
LinkLost ==
    /\ ~stopped
    /\ drops < MaxDrops
    /\ Goto("run", "reconnecting")
    /\ drops' = drops + 1
    /\ attempt' = 0
    /\ UNCHANGED <<link, abort, ctx, subs, ptrs, live, queue, viewCtx,
                   guiVars>>

BeginReconnect ==
    /\ attempt < MaxAttempts
    /\ ~stopped
    /\ Goto("reconnecting", "nulling")
    /\ attempt' = attempt + 1
    /\ Disconnect
    /\ UNCHANGED <<ctx, subs, ptrs, drops, queue, viewCtx, guiVars>>

\* Slip: the pointers of the closed connection are kept.
KeepPointers ==
    /\ Goto("nulling", "redial")
    /\ UNCHANGED <<attempt, link, abort, ctx, subs, ptrs, live, drops, queue,
                   viewCtx, guiVars>>

NullPointers ==
    /\ Goto("nulling", "redial")
    /\ ptrs' = {}
    /\ UNCHANGED <<attempt, link, abort, ctx, subs, live, drops, queue,
                   viewCtx, guiVars>>

\* Between the loop's test of g_stopped and this connect nothing tests again.
Redial ==
    /\ Goto("redial", "redialing")
    /\ PreConnect
    /\ UNCHANGED <<attempt, link, ctx, ptrs, live, drops, queue, viewCtx,
                   guiVars>>

EndRedial ==
    /\ \/ Goto("redialing", "run") /\ ConnectOk
       \/ Goto("redialing", "reconnecting") /\ ConnectFails
    /\ UNCHANGED <<attempt, ctx, subs, ptrs, drops, guiVars>>

\* Slip: the session loop does not test g_stopped.
LeaveLoopOnFailureOnly ==
    /\ Goto("reconnecting", "closing") /\ (stopped \/ attempt = MaxAttempts)
    /\ UNCHANGED <<attempt, link, abort, ctx, subs, ptrs, live, drops, queue,
                   viewCtx, guiVars>>

\* The session loop ends: g_stopped, or no reconnect succeeded.
LeaveLoop ==
    /\ \/ Goto("run", "closing") /\ stopped
       \/ Goto("reconnecting", "closing") /\ (stopped \/ attempt = MaxAttempts)
    /\ UNCHANGED <<attempt, link, abort, ctx, subs, ptrs, live, drops, queue,
                   viewCtx, guiVars>>

\* Slip: the thread leaves the loop straight to the notice.
CloseSkipped ==
    /\ Goto("closing", "notify")
    /\ UNCHANGED <<attempt, link, abort, ctx, subs, ptrs, live, drops, queue,
                   viewCtx, guiVars>>

Close ==
    /\ Goto("closing", "notify")
    /\ Disconnect
    /\ UNCHANGED <<attempt, ctx, subs, ptrs, drops, queue, viewCtx, guiVars>>

\* Slip: the session ends without the queued notifyDisconnected.
NotifySkipped ==
    /\ Goto("notify", "freeing")
    /\ UNCHANGED <<attempt, link, abort, ctx, subs, ptrs, live, drops, queue,
                   viewCtx, guiVars>>

Notify ==
    /\ Goto("notify", "freeing")
    /\ queue' = Append(queue, "disconnected")
    /\ UNCHANGED <<attempt, link, abort, ctx, subs, ptrs, live, drops,
                   viewCtx, guiVars>>

\* freerdp_context_free and freerdp_free: g_instance keeps its old value.
Free ==
    /\ Goto("freeing", "done")
    /\ ctx' = IF ctx = "live" THEN "freed" ELSE ctx
    /\ UNCHANGED <<attempt, link, abort, subs, ptrs, live, drops, queue,
                   viewCtx, guiVars>>
-----------------------------------------------------------------------------
(* The Qt main thread.                                                     *)

rdpVars == <<rdp, attempt, link, abort, ctx, subs, ptrs, live, drops>>

\* notifyDisconnected clears the view's pointers and quits the application;
\* the other lambdas leave this module's state alone.
HandleEvent ==
    /\ gui \in {"running", "quitting"}
    /\ queue # <<>>
    /\ queue' = Tail(queue)
    /\ IF Head(queue) = "disconnected"
       THEN viewCtx' = FALSE /\ client' = FALSE /\ gui' = "quitting"
       ELSE UNCHANGED <<viewCtx, client, gui>>
    /\ UNCHANGED <<rdpVars, stopped>>

CloseWindow ==
    /\ gui = "running"
    /\ gui' = "quitting"
    /\ UNCHANGED <<rdpVars, queue, viewCtx, client, stopped>>

\* app.exec() has returned; stop() raises the flag ...
Stop ==
    /\ gui = "quitting"
    /\ gui' = "joining"
    /\ stopped' = TRUE
    /\ UNCHANGED <<rdpVars, queue, viewCtx, client>>

\* ... and joins the thread if there is one.
Join ==
    /\ gui = "joining"
    /\ rdp \in {"idle", "done"}
    /\ gui' = "exited"
    /\ UNCHANGED <<rdpVars, queue, viewCtx, client, stopped>>
-----------------------------------------------------------------------------
RdpStep ==
    \/ NewFails \/ ContextNewFails \/ ContextNew
    \/ BeginConnect \/ EndConnect \/ GiveUp \/ Gate
    \/ BeginReconnect \/ NullPointers \/ Redial \/ EndRedial \/ LeaveLoop
    \/ Close \/ Notify \/ Free

GuiStep == HandleEvent \/ Stop \/ Join

Next ==
    \/ Start \/ RdpStep \/ GuiStep
    \/ \E c \in Channels : ChannelOpens(c)
    \/ ServerEnds \/ LinkLost \/ CloseWindow

\* Every wait of the thread is bounded (100 ms polls, the connect timeout of
\* 15 s, the sleeps) and Qt's loop drains its queue; a server that logs off,
\* a link that drops and a user who closes the window are never obliged to.
Fairness == WF_vars(RdpStep) /\ WF_vars(GuiStep)

Spec == Init /\ [][Next]_vars /\ Fairness
-----------------------------------------------------------------------------
(* Properties.                                                             *)

HasNotice(q) == \E i \in 1..Len(q) : q[i] = "disconnected"

\* A context that was freed while the view still points to it is one the main
\* thread is about to be told of, or the application is already in stop():
\* there is no other way input handlers can meet freed memory.
FreedContextIsAnnounced ==
    ctx = "freed" /\ viewCtx => HasNotice(queue) \/ stopped

\* The context is freed under a live transport only when the window was
\* closed before the first connect had finished (the session loop, and with
\* it freerdp_disconnect, is skipped).
FreedAfterDisconnect ==
    ctx = "freed" /\ link => stopped /\ drops = 0

\* While the session runs or is dialled, a channel pointer that is not null
\* points to an interface that exists: reconnecting leaves no pointer to a
\* channel of the previous connection behind.
PointersFresh ==
    rdp \in {"connecting", "dialing", "gate", "run", "redial", "redialing"}
        => ptrs \subseteq live

\* What the view promises in terms of this module's state.
Phase ==
    CASE \/ rdp \in {"notify", "done", "freeing"} /\ ctx # "none"
         \/ rdp = "gate" /\ ~link
         \/ rdp = "closing"                              -> "ended"
      [] rdp = "run" \/ (rdp = "gate" /\ link)           -> "online"
      [] rdp \in {"reconnecting", "nulling", "redial", "redialing"}
                                                         -> "recovering"
      [] OTHER                                           -> "starting"

Window ==
    CASE gui = "running" -> "open"
      [] gui # "running" /\ client -> "closedByUser"
      [] OTHER -> "closedOnLoss"

Promise == INSTANCE SessionPromise WITH phase <- Phase, window <- Window

\* The session keeps the promise of SessionPromise: in particular a window
\* closes for a loss only when the session has ended, and the end of a
\* session that had a context always closes it.
KeepsPromise == Promise!Spec

\* Closing the window always ends the process: stop() never joins a thread
\* that goes on dialling.
StopEnds == stopped ~> gui = "exited"
=============================================================================
