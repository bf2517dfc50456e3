------------------------------- MODULE Resize -------------------------------
(***************************************************************************)
(* Dynamic resolution in qf-client: the remote desktop follows the size of *)
(* the window. The main thread looks at the window when the debounce timer *)
(* fires, and when the display-control channel has opened, and asks the    *)
(* server for that size; the FreeRDP thread takes the size the server then *)
(* sets. The two share the settings and three counters, without a lock.    *)
(***************************************************************************)
EXTENDS Naturals, Sequences

CONSTANTS
    Sizes,       \* sizes in pixels, rounded up to multiples of four
    Small,       \* those below 640 x 480
    Start,       \* a size to connect with that is not the window's as asked for
                 \* later: not rounded yet, or 1024 x 768 for want of a window
    None,        \* no size
    MaxLayouts,  \* bound of the model: layouts under way to the server
    MaxPending,  \* bound of the model: layouts counted (some never uncounted)
    MaxDrops     \* bound of the model: how often the link may be lost

ASSUME ResizeAssumption ==
    /\ Small \subseteq Sizes /\ Start \in Sizes /\ None \notin Sizes
    /\ MaxLayouts \in Nat /\ MaxPending \in Nat /\ MaxDrops \in Nat

VARIABLES
    view,      \* the size of the RdpViewItem
    timer,     \* g_resize_debounce is running
    posted,    \* the lambda of the opened channel waits for the main thread
    disp,      \* g_dispContext is not null
    seen,      \* the desktop size the look under way has read, or None
    pending,   \* g_pending_resize_count
    lastSent,  \* g_last_disp_w, g_last_disp_h
    desktop,   \* DesktopWidth, DesktopHeight of the settings
    resizing,  \* the FreeRDP thread has set them and is not through yet
    layouts,   \* monitor layouts on their way to the server
    resets,    \* new sizes on their way from the server
    server,    \* the size of the desktop the server shows
    drops,     \* links lost so far
    outcome    \* history: what the last look at the window came to

guiVars == <<view, timer, posted, seen, outcome>>
counterVars == <<pending, lastSent>>
rdpVars == <<disp, desktop, resizing, drops>>
wireVars == <<layouts, resets, server>>
vars == <<guiVars, counterVars, rdpVars, wireVars>>

TypeOK ==
    /\ {view, desktop, server} \subseteq Sizes
    /\ {timer, posted, disp, resizing} \subseteq BOOLEAN
    /\ {seen, lastSent} \subseteq Sizes \cup {None}
    /\ pending \in Nat
    /\ layouts \in Seq(Sizes) /\ resets \in Seq(Sizes)
    /\ drops \in 0..MaxDrops
    /\ outcome \in {"none", "same", "small", "held", "sent", "lost"}

Init ==
    /\ view \in Sizes /\ timer = FALSE /\ posted = FALSE
    /\ disp = FALSE /\ seen = None
    /\ pending = 0 /\ lastSent = None
    /\ desktop \in {view, Start} /\ resizing = FALSE
    /\ layouts = <<>> /\ resets = <<>> /\ server = desktop
    /\ drops = 0 /\ outcome = "none"
-----------------------------------------------------------------------------
(* The main thread.                                                        *)

\* The main thread is between two events, and the timer's is not the next one.
Idle == seen = None

\* onWidthChanged, onHeightChanged: notify_window_resized, which starts the
\* timer again, or does nothing while there is no channel.
WindowResized(s) ==
    /\ Idle /\ s # view
    /\ view' = s
    /\ timer' = (timer \/ disp)
    /\ UNCHANGED <<posted, seen, outcome, counterVars, rdpVars, wireVars>>

\* SendMonitorLayout: on the wire, or nowhere when the link has just gone.
SendMonitorLayout ==
    /\ Len(layouts) < MaxLayouts
    /\ layouts' = Append(layouts, view)
    /\ UNCHANGED <<resets, server>>

\* The lambda posted by qf_channel_connected_callback: it counts nothing and
\* knows no smallest size.
ChannelOpened ==
    /\ Idle /\ posted
    /\ posted' = FALSE
    /\ IF ~disp
       THEN outcome' = "lost" /\ UNCHANGED wireVars
       ELSE IF view = desktop
       THEN outcome' = "same" /\ UNCHANGED wireVars
       ELSE outcome' = "sent" /\ SendMonitorLayout
    /\ UNCHANGED <<view, timer, seen, counterVars, rdpVars>>

\* The timer fires, posted events having gone first: the size is read ...
TimerFires ==
    /\ Idle /\ timer /\ ~posted
    /\ timer' = FALSE
    /\ IF disp
       THEN seen' = desktop /\ UNCHANGED outcome
       ELSE outcome' = "lost" /\ UNCHANGED seen
    /\ UNCHANGED <<view, posted, counterVars, rdpVars, wireVars>>

\* Slip: any resize under way holds the next one back.
HeldWhilePending == pending > 0

\* ... a resize already asked for is not asked for again ...
Held == pending > 0 /\ view = lastSent

LookEnds(what) ==
    /\ seen # None
    /\ seen' = None
    /\ outcome' = what
    /\ UNCHANGED <<view, timer, posted, rdpVars>>

TooSmall ==
    /\ view \in Small
    /\ LookEnds("small")
    /\ UNCHANGED <<counterVars, wireVars>>

Same ==
    /\ view \notin Small /\ view = seen
    /\ LookEnds("same")
    /\ UNCHANGED <<counterVars, wireVars>>

HoldBack ==
    /\ view \notin Small /\ view # seen /\ Held
    /\ LookEnds("held")
    /\ UNCHANGED <<counterVars, wireVars>>

\* ... and everything else is.
Ask ==
    /\ view \notin Small /\ view # seen /\ ~Held
    /\ LookEnds("sent")
    /\ pending < MaxPending
    /\ pending' = pending + 1
    /\ lastSent' = view
    /\ SendMonitorLayout
-----------------------------------------------------------------------------
(* The FreeRDP thread.                                                     *)

\* qf_channel_connected_callback for the display-control channel.
ChannelConnected ==
    /\ ~disp
    /\ disp' = TRUE
    /\ posted' = TRUE
    /\ UNCHANGED <<view, timer, seen, outcome, desktop, resizing, drops,
                   counterVars, wireVars>>

\* gdi_ResetGraphics puts the new size into the settings ...
ResetGraphics ==
    /\ ~resizing /\ resets # <<>>
    /\ resizing' = TRUE
    /\ desktop' = Head(resets)
    /\ resets' = Tail(resets)
    /\ UNCHANGED <<disp, drops, guiVars, counterVars, layouts, server>>

\* Slip: the counter is taken down whatever it is.
DesktopResizeUnguarded ==
    /\ resizing
    /\ resizing' = FALSE
    /\ pending' = pending - 1
    /\ UNCHANGED <<disp, desktop, drops, guiVars, lastSent, wireVars>>

\* ... and noop_desktop_resize takes the counter down.
DesktopResize ==
    /\ resizing
    /\ resizing' = FALSE
    /\ pending' = IF pending > 0 THEN pending - 1 ELSE pending
    /\ UNCHANGED <<disp, desktop, drops, guiVars, lastSent, wireVars>>

\* The link is lost; the thread reconnects. The counters stay as they are, and
\* my_pre_connect asks for the window's size, whatever was given on the command
\* line. (RdpSession has the link that is lost in the middle of a look.)
Reconnect ==
    /\ drops < MaxDrops /\ ~resizing /\ disp /\ Idle
    /\ drops' = drops + 1
    /\ disp' = FALSE
    /\ desktop' \in {view, Start}
    /\ layouts' = <<>> /\ resets' = <<>> /\ server' = desktop'
    /\ UNCHANGED <<resizing, guiVars, counterVars>>
-----------------------------------------------------------------------------
(* The server takes the newest of the layouts it has by then.              *)
Server ==
    \E n \in 1..Len(layouts) :
        /\ layouts' = SubSeq(layouts, n + 1, Len(layouts))
        /\ server' = layouts[n]
        /\ resets' = IF layouts[n] = server THEN resets
                     ELSE Append(resets, layouts[n])
        /\ UNCHANGED <<guiVars, counterVars, rdpVars>>

MainThread ==
    \/ \E s \in Sizes : WindowResized(s)
    \/ ChannelOpened \/ TimerFires
    \/ TooSmall \/ Same \/ HoldBack \/ Ask

RdpThread == ChannelConnected \/ ResetGraphics \/ DesktopResize \/ Reconnect

Next == MainThread \/ RdpThread \/ Server

Spec == Init /\ [][Next]_vars
-----------------------------------------------------------------------------
(* Properties.                                                             *)

\* Nothing is under way any more, on either thread or on the wire.
Rest ==
    /\ disp /\ ~posted /\ ~timer /\ seen = None
    /\ ~resizing /\ layouts = <<>> /\ resets = <<>>

\* When all has come to rest, the desktop has the window's size if the last look
\* at the window asked for it, or held it back because it had been asked for:
\* though layouts are counted on one thread and answers on the other, not every
\* layout is counted, and the server answers several at once or not at all. (A
\* lost link leaves the counter behind: nothing is said of what is held back
\* after it.)
LookIsHonoured ==
    Rest /\ (outcome = "sent" \/ (outcome = "held" /\ drops = 0)) => desktop = view
=============================================================================
