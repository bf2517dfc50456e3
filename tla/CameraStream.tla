---------------------------- MODULE CameraStream ----------------------------
(***************************************************************************)
(* One stream of a redirected camera.  The channel thread handles Start,   *)
(* Stop and SampleRequest; a timer pauses a stream that got no request for *)
(* two seconds; the VideoToolbox callback hands encoded frames to the      *)
(* channel.  Frames, samples and the pause are under the stream's lock,    *)
(* Start and Stop are not.  Below, the AVFoundation backend starts and     *)
(* stops capture session and encoder in steps, on whichever thread asks.   *)
(* VTCompressionSessionInvalidate waits for callbacks in flight, as the    *)
(* comments of the backend say and rely on.  One frame per encoder is in   *)
(* flight at a time, and the timer's pause writes its flags in one step.   *)
(***************************************************************************)
EXTENDS Integers

CONSTANTS
    Encoders,   \* VideoToolbox sessions; one may be in use while one drains
    None,       \* no encoder
    MaxOwed     \* bound of the model: requests the server has out at a time

ASSUME CameraAssumption ==
    /\ None \notin Encoders
    /\ \A e \in Encoders : e \notin {"free", "chan", "timer"}
    /\ MaxOwed \in Nat \ {0}

VARIABLES
    pc,         \* where the channel and the timer thread stand
    cb,         \* the output callback of each encoder
    lock,       \* who holds CameraDeviceStream::lock
    streaming, paused, bufs,   \* CameraDeviceStream: streaming, autoPaused, and
                               \* whether its two buffers exist
    idle,       \* lastSampleRequestTime was two seconds ago, or is not set
    ahead,      \* it is later than the time the timer callback goes by
    requested, have,           \* samplesRequested, haveSample
    capturing,  \* CamAvfStream::streaming
    session,    \* CamAvfStream::session is set, and running
    leaked,     \* a running session that no pointer leads to any more
    encoder,    \* CamAvfStream::encoder
    drains,     \* the encoder each thread is invalidating
    late,       \* encoders whose frame in flight is from before the last start
    oldSample,  \* pendingSample is from before the last start
    sentOld,    \* such a sample has been sent
    server,     \* the server believes the stream is "started" or "stopped"
    owed,       \* SampleRequests the server has no answer to
    raced       \* a Start was handled while the timer was pausing

vars == <<pc, cb, lock, streaming, paused, bufs, idle, ahead, requested, have,
          capturing, session, leaked, encoder, drains, late, oldSample,
          sentOld, server, owed, raced>>

Threads == {"chan", "timer"}

Places == {"idle", "lock", "answer", "stamp",
           "startSession", "startEncoder", "startFlag", "started", "failed",
           "mark", "stopFlag", "stopSession", "stopEncoder", "takeEncoder",
          "drain", "stopped", "crashed"}

TypeOK ==
    /\ pc \in [Threads -> Places]
    /\ cb \in [Encoders -> {"none", "flight", "entered", "want", "in"}]
    /\ lock \in {"free"} \cup Threads \cup Encoders
    /\ {streaming, paused, bufs, idle, ahead, have, capturing, session, leaked,
        oldSample, sentOld, raced} \subseteq BOOLEAN
    /\ requested \in 0..MaxOwed
    /\ encoder \in Encoders \cup {None}
    /\ drains \in [Threads -> Encoders \cup {None}]
    /\ late \subseteq Encoders
    /\ server \in {"started", "stopped"}
    /\ owed \in -1..MaxOwed

Init ==
    /\ pc = [t \in Threads |-> "idle"]
    /\ cb = [e \in Encoders |-> "none"]
    /\ lock = "free"
    /\ streaming = FALSE /\ paused = FALSE /\ bufs = FALSE
    /\ idle = TRUE /\ ahead = FALSE
    /\ requested = 0 /\ have = FALSE
    /\ capturing = FALSE /\ session = FALSE /\ leaked = FALSE
    /\ encoder = None /\ drains = [t \in Threads |-> None]
    /\ late = {} /\ oldSample = FALSE /\ sentOld = FALSE
    /\ server = "stopped" /\ owed = 0 /\ raced = FALSE

halVars == <<capturing, session, leaked, encoder, drains>>
frameVars == <<cb, late, oldSample, sentOld>>
streamVars == <<streaming, paused, bufs, idle, ahead>>
sampleVars == <<requested, have, owed>>
ghostVars == <<server, raced>>

Crashed == \E t \in Threads : pc[t] = "crashed"

Goto(t, here, there) ==
    ~Crashed /\ pc[t] = here /\ pc' = [pc EXCEPT ![t] = there]
-----------------------------------------------------------------------------
(* AVFoundation: cam_avf_stream_stop, on either thread ...                 *)

Hal == UNCHANGED <<lock, streamVars, sampleVars, frameVars, ghostVars>>

StopFlag(t) ==
    /\ Goto(t, "stopFlag", "stopSession")
    /\ capturing' = FALSE
    /\ UNCHANGED <<session, leaked, encoder, drains>> /\ Hal

\* The block on the session queue, which runs one block at a time.
StopSession(t) ==
    /\ Goto(t, "stopSession", "stopEncoder")
    /\ session' = FALSE
    /\ UNCHANGED <<capturing, leaked, encoder, drains>> /\ Hal

\* cam_avf_destroy_encoder looks at the pointer ...
StopEncoder(t) ==
    /\ Goto(t, "stopEncoder", IF encoder = None THEN "stopped" ELSE "takeEncoder")
    /\ UNCHANGED halVars /\ Hal

\* ... takes it under the backend's lock; released twice, NULL is a trap ...
TakeEncoder(t) ==
    /\ Goto(t, "takeEncoder", IF encoder = None THEN "crashed" ELSE "drain")
    /\ drains' = [drains EXCEPT ![t] = encoder]
    /\ encoder' = None
    /\ UNCHANGED <<capturing, session, leaked>> /\ Hal

\* Slip: the encoder is released without waiting for its callbacks.
DrainAtOnce(t) ==
    /\ Goto(t, "drain", "stopped")
    /\ drains' = [drains EXCEPT ![t] = None]
    /\ UNCHANGED <<capturing, session, leaked, encoder>> /\ Hal

\* ... and invalidates it, which waits for its callback.
Drain(t) ==
    /\ Goto(t, "drain", "stopped")
    /\ cb[drains[t]] = "none"
    /\ drains' = [drains EXCEPT ![t] = None]
    /\ UNCHANGED <<capturing, session, leaked, encoder>> /\ Hal

StopStep(t) ==
    StopFlag(t) \/ StopSession(t) \/ StopEncoder(t) \/ TakeEncoder(t) \/ Drain(t)
-----------------------------------------------------------------------------
(* ... and cam_avf_stream_start, on the channel thread.                    *)

\* A session that is already there is overwritten and goes on running.
StartSession ==
    /\ ~capturing
    /\ Goto("chan", "startSession", "startEncoder")
    /\ session' = TRUE
    /\ leaked' = (leaked \/ session)
    /\ UNCHANGED <<capturing, encoder, drains>> /\ Hal

\* Already started, or one of the AVFoundation calls fails.
StartFails ==
    /\ Goto("chan", "startSession", "failed")
    /\ UNCHANGED halVars /\ Hal

\* An encoder that is already there is kept.
StartEncoder ==
    /\ Goto("chan", "startEncoder", "startFlag")
    /\ IF encoder = None
       THEN \E e \in Encoders :
               /\ e \notin {drains[u] : u \in Threads}
               /\ encoder' = e
       ELSE UNCHANGED encoder
    /\ UNCHANGED <<capturing, session, leaked, drains>> /\ Hal

\* VideoToolbox refuses: cam_avf_stream_stop, with no encoder to drain.
EncoderFails ==
    /\ encoder = None
    /\ Goto("chan", "startEncoder", "failed")
    /\ capturing' = FALSE
    /\ session' = FALSE
    /\ UNCHANGED <<leaked, encoder, drains>> /\ Hal

StartFlag ==
    /\ Goto("chan", "startFlag", "started")
    /\ capturing' = TRUE
    /\ UNCHANGED <<session, leaked, encoder, drains>> /\ Hal

StartStep ==
    StartSession \/ StartFails \/ StartEncoder \/ EncoderFails \/ StartFlag
-----------------------------------------------------------------------------
(* The encoder's callback.                                                 *)

\* captureOutput hands a frame to the encoder, both read under the lock.
Capture(e) ==
    /\ ~Crashed
    /\ capturing /\ encoder = e
    /\ session \/ leaked
    /\ cb[e] = "none"
    /\ cb' = [cb EXCEPT ![e] = "flight"]
    /\ late' = late \ {e}
    /\ UNCHANGED <<pc, lock, streamVars, sampleVars, halVars, ghostVars,
                   oldSample, sentOld>>

\* The callback reads the backend's flag, then the channel's, without a lock.
Reads(e, here, there, flag) ==
    /\ ~Crashed
    /\ cb[e] = here
    /\ cb' = [cb EXCEPT ![e] = IF flag THEN there ELSE "none"]
    /\ UNCHANGED <<pc, lock, streamVars, sampleVars, halVars, ghostVars, late,
                   oldSample, sentOld>>

Deliver(e) == Reads(e, "flight", "entered", capturing)

Check(e) == Reads(e, "entered", "want", streaming)

\* Under the lock the sample replaces the pending one ...
Enter(e) ==
    /\ ~Crashed
    /\ cb[e] = "want" /\ lock = "free"
    /\ lock' = e
    /\ cb' = [cb EXCEPT ![e] = "in"]
    /\ have' = TRUE /\ oldSample' = (e \in late)
    /\ UNCHANGED <<pc, streamVars, requested, owed, halVars, ghostVars, late,
                   sentOld>>

\* ... or does not fit and is dropped.
Drop(e) ==
    /\ ~Crashed
    /\ cb[e] = "want" /\ lock = "free"
    /\ cb' = [cb EXCEPT ![e] = "none"]
    /\ UNCHANGED <<pc, lock, streamVars, sampleVars, halVars, ghostVars, late,
                   oldSample, sentOld>>

Answers(n, go) ==
    IF go
    THEN requested' = n - 1 /\ have' = FALSE /\ sentOld' = (sentOld \/ oldSample)
    ELSE requested' = n /\ UNCHANGED <<have, sentOld>>

\* Slip: a sample is sent whether or not one is requested.
SendUnasked(n) == Answers(n, have /\ streaming)

\* Slip: the request is not counted off.
SendKeepsRequest(n) ==
    /\ requested' = n
    /\ IF n > 0 /\ have /\ streaming
       THEN have' = FALSE /\ sentOld' = (sentOld \/ oldSample)
       ELSE UNCHANGED <<have, sentOld>>

\* ecam_dev_send_pending, n requests being out.
SendPending(n) == Answers(n, n > 0 /\ have /\ streaming)

Leave(e) ==
    /\ ~Crashed
    /\ cb[e] = "in"
    /\ lock' = "free"
    /\ cb' = [cb EXCEPT ![e] = "none"]
    /\ SendPending(requested)
    /\ owed' = IF have /\ ~have' THEN owed - 1 ELSE owed
    /\ UNCHANGED <<pc, streamVars, halVars, ghostVars, late, oldSample>>
-----------------------------------------------------------------------------
(* The channel thread.                                                     *)

\* From here on every frame and sample there is belongs to the past.
NewStart == late' = Encoders /\ oldSample' = TRUE

ServerStarts ==
    /\ server' = "started" /\ owed' = 0
    /\ raced' = (raced \/ pc["timer"] \notin {"idle", "lock"})

\* Slip: a start keeps the sample of the stream before.
StartKeepsSample ==
    /\ ~streaming
    /\ Goto("chan", "idle", "startSession")
    /\ ServerStarts
    /\ idle' = (paused \/ idle) /\ paused' = FALSE
    /\ bufs' = TRUE
    /\ requested' = 0
    /\ NewStart
    /\ UNCHANGED <<lock, streaming, ahead, have, halVars, cb, sentOld>>

\* ecam_dev_process_start_streams_request; also after an idle pause.
StartRequest ==
    /\ ~streaming
    /\ Goto("chan", "idle", "startSession")
    /\ ServerStarts
    /\ idle' = (paused \/ idle) /\ paused' = FALSE
    /\ bufs' = TRUE
    /\ requested' = 0 /\ have' = FALSE
    /\ NewStart
    /\ UNCHANGED <<lock, streaming, ahead, halVars, cb, sentOld>>

Starting == lock # "chan"     \* a Start is in progress, not a resume

\* The timer may see the stream started and its time not yet set.
Started ==
    /\ Starting
    /\ Goto("chan", "started", "stamp")
    /\ streaming' = TRUE
    /\ UNCHANGED <<lock, paused, bufs, idle, ahead, sampleVars, halVars,
                   frameVars, ghostVars>>

\* lastSampleRequestTime = GetTickCount64(), which may have gone on since a
\* timer callback that is under way read it.
SetTime ==
    /\ idle' = FALSE
    /\ \/ UNCHANGED ahead
       \/ pc["timer"] = "lock" /\ ahead' = TRUE

Stamp ==
    /\ Goto("chan", "stamp", "idle")
    /\ SetTime
    /\ UNCHANGED <<lock, streaming, paused, bufs, sampleVars, halVars,
                   frameVars, ghostVars>>

\* The server is told, and the half started stream is stopped.
StartFailed ==
    /\ Starting
    /\ Goto("chan", "failed", "stopped")
    /\ server' = "stopped"
    /\ UNCHANGED <<lock, streamVars, sampleVars, halVars, frameVars, raced>>

\* ecam_dev_stop_stream, for StopStreamsRequest and when the channel closes.
StopRequest ==
    /\ server = "started"
    /\ server' = "stopped"
    /\ Goto("chan", "idle", IF streaming THEN "mark" ELSE "stopped")
    /\ UNCHANGED <<lock, streamVars, sampleVars, halVars, frameVars, raced>>

\* Slip: the capture is stopped with the stream's lock held, as in a pause.
MarkLocks ==
    /\ Goto("chan", "mark", "stopFlag")
    /\ lock = "free" /\ lock' = "chan"
    /\ streaming' = FALSE
    /\ UNCHANGED <<paused, bufs, idle, ahead, sampleVars, halVars, frameVars,
                   ghostVars>>

Mark ==
    /\ Goto("chan", "mark", "stopFlag")
    /\ streaming' = FALSE
    /\ UNCHANGED <<lock, paused, bufs, idle, ahead, sampleVars, halVars,
                   frameVars, ghostVars>>

\* The answer to the Stop goes out: the server forgets its requests.
Stopped ==
    /\ Goto("chan", "stopped", "idle")
    /\ paused' = FALSE /\ idle' = TRUE /\ ahead' = FALSE /\ bufs' = FALSE
    /\ owed' = 0
    /\ UNCHANGED <<lock, streaming, requested, have, halVars, frameVars,
                   ghostVars>>

SampleRequest ==
    /\ server = "started" /\ owed < MaxOwed
    /\ owed' = owed + 1
    /\ Goto("chan", "idle", "lock")
    /\ UNCHANGED <<lock, streamVars, requested, have, halVars, frameVars,
                   ghostVars>>

\* A paused stream is resumed before the request is counted.
TakeLock ==
    /\ lock = "free"
    /\ lock' = "chan"
    /\ IF paused
       THEN Goto("chan", "lock", "startSession") /\ bufs' = TRUE /\ NewStart
       ELSE Goto("chan", "lock", "answer") /\ UNCHANGED <<bufs, late, oldSample>>
    /\ UNCHANGED <<streaming, paused, idle, ahead, sampleVars, halVars, cb,
                   sentOld, ghostVars>>

\* Slip: the resumed stream is not marked as streaming.
ResumedUnmarked ==
    /\ ~Starting
    /\ Goto("chan", "started", "answer")
    /\ paused' = FALSE
    /\ requested' = 0 /\ have' = FALSE
    /\ UNCHANGED <<lock, streaming, bufs, idle, ahead, owed, halVars, frameVars,
                   ghostVars>>

Resumed ==
    /\ ~Starting
    /\ Goto("chan", "started", "answer")
    /\ streaming' = TRUE /\ paused' = FALSE
    /\ requested' = 0 /\ have' = FALSE
    /\ UNCHANGED <<lock, bufs, idle, ahead, owed, halVars, frameVars, ghostVars>>

\* The request gets no answer.
ResumeFailed ==
    /\ ~Starting
    /\ Goto("chan", "failed", "idle")
    /\ lock' = "free"
    /\ UNCHANGED <<streamVars, sampleVars, halVars, frameVars, ghostVars>>

SampleAnswer ==
    /\ Goto("chan", "answer", "idle")
    /\ lock' = "free"
    /\ SetTime
    /\ SendPending(requested + 1)
    /\ owed' = IF have /\ ~have' THEN owed - 1 ELSE owed
    /\ UNCHANGED <<streaming, paused, bufs, halVars, cb, late, oldSample,
                   ghostVars>>
-----------------------------------------------------------------------------
(* The timer thread.                                                       *)

\* Seen from the time the timer callback goes by, if one is under way.
TwoSecondsPass ==
    /\ ~Crashed
    /\ ~idle /\ pc["timer"] # "lock"
    /\ idle' = TRUE
    /\ UNCHANGED <<pc, lock, streaming, paused, bufs, ahead, sampleVars, halVars,
                   frameVars, ghostVars>>

\* The callback reads the time, then waits for the lock.
TimerFires ==
    /\ Goto("timer", "idle", "lock")
    /\ ahead' = FALSE
    /\ UNCHANGED <<lock, streaming, paused, bufs, idle, sampleVars, halVars,
                   frameVars, ghostVars>>

\* An unsigned difference: a request later than the callback's time is old.
TooLongAgo == idle \/ ahead

\* ecam_dev_pause_stream_idle: the backend is stopped with the lock held ...
Pause ==
    /\ lock = "free"
    /\ streaming /\ ~paused /\ TooLongAgo
    /\ Goto("timer", "lock", "stopFlag")
    /\ lock' = "timer"
    /\ streaming' = FALSE /\ paused' = TRUE
    /\ requested' = 0 /\ have' = FALSE
    /\ UNCHANGED <<bufs, idle, ahead, owed, halVars, frameVars, ghostVars>>

NoPause ==
    /\ lock = "free"
    /\ ~(streaming /\ ~paused /\ TooLongAgo)
    /\ Goto("timer", "lock", "idle")
    /\ UNCHANGED <<lock, streamVars, sampleVars, halVars, frameVars, ghostVars>>

Paused ==
    /\ Goto("timer", "stopped", "idle")
    /\ lock' = "free"
    /\ UNCHANGED <<streamVars, sampleVars, halVars, frameVars, ghostVars>>
-----------------------------------------------------------------------------
ChanStep ==
    \/ StartStep \/ StopStep("chan")
    \/ Started \/ Stamp \/ StartFailed \/ Mark \/ Stopped
    \/ TakeLock \/ Resumed \/ ResumeFailed \/ SampleAnswer

TimerStep == StopStep("timer") \/ Pause \/ NoPause \/ Paused

CallbackStep(e) == Deliver(e) \/ Check(e) \/ Enter(e) \/ Drop(e) \/ Leave(e)

\* What the server, the clock and the camera do.
Environment ==
    \/ StartRequest \/ StopRequest \/ SampleRequest
    \/ TwoSecondsPass \/ TimerFires
    \/ \E e \in Encoders : Capture(e)

Next == ChanStep \/ TimerStep \/ Environment \/ \E e \in Encoders : CallbackStep(e)

\* The threads run and the lock is handed to whoever waits for it; nobody is
\* obliged to ask, to stop asking, or to capture a frame.
Fairness ==
    /\ SF_vars(ChanStep)
    /\ SF_vars(TimerStep)
    /\ \A e \in Encoders : SF_vars(CallbackStep(e))

Spec == Init /\ [][Next]_vars /\ Fairness
-----------------------------------------------------------------------------
(* Properties.                                                             *)

\* Stop frees the buffers without the lock, yet never under a callback or an
\* answer that uses them.
BuffersInUseExist ==
    /\ \A e \in Encoders : cb[e] = "in" => bufs
    /\ pc["chan"] = "answer" /\ have => bufs

\* Every sample sent answers a request of the present stream ...
NothingUnasked == owed >= 0

\* ... with a frame captured since it was started or resumed.
NothingOld == ~sentOld

\* Only a Start handled while the timer is pausing leaves the camera on: when
\* nothing is going on and the stream does not run, it is off.
AtRest == pc["chan"] = "idle" /\ pc["timer"] \in {"idle", "lock"}

LightGoesOff == AtRest /\ ~streaming /\ ~raced => ~session /\ ~leaked

\* A Stop that has begun ends, a pause that hangs included, unless a Start was
\* handled in the middle of the pause or the process died of a race with it.
StopIsHandled ==
    pc["chan"] \in {"mark", "stopped"} ~> pc["chan"] = "idle" \/ raced \/ Crashed

\* What camera.h says of the idle pause: a later SampleRequest resumes the
\* stream - it is at least handled.
SampleIsHandled == pc["chan"] = "lock" ~> pc["chan"] # "lock" \/ Crashed
=============================================================================
