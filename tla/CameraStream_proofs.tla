------------------------ MODULE CameraStream_proofs ------------------------
(***************************************************************************)
(* Proofs about CameraStream, for any number of encoders and of requests   *)
(* under way: whatever the channel's thread, the timer and the encoder's   *)
(* callbacks do to each other, no buffer is used that is freed, no sample  *)
(* is sent that was not asked for or is from before the last start, and    *)
(* only a Start in the middle of a pause can leave the camera on.          *)
(***************************************************************************)
EXTENDS CameraStream, TLAPS

\* Where a thread is when it stops the backend, in order.
ToTake == {"stopFlag", "stopSession", "stopEncoder", "takeEncoder"}
Stopping == ToTake \cup {"drain", "stopped"}

\* Where the channel's thread is when it starts the backend.
Starts == {"startSession", "startEncoder", "startFlag", "started"}

\* The lock is the timer's while it stops the backend, the channel's thread's
\* while it answers a request or resumes for one, a callback's while it is in.
LockIsHeld ==
    /\ pc["timer"] \in {"idle", "lock", "crashed"} \cup Stopping
    /\ pc["timer"] \in Stopping => lock = "timer"
    /\ lock = "timer" => pc["timer"] \in Stopping \cup {"crashed"}
    /\ lock = "chan" => pc["chan"] \in Starts \cup {"failed", "answer"}
    /\ pc["chan"] = "answer" => lock = "chan"
    /\ \A e \in Encoders : cb[e] = "in" <=> lock = e

\* An encoder is in use or being drained by one thread; there is a frame in no
\* other.
EncodersApart ==
    /\ \A t \in Threads : drains[t] # None <=> pc[t] = "drain"
    /\ drains["chan"] = drains["timer"] => drains["chan"] = None
    /\ encoder # None => \A t \in Threads : drains[t] # encoder
    /\ \A e \in Encoders :
          cb[e] # "none" => e = encoder \/ e \in {drains[t] : t \in Threads}

\* What the place of the channel's thread says of the stream's flags.
FlagsFit ==
    /\ paused => ~streaming
    /\ pc["chan"] \in Starts \cup {"failed"} \cup Stopping => ~streaming
    /\ pc["chan"] = "answer" => streaming
    /\ pc["chan"] \in {"mark"} \cup Stopping => server = "stopped"
    /\ server = "started" /\ pc["chan"] \in {"idle", "lock", "stamp"} =>
          streaming \/ paused
    /\ pc["chan"] = "lock" => server = "started"
    /\ lock = "chan" => server = "started"
    /\ lock = "chan" /\ pc["chan"] # "answer" => paused
    /\ pc["chan"] \in Starts /\ lock # "chan" => ~paused
    /\ ~bufs => server = "stopped" /\ ~streaming /\ pc["chan"] = "idle"

\* Session and encoder are there for a stream, or somebody is about to take them
\* away.
BackendHasOwner ==
    /\ encoder # None =>
          \/ streaming
          \/ pc["chan"] \in {"startFlag", "started"} \cup ToTake
          \/ pc["timer"] \in ToTake
    /\ session =>
          \/ streaming
          \/ pc["chan"] \in {"startEncoder", "startFlag", "started",
                             "stopFlag", "stopSession"}
          \/ pc["timer"] \in {"stopFlag", "stopSession"}

\* A Start that meets the timer at a pause has been marked as such; no session is
\* lost otherwise.
RacesAreMarked ==
    /\ pc["chan"] \in Starts /\ pc["timer"] \in Stopping \cup {"crashed"} => raced
    /\ leaked => raced

\* A request being handled is not answered yet, and every request counted in a
\* stream that runs is one the server waits for.
Handling == pc["chan"] \in {"lock", "answer"} \/ lock = "chan"

RequestsAreOwed ==
    /\ owed >= 0
    /\ Handling => owed >= 1
    /\ streaming => requested + (IF Handling THEN 1 ELSE 0) <= owed
    /\ pc["chan"] \in Starts /\ lock # "chan" => requested = 0

\* A frame from before the last start is in an encoder that is being drained, or
\* that the timer is about to drain; a sample from then stays in a stream that
\* does not run.
PastIsDrained ==
    /\ \A e \in late :
          cb[e] # "none" =>
              \/ e = encoder /\ pc["timer"] \in ToTake
              \/ e \in {drains[t] : t \in Threads}
    /\ have /\ oldSample =>
          ~streaming /\ (pc["chan"] \in Starts => lock = "chan")
    /\ ~sentOld

IInv ==
    /\ TypeOK /\ LockIsHeld /\ EncodersApart /\ FlagsFit /\ BackendHasOwner
    /\ RacesAreMarked /\ RequestsAreOwed /\ PastIsDrained

\* The types of the places, the lock and the encoders ...
PlacesTyped ==
    /\ pc \in [Threads -> Places]
    /\ cb \in [Encoders -> {"none", "flight", "entered", "want", "in"}]
    /\ lock \in {"free"} \cup Threads \cup Encoders
    /\ encoder \in Encoders \cup {None}
    /\ drains \in [Threads -> Encoders \cup {None}]
    /\ late \subseteq Encoders
    /\ server \in {"started", "stopped"}

\* ... of the flags ...
FlagsTyped ==
    {streaming, paused, bufs, idle, ahead, have, capturing, session, leaked,
     oldSample, sentOld, raced} \subseteq BOOLEAN

\* ... and of the counters.
CountersTyped == requested \in 0..MaxOwed /\ owed \in -1..MaxOwed

\* What is false, or true, is a truth value (said once, for Zenon to find).
LEMMA FalseIsBoolean == \A x : x = FALSE => x \in BOOLEAN
  BY Zenon
LEMMA TrueIsBoolean == \A x : x = TRUE => x \in BOOLEAN
  BY Zenon

\* The steps, as the proofs below group them.
LEMMA StepCases ==
    [Next]_vars =>
        \/ (\E t \in Threads : StopFlag(t) \/ StopSession(t) \/ StopEncoder(t))
        \/ (\E t \in Threads : TakeEncoder(t))
        \/ (\E t \in Threads : Drain(t))
        \/ StartSession \/ StartFails \/ StartFlag
        \/ StartEncoder
        \/ EncoderFails
        \/ (\E e \in Encoders : Capture(e))
        \/ (\E e \in Encoders : Deliver(e) \/ Check(e))
        \/ (\E e \in Encoders : Enter(e))
        \/ (\E e \in Encoders : Drop(e))
        \/ (\E e \in Encoders : Leave(e))
        \/ StartRequest
        \/ Started \/ Stamp \/ StartFailed
        \/ StopRequest \/ Mark
        \/ Stopped
        \/ SampleRequest
        \/ TakeLock
        \/ Resumed \/ ResumeFailed
        \/ SampleAnswer
        \/ TwoSecondsPass \/ TimerFires \/ NoPause \/ Paused
        \/ Pause
        \/ UNCHANGED vars
  BY DEF Next, ChanStep, StartStep, StopStep, TimerStep, CallbackStep, Environment,
         Threads


\* Places, lock and encoders keep their types.
LEMMA PlaceStep == IInv /\ [Next]_vars => PlacesTyped'
<1> SUFFICES ASSUME IInv, [Next]_vars
             PROVE  PlacesTyped'
  OBVIOUS
<1> USE CameraAssumption DEF CameraAssumption, IInv, TypeOK, PlacesTyped, Places, Threads
<1> USE DEF halVars, frameVars, streamVars, sampleVars, ghostVars
<1>1. CASE \E t \in Threads : StopFlag(t) \/ StopSession(t) \/ StopEncoder(t)
  BY <1>1 DEF StopFlag, StopSession, StopEncoder, Goto, Hal
<1>2. CASE \E t \in Threads : TakeEncoder(t)
  BY <1>2 DEF TakeEncoder, Goto, Hal
<1>3. CASE \E t \in Threads : Drain(t)
  BY <1>3 DEF Drain, Goto, Hal
<1>4. CASE StartSession \/ StartFails \/ StartFlag
  BY <1>4 DEF StartSession, StartFails, StartFlag, Goto, Hal
<1>5. CASE StartEncoder
  BY <1>5 DEF StartEncoder, Goto, Hal
<1>6. CASE EncoderFails
  BY <1>6 DEF EncoderFails, Goto, Hal
<1>7. CASE \E e \in Encoders : Capture(e)
  BY <1>7 DEF Capture
<1>8. CASE \E e \in Encoders : Deliver(e) \/ Check(e)
  BY <1>8 DEF Deliver, Check, Reads
<1>9. CASE \E e \in Encoders : Enter(e)
  BY <1>9 DEF Enter
<1>10. CASE \E e \in Encoders : Drop(e)
  BY <1>10 DEF Drop
<1>11. CASE \E e \in Encoders : Leave(e)
  BY <1>11 DEF Leave, SendPending, Answers
<1>12. CASE StartRequest
  BY <1>12 DEF StartRequest, ServerStarts, NewStart, Goto
<1>13. CASE Started \/ Stamp \/ StartFailed
  BY <1>13 DEF Started, Starting, Stamp, SetTime, StartFailed, Goto
<1>14. CASE StopRequest \/ Mark
  BY <1>14 DEF StopRequest, Mark, Goto
<1>15. CASE Stopped
  BY <1>15 DEF Stopped, Goto
<1>16. CASE SampleRequest
  BY <1>16 DEF SampleRequest, Goto
<1>17. CASE TakeLock
  BY <1>17 DEF TakeLock, NewStart, Goto
<1>18. CASE Resumed \/ ResumeFailed
  BY <1>18 DEF Resumed, ResumeFailed, Starting, Goto
<1>19. CASE SampleAnswer
  BY <1>19 DEF SampleAnswer, SetTime, SendPending, Answers, Goto
<1>20. CASE TwoSecondsPass \/ TimerFires \/ NoPause \/ Paused
  BY <1>20 DEF TwoSecondsPass, TimerFires, NoPause, Paused, Goto
<1>21. CASE Pause
  BY <1>21 DEF Pause, Goto
<1>22. CASE UNCHANGED vars
  BY <1>22 DEF vars
<1>23. QED
  BY <1>1, <1>2, <1>3, <1>4, <1>5, <1>6, <1>7, <1>8, <1>9, <1>10, <1>11, <1>12, <1>13, <1>14, <1>15, <1>16, <1>17, <1>18, <1>19, <1>20, <1>21, <1>22, StepCases

\* The flags keep their types.
LEMMA FlagStep == IInv /\ [Next]_vars => FlagsTyped'
<1> SUFFICES ASSUME IInv, [Next]_vars
             PROVE  FlagsTyped'
  OBVIOUS
<1> USE DEF IInv, TypeOK, FlagsTyped
<1> USE FalseIsBoolean, TrueIsBoolean
<1> USE DEF halVars, frameVars, streamVars, sampleVars, ghostVars
<1>1. CASE \E t \in Threads : StopFlag(t) \/ StopSession(t) \/ StopEncoder(t)
  BY <1>1 DEF StopFlag, StopSession, StopEncoder, Goto, Hal
<1>2. CASE \E t \in Threads : TakeEncoder(t)
  BY <1>2 DEF TakeEncoder, Goto, Hal
<1>3. CASE \E t \in Threads : Drain(t)
  BY <1>3 DEF Drain, Goto, Hal
<1>4. CASE StartSession \/ StartFails \/ StartFlag
  BY <1>4 DEF StartSession, StartFails, StartFlag, Goto, Hal
<1>5. CASE StartEncoder
  BY <1>5 DEF StartEncoder, Goto, Hal
<1>6. CASE EncoderFails
  BY <1>6 DEF EncoderFails, Goto, Hal
<1>7. CASE \E e \in Encoders : Capture(e)
  BY <1>7 DEF Capture
<1>8. CASE \E e \in Encoders : Deliver(e) \/ Check(e)
  BY <1>8 DEF Deliver, Check, Reads
<1>9. CASE \E e \in Encoders : Enter(e)
  BY <1>9 DEF Enter
<1>10. CASE \E e \in Encoders : Drop(e)
  BY <1>10 DEF Drop
<1>11. CASE \E e \in Encoders : Leave(e)
  BY <1>11 DEF Leave, SendPending, Answers
<1>12. CASE StartRequest
  BY <1>12 DEF StartRequest, ServerStarts, NewStart, Goto
<1>13. CASE Started \/ Stamp \/ StartFailed
  BY <1>13 DEF Started, Starting, Stamp, SetTime, StartFailed, Goto
<1>14. CASE StopRequest \/ Mark
  BY <1>14 DEF StopRequest, Mark, Goto
<1>15. CASE Stopped
  BY <1>15 DEF Stopped, Goto
<1>16. CASE SampleRequest
  BY <1>16 DEF SampleRequest, Goto
<1>17. CASE TakeLock
  BY <1>17 DEF TakeLock, NewStart, Goto
<1>18. CASE Resumed \/ ResumeFailed
  BY <1>18 DEF Resumed, ResumeFailed, Starting, Goto
<1>19. CASE SampleAnswer
  BY <1>19 DEF SampleAnswer, SetTime, SendPending, Answers, Goto
<1>20. CASE TwoSecondsPass \/ TimerFires \/ NoPause \/ Paused
  BY <1>20 DEF TwoSecondsPass, TimerFires, NoPause, Paused, Goto
<1>21. CASE Pause
  BY <1>21 DEF Pause, Goto
<1>22. CASE UNCHANGED vars
  BY <1>22 DEF vars
<1>23. QED
  BY <1>1, <1>2, <1>3, <1>4, <1>5, <1>6, <1>7, <1>8, <1>9, <1>10, <1>11, <1>12, <1>13, <1>14, <1>15, <1>16, <1>17, <1>18, <1>19, <1>20, <1>21, <1>22, StepCases

\* No more is requested than the server may have out.
LEMMA CounterStep == IInv /\ [Next]_vars => CountersTyped'
<1> SUFFICES ASSUME IInv, [Next]_vars
             PROVE  CountersTyped'
  OBVIOUS
<1> USE CameraAssumption DEF CameraAssumption, IInv, TypeOK, CountersTyped, RequestsAreOwed, FlagsFit, LockIsHeld, Handling
<1> USE DEF halVars, frameVars, streamVars, sampleVars, ghostVars
<1>1. CASE \E t \in Threads : StopFlag(t) \/ StopSession(t) \/ StopEncoder(t)
  BY <1>1 DEF StopFlag, StopSession, StopEncoder, Goto, Hal
<1>2. CASE \E t \in Threads : TakeEncoder(t)
  BY <1>2 DEF TakeEncoder, Goto, Hal
<1>3. CASE \E t \in Threads : Drain(t)
  BY <1>3 DEF Drain, Goto, Hal
<1>4. CASE StartSession \/ StartFails \/ StartFlag
  BY <1>4 DEF StartSession, StartFails, StartFlag, Goto, Hal
<1>5. CASE StartEncoder
  BY <1>5 DEF StartEncoder, Goto, Hal
<1>6. CASE EncoderFails
  BY <1>6 DEF EncoderFails, Goto, Hal
<1>7. CASE \E e \in Encoders : Capture(e)
  BY <1>7 DEF Capture
<1>8. CASE \E e \in Encoders : Deliver(e) \/ Check(e)
  BY <1>8 DEF Deliver, Check, Reads
<1>9. CASE \E e \in Encoders : Enter(e)
  BY <1>9 DEF Enter
<1>10. CASE \E e \in Encoders : Drop(e)
  BY <1>10 DEF Drop
<1>11. CASE \E e \in Encoders : Leave(e)
  BY <1>11 DEF Leave, SendPending, Answers
<1>12. CASE StartRequest
  BY <1>12 DEF StartRequest, ServerStarts, NewStart, Goto
<1>13. CASE Started \/ Stamp \/ StartFailed
  BY <1>13 DEF Started, Starting, Stamp, SetTime, StartFailed, Goto
<1>14. CASE StopRequest \/ Mark
  BY <1>14 DEF StopRequest, Mark, Goto
<1>15. CASE Stopped
  BY <1>15 DEF Stopped, Goto
<1>16. CASE SampleRequest
  BY <1>16 DEF SampleRequest, Goto
<1>17. CASE TakeLock
  BY <1>17 DEF TakeLock, NewStart, Goto
<1>18. CASE Resumed \/ ResumeFailed
  BY <1>18 DEF Resumed, ResumeFailed, Starting, Goto
<1>19. CASE SampleAnswer
  BY <1>19 DEF SampleAnswer, SetTime, SendPending, Answers, Goto
<1>20. CASE TwoSecondsPass \/ TimerFires \/ NoPause \/ Paused
  BY <1>20 DEF TwoSecondsPass, TimerFires, NoPause, Paused, Goto
<1>21. CASE Pause
  BY <1>21 DEF Pause, Goto
<1>22. CASE UNCHANGED vars
  BY <1>22 DEF vars
<1>23. QED
  BY <1>1, <1>2, <1>3, <1>4, <1>5, <1>6, <1>7, <1>8, <1>9, <1>10, <1>11, <1>12, <1>13, <1>14, <1>15, <1>16, <1>17, <1>18, <1>19, <1>20, <1>21, <1>22, StepCases

\* The lock stays with who holds it.
LEMMA LockStep == IInv /\ [Next]_vars => LockIsHeld'
<1> SUFFICES ASSUME IInv, [Next]_vars
             PROVE  LockIsHeld'
  OBVIOUS
<1> USE CameraAssumption DEF CameraAssumption, LockIsHeld
<1> USE DEF IInv, TypeOK, Threads, Places, Stopping, ToTake, Starts
<1> USE DEF halVars, frameVars, streamVars, sampleVars, ghostVars
<1>1. CASE \E t \in Threads : StopFlag(t) \/ StopSession(t) \/ StopEncoder(t)
  BY <1>1 DEF StopFlag, StopSession, StopEncoder, Goto, Hal
<1>2. CASE \E t \in Threads : TakeEncoder(t)
  BY <1>2 DEF TakeEncoder, Goto, Hal
<1>3. CASE \E t \in Threads : Drain(t)
  BY <1>3 DEF Drain, Goto, Hal
<1>4. CASE StartSession \/ StartFails \/ StartFlag
  BY <1>4 DEF StartSession, StartFails, StartFlag, Goto, Hal
<1>5. CASE StartEncoder
  BY <1>5 DEF StartEncoder, Goto, Hal
<1>6. CASE EncoderFails
  BY <1>6 DEF EncoderFails, Goto, Hal
<1>7. CASE \E e \in Encoders : Capture(e)
  BY <1>7 DEF Capture
<1>8. CASE \E e \in Encoders : Deliver(e) \/ Check(e)
  BY <1>8 DEF Deliver, Check, Reads
<1>9. CASE \E e \in Encoders : Enter(e)
  BY <1>9 DEF Enter
<1>10. CASE \E e \in Encoders : Drop(e)
  BY <1>10 DEF Drop
<1>11. CASE \E e \in Encoders : Leave(e)
  BY <1>11 DEF Leave, SendPending, Answers
<1>12. CASE StartRequest
  BY <1>12 DEF StartRequest, ServerStarts, NewStart, Goto
<1>13. CASE Started \/ Stamp \/ StartFailed
  BY <1>13 DEF Started, Starting, Stamp, SetTime, StartFailed, Goto
<1>14. CASE StopRequest \/ Mark
  BY <1>14 DEF StopRequest, Mark, Goto
<1>15. CASE Stopped
  BY <1>15 DEF Stopped, Goto
<1>16. CASE SampleRequest
  BY <1>16 DEF SampleRequest, Goto
<1>17. CASE TakeLock
  BY <1>17 DEF TakeLock, NewStart, Goto
<1>18. CASE Resumed \/ ResumeFailed
  BY <1>18 DEF Resumed, ResumeFailed, Starting, Goto
<1>19. CASE SampleAnswer
  BY <1>19 DEF SampleAnswer, SetTime, SendPending, Answers, Goto
<1>20. CASE TwoSecondsPass \/ TimerFires \/ NoPause \/ Paused
  BY <1>20 DEF TwoSecondsPass, TimerFires, NoPause, Paused, Goto
<1>21. CASE Pause
  BY <1>21 DEF Pause, Goto
<1>22. CASE UNCHANGED vars
  BY <1>22 DEF vars
<1>23. QED
  BY <1>1, <1>2, <1>3, <1>4, <1>5, <1>6, <1>7, <1>8, <1>9, <1>10, <1>11, <1>12, <1>13, <1>14, <1>15, <1>16, <1>17, <1>18, <1>19, <1>20, <1>21, <1>22, StepCases

\* Encoders stay apart.
LEMMA EncoderStep == IInv /\ [Next]_vars => EncodersApart'
<1> SUFFICES ASSUME IInv, [Next]_vars
             PROVE  EncodersApart'
  OBVIOUS
<1> USE CameraAssumption DEF CameraAssumption, EncodersApart
<1> USE DEF IInv, TypeOK, Threads, Places, Stopping, ToTake, Starts
<1> USE DEF halVars, frameVars, streamVars, sampleVars, ghostVars
<1>1. CASE \E t \in Threads : StopFlag(t) \/ StopSession(t) \/ StopEncoder(t)
  BY <1>1 DEF StopFlag, StopSession, StopEncoder, Goto, Hal
<1>2. CASE \E t \in Threads : TakeEncoder(t)
  BY <1>2 DEF TakeEncoder, Goto, Hal
<1>3. CASE \E t \in Threads : Drain(t)
  BY <1>3 DEF Drain, Goto, Hal
<1>4. CASE StartSession \/ StartFails \/ StartFlag
  BY <1>4 DEF StartSession, StartFails, StartFlag, Goto, Hal
<1>5. CASE StartEncoder
  BY <1>5 DEF StartEncoder, Goto, Hal
<1>6. CASE EncoderFails
  BY <1>6 DEF EncoderFails, Goto, Hal
<1>7. CASE \E e \in Encoders : Capture(e)
  BY <1>7 DEF Capture
<1>8. CASE \E e \in Encoders : Deliver(e) \/ Check(e)
  BY <1>8 DEF Deliver, Check, Reads
<1>9. CASE \E e \in Encoders : Enter(e)
  BY <1>9 DEF Enter
<1>10. CASE \E e \in Encoders : Drop(e)
  BY <1>10 DEF Drop
<1>11. CASE \E e \in Encoders : Leave(e)
  BY <1>11 DEF Leave, SendPending, Answers
<1>12. CASE StartRequest
  BY <1>12 DEF StartRequest, ServerStarts, NewStart, Goto
<1>13. CASE Started \/ Stamp \/ StartFailed
  BY <1>13 DEF Started, Starting, Stamp, SetTime, StartFailed, Goto
<1>14. CASE StopRequest \/ Mark
  BY <1>14 DEF StopRequest, Mark, Goto
<1>15. CASE Stopped
  BY <1>15 DEF Stopped, Goto
<1>16. CASE SampleRequest
  BY <1>16 DEF SampleRequest, Goto
<1>17. CASE TakeLock
  BY <1>17 DEF TakeLock, NewStart, Goto
<1>18. CASE Resumed \/ ResumeFailed
  BY <1>18 DEF Resumed, ResumeFailed, Starting, Goto
<1>19. CASE SampleAnswer
  BY <1>19 DEF SampleAnswer, SetTime, SendPending, Answers, Goto
<1>20. CASE TwoSecondsPass \/ TimerFires \/ NoPause \/ Paused
  BY <1>20 DEF TwoSecondsPass, TimerFires, NoPause, Paused, Goto
<1>21. CASE Pause
  BY <1>21 DEF Pause, Goto
<1>22. CASE UNCHANGED vars
  BY <1>22 DEF vars
<1>23. QED
  BY <1>1, <1>2, <1>3, <1>4, <1>5, <1>6, <1>7, <1>8, <1>9, <1>10, <1>11, <1>12, <1>13, <1>14, <1>15, <1>16, <1>17, <1>18, <1>19, <1>20, <1>21, <1>22, StepCases

\* The flags stay fit for the place of the channel's thread.
LEMMA FitStep == IInv /\ [Next]_vars => FlagsFit'
<1> SUFFICES ASSUME IInv, [Next]_vars
             PROVE  FlagsFit'
  OBVIOUS
<1> USE CameraAssumption DEF CameraAssumption, FlagsFit, LockIsHeld
<1> USE DEF IInv, TypeOK, Threads, Places, Stopping, ToTake, Starts
<1> USE DEF halVars, frameVars, streamVars, sampleVars, ghostVars
<1>1. CASE \E t \in Threads : StopFlag(t) \/ StopSession(t) \/ StopEncoder(t)
  BY <1>1 DEF StopFlag, StopSession, StopEncoder, Goto, Hal
<1>2. CASE \E t \in Threads : TakeEncoder(t)
  BY <1>2 DEF TakeEncoder, Goto, Hal
<1>3. CASE \E t \in Threads : Drain(t)
  BY <1>3 DEF Drain, Goto, Hal
<1>4. CASE StartSession \/ StartFails \/ StartFlag
  BY <1>4 DEF StartSession, StartFails, StartFlag, Goto, Hal
<1>5. CASE StartEncoder
  BY <1>5 DEF StartEncoder, Goto, Hal
<1>6. CASE EncoderFails
  BY <1>6 DEF EncoderFails, Goto, Hal
<1>7. CASE \E e \in Encoders : Capture(e)
  BY <1>7 DEF Capture
<1>8. CASE \E e \in Encoders : Deliver(e) \/ Check(e)
  BY <1>8 DEF Deliver, Check, Reads
<1>9. CASE \E e \in Encoders : Enter(e)
  BY <1>9 DEF Enter
<1>10. CASE \E e \in Encoders : Drop(e)
  BY <1>10 DEF Drop
<1>11. CASE \E e \in Encoders : Leave(e)
  BY <1>11 DEF Leave, SendPending, Answers
<1>12. CASE StartRequest
  BY <1>12 DEF StartRequest, ServerStarts, NewStart, Goto
<1>13. CASE Started \/ Stamp \/ StartFailed
  BY <1>13 DEF Started, Starting, Stamp, SetTime, StartFailed, Goto
<1>14. CASE StopRequest \/ Mark
  BY <1>14 DEF StopRequest, Mark, Goto
<1>15. CASE Stopped
  BY <1>15 DEF Stopped, Goto
<1>16. CASE SampleRequest
  BY <1>16 DEF SampleRequest, Goto
<1>17. CASE TakeLock
  BY <1>17 DEF TakeLock, NewStart, Goto
<1>18. CASE Resumed \/ ResumeFailed
  BY <1>18 DEF Resumed, ResumeFailed, Starting, Goto
<1>19. CASE SampleAnswer
  BY <1>19 DEF SampleAnswer, SetTime, SendPending, Answers, Goto
<1>20. CASE TwoSecondsPass \/ TimerFires \/ NoPause \/ Paused
  BY <1>20 DEF TwoSecondsPass, TimerFires, NoPause, Paused, Goto
<1>21. CASE Pause
  BY <1>21 DEF Pause, Goto
<1>22. CASE UNCHANGED vars
  BY <1>22 DEF vars
<1>23. QED
  BY <1>1, <1>2, <1>3, <1>4, <1>5, <1>6, <1>7, <1>8, <1>9, <1>10, <1>11, <1>12, <1>13, <1>14, <1>15, <1>16, <1>17, <1>18, <1>19, <1>20, <1>21, <1>22, StepCases

\* Nothing of the backend is left without an owner.
LEMMA OwnerStep == IInv /\ [Next]_vars => BackendHasOwner'
<1> SUFFICES ASSUME IInv, [Next]_vars
             PROVE  BackendHasOwner'
  OBVIOUS
<1> USE DEF BackendHasOwner, FlagsFit, LockIsHeld
<1> USE DEF IInv, TypeOK, Threads, Places, Stopping, ToTake, Starts
<1> USE DEF halVars, frameVars, streamVars, sampleVars, ghostVars
<1>1. CASE \E t \in Threads : StopFlag(t) \/ StopSession(t) \/ StopEncoder(t)
  BY <1>1 DEF StopFlag, StopSession, StopEncoder, Goto, Hal
<1>2. CASE \E t \in Threads : TakeEncoder(t)
  BY <1>2 DEF TakeEncoder, Goto, Hal
<1>3. CASE \E t \in Threads : Drain(t)
  BY <1>3 DEF Drain, Goto, Hal
<1>4. CASE StartSession \/ StartFails \/ StartFlag
  BY <1>4 DEF StartSession, StartFails, StartFlag, Goto, Hal
<1>5. CASE StartEncoder
  BY <1>5 DEF StartEncoder, Goto, Hal
<1>6. CASE EncoderFails
  BY <1>6 DEF EncoderFails, Goto, Hal
<1>7. CASE \E e \in Encoders : Capture(e)
  BY <1>7 DEF Capture
<1>8. CASE \E e \in Encoders : Deliver(e) \/ Check(e)
  BY <1>8 DEF Deliver, Check, Reads
<1>9. CASE \E e \in Encoders : Enter(e)
  BY <1>9 DEF Enter
<1>10. CASE \E e \in Encoders : Drop(e)
  BY <1>10 DEF Drop
<1>11. CASE \E e \in Encoders : Leave(e)
  BY <1>11 DEF Leave, SendPending, Answers
<1>12. CASE StartRequest
  BY <1>12 DEF StartRequest, ServerStarts, NewStart, Goto
<1>13. CASE Started \/ Stamp \/ StartFailed
  BY <1>13 DEF Started, Starting, Stamp, SetTime, StartFailed, Goto
<1>14. CASE StopRequest \/ Mark
  BY <1>14 DEF StopRequest, Mark, Goto
<1>15. CASE Stopped
  BY <1>15 DEF Stopped, Goto
<1>16. CASE SampleRequest
  BY <1>16 DEF SampleRequest, Goto
<1>17. CASE TakeLock
  BY <1>17 DEF TakeLock, NewStart, Goto
<1>18. CASE Resumed \/ ResumeFailed
  BY <1>18 DEF Resumed, ResumeFailed, Starting, Goto
<1>19. CASE SampleAnswer
  BY <1>19 DEF SampleAnswer, SetTime, SendPending, Answers, Goto
<1>20. CASE TwoSecondsPass \/ TimerFires \/ NoPause \/ Paused
  BY <1>20 DEF TwoSecondsPass, TimerFires, NoPause, Paused, Goto
<1>21. CASE Pause
  BY <1>21 DEF Pause, Goto
<1>22. CASE UNCHANGED vars
  BY <1>22 DEF vars
<1>23. QED
  BY <1>1, <1>2, <1>3, <1>4, <1>5, <1>6, <1>7, <1>8, <1>9, <1>10, <1>11, <1>12, <1>13, <1>14, <1>15, <1>16, <1>17, <1>18, <1>19, <1>20, <1>21, <1>22, StepCases

\* A Start in the middle of a pause is marked.
LEMMA RaceStep == IInv /\ [Next]_vars => RacesAreMarked'
<1> SUFFICES ASSUME IInv, [Next]_vars
             PROVE  RacesAreMarked'
  OBVIOUS
<1> USE CameraAssumption DEF CameraAssumption, RacesAreMarked, BackendHasOwner, FlagsFit, LockIsHeld, Starting
<1> USE DEF IInv, TypeOK, Threads, Places, Stopping, ToTake, Starts
<1> USE DEF halVars, frameVars, streamVars, sampleVars, ghostVars
<1>1. CASE \E t \in Threads : StopFlag(t) \/ StopSession(t) \/ StopEncoder(t)
  BY <1>1 DEF StopFlag, StopSession, StopEncoder, Goto, Hal
<1>2. CASE \E t \in Threads : TakeEncoder(t)
  BY <1>2 DEF TakeEncoder, Goto, Hal
<1>3. CASE \E t \in Threads : Drain(t)
  BY <1>3 DEF Drain, Goto, Hal
<1>4. CASE StartSession \/ StartFails \/ StartFlag
  BY <1>4 DEF StartSession, StartFails, StartFlag, Goto, Hal
<1>5. CASE StartEncoder
  BY <1>5 DEF StartEncoder, Goto, Hal
<1>6. CASE EncoderFails
  BY <1>6 DEF EncoderFails, Goto, Hal
<1>7. CASE \E e \in Encoders : Capture(e)
  BY <1>7 DEF Capture
<1>8. CASE \E e \in Encoders : Deliver(e) \/ Check(e)
  BY <1>8 DEF Deliver, Check, Reads
<1>9. CASE \E e \in Encoders : Enter(e)
  BY <1>9 DEF Enter
<1>10. CASE \E e \in Encoders : Drop(e)
  BY <1>10 DEF Drop
<1>11. CASE \E e \in Encoders : Leave(e)
  BY <1>11 DEF Leave, SendPending, Answers
<1>12. CASE StartRequest
  BY <1>12 DEF StartRequest, ServerStarts, NewStart, Goto
<1>13. CASE Started \/ Stamp \/ StartFailed
  BY <1>13 DEF Started, Starting, Stamp, SetTime, StartFailed, Goto
<1>14. CASE StopRequest \/ Mark
  BY <1>14 DEF StopRequest, Mark, Goto
<1>15. CASE Stopped
  BY <1>15 DEF Stopped, Goto
<1>16. CASE SampleRequest
  BY <1>16 DEF SampleRequest, Goto
<1>17. CASE TakeLock
  BY <1>17 DEF TakeLock, NewStart, Goto, Crashed
<1>18. CASE Resumed \/ ResumeFailed
  BY <1>18 DEF Resumed, ResumeFailed, Starting, Goto
<1>19. CASE SampleAnswer
  BY <1>19 DEF SampleAnswer, SetTime, SendPending, Answers, Goto
<1>20. CASE TwoSecondsPass \/ TimerFires \/ NoPause \/ Paused
  BY <1>20 DEF TwoSecondsPass, TimerFires, NoPause, Paused, Goto
<1>21. CASE Pause
  BY <1>21 DEF Pause, Goto
<1>22. CASE UNCHANGED vars
  BY <1>22 DEF vars
<1>23. QED
  BY <1>1, <1>2, <1>3, <1>4, <1>5, <1>6, <1>7, <1>8, <1>9, <1>10, <1>11, <1>12, <1>13, <1>14, <1>15, <1>16, <1>17, <1>18, <1>19, <1>20, <1>21, <1>22, StepCases

\* No request is counted that the server does not wait for.
LEMMA OwedStep == IInv /\ [Next]_vars => RequestsAreOwed'
<1> SUFFICES ASSUME IInv, [Next]_vars
             PROVE  RequestsAreOwed'
  OBVIOUS
<1> USE CameraAssumption DEF CameraAssumption, RequestsAreOwed, Handling, FlagsFit, LockIsHeld, Starting
<1> USE DEF IInv, TypeOK, Threads, Places, Stopping, ToTake, Starts
<1> USE DEF halVars, frameVars, streamVars, sampleVars, ghostVars
<1>1. CASE \E t \in Threads : StopFlag(t) \/ StopSession(t) \/ StopEncoder(t)
  BY <1>1 DEF StopFlag, StopSession, StopEncoder, Goto, Hal
<1>2. CASE \E t \in Threads : TakeEncoder(t)
  BY <1>2 DEF TakeEncoder, Goto, Hal
<1>3. CASE \E t \in Threads : Drain(t)
  BY <1>3 DEF Drain, Goto, Hal
<1>4. CASE StartSession \/ StartFails \/ StartFlag
  BY <1>4 DEF StartSession, StartFails, StartFlag, Goto, Hal
<1>5. CASE StartEncoder
  BY <1>5 DEF StartEncoder, Goto, Hal
<1>6. CASE EncoderFails
  BY <1>6 DEF EncoderFails, Goto, Hal
<1>7. CASE \E e \in Encoders : Capture(e)
  BY <1>7 DEF Capture
<1>8. CASE \E e \in Encoders : Deliver(e) \/ Check(e)
  BY <1>8 DEF Deliver, Check, Reads
<1>9. CASE \E e \in Encoders : Enter(e)
  BY <1>9 DEF Enter
<1>10. CASE \E e \in Encoders : Drop(e)
  BY <1>10 DEF Drop
<1>11. CASE \E e \in Encoders : Leave(e)
  BY <1>11 DEF Leave, SendPending, Answers
<1>12. CASE StartRequest
  BY <1>12 DEF StartRequest, ServerStarts, NewStart, Goto
<1>13. CASE Started \/ Stamp \/ StartFailed
  BY <1>13 DEF Started, Starting, Stamp, SetTime, StartFailed, Goto
<1>14. CASE StopRequest \/ Mark
  BY <1>14 DEF StopRequest, Mark, Goto
<1>15. CASE Stopped
  BY <1>15 DEF Stopped, Goto
<1>16. CASE SampleRequest
  BY <1>16 DEF SampleRequest, Goto
<1>17. CASE TakeLock
  BY <1>17 DEF TakeLock, NewStart, Goto
<1>18. CASE Resumed \/ ResumeFailed
  BY <1>18 DEF Resumed, ResumeFailed, Starting, Goto
<1>19. CASE SampleAnswer
  BY <1>19 DEF SampleAnswer, SetTime, SendPending, Answers, Goto
<1>20. CASE TwoSecondsPass \/ TimerFires \/ NoPause \/ Paused
  BY <1>20 DEF TwoSecondsPass, TimerFires, NoPause, Paused, Goto
<1>21. CASE Pause
  BY <1>21 DEF Pause, Goto
<1>22. CASE UNCHANGED vars
  BY <1>22 DEF vars
<1>23. QED
  BY <1>1, <1>2, <1>3, <1>4, <1>5, <1>6, <1>7, <1>8, <1>9, <1>10, <1>11, <1>12, <1>13, <1>14, <1>15, <1>16, <1>17, <1>18, <1>19, <1>20, <1>21, <1>22, StepCases

\* Nothing from the past is sent.
LEMMA PastStep == IInv /\ [Next]_vars => PastIsDrained'
<1> SUFFICES ASSUME IInv, [Next]_vars
             PROVE  PastIsDrained'
  OBVIOUS
<1> USE CameraAssumption DEF CameraAssumption, PastIsDrained, EncodersApart, BackendHasOwner, FlagsFit, LockIsHeld, Starting
<1> USE DEF IInv, TypeOK, Threads, Places, Stopping, ToTake, Starts
<1> USE DEF halVars, frameVars, streamVars, sampleVars, ghostVars
<1>1. CASE \E t \in Threads : StopFlag(t) \/ StopSession(t) \/ StopEncoder(t)
  BY <1>1 DEF StopFlag, StopSession, StopEncoder, Goto, Hal
<1>2. CASE \E t \in Threads : TakeEncoder(t)
  BY <1>2 DEF TakeEncoder, Goto, Hal
<1>3. CASE \E t \in Threads : Drain(t)
  BY <1>3 DEF Drain, Goto, Hal
<1>4. CASE StartSession \/ StartFails \/ StartFlag
  BY <1>4 DEF StartSession, StartFails, StartFlag, Goto, Hal
<1>5. CASE StartEncoder
  BY <1>5 DEF StartEncoder, Goto, Hal
<1>6. CASE EncoderFails
  BY <1>6 DEF EncoderFails, Goto, Hal
<1>7. CASE \E e \in Encoders : Capture(e)
  BY <1>7 DEF Capture
<1>8. CASE \E e \in Encoders : Deliver(e) \/ Check(e)
  BY <1>8 DEF Deliver, Check, Reads
<1>9. CASE \E e \in Encoders : Enter(e)
  BY <1>9 DEF Enter
<1>10. CASE \E e \in Encoders : Drop(e)
  BY <1>10 DEF Drop
<1>11. CASE \E e \in Encoders : Leave(e)
  BY <1>11 DEF Leave, SendPending, Answers
<1>12. CASE StartRequest
  BY <1>12 DEF StartRequest, ServerStarts, NewStart, Goto
<1>13. CASE Started \/ Stamp \/ StartFailed
  BY <1>13 DEF Started, Starting, Stamp, SetTime, StartFailed, Goto
<1>14. CASE StopRequest \/ Mark
  BY <1>14 DEF StopRequest, Mark, Goto
<1>15. CASE Stopped
  BY <1>15 DEF Stopped, Goto
<1>16. CASE SampleRequest
  BY <1>16 DEF SampleRequest, Goto
<1>17. CASE TakeLock
  BY <1>17 DEF TakeLock, NewStart, Goto
<1>18. CASE Resumed \/ ResumeFailed
  BY <1>18 DEF Resumed, ResumeFailed, Starting, Goto
<1>19. CASE SampleAnswer
  BY <1>19 DEF SampleAnswer, SetTime, SendPending, Answers, Goto
<1>20. CASE TwoSecondsPass \/ TimerFires \/ NoPause \/ Paused
  BY <1>20 DEF TwoSecondsPass, TimerFires, NoPause, Paused, Goto
<1>21. CASE Pause
  BY <1>21 DEF Pause, Goto
<1>22. CASE UNCHANGED vars
  BY <1>22 DEF vars
<1>23. QED
  BY <1>1, <1>2, <1>3, <1>4, <1>5, <1>6, <1>7, <1>8, <1>9, <1>10, <1>11, <1>12, <1>13, <1>14, <1>15, <1>16, <1>17, <1>18, <1>19, <1>20, <1>21, <1>22, StepCases

\* All of it holds to begin with.
LEMMA InitInv == Init => IInv
<1> SUFFICES ASSUME Init
             PROVE  IInv
  OBVIOUS
<1> USE CameraAssumption DEF CameraAssumption, Init, Threads, Places, Stopping, ToTake,
                              Starts
<1>1. PlacesTyped /\ CountersTyped
  BY DEF PlacesTyped, CountersTyped
<1>2. FlagsTyped
  BY FalseIsBoolean, TrueIsBoolean DEF FlagsTyped
<1>3. LockIsHeld /\ EncodersApart
  BY DEF LockIsHeld, EncodersApart
<1>4. FlagsFit /\ BackendHasOwner /\ RacesAreMarked
  BY DEF FlagsFit, BackendHasOwner, RacesAreMarked
<1>5. RequestsAreOwed /\ PastIsDrained
  BY DEF RequestsAreOwed, Handling, PastIsDrained
<1>6. QED
  BY <1>1, <1>2, <1>3, <1>4, <1>5
     DEF IInv, TypeOK, PlacesTyped, CountersTyped, FlagsTyped

\* Every step keeps all of it.
LEMMA InvStep == IInv /\ [Next]_vars => IInv'
<1>1. IInv /\ [Next]_vars => TypeOK'
  BY PlaceStep, FlagStep, CounterStep
     DEF TypeOK, PlacesTyped, FlagsTyped, CountersTyped
<1>2. QED
  BY <1>1, LockStep, EncoderStep, FitStep, OwnerStep, RaceStep, OwedStep, PastStep
     DEF IInv

\* All of it holds in every reachable state.
LEMMA Invariance == Spec => []IInv
<1>1. QED
  BY InitInv, InvStep, PTL DEF Spec

\* Every reachable state is of its type: places, lock and encoders of the stream,
\* and no more samples are requested than the server may have out.
THEOREM TypeCorrect == Spec => []TypeOK
<1>1. IInv => TypeOK
  BY DEF IInv
<1>2. QED
  BY Invariance, <1>1, PTL

\* Stop frees the buffers without the lock (ecam_dev_stop_stream), yet never
\* while a callback is in or an answer is made: a callback that is in has the
\* lock, so the timer is not stopping the backend, and its encoder is the
\* stream's or is being drained by the thread that would have to free them.
THEOREM BuffersAreThere == Spec => []BuffersInUseExist
<1>1. IInv => BuffersInUseExist
  <2> SUFFICES ASSUME IInv
               PROVE  BuffersInUseExist
    OBVIOUS
  <2> USE CameraAssumption DEF CameraAssumption, IInv, TypeOK, Threads, Stopping, ToTake
  <2>1. ASSUME NEW e \in Encoders, cb[e] = "in"
        PROVE  bufs
    <3>1. lock = e /\ lock # "timer"
      BY <2>1 DEF LockIsHeld
    <3>2. pc["timer"] \notin Stopping /\ drains["timer"] # e
      BY <3>1 DEF LockIsHeld, EncodersApart
    <3>3. encoder = e \/ drains["chan"] = e
      BY <2>1, <3>2 DEF EncodersApart
    <3>4. CASE encoder = e
      BY <3>2, <3>4 DEF BackendHasOwner, FlagsFit
    <3>5. CASE drains["chan"] = e
      BY <3>5 DEF EncodersApart, FlagsFit
    <3>6. QED
      BY <3>3, <3>4, <3>5
  <2>2. pc["chan"] = "answer" => bufs
    BY DEF FlagsFit
  <2>3. QED
    BY <2>1, <2>2 DEF BuffersInUseExist
<1>2. QED
  BY Invariance, <1>1, PTL

\* Every sample sent answers a request of the present stream, however starts,
\* stops, pauses and resumes forget requests in between: for any number of them.
THEOREM OnlyAsked == Spec => []NothingUnasked
<1>1. IInv => NothingUnasked
  BY DEF IInv, RequestsAreOwed, NothingUnasked
<1>2. QED
  BY Invariance, <1>1, PTL

\* No sample is sent that was captured before the last start or resume: frames
\* from then are in an encoder that is drained before its thread goes on.
THEOREM OnlyNew == Spec => []NothingOld
<1>1. IInv => NothingOld
  BY DEF IInv, PastIsDrained, NothingOld
<1>2. QED
  BY Invariance, <1>1, PTL

\* When nothing is going on and the stream does not run the camera is off, unless
\* a Start was handled in the middle of a pause.
THEOREM CameraGoesOff == Spec => []LightGoesOff
<1>1. IInv => LightGoesOff
  BY DEF IInv, BackendHasOwner, RacesAreMarked, LightGoesOff, AtRest, ToTake
<1>2. QED
  BY Invariance, <1>1, PTL
=============================================================================
