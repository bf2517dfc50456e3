-------------------------- MODULE RdpSession_proofs --------------------------
(***************************************************************************)
(* Proofs about RdpSession for every set of channels and every bound: the  *)
(* types, the three safety properties MCRdpSession checks, and that every  *)
(* step of the two threads is a step (or a stutter) of SessionPromise.     *)
(***************************************************************************)
EXTENDS RdpSession, TLAPS

\* The prover knows TRUE for a Boolean; of FALSE it has to be told.
LEMMA FalseIsBoolean == \A x : x = FALSE => x \in BOOLEAN
  BY Zenon

\* What the three ways of posting to the event queue return.
LEMMA PostType ==
    ASSUME NEW q \in Seq(Events), NEW e \in Events
    PROVE  Append(q, e) \in Seq(Events)
  BY DEF Events

LEMMA PostTwoType ==
    ASSUME NEW q \in Seq(Events)
    PROVE  q \o <<"frameResized", "windowResized">> \in Seq(Events)
  BY DEF Events

LEMMA RepeatType ==
    ASSUME NEW q \in Seq(Events), NEW n \in Nat
    PROVE  q \o [i \in 1..n |-> "dispInit"] \in Seq(Events)
<1>1. [i \in 1..n |-> "dispInit"] \in Seq(Events)
  BY DEF Events
<1>2. QED
  BY <1>1

\* One step of either thread keeps the types.
LEMMA TypeStep == TypeOK /\ [Next]_vars => TypeOK'
<1> SUFFICES ASSUME TypeOK, [Next]_vars
             PROVE  TypeOK'
  OBVIOUS
<1> USE SessionAssumption, FalseIsBoolean
        DEF SessionAssumption, TypeOK, Goto, guiVars, Places
<1>1. CASE Start
  BY <1>1 DEF Start
<1>2. CASE NewFails
  BY <1>2 DEF NewFails
<1>3. CASE ContextNewFails
  BY <1>3 DEF ContextNewFails
<1>4. CASE ContextNew
  BY <1>4 DEF ContextNew
<1>5. CASE BeginConnect
  BY <1>5 DEF BeginConnect, PreConnect
<1>6. CASE EndConnect
  <2>1. queue' \in Seq(Events)
    BY <1>6, PostTwoType DEF EndConnect, ConnectOk, ConnectFails, PostConnect
  <2>2. CASE Goto("dialing", "gate") /\ ConnectOk
    BY <1>6, <2>1, <2>2 DEF EndConnect, ConnectOk, PostConnect
  <2>3. CASE Goto("dialing", "connecting") /\ ConnectFails
    BY <1>6, <2>1, <2>3 DEF EndConnect, ConnectFails, Disconnect, PostConnect
  <2>4. QED
    BY <1>6, <2>2, <2>3 DEF EndConnect
<1>7. CASE GiveUp
  <2>1. queue' \in Seq(Events)
    BY <1>7, PostType DEF GiveUp, Events
  <2>2. QED
    BY <1>7, <2>1 DEF GiveUp
<1>8. CASE Gate
  BY <1>8 DEF Gate
<1>9. ASSUME NEW c \in Channels, ChannelOpens(c)
     PROVE  TypeOK'
  <2>1. subs \in Nat
    OBVIOUS
  <2>2. queue \o [i \in 1..subs |-> "dispInit"] \in Seq(Events)
    BY <2>1, RepeatType
  <2>3. queue' \in Seq(Events)
    BY <1>9, <2>2 DEF ChannelOpens
  <2>4. QED
    BY <1>9, <2>3 DEF ChannelOpens
<1>10. CASE ServerEnds
  BY <1>10 DEF ServerEnds
<1>11. CASE LinkLost
  BY <1>11 DEF LinkLost
<1>12. CASE BeginReconnect
  BY <1>12 DEF BeginReconnect, Disconnect
<1>13. CASE NullPointers
  BY <1>13 DEF NullPointers
<1>14. CASE Redial
  BY <1>14 DEF Redial, PreConnect
<1>15. CASE EndRedial
  <2>1. queue' \in Seq(Events)
    BY <1>15, PostTwoType DEF EndRedial, ConnectOk, ConnectFails, PostConnect
  <2>2. CASE Goto("redialing", "run") /\ ConnectOk
    BY <1>15, <2>1, <2>2 DEF EndRedial, ConnectOk, PostConnect
  <2>3. CASE Goto("redialing", "reconnecting") /\ ConnectFails
    BY <1>15, <2>1, <2>3 DEF EndRedial, ConnectFails, Disconnect, PostConnect
  <2>4. QED
    BY <1>15, <2>2, <2>3 DEF EndRedial
<1>16. CASE LeaveLoop
  BY <1>16 DEF LeaveLoop
<1>17. CASE Close
  BY <1>17 DEF Close, Disconnect
<1>18. CASE Notify
  <2>1. queue' \in Seq(Events)
    BY <1>18, PostType DEF Notify, Events
  <2>2. QED
    BY <1>18, <2>1 DEF Notify
<1>19. CASE Free
  BY <1>19 DEF Free
<1>20. CASE HandleEvent
  BY <1>20 DEF HandleEvent, rdpVars
<1>21. CASE CloseWindow
  BY <1>21 DEF CloseWindow, rdpVars
<1>22. CASE Stop
  BY <1>22 DEF Stop, rdpVars
<1>23. CASE Join
  BY <1>23 DEF Join, rdpVars
<1>24. CASE UNCHANGED vars
  BY <1>24 DEF vars
<1>25. QED
  BY <1>1, <1>2, <1>3, <1>4, <1>5, <1>6, <1>7, <1>8, <1>9, <1>10,
     <1>11, <1>12, <1>13, <1>14, <1>15, <1>16, <1>17, <1>18, <1>19,
     <1>20, <1>21, <1>22, <1>23, <1>24 DEF Next, RdpStep, GuiStep
\* Every variable keeps its type: in particular the handler table never
\* overflows and no attempt beyond the third is begun.
THEOREM TypeCorrect == Spec => []TypeOK
<1> USE SessionAssumption, FalseIsBoolean DEF SessionAssumption
<1>1. Init => TypeOK
  BY DEF Init, TypeOK, Places, Events
<1>2. TypeOK /\ [Next]_vars => TypeOK'
  BY TypeStep
<1>3. QED
  BY <1>1, <1>2, PTL DEF Spec
-----------------------------------------------------------------------------
(* The strengthening. A channel pointer can be stale only while the link   *)
(* is being torn down, so the places before the session hold none; the     *)
(* link is up only in the places between a connect and a disconnect.       *)

LinkPlaces == {"gate", "run", "reconnecting", "closing", "freeing", "done"}

BeforeSession == {"idle", "alloc", "connecting", "dialing"}

LinkInv ==
    /\ link => rdp \in LinkPlaces
    /\ rdp = "dialing" => ~abort
    /\ rdp = "gate" /\ link => ~abort

PointerInv ==
    /\ rdp \in BeforeSession \cup {"redial", "redialing"} => ptrs = {}
    /\ rdp \in {"gate", "run"} => ptrs \subseteq live

DropInv == rdp \in BeforeSession \cup {"gate"} => drops = 0

FreeInv ==
    /\ ctx = "freed" => rdp = "done"
    /\ rdp \in {"freeing", "done"} /\ link => stopped /\ drops = 0

NoticeInv ==
    /\ rdp \in {"idle", "alloc"} => ~viewCtx
    /\ rdp = "gate" /\ abort /\ viewCtx => HasNotice(queue)
    /\ rdp \in {"freeing", "done"} /\ viewCtx => HasNotice(queue) \/ stopped

IInv == TypeOK /\ LinkInv /\ PointerInv /\ DropInv /\ FreeInv /\ NoticeInv

\* A notice stays queued whatever is posted behind it, posting one queues it,
\* and delivering another event does not lose it.
LEMMA NoticeKept ==
    ASSUME NEW q \in Seq(Events), NEW r \in Seq(Events), HasNotice(q)
    PROVE  HasNotice(q \o r)
  BY DEF HasNotice

LEMMA NoticePosted ==
    ASSUME NEW q \in Seq(Events)
    PROVE  HasNotice(Append(q, "disconnected"))
<1>1. /\ Len(q) + 1 \in 1..Len(Append(q, "disconnected"))
      /\ Append(q, "disconnected")[Len(q) + 1] = "disconnected"
  OBVIOUS
<1>2. QED
  BY <1>1 DEF HasNotice

LEMMA NoticeNotHead ==
    ASSUME NEW q \in Seq(Events), q # <<>>, Head(q) # "disconnected",
           HasNotice(q)
    PROVE  HasNotice(Tail(q))
<1>1. PICK i \in 1..Len(q) : q[i] = "disconnected"
  BY DEF HasNotice
<1>2. i # 1
  BY <1>1
<1>3. i - 1 \in 1..Len(Tail(q)) /\ Tail(q)[i - 1] = "disconnected"
  BY <1>1, <1>2
<1>4. QED
  BY <1>3 DEF HasNotice

\* One step of either thread keeps everything but the notice.
LEMMA PointerStep ==
    IInv /\ [Next]_vars => LinkInv' /\ PointerInv' /\ DropInv' /\ FreeInv'
<1> SUFFICES ASSUME IInv, [Next]_vars
             PROVE  LinkInv' /\ PointerInv' /\ DropInv' /\ FreeInv'
  OBVIOUS
<1> USE DEF IInv, LinkInv, PointerInv, DropInv, FreeInv, LinkPlaces,
            BeforeSession, Goto, guiVars
<1>1. CASE Start
  BY <1>1 DEF Start
<1>2. CASE NewFails
  BY <1>2 DEF NewFails
<1>3. CASE ContextNewFails
  BY <1>3 DEF ContextNewFails
<1>4. CASE ContextNew
  BY <1>4 DEF ContextNew
<1>5. CASE BeginConnect
  BY <1>5 DEF BeginConnect, PreConnect
<1>6. CASE EndConnect
  BY <1>6 DEF EndConnect, ConnectOk, ConnectFails, PostConnect, Disconnect
<1>7. CASE GiveUp
  BY <1>7 DEF GiveUp
<1>8. CASE Gate
  BY <1>8 DEF Gate
<1>9. CASE ServerEnds
  BY <1>9 DEF ServerEnds
<1>10. CASE LinkLost
  BY <1>10 DEF LinkLost
<1>11. CASE BeginReconnect
  BY <1>11 DEF BeginReconnect, Disconnect
<1>12. CASE NullPointers
  BY <1>12 DEF NullPointers
<1>13. CASE Redial
  BY <1>13 DEF Redial, PreConnect
<1>14. CASE EndRedial
  BY <1>14 DEF EndRedial, ConnectOk, ConnectFails, PostConnect, Disconnect
<1>15. CASE LeaveLoop
  BY <1>15 DEF LeaveLoop
<1>16. CASE Close
  BY <1>16 DEF Close, Disconnect
<1>17. CASE Notify
  BY <1>17 DEF Notify
<1>18. CASE Free
  BY <1>18 DEF Free
<1>19. CASE HandleEvent
  BY <1>19 DEF HandleEvent, rdpVars
<1>20. CASE CloseWindow
  BY <1>20 DEF CloseWindow, rdpVars
<1>21. CASE Stop
  BY <1>21 DEF Stop, rdpVars
<1>22. CASE Join
  BY <1>22 DEF Join, rdpVars
<1>23. ASSUME NEW c \in Channels, ChannelOpens(c)
       PROVE  LinkInv' /\ PointerInv' /\ DropInv' /\ FreeInv'
  BY <1>23 DEF ChannelOpens
<1>24. CASE UNCHANGED vars
  BY <1>24 DEF vars
<1>25. QED
  BY <1>1, <1>2, <1>3, <1>4, <1>5, <1>6, <1>7, <1>8, <1>9, <1>10,
     <1>11, <1>12, <1>13, <1>14, <1>15, <1>16, <1>17, <1>18, <1>19,
     <1>20, <1>21, <1>22, <1>23, <1>24 DEF Next, RdpStep, GuiStep

\* One step of either thread keeps the notice: it is posted before the session
\* is freed, and the view lets go of the context when it is delivered.
LEMMA NoticeStep == IInv /\ [Next]_vars => NoticeInv'
<1> SUFFICES ASSUME IInv, [Next]_vars
             PROVE  NoticeInv'
  OBVIOUS
<1>q. queue \in Seq(Events)
  BY DEF IInv, TypeOK
<1> USE DEF IInv, LinkInv, NoticeInv, Goto, guiVars
<1>1. CASE Start
  BY <1>1 DEF Start
<1>2. CASE NewFails
  BY <1>2 DEF NewFails
<1>3. CASE ContextNewFails
  BY <1>3 DEF ContextNewFails
<1>4. CASE ContextNew
  BY <1>4 DEF ContextNew
<1>5. CASE BeginConnect
  BY <1>5 DEF BeginConnect, PreConnect
<1>6. CASE Gate
  BY <1>6 DEF Gate
<1>7. CASE ServerEnds
  BY <1>7 DEF ServerEnds
<1>8. CASE LinkLost
  BY <1>8 DEF LinkLost
<1>9. CASE BeginReconnect
  BY <1>9 DEF BeginReconnect, Disconnect
<1>10. CASE NullPointers
  BY <1>10 DEF NullPointers
<1>11. CASE Redial
  BY <1>11 DEF Redial, PreConnect
<1>12. CASE LeaveLoop
  BY <1>12 DEF LeaveLoop
<1>13. CASE Close
  BY <1>13 DEF Close, Disconnect
<1>14. CASE Free
  BY <1>14 DEF Free
<1>15. CASE CloseWindow
  BY <1>15 DEF CloseWindow, rdpVars
<1>16. CASE Stop
  BY <1>16 DEF Stop, rdpVars
<1>17. CASE Join
  BY <1>17 DEF Join, rdpVars
<1>18. CASE EndConnect
  BY <1>18 DEF EndConnect, ConnectOk, ConnectFails, PostConnect, Disconnect
<1>19. CASE EndRedial
  BY <1>19 DEF EndRedial
<1>20. CASE GiveUp
  <2>1. HasNotice(queue')
    BY <1>20, <1>q, NoticePosted DEF GiveUp
  <2>2. QED
    BY <1>20, <2>1 DEF GiveUp
<1>21. CASE Notify
  <2>1. HasNotice(queue')
    BY <1>21, <1>q, NoticePosted DEF Notify
  <2>2. QED
    BY <1>21, <2>1 DEF Notify
<1>22. CASE HandleEvent
  <2>1. CASE Head(queue) = "disconnected"
    BY <1>22, <2>1 DEF HandleEvent, rdpVars
  <2>2. CASE Head(queue) # "disconnected"
    <3>1. HasNotice(queue) => HasNotice(queue')
      BY <1>22, <1>q, <2>2, NoticeNotHead DEF HandleEvent
    <3>2. QED
      BY <1>22, <2>2, <3>1 DEF HandleEvent, rdpVars
  <2>3. QED
    BY <2>1, <2>2
<1>23. ASSUME NEW c \in Channels, ChannelOpens(c)
       PROVE  NoticeInv'
  <2>1. subs \in Nat
    BY SessionAssumption DEF TypeOK, SessionAssumption
  <2>2. [i \in 1..subs |-> "dispInit"] \in Seq(Events)
    BY <2>1 DEF Events
  <2>3. HasNotice(queue) => HasNotice(queue')
    BY <1>23, <1>q, <2>2, NoticeKept DEF ChannelOpens
  <2>4. QED
    BY <1>23, <2>3 DEF ChannelOpens
<1>24. CASE UNCHANGED vars
  BY <1>24 DEF vars
<1>25. QED
  BY <1>1, <1>2, <1>3, <1>4, <1>5, <1>6, <1>7, <1>8, <1>9, <1>10,
     <1>11, <1>12, <1>13, <1>14, <1>15, <1>16, <1>17, <1>18, <1>19,
     <1>20, <1>21, <1>22, <1>23, <1>24 DEF Next, RdpStep, GuiStep

\* The strengthening is an invariant of the specification.
THEOREM Inductive == Spec => []IInv
<1>1. Init => IInv
  <2>1. Init => TypeOK
    BY SessionAssumption, FalseIsBoolean
       DEF SessionAssumption, Init, TypeOK, Places, Events
  <2>2. Init => LinkInv /\ PointerInv /\ DropInv /\ FreeInv /\ NoticeInv
    BY DEF Init, LinkInv, PointerInv, DropInv, FreeInv, NoticeInv, BeforeSession
  <2>3. QED
    BY <2>1, <2>2 DEF IInv
<1>2. IInv /\ [Next]_vars => IInv'
  BY TypeStep, PointerStep, NoticeStep DEF IInv
<1>3. QED
  BY <1>1, <1>2, PTL DEF Spec

\* A freed context the view still points to is always announced: no input
\* handler meets freed memory without the notice that removes the pointer
\* already in the main thread's queue, or the application being in stop().
THEOREM Announced == Spec => []FreedContextIsAnnounced
<1>1. IInv => FreedContextIsAnnounced
  BY DEF IInv, FreeInv, NoticeInv, FreedContextIsAnnounced
<1>2. QED
  BY <1>1, Inductive, PTL

\* rdp_loop_thread frees the context under a live transport only when the
\* window was closed during the first connect.
THEOREM DisconnectedFirst == Spec => []FreedAfterDisconnect
<1>1. IInv => FreedAfterDisconnect
  BY DEF IInv, FreeInv, FreedAfterDisconnect
<1>2. QED
  BY <1>1, Inductive, PTL

\* Reconnecting leaves no pointer to a channel of an earlier connection.
THEOREM Fresh == Spec => []PointersFresh
<1>1. IInv => PointersFresh
  BY DEF IInv, PointerInv, BeforeSession, PointersFresh
<1>2. QED
  BY <1>1, Inductive, PTL
-----------------------------------------------------------------------------
(* The refinement needs to know besides where the context exists, that a   *)
(* failed connect leaves the abort event set, where a notice can be        *)
(* queued, and that the view drops its client only when it quits.          *)

CtxInv ==
    rdp \in {"connecting", "dialing", "gate", "run", "reconnecting", "nulling",
            "redial", "redialing", "closing", "notify"} => ctx = "live"

StartInv == rdp \in {"idle", "alloc"} => ctx = "none" /\ attempt = 0

AbortInv ==
    /\ rdp = "connecting" => attempt = 0 \/ abort
    /\ rdp = "gate" /\ ~link => abort \/ stopped

QueueInv ==
    HasNotice(queue) => \/ rdp \in {"freeing", "done"} /\ ctx # "none"
                        \/ rdp = "gate" /\ ~link

ClientInv == gui = "running" => client

RInv == CtxInv /\ StartInv /\ AbortInv /\ QueueInv /\ ClientInv

\* Posting anything else, and delivering an event, brings no notice about.
LEMMA NoNoticePosted ==
    ASSUME NEW q \in Seq(Events), NEW r \in Seq(Events),
           HasNotice(q \o r), ~HasNotice(r)
    PROVE  HasNotice(q)
<1>1. PICK i \in 1..Len(q \o r) : (q \o r)[i] = "disconnected"
  BY DEF HasNotice
<1>2. CASE i <= Len(q)
  BY <1>1, <1>2 DEF HasNotice
<1>3. CASE i > Len(q)
  <2>1. i - Len(q) \in 1..Len(r) /\ r[i - Len(q)] = "disconnected"
    BY <1>1, <1>3
  <2>2. QED
    BY <2>1 DEF HasNotice
<1>4. QED
  BY <1>2, <1>3

LEMMA NoNoticeInTail ==
    ASSUME NEW q \in Seq(Events), q # <<>>, HasNotice(Tail(q))
    PROVE  HasNotice(q)
<1>1. PICK i \in 1..Len(Tail(q)) : Tail(q)[i] = "disconnected"
  BY DEF HasNotice
<1>2. i + 1 \in 1..Len(q) /\ q[i + 1] = "disconnected"
  BY <1>1
<1>3. QED
  BY <1>2 DEF HasNotice

\* One step of either thread keeps the extended strengthening.
LEMMA RStep == IInv /\ RInv /\ [Next]_vars => RInv'
<1> SUFFICES ASSUME IInv, RInv, [Next]_vars
             PROVE  RInv'
  OBVIOUS
<1>q. queue \in Seq(Events) /\ subs \in Nat
  BY SessionAssumption DEF IInv, TypeOK, SessionAssumption
<1>m. MaxAttempts # 0
  BY SessionAssumption DEF SessionAssumption
<1>p. /\ ~HasNotice(<<"frameResized", "windowResized">>)
      /\ <<"frameResized", "windowResized">> \in Seq(Events)
  BY DEF HasNotice, Events
<1> USE DEF RInv, CtxInv, StartInv, AbortInv, QueueInv, ClientInv, Goto, guiVars
<1>1. CASE Start
  BY <1>1 DEF Start
<1>2. CASE NewFails
  BY <1>2 DEF NewFails
<1>3. CASE ContextNewFails
  BY <1>3 DEF ContextNewFails
<1>4. CASE ContextNew
  BY <1>4 DEF ContextNew
<1>5. CASE BeginConnect
  BY <1>5 DEF BeginConnect, PreConnect
<1>6. CASE EndConnect
  <2>1. ~HasNotice(queue)
    BY <1>6 DEF EndConnect
  <2>2. ~HasNotice(queue \o <<"frameResized", "windowResized">>)
    BY <2>1, <1>p, <1>q, NoNoticePosted
  <2>3. ~HasNotice(queue')
    BY <1>6, <2>1, <2>2 DEF EndConnect, ConnectOk, ConnectFails, PostConnect
  <2>4. QED
    BY <1>6, <2>3 DEF EndConnect, ConnectOk, ConnectFails, Disconnect
<1>7. CASE GiveUp
  <2>1. ~link /\ (abort \/ stopped)
    BY <1>7, <1>m DEF GiveUp, IInv, LinkInv, LinkPlaces
  <2>2. QED
    BY <1>7, <2>1 DEF GiveUp
<1>8. CASE Gate
  BY <1>8 DEF Gate
<1>9. CASE ServerEnds
  BY <1>9 DEF ServerEnds
<1>10. CASE LinkLost
  BY <1>10 DEF LinkLost
<1>11. CASE BeginReconnect
  BY <1>11 DEF BeginReconnect, Disconnect
<1>12. CASE NullPointers
  BY <1>12 DEF NullPointers
<1>13. CASE Redial
  BY <1>13 DEF Redial, PreConnect
<1>14. CASE EndRedial
  <2>1. ~HasNotice(queue)
    BY <1>14 DEF EndRedial
  <2>2. ~HasNotice(queue \o <<"frameResized", "windowResized">>)
    BY <2>1, <1>p, <1>q, NoNoticePosted
  <2>3. ~HasNotice(queue')
    BY <1>14, <2>1, <2>2 DEF EndRedial, ConnectOk, ConnectFails, PostConnect
  <2>4. QED
    BY <1>14, <2>3 DEF EndRedial, ConnectOk, ConnectFails, Disconnect
<1>15. CASE LeaveLoop
  BY <1>15 DEF LeaveLoop
<1>16. CASE Close
  BY <1>16 DEF Close, Disconnect
<1>17. CASE Notify
  BY <1>17 DEF Notify
<1>18. CASE Free
  BY <1>18 DEF Free
<1>19. CASE HandleEvent
  <2>1. HasNotice(queue') => HasNotice(queue)
    BY <1>19, <1>q, NoNoticeInTail DEF HandleEvent
  <2>2. QED
    BY <1>19, <2>1 DEF HandleEvent, rdpVars
<1>20. CASE CloseWindow
  BY <1>20 DEF CloseWindow, rdpVars
<1>21. CASE Stop
  BY <1>21 DEF Stop, rdpVars
<1>22. CASE Join
  BY <1>22 DEF Join, rdpVars
<1>23. ASSUME NEW c \in Channels, ChannelOpens(c)
       PROVE  RInv'
  <2>1. ~HasNotice([i \in 1..subs |-> "dispInit"])
    BY <1>q DEF HasNotice
  <2>2. [i \in 1..subs |-> "dispInit"] \in Seq(Events)
    BY <1>q DEF Events
  <2>3. HasNotice(queue') => HasNotice(queue)
    BY <1>23, <1>q, <2>1, <2>2, NoNoticePosted DEF ChannelOpens
  <2>4. QED
    BY <1>23, <2>3 DEF ChannelOpens
<1>24. CASE UNCHANGED vars
  BY <1>24 DEF vars
<1>25. QED
  BY <1>1, <1>2, <1>3, <1>4, <1>5, <1>6, <1>7, <1>8, <1>9, <1>10,
     <1>11, <1>12, <1>13, <1>14, <1>15, <1>16, <1>17, <1>18, <1>19,
     <1>20, <1>21, <1>22, <1>23, <1>24 DEF Next, RdpStep, GuiStep

\* Every step of the two threads is, seen through Phase and Window, a step of
\* the promise or a stutter.
LEMMA PromiseStep ==
    IInv /\ RInv /\ RInv' /\ [Next]_vars => [Promise!Next]_(Promise!vars)
<1> SUFFICES ASSUME IInv, RInv, RInv', [Next]_vars
             PROVE  [Promise!Next]_(Promise!vars)
  OBVIOUS
<1> USE DEF Phase, Window, Goto, guiVars, Promise!vars
<1>1. CASE Start
  BY <1>1 DEF Start, IInv, LinkInv, LinkPlaces, FreeInv, RInv, CtxInv,
     StartInv, AbortInv, QueueInv, ClientInv
<1>2. CASE NewFails
  BY <1>2 DEF NewFails, IInv, LinkInv, LinkPlaces, FreeInv, RInv,
     CtxInv, StartInv, AbortInv, QueueInv, ClientInv
<1>3. CASE ContextNewFails
  BY <1>3 DEF ContextNewFails, IInv, LinkInv, LinkPlaces, FreeInv,
     RInv, CtxInv, StartInv, AbortInv, QueueInv, ClientInv
<1>4. CASE ContextNew
  BY <1>4 DEF ContextNew, IInv, LinkInv, LinkPlaces, FreeInv, RInv,
     CtxInv, StartInv, AbortInv, QueueInv, ClientInv
<1>5. CASE BeginConnect
  BY <1>5 DEF BeginConnect, PreConnect, IInv, LinkInv, LinkPlaces,
     FreeInv, RInv, CtxInv, StartInv, AbortInv, QueueInv, ClientInv
<1>6. CASE EndConnect
  BY <1>6 DEF EndConnect, ConnectOk, ConnectFails, PostConnect,
     Disconnect, Promise!Next, Promise!Connect, IInv, LinkInv,
     LinkPlaces, FreeInv, RInv, CtxInv, StartInv, AbortInv, QueueInv,
     ClientInv
<1>7. CASE GiveUp
  BY <1>7 DEF GiveUp, Promise!Next, Promise!End, IInv, LinkInv,
     LinkPlaces, FreeInv, RInv, CtxInv, StartInv, AbortInv, QueueInv,
     ClientInv
<1>8. CASE Gate
  BY <1>8 DEF Gate, Promise!Next, Promise!End, IInv, LinkInv,
     LinkPlaces, FreeInv, RInv, CtxInv, StartInv, AbortInv, QueueInv,
     ClientInv
<1>9. CASE ServerEnds
  BY <1>9 DEF ServerEnds, Promise!Next, Promise!End, IInv, LinkInv,
     LinkPlaces, FreeInv, RInv, CtxInv, StartInv, AbortInv, QueueInv,
     ClientInv
<1>10. CASE LinkLost
  BY <1>10 DEF LinkLost, Promise!Next, Promise!Lose, IInv, LinkInv,
     LinkPlaces, FreeInv, RInv, CtxInv, StartInv, AbortInv, QueueInv,
     ClientInv
<1>11. CASE BeginReconnect
  BY <1>11 DEF BeginReconnect, Disconnect, IInv, LinkInv, LinkPlaces,
     FreeInv, RInv, CtxInv, StartInv, AbortInv, QueueInv, ClientInv
<1>12. CASE NullPointers
  BY <1>12 DEF NullPointers, IInv, LinkInv, LinkPlaces, FreeInv, RInv,
     CtxInv, StartInv, AbortInv, QueueInv, ClientInv
<1>13. CASE Redial
  BY <1>13 DEF Redial, PreConnect, IInv, LinkInv, LinkPlaces, FreeInv,
     RInv, CtxInv, StartInv, AbortInv, QueueInv, ClientInv
<1>14. CASE EndRedial
  BY <1>14 DEF EndRedial, ConnectOk, ConnectFails, PostConnect,
     Disconnect, Promise!Next, Promise!Connect, IInv, LinkInv,
     LinkPlaces, FreeInv, RInv, CtxInv, StartInv, AbortInv, QueueInv,
     ClientInv
<1>15. CASE LeaveLoop
  BY <1>15 DEF LeaveLoop, Promise!Next, Promise!End, IInv, LinkInv,
     LinkPlaces, FreeInv, RInv, CtxInv, StartInv, AbortInv, QueueInv,
     ClientInv
<1>16. CASE Close
  BY <1>16 DEF Close, Disconnect, IInv, LinkInv, LinkPlaces, FreeInv,
     RInv, CtxInv, StartInv, AbortInv, QueueInv, ClientInv
<1>17. CASE Notify
  BY <1>17 DEF Notify, IInv, LinkInv, LinkPlaces, FreeInv, RInv,
     CtxInv, StartInv, AbortInv, QueueInv, ClientInv
<1>18. CASE Free
  BY <1>18 DEF Free, IInv, LinkInv, LinkPlaces, FreeInv, RInv, CtxInv,
     StartInv, AbortInv, QueueInv, ClientInv
<1>19. CASE HandleEvent
  <2>1. CASE Head(queue) = "disconnected"
    <3>1. HasNotice(queue)
      BY <1>19, <2>1 DEF HandleEvent, HasNotice, IInv, TypeOK
    <3>2. Phase = "ended" /\ Phase' = "ended"
      BY <1>19, <3>1 DEF HandleEvent, rdpVars, RInv, QueueInv
    <3>3. Window' = "closedOnLoss"
      BY <1>19, <2>1 DEF HandleEvent
    <3>4. QED
      BY <3>2, <3>3 DEF Promise!Next, Promise!CloseOnLoss
  <2>2. CASE Head(queue) # "disconnected"
    BY <1>19, <2>2 DEF HandleEvent, rdpVars
  <2>3. QED
    BY <2>1, <2>2
<1>20. CASE CloseWindow
  BY <1>20 DEF CloseWindow, rdpVars, Promise!Next,
     Promise!CloseByUser, IInv, LinkInv, LinkPlaces, FreeInv, RInv,
     CtxInv, StartInv, AbortInv, QueueInv, ClientInv
<1>21. CASE Stop
  BY <1>21 DEF Stop, rdpVars, IInv, LinkInv, LinkPlaces, FreeInv,
     RInv, CtxInv, StartInv, AbortInv, QueueInv, ClientInv
<1>22. CASE Join
  BY <1>22 DEF Join, rdpVars, IInv, LinkInv, LinkPlaces, FreeInv,
     RInv, CtxInv, StartInv, AbortInv, QueueInv, ClientInv
<1>23. ASSUME NEW c \in Channels, ChannelOpens(c)
       PROVE  UNCHANGED Promise!vars
  BY <1>23 DEF ChannelOpens
<1>24. CASE UNCHANGED vars
  BY <1>24 DEF vars
<1>25. QED
  BY <1>1, <1>2, <1>3, <1>4, <1>5, <1>6, <1>7, <1>8, <1>9, <1>10,
     <1>11, <1>12, <1>13, <1>14, <1>15, <1>16, <1>17, <1>18, <1>19,
     <1>20, <1>21, <1>22, <1>23, <1>24 DEF Next, RdpStep, GuiStep

\* The session implements the safety part of SessionPromise.
THEOREM Implements == Spec => Promise!Safety
<1>1. Init => Promise!Init
  BY DEF Init, Promise!Init, Phase, Window
<1>2. Init => RInv
  BY DEF Init, RInv, CtxInv, StartInv, AbortInv, QueueInv, ClientInv, HasNotice
<1>3. QED
  BY <1>1, <1>2, Inductive, RStep, PromiseStep, PTL DEF Spec, Promise!Safety
=============================================================================
