--------------------------- MODULE Desktop_proofs ---------------------------
(***************************************************************************)
(* Proofs about the two models of qf-client's desktop: Resize, how its     *)
(* size is asked for, and FramePipeline, how what is painted on it gets to *)
(* the screen.  For all sizes and all bounds: what the window was last     *)
(* asked for, or held back because it had been asked for, is the size the  *)
(* desktop ends in; no painted frame is forgotten.                         *)
(***************************************************************************)
EXTENDS Resize, FramePipeline, SequenceTheorems, TLAPS
-----------------------------------------------------------------------------
(* The size that is asked for.                                             *)

\* What is false is a truth value (said once, for Zenon to find).
LEMMA FalseIsBoolean == \A x : x = FALSE => x \in BOOLEAN
  BY Zenon

\* Every step keeps every variable's type.
LEMMA TypeStep == TypeOK /\ [Next]_vars => TypeOK'
<1> SUFFICES ASSUME TypeOK, [Next]_vars
             PROVE  TypeOK'
  OBVIOUS
<1> USE ResizeAssumption DEF ResizeAssumption, TypeOK
<1>1. ASSUME NEW s \in Sizes, WindowResized(s)
      PROVE  TypeOK'
  <2>1. timer' \in BOOLEAN
    BY <1>1 DEF WindowResized
  <2>2. UNCHANGED <<posted, seen, outcome, counterVars, rdpVars, wireVars>> /\ view' = s
    BY <1>1 DEF WindowResized
  <2>3. QED
    BY <2>1, <2>2 DEF counterVars, rdpVars, wireVars
<1>2. CASE ChannelOpened
  <2>1. posted' \in BOOLEAN
    BY <1>2, FalseIsBoolean DEF ChannelOpened
  <2>2. layouts' = layouts \/ layouts' = Append(layouts, view)
    BY <1>2 DEF ChannelOpened, SendMonitorLayout, wireVars
  <2>3. layouts' \in Seq(Sizes)
    BY <2>2
  <2>4. QED
    BY <1>2, <2>1, <2>3 DEF ChannelOpened, SendMonitorLayout, wireVars,
       counterVars, rdpVars
<1>3. CASE TimerFires
  BY <1>3 DEF TimerFires, counterVars, rdpVars, wireVars
<1>4. CASE TooSmall
  BY <1>4 DEF TooSmall, LookEnds, counterVars, rdpVars, wireVars
<1>5. CASE Same
  BY <1>5 DEF Same, LookEnds, counterVars, rdpVars, wireVars
<1>6. CASE HoldBack
  BY <1>6 DEF HoldBack, LookEnds, counterVars, rdpVars, wireVars
<1>7. CASE Ask
  BY <1>7 DEF Ask, LookEnds, SendMonitorLayout, rdpVars
<1>8. CASE ChannelConnected
  BY <1>8 DEF ChannelConnected, counterVars, wireVars
<1>9. CASE ResetGraphics
  BY <1>9 DEF ResetGraphics, guiVars, counterVars
<1>10. CASE DesktopResize
  <2>1. resizing' \in BOOLEAN
    BY <1>10, FalseIsBoolean DEF DesktopResize
  <2>2. pending' \in Nat
    BY <1>10 DEF DesktopResize
  <2>3. QED
    BY <1>10, <2>1, <2>2 DEF DesktopResize, guiVars, wireVars
<1>11. CASE Reconnect
  <2>1. disp' \in BOOLEAN
    BY <1>11, FalseIsBoolean DEF Reconnect
  <2>2. desktop' \in Sizes /\ server' \in Sizes
    BY <1>11 DEF Reconnect
  <2>3. layouts' \in Seq(Sizes) /\ resets' \in Seq(Sizes)
    BY <1>11 DEF Reconnect
  <2>4. QED
    BY <1>11, <2>1, <2>2, <2>3 DEF Reconnect, guiVars, counterVars
<1>12. ASSUME NEW n \in 1..Len(layouts),
              layouts' = SubSeq(layouts, n + 1, Len(layouts)),
              server' = layouts[n],
              resets' = IF layouts[n] = server THEN resets
                        ELSE Append(resets, layouts[n]),
              UNCHANGED <<guiVars, counterVars, rdpVars>>
       PROVE  TypeOK'
  <2>1. layouts[n] \in Sizes
    BY <1>12
  <2>2. layouts' \in Seq(Sizes)
    BY <1>12
  <2>3. QED
    BY <1>12, <2>1, <2>2 DEF guiVars, counterVars, rdpVars
<1>13. CASE UNCHANGED vars
  BY <1>13 DEF vars, guiVars, counterVars, rdpVars, wireVars
<1>14. QED
  BY <1>1, <1>2, <1>3, <1>4, <1>5, <1>6, <1>7, <1>8, <1>9, <1>10, <1>11,
     <1>12, <1>13 DEF Next, MainThread, RdpThread, Server

\* The variables have their types to begin with.
LEMMA InitType == Init => TypeOK
<1> SUFFICES ASSUME Init
             PROVE  TypeOK
  OBVIOUS
<1>1. timer \in BOOLEAN /\ posted \in BOOLEAN /\ disp \in BOOLEAN
      /\ resizing \in BOOLEAN
  BY DEF Init
<1>2. view \in Sizes /\ desktop \in Sizes /\ server \in Sizes
  BY ResizeAssumption DEF ResizeAssumption, Init
<1>3. layouts \in Seq(Sizes) /\ resets \in Seq(Sizes)
  BY DEF Init
<1>4. QED
  BY <1>1, <1>2, <1>3, ResizeAssumption DEF Init, TypeOK, ResizeAssumption

\* Every variable keeps its type: the counter of layouts under way, which is
\* raised on one thread and lowered on the other, is never negative.
THEOREM TypeCorrect == Spec => []TypeOK
<1>1. QED
  BY InitType, TypeStep, PTL DEF Spec
-----------------------------------------------------------------------------
(* Where the sizes under way lead to.                                      *)

\* The size at the end of a wire that holds q, whose far end has s.
Final(q, s) == IF q = <<>> THEN s ELSE q[Len(q)]

\* The size the server will show when it has read all it was sent.
Target == Final(layouts, server)

\* The answers under way lead to the server's size.
AnswerInv == Final(resets, desktop) = server

\* The main thread has nothing left to do about the window.
Looked == disp /\ ~posted /\ ~timer /\ seen = None

LookInv ==
    /\ Looked /\ outcome = "sent" => Target = view
    /\ Looked /\ outcome = "held" /\ drops = 0 => Target = view

\* Until a link is lost, the layout counted last is the one sent last: the
\* lambda of the opened channel, which counts nothing, comes first.
CountInv ==
    /\ pending > 0 => lastSent # None
    /\ drops = 0 /\ seen # None => disp /\ ~posted
    /\ drops = 0 /\ lastSent # None => disp /\ ~posted /\ Target = lastSent

IInv == TypeOK /\ AnswerInv /\ LookInv /\ CountInv

\* What is sent last is final.
LEMMA FinalSent ==
    ASSUME NEW S, NEW q \in Seq(S), NEW s, NEW t \in S
    PROVE  Final(Append(q, t), s) = t
  BY DEF Final

\* Reading some of the layouts at once does not change where they lead to.
LEMMA FinalRead ==
    ASSUME NEW S, NEW q \in Seq(S), NEW s, NEW n \in 1..Len(q)
    PROVE  Final(SubSeq(q, n + 1, Len(q)), q[n]) = Final(q, s)
<1>1. q # <<>>
  OBVIOUS
<1>2. CASE n = Len(q)
  <2>1. SubSeq(q, n + 1, Len(q)) = <<>>
    BY <1>2
  <2>2. QED
    BY <1>1, <1>2, <2>1 DEF Final
<1>3. CASE n < Len(q)
  <2> DEFINE r == SubSeq(q, n + 1, Len(q))
  <2>1. Len(r) = Len(q) - n /\ r # <<>>
    BY <1>3
  <2>2. \A i \in 1..(Len(q) - n) : r[i] = q[n + i]
    BY <1>3, <2>1
  <2>3. Len(q) - n \in 1..(Len(q) - n) /\ n + (Len(q) - n) = Len(q)
    BY <1>3
  <2>4. r[Len(r)] = q[Len(q)]
    BY <2>1, <2>2, <2>3
  <2> HIDE DEF r
  <2>5. QED
    BY <1>1, <2>1, <2>4 DEF Final, r
<1>4. QED
  BY <1>2, <1>3

\* A wire with something on it is not empty.
LEMMA LongerThanNone ==
    ASSUME NEW S, NEW q \in Seq(S), Len(q) > 0
    PROVE  q # <<>>
  OBVIOUS

\* Taking the first answer does not, either.
LEMMA FinalTaken ==
    ASSUME NEW S, NEW q \in Seq(S), NEW s, q # <<>>
    PROVE  Final(Tail(q), Head(q)) = Final(q, s)
<1>1. /\ Head(q) \in S /\ Tail(q) \in Seq(S)
      /\ Len(Tail(q)) = Len(q) - 1
      /\ \A i \in 1..Len(Tail(q)) : Tail(q)[i] = q[i + 1]
  BY HeadTailProperties
<1>2. CASE Len(q) = 1
  <2>1. Len(Tail(q)) = 0 /\ Tail(q) \in Seq(S)
    BY <1>1, <1>2
  <2>2. Tail(q) = <<>>
    BY <2>1, EmptySeq
  <2>3. Head(q) = q[Len(q)]
    BY <1>2
  <2>4. QED
    BY <2>2, <2>3 DEF Final
<1>3. CASE Len(q) > 1
  <2>1. Len(Tail(q)) > 0
    BY <1>1, <1>3
  <2>2. Tail(q) # <<>>
    BY <1>1, <2>1, LongerThanNone
  <2>3. Tail(q)[Len(Tail(q))] = q[Len(q)]
    BY <1>1, <1>3
  <2>4. QED
    BY <2>2, <2>3 DEF Final
<1>4. QED
  BY <1>2, <1>3
-----------------------------------------------------------------------------
(* The invariant, one step per action. Each says first what has become of  *)
(* Target and of the answers' end, and leaves the rest to the definitions. *)

\* All is empty to begin with, and nobody has looked.
LEMMA InitInv == Init => IInv
<1> SUFFICES ASSUME Init
             PROVE  IInv
  OBVIOUS
<1>1. AnswerInv
  BY DEF Init, AnswerInv, Final
<1>2. LookInv
  BY DEF Init, LookInv
<1>3. CountInv
  BY DEF Init, CountInv
<1>4. QED
  BY <1>1, <1>2, <1>3, InitType DEF IInv

\* A wire nobody touches leads where it led.
LEMMA WireStays ==
    ASSUME UNCHANGED wireVars
    PROVE  /\ Target' = Target
           /\ desktop' = desktop => (AnswerInv => AnswerInv')
  BY DEF wireVars, Target, AnswerInv, Final

\* What the main thread sends is where the layouts lead.
LEMMA SentIsTarget ==
    ASSUME TypeOK, SendMonitorLayout, view' = view, desktop' = desktop
    PROVE  Target' = view /\ (AnswerInv => AnswerInv')
<1>1. layouts \in Seq(Sizes) /\ view \in Sizes
  BY DEF TypeOK
<1>2. Target' = Final(Append(layouts, view), server)
  BY DEF SendMonitorLayout, Target, Final
<1>3. Target' = view
  BY <1>1, <1>2, FinalSent
<1>4. AnswerInv => AnswerInv'
  BY DEF SendMonitorLayout, AnswerInv, Final
<1>5. QED
  BY <1>3, <1>4

\* Every step keeps the invariant.
LEMMA StepInv == IInv /\ [Next]_vars => IInv'
<1> SUFFICES ASSUME IInv, [Next]_vars
             PROVE  AnswerInv' /\ LookInv' /\ CountInv'
  BY TypeStep DEF IInv
<1>0. TypeOK /\ AnswerInv /\ LookInv /\ CountInv
  BY DEF IInv
<1>1. ASSUME NEW s \in Sizes, WindowResized(s)
      PROVE  AnswerInv' /\ LookInv' /\ CountInv'
  <2>1. Target' = Target /\ AnswerInv'
    BY <1>0, <1>1, WireStays DEF WindowResized, rdpVars
  <2>2. LookInv'
    BY <1>0, <1>1, <2>1
       DEF WindowResized, LookInv, Looked, rdpVars, TypeOK
  <2>3. CountInv'
    BY <1>0, <1>1, <2>1 DEF WindowResized, CountInv, rdpVars, counterVars
  <2>4. QED
    BY <2>1, <2>2, <2>3
<1>2. CASE ChannelOpened
  <2>1. AnswerInv' /\ (Target' = Target \/ outcome' = "sent")
    BY <1>0, <1>2, WireStays, SentIsTarget DEF ChannelOpened, rdpVars
  <2>2. LookInv'
    BY <1>0, <1>2, SentIsTarget DEF ChannelOpened, LookInv, rdpVars
  <2>3. CountInv'
    BY <1>0, <1>2 DEF ChannelOpened, Idle, CountInv, counterVars, rdpVars
  <2>4. QED
    BY <2>1, <2>2, <2>3
<1>3. CASE TimerFires
  <2>1. Target' = Target /\ AnswerInv'
    BY <1>0, <1>3, WireStays DEF TimerFires, rdpVars
  <2>2. LookInv'
    BY <1>0, <1>3, ResizeAssumption
       DEF TimerFires, LookInv, Looked, rdpVars, TypeOK, ResizeAssumption
  <2>3. CountInv'
    BY <1>0, <1>3, <2>1 DEF TimerFires, CountInv, rdpVars, counterVars
  <2>4. QED
    BY <2>1, <2>2, <2>3
<1>4. ASSUME TooSmall \/ Same
      PROVE  AnswerInv' /\ LookInv' /\ CountInv'
  <2>1. Target' = Target /\ AnswerInv'
    BY <1>0, <1>4, WireStays DEF TooSmall, Same, LookEnds, rdpVars
  <2>2. LookInv'
    BY <1>4 DEF TooSmall, Same, LookEnds, LookInv
  <2>3. CountInv'
    BY <1>0, <1>4, <2>1
       DEF TooSmall, Same, LookEnds, CountInv, rdpVars, counterVars
  <2>4. QED
    BY <2>1, <2>2, <2>3
<1>5. CASE HoldBack
  <2>1. Target' = Target /\ AnswerInv'
    BY <1>0, <1>5, WireStays DEF HoldBack, LookEnds, rdpVars
  <2>2. drops = 0 => Target = view
    BY <1>0, <1>5 DEF HoldBack, Held, CountInv
  <2>3. LookInv'
    BY <1>5, <2>1, <2>2 DEF HoldBack, LookEnds, LookInv, rdpVars
  <2>4. CountInv'
    BY <1>0, <1>5, <2>1
       DEF HoldBack, LookEnds, CountInv, rdpVars, counterVars
  <2>5. QED
    BY <2>1, <2>3, <2>4
<1>6. CASE Ask
  <2>1. Target' = view /\ AnswerInv'
    BY <1>0, <1>6, SentIsTarget DEF Ask, LookEnds, rdpVars
  <2>2. LookInv'
    BY <1>6, <2>1 DEF Ask, LookEnds, LookInv
  <2>3. CountInv'
    BY <1>0, <1>6, <2>1, ResizeAssumption
       DEF Ask, LookEnds, CountInv, rdpVars, TypeOK, ResizeAssumption
  <2>4. QED
    BY <2>1, <2>2, <2>3
<1>7. CASE ChannelConnected
  <2>1. Target' = Target /\ AnswerInv'
    BY <1>0, <1>7, WireStays DEF ChannelConnected
  <2>2. LookInv'
    BY <1>7 DEF ChannelConnected, LookInv, Looked
  <2>3. CountInv'
    BY <1>0, <1>7 DEF ChannelConnected, CountInv, counterVars
  <2>4. QED
    BY <2>1, <2>2, <2>3
<1>8. CASE ResetGraphics
  <2>1. Target' = Target
    BY <1>8 DEF ResetGraphics, Target, Final
  <2>2. Final(resets', desktop') = Final(resets, desktop)
    BY <1>0, <1>8, FinalTaken DEF ResetGraphics, TypeOK
  <2>3. AnswerInv'
    BY <1>0, <1>8, <2>2 DEF ResetGraphics, AnswerInv, Final
  <2>4. LookInv'
    BY <1>0, <1>8, <2>1 DEF ResetGraphics, LookInv, Looked, guiVars
  <2>5. CountInv'
    BY <1>0, <1>8, <2>1 DEF ResetGraphics, CountInv, guiVars, counterVars
  <2>6. QED
    BY <2>3, <2>4, <2>5
<1>9. CASE DesktopResize
  <2>1. Target' = Target /\ AnswerInv'
    BY <1>0, <1>9, WireStays DEF DesktopResize
  <2>2. LookInv'
    BY <1>0, <1>9, <2>1 DEF DesktopResize, LookInv, Looked, guiVars
  <2>3. CountInv'
    BY <1>0, <1>9, <2>1 DEF DesktopResize, CountInv, guiVars, TypeOK
  <2>4. QED
    BY <2>1, <2>2, <2>3
<1>10. CASE Reconnect
  <2>1. AnswerInv'
    BY <1>10 DEF Reconnect, AnswerInv, Final
  <2>2. ~disp' /\ drops' # 0
    BY <1>0, <1>10 DEF Reconnect, TypeOK
  <2>3. LookInv'
    BY <2>2 DEF LookInv, Looked
  <2>4. CountInv'
    BY <1>0, <1>10, <2>2 DEF Reconnect, CountInv, counterVars
  <2>5. QED
    BY <2>1, <2>3, <2>4
<1>11. ASSUME NEW n \in 1..Len(layouts),
              layouts' = SubSeq(layouts, n + 1, Len(layouts)),
              server' = layouts[n],
              resets' = IF layouts[n] = server THEN resets
                        ELSE Append(resets, layouts[n]),
              UNCHANGED <<guiVars, counterVars, rdpVars>>
       PROVE  AnswerInv' /\ LookInv' /\ CountInv'
  <2>1. layouts[n] \in Sizes /\ layouts \in Seq(Sizes) /\ resets \in Seq(Sizes)
    BY <1>0, <1>11 DEF TypeOK
  <2>2. Target' = Target
    BY <1>11, <2>1, FinalRead DEF Target, Final
  <2>3. AnswerInv'
    <3>1. CASE layouts[n] = server
      BY <1>0, <1>11, <3>1 DEF AnswerInv, Final, rdpVars
    <3>2. CASE layouts[n] # server
      <4>1. Final(Append(resets, layouts[n]), desktop) = layouts[n]
        BY <2>1, FinalSent
      <4>2. resets' = Append(resets, layouts[n]) /\ desktop' = desktop
        BY <1>11, <3>2 DEF rdpVars
      <4>3. QED
        BY <1>11, <4>1, <4>2 DEF AnswerInv, Final
    <3>3. QED
      BY <3>1, <3>2
  <2>4. LookInv'
    BY <1>0, <1>11, <2>2 DEF LookInv, Looked, guiVars, rdpVars
  <2>5. CountInv'
    BY <1>0, <1>11, <2>2 DEF CountInv, guiVars, rdpVars, counterVars
  <2>6. QED
    BY <2>3, <2>4, <2>5
<1>12. CASE UNCHANGED vars
  <2>1. Target' = Target /\ AnswerInv'
    BY <1>0, <1>12, WireStays DEF vars, rdpVars
  <2>2. LookInv' /\ CountInv'
    BY <1>0, <1>12, <2>1
       DEF vars, guiVars, counterVars, rdpVars, LookInv, Looked, CountInv
  <2>3. QED
    BY <2>1, <2>2
<1>13. QED
  BY <1>1, <1>2, <1>3, <1>4, <1>5, <1>6, <1>7, <1>8, <1>9, <1>10, <1>11, <1>12
     DEF Next, MainThread, RdpThread, Server

\* At rest the wires are empty, and the ends they lead to are where they begin.
LEMMA InvHonours == IInv => LookIsHonoured
<1> SUFFICES ASSUME IInv, Rest, outcome = "sent" \/ (outcome = "held" /\ drops = 0)
             PROVE  desktop = view
  BY DEF LookIsHonoured
<1>1. Target = view
  BY DEF IInv, LookInv, Looked, Rest
<1>2. Target = server
  BY DEF Rest, Target, Final
<1>3. desktop = server
  BY DEF IInv, AnswerInv, Rest, Final
<1>4. QED
  BY <1>1, <1>2, <1>3

\* Once all is at rest, the desktop has the size the last look at the window
\* asked for, or held back because it had been asked for: for any number of
\* sizes and of layouts under way, taken one by one or several at once.
THEOREM Honoured == Spec => []LookIsHonoured
<1>1. QED
  BY InitInv, StepInv, InvHonours, PTL DEF Spec
-----------------------------------------------------------------------------
(* The frames that are painted.                                            *)

\* A half of a size is a number, and so are the halves of what a reader sees.
LEMMA SizeParts ==
    /\ \A s \in FrameSizes :
          /\ s = <<s[1], s[2]>>
          /\ s[1] \in Nat \ {0} /\ s[2] \in Nat \ {0}
          /\ s[1] \in Widths /\ s \in SeenSizes
    /\ \A s \in FrameSizes, t \in SeenSizes :
          /\ <<s[1], t[2]>> \in SeenSizes
          /\ <<t[1], s[2]>> \in SeenSizes
    /\ NoSize \in SeenSizes /\ NoSize \notin FrameSizes
    /\ 0 \in Widths
    /\ \A t \in SeenSizes : t[1] \in Widths /\ t = <<t[1], t[2]>>
  BY FrameAssumption DEF FrameAssumption, SeenSizes, Widths, NoSize

\* A frame of the buffer may be in the texture, and one of the texture on the
\* screen.
LEMMA FrameNumbers ==
    /\ Undefined \in Undefined..MaxFrames
    /\ Blank \in Blank..MaxFrames
    /\ Black \in 0..MaxFrames
    /\ \A f \in 0..MaxFrames : f \in Undefined..MaxFrames
    /\ \A f \in Undefined..MaxFrames : f \in Blank..MaxFrames
  BY FrameAssumption DEF FrameAssumption, Undefined, Blank, Black

\* The initial state is of its type.
LEMMA FrameInitType ==
    FrameInit => FrameTypeOK
<1> SUFFICES ASSUME FrameInit
             PROVE  FrameTypeOK
  OBVIOUS
<1>1. /\ frameSize \in SeenSizes /\ texSize \in SeenSizes
      /\ pix \in SeenSizes
      /\ bufSize \in FrameSizes \cup {NoSize}
      /\ texOf \in FrameSizes \cup {NoSize}
      /\ seenWidth \in Widths
  BY SizeParts DEF FrameInit
<1>2. /\ bufFrame \in 0..MaxFrames /\ texFrame \in Undefined..MaxFrames
      /\ screen \in Blank..MaxFrames
  BY FrameNumbers DEF FrameInit
<1>3. painted \in 0..MaxFrames /\ resizes \in 0..MaxResizes /\ fails \in 0..MaxFails
  BY FrameAssumption DEF FrameInit, FrameAssumption
<1>4. dirty \in BOOLEAN /\ upd \in BOOLEAN /\ node \in BOOLEAN
  BY DEF FrameInit
<1>5. QED
  BY <1>1, <1>2, <1>3, <1>4 DEF FrameInit, FrameTypeOK

\* One step keeps every variable's type.
LEMMA FrameTypeStep ==
    FrameTypeOK /\ [FrameNext]_frameVars => FrameTypeOK'
<1> SUFFICES ASSUME FrameTypeOK, [FrameNext]_frameVars
             PROVE  FrameTypeOK'
  OBVIOUS
<1> USE FrameAssumption, FrameNumbers DEF FrameAssumption, FrameTypeOK
<1>1. ASSUME NEW s \in FrameSizes, Resize(s)
      PROVE  FrameTypeOK'
  <2>1. frameSize' = frameSize \/ frameSize' = <<s[1], frameSize[2]>>
    BY <1>1 DEF Resize
  <2>2. frameSize' \in SeenSizes
    <3>1. <<s[1], frameSize[2]>> \in SeenSizes
      BY SizeParts, Zenon
    <3>2. QED
      BY <2>1, <3>1
  <2>3. resizes' \in 0..MaxResizes /\ rdp' \in {"resizing", "post"}
    BY <1>1 DEF Resize
  <2>4. UNCHANGED <<bufSize, bufFrame, dirty, upd, painted, renderVars>>
    BY <1>1 DEF Resize
  <2>5. QED
    BY <2>2, <2>3, <2>4 DEF renderVars, texVars
<1>2. ASSUME NEW s \in FrameSizes, ResizeDone(s)
      PROVE  FrameTypeOK'
  BY <1>2, SizeParts DEF ResizeDone, renderVars, texVars
<1>3. CASE Paint
  BY <1>3 DEF Paint, renderVars, texVars
<1>4. CASE Post
  BY <1>4 DEF Post, renderVars, texVars
<1>5. CASE Sync
  BY <1>5, SizeParts DEF Sync, paintVars, texVars
<1>6. CASE UpdatePaintNode
  <2>1. SeenSize \in SeenSizes
    BY SizeParts DEF SeenSize, SeenSizes
  <2>2. CASE DropNode
    BY <1>6, <2>2, SizeParts
       DEF UpdatePaintNode, DropNode, paintVars
  <2>3. CASE SwitchWithFrame
    BY <1>6, <2>1, <2>3
       DEF UpdatePaintNode, SwitchWithFrame, paintVars
  <2>4. QED
    BY <1>6, <2>2, <2>3 DEF UpdatePaintNode
<1>7. CASE Redraw
  BY <1>7 DEF Redraw, paintVars, texVars
<1>8. CASE EnsureTexture
  BY <1>8 DEF EnsureTexture, paintVars
<1>9. CASE EnsureFails
  BY <1>9 DEF EnsureFails, paintVars, texVars
<1>10. CASE Commit
  BY <1>10 DEF Commit, paintVars
<1>11. CASE UNCHANGED frameVars
  BY <1>11 DEF frameVars
<1>12. QED
  BY <1>1, <1>2, <1>3, <1>4, <1>5, <1>6, <1>7, <1>8, <1>9, <1>10, <1>11
     DEF FrameNext

\* Every variable keeps its type: the sizes a reader outside the mutex puts
\* together are made of halves of sizes that were set.
THEOREM FrameTypeCorrect ==
    FrameSpec => []FrameTypeOK
<1>1. FrameInit => FrameTypeOK
  BY FrameInitType
<1>2. FrameTypeOK /\ [FrameNext]_frameVars => FrameTypeOK'
  BY FrameTypeStep
<1>3. QED
  BY <1>1, <1>2, PTL DEF FrameSpec
-----------------------------------------------------------------------------
(* No frame is forgotten. The one way to lose what the texture holds is to *)
(* drop the node, for a size seen as empty: nothing was painted by then    *)
(* that is not marked dirty.                                               *)

NothingYet == bufFrame = Black

EmptyInv ==
    /\ 0 \in {frameSize[1], frameSize[2]} => bufSize = NoSize
    /\ bufSize = NoSize => NothingYet
    /\ render = "sync" /\ seenWidth = 0 => NothingYet \/ dirty

FrameInv == FrameTypeOK /\ EmptyInv /\ NoFrameForgotten

LEMMA ForgetStep ==
    FrameInv /\ [FrameNext]_frameVars =>
        EmptyInv' /\ NoFrameForgotten'
<1> SUFFICES ASSUME FrameInv, [FrameNext]_frameVars
             PROVE  EmptyInv' /\ NoFrameForgotten'
  OBVIOUS
<1> USE FrameAssumption, SizeParts
    DEF FrameAssumption, FrameInv, FrameTypeOK, EmptyInv, NothingYet,
        NoFrameForgotten,
        Black
<1>1. ASSUME NEW s \in FrameSizes, Resize(s)
      PROVE  EmptyInv' /\ NoFrameForgotten'
  BY <1>1 DEF Resize, renderVars, texVars
<1>2. ASSUME NEW s \in FrameSizes, ResizeDone(s)
      PROVE  EmptyInv' /\ NoFrameForgotten'
  BY <1>2 DEF ResizeDone, renderVars, texVars
<1>3. CASE Paint
  BY <1>3 DEF Paint, renderVars, texVars
<1>4. CASE Post
  BY <1>4 DEF Post, renderVars, texVars
<1>5. CASE Sync
  BY <1>5 DEF Sync, paintVars, texVars
<1>6. CASE UpdatePaintNode
  <2>1. CASE DropNode
    BY <1>6, <2>1
       DEF UpdatePaintNode, DropNode, SeenSize, paintVars
  <2>2. CASE SwitchWithFrame
    BY <1>6, <2>2 DEF UpdatePaintNode, SwitchWithFrame, paintVars
  <2>3. QED
    BY <1>6, <2>1, <2>2 DEF UpdatePaintNode
<1>7. CASE Redraw
  BY <1>7 DEF Redraw, paintVars, texVars
<1>8. CASE EnsureTexture
  BY <1>8 DEF EnsureTexture, paintVars
<1>9. CASE EnsureFails
  BY <1>9 DEF EnsureFails, paintVars, texVars
<1>10. CASE Commit
  BY <1>10 DEF Commit, paintVars
<1>11. CASE UNCHANGED frameVars
  BY <1>11 DEF frameVars
<1>12. QED
  BY <1>1, <1>2, <1>3, <1>4, <1>5, <1>6, <1>7, <1>8, <1>9, <1>10, <1>11
     DEF FrameNext

\* A painted frame that the texture does not hold is still marked dirty,
\* whatever sizes the server sets and however the two threads interleave.
THEOREM NeverForgotten ==
    FrameSpec => []NoFrameForgotten
<1>1. FrameInit => FrameInv
  <2>1. FrameInit => FrameTypeOK
    BY FrameInitType
  <2>2. FrameInit => EmptyInv /\ NoFrameForgotten
    BY DEF FrameInit, EmptyInv, NothingYet, NoFrameForgotten
  <2>3. QED
    BY <2>1, <2>2 DEF FrameInv
<1>2. FrameInv /\ [FrameNext]_frameVars => FrameInv'
  BY FrameTypeStep, ForgetStep DEF FrameInv
<1>3. FrameInv => NoFrameForgotten
  BY DEF FrameInv
<1>4. QED
  BY <1>1, <1>2, <1>3, PTL DEF FrameSpec
=============================================================================
