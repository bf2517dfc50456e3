---------------------------- MODULE Cursor_proofs ----------------------------
(***************************************************************************)
(* Proofs about Cursor, for any pointers, images, places of the mouse and  *)
(* any number of calls: the flag that two threads write never outlives the *)
(* blank cursor, and the last call the server made is the one shown.       *)
(***************************************************************************)
EXTENDS Cursor, SequenceTheorems, TLAPS

\* What is false is a truth value (said once, for Zenon to find).
LEMMA FalseIsBoolean == \A x : x = FALSE => x \in BOOLEAN
  BY Zenon

\* What is true is one, too.
LEMMA TrueIsBoolean == \A x : x = TRUE => x \in BOOLEAN
  BY Zenon

(* Queues.                                                                 *)

\* A queue without its head: the rest moves up.
LEMMA Drained ==
    ASSUME NEW S, NEW q \in Seq(S), q # <<>>
    PROVE  /\ q[1] \in S /\ Head(q) = q[1]
           /\ Len(q) \in Nat /\ Len(q) >= 1
           /\ Tail(q) \in Seq(S) /\ Len(Tail(q)) = Len(q) - 1
           /\ \A i \in 1..(Len(q) - 1) : Tail(q)[i] = q[i + 1]
<1>1. /\ Tail(q) \in Seq(S) /\ Len(Tail(q)) = Len(q) - 1
      /\ \A i \in 1..Len(Tail(q)) : Tail(q)[i] = q[i + 1]
  BY HeadTailProperties
<1>2. Len(q) \in Nat /\ Len(q) >= 1
  OBVIOUS
<1>3. q[1] \in S /\ Head(q) = q[1]
  BY <1>2
<1>4. QED
  BY <1>1, <1>2, <1>3

\* A queue with one more at its end.
LEMMA Posted ==
    ASSUME NEW S, NEW q \in Seq(S), NEW l \in S
    PROVE  /\ Append(q, l) \in Seq(S) /\ Append(q, l) # <<>>
           /\ Len(q) \in Nat /\ Len(Append(q, l)) = Len(q) + 1
           /\ Append(q, l)[Len(q) + 1] = l
           /\ \A i \in 1..Len(q) : Append(q, l)[i] = q[i]
  OBVIOUS

\* An empty queue has no length, and only an empty one.
LEMMA EmptyIsShort ==
    ASSUME NEW S, NEW q \in Seq(S)
    PROVE  q = <<>> <=> Len(q) = 0
  OBVIOUS
-----------------------------------------------------------------------------
(* Types.                                                                  *)

\* Inside a Set or a New, the thread knows the pointer it is about.
Typed ==
    /\ TypeOK
    /\ rdp \in {"put", "set"} => cur \in Slots \X Pointers

\* What the FreeRDP thread posts is a lambda.
LEMMA LambdaTypes ==
    /\ \A p \in Pointers : Lambda("set", p) \in Lambdas
    /\ Lambda("null", None) \in Lambdas
    /\ Lambda("default", None) \in Lambdas
  BY DEF Lambda, Lambdas

\* Posting keeps the types.
LEMMA PostTypes ==
    ASSUME TypeOK, NEW l \in Lambdas, Post(l),
           UNCHANGED <<cur, cacheVars, hidden, recent, calls, guiVars>>
    PROVE  Typed'
<1>1. queue' \in Seq(Lambdas)
  BY Posted DEF TypeOK, Post
<1>2. QED
  BY <1>1 DEF TypeOK, Typed, Post, cacheVars, guiVars

\* What is drained is a lambda, and the rest are lambdas.
LEMMA DrainTypes ==
    ASSUME TypeOK, NEW k, Drain(k)
    PROVE  /\ queue' \in Seq(Lambdas)
           /\ Head(queue) \in Lambdas /\ Head(queue).kind = k
           /\ k = "set" => Head(queue).ptr \in Pointers
  BY Drained DEF TypeOK, Drain, Lambdas

\* Every step keeps every variable's type.
LEMMA TypedStep == Typed /\ [Next]_vars => Typed'
<1> SUFFICES ASSUME Typed, [Next]_vars
             PROVE  Typed'
  OBVIOUS
<1>0. TypeOK
  BY DEF Typed
<1>a. \A c : calls < MaxCalls /\ c = calls + 1 => c \in 0..MaxCalls
  BY <1>0, CursorAssumption DEF TypeOK, CursorAssumption
<1>1. ASSUME NEW i \in Slots, PointerCached(i)
      PROVE  Typed'
  <2>1. cur' \in Slots \X Pointers
    BY <1>0, <1>1 DEF PointerCached, TypeOK
  <2>2. QED
    BY <1>0, <1>1, <1>a, <2>1
       DEF Typed, TypeOK, PointerCached, Begin, cacheVars, guiVars
<1>2. ASSUME NEW i \in Slots, NEW p \in Pointers, NEW s \in Shapes \cup {None},
             PointerNew(i, p, s)
      PROVE  Typed'
  <2>1. cur' \in Slots \X Pointers
    BY <1>2 DEF PointerNew
  <2>2. cache' \in [Pointers -> Shapes \cup {None}]
    BY <1>0, <1>2 DEF PointerNew, TypeOK
  <2>3. QED
    BY <1>0, <1>2, <1>a, <2>1, <2>2
       DEF Typed, TypeOK, PointerNew, Begin, guiVars
<1>3. CASE PointerPut
  <2>1. cur \in Slots \X Pointers
    BY <1>3 DEF PointerPut, Typed
  <2>2. /\ cache' \in [Pointers -> Shapes \cup {None}]
        /\ entries' \in [Slots -> Pointers \cup {None}]
    BY <1>0, <1>3, <2>1 DEF PointerPut, TypeOK
  <2>3. QED
    BY <1>0, <1>3, <2>1, <2>2 DEF Typed, TypeOK, PointerPut, guiVars
<1>4. CASE PointerSet
  <2>1. Lambda("set", cur[2]) \in Lambdas
    BY <1>4, LambdaTypes DEF PointerSet, Typed
  <2>2. QED
    BY <1>0, <1>4, <2>1, PostTypes DEF PointerSet
<1>5. ASSUME SetNull \/ SetDefault
      PROVE  Typed'
  <2>1. hidden' \in BOOLEAN
    BY <1>0, <1>5, FalseIsBoolean DEF SetNull, SetDefault, TypeOK
  <2>2. QED
    BY <1>0, <1>5, <1>a, <2>1
       DEF Typed, TypeOK, SetNull, SetDefault, Begin, cacheVars, guiVars
<1>6. CASE Hide
  <2>1. hidden' \in BOOLEAN
    BY <1>6, TrueIsBoolean DEF Hide
  <2>2. QED
    BY <1>0, <1>6, <2>1 DEF Typed, TypeOK, Hide, cacheVars, guiVars
<1>7. CASE PostNull \/ PostDefault
  BY <1>0, <1>7, LambdaTypes, PostTypes DEF PostNull, PostDefault
<1>8. CASE ShowPointer
  <2>1. /\ queue' \in Seq(Lambdas)
        /\ Head(queue).ptr \in Pointers
    BY <1>0, <1>8, DrainTypes DEF ShowPointer
  <2>2. cache[Head(queue).ptr] \in Shapes \cup {None}
    BY <1>0, <2>1 DEF TypeOK
  <2>3. cursor' \in Shapes \cup {Blank, Arrow} /\ last' \in Shapes \cup {Arrow}
    BY <1>0, <1>8, <2>2 DEF ShowPointer, TypeOK
  <2>4. hidden' \in BOOLEAN
    BY <1>0, <1>8, FalseIsBoolean DEF ShowPointer, TypeOK
  <2>5. QED
    BY <1>0, <1>8, <2>1, <2>3, <2>4 DEF Typed, TypeOK, ShowPointer, cacheVars
<1>9. ASSUME BlankPointer \/ UnsetPointer
      PROVE  Typed'
  <2>1. queue' \in Seq(Lambdas)
    BY <1>0, <1>9, DrainTypes DEF BlankPointer, UnsetPointer
  <2>2. QED
    BY <1>0, <1>9, <2>1
       DEF Typed, TypeOK, BlankPointer, UnsetPointer, cacheVars
<1>10. ASSUME NEW m \in Positions, MouseMove(m)
       PROVE  Typed'
  <2>1. hidden' \in BOOLEAN /\ recent' \in BOOLEAN
    BY <1>0, <1>10, FalseIsBoolean, TrueIsBoolean DEF MouseMove, TypeOK
  <2>2. cursor' \in Shapes \cup {Blank, Arrow}
    BY <1>0, <1>10 DEF MouseMove, TypeOK
  <2>3. QED
    BY <1>0, <1>10, <2>1, <2>2 DEF Typed, TypeOK, MouseMove, cacheVars
<1>11. CASE TwoSecondsPass
  <2>1. recent' \in BOOLEAN
    BY <1>11, FalseIsBoolean DEF TwoSecondsPass
  <2>2. QED
    BY <1>0, <1>11, <2>1 DEF Typed, TypeOK, TwoSecondsPass, cacheVars, guiVars
<1>12. CASE UNCHANGED vars
  BY <1>0, <1>12 DEF Typed, TypeOK, vars
<1>13. QED
  BY <1>1, <1>2, <1>3, <1>4, <1>5, <1>6, <1>7, <1>8, <1>9, <1>10, <1>11, <1>12
     DEF Next

\* The variables have their types to begin with.
LEMMA TypedInit == Init => Typed
<1> SUFFICES ASSUME Init
             PROVE  Typed
  OBVIOUS
<1>1. hidden \in BOOLEAN /\ recent \in BOOLEAN
  BY DEF Init
<1>2. queue \in Seq(Lambdas) /\ asked \in Lambdas
  BY LambdaTypes DEF Init
<1>3. calls \in 0..MaxCalls
  BY CursorAssumption DEF CursorAssumption, Init
<1>4. QED
  BY <1>1, <1>2, <1>3 DEF Init, Typed, TypeOK

\* Every variable keeps its type: the cursor is always an image there is, though
\* a lambda carries an address that may have been freed since.
THEOREM TypeCorrect == Spec => []TypeOK
<1>1. Typed => TypeOK
  BY DEF Typed
<1>2. QED
  BY TypedInit, TypedStep, <1>1, PTL DEF Spec
-----------------------------------------------------------------------------
(* The flag.                                                               *)

\* From its i-th lambda on, the queue q unsets no cursor.
NoDefaultFrom(q, i) == \A j \in 1..Len(q) : j >= i => q[j].kind # "default"

\* The cursor is blank and stays so, or is going to be blank and to stay so.
BlankComes ==
    \/ cursor = Blank /\ NoDefaultFrom(queue, 1)
    \/ \E i \in 1..Len(queue) : queue[i].kind = "null" /\ NoDefaultFrom(queue, i)

\* A raised flag has its lambda about to be posted, under way or shown; the flag
\* comes down before the lambda that unsets the cursor is posted.
FlagInv ==
    /\ rdp = "postDefault" => ~hidden
    /\ hidden /\ rdp # "postNull" => BlankComes

\* Posting anything but an unset leaves what comes.
LEMMA PostedKeeps ==
    ASSUME TypeOK, NEW l \in Lambdas, Post(l), cursor' = cursor,
           l.kind # "default", BlankComes
    PROVE  BlankComes'
<1>1. /\ queue' = Append(queue, l) /\ Len(queue) \in Nat
      /\ Len(queue') = Len(queue) + 1 /\ queue'[Len(queue) + 1] = l
      /\ \A j \in 1..Len(queue) : queue'[j] = queue[j]
  BY Posted DEF TypeOK, Post
<1>2. ASSUME NEW i \in Nat, NoDefaultFrom(queue, i)
      PROVE  NoDefaultFrom(queue', i)
  BY <1>1, <1>2 DEF NoDefaultFrom
<1>3. CASE cursor = Blank /\ NoDefaultFrom(queue, 1)
  BY <1>2, <1>3 DEF BlankComes
<1>4. CASE \E i \in 1..Len(queue) :
              queue[i].kind = "null" /\ NoDefaultFrom(queue, i)
  <2>1. PICK i \in 1..Len(queue) :
           queue[i].kind = "null" /\ NoDefaultFrom(queue, i)
    BY <1>4
  <2>2. i \in 1..Len(queue') /\ queue'[i].kind = "null"
    BY <1>1, <2>1
  <2>3. NoDefaultFrom(queue', i)
    BY <1>1, <1>2, <2>1
  <2>4. QED
    BY <2>2, <2>3 DEF BlankComes
<1>5. QED
  BY <1>3, <1>4 DEF BlankComes

\* Posting the blank makes it come.
LEMMA PostedBlank ==
    ASSUME TypeOK, PostNull
    PROVE  BlankComes'
<1> DEFINE l == Lambda("null", None)
<1>1. /\ queue' = Append(queue, l) /\ Len(queue) \in Nat
      /\ Len(queue') = Len(queue) + 1 /\ queue'[Len(queue) + 1] = l
  BY Posted, LambdaTypes DEF TypeOK, Post, PostNull
<1>2. l.kind = "null"
  BY DEF Lambda
<1>3. NoDefaultFrom(queue', Len(queue) + 1)
  BY <1>1, <1>2 DEF NoDefaultFrom
<1>4. QED
  BY <1>1, <1>2, <1>3 DEF BlankComes

\* Draining a lambda leaves what comes, if a blank one blanks the cursor and the
\* others leave it alone or unset it.
LEMMA DrainedKeeps ==
    ASSUME TypeOK, BlankComes, NEW k, Drain(k),
           k = "null" => cursor' = Blank,
           k = "set" => cursor' = cursor,
           k \in {"null", "set", "default"}
    PROVE  BlankComes'
<1>1. /\ queue' = Tail(queue) /\ Len(queue) \in Nat /\ Len(queue) >= 1
      /\ queue[1].kind = k /\ Len(queue') = Len(queue) - 1
      /\ \A j \in 1..(Len(queue) - 1) : queue'[j] = queue[j + 1]
  BY Drained DEF TypeOK, Drain
<1>2. ASSUME NEW i \in Nat, NoDefaultFrom(queue, i + 1)
      PROVE  NoDefaultFrom(queue', i)
  BY <1>1, <1>2 DEF NoDefaultFrom
<1>3. ASSUME NoDefaultFrom(queue, 1), cursor' = Blank
      PROVE  BlankComes'
  <2>1. NoDefaultFrom(queue, 2)
    BY <1>1, <1>3 DEF NoDefaultFrom
  <2>2. NoDefaultFrom(queue', 1)
    BY <1>2, <2>1
  <2>3. QED
    BY <1>3, <2>2 DEF BlankComes
<1>4. CASE cursor = Blank /\ NoDefaultFrom(queue, 1)
  <2>1. k # "default"
    BY <1>1, <1>4 DEF NoDefaultFrom
  <2>2. QED
    BY <1>3, <1>4, <2>1
<1>5. CASE \E i \in 1..Len(queue) :
              queue[i].kind = "null" /\ NoDefaultFrom(queue, i)
  <2>1. PICK i \in 1..Len(queue) :
           queue[i].kind = "null" /\ NoDefaultFrom(queue, i)
    BY <1>5
  <2>2. CASE i = 1
    BY <1>1, <1>3, <2>1, <2>2
  <2>3. CASE i > 1
    <3>1. i - 1 \in 1..Len(queue') /\ queue'[i - 1].kind = "null"
      BY <1>1, <2>1, <2>3
    <3>2. NoDefaultFrom(queue', i - 1)
      BY <1>1, <1>2, <2>1, <2>3
    <3>3. QED
      BY <3>1, <3>2 DEF BlankComes
  <2>4. QED
    BY <1>1, <2>2, <2>3
<1>6. QED
  BY <1>4, <1>5 DEF BlankComes

\* Every step keeps what is said of the flag.
LEMMA FlagStep == TypeOK /\ Typed /\ FlagInv /\ [Next]_vars => FlagInv'
<1> SUFFICES ASSUME TypeOK, Typed, FlagInv, [Next]_vars
             PROVE  FlagInv'
  OBVIOUS
<1>a. ASSUME UNCHANGED <<cursor, queue>>
      PROVE  BlankComes' <=> BlankComes
  BY <1>a DEF BlankComes, NoDefaultFrom
<1>1. ASSUME NEW i \in Slots, PointerCached(i)
      PROVE  FlagInv'
  BY <1>1, <1>a DEF PointerCached, Begin, guiVars, FlagInv
<1>2. ASSUME NEW i \in Slots, NEW p \in Pointers, NEW s \in Shapes \cup {None},
             PointerNew(i, p, s)
      PROVE  FlagInv'
  BY <1>2, <1>a DEF PointerNew, Begin, guiVars, FlagInv
<1>3. CASE PointerPut
  BY <1>3, <1>a DEF PointerPut, guiVars, FlagInv
<1>4. CASE PointerSet
  <2> DEFINE l == Lambda("set", cur[2])
  <2>1. l \in Lambdas /\ l.kind = "set"
    BY <1>4, LambdaTypes DEF PointerSet, Typed, Lambda
  <2>2. Post(l) /\ cursor' = cursor /\ hidden' = hidden /\ rdp = "set"
    BY <1>4 DEF PointerSet, guiVars
  <2>3. BlankComes => BlankComes'
    BY <2>1, <2>2, PostedKeeps
  <2>4. QED
    BY <2>2, <2>3 DEF Post, FlagInv
<1>5. CASE SetNull
  BY <1>5, <1>a DEF SetNull, Begin, guiVars, FlagInv
<1>6. CASE SetDefault
  BY <1>6 DEF SetDefault, FlagInv
<1>7. CASE Hide
  BY <1>7 DEF Hide, FlagInv
<1>8. CASE PostNull
  BY <1>8, PostedBlank DEF PostNull, Post, FlagInv
<1>9. CASE PostDefault
  BY <1>9 DEF PostDefault, Post, FlagInv
<1>10. CASE ShowPointer
  <2>1. CASE cache[Head(queue).ptr] = None
    <3>1. Drain("set") /\ UNCHANGED <<rdp, cursor, hidden>>
      BY <1>10, <2>1 DEF ShowPointer
    <3>2. BlankComes => BlankComes'
      BY <3>1, DrainedKeeps
    <3>3. QED
      BY <3>1, <3>2 DEF FlagInv
  <2>2. CASE cache[Head(queue).ptr] # None
    BY <1>10, <2>2 DEF ShowPointer, FlagInv
  <2>3. QED
    BY <2>1, <2>2
<1>11. CASE BlankPointer
  <2>1. Drain("null") /\ cursor' = Blank /\ UNCHANGED <<rdp, hidden>>
    BY <1>11 DEF BlankPointer
  <2>2. BlankComes => BlankComes'
    BY <2>1, DrainedKeeps
  <2>3. QED
    BY <2>1, <2>2 DEF FlagInv
<1>12. CASE UnsetPointer
  <2>1. Drain("default") /\ UNCHANGED <<rdp, hidden>>
    BY <1>12 DEF UnsetPointer
  <2>2. BlankComes => BlankComes'
    BY <2>1, DrainedKeeps
  <2>3. QED
    BY <2>1, <2>2 DEF FlagInv
<1>13. ASSUME NEW m \in Positions, MouseMove(m)
       PROVE  FlagInv'
  BY <1>13, <1>a DEF MouseMove, FlagInv
<1>14. CASE TwoSecondsPass
  BY <1>14, <1>a DEF TwoSecondsPass, guiVars, FlagInv
<1>15. CASE UNCHANGED vars
  BY <1>15, <1>a DEF vars, FlagInv
<1>16. QED
  BY <1>1, <1>2, <1>3, <1>4, <1>5, <1>6, <1>7, <1>8, <1>9, <1>10, <1>11, <1>12,
     <1>13, <1>14, <1>15 DEF Next

\* When nothing is under way, the flag is raised over a blank cursor only: though
\* the FreeRDP thread raises and lowers it at once and the cursor follows later,
\* and the main thread lowers it in between.
THEOREM FlagIsBlank == Spec => []FlagMeansBlank
<1>1. Init => FlagInv
  BY DEF Init, FlagInv
<1>2. TypeOK /\ Typed /\ FlagInv => FlagMeansBlank
  <2> SUFFICES ASSUME TypeOK, FlagInv, Settled, hidden
               PROVE  cursor = Blank
    BY DEF FlagMeansBlank
  <2>1. BlankComes /\ Len(queue) = 0
    BY EmptyIsShort DEF FlagInv, Settled, TypeOK
  <2>2. QED
    BY <2>1 DEF BlankComes
<1>3. Typed => TypeOK
  BY DEF Typed
<1>4. QED
  BY TypedInit, TypedStep, FlagStep, <1>1, <1>2, <1>3, PTL DEF Spec
-----------------------------------------------------------------------------
(* The last call.                                                          *)

\* The cursor is what the call l asks for.
Shows(l) ==
    /\ l.kind = "default" => cursor = Arrow
    /\ l.kind = "null" => cursor \in {Blank, last}
    /\ l.kind = "set" => (cache[l.ptr] # None => cursor = cache[l.ptr])

\* The last call is the last in the queue, or it is shown. (Not while the thread
\* frees and takes addresses, nor between the flag and its lambda, when the
\* mouse may give back a cursor that was never hidden: it posts a call then.)
LastInv ==
    /\ queue # <<>> => queue[Len(queue)] = asked
    /\ queue = <<>> /\ rdp \notin {"put", "set", "postNull"} => Shows(asked)

\* What has been posted is the last in the queue.
LEMMA PostedLast ==
    ASSUME TypeOK, NEW l \in Lambdas, Post(l)
    PROVE  LastInv'
<1>1. /\ queue' = Append(queue, l) /\ queue' # <<>> /\ asked' = l
      /\ Len(queue') = Len(queue) + 1 /\ queue'[Len(queue) + 1] = l
  BY Posted DEF TypeOK, Post
<1>2. QED
  BY <1>1 DEF LastInv

\* Draining a lambda keeps the last, or it was the last and is shown.
LEMMA DrainedLast ==
    ASSUME TypeOK, LastInv, NEW k, Drain(k), asked' = asked,
           NEW l, l = Head(queue), Shows(l)'
    PROVE  LastInv'
<1>1. /\ queue' = Tail(queue) /\ queue # <<>>
      /\ Head(queue) = queue[1] /\ Len(queue) \in Nat /\ Len(queue) >= 1
      /\ queue' \in Seq(Lambdas) /\ Len(queue') = Len(queue) - 1
      /\ \A j \in 1..(Len(queue) - 1) : queue'[j] = queue[j + 1]
  BY Drained DEF TypeOK, Drain
<1>2. queue[Len(queue)] = asked
  BY <1>1 DEF LastInv
<1>3. CASE Len(queue) = 1
  <2>1. queue' = <<>>
    BY <1>1, <1>3, EmptyIsShort
  <2>2. l = asked
    BY <1>1, <1>2, <1>3
  <2>3. QED
    BY <2>1, <2>2 DEF LastInv
<1>4. CASE Len(queue) > 1
  <2>1. Len(queue') # 0 /\ queue'[Len(queue')] = asked
    BY <1>1, <1>2, <1>4
  <2>2. queue' # <<>>
    BY <1>1, <2>1, EmptyIsShort
  <2>3. QED
    BY <2>1, <2>2 DEF LastInv
<1>5. QED
  BY <1>1, <1>3, <1>4

\* Every step keeps the last call.
LEMMA LastStep == Typed /\ FlagInv /\ LastInv /\ [Next]_vars => LastInv'
<1> SUFFICES ASSUME Typed, TypeOK, FlagInv, LastInv, [Next]_vars
             PROVE  LastInv'
  BY DEF Typed
<1>a. ASSUME UNCHANGED <<cursor, last, cache, asked>>
      PROVE  Shows(asked)' <=> Shows(asked)
  BY <1>a DEF Shows
<1>b. ASSUME UNCHANGED <<cursor, last, cache, asked, queue>>,
             rdp \in {"put", "set", "postNull"} => rdp' \in {"put", "set", "postNull"}
      PROVE  LastInv'
  BY <1>a, <1>b DEF LastInv
<1>1. ASSUME NEW i \in Slots, PointerCached(i)
      PROVE  LastInv'
  BY <1>1, <1>b DEF PointerCached, Begin, cacheVars, guiVars
<1>2. ASSUME NEW i \in Slots, NEW p \in Pointers, NEW s \in Shapes \cup {None},
             PointerNew(i, p, s)
      PROVE  LastInv'
  BY <1>2 DEF PointerNew, Begin, LastInv
<1>3. CASE PointerPut
  BY <1>3 DEF PointerPut, LastInv
<1>4. CASE PointerSet
  BY <1>4, LambdaTypes, PostedLast DEF PointerSet, Typed
<1>5. CASE SetNull \/ SetDefault
  BY <1>5, <1>b DEF SetNull, SetDefault, Begin, cacheVars, guiVars
<1>6. CASE Hide
  BY <1>6 DEF Hide, LastInv
<1>7. CASE PostNull \/ PostDefault
  BY <1>7, LambdaTypes, PostedLast DEF PostNull, PostDefault
<1>8. CASE ShowPointer
  <2>1. PICK l : l = Head(queue)
    OBVIOUS
  <2>2. l.kind = "set" /\ Drain("set") /\ asked' = asked /\ cache' = cache
    BY <1>8, <2>1, DrainTypes DEF ShowPointer, cacheVars
  <2>3. cache[l.ptr] = None \/ cursor' = cache[l.ptr]
    BY <1>8, <2>1 DEF ShowPointer
  <2>4. Shows(l)'
    BY <2>2, <2>3 DEF Shows
  <2>5. QED
    BY <2>1, <2>2, <2>4, DrainedLast
<1>9. CASE BlankPointer
  <2>1. PICK l : l = Head(queue)
    OBVIOUS
  <2>2. l.kind = "null" /\ Drain("null") /\ asked' = asked /\ cursor' = Blank
    BY <1>9, <2>1, DrainTypes DEF BlankPointer
  <2>3. Shows(l)'
    BY <2>2 DEF Shows
  <2>4. QED
    BY <2>1, <2>2, <2>3, DrainedLast
<1>10. CASE UnsetPointer
  <2>1. PICK l : l = Head(queue)
    OBVIOUS
  <2>2. l.kind = "default" /\ Drain("default") /\ asked' = asked
        /\ cursor' = Arrow
    BY <1>10, <2>1, DrainTypes DEF UnsetPointer
  <2>3. Shows(l)'
    BY <2>2 DEF Shows
  <2>4. QED
    BY <2>1, <2>2, <2>3, DrainedLast
<1>11. ASSUME NEW m \in Positions, MouseMove(m)
       PROVE  LastInv'
  <2>1. UNCHANGED <<rdp, cache, queue, last, asked>>
    BY <1>11 DEF MouseMove, cacheVars
  <2>2. CASE cursor' = cursor
    BY <1>b, <2>1, <2>2
  <2>3. CASE cursor' # cursor
    <3>1. hidden /\ cursor' = last
      BY <1>11, <2>3 DEF MouseMove
    <3>2. SUFFICES ASSUME queue = <<>>, rdp \notin {"put", "set", "postNull"},
                          Shows(asked)
                   PROVE  Shows(asked)'
      BY <2>1 DEF LastInv
    <3>3. cursor = Blank
      <4>1. BlankComes /\ Len(queue) = 0
        BY <3>1, <3>2, EmptyIsShort DEF FlagInv, TypeOK
      <4>2. QED
        BY <4>1 DEF BlankComes
    <3>4. asked.kind # "default"
      BY <3>2, <3>3, CursorAssumption DEF Shows, CursorAssumption
    <3>5. asked.kind = "set" => cache[asked.ptr] = None
      <4>1. asked.kind = "set" => cache[asked.ptr] \in Shapes \cup {None}
        BY DEF TypeOK, Lambdas
      <4>2. QED
        BY <3>2, <3>3, <4>1, CursorAssumption DEF Shows, CursorAssumption
    <3>6. QED
      BY <2>1, <3>1, <3>4, <3>5 DEF Shows
  <2>4. QED
    BY <2>2, <2>3
<1>12. CASE TwoSecondsPass \/ UNCHANGED vars
  BY <1>12, <1>b DEF TwoSecondsPass, vars, cacheVars, guiVars
<1>13. QED
  BY <1>1, <1>2, <1>3, <1>4, <1>5, <1>6, <1>7, <1>8, <1>9, <1>10, <1>11, <1>12
     DEF Next

\* When the main thread has caught up, the cursor is what the server asked for
\* last, for any mixture of calls, reused addresses and moves of the mouse.
THEOREM LastIsShown == Spec => []LastCallShown
<1>1. Init => FlagInv /\ LastInv
  BY DEF Init, FlagInv, LastInv, Shows, Lambda
<1>2. Typed /\ LastInv => LastCallShown
  <2> SUFFICES ASSUME Typed, LastInv, Settled
               PROVE  CASE asked.kind = "default" -> cursor = Arrow
                        [] asked.kind = "null" -> cursor \in {Blank, last}
                        [] asked.kind = "set" ->
                              cache[asked.ptr] # None => cursor = cache[asked.ptr]
    BY DEF LastCallShown
  <2>1. Shows(asked)
    BY DEF LastInv, Settled
  <2>2. asked.kind \in {"default", "null", "set"}
    BY DEF Typed, TypeOK, Lambdas
  <2>3. QED
    BY <2>1, <2>2 DEF Shows
<1>3. Typed => TypeOK
  BY DEF Typed
<1>4. QED
  BY TypedInit, TypedStep, FlagStep, LastStep, <1>1, <1>2, <1>3, PTL DEF Spec
=============================================================================
