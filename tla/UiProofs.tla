------------------------------ MODULE UiProofs ------------------------------
(***************************************************************************)
(* The interface: a press is answered once, a text field and the element   *)
(* of the page that takes its text stay in step, the fields of a screen    *)
(* share one focus, one editor and notices of one frame, and what a text   *)
(* is drawn with is in the texture, for any places, thresholds, fields,    *)
(* screens, texts and pictures.                                            *)
(***************************************************************************)
EXTENDS Gestures, BrowserField, TextInput, TextCache, FiniteSetTheorems,
        SequenceTheorems, WellFoundedInduction, TLAPS

-----------------------------------------------------------------------------
(* Presses. *)

GesturesTypeOK ==
  /\ tslt \in [state : {"KeyUp", "KeyDown", "Tap", "Swipe", "LongTap"},
               t : Nat, x : Int, delayed : BOOLEAN]
  /\ clock \in Nat /\ fingers \in Nat /\ stirred \in BOOLEAN
  /\ animate \in [wanted : BOOLEAN, start : Nat, timer : BOOLEAN]
  /\ press \in [n : Nat, released : BOOLEAN, strayed : BOOLEAN, crowded : BOOLEAN,
                answers : 0 .. 1]

\* A gesture that the next frame will see has been seen by none, and an event
\* came after the last frame; a finger whose gesture is still open has none yet.
Unseen ==
  /\ tslt.state \in {"Tap", "LongTap"} => tslt.delayed /\ stirred /\ press.answers = 0
  /\ tslt.state = "KeyDown" => ~press.released /\ ~tslt.delayed /\ press.answers = 0
  /\ tslt.state = "LongTap" => ~press.released
  /\ tslt.state = "Swipe" => press.strayed /\ ~tslt.delayed

\* What is over has been seen, will be seen by the next frame, or was lost on
\* the way.
Settled ==
  press.n > 0 /\ ~press.strayed /\ ~press.crowded =>
    /\ press.released => press.answers = 1 \/ tslt.state = "Tap"
    /\ tslt.state = "KeyUp" => press.answers = 1

GesturesInv == GesturesTypeOK /\ Unseen /\ Settled

-----------------------------------------------------------------------------
LEMMA GesturesStart == GesturesInit => GesturesInv
<1> SUFFICES ASSUME GesturesInit PROVE GesturesInv
  OBVIOUS
<1> USE DEF GesturesInit
<1>1. tslt \in [state : {"KeyUp", "KeyDown", "Tap", "Swipe", "LongTap"},
                t : Nat, x : Int, delayed : BOOLEAN]
  OBVIOUS
<1>2. animate \in [wanted : BOOLEAN, start : Nat, timer : BOOLEAN]
  OBVIOUS
<1>3. press \in [n : Nat, released : BOOLEAN, strayed : BOOLEAN, crowded : BOOLEAN,
                 answers : 0 .. 1]
  OBVIOUS
<1>4. clock \in Nat /\ fingers \in Nat /\ stirred \in BOOLEAN
  OBVIOUS
<1>5. tslt.state = "KeyUp" /\ press.n = 0
  OBVIOUS
<1>6. GesturesTypeOK
  BY <1>1, <1>2, <1>3, <1>4 DEF GesturesTypeOK
<1>7. Unseen /\ Settled
  BY <1>5 DEF Unseen, Settled
<1> QED
  BY <1>6, <1>7 DEF GesturesInv

LEMMA GesturesStep == GesturesInv /\ [GesturesNext]_gestureVars => GesturesInv'
<1> SUFFICES ASSUME GesturesInv, [GesturesNext]_gestureVars PROVE GesturesInv'
  OBVIOUS
<1> USE GesturesAssumption DEF GesturesInv, GesturesTypeOK
<1>1. ASSUME NEW x \in Place, PointerDown(x) PROVE GesturesInv'
  BY <1>1 DEF PointerDown, Handled, HandleKeyDown, Animated, Unseen, Settled
<1>2. ASSUME NEW x \in Place, PointerUp(x) PROVE GesturesInv'
  <2> x \in Int
    OBVIOUS
  <2>a. tslt' \in [state : {"KeyUp", "KeyDown", "Tap", "Swipe", "LongTap"},
                   t : Nat, x : Int, delayed : BOOLEAN]
    BY <1>2 DEF PointerUp, Handled, HandleKeyUp
  <2>b. animate' \in [wanted : BOOLEAN, start : Nat, timer : BOOLEAN]
    BY <1>2 DEF PointerUp, Animated
  <2>c. fingers' \in Nat /\ clock' \in Nat /\ stirred' \in BOOLEAN
    BY <1>2 DEF PointerUp, Handled
  <2>d. (Answer(tslt) = 1 /\ press.answers = 0) \in BOOLEAN
    OBVIOUS
  <2>e. press' \in [n : Nat, released : BOOLEAN, strayed : BOOLEAN, crowded : BOOLEAN,
                    answers : 0 .. 1]
    BY <1>2, <2>d DEF PointerUp
  <2>1. GesturesTypeOK'
    BY <2>a, <2>b, <2>c, <2>e
  <2>2. /\ tslt' = HandleKeyUp(tslt, x) /\ stirred' = TRUE
        /\ press'.n = press.n /\ press'.released = TRUE
        /\ press'.strayed = press.strayed /\ press'.answers = press.answers
        /\ press'.crowded = (press.crowded \/ (Answer(tslt) = 1 /\ press.answers = 0))
    BY <1>2 DEF PointerUp, Handled
  <2>3. Unseen'
    BY <2>2 DEF Unseen, HandleKeyUp
  <2>4. Settled'
    BY <2>2 DEF Unseen, Settled, HandleKeyUp, Answer
  <2> QED
    BY <2>1, <2>3, <2>4
<1>3. ASSUME NEW x \in Place, PointerMoves(x) PROVE GesturesInv'
  <2> x \in Int
    OBVIOUS
  <2>1. GesturesTypeOK'
    BY <1>3 DEF PointerMoves, Handled, HandleMotion, HandleOther, Animated
  <2>2. /\ tslt'.state = tslt.state /\ tslt'.delayed = tslt.delayed
        \/ /\ tslt.state = "KeyDown" /\ tslt'.state = "Swipe" /\ ~tslt'.delayed
        \/ /\ tslt.state = "KeyDown" /\ tslt'.state = "LongTap" /\ tslt'.delayed
    BY <1>3 DEF PointerMoves, Handled, HandleMotion, HandleOther, Unseen
  <2>3. /\ stirred' = TRUE /\ press'.n = press.n /\ press'.released = press.released
        /\ press'.strayed = (press.strayed \/ tslt'.state = "Swipe")
        /\ press'.crowded = press.crowded /\ press'.answers = press.answers
    BY <1>3 DEF PointerMoves, Handled
  <2> QED
    BY <2>1, <2>2, <2>3 DEF Unseen, Settled
<1>4. CASE OtherEvent
  BY <1>4 DEF OtherEvent, Handled, HandleOther, Unseen, Settled
<1>5. CASE AnimationTimer
  BY <1>5 DEF AnimationTimer, Unseen, Settled
<1>6. CASE TimePasses
  BY <1>6 DEF TimePasses, Unseen, Settled
<1>7. CASE DrawFrame
  <2>1. /\ tslt' = FlushDelayedReset(tslt) /\ stirred' = FALSE
        /\ press' = [press EXCEPT !.answers = press.answers + Answer(tslt)]
        /\ clock' = clock /\ fingers' = fingers
    BY <1>7 DEF DrawFrame
  <2>2. Answer(tslt) \in 0 .. 1 /\ (Answer(tslt) = 1 <=> tslt.state \in {"Tap", "LongTap"})
    BY DEF Answer
  <2>3. press.answers + Answer(tslt) \in 0 .. 1
    BY <2>2 DEF Unseen
  <2>4. /\ press'.answers = press.answers + Answer(tslt) /\ press'.n = press.n
        /\ press'.released = press.released /\ press'.strayed = press.strayed
        /\ press'.crowded = press.crowded
        /\ press' \in [n : Nat, released : BOOLEAN, strayed : BOOLEAN,
                       crowded : BOOLEAN, answers : 0 .. 1]
    BY <2>1, <2>3
  <2>5. animate' \in [wanted : BOOLEAN, start : Nat, timer : BOOLEAN]
    BY <1>7 DEF DrawFrame
  <2>6. GesturesTypeOK'
    BY <2>1, <2>4, <2>5 DEF FlushDelayedReset
  <2>7. tslt'.state = (IF tslt.delayed THEN "KeyUp" ELSE tslt.state) /\ ~tslt'.delayed
    BY <2>1 DEF FlushDelayedReset
  <2>8. Unseen'
    BY <2>4, <2>7, <2>2, <2>3 DEF Unseen
  <2>9. Settled'
    BY <2>4, <2>7, <2>2, <2>3 DEF Unseen, Settled
  <2> QED
    BY <2>6, <2>8, <2>9
<1>8. CASE UNCHANGED gestureVars
  BY <1>8 DEF gestureVars, Unseen, Settled
<1> QED
  BY <1>1, <1>2, <1>3, <1>4, <1>5, <1>6, <1>7, <1>8 DEF GesturesNext

\* Whatever is done with however many fingers, a press is seen as a tap or a
\* long tap by one frame, not two, and is not forgotten (TapSwipeLongTap and the
\* reset at the end of ui_iterate).
THEOREM PressesAreAnsweredOnce == GesturesSpec => []OneAnswer
<1>1. GesturesInv => OneAnswer
  BY DEF GesturesInv, GesturesTypeOK, Unseen, Settled, OneAnswer
<1> QED
  BY <1>1, GesturesStart, GesturesStep, PTL DEF GesturesSpec

-----------------------------------------------------------------------------
(* What loops do. *)

\* Induction up to n, from the well-foundedness of inclusion in a finite set:
\* the smallest of the intervals that end outside Good.
LEMMA Induction ==
  ASSUME NEW n \in Nat, NEW Good, 0 \in Good,
         \A i \in 0 .. n - 1 : i \in Good => i + 1 \in Good
  PROVE  \A i \in 0 .. n : i \in Good
<1> DEFINE Bad == {i \in 0 .. n : i \notin Good}
           Ends == {0 .. i : i \in Bad}
<1>1. SUFFICES ASSUME Bad # {} PROVE FALSE
  OBVIOUS
<1>2. IsFiniteSet(0 .. n)
  BY FS_Interval
<1>3. IsWellFoundedOn(StrictSubsetOrdering(0 .. n), FiniteSubsetsOf(0 .. n))
  BY FS_StrictSubsetOrderingWellFounded
<1>4. Ends \subseteq FiniteSubsetsOf(0 .. n) /\ Ends # {}
  <2>1. \A i \in 0 .. n : IsFiniteSet(0 .. i) /\ (0 .. i) \subseteq 0 .. n
    BY FS_Interval
  <2> QED
    BY <1>1, <2>1 DEF FiniteSubsetsOf
<1>5. PICK low \in Ends : \A e \in Ends : <<e, low>> \notin StrictSubsetOrdering(0 .. n)
  BY <1>3, <1>4, WFMin
<1>6. PICK i \in Bad : low = 0 .. i
  OBVIOUS
<1>7. i # 0 /\ i - 1 \in 0 .. n - 1
  OBVIOUS
<1>8. i - 1 \in Bad
  BY <1>7
<1>9. 0 .. (i - 1) \in Ends
  BY <1>8
<1>10. <<0 .. (i - 1), 0 .. i>> \in StrictSubsetOrdering(0 .. n)
  BY <1>7 DEF StrictSubsetOrdering
<1> QED
  BY <1>5, <1>6, <1>9, <1>10


\* Something done n times over has a result each time: f tells them all.
Iterates(f, n, D, base, F) ==
  f \in [0 .. n -> D] /\ f[0] = base /\ \A i \in 1 .. n : f[i] = F[i][f[i - 1]]
CanIterate(n, D, base, F) == n \in Nat /\ base \in D /\ F \in [1 .. n -> [D -> D]]

LEMMA Iterated ==
  ASSUME NEW n, NEW D, NEW base, NEW F, CanIterate(n, D, base, F)
  PROVE  \E f : Iterates(f, n, D, base, F)
<1> USE DEF CanIterate, Iterates
<1> DEFINE Run(f, k) == f \in [0 .. k -> D] /\ f[0] = base /\ \A i \in 1 .. k : f[i] = F[i][f[i - 1]]
           Good == {k \in 0 .. n : \E f : Run(f, k)}
<1>1. 0 \in Good
  <2>1. [k \in 0 .. 0 |-> base] \in [0 .. 0 -> D] /\ [k \in 0 .. 0 |-> base][0] = base
    OBVIOUS
  <2>2. \A i \in 1 .. 0 : FALSE
    OBVIOUS
  <2>3. Run([k \in 0 .. 0 |-> base], 0)
    BY <2>1, <2>2
  <2> HIDE DEF Run
  <2> QED
    BY <2>3
<1>2. ASSUME NEW k \in 0 .. n - 1, k \in Good PROVE k + 1 \in Good
  <2>1. PICK f : Run(f, k)
    BY <1>2
  <2> DEFINE g == [i \in 0 .. k + 1 |-> IF i = k + 1 THEN F[k + 1][f[k]] ELSE f[i]]
  <2>2. k \in Nat /\ k + 1 \in 1 .. n /\ k \in 0 .. k /\ k + 1 \in 0 .. n
    OBVIOUS
  <2>3. F[k + 1][f[k]] \in D
    BY <2>1, <2>2
  <2>4. g \in [0 .. k + 1 -> D]
    BY <2>1, <2>2, <2>3
  <2>5. ASSUME NEW i \in 1 .. k + 1 PROVE g[i] = F[i][g[i - 1]]
    <3>1. CASE i = k + 1
      <4>1. i - 1 = k /\ k \in 0 .. k + 1 /\ k # k + 1 /\ i \in 0 .. k + 1
        BY <2>2, <3>1
      <4> QED
        BY <3>1, <4>1
    <3>2. CASE i # k + 1
      <4>1. i \in 1 .. k /\ i - 1 \in 0 .. k + 1 /\ i - 1 # k + 1 /\ i \in 0 .. k + 1
        BY <2>2, <3>2
      <4> QED
        BY <2>1, <3>2, <4>1
    <3> QED
      BY <3>1, <3>2
  <2>6. g[0] = base
    BY <2>1, <2>2
  <2> HIDE DEF g
  <2> QED
    BY <2>2, <2>4, <2>5, <2>6
<1>3. n \in Good
  <2> HIDE DEF Good
  <2>1. \A k \in 0 .. n : k \in Good
    BY <1>1, <1>2, Induction
  <2> QED
    BY <2>1
<1> QED
  BY <1>3

-----------------------------------------------------------------------------
(* The browser's text field. *)

ElementType == [value : Content, focus : BOOLEAN, submitted : BOOLEAN,
                pending : {"no", "young", "old"}, closing : BOOLEAN, active : BOOLEAN]
BufferType == [data : Content, empty : BOOLEAN]
FieldTypeOK ==
  /\ focused \in Field \cup {Unfocused} /\ buffers \in [Field -> BufferType]
  /\ activating \in BOOLEAN /\ lostEvent \in BOOLEAN /\ typed \in BOOLEAN
  /\ returned \in BOOLEAN
  /\ page \in Page /\ element \in ElementType

\* A blur of the app's own waits for no one: the element lost the focus before.
Calm(e) == e.closing => e.pending = "no" /\ ~e.focus

\* Without a focused field nothing is asked of the element.
Idle(e) == e.pending = "no" /\ ~e.focus

\* Somebody will tell the app that the focus goes, or has told already.
Watched(e) == \/ e.focus /\ e.active /\ ~e.closing
              \/ e.pending # "no" \/ e.submitted

Shows(b, e) == View(b) = e.value \/ b = [data |-> e.value, empty |-> TRUE]

\* A notice of an element that has the focus is of one that took it back, or is
\* followed by the window's own.
Heeded(f, e, r, l) ==
  /\ Calm(e) /\ (f = Unfocused => Idle(e))
  /\ e.pending # "no" /\ e.focus => r \/ l
  /\ f # Unfocused => r \/ Watched(e) \/ l

FieldInv ==
  /\ FieldTypeOK /\ Heeded(focused, element, returned, lostEvent)
  /\ focused # Unfocused /\ ~typed => Shows(buffers[focused], element)

-----------------------------------------------------------------------------
LEMMA BlurHeardFacts ==
  ASSUME NEW e \in ElementType
  PROVE  LET b == BlurHeard(e)
         IN  /\ b \in ElementType /\ b.value = e.value /\ b.focus = e.focus
             /\ b.submitted = e.submitted /\ ~b.closing /\ ~b.active
             /\ b.pending = IF e.closing THEN "no" ELSE IF e.active THEN "young" ELSE e.pending
  BY DEF BlurHeard, ElementType

LEMMA BlurredFacts ==
  ASSUME NEW e \in ElementType
  PROVE  LET b == Blurred(e)
         IN  /\ b \in ElementType /\ b.value = e.value /\ ~b.focus
             /\ b.submitted = e.submitted
             /\ ~e.focus => b = e
             /\ e.focus => /\ ~b.closing /\ ~b.active
                           /\ b.pending = IF e.closing THEN "no"
                                          ELSE IF e.active THEN "young" ELSE e.pending
<1> DEFINE h == BlurHeard(e)
<1>1. /\ h \in ElementType /\ h.value = e.value /\ h.focus = e.focus
      /\ h.submitted = e.submitted /\ ~h.closing /\ ~h.active
      /\ h.pending = IF e.closing THEN "no" ELSE IF e.active THEN "young" ELSE e.pending
  BY BlurHeardFacts
<1>2. Blurred(e) = IF e.focus THEN [h EXCEPT !.focus = FALSE] ELSE e
  BY DEF Blurred
<1> HIDE DEF h
<1> QED
  BY <1>1, <1>2 DEF ElementType

LEMMA EnterFacts ==
  ASSUME NEW e \in ElementType, e.focus
  PROVE  /\ Enter(e) \in ElementType /\ Enter(e).value = e.value /\ Calm(Enter(e))
         /\ Idle(Enter(e)) /\ Watched(Enter(e))
<1> DEFINE c == [e EXCEPT !.submitted = TRUE, !.closing = TRUE, !.active = FALSE]
<1>1. /\ c \in ElementType /\ c.value = e.value /\ c.focus /\ c.submitted /\ c.closing
  BY DEF ElementType
<1>2. Enter(e) = Blurred(c)
  BY DEF Enter
<1> HIDE DEF c
<1> QED
  BY <1>1, <1>2, BlurredFacts DEF Calm, Idle, Watched

LEMMA WebDeactivateFacts ==
  ASSUME NEW e \in ElementType
  PROVE  /\ WebDeactivate(e) \in ElementType /\ WebDeactivate(e).value = e.value
         /\ Calm(WebDeactivate(e)) /\ Idle(WebDeactivate(e))
<1> DEFINE c == [e EXCEPT !.submitted = FALSE, !.pending = "no", !.closing = TRUE,
                          !.active = FALSE]
<1>1. /\ c \in ElementType /\ c.value = e.value /\ c.closing /\ c.pending = "no"
  BY DEF ElementType
<1>2. WebDeactivate(e) = Blurred(c)
  BY DEF WebDeactivate
<1> HIDE DEF c
<1> QED
  BY <1>1, <1>2, BlurredFacts DEF Calm, Idle

LEMMA WebActivateFacts ==
  ASSUME NEW e \in ElementType, NEW v \in Content
  PROVE  /\ WebActivate(e, v) \in ElementType /\ WebActivate(e, v).value = v
         /\ Calm(WebActivate(e, v)) /\ Watched(WebActivate(e, v))
         /\ WebActivate(e, v).pending = "no"
  BY DEF WebActivate, ElementType, Calm, Watched

LEMMA TakeBlurredFacts ==
  ASSUME NEW e \in ElementType, Calm(e)
  PROVE  LET b == TakeBlurred(e)[2]
         IN  /\ b \in ElementType /\ b.value = e.value /\ Calm(b)
             /\ b.pending # "no" => ~b.focus
             /\ ~TakeBlurred(e)[1] /\ Watched(e) /\ ~e.submitted =>
                  Watched(b) \/ (e.pending # "no" /\ e.focus)
<1> DEFINE c == [e EXCEPT !.pending = "no"]
<1>1. c \in ElementType /\ c.value = e.value /\ Calm(c) /\ c.pending = "no"
  BY DEF ElementType, Calm
<1>2. TakeBlurred(e) = IF e.pending = "no" THEN <<FALSE, e>>
                       ELSE IF e.focus THEN <<FALSE, c>>
                       ELSE IF e.pending = "old" THEN <<TRUE, c>> ELSE <<FALSE, e>>
  BY DEF TakeBlurred
<1> HIDE DEF c
<1>3. CASE e.pending = "no"
  BY <1>2, <1>3
<1>4. CASE e.pending # "no" /\ e.focus
  BY <1>1, <1>2, <1>4
<1>5. CASE e.pending = "old" /\ ~e.focus
  BY <1>1, <1>2, <1>5
<1>6. CASE e.pending = "young" /\ ~e.focus
  BY <1>2, <1>6 DEF Watched
<1>7. e.pending \in {"no", "young", "old"}
  BY DEF ElementType
<1> QED
  BY <1>3, <1>4, <1>5, <1>6, <1>7

LEMMA ClearedFacts ==
  ASSUME NEW b \in BufferType
  PROVE  /\ Cleared(b) \in BufferType /\ View(Cleared(b)) = NoText
         /\ \A e \in ElementType : Shows(b, e) => Shows(Cleared(b), e)
<1>1. Cleared(b) = [data |-> b.data, empty |-> TRUE]
  BY DEF Cleared
<1>2. Cleared(b) \in BufferType /\ View(Cleared(b)) = NoText
  BY <1>1 DEF View, BufferType
<1>3. ASSUME NEW e \in ElementType, Shows(b, e) PROVE Shows(Cleared(b), e)
  <2>1. CASE b = [data |-> e.value, empty |-> TRUE]
    BY <1>1, <2>1 DEF Shows
  <2>2. CASE View(b) = e.value /\ b.empty
    <3>1. e.value = NoText
      BY <2>2 DEF View
    <3> QED
      BY <1>2, <3>1 DEF Shows
  <2>3. CASE View(b) = e.value /\ ~b.empty
    <3>1. b.data = e.value
      BY <2>3 DEF View
    <3> QED
      BY <1>1, <3>1 DEF Shows
  <2> QED
    BY <1>3, <2>1, <2>2, <2>3 DEF Shows
<1> QED
  BY <1>2, <1>3

\* What a frame did so far.
FieldDraw == [focused : Field \cup {Unfocused}, activating : BOOLEAN, element : ElementType,
              buffers : [Field -> BufferType], drawn : BOOLEAN, returned : BOOLEAN]
Drawing(d) == d \in FieldDraw /\ Heeded(d.focused, d.element, d.returned, FALSE)

LEMMA BuffersCleared ==
  ASSUME NEW bs \in [Field -> BufferType], NEW f \in Field
  PROVE  /\ [bs EXCEPT ![f] = Cleared(@)] \in [Field -> BufferType]
         /\ [bs EXCEPT ![f] = Cleared(@)][f] = Cleared(bs[f])
         /\ \A g \in Field \ {f} : [bs EXCEPT ![f] = Cleared(@)][g] = bs[g]
<1>1. Cleared(bs[f]) \in BufferType
  BY ClearedFacts
<1> QED
  BY <1>1

LEMMA DrawnFieldFacts ==
  ASSUME NEW d, Drawing(d), NEW f \in Field, NEW tap
  PROVE  Drawing(DrawnField(tap, d, f))
<1>0. /\ NoText \in Content /\ Unfocused \notin Field
  BY BrowserFieldAssumption
<1>1. /\ d \in FieldDraw /\ d.element \in ElementType /\ d.buffers \in [Field -> BufferType]
      /\ d.focused \in Field \cup {Unfocused} /\ d.returned \in BOOLEAN
      /\ d.drawn \in BOOLEAN /\ Heeded(d.focused, d.element, d.returned, FALSE)
  BY DEF Drawing, FieldDraw
<1> DEFINE over == tap[2] = f
           opens == (over \/ d.activating) /\ d.focused # f
           leaves == d.focused = f /\ tap[1] # "none" /\ ~over
           clears == tap = <<"clear", f>> /\ View(d.buffers[f]) # NoText
           off == WebDeactivate(d.element)
           on == WebActivate(WebDeactivate(d.element), d.buffers[f].data)
           e == IF opens THEN on ELSE IF leaves THEN off ELSE d.element
           e2 == IF clears THEN [e EXCEPT !.value = NoText] ELSE e
           now == IF leaves THEN Unfocused ELSE IF opens THEN f ELSE d.focused
           bs == IF clears THEN [d.buffers EXCEPT ![f] = Cleared(@)] ELSE d.buffers
           after == [focused |-> now, activating |-> FALSE, element |-> e2, buffers |-> bs,
                     drawn |-> d.drawn \/ now = f, returned |-> d.returned /\ ~opens]
<1>2. DrawnField(tap, d, f) = after
  BY DEF DrawnField
<1>3. off \in ElementType /\ Calm(off) /\ Idle(off)
  BY <1>1, WebDeactivateFacts
<1>4. on \in ElementType /\ Calm(on) /\ Watched(on) /\ on.pending = "no"
  <2>1. d.buffers[f].data \in Content
    BY <1>1 DEF BufferType
  <2> QED
    BY <1>3, <2>1, WebActivateFacts
<1>5. bs \in [Field -> BufferType]
  BY <1>1, BuffersCleared
<1> HIDE DEF off, on, over, clears, bs
<1>6. now \in Field \cup {Unfocused} /\ opens \in BOOLEAN
  BY <1>1
<1>7. e \in ElementType /\ Heeded(now, e, d.returned /\ ~opens, FALSE)
  <2>1. CASE opens
    <3>1. e = on /\ now = f /\ now # Unfocused
      BY <1>0, <2>1
    <3> QED
      BY <1>4, <3>1 DEF Heeded
  <2>2. CASE leaves
    <3>1. e = off /\ now = Unfocused
      BY <2>2
    <3> QED
      BY <1>3, <3>1 DEF Heeded, Idle
  <2>3. CASE ~opens /\ ~leaves
    <3>1. e = d.element /\ now = d.focused
      BY <2>3
    <3> QED
      BY <1>1, <2>3, <3>1 DEF Heeded
  <2> QED
    BY <2>1, <2>2, <2>3
<1> HIDE DEF e, now, opens, leaves
<1>8. e2 \in ElementType /\ Heeded(now, e2, d.returned /\ ~opens, FALSE)
  <2>1. CASE clears
    <3>1. e2 = [e EXCEPT !.value = NoText]
      BY <2>1
    <3>2. /\ e2 \in ElementType /\ e2.focus = e.focus /\ e2.submitted = e.submitted
          /\ e2.pending = e.pending /\ e2.closing = e.closing /\ e2.active = e.active
      BY <1>0, <1>7, <3>1 DEF ElementType
    <3> QED
      BY <1>7, <3>2 DEF Heeded, Calm, Idle, Watched
  <2>2. CASE ~clears
    BY <1>7, <2>2
  <2> QED
    BY <2>1, <2>2
<1> HIDE DEF e2
<1>9. after \in FieldDraw
  BY <1>1, <1>5, <1>6, <1>8 DEF FieldDraw
<1>10. after.focused = now /\ after.element = e2 /\ after.returned = (d.returned /\ ~opens)
  OBVIOUS
<1> HIDE DEF after
<1> QED
  BY <1>2, <1>8, <1>9, <1>10 DEF Drawing

LEMMA SyncedFieldFacts ==
  ASSUME NEW d, Drawing(d)
  PROVE  LET s == SyncedField(d)
         IN  /\ s \in FieldDraw /\ Heeded(s.focused, s.element, s.returned, FALSE)
             /\ s.focused # Unfocused => Shows(s.buffers[s.focused], s.element)
<1>0. /\ NoText \in Content /\ Unfocused \notin Field
  BY BrowserFieldAssumption
<1>1. /\ d \in FieldDraw /\ d.element \in ElementType /\ d.buffers \in [Field -> BufferType]
      /\ d.focused \in Field \cup {Unfocused} /\ d.returned \in BOOLEAN
      /\ Heeded(d.focused, d.element, d.returned, FALSE)
  BY DEF Drawing, FieldDraw
<1> DEFINE f == d.focused
           off == WebDeactivate(d.element)
           leave == [d EXCEPT !.focused = Unfocused, !.element = off]
           copy == IF d.element.value = NoText THEN Cleared(d.buffers[f])
                   ELSE [data |-> d.element.value, empty |-> FALSE]
           copied == IF d.buffers[f].data = d.element.value THEN d.buffers
                     ELSE [d.buffers EXCEPT ![f] = copy]
           taken == TakeBlurred(d.element)
           left == [leave EXCEPT !.buffers = copied]
           kept == [d EXCEPT !.buffers = copied, !.element = taken[2]]
<1>2. CASE f = Unfocused
  <2>1. SyncedField(d) = d
    BY <1>2 DEF SyncedField
  <2> QED
    BY <1>1, <1>2, <2>1
<1>3. off \in ElementType /\ Calm(off) /\ Idle(off)
  BY <1>1, WebDeactivateFacts
<1>4. CASE f # Unfocused
  <2>1. f \in Field /\ d.buffers[f] \in BufferType /\ d.element.value \in Content
    BY <1>1, <1>4 DEF ElementType
  <2>2. copy \in BufferType /\ (d.buffers[f].data # d.element.value => Shows(copy, d.element))
    <3>1. CASE d.element.value = NoText
      BY <2>1, <3>1, ClearedFacts DEF Shows
    <3>2. CASE d.element.value # NoText
      BY <2>1, <3>2 DEF Shows, View, BufferType
    <3> QED
      BY <3>1, <3>2
  <2>3. d.buffers[f].data = d.element.value => Shows(d.buffers[f], d.element)
    <3>1. d.buffers[f] = [data |-> d.buffers[f].data, empty |-> d.buffers[f].empty]
          /\ d.buffers[f].empty \in BOOLEAN
      BY <2>1 DEF BufferType
    <3> QED
      BY <3>1 DEF Shows, View
  <2> HIDE DEF copy
  <2>4. copied \in [Field -> BufferType] /\ Shows(copied[f], d.element)
    BY <1>1, <2>1, <2>2, <2>3
  <2> HIDE DEF copied
  <2>5. /\ leave \in FieldDraw /\ leave.focused = Unfocused /\ leave.element = off
    BY <1>1, <1>3 DEF FieldDraw
  <2> HIDE DEF leave
  <2>6. /\ left \in FieldDraw /\ left.focused = Unfocused /\ left.element = off
    BY <2>4, <2>5 DEF FieldDraw
  <2> HIDE DEF left
  <2>7. Heeded(Unfocused, off, leave.returned, FALSE) /\ Heeded(Unfocused, off, left.returned, FALSE)
    BY <1>3 DEF Heeded, Idle
  <2>8. CASE ~d.drawn
    <3>1. SyncedField(d) = leave
      BY <1>4, <2>8 DEF SyncedField, leave
    <3> QED
      BY <2>5, <2>7, <3>1
  <2>9. CASE d.drawn /\ (d.element.submitted \/ taken[1])
    <3>1. SyncedField(d) = left
      BY <1>4, <2>9 DEF SyncedField, leave, left, copied, copy
    <3> QED
      BY <2>6, <2>7, <3>1
  <2>10. CASE d.drawn /\ ~d.element.submitted /\ ~taken[1]
    <3>1. SyncedField(d) = kept
      BY <1>4, <2>10 DEF SyncedField, copied, copy
    <3>2. /\ taken[2] \in ElementType /\ taken[2].value = d.element.value /\ Calm(taken[2])
          /\ taken[2].pending # "no" => ~taken[2].focus
          /\ Watched(d.element) => Watched(taken[2]) \/ (d.element.pending # "no" /\ d.element.focus)
      BY <1>1, <2>10, TakeBlurredFacts DEF Heeded
    <3> HIDE DEF taken
    <3>3. /\ kept \in FieldDraw /\ kept.focused = f /\ kept.element = taken[2]
          /\ kept.buffers = copied /\ kept.returned = d.returned
      BY <1>1, <2>4, <3>2 DEF FieldDraw
    <3> HIDE DEF kept
    <3>4. Heeded(f, taken[2], d.returned, FALSE)
      BY <1>1, <1>4, <3>2 DEF Heeded
    <3>5. Shows(copied[f], taken[2])
      BY <2>4, <3>2 DEF Shows
    <3> QED
      BY <3>1, <3>3, <3>4, <3>5
  <2> QED
    BY <2>8, <2>9, <2>10
<1> QED
  BY <1>2, <1>4

LEMMA DrawnFieldsFacts ==
  ASSUME page.fields \in Seq(Field), NEW tap, NEW d0, Drawing(d0)
  PROVE  Drawing(DrawnFields(tap, d0))
<1> DEFINE q == page.fields
           m == Len(q)
           D == {d \in FieldDraw : Drawing(d)}
           F == [i \in 1 .. m |-> [d \in D |-> DrawnField(tap, d, q[i])]]
           Grows(f) == f = [i \in 0 .. m |-> IF i = 0 THEN d0 ELSE DrawnField(tap, f[i - 1], q[i])]
<1>1. m \in Nat /\ \A i \in 1 .. m : q[i] \in Field
  OBVIOUS
<1>2. d0 \in D
  BY DEF Drawing
<1>3. \A d \in D, i \in 1 .. m : DrawnField(tap, d, q[i]) \in D
  <2> TAKE d \in D, i \in 1 .. m
  <2>1. Drawing(d) /\ q[i] \in Field
    BY <1>1
  <2> HIDE DEF q
  <2>2. Drawing(DrawnField(tap, d, q[i]))
    BY <2>1, DrawnFieldFacts
  <2> QED
    BY <2>2 DEF Drawing
<1>4. \A d \in D : Drawing(d)
  OBVIOUS
<1> HIDE DEF D, m, q
<1>5. F \in [1 .. m -> [D -> D]]
  BY <1>3
<1>6. \A d \in D, i \in 1 .. m : F[i][d] = DrawnField(tap, d, q[i])
  <2> TAKE d \in D, i \in 1 .. m
  <2>1. F[i] = [s \in D |-> DrawnField(tap, s, q[i])]
    OBVIOUS
  <2> HIDE DEF F
  <2> QED
    BY <2>1
<1> HIDE DEF F
<1>7. PICK f : Iterates(f, m, D, d0, F)
  <2>1. CanIterate(m, D, d0, F)
    BY <1>1, <1>2, <1>5 DEF CanIterate
  <2> QED
    BY <2>1, Iterated
<1>8. f \in [0 .. m -> D] /\ f[0] = d0 /\ \A i \in 1 .. m : f[i] = F[i][f[i - 1]]
  BY <1>7 DEF Iterates
<1>9. \A n \in 0 .. m : f[n] = IF n = 0 THEN d0 ELSE DrawnField(tap, f[n - 1], q[n])
  <2> TAKE n \in 0 .. m
  <2>1. CASE n = 0
    BY <1>8, <2>1
  <2>2. CASE n # 0
    <3>1. n \in 1 .. m /\ n - 1 \in 0 .. m
      BY <1>1, <2>2
    <3> QED
      BY <1>6, <1>8, <2>2, <3>1
  <2> QED
    BY <2>1, <2>2
<1>10. Grows(f)
  <2>1. f = [n \in 0 .. m |-> f[n]]
    BY <1>8
  <2> QED
    BY <1>9, <2>1
<1> DEFINE g == CHOOSE h : Grows(h)
<1>11. Grows(g)
  BY <1>10
<1>12. DrawnFields(tap, d0) = g[m]
  BY DEF DrawnFields, q, m
<1> HIDE DEF g
<1>13. g[0] = d0 /\ \A n \in 1 .. m : g[n] = DrawnField(tap, g[n - 1], q[n])
  BY <1>1, <1>11
<1> DEFINE Good == {n \in 0 .. m : g[n] \in D}
<1>14. 0 \in Good
  BY <1>1, <1>2, <1>13
<1>15. ASSUME NEW n \in 0 .. m - 1, n \in Good PROVE n + 1 \in Good
  <2>1. n + 1 \in 1 .. m /\ (n + 1) - 1 = n /\ n + 1 \in 0 .. m
    BY <1>1
  <2>2. g[n + 1] = DrawnField(tap, g[n], q[n + 1]) /\ g[n] \in D
    BY <1>13, <1>15, <2>1
  <2> QED
    BY <1>3, <2>1, <2>2
<1>16. m \in Good
  <2> HIDE DEF Good
  <2>1. \A n \in 0 .. m : n \in Good
    BY <1>1, <1>14, <1>15, Induction
  <2> QED
    BY <1>1, <2>1
<1> QED
  BY <1>4, <1>12, <1>16

-----------------------------------------------------------------------------
LEMMA FieldStart == FieldInit => FieldInv
<1> SUFFICES ASSUME FieldInit PROVE FieldInv
  OBVIOUS
<1> USE DEF FieldInit
<1>1. NoText \in Content
  BY BrowserFieldAssumption
<1>2. element \in ElementType /\ buffers \in [Field -> BufferType]
  BY <1>1 DEF ElementType, BufferType
<1> QED
  BY <1>2 DEF FieldInv, FieldTypeOK, Heeded, Calm, Idle

LEMMA ShownStays ==
  ASSUME FieldInv, NEW e \in ElementType, e.value = element.value,
         focused # Unfocused, ~typed
  PROVE  Shows(buffers[focused], e)
  BY DEF FieldInv, Shows

\* What the user and the window do to the element.
ElementStep ==
  /\ element' \in ElementType /\ (typed' \/ element'.value = element.value)
  /\ Heeded(focused, element', returned', lostEvent')
  /\ UNCHANGED <<focused, buffers, activating, page>>
  /\ typed' \in BOOLEAN /\ returned' \in BOOLEAN /\ lostEvent' \in BOOLEAN
  /\ typed => typed'

LEMMA UserStep ==
  ASSUME FieldInv,
         \/ \E v \in Content : UserTypes(v)
         \/ UserPressesEnter \/ UserLeaves \/ UserReturns \/ WindowLeft \/ BlurAges
  PROVE  FieldInv'
<1>1. element \in ElementType /\ FieldTypeOK /\ Heeded(focused, element, returned, lostEvent)
  BY DEF FieldInv, FieldTypeOK
<1>2. ASSUME ElementStep PROVE FieldInv'
  <2>1. FieldTypeOK'
    BY <1>1, <1>2 DEF ElementStep, FieldTypeOK
  <2>2. focused' # Unfocused /\ ~typed' => Shows(buffers[focused], element')
    BY <1>2, ShownStays DEF ElementStep, FieldTypeOK
  <2> QED
    BY <1>2, <2>1, <2>2 DEF ElementStep, FieldInv, Heeded, Calm, Idle, Watched, Shows, View
<1>3. ASSUME NEW v \in Content, UserTypes(v) PROVE ElementStep
  BY <1>1, <1>3 DEF ElementStep, UserTypes, ElementType, FieldTypeOK, Heeded, Calm, Idle, Watched
<1>4. ASSUME UserPressesEnter PROVE ElementStep
  <2>1. /\ Enter(element) \in ElementType /\ Enter(element).value = element.value
        /\ Calm(Enter(element)) /\ Idle(Enter(element)) /\ Watched(Enter(element))
    BY <1>1, <1>4, EnterFacts DEF UserPressesEnter
  <2> QED
    BY <1>1, <1>4, <2>1 DEF ElementStep, UserPressesEnter, FieldTypeOK, Heeded, Idle
<1>5. ASSUME UserLeaves PROVE ElementStep
  <2> DEFINE e == Blurred(element)
  <2>1. /\ e \in ElementType /\ e.value = element.value /\ ~e.focus
        /\ e.submitted = element.submitted /\ ~e.closing /\ ~e.active
        /\ e.pending = IF element.closing THEN "no"
                       ELSE IF element.active THEN "young" ELSE element.pending
    BY <1>1, <1>5, BlurredFacts DEF UserLeaves
  <2>2. element.focus /\ element' = e
    BY <1>5 DEF UserLeaves
  <2> HIDE DEF e
  <2>3. Heeded(focused, e, returned, lostEvent)
    BY <1>1, <2>1, <2>2 DEF Heeded, Calm, Idle, Watched
  <2> QED
    BY <1>1, <1>5, <2>1, <2>2, <2>3 DEF ElementStep, UserLeaves, FieldTypeOK
<1>6. ASSUME UserReturns PROVE ElementStep
  BY <1>1, <1>6 DEF ElementStep, UserReturns, ElementType, FieldTypeOK, Heeded, Calm, Idle, Watched
<1>7. ASSUME WindowLeft PROVE ElementStep
  <2> DEFINE e == BlurHeard(element)
  <2>1. /\ e \in ElementType /\ e.value = element.value /\ e.focus = element.focus
        /\ e.submitted = element.submitted /\ ~e.closing /\ ~e.active
        /\ e.pending = IF element.closing THEN "no"
                       ELSE IF element.active THEN "young" ELSE element.pending
    BY <1>1, BlurHeardFacts
  <2>2. element' = IF element.focus THEN e ELSE element
    BY <1>7 DEF WindowLeft
  <2> HIDE DEF e
  <2>3. element' \in ElementType /\ element'.value = element.value
    BY <1>1, <2>1, <2>2
  <2>4. Heeded(focused, element', returned, TRUE)
    BY <1>1, <2>1, <2>2 DEF Heeded, Calm, Idle, Watched
  <2> QED
    BY <1>1, <1>7, <2>3, <2>4 DEF ElementStep, WindowLeft, FieldTypeOK
<1>8. ASSUME BlurAges PROVE ElementStep
  BY <1>1, <1>8 DEF ElementStep, BlurAges, ElementType, FieldTypeOK, Heeded, Calm, Idle, Watched
<1> QED
  BY <1>2, <1>3, <1>4, <1>5, <1>6, <1>7, <1>8

LEMMA FocusLostStep == FieldInv /\ FocusLostEvent => FieldInv'
<1> SUFFICES ASSUME FieldInv, FocusLostEvent PROVE FieldInv'
  OBVIOUS
<1>1. element \in ElementType /\ FieldTypeOK /\ Heeded(focused, element, returned, lostEvent)
  BY DEF FieldInv, FieldTypeOK
<1>2. /\ lostEvent' = FALSE /\ UNCHANGED <<buffers, activating, page, typed, returned>>
      /\ IF focused = Unfocused THEN UNCHANGED <<focused, element>>
         ELSE focused' = Unfocused /\ element' = WebDeactivate(element)
  BY DEF FocusLostEvent
<1>3. focused' = Unfocused
  BY <1>2
<1>4. element' \in ElementType /\ Calm(element') /\ Idle(element')
  <2>1. CASE focused = Unfocused
    BY <1>1, <1>2, <2>1 DEF Heeded
  <2>2. CASE focused # Unfocused
    BY <1>1, <1>2, <2>2, WebDeactivateFacts
  <2> QED
    BY <2>1, <2>2
<1>5. FieldTypeOK'
  BY <1>1, <1>2, <1>3, <1>4 DEF FieldTypeOK
<1>6. Heeded(focused', element', returned', lostEvent')
  BY <1>3, <1>4 DEF Heeded, Idle
<1> QED
  BY <1>3, <1>5, <1>6 DEF FieldInv, Heeded, Calm, Idle, Watched

LEMMA GoToPageStep ==
  ASSUME FieldInv, NEW p \in Page, GoToPage(p) PROVE FieldInv'
<1>1. element \in ElementType /\ FieldTypeOK /\ Heeded(focused, element, returned, lostEvent)
  BY DEF FieldInv, FieldTypeOK
<1>2. page' = p /\ UNCHANGED <<focused, element, lostEvent, typed, returned>>
  BY DEF GoToPage
<1>3. p.fields[1] \in Field
  BY BrowserFieldAssumption
<1>4. /\ buffers' \in [Field -> BufferType] /\ activating' \in BOOLEAN
      /\ \A f \in Field : Shows(buffers[f], element) => Shows(buffers'[f], element)
  <2>1. CASE p.fresh
    <3> DEFINE f == p.fields[1]
    <3> HIDE DEF f
    <3>1. buffers' = [buffers EXCEPT ![f] = Cleared(@)] /\ activating' = TRUE
      BY <2>1 DEF GoToPage, f
    <3>2. f \in Field /\ buffers \in [Field -> BufferType]
      BY <1>1, <1>3 DEF f, FieldTypeOK
    <3>3. buffers' \in [Field -> BufferType] /\ buffers'[f] = Cleared(buffers[f])
          /\ \A g \in Field \ {f} : buffers'[g] = buffers[g]
      BY <3>1, <3>2, BuffersCleared
    <3>4. Shows(buffers[f], element) => Shows(buffers'[f], element)
      BY <1>1, <3>2, <3>3, ClearedFacts
    <3> QED
      BY <3>1, <3>3, <3>4
  <2>2. CASE ~p.fresh
    BY <1>1, <2>2 DEF GoToPage, FieldTypeOK
  <2> QED
    BY <2>1, <2>2
<1>5. FieldTypeOK'
  BY <1>1, <1>2, <1>4 DEF FieldTypeOK
<1>6. focused' # Unfocused /\ ~typed' => Shows(buffers'[focused'], element')
  BY <1>1, <1>2, <1>4 DEF FieldInv, FieldTypeOK
<1>7. Heeded(focused', element', returned', lostEvent')
  BY <1>1, <1>2
<1> QED
  BY <1>5, <1>6, <1>7 DEF FieldInv, Heeded, Calm, Idle, Watched, Shows, View

LEMMA FieldFrameStep ==
  ASSUME FieldInv, NEW tap, FieldFrame(tap) PROVE FieldInv'
<1>1. FieldTypeOK /\ Heeded(focused, element, returned, FALSE)
  <2>1. ~lostEvent
    BY DEF FieldFrame
  <2>2. FieldTypeOK /\ Heeded(focused, element, returned, lostEvent)
    BY DEF FieldInv
  <2>3. lostEvent = FALSE
    BY <2>1, <2>2 DEF FieldTypeOK
  <2> QED
    BY <2>2, <2>3
<1> DEFINE d0 == [focused |-> focused, activating |-> activating, element |-> element,
                  buffers |-> buffers, drawn |-> FALSE, returned |-> returned]
           d == DrawnFields(tap, d0)
           s == SyncedField(d)
<1>2. /\ focused' = s.focused /\ activating' = s.activating /\ element' = s.element
      /\ buffers' = s.buffers /\ returned' = s.returned
      /\ typed' = FALSE /\ UNCHANGED <<page, lostEvent>>
  BY DEF FieldFrame
<1>3. Drawing(d0)
  BY <1>1 DEF Drawing, FieldDraw, FieldTypeOK
<1> HIDE DEF d0
<1>4. page.fields \in Seq(Field)
  BY <1>1, BrowserFieldAssumption DEF FieldTypeOK
<1>5. Drawing(d)
  BY <1>3, <1>4, DrawnFieldsFacts
<1> HIDE DEF d
<1>6. /\ s \in FieldDraw /\ Heeded(s.focused, s.element, s.returned, FALSE)
      /\ s.focused # Unfocused => Shows(s.buffers[s.focused], s.element)
  BY <1>5, SyncedFieldFacts
<1> HIDE DEF s
<1>7. FieldTypeOK'
  BY <1>1, <1>2, <1>6 DEF FieldDraw, FieldTypeOK
<1>8. Heeded(focused', element', returned', lostEvent')
  BY <1>2, <1>6 DEF Heeded
<1>9. focused' # Unfocused /\ ~typed' => Shows(buffers'[focused'], element')
  BY <1>2, <1>6
<1> QED
  BY <1>7, <1>8, <1>9 DEF FieldInv, Heeded, Calm, Idle, Watched, Shows, View

LEMMA FieldStep == FieldInv /\ [FieldNext]_fieldVars => FieldInv'
<1> SUFFICES ASSUME FieldInv, [FieldNext]_fieldVars PROVE FieldInv'
  OBVIOUS
<1>1. CASE \/ \E v \in Content : UserTypes(v)
           \/ UserPressesEnter \/ UserLeaves \/ UserReturns \/ WindowLeft \/ BlurAges
  BY <1>1, UserStep
<1>2. CASE FocusLostEvent
  BY <1>2, FocusLostStep
<1>3. CASE \E p \in Page : GoToPage(p)
  BY <1>3, GoToPageStep
<1>4. CASE \E tap \in FieldTaps : FieldFrame(tap)
  BY <1>4, FieldFrameStep
<1>5. CASE UNCHANGED fieldVars
  BY <1>5 DEF fieldVars, FieldInv, FieldTypeOK, Heeded, Calm, Idle, Watched, Shows, View
<1> QED
  BY <1>1, <1>2, <1>3, <1>4, <1>5 DEF FieldNext

\* What the app knows of the browser's element: a blur of its own leaves no
\* notice, an unfocused app asks nothing, and a focused field is watched or told.
THEOREM FieldInvariant == FieldSpec => []FieldInv
<1>1. FieldInit => FieldInv
  BY FieldStart
<1>2. FieldInv /\ [FieldNext]_fieldVars => FieldInv'
  BY FieldStep
<1> QED
  BY <1>1, <1>2, PTL DEF FieldSpec

\* A focused field is never forgotten by the browser, and the element shows
\* after a frame what the field holds (mobile_text_input_sync), for any pages,
\* fields and texts.
THEOREM ElementStaysInStep == FieldSpec => []ElementInStep
<1>1. FieldInv => ElementInStep
  BY DEF FieldInv, Heeded, Watched, Shows, ElementInStep
<1> QED
  BY <1>1, FieldInvariant, PTL

-----------------------------------------------------------------------------
(* Characters of a text, and the editor's places between them. *)

\* Between whole characters: a character leads after k, or nothing follows.
LEMMA WholeLeads ==
  ASSUME NEW s \in Seq(Nat), Whole(s), NEW k \in 0 .. Len(s), OnCharacter(s, k), k < Len(s)
  PROVE  IsLead(s[k + 1])
<1>1. CASE k = 0
  <2>1. 1 \in DOMAIN s /\ ~\E j \in 1 .. 1 - 1 : TRUE
    BY <1>1
  <2> QED
    BY <1>1, <2>1 DEF Whole
<1>2. CASE k # 0
  BY <1>2 DEF OnCharacter
<1> QED
  BY <1>1, <1>2

\* The bytes of s up to k, after k, and of two texts one after the other.
IsPart(p, s, from, k) ==
  /\ p \in Seq(Nat) /\ Len(p) = k - from
  /\ \A i \in 1 .. k - from : p[i] = s[i + from]

LEMMA PartFacts ==
  ASSUME NEW s \in Seq(Nat), NEW k \in 0 .. Len(s)
  PROVE  IsPart(SubSeq(s, 1, k), s, 0, k) /\ IsPart(SubSeq(s, k + 1, Len(s)), s, k, Len(s))
<1>1. SubSeq(s, 1, k) \in Seq(Nat) /\ SubSeq(s, k + 1, Len(s)) \in Seq(Nat)
  BY SubSeqProperties
<1>2. Len(SubSeq(s, 1, k)) = k /\ \A i \in 1 .. k : SubSeq(s, 1, k)[i] = s[i]
  BY SubSeqProperties
<1>3. /\ Len(SubSeq(s, k + 1, Len(s))) = Len(s) - k
      /\ \A i \in 1 .. Len(s) - k : SubSeq(s, k + 1, Len(s))[i] = s[i + k]
  BY SubSeqProperties
<1> QED
  BY <1>1, <1>2, <1>3 DEF IsPart

LEMMA WholePrefix ==
  ASSUME NEW s \in Seq(Nat), Whole(s), NEW k \in 0 .. Len(s), OnCharacter(s, k),
         NEW p, IsPart(p, s, 0, k)
  PROVE  Whole(p)
<1>0. k \in Nat /\ Len(s) \in Nat /\ DOMAIN s = 1 .. Len(s)
  BY LenProperties
<1>1. p \in Seq(Nat) /\ Len(p) = k /\ DOMAIN p = 1 .. k /\ \A i \in 1 .. k : p[i] = s[i]
  BY DEF IsPart
<1>a. \A i \in 1 .. k : i \in DOMAIN s
  BY <1>0
<1>2. k < Len(s) => IsLead(s[k + 1])
  BY WholeLeads
<1>3. ASSUME NEW i \in 1 .. k, IsLead(p[i])
      PROVE  i + p[i] - 1 <= Len(p) /\ \A j \in i + 1 .. i + p[i] - 1 : p[j] = 0
  <2>1. i \in DOMAIN s /\ p[i] = s[i] /\ s[i] \in Nat /\ Len(s) \in Nat /\ k \in Nat
    BY <1>1
  <2>2. i + s[i] - 1 <= Len(s) /\ \A j \in i + 1 .. i + s[i] - 1 : s[j] = 0
    BY <1>3, <2>1 DEF Whole
  <2>3. i + s[i] - 1 <= k
    <3>1. SUFFICES ASSUME i + s[i] - 1 > k PROVE FALSE
      BY <2>1
    <3>2. k < Len(s) /\ k + 1 \in i + 1 .. i + s[i] - 1
      BY <2>1, <2>2, <3>1
    <3> QED
      BY <1>2, <2>2, <3>2 DEF IsLead
  <2>4. ASSUME NEW j \in i + 1 .. i + s[i] - 1 PROVE p[j] = 0
    <3>1. j \in 1 .. k
      BY <2>1, <2>3
    <3>2. s[j] = 0
      BY <2>2
    <3> QED
      BY <1>1, <3>1, <3>2
  <2> QED
    BY <1>1, <2>1, <2>3, <2>4
<1>4. ASSUME NEW i \in 1 .. k, ~IsLead(p[i])
      PROVE  \E j \in 1 .. i - 1 : IsLead(p[j]) /\ j + p[j] > i
  <2>1. i \in DOMAIN s /\ p[i] = s[i]
    BY <1>1, <1>a
  <2>2. PICK j \in 1 .. i - 1 : IsLead(s[j]) /\ j + s[j] > i
    BY <1>4, <2>1 DEF Whole
  <2>3. j \in 1 .. k
    OBVIOUS
  <2> QED
    BY <1>1, <2>2, <2>3
<1> QED
  BY <1>1, <1>3, <1>4 DEF Whole

LEMMA BytesAfter ==
  ASSUME NEW n \in Nat, NEW k \in Nat, NEW i \in 1 .. n, NEW l \in Nat, i + l - 1 <= n,
         NEW j \in i + 1 .. i + l - 1
  PROVE  j \in 1 .. n /\ j + k \in (i + k) + 1 .. (i + k) + l - 1
OBVIOUS

LEMMA WholeSuffix ==
  ASSUME NEW s \in Seq(Nat), Whole(s), NEW k \in 0 .. Len(s), OnCharacter(s, k),
         NEW q, IsPart(q, s, k, Len(s))
  PROVE  Whole(q)
<1> DEFINE n == Len(s) - k
<1>0. Len(s) \in Nat /\ k \in Nat /\ n \in Nat /\ DOMAIN s = 1 .. n + k /\ Len(s) = n + k
  OBVIOUS
<1>a. q \in Seq(Nat) /\ Len(q) = n /\ \A i \in 1 .. n : q[i] = s[i + k]
  BY DEF IsPart
<1>2. k < Len(s) => IsLead(s[k + 1])
  BY WholeLeads
<1> HIDE DEF n
<1>1. q \in Seq(Nat) /\ Len(q) = n /\ DOMAIN q = 1 .. n /\ \A i \in 1 .. n : q[i] = s[i + k]
  BY <1>a, LenProperties
<1>3. ASSUME NEW i \in 1 .. n, IsLead(q[i])
      PROVE  i + q[i] - 1 <= Len(q) /\ \A j \in i + 1 .. i + q[i] - 1 : q[j] = 0
  <2>1. i + k \in DOMAIN s /\ q[i] = s[i + k] /\ s[i + k] \in Nat
    BY <1>0, <1>1
  <2>2. (i + k) + s[i + k] - 1 <= n + k /\ \A j \in (i + k) + 1 .. (i + k) + s[i + k] - 1 : s[j] = 0
    BY <1>0, <1>3, <2>1 DEF Whole
  <2>3. i + q[i] - 1 <= n
    BY <1>0, <2>1, <2>2
  <2>4. ASSUME NEW j \in i + 1 .. i + q[i] - 1 PROVE q[j] = 0
    <3> DEFINE l == q[i]
    <3>a. l \in Nat /\ i + l - 1 <= n /\ l = s[i + k] /\ j \in i + 1 .. i + l - 1
      BY <2>1, <2>3
    <3> HIDE DEF l
    <3>b. j \in 1 .. n /\ j + k \in (i + k) + 1 .. (i + k) + l - 1
      BY <1>0, <3>a, BytesAfter
    <3>1. j \in 1 .. n /\ j + k \in (i + k) + 1 .. (i + k) + s[i + k] - 1
      BY <3>a, <3>b
    <3> QED
      BY <1>1, <2>2, <3>1
  <2> QED
    BY <1>1, <2>3, <2>4
<1>4. ASSUME NEW i \in 1 .. n, ~IsLead(q[i])
      PROVE  \E j \in 1 .. i - 1 : IsLead(q[j]) /\ j + q[j] > i
  <2>1. i + k \in DOMAIN s /\ q[i] = s[i + k] /\ k < Len(s)
    BY <1>0, <1>1
  <2>2. PICK j \in 1 .. i + k - 1 : IsLead(s[j]) /\ j + s[j] > i + k
    BY <1>4, <2>1 DEF Whole
  <2>3. j \in DOMAIN s /\ s[j] \in Nat
    BY <1>0
  <2>4. j > k
    <3>1. SUFFICES ASSUME j <= k PROVE FALSE
      BY <1>0
    <3>2. k + 1 \in j + 1 .. j + s[j] - 1
      <4> DEFINE w == s[j]
      <4>1. w \in Nat /\ j \in Nat /\ i \in Nat /\ i >= 1 /\ j + w > i + k
        BY <2>2, <2>3
      <4> HIDE DEF w
      <4>2. k + 1 \in j + 1 .. j + w - 1
        BY <1>0, <3>1, <4>1
      <4> QED
        BY <4>2 DEF w
    <3> QED
      BY <1>2, <2>1, <2>2, <2>3, <3>2 DEF IsLead, Whole
  <2>5. j - k \in 1 .. i - 1 /\ j - k \in 1 .. n /\ (j - k) + k = j
    BY <1>0, <2>4
  <2>6. q[j - k] = s[j]
    BY <1>1, <2>5
  <2>7. (j - k) + s[j] > i
    BY <1>0, <2>2, <2>3
  <2> QED
    BY <2>2, <2>5, <2>6, <2>7
<1> QED
  BY <1>1, <1>3, <1>4 DEF Whole

CharacterAt(s, n, i) ==
  IF IsLead(s[i])
  THEN i + s[i] - 1 <= n /\ \A j \in i + 1 .. i + s[i] - 1 : s[j] = 0
  ELSE \E j \in 1 .. i - 1 : IsLead(s[j]) /\ j + s[j] > i

LEMMA WholeJoin ==
  ASSUME NEW p \in Seq(Nat), NEW q \in Seq(Nat), Whole(p), Whole(q)
  PROVE  Whole(p \o q)
<1> DEFINE m == Len(p)
           n == Len(q)
           s == p \o q
<1>1. m \in Nat /\ n \in Nat /\ s \in Seq(Nat) /\ Len(s) = m + n
  OBVIOUS
<1>2. /\ DOMAIN s = 1 .. m + n /\ DOMAIN p = 1 .. m /\ DOMAIN q = 1 .. n
      /\ \A i \in 1 .. m : s[i] = p[i]
      /\ \A i \in 1 .. n : s[i + m] = q[i]
  OBVIOUS
<1> HIDE DEF m, n, s
<1>3. ASSUME NEW i \in 1 .. m PROVE CharacterAt(s, m + n, i)
  <2>1. s[i] = p[i] /\ p[i] \in Nat /\ Len(p) = m
    BY <1>2 DEF m
  <2>2. CASE IsLead(p[i])
    <3>1. i + p[i] - 1 <= m /\ \A j \in i + 1 .. i + p[i] - 1 : p[j] = 0
      BY <1>2, <2>1, <2>2 DEF Whole
    <3>2. \A j \in i + 1 .. i + p[i] - 1 : j \in 1 .. m
      BY <1>1, <2>1, <3>1
    <3> QED
      BY <1>1, <1>2, <2>1, <2>2, <3>1, <3>2 DEF CharacterAt
  <2>3. CASE ~IsLead(p[i])
    <3>1. PICK j \in 1 .. i - 1 : IsLead(p[j]) /\ j + p[j] > i
      BY <1>2, <2>3 DEF Whole
    <3>2. s[j] = p[j]
      BY <1>1, <1>2
    <3> QED
      BY <2>1, <2>3, <3>1, <3>2 DEF CharacterAt
  <2> QED
    BY <2>2, <2>3
<1>4. ASSUME NEW i \in 1 .. n PROVE CharacterAt(s, m + n, i + m)
  <2>1. s[i + m] = q[i] /\ q[i] \in Nat /\ Len(q) = n
    BY <1>2 DEF n
  <2>2. CASE IsLead(q[i])
    <3>1. i + q[i] - 1 <= n /\ \A j \in i + 1 .. i + q[i] - 1 : q[j] = 0
      BY <1>2, <2>1, <2>2 DEF Whole
    <3>2. ASSUME NEW j \in (i + m) + 1 .. (i + m) + q[i] - 1 PROVE s[j] = 0
      <4> DEFINE w == q[i]
      <4>1. w \in Nat /\ i + w - 1 <= n /\ j \in (i + m) + 1 .. (i + m) + w - 1
        BY <2>1, <3>1
      <4> HIDE DEF w
      <4>2. j - m \in i + 1 .. i + w - 1 /\ j - m \in 1 .. n /\ (j - m) + m = j
        BY <1>1, <4>1
      <4>3. s[j] = q[j - m]
        BY <1>2, <4>2
      <4> QED
        BY <3>1, <4>2, <4>3 DEF w
    <3>3. (i + m) + q[i] - 1 <= m + n
      BY <1>1, <2>1, <3>1
    <3> QED
      BY <2>1, <2>2, <3>2, <3>3 DEF CharacterAt
  <2>3. CASE ~IsLead(q[i])
    <3>1. PICK j \in 1 .. i - 1 : IsLead(q[j]) /\ j + q[j] > i
      BY <1>2, <2>3 DEF Whole
    <3>2. s[j + m] = q[j] /\ j + m \in 1 .. (i + m) - 1 /\ q[j] \in Nat
      BY <1>1, <1>2
    <3> DEFINE l == q[j]
    <3>a. j + l > i /\ l \in Nat
      BY <3>1, <3>2
    <3> HIDE DEF l
    <3>b. (j + m) + l > i + m
      BY <1>1, <3>a
    <3>3. (j + m) + q[j] > i + m
      BY <3>b DEF l
    <3> QED
      BY <2>1, <2>3, <3>1, <3>2, <3>3 DEF CharacterAt
  <2> QED
    BY <2>2, <2>3
<1>5. ASSUME NEW i \in 1 .. m + n PROVE i \in 1 .. m \/ \E k \in 1 .. n : i = k + m
  <2>1. CASE i <= m
    BY <1>1, <2>1
  <2>2. CASE i > m
    <3>1. i - m \in 1 .. n /\ i = (i - m) + m
      BY <1>1, <2>2
    <3> QED
      BY <3>1
  <2> QED
    BY <1>1, <2>1, <2>2
<1>6. Whole(s)
  <2>1. \A i \in 1 .. m + n : CharacterAt(s, m + n, i)
    BY <1>3, <1>4, <1>5
  <2> QED
    BY <1>1, <1>2, <2>1 DEF Whole, CharacterAt
<1> QED
  BY <1>6 DEF s

LEMMA LeastOf ==
  ASSUME NEW T, T \subseteq Nat, T # {}
  PROVE  Min(T) \in T /\ \A s \in T : Min(T) <= s
<1>1. PICK r \in T : \A s \in T : <<s, r>> \notin OpToRel(<, Nat)
  BY NatLessThanWellFounded, WFMin
<1>2. \A x, y \in Nat : y < x => <<y, x>> \in OpToRel(<, Nat)
  BY DEF OpToRel
<1>3. \A s \in T : r <= s
  <2> TAKE s \in T
  <2>1. r \in Nat /\ s \in Nat /\ ~(s < r)
    BY <1>1, <1>2
  <2> QED
    BY <2>1
<1> QED
  BY <1>3 DEF Min

LEMMA GreatestIn ==
  ASSUME NEW n \in Nat, NEW S, S \subseteq 0 .. n, S # {}
  PROVE  Max(S) \in S /\ \A i \in S : i <= Max(S)
<1> DEFINE T == {n - i : i \in S}
<1>1. T \subseteq Nat /\ T # {}
  <2>1. \A i \in 0 .. n : n - i \in Nat
    OBVIOUS
  <2>2. \A i \in S : n - i \in Nat
    BY <2>1
  <2> QED
    BY <2>2
<1>2. \A i \in S : n - i \in T
  OBVIOUS
<1>3. Min(T) \in T
  <2> HIDE DEF T
  <2> QED
    BY <1>1, LeastOf
<1>4. PICK m \in S : Min(T) = n - m
  BY <1>3
<1>5. \A t \in T : Min(T) <= t
  <2> HIDE DEF T
  <2> QED
    BY <1>1, LeastOf
<1> HIDE DEF T
<1>6. \A i \in S : m >= i
  <2> TAKE i \in S
  <2>1. m \in Int /\ i \in Int /\ n - m <= n - i
    BY <1>2, <1>4, <1>5
  <2> QED
    BY <2>1
<1>7. \E x \in S : \A y \in S : x >= y
  BY <1>6
<1>8. Max(S) \in S /\ \A y \in S : Max(S) >= y
  BY <1>7 DEF Max
<1>9. ASSUME NEW i \in S PROVE i <= Max(S)
  <2>1. \A x \in S : x \in Int
    OBVIOUS
  <2>2. i \in Int /\ Max(S) \in Int
    BY <1>8, <2>1, Zenon
  <2> QED
    BY <1>8, <2>2
<1> QED
  BY <1>8, <1>9

LEMMA BeforeFacts ==
  ASSUME NEW s \in Seq(Nat), NEW k \in 0 .. Len(s)
  PROVE  /\ Before(s, k) \in 0 .. k /\ (k # 0 => Before(s, k) < k)
         /\ OnCharacter(s, Before(s, k))
<1>0. Len(s) \in Nat /\ k \in Nat
  OBVIOUS
<1>1. CASE k = 0
  BY <1>1 DEF Before, OnCharacter
<1>2. CASE k # 0
  <2> DEFINE leads == {i \in 0 .. k - 1 : i = 0 \/ IsLead(s[i + 1])}
  <2>1. leads \subseteq 0 .. k - 1 /\ k - 1 \in Nat /\ leads # {}
    <3>1. k - 1 \in Nat /\ 0 \in 0 .. k - 1
      BY <1>2
    <3> QED
      BY <3>1
  <2>2. Before(s, k) = Max(leads)
    BY <1>2 DEF Before
  <2>3. Max(leads) \in leads
    <3> HIDE DEF leads
    <3> QED
      BY <2>1, GreatestIn
  <2>4. /\ Max(leads) \in 0 .. k - 1
        /\ Max(leads) = 0 \/ IsLead(s[Max(leads) + 1])
    BY <2>3
  <2> HIDE DEF leads
  <2>5. /\ Before(s, k) \in 0 .. k - 1
        /\ Before(s, k) = 0 \/ IsLead(s[Before(s, k) + 1])
    BY <2>2, <2>4
  <2>6. Before(s, k) \in 0 .. k /\ Before(s, k) < k /\ Before(s, k) < Len(s)
    BY <1>0, <2>5
  <2> QED
    BY <2>5, <2>6 DEF OnCharacter
<1> QED
  BY <1>1, <1>2

LEMMA AfterFacts ==
  ASSUME NEW s \in Seq(Nat), NEW k \in 0 .. Len(s), k < Len(s)
  PROVE  /\ After(s, k) \in Nat
         /\ Whole(s) /\ OnCharacter(s, k) => OnCharacter(s, Clamped(After(s, k), s))
<1>1. Len(s) \in Nat /\ k \in Nat /\ k + 1 \in DOMAIN s /\ s[k + 1] \in Nat
  OBVIOUS
<1>2. After(s, k) \in Nat
  BY <1>1 DEF After
<1>3. ASSUME Whole(s), OnCharacter(s, k) PROVE OnCharacter(s, Clamped(After(s, k), s))
  <2>1. IsLead(s[k + 1])
    BY <1>3, WholeLeads
  <2> DEFINE w == s[k + 1]
             a == k + w
  <2>2. After(s, k) = a
    BY <2>1 DEF After
  <2>3. (k + 1) + w - 1 <= Len(s) /\ \A j \in (k + 1) + 1 .. (k + 1) + w - 1 : s[j] = 0
    BY <1>1, <1>3, <2>1 DEF Whole
  <2>4. w \in Nat /\ w # 0
    BY <1>1, <2>1 DEF IsLead
  <2> HIDE DEF w
  <2>5. a <= Len(s) /\ a \in Nat /\ a > 0
    BY <1>1, <2>3, <2>4
  <2>6. Clamped(a, s) = a
    BY <1>1, <2>5 DEF Clamped
  <2>7. ASSUME a < Len(s) PROVE IsLead(s[a + 1])
    <3>1. SUFFICES ASSUME ~IsLead(s[a + 1]) PROVE FALSE
      OBVIOUS
    <3>2. a + 1 \in DOMAIN s
      BY <1>1, <2>5, <2>7
    <3>3. PICK j \in 1 .. (a + 1) - 1 : IsLead(s[j]) /\ j + s[j] > a + 1
      BY <1>3, <3>1, <3>2 DEF Whole
    <3>a. j \in Nat /\ 1 <= j /\ j <= a
      BY <2>5
    <3>b. j \in DOMAIN s
      BY <1>1, <2>5, <3>a
    <3>4. j \in DOMAIN s /\ s[j] \in Nat /\ j \in Nat /\ j <= a
      BY <3>a, <3>b
    <3>5. CASE j > k + 1
      <4>1. s[j] = 0
        BY <1>1, <2>3, <2>4, <3>4, <3>5
      <4> QED
        BY <3>3, <4>1 DEF IsLead
    <3>6. CASE j = k + 1
      <4>1. s[j] = w
        BY <3>6 DEF w
      <4> QED
        BY <1>1, <2>4, <3>3, <3>6, <4>1
    <3>7. CASE j < k + 1
      <4>1. \A i \in j + 1 .. j + s[j] - 1 : s[i] = 0
        BY <1>3, <3>3, <3>4 DEF Whole
      <4>2. k + 1 \in j + 1 .. j + s[j] - 1
        BY <1>1, <2>4, <3>3, <3>4, <3>7
      <4> QED
        BY <2>1, <4>1, <4>2 DEF IsLead
    <3> QED
      BY <1>1, <3>4, <3>5, <3>6, <3>7
  <2>8. OnCharacter(s, a)
    BY <1>1, <2>5, <2>7 DEF OnCharacter
  <2> QED
    BY <2>2, <2>6, <2>8
<1> QED
  BY <1>2, <1>3

\* A text that is followed by the rest of another, from between two characters.
LEMMA JoinFacts ==
  ASSUME NEW s \in Seq(Nat), NEW k \in 0 .. Len(s), NEW p \in Seq(Nat),
         NEW q, IsPart(q, s, k, Len(s))
  PROVE  /\ p \o q \in Seq(Nat) /\ Len(p \o q) = Len(p) + (Len(s) - k)
         /\ Whole(s) /\ Whole(p) /\ OnCharacter(s, k) =>
              Whole(p \o q) /\ OnCharacter(p \o q, Len(p))
<1> DEFINE m == Len(p)
           n == Len(s) - k
           t == p \o q
<1>1. m \in Nat /\ n \in Nat /\ q \in Seq(Nat) /\ Len(q) = n /\ Len(s) = n + k /\ k \in Nat
  BY DEF IsPart
<1>2. t \in Seq(Nat) /\ Len(t) = m + n /\ \A i \in 1 .. n : t[m + i] = q[i]
  <2>1. q \in Seq(Nat) /\ Len(q) = n
    BY <1>1
  <2> HIDE DEF n
  <2>2. /\ t \in Seq(Nat) /\ Len(t) = m + n
        /\ \A i \in 1 .. m + n : t[i] = IF i <= m THEN p[i] ELSE q[i - m]
    BY <2>1, ConcatProperties
  <2> HIDE DEF m, t
  <2>3. ASSUME NEW i \in 1 .. n PROVE t[m + i] = q[i]
    <3>1. m + i \in 1 .. m + n /\ ~(m + i <= m) /\ (m + i) - m = i
      BY <1>1
    <3> QED
      BY <2>2, <3>1
  <2> QED
    BY <2>2, <2>3
<1>3. \A i \in 1 .. n : q[i] = s[i + k]
  BY DEF IsPart
<1>4. ASSUME Whole(s), Whole(p), OnCharacter(s, k) PROVE Whole(t) /\ OnCharacter(t, m)
  <2>1. Whole(t)
    BY <1>1, <1>4, WholeSuffix, WholeJoin
  <2> HIDE DEF m, n, t
  <2>2. CASE n = 0
    BY <1>1, <1>2, <2>1, <2>2 DEF OnCharacter
  <2>3. CASE n # 0
    <3>1. 1 \in 1 .. n /\ k < Len(s) /\ m < Len(t)
      BY <1>1, <1>2, <2>3
    <3>2. IsLead(s[k + 1])
      BY <1>4, <3>1, WholeLeads
    <3>3. t[m + 1] = q[1] /\ q[1] = s[1 + k] /\ 1 + k = k + 1
      BY <1>1, <1>2, <1>3, <3>1
    <3>4. IsLead(t[m + 1])
      BY <3>2, <3>3
    <3> QED
      BY <1>1, <2>1, <3>1, <3>4 DEF OnCharacter
  <2> QED
    BY <2>2, <2>3
<1> QED
  BY <1>2, <1>4

LEMMA LineFacts ==
  ASSUME NEW u \in Seq(Nat)
  PROVE  /\ Line(u) \in Seq(Nat) /\ Len(Line(u)) <= Len(u)
         /\ Line(u) = SubSeq(u, 1, Len(Line(u)))
<1> DEFINE ends == {i \in DOMAIN u : u[i] = NewLine}
<1>1. ends \subseteq Nat /\ Len(u) \in Nat /\ \A i \in ends : i \in 1 .. Len(u)
  OBVIOUS
<1>2. CASE ends = {}
  <2>1. Line(u) = u
    BY <1>2 DEF Line
  <2> QED
    BY <1>1, <2>1, SubSeqProperties
<1>3. CASE ends # {}
  <2> DEFINE e == Min(ends)
  <2>1. Line(u) = SubSeq(u, 1, e - 1)
    BY <1>3 DEF Line
  <2>2. e \in ends
    <3> HIDE DEF ends
    <3> QED
      BY <1>1, <1>3, LeastOf
  <2>3. e \in 1 .. Len(u)
    BY <1>1, <2>2
  <2> HIDE DEF ends, e
  <2>4. e - 1 \in 0 .. Len(u)
    BY <1>1, <2>3
  <2>5. SubSeq(u, 1, e - 1) \in Seq(Nat) /\ Len(SubSeq(u, 1, e - 1)) = e - 1
    BY <1>1, <2>3, <2>4, SubSeqProperties
  <2> QED
    BY <1>1, <2>1, <2>3, <2>5
<1> QED
  BY <1>2, <1>3

\* The editor's text: bytes, and no more than there is room for.
IsText(s) == s \in Seq(Nat) /\ Len(s) < MaxSize

\* A buffer holds whole characters, and the cursor k is between two.
Standing(s, k) == Whole(s) /\ OnCharacter(s, Clamped(k, s))

LEMMA ClampedFacts ==
  ASSUME NEW s \in Seq(Nat), NEW k \in Nat
  PROVE  /\ Clamped(k, s) \in 0 .. Len(s) /\ Clamped(k, s) \in Nat
         /\ Clamped(Clamped(k, s), s) = Clamped(k, s)
         /\ k <= Len(s) => Clamped(k, s) = k
<1>1. Len(s) \in Nat
  OBVIOUS
<1> QED
  BY <1>1 DEF Clamped

LEMMA InsertionFacts ==
  ASSUME NEW s, IsText(s), NEW k \in Nat, NEW u \in Typed
  PROVE  LET i == Insertion(s, k, u)
         IN  /\ i.done \in BOOLEAN /\ i.cut \in BOOLEAN /\ i.cursor \in Nat
             /\ IsText(i.text)
             /\ ~i.done => i.text = s /\ Clamped(i.cursor, s) = Clamped(k, s)
             /\ ~i.cut /\ Standing(s, k) => Standing(i.text, i.cursor)
<1> DEFINE at == IF u # <<>> /\ k > Len(s) THEN Len(s) ELSE k
           full == Len(Line(u))
           room == Room(s)
           n == IF full > room THEN room ELSE full
           p == SubSeq(s, 1, at) \o SubSeq(u, 1, n)
           q == SubSeq(s, at + 1, Len(s))
<1>1. u \in Seq(Nat) /\ Whole(Line(u)) /\ MaxSize \in Nat
  BY InputAssumption
<1>2. s \in Seq(Nat) /\ Len(s) \in Nat /\ Len(s) < MaxSize
  BY DEF IsText
<1>3. Line(u) \in Seq(Nat) /\ full <= Len(u) /\ Line(u) = SubSeq(u, 1, full)
  BY <1>1, LineFacts
<1>4. full \in Nat /\ Len(u) \in Nat
  BY <1>1, <1>3
<1>5. room = MaxSize - 1 - Len(s) /\ room \in Nat
  BY <1>1, <1>2 DEF Room
<1>6. Insertion(s, k, u) =
        IF n <= 0 THEN [done |-> FALSE, text |-> s, cursor |-> at, cut |-> FALSE]
        ELSE [done |-> TRUE, cursor |-> at + n, cut |-> n < full,
              text |-> SubSeq(s, 1, at) \o SubSeq(u, 1, n) \o SubSeq(s, at + 1, Len(s))]
  BY DEF Insertion
<1> HIDE DEF full, room
<1>7. n \in 0 .. full /\ n <= room /\ n \in Nat
  BY <1>4, <1>5
<1>8. at \in Nat /\ Clamped(at, s) = Clamped(k, s)
  BY <1>2 DEF Clamped
<1>9. CASE n <= 0
  <2>1. Insertion(s, k, u) = [done |-> FALSE, text |-> s, cursor |-> at, cut |-> FALSE]
    BY <1>6, <1>9
  <2> HIDE DEF at, n
  <2> QED
    BY <1>8, <2>1 DEF Standing
<1>10. CASE ~(n <= 0)
  <2>1. u # <<>>
    <3>1. u = <<>> => Len(u) = 0
      OBVIOUS
    <3> QED
      BY <1>3, <1>4, <1>7, <1>10, <3>1
  <2>2. at = Clamped(k, s) /\ at \in 0 .. Len(s)
    BY <1>2, <2>1 DEF Clamped
  <2> HIDE DEF at, n
  <2>3. IsPart(SubSeq(s, 1, at), s, 0, at) /\ IsPart(q, s, at, Len(s))
    BY <1>2, <2>2, PartFacts
  <2>4. n \in 0 .. Len(u)
    BY <1>3, <1>4, <1>7
  <2>5. IsPart(SubSeq(u, 1, n), u, 0, n)
    BY <1>1, <2>4, PartFacts
  <2>6. /\ SubSeq(s, 1, at) \in Seq(Nat) /\ Len(SubSeq(s, 1, at)) = at
        /\ SubSeq(u, 1, n) \in Seq(Nat) /\ Len(SubSeq(u, 1, n)) = n
    BY <1>7, <1>8, <2>3, <2>5 DEF IsPart
  <2>7. p \in Seq(Nat) /\ Len(p) = at + n
    BY <2>6, ConcatProperties
  <2>8. Whole(s) /\ OnCharacter(s, at) /\ n = full => Whole(p)
    <3>1. SUFFICES ASSUME Whole(s), OnCharacter(s, at), n = full PROVE Whole(p)
      OBVIOUS
    <3>2. Whole(SubSeq(s, 1, at))
      BY <1>2, <2>2, <2>3, <3>1, WholePrefix
    <3>3. Whole(SubSeq(u, 1, n))
      BY <1>1, <1>3, <3>1
    <3> QED
      BY <2>6, <3>2, <3>3, WholeJoin
  <2> DEFINE t == p \o q
  <2>9. Insertion(s, k, u) = [done |-> TRUE, cursor |-> at + n, cut |-> n < full, text |-> t]
    BY <1>6, <1>10
  <2> HIDE DEF p, q
  <2>10. /\ t \in Seq(Nat) /\ Len(t) = at + n + (Len(s) - at)
         /\ Whole(s) /\ Whole(p) /\ OnCharacter(s, at) => Whole(t) /\ OnCharacter(t, at + n)
    <3>1. /\ p \o q \in Seq(Nat) /\ Len(p \o q) = Len(p) + (Len(s) - at)
          /\ Whole(s) /\ Whole(p) /\ OnCharacter(s, at) =>
               Whole(p \o q) /\ OnCharacter(p \o q, Len(p))
      BY <1>2, <2>2, <2>3, <2>7, JoinFacts
    <3> QED
      BY <2>7, <3>1
  <2> HIDE DEF t
  <2>11. Len(t) < MaxSize /\ at + n \in Nat /\ at + n <= Len(t)
    <3> DEFINE l == Len(s)
               r == Len(t)
    <3>1. l \in Nat /\ l < MaxSize /\ room = MaxSize - 1 - l /\ at \in 0 .. l
      BY <1>2, <1>5, <2>2
    <3>2. r = at + n + (l - at)
      BY <2>10
    <3> HIDE DEF l, r
    <3>3. r < MaxSize /\ at + n \in Nat /\ at + n <= r
      BY <1>1, <1>7, <3>1, <3>2
    <3> QED
      BY <3>3 DEF r
  <2>12. Clamped(at + n, t) = at + n
    BY <2>10, <2>11, ClampedFacts
  <2>13. n < full \/ n = full
    BY <1>4, <1>7
  <2>14. Standing(s, k) /\ ~(n < full) => Standing(t, at + n)
    BY <2>2, <2>8, <2>10, <2>12, <2>13 DEF Standing
  <2> DEFINE i == Insertion(s, k, u)
  <2>15. /\ i.done = TRUE /\ i.cursor = at + n /\ i.cut = (n < full) /\ i.text = t
    BY <2>9
  <2> HIDE DEF i
  <2>16. IsText(t)
    BY <2>10, <2>11 DEF IsText
  <2>17. ~i.cut /\ Standing(s, k) => Standing(i.text, i.cursor)
    BY <2>14, <2>15
  <2>18. /\ i.done \in BOOLEAN /\ i.cut \in BOOLEAN /\ i.cursor \in Nat /\ IsText(i.text)
        /\ i.done
    <3>1. (n < full) \in BOOLEAN
      OBVIOUS
    <3>2. i.cut \in BOOLEAN /\ i.done
      BY <2>15, <3>1
    <3>3. i.cursor \in Nat /\ IsText(i.text)
      BY <2>11, <2>15, <2>16
    <3> QED
      BY <2>15, <3>2, <3>3
  <2>19. ~i.done => i.text = s /\ Clamped(i.cursor, s) = Clamped(k, s)
    BY <2>18
  <2> QED
    BY <2>17, <2>18, <2>19, Zenon DEF i
<1> QED
  BY <1>9, <1>10

-----------------------------------------------------------------------------
(* The fields between two frames. *)

Bytes == Seq(Nat)
InputType == [focused : Nat, value : Buffer \cup {NoField}, cursor : Nat, composition : Bytes,
              changed : Nat, submitted : Nat, blurred : Nat, activate : BOOLEAN]
InputTypeOK ==
  /\ input \in InputType /\ text \in [Buffer -> Bytes] /\ shown \in Shown
  /\ sent \in Nat /\ strayed \in BOOLEAN
  /\ \A b \in Buffer : IsText(text[b])

\* The focus has a buffer.
Filled(t) == t.focused = NoField <=> t.value = NoField

\* The news are of one field, and a notice is out: of the field with the focus,
\* and then it has not been left, or of the one that had it.
Noticed(t, n) ==
  /\ t.focused # NoField => n \subseteq {t.focused} /\ t.blurred = NoField
  /\ n \subseteq {t.changed, t.submitted, t.blurred} /\ NoField \notin n

\* As long as nothing strayed, no text and no cursor splits a character.
Steady(far, t, tx) ==
  far \/ (/\ \A b \in Buffer : Whole(tx[b])
          /\ t.value # NoField => OnCharacter(tx[t.value], Clamped(t.cursor, tx[t.value])))

InputInv ==
  /\ InputTypeOK /\ Filled(input) /\ Noticed(input, news) /\ Steady(strayed, input, text)
  /\ ~unseen /\ ~unheard

LEMMA DeactivateFacts ==
  ASSUME NEW t \in InputType, NEW notify \in BOOLEAN
  PROVE  LET d == Deactivate(t, notify)
         IN  /\ d \in InputType /\ d.focused = NoField /\ d.value = NoField /\ d.cursor = 0
             /\ d.changed = t.changed /\ d.submitted = t.submitted /\ d.activate = t.activate
             /\ d.blurred = IF notify /\ t.focused # NoField THEN t.focused ELSE t.blurred
<1>1. <<>> \in Bytes
  BY DEF Bytes
<1> HIDE DEF Bytes
<1> DEFINE x == IF notify /\ t.focused # NoField THEN t.focused ELSE t.blurred
<1>2. x \in Nat
  BY DEF InputType
<1>3. Deactivate(t, notify) = [t EXCEPT !.blurred = x, !.focused = NoField, !.value = NoField,
                                        !.cursor = 0, !.composition = <<>>]
  BY DEF Deactivate
<1> HIDE DEF x
<1> DEFINE d == [t EXCEPT !.blurred = x, !.focused = NoField, !.value = NoField,
                          !.cursor = 0, !.composition = <<>>]
<1>4. /\ d \in InputType /\ d.focused = NoField /\ d.value = NoField /\ d.cursor = 0
      /\ d.changed = t.changed /\ d.submitted = t.submitted /\ d.activate = t.activate
      /\ d.blurred = x
  BY <1>1, <1>2 DEF InputType, NoField
<1> HIDE DEF d
<1> QED
  BY <1>3, <1>4 DEF d, x

\* An event changes the text of the focused field, or its cursor.
LEMMA Edited ==
  ASSUME InputInv, input.value # NoField, NEW s, IsText(s),
         text' = [text EXCEPT ![input.value] = s],
         input' \in InputType, input'.focused = input.focused, input'.value = input.value,
         input'.blurred = input.blurred,
         news' \subseteq {input.focused}, news' \subseteq {input'.changed, input'.submitted, input'.blurred},
         strayed' \in BOOLEAN, sent' \in Nat,
         ~strayed' => ~strayed /\ (Standing(Value, input.cursor) => Standing(s, input'.cursor)),
         UNCHANGED <<shown, unheard, unseen>>
  PROVE  InputInv'
<1>1. /\ InputTypeOK /\ Filled(input) /\ Noticed(input, news) /\ Steady(strayed, input, text)
      /\ ~unseen /\ ~unheard
  BY DEF InputInv
<1>2. input.value \in Buffer /\ text \in [Buffer -> Bytes] /\ s \in Bytes
  BY <1>1 DEF InputTypeOK, InputType, IsText, Bytes
<1> HIDE DEF Bytes
<1>3. /\ text' \in [Buffer -> Bytes] /\ text'[input.value] = s
      /\ \A b \in Buffer \ {input.value} : text'[b] = text[b]
  BY <1>2
<1>4. InputTypeOK'
  <2>1. \A b \in Buffer : IsText(text'[b])
    BY <1>1, <1>3 DEF InputTypeOK
  <2> QED
    BY <1>1, <1>3, <2>1 DEF InputTypeOK, IsText
<1>5. Filled(input') /\ Noticed(input', news')
  BY <1>1 DEF Filled, Noticed
<1>6. Steady(strayed', input', text')
  <2>1. SUFFICES ASSUME ~strayed' PROVE Steady(strayed', input', text')
    BY DEF Steady
  <2>2. /\ \A b \in Buffer : Whole(text[b])
        /\ OnCharacter(text[input.value], Clamped(input.cursor, text[input.value]))
    BY <1>1, <2>1 DEF Steady
  <2>3. Standing(Value, input.cursor)
    BY <1>2, <2>2 DEF Standing, Value
  <2>4. Whole(s) /\ OnCharacter(s, Clamped(input'.cursor, s))
    BY <2>1, <2>3 DEF Standing
  <2>5. \A b \in Buffer : Whole(text'[b])
    BY <1>3, <2>2, <2>4
  <2> QED
    BY <1>3, <2>4, <2>5 DEF Steady
<1> QED
  BY <1>1, <1>4, <1>5, <1>6 DEF InputInv, Filled, Noticed, Steady

LEMMA FocusedFacts ==
  ASSUME InputInv, input.value # NoField
  PROVE  /\ input \in InputType /\ input.value \in Buffer /\ input.focused \in Nat
         /\ input.focused # NoField /\ input.cursor \in Nat
         /\ input.blurred = NoField /\ news \subseteq {input.focused}
         /\ news \subseteq {input.changed, input.submitted, input.blurred}
         /\ IsText(Value) /\ Value \in Seq(Nat) /\ text \in [Buffer -> Bytes]
         /\ strayed \in BOOLEAN /\ sent \in Nat
<1>1. InputTypeOK /\ Filled(input) /\ Noticed(input, news)
  BY DEF InputInv
<1>2. input \in InputType /\ input.value \in Buffer /\ input.focused \in Nat /\ input.cursor \in Nat
  BY <1>1 DEF InputTypeOK, InputType
<1>3. /\ input.focused # NoField /\ input.blurred = NoField /\ news \subseteq {input.focused}
      /\ news \subseteq {input.changed, input.submitted, input.blurred}
  BY <1>1 DEF Filled, Noticed
<1>4. IsText(Value) /\ Value \in Seq(Nat)
  BY <1>1, <1>2 DEF InputTypeOK, Value, IsText
<1> QED
  BY <1>1, <1>2, <1>3, <1>4 DEF InputTypeOK

LEMMA SameText ==
  ASSUME text \in [Buffer -> Bytes]
  PROVE  text = [text EXCEPT ![input.value] = Value]
  BY DEF Value

LEMMA TextEditingStep ==
  ASSUME InputInv, NEW u \in Typed, TextEditing(u)
  PROVE  InputInv'
<1> DEFINE i == Insertion(<<>>, input.cursor, u)
<1>1. /\ input.value # NoField /\ sent' = sent + 1
      /\ input' = [input EXCEPT !.composition = i.text, !.cursor = i.cursor]
      /\ strayed' = (strayed \/ i.done \/ i.cursor # input.cursor)
      /\ UNCHANGED <<text, shown, news, unheard, unseen>>
  BY DEF TextEditing
<1>2. IsText(<<>>)
  BY InputAssumption DEF IsText
<1>3. i.done \in BOOLEAN /\ i.cursor \in Nat /\ IsText(i.text)
  BY <1>1, <1>2, FocusedFacts, InsertionFacts
<1>4. i.text \in Bytes
  BY <1>3 DEF IsText, Bytes
<1> HIDE DEF i, Bytes
<1>5. /\ input' \in InputType /\ input'.focused = input.focused /\ input'.value = input.value
      /\ input'.blurred = input.blurred /\ input'.changed = input.changed
      /\ input'.submitted = input.submitted /\ input'.cursor = i.cursor
  BY <1>1, <1>3, <1>4, FocusedFacts DEF InputType
<1>6. text' = [text EXCEPT ![input.value] = Value]
  BY <1>1, FocusedFacts, SameText
<1>7. ~strayed' => ~strayed /\ input'.cursor = input.cursor
  BY <1>1, <1>5
<1>8. strayed' \in BOOLEAN /\ sent' \in Nat
  BY <1>1, <1>3, FocusedFacts
<1> QED
  BY <1>1, <1>5, <1>6, <1>7, <1>8, FocusedFacts, Edited

LEMMA TextCommittedStep ==
  ASSUME InputInv, NEW u \in Typed, TextCommitted(u)
  PROVE  InputInv'
<1> DEFINE i == Insertion(Value, input.cursor, u)
           told == IF i.done THEN input.focused ELSE input.changed
<1>1. /\ input.value # NoField /\ sent' = sent + 1
      /\ text' = [text EXCEPT ![input.value] = i.text]
      /\ input' = [input EXCEPT !.cursor = i.cursor, !.composition = <<>>, !.changed = told]
      /\ news' = IF i.done THEN news \cup {input.focused} ELSE news
      /\ strayed' = (strayed \/ i.cut)
      /\ UNCHANGED <<shown, unheard, unseen>>
  BY DEF TextCommitted
<1>3. /\ i.done \in BOOLEAN /\ i.cut \in BOOLEAN /\ i.cursor \in Nat /\ IsText(i.text)
      /\ ~i.cut /\ Standing(Value, input.cursor) => Standing(i.text, i.cursor)
  BY <1>1, FocusedFacts, InsertionFacts
<1>4. <<>> \in Bytes /\ told \in Nat
  BY <1>1, FocusedFacts DEF Bytes, InputType
<1> HIDE DEF i, Bytes
<1>a. i.done => told = input.focused
  OBVIOUS
<1>b. ~i.done => told = input.changed
  OBVIOUS
<1> HIDE DEF told
<1>5. /\ input' \in InputType /\ input'.focused = input.focused /\ input'.value = input.value
      /\ input'.blurred = input.blurred /\ input'.changed = told
      /\ input'.submitted = input.submitted /\ input'.cursor = i.cursor
  BY <1>1, <1>3, <1>4, FocusedFacts DEF InputType
<1>6. /\ news' \subseteq {input.focused}
      /\ news' \subseteq {input'.changed, input'.submitted, input'.blurred}
  <2>1. CASE i.done
    BY <1>1, <1>5, <1>a, <2>1, FocusedFacts
  <2>2. CASE ~i.done
    BY <1>1, <1>5, <1>b, <2>2, FocusedFacts
  <2> QED
    BY <2>1, <2>2
<1>7. ~strayed' => ~strayed /\ (Standing(Value, input.cursor) => Standing(i.text, input'.cursor))
  BY <1>1, <1>3, <1>5
<1>8. strayed' \in BOOLEAN /\ sent' \in Nat
  BY <1>1, <1>3, FocusedFacts
<1> QED
  BY <1>1, <1>3, <1>5, <1>6, <1>7, <1>8, FocusedFacts, Edited

LEMMA CursorKeyStep ==
  ASSUME InputInv, CursorKey
  PROVE  InputInv'
<1> DEFINE s == Value
           k == Clamped(input.cursor, s)
<1>1. input.value # NoField /\ UNCHANGED <<text, shown, sent, news, unheard, unseen, strayed>>
  BY DEF CursorKey
<1>2. PICK to \in {Before(s, k), 0, Len(s), IF k < Len(s) THEN Clamped(After(s, k), s) ELSE k} :
        input' = [input EXCEPT !.cursor = to]
  BY DEF CursorKey
<1>3. s \in Seq(Nat) /\ Len(s) \in Nat /\ k \in 0 .. Len(s) /\ k \in Nat
  BY <1>1, FocusedFacts, ClampedFacts
<1>4. to \in 0 .. Len(s) /\ (Standing(s, input.cursor) => OnCharacter(s, to))
  <2>1. CASE to = Before(s, k)
    <3>1. Before(s, k) \in 0 .. k /\ OnCharacter(s, Before(s, k))
      BY <1>3, BeforeFacts
    <3> HIDE DEF s, k
    <3> QED
      BY <1>3, <2>1, <3>1
  <2>2. CASE to = 0 \/ to = Len(s)
    BY <1>3, <2>2 DEF OnCharacter
  <2>3. CASE k < Len(s) /\ to = Clamped(After(s, k), s)
    <3>1. /\ After(s, k) \in Nat
          /\ Whole(s) /\ OnCharacter(s, k) => OnCharacter(s, Clamped(After(s, k), s))
      BY <1>3, <2>3, AfterFacts
    <3>2. Clamped(After(s, k), s) \in 0 .. Len(s)
      BY <1>3, <3>1, ClampedFacts
    <3> QED
      BY <2>3, <3>1, <3>2 DEF Standing
  <2>4. CASE to = k
    BY <1>3, <2>4 DEF Standing
  <2> QED
    BY <1>2, <2>1, <2>2, <2>3, <2>4
<1> HIDE DEF k
<1>5. to \in Nat /\ Clamped(to, s) = to
  BY <1>3, <1>4, ClampedFacts
<1>6. /\ input' \in InputType /\ input'.focused = input.focused /\ input'.value = input.value
      /\ input'.blurred = input.blurred /\ input'.changed = input.changed
      /\ input'.submitted = input.submitted /\ input'.cursor = to
  <2> HIDE DEF Bytes
  <2> QED
    BY <1>1, <1>2, <1>5, FocusedFacts DEF InputType
<1>7. text' = [text EXCEPT ![input.value] = Value]
  BY <1>1, FocusedFacts, SameText
<1>8. Standing(s, input.cursor) => Standing(s, input'.cursor)
  BY <1>4, <1>5, <1>6 DEF Standing
<1> QED
  BY <1>1, <1>6, <1>7, <1>8, FocusedFacts, Edited

LEMMA KeyBackspaceStep ==
  ASSUME InputInv, KeyBackspace
  PROVE  InputInv'
<1> DEFINE s == Value
           k == Clamped(input.cursor, s)
           to == Before(s, k)
           t == SubSeq(s, 1, to) \o SubSeq(s, k + 1, Len(s))
<1>1. input.value # NoField /\ UNCHANGED <<shown, sent, unheard, unseen, strayed>>
  BY DEF KeyBackspace
<1>2. s \in Seq(Nat) /\ Len(s) \in Nat /\ k \in 0 .. Len(s) /\ k \in Nat /\ IsText(s)
  BY <1>1, FocusedFacts, ClampedFacts
<1>3. to \in 0 .. k /\ (k # 0 => to < k) /\ OnCharacter(s, to)
  BY <1>2, BeforeFacts
<1>4. CASE k = 0
  <2>1. input' = [input EXCEPT !.cursor = 0] /\ UNCHANGED <<text, news>>
    BY <1>4 DEF KeyBackspace
  <2>2. /\ input' \in InputType /\ input'.focused = input.focused /\ input'.value = input.value
        /\ input'.blurred = input.blurred /\ input'.changed = input.changed
        /\ input'.submitted = input.submitted /\ input'.cursor = 0
    <3> HIDE DEF Bytes
    <3> QED
      BY <1>1, <2>1, FocusedFacts DEF InputType
  <2>3. text' = [text EXCEPT ![input.value] = Value]
    BY <1>1, <2>1, FocusedFacts, SameText
  <2>4. Standing(s, input.cursor) => Standing(s, input'.cursor)
    BY <1>2, <2>2, ClampedFacts DEF Standing, OnCharacter
  <2> QED
    BY <1>1, <2>1, <2>2, <2>3, <2>4, FocusedFacts, Edited
<1>5. CASE k # 0
  <2>1. /\ text' = [text EXCEPT ![input.value] = t]
        /\ input' = [input EXCEPT !.cursor = to, !.changed = input.focused]
        /\ news' = news \cup {input.focused}
    <3>1. text[input.value] = s
      BY DEF Value
    <3>2. text' = [text EXCEPT ![input.value] =
                     SubSeq(@, 1, to) \o SubSeq(@, k + 1, Len(@))]
          /\ input' = [input EXCEPT !.cursor = to, !.changed = input.focused]
          /\ news' = news \cup {input.focused}
      BY <1>5 DEF KeyBackspace
    <3> HIDE DEF to, k
    <3> QED
      BY <3>1, <3>2
  <2> HIDE DEF s, k, to
  <2>2. to \in 0 .. Len(s) /\ to \in Nat
    BY <1>2, <1>3
  <2>3. IsPart(SubSeq(s, 1, to), s, 0, to) /\ IsPart(SubSeq(s, k + 1, Len(s)), s, k, Len(s))
    BY <1>2, <2>2, PartFacts
  <2>4. SubSeq(s, 1, to) \in Seq(Nat) /\ Len(SubSeq(s, 1, to)) = to
    BY <2>2, <2>3 DEF IsPart
  <2>5. /\ t \in Seq(Nat) /\ Len(t) = to + (Len(s) - k)
        /\ Whole(s) /\ Whole(SubSeq(s, 1, to)) /\ OnCharacter(s, k) =>
             Whole(t) /\ OnCharacter(t, to)
    <3> DEFINE p == SubSeq(s, 1, to)
               q == SubSeq(s, k + 1, Len(s))
    <3> HIDE DEF p, q
    <3>1. /\ p \o q \in Seq(Nat) /\ Len(p \o q) = Len(p) + (Len(s) - k)
          /\ Whole(s) /\ Whole(p) /\ OnCharacter(s, k) =>
               Whole(p \o q) /\ OnCharacter(p \o q, Len(p))
      BY <1>2, <2>3, <2>4, JoinFacts DEF p, q
    <3> QED
      BY <2>4, <3>1 DEF p, q
  <2>6. Whole(s) => Whole(SubSeq(s, 1, to))
    BY <1>2, <1>3, <2>2, <2>3, WholePrefix
  <2> HIDE DEF t
  <2>7. IsText(t) /\ to <= Len(t)
    <3>1. Len(s) < MaxSize /\ MaxSize \in Nat
      BY <1>2, InputAssumption DEF IsText
    <3> QED
      BY <1>2, <1>3, <1>5, <2>5, <3>1 DEF IsText
  <2>8. Clamped(to, t) = to
    BY <2>2, <2>5, <2>7, ClampedFacts
  <2>9. /\ input' \in InputType /\ input'.focused = input.focused /\ input'.value = input.value
        /\ input'.blurred = input.blurred /\ input'.changed = input.focused
        /\ input'.submitted = input.submitted /\ input'.cursor = to
    <3> HIDE DEF Bytes
    <3> QED
      BY <1>1, <2>1, <2>2, FocusedFacts DEF InputType
  <2>10. Standing(Value, input.cursor) => Standing(t, input'.cursor)
    BY <2>5, <2>6, <2>8, <2>9 DEF Standing, s, k
  <2>11. /\ news' \subseteq {input.focused}
         /\ news' \subseteq {input'.changed, input'.submitted, input'.blurred}
    BY <1>1, <2>1, <2>9, FocusedFacts
  <2> QED
    BY <1>1, <2>1, <2>7, <2>9, <2>10, <2>11, FocusedFacts, Edited
<1> QED
  BY <1>4, <1>5

\* The focus goes, and the notice of that or of the submission is out.
LEMMA Left ==
  ASSUME InputInv, input.value # NoField,
         input' \in InputType, input'.focused = NoField, input'.value = NoField,
         news' = news \cup {input.focused}, input'.changed = input.changed,
         input'.submitted = input.focused \/
           (input'.submitted = input.submitted /\ input'.blurred = input.focused),
         UNCHANGED <<text, shown, sent, unheard, unseen, strayed>>
  PROVE  InputInv'
<1>1. /\ InputTypeOK /\ Steady(strayed, input, text) /\ ~unseen /\ ~unheard
  BY DEF InputInv
<1>2. /\ input.blurred = NoField /\ news \subseteq {input.focused} /\ input.focused # NoField
      /\ news \subseteq {input.changed, input.submitted, input.blurred}
  BY FocusedFacts
<1>3. InputTypeOK'
  BY <1>1 DEF InputTypeOK
<1>4. news' = {input.focused}
  BY <1>2
<1>5. news' \subseteq {input'.changed, input'.submitted, input'.blurred}
  BY <1>4
<1>6. Steady(strayed', input', text')
  BY <1>1 DEF Steady
<1> QED
  BY <1>1, <1>3, <1>5, <1>6 DEF InputInv, Filled, Noticed, Steady

LEMMA KeyReturnStep ==
  ASSUME InputInv, KeyReturn
  PROVE  InputInv'
<1> DEFINE t == [input EXCEPT !.submitted = input.focused]
<1>1. /\ input.value # NoField /\ input' = Deactivate(t, FALSE)
      /\ news' = news \cup {input.focused}
      /\ UNCHANGED <<text, shown, sent, unheard, unseen, strayed>>
  BY DEF KeyReturn
<1>2. t \in InputType /\ t.submitted = input.focused /\ t.changed = input.changed
  <2> HIDE DEF Bytes
  <2> QED
    BY <1>1, FocusedFacts DEF InputType
<1> HIDE DEF t
<1>3. /\ input' \in InputType /\ input'.focused = NoField /\ input'.value = NoField
      /\ input'.changed = input.changed /\ input'.submitted = input.focused
  BY <1>1, <1>2, DeactivateFacts
<1> QED
  BY <1>1, <1>3, Left

LEMMA WindowFocusLostStep ==
  ASSUME InputInv, WindowFocusLost
  PROVE  InputInv'
<1>1. /\ input.value # NoField /\ input' = Deactivate(input, TRUE)
      /\ news' = news \cup {input.focused}
      /\ UNCHANGED <<text, shown, sent, unheard, unseen, strayed>>
  BY DEF WindowFocusLost
<1>2. input \in InputType /\ input.focused # NoField
  BY <1>1, FocusedFacts
<1>3. /\ input' \in InputType /\ input'.focused = NoField /\ input'.value = NoField
      /\ input'.changed = input.changed /\ input'.submitted = input.submitted
      /\ input'.blurred = input.focused
  BY <1>1, <1>2, DeactivateFacts
<1> QED
  BY <1>1, <1>3, Left

\* The screen's fields, each with an id and a buffer.
LEMMA ScreenFacts ==
  ASSUME NEW s \in Shown
  PROVE  /\ Len(s.fields) \in Nat /\ 1 \in 1 .. Len(s.fields)
         /\ \A i \in 1 .. Len(s.fields) : /\ s.fields[i].id \in Nat \ {NoField}
                                          /\ s.fields[i].buffer \in Buffer
                                          /\ s.fields[i] = [id |-> s.fields[i].id,
                                                            buffer |-> s.fields[i].buffer]
<1> DEFINE F == [id : Nat \ {NoField}, buffer : Buffer]
           q == s.fields
<1>1. q \in Seq(F) /\ q # <<>>
  BY InputAssumption
<1>2. \A f \in F : f.id \in Nat \ {NoField} /\ f.buffer \in Buffer
                   /\ f = [id |-> f.id, buffer |-> f.buffer]
  OBVIOUS
<1> HIDE DEF F, q
<1>3. Len(q) \in Nat /\ 1 \in 1 .. Len(q) /\ \A i \in 1 .. Len(q) : q[i] \in F
  BY <1>1
<1> QED
  BY <1>2, <1>3 DEF q

\* A cleared buffer is whole, and every cursor is at its end.
LEMMA EmptiedFacts ==
  ASSUME NEW tx \in [Buffer -> Bytes], \A b \in Buffer : IsText(tx[b]), NEW b \in Buffer
  PROVE  LET new == [tx EXCEPT ![b] = <<>>]
         IN  /\ new \in [Buffer -> Bytes] /\ \A c \in Buffer : IsText(new[c])
             /\ \A far \in BOOLEAN, t \in InputType, u \in InputType :
                  Steady(far, t, tx) /\ u.value = t.value /\ u.cursor = t.cursor =>
                    Steady(far, u, new)
<1> DEFINE new == [tx EXCEPT ![b] = <<>>]
<1>1. IsText(<<>>) /\ <<>> \in Bytes /\ Whole(<<>>)
  BY InputAssumption DEF IsText, Bytes, Whole
<1>2. \A k \in Nat : OnCharacter(<<>>, Clamped(k, <<>>))
  BY DEF OnCharacter, Clamped
<1>3. \A t \in InputType : t.value \in Buffer \cup {NoField} /\ t.cursor \in Nat
  BY DEF InputType
<1> HIDE DEF Bytes, InputType
<1>4. /\ new \in [Buffer -> Bytes] /\ new[b] = <<>>
      /\ \A c \in Buffer \ {b} : new[c] = tx[c]
  BY <1>1
<1>5. \A c \in Buffer : IsText(new[c])
  BY <1>1, <1>4
<1> HIDE DEF new
<1>6. ASSUME NEW far \in BOOLEAN, NEW t \in InputType, NEW u \in InputType,
             Steady(far, t, tx), u.value = t.value, u.cursor = t.cursor
      PROVE  Steady(far, u, new)
  <2>1. SUFFICES ASSUME ~far PROVE Steady(far, u, new)
    BY DEF Steady
  <2>2. \A c \in Buffer : Whole(new[c])
    BY <1>1, <1>4, <1>6, <2>1 DEF Steady
  <2>3. ASSUME u.value # NoField
        PROVE  OnCharacter(new[u.value], Clamped(u.cursor, new[u.value]))
    <3>1. CASE u.value = b
      BY <1>2, <1>3, <1>4, <3>1
    <3>2. CASE u.value # b
      <4>1. new[u.value] = tx[u.value]
        BY <1>3, <1>4, <2>3, <3>2
      <4> QED
        BY <1>6, <2>1, <2>3, <4>1 DEF Steady
    <3> QED
      BY <3>1, <3>2
  <2> QED
    BY <2>2, <2>3 DEF Steady
<1> QED
  BY <1>4, <1>5, <1>6 DEF new

LEMMA ScreenGoStep ==
  ASSUME InputInv, NEW s \in Shown, ScreenGo(s)
  PROVE  InputInv'
<1>1. /\ InputTypeOK /\ Filled(input) /\ Noticed(input, news) /\ Steady(strayed, input, text)
      /\ ~unseen /\ ~unheard
  BY DEF InputInv
<1>2. shown' = s /\ UNCHANGED <<sent, news, unheard, unseen, strayed>>
  BY DEF ScreenGo
<1>3. CASE s.fresh
  <2> DEFINE b == s.fields[1].buffer
  <2>1. text' = [text EXCEPT ![b] = <<>>] /\ input' = [input EXCEPT !.activate = TRUE]
    BY <1>3 DEF ScreenGo
  <2>2. b \in Buffer
    BY ScreenFacts
  <2> HIDE DEF b
  <2>3. /\ input' \in InputType /\ input'.focused = input.focused /\ input'.value = input.value
        /\ input'.cursor = input.cursor /\ input'.changed = input.changed
        /\ input'.submitted = input.submitted /\ input'.blurred = input.blurred
        /\ input \in InputType
    <3> HIDE DEF Bytes
    <3> QED
      BY <1>1, <2>1 DEF InputType, InputTypeOK
  <2>4. /\ text' \in [Buffer -> Bytes] /\ \A c \in Buffer : IsText(text'[c])
        /\ Steady(strayed, input', text')
    <3>1. text \in [Buffer -> Bytes] /\ (\A c \in Buffer : IsText(text[c])) /\ strayed \in BOOLEAN
      BY <1>1 DEF InputTypeOK
    <3> HIDE DEF Bytes, InputType
    <3> QED
      <4> DEFINE new == [text EXCEPT ![b] = <<>>]
      <4>1. /\ new \in [Buffer -> Bytes] /\ \A c \in Buffer : IsText(new[c])
            /\ \A far \in BOOLEAN, t \in InputType, u \in InputType :
                 Steady(far, t, text) /\ u.value = t.value /\ u.cursor = t.cursor =>
                   Steady(far, u, new)
        BY <2>2, <3>1, EmptiedFacts
      <4>2. text' = new
        BY <2>1
      <4> HIDE DEF new
      <4>3. Steady(strayed, input', new)
        BY <1>1, <2>3, <3>1, <4>1
      <4> QED
        BY <4>1, <4>2, <4>3
  <2>5. InputTypeOK'
    BY <1>1, <1>2, <2>3, <2>4 DEF InputTypeOK
  <2> QED
    BY <1>1, <1>2, <2>3, <2>4, <2>5 DEF InputInv, Filled, Noticed, Steady
<1>4. CASE ~s.fresh
  <2>1. UNCHANGED <<text, input>>
    BY <1>4 DEF ScreenGo
  <2>2. InputTypeOK'
    BY <1>1, <1>2, <2>1 DEF InputTypeOK
  <2> QED
    BY <1>1, <1>2, <2>1, <2>2 DEF InputInv, Filled, Noticed, Steady
<1> QED
  BY <1>3, <1>4

LEMMA InputStart == InputInit => InputInv
<1> SUFFICES ASSUME InputInit PROVE InputInv
  OBVIOUS
<1>1. /\ input = [focused |-> NoField, value |-> NoField, cursor |-> 0, composition |-> <<>>,
                  changed |-> NoField, submitted |-> NoField, blurred |-> NoField,
                  activate |-> FALSE]
      /\ text = [b \in Buffer |-> <<>>] /\ shown \in Shown
      /\ sent = 0 /\ news = {} /\ unheard = FALSE /\ unseen = FALSE /\ strayed = FALSE
  BY DEF InputInit
<1>2. <<>> \in Bytes /\ IsText(<<>>) /\ Whole(<<>>)
  BY InputAssumption DEF IsText, Bytes, Whole
<1> HIDE DEF Bytes
<1>3. input \in InputType /\ input.focused = NoField /\ input.value = NoField
  BY <1>1, <1>2 DEF InputType, NoField
<1>4. InputTypeOK
  BY <1>1, <1>2, <1>3 DEF InputTypeOK
<1>5. Steady(strayed, input, text)
  BY <1>1, <1>2, <1>3 DEF Steady
<1> QED
  BY <1>1, <1>3, <1>4, <1>5 DEF InputInv, Filled, Noticed

-----------------------------------------------------------------------------
(* A frame draws its fields one after another. *)

FieldType == [id : Nat \ {NoField}, buffer : Buffer]

LEMMA FieldFacts ==
  ASSUME NEW f \in FieldType
  PROVE  f.id \in Nat /\ f.id # NoField /\ f.buffer \in Buffer /\ f.buffer # NoField
         /\ f = [id |-> f.id, buffer |-> f.buffer]
  BY InputAssumption DEF FieldType

\* The field that has the focus, with its buffer.
At(t) == [id |-> t.focused, buffer |-> t.value]

\* mobile_text_input gives f the focus unless f has it.
Opens(tap, t, f) == (tap[2] = f \/ t.activate) /\ At(t) # f
Opened(tap, t, f, size) ==
  IF tap[2] = f \/ t.activate THEN [Activate(t, f, size) EXCEPT !.activate = FALSE] ELSE t

OpenedIs(tap, t, f, size, o) ==
  /\ o \in InputType /\ o.changed = t.changed /\ o.submitted = t.submitted
  /\ o.activate = FALSE
  /\ Opens(tap, t, f) =>
       /\ o.focused = f.id /\ o.value = f.buffer /\ o.cursor = size
       /\ o.blurred = IF t.focused # NoField THEN t.focused ELSE t.blurred
  /\ ~Opens(tap, t, f) =>
       /\ o.focused = t.focused /\ o.value = t.value /\ o.cursor = t.cursor
       /\ o.blurred = t.blurred

LEMMA OpenedFacts ==
  ASSUME NEW tap, NEW t \in InputType, NEW f \in FieldType, NEW size \in Nat
  PROVE  OpenedIs(tap, t, f, size, Opened(tap, t, f, size))
<1> DEFINE d == Deactivate(t, TRUE)
           o == Opened(tap, t, f, size)
<1>1. /\ d \in InputType /\ d.changed = t.changed /\ d.submitted = t.submitted
      /\ d.blurred = IF t.focused # NoField THEN t.focused ELSE t.blurred
  BY DeactivateFacts
<1>2. At(t) = f <=> t.focused = f.id /\ t.value = f.buffer
  BY FieldFacts DEF At
<1> HIDE DEF d
<1>3. CASE ~(tap[2] = f \/ t.activate)
  <2>1. o = t /\ ~Opens(tap, t, f)
    BY <1>3 DEF Opened, Opens
  <2>2. t.activate = FALSE
    BY <1>3 DEF InputType
  <2> QED
    BY <2>1, <2>2 DEF OpenedIs
<1>4. CASE (tap[2] = f \/ t.activate) /\ At(t) = f
  <2>1. o = [t EXCEPT !.activate = FALSE] /\ ~Opens(tap, t, f)
    BY <1>2, <1>4 DEF Opened, Opens, Activate
  <2> HIDE DEF o, Bytes
  <2>2. /\ o \in InputType /\ o.changed = t.changed /\ o.submitted = t.submitted
        /\ o.activate = FALSE /\ o.focused = t.focused /\ o.value = t.value
        /\ o.cursor = t.cursor /\ o.blurred = t.blurred
    BY <2>1 DEF InputType
  <2> QED
    BY <2>1, <2>2 DEF o, OpenedIs
<1>5. CASE (tap[2] = f \/ t.activate) /\ At(t) # f
  <2> DEFINE a == [d EXCEPT !.focused = f.id, !.value = f.buffer, !.cursor = size]
  <2>1. Activate(t, f, size) = a
    BY <1>2, <1>5 DEF Activate, d
  <2>2. o = [Activate(t, f, size) EXCEPT !.activate = FALSE] /\ Opens(tap, t, f)
    BY <1>5 DEF Opened, Opens
  <2>3. /\ a \in InputType /\ a.changed = d.changed /\ a.submitted = d.submitted
        /\ a.focused = f.id /\ a.value = f.buffer /\ a.cursor = size /\ a.blurred = d.blurred
    <3> HIDE DEF Bytes
    <3> QED
      BY <1>1, FieldFacts DEF InputType
  <2> HIDE DEF a, o
  <2>4. o = [a EXCEPT !.activate = FALSE]
    BY <2>1, <2>2 DEF OpenedIs
  <2> HIDE DEF Bytes
  <2>5. /\ o \in InputType /\ o.changed = a.changed /\ o.submitted = a.submitted
        /\ o.activate = FALSE /\ o.focused = a.focused /\ o.value = a.value
        /\ o.cursor = a.cursor /\ o.blurred = a.blurred
    BY <2>3, <2>4 DEF InputType
  <2> QED
    BY <1>1, <2>2, <2>3, <2>5 DEF o, OpenedIs
<1> QED
  BY <1>3, <1>4, <1>5

\* ... and takes the focus from f when the tap is somewhere else.
Leaves(tap, t, f) == t.focused = f.id /\ tap[1] # "none" /\ tap[2] # f
AfterTap(tap, t, f) == IF Leaves(tap, t, f) THEN Deactivate(t, TRUE) ELSE t

LEMMA AfterTapFacts ==
  ASSUME NEW tap, NEW t \in InputType, NEW f \in FieldType, t.activate = FALSE
  PROVE  LET o == AfterTap(tap, t, f)
         IN  /\ o \in InputType /\ o.changed = t.changed /\ o.submitted = t.submitted
             /\ o.activate = FALSE
             /\ Leaves(tap, t, f) => /\ o.focused = NoField /\ o.value = NoField
                                     /\ o.blurred = f.id
             /\ ~Leaves(tap, t, f) => o = t
<1> DEFINE d == Deactivate(t, TRUE)
<1>1. /\ d \in InputType /\ d.changed = t.changed /\ d.submitted = t.submitted
      /\ d.activate = t.activate /\ d.focused = NoField /\ d.value = NoField
      /\ d.blurred = IF t.focused # NoField THEN t.focused ELSE t.blurred
  BY DeactivateFacts
<1> HIDE DEF d
<1>2. AfterTap(tap, t, f) = IF Leaves(tap, t, f) THEN d ELSE t
  BY DEF AfterTap, d
<1>3. Leaves(tap, t, f) => t.focused # NoField /\ t.focused = f.id
  BY FieldFacts DEF Leaves
<1> QED
  BY <1>1, <1>2, <1>3

\* The focused field takes the value it is drawn with, and its clear button
\* clears it.
Clears(tap, tx, f) == tap = <<"clear", f>> /\ tx[f.buffer] # <<>>
Given(t, f, tx) ==
  IF t.focused = f.id
  THEN [t EXCEPT !.value = f.buffer, !.cursor = Clamped(@, tx[f.buffer])] ELSE t
WithClear(tap, t, f, tx) ==
  IF Clears(tap, tx, f) THEN [Emptied(t) EXCEPT !.changed = f.id] ELSE t

LEMMA GivenFacts ==
  ASSUME NEW t \in InputType, NEW f \in FieldType, NEW tx \in [Buffer -> Bytes]
  PROVE  LET o == Given(t, f, tx)
         IN  /\ o \in InputType /\ o.changed = t.changed /\ o.submitted = t.submitted
             /\ o.activate = t.activate /\ o.blurred = t.blurred /\ o.focused = t.focused
             /\ t.focused = f.id => /\ o.value = f.buffer
                                    /\ o.cursor = Clamped(t.cursor, tx[f.buffer])
             /\ t.focused # f.id => o = t
<1> DEFINE k == Clamped(t.cursor, tx[f.buffer])
           o == Given(t, f, tx)
<1>1. CASE t.focused # f.id
  BY <1>1 DEF Given
<1>2. CASE t.focused = f.id
  <2>1. f.buffer \in Buffer
    BY FieldFacts
  <2>2. k \in Nat
    <3>1. t.cursor \in Nat /\ tx[f.buffer] \in Seq(Nat)
      BY <2>1 DEF InputType, Bytes
    <3> QED
      BY <3>1, ClampedFacts
  <2>3. o = [t EXCEPT !.value = f.buffer, !.cursor = k]
    BY <1>2 DEF Given
  <2> HIDE DEF o, k, Bytes
  <2>4. /\ o \in InputType /\ o.changed = t.changed /\ o.submitted = t.submitted
        /\ o.activate = t.activate /\ o.blurred = t.blurred /\ o.focused = t.focused
        /\ o.value = f.buffer /\ o.cursor = k
    BY <2>1, <2>2, <2>3 DEF InputType
  <2> QED
    BY <1>2, <2>4 DEF o, k
<1> QED
  BY <1>1, <1>2

LEMMA WithClearFacts ==
  ASSUME NEW tap, NEW t \in InputType, NEW f \in FieldType, NEW tx
  PROVE  LET o == WithClear(tap, t, f, tx)
         IN  /\ o \in InputType /\ o.submitted = t.submitted /\ o.activate = t.activate
             /\ o.blurred = t.blurred /\ o.focused = t.focused /\ o.value = t.value
             /\ Clears(tap, tx, f) => o.changed = f.id /\ o.cursor = 0
             /\ ~Clears(tap, tx, f) => o = t
<1> DEFINE o == WithClear(tap, t, f, tx)
<1>1. CASE ~Clears(tap, tx, f)
  BY <1>1 DEF WithClear
<1>2. CASE Clears(tap, tx, f)
  <2> DEFINE e == [t EXCEPT !.cursor = 0, !.composition = <<>>]
  <2>1. <<>> \in Bytes /\ f.id \in Nat
    BY FieldFacts DEF Bytes
  <2> HIDE DEF Bytes
  <2>2. /\ e \in InputType /\ e.submitted = t.submitted /\ e.activate = t.activate
        /\ e.blurred = t.blurred /\ e.focused = t.focused /\ e.value = t.value /\ e.cursor = 0
    BY <2>1 DEF InputType
  <2>3. Emptied(t) = e
    BY DEF Emptied
  <2> HIDE DEF e
  <2>4. o = [e EXCEPT !.changed = f.id]
    BY <1>2, <2>3 DEF WithClear
  <2> HIDE DEF o
  <2>5. /\ o \in InputType /\ o.submitted = e.submitted /\ o.activate = e.activate
        /\ o.blurred = e.blurred /\ o.focused = e.focused /\ o.value = e.value
        /\ o.cursor = e.cursor /\ o.changed = f.id
    BY <2>1, <2>2, <2>4 DEF InputType
  <2> QED
    BY <1>2, <2>2, <2>5 DEF o
<1> QED
  BY <1>1, <1>2

InputDraw == [input : InputType, text : [Buffer -> Bytes], drawn : BOOLEAN, heard : BOOLEAN,
              fresh : SUBSET Nat, passed : BOOLEAN]
DrawTyped(d) == d \in InputDraw /\ \A b \in Buffer : IsText(d.text[b])

\* A tap is on one field, and no tap is on none.
IsTap(tap) == tap[1] = "none" => tap[2] = Nowhere

\* The focus stays where it is in the rest of the frame.
Kept(tap, t) == ~t.activate /\ (tap[1] = "none" \/ At(t) = tap[2])

Notices(t) == {t.changed, t.submitted, t.blurred}

\* After the fields S: a notice of a field is still to be read by it, or a field
\* read one. With the old focus x, the news n, the fields of the screen and what
\* strayed before.
Quiet(tap, d) ==
  d.heard \/ d.input.blurred = NoField \/ d.input.focused = NoField \/ Kept(tap, d.input)
NewsAreOut(S, d, n) == \A i \in n : d.heard \/ (i \in Notices(d.input) /\ i \notin S)
LossIsOut(tap, S, d, x) ==
  x # NoField =>
    \/ d.heard
    \/ d.input.focused = x /\ (x \in S => Kept(tap, d.input))
    \/ d.input.blurred = x /\ x \notin S
ShowsFocus(d, fields) ==
  Filled(d.input) /\ (d.drawn /\ d.input.focused # NoField => At(d.input) \in fields)
StillSteady(d, far) == d.passed \/ Steady(far, d.input, d.text)

DrawInv(tap, S, d, n, x, fields, far) ==
  /\ DrawTyped(d) /\ (d.fresh # {} => d.heard)
  /\ Quiet(tap, d) /\ NewsAreOut(S, d, n) /\ LossIsOut(tap, S, d, x)
  /\ ShowsFocus(d, fields) /\ StillSteady(d, far)

\* What mobile_text_input does, in its three parts.
LEMMA DrawFieldIs ==
  ASSUME NEW tap, NEW d, NEW f
  PROVE  LET t1 == Opened(tap, d.input, f, Len(d.text[f.buffer]))
             t2 == AfterTap(tap, t1, f)
             t3 == Given(t2, f, d.text)
             t4 == WithClear(tap, t3, f, d.text)
             clear == Clears(tap, d.text, f)
         IN  DrawField(tap, d, f) =
               [input |-> t4,
                text |-> IF clear THEN [d.text EXCEPT ![f.buffer] = <<>>] ELSE d.text,
                drawn |-> d.drawn \/ t2.focused = f.id,
                heard |-> d.heard \/ f.id \in {t4.changed, t4.submitted, t3.blurred},
                fresh |-> d.fresh \cup IF clear THEN {f.id} ELSE {},
                passed |-> d.passed \/ (t2.focused = f.id /\ t2.value # f.buffer)]
  BY Zenon DEF DrawField, Opened, AfterTap, Leaves, Given, WithClear, Clears

\* The same, as what is different afterwards.
DrawResult(tap, d, f, r) ==
  LET opens == Opens(tap, d.input, f)
      focus == IF opens THEN f.id ELSE d.input.focused
      leaves == focus = f.id /\ tap[1] # "none" /\ tap[2] # f
      value == IF opens THEN f.buffer ELSE d.input.value
      clears == Clears(tap, d.text, f)
      t == r.input
  IN  /\ t.activate = FALSE /\ t.submitted = d.input.submitted
      /\ t.focused = IF leaves THEN NoField ELSE focus
      /\ t.value = IF leaves THEN NoField ELSE IF focus = f.id THEN f.buffer ELSE d.input.value
      /\ t.blurred = IF leaves THEN f.id
                     ELSE IF opens /\ d.input.focused # NoField THEN d.input.focused
                     ELSE d.input.blurred
      /\ t.changed = IF clears THEN f.id ELSE d.input.changed
      /\ r.text = IF clears THEN [d.text EXCEPT ![f.buffer] = <<>>] ELSE d.text
      /\ r.drawn = (d.drawn \/ (~leaves /\ focus = f.id))
      /\ r.heard = (d.heard \/ f.id \in Notices(t))
      /\ r.fresh = d.fresh \cup IF clears THEN {f.id} ELSE {}
      /\ r.passed = (d.passed \/ (~leaves /\ focus = f.id /\ value # f.buffer))
      /\ ~leaves => t.cursor = IF clears THEN 0
                               ELSE IF opens THEN Clamped(Len(d.text[f.buffer]), d.text[f.buffer])
                               ELSE IF focus = f.id THEN Clamped(d.input.cursor, d.text[f.buffer])
                               ELSE d.input.cursor

LEMMA DrawFieldFacts ==
  ASSUME NEW tap, NEW d, DrawTyped(d), NEW f \in FieldType
  PROVE  DrawTyped(DrawField(tap, d, f)) /\ DrawResult(tap, d, f, DrawField(tap, d, f))
<1> DEFINE t == d.input
           size == Len(d.text[f.buffer])
           t1 == Opened(tap, t, f, size)
           t2 == AfterTap(tap, t1, f)
           t3 == Given(t2, f, d.text)
           t4 == WithClear(tap, t3, f, d.text)
           clear == Clears(tap, d.text, f)
           tx == IF clear THEN [d.text EXCEPT ![f.buffer] = <<>>] ELSE d.text
           r == DrawField(tap, d, f)
<1>1. /\ t \in InputType /\ d.text \in [Buffer -> Bytes] /\ d.drawn \in BOOLEAN
      /\ d.heard \in BOOLEAN /\ d.fresh \in SUBSET Nat /\ d.passed \in BOOLEAN
      /\ \A b \in Buffer : IsText(d.text[b])
  <2> HIDE DEF Bytes, InputType
  <2> QED
    BY DEF DrawTyped, InputDraw
<1>2. f.id \in Nat /\ f.id # NoField /\ f.buffer \in Buffer
  BY FieldFacts
<1>3. size \in Nat
  <2>1. d.text[f.buffer] \in Seq(Nat)
    BY <1>1, <1>2 DEF Bytes
  <2> QED
    BY <2>1
<1>4. r = [input |-> t4, text |-> tx,
           drawn |-> d.drawn \/ t2.focused = f.id,
           heard |-> d.heard \/ f.id \in {t4.changed, t4.submitted, t3.blurred},
           fresh |-> d.fresh \cup IF clear THEN {f.id} ELSE {},
           passed |-> d.passed \/ (t2.focused = f.id /\ t2.value # f.buffer)]
  BY DrawFieldIs
<1> HIDE DEF r, Bytes, InputType
<1>5. OpenedIs(tap, t, f, size, t1)
  <2> HIDE DEF t, size
  <2> QED
    BY <1>1, <1>3, OpenedFacts
<1> HIDE DEF t1
<1>a. /\ t1 \in InputType /\ t1.changed = t.changed /\ t1.submitted = t.submitted
      /\ t1.activate = FALSE
  BY <1>5 DEF OpenedIs
<1>6. /\ t2 \in InputType /\ t2.changed = t1.changed /\ t2.submitted = t1.submitted
      /\ t2.activate = FALSE
      /\ Leaves(tap, t1, f) => t2.focused = NoField /\ t2.value = NoField /\ t2.blurred = f.id
      /\ ~Leaves(tap, t1, f) => t2 = t1
  BY <1>a, AfterTapFacts
<1> HIDE DEF t2
<1>7. /\ t3 \in InputType /\ t3.changed = t2.changed /\ t3.submitted = t2.submitted
      /\ t3.activate = t2.activate /\ t3.blurred = t2.blurred /\ t3.focused = t2.focused
      /\ t2.focused = f.id => t3.value = f.buffer /\ t3.cursor = Clamped(t2.cursor, d.text[f.buffer])
      /\ t2.focused # f.id => t3 = t2
  BY <1>1, <1>6, GivenFacts
<1> HIDE DEF t3
<1>8. /\ t4 \in InputType /\ t4.submitted = t3.submitted /\ t4.activate = t3.activate
      /\ t4.blurred = t3.blurred /\ t4.focused = t3.focused /\ t4.value = t3.value
      /\ clear => t4.changed = f.id /\ t4.cursor = 0
      /\ ~clear => t4 = t3
  BY <1>7, WithClearFacts
<1> HIDE DEF t4
<1>9. tx \in [Buffer -> Bytes] /\ \A b \in Buffer : IsText(tx[b])
  BY <1>1, <1>2, EmptiedFacts
<1> HIDE DEF tx, clear
<1>10. /\ r.input = t4 /\ r.text = tx /\ r.drawn = (d.drawn \/ t2.focused = f.id)
       /\ r.heard = (d.heard \/ f.id \in {t4.changed, t4.submitted, t3.blurred})
       /\ r.fresh = d.fresh \cup IF clear THEN {f.id} ELSE {}
       /\ r.passed = (d.passed \/ (t2.focused = f.id /\ t2.value # f.buffer))
  BY <1>4
<1>11. DrawTyped(r)
  <2> DEFINE heard == d.heard \/ f.id \in {t4.changed, t4.submitted, t3.blurred}
             seen == d.drawn \/ t2.focused = f.id
             fresh == d.fresh \cup IF clear THEN {f.id} ELSE {}
             passed == d.passed \/ (t2.focused = f.id /\ t2.value # f.buffer)
  <2>1. heard \in BOOLEAN /\ seen \in BOOLEAN /\ passed \in BOOLEAN /\ fresh \in SUBSET Nat
    <3>1. heard \in BOOLEAN /\ seen \in BOOLEAN /\ passed \in BOOLEAN
      BY Zenon
    <3>2. fresh \in SUBSET Nat
      BY <1>1, <1>2
    <3> QED
      BY <3>1, <3>2
  <2>2. r = [input |-> t4, text |-> tx, drawn |-> seen, heard |-> heard, fresh |-> fresh,
             passed |-> passed]
    BY <1>4
  <2> HIDE DEF heard, seen, fresh, passed
  <2>3. r \in InputDraw
    BY <1>8, <1>9, <2>1, <2>2 DEF InputDraw
  <2> QED
    BY <1>9, <1>10, <2>3 DEF DrawTyped
<1> DEFINE opens == Opens(tap, t, f)
           focus == IF opens THEN f.id ELSE t.focused
           leaves == focus = f.id /\ tap[1] # "none" /\ tap[2] # f
           value == IF opens THEN f.buffer ELSE t.value
<1>12. /\ t1.focused = focus /\ t1.value = value /\ (leaves <=> Leaves(tap, t1, f))
       /\ t1.blurred = IF opens /\ t.focused # NoField THEN t.focused ELSE t.blurred
       /\ t1.cursor = IF opens THEN size ELSE t.cursor
  BY <1>5 DEF Leaves, OpenedIs
<1>13. t4.activate = FALSE /\ t4.submitted = t.submitted
  BY <1>a, <1>6, <1>7, <1>8
<1>14. t4.focused = (IF leaves THEN NoField ELSE focus)
       /\ (t2.focused = f.id <=> ~leaves /\ focus = f.id)
  BY <1>2, <1>6, <1>7, <1>8, <1>12
<1>15. t4.value = IF leaves THEN NoField ELSE IF focus = f.id THEN f.buffer ELSE t.value
  <2>1. CASE leaves
    BY <1>2, <1>6, <1>7, <1>8, <1>12, <2>1
  <2>2. CASE ~leaves /\ focus = f.id
    BY <1>7, <1>8, <1>14, <2>2
  <2>3. CASE ~leaves /\ focus # f.id
    <3>1. ~opens /\ value = t.value
      BY <2>3
    <3> QED
      BY <1>6, <1>7, <1>8, <1>12, <1>14, <2>3, <3>1
  <2> QED
    BY <2>1, <2>2, <2>3
<1>16. t4.blurred = IF leaves THEN f.id
                    ELSE IF opens /\ t.focused # NoField THEN t.focused ELSE t.blurred
  BY <1>6, <1>7, <1>8, <1>12
<1>17. t4.changed = IF clear THEN f.id ELSE t.changed
  BY <1>a, <1>6, <1>7, <1>8
<1>18. ~leaves => t4.cursor = IF clear THEN 0
                               ELSE IF opens THEN Clamped(size, d.text[f.buffer])
                               ELSE IF focus = f.id THEN Clamped(t.cursor, d.text[f.buffer])
                               ELSE t.cursor
  <2>1. CASE clear
    BY <1>8, <2>1
  <2>2. CASE ~clear /\ ~leaves /\ opens
    <3>1. t2 = t1 /\ t2.focused = f.id /\ t1.cursor = size
      BY <1>6, <1>12, <2>2
    <3> QED
      BY <1>7, <1>8, <2>2, <3>1
  <2>3. CASE ~clear /\ ~leaves /\ ~opens
    <3>1. t2 = t1 /\ t2.focused = focus /\ t1.cursor = t.cursor
      BY <1>6, <1>12, <2>3
    <3> QED
      BY <1>7, <1>8, <2>3, <3>1
  <2> QED
    BY <2>1, <2>2, <2>3
<1>19. (t2.focused = f.id /\ t2.value # f.buffer) <=> (~leaves /\ focus = f.id /\ value # f.buffer)
  BY <1>2, <1>6, <1>12, <1>14
<1>20. {t4.changed, t4.submitted, t3.blurred} = Notices(t4)
  BY <1>8 DEF Notices
<1>21. DrawResult(tap, d, f, r)
  <2> HIDE DEF focus, leaves, value, opens
  <2>1. r.drawn = (d.drawn \/ (~leaves /\ focus = f.id))
    BY <1>10, <1>14
  <2>2. r.heard = (d.heard \/ f.id \in Notices(t4))
    BY <1>10, <1>20
  <2>3. r.passed = (d.passed \/ (~leaves /\ focus = f.id /\ value # f.buffer))
    BY <1>10, <1>19
  <2>4. r.text = IF clear THEN [d.text EXCEPT ![f.buffer] = <<>>] ELSE d.text
    BY <1>10 DEF tx
  <2> QED
    BY <1>10, <1>13, <1>14, <1>15, <1>16, <1>17, <1>18, <2>1, <2>2, <2>3, <2>4, Zenon
       DEF DrawResult, focus, leaves, value, opens, clear
<1> QED
  BY <1>11, <1>21 DEF r

LEMMA NoticesStep ==
  ASSUME NEW tap, IsTap(tap), NEW S, NEW d, DrawTyped(d), NEW f \in FieldType, NEW r, DrawTyped(r),
         DrawResult(tap, d, f, r), NEW n, NoField \notin n, NEW x,
         Quiet(tap, d), NewsAreOut(S, d, n), LossIsOut(tap, S, d, x)
  PROVE  /\ Quiet(tap, r) /\ NewsAreOut(S \cup {f.id}, r, n)
         /\ LossIsOut(tap, S \cup {f.id}, r, x)
<1> DEFINE t == d.input
           u == r.input
           opens == Opens(tap, t, f)
           focus == IF opens THEN f.id ELSE t.focused
           leaves == focus = f.id /\ tap[1] # "none" /\ tap[2] # f
           clears == Clears(tap, d.text, f)
<1>1. /\ u.activate = FALSE /\ u.submitted = t.submitted
      /\ u.focused = IF leaves THEN NoField ELSE focus
      /\ u.value = IF leaves THEN NoField ELSE IF focus = f.id THEN f.buffer ELSE t.value
      /\ u.blurred = IF leaves THEN f.id
                     ELSE IF opens /\ t.focused # NoField THEN t.focused ELSE t.blurred
      /\ u.changed = IF clears THEN f.id ELSE t.changed
      /\ r.heard = (d.heard \/ f.id \in Notices(u))
  BY Zenon DEF DrawResult
<1>2. f.id # NoField /\ f = [id |-> f.id, buffer |-> f.buffer]
  BY FieldFacts
<1>3. tap[2] = f => tap[1] # "none"
  BY <1>2 DEF IsTap, Nowhere
<1>4. SUFFICES ASSUME ~r.heard
      PROVE  /\ Quiet(tap, r) /\ NewsAreOut(S \cup {f.id}, r, n)
             /\ LossIsOut(tap, S \cup {f.id}, r, x)
  BY DEF Quiet, NewsAreOut, LossIsOut
<1> HIDE DEF t, u, opens, clears
<1>5. ~d.heard /\ f.id \notin Notices(u)
  BY <1>1, <1>4
<1>6. ~leaves /\ ~clears /\ f.id # u.blurred
  BY <1>1, <1>5 DEF Notices
<1> HIDE DEF leaves
<1>7. /\ t.blurred = NoField \/ t.focused = NoField \/ Kept(tap, t)
      /\ \A i \in n : i \in Notices(t) /\ i \notin S
      /\ x # NoField => \/ t.focused = x /\ (x \in S => Kept(tap, t))
                        \/ t.blurred = x /\ x \notin S
  BY <1>5 DEF Quiet, NewsAreOut, LossIsOut, t
<1>8. /\ u.changed = t.changed /\ u.submitted = t.submitted /\ u.focused = focus
      /\ u.value = IF focus = f.id THEN f.buffer ELSE t.value
      /\ u.blurred = IF opens /\ t.focused # NoField THEN t.focused ELSE t.blurred
  BY <1>1, <1>6
<1>9. focus = f.id => tap[1] = "none" \/ tap[2] = f
  BY <1>6 DEF leaves
<1>10. CASE opens
  <2>1. focus = f.id /\ (tap[2] = f \/ t.activate) /\ At(t) # f
    BY <1>10 DEF opens, Opens
  <2>2. At(u) = f
    BY <1>2, <1>8, <2>1 DEF At
  <2>3. Kept(tap, u)
    BY <1>1, <1>9, <2>1, <2>2 DEF Kept
  <2>4. ~Kept(tap, t)
    BY <1>3, <2>1 DEF Kept
  <2>5. u.blurred = IF t.focused # NoField THEN t.focused ELSE t.blurred
    BY <1>8, <1>10
  <2>6. ASSUME NEW i \in n PROVE i \in Notices(u) /\ i \notin S \cup {f.id}
    <3>1. i \in Notices(t) /\ i \notin S /\ i # NoField
      BY <1>7
    <3>2. i \in Notices(u)
      BY <1>7, <1>8, <2>4, <2>5, <3>1 DEF Notices
    <3> QED
      BY <1>5, <3>1, <3>2
  <2>7. x # NoField => u.blurred = x /\ x \notin S \cup {f.id}
    BY <1>6, <1>7, <2>4, <2>5
  <2> QED
    BY <2>3, <2>6, <2>7 DEF Quiet, NewsAreOut, LossIsOut, u
<1>11. CASE ~opens
  <2>1. focus = t.focused /\ u.blurred = t.blurred /\ ~((tap[2] = f \/ t.activate) /\ At(t) # f)
    BY <1>8, <1>11 DEF opens, Opens
  <2>2. Notices(u) = Notices(t)
    BY <1>8, <2>1 DEF Notices
  <2>3. t.focused = f.id => Kept(tap, u)
    <3>1. SUFFICES ASSUME t.focused = f.id PROVE Kept(tap, u)
      OBVIOUS
    <3>2. CASE tap[1] = "none"
      BY <1>1, <3>2 DEF Kept
    <3>3. CASE tap[2] = f
      <4>1. At(u) = f
        BY <1>2, <1>8, <2>1, <3>1 DEF At
      <4> QED
        BY <1>1, <3>3, <4>1 DEF Kept
    <3> QED
      BY <1>9, <2>1, <3>1, <3>2, <3>3
  <2>4. Kept(tap, t) => Kept(tap, u)
    <3>1. CASE t.focused = f.id
      BY <2>3, <3>1
    <3>2. CASE t.focused # f.id
      <4>1. At(u) = At(t)
        BY <1>8, <2>1, <3>2 DEF At
      <4> QED
        BY <1>1, <4>1 DEF Kept
    <3> QED
      BY <3>1, <3>2
  <2>5. u.blurred = NoField \/ u.focused = NoField \/ Kept(tap, u)
    BY <1>7, <1>8, <2>1, <2>4
  <2>6. ASSUME NEW i \in n PROVE i \in Notices(u) /\ i \notin S \cup {f.id}
    BY <1>5, <1>7, <2>2
  <2>7. x # NoField => \/ u.focused = x /\ (x \in S \cup {f.id} => Kept(tap, u))
                       \/ u.blurred = x /\ x \notin S \cup {f.id}
    BY <1>6, <1>7, <1>8, <2>1, <2>3, <2>4
  <2> QED
    BY <2>5, <2>6, <2>7 DEF Quiet, NewsAreOut, LossIsOut, u
<1> QED
  BY <1>10, <1>11

LEMMA ShowsStep ==
  ASSUME NEW tap, NEW d, NEW f \in FieldType, NEW r, DrawResult(tap, d, f, r),
         NEW fields, f \in fields, ShowsFocus(d, fields)
  PROVE  ShowsFocus(r, fields)
<1> DEFINE t == d.input
           u == r.input
           opens == Opens(tap, t, f)
           focus == IF opens THEN f.id ELSE t.focused
           leaves == focus = f.id /\ tap[1] # "none" /\ tap[2] # f
<1>1. /\ u.focused = IF leaves THEN NoField ELSE focus
      /\ u.value = IF leaves THEN NoField ELSE IF focus = f.id THEN f.buffer ELSE t.value
      /\ r.drawn = (d.drawn \/ (~leaves /\ focus = f.id))
  BY Zenon DEF DrawResult
<1>2. f.id # NoField /\ f.buffer # NoField /\ f = [id |-> f.id, buffer |-> f.buffer]
  BY FieldFacts
<1>3. Filled(t) /\ (d.drawn /\ t.focused # NoField => At(t) \in fields)
  BY DEF ShowsFocus
<1>4. focus # f.id => focus = t.focused
  OBVIOUS
<1> HIDE DEF t, u, opens, focus, leaves
<1>5. CASE leaves
  BY <1>1, <1>5 DEF ShowsFocus, Filled, u
<1>6. CASE ~leaves /\ focus = f.id
  <2>1. At(u) = f
    BY <1>1, <1>2, <1>6 DEF At
  <2>2. Filled(u)
    BY <1>1, <1>2, <1>6 DEF Filled
  <2> QED
    BY <2>1, <2>2 DEF ShowsFocus, u
<1>7. CASE ~leaves /\ focus # f.id
  <2>1. u.focused = t.focused /\ u.value = t.value /\ (r.drawn => d.drawn)
    BY <1>1, <1>4, <1>7
  <2>2. At(u) = At(t) /\ Filled(u)
    BY <1>3, <2>1 DEF At, Filled
  <2> QED
    BY <1>3, <2>1, <2>2 DEF ShowsFocus, u
<1> QED
  BY <1>5, <1>6, <1>7

LEMMA SteadyStep ==
  ASSUME NEW tap, NEW d, DrawTyped(d), NEW f \in FieldType, NEW r, DrawTyped(r),
         DrawResult(tap, d, f, r), NEW far \in BOOLEAN, StillSteady(d, far)
  PROVE  StillSteady(r, far)
<1> DEFINE t == d.input
           u == r.input
           b == f.buffer
           opens == Opens(tap, t, f)
           focus == IF opens THEN f.id ELSE t.focused
           leaves == focus = f.id /\ tap[1] # "none" /\ tap[2] # f
           value == IF opens THEN f.buffer ELSE t.value
           clears == Clears(tap, d.text, f)
<1>1. /\ u.focused = IF leaves THEN NoField ELSE focus
      /\ u.value = IF leaves THEN NoField ELSE IF focus = f.id THEN b ELSE t.value
      /\ r.text = IF clears THEN [d.text EXCEPT ![b] = <<>>] ELSE d.text
      /\ r.passed = (d.passed \/ (~leaves /\ focus = f.id /\ value # b))
      /\ ~leaves => u.cursor = IF clears THEN 0
                               ELSE IF opens THEN Clamped(Len(d.text[b]), d.text[b])
                               ELSE IF focus = f.id THEN Clamped(t.cursor, d.text[b])
                               ELSE t.cursor
  BY Zenon DEF DrawResult
<1>2. SUFFICES ASSUME ~r.passed, ~far PROVE Steady(far, u, r.text)
  BY DEF StillSteady, Steady
<1>3. b \in Buffer /\ b # NoField
  BY FieldFacts
<1>4. d.text \in [Buffer -> Bytes] /\ t.value \in Buffer \cup {NoField} /\ t.cursor \in Nat
  BY DEF DrawTyped, InputDraw, InputType
<1>5. \A c \in Buffer : d.text[c] \in Seq(Nat)
  BY <1>4 DEF Bytes
<1>6. opens => focus = f.id /\ value = b
  OBVIOUS
<1>7. ~opens => focus = t.focused /\ value = t.value
  OBVIOUS
<1> HIDE DEF t, u, b, opens, focus, leaves, value, clears, Bytes
<1>8. ~d.passed /\ (~leaves /\ focus = f.id => value = b)
  BY <1>1, <1>2
<1>9. /\ \A c \in Buffer : Whole(d.text[c])
      /\ t.value # NoField => OnCharacter(d.text[t.value], Clamped(t.cursor, d.text[t.value]))
  BY <1>2, <1>8 DEF StillSteady, Steady, t
<1>10. Whole(<<>>) /\ Clamped(0, <<>>) = 0 /\ \A s \in Seq(Nat) : Clamped(0, s) = 0
  <2>1. \A s \in Seq(Nat) : Len(s) \in Nat
    OBVIOUS
  <2>2. <<>> \in Seq(Nat)
    OBVIOUS
  <2> QED
    BY <2>1, <2>2 DEF Whole, Clamped
<1>11. \A c \in Buffer : Whole(r.text[c])
  BY <1>1, <1>3, <1>4, <1>9, <1>10
<1>12. ASSUME u.value # NoField
       PROVE  OnCharacter(r.text[u.value], Clamped(u.cursor, r.text[u.value]))
  <2>1. ~leaves /\ u.value \in Buffer
    BY <1>1, <1>3, <1>4, <1>12
  <2>2. CASE clears
    <3>1. u.cursor = 0 /\ r.text[u.value] \in Seq(Nat)
      <4>1. r.text = [d.text EXCEPT ![b] = <<>>]
        BY <1>1, <2>2
      <4>2. <<>> \in Seq(Nat)
        OBVIOUS
      <4> QED
        BY <1>1, <1>3, <1>4, <1>5, <2>1, <2>2, <4>1, <4>2
    <3> QED
      BY <1>10, <3>1 DEF OnCharacter
  <2>3. CASE ~clears /\ focus = f.id
    <3>1. u.value = b /\ r.text = d.text /\ value = b
      BY <1>1, <1>8, <2>1, <2>3
    <3>2. d.text[b] \in Seq(Nat) /\ Len(d.text[b]) \in Nat
      BY <1>3, <1>5
    <3>3. CASE opens
      <4>1. u.cursor = Clamped(Len(d.text[b]), d.text[b])
        BY <1>1, <2>1, <2>3, <3>3
      <4>2. Clamped(Len(d.text[b]), d.text[b]) = Len(d.text[b])
        BY <3>2 DEF Clamped
      <4>3. OnCharacter(d.text[b], Len(d.text[b]))
        BY DEF OnCharacter
      <4> QED
        BY <3>1, <4>1, <4>2, <4>3
    <3>4. CASE ~opens
      <4>1. u.cursor = Clamped(t.cursor, d.text[b]) /\ t.value = b
        BY <1>1, <1>7, <2>1, <2>3, <3>1, <3>4
      <4>2. Clamped(u.cursor, d.text[b]) = Clamped(t.cursor, d.text[b])
        BY <1>4, <3>2, <4>1, ClampedFacts
      <4> QED
        BY <1>3, <1>9, <3>1, <4>1, <4>2
    <3> QED
      BY <3>3, <3>4
  <2>4. CASE ~clears /\ focus # f.id
    <3>1. u.value = t.value /\ r.text = d.text /\ u.cursor = t.cursor
      BY <1>1, <1>6, <2>1, <2>4
    <3> QED
      BY <1>9, <1>12, <3>1
  <2> QED
    BY <2>2, <2>3, <2>4
<1> QED
  BY <1>11, <1>12 DEF Steady

LEMMA DrawStep ==
  ASSUME NEW tap, IsTap(tap), NEW S, NEW d, NEW n, NoField \notin n, NEW x, NEW fields,
         NEW far \in BOOLEAN, DrawInv(tap, S, d, n, x, fields, far),
         NEW f \in FieldType, f \in fields
  PROVE  DrawInv(tap, S \cup {f.id}, DrawField(tap, d, f), n, x, fields, far)
<1> DEFINE r == DrawField(tap, d, f)
<1>1. /\ DrawTyped(d) /\ (d.fresh # {} => d.heard)
      /\ Quiet(tap, d) /\ NewsAreOut(S, d, n) /\ LossIsOut(tap, S, d, x)
      /\ ShowsFocus(d, fields) /\ StillSteady(d, far)
  BY DEF DrawInv
<1>2. DrawTyped(r) /\ DrawResult(tap, d, f, r)
  BY <1>1, DrawFieldFacts
<1> HIDE DEF r
<1>3. r.fresh # {} => r.heard
  <2> DEFINE clears == Clears(tap, d.text, f)
  <2>1. /\ r.fresh = d.fresh \cup IF clears THEN {f.id} ELSE {}
        /\ r.heard = (d.heard \/ f.id \in Notices(r.input))
        /\ clears => r.input.changed = f.id
    BY <1>2, Zenon DEF DrawResult
  <2> HIDE DEF clears
  <2>2. clears => f.id \in Notices(r.input)
    BY <2>1 DEF Notices
  <2> QED
    BY <1>1, <2>1, <2>2
<1>4. Quiet(tap, r) /\ NewsAreOut(S \cup {f.id}, r, n) /\ LossIsOut(tap, S \cup {f.id}, r, x)
  BY <1>1, <1>2, NoticesStep
<1>5. ShowsFocus(r, fields)
  BY <1>1, <1>2, ShowsStep
<1>6. StillSteady(r, far)
  BY <1>1, <1>2, SteadyStep
<1> QED
  BY <1>2, <1>3, <1>4, <1>5, <1>6 DEF DrawInv, r

Ids(i) == {shown.fields[j].id : j \in 1 .. i}

LEMMA DrawAllFacts ==
  ASSUME shown \in Shown, NEW tap, IsTap(tap), NEW n, NoField \notin n, NEW x,
         NEW far \in BOOLEAN, NEW d0, DrawInv(tap, {}, d0, n, x, Fields, far)
  PROVE  DrawInv(tap, {f.id : f \in Fields}, DrawAll(tap, d0), n, x, Fields, far)
<1> DEFINE q == shown.fields
           m == Len(q)
           D == {d \in InputDraw : DrawTyped(d)}
           F == [i \in 1 .. m |-> [d \in D |-> DrawField(tap, d, q[i])]]
           Grows(f) == f = [i \in 0 .. m |-> IF i = 0 THEN d0 ELSE DrawField(tap, f[i - 1], q[i])]
<1>1. m \in Nat /\ \A i \in 1 .. m : q[i] \in FieldType /\ q[i] \in Fields
  <2>1. q \in Seq(FieldType)
    BY InputAssumption DEF FieldType
  <2>2. m \in Nat /\ DOMAIN q = 1 .. m /\ \A i \in 1 .. m : q[i] \in FieldType
    BY <2>1
  <2> QED
    BY <2>2 DEF Fields
<1>2. d0 \in D
  BY DEF DrawInv, DrawTyped
<1>3. \A d \in D, i \in 1 .. m : DrawField(tap, d, q[i]) \in D
  <2> TAKE d \in D, i \in 1 .. m
  <2>1. DrawTyped(d) /\ q[i] \in FieldType
    BY <1>1
  <2> HIDE DEF q
  <2>2. DrawTyped(DrawField(tap, d, q[i]))
    BY <2>1, DrawFieldFacts
  <2> QED
    BY <2>2 DEF DrawTyped
<1> HIDE DEF D, m, q
<1>5. F \in [1 .. m -> [D -> D]]
  BY <1>3
<1>6. \A d \in D, i \in 1 .. m : F[i][d] = DrawField(tap, d, q[i])
  <2> TAKE d \in D, i \in 1 .. m
  <2>1. F[i] = [s \in D |-> DrawField(tap, s, q[i])]
    OBVIOUS
  <2> HIDE DEF F
  <2> QED
    BY <2>1
<1> HIDE DEF F
<1>7. PICK f : Iterates(f, m, D, d0, F)
  <2>1. CanIterate(m, D, d0, F)
    BY <1>1, <1>2, <1>5 DEF CanIterate
  <2> QED
    BY <2>1, Iterated
<1>8. f \in [0 .. m -> D] /\ f[0] = d0 /\ \A i \in 1 .. m : f[i] = F[i][f[i - 1]]
  BY <1>7 DEF Iterates
<1>9. \A k \in 0 .. m : f[k] = IF k = 0 THEN d0 ELSE DrawField(tap, f[k - 1], q[k])
  <2> TAKE k \in 0 .. m
  <2>1. CASE k = 0
    BY <1>8, <2>1
  <2>2. CASE k # 0
    <3>1. k \in 1 .. m /\ k - 1 \in 0 .. m
      BY <1>1, <2>2
    <3> QED
      BY <1>6, <1>8, <2>2, <3>1
  <2> QED
    BY <2>1, <2>2
<1>10. Grows(f)
  <2>1. f = [k \in 0 .. m |-> f[k]]
    BY <1>8
  <2> QED
    BY <1>9, <2>1
<1> DEFINE g == CHOOSE h : Grows(h)
<1>11. Grows(g)
  BY <1>10
<1>12. DrawAll(tap, d0) = g[m]
  BY DEF DrawAll, q, m
<1> HIDE DEF g
<1>13. g[0] = d0 /\ \A k \in 1 .. m : g[k] = DrawField(tap, g[k - 1], q[k])
  BY <1>1, <1>11
<1> DEFINE Good == {k \in 0 .. m : DrawInv(tap, Ids(k), g[k], n, x, Fields, far)}
<1>14. 0 \in Good
  <2>1. Ids(0) = {}
    BY DEF Ids
  <2> QED
    BY <1>1, <1>13, <2>1
<1>15. ASSUME NEW k \in 0 .. m - 1, k \in Good PROVE k + 1 \in Good
  <2>1. k + 1 \in 1 .. m /\ (k + 1) - 1 = k /\ k + 1 \in 0 .. m
    BY <1>1
  <2>2. g[k + 1] = DrawField(tap, g[k], q[k + 1])
    BY <1>13, <2>1
  <2>3. q[k + 1] \in FieldType /\ q[k + 1] \in Fields
    BY <1>1, <2>1
  <2>4. Ids(k + 1) = Ids(k) \cup {q[k + 1].id}
    <3>1. \A j : j \in 1 .. k + 1 <=> j \in 1 .. k \/ j = k + 1
      BY <2>1
    <3> QED
      BY <3>1 DEF Ids, q
  <2>5. DrawInv(tap, Ids(k), g[k], n, x, Fields, far)
    BY <1>15
  <2>6. DrawInv(tap, Ids(k) \cup {q[k + 1].id}, DrawField(tap, g[k], q[k + 1]), n, x, Fields, far)
    BY <2>3, <2>5, DrawStep
  <2> QED
    BY <2>1, <2>2, <2>4, <2>6
<1>16. m \in Good
  <2> HIDE DEF Good
  <2>1. \A k \in 0 .. m : k \in Good
    BY <1>1, <1>14, <1>15, Induction
  <2> QED
    BY <1>1, <2>1
<1>17. Ids(m) = {e.id : e \in Fields}
  <2>1. q \in Seq(FieldType)
    BY InputAssumption DEF FieldType, q
  <2>2. DOMAIN q = 1 .. m
    BY <2>1 DEF m
  <2> QED
    BY <2>2 DEF Ids, Fields, q
<1> QED
  BY <1>12, <1>16, <1>17

LEMMA EndFrameFacts ==
  ASSUME NEW t \in InputType
  PROVE  LET e == EndFrame(t)
         IN  /\ e \in InputType /\ e.focused = t.focused /\ e.value = t.value
             /\ e.cursor = t.cursor /\ e.blurred = NoField
<1> HIDE DEF Bytes
<1> QED
  BY DEF EndFrame, InputType, NoField

\* What a frame starts with.
LEMMA FrameStarts ==
  ASSUME InputInv, NEW tap \in Taps,
         NEW d0, d0 = [input |-> IF tap[1] = "afresh" THEN [input EXCEPT !.activate = TRUE] ELSE input,
                       text |-> IF tap[1] = "afresh" THEN [text EXCEPT ![tap[2].buffer] = <<>>]
                                ELSE text,
                       drawn |-> FALSE, heard |-> FALSE, fresh |-> {}, passed |-> FALSE]
  PROVE  /\ IsTap(tap) /\ NoField \notin news
         /\ DrawInv(tap, {}, d0, news, input.focused, Fields, strayed)
<1>1. /\ InputTypeOK /\ Filled(input) /\ Noticed(input, news) /\ Steady(strayed, input, text)
  BY DEF InputInv
<1>2. IsTap(tap) /\ (tap[1] = "afresh" => tap[2] = shown.fields[1])
  <2>1. \/ \E f \in Fields : tap = <<"field", f>> \/ tap = <<"clear", f>>
        \/ tap = <<"none", Nowhere>> \/ tap = <<"elsewhere", Nowhere>>
        \/ tap = <<"afresh", shown.fields[1]>>
    BY DEF Taps
  <2> QED
    BY <2>1 DEF IsTap
<1>3. /\ d0.input \in InputType /\ d0.input.focused = input.focused
      /\ d0.input.value = input.value /\ d0.input.cursor = input.cursor
      /\ d0.input.changed = input.changed /\ d0.input.submitted = input.submitted
      /\ d0.input.blurred = input.blurred
  <2>1. input \in InputType
    BY <1>1 DEF InputTypeOK
  <2> HIDE DEF Bytes
  <2>2. CASE tap[1] = "afresh"
    <3>1. d0.input = [input EXCEPT !.activate = TRUE]
      BY <2>2
    <3> QED
      BY <2>1, <3>1 DEF InputType
  <2>3. CASE tap[1] # "afresh"
    BY <2>1, <2>3
  <2> QED
    BY <2>2, <2>3
<1>4. /\ d0.text \in [Buffer -> Bytes] /\ \A c \in Buffer : IsText(d0.text[c])
      /\ Steady(strayed, d0.input, d0.text)
  <2>1. /\ text \in [Buffer -> Bytes] /\ (\A c \in Buffer : IsText(text[c]))
        /\ strayed \in BOOLEAN /\ input \in InputType
    BY <1>1 DEF InputTypeOK
  <2>2. CASE tap[1] = "afresh"
    <3> DEFINE b == tap[2].buffer
               new == [text EXCEPT ![b] = <<>>]
    <3>1. b \in Buffer
      BY <1>1, <1>2, <2>2, ScreenFacts DEF InputTypeOK
    <3> HIDE DEF b
    <3>2. /\ new \in [Buffer -> Bytes] /\ \A c \in Buffer : IsText(new[c])
          /\ \A far \in BOOLEAN, t \in InputType, u \in InputType :
               Steady(far, t, text) /\ u.value = t.value /\ u.cursor = t.cursor =>
                 Steady(far, u, new)
      BY <2>1, <3>1, EmptiedFacts
    <3>3. d0.text = new
      BY <2>2 DEF b
    <3> HIDE DEF new
    <3>4. Steady(strayed, d0.input, new)
      BY <1>1, <1>3, <2>1, <3>2
    <3> QED
      BY <3>2, <3>3, <3>4
  <2>3. CASE tap[1] # "afresh"
    <3>1. d0.text = text /\ d0.input = input
      BY <2>3
    <3> QED
      BY <1>1, <2>1, <3>1
  <2> QED
    BY <2>2, <2>3
<1>5. d0.drawn = FALSE /\ d0.heard = FALSE /\ d0.fresh = {} /\ d0.passed = FALSE
  OBVIOUS
<1>6. d0 = [input |-> d0.input, text |-> d0.text, drawn |-> FALSE, heard |-> FALSE,
            fresh |-> {}, passed |-> FALSE]
  OBVIOUS
<1>7. DrawTyped(d0)
  <2>1. [input |-> d0.input, text |-> d0.text, drawn |-> FALSE, heard |-> FALSE,
            fresh |-> {}, passed |-> FALSE] \in InputDraw
    <3> DEFINE i == d0.input
               s == d0.text
    <3> HIDE DEF i, s, Bytes, InputType
    <3>1. i \in InputType /\ s \in [Buffer -> Bytes]
      BY <1>3, <1>4 DEF i, s
    <3>2. [input |-> i, text |-> s, drawn |-> FALSE, heard |-> FALSE,
            fresh |-> {}, passed |-> FALSE] \in InputDraw
      BY <3>1 DEF InputDraw
    <3> QED
      BY <3>2 DEF i, s
  <2> QED
    BY <1>4, <1>6, <2>1 DEF DrawTyped
<1>8. Quiet(tap, d0) /\ NewsAreOut({}, d0, news) /\ LossIsOut(tap, {}, d0, input.focused)
  <2>1. Quiet(tap, d0)
    BY <1>1, <1>3 DEF Quiet, Noticed
  <2>2. NewsAreOut({}, d0, news)
    BY <1>1, <1>3 DEF NewsAreOut, Noticed, Notices
  <2>3. LossIsOut(tap, {}, d0, input.focused)
    BY <1>3 DEF LossIsOut
  <2> QED
    BY <2>1, <2>2, <2>3
<1>9. ShowsFocus(d0, Fields)
  BY <1>1, <1>3, <1>5 DEF ShowsFocus, Filled
<1> QED
  BY <1>1, <1>2, <1>4, <1>5, <1>7, <1>8, <1>9 DEF DrawInv, StillSteady, Noticed

LEMMA FrameStep ==
  ASSUME InputInv, NEW tap \in Taps, Frame(tap)
  PROVE  InputInv'
<1> DEFINE afresh == tap[1] = "afresh"
           d0 == [input |-> IF afresh THEN [input EXCEPT !.activate = TRUE] ELSE input,
                  text |-> IF afresh THEN [text EXCEPT ![tap[2].buffer] = <<>>] ELSE text,
                  drawn |-> FALSE, heard |-> FALSE, fresh |-> {}, passed |-> FALSE]
           d == DrawAll(tap, d0)
           ids == {f.id : f \in Fields}
           left == IF d.input.focused = input.focused THEN {} ELSE {input.focused} \ {NoField}
<1>1. InputTypeOK
  BY DEF InputInv
<1>2. /\ input' = EndFrame(Synced(d)) /\ text' = d.text
      /\ unheard' = (ids \cap (news \cup d.fresh \cup left) # {} /\ ~d.heard)
      /\ unseen' = ~(/\ (input'.focused = NoField) = (input'.value = NoField)
                     /\ input'.focused # NoField =>
                          [id |-> input'.focused, buffer |-> input'.value] \in Fields)
      /\ news' = {} /\ strayed' = (strayed \/ d.passed) /\ UNCHANGED <<shown, sent>>
  BY Zenon DEF Frame
<1>3. /\ IsTap(tap) /\ NoField \notin news
      /\ DrawInv(tap, {}, d0, news, input.focused, Fields, strayed)
  BY FrameStarts
<1> HIDE DEF d0
<1>4. DrawInv(tap, ids, d, news, input.focused, Fields, strayed)
  BY <1>1, <1>3, DrawAllFacts DEF InputTypeOK
<1> HIDE DEF d
<1>5. /\ d.input \in InputType /\ d.text \in [Buffer -> Bytes] /\ d.passed \in BOOLEAN
      /\ \A b \in Buffer : IsText(d.text[b])
  <2> HIDE DEF Bytes, InputType
  <2> QED
    BY <1>4 DEF DrawInv, DrawTyped, InputDraw
<1> DEFINE s == Synced(d)
<1>6. /\ s \in InputType /\ Filled(s) /\ (s.focused # NoField => At(s) \in Fields)
      /\ s.value # NoField => s = d.input
  <2>0. Filled(d.input) /\ (d.drawn /\ d.input.focused # NoField => At(d.input) \in Fields)
    BY <1>4 DEF DrawInv, ShowsFocus
  <2>1. CASE d.input.focused # NoField /\ ~d.drawn
    <3>1. s = Deactivate(d.input, FALSE)
      BY <2>1 DEF Synced
    <3> DEFINE t == Deactivate(d.input, FALSE)
    <3>a. d.input \in InputType /\ FALSE \in BOOLEAN
      BY <1>5
    <3>b. t \in InputType /\ t.focused = NoField /\ t.value = NoField
      BY <3>a, DeactivateFacts
    <3>2. s \in InputType /\ s.focused = NoField /\ s.value = NoField
      BY <3>1, <3>b
    <3> QED
      BY <3>2 DEF Filled
  <2>2. CASE ~(d.input.focused # NoField /\ ~d.drawn)
    <3>1. s = d.input
      BY <2>2 DEF Synced
    <3> HIDE DEF s
    <3> QED
      BY <1>5, <2>0, <2>2, <3>1
  <2> QED
    BY <2>1, <2>2
<1> HIDE DEF s
<1>7. /\ input' \in InputType /\ input'.focused = s.focused /\ input'.value = s.value
      /\ input'.cursor = s.cursor /\ input'.blurred = NoField
  BY <1>2, <1>6, EndFrameFacts DEF s
<1>8. ~unseen'
  <2>1. (input'.focused = NoField) <=> (input'.value = NoField)
    BY <1>6, <1>7 DEF Filled
  <2>2. input'.focused # NoField => [id |-> input'.focused, buffer |-> input'.value] \in Fields
    BY <1>6, <1>7 DEF At
  <2> QED
    BY <1>2, <2>1, <2>2
<1>9. ~unheard'
  <2>1. SUFFICES ASSUME NEW i \in ids, i \in news \cup d.fresh \cup left, ~d.heard PROVE FALSE
    BY <1>2
  <2>2. /\ d.fresh # {} => d.heard
        /\ NewsAreOut(ids, d, news) /\ LossIsOut(tap, ids, d, input.focused)
    BY <1>4 DEF DrawInv
  <2> HIDE DEF ids
  <2>3. i \notin news
    BY <2>1, <2>2 DEF NewsAreOut
  <2>4. i \notin d.fresh
    BY <2>1, <2>2
  <2>5. i \notin left
    BY <2>1, <2>2 DEF LossIsOut
  <2> QED
    BY <2>1, <2>3, <2>4, <2>5
<1>10. strayed' \in BOOLEAN
  BY <1>2
<1>11. Steady(strayed', input', text')
  <2>1. SUFFICES ASSUME ~strayed' PROVE Steady(strayed', input', text')
    BY DEF Steady
  <2>2. ~strayed /\ ~d.passed
    BY <1>2, <2>1
  <2>3. Steady(strayed, d.input, d.text)
    BY <1>4, <2>2 DEF DrawInv, StillSteady
  <2>4. /\ \A b \in Buffer : Whole(d.text[b])
        /\ s.value # NoField => OnCharacter(d.text[s.value], Clamped(s.cursor, d.text[s.value]))
    BY <1>6, <2>2, <2>3 DEF Steady
  <2> QED
    BY <1>2, <1>7, <2>4 DEF Steady
<1>12. InputTypeOK'
  BY <1>1, <1>2, <1>5, <1>7, <1>10 DEF InputTypeOK
<1>13. Filled(input') /\ Noticed(input', news')
  BY <1>2, <1>6, <1>7 DEF Filled, Noticed
<1> QED
  BY <1>8, <1>9, <1>11, <1>12, <1>13 DEF InputInv, Filled, Noticed, Steady

LEMMA InputStep == InputInv /\ [InputNext]_inputVars => InputInv'
<1> SUFFICES ASSUME InputInv, [InputNext]_inputVars PROVE InputInv'
  OBVIOUS
<1>1. CASE \E u \in Typed : TextEditing(u) \/ TextCommitted(u)
  BY <1>1, TextEditingStep, TextCommittedStep
<1>2. CASE CursorKey \/ KeyBackspace
  BY <1>2, CursorKeyStep, KeyBackspaceStep
<1>3. CASE KeyReturn \/ WindowFocusLost
  BY <1>3, KeyReturnStep, WindowFocusLostStep
<1>4. CASE \E s \in Shown : ScreenGo(s)
  BY <1>4, ScreenGoStep
<1>5. CASE \E tap \in Taps : Frame(tap)
  BY <1>5, FrameStep
<1>6. CASE UNCHANGED inputVars
  BY <1>6 DEF inputVars, InputInv, InputTypeOK, Filled, Noticed, Steady
<1> QED
  BY <1>1, <1>2, <1>3, <1>4, <1>5, <1>6 DEF InputNext

\* What the fields keep between two frames: the focus has a buffer, every piece
\* of news has its notice, and what did not stray stands on whole characters.
THEOREM InputInvariant == InputSpec => []InputInv
<1>1. InputInit => InputInv
  BY InputStart
<1>2. InputInv /\ [InputNext]_inputVars => InputInv'
  BY InputStep
<1> QED
  BY <1>1, <1>2, PTL DEF InputSpec

\* The field that keeps the focus after a frame is one the frame has shown
\* (mobile_text_input_sync), whatever the screens share.
THEOREM FocusStaysShown == InputSpec => []FocusIsShown
<1>1. InputInv => FocusIsShown
  BY DEF InputInv, FocusIsShown
<1> QED
  BY <1>1, InputInvariant, PTL

\* A notice reaches the field it is about in the frame that draws it, in
\* whatever order the fields are drawn and wherever the frame is tapped.
THEOREM NewsReachTheirField == InputSpec => []NewsIsHeard
<1>1. InputInv => NewsIsHeard
  BY DEF InputInv, NewsIsHeard
<1> QED
  BY <1>1, InputInvariant, PTL

\* No edit splits a UTF-8 character or overruns the buffer, for any texts and
\* any size of the buffers.
THEOREM CharactersStayWhole == InputSpec => []WholeCharacters
<1>1. InputInv => WholeCharacters
  <2> SUFFICES ASSUME InputInv PROVE WholeCharacters
    OBVIOUS
  <2>1. (\A b \in Buffer : IsText(text[b])) /\ Steady(strayed, input, text)
    BY DEF InputInv, InputTypeOK
  <2> QED
    BY <2>1 DEF IsText, Steady, WholeCharacters, Value
<1> QED
  BY <1>1, InputInvariant, PTL

-----------------------------------------------------------------------------
(* Glyphs. *)

\* A fold of a sequence of length n goes through the subsets of 1 .. n and
\* takes the greatest element last.
FoldsTo(f, n, base, F) ==
  f = [s \in SUBSET (1 .. n) |-> IF s = {} THEN base ELSE F[Max(s)][f[s \ {Max(s)}]]]

LEMMA MaxOfInterval ==
  ASSUME NEW n \in Nat, n # 0
  PROVE  Max(1 .. n) = n /\ 1 .. n # {} /\ (1 .. n) \ {n} = 1 .. n - 1
<1>1. n \in 1 .. n /\ 1 .. n \subseteq 0 .. n
  OBVIOUS
<1>2. Max(1 .. n) \in 1 .. n /\ n <= Max(1 .. n)
  BY <1>1, GreatestIn
<1> QED
  BY <1>1, <1>2

LEMMA Folded ==
  ASSUME NEW n, NEW D, NEW base, NEW F, CanIterate(n, D, base, F)
  PROVE  \E f \in [SUBSET (1 .. n) -> D] : FoldsTo(f, n, base, F)
<1> USE DEF CanIterate
<1> DEFINE Run(f, k) == f \in [SUBSET (1 .. k) -> D] /\ FoldsTo(f, k, base, F)
           Good == {k \in 0 .. n : \E f : Run(f, k)}
<1>1. 0 \in Good
  <2> DEFINE g == [s \in SUBSET (1 .. 0) |-> base]
  <2>1. g \in [SUBSET (1 .. 0) -> D] /\ \A s \in SUBSET (1 .. 0) : s = {}
    OBVIOUS
  <2>2. FoldsTo(g, 0, base, F)
    BY <2>1 DEF FoldsTo
  <2>3. 0 \in 0 .. n /\ Run(g, 0)
    BY <2>1, <2>2
  <2> HIDE DEF g, Run
  <2> QED
    BY <2>3
<1>2. ASSUME NEW k \in 0 .. n - 1, k \in Good PROVE k + 1 \in Good
  <2>1. PICK f : Run(f, k)
    BY <1>2
  <2> DEFINE m == k + 1
             g == [s \in SUBSET (1 .. m) |-> IF m \in s THEN F[m][f[s \ {m}]] ELSE f[s]]
  <2>2. k \in Nat /\ m \in 1 .. n /\ m \in 0 .. n /\ (1 .. m) \ {m} = 1 .. k
    OBVIOUS
  <2>3. \A s \in SUBSET (1 .. m) : s \ {m} \in SUBSET (1 .. k) /\ (m \notin s => s \in SUBSET (1 .. k))
    BY <2>2
  <2>4. \A t \in SUBSET (1 .. k) : f[t] \in D /\ m \notin t
    BY <2>1, <2>2
  <2>5. \A x \in D : F[m][x] \in D
    BY <2>2
  <2>6. g \in [SUBSET (1 .. m) -> D]
    BY <2>3, <2>4, <2>5
  <2> HIDE DEF m
  <2>7. ASSUME NEW s \in SUBSET (1 .. m)
        PROVE  g[s] = IF s = {} THEN base ELSE F[Max(s)][g[s \ {Max(s)}]]
    <3>1. CASE s = {}
      <4>1. g[s] = f[s] /\ s \in SUBSET (1 .. k)
        BY <3>1
      <4>2. f[s] = base
        BY <2>1, <3>1, <4>1 DEF FoldsTo
      <4> QED
        BY <3>1, <4>1, <4>2
    <3>2. CASE m \in s
      <4>1. Max(s) = m
        <5>1. m \in Nat /\ s # {} /\ s \subseteq 0 .. m
          BY <2>2, <3>2
        <5>2. Max(s) \in s /\ \A i \in s : i <= Max(s)
          BY <5>1, GreatestIn
        <5>3. Max(s) \in 1 .. m /\ m <= Max(s)
          BY <3>2, <5>2
        <5> QED
          BY <5>1, <5>3
      <4>2. s \ {m} \in SUBSET (1 .. k) /\ s \ {m} \in SUBSET (1 .. m) /\ m \notin s \ {m}
        BY <2>3
      <4>3. g[s \ {m}] = f[s \ {m}]
        BY <4>2
      <4>4. g[s] = F[m][f[s \ {m}]]
        BY <3>2
      <4> QED
        BY <3>2, <4>1, <4>3, <4>4
    <3>3. CASE s # {} /\ m \notin s
      <4>1. s \in SUBSET (1 .. k) /\ s \ {Max(s)} \in SUBSET (1 .. k) /\ s \ {Max(s)} \in SUBSET (1 .. m)
        BY <2>2, <2>3, <3>3
      <4>2. g[s] = f[s] /\ g[s \ {Max(s)}] = f[s \ {Max(s)}]
        BY <3>3, <4>1
      <4>3. f[s] = F[Max(s)][f[s \ {Max(s)}]]
        BY <2>1, <3>3, <4>1 DEF FoldsTo
      <4> QED
        BY <3>3, <4>2, <4>3
    <3> QED
      BY <3>1, <3>2, <3>3
  <2>8. FoldsTo(g, m, base, F)
    <3>1. g = [s \in SUBSET (1 .. m) |-> g[s]]
      OBVIOUS
    <3> HIDE DEF g
    <3> QED
      BY <2>7, <3>1 DEF FoldsTo
  <2>9. m = k + 1 /\ Run(g, m)
    BY <2>6, <2>8 DEF m
  <2> HIDE DEF g, Run
  <2> QED
    BY <2>2, <2>9
<1>3. n \in Good
  <2> HIDE DEF Good
  <2>1. \A k \in 0 .. n : k \in Good
    BY <1>1, <1>2, Induction
  <2> QED
    BY <2>1
<1> QED
  BY <1>3

\* What every step keeps is kept by the whole fold.
LEMMA FoldKeeps ==
  ASSUME NEW n \in Nat, NEW D, NEW g, g[{}] \in D,
         \A i \in 1 .. n : g[1 .. i - 1] \in D => g[1 .. i] \in D
  PROVE  g[1 .. n] \in D
<1> DEFINE Good == {k \in 0 .. n : g[1 .. k] \in D}
<1>1. 0 \in Good
  <2>1. 1 .. 0 = {}
    OBVIOUS
  <2> QED
    BY <2>1
<1>2. ASSUME NEW k \in 0 .. n - 1, k \in Good PROVE k + 1 \in Good
  <2>1. k + 1 \in 1 .. n /\ (k + 1) - 1 = k /\ k + 1 \in 0 .. n
    OBVIOUS
  <2>2. g[1 .. (k + 1) - 1] \in D
    BY <1>2, <2>1
  <2> QED
    BY <2>1, <2>2
<1> HIDE DEF Good
<1>3. \A k \in 0 .. n : k \in Good
  BY <1>1, <1>2, Induction
<1>4. n \in Good
  BY <1>3
<1> QED
  BY <1>4 DEF Good

-----------------------------------------------------------------------------
(* The atlas of glyphs: what is kept of it. *)

GlyphKey == {[code |-> g[1], size |-> g[2]] : g \in DOMAIN Picture}
Glyph == [key : GlyphKey, w : Nat, h : Nat, x : Nat, y : Nat]
Shelf == [y : Nat, h : Nat, x : Nat]
Rows == [0 .. AtlasSize - 1 -> Nat]
Slots == [0 .. GlyphHashSize - 1 -> Nat]
DirtySet == [low : Nat, high : Nat, on : BOOLEAN]
CacheSet ==
  [fonts : SUBSET Nat, pool : Seq(Glyph), table : Slots, fast : SUBSET GlyphKey,
   shelves : Seq(Shelf), currentY : Nat, dirty : DirtySet, texture : Rows]

\* Shelves lie below each other.
ShelvesOK(q, top) ==
  /\ top <= AtlasSize
  /\ \A k \in 1 .. Len(q) : q[k].y + q[k].h <= top /\ q[k].x <= AtlasSize
  /\ \A k \in 1 .. Len(q) : \A j \in 1 .. k - 1 : q[j].y + q[j].h <= q[k].y

\* A picture and its border lie in the part of a shelf that is taken.
OnOne(q, x, y, w, h) ==
  \E k \in 1 .. Len(q) : /\ y = q[k].y + 1 /\ h + 2 <= q[k].h
                         /\ 1 <= x /\ x + w + 1 <= q[k].x

\* One of two pictures ends, with its border, before the other one begins.
Parted(x, y, w, h, x2, y2, w2, h2) ==
  \/ x + w < x2 - 1 \/ x2 + w2 < x - 1 \/ y + h < y2 - 1 \/ y2 + h2 < y - 1
Apart(g, o) == Parted(g.x, g.y, g.w, g.h, o.x, o.y, o.w, o.h)

PoolOK(c) ==
  /\ Len(c.pool) < GlyphPoolMax
  /\ \A i \in 1 .. Len(c.pool) : c.pool[i].w > 0 =>
       OnOne(c.shelves, c.pool[i].x, c.pool[i].y, c.pool[i].w, c.pool[i].h)
  /\ \A i, j \in 1 .. Len(c.pool) : i # j =>
       /\ c.pool[i].key # c.pool[j].key
       /\ c.pool[i].w > 0 /\ c.pool[j].w > 0 => Apart(c.pool[i], c.pool[j])

\* The i-th slot that is probed for a glyph.
SlotOf(key, i) == (HashOf(key) + i) % GlyphHashSize

\* Probing for its key finds place p before a free slot.
Reached(table, key, p) ==
  \E j \in 0 .. GlyphHashSize - 1 :
    table[SlotOf(key, j)] = p /\ \A k \in 0 .. j - 1 : table[SlotOf(key, k)] # 0

TableOK(c) ==
  /\ \A s \in 0 .. GlyphHashSize - 1 : c.table[s] <= Len(c.pool)
  /\ \A s, t \in 0 .. GlyphHashSize - 1 : c.table[s] = c.table[t] /\ c.table[s] # 0 => s = t
  /\ \A i \in 1 .. Len(c.pool) : Reached(c.table, c.pool[i].key, i)

FastOK(c) ==
  /\ \A i \in 1 .. Len(c.pool) : IsFast(c.pool[i].key) => c.pool[i].key \in c.fast
  /\ \A key \in c.fast : \E i \in 1 .. Len(c.pool) : c.pool[i].key = key

RowsOf(g) == g.y .. g.y + g.h - 1
Stale(d, y) == d.on /\ d.low <= y /\ y < d.high

\* A row of a glyph is in the texture, or known to be stale.
StagedOK(c) ==
  \A i \in 1 .. Len(c.pool) : c.pool[i].w > 0 =>
    \A y \in RowsOf(c.pool[i]) : c.texture[y] >= i \/ Stale(c.dirty, y)

CacheOK(c) ==
  /\ c \in CacheSet /\ ShelvesOK(c.shelves, c.currentY)
  /\ PoolOK(c) /\ TableOK(c) /\ FastOK(c) /\ StagedOK(c)

Pictured(c) == {i \in 1 .. Len(c.pool) : c.pool[i].w > 0}
Uploaded(c) == {i \in Pictured(c) : \A y \in RowsOf(c.pool[i]) : c.texture[y] >= i}

\* A step of the cache keeps it in order, and what has a picture, or is in the
\* texture, stays so.
Grows(c, c2) ==
  CacheOK(c2) /\ Pictured(c) \subseteq Pictured(c2) /\ Uploaded(c) \subseteq Uploaded(c2)

-----------------------------------------------------------------------------
LEMMA AtlasFacts ==
  /\ AtlasSize \in Nat \ {0} /\ ShelfMax \in Nat /\ GlyphPoolMax \in Nat \ {0}
  /\ GlyphHashSize \in Nat \ {0} /\ GlyphPoolMax <= GlyphHashSize
  /\ MaxVerts \in Nat /\ MaxQuads \in Nat \ {0} /\ WarmCount \in Nat
<1>1. GlyphHashSize \in Nat /\ GlyphPoolMax = GlyphHashSize \div 2 /\ GlyphPoolMax \in Nat \ {0}
  BY TextCacheAssumption
<1>2. GlyphHashSize \in Nat \ {0} /\ GlyphPoolMax <= GlyphHashSize
  BY <1>1
<1> QED
  BY <1>1, <1>2, TextCacheAssumption

LEMMA CacheFields ==
  ASSUME NEW c, CacheOK(c)
  PROVE  /\ c.fonts \in SUBSET Nat /\ c.pool \in Seq(Glyph) /\ Len(c.pool) \in Nat
         /\ DOMAIN c.pool = 1 .. Len(c.pool)
         /\ \A i \in 1 .. Len(c.pool) : c.pool[i] \in Glyph
         /\ c.table \in Slots /\ c.fast \in SUBSET GlyphKey
         /\ c.shelves \in Seq(Shelf) /\ Len(c.shelves) \in Nat
         /\ DOMAIN c.shelves = 1 .. Len(c.shelves)
         /\ \A k \in 1 .. Len(c.shelves) : c.shelves[k] \in Shelf
         /\ c.currentY \in Nat /\ c.dirty \in DirtySet /\ c.texture \in Rows
<1>1. c \in CacheSet
  BY DEF CacheOK
<1>2. /\ c.fonts \in SUBSET Nat /\ c.pool \in Seq(Glyph) /\ c.table \in Slots
      /\ c.fast \in SUBSET GlyphKey /\ c.shelves \in Seq(Shelf)
      /\ c.currentY \in Nat /\ c.dirty \in DirtySet /\ c.texture \in Rows
  BY <1>1 DEF CacheSet
<1>3. /\ Len(c.pool) \in Nat /\ DOMAIN c.pool = 1 .. Len(c.pool)
      /\ \A i \in 1 .. Len(c.pool) : c.pool[i] \in Glyph
  BY <1>2, LenProperties, ElementOfSeq
<1>4. /\ Len(c.shelves) \in Nat /\ DOMAIN c.shelves = 1 .. Len(c.shelves)
      /\ \A i \in 1 .. Len(c.shelves) : c.shelves[i] \in Shelf
  BY <1>2, LenProperties, ElementOfSeq
<1> QED
  BY <1>2, <1>3, <1>4

LEMMA ShelfFields ==
  ASSUME NEW s \in Shelf
  PROVE  s.y \in Nat /\ s.h \in Nat /\ s.x \in Nat
BY DEF Shelf

LEMMA GlyphFields ==
  ASSUME NEW g \in Glyph
  PROVE  g.key \in GlyphKey /\ g.w \in Nat /\ g.h \in Nat /\ g.x \in Nat /\ g.y \in Nat
BY DEF Glyph

-----------------------------------------------------------------------------
(* Places on shelves. *)

\* A place of w by h, at x and y, is taken: q and top become q2 and top2.
Housed(q, top, q2, top2, x, y, w, h) ==
  /\ ShelvesOK(q2, top2) /\ OnOne(q2, x, y, w, h)
  /\ \A x1, y1, w1, h1 \in Nat : OnOne(q, x1, y1, w1, h1) =>
       OnOne(q2, x1, y1, w1, h1) /\ Parted(x1, y1, w1, h1, x, y, w, h)

Shelved(q) == Len(q) \in Nat /\ \A j \in 1 .. Len(q) : q[j].y \in Nat /\ q[j].h \in Nat /\ q[j].x \in Nat

\* A picture on a shelf of y and h ends above what lies below the shelf.
LEMMA EndsAbove ==
  ASSUME NEW y \in Nat, NEW h \in Nat, NEW y1 \in Nat, NEW h1 \in Nat, NEW low \in Nat,
         y1 = y + 1, h1 + 2 <= h, y + h <= low
  PROVE  y1 + h1 < (low + 1) - 1
OBVIOUS

LEMMA ShelfFacts ==
  ASSUME NEW q, NEW top, Shelved(q), ShelvesOK(q, top), NEW k \in 1 .. Len(q)
  PROVE  /\ Len(q) \in Nat /\ q[k].y \in Nat /\ q[k].h \in Nat /\ q[k].x \in Nat
         /\ q[k].y + q[k].h <= top /\ q[k].x <= AtlasSize
         /\ \A j \in 1 .. k - 1 : q[j].y + q[j].h <= q[k].y
BY DEF Shelved, ShelvesOK

\* The k-th shelf is taken w further to the right.
Stretched(q, q2, k, w) ==
  Len(q2) = Len(q) /\ \A j \in 1 .. Len(q) :
    /\ q2[j].y = q[j].y /\ q2[j].h = q[j].h
    /\ q2[j].x = IF j = k THEN q[j].x + w + 2 ELSE q[j].x

LEMMA StretchedShelf ==
  ASSUME NEW q, NEW q2, NEW k \in 1 .. Len(q), NEW w \in Nat, Shelved(q),
         Stretched(q, q2, k, w), NEW j \in 1 .. Len(q)
  PROVE  /\ q2[j].y = q[j].y /\ q2[j].h = q[j].h /\ j \in 1 .. Len(q2)
         /\ j = k => q2[j].x = q[j].x + w + 2
         /\ j # k => q2[j].x = q[j].x
         /\ q2[j].x \in Nat /\ q2[j].x >= q[j].x
<1>1. /\ q2[j].y = q[j].y /\ q2[j].h = q[j].h /\ j \in 1 .. Len(q2)
      /\ j = k => q2[j].x = q[j].x + w + 2
      /\ j # k => q2[j].x = q[j].x
  BY DEF Stretched
<1>2. q[j].x \in Nat
  BY DEF Shelved
<1>3. ASSUME NEW a \in Nat PROVE a + w + 2 \in Nat /\ a + w + 2 >= a /\ a >= a
  OBVIOUS
<1>4. q[j].x + w + 2 \in Nat /\ q[j].x + w + 2 >= q[j].x /\ q[j].x >= q[j].x
  BY <1>2, <1>3
<1> QED
  BY <1>1, <1>2, <1>4, Zenon

LEMMA ShelfTaken ==
  ASSUME NEW q, NEW q2, NEW top \in Nat, NEW w \in Nat, NEW h \in Nat, NEW k \in 1 .. Len(q),
         Shelved(q), ShelvesOK(q, top), h + 2 <= q[k].h, q[k].x + w + 2 <= AtlasSize,
         Stretched(q, q2, k, w)
  PROVE  Housed(q, top, q2, top, q[k].x + 1, q[k].y + 1, w, h)
<1> DEFINE x == q[k].x + 1
           y == q[k].y + 1
<1>0. Len(q2) = Len(q) /\ Len(q) \in Nat
  BY DEF Stretched, Shelved
<1>1. ShelvesOK(q2, top)
  <2>1. ASSUME NEW j \in 1 .. Len(q)
        PROVE  q2[j].y + q2[j].h <= top /\ q2[j].x <= AtlasSize
    <3>1. q2[j].y = q[j].y /\ q2[j].h = q[j].h
      BY StretchedShelf
    <3>2. q[j].y + q[j].h <= top /\ q[j].x <= AtlasSize
      BY ShelfFacts
    <3>3. q2[j].x = q[k].x + w + 2 \/ q2[j].x = q[j].x
      BY StretchedShelf
    <3> QED
      BY <3>1, <3>2, <3>3
  <2>2. ASSUME NEW i \in 1 .. Len(q), NEW j \in 1 .. i - 1
        PROVE  q2[j].y + q2[j].h <= q2[i].y
    <3>1. j \in 1 .. Len(q) /\ q[j].y + q[j].h <= q[i].y
      BY <1>0, ShelfFacts
    <3>2. q2[j].y = q[j].y /\ q2[j].h = q[j].h
      BY <3>1, StretchedShelf
    <3>3. q2[i].y = q[i].y
      BY StretchedShelf
    <3> QED
      BY <3>1, <3>2, <3>3
  <2>3. top <= AtlasSize
    BY DEF ShelvesOK
  <2> QED
    BY <1>0, <2>1, <2>2, <2>3 DEF ShelvesOK
<1>2. OnOne(q2, x, y, w, h)
  <2>0. /\ q2[k].y = q[k].y /\ q2[k].h = q[k].h /\ k \in 1 .. Len(q2)
        /\ k = k => q2[k].x = q[k].x + w + 2
    BY StretchedShelf
  <2>1. q2[k].x = q[k].x + w + 2 /\ q2[k].y = q[k].y /\ q2[k].h = q[k].h /\ k \in 1 .. Len(q2)
    BY <2>0
  <2>2. q[k].x \in Nat
    BY ShelfFacts
  <2>3. ASSUME NEW a \in Nat PROVE 1 <= a + 1 /\ a + 1 + w + 1 <= a + w + 2
    OBVIOUS
  <2>4. 1 <= x /\ x + w + 1 <= q[k].x + w + 2
    BY <2>2, <2>3
  <2>5. y = q2[k].y + 1 /\ h + 2 <= q2[k].h /\ 1 <= x /\ x + w + 1 <= q2[k].x
    BY <2>1, <2>4
  <2> QED
    BY <2>1, <2>5 DEF OnOne
<1>3. ASSUME NEW x1 \in Nat, NEW y1 \in Nat, NEW w1 \in Nat, NEW h1 \in Nat,
             OnOne(q, x1, y1, w1, h1)
      PROVE  OnOne(q2, x1, y1, w1, h1) /\ Parted(x1, y1, w1, h1, x, y, w, h)
  <2>1. PICK j \in 1 .. Len(q) : /\ y1 = q[j].y + 1 /\ h1 + 2 <= q[j].h
                                 /\ 1 <= x1 /\ x1 + w1 + 1 <= q[j].x
    BY <1>3 DEF OnOne
  <2>2. /\ q[j].y \in Nat /\ q[j].h \in Nat /\ q[j].x \in Nat
        /\ q[k].y \in Nat /\ q[k].h \in Nat /\ q[k].x \in Nat
    BY ShelfFacts
  <2>3. OnOne(q2, x1, y1, w1, h1)
    <3>1. /\ q2[j].y = q[j].y /\ q2[j].h = q[j].h /\ j \in 1 .. Len(q2)
          /\ q2[j].x \in Nat /\ q2[j].x >= q[j].x
      BY StretchedShelf
    <3>2. ASSUME NEW a \in Nat, NEW b \in Nat, b >= a, x1 + w1 + 1 <= a
          PROVE  x1 + w1 + 1 <= b
      BY <3>2
    <3>3. x1 + w1 + 1 <= q2[j].x
      BY <2>1, <2>2, <3>1, <3>2
    <3>4. y1 = q2[j].y + 1 /\ h1 + 2 <= q2[j].h /\ 1 <= x1
      BY <2>1, <3>1
    <3> QED
      BY <3>1, <3>3, <3>4, Zenon DEF OnOne
  <2>4. CASE j = k
    <3>1. ASSUME NEW a \in Nat, x1 + w1 + 1 <= a PROVE x1 + w1 < (a + 1) - 1
      BY <3>1
    <3>2. q[k].x \in Nat /\ x1 + w1 + 1 <= q[k].x
      BY <2>1, <2>2, <2>4
    <3>3. x1 + w1 < x - 1
      BY <3>1, <3>2
    <3> QED
      BY <2>3, <3>3 DEF Parted
  <2>5. CASE j \in 1 .. k - 1
    <3>1. q[j].y + q[j].h <= q[k].y
      BY <2>5, ShelfFacts
    <3>2. y1 + h1 < y - 1
      BY <2>1, <2>2, <3>1, EndsAbove
    <3> QED
      BY <2>3, <3>2 DEF Parted
  <2>6. CASE k \in 1 .. j - 1
    <3>1. q[k].y + q[k].h <= q[j].y
      BY <2>6, ShelfFacts
    <3>2. y = q[k].y + 1
      OBVIOUS
    <3> HIDE DEF y
    <3>b. ASSUME NEW a \in Nat PROVE a + 1 \in Nat
      OBVIOUS
    <3>a. y \in Nat /\ h + 2 <= q[k].h
      BY <2>2, <3>2, <3>b, Zenon
    <3>3. y + h < (q[j].y + 1) - 1
      BY <2>2, <3>1, <3>2, <3>a, EndsAbove
    <3>4. y + h < y1 - 1
      BY <2>1, <3>3
    <3> QED
      BY <2>3, <3>4 DEF Parted
  <2>7. j = k \/ j \in 1 .. k - 1 \/ k \in 1 .. j - 1
    BY <1>0
  <2> QED
    BY <2>4, <2>5, <2>6, <2>7
<1> QED
  BY <1>1, <1>2, <1>3 DEF Housed

\* One more shelf, of h and with w taken, below all others.
ShelfAdded(q, q2, top, w, h) ==
  /\ Len(q2) = Len(q) + 1 /\ \A j \in 1 .. Len(q) : q2[j] = q[j]
  /\ q2[Len(q) + 1] = [y |-> top, h |-> h + 2, x |-> w + 2]

LEMMA ShelfOpened ==
  ASSUME NEW q, NEW q2, NEW top \in Nat, NEW w \in Nat, NEW h \in Nat,
         Shelved(q), ShelvesOK(q, top), w + 2 <= AtlasSize, top + h + 2 <= AtlasSize,
         ShelfAdded(q, q2, top, w, h)
  PROVE  Housed(q, top, q2, top + h + 2, 1, top + 1, w, h)
<1> DEFINE m == Len(q) + 1
<1>1. Len(q) \in Nat
  BY DEF Shelved
<1>2. q2[m].y = top /\ q2[m].h = h + 2 /\ q2[m].x = w + 2 /\ Len(q2) = m
  BY DEF ShelfAdded
<1>3. ASSUME NEW j \in 1 .. Len(q) PROVE q2[j] = q[j]
  BY DEF ShelfAdded
<1>4. m \in Nat /\ m \in 1 .. m /\ \A j \in 1 .. m : j = m \/ j \in 1 .. Len(q)
  BY <1>1
<1>5. \A j \in 1 .. Len(q) : j \in 1 .. m
  BY <1>1
<1>6. ASSUME NEW k \in 1 .. m, NEW j \in 1 .. k - 1 PROVE j \in 1 .. Len(q)
  BY <1>1
<1> HIDE DEF m
<1>7. ASSUME NEW j \in 1 .. Len(q) PROVE q[j].y + q[j].h <= top /\ q[j].y \in Nat /\ q[j].h \in Nat
  BY ShelfFacts
<1>8. ShelvesOK(q2, top + h + 2)
  <2>1. ASSUME NEW k \in 1 .. m
        PROVE  q2[k].y + q2[k].h <= top + h + 2 /\ q2[k].x <= AtlasSize
    <3>1. CASE k = m
      <4>1. top + (h + 2) <= top + h + 2
        OBVIOUS
      <4> QED
        BY <1>2, <3>1, <4>1
    <3>2. CASE k \in 1 .. Len(q)
      <4>1. q2[k] = q[k] /\ q[k].y + q[k].h <= top /\ q[k].x <= AtlasSize
        BY <1>3, <3>2, ShelfFacts
      <4>2. ASSUME NEW a \in Nat, NEW b \in Nat, a + b <= top PROVE a + b <= top + h + 2
        BY <4>2
      <4>3. q[k].y + q[k].h <= top + h + 2
        BY <1>7, <3>2, <4>2
      <4> QED
        BY <4>1, <4>3
    <3> QED
      BY <1>4, <3>1, <3>2
  <2>2. ASSUME NEW k \in 1 .. m, NEW j \in 1 .. k - 1
        PROVE  q2[j].y + q2[j].h <= q2[k].y
    <3>1. j \in 1 .. Len(q)
      BY <1>6
    <3>2. q2[j] = q[j]
      BY <1>3, <3>1
    <3>3. CASE k = m
      <4>1. q[j].y + q[j].h <= top
        BY <1>7, <3>1
      <4> QED
        BY <1>2, <3>2, <3>3, <4>1
    <3>4. CASE k \in 1 .. Len(q)
      <4>1. q2[k] = q[k] /\ q[j].y + q[j].h <= q[k].y
        BY <1>3, <3>4, ShelfFacts
      <4> QED
        BY <3>2, <4>1
    <3> QED
      BY <1>4, <3>3, <3>4
  <2> QED
    BY <1>2, <2>1, <2>2 DEF ShelvesOK
<1>9. OnOne(q2, 1, top + 1, w, h)
  <2>1. 1 <= 1 /\ 1 + w + 1 <= w + 2 /\ h + 2 <= h + 2
    OBVIOUS
  <2> QED
    BY <1>2, <1>4, <2>1 DEF OnOne
<1>10. ASSUME NEW x1 \in Nat, NEW y1 \in Nat, NEW w1 \in Nat, NEW h1 \in Nat,
              OnOne(q, x1, y1, w1, h1)
       PROVE  OnOne(q2, x1, y1, w1, h1) /\ Parted(x1, y1, w1, h1, 1, top + 1, w, h)
  <2>1. PICK j \in 1 .. Len(q) : /\ y1 = q[j].y + 1 /\ h1 + 2 <= q[j].h
                                 /\ 1 <= x1 /\ x1 + w1 + 1 <= q[j].x
    BY <1>10 DEF OnOne
  <2>2. OnOne(q2, x1, y1, w1, h1)
    <3>1. q2[j] = q[j] /\ j \in 1 .. Len(q2)
      BY <1>2, <1>3, <1>5
    <3> QED
      BY <2>1, <3>1, Zenon DEF OnOne
  <2>3. y1 + h1 < (top + 1) - 1
    BY <1>7, <2>1, EndsAbove
  <2> QED
    BY <2>2, <2>3 DEF Parted
<1> QED
  BY <1>8, <1>9, <1>10 DEF Housed

LEMMA PartedAreas ==
  ASSUME NEW g \in Glyph, NEW o \in Glyph, Apart(g, o)
  PROVE  Area(g) \cap Area(o) = {}
<1>1. g.w \in Nat /\ g.h \in Nat /\ g.x \in Nat /\ g.y \in Nat
  BY GlyphFields
<1>2. o.w \in Nat /\ o.h \in Nat /\ o.x \in Nat /\ o.y \in Nat
  BY GlyphFields
<1>3. \/ (g.x - 1 .. g.x + g.w) \cap (o.x - 1 .. o.x + o.w) = {}
      \/ (g.y - 1 .. g.y + g.h) \cap (o.y - 1 .. o.y + o.h) = {}
  BY <1>1, <1>2 DEF Apart, Parted
<1> QED
  BY <1>3, Zenon DEF Area

-----------------------------------------------------------------------------
(* atlas_alloc *)

LEMMA SelectedIn ==
  ASSUME NEW q, Len(q) \in Nat, NEW T \in SUBSET (1 .. Len(q))
  PROVE  LET s == IF T # {} THEN Min(T) ELSE 0
         IN  s \in 0 .. Len(q) /\ (s # 0 => s \in T) /\ (s = 0 => T = {})
<1>1. CASE T = {}
  BY <1>1
<1>2. CASE T # {}
  <2>1. T \subseteq Nat
    OBVIOUS
  <2>2. Min(T) \in T
    BY <1>2, <2>1, LeastOf
  <2> DEFINE m == Min(T)
  <2>3. m \in T /\ T \subseteq 1 .. Len(q)
    BY <2>2
  <2> HIDE DEF m
  <2>4. m \in 0 .. Len(q) /\ m # 0
    BY <2>3
  <2> QED
    BY <1>2, <2>3, <2>4, Zenon DEF m
<1> QED
  BY <1>1, <1>2

LEMMA OnShelfFacts ==
  ASSUME NEW c, NEW w, NEW h, Len(c.shelves) \in Nat
  PROVE  LET s == OnShelf(c, w, h) IN
         /\ s \in 0 .. Len(c.shelves)
         /\ s # 0 => h + 2 <= c.shelves[s].h /\ c.shelves[s].x + w + 2 <= AtlasSize
<1> DEFINE T == {i \in 1 .. Len(c.shelves) :
                   h + 2 <= c.shelves[i].h /\ c.shelves[i].x + w + 2 <= AtlasSize}
<1>1. OnShelf(c, w, h) = IF T # {} THEN Min(T) ELSE 0
  BY DEF OnShelf, SelectInSeq
<1>2. T \in SUBSET (1 .. Len(c.shelves))
  OBVIOUS
<1>3. \A s \in T : h + 2 <= c.shelves[s].h /\ c.shelves[s].x + w + 2 <= AtlasSize
  OBVIOUS
<1> HIDE DEF T
<1> QED
  BY <1>1, <1>2, <1>3, SelectedIn

\* What atlas_alloc hands out is a place of its own.
Roomy(c, w, h, r) ==
  /\ r.x \in Nat /\ r.y \in Nat
  /\ r.cache.shelves \in Seq(Shelf) /\ r.cache.currentY \in Nat
  /\ r.cache = [c EXCEPT !.shelves = r.cache.shelves, !.currentY = r.cache.currentY]
  /\ Housed(c.shelves, c.currentY, r.cache.shelves, r.cache.currentY, r.x, r.y, w, h)

LEMMA Widened ==
  ASSUME NEW s \in Shelf, NEW n \in Nat
  PROVE  LET t == [s EXCEPT !.x = @ + n]
         IN  t \in Shelf /\ t.y = s.y /\ t.h = s.h /\ t.x = s.x + n
BY DEF Shelf

LEMMA PlacedOn ==
  ASSUME NEW c, CacheOK(c), NEW w \in Nat, NEW h \in Nat, NEW s \in 1 .. Len(c.shelves),
         h + 2 <= c.shelves[s].h, c.shelves[s].x + w + 2 <= AtlasSize
  PROVE  Roomy(c, w, h, TakenOn(c, s, w + 2))
<1> DEFINE r == TakenOn(c, s, w + 2)
           n == r.cache
           q == c.shelves
           q2 == n.shelves
<1>1. /\ q \in Seq(Shelf) /\ Len(q) \in Nat /\ DOMAIN q = 1 .. Len(q)
      /\ \A k \in 1 .. Len(q) : q[k].y \in Nat /\ q[k].h \in Nat /\ q[k].x \in Nat
  BY CacheFields, ShelfFields
<1>0. n = [c EXCEPT !.shelves[s].x = @ + (w + 2)]
  BY DEF TakenOn
<1>a. r.x = q[s].x + 1 /\ r.y = q[s].y + 1
  BY DEF TakenOn
<1> HIDE DEF r
<1>2. q2 = [q EXCEPT ![s] = [q[s] EXCEPT !.x = @ + (w + 2)]] /\ n.currentY = c.currentY
      /\ n = [c EXCEPT !.shelves = q2, !.currentY = n.currentY]
  <2>1. c \in CacheSet
    BY DEF CacheOK
  <2> QED
    BY <1>0, <2>1 DEF CacheSet
<1> HIDE DEF n
<1>3. [q[s] EXCEPT !.x = @ + (w + 2)] \in Shelf
  <2>1. q[s] \in Shelf /\ w + 2 \in Nat
    BY CacheFields
  <2> HIDE DEF q
  <2> QED
    BY <2>1, Widened
<1>4. q2 \in Seq(Shelf) /\ Len(q2) = Len(q)
  BY <1>1, <1>2, <1>3, ExceptSeq
<1>5. Stretched(q, q2, s, w)
  <2> SUFFICES ASSUME NEW j \in 1 .. Len(q)
               PROVE  /\ q2[j].y = q[j].y /\ q2[j].h = q[j].h
                      /\ q2[j].x = IF j = s THEN q[j].x + w + 2 ELSE q[j].x
    BY <1>4, Zenon DEF Stretched
  <2>0. q[j] \in Shelf /\ j \in DOMAIN q
    BY <1>1, CacheFields
  <2>1. CASE j = s
    <3>1. q2[j] = [q[j] EXCEPT !.x = @ + (w + 2)]
      BY <1>1, <1>2, <2>1
    <3>2. q[j].x \in Nat
      BY <1>1
    <3> HIDE DEF q, q2
    <3>3. q2[j].y = q[j].y /\ q2[j].h = q[j].h /\ q2[j].x = q[j].x + (w + 2)
      BY <2>0, <3>1, Widened
    <3>4. ASSUME NEW a \in Nat PROVE a + (w + 2) = a + w + 2
      OBVIOUS
    <3>5. q[j].x + (w + 2) = q[j].x + w + 2
      BY <3>2, <3>4
    <3> QED
      BY <2>1, <3>3, <3>5
  <2>2. CASE j # s
    BY <1>1, <1>2, <2>0, <2>2
  <2> QED
    BY <2>1, <2>2
<1>6. ShelvesOK(q, c.currentY) /\ c.currentY \in Nat
  BY CacheFields DEF CacheOK
<1>7. Shelved(q)
  BY <1>1 DEF Shelved
<1> HIDE DEF q, q2
<1>8. Housed(q, c.currentY, q2, c.currentY, q[s].x + 1, q[s].y + 1, w, h)
  <2>1. s \in 1 .. Len(q) /\ h + 2 <= q[s].h /\ q[s].x + w + 2 <= AtlasSize
    BY DEF q
  <2> QED
    BY <1>5, <1>6, <1>7, <2>1, ShelfTaken
<1>9. r.x \in Nat /\ r.y \in Nat
  <2>1. s \in 1 .. Len(q)
    BY DEF q
  <2>2. q[s].x \in Nat /\ q[s].y \in Nat
    BY <1>6, <1>7, <2>1, ShelfFacts
  <2>3. ASSUME NEW a \in Nat PROVE a + 1 \in Nat
    OBVIOUS
  <2> QED
    BY <1>a, <2>2, <2>3
<1>10. Housed(q, c.currentY, q2, n.currentY, r.x, r.y, w, h)
  BY <1>2, <1>8, <1>a
<1>11. n.currentY \in Nat /\ q2 \in Seq(Shelf)
  BY <1>2, <1>4, <1>6
<1> QED
  BY <1>2, <1>9, <1>10, <1>11 DEF Roomy, q, q2, n, r

LEMMA PlacedBelow ==
  ASSUME NEW c, CacheOK(c), NEW w \in Nat, NEW h \in Nat,
         w + 2 <= AtlasSize, c.currentY + h + 2 <= AtlasSize
  PROVE  Roomy(c, w, h, TakenBelow(c, h, w + 2))
<1> DEFINE r == TakenBelow(c, h, w + 2)
           s == [y |-> c.currentY, h |-> h + 2, x |-> w + 2]
           n == r.cache
           q == c.shelves
           q2 == n.shelves
           top == c.currentY
<1>1. /\ q \in Seq(Shelf) /\ Len(q) \in Nat /\ DOMAIN q = 1 .. Len(q)
      /\ \A k \in 1 .. Len(q) : q[k].y \in Nat /\ q[k].h \in Nat /\ q[k].x \in Nat
  BY CacheFields, ShelfFields
<1>0. r.x = 1 /\ r.y = top + 1 /\ n = [c EXCEPT !.shelves = Append(@, s), !.currentY = @ + h + 2]
  BY DEF TakenBelow
<1> HIDE DEF r
<1>2. q2 = Append(q, s) /\ n.currentY = top + h + 2
      /\ n = [c EXCEPT !.shelves = q2, !.currentY = n.currentY]
  <2>1. c \in CacheSet
    BY DEF CacheOK
  <2> HIDE DEF s
  <2> QED
    BY <1>0, <2>1 DEF CacheSet
<1>3. ShelvesOK(q, top) /\ top \in Nat /\ Shelved(q)
  BY <1>1, CacheFields DEF CacheOK, Shelved
<1>4. s \in Shelf
  BY <1>3 DEF Shelf
<1> HIDE DEF n
<1>5. q2 \in Seq(Shelf) /\ Len(q2) = Len(q) + 1 /\ q2[Len(q) + 1] = s
      /\ \A j \in 1 .. Len(q) : q2[j] = q[j]
  <2> HIDE DEF s, q, q2
  <2> QED
    BY <1>1, <1>2, <1>4, AppendProperties
<1> HIDE DEF q, q2
<1>6. Housed(q, top, q2, top + h + 2, 1, top + 1, w, h)
  <2>1. ShelfAdded(q, q2, top, w, h)
    BY <1>5 DEF ShelfAdded
  <2> QED
    BY <1>3, <2>1, ShelfOpened
<1>7. Housed(q, top, q2, n.currentY, r.x, r.y, w, h)
  BY <1>0, <1>2, <1>6
<1>8. n.currentY \in Nat /\ r.x \in Nat /\ r.y \in Nat
  BY <1>0, <1>2, <1>3
<1> QED
  BY <1>2, <1>5, <1>7, <1>8 DEF Roomy, q, q2, n, r

LEMMA AtlasAllocFacts ==
  ASSUME NEW c, CacheOK(c), NEW w \in Nat, NEW h \in Nat, AtlasAlloc(c, w, h) # <<>>
  PROVE  Roomy(c, w, h, AtlasAlloc(c, w, h)[1])
<1> DEFINE s == OnShelf(c, w, h)
<1>1. Len(c.shelves) \in Nat /\ c.currentY \in Nat /\ AtlasSize \in Nat
  BY CacheFields, AtlasFacts
<1>2. /\ s \in 0 .. Len(c.shelves)
      /\ s # 0 => h + 2 <= c.shelves[s].h /\ c.shelves[s].x + w + 2 <= AtlasSize
  BY <1>1, OnShelfFacts
<1>3. AtlasAlloc(c, w, h) = Placed(c, w, h, s)
  BY DEF AtlasAlloc
<1> HIDE DEF s
<1>4. w + 2 <= AtlasSize /\ h + 2 <= AtlasSize
  <2>1. ~(w + 2 > AtlasSize \/ h + 2 > AtlasSize)
    BY <1>3, Zenon DEF Placed
  <2> QED
    BY <1>1, <2>1
<1>a. ~(w + 2 > AtlasSize \/ h + 2 > AtlasSize)
  BY <1>1, <1>4
<1>5. CASE s # 0
  <2>1. s > 0
    BY <1>1, <1>2, <1>5
  <2>2. AtlasAlloc(c, w, h) = <<TakenOn(c, s, w + 2)>>
    BY <1>3, <1>a, <2>1, Zenon DEF Placed
  <2> QED
    BY <1>2, <1>5, <2>2, PlacedOn
<1>6. CASE s = 0
  <2>1. ~(s > 0)
    BY <1>6
  <2>2. Len(c.shelves) < ShelfMax /\ c.currentY + h + 2 <= AtlasSize
    BY <1>3, <1>a, <2>1, Zenon DEF Placed
  <2>3. AtlasAlloc(c, w, h) = <<TakenBelow(c, h, w + 2)>>
    BY <1>3, <1>a, <2>1, <2>2, Zenon DEF Placed
  <2> QED
    BY <1>4, <2>2, <2>3, PlacedBelow
<1> QED
  BY <1>5, <1>6

-----------------------------------------------------------------------------
(* The table of glyphs. *)

LEMMA ModFacts ==
  ASSUME NEW n \in Nat \ {0}, NEW a \in Nat
  PROVE  /\ a % n \in 0 .. n - 1
         /\ a < n => a % n = a
         /\ n <= a /\ a < n + n => a % n = a - n
OBVIOUS

LEMMA KeyFacts ==
  ASSUME NEW key \in GlyphKey
  PROVE  /\ key.code \in Nat /\ key.size \in Nat
         /\ Picture[<<key.code, key.size>>].w \in Nat /\ Picture[<<key.code, key.size>>].h \in Nat
<1>1. PICK g \in DOMAIN Picture : key = [code |-> g[1], size |-> g[2]]
  BY DEF GlyphKey
<1>2. g \in Nat \X Nat /\ Picture[g].w \in Nat /\ Picture[g].h \in Nat
  BY TextCacheAssumption
<1>3. g = <<g[1], g[2]>> /\ g[1] \in Nat /\ g[2] \in Nat
  BY <1>2
<1>4. key.code = g[1] /\ key.size = g[2]
  BY <1>1
<1> QED
  BY <1>2, <1>3, <1>4

LEMMA SlotOfFacts ==
  ASSUME NEW key \in GlyphKey
  PROVE  /\ \A i \in 0 .. GlyphHashSize - 1 : SlotOf(key, i) \in 0 .. GlyphHashSize - 1
         /\ \A s \in 0 .. GlyphHashSize - 1 :
              \E i \in 0 .. GlyphHashSize - 1 : SlotOf(key, i) = s
<1> DEFINE N == GlyphHashSize
           h == HashOf(key)
<1>1. N \in Nat \ {0}
  BY AtlasFacts
<1>2. h \in 0 .. N - 1
  <2>1. key.code + key.size \in Nat
    <3>1. key.code \in Nat /\ key.size \in Nat
      BY KeyFacts
    <3> QED
      BY <3>1
  <2> QED
    BY <1>1, <2>1, ModFacts DEF HashOf
<1>3. \A i : SlotOf(key, i) = (h + i) % N
  BY DEF SlotOf
<1> HIDE DEF h, N
<1>4. \A i \in 0 .. N - 1 : SlotOf(key, i) = IF h + i < N THEN h + i ELSE h + i - N
  <2> TAKE i \in 0 .. N - 1
  <2>1. h + i \in Nat /\ h + i < N + N /\ (h + i < N \/ N <= h + i)
    BY <1>1, <1>2
  <2>2. /\ h + i < N => (h + i) % N = h + i
        /\ N <= h + i => (h + i) % N = (h + i) - N
    BY <1>1, <2>1, ModFacts
  <2> QED
    BY <1>1, <1>2, <1>3, <2>1, <2>2
<1>5. \A i \in 0 .. N - 1 : SlotOf(key, i) \in 0 .. N - 1
  BY <1>1, <1>2, <1>4
<1>6. ASSUME NEW s \in 0 .. N - 1 PROVE \E i \in 0 .. N - 1 : SlotOf(key, i) = s
  <2>1. CASE h <= s
    <3>1. s - h \in 0 .. N - 1 /\ h + (s - h) = s /\ s < N
      BY <1>1, <1>2, <2>1
    <3>2. SlotOf(key, s - h) = s
      BY <1>4, <3>1
    <3> QED
      BY <3>1, <3>2
  <2>2. CASE s < h
    <3>1. s - h + N \in 0 .. N - 1 /\ h + (s - h + N) - N = s /\ ~(h + (s - h + N) < N)
      BY <1>1, <1>2, <2>2
    <3>2. SlotOf(key, s - h + N) = s
      BY <1>4, <3>1
    <3> QED
      BY <3>1, <3>2
  <2> QED
    BY <1>1, <1>2, <2>1, <2>2
<1> QED
  BY <1>5, <1>6 DEF N

LEMMA TableFields ==
  ASSUME NEW c, CacheOK(c)
  PROVE  /\ c.table \in [0 .. GlyphHashSize - 1 -> Nat]
         /\ \A s \in 0 .. GlyphHashSize - 1 :
              c.table[s] \in Nat /\ c.table[s] <= Len(c.pool)
<1>1. c.table \in Slots
  BY CacheFields
<1>2. c.table \in [0 .. GlyphHashSize - 1 -> Nat]
  BY <1>1 DEF Slots
<1>3. \A s \in 0 .. GlyphHashSize - 1 : c.table[s] <= Len(c.pool)
  BY DEF CacheOK, TableOK
<1>4. \A s \in 0 .. GlyphHashSize - 1 : c.table[s] \in Nat
  BY <1>2
<1> QED
  BY <1>2, <1>3, <1>4

LEMMA SlotFree ==
  ASSUME NEW c, CacheOK(c)
  PROVE  \E s \in 0 .. GlyphHashSize - 1 : c.table[s] = 0
<1> DEFINE S == 0 .. GlyphHashSize - 1
           n == Len(c.pool)
<1>1. GlyphHashSize \in Nat \ {0} /\ GlyphPoolMax \in Nat /\ GlyphPoolMax <= GlyphHashSize
  BY AtlasFacts
<1>2. n \in Nat /\ n < GlyphHashSize
  BY <1>1, CacheFields DEF CacheOK, PoolOK
<1>3. c.table \in [S -> Nat] /\ \A s \in S : c.table[s] \in Nat /\ c.table[s] <= n
  BY TableFields
<1> SUFFICES ASSUME \A s \in S : c.table[s] # 0 PROVE FALSE
  OBVIOUS
<1>4. \A s \in S : c.table[s] \in 1 .. n
  BY <1>2, <1>3
<1>5. c.table \in [S -> 1 .. n]
  BY <1>3, <1>4
<1>6. /\ IsFiniteSet(S) /\ Cardinality(S) = GlyphHashSize
      /\ IsFiniteSet(1 .. n) /\ Cardinality(1 .. n) = n
  <2>1. GlyphHashSize - 1 \in Int /\ (0 <= GlyphHashSize - 1) /\ (GlyphHashSize - 1) - 0 + 1 = GlyphHashSize
    BY <1>1
  <2>2. IsFiniteSet(S) /\ Cardinality(S) = GlyphHashSize
    BY <2>1, FS_Interval
  <2>3. CASE n = 0
    <3>1. 1 .. n = {}
      BY <2>3
    <3> QED
      BY <2>2, <2>3, <3>1, FS_EmptySet
  <2>4. CASE n # 0
    <3>1. 1 \in Int /\ n \in Int /\ 1 <= n /\ n - 1 + 1 = n
      BY <1>2, <2>4
    <3> HIDE DEF n
    <3>2. IsFiniteSet(1 .. n) /\ Cardinality(1 .. n) = n
      BY <3>1, FS_Interval
    <3> QED
      BY <2>2, <3>2
  <2> QED
    BY <2>3, <2>4
<1>7. \E x, y \in S : x # y /\ c.table[x] = c.table[y]
  <2> HIDE DEF S, n
  <2>1. Cardinality(1 .. n) < Cardinality(S)
    BY <1>2, <1>6
  <2> QED
    BY <1>5, <1>6, <2>1, FS_PigeonHole
<1> QED
  BY <1>7 DEF CacheOK, TableOK

\* The slots that are probed for a key, up to the first that is free.
ProbedUpTo(table, key, i) ==
  /\ i \in 0 .. GlyphHashSize - 1 /\ table[SlotOf(key, i)] = 0
  /\ \A j \in 0 .. i - 1 : table[SlotOf(key, j)] # 0

LEMMA ProbedFacts ==
  ASSUME NEW c, CacheOK(c), NEW key \in GlyphKey
  PROVE  \E i : /\ ProbedUpTo(c.table, key, i)
                /\ Probed(c, key) = [j \in 1 .. i + 1 |-> SlotOf(key, j - 1)]
<1> DEFINE Free(i) == /\ c.table[SlotOf(key, i)] = 0
                      /\ \A j \in 0 .. i - 1 : c.table[SlotOf(key, j)] # 0
           T == {i \in 0 .. GlyphHashSize - 1 : c.table[SlotOf(key, i)] = 0}
<1>1. GlyphHashSize \in Nat \ {0}
  BY AtlasFacts
<1>2. T # {} /\ T \subseteq Nat
  BY SlotFree, SlotOfFacts
<1>3. Min(T) \in T /\ \A s \in T : Min(T) <= s
  <2> HIDE DEF T
  <2> QED
    BY <1>2, LeastOf
<1> DEFINE m == Min(T)
<1>4. m \in 0 .. GlyphHashSize - 1 /\ c.table[SlotOf(key, m)] = 0
  BY <1>3
<1>5. \A j \in 0 .. m - 1 : c.table[SlotOf(key, j)] # 0
  <2> SUFFICES ASSUME NEW j \in 0 .. m - 1, c.table[SlotOf(key, j)] = 0 PROVE FALSE
    OBVIOUS
  <2> HIDE DEF m
  <2>1. j \in 0 .. GlyphHashSize - 1
    BY <1>1, <1>4
  <2>2. j \in T
    BY <2>1
  <2>3. m <= j
    BY <1>3, <2>2 DEF m
  <2> QED
    BY <1>4, <2>3
<1> HIDE DEF m, T
<1>6. Free(m)
  BY <1>4, <1>5
<1> DEFINE i == CHOOSE k \in 0 .. GlyphHashSize - 1 : Free(k)
<1>7. i \in 0 .. GlyphHashSize - 1 /\ Free(i)
  <2> HIDE DEF Free
  <2> QED
    BY <1>4, <1>6
<1>8. Probed(c, key) = [j \in 1 .. i + 1 |-> SlotOf(key, j - 1)]
  BY DEF Probed, SlotOf
<1> HIDE DEF i
<1> QED
  BY <1>7, <1>8 DEF ProbedUpTo

LEMMA LookupFacts ==
  ASSUME NEW c, CacheOK(c), NEW key \in GlyphKey
  PROVE  /\ Lookup(c, key) \in 0 .. Len(c.pool)
         /\ Lookup(c, key) = 0 => \A i \in 1 .. Len(c.pool) : c.pool[i].key # key
<1>1. Len(c.pool) \in Nat /\ DOMAIN c.pool = 1 .. Len(c.pool) /\ GlyphHashSize \in Nat
  BY CacheFields, AtlasFacts
<1>2. CASE IsFast(key)
  <2>1. Lookup(c, key) = IF key \in c.fast THEN CHOOSE i \in DOMAIN c.pool : c.pool[i].key = key ELSE 0
    BY <1>2 DEF Lookup
  <2>2. CASE key \in c.fast
    <3>1. \E i \in DOMAIN c.pool : c.pool[i].key = key
      BY <1>1, <2>2 DEF CacheOK, FastOK
    <3>2. Lookup(c, key) \in DOMAIN c.pool
      BY <2>1, <2>2, <3>1
    <3> QED
      BY <1>1, <3>2
  <2>3. CASE key \notin c.fast
    <3>1. Lookup(c, key) = 0
      BY <2>1, <2>3
    <3>2. \A i \in 1 .. Len(c.pool) : c.pool[i].key # key
      BY <1>2, <2>3 DEF CacheOK, FastOK
    <3> QED
      BY <1>1, <3>1, <3>2
  <2> QED
    BY <2>2, <2>3
<1>3. CASE ~IsFast(key)
  <2>1. PICK m : /\ ProbedUpTo(c.table, key, m)
                 /\ Probed(c, key) = [j \in 1 .. m + 1 |-> SlotOf(key, j - 1)]
    BY ProbedFacts
  <2> DEFINE p == Probed(c, key)
             Hit(t) == c.table[t] # 0 /\ c.pool[c.table[t]].key = key
             I == {k \in 1 .. Len(p) : Hit(p[k])}
             s == IF I # {} THEN Min(I) ELSE 0
  <2>2. Lookup(c, key) = IF s = 0 THEN 0 ELSE c.table[p[s]]
    BY <1>3 DEF Lookup, SelectInSeq
  <2>3. Len(p) = m + 1 /\ m \in 0 .. GlyphHashSize - 1 /\ \A k \in 1 .. m + 1 : p[k] = SlotOf(key, k - 1)
    <3>1. m \in 0 .. GlyphHashSize - 1 /\ m + 1 \in Nat
      BY <1>1, <2>1 DEF ProbedUpTo
    <3>2. p \in [1 .. m + 1 -> {SlotOf(key, j - 1) : j \in 1 .. m + 1}]
      BY <2>1
    <3>3. p \in Seq({SlotOf(key, j - 1) : j \in 1 .. m + 1})
      BY <3>1, <3>2, SeqDef
    <3>4. Len(p) \in Nat /\ DOMAIN p = 1 .. Len(p)
      BY <3>3, LenProperties
    <3>5. 1 .. Len(p) = 1 .. m + 1
      BY <3>2, <3>4
    <3> QED
      BY <2>1, <3>1, <3>4, <3>5
  <2> HIDE DEF p
  <2>4. s \in 0 .. Len(p) /\ (s # 0 => s \in I) /\ (s = 0 => I = {})
    <3>1. I \in SUBSET (1 .. Len(p)) /\ Len(p) \in Nat
      BY <1>1, <2>3
    <3> HIDE DEF I
    <3> QED
      BY <3>1, SelectedIn
  <2> HIDE DEF s
  <2>5. CASE s = 0
    <3>1. ASSUME NEW i \in 1 .. Len(c.pool), c.pool[i].key = key PROVE FALSE
      <4>1. PICK j \in 0 .. GlyphHashSize - 1 :
              c.table[SlotOf(key, j)] = i /\ \A k \in 0 .. j - 1 : c.table[SlotOf(key, k)] # 0
        BY <3>1 DEF CacheOK, TableOK, Reached
      <4>2. j < m
        <5>1. c.table[SlotOf(key, m)] = 0 /\ i # 0
          BY <1>1, <2>1 DEF ProbedUpTo
        <5> QED
          BY <1>1, <2>3, <4>1, <5>1
      <4>3. j + 1 \in 1 .. Len(p) /\ p[j + 1] = SlotOf(key, j)
        <5>1. j + 1 \in 1 .. m + 1 /\ (j + 1) - 1 = j
          BY <1>1, <2>3, <4>2
        <5> QED
          BY <2>3, <5>1
      <4>4. Hit(p[j + 1])
        BY <1>1, <3>1, <4>1, <4>3
      <4>5. j + 1 \in I
        BY <4>3, <4>4
      <4> QED
        BY <2>4, <2>5, <4>5
    <3>2. Lookup(c, key) = 0
      BY <2>2, <2>5
    <3> QED
      BY <1>1, <3>1, <3>2
  <2>6. CASE s # 0
    <3>1. s \in 1 .. Len(p) /\ c.table[p[s]] # 0
      BY <2>4, <2>6
    <3>2. p[s] \in 0 .. GlyphHashSize - 1
      <4>1. s - 1 \in 0 .. GlyphHashSize - 1 /\ s \in 1 .. m + 1
        BY <1>1, <2>3, <3>1
      <4> QED
        BY <2>3, <4>1, SlotOfFacts
    <3>3. c.table[p[s]] \in Nat /\ c.table[p[s]] <= Len(c.pool)
      BY <3>2, TableFields
    <3>4. Lookup(c, key) = c.table[p[s]]
      BY <2>2, <2>6
    <3> QED
      BY <1>1, <3>1, <3>3, <3>4
  <2> QED
    BY <2>5, <2>6
<1> QED
  BY <1>2, <1>3

-----------------------------------------------------------------------------
(* load_glyph *)

\* A glyph g for key is put into the pool, and its place into a free slot.
Filed(c, key, g, slot, n) ==
  /\ n \in CacheSet /\ n.pool = Append(c.pool, g)
  /\ n.table = [c.table EXCEPT ![slot] = Len(c.pool) + 1]
  /\ n.fast = (IF IsFast(key) THEN c.fast \cup {key} ELSE c.fast)
  /\ n.texture = c.texture

\* It has a picture with a place in the atlas, or it has none.
Drawable(c, g, n) ==
  /\ n.dirty = MarkDirty(c.dirty, g.y, g.h)
  /\ Housed(c.shelves, c.currentY, n.shelves, n.currentY, g.x, g.y, g.w, g.h)
Blank(c, g, n) ==
  g.w = 0 /\ n.dirty = c.dirty /\ n.shelves = c.shelves /\ n.currentY = c.currentY

\* What load_glyph does, by what atlas_alloc gave.
Load(c, key, g, slot, n) ==
  /\ g \in Glyph /\ g.key = key /\ Len(c.pool) + 1 < GlyphPoolMax
  /\ \E i : ProbedUpTo(c.table, key, i) /\ slot = SlotOf(key, i)
  /\ \A j \in 1 .. Len(c.pool) : c.pool[j].key # key
  /\ Filed(c, key, g, slot, n)
  /\ Drawable(c, g, n) \/ Blank(c, g, n)

LEMMA LoadFacts ==
  ASSUME NEW c, CacheOK(c), NEW key \in GlyphKey, NEW g, NEW slot, NEW n, Load(c, key, g, slot, n)
  PROVE  /\ Len(n.pool) = Len(c.pool) + 1 /\ n.pool[Len(c.pool) + 1] = g
         /\ \A i \in 1 .. Len(c.pool) : n.pool[i] = c.pool[i] /\ i \in 1 .. Len(n.pool)
         /\ Len(c.pool) + 1 \in 1 .. Len(n.pool) /\ Len(c.pool) \in Nat
         /\ \A i \in 1 .. Len(n.pool) : i = Len(c.pool) + 1 \/ i \in 1 .. Len(c.pool)
         /\ g \in Glyph /\ n \in CacheSet
         /\ \A i \in 1 .. Len(c.pool) : c.pool[i] \in Glyph
<1>1. c.pool \in Seq(Glyph) /\ Len(c.pool) \in Nat /\ \A i \in 1 .. Len(c.pool) : c.pool[i] \in Glyph
  BY CacheFields
<1>2. n.pool = Append(c.pool, g) /\ g \in Glyph /\ n \in CacheSet
  BY DEF Load, Filed
<1>3. Len(n.pool) = Len(c.pool) + 1 /\ n.pool[Len(c.pool) + 1] = g
      /\ \A i \in 1 .. Len(c.pool) : n.pool[i] = c.pool[i]
  BY <1>1, <1>2, AppendProperties
<1>4. /\ Len(c.pool) + 1 \in 1 .. Len(n.pool)
      /\ \A i \in 1 .. Len(n.pool) : i = Len(c.pool) + 1 \/ i \in 1 .. Len(c.pool)
      /\ \A i \in 1 .. Len(c.pool) : i \in 1 .. Len(n.pool)
  BY <1>1, <1>3
<1> QED
  BY <1>1, <1>2, <1>3, <1>4

LEMMA LoadShelves ==
  ASSUME NEW c, CacheOK(c), NEW key \in GlyphKey, NEW g, NEW slot, NEW n, Load(c, key, g, slot, n)
  PROVE  /\ ShelvesOK(n.shelves, n.currentY)
         /\ g.w > 0 => OnOne(n.shelves, g.x, g.y, g.w, g.h)
         /\ \A i \in 1 .. Len(c.pool) : c.pool[i].w > 0 =>
              /\ OnOne(n.shelves, c.pool[i].x, c.pool[i].y, c.pool[i].w, c.pool[i].h)
              /\ g.w > 0 => Apart(c.pool[i], g) /\ Apart(g, c.pool[i])
<1>1. ShelvesOK(c.shelves, c.currentY)
      /\ \A i \in 1 .. Len(c.pool) : c.pool[i].w > 0 =>
           OnOne(c.shelves, c.pool[i].x, c.pool[i].y, c.pool[i].w, c.pool[i].h)
  BY DEF CacheOK, PoolOK
<1>2. CASE Blank(c, g, n)
  <2>1. ~(g.w > 0) /\ n.shelves = c.shelves /\ n.currentY = c.currentY
    BY <1>2 DEF Blank
  <2> QED
    BY <1>1, <2>1
<1>3. CASE Drawable(c, g, n)
  <2>1. Housed(c.shelves, c.currentY, n.shelves, n.currentY, g.x, g.y, g.w, g.h)
    BY <1>3 DEF Drawable
  <2>2. ASSUME NEW i \in 1 .. Len(c.pool), c.pool[i].w > 0
        PROVE  /\ OnOne(n.shelves, c.pool[i].x, c.pool[i].y, c.pool[i].w, c.pool[i].h)
               /\ Apart(c.pool[i], g) /\ Apart(g, c.pool[i])
    <3>1. c.pool[i] \in Glyph
      BY CacheFields
    <3>2. OnOne(c.shelves, c.pool[i].x, c.pool[i].y, c.pool[i].w, c.pool[i].h)
      BY <1>1, <2>2
    <3>3. /\ OnOne(n.shelves, c.pool[i].x, c.pool[i].y, c.pool[i].w, c.pool[i].h)
          /\ Parted(c.pool[i].x, c.pool[i].y, c.pool[i].w, c.pool[i].h, g.x, g.y, g.w, g.h)
      BY <2>1, <3>1, <3>2, GlyphFields DEF Housed
    <3> QED
      BY <3>3 DEF Apart, Parted
  <2>3. ShelvesOK(n.shelves, n.currentY) /\ OnOne(n.shelves, g.x, g.y, g.w, g.h)
    BY <2>1 DEF Housed
  <2> QED
    BY <2>2, <2>3
<1> QED
  BY <1>2, <1>3 DEF Load

LEMMA LoadPool ==
  ASSUME NEW c, CacheOK(c), NEW key \in GlyphKey, NEW g, NEW slot, NEW n, Load(c, key, g, slot, n)
  PROVE  PoolOK(n)
<1> DEFINE m == Len(c.pool) + 1
<1>1. /\ Len(n.pool) = m /\ n.pool[m] = g
      /\ \A i \in 1 .. Len(c.pool) : n.pool[i] = c.pool[i]
      /\ \A i \in 1 .. Len(n.pool) : i = m \/ i \in 1 .. Len(c.pool)
  BY LoadFacts
<1>2. Len(n.pool) < GlyphPoolMax
  BY <1>1 DEF Load
<1> HIDE DEF m
<1>3. \A i \in 1 .. Len(n.pool) : n.pool[i].w > 0 =>
        OnOne(n.shelves, n.pool[i].x, n.pool[i].y, n.pool[i].w, n.pool[i].h)
  <2> TAKE i \in 1 .. Len(n.pool)
  <2>1. CASE i = m
    BY <1>1, <2>1, LoadShelves
  <2>2. CASE i \in 1 .. Len(c.pool)
    BY <1>1, <2>2, LoadShelves
  <2> QED
    BY <1>1, <2>1, <2>2
<1>4. \A i \in 1 .. Len(c.pool) : c.pool[i].key # g.key
  BY DEF Load
<1>5. ASSUME NEW i \in 1 .. Len(n.pool), NEW j \in 1 .. Len(n.pool), i # j
      PROVE  /\ n.pool[i].key # n.pool[j].key
             /\ n.pool[i].w > 0 /\ n.pool[j].w > 0 => Apart(n.pool[i], n.pool[j])
  <2>1. CASE i = m
    <3>1. j \in 1 .. Len(c.pool)
      BY <1>1, <1>5, <2>1
    <3> QED
      BY <1>1, <1>4, <2>1, <3>1, LoadShelves
  <2>2. CASE j = m
    <3>1. i \in 1 .. Len(c.pool)
      BY <1>1, <1>5, <2>2
    <3> QED
      BY <1>1, <1>4, <2>2, <3>1, LoadShelves
  <2>3. CASE i \in 1 .. Len(c.pool) /\ j \in 1 .. Len(c.pool)
    BY <1>1, <1>5, <2>3 DEF CacheOK, PoolOK
  <2> QED
    BY <1>1, <2>1, <2>2, <2>3
<1> QED
  BY <1>2, <1>3, <1>5 DEF PoolOK

LEMMA LoadTable ==
  ASSUME NEW c, CacheOK(c), NEW key \in GlyphKey, NEW g, NEW slot, NEW n, Load(c, key, g, slot, n)
  PROVE  TableOK(n)
<1> DEFINE m == Len(c.pool) + 1
           S == 0 .. GlyphHashSize - 1
<1>1. /\ Len(n.pool) = m /\ n.pool[m] = g /\ m \in Nat /\ m # 0
      /\ \A i \in 1 .. Len(c.pool) : n.pool[i] = c.pool[i]
      /\ \A i \in 1 .. Len(n.pool) : i = m \/ i \in 1 .. Len(c.pool)
  BY LoadFacts
<1>2. PICK k : ProbedUpTo(c.table, key, k) /\ slot = SlotOf(key, k)
  BY DEF Load
<1>3. k \in S /\ c.table[slot] = 0 /\ \A j \in 0 .. k - 1 : c.table[SlotOf(key, j)] # 0
  BY <1>2 DEF ProbedUpTo
<1>4. slot \in S /\ \A h \in GlyphKey, i \in S : SlotOf(h, i) \in S
  BY <1>2, <1>3, SlotOfFacts
<1>5. c.table \in [S -> Nat] /\ \A s \in S : c.table[s] \in Nat /\ c.table[s] < m
  <2>1. c.table \in [S -> Nat] /\ Len(c.pool) \in Nat
    BY CacheFields DEF Slots
  <2>2. ASSUME NEW s \in S PROVE c.table[s] \in Nat /\ c.table[s] < m
    <3>1. c.table[s] <= Len(c.pool)
      BY DEF CacheOK, TableOK
    <3>2. c.table[s] \in Nat
      BY <2>1
    <3> HIDE DEF S
    <3> QED
      BY <2>1, <3>1, <3>2
  <2> QED
    BY <2>1, <2>2
<1>6. \A s \in S : n.table[s] = IF s = slot THEN m ELSE c.table[s]
  <2>1. n.table = [c.table EXCEPT ![slot] = m]
    BY DEF Load, Filed
  <2> QED
    BY <1>5, <2>1
<1> HIDE DEF m
<1>7. \A s \in S : n.table[s] <= m
  BY <1>1, <1>5, <1>6
<1>8. \A s, t \in S : n.table[s] = n.table[t] /\ n.table[s] # 0 => s = t
  <2> TAKE s, t \in S
  <2>1. c.table[s] = c.table[t] /\ c.table[s] # 0 => s = t
    BY DEF CacheOK, TableOK
  <2>2. c.table[s] # m /\ c.table[t] # m
    BY <1>1, <1>5
  <2> QED
    BY <1>6, <2>1, <2>2
<1>9. \A s \in S : c.table[s] # 0 => n.table[s] = c.table[s] /\ n.table[s] # 0
  BY <1>3, <1>6
<1>10. Reached(n.table, key, m)
  <2>1. n.table[SlotOf(key, k)] = m
    BY <1>2, <1>4, <1>6
  <2>2. \A j \in 0 .. k - 1 : n.table[SlotOf(key, j)] # 0
    <3> TAKE j \in 0 .. k - 1
    <3>1. j \in S /\ c.table[SlotOf(key, j)] # 0
      BY <1>3, AtlasFacts
    <3> QED
      BY <1>4, <1>9, <3>1
  <2> QED
    BY <1>3, <2>1, <2>2 DEF Reached
<1>11. ASSUME NEW i \in 1 .. Len(c.pool) PROVE Reached(n.table, c.pool[i].key, i)
  <2>1. c.pool[i].key \in GlyphKey /\ i # 0
    BY CacheFields, GlyphFields
  <2>2. PICK j \in S : /\ c.table[SlotOf(c.pool[i].key, j)] = i
                       /\ \A l \in 0 .. j - 1 : c.table[SlotOf(c.pool[i].key, l)] # 0
    BY DEF CacheOK, TableOK, Reached
  <2>3. n.table[SlotOf(c.pool[i].key, j)] = i
    BY <1>4, <1>9, <2>1, <2>2
  <2>4. \A l \in 0 .. j - 1 : n.table[SlotOf(c.pool[i].key, l)] # 0
    <3> TAKE l \in 0 .. j - 1
    <3>1. l \in S /\ c.table[SlotOf(c.pool[i].key, l)] # 0
      BY <2>2, AtlasFacts
    <3> QED
      BY <1>4, <1>9, <2>1, <3>1
  <2> QED
    BY <2>2, <2>3, <2>4 DEF Reached
<1>12. \A i \in 1 .. Len(n.pool) : Reached(n.table, n.pool[i].key, i)
  <2> TAKE i \in 1 .. Len(n.pool)
  <2>1. CASE i = m
    <3>1. g.key = key
      BY DEF Load
    <3> QED
      BY <1>1, <1>10, <2>1, <3>1
  <2>2. CASE i \in 1 .. Len(c.pool)
    BY <1>1, <1>11, <2>2
  <2> QED
    BY <1>1, <2>1, <2>2
<1> QED
  BY <1>1, <1>7, <1>8, <1>12 DEF TableOK

LEMMA LoadFast ==
  ASSUME NEW c, CacheOK(c), NEW key \in GlyphKey, NEW g, NEW slot, NEW n, Load(c, key, g, slot, n)
  PROVE  FastOK(n)
<1> DEFINE m == Len(c.pool) + 1
<1>1. /\ Len(n.pool) = m /\ n.pool[m] = g /\ m \in 1 .. Len(n.pool)
      /\ \A i \in 1 .. Len(c.pool) : n.pool[i] = c.pool[i] /\ i \in 1 .. Len(n.pool)
      /\ \A i \in 1 .. Len(n.pool) : i = m \/ i \in 1 .. Len(c.pool)
  BY LoadFacts
<1>2. g.key = key /\ n.fast = (IF IsFast(key) THEN c.fast \cup {key} ELSE c.fast)
  BY DEF Load, Filed
<1>3. /\ \A i \in 1 .. Len(c.pool) : IsFast(c.pool[i].key) => c.pool[i].key \in c.fast
      /\ \A k \in c.fast : \E i \in 1 .. Len(c.pool) : c.pool[i].key = k
  BY DEF CacheOK, FastOK
<1> HIDE DEF m
<1>4. \A i \in 1 .. Len(n.pool) : IsFast(n.pool[i].key) => n.pool[i].key \in n.fast
  <2> TAKE i \in 1 .. Len(n.pool)
  <2>1. CASE i = m
    BY <1>1, <1>2, <2>1
  <2>2. CASE i \in 1 .. Len(c.pool)
    BY <1>1, <1>2, <1>3, <2>2
  <2> QED
    BY <1>1, <2>1, <2>2
<1>5. \A k \in n.fast : \E i \in 1 .. Len(n.pool) : n.pool[i].key = k
  <2> TAKE k \in n.fast
  <2>1. CASE k = key
    BY <1>1, <1>2, <2>1
  <2>2. CASE k \in c.fast
    BY <1>1, <1>3, <2>2
  <2> QED
    BY <1>2, <2>1, <2>2
<1> QED
  BY <1>4, <1>5 DEF FastOK

LEMMA LoadStaged ==
  ASSUME NEW c, CacheOK(c), NEW key \in GlyphKey, NEW g, NEW slot, NEW n, Load(c, key, g, slot, n)
  PROVE  StagedOK(n)
<1> DEFINE m == Len(c.pool) + 1
<1>1. /\ Len(n.pool) = m /\ n.pool[m] = g
      /\ \A i \in 1 .. Len(c.pool) : n.pool[i] = c.pool[i]
      /\ \A i \in 1 .. Len(n.pool) : i = m \/ i \in 1 .. Len(c.pool)
  BY LoadFacts
<1>2. n.texture = c.texture
  BY DEF Load, Filed
<1>3. g.y \in Nat /\ g.h \in Nat
  BY LoadFacts, GlyphFields
<1>4. c.dirty.low \in Nat /\ c.dirty.high \in Nat /\ c.dirty.on \in BOOLEAN
  BY CacheFields DEF DirtySet
<1>5. \A y \in Int : Stale(c.dirty, y) => Stale(n.dirty, y)
  <2>1. CASE Blank(c, g, n)
    BY <2>1 DEF Blank
  <2>2. CASE Drawable(c, g, n)
    BY <1>3, <1>4, <2>2 DEF Drawable, MarkDirty, Stale
  <2> QED
    BY <2>1, <2>2 DEF Load
<1>6. g.w > 0 => \A y \in RowsOf(g) : Stale(n.dirty, y)
  <2>1. CASE Blank(c, g, n)
    BY <2>1 DEF Blank
  <2>2. CASE Drawable(c, g, n)
    BY <1>3, <1>4, <2>2 DEF Drawable, MarkDirty, Stale, RowsOf
  <2> QED
    BY <2>1, <2>2 DEF Load
<1> HIDE DEF m
<1>7. ASSUME NEW i \in 1 .. Len(n.pool), n.pool[i].w > 0, NEW y \in RowsOf(n.pool[i])
      PROVE  n.texture[y] >= i \/ Stale(n.dirty, y)
  <2>1. CASE i = m
    BY <1>1, <1>6, <1>7, <2>1
  <2>2. CASE i \in 1 .. Len(c.pool)
    <3>1. n.pool[i] = c.pool[i]
      BY <1>1, <2>2
    <3>2. y \in Int
      BY DEF RowsOf
    <3>3. c.texture[y] >= i \/ Stale(c.dirty, y)
      BY <1>7, <2>2, <3>1 DEF CacheOK, StagedOK
    <3> QED
      BY <1>2, <1>5, <3>2, <3>3
  <2> QED
    BY <1>1, <2>1, <2>2
<1> QED
  BY <1>7 DEF StagedOK

LEMMA LoadGrows ==
  ASSUME NEW c, CacheOK(c), NEW key \in GlyphKey, NEW g, NEW slot, NEW n, Load(c, key, g, slot, n)
  PROVE  Grows(c, n)
<1>1. CacheOK(n)
  BY LoadFacts, LoadShelves, LoadPool, LoadTable, LoadFast, LoadStaged DEF CacheOK
<1>2. \A i \in 1 .. Len(c.pool) : n.pool[i] = c.pool[i] /\ i \in 1 .. Len(n.pool)
  BY LoadFacts
<1>3. n.texture = c.texture
  BY DEF Load, Filed
<1>4. Pictured(c) \subseteq Pictured(n)
  BY <1>2 DEF Pictured
<1>5. \A i \in Pictured(c) : n.pool[i] = c.pool[i]
  BY <1>2 DEF Pictured
<1> QED
  BY <1>1, <1>3, <1>4, <1>5 DEF Grows, Uploaded

\* The cache with the rows of a new picture marked, and with a new glyph.
Marked(r, h) == [r.cache EXCEPT !.dirty = MarkDirty(@, r.y, h)]
Entered(from, key, g, slot, m) ==
  [from EXCEPT !.fonts = @ \cup {key.size},
               !.pool = Append(@, g),
               !.table[slot] = m,
               !.fast = IF IsFast(key) THEN @ \cup {key} ELSE @]

LEMMA LoadedInto ==
  ASSUME NEW c, c \in CacheSet, NEW from, from \in CacheSet, from.pool = c.pool,
         from.table = c.table, from.fast = c.fast, from.texture = c.texture,
         NEW key \in GlyphKey, NEW g \in Glyph, NEW slot \in 0 .. GlyphHashSize - 1,
         Len(c.pool) \in Nat, key.size \in Nat,
         NEW n, n = Entered(from, key, g, slot, Len(c.pool) + 1)
  PROVE  Filed(c, key, g, slot, n) /\ n.dirty = from.dirty /\ n.shelves = from.shelves
         /\ n.currentY = from.currentY
<1> DEFINE v == Len(c.pool) + 1
<1>0. v \in Nat
  OBVIOUS
<1> HIDE DEF v
<1>1. /\ n.fonts = from.fonts \cup {key.size} /\ n.pool = Append(from.pool, g)
      /\ n.table = [from.table EXCEPT ![slot] = v]
      /\ n.fast = (IF IsFast(key) THEN from.fast \cup {key} ELSE from.fast)
      /\ n.shelves = from.shelves /\ n.currentY = from.currentY
      /\ n.dirty = from.dirty /\ n.texture = from.texture
      /\ n = [fonts |-> n.fonts, pool |-> n.pool, table |-> n.table, fast |-> n.fast,
              shelves |-> n.shelves, currentY |-> n.currentY, dirty |-> n.dirty,
              texture |-> n.texture]
  BY DEF CacheSet, Entered, v
<1>2. /\ from.fonts \in SUBSET Nat /\ from.pool \in Seq(Glyph) /\ from.table \in Slots
      /\ from.fast \in SUBSET GlyphKey /\ from.shelves \in Seq(Shelf)
      /\ from.currentY \in Nat /\ from.dirty \in DirtySet /\ from.texture \in Rows
  BY DEF CacheSet
<1>3. n.fonts \in SUBSET Nat
  BY <1>1, <1>2
<1>4. n.pool \in Seq(Glyph)
  <2>1. n.pool = Append(from.pool, g) /\ from.pool \in Seq(Glyph)
    BY <1>1, <1>2
  <2> QED
    BY <2>1, AppendProperties
<1>5. n.table \in Slots
  BY <1>0, <1>1, <1>2 DEF Slots
<1>6. n.fast \in SUBSET GlyphKey
  BY <1>1, <1>2
<1>7. n.shelves \in Seq(Shelf) /\ n.currentY \in Nat /\ n.dirty \in DirtySet /\ n.texture \in Rows
  BY <1>1, <1>2
<1>8. n \in CacheSet
  BY <1>1, <1>3, <1>4, <1>5, <1>6, <1>7, Zenon DEF CacheSet
<1> QED
  BY <1>1, <1>8, Zenon DEF Filed, v

LEMMA RoomOf ==
  ASSUME NEW c, CacheOK(c), NEW w \in Nat, NEW h \in Nat, NEW r, Roomy(c, w, h, r)
  PROVE  LET from == Marked(r, h) IN
         /\ from \in CacheSet /\ from.pool = c.pool /\ from.table = c.table
         /\ from.fast = c.fast /\ from.texture = c.texture
         /\ from.dirty = MarkDirty(c.dirty, r.y, h)
         /\ from.shelves = r.cache.shelves /\ from.currentY = r.cache.currentY
<1> DEFINE n == r.cache
           from == Marked(r, h)
<1>1. n.shelves \in Seq(Shelf) /\ n.currentY \in Nat /\ r.y \in Nat
      /\ n = [c EXCEPT !.shelves = n.shelves, !.currentY = n.currentY]
  BY DEF Roomy
<1>2. c \in CacheSet
  BY DEF CacheOK
<1> HIDE DEF n
<1>3. n \in CacheSet /\ n.pool = c.pool /\ n.table = c.table /\ n.fast = c.fast
      /\ n.texture = c.texture /\ n.dirty = c.dirty
  BY <1>1, <1>2 DEF CacheSet
<1>4. MarkDirty(c.dirty, r.y, h) \in DirtySet
  <2>1. c.dirty.low \in Nat /\ c.dirty.high \in Nat
    BY CacheFields DEF DirtySet
  <2> QED
    BY <1>1, <2>1 DEF MarkDirty, DirtySet
<1> DEFINE d == MarkDirty(c.dirty, r.y, h)
<1>5. from = [n EXCEPT !.dirty = d] /\ d \in DirtySet
  BY <1>3, <1>4 DEF Marked, n
<1> HIDE DEF d, from
<1>6. from \in CacheSet /\ from.pool = n.pool /\ from.table = n.table /\ from.fast = n.fast
      /\ from.texture = n.texture /\ from.dirty = d
      /\ from.shelves = n.shelves /\ from.currentY = n.currentY
  BY <1>3, <1>5 DEF CacheSet
<1> QED
  BY <1>3, <1>6 DEF n, from, d

LEMMA LoadGlyphGrows ==
  ASSUME NEW c, CacheOK(c), NEW key \in GlyphKey,
         \A i \in 1 .. Len(c.pool) : c.pool[i].key # key
  PROVE  Grows(c, LoadGlyph(c, key))
<1> DEFINE p == Picture[<<key.code, key.size>>]
           drawn1 == p.w > 0 /\ p.h > 0
           room == IF drawn1 THEN AtlasAlloc(c, p.w, p.h) ELSE <<>>
           from == IF room = <<>> THEN c ELSE Marked(room[1], p.h)
           g == IF room = <<>> THEN [key |-> key, w |-> 0, h |-> 0, x |-> 0, y |-> 0]
                ELSE [key |-> key, w |-> p.w, h |-> p.h, x |-> room[1].x, y |-> room[1].y]
           slot == Last(Probed(c, key))
           n == Entered(from, key, g, slot, Len(c.pool) + 1)
<1>1. LoadGlyph(c, key) = LoadInto(c, key, p, room)
  BY DEF LoadGlyph
<1>2. LoadInto(c, key, p, room) = IF Len(c.pool) + 1 >= GlyphPoolMax THEN c ELSE n
  BY DEF LoadInto, Marked, Entered
<1>3. p.w \in Nat /\ p.h \in Nat /\ key.size \in Nat
  BY KeyFacts
<1>4. c \in CacheSet /\ Len(c.pool) \in Nat /\ c.pool \in Seq(Glyph)
  BY CacheFields DEF CacheOK
<1>5. room # <<>> => Roomy(c, p.w, p.h, room[1])
  <2> HIDE DEF p
  <2> QED
    BY <1>3, AtlasAllocFacts
<1> HIDE DEF p, room
<1>6. CASE Len(c.pool) + 1 >= GlyphPoolMax
  <2>1. LoadGlyph(c, key) = c
    BY <1>1, <1>2, <1>6
  <2> QED
    BY <2>1 DEF Grows
<1>7. CASE Len(c.pool) + 1 < GlyphPoolMax
  <2>0. LoadGlyph(c, key) = n
    <3>1. ~(Len(c.pool) + 1 >= GlyphPoolMax)
      BY <1>4, <1>7, AtlasFacts
    <3> HIDE DEF n
    <3> QED
      BY <1>1, <1>2, <3>1
  <2>1. PICK i : /\ ProbedUpTo(c.table, key, i)
                 /\ Probed(c, key) = [j \in 1 .. i + 1 |-> SlotOf(key, j - 1)]
    BY ProbedFacts
  <2>2. i \in Nat /\ i \in 0 .. GlyphHashSize - 1
    BY <2>1, AtlasFacts DEF ProbedUpTo
  <2>3. slot = SlotOf(key, i) /\ slot \in 0 .. GlyphHashSize - 1
    <3> DEFINE q == Probed(c, key)
    <3>1. Len(q) = i + 1
      BY <2>1, <2>2
    <3>2. q[i + 1] = SlotOf(key, (i + 1) - 1) /\ (i + 1) - 1 = i
      BY <2>1, <2>2
    <3> QED
      BY <2>2, <3>1, <3>2, SlotOfFacts DEF Last
  <2> HIDE DEF slot
  <2>4. /\ from \in CacheSet /\ from.pool = c.pool /\ from.table = c.table
        /\ from.fast = c.fast /\ from.texture = c.texture
        /\ g \in Glyph /\ g.key = key
    <3>1. CASE room = <<>>
      <4>1. from = c /\ g = [key |-> key, w |-> 0, h |-> 0, x |-> 0, y |-> 0]
        BY <3>1
      <4> HIDE DEF from, g
      <4> QED
        BY <1>4, <4>1 DEF Glyph
    <3>2. CASE room # <<>>
      <4>1. Roomy(c, p.w, p.h, room[1])
        BY <1>5, <3>2
      <4>2. from = Marked(room[1], p.h)
            /\ g = [key |-> key, w |-> p.w, h |-> p.h, x |-> room[1].x, y |-> room[1].y]
        BY <3>2, Zenon
      <4>3. room[1].x \in Nat /\ room[1].y \in Nat
        BY <4>1 DEF Roomy
      <4> HIDE DEF from, g
      <4>4. g \in Glyph /\ g.key = key
        BY <1>3, <4>2, <4>3 DEF Glyph
      <4> QED
        BY <1>3, <4>1, <4>2, <4>4, RoomOf
    <3> QED
      BY <3>1, <3>2
  <2>5. Drawable(c, g, from) \/ Blank(c, g, from)
    <3>1. CASE room = <<>>
      <4>1. from = c /\ g.w = 0
        BY <3>1
      <4> QED
        BY <4>1 DEF Blank
    <3>2. CASE room # <<>>
      <4>1. Roomy(c, p.w, p.h, room[1])
        BY <1>5, <3>2
      <4>2. from = Marked(room[1], p.h)
            /\ g = [key |-> key, w |-> p.w, h |-> p.h, x |-> room[1].x, y |-> room[1].y]
        BY <3>2, Zenon
      <4> HIDE DEF from, g
      <4>3. /\ from.dirty = MarkDirty(c.dirty, room[1].y, p.h)
            /\ from.shelves = room[1].cache.shelves /\ from.currentY = room[1].cache.currentY
        BY <1>3, <4>1, <4>2, RoomOf
      <4>4. g.x = room[1].x /\ g.y = room[1].y /\ g.w = p.w /\ g.h = p.h
        BY <4>2
      <4>5. Housed(c.shelves, c.currentY, room[1].cache.shelves, room[1].cache.currentY,
                   room[1].x, room[1].y, p.w, p.h)
        BY <4>1 DEF Roomy
      <4> QED
        BY <4>3, <4>4, <4>5 DEF Drawable
    <3> QED
      BY <3>1, <3>2
  <2> HIDE DEF from, g
  <2>6. /\ Filed(c, key, g, slot, n) /\ n.dirty = from.dirty
        /\ n.shelves = from.shelves /\ n.currentY = from.currentY
    BY <1>3, <1>4, <2>3, <2>4, LoadedInto
  <2> HIDE DEF n
  <2>7. Drawable(c, g, n) \/ Blank(c, g, n)
    BY <2>5, <2>6 DEF Drawable, Blank
  <2>8. Load(c, key, g, slot, n)
    BY <1>7, <2>1, <2>3, <2>4, <2>6, <2>7 DEF Load
  <2> QED
    BY <2>0, <2>8, LoadGrows
<1>8. Len(c.pool) + 1 >= GlyphPoolMax \/ Len(c.pool) + 1 < GlyphPoolMax
  BY <1>4, AtlasFacts
<1> QED
  BY <1>6, <1>7, <1>8

LEMMA GetGlyphGrows ==
  ASSUME NEW c, CacheOK(c), NEW key \in GlyphKey
  PROVE  Grows(c, GetGlyph(c, key))
<1>1. CASE Lookup(c, key) # 0
  BY <1>1 DEF GetGlyph, Grows
<1>2. CASE Lookup(c, key) = 0
  BY <1>2, LookupFacts, LoadGlyphGrows DEF GetGlyph
<1> QED
  BY <1>1, <1>2

LEMMA GrowsTransitive ==
  ASSUME NEW c, NEW c2, NEW c3, Grows(c, c2), Grows(c2, c3)
  PROVE  Grows(c, c3)
BY DEF Grows

\* atlas_flush
LEMMA AtlasFlushGrows ==
  ASSUME NEW c, CacheOK(c)
  PROVE  Grows(c, AtlasFlush(c)) /\ Pictured(c) \subseteq Uploaded(AtlasFlush(c))
<1> DEFINE n == AtlasFlush(c)
<1>1. CASE ~c.dirty.on
  <2>1. n = c
    BY <1>1 DEF AtlasFlush
  <2>2. \A i \in Pictured(c) : \A y \in RowsOf(c.pool[i]) : c.texture[y] >= i
    BY <1>1 DEF CacheOK, StagedOK, Pictured, Stale
  <2> QED
    BY <2>1, <2>2 DEF Grows, Uploaded
<1>2. CASE c.dirty.on
  <2> DEFINE t == [y \in DOMAIN c.texture |->
                     IF c.dirty.low <= y /\ y < c.dirty.high THEN Len(c.pool) ELSE c.texture[y]]
  <2>1. n = [c EXCEPT !.dirty = Clean, !.texture = t]
    BY <1>2 DEF AtlasFlush
  <2>2. c \in CacheSet /\ Len(c.pool) \in Nat /\ c.texture \in [0 .. AtlasSize - 1 -> Nat]
    BY CacheFields DEF CacheOK, Rows
  <2>3. t \in [0 .. AtlasSize - 1 -> Nat]
    BY <2>2
  <2>4. t \in Rows /\ Clean \in DirtySet
    BY <2>3, AtlasFacts DEF Rows, Clean, DirtySet
  <2>5. DOMAIN c.texture = 0 .. AtlasSize - 1
    BY <2>2
  <2> HIDE DEF n
  <2>6. /\ n \in CacheSet /\ n.pool = c.pool /\ n.table = c.table /\ n.fast = c.fast
        /\ n.shelves = c.shelves /\ n.currentY = c.currentY /\ n.texture = t
    <3> HIDE DEF t
    <3> QED
      BY <2>1, <2>2, <2>4 DEF CacheSet
  <2>7. ASSUME NEW i \in 1 .. Len(c.pool), c.pool[i].w > 0, NEW y \in RowsOf(c.pool[i])
        PROVE  t[y] >= i
    <3>1. y \in 0 .. AtlasSize - 1
      <4>1. /\ c.pool[i].y \in Nat /\ c.pool[i].h \in Nat /\ AtlasSize \in Nat
            /\ c.currentY \in Nat /\ c.currentY <= AtlasSize
        BY CacheFields, GlyphFields, AtlasFacts DEF CacheOK, ShelvesOK
      <4>2. PICK k \in 1 .. Len(c.shelves) : /\ c.pool[i].y = c.shelves[k].y + 1
                                             /\ c.pool[i].h + 2 <= c.shelves[k].h
        BY <2>7 DEF CacheOK, PoolOK, OnOne
      <4>3. c.shelves[k].y + c.shelves[k].h <= c.currentY
        BY DEF CacheOK, ShelvesOK
      <4>4. c.shelves[k].y \in Nat /\ c.shelves[k].h \in Nat
        BY CacheFields, ShelfFields
      <4>5. c.pool[i].y + c.pool[i].h < (c.currentY + 1) - 1
        BY <4>1, <4>2, <4>3, <4>4, EndsAbove
      <4>6. y \in Int /\ c.pool[i].y <= y /\ y <= c.pool[i].y + c.pool[i].h - 1
        BY <4>1 DEF RowsOf
      <4> DEFINE gy == c.pool[i].y
                 gh == c.pool[i].h
                 top == c.currentY
      <4>7. /\ gy \in Nat /\ gh \in Nat /\ top \in Nat /\ top <= AtlasSize /\ AtlasSize \in Nat
            /\ gy + gh < (top + 1) - 1 /\ y \in Int /\ gy <= y /\ y <= gy + gh - 1
        BY <4>1, <4>5, <4>6
      <4> HIDE DEF gy, gh, top
      <4> QED
        BY <4>7
    <3>2. c.texture[y] >= i \/ Stale(c.dirty, y)
      BY <2>7 DEF CacheOK, StagedOK
    <3>3. t[y] = IF c.dirty.low <= y /\ y < c.dirty.high THEN Len(c.pool) ELSE c.texture[y]
      BY <2>5, <3>1
    <3>4. Len(c.pool) >= i
      BY <2>2
    <3> QED
      BY <3>2, <3>3, <3>4 DEF Stale
  <2> HIDE DEF t
  <2>8. CacheOK(n)
    <3>1. ShelvesOK(n.shelves, n.currentY) /\ PoolOK(n) /\ TableOK(n) /\ FastOK(n)
      BY <2>6 DEF CacheOK, PoolOK, TableOK, FastOK
    <3>2. StagedOK(n)
      BY <2>6, <2>7 DEF StagedOK
    <3> QED
      BY <2>6, <3>1, <3>2 DEF CacheOK
  <2>9. Pictured(n) = Pictured(c) /\ Pictured(c) \subseteq Uploaded(n)
    BY <2>6, <2>7 DEF Pictured, Uploaded
  <2> QED
    BY <2>8, <2>9 DEF Grows, Uploaded, n
<1> QED
  BY <1>1, <1>2

-----------------------------------------------------------------------------
(* The loops over the characters of a text. *)

LEMMA MeasureFold ==
  ASSUME NEW n \in Nat, NEW q, DOMAIN q = 1 .. n, NEW D, NEW base \in D,
         \A d \in D, i \in 1 .. n : GetGlyph(d, q[i]) \in D
  PROVE  FoldLeft(GetGlyph, base, q) \in D
<1> DEFINE F == [i \in 1 .. n |-> [d \in D |-> GetGlyph(d, q[i])]]
           Folds(g) == g = [s \in SUBSET (1 .. n) |->
                              IF s = {} THEN base ELSE GetGlyph(g[s \ {Max(s)}], q[Max(s)])]
           f == CHOOSE g : Folds(g)
<1>1. FoldLeft(GetGlyph, base, q) = f[1 .. n]
  BY DEF FoldLeft, MapThenFoldSet
<1>2. F \in [1 .. n -> [D -> D]] /\ \A i \in 1 .. n, d \in D : F[i][d] = GetGlyph(d, q[i])
  OBVIOUS
<1> HIDE DEF F
<1>3. PICK g \in [SUBSET (1 .. n) -> D] : FoldsTo(g, n, base, F)
  BY <1>2, Folded DEF CanIterate
<1>4. Folds(g)
  <2>1. ASSUME NEW s \in SUBSET (1 .. n), s # {}
        PROVE  F[Max(s)][g[s \ {Max(s)}]] = GetGlyph(g[s \ {Max(s)}], q[Max(s)])
    <3>1. Max(s) \in 1 .. n
      <4>1. s \subseteq 0 .. n
        OBVIOUS
      <4>2. Max(s) \in s
        BY <2>1, <4>1, GreatestIn
      <4> QED
        BY <4>2
    <3>2. g[s \ {Max(s)}] \in D
      BY <1>3
    <3> QED
      BY <1>2, <3>1, <3>2
  <2>2. g = [s \in SUBSET (1 .. n) |-> IF s = {} THEN base ELSE F[Max(s)][g[s \ {Max(s)}]]]
    BY <1>3 DEF FoldsTo
  <2> QED
    BY <2>1, <2>2
<1>5. Folds(f)
  <2> HIDE DEF Folds
  <2> QED
    BY <1>4
<1> HIDE DEF f
<1>6. f[{}] = base
  BY <1>5
<1>7. ASSUME NEW i \in 1 .. n, f[1 .. i - 1] \in D PROVE f[1 .. i] \in D
  <2>1. i \in Nat /\ i # 0 /\ 1 .. i \in SUBSET (1 .. n)
    OBVIOUS
  <2>2. Max(1 .. i) = i /\ 1 .. i # {} /\ (1 .. i) \ {i} = 1 .. i - 1
    BY <2>1, MaxOfInterval
  <2>3. f[1 .. i] = GetGlyph(f[(1 .. i) \ {Max(1 .. i)}], q[Max(1 .. i)])
    BY <1>5, <2>1, <2>2
  <2>4. f[1 .. i] = GetGlyph(f[1 .. i - 1], q[i])
    BY <2>2, <2>3, Zenon
  <2> DEFINE d == f[1 .. i - 1]
  <2>5. d \in D
    BY <1>7
  <2> HIDE DEF d
  <2>6. GetGlyph(d, q[i]) \in D
    BY <2>5
  <2> QED
    BY <2>4, <2>6, Zenon DEF d
<1>8. f[1 .. n] \in D
  BY <1>6, <1>7, FoldKeeps
<1> QED
  BY <1>1, <1>8

LEMMA DrawFold ==
  ASSUME NEW n \in Nat, NEW q, DOMAIN q = 1 .. n, NEW D, NEW base \in D,
         \A d \in D, i \in 1 .. n : DrawGlyph(d, q[i]) \in D
  PROVE  FoldLeft(DrawGlyph, base, q) \in D
<1> DEFINE F == [i \in 1 .. n |-> [d \in D |-> DrawGlyph(d, q[i])]]
           Folds(g) == g = [s \in SUBSET (1 .. n) |->
                              IF s = {} THEN base ELSE DrawGlyph(g[s \ {Max(s)}], q[Max(s)])]
           f == CHOOSE g : Folds(g)
<1>1. FoldLeft(DrawGlyph, base, q) = f[1 .. n]
  BY DEF FoldLeft, MapThenFoldSet
<1>2. F \in [1 .. n -> [D -> D]] /\ \A i \in 1 .. n, d \in D : F[i][d] = DrawGlyph(d, q[i])
  OBVIOUS
<1> HIDE DEF F
<1>3. PICK g \in [SUBSET (1 .. n) -> D] : FoldsTo(g, n, base, F)
  BY <1>2, Folded DEF CanIterate
<1>4. Folds(g)
  <2>1. ASSUME NEW s \in SUBSET (1 .. n), s # {}
        PROVE  F[Max(s)][g[s \ {Max(s)}]] = DrawGlyph(g[s \ {Max(s)}], q[Max(s)])
    <3>1. Max(s) \in 1 .. n
      <4>1. s \subseteq 0 .. n
        OBVIOUS
      <4>2. Max(s) \in s
        BY <2>1, <4>1, GreatestIn
      <4> QED
        BY <4>2
    <3>2. g[s \ {Max(s)}] \in D
      BY <1>3
    <3> QED
      BY <1>2, <3>1, <3>2
  <2>2. g = [s \in SUBSET (1 .. n) |-> IF s = {} THEN base ELSE F[Max(s)][g[s \ {Max(s)}]]]
    BY <1>3 DEF FoldsTo
  <2> QED
    BY <2>1, <2>2
<1>5. Folds(f)
  <2> HIDE DEF Folds
  <2> QED
    BY <1>4
<1> HIDE DEF f
<1>6. f[{}] = base
  BY <1>5
<1>7. ASSUME NEW i \in 1 .. n, f[1 .. i - 1] \in D PROVE f[1 .. i] \in D
  <2>1. i \in Nat /\ i # 0 /\ 1 .. i \in SUBSET (1 .. n)
    OBVIOUS
  <2>2. Max(1 .. i) = i /\ 1 .. i # {} /\ (1 .. i) \ {i} = 1 .. i - 1
    BY <2>1, MaxOfInterval
  <2>3. f[1 .. i] = DrawGlyph(f[(1 .. i) \ {Max(1 .. i)}], q[Max(1 .. i)])
    BY <1>5, <2>1, <2>2
  <2>4. f[1 .. i] = DrawGlyph(f[1 .. i - 1], q[i])
    BY <2>2, <2>3, Zenon
  <2> DEFINE d == f[1 .. i - 1]
  <2>5. d \in D
    BY <1>7
  <2> HIDE DEF d
  <2>6. DrawGlyph(d, q[i]) \in D
    BY <2>5
  <2> QED
    BY <2>4, <2>6, Zenon DEF d
<1>8. f[1 .. n] \in D
  BY <1>6, <1>7, FoldKeeps
<1> QED
  BY <1>1, <1>8

LEMMA QuadFold ==
  ASSUME NEW n \in Nat, NEW q, DOMAIN q = 1 .. n, NEW D, NEW base \in D,
         \A d \in D, i \in 1 .. n : DrawQuad(d, q[i]) \in D
  PROVE  FoldLeft(DrawQuad, base, q) \in D
<1> DEFINE F == [i \in 1 .. n |-> [d \in D |-> DrawQuad(d, q[i])]]
           Folds(g) == g = [s \in SUBSET (1 .. n) |->
                              IF s = {} THEN base ELSE DrawQuad(g[s \ {Max(s)}], q[Max(s)])]
           f == CHOOSE g : Folds(g)
<1>1. FoldLeft(DrawQuad, base, q) = f[1 .. n]
  BY DEF FoldLeft, MapThenFoldSet
<1>2. F \in [1 .. n -> [D -> D]] /\ \A i \in 1 .. n, d \in D : F[i][d] = DrawQuad(d, q[i])
  OBVIOUS
<1> HIDE DEF F
<1>3. PICK g \in [SUBSET (1 .. n) -> D] : FoldsTo(g, n, base, F)
  BY <1>2, Folded DEF CanIterate
<1>4. Folds(g)
  <2>1. ASSUME NEW s \in SUBSET (1 .. n), s # {}
        PROVE  F[Max(s)][g[s \ {Max(s)}]] = DrawQuad(g[s \ {Max(s)}], q[Max(s)])
    <3>1. Max(s) \in 1 .. n
      <4>1. s \subseteq 0 .. n
        OBVIOUS
      <4>2. Max(s) \in s
        BY <2>1, <4>1, GreatestIn
      <4> QED
        BY <4>2
    <3>2. g[s \ {Max(s)}] \in D
      BY <1>3
    <3> QED
      BY <1>2, <3>1, <3>2
  <2>2. g = [s \in SUBSET (1 .. n) |-> IF s = {} THEN base ELSE F[Max(s)][g[s \ {Max(s)}]]]
    BY <1>3 DEF FoldsTo
  <2> QED
    BY <2>1, <2>2
<1>5. Folds(f)
  <2> HIDE DEF Folds
  <2> QED
    BY <1>4
<1> HIDE DEF f
<1>6. f[{}] = base
  BY <1>5
<1>7. ASSUME NEW i \in 1 .. n, f[1 .. i - 1] \in D PROVE f[1 .. i] \in D
  <2>1. i \in Nat /\ i # 0 /\ 1 .. i \in SUBSET (1 .. n)
    OBVIOUS
  <2>2. Max(1 .. i) = i /\ 1 .. i # {} /\ (1 .. i) \ {i} = 1 .. i - 1
    BY <2>1, MaxOfInterval
  <2>3. f[1 .. i] = DrawQuad(f[(1 .. i) \ {Max(1 .. i)}], q[Max(1 .. i)])
    BY <1>5, <2>1, <2>2
  <2>4. f[1 .. i] = DrawQuad(f[1 .. i - 1], q[i])
    BY <2>2, <2>3, Zenon
  <2> DEFINE d == f[1 .. i - 1]
  <2>5. d \in D
    BY <1>7
  <2> HIDE DEF d
  <2>6. DrawQuad(d, q[i]) \in D
    BY <2>5
  <2> QED
    BY <2>4, <2>6, Zenon DEF d
<1>8. f[1 .. n] \in D
  BY <1>6, <1>7, FoldKeeps
<1> QED
  BY <1>1, <1>8

LEMMA WarmFold ==
  ASSUME NEW n \in Nat, NEW q, DOMAIN q = 1 .. n, NEW D, NEW base \in D,
         \A d \in D, i \in 1 .. n : WarmOne(d, q[i]) \in D
  PROVE  FoldLeft(WarmOne, base, q) \in D
<1> DEFINE F == [i \in 1 .. n |-> [d \in D |-> WarmOne(d, q[i])]]
           Folds(g) == g = [s \in SUBSET (1 .. n) |->
                              IF s = {} THEN base ELSE WarmOne(g[s \ {Max(s)}], q[Max(s)])]
           f == CHOOSE g : Folds(g)
<1>1. FoldLeft(WarmOne, base, q) = f[1 .. n]
  BY DEF FoldLeft, MapThenFoldSet
<1>2. F \in [1 .. n -> [D -> D]] /\ \A i \in 1 .. n, d \in D : F[i][d] = WarmOne(d, q[i])
  OBVIOUS
<1> HIDE DEF F
<1>3. PICK g \in [SUBSET (1 .. n) -> D] : FoldsTo(g, n, base, F)
  BY <1>2, Folded DEF CanIterate
<1>4. Folds(g)
  <2>1. ASSUME NEW s \in SUBSET (1 .. n), s # {}
        PROVE  F[Max(s)][g[s \ {Max(s)}]] = WarmOne(g[s \ {Max(s)}], q[Max(s)])
    <3>1. Max(s) \in 1 .. n
      <4>1. s \subseteq 0 .. n
        OBVIOUS
      <4>2. Max(s) \in s
        BY <2>1, <4>1, GreatestIn
      <4> QED
        BY <4>2
    <3>2. g[s \ {Max(s)}] \in D
      BY <1>3
    <3> QED
      BY <1>2, <3>1, <3>2
  <2>2. g = [s \in SUBSET (1 .. n) |-> IF s = {} THEN base ELSE F[Max(s)][g[s \ {Max(s)}]]]
    BY <1>3 DEF FoldsTo
  <2> QED
    BY <2>1, <2>2
<1>5. Folds(f)
  <2> HIDE DEF Folds
  <2> QED
    BY <1>4
<1> HIDE DEF f
<1>6. f[{}] = base
  BY <1>5
<1>7. ASSUME NEW i \in 1 .. n, f[1 .. i - 1] \in D PROVE f[1 .. i] \in D
  <2>1. i \in Nat /\ i # 0 /\ 1 .. i \in SUBSET (1 .. n)
    OBVIOUS
  <2>2. Max(1 .. i) = i /\ 1 .. i # {} /\ (1 .. i) \ {i} = 1 .. i - 1
    BY <2>1, MaxOfInterval
  <2>3. f[1 .. i] = WarmOne(f[(1 .. i) \ {Max(1 .. i)}], q[Max(1 .. i)])
    BY <1>5, <2>1, <2>2
  <2>4. f[1 .. i] = WarmOne(f[1 .. i - 1], q[i])
    BY <2>2, <2>3, Zenon
  <2> DEFINE d == f[1 .. i - 1]
  <2>5. d \in D
    BY <1>7
  <2> HIDE DEF d
  <2>6. WarmOne(d, q[i]) \in D
    BY <2>5
  <2> QED
    BY <2>4, <2>6, Zenon DEF d
<1>8. f[1 .. n] \in D
  BY <1>6, <1>7, FoldKeeps
<1> QED
  BY <1>1, <1>8

-----------------------------------------------------------------------------
(* Drawing. *)

BatchSet == [n : Nat, glyphs : SUBSET Nat]
DrawSet == [cache : CacheSet, batch : BatchSet, drawn : SUBSET Nat]

\* What waits to be drawn, here or in the batch B of another caller, has a
\* picture; what has been issued is in the texture.
DrawOK(B, s) ==
  /\ s \in DrawSet /\ CacheOK(s.cache) /\ B \subseteq Pictured(s.cache)
  /\ s.batch.glyphs \subseteq Pictured(s.cache) /\ s.drawn \subseteq Uploaded(s.cache)

LEMMA DrawMade ==
  ASSUME NEW B, NEW c, NEW b \in BatchSet, NEW d, CacheOK(c), B \subseteq Pictured(c),
         b.glyphs \subseteq Pictured(c), d \subseteq Uploaded(c),
         NEW s, s = [cache |-> c, batch |-> b, drawn |-> d]
  PROVE  DrawOK(B, s)
<1>1. Len(c.pool) \in Nat /\ c \in CacheSet
  BY CacheFields DEF CacheOK
<1>2. d \in SUBSET Nat
  BY <1>1 DEF Uploaded, Pictured
<1>3. s \in DrawSet
  BY <1>1, <1>2 DEF DrawSet
<1>4. s.cache = c /\ s.batch = b /\ s.drawn = d
  OBVIOUS
<1> QED
  BY <1>3, <1>4 DEF DrawOK

LEMMA DrawFields ==
  ASSUME NEW B, NEW s, DrawOK(B, s)
  PROVE  /\ s.batch \in BatchSet /\ s.batch.n \in Nat /\ CacheOK(s.cache)
         /\ s = [cache |-> s.cache, batch |-> s.batch, drawn |-> s.drawn]
         /\ B \subseteq Pictured(s.cache) /\ s.batch.glyphs \subseteq Pictured(s.cache)
         /\ s.drawn \subseteq Uploaded(s.cache)
<1>1. s \in DrawSet
  BY DEF DrawOK
<1>2. s.batch \in BatchSet /\ s = [cache |-> s.cache, batch |-> s.batch, drawn |-> s.drawn]
  BY <1>1 DEF DrawSet
<1>3. s.batch.n \in Nat
  BY <1>2 DEF BatchSet
<1> QED
  BY <1>2, <1>3 DEF DrawOK

LEMMA FlushTextFacts ==
  ASSUME NEW B, NEW s, DrawOK(B, s)
  PROVE  DrawOK(B, FlushText(s))
<1>1. CASE s.batch.n = 0
  BY <1>1 DEF FlushText
<1>2. CASE s.batch.n # 0
  <2> DEFINE c == s.cache
             n == AtlasFlush(c)
             d == s.drawn \cup s.batch.glyphs
  <2>1. FlushText(s) = [cache |-> n, batch |-> NoQuads, drawn |-> d]
    BY <1>2 DEF FlushText
  <2>2. Grows(c, n) /\ Pictured(c) \subseteq Uploaded(n)
    BY DrawFields, AtlasFlushGrows
  <2>3. CacheOK(n) /\ Pictured(c) \subseteq Pictured(n) /\ Uploaded(c) \subseteq Uploaded(n)
    BY <2>2 DEF Grows
  <2> HIDE DEF n
  <2>4. B \subseteq Pictured(n) /\ d \subseteq Uploaded(n)
    BY <2>2, <2>3, DrawFields
  <2>5. NoQuads \in BatchSet /\ NoQuads.glyphs \subseteq Pictured(n)
    BY DEF NoQuads, BatchSet
  <2> HIDE DEF d, c
  <2> QED
    BY <2>1, <2>3, <2>4, <2>5, DrawMade
<1> QED
  BY <1>1, <1>2

LEMMA FlushKeepsPictures ==
  ASSUME NEW B, NEW s, DrawOK(B, s)
  PROVE  Pictured(s.cache) \subseteq Pictured(FlushText(s).cache)
<1>1. CASE s.batch.n = 0
  BY <1>1 DEF FlushText
<1>2. CASE s.batch.n # 0
  <2>1. FlushText(s).cache = AtlasFlush(s.cache)
    BY <1>2 DEF FlushText
  <2> QED
    BY <2>1, DrawFields, AtlasFlushGrows DEF Grows
<1> QED
  BY <1>1, <1>2

LEMMA EmitFacts ==
  ASSUME NEW B, NEW s, DrawOK(B, s), NEW i \in Pictured(s.cache)
  PROVE  DrawOK(B, EmitGlyphQuad(s, i))
<1> DEFINE f == IF s.batch.n = MaxQuads THEN FlushText(s) ELSE s
           b == [n |-> f.batch.n + 1, glyphs |-> f.batch.glyphs \cup {i}]
<1>1. DrawOK(B, f) /\ i \in Pictured(f.cache)
  BY FlushTextFacts, FlushKeepsPictures
<1>2. EmitGlyphQuad(s, i) = [f EXCEPT !.batch = b]
  BY DEF EmitGlyphQuad
<1> HIDE DEF f
<1>3. /\ f.batch \in BatchSet /\ f.batch.n \in Nat /\ CacheOK(f.cache)
      /\ f = [cache |-> f.cache, batch |-> f.batch, drawn |-> f.drawn]
      /\ B \subseteq Pictured(f.cache) /\ f.batch.glyphs \subseteq Pictured(f.cache)
      /\ f.drawn \subseteq Uploaded(f.cache)
  BY <1>1, DrawFields
<1>4. b \in BatchSet /\ b.glyphs \subseteq Pictured(f.cache)
  <2>1. i \in Nat
    BY <1>1, <1>3, CacheFields DEF Pictured
  <2>2. f.batch.glyphs \in SUBSET Nat
    BY <1>3 DEF BatchSet
  <2>3. f.batch.n + 1 \in Nat
    BY <1>3
  <2> QED
    BY <1>1, <1>3, <2>1, <2>2, <2>3 DEF BatchSet
<1> HIDE DEF b
<1>5. [f EXCEPT !.batch = b] = [cache |-> f.cache, batch |-> b, drawn |-> f.drawn]
  BY <1>3
<1> QED
  BY <1>2, <1>3, <1>4, <1>5, DrawMade

LEMMA DrawGlyphFacts ==
  ASSUME NEW B, NEW s, DrawOK(B, s), NEW key \in GlyphKey
  PROVE  DrawOK(B, DrawGlyph(s, key))
<1> DEFINE c == GetGlyph(s.cache, key)
           t == [s EXCEPT !.cache = c]
           i == Lookup(c, key)
<1>1. CacheOK(c) /\ Pictured(s.cache) \subseteq Pictured(c) /\ Uploaded(s.cache) \subseteq Uploaded(c)
  BY DrawFields, GetGlyphGrows DEF Grows
<1>2. DrawGlyph(s, key) = DrawLoaded(t, Lookup(t.cache, key))
  BY DEF DrawGlyph, DrawFrom
<1> HIDE DEF c
<1>3. /\ s.batch \in BatchSet /\ B \subseteq Pictured(c) /\ s.batch.glyphs \subseteq Pictured(c)
      /\ s.drawn \subseteq Uploaded(c)
      /\ s = [cache |-> s.cache, batch |-> s.batch, drawn |-> s.drawn]
  BY <1>1, DrawFields
<1>4. t = [cache |-> c, batch |-> s.batch, drawn |-> s.drawn] /\ t.cache = c
  BY <1>3
<1>5. DrawOK(B, t)
  BY <1>1, <1>3, <1>4, DrawMade
<1>6. i \in 0 .. Len(c.pool) /\ Len(c.pool) \in Nat
  BY <1>1, LookupFacts, CacheFields
<1> HIDE DEF i, t
<1>7. CASE i = 0 \/ c.pool[i].w = 0
  <2>1. DrawLoaded(t, i) = t
    BY <1>4, <1>7 DEF DrawLoaded
  <2> QED
    BY <1>2, <1>4, <1>5, <2>1 DEF i
<1>8. CASE ~(i = 0 \/ c.pool[i].w = 0)
  <2>1. DrawLoaded(t, i) = EmitGlyphQuad(t, i)
    BY <1>4, <1>8 DEF DrawLoaded
  <2>2. i \in 1 .. Len(c.pool)
    BY <1>6, <1>8
  <2>3. c.pool[i].w \in Nat
    BY <1>1, <2>2, CacheFields, GlyphFields
  <2>4. i \in Pictured(t.cache)
    BY <1>4, <1>8, <2>2, <2>3 DEF Pictured
  <2> QED
    BY <1>2, <1>4, <1>5, <2>1, <2>4, EmitFacts DEF i
<1> QED
  BY <1>7, <1>8

LEMMA DrawQuadFacts ==
  ASSUME NEW B, NEW s, DrawOK(B, s), NEW key \in GlyphKey
  PROVE  DrawOK(B, DrawQuad(s, key))
BY DrawGlyphFacts, FlushTextFacts DEF DrawQuad

LEMMA KeysFacts ==
  ASSUME NEW t \in Text
  PROVE  \E n \in Nat : DOMAIN Keys(t) = 1 .. n /\ \A i \in 1 .. n : Keys(t)[i] \in GlyphKey
<1> DEFINE q == t.codes
           n == Len(q)
<1>1. q \in Seq(Range(q)) /\ Range(q) \X {t.size} \subseteq DOMAIN Picture
  BY TextCacheAssumption
<1> HIDE DEF q
<1>2. n \in Nat /\ DOMAIN q = 1 .. n
  BY <1>1, LenProperties
<1>3. \A i \in DOMAIN q : <<q[i], t.size>> \in DOMAIN Picture
  BY <1>1 DEF Range
<1>4. \A g \in DOMAIN Picture : [code |-> g[1], size |-> g[2]] \in GlyphKey
  BY DEF GlyphKey
<1>5. \A i \in DOMAIN q : [code |-> q[i], size |-> t.size] \in GlyphKey
  <2> TAKE i \in DOMAIN q
  <2>1. <<q[i], t.size>>[1] = q[i] /\ <<q[i], t.size>>[2] = t.size
    OBVIOUS
  <2> QED
    BY <1>3, <1>4, <2>1
<1>6. Keys(t) = [i \in DOMAIN q |-> [code |-> q[i], size |-> t.size]]
  BY DEF Keys, q
<1> HIDE DEF n
<1> QED
  BY <1>2, <1>5, <1>6

-----------------------------------------------------------------------------
(* The steps. *)

WarmSet == [at : Nat \ {0}, code : {k \in Nat : k >= FirstCode}, german : 1 .. Len(German)]

TextCacheInv ==
  /\ CacheOK(cache) /\ batch \in BatchSet /\ batch.glyphs \subseteq Pictured(cache)
  /\ drawn \subseteq Uploaded(cache) /\ warm \in WarmSet

LEMMA GermanFacts ==
  /\ FirstCode \in Nat /\ LastCode \in Nat /\ Len(German) \in Nat /\ 1 \in 1 .. Len(German)
  /\ DOMAIN German = 1 .. Len(German)
  /\ Len(Warm) \in Nat /\ DOMAIN Warm = 1 .. Len(Warm)
<1>1. German \in Seq(Range(German)) /\ German # <<>> /\ Warm \in Seq(Range(Warm))
      /\ FirstCode \in Nat /\ LastCode \in Nat
  BY TextCacheAssumption
<1> DEFINE q == German
           R == Range(German)
<1>2. q \in Seq(R) /\ q # <<>>
  BY <1>1
<1> HIDE DEF q, R
<1>3. Len(q) \in Nat /\ Len(q) # 0 /\ DOMAIN q = 1 .. Len(q)
  BY <1>2, LenProperties, EmptySeq
<1>4. Len(Warm) \in Nat /\ DOMAIN Warm = 1 .. Len(Warm)
  BY <1>1, LenProperties
<1>5. 1 \in 1 .. Len(q)
  BY <1>3
<1> QED
  BY <1>1, <1>3, <1>4, <1>5 DEF q

LEMMA WarmFacts ==
  ASSUME NEW p \in WarmSet
  PROVE  /\ NextWarm(p) \in WarmSet
         /\ ~(p.at > Len(Warm)) => WarmKey(p) \in GlyphKey
<1>1. /\ p.at \in Nat \ {0} /\ p.code \in Nat /\ p.code >= FirstCode
      /\ p.german \in 1 .. Len(German)
      /\ p = [at |-> p.at, code |-> p.code, german |-> p.german]
  BY DEF WarmSet
<1>2. NextWarm(p) \in WarmSet
  <2>1. CASE p.code < LastCode
    <3>1. NextWarm(p) = [p EXCEPT !.code = @ + 1]
      BY <2>1, GermanFacts, <1>1 DEF NextWarm
    <3> QED
      BY <1>1, <3>1, GermanFacts DEF WarmSet
  <2>2. CASE p.code = LastCode
    <3>1. NextWarm(p) = [p EXCEPT !.code = LastCode + 1, !.german = 1]
      BY <2>2, GermanFacts, <1>1 DEF NextWarm
    <3>2. NextWarm(p) = [at |-> p.at, code |-> LastCode + 1, german |-> 1]
      BY <1>1, <3>1
    <3>3. /\ LastCode + 1 \in Nat /\ LastCode + 1 >= FirstCode
          /\ 1 \in 1 .. Len(German)
      BY <1>1, <2>2, GermanFacts
    <3> QED
      BY <1>1, <3>2, <3>3 DEF WarmSet
  <2>3. CASE p.code > LastCode /\ p.german < Len(German)
    <3>1. NextWarm(p) = [p EXCEPT !.german = @ + 1]
      BY <2>3, GermanFacts, <1>1 DEF NextWarm
    <3> QED
      BY <1>1, <2>3, <3>1, GermanFacts DEF WarmSet
  <2>4. CASE p.code > LastCode /\ ~(p.german < Len(German))
    <3>1. NextWarm(p) = [at |-> p.at + 1, code |-> FirstCode, german |-> 1]
      BY <2>4, GermanFacts, <1>1 DEF NextWarm
    <3> QED
      BY <1>1, <3>1, GermanFacts DEF WarmSet
  <2> QED
    BY <1>1, <2>1, <2>2, <2>3, <2>4, GermanFacts
<1>3. ASSUME ~(p.at > Len(Warm)) PROVE WarmKey(p) \in GlyphKey
  <2> DEFINE code == IF p.code <= LastCode THEN p.code ELSE German[p.german]
  <2>1. p.at \in DOMAIN Warm
    BY <1>1, <1>3, GermanFacts
  <2>2. Warm[p.at] \in Range(Warm)
    BY <2>1 DEF Range
  <2>3. code \in (FirstCode .. LastCode) \cup Range(German)
    <3>1. CASE p.code <= LastCode
      <4>1. p.code \in FirstCode .. LastCode
        BY <1>1, <3>1, GermanFacts
      <4> QED
        BY <3>1, <4>1
    <3>2. CASE ~(p.code <= LastCode)
      <4>1. German[p.german] \in Range(German)
        BY <1>1, GermanFacts DEF Range
      <4> QED
        BY <3>2, <4>1
    <3> QED
      BY <3>1, <3>2
  <2>4. WarmKey(p) = [code |-> code, size |-> Warm[p.at]]
    BY DEF WarmKey
  <2> HIDE DEF code
  <2>5. <<code, Warm[p.at]>> \in DOMAIN Picture
    BY <2>2, <2>3, TextCacheAssumption
  <2>6. \A g \in DOMAIN Picture : [code |-> g[1], size |-> g[2]] \in GlyphKey
    BY DEF GlyphKey
  <2>7. <<code, Warm[p.at]>>[1] = code /\ <<code, Warm[p.at]>>[2] = Warm[p.at]
    OBVIOUS
  <2> QED
    BY <2>4, <2>5, <2>6, <2>7
<1> QED
  BY <1>2, <1>3

LEMMA TextCacheStart == TextInit => TextCacheInv
<1> SUFFICES ASSUME TextInit PROVE TextCacheInv
  OBVIOUS
<1> DEFINE table0 == [s \in 0 .. GlyphHashSize - 1 |-> 0]
           rows0 == [y \in 0 .. AtlasSize - 1 |-> 0]
<1>1. cache = [fonts |-> {}, pool |-> <<>>, table |-> table0, fast |-> {},
               shelves |-> <<>>, currentY |-> 0, dirty |-> Clean, texture |-> rows0]
  BY DEF TextInit
<1>2. table0 \in Slots /\ rows0 \in Rows
  BY DEF Slots, Rows
<1>3. \A s \in 0 .. GlyphHashSize - 1 : table0[s] = 0
  OBVIOUS
<1> HIDE DEF table0, rows0
<1>4. /\ cache.fonts = {} /\ cache.pool = <<>> /\ cache.table = table0 /\ cache.fast = {}
      /\ cache.shelves = <<>> /\ cache.currentY = 0 /\ cache.dirty = Clean
      /\ cache.texture = rows0
  BY <1>1
<1>5. Clean \in DirtySet
  BY AtlasFacts DEF Clean, DirtySet
<1>6. <<>> \in Seq(Glyph) /\ <<>> \in Seq(Shelf) /\ Len(<<>>) = 0 /\ \A i : i \notin 1 .. 0
  BY EmptySeq
<1>7. cache \in CacheSet
  BY <1>1, <1>2, <1>5, <1>6 DEF CacheSet
<1>8. ShelvesOK(cache.shelves, cache.currentY) /\ PoolOK(cache)
  BY <1>4, <1>6, AtlasFacts DEF ShelvesOK, PoolOK
<1>9. TableOK(cache) /\ FastOK(cache) /\ StagedOK(cache)
  BY <1>3, <1>4, <1>6, AtlasFacts DEF TableOK, FastOK, StagedOK
<1>10. batch \in BatchSet /\ batch.glyphs = {} /\ drawn = {}
  BY DEF TextInit, NoQuads, BatchSet
<1>11. warm \in WarmSet
  BY GermanFacts DEF TextInit, WarmSet
<1> QED
  BY <1>7, <1>8, <1>9, <1>10, <1>11 DEF TextCacheInv, CacheOK

\* The caches in order in which a batch B has pictures.
Caches(B) == {c \in CacheSet : CacheOK(c) /\ B \subseteq Pictured(c)}
Draws(B) == {s \in DrawSet : DrawOK(B, s)}

LEMMA CachesIn ==
  ASSUME NEW B, NEW c
  PROVE  c \in Caches(B) <=> CacheOK(c) /\ B \subseteq Pictured(c)
BY DEF Caches, CacheOK

LEMMA DrawsIn ==
  ASSUME NEW B, NEW s
  PROVE  s \in Draws(B) <=> DrawOK(B, s)
BY DEF Draws, DrawOK

LEMMA MeasureStep ==
  ASSUME TextCacheInv, NEW t \in Text, MeasureText(t)
  PROVE  TextCacheInv'
<1> DEFINE q == Keys(t)
           D == Caches(batch.glyphs)
<1>1. PICK n \in Nat : DOMAIN q = 1 .. n /\ \A i \in 1 .. n : q[i] \in GlyphKey
  BY KeysFacts
<1>2. cache \in D
  BY CachesIn DEF TextCacheInv
<1>3. ASSUME NEW c \in D, NEW i \in 1 .. n PROVE GetGlyph(c, q[i]) \in D
  <2>1. CacheOK(c) /\ batch.glyphs \subseteq Pictured(c) /\ q[i] \in GlyphKey
    BY <1>1, CachesIn
  <2>2. Grows(c, GetGlyph(c, q[i]))
    BY <2>1, GetGlyphGrows
  <2> QED
    BY <2>1, <2>2, CachesIn DEF Grows
<1>4. cache' = FoldLeft(GetGlyph, cache, q)
  BY DEF MeasureText
<1> HIDE DEF q, D
<1>5. cache' \in D
  BY <1>1, <1>2, <1>3, <1>4, MeasureFold
<1>6. CacheOK(cache') /\ batch.glyphs \subseteq Pictured(cache')
  BY <1>5, CachesIn DEF D
<1>7. drawn' = {} /\ batch' = batch /\ warm' = warm
  BY DEF MeasureText
<1> QED
  BY <1>6, <1>7 DEF TextCacheInv

LEMMA HereFacts ==
  ASSUME TextCacheInv
  PROVE  DrawOK(batch.glyphs, Here) /\ DrawOK(batch.glyphs, [Here EXCEPT !.batch = NoQuads])
<1>1. CacheOK(cache) /\ batch \in BatchSet /\ batch.glyphs \subseteq Pictured(cache)
  BY DEF TextCacheInv
<1>2. NoQuads \in BatchSet /\ NoQuads.glyphs = {}
  BY DEF NoQuads, BatchSet
<1>3. Here = [cache |-> cache, batch |-> batch, drawn |-> {}]
  BY DEF Here
<1>4. [Here EXCEPT !.batch = NoQuads] = [cache |-> cache, batch |-> NoQuads, drawn |-> {}]
  BY <1>3
<1> QED
  BY <1>1, <1>2, <1>3, <1>4, DrawMade

LEMMA DrawClayStep ==
  ASSUME TextCacheInv, NEW t \in Text, DrawTextClay(t)
  PROVE  TextCacheInv'
<1> DEFINE q == Keys(t)
           B == batch.glyphs
           D == Draws(B)
           s == FoldLeft(DrawGlyph, Here, q)
<1>1. PICK n \in Nat : DOMAIN q = 1 .. n /\ \A i \in 1 .. n : q[i] \in GlyphKey
  BY KeysFacts
<1>2. Here \in D
  BY HereFacts, DrawsIn
<1>3. ASSUME NEW d \in D, NEW i \in 1 .. n PROVE DrawGlyph(d, q[i]) \in D
  BY <1>1, DrawsIn, DrawGlyphFacts
<1>4. cache' = s.cache /\ batch' = s.batch /\ drawn' = s.drawn /\ warm' = warm
  BY DEF DrawTextClay, Becomes
<1> HIDE DEF q, D
<1>5. s \in D
  BY <1>1, <1>2, <1>3, DrawFold
<1> HIDE DEF s
<1>6. DrawOK(B, s)
  BY <1>5, DrawsIn DEF D
<1> QED
  BY <1>4, <1>6, DrawFields DEF TextCacheInv

LEMMA DrawStringStep ==
  ASSUME TextCacheInv, NEW t \in Text, DrawString(t)
  PROVE  TextCacheInv'
<1> DEFINE q == Keys(t)
           B == batch.glyphs
           D == Draws(B)
           here == [Here EXCEPT !.batch = NoQuads]
           s == FoldLeft(DrawQuad, here, q)
           last == FlushText(s)
<1>1. PICK n \in Nat : DOMAIN q = 1 .. n /\ \A i \in 1 .. n : q[i] \in GlyphKey
  BY KeysFacts
<1>2. here \in D
  BY HereFacts, DrawsIn
<1>3. ASSUME NEW d \in D, NEW i \in 1 .. n PROVE DrawQuad(d, q[i]) \in D
  BY <1>1, DrawsIn, DrawQuadFacts
<1>4. cache' = last.cache /\ drawn' = last.drawn /\ batch' = batch /\ warm' = warm
  BY DEF DrawString
<1> HIDE DEF q, D, here
<1>5. s \in D
  BY <1>1, <1>2, <1>3, QuadFold
<1> HIDE DEF s
<1>6. DrawOK(B, last)
  BY <1>5, DrawsIn, FlushTextFacts DEF D
<1> HIDE DEF last
<1>7. CacheOK(last.cache) /\ B \subseteq Pictured(last.cache) /\ last.drawn \subseteq Uploaded(last.cache)
  BY <1>6, DrawFields
<1> QED
  BY <1>4, <1>7 DEF TextCacheInv

LEMMA RectangleStep ==
  ASSUME TextCacheInv, RenderRectangle
  PROVE  TextCacheInv'
<1> DEFINE s == FlushText(Here)
<1>1. cache' = s.cache /\ batch' = s.batch /\ drawn' = s.drawn /\ warm' = warm
  BY DEF RenderRectangle, Becomes
<1>2. DrawOK(batch.glyphs, s)
  BY HereFacts, FlushTextFacts
<1> HIDE DEF s
<1> QED
  BY <1>1, <1>2, DrawFields DEF TextCacheInv

WarmState(B) == {s \in [cache : CacheSet, warm : WarmSet] : s.cache \in Caches(B)}

LEMMA WarmUpStep ==
  ASSUME TextCacheInv, WarmUp
  PROVE  TextCacheInv'
<1> DEFINE q == [i \in 1 .. WarmCount |-> i]
           B == batch.glyphs
           D == WarmState(B)
           s0 == [cache |-> cache, warm |-> warm]
           s == FoldLeft(WarmOne, s0, q)
<1>1. WarmCount \in Nat /\ DOMAIN q = 1 .. WarmCount
  BY AtlasFacts
<1>2. s0 \in D
  <2>1. cache \in Caches(B) /\ cache \in CacheSet /\ warm \in WarmSet
    BY CachesIn DEF TextCacheInv, CacheOK
  <2> QED
    BY <2>1 DEF WarmState
<1>3. ASSUME NEW d \in D, NEW i \in 1 .. WarmCount PROVE WarmOne(d, q[i]) \in D
  <2>1. d.cache \in Caches(B) /\ d.warm \in WarmSet
    BY DEF WarmState
  <2>2. CASE d.warm.at > Len(Warm)
    BY <2>2 DEF WarmOne
  <2>3. CASE ~(d.warm.at > Len(Warm))
    <3> DEFINE c == GetGlyph(d.cache, WarmKey(d.warm))
               w == NextWarm(d.warm)
    <3>1. WarmOne(d, q[i]) = [cache |-> c, warm |-> w]
      BY <2>3 DEF WarmOne
    <3>2. w \in WarmSet /\ WarmKey(d.warm) \in GlyphKey
      BY <2>1, <2>3, WarmFacts
    <3>3. CacheOK(d.cache) /\ B \subseteq Pictured(d.cache)
      BY <2>1, CachesIn
    <3>4. Grows(d.cache, c)
      BY <3>2, <3>3, GetGlyphGrows
    <3> HIDE DEF c, w
    <3>5. CacheOK(c) /\ B \subseteq Pictured(c)
      BY <3>3, <3>4 DEF Grows
    <3>6. c \in Caches(B) /\ c \in CacheSet
      BY <3>5, CachesIn DEF CacheOK
    <3> QED
      BY <3>1, <3>2, <3>6 DEF WarmState
  <2> QED
    BY <2>2, <2>3
<1>4. cache' = AtlasFlush(s.cache) /\ warm' = s.warm /\ drawn' = {} /\ batch' = batch
  BY DEF WarmUp
<1> HIDE DEF q, D, s0
<1>5. s \in D
  BY <1>1, <1>2, <1>3, WarmFold
<1> HIDE DEF s
<1>6. s.cache \in Caches(B) /\ s.warm \in WarmSet
  BY <1>5 DEF WarmState, D
<1>7. CacheOK(s.cache) /\ B \subseteq Pictured(s.cache)
  BY <1>6, CachesIn
<1>8. CacheOK(cache') /\ B \subseteq Pictured(cache')
  BY <1>4, <1>7, AtlasFlushGrows DEF Grows
<1> QED
  BY <1>4, <1>6, <1>8 DEF TextCacheInv

-----------------------------------------------------------------------------
\* The inductive invariant of the glyphs: shelves lie below each other, pictures
\* on them beside each other, every glyph is found where it was put, and rows
\* that are not in the texture are known to be stale (app/textcache.cpp).
THEOREM GlyphInvariant == TextSpec => []TextCacheInv
<1>1. TextInit => TextCacheInv
  BY TextCacheStart
<1>2. TextCacheInv /\ [TextNext]_textVars => TextCacheInv'
  <2> SUFFICES ASSUME TextCacheInv, [TextNext]_textVars PROVE TextCacheInv'
    OBVIOUS
  <2>1. ASSUME NEW t \in Text, MeasureText(t) \/ DrawTextClay(t) \/ DrawString(t)
        PROVE  TextCacheInv'
    BY <2>1, MeasureStep, DrawClayStep, DrawStringStep
  <2>2. CASE RenderRectangle
    BY <2>2, RectangleStep
  <2>3. CASE WarmUp
    BY <2>3, WarmUpStep
  <2>4. CASE UNCHANGED textVars
    BY <2>4 DEF textVars, TextCacheInv
  <2> QED
    BY <2>1, <2>2, <2>3, <2>4 DEF TextNext
<1> QED
  BY <1>1, <1>2, PTL DEF TextSpec

\* No glyph is drawn with a piece of another one, and none is loaded twice,
\* whatever the shelves, the pool, the table and the pictures are.
THEOREM GlyphsStayApart == TextSpec => []GlyphsApart
<1>1. TextCacheInv => GlyphsApart
  <2> SUFFICES ASSUME TextCacheInv PROVE GlyphsApart
    OBVIOUS
  <2>1. CacheOK(cache) /\ DOMAIN cache.pool = 1 .. Len(cache.pool)
    BY CacheFields DEF TextCacheInv
  <2>2. ASSUME NEW i \in 1 .. Len(cache.pool), cache.pool[i].w > 0
        PROVE  /\ cache.pool[i].x >= 1 /\ cache.pool[i].y >= 1
               /\ cache.pool[i].x + cache.pool[i].w < AtlasSize
               /\ cache.pool[i].y + cache.pool[i].h < AtlasSize
    <3> DEFINE g == cache.pool[i]
               q == cache.shelves
               top == cache.currentY
    <3>1. OnOne(q, g.x, g.y, g.w, g.h) /\ ShelvesOK(q, top)
      BY <2>1, <2>2 DEF CacheOK, PoolOK
    <3>2. g.w \in Nat /\ g.h \in Nat /\ g.x \in Nat /\ g.y \in Nat /\ top \in Nat
      BY <2>1, CacheFields, GlyphFields
    <3>3. \A k \in 1 .. Len(q) : q[k].y \in Nat /\ q[k].h \in Nat /\ q[k].x \in Nat
      BY <2>1, CacheFields, ShelfFields
    <3> HIDE DEF g, q, top
    <3>4. PICK k \in 1 .. Len(q) : /\ g.y = q[k].y + 1 /\ g.h + 2 <= q[k].h
                                   /\ 1 <= g.x /\ g.x + g.w + 1 <= q[k].x
      BY <3>1 DEF OnOne
    <3>5. q[k].y + q[k].h <= top /\ q[k].x <= AtlasSize /\ top <= AtlasSize
      BY <3>1 DEF ShelvesOK
    <3>6. g.y + g.h < (top + 1) - 1
      BY <3>2, <3>3, <3>4, <3>5, EndsAbove
    <3> DEFINE gx == g.x
               gy == g.y
               gw == g.w
               gh == g.h
               sx == q[k].x
               sy == q[k].y
    <3>7. /\ gx \in Nat /\ gy \in Nat /\ gw \in Nat /\ gh \in Nat /\ sx \in Nat /\ sy \in Nat
          /\ top \in Nat /\ AtlasSize \in Nat /\ gy = sy + 1 /\ 1 <= gx /\ gx + gw + 1 <= sx
          /\ sx <= AtlasSize /\ top <= AtlasSize /\ gy + gh < (top + 1) - 1
      BY <3>2, <3>3, <3>4, <3>5, <3>6, AtlasFacts
    <3> HIDE DEF gx, gy, gw, gh, sx, sy
    <3>8. gx >= 1 /\ gy >= 1 /\ gx + gw < AtlasSize /\ gy + gh < AtlasSize
      BY <3>7
    <3> QED
      BY <3>8, Zenon DEF gx, gy, gw, gh, g
  <2>3. ASSUME NEW i \in 1 .. Len(cache.pool), NEW j \in 1 .. Len(cache.pool) \ {i}
        PROVE  /\ cache.pool[i].key # cache.pool[j].key
               /\ cache.pool[i].w > 0 /\ cache.pool[j].w > 0 =>
                    Area(cache.pool[i]) \cap Area(cache.pool[j]) = {}
    <3>1. /\ cache.pool[i].key # cache.pool[j].key
          /\ cache.pool[i].w > 0 /\ cache.pool[j].w > 0 => Apart(cache.pool[i], cache.pool[j])
      BY <2>1 DEF CacheOK, PoolOK
    <3>2. cache.pool[i] \in Glyph /\ cache.pool[j] \in Glyph
      BY <2>1, CacheFields
    <3> QED
      BY <3>1, <3>2, PartedAreas
  <2> QED
    BY <2>1, <2>2, <2>3, Zenon DEF GlyphsApart
<1> QED
  BY <1>1, GlyphInvariant, PTL

\* What has been issued to be drawn was copied to the texture before, through
\* every full batch, every other text and the warming up.
THEOREM DrawnStaysUploaded == TextSpec => []DrawnIsUploaded
<1>1. TextCacheInv => DrawnIsUploaded
  BY DEF TextCacheInv, DrawnIsUploaded, Uploaded, RowsOf
<1> QED
  BY <1>1, GlyphInvariant, PTL

=============================================================================
