------------------------------ MODULE Gestures ------------------------------
(***************************************************************************)
(* From pointer events to gestures to buttons (app/tslt.h, ui/entry.cpp,   *)
(* app/main.cpp). The main loop waits for an event, hands all that came to *)
(* SDL_AppEvent and then draws a frame. A gesture is worked out by the     *)
(* events and read by the widgets of the frame; time alone makes none. A   *)
(* timer keeps events coming while something moves, another one comes      *)
(* once a second.                                                          *)
(*                                                                         *)
(* Fingers are not told apart. The pointer moves on a line; times are in   *)
(* units that TapSwipeLongTap's threshold is a multiple of.                *)
(***************************************************************************)
EXTENDS Integers

CONSTANTS
  Place,               \* where the pointer may be
  SwipeThreshold,      \* TapSwipeLongTap::TOUCH_SWIPE_THRESHOLD
  LongTapThreshold,    \* TapSwipeLongTap::LONGTAP_THRESHOLD
  AnimationDuration,   \* interaction_animation_duration_ms
  MaxFingers,          \* fingers on the screen at once
  MaxPresses,          \* bound on the presses
  MaxClock             \* bound on the time

ASSUME GesturesAssumption ==
  /\ Place \subseteq Int
  /\ {SwipeThreshold, LongTapThreshold, AnimationDuration, MaxFingers, MaxPresses,
      MaxClock} \subseteq Nat

VARIABLES
  tslt,        \* TapSwipeLongTap
  clock,       \* SDL_GetTicks
  fingers,     \* fingers that are down
  animate,     \* animate, animation_ticks_start, and whether the timer runs
  stirred,     \* an event was handled after the last frame
  press        \* history of the last press: its number, whether it was
               \* released, moved too far, crowded out of its frame by other
               \* pointer events, and the frames that saw its tap or long tap

gestureVars == <<tslt, clock, fingers, animate, stirred, press>>

GesturesInit ==
  /\ tslt = [state |-> "KeyUp", t |-> 0, x |-> 0, delayed |-> FALSE]
  /\ clock = 0 /\ fingers = 0 /\ stirred = FALSE
  /\ animate = [wanted |-> FALSE, start |-> 0, timer |-> FALSE]
  /\ press = [n |-> 0, released |-> TRUE, strayed |-> FALSE, crowded |-> FALSE,
              answers |-> 0]

-----------------------------------------------------------------------------
(* TapSwipeLongTap                                                         *)

HeldLong(g) == clock - g.t > LongTapThreshold

HandleOther(g) ==
  IF g.state = "KeyDown" /\ HeldLong(g)
  THEN [g EXCEPT !.state = "LongTap", !.delayed = TRUE] ELSE g

HandleMotion(g, x) ==
  IF g.state = "KeyDown" /\ (g.x - x) * (g.x - x) > SwipeThreshold * SwipeThreshold
  THEN [g EXCEPT !.state = "Swipe"] ELSE HandleOther(g)

KeyDownKept(g, x) ==                                  \* mutant of HandleKeyDown
  [g EXCEPT !.state = "KeyDown", !.t = clock, !.x = x]
HandleKeyDown(g, x) == [state |-> "KeyDown", t |-> clock, x |-> x, delayed |-> FALSE]

HandleKeyUp(g, x) ==
  IF g.state = "KeyDown" THEN [g EXCEPT !.state = "Tap", !.x = x, !.delayed = TRUE]
  ELSE [g EXCEPT !.state = "KeyUp", !.x = x]

FlushDelayedReset(g) ==
  IF g.delayed THEN [g EXCEPT !.delayed = FALSE, !.state = "KeyUp"] ELSE g

Answer(g) == IF g.state \in {"Tap", "LongTap"} THEN 1 ELSE 0

-----------------------------------------------------------------------------
(* ui_event: pointer events, then everything else.                         *)

Handled(g) == tslt' = g /\ stirred' = TRUE

\* A touch asks for an animation, a mouse button does not.
Animated == \E touch \in BOOLEAN :
              animate' = [animate EXCEPT !.wanted = @ \/ touch]

PointerDown(x) ==
  /\ fingers < MaxFingers /\ press.n < MaxPresses
  /\ fingers' = fingers + 1
  /\ Handled(HandleKeyDown(tslt, x)) /\ Animated
  /\ press' = [n |-> press.n + 1, released |-> FALSE, strayed |-> FALSE,
               crowded |-> FALSE, answers |-> 0]
  /\ UNCHANGED clock

PointerUp(x) ==
  /\ fingers > 0 /\ fingers' = fingers - 1
  /\ Handled(HandleKeyUp(tslt, x)) /\ Animated
  /\ press' = [press EXCEPT !.released = TRUE,
                            !.crowded = @ \/ (Answer(tslt) = 1 /\ press.answers = 0)]
  /\ UNCHANGED clock

PointerMoves(x) ==
  /\ Handled(HandleMotion(tslt, x)) /\ Animated
  /\ press' = [press EXCEPT !.strayed = @ \/ tslt'.state = "Swipe"]
  /\ UNCHANGED <<clock, fingers>>

\* The worker's messages, the timers' events, keys, the window.
OtherEvent ==
  /\ Handled(HandleOther(tslt))
  /\ UNCHANGED <<clock, fingers, animate, press>>

\* animation_timer_cb: its event is handled like the others; the timer goes on as
\* long as the animation lasts or the pointer swipes.
AnimationTimer ==
  /\ animate.timer
  /\ animate' = [animate EXCEPT !.timer =
                   clock - animate.start < AnimationDuration \/ tslt.state = "Swipe"]
  /\ UNCHANGED <<tslt, clock, fingers, stirred, press>>

TimePasses ==
  /\ clock < MaxClock /\ clock' = clock + 1
  /\ UNCHANGED <<tslt, fingers, animate, stirred, press>>

-----------------------------------------------------------------------------
\* SDL_AppIterate. The widgets read the gesture; a button that is activated,
\* like a transition to another screen, asks for an animation.
DrawFrame ==
  /\ stirred /\ stirred' = FALSE
  /\ press' = [press EXCEPT !.answers = @ + Answer(tslt)]
  /\ tslt' = FlushDelayedReset(tslt)
  /\ \E activated \in IF Answer(tslt) = 1 THEN BOOLEAN ELSE {FALSE} :
       animate' = IF animate.wanted \/ activated
                  THEN [wanted |-> FALSE, start |-> clock, timer |-> TRUE]
                  ELSE animate
  /\ UNCHANGED <<clock, fingers>>

GesturesNext ==
  \/ \E x \in Place : PointerDown(x) \/ PointerUp(x) \/ PointerMoves(x)
  \/ OtherEvent \/ AnimationTimer \/ TimePasses \/ DrawFrame

GesturesSpec == GesturesInit /\ [][GesturesNext]_gestureVars

-----------------------------------------------------------------------------
\* A press does one thing: at most one frame sees it as a tap or a long tap,
\* however long the finger stays and whatever follows it. And it does what it
\* should: once it is over and a frame was drawn, one frame has seen it, unless
\* it moved too far or was released again before its frame.
OneAnswer ==
  /\ press.answers <= 1
  /\ press.released /\ press.n > 0 /\ ~press.strayed /\ ~press.crowded /\ ~stirred
       => press.answers = 1
=============================================================================
