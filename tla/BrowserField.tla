---------------------------- MODULE BrowserField ----------------------------
(***************************************************************************)
(* Text fields of klappt on the web (the __EMSCRIPTEN__ branches of        *)
(* ui/components/text_input.h): one hidden <input> element of the page     *)
(* takes the text for all fields. Its handlers run between two frames and  *)
(* leave flags behind, which the next frame takes; the app's own calls of  *)
(* blur() set the same handlers off.                                       *)
(*                                                                         *)
(* TextInput models the fields on SDL's text input. The browser is         *)
(* external: focus() gives the element the focus, and a window that loses  *)
(* it fires the element's blur handler but leaves the element active.      *)
(***************************************************************************)
EXTENDS Integers, Sequences, SequencesExt

CONSTANTS
  Field,       \* the fields, each with a buffer of its own
  Page,        \* screens: [fields: sequence of Field, fresh: starts with a
               \* cleared and activated first field]
  Content,     \* the texts that a user makes of the element's value
  NoText,      \* the empty text
  Unfocused    \* no field

ASSUME BrowserFieldAssumption ==
  /\ NoText \in Content /\ Unfocused \notin Field
  /\ \A p \in Page : p.fields \in Seq(Field) /\ p.fields # <<>>

VARIABLES
  focused,     \* focused_id
  buffers,     \* what the buffers hold; clear() keeps the bytes in data
  activating,  \* activate_text_input
  page,        \* the screen
  element,     \* Module.lexiSDLTextInput and its <input>
  lostEvent,   \* SDL's WINDOW_FOCUS_LOST is on its way
  typed,       \* history: the element's value changed since the last frame
  returned     \* history: the element took the focus back by itself

fieldVars == <<focused, buffers, activating, page, element, lostEvent, typed, returned>>

View(b) == IF b.empty THEN NoText ELSE b.data

\* MobileTextInputBuffer::clear
Cleared(b) == [data |-> b.data, empty |-> TRUE]

-----------------------------------------------------------------------------
(* The handlers of the element. active is false once a blur was heard.     *)

BlurHeard(e) ==
  [e EXCEPT !.closing = FALSE, !.active = FALSE,
            !.pending = IF e.closing THEN "no" ELSE IF e.active THEN "young" ELSE @]

Blurred(e) == IF e.focus THEN [BlurHeard(e) EXCEPT !.focus = FALSE] ELSE e

Enter(e) == Blurred([e EXCEPT !.submitted = TRUE, !.closing = TRUE, !.active = FALSE])

-----------------------------------------------------------------------------
(* What the app does with the element.                                     *)

\* mobile_text_input_web_deactivate
WebDeactivate(e) ==
  Blurred([e EXCEPT !.submitted = FALSE, !.pending = "no", !.closing = TRUE, !.active = FALSE])

\* mobile_text_input_web_activate
WebActivateOnly(e, value) ==                          \* mutant of WebActivate
  [e EXCEPT !.value = value, !.submitted = FALSE, !.pending = "no", !.active = TRUE,
            !.focus = TRUE]
WebActivate(e, value) ==
  [e EXCEPT !.value = value, !.submitted = FALSE, !.pending = "no", !.closing = FALSE,
            !.active = TRUE, !.focus = TRUE]

FieldInit ==
  /\ focused = Unfocused /\ activating = FALSE /\ lostEvent = FALSE
  /\ buffers = [f \in Field |-> [data |-> NoText, empty |-> TRUE]]
  /\ page \in {p \in Page : ~p.fresh}
  /\ element = [value |-> NoText, focus |-> FALSE, submitted |-> FALSE, pending |-> "no",
                closing |-> FALSE, active |-> FALSE]
  /\ typed = FALSE /\ returned = FALSE

UserTypes(v) ==
  /\ element.focus /\ v # element.value
  /\ element' = [element EXCEPT !.value = v] /\ typed' = TRUE
  /\ UNCHANGED <<focused, buffers, activating, page, lostEvent, returned>>

UserPressesEnter ==
  /\ element.focus
  /\ element' = Enter(element)
  /\ UNCHANGED <<focused, buffers, activating, page, lostEvent, typed, returned>>

\* The keyboard is put away, or something else of the page is tapped.
UserLeaves ==
  /\ element.focus
  /\ element' = Blurred(element)
  /\ UNCHANGED <<focused, buffers, activating, page, lostEvent, typed, returned>>

\* The page finds the element again by the keyboard alone.
UserReturns ==
  /\ element.pending # "no" /\ ~element.focus
  /\ element' = [element EXCEPT !.focus = TRUE] /\ returned' = TRUE
  /\ UNCHANGED <<focused, buffers, activating, page, lostEvent, typed>>

WindowLeft ==
  /\ ~lostEvent
  /\ element' = IF element.focus THEN BlurHeard(element) ELSE element
  /\ lostEvent' = TRUE
  /\ UNCHANGED <<focused, buffers, activating, page, typed, returned>>

\* 120 ms go by; the timer of the blur handler brings a frame after 140 ms.
BlurAges ==
  /\ element.pending = "young"
  /\ element' = [element EXCEPT !.pending = "old"]
  /\ UNCHANGED <<focused, buffers, activating, page, lostEvent, typed, returned>>

\* mobile_text_input_handle_event: without a focused field nothing is handled.
FocusLostEvent ==
  /\ lostEvent /\ lostEvent' = FALSE
  /\ IF focused = Unfocused THEN UNCHANGED <<focused, element>>
     ELSE focused' = Unfocused /\ element' = WebDeactivate(element)
  /\ UNCHANGED <<buffers, activating, page, typed, returned>>

\* screen_dictionary_go, and the button beside its field that does the same.
GoToPage(p) ==
  /\ page' = p
  /\ IF p.fresh
     THEN /\ buffers' = [buffers EXCEPT ![p.fields[1]] = Cleared(@)] /\ activating' = TRUE
     ELSE UNCHANGED <<buffers, activating>>
  /\ UNCHANGED <<focused, element, lostEvent, typed, returned>>

-----------------------------------------------------------------------------
(* A frame, with a tap on a field, on the clear button in it, elsewhere or *)
(* without a tap. The events that came before are handled first.           *)

FieldTaps == {<<kind, f>> : kind \in {"field", "clear"}, f \in Range(page.fields)}
             \cup {<<"none", Unfocused>>, <<"elsewhere", Unfocused>>}

\* mobile_text_input
DrawnField(tap, d, f) ==
  LET over == tap[2] = f
      opens == (over \/ d.activating) /\ d.focused # f
      leaves == d.focused = f /\ tap[1] # "none" /\ ~over
      clears == tap = <<"clear", f>> /\ View(d.buffers[f]) # NoText
      e == IF opens THEN WebActivate(WebDeactivate(d.element), d.buffers[f].data)
           ELSE IF leaves THEN WebDeactivate(d.element) ELSE d.element
      now == IF leaves THEN Unfocused ELSE IF opens THEN f ELSE d.focused
  IN  [focused |-> now,
       activating |-> FALSE,
       element |-> IF clears THEN [e EXCEPT !.value = NoText] ELSE e,
       buffers |-> IF clears THEN [d.buffers EXCEPT ![f] = Cleared(@)] ELSE d.buffers,
       drawn |-> d.drawn \/ now = f,
       returned |-> d.returned /\ ~opens]

\* The fields of the page, one after another.
DrawnFields(tap, d0) ==
  LET d[i \in 0 .. Len(page.fields)] ==
        IF i = 0 THEN d0 ELSE DrawnField(tap, d[i - 1], page.fields[i])
  IN  d[Len(page.fields)]

\* mobile_text_input_web_take_blurred
TakeBlurred(e) ==
  IF e.pending = "no" THEN <<FALSE, e>>
  ELSE IF e.focus THEN <<FALSE, [e EXCEPT !.pending = "no"]>>
  ELSE IF e.pending = "old" THEN <<TRUE, [e EXCEPT !.pending = "no"]>>
  ELSE <<FALSE, e>>

\* mobile_text_input_sync: the element's value is compared with the bytes of
\* the buffer, not with its text.
SyncedField(d) ==
  LET f == d.focused
      leave == [d EXCEPT !.focused = Unfocused, !.element = WebDeactivate(d.element)]
      copied == IF d.buffers[f].data = d.element.value THEN d.buffers
                ELSE [d.buffers EXCEPT ![f] =
                        IF d.element.value = NoText THEN Cleared(@)
                        ELSE [data |-> d.element.value, empty |-> FALSE]]
      taken == TakeBlurred(d.element)
  IN  IF f = Unfocused THEN d
      ELSE IF ~d.drawn THEN leave
      ELSE IF d.element.submitted \/ taken[1] THEN [leave EXCEPT !.buffers = copied]
      ELSE [d EXCEPT !.buffers = copied, !.element = taken[2]]

FieldFrame(tap) ==
  /\ ~lostEvent
  /\ LET d0 == [focused |-> focused, activating |-> activating, element |-> element,
                buffers |-> buffers, drawn |-> FALSE, returned |-> returned]
         d == SyncedField(DrawnFields(tap, d0))
     IN  /\ focused' = d.focused /\ activating' = d.activating
         /\ element' = d.element /\ buffers' = d.buffers
         /\ returned' = d.returned
  /\ typed' = FALSE
  /\ UNCHANGED <<page, lostEvent>>

FieldNext ==
  \/ \E v \in Content : UserTypes(v)
  \/ UserPressesEnter \/ UserLeaves \/ UserReturns \/ WindowLeft \/ BlurAges
  \/ FocusLostEvent
  \/ \E p \in Page : GoToPage(p)
  \/ \E tap \in FieldTaps : FieldFrame(tap)

FieldSpec == FieldInit /\ [][FieldNext]_fieldVars

-----------------------------------------------------------------------------
\* A focused field is never forgotten by the browser: its element has the focus
\* and would tell when it goes, or a notice that ends the focus waits for the
\* next frame; only an element that took the focus back by itself stays silent.
\* And what the element shows after a frame is what the field holds, unless it
\* is the text whose bytes are still in a cleared buffer.
ElementInStep ==
  focused # Unfocused =>
    /\ \/ returned
       \/ element.focus /\ element.active /\ ~element.closing
       \/ element.pending # "no" \/ element.submitted \/ lostEvent
    /\ ~typed => \/ View(buffers[focused]) = element.value
                 \/ buffers[focused] = [data |-> element.value, empty |-> TRUE]
=============================================================================
