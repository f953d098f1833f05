----------------------------- MODULE TextInput -----------------------------
(***************************************************************************)
(* Text fields of klappt on SDL's own text input (ui/components/text_      *)
(* input.h, ui/entry.cpp): one focus for all fields, an editor of UTF-8    *)
(* bytes, and notices that live for one frame. Events arrive between two   *)
(* frames; a frame draws the fields of the screen one after another.       *)
(*                                                                         *)
(* A byte is 0 for a continuation, NewLine, or the length of the character *)
(* it leads. Geometry, the layout and the on-screen keyboard are left out. *)
(***************************************************************************)
EXTENDS Integers, Sequences, SequencesExt, FiniteSets

CONSTANTS
  Buffer,      \* the fields' buffers
  Shown,       \* screens: [fields: sequence of [id, buffer], fresh: it starts
               \* with a cleared and activated field and has a button for that]
  Typed,       \* the texts that SDL sends
  MaxSize,     \* MobileTextInputBuffer::MAX_SIZE
  MaxTexts     \* bound on the texts sent

NewLine == 9
NoField == 0

IsLead(b) == b # 0

\* Every character of s is there to its last byte.
Whole(s) ==
  \A i \in DOMAIN s :
    IF IsLead(s[i])
    THEN i + s[i] - 1 <= Len(s) /\ \A j \in i + 1 .. i + s[i] - 1 : s[j] = 0
    ELSE \E j \in 1 .. i - 1 : IsLead(s[j]) /\ j + s[j] > i

\* An insertion ends before the first line break.
Line(u) == LET ends == {i \in DOMAIN u : u[i] = NewLine}
           IN  IF ends = {} THEN u ELSE SubSeq(u, 1, Min(ends) - 1)

\* SDL sends whole characters.
ASSUME InputAssumption ==
  /\ MaxSize \in Nat \ {0} /\ NoField \notin Buffer
  /\ Typed \subseteq Seq(Nat) /\ \A u \in Typed : Whole(Line(u))
  /\ \A s \in Shown : /\ s.fields \in Seq([id : Nat \ {NoField}, buffer : Buffer])
                      /\ s.fields # <<>>

VARIABLES
  input,       \* MobileTextInputState
  text,        \* what each buffer holds
  shown,       \* the screen
  sent,        \* texts sent so far
  news,        \* history: fields changed, submitted or left since the last frame
  unheard,     \* history: such a field was drawn, and the frame told nobody
  unseen,      \* history: the last frame left the focus on a field it did not show
  strayed      \* history: an insertion was cut short, a composition moved the
               \* cursor, or the focus passed to another buffer

inputVars == <<input, text, shown, sent, news, unheard, unseen, strayed>>

\* The cursor k, a number of bytes, is not inside a character of s.
OnCharacter(s, k) == k = 0 \/ k = Len(s) \/ (k < Len(s) /\ k > 0 /\ IsLead(s[k + 1]))

\* The last place before k where a character starts.
Before(s, k) ==
  LET leads == {i \in 0 .. k - 1 : i = 0 \/ IsLead(s[i + 1])}
  IN  IF k = 0 THEN 0 ELSE Max(leads)

\* mobile_text_input_insert
Room(s) == MaxSize - 1 - Len(s)
Insertion(s, k, u) ==
  LET at == IF u # <<>> /\ k > Len(s) THEN Len(s) ELSE k
      n == IF Len(Line(u)) > Room(s) THEN Room(s) ELSE Len(Line(u))
  IN  IF n <= 0 THEN [done |-> FALSE, text |-> s, cursor |-> at, cut |-> FALSE]
      ELSE [done |-> TRUE, cursor |-> at + n, cut |-> n < Len(Line(u)),
            text |-> SubSeq(s, 1, at) \o SubSeq(u, 1, n) \o SubSeq(s, at + 1, Len(s))]

Clamped(k, s) == IF k > Len(s) THEN Len(s) ELSE k

DeactivateUnsaid(t, notify) ==                        \* mutant of Deactivate
  [t EXCEPT !.focused = NoField, !.value = NoField, !.cursor = 0, !.composition = <<>>]
Deactivate(t, notify) ==
  [t EXCEPT !.blurred = IF notify /\ t.focused # NoField THEN t.focused ELSE @,
            !.focused = NoField, !.value = NoField, !.cursor = 0,
            !.composition = <<>>]

\* mobile_text_input_clear, of what the input keeps
Emptied(t) == [t EXCEPT !.cursor = 0, !.composition = <<>>]

Activate(t, f, size) ==
  IF t.focused = f.id /\ t.value = f.buffer THEN t
  ELSE [Deactivate(t, TRUE) EXCEPT !.focused = f.id, !.value = f.buffer, !.cursor = size]

InputInit ==
  /\ input = [focused |-> NoField, value |-> NoField, cursor |-> 0, composition |-> <<>>,
              changed |-> NoField, submitted |-> NoField, blurred |-> NoField,
              activate |-> FALSE]
  /\ text = [b \in Buffer |-> <<>>]
  /\ shown \in {s \in Shown : ~s.fresh}
  /\ sent = 0 /\ news = {} /\ unheard = FALSE /\ unseen = FALSE /\ strayed = FALSE

-----------------------------------------------------------------------------
(* mobile_text_input_handle_event: without a focused value nothing is handled. *)

Value == text[input.value]

TextEditing(u) ==
  /\ input.value # NoField /\ sent < MaxTexts
  /\ LET i == Insertion(<<>>, input.cursor, u) IN
       /\ input' = [input EXCEPT !.composition = i.text, !.cursor = i.cursor]
       /\ strayed' = (strayed \/ i.done \/ i.cursor # input.cursor)
  /\ sent' = sent + 1
  /\ UNCHANGED <<text, shown, news, unheard, unseen>>

TextCommitted(u) ==
  /\ input.value # NoField /\ sent < MaxTexts
  /\ LET i == Insertion(Value, input.cursor, u) IN
       /\ text' = [text EXCEPT ![input.value] = i.text]
       /\ input' = [input EXCEPT !.cursor = i.cursor, !.composition = <<>>,
                      !.changed = IF i.done THEN input.focused ELSE @]
       /\ news' = IF i.done THEN news \cup {input.focused} ELSE news
       /\ strayed' = (strayed \/ i.cut)
  /\ sent' = sent + 1
  /\ UNCHANGED <<shown, unheard, unseen>>

\* Left, Right, Home and End; a composition keeps the keys to itself.
RightByOne(s, k) == k + 1                             \* mutant of After
After(s, k) == k + (IF IsLead(s[k + 1]) THEN s[k + 1] ELSE 1)
CursorKey ==
  /\ input.value # NoField /\ input.composition = <<>>
  /\ LET k == Clamped(input.cursor, Value) IN
       \E to \in {Before(Value, k), 0, Len(Value),
                  IF k < Len(Value) THEN Clamped(After(Value, k), Value) ELSE k} :
         input' = [input EXCEPT !.cursor = to]
  /\ UNCHANGED <<text, shown, sent, news, unheard, unseen, strayed>>

KeyBackspace ==
  /\ input.value # NoField /\ input.composition = <<>>
  /\ LET k == Clamped(input.cursor, Value)
         to == Before(Value, k) IN
     IF k = 0 THEN input' = [input EXCEPT !.cursor = k] /\ UNCHANGED <<text, news>>
     ELSE /\ text' = [text EXCEPT ![input.value] =
                        SubSeq(@, 1, to) \o SubSeq(@, k + 1, Len(@))]
          /\ input' = [input EXCEPT !.cursor = to, !.changed = input.focused]
          /\ news' = news \cup {input.focused}
  /\ UNCHANGED <<shown, sent, unheard, unseen, strayed>>

KeyReturn ==
  /\ input.value # NoField /\ input.composition = <<>>
  /\ input' = Deactivate([input EXCEPT !.submitted = input.focused], FALSE)
  /\ news' = news \cup {input.focused}
  /\ UNCHANGED <<text, shown, sent, unheard, unseen, strayed>>

WindowFocusLost ==
  /\ input.value # NoField
  /\ input' = Deactivate(input, TRUE)
  /\ news' = news \cup {input.focused}
  /\ UNCHANGED <<text, shown, sent, unheard, unseen, strayed>>

\* A transition to another screen; screen_dictionary_go clears its field.
ScreenGo(s) ==
  /\ shown' = s
  /\ IF s.fresh
     THEN /\ text' = [text EXCEPT ![s.fields[1].buffer] = <<>>]
          /\ input' = [input EXCEPT !.activate = TRUE]
     ELSE UNCHANGED <<text, input>>
  /\ UNCHANGED <<sent, news, unheard, unseen, strayed>>

-----------------------------------------------------------------------------
(* A frame. Its tap, if any, is on a field, on the clear button inside the *)
(* field, on the button beside it that starts afresh, or somewhere else.   *)

Fields == {shown.fields[i] : i \in DOMAIN shown.fields}
Nowhere == [id |-> NoField, buffer |-> NoField]
Taps == {<<kind, f>> : kind \in {"field", "clear"}, f \in Fields}
        \cup {<<"none", Nowhere>>, <<"elsewhere", Nowhere>>}
        \cup IF shown.fresh THEN {<<"afresh", shown.fields[1]>>} ELSE {}

\* mobile_text_input; d is what the frame did so far: the input and the texts,
\* whether the focused field was drawn, and whether a field had a result.
DrawField(tap, d, f) ==
  LET over == tap[2] = f
      t1 == IF over \/ d.input.activate
            THEN [Activate(d.input, f, Len(d.text[f.buffer])) EXCEPT !.activate = FALSE]
            ELSE d.input
      t2 == IF t1.focused = f.id /\ tap[1] # "none" /\ ~over
            THEN Deactivate(t1, TRUE) ELSE t1
      focused == t2.focused = f.id
      t3 == IF focused
            THEN [t2 EXCEPT !.value = f.buffer, !.cursor = Clamped(@, d.text[f.buffer])]
            ELSE t2
      clear == tap = <<"clear", f>> /\ d.text[f.buffer] # <<>>
      t4 == IF clear
            THEN [Emptied(t3) EXCEPT !.changed = f.id] ELSE t3
  IN  [input |-> t4,
       text |-> IF clear THEN [d.text EXCEPT ![f.buffer] = <<>>] ELSE d.text,
       drawn |-> d.drawn \/ focused,
       heard |-> d.heard \/ f.id \in {t4.changed, t4.submitted, t3.blurred},
       fresh |-> d.fresh \cup IF clear THEN {f.id} ELSE {},
       passed |-> d.passed \/ (focused /\ t2.value # f.buffer)]

\* The fields of the screen, one after another.
DrawAll(tap, d0) ==
  LET d[i \in 0 .. Len(shown.fields)] ==
        IF i = 0 THEN d0 ELSE DrawField(tap, d[i - 1], shown.fields[i])
  IN  d[Len(shown.fields)]

\* mobile_text_input_sync
SyncedNever(d) == d.input                             \* mutant of Synced
Synced(d) ==
  IF d.input.focused # NoField /\ ~d.drawn THEN Deactivate(d.input, FALSE) ELSE d.input

EndFrame(t) == [t EXCEPT !.changed = NoField, !.submitted = NoField, !.blurred = NoField]

Frame(tap) ==
  LET afresh == tap[1] = "afresh"
      d0 == [input |-> IF afresh THEN [input EXCEPT !.activate = TRUE] ELSE input,
             text |-> IF afresh THEN [text EXCEPT ![tap[2].buffer] = <<>>] ELSE text,
             drawn |-> FALSE, heard |-> FALSE, fresh |-> {}, passed |-> FALSE]
      d == DrawAll(tap, d0)
      ids == {f.id : f \in Fields}
      left == IF d.input.focused = input.focused THEN {} ELSE {input.focused} \ {NoField}
  IN  /\ input' = EndFrame(Synced(d))
      /\ text' = d.text
      /\ unheard' = (ids \cap (news \cup d.fresh \cup left) # {} /\ ~d.heard)
      /\ unseen' = ~(/\ (input'.focused = NoField) = (input'.value = NoField)
                     /\ input'.focused # NoField =>
                          [id |-> input'.focused, buffer |-> input'.value] \in Fields)
      /\ news' = {}
      /\ strayed' = (strayed \/ d.passed)
      /\ UNCHANGED <<shown, sent>>

InputNext ==
  \/ \E u \in Typed : TextEditing(u) \/ TextCommitted(u)
  \/ CursorKey \/ KeyBackspace \/ KeyReturn \/ WindowFocusLost
  \/ \E s \in Shown : ScreenGo(s)
  \/ \E tap \in Taps : Frame(tap)

InputSpec == InputInit /\ [][InputNext]_inputVars

-----------------------------------------------------------------------------
\* No edit splits a character: as long as nothing strayed, every buffer holds
\* whole characters in the room it has and the cursor stands between two.
\* A buffer cleared under the cursor is the exception until the next frame.
WholeCharacters ==
  /\ \A b \in Buffer : Len(text[b]) < MaxSize
  /\ ~strayed =>
       /\ \A b \in Buffer : Whole(text[b])
       /\ input.value # NoField =>
            OnCharacter(Value, Clamped(input.cursor, Value))

\* The keys of the next events reach a field that can be seen: after a frame the
\* focused field is one of the screen, with the buffer this screen gave it.
FocusIsShown == ~unseen

\* What was typed, submitted or left in a field of the screen is told to a field
\* in the frame that draws it: the notices are cleared when the frame ends, and
\* the screens check their fields only when one of them had a notice.
NewsIsHeard == ~unheard
=============================================================================
