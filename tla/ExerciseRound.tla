---------------------------- MODULE ExerciseRound ----------------------------
(***************************************************************************)
(* A training session of klappt: the stack of screens (app/app_context.h), *)
(* the exercises of a round and their review (domain/exercises.cpp), and   *)
(* the learning list whose slots the exercises point into. The exercises   *)
(* are one object, kept when their screen is left; one index walks through *)
(* the exercises and through the review.                                   *)
(***************************************************************************)
EXTENDS WordSlots, ExerciseState, FiniteSets

CONSTANTS
  RoundSize,   \* settings.exercise_round_size
  MaxViews     \* bound on the stack of word views

\* Whether a word was learned once is left to LearningList.tla.
Entry == [word : Word]
Table == [Ref -> Entry \cup {Free}]

ASSUME RoundAssumption ==
  RoundSize \in Nat \ {0} /\ MaxViews \in Nat \ {0} /\ Free \notin Entry

VARIABLES
  stack,       \* ctx->stack, up to the current screen
  words,       \* ctx->words
  due,         \* listed words whose learning state is due
  exercises,   \* exercises.exercises
  results,     \* exercises.results
  idx,         \* exercises.exercise_current_idx, from 0
  views,       \* ctx->word_view_states: copies of the viewed words
  graded       \* history: the exercises of the round whose result was saved

vars == <<stack, words, due, exercises, results, idx, views, graded>>
session == <<exercises, results, idx, graded>>
list == <<words, due>>

Init ==
  /\ stack = <<"Trainer">>
  /\ words \in {t \in Table :
                  \A r, s \in Used(t) : t[r].word = t[s].word => r = s}
  /\ due \in SUBSET Listed(words)
  /\ exercises = <<>> /\ results = <<>> /\ idx = 0
  /\ views = <<>> /\ graded = {}

Screen == stack[Len(stack)]
On(s) == Screen = s
Below(s) == SubSeq(s, 1, Len(s) - 1)

\* AppContext::go, push and pop. Leaving a word view forgets its copies.
GoPushed(s) == Append(stack, s)                                \* mutant of Go
Go(s) == IF s = "Trainer" THEN <<s>> ELSE <<"Trainer", s>>

ShowKept(newStack) == stack' = newStack /\ UNCHANGED views    \* mutant of Show
Show(newStack) ==
  /\ stack' = newStack
  /\ views' = IF On("WordView") THEN <<>> ELSE views

-----------------------------------------------------------------------------
\* generate_new_exercises picks different slots of due words at random, at most
\* a round of them. An error of the state store leaves those made so far.
DueRefs(t, d) == {r \in Used(t) : t[r].word \in d}

Rounds(refs) ==
  {q \in UNION {[1 .. n -> refs] : n \in 0 .. RoundSize} :
     \A i, j \in DOMAIN q : q[i] = q[j] => i = j}

\* screen_exercise_go, with the list as the handler leaves it.
GoExercise(newStack, t, d) ==
  /\ \E q \in Rounds(DueRefs(t, d)) :
       exercises' = [i \in DOMAIN q |->
                       [word |-> t[q[i]].word, ref |-> q[i], answers |-> NewExercise]]
  /\ results' = <<>> /\ idx' = 0 /\ graded' = {}
  /\ Show(newStack)
  /\ words' = t /\ due' = d

\* "Start training" on the trainer screen.
StartTraining ==
  /\ On("Trainer") /\ DueRefs(words, due) # {}
  /\ GoExercise(Append(stack, "Exercise"), words, due)

\* The exercise screen without exercises goes back or offers suggestions.
NothingDue ==
  /\ On("Exercise") /\ exercises = <<>>
  /\ \E s \in {"Trainer", "Suggestions"} : Show(Go(s))
  /\ UNCHANGED <<session, list>>

\* commit on the exercise screen: an answer, and at the last one the result is
\* saved to the learning state, which falls due later, unless that fails. The
\* word in the slot is marked, if it is not yet: see RefsFresh.
Current == exercises[idx + 1]

SubmitAnswer(a) ==
  /\ On("Exercise") /\ exercises # <<>>
  /\ ~AtLast(Current.answers)
  /\ exercises' = [exercises EXCEPT ![idx + 1].answers = Submit(@, a)]
  /\ UNCHANGED <<stack, views, list, results, idx, graded>>

Grade ==
  /\ graded' = graded \cup {idx + 1}
  /\ due' \in {due, due \ {Current.word}}
  /\ UNCHANGED words

FinishExercise(a) ==
  /\ On("Exercise") /\ exercises # <<>>
  /\ AtLast(Current.answers)
  /\ exercises' = [exercises EXCEPT ![idx + 1].answers = Submit(@, a)]
  /\ Grade
  /\ IF idx + 1 = Len(exercises)
     THEN idx' = 0 /\ Show(Go("Summary"))
     ELSE idx' = idx + 1 /\ UNCHANGED <<stack, views>>
  /\ UNCHANGED results

\* The back key on the exercise screen: handler_back_pressed_ex.
BackInExercise ==
  /\ On("Exercise") /\ exercises # <<>>
  /\ ~AtStart(Current.answers)
  /\ exercises' = [exercises EXCEPT ![idx + 1].answers = Undo(@)]
  /\ UNCHANGED <<stack, views, list, results, idx, graded>>

-----------------------------------------------------------------------------
\* build_result_reviews, all or failed: the review starts at the index as it is.
Failed(x) == x.answers.points # PointsMax(x.answers)
Result(x) == [word |-> x.word, ref |-> x.ref]

View(shown) ==
  /\ On("Summary")
  /\ \E order \in [1 .. Cardinality(shown) -> shown] :
       /\ \A i, j \in DOMAIN order : i < j => order[i] < order[j]
       /\ results' = [i \in DOMAIN order |-> Result(exercises[order[i]])]
  /\ Show(IF shown = {} THEN stack ELSE Append(stack, "Review"))
  /\ UNCHANGED <<exercises, idx, graded, list>>

Errors == {i \in DOMAIN exercises : Failed(exercises[i])}

ViewAll == View(DOMAIN exercises)
ViewErrors == Errors # {} /\ View(Errors)

NextRound ==
  /\ On("Summary") /\ Errors = {}
  /\ GoExercise(Go("Exercise"), words, due)

\* A result on the screen. An index past the results is read all the same; what
\* is found there is unknown, and the session ends.
Reviewing == On("Review") /\ idx < Len(results)

OutOfBounds ==
  /\ On("Review") /\ idx >= Len(results)
  /\ Show(<<"Trainer">>)
  /\ exercises' = <<>> /\ results' = <<>> /\ idx' = 0 /\ graded' = {}
  /\ UNCHANGED list

\* next_result and commit on the review screen.
NextResult ==
  /\ Reviewing /\ idx + 1 # Len(results)
  /\ idx' = idx + 1
  /\ UNCHANGED <<stack, views, list, exercises, results, graded>>

LastResult ==
  /\ Reviewing /\ idx + 1 = Len(results)
  /\ GoExercise(Go("Exercise"), words, due)

\* The remove button removes the word that is in the slot now, then moves on.
WithoutSlot(r) == IF r \in Used(words) THEN RemoveById(words, words[r].word) ELSE words

ReviewRemove ==
  /\ Reviewing
  /\ LET t == WithoutSlot(results[idx + 1].ref)
         d == due \cap Listed(t)
     IN IF idx + 1 = Len(results)
        THEN GoExercise(Go("Exercise"), t, d)
        ELSE /\ words' = t /\ due' = d /\ idx' = idx + 1
             /\ UNCHANGED <<stack, views, exercises, results, graded>>

\* The back key on the review screen: handler_back_pressed_rv, or pop.
BackPastFirst == TRUE                                 \* mutant of BackToResult
BackToResult == idx > 0

BackInReview ==
  /\ On("Review") /\ exercises # <<>>
  /\ IF BackToResult
     THEN idx' = idx - 1 /\ UNCHANGED <<stack, views>>
     ELSE Show(Below(stack)) /\ UNCHANGED idx
  /\ UNCHANGED <<list, exercises, results, graded>>

-----------------------------------------------------------------------------
\* The list changes. Whether a copy that is toggled says the word is listed
\* depends on when and from where it was copied, see LearningList.tla.
Added(t, w) ==
  IF Full(t) THEN t
  ELSE [t EXCEPT ![CHOOSE r \in Ref : FirstUnused(t, r)] = [word |-> w]]

\* A word that had no state is due at once; an old state may be due or not.
Toggle(w, listed) ==
  IF listed
  THEN words' = RemoveById(words, w) /\ due' = due \ {w}
  ELSE /\ words' = Added(words, w)
       /\ due' \in {due, (due \cup {w}) \cap Listed(words')}

\* A long tap in the dictionary.
LongTap(w) ==
  /\ On("Words")
  /\ \E listed \in BOOLEAN : Toggle(w, listed)
  /\ UNCHANGED <<stack, views, session>>

\* screen_word_view_push, from the dictionary, the learning list or the review;
\* and push_and_fill_state for a word tapped in a word view.
Copies(w) == {[word |-> w, listed |-> l] : l \in IF w \in Listed(words) THEN {TRUE} ELSE BOOLEAN}

OpenView(w) ==
  /\ On("Words") \/ (Reviewing /\ w = results[idx + 1].word)
  /\ stack' = Append(stack, "WordView")
  /\ \E c \in Copies(w) : views' = <<c>>
  /\ UNCHANGED <<list, session>>

OpenNext(w) ==
  /\ On("WordView") /\ views # <<>> /\ Len(views) < MaxViews
  /\ \E c \in Copies(w) : views' = Append(views, c)
  /\ UNCHANGED <<stack, list, session>>

ToggleView ==
  /\ On("WordView") /\ views # <<>>
  /\ Toggle(views[Len(views)].word, views[Len(views)].listed)
  /\ views' = [views EXCEPT ![Len(views)].listed = ~@]
  /\ UNCHANGED <<stack, session>>

\* The suggested words are added one after the other; then the next round.
AllAdded(q) ==
  LET grown[n \in 0 .. Len(q)] == IF n = 0 THEN words ELSE Added(grown[n - 1], q[n])
  IN  grown[Len(q)]

AddSuggested ==
  /\ On("Suggestions")
  /\ \E q \in {p \in UNION {[1 .. n -> Word] : n \in 0 .. Cardinality(Word)} :
                 \A i, j \in DOMAIN p : p[i] = p[j] => i = j} :
       LET t == AllAdded(q)
       IN \E d \in SUBSET (Listed(t) \ due) : GoExercise(Go("Exercise"), t, due \cup d)

\* Time passes.
FallsDue(w) ==
  /\ w \in Listed(words) \ due
  /\ due' = due \cup {w}
  /\ UNCHANGED <<stack, words, session, views>>

-----------------------------------------------------------------------------
\* Navigation. The app bar has a back button, which pops whatever the screen,
\* and opens the settings; the bottom bar is missing on exercises and
\* suggestions.
AppBarBack ==
  /\ Len(stack) > 1
  /\ Show(Below(stack))
  /\ UNCHANGED <<list, session>>

OpenSettings ==
  /\ ~On("Settings")
  /\ Show(Append(stack, "Settings"))
  /\ UNCHANGED <<list, session>>

BottomBar(s) ==
  /\ ~On("Exercise") /\ ~On("Suggestions")
  /\ Show(Go(s))
  /\ UNCHANGED <<list, session>>

\* "Find words" on the trainer screen.
FindWords ==
  /\ On("Trainer") /\ DueRefs(words, due) = {}
  /\ Show(Go("Suggestions"))
  /\ UNCHANGED <<list, session>>

\* The back key on the other screens: it pops a word view, then the screen, and
\* is ignored on the summary.
BackInView ==
  /\ On("WordView")
  /\ IF Len(views) > 1
     THEN views' = Below(views) /\ UNCHANGED stack
     ELSE Show(Below(stack))
  /\ UNCHANGED <<list, session>>

BackKey ==
  /\ Screen \in {"Words", "Suggestions", "Settings"} /\ Len(stack) > 1
  /\ Show(Below(stack))
  /\ UNCHANGED <<list, session>>

Next ==
  \/ StartTraining \/ NothingDue \/ BackInExercise
  \/ \E a \in Answer : SubmitAnswer(a) \/ FinishExercise(a)
  \/ ViewAll \/ ViewErrors \/ NextRound
  \/ OutOfBounds \/ NextResult \/ LastResult \/ ReviewRemove \/ BackInReview
  \/ \E w \in Word : LongTap(w) \/ OpenView(w) \/ OpenNext(w) \/ FallsDue(w)
  \/ ToggleView \/ AddSuggested
  \/ AppBarBack \/ OpenSettings \/ FindWords \/ BackInView \/ BackKey
  \/ \E s \in {"Trainer", "Words"} : BottomBar(s)

Spec == Init /\ [][Next]_vars

-----------------------------------------------------------------------------
Screens == {"Trainer", "Exercise", "Summary", "Review", "Words", "WordView",
            "Suggestions", "Settings"}
OnStack == {stack[i] : i \in DOMAIN stack}

TypeOK ==
  /\ stack \in Seq(Screens) /\ stack # <<>>
  /\ words \in Table
  /\ due \subseteq Listed(words)
  /\ idx \in Nat
  /\ \A i \in DOMAIN exercises : exercises[i].word \in Word /\ exercises[i].ref \in Ref
  /\ \A i \in DOMAIN results : results[i].word \in Word /\ results[i].ref \in Ref
  /\ views \in Seq([word : Word, listed : BOOLEAN]) /\ Len(views) <= MaxViews
  /\ graded \subseteq DOMAIN exercises

\* While a round is on, the slots of the exercises that are left hold the words
\* they were made of, though slots are freed and reused: the mark of a finished
\* exercise goes to its own word.
RefsFresh ==
  "Exercise" \in OnStack =>
    \A i \in DOMAIN exercises :
      i > idx => /\ exercises[i].ref \in Used(words)
                 /\ words[exercises[i].ref].word = exercises[i].word

\* No exercise is graded twice, whatever way leads back to its screen.
GradedOnce ==
  [][graded' # {} /\ On("Exercise") /\ idx' # idx => idx + 1 \notin graded]_vars

\* The points are those of the right answers given and not taken back.
RightAnswers(e) ==
  {p \in UNION {{s} \X (1 .. Shape[s]) : s \in Stage} : e.selected[p[1]][p[2]] = "right"}

PointsMatch ==
  \A i \in DOMAIN exercises :
    exercises[i].answers.points = Cardinality(RightAnswers(exercises[i].answers))

\* The summary and the review, which read the exercises unasked, have exercises,
\* and every one of them is graded.
SummaryHasRound ==
  OnStack \cap {"Summary", "Review"} # {} =>
    exercises # <<>> /\ graded = DOMAIN exercises

\* screen_word_view_push logs "unexpected: word view states stack is not empty"
\* when copies are left over from a screen that is gone.
ViewsOfTheScreen == views # <<>> => On("WordView")

\* "View errors" shows the errors: the review never points past its results.
ReviewInBounds == On("Review") => idx < Len(results)
=============================================================================
