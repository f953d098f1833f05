---------------------------- MODULE LearningList ----------------------------
(***************************************************************************)
(* The learning list of klappt and the three places that remember it: the  *)
(* table of words in memory with its snapshot words.dat (app/words_init.h),*)
(* the flags of each word in the dictionary store (domain/word_store.cpp), *)
(* and the learning states (domain/engine.cpp).                            *)
(*                                                                         *)
(* Handlers run on the main thread; what they still have to make durable   *)
(* is in `todo`, and each write may fail. The process may die between two  *)
(* writes and in the middle of writing words.dat, which SDL_SaveFile       *)
(* truncates first.                                                        *)
(***************************************************************************)
EXTENDS WordSlots, Sequences, FiniteSets

CONSTANTS
  MaxViews,    \* bound on the stack of word views (WV_STATES_MAX)
  Torn         \* words.dat after an unfinished write

Entry == [word : Word, learned : BOOLEAN]
Table == [Ref -> Entry \cup {Free}]

ASSUME ListAssumption ==
  MaxViews \in Nat /\ Free \notin Entry /\ Torn \notin Table

VARIABLES
  up,          \* the process runs and init_runtime_data has loaded the list
  words,       \* ctx->words
  store,       \* the flags of each word in the dictionary
  snapshot,    \* words.dat
  states,      \* words with a learning state in LMDB
  todo,        \* the writes the running handler has still to make
  views,       \* ctx->word_view_states: copies of the viewed words
  wrong        \* history: "flags" when a write of the store was lost or the
               \* dictionary replaced, "file" when the last save of words.dat was,
               \* "read" when the store could not be read

disk == <<store, snapshot, states>>
vars == <<up, words, disk, todo, views, wrong>>

Fresh == [there |-> TRUE, listed |-> FALSE, learned |-> FALSE]
Absent == [there |-> FALSE, listed |-> FALSE, learned |-> FALSE]

Init ==
  /\ up = FALSE
  /\ words = NoWords /\ snapshot = NoWords
  /\ store = [w \in Word |-> Fresh]
  /\ states = {} /\ todo = <<>> /\ views = <<>> /\ wrong = {}

\* The main thread is in no handler.
IdleOrNot == up                                           \* mutant of Idle
Idle == up /\ todo = <<>>

SaveWords == [do |-> "save"]
AddWord(w, learned, inView) ==
  [do |-> "add", word |-> w, learned |-> learned, inView |-> inView]

-----------------------------------------------------------------------------
\* WordStore::save writes the flags of the word it is given; an error is only
\* logged.
StoreSave(w, listed, learned) ==
  \/ /\ store' = [store EXCEPT ![w].listed = listed, ![w].learned = learned]
     /\ UNCHANGED wrong
  \/ UNCHANGED store /\ wrong' = wrong \cup {"flags"}

At(step) == up /\ todo # <<>> /\ Head(todo).do = step

\* The learning state of an added word is made before anything else is.
StateLast(rest, step) == Append(rest, step)               \* mutant of StateFirst
StateFirst(rest, step) == <<step>> \o rest

\* add_word_to_learning_list: the word takes a slot and is saved as listed.
AddToSlot ==
  /\ At("add")
  /\ LET h == Head(todo) IN
     /\ \E r \in Ref :
          /\ FirstUnused(words, r)
          /\ words' = [words EXCEPT ![r] = [word |-> h.word, learned |-> h.learned]]
          /\ todo' = StateFirst(Tail(todo),
                                [do |-> "state", ref |-> r, inView |-> h.inView])
     /\ StoreSave(h.word, TRUE, h.learned)
  /\ UNCHANGED <<up, snapshot, states, views>>

NoSlot ==
  /\ At("add") /\ Full(words)
  /\ todo' = Tail(todo)
  /\ UNCHANGED <<up, words, disk, views, wrong>>

\* A state that exists is kept, else a fresh one is set.
MakeState ==
  /\ At("state")
  /\ states' = states \cup {words[Head(todo).ref].word}
  /\ todo' = Tail(todo)
  /\ UNCHANGED <<up, words, store, snapshot, views, wrong>>

\* rollback_added_word.
SlotKept(r) == words                                      \* mutant of SlotFreed
SlotFreed(r) == [words EXCEPT ![r] = Free]

MakeStateFails ==
  /\ At("state")
  /\ LET r == Head(todo).ref
         e == words[r]
     IN  /\ words' = SlotFreed(r)
         /\ store' \in {store, [store EXCEPT ![e.word].listed = FALSE,
                                             ![e.word].learned = e.learned]}
         /\ wrong' = IF store' = store \/ RefsOf(words, e.word) # {r}
                     THEN wrong \cup {"flags"} ELSE wrong
  /\ views' = IF Head(todo).inView
              THEN [views EXCEPT ![Len(views)].listed = FALSE] ELSE views
  /\ todo' = Tail(todo)
  /\ UNCHANGED <<up, snapshot, states>>

\* save_words_dat. SDL_SaveFile truncates the file as it opens it: a failing
\* save leaves it as it was or torn, and is only logged.
Save ==
  /\ At("save")
  /\ snapshot' = words
  /\ wrong' = wrong \ {"file"}
  /\ todo' = Tail(todo)
  /\ UNCHANGED <<up, words, store, states, views>>

SaveFails ==
  /\ At("save")
  /\ snapshot' \in {snapshot, Torn}
  /\ wrong' = wrong \cup {"file"}
  /\ todo' = Tail(todo)
  /\ UNCHANGED <<up, words, store, states, views>>

-----------------------------------------------------------------------------
\* remove_word_from_learning_list, with a copy of the word.
Remove(w, learned) ==
  /\ words' = RemoveById(words, w)
  /\ StoreSave(w, FALSE, learned)

\* A long tap on a word of the dictionary toggles the copy just read from the
\* store.
LongTap(w) ==
  /\ Idle /\ views = <<>> /\ store[w].there
  /\ IF store[w].listed
     THEN Remove(w, store[w].learned) /\ todo' = <<SaveWords>>
     ELSE /\ todo' = <<AddWord(w, store[w].learned, FALSE), SaveWords>>
          /\ UNCHANGED <<words, store, wrong>>
  /\ UNCHANGED <<up, snapshot, states, views>>

\* The add button of a word view toggles its copy, as old as the view is.
ToggleView ==
  /\ Idle /\ views # <<>>
  /\ LET v == views[Len(views)] IN
     IF v.listed
     THEN Remove(v.word, v.learned) /\ todo' = <<SaveWords>>
     ELSE /\ todo' = <<AddWord(v.word, v.learned, TRUE), SaveWords>>
          /\ UNCHANGED <<words, store, wrong>>
  /\ views' = [views EXCEPT ![Len(views)].listed = ~@]
  /\ UNCHANGED <<up, snapshot, states>>

\* push_and_fill_state: the copy comes from the first slot with the word, else
\* from the store. A word view is opened from a list, or from another view.
Copy(w) ==
  IF w \in Listed(words)
  THEN LET r == CHOOSE r \in RefsOf(words, w) : \A s \in RefsOf(words, w) : r <= s
       IN  [word |-> w, listed |-> TRUE, learned |-> words[r].learned]
  ELSE [word |-> w, listed |-> store[w].listed, learned |-> store[w].learned]

OpenView(w) ==
  /\ Idle /\ store[w].there
  /\ Len(views) < MaxViews
  /\ views' = Append(views, Copy(w))
  /\ UNCHANGED <<up, words, disk, todo, wrong>>

\* Back in a word view shows the one below.
Back ==
  /\ Idle /\ views # <<>>
  /\ views' = SubSeq(views, 1, Len(views) - 1)
  /\ UNCHANGED <<up, words, disk, todo, wrong>>

\* The app bar and the bottom bar leave the word views.
Leave ==
  /\ Idle /\ views # <<>>
  /\ views' = <<>>
  /\ UNCHANGED <<up, words, disk, todo, wrong>>

\* get_smart_suggestions picks words by their flags in the store.
AnyThere(w) == store[w].there /\ ~store[w].learned        \* mutant of Suggested
Suggested(w) == store[w].there /\ ~store[w].learned /\ ~store[w].listed

Picks ==
  {q \in UNION {[1 .. n -> {w \in Word : Suggested(w)}] : n \in 0 .. Cardinality(Word)} :
     \A i, j \in DOMAIN q : q[i] = q[j] => i = j}

\* "Add selected" and "Add all": the picked words one after the other, then one
\* save of words.dat. Nothing but settings is reachable between pick and add.
AddSuggested(q) ==
  /\ Idle /\ views = <<>>
  /\ todo' = Append([i \in DOMAIN q |-> AddWord(q[i], FALSE, FALSE)], SaveWords)
  /\ UNCHANGED <<up, words, disk, views, wrong>>

\* WordStore::set_was_learned at the end of an exercise: the word of the list
\* is marked and saved; words.dat is not.
SetWasLearned(r) ==
  /\ Idle /\ views = <<>>
  /\ r \in Used(words) /\ ~words[r].learned
  /\ words' = [words EXCEPT ![r].learned = TRUE]
  /\ StoreSave(words[r].word, TRUE, TRUE)
  /\ UNCHANGED <<up, snapshot, states, todo, views>>

\* Mutant of ReviewRemove: words.dat is not saved.
ReviewRemoveUnsaved(r) ==
  /\ Idle /\ views = <<>>
  /\ words' = IF r \in Used(words) THEN RemoveById(words, words[r].word) ELSE words
  /\ UNCHANGED <<up, disk, todo, views, wrong>>

\* The remove button of an exercise review passes the word in its slot, which
\* remove_by_id clears: the store is asked to save a word of type Nil and does
\* nothing. A slot freed earlier is removed once more.
ReviewRemove(r) ==
  /\ Idle /\ views = <<>>
  /\ words' = IF r \in Used(words) THEN RemoveById(words, words[r].word) ELSE words
  /\ todo' = <<SaveWords>>
  /\ UNCHANGED <<up, disk, views, wrong>>

-----------------------------------------------------------------------------
\* The process ends, in a handler or not.
Exit ==
  /\ up
  /\ up' = FALSE /\ words' = NoWords /\ todo' = <<>> /\ views' = <<>>
  /\ snapshot' \in IF At("save") THEN {snapshot, Torn} ELSE {snapshot}
  /\ wrong' = IF todo # <<>> \/ "file" \in wrong THEN wrong \cup {"flags"} ELSE wrong
  /\ UNCHANGED <<store, states>>

\* A dictionary that is downloaded anew comes without flags, and perhaps
\* without some words.
Update ==
  /\ ~up
  /\ \E there \in SUBSET Word :
       store' = [w \in Word |-> IF w \in there THEN Fresh ELSE Absent]
  /\ wrong' = wrong \cup {"flags"}
  /\ UNCHANGED <<up, words, snapshot, states, todo, views>>

\* init_runtime_data: a snapshot that cannot be decoded is removed; words that
\* are not found in the store, or not read, are dropped; missing states are
\* made; words.dat is saved if the list changed. It may fail over a state, or in
\* the save.
Decoded == IF snapshot = Torn THEN NoWords ELSE snapshot
Known == {r \in Used(Decoded) : store[Decoded[r].word].there}

Kept(found) == [r \in Ref |-> IF r \in found THEN Decoded[r] ELSE Free]
Unread(found) == IF found = Known THEN {} ELSE {"read"}

InitRuntimeData ==
  /\ ~up
  /\ up' = TRUE
  /\ \E found \in SUBSET Known :
       /\ words' = Kept(found)
       /\ wrong' = (wrong \ {"file"}) \cup Unread(found)
  /\ states' = states \cup Listed(words')
  /\ snapshot' = words'
  /\ UNCHANGED <<store, todo, views>>

InitRuntimeDataFails ==
  /\ ~up
  /\ up' = TRUE
  /\ \E found \in SUBSET Known :
       /\ words' = Kept(found)
       /\ wrong' = (IF snapshot = words' THEN wrong ELSE wrong \cup {"file"}) \cup Unread(found)
  /\ \E some \in SUBSET Listed(words') : states' = states \cup some
  /\ snapshot' \in IF snapshot = words' THEN {snapshot}
                   ELSE {snapshot, IF snapshot = Torn THEN NoWords ELSE Torn}
  /\ UNCHANGED <<store, todo, views>>

Next ==
  \/ AddToSlot \/ NoSlot \/ MakeState \/ MakeStateFails \/ Save \/ SaveFails
  \/ \E w \in Word : LongTap(w) \/ OpenView(w)
  \/ ToggleView \/ Back \/ Leave
  \/ \E q \in Picks : AddSuggested(q)
  \/ \E r \in Ref : SetWasLearned(r) \/ ReviewRemove(r)
  \/ Exit \/ Update \/ InitRuntimeData \/ InitRuntimeDataFails

Spec == Init /\ [][Next]_vars

-----------------------------------------------------------------------------
View == [word : Word, listed : BOOLEAN, learned : BOOLEAN]
Step ==
  {SaveWords}
    \cup [do : {"add"}, word : Word, learned : BOOLEAN, inView : BOOLEAN]
    \cup [do : {"state"}, ref : Ref, inView : BOOLEAN]

\* A state step always finds the slot it was made for, and a step of a word
\* view its view.
TypeOK ==
  /\ up \in BOOLEAN
  /\ words \in Table
  /\ store \in [Word -> [there : BOOLEAN, listed : BOOLEAN, learned : BOOLEAN]]
  /\ snapshot \in Table \cup {Torn}
  /\ states \subseteq Word
  /\ todo \in Seq(Step)
  /\ views \in Seq(View) /\ Len(views) <= MaxViews
  /\ wrong \subseteq {"flags", "file", "read"}
  /\ \A i \in DOMAIN todo :
       /\ todo[i].do = "state" => todo[i].ref \in Used(words)
       /\ todo[i].do # "save" /\ todo[i].inView => views # <<>>

\* A word is on the list only with a learning state, or while its state is
\* being made; exercises find the state of every word they pick.
ListedHasState ==
  \A r \in Used(words) :
    \/ words[r].word \in states
    \/ \E i \in DOMAIN todo : todo[i].do = "state" /\ todo[i].ref = r

\* words.dat never names a word without a learning state, at whatever write the
\* process ends and whichever write fails.
SnapshotHasStates == snapshot # Torn => Listed(snapshot) \subseteq states

\* Between two handlers words.dat holds the words of the list in their slots,
\* unless its last save failed: a restart shows the list that was left.
SnapshotCurrent ==
  Idle /\ "file" \notin wrong =>
    /\ snapshot # Torn
    /\ Used(snapshot) = Used(words)
    /\ \A r \in Used(words) : snapshot[r].word = words[r].word

\* As long as no write of the store was lost and the dictionary not replaced,
\* a listed word is flagged in the store, whatever stale copies were toggled.
ListedIsFlagged ==
  "flags" \notin wrong => \A w \in Listed(words) : store[w].listed

\* The dictionary and the suggestions then never put a word on the list twice.
NoDuplicateFromStore ==
  [][At("add") /\ ~Head(todo).inView /\ "flags" \notin wrong /\ words' # words
       => Head(todo).word \notin Listed(words)]_vars

\* set_was_learned marks a word "that has been submited at least once"; the
\* mark goes only with the dictionary.
SubmittedStaysMarked ==
  [][up => \A w \in Word : store[w].learned => store'[w].learned]_vars
=============================================================================
