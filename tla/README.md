# Verification of klappt

klappt is a program for learning German words: a dictionary, a personal
learning list, exercises scheduled by a spaced-repetition engine, and speech
synthesis and recognition, all offline. It is one process in C++: a main thread
that draws the screens with SDL and handles every input, a thread for downloads
(libcurl), a worker thread for long jobs, and, in builds with speech, an audio
and a neuro thread. This directory holds TLA+ models of it, the TLC
configurations that check them, and proofs checked by TLAPS.

Source paths below are relative to `src/src/`.

## Inventory

| Component | State | Operations | Model |
|---|---|---|---|
| Download worker: `platform/net_worker.cpp`, `app/net_context.h` | pool of request slots with `next_free`, job queue with mutex and condition variable, pending stack, set of active indices, curl multi handle | `net_download_*`, `net_cancel_request`, the loop of `NetWorkerThread` | `NetWorker` |
| Asset downloads: `app/assets_dl.h`, `platform/zip.cpp`, `ui/screen_onboarding.cpp`, `ui/components/net_download_row.h` | download rows, onboarding stage, files of each asset (`.tmp`, archive, unpacked target, `.installed` marker) | request, track, retry, unpack, mark installed, restart | `AssetDownload` over `NetWorker` |
| Updates: `ui/screen_update_dicts.cpp` | rows, `was_updating` | update an asset, reopen the runtime data | `AssetDownload`, `LearningList` |
| Worker threads and callbacks: `app/worker.*` | job queues, SDL events that run a function on the main thread (`MT::run`) | push, run, post | as used, in `AssetDownload` and `SpeechPipeline` |
| Word states: `domain/engine.cpp` (`States`) | two LMDB databases: word id to state, due key to word id | `open`, `close`, `get`, `set`, `erase`, `collect_due` | `States`, implements `StateMap` |
| Word states of the web build: `domain/engine.cpp` (`__EMSCRIPTEN__`) | table in memory, sorted index, copy in `localStorage` | the same calls, `persist_web_states` | `WebStates` |
| Scheduling: `domain/engine.cpp` (`State::update`) | mode, memory of each mode, counters | `update`, `maybe_promote`, `maybe_demote` | `Ladder` |
| Learning list: `domain/words.h`, `app/words_init.h`, `ui/screen_helpers.h` | `ctx->words` (slots), `words.dat`, flags in the dictionary, states | add, remove, toggle, `save_words_dat`, `init_runtime_data` | `LearningList` over `WordSlots` |
| Word store: `domain/word_store.cpp` | Xapian databases | `save`, `get_by_id`, `ensure_word`, `search`, `find_word`, `get_random_words_by_type`, `get_smart_suggestions` | writing in `LearningList`, asking in `WordStore` |
| Exercises: `domain/exercises.*`, `ui/screen_exercise*.cpp`, `ui/screen_trainer.cpp` | exercises of a round, index, results under review | `submit`, `undo`, `commit`, `build_result_reviews`, back handlers; the stages made of a word | `ExerciseRound` over `ExerciseState` and `WordSlots`; `ExerciseStages` |
| Text: `domain/tokenizer.cpp`, `domain/grammar.cpp` | none | chunks of a word, wrong chunks, forms of verbs | `Tokenizer`, `Grammar` |
| Screens: `app/app_context.h`, `ui/entry.cpp` | stack of screens, word view copies | `go`, `push`, `pop`, bars, back key | `ExerciseRound`, `LearningList` |
| Gestures and the main loop: `app/tslt.h`, `app/main.cpp` | the gesture, the animation timer | pointer events, frames | `Gestures` |
| Text fields: `ui/components/text_input.h` | one focus, cursor, notices; on the web an `<input>` element | typing, keys, taps, focus, sync | `TextInput`, `BrowserField` |
| Speech: `platform/audio.cpp`, `platform/neuro.cpp` | two job queues, recording buffer, pool of playback payloads, status flags | record, recognise, synthesise, play | `SpeechPipeline` |
| Glyphs: `app/textcache.*`, `app/sdlcr.h` | glyph pool and hash, atlas, staging rows, batch of quads | load, measure, draw, prewarm, flush | `TextCache` |
| Settings: `app/settings.h` | one record, one file | load, save | its stage only |
| File sync of the web build: `platform/web_persist.cpp` | batch depth | begin, end, sync | not modelled |

The components meet as follows. A screen pushes a request into a pool slot and
signals the download thread; the thread calls back with the result, and for an
archive a job goes to the worker thread, whose result reaches the screen's row
as an event of a later frame. The marker that this chain leaves on the disk is
what `init_runtime_data` opens. Screens that change the learning list write, on
the main thread and one after the other, a slot of `ctx->words`, the flags in
the dictionary, the state in LMDB and `words.dat`. A round of exercises takes
due ids from LMDB, makes stages of the words' forms, and keeps the slots of the
words until it is reviewed; its grades move the words on the ladder of modes.
Speech goes round the two threads and back: the audio thread fills the
recording buffer, the neuro thread reads it; the neuro thread fills a payload,
the audio thread plays it and asks for its release.

What is hard here: a pool that two threads search and release; chains of jobs
in which every failure has to reach the user; processes that die between two
writes, on phones all the time; copies and slot references that outlive what
they were made from; screens that can be left and entered by five different
paths; state of widgets that lives between frames while any number of events
arrive; and index arithmetic over letters, shelves and tables.
`PROJECT.json` lists these hazards, each at its line.

## Modules

`NetWorker` models the pool and the thread at the grain of what the other
thread can see. `thread_safe_get_unused_slot` is one step per probed slot
(`ProbeSlot`), since the thread may release a slot between two probes;
everything under `job_queue.mutex` is one step, and `netPc` says where the
thread's loop is: draining, asleep, starting a transfer, telling a client,
releasing, at the end of the loop. `xfer` and `msgs` are curl's multi handle as
the loop uses it. `AssetDownload` extends it: the asset a slot downloads, the
files, the rows of the screens, the worker's queue and the events. Its thread
actions are those of `NetWorker` conjoined with what the callback does to the
files and queues. `clean_asset` deletes four things in order; `Restart`, the
death of the process, may leave any prefix of it.

`States` models each LMDB call of a write transaction and of the cursor loop as
a step that may fail, with the transaction's pending writes kept apart from the
committed databases. `StateMap` says what callers may rely on: a map from words
to states, changed by one write at a time or not at all, and `collect_due`
returning due words in due order. `States!Map` instantiates it with the
committed state database. `WebStates` is the other implementation: memory is
changed first and then stored as a whole, so it is no such map (a write that was
refused is visible until the page closes); it is checked for what it still
promises, with the result of `collect_due` judged by `StateMap`'s definition.

`Ladder` is `State::update`. Doubles are abstracted to the levels the code
compares them with, and what the formulas make of them is a choice within the
bounds that the formulas keep.

`WordSlots` is the table of word slots shared by the two modules about it.
`LearningList` runs a handler as a sequence `todo` of writes that are still to
be made. Each may fail, and the process may end between any two, or in the
middle of `words.dat`, which `SDL_SaveFile` truncates first. The views hold
copies as old as the view. `wrong` is a history variable that records which
kind of loss has happened, so that a property can say what holds until then.

`WordStore` answers questions from a fixed dictionary: the weights of a search
and their order, `find_word` behind a link, and the loops that draw random words
and suggestions, one draw per step. Xapian's matching is modelled as terms that
a document has or has not.

`ExerciseState` is one exercise: stages of substages, `submit` and `undo`.
`ExerciseRound` is a session: the stack of screens, the round, the review, and
a list whose slots come and go meanwhile. `commit` runs at the end of every
frame with the selection made in that frame, so selecting and committing are
one action. `MCExerciseRound` adds the shape of an exercise and the symmetry of
words for TLC.

`Tokenizer` has the tables of the code and its bisection over them, `Grammar`
the forms of a verb, `ExerciseStages` the making of an exercise: stage after
stage, substage after substage, with the answer and the wrong options of each.

`SpeechPipeline` gives each job of the two threads one step per effect that
another thread can see. A stop has two, since it declares the buffer empty,
tells main and then fills it; a recognition has two, before and after it read
the buffer. What a handler pushes in one go stays in one step: queues keep their
order.

`TextInput` is the text field on SDL's text input; `BrowserField` its branch for
browsers, where handlers of a page element run between the frames. `Gestures` is
what pointer events make of a press. In all three a frame is one step, and any
number of events come between two frames. `TextCache` packs glyphs on shelves,
finds them by table or by hash, and copies rows before a batch is issued.

`MCSequential` puts the parts that run to the end of a call on the main thread
side by side: a behaviour picks one and moves it.

`NetWorkerProofs`, `AssetProofs`, `StatesProofs`, `LearningListProofs`,
`ExerciseRoundProofs`, `SpeechProofs`, `DomainProofs` (scheduling, states on the
web, word store) and `UiProofs` (gestures, text fields and glyphs) hold the
theorems.

## Runs

| Run | Asks | Result |
|---|---|---|
| `net_worker` | do two threads ever share a slot, lose a wakeup, or tell a client twice? | holds; 3 slots, 2 active, 4 requests, cancellation on |
| `asset_download` | is an installed asset complete, and does each row say what is so? | holds; a dictionary and an optional asset, failing files, process death |
| `asset_live` | does a row wait for anything but the network? | holds; two assets, one life of the process, transfers that may stall, files that can be opened, renamed and written |
| `asset_stuck` | does the download step see to the dictionary? | violated after a restart between two steps of onboarding |
| `states_store` | do states and due order agree, and does the store implement the map? | holds; 3 words, 3 due times, every call failing, crashes |
| `learning_list` | do the list, the flags, the states and `words.dat` agree after any loss? | holds as stated; 2 words, 2 slots, 2 views |
| `learning_mark` | does the mark of a submitted word stay? | violated by a process that ends before `words.dat` is saved |
| `exercise_round` | do exercises, slots, points, grades and screens stay together? | holds; 2 words, rounds of 2, two stages with 3 substages |
| `review_index` | does a review stay within its results? | violated by leaving one review half-way and opening a shorter one |
| `speech` | do payloads, recorder and flags stay in step over three threads? | holds; 2 payloads, failing devices and models |
| `speech_button` | can a pressed record button always be released? | violated by a press while no recorder is open |
| `sequential` | do the sequential parts keep what each of them promises? | holds; eight parts, each alone |

The runs that expect a violation are disagreements between the code and its own
words: a comment, or the text a screen shows. `PROJECT.json` quotes them under
"findings".

Type invariants are stated in the modules and proved where a module has proofs;
no run spends time on them, TLC's own evaluation aside.

What the properties do not say matters as well.

- A torn `words.dat` drops the whole list, and a read error of the dictionary
  drops a word, both as the code is written; `ListedIsFlagged` and
  `NoDuplicateFromStore` speak of histories without a lost write of the
  dictionary, and the mark of learned words is not among what survives a
  restart.
- The remove button of a review saves the word it has just cleared
  (`ui/screen_exercise_review.cpp:518`), so the dictionary goes on calling it
  listed.
- `NoDuplicateFromStore` speaks of additions from the dictionary and from
  suggestions. A word view whose copy is stale may add a word that is listed.
- `RecognitionSettles` leaves out the recognition that finds the buffer empty:
  it returns without taking "in progress" back (`platform/neuro.cpp:529`).
- `RowSettles` ends at the network. No transfer has a limit of time or of speed
  (`platform/net_worker.cpp:474`) and no row can be cancelled: with a server
  that stalls, a row tracks for ever.
- `OkRowIsUnpacked` asks for the marker only when files can be written: the run,
  where they may fail, shows that the asset is unpacked, the theorem both. Nobody
  looks whether `fs_touch` made it (`app/assets_dl.h:115`): if not, the row says
  finished, and the download step of onboarding waits, with nothing to retry,
  until the program is started again.
- `LadderSound` is about `State::update`; the promote button of a review
  (`ui/screen_exercise_review.cpp:21`) is not in `Ladder`.
- `ToldIsDurable` ends where a table that could not be read is written over.
- `WholeCharacters` ends where a composition moves the cursor of the field
  (`ui/components/text_input.h:662`).
- `ElementInStep` leaves out an element that took the focus back within 120 ms,
  whose later blur is never told, and the text whose bytes are still in a
  cleared buffer (`clear` sets the size only): the element is handed the old
  text, and typing it again shows nothing.
- `OneAnswer` leaves out a press held until its motion makes it a long tap and
  released before the frame, which does nothing.
- `LinkFindsWord` holds up to ten matches. `ExactFirst` holds below five words
  and up to 116 bytes: a longer text has no exact term
  (`domain/word_store.cpp:314`, `:701`). `EnoughWords` counts what is left after
  eight draws for each word.
- `OptionsDiffer` allows the answer once more among capital options.

Other things met while modelling, in the models as they are in the code and
with no property about them:

- `clusters2` has "oo" before "oh" although the comments at
  `domain/tokenizer.cpp:333` and `:349` ask for sorted tables, so the search
  never finds "oh"; "tsch" stands among the clusters of three letters and
  matches nothing.
- The branch that widens a gap to the right merges nothing and reads past the
  last part (`domain/exercises.cpp:272`).
- `append_plural_stage` looks for "(Sg.)" and "(Pl.)", the dictionary writes
  "(sg.)" and "(pl.)".
- A phrase with two blanks in a row is asked for only up to there.
- Undoing everything shows " _" of the next stage (`domain/exercises.cpp:446`).
- `prewarm` gets an array of six sizes with four set (`app/main.cpp:164`).
- A glyph that found no place is for good: measuring counts half the font size
  for it and drawing skips it.
- Sub-databases of the word store are closed without being forgotten, which
  nothing opens today.

## Bounds

- `PoolSize` and `MaxActive` stand for 256 slots and 4 active requests.
  Three slots with two active let the scan wrap, let a slot be released behind
  the scan, and let the limit be exceeded. A slot is still taken while its
  client is told of the end, and a retry searches right then: with two assets
  three slots are needed.
- `MaxId` ends the issue of request ids, and handlers that request downloads wait
  for as many ids as they may need (`IdsLeft`), so that the bound never stops one
  half-way. Ids are 32 bits wide in the code. Three ids in `asset_live` are one
  download of each asset and a retry.
- Two assets: the dictionary, without which onboarding does not end, and one of
  the optional assets, which are treated alike.
- `Due`, `Now`, `Limit` and three words give equal due times, a due time before
  and after another, a limit reached before and after the due words end. The
  browser's states also have a due time before 1970, and are asked before 1970
  (`MCNow`).
- Two words and three slots (slot 0 is the null reference) let a slot be freed
  and given to the other word, and let the list be full. Two views on the stack
  are a copy below a newer one.
- `Shape = <<2, 1>>` has a stage with two substages, so that `undo` goes back
  within a stage and into an earlier one; two exercises in a round give a first
  and a last one.
- Words are interchangeable in `ExerciseRound`: no operator orders or chooses
  them, and its properties are invariants and one action property, so that
  symmetry is sound there. Elsewhere it is not used.
- Two payloads let a sound be played while the next is made and a third one find
  the pool full; `MaxJobs = 3` lets the user act while three messages are under
  way, which puts a start, a stop and the leaving of the screen into one queue;
  `MaxStack = 3` has the speech screen below another one.
- Four modes are the code's; seven reviews (`MaxReviews`) climb to the last
  mode and come down again.
- Text fields of at most four bytes (`MaxSize = 5`) hold two characters of two
  bytes, and three texts overflow them. `MCShown` has two screens that share a
  field id and one with two fields.
- `MCLexeme`, `MCSpare`: one word for each branch of the making of stages, with
  plurals that are left out, taken as they are and rewritten, and with both
  auxiliaries; an empty list of other words and one with the answers in it.
- An atlas of 8 pixels, 8 glyphs and a hash of 16 fill up within one behaviour;
  `MCText` has three texts, of a size with a table and of one without.
- `MCDictionary` is empty, of rare words only, or of fourteen words with a hole;
  `TopOfMatches` stands for ten. The texts of more than 116 bytes are a set
  (`MCLongText`): one is a query, one only a translation.
- Two presses, two fingers and four units of time: a press can overtake a
  gesture, and a tap, a long tap and a swipe can come in one.

## Assumptions

- libcurl, LMDB, Xapian, SDL, the browser and the file system are modelled from
  how the code calls them. LMDB commits a transaction as a whole; curl gives one
  message for a transfer it still knows; events arrive in order and none is
  lost; a `rename` is atomic; `localStorage` keeps or refuses a value as a whole.
- `CallerSeesRoom`: a download starts only while the pool has an unused slot.
  The callers do not test for -1; `overrun` would show a search that misses a
  slot nevertheless.
- `WorkerKeepsUp`: the worker has posted the result of a job before a user who
  sees the new marker has found and pressed an update. Without it an "unpacked"
  event could meet the row of the next download.
- A review that reads past its results and a sound written outside the payload
  pool are undefined; the models end there.
- One right answer is one point. The native build is modelled, except where a
  module says that it is about the web.

Fairness is used in `AssetFairSpec` only, which is one life of the process.
Threads run until they block (weak fairness of the main thread, the download
thread and the worker); the mutex that the download thread takes in every turn of
its loop is granted to a main thread that waits for it again and again (strong
fairness of the push). The network owes nothing: the code sets no timeout, so a
transfer may never end, and the others must go on meanwhile. Users, file errors
and spurious wakeups owe nothing. Removals of files succeed.

## Proofs

`NetWorkerProofs` proves, for every size of the pool, every limit and every
number of requests, what `net_worker` checks and more: `TypeCorrect`,
`SlotsAreOwned`, `IdsAreDistinct`, `WakeupsArrive`, `SearchFinds` and
`ClientsAreToldOnce`. None of these is inductive. The invariant `IInv` adds
where each slot is at every point of the thread's loop, that ids are issued in
order and a request that is held anywhere has not been told, and that a search
under way still has an unused slot among those it will probe: only main takes
slots, and the thread only releases them meanwhile. The part of it that needs no
free slot (`PoolInv`) is proved for callers that do not look for room, too.

`AssetProofs` builds on it and proves all that `asset_download` checks, for any
set of assets and any pool: `InstallIsComplete`, `RetryIsSafe`,
`OkMeansUnpacked`, `ReinitIsSafe`, `EachAssetOnce` and the type invariant,
under `WorkerKeepsUp`, and for `EachAssetOnce` with at least as many active
requests as assets, by the pigeonhole theorem of the library. The argument
follows one asset through the threads. It is worked for at one place
(`WorkApart`); how a download ended is told when that is over, and nothing is
told after it (`LastNews`); main requests only what nobody works for
(`Calling`, `Requested`). The step in the middle is `WorkIsShown`: whatever is
worked for, or has news under way, has a row that says so, except that the end
of onboarding drops the rows while the last job still has to report (`Dropped`).
So a row that shows an end belongs to an asset at rest, and may be retried; and
the marker, which `clean_asset` removes before the target and the worker writes
after it, if it can, never stands over an asset that is being changed.

`StatesProofs` proves, for every set of words, due times and limits,
`IndexAlwaysMatches`, `TypeCorrect` and `ImplementsMap`, the refinement of
`StateMap`. The invariant says how far the two databases of a transaction may
disagree after each of its calls, by the place of the handler; at the commit
they agree again. `collect_due` is shown to return the due words in order,
because the cursor is always at the least key not yet collected; for that the
due order is a well-founded order with a least element.

`LearningListProofs` proves all that `learning_list` checks, for every set of
words and every number of slots and views: `ListTypeCorrect`,
`ListedIsTrainable`, `SnapshotIsTrainable`, `SnapshotIsCurrent`, `FlagsAreKept`
and `NoDuplicates`. The invariant adds the order of the writes of a handler
(`Shaped`: the state of an added word first, `words.dat` once and last), without
which a word could be saved before its state is made; that the words still to be
added are not flagged and each is added once (`AddsOfUnlisted`); and that
`words.dat` takes the list's place while the process is down
(`SnapshotIsFlagged`), which carries the agreement with the flags over a restart.

`ExerciseRoundProofs` proves the safety of `exercise_round`, for any list, any
size of a round and any shape of stages: `RoundTyped`, `RefsStayFresh`,
`PointsStayExact` and `GradesOnce`. Its invariant `RoundInv` says which screen
may lie on which; that the exercises refer to listed slots as long as the
exercise screen is on the stack; and that results are of exercises that were
graded. The list changes only on screens that lie on no round, which is what
keeps the slots of a round fresh; the proof of this is mostly about the stack. A
slot may be freed and taken by another word once the summary is reached, and the
invariant lets it. `SummaryFindsRound` and `ViewsAreOfTheScreen` are what the
screens read without a check of their own. The loops that add suggestions are
recursive functions of the list; the lemma `Iterated` gives them their values,
by `Induction` up to a number, and that from the library's theorem that
inclusion among finite sets is well-founded. Of `ExerciseStages` it proves
`ShuffleFollowsTheAnswer`: the shuffled options are a permutation, and the index
that is returned is where the first of them has gone. The loop looks for the
answer only among the places it swaps *into*; that this suffices is the invariant
`Done`: an answer that was swapped away lies in the part that is finished.

The rest of `ExerciseRoundProofs` follows a word through `Tokenizer` and
`ExerciseStages`. A text is a sequence over some set of letters (`Words`), and
pieces that are joined are flattened. `ChunksSpellTheWord` says that `to_chunks`
loses, doubles and moves no letter of a word that is not blank, of any kind and
length, `LettersSpellTheWord` the same of `to_letters`. Peeling keeps "prefixes,
core and suffixes are the word" (`Whole`) through every round, since the affix is
taken off where it is put down. The clusters and the syllables are functions that
run down from the end of the word; `CanSpellDown` says what such a function needs
to spell what is left of a word: it takes one letter at least, and not beyond the
end. Of a syllable, `ChunkEndFits` shows it: it ends at its vowel or behind it, and
before the next. `StagesSpellTheWord` is the invariant `AnswersSpellTheWord`. The
invariant behind it, `SpellInv`, says in the middle of a stage that what was
answered, with what is still to be asked for and the text around a gap, is what
the stages so far stand for (`Target`). It holds for the gap too, when a part of
one byte is joined with its left neighbour, and uses `ShuffleFollowsTheAnswer`:
the option taken for right is the part that was asked for.

`OptionsStayApart` is the invariant `OptionsDiffer`. Its core is
`DistractorsDiffer`, about any token, capital and hash. Each place of a table is
looked at once, at most, by the search for neighbours (`Picks`, `Looked`), never
the place of the token, and no table has an entry twice. What pads a short list
of neighbours is in `VerbPrefix` only, and that table is long enough never to be
padded: each of the first four turns finds one. For the fallback lists, the
candidates are a rotation of the table (`TurnedApart`), of which the token is
passed over once. `BisectFindsThePlace` is the correctness of `lower_bound`: in
a table whose entries below the word come first it finds the first that is not
below, and in any table it ends at a place. `OptionsDiffer` needs the second
only, which matters as `clusters2` is out of order.

`DomainProofs` holds three parts that are called and return. `LadderHolds` is
proved for any number of modes and reviews: the sum over the modes is a
recursive function again. `ReportedIsSaved` adds `MemoryHasTold`: the table in
memory holds every state that was reported as saved, so that the next copy of the
whole table loses none. `ScheduleAgrees` keeps the vector of due entries sorted
and its entries those of the states (`DueIsListed`), through the bisection, the
insertion and the removal at the place it found. Of the word store,
`EnoughWordsFound` counts draws (`DrawsCounted`): each one either found a word
or lost one of the rare words that an early draw may lose; `LinksLeadHome` and
`ExactComesFirst` say of a sorted list of matches where a match can be
(`InRanks`), and compare weights: for a query of up to four words and 116 bytes an exact
translation has at least 500 and any other at most 400, and a lemma with a capital
letter gains more than any popularity byte can.

`SpeechProofs` proves all that `speech` checks, for a pool of any size and
queues of any length. `RecorderOpenedOnce` and `MicrophoneClosedAway` rest on
what the jobs still in the queue will do: opens and closes alternate, the first
of them suits the recorder as it is, the last one suits the screen on top.
`FlagIsTrue` and `RecognitionsEnd` say what a flag *will* show: the last event
under way that is about it, or, without one, the flag itself (`WillShow`). That
closing the recorder makes no event of its own about the recording is right only
because a stop goes before each closing (`StopsFirst`). `SlotsHaveOneHolder`
counts a slot over both queues and the player; what a job more or less does to
the count comes from the library's facts about finite sets.
`SpeechTypeCorrect` is the type invariant they all use.

`UiProofs` proves `PressesAreAnsweredOnce`: a gesture that the next frame will
see has been seen by none (`Unseen`), and what is over was seen, will be seen, or
was lost on the way (`Settled`). For the field on the web it proves
`ElementStaysInStep` from `FieldInv`: a blur that the app itself caused leaves no
notice (`Calm`), an app without a focus asks the page for nothing (`Idle`), and a
focused field is watched by its handlers or will be told. The fields of a frame
are drawn in a loop that keeps `Drawing`, which is weaker, and
`mobile_text_input_sync` at its end restores what the element shows. For the
fields on SDL it proves `FocusStaysShown`, `NewsReachTheirField` and
`CharactersStayWhole` from `InputInv`: a focus has a buffer (`Filled`), news have
a notice that is still set (`Noticed`), the buffers hold whole characters
(`Steady`). The loop of a frame has an invariant that depends on the fields drawn
so far (`DrawInv`): a notice whose field was not drawn yet is still set, and a
focus that was left or passed on is known to a field that has been or will be
drawn. That edits keep characters whole comes down to three facts about
sequences: a prefix up to a character, a suffix from a character and the joining
of whole pieces are whole (`WholePrefix`, `WholeSuffix`, `WholeJoin`).

For the glyphs it proves `GlyphsStayApart` and `DrawnStaysUploaded` from
`CacheOK`: the shelves lie below each other (`ShelvesOK`), every picture lies with
its border on the taken part of a shelf, apart from the others (`PoolOK`), the
probing for a key meets its glyph before a free slot (`Reached` in `TableOK`), and
a row of a picture is in the texture or in the dirty range (`StagedOK`). A shelf
only grows to the right, so a new picture starts where all others on it have
ended; that a glyph that is not found has a free slot at the end of its probing is
counted: the table has twice as many slots as the pool has places, and no place
is filed twice. `Grows` is what all calls have in common: whatever they load, what
had a picture keeps it and what was uploaded stays so. The loops over the
characters of a text are folds; `Folded` unwinds a fold and `FoldKeeps` carries an
invariant through it.

Every proof rests on the assumptions that the modules name: pools, slots and
limits are natural numbers, `Free` is no entry of the list, `Torn` and `Foreign`
are no tables; there are finitely many words, their numbers and due times are
integers, a popularity is a byte, links have a text; SDL sends whole characters,
a field has a number other than 0, and a screen with fields has at least one;
the words of a lexeme are what the JSON of a dictionary can give, with no form
that is blank ("str should not be empty" in `exercises.cpp`), and a list of spare
words is finite; pictures have natural sizes, a text is made of codes that have a
picture, if an empty one, at its size, and so are the characters that are loaded
in advance.

Liveness under fairness and ENABLED are beyond the prover: `RowSettles` is
checked by TLC only. The library's induction theorems, which take an operator as
a parameter, cannot be used; induction up to a number can be had as above, at a
price. That a string is a sequence of characters is part of TLA+ and of TLC, and
unknown to the prover: `StagesSpellTheWord` and `OptionsStayApart` have it as a
hypothesis (`StringsAreWords`), for the set `C` of all characters and for the
literals that the stages put together; the theorems about chunks, letters, the
bisection and the distractors need none. Where the tokenizer cuts, which forms the
grammar builds and which kind it guesses are run by TLC on the words of
`MCSequential`, and no property is about them. All invariants and action properties that a run checks are proved.

## Plan

Done, in this order: `NetWorker` and its proofs; `States`, `StateMap` and their
proofs; `AssetDownload` and its proofs; `LearningList` and its proofs;
`ExerciseState`, `ExerciseRound` and its proofs; `SpeechPipeline`, `Ladder`,
`WebStates`, `WordStore` and their proofs; `TextInput`, `BrowserField`,
`Gestures`, `TextCache` and their proofs; `Tokenizer`, `Grammar`,
`ExerciseStages` and the theorems about them.

What is left: the parser of forms (`wparser.h`); a model of the batches of
`web_persist.cpp` with a browser that syncs late.

## Not modelled

Drawing, layout, themes and sizes; haptics; the Android, Apple and web shells;
the tools that build the dictionaries (`xdbuilder`, `tools`); the wording of
exercises; the numbers of the scheduling formulas. The word editor has no
caller. Arenas and containers are sequential and are taken as they are meant,
except for `FixedSet`, whose ignored result is modelled. Three more paths are
known and left out: `push` on a full stack of screens, the settings opened over
a word view, and a text handed to `run_tts` that is edited before the neuro
thread reads it.

## Use

    tlc -config NetWorker.cfg NetWorker.tla
    tlc -config Sequential.cfg MCSequential.tla
    tlapm NetWorkerProofs.tla

Every run of `PROJECT.json` names its module and configuration.
