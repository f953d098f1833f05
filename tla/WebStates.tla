------------------------------ MODULE WebStates ------------------------------
(***************************************************************************)
(* Engine::States of klappt in the browser build (domain/engine.cpp): the  *)
(* learning states in a hash table with a sorted vector of due entries,    *)
(* and a copy of the whole table in localStorage after every change.       *)
(* A call changes memory first and returns whether the copy was saved;     *)
(* the browser may refuse to save it, and the page may close at any time.  *)
(***************************************************************************)
EXTENDS Integers, Sequences, SequencesExt

CONSTANTS
  WordId,      \* 64-bit ids, numbers
  State,       \* records with a field due
  NoState,     \* of a word without a state
  Now, Limit,  \* what collect_due is asked with
  Foreign      \* stored bytes of another size, magic or version

VARIABLES
  storageKey,  \* storage_key is set: open was called, and not close
  states,      \* the table
  due,         \* the sorted entries <<due, id>>
  storage,     \* what localStorage holds: Foreign, or a whole table
  told,        \* history: the state of each word that was reported as saved,
               \* until the word is written again
  reading,     \* history: "done", "failed" when the last open could not read
               \* what is stored, "overwritten" when a write was saved then
  webRet       \* the last collect_due, with its result

webVars == <<storageKey, states, due, storage, told, reading, webRet>>

NoStates == [w \in WordId |-> NoState]
Table == [WordId -> State \cup {NoState}]
Quiet == [op |-> "none"]

ASSUME WebAssumption ==
  /\ IsFiniteSet(WordId) /\ WordId \subseteq Int
  /\ \A s \in State : s.due \in Int
  /\ NoState \notin State /\ Foreign \notin Table
  /\ Now \subseteq Int /\ Limit \subseteq Nat

Map == INSTANCE StateMap WITH map <- states, ret <- webRet

\* std::pair's order: by due time, then by word.
EntryBefore(k, l) == k[1] < l[1] \/ (k[1] = l[1] /\ k[2] < l[2])

\* Times are unsigned in the vector.
FromZero(time) == IF time < 0 THEN 0 ELSE time

DueEntry(w, s) == <<FromZero(s.due), w>>

\* std::lower_bound in a sorted vector: the first entry that is not before e, or
\* the end.
UpperBound(q, e) ==                                   \* mutant of LowerBound
  Min({i \in DOMAIN q : q[i][1] > e[1]} \cup {Len(q) + 1})
LowerBound(q, e) ==
  Min({i \in DOMAIN q : ~EntryBefore(q[i], e)} \cup {Len(q) + 1})

EraseDueEntry(q, e) ==
  LET at == LowerBound(q, e)
  IN  IF at <= Len(q) /\ q[at] = e THEN RemoveAt(q, at) ELSE q

\* std::sort of entries of which no two are equal.
InOrder(S) ==
  CHOOSE q \in [1 .. Cardinality(S) -> S] :
    \A i, j \in DOMAIN q : i < j => EntryBefore(q[i], q[j])

Entries(t) == {DueEntry(w, t[w]) : w \in {v \in WordId : t[v] # NoState}}

WebInit ==
  /\ storageKey = FALSE /\ states = NoStates /\ due = <<>>
  /\ storage \in {Foreign, NoStates}
  /\ told = NoStates /\ reading = "done" /\ webRet = Quiet

\* States::open forgets what is in memory and restores what is stored.
\* Storage that cannot be read leaves an empty table; open returns false, but
\* the screen that tried to reload the dictionary goes on with the words it had.
WebOpen ==
  /\ ~storageKey
  /\ storageKey' = TRUE
  /\ \/ /\ storage # Foreign
        /\ states' = storage
        /\ due' = InOrder(Entries(storage))
        /\ reading' = IF reading = "overwritten" THEN reading ELSE "done"
     \/ /\ states' = NoStates /\ due' = <<>>
        /\ reading' = IF reading = "overwritten" THEN reading ELSE "failed"
  /\ webRet' = Quiet
  /\ UNCHANGED <<storage, told>>

WebClose ==
  /\ storageKey
  /\ storageKey' = FALSE /\ webRet' = Quiet
  /\ UNCHANGED <<states, due, storage, told, reading>>

\* persist_web_states: the whole table is saved, or what was stored stays.
PersistStale(w, saved) ==                            \* mutant of Persist
  /\ storage' = IF saved THEN states ELSE storage
  /\ told' = [told EXCEPT ![w] = IF saved THEN states'[w] ELSE NoState]
  /\ reading' = IF saved /\ reading = "failed" THEN "overwritten" ELSE reading
Persist(w, saved) ==
  /\ storage' = IF saved THEN states' ELSE storage
  /\ told' = [told EXCEPT ![w] = IF saved THEN states'[w] ELSE NoState]
  /\ reading' = IF saved /\ reading = "failed" THEN "overwritten" ELSE reading

WebSet(w, s, saved) ==
  /\ storageKey
  /\ LET e == DueEntry(w, s)
         rest == IF states[w] = NoState THEN due
                 ELSE EraseDueEntry(due, DueEntry(w, states[w]))
     IN  due' = InsertAt(rest, LowerBound(rest, e), e)
  /\ states' = [states EXCEPT ![w] = s]
  /\ Persist(w, saved)
  /\ webRet' = Quiet
  /\ UNCHANGED storageKey

WebErase(w, saved) ==
  /\ storageKey /\ states[w] # NoState
  /\ due' = EraseDueEntry(due, DueEntry(w, states[w]))
  /\ states' = [states EXCEPT ![w] = NoState]
  /\ Persist(w, saved)
  /\ webRet' = Quiet
  /\ UNCHANGED storageKey

\* collect_due walks the vector up to the limit or the first word not due.
WebCollectDue(now, limit) ==
  /\ storageKey
  /\ LET nowDue == FromZero(now)
         stops == {i \in DOMAIN due : due[i][1] > nowDue \/ (limit > 0 /\ i > limit)}
         n == Min(stops \cup {Len(due) + 1}) - 1
     IN  webRet' = [op |-> "due", ok |-> TRUE, now |-> nowDue, limit |-> limit,
                    words |-> [i \in 1 .. n |-> due[i][2]]]
  /\ UNCHANGED <<storageKey, states, due, storage, told, reading>>

\* The page is closed or reloaded.
PageCloses ==
  /\ storageKey' = FALSE /\ states' = NoStates /\ due' = <<>> /\ webRet' = Quiet
  /\ UNCHANGED <<storage, told, reading>>

WebNext ==
  \/ WebOpen \/ WebClose \/ PageCloses
  \/ \E w \in WordId, saved \in BOOLEAN :
       WebErase(w, saved) \/ \E s \in State : WebSet(w, s, saved)
  \/ \E now \in Now, limit \in Limit : WebCollectDue(now, limit)

WebSpec == WebInit /\ [][WebNext]_webVars

-----------------------------------------------------------------------------
\* The vector lists every state once, by due time and word, so that a binary
\* search finds the entry of a word and no word is scheduled twice or never.
DueIsSorted ==
  /\ \A i, j \in DOMAIN due : i < j => EntryBefore(due[i], due[j])
  /\ {due[i] : i \in DOMAIN due} = Entries(states)

\* What collect_due gives is what the map of the native store would give:
\* the due words, earliest first, as many as the limit allows.
CollectsDue ==
  webRet.op = "due" => Map!IsDueList(webRet.words, states, webRet.now, webRet.limit)

WebAgrees == DueIsSorted /\ CollectsDue

\* A write that was reported as saved is in the storage until its word is
\* written again, whatever failed to be saved and however often the page was
\* closed meanwhile; unless a table that could not be read was written over.
ToldIsDurable ==
  reading # "overwritten" =>
    \A w \in WordId : told[w] # NoState => storage # Foreign /\ storage[w] = told[w]
=============================================================================
