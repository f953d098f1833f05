------------------------- MODULE LearningListProofs -------------------------
(***************************************************************************)
(* Proofs about the learning list (LearningList.tla): what is listed can   *)
(* be trained, words.dat holds only words that can be loaded and is never  *)
(* behind the list without an error, and the dictionary flags what is      *)
(* listed until one of its writes is lost.                                 *)
(***************************************************************************)
EXTENDS LearningList, TLAPS, WellFoundedInduction

-----------------------------------------------------------------------------
(* The inductive invariant.                                                  *)

\* A handler makes a state first and ends with its one save of words.dat.
NoState(t) == \A i \in DOMAIN t : t[i].do # "state"
Shaped(t) ==
  \A i \in DOMAIN t : /\ t[i].do = "state" => i = 1
                      /\ t[i].do = "save" <=> i = Len(t)

\* Nothing but the disk outlives the process.
DownIsEmpty == ~up => words = NoWords /\ todo = <<>> /\ views = <<>>

\* While the process is down, words.dat takes the place of the list.
SnapshotIsFlagged ==
  ~up /\ "flags" \notin wrong /\ snapshot # Torn =>
    \A r \in Used(snapshot) : store[snapshot[r].word].listed

\* Words that the dictionary and the suggestions still have to add are not
\* flagged, and each is added once.
AddsOfUnlisted ==
  "flags" \notin wrong =>
    \A i \in DOMAIN todo : todo[i].do = "add" /\ ~todo[i].inView =>
      /\ ~store[todo[i].word].listed
      /\ \A j \in DOMAIN todo : todo[j].do = "add" /\ todo[j].word = todo[i].word => i = j

IInv ==
  /\ TypeOK /\ DownIsEmpty /\ Shaped(todo)
  /\ ListedHasState /\ SnapshotHasStates /\ SnapshotCurrent
  /\ ListedIsFlagged /\ SnapshotIsFlagged /\ AddsOfUnlisted

-----------------------------------------------------------------------------
(* Facts about the slots and the steps of a handler.                         *)

LEMMA TableFacts ==
  /\ NoWords \in Table /\ Used(NoWords) = {}
  /\ \A t \in Table : \A r \in Used(t) :
       /\ r \in Ref /\ t[r] \in Entry
       /\ t[r].word \in Word /\ t[r].learned \in BOOLEAN
BY ListAssumption DEF Table, NoWords, Used, Entry

\* Words::remove_by_id.
LEMMA RemoveFacts ==
  ASSUME NEW t \in Table, NEW w
  PROVE  LET u == RemoveById(t, w) IN
         /\ u \in Table /\ Used(u) = Used(t) \ RefsOf(t, w)
         /\ \A s \in Used(u) : u[s] = t[s] /\ t[s].word # w
BY ListAssumption DEF Table, Used, RefsOf, RemoveById

\* The words that init_runtime_data keeps.
LEMMA KeptFacts ==
  ASSUME TypeOK, NEW found \in SUBSET Known
  PROVE  /\ Kept(found) \in Table /\ Used(Kept(found)) = found
         /\ found # {} => snapshot # Torn
         /\ \A r \in found : r \in Used(snapshot) /\ Kept(found)[r] = snapshot[r]
<1>1. Decoded \in Table /\ found \subseteq Used(Decoded)
  BY TableFacts DEF Decoded, TypeOK, Known
<1>2. Kept(found) \in Table /\ Used(Kept(found)) = found
  BY <1>1, TableFacts DEF Kept, Table, Used
<1>3. snapshot = Torn => found = {}
  BY <1>1, TableFacts DEF Decoded
<1>4. snapshot # Torn => \A r \in found : r \in Used(snapshot) /\ Kept(found)[r] = snapshot[r]
  BY <1>1, <1>2, TableFacts DEF Decoded, Kept
<1> QED
  BY <1>2, <1>3, <1>4

LEMMA StepForms ==
  /\ SaveWords \in Step /\ SaveWords.do = "save"
  /\ \A w \in Word, l \in BOOLEAN, v \in BOOLEAN :
       /\ AddWord(w, l, v) \in Step /\ AddWord(w, l, v).do = "add"
       /\ AddWord(w, l, v).word = w /\ AddWord(w, l, v).inView = v
  /\ \A r \in Ref, v \in BOOLEAN : [do |-> "state", ref |-> r, inView |-> v] \in Step
  /\ \A s \in Step :
       /\ s.do \in {"save", "add", "state"}
       /\ s.do = "add" => s.word \in Word /\ s.learned \in BOOLEAN /\ s.inView \in BOOLEAN
       /\ s.do = "state" => s.ref \in Ref /\ s.inView \in BOOLEAN
BY DEF Step, SaveWords, AddWord

\* A handler goes on with the rest of its steps.
LEMMA TailFacts ==
  ASSUME NEW t \in Seq(Step), t # <<>>, Shaped(t)
  PROVE  /\ Tail(t) \in Seq(Step) /\ Shaped(Tail(t)) /\ NoState(Tail(t))
         /\ Head(t) \in Step /\ Head(t) = t[1] /\ 1 \in DOMAIN t
         /\ Head(t).do # "save" => Tail(t) # <<>>
         /\ Head(t).do # "state" => NoState(t)
         /\ \A i \in DOMAIN Tail(t) : i + 1 \in DOMAIN t /\ Tail(t)[i] = t[i + 1]
<1>1. /\ Len(t) \in Nat \ {0} /\ DOMAIN t = 1 .. Len(t)
      /\ Tail(t) \in Seq(Step) /\ Len(Tail(t)) = Len(t) - 1
      /\ DOMAIN Tail(t) = 1 .. Len(t) - 1
      /\ \A i \in 1 .. Len(t) - 1 : Tail(t)[i] = t[i + 1]
      /\ Head(t) = t[1] /\ Head(t) \in Step
  OBVIOUS
<1>2. Shaped(Tail(t)) /\ NoState(Tail(t))
  BY <1>1 DEF Shaped, NoState
<1>3. Head(t).do # "save" => Tail(t) # <<>>
  BY <1>1 DEF Shaped
<1>4. Head(t).do # "state" => NoState(t)
  BY <1>1 DEF Shaped, NoState
<1> QED
  BY <1>1, <1>2, <1>3, <1>4

LEMMA StateFirstFacts ==
  ASSUME NEW t \in Seq(Step), t # <<>>, Shaped(t), NoState(t),
         NEW s \in Step, s.do = "state"
  PROVE  LET u == StateFirst(t, s) IN
         /\ u \in Seq(Step) /\ u # <<>> /\ Shaped(u) /\ 1 \in DOMAIN u /\ u[1] = s
         /\ \A i \in DOMAIN u : i # 1 => i - 1 \in DOMAIN t /\ u[i] = t[i - 1]
<1> DEFINE u == StateFirst(t, s)
<1>1. /\ u \in Seq(Step) /\ Len(u) = Len(t) + 1 /\ DOMAIN u = 1 .. Len(t) + 1
      /\ u[1] = s /\ \A i \in 2 .. Len(t) + 1 : u[i] = t[i - 1]
      /\ Len(t) \in Nat \ {0} /\ DOMAIN t = 1 .. Len(t)
  BY DEF StateFirst
<1> HIDE DEF u
<1>2. Shaped(u)
  <2> SUFFICES ASSUME NEW i \in 1 .. Len(t) + 1
               PROVE  /\ u[i].do = "state" => i = 1
                      /\ u[i].do = "save" <=> i = Len(t) + 1
    BY <1>1 DEF Shaped
  <2>1. CASE i = 1
    BY <1>1, <2>1
  <2>2. CASE i # 1
    <3>1. i - 1 \in 1 .. Len(t) /\ u[i] = t[i - 1]
      BY <1>1, <2>2
    <3>2. t[i - 1].do # "state" /\ (t[i - 1].do = "save" <=> i - 1 = Len(t))
      BY <1>1, <3>1 DEF Shaped, NoState
    <3> QED
      BY <1>1, <3>1, <3>2
  <2> QED
    BY <2>1, <2>2
<1>3. u # <<>> /\ 1 \in DOMAIN u
  BY <1>1
<1>4. \A i \in DOMAIN u : i # 1 => i - 1 \in DOMAIN t /\ u[i] = t[i - 1]
  BY <1>1
<1>5. u \in Seq(Step) /\ u[1] = s
  BY <1>1
<1> QED
  BY <1>2, <1>3, <1>4, <1>5 DEF u

LEMMA OneSave ==
  /\ <<SaveWords>> \in Seq(Step) /\ Shaped(<<SaveWords>>) /\ <<SaveWords>> # <<>>
  /\ \A i \in DOMAIN <<SaveWords>> : <<SaveWords>>[i].do = "save"
BY StepForms DEF Shaped

LEMMA OneAdd ==
  ASSUME NEW w \in Word, NEW l \in BOOLEAN, NEW v \in BOOLEAN
  PROVE  LET t == <<AddWord(w, l, v), SaveWords>> IN
         /\ t \in Seq(Step) /\ Shaped(t) /\ t # <<>> /\ NoState(t)
         /\ \A i \in DOMAIN t : t[i].do = "add" => i = 1 /\ t[i].word = w /\ t[i].inView = v
<1> DEFINE t == <<AddWord(w, l, v), SaveWords>>
<1>1. AddWord(w, l, v) \in Step /\ SaveWords \in Step
  BY StepForms
<1>2. t \in Seq(Step) /\ Len(t) = 2 /\ DOMAIN t = {1, 2} /\ t[1] = AddWord(w, l, v) /\ t[2] = SaveWords
  BY <1>1
<1> HIDE DEF t
<1>3. /\ AddWord(w, l, v).do = "add" /\ SaveWords.do = "save"
      /\ AddWord(w, l, v).word = w /\ AddWord(w, l, v).inView = v
  BY StepForms
<1>4. Shaped(t) /\ NoState(t)
  BY <1>2, <1>3 DEF Shaped, NoState
<1>5. \A i \in DOMAIN t : t[i].do = "add" => i = 1 /\ t[i].word = w /\ t[i].inView = v
  BY <1>2, <1>3
<1>6. t # <<>>
  BY <1>2
<1> QED
  BY <1>2, <1>4, <1>5, <1>6 DEF t

\* WordStore::save, as long as nothing was lost.
LEMMA StoreFacts ==
  ASSUME TypeOK, NEW w \in Word, NEW l \in BOOLEAN, NEW m \in BOOLEAN, StoreSave(w, l, m)
  PROVE  /\ store' \in [Word -> [there : BOOLEAN, listed : BOOLEAN, learned : BOOLEAN]]
         /\ wrong' \subseteq {"flags", "file", "read"}
         /\ "file" \in wrong <=> "file" \in wrong'
         /\ "flags" \notin wrong' =>
              /\ "flags" \notin wrong /\ store'[w].listed = l
              /\ \A v \in Word \ {w} : store'[v] = store[v]
BY DEF TypeOK, StoreSave

\* A set of slots that is not empty has a first one.
LEMMA FirstSlot ==
  ASSUME NEW T, T \subseteq Ref, T # {}
  PROVE  \E r \in T : \A s \in T : r <= s
<1>1. T \subseteq Nat
  BY SlotsAssumption DEF Ref
<1>2. PICK r \in T : \A s \in T : <<s, r>> \notin OpToRel(<, Nat)
  BY <1>1, NatLessThanWellFounded, WFMin
<1>3. \A x, y \in Nat : y < x => <<y, x>> \in OpToRel(<, Nat)
  BY DEF OpToRel
<1>4. \A s \in T : r <= s
  <2> TAKE s \in T
  <2>1. r \in Nat /\ s \in Nat
    BY <1>1
  <2>2. <<s, r>> \notin OpToRel(<, Nat)
    BY <1>2
  <2>3. ~(s < r)
    BY <2>1, <2>2, <1>3, Zenon
  <2> QED
    BY <2>1, <2>3
<1> QED
  BY <1>4

LEMMA CopyFacts ==
  ASSUME TypeOK, NEW w \in Word
  PROVE  Copy(w) \in View
<1>1. CASE w \in Listed(words)
  <2> DEFINE first(r) == \A s \in RefsOf(words, w) : r <= s
             least == CHOOSE r \in RefsOf(words, w) : first(r)
  <2>1. RefsOf(words, w) \subseteq Ref /\ RefsOf(words, w) # {}
    BY <1>1, TableFacts DEF Listed, RefsOf, TypeOK
  <2>2. \E r \in RefsOf(words, w) : first(r)
    BY <2>1, FirstSlot
  <2>3. least \in RefsOf(words, w)
    BY <2>2
  <2>4. words[least].learned \in BOOLEAN
    BY <2>3, TableFacts DEF RefsOf, TypeOK
  <2>5. Copy(w) = [word |-> w, listed |-> TRUE, learned |-> words[least].learned]
    BY <1>1 DEF Copy
  <2> HIDE DEF least
  <2> QED
    BY <2>4, <2>5 DEF View
<1>2. CASE w \notin Listed(words)
  BY <1>2 DEF Copy, View, TypeOK
<1> QED
  BY <1>1, <1>2

-----------------------------------------------------------------------------
(* Every step preserves the invariant.                                       *)

LEMMA InitIInv == Init => IInv
<1> SUFFICES ASSUME Init PROVE IInv
  OBVIOUS
<1>1. TypeOK
  <2>1. words \in Table /\ snapshot \in Table \cup {Torn}
    BY TableFacts DEF Init
  <2>2. store \in [Word -> [there : BOOLEAN, listed : BOOLEAN, learned : BOOLEAN]]
    BY DEF Init, Fresh
  <2>3. todo = <<>> /\ views = <<>> /\ up \in BOOLEAN /\ states \subseteq Word /\ wrong = {}
    BY DEF Init
  <2>4. todo \in Seq(Step) /\ views \in Seq(View) /\ Len(views) <= MaxViews /\ DOMAIN todo = {}
    BY <2>3, ListAssumption
  <2> QED
    BY <2>1, <2>2, <2>3, <2>4 DEF TypeOK
<1>2. ListedHasState /\ SnapshotHasStates /\ ListedIsFlagged /\ SnapshotIsFlagged
  BY TableFacts DEF Init, ListedHasState, SnapshotHasStates, ListedIsFlagged,
                    SnapshotIsFlagged, Listed
<1>3. DownIsEmpty /\ Shaped(todo) /\ SnapshotCurrent /\ AddsOfUnlisted
  BY DEF Init, DownIsEmpty, Shaped, SnapshotCurrent, AddsOfUnlisted, Idle
<1> QED
  BY <1>1, <1>2, <1>3 DEF IInv

\* Opening and leaving word views.
LEMMA ViewsStep ==
  ASSUME IInv, Idle, UNCHANGED <<up, words, disk, todo, wrong>>,
         views' \in Seq(View), Len(views') <= MaxViews
  PROVE  IInv'
<1>1. TypeOK'
  BY DEF IInv, TypeOK, Idle, disk
<1>2. DownIsEmpty' /\ Shaped(todo)' /\ ListedHasState' /\ SnapshotHasStates'
  BY DEF IInv, Idle, DownIsEmpty, Shaped, ListedHasState, SnapshotHasStates, disk
<1>3. SnapshotCurrent' /\ ListedIsFlagged' /\ SnapshotIsFlagged' /\ AddsOfUnlisted'
  BY DEF IInv, Idle, SnapshotCurrent, ListedIsFlagged, SnapshotIsFlagged, AddsOfUnlisted, disk
<1> QED
  BY <1>1, <1>2, <1>3 DEF IInv

\* A handler starts: it has at most removed words, and its other writes are
\* still to be made.
LEMMA HandlerStep ==
  ASSUME IInv, Idle, UNCHANGED <<up, snapshot, states>>,
         todo' \in Seq(Step), todo' # <<>>, Shaped(todo'), NoState(todo'),
         \A i \in DOMAIN todo' : todo'[i].do = "add" /\ todo'[i].inView => views' # <<>>,
         views' \in Seq(View), Len(views') <= MaxViews,
         words' \in Table,
         \A r \in Used(words') : r \in Used(words) /\ words'[r].word = words[r].word,
         store' \in [Word -> [there : BOOLEAN, listed : BOOLEAN, learned : BOOLEAN]],
         wrong' \subseteq {"flags", "file", "read"},
         ListedIsFlagged', AddsOfUnlisted'
  PROVE  IInv'
<1>1. TypeOK'
  <2>1. \A i \in DOMAIN todo' : /\ todo'[i].do # "state"
                                /\ todo'[i].do # "save" /\ todo'[i].inView => views' # <<>>
    <3> TAKE i \in DOMAIN todo'
    <3>1. todo'[i] \in Step /\ todo'[i].do # "state"
      BY DEF NoState
    <3> QED
      BY <3>1, StepForms
  <2> QED
    BY <2>1 DEF IInv, TypeOK
<1>2. DownIsEmpty' /\ Shaped(todo)' /\ SnapshotHasStates' /\ SnapshotCurrent' /\ SnapshotIsFlagged'
  BY DEF IInv, Idle, DownIsEmpty, SnapshotHasStates, SnapshotCurrent, SnapshotIsFlagged
<1>3. ListedHasState'
  BY DEF IInv, Idle, ListedHasState
<1> QED
  BY <1>1, <1>2, <1>3 DEF IInv

\* The handler removes a word, as remove_word_from_learning_list does.
LEMMA RemoveStep ==
  ASSUME IInv, Idle, UNCHANGED <<up, snapshot, states>>,
         NEW w \in Word, NEW l \in BOOLEAN, Remove(w, l), todo' = <<SaveWords>>,
         views' \in Seq(View), Len(views') <= MaxViews
  PROVE  IInv'
<1>1. /\ words' \in Table
      /\ \A r \in Used(words') : r \in Used(words) /\ words'[r] = words[r] /\ words[r].word # w
  BY RemoveFacts DEF Remove, IInv, TypeOK
<1>2. /\ store' \in [Word -> [there : BOOLEAN, listed : BOOLEAN, learned : BOOLEAN]]
      /\ wrong' \subseteq {"flags", "file", "read"}
      /\ "flags" \notin wrong' => "flags" \notin wrong /\ \A v \in Word \ {w} : store'[v] = store[v]
  BY StoreFacts DEF Remove, IInv
<1>3. ListedIsFlagged'
  <2> SUFFICES ASSUME "flags" \notin wrong', NEW r \in Used(words')
               PROVE  store'[words'[r].word].listed
    BY DEF ListedIsFlagged, Listed
  <2>1. r \in Used(words) /\ words'[r] = words[r] /\ words[r].word \in Word \ {w}
    BY <1>1, TableFacts DEF IInv, TypeOK
  <2>2. store[words[r].word].listed
    BY <1>2, <2>1 DEF IInv, ListedIsFlagged, Listed
  <2> QED
    BY <1>2, <2>1, <2>2
<1>4. todo' \in Seq(Step) /\ todo' # <<>> /\ Shaped(todo') /\ \A i \in DOMAIN todo' : todo'[i].do = "save"
  BY OneSave
<1>5. NoState(todo') /\ AddsOfUnlisted'
  BY <1>4 DEF NoState, AddsOfUnlisted
<1> QED
  BY <1>1, <1>2, <1>3, <1>4, <1>5, HandlerStep

\* The handler adds a word.
LEMMA AddStep ==
  ASSUME IInv, Idle, UNCHANGED <<up, snapshot, states, words, store, wrong>>,
         NEW w \in Word, NEW l \in BOOLEAN, NEW v \in BOOLEAN,
         todo' = <<AddWord(w, l, v), SaveWords>>,
         v => views' # <<>>, v \/ ~store[w].listed,
         views' \in Seq(View), Len(views') <= MaxViews
  PROVE  IInv'
<1>1. /\ todo' \in Seq(Step) /\ todo' # <<>> /\ Shaped(todo') /\ NoState(todo')
      /\ \A i \in DOMAIN todo' : todo'[i].do = "add" => i = 1 /\ todo'[i].word = w /\ todo'[i].inView = v
  BY OneAdd
<1>2. ListedIsFlagged' /\ AddsOfUnlisted'
  BY <1>1 DEF IInv, ListedIsFlagged, AddsOfUnlisted
<1>3. words' \in Table /\ store' = store /\ wrong' = wrong /\ words' = words
  BY DEF IInv, TypeOK
<1> QED
  BY <1>1, <1>2, <1>3, HandlerStep DEF IInv, TypeOK

LEMMA LongTapStep ==
  ASSUME IInv, NEW w \in Word, LongTap(w)
  PROVE  IInv'
<1>1. /\ Idle /\ UNCHANGED <<up, snapshot, states, views>>
      /\ views' \in Seq(View) /\ Len(views') <= MaxViews
      /\ store[w].listed \in BOOLEAN /\ store[w].learned \in BOOLEAN
  BY DEF LongTap, IInv, TypeOK
<1>2. CASE store[w].listed
  <2>1. Remove(w, store[w].learned) /\ todo' = <<SaveWords>>
    BY <1>2 DEF LongTap
  <2> QED
    BY <1>1, <2>1, RemoveStep
<1>3. CASE ~store[w].listed
  <2>1. todo' = <<AddWord(w, store[w].learned, FALSE), SaveWords>> /\ UNCHANGED <<words, store, wrong>>
    BY <1>3 DEF LongTap
  <2> QED
    BY <1>1, <1>3, <2>1, AddStep
<1> QED
  BY <1>2, <1>3

LEMMA ToggleViewStep ==
  ASSUME IInv, ToggleView
  PROVE  IInv'
<1> DEFINE v == views[Len(views)]
<1>1. /\ Idle /\ UNCHANGED <<up, snapshot, states>> /\ views # <<>>
      /\ views' = [views EXCEPT ![Len(views)].listed = ~@]
      /\ views \in Seq(View) /\ Len(views) \in 1 .. Len(views) /\ Len(views) <= MaxViews
  BY DEF ToggleView, IInv, TypeOK
<1>2. v \in View /\ v.word \in Word /\ v.learned \in BOOLEAN /\ v.listed \in BOOLEAN
  <2>1. v \in View
    BY <1>1
  <2> QED
    BY <2>1 DEF View
<1>3. views' \in Seq(View) /\ Len(views') <= MaxViews /\ views' # <<>>
  <2> DEFINE u == [v EXCEPT !.listed = ~@]
  <2>1. u \in View
    BY <1>2 DEF View
  <2>2. views' = [views EXCEPT ![Len(views)] = u]
    BY <1>1
  <2> HIDE DEF u
  <2> QED
    BY <1>1, <2>1, <2>2
<1>4. CASE v.listed
  <2>1. Remove(v.word, v.learned) /\ todo' = <<SaveWords>>
    BY <1>4 DEF ToggleView
  <2> QED
    BY <1>1, <1>2, <1>3, <2>1, RemoveStep
<1>5. CASE ~v.listed
  <2>1. todo' = <<AddWord(v.word, v.learned, TRUE), SaveWords>> /\ UNCHANGED <<words, store, wrong>>
    BY <1>5 DEF ToggleView
  <2> QED
    BY <1>1, <1>2, <1>3, <2>1, AddStep
<1> QED
  BY <1>4, <1>5

\* Opening a view, and going back from one.
LEMMA OpenViewStep ==
  ASSUME IInv, NEW w \in Word, OpenView(w)
  PROVE  IInv'
<1>1. Idle /\ UNCHANGED <<up, words, disk, todo, wrong>>
  BY DEF OpenView
<1>2. views' \in Seq(View) /\ Len(views') <= MaxViews
  <2>1. Copy(w) \in View /\ views \in Seq(View) /\ Len(views) < MaxViews
    BY CopyFacts DEF OpenView, IInv, TypeOK
  <2>2. views' = Append(views, Copy(w))
    BY DEF OpenView
  <2> QED
    BY <2>1, <2>2, ListAssumption
<1> QED
  BY <1>1, <1>2, ViewsStep

LEMMA BackStep ==
  ASSUME IInv, Back \/ Leave
  PROVE  IInv'
<1>1. Idle /\ UNCHANGED <<up, words, disk, todo, wrong>>
  BY DEF Back, Leave
<1>2. views \in Seq(View) /\ Len(views) <= MaxViews /\ views # <<>>
  BY DEF IInv, TypeOK, Back, Leave
<1>3. CASE Back
  <2>1. views' = SubSeq(views, 1, Len(views) - 1)
    BY <1>3 DEF Back
  <2>2. views' \in Seq(View) /\ Len(views') <= MaxViews
    BY <1>2, <2>1, ListAssumption
  <2> QED
    BY <1>1, <2>2, ViewsStep
<1>4. CASE Leave
  <2>1. views' = <<>>
    BY <1>4 DEF Leave
  <2>2. views' \in Seq(View) /\ Len(views') <= MaxViews
    BY <2>1, ListAssumption
  <2> QED
    BY <1>1, <2>2, ViewsStep
<1> QED
  BY <1>3, <1>4

\* The suggested words are not flagged and are added one by one.
LEMMA AddSuggestedStep ==
  ASSUME IInv, NEW q \in Picks, AddSuggested(q)
  PROVE  IInv'
<1> DEFINE adds == [i \in DOMAIN q |-> AddWord(q[i], FALSE, FALSE)]
<1>1. PICK n \in Nat : q \in [1 .. n -> {w \in Word : Suggested(w)}]
  BY DEF Picks
<1>2. /\ \A i \in 1 .. n : q[i] \in Word /\ ~store[q[i]].listed
      /\ \A i, j \in 1 .. n : q[i] = q[j] => i = j
      /\ DOMAIN q = 1 .. n
  BY <1>1 DEF Picks, Suggested
<1>3. adds \in Seq(Step) /\ Len(adds) = n /\ \A i \in 1 .. n : adds[i] = AddWord(q[i], FALSE, FALSE)
  <2>1. \A i \in 1 .. n : AddWord(q[i], FALSE, FALSE) \in Step
    BY <1>2, StepForms
  <2>2. adds \in [1 .. n -> Step] /\ \A i \in 1 .. n : adds[i] = AddWord(q[i], FALSE, FALSE)
    BY <1>2, <2>1
  <2> HIDE DEF adds
  <2>3. adds \in Seq(Step) /\ Len(adds) = n
    BY <2>2
  <2> QED
    BY <2>2, <2>3
<1>4. todo' = Append(adds, SaveWords)
  BY DEF AddSuggested
<1> HIDE DEF adds
<1>5. /\ todo' \in Seq(Step) /\ Len(todo') = n + 1 /\ DOMAIN todo' = 1 .. n + 1
      /\ todo'[n + 1] = SaveWords /\ \A i \in 1 .. n : todo'[i] = AddWord(q[i], FALSE, FALSE)
  <2>1. SaveWords \in Step
    BY StepForms
  <2>2. /\ Append(adds, SaveWords) \in Seq(Step) /\ Len(Append(adds, SaveWords)) = n + 1
        /\ DOMAIN Append(adds, SaveWords) = 1 .. n + 1
        /\ Append(adds, SaveWords)[n + 1] = SaveWords
        /\ \A i \in 1 .. n : Append(adds, SaveWords)[i] = adds[i]
    BY <1>3, <2>1
  <2> QED
    BY <1>3, <1>4, <2>2
<1>6. \A i \in 1 .. n : /\ todo'[i].do = "add" /\ todo'[i].word = q[i]
                        /\ ~todo'[i].inView
  <2> TAKE i \in 1 .. n
  <2>1. todo'[i] = AddWord(q[i], FALSE, FALSE) /\ q[i] \in Word
    BY <1>2, <1>5
  <2>2. /\ AddWord(q[i], FALSE, FALSE).do = "add" /\ AddWord(q[i], FALSE, FALSE).word = q[i]
        /\ ~AddWord(q[i], FALSE, FALSE).inView
    BY DEF AddWord
  <2> QED
    BY <2>1, <2>2
<1>7. todo'[n + 1].do = "save" /\ \A i \in DOMAIN todo' : i \in 1 .. n \/ i = n + 1
  BY <1>5, StepForms
<1>8. Shaped(todo') /\ NoState(todo') /\ todo' # <<>>
  BY <1>5, <1>6, <1>7 DEF Shaped, NoState
<1>9. UNCHANGED <<up, words, disk, views, wrong>> /\ Idle
  BY DEF AddSuggested
<1>10. AddsOfUnlisted' /\ ListedIsFlagged'
  <2>1. AddsOfUnlisted'
    BY <1>2, <1>6, <1>7, <1>9 DEF AddsOfUnlisted, disk
  <2> QED
    BY <2>1, <1>9 DEF IInv, ListedIsFlagged, disk
<1>11. \A i \in DOMAIN todo' : ~(todo'[i].do = "add" /\ todo'[i].inView)
  BY <1>6, <1>7
<1> QED
  BY <1>5, <1>8, <1>9, <1>10, <1>11, HandlerStep DEF IInv, TypeOK, disk

\* The mark of a submitted word changes neither the slots nor their words.
LEMMA SetWasLearnedStep ==
  ASSUME IInv, NEW r \in Ref, SetWasLearned(r)
  PROVE  IInv'
<1>1. /\ Idle /\ UNCHANGED <<up, snapshot, states, todo, views>>
      /\ r \in Used(words) /\ words[r] \in Entry /\ words[r].word \in Word
      /\ StoreSave(words[r].word, TRUE, TRUE)
  BY TableFacts DEF SetWasLearned, IInv, TypeOK
<1>2. /\ words' \in Table /\ Used(words') = Used(words)
      /\ \A s \in Used(words) : words'[s].word = words[s].word
  <2>1. PICK e \in Entry : words' = [words EXCEPT ![r] = e] /\ e.word = words[r].word
    <3>1. [words[r] EXCEPT !.learned = TRUE] \in Entry
      BY <1>1 DEF Entry
    <3>2. [words[r] EXCEPT !.learned = TRUE].word = words[r].word
      BY <1>1 DEF Entry
    <3> QED
      BY <3>1, <3>2 DEF SetWasLearned
  <2>2. words \in Table
    BY DEF IInv, TypeOK
  <2>3. words' \in Table
    BY <2>1, <2>2 DEF Table
  <2>4. words'[r] = e /\ \A s \in Ref \ {r} : words'[s] = words[s]
    BY <2>1, <2>2 DEF Table
  <2>5. Used(words') = Used(words)
    BY <1>1, <2>4, ListAssumption DEF Used
  <2>6. \A s \in Used(words) : words'[s].word = words[s].word
    BY <2>1, <2>4 DEF Used
  <2> QED
    BY <2>3, <2>5, <2>6
<1>3. /\ store' \in [Word -> [there : BOOLEAN, listed : BOOLEAN, learned : BOOLEAN]]
      /\ wrong' \subseteq {"flags", "file", "read"} /\ ("file" \in wrong <=> "file" \in wrong')
      /\ "flags" \notin wrong' =>
           /\ "flags" \notin wrong /\ store'[words[r].word].listed
           /\ \A v \in Word \ {words[r].word} : store'[v] = store[v]
  BY <1>1, StoreFacts DEF IInv
<1>4. TypeOK'
  BY <1>1, <1>2, <1>3 DEF IInv, TypeOK, Idle
<1>5. DownIsEmpty' /\ Shaped(todo)' /\ AddsOfUnlisted' /\ SnapshotIsFlagged'
  BY <1>1 DEF IInv, Idle, DownIsEmpty, Shaped, AddsOfUnlisted, SnapshotIsFlagged
<1>6. ListedHasState' /\ SnapshotHasStates' /\ SnapshotCurrent'
  BY <1>1, <1>2, <1>3 DEF IInv, Idle, ListedHasState, SnapshotHasStates, SnapshotCurrent
<1>7. ListedIsFlagged'
  <2> SUFFICES ASSUME "flags" \notin wrong', NEW s \in Used(words')
               PROVE  store'[words'[s].word].listed
    BY DEF ListedIsFlagged, Listed
  <2>1. s \in Used(words) /\ words'[s].word = words[s].word /\ words[s].word \in Word
    BY <1>2, TableFacts DEF IInv, TypeOK
  <2>2. store[words[s].word].listed
    BY <1>3, <2>1 DEF IInv, ListedIsFlagged, Listed
  <2> QED
    BY <1>3, <2>1, <2>2
<1> QED
  BY <1>4, <1>5, <1>6, <1>7 DEF IInv

LEMMA ReviewRemoveStep ==
  ASSUME IInv, NEW r \in Ref, ReviewRemove(r)
  PROVE  IInv'
<1>1. Idle /\ UNCHANGED <<up, disk, views, wrong>> /\ todo' = <<SaveWords>>
  BY DEF ReviewRemove
<1>2. /\ words' \in Table
      /\ \A s \in Used(words') : s \in Used(words) /\ words'[s] = words[s]
  BY RemoveFacts DEF ReviewRemove, IInv, TypeOK
<1>3. /\ todo' \in Seq(Step) /\ todo' # <<>> /\ Shaped(todo') /\ \A i \in DOMAIN todo' : todo'[i].do = "save"
  BY <1>1, OneSave
<1>4. NoState(todo') /\ AddsOfUnlisted' /\ ListedIsFlagged'
  BY <1>1, <1>2, <1>3 DEF IInv, NoState, AddsOfUnlisted, ListedIsFlagged, Listed, disk
<1> QED
  BY <1>1, <1>2, <1>3, <1>4, HandlerStep DEF IInv, TypeOK, disk

-----------------------------------------------------------------------------
(* The steps of a handler, and the process.                                  *)

\* A handler goes on with one step less: what its types and its adds need is
\* kept by any step that leaves the dictionary's flags of other words alone.
LEMMA RestTypeOK ==
  ASSUME IInv, todo # <<>>, todo' = Tail(todo), up' = up,
         words' \in Table, snapshot' \in Table \cup {Torn}, states' \subseteq Word,
         store' \in [Word -> [there : BOOLEAN, listed : BOOLEAN, learned : BOOLEAN]],
         views' \in Seq(View), Len(views') <= MaxViews, views # <<>> => views' # <<>>,
         wrong' \subseteq {"flags", "file", "read"}
  PROVE  TypeOK' /\ Shaped(todo)' /\ NoState(todo')
<1>1. /\ todo' \in Seq(Step) /\ Shaped(todo') /\ NoState(todo')
      /\ \A i \in DOMAIN todo' : i + 1 \in DOMAIN todo /\ todo'[i] = todo[i + 1]
  BY TailFacts DEF IInv, TypeOK
<1>2. \A i \in DOMAIN todo' : /\ todo'[i].do # "state"
                              /\ todo'[i].do # "save" /\ todo'[i].inView => views' # <<>>
  BY <1>1 DEF NoState, IInv, TypeOK
<1>3. TypeOK'
  BY <1>1, <1>2 DEF IInv, TypeOK
<1> QED
  BY <1>1, <1>3

LEMMA RestAdds ==
  ASSUME IInv, todo # <<>>, todo' = Tail(todo),
         "flags" \notin wrong' => "flags" \notin wrong,
         "flags" \notin wrong' => \A w \in Word : store'[w].listed => store[w].listed
  PROVE  AddsOfUnlisted'
<1>1. /\ Tail(todo) \in Seq(Step)
      /\ \A i \in DOMAIN todo' : i + 1 \in DOMAIN todo /\ todo'[i] = todo[i + 1] /\ todo[i + 1] \in Step
  BY TailFacts DEF IInv, TypeOK
<1> SUFFICES ASSUME "flags" \notin wrong', NEW i \in DOMAIN todo',
                    todo'[i].do = "add", ~todo'[i].inView
             PROVE  /\ ~store'[todo'[i].word].listed
                    /\ \A j \in DOMAIN todo' :
                         todo'[j].do = "add" /\ todo'[j].word = todo'[i].word => i = j
  BY DEF AddsOfUnlisted
<1>2. i + 1 \in DOMAIN todo /\ todo'[i] = todo[i + 1] /\ todo[i + 1].word \in Word
  BY <1>1, StepForms
<1>3. /\ ~store[todo[i + 1].word].listed
      /\ \A j \in DOMAIN todo : todo[j].do = "add" /\ todo[j].word = todo[i + 1].word => i + 1 = j
  BY <1>2 DEF IInv, AddsOfUnlisted
<1>4. ASSUME NEW j \in DOMAIN todo', todo'[j].do = "add", todo'[j].word = todo'[i].word
      PROVE  i = j
  <2>1. i + 1 = j + 1
    BY <1>1, <1>2, <1>3, <1>4
  <2>2. i \in Int /\ j \in Int
    BY <1>1
  <2> QED
    BY <2>1, <2>2
<1> QED
  BY <1>2, <1>3, <1>4

\* The handler goes on and changes neither list nor dictionary.
LEMMA RestStep ==
  ASSUME IInv, todo # <<>>, todo' = Tail(todo), UNCHANGED <<up, words, store, views>>,
         snapshot' \in Table \cup {Torn}, states' \subseteq Word,
         wrong' \subseteq {"flags", "file", "read"}, "flags" \in wrong <=> "flags" \in wrong',
         ListedHasState', SnapshotHasStates', SnapshotCurrent'
  PROVE  IInv'
<1>1. TypeOK' /\ Shaped(todo)'
  BY RestTypeOK DEF IInv, TypeOK
<1>2. AddsOfUnlisted'
  BY RestAdds
<1>3. up
  BY DEF IInv, DownIsEmpty
<1>4. DownIsEmpty' /\ ListedIsFlagged' /\ SnapshotIsFlagged'
  BY <1>3 DEF IInv, DownIsEmpty, ListedIsFlagged, SnapshotIsFlagged
<1> QED
  BY <1>1, <1>2, <1>4 DEF IInv

LEMMA NoSlotStep ==
  ASSUME IInv, NoSlot
  PROVE  IInv'
<1>1. /\ todo # <<>> /\ todo' = Tail(todo) /\ Head(todo).do # "save" /\ Head(todo).do # "state"
      /\ UNCHANGED <<up, words, disk, views, wrong>>
  BY DEF NoSlot, At
<1>2. NoState(todo) /\ todo' # <<>>
  BY <1>1, TailFacts DEF IInv, TypeOK
<1>3. ListedHasState' /\ SnapshotHasStates' /\ SnapshotCurrent'
  BY <1>1, <1>2 DEF IInv, ListedHasState, SnapshotHasStates, SnapshotCurrent, NoState, Idle, disk
<1> QED
  BY <1>1, <1>3, RestStep DEF IInv, TypeOK, disk

LEMMA MakeStateStep ==
  ASSUME IInv, MakeState
  PROVE  IInv'
<1>1. /\ todo # <<>> /\ todo' = Tail(todo) /\ Head(todo).do = "state"
      /\ states' = states \cup {words[Head(todo).ref].word}
      /\ UNCHANGED <<up, words, store, snapshot, views, wrong>>
  BY DEF MakeState, At
<1>2. Head(todo) = todo[1] /\ 1 \in DOMAIN todo /\ todo' # <<>>
  BY <1>1, TailFacts DEF IInv, TypeOK
<1>3. words[Head(todo).ref].word \in Word
  BY <1>1, <1>2, TableFacts DEF IInv, TypeOK
<1>4. ListedHasState'
  <2> SUFFICES ASSUME NEW r \in Used(words), words[r].word \notin states
               PROVE  words[r].word \in states'
    BY <1>1 DEF ListedHasState
  <2>1. PICK i \in DOMAIN todo : todo[i].do = "state" /\ todo[i].ref = r
    BY DEF IInv, ListedHasState
  <2>2. i = 1
    BY <2>1 DEF IInv, Shaped
  <2> QED
    BY <1>1, <1>2, <2>1, <2>2
<1>5. SnapshotHasStates' /\ SnapshotCurrent'
  BY <1>1, <1>2 DEF IInv, SnapshotHasStates, SnapshotCurrent, Idle
<1> QED
  BY <1>1, <1>3, <1>4, <1>5, RestStep DEF IInv, TypeOK

LEMMA SaveStep ==
  ASSUME IInv, Save \/ SaveFails
  PROVE  IInv'
<1>1. /\ up /\ todo # <<>> /\ todo' = Tail(todo) /\ Head(todo).do = "save"
      /\ UNCHANGED <<up, words, store, states, views>>
  BY DEF Save, SaveFails, At
<1>2. NoState(todo)
  BY <1>1, TailFacts DEF IInv, TypeOK
<1>3. \A r \in Used(words) : words[r].word \in states
  BY <1>2 DEF IInv, ListedHasState, NoState
<1>4. ListedHasState'
  BY <1>1, <1>3 DEF ListedHasState
<1>5. words \in Table /\ words # Torn /\ snapshot \in Table \cup {Torn}
  BY ListAssumption DEF IInv, TypeOK
<1>6. CASE Save
  <2>1. snapshot' = words /\ wrong' = wrong \ {"file"}
    BY <1>6 DEF Save
  <2>2. SnapshotHasStates' /\ SnapshotCurrent'
    BY <1>1, <1>3, <1>5, <2>1 DEF SnapshotHasStates, SnapshotCurrent, Listed
  <2> QED
    BY <1>1, <1>4, <1>5, <2>1, <2>2, RestStep DEF IInv, TypeOK
<1>7. CASE SaveFails
  <2>1. snapshot' \in {snapshot, Torn} /\ wrong' = wrong \cup {"file"}
    BY <1>7 DEF SaveFails
  <2>2. SnapshotHasStates' /\ SnapshotCurrent'
    BY <1>1, <2>1 DEF IInv, SnapshotHasStates, SnapshotCurrent
  <2> QED
    BY <1>1, <1>4, <1>5, <2>1, <2>2, RestStep DEF IInv, TypeOK
<1> QED
  BY <1>6, <1>7

LEMMA AddToSlotStep ==
  ASSUME IInv, AddToSlot
  PROVE  IInv'
<1> DEFINE h == Head(todo)
<1>1. /\ up /\ todo # <<>> /\ h.do = "add" /\ UNCHANGED <<up, snapshot, states, views>>
      /\ StoreSave(h.word, TRUE, h.learned)
  BY DEF AddToSlot, At
<1>2. /\ h \in Step /\ h = todo[1] /\ 1 \in DOMAIN todo /\ NoState(todo)
      /\ Tail(todo) \in Seq(Step) /\ Tail(todo) # <<>> /\ Shaped(Tail(todo)) /\ NoState(Tail(todo))
      /\ \A i \in DOMAIN Tail(todo) : i + 1 \in DOMAIN todo /\ Tail(todo)[i] = todo[i + 1]
  BY <1>1, TailFacts DEF IInv, TypeOK
<1>3. h.word \in Word /\ h.learned \in BOOLEAN /\ h.inView \in BOOLEAN /\ (h.inView => views # <<>>)
  BY <1>1, <1>2, StepForms DEF IInv, TypeOK
<1>4. PICK r \in Ref :
        /\ r \notin Used(words)
        /\ words' = [words EXCEPT ![r] = [word |-> h.word, learned |-> h.learned]]
        /\ todo' = StateFirst(Tail(todo), [do |-> "state", ref |-> r, inView |-> h.inView])
  BY DEF AddToSlot, FirstUnused
<1> HIDE DEF h
<1>5. /\ words' \in Table /\ Used(words') = Used(words) \cup {r} /\ words'[r].word = h.word
      /\ \A s \in Used(words) : words'[s] = words[s]
  <2>1. PICK e \in Entry : words' = [words EXCEPT ![r] = e] /\ e.word = h.word
    <3>1. [word |-> h.word, learned |-> h.learned] \in Entry
      BY <1>3 DEF Entry
    <3>2. [word |-> h.word, learned |-> h.learned].word = h.word
      OBVIOUS
    <3> QED
      BY <1>4, <3>1, <3>2
  <2>2. words \in Table
    BY DEF IInv, TypeOK
  <2>3. words' \in Table
    BY <2>1, <2>2 DEF Table
  <2>4. words'[r] = e /\ \A s \in Ref \ {r} : words'[s] = words[s]
    BY <2>1, <2>2 DEF Table
  <2>5. Used(words') = Used(words) \cup {r}
    BY <2>1, <2>4, ListAssumption DEF Used
  <2>6. \A s \in Used(words) : words'[s] = words[s]
    BY <1>4, <2>4 DEF Used
  <2> QED
    BY <2>1, <2>3, <2>4, <2>5, <2>6
<1>6. /\ todo' \in Seq(Step) /\ todo' # <<>> /\ Shaped(todo') /\ 1 \in DOMAIN todo'
      /\ todo'[1].do = "state" /\ todo'[1].ref = r /\ todo'[1].inView = h.inView
      /\ \A i \in DOMAIN todo' : i # 1 => i - 1 \in DOMAIN Tail(todo) /\ todo'[i] = Tail(todo)[i - 1]
  <2>1. PICK s \in Step : /\ s.do = "state" /\ s.ref = r /\ s.inView = h.inView
                          /\ todo' = StateFirst(Tail(todo), s)
    <3> DEFINE s == [do |-> "state", ref |-> r, inView |-> h.inView]
    <3>1. s \in Step
      BY <1>3, StepForms
    <3>2. s.do = "state" /\ s.ref = r /\ s.inView = h.inView
      OBVIOUS
    <3> QED
      BY <1>4, <3>1, <3>2
  <2> QED
    BY <1>2, <2>1, StateFirstFacts
<1>7. \A i \in DOMAIN todo' : i # 1 => /\ i \in DOMAIN todo /\ todo'[i] = todo[i]
                                       /\ todo[i] \in Step /\ todo[i].do # "state"
  <2> TAKE i \in DOMAIN todo'
  <2> HAVE i # 1
  <2>1. i - 1 \in DOMAIN Tail(todo) /\ todo'[i] = Tail(todo)[i - 1] /\ i \in Int
    BY <1>6
  <2>2. i \in DOMAIN todo /\ Tail(todo)[i - 1] = todo[i]
    BY <1>2, <2>1
  <2> QED
    BY <1>2, <2>1, <2>2 DEF NoState, IInv, TypeOK
<1>8. /\ store' \in [Word -> [there : BOOLEAN, listed : BOOLEAN, learned : BOOLEAN]]
      /\ wrong' \subseteq {"flags", "file", "read"}
      /\ "flags" \notin wrong' =>
           /\ "flags" \notin wrong /\ store'[h.word].listed
           /\ \A v \in Word \ {h.word} : store'[v] = store[v]
  BY <1>1, <1>3, StoreFacts DEF IInv
<1>9. TypeOK'
  <2>1. \A i \in DOMAIN todo' : /\ todo'[i].do = "state" => todo'[i].ref \in Used(words')
                                /\ todo'[i].do # "save" /\ todo'[i].inView => views # <<>>
    <3> TAKE i \in DOMAIN todo'
    <3>1. CASE i = 1
      BY <1>3, <1>5, <1>6, <3>1
    <3>2. CASE i # 1
      BY <1>7, <3>2 DEF IInv, TypeOK
    <3> QED
      BY <3>1, <3>2
  <2> QED
    BY <1>1, <1>5, <1>6, <1>8, <2>1 DEF IInv, TypeOK
<1>10. ListedHasState'
  <2>1. \A s \in Used(words) : words[s].word \in states
    BY <1>2 DEF IInv, ListedHasState, NoState
  <2> QED
    BY <1>1, <1>5, <1>6, <2>1 DEF ListedHasState
<1>11. DownIsEmpty' /\ SnapshotHasStates' /\ SnapshotCurrent' /\ SnapshotIsFlagged'
  BY <1>1, <1>6 DEF IInv, DownIsEmpty, SnapshotHasStates, SnapshotCurrent, SnapshotIsFlagged, Idle
<1>12. ListedIsFlagged'
  <2> SUFFICES ASSUME "flags" \notin wrong', NEW s \in Used(words')
               PROVE  store'[words'[s].word].listed
    BY DEF ListedIsFlagged, Listed
  <2>1. CASE s = r
    BY <1>5, <1>8, <2>1
  <2>2. CASE s # r
    <3>1. s \in Used(words) /\ words'[s] = words[s] /\ words[s].word \in Word
      BY <1>5, <2>2, TableFacts DEF IInv, TypeOK
    <3>2. store[words[s].word].listed
      BY <1>8, <3>1 DEF IInv, ListedIsFlagged, Listed
    <3> QED
      BY <1>8, <3>1, <3>2
  <2> QED
    BY <2>1, <2>2
<1>13. AddsOfUnlisted'
  <2> SUFFICES ASSUME "flags" \notin wrong', NEW i \in DOMAIN todo',
                      todo'[i].do = "add", ~todo'[i].inView
               PROVE  /\ ~store'[todo'[i].word].listed
                      /\ \A j \in DOMAIN todo' :
                           todo'[j].do = "add" /\ todo'[j].word = todo'[i].word => i = j
    BY DEF AddsOfUnlisted
  <2>1. i # 1 /\ i \in DOMAIN todo /\ todo'[i] = todo[i] /\ todo[i].word \in Word
    BY <1>6, <1>7, StepForms
  <2>2. /\ ~store[todo[i].word].listed
        /\ \A j \in DOMAIN todo : todo[j].do = "add" /\ todo[j].word = todo[i].word => i = j
    BY <1>8, <2>1 DEF IInv, AddsOfUnlisted
  <2>3. todo[i].word # h.word
    BY <1>1, <1>2, <2>1, <2>2 DEF h
  <2>4. \A j \in DOMAIN todo' : todo'[j].do = "add" => j \in DOMAIN todo /\ todo'[j] = todo[j]
    BY <1>6, <1>7
  <2> QED
    BY <1>8, <2>1, <2>2, <2>3, <2>4
<1> QED
  BY <1>6, <1>9, <1>10, <1>11, <1>12, <1>13 DEF IInv

\* rollback_added_word: the slot is free again, and no other had the word when
\* the flag is taken back without a loss.
LEMMA MakeStateFailsStep ==
  ASSUME IInv, MakeStateFails
  PROVE  IInv'
<1> DEFINE r == Head(todo).ref
           w == words[r].word
<1>1. /\ up /\ todo # <<>> /\ Head(todo).do = "state" /\ todo' = Tail(todo)
      /\ UNCHANGED <<up, snapshot, states>> /\ words' = [words EXCEPT ![r] = Free]
  BY DEF MakeStateFails, At, SlotFreed
<1>2. Head(todo) \in Step /\ Head(todo) = todo[1] /\ 1 \in DOMAIN todo /\ todo' # <<>>
  BY <1>1, TailFacts DEF IInv, TypeOK
<1>3. r \in Used(words) /\ r \in Ref /\ words[r] \in Entry /\ w \in Word /\ words[r].learned \in BOOLEAN
  BY <1>1, <1>2, TableFacts DEF IInv, TypeOK
<1>4. /\ store' \in [Word -> [there : BOOLEAN, listed : BOOLEAN, learned : BOOLEAN]]
      /\ \A v \in Word \ {w} : store'[v] = store[v]
      /\ \A v \in Word : store'[v].listed => store[v].listed
      /\ wrong' \subseteq {"flags", "file", "read"}
      /\ "flags" \notin wrong' => "flags" \notin wrong /\ RefsOf(words, w) = {r}
  <2>1. /\ store' \in {store, [store EXCEPT ![w].listed = FALSE, ![w].learned = words[r].learned]}
        /\ wrong' = IF store' = store \/ RefsOf(words, w) # {r} THEN wrong \cup {"flags"} ELSE wrong
    BY DEF MakeStateFails
  <2>2. store \in [Word -> [there : BOOLEAN, listed : BOOLEAN, learned : BOOLEAN]]
        /\ wrong \subseteq {"flags", "file", "read"}
    BY DEF IInv, TypeOK
  <2> HIDE DEF r, w
  <2>3. wrong' \subseteq {"flags", "file", "read"}
    BY <2>1, <2>2
  <2>4. "flags" \notin wrong' => "flags" \notin wrong /\ RefsOf(words, w) = {r}
    BY <2>1
  <2>5. CASE store' = store
    BY <2>2, <2>3, <2>4, <2>5
  <2>6. CASE store' = [store EXCEPT ![w].listed = FALSE, ![w].learned = words[r].learned]
    <3>1. store' \in [Word -> [there : BOOLEAN, listed : BOOLEAN, learned : BOOLEAN]]
      BY <1>3, <2>2, <2>6
    <3>2. \A v \in Word \ {w} : store'[v] = store[v]
      BY <2>2, <2>6
    <3>3. ~store'[w].listed
      BY <1>3, <2>2, <2>6
    <3> QED
      BY <2>3, <2>4, <3>1, <3>2, <3>3
  <2> QED
    BY <2>1, <2>5, <2>6
<1>5. views' \in Seq(View) /\ Len(views') <= MaxViews /\ (views # <<>> => views' # <<>>)
  <2>1. views \in Seq(View) /\ Len(views) <= MaxViews
    BY DEF IInv, TypeOK
  <2>2. CASE Head(todo).inView
    <3>1. views # <<>> /\ views' = [views EXCEPT ![Len(views)].listed = FALSE]
      BY <1>1, <1>2, <2>2 DEF IInv, TypeOK, MakeStateFails
    <3>2. PICK v \in View : views' = [views EXCEPT ![Len(views)] = v]
      <4>1. views[Len(views)] \in View
        BY <2>1, <3>1
      <4>2. [views[Len(views)] EXCEPT !.listed = FALSE] \in View
        BY <4>1 DEF View
      <4> QED
        BY <3>1, <4>2
    <3>3. Len(views) \in 1 .. Len(views) /\ Len(views) \in Nat
      BY <2>1, <3>1
    <3>4. views' \in Seq(View) /\ Len(views') = Len(views)
      BY <2>1, <3>2, <3>3
    <3> QED
      BY <2>1, <3>3, <3>4
  <2>3. CASE ~Head(todo).inView
    <3>1. views' = views
      BY <2>3 DEF MakeStateFails
    <3> QED
      BY <2>1, <3>1
  <2> QED
    BY <2>2, <2>3
<1>6. /\ words' \in Table /\ Used(words') = Used(words) \ {r}
      /\ \A s \in Used(words') : words'[s] = words[s]
  <2>1. words \in Table
    BY DEF IInv, TypeOK
  <2> HIDE DEF r
  <2>2. words' \in Table
    BY <1>1, <1>3, <2>1 DEF Table
  <2>3. words'[r] = Free /\ \A s \in Ref \ {r} : words'[s] = words[s]
    BY <1>1, <1>3, <2>1 DEF Table
  <2>4. Used(words') = Used(words) \ {r}
    BY <2>3 DEF Used
  <2>5. \A s \in Used(words') : words'[s] = words[s]
    BY <2>3, <2>4 DEF Used
  <2> QED
    BY <2>2, <2>4, <2>5
<1> HIDE DEF w
<1>7. TypeOK' /\ Shaped(todo)'
  BY <1>1, <1>4, <1>5, <1>6, RestTypeOK DEF IInv, TypeOK
<1>8. AddsOfUnlisted'
  BY <1>1, <1>4, RestAdds
<1>9. ListedHasState'
  <2>0. /\ states' = states
        /\ \A s \in Used(words') : words'[s] = words[s] /\ s \in Used(words) \ {r}
    BY <1>1, <1>6
  <2> SUFFICES ASSUME NEW s \in Used(words'), words[s].word \notin states
               PROVE  FALSE
    BY <2>0 DEF ListedHasState
  <2>1. PICK i \in DOMAIN todo : todo[i].do = "state" /\ todo[i].ref = s
    BY <1>6 DEF IInv, ListedHasState
  <2>2. i = 1
    BY <2>1 DEF IInv, Shaped
  <2> QED
    BY <1>2, <1>6, <2>1, <2>2
<1>10. DownIsEmpty' /\ SnapshotHasStates' /\ SnapshotCurrent' /\ SnapshotIsFlagged'
  BY <1>1, <1>2 DEF IInv, DownIsEmpty, SnapshotHasStates, SnapshotCurrent, SnapshotIsFlagged, Idle
<1>11. ListedIsFlagged'
  <2> SUFFICES ASSUME "flags" \notin wrong', NEW s \in Used(words')
               PROVE  store'[words'[s].word].listed
    BY DEF ListedIsFlagged, Listed
  <2>1. s \in Used(words) /\ s # r /\ words'[s] = words[s] /\ words[s].word \in Word
    BY <1>6, TableFacts DEF IInv, TypeOK
  <2>2. store[words[s].word].listed /\ words[s].word # w
    BY <1>4, <2>1 DEF IInv, ListedIsFlagged, Listed, RefsOf
  <2> QED
    BY <1>4, <2>1, <2>2
<1> QED
  BY <1>7, <1>8, <1>9, <1>10, <1>11 DEF IInv

-----------------------------------------------------------------------------
(* The process ends and starts again.                                        *)

\* A process that ends leaves the snapshot as it was, or torn; where nothing
\* was under way and no write was lost the snapshot is the list.
LEMMA ExitStep ==
  ASSUME IInv, Exit
  PROVE  IInv'
<1>1. /\ up /\ up' = FALSE /\ words' = NoWords /\ todo' = <<>> /\ views' = <<>>
      /\ snapshot' \in {snapshot, Torn} /\ UNCHANGED <<store, states>>
      /\ wrong' = IF todo # <<>> \/ "file" \in wrong THEN wrong \cup {"flags"} ELSE wrong
  BY DEF Exit
<1>2. words' \in Table /\ Used(words') = {} /\ DOMAIN todo' = {}
  BY <1>1, TableFacts
<1>3. TypeOK'
  <2>1. todo' \in Seq(Step) /\ views' \in Seq(View) /\ Len(views') <= MaxViews
    BY <1>1, ListAssumption
  <2> QED
    BY <1>1, <1>2, <2>1 DEF IInv, TypeOK
<1>4. DownIsEmpty' /\ Shaped(todo)' /\ SnapshotCurrent' /\ AddsOfUnlisted'
  BY <1>1, <1>2 DEF DownIsEmpty, Shaped, SnapshotCurrent, AddsOfUnlisted, Idle
<1>5. ListedHasState' /\ ListedIsFlagged'
  BY <1>2 DEF ListedHasState, ListedIsFlagged, Listed
<1>6. SnapshotHasStates'
  BY <1>1 DEF IInv, SnapshotHasStates
<1>7. SnapshotIsFlagged'
  <2> SUFFICES ASSUME "flags" \notin wrong', snapshot' # Torn, NEW r \in Used(snapshot')
               PROVE  store'[snapshot'[r].word].listed
    BY DEF SnapshotIsFlagged
  <2>1. snapshot' = snapshot /\ Idle /\ "file" \notin wrong /\ "flags" \notin wrong
    BY <1>1 DEF Idle
  <2>2. r \in Used(words) /\ snapshot[r].word = words[r].word
    BY <2>1 DEF IInv, SnapshotCurrent
  <2> QED
    BY <1>1, <2>1, <2>2 DEF IInv, ListedIsFlagged, Listed
<1> QED
  BY <1>3, <1>4, <1>5, <1>6, <1>7 DEF IInv

\* A new dictionary has no flags; the list is not loaded while it is put in
\* place.
LEMMA UpdateStep ==
  ASSUME IInv, Update
  PROVE  IInv'
<1>1. ~up /\ "flags" \in wrong' /\ UNCHANGED <<up, words, snapshot, states, todo, views>>
  BY DEF Update
<1>2. TypeOK'
  <2>1. store' \in [Word -> [there : BOOLEAN, listed : BOOLEAN, learned : BOOLEAN]]
    BY DEF Update, Fresh, Absent
  <2>2. wrong' \subseteq {"flags", "file", "read"}
    BY DEF Update, IInv, TypeOK
  <2> QED
    BY <1>1, <2>1, <2>2 DEF IInv, TypeOK
<1>3. DownIsEmpty' /\ Shaped(todo)' /\ ListedHasState' /\ SnapshotHasStates' /\ SnapshotCurrent'
  BY <1>1 DEF IInv, DownIsEmpty, Shaped, ListedHasState, SnapshotHasStates, SnapshotCurrent, Idle
<1>4. ListedIsFlagged' /\ SnapshotIsFlagged' /\ AddsOfUnlisted'
  BY <1>1 DEF ListedIsFlagged, SnapshotIsFlagged, AddsOfUnlisted
<1> QED
  BY <1>2, <1>3, <1>4 DEF IInv

\* Both outcomes of init_runtime_data load words of the snapshot, whose states
\* and flags outlived the process.
LEMMA LoadStep ==
  ASSUME IInv, ~up, up' = TRUE, NEW found \in SUBSET Known, words' = Kept(found),
         UNCHANGED <<store, todo, views>>, states \subseteq states', states' \subseteq Word,
         snapshot' \in Table \cup {Torn}, wrong' \subseteq {"flags", "file", "read"},
         "flags" \in wrong => "flags" \in wrong',
         SnapshotHasStates', SnapshotCurrent'
  PROVE  IInv'
<1>1. /\ words' \in Table /\ Used(words') = found
      /\ found # {} => snapshot # Torn
      /\ \A r \in found : r \in Used(snapshot) /\ words'[r] = snapshot[r]
  BY KeptFacts DEF IInv
<1>2. todo = <<>> /\ DOMAIN todo' = {}
  BY DEF IInv, DownIsEmpty
<1>3. TypeOK'
  BY <1>1, <1>2 DEF IInv, TypeOK
<1>4. DownIsEmpty' /\ Shaped(todo)' /\ SnapshotIsFlagged' /\ AddsOfUnlisted'
  BY <1>2 DEF DownIsEmpty, Shaped, SnapshotIsFlagged, AddsOfUnlisted
<1>5. ListedHasState'
  <2> SUFFICES ASSUME NEW r \in found PROVE words'[r].word \in states'
    BY <1>1 DEF ListedHasState
  <2> QED
    BY <1>1 DEF IInv, SnapshotHasStates, Listed
<1>6. ListedIsFlagged'
  <2> SUFFICES ASSUME "flags" \notin wrong', NEW r \in found
               PROVE  store'[words'[r].word].listed
    BY <1>1 DEF ListedIsFlagged, Listed
  <2> QED
    BY <1>1 DEF IInv, SnapshotIsFlagged
<1> QED
  BY <1>3, <1>4, <1>5, <1>6 DEF IInv

LEMMA InitRuntimeDataStep ==
  ASSUME IInv, InitRuntimeData
  PROVE  IInv'
<1>1. PICK found \in SUBSET Known : /\ words' = Kept(found)
                                    /\ wrong' = (wrong \ {"file"}) \cup Unread(found)
  BY DEF InitRuntimeData
<1>2. /\ ~up /\ up' = TRUE /\ UNCHANGED <<store, todo, views>>
      /\ states' = states \cup Listed(words') /\ snapshot' = words'
  BY DEF InitRuntimeData
<1>3. words' \in Table /\ Listed(words') \subseteq Word
  BY <1>1, KeptFacts, TableFacts DEF IInv, Listed
<1>4. wrong' \subseteq {"flags", "file", "read"} /\ ("flags" \in wrong => "flags" \in wrong')
  BY <1>1 DEF Unread, IInv, TypeOK
<1>5. SnapshotHasStates' /\ SnapshotCurrent'
  BY <1>2, <1>3, ListAssumption DEF SnapshotHasStates, SnapshotCurrent
<1>6. states' \subseteq Word
  BY <1>2, <1>3 DEF IInv, TypeOK
<1> QED
  BY <1>1, <1>2, <1>3, <1>4, <1>5, <1>6, LoadStep

LEMMA InitRuntimeDataFailsStep ==
  ASSUME IInv, InitRuntimeDataFails
  PROVE  IInv'
<1>1. PICK found \in SUBSET Known :
        /\ words' = Kept(found)
        /\ wrong' = (IF snapshot = words' THEN wrong ELSE wrong \cup {"file"}) \cup Unread(found)
  BY DEF InitRuntimeDataFails
<1>2. /\ ~up /\ up' = TRUE /\ UNCHANGED <<store, todo, views>>
      /\ states \subseteq states' /\ states' \subseteq states \cup Listed(words')
      /\ snapshot' \in IF snapshot = words' THEN {snapshot}
                       ELSE {snapshot, IF snapshot = Torn THEN NoWords ELSE Torn}
  BY DEF InitRuntimeDataFails
<1>3. words' \in Table /\ Listed(words') \subseteq Word
  BY <1>1, KeptFacts, TableFacts DEF IInv, Listed
<1>4. wrong' \subseteq {"flags", "file", "read"} /\ ("flags" \in wrong => "flags" \in wrong')
  BY <1>1 DEF Unread, IInv, TypeOK
<1>5. snapshot' \in {snapshot, NoWords, Torn} /\ snapshot' \in Table \cup {Torn}
  BY <1>2, TableFacts DEF IInv, TypeOK
<1>6. SnapshotHasStates'
  <2>1. Listed(NoWords) = {}
    BY TableFacts DEF Listed
  <2> QED
    BY <1>2, <1>5, <2>1 DEF IInv, SnapshotHasStates
<1>7. SnapshotCurrent'
  <2> SUFFICES ASSUME "file" \notin wrong'
               PROVE  snapshot' = words'
    BY <1>3, ListAssumption DEF SnapshotCurrent
  <2> QED
    BY <1>1, <1>2
<1>8. states' \subseteq Word
  BY <1>2, <1>3 DEF IInv, TypeOK
<1> QED
  BY <1>1, <1>2, <1>4, <1>5, <1>6, <1>7, <1>8, LoadStep

LEMMA StutterStep ==
  ASSUME IInv, UNCHANGED vars
  PROVE  IInv'
<1>1. UNCHANGED <<up, words, store, snapshot, states, todo, views, wrong>>
  BY DEF vars, disk
<1> QED
  BY <1>1 DEF IInv, TypeOK, DownIsEmpty, Shaped, ListedHasState, SnapshotHasStates,
     SnapshotCurrent, ListedIsFlagged, SnapshotIsFlagged, AddsOfUnlisted, Idle

LEMMA NextIInv ==
  ASSUME IInv, [Next]_vars
  PROVE  IInv'
<1>1. CASE AddToSlot
  BY <1>1, AddToSlotStep
<1>2. CASE NoSlot
  BY <1>2, NoSlotStep
<1>3. CASE MakeState
  BY <1>3, MakeStateStep
<1>4. CASE MakeStateFails
  BY <1>4, MakeStateFailsStep
<1>5. CASE Save \/ SaveFails
  BY <1>5, SaveStep
<1>6. CASE \E w \in Word : LongTap(w) \/ OpenView(w)
  BY <1>6, LongTapStep, OpenViewStep
<1>7. CASE ToggleView
  BY <1>7, ToggleViewStep
<1>8. CASE Back \/ Leave
  BY <1>8, BackStep
<1>9. CASE \E q \in Picks : AddSuggested(q)
  BY <1>9, AddSuggestedStep
<1>10. CASE \E r \in Ref : SetWasLearned(r) \/ ReviewRemove(r)
  BY <1>10, SetWasLearnedStep, ReviewRemoveStep
<1>11. CASE Exit
  BY <1>11, ExitStep
<1>12. CASE Update
  BY <1>12, UpdateStep
<1>13. CASE InitRuntimeData
  BY <1>13, InitRuntimeDataStep
<1>14. CASE InitRuntimeDataFails
  BY <1>14, InitRuntimeDataFailsStep
<1>15. CASE UNCHANGED vars
  BY <1>15, StutterStep
<1> QED
  BY <1>1, <1>2, <1>3, <1>4, <1>5, <1>6, <1>7, <1>8, <1>9, <1>10, <1>11, <1>12,
     <1>13, <1>14, <1>15 DEF Next

-----------------------------------------------------------------------------
(* The theorems.                                                             *)

\* The list, the words.dat file, the dictionary's flags and the states agree as
\* IInv says after every write that succeeds, fails or is never made.
THEOREM ListInvariant == Spec => []IInv
BY InitIInv, NextIInv, PTL DEF Spec

\* No handler uses a slot, a word view or a step that is not there.
THEOREM ListTypeCorrect == Spec => []TypeOK
<1>1. IInv => TypeOK
  BY DEF IInv
<1> QED
  BY <1>1, ListInvariant, PTL

\* Every listed word has a learning state, or its handler is about to make it
\* or to take the word back: an exercise never picks a word without a state.
THEOREM ListedIsTrainable == Spec => []ListedHasState
<1>1. IInv => ListedHasState
  BY DEF IInv
<1> QED
  BY <1>1, ListInvariant, PTL

\* At whatever write the process ends, words.dat names words with states only.
THEOREM SnapshotIsTrainable == Spec => []SnapshotHasStates
<1>1. IInv => SnapshotHasStates
  BY DEF IInv
<1> QED
  BY <1>1, ListInvariant, PTL

\* Between handlers, a restart would show the list as it is, unless the last
\* save of words.dat reported an error.
THEOREM SnapshotIsCurrent == Spec => []SnapshotCurrent
<1>1. IInv => SnapshotCurrent
  BY DEF IInv
<1> QED
  BY <1>1, ListInvariant, PTL

\* Listed words are flagged in the dictionary until one of its writes is lost
\* or it is replaced.
THEOREM FlagsAreKept == Spec => []ListedIsFlagged
<1>1. IInv => ListedIsFlagged
  BY DEF IInv
<1> QED
  BY <1>1, ListInvariant, PTL

\* A word that the dictionary or the suggestions add is not on the list yet.
LEMMA AddsNewWord ==
  ASSUME IInv, At("add"), ~Head(todo).inView, "flags" \notin wrong
  PROVE  Head(todo).word \notin Listed(words)
<1>1. todo # <<>> /\ Head(todo) = todo[1] /\ 1 \in DOMAIN todo /\ Head(todo).do = "add"
  BY TailFacts DEF At, IInv, TypeOK
<1>2. ~store[Head(todo).word].listed
  BY <1>1 DEF IInv, AddsOfUnlisted
<1> QED
  BY <1>2 DEF IInv, ListedIsFlagged

\* As long as no write of the store was lost, the dictionary and the
\* suggestions never put a word into a second slot, however many words one
\* handler adds.
THEOREM NoDuplicates == Spec => NoDuplicateFromStore
<1>1. IInv => [At("add") /\ ~Head(todo).inView /\ "flags" \notin wrong /\ words' # words
                 => Head(todo).word \notin Listed(words)]_vars
  BY AddsNewWord
<1> QED
  BY <1>1, ListInvariant, PTL DEF NoDuplicateFromStore
=============================================================================
