----------------------------- MODULE WordStore -----------------------------
(***************************************************************************)
(* What klappt asks of its dictionary (domain/word_store.cpp): the search  *)
(* of the dictionary screen, the word behind a link, words to choose from  *)
(* in an exercise, and suggestions. Writing is in LearningList.            *)
(*                                                                         *)
(* A text is a sequence of lower-case words; of a lemma it is also known   *)
(* how it is spelled. Xapian gives every document a number, and a removed  *)
(* one leaves a hole.                                                      *)
(***************************************************************************)
EXTENDS Naturals, FiniteSets, Sequences, SequencesExt, FiniteSetsExt

CONSTANTS
  Dictionary,  \* the databases: functions from document numbers to words
  Query,       \* queries of the search field, sequences of words
  Completes,      \* pairs of words of which the first one starts the second
  Short,       \* words of one letter
  LongText,    \* texts of more than 116 bytes
  Link,        \* words that are looked up: [text, capital, phrase]
  TopOfMatches,\* how many matches find_word looks at
  Wanted        \* how many words are asked for

\* The texts that are looked for are not empty, a popularity is a byte.
ASSUME StoreAssumption ==
  /\ TopOfMatches \in Nat \ {0} /\ Wanted \subseteq Nat
  /\ \A d \in Dictionary :
       /\ IsFiniteSet(DOMAIN d) /\ DOMAIN d \subseteq Nat \ {0}
       /\ \A i \in DOMAIN d : /\ d[i].popularity \in 0 .. 255
                              /\ d[i].letters \in Nat /\ d[i].order \in Nat
  /\ \A q \in Query : q \in Seq(Range(q))
  /\ \A l \in Link : l.text \in Seq(Range(l.text)) /\ l.text # <<>>

VARIABLES
  docs,        \* the documents
  seen,        \* the last call, if it was a search: query, mode, documents
  found,       \* if it was find_word: the link and its document, 0 for none
  task,        \* the loop that draws: kind, type, count, need
  pool,        \* docids
  out, picked, attempts

storeVars == <<docs, seen, found, task, pool, out, picked, attempts>>

Idle == [kind |-> "idle", type |-> "nil", count |-> 0, need |-> 0]

StoreInit ==
  /\ docs \in Dictionary
  /\ seen = <<>>
  /\ found = <<>>
  /\ task = Idle /\ pool = {} /\ out = {} /\ picked = 0 /\ attempts = 0

-----------------------------------------------------------------------------
(* The terms of a document *)

HasPhrase(text, phrase) ==
  \E i \in 0 .. Len(text) - Len(phrase) : \A j \in DOMAIN phrase : text[i + j] = phrase[j]

\* Translations follow one another without a gap, so a phrase may begin in one
\* and end in the next. What a translation says in parentheses is its remark.
TranslationText(w) == FlattenSeq([i \in DOMAIN w.translations |->
                                    w.translations[i].head \o w.translations[i].remark])

\* A translation without its remark, or the remark if there is nothing else.
Meanings(w) == {IF t.head = <<>> THEN t.remark ELSE t.head : t \in Range(w.translations)}

\* A text that is too long for a term has none.
ExactTerms(w) == Meanings(w) \ LongText

PopularityTerms(w) ==
  (IF w.popularity >= 180 THEN {"XP1"} ELSE {}) \cup
  (IF w.popularity >= 100 THEN {"XP2"} ELSE {}) \cup
  (IF w.popularity >= 40 THEN {"XP3"} ELSE {})

Posting(term) == {d \in DOMAIN docs : term \in PopularityTerms(docs[d])}
OfType(type) == {d \in DOMAIN docs : docs[d].type = type}

-----------------------------------------------------------------------------
(* search_mset *)

\* CoordWeight counts the terms that match. All words of the query have to be
\* there, the last one may be unfinished and counts once more if it is not.
Coord(query, text) ==
  LET last == Last(query) IN
  IF /\ Range(Front(query)) \subseteq Range(text)
     /\ \E t \in Range(text) : t = last \/ <<last, t>> \in Completes
  THEN Len(query) + (IF last \in Range(text) THEN 1 ELSE 0)
  ELSE 0

Sorted(S, Comes(_, _)) ==
  [i \in 1 .. Cardinality(S) |-> CHOOSE d \in S : Cardinality({e \in S : Comes(e, d)}) = i - 1]

\* The phrase that is looked for: the whole query, or without a last word of one letter.
PhraseOf(query) == IF Last(query) \in Short THEN Front(query) ELSE query

PhraseCoord(query, text) ==
  LET p == PhraseOf(query)
  IN IF Len(query) > 1 /\ Len(p) > 1 /\ HasPhrase(text, p) THEN Len(p) ELSE 0

\* Nor is a query that long looked for as a term.
MatchesExactly(query, w) == query \notin LongText /\ query \in ExactTerms(w)

\* An exact translation weighs no more than its words.
WeightsFlat(query, mode, w) ==
  {50 * (IF MatchesExactly(query, w) THEN 1 ELSE 0),
   100 * PhraseCoord(query, TranslationText(w)),
   10 * Coord(query, TranslationText(w))}
  \cup IF mode = "TranslationsOnly" THEN {}
       ELSE {10000 * Coord(query, w.lemma), 1000 * Coord(query, FlattenSeq(w.forms))}

Weights(query, mode, w) ==
  {500 * (IF MatchesExactly(query, w) THEN 1 ELSE 0),
   100 * PhraseCoord(query, TranslationText(w)),
   10 * Coord(query, TranslationText(w))}
  \cup IF mode = "TranslationsOnly" THEN {}
       ELSE {10000 * Coord(query, w.lemma), 1000 * Coord(query, FlattenSeq(w.forms))}

Relevance(query, mode, d) == Max(Weights(query, mode, docs[d]))

\* WordSortKeyMaker, and the number of the document in the end.
KeyMaker(mode, d) ==
  LET w == docs[d] IN
  IF mode = "TranslationsOnly" THEN <<255 - w.popularity, w.letters, w.order, d>>
  ELSE <<w.letters, 255 - w.popularity, w.order, d>>

KeyBefore(k, l) ==
  \E i \in DOMAIN k : k[i] < l[i] /\ \A j \in 1 .. i - 1 : k[j] = l[j]

SearchMset(query, mode) ==
  LET r(d) == Relevance(query, mode, d)
      comes(d, e) == r(d) > r(e) \/ (r(d) = r(e) /\ KeyBefore(KeyMaker(mode, d), KeyMaker(mode, e)))
  IN IF query = <<>> THEN <<>> ELSE Sorted({d \in DOMAIN docs : r(d) > 0}, comes)

SearchWords(query, mode) ==
  /\ task = Idle
  /\ seen' = <<[query |-> query, mode |-> mode, hits |-> SearchMset(query, mode)]>>
  /\ found' = <<>>
  /\ UNCHANGED <<docs, task, pool, out, picked, attempts>>

-----------------------------------------------------------------------------
(* find_word *)

\* The most popular documents whose lemma has the words, of phrases or of others.
Matches(link) ==
  LET all == {d \in DOMAIN docs :
                /\ (docs[d].type = "phrase") = link.phrase
                /\ IF link.phrase \/ Len(link.text) > 1 THEN HasPhrase(docs[d].lemma, link.text)
                   ELSE link.text[1] \in Range(docs[d].lemma)}
      comes(d, e) == \/ docs[d].popularity > docs[e].popularity
                     \/ docs[d].popularity = docs[e].popularity /\ d < e
      sorted == Sorted(all, comes)
  IN [total |-> Cardinality(all), top |-> {sorted[i] : i \in 1 .. Min({TopOfMatches, Len(sorted)})}]

Suits(d, link) == docs[d].lemma = link.text /\ (docs[d].type = "phrase") = link.phrase

\* A lemma that is spelled in the same way wins over a more popular one.
Score(d, link) == docs[d].popularity + (IF docs[d].capital = link.capital THEN 10000 ELSE 0)

\* Takes whatever has the words for the word.
BestOfAll(top, link) ==
  IF top = {} THEN 0 ELSE CHOOSE d \in top : \A e \in top : Score(d, link) >= Score(e, link)

Best(top, link) ==
  LET fit == {d \in top : Suits(d, link)}
  IN IF fit = {} THEN 0
     ELSE CHOOSE d \in fit : \A e \in fit : \/ Score(d, link) > Score(e, link)
                                            \/ Score(d, link) = Score(e, link) /\ d <= e

FindWord(link) ==
  /\ task = Idle
  /\ found' = <<[link |-> link, doc |-> Best(Matches(link).top, link)]>>
  /\ seen' = <<>>
  /\ UNCHANGED <<docs, task, pool, out, picked, attempts>>

-----------------------------------------------------------------------------
(* Drawing words *)

MaxAttempts(kind, n) ==
  CASE kind = "type" -> n * 15 + 30
    [] kind \in {"XP1", "XP2"} -> n * 10 + 20
    [] OTHER -> n * 20 + 50

Begin(kind, type, count, need, from) ==
  /\ task' = [kind |-> kind, type |-> type, count |-> count, need |-> need]
  /\ pool' = from /\ picked' = 0 /\ attempts' = 0

\* One more draw of the loop; a posting list gives each document once.
Attempt(d) ==
  /\ picked < task.need /\ attempts < MaxAttempts(task.kind, task.need)
  /\ attempts' = attempts + 1
  /\ pool' = IF task.kind = "any" THEN pool ELSE pool \ {d}

Take(d) == out' = out \cup {d} /\ picked' = picked + 1
Skip == UNCHANGED <<out, picked>>

Over == pool = {} \/ picked >= task.need \/ attempts >= MaxAttempts(task.kind, task.need)

GetRandomWordsByType(type, count) ==
  /\ task = Idle /\ count > 0
  /\ Begin("type", type, count, count, OfType(type))
  /\ out' = {} /\ seen' = <<>> /\ found' = <<>>
  /\ UNCHANGED docs

\* Rare words are left out to the end.
AlwaysRare(d) == docs[d].popularity < 30

\* Early draws leave out rare words, which do not come back.
IsEarly == attempts + 1 < task.count * 8
TooRare(d) == IsEarly /\ docs[d].popularity < 30

DrawByType ==
  /\ task.kind = "type"
  /\ \E d \in pool : Attempt(d) /\ IF TooRare(d) THEN Skip ELSE Take(d)
  /\ UNCHANGED <<docs, seen, found, task>>

\* The first share of get_smart_suggestions is of the most popular words.
GetSmartSuggestions(count) ==
  /\ task = Idle /\ count > 0
  /\ Begin("XP1", "nil", count, (count * 7) \div 10, Posting("XP1"))
  /\ out' = {} /\ seen' = <<>> /\ found' = <<>>
  /\ UNCHANGED docs

Unsuitable(d) == docs[d].type = "phrase" \/ docs[d].listed \/ docs[d].learned

DrawSuggestion ==
  /\ task.kind \in {"XP1", "XP2", "any"}
  /\ \E d \in pool : Attempt(d) /\ IF Unsuitable(d) \/ d \in out THEN Skip ELSE Take(d)
  /\ UNCHANGED <<docs, seen, found, task>>

\* A number of the table that has no document is an attempt like the others.
DrawHole ==
  /\ task.kind = "any"
  /\ \E d \in (1 .. Max(DOMAIN docs \cup {0})) \ DOMAIN docs : Attempt(d) /\ Skip
  /\ UNCHANGED <<docs, seen, found, task>>

\* A tenth is left for any word; what a share did not give goes to the next.
NextShare ==
  /\ Over
  /\ CASE task.kind = "XP1" ->
            Begin("XP2", "nil", task.count, task.count - picked - task.count \div 10, Posting("XP2"))
       [] task.kind = "XP2" ->
            Begin("any", "nil", task.count, task.count - Cardinality(out), DOMAIN docs)
       [] task.kind \in {"any", "type"} ->
            task' = [task EXCEPT !.kind = "over"] /\ UNCHANGED <<pool, picked, attempts>>
       [] OTHER -> FALSE
  /\ UNCHANGED <<docs, seen, found, out>>

\* The caller has its words.
Return ==
  /\ task.kind = "over"
  /\ task' = Idle /\ pool' = {} /\ out' = {} /\ picked' = 0 /\ attempts' = 0
  /\ UNCHANGED <<docs, seen, found>>

StoreNext ==
  \/ \E q \in Query, m \in {"All", "TranslationsOnly"} : SearchWords(q, m)
  \/ \E l \in Link : FindWord(l)
  \/ \E t \in {"noun", "verb", "adj", "phrase"}, n \in Wanted : GetRandomWordsByType(t, n)
  \/ \E n \in Wanted : GetSmartSuggestions(n)
  \/ DrawByType \/ DrawSuggestion \/ DrawHole \/ NextShare \/ Return

StoreSpec == StoreInit /\ [][StoreNext]_storeVars

-----------------------------------------------------------------------------
(* Properties *)

\* get_random_words_by_type may lose the words it draws too early, yet not too
\* many: as many popular words as asked for are found if there are as many, and
\* rare ones fill up when the early draws have not used up the list. An
\* exercise without them offers fewer options.
EnoughWords ==
  task.kind = "over" /\ task.type # "nil" =>
    LET all == OfType(task.type)
        popular == {d \in all : docs[d].popularity >= 30}
        later == Cardinality(all) - (task.count * 8 - 1)
    IN /\ out \subseteq all /\ Cardinality(out) <= task.count
       /\ Cardinality(out) >= Min({task.count, Cardinality(popular)})
       /\ Cardinality(out) >= Min({task.count, later})

\* A link of the word screen leads to the word itself, spelled as the link is
\* if there is such a one, and it leads somewhere if the word is in the
\* dictionary and not behind ten more popular ones with the same words.
LinkFindsWord ==
  \A f \in Range(found) :
    LET m == Matches(f.link)
        fit == {d \in DOMAIN docs : Suits(d, f.link)}
    IN /\ f.doc # 0 => Suits(f.doc, f.link)
       /\ fit # {} /\ m.total <= TopOfMatches => f.doc # 0
       /\ (\E d \in fit \cap m.top : docs[d].capital = f.link.capital)
            => docs[f.doc].capital = f.link.capital

\* Among translations the words that mean exactly what is looked for come
\* first, however popular the others are: as long as the query has at most 116
\* bytes, for a longer text has no exact term, and fewer than five words, for from
\* then on a phrase weighs as much as an exact translation.
ExactFirst ==
  \A s \in Range(seen) :
    s.mode = "TranslationsOnly" /\ Len(s.query) \in 1 .. 4 /\ s.query \notin LongText =>
    LET exact(d) == s.query \in Meanings(docs[d])
    IN /\ \A i, j \in DOMAIN s.hits : exact(s.hits[j]) /\ ~exact(s.hits[i]) => j < i
       /\ \A d \in DOMAIN docs : exact(d) => d \in Range(s.hits)
=============================================================================
