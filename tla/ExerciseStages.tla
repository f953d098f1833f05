---------------------------- MODULE ExerciseStages ----------------------------
(***************************************************************************)
(* How an exercise is made from a word (domain/exercises.cpp): the word's  *)
(* forms give the stages, the mode of the learning state says how a stage  *)
(* asks for its form, and each substage offers the right part of the form  *)
(* among wrong ones, shuffled. The parts offered as right, put together as *)
(* the screen puts together an answer, are the expected response.          *)
(***************************************************************************)
EXTENDS Grammar

CONSTANTS
  Lexeme,    \* words of the dictionary: noun, verb, adjective or phrase
  Spare,     \* lists of other words' forms, as the learning list may give them
  Start      \* bound: the starts of the search for distractors that are tried

\* What the JSON of a word can give, and what other words of a list can give.
WellFormed(w) ==
  CASE w.type = "noun" -> {w.lemma, w.plural} \subseteq STRING /\ w.capital \in BOOLEAN
    [] w.type = "verb" ->
         /\ {w.infinitive, w.third, w.praeteritum, w.aux, w.participle} \subseteq STRING
         /\ w.prefix \in 0 .. Len(w.infinitive)
    [] w.type = "adjective" -> {w.lemma, w.comparative, w.superlative} \subseteq STRING
    [] w.type = "phrase" -> w.words \in Seq([text : STRING, capital : BOOLEAN, empty : BOOLEAN])

ASSUME LexemeAssumption ==
  \A w \in Lexeme : w.type \in {"noun", "verb", "adjective", "phrase"} /\ WellFormed(w)
ASSUME SpareAssumption ==
  \A list \in Spare :
    IsFiniteSet(list) /\ list \subseteq [text : STRING, capital : BOOLEAN]
ASSUME StartAssumption == Start \subseteq Nat

ExerciseMode == {"Entire", "Gaps", "Chunks", "Compose"}

VARIABLES
  word, way,      \* the word, and the mode of its learning state
  at,           \* the stage that is made, a position in Forms(word)
  parts,        \* the parts of its form still to be asked for
  gap,          \* what stands left and right of the answer: stage.gap
  opts, correct,  \* the substage that is made: its options, and the right one
  spelt          \* the expected response, as far as it is made

stageVars == <<word, way, at, parts, gap, opts, correct, spelt>>

-----------------------------------------------------------------------------
\* The stages of a word. A text has a capital or not, and is of a kind.
Asked(type, text, capital, kind) == [type |-> type, text |-> text, capital |-> capital, kind |-> kind]
Common(text, capital, kind) == Asked("form", text, capital, kind)
Given(text, form) == IF text # "" THEN <<form>> ELSE << >>

Article(gender) ==
  CASE gender = "m" -> "der" [] gender = "f" -> "die" [] gender = "n" -> "das" [] OTHER -> "none"

\* A phrase is split at each blank, and the loop over its words ends at the first
\* empty one: two blanks in a row hide the rest. A word of punctuation only is
\* left with no text, and skipped.
OfPhrase(w) == Common(w.text, w.capital, GuessKind(w.text, w.capital))
PhraseWords(words) ==
  LET empty == {i \in DOMAIN words : words[i].empty}
  IN IF empty = {} THEN words ELSE SubSeq(words, 1, Min(empty) - 1)

\* append_plural_stage means to leave out nouns without plural, but spells the
\* marks of the dictionary "(sg.)" and "(pl.)" with capitals. A plural that changes
\* the vowel is asked for with a diaeresis, which is written ~ here.
Umlauted(plural) ==
  CASE plural = "\"-e" -> "~-e" [] plural = "\"-er" -> "~-er" [] plural = "\"-" -> "~-"
    [] OTHER -> plural
PluralOf(w) ==
  IF Trim(w.plural) \in {"(Sg.)", "(Pl.)"} THEN "" ELSE Umlauted(Trim(w.plural))

Forms(w) ==
  CASE w.type = "noun" ->
         <<Asked("article", Article(w.gender), FALSE, "noun"), Common(w.lemma, w.capital, "noun")>>
           \o Given(PluralOf(w), Asked("plural", PluralOf(w), FALSE, "noun"))
    [] w.type = "verb" ->
         <<Common(w.infinitive, FALSE, "verb")>>
           \o Given(w.third, Common(ThirdPerson(w), FALSE, "verb"))
           \o Given(w.praeteritum, Common(Praeteritum(w), FALSE, "verb"))
           \o Given(w.aux, Asked("aux", IF IsAuxSein(w) THEN "ist" ELSE "hat", FALSE, "verb"))
           \o IF w.aux # "" /\ Irregular(w) THEN <<Common(PastParticiple(w), FALSE, "verb")>> ELSE << >>
    [] w.type = "adjective" ->
         <<Common(w.lemma, FALSE, "adjective")>>
           \o IF w.indeclinable THEN << >>
              ELSE Given(w.comparative, Common(w.comparative, FALSE, "adjective"))
                   \o Given(w.superlative, Common(w.superlative, FALSE, "adjective"))
    [] w.type = "phrase" ->
         LET words == PhraseWords(w.words)
             asked[i \in 0 .. Len(words)] ==
               IF i = 0 THEN << >>
               ELSE asked[i - 1] \o Given(words[i].text, OfPhrase(words[i]))
         IN asked[Len(words)]

Form == Forms(word)[at]

\* append_common_stage_gaps: "NOTE: str should not be empty".
ASSUME FormsAssumption ==
  \A w \in Lexeme : \A i \in DOMAIN Forms(w) : Kept(Forms(w)[i].text) # {}

\* append_common_stage_gaps: a verb is not asked for its ending; in a longer
\* word a gap of one byte is joined with a part of one byte on its left. The
\* part on its right is looked at, past the end for the last one, but joined
\* never.
GapPlaces(chunks, kind) ==
  CASE Len(chunks) = 1 -> {1}
    [] Len(chunks) > 1 /\ kind # "verb" -> 2 .. Len(chunks)
    [] Len(chunks) = 2 /\ kind = "verb" -> {1}
    [] Len(chunks) > 2 /\ kind = "verb" -> 2 .. Len(chunks) - 1

Joined(chunks, place) ==
  Len(chunks) >= 5 /\ Bytes(chunks[place]) = 1 /\ Bytes(chunks[place - 1]) = 1

GapAtDoubled(chunks, place) ==                                  \* mutant of GapAt
  [left |-> Join(SubSeq(chunks, 1, place - 1)),
   answer |-> Join(SubSeq(chunks, IF Joined(chunks, place) THEN place - 1 ELSE place, place)),
   right |-> Join(SubSeq(chunks, place + 1, Len(chunks)))]
GapAt(chunks, place) ==
  LET from == IF Joined(chunks, place) THEN place - 1 ELSE place
  IN [left |-> Join(SubSeq(chunks, 1, from - 1)),
      answer |-> Join(SubSeq(chunks, from, place)),
      right |-> Join(SubSeq(chunks, place + 1, Len(chunks)))]

-----------------------------------------------------------------------------
\* shuffle_str_views: the options shuffled, and where the first of them is now.
Swap(s, i, j) == [s EXCEPT ![i] = s[j], ![j] = s[i]]
Draws(n) == {d \in [2 .. n -> 1 .. n] : \A i \in 2 .. n : d[i] <= i}

Shuffled(s, d) ==
  LET step[i \in 1 .. Len(s)] ==
        IF i = Len(s) THEN [opts |-> s, correct |-> 1]
        ELSE LET before == step[i + 1]
             IN [opts |-> Swap(before.opts, i + 1, d[i + 1]),
                 correct |-> IF d[i + 1] = before.correct THEN i + 1 ELSE before.correct]
  IN step[1]

\* An option is a text with or without a capital. The draws for a longer list
\* serve a shorter one.
Option(text, capital) == [text |-> text, capital |-> capital]
AllDraws == Draws(5)
Shuffles(s) == {Shuffled(s, d) : d \in {[i \in 2 .. Len(s) |-> e[i]] : e \in AllDraws}}

AsOptions(texts, capital) == [i \in 1 .. Len(texts) |-> Option(texts[i], capital)]

\* The options of a chunk, a letter or a gap; of an entire form; of a plural;
\* of an article and an auxiliary verb, which are not shuffled.
OfPart(part, capital) ==
  UNION {Shuffles(AsOptions(<<part>> \o Distractors(part, capital, seed), capital)) :
           seed \in [right : BOOLEAN, offset : {1, 2}, start : Start]}

OfEntire(form) ==
  LET right == Option(Trim(form.text), form.capital)
      others(list) == {Option(Trim(o.text), o.capital) : o \in list} \ {right, Option("", FALSE)}
  IN UNION {UNION {Shuffles(<<right>> \o SetToSeq(chosen)) :
                     chosen \in kSubset(Min({4, Cardinality(others(list))}), others(list))} :
              list \in Spare}

Plurals == {"-e", "-en", "-n", "-er", "-s", "~-e", "~-er", "~-"}
OfPlural(form) ==
  UNION {Shuffles(AsOptions(<<form.text>> \o SetToSeq(chosen), FALSE)) :
           chosen \in kSubset(4, Plurals \ {form.text})}

Fixed(texts, answer) ==
  {[opts |-> AsOptions(texts, FALSE), correct |-> i] : i \in {k \in 1 .. Len(texts) : texts[k] = answer}}

Offers(form, part) ==
  CASE form.type = "article" -> Fixed(<<"der", "die", "das", "none">>, form.text)
    [] form.type = "aux" -> Fixed(<<"hat", "ist">>, form.text)
    [] form.type = "plural" -> OfPlural(form)
    [] form.type = "form" /\ way = "Entire" -> OfEntire(form)
    [] form.type = "form" /\ way # "Entire" -> OfPart(part.text, part.capital)

-----------------------------------------------------------------------------
NoGap == [left |-> "", right |-> ""]
Plan(texts, form, g) ==
  [parts |-> [i \in 1 .. Len(texts) |->
                Option(texts[i], form.capital /\ i = 1 /\ g.left = "")],
   gap |-> [left |-> g.left, right |-> g.right]]

\* What a stage asks for, one part after the other.
PlansOver(form, chunks) ==
  CASE form.type # "form" -> {Plan(<<form.text>>, form, NoGap)}
    [] form.type = "form" /\ way = "Entire" -> {Plan(<<Trim(form.text)>>, form, NoGap)}
    [] form.type = "form" /\ way = "Chunks" -> {Plan(chunks, form, NoGap)}
    [] form.type = "form" /\ way = "Compose" -> {Plan(ToLetters(form.text), form, NoGap)}
    [] form.type = "form" /\ way = "Gaps" ->
         {Plan(<<g.answer>>, form, g) :
            g \in {GapAt(chunks, place) : place \in GapPlaces(chunks, form.kind)}}
Plans(form) == PlansOver(form, ToChunks(form.text, form.kind))

StagesInit ==
  /\ word \in Lexeme /\ way \in ExerciseMode
  /\ at = 0 /\ parts = << >> /\ gap = NoGap
  /\ opts = << >> /\ correct = 0 /\ spelt = ""

\* append_*_stage. In an answer a blank stands between two stages.
OpenStage ==
  /\ at < Len(Forms(word)) /\ parts = << >>
  /\ \E plan \in Plans(Forms(word)[at + 1]) : parts' = plan.parts /\ gap' = plan.gap
  /\ at' = at + 1
  /\ spelt' = IF at = 0 THEN spelt ELSE spelt \o " "
  /\ UNCHANGED <<word, way, opts, correct>>

\* The substage for the next part.
OfferPart ==
  /\ parts # << >> /\ opts = << >>
  /\ \E offer \in Offers(Form, Head(parts)) : opts' = offer.opts /\ correct' = offer.correct
  /\ UNCHANGED <<word, way, at, parts, gap, spelt>>

\* It is added; answered_response_from_exercise with the right options puts
\* what surrounds a gap around the answer.
PushSubstage ==
  /\ opts # << >>
  /\ spelt' = spelt \o gap.left \o opts[correct].text \o gap.right
  /\ parts' = Tail(parts) /\ opts' = << >> /\ correct' = 0
  /\ UNCHANGED <<word, way, at, gap>>

StagesNext == OpenStage \/ OfferPart \/ PushSubstage

-----------------------------------------------------------------------------
\* The expected response spells all forms of the word, whatever the mode, the
\* place of the gap and the shuffles: no letter is lost or asked for twice, and
\* the option taken for right is the right one.
Spelled(form) ==
  IF form.type = "form" /\ way # "Compose" THEN Trim(form.text) ELSE form.text

AnswersSpellTheWord ==
  at = Len(Forms(word)) /\ parts = << >> =>
    spelt = Join([i \in 1 .. at |-> (IF i = 1 THEN "" ELSE " ") \o Spelled(Forms(word)[i])])

\* The options of a substage differ from each other, so that one of them only is
\* right. After a capital the answer itself may be offered once more: it is
\* compared before the distractors get their capitals.
OptionsDiffer ==
  \A i, j \in 1 .. Len(opts) :
    opts[i] = opts[j] => i = j \/ (opts[i].capital /\ opts[i] = opts[correct])
=============================================================================
