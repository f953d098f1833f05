---------------------------- MODULE MCSequential ----------------------------
(***************************************************************************)
(* The parts of klappt that run to the end of a call on the main thread    *)
(* and share no state: each of them alone, side by side in one run. A      *)
(* behaviour picks one part and moves it; the others rest.                 *)
(***************************************************************************)
EXTENDS WebStates, Ladder, TextInput, ExerciseStages, TextCache, WordStore,
        BrowserField, Gestures

CONSTANTS Search, Learning, WordField, Translation    \* buffers of text fields

VARIABLE part

seqVars == <<part, webVars, ladderVars, inputVars, stageVars, textVars, storeVars,
             fieldVars, gestureVars>>

\* A time before 1970 counts as 0.
MCState == {[due |-> 0 - 1], [due |-> 2]}
MCNow == {0 - 1, 2}

\* The dictionary and the learning list give their search fields the same id;
\* the word editor has several fields.
MCShown ==
  {[fresh |-> TRUE, fields |-> <<[id |-> 1, buffer |-> Search]>>],
   [fresh |-> FALSE, fields |-> <<[id |-> 1, buffer |-> Learning]>>],
   [fresh |-> FALSE,
    fields |-> <<[id |-> 2, buffer |-> WordField], [id |-> 3, buffer |-> Translation]>>]}

\* The same screens on the web.
MCPage == {[fields |-> [i \in DOMAIN s.fields |-> s.fields[i].buffer], fresh |-> s.fresh] :
             s \in {t \in MCShown : t.fresh \/ Len(t.fields) = 2}}

\* A short and a long character, a text of two lines, and a line break.
MCTyped == {<<1>>, <<2, 0>>, <<1, NewLine, 1>>, <<NewLine>>}

\* Blanks around a lemma, units joined around a vowel, a word too long to be
\* cut, a noun that is marked to have no plural, separable and inseparable
\* verbs with forms given, built and missing, a phrase with a lone mark and with two
\* blanks in a row.
MCLexeme ==
  {[type |-> "noun", lemma |-> "bAckerei ", capital |-> TRUE, gender |-> "f", plural |-> "-en"],
   [type |-> "noun", lemma |-> "konsequenz", capital |-> TRUE, gender |-> "f", plural |-> "(sg.)"],
   [type |-> "noun", lemma |-> "ei", capital |-> TRUE, gender |-> "n", plural |-> "(Sg.)"],
   [type |-> "noun", lemma |-> "tag", capital |-> TRUE, gender |-> "m", plural |-> "\"-e "],
   [type |-> "verb", infinitive |-> "aufatmen", third |-> "atmet", praeteritum |-> "-",
    aux |-> "hat", participle |-> "", prefix |-> 3],
   [type |-> "verb", infinitive |-> "verstehen", third |-> "", praeteritum |-> "verstand",
    aux |-> "ist", participle |-> "", prefix |-> 0],
   [type |-> "verb", infinitive |-> "tun", third |-> "", praeteritum |-> "",
    aux |-> "haben", participle |-> "", prefix |-> 0],
   [type |-> "adjective", lemma |-> "rot", comparative |-> "rOter", superlative |-> "am rOtesten",
    indeclinable |-> FALSE],
   [type |-> "phrase",
    words |-> <<[text |-> "zusammenarbeiten", capital |-> FALSE, empty |-> FALSE],
                [text |-> "", capital |-> FALSE, empty |-> FALSE],
                [text |-> "glUck", capital |-> TRUE, empty |-> FALSE],
                [text |-> "", capital |-> FALSE, empty |-> TRUE],
                [text |-> "auf", capital |-> FALSE, empty |-> FALSE]>>]}

\* No other words, and a list with the answers, with blanks and twice the same.
MCSpare ==
  {{},
   {[text |-> "rot", capital |-> FALSE], [text |-> " blau ", capital |-> FALSE],
    [text |-> "blau", capital |-> FALSE], [text |-> "ei", capital |-> TRUE],
    [text |-> "haus", capital |-> TRUE], [text |-> "ging", capital |-> FALSE],
    [text |-> "lief", capital |-> FALSE]}}

\* A blank and a letter that does not fit have no place in the atlas. The
\* glyphs of size 2 are found by their hash alone, and some of them meet there.
MCPicture ==
  [g \in (0 .. 5) \X (0 .. 2) |->
     CASE g[1] = 0 \/ g[2] = 0 -> [w |-> 0, h |-> 0]
       [] g = <<5, 2>> -> [w |-> 7, h |-> 1]
       [] g[1] \in {1, 3} /\ g[2] # 0 -> [w |-> g[2], h |-> 1]
       [] OTHER -> [w |-> 1, h |-> g[2]]]

MCText ==
  {[codes |-> <<1, 2, 1, 4>>, size |-> 1],
   [codes |-> <<4, 1>>, size |-> 2], [codes |-> <<5, 3, 4>>, size |-> 2]}

MCWarm == <<1, 0, 0>>
MCGerman == <<4>>

\* Eight rare nouns that are learned, more popular words that share words of
\* their lemmas and translations, and a hole; rare nouns alone; nothing. A text
\* is long that says "run long", alone or not.
MCWord(type, lemma, capital, popularity, translations) ==
  [type |-> type, lemma |-> lemma, capital |-> capital, letters |-> Len(lemma), order |-> 1,
   forms |-> IF type = "verb" THEN <<<<"lief">>, <<"bin", "gelaufen">>>> ELSE <<>>,
   popularity |-> popularity,
   translations |-> [i \in DOMAIN translations |-> [head |-> translations[i], remark |-> <<"now">>]],
   listed |-> popularity = 120, learned |-> popularity = 10]

MCDictionary ==
  {<<>>,
   [d \in 1 .. 8 |-> MCWord("noun", <<"ding">>, TRUE, 10, <<<<"run", "to">>>>)],
   [d \in (1 .. 15) \ {13} |->
      CASE d < 9 -> MCWord("noun", <<"ding">>, TRUE, 10, <<<<"run", "to">>>>)
        [] d = 9 -> MCWord("noun", <<"lauf">>, TRUE, 200, <<<<"run">>>>)
        [] d = 10 -> MCWord("noun", <<"gang">>, TRUE, 35, <<<<"way">>, <<"run">>>>)
        [] d = 11 -> MCWord("verb", <<"laufen">>, FALSE, 190, <<<<"to", "run">>, <<"away">>>>)
        [] d = 12 -> MCWord("verb", <<"weg", "laufen">>, FALSE, 120,
                            <<<<"to", "run", "away">>, <<"run", "long", "away">>>>)
        [] d = 14 -> MCWord("noun", <<"laufen">>, TRUE, 60, <<<<"running">>, <<"run", "long">>>>)
        [] d = 15 -> MCWord("phrase", <<"lauf", "weg">>, FALSE, 20, <<<<"run", "away">>>>)]}

MCQuery == {<<>>, <<"run">>, <<"to", "run">>, <<"run", "away">>, <<"lauf">>, <<"to", "run", "a">>,
            <<"run", "long">>}
MCLongText == {<<"run", "long">>, <<"run", "long", "away">>}
MCCompletes == {<<"lauf", "laufen">>, <<"run", "running">>, <<"a", "away">>}

MCLink ==
  {[text |-> <<"laufen">>, capital |-> FALSE, phrase |-> FALSE],
   [text |-> <<"laufen">>, capital |-> TRUE, phrase |-> FALSE],
   [text |-> <<"weg", "laufen">>, capital |-> FALSE, phrase |-> FALSE],
   [text |-> <<"lauf">>, capital |-> FALSE, phrase |-> FALSE],
   [text |-> <<"lauf", "weg">>, capital |-> FALSE, phrase |-> TRUE],
   [text |-> <<"weg">>, capital |-> FALSE, phrase |-> FALSE]}

SeqInit ==
  /\ WebInit /\ LadderInit /\ InputInit /\ StagesInit /\ TextInit /\ StoreInit
  /\ FieldInit /\ GesturesInit
  /\ part \in {"web", "ladder", "input", "stages", "text", "store", "browser", "gestures"}
  /\ part # "web" => storage = Foreign
  /\ part # "input" => shown.fields[1].id = 1
  /\ part # "store" => docs = <<>>
  /\ part # "stages" => way = "Gaps" /\ word.type = "phrase"

\* The parts other than p rest.
OthersRest(p) ==
  /\ UNCHANGED part
  /\ p # "web" => UNCHANGED webVars
  /\ p # "ladder" => UNCHANGED ladderVars
  /\ p # "input" => UNCHANGED inputVars
  /\ p # "stages" => UNCHANGED stageVars
  /\ p # "text" => UNCHANGED textVars
  /\ p # "store" => UNCHANGED storeVars
  /\ p # "browser" => UNCHANGED fieldVars
  /\ p # "gestures" => UNCHANGED gestureVars

SeqNext ==
  \/ part = "web" /\ WebNext /\ OthersRest("web")
  \/ part = "ladder" /\ LadderNext /\ OthersRest("ladder")
  \/ part = "input" /\ InputNext /\ OthersRest("input")
  \/ part = "stages" /\ StagesNext /\ OthersRest("stages")
  \/ part = "text" /\ TextNext /\ OthersRest("text")
  \/ part = "store" /\ StoreNext /\ OthersRest("store")
  \/ part = "browser" /\ FieldNext /\ OthersRest("browser")
  \/ part = "gestures" /\ GesturesNext /\ OthersRest("gestures")

SeqSpec == SeqInit /\ [][SeqNext]_seqVars
=============================================================================
