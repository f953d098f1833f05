------------------------------- MODULE Tokenizer -------------------------------
(***************************************************************************)
(* The tokenizer of klappt (domain/tokenizer.cpp): it splits a German word *)
(* into the chunks an exercise asks for, and offers four wrong chunks      *)
(* beside a right one. A word is a string of folded letters, with A O U S  *)
(* standing for the umlauts and sharp s; whether its first letter is a     *)
(* capital is kept beside it. The tables are those of the code, searched   *)
(* by bisection in the order the code gives them.                          *)
(***************************************************************************)
EXTENDS Integers, SequencesExt

CONSTANTS MaxCodepoints    \* MAX_UTF8_CODEPOINTS

ASSUME TokenizerAssumption == MaxCodepoints \in Nat

Clusters == <<
  << >>,
  <<"aa", "ah", "ai", "au", "ch", "ck", "dt", "ee", "eh", "ei", "eu", "ie", "ih", "ks",
    "ll", "mm", "ng", "nk", "nn", "oo", "oh", "pf", "ph", "ps", "qu", "rr", "sh", "sp",
    "ss", "st", "th", "tt", "tz", "uh", "ui", "Ah", "Au", "Oh", "Uh">>,
  <<"chs", "sch", "tsch">>,
  <<"dsch">> >>

NounDeriv == <<"age", "ant", "anz", "chen", "ei", "ent", "enz", "erin", "heit", "ierung",
  "in", "innen", "ismus", "ist", "itAt", "keit", "lein", "ling", "ment", "nis", "or",
  "schaft", "sion", "ssion", "tion", "tum", "ung", "ur">>
NounInflection == <<"e", "en", "er", "ern", "es", "n", "nen", "s">>

VerbPrefix == <<"ab", "an", "auf", "aus", "be", "bei", "dar", "durch", "ein", "emp", "ent",
  "er", "fest", "fort", "ge", "her", "heraus", "herein", "hin", "hinter", "los", "miss",
  "mit", "nach", "raus", "rein", "rUber", "teil", "um", "unter", "ver", "vor", "weg",
  "weiter", "wider", "wieder", "zer", "zu", "zurUck", "zusammen", "Uber">>
VerbInfinitive == <<"eln", "en", "ern", "ieren", "n">>
VerbFinite == <<"e", "end", "est", "et", "iert", "st", "t", "te", "ten", "test", "tet">>

AdjectivePrefix == <<"un", "ur">>
AdjectiveDeriv == <<"arm", "bar", "frei", "haft", "ig", "isch", "lich", "los", "reich",
  "sam", "voll">>
AdjectiveOuter == <<"e", "em", "en", "er", "ere", "erem", "eren", "erer", "eres", "es",
  "st", "ste", "stem", "sten", "ster", "stes">>

Letters == <<"a", "A", "b", "c", "d", "e", "f", "g", "h", "i", "j", "k", "l", "m", "n",
  "o", "O", "p", "q", "r", "s", "S", "t", "u", "U", "v", "w", "x", "y", "z">>
ShortChunks == <<"ab", "an", "auf", "aus", "bei", "ein", "los", "vor">>
SuffixChunks == <<"bar", "en", "ig", "in", "keit", "lich", "los", "sam">>
StemChunks == <<"arbeit", "blatt", "freund", "komm", "schreib", "sprech", "wort", "zahl">>

-----------------------------------------------------------------------------
\* Letters in the order of their code points, and their size in bytes.
Order == " abcdefghijklmnopqrstuvwxyzSAOU"
At(w, i) == SubSeq(w, i, i)
Rank == [c \in {At(Order, i) : i \in 1 .. Len(Order)} |-> CHOOSE i \in 1 .. Len(Order) : At(Order, i) = c]
Wide == {"A", "O", "U", "S"}
Vowel == {"a", "e", "i", "o", "u", "y", "A", "O", "U"}

Bytes(w) == Len(w) + Cardinality({i \in 1 .. Len(w) : At(w, i) \in Wide})
Join(parts) == IF parts = << >> THEN "" ELSE FlattenSeq(parts)

\* StrView::trim.
Blank == " "
Kept(w) == {i \in 1 .. Len(w) : At(w, i) # Blank}
Trim(w) == IF Kept(w) = {} THEN "" ELSE SubSeq(w, Min(Kept(w)), Max(Kept(w)))

\* build_utf8_index refuses long words.
Fits(w) == Len(w) <= MaxCodepoints
HasVowel(w) == \E i \in 1 .. Len(w) : At(w, i) \in Vowel

\* compare_folded(v, w) < 0
Less(v, w) ==
  \E i \in 1 .. Len(w) :
    /\ i <= Len(v) + 1 /\ SubSeq(v, 1, i - 1) = SubSeq(w, 1, i - 1)
    /\ i <= Len(v) => Rank[At(v, i)] < Rank[At(w, i)]

\* lower_bound, with positions from 1, and contains.
Bisect(table, w) ==
  LET search[r \in (1 .. Len(table) + 1) \X (1 .. Len(table) + 1)] ==
        IF r[1] >= r[2] THEN r[1]
        ELSE LET mid == r[1] + (r[2] - r[1]) \div 2
             IN IF Less(table[mid], w) THEN search[<<mid + 1, r[2]>>] ELSE search[<<r[1], mid>>]
  IN search[<<1, Len(table) + 1>>]

Found(table, w) ==
  LET pos == Bisect(table, w) IN pos <= Len(table) /\ table[pos] = w

-----------------------------------------------------------------------------
\* Affixes are peeled off the core of a word, the longest first, as long as
\* the rest is long enough and has a vowel.
MinCore == 3
Leading(w, n) == SubSeq(w, 1, n)
Trailing(w, n) == SubSeq(w, Len(w) - n + 1, Len(w))
Affix(w, side, n) == IF side = "prefix" THEN Leading(w, n) ELSE Trailing(w, n)
Rest(w, side, n) == IF side = "prefix" THEN Trailing(w, Len(w) - n) ELSE Leading(w, Len(w) - n)

\* longest_affix: the length of the longest affix in the table, 0 for none.
LongestAffix(w, table, side, min) ==
  Max({0} \cup {n \in 1 .. Len(w) - min : Found(table, Affix(w, side, n))})

\* peel_affixes. The parts on the right are kept in the order of the word.
PeelAffix(p, side, n) ==
  IF \/ ~Fits(p.core) \/ Len(p.core) <= MinCore + 1
     \/ n = 0 \/ ~HasVowel(Rest(p.core, side, n))
  THEN p
  ELSE [p EXCEPT !.core = Rest(@, side, n),
                 ![side] = IF side = "prefix" THEN Append(@, Leading(p.core, n))
                           ELSE <<Trailing(p.core, n)>> \o @]
PeelOne(p, table, side) == PeelAffix(p, side, LongestAffix(p.core, table, side, MinCore))

Peel(p, table, side, rounds) ==
  LET peeled[k \in 0 .. rounds] == IF k = 0 THEN p ELSE PeelOne(peeled[k - 1], table, side)
  IN peeled[rounds]

Uncut(w) == [core |-> Trim(w), prefix |-> << >>, suffix |-> << >>]

-----------------------------------------------------------------------------
\* The rest is cut into letters and clusters of up to four letters.
TakeAt(w, i) ==
  Max({1} \cup {n \in 2 .. 4 : i + n - 1 <= Len(w) /\ Found(Clusters[n], SubSeq(w, i, i + n - 1))})

Units(w) ==
  LET from[i \in 1 .. Len(w) + 1] ==
        IF i > Len(w) THEN << >>
        ELSE <<SubSeq(w, i, i + TakeAt(w, i) - 1)>> \o from[i + TakeAt(w, i)]
  IN from[1]

AtomicChunks(w) == IF Len(w) <= 1 \/ ~Fits(w) THEN <<w>> ELSE Units(w)

\* append_large_noun_chunks joins units around one vowel each: a consonant
\* before the next vowel stays, of several the last one goes.
Nucleus(u) == u # "qu" /\ HasVowel(u)

ChunkEnd(units, start) ==
  LET last == Len(units)
      nuclei == {k \in start .. last : Nucleus(units[k])}
      vowel == Min(nuclei)
      next == Min(nuclei \ {vowel})
  IN CASE last = start \/ nuclei = {} -> last
       [] nuclei # {} /\ nuclei # {vowel} -> IF next - vowel <= 2 THEN next - 1 ELSE next - 2
       [] OTHER -> IF last - vowel = 1 /\ vowel > start /\ Len(units[last]) > 1
                   THEN vowel ELSE last

LargeChunks(w) ==
  LET units == Units(w)
      from[start \in 1 .. Len(units) + 1] ==
        IF start > Len(units) THEN << >>
        ELSE <<Join(SubSeq(units, start, ChunkEnd(units, start)))>> \o from[ChunkEnd(units, start) + 1]
  IN IF ~Fits(w) \/ Len(w) <= 3 THEN AtomicChunks(w) ELSE from[1]

\* finish_word
Finish(p, large) ==
  p.prefix \o (IF large THEN LargeChunks(p.core) ELSE AtomicChunks(p.core)) \o p.suffix

Peeled(p, parts) == parts \cap Range(p.suffix) # {}
FinishNoun(p) == Finish(p, Peeled(p, {"anz", "enz"}))
PeelAdjective(p) ==
  IF Peeled(p, {"heit", "keit"}) THEN Peel(p, AdjectiveDeriv, "suffix", 1) ELSE p
NounChunks(w) ==
  FinishNoun(PeelAdjective(
    Peel(Peel(Peel(Uncut(w), NounDeriv, "suffix", 2), NounInflection, "suffix", 1),
         NounDeriv, "suffix", 1)))

PeelFinite(p) == IF p.suffix = << >> THEN Peel(p, VerbFinite, "suffix", 1) ELSE p
VerbChunks(w) ==
  Finish(Peel(PeelFinite(Peel(Uncut(w), VerbInfinitive, "suffix", 1)), VerbPrefix, "prefix", 3),
         FALSE)

AdjectiveChunks(w) ==
  Finish(Peel(Peel(Peel(Uncut(w), AdjectiveOuter, "suffix", 1), AdjectiveDeriv, "suffix", 2),
              AdjectivePrefix, "prefix", 3), FALSE)

ToChunks(w, kind) ==
  CASE Kept(w) = {} -> << >>
    [] Kept(w) # {} /\ kind = "noun" -> NounChunks(w)
    [] Kept(w) # {} /\ kind = "verb" -> VerbChunks(w)
    [] Kept(w) # {} /\ kind = "adjective" -> AdjectiveChunks(w)

ToLetters(w) == [i \in 1 .. Len(w) |-> At(w, i)]

-----------------------------------------------------------------------------
\* guess_kind adds up what speaks for each kind.
Ends(w, table) == Fits(w) /\ LongestAffix(w, table, "suffix", MinCore) > 0
Starts(w, table) == Fits(w) /\ LongestAffix(w, table, "prefix", MinCore) > 0
If(condition, score) == IF condition THEN score ELSE 0

NounScore(w, capital) ==
  If(capital, 4) + If(Ends(w, NounDeriv), 3) + If(Ends(w, NounInflection), If(capital, 1) + 1)
VerbScore(w, capital, infinitive, finite) ==
  If(~capital, 1) + If(infinitive, 4) + If(finite, 3)
  + If(Starts(w, VerbPrefix), If(infinitive \/ finite, 1) + 1)
AdjectiveScore(w, capital) ==
  If(~capital, 1) + If(Ends(w, AdjectiveDeriv), 3)
  + If(Ends(w, AdjectiveOuter), 2) + If(Starts(w, AdjectivePrefix), 1)

KindOf(noun, verb, adjective) ==
  IF noun >= verb /\ noun >= adjective THEN "noun"
  ELSE IF adjective > verb THEN "adjective" ELSE "verb"
GuessKind(w, capital) ==
  IF w = "" THEN "verb"
  ELSE KindOf(NounScore(w, capital),
              VerbScore(w, capital, Ends(w, VerbInfinitive), Ends(w, VerbFinite)),
              AdjectiveScore(w, capital))

-----------------------------------------------------------------------------
\* Four distractors. A hash of the token and a seed chooses among them: whether
\* the neighbours on the right come first, how far the first one is, and where
\* the search for others starts.
Seed == [right : BOOLEAN, offset : {1, 2}, start : 0 .. Len(Letters) - 1]

PadTo4(found) ==
  [i \in 1 .. 4 |-> IF i <= Len(found) THEN found[i] ELSE ShortChunks[i]]

\* try_push, for a position in the table, and one turn of the loop around it. A
\* table has no entry twice, so no position gives what is there already.
Push(found, table, i) ==
  IF i \in 1 .. Len(table) /\ Len(found) < 4 THEN Append(found, table[i]) ELSE found
PushBoth(found, table, first, second) == Push(Push(found, table, first), table, second)

FillNeighbors(token, table, seed) ==
  LET pos == Bisect(table, token)
      near[d \in 0 .. Len(table)] ==
        IF d = 0 THEN << >>
        ELSE LET by == seed.offset + d - 1
             IN IF seed.right THEN PushBoth(near[d - 1], table, pos + by, pos - by)
                ELSE PushBoth(near[d - 1], table, pos - by, pos + by)
  IN PadTo4(near[Len(table)])

\* A candidate that equals the token is passed over, once at most as a table has
\* no entry twice; "same" says whether the case of the first letter lets it be
\* equal.
Turned(table, seed) ==
  [k \in 1 .. Len(table) |-> table[((seed.start + k - 1) % Len(table)) + 1]]
FillFirst(token, same, table, seed) ==                  \* mutant of FillFirstDistinct
  SubSeq(Turned(table, seed), 1, 4)
FillFirstDistinct(token, same, table, seed) ==
  LET turned == Turned(table, seed)
      passed(k) == same /\ \E j \in 1 .. k : turned[j] = token
  IN [k \in 1 .. 4 |-> IF passed(k) THEN turned[k + 1] ELSE turned[k]]

Families == <<VerbPrefix, VerbInfinitive, VerbFinite, AdjectiveDeriv, AdjectiveOuter,
              NounDeriv, NounInflection, Clusters[2], Clusters[3], Clusters[4]>>

\* get_4_distractors_for_a_chunk; match_distractor_case then gives them the
\* capital of the token.
Distractors(token, capital, seed) ==
  LET family == {f \in 1 .. Len(Families) : Found(Families[f], token)}
      pool == IF Bytes(token) <= 6 THEN ShortChunks
              ELSE IF Bytes(token) <= 12 THEN SuffixChunks ELSE StemChunks
  IN CASE Len(token) <= 1 -> FillFirstDistinct(token, ~capital, Letters, seed)
       [] Len(token) > 1 /\ family # {} -> FillNeighbors(token, Families[Min(family)], seed)
       [] OTHER -> FillFirstDistinct(token, ~capital, pool, seed)
=============================================================================
