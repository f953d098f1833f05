-------------------------------- MODULE Grammar --------------------------------
(***************************************************************************)
(* The forms of German verbs in klappt (domain/grammar.cpp). The           *)
(* dictionary gives the irregular forms of a verb; the others are built    *)
(* from its stem. Verbs are written in folded letters, see Tokenizer.tla.  *)
(***************************************************************************)
EXTENDS Tokenizer

InseparablePrefix == {"be", "emp", "ent", "er", "ge", "miss", "ver", "zer"}
NoGeSuffix == {"ieren", "eien"}
NotAStem == {"icht", "ister", "ter", "ier", "utel", "ifer", "cher", "isl"}

StartsWith(w, p) == Len(p) <= Len(w) /\ Leading(w, Len(p)) = p
EndsWith(w, s) == Len(s) <= Len(w) /\ Trailing(w, Len(s)) = s

\* A verb is [infinitive, third, praeteritum, aux, participle, prefix], with
\* the length of its separable prefix.
Prefix(v) == Leading(v.infinitive, v.prefix)
WithoutPrefix(v) == Trailing(v.infinitive, Len(v.infinitive) - v.prefix)
Stem(v) ==
  LET w == WithoutPrefix(v) n == Len(w)
  IN IF At(w, n - 1) = "e" THEN Leading(w, n - 2) ELSE Leading(w, n - 1)

\* needs_intercalary_e looks at bytes: an umlaut before the nasal is none of
\* the consonants. y is one.
HardConsonant == {"b", "c", "d", "f", "g", "j", "k", "p", "q", "s", "t", "v", "w", "x", "y", "z"}
NeedsE(stem) ==
  /\ Bytes(stem) >= 2
  /\ \/ At(stem, Len(stem)) \in {"d", "t"}
     \/ /\ At(stem, Len(stem)) \in {"m", "n"} /\ At(stem, Len(stem) - 1) \in HardConsonant

\* is_contains_vowels_german: y is none of them.
HasFullVowel(w) == \E i \in 1 .. Len(w) : At(w, i) \in Vowel \ {"y"}

\* Whether a prefix makes the stem inseparable, or only looks like one. The
\* second byte of the rest is compared with the first.
Inseparable(stem) ==
  \E p \in InseparablePrefix :
    LET rest == Trailing(stem, Len(stem) - Len(p))
    IN /\ StartsWith(stem, p)
       /\ \/ /\ Len(rest) >= 3
             /\ At(rest, 1) # "S" /\ (At(rest, 1) \in Wide \/ At(rest, 2) # At(rest, 1))
             /\ HasFullVowel(rest) /\ rest \notin NotAStem
          \/ Len(rest) = 2 /\ stem = "empOr"

NoGe(v) ==
  \/ \E s \in NoGeSuffix :
       /\ EndsWith(WithoutPrefix(v), s) /\ Len(WithoutPrefix(v)) >= Len(s) + 2
       /\ HasFullVowel(Leading(WithoutPrefix(v), Len(WithoutPrefix(v)) - Len(s)))
  \/ Inseparable(Stem(v))

Inserted(condition, w) == IF condition THEN w ELSE ""
WithEnding(v, ending) ==
  Stem(v) \o Inserted(NeedsE(Stem(v)), "e") \o ending \o Inserted(v.prefix > 0, " " \o Prefix(v))

Separated(v, form) == form \o Inserted(v.prefix > 0, " " \o Prefix(v))
ThirdPerson(v) == IF v.third # "" THEN Separated(v, v.third) ELSE WithEnding(v, "t")
Praeteritum(v) ==
  IF v.praeteritum \notin {"", "-"} THEN Separated(v, v.praeteritum) ELSE WithEnding(v, "te")
PastParticiple(v) ==
  IF v.participle # "" THEN v.participle
  ELSE Prefix(v) \o Inserted(~NoGe(v), "ge") \o Stem(v) \o Inserted(NeedsE(Stem(v)), "e") \o "t"

\* Whatever else stands for the auxiliary verb counts as "hat", and as irregular
\* when it is longer.
IsAuxSein(v) == StartsWith(v.aux, "ist")
Irregular(v) == v.third # "" \/ v.praeteritum # "" \/ v.participle # "" \/ Bytes(v.aux) > 3
=============================================================================
