----------------------------- MODULE WordSlots -----------------------------
(***************************************************************************)
(* struct Words of klappt (domain/words.h): a table of word slots. A WordRef *)
(* is the index of a slot; it stays valid while the slot is used, and a    *)
(* freed slot is given to the next word that is added.                     *)
(*                                                                         *)
(* next_free is one more than the last used slot, and the slots the loops  *)
(* of the code visit are the used ones, so neither is kept as state. What  *)
(* a used slot holds besides the id of its word is up to the module that   *)
(* extends this one.                                                       *)
(***************************************************************************)
EXTENDS Integers

CONSTANTS
  Word,        \* word ids
  MaxWords,    \* MAX_WORDS: the slots are 1 .. MaxWords - 1
  Free         \* content of a slot that is not used

ASSUME SlotsAssumption == MaxWords \in Nat \ {0}

Ref == 1 .. MaxWords - 1

NoWords == [r \in Ref |-> Free]

Used(t) == {r \in Ref : t[r] # Free}
RefsOf(t, w) == {r \in Used(t) : t[r].word = w}
Listed(t) == {t[r].word : r \in Used(t)}

\* Words::add takes the first slot that is not used; there may be none.
FirstUnused(t, r) == r \in Ref \ Used(t) /\ \A s \in Ref \ Used(t) : r <= s
Full(t) == Used(t) = Ref

\* Mutant of RemoveById: it stops at the first slot of the word.
TakesOutTheFirst(t, w) ==
  [r \in Ref |-> IF r \in RefsOf(t, w) /\ \A s \in RefsOf(t, w) : r <= s
                 THEN Free ELSE t[r]]

\* Words::remove_by_id clears every slot of the word.
RemoveById(t, w) == [r \in Ref |-> IF r \in RefsOf(t, w) THEN Free ELSE t[r]]
=============================================================================
