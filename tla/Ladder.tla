------------------------------- MODULE Ladder -------------------------------
(***************************************************************************)
(* Engine::State::update of klappt (domain/engine.cpp): how a word climbs  *)
(* and descends the four modes of its exercises.                           *)
(*                                                                         *)
(* The doubles are abstracted to what the code compares them with. A       *)
(* quality, of one review or averaged, is 0 (at most demotion_quality), 1, *)
(* or 2 (at least promotion_quality, which is also the 0.5 that divides    *)
(* lapses from successes). A stability is 0 (never reviewed), 1, or 2 (at  *)
(* least promotion_stability_days of its mode).                            *)
(***************************************************************************)
EXTENDS Naturals

CONSTANTS
  Modes,       \* MODE_COUNT; mode 1 is Entire, the last one is Compose
  MaxReviews   \* bound on total_reviews

ASSUME LadderAssumption == Modes \in Nat \ {0} /\ MaxReviews \in Nat

Level == 0 .. 2
Mode == 1 .. Modes
Memory == [stability : Level, quality : Level, reviews : Nat]
Count == [total : Nat, lapses : Nat, recent : Nat]

VARIABLES
  mode,
  memory,      \* of each mode
  count,       \* total_reviews, lapses and recent_failures
  dueIn        \* due is later than the last review

ladderVars == <<mode, memory, count, dueIn>>

LadderInit ==
  /\ mode = 1
  /\ memory = [m \in Mode |-> [stability |-> 0, quality |-> 0, reviews |-> 0]]
  /\ count = [total |-> 0, lapses |-> 0, recent |-> 0]
  /\ dueIn = FALSE

Lower(a, b) == IF a < b THEN a ELSE b
Higher(a, b) == IF a < b THEN b ELSE a
Success(q) == q = 2

\* An exponentially weighted average lies between the old one and the review.
Averages(old, q) == Lower(old, q) .. Higher(old, q)

\* The first review of a mode seeds a stability below the threshold of every
\* mode. With a success the reward outweighs the penalty, whatever the
\* difficulty; with less the outcome depends on numbers left out.
Stabilities(old, q) ==
  CASE old = 0 -> {1}
    [] old > 0 /\ Success(q) -> old .. 2
    [] OTHER -> 1 .. 2

\* The reviewed mode's memory after the review.
Reviewed(m, q) ==
  {[stability |-> s, quality |-> a, reviews |-> m.reviews + 1] :
     s \in Stabilities(m.stability, q), a \in Averages(m.quality, q)}

Counted(c, q) ==
  [total |-> c.total + 1,
   lapses |-> IF Success(q) THEN c.lapses ELSE c.lapses + 1,
   recent |-> IF ~Success(q) THEN c.recent + 1
              ELSE IF c.recent = 0 THEN 0 ELSE c.recent - 1]

\* maybe_promote: the next mode inherits a part of the stability and 0.8 of
\* the quality, unless it already has more.
Strong(m) == m.quality = 2 /\ m.stability = 2
InheritNothing(m) == {m}                              \* mutant of Inherit
Inherit(m) ==
  {[m EXCEPT !.stability = Higher(@, s), !.quality = Higher(@, a)] :
     s \in 1 .. 2, a \in 1 .. 2}

\* maybe_demote: not before two reviews in the mode.
Failing(m) == m.reviews >= 2 /\ m.quality = 0

\* A review without questions changes nothing.
Review(q) ==
  /\ count.total < MaxReviews
  /\ count' = Counted(count, q)
  /\ dueIn' = TRUE
  /\ \E now \in Reviewed(memory[mode], q) :
       LET kept == [memory EXCEPT ![mode] = now] IN
       \/ /\ Success(q) /\ mode < Modes /\ Strong(now)
          /\ mode' = mode + 1
          /\ \E next \in Inherit(memory[mode + 1]) :
               memory' = [kept EXCEPT ![mode + 1] = next]
       \/ /\ ~Success(q) /\ mode > 1 /\ Failing(now)
          /\ mode' = mode - 1 /\ memory' = kept
       \/ /\ ~(Success(q) /\ mode < Modes /\ Strong(now))
          /\ ~(~Success(q) /\ mode > 1 /\ Failing(now))
          /\ mode' = mode /\ memory' = kept

LadderNext == \E q \in Level : Review(q)

LadderSpec == LadderInit /\ [][LadderNext]_ladderVars

-----------------------------------------------------------------------------
ReviewsUpTo[m \in 0 .. Modes] ==
  IF m = 0 THEN 0 ELSE ReviewsUpTo[m - 1] + memory[m].reviews

\* The counters agree with each other, and once a word was reviewed every mode
\* it can be in, now or by going down, has a stability: only the first review
\* of all seeds one, a promotion has to hand it on, and the due time computed
\* from it is never that of an empty memory.
LadderSound ==
  /\ ReviewsUpTo[Modes] = count.total
  /\ count.recent <= count.lapses /\ count.lapses <= count.total
  /\ count.total > 0 =>
       dueIn /\ \A m \in Mode : m <= mode => memory[m].stability > 0
=============================================================================
