------------------------ MODULE ExerciseRoundProofs -------------------------
(***************************************************************************)
(* A round of exercises and the screens around it, for any learning list,  *)
(* any word states, any exercises and any way through the screens: what the*)
(* exercises refer to lives as long as they do, points and grades are      *)
(* counted once, and every screen finds what it shows. And the options of  *)
(* an exercise, shuffled, are the same options, and the right one is known.*)
(* And the exercise itself: the tokenizer cuts a word into what it is, the *)
(* right options of its stages spell it, and no option is offered twice.   *)
(***************************************************************************)
EXTENDS ExerciseRound, ExerciseStages, FiniteSetTheorems, SequenceTheorems,
        WellFoundedInduction, TLAPS

\* Which screen can lie right above which.
Covers ==
  ({"Trainer"} \X {"Exercise", "Summary", "Words", "Suggestions", "Settings"})
  \cup ({"Summary"} \X {"Review", "Settings"})
  \cup ({"Review", "Words"} \X {"WordView", "Settings"})
  \cup ({"Exercise", "WordView", "Suggestions"} \X {"Settings"})

Piled(s) ==
  /\ s \in Seq(Screens) /\ s # <<>> /\ s[1] = "Trainer"
  /\ \A i \in 1 .. Len(s) - 1 : <<s[i], s[i + 1]>> \in Covers

Top(s) == s[Len(s)]
In(x, s) == \E i \in DOMAIN s : s[i] = x

LEMMA PiledFacts ==
  ASSUME NEW s, Piled(s)
  PROVE  /\ Len(s) \in Nat \ {0} /\ DOMAIN s = 1 .. Len(s) /\ Top(s) \in Screens
         /\ \A i \in 1 .. Len(s) : s[i] \in Screens
<1>1. s \in Seq(Screens) /\ s # <<>>
  BY DEF Piled
<1>2. Len(s) \in Nat \ {0} /\ DOMAIN s = 1 .. Len(s)
  BY <1>1, EmptySeq, LenProperties
<1>3. \A i \in 1 .. Len(s) : s[i] \in Screens
  BY <1>1, ElementOfSeq
<1> QED
  BY <1>2, <1>3 DEF Top

LEMMA PiledGo ==
  ASSUME NEW x \in {"Trainer", "Exercise", "Summary", "Words", "Suggestions"}
  PROVE  /\ Piled(Go(x)) /\ Top(Go(x)) = x
         /\ \A y : In(y, Go(x)) => y \in {"Trainer", x}
<1>1. CASE x = "Trainer"
  <2>1. Go(x) = <<"Trainer">>
    BY <1>1 DEF Go
  <2>2. <<"Trainer">> \in Seq(Screens) /\ Len(<<"Trainer">>) = 1
    BY DEF Screens
  <2>3. <<"Trainer">>[1] = "Trainer" /\ <<"Trainer">> # <<>> /\ DOMAIN <<"Trainer">> = {1}
    OBVIOUS
  <2>4. Piled(<<"Trainer">>)
    BY <2>2, <2>3 DEF Piled
  <2>5. Top(<<"Trainer">>) = "Trainer" /\ \A y : In(y, <<"Trainer">>) => y = "Trainer"
    BY <2>2, <2>3 DEF Top, In
  <2> QED
    BY <1>1, <2>1, <2>4, <2>5
<1>2. CASE x # "Trainer"
  <2>1. Go(x) = <<"Trainer", x>>
    BY <1>2 DEF Go
  <2>2. <<"Trainer", x>> \in Seq(Screens) /\ Len(<<"Trainer", x>>) = 2
    BY DEF Screens
  <2>3. <<"Trainer", x>> \in Covers
    BY <1>2 DEF Covers
  <2>4. \A i \in 1 .. 2 - 1 : i = 1
    OBVIOUS
  <2>5. Piled(<<"Trainer", x>>)
    BY <2>2, <2>3, <2>4 DEF Piled
  <2>6. Top(<<"Trainer", x>>) = x
    BY <2>2 DEF Top
  <2>7. \A y : In(y, <<"Trainer", x>>) => y \in {"Trainer", x}
    BY <2>2 DEF In
  <2> QED
    BY <2>1, <2>5, <2>6, <2>7
<1> QED
  BY <1>1, <1>2

LEMMA PiledPush ==
  ASSUME NEW s, Piled(s), NEW x \in Screens, <<Top(s), x>> \in Covers
  PROVE  /\ Piled(Append(s, x)) /\ Top(Append(s, x)) = x
         /\ \A y : In(y, Append(s, x)) <=> In(y, s) \/ y = x
<1>1. s \in Seq(Screens) /\ Len(s) \in Nat \ {0} /\ DOMAIN s = 1 .. Len(s)
  BY PiledFacts DEF Piled
<1>2. /\ Append(s, x) \in Seq(Screens) /\ Len(Append(s, x)) = Len(s) + 1
      /\ \A i \in 1 .. Len(s) : Append(s, x)[i] = s[i]
      /\ Append(s, x)[Len(s) + 1] = x
  BY <1>1, AppendProperties
<1>3. DOMAIN Append(s, x) = 1 .. Len(s) + 1 /\ Append(s, x) # <<>>
  BY <1>1, <1>2, LenProperties, EmptySeq
<1>4. ASSUME NEW i \in 1 .. (Len(s) + 1) - 1
      PROVE  <<Append(s, x)[i], Append(s, x)[i + 1]>> \in Covers
  <2>1. CASE i = Len(s)
    BY <1>1, <1>2, <2>1 DEF Top
  <2>2. CASE i # Len(s)
    <3> DEFINE n == Len(s)
    <3>0. n \in Nat /\ i \in 1 .. (n + 1) - 1 /\ i # n
      BY <1>1, <2>2
    <3> HIDE DEF n
    <3>1. i \in 1 .. n - 1 /\ i \in 1 .. n /\ i + 1 \in 1 .. n
      BY <3>0
    <3> USE DEF n
    <3> QED
      BY <1>2, <3>1 DEF Piled
  <2> QED
    BY <2>1, <2>2
<1>5. Append(s, x)[1] = "Trainer"
  BY <1>1, <1>2 DEF Piled
<1>6. Piled(Append(s, x)) /\ Top(Append(s, x)) = x
  BY <1>2, <1>3, <1>4, <1>5 DEF Piled, Top
<1>7. ASSUME NEW y PROVE In(y, Append(s, x)) <=> In(y, s) \/ y = x
  <2>1. \A i \in 1 .. Len(s) + 1 : i = Len(s) + 1 \/ i \in 1 .. Len(s)
    BY <1>1
  <2> QED
    BY <1>1, <1>2, <1>3, <2>1 DEF In
<1> QED
  BY <1>6, <1>7

LEMMA PiledPop ==
  ASSUME NEW s, Piled(s), Len(s) > 1
  PROVE  Piled(Below(s)) /\ \A y : In(y, Below(s)) => In(y, s)
<1>1. s \in Seq(Screens) /\ Len(s) \in Nat \ {0} /\ DOMAIN s = 1 .. Len(s)
  BY PiledFacts DEF Piled
<1>2. \A i \in 1 .. Len(s) - 1 : s[i] \in Screens
  BY PiledFacts, <1>1
<1>3. /\ SubSeq(s, 1, Len(s) - 1) \in Seq(Screens)
      /\ Len(SubSeq(s, 1, Len(s) - 1)) = IF 1 <= Len(s) - 1 THEN (Len(s) - 1) - 1 + 1 ELSE 0
      /\ \A i \in 1 .. (Len(s) - 1) - 1 + 1 : SubSeq(s, 1, Len(s) - 1)[i] = s[1 + i - 1]
  <2>1. 1 \in Int /\ Len(s) - 1 \in Int
    BY <1>1
  <2> QED
    BY <1>2, <2>1, SubSeqProperties
<1>4. /\ Below(s) \in Seq(Screens) /\ Len(Below(s)) = Len(s) - 1
      /\ \A i \in 1 .. Len(s) - 1 : Below(s)[i] = s[i]
  BY <1>1, <1>3 DEF Below
<1>5. DOMAIN Below(s) = 1 .. Len(s) - 1 /\ Below(s) # <<>>
  BY <1>1, <1>4, LenProperties, EmptySeq
<1>6. Below(s)[1] = "Trainer"
  BY <1>1, <1>4 DEF Piled
<1>7. ASSUME NEW i \in 1 .. (Len(s) - 1) - 1 PROVE <<Below(s)[i], Below(s)[i + 1]>> \in Covers
  <2>1. i \in 1 .. Len(s) - 1 /\ i + 1 \in 1 .. Len(s) - 1
    BY <1>1
  <2> QED
    BY <1>4, <2>1 DEF Piled
<1>8. Piled(Below(s))
  BY <1>4, <1>5, <1>6, <1>7 DEF Piled
<1> QED
  BY <1>1, <1>4, <1>5, <1>8 DEF In

\* What lies above an exercise is the settings or nothing, and nothing but a
\* review, a word view and the settings above a summary.
LEMMA PiledAbove ==
  ASSUME NEW s, Piled(s)
  PROVE  /\ Top(s) = "Trainer" => s = <<"Trainer">>
         /\ In("Exercise", s) => Top(s) \in {"Exercise", "Settings"}
         /\ In("Summary", s) \/ In("Review", s) =>
              Top(s) \in {"Summary", "Review", "WordView", "Settings"}
         /\ In("Review", s) => In("Summary", s)
         /\ ~(In("Exercise", s) /\ In("Summary", s))
         /\ In(Top(s), s)
<1>1. /\ s \in Seq(Screens) /\ Len(s) \in Nat \ {0} /\ DOMAIN s = 1 .. Len(s) /\ s[1] = "Trainer"
      /\ \A i \in 1 .. Len(s) : s[i] \in Screens
  BY PiledFacts DEF Piled
<1>2. \A i \in 1 .. Len(s) - 1 : <<s[i], s[i + 1]>> \in Covers
  BY DEF Piled
<1>3. ASSUME NEW i \in 2 .. Len(s)
      PROVE  /\ s[i] # "Trainer"
             /\ s[i] \in {"Exercise", "Summary", "Words", "Suggestions"} => s[i - 1] = "Trainer"
             /\ s[i] = "Review" => s[i - 1] = "Summary"
             /\ s[i] = "WordView" => s[i - 1] \in {"Review", "Words"}
             /\ s[i - 1] # "Settings"
  <2>1. i - 1 \in 1 .. Len(s) - 1 /\ (i - 1) + 1 = i
    BY <1>1
  <2>2. <<s[i - 1], s[i]>> \in Covers
    BY <1>2, <2>1
  <2> QED
    BY <2>2 DEF Covers
<1>4. \A i \in 1 .. Len(s) : s[i] = "Trainer" => i = 1
  BY <1>1, <1>3
<1>5. \A i \in 1 .. Len(s) : s[i] \in {"Exercise", "Summary", "Words", "Suggestions"} => i = 2
  <2> SUFFICES ASSUME NEW i \in 1 .. Len(s), s[i] \in {"Exercise", "Summary", "Words", "Suggestions"}
               PROVE  i = 2
    OBVIOUS
  <2>1. i \in 2 .. Len(s) /\ i - 1 \in 1 .. Len(s)
    BY <1>1
  <2> QED
    BY <1>3, <1>4, <2>1
<1>6. \A i \in 1 .. Len(s) : s[i] = "Review" => i = 3 /\ s[2] = "Summary"
  <2> SUFFICES ASSUME NEW i \in 1 .. Len(s), s[i] = "Review" PROVE i = 3 /\ s[2] = "Summary"
    OBVIOUS
  <2>1. i \in 2 .. Len(s) /\ i - 1 \in 1 .. Len(s)
    BY <1>1
  <2> QED
    BY <1>3, <1>5, <2>1
<1>7. \A i \in 1 .. Len(s) : s[i] = "Settings" => i = Len(s)
  <2> SUFFICES ASSUME NEW i \in 1 .. Len(s), s[i] = "Settings", i # Len(s) PROVE FALSE
    OBVIOUS
  <2> DEFINE n == Len(s)
  <2>1. n \in Nat /\ i \in 1 .. n /\ i # n
    BY <1>1
  <2> HIDE DEF n
  <2>2. i + 1 \in 2 .. n /\ (i + 1) - 1 = i
    BY <2>1
  <2> USE DEF n
  <2> QED
    BY <1>3, <2>2
<1>8. \A i \in 1 .. Len(s) : s[i] = "WordView" => s[2] \in {"Summary", "Words"}
  <2> SUFFICES ASSUME NEW i \in 1 .. Len(s), s[i] = "WordView" PROVE s[2] \in {"Summary", "Words"}
    OBVIOUS
  <2>1. i \in 2 .. Len(s) /\ i - 1 \in 1 .. Len(s)
    BY <1>1
  <2> QED
    BY <1>3, <1>5, <1>6, <2>1
<1>a. Top(s) = "Trainer" => s = <<"Trainer">>
  <2> SUFFICES ASSUME s[Len(s)] = "Trainer" PROVE s = <<"Trainer">>
    BY DEF Top
  <2>1. Len(s) = 1
    BY <1>1, <1>4
  <2> QED
    BY <1>1, <2>1
<1>b. In("Exercise", s) => s[2] = "Exercise" /\ 2 \in 1 .. Len(s)
  BY <1>1, <1>5 DEF In
<1>c. In("Summary", s) => s[2] = "Summary" /\ 2 \in 1 .. Len(s)
  BY <1>1, <1>5 DEF In
<1>d. In("Review", s) => In("Summary", s)
  <2> SUFFICES ASSUME NEW i \in 1 .. Len(s), s[i] = "Review" PROVE In("Summary", s)
    BY <1>1 DEF In
  <2>1. i = 3 /\ 2 \in 1 .. Len(s) /\ s[2] = "Summary"
    BY <1>1, <1>6
  <2> QED
    BY <1>1, <2>1 DEF In
<1>e. Len(s) \in 1 .. Len(s) /\ Top(s) = s[Len(s)] /\ Top(s) \in Screens
  BY <1>1 DEF Top
<1>f. In("Exercise", s) => Top(s) \in {"Exercise", "Settings"}
  <2> SUFFICES ASSUME In("Exercise", s) PROVE Top(s) \in {"Exercise", "Settings"}
    OBVIOUS
  <2>1. s[2] = "Exercise" /\ 2 \in 1 .. Len(s)
    BY <1>b
  <2>2. s[Len(s)] # "Trainer"
    BY <1>1, <1>4, <1>e, <2>1
  <2>3. s[Len(s)] \notin {"Summary", "Words", "Suggestions"}
    BY <1>5, <1>e, <2>1
  <2>4. s[Len(s)] \notin {"Review", "WordView"}
    BY <1>6, <1>8, <1>e, <2>1
  <2> QED
    BY <1>e, <2>2, <2>3, <2>4 DEF Screens
<1>g. In("Summary", s) => Top(s) \in {"Summary", "Review", "WordView", "Settings"}
  <2> SUFFICES ASSUME In("Summary", s) PROVE Top(s) \in {"Summary", "Review", "WordView", "Settings"}
    OBVIOUS
  <2>1. s[2] = "Summary" /\ 2 \in 1 .. Len(s)
    BY <1>c
  <2>2. s[Len(s)] # "Trainer"
    BY <1>1, <1>4, <1>e, <2>1
  <2>3. s[Len(s)] \notin {"Exercise", "Words", "Suggestions"}
    BY <1>5, <1>e, <2>1
  <2> QED
    BY <1>e, <2>2, <2>3 DEF Screens
<1>h. ~(In("Exercise", s) /\ In("Summary", s))
  BY <1>b, <1>c
<1>i. In(Top(s), s)
  BY <1>1, <1>e DEF In
<1> QED
  BY <1>a, <1>d, <1>f, <1>g, <1>h, <1>i

-----------------------------------------------------------------------------
(* One exercise. *)

\* The cursor is on a substage, and the points are those of the right answers.
Sound(e) ==
  /\ DOMAIN e = {"stage", "substage", "selected", "points"}
  /\ e.stage \in Stage /\ e.substage \in [Stage -> Nat]
  /\ e.substage[e.stage] \in 1 .. Shape[e.stage]
  /\ DOMAIN e.selected = Stage /\ \A s \in Stage : DOMAIN e.selected[s] = 1 .. Shape[s]
  /\ IsFiniteSet(RightAnswers(e)) /\ e.points = Cardinality(RightAnswers(e))

\* Nothing is answered from the cursor on.
Open(e) ==
  \A s \in Stage : \A k \in 1 .. Shape[s] :
    s > e.stage \/ (s = e.stage /\ k >= e.substage[s]) => e.selected[s][k] = "none"

LEMMA StageFacts ==
  /\ Len(Shape) \in Nat \ {0} /\ Stage = 1 .. Len(Shape)
  /\ \A s \in Stage : Shape[s] \in Nat \ {0}
<1>1. Len(Shape) \in Nat \ {0} /\ Stage = 1 .. Len(Shape)
  BY ShapeAssumption, LenProperties, EmptySeq DEF Stage
<1> QED
  BY <1>1, ShapeAssumption, ElementOfSeq

LEMMA NewIsSound == Sound(NewExercise) /\ Open(NewExercise)
<1>1. /\ NewExercise.stage = 1 /\ NewExercise.points = 0
      /\ NewExercise.substage = [s \in Stage |-> 1]
      /\ NewExercise.selected = [s \in Stage |-> [i \in 1 .. Shape[s] |-> "none"]]
      /\ DOMAIN NewExercise = {"stage", "substage", "selected", "points"}
  BY DEF NewExercise
<1>2. 1 \in Stage /\ 1 \in 1 .. Shape[1]
  BY StageFacts
<1>3. \A s \in Stage : \A i \in 1 .. Shape[s] : NewExercise.selected[s][i] = "none"
  BY <1>1
<1>4. RightAnswers(NewExercise) = {}
  BY <1>3 DEF RightAnswers
<1>5. Open(NewExercise)
  BY <1>3 DEF Open
<1>6. IsFiniteSet({}) /\ Cardinality({}) = 0
  BY FS_EmptySet
<1> QED
  BY <1>1, <1>2, <1>4, <1>5, <1>6 DEF Sound

\* Giving one cell a new content.
CellIs(f, g, s, k, a) ==
  /\ DOMAIN g = Stage /\ \A t \in Stage : DOMAIN g[t] = 1 .. Shape[t]
  /\ \A t \in Stage : \A j \in 1 .. Shape[t] :
       g[t][j] = IF t = s /\ j = k THEN a ELSE f[t][j]

LEMMA CellExcept ==
  ASSUME NEW f, NEW g, NEW s \in Stage, NEW k \in 1 .. Shape[s], NEW a,
         DOMAIN f = Stage, \A t \in Stage : DOMAIN f[t] = 1 .. Shape[t],
         g = [f EXCEPT ![s][k] = a]
  PROVE  CellIs(f, g, s, k, a)
<1>1. g = [t \in DOMAIN f |-> IF t = s THEN [f[s] EXCEPT ![k] = a] ELSE f[t]]
  BY Zenon
<1>2. DOMAIN g = Stage /\ \A t \in Stage : g[t] = IF t = s THEN [f[s] EXCEPT ![k] = a] ELSE f[t]
  BY <1>1
<1>3. ASSUME NEW h, DOMAIN h = 1 .. Shape[s], NEW i, i = [h EXCEPT ![k] = a]
      PROVE  DOMAIN i = 1 .. Shape[s] /\ \A j \in 1 .. Shape[s] : i[j] = IF j = k THEN a ELSE h[j]
  <2>1. i = [j \in DOMAIN h |-> IF j = k THEN a ELSE h[j]]
    BY <1>3, Zenon
  <2> QED
    BY <1>3, <2>1
<1>4. /\ DOMAIN g[s] = 1 .. Shape[s]
      /\ \A j \in 1 .. Shape[s] : g[s][j] = IF j = k THEN a ELSE f[s][j]
  BY <1>2, <1>3
<1>5. \A t \in Stage \ {s} : g[t] = f[t]
  BY <1>2
<1> QED
  BY <1>2, <1>4, <1>5 DEF CellIs

LEMMA CellChange ==
  ASSUME NEW e, NEW r, NEW s \in Stage, NEW k \in 1 .. Shape[s], NEW a \in Answer \cup {"none"},
         Sound(e), CellIs(e.selected, r.selected, s, k, a),
         r.points = e.points + (IF a = "right" THEN 1 ELSE 0)
                             - (IF e.selected[s][k] = "right" THEN 1 ELSE 0)
  PROVE  IsFiniteSet(RightAnswers(r)) /\ r.points = Cardinality(RightAnswers(r))
<1> DEFINE c == <<s, k>>
           cells == UNION {{t} \X (1 .. Shape[t]) : t \in Stage}
<1>1. \A t \in Stage : \A j \in 1 .. Shape[t] :
        r.selected[t][j] = IF t = s /\ j = k THEN a ELSE e.selected[t][j]
  BY DEF CellIs
<1>2. /\ IsFiniteSet(RightAnswers(e)) /\ e.points = Cardinality(RightAnswers(e))
  BY DEF Sound
<1>3. Cardinality(RightAnswers(e)) \in Nat
  BY <1>2, FS_CardinalityType
<1>4. c \in cells
  OBVIOUS
<1>5. \A p \in cells : /\ p = <<p[1], p[2]>> /\ p[1] \in Stage /\ p[2] \in 1 .. Shape[p[1]]
                       /\ (p = c <=> p[1] = s /\ p[2] = k)
  OBVIOUS
<1>6. RightAnswers(e) = {p \in cells : e.selected[p[1]][p[2]] = "right"}
  BY DEF RightAnswers
<1>7. RightAnswers(r) = {p \in cells : r.selected[p[1]][p[2]] = "right"}
  BY DEF RightAnswers
<1>8. \A p \in cells : r.selected[p[1]][p[2]] = IF p = c THEN a ELSE e.selected[p[1]][p[2]]
  BY <1>1, <1>5
<1>9. c \in RightAnswers(e) <=> e.selected[s][k] = "right"
  BY <1>4, <1>6
<1> HIDE DEF c, cells
<1>10. CASE a = "right" /\ e.selected[s][k] = "right"
  <2>1. RightAnswers(r) = RightAnswers(e)
    BY <1>4, <1>6, <1>7, <1>8, <1>9, <1>10
  <2> QED
    BY <1>1, <1>2, <1>3, <1>10, <2>1
<1>11. CASE a = "right" /\ e.selected[s][k] # "right"
  <2>1. RightAnswers(r) = RightAnswers(e) \cup {c}
    BY <1>4, <1>6, <1>7, <1>8, <1>9, <1>11
  <2>2. IsFiniteSet(RightAnswers(r)) /\ Cardinality(RightAnswers(r)) = Cardinality(RightAnswers(e)) + 1
    BY <1>2, <1>9, <1>11, <2>1, FS_AddElement
  <2> QED
    BY <1>1, <1>2, <1>3, <1>11, <2>2
<1>12. CASE a # "right" /\ e.selected[s][k] = "right"
  <2>1. RightAnswers(r) = RightAnswers(e) \ {c}
    BY <1>4, <1>6, <1>7, <1>8, <1>9, <1>12
  <2>2. IsFiniteSet(RightAnswers(r)) /\ Cardinality(RightAnswers(r)) = Cardinality(RightAnswers(e)) - 1
    BY <1>2, <1>9, <1>12, <2>1, FS_RemoveElement
  <2> QED
    BY <1>1, <1>2, <1>3, <1>12, <2>2
<1>13. CASE a # "right" /\ e.selected[s][k] # "right"
  <2>1. RightAnswers(r) = RightAnswers(e)
    BY <1>4, <1>6, <1>7, <1>8, <1>9, <1>13
  <2> QED
    BY <1>1, <1>2, <1>3, <1>13, <2>1
<1> QED
  BY <1>10, <1>11, <1>12, <1>13

\* submit: the answer is counted, and what follows stays open.
LEMMA SubmitFacts ==
  ASSUME NEW e, NEW a \in Answer, Sound(e), Open(e)
  PROVE  Sound(Submit(e, a)) /\ (~AtLast(e) => Open(Submit(e, a)))
<1> DEFINE s == e.stage
           k == e.substage[e.stage]
           r == Submit(e, a)
<1>1. s \in Stage /\ k \in 1 .. Shape[s] /\ e.selected[s][k] = "none"
  <2>1. s \in Stage /\ k \in 1 .. Shape[s]
    BY DEF Sound
  <2>2. k >= k
    BY <2>1
  <2> QED
    BY <2>1, <2>2 DEF Open
<1>2. /\ DOMAIN Answered(e, a) = {"stage", "substage", "selected", "points"}
      /\ Answered(e, a).stage = s /\ Answered(e, a).substage = e.substage
      /\ Answered(e, a).selected = [e.selected EXCEPT ![s][k] = a]
      /\ Answered(e, a).points = e.points + (IF a = "right" THEN 1 ELSE 0)
  BY DEF Answered, Sound
<1>3. /\ DOMAIN r = {"stage", "substage", "selected", "points"}
      /\ CellIs(e.selected, r.selected, s, k, a)
      /\ r.points = e.points + (IF a = "right" THEN 1 ELSE 0)
  <2>1. DOMAIN e.selected = Stage /\ \A t \in Stage : DOMAIN e.selected[t] = 1 .. Shape[t]
    BY DEF Sound
  <2>2. /\ DOMAIN r = {"stage", "substage", "selected", "points"}
        /\ r.selected = [e.selected EXCEPT ![s][k] = a]
        /\ r.points = e.points + (IF a = "right" THEN 1 ELSE 0)
    BY <1>2 DEF Submit
  <2> HIDE DEF r, s, k
  <2> QED
    BY <1>1, <2>1, <2>2, CellExcept
<1>4. e.points \in Nat
  BY FS_CardinalityType DEF Sound
<1>5. r.points = e.points + (IF a = "right" THEN 1 ELSE 0)
                          - (IF e.selected[s][k] = "right" THEN 1 ELSE 0)
  BY <1>1, <1>3, <1>4
<1>6. a \in Answer \cup {"none"}
  OBVIOUS
<1> HIDE DEF r
<1>7. /\ DOMAIN r.selected = Stage
      /\ \A t \in Stage : DOMAIN r.selected[t] = 1 .. Shape[t]
      /\ \A t \in Stage : \A j \in 1 .. Shape[t] :
           r.selected[t][j] = IF t = s /\ j = k THEN a ELSE e.selected[t][j]
      /\ IsFiniteSet(RightAnswers(r)) /\ r.points = Cardinality(RightAnswers(r))
  <2> HIDE DEF s, k
  <2>1. IsFiniteSet(RightAnswers(r)) /\ r.points = Cardinality(RightAnswers(r))
    BY <1>1, <1>3, <1>5, <1>6, CellChange
  <2> QED
    BY <1>3, <2>1 DEF CellIs
<1>8. e.substage \in [Stage -> Nat]
  BY DEF Sound
<1>9. CASE AtLast(e)
  <2>1. r.stage = s /\ r.substage = e.substage
    BY <1>2, <1>9 DEF r, Submit
  <2> QED
    BY <1>1, <1>3, <1>7, <1>8, <1>9, <2>1 DEF Sound, r
<1>10. CASE ~AtLast(e) /\ k = Shape[s]
  <2>1. s # Len(Shape)
    BY <1>10 DEF AtLast
  <2>2. s + 1 \in Stage /\ s # s + 1 /\ s \in Nat
    BY <1>1, <2>1, StageFacts
  <2>3. Submit(e, a) = [Answered(e, a) EXCEPT !.substage[e.stage] = Shape[e.stage] + 1,
                                             !.stage = @ + 1, !.substage[e.stage + 1] = 1]
    BY <1>10 DEF Submit
  <2>4. /\ r.stage = s + 1
        /\ r.substage = [[e.substage EXCEPT ![s] = Shape[s] + 1] EXCEPT ![s + 1] = 1]
    BY <1>2, <2>3 DEF r
  <2>a. Shape[s] + 1 \in Nat
    BY <1>1, StageFacts
  <2>b. [e.substage EXCEPT ![s] = Shape[s] + 1] \in [Stage -> Nat]
    BY <1>8, <2>a
  <2>5. r.substage \in [Stage -> Nat] /\ r.substage[r.stage] = 1
    BY <2>b, <2>2, <2>4
  <2>6. 1 \in 1 .. Shape[s + 1]
    BY <2>2, StageFacts
  <2>7. Sound(r)
    BY <1>3, <1>7, <2>2, <2>4, <2>5, <2>6 DEF Sound
  <2>8. Open(r)
    <3> SUFFICES ASSUME NEW t \in Stage, NEW j \in 1 .. Shape[t],
                        t > r.stage \/ (t = r.stage /\ j >= r.substage[t])
                 PROVE  r.selected[t][j] = "none"
      BY DEF Open
    <3>1. t > s /\ t # s
      BY <2>2, <2>4, StageFacts
    <3> QED
      BY <1>7, <3>1 DEF Open
  <2> QED
    BY <2>7, <2>8 DEF r
<1>11. CASE ~AtLast(e) /\ k # Shape[s]
  <2>1. Submit(e, a) = [Answered(e, a) EXCEPT !.substage[e.stage] = @ + 1]
    BY <1>11 DEF Submit
  <2>2. r.stage = s /\ r.substage = [e.substage EXCEPT ![s] = k + 1]
    BY <1>2, <2>1 DEF r
  <2>3. k \in Nat /\ k + 1 \in 1 .. Shape[s]
    BY <1>1, <1>11, StageFacts
  <2>4. r.substage \in [Stage -> Nat] /\ r.substage[s] = k + 1
    BY <1>1, <1>8, <2>2, <2>3
  <2>5. Sound(r)
    BY <1>1, <1>3, <1>7, <2>2, <2>3, <2>4 DEF Sound
  <2>6. Open(r)
    <3> SUFFICES ASSUME NEW t \in Stage, NEW j \in 1 .. Shape[t],
                        t > r.stage \/ (t = r.stage /\ j >= r.substage[t])
                 PROVE  r.selected[t][j] = "none"
      BY DEF Open
    <3>1. t > s \/ (t = s /\ j >= k + 1)
      BY <2>2, <2>4
    <3>2. ~(t = s /\ j = k)
      BY <1>1, <2>3, <3>1, StageFacts
    <3>3. t > s \/ (t = s /\ j >= e.substage[t])
      BY <1>1, <2>3, <3>1, StageFacts
    <3> QED
      BY <1>7, <3>2, <3>3 DEF Open
  <2> QED
    BY <2>5, <2>6 DEF r
<1> QED
  BY <1>9, <1>10, <1>11

\* undo: the cursor goes back, and what it stands on is open again.
LEMMA UndoFacts ==
  ASSUME NEW e, Sound(e), Open(e), ~AtStart(e)
  PROVE  Sound(Undo(e)) /\ Open(Undo(e))
<1>1. PICK b : /\ Undo(e) = TakenBack(b) /\ DOMAIN b = DOMAIN e
               /\ b.selected = e.selected /\ b.points = e.points
               /\ b.stage \in Stage /\ b.substage \in [Stage -> Nat]
               /\ b.substage[b.stage] \in 1 .. Shape[b.stage]
               /\ \A t \in Stage : \A j \in 1 .. Shape[t] :
                    t > b.stage \/ (t = b.stage /\ j >= b.substage[t]) =>
                      (t = b.stage /\ j = b.substage[t]) \/ e.selected[t][j] = "none"
  <2> DEFINE s == e.stage
             k == e.substage[e.stage]
  <2>1. /\ s \in Stage /\ k \in 1 .. Shape[s] /\ e.substage \in [Stage -> Nat]
        /\ DOMAIN e = {"stage", "substage", "selected", "points"}
    BY DEF Sound
  <2>2. CASE k > 1
    <3> DEFINE b == [e EXCEPT !.substage[e.stage] = @ - 1]
    <3>1. Undo(e) = TakenBack(b)
      BY <2>2 DEF Undo
    <3>2. /\ b.stage = s /\ b.substage = [e.substage EXCEPT ![s] = k - 1]
          /\ b.selected = e.selected /\ b.points = e.points /\ DOMAIN b = DOMAIN e
      BY <2>1
    <3> HIDE DEF b
    <3>3. k - 1 \in 1 .. Shape[s] /\ k - 1 \in Nat /\ k \in Nat
      BY <2>1, <2>2, StageFacts
    <3>4. b.substage \in [Stage -> Nat] /\ b.substage[s] = k - 1
      BY <2>1, <3>2, <3>3
    <3>5. ASSUME NEW t \in Stage, NEW j \in 1 .. Shape[t],
                 t > s \/ (t = s /\ j >= k - 1), ~(t = s /\ j = k - 1)
          PROVE  e.selected[t][j] = "none"
      <4>1. t > s \/ (t = s /\ j >= e.substage[t])
        BY <2>1, <3>3, <3>5, StageFacts
      <4> QED
        BY <4>1 DEF Open
    <3> QED
      BY <2>1, <3>1, <3>2, <3>3, <3>4, <3>5
  <2>3. CASE ~(k > 1)
    <3> DEFINE b == [e EXCEPT !.stage = @ - 1, !.substage[e.stage - 1] = Shape[e.stage - 1]]
    <3>1. Undo(e) = TakenBack(b)
      BY <2>3 DEF Undo
    <3>2. k = 1 /\ s # 1
      BY <2>1, <2>3, StageFacts DEF AtStart
    <3>3. s - 1 \in Stage /\ s \in Nat /\ Shape[s - 1] \in Nat \ {0}
      BY <2>1, <3>2, StageFacts
    <3>4. /\ b.stage = s - 1 /\ b.substage = [e.substage EXCEPT ![s - 1] = Shape[s - 1]]
          /\ b.selected = e.selected /\ b.points = e.points /\ DOMAIN b = DOMAIN e
      BY <2>1
    <3> HIDE DEF b
    <3>5. b.substage \in [Stage -> Nat] /\ b.substage[s - 1] = Shape[s - 1]
      BY <2>1, <3>3, <3>4
    <3>6. ASSUME NEW t \in Stage, NEW j \in 1 .. Shape[t],
                 t > s - 1 \/ (t = s - 1 /\ j >= Shape[s - 1]), ~(t = s - 1 /\ j = Shape[s - 1])
          PROVE  e.selected[t][j] = "none"
      <4>1. t \in Nat /\ j \in Nat /\ j >= 1
        BY StageFacts
      <4>2. t > s \/ (t = s /\ j >= 1)
        BY <3>3, <3>6, <4>1, StageFacts
      <4>3. t > e.stage \/ (t = e.stage /\ j >= e.substage[t])
        BY <3>2, <4>2
      <4> QED
        BY <4>3 DEF Open
    <3> QED
      BY <2>1, <3>1, <3>3, <3>4, <3>5, <3>6
  <2> QED
    BY <2>2, <2>3
<1> DEFINE s == b.stage
           k == b.substage[b.stage]
           r == TakenBack(b)
<1>2. DOMAIN b = {"stage", "substage", "selected", "points"}
  BY <1>1 DEF Sound
<1>3. /\ DOMAIN r = {"stage", "substage", "selected", "points"}
      /\ r.stage = s /\ r.substage = b.substage
      /\ CellIs(e.selected, r.selected, s, k, "none")
      /\ r.points = e.points - (IF e.selected[s][k] = "right" THEN 1 ELSE 0)
  <2>1. DOMAIN e.selected = Stage /\ \A t \in Stage : DOMAIN e.selected[t] = 1 .. Shape[t]
    BY DEF Sound
  <2>2. /\ DOMAIN r = {"stage", "substage", "selected", "points"}
        /\ r.stage = s /\ r.substage = b.substage
        /\ r.selected = [e.selected EXCEPT ![s][k] = "none"]
        /\ r.points = e.points - (IF e.selected[s][k] = "right" THEN 1 ELSE 0)
    BY <1>1, <1>2 DEF TakenBack
  <2>3. s \in Stage /\ k \in 1 .. Shape[s]
    BY <1>1
  <2> HIDE DEF r, s, k
  <2> QED
    BY <2>1, <2>2, <2>3, CellExcept
<1>4. s \in Stage /\ k \in 1 .. Shape[s] /\ "none" \in Answer \cup {"none"}
  BY <1>1
<1>5. e.points \in Nat
  BY FS_CardinalityType DEF Sound
<1>6. r.points = e.points + (IF "none" = "right" THEN 1 ELSE 0)
                          - (IF e.selected[s][k] = "right" THEN 1 ELSE 0)
  BY <1>3, <1>5
<1> HIDE DEF r
<1>7. /\ DOMAIN r.selected = Stage
      /\ \A t \in Stage : DOMAIN r.selected[t] = 1 .. Shape[t]
      /\ \A t \in Stage : \A j \in 1 .. Shape[t] :
           r.selected[t][j] = IF t = s /\ j = k THEN "none" ELSE e.selected[t][j]
      /\ IsFiniteSet(RightAnswers(r)) /\ r.points = Cardinality(RightAnswers(r))
  <2> HIDE DEF s, k
  <2>1. IsFiniteSet(RightAnswers(r)) /\ r.points = Cardinality(RightAnswers(r))
    BY <1>3, <1>4, <1>6, CellChange
  <2> QED
    BY <1>3, <2>1 DEF CellIs
<1>8. Sound(r)
  BY <1>1, <1>3, <1>7 DEF Sound
<1>9. Open(r)
  <2> SUFFICES ASSUME NEW t \in Stage, NEW j \in 1 .. Shape[t],
                      t > r.stage \/ (t = r.stage /\ j >= r.substage[t])
               PROVE  r.selected[t][j] = "none"
    BY DEF Open
  <2> QED
    BY <1>1, <1>3, <1>7
<1> QED
  BY <1>1, <1>8, <1>9 DEF r

-----------------------------------------------------------------------------
(* The list, and what is added to it in a loop. *)

\* Induction up to n, from the well-foundedness of inclusion in a finite set:
\* the smallest of the intervals that end outside Good.
LEMMA Induction ==
  ASSUME NEW n \in Nat, NEW Good, 0 \in Good,
         \A i \in 0 .. n - 1 : i \in Good => i + 1 \in Good
  PROVE  \A i \in 0 .. n : i \in Good
<1> DEFINE Bad == {i \in 0 .. n : i \notin Good}
           Upto == {0 .. i : i \in Bad}
<1>1. SUFFICES ASSUME Bad # {} PROVE FALSE
  OBVIOUS
<1>2. IsFiniteSet(0 .. n)
  BY FS_Interval
<1>3. IsWellFoundedOn(StrictSubsetOrdering(0 .. n), FiniteSubsetsOf(0 .. n))
  BY FS_StrictSubsetOrderingWellFounded
<1>4. Upto \subseteq FiniteSubsetsOf(0 .. n) /\ Upto # {}
  <2>1. \A i \in 0 .. n : IsFiniteSet(0 .. i) /\ (0 .. i) \subseteq 0 .. n
    BY FS_Interval
  <2> QED
    BY <1>1, <2>1 DEF FiniteSubsetsOf
<1>5. PICK low \in Upto : \A e \in Upto : <<e, low>> \notin StrictSubsetOrdering(0 .. n)
  BY <1>3, <1>4, WFMin
<1>6. PICK i \in Bad : low = 0 .. i
  OBVIOUS
<1>7. i # 0 /\ i - 1 \in 0 .. n - 1
  OBVIOUS
<1>8. i - 1 \in Bad
  BY <1>7
<1>9. 0 .. (i - 1) \in Upto
  BY <1>8
<1>10. <<0 .. (i - 1), 0 .. i>> \in StrictSubsetOrdering(0 .. n)
  BY <1>7 DEF StrictSubsetOrdering
<1> QED
  BY <1>5, <1>6, <1>9, <1>10


\* Something done n times over has a result each time: f tells them all.
Iterates(f, n, D, base, F) ==
  f \in [0 .. n -> D] /\ f[0] = base /\ \A i \in 1 .. n : f[i] = F[i][f[i - 1]]
CanIterate(n, D, base, F) == n \in Nat /\ base \in D /\ F \in [1 .. n -> [D -> D]]

LEMMA Iterated ==
  ASSUME NEW n, NEW D, NEW base, NEW F, CanIterate(n, D, base, F)
  PROVE  \E f : Iterates(f, n, D, base, F)
<1> USE DEF CanIterate, Iterates
<1> DEFINE Run(f, k) == f \in [0 .. k -> D] /\ f[0] = base /\ \A i \in 1 .. k : f[i] = F[i][f[i - 1]]
           Good == {k \in 0 .. n : \E f : Run(f, k)}
<1>1. 0 \in Good
  <2>1. [k \in 0 .. 0 |-> base] \in [0 .. 0 -> D] /\ [k \in 0 .. 0 |-> base][0] = base
    OBVIOUS
  <2>2. \A i \in 1 .. 0 : FALSE
    OBVIOUS
  <2>3. Run([k \in 0 .. 0 |-> base], 0)
    BY <2>1, <2>2
  <2> HIDE DEF Run
  <2> QED
    BY <2>3
<1>2. ASSUME NEW k \in 0 .. n - 1, k \in Good PROVE k + 1 \in Good
  <2>1. PICK f : Run(f, k)
    BY <1>2
  <2> DEFINE g == [i \in 0 .. k + 1 |-> IF i = k + 1 THEN F[k + 1][f[k]] ELSE f[i]]
  <2>2. k \in Nat /\ k + 1 \in 1 .. n /\ k \in 0 .. k /\ k + 1 \in 0 .. n
    OBVIOUS
  <2>3. F[k + 1][f[k]] \in D
    BY <2>1, <2>2
  <2>4. g \in [0 .. k + 1 -> D]
    BY <2>1, <2>2, <2>3
  <2>5. ASSUME NEW i \in 1 .. k + 1 PROVE g[i] = F[i][g[i - 1]]
    <3>1. CASE i = k + 1
      <4>1. i - 1 = k /\ k \in 0 .. k + 1 /\ k # k + 1 /\ i \in 0 .. k + 1
        BY <2>2, <3>1
      <4> QED
        BY <3>1, <4>1
    <3>2. CASE i # k + 1
      <4>1. i \in 1 .. k /\ i - 1 \in 0 .. k + 1 /\ i - 1 # k + 1 /\ i \in 0 .. k + 1
        BY <2>2, <3>2
      <4> QED
        BY <2>1, <3>2, <4>1
    <3> QED
      BY <3>1, <3>2
  <2>6. g[0] = base
    BY <2>1, <2>2
  <2> HIDE DEF g
  <2> QED
    BY <2>2, <2>4, <2>5, <2>6
<1>3. n \in Good
  <2> HIDE DEF Good
  <2>1. \A k \in 0 .. n : k \in Good
    BY <1>1, <1>2, Induction
  <2> QED
    BY <2>1
<1> QED
  BY <1>3

LEMMA FirstSlot ==
  ASSUME NEW T, T \subseteq Ref, T # {}
  PROVE  \E r \in T : \A s \in T : r <= s
<1>1. T \subseteq Nat
  BY SlotsAssumption DEF Ref
<1>2. PICK r \in T : \A s \in T : <<s, r>> \notin OpToRel(<, Nat)
  BY <1>1, NatLessThanWellFounded, WFMin
<1>3. \A x, y \in Nat : y < x => <<y, x>> \in OpToRel(<, Nat)
  BY DEF OpToRel
<1>4. \A s \in T : r <= s
  <2> TAKE s \in T
  <2>1. r \in Nat /\ s \in Nat
    BY <1>1
  <2>2. <<s, r>> \notin OpToRel(<, Nat)
    BY <1>2
  <2>3. ~(s < r)
    BY <2>1, <2>2, <1>3, Zenon
  <2> QED
    BY <2>1, <2>3
<1> QED
  BY <1>4

LEMMA TableFacts ==
  ASSUME NEW t \in Table
  PROVE  /\ \A r \in Ref : t[r] \in Entry \cup {Free}
         /\ \A r \in Used(t) : r \in Ref /\ t[r] \in Entry /\ t[r].word \in Word
         /\ Listed(t) \subseteq Word /\ \A r \in Used(t) : t[r].word \in Listed(t)
  BY RoundAssumption DEF Table, Used, Listed, Entry

LEMMA AddedFacts ==
  ASSUME NEW t \in Table, NEW w \in Word
  PROVE  Added(t, w) \in Table /\ Listed(t) \subseteq Listed(Added(t, w))
<1>1. CASE Full(t)
  BY <1>1 DEF Added
<1>2. CASE ~Full(t)
  <2> DEFINE r == CHOOSE s \in Ref : FirstUnused(t, s)
  <2>1. Ref \ Used(t) # {}
    BY <1>2 DEF Full, Used
  <2>2. \E s \in Ref \ Used(t) : \A u \in Ref \ Used(t) : s <= u
    BY <2>1, FirstSlot
  <2>3. \E s \in Ref : FirstUnused(t, s)
    BY <2>2 DEF FirstUnused
  <2>4. r \in Ref /\ FirstUnused(t, r)
    BY <2>3
  <2>5. Added(t, w) = [t EXCEPT ![r] = [word |-> w]]
    BY <1>2 DEF Added
  <2> HIDE DEF r
  <2>6. r \notin Used(t) /\ [word |-> w] \in Entry
    BY <2>4 DEF FirstUnused, Entry
  <2>7. Added(t, w) \in Table
    BY <2>4, <2>5, <2>6 DEF Table
  <2>8. \A s \in Used(t) : s \in Used(Added(t, w)) /\ Added(t, w)[s] = t[s]
    BY <2>5, <2>6 DEF Used, Table
  <2> QED
    BY <2>7, <2>8 DEF Listed
<1> QED
  BY <1>1, <1>2

LEMMA RemovedFacts ==
  ASSUME NEW t \in Table, NEW w
  PROVE  RemoveById(t, w) \in Table /\ Listed(RemoveById(t, w)) = Listed(t) \ {w}
<1> DEFINE u == RemoveById(t, w)
<1>1. \A r \in Ref : u[r] = IF r \in RefsOf(t, w) THEN Free ELSE t[r]
  BY DEF RemoveById
<1>2. u \in Table
  BY DEF RemoveById, Table
<1>3. \A r \in Ref : r \in Used(u) <=> r \in Used(t) /\ t[r].word # w
  BY <1>1 DEF Used, RefsOf
<1>4. \A r \in Used(u) : u[r] = t[r]
  BY <1>1 DEF Used, RefsOf
<1> QED
  BY <1>2, <1>3, <1>4 DEF Listed, Used

LEMMA AllAddedFacts ==
  ASSUME words \in Table, NEW m \in Nat, NEW q \in [1 .. m -> Word]
  PROVE  AllAdded(q) \in Table /\ Listed(words) \subseteq Listed(AllAdded(q))
<1> DEFINE D == {t \in Table : Listed(words) \subseteq Listed(t)}
           F == [i \in 1 .. m |-> [t \in D |-> Added(t, q[i])]]
           Grows(f) == f = [n \in 0 .. Len(q) |-> IF n = 0 THEN words ELSE Added(f[n - 1], q[n])]
<1>1. q \in Seq(Word) /\ Len(q) = m
  BY SeqDef, LenProperties
<1>2. words \in D
  OBVIOUS
<1>3. \A t \in D, i \in 1 .. m : Added(t, q[i]) \in D
  BY AddedFacts
<1> HIDE DEF D
<1>4. F \in [1 .. m -> [D -> D]]
  BY <1>3
<1>5. \A t \in D, i \in 1 .. m : F[i][t] = Added(t, q[i])
  <2> TAKE t \in D, i \in 1 .. m
  <2>1. F[i] = [s \in D |-> Added(s, q[i])]
    OBVIOUS
  <2> HIDE DEF F
  <2> QED
    BY <2>1
<1> HIDE DEF F
<1>6. PICK f : Iterates(f, m, D, words, F)
  <2>1. CanIterate(m, D, words, F)
    BY <1>2, <1>4 DEF CanIterate
  <2> QED
    BY <2>1, Iterated
<1>a. f \in [0 .. m -> D] /\ f[0] = words /\ \A i \in 1 .. m : f[i] = F[i][f[i - 1]]
  BY <1>6 DEF Iterates
<1>7. \A n \in 0 .. m : f[n] = IF n = 0 THEN words ELSE Added(f[n - 1], q[n])
  <2> TAKE n \in 0 .. m
  <2>1. CASE n = 0
    BY <1>a, <2>1
  <2>2. CASE n # 0
    <3>1. n \in 1 .. m /\ n - 1 \in 0 .. m
      BY <2>2
    <3> QED
      BY <1>5, <1>a, <2>2, <3>1
  <2> QED
    BY <2>1, <2>2
<1>8. Grows(f)
  <2>1. f = [n \in 0 .. m |-> f[n]]
    BY <1>a
  <2> QED
    BY <1>1, <1>7, <2>1
<1> DEFINE g == CHOOSE h : Grows(h)
<1>9. Grows(g)
  BY <1>8
<1>10. AllAdded(q) = g[m]
  BY <1>1 DEF AllAdded
<1> HIDE DEF g
<1>11. g[0] = words /\ \A n \in 1 .. m : g[n] = Added(g[n - 1], q[n])
  BY <1>1, <1>9
<1> DEFINE Good == {n \in 0 .. m : g[n] \in D}
<1>12. 0 \in Good
  BY <1>2, <1>11
<1>13. ASSUME NEW n \in 0 .. m - 1, n \in Good PROVE n + 1 \in Good
  <2>1. n + 1 \in 1 .. m /\ (n + 1) - 1 = n /\ n + 1 \in 0 .. m
    OBVIOUS
  <2>2. g[n + 1] = Added(g[n], q[n + 1]) /\ g[n] \in D
    BY <1>11, <1>13, <2>1
  <2> QED
    BY <1>3, <2>1, <2>2
<1>14. m \in Good
  <2> HIDE DEF Good
  <2>1. \A n \in 0 .. m : n \in Good
    BY <1>12, <1>13, Induction
  <2> QED
    BY <2>1
<1> QED
  BY <1>10, <1>14 DEF D

-----------------------------------------------------------------------------
(* The inductive invariant. *)

Numbered(s) == s \in Seq({s[i] : i \in DOMAIN s})

LEMMA NumberedFacts ==
  ASSUME NEW s, Numbered(s)
  PROVE  /\ Len(s) \in Nat /\ DOMAIN s = 1 .. Len(s) /\ (s # <<>> => Len(s) # 0)
         /\ s = [i \in 1 .. Len(s) |-> s[i]]
<1> DEFINE S == {s[i] : i \in DOMAIN s}
<1>1. s \in Seq(S)
  BY DEF Numbered
<1> HIDE DEF S
<1>2. Len(s) \in Nat /\ s \in [1 .. Len(s) -> S] /\ DOMAIN s = 1 .. Len(s)
  BY <1>1, LenProperties
<1> QED
  BY <1>1, <1>2, EmptySeq

LEMMA NumberedFcn ==
  ASSUME NEW s, NEW n \in Nat, s = [i \in 1 .. n |-> s[i]]
  PROVE  Numbered(s) /\ Len(s) = n /\ DOMAIN s = 1 .. n
<1> DEFINE S == {s[i] : i \in DOMAIN s}
<1>1. DOMAIN s = 1 .. n
  BY Zenon
<1>2. s \in [1 .. n -> S]
  BY <1>1
<1>3. s \in Seq(S)
  BY <1>2, SeqDef
<1>4. Numbered(s)
  BY <1>3 DEF Numbered
<1>5. Len(s) \in Nat /\ 1 .. Len(s) = 1 .. n
  BY <1>1, <1>4, NumberedFacts
<1> QED
  BY <1>1, <1>4, <1>5

WellMade(x) ==
  /\ DOMAIN x = {"word", "ref", "answers"} /\ x.word \in Word /\ x.ref \in Ref
  /\ Sound(x.answers)

\* While a round is on, its exercises are graded up to the index, none of them
\* has lost its slot, and from the index on none is answered beyond its cursor.
RoundIsOn ==
  /\ graded = 1 .. idx /\ idx <= Len(exercises)
  /\ exercises # <<>> => idx < Len(exercises)
  /\ \A i \in DOMAIN exercises :
       /\ exercises[i].ref \in Used(words) /\ words[exercises[i].ref].word = exercises[i].word
       /\ i > idx => Open(exercises[i].answers)

RoundOK ==
  /\ idx \in Nat /\ Numbered(exercises) /\ graded \subseteq DOMAIN exercises
  /\ \A i \in DOMAIN exercises : WellMade(exercises[i])
  /\ In("Exercise", stack) => RoundIsOn
  /\ In("Summary", stack) => exercises # <<>> /\ graded = DOMAIN exercises

ListOK == words \in Table /\ due \subseteq Listed(words)
ViewsOK ==
  /\ views \in Seq([word : Word, listed : BOOLEAN]) /\ Len(views) <= MaxViews
  /\ ViewsOfTheScreen
ResultsOK == \A i \in DOMAIN results : results[i].word \in Word /\ results[i].ref \in Ref

RoundInv == Piled(stack) /\ ListOK /\ ViewsOK /\ ResultsOK /\ RoundOK

LEMMA RoundStart == Init => RoundInv
<1> SUFFICES ASSUME Init PROVE RoundInv
  OBVIOUS
<1>1. stack = Go("Trainer")
  BY DEF Init, Go
<1>2. Piled(stack) /\ \A y : In(y, stack) => y \in {"Trainer"}
  BY <1>1, PiledGo
<1>3. ListOK
  BY DEF Init, ListOK
<1>4. views = <<>> /\ ViewsOK
  BY RoundAssumption, EmptySeq DEF Init, ViewsOK, ViewsOfTheScreen
<1>5. ResultsOK
  BY DEF Init, ResultsOK
<1>6. RoundOK
  <2>1. exercises = <<>> /\ idx = 0 /\ graded = {} /\ DOMAIN exercises = {}
    BY DEF Init
  <2>2. Numbered(exercises)
    BY <2>1, EmptySeq DEF Numbered
  <2> QED
    BY <1>2, <2>1, <2>2 DEF RoundOK
<1> QED
  BY <1>2, <1>3, <1>4, <1>5, <1>6 DEF RoundInv

-----------------------------------------------------------------------------
(* What the steps have in common. *)

\* A screen is left or laid upon: no copies of viewed words are left.
LEMMA Shown ==
  ASSUME RoundInv, NEW s, Show(s)
  PROVE  stack' = s /\ views' = <<>> /\ ViewsOK'
<1>1. views' = <<>>
  BY DEF Show, RoundInv, ViewsOK, ViewsOfTheScreen
<1>2. ViewsOK'
  BY <1>1, RoundAssumption, EmptySeq DEF ViewsOK, ViewsOfTheScreen
<1> QED
  BY <1>1, <1>2 DEF Show

\* A round that is not touched.
LEMMA RoundRests ==
  ASSUME RoundInv, UNCHANGED <<exercises, graded>>, idx' \in Nat,
         In("Exercise", stack') => In("Exercise", stack) /\ UNCHANGED <<words, idx>>,
         In("Summary", stack') => In("Summary", stack)
  PROVE  RoundOK'
<1>1. /\ exercises' = exercises /\ graded' = graded
      /\ Numbered(exercises) /\ graded \subseteq DOMAIN exercises
      /\ \A i \in DOMAIN exercises : WellMade(exercises[i])
  BY DEF RoundInv, RoundOK
<1>2. ASSUME In("Exercise", stack') PROVE RoundIsOn'
  <2>1. RoundIsOn /\ words' = words /\ idx' = idx
    BY <1>2 DEF RoundInv, RoundOK
  <2> QED
    BY <1>1, <2>1 DEF RoundIsOn
<1>3. ASSUME In("Summary", stack') PROVE exercises' # <<>> /\ graded' = DOMAIN exercises'
  BY <1>1, <1>3 DEF RoundInv, RoundOK
<1> QED
  BY <1>1, <1>2, <1>3 DEF RoundOK

\* Another screen, and nothing else.
LEMMA Moves ==
  ASSUME RoundInv, NEW s, Show(s), UNCHANGED <<session, list>>, Piled(s),
         In("Exercise", s) => In("Exercise", stack), In("Summary", s) => In("Summary", stack)
  PROVE  RoundInv'
<1>1. /\ exercises' = exercises /\ graded' = graded /\ idx' = idx /\ results' = results
      /\ words' = words /\ due' = due
  BY DEF session, list
<1>2. stack' = s /\ ViewsOK'
  BY Shown
<1>3. idx' \in Nat
  BY <1>1 DEF RoundInv, RoundOK
<1>4. RoundOK'
  BY <1>1, <1>2, <1>3, RoundRests
<1>5. ListOK' /\ ResultsOK'
  BY <1>1 DEF RoundInv, ListOK, ResultsOK
<1> QED
  BY <1>2, <1>4, <1>5 DEF RoundInv

\* A new round: its exercises are made of the slots of the list as it is.
LEMMA GoExerciseFacts ==
  ASSUME RoundInv, NEW s, NEW t \in Table, NEW d \in SUBSET Listed(t),
         GoExercise(s, t, d), Piled(s), ~In("Summary", s)
  PROVE  RoundInv'
<1>1. PICK q \in Rounds(DueRefs(t, d)) :
        exercises' = [i \in DOMAIN q |->
                        [word |-> t[q[i]].word, ref |-> q[i], answers |-> NewExercise]]
  BY DEF GoExercise
<1>2. PICK n \in 0 .. RoundSize : q \in [1 .. n -> DueRefs(t, d)]
  BY DEF Rounds
<1>3. n \in Nat
  BY RoundAssumption
<1>4. /\ results' = <<>> /\ idx' = 0 /\ graded' = {} /\ words' = t /\ due' = d
      /\ stack' = s /\ ViewsOK'
  BY Shown DEF GoExercise
<1>5. exercises' = [i \in 1 .. n |-> [word |-> t[q[i]].word, ref |-> q[i], answers |-> NewExercise]]
  BY <1>1, <1>2
<1> DEFINE Made(i) == [word |-> t[q[i]].word, ref |-> q[i], answers |-> NewExercise]
<1>6. \A i \in 1 .. n : exercises'[i] = Made(i)
  BY <1>5
<1>7. Numbered(exercises') /\ Len(exercises') = n /\ DOMAIN exercises' = 1 .. n
  <2> SUFFICES ASSUME NEW e, e = exercises'
               PROVE  Numbered(e) /\ Len(e) = n /\ DOMAIN e = 1 .. n
    OBVIOUS
  <2>1. e = [i \in 1 .. n |-> e[i]]
    BY <1>5
  <2> QED
    BY <1>3, <2>1, NumberedFcn
<1>8. ASSUME NEW i \in 1 .. n
      PROVE  /\ WellMade(Made(i)) /\ Open(Made(i).answers)
             /\ Made(i).ref \in Used(t) /\ t[Made(i).ref].word = Made(i).word
  <2>1. q[i] \in Used(t)
    BY <1>2 DEF DueRefs
  <2>2. q[i] \in Ref /\ t[q[i]].word \in Word
    BY <2>1, TableFacts
  <2> QED
    BY <2>1, <2>2, NewIsSound DEF WellMade
<1>9. RoundIsOn'
  <2>1. graded' = 1 .. idx' /\ idx' <= Len(exercises')
    BY <1>3, <1>4, <1>7
  <2>2. exercises' # <<>> => idx' < Len(exercises')
    BY <1>3, <1>4, <1>7, NumberedFacts
  <2>3. \A i \in DOMAIN exercises' :
          /\ exercises'[i].ref \in Used(words') /\ words'[exercises'[i].ref].word = exercises'[i].word
          /\ Open(exercises'[i].answers)
    BY <1>4, <1>6, <1>7, <1>8
  <2> QED
    BY <2>1, <2>2, <2>3 DEF RoundIsOn
<1>10. RoundOK'
  BY <1>4, <1>6, <1>7, <1>8, <1>9 DEF RoundOK
<1>11. ListOK' /\ ResultsOK'
  BY <1>4 DEF ListOK, ResultsOK
<1> QED
  BY <1>4, <1>10, <1>11 DEF RoundInv

-----------------------------------------------------------------------------
(* The steps. *)

\* The current exercise is one of the round that has its slot and is open.
LEMMA CurrentFacts ==
  ASSUME RoundInv, On("Exercise"), exercises # <<>>
  PROVE  /\ RoundIsOn /\ idx \in Nat /\ idx + 1 \in DOMAIN exercises /\ In("Exercise", stack)
         /\ Len(exercises) \in Nat /\ DOMAIN exercises = 1 .. Len(exercises)
         /\ Current = exercises[idx + 1] /\ WellMade(Current) /\ Open(Current.answers)
<1>1. Piled(stack) /\ Top(stack) = "Exercise"
  BY DEF RoundInv, On, Screen, Top
<1>2. In("Exercise", stack)
  BY <1>1, PiledAbove
<1>3. RoundIsOn /\ idx \in Nat /\ Numbered(exercises)
  BY <1>2 DEF RoundInv, RoundOK
<1>4. Len(exercises) \in Nat /\ DOMAIN exercises = 1 .. Len(exercises)
  BY <1>3, NumberedFacts
<1>5. idx + 1 \in DOMAIN exercises /\ idx + 1 > idx
  BY <1>3, <1>4 DEF RoundIsOn
<1> QED
  BY <1>2, <1>3, <1>4, <1>5 DEF Current, RoundIsOn, RoundInv, RoundOK

\* The answers of the current exercise change.
AnswersBecome(e) == exercises' = [exercises EXCEPT ![idx + 1].answers = e]

LEMMA AnswersChange ==
  ASSUME RoundInv, On("Exercise"), exercises # <<>>, NEW e, Sound(e),
         AnswersBecome(e)
  PROVE  /\ Numbered(exercises') /\ Len(exercises') = Len(exercises)
         /\ DOMAIN exercises' = DOMAIN exercises /\ exercises' # <<>>
         /\ \A i \in DOMAIN exercises : WellMade(exercises'[i])
         /\ \A i \in DOMAIN exercises :
              /\ exercises'[i].ref = exercises[i].ref /\ exercises'[i].word = exercises[i].word
              /\ exercises'[i].answers = IF i = idx + 1 THEN e ELSE exercises[i].answers
<1> DEFINE n == Len(exercises)
           k == idx + 1
<1>1. n \in Nat /\ DOMAIN exercises = 1 .. n /\ k \in 1 .. n
  BY CurrentFacts
<1>2. \A i \in 1 .. n : WellMade(exercises[i])
  BY <1>1 DEF RoundInv, RoundOK
<1> DEFINE x == [exercises[k] EXCEPT !.answers = e]
<1>3. exercises' = [i \in 1 .. n |-> IF i = k THEN x ELSE exercises[i]]
  BY <1>1 DEF AnswersBecome
<1>4. x.ref = exercises[k].ref /\ x.word = exercises[k].word /\ x.answers = e
      /\ DOMAIN x = {"word", "ref", "answers"}
  BY <1>1, <1>2 DEF WellMade
<1> HIDE DEF k, x
<1>5. \A i \in 1 .. n : exercises'[i] = IF i = k THEN x ELSE exercises[i]
  BY <1>3
<1>6. Numbered(exercises') /\ Len(exercises') = n /\ DOMAIN exercises' = 1 .. n
  <2> HIDE DEF n
  <2>1. ASSUME NEW s, s = exercises'
        PROVE  Numbered(s) /\ Len(s) = n /\ DOMAIN s = 1 .. n
    <3>1. s = [i \in 1 .. n |-> s[i]]
      BY <1>3, <2>1
    <3> QED
      BY <1>1, <3>1, NumberedFcn
  <2> QED
    BY <2>1
<1>7. exercises' # <<>>
  <2>1. n # 0
    BY <1>1
  <2> QED
    BY <1>6, <2>1
<1>8. \A i \in 1 .. n : WellMade(exercises'[i])
  BY <1>1, <1>2, <1>4, <1>5 DEF WellMade
<1>9. \A i \in 1 .. n :
        /\ exercises'[i].ref = exercises[i].ref /\ exercises'[i].word = exercises[i].word
        /\ exercises'[i].answers = IF i = k THEN e ELSE exercises[i].answers
  <2> HIDE DEF n
  <2> TAKE i \in 1 .. n
  <2>1. CASE i = k
    <3>1. exercises'[i] = x
      BY <1>5, <2>1
    <3>2. exercises[i] = exercises[k]
      BY <2>1
    <3> QED
      BY <1>4, <2>1, <3>1, <3>2, Zenon
  <2>2. CASE i # k
    <3>1. exercises'[i] = exercises[i]
      BY <1>5, <2>2
    <3> QED
      BY <2>2, <3>1, Zenon
  <2> QED
    BY <2>1, <2>2
<1> QED
  BY <1>1, <1>6, <1>7, <1>8, <1>9 DEF k

\* An answer, or one taken back, while the exercise is open.
LEMMA StaysOpen ==
  ASSUME RoundInv, On("Exercise"), exercises # <<>>, NEW e, Sound(e), Open(e),
         AnswersBecome(e),
         UNCHANGED <<stack, views, list, results, idx, graded>>
  PROVE  RoundInv'
<1>1. /\ stack' = stack /\ views' = views /\ words' = words /\ due' = due
      /\ results' = results /\ idx' = idx /\ graded' = graded
  BY DEF list
<1>2. /\ Numbered(exercises') /\ Len(exercises') = Len(exercises)
      /\ DOMAIN exercises' = DOMAIN exercises /\ exercises' # <<>>
      /\ \A i \in DOMAIN exercises : WellMade(exercises'[i])
      /\ \A i \in DOMAIN exercises :
           /\ exercises'[i].ref = exercises[i].ref /\ exercises'[i].word = exercises[i].word
           /\ exercises'[i].answers = IF i = idx + 1 THEN e ELSE exercises[i].answers
  BY AnswersChange
<1>3. RoundIsOn /\ In("Exercise", stack)
  BY CurrentFacts
<1>4. RoundIsOn'
  BY <1>1, <1>2, <1>3 DEF RoundIsOn
<1>5. RoundOK'
  BY <1>1, <1>2, <1>4 DEF RoundOK, RoundInv
<1>6. ListOK' /\ ViewsOK' /\ ResultsOK' /\ Piled(stack')
  BY <1>1 DEF RoundInv, ListOK, ViewsOK, ResultsOK, ViewsOfTheScreen, On, Screen
<1> QED
  BY <1>5, <1>6 DEF RoundInv

LEMMA SubmitStep ==
  ASSUME RoundInv, NEW a \in Answer, SubmitAnswer(a)
  PROVE  RoundInv'
<1> DEFINE e == Submit(Current.answers, a)
<1>1. On("Exercise") /\ exercises # <<>> /\ ~AtLast(Current.answers)
  BY DEF SubmitAnswer
<1>2. Sound(Current.answers) /\ Open(Current.answers) /\ Current = exercises[idx + 1]
  BY <1>1, CurrentFacts DEF WellMade
<1>3. Sound(e) /\ Open(e)
  BY <1>1, <1>2, SubmitFacts
<1>4. AnswersBecome(e)
  BY <1>2 DEF SubmitAnswer, AnswersBecome
<1>5. UNCHANGED <<stack, views, list, results, idx, graded>>
  BY DEF SubmitAnswer
<1> HIDE DEF e
<1> QED
  BY <1>1, <1>3, <1>4, <1>5, StaysOpen

LEMMA BackInExerciseStep ==
  ASSUME RoundInv, BackInExercise
  PROVE  RoundInv'
<1> DEFINE e == Undo(Current.answers)
<1>1. On("Exercise") /\ exercises # <<>> /\ ~AtStart(Current.answers)
  BY DEF BackInExercise
<1>2. Sound(Current.answers) /\ Open(Current.answers) /\ Current = exercises[idx + 1]
  BY <1>1, CurrentFacts DEF WellMade
<1>3. Sound(e) /\ Open(e)
  BY <1>1, <1>2, UndoFacts
<1>4. AnswersBecome(e)
  BY <1>2 DEF BackInExercise, AnswersBecome
<1>5. UNCHANGED <<stack, views, list, results, idx, graded>>
  BY DEF BackInExercise
<1> HIDE DEF e
<1> QED
  BY <1>1, <1>3, <1>4, <1>5, StaysOpen

LEMMA Onward ==
  ASSUME NEW i \in Nat, NEW n \in Nat, i + 1 \in 1 .. n, i + 1 # n
  PROVE  i + 1 \in Nat /\ i + 1 < n /\ i + 1 <= n /\ 1 .. i + 1 \subseteq 1 .. n
OBVIOUS

\* The last answer: the exercise is graded and the index passes it.
LEMMA FinishStep ==
  ASSUME RoundInv, NEW a \in Answer, FinishExercise(a)
  PROVE  RoundInv'
<1> DEFINE e == Submit(Current.answers, a)
<1>1. On("Exercise") /\ exercises # <<>>
  BY DEF FinishExercise
<1>2. /\ Sound(Current.answers) /\ Open(Current.answers) /\ Current = exercises[idx + 1]
      /\ RoundIsOn /\ idx \in Nat /\ idx + 1 \in DOMAIN exercises /\ In("Exercise", stack)
      /\ Len(exercises) \in Nat /\ DOMAIN exercises = 1 .. Len(exercises)
  BY <1>1, CurrentFacts DEF WellMade
<1>3. Sound(e)
  BY <1>2, SubmitFacts
<1>4. AnswersBecome(e)
  BY <1>2 DEF FinishExercise, AnswersBecome
<1> HIDE DEF e
<1>5. /\ Numbered(exercises') /\ Len(exercises') = Len(exercises)
      /\ DOMAIN exercises' = DOMAIN exercises /\ exercises' # <<>>
      /\ \A i \in DOMAIN exercises : WellMade(exercises'[i])
      /\ \A i \in DOMAIN exercises :
           /\ exercises'[i].ref = exercises[i].ref /\ exercises'[i].word = exercises[i].word
           /\ exercises'[i].answers = IF i = idx + 1 THEN e ELSE exercises[i].answers
  BY <1>1, <1>3, <1>4, AnswersChange
<1>6. graded' = graded \cup {idx + 1} /\ words' = words /\ due' \subseteq due /\ results' = results
  BY DEF FinishExercise, Grade
<1>7. graded' = 1 .. idx + 1
  BY <1>2, <1>6 DEF RoundIsOn
<1>8. ListOK' /\ ResultsOK'
  BY <1>6 DEF RoundInv, ListOK, ResultsOK
<1>9. CASE idx + 1 = Len(exercises)
  <2>1. idx' = 0 /\ Show(Go("Summary"))
    BY <1>9 DEF FinishExercise
  <2>2. Piled(Go("Summary")) /\ ~In("Exercise", Go("Summary"))
    BY PiledGo
  <2>3. stack' = Go("Summary") /\ ViewsOK'
    BY <2>1, Shown
  <2>4. graded' = DOMAIN exercises'
    BY <1>2, <1>5, <1>7, <1>9
  <2>5. RoundOK'
    BY <1>5, <2>1, <2>2, <2>3, <2>4 DEF RoundOK
  <2> QED
    BY <1>8, <2>2, <2>3, <2>5 DEF RoundInv
<1>10. CASE idx + 1 # Len(exercises)
  <2>1. idx' = idx + 1 /\ stack' = stack /\ views' = views
    BY <1>10 DEF FinishExercise
  <2>2. ViewsOK' /\ Piled(stack')
    BY <2>1 DEF RoundInv, ViewsOK, ViewsOfTheScreen, On, Screen
  <2>3. /\ idx' \in Nat /\ idx' < Len(exercises') /\ idx' <= Len(exercises')
        /\ graded' \subseteq DOMAIN exercises'
    <3>1. /\ idx + 1 \in Nat /\ idx + 1 < Len(exercises) /\ idx + 1 <= Len(exercises)
          /\ 1 .. idx + 1 \subseteq 1 .. Len(exercises)
      <4>1. idx + 1 \in 1 .. Len(exercises)
        BY <1>2
      <4> QED
        BY <1>2, <1>10, <4>1, Onward
    <3>2. Len(exercises') = Len(exercises) /\ DOMAIN exercises' = 1 .. Len(exercises)
      BY <1>2, <1>5
    <3> QED
      BY <1>7, <2>1, <3>1, <3>2, Zenon
  <2>5. \A i \in DOMAIN exercises' :
          /\ exercises'[i].ref \in Used(words')
          /\ words'[exercises'[i].ref].word = exercises'[i].word
          /\ i > idx' => Open(exercises'[i].answers)
    <3> SUFFICES ASSUME NEW i \in 1 .. Len(exercises)
                 PROVE  /\ exercises'[i].ref \in Used(words')
                        /\ words'[exercises'[i].ref].word = exercises'[i].word
                        /\ i > idx' => Open(exercises'[i].answers)
      BY <1>2, <1>5
    <3>1. ASSUME NEW j \in Int, NEW l \in Nat, j > l + 1
          PROVE  j > l /\ j # l + 1
      BY <3>1
    <3>2. i > idx + 1 => i > idx /\ i # idx + 1
      <4>1. i \in Int /\ idx \in Nat
        BY <1>2
      <4> QED
        BY <3>1, <4>1
    <3>3. i > idx + 1 => Open(exercises'[i].answers)
      BY <1>2, <1>5, <3>2 DEF RoundIsOn
    <3>4. exercises[i].ref \in Used(words) /\ words[exercises[i].ref].word = exercises[i].word
      BY <1>2 DEF RoundIsOn
    <3>5. exercises'[i].ref = exercises[i].ref /\ exercises'[i].word = exercises[i].word
      BY <1>2, <1>5
    <3> QED
      BY <1>6, <2>1, <3>3, <3>4, <3>5
  <2>6. RoundIsOn'
    BY <1>7, <2>1, <2>3, <2>5 DEF RoundIsOn
  <2>7. ~In("Summary", stack)
    BY <1>2, PiledAbove DEF RoundInv
  <2>8. RoundOK'
    BY <1>5, <2>1, <2>3, <2>6, <2>7 DEF RoundOK
  <2> QED
    BY <1>8, <2>2, <2>8 DEF RoundInv
<1> QED
  BY <1>9, <1>10

\* What is known of the current screen.
LEMMA ScreenFacts ==
  ASSUME RoundInv
  PROVE  /\ Piled(stack) /\ Screen = Top(stack) /\ In(Screen, stack)
         /\ Screen # "Trainer" => Len(stack) > 1
<1>1. Piled(stack) /\ Screen = Top(stack)
  BY DEF RoundInv, Screen, Top
<1>2. Len(stack) \in Nat \ {0} /\ stack[1] = "Trainer"
  BY <1>1, PiledFacts DEF Piled
<1>3. Len(stack) = 1 => Top(stack) = "Trainer"
  BY <1>2 DEF Top
<1>4. Len(stack) = 1 \/ Len(stack) > 1
  <2>1. ASSUME NEW n \in Nat \ {0} PROVE n = 1 \/ n > 1
    BY <2>1
  <2> QED
    BY <1>2, <2>1
<1>5. Screen # "Trainer" => Len(stack) > 1
  BY <1>1, <1>3, <1>4
<1> QED
  BY <1>1, <1>5, PiledAbove

LEMMA StartStep ==
  ASSUME RoundInv, StartTraining
  PROVE  RoundInv'
<1> DEFINE s == Append(stack, "Exercise")
<1>1. Piled(stack) /\ Top(stack) = "Trainer"
  BY ScreenFacts DEF StartTraining, On
<1>2. Piled(s) /\ ~In("Summary", s)
  <2>1. "Exercise" \in Screens /\ <<Top(stack), "Exercise">> \in Covers
    BY <1>1 DEF Screens, Covers
  <2>2. Piled(s) /\ (In("Summary", s) <=> In("Summary", stack) \/ "Summary" = "Exercise")
    BY <1>1, <2>1, PiledPush
  <2>3. ~In("Summary", stack)
    BY <1>1, PiledAbove
  <2> QED
    BY <2>2, <2>3
<1>3. GoExercise(s, words, due) /\ words \in Table /\ due \in SUBSET Listed(words)
  BY DEF StartTraining, RoundInv, ListOK
<1> HIDE DEF s
<1>4. ASSUME NEW q, NEW t \in Table, NEW d \in SUBSET Listed(t), q = s, t = words, d = due
      PROVE  RoundInv'
  <2>1. GoExercise(q, t, d) /\ Piled(q) /\ ~In("Summary", q)
    BY <1>2, <1>3, <1>4
  <2> QED
    BY <2>1, GoExerciseFacts
<1> QED
  BY <1>3, <1>4

\* A new round from the review, the summary or the suggestions.
LEMMA RoundFollows ==
  ASSUME RoundInv, NEW t \in Table, NEW d \in SUBSET Listed(t), GoExercise(Go("Exercise"), t, d)
  PROVE  RoundInv'
<1>1. Piled(Go("Exercise")) /\ ~In("Summary", Go("Exercise"))
  BY PiledGo
<1> QED
  BY <1>1, GoExerciseFacts

LEMMA NextRoundStep ==
  ASSUME RoundInv, NextRound \/ LastResult
  PROVE  RoundInv'
<1>1. GoExercise(Go("Exercise"), words, due) /\ words \in Table /\ due \in SUBSET Listed(words)
  BY DEF NextRound, LastResult, RoundInv, ListOK
<1>2. ASSUME NEW t \in Table, NEW d \in SUBSET Listed(t), t = words, d = due
      PROVE  RoundInv'
  <2>1. GoExercise(Go("Exercise"), t, d)
    BY <1>1, <1>2
  <2> QED
    BY <2>1, RoundFollows
<1> QED
  BY <1>1, <1>2

\* One of the screens that the app bar, the bottom bar and the back key lead to.
LEMMA GoesTo ==
  ASSUME RoundInv, NEW x \in {"Trainer", "Words", "Suggestions"}, Show(Go(x)),
         UNCHANGED <<session, list>>
  PROVE  RoundInv'
<1>1. Piled(Go(x)) /\ ~In("Exercise", Go(x)) /\ ~In("Summary", Go(x))
  BY PiledGo
<1> QED
  BY <1>1, Moves

LEMMA Returns ==
  ASSUME RoundInv, Len(stack) > 1, Show(Below(stack)), UNCHANGED <<session, list>>
  PROVE  RoundInv'
<1>1. Piled(Below(stack)) /\ \A y : In(y, Below(stack)) => In(y, stack)
  BY ScreenFacts, PiledPop
<1>2. ASSUME NEW s, s = Below(stack) PROVE RoundInv'
  BY <1>1, <1>2, Moves
<1> QED
  BY <1>2

LEMMA NavigationStep ==
  ASSUME RoundInv,
         NothingDue \/ FindWords \/ AppBarBack \/ BackKey \/ OpenSettings
         \/ \E s \in {"Trainer", "Words"} : BottomBar(s)
  PROVE  RoundInv'
<1>1. CASE NothingDue \/ FindWords \/ \E s \in {"Trainer", "Words"} : BottomBar(s)
  <2>1. PICK x \in {"Trainer", "Words", "Suggestions"} : Show(Go(x)) /\ UNCHANGED <<session, list>>
    BY <1>1 DEF NothingDue, FindWords, BottomBar
  <2> QED
    BY <2>1, GoesTo
<1>2. CASE AppBarBack \/ BackKey
  BY <1>2, Returns DEF AppBarBack, BackKey
<1>3. CASE OpenSettings
  <2>1. Screen # "Settings" /\ Show(Append(stack, "Settings")) /\ UNCHANGED <<session, list>>
    BY <1>3 DEF OpenSettings, On
  <2>2. Top(stack) \in Screens /\ Piled(stack) /\ Top(stack) # "Settings"
    BY <2>1, ScreenFacts, PiledFacts
  <2>3. "Settings" \in Screens /\ <<Top(stack), "Settings">> \in Covers
    BY <2>2 DEF Screens, Covers
  <2>4. /\ Piled(Append(stack, "Settings"))
        /\ In("Exercise", Append(stack, "Settings")) => In("Exercise", stack)
        /\ In("Summary", Append(stack, "Settings")) => In("Summary", stack)
    BY <2>2, <2>3, PiledPush
  <2>5. ASSUME NEW s, s = Append(stack, "Settings") PROVE RoundInv'
    BY <2>1, <2>4, <2>5, Moves
  <2> QED
    BY <2>5
<1> QED
  BY <1>1, <1>2, <1>3

\* On the summary and the review: no exercise is on, and the summary is below.
LEMMA Reviews ==
  ASSUME RoundInv, On("Summary") \/ On("Review")
  PROVE  ~In("Exercise", stack) /\ In("Summary", stack) /\ Piled(stack) /\ Len(stack) > 1
         /\ exercises # <<>> /\ graded = DOMAIN exercises /\ idx \in Nat
<1>1. Piled(stack) /\ Top(stack) \in {"Summary", "Review"} /\ Len(stack) > 1 /\ In(Top(stack), stack)
  BY ScreenFacts DEF On
<1>2. ~In("Exercise", stack) /\ In("Summary", stack)
  BY <1>1, PiledAbove
<1> QED
  BY <1>1, <1>2 DEF RoundInv, RoundOK

\* Of a review step: the exercises are as they were.
LEMMA ReviewRests ==
  ASSUME RoundInv, On("Summary") \/ On("Review"), UNCHANGED <<exercises, graded>>,
         idx' \in Nat, ~In("Exercise", stack'), ListOK', ViewsOK', ResultsOK', Piled(stack')
  PROVE  RoundInv'
<1>1. RoundOK'
  BY Reviews, RoundRests
<1> QED
  BY <1>1 DEF RoundInv

LEMMA ViewStep ==
  ASSUME RoundInv, NEW shown, shown \subseteq DOMAIN exercises, View(shown)
  PROVE  RoundInv'
<1>1. /\ On("Summary") /\ exercises' = exercises /\ idx' = idx /\ graded' = graded
      /\ words' = words /\ due' = due
  BY DEF View, list
<1>2. PICK order \in [1 .. Cardinality(shown) -> shown] :
        results' = [i \in DOMAIN order |-> Result(exercises[order[i]])]
  BY DEF View
<1>3. ResultsOK'
  <2>1. \A i \in DOMAIN exercises : exercises[i].word \in Word /\ exercises[i].ref \in Ref
    BY DEF RoundInv, RoundOK, WellMade
  <2> QED
    BY <1>2, <2>1 DEF ResultsOK, Result
<1>4. ~In("Exercise", stack) /\ Piled(stack) /\ idx \in Nat /\ Top(stack) = "Summary"
  BY <1>1, Reviews, ScreenFacts DEF On
<1>5. PICK s : Show(s) /\ s \in {stack, Append(stack, "Review")}
  BY DEF View
<1>6. Piled(s) /\ ~In("Exercise", s)
  <2>1. "Review" \in Screens /\ <<Top(stack), "Review">> \in Covers
    BY <1>4 DEF Screens, Covers
  <2>2. Piled(Append(stack, "Review")) /\ ~In("Exercise", Append(stack, "Review"))
    BY <1>4, <2>1, PiledPush
  <2> QED
    BY <1>4, <1>5, <2>2
<1>7. stack' = s /\ ViewsOK'
  BY <1>5, Shown
<1>8. ListOK'
  BY <1>1 DEF RoundInv, ListOK
<1> QED
  BY <1>1, <1>3, <1>4, <1>6, <1>7, <1>8, ReviewRests

LEMMA ViewSteps ==
  ASSUME RoundInv, ViewAll \/ ViewErrors
  PROVE  RoundInv'
<1>1. PICK shown : shown \subseteq DOMAIN exercises /\ View(shown)
  BY DEF ViewAll, ViewErrors, Errors
<1> QED
  BY <1>1, ViewStep

LEMMA OutOfBoundsStep ==
  ASSUME RoundInv, OutOfBounds
  PROVE  RoundInv'
<1>1. /\ exercises' = <<>> /\ results' = <<>> /\ idx' = 0 /\ graded' = {}
      /\ words' = words /\ due' = due /\ stack' = <<"Trainer">> /\ ViewsOK'
  BY Shown DEF OutOfBounds, list
<1>2. Piled(stack') /\ ~In("Exercise", stack') /\ ~In("Summary", stack')
  BY <1>1, PiledGo DEF Go
<1>3. Numbered(exercises') /\ DOMAIN exercises' = {}
  BY <1>1, EmptySeq DEF Numbered
<1>4. RoundOK'
  BY <1>1, <1>2, <1>3 DEF RoundOK
<1>5. ListOK' /\ ResultsOK'
  BY <1>1 DEF RoundInv, ListOK, ResultsOK
<1> QED
  BY <1>1, <1>2, <1>4, <1>5 DEF RoundInv

LEMMA ReviewStep ==
  ASSUME RoundInv, NextResult \/ BackInReview
  PROVE  RoundInv'
<1>1. /\ On("Review") /\ exercises' = exercises /\ graded' = graded /\ results' = results
      /\ words' = words /\ due' = due
  BY DEF NextResult, BackInReview, Reviewing, list
<1>2. ~In("Exercise", stack) /\ Piled(stack) /\ Len(stack) > 1 /\ idx \in Nat
  BY <1>1, Reviews
<1>3. ListOK' /\ ResultsOK'
  BY <1>1 DEF RoundInv, ListOK, ResultsOK
<1>4. CASE NextResult \/ (BackInReview /\ BackToResult)
  <2>1. stack' = stack /\ views' = views /\ idx' \in Nat
    BY <1>2, <1>4 DEF NextResult, BackInReview, BackToResult
  <2>2. ViewsOK'
    BY <2>1 DEF RoundInv, ViewsOK, ViewsOfTheScreen, On, Screen
  <2> QED
    BY <1>1, <1>2, <1>3, <2>1, <2>2, ReviewRests
<1>5. CASE BackInReview /\ ~BackToResult
  <2>1. Show(Below(stack)) /\ idx' = idx
    BY <1>5 DEF BackInReview
  <2>2. stack' = Below(stack) /\ ViewsOK'
    BY <2>1, Shown
  <2>3. Piled(stack') /\ ~In("Exercise", stack')
    BY <1>2, <2>2, PiledPop
  <2> QED
    BY <1>1, <1>2, <1>3, <2>1, <2>2, <2>3, ReviewRests
<1> QED
  BY <1>4, <1>5

LEMMA ReviewRemoveStep ==
  ASSUME RoundInv, ReviewRemove
  PROVE  RoundInv'
<1> DEFINE t == WithoutSlot(results[idx + 1].ref)
           d == due \cap Listed(t)
<1>1. t \in Table
  <2>1. \A r : WithoutSlot(r) = words \/ WithoutSlot(r) = RemoveById(words, words[r].word)
    BY DEF WithoutSlot
  <2>2. words \in Table
    BY DEF RoundInv, ListOK
  <2> QED
    BY <2>1, <2>2, RemovedFacts
<1>2. d \in SUBSET Listed(t)
  OBVIOUS
<1>3. CASE idx + 1 = Len(results)
  <2>1. GoExercise(Go("Exercise"), t, d)
    BY <1>3 DEF ReviewRemove
  <2> HIDE DEF t, d
  <2>2. ASSUME NEW x \in Table, NEW y \in SUBSET Listed(x), x = t, y = d
        PROVE  RoundInv'
    <3>1. GoExercise(Go("Exercise"), x, y)
      BY <2>1, <2>2
    <3> QED
      BY <3>1, RoundFollows
  <2> QED
    BY <1>1, <1>2, <2>2
<1>4. CASE idx + 1 # Len(results)
  <2>1. /\ words' = t /\ due' = d /\ idx' = idx + 1 /\ stack' = stack /\ views' = views
        /\ exercises' = exercises /\ results' = results /\ graded' = graded /\ On("Review")
    BY <1>4 DEF ReviewRemove, Reviewing
  <2>2. ~In("Exercise", stack) /\ Piled(stack) /\ idx \in Nat
    BY <2>1, Reviews
  <2>3. ListOK' /\ ResultsOK' /\ ViewsOK'
    BY <1>1, <2>1 DEF RoundInv, ListOK, ResultsOK, ViewsOK, ViewsOfTheScreen, On, Screen
  <2> QED
    BY <2>1, <2>2, <2>3, ReviewRests
<1> QED
  BY <1>3, <1>4

-----------------------------------------------------------------------------
(* The list changes: only on screens that lie on no round. *)

\* The words stay, or no exercise is on.
LEMMA ListChanges ==
  ASSUME RoundInv, UNCHANGED <<stack, session>>, ListOK', ViewsOK',
         UNCHANGED words \/ Screen \in {"Words", "WordView"}
  PROVE  RoundInv'
<1>1. /\ stack' = stack /\ exercises' = exercises /\ graded' = graded /\ idx' = idx
      /\ results' = results
  BY DEF session
<1>2. In("Exercise", stack) => words' = words
  <2>1. In("Exercise", stack) => Screen \in {"Exercise", "Settings"}
    BY ScreenFacts, PiledAbove
  <2> QED
    BY <2>1
<1>3. idx' \in Nat /\ Piled(stack')
  BY <1>1 DEF RoundInv, RoundOK
<1>4. RoundOK'
  BY <1>1, <1>2, <1>3, RoundRests
<1>5. ResultsOK'
  BY <1>1 DEF RoundInv, ResultsOK
<1> QED
  BY <1>3, <1>4, <1>5 DEF RoundInv

LEMMA ToggleKeeps ==
  ASSUME RoundInv, NEW w \in Word, NEW listed \in BOOLEAN, Toggle(w, listed)
  PROVE  ListOK'
<1>1. words \in Table /\ due \subseteq Listed(words)
  BY DEF RoundInv, ListOK
<1>2. CASE listed
  <2>1. words' = RemoveById(words, w) /\ due' = due \ {w}
    BY <1>2 DEF Toggle
  <2> QED
    BY <1>1, <2>1, RemovedFacts DEF ListOK
<1>3. CASE ~listed
  <2>1. words' = Added(words, w) /\ due' \in {due, (due \cup {w}) \cap Listed(words')}
    BY <1>3 DEF Toggle
  <2>2. words' \in Table /\ Listed(words) \subseteq Listed(words')
    BY <1>1, <2>1, AddedFacts
  <2> QED
    BY <1>1, <2>1, <2>2 DEF ListOK
<1> QED
  BY <1>2, <1>3

LEMMA LongTapStep ==
  ASSUME RoundInv, NEW w \in Word, LongTap(w)
  PROVE  RoundInv'
<1>1. On("Words") /\ stack' = stack /\ views' = views /\ UNCHANGED session
  BY DEF LongTap
<1>2. ListOK'
  BY ToggleKeeps DEF LongTap
<1>3. ViewsOK'
  BY <1>1 DEF RoundInv, ViewsOK, ViewsOfTheScreen, On, Screen
<1> QED
  BY <1>1, <1>2, <1>3, ListChanges DEF On

View1 == [word : Word, listed : BOOLEAN]

LEMMA ToggleViewStep ==
  ASSUME RoundInv, ToggleView
  PROVE  RoundInv'
<1> DEFINE n == Len(views)
<1>1. On("WordView") /\ stack' = stack /\ UNCHANGED session
  BY DEF ToggleView
<1>2. views \in Seq(View1) /\ n \in Nat /\ n <= MaxViews /\ views # <<>>
  BY LenProperties DEF ToggleView, RoundInv, ViewsOK, View1
<1>3. n \in 1 .. n /\ views[n] \in View1
  BY <1>2, EmptySeq, ElementOfSeq
<1>4. views[n].word \in Word /\ views[n].listed \in BOOLEAN
  BY <1>3 DEF View1
<1>5. ListOK'
  BY <1>4, ToggleKeeps DEF ToggleView
<1> DEFINE c == [views[n] EXCEPT !.listed = ~@]
<1>6. views' = [views EXCEPT ![n] = c]
  BY DEF ToggleView
<1>7. c \in View1
  BY <1>3 DEF View1
<1> HIDE DEF c, n
<1>8. views' \in Seq(View1) /\ Len(views') = n
  BY <1>2, <1>3, <1>6, <1>7, ExceptSeq DEF n
<1>9. ViewsOK'
  BY <1>1, <1>2, <1>8 DEF ViewsOK, View1, ViewsOfTheScreen, On, Screen
<1> QED
  BY <1>1, <1>5, <1>9, ListChanges DEF On

LEMMA FallsDueStep ==
  ASSUME RoundInv, NEW w \in Word, FallsDue(w)
  PROVE  RoundInv'
<1>1. /\ UNCHANGED session /\ stack' = stack /\ views' = views /\ words' = words
      /\ due' = due \cup {w} /\ w \in Listed(words)
  BY DEF FallsDue
<1>2. ListOK'
  BY <1>1 DEF RoundInv, ListOK
<1>3. ViewsOK'
  BY <1>1 DEF RoundInv, ViewsOK, ViewsOfTheScreen, On, Screen
<1> QED
  BY <1>1, <1>2, <1>3, ListChanges

LEMMA AddSuggestedStep ==
  ASSUME RoundInv, AddSuggested
  PROVE  RoundInv'
<1>1. PICK q \in {p \in UNION {[1 .. n -> Word] : n \in 0 .. Cardinality(Word)} :
                    \A i, j \in DOMAIN p : p[i] = p[j] => i = j} :
        \E d \in SUBSET (Listed(AllAdded(q)) \ due) :
          GoExercise(Go("Exercise"), AllAdded(q), due \cup d)
  BY DEF AddSuggested
<1>2. PICK d \in SUBSET (Listed(AllAdded(q)) \ due) :
        GoExercise(Go("Exercise"), AllAdded(q), due \cup d)
  BY <1>1
<1>3. PICK n \in 0 .. Cardinality(Word) : q \in [1 .. n -> Word]
  OBVIOUS
<1>4. n \in Nat
  BY <1>3
<1>5. words \in Table /\ due \subseteq Listed(words)
  BY DEF RoundInv, ListOK
<1>6. AllAdded(q) \in Table /\ Listed(words) \subseteq Listed(AllAdded(q))
  BY <1>3, <1>4, <1>5, AllAddedFacts
<1>7. due \cup d \in SUBSET Listed(AllAdded(q))
  BY <1>2, <1>5, <1>6
<1>8. ASSUME NEW x \in Table, NEW y \in SUBSET Listed(x), x = AllAdded(q), y = due \cup d
      PROVE  RoundInv'
  <2>1. GoExercise(Go("Exercise"), x, y)
    BY <1>2, <1>8
  <2> QED
    BY <2>1, RoundFollows
<1> QED
  BY <1>6, <1>7, <1>8

-----------------------------------------------------------------------------
(* Word views. *)

LEMMA CopyFacts ==
  ASSUME NEW w \in Word, NEW c \in Copies(w)
  PROVE  c \in View1
<1>1. (IF w \in Listed(words) THEN {TRUE} ELSE BOOLEAN) \subseteq BOOLEAN
  OBVIOUS
<1>2. PICK l \in (IF w \in Listed(words) THEN {TRUE} ELSE BOOLEAN) : c = [word |-> w, listed |-> l]
  BY DEF Copies
<1>3. l \in BOOLEAN
  BY <1>1
<1> QED
  BY <1>2, <1>3 DEF View1

\* Only the stack of views and, from below, the word view's screen change.
LEMMA OpenViewStep ==
  ASSUME RoundInv, NEW w \in Word, OpenView(w)
  PROVE  RoundInv'
<1> DEFINE s == Append(stack, "WordView")
<1>1. /\ Screen \in {"Words", "Review"} /\ stack' = s
      /\ exercises' = exercises /\ results' = results /\ idx' = idx /\ graded' = graded
      /\ words' = words /\ due' = due
  BY DEF OpenView, On, Reviewing, list, session
<1>2. Piled(stack) /\ Top(stack) \in {"Words", "Review"} /\ ~In("Exercise", stack)
  BY <1>1, ScreenFacts, PiledAbove
<1>3. Piled(s) /\ Top(s) = "WordView" /\ \A y : In(y, s) <=> In(y, stack) \/ y = "WordView"
  <2>1. "WordView" \in Screens /\ <<Top(stack), "WordView">> \in Covers
    BY <1>2 DEF Screens, Covers
  <2> QED
    BY <1>2, <2>1, PiledPush
<1>4. PICK c \in Copies(w) : views' = <<c>>
  BY DEF OpenView
<1>5. c \in View1
  BY <1>4, CopyFacts
<1>6. <<c>> \in Seq(View1) /\ Len(<<c>>) = 1 /\ 1 <= MaxViews
  BY <1>5, RoundAssumption
<1>7. ViewsOK'
  <2>1. (ViewsOfTheScreen)'
    BY <1>1, <1>3 DEF ViewsOfTheScreen, On, Screen, Top
  <2> QED
    BY <1>4, <1>6, <2>1 DEF ViewsOK, View1
<1>8. ListOK' /\ ResultsOK' /\ idx' \in Nat
  BY <1>1 DEF RoundInv, ListOK, ResultsOK, RoundOK
<1>9. RoundOK'
  <2>1. ~In("Exercise", stack') /\ (In("Summary", stack') => In("Summary", stack))
    BY <1>1, <1>2, <1>3
  <2> QED
    BY <1>1, <1>8, <2>1, RoundRests
<1> QED
  BY <1>1, <1>3, <1>7, <1>8, <1>9 DEF RoundInv

LEMMA OpenNextStep ==
  ASSUME RoundInv, NEW w \in Word, OpenNext(w)
  PROVE  RoundInv'
<1>1. /\ On("WordView") /\ UNCHANGED session /\ words' = words /\ due' = due /\ stack' = stack
      /\ Len(views) < MaxViews
  BY DEF OpenNext, list
<1>2. PICK c \in Copies(w) : views' = Append(views, c)
  BY DEF OpenNext
<1>3. c \in View1 /\ views \in Seq(View1) /\ Len(views) \in Nat
  <2>1. views \in Seq(View1)
    BY DEF RoundInv, ViewsOK, View1
  <2> QED
    BY <1>2, <2>1, CopyFacts, LenProperties
<1>4. Append(views, c) \in Seq(View1) /\ Len(Append(views, c)) = Len(views) + 1
  BY <1>3, AppendProperties
<1>5. ViewsOK'
  <2>1. ViewsOfTheScreen'
    BY <1>1 DEF ViewsOfTheScreen, On, Screen
  <2>2. ASSUME NEW n \in Nat, n < MaxViews PROVE n + 1 <= MaxViews
    BY <2>2, RoundAssumption
  <2> QED
    BY <1>1, <1>2, <1>3, <1>4, <2>1, <2>2 DEF ViewsOK, View1
<1>6. ListOK'
  BY <1>1 DEF RoundInv, ListOK
<1> QED
  BY <1>1, <1>5, <1>6, ListChanges DEF On

LEMMA BackInViewStep ==
  ASSUME RoundInv, BackInView
  PROVE  RoundInv'
<1>1. On("WordView") /\ Len(stack) > 1 /\ UNCHANGED <<list, session>>
  BY ScreenFacts DEF BackInView, On
<1>2. CASE Len(views) > 1
  <2> DEFINE n == Len(views)
  <2>1. views' = Below(views) /\ stack' = stack
    BY <1>2 DEF BackInView
  <2>2. views \in Seq(View1) /\ n \in Nat /\ n <= MaxViews
    BY LenProperties DEF RoundInv, ViewsOK, View1
  <2>3. /\ SubSeq(views, 1, n - 1) \in Seq(View1)
        /\ Len(SubSeq(views, 1, n - 1)) = IF 1 <= n - 1 THEN (n - 1) - 1 + 1 ELSE 0
    <3> HIDE DEF n
    <3>1. 1 \in Int /\ n - 1 \in Int /\ 1 \in 1 .. n + 1 /\ n - 1 \in 0 .. n
      BY <1>2, <2>2 DEF n
    <3>2. \A i \in 1 .. n - 1 : views[i] \in View1
      BY <2>2, <3>1, ElementOfSeq DEF n
    <3> QED
      BY <2>2, <3>1, <3>2, SubSeqProperties
  <2>4. Len(SubSeq(views, 1, n - 1)) <= MaxViews
    <3> HIDE DEF n
    <3>1. (IF 1 <= n - 1 THEN (n - 1) - 1 + 1 ELSE 0) <= MaxViews
      BY <2>2, RoundAssumption
    <3> QED
      BY <2>3, <3>1
  <2>5. ViewsOK'
    <3>1. ViewsOfTheScreen'
      BY <1>1, <2>1 DEF ViewsOfTheScreen, On, Screen
    <3> QED
      BY <2>1, <2>3, <2>4, <3>1 DEF ViewsOK, View1, Below
  <2>6. ListOK' /\ words' = words
    BY <1>1 DEF RoundInv, ListOK, list
  <2> QED
    BY <1>1, <2>1, <2>5, <2>6, ListChanges
<1>3. CASE ~(Len(views) > 1)
  <2>1. Show(Below(stack))
    BY <1>3 DEF BackInView
  <2> QED
    BY <1>1, <2>1, Returns
<1> QED
  BY <1>2, <1>3

-----------------------------------------------------------------------------
LEMMA RoundStep ==
  ASSUME RoundInv, [Next]_vars
  PROVE  RoundInv'
<1>1. CASE Next
  <2>1. CASE StartTraining
    BY <2>1, StartStep
  <2>2. CASE NothingDue \/ FindWords \/ AppBarBack \/ BackKey \/ OpenSettings
             \/ \E s \in {"Trainer", "Words"} : BottomBar(s)
    BY <2>2, NavigationStep
  <2>3. CASE BackInExercise
    BY <2>3, BackInExerciseStep
  <2>4. CASE \E a \in Answer : SubmitAnswer(a) \/ FinishExercise(a)
    BY <2>4, SubmitStep, FinishStep
  <2>5. CASE ViewAll \/ ViewErrors
    BY <2>5, ViewSteps
  <2>6. CASE NextRound \/ LastResult
    BY <2>6, NextRoundStep
  <2>7. CASE OutOfBounds
    BY <2>7, OutOfBoundsStep
  <2>8. CASE NextResult \/ BackInReview
    BY <2>8, ReviewStep
  <2>9. CASE ReviewRemove
    BY <2>9, ReviewRemoveStep
  <2>10. CASE \E w \in Word : LongTap(w) \/ OpenView(w) \/ OpenNext(w) \/ FallsDue(w)
    BY <2>10, LongTapStep, OpenViewStep, OpenNextStep, FallsDueStep
  <2>11. CASE ToggleView
    BY <2>11, ToggleViewStep
  <2>12. CASE AddSuggested
    BY <2>12, AddSuggestedStep
  <2>13. CASE BackInView
    BY <2>13, BackInViewStep
  <2> QED
    BY <1>1, <2>1, <2>2, <2>3, <2>4, <2>5, <2>6, <2>7, <2>8, <2>9, <2>10, <2>11, <2>12, <2>13
       DEF Next
<1>2. CASE UNCHANGED vars
  <2>1. /\ UNCHANGED <<stack, session>> /\ words' = words /\ due' = due /\ views' = views
        /\ stack' = stack
    BY <1>2 DEF vars, session
  <2>2. ListOK' /\ ViewsOK'
    BY <2>1 DEF RoundInv, ListOK, ViewsOK, ViewsOfTheScreen, On, Screen
  <2> QED
    BY <2>1, <2>2, ListChanges
<1> QED
  BY <1>1, <1>2

-----------------------------------------------------------------------------
(* The theorems. *)

\* Whatever is reviewed and wherever the user goes, the screens, the round, its
\* exercises and their substages fit together (screen_trainer.cpp, exercises.cpp).
THEOREM RoundInvariant == Spec => []RoundInv
<1>1. RoundInv /\ [Next]_vars => RoundInv'
  BY RoundStep
<1> QED
  BY <1>1, RoundStart, PTL DEF Spec

\* Every variable of a training session keeps its type: the stack holds screens,
\* a due word is listed, the exercises and results name slots and words.
THEOREM RoundTyped == Spec => []TypeOK
<1>1. RoundInv => TypeOK
  <2> SUFFICES ASSUME RoundInv PROVE TypeOK
    OBVIOUS
  <2>1. stack \in Seq(Screens) /\ stack # <<>>
    BY DEF RoundInv, Piled
  <2>2. words \in Table /\ due \subseteq Listed(words) /\ idx \in Nat
    BY DEF RoundInv, ListOK, RoundOK
  <2>3. \A i \in DOMAIN exercises : exercises[i].word \in Word /\ exercises[i].ref \in Ref
    BY DEF RoundInv, RoundOK, WellMade
  <2>4. \A i \in DOMAIN results : results[i].word \in Word /\ results[i].ref \in Ref
    BY DEF RoundInv, ResultsOK
  <2>5. views \in Seq([word : Word, listed : BOOLEAN]) /\ Len(views) <= MaxViews
    BY DEF RoundInv, ViewsOK
  <2>6. graded \subseteq DOMAIN exercises
    BY DEF RoundInv, RoundOK
  <2> QED
    BY <2>1, <2>2, <2>3, <2>4, <2>5, <2>6 DEF TypeOK
<1> QED
  BY <1>1, RoundInvariant, PTL

\* The screens of OnStack are those In finds.
LEMMA OnStackIn ==
  ASSUME RoundInv, NEW x
  PROVE  x \in OnStack <=> In(x, stack)
BY DEF OnStack, In

\* While the exercise screen is on the stack, the slots of the exercises that are
\* left hold the words they were made of (screen_exercise.cpp saves a result
\* through the slot): the list changes only on screens that lie on no round.
THEOREM RefsStayFresh == Spec => []RefsFresh
<1>1. RoundInv => RefsFresh
  <2> SUFFICES ASSUME RoundInv, "Exercise" \in OnStack PROVE RefsFresh
    BY DEF RefsFresh
  <2>1. RoundIsOn
    BY OnStackIn DEF RoundInv, RoundOK
  <2> QED
    BY <2>1 DEF RoundIsOn, RefsFresh
<1> QED
  BY <1>1, RoundInvariant, PTL

\* The points of an exercise are the right answers given and not taken back,
\* though an undo finds the answer by its cursor alone (exercises.cpp).
THEOREM PointsStayExact == Spec => []PointsMatch
<1>1. RoundInv => PointsMatch
  BY DEF RoundInv, RoundOK, WellMade, Sound, PointsMatch
<1> QED
  BY <1>1, RoundInvariant, PTL

\* No exercise is graded twice: wherever the index moves while the exercise
\* screen is shown, the exercise it leaves had no result yet.
THEOREM GradesOnce == Spec => GradedOnce
<1>1. RoundInv /\ [Next]_vars =>
        [graded' # {} /\ On("Exercise") /\ idx' # idx => idx + 1 \notin graded]_vars
  <2> SUFFICES ASSUME RoundInv, On("Exercise") PROVE idx + 1 \notin graded
    OBVIOUS
  <2>1. In("Exercise", stack)
    BY ScreenFacts DEF On
  <2>2. graded = 1 .. idx /\ idx \in Nat
    BY <2>1 DEF RoundInv, RoundOK, RoundIsOn
  <2> QED
    BY <2>2
<1> QED
  BY <1>1, RoundInvariant, PTL DEF Spec, GradedOnce

\* The summary and the review find exercises, all of them graded, though they
\* read them unasked (screen_exercise_summary.cpp, screen_exercise_review.cpp).
THEOREM SummaryFindsRound == Spec => []SummaryHasRound
<1>1. RoundInv => SummaryHasRound
  <2> SUFFICES ASSUME RoundInv, OnStack \cap {"Summary", "Review"} # {}
               PROVE  exercises # <<>> /\ graded = DOMAIN exercises
    BY DEF SummaryHasRound
  <2>1. In("Summary", stack) \/ In("Review", stack)
    BY OnStackIn
  <2>2. In("Summary", stack)
    BY <2>1, ScreenFacts, PiledAbove
  <2> QED
    BY <2>2 DEF RoundInv, RoundOK
<1> QED
  BY <1>1, RoundInvariant, PTL

\* Copies of viewed words are on the stack of views only while the word view is
\* the current screen: no way out of it leaves them behind.
THEOREM ViewsAreOfTheScreen == Spec => []ViewsOfTheScreen
<1>1. RoundInv => ViewsOfTheScreen
  BY DEF RoundInv, ViewsOK
<1> QED
  BY <1>1, RoundInvariant, PTL

-----------------------------------------------------------------------------
(* The options of a substage. *)

IsPermutation(p, n) ==
  /\ p \in [1 .. n -> 1 .. n]
  /\ \A i, j \in 1 .. n : p[i] = p[j] => i = j
  /\ \A k \in 1 .. n : \E i \in 1 .. n : p[i] = k

\* r has the options s in another order, and correct is the place of the first.
LiesAs(opts2, s, p) == \A i \in 1 .. Len(s) : opts2[i] = s[p[i]]
Mixed(r, s) ==
  /\ r.opts \in [1 .. Len(s) -> Range(s)] /\ r.correct \in 1 .. Len(s)
  /\ \E p \in [1 .. Len(s) -> 1 .. Len(s)] :
       IsPermutation(p, Len(s)) /\ LiesAs(r.opts, s, p) /\ p[r.correct] = 1

\* The loop of shuffle_str_views goes down from the end; step[i] is what it has
\* made when the places after i are done.
ShuffleState(n, S) == [opts : [1 .. n -> S], correct : 1 .. n]
Shuffle(x, i, j) ==
  [opts |-> Swap(x.opts, i, j), correct |-> IF j = x.correct THEN i ELSE x.correct]
StepsDown(step, s, d) ==
  step = [i \in 1 .. Len(s) |->
            IF i = Len(s) THEN [opts |-> s, correct |-> 1]
            ELSE Shuffle(step[i + 1], i + 1, d[i + 1])]

\* As long as the loop is at or above it, the first option has not moved, or it
\* lies in the part that is done.
Done(r, i) == r.correct = 1 \/ r.correct > i

Swapped(q, o, n, S, i, j) ==
  /\ q \in [1 .. n -> S]
  /\ \A k \in 1 .. n : q[k] = IF k = j THEN o[i] ELSE IF k = i THEN o[j] ELSE o[k]

LEMMA SwapFacts ==
  ASSUME NEW n, NEW S, NEW o \in [1 .. n -> S], NEW i \in 1 .. n, NEW j \in 1 .. n
  PROVE  Swapped(Swap(o, i, j), o, n, S, i, j)
<1> DEFINE a == [o EXCEPT ![i] = o[j]]
<1>1. a \in [1 .. n -> S] /\ \A k \in 1 .. n : a[k] = IF k = i THEN o[j] ELSE o[k]
  OBVIOUS
<1>2. Swap(o, i, j) = [a EXCEPT ![j] = o[i]]
  BY DEF Swap
<1> HIDE DEF a
<1> QED
  BY <1>1, <1>2 DEF Swapped

LEMMA SwapPermutes ==
  ASSUME NEW n, NEW p, IsPermutation(p, n), NEW i \in 1 .. n, NEW j \in 1 .. n
  PROVE  IsPermutation(Swap(p, i, j), n)
<1> DEFINE q == Swap(p, i, j)
           turn(k) == IF k = j THEN i ELSE IF k = i THEN j ELSE k
<1>1. p \in [1 .. n -> 1 .. n]
  BY DEF IsPermutation
<1>a. Swapped(q, p, n, 1 .. n, i, j)
  BY <1>1, SwapFacts
<1> HIDE DEF q
<1>2. q \in [1 .. n -> 1 .. n] /\ \A k \in 1 .. n : q[k] = p[turn(k)] /\ turn(k) \in 1 .. n
  BY <1>a DEF Swapped
<1>3. \A k \in 1 .. n : turn(turn(k)) = k
  OBVIOUS
<1> HIDE DEF q, turn
<1>4. ASSUME NEW k \in 1 .. n, NEW l \in 1 .. n, q[k] = q[l] PROVE k = l
  <2>0. turn(k) \in 1 .. n /\ turn(l) \in 1 .. n /\ p[turn(k)] = p[turn(l)]
    BY <1>2, <1>4
  <2>1. turn(k) = turn(l)
    BY <2>0, Zenon DEF IsPermutation
  <2> QED
    BY <1>3, <2>1
<1>5. ASSUME NEW k \in 1 .. n PROVE \E l \in 1 .. n : q[l] = k
  <2>1. PICK m \in 1 .. n : p[m] = k
    BY DEF IsPermutation
  <2>2. turn(m) \in 1 .. n /\ q[turn(m)] = p[turn(turn(m))]
    BY <1>2
  <2> QED
    BY <1>3, <2>1, <2>2
<1>6. IsPermutation(q, n)
  BY <1>2, <1>4, <1>5 DEF IsPermutation
<1> QED
  BY <1>6 DEF q

\* One step of the loop.
LEMMA ShuffleMixes ==
  ASSUME NEW s, Len(s) \in Nat, NEW r, Mixed(r, s), NEW i \in 1 .. Len(s) - 1, Done(r, i + 1),
         NEW j \in 1 .. i + 1
  PROVE  Mixed(Shuffle(r, i + 1, j), s) /\ Done(Shuffle(r, i + 1, j), i)
<1> DEFINE n == Len(s)
           m == i + 1
           t == Shuffle(r, m, j)
           o == r.opts
           c == r.correct
           now == Swap(o, m, j)
<1>1. n \in Nat /\ m \in 1 .. n /\ j \in 1 .. n /\ m # 1 /\ i \in Nat /\ j <= m
  OBVIOUS
<1>2. o \in [1 .. n -> Range(s)] /\ c \in 1 .. n /\ (c = 1 \/ c > m)
  BY DEF Mixed, Done
<1>3. PICK p \in [1 .. n -> 1 .. n] : IsPermutation(p, n) /\ LiesAs(o, s, p) /\ p[c] = 1
  BY DEF Mixed
<1>4. t.opts = now /\ t.correct = IF j = c THEN m ELSE c
  BY DEF Shuffle
<1>a. m = i + 1
  OBVIOUS
<1> HIDE DEF t, o, c, m, n
<1>5. /\ now \in [1 .. n -> Range(s)]
      /\ \A k \in 1 .. n : now[k] = IF k = j THEN o[m] ELSE IF k = m THEN o[j] ELSE o[k]
  <2>1. Swapped(now, o, n, Range(s), m, j)
    BY <1>1, <1>2, SwapFacts
  <2> QED
    BY <2>1 DEF Swapped
<1> DEFINE q == Swap(p, m, j)
<1>6. /\ q \in [1 .. n -> 1 .. n]
      /\ \A k \in 1 .. n : q[k] = IF k = j THEN p[m] ELSE IF k = m THEN p[j] ELSE p[k]
  <2>1. Swapped(q, p, n, 1 .. n, m, j)
    BY <1>1, SwapFacts
  <2> QED
    BY <2>1 DEF Swapped
<1>7. IsPermutation(q, n)
  BY <1>1, <1>3, SwapPermutes
<1> HIDE DEF now, q
<1>8. LiesAs(now, s, q)
  <2>1. \A k \in 1 .. n : o[k] = s[p[k]]
    BY <1>3 DEF LiesAs, n
  <2>2. \A k \in 1 .. n : now[k] = s[q[k]]
    BY <1>1, <1>5, <1>6, <2>1
  <2> QED
    BY <2>2 DEF LiesAs, n
<1>9. t.correct \in 1 .. n /\ q[t.correct] = 1
  <2>1. CASE j = c
    BY <1>1, <1>3, <1>4, <1>6, <2>1
  <2>2. CASE j # c
    <3>1. c # m
      BY <1>1, <1>2
    <3> QED
      BY <1>2, <1>3, <1>4, <1>6, <2>2, <3>1
  <2> QED
    BY <2>1, <2>2
<1>10. Done(t, i)
  <2>1. t.correct = m \/ t.correct = c
    BY <1>4
  <2>2. m > i
    BY <1>1, <1>a
  <2>3. c = 1 \/ c > i
    BY <1>1, <1>2, <1>a
  <2> QED
    BY <2>1, <2>2, <2>3 DEF Done
<1>11. Mixed(t, s)
  BY <1>4, <1>5, <1>6, <1>7, <1>8, <1>9 DEF Mixed, n
<1> QED
  BY <1>10, <1>11 DEF t, m

LEMMA StepsExist ==
  ASSUME NEW s, Len(s) \in Nat \ {0}, s \in [1 .. Len(s) -> Range(s)], NEW d \in Draws(Len(s))
  PROVE  \E step : StepsDown(step, s, d)
<1> DEFINE n == Len(s)
           D == ShuffleState(n, Range(s))
           base == [opts |-> s, correct |-> 1]
           F == [k \in 1 .. n - 1 |-> [x \in D |-> Shuffle(x, n - k + 1, d[n - k + 1])]]
<1>1. base \in D
  BY DEF ShuffleState
<1>2. \A i \in 2 .. n : d[i] \in 1 .. n /\ d[i] <= i
  BY DEF Draws
<1>3. ASSUME NEW k \in 1 .. n - 1, NEW x \in D
      PROVE  Shuffle(x, n - k + 1, d[n - k + 1]) \in D
  <2>1. n - k + 1 \in 2 .. n /\ n - k + 1 \in 1 .. n
    OBVIOUS
  <2>2. d[n - k + 1] \in 1 .. n
    BY <1>2, <2>1
  <2> DEFINE i == n - k + 1
             j == d[n - k + 1]
             S == Range(s)
  <2>3. i \in 1 .. n /\ j \in 1 .. n
    BY <2>1, <2>2
  <2>4. x.opts \in [1 .. n -> S] /\ x.correct \in 1 .. n
    BY DEF ShuffleState
  <2> HIDE DEF i, j, S, n
  <2>5. Swap(x.opts, i, j) \in [1 .. n -> S]
    BY <2>3, <2>4, SwapFacts DEF Swapped
  <2>6. Shuffle(x, i, j) \in ShuffleState(n, S)
    BY <2>3, <2>4, <2>5 DEF Shuffle, ShuffleState
  <2> QED
    BY <2>6 DEF i, j, S
<1> HIDE DEF D, base
<1>4. F \in [1 .. n - 1 -> [D -> D]]
  BY <1>3
<1>5. CanIterate(n - 1, D, base, F)
  BY <1>1, <1>4 DEF CanIterate
<1> HIDE DEF F
<1>6. PICK f : Iterates(f, n - 1, D, base, F)
  BY <1>5, Iterated
<1> DEFINE step == [i \in 1 .. n |-> f[n - i]]
<1>7. ASSUME NEW i \in 1 .. n
      PROVE  step[i] = IF i = n THEN base ELSE Shuffle(step[i + 1], i + 1, d[i + 1])
  <2>1. CASE i = n
    <3>1. n - i = 0
      BY <2>1
    <3> QED
      BY <1>6, <2>1, <3>1 DEF Iterates
  <2>2. CASE i # n
    <3> DEFINE k == n - i
    <3>0. ASSUME NEW l \in Nat \ {0}, i \in 1 .. l, i # l
          PROVE  /\ l - i \in 1 .. l - 1 /\ l - (i + 1) = (l - i) - 1
                 /\ l - (l - i) + 1 = i + 1 /\ i + 1 \in 1 .. l /\ (l - i) - 1 \in 0 .. l - 1
      BY <3>0
    <3>1. /\ k \in 1 .. n - 1 /\ n - (i + 1) = k - 1 /\ n - k + 1 = i + 1
          /\ i + 1 \in 1 .. n /\ k - 1 \in 0 .. n - 1
      BY <2>2, <3>0
    <3>2. step[i] = f[k] /\ step[i + 1] = f[k - 1]
      BY <3>1
    <3> HIDE DEF k, step, n
    <3>3. f[k] = F[k][f[k - 1]] /\ f[k - 1] \in D
      <4>1. f \in [0 .. n - 1 -> D] /\ \A l \in 1 .. n - 1 : f[l] = F[l][f[l - 1]]
        BY <1>6 DEF Iterates
      <4>2. k - 1 \in 0 .. n - 1
        BY <3>1
      <4> QED
        BY <3>1, <4>1, <4>2
    <3>4. F[k][f[k - 1]] = Shuffle(f[k - 1], n - k + 1, d[n - k + 1])
      BY <3>1, <3>3 DEF F
    <3> QED
      BY <2>2, <3>1, <3>2, <3>3, <3>4
  <2> QED
    BY <2>1, <2>2
<1>8. step = [i \in 1 .. n |-> step[i]]
  OBVIOUS
<1> HIDE DEF step
<1>9. StepsDown(step, s, d)
  BY <1>7, <1>8 DEF StepsDown, base
<1> QED
  BY <1>9

\* shuffle_str_views moves the options about, and tells where the first one has
\* gone, whatever is drawn: none is lost, none comes twice.
THEOREM ShuffleFollowsTheAnswer ==
  ASSUME NEW S, NEW s \in Seq(S), s # <<>>, NEW d \in Draws(Len(s))
  PROVE  Mixed(Shuffled(s, d), s)
<1> DEFINE n == Len(s)
           Fair(i, r) == Mixed(r, s) /\ Done(r, i)
<1>1. n \in Nat \ {0} /\ s \in [1 .. n -> Range(s)]
  <2>1. n \in Nat /\ DOMAIN s = 1 .. n /\ s \in [1 .. n -> S]
    BY LenProperties
  <2>2. n # 0
    BY EmptySeq
  <2>3. s = [i \in 1 .. n |-> s[i]] /\ \A i \in 1 .. n : s[i] \in Range(s)
    BY <2>1 DEF Range
  <2> HIDE DEF n
  <2> QED
    BY <2>1, <2>2, <2>3
<1> DEFINE step == CHOOSE f : StepsDown(f, s, d)
<1>2. Shuffled(s, d) = step[1]
  BY DEF Shuffled, StepsDown, Shuffle
<1>3. StepsDown(step, s, d)
  BY <1>1, StepsExist
<1> HIDE DEF step
<1>4. step[n] = [opts |-> s, correct |-> 1]
      /\ \A i \in 1 .. n - 1 : step[i] = Shuffle(step[i + 1], i + 1, d[i + 1])
  <2>1. n \in 1 .. n
    BY <1>1
  <2>2. \A i \in 1 .. n : step[i] = IF i = n THEN [opts |-> s, correct |-> 1]
                                    ELSE Shuffle(step[i + 1], i + 1, d[i + 1])
    BY <1>3 DEF StepsDown
  <2> HIDE DEF n
  <2>3. \A i \in 1 .. n - 1 : i \in 1 .. n /\ i # n
    BY <1>1
  <2> QED
    BY <2>1, <2>2, <2>3
<1>5. Fair(n, step[n])
  <2> DEFINE id == [i \in 1 .. n |-> i]
             r == step[n]
  <2>1. r.opts = s /\ r.correct = 1 /\ 1 \in 1 .. n
    BY <1>1, <1>4
  <2>2. id \in [1 .. n -> 1 .. n] /\ id[1] = 1 /\ \A i \in 1 .. n : id[i] = i
    BY <1>1
  <2> HIDE DEF id, r
  <2>3. IsPermutation(id, n) /\ LiesAs(s, s, id)
    BY <2>2 DEF IsPermutation, LiesAs
  <2>4. Mixed(r, s) /\ Done(r, n)
    BY <1>1, <2>1, <2>2, <2>3 DEF Mixed, Done
  <2> QED
    BY <2>4 DEF r
<1> DEFINE Good == {k \in 0 .. n - 1 : Fair(n - k, step[n - k])}
<1> HIDE DEF Fair
<1>6. 0 \in Good
  <2>1. 0 \in 0 .. n - 1 /\ n - 0 = n
    BY <1>1
  <2> QED
    BY <1>5, <2>1
<1>7. ASSUME NEW k \in 0 .. (n - 1) - 1, k \in Good PROVE k + 1 \in Good
  <2> DEFINE i == n - (k + 1)
  <2>1. i \in 1 .. n - 1 /\ i + 1 = n - k /\ k + 1 \in 0 .. n - 1
    BY <1>1
  <2>2. Fair(n - k, step[n - k])
    BY <1>7
  <2> HIDE DEF i
  <2>3. Mixed(step[i + 1], s) /\ Done(step[i + 1], i + 1)
    BY <2>1, <2>2 DEF Fair
  <2>4. d[i + 1] \in 1 .. i + 1
    <3>1. i + 1 \in 2 .. n /\ i \in Nat
      BY <1>1, <2>1
    <3>2. d[i + 1] \in 1 .. n /\ d[i + 1] <= i + 1
      BY <3>1 DEF Draws
    <3> DEFINE e == d[i + 1]
    <3>3. e \in 1 .. n /\ e <= i + 1
      BY <3>2
    <3> HIDE DEF e
    <3>4. e \in 1 .. i + 1
      BY <1>1, <3>1, <3>3
    <3> QED
      BY <3>4 DEF e
  <2>5. Mixed(Shuffle(step[i + 1], i + 1, d[i + 1]), s)
        /\ Done(Shuffle(step[i + 1], i + 1, d[i + 1]), i)
    BY <1>1, <2>1, <2>3, <2>4, ShuffleMixes
  <2>6. Fair(i, step[i])
    BY <1>4, <2>1, <2>5 DEF Fair
  <2>7. Fair(n - (k + 1), step[n - (k + 1)])
    BY <2>6 DEF i
  <2> QED
    BY <2>1, <2>7
<1> HIDE DEF Good
<1>8. \A k \in 0 .. n - 1 : k \in Good
  <2>1. n - 1 \in Nat
    BY <1>1
  <2> QED
    BY <1>6, <1>7, <2>1, Induction
<1>9. n - 1 \in Good /\ n - (n - 1) = 1
  BY <1>1, <1>8
<1>10. Fair(1, step[1])
  BY <1>9 DEF Good
<1> QED
  BY <1>2, <1>10 DEF Fair

LEMMA LeastOf ==
  ASSUME NEW T, T \subseteq Nat, T # {}
  PROVE  Min(T) \in T /\ \A s \in T : Min(T) <= s
<1>1. PICK r \in T : \A s \in T : <<s, r>> \notin OpToRel(<, Nat)
  BY NatLessThanWellFounded, WFMin
<1>2. \A x, y \in Nat : y < x => <<y, x>> \in OpToRel(<, Nat)
  BY DEF OpToRel
<1>3. \A s \in T : r <= s
  <2> TAKE s \in T
  <2>1. r \in Nat /\ s \in Nat /\ ~(s < r)
    BY <1>1, <1>2
  <2> QED
    BY <2>1
<1> QED
  BY <1>3 DEF Min

LEMMA GreatestIn ==
  ASSUME NEW n \in Nat, NEW S, S \subseteq 0 .. n, S # {}
  PROVE  Max(S) \in S /\ \A i \in S : i <= Max(S)
<1> DEFINE T == {n - i : i \in S}
<1>1. T \subseteq Nat /\ T # {}
  <2>1. \A i \in 0 .. n : n - i \in Nat
    OBVIOUS
  <2>2. \A i \in S : n - i \in Nat
    BY <2>1
  <2> QED
    BY <2>2
<1>2. \A i \in S : n - i \in T
  OBVIOUS
<1>3. Min(T) \in T
  <2> HIDE DEF T
  <2> QED
    BY <1>1, LeastOf
<1>4. PICK m \in S : Min(T) = n - m
  BY <1>3
<1>5. \A t \in T : Min(T) <= t
  <2> HIDE DEF T
  <2> QED
    BY <1>1, LeastOf
<1> HIDE DEF T
<1>6. \A i \in S : m >= i
  <2> TAKE i \in S
  <2>1. m \in Int /\ i \in Int /\ n - m <= n - i
    BY <1>2, <1>4, <1>5
  <2> QED
    BY <2>1
<1>7. \E x \in S : \A y \in S : x >= y
  BY <1>6
<1>8. Max(S) \in S /\ \A y \in S : Max(S) >= y
  BY <1>7 DEF Max
<1>9. ASSUME NEW i \in S PROVE i <= Max(S)
  <2>1. \A x \in S : x \in Int
    OBVIOUS
  <2>2. i \in Int /\ Max(S) \in Int
    BY <1>8, <2>1, Zenon
  <2> QED
    BY <1>8, <2>2
<1> QED
  BY <1>8, <1>9

-----------------------------------------------------------------------------
(* Words, and the parts of a word put together. *)

\* Words over the letters S. A text is a sequence of words.
Words(S) == Seq(S)

LEMMA WordFacts ==
  ASSUME NEW S
  PROVE  /\ << >> \in Words(S)
         /\ \A v \in Words(S) : v \o << >> = v /\ << >> \o v = v /\ Len(v) \in Nat
         /\ \A v, w \in Words(S) : v \o w \in Words(S)
         /\ \A v, w, x \in Words(S) : (v \o w) \o x = v \o (w \o x)
  BY EmptySeq, ConcatEmptySeq, ConcatProperties, ConcatAssociative, LenProperties DEF Words

Glues(g, s) == g = [i \in 1 .. Len(s) |-> IF i = 1 THEN s[i] ELSE g[i - 1] \o s[i]]

LEMMA GlueExists ==
  ASSUME NEW S, NEW s \in Seq(Words(S)), s # << >>
  PROVE  \E g : Glues(g, s)
<1> DEFINE n == Len(s)
           D == Words(S)
           F == [k \in 1 .. n - 1 |-> [w \in D |-> w \o s[k + 1]]]
<1>1. n \in Nat \ {0} /\ \A i \in 1 .. n : s[i] \in D
  BY EmptySeq, ElementOfSeq
<1> HIDE DEF n
<1>2. \A k \in 1 .. n - 1, w \in D : w \o s[k + 1] \in D
  <2> TAKE k \in 1 .. n - 1, w \in D
  <2>1. s[k + 1] \in D
    BY <1>1
  <2> QED
    BY <2>1, WordFacts
<1> HIDE DEF D
<1>3. CanIterate(n - 1, D, s[1], F)
  <2>1. F \in [1 .. n - 1 -> [D -> D]]
    BY <1>2
  <2>2. n - 1 \in Nat /\ s[1] \in D
    BY <1>1
  <2> QED
    BY <2>1, <2>2 DEF CanIterate
<1> HIDE DEF F
<1>4. PICK f : Iterates(f, n - 1, D, s[1], F)
  BY <1>3, Iterated
<1> DEFINE g == [i \in 1 .. n |-> f[i - 1]]
<1>5. ASSUME NEW i \in 1 .. n PROVE g[i] = IF i = 1 THEN s[i] ELSE g[i - 1] \o s[i]
  <2>1. CASE i = 1
    BY <1>4, <2>1 DEF Iterates
  <2>2. CASE i # 1
    <3>1. i - 1 \in 1 .. n - 1 /\ (i - 1) - 1 \in 0 .. n - 1 /\ i - 1 \in 1 .. n /\ (i - 1) + 1 = i
      BY <1>1, <2>2
    <3>2. f[i - 1] = F[i - 1][f[(i - 1) - 1]] /\ f[(i - 1) - 1] \in D
      BY <1>4, <3>1 DEF Iterates
    <3>3. f[i - 1] = f[(i - 1) - 1] \o s[i]
      BY <3>1, <3>2 DEF F
    <3> QED
      BY <2>2, <3>1, <3>3
  <2> QED
    BY <2>1, <2>2
<1>6. g = [i \in 1 .. n |-> g[i]]
  OBVIOUS
<1> HIDE DEF g
<1>7. Glues(g, s)
  BY <1>5, <1>6 DEF Glues, n
<1> QED
  BY <1>7

LEMMA GlueFacts ==
  ASSUME NEW S, NEW s \in Seq(Words(S)), NEW g, Glues(g, s)
  PROVE  \A i \in 1 .. Len(s) : g[i] \in Words(S) /\ g[i] = IF i = 1 THEN s[i] ELSE g[i - 1] \o s[i]
<1> DEFINE n == Len(s)
<1>1. n \in Nat /\ \A i \in 1 .. n : s[i] \in Words(S)
  BY LenProperties, ElementOfSeq
<1>2. \A i \in 1 .. n : g[i] = IF i = 1 THEN s[i] ELSE g[i - 1] \o s[i]
  BY DEF Glues
<1> HIDE DEF n
<1> DEFINE Good == {i \in 0 .. n : i = 0 \/ g[i] \in Words(S)}
<1>3. 0 \in Good
  BY <1>1
<1>4. ASSUME NEW i \in 0 .. n - 1, i \in Good PROVE i + 1 \in Good
  <2>1. i + 1 \in 1 .. n /\ (i + 1) - 1 = i
    BY <1>1
  <2>2. CASE i = 0
    BY <1>1, <1>2, <2>1, <2>2
  <2>3. CASE i # 0
    <3>1. g[i + 1] = g[i] \o s[i + 1]
      <4>1. i + 1 # 1
        BY <2>1, <2>3
      <4> QED
        BY <1>2, <2>1, <4>1
    <3>2. g[i] \in Words(S) /\ s[i + 1] \in Words(S)
      BY <1>1, <1>4, <2>1, <2>3
    <3>3. g[i + 1] \in Words(S)
      BY <3>1, <3>2, WordFacts
    <3> QED
      BY <2>1, <3>3
  <2> QED
    BY <2>2, <2>3
<1> HIDE DEF Good
<1>5. \A i \in 0 .. n : i \in Good
  BY <1>1, <1>3, <1>4, Induction
<1>6. \A i \in 1 .. n : g[i] \in Words(S)
  <2> TAKE i \in 1 .. n
  <2>1. i \in 0 .. n /\ i # 0
    BY <1>1
  <2> QED
    BY <1>5, <2>1 DEF Good
<1> QED
  BY <1>2, <1>6 DEF n

\* What FlattenSeq makes, one part after the other.
LEMMA FlattenEmpty == FlattenSeq(<< >>) = << >>
  BY EmptySeq DEF FlattenSeq

LEMMA FlattenGlue ==
  ASSUME NEW S, NEW s \in Seq(Words(S)), s # << >>
  PROVE  \E g : Glues(g, s) /\ FlattenSeq(s) = g[Len(s)]
<1> DEFINE g == CHOOSE f : Glues(f, s)
<1>1. Glues(g, s)
  BY GlueExists
<1>2. Len(s) # 0
  BY EmptySeq
<1>3. FlattenSeq(s) = g[Len(s)]
  BY <1>2 DEF FlattenSeq, Glues
<1> QED
  BY <1>1, <1>3

LEMMA FlattenLonger ==
  ASSUME NEW S, NEW s \in Seq(Words(S)), NEW t \in Seq(Words(S)), NEW w \in Words(S),
         Len(t) = Len(s) + 1, t[Len(s) + 1] = w, \A i \in 1 .. Len(s) : t[i] = s[i]
  PROVE  FlattenSeq(s) \in Words(S) /\ FlattenSeq(t) = FlattenSeq(s) \o w
<1> DEFINE n == Len(s)
<1>1. n \in Nat /\ t # << >> /\ Len(t) = n + 1 /\ t[n + 1] = w /\ \A i \in 1 .. n : t[i] = s[i]
  BY LenProperties, EmptySeq
<1>2. PICK h : Glues(h, t) /\ FlattenSeq(t) = h[n + 1]
  BY <1>1, FlattenGlue
<1> HIDE DEF n
<1>3. \A i \in 1 .. n + 1 : h[i] \in Words(S) /\ h[i] = IF i = 1 THEN t[i] ELSE h[i - 1] \o t[i]
  <2>1. \A i \in 1 .. Len(t) : h[i] \in Words(S) /\ h[i] = IF i = 1 THEN t[i] ELSE h[i - 1] \o t[i]
    BY <1>2, GlueFacts
  <2> QED
    BY <1>1, <2>1
<1>4. CASE s = << >>
  <2>1. n = 0 /\ FlattenSeq(s) = << >>
    BY <1>4, EmptySeq, FlattenEmpty DEF n
  <2>2. h[n + 1] = w
    BY <1>1, <1>3, <2>1
  <2>3. << >> \in Words(S) /\ << >> \o w = w
    BY WordFacts
  <2> QED
    BY <1>2, <2>1, <2>2, <2>3
<1>5. CASE s # << >>
  <2>1. n # 0
    BY <1>5, EmptySeq DEF n
  <2>2. PICK g : Glues(g, s) /\ FlattenSeq(s) = g[n]
    BY <1>5, FlattenGlue DEF n
  <2>3. \A i \in 1 .. n : g[i] \in Words(S) /\ g[i] = IF i = 1 THEN s[i] ELSE g[i - 1] \o s[i]
    BY <2>2, GlueFacts DEF n
  <2> DEFINE Good == {i \in 0 .. n : i = 0 \/ g[i] = h[i]}
  <2>4. 0 \in Good
    BY <1>1
  <2>5. ASSUME NEW i \in 0 .. n - 1, i \in Good PROVE i + 1 \in Good
    <3>1. i + 1 \in 1 .. n /\ (i + 1) - 1 = i /\ i + 1 \in 1 .. n + 1 /\ i + 1 \in 0 .. n
      BY <1>1
    <3>2. t[i + 1] = s[i + 1]
      BY <1>1, <3>1
    <3>3. CASE i = 0
      BY <1>3, <2>3, <3>1, <3>2, <3>3
    <3>4. CASE i # 0
      <4>1. i + 1 # 1 /\ g[i] = h[i]
        BY <2>5, <3>1, <3>4
      <4>2. g[i + 1] = g[i] \o s[i + 1] /\ h[i + 1] = h[i] \o t[i + 1]
        BY <1>3, <2>3, <3>1, <4>1
      <4> QED
        BY <3>1, <3>2, <4>1, <4>2
    <3> QED
      BY <3>3, <3>4
  <2> HIDE DEF Good
  <2>6. \A i \in 0 .. n : i \in Good
    BY <1>1, <2>4, <2>5, Induction
  <2>7. g[n] = h[n]
    <3>1. n \in 0 .. n
      BY <1>1
    <3> QED
      BY <2>1, <2>6, <3>1 DEF Good
  <2>8. h[n + 1] = h[n] \o w
    <3>1. n + 1 \in 1 .. n + 1 /\ n + 1 # 1 /\ (n + 1) - 1 = n
      BY <1>1, <2>1
    <3> QED
      BY <1>1, <1>3, <3>1
  <2>9. g[n] \in Words(S)
    <3>1. n \in 1 .. n
      BY <1>1, <2>1
    <3> QED
      BY <2>3, <3>1
  <2> QED
    BY <1>2, <2>2, <2>7, <2>8, <2>9
<1> QED
  BY <1>4, <1>5

LEMMA FlattenAppend ==
  ASSUME NEW S, NEW s \in Seq(Words(S)), NEW w \in Words(S)
  PROVE  FlattenSeq(s) \in Words(S) /\ FlattenSeq(Append(s, w)) = FlattenSeq(s) \o w
<1>1. /\ Append(s, w) \in Seq(Words(S)) /\ Len(Append(s, w)) = Len(s) + 1
      /\ Append(s, w)[Len(s) + 1] = w /\ \A i \in 1 .. Len(s) : Append(s, w)[i] = s[i]
  BY AppendProperties
<1> QED
  BY <1>1, FlattenLonger

LEMMA FlattenOne ==
  ASSUME NEW S, NEW w \in Words(S)
  PROVE  FlattenSeq(<<w>>) = w /\ <<w>> \in Seq(Words(S)) /\ <<w>> # << >>
<1>1. << >> \in Seq(Words(S)) /\ <<w>> = Append(<< >>, w)
  BY EmptySeq
<1>2. FlattenSeq(<<w>>) = << >> \o w
  BY <1>1, FlattenEmpty, FlattenAppend
<1>3. << >> \o w = w
  BY WordFacts
<1> QED
  BY <1>1, <1>2, <1>3, AppendProperties

LEMMA WordsAssociate ==
  ASSUME NEW S, NEW v \in Words(S), NEW w \in Words(S), NEW x \in Words(S)
  PROVE  (v \o w) \o x = v \o (w \o x)
  BY ConcatAssociative DEF Words

LEMMA TextsAppend ==
  ASSUME NEW W, NEW s \in Seq(W), NEW u \in Seq(W), NEW w \in W
  PROVE  s \o u \in Seq(W) /\ s \o Append(u, w) = Append(s \o u, w)
<1>1. <<w>> \in Seq(W) /\ Append(u, w) = u \o <<w>>
  BY AppendIsConcat
<1>2. s \o u \in Seq(W) /\ s \o (u \o <<w>>) = (s \o u) \o <<w>>
  BY <1>1, ConcatProperties, ConcatAssociative
<1>3. Append(s \o u, w) = (s \o u) \o <<w>>
  BY <1>2, AppendIsConcat
<1> QED
  BY <1>1, <1>2, <1>3

LEMMA FlattenStep ==
  ASSUME NEW S, NEW s \in Seq(Words(S)), NEW u \in Seq(Words(S)), NEW w \in Words(S),
         FlattenSeq(s \o u) = FlattenSeq(s) \o FlattenSeq(u)
  PROVE  FlattenSeq(s \o Append(u, w)) = FlattenSeq(s) \o FlattenSeq(Append(u, w))
<1> DEFINE a == FlattenSeq(s)
           b == FlattenSeq(u)
           y == s \o u
<1>0. a \in Words(S) /\ b \in Words(S) /\ w \in Words(S)
  BY FlattenAppend
<1>1. FlattenSeq(Append(u, w)) = b \o w
  BY FlattenAppend
<1>2. y \in Seq(Words(S)) /\ s \o Append(u, w) = Append(y, w)
  BY TextsAppend
<1>3. FlattenSeq(y) = a \o b
  OBVIOUS
<1> HIDE DEF a, b, y
<1>4. FlattenSeq(Append(y, w)) = FlattenSeq(y) \o w
  BY <1>2, FlattenAppend
<1>5. (a \o b) \o w = a \o (b \o w)
  BY <1>0, WordsAssociate
<1> QED
  BY <1>1, <1>2, <1>3, <1>4, <1>5 DEF a

LEMMA FlattenConcat ==
  ASSUME NEW S, NEW s \in Seq(Words(S)), NEW t \in Seq(Words(S))
  PROVE  /\ FlattenSeq(s) \in Words(S) /\ s \o t \in Seq(Words(S))
         /\ FlattenSeq(s \o t) = FlattenSeq(s) \o FlattenSeq(t)
<1> DEFINE n == Len(t)
           upto(k) == SubSeq(t, 1, k)
           Good == {k \in 0 .. n : FlattenSeq(s \o upto(k)) = FlattenSeq(s) \o FlattenSeq(upto(k))}
<1>0. \A x \in Seq(Words(S)) : FlattenSeq(x) \in Words(S)
  <2> TAKE x \in Seq(Words(S))
  <2>1. << >> \in Words(S)
    BY WordFacts
  <2> QED
    BY <2>1, FlattenAppend
<1>1. n \in Nat /\ \A i \in 1 .. n : t[i] \in Words(S)
  BY LenProperties, ElementOfSeq
<1>2. \A k \in 0 .. n : upto(k) \in Seq(Words(S))
  <2> TAKE k \in 0 .. n
  <2>1. \A i \in 1 .. k : t[i] \in Words(S)
    BY <1>1
  <2> HIDE DEF n
  <2> QED
    BY <1>1, <2>1, SubSeqProperties
<1>3. 0 \in Good
  <2>1. upto(0) = << >>
    BY SubSeqEmpty
  <2>2. s \o << >> = s /\ FlattenSeq(s) \o << >> = FlattenSeq(s)
    BY <1>0, ConcatEmptySeq, WordFacts
  <2>3. FlattenSeq(s \o upto(0)) = FlattenSeq(s) \o FlattenSeq(upto(0))
    BY <2>1, <2>2, FlattenEmpty
  <2>4. 0 \in 0 .. n
    BY <1>1
  <2> HIDE DEF upto, n
  <2> QED
    BY <2>3, <2>4
<1>4. ASSUME NEW k \in 0 .. n - 1, k \in Good PROVE k + 1 \in Good
  <2>1. k + 1 \in 1 .. n /\ (k + 1) - 1 = k /\ k \in 0 .. n /\ 1 \in 1 .. n /\ k + 1 \in 0 .. n
    BY <1>1
  <2>2. upto(k) \in Seq(Words(S)) /\ t[k + 1] \in Words(S)
    BY <1>1, <1>2, <2>1
  <2>3. upto(k + 1) = Append(upto(k), t[k + 1])
    <3>1. SubSeq(t, 1, k + 1) = SubSeq(t, 1, (k + 1) - 1) \o <<t[k + 1]>>
      <4>1. 1 \in 1 .. Len(t) /\ k + 1 \in 1 .. Len(t)
        BY <2>1
      <4> QED
        BY <4>1, SubSeqRecursiveSecond
    <3>2. Append(upto(k), t[k + 1]) = upto(k) \o <<t[k + 1]>>
      BY <2>2, AppendIsConcat
    <3> QED
      BY <2>1, <3>1, <3>2
  <2>4. FlattenSeq(s \o upto(k)) = FlattenSeq(s) \o FlattenSeq(upto(k))
    BY <1>4
  <2>5. FlattenSeq(s \o upto(k + 1)) = FlattenSeq(s) \o FlattenSeq(upto(k + 1))
    <3> HIDE DEF upto
    <3> QED
      BY <2>2, <2>3, <2>4, FlattenStep
  <2> QED
    BY <2>1, <2>5
<1> HIDE DEF Good
<1>5. \A k \in 0 .. n : k \in Good
  BY <1>1, <1>3, <1>4, Induction
<1>6. n \in Good /\ upto(n) = t
  BY <1>1, <1>5, SubSeqFull
<1>7. FlattenSeq(s \o upto(n)) = FlattenSeq(s) \o FlattenSeq(upto(n))
  BY <1>6 DEF Good
<1> QED
  BY <1>0, <1>6, <1>7, ConcatProperties

LEMMA SplitWord ==
  ASSUME NEW S, NEW w \in Words(S), NEW k \in 0 .. Len(w)
  PROVE  /\ SubSeq(w, 1, k) \in Words(S) /\ SubSeq(w, k + 1, Len(w)) \in Words(S)
         /\ SubSeq(w, 1, k) \o SubSeq(w, k + 1, Len(w)) = w
<1>1. Len(w) \in Nat /\ w \in Seq(S) /\ \A i \in 1 .. Len(w) : w[i] \in S
  BY LenProperties DEF Words
<1>2. SubSeq(w, 1, k) \in Seq(S)
  <2>1. \A i \in 1 .. k : w[i] \in S
    BY <1>1
  <2> QED
    BY <1>1, <2>1, SubSeqProperties
<1>3. SubSeq(w, k + 1, Len(w)) \in Seq(S)
  <2>1. \A i \in k + 1 .. Len(w) : w[i] \in S
    BY <1>1
  <2> QED
    BY <1>1, <2>1, SubSeqProperties
<1>4. SubSeq(w, 1, k) \o SubSeq(w, k + 1, Len(w)) = SubSeq(w, 1, Len(w))
  <2>1. 1 \in 1 .. Len(w) + 1 /\ k \in 1 - 1 .. Len(w) /\ Len(w) \in k .. Len(w)
    BY <1>1
  <2> QED
    BY <1>1, <2>1, ConcatAdjacentSubSeq
<1> QED
  BY <1>1, <1>2, <1>3, <1>4, SubSeqFull DEF Words

-----------------------------------------------------------------------------
(* Peeling affixes off a word keeps the word. *)

Pieces(S) == [core : Words(S), prefix : Seq(Words(S)), suffix : Seq(Words(S))]
Whole(p) == FlattenSeq(p.prefix) \o (p.core \o FlattenSeq(p.suffix))

LEMMA LongestAffixFits ==
  ASSUME NEW S, NEW w \in Words(S), NEW table, NEW side
  PROVE  LongestAffix(w, table, side, MinCore) \in 0 .. Len(w)
<1> DEFINE T == {0} \cup {n \in 1 .. Len(w) - MinCore : Found(table, Affix(w, side, n))}
<1>1. Len(w) \in Nat
  BY WordFacts
<1>2. T \subseteq 0 .. Len(w) /\ T # {}
  BY <1>1 DEF MinCore
<1> HIDE DEF T
<1>3. Max(T) \in T
  BY <1>1, <1>2, GreatestIn
<1> QED
  BY <1>2, <1>3 DEF LongestAffix, T

LEMMA PeelAffixKeeps ==
  ASSUME NEW S, NEW p \in Pieces(S), NEW n \in 0 .. Len(p.core), NEW side \in {"prefix", "suffix"}
  PROVE  PeelAffix(p, side, n) \in Pieces(S) /\ Whole(PeelAffix(p, side, n)) = Whole(p)
<1> DEFINE c == p.core
           a == p.prefix
           b == p.suffix
<1>1. c \in Words(S) /\ a \in Seq(Words(S)) /\ b \in Seq(Words(S)) /\ Len(c) \in Nat /\ n \in Int
  BY WordFacts DEF Pieces
<1>2. FlattenSeq(a) \in Words(S) /\ FlattenSeq(b) \in Words(S)
  BY <1>1, FlattenConcat
<1>3. CASE PeelAffix(p, side, n) = p
  BY <1>3
<1>4. CASE PeelAffix(p, side, n) # p /\ side = "prefix"
  <2> DEFINE l == SubSeq(c, 1, n)
             r == SubSeq(c, n + 1, Len(c))
             q == [core |-> r, prefix |-> Append(a, l), suffix |-> b]
  <2>1. l \in Words(S) /\ r \in Words(S) /\ l \o r = c
    BY <1>1, SplitWord
  <2>2. Leading(c, n) = l /\ Trailing(c, Len(c) - n) = r
    BY <1>1 DEF Leading, Trailing
  <2>3. PeelAffix(p, side, n) = q
    BY <1>4, <2>2 DEF PeelAffix, Rest, Pieces
  <2>4. q \in Pieces(S)
    BY <1>1, <2>1, AppendProperties DEF Pieces
  <2>5. FlattenSeq(Append(a, l)) = FlattenSeq(a) \o l
    BY <1>1, <2>1, FlattenAppend
  <2>6. Whole(q) = (FlattenSeq(a) \o l) \o (r \o FlattenSeq(b))
    BY <2>5 DEF Whole
  <2>7. Whole(p) = FlattenSeq(a) \o ((l \o r) \o FlattenSeq(b))
    BY <2>1 DEF Whole
  <2> DEFINE x == FlattenSeq(a)
             y == FlattenSeq(b)
  <2>8. x \in Words(S) /\ y \in Words(S) /\ l \in Words(S) /\ r \in Words(S)
    BY <1>2, <2>1
  <2> HIDE DEF l, r, x, y, q
  <2>9. (x \o l) \o (r \o y) = x \o ((l \o r) \o y)
    <3> DEFINE z == r \o y
    <3>1. z \in Words(S) /\ x \in Words(S) /\ l \in Words(S)
      BY <2>8, WordFacts
    <3>2. (l \o r) \o y = l \o z
      BY <2>8, WordsAssociate
    <3> HIDE DEF z
    <3>3. (x \o l) \o z = x \o (l \o z)
      BY <3>1, WordsAssociate
    <3> QED
      BY <3>2, <3>3 DEF z
  <2> QED
    BY <2>3, <2>4, <2>6, <2>7, <2>9 DEF x, y
<1>5. CASE PeelAffix(p, side, n) # p /\ side = "suffix"
  <2> DEFINE k == Len(c) - n
             l == SubSeq(c, 1, k)
             r == SubSeq(c, k + 1, Len(c))
             q == [core |-> l, prefix |-> a, suffix |-> <<r>> \o b]
  <2>0. k \in 0 .. Len(c)
    BY <1>1
  <2>1. l \in Words(S) /\ r \in Words(S) /\ l \o r = c
    BY <1>1, <2>0, SplitWord
  <2>2. Leading(c, Len(c) - n) = l /\ Trailing(c, n) = r
    BY <1>1 DEF Leading, Trailing
  <2>3. PeelAffix(p, side, n) = q
    BY <1>5, <2>2 DEF PeelAffix, Rest, Pieces
  <2>a. <<r>> \in Seq(Words(S)) /\ FlattenSeq(<<r>>) = r
    BY <2>1, FlattenOne
  <2>b. <<r>> \o b \in Seq(Words(S)) /\ FlattenSeq(<<r>> \o b) = FlattenSeq(<<r>>) \o FlattenSeq(b)
    BY <1>1, <2>a, FlattenConcat
  <2>4. q \in Pieces(S)
    BY <1>1, <2>1, <2>b DEF Pieces
  <2>6. Whole(q) = FlattenSeq(a) \o (l \o (r \o FlattenSeq(b)))
    BY <2>a, <2>b DEF Whole
  <2>7. Whole(p) = FlattenSeq(a) \o ((l \o r) \o FlattenSeq(b))
    BY <2>1 DEF Whole
  <2> DEFINE y == FlattenSeq(b)
  <2>8. y \in Words(S) /\ l \in Words(S) /\ r \in Words(S)
    BY <1>2, <2>1
  <2> HIDE DEF l, r, y, q
  <2>9. (l \o r) \o y = l \o (r \o y)
    BY <2>8, WordsAssociate
  <2> QED
    BY <2>3, <2>4, <2>6, <2>7, <2>9 DEF y
<1> QED
  BY <1>3, <1>4, <1>5

LEMMA PeelOneKeeps ==
  ASSUME NEW S, NEW p \in Pieces(S), NEW table, NEW side \in {"prefix", "suffix"}
  PROVE  PeelOne(p, table, side) \in Pieces(S) /\ Whole(PeelOne(p, table, side)) = Whole(p)
<1> DEFINE n == LongestAffix(p.core, table, side, MinCore)
<1>1. n \in 0 .. Len(p.core)
  BY LongestAffixFits DEF Pieces
<1> HIDE DEF n
<1>2. PeelAffix(p, side, n) \in Pieces(S) /\ Whole(PeelAffix(p, side, n)) = Whole(p)
  BY <1>1, PeelAffixKeeps
<1> QED
  BY <1>2 DEF PeelOne, n

PeelsUp(f, p, table, side, rounds) ==
  f = [k \in 0 .. rounds |-> IF k = 0 THEN p ELSE PeelOne(f[k - 1], table, side)]

LEMMA PeelExists ==
  ASSUME NEW S, NEW p \in Pieces(S), NEW table, NEW side \in {"prefix", "suffix"}, NEW rounds \in Nat
  PROVE  \E f : PeelsUp(f, p, table, side, rounds)
<1> DEFINE D == Pieces(S)
           F == [k \in 1 .. rounds |-> [q \in D |-> PeelOne(q, table, side)]]
<1>1. \A q \in D : PeelOne(q, table, side) \in D
  BY PeelOneKeeps
<1> HIDE DEF D
<1>2. F \in [1 .. rounds -> [D -> D]] /\ p \in D
  BY <1>1 DEF D
<1>3. CanIterate(rounds, D, p, F)
  BY <1>2 DEF CanIterate
<1> HIDE DEF F
<1>4. PICK f : Iterates(f, rounds, D, p, F)
  BY <1>3, Iterated
<1>5. f \in [0 .. rounds -> D] /\ f[0] = p /\ \A i \in 1 .. rounds : f[i] = F[i][f[i - 1]]
  BY <1>4 DEF Iterates
<1>6. ASSUME NEW i \in 0 .. rounds
      PROVE  f[i] = IF i = 0 THEN p ELSE PeelOne(f[i - 1], table, side)
  <2>1. CASE i = 0
    BY <1>5, <2>1
  <2>2. CASE i # 0
    <3>1. i \in 1 .. rounds /\ i - 1 \in 0 .. rounds
      BY <2>2
    <3>2. f[i] = F[i][f[i - 1]] /\ f[i - 1] \in D
      BY <1>5, <3>1
    <3> QED
      BY <2>2, <3>1, <3>2 DEF F
  <2> QED
    BY <2>1, <2>2
<1>7. f = [i \in 0 .. rounds |-> f[i]]
  BY <1>5
<1>8. PeelsUp(f, p, table, side, rounds)
  BY <1>6, <1>7 DEF PeelsUp
<1> QED
  BY <1>8

LEMMA PeelKeeps ==
  ASSUME NEW S, NEW p \in Pieces(S), NEW table, NEW side \in {"prefix", "suffix"}, NEW rounds \in Nat
  PROVE  /\ Peel(p, table, side, rounds) \in Pieces(S)
         /\ Whole(Peel(p, table, side, rounds)) = Whole(p)
<1> DEFINE f == CHOOSE g : PeelsUp(g, p, table, side, rounds)
           Good == {k \in 0 .. rounds : f[k] \in Pieces(S) /\ Whole(f[k]) = Whole(p)}
<1>1. PeelsUp(f, p, table, side, rounds)
  BY PeelExists
<1>2. Peel(p, table, side, rounds) = f[rounds]
  BY DEF Peel, PeelsUp
<1> HIDE DEF f
<1>3. \A k \in 0 .. rounds : f[k] = IF k = 0 THEN p ELSE PeelOne(f[k - 1], table, side)
  BY <1>1 DEF PeelsUp
<1>4. 0 \in Good
  BY <1>3
<1>5. ASSUME NEW k \in 0 .. rounds - 1, k \in Good PROVE k + 1 \in Good
  <2>1. k + 1 \in 0 .. rounds /\ k + 1 # 0 /\ (k + 1) - 1 = k
    OBVIOUS
  <2>2. f[k + 1] = PeelOne(f[k], table, side)
    BY <1>3, <2>1
  <2>3. f[k] \in Pieces(S) /\ Whole(f[k]) = Whole(p)
    BY <1>5
  <2>4. f[k + 1] \in Pieces(S) /\ Whole(f[k + 1]) = Whole(f[k])
    BY <2>2, <2>3, PeelOneKeeps
  <2> QED
    BY <2>1, <2>3, <2>4
<1> HIDE DEF Good
<1>6. \A k \in 0 .. rounds : k \in Good
  BY <1>4, <1>5, Induction
<1>7. rounds \in Good
  BY <1>6
<1> QED
  BY <1>2, <1>7 DEF Good


-----------------------------------------------------------------------------
(* Functions that are computed from the end of a word to its start. *)

CanRunDown(n, D, base, F, j) ==
  /\ n \in Nat /\ base \in D /\ F \in [1 .. n -> [D -> D]]
  /\ j \in [1 .. n -> 1 .. n + 1] /\ \A i \in 1 .. n : j[i] > i
RunsDown(f, n, D, base, F, j) ==
  f \in [1 .. n + 1 -> D] /\ f[n + 1] = base /\ \A i \in 1 .. n : f[i] = F[i][f[j[i]]]

LEMMA RunDown ==
  ASSUME NEW n, NEW D, NEW base, NEW F, NEW j, CanRunDown(n, D, base, F, j)
  PROVE  \E f : RunsDown(f, n, D, base, F, j)
<1> USE DEF CanRunDown
<1> DEFINE Run(f, k) == /\ f \in [n + 1 - k .. n + 1 -> D] /\ f[n + 1] = base
                        /\ \A i \in n + 1 - k .. n : f[i] = F[i][f[j[i]]]
           Good == {k \in 0 .. n : \E f : Run(f, k)}
<1>1. 0 \in Good
  <2> DEFINE f == [i \in n + 1 - 0 .. n + 1 |-> base]
  <2>1. f \in [n + 1 - 0 .. n + 1 -> D] /\ f[n + 1] = base
    OBVIOUS
  <2>2. \A i \in n + 1 - 0 .. n : FALSE
    OBVIOUS
  <2>3. Run(f, 0)
    BY <2>1, <2>2
  <2> HIDE DEF Run, f
  <2> QED
    BY <2>3
<1>2. ASSUME NEW k \in 0 .. n - 1, k \in Good PROVE k + 1 \in Good
  <2>1. PICK f : Run(f, k)
    BY <1>2
  <2> DEFINE m == n + 1 - (k + 1)
             g == [i \in m .. n + 1 |-> IF i = m THEN F[m][f[j[m]]] ELSE f[i]]
  <2>2. m \in 1 .. n /\ n + 1 - k = m + 1 /\ k + 1 \in 0 .. n
    OBVIOUS
  <2>3. j[m] \in m + 1 .. n + 1 /\ F[m] \in [D -> D]
    BY <2>2
  <2> HIDE DEF m
  <2>4. f \in [m + 1 .. n + 1 -> D] /\ f[n + 1] = base
        /\ \A i \in m + 1 .. n : f[i] = F[i][f[j[i]]]
    BY <2>1, <2>2
  <2>5. g \in [m .. n + 1 -> D]
    <3>1. F[m][f[j[m]]] \in D
      BY <2>3, <2>4
    <3>2. \A i \in m .. n + 1 : i # m => i \in m + 1 .. n + 1
      BY <2>2
    <3> QED
      BY <2>4, <3>1, <3>2
  <2>6. g[n + 1] = base
    BY <2>2, <2>4
  <2>7. ASSUME NEW i \in m .. n PROVE g[i] = F[i][g[j[i]]]
    <3>1. i \in 1 .. n
      BY <2>2
    <3>2. j[i] \in m .. n + 1 /\ j[i] # m /\ i \in m .. n + 1
      BY <2>2, <3>1
    <3>3. g[j[i]] = f[j[i]]
      BY <3>2
    <3>4. CASE i = m
      BY <3>2, <3>3, <3>4
    <3>5. CASE i # m
      <4>1. i \in m + 1 .. n
        BY <2>2, <3>5
      <4> QED
        BY <2>4, <3>2, <3>3, <3>5, <4>1
    <3> QED
      BY <3>4, <3>5
  <2>8. Run(g, k + 1)
    <3> HIDE DEF g
    <3> QED
      BY <2>5, <2>6, <2>7 DEF m
  <2> HIDE DEF Run, g
  <2> QED
    BY <2>2, <2>8
<1> HIDE DEF Good
<1>3. \A k \in 0 .. n : k \in Good
  BY <1>1, <1>2, Induction
<1>4. n \in Good /\ n + 1 - n = 1
  BY <1>3
<1>5. PICK f : Run(f, n)
  BY <1>4 DEF Good
<1>6. RunsDown(f, n, D, base, F, j)
  BY <1>4, <1>5 DEF RunsDown
<1> QED
  BY <1>6

\* What holds at the end, and at each position if it holds where the position
\* leads to, holds everywhere.
LEMMA HoldsDown ==
  ASSUME NEW n \in Nat, NEW j, NEW Holds, n + 1 \in Holds,
         \A i \in 1 .. n : j[i] \in i + 1 .. n + 1 /\ (j[i] \in Holds => i \in Holds)
  PROVE  \A i \in 1 .. n + 1 : i \in Holds
<1> DEFINE Good == {k \in 0 .. n : \A i \in n + 1 - k .. n + 1 : i \in Holds}
<1>1. 0 \in Good
  BY n + 1 - 0 .. n + 1 = {n + 1}
<1>2. ASSUME NEW k \in 0 .. n - 1, k \in Good PROVE k + 1 \in Good
  <2> DEFINE m == n + 1 - (k + 1)
  <2>1. m \in 1 .. n /\ n + 1 - k = m + 1 /\ k + 1 \in 0 .. n
    OBVIOUS
  <2> HIDE DEF m
  <2>2. \A i \in m + 1 .. n + 1 : i \in Holds
    BY <1>2, <2>1
  <2>3. m \in Holds
    BY <2>1, <2>2
  <2>4. \A i \in m .. n + 1 : i = m \/ i \in m + 1 .. n + 1
    BY <2>1
  <2>5. \A i \in m .. n + 1 : i \in Holds
    BY <2>2, <2>3, <2>4
  <2> QED
    BY <2>1, <2>5 DEF m
<1> HIDE DEF Good
<1>3. \A k \in 0 .. n : k \in Good
  BY <1>1, <1>2, Induction
<1>4. n \in Good /\ n + 1 - n = 1
  BY <1>3
<1> QED
  BY <1>4 DEF Good

-----------------------------------------------------------------------------
(* The chunks of a word put together are the word. *)

LEMMA PutBefore ==
  ASSUME NEW S, NEW w \in Words(S), NEW s \in Seq(Words(S))
  PROVE  /\ <<w>> \o s \in Seq(Words(S)) /\ <<w>> \o s # << >>
         /\ FlattenSeq(<<w>> \o s) = w \o FlattenSeq(s)
<1>1. <<w>> \in Seq(Words(S)) /\ FlattenSeq(<<w>>) = w
  BY FlattenOne
<1>2. <<w>> \o s \in Seq(Words(S)) /\ FlattenSeq(<<w>> \o s) = FlattenSeq(<<w>>) \o FlattenSeq(s)
  BY <1>1, FlattenConcat
<1>3. Len(<<w>> \o s) = 1 + Len(s) /\ Len(s) \in Nat
  BY <1>1, ConcatProperties, LenProperties
<1>4. <<w>> \o s # << >>
  <2> DEFINE z == <<w>> \o s
  <2>1. Len(z) # 0
    BY <1>3
  <2> HIDE DEF z
  <2>2. z # << >>
    BY <2>1
  <2> QED
    BY <2>2 DEF z
<1>5. FlattenSeq(<<w>> \o s) = w \o FlattenSeq(s)
  BY <1>1, <1>2
<1> QED
  BY <1>2, <1>4, <1>5

CanSpellDown(S, n, c, j, V, from) ==
  /\ n \in Nat /\ from[n + 1] = << >> /\ V[n + 1] = << >>
  /\ \A i \in 1 .. n : /\ j[i] \in i + 1 .. n + 1 /\ c[i] \in Words(S)
                       /\ from[i] = <<c[i]>> \o from[j[i]] /\ V[i] = c[i] \o V[j[i]]

LEMMA SpellsDown ==
  ASSUME NEW S, NEW n, NEW c, NEW j, NEW V, NEW from, CanSpellDown(S, n, c, j, V, from)
  PROVE  /\ \A i \in 1 .. n + 1 : from[i] \in Seq(Words(S)) /\ FlattenSeq(from[i]) = V[i]
         /\ \A i \in 1 .. n : from[i] # << >>
<1> USE DEF CanSpellDown
<1> DEFINE Holds == {i \in 1 .. n + 1 : from[i] \in Seq(Words(S)) /\ FlattenSeq(from[i]) = V[i]}
<1>1. n + 1 \in Holds
  <2>1. << >> \in Seq(Words(S))
    BY EmptySeq
  <2>2. n + 1 \in 1 .. n + 1
    OBVIOUS
  <2>3. FlattenSeq(from[n + 1]) = V[n + 1]
    BY FlattenEmpty
  <2> QED
    BY <2>1, <2>2, <2>3
<1>2. ASSUME NEW i \in 1 .. n PROVE j[i] \in i + 1 .. n + 1 /\ (j[i] \in Holds => i \in Holds)
  <2>1. i \in 1 .. n + 1
    OBVIOUS
  <2>2. ASSUME j[i] \in Holds PROVE i \in Holds
    <3>1. from[j[i]] \in Seq(Words(S)) /\ FlattenSeq(from[j[i]]) = V[j[i]] /\ c[i] \in Words(S)
      BY <2>2
    <3>2. /\ <<c[i]>> \o from[j[i]] \in Seq(Words(S))
          /\ FlattenSeq(<<c[i]>> \o from[j[i]]) = c[i] \o FlattenSeq(from[j[i]])
      BY <3>1, PutBefore
    <3> QED
      BY <2>1, <3>1, <3>2
  <2> QED
    BY <2>2
<1> HIDE DEF Holds
<1>3. \A i \in 1 .. n + 1 : i \in Holds
  BY <1>1, <1>2, HoldsDown
<1>4. \A i \in 1 .. n + 1 : from[i] \in Seq(Words(S)) /\ FlattenSeq(from[i]) = V[i]
  BY <1>3 DEF Holds
<1>5. ASSUME NEW i \in 1 .. n PROVE from[i] # << >>
  <2>0. j[i] \in i + 1 .. n + 1
    OBVIOUS
  <2>4. j[i] \in 1 .. n + 1
    BY <2>0
  <2>1. j[i] \in 1 .. n + 1 /\ c[i] \in Words(S) /\ from[i] = <<c[i]>> \o from[j[i]]
    BY <2>4
  <2>2. from[j[i]] \in Seq(Words(S))
    BY <1>4, <2>1
  <2>3. <<c[i]>> \o from[j[i]] # << >>
    BY <2>1, <2>2, PutBefore
  <2> QED
    BY <2>1, <2>3
<1> QED
  BY <1>4, <1>5

LEMMA TakeAtFits ==
  ASSUME NEW S, NEW w \in Words(S), NEW i \in 1 .. Len(w)
  PROVE  TakeAt(w, i) \in 1 .. 4 /\ i + TakeAt(w, i) \in i + 1 .. Len(w) + 1
<1> DEFINE T == {1} \cup {n \in 2 .. 4 : i + n - 1 <= Len(w) /\ Found(Clusters[n], SubSeq(w, i, i + n - 1))}
<1>1. Len(w) \in Nat
  BY WordFacts
<1>2. T \subseteq 0 .. 4 /\ T # {} /\ \A n \in T : n \in 1 .. 4 /\ i + n - 1 <= Len(w)
  BY <1>1
<1> HIDE DEF T
<1>3. Max(T) \in T
  BY <1>2, GreatestIn
<1>4. Max(T) \in 1 .. 4 /\ i + Max(T) - 1 <= Len(w)
  BY <1>2, <1>3
<1>5. TakeAt(w, i) = Max(T)
  BY DEF TakeAt, T
<1> QED
  BY <1>1, <1>4, <1>5

LEMMA SplitRest ==
  ASSUME NEW S, NEW w \in Words(S), NEW i \in 1 .. Len(w), NEW k \in i + 1 .. Len(w) + 1
  PROVE  /\ SubSeq(w, i, k - 1) \in Words(S)
         /\ SubSeq(w, i, Len(w)) = SubSeq(w, i, k - 1) \o SubSeq(w, k, Len(w))
<1>1. Len(w) \in Nat /\ w \in Seq(S) /\ \A x \in 1 .. Len(w) : w[x] \in S
  BY LenProperties DEF Words
<1>2. SubSeq(w, i, k - 1) \in Seq(S)
  <2>1. \A x \in i .. k - 1 : w[x] \in S
    BY <1>1
  <2> QED
    BY <1>1, <2>1, SubSeqProperties
<1>3. SubSeq(w, i, k - 1) \o SubSeq(w, (k - 1) + 1, Len(w)) = SubSeq(w, i, Len(w))
  <2>1. i \in 1 .. Len(w) + 1 /\ k - 1 \in i - 1 .. Len(w) /\ Len(w) \in k - 1 .. Len(w)
    BY <1>1
  <2> QED
    BY <1>1, <2>1, ConcatAdjacentSubSeq
<1>4. (k - 1) + 1 = k
  OBVIOUS
<1> QED
  BY <1>2, <1>3, <1>4 DEF Words

UnitsDown(from, w) ==
  from = [i \in 1 .. Len(w) + 1 |->
            IF i > Len(w) THEN << >>
            ELSE <<SubSeq(w, i, i + TakeAt(w, i) - 1)>> \o from[i + TakeAt(w, i)]]

PutsDown(f, n, c, j) ==
  f = [i \in 1 .. n + 1 |-> IF i > n THEN << >> ELSE <<c[i]>> \o f[j[i]]]

LEMMA PutDown ==
  ASSUME NEW S, NEW n \in Nat, NEW c, NEW j,
         \A i \in 1 .. n : c[i] \in Words(S) /\ j[i] \in i + 1 .. n + 1
  PROVE  \E f : PutsDown(f, n, c, j)
<1> DEFINE D == Seq(Words(S))
           F == [i \in 1 .. n |-> [s \in D |-> <<c[i]>> \o s]]
           k == [i \in 1 .. n |-> j[i]]
<1>1. ASSUME NEW i \in 1 .. n, NEW s \in D PROVE <<c[i]>> \o s \in D
  <2>1. c[i] \in Words(S) /\ s \in Seq(Words(S))
    OBVIOUS
  <2>2. <<c[i]>> \o s \in Seq(Words(S))
    BY <2>1, PutBefore
  <2> QED
    BY <2>2
<1> HIDE DEF D
<1>2. F \in [1 .. n -> [D -> D]] /\ << >> \in D
  BY <1>1, EmptySeq DEF D
<1>3. k \in [1 .. n -> 1 .. n + 1] /\ \A i \in 1 .. n : k[i] > i /\ k[i] = j[i]
  <2>1. ASSUME NEW i \in 1 .. n PROVE j[i] \in 1 .. n + 1 /\ j[i] > i
    <3>1. j[i] \in i + 1 .. n + 1
      OBVIOUS
    <3> QED
      BY <3>1
  <2> QED
    BY <2>1
<1> HIDE DEF F, k
<1>4. CanRunDown(n, D, << >>, F, k)
  BY <1>2, <1>3 DEF CanRunDown
<1>5. PICK f : RunsDown(f, n, D, << >>, F, k)
  BY <1>4, RunDown
<1>6. f \in [1 .. n + 1 -> D] /\ f[n + 1] = << >> /\ \A i \in 1 .. n : f[i] = F[i][f[k[i]]]
  BY <1>5 DEF RunsDown
<1>7. ASSUME NEW i \in 1 .. n + 1
      PROVE  f[i] = IF i > n THEN << >> ELSE <<c[i]>> \o f[j[i]]
  <2>1. CASE i > n
    <3>1. i = n + 1
      BY <2>1
    <3> QED
      BY <1>6, <2>1, <3>1
  <2>2. CASE ~(i > n)
    <3>1. i \in 1 .. n
      BY <2>2
    <3>2. k[i] \in 1 .. n + 1 /\ j[i] = k[i]
      BY <1>3, <3>1
    <3>3. f[k[i]] \in D /\ f[i] = F[i][f[k[i]]]
      BY <1>6, <3>1, <3>2
    <3>4. F[i][f[k[i]]] = <<c[i]>> \o f[k[i]]
      BY <3>1, <3>3 DEF F
    <3> QED
      BY <2>2, <3>2, <3>3, <3>4
  <2> QED
    BY <2>1, <2>2
<1>8. f = [i \in 1 .. n + 1 |-> f[i]]
  BY <1>6
<1>9. PutsDown(f, n, c, j)
  BY <1>7, <1>8 DEF PutsDown
<1> QED
  BY <1>9

LEMMA UnitsExist ==
  ASSUME NEW S, NEW w \in Words(S)
  PROVE  \E from : UnitsDown(from, w)
<1> DEFINE n == Len(w)
           c == [i \in 1 .. n |-> SubSeq(w, i, i + TakeAt(w, i) - 1)]
           j == [i \in 1 .. n |-> i + TakeAt(w, i)]
<1>1. n \in Nat
  BY WordFacts
<1>2. ASSUME NEW i \in 1 .. n PROVE c[i] \in Words(S) /\ j[i] \in i + 1 .. n + 1
  <2> DEFINE k == i + TakeAt(w, i)
  <2>1. TakeAt(w, i) \in 1 .. 4 /\ k \in i + 1 .. n + 1
    BY TakeAtFits
  <2>2. i + TakeAt(w, i) - 1 = k - 1
    BY <2>1
  <2>3. c[i] = SubSeq(w, i, k - 1) /\ j[i] = k
    BY <2>2
  <2> HIDE DEF k, c, j
  <2>4. SubSeq(w, i, k - 1) \in Words(S)
    BY <2>1, SplitRest
  <2> QED
    BY <2>1, <2>3, <2>4
<1> HIDE DEF n
<1>3. \A i \in 1 .. n : c[i] = SubSeq(w, i, i + TakeAt(w, i) - 1) /\ j[i] = i + TakeAt(w, i)
  OBVIOUS
<1> HIDE DEF c, j
<1>4. PICK f : PutsDown(f, n, c, j)
  BY <1>1, <1>2, PutDown
<1>5. ASSUME NEW i \in 1 .. n + 1, ~(i > n)
      PROVE  c[i] = SubSeq(w, i, i + TakeAt(w, i) - 1) /\ j[i] = i + TakeAt(w, i)
  <2>1. i \in 1 .. n
    BY <1>1, <1>5
  <2> QED
    BY <1>3, <2>1
<1>6. f = [i \in 1 .. n + 1 |-> IF i > n THEN << >> ELSE <<c[i]>> \o f[j[i]]]
  BY <1>4 DEF PutsDown
<1>7. f = [i \in 1 .. n + 1 |->
            IF i > n THEN << >>
            ELSE <<SubSeq(w, i, i + TakeAt(w, i) - 1)>> \o f[i + TakeAt(w, i)]]
  BY <1>5, <1>6
<1>8. UnitsDown(f, w)
  BY <1>7 DEF UnitsDown, n
<1> QED
  BY <1>8

LEMMA UnitsSpell ==
  ASSUME NEW S, NEW w \in Words(S)
  PROVE  /\ Units(w) \in Seq(Words(S)) /\ FlattenSeq(Units(w)) = w
         /\ Len(w) # 0 => Units(w) # << >>
<1> DEFINE n == Len(w)
           from == CHOOSE f : UnitsDown(f, w)
           c == [i \in 1 .. n |-> SubSeq(w, i, i + TakeAt(w, i) - 1)]
           j == [i \in 1 .. n |-> i + TakeAt(w, i)]
           V == [i \in 1 .. n + 1 |-> SubSeq(w, i, n)]
<1>1. n \in Nat
  BY WordFacts
<1>2. UnitsDown(from, w)
  BY UnitsExist
<1>3. Units(w) = from[1]
  BY DEF Units, UnitsDown
<1> HIDE DEF from
<1>4. \A i \in 1 .. n + 1 :
        from[i] = IF i > n THEN << >> ELSE <<SubSeq(w, i, i + TakeAt(w, i) - 1)>> \o from[i + TakeAt(w, i)]
  BY <1>2 DEF UnitsDown
<1>5. from[n + 1] = << >> /\ V[n + 1] = << >>
  <2>1. n + 1 \in 1 .. n + 1 /\ n + 1 > n
    BY <1>1
  <2>2. SubSeq(w, n + 1, n) = << >>
    BY <1>1, SubSeqEmpty
  <2> QED
    BY <1>4, <2>1, <2>2
<1>6. ASSUME NEW i \in 1 .. n
      PROVE  /\ j[i] \in i + 1 .. n + 1 /\ c[i] \in Words(S)
             /\ from[i] = <<c[i]>> \o from[j[i]] /\ V[i] = c[i] \o V[j[i]]
  <2> DEFINE k == i + TakeAt(w, i)
  <2>a. TakeAt(w, i) \in 1 .. 4 /\ k \in i + 1 .. n + 1
    BY TakeAtFits
  <2>b. j[i] = k /\ c[i] = SubSeq(w, i, k - 1)
    <3>1. i + TakeAt(w, i) - 1 = k - 1
      BY <2>a
    <3> QED
      BY <3>1
  <2>1. k \in i + 1 .. n + 1 /\ j[i] = k /\ c[i] = SubSeq(w, i, k - 1)
    BY <2>a, <2>b
  <2> HIDE DEF k
  <2>2. c[i] \in Words(S) /\ SubSeq(w, i, n) = SubSeq(w, i, k - 1) \o SubSeq(w, k, n)
    BY <2>1, SplitRest
  <2>3. i \in 1 .. n + 1 /\ ~(i > n) /\ k \in 1 .. n + 1
    BY <1>1, <2>1
  <2>4. V[i] = SubSeq(w, i, n) /\ V[j[i]] = SubSeq(w, k, n)
    BY <2>1, <2>3
  <2>5. from[i] = <<c[i]>> \o from[j[i]]
    BY <1>4, <2>3 DEF k
  <2> HIDE DEF c, V, j
  <2> QED
    BY <2>1, <2>2, <2>4, <2>5
<1> HIDE DEF c, V, j, n
<1>7. /\ \A i \in 1 .. n + 1 : from[i] \in Seq(Words(S)) /\ FlattenSeq(from[i]) = V[i]
      /\ \A i \in 1 .. n : from[i] # << >>
  <2>1. CanSpellDown(S, n, c, j, V, from)
    BY <1>1, <1>5, <1>6 DEF CanSpellDown
  <2> QED
    BY <2>1, SpellsDown
<1>8. 1 \in 1 .. n + 1 /\ V[1] = w
  <2>1. w \in Seq(S)
    BY DEF Words
  <2>2. 1 \in 1 .. n + 1
    BY <1>1
  <2> QED
    BY <2>1, <2>2, SubSeqFull DEF V, n
<1> QED
  BY <1>1, <1>3, <1>7, <1>8 DEF n

LEMMA AtomicChunksSpell ==
  ASSUME NEW S, NEW w \in Words(S)
  PROVE  /\ AtomicChunks(w) \in Seq(Words(S)) /\ FlattenSeq(AtomicChunks(w)) = w
         /\ AtomicChunks(w) # << >>
<1>1. CASE Len(w) <= 1 \/ ~Fits(w)
  <2>1. <<w>> \in Seq(Words(S)) /\ FlattenSeq(<<w>>) = w /\ <<w>> # << >>
    BY FlattenOne
  <2> QED
    BY <1>1, <2>1 DEF AtomicChunks
<1>2. CASE ~(Len(w) <= 1 \/ ~Fits(w))
  <2>1. Len(w) # 0
    BY <1>2
  <2>2. Units(w) \in Seq(Words(S)) /\ FlattenSeq(Units(w)) = w /\ Units(w) # << >>
    BY <2>1, UnitsSpell
  <2> QED
    BY <1>2, <2>2 DEF AtomicChunks
<1> QED
  BY <1>1, <1>2

LEMMA ChunkEndFits ==
  ASSUME NEW units, Len(units) \in Nat, NEW start \in 1 .. Len(units)
  PROVE  ChunkEnd(units, start) \in start .. Len(units)
<1> DEFINE last == Len(units)
           nuclei == {k \in start .. last : Nucleus(units[k])}
           vowel == Min(nuclei)
           next == Min(nuclei \ {vowel})
<1>1. nuclei \subseteq Nat /\ nuclei \subseteq start .. last /\ last \in start .. last
  OBVIOUS
<1>2. ChunkEnd(units, start) =
        CASE last = start \/ nuclei = {} -> last
          [] nuclei # {} /\ nuclei # {vowel} -> IF next - vowel <= 2 THEN next - 1 ELSE next - 2
          [] OTHER -> IF last - vowel = 1 /\ vowel > start /\ Len(units[last]) > 1
                      THEN vowel ELSE last
  BY DEF ChunkEnd
<1> HIDE DEF nuclei
<1>3. CASE nuclei = {}
  <2>1. ChunkEnd(units, start) = last
    BY <1>2, <1>3
  <2> QED
    BY <1>1, <2>1
<1>4. CASE nuclei # {}
  <2>1. vowel \in nuclei /\ \A k \in nuclei : vowel <= k
    BY <1>1, <1>4, LeastOf
  <2>2. CASE nuclei = {vowel}
    <3> HIDE DEF vowel, next
    <3>1. vowel \in start .. last
      BY <1>1, <2>1
    <3>2. ChunkEnd(units, start) \in {vowel, last}
      BY <1>2, <1>4, <2>2
    <3> QED
      BY <1>1, <3>1, <3>2
  <2>3. CASE nuclei # {vowel}
    <3>1. nuclei \ {vowel} \subseteq Nat /\ nuclei \ {vowel} # {}
      <4> HIDE DEF vowel
      <4> QED
        BY <1>1, <2>1, <2>3
    <3>2. next \in nuclei \ {vowel}
      BY <3>1, LeastOf
    <3> HIDE DEF vowel, next
    <3>3. vowel \in start .. last /\ next \in start .. last /\ vowel < next
      <4>1. vowel \in start .. last /\ next \in start .. last
        BY <1>1, <2>1, <3>2
      <4>2. vowel <= next /\ vowel # next
        BY <2>1, <3>2
      <4> QED
        BY <4>1, <4>2
    <3>4. ChunkEnd(units, start) \in
            {last, IF next - vowel <= 2 THEN next - 1 ELSE next - 2}
      BY <1>2, <1>4, <2>3
    <3> QED
      BY <1>1, <3>3, <3>4
  <2> QED
    BY <2>2, <2>3
<1> QED
  BY <1>3, <1>4

LEMMA SplitParts ==
  ASSUME NEW S, NEW units \in Seq(Words(S)), NEW i \in 1 .. Len(units), NEW k \in i + 1 .. Len(units) + 1
  PROVE  /\ Join(SubSeq(units, i, k - 1)) \in Words(S)
         /\ FlattenSeq(SubSeq(units, i, Len(units))) =
              Join(SubSeq(units, i, k - 1)) \o FlattenSeq(SubSeq(units, k, Len(units)))
<1>1. Len(units) \in Nat /\ \A x \in 1 .. Len(units) : units[x] \in Words(S)
  BY LenProperties
<1> DEFINE a == SubSeq(units, i, k - 1)
           b == SubSeq(units, k, Len(units))
<1>2. a \in Seq(Words(S)) /\ Len(a) = (k - 1) - i + 1
  <2>1. \A x \in i .. k - 1 : units[x] \in Words(S)
    BY <1>1
  <2> QED
    BY <1>1, <2>1, SubSeqProperties
<1>3. b \in Seq(Words(S))
  <2>1. \A x \in k .. Len(units) : units[x] \in Words(S)
    BY <1>1
  <2> QED
    BY <1>1, <2>1, SubSeqProperties
<1>4. a \o b = SubSeq(units, i, Len(units))
  <2>1. i \in 1 .. Len(units) + 1 /\ k - 1 \in i - 1 .. Len(units) /\ Len(units) \in k - 1 .. Len(units)
    BY <1>1
  <2>2. SubSeq(units, i, k - 1) \o SubSeq(units, (k - 1) + 1, Len(units)) = SubSeq(units, i, Len(units))
    BY <1>1, <2>1, ConcatAdjacentSubSeq
  <2>3. (k - 1) + 1 = k
    OBVIOUS
  <2> QED
    BY <2>2, <2>3
<1>5. Len(a) # 0
  BY <1>1, <1>2
<1> HIDE DEF a, b
<1>6. a # << >>
  BY <1>5
<1>7. Join(a) = FlattenSeq(a)
  BY <1>6 DEF Join
<1>8. FlattenSeq(a) \in Words(S) /\ FlattenSeq(a \o b) = FlattenSeq(a) \o FlattenSeq(b)
  BY <1>2, <1>3, FlattenConcat
<1> QED
  BY <1>4, <1>7, <1>8 DEF a, b

LargeDown(from, units) ==
  from = [start \in 1 .. Len(units) + 1 |->
            IF start > Len(units) THEN << >>
            ELSE <<Join(SubSeq(units, start, ChunkEnd(units, start)))>> \o from[ChunkEnd(units, start) + 1]]

LargeChunk(units) == [i \in 1 .. Len(units) |-> Join(SubSeq(units, i, ChunkEnd(units, i)))]
AfterChunk(units) == [i \in 1 .. Len(units) |-> ChunkEnd(units, i) + 1]

LEMMA LargeChunkFacts ==
  ASSUME NEW S, NEW units \in Seq(Words(S)), NEW i \in 1 .. Len(units)
  PROVE  /\ LargeChunk(units)[i] \in Words(S) /\ AfterChunk(units)[i] \in i + 1 .. Len(units) + 1
         /\ FlattenSeq(SubSeq(units, i, Len(units))) =
              LargeChunk(units)[i] \o FlattenSeq(SubSeq(units, AfterChunk(units)[i], Len(units)))
         /\ LargeChunk(units)[i] = Join(SubSeq(units, i, ChunkEnd(units, i)))
         /\ AfterChunk(units)[i] = ChunkEnd(units, i) + 1
<1> DEFINE k == ChunkEnd(units, i) + 1
<1>1. Len(units) \in Nat
  BY LenProperties
<1>2. ChunkEnd(units, i) \in i .. Len(units)
  BY <1>1, ChunkEndFits
<1>3. k \in i + 1 .. Len(units) + 1 /\ k - 1 = ChunkEnd(units, i)
  BY <1>1, <1>2
<1>4. LargeChunk(units)[i] = Join(SubSeq(units, i, k - 1)) /\ AfterChunk(units)[i] = k
  BY <1>3 DEF LargeChunk, AfterChunk
<1> HIDE DEF k
<1>5. /\ Join(SubSeq(units, i, k - 1)) \in Words(S)
      /\ FlattenSeq(SubSeq(units, i, Len(units))) =
           Join(SubSeq(units, i, k - 1)) \o FlattenSeq(SubSeq(units, k, Len(units)))
  BY <1>3, SplitParts
<1>6. AfterChunk(units)[i] = ChunkEnd(units, i) + 1
  BY <1>4 DEF k
<1> QED
  BY <1>3, <1>4, <1>5, <1>6

LEMMA LargeExists ==
  ASSUME NEW S, NEW units \in Seq(Words(S))
  PROVE  \E from : LargeDown(from, units)
<1> DEFINE n == Len(units)
           c == LargeChunk(units)
           j == AfterChunk(units)
<1>1. n \in Nat
  BY LenProperties
<1>2. \A i \in 1 .. n : c[i] \in Words(S) /\ j[i] \in i + 1 .. n + 1
  BY LargeChunkFacts
<1>3. \A i \in 1 .. n : c[i] = Join(SubSeq(units, i, ChunkEnd(units, i))) /\ j[i] = ChunkEnd(units, i) + 1
  BY LargeChunkFacts
<1> HIDE DEF n, c, j
<1>4. PICK f : PutsDown(f, n, c, j)
  BY <1>1, <1>2, PutDown
<1>5. ASSUME NEW i \in 1 .. n + 1, ~(i > n)
      PROVE  c[i] = Join(SubSeq(units, i, ChunkEnd(units, i))) /\ j[i] = ChunkEnd(units, i) + 1
  <2>1. i \in 1 .. n
    BY <1>1, <1>5
  <2> QED
    BY <1>3, <2>1
<1>6. f = [i \in 1 .. n + 1 |-> IF i > n THEN << >> ELSE <<c[i]>> \o f[j[i]]]
  BY <1>4 DEF PutsDown
<1>7. f = [i \in 1 .. n + 1 |->
            IF i > n THEN << >>
            ELSE <<Join(SubSeq(units, i, ChunkEnd(units, i)))>> \o f[ChunkEnd(units, i) + 1]]
  BY <1>5, <1>6
<1>8. LargeDown(f, units)
  BY <1>7 DEF LargeDown, n
<1> QED
  BY <1>8

LEMMA LargeSpells ==
  ASSUME NEW S, NEW units \in Seq(Words(S)), NEW from, LargeDown(from, units)
  PROVE  /\ from[1] \in Seq(Words(S)) /\ FlattenSeq(from[1]) = FlattenSeq(units)
         /\ units # << >> => from[1] # << >>
<1> DEFINE n == Len(units)
           c == LargeChunk(units)
           j == AfterChunk(units)
           V == [i \in 1 .. n + 1 |-> FlattenSeq(SubSeq(units, i, n))]
<1>1. n \in Nat
  BY LenProperties
<1>4. \A i \in 1 .. n + 1 :
        from[i] = IF i > n THEN << >>
                  ELSE <<Join(SubSeq(units, i, ChunkEnd(units, i)))>> \o from[ChunkEnd(units, i) + 1]
  BY DEF LargeDown
<1>5. from[n + 1] = << >> /\ V[n + 1] = << >>
  <2>1. n + 1 \in 1 .. n + 1 /\ n + 1 > n
    BY <1>1
  <2>2. SubSeq(units, n + 1, n) = << >>
    BY <1>1, SubSeqEmpty
  <2>3. V[n + 1] = FlattenSeq(SubSeq(units, n + 1, n))
    BY <2>1
  <2> HIDE DEF V
  <2> QED
    BY <1>4, <2>1, <2>2, <2>3, FlattenEmpty
<1>6. ASSUME NEW i \in 1 .. n
      PROVE  /\ j[i] \in i + 1 .. n + 1 /\ c[i] \in Words(S)
             /\ from[i] = <<c[i]>> \o from[j[i]] /\ V[i] = c[i] \o V[j[i]]
  <2>1. /\ c[i] \in Words(S) /\ j[i] \in i + 1 .. n + 1
        /\ FlattenSeq(SubSeq(units, i, n)) = c[i] \o FlattenSeq(SubSeq(units, j[i], n))
        /\ c[i] = Join(SubSeq(units, i, ChunkEnd(units, i))) /\ j[i] = ChunkEnd(units, i) + 1
    BY LargeChunkFacts
  <2> HIDE DEF c, j, n
  <2>2. i \in 1 .. n + 1 /\ ~(i > n) /\ j[i] \in 1 .. n + 1
    <3>1. j[i] \in i + 1 .. n + 1
      BY <2>1
    <3> QED
      BY <1>1, <3>1
  <2>3. V[i] = FlattenSeq(SubSeq(units, i, n)) /\ V[j[i]] = FlattenSeq(SubSeq(units, j[i], n))
    BY <2>2
  <2> HIDE DEF V
  <2>4. from[i] = <<c[i]>> \o from[j[i]]
    BY <1>4, <2>1, <2>2
  <2> QED
    BY <2>1, <2>3, <2>4
<1>8. 1 \in 1 .. n + 1 /\ V[1] = FlattenSeq(units)
  <2>1. 1 \in 1 .. n + 1
    BY <1>1
  <2>2. SubSeq(units, 1, n) = units
    BY SubSeqFull
  <2>3. V[1] = FlattenSeq(SubSeq(units, 1, n))
    BY <2>1
  <2> QED
    BY <2>1, <2>2, <2>3
<1>9. units # << >> => n # 0
  BY EmptySeq
<1> HIDE DEF c, j, V, n
<1>10. CanSpellDown(S, n, c, j, V, from)
  BY <1>1, <1>5, <1>6 DEF CanSpellDown
<1>11. /\ \A i \in 1 .. n + 1 : from[i] \in Seq(Words(S)) /\ FlattenSeq(from[i]) = V[i]
       /\ \A i \in 1 .. n : from[i] # << >>
  BY <1>10, SpellsDown
<1>12. n # 0 => 1 \in 1 .. n
  BY <1>1
<1> QED
  BY <1>8, <1>9, <1>11, <1>12

LEMMA LargeChunksSpell ==
  ASSUME NEW S, NEW w \in Words(S)
  PROVE  /\ LargeChunks(w) \in Seq(Words(S)) /\ FlattenSeq(LargeChunks(w)) = w
         /\ LargeChunks(w) # << >>
<1>1. CASE ~Fits(w) \/ Len(w) <= 3
  <2>1. LargeChunks(w) = AtomicChunks(w)
    BY <1>1 DEF LargeChunks
  <2> QED
    BY <2>1, AtomicChunksSpell
<1>2. CASE ~(~Fits(w) \/ Len(w) <= 3)
  <2> DEFINE units == Units(w)
             from == CHOOSE f : LargeDown(f, units)
  <2>1. units \in Seq(Words(S)) /\ FlattenSeq(units) = w /\ units # << >>
    <3>1. Len(w) # 0
      BY <1>2
    <3> QED
      BY <3>1, UnitsSpell
  <2>2. LargeChunks(w) = from[1]
    BY <1>2 DEF LargeChunks, LargeDown
  <2> HIDE DEF units
  <2>3. LargeDown(from, units)
    BY <2>1, LargeExists
  <2> HIDE DEF from
  <2>4. from[1] \in Seq(Words(S)) /\ FlattenSeq(from[1]) = FlattenSeq(units) /\ from[1] # << >>
    BY <2>1, <2>3, LargeSpells
  <2> QED
    BY <2>1, <2>2, <2>4
<1> QED
  BY <1>1, <1>2

LEMMA FinishSpells ==
  ASSUME NEW S, NEW p \in Pieces(S), NEW large \in BOOLEAN
  PROVE  /\ Finish(p, large) \in Seq(Words(S)) /\ FlattenSeq(Finish(p, large)) = Whole(p)
         /\ Finish(p, large) # << >>
<1> DEFINE a == p.prefix
           b == p.suffix
           m == IF large THEN LargeChunks(p.core) ELSE AtomicChunks(p.core)
<1>1. a \in Seq(Words(S)) /\ b \in Seq(Words(S)) /\ p.core \in Words(S)
  BY DEF Pieces
<1>2. m \in Seq(Words(S)) /\ FlattenSeq(m) = p.core /\ m # << >>
  BY <1>1, LargeChunksSpell, AtomicChunksSpell
<1>3. Finish(p, large) = a \o m \o b
  BY DEF Finish
<1>4. Whole(p) = FlattenSeq(a) \o (p.core \o FlattenSeq(b))
  BY DEF Whole
<1> HIDE DEF a, b, m
<1>5. a \o m \in Seq(Words(S)) /\ FlattenSeq(a \o m) = FlattenSeq(a) \o FlattenSeq(m)
  BY <1>1, <1>2, FlattenConcat
<1> DEFINE u == a \o m
<1>6. u \in Seq(Words(S)) /\ u # << >>
  <2>1. Len(a \o m) = Len(a) + Len(m) /\ Len(a) \in Nat /\ Len(m) \in Nat
    BY <1>1, <1>2, ConcatProperties, LenProperties
  <2>2. Len(m) # 0
    BY <1>2, EmptySeq
  <2>3. Len(u) # 0
    BY <2>1, <2>2
  <2>4. u \in Seq(Words(S))
    BY <1>5
  <2> HIDE DEF u
  <2> QED
    BY <2>3, <2>4
<1> HIDE DEF u
<1>7. u \o b \in Seq(Words(S)) /\ FlattenSeq(u \o b) = FlattenSeq(u) \o FlattenSeq(b)
  BY <1>1, <1>6, FlattenConcat
<1>8. u \o b # << >>
  <2>1. Len(u \o b) = Len(u) + Len(b) /\ Len(u) \in Nat /\ Len(b) \in Nat
    BY <1>1, <1>6, ConcatProperties, LenProperties
  <2>2. Len(u) # 0
    BY <1>6, EmptySeq
  <2> DEFINE z == u \o b
  <2>3. Len(z) # 0
    BY <2>1, <2>2
  <2> HIDE DEF z
  <2>4. z # << >>
    BY <2>3
  <2> QED
    BY <2>4 DEF z
<1>9. FlattenSeq(a) \in Words(S) /\ FlattenSeq(m) \in Words(S) /\ FlattenSeq(b) \in Words(S)
  BY <1>1, <1>2, FlattenConcat
<1> DEFINE x == FlattenSeq(a)
           y == FlattenSeq(m)
           v == FlattenSeq(b)
<1>10. x \in Words(S) /\ y \in Words(S) /\ v \in Words(S)
  BY <1>9
<1>11. FlattenSeq(u) = x \o y /\ FlattenSeq(u \o b) = FlattenSeq(u) \o v
  BY <1>5, <1>7 DEF u
<1>12. Whole(p) = x \o (y \o v)
  BY <1>2, <1>4
<1> HIDE DEF x, y, v
<1>13. (x \o y) \o v = x \o (y \o v)
  BY <1>10, WordsAssociate
<1>14. Finish(p, large) = u \o b
  BY <1>3 DEF u
<1>15. FlattenSeq(u \o b) = Whole(p)
  BY <1>11, <1>12, <1>13
<1> QED
  BY <1>7, <1>8, <1>14, <1>15

LEMMA TrimKept ==
  ASSUME NEW S, NEW w \in Words(S), Kept(w) # {}
  PROVE  Trim(w) \in Words(S) /\ Trim(w) # << >>
<1> DEFINE K == Kept(w)
           lo == Min(K)
           hi == Max(K)
<1>1. Len(w) \in Nat /\ w \in Seq(S) /\ \A x \in 1 .. Len(w) : w[x] \in S
  BY LenProperties DEF Words
<1>2. K \subseteq 1 .. Len(w) /\ K # {}
  BY DEF Kept
<1> HIDE DEF K
<1>3. K \subseteq Nat /\ K \subseteq 0 .. Len(w)
  BY <1>1, <1>2
<1>4. lo \in K /\ hi \in K /\ lo <= hi
  BY <1>1, <1>2, <1>3, LeastOf, GreatestIn
<1>5. Trim(w) = SubSeq(w, lo, hi)
  BY DEF Trim, K
<1> HIDE DEF lo, hi
<1>6. lo \in 1 .. Len(w) /\ hi \in 1 .. Len(w)
  BY <1>2, <1>4
<1>7. SubSeq(w, lo, hi) \in Seq(S) /\ Len(SubSeq(w, lo, hi)) = hi - lo + 1
  <2>1. \A x \in lo .. hi : w[x] \in S
    BY <1>1, <1>6
  <2> QED
    BY <1>1, <1>4, <1>6, <2>1, SubSeqProperties
<1>8. SubSeq(w, lo, hi) # << >>
  <2> DEFINE z == SubSeq(w, lo, hi)
  <2>1. Len(z) # 0
    BY <1>4, <1>6, <1>7
  <2> HIDE DEF z
  <2>2. z # << >>
    BY <2>1
  <2> QED
    BY <2>2 DEF z
<1> QED
  BY <1>5, <1>7, <1>8 DEF Words

LEMMA UncutPieces ==
  ASSUME NEW S, NEW w \in Words(S), Kept(w) # {}
  PROVE  Uncut(w) \in Pieces(S) /\ Whole(Uncut(w)) = Trim(w)
<1> DEFINE t == Trim(w)
           p == [core |-> t, prefix |-> << >>, suffix |-> << >>]
<1>1. t \in Words(S)
  BY TrimKept
<1>2. Uncut(w) = p
  BY DEF Uncut
<1>3. Whole(p) = FlattenSeq(<< >>) \o (t \o FlattenSeq(<< >>))
  BY DEF Whole
<1> HIDE DEF t
<1>4. << >> \in Seq(Words(S))
  BY EmptySeq
<1>5. p \in Pieces(S)
  BY <1>1, <1>4 DEF Pieces
<1>6. t \o << >> = t /\ << >> \o t = t
  BY <1>1, WordFacts
<1>7. FlattenSeq(<< >>) \o (t \o FlattenSeq(<< >>)) = t
  BY <1>6, FlattenEmpty
<1> QED
  BY <1>2, <1>3, <1>5, <1>7 DEF t

\* A word is cut to what it is: to_chunks loses no letter of it, has none twice
\* and moves none, whatever its letters are.
THEOREM ChunksSpellTheWord ==
  ASSUME NEW S, NEW w \in Words(S), Kept(w) # {}, NEW kind \in {"noun", "verb", "adjective"}
  PROVE  /\ ToChunks(w, kind) \in Seq(Words(S)) /\ ToChunks(w, kind) # << >>
         /\ Join(ToChunks(w, kind)) = Trim(w)
<1>1. \A p \in Pieces(S), large \in BOOLEAN :
        /\ Finish(p, large) \in Seq(Words(S)) /\ FlattenSeq(Finish(p, large)) = Whole(p)
        /\ Finish(p, large) # << >>
  BY FinishSpells
<1> DEFINE Spells(q) == q \in Pieces(S) /\ Whole(q) = Trim(w)
<1>2. Spells(Uncut(w))
  BY UncutPieces
<1>4. ASSUME NEW q, Spells(q), NEW table, NEW side \in {"prefix", "suffix"}, NEW rounds \in {1, 2, 3}
      PROVE  Spells(Peel(q, table, side, rounds))
  <2>1. q \in Pieces(S) /\ Whole(q) = Trim(w)
    BY <1>4
  <2>2. Peel(q, table, side, rounds) \in Pieces(S) /\ Whole(Peel(q, table, side, rounds)) = Whole(q)
    <3>1. rounds \in Nat
      OBVIOUS
    <3> QED
      BY <2>1, <3>1, PeelKeeps
  <2> QED
    BY <2>1, <2>2
<1>5. \E p : Spells(p) /\ \E large \in BOOLEAN : ToChunks(w, kind) = Finish(p, large)
  <2>1. CASE kind = "noun"
    <3> DEFINE r1 == Peel(Uncut(w), NounDeriv, "suffix", 2)
               r2 == Peel(r1, NounInflection, "suffix", 1)
               r3 == Peel(r2, NounDeriv, "suffix", 1)
               r4 == PeelAdjective(r3)
    <3>1. Spells(r1) /\ Spells(r2) /\ Spells(r3)
      <4> HIDE DEF Spells
      <4> QED
        BY <1>2, <1>4
    <3>2. ToChunks(w, kind) = FinishNoun(r4)
      BY <2>1 DEF ToChunks, NounChunks
    <3> HIDE DEF r3, Spells
    <3>3. Spells(r4)
      BY <1>4, <3>1 DEF PeelAdjective
    <3> HIDE DEF r4
    <3>4. ToChunks(w, kind) = Finish(r4, Peeled(r4, {"anz", "enz"}))
      BY <3>2 DEF FinishNoun
    <3>5. Peeled(r4, {"anz", "enz"}) \in BOOLEAN
      BY DEF Peeled
    <3> QED
      BY <3>3, <3>4, <3>5
  <2>2. CASE kind = "verb"
    <3> DEFINE r1 == Peel(Uncut(w), VerbInfinitive, "suffix", 1)
               r2 == PeelFinite(r1)
               r3 == Peel(r2, VerbPrefix, "prefix", 3)
    <3>1. ToChunks(w, kind) = Finish(r3, FALSE)
      BY <2>2 DEF ToChunks, VerbChunks
    <3> HIDE DEF Spells
    <3>2. Spells(r1)
      BY <1>2, <1>4
    <3> HIDE DEF r1
    <3>3. Spells(r2)
      BY <1>4, <3>2 DEF PeelFinite
    <3> HIDE DEF r2
    <3>4. Spells(r3)
      BY <1>4, <3>3
    <3> QED
      BY <3>1, <3>4
  <2>3. CASE kind = "adjective"
    <3> DEFINE r1 == Peel(Uncut(w), AdjectiveOuter, "suffix", 1)
               r2 == Peel(r1, AdjectiveDeriv, "suffix", 2)
               r3 == Peel(r2, AdjectivePrefix, "prefix", 3)
    <3>1. ToChunks(w, kind) = Finish(r3, FALSE)
      BY <2>3 DEF ToChunks, AdjectiveChunks
    <3> HIDE DEF Spells
    <3>2. Spells(r3)
      BY <1>2, <1>4
    <3> QED
      BY <3>1, <3>2
  <2> QED
    BY <2>1, <2>2, <2>3
<1>6. PICK p : Spells(p) /\ \E large \in BOOLEAN : ToChunks(w, kind) = Finish(p, large)
  BY <1>5
<1>7. /\ ToChunks(w, kind) \in Seq(Words(S)) /\ FlattenSeq(ToChunks(w, kind)) = Trim(w)
      /\ ToChunks(w, kind) # << >>
  BY <1>1, <1>6
<1> QED
  BY <1>7 DEF Join

\* An exercise that asks for a word letter by letter asks for the word.
THEOREM LettersSpellTheWord ==
  ASSUME NEW S, NEW w \in Words(S), w # << >>
  PROVE  /\ ToLetters(w) \in Seq(Words(S)) /\ ToLetters(w) # << >>
         /\ Join(ToLetters(w)) = w
<1> DEFINE n == Len(w)
           t == ToLetters(w)
           V == [k \in 0 .. n |-> SubSeq(w, 1, k)]
<1>1. n \in Nat /\ n # 0 /\ w \in Seq(S) /\ \A i \in 1 .. n : w[i] \in S
  BY LenProperties, EmptySeq DEF Words
<1>2. \A i \in 1 .. n : At(w, i) \in Words(S) /\ At(w, i) = <<w[i]>>
  <2> TAKE i \in 1 .. n
  <2>1. \A x \in i .. i : w[x] \in S
    BY <1>1
  <2>2. SubSeq(w, i, i) \in Seq(S) /\ Len(SubSeq(w, i, i)) = 1 /\ SubSeq(w, i, i)[1] = w[i]
    <3>1. i \in 1 .. Len(w) + 1 /\ i \in i - 1 .. Len(w) /\ i - i + 1 = 1 /\ i + 1 - 1 = i
      BY <1>1
    <3> QED
      BY <1>1, <2>1, <3>1, SubSeqProperties
  <2>3. SubSeq(w, i, i) = <<w[i]>>
    <3> DEFINE z == SubSeq(w, i, i)
    <3>1. z \in Seq(S) /\ Len(z) = 1 /\ z[1] = w[i]
      BY <2>2
    <3> HIDE DEF z
    <3>2. z = <<w[i]>>
      BY <3>1
    <3> QED
      BY <3>2 DEF z
  <2> QED
    BY <2>2, <2>3 DEF At, Words
<1>3. t = [i \in 1 .. n |-> At(w, i)]
  BY DEF ToLetters
<1>4. t \in Seq(Words(S)) /\ Len(t) = n /\ \A i \in 1 .. n : t[i] = At(w, i)
  <2> HIDE DEF t, n
  <2>1. t \in [1 .. n -> Words(S)]
    BY <1>2, <1>3
  <2> QED
    BY <1>1, <1>3, <2>1, SeqDef
<1>5. t # << >>
  BY <1>1, <1>4, EmptySeq
<1> HIDE DEF t
<1>6. PICK g : Glues(g, t) /\ FlattenSeq(t) = g[n]
  BY <1>4, <1>5, FlattenGlue
<1>7. \A i \in 1 .. n : g[i] \in Words(S) /\ g[i] = IF i = 1 THEN t[i] ELSE g[i - 1] \o t[i]
  BY <1>4, <1>6, GlueFacts
<1> DEFINE Good == {k \in 0 .. n : k # 0 => g[k] = SubSeq(w, 1, k)}
<1>8. 0 \in Good
  BY <1>1
<1>9. ASSUME NEW k \in 0 .. n - 1, k \in Good PROVE k + 1 \in Good
  <2>1. k + 1 \in 1 .. n /\ (k + 1) - 1 = k /\ k + 1 \in 0 .. n
    BY <1>1
  <2>2. t[k + 1] = <<w[k + 1]>>
    BY <1>2, <1>4, <2>1
  <2>3. CASE k = 0
    <3>1. g[k + 1] = At(w, 1)
      BY <1>4, <1>7, <2>1, <2>3
    <3> QED
      BY <2>1, <2>3, <3>1 DEF At
  <2>4. CASE k # 0
    <3>0. k \in 1 .. n /\ k + 1 # 1 /\ g[k] = SubSeq(w, 1, k)
      BY <1>1, <1>9, <2>1, <2>4
    <3>1. g[k + 1] = g[k] \o t[k + 1]
      BY <1>7, <2>1, <3>0
    <3>2. SubSeq(w, 1, k + 1) = SubSeq(w, 1, k) \o <<w[k + 1]>>
      <4>1. 1 \in 1 .. Len(w) /\ k + 1 \in 1 .. Len(w)
        BY <1>1, <2>1
      <4> QED
        BY <1>1, <2>1, <4>1, SubSeqRecursiveSecond
    <3>6. g[k + 1] = SubSeq(w, 1, k + 1)
      BY <2>2, <3>0, <3>1, <3>2
    <3> QED
      BY <2>1, <3>6
  <2> QED
    BY <2>3, <2>4
<1> HIDE DEF Good
<1>10. \A k \in 0 .. n : k \in Good
  BY <1>1, <1>8, <1>9, Induction
<1>11. g[n] = SubSeq(w, 1, n)
  <2>1. n \in 0 .. n
    BY <1>1
  <2> QED
    BY <1>1, <1>10, <2>1 DEF Good
<1>12. SubSeq(w, 1, n) = w
  BY <1>1, SubSeqFull
<1>13. Join(t) = w
  BY <1>5, <1>6, <1>11, <1>12 DEF Join
<1> QED
  BY <1>4, <1>5, <1>13 DEF t

-----------------------------------------------------------------------------
(* The stages of a word put together are the word. *)

\* A string is a sequence of characters (Specifying Systems, 16.1.10), and the
\* texts the stages put between others are strings. The provers know neither, so
\* both are a hypothesis of what is said of texts made from strings.
Literal == {"", " ", "e", "t", "te", "ge", "der", "die", "das", "none", "hat", "ist",
            "~-e", "~-er", "~-"}
StringsAreWords(C) == STRING \cup Literal \subseteq Words(C) /\ Len("") = 0

LEMMA NoText ==
  ASSUME NEW C, StringsAreWords(C)
  PROVE  "" = << >>
<1> DEFINE e == ""
<1>1. e \in Words(C) /\ Len(e) = 0
  BY DEF StringsAreWords, Literal
<1>2. e \in Seq(C)
  BY <1>1 DEF Words
<1> HIDE DEF e
<1>3. e = << >>
  BY <1>1, <1>2, EmptySeq
<1> QED
  BY <1>3 DEF e

LEMMA JoinFlattens ==
  ASSUME NEW C, StringsAreWords(C), NEW s
  PROVE  Join(s) = FlattenSeq(s)
<1>1. CASE s = << >>
  <2>1. Join(s) = ""
    BY <1>1 DEF Join
  <2>2. "" = << >>
    BY NoText
  <2>3. FlattenSeq(s) = << >>
    BY <1>1, FlattenEmpty
  <2> HIDE <1>1
  <2> QED
    BY <2>1, <2>2, <2>3
<1>2. CASE s # << >>
  BY <1>2 DEF Join
<1> QED
  BY <1>1, <1>2

LEMMA TrimWord ==
  ASSUME NEW C, StringsAreWords(C), NEW w \in Words(C)
  PROVE  Trim(w) \in Words(C)
<1>1. CASE Kept(w) = {}
  <2>1. Trim(w) = ""
    BY <1>1 DEF Trim
  <2> QED
    BY <2>1 DEF StringsAreWords, Literal
<1>2. CASE Kept(w) # {}
  BY <1>2, TrimKept
<1> QED
  BY <1>1, <1>2

LEMMA PartOfWord ==
  ASSUME NEW S, NEW w \in Words(S), NEW i \in Nat \ {0}, NEW k \in Int, k <= Len(w)
  PROVE  SubSeq(w, i, k) \in Words(S)
<1>1. Len(w) \in Nat /\ w \in Seq(S) /\ \A x \in 1 .. Len(w) : w[x] \in S
  BY LenProperties DEF Words
<1>2. CASE i <= k
  <2>1. \A x \in i .. k : w[x] \in S
    BY <1>1, <1>2
  <2>2. i \in 1 .. Len(w) + 1 /\ k \in i - 1 .. Len(w)
    BY <1>1, <1>2
  <2>3. SubSeq(w, i, k) \in Seq(S)
    BY <1>1, <2>1, <2>2, SubSeqProperties
  <2> QED
    BY <2>3 DEF Words
<1>3. CASE ~(i <= k)
  <2>1. SubSeq(w, i, k) = << >>
    BY <1>3, SubSeqEmpty
  <2> QED
    BY <2>1, WordFacts
<1> QED
  BY <1>2, <1>3

LEMMA StemIsWord ==
  ASSUME NEW C, StringsAreWords(C), NEW v, v.infinitive \in STRING, v.prefix \in 0 .. Len(v.infinitive)
  PROVE  Prefix(v) \in Words(C) /\ Stem(v) \in Words(C)
<1>1. v.infinitive \in Words(C) /\ Len(v.infinitive) \in Nat
  BY WordFacts DEF StringsAreWords, Literal
<1> DEFINE w == WithoutPrefix(v)
           inf == v.infinitive
           p == v.prefix
<1>2. Prefix(v) = SubSeq(inf, 1, p) /\ p \in 0 .. Len(inf)
  BY DEF Prefix, Leading
<1>3. w = SubSeq(inf, p + 1, Len(inf))
  <2>1. Len(inf) - (Len(inf) - p) + 1 = p + 1
    BY <1>1
  <2> QED
    BY <2>1 DEF WithoutPrefix, Trailing
<1> HIDE DEF inf, p
<1>4. inf \in Words(C) /\ Len(inf) \in Nat
  BY <1>1 DEF inf
<1>5. Prefix(v) \in Words(C) /\ w \in Words(C)
  BY <1>2, <1>3, <1>4, SplitWord
<1>6. Stem(v) \in {SubSeq(w, 1, Len(w) - 2), SubSeq(w, 1, Len(w) - 1)}
  BY DEF Stem, Leading
<1> HIDE DEF w
<1>7. Len(w) \in Nat
  BY <1>5, WordFacts
<1>8. SubSeq(w, 1, Len(w) - 2) \in Words(C)
  <2>1. Len(w) - 2 \in Int /\ Len(w) - 2 <= Len(w)
    BY <1>7
  <2> QED
    BY <1>5, <2>1, PartOfWord
<1>9. SubSeq(w, 1, Len(w) - 1) \in Words(C)
  <2>1. Len(w) - 1 \in Int /\ Len(w) - 1 <= Len(w)
    BY <1>7
  <2> QED
    BY <1>5, <2>1, PartOfWord
<1> QED
  BY <1>5, <1>6, <1>8, <1>9

LEMMA VerbFormsAreWords ==
  ASSUME NEW C, StringsAreWords(C), NEW v, v.infinitive \in STRING, v.prefix \in 0 .. Len(v.infinitive),
         v.third \in STRING, v.praeteritum \in STRING, v.participle \in STRING
  PROVE  ThirdPerson(v) \in Words(C) /\ Praeteritum(v) \in Words(C) /\ PastParticiple(v) \in Words(C)
<1> DEFINE p == Prefix(v)
           s == Stem(v)
<1>1. p \in Words(C) /\ s \in Words(C)
  BY StemIsWord
<1>2. STRING \subseteq Words(C)
  BY DEF StringsAreWords, Literal
<1>a. Literal \subseteq Words(C)
  BY DEF StringsAreWords
<1> HIDE DEF p, s
<1>3. \A x, y \in Words(C) : x \o y \in Words(C)
  BY WordFacts
<1>4. \A b \in BOOLEAN, x \in Words(C) : Inserted(b, x) \in Words(C)
  BY <1>a DEF Inserted, Literal
<1>5. " " \in Words(C) /\ "e" \in Words(C) /\ "t" \in Words(C) /\ "te" \in Words(C) /\ "ge" \in Words(C)
  BY <1>a DEF Literal
<1>6. " " \o p \in Words(C)
  BY <1>1, <1>3, <1>5
<1> DEFINE apart == Inserted(v.prefix > 0, " " \o p)
           between == Inserted(NeedsE(s), "e")
           ge == Inserted(~NoGe(v), "ge")
<1>7. apart \in Words(C) /\ between \in Words(C) /\ ge \in Words(C)
  <2>1. (v.prefix > 0) \in BOOLEAN /\ NeedsE(s) \in BOOLEAN /\ (~NoGe(v)) \in BOOLEAN
    BY DEF NeedsE
  <2> QED
    BY <1>4, <1>5, <1>6, <2>1
<1>8. \A form \in Words(C) : Separated(v, form) = form \o apart
  BY DEF Separated, p
<1>9. \A ending \in Words(C) : WithEnding(v, ending) = s \o between \o ending \o apart
  BY DEF WithEnding, p, s
<1>10. PastParticiple(v) \in {v.participle, p \o ge \o s \o between \o "t"}
  BY DEF PastParticiple, p, s
<1>11. ThirdPerson(v) \in {Separated(v, v.third), WithEnding(v, "t")}
  BY DEF ThirdPerson
<1>12. Praeteritum(v) \in {Separated(v, v.praeteritum), WithEnding(v, "te")}
  BY DEF Praeteritum
<1> HIDE DEF apart, between, ge
<1>13. \A x \in Words(C) : Separated(v, x) \in Words(C)
  BY <1>3, <1>7, <1>8
<1>14. \A x \in Words(C) : WithEnding(v, x) \in Words(C)
  <2> TAKE x \in Words(C)
  <2>1. s \o between \in Words(C)
    BY <1>1, <1>3, <1>7
  <2>2. s \o between \o x \in Words(C)
    BY <1>3, <2>1
  <2>3. s \o between \o x \o apart \in Words(C)
    BY <1>3, <1>7, <2>2
  <2> QED
    BY <1>9, <2>3
<1>15. p \o ge \o s \o between \o "t" \in Words(C)
  <2>1. p \o ge \in Words(C)
    BY <1>1, <1>3, <1>7
  <2>2. p \o ge \o s \in Words(C)
    BY <1>1, <1>3, <2>1
  <2>3. p \o ge \o s \o between \in Words(C)
    BY <1>3, <1>7, <2>2
  <2> QED
    BY <1>3, <1>5, <2>3
<1>16. v.third \in Words(C) /\ v.praeteritum \in Words(C) /\ v.participle \in Words(C)
  BY <1>2
<1> QED
  BY <1>5, <1>10, <1>11, <1>12, <1>13, <1>14, <1>15, <1>16

Kinds == {"noun", "verb", "adjective"}
Askings(C) ==
  [type : {"article", "form", "plural", "aux"}, text : Words(C), capital : BOOLEAN, kind : Kinds]

LEMMA BuiltSeq ==
  ASSUME NEW n \in Nat, NEW W, NEW f \in [1 .. n -> W]
  PROVE  f \in Seq(W) /\ Len(f) = n
  BY SeqDef, LenProperties

LEMMA GivenSeq ==
  ASSUME NEW W, NEW text, NEW form \in W
  PROVE  Given(text, form) \in Seq(W)
<1>1. <<form>> \in Seq(W) /\ << >> \in Seq(W)
  BY EmptySeq
<1> QED
  BY <1>1 DEF Given

PhraseAsked(asked, items) ==
  asked = [i \in 0 .. Len(items) |->
             IF i = 0 THEN << >> ELSE asked[i - 1] \o Given(items[i].text, OfPhrase(items[i]))]

PhraseWord == [text : STRING, capital : BOOLEAN, empty : BOOLEAN]

LEMMA PhraseGives ==
  ASSUME NEW C, StringsAreWords(C), NEW items \in Seq(PhraseWord), NEW i \in 1 .. Len(items)
  PROVE  Given(items[i].text, OfPhrase(items[i])) \in Seq(Askings(C))
<1> DEFINE x == items[i]
<1>1. x \in PhraseWord
  BY ElementOfSeq
<1>2. x.text \in Words(C) /\ x.capital \in BOOLEAN
  BY <1>1 DEF PhraseWord, StringsAreWords
<1> DEFINE k == GuessKind(x.text, x.capital)
<1>3. k \in Kinds
  BY DEF GuessKind, KindOf, Kinds
<1> HIDE DEF k
<1>4. [type |-> "form", text |-> x.text, capital |-> x.capital, kind |-> k] \in Askings(C)
  BY <1>2, <1>3 DEF Askings
<1>5. OfPhrase(x) \in Askings(C)
  BY <1>4 DEF OfPhrase, Common, Asked, k
<1> HIDE DEF x
<1>6. Given(x.text, OfPhrase(x)) \in Seq(Askings(C))
  BY <1>5, GivenSeq
<1> QED
  BY <1>6 DEF x

LEMMA PhraseFormsSeq ==
  ASSUME NEW C, StringsAreWords(C), NEW items \in Seq(PhraseWord)
  PROVE  /\ \E asked : PhraseAsked(asked, items)
         /\ \A asked : PhraseAsked(asked, items) => asked[Len(items)] \in Seq(Askings(C))
<1> DEFINE n == Len(items)
           D == Seq(Askings(C))
           c == [i \in 1 .. n |-> Given(items[i].text, OfPhrase(items[i]))]
           F == [i \in 1 .. n |-> [x \in D |-> x \o c[i]]]
<1>1. n \in Nat
  BY LenProperties
<1>2. \A i \in 1 .. n : c[i] \in D /\ c[i] = Given(items[i].text, OfPhrase(items[i]))
  BY PhraseGives
<1> HIDE DEF c, n
<1>3. \A x, y \in D : x \o y \in D
  BY ConcatProperties
<1>4. << >> \in D
  BY EmptySeq
<1> HIDE DEF D
<1>5. F \in [1 .. n -> [D -> D]] /\ \A i \in 1 .. n, x \in D : F[i][x] = x \o c[i]
  BY <1>2, <1>3
<1> HIDE DEF F
<1>6. CanIterate(n, D, << >>, F)
  BY <1>1, <1>4, <1>5 DEF CanIterate
<1>7. PICK f : Iterates(f, n, D, << >>, F)
  BY <1>6, Iterated
<1>8. f \in [0 .. n -> D] /\ f[0] = << >> /\ \A i \in 1 .. n : f[i] = F[i][f[i - 1]]
  BY <1>7 DEF Iterates
<1>9. ASSUME NEW i \in 0 .. n
      PROVE  f[i] = IF i = 0 THEN << >> ELSE f[i - 1] \o Given(items[i].text, OfPhrase(items[i]))
  <2>1. CASE i = 0
    BY <1>8, <2>1
  <2>2. CASE i # 0
    <3>1. i \in 1 .. n /\ i - 1 \in 0 .. n
      BY <1>1, <2>2
    <3>2. f[i - 1] \in D /\ f[i] = F[i][f[i - 1]]
      BY <1>8, <3>1
    <3>3. f[i] = f[i - 1] \o c[i]
      BY <1>5, <3>1, <3>2
    <3> QED
      BY <1>2, <2>2, <3>1, <3>3
  <2> QED
    BY <2>1, <2>2
<1>10. f = [i \in 0 .. n |-> f[i]]
  BY <1>8
<1>11. PhraseAsked(f, items)
  BY <1>9, <1>10 DEF PhraseAsked, n
<1>12. ASSUME NEW asked, PhraseAsked(asked, items) PROVE asked[n] \in D
  <2> DEFINE Good == {i \in 0 .. n : asked[i] \in D}
  <2>1. \A i \in 0 .. n :
          asked[i] = IF i = 0 THEN << >> ELSE asked[i - 1] \o Given(items[i].text, OfPhrase(items[i]))
    BY <1>12 DEF PhraseAsked, n
  <2>2. 0 \in Good
    BY <1>1, <1>4, <2>1
  <2>3. ASSUME NEW i \in 0 .. n - 1, i \in Good PROVE i + 1 \in Good
    <3>1. i + 1 \in 1 .. n /\ i + 1 \in 0 .. n /\ i + 1 # 0 /\ (i + 1) - 1 = i
      BY <1>1
    <3>2. asked[i + 1] = asked[i] \o c[i + 1]
      BY <1>2, <2>1, <3>1
    <3>3. asked[i] \in D /\ c[i + 1] \in D
      BY <1>2, <2>3, <3>1
    <3>4. asked[i + 1] \in D
      BY <1>3, <3>2, <3>3
    <3> QED
      BY <3>1, <3>4
  <2> HIDE DEF Good
  <2>4. \A i \in 0 .. n : i \in Good
    BY <1>1, <2>2, <2>3, Induction
  <2>5. n \in Good
    BY <1>1, <2>4
  <2> QED
    BY <2>5 DEF Good
<1> QED
  BY <1>11, <1>12 DEF n, D

LEMMA PhraseWordsSeq ==
  ASSUME NEW items \in Seq(PhraseWord)
  PROVE  PhraseWords(items) \in Seq(PhraseWord)
<1> DEFINE E == {i \in DOMAIN items : items[i].empty}
<1>1. Len(items) \in Nat /\ DOMAIN items = 1 .. Len(items)
      /\ \A i \in 1 .. Len(items) : items[i] \in PhraseWord
  BY LenProperties, ElementOfSeq
<1>2. PhraseWords(items) = IF E = {} THEN items ELSE SubSeq(items, 1, Min(E) - 1)
  BY DEF PhraseWords
<1>3. E \subseteq 1 .. Len(items)
  BY <1>1
<1> HIDE DEF E
<1>4. CASE E = {}
  BY <1>2, <1>4
<1>5. CASE E # {}
  <2> DEFINE m == Min(E)
  <2>1. E \subseteq Nat
    BY <1>1, <1>3
  <2>2. m \in E
    BY <1>5, <2>1, LeastOf
  <2> HIDE DEF m
  <2>3. m \in 1 .. Len(items)
    BY <1>3, <2>2
  <2>4. \A x \in 1 .. m - 1 : items[x] \in PhraseWord
    BY <1>1, <2>3
  <2>5. 1 \in 1 .. Len(items) + 1 /\ m - 1 \in 1 - 1 .. Len(items)
    BY <1>1, <2>3
  <2>6. SubSeq(items, 1, m - 1) \in Seq(PhraseWord)
    BY <1>1, <2>4, <2>5, SubSeqProperties
  <2> QED
    BY <1>2, <1>5, <2>6 DEF m
<1> QED
  BY <1>4, <1>5

LEMMA AskedTyped ==
  ASSUME NEW C, NEW type \in {"article", "form", "plural", "aux"}, NEW text \in Words(C),
         NEW capital \in BOOLEAN, NEW kind \in Kinds
  PROVE  Asked(type, text, capital, kind) \in Askings(C)
  BY DEF Asked, Askings

LEMMA SeqsTogether ==
  ASSUME NEW W, NEW s \in Seq(W), NEW t \in Seq(W)
  PROVE  s \o t \in Seq(W)
  BY ConcatProperties

LEMMA NounForms ==
  ASSUME NEW C, StringsAreWords(C), NEW w \in Lexeme, w.type = "noun"
  PROVE  Forms(w) \in Seq(Askings(C))
<1> DEFINE a == Asked("article", Article(w.gender), FALSE, "noun")
           b == Common(w.lemma, w.capital, "noun")
           p == Asked("plural", PluralOf(w), FALSE, "noun")
           g == Given(PluralOf(w), p)
<1>1. w.lemma \in STRING /\ w.plural \in STRING /\ w.capital \in BOOLEAN
  BY LexemeAssumption DEF WellFormed
<1>2. w.lemma \in Words(C) /\ PluralOf(w) \in Words(C) /\ Article(w.gender) \in Words(C)
  <2>1. w.plural \in Words(C) /\ w.lemma \in Words(C)
    BY <1>1 DEF StringsAreWords
  <2>2. Article(w.gender) \in Literal
    BY DEF Article, Literal
  <2>3. Trim(w.plural) \in Words(C)
    BY <2>1, TrimWord
  <2>4. PluralOf(w) \in Literal \cup {Trim(w.plural)}
    BY DEF PluralOf, Umlauted, Literal
  <2> QED
    BY <2>1, <2>2, <2>3, <2>4 DEF StringsAreWords
<1>3. a \in Askings(C) /\ p \in Askings(C)
  BY <1>2, AskedTyped DEF Kinds
<1>4. b \in Askings(C)
  BY <1>1, <1>2, AskedTyped DEF Common, Kinds
<1>5. Forms(w) = <<a, b>> \o g
  BY DEF Forms
<1> HIDE DEF a, b, p
<1>6. g \in Seq(Askings(C))
  BY <1>3, GivenSeq
<1>7. <<a, b>> \in Seq(Askings(C))
  BY <1>3, <1>4
<1> HIDE DEF g
<1>8. <<a, b>> \o g \in Seq(Askings(C))
  BY <1>6, <1>7, SeqsTogether
<1> QED
  BY <1>5, <1>8

LEMMA VerbForms ==
  ASSUME NEW C, StringsAreWords(C), NEW w \in Lexeme, w.type = "verb"
  PROVE  Forms(w) \in Seq(Askings(C))
<1> DEFINE W == Askings(C)
           inf == Common(w.infinitive, FALSE, "verb")
           third == Common(ThirdPerson(w), FALSE, "verb")
           praet == Common(Praeteritum(w), FALSE, "verb")
           sein == IF IsAuxSein(w) THEN "ist" ELSE "hat"
           aux == Asked("aux", sein, FALSE, "verb")
           part == Common(PastParticiple(w), FALSE, "verb")
           s1 == <<inf>>
           s2 == Given(w.third, third)
           s3 == Given(w.praeteritum, praet)
           s4 == Given(w.aux, aux)
           s5 == IF w.aux # "" /\ Irregular(w) THEN <<part>> ELSE << >>
<1>1. /\ w.infinitive \in STRING /\ w.third \in STRING /\ w.praeteritum \in STRING /\ w.aux \in STRING
      /\ w.participle \in STRING /\ w.prefix \in 0 .. Len(w.infinitive)
  BY LexemeAssumption DEF WellFormed
<1>2. w.infinitive \in Words(C) /\ sein \in Words(C)
  BY <1>1 DEF StringsAreWords, Literal
<1>3. ThirdPerson(w) \in Words(C) /\ Praeteritum(w) \in Words(C) /\ PastParticiple(w) \in Words(C)
  BY <1>1, VerbFormsAreWords
<1>4. inf \in W /\ third \in W /\ praet \in W /\ aux \in W /\ part \in W
  BY <1>2, <1>3, AskedTyped DEF Common, Kinds
<1>5. Forms(w) = s1 \o s2 \o s3 \o s4 \o s5
  BY DEF Forms
<1> HIDE DEF W, inf, third, praet, aux, part
<1>6. s2 \in Seq(W) /\ s3 \in Seq(W) /\ s4 \in Seq(W)
  BY <1>4, GivenSeq
<1>7. s1 \in Seq(W) /\ s5 \in Seq(W)
  <2>1. <<inf>> \in Seq(W) /\ <<part>> \in Seq(W) /\ << >> \in Seq(W)
    BY <1>4, EmptySeq
  <2> QED
    BY <2>1
<1> HIDE DEF s1, s2, s3, s4, s5
<1>8. s1 \o s2 \in Seq(W)
  BY <1>6, <1>7, SeqsTogether
<1>9. s1 \o s2 \o s3 \in Seq(W)
  BY <1>6, <1>8, SeqsTogether
<1>10. s1 \o s2 \o s3 \o s4 \in Seq(W)
  BY <1>6, <1>9, SeqsTogether
<1>11. s1 \o s2 \o s3 \o s4 \o s5 \in Seq(W)
  BY <1>7, <1>10, SeqsTogether
<1> QED
  BY <1>5, <1>11 DEF W

LEMMA AdjectiveForms ==
  ASSUME NEW C, StringsAreWords(C), NEW w \in Lexeme, w.type = "adjective"
  PROVE  Forms(w) \in Seq(Askings(C))
<1> DEFINE W == Askings(C)
           a == Common(w.lemma, FALSE, "adjective")
           b == Common(w.comparative, FALSE, "adjective")
           c == Common(w.superlative, FALSE, "adjective")
           s1 == <<a>>
           s2 == Given(w.comparative, b)
           s3 == Given(w.superlative, c)
<1>1. w.lemma \in Words(C) /\ w.comparative \in Words(C) /\ w.superlative \in Words(C)
  BY LexemeAssumption DEF WellFormed, StringsAreWords
<1>2. a \in W /\ b \in W /\ c \in W
  BY <1>1, AskedTyped DEF Common, Kinds
<1>3. Forms(w) = s1 \o IF w.indeclinable THEN << >> ELSE s2 \o s3
  BY DEF Forms
<1> HIDE DEF W, a, b, c
<1>4. s2 \in Seq(W) /\ s3 \in Seq(W)
  BY <1>2, GivenSeq
<1>5. s1 \in Seq(W) /\ << >> \in Seq(W)
  BY <1>2, EmptySeq
<1> HIDE DEF s1, s2, s3
<1>6. s2 \o s3 \in Seq(W)
  BY <1>4, SeqsTogether
<1>7. s1 \o (s2 \o s3) \in Seq(W)
  BY <1>5, <1>6, SeqsTogether
<1>8. s1 \o << >> \in Seq(W)
  BY <1>5, SeqsTogether
<1> QED
  BY <1>3, <1>7, <1>8 DEF W

LEMMA PhraseForms ==
  ASSUME NEW C, StringsAreWords(C), NEW w \in Lexeme, w.type = "phrase"
  PROVE  Forms(w) \in Seq(Askings(C))
<1> DEFINE items == PhraseWords(w.words)
           asked == CHOOSE f : PhraseAsked(f, items)
<1>1. w.words \in Seq(PhraseWord)
  BY LexemeAssumption DEF WellFormed, PhraseWord
<1>2. items \in Seq(PhraseWord)
  BY <1>1, PhraseWordsSeq
<1>3. Forms(w) = asked[Len(items)]
  BY DEF Forms, PhraseAsked
<1> HIDE DEF items
<1>4. PhraseAsked(asked, items)
  BY <1>2, PhraseFormsSeq
<1> HIDE DEF asked
<1>5. asked[Len(items)] \in Seq(Askings(C))
  BY <1>2, <1>4, PhraseFormsSeq
<1> QED
  BY <1>3, <1>5

LEMMA FormsTyped ==
  ASSUME NEW C, StringsAreWords(C), NEW w \in Lexeme
  PROVE  /\ Forms(w) \in Seq(Askings(C)) /\ Len(Forms(w)) \in Nat
         /\ \A i \in 1 .. Len(Forms(w)) : Forms(w)[i] \in Askings(C) /\ Kept(Forms(w)[i].text) # {}
<1>1. w.type \in {"noun", "verb", "adjective", "phrase"}
  BY LexemeAssumption
<1>2. Forms(w) \in Seq(Askings(C))
  BY <1>1, NounForms, VerbForms, AdjectiveForms, PhraseForms
<1> DEFINE f == Forms(w)
<1>3. \A i \in DOMAIN f : Kept(f[i].text) # {}
  BY FormsAssumption
<1> HIDE DEF f
<1>4. f \in Seq(Askings(C))
  BY <1>2 DEF f
<1>5. Len(f) \in Nat /\ DOMAIN f = 1 .. Len(f) /\ \A i \in 1 .. Len(f) : f[i] \in Askings(C)
  BY <1>4, LenProperties, ElementOfSeq
<1> QED
  BY <1>3, <1>4, <1>5 DEF f

LEMMA GapSpells ==
  ASSUME NEW C, StringsAreWords(C), NEW chunks \in Seq(Words(C)),
         NEW place \in 1 .. Len(chunks), NEW from \in 1 .. place
  PROVE  LET left == Join(SubSeq(chunks, 1, from - 1))
             answer == Join(SubSeq(chunks, from, place))
             right == Join(SubSeq(chunks, place + 1, Len(chunks)))
         IN /\ left \in Words(C) /\ answer \in Words(C) /\ right \in Words(C)
            /\ left \o answer \o right = FlattenSeq(chunks)
<1> DEFINE n == Len(chunks)
           a == SubSeq(chunks, 1, from - 1)
           b == SubSeq(chunks, from, place)
           c == SubSeq(chunks, place + 1, n)
           r == SubSeq(chunks, from, n)
<1>0. n \in Nat /\ chunks \in Words(Words(C))
  BY LenProperties DEF Words
<1>1. a \in Seq(Words(C)) /\ r \in Seq(Words(C)) /\ a \o r = chunks
  <2>1. from - 1 \in 0 .. Len(chunks) /\ (from - 1) + 1 = from
    BY <1>0
  <2>2. a \in Words(Words(C)) /\ SubSeq(chunks, (from - 1) + 1, Len(chunks)) \in Words(Words(C))
        /\ a \o SubSeq(chunks, (from - 1) + 1, Len(chunks)) = chunks
    BY <1>0, <2>1, SplitWord
  <2> QED
    BY <2>1, <2>2 DEF Words
<1>2. c \in Seq(Words(C))
  <2>1. place \in 0 .. Len(chunks)
    BY <1>0
  <2>2. c \in Words(Words(C))
    BY <1>0, <2>1, SplitWord
  <2> QED
    BY <2>2 DEF Words
<1>3. b \in Seq(Words(C)) /\ r = b \o c
  <2>1. from \in 1 .. Len(chunks) /\ place + 1 \in from + 1 .. Len(chunks) + 1 /\ (place + 1) - 1 = place
    BY <1>0
  <2>2. SubSeq(chunks, from, (place + 1) - 1) \in Words(Words(C))
        /\ r = SubSeq(chunks, from, (place + 1) - 1) \o c
    BY <1>0, <2>1, SplitRest
  <2> QED
    BY <2>1, <2>2 DEF Words
<1> HIDE DEF a, b, c, r
<1>4. FlattenSeq(chunks) = FlattenSeq(a) \o FlattenSeq(r) /\ FlattenSeq(a) \in Words(C)
  BY <1>1, FlattenConcat
<1>5. FlattenSeq(r) = FlattenSeq(b) \o FlattenSeq(c) /\ FlattenSeq(b) \in Words(C)
  BY <1>2, <1>3, FlattenConcat
<1>6. FlattenSeq(c) \in Words(C)
  BY <1>2, FlattenConcat
<1>7. Join(a) = FlattenSeq(a) /\ Join(b) = FlattenSeq(b) /\ Join(c) = FlattenSeq(c)
  BY JoinFlattens
<1> DEFINE x == FlattenSeq(a)
           y == FlattenSeq(b)
           v == FlattenSeq(c)
<1>8. x \in Words(C) /\ y \in Words(C) /\ v \in Words(C) /\ Join(a) = x /\ Join(b) = y /\ Join(c) = v
  BY <1>4, <1>5, <1>6, <1>7
<1>9. FlattenSeq(chunks) = x \o (y \o v)
  BY <1>4, <1>5
<1> HIDE DEF x, y, v
<1>10. x \in Words(C) /\ y \in Words(C) /\ v \in Words(C)
  BY <1>8
<1>11. (x \o y) \o v = x \o (y \o v)
  <2>1. \A p, q, s \in Words(C) : (p \o q) \o s = p \o (q \o s)
    BY WordFacts
  <2> QED
    BY <1>10, <2>1
<1>12. Join(a) \in Words(C) /\ Join(b) \in Words(C) /\ Join(c) \in Words(C)
  BY <1>8
<1>13. Join(a) \o Join(b) \o Join(c) = FlattenSeq(chunks)
  BY <1>8, <1>9, <1>11
<1> QED
  BY <1>12, <1>13 DEF a, b, c

PartsOf(C) == [text : Words(C), capital : BOOLEAN]
GapOf(C) == [left : Words(C), right : Words(C)]
AnswerTexts(texts, g) == [i \in 1 .. Len(texts) |-> g.left \o texts[i].text \o g.right]

LEMMA PlanTyped ==
  ASSUME NEW C, NEW texts \in Seq(Words(C)), NEW form \in Askings(C), NEW g,
         g.left \in Words(C), g.right \in Words(C)
  PROVE  /\ Plan(texts, form, g).parts \in Seq(PartsOf(C)) /\ Len(Plan(texts, form, g).parts) = Len(texts)
         /\ \A i \in 1 .. Len(texts) : Plan(texts, form, g).parts[i].text = texts[i]
         /\ Plan(texts, form, g).gap = [left |-> g.left, right |-> g.right]
         /\ Plan(texts, form, g).gap \in GapOf(C)
<1> DEFINE n == Len(texts)
           p == [i \in 1 .. n |-> Option(texts[i], form.capital /\ i = 1 /\ g.left = "")]
<1>1. n \in Nat /\ \A i \in 1 .. n : texts[i] \in Words(C)
  BY LenProperties, ElementOfSeq
<1>2. form.capital \in BOOLEAN
  BY DEF Askings
<1>3. Plan(texts, form, g).parts = p /\ Plan(texts, form, g).gap = [left |-> g.left, right |-> g.right]
  BY DEF Plan
<1> HIDE DEF n
<1>4. \A i \in 1 .. n : p[i] = Option(texts[i], form.capital /\ i = 1 /\ g.left = "")
  OBVIOUS
<1>5. ASSUME NEW i \in 1 .. n PROVE p[i] \in PartsOf(C) /\ p[i].text = texts[i]
  <2>1. (form.capital /\ i = 1 /\ g.left = "") \in BOOLEAN
    BY <1>2
  <2> DEFINE b == form.capital /\ i = 1 /\ g.left = ""
  <2>2. p[i] = [text |-> texts[i], capital |-> b]
    BY <1>4 DEF Option
  <2>3. b \in BOOLEAN
    BY <2>1
  <2> HIDE DEF b, p
  <2> QED
    BY <1>1, <2>2, <2>3 DEF PartsOf
<1>6. p \in [1 .. n -> PartsOf(C)]
  BY <1>5
<1>7. p \in Seq(PartsOf(C)) /\ Len(p) = n
  <2> HIDE DEF p
  <2> QED
    BY <1>1, <1>6, BuiltSeq
<1>8. [left |-> g.left, right |-> g.right] \in GapOf(C)
  BY DEF GapOf
<1> HIDE DEF p
<1> QED
  BY <1>3, <1>5, <1>7, <1>8 DEF n

AsksFor(form, part) ==
  /\ form.type # "form" => part.text = form.text
  /\ form.type = "form" /\ way = "Entire" => part.text = Trim(form.text)

PlanSpells(C, form, plan) ==
  /\ plan.parts \in Seq(PartsOf(C)) /\ plan.parts # << >> /\ plan.gap \in GapOf(C)
  /\ FlattenSeq(AnswerTexts(plan.parts, plan.gap)) = Spelled(form)
  /\ \A i \in 1 .. Len(plan.parts) : AsksFor(form, plan.parts[i])

LEMMA PlanWithoutGap ==
  ASSUME NEW C, StringsAreWords(C), NEW texts \in Seq(Words(C)), NEW form \in Askings(C),
         texts # << >>, FlattenSeq(texts) = Spelled(form),
         \A i \in 1 .. Len(texts) :
           /\ form.type # "form" => texts[i] = form.text
           /\ form.type = "form" /\ way = "Entire" => texts[i] = Trim(form.text)
  PROVE  PlanSpells(C, form, Plan(texts, form, NoGap))
<1> DEFINE plan == Plan(texts, form, NoGap)
           e == ""
<1>1. e = << >> /\ e \in Words(C) /\ NoGap.left = e /\ NoGap.right = e
  BY NoText, WordFacts DEF NoGap
<1>2. /\ plan.parts \in Seq(PartsOf(C)) /\ Len(plan.parts) = Len(texts)
      /\ \A i \in 1 .. Len(texts) : plan.parts[i].text = texts[i]
      /\ plan.gap = [left |-> e, right |-> e] /\ plan.gap \in GapOf(C)
  <2> DEFINE g == NoGap
  <2>1. g.left \in Words(C) /\ g.right \in Words(C) /\ g.left = e /\ g.right = e
    BY <1>1
  <2> HIDE DEF g, e
  <2>2. /\ Plan(texts, form, g).parts \in Seq(PartsOf(C)) /\ Len(Plan(texts, form, g).parts) = Len(texts)
        /\ \A i \in 1 .. Len(texts) : Plan(texts, form, g).parts[i].text = texts[i]
        /\ Plan(texts, form, g).gap = [left |-> g.left, right |-> g.right]
        /\ Plan(texts, form, g).gap \in GapOf(C)
    BY <2>1, PlanTyped
  <2> QED
    BY <2>1, <2>2 DEF g
<1> HIDE DEF plan, e
<1>3. Len(texts) \in Nat /\ Len(texts) # 0 /\ \A i \in 1 .. Len(texts) : texts[i] \in Words(C)
  BY LenProperties, ElementOfSeq, EmptySeq
<1>4. plan.parts # << >>
  <2> DEFINE z == plan.parts
  <2>1. Len(z) # 0
    BY <1>2, <1>3
  <2> HIDE DEF z
  <2>2. z # << >>
    BY <2>1
  <2> QED
    BY <2>2 DEF z
<1>5. \A x \in Words(C) : e \o x \o e = x
  <2> TAKE x \in Words(C)
  <2>1. << >> \o x = x /\ x \o << >> = x
    BY WordFacts
  <2> QED
    BY <1>1, <2>1
<1>6. AnswerTexts(plan.parts, plan.gap) = texts
  <2>1. plan.gap.left = e /\ plan.gap.right = e
    BY <1>2
  <2>2. \A i \in 1 .. Len(texts) : plan.gap.left \o plan.parts[i].text \o plan.gap.right = texts[i]
    BY <1>2, <1>3, <1>5, <2>1
  <2>3. AnswerTexts(plan.parts, plan.gap) = [i \in 1 .. Len(texts) |-> texts[i]]
    BY <1>2, <2>2 DEF AnswerTexts
  <2>4. texts = [i \in 1 .. Len(texts) |-> texts[i]]
    BY LenProperties
  <2> QED
    BY <2>3, <2>4
<1>7. \A i \in 1 .. Len(plan.parts) : AsksFor(form, plan.parts[i])
  BY <1>2 DEF AsksFor
<1>8. PlanSpells(C, form, plan)
  BY <1>2, <1>4, <1>6, <1>7 DEF PlanSpells
<1> QED
  BY <1>8 DEF plan

LEMMA PlanWithGap ==
  ASSUME NEW C, StringsAreWords(C), NEW form \in Askings(C), form.type = "form", way = "Gaps",
         NEW g, g.left \in Words(C), g.answer \in Words(C), g.right \in Words(C),
         g.left \o g.answer \o g.right = Trim(form.text)
  PROVE  PlanSpells(C, form, Plan(<<g.answer>>, form, g))
<1> DEFINE texts == <<g.answer>>
           plan == Plan(texts, form, g)
<1>1. texts \in Seq(Words(C)) /\ Len(texts) = 1 /\ texts[1] = g.answer
  OBVIOUS
<1> HIDE DEF texts
<1>2. /\ plan.parts \in Seq(PartsOf(C)) /\ Len(plan.parts) = Len(texts)
      /\ \A i \in 1 .. Len(texts) : plan.parts[i].text = texts[i]
      /\ plan.gap = [left |-> g.left, right |-> g.right] /\ plan.gap \in GapOf(C)
  BY <1>1, PlanTyped
<1> HIDE DEF plan
<1>3. plan.parts # << >>
  <2> DEFINE z == plan.parts
  <2>1. Len(z) # 0
    BY <1>1, <1>2
  <2> HIDE DEF z
  <2>2. z # << >>
    BY <2>1
  <2> QED
    BY <2>2 DEF z
<1> DEFINE whole == g.left \o g.answer \o g.right
<1>4. AnswerTexts(plan.parts, plan.gap) = <<whole>>
  <2>1. plan.gap.left = g.left /\ plan.gap.right = g.right /\ plan.parts[1].text = g.answer
        /\ Len(plan.parts) = 1
    BY <1>1, <1>2
  <2>2. \A i \in 1 .. 1 : plan.gap.left \o plan.parts[i].text \o plan.gap.right = whole
    <3>1. plan.gap.left \o plan.parts[1].text \o plan.gap.right = whole
      BY <2>1
    <3>2. \A i \in 1 .. 1 : i = 1
      OBVIOUS
    <3> HIDE DEF whole
    <3> QED
      BY <3>1, <3>2
  <2> HIDE DEF whole
  <2>3. AnswerTexts(plan.parts, plan.gap) = [i \in 1 .. 1 |-> whole]
    BY <2>1, <2>2 DEF AnswerTexts
  <2> QED
    BY <2>3
<1>5. whole \in Words(C) /\ whole = Trim(form.text)
  <2>1. form.text \in Words(C)
    BY DEF Askings
  <2> QED
    BY <2>1, TrimWord
<1> HIDE DEF whole
<1>6. FlattenSeq(AnswerTexts(plan.parts, plan.gap)) = Trim(form.text)
  BY <1>4, <1>5, FlattenOne
<1>7. Spelled(form) = Trim(form.text)
  BY DEF Spelled
<1>8. \A i \in 1 .. Len(plan.parts) : AsksFor(form, plan.parts[i])
  BY DEF AsksFor
<1>9. PlanSpells(C, form, plan)
  BY <1>2, <1>3, <1>6, <1>7, <1>8 DEF PlanSpells
<1> QED
  BY <1>9 DEF plan, texts

LEMMA GapAtSpells ==
  ASSUME NEW C, StringsAreWords(C), NEW chunks \in Seq(Words(C)), chunks # << >>, NEW kind \in Kinds,
         NEW place \in GapPlaces(chunks, kind)
  PROVE  LET g == GapAt(chunks, place)
         IN /\ g.left \in Words(C) /\ g.answer \in Words(C) /\ g.right \in Words(C)
            /\ g.left \o g.answer \o g.right = FlattenSeq(chunks)
<1>1. Len(chunks) \in Nat /\ Len(chunks) # 0
  BY LenProperties, EmptySeq
<1>2. place \in 1 .. Len(chunks) /\ (Len(chunks) >= 5 => place >= 2)
  <2>1. CASE Len(chunks) = 1
    <3>1. GapPlaces(chunks, kind) = {1}
      BY <2>1 DEF GapPlaces
    <3> QED
      BY <2>1, <3>1
  <2>2. CASE Len(chunks) > 1 /\ kind # "verb"
    <3>1. GapPlaces(chunks, kind) = 2 .. Len(chunks)
      BY <2>2 DEF GapPlaces
    <3> QED
      BY <1>1, <2>2, <3>1
  <2>3. CASE Len(chunks) = 2 /\ kind = "verb"
    <3>1. GapPlaces(chunks, kind) = {1}
      BY <2>3 DEF GapPlaces
    <3> QED
      BY <2>3, <3>1
  <2>4. CASE Len(chunks) > 2 /\ kind = "verb"
    <3>1. GapPlaces(chunks, kind) = 2 .. Len(chunks) - 1
      BY <2>4 DEF GapPlaces
    <3> QED
      BY <1>1, <2>4, <3>1
  <2> QED
    <3>1. Len(chunks) = 1 \/ Len(chunks) = 2 \/ Len(chunks) > 2
      <4> DEFINE n == Len(chunks)
      <4>1. n \in Nat /\ n # 0
        BY <1>1
      <4> HIDE DEF n
      <4>2. n = 1 \/ n = 2 \/ n > 2
        BY <4>1
      <4> QED
        BY <4>2 DEF n
    <3>2. Len(chunks) = 2 => Len(chunks) > 1
      OBVIOUS
    <3>3. Len(chunks) > 2 => Len(chunks) > 1
      BY <1>1
    <3> QED
      BY <2>1, <2>2, <2>3, <2>4, <3>1, <3>2, <3>3
<1> DEFINE from == IF Joined(chunks, place) THEN place - 1 ELSE place
           g == GapAt(chunks, place)
<1>3. from \in 1 .. place
  BY <1>1, <1>2 DEF Joined
<1>4. /\ g.left = Join(SubSeq(chunks, 1, from - 1)) /\ g.answer = Join(SubSeq(chunks, from, place))
      /\ g.right = Join(SubSeq(chunks, place + 1, Len(chunks)))
  BY DEF GapAt
<1> HIDE DEF from, g
<1>5. LET left == Join(SubSeq(chunks, 1, from - 1))
          answer == Join(SubSeq(chunks, from, place))
          right == Join(SubSeq(chunks, place + 1, Len(chunks)))
      IN /\ left \in Words(C) /\ answer \in Words(C) /\ right \in Words(C)
         /\ left \o answer \o right = FlattenSeq(chunks)
  BY <1>2, <1>3, GapSpells
<1>6. /\ g.left \in Words(C) /\ g.answer \in Words(C) /\ g.right \in Words(C)
      /\ g.left \o g.answer \o g.right = FlattenSeq(chunks)
  BY <1>4, <1>5
<1> QED
  BY <1>6 DEF g

LEMMA PlansSpell ==
  ASSUME NEW C, StringsAreWords(C), NEW form \in Askings(C), Kept(form.text) # {}, way \in ExerciseMode,
         NEW plan \in Plans(form)
  PROVE  PlanSpells(C, form, plan)
<1> DEFINE text == form.text
           chunks == ToChunks(text, form.kind)
<1>1. text \in Words(C) /\ form.kind \in Kinds /\ Kept(text) # {}
  BY DEF Askings
<1>2. Trim(text) \in Words(C)
  BY <1>1, TrimWord
<1>3. chunks \in Seq(Words(C)) /\ chunks # << >> /\ FlattenSeq(chunks) = Trim(text)
  <2>1. chunks \in Seq(Words(C)) /\ chunks # << >> /\ Join(chunks) = Trim(text)
    BY <1>1, ChunksSpellTheWord DEF Kinds
  <2> QED
    BY <2>1, JoinFlattens
<1>4. text # << >>
  <2>1. Len(<< >>) = 0
    OBVIOUS
  <2> HIDE DEF text
  <2>2. ASSUME text = << >> PROVE FALSE
    <3>1. Len(text) = 0
      BY <2>1, <2>2
    <3>2. Kept(text) = {}
      BY <3>1 DEF Kept
    <3> QED
      BY <1>1, <3>2
  <2> QED
    BY <2>2
<1>5. ToLetters(text) \in Seq(Words(C)) /\ ToLetters(text) # << >> /\ FlattenSeq(ToLetters(text)) = text
  <2>1. ToLetters(text) \in Seq(Words(C)) /\ ToLetters(text) # << >> /\ Join(ToLetters(text)) = text
    BY <1>1, <1>4, LettersSpellTheWord
  <2> QED
    BY <2>1, JoinFlattens
<1>6. plan \in PlansOver(form, chunks)
  BY DEF Plans
<1> HIDE DEF chunks
<1> USE DEF ExerciseMode
<1>7. CASE form.type # "form"
  <2>1. plan = Plan(<<text>>, form, NoGap)
    BY <1>6, <1>7 DEF PlansOver
  <2>2. <<text>> \in Seq(Words(C)) /\ <<text>> # << >> /\ FlattenSeq(<<text>>) = text
    BY <1>1, FlattenOne
  <2>3. Spelled(form) = text
    BY <1>7 DEF Spelled
  <2>4. Len(<<text>>) = 1 /\ <<text>>[1] = text
    OBVIOUS
  <2> DEFINE texts == <<text>>
  <2>5. texts \in Seq(Words(C)) /\ texts # << >> /\ FlattenSeq(texts) = Spelled(form)
    BY <2>2, <2>3
  <2>6. \A i \in 1 .. Len(texts) : texts[i] = text
    BY <2>4
  <2> HIDE DEF texts
  <2>7. PlanSpells(C, form, Plan(texts, form, NoGap))
    BY <1>7, <2>5, <2>6, PlanWithoutGap
  <2> QED
    BY <2>1, <2>7 DEF texts
<1>8. CASE form.type = "form" /\ way = "Entire"
  <2>1. plan = Plan(<<Trim(text)>>, form, NoGap)
    BY <1>6, <1>8 DEF PlansOver
  <2>2. <<Trim(text)>> \in Seq(Words(C)) /\ <<Trim(text)>> # << >> /\ FlattenSeq(<<Trim(text)>>) = Trim(text)
    BY <1>2, FlattenOne
  <2>3. Spelled(form) = Trim(text)
    BY <1>8 DEF Spelled
  <2>4. Len(<<Trim(text)>>) = 1 /\ <<Trim(text)>>[1] = Trim(text)
    OBVIOUS
  <2> DEFINE texts == <<Trim(text)>>
  <2>5. texts \in Seq(Words(C)) /\ texts # << >> /\ FlattenSeq(texts) = Spelled(form)
    BY <2>2, <2>3
  <2>6. \A i \in 1 .. Len(texts) : texts[i] = Trim(text)
    BY <2>4
  <2> HIDE DEF texts
  <2>7. PlanSpells(C, form, Plan(texts, form, NoGap))
    BY <1>8, <2>5, <2>6, PlanWithoutGap
  <2> QED
    BY <2>1, <2>7 DEF texts
<1>9. CASE form.type = "form" /\ way = "Chunks"
  <2>1. plan = Plan(chunks, form, NoGap)
    BY <1>6, <1>9 DEF PlansOver
  <2>2. Spelled(form) = Trim(text)
    BY <1>9 DEF Spelled
  <2> QED
    BY <1>3, <1>9, <2>1, <2>2, PlanWithoutGap
<1>10. CASE form.type = "form" /\ way = "Compose"
  <2>1. plan = Plan(ToLetters(text), form, NoGap)
    BY <1>6, <1>10 DEF PlansOver
  <2>2. Spelled(form) = text
    BY <1>10 DEF Spelled
  <2> DEFINE texts == ToLetters(text)
  <2>3. texts \in Seq(Words(C)) /\ texts # << >> /\ FlattenSeq(texts) = Spelled(form)
    BY <1>5, <2>2
  <2> HIDE DEF texts
  <2>4. PlanSpells(C, form, Plan(texts, form, NoGap))
    BY <1>10, <2>3, PlanWithoutGap
  <2> QED
    BY <2>1, <2>4 DEF texts
<1>11. CASE form.type = "form" /\ way = "Gaps"
  <2>1. PICK place \in GapPlaces(chunks, form.kind) :
          plan = Plan(<<GapAt(chunks, place).answer>>, form, GapAt(chunks, place))
    BY <1>6, <1>11 DEF PlansOver
  <2> DEFINE g == GapAt(chunks, place)
  <2>2. /\ g.left \in Words(C) /\ g.answer \in Words(C) /\ g.right \in Words(C)
        /\ g.left \o g.answer \o g.right = FlattenSeq(chunks)
    BY <1>1, <1>3, GapAtSpells
  <2> HIDE DEF g
  <2>3. PlanSpells(C, form, Plan(<<g.answer>>, form, g))
    BY <1>3, <1>11, <2>2, PlanWithGap
  <2> QED
    BY <2>1, <2>3 DEF g
<1> QED
  BY <1>7, <1>8, <1>9, <1>10, <1>11

-----------------------------------------------------------------------------
(* What a substage offers: the right option, and others. *)

LEMMA SetToSeqFacts ==
  ASSUME NEW T, IsFiniteSet(T)
  PROVE  /\ SetToSeq(T) \in [1 .. Cardinality(T) -> T] /\ Cardinality(T) \in Nat
         /\ SetToSeq(T) \in Seq(T) /\ Len(SetToSeq(T)) = Cardinality(T)
         /\ \A i, j \in 1 .. Cardinality(T) : SetToSeq(T)[i] = SetToSeq(T)[j] => i = j
<1> DEFINE n == Cardinality(T)
           f == SetToSeq(T)
<1>1. n \in Nat /\ \E g : g \in Bijection(1 .. n, T)
  BY FS_CardinalityType DEF ExistsBijection
<1>2. \E g \in [1 .. n -> T] : IsInjective(g)
  BY <1>1 DEF Bijection, Injection, IsInjective
<1>3. f \in [1 .. n -> T] /\ IsInjective(f)
  BY <1>2 DEF SetToSeq
<1> HIDE DEF f, n
<1>4. f \in Seq(T) /\ Len(f) = n
  BY <1>1, <1>3, BuiltSeq
<1>5. \A i, j \in 1 .. n : f[i] = f[j] => i = j
  BY <1>3 DEF IsInjective
<1> QED
  BY <1>1, <1>3, <1>4, <1>5 DEF f, n

LEMMA ShufflesMix ==
  ASSUME NEW S, NEW s \in Seq(S), s # << >>, Len(s) <= 5, NEW offer \in Shuffles(s)
  PROVE  Mixed(offer, s)
<1> DEFINE n == Len(s)
<1>1. n \in Nat /\ n <= 5
  BY LenProperties
<1>2. PICK e \in Draws(5) : offer = Shuffled(s, [i \in 2 .. n |-> e[i]])
  BY DEF Shuffles, AllDraws
<1> DEFINE d == [i \in 2 .. n |-> e[i]]
<1>3. d \in Draws(n)
  <2> HIDE DEF n
  <2>1. e \in [2 .. 5 -> 1 .. 5] /\ \A i \in 2 .. 5 : e[i] <= i
    BY DEF Draws
  <2>2. ASSUME NEW i \in 2 .. n PROVE d[i] \in 1 .. n /\ d[i] <= i
    <3>1. i \in 2 .. 5 /\ d[i] = e[i]
      BY <1>1
    <3> DEFINE v == e[i]
    <3>2. v \in 1 .. 5 /\ v <= i
      BY <2>1, <3>1
    <3> HIDE DEF v
    <3>3. v \in 1 .. n
      BY <1>1, <3>2
    <3> QED
      BY <3>1, <3>2, <3>3 DEF v
  <2>3. d \in [2 .. n -> 1 .. n]
    BY <2>2
  <2> HIDE DEF d
  <2> QED
    BY <2>2, <2>3 DEF Draws
<1> HIDE DEF d
<1>4. Mixed(Shuffled(s, d), s)
  BY <1>3, ShuffleFollowsTheAnswer
<1> QED
  BY <1>2, <1>4 DEF d

\* The right option is the first of the list that is shuffled.
LEMMA MixedRight ==
  ASSUME NEW s, NEW r, Mixed(r, s)
  PROVE  r.opts[r.correct] = s[1]
<1>1. PICK p \in [1 .. Len(s) -> 1 .. Len(s)] : LiesAs(r.opts, s, p) /\ p[r.correct] = 1
  BY DEF Mixed
<1>2. r.correct \in 1 .. Len(s)
  BY DEF Mixed
<1>3. r.opts[r.correct] = s[p[r.correct]]
  BY <1>1, <1>2 DEF LiesAs
<1> QED
  BY <1>1, <1>3

LEMMA FollowedBy ==
  ASSUME NEW W, NEW x \in W, NEW t \in Seq(W)
  PROVE  /\ <<x>> \o t \in Seq(W) /\ Len(<<x>> \o t) = Len(t) + 1 /\ Len(t) \in Nat
         /\ (<<x>> \o t)[1] = x /\ <<x>> \o t # << >>
         /\ \A i \in 2 .. Len(t) + 1 : (<<x>> \o t)[i] = t[i - 1]
<1> DEFINE u == <<x>>
           z == u \o t
<1>1. u \in Seq(W) /\ Len(u) = 1 /\ u[1] = x
  OBVIOUS
<1>2. Len(t) \in Nat
  BY LenProperties
<1> HIDE DEF u
<1>3. z \in Seq(W) /\ Len(z) = Len(u) + Len(t)
      /\ \A i \in 1 .. Len(u) + Len(t) : z[i] = IF i <= Len(u) THEN u[i] ELSE t[i - Len(u)]
  BY <1>1, ConcatProperties
<1> HIDE DEF z
<1>4. Len(z) = Len(t) + 1 /\ z[1] = x
  BY <1>1, <1>2, <1>3
<1>5. z # << >>
  <2>1. Len(z) # 0
    BY <1>2, <1>4
  <2> QED
    BY <2>1
<1>6. \A i \in 2 .. Len(t) + 1 : z[i] = t[i - 1]
  BY <1>1, <1>2, <1>3
<1> QED
  BY <1>2, <1>3, <1>4, <1>5, <1>6 DEF z, u

LEMMA AsOptionsFacts ==
  ASSUME NEW W, NEW texts \in Seq(W), NEW capital
  PROVE  /\ Len(AsOptions(texts, capital)) = Len(texts) /\ Len(texts) \in Nat
         /\ \A i \in 1 .. Len(texts) : AsOptions(texts, capital)[i] = Option(texts[i], capital)
         /\ \E S : AsOptions(texts, capital) \in Seq(S)
<1> DEFINE n == Len(texts)
           f == [i \in 1 .. n |-> Option(texts[i], capital)]
           S == {Option(texts[i], capital) : i \in 1 .. n}
<1>1. n \in Nat
  BY LenProperties
<1>2. AsOptions(texts, capital) = f
  BY DEF AsOptions
<1> HIDE DEF n
<1>3. f \in [1 .. n -> S] /\ \A i \in 1 .. n : f[i] = Option(texts[i], capital)
  OBVIOUS
<1> HIDE DEF f, S
<1>4. f \in Seq(S) /\ Len(f) = n
  BY <1>1, <1>3, BuiltSeq
<1> QED
  BY <1>1, <1>2, <1>3, <1>4 DEF n

LEMMA FourDistractors ==
  ASSUME NEW token, NEW capital, NEW seed
  PROVE  \E U : Distractors(token, capital, seed) \in [1 .. 4 -> U]
<1>1. \A table : \E U : FillFirstDistinct(token, ~capital, table, seed) \in [1 .. 4 -> U]
  <2> TAKE table
  <2> DEFINE t == Turned(table, seed)
             passed(k) == ~capital /\ \E j \in 1 .. k : t[j] = token
             f == [k \in 1 .. 4 |-> IF passed(k) THEN t[k + 1] ELSE t[k]]
  <2>1. FillFirstDistinct(token, ~capital, table, seed) = f
    BY DEF FillFirstDistinct
  <2>2. f \in [1 .. 4 -> {IF passed(k) THEN t[k + 1] ELSE t[k] : k \in 1 .. 4}]
    OBVIOUS
  <2> QED
    BY <2>1, <2>2
<1>2. \A found : \E U : PadTo4(found) \in [1 .. 4 -> U]
  <2> TAKE found
  <2> DEFINE f == [i \in 1 .. 4 |-> IF i <= Len(found) THEN found[i] ELSE ShortChunks[i]]
  <2>1. f \in [1 .. 4 -> {IF i <= Len(found) THEN found[i] ELSE ShortChunks[i] : i \in 1 .. 4}]
    OBVIOUS
  <2> QED
    BY <2>1 DEF PadTo4
<1>3. \A table : \E U : FillNeighbors(token, table, seed) \in [1 .. 4 -> U]
  BY <1>2 DEF FillNeighbors
<1> DEFINE family == {f \in 1 .. Len(Families) : Found(Families[f], token)}
           pool == IF Bytes(token) <= 6 THEN ShortChunks
                   ELSE IF Bytes(token) <= 12 THEN SuffixChunks ELSE StemChunks
<1>4. Distractors(token, capital, seed) =
        CASE Len(token) <= 1 -> FillFirstDistinct(token, ~capital, Letters, seed)
          [] Len(token) > 1 /\ family # {} -> FillNeighbors(token, Families[Min(family)], seed)
          [] OTHER -> FillFirstDistinct(token, ~capital, pool, seed)
  BY DEF Distractors
<1> HIDE DEF family, pool
<1>5. \/ Distractors(token, capital, seed) = FillFirstDistinct(token, ~capital, Letters, seed)
      \/ Distractors(token, capital, seed) = FillNeighbors(token, Families[Min(family)], seed)
      \/ Distractors(token, capital, seed) = FillFirstDistinct(token, ~capital, pool, seed)
  BY <1>4
<1> QED
  BY <1>1, <1>3, <1>5

LEMMA OptionsShuffled ==
  ASSUME NEW W, NEW x \in W, NEW t \in Seq(W), Len(t) <= 4, NEW capital,
         NEW offer \in Shuffles(AsOptions(<<x>> \o t, capital))
  PROVE  /\ Mixed(offer, AsOptions(<<x>> \o t, capital)) /\ offer.opts[offer.correct] = Option(x, capital)
<1> DEFINE texts == <<x>> \o t
           s == AsOptions(texts, capital)
<1>1. texts \in Seq(W) /\ Len(texts) = Len(t) + 1 /\ Len(t) \in Nat /\ texts[1] = x
  BY FollowedBy
<1> HIDE DEF texts
<1>2. /\ Len(s) = Len(texts) /\ \A i \in 1 .. Len(texts) : s[i] = Option(texts[i], capital)
      /\ \E S : s \in Seq(S)
  BY <1>1, AsOptionsFacts
<1>3. offer \in Shuffles(s)
  BY DEF texts
<1> HIDE DEF s
<1>4. PICK S : s \in Seq(S)
  BY <1>2
<1>5. Len(s) <= 5 /\ Len(s) # 0
  BY <1>1, <1>2
<1>6. s # << >>
  BY <1>5
<1>7. Mixed(offer, s)
  BY <1>3, <1>4, <1>5, <1>6, ShufflesMix
<1>8. s[1] = Option(x, capital)
  BY <1>1, <1>2
<1>9. offer.opts[offer.correct] = Option(x, capital)
  BY <1>7, <1>8, MixedRight
<1> QED
  BY <1>7, <1>9 DEF s, texts

LEMMA PartOffered ==
  ASSUME NEW part, NEW capital, NEW offer \in OfPart(part, capital)
  PROVE  \E seed \in [right : BOOLEAN, offset : {1, 2}, start : Start] :
           /\ offer \in Shuffles(AsOptions(<<part>> \o Distractors(part, capital, seed), capital))
           /\ Mixed(offer, AsOptions(<<part>> \o Distractors(part, capital, seed), capital))
           /\ offer.opts[offer.correct] = Option(part, capital)
<1>1. PICK seed \in [right : BOOLEAN, offset : {1, 2}, start : Start] :
        offer \in Shuffles(AsOptions(<<part>> \o Distractors(part, capital, seed), capital))
  BY DEF OfPart
<1> DEFINE t == Distractors(part, capital, seed)
<1>2. PICK U : t \in [1 .. 4 -> U]
  BY FourDistractors
<1>3. offer \in Shuffles(AsOptions(<<part>> \o t, capital))
  BY <1>1
<1> HIDE DEF t
<1> DEFINE W == U \cup {part}
<1>4. t \in [1 .. 4 -> W] /\ part \in W
  BY <1>2
<1> HIDE DEF W
<1>5. t \in Seq(W) /\ Len(t) = 4
  BY <1>4, BuiltSeq
<1>6. Len(t) <= 4
  BY <1>5
<1>7. Mixed(offer, AsOptions(<<part>> \o t, capital)) /\ offer.opts[offer.correct] = Option(part, capital)
  <2> DEFINE s == AsOptions(<<part>> \o t, capital)
             y == Option(part, capital)
  <2>1. offer \in Shuffles(s) /\ part \in W /\ t \in Seq(W) /\ Len(t) <= 4
    BY <1>3, <1>4, <1>5, <1>6
  <2>2. offer \in Shuffles(s) => Mixed(offer, s) /\ offer.opts[offer.correct] = y
    <3>1. ASSUME NEW V, NEW x \in V, NEW r \in Seq(V), Len(r) <= 4, NEW o \in Shuffles(AsOptions(<<x>> \o r, capital))
          PROVE  /\ Mixed(o, AsOptions(<<x>> \o r, capital)) /\ o.opts[o.correct] = Option(x, capital)
      BY <3>1, OptionsShuffled
    <3> QED
      BY <1>4, <1>5, <1>6, <3>1
  <2> HIDE DEF s, y
  <2>3. Mixed(offer, s) /\ offer.opts[offer.correct] = y
    BY <2>1, <2>2
  <2> QED
    BY <2>3 DEF s, y
<1> QED
  BY <1>3, <1>7 DEF t

LEMMA PluralOffered ==
  ASSUME NEW form, NEW offer \in OfPlural(form)
  PROVE  \E chosen \in kSubset(4, Plurals \ {form.text}) :
           /\ IsFiniteSet(chosen) /\ Cardinality(chosen) = 4
           /\ Mixed(offer, AsOptions(<<form.text>> \o SetToSeq(chosen), FALSE))
           /\ offer.opts[offer.correct] = Option(form.text, FALSE)
<1>1. PICK chosen \in kSubset(4, Plurals \ {form.text}) :
        offer \in Shuffles(AsOptions(<<form.text>> \o SetToSeq(chosen), FALSE))
  BY DEF OfPlural
<1>2. chosen \subseteq Plurals /\ Cardinality(chosen) = 4
  BY DEF kSubset
<1>3. IsFiniteSet(chosen)
  <2>1. IsFiniteSet(Plurals)
    <3>1. \A n, s : IsFiniteSet(s) => IsFiniteSet(s \cup {n})
      BY FS_AddElement
    <3>2. IsFiniteSet({})
      BY FS_EmptySet
    <3>3. Plurals = {} \cup {"-e"} \cup {"-en"} \cup {"-n"} \cup {"-er"} \cup {"-s"} \cup {"~-e"}
                       \cup {"~-er"} \cup {"~-"}
      BY DEF Plurals
    <3> QED
      BY <3>1, <3>2, <3>3
  <2> QED
    BY <1>2, <2>1, FS_Subset
<1> DEFINE t == SetToSeq(chosen)
           x == form.text
           W == chosen \cup {x}
<1>4. t \in [1 .. 4 -> chosen]
  BY <1>2, <1>3, SetToSeqFacts
<1>5. offer \in Shuffles(AsOptions(<<x>> \o t, FALSE))
  BY <1>1
<1> HIDE DEF t, x
<1>6. t \in [1 .. 4 -> W] /\ x \in W
  BY <1>4
<1> HIDE DEF W
<1>7. t \in Seq(W) /\ Len(t) = 4
  BY <1>6, BuiltSeq
<1>8. Len(t) <= 4
  BY <1>7
<1>9. Mixed(offer, AsOptions(<<x>> \o t, FALSE)) /\ offer.opts[offer.correct] = Option(x, FALSE)
  BY <1>5, <1>6, <1>7, <1>8, OptionsShuffled
<1> QED
  BY <1>2, <1>3, <1>9 DEF t, x

LEMMA EntireOffered ==
  ASSUME NEW form, NEW offer \in OfEntire(form)
  PROVE  LET right == Option(Trim(form.text), form.capital)
         IN \E chosen : /\ IsFiniteSet(chosen) /\ right \notin chosen
                        /\ Mixed(offer, <<right>> \o SetToSeq(chosen))
                        /\ offer.opts[offer.correct] = right
<1> DEFINE right == Option(Trim(form.text), form.capital)
           others(spares) == {Option(Trim(o.text), o.capital) : o \in spares} \ {right, Option("", FALSE)}
           enough(spares) == Min({4, Cardinality(others(spares))})
<1>1. PICK spares \in Spare : \E chosen \in kSubset(enough(spares), others(spares)) :
                              offer \in Shuffles(<<right>> \o SetToSeq(chosen))
  <2>1. OfEntire(form) = UNION {UNION {Shuffles(<<right>> \o SetToSeq(chosen)) :
                                        chosen \in kSubset(enough(spares), others(spares))} : spares \in Spare}
    BY DEF OfEntire
  <2> HIDE DEF right, others, enough
  <2> QED
    BY <2>1
<1>2. PICK chosen \in kSubset(enough(spares), others(spares)) : offer \in Shuffles(<<right>> \o SetToSeq(chosen))
  BY <1>1
<1>3. chosen \subseteq others(spares) /\ Cardinality(chosen) = enough(spares)
  BY DEF kSubset
<1>4. IsFiniteSet(others(spares))
  <2>1. IsFiniteSet(spares)
    BY SpareAssumption
  <2> DEFINE image == {Option(Trim(o.text), o.capital) : o \in spares}
  <2>2. IsFiniteSet(image)
    <3> DEFINE f == [o \in spares |-> Option(Trim(o.text), o.capital)]
    <3>1. f \in [spares -> image] /\ \A y \in image : \E o \in spares : f[o] = y
      OBVIOUS
    <3> HIDE DEF f, image
    <3>2. f \in Surjection(spares, image)
      BY <3>1 DEF Surjection
    <3> QED
      BY <2>1, <3>2, FS_Surjection
  <2>3. others(spares) \subseteq image
    OBVIOUS
  <2> HIDE DEF image, others
  <2> QED
    BY <2>2, <2>3, FS_Subset
<1>5. right \notin others(spares)
  OBVIOUS
<1> HIDE DEF others, right
<1>6. IsFiniteSet(chosen) /\ right \notin chosen
  BY <1>3, <1>4, <1>5, FS_Subset
<1>7. Cardinality(chosen) <= 4
  <2> DEFINE c == Cardinality(others(spares))
  <2>1. c \in Nat
    BY <1>4, FS_CardinalityType
  <2> HIDE DEF c
  <2>2. {4, c} \subseteq Nat /\ {4, c} # {}
    BY <2>1
  <2>3. Min({4, c}) <= 4
    BY <2>2, LeastOf
  <2> QED
    BY <1>3, <2>3 DEF c
<1> DEFINE t == SetToSeq(chosen)
           W == chosen \cup {right}
           n == Cardinality(chosen)
<1>8. t \in [1 .. n -> chosen] /\ n \in Nat
  BY <1>6, SetToSeqFacts
<1> HIDE DEF enough
<1>9. offer \in Shuffles(<<right>> \o t) /\ n <= 4
  BY <1>2, <1>7
<1> HIDE DEF t, n
<1>10. t \in [1 .. n -> W] /\ right \in W
  BY <1>8
<1> HIDE DEF W
<1>11. t \in Seq(W) /\ Len(t) = n
  BY <1>8, <1>10, BuiltSeq
<1> DEFINE s == <<right>> \o t
<1>12. s \in Seq(W) /\ Len(s) = Len(t) + 1 /\ s[1] = right /\ s # << >>
  BY <1>10, <1>11, FollowedBy
<1>13. offer \in Shuffles(s)
  BY <1>9
<1> HIDE DEF s
<1>14. Len(s) <= 5
  BY <1>8, <1>9, <1>11, <1>12
<1>15. Mixed(offer, s)
  BY <1>12, <1>13, <1>14, ShufflesMix
<1>16. offer.opts[offer.correct] = right
  BY <1>12, <1>15, MixedRight
<1> QED
  BY <1>6, <1>15, <1>16 DEF right, s, t

\* The option taken for right is the part that is asked for.
LEMMA OffersRight ==
  ASSUME NEW C, NEW form \in Askings(C), NEW part, AsksFor(form, part), NEW offer \in Offers(form, part)
  PROVE  offer.opts[offer.correct].text = part.text
<1>1. form.type \in {"article", "form", "plural", "aux"}
  BY DEF Askings
<1>2. \A texts, answer : offer \in Fixed(texts, answer) => offer.opts[offer.correct].text = answer
  <2> TAKE texts, answer
  <2>1. ASSUME offer \in Fixed(texts, answer) PROVE offer.opts[offer.correct].text = answer
    <3>1. PICK i \in 1 .. Len(texts) :
            texts[i] = answer /\ offer = [opts |-> AsOptions(texts, FALSE), correct |-> i]
      BY <2>1 DEF Fixed
    <3>2. offer.opts[offer.correct] = Option(texts[i], FALSE)
      BY <3>1 DEF AsOptions
    <3>3. Option(texts[i], FALSE).text = texts[i]
      BY DEF Option
    <3> QED
      BY <3>1, <3>2, <3>3
  <2> QED
    BY <2>1
<1>3. CASE form.type = "article"
  <2>1. offer \in Fixed(<<"der", "die", "das", "none">>, form.text)
    BY <1>3 DEF Offers
  <2>2. offer.opts[offer.correct].text = form.text
    BY <1>2, <2>1
  <2> QED
    BY <1>3, <2>2 DEF AsksFor
<1>4. CASE form.type = "aux"
  <2>1. offer \in Fixed(<<"hat", "ist">>, form.text)
    BY <1>4 DEF Offers
  <2>2. offer.opts[offer.correct].text = form.text
    BY <1>2, <2>1
  <2> QED
    BY <1>4, <2>2 DEF AsksFor
<1>5. CASE form.type = "plural"
  <2>1. offer \in OfPlural(form)
    BY <1>5 DEF Offers
  <2>2. offer.opts[offer.correct] = Option(form.text, FALSE)
    BY <2>1, PluralOffered
  <2> QED
    BY <1>5, <2>2 DEF AsksFor, Option
<1>6. CASE form.type = "form" /\ way = "Entire"
  <2>1. offer \in OfEntire(form)
    BY <1>6 DEF Offers
  <2>2. offer.opts[offer.correct] = Option(Trim(form.text), form.capital)
    BY <2>1, EntireOffered
  <2> QED
    BY <1>6, <2>2 DEF AsksFor, Option
<1>7. CASE form.type = "form" /\ way # "Entire"
  <2>1. offer \in OfPart(part.text, part.capital)
    BY <1>7 DEF Offers
  <2>2. offer.opts[offer.correct] = Option(part.text, part.capital)
    BY <2>1, PartOffered
  <2> QED
    BY <2>2 DEF Option
<1> QED
  BY <1>1, <1>3, <1>4, <1>5, <1>6, <1>7

-----------------------------------------------------------------------------
(* The expected response: what is made of it and what is left of the stage *)
(* are the stages so far.                                                  *)

Between(i) == IF i = 1 THEN "" ELSE " "
StageText(i) == Between(i) \o Spelled(Forms(word)[i])
Target(k) == Join([i \in 1 .. k |-> StageText(i)])

SpellInv(C) ==
  /\ word \in Lexeme /\ way \in ExerciseMode /\ at \in 0 .. Len(Forms(word))
  /\ parts \in Seq(PartsOf(C)) /\ gap \in GapOf(C) /\ spelt \in Words(C)
  /\ parts # << >> => at \in 1 .. Len(Forms(word)) /\ \A i \in 1 .. Len(parts) : AsksFor(Form, parts[i])
  /\ opts # << >> => parts # << >> /\ opts[correct].text = Head(parts).text
  /\ spelt \o FlattenSeq(AnswerTexts(parts, gap)) = Target(at)

LEMMA AroundTyped ==
  ASSUME NEW C, NEW p \in PartsOf(C), NEW g \in GapOf(C)
  PROVE  g.left \o p.text \o g.right \in Words(C)
<1>1. g.left \in Words(C) /\ g.right \in Words(C) /\ p.text \in Words(C)
  BY DEF PartsOf, GapOf
<1>2. g.left \o p.text \in Words(C)
  BY <1>1, WordFacts
<1> QED
  BY <1>1, <1>2, WordFacts

LEMMA AnsweredTyped ==
  ASSUME NEW C, NEW ps \in Seq(PartsOf(C)), NEW g \in GapOf(C)
  PROVE  /\ AnswerTexts(ps, g) \in Seq(Words(C)) /\ Len(AnswerTexts(ps, g)) = Len(ps) /\ Len(ps) \in Nat
         /\ FlattenSeq(AnswerTexts(ps, g)) \in Words(C)
<1> DEFINE n == Len(ps)
           f == AnswerTexts(ps, g)
<1>1. n \in Nat /\ \A i \in 1 .. n : ps[i] \in PartsOf(C)
  BY LenProperties, ElementOfSeq
<1>2. \A i \in 1 .. n : g.left \o ps[i].text \o g.right \in Words(C)
  BY <1>1, AroundTyped
<1>3. f = [i \in 1 .. n |-> g.left \o ps[i].text \o g.right]
  BY DEF AnswerTexts
<1> HIDE DEF f, n
<1>4. f \in [1 .. n -> Words(C)]
  BY <1>2, <1>3
<1>5. f \in Seq(Words(C)) /\ Len(f) = n
  BY <1>1, <1>4, BuiltSeq
<1>6. FlattenSeq(f) \in Words(C)
  BY <1>5, FlattenConcat
<1> QED
  BY <1>1, <1>5, <1>6 DEF f, n

LEMMA AnsweredNext ==
  ASSUME NEW C, NEW ps \in Seq(PartsOf(C)), ps # << >>, NEW g \in GapOf(C)
  PROVE  /\ Tail(ps) \in Seq(PartsOf(C)) /\ Head(ps) \in PartsOf(C)
         /\ FlattenSeq(AnswerTexts(ps, g)) =
              (g.left \o Head(ps).text \o g.right) \o FlattenSeq(AnswerTexts(Tail(ps), g))
<1> DEFINE h == Head(ps)
           t == Tail(ps)
           x == g.left \o h.text \o g.right
           u == AnswerTexts(t, g)
           f == AnswerTexts(ps, g)
<1>1. /\ t \in Seq(PartsOf(C)) /\ h \in PartsOf(C) /\ Len(t) = Len(ps) - 1
      /\ h = ps[1] /\ \A i \in 1 .. Len(t) : t[i] = ps[i + 1]
  BY HeadTailProperties
<1> HIDE DEF h, t
<1>2. x \in Words(C)
  BY <1>1, AroundTyped
<1>3. u \in Seq(Words(C)) /\ Len(u) = Len(t) /\ Len(t) \in Nat
  BY <1>1, AnsweredTyped
<1>4. f \in Seq(Words(C)) /\ Len(f) = Len(ps)
  BY AnsweredTyped
<1>5. \A i \in 1 .. Len(ps) : f[i] = g.left \o ps[i].text \o g.right
  BY DEF AnswerTexts
<1>6. \A i \in 1 .. Len(t) : u[i] = g.left \o t[i].text \o g.right
  BY DEF AnswerTexts
<1>7. f[1] = x
  <2>1. 1 \in 1 .. Len(ps) /\ ps[1] = h
    BY <1>1, <1>3
  <2>2. f[1] = g.left \o ps[1].text \o g.right
    BY <1>5, <2>1
  <2> HIDE DEF f
  <2> QED
    BY <2>1, <2>2
<1>8. ASSUME NEW i \in 2 .. Len(t) + 1 PROVE f[i] = u[i - 1]
  <2>1. i \in 1 .. Len(ps) /\ i - 1 \in 1 .. Len(t) /\ (i - 1) + 1 = i
    BY <1>1, <1>3
  <2>2. t[i - 1] = ps[i]
    BY <1>1, <2>1
  <2>3. f[i] = g.left \o ps[i].text \o g.right
    BY <1>5, <2>1
  <2>4. u[i - 1] = g.left \o t[i - 1].text \o g.right
    BY <1>6, <2>1
  <2> HIDE DEF f, u, x
  <2> QED
    BY <2>2, <2>3, <2>4
<1> HIDE DEF x, u, f
<1> DEFINE z == <<x>> \o u
<1>9. /\ z \in Seq(Words(C)) /\ Len(z) = Len(u) + 1 /\ z[1] = x
      /\ \A i \in 2 .. Len(u) + 1 : z[i] = u[i - 1]
  BY <1>2, <1>3, FollowedBy
<1> HIDE DEF z
<1>10. f = z
  <2>1. Len(f) = Len(z)
    BY <1>1, <1>3, <1>4, <1>9
  <2>2. \A i \in 1 .. Len(z) : f[i] = z[i]
    <3> TAKE i \in 1 .. Len(z)
    <3>1. CASE i = 1
      BY <1>7, <1>9, <3>1
    <3>2. CASE i # 1
      <4>1. i \in 2 .. Len(t) + 1
        BY <1>3, <1>9, <3>2
      <4> QED
        BY <1>3, <1>8, <1>9, <4>1
    <3> QED
      BY <3>1, <3>2
  <2> QED
    BY <1>4, <1>9, <2>1, <2>2, SeqEqual
<1>11. FlattenSeq(z) = x \o FlattenSeq(u)
  BY <1>2, <1>3, PutBefore DEF z
<1>12. FlattenSeq(f) = x \o FlattenSeq(u)
  BY <1>10, <1>11
<1> QED
  BY <1>1, <1>12 DEF f, u, x, h, t

LEMMA StageTyped ==
  ASSUME NEW C, StringsAreWords(C), word \in Lexeme, NEW i \in 1 .. Len(Forms(word))
  PROVE  StageText(i) \in Words(C) /\ Spelled(Forms(word)[i]) \in Words(C) /\ Between(i) \in Words(C)
<1> DEFINE f == Forms(word)[i]
<1>1. f \in Askings(C)
  BY FormsTyped
<1> HIDE DEF f
<1>2. f.text \in Words(C)
  BY <1>1 DEF Askings
<1>3. Spelled(f) \in Words(C)
  BY <1>2, TrimWord DEF Spelled
<1>4. Between(i) \in Words(C)
  BY DEF Between, StringsAreWords, Literal
<1>5. Between(i) \o Spelled(f) \in Words(C)
  BY <1>3, <1>4, WordFacts
<1> QED
  BY <1>3, <1>4, <1>5 DEF StageText, f

LEMMA TargetStep ==
  ASSUME NEW C, StringsAreWords(C), word \in Lexeme, NEW k \in 0 .. Len(Forms(word)) - 1
  PROVE  Target(k) \in Words(C) /\ Target(k + 1) = Target(k) \o StageText(k + 1)
<1> DEFINE s == [i \in 1 .. k |-> StageText(i)]
           t == [i \in 1 .. k + 1 |-> StageText(i)]
<1>1. Len(Forms(word)) \in Nat
  BY FormsTyped
<1>2. k \in Nat /\ k + 1 \in Nat /\ k + 1 \in 1 .. Len(Forms(word))
  BY <1>1
<1>3. \A i \in 1 .. k + 1 : StageText(i) \in Words(C)
  BY <1>1, <1>2, StageTyped
<1>4. \A i \in 1 .. k : i \in 1 .. k + 1 /\ i # k + 1
  BY <1>2
<1>5. s \in [1 .. k -> Words(C)] /\ t \in [1 .. k + 1 -> Words(C)]
  BY <1>3, <1>4
<1>6. t[k + 1] = StageText(k + 1) /\ \A i \in 1 .. k : t[i] = s[i]
  BY <1>2, <1>4
<1> HIDE DEF s, t
<1>7. s \in Seq(Words(C)) /\ Len(s) = k /\ t \in Seq(Words(C)) /\ Len(t) = k + 1
  BY <1>2, <1>5, BuiltSeq
<1> DEFINE w == StageText(k + 1)
<1>8. w \in Words(C) /\ Len(t) = Len(s) + 1 /\ t[Len(s) + 1] = w
      /\ \A i \in 1 .. Len(s) : t[i] = s[i]
  BY <1>2, <1>3, <1>6, <1>7
<1> HIDE DEF w
<1>9. FlattenSeq(s) \in Words(C) /\ FlattenSeq(t) = FlattenSeq(s) \o w
  BY <1>7, <1>8, FlattenLonger
<1>10. Target(k) = FlattenSeq(s) /\ Target(k + 1) = FlattenSeq(t)
  BY JoinFlattens DEF Target, s, t
<1> QED
  BY <1>9, <1>10 DEF w

LEMMA SpellStart ==
  ASSUME NEW C, StringsAreWords(C), StagesInit
  PROVE  SpellInv(C)
<1> DEFINE e == ""
<1>1. e = << >> /\ e \in Words(C) /\ NoGap.left = e /\ NoGap.right = e
  BY NoText, WordFacts DEF NoGap
<1>2. /\ word \in Lexeme /\ way \in ExerciseMode /\ at = 0 /\ parts = << >> /\ gap = NoGap
      /\ opts = << >> /\ spelt = e
  BY DEF StagesInit
<1>3. Len(Forms(word)) \in Nat
  BY <1>2, FormsTyped
<1> HIDE DEF e
<1>4. gap \in GapOf(C)
  BY <1>1, <1>2 DEF GapOf, NoGap, e
<1>5. parts \in Seq(PartsOf(C)) /\ Len(parts) = 0
  BY <1>2, EmptySeq
<1>6. FlattenSeq(AnswerTexts(parts, gap)) = << >>
  <2>1. AnswerTexts(parts, gap) \in Seq(Words(C)) /\ Len(AnswerTexts(parts, gap)) = 0
    BY <1>4, <1>5, AnsweredTyped
  <2>2. AnswerTexts(parts, gap) = << >>
    BY <2>1, EmptySeq
  <2> QED
    BY <2>2, FlattenEmpty
<1>7. Target(0) = << >>
  <2> DEFINE f == [i \in 1 .. 0 |-> StageText(i)]
  <2>1. f \in [1 .. 0 -> Words(C)]
    OBVIOUS
  <2>2. Target(0) = Join(f)
    BY DEF Target
  <2> HIDE DEF f
  <2>3. f \in Seq(Words(C)) /\ Len(f) = 0
    BY <2>1, BuiltSeq
  <2>4. f = << >>
    BY <2>3, EmptySeq
  <2> QED
    BY <2>2, <2>4, JoinFlattens, FlattenEmpty
<1>8. << >> \o << >> = << >>
  BY WordFacts
<1>9. spelt \o FlattenSeq(AnswerTexts(parts, gap)) = Target(at)
  BY <1>1, <1>2, <1>6, <1>7, <1>8
<1> QED
  BY <1>1, <1>2, <1>3, <1>4, <1>5, <1>9 DEF SpellInv

LEMMA NothingLeft ==
  ASSUME NEW C, SpellInv(C), parts = << >>
  PROVE  spelt = Target(at) /\ opts = << >>
<1>1. Len(parts) = 0 /\ gap \in GapOf(C) /\ parts \in Seq(PartsOf(C)) /\ spelt \in Words(C)
  BY EmptySeq DEF SpellInv
<1>2. AnswerTexts(parts, gap) \in Seq(Words(C)) /\ Len(AnswerTexts(parts, gap)) = 0
  BY <1>1, AnsweredTyped
<1>3. AnswerTexts(parts, gap) = << >>
  BY <1>2, EmptySeq
<1>4. FlattenSeq(AnswerTexts(parts, gap)) = << >>
  BY <1>3, FlattenEmpty
<1>5. spelt \o << >> = spelt
  BY <1>1, WordFacts
<1> QED
  BY <1>4, <1>5 DEF SpellInv

LEMMA OpenStageSpells ==
  ASSUME NEW C, StringsAreWords(C), SpellInv(C), OpenStage
  PROVE  SpellInv(C)'
<1> DEFINE form == Forms(word)[at + 1]
<1>1. /\ word \in Lexeme /\ way \in ExerciseMode /\ at \in 0 .. Len(Forms(word)) - 1
      /\ Len(Forms(word)) \in Nat /\ spelt \in Words(C) /\ parts = << >>
  <2>1. word \in Lexeme /\ way \in ExerciseMode /\ spelt \in Words(C) /\ at \in 0 .. Len(Forms(word))
    BY DEF SpellInv
  <2>2. Len(Forms(word)) \in Nat
    BY <2>1, FormsTyped
  <2>3. at < Len(Forms(word)) /\ parts = << >>
    BY DEF OpenStage
  <2>4. at \in 0 .. Len(Forms(word)) - 1
    BY <2>1, <2>2, <2>3
  <2> QED
    BY <2>1, <2>2, <2>3, <2>4
<1>2. at + 1 \in 1 .. Len(Forms(word)) /\ form \in Askings(C) /\ Kept(form.text) # {}
  BY <1>1, FormsTyped
<1>3. PICK plan \in Plans(form) : parts' = plan.parts /\ gap' = plan.gap
  BY DEF OpenStage
<1>4. /\ at' = at + 1 /\ spelt' = IF at = 0 THEN spelt ELSE spelt \o " "
      /\ word' = word /\ way' = way /\ opts' = opts /\ correct' = correct
  BY DEF OpenStage
<1>5. spelt = Target(at) /\ opts = << >>
  BY <1>1, NothingLeft
<1>6. PlanSpells(C, form, plan)
  BY <1>1, <1>2, PlansSpell
<1>7. /\ parts' \in Seq(PartsOf(C)) /\ gap' \in GapOf(C)
      /\ FlattenSeq(AnswerTexts(parts', gap')) = Spelled(form)
      /\ \A i \in 1 .. Len(parts') : AsksFor(form, parts'[i])
  BY <1>3, <1>6 DEF PlanSpells
<1>8. spelt' = spelt \o Between(at + 1)
  <2>1. CASE at = 0
    <3>1. "" = << >> /\ spelt \o << >> = spelt
      BY <1>1, NoText, WordFacts
    <3>2. Between(at + 1) = ""
      BY <2>1 DEF Between
    <3> QED
      BY <1>4, <2>1, <3>1, <3>2
  <2>2. CASE at # 0
    <3>1. Between(at + 1) = " "
      BY <1>1, <2>2 DEF Between
    <3> QED
      BY <1>4, <2>2, <3>1
  <2> QED
    BY <2>1, <2>2
<1>9. Between(at + 1) \in Words(C) /\ Spelled(form) \in Words(C)
      /\ StageText(at + 1) = Between(at + 1) \o Spelled(form)
  BY <1>1, <1>2, StageTyped DEF StageText
<1>10. Target(at + 1) = Target(at) \o StageText(at + 1)
  BY <1>1, TargetStep
<1>11. spelt' \in Words(C)
  BY <1>1, <1>8, <1>9, WordFacts
<1>12. spelt' \o FlattenSeq(AnswerTexts(parts', gap')) = Target(at + 1)
  <2> DEFINE b == Between(at + 1)
             f == Spelled(form)
             x == Target(at)
  <2>1. x \in Words(C) /\ b \in Words(C) /\ f \in Words(C)
    BY <1>1, <1>5, <1>9
  <2>2. spelt' = x \o b /\ Target(at + 1) = x \o (b \o f) /\ FlattenSeq(AnswerTexts(parts', gap')) = f
    BY <1>5, <1>7, <1>8, <1>9, <1>10
  <2> HIDE DEF b, f, x
  <2>3. (x \o b) \o f = x \o (b \o f)
    <3>1. \A p, q, s \in Words(C) : (p \o q) \o s = p \o (q \o s)
      BY WordFacts
    <3> QED
      BY <2>1, <3>1
  <2> QED
    BY <2>2, <2>3
<1>13. Target(at)' = Target(at + 1)
  BY <1>4 DEF Target, StageText, Spelled
<1>14. Form' = form
  BY <1>4 DEF Form
<1>15. ASSUME NEW i \in 1 .. Len(parts') PROVE AsksFor(Form, parts[i])'
  <2>1. AsksFor(form, parts'[i])
    BY <1>7
  <2> HIDE DEF form
  <2> QED
    BY <1>4, <1>14, <2>1 DEF AsksFor
<1> HIDE DEF form
<1>16. (spelt \o FlattenSeq(AnswerTexts(parts, gap)) = Target(at))'
  BY <1>12, <1>13
<1>17. (at \in 0 .. Len(Forms(word)) /\ at \in 1 .. Len(Forms(word)))'
  <2>1. at + 1 \in 0 .. Len(Forms(word)) /\ at + 1 \in 1 .. Len(Forms(word))
    BY <1>1
  <2>2. Len(Forms(word))' = Len(Forms(word))
    BY <1>4
  <2> QED
    BY <1>4, <2>1, <2>2
<1> QED
  BY <1>1, <1>4, <1>5, <1>7, <1>11, <1>15, <1>16, <1>17 DEF SpellInv

LEMMA OfferPartSpells ==
  ASSUME NEW C, StringsAreWords(C), SpellInv(C), OfferPart
  PROVE  SpellInv(C)'
<1>1. parts # << >> /\ parts \in Seq(PartsOf(C)) /\ at \in 1 .. Len(Forms(word)) /\ word \in Lexeme
      /\ \A i \in 1 .. Len(parts) : AsksFor(Form, parts[i])
  BY DEF SpellInv, OfferPart
<1>2. Form \in Askings(C)
  BY <1>1, FormsTyped DEF Form
<1>3. AsksFor(Form, Head(parts))
  <2>1. 1 \in 1 .. Len(parts) /\ Head(parts) = parts[1]
    BY <1>1, LenProperties, EmptySeq
  <2> QED
    BY <1>1, <2>1
<1>4. PICK offer \in Offers(Form, Head(parts)) : opts' = offer.opts /\ correct' = offer.correct
  BY DEF OfferPart
<1>5. offer.opts[offer.correct].text = Head(parts).text
  BY <1>2, <1>3, OffersRight
<1>6. word' = word /\ way' = way /\ at' = at /\ parts' = parts /\ gap' = gap /\ spelt' = spelt
  BY DEF OfferPart
<1>7. (opts # << >> => parts # << >> /\ opts[correct].text = Head(parts).text)'
  BY <1>1, <1>4, <1>5, <1>6
<1>8. Target(at)' = Target(at)
  BY <1>6 DEF Target, StageText, Spelled
<1>9. (spelt \o FlattenSeq(AnswerTexts(parts, gap)) = Target(at))'
  BY <1>6, <1>8 DEF SpellInv
<1>10. Form' = Form
  BY <1>6 DEF Form
<1>11. (parts # << >> => at \in 1 .. Len(Forms(word)) /\ \A i \in 1 .. Len(parts) : AsksFor(Form, parts[i]))'
  BY <1>1, <1>6, <1>10 DEF AsksFor
<1>12. (/\ word \in Lexeme /\ way \in ExerciseMode /\ at \in 0 .. Len(Forms(word))
        /\ parts \in Seq(PartsOf(C)) /\ gap \in GapOf(C) /\ spelt \in Words(C))'
  BY <1>6 DEF SpellInv
<1> QED
  BY <1>7, <1>9, <1>11, <1>12 DEF SpellInv

LEMMA PushSubstageSpells ==
  ASSUME NEW C, StringsAreWords(C), SpellInv(C), PushSubstage
  PROVE  SpellInv(C)'
<1>1. /\ parts # << >> /\ parts \in Seq(PartsOf(C)) /\ gap \in GapOf(C) /\ spelt \in Words(C)
      /\ at \in 1 .. Len(Forms(word)) /\ \A i \in 1 .. Len(parts) : AsksFor(Form, parts[i])
      /\ opts[correct].text = Head(parts).text
      /\ spelt \o FlattenSeq(AnswerTexts(parts, gap)) = Target(at)
  BY DEF SpellInv, PushSubstage
<1>2. /\ spelt' = spelt \o gap.left \o opts[correct].text \o gap.right
      /\ parts' = Tail(parts) /\ opts' = << >> /\ correct' = 0
      /\ word' = word /\ way' = way /\ at' = at /\ gap' = gap
  BY DEF PushSubstage
<1> DEFINE l == gap.left
           a == Head(parts).text
           r == gap.right
           rest == FlattenSeq(AnswerTexts(Tail(parts), gap))
<1>3. /\ Tail(parts) \in Seq(PartsOf(C)) /\ Head(parts) \in PartsOf(C)
      /\ FlattenSeq(AnswerTexts(parts, gap)) = (l \o a \o r) \o rest
  BY <1>1, AnsweredNext
<1>4. l \in Words(C) /\ a \in Words(C) /\ r \in Words(C) /\ rest \in Words(C)
  BY <1>1, <1>3, AnsweredTyped DEF GapOf, PartsOf
<1>5. spelt' = spelt \o l \o a \o r /\ spelt \o ((l \o a \o r) \o rest) = Target(at)
  BY <1>1, <1>2, <1>3
<1>6. FlattenSeq(AnswerTexts(parts', gap')) = rest
  BY <1>2
<1> HIDE DEF l, a, r, rest
<1>7. \A p, q, s \in Words(C) : (p \o q) \o s = p \o (q \o s)
  BY WordFacts
<1>8. l \o a \in Words(C) /\ l \o a \o r \in Words(C) /\ spelt \o l \in Words(C)
  <2>1. \A p, q \in Words(C) : p \o q \in Words(C)
    BY WordFacts
  <2> QED
    BY <1>1, <1>4, <2>1
<1>9. spelt \o l \o a \o r = spelt \o (l \o a \o r)
  <2>1. spelt \o l \o a = spelt \o (l \o a)
    BY <1>1, <1>4, <1>7
  <2>2. (spelt \o (l \o a)) \o r = spelt \o ((l \o a) \o r)
    BY <1>1, <1>4, <1>7, <1>8
  <2> QED
    BY <2>1, <2>2
<1>10. (spelt \o (l \o a \o r)) \o rest = spelt \o ((l \o a \o r) \o rest)
  BY <1>1, <1>4, <1>7, <1>8
<1>11. spelt' \o rest = Target(at)
  BY <1>5, <1>9, <1>10
<1>12. spelt' \in Words(C)
  BY <1>1, <1>5, <1>8, <1>9, WordFacts
<1>13. Target(at)' = Target(at)
  BY <1>2 DEF Target, StageText, Spelled
<1>14. (spelt \o FlattenSeq(AnswerTexts(parts, gap)) = Target(at))'
  BY <1>6, <1>11, <1>13
<1>15. Form' = Form
  BY <1>2 DEF Form
<1>16. ASSUME NEW i \in 1 .. Len(parts') PROVE AsksFor(Form, parts[i])'
  <2>1. Len(Tail(parts)) = Len(parts) - 1 /\ \A x \in 1 .. Len(Tail(parts)) : Tail(parts)[x] = parts[x + 1]
        /\ Len(parts) \in Nat
    BY <1>1, HeadTailProperties, LenProperties
  <2>2. i + 1 \in 1 .. Len(parts) /\ parts'[i] = parts[i + 1]
    BY <1>2, <2>1
  <2>3. AsksFor(Form, parts[i + 1])
    BY <1>1, <2>2
  <2> QED
    BY <1>2, <1>15, <2>2, <2>3 DEF AsksFor
<1>17. (/\ word \in Lexeme /\ way \in ExerciseMode /\ at \in 0 .. Len(Forms(word))
        /\ parts \in Seq(PartsOf(C)) /\ gap \in GapOf(C))'
  BY <1>2, <1>3 DEF SpellInv
<1> QED
  BY <1>1, <1>2, <1>12, <1>14, <1>16, <1>17 DEF SpellInv

LEMMA SpellingStays ==
  ASSUME NEW C, StringsAreWords(C), SpellInv(C), [StagesNext]_stageVars
  PROVE  SpellInv(C)'
<1>1. CASE OpenStage
  BY <1>1, OpenStageSpells
<1>2. CASE OfferPart
  BY <1>2, OfferPartSpells
<1>3. CASE PushSubstage
  BY <1>3, PushSubstageSpells
<1>4. CASE UNCHANGED stageVars
  <2>1. word' = word /\ way' = way /\ at' = at /\ parts' = parts /\ gap' = gap /\ opts' = opts
        /\ correct' = correct /\ spelt' = spelt
    BY <1>4 DEF stageVars
  <2>2. Target(at)' = Target(at) /\ Form' = Form
    BY <2>1 DEF Target, StageText, Spelled, Form
  <2> QED
    BY <2>1, <2>2 DEF SpellInv, AsksFor
<1> QED
  BY <1>1, <1>2, <1>3, <1>4 DEF StagesNext

\* Whatever the word, the mode, the place of the gap and the shuffles: the right
\* options of all substages, with what surrounds the gaps, are the forms of the
\* word one after the other.
THEOREM StagesSpellTheWord ==
  ASSUME NEW C, StringsAreWords(C)
  PROVE  StagesInit /\ [][StagesNext]_stageVars => []AnswersSpellTheWord
<1>1. StagesInit => SpellInv(C)
  BY SpellStart
<1>2. SpellInv(C) /\ [StagesNext]_stageVars => SpellInv(C)'
  BY SpellingStays
<1>3. SpellInv(C) => AnswersSpellTheWord
  <2> SUFFICES ASSUME SpellInv(C), parts = << >> PROVE spelt = Target(at)
    BY DEF AnswersSpellTheWord, Target, StageText, Between
  <2> QED
    BY NothingLeft
<1> QED
  BY <1>1, <1>2, <1>3, PTL

-----------------------------------------------------------------------------
(* The tables are searched by bisection. *)

Place(n) == 1 .. n + 1
Interval(n) == Place(n) \X Place(n)
\* One turn of the loop, and the search as the turns that are left.
Halved(f, r, table, w) ==
  IF r[1] >= r[2] THEN r[1]
  ELSE LET mid == r[1] + (r[2] - r[1]) \div 2
       IN IF Less(table[mid], w) THEN f[<<mid + 1, r[2]>>] ELSE f[<<r[1], mid>>]
Searches(f, table, w) == f = [r \in Interval(Len(table)) |-> Halved(f, r, table, w)]

LEMMA BisectSearches ==
  ASSUME NEW table, NEW w
  PROVE  Bisect(table, w) = (CHOOSE f : Searches(f, table, w))[<<1, Len(table) + 1>>]
BY DEF Bisect, Searches, Halved, Interval, Place

\* A longer interval is left for a shorter one.
LEMMA Halves ==
  ASSUME NEW n \in Nat, NEW r \in Interval(n), r[1] < r[2]
  PROVE  LET mid == r[1] + (r[2] - r[1]) \div 2
         IN /\ mid \in r[1] .. r[2] - 1 /\ mid \in 1 .. n
            /\ <<mid + 1, r[2]>> \in Interval(n) /\ <<r[1], mid>> \in Interval(n)
            /\ r[2] - (mid + 1) < r[2] - r[1] /\ mid - r[1] < r[2] - r[1]
<1> DEFINE a == r[1]
           b == r[2]
           mid == a + (b - a) \div 2
<1>1. a \in Place(n) /\ b \in Place(n)
  BY DEF Interval
<1> HIDE DEF a, b
<1>2. a \in 1 .. n + 1 /\ b \in 1 .. n + 1 /\ a < b
  BY <1>1 DEF Place, a, b
<1>3. mid \in a .. b - 1
  BY <1>2
<1> HIDE DEF mid
<1>4. mid \in 1 .. n /\ mid + 1 \in Place(n) /\ mid \in Place(n)
  BY <1>2, <1>3 DEF Place
<1>5. b - (mid + 1) < b - a /\ mid - a < b - a
  BY <1>2, <1>3
<1>6. <<mid + 1, b>> \in Interval(n) /\ <<a, mid>> \in Interval(n)
  BY <1>1, <1>4 DEF Interval
<1> QED
  BY <1>3, <1>4, <1>5, <1>6 DEF mid, a, b

LEMMA HalvedTyped ==
  ASSUME NEW n \in Nat, NEW table, NEW w, NEW f \in [Interval(n) -> Place(n)], NEW r \in Interval(n)
  PROVE  Halved(f, r, table, w) \in Place(n)
<1>1. r[1] \in Place(n)
  BY DEF Interval
<1>2. CASE r[1] >= r[2]
  BY <1>1, <1>2 DEF Halved
<1>3. CASE ~(r[1] >= r[2])
  <2> DEFINE mid == r[1] + (r[2] - r[1]) \div 2
             s == <<mid + 1, r[2]>>
             t == <<r[1], mid>>
  <2>1. r[1] < r[2]
    BY <1>3 DEF Interval, Place
  <2>2. s \in Interval(n) /\ t \in Interval(n)
    BY <2>1, Halves
  <2>3. Halved(f, r, table, w) = IF Less(table[mid], w) THEN f[s] ELSE f[t]
    BY <1>3 DEF Halved
  <2> HIDE DEF s, t, mid
  <2>4. f[s] \in Place(n) /\ f[t] \in Place(n)
    BY <2>2
  <2> QED
    BY <2>3, <2>4
<1> QED
  BY <1>2, <1>3

\* What is found depends on the shorter intervals only.
LEMMA HalvedAlike ==
  ASSUME NEW n \in Nat, NEW table, NEW w, NEW k \in Nat, NEW f, NEW g,
         \A r \in Interval(n) : r[2] - r[1] <= k => f[r] = g[r],
         NEW r \in Interval(n), r[2] - r[1] <= k + 1
  PROVE  Halved(f, r, table, w) = Halved(g, r, table, w)
<1>1. CASE r[1] >= r[2]
  BY <1>1 DEF Halved
<1>2. CASE ~(r[1] >= r[2])
  <2> DEFINE mid == r[1] + (r[2] - r[1]) \div 2
             s == <<mid + 1, r[2]>>
             t == <<r[1], mid>>
  <2>1. r[1] < r[2] /\ r[1] \in Int /\ r[2] \in Int
    BY <1>2 DEF Interval, Place
  <2>2. /\ s \in Interval(n) /\ t \in Interval(n) /\ mid \in r[1] .. r[2] - 1
        /\ r[2] - (mid + 1) < r[2] - r[1] /\ mid - r[1] < r[2] - r[1]
    BY <2>1, Halves
  <2>3. Halved(f, r, table, w) = (IF Less(table[mid], w) THEN f[s] ELSE f[t])
        /\ Halved(g, r, table, w) = (IF Less(table[mid], w) THEN g[s] ELSE g[t])
    BY <1>2 DEF Halved
  <2>4. s[2] - s[1] = r[2] - (mid + 1) /\ t[2] - t[1] = mid - r[1]
    OBVIOUS
  <2> HIDE DEF mid
  <2>5. r[2] - (mid + 1) <= k /\ mid - r[1] <= k
    BY <2>1, <2>2
  <2>6. s[2] - s[1] <= k /\ t[2] - t[1] <= k
    BY <2>4, <2>5
  <2> HIDE DEF s, t
  <2>7. f[s] = g[s] /\ f[t] = g[t]
    BY <2>2, <2>6
  <2> QED
    BY <2>3, <2>7
<1> QED
  BY <1>1, <1>2

LEMMA SearchExists ==
  ASSUME NEW table, Len(table) \in Nat, NEW w
  PROVE  \E f : Searches(f, table, w)
<1> DEFINE n == Len(table)
           D == [Interval(n) -> Place(n)]
           base == [r \in Interval(n) |-> r[1]]
           Turn(f) == [r \in Interval(n) |-> Halved(f, r, table, w)]
           F == [k \in 1 .. n |-> [f \in D |-> Turn(f)]]
<1>1. n \in Nat
  OBVIOUS
<1> HIDE DEF n
<1>2. \A f \in D : Turn(f) \in D
  BY <1>1, HalvedTyped
<1>3. base \in D
  BY DEF Interval
<1>4. CanIterate(n, D, base, F)
  <2> HIDE DEF D, base, Turn
  <2> QED
    BY <1>1, <1>2, <1>3 DEF CanIterate
<1>5. PICK h : Iterates(h, n, D, base, F)
  BY <1>4, Iterated
<1>6. h \in [0 .. n -> D] /\ h[0] = base /\ \A k \in 1 .. n : h[k] = Turn(h[k - 1])
  <2> HIDE DEF D, base, Turn
  <2>1. h \in [0 .. n -> D] /\ h[0] = base /\ \A k \in 1 .. n : h[k] = F[k][h[k - 1]]
    BY <1>5 DEF Iterates
  <2>2. \A k \in 1 .. n : h[k - 1] \in D
    BY <1>1, <2>1
  <2> QED
    BY <2>1, <2>2
<1> DEFINE Found0(k) == \A r \in Interval(n) : r[2] - r[1] <= k => h[k][r] = Halved(h[k], r, table, w)
           Good == {k \in 0 .. n : Found0(k)}
<1>7. \A k \in 0 .. n : k \in Good
  <2>1. 0 \in Good
    <3>1. ASSUME NEW r \in Interval(n), r[2] - r[1] <= 0 PROVE h[0][r] = Halved(h[0], r, table, w)
      <4>1. r[1] >= r[2]
        BY <3>1 DEF Interval, Place
      <4>2. Halved(h[0], r, table, w) = r[1]
        BY <4>1 DEF Halved
      <4> QED
        BY <1>6, <4>2
    <3> QED
      BY <1>1, <3>1
  <2>2. ASSUME NEW k \in 0 .. n - 1, k \in Good PROVE k + 1 \in Good
    <3>1. k \in Nat /\ k + 1 \in 1 .. n /\ k + 1 \in 0 .. n /\ (k + 1) - 1 = k
      BY <1>1
    <3>2. h[k + 1] = Turn(h[k])
      BY <1>6, <3>1
    <3>3. \A r \in Interval(n) : r[2] - r[1] <= k => h[k + 1][r] = h[k][r]
      BY <2>2, <3>2
    <3> DEFINE f == h[k]
               g == h[k + 1]
    <3>4. ASSUME NEW r \in Interval(n), r[2] - r[1] <= k + 1 PROVE g[r] = Halved(g, r, table, w)
      <4>1. g[r] = Halved(f, r, table, w)
        BY <3>2
      <4> HIDE DEF f, g
      <4>2. Halved(g, r, table, w) = Halved(f, r, table, w)
        BY <1>1, <3>1, <3>3, <3>4, HalvedAlike DEF f, g
      <4> QED
        BY <4>1, <4>2
    <3> QED
      BY <3>1, <3>4
  <2> HIDE DEF Good
  <2> QED
    BY <1>1, <2>1, <2>2, Induction
<1>8. n \in Good /\ h[n] \in D
  BY <1>1, <1>6, <1>7
<1> DEFINE f == h[n]
<1>9. \A r \in Interval(n) : r[2] - r[1] <= n
  <2> TAKE r \in Interval(n)
  <2>1. r[1] \in 1 .. n + 1 /\ r[2] \in 1 .. n + 1
    BY DEF Interval, Place
  <2> QED
    BY <1>1, <2>1
<1>10. f \in D /\ \A r \in Interval(n) : f[r] = Halved(f, r, table, w)
  BY <1>8, <1>9
<1> HIDE DEF f
<1>11. f = [r \in Interval(n) |-> Halved(f, r, table, w)]
  BY <1>10
<1> QED
  BY <1>11 DEF Searches, n

Ahead(table, w) == \A i, j \in 1 .. Len(table) : i < j /\ Less(table[j], w) => Less(table[i], w)

\* lower_bound: in a table whose entries below w come first, bisection finds the
\* first one that is not below w, or the place behind the last one; in any table
\* it finds a place.
THEOREM BisectFindsThePlace ==
  ASSUME NEW table, Len(table) \in Nat, NEW w
  PROVE  /\ Bisect(table, w) \in 1 .. Len(table) + 1
         /\ Ahead(table, w) =>
              \A i \in 1 .. Len(table) : Less(table[i], w) <=> i < Bisect(table, w)
<1> DEFINE n == Len(table)
           f == CHOOSE f : Searches(f, table, w)
           Right(r, p) ==
             /\ p \in r[1] .. r[2]
             /\ Ahead(table, w) => /\ \A i \in r[1] .. p - 1 : Less(table[i], w)
                                   /\ \A i \in p .. r[2] - 1 : ~Less(table[i], w)
<1>1. n \in Nat /\ Searches(f, table, w)
  BY SearchExists
<1>2. Bisect(table, w) = f[<<1, n + 1>>]
  BY BisectSearches
<1> HIDE DEF f
<1>3. \A r \in Interval(n) : f[r] = Halved(f, r, table, w)
  BY <1>1 DEF Searches
<1> HIDE DEF n
<1> DEFINE Good == {k \in 0 .. n : \A r \in Interval(n) :
                                     r[1] <= r[2] /\ r[2] - r[1] <= k => Right(r, f[r])}
<1>4. \A k \in 0 .. n : k \in Good
  <2>1. 0 \in Good
    <3>1. ASSUME NEW r \in Interval(n), r[1] <= r[2], r[2] - r[1] <= 0 PROVE Right(r, f[r])
      <4>1. r[1] \in Int /\ r[2] = r[1]
        BY <3>1 DEF Interval, Place
      <4>2. r[1] >= r[2] /\ f[r] = Halved(f, r, table, w)
        BY <1>3, <4>1
      <4>3. f[r] = r[1]
        BY <4>2 DEF Halved
      <4> QED
        BY <4>1, <4>3
    <3> QED
      BY <1>1, <3>1
  <2>2. ASSUME NEW k \in 0 .. n - 1, k \in Good PROVE k + 1 \in Good
    <3>1. ASSUME NEW r \in Interval(n), r[1] <= r[2], r[2] - r[1] <= k + 1 PROVE Right(r, f[r])
      <4> DEFINE a == r[1]
                 b == r[2]
                 mid == a + (b - a) \div 2
                 s == <<mid + 1, b>>
                 t == <<a, mid>>
      <4>1. a \in 1 .. n + 1 /\ b \in 1 .. n + 1
        BY DEF Interval, Place
      <4>2. CASE a = b
        <5>1. f[r] = a
          <6>1. r[1] >= r[2] /\ f[r] = Halved(f, r, table, w)
            BY <1>3, <4>1, <4>2
          <6> QED
            BY <6>1 DEF Halved
        <5> QED
          BY <4>1, <4>2, <5>1
      <4>3. CASE a # b
        <5>1. a < b
          BY <1>1, <3>1, <4>1, <4>3
        <5>2. /\ s \in Interval(n) /\ t \in Interval(n) /\ mid \in a .. b - 1 /\ mid \in 1 .. n
              /\ b - (mid + 1) < b - a /\ mid - a < b - a
          BY <1>1, <5>1, Halves
        <5>3. f[r] = IF Less(table[mid], w) THEN f[s] ELSE f[t]
          <6>1. ~(r[1] >= r[2])
            BY <1>1, <4>1, <5>1
          <6> QED
            BY <1>3, <6>1 DEF Halved
        <5>4. s[1] = mid + 1 /\ s[2] = b /\ t[1] = a /\ t[2] = mid
          OBVIOUS
        <5> HIDE DEF mid, s, t
        <5>5. mid + 1 <= b /\ b - (mid + 1) <= k /\ a <= mid /\ mid - a <= k
          BY <1>1, <3>1, <4>1, <5>2
        <5>6. Right(s, f[s]) /\ Right(t, f[t])
          BY <2>2, <5>2, <5>4, <5>5
        <5> DEFINE p == f[r]
        <5>7. CASE Less(table[mid], w)
          <6>1. p = f[s] /\ p \in mid + 1 .. b
            BY <5>3, <5>4, <5>6, <5>7
          <6>2. ASSUME Ahead(table, w)
                PROVE  (\A i \in a .. p - 1 : Less(table[i], w)) /\ \A i \in p .. b - 1 : ~Less(table[i], w)
            <7>1. \A i \in mid + 1 .. p - 1 : Less(table[i], w)
              BY <5>4, <5>6, <6>1, <6>2
            <7>2. \A i \in p .. b - 1 : ~Less(table[i], w)
              BY <5>4, <5>6, <6>1, <6>2
            <7>3. ASSUME NEW i \in a .. mid PROVE Less(table[i], w)
              <8>1. CASE i = mid
                BY <5>7, <8>1
              <8>2. CASE i # mid
                <9>1. i \in 1 .. n /\ i < mid
                  BY <1>1, <4>1, <5>2, <8>2
                <9> QED
                  BY <5>2, <5>7, <6>2, <9>1 DEF Ahead, n
              <8> QED
                BY <8>1, <8>2
            <7>4. ASSUME NEW i \in a .. p - 1 PROVE Less(table[i], w)
              <8>1. i \in a .. mid \/ i \in mid + 1 .. p - 1
                BY <4>1, <5>2, <6>1
              <8> QED
                BY <7>1, <7>3, <8>1
            <7> QED
              BY <7>2, <7>4
          <6>3. p \in a .. b
            BY <4>1, <5>2, <6>1
          <6> QED
            BY <6>2, <6>3
        <5>8. CASE ~Less(table[mid], w)
          <6>1. p = f[t] /\ p \in a .. mid
            BY <5>3, <5>4, <5>6, <5>8
          <6>2. ASSUME Ahead(table, w)
                PROVE  (\A i \in a .. p - 1 : Less(table[i], w)) /\ \A i \in p .. b - 1 : ~Less(table[i], w)
            <7>1. \A i \in a .. p - 1 : Less(table[i], w)
              BY <5>4, <5>6, <6>1, <6>2
            <7>2. \A i \in p .. mid - 1 : ~Less(table[i], w)
              BY <5>4, <5>6, <6>1, <6>2
            <7>3. ASSUME NEW i \in mid .. b - 1 PROVE ~Less(table[i], w)
              <8>1. CASE i = mid
                BY <5>8, <8>1
              <8>2. CASE i # mid
                <9>1. i \in 1 .. n /\ mid < i
                  BY <1>1, <4>1, <5>2, <8>2
                <9> QED
                  BY <5>2, <5>8, <6>2, <9>1 DEF Ahead, n
              <8> QED
                BY <8>1, <8>2
            <7>4. ASSUME NEW i \in p .. b - 1 PROVE ~Less(table[i], w)
              <8>1. i \in p .. mid - 1 \/ i \in mid .. b - 1
                BY <4>1, <5>2, <6>1
              <8> QED
                BY <7>2, <7>3, <8>1
            <7> QED
              BY <7>1, <7>4
          <6>3. p \in a .. b
            BY <4>1, <5>2, <6>1
          <6> QED
            BY <6>2, <6>3
        <5> QED
          BY <5>7, <5>8
      <4> QED
        BY <4>2, <4>3
    <3>2. k + 1 \in 0 .. n
      BY <1>1
    <3> QED
      BY <3>1, <3>2
  <2> HIDE DEF Good
  <2> QED
    BY <1>1, <2>1, <2>2, Induction
<1> DEFINE r == <<1, n + 1>>
<1>5. r \in Interval(n) /\ r[1] = 1 /\ r[2] = n + 1
  BY <1>1 DEF Interval, Place
<1> HIDE DEF r
<1>6. Right(r, f[r])
  <2>1. n \in Good
    BY <1>1, <1>4
  <2>2. r[1] <= r[2] /\ r[2] - r[1] <= n
    BY <1>1, <1>5
  <2> QED
    BY <1>5, <2>1, <2>2
<1> DEFINE p == f[r]
<1>7. /\ p \in 1 .. n + 1
      /\ Ahead(table, w) => /\ \A i \in 1 .. p - 1 : Less(table[i], w)
                            /\ \A i \in p .. n : ~Less(table[i], w)
  BY <1>1, <1>5, <1>6
<1>8. p = Bisect(table, w)
  BY <1>2 DEF r
<1> HIDE DEF p
<1>9. ASSUME Ahead(table, w), NEW i \in 1 .. n PROVE Less(table[i], w) <=> i < p
  <2>1. i \in 1 .. p - 1 \/ i \in p .. n
    BY <1>1, <1>7
  <2>2. CASE i \in 1 .. p - 1
    BY <1>7, <1>9, <2>2
  <2>3. CASE i \in p .. n
    BY <1>1, <1>7, <1>9, <2>3
  <2> QED
    BY <2>1, <2>2, <2>3
<1> QED
  BY <1>7, <1>8, <1>9 DEF n

-----------------------------------------------------------------------------
(* The neighbours of a token in its table. *)

\* One turn of the loop, and the neighbours found as the turns made.
Around(found, table, pos, by, seed) ==
  IF seed.right THEN PushBoth(found, table, pos + by, pos - by)
  ELSE PushBoth(found, table, pos - by, pos + by)
Nears(f, table, pos, seed) ==
  f = [d \in 0 .. Len(table) |->
        IF d = 0 THEN << >> ELSE Around(f[d - 1], table, pos, seed.offset + d - 1, seed)]

LEMMA FillNears ==
  ASSUME NEW token, NEW table, NEW seed
  PROVE  FillNeighbors(token, table, seed) =
           PadTo4((CHOOSE f : Nears(f, table, Bisect(table, token), seed))[Len(table)])
BY DEF FillNeighbors, Nears, Around

\* What is found comes from different places, all of them in J.
Entries(table) == {table[i] : i \in 1 .. Len(table)}
Picks(q, found, table, J) ==
  /\ q \in [1 .. Len(found) -> J \cap 1 .. Len(table)]
  /\ \A i, k \in 1 .. Len(found) : q[i] = q[k] => i = k
  /\ \A i \in 1 .. Len(found) : found[i] = table[q[i]]
Picked(found, table, J) ==
  /\ found \in Seq(Entries(table)) /\ Len(found) \in 0 .. 4
  /\ \E q : Picks(q, found, table, J)

LEMMA PushPicks ==
  ASSUME NEW table, Len(table) \in Nat, NEW J, NEW found, Picked(found, table, J),
         NEW i \in Int, i \notin J
  PROVE  /\ Picked(Push(found, table, i), table, J \cup {i})
         /\ Len(Push(found, table, i)) >= Len(found)
         /\ i \in 1 .. Len(table) /\ Len(found) < 4 => Len(Push(found, table, i)) = Len(found) + 1
<1> DEFINE n == Len(table)
           m == Len(found)
           V == Entries(table)
<1>1. found \in Seq(V) /\ m \in 0 .. 4 /\ n \in Nat
  BY DEF Picked
<1>2. PICK q : Picks(q, found, table, J)
  BY DEF Picked
<1>3. CASE i \in 1 .. n /\ m < 4
  <2> DEFINE z == Append(found, table[i])
             p == [k \in 1 .. m + 1 |-> IF k = m + 1 THEN i ELSE q[k]]
             K == J \cup {i}
  <2>1. Push(found, table, i) = z
    BY <1>3 DEF Push
  <2>2. table[i] \in V
    BY <1>3 DEF Entries
  <2> HIDE DEF V
  <2>3. z \in Seq(V) /\ Len(z) = m + 1 /\ z[m + 1] = table[i] /\ \A k \in 1 .. m : z[k] = found[k]
    BY <1>1, <2>2, AppendProperties
  <2> HIDE DEF z, m
  <2>4. /\ q \in [1 .. m -> J \cap 1 .. n] /\ \A k, l \in 1 .. m : q[k] = q[l] => k = l
        /\ \A k \in 1 .. m : found[k] = table[q[k]]
    BY <1>2 DEF Picks, m
  <2> HIDE DEF n
  <2>5. p \in [1 .. m + 1 -> K \cap 1 .. n]
    BY <1>1, <1>3, <2>4
  <2>6. \A k, l \in 1 .. m + 1 : p[k] = p[l] => k = l
    <3> TAKE k, l \in 1 .. m + 1
    <3>1. (k \in 1 .. m \/ k = m + 1) /\ (l \in 1 .. m \/ l = m + 1) /\ m + 1 \notin 1 .. m
      BY <1>1
    <3>2. \A o \in 1 .. m : p[o] = q[o] /\ q[o] \in J
      BY <1>1, <2>4
    <3>3. p[m + 1] = i
      BY <1>1
    <3> HIDE DEF p
    <3> QED
      BY <2>4, <3>1, <3>2, <3>3
  <2>7. \A k \in 1 .. m + 1 : z[k] = table[p[k]]
    <3> TAKE k \in 1 .. m + 1
    <3>1. CASE k = m + 1
      BY <2>3, <3>1
    <3>2. CASE k # m + 1
      <4>1. k \in 1 .. m
        BY <1>1, <3>2
      <4>2. p[k] = q[k]
        BY <3>2
      <4> QED
        BY <2>3, <2>4, <4>1, <4>2
    <3> QED
      BY <3>1, <3>2
  <2> HIDE DEF p, K
  <2>8. Picks(p, z, table, K)
    BY <2>3, <2>5, <2>6, <2>7 DEF Picks, n
  <2>9. Len(z) \in 0 .. 4 /\ Len(z) >= m /\ Len(z) = m + 1
    BY <1>1, <1>3, <2>3
  <2>10. Picked(z, table, K)
    BY <2>3, <2>8, <2>9 DEF Picked, V
  <2> QED
    BY <2>1, <2>9, <2>10 DEF K, m
<1>4. CASE ~(i \in 1 .. n /\ m < 4)
  <2>1. Push(found, table, i) = found
    BY <1>4 DEF Push
  <2>2. Picks(q, found, table, J \cup {i})
    <3>1. J \cap 1 .. n \subseteq (J \cup {i}) \cap 1 .. n
      OBVIOUS
    <3>2. q \in [1 .. m -> J \cap 1 .. n] /\ DOMAIN q = 1 .. m
      BY <1>2 DEF Picks
    <3>3. q \in [1 .. m -> (J \cup {i}) \cap 1 .. n]
      BY <3>1, <3>2
    <3> QED
      BY <1>2, <3>3 DEF Picks
  <2>3. Picked(found, table, J \cup {i})
    BY <1>1, <2>2 DEF Picked
  <2>4. m >= m
    BY <1>1
  <2> QED
    BY <1>4, <2>1, <2>3, <2>4
<1> QED
  BY <1>3, <1>4

LEMMA AroundPicks ==
  ASSUME NEW table, Len(table) \in Nat, NEW J, NEW found, Picked(found, table, J), NEW seed,
         NEW pos \in Int, NEW by \in Nat \ {0}, pos + by \notin J, pos - by \notin J
  PROVE  LET next == Around(found, table, pos, by, seed)
         IN /\ Picked(next, table, J \cup {pos + by, pos - by})
            /\ Len(next) >= Len(found)
            /\ (pos + by \in 1 .. Len(table) \/ pos - by \in 1 .. Len(table)) /\ Len(found) < 4 =>
                 Len(next) > Len(found)
<1> DEFINE n == Len(table)
           Ok(next) == /\ Picked(next, table, J \cup {pos + by, pos - by})
                       /\ Len(next) >= Len(found)
                       /\ (pos + by \in 1 .. n \/ pos - by \in 1 .. n) /\ Len(found) < 4 =>
                            Len(next) > Len(found)
<1>1. ASSUME NEW i \in Int, NEW k \in Int, i # k, i \notin J, k \notin J,
             {i, k} = {pos + by, pos - by},
             (pos + by \in 1 .. n \/ pos - by \in 1 .. n) <=> (i \in 1 .. n \/ k \in 1 .. n)
      PROVE  Ok(PushBoth(found, table, i, k))
  <2> DEFINE x == Push(found, table, i)
             y == Push(x, table, k)
             K == J \cup {i}
             L == J \cup {pos + by, pos - by}
  <2>1. Len(found) \in 0 .. 4
    BY DEF Picked
  <2>2. Picked(x, table, K) /\ Len(x) >= Len(found)
        /\ (i \in 1 .. n /\ Len(found) < 4 => Len(x) = Len(found) + 1)
    BY <1>1, PushPicks
  <2>3. k \notin K
    BY <1>1
  <2> HIDE DEF x, K, Ok
  <2>4. Picked(y, table, K \cup {k}) /\ Len(y) >= Len(x)
        /\ (k \in 1 .. n /\ Len(x) < 4 => Len(y) = Len(x) + 1)
    <3>1. Picked(x, table, K) /\ k \in Int /\ k \notin K
      BY <2>2, <2>3
    <3> QED
      BY <3>1, PushPicks
  <2>5. Len(x) \in 0 .. 4 /\ Len(y) \in 0 .. 4
    BY <2>2, <2>4 DEF Picked
  <2> HIDE DEF y
  <2>6. K \cup {k} = L
    BY <1>1 DEF K
  <2>7. Picked(y, table, L)
    BY <2>4, <2>6
  <2>8. Len(y) >= Len(found)
    BY <2>1, <2>2, <2>4, <2>5
  <2>9. ASSUME i \in 1 .. n \/ k \in 1 .. n, Len(found) < 4 PROVE Len(y) > Len(found)
    <3>1. CASE i \in 1 .. n
      BY <2>1, <2>2, <2>4, <2>5, <2>9, <3>1
    <3>2. CASE k \in 1 .. n /\ Len(x) < 4
      BY <2>1, <2>2, <2>4, <2>5, <3>2
    <3>3. CASE Len(x) >= 4
      BY <2>1, <2>4, <2>5, <2>9, <3>3
    <3>4. Len(x) < 4 \/ Len(x) >= 4
      BY <2>5
    <3> QED
      BY <2>9, <3>1, <3>2, <3>3, <3>4
  <2>10. PushBoth(found, table, i, k) = y
    BY DEF PushBoth, x, y
  <2> QED
    BY <1>1, <2>7, <2>8, <2>9, <2>10 DEF Ok
<1>2. pos + by \in Int /\ pos - by \in Int /\ pos + by # pos - by
  OBVIOUS
<1>3. Ok(PushBoth(found, table, pos + by, pos - by)) /\ Ok(PushBoth(found, table, pos - by, pos + by))
  <2> DEFINE i == pos + by
             k == pos - by
  <2>1. i \in Int /\ k \in Int /\ i # k /\ i \notin J /\ k \notin J
    BY <1>2
  <2>2. {i, k} = {pos + by, pos - by} /\ {k, i} = {pos + by, pos - by}
    OBVIOUS
  <2>3. /\ (pos + by \in 1 .. n \/ pos - by \in 1 .. n) <=> (i \in 1 .. n \/ k \in 1 .. n)
        /\ (pos + by \in 1 .. n \/ pos - by \in 1 .. n) <=> (k \in 1 .. n \/ i \in 1 .. n)
    OBVIOUS
  <2> HIDE DEF i, k, Ok
  <2>4. Ok(PushBoth(found, table, i, k)) /\ Ok(PushBoth(found, table, k, i))
    BY <1>1, <2>1, <2>2, <2>3
  <2> QED
    BY <2>4 DEF i, k
<1> HIDE DEF Ok
<1>4. Ok(Around(found, table, pos, by, seed))
  BY <1>3 DEF Around
<1> QED
  BY <1>4 DEF Ok

\* Which places the first d turns look at.
Looked(pos, offset, d) ==
  {z \in Int : \/ pos + offset <= z /\ z < pos + offset + d
               \/ pos - offset - d < z /\ z <= pos - offset}

LEMMA NearsExist ==
  ASSUME NEW table, Len(table) \in Nat, NEW pos \in Int, NEW seed, seed.offset \in {1, 2}
  PROVE  \E f : Nears(f, table, pos, seed)
<1> DEFINE n == Len(table)
           D == {x \in Seq(Entries(table)) : \E J : Picked(x, table, J)}
           E == Seq(Entries(table))
           F == [d \in 1 .. n |-> [x \in E |-> Around(x, table, pos, seed.offset + d - 1, seed)]]
<1>1. n \in Nat /\ << >> \in E
  BY EmptySeq
<1>2. \A x \in E, i \in Int : Push(x, table, i) \in E
  <2> TAKE x \in E, i \in Int
  <2>1. CASE i \in 1 .. n /\ Len(x) < 4
    <3>1. table[i] \in Entries(table)
      BY <2>1 DEF Entries
    <3>2. Append(x, table[i]) \in E
      BY <3>1, AppendProperties
    <3> QED
      BY <2>1, <3>2 DEF Push
  <2>2. CASE ~(i \in 1 .. n /\ Len(x) < 4)
    BY <2>2 DEF Push
  <2> QED
    BY <2>1, <2>2
<1> HIDE DEF E, n
<1>3. ASSUME NEW x \in E, NEW d \in 1 .. n
      PROVE  Around(x, table, pos, seed.offset + d - 1, seed) \in E
  <2> DEFINE by == seed.offset + d - 1
  <2>1. pos + by \in Int /\ pos - by \in Int
    BY <1>1
  <2> HIDE DEF by
  <2>2. PushBoth(x, table, pos + by, pos - by) \in E /\ PushBoth(x, table, pos - by, pos + by) \in E
    BY <1>2, <2>1 DEF PushBoth
  <2> QED
    BY <2>2 DEF Around, by
<1>4. CanIterate(n, E, << >>, F)
  BY <1>1, <1>3 DEF CanIterate
<1>5. PICK h : Iterates(h, n, E, << >>, F)
  BY <1>4, Iterated
<1>6. h \in [0 .. n -> E] /\ h[0] = << >> /\ \A d \in 1 .. n : h[d] = F[d][h[d - 1]]
  BY <1>5 DEF Iterates
<1>7. \A d \in 1 .. n : h[d] = Around(h[d - 1], table, pos, seed.offset + d - 1, seed)
  <2> TAKE d \in 1 .. n
  <2>1. d - 1 \in 0 .. n
    BY <1>1
  <2>2. h[d - 1] \in E
    BY <1>6, <2>1
  <2> QED
    BY <1>6, <2>2
<1>8. h = [d \in 0 .. n |-> IF d = 0 THEN << >> ELSE Around(h[d - 1], table, pos, seed.offset + d - 1, seed)]
  <2>1. \A d \in 0 .. n : h[d] = IF d = 0 THEN << >> ELSE Around(h[d - 1], table, pos, seed.offset + d - 1, seed)
    <3> TAKE d \in 0 .. n
    <3>1. CASE d = 0
      BY <1>6, <3>1
    <3>2. CASE d # 0
      <4>1. d \in 1 .. n
        BY <1>1, <3>2
      <4> QED
        BY <1>7, <3>2, <4>1
    <3> QED
      BY <3>1, <3>2
  <2> QED
    BY <1>6, <2>1
<1> QED
  BY <1>8 DEF Nears, n

\* What the loop has found after d turns.
LEMMA NearsFind ==
  ASSUME NEW table, Len(table) \in Nat, NEW pos \in 1 .. Len(table), NEW seed, seed.offset \in {1, 2},
         NEW f, Nears(f, table, pos, seed), NEW d \in 0 .. Len(table)
  PROVE  /\ Picked(f[d], table, Looked(pos, seed.offset, d))
         /\ Len(table) >= 11 => Len(f[d]) >= d \/ Len(f[d]) = 4
<1> DEFINE n == Len(table)
           off == seed.offset
           Good == {k \in 0 .. n : /\ Picked(f[k], table, Looked(pos, off, k))
                                   /\ n >= 11 => Len(f[k]) >= k \/ Len(f[k]) = 4}
<1>1. n \in Nat /\ pos \in 1 .. n /\ off \in {1, 2}
  OBVIOUS
<1>2. f[0] = << >> /\ \A k \in 1 .. n : f[k] = Around(f[k - 1], table, pos, off + k - 1, seed)
  BY <1>1 DEF Nears
<1> HIDE DEF off
<1>3. 0 \in Good
  <2>1. f[0] \in Seq(Entries(table)) /\ Len(f[0]) = 0
    BY <1>2, EmptySeq
  <2>2. Picks([i \in 1 .. 0 |-> i], f[0], table, Looked(pos, off, 0))
    <3> DEFINE q == [i \in 1 .. 0 |-> i]
    <3>1. \A i \in 1 .. 0 : FALSE
      OBVIOUS
    <3>2. q \in [1 .. 0 -> Looked(pos, off, 0) \cap 1 .. n]
      BY <3>1
    <3> HIDE DEF q
    <3> QED
      BY <2>1, <3>1, <3>2 DEF Picks
  <2>3. Picked(f[0], table, Looked(pos, off, 0))
    BY <2>1, <2>2 DEF Picked
  <2>4. Len(f[0]) >= 0
    BY <2>1
  <2> QED
    BY <1>1, <2>3, <2>4
<1>4. ASSUME NEW k \in 0 .. n - 1, k \in Good PROVE k + 1 \in Good
  <2> DEFINE by == off + k
             J == Looked(pos, off, k)
             x == f[k]
             y == f[k + 1]
             L == Len(x)
             M == Len(y)
  <2>1. k \in Nat /\ k + 1 \in 1 .. n /\ k + 1 \in 0 .. n /\ (k + 1) - 1 = k /\ off + (k + 1) - 1 = by
    BY <1>1
  <2>2. by \in Nat \ {0} /\ by <= k + 2 /\ pos \in Int
    BY <1>1, <2>1
  <2>3. pos + by \notin J /\ pos - by \notin J
    BY <1>1, <2>1 DEF Looked
  <2>4. J \cup {pos + by, pos - by} = Looked(pos, off, k + 1)
    BY <1>1, <2>1 DEF Looked
  <2>5. y = Around(x, table, pos, by, seed)
    <3>1. y = Around(f[(k + 1) - 1], table, pos, off + (k + 1) - 1, seed)
      BY <1>2, <2>1
    <3> HIDE DEF by, y
    <3> QED
      BY <2>1, <3>1
  <2>6. Picked(x, table, J) /\ (n >= 11 => L >= k \/ L = 4)
    BY <1>4
  <2> HIDE DEF by, J, x, y
  <2>7. /\ Picked(y, table, J \cup {pos + by, pos - by}) /\ Len(y) >= Len(x)
        /\ (pos + by \in 1 .. n \/ pos - by \in 1 .. n) /\ Len(x) < 4 => Len(y) > Len(x)
    BY <1>1, <2>2, <2>3, <2>5, <2>6, AroundPicks
  <2>8. L \in 0 .. 4 /\ M \in 0 .. 4
    BY <2>6, <2>7 DEF Picked
  <2>9. M >= L /\ ((pos + by \in 1 .. n \/ pos - by \in 1 .. n) /\ L < 4 => M > L)
    BY <2>7
  <2> HIDE DEF L, M, n
  <2>10. ASSUME n >= 11 PROVE M >= k + 1 \/ M = 4
    <3>1. CASE L = 4
      BY <2>8, <2>9, <3>1
    <3>2. CASE L # 4
      <4>1. L >= k /\ L < 4
        BY <2>6, <2>8, <2>10, <3>2
      <4>2. by <= 5
        BY <2>1, <2>2, <2>8, <4>1
      <4>3. pos + by <= n \/ pos - by >= 1
        BY <1>1, <2>2, <2>10, <4>2
      <4>4. pos + by \in 1 .. n \/ pos - by \in 1 .. n
        BY <1>1, <2>2, <4>3
      <4>5. M > L
        BY <2>9, <4>1, <4>4
      <4> QED
        BY <2>1, <2>8, <4>1, <4>5
    <3> QED
      BY <3>1, <3>2
  <2>11. Picked(f[k + 1], table, Looked(pos, off, k + 1)) /\ (n >= 11 => Len(f[k + 1]) >= k + 1 \/ Len(f[k + 1]) = 4)
    BY <2>4, <2>7, <2>10 DEF y, M
  <2> QED
    BY <2>1, <2>11
<1> HIDE DEF Good
<1>5. \A k \in 0 .. n : k \in Good
  BY <1>1, <1>3, <1>4, Induction
<1> QED
  BY <1>5 DEF Good, off

\* The distractors of a token that is in a table.
Injective(table) == \A i, k \in 1 .. Len(table) : table[i] = table[k] => i = k
Apart(table) == \A i \in 1 .. Len(table) : table[i] \notin {"ab", "an", "auf", "aus"}

LEMMA NeighborsDiffer ==
  ASSUME NEW table, Len(table) \in Nat, Injective(table), Apart(table) \/ Len(table) >= 11,
         NEW token, Found(table, token), NEW seed, seed.offset \in {1, 2}
  PROVE  /\ \A i, k \in 1 .. 4 :
              FillNeighbors(token, table, seed)[i] = FillNeighbors(token, table, seed)[k] => i = k
         /\ \A i \in 1 .. 4 : FillNeighbors(token, table, seed)[i] # token
<1> DEFINE n == Len(table)
           pos == Bisect(table, token)
           g == CHOOSE f : Nears(f, table, pos, seed)
           x == g[n]
           r == FillNeighbors(token, table, seed)
           off == seed.offset
           pad == <<"ab", "an", "auf", "aus">>
<1>1. n \in Nat /\ pos \in 1 .. n /\ table[pos] = token
  <2>1. pos <= n /\ table[pos] = token
    BY DEF Found
  <2>2. pos \in 1 .. n + 1
    BY BisectFindsThePlace
  <2> HIDE DEF pos
  <2> QED
    BY <2>1, <2>2
<1>2. r = PadTo4(x)
  BY FillNears
<1> HIDE DEF pos, r
<1>3. Nears(g, table, pos, seed)
  BY <1>1, NearsExist
<1> HIDE DEF g
<1>4. Picked(x, table, Looked(pos, off, n)) /\ (n >= 11 => Len(x) >= n \/ Len(x) = 4)
  BY <1>1, <1>3, NearsFind
<1> HIDE DEF x
<1>5. PICK q : Picks(q, x, table, Looked(pos, off, n))
  BY <1>4 DEF Picked
<1> DEFINE m == Len(x)
<1>6. m \in 0 .. 4 /\ (n >= 11 => m = 4)
  <2>1. m \in 0 .. 4
    BY <1>4 DEF Picked
  <2>2. n >= 11 => m >= n \/ m = 4
    BY <1>4
  <2> HIDE DEF m
  <2> QED
    BY <1>1, <2>1, <2>2
<1>7. ASSUME NEW i \in 1 .. m PROVE q[i] \in 1 .. n /\ q[i] # pos /\ x[i] = table[q[i]]
  <2>1. q[i] \in Looked(pos, off, n) /\ q[i] \in 1 .. n /\ x[i] = table[q[i]]
    BY <1>5 DEF Picks
  <2>2. q[i] # pos
    BY <1>1, <2>1 DEF Looked
  <2> QED
    BY <2>1, <2>2
<1>8. \A i, k \in 1 .. m : q[i] = q[k] => i = k
  BY <1>5 DEF Picks
<1>9. \A i \in 1 .. 4 : r[i] = IF i <= m THEN x[i] ELSE pad[i]
  <2>1. \A i \in 1 .. 4 : ShortChunks[i] = pad[i]
    BY DEF ShortChunks
  <2> HIDE DEF pad
  <2> QED
    BY <1>2, <2>1 DEF PadTo4
<1>10. \A i, k \in 1 .. 4 : pad[i] = pad[k] => i = k
  OBVIOUS
<1>11. \A i \in 1 .. 4 : pad[i] \in {"ab", "an", "auf", "aus"}
  OBVIOUS
<1> HIDE DEF m, off, pad
<1>12. \A i \in 1 .. 4 : i > m => Apart(table)
  BY <1>1, <1>6
<1>13. \A i \in 1 .. 4, k \in 1 .. n : i > m => table[k] # pad[i]
  BY <1>11, <1>12 DEF Apart
<1>14. \A i, k \in 1 .. n : table[i] = table[k] => i = k
  BY DEF Injective
<1> HIDE DEF n
<1>15. ASSUME NEW i \in 1 .. 4 PROVE r[i] # token
  <2>1. CASE i <= m
    <3>1. i \in 1 .. m
      BY <1>6, <2>1
    <3>2. r[i] = table[q[i]] /\ q[i] \in 1 .. n /\ q[i] # pos
      BY <1>7, <1>9, <2>1, <3>1
    <3> QED
      BY <1>1, <1>14, <3>2
  <2>2. CASE ~(i <= m)
    <3>1. i > m
      BY <1>6, <2>2
    <3> QED
      BY <1>1, <1>9, <1>13, <2>2, <3>1
  <2> QED
    BY <2>1, <2>2
<1>16. ASSUME NEW i \in 1 .. 4, NEW k \in 1 .. 4, r[i] = r[k] PROVE i = k
  <2>1. CASE i <= m /\ k <= m
    <3>1. i \in 1 .. m /\ k \in 1 .. m
      BY <1>6, <2>1
    <3>2. x[i] = x[k]
      BY <1>9, <1>16, <2>1
    <3>3. q[i] = q[k]
      BY <1>7, <1>14, <3>1, <3>2
    <3> QED
      BY <1>8, <3>1, <3>3
  <2>2. CASE i <= m /\ ~(k <= m)
    <3>1. i \in 1 .. m /\ k > m
      BY <1>6, <2>2
    <3>2. x[i] = pad[k]
      BY <1>9, <1>16, <2>2
    <3> QED
      BY <1>7, <1>13, <3>1, <3>2
  <2>3. CASE ~(i <= m) /\ k <= m
    <3>1. k \in 1 .. m /\ i > m
      BY <1>6, <2>3
    <3>2. x[k] = pad[i]
      BY <1>9, <1>16, <2>3
    <3> QED
      BY <1>7, <1>13, <3>1, <3>2
  <2>4. CASE ~(i <= m) /\ ~(k <= m)
    <3>1. pad[i] = pad[k]
      BY <1>9, <1>16, <2>4
    <3> QED
      BY <1>10, <3>1
  <2> QED
    BY <2>1, <2>2, <2>3, <2>4
<1> QED
  BY <1>15, <1>16 DEF r

-----------------------------------------------------------------------------
(* The tables have no entry twice, and what pads a list of neighbours is in the *)
(* first of them only, which is long enough not to be padded.                   *)
LEMMA VerbPrefixFacts ==
  Len(VerbPrefix) = 41 /\ Injective(VerbPrefix)
  BY SMTT(60) DEF VerbPrefix, Injective
LEMMA VerbInfinitiveFacts ==
  Len(VerbInfinitive) = 5 /\ Injective(VerbInfinitive) /\ Apart(VerbInfinitive)
  BY SMTT(60) DEF VerbInfinitive, Injective, Apart
LEMMA VerbFiniteFacts ==
  Len(VerbFinite) = 11 /\ Injective(VerbFinite) /\ Apart(VerbFinite)
  BY SMTT(60) DEF VerbFinite, Injective, Apart
LEMMA AdjectiveDerivFacts ==
  Len(AdjectiveDeriv) = 11 /\ Injective(AdjectiveDeriv) /\ Apart(AdjectiveDeriv)
  BY SMTT(60) DEF AdjectiveDeriv, Injective, Apart
LEMMA AdjectiveOuterFacts ==
  Len(AdjectiveOuter) = 16 /\ Injective(AdjectiveOuter) /\ Apart(AdjectiveOuter)
  BY SMTT(60) DEF AdjectiveOuter, Injective, Apart
LEMMA NounDerivFacts ==
  Len(NounDeriv) = 28 /\ Injective(NounDeriv) /\ Apart(NounDeriv)
  BY SMTT(60) DEF NounDeriv, Injective, Apart
LEMMA NounInflectionFacts ==
  Len(NounInflection) = 8 /\ Injective(NounInflection) /\ Apart(NounInflection)
  BY SMTT(60) DEF NounInflection, Injective, Apart
LEMMA ClustersFacts ==
  /\ Len(Clusters[2]) = 39 /\ Injective(Clusters[2])
  /\ Len(Clusters[3]) = 3 /\ Injective(Clusters[3]) /\ Apart(Clusters[3])
  /\ Len(Clusters[4]) = 1 /\ Injective(Clusters[4]) /\ Apart(Clusters[4])
  BY SMTT(60) DEF Clusters, Injective, Apart
LEMMA PoolFacts ==
  /\ Len(Letters) = 30 /\ Injective(Letters)
  /\ Len(ShortChunks) = 8 /\ Injective(ShortChunks)
  /\ Len(SuffixChunks) = 8 /\ Injective(SuffixChunks)
  /\ Len(StemChunks) = 8 /\ Injective(StemChunks)
  BY SMTT(60) DEF Letters, ShortChunks, SuffixChunks, StemChunks, Injective

LEMMA FamilyFacts ==
  ASSUME NEW f \in 1 .. Len(Families)
  PROVE  /\ Len(Families[f]) \in Nat /\ Injective(Families[f])
         /\ Apart(Families[f]) \/ Len(Families[f]) >= 11
<1> DEFINE t == <<VerbPrefix, VerbInfinitive, VerbFinite, AdjectiveDeriv, AdjectiveOuter,
                  NounDeriv, NounInflection, Clusters[2], Clusters[3], Clusters[4]>>
           Ok(x) == Len(x) \in Nat /\ Injective(x) /\ (Apart(x) \/ Len(x) >= 11)
<1>1. Families = t
  BY DEF Families
<1>2. f \in {1, 2, 3, 4, 5, 6, 7, 8, 9, 10}
  BY <1>1
<1>3. t[f] \in {VerbPrefix, VerbInfinitive, VerbFinite, AdjectiveDeriv, AdjectiveOuter,
                NounDeriv, NounInflection, Clusters[2], Clusters[3], Clusters[4]}
  BY <1>2
<1>4. /\ Ok(VerbPrefix) /\ Ok(VerbInfinitive) /\ Ok(VerbFinite) /\ Ok(AdjectiveDeriv)
      /\ Ok(AdjectiveOuter) /\ Ok(NounDeriv) /\ Ok(NounInflection)
      /\ Ok(Clusters[2]) /\ Ok(Clusters[3]) /\ Ok(Clusters[4])
  BY VerbPrefixFacts, VerbInfinitiveFacts, VerbFiniteFacts, AdjectiveDerivFacts, AdjectiveOuterFacts,
     NounDerivFacts, NounInflectionFacts, ClustersFacts
<1> HIDE DEF t, Ok
<1>5. Ok(Families[f])
  BY <1>1, <1>3, <1>4
<1> QED
  BY <1>5 DEF Ok

\* What fill_first_distinct finds: none twice, and, unless the case of the first
\* letter tells them apart, not the token.
LEMMA TurnedApart ==
  ASSUME NEW table, Len(table) \in {8, 30}, Injective(table), NEW seed, seed.start \in Nat
  PROVE  Len(Turned(table, seed)) = Len(table)
         /\ \A i, k \in 1 .. Len(table) : Turned(table, seed)[i] = Turned(table, seed)[k] => i = k
<1> DEFINE n == Len(table)
           a == seed.start
           t == Turned(table, seed)
           place(k) == ((a + k - 1) % n) + 1
<1>1. t = [k \in 1 .. n |-> table[place(k)]] /\ n \in {8, 30} /\ a \in Nat
  BY DEF Turned
<1>2. \A i, k \in 1 .. n : table[i] = table[k] => i = k
  BY DEF Injective
<1> HIDE DEF t, n, a
<1>3. \A k \in 1 .. n : place(k) \in 1 .. n
  <2> TAKE k \in 1 .. n
  <2>1. a + k - 1 \in Nat
    BY <1>1
  <2>2. CASE n = 8
    BY <2>1, <2>2
  <2>3. CASE n = 30
    BY <2>1, <2>3
  <2> QED
    BY <1>1, <2>2, <2>3
<1>4. \A i, k \in 1 .. n : place(i) = place(k) => i = k
  <2>1. CASE n = 8
    BY <1>1, <2>1
  <2>2. CASE n = 30
    <3>1. ASSUME NEW x \in Nat, NEW y \in Nat, x % 30 = y % 30, x - y < 30, y - x < 30 PROVE x = y
      <4>1. x = 30 * (x \div 30) + (x % 30) /\ y = 30 * (y \div 30) + (y % 30)
            /\ x \div 30 \in Int /\ y \div 30 \in Int
        OBVIOUS
      <4> QED
        BY <3>1, <4>1
    <3>2. ASSUME NEW i \in 1 .. 30, NEW k \in 1 .. 30, (a + i - 1) % 30 = (a + k - 1) % 30 PROVE i = k
      <4> DEFINE x == a + i - 1
                 y == a + k - 1
      <4>1. x \in Nat /\ y \in Nat /\ x - y < 30 /\ y - x < 30 /\ x % 30 = y % 30
        BY <1>1, <3>2
      <4>2. x = y
        <5> HIDE DEF x, y
        <5> QED
          BY <3>1, <4>1
      <4> QED
        BY <1>1, <4>2
    <3>3. \A k \in 1 .. 30 : (a + k - 1) % 30 \in 0 .. 29
      BY <1>1
    <3>4. ASSUME NEW i \in 1 .. n, NEW k \in 1 .. n, place(i) = place(k) PROVE i = k
      <4>1. i \in 1 .. 30 /\ k \in 1 .. 30
        BY <2>2
      <4>2. (a + i - 1) % 30 = (a + k - 1) % 30
        BY <2>2, <3>3, <3>4, <4>1
      <4> QED
        BY <3>2, <4>1, <4>2
    <3> QED
      BY <3>4
  <2> QED
    BY <1>1, <2>1, <2>2
<1>5. ASSUME NEW i \in 1 .. n, NEW k \in 1 .. n, t[i] = t[k] PROVE i = k
  <2>1. t[i] = table[place(i)] /\ t[k] = table[place(k)]
    BY <1>1
  <2>2. place(i) \in 1 .. n /\ place(k) \in 1 .. n
    BY <1>3
  <2>3. place(i) = place(k)
    <3> HIDE DEF place
    <3> QED
      BY <1>2, <1>5, <2>1, <2>2
  <2> QED
    BY <1>4, <2>3
<1>6. Len(t) = n
  <2> DEFINE W == {table[place(k)] : k \in 1 .. n}
  <2>1. t \in [1 .. n -> W] /\ n \in Nat
    BY <1>1
  <2> HIDE DEF W
  <2> QED
    BY <2>1, BuiltSeq
<1> QED
  BY <1>5, <1>6 DEF n, t

LEMMA FirstDistinctDiffer ==
  ASSUME NEW table, Len(table) \in {8, 30}, Injective(table), NEW seed, seed.start \in Nat,
         NEW token, NEW same \in BOOLEAN
  PROVE  /\ \A i, k \in 1 .. 4 : FillFirstDistinct(token, same, table, seed)[i]
                                   = FillFirstDistinct(token, same, table, seed)[k] => i = k
         /\ same => \A i \in 1 .. 4 : FillFirstDistinct(token, same, table, seed)[i] # token
<1> DEFINE n == Len(table)
           t == Turned(table, seed)
           r == FillFirstDistinct(token, same, table, seed)
           Passed(k) == same /\ \E j \in 1 .. k : t[j] = token
<1>1. n \in {8, 30} /\ \A i, k \in 1 .. n : t[i] = t[k] => i = k
  BY TurnedApart
<1>2. r = [k \in 1 .. 4 |-> IF Passed(k) THEN t[k + 1] ELSE t[k]]
  BY DEF FillFirstDistinct
<1> HIDE DEF n, t, r
<1>3. \A i \in 1 .. 4 : i \in 1 .. n /\ i + 1 \in 1 .. n
  BY <1>1
<1>4. \A i, k \in 1 .. 4 : Passed(i) /\ i <= k => Passed(k)
  OBVIOUS
<1>5. \A k \in 1 .. 4 : r[k] = t[IF Passed(k) THEN k + 1 ELSE k]
  BY <1>2
<1>6. ASSUME same, NEW k \in 1 .. 4 PROVE r[k] # token
  <2>1. CASE Passed(k)
    <3>1. PICK j \in 1 .. k : t[j] = token
      BY <2>1
    <3>2. j \in 1 .. n /\ k + 1 \in 1 .. n /\ j # k + 1
      BY <1>1, <1>3
    <3>3. r[k] = t[k + 1]
      BY <1>5, <2>1
    <3> QED
      BY <1>1, <3>1, <3>2, <3>3
  <2>2. CASE ~Passed(k)
    <3>1. k \in 1 .. k
      OBVIOUS
    <3>2. t[k] # token
      BY <1>6, <2>2, <3>1
    <3> QED
      BY <1>5, <2>2, <3>2
  <2> QED
    BY <2>1, <2>2
<1> HIDE DEF Passed
<1>7. ASSUME NEW i \in 1 .. 4, NEW k \in 1 .. 4, r[i] = r[k] PROVE i = k
  <2> DEFINE a == IF Passed(i) THEN i + 1 ELSE i
             b == IF Passed(k) THEN k + 1 ELSE k
  <2>1. a \in 1 .. n /\ b \in 1 .. n
    BY <1>3
  <2>2. t[a] = t[b]
    BY <1>5, <1>7
  <2>3. a = b
    <3> HIDE DEF a, b
    <3> QED
      BY <1>1, <2>1, <2>2
  <2>4. i <= k \/ k <= i
    OBVIOUS
  <2> QED
    BY <1>4, <2>3, <2>4
<1> QED
  BY <1>6, <1>7 DEF r

\* get_4_distractors_for_a_chunk: none twice, and none is the token, except that
\* the letters and the chunks for a token in no table may hold a token with a
\* capital.
THEOREM DistractorsDiffer ==
  ASSUME NEW token, NEW capital \in BOOLEAN, NEW seed, seed.start \in Nat, seed.offset \in {1, 2}
  PROVE  /\ \A i, k \in 1 .. 4 : Distractors(token, capital, seed)[i] = Distractors(token, capital, seed)[k]
                                   => i = k
         /\ ~capital => \A i \in 1 .. 4 : Distractors(token, capital, seed)[i] # token
<1> DEFINE family == {f \in 1 .. Len(Families) : Found(Families[f], token)}
           pool == IF Bytes(token) <= 6 THEN ShortChunks
                   ELSE IF Bytes(token) <= 12 THEN SuffixChunks ELSE StemChunks
           Ok(r) == /\ \A i, k \in 1 .. 4 : r[i] = r[k] => i = k
                    /\ ~capital => \A i \in 1 .. 4 : r[i] # token
           Long == Len(token) > 1
           Short == Len(token) <= 1
<1>1. Distractors(token, capital, seed) =
        CASE Short -> FillFirstDistinct(token, ~capital, Letters, seed)
          [] Long /\ family # {} -> FillNeighbors(token, Families[Min(family)], seed)
          [] OTHER -> FillFirstDistinct(token, ~capital, pool, seed)
  BY DEF Distractors
<1>2. \A table : Len(table) \in {8, 30} /\ Injective(table) => Ok(FillFirstDistinct(token, ~capital, table, seed))
  <2> TAKE table
  <2> SUFFICES ASSUME Len(table) \in {8, 30}, Injective(table)
               PROVE  Ok(FillFirstDistinct(token, ~capital, table, seed))
    OBVIOUS
  <2> DEFINE same == ~capital
  <2>1. same \in BOOLEAN
    OBVIOUS
  <2>2. same <=> ~capital
    OBVIOUS
  <2>3. Ok(FillFirstDistinct(token, same, table, seed))
    <3> HIDE DEF same
    <3> QED
      BY <2>1, <2>2, FirstDistinctDiffer
  <2> QED
    BY <2>3
<1>3. Ok(FillFirstDistinct(token, ~capital, Letters, seed))
  <2> HIDE DEF Ok
  <2> QED
    BY <1>2, PoolFacts
<1>4. Ok(FillFirstDistinct(token, ~capital, pool, seed))
  <2>1. pool \in {ShortChunks, SuffixChunks, StemChunks}
    OBVIOUS
  <2> HIDE DEF Ok, pool
  <2>2. Len(pool) \in {8, 30} /\ Injective(pool)
    BY <2>1, PoolFacts
  <2> QED
    BY <1>2, <2>2
<1>5. family # {} => Ok(FillNeighbors(token, Families[Min(family)], seed))
  <2> SUFFICES ASSUME family # {} PROVE Ok(FillNeighbors(token, Families[Min(family)], seed))
    OBVIOUS
  <2>1. family \subseteq Nat
    OBVIOUS
  <2>2. Min(family) \in family
    <3> HIDE DEF family
    <3> QED
      BY <2>1, LeastOf
  <2>3. Min(family) \in 1 .. Len(Families) /\ Found(Families[Min(family)], token)
    BY <2>2
  <2> DEFINE table == Families[Min(family)]
  <2>4. Len(table) \in Nat /\ Injective(table) /\ (Apart(table) \/ Len(table) >= 11)
    BY <2>3, FamilyFacts
  <2> HIDE DEF table
  <2>5. Found(table, token)
    BY <2>3 DEF table
  <2>6. Ok(FillNeighbors(token, table, seed))
    BY <2>4, <2>5, NeighborsDiffer
  <2> QED
    BY <2>6 DEF table
<1> HIDE DEF family, pool, Short, Long
<1>6. \/ Distractors(token, capital, seed) = FillFirstDistinct(token, ~capital, Letters, seed)
      \/ family # {} /\ Distractors(token, capital, seed) = FillNeighbors(token, Families[Min(family)], seed)
      \/ Distractors(token, capital, seed) = FillFirstDistinct(token, ~capital, pool, seed)
  BY <1>1
<1>7. Ok(Distractors(token, capital, seed))
  <2> HIDE DEF Ok
  <2> QED
    BY <1>3, <1>4, <1>5, <1>6
<1> QED
  BY <1>7

-----------------------------------------------------------------------------
(* The options of a substage differ. *)

\* In a list to be shuffled, what comes twice is the first entry and has a capital.
Single(s) == \A i, j \in 1 .. Len(s) : s[i] = s[j] => i = j \/ (s[i].capital /\ s[i] = s[1])
OptionsApart(offer) ==
  \A i, j \in 1 .. Len(offer.opts) :
    offer.opts[i] = offer.opts[j] =>
      i = j \/ (offer.opts[i].capital /\ offer.opts[i] = offer.opts[offer.correct])

LEMMA MixedApart ==
  ASSUME NEW s, Len(s) \in Nat, NEW r, Mixed(r, s), Single(s)
  PROVE  OptionsApart(r)
<1> DEFINE n == Len(s)
           o == r.opts
           c == r.correct
<1>1. o \in [1 .. n -> Range(s)] /\ c \in 1 .. n
  BY DEF Mixed
<1>2. PICK p \in [1 .. n -> 1 .. n] : IsPermutation(p, n) /\ LiesAs(o, s, p) /\ p[c] = 1
  BY DEF Mixed
<1>3. \A i \in 1 .. n : o[i] = s[p[i]] /\ p[i] \in 1 .. n
  BY <1>2 DEF LiesAs
<1>4. \A i, j \in 1 .. n : p[i] = p[j] => i = j
  BY <1>2 DEF IsPermutation
<1>5. n \in Nat
  OBVIOUS
<1> HIDE DEF n, o, c
<1>6. Len(o) = n
  BY <1>1, <1>5, BuiltSeq
<1>7. \A i, j \in 1 .. n : s[i] = s[j] => i = j \/ (s[i].capital /\ s[i] = s[1])
  BY DEF Single, n
<1>8. o[c] = s[1]
  BY <1>1, <1>2, <1>3
<1>9. ASSUME NEW i \in 1 .. n, NEW j \in 1 .. n, o[i] = o[j], i # j
      PROVE  o[i].capital /\ o[i] = o[c]
  <2>1. p[i] # p[j] /\ s[p[i]] = s[p[j]] /\ p[i] \in 1 .. n /\ p[j] \in 1 .. n
    BY <1>3, <1>4, <1>9
  <2>2. s[p[i]].capital /\ s[p[i]] = s[1]
    BY <1>7, <2>1
  <2> QED
    BY <1>3, <1>8, <2>2
<1> QED
  BY <1>6, <1>9 DEF OptionsApart, o, c

\* A text put before others, all with the same capital or without.
LEMMA BeforeOthers ==
  ASSUME NEW W, NEW x \in W, NEW t \in Seq(W), NEW capital \in BOOLEAN,
         \A i, j \in 1 .. Len(t) : t[i] = t[j] => i = j,
         ~capital => \A i \in 1 .. Len(t) : t[i] # x
  PROVE  LET s == AsOptions(<<x>> \o t, capital) IN Len(s) \in Nat /\ Single(s)
<1> DEFINE u == <<x>> \o t
           s == AsOptions(u, capital)
           n == Len(t) + 1
<1>1. /\ u \in Seq(W) /\ Len(u) = n /\ u[1] = x /\ Len(t) \in Nat
      /\ \A i \in 2 .. n : u[i] = t[i - 1]
  BY FollowedBy
<1> HIDE DEF u
<1>2. Len(s) = n /\ \A i \in 1 .. n : s[i] = Option(u[i], capital)
  BY <1>1, AsOptionsFacts
<1> HIDE DEF s
<1>3. ASSUME NEW i \in 1 .. n, NEW j \in 1 .. n, s[i] = s[j], i # j
      PROVE  s[i].capital /\ s[i] = s[1]
  <2>1. s[i] = Option(u[i], capital) /\ s[j] = Option(u[j], capital) /\ s[1] = Option(x, capital)
    <3>1. 1 \in 1 .. n
      BY <1>1
    <3> QED
      BY <1>1, <1>2, <3>1
  <2>2. u[i] = u[j]
    <3>1. Option(u[i], capital).text = u[i] /\ Option(u[j], capital).text = u[j]
      BY DEF Option
    <3> QED
      BY <1>3, <2>1, <3>1
  <2>3. i = 1 \/ j = 1
    <3> SUFFICES ASSUME i # 1, j # 1 PROVE FALSE
      OBVIOUS
    <3>1. i \in 2 .. n /\ j \in 2 .. n /\ i - 1 \in 1 .. Len(t) /\ j - 1 \in 1 .. Len(t)
      BY <1>1
    <3>2. t[i - 1] = t[j - 1]
      BY <1>1, <2>2, <3>1
    <3>3. i - 1 = j - 1
      BY <3>1, <3>2
    <3> QED
      BY <1>3, <3>1, <3>3
  <2>4. u[i] = x /\ u[j] = x
    BY <1>1, <2>2, <2>3
  <2>5. capital
    <3> SUFFICES ASSUME ~capital PROVE FALSE
      OBVIOUS
    <3>1. PICK k \in {i, j} : k # 1
      BY <1>3
    <3>2. k \in 2 .. n /\ k - 1 \in 1 .. Len(t)
      BY <1>1, <3>1
    <3>3. t[k - 1] = x
      BY <1>1, <2>4, <3>1, <3>2
    <3> QED
      BY <3>2, <3>3
  <2>6. Option(x, capital).capital
    BY <2>5 DEF Option
  <2> QED
    BY <2>1, <2>4, <2>6
<1> QED
  BY <1>1, <1>2, <1>3 DEF Single, s, u

LEMMA PartApart ==
  ASSUME NEW part, NEW capital \in BOOLEAN, NEW offer \in OfPart(part, capital)
  PROVE  OptionsApart(offer)
<1>1. PICK seed \in [right : BOOLEAN, offset : {1, 2}, start : Start] :
        Mixed(offer, AsOptions(<<part>> \o Distractors(part, capital, seed), capital))
  BY PartOffered
<1>2. seed.offset \in {1, 2} /\ seed.start \in Nat
  BY StartAssumption
<1> DEFINE t == Distractors(part, capital, seed)
<1>3. /\ \A i, j \in 1 .. 4 : t[i] = t[j] => i = j
      /\ ~capital => \A i \in 1 .. 4 : t[i] # part
  BY <1>2, DistractorsDiffer
<1>4. PICK U : t \in [1 .. 4 -> U]
  BY FourDistractors
<1>5. Mixed(offer, AsOptions(<<part>> \o t, capital))
  BY <1>1
<1> HIDE DEF t
<1> DEFINE W == U \cup {part}
<1>6. t \in [1 .. 4 -> W] /\ part \in W
  BY <1>4
<1> HIDE DEF W
<1>7. t \in Seq(W) /\ Len(t) = 4
  BY <1>6, BuiltSeq
<1> DEFINE s == AsOptions(<<part>> \o t, capital)
<1>8. Len(s) \in Nat /\ Single(s)
  <2>1. /\ \A i, j \in 1 .. Len(t) : t[i] = t[j] => i = j
        /\ ~capital => \A i \in 1 .. Len(t) : t[i] # part
    BY <1>3, <1>7
  <2> QED
    BY <1>6, <1>7, <2>1, BeforeOthers
<1> HIDE DEF s
<1> QED
  BY <1>5, <1>8, MixedApart DEF s

LEMMA PluralApart ==
  ASSUME NEW form, NEW offer \in OfPlural(form)
  PROVE  OptionsApart(offer)
<1>1. PICK chosen \in kSubset(4, Plurals \ {form.text}) :
        /\ IsFiniteSet(chosen) /\ Cardinality(chosen) = 4
        /\ Mixed(offer, AsOptions(<<form.text>> \o SetToSeq(chosen), FALSE))
  BY PluralOffered
<1>2. form.text \notin chosen
  BY DEF kSubset
<1> DEFINE t == SetToSeq(chosen)
           x == form.text
           W == chosen \cup {x}
<1>3. t \in [1 .. 4 -> chosen] /\ \A i, j \in 1 .. 4 : t[i] = t[j] => i = j
  BY <1>1, SetToSeqFacts
<1>4. Mixed(offer, AsOptions(<<x>> \o t, FALSE))
  BY <1>1
<1>5. x \notin chosen
  BY <1>2
<1> HIDE DEF t, x
<1>6. t \in [1 .. 4 -> W] /\ x \in W /\ \A i \in 1 .. 4 : t[i] # x
  BY <1>3, <1>5
<1> HIDE DEF W
<1>7. t \in Seq(W) /\ Len(t) = 4
  BY <1>6, BuiltSeq
<1> DEFINE s == AsOptions(<<x>> \o t, FALSE)
<1>8. Len(s) \in Nat /\ Single(s)
  <2>1. /\ \A i, j \in 1 .. Len(t) : t[i] = t[j] => i = j
        /\ \A i \in 1 .. Len(t) : t[i] # x
    BY <1>3, <1>6, <1>7
  <2>2. FALSE \in BOOLEAN
    OBVIOUS
  <2> QED
    BY <1>6, <1>7, <2>1, <2>2, BeforeOthers
<1> HIDE DEF s
<1> QED
  BY <1>4, <1>8, MixedApart DEF s

LEMMA EntireApart ==
  ASSUME NEW form, NEW offer \in OfEntire(form)
  PROVE  OptionsApart(offer)
<1> DEFINE right == Option(Trim(form.text), form.capital)
<1>1. PICK chosen : IsFiniteSet(chosen) /\ right \notin chosen /\ Mixed(offer, <<right>> \o SetToSeq(chosen))
  BY EntireOffered
<1> HIDE DEF right
<1> DEFINE t == SetToSeq(chosen)
           W == chosen \cup {right}
           n == Cardinality(chosen)
           s == <<right>> \o t
<1>2. t \in [1 .. n -> chosen] /\ n \in Nat /\ \A i, j \in 1 .. n : t[i] = t[j] => i = j
  BY <1>1, SetToSeqFacts
<1>3. Mixed(offer, s)
  BY <1>1
<1> HIDE DEF t, n
<1>4. t \in [1 .. n -> W] /\ right \in W /\ \A i \in 1 .. n : t[i] # right
  BY <1>1, <1>2
<1> HIDE DEF W
<1>5. t \in Seq(W) /\ Len(t) = n
  BY <1>2, <1>4, BuiltSeq
<1>6. Len(s) = n + 1 /\ s[1] = right /\ \A i \in 2 .. n + 1 : s[i] = t[i - 1]
  BY <1>4, <1>5, FollowedBy
<1> HIDE DEF s
<1>7. ASSUME NEW i \in 1 .. n + 1, NEW j \in 1 .. n + 1, s[i] = s[j] PROVE i = j
  <2>1. \A k \in 2 .. n + 1 : k - 1 \in 1 .. n /\ s[k] = t[k - 1] /\ s[k] # right
    BY <1>2, <1>4, <1>6
  <2>2. (i = 1 \/ i \in 2 .. n + 1) /\ (j = 1 \/ j \in 2 .. n + 1)
    BY <1>2
  <2>3. CASE i \in 2 .. n + 1 /\ j \in 2 .. n + 1
    <3>1. i - 1 = j - 1
      BY <1>2, <1>7, <2>1, <2>3
    <3> QED
      BY <1>2, <3>1
  <2> QED
    BY <1>6, <1>7, <2>1, <2>2, <2>3
<1>8. Len(s) \in Nat /\ Single(s)
  BY <1>2, <1>6, <1>7 DEF Single
<1> QED
  BY <1>3, <1>8, MixedApart

LEMMA FixedApart ==
  ASSUME NEW answer, NEW texts \in {<<"der", "die", "das", "none">>, <<"hat", "ist">>},
         NEW offer \in Fixed(texts, answer)
  PROVE  OptionsApart(offer)
<1>1. PICK k \in 1 .. Len(texts) : offer = [opts |-> AsOptions(texts, FALSE), correct |-> k]
  BY DEF Fixed
<1> DEFINE o == AsOptions(texts, FALSE)
           W == {"der", "die", "das", "none", "hat", "ist"}
<1>2. texts \in Seq(W) /\ Len(texts) \in Nat /\ \A i, j \in 1 .. Len(texts) : texts[i] = texts[j] => i = j
  <2>1. texts \in Seq(W)
    <3>1. <<"der", "die", "das", "none">> \in Seq(W) /\ <<"hat", "ist">> \in Seq(W)
      OBVIOUS
    <3> QED
      BY <3>1
  <2>2. CASE texts = <<"der", "die", "das", "none">>
    <3>1. Len(texts) = 4 /\ texts[1] = "der" /\ texts[2] = "die" /\ texts[3] = "das" /\ texts[4] = "none"
      BY <2>2
    <3> QED
      BY <2>1, <3>1
  <2>3. CASE texts = <<"hat", "ist">>
    <3>1. Len(texts) = 2 /\ texts[1] = "hat" /\ texts[2] = "ist"
      BY <2>3
    <3> QED
      BY <2>1, <3>1
  <2> QED
    BY <2>2, <2>3
<1>3. Len(o) = Len(texts) /\ \A i \in 1 .. Len(texts) : o[i] = Option(texts[i], FALSE)
  BY <1>2, AsOptionsFacts
<1>4. offer.opts = o
  BY <1>1
<1> HIDE DEF o
<1>5. ASSUME NEW i \in 1 .. Len(o), NEW j \in 1 .. Len(o), o[i] = o[j] PROVE i = j
  <2>1. Option(texts[i], FALSE).text = texts[i] /\ Option(texts[j], FALSE).text = texts[j]
    BY DEF Option
  <2>2. o[i] = Option(texts[i], FALSE) /\ o[j] = Option(texts[j], FALSE)
    BY <1>3
  <2>3. texts[i] = texts[j]
    BY <1>5, <2>1, <2>2
  <2> QED
    BY <1>2, <1>3, <2>3
<1> QED
  BY <1>4, <1>5 DEF OptionsApart

LEMMA OffersApart ==
  ASSUME NEW C, NEW form \in Askings(C), NEW part \in PartsOf(C), NEW offer \in Offers(form, part)
  PROVE  OptionsApart(offer)
<1>1. form.type \in {"article", "form", "plural", "aux"} /\ part.capital \in BOOLEAN
  BY DEF Askings, PartsOf
<1>2. CASE form.type = "article"
  <2>1. offer \in Fixed(<<"der", "die", "das", "none">>, form.text)
    BY <1>2 DEF Offers
  <2> QED
    BY <2>1, FixedApart
<1>3. CASE form.type = "aux"
  <2>1. offer \in Fixed(<<"hat", "ist">>, form.text)
    BY <1>3 DEF Offers
  <2> QED
    BY <2>1, FixedApart
<1>4. CASE form.type = "plural"
  <2>1. offer \in OfPlural(form)
    BY <1>4 DEF Offers
  <2> QED
    BY <2>1, PluralApart
<1>5. CASE form.type = "form" /\ way = "Entire"
  <2>1. offer \in OfEntire(form)
    BY <1>5 DEF Offers
  <2> QED
    BY <2>1, EntireApart
<1>6. CASE form.type = "form" /\ way # "Entire"
  <2>1. offer \in OfPart(part.text, part.capital)
    BY <1>6 DEF Offers
  <2> QED
    BY <1>1, <2>1, PartApart
<1> QED
  BY <1>1, <1>2, <1>3, <1>4, <1>5, <1>6

\* Whatever the word, the mode, the draws and the other forms: one option of a
\* substage only is the answer, except that the answer may come twice after a
\* capital.
THEOREM OptionsStayApart ==
  ASSUME NEW C, StringsAreWords(C)
  PROVE  StagesInit /\ [][StagesNext]_stageVars => []OptionsDiffer
<1> DEFINE Inv == SpellInv(C) /\ OptionsDiffer
<1>1. StagesInit => Inv
  <2> SUFFICES ASSUME StagesInit PROVE Inv
    OBVIOUS
  <2>1. opts = << >>
    BY DEF StagesInit
  <2>2. OptionsDiffer
    BY <2>1, EmptySeq DEF OptionsDiffer
  <2> QED
    BY <2>2, SpellStart
<1>2. Inv /\ [StagesNext]_stageVars => Inv'
  <2> SUFFICES ASSUME SpellInv(C), OptionsDiffer, [StagesNext]_stageVars PROVE SpellInv(C)' /\ OptionsDiffer'
    OBVIOUS
  <2>1. SpellInv(C)'
    BY SpellingStays
  <2>2. CASE OfferPart
    <3>1. PICK offer \in Offers(Form, Head(parts)) : opts' = offer.opts /\ correct' = offer.correct
      BY <2>2 DEF OfferPart
    <3>2. parts # << >> /\ parts \in Seq(PartsOf(C)) /\ at \in 1 .. Len(Forms(word)) /\ word \in Lexeme
      BY <2>2 DEF SpellInv, OfferPart
    <3>3. Form \in Askings(C)
      BY <3>2, FormsTyped DEF Form
    <3>4. Head(parts) \in PartsOf(C)
      BY <3>2, HeadTailProperties
    <3>5. OptionsApart(offer)
      BY <3>1, <3>3, <3>4, OffersApart
    <3> QED
      BY <2>1, <3>1, <3>5 DEF OptionsApart, OptionsDiffer
  <2>3. CASE PushSubstage
    <3>1. opts' = << >>
      BY <2>3 DEF PushSubstage
    <3> QED
      BY <2>1, <3>1, EmptySeq DEF OptionsDiffer
  <2>4. CASE OpenStage \/ UNCHANGED stageVars
    <3>1. opts' = opts /\ correct' = correct
      BY <2>4 DEF OpenStage, stageVars
    <3> QED
      BY <2>1, <3>1 DEF OptionsDiffer
  <2> QED
    BY <2>2, <2>3, <2>4 DEF StagesNext
<1>3. Inv => OptionsDiffer
  OBVIOUS
<1> HIDE DEF Inv
<1> QED
  BY <1>1, <1>2, <1>3, PTL
=============================================================================
